--------------------------- MODULE TextbookProofs ---------------------------
(***************************************************************************)
(* Proofs about the textbooks' examples.                                   *)
(*                                                                         *)
(* UringRead, for a buffer of any size: the three safety invariants, and   *)
(* that each step of the program and of the kernel is a step of the        *)
(* textbook's ring or none of its business.                                *)
(*                                                                         *)
(* SmallModels, for inputs of any size: the product by tiles is the        *)
(* product, an allocation is found exactly where there is one, the sectors *)
(* touched are those of the bytes, and a replica is where the deliveries   *)
(* have brought it.                                                        *)
(***************************************************************************)
EXTENDS UringRead, SmallModels, FiniteSetTheorems, TLAPS

-----------------------------------------------------------------------------
(* The reader *)

(* What main() has by the time it comes to each place. *)
Stages ==
  /\ pc \in {"args", "open", "fstat", "malloc", "queue_init", "get_sqe",
             "submit"} => request = "none" /\ ~requestMayBePending
  /\ pc = "args" => fd = "none" /\ buffer = "none" /\ ring = "none"
  /\ pc \in {"queue_init", "get_sqe", "submit", "wait"} => buffer = "live"
  /\ pc \in {"get_sqe", "submit", "wait"} => ring = "ready"
  /\ buffer = "freed" => pc \in {"close", "end"} /\ ~requestMayBePending
  /\ pc \in {"pending?", "close", "end"} => ring # "ready"
  /\ pc = "close" => buffer # "live"
  /\ ended # "no" => pc = "end"

(* As long as the flag is clear the kernel has nothing to work on, and while
   it works the buffer and the ring have existed. *)
Pending ==
  /\ ~requestMayBePending => request # "inflight"
  /\ Attempted => buffer # "none" /\ ring # "none"

(* A completion of the request's own tells what the kernel did, and it is
   only posted when it has done it. *)
Reported ==
  /\ \A c \in cqes : c.id = "ours" =>
       request = "done" /\ c.res \in {Errno, filled}
  /\ pc \notin {"cleanup", "pending?", "close", "end"} => exitStatus = "failure"

IInv ==
  /\ TypeOK
  /\ Stages /\ Pending /\ Reported
  /\ SuccessMeansRead /\ NothingLeaks

LEMMA IInvInit == Init => IInv
  <1> SUFFICES ASSUME Init PROVE IInv
    OBVIOUS
  <1>1. TypeOK
    <2>1. -1 \in Res /\ 0 \in 0 .. BufferSize
      BY BufferAssumption DEF Res, Errno
    <2> QED
      BY <2>1 DEF Init, TypeOK, Errno
  <1>2. Stages /\ Pending /\ Reported
    BY DEF Init, Stages, Pending, Reported, Attempted
  <1>3. SuccessMeansRead /\ NothingLeaks
    BY DEF Init, SuccessMeansRead, NothingLeaks
  <1> QED
    BY <1>1, <1>2, <1>3 DEF IInv

LEMMA IInvKernel ==
  ASSUME IInv, Fill \/ Complete \/ PostForeign
  PROVE  IInv'
  <1> USE BufferAssumption
      DEF IInv, TypeOK, Stages, Pending, Reported, Attempted,
          SuccessMeansRead, NothingLeaks, Res, Errno, resources, status
  <1>1. CASE Fill
    BY <1>1 DEF Fill
  <1>2. CASE Complete
    BY <1>2 DEF Complete
  <1>3. CASE PostForeign
    BY <1>3 DEF PostForeign
  <1> QED
    BY <1>1, <1>2, <1>3

LEMMA IInvStart ==
  ASSUME IInv,
         CheckArgs \/ Open \/ Fstat \/ Malloc \/ QueueInit \/ GetSqe \/ Submit
  PROVE  IInv'
  <1> USE BufferAssumption
      DEF IInv, TypeOK, Stages, Pending, Reported, Attempted, Goto,
          SuccessMeansRead, NothingLeaks, Res, Errno, resources, status, kernel
  <1>1. CASE CheckArgs
    BY <1>1 DEF CheckArgs
  <1>2. CASE Open
    BY <1>2 DEF Open
  <1>3. CASE Fstat
    BY <1>3 DEF Fstat
  <1>4. CASE Malloc
    BY <1>4 DEF Malloc
  <1>5. CASE QueueInit
    BY <1>5 DEF QueueInit
  <1>6. CASE GetSqe
    BY <1>6 DEF GetSqe
  <1>7. CASE Submit
    BY <1>7 DEF Submit
  <1> QED
    BY <1>1, <1>2, <1>3, <1>4, <1>5, <1>6, <1>7

LEMMA IInvEnd ==
  ASSUME IInv,
         \/ TakeCompletion \/ WaitFails
         \/ QueueExit \/ ExitWithoutFree \/ Free \/ CloseAndReturn
  PROVE  IInv'
  <1> USE BufferAssumption
      DEF IInv, TypeOK, Stages, Pending, Reported, Attempted,
          SuccessMeansRead, NothingLeaks, Res, Errno, resources, status, kernel
  <1>1. CASE TakeCompletion
    <2>1. PICK c \in cqes :
          /\ cqes' = cqes \ {c}
          /\ IF c.id = "ours"
             THEN /\ requestMayBePending' = FALSE
                  /\ printed' = c.res
                  /\ exitStatus' = IF c.res < 0 THEN exitStatus ELSE "success"
             ELSE UNCHANGED status
      BY <1>1 DEF TakeCompletion
    <2>2. c \in [id : {"ours", "foreign"}, res : Res]
      OBVIOUS
    <2>3. TypeOK'
      BY <1>1, <2>1, <2>2 DEF TakeCompletion
    <2>4. Stages' /\ Pending' /\ Reported'
      BY <1>1, <2>1, <2>2 DEF TakeCompletion
    <2>5. SuccessMeansRead' /\ NothingLeaks'
      BY <1>1, <2>1, <2>2 DEF TakeCompletion
    <2> QED
      BY <2>3, <2>4, <2>5
  <1>2. CASE WaitFails
    BY <1>2 DEF WaitFails
  <1>3. CASE QueueExit
    BY <1>3 DEF QueueExit
  <1>4. CASE ExitWithoutFree
    BY <1>4 DEF ExitWithoutFree
  <1>5. CASE Free
    BY <1>5 DEF Free
  <1>6. CASE CloseAndReturn
    BY <1>6 DEF CloseAndReturn
  <1> QED
    BY <1>1, <1>2, <1>3, <1>4, <1>5, <1>6

LEMMA IInvStep == IInv /\ [Next]_vars => IInv'
  <1> SUFFICES ASSUME IInv, [Next]_vars PROVE IInv'
    OBVIOUS
  <1>1. CASE UNCHANGED vars
    BY <1>1 DEF vars, resources, status, kernel, IInv, TypeOK, Stages, Pending,
         Reported, Attempted, SuccessMeansRead, NothingLeaks
  <1> QED
    BY <1>1, IInvKernel, IInvStart, IInvEnd DEF Next, Main

LEMMA IInvAlways == Spec => []IInv
  BY IInvInit, IInvStep, PTL DEF Spec

(* Every variable keeps its type; the completion queue only holds results a
   read of this buffer can have. *)
THEOREM TypeCorrect == Spec => []TypeOK
  <1>1. IInv => TypeOK
    BY DEF IInv
  <1> QED
    BY <1>1, IInvAlways, PTL

(* The kernel never writes into freed memory, whichever calls fail and in
   whatever order the kernel and the process move. *)
THEOREM BufferSafe == Spec => []BufferOutlivesRequest
  <1>1. IInv => BufferOutlivesRequest
    BY DEF IInv, TypeOK, Stages, Pending, Attempted, BufferOutlivesRequest
  <1> QED
    BY <1>1, IInvAlways, PTL

(* Success is only reported for a read that ended, with the right count. *)
THEOREM SuccessSound == Spec => []SuccessMeansRead
  <1>1. IInv => SuccessMeansRead
    BY DEF IInv
  <1> QED
    BY <1>1, IInvAlways, PTL

(* Every return from main gives back descriptor, buffer and ring. *)
THEOREM Tidy == Spec => []NothingLeaks
  <1>1. IInv => NothingLeaks
    BY DEF IInv
  <1> QED
    BY <1>1, IInvAlways, PTL

-----------------------------------------------------------------------------
(* The refinement: Submit is submit, the kernel's Complete is KernelDone, and
   Free, when there was a submission, is complete. *)

LEMMA LifetimeInit == Init => Lifetime!Init
  BY DEF Init, Lifetime!Init, Attempted, Freed

LEMMA SubmitSubmits ==
  ASSUME IInv, Submit
  PROVE  Lifetime!submit("read")
  <1>1. ~Attempted /\ Attempted' /\ buffer # "freed" /\ buffer' = buffer
    BY DEF IInv, Stages, TypeOK, Attempted, Submit, Goto, resources
  <1>2. Freed = {} /\ Freed' = {}
    BY <1>1 DEF Freed
  <1>3. request # "done" /\ request' # "done"
    BY DEF IInv, Stages, Submit, Goto
  <1> QED
    BY <1>1, <1>2, <1>3 DEF Lifetime!submit

LEMMA CompleteIsDone ==
  ASSUME IInv, Complete
  PROVE  Lifetime!KernelDone("read")
  <1>1. request = "inflight" /\ request' = "done"
    BY DEF Complete
  <1>2. Attempted /\ Attempted' /\ buffer # "freed" /\ buffer' = buffer
    BY <1>1 DEF IInv, Stages, Pending, TypeOK, Attempted, Complete, resources, status
  <1>3. Freed = {} /\ Freed' = {}
    BY <1>2 DEF Freed
  <1> QED
    BY <1>1, <1>2, <1>3 DEF Lifetime!KernelDone

LEMMA FreeReleases ==
  ASSUME IInv, Free, request # "none"
  PROVE  Lifetime!complete("read", "bytes")
  <1>1. request = "done" /\ request' = "done"
    BY DEF IInv, TypeOK, Pending, Free, kernel
  <1>2. buffer = "live" /\ buffer' = "freed"
    BY DEF IInv, TypeOK, Stages, Pending, Attempted, Free
  <1>3. Attempted /\ Attempted' /\ Freed = {} /\ Freed' = {"read"}
    BY <1>1, <1>2 DEF Attempted, Freed
  <1> QED
    BY <1>1, <1>3
    DEF Lifetime!complete, Lifetime!finish, Lifetime!release_once

(* Nothing else touches what the ring's rules are about. *)
LEMMA OtherStepsStutter ==
  ASSUME Attempted' <=> Attempted, Freed' = Freed,
         request' = "done" <=> request = "done"
  PROVE  UNCHANGED Lifetime!vars
  BY DEF Lifetime!vars

LEMMA ProcessStutters ==
  ASSUME IInv, TypeOK',
         request' = request, Attempted' <=> Attempted,
         buffer' = "freed" <=> buffer = "freed"
  PROVE  UNCHANGED Lifetime!vars
  <1>1. Freed' = Freed
    BY DEF Freed
  <1> QED
    BY <1>1, OtherStepsStutter

LEMMA LifetimeStep ==
  ASSUME IInv, IInv', [Next]_vars
  PROVE  [Lifetime!Next]_(Lifetime!vars)
  <1> USE DEF resources, status, kernel, Attempted
  <1>1. CASE Submit
    BY <1>1, SubmitSubmits DEF Lifetime!Next
  <1>2. CASE Complete
    BY <1>2, CompleteIsDone DEF Lifetime!Next
  <1>3. CASE Free /\ request # "none"
    BY <1>3, FreeReleases DEF Lifetime!Next
  <1>4. CASE Free /\ request = "none"
    <2>1. ~Attempted /\ ~Attempted' /\ request' = request
      BY <1>4 DEF Free
    <2>2. Freed' = Freed
      BY <2>1 DEF Freed
    <2> QED
      BY <1>4, <2>1, <2>2, OtherStepsStutter
  <1>5. CASE TakeCompletion
    <2>1. request' = request /\ buffer' = buffer
      BY <1>5 DEF TakeCompletion
    <2>2. Attempted' <=> Attempted
      BY <1>5 DEF TakeCompletion, IInv, Reported
    <2> QED
      BY <2>1, <2>2, ProcessStutters DEF IInv
  <1>6. CASE \/ CheckArgs \/ Open \/ Fstat \/ Malloc \/ QueueInit \/ GetSqe
             \/ QueueExit \/ ExitWithoutFree \/ CloseAndReturn
             \/ WaitFails \/ Fill \/ PostForeign \/ UNCHANGED vars
    <2>1. request' = request /\ requestMayBePending' = requestMayBePending
      BY <1>6 DEF CheckArgs, Open, Fstat, Malloc, QueueInit, GetSqe, QueueExit,
                  ExitWithoutFree, CloseAndReturn, WaitFails, Fill,
                  PostForeign, vars
    <2>2. buffer' = buffer \/ Malloc
      BY <1>6 DEF CheckArgs, Open, Fstat, QueueInit, GetSqe, QueueExit,
                  ExitWithoutFree, CloseAndReturn, WaitFails, Fill,
                  PostForeign, vars
    <2>3. buffer' = "freed" <=> buffer = "freed"
      <3>1. CASE Malloc
        <4>1. buffer # "freed" /\ buffer' \in {buffer, "live"}
          BY <3>1 DEF Malloc, Goto, IInv, Stages
        <4> QED
          BY <4>1
      <3> QED
        BY <2>2, <3>1
    <2> QED
      BY <2>1, <2>3, ProcessStutters DEF IInv
  <1> QED
    BY <1>1, <1>2, <1>3, <1>4, <1>5, <1>6 DEF Next, Main

(* The program keeps the rules of ring_lifetime_model.py, for any buffer and
   whatever fails: one submission, one answer, one release, in this order. *)
THEOREM KeepsLifetime == Spec => LifetimeKept
  <1>1. IInv /\ IInv' /\ [Next]_vars => [Lifetime!Next]_(Lifetime!vars)
    BY LifetimeStep
  <1> QED
    BY <1>1, LifetimeInit, IInvAlways, PTL DEF Spec, LifetimeKept, Lifetime!Spec

-----------------------------------------------------------------------------
(* Induction, in the form of a set of numbers: the library's own theorems are
   about an operator, which the provers cannot instantiate. *)

LEMMA SetInduction ==
  ASSUME NEW T, 0 \in T, \A n \in Nat : n \in T => n + 1 \in T
  PROVE  Nat \subseteq T
  <1> DEFINE Missing == Nat \ T
  <1>1. SUFFICES ASSUME Missing # {} PROVE FALSE
    OBVIOUS
  <1>2. \E n \in Missing : \A m \in Missing : ~ (m < n)
    <2> DEFINE Less == {p \in Nat \X Nat : p[1] < p[2]}
    <2>1. IsWellFoundedOn(Less, Nat)
      BY NatLessThanWellFounded DEF OpToRel
    <2>2. \E n \in Missing : \A m \in Missing : <<m, n>> \notin Less
      <3> HIDE DEF Less
      <3> QED
        BY <1>1, <2>1, WFMin
    <2> QED
      BY <2>2
  <1>3. PICK n \in Missing : \A m \in Missing : ~ (m < n)
    BY <1>2
  <1>4. n \in Nat /\ n # 0
    BY <1>3
  <1>5. n - 1 \in T
    BY <1>3, <1>4
  <1> QED
    BY <1>3, <1>4, <1>5

-----------------------------------------------------------------------------
(* The sum of an integer function over a finite set, taken in the order that
   CHOOSE gives: it exists, does not depend on that order, and grows by what
   is added. *)

Pick(S) == CHOOSE x \in S : TRUE

Adds(f, g, s) == IF s = {} THEN 0 ELSE f[Pick(s)] + g[s \ {Pick(s)}]

Sums(f, g, S) == g = [s \in SUBSET S |-> Adds(f, g, s)]

Integral(f, S) == \A x \in S : f[x] \in Int

LEMMA SumDef == \A f, S : SumFunctionOnSet(f, S) = (CHOOSE g : Sums(f, g, S))[S]
  BY DEF SumFunctionOnSet, FoldFunctionOnSet, MapThenFoldSet, Sums, Adds, Pick

LEMMA Smaller ==
  ASSUME NEW U, IsFiniteSet(U), NEW S \in SUBSET U
  PROVE  /\ IsFiniteSet(S) /\ Cardinality(S) \in Nat
         /\ Cardinality(S) = 0 <=> S = {}
         /\ S # {} => Pick(S) \in S
         /\ \A x \in S : Cardinality(S \ {x}) = Cardinality(S) - 1
  <1>1. IsFiniteSet(S)
    BY FS_Subset
  <1>2. S # {} => Pick(S) \in S
    BY DEF Pick
  <1> QED
    BY <1>1, <1>2, FS_CardinalityType, FS_EmptySet, FS_RemoveElement

LEMMA SumsAt ==
  ASSUME NEW f, NEW S, NEW g, Sums(f, g, S), NEW s \in SUBSET S
  PROVE  g[s] = Adds(f, g, s)
  BY DEF Sums

(* Smaller sets first, a function that follows the equation can be extended. *)
LEMMA SumsExist ==
  ASSUME NEW U, IsFiniteSet(U), NEW f
  PROVE  \E g : Sums(f, g, U)
  <1> DEFINE Size(n) == {s \in SUBSET U : Cardinality(s) <= n}
             Good(n) == \E g : \A s \in Size(n) : g[s] = Adds(f, g, s)
             T == {n \in Nat : Good(n)}
  <1>1. 0 \in T
    <2> DEFINE zero == [s \in SUBSET U |-> 0]
    <2>1. ASSUME NEW s \in Size(0) PROVE zero[s] = Adds(f, zero, s)
      <3>1. s = {}
        BY Smaller
      <3> QED
        BY <3>1 DEF Adds
    <2> QED
      BY <2>1
  <1>2. ASSUME NEW n \in Nat, n \in T PROVE n + 1 \in T
    <2>1. PICK g : \A s \in Size(n) : g[s] = Adds(f, g, s)
      BY <1>2
    <2> DEFINE h == [s \in SUBSET U |-> Adds(f, g, s)]
    <2>2. ASSUME NEW s \in Size(n + 1) PROVE h[s] = Adds(f, h, s)
      <3>1. CASE s = {}
        BY <3>1 DEF Adds
      <3>2. CASE s # {}
        <4> DEFINE r == s \ {Pick(s)}
        <4>1. r \in Size(n)
          BY <3>2, Smaller
        <4>2. h[r] = g[r]
          BY <2>1, <4>1
        <4> HIDE DEF r
        <4>3. h[s] = f[Pick(s)] + g[r] /\ Adds(f, h, s) = f[Pick(s)] + h[r]
          BY <3>2 DEF r, Adds
        <4> QED
          BY <4>2, <4>3
      <3> QED
        BY <3>1, <3>2
    <2>3. Good(n + 1)
      BY <2>2
    <2> QED
      BY <2>3
  <1>3. PICK g : \A s \in SUBSET U : g[s] = Adds(f, g, s)
    <2>1. Cardinality(U) \in Nat /\ Nat \subseteq T
      <3> HIDE DEF T
      <3> QED
        BY <1>1, <1>2, SetInduction, FS_CardinalityType
    <2>2. \A s \in SUBSET U : Cardinality(s) <= Cardinality(U)
      BY FS_Subset
    <2> QED
      BY <2>1, <2>2
  <1> DEFINE h == [s \in SUBSET U |-> g[s]]
  <1>4. ASSUME NEW s \in SUBSET U PROVE h[s] = Adds(f, h, s)
    <2>1. h[s \ {Pick(s)}] = g[s \ {Pick(s)}]
      OBVIOUS
    <2>2. Adds(f, h, s) = Adds(f, g, s)
      <3> HIDE DEF h
      <3> QED
        BY <2>1 DEF Adds
    <2> QED
      BY <1>3, <2>2
  <1>5. h = [s \in SUBSET U |-> h[s]]
    OBVIOUS
  <1> HIDE DEF h
  <1>6. h = [s \in SUBSET U |-> Adds(f, h, s)]
    BY <1>4, <1>5
  <1> QED
    BY <1>6 DEF Sums

(* The equation leaves one value for each set, wherever its function ends. *)
LEMMA SumsAgree ==
  ASSUME NEW U, IsFiniteSet(U), NEW f,
         NEW S \in SUBSET U, NEW g, Sums(f, g, U), NEW h, Sums(f, h, S)
  PROVE  h[S] = g[S]
  <1> DEFINE T == {n \in Nat : \A s \in SUBSET S : Cardinality(s) = n => h[s] = g[s]}
  <1>1. 0 \in T
    <2>1. ASSUME NEW s \in SUBSET S, Cardinality(s) = 0 PROVE h[s] = g[s]
      <3>1. s = {}
        BY <2>1, Smaller
      <3>2. h[s] = Adds(f, h, s) /\ g[s] = Adds(f, g, s)
        BY SumsAt
      <3> QED
        BY <3>1, <3>2 DEF Adds
    <2> QED
      BY <2>1
  <1>2. ASSUME NEW n \in Nat, n \in T PROVE n + 1 \in T
    <2> SUFFICES ASSUME NEW s \in SUBSET S, Cardinality(s) = n + 1 PROVE h[s] = g[s]
      OBVIOUS
    <2>1. s # {} /\ s \ {Pick(s)} \in SUBSET S /\ Cardinality(s \ {Pick(s)}) = n
      BY Smaller
    <2>2. h[s \ {Pick(s)}] = g[s \ {Pick(s)}]
      BY <1>2, <2>1
    <2>3. h[s] = Adds(f, h, s) /\ g[s] = Adds(f, g, s)
      BY SumsAt
    <2> QED
      BY <2>1, <2>2, <2>3 DEF Adds
  <1>3. Cardinality(S) \in Nat /\ Nat \subseteq T
    <2> HIDE DEF T
    <2> QED
      BY <1>1, <1>2, SetInduction, Smaller
  <1> QED
    BY <1>3

LEMMA SumIs ==
  ASSUME NEW U, IsFiniteSet(U), NEW f, NEW g, Sums(f, g, U), NEW S \in SUBSET U
  PROVE  SumFunctionOnSet(f, S) = g[S]
  <1>1. \E h : Sums(f, h, S)
    BY SumsExist, Smaller
  <1>2. Sums(f, CHOOSE h : Sums(f, h, S), S)
    BY <1>1
  <1> QED
    BY <1>2, SumDef, SumsAgree

(* Whichever element is taken out first, the sum is the same. *)
TakenOut(f, S, x) ==
  /\ SumFunctionOnSet(f, S \ {x}) \in Int
  /\ SumFunctionOnSet(f, S) = f[x] + SumFunctionOnSet(f, S \ {x})

LEMMA SumRemove ==
  ASSUME NEW U, IsFiniteSet(U), NEW f, Integral(f, U),
         NEW S \in SUBSET U, NEW x \in S
  PROVE  TakenOut(f, S, x)
  <1>1. PICK g : Sums(f, g, U)
    BY SumsExist
  <1>0. \A y \in U : f[y] \in Int
    BY DEF Integral
  <1>2. g[{}] = 0
    BY <1>1, SumsAt DEF Adds
  <1>3. \A s \in SUBSET U : s # {} =>
          Pick(s) \in s /\ g[s] = f[Pick(s)] + g[s \ {Pick(s)}]
    BY <1>1, SumsAt, Smaller DEF Adds
  <1> DEFINE Splits(s) == g[s] \in Int /\ \A y \in s : g[s] = f[y] + g[s \ {y}]
             T == {n \in Nat : \A s \in SUBSET U : Cardinality(s) <= n => Splits(s)}
  <1>4. 0 \in T
    <2> SUFFICES ASSUME NEW s \in SUBSET U, Cardinality(s) <= 0 PROVE Splits(s)
      OBVIOUS
    <2>1. s = {}
      BY Smaller
    <2>2. g[s] = 0
      BY <1>2, <2>1
    <2> QED
      BY <2>1, <2>2
  <1>5. ASSUME NEW n \in Nat, n \in T PROVE n + 1 \in T
    <2> SUFFICES ASSUME NEW s \in SUBSET U, Cardinality(s) <= n + 1
                 PROVE  Splits(s)
      OBVIOUS
    <2>1. CASE s = {}
      <3>1. g[s] = 0
        BY <1>2, <2>1
      <3> QED
        BY <2>1, <3>1
    <2>2. CASE s # {}
      <3> DEFINE p == Pick(s)
      <3>1. p \in s /\ g[s] = f[p] + g[s \ {p}]
        BY <1>3, <2>2
      <3> HIDE DEF p
      <3>2. \A y \in s : s \ {y} \in SUBSET U /\ Splits(s \ {y})
        <4>1. \A y \in s : s \ {y} \in SUBSET U /\ Cardinality(s \ {y}) <= n
          BY Smaller
        <4> QED
          BY <1>5, <4>1
      <3>3. ASSUME NEW y \in s, y # p PROVE g[s] = f[y] + g[s \ {y}]
        <4> DEFINE r == (s \ {y}) \ {p}
        <4>1. r = (s \ {p}) \ {y}
          OBVIOUS
        <4>2. g[s \ {p}] = f[y] + g[r] /\ g[s \ {y}] = f[p] + g[r]
          BY <3>1, <3>2, <3>3, <4>1
        <4>3. g[r] \in Int
          <5>1. r \in SUBSET U /\ Cardinality(r) <= n
            <6>1. Cardinality(s \ {y}) <= n /\ p \in s \ {y}
              BY <3>1, <3>3, Smaller
            <6>2. Cardinality(r) = Cardinality(s \ {y}) - 1 /\ Cardinality(s \ {y}) \in Nat
              BY <3>2, <6>1, Smaller
            <6> QED
              BY <6>1, <6>2
          <5> QED
            BY <1>5, <5>1
        <4> HIDE DEF r
        <4>4. f[y] \in Int /\ f[p] \in Int
          BY <1>0, <3>1
        <4> QED
          BY <3>1, <4>2, <4>3, <4>4
      <3>4. g[s] \in Int
        <4>1. f[p] \in Int /\ g[s \ {p}] \in Int
          BY <1>0, <3>1, <3>2
        <4> QED
          BY <3>1, <4>1
      <3> QED
        BY <3>1, <3>3, <3>4
    <2> QED
      BY <2>1, <2>2
  <1>6. \A s \in SUBSET U : Splits(s)
    <2>1. Nat \subseteq T
      <3> HIDE DEF T
      <3> QED
        BY <1>4, <1>5, SetInduction
    <2> QED
      BY <2>1, Smaller
  <1>7. SumFunctionOnSet(f, S) = g[S] /\ SumFunctionOnSet(f, S \ {x}) = g[S \ {x}]
    BY <1>1, SumIs
  <1>8. S \ {x} \in SUBSET U
    OBVIOUS
  <1> QED
    BY <1>6, <1>7, <1>8 DEF TakenOut

LEMMA SumEmpty == \A f : SumFunctionOnSet(f, {}) = 0
  <1> SUFFICES ASSUME NEW f PROVE SumFunctionOnSet(f, {}) = 0
    OBVIOUS
  <1>1. IsFiniteSet({})
    BY FS_EmptySet
  <1>2. PICK g : Sums(f, g, {})
    BY <1>1, SumsExist
  <1> QED
    BY <1>1, <1>2, SumIs, SumsAt DEF Adds

-----------------------------------------------------------------------------
(* Tiles *)

LEMMA ModIs ==
  ASSUME NEW d \in Nat \ {0}, NEW n \in Nat
  PROVE  /\ n % d \in 0 .. d - 1 /\ n - (n % d) \in 0 .. n
         /\ n = d * (n \div d) + (n % d) /\ n \div d \in Nat
  OBVIOUS

LEMMA ModOf ==
  ASSUME NEW d \in Nat \ {0}, NEW q \in Nat, NEW r \in 0 .. d - 1
  PROVE  (d * q + r) % d = r
  OBVIOUS

LEMMA ModSplit ==
  ASSUME NEW d \in Nat \ {0}, NEW n \in Nat
  PROVE  (n - (n % d)) % d = 0
  <1>1. n - (n % d) = d * (n \div d) + 0 /\ n \div d \in Nat
    BY ModIs
  <1> QED
    BY <1>1, ModOf

(* A tile has an element where the matrix has one, and else zero. *)
LEMMA TileAt ==
  ASSUME NEW x, NEW row, NEW col, NEW size, NEW i \in 0 .. size - 1, NEW j \in 0 .. size - 1
  PROVE  Tile(x, row, col, size)[<<i, j>>]
           = IF <<row + i, col + j>> \in DOMAIN x THEN x[<<row + i, col + j>>] ELSE 0
  <1>1. <<i, j>> \in Cells(size, size)
    BY DEF Cells
  <1> QED
    BY <1>1 DEF Tile

(* The places of all tiles along the inner dimension, each a base and an
   offset, are the numbers from 0 on, each once; those past the end add
   nothing. *)
Padded(f, h, inner, size) ==
  \A k \in Bases(inner, size) \X (0 .. size - 1) :
    h[k] = IF k[1] + k[2] < inner THEN f[k[1] + k[2]] ELSE 0

LEMMA TilesCover ==
  ASSUME NEW inner \in Nat, NEW size \in Nat \ {0},
         NEW f, Integral(f, 0 .. inner - 1), NEW h, Padded(f, h, inner, size)
  PROVE  SumFunctionOnSet(h, Bases(inner, size) \X (0 .. size - 1)) = SumFunctionOnSet(f, 0 .. inner - 1)
  <1> DEFINE K == Bases(inner, size) \X (0 .. size - 1)
             I == 0 .. inner - 1
             Tiled(n) == {k \in K : k[1] + k[2] < n}
             Plain(n) == {k \in I : k < n}
             T == {n \in Nat : SumFunctionOnSet(h, Tiled(n)) = SumFunctionOnSet(f, Plain(n))}
  <1>1. IsFiniteSet(K) /\ IsFiniteSet(I)
    <2>1. IsFiniteSet(I) /\ IsFiniteSet(0 .. size - 1)
      BY FS_Interval
    <2>2. IsFiniteSet(Bases(inner, size))
      BY <2>1, FS_Subset DEF Bases
    <2> QED
      BY <2>1, <2>2, FS_Product
  <1>2. ASSUME NEW k \in K
        PROVE  /\ k[1] \in I /\ k[2] \in 0 .. size - 1 /\ k = <<k[1], k[2]>>
               /\ k[1] + k[2] \in Nat
               /\ k[2] = (k[1] + k[2]) % size
    <2>1. PICK base \in I, offset \in 0 .. size - 1 :
            k = <<base, offset>> /\ base % size = 0
      BY DEF Bases
    <2>2. base = size * (base \div size) /\ base \div size \in Nat
      <3>1. base \in Nat
        OBVIOUS
      <3> HIDE DEF I, K
      <3>2. base = size * (base \div size) + (base % size) /\ base \div size \in Nat
        BY <3>1, ModIs
      <3> QED
        BY <2>1, <3>2
    <2>3. (base + offset) % size = offset
      BY <2>2, ModOf
    <2> QED
      BY <2>1, <2>3
  <1>3. Integral(h, K)
    BY <1>2 DEF Integral, Padded
  <1>4. 0 \in T
    <2>1. Tiled(0) = {}
      BY <1>2
    <2>2. Plain(0) = {}
      OBVIOUS
    <2> QED
      BY <2>1, <2>2, SumEmpty
  <1>5. ASSUME NEW n \in Nat, n \in T PROVE n + 1 \in T
    <2> SUFFICES SumFunctionOnSet(h, Tiled(n + 1)) = SumFunctionOnSet(f, Plain(n + 1))
      OBVIOUS
    <2> DEFINE e == <<n - (n % size), n % size>>
    <2>0. SumFunctionOnSet(h, Tiled(n)) = SumFunctionOnSet(f, Plain(n))
      BY <1>5
    <2>1. n % size \in 0 .. size - 1 /\ n - (n % size) \in 0 .. n /\ e[1] + e[2] = n
      <3>1. n % size \in 0 .. size - 1 /\ n - (n % size) \in 0 .. n
        BY ModIs
      <3> QED
        BY <3>1
    <2>2. e \in K <=> e[1] < inner
      BY <2>1, ModSplit DEF Bases
    <2>2a. e[1] \in 0 .. n
      BY <2>1
    <2>3. \A k \in K : k[1] + k[2] = n => k = e
      BY <1>2
    <2> HIDE DEF e
    <2>4. CASE e \in K
      <3>1. e \in Tiled(n + 1) /\ Tiled(n + 1) \ {e} = Tiled(n)
        <4>1. \A k \in K : k[1] + k[2] \in Nat
          BY <1>2
        <4> HIDE DEF K
        <4>2. \A k \in K : k[1] + k[2] < n + 1 <=> k[1] + k[2] < n \/ k = e
          BY <2>1, <2>3, <4>1
        <4>3. ~ (e[1] + e[2] < n)
          BY <2>1
        <4> QED
          BY <2>4, <4>2, <4>3
      <3>2. SumFunctionOnSet(h, Tiled(n)) \in Int /\ SumFunctionOnSet(h, Tiled(n + 1)) = h[e] + SumFunctionOnSet(h, Tiled(n))
        <4>1. Tiled(n + 1) \in SUBSET K
          OBVIOUS
        <4> HIDE DEF K, Tiled
        <4> DEFINE S == Tiled(n + 1)
        <4>2. e \in S /\ S \in SUBSET K
          BY <3>1, <4>1
        <4> HIDE DEF S
        <4>3. IsFiniteSet(K)
          BY <1>1
        <4>4. TakenOut(h, S, e)
          BY <1>3, <4>2, <4>3, SumRemove, Zenon
        <4> QED
          BY <3>1, <4>4 DEF S, TakenOut
      <3>3. CASE n < inner
        <4>1. n \in Plain(n + 1) /\ Plain(n + 1) \ {n} = Plain(n)
          BY <3>3
        <4>2. SumFunctionOnSet(f, Plain(n + 1)) = f[n] + SumFunctionOnSet(f, Plain(n))
          <5>1. Plain(n + 1) \in SUBSET I /\ Integral(f, I)
            OBVIOUS
          <5> HIDE DEF I, Plain
          <5> DEFINE S == Plain(n + 1)
          <5>2. n \in S /\ S \in SUBSET I
            BY <4>1, <5>1
          <5> HIDE DEF S
          <5>3. IsFiniteSet(I)
            BY <1>1
          <5>4. TakenOut(f, S, n)
            BY <5>1, <5>2, <5>3, SumRemove, Zenon
          <5> QED
            BY <4>1, <5>4 DEF S, TakenOut
        <4>3. h[e] = f[n]
          BY <2>1, <2>4, <3>3 DEF Padded
        <4> QED
          BY <2>0, <3>2, <4>2, <4>3
      <3>4. CASE ~ (n < inner)
        <4>1. Plain(n + 1) = Plain(n)
          BY <3>4
        <4>2. h[e] = 0
          BY <2>1, <2>4, <3>4 DEF Padded
        <4> HIDE DEF Plain, Tiled
        <4> QED
          BY <2>0, <3>2, <4>1, <4>2
      <3> QED
        BY <3>3, <3>4
    <2>5. CASE e \notin K
      <3>1. ~ (n < inner)
        BY <2>1, <2>2, <2>2a, <2>5
      <3>2. Tiled(n + 1) = Tiled(n)
        BY <1>2, <2>3, <2>5
      <3>3. Plain(n + 1) = Plain(n)
        BY <3>1
      <3> QED
        BY <2>0, <3>2, <3>3
    <2> QED
      BY <2>4, <2>5
  <1>6. inner + size \in T
    <2> HIDE DEF T
    <2> QED
      BY <1>4, <1>5, SetInduction
  <1>7. Tiled(inner + size) = K
    BY <1>2
  <1>8. Plain(inner + size) = I
    OBVIOUS
  <1> QED
    BY <1>6, <1>7, <1>8

(* tiled_matmul: whatever the tile size, and whether or not it divides the
   matrices, the product by tiles is the product. *)
THEOREM TilesMultiply ==
  ASSUME NEW rows \in Nat, NEW inner \in Nat, NEW cols \in Nat, NEW size \in Nat \ {0},
         NEW a \in [Cells(rows, inner) -> Int], NEW b \in [Cells(inner, cols) -> Int]
  PROVE  tiled_matmul(a, b, rows, inner, cols, size)
           = reference_matmul(a, b, rows, inner, cols)
  <1> DEFINE K == Bases(inner, size) \X (0 .. size - 1)
             I == 0 .. inner - 1
  <1>1. IsFiniteSet(K) /\ IsFiniteSet(I)
    <2>1. IsFiniteSet(I) /\ IsFiniteSet(0 .. size - 1)
      BY FS_Interval
    <2>2. IsFiniteSet(Bases(inner, size))
      BY <2>1, FS_Subset DEF Bases
    <2> QED
      BY <2>1, <2>2, FS_Product
  <1>2. ASSUME NEW c \in Cells(rows, cols)
        PROVE  tiled_matmul(a, b, rows, inner, cols, size)[c]
                 = reference_matmul(a, b, rows, inner, cols)[c]
    <2> DEFINE i == c[1] % size
               j == c[2] % size
               row == c[1] - i
               col == c[2] - j
               t == <<i, j>>
               f == [k \in I |-> a[<<c[1], k>>] * b[<<k, c[2]>>]]
               h == [k \in K |-> Tile(a, row, k[1], size)[<<t[1], k[2]>>]
                                 * Tile(b, k[1], col, size)[<<k[2], t[2]>>]]
    <2>1. c[1] \in 0 .. rows - 1 /\ c[2] \in 0 .. cols - 1
      BY DEF Cells
    <2>2. /\ i \in 0 .. size - 1 /\ j \in 0 .. size - 1 /\ row + i = c[1] /\ col + j = c[2]
          /\ t \in Cells(size, size) /\ t[1] = i /\ t[2] = j
      <3>1. c[1] \in Nat /\ c[2] \in Nat
        BY <2>1
      <3>2. i \in 0 .. size - 1 /\ j \in 0 .. size - 1
        BY <3>1, ModIs
      <3> QED
        BY <3>1, <3>2 DEF Cells
    <2>3. reference_matmul(a, b, rows, inner, cols)[c] = SumFunctionOnSet(f, I)
      BY DEF reference_matmul, SumFunction
    <2>4. tiled_matmul(a, b, rows, inner, cols, size)[c] = SumFunctionOnSet(h, K)
      <3>1. tiled_matmul(a, b, rows, inner, cols, size)[c]
              = Accum(a, b, row, col, inner, size)[t]
        BY DEF tiled_matmul
      <3> HIDE DEF t, row, col
      <3>2. Accum(a, b, row, col, inner, size)[t] = SumFunctionOnSet(h, K)
        BY <2>2 DEF Accum, SumFunction
      <3> QED
        BY <3>1, <3>2
    <2>5. Integral(f, I)
      <3>1. \A k \in I : <<c[1], k>> \in Cells(rows, inner) /\ <<k, c[2]>> \in Cells(inner, cols)
        BY <2>1 DEF Cells
      <3>2. \A k \in I : a[<<c[1], k>>] \in Int /\ b[<<k, c[2]>>] \in Int
        BY <3>1
      <3> QED
        BY <3>2 DEF Integral
    <2>6. ASSUME NEW k \in K
          PROVE  h[k] = IF k[1] + k[2] < inner THEN f[k[1] + k[2]] ELSE 0
      <3> DEFINE m == k[1] + k[2]
      <3>1. k[1] \in 0 .. inner - 1 /\ k[2] \in 0 .. size - 1 /\ m \in Nat
        BY DEF Bases
      <3>2. Tile(a, row, k[1], size)[<<i, k[2]>>]
              = IF <<c[1], m>> \in DOMAIN a THEN a[<<c[1], m>>] ELSE 0
        BY <2>2, <3>1, TileAt
      <3>3. Tile(b, k[1], col, size)[<<k[2], j>>]
              = IF <<m, c[2]>> \in DOMAIN b THEN b[<<m, c[2]>>] ELSE 0
        BY <2>2, <3>1, TileAt
      <3>4. (<<c[1], m>> \in DOMAIN a <=> m < inner) /\ (<<m, c[2]>> \in DOMAIN b <=> m < inner)
        BY <2>1, <3>1 DEF Cells
      <3>5. h[k] = Tile(a, row, k[1], size)[<<i, k[2]>>] * Tile(b, k[1], col, size)[<<k[2], j>>]
        BY <2>2
      <3> HIDE DEF m, h
      <3>6. CASE m < inner
        <4>1. h[k] = a[<<c[1], m>>] * b[<<m, c[2]>>] /\ m \in I
          BY <3>1, <3>2, <3>3, <3>4, <3>5, <3>6
        <4>2. h[k] = f[m]
          BY <4>1
        <4> QED
          BY <3>6, <4>2 DEF m
      <3>7. CASE ~ (m < inner)
        <4>1. h[k] = 0 * 0
          BY <3>2, <3>3, <3>4, <3>5, <3>7
        <4> QED
          BY <3>7, <4>1 DEF m
      <3> QED
        BY <3>6, <3>7
    <2> HIDE DEF f, h
    <2>7. Padded(f, h, inner, size)
      BY <2>6 DEF Padded
    <2> QED
      BY <2>3, <2>4, <2>5, <2>7, TilesCover
  <1>3. /\ tiled_matmul(a, b, rows, inner, cols, size)
             = [c \in Cells(rows, cols) |-> tiled_matmul(a, b, rows, inner, cols, size)[c]]
        /\ reference_matmul(a, b, rows, inner, cols)
             = [c \in Cells(rows, cols) |-> reference_matmul(a, b, rows, inner, cols)[c]]
    BY DEF tiled_matmul, reference_matmul
  <1> QED
    BY <1>2, <1>3

-----------------------------------------------------------------------------
(* Device allocation *)

(* In a finite set ordered by R something comes first. *)
Orders(R, S) ==
  /\ \A x, y \in S : x # y => <<x, y>> \in R \/ <<y, x>> \in R
  /\ \A x, y, z \in S : <<x, y>> \in R /\ <<y, z>> \in R => <<x, z>> \in R

HasFirst(R, S) == \E x \in S : \A y \in S \ {x} : <<x, y>> \in R

LEMMA FirstExists ==
  ASSUME NEW S, IsFiniteSet(S), S # {}, NEW R, Orders(R, S)
  PROVE  HasFirst(R, S)
  <1> DEFINE Has(X) == \E x \in X : \A y \in X \ {x} : <<x, y>> \in R
             T == {n \in Nat : \A X \in SUBSET S : X # {} /\ Cardinality(X) = n => Has(X)}
  <1>1. 0 \in T
    BY Smaller
  <1>2. ASSUME NEW n \in Nat, n \in T PROVE n + 1 \in T
    <2> SUFFICES ASSUME NEW X \in SUBSET S, X # {}, Cardinality(X) = n + 1 PROVE Has(X)
      OBVIOUS
    <2>1. PICK e \in X : TRUE
      OBVIOUS
    <2> DEFINE rest == X \ {e}
    <2>2. rest \in SUBSET S /\ Cardinality(rest) = n
      BY Smaller
    <2>3. CASE rest = {}
      BY <2>3
    <2>4. CASE rest # {}
      <3>1. Has(rest)
        BY <1>2, <2>2, <2>4
      <3>2. PICK x \in rest : \A y \in rest \ {x} : <<x, y>> \in R
        BY <3>1
      <3>3. CASE <<x, e>> \in R
        BY <3>2, <3>3
      <3>4. CASE <<e, x>> \in R
        <4>1. \A y \in X \ {e} : <<e, y>> \in R
          BY <3>2, <3>4 DEF Orders
        <4> QED
          BY <4>1
      <3> QED
        BY <3>2, <3>3, <3>4 DEF Orders
    <2> QED
      BY <2>3, <2>4
  <1>3. Cardinality(S) \in T
    <2> HIDE DEF T
    <2> QED
      BY <1>1, <1>2, SetInduction, FS_CardinalityType
  <1> QED
    BY <1>3 DEF HasFirst

LEMMA UptoFinite == \A n \in Nat : IsFiniteSet(1 .. n)
  BY FS_Interval

LEMMA LeastExists ==
  ASSUME NEW S \in SUBSET Int, IsFiniteSet(S), S # {}
  PROVE  \E n \in S : \A m \in S : n <= m
  <1> DEFINE R == {p \in S \X S : p[1] < p[2]}
  <1>1. Orders(R, S)
    BY DEF Orders
  <1>2. HasFirst(R, S)
    <2> HIDE DEF R
    <2> QED
      BY <1>1, FirstExists
  <1>3. PICK x \in S : \A y \in S \ {x} : <<x, y>> \in R
    BY <1>2 DEF HasFirst
  <1>4. \A y \in S : y # x => x < y
    BY <1>3
  <1> QED
    BY <1>4

(* Selections of finitely many places for finitely many requests. *)
LEMMA FinitelyMany ==
  ASSUME NEW A, NEW B, IsFiniteSet(A), IsFiniteSet(B), NEW S \in SUBSET [A -> B]
  PROVE  IsFiniteSet(S)
  <1> DEFINE Graph(f) == {p \in A \X B : f[p[1]] = p[2]}
             g == [f \in [A -> B] |-> Graph(f)]
  <1>1. IsFiniteSet(SUBSET (A \X B))
    BY FS_Product, FS_SUBSET
  <1>2. g \in [[A -> B] -> SUBSET (A \X B)]
    OBVIOUS
  <1>3. ASSUME NEW f \in [A -> B], NEW h \in [A -> B], g[f] = g[h] PROVE f = h
    <2>1. \A x \in A : <<x, f[x]>> \in Graph(f)
      OBVIOUS
    <2>2. \A x \in A : f[x] = h[x]
      BY <1>3, <2>1
    <2> QED
      BY <2>2
  <1>4. g \in Injection([A -> B], SUBSET (A \X B))
    <2> HIDE DEF g
    <2> QED
      BY <1>2, <1>3 DEF Injection, IsInjective
  <1> QED
    BY <1>1, <1>4, FS_Injection, FS_Subset

(* Two tuples differ somewhere first, so one is before the other. *)
LEMMA FirstOfIs ==
  ASSUME NEW n \in Nat, NEW S \in SUBSET [1 .. n -> Nat], IsFiniteSet(S), S # {}
  PROVE  FirstOf(S) \in S /\ \A l \in S \ {FirstOf(S)} : Before(FirstOf(S), l)
  <1> DEFINE R == {p \in S \X S : Before(p[1], p[2])}
  <1>1. ASSUME NEW k \in S, NEW l \in S, k # l PROVE <<k, l>> \in R \/ <<l, k>> \in R
    <2> DEFINE D == {i \in 1 .. n : k[i] # l[i]}
    <2>1. D # {}
      <3>1. k \in [1 .. n -> Nat] /\ l \in [1 .. n -> Nat]
        OBVIOUS
      <3>2. (\A i \in 1 .. n : k[i] = l[i]) => k = l
        BY <3>1
      <3> QED
        BY <1>1, <3>2
    <2>2. IsFiniteSet(D) /\ D \in SUBSET Int
      BY FS_Interval, FS_Subset
    <2>3. PICK i \in D : \A j \in D : i <= j
      <3> HIDE DEF D
      <3> QED
        BY <2>1, <2>2, LeastExists
    <2>4. \A j \in 1 .. i - 1 : k[j] = l[j]
      BY <2>3
    <2>5. k[i] \in Nat /\ l[i] \in Nat /\ k[i] # l[i] /\ i \in DOMAIN k /\ i \in DOMAIN l
      OBVIOUS
    <2>6. k[i] < l[i] \/ l[i] < k[i]
      BY <2>5
    <2>7. Before(k, l) \/ Before(l, k)
      BY <2>4, <2>5, <2>6 DEF Before
    <2> QED
      BY <2>7
  <1>2. ASSUME NEW k \in S, NEW l \in S, NEW m \in S, <<k, l>> \in R, <<l, m>> \in R
        PROVE  <<k, m>> \in R
    <2>1. PICK i \in 1 .. n : k[i] < l[i] /\ \A a \in 1 .. i - 1 : k[a] = l[a]
      BY <1>2 DEF Before
    <2>2. PICK j \in 1 .. n : l[j] < m[j] /\ \A a \in 1 .. j - 1 : l[a] = m[a]
      BY <1>2 DEF Before
    <2>3. \E c \in 1 .. n : k[c] < m[c] /\ \A a \in 1 .. c - 1 : k[a] = m[a]
      <3>0. \A c \in 1 .. n : k[c] \in Nat /\ l[c] \in Nat /\ m[c] \in Nat
        OBVIOUS
      <3>1. CASE i <= j
        <4>1. k[i] \in Nat /\ l[i] \in Nat /\ m[i] \in Nat
          BY <3>0
        <4>2. l[i] <= m[i]
          <5>1. CASE i = j
            BY <2>2, <4>1, <5>1
          <5>2. CASE i < j
            BY <2>2, <4>1, <5>2
          <5> QED
            BY <3>1, <5>1, <5>2
        <4>3. k[i] < m[i]
          BY <2>1, <4>1, <4>2
        <4> QED
          BY <2>1, <2>2, <3>1, <4>3
      <3>2. CASE j < i
        <4>1. k[j] < m[j]
          BY <2>1, <2>2, <3>0, <3>2
        <4> QED
          BY <2>1, <2>2, <3>2, <4>1
      <3> QED
        BY <3>1, <3>2
    <2> QED
      BY <2>3 DEF Before
  <1>3. HasFirst(R, S)
    <2> HIDE DEF R
    <2>1. Orders(R, S)
      BY <1>1, <1>2 DEF Orders
    <2> QED
      BY <2>1, FirstExists
  <1>4. \E k \in S : \A l \in S \ {k} : Before(k, l)
    BY <1>3 DEF HasFirst
  <1> QED
    BY <1>4, Zenon DEF FirstOf

(* Requests can be met by places if of every amount there are as many places
   as requests: the smallest request gets a place the others have left. *)
Enough(req, D, mem, A) ==
  \A m \in Int : Cardinality({r \in D : req[r] >= m}) <= Cardinality({i \in A : mem[i] >= m})

Assignments(req, D, mem, A) ==
  {s \in [D -> A] : IsInjective(s) /\ \A r \in D : mem[s[r]] >= req[r]}

LEMMA SmallestExists ==
  ASSUME NEW X, IsFiniteSet(X), X # {}, NEW v, \A x \in X : v[x] \in Int
  PROVE  \E e \in X : \A x \in X : v[e] <= v[x]
  <1> DEFINE V == {v[x] : x \in X}
             g == [x \in X |-> v[x]]
  <1>1. g \in Surjection(X, V)
    BY DEF Surjection
  <1>2. IsFiniteSet(V) /\ V \in SUBSET Int /\ V # {}
    <2>1. V \in SUBSET Int /\ V # {}
      OBVIOUS
    <2> HIDE DEF g, V
    <2> QED
      BY <1>1, <2>1, FS_Surjection
  <1>3. PICK n \in V : \A m \in V : n <= m
    <2> HIDE DEF V
    <2> QED
      BY <1>2, LeastExists
  <1> QED
    BY <1>3

LEMMA ChoiceExists ==
  ASSUME NEW D, IsFiniteSet(D), NEW A, IsFiniteSet(A),
         NEW req \in [D -> Int], NEW mem \in [A -> Int], Enough(req, D, mem, A)
  PROVE  Assignments(req, D, mem, A) # {}
  <1> DEFINE T == {n \in Nat : \A X \in SUBSET D :
                     Cardinality(X) = n => Assignments(req, X, mem, A) # {}}
  <1>1. 0 \in T
    <2> SUFFICES ASSUME NEW X \in SUBSET D, Cardinality(X) = 0
                 PROVE  Assignments(req, X, mem, A) # {}
      OBVIOUS
    <2>1. X = {}
      BY Smaller
    <2> DEFINE s == [r \in X |-> r]
    <2>2. s \in Assignments(req, X, mem, A)
      BY <2>1 DEF Assignments, IsInjective
    <2> QED
      BY <2>2
  <1>2. ASSUME NEW n \in Nat, n \in T PROVE n + 1 \in T
    <2> SUFFICES ASSUME NEW X \in SUBSET D, Cardinality(X) = n + 1
                 PROVE  Assignments(req, X, mem, A) # {}
      OBVIOUS
    <2>1. IsFiniteSet(X) /\ X # {}
      BY Smaller
    <2>2. PICK e \in X : \A r \in X : req[e] <= req[r]
      BY <2>1, SmallestExists
    <2> DEFINE rest == X \ {e}
               wanted == {r \in D : req[r] >= req[e]}
               large == {i \in A : mem[i] >= req[e]}
    <2>3. rest \in SUBSET D /\ Cardinality(rest) = n
      BY Smaller
    <2>4. PICK s \in Assignments(req, rest, mem, A) : TRUE
      BY <1>2, <2>3
    <2>5. s \in [rest -> A] /\ IsInjective(s) /\ \A r \in rest : mem[s[r]] >= req[r]
      BY <2>4 DEF Assignments
    <2> DEFINE taken == {s[r] : r \in rest}
    <2>6. IsFiniteSet(taken) /\ Cardinality(taken) <= n /\ Cardinality(taken) \in Nat
      <3>1. IsFiniteSet(rest)
        BY <2>3, Smaller
      <3> DEFINE g == [r \in rest |-> s[r]]
      <3>2. g \in Surjection(rest, taken)
        BY DEF Surjection
      <3> HIDE DEF g, taken, rest
      <3> QED
        BY <2>3, <3>1, <3>2, FS_Surjection, FS_CardinalityType
    <2>7. Cardinality(large) >= n + 1 /\ Cardinality(large) \in Nat
      <3>1. IsFiniteSet(wanted) /\ IsFiniteSet(large)
        BY FS_Subset
      <3>2. X \subseteq wanted
        BY <2>2
      <3>3. req[e] \in Int
        OBVIOUS
      <3>4. Cardinality(wanted) <= Cardinality(large)
        BY <3>3 DEF Enough
      <3> HIDE DEF wanted, large
      <3>5. n + 1 <= Cardinality(wanted)
        BY <3>1, <3>2, FS_Subset
      <3> QED
        BY <3>1, <3>4, <3>5, FS_CardinalityType
    <2>8. \E i \in large : i \notin taken
      <3> HIDE DEF large, taken
      <3>1. SUFFICES ASSUME large \in SUBSET taken PROVE FALSE
        OBVIOUS
      <3>2. Cardinality(large) <= Cardinality(taken)
        BY <2>6, <3>1, FS_Subset
      <3> QED
        BY <2>6, <2>7, <3>2
    <2>9. PICK i \in A : mem[i] >= req[e] /\ i \notin taken
      BY <2>8
    <2> DEFINE t == [r \in X |-> IF r = e THEN i ELSE s[r]]
    <2>10. t \in [X -> A] /\ \A r \in X : mem[t[r]] >= req[r]
      BY <2>5, <2>9
    <2>11. \A r \in rest : t[r] = s[r] /\ t[r] # t[e]
      BY <2>9
    <2>12. IsInjective(t)
      <3> HIDE DEF t
      <3> QED
        BY <2>5, <2>10, <2>11 DEF IsInjective
    <2>13. t \in Assignments(req, X, mem, A)
      <3> HIDE DEF t
      <3> QED
        BY <2>10, <2>12 DEF Assignments
    <2> QED
      BY <2>13
  <1>3. Cardinality(D) \in T
    <2> HIDE DEF T
    <2> QED
      BY <1>1, <1>2, SetInduction, FS_CardinalityType
  <1> QED
    BY <1>3

LEMMA ChoiceNeedsEnough ==
  ASSUME NEW D, IsFiniteSet(D), NEW A, IsFiniteSet(A),
         NEW req \in [D -> Int], NEW mem \in [A -> Int],
         NEW s \in Assignments(req, D, mem, A)
  PROVE  Enough(req, D, mem, A)
  <1> SUFFICES ASSUME NEW m \in Int
               PROVE  Cardinality({r \in D : req[r] >= m}) <= Cardinality({i \in A : mem[i] >= m})
    BY DEF Enough
  <1> DEFINE wanted == {r \in D : req[r] >= m}
             large == {i \in A : mem[i] >= m}
             t == [r \in wanted |-> s[r]]
  <1>1. s \in [D -> A] /\ IsInjective(s) /\ \A r \in D : mem[s[r]] >= req[r]
    BY DEF Assignments
  <1>2. t \in [wanted -> large]
    <2>1. \A r \in wanted : s[r] \in A /\ mem[s[r]] >= m
      BY <1>1
    <2> QED
      BY <2>1
  <1>3. t \in Injection(wanted, large)
    BY <1>1, <1>2 DEF Injection, IsInjective
  <1>4. IsFiniteSet(large)
    BY FS_Subset
  <1> HIDE DEF t, wanted, large
  <1>5. Cardinality(wanted) <= Cardinality(large)
    BY <1>3, <1>4, FS_Injection
  <1> QED
    BY <1>5 DEF wanted, large

(* What a dict keeps under a name is the device of the last request of it. *)
LEMMA LastIsKept ==
  ASSUME NEW R, NEW requests \in Seq(R), NEW devices, NEW s,
         NEW r \in DOMAIN requests,
         \A l \in DOMAIN requests : l > r => requests[l].name # requests[r].name
  PROVE  Assigned(devices, requests, s)[requests[r].name] = devices[s[r]]
  <1> DEFINE name == requests[r].name
             Last1(c) == /\ requests[c].name = name
                         /\ \A l \in DOMAIN requests : requests[l].name = name => l <= c
  <1>1. DOMAIN requests \subseteq Nat
    OBVIOUS
  <1>2. Last1(r)
    BY <1>1
  <1>3. \A c \in DOMAIN requests : Last1(c) => c = r
    BY <1>1, <1>2
  <1>4. LastNamed(requests, name) = r
    <2>1. LastNamed(requests, name) = CHOOSE c \in DOMAIN requests : Last1(c)
      BY DEF LastNamed
    <2> HIDE DEF Last1, name
    <2> QED
      BY <1>2, <1>3, <2>1
  <1>5. name \in {q.name : q \in ToSet(requests)}
    BY DEF ToSet
  <1> QED
    BY <1>4, <1>5 DEF Assigned

(* allocate: the devices come from the first node that can meet the requests,
   which is the first with as many free devices of every amount of memory as
   requests for it, and None is only answered where there is no such node; on
   that node each request gets a device of its own with the memory it asks for,
   by the selection permutations() comes to first, and each name leads to the
   device of the last request of that name. *)
THEOREM AllocationExact ==
  ASSUME NEW Name, NEW devices \in Seq([node : Int, name : Name, memory_gib : Int]),
         NEW requests \in Seq([name : Name, min_memory_gib : Int]), NEW reserved
  PROVE  LET Spare(n) == Available(devices, n, reserved)
             wanted == [r \in DOMAIN requests |-> requests[r].min_memory_gib]
             able == {n \in {devices[i].node : i \in DOMAIN devices} :
                        Enough(wanted, DOMAIN requests,
                               [i \in Spare(n) |-> devices[i].memory_gib], Spare(n))}
             answer == allocate(devices, requests, reserved)
         IN /\ able = {} => answer = None
            /\ able # {} =>
                 /\ answer.node \in able /\ \A m \in able : answer.node <= m
                 /\ DOMAIN answer.assignments = {requests[r].name : r \in DOMAIN requests}
                 /\ \E s \in Selections(devices, Spare(answer.node), requests) :
                      /\ \A r \in DOMAIN requests :
                           (\A l \in DOMAIN requests : l > r => requests[l].name # requests[r].name)
                             => answer.assignments[requests[r].name] = devices[s[r]]
                      /\ \A t \in Selections(devices, Spare(answer.node), requests) \ {s} :
                           Before(s, t)
  <1> DEFINE D == DOMAIN requests
             wanted == [r \in D |-> requests[r].min_memory_gib]
             Spare(n) == Available(devices, n, reserved)
             Memory(n) == [i \in Spare(n) |-> devices[i].memory_gib]
             nodes == {devices[i].node : i \in DOMAIN devices}
             able == {n \in nodes : Enough(wanted, D, Memory(n), Spare(n))}
             Fitting(n) == Selections(devices, Spare(n), requests)
             least == CHOOSE n \in able : \A m \in able : n <= m
             first == FirstOf(Fitting(least))
             answer == allocate(devices, requests, reserved)
             Kept(given, s) ==
               \A r \in D : (\A l \in D : l > r => requests[l].name # requests[r].name)
                             => given[requests[r].name] = devices[s[r]]
  <1> SUFFICES /\ able = {} => answer = None
               /\ able # {} =>
                    /\ answer.node \in able /\ \A m \in able : answer.node <= m
                    /\ DOMAIN answer.assignments = {requests[r].name : r \in D}
                    /\ \E s \in Fitting(answer.node) :
                         /\ Kept(answer.assignments, s)
                         /\ \A t \in Fitting(answer.node) \ {s} : Before(s, t)
    OBVIOUS
  <1>0. \A i \in DOMAIN devices : devices[i].node \in Int /\ devices[i].memory_gib \in Int
    <2> DEFINE Device == [node : Int, name : Name, memory_gib : Int]
    <2>1. devices \in Seq(Device)
      OBVIOUS
    <2>2. \A i \in DOMAIN devices : devices[i] \in Device
      <3> HIDE DEF Device
      <3> QED
        BY <2>1
    <2> QED
      BY <2>2
  <1>1. /\ IsFiniteSet(D) /\ D = 1 .. Len(requests) /\ Len(requests) \in Nat
        /\ wanted \in [D -> Int]
    <2> DEFINE R == [name : Name, min_memory_gib : Int]
    <2>1. requests \in Seq(R)
      OBVIOUS
    <2>2. D = 1 .. Len(requests) /\ Len(requests) \in Nat /\ \A r \in D : requests[r] \in R
      <3> HIDE DEF R
      <3> QED
        BY <2>1
    <2>3. wanted \in [D -> Int]
      <3> HIDE DEF D
      <3> QED
        BY <2>2
    <2>4. IsFiniteSet(1 .. Len(requests))
      BY <2>2, UptoFinite, Zenon
    <2> QED
      BY <2>2, <2>3, <2>4
  <1>2. IsFiniteSet(DOMAIN devices) /\ DOMAIN devices \subseteq Nat
    <2>1. DOMAIN devices = 1 .. Len(devices) /\ Len(devices) \in Nat
      OBVIOUS
    <2>2. IsFiniteSet(1 .. Len(devices))
      BY <2>1, UptoFinite, Zenon
    <2> QED
      BY <2>1, <2>2
  <1>3. \A n : Spare(n) \in SUBSET DOMAIN devices /\ IsFiniteSet(Spare(n))
    BY <1>2, FS_Subset DEF Available
  <1>4. \A n : Memory(n) \in [Spare(n) -> Int]
    <2> HIDE DEF Spare
    <2> QED
      BY <1>0, <1>3
  <1>5. \A n : Fitting(n) = Assignments(wanted, D, Memory(n), Spare(n))
    <2> HIDE DEF Spare
    <2> QED
      BY DEF Selections, Assignments
  <1>6. \A n : Fitting(n) # {} <=> Enough(wanted, D, Memory(n), Spare(n))
    <2> SUFFICES ASSUME NEW n
                 PROVE  Fitting(n) # {} <=> Enough(wanted, D, Memory(n), Spare(n))
      OBVIOUS
    <2> DEFINE A == Spare(n)
               mem == Memory(n)
    <2>1. IsFiniteSet(A) /\ mem \in [A -> Int] /\ Fitting(n) = Assignments(wanted, D, mem, A)
      BY <1>3, <1>4, <1>5
    <2> HIDE DEF A, mem, D, Fitting, wanted
    <2>2. Assignments(wanted, D, mem, A) # {} <=> Enough(wanted, D, mem, A)
      BY <1>1, <2>1, ChoiceExists, ChoiceNeedsEnough
    <2> QED
      BY <2>1, <2>2 DEF A, mem
  <1>7. able = {n \in nodes : Fitting(n) # {}}
    BY <1>6
  <1>8. {d.node : d \in ToSet(devices)} = nodes
    BY DEF ToSet
  <1>9. answer = IF able = {} THEN None
                 ELSE [node |-> least, assignments |-> Assigned(devices, requests, first)]
    <2>1. answer
            = LET ready == {n \in {d.node : d \in ToSet(devices)} : Fitting(n) # {}}
                  node == CHOOSE n \in ready : \A m \in ready : n <= m
              IN IF ready = {} THEN None
                 ELSE [node |-> node,
                       assignments |-> Assigned(devices, requests, FirstOf(Fitting(node)))]
      BY DEF allocate
    <2> HIDE DEF able, nodes, D, Fitting, answer
    <2> QED
      BY <1>7, <1>8, <2>1
  <1>10. ASSUME able # {}
         PROVE  least \in able /\ (\A m \in able : least <= m)
    <2>1. IsFiniteSet(able) /\ able \in SUBSET Int
      <3>1. nodes \in SUBSET Int
        BY <1>0
      <3>2. IsFiniteSet(nodes)
        <4> DEFINE g == [i \in DOMAIN devices |-> devices[i].node]
        <4>1. g \in Surjection(DOMAIN devices, nodes)
          BY DEF Surjection
        <4> HIDE DEF g, nodes
        <4> QED
          BY <1>2, <4>1, FS_Surjection
      <3> QED
        BY <3>1, <3>2, FS_Subset
    <2> HIDE DEF able
    <2> QED
      BY <1>10, <2>1, LeastExists
  <1>11. ASSUME able # {}
         PROVE  first \in Fitting(least) /\ (\A t \in Fitting(least) \ {first} : Before(first, t))
    <2>1. Fitting(least) # {}
      <3> HIDE DEF able, least, Fitting
      <3> QED
        BY <1>7, <1>10, <1>11
    <2>2. Fitting(least) \in SUBSET [D -> Spare(least)]
      BY DEF Selections
    <2> HIDE DEF least, Fitting, D, Spare
    <2>3. IsFiniteSet(Fitting(least))
      BY <1>1, <1>3, <2>2, FinitelyMany
    <2>4. Fitting(least) \in SUBSET [1 .. Len(requests) -> Nat]
      BY <1>1, <1>2, <1>3, <2>2
    <2> QED
      BY <1>1, <2>1, <2>3, <2>4, FirstOfIs
  <1>12. DOMAIN Assigned(devices, requests, first) = {requests[r].name : r \in D}
    BY DEF Assigned, ToSet
  <1>13. Kept(Assigned(devices, requests, first), first)
    <2> HIDE DEF first
    <2> QED
      BY LastIsKept
  <1>14. ASSUME able # {}
         PROVE  answer.node = least /\ answer.assignments = Assigned(devices, requests, first)
    <2> HIDE DEF least, first, able, answer
    <2> QED
      BY <1>9, <1>14
  <1> HIDE DEF least, first, able, Fitting, D, Kept, answer
  <1> QED
    BY <1>9, <1>10, <1>11, <1>12, <1>13, <1>14

-----------------------------------------------------------------------------
(* Replication *)

(* The first k entries of the log can be read off the first n deliveries d, in
   order. *)
ReadOff(d, n, k) ==
  \E at \in [1 .. k -> 1 .. n] :
    /\ \A i \in 1 .. k : d[at[i]].index = i
    /\ \A i, j \in 1 .. k : i < j => at[i] < at[j]

InOrder(d, n, replica, log) ==
  /\ replica.applied_index \in Nat /\ replica.value = log[replica.applied_index]
  /\ ReadOff(d, n, replica.applied_index) /\ ~ReadOff(d, n, replica.applied_index + 1)

(* What can be read off grows by at most the entry that is delivered next. *)
LEMMA ReadOffMore ==
  ASSUME NEW d, NEW n \in Nat, NEW k \in Nat, ReadOff(d, n, k)
  PROVE  /\ ReadOff(d, n + 1, k)
         /\ d[n + 1].index = k + 1 => ReadOff(d, n + 1, k + 1)
  <1>1. PICK at \in [1 .. k -> 1 .. n] : /\ \A i \in 1 .. k : d[at[i]].index = i
                                         /\ \A i, j \in 1 .. k : i < j => at[i] < at[j]
    BY DEF ReadOff
  <1>2. at \in [1 .. k -> 1 .. n + 1]
    OBVIOUS
  <1>3. ReadOff(d, n + 1, k)
    BY <1>1, <1>2 DEF ReadOff
  <1>4. ASSUME d[n + 1].index = k + 1 PROVE ReadOff(d, n + 1, k + 1)
    <2> DEFINE more == [i \in 1 .. k + 1 |-> IF i = k + 1 THEN n + 1 ELSE at[i]]
    <2>1. \A i \in 1 .. k + 1 : i # k + 1 => i \in 1 .. k
      OBVIOUS
    <2>2. \A i \in 1 .. k : at[i] \in 1 .. n
      OBVIOUS
    <2>3. more \in [1 .. k + 1 -> 1 .. n + 1]
      BY <2>1, <2>2
    <2>4. \A i \in 1 .. k + 1 : d[more[i]].index = i
      BY <1>1, <1>4, <2>1
    <2>5. \A i, j \in 1 .. k + 1 : i < j => more[i] < more[j]
      BY <1>1, <2>1, <2>2
    <2> HIDE DEF more
    <2> QED
      BY <2>3, <2>4, <2>5 DEF ReadOff
  <1> QED
    BY <1>3, <1>4

LEMMA ReadOffLess ==
  ASSUME NEW d, NEW n \in Nat, NEW k \in Nat, ReadOff(d, n + 1, k + 1)
  PROVE  /\ ReadOff(d, n, k)
         /\ d[n + 1].index # k + 1 => ReadOff(d, n, k + 1)
  <1>1. PICK at \in [1 .. k + 1 -> 1 .. n + 1] :
          /\ \A i \in 1 .. k + 1 : d[at[i]].index = i
          /\ \A i, j \in 1 .. k + 1 : i < j => at[i] < at[j]
    BY DEF ReadOff
  <1>2. \A i \in 1 .. k + 1 : at[i] \in 1 .. n + 1
    OBVIOUS
  <1>3. ReadOff(d, n, k)
    <2> DEFINE less == [i \in 1 .. k |-> at[i]]
    <2>1. \A i \in 1 .. k : i \in 1 .. k + 1 /\ i < k + 1
      OBVIOUS
    <2>2. \A i \in 1 .. k : at[i] \in 1 .. n
      <3> SUFFICES ASSUME NEW i \in 1 .. k PROVE at[i] \in 1 .. n
        OBVIOUS
      <3>1. k + 1 \in 1 .. k + 1 /\ i \in 1 .. k + 1 /\ i < k + 1
        OBVIOUS
      <3>2. at[i] < at[k + 1] /\ at[i] \in 1 .. n + 1 /\ at[k + 1] \in 1 .. n + 1
        BY <1>1, <1>2, <3>1
      <3> QED
        BY <3>2
    <2>3. less \in [1 .. k -> 1 .. n]
      BY <2>2
    <2>4. /\ \A i \in 1 .. k : d[less[i]].index = i
          /\ \A i, j \in 1 .. k : i < j => less[i] < less[j]
      BY <1>1, <2>1
    <2> HIDE DEF less
    <2> QED
      BY <2>3, <2>4 DEF ReadOff
  <1>4. ASSUME d[n + 1].index # k + 1 PROVE ReadOff(d, n, k + 1)
    <2>1. \A i \in 1 .. k + 1 : at[i] \in 1 .. n
      <3> SUFFICES ASSUME NEW i \in 1 .. k + 1 PROVE at[i] \in 1 .. n
        OBVIOUS
      <3>1. k + 1 \in 1 .. k + 1
        OBVIOUS
      <3>2. at[k + 1] # n + 1
        BY <1>1, <1>4, <3>1
      <3>3. i # k + 1 => at[i] < at[k + 1]
        BY <1>1, <3>1
      <3> QED
        BY <1>2, <3>1, <3>2, <3>3
    <2>2. at \in [1 .. k + 1 -> 1 .. n]
      BY <2>1
    <2> QED
      BY <1>1, <2>2 DEF ReadOff
  <1> QED
    BY <1>3, <1>4

(* Replica.apply: whatever entries of the leader's log are delivered, late,
   repeated, early or never, the replica is after each of them where the log
   can be read off the deliveries so far in order, no less and no more, and
   has the leader's value of there. *)
THEOREM ReplicaInOrder ==
  ASSUME NEW Deliveries \in Nat, NEW log, NEW d,
         \A i \in 1 .. Deliveries : d[i].index \in Nat /\ d[i].value = log[d[i].index],
         NEW replica, replica[0] = [value |-> log[0], applied_index |-> 0],
         \A n \in 1 .. Deliveries : replica[n] = apply(replica[n - 1], d[n])
  PROVE  \A n \in 0 .. Deliveries : InOrder(d, n, replica[n], log)
  <1> DEFINE T == {n \in Nat : n <= Deliveries => InOrder(d, n, replica[n], log)}
  <1>1. 0 \in T
    <2> DEFINE none == [i \in 1 .. 0 |-> 0]
    <2>1. none \in [1 .. 0 -> 1 .. 0] /\ \A i \in 1 .. 0 : FALSE
      OBVIOUS
    <2> HIDE DEF none
    <2>2. ReadOff(d, 0, 0)
      BY <2>1 DEF ReadOff
    <2>3. ~ReadOff(d, 0, 1)
      <3> SUFFICES ASSUME ReadOff(d, 0, 1) PROVE FALSE
        OBVIOUS
      <3>1. PICK at \in [1 .. 1 -> 1 .. 0] : TRUE
        BY DEF ReadOff
      <3>2. at[1] \in 1 .. 0
        OBVIOUS
      <3> QED
        BY <3>2
    <2>4. replica[0].applied_index = 0 /\ replica[0].value = log[0]
      OBVIOUS
    <2> QED
      BY <2>2, <2>3, <2>4 DEF InOrder
  <1>2. ASSUME NEW n \in Nat, n \in T PROVE n + 1 \in T
    <2> SUFFICES ASSUME n + 1 <= Deliveries PROVE InOrder(d, n + 1, replica[n + 1], log)
      OBVIOUS
    <2> DEFINE r == replica[n]
               k == r.applied_index
               e == d[n + 1]
    <2>1. /\ k \in Nat /\ r.value = log[k]
          /\ ReadOff(d, n, k) /\ ~ReadOff(d, n, k + 1)
      BY <1>2 DEF InOrder
    <2>2. n + 1 \in 1 .. Deliveries /\ replica[n + 1] = apply(r, e)
      OBVIOUS
    <2>3. e.index \in Nat /\ e.value = log[e.index]
      BY <2>2
    <2> HIDE DEF r
    <2>4. CASE e.index = k + 1
      <3>1. replica[n + 1].applied_index = k + 1 /\ replica[n + 1].value = log[k + 1]
        BY <2>2, <2>3, <2>4 DEF apply
      <3>2. ReadOff(d, n + 1, k + 1)
        BY <2>1, <2>4, ReadOffMore
      <3>3. ~ReadOff(d, n + 1, k + 1 + 1)
        BY <2>1, ReadOffLess
      <3> QED
        BY <2>1, <3>1, <3>2, <3>3 DEF InOrder
    <2>5. CASE e.index # k + 1
      <3>1. replica[n + 1] = r
        BY <2>2, <2>5 DEF apply
      <3>2. ReadOff(d, n + 1, k)
        BY <2>1, ReadOffMore
      <3>3. ~ReadOff(d, n + 1, k + 1)
        BY <2>1, <2>5, ReadOffLess
      <3> QED
        BY <2>1, <3>1, <3>2, <3>3 DEF InOrder
    <2> QED
      BY <2>4, <2>5
  <1>3. Nat \subseteq T
    <2> HIDE DEF T
    <2> QED
      BY <1>1, <1>2, SetInduction
  <1> QED
    BY <1>3

-----------------------------------------------------------------------------
(* Sectors *)

LEMMA DivIs ==
  ASSUME NEW d \in Nat \ {0}, NEW n \in Nat, NEW q \in Int
  PROVE  n \div d = q <=> d * q <= n /\ n < d * q + d
  OBVIOUS

(* touched_sectors: the sectors from the one of an access's first byte to that
   of its last are those that hold one of its bytes, none skipped and none
   beyond. *)
THEOREM SectorsTouched ==
  ASSUME NEW addresses \in SUBSET Nat, NEW access \in Nat \ {0}, NEW sector \in Nat \ {0}
  PROVE  touched_sectors(addresses, access, sector)
           = {(a + b) \div sector : a \in addresses, b \in 0 .. access - 1}
  <1>1. ASSUME NEW a \in addresses, NEW b \in 0 .. access - 1
        PROVE  (a + b) \div sector
                 \in (a \div sector) .. ((a + access - 1) \div sector)
    OBVIOUS
  <1>2. ASSUME NEW a \in addresses,
               NEW s \in (a \div sector) .. ((a + access - 1) \div sector)
        PROVE  \E b \in 0 .. access - 1 : s = (a + b) \div sector
    <2> DEFINE l == a + access - 1
    <2>1. a \in Nat /\ l \in Nat /\ s \in Int /\ a <= l
      OBVIOUS
    <2>2. sector * (a \div sector) <= a /\ a < sector * (a \div sector) + sector
      BY <2>1, DivIs
    <2>3. sector * (l \div sector) <= l
      BY <2>1, DivIs
    <2>4. CASE s = a \div sector
      BY <2>1, <2>4
    <2>5. CASE s # a \div sector
      <3>1. a \div sector + 1 <= s /\ s <= l \div sector
        BY <2>1, <2>5
      <3>2. sector * (a \div sector + 1) <= sector * s /\ sector * s <= sector * (l \div sector)
        BY <2>1, <3>1
      <3>3. a < sector * s /\ sector * s <= l
        BY <2>1, <2>2, <2>3, <3>2
      <3>4. sector * s - a \in 0 .. access - 1 /\ a + (sector * s - a) = sector * s
        BY <2>1, <3>3
      <3>5. (sector * s) \div sector = s
        BY <2>1, <3>3, DivIs
      <3> QED
        BY <3>4, <3>5
    <2> QED
      BY <2>4, <2>5
  <1>3. \A s : s \in touched_sectors(addresses, access, sector)
                <=> \E a \in addresses : s \in (a \div sector) .. ((a + access - 1) \div sector)
    BY DEF touched_sectors
  <1> DEFINE Bytes == {(a + b) \div sector : a \in addresses, b \in 0 .. access - 1}
  <1>4. ASSUME NEW s \in touched_sectors(addresses, access, sector) PROVE s \in Bytes
    <2>1. PICK a \in addresses : s \in (a \div sector) .. ((a + access - 1) \div sector)
      BY <1>3
    <2>2. PICK b \in 0 .. access - 1 : s = (a + b) \div sector
      BY <1>2, <2>1
    <2> QED
      BY <2>2
  <1>5. ASSUME NEW s \in Bytes PROVE s \in touched_sectors(addresses, access, sector)
    <2>1. PICK a \in addresses, b \in 0 .. access - 1 : s = (a + b) \div sector
      OBVIOUS
    <2>2. s \in (a \div sector) .. ((a + access - 1) \div sector)
      BY <1>1, <2>1
    <2> QED
      BY <1>3, <2>2
  <1> HIDE DEF Bytes
  <1>6. touched_sectors(addresses, access, sector) = Bytes
    BY <1>4, <1>5
  <1> QED
    BY <1>6 DEF Bytes
=============================================================================
