--------------------------- MODULE RetryDebitProofs ---------------------------
(***************************************************************************)
(* Proofs about RetryDebit for any number of requests, any amounts and any *)
(* balance.                                                                *)
(***************************************************************************)
EXTENDS RetryDebit, FiniteSetTheorems, TLAPS

(* Induction over the natural numbers, for a set instead of a predicate. *)
LEMMA SetInduction ==
  ASSUME NEW T, 0 \in T, \A n \in Nat : n \in T => n + 1 \in T
  PROVE  Nat \subseteq T
  <1> DEFINE Missing == Nat \ T
  <1>1. SUFFICES ASSUME Missing # {} PROVE FALSE
    OBVIOUS
  <1>2. \E n \in Missing : \A m \in Missing : ~ (m < n)
    <2> DEFINE Less == {p \in Nat \X Nat : p[1] < p[2]}
    <2>1. IsWellFoundedOn(Less, Nat)
      BY NatLessThanWellFounded DEF OpToRel
    <2>2. \E n \in Missing : \A m \in Missing : <<m, n>> \notin Less
      <3> HIDE DEF Less
      <3> QED
        BY <1>1, <2>1, WFMin
    <2> QED
      BY <2>2
  <1>3. PICK n \in Missing : \A m \in Missing : ~ (m < n)
    BY <1>2
  <1>4. n \in Nat /\ n # 0
    BY <1>3
  <1>5. n - 1 \in T
    BY <1>3, <1>4
  <1> QED
    BY <1>3, <1>4, <1>5

-----------------------------------------------------------------------------
(* The sum over a set of requests, which the model takes in the order CHOOSE
   gives: it exists, does not depend on that order, and grows by what is
   added. *)

Pick(S) == CHOOSE id \in S : TRUE

Total(S) == MapThenSumSet(LAMBDA id : Amount[id], S)

Sums(g, S) ==
  g = [s \in SUBSET S |-> IF s = {} THEN 0
                          ELSE Amount[Pick(s)] + g[s \ {Pick(s)}]]

LEMMA TotalDef == \A S : Total(S) = (CHOOSE g : Sums(g, S))[S]
  BY DEF Total, MapThenSumSet, MapThenFoldSet, Sums, Pick

LEMMA PickIn == \A S : S # {} => Pick(S) \in S
  BY DEF Pick

LEMMA Smaller ==
  ASSUME NEW S \in SUBSET RequestId, NEW id \in S
  PROVE  /\ Cardinality(S) \in Nat \ {0}
         /\ Cardinality(S \ {id}) = Cardinality(S) - 1
  BY AmountAssumption, FS_Subset, FS_CardinalityType, FS_EmptySet,
     FS_RemoveElement

LEMMA SumsExist == \E g : Sums(g, RequestId)
  <1> DEFINE Rec(g, s) == IF s = {} THEN 0
                          ELSE Amount[Pick(s)] + g[s \ {Pick(s)}]
             Upto(n) == {s \in SUBSET RequestId : Cardinality(s) <= n}
             Good(n) == \E g : \A s \in Upto(n) : g[s] = Rec(g, s)
             T == {n \in Nat : Good(n)}
  <1>1. 0 \in T
    <2> DEFINE zero == [s \in SUBSET RequestId |-> 0]
    <2>1. \A s \in Upto(0) : s = {}
      BY AmountAssumption, FS_Subset, FS_EmptySet, FS_CardinalityType
    <2>2. \A s \in Upto(0) : zero[s] = Rec(zero, s)
      BY <2>1
    <2> QED
      BY <2>2
  <1>2. ASSUME NEW n \in Nat, n \in T PROVE n + 1 \in T
    <2>1. PICK g : \A s \in Upto(n) : g[s] = Rec(g, s)
      BY <1>2
    <2> DEFINE h == [s \in SUBSET RequestId |-> Rec(g, s)]
    <2>2. ASSUME NEW s \in Upto(n + 1) PROVE h[s] = Rec(h, s)
      <3>1. CASE s = {}
        BY <3>1
      <3>2. CASE s # {}
        <4> DEFINE r == s \ {Pick(s)}
        <4>1. r \in Upto(n)
          BY <3>2, PickIn, Smaller
        <4>2. h[r] = g[r]
          BY <2>1, <4>1
        <4> HIDE DEF r
        <4>3. h[s] = Amount[Pick(s)] + g[r] /\ Rec(h, s) = Amount[Pick(s)] + h[r]
          BY <3>2 DEF r
        <4> QED
          BY <4>2, <4>3
      <3> QED
        BY <3>1, <3>2
    <2>3. Good(n + 1)
      BY <2>2
    <2> QED
      BY <2>3
  <1>3. PICK g : \A s \in Upto(Cardinality(RequestId)) : g[s] = Rec(g, s)
    <2>1. Cardinality(RequestId) \in T
      <3> HIDE DEF T
      <3> QED
        BY <1>1, <1>2, SetInduction, AmountAssumption, FS_CardinalityType
    <2> QED
      BY <2>1
  <1>4. Upto(Cardinality(RequestId)) = SUBSET RequestId
    BY AmountAssumption, FS_Subset
  <1> DEFINE h == [s \in SUBSET RequestId |-> Rec(g, s)]
  <1>5. \A s \in SUBSET RequestId : h[s] = g[s]
    BY <1>3, <1>4
  <1>6. \A s \in SUBSET RequestId : Rec(g, s) = Rec(h, s)
    <2> SUFFICES ASSUME NEW s \in SUBSET RequestId PROVE Rec(g, s) = Rec(h, s)
      OBVIOUS
    <2>1. s \ {Pick(s)} \in SUBSET RequestId
      OBVIOUS
    <2>2. h[s \ {Pick(s)}] = g[s \ {Pick(s)}]
      BY <1>5, <2>1
    <2> QED
      BY <2>2
  <1>7. h = [s \in SUBSET RequestId |-> Rec(h, s)]
    BY <1>6
  <1> QED
    BY <1>7 DEF Sums

LEMMA SumsAt ==
  ASSUME NEW S \in SUBSET RequestId, NEW g, Sums(g, S), NEW s \in SUBSET S
  PROVE  g[s] = IF s = {} THEN 0 ELSE Amount[Pick(s)] + g[s \ {Pick(s)}]
  BY DEF Sums

(* The function chosen for a subset and the one for all requests agree. *)
LEMMA TotalIs ==
  ASSUME NEW g, Sums(g, RequestId), NEW S \in SUBSET RequestId
  PROVE  Total(S) = g[S]
  <1>0. \A s \in SUBSET RequestId :
          s # {} => g[s] = Amount[Pick(s)] + g[s \ {Pick(s)}]
    BY DEF Sums
  <1> DEFINE f == CHOOSE f : Sums(f, S)
             part == [s \in SUBSET S |-> g[s]]
  <1>1. Sums(part, S)
    <2>1. \A s \in SUBSET S :
            part[s] = IF s = {} THEN 0
                      ELSE Amount[Pick(s)] + part[s \ {Pick(s)}]
      <3> SUFFICES ASSUME NEW s \in SUBSET S
                   PROVE  part[s] = IF s = {} THEN 0
                                    ELSE Amount[Pick(s)] + part[s \ {Pick(s)}]
        OBVIOUS
      <3>1. s \in SUBSET RequestId /\ s \ {Pick(s)} \in SUBSET S
        OBVIOUS
      <3> QED
        BY <3>1, SumsAt
    <2> HIDE DEF part
    <2>2. part = [s \in SUBSET S |-> part[s]]
      BY DEF part
    <2> QED
      BY <2>1, <2>2 DEF Sums
  <1>2. Sums(f, S)
    BY <1>1
  <1> HIDE DEF f, part
  <1> DEFINE T == {n \in Nat : \A s \in SUBSET S :
                                 Cardinality(s) = n => f[s] = g[s]}
  <1>3. 0 \in T
    <2>1. \A s \in SUBSET S : Cardinality(s) = 0 => s = {}
      BY AmountAssumption, FS_Subset, FS_EmptySet
    <2>2. f[{}] = 0 /\ g[{}] = 0
      BY <1>2, SumsAt
    <2> QED
      BY <2>1, <2>2
  <1>4. ASSUME NEW n \in Nat, n \in T PROVE n + 1 \in T
    <2> SUFFICES ASSUME NEW s \in SUBSET S, Cardinality(s) = n + 1
                 PROVE  f[s] = g[s]
      OBVIOUS
    <2>1. s # {}
      BY FS_EmptySet
    <2>2. s \ {Pick(s)} \in SUBSET S /\ Cardinality(s \ {Pick(s)}) = n
      BY <2>1, PickIn, Smaller
    <2>3. f[s \ {Pick(s)}] = g[s \ {Pick(s)}]
      BY <1>4, <2>2
    <2>4. f[s] = Amount[Pick(s)] + f[s \ {Pick(s)}]
      BY <1>2, <2>1, SumsAt
    <2>5. g[s] = Amount[Pick(s)] + g[s \ {Pick(s)}]
      BY <1>0, <2>1
    <2> QED
      BY <2>3, <2>4, <2>5
  <1>5. Cardinality(S) \in T
    <2>1. Cardinality(S) \in Nat
      BY AmountAssumption, FS_Subset, FS_CardinalityType
    <2> HIDE DEF T
    <2> QED
      BY <1>3, <1>4, <2>1, SetInduction
  <1> QED
    BY <1>5, TotalDef DEF f

(* Whichever request is taken out first, the sum is the same. *)
LEMMA TotalRemove ==
  ASSUME NEW S \in SUBSET RequestId, NEW id \in S
  PROVE  Total(S \ {id}) \in Nat /\ Total(S) = Amount[id] + Total(S \ {id})
  <1>1. PICK g : Sums(g, RequestId)
    BY SumsExist
  <1> DEFINE Splits(s) ==
               g[s] \in Nat /\ \A x \in s : g[s] = Amount[x] + g[s \ {x}]
             T == {n \in Nat : \A s \in SUBSET RequestId :
                                 Cardinality(s) <= n => Splits(s)}
  <1>2. 0 \in T
    <2>1. ASSUME NEW s \in SUBSET RequestId, Cardinality(s) <= 0, s # {}
          PROVE  FALSE
      <3>1. PICK x \in s : TRUE
        BY <2>1
      <3>2. Cardinality(s) \in Nat \ {0}
        BY <3>1, Smaller
      <3> QED
        BY <2>1, <3>2
    <2>2. g[{}] = 0
      BY <1>1, SumsAt
    <2> QED
      BY <2>1, <2>2
  <1>3. ASSUME NEW n \in Nat, n \in T PROVE n + 1 \in T
    <2> SUFFICES ASSUME NEW s \in SUBSET RequestId, Cardinality(s) <= n + 1
                 PROVE  Splits(s)
      OBVIOUS
    <2>1. CASE s = {}
      BY <1>1, <2>1, SumsAt
    <2>2. CASE s # {}
      <3> DEFINE y == Pick(s)
      <3>1. y \in s
        BY <2>2, PickIn
      <3>2. g[s] = Amount[y] + g[s \ {y}]
        <4>1. s \in SUBSET RequestId
          OBVIOUS
        <4> QED
          BY <1>1, <2>2, <4>1, SumsAt
      <3> HIDE DEF y
      <3>3. ASSUME NEW x \in s PROVE Cardinality(s \ {x}) <= n
        BY Smaller
      <3>4. \A x \in s : Splits(s \ {x})
        BY <1>3, <3>3
      <3>5. g[s] \in Nat
        BY <3>1, <3>2, <3>4, AmountAssumption
      <3>6. ASSUME NEW x \in s, x # y PROVE g[s] = Amount[x] + g[s \ {x}]
        <4> DEFINE r == (s \ {x}) \ {y}
        <4>1. r = (s \ {y}) \ {x}
          OBVIOUS
        <4>2. g[s \ {y}] = Amount[x] + g[r]
          BY <3>1, <3>4, <3>6, <4>1
        <4>3. g[s \ {x}] = Amount[y] + g[r]
          BY <3>1, <3>4, <3>6
        <4>4. Cardinality(r) <= n
          <5>1. y \in s \ {x} /\ s \ {x} \in SUBSET RequestId
            BY <3>1, <3>6
          <5>2. Cardinality(r) = Cardinality(s \ {x}) - 1
            BY <5>1, Smaller
          <5> QED
            BY <3>3, <5>1, <5>2, Smaller
        <4>5. g[r] \in Nat
          BY <1>3, <4>4
        <4> HIDE DEF r
        <4> QED
          BY <3>1, <3>2, <4>2, <4>3, <4>5, AmountAssumption
      <3> QED
        BY <3>2, <3>5, <3>6
    <2> QED
      BY <2>1, <2>2
  <1>4. Splits(S) /\ Splits(S \ {id})
    <2>1. /\ Cardinality(S) \in Nat /\ Cardinality(S \ {id}) = Cardinality(S) - 1
          /\ S \ {id} \in SUBSET RequestId
      BY Smaller
    <2>2. Cardinality(S) \in T
      <3> HIDE DEF T
      <3> QED
        BY <1>2, <1>3, <2>1, SetInduction
    <2>3. Cardinality(S \ {id}) <= Cardinality(S)
      BY <2>1
    <2>4. \A s \in SUBSET RequestId :
            Cardinality(s) <= Cardinality(S) => Splits(s)
      BY <2>2
    <2>5. Splits(S)
      BY <2>1, <2>4
    <2>6. Splits(S \ {id})
      BY <2>1, <2>3, <2>4
    <2> QED
      BY <2>5, <2>6
  <1> QED
    BY <1>1, <1>4, TotalIs

LEMMA TotalAdd ==
  ASSUME NEW S \in SUBSET RequestId, NEW id \in RequestId \ S
  PROVE  Total(S) \in Nat /\ Total(S \union {id}) = Total(S) + Amount[id]
  <1>1. (S \union {id}) \ {id} = S
    OBVIOUS
  <1> QED
    BY <1>1, TotalRemove, AmountAssumption

LEMMA TotalEmpty == Total({}) = 0
  BY SumsExist, SumsAt, TotalIs

-----------------------------------------------------------------------------
(* The invariants hold each other up: that answers agree keeps a refused
   request from being executed later, and the balance that never grows keeps
   the refusal right. *)
IInv == TypeOK /\ ChargedOnce /\ AnswersAgree

Charged ==
  /\ balance >= 0
  /\ executions = Cardinality(Executed)
  /\ balance + Total(Executed) = InitialBalance

LEMMA ChargedIs == (ChargedOnce <=> Charged) /\ (ChargedOnce' <=> Charged')
  BY DEF ChargedOnce, Charged, Total

LEMMA ExecutedFacts ==
  ASSUME TypeOK
  PROVE  /\ Executed \in SUBSET RequestId /\ IsFiniteSet(Executed)
         /\ Cardinality(Executed) \in Nat
         /\ \A id \in RequestId : Known(id) <=> results[id] \in Int
  BY AmountAssumption, SentinelAssumption, FS_Subset, FS_CardinalityType
  DEF TypeOK, Executed, Known

LEMMA IInvInit == Init => IInv
  <1> SUFFICES ASSUME Init PROVE IInv
    OBVIOUS
  <1>1. TypeOK
    BY AmountAssumption DEF Init, TypeOK
  <1>2. Executed = {}
    BY DEF Init, Executed, Known
  <1>3. ChargedOnce
    BY <1>2, FS_EmptySet, TotalEmpty, ChargedIs, AmountAssumption
    DEF Init, Charged
  <1>4. AnswersAgree
    BY SentinelAssumption DEF Init, AnswersAgree
  <1> QED
    BY <1>1, <1>3, <1>4 DEF IInv

(* Callers and network move messages; the service stays as it is. *)
LEMMA IInvNetwork ==
  ASSUME IInv, UNCHANGED service, TypeOK',
         answers' \subseteq answers,
         \A id \in RequestId :
           \/ heard'[id] = heard[id]
           \/ [id |-> id, value |-> heard'[id]] \in answers
  PROVE  IInv'
  <1>1. ChargedOnce'
    <2>1. Executed' = Executed
      BY DEF Executed, Known, service
    <2> QED
      BY <2>1, ChargedIs DEF IInv, Charged, service
  <1>2. AnswersAgree'
    <2>1. \A a, b \in answers' : a.id = b.id => a.value = b.value
      BY DEF IInv, AnswersAgree
    <2>2. \A a \in answers' : a.value = Refused \/ a.value = results'[a.id]
      BY DEF IInv, AnswersAgree, service
    <2>3. ASSUME NEW id \in RequestId,
                 heard'[id] = Refused \/ [id |-> id, value |-> Refused] \in answers'
          PROVE  ~Known(id)' /\ Amount[id] > balance'
      <3>1. heard[id] = Refused \/ [id |-> id, value |-> Refused] \in answers
        BY <2>3
      <3> QED
        BY <3>1 DEF IInv, AnswersAgree, Known, service
    <2>4. ASSUME NEW id \in RequestId, heard'[id] \in Int
          PROVE  heard'[id] = results'[id]
      <3>1. CASE heard'[id] = heard[id]
        BY <2>4, <3>1 DEF IInv, AnswersAgree, service
      <3>2. CASE [id |-> id, value |-> heard'[id]] \in answers
        BY <2>4, <3>2, SentinelAssumption DEF IInv, AnswersAgree, service
      <3> QED
        BY <3>1, <3>2
    <2> QED
      BY <2>1, <2>2, <2>3, <2>4 DEF AnswersAgree
  <1> QED
    BY <1>1, <1>2 DEF IInv

LEMMA IInvMessages ==
  ASSUME IInv, NEW id \in RequestId, Call(id) \/ LoseRequest(id)
  PROVE  IInv'
  <1>1. TypeOK' /\ UNCHANGED <<service, answers, heard>>
    BY DEF IInv, TypeOK, Call, LoseRequest, service
  <1> QED
    BY <1>1, IInvNetwork

LEMMA IInvAnswers ==
  ASSUME IInv, NEW a \in answers, LoseAnswer(a) \/ Hear(a)
  PROVE  IInv'
  <1>1. a \in [id : RequestId, value : Answer]
    BY DEF IInv, TypeOK
  <1>2. CASE LoseAnswer(a)
    <2>1. TypeOK' /\ UNCHANGED <<service, heard>> /\ answers' \subseteq answers
      BY <1>2 DEF IInv, TypeOK, LoseAnswer, service
    <2> QED
      BY <2>1, IInvNetwork
  <1>3. CASE Hear(a)
    <2>1. TypeOK' /\ UNCHANGED <<service, answers>>
      BY <1>1, <1>3 DEF IInv, TypeOK, Hear, service
    <2>2. a = [id |-> a.id, value |-> a.value]
      BY <1>1
    <2>3. \A id \in RequestId : \/ heard'[id] = heard[id]
                                \/ [id |-> id, value |-> heard'[id]] \in answers
      BY <1>3, <2>2 DEF IInv, TypeOK, Hear
    <2> QED
      BY <2>1, <2>3, IInvNetwork
  <1> QED
    BY <1>2, <1>3

(* Repeat and Refuse answer without touching the account. *)
LEMMA IInvReply ==
  ASSUME IInv, NEW id \in RequestId, Repeat(id) \/ Refuse(id)
  PROVE  IInv'
  <1> DEFINE value == IF Repeat(id) THEN results[id] ELSE Refused
  <1>1. /\ answers' = answers \union {[id |-> id, value |-> value]}
        /\ requests' \in {requests, requests \ {id}}
        /\ UNCHANGED <<service, heard>>
    BY DEF Repeat, Refuse, Reply
  <1>2. \/ Known(id) /\ value = results[id] /\ value \in Int
        \/ ~Known(id) /\ Amount[id] > balance /\ value = Refused
    BY ExecutedFacts DEF IInv, Repeat, Refuse
  <1> HIDE DEF value
  <1>3. TypeOK'
    BY <1>1, <1>2, SentinelAssumption DEF IInv, TypeOK, Answer, service
  <1>4. ChargedOnce'
    <2>1. Executed' = Executed
      BY <1>1 DEF Executed, Known, service
    <2> QED
      BY <1>1, <2>1, ChargedIs DEF IInv, Charged, service
  <1>5. AnswersAgree'
    <2>1. \A a \in answers : a.id = id => a.value = value
      BY <1>2, SentinelAssumption
      DEF IInv, TypeOK, AnswersAgree, Known, Answer
    <2>2. \A a, b \in answers' : a.id = b.id => a.value = b.value
      BY <1>1, <2>1 DEF IInv, AnswersAgree
    <2>3. \A a \in answers' : a.value = Refused \/ a.value = results'[a.id]
      BY <1>1, <1>2 DEF IInv, AnswersAgree, service
    <2>4. ASSUME NEW i \in RequestId,
                 heard'[i] = Refused \/ [id |-> i, value |-> Refused] \in answers'
          PROVE  ~Known(i)' /\ Amount[i] > balance'
      <3>1. \/ heard[i] = Refused \/ [id |-> i, value |-> Refused] \in answers
            \/ i = id /\ value = Refused
        BY <1>1, <2>4
      <3> QED
        BY <1>1, <1>2, <3>1, SentinelAssumption
        DEF IInv, AnswersAgree, Known, service
    <2>5. \A i \in RequestId : heard'[i] \in Int => heard'[i] = results'[i]
      BY <1>1 DEF IInv, AnswersAgree, service
    <2> QED
      BY <2>2, <2>3, <2>4, <2>5 DEF AnswersAgree
  <1> QED
    BY <1>3, <1>4, <1>5 DEF IInv

LEMMA IInvExecute ==
  ASSUME IInv, NEW id \in RequestId, Execute(id)
  PROVE  IInv'
  <1> DEFINE value == balance - Amount[id]
  <1>1. /\ ~Known(id) /\ Amount[id] <= balance
        /\ balance' = value /\ executions' = executions + 1
        /\ results' = [results EXCEPT ![id] = value]
        /\ answers' = answers \union {[id |-> id, value |-> value]}
        /\ requests' \in {requests, requests \ {id}}
        /\ heard' = heard
    BY DEF Execute, Reply
  <1>2. /\ Amount[id] \in Nat /\ balance \in Int /\ value \in Int /\ value >= 0
        /\ value <= balance
    <2>1. Amount[id] \in Nat
      BY AmountAssumption
    <2>2. balance \in Int
      BY DEF IInv, TypeOK
    <2> QED
      BY <1>1, <2>1, <2>2
  <1> HIDE DEF value
  <1>3. TypeOK'
    BY <1>1, <1>2 DEF IInv, TypeOK, Answer
  <1>4. \A i \in RequestId :
          results'[i] = IF i = id THEN value ELSE results[i]
    BY <1>1 DEF IInv, TypeOK
  <1>5. ChargedOnce'
    <2>1. Executed' = Executed \union {id} /\ id \in RequestId \ Executed
      BY <1>1, <1>2, <1>4, SentinelAssumption DEF Executed, Known
    <2>2. Cardinality(Executed') = Cardinality(Executed) + 1
      BY <2>1, ExecutedFacts, FS_AddElement DEF IInv
    <2>3. Total(Executed) \in Nat
          /\ Total(Executed') = Total(Executed) + Amount[id]
      BY <2>1, ExecutedFacts, TotalAdd DEF IInv
    <2>4. Charged
      BY ChargedIs DEF IInv
    <2> QED
      BY <1>1, <1>2, <2>2, <2>3, <2>4, ChargedIs, AmountAssumption
      DEF Charged, value, IInv, TypeOK
  <1>6. AnswersAgree'
    <2>1. ASSUME NEW i \in RequestId,
                 heard[i] = Refused \/ [id |-> i, value |-> Refused] \in answers
          PROVE  i # id /\ ~Known(i) /\ Amount[i] > balance
      BY <1>1, <1>2, <2>1, AmountAssumption DEF IInv, AnswersAgree
    <2>2. ASSUME NEW a \in answers, a.id = id PROVE FALSE
      <3>1. a \in [id : RequestId, value : Int \union {Refused}]
        BY DEF IInv, TypeOK, Answer
      <3>2. CASE a.value = Refused
        <4>1. a = [id |-> id, value |-> Refused]
          BY <2>2, <3>1, <3>2
        <4> QED
          BY <2>1, <4>1
      <3>3. CASE a.value # Refused
        BY <1>1, <2>2, <3>1, <3>3, SentinelAssumption
        DEF IInv, AnswersAgree, Known
      <3> QED
        BY <3>2, <3>3
    <2>3. \A a, b \in answers' : a.id = b.id => a.value = b.value
      BY <1>1, <2>2 DEF IInv, AnswersAgree
    <2>4. \A a \in answers' : a.value = Refused \/ a.value = results'[a.id]
      BY <1>1, <1>4, <2>2 DEF IInv, TypeOK, AnswersAgree
    <2>5. ASSUME NEW i \in RequestId,
                 heard'[i] = Refused \/ [id |-> i, value |-> Refused] \in answers'
          PROVE  ~Known(i)' /\ Amount[i] > balance'
      <3>1. heard[i] = Refused \/ [id |-> i, value |-> Refused] \in answers
        BY <1>1, <1>2, <2>5, SentinelAssumption
      <3> QED
        BY <1>1, <1>2, <1>4, <2>1, <3>1, AmountAssumption DEF Known
    <2>6. ASSUME NEW i \in RequestId, heard'[i] \in Int
          PROVE  heard'[i] = results'[i]
      <3>1. heard[i] = results[i] /\ results[i] \in Int
        BY <1>1, <2>6 DEF IInv, AnswersAgree
      <3>2. i # id
        BY <1>1, <3>1, SentinelAssumption DEF Known
      <3> QED
        BY <1>1, <1>4, <3>1, <3>2
    <2> QED
      BY <2>3, <2>4, <2>5, <2>6 DEF AnswersAgree
  <1> QED
    BY <1>3, <1>5, <1>6 DEF IInv

LEMMA IInvStep == IInv /\ [Next]_vars => IInv'
  <1> SUFFICES ASSUME IInv, [Next]_vars PROVE IInv'
    OBVIOUS
  <1>1. CASE UNCHANGED vars
    <2>1. TypeOK'
      BY <1>1 DEF vars, service, IInv, TypeOK
    <2> QED
      BY <1>1, <2>1, IInvNetwork DEF vars
  <1> QED
    BY <1>1, IInvMessages, IInvAnswers, IInvReply, IInvExecute DEF Next, debit

LEMMA IInvAlways == Spec => []IInv
  BY IInvInit, IInvStep, PTL DEF Spec

(* Every variable keeps its type: a recorded result is a balance, an answer a
   balance or the refusal. *)
THEOREM TypeCorrect == Spec => []TypeOK
  <1>1. IInv => TypeOK
    BY DEF IInv
  <1> QED
    BY <1>1, IInvAlways, PTL

(* However often requests are repeated, lost, duplicated or reordered, each
   one that is executed is paid for once, and the account is never overdrawn:
   for any set of requests, any amounts and any balance. *)
THEOREM PaidOnce == Spec => []ChargedOnce
  <1>1. IInv => ChargedOnce
    BY DEF IInv
  <1> QED
    BY <1>1, IInvAlways, PTL

(* All who ask about one request are told the same, and the truth. *)
THEOREM ToldTheSame == Spec => []AnswersAgree
  <1>1. IInv => AnswersAgree
    BY DEF IInv
  <1> QED
    BY <1>1, IInvAlways, PTL
=============================================================================
