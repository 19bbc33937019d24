-------------------------- MODULE RaftCommitProofs --------------------------
(***************************************************************************)
(* Proofs about RaftCommit, for every set of servers, number of terms and  *)
(* length of logs: what committed_prefix once contained is in the log of   *)
(* every later leader.                                                     *)
(*                                                                         *)
(* The argument.  An entry of the current term is held by a majority, each *)
(* of whom answered the leader in its own term; before that happens it is  *)
(* Choosable: there is a majority whose members hold it or have not yet    *)
(* gone to a later term.  A choosable entry that stops being so never      *)
(* becomes so again, and the log of every later leader has every choosable *)
(* entry (Kept): a vote for it comes from someone who already holds the    *)
(* entry (Held), and UpToDate, together with the two facts every log obeys *)
(* (terms do not decrease along it, and entries of the same index and term *)
(* have the same past), gives the candidate that entry.                    *)
(***************************************************************************)
EXTENDS RaftCommit, FiniteSetTheorems, NaturalsInduction, WellFoundedInduction,
        TLAPS

(* Q is a set of servers any two of which meet. *)
Majority(Q) == Q \subseteq Server /\ 2 * Cardinality(Q) > Cardinality(Server)

(* Log has the first n entries of other. *)
Agrees(log, other, n) ==
  n <= Len(log) /\ n <= Len(other) /\ \A j \in 1 .. n : log[j] = other[j]

(* Every term was won at most once, by a server that has not forgotten it. *)
Leadership ==
  \A t \in Term :
    \/ leader[t] = {} /\ sent[t] = <<>> /\ \A v \in Server : matchIndex[t][v] = 0
    \/ \E s \in Server : /\ leader[t] = {s} /\ term[s] >= t
                         /\ term[s] = t => logs[s] = sent[t]

(* A won term is known to a majority. *)
Quorums ==
  \A t \in Term : leader[t] # {} =>
    \E Q : Majority(Q) /\ \A v \in Q : term[v] >= t

Ordered(log, last) ==
  \A i \in 1 .. Len(log) : log[i] <= last /\ \A j \in 1 .. i : log[j] <= log[i]

Orders ==
  /\ \A s \in Server : Ordered(logs[s], term[s])
  /\ \A t \in Term : Ordered(sent[t], t)

(* An entry was made by the leader of its term, and came with its past. *)
Matching(log) == \A i \in 1 .. Len(log) : Agrees(sent[log[i]], log, i)

LogMatching ==
  /\ \A s \in Server : Matching(logs[s])
  /\ \A t \in Term : Matching(sent[t])

(* Whoever confirmed something had reached that term. *)
Confirmed ==
  \A t \in Term, v \in Server :
    /\ matchIndex[t][v] <= Len(sent[t])
    /\ matchIndex[t][v] > 0 => term[v] >= t

Choosable(t, n) ==
  \E Q : Majority(Q) /\ \A v \in Q : matchIndex[t][v] >= n \/ term[v] <= t

(* The leader of t made entry n, and a majority may yet confirm it. *)
Open(t, n) == n <= Len(sent[t]) /\ sent[t][n] = t /\ Choosable(t, n)

Held ==
  \A t \in Term, n \in 1 .. MaxIndex : Open(t, n) =>
    \A v \in Server : matchIndex[t][v] >= n => Agrees(logs[v], sent[t], n)

Kept ==
  \A t \in Term, n \in 1 .. MaxIndex : Open(t, n) =>
    \A u \in Term : u > t /\ leader[u] # {} => Agrees(sent[u], sent[t], n)

Reported ==
  \A r \in reported : \E k \in 1 .. MaxIndex :
    /\ k <= Len(sent[r.term]) /\ sent[r.term][k] = r.term
    /\ Len(r.prefix) = k /\ Agrees(r.prefix, sent[r.term], k)
    /\ \E Q : Majority(Q) /\ \A v \in Q : matchIndex[r.term][v] >= k

IInv ==
  /\ TypeOK
  /\ Leadership
  /\ Quorums
  /\ Orders
  /\ LogMatching
  /\ Confirmed
  /\ Held
  /\ Kept
  /\ Reported

-----------------------------------------------------------------------------
(* Logs *)

LEMMA LogIsSeq ==
  ASSUME NEW log \in Log
  PROVE  /\ log \in Seq(Term)
         /\ Len(log) \in 0 .. MaxIndex
         /\ \A i \in 1 .. Len(log) : log[i] \in Term
  <1>1. PICK n \in 0 .. MaxIndex : log \in [1 .. n -> Term]
    BY DEF Log
  <1> QED
    BY <1>1, RaftAssumption

LEMMA SeqIsLog ==
  ASSUME NEW log \in Seq(Term), Len(log) <= MaxIndex
  PROVE  log \in Log
  <1>1. Len(log) \in 0 .. MaxIndex /\ log \in [1 .. Len(log) -> Term]
    BY RaftAssumption
  <1> QED
    BY <1>1 DEF Log

LEMMA PrefixLog ==
  ASSUME NEW log \in Log, NEW n \in Nat, n <= Len(log)
  PROVE  /\ Prefix(log, n) \in Log
         /\ Len(Prefix(log, n)) = n
         /\ \A j \in 1 .. n : Prefix(log, n)[j] = log[j]
  <1>1. /\ Prefix(log, n) \in Seq(Term)
        /\ Len(Prefix(log, n)) = n
        /\ \A j \in 1 .. n : Prefix(log, n)[j] = log[j]
    BY LogIsSeq DEF Prefix
  <1> QED
    BY <1>1, LogIsSeq, SeqIsLog, RaftAssumption

LEMMA AppendLog ==
  ASSUME NEW log \in Log, NEW t \in Term, Len(log) < MaxIndex
  PROVE  /\ Append(log, t) \in Log
         /\ Len(Append(log, t)) = Len(log) + 1
         /\ \A j \in 1 .. Len(log) : Append(log, t)[j] = log[j]
         /\ Append(log, t)[Len(log) + 1] = t
  <1>1. /\ Append(log, t) \in Seq(Term)
        /\ Len(Append(log, t)) = Len(log) + 1
        /\ \A j \in 1 .. Len(log) : Append(log, t)[j] = log[j]
        /\ Append(log, t)[Len(log) + 1] = t
    BY LogIsSeq
  <1>2. Len(Append(log, t)) <= MaxIndex
    BY <1>1, LogIsSeq, RaftAssumption
  <1>3. Append(log, t) \in Log
    BY <1>1, <1>2, SeqIsLog
  <1> QED
    BY <1>1, <1>3

LEMMA LogEqual ==
  ASSUME NEW log \in Log, NEW other \in Log, Len(log) = Len(other),
         \A j \in 1 .. Len(log) : log[j] = other[j]
  PROVE  log = other
  BY LogIsSeq

LEMMA EmptyLog == <<>> \in Log /\ Len(<<>>) = 0
  <1>1. <<>> \in Seq(Term) /\ Len(<<>>) = 0
    OBVIOUS
  <1>2. Len(<<>>) <= MaxIndex
    BY <1>1, RaftAssumption
  <1> QED
    BY <1>1, <1>2, SeqIsLog

(* Prefixes are equal exactly when the entries are. *)
LEMMA PrefixEqual ==
  ASSUME NEW log \in Log, NEW other \in Log, NEW n \in Nat,
         n <= Len(log), n <= Len(other)
  PROVE  Prefix(log, n) = Prefix(other, n) <=> Agrees(log, other, n)
  <1>1. ASSUME Prefix(log, n) = Prefix(other, n) PROVE Agrees(log, other, n)
    BY <1>1, PrefixLog DEF Agrees
  <1>2. ASSUME Agrees(log, other, n) PROVE Prefix(log, n) = Prefix(other, n)
    <2>1. \A j \in 1 .. n : Prefix(log, n)[j] = Prefix(other, n)[j]
      BY <1>2, PrefixLog DEF Agrees
    <2> QED
      BY <2>1, PrefixLog, LogEqual
  <1> QED
    BY <1>1, <1>2

LEMMA PrefixAgrees ==
  ASSUME NEW log \in Log, NEW n \in Nat, n <= Len(log)
  PROVE  Agrees(Prefix(log, n), log, n)
  BY PrefixLog, LogIsSeq DEF Agrees

LEMMA AppendAgrees ==
  ASSUME NEW log \in Log, NEW t \in Term, Len(log) < MaxIndex,
         NEW n \in Nat, n <= Len(log)
  PROVE  Agrees(Append(log, t), log, n)
  BY AppendLog, LogIsSeq DEF Agrees

LEMMA AgreesTrans ==
  ASSUME NEW a \in Log, NEW b \in Log, NEW c \in Log, NEW m \in Nat, NEW n \in Nat,
         m <= n, Agrees(a, b, n) \/ Agrees(b, a, n),
         Agrees(b, c, m) \/ Agrees(c, b, m)
  PROVE  Agrees(a, c, m)
  BY LogIsSeq DEF Agrees

LEMMA AgreesFewer ==
  ASSUME NEW a \in Log, NEW b \in Log, NEW m \in Nat, NEW n \in Nat, m <= n,
         Agrees(a, b, n)
  PROVE  Agrees(a, b, m) /\ Agrees(b, a, m)
  BY LogIsSeq DEF Agrees

LEMMA TermInt == Term \subseteq Nat \ {0}
  BY RaftAssumption DEF Term

-----------------------------------------------------------------------------
(* Majorities *)

LEMMA MajoritiesMeet ==
  ASSUME NEW P, NEW Q, Majority(P), Majority(Q)
  PROVE  \E v \in Server : v \in P /\ v \in Q
  <1>1. /\ Cardinality(Server) \in Nat /\ Cardinality(P) \in Nat
        /\ Cardinality(Q) \in Nat
    BY RaftAssumption, FS_Subset, FS_CardinalityType DEF Majority
  <1>2. Cardinality(P) + Cardinality(Q) > Cardinality(Server)
    BY <1>1 DEF Majority
  <1>3. P \cap Q # {}
    BY <1>2, RaftAssumption, FS_MajoritiesIntersect DEF Majority
  <1> QED
    BY <1>3 DEF Majority

LEMMA MajorityEnough ==
  ASSUME NEW Q \in SUBSET Server, Cardinality(Q) >= majority
  PROVE  Majority(Q)
  <1>1. Cardinality(Server) \in Nat /\ Cardinality(Q) \in Nat
    BY RaftAssumption, FS_Subset, FS_CardinalityType
  <1> QED
    BY <1>1 DEF Majority, majority

(* A set of numbers bounded by some number has a greatest member. *)
LEMMA Greatest ==
  ASSUME NEW M \in Nat, NEW S \in SUBSET (0 .. M), S # {}
  PROVE  \E n \in S : \A m \in S : m <= n
  <1> DEFINE Less == {p \in Nat \X Nat : p[1] < p[2]}
             Gaps == {M - m : m \in S}
  <1>1. IsWellFoundedOn(Less, Nat)
    BY NatLessThanWellFounded DEF OpToRel
  <1>2. Gaps \subseteq Nat /\ Gaps # {}
    <2>1. \A m \in S : m \in Nat /\ m <= M /\ M - m \in Nat
      OBVIOUS
    <2> QED
      BY <2>1
  <1>3. \E g \in Gaps : \A h \in Gaps : <<h, g>> \notin Less
    <2> HIDE DEF Less, Gaps
    <2> QED
      BY <1>1, <1>2, WFMin
  <1>4. PICK g \in Gaps : \A h \in Gaps : ~ (h < g)
    BY <1>2, <1>3
  <1>5. PICK n \in S : g = M - n
    BY <1>4
  <1>6. \A m \in S : ~ (M - m < M - n)
    BY <1>4, <1>5
  <1>7. \A m \in S : m \in Nat /\ n \in Nat
    <2>1. \A m \in S : m \in 0 .. M
      OBVIOUS
    <2>2. \A m \in 0 .. M : m \in Nat
      OBVIOUS
    <2> QED
      BY <2>1, <2>2
  <1>8. \A m \in S : m <= n
    BY <1>6, <1>7
  <1> QED
    BY <1>8

-----------------------------------------------------------------------------
(* What every step gives the proofs of its conjuncts *)

(* No leader's log loses an entry. *)
Growing == \A u \in Term : Agrees(sent'[u], sent[u], Len(sent[u]))

LEMMA TypeFacts ==
  ASSUME TypeOK
  PROVE  /\ \A s \in Server : logs[s] \in Log /\ term[s] \in Nat
         /\ \A t \in Term : sent[t] \in Log /\ t \in Nat \ {0}
         /\ \A t \in Term, s \in Server : matchIndex[t][s] \in 0 .. MaxIndex
  BY TermInt, RaftAssumption DEF TypeOK

LEMMA SameGrowing ==
  ASSUME TypeOK, UNCHANGED sent
  PROVE  Growing
  BY TypeFacts, LogIsSeq DEF Growing, Agrees

LEMMA MatchingGrows ==
  ASSUME TypeOK, TypeOK', Growing, NEW log \in Log, Matching(log)
  PROVE  \A i \in 1 .. Len(log) : Agrees(sent'[log[i]], log, i)
  <1> SUFFICES ASSUME NEW i \in 1 .. Len(log) PROVE Agrees(sent'[log[i]], log, i)
    OBVIOUS
  <1> DEFINE u == log[i]
  <1>1. u \in Term /\ i \in Nat
    BY LogIsSeq
  <1>2. Agrees(sent[u], log, i)
    BY DEF Matching
  <1>3. i <= Len(sent[u])
    BY <1>2 DEF Agrees
  <1>4. Agrees(sent'[u], sent[u], Len(sent[u]))
    BY <1>1 DEF Growing
  <1>5. sent[u] \in Log /\ sent'[u] \in Log
    BY <1>1 DEF TypeOK
  <1>6. Len(sent[u]) \in Nat
    BY <1>5, LogIsSeq
  <1> QED
    BY <1>1, <1>2, <1>3, <1>4, <1>5, <1>6, AgreesTrans

(* The log of a leader that has an entry is not empty. *)
LEMMA LedIfSent ==
  ASSUME Leadership, NEW t \in Term, NEW n \in Nat \ {0}, n <= Len(sent[t])
  PROVE  leader[t] # {}
  BY EmptyLog DEF Leadership

LEMMA ClosedStays ==
  ASSUME NEW t \in Term, NEW n,
         \A v \in Server : matchIndex'[t][v] >= n \/ term'[v] <= t
                          => matchIndex[t][v] >= n \/ term[v] <= t,
         Choosable(t, n)'
  PROVE  Choosable(t, n)
  BY DEF Choosable, Majority

LEMMA LastTermIs ==
  ASSUME NEW log \in Log
  PROVE  /\ Len(log) = 0 => LastTerm(log) = 0
         /\ Len(log) # 0 => LastTerm(log) = log[Len(log)] /\ LastTerm(log) \in Term
  <1>1. Len(log) = 0 <=> log = <<>>
    BY LogIsSeq
  <1> QED
    BY <1>1, LogIsSeq DEF LastTerm

-----------------------------------------------------------------------------
(* Init *)

LEMMA InitIInv == Init => IInv
  <1> SUFFICES ASSUME Init PROVE IInv
    OBVIOUS
  <1>1. TypeOK
    BY EmptyLog, RaftAssumption DEF Init, TypeOK
  <1>2. /\ \A s \in Server : Len(logs[s]) = 0 /\ term[s] = 0
        /\ \A t \in Term : Len(sent[t]) = 0 /\ sent[t] = <<>> /\ leader[t] = {}
        /\ \A t \in Term, v \in Server : matchIndex[t][v] = 0
        /\ reported = {}
    BY EmptyLog DEF Init
  <1>3. Leadership /\ Quorums
    BY <1>2 DEF Leadership, Quorums
  <1>4. Orders /\ LogMatching
    BY <1>2 DEF Orders, Ordered, LogMatching, Matching
  <1>5. Confirmed
    BY <1>2 DEF Confirmed
  <1>6. Held /\ Kept
    BY <1>2 DEF Held, Kept, Open
  <1>7. Reported
    BY <1>2 DEF Reported
  <1> QED
    BY <1>1, <1>3, <1>4, <1>5, <1>6, <1>7 DEF IInv

-----------------------------------------------------------------------------
(* Elect *)

LEMMA ElectFresh ==
  ASSUME IInv, NEW t \in Term, NEW s \in Server, NEW voters \in SUBSET Server,
         Elect(t, s, voters)
  PROVE  /\ leader[t] = {} /\ sent[t] = <<>>
         /\ Majority(voters)
  <1>1. Majority(voters)
    BY DEF Elect, Majority
  <1>2. ASSUME leader[t] # {} PROVE FALSE
    <2>1. PICK Q : Majority(Q) /\ \A v \in Q : term[v] >= t
      BY <1>2 DEF IInv, Quorums
    <2>2. PICK v \in Server : v \in Q /\ v \in voters
      BY <1>1, <2>1, MajoritiesMeet
    <2>3. term[v] >= t /\ term[v] < t
      BY <2>1, <2>2 DEF Elect
    <2>4. term[v] \in Nat /\ t \in Nat
      BY TypeFacts DEF IInv
    <2> QED
      BY <2>3, <2>4
  <1> QED
    BY <1>1, <1>2 DEF IInv, Leadership

(* The vote of a server that holds an open entry goes to one that has it. *)
LEMMA CandidateHas ==
  ASSUME IInv, NEW t \in Term, NEW n \in 1 .. MaxIndex, Open(t, n),
         NEW s \in Server, NEW v \in Server, Agrees(logs[v], sent[t], n),
         UpToDate(logs[s], logs[v])
  PROVE  Agrees(logs[s], sent[t], n)
  <1> DEFINE last == LastTerm(logs[s])
             len == Len(logs[s])
  <1>1. /\ logs[s] \in Log /\ logs[v] \in Log /\ sent[t] \in Log
        /\ t \in Nat \ {0} /\ n \in Nat \ {0}
    BY TypeFacts, RaftAssumption DEF IInv
  <1>2. len \in Nat /\ Len(logs[v]) \in Nat /\ Len(sent[t]) \in Nat
    BY <1>1, LogIsSeq
  <1>3. n <= Len(logs[v]) /\ logs[v][n] = t
    BY <1>1 DEF Agrees, Open
  <1>4. LastTerm(logs[v]) \in Nat /\ LastTerm(logs[v]) >= t
    <2>1. LastTerm(logs[v]) = logs[v][Len(logs[v])] /\ LastTerm(logs[v]) \in Term
      BY <1>1, <1>2, <1>3, LastTermIs
    <2>2. Ordered(logs[v], term[v])
      BY DEF IInv, Orders
    <2>3. logs[v][n] <= logs[v][Len(logs[v])]
      BY <1>1, <1>2, <1>3, <2>2 DEF Ordered
    <2> QED
      BY <1>1, <1>3, <2>1, <2>3, TermInt
  <1>5. len # 0 /\ last = logs[s][len] /\ last \in Term /\ last \in Nat
    <2>1. last # 0
      <3>0. last \in Nat
        BY <1>1, <1>2, LastTermIs, TermInt
      <3>1. last >= LastTerm(logs[v])
        BY <1>4, <3>0 DEF UpToDate
      <3>2. last = 0 => 0 >= LastTerm(logs[v])
        BY <3>1
      <3> QED
        BY <1>1, <1>4, <3>2
    <2> QED
      BY <1>1, <1>2, <2>1, LastTermIs, TermInt
  <1>6. last >= LastTerm(logs[v]) /\ last >= t
    BY <1>1, <1>4, <1>5 DEF UpToDate
  <1>7. sent[last] \in Log /\ Len(sent[last]) \in Nat
    BY <1>5, TypeFacts, LogIsSeq DEF IInv
  <1>8. Agrees(sent[last], logs[s], len)
    BY <1>2, <1>5 DEF IInv, LogMatching, Matching
  <1>9. Agrees(sent[last], sent[t], n)
    <2>1. CASE last = t
      BY <1>1, <1>2, <2>1 DEF Agrees, Open
    <2>2. CASE last # t
      <3>1. last > t
        BY <1>1, <1>5, <1>6, <2>2
      <3>2. leader[last] # {}
        BY <1>2, <1>5, <1>8, LedIfSent DEF IInv, Agrees
      <3> QED
        BY <1>5, <3>1, <3>2 DEF IInv, Kept
    <2> QED
      BY <2>1, <2>2
  <1>10. n <= len
    <2>1. CASE last = LastTerm(logs[v])
      BY <1>1, <1>2, <1>3, <1>4, <1>5, <2>1 DEF UpToDate
    <2>2. CASE last # LastTerm(logs[v])
      <3>1. last > t
        BY <1>1, <1>4, <1>5, <1>6, <2>2
      <3>2. SUFFICES ASSUME len < n PROVE FALSE
        BY <1>1, <1>2
      <3>3. sent[last][len] = last /\ sent[last][n] = t /\ n <= Len(sent[last])
        BY <1>1, <1>2, <1>5, <1>8, <1>9 DEF Agrees, Open
      <3>4. Ordered(sent[last], last)
        BY <1>5 DEF IInv, Orders
      <3>5. sent[last][len] <= sent[last][n]
        BY <1>1, <1>2, <1>5, <1>7, <3>2, <3>3, <3>4 DEF Ordered
      <3> QED
        BY <1>1, <1>5, <3>1, <3>3, <3>5
    <2> QED
      BY <2>1, <2>2
  <1> QED
    BY <1>1, <1>2, <1>7, <1>8, <1>9, <1>10, AgreesTrans

LEMMA ElectIInv ==
  ASSUME IInv, NEW t \in Term, NEW s \in Server, NEW voters \in SUBSET Server,
         Elect(t, s, voters)
  PROVE  IInv'
  <1> USE DEF IInv
  <1>1. /\ leader[t] = {} /\ sent[t] = <<>> /\ Majority(voters)
        /\ s \in voters
    BY ElectFresh DEF Elect
  <1>2. /\ logs[s] \in Log /\ Len(logs[s]) \in 0 .. MaxIndex
        /\ t \in Nat \ {0}
        /\ \A v \in Server : term[v] \in Nat
        /\ \A u \in Term : u \in Nat \ {0} /\ sent[u] \in Log /\ Len(sent[u]) \in Nat
    BY TypeFacts, LogIsSeq
  <1>3. TypeOK'
    <2>1. /\ [v \in Server |-> IF v = s THEN Len(logs[s]) ELSE 0]
                 \in [Server -> 0 .. MaxIndex]
          /\ t \in 0 .. MaxTerm
      BY <1>2, RaftAssumption DEF Term
    <2> QED
      BY <1>2, <2>1 DEF TypeOK, Elect
  <1>4. /\ logs' = logs /\ reported' = reported
        /\ leader'[t] = {s} /\ sent'[t] = logs[s] /\ term'[s] = t
        /\ \A v \in Server : matchIndex'[t][v] = IF v = s THEN Len(logs[s]) ELSE 0
        /\ \A u \in Term : u # t => /\ leader'[u] = leader[u]
                                    /\ sent'[u] = sent[u]
                                    /\ matchIndex'[u] = matchIndex[u]
        /\ \A v \in Server : term'[v] = IF v \in voters THEN t ELSE term[v]
    BY <1>1 DEF Elect, TypeOK
  <1>5. /\ \A v \in voters : term[v] < t /\ UpToDate(logs[s], logs[v])
        /\ \A v \in Server : term'[v] >= term[v] /\ term'[v] \in Nat
    BY <1>2, <1>4 DEF Elect
  <1>6. Growing
    <2>1. Agrees(sent'[t], sent[t], Len(sent[t]))
      BY <1>1, <1>2, <1>4, EmptyLog DEF Agrees
    <2>2. \A u \in Term : u # t => Agrees(sent'[u], sent[u], Len(sent[u]))
      BY <1>2, <1>4 DEF Agrees
    <2> QED
      BY <2>1, <2>2 DEF Growing
  <1>7. Leadership'
    <2> SUFFICES ASSUME NEW u \in Term
                 PROVE  \/ /\ leader'[u] = {} /\ sent'[u] = <<>>
                           /\ \A v \in Server : matchIndex'[u][v] = 0
                        \/ \E w \in Server : /\ leader'[u] = {w} /\ term'[w] >= u
                                             /\ term'[w] = u => logs'[w] = sent'[u]
      BY DEF Leadership
    <2>1. CASE u = t
      BY <1>2, <1>4, <2>1
    <2>2. CASE u # t /\ leader[u] = {}
      BY <1>4, <2>2 DEF Leadership
    <2>3. CASE u # t /\ leader[u] # {}
      <3>1. PICK w \in Server : /\ leader[u] = {w} /\ term[w] >= u
                                /\ term[w] = u => logs[w] = sent[u]
        BY <2>3 DEF Leadership
      <3>2. term'[w] >= u
        <4>1. term[w] \in Nat /\ u \in Nat /\ term[w] >= u
          BY <1>2, <3>1
        <4>2. term'[w] >= term[w] /\ term'[w] \in Nat
          BY <1>5
        <4> QED
          BY <4>1, <4>2
      <3>3. term'[w] = u => term[w] = u
        BY <1>4, <2>3
      <3> QED
        BY <1>4, <2>3, <3>1, <3>2, <3>3
    <2> QED
      BY <2>1, <2>2, <2>3
  <1>8. Quorums'
    <2> SUFFICES ASSUME NEW u \in Term, leader'[u] # {}
                 PROVE  \E Q : Majority(Q) /\ \A v \in Q : term'[v] >= u
      BY DEF Quorums, Majority
    <2>1. CASE u = t
      BY <1>1, <1>2, <1>4, <2>1
    <2>2. CASE u # t
      <3>1. PICK Q : Majority(Q) /\ \A v \in Q : term[v] >= u
        BY <1>4, <2>2 DEF Quorums
      <3>2. ASSUME NEW v \in Q PROVE term'[v] >= u
        <4>1. v \in Server /\ term[v] >= u /\ u \in Nat /\ term[v] \in Nat
          BY <1>2, <3>1 DEF Majority
        <4>2. term'[v] >= term[v] /\ term'[v] \in Nat
          BY <1>5, <4>1
        <4> QED
          BY <4>1, <4>2
      <3> QED
        BY <3>1, <3>2
    <2> QED
      BY <2>1, <2>2
  <1>9. Ordered(logs[s], term[s]) /\ Matching(logs[s]) /\ term[s] < t
    BY <1>1, <1>5 DEF Orders, LogMatching
  <1>10. \A i \in 1 .. Len(logs[s]) : logs[s][i] < t /\ logs[s][i] \in Nat
    <2>1. \A i \in 1 .. Len(logs[s]) : logs[s][i] \in Nat
      BY <1>2, LogIsSeq, TermInt
    <2>2. \A i \in 1 .. Len(logs[s]) : logs[s][i] <= term[s]
      BY <1>9 DEF Ordered
    <2>3. term[s] \in Nat /\ t \in Nat /\ term[s] < t
      BY <1>2, <1>9
    <2> QED
      BY <2>1, <2>2, <2>3
  <1>11. Orders'
    <2>1. ASSUME NEW v \in Server PROVE Ordered(logs'[v], term'[v])
      <3>1. Ordered(logs[v], term[v])
        BY DEF Orders
      <3>2. \A i \in 1 .. Len(logs[v]) : logs[v][i] \in Nat
        BY LogIsSeq, TermInt, TypeFacts
      <3> QED
        BY <1>2, <1>4, <1>5, <3>1, <3>2 DEF Ordered
    <2>2. ASSUME NEW u \in Term PROVE Ordered(sent'[u], u)
      <3>1. CASE u = t
        BY <1>2, <1>4, <1>9, <1>10, <3>1 DEF Ordered
      <3>2. CASE u # t
        BY <1>4, <3>2 DEF Orders
      <3> QED
        BY <3>1, <3>2
    <2> QED
      BY <2>1, <2>2 DEF Orders
  <1>12. LogMatching'
    <2>1. ASSUME NEW v \in Server PROVE Matching(logs[v])'
      BY <1>3, <1>4, <1>6, MatchingGrows, TypeFacts DEF LogMatching, Matching
    <2>2. ASSUME NEW u \in Term PROVE Matching(sent[u])'
      <3>1. \E log \in Log : sent'[u] = log /\ Matching(log)
        BY <1>2, <1>4, <1>9 DEF LogMatching
      <3> QED
        BY <1>3, <1>6, <3>1, MatchingGrows DEF Matching
    <2> QED
      BY <2>1, <2>2 DEF LogMatching
  <1>13. Confirmed'
    <2> SUFFICES ASSUME NEW u \in Term, NEW v \in Server
                 PROVE  /\ matchIndex'[u][v] <= Len(sent'[u])
                        /\ matchIndex'[u][v] > 0 => term'[v] >= u
      BY DEF Confirmed
    <2>1. CASE u = t
      BY <1>2, <1>4, <2>1
    <2>2. CASE u # t
      <3>1. /\ matchIndex[u][v] <= Len(sent[u])
            /\ matchIndex[u][v] > 0 => term[v] >= u
        BY DEF Confirmed
      <3> QED
        BY <1>2, <1>4, <1>5, <2>2, <3>1
    <2> QED
      BY <2>1, <2>2
  <1>14. ASSUME NEW u \in Term, NEW n \in 1 .. MaxIndex, Open(u, n)'
         PROVE  u # t /\ Open(u, n)
    <2>1. u # t
      BY <1>2, <1>4, <1>10, <1>14 DEF Open
    <2>2. \A v \in Server : matchIndex'[u][v] >= n \/ term'[v] <= u
                           => matchIndex[u][v] >= n \/ term[v] <= u
      BY <1>2, <1>4, <1>5, <2>1
    <2>3. Choosable(u, n)
      BY <1>14, <2>2, ClosedStays DEF Open
    <2> QED
      BY <1>4, <1>14, <2>1, <2>3 DEF Open
  <1>15. Held'
    <2> SUFFICES ASSUME NEW u \in Term, NEW n \in 1 .. MaxIndex, Open(u, n)',
                        NEW v \in Server, matchIndex'[u][v] >= n
                 PROVE  Agrees(logs'[v], sent'[u], n)
      BY DEF Held, Agrees
    <2> QED
      BY <1>4, <1>14 DEF Held
  <1>16. Kept'
    <2> SUFFICES ASSUME NEW u \in Term, NEW n \in 1 .. MaxIndex, Open(u, n)',
                        NEW w \in Term, w > u, leader'[w] # {}
                 PROVE  Agrees(sent'[w], sent'[u], n)
      BY DEF Kept, Agrees
    <2>1. u # t /\ Open(u, n)
      BY <1>14
    <2>2. CASE w # t
      BY <1>4, <2>1, <2>2 DEF Kept
    <2>3. CASE w = t
      <3>1. PICK Q : Majority(Q) /\ \A v \in Q : matchIndex'[u][v] >= n \/ term'[v] <= u
        BY DEF Open, Choosable, Majority
      <3>2. PICK v \in Server : v \in Q /\ v \in voters
        BY <1>1, <3>1, MajoritiesMeet
      <3>3. matchIndex[u][v] >= n
        BY <1>2, <1>4, <2>1, <2>3, <3>1, <3>2
      <3>4. Agrees(logs[v], sent[u], n)
        BY <2>1, <3>3 DEF Held
      <3>5. Agrees(logs[s], sent[u], n)
        BY <1>5, <2>1, <3>2, <3>4, CandidateHas
      <3> QED
        BY <1>4, <2>1, <2>3, <3>5
    <2> QED
      BY <2>2, <2>3
  <1>17. Reported'
    <2> SUFFICES ASSUME NEW r \in reported
                 PROVE  \E k \in 1 .. MaxIndex :
                          /\ k <= Len(sent'[r.term]) /\ sent'[r.term][k] = r.term
                          /\ Len(r.prefix) = k /\ Agrees(r.prefix, sent'[r.term], k)
                          /\ \E Q : /\ Majority(Q)
                                    /\ \A v \in Q : matchIndex'[r.term][v] >= k
      BY <1>4 DEF Reported, Majority, Agrees
    <2>1. r.term \in Term
      BY DEF TypeOK
    <2>2. PICK k \in 1 .. MaxIndex :
            /\ k <= Len(sent[r.term]) /\ sent[r.term][k] = r.term
            /\ Len(r.prefix) = k /\ Agrees(r.prefix, sent[r.term], k)
            /\ \E Q : Majority(Q) /\ \A v \in Q : matchIndex[r.term][v] >= k
      BY DEF Reported
    <2>3. r.term # t
      BY <1>1, <2>2, EmptyLog
    <2> QED
      BY <1>4, <2>1, <2>2, <2>3
  <1> QED
    BY <1>3, <1>7, <1>8, <1>11, <1>12, <1>13, <1>15, <1>16, <1>17

-----------------------------------------------------------------------------
(* Propose *)

LEMMA ProposeIInv ==
  ASSUME IInv, NEW t \in Term, NEW s \in Server, Propose(t, s)
  PROVE  IInv'
  <1> USE DEF IInv
  <1> DEFINE log == logs[s]
             len == Len(log)
             longer == Append(log, t)
  <1>1. /\ leader[t] = {s} /\ term[s] = t /\ len < MaxIndex
        /\ sent[t] = log
    <2>1. leader[t] = {s} /\ term[s] = t /\ len < MaxIndex
      BY DEF Propose, Leads
    <2> QED
      BY <2>1 DEF Leadership
  <1>2. /\ log \in Log /\ len \in 0 .. MaxIndex /\ MaxIndex \in Nat
        /\ t \in Nat \ {0}
        /\ \A v \in Server : term[v] \in Nat /\ logs[v] \in Log /\ Len(logs[v]) \in Nat
        /\ \A u \in Term : u \in Nat \ {0} /\ sent[u] \in Log /\ Len(sent[u]) \in Nat
        /\ \A u \in Term, v \in Server : matchIndex[u][v] \in Nat
    BY TypeFacts, LogIsSeq, RaftAssumption
  <1>3. /\ longer \in Log /\ Len(longer) = len + 1 /\ longer[len + 1] = t
        /\ \A j \in 1 .. len : longer[j] = log[j]
    BY <1>1, <1>2, AppendLog
  <1>4. /\ term' = term /\ leader' = leader /\ reported' = reported
        /\ logs'[s] = longer /\ sent'[t] = longer
        /\ matchIndex'[t][s] = len + 1
        /\ \A v \in Server : v # s => /\ logs'[v] = logs[v]
                                      /\ matchIndex'[t][v] = matchIndex[t][v]
        /\ \A u \in Term : u # t => /\ sent'[u] = sent[u]
                                    /\ matchIndex'[u] = matchIndex[u]
    BY <1>1 DEF Propose, TypeOK
  <1> HIDE DEF log, len, longer
  <1>5. TypeOK'
    <2>1. /\ logs' \in [Server -> Log] /\ sent' \in [Term -> Log]
      <3>1. logs' = [logs EXCEPT ![s] = longer] /\ sent' = [sent EXCEPT ![t] = longer]
        BY <1>1 DEF Propose, log, longer
      <3> QED
        BY <1>3, <3>1 DEF TypeOK
    <2>2. matchIndex' \in [Term -> [Server -> 0 .. MaxIndex]]
      <3>1. matchIndex' = [matchIndex EXCEPT ![t][s] = len + 1]
        BY DEF Propose, log, len
      <3>2. len + 1 \in 0 .. MaxIndex
        BY <1>1, <1>2
      <3> QED
        BY <3>1, <3>2 DEF TypeOK
    <2> QED
      BY <1>4, <2>1, <2>2 DEF TypeOK
  <1>6. Growing
    <2>1. Agrees(sent'[t], sent[t], Len(sent[t]))
      BY <1>1, <1>2, <1>3, <1>4 DEF Agrees, len
    <2>2. \A u \in Term : u # t => Agrees(sent'[u], sent[u], Len(sent[u]))
      BY <1>2, <1>4 DEF Agrees
    <2> QED
      BY <2>1, <2>2 DEF Growing
  <1>7. Leadership'
    <2> SUFFICES ASSUME NEW u \in Term
                 PROVE  \/ /\ leader'[u] = {} /\ sent'[u] = <<>>
                           /\ \A v \in Server : matchIndex'[u][v] = 0
                        \/ \E w \in Server : /\ leader'[u] = {w} /\ term'[w] >= u
                                             /\ term'[w] = u => logs'[w] = sent'[u]
      BY DEF Leadership
    <2>1. CASE u = t
      BY <1>1, <1>2, <1>4, <2>1
    <2>2. CASE u # t /\ leader[u] = {}
      BY <1>4, <2>2 DEF Leadership
    <2>3. CASE u # t /\ leader[u] # {}
      <3>1. PICK w \in Server : /\ leader[u] = {w} /\ term[w] >= u
                                /\ term[w] = u => logs[w] = sent[u]
        BY <2>3 DEF Leadership
      <3>2. term'[w] = u => w # s
        BY <1>1, <1>4, <2>3
      <3> QED
        BY <1>4, <2>3, <3>1, <3>2
    <2> QED
      BY <2>1, <2>2, <2>3
  <1>8. Quorums'
    BY <1>4 DEF Quorums, Majority
  <1>9. Ordered(log, t) /\ Matching(log)
    BY <1>1 DEF Orders, LogMatching, log
  <1>10. Ordered(longer, t)
    <2>1. \A i \in 1 .. len : log[i] \in Nat /\ log[i] <= t
      BY <1>2, <1>9, LogIsSeq, TermInt DEF Ordered, len
    <2>2. ASSUME NEW i \in 1 .. len
          PROVE  longer[i] <= t /\ \A j \in 1 .. i : longer[j] <= longer[i]
      <3>1. \A j \in 1 .. i : log[j] <= log[i] /\ j \in 1 .. len
        BY <1>2, <1>9 DEF Ordered, len
      <3> QED
        BY <1>3, <2>1, <3>1
    <2>3. \A j \in 1 .. len + 1 : longer[j] <= t
      BY <1>2, <1>3, <2>2
    <2> QED
      BY <1>2, <1>3, <2>2, <2>3 DEF Ordered
  <1>11. Orders'
    <2>1. ASSUME NEW v \in Server PROVE Ordered(logs'[v], term'[v])
      BY <1>1, <1>4, <1>10 DEF Orders
    <2>2. ASSUME NEW u \in Term PROVE Ordered(sent'[u], u)
      BY <1>4, <1>10 DEF Orders
    <2> QED
      BY <2>1, <2>2 DEF Orders
  <1>12. \A i \in 1 .. Len(longer) : Agrees(sent'[longer[i]], longer, i)
    <2> SUFFICES ASSUME NEW i \in 1 .. Len(longer)
                 PROVE  Agrees(sent'[longer[i]], longer, i)
      OBVIOUS
    <2>1. CASE i = len + 1
      BY <1>2, <1>3, <1>4, <2>1 DEF Agrees
    <2>2. CASE i # len + 1
      <3>1. i \in 1 .. len /\ longer[i] = log[i]
        BY <1>2, <1>3, <2>2
      <3>2. log[i] \in Term
        BY <1>2, <3>1, LogIsSeq DEF len
      <3>3. Agrees(sent'[log[i]], log, i)
        BY <1>2, <1>5, <1>6, <1>9, <3>1, MatchingGrows DEF len
      <3>4. sent'[log[i]] \in Log
        BY <1>5, <3>2 DEF TypeOK
      <3>5. Agrees(longer, log, i)
        BY <1>2, <1>3, <3>1 DEF Agrees, len
      <3> QED
        BY <1>2, <1>3, <3>1, <3>3, <3>4, <3>5, AgreesTrans
    <2> QED
      BY <2>1, <2>2
  <1>13. LogMatching'
    <2>1. ASSUME NEW v \in Server PROVE Matching(logs[v])'
      <3>1. CASE v = s
        BY <1>4, <1>12, <3>1 DEF Matching
      <3>2. CASE v # s
        BY <1>2, <1>4, <1>5, <1>6, <3>2, MatchingGrows DEF LogMatching, Matching
      <3> QED
        BY <3>1, <3>2
    <2>2. ASSUME NEW u \in Term PROVE Matching(sent[u])'
      <3>1. CASE u = t
        BY <1>4, <1>12, <3>1 DEF Matching
      <3>2. CASE u # t
        BY <1>2, <1>4, <1>5, <1>6, <3>2, MatchingGrows DEF LogMatching, Matching
      <3> QED
        BY <3>1, <3>2
    <2> QED
      BY <2>1, <2>2 DEF LogMatching
  <1>14. Confirmed'
    <2> SUFFICES ASSUME NEW u \in Term, NEW v \in Server
                 PROVE  /\ matchIndex'[u][v] <= Len(sent'[u])
                        /\ matchIndex'[u][v] > 0 => term'[v] >= u
      BY DEF Confirmed
    <2>1. /\ matchIndex[u][v] <= Len(sent[u])
          /\ matchIndex[u][v] > 0 => term[v] >= u
      BY DEF Confirmed
    <2>2. CASE u # t
      BY <1>4, <2>1, <2>2
    <2>3. CASE u = t /\ v = s
      BY <1>1, <1>2, <1>3, <1>4, <2>3
    <2>4. CASE u = t /\ v # s
      <3>1. matchIndex[t][v] <= len
        BY <1>1, <2>1, <2>4 DEF len
      <3> QED
        BY <1>2, <1>3, <1>4, <2>1, <2>4, <3>1
    <2> QED
      BY <2>2, <2>3, <2>4
  <1>15. ASSUME NEW u \in Term, NEW n \in 1 .. MaxIndex, Open(u, n)'
         PROVE  Open(u, n) \/ (u = t /\ n = len + 1)
    <2>1. n <= Len(sent'[u]) /\ sent'[u][n] = u /\ Choosable(u, n)'
      BY <1>15 DEF Open
    <2>2. \A v \in Server : matchIndex'[u][v] >= n \/ term'[v] <= u
                           => matchIndex[u][v] >= n \/ term[v] <= u
      BY <1>1, <1>2, <1>4
    <2>3. Choosable(u, n)
      BY <2>1, <2>2, ClosedStays
    <2>4. CASE u # t
      BY <1>4, <2>1, <2>3, <2>4 DEF Open
    <2>5. CASE u = t /\ n # len + 1
      <3>1. n \in 1 .. len
        BY <1>2, <1>3, <1>4, <2>1, <2>5
      <3>2. n <= Len(sent[t]) /\ sent[t][n] = t
        BY <1>1, <1>2, <1>3, <1>4, <2>1, <2>5, <3>1 DEF len
      <3> QED
        BY <2>3, <2>5, <3>2 DEF Open
    <2> QED
      BY <2>4, <2>5
  <1>16. /\ \A v \in Server : logs'[v] \in Log /\ Agrees(logs'[v], logs[v], Len(logs[v]))
         /\ \A u \in Term : sent'[u] \in Log /\ Agrees(sent'[u], sent[u], Len(sent[u]))
    <2>1. \A v \in Server : Agrees(logs'[v], logs[v], Len(logs[v]))
      <3>1. Agrees(logs'[s], logs[s], Len(logs[s]))
        BY <1>2, <1>3, <1>4 DEF Agrees, log, len
      <3>2. \A v \in Server : v # s => Agrees(logs'[v], logs[v], Len(logs[v]))
        BY <1>2, <1>4 DEF Agrees
      <3> QED
        BY <3>1, <3>2
    <2> QED
      BY <1>5, <1>6, <2>1 DEF Growing, TypeOK
  <1>17. Held'
    <2> SUFFICES ASSUME NEW u \in Term, NEW n \in 1 .. MaxIndex, Open(u, n)',
                        NEW v \in Server, matchIndex'[u][v] >= n
                 PROVE  Agrees(logs'[v], sent'[u], n)
      BY DEF Held, Agrees
    <2>1. n \in Nat /\ n <= Len(sent'[u])
      BY <1>2 DEF Open
    <2>2. CASE u = t /\ v = s
      BY <1>2, <1>3, <1>4, <2>1, <2>2 DEF Agrees
    <2>3. CASE u # t \/ v # s
      <3>1. matchIndex[u][v] >= n
        BY <1>4, <2>3
      <3>2. n <= Len(sent[u])
        BY <1>2, <2>1, <3>1 DEF Confirmed
      <3>3. Open(u, n)
        BY <1>1, <1>2, <1>15, <3>2 DEF len
      <3>4. Agrees(logs[v], sent[u], n)
        BY <3>1, <3>3 DEF Held
      <3>5. n <= Len(logs[v])
        BY <3>4 DEF Agrees
      <3>6. Agrees(logs'[v], sent[u], n)
        BY <1>2, <1>16, <2>1, <3>4, <3>5, AgreesTrans
      <3>7. Agrees(sent[u], sent'[u], n)
        BY <1>2, <1>16, <2>1, <3>2, AgreesFewer
      <3> QED
        BY <1>2, <1>16, <2>1, <3>6, <3>7, AgreesTrans
    <2> QED
      BY <2>2, <2>3
  <1>18. Kept'
    <2> SUFFICES ASSUME NEW u \in Term, NEW n \in 1 .. MaxIndex, Open(u, n)',
                        NEW w \in Term, w > u, leader'[w] # {}
                 PROVE  Agrees(sent'[w], sent'[u], n)
      BY DEF Kept, Agrees
    <2>1. CASE Open(u, n)
      <3>1. Agrees(sent[w], sent[u], n) /\ n \in Nat
        BY <1>2, <1>4, <2>1 DEF Kept
      <3>2. n <= Len(sent[w]) /\ n <= Len(sent[u])
        BY <3>1 DEF Agrees
      <3>3. Agrees(sent'[w], sent[u], n)
        BY <1>2, <1>16, <3>1, <3>2, AgreesTrans
      <3>4. Agrees(sent[u], sent'[u], n)
        BY <1>2, <1>16, <3>1, <3>2, AgreesFewer
      <3> QED
        BY <1>2, <1>16, <3>1, <3>3, <3>4, AgreesTrans
    <2>2. CASE u = t /\ n = len + 1
      <3>1. PICK Q : Majority(Q) /\ \A v \in Q : matchIndex'[t][v] >= n \/ term'[v] <= t
        BY <2>2 DEF Open, Choosable, Majority
      <3>2. PICK P : Majority(P) /\ \A v \in P : term[v] >= w
        BY <1>4 DEF Quorums
      <3>3. PICK v \in Server : v \in Q /\ v \in P
        BY <3>1, <3>2, MajoritiesMeet
      <3>4. term[v] > t
        BY <1>2, <2>2, <3>2, <3>3
      <3>5. v # s
        BY <1>1, <1>2, <3>4
      <3>6. matchIndex[t][v] >= n
        BY <1>2, <1>4, <3>1, <3>3, <3>4, <3>5
      <3>7. matchIndex[t][v] <= len
        BY <1>1 DEF Confirmed, len
      <3> QED
        BY <1>2, <2>2, <3>6, <3>7
    <2> QED
      BY <1>15, <2>1, <2>2
  <1>19. Reported'
    <2> SUFFICES ASSUME NEW r \in reported
                 PROVE  \E k \in 1 .. MaxIndex :
                          /\ k <= Len(sent'[r.term]) /\ sent'[r.term][k] = r.term
                          /\ Len(r.prefix) = k /\ Agrees(r.prefix, sent'[r.term], k)
                          /\ \E Q : /\ Majority(Q)
                                    /\ \A v \in Q : matchIndex'[r.term][v] >= k
      BY <1>4 DEF Reported, Majority, Agrees
    <2>1. r.term \in Term /\ r.prefix \in Log
      BY DEF TypeOK
    <2>2. PICK k \in 1 .. MaxIndex :
            /\ k <= Len(sent[r.term]) /\ sent[r.term][k] = r.term
            /\ Len(r.prefix) = k /\ Agrees(r.prefix, sent[r.term], k)
            /\ \E Q : Majority(Q) /\ \A v \in Q : matchIndex[r.term][v] >= k
      BY DEF Reported
    <2>3. PICK Q : Majority(Q) /\ \A v \in Q : matchIndex[r.term][v] >= k
      BY <2>2
    <2>4. /\ k \in Nat /\ sent[r.term] \in Log /\ sent'[r.term] \in Log
          /\ Len(sent[r.term]) \in Nat /\ k <= Len(sent[r.term])
          /\ Agrees(sent'[r.term], sent[r.term], Len(sent[r.term]))
          /\ Agrees(r.prefix, sent[r.term], k)
      <3>1. /\ sent[r.term] \in Log /\ sent'[r.term] \in Log
            /\ Len(sent[r.term]) \in Nat
            /\ Agrees(sent'[r.term], sent[r.term], Len(sent[r.term]))
        BY <1>2, <1>16, <2>1
      <3>2. k \in Nat
        BY <1>2
      <3> QED
        BY <2>2, <3>1, <3>2
    <2>5. k \in Nat /\ Agrees(sent'[r.term], sent[r.term], k)
      BY <2>4, AgreesFewer
    <2>6. Agrees(r.prefix, sent'[r.term], k)
      BY <2>1, <2>5, <2>4, AgreesTrans
    <2>7. k <= Len(sent'[r.term]) /\ sent'[r.term][k] = r.term
      BY <1>2, <2>1, <2>2, <2>5 DEF Agrees
    <2>8. ASSUME NEW v \in Q PROVE matchIndex'[r.term][v] >= k
      <3>1. v \in Server /\ matchIndex[r.term][v] >= k
        BY <2>3 DEF Majority
      <3>2. CASE r.term = t /\ v = s
        <4>1. k <= len
          BY <1>1, <2>2, <3>2 DEF len
        <4> QED
          BY <1>2, <1>4, <2>5, <3>2, <4>1
      <3>3. CASE r.term # t \/ v # s
        BY <1>4, <2>1, <3>1, <3>3
      <3> QED
        BY <3>2, <3>3
    <2> QED
      BY <2>2, <2>3, <2>6, <2>7, <2>8
  <1> QED
    BY <1>5, <1>7, <1>8, <1>11, <1>13, <1>14, <1>17, <1>18, <1>19

-----------------------------------------------------------------------------
(* Replicate *)

LEMMA ReplicateIInv ==
  ASSUME IInv, NEW t \in Term, NEW f \in Server, NEW n \in 0 .. MaxIndex,
         Replicate(t, f, n)
  PROVE  IInv'
  <1> USE DEF IInv
  <1> DEFINE sends == Prefix(sent[t], n)
  <1>1. /\ leader[t] # {} /\ leader[t] # {f} /\ term[f] <= t /\ n <= Len(sent[t])
        /\ n \in Nat
    BY RaftAssumption DEF Replicate
  <1>2. /\ t \in Nat \ {0} /\ MaxIndex \in Nat
        /\ \A v \in Server : term[v] \in Nat /\ logs[v] \in Log /\ Len(logs[v]) \in Nat
        /\ \A u \in Term : u \in Nat \ {0} /\ sent[u] \in Log /\ Len(sent[u]) \in Nat
        /\ \A u \in Term, v \in Server : matchIndex[u][v] \in Nat
    BY TypeFacts, LogIsSeq, RaftAssumption
  <1>3. sends \in Log /\ Len(sends) = n /\ Agrees(sends, sent[t], n)
    BY <1>1, <1>2, PrefixLog, PrefixAgrees
  <1>4. /\ leader' = leader /\ sent' = sent /\ reported' = reported
        /\ term'[f] = t
        /\ matchIndex'[t][f] = IF n > matchIndex[t][f] THEN n ELSE matchIndex[t][f]
        /\ \A v \in Server : v # f => /\ logs'[v] = logs[v] /\ term'[v] = term[v]
                                      /\ matchIndex'[t][v] = matchIndex[t][v]
        /\ \A u \in Term : u # t => matchIndex'[u] = matchIndex[u]
    BY DEF Replicate, TypeOK
  <1>5. \/ logs'[f] = logs[f] /\ Agrees(logs[f], sent[t], n)
        \/ logs'[f] = sends /\ ~ Agrees(logs[f], sent[t], n)
    <2>1. \/ logs' = logs /\ n <= Len(logs[f]) /\ Prefix(logs[f], n) = sends
          \/ /\ logs' = [logs EXCEPT ![f] = sends]
             /\ ~ (n <= Len(logs[f]) /\ Prefix(logs[f], n) = sends)
      BY DEF Replicate
    <2>2. n <= Len(logs[f]) => (Prefix(logs[f], n) = sends <=> Agrees(logs[f], sent[t], n))
      BY <1>1, <1>2, PrefixEqual
    <2>3. Agrees(logs[f], sent[t], n) => n <= Len(logs[f])
      BY DEF Agrees
    <2> HIDE DEF sends
    <2>4. logs \in [Server -> Log]
      BY DEF TypeOK
    <2> QED
      BY <2>1, <2>2, <2>3, <2>4
  <1> HIDE DEF sends
  <1>6. Agrees(logs'[f], sent[t], n)
    BY <1>3, <1>5
  <1>7. TypeOK'
    <2>1. logs' \in [Server -> Log]
      <3>1. logs' = logs \/ logs' = [logs EXCEPT ![f] = sends]
        BY DEF Replicate, sends
      <3> QED
        BY <1>3, <3>1 DEF TypeOK
    <2>2. term' \in [Server -> 0 .. MaxTerm]
      BY <1>2, RaftAssumption DEF Replicate, TypeOK, Term
    <2>3. matchIndex' \in [Term -> [Server -> 0 .. MaxIndex]]
      BY DEF Replicate, TypeOK
    <2> QED
      BY <1>4, <2>1, <2>2, <2>3 DEF TypeOK
  <1>8. /\ Growing
        /\ \A v \in Server : term'[v] >= term[v] /\ term'[v] \in Nat
    BY <1>1, <1>2, <1>4, SameGrowing
  <1>9. Leadership'
    <2> SUFFICES ASSUME NEW u \in Term
                 PROVE  \/ /\ leader'[u] = {} /\ sent'[u] = <<>>
                           /\ \A v \in Server : matchIndex'[u][v] = 0
                        \/ \E w \in Server : /\ leader'[u] = {w} /\ term'[w] >= u
                                             /\ term'[w] = u => logs'[w] = sent'[u]
      BY DEF Leadership
    <2>1. CASE leader[u] = {}
      <3>1. sent[u] = <<>> /\ \A v \in Server : matchIndex[u][v] = 0
        BY <2>1 DEF Leadership
      <3>2. u # t
        BY <1>1, <2>1
      <3> QED
        BY <1>4, <2>1, <3>1, <3>2
    <2>2. CASE leader[u] # {}
      <3>1. PICK w \in Server : /\ leader[u] = {w} /\ term[w] >= u
                                /\ term[w] = u => logs[w] = sent[u]
        BY <2>2 DEF Leadership
      <3>2. term'[w] >= u
        <4>1. term[w] \in Nat /\ u \in Nat /\ term[w] >= u
          BY <1>2, <3>1
        <4>2. term'[w] >= term[w] /\ term'[w] \in Nat
          BY <1>8
        <4> QED
          BY <4>1, <4>2
      <3>3. ASSUME term'[w] = u PROVE logs'[w] = sent[u]
        <4>1. CASE w = f
          <5>1. u = t
            BY <1>4, <3>3, <4>1
          <5> QED
            BY <1>1, <3>1, <4>1, <5>1
        <4>2. CASE w # f
          BY <1>4, <3>1, <3>3, <4>2
        <4> QED
          BY <4>1, <4>2
      <3> QED
        BY <1>4, <3>1, <3>2, <3>3
    <2> QED
      BY <2>1, <2>2
  <1>10. Quorums'
    <2> SUFFICES ASSUME NEW u \in Term, leader'[u] # {}
                 PROVE  \E Q : Majority(Q) /\ \A v \in Q : term'[v] >= u
      BY DEF Quorums, Majority
    <2>1. PICK Q : Majority(Q) /\ \A v \in Q : term[v] >= u
      BY <1>4 DEF Quorums
    <2>2. ASSUME NEW v \in Q PROVE term'[v] >= u
      <3>1. v \in Server /\ term[v] >= u /\ u \in Nat /\ term[v] \in Nat
        BY <1>2, <2>1 DEF Majority
      <3>2. term'[v] >= term[v] /\ term'[v] \in Nat
        BY <1>8, <3>1
      <3> QED
        BY <3>1, <3>2
    <2> QED
      BY <2>1, <2>2
  <1>11. Orders'
    <2>1. ASSUME NEW v \in Server PROVE Ordered(logs'[v], term'[v])
      <3>1. Ordered(logs[v], term[v])
        BY DEF Orders
      <3>2. \A i \in 1 .. Len(logs[v]) : logs[v][i] \in Nat
        BY LogIsSeq, TermInt, TypeFacts
      <3>3. CASE logs'[v] = logs[v]
        BY <1>2, <1>8, <3>1, <3>2, <3>3 DEF Ordered
      <3>4. CASE v = f /\ logs'[v] = sends
        <4>1. Ordered(sent[t], t)
          BY DEF Orders
        <4> QED
          BY <1>1, <1>2, <1>3, <1>4, <3>4, <4>1 DEF Ordered, Agrees
      <3> QED
        BY <1>4, <1>5, <3>3, <3>4
    <2>2. ASSUME NEW u \in Term PROVE Ordered(sent'[u], u)
      BY <1>4 DEF Orders
    <2> QED
      BY <2>1, <2>2 DEF Orders
  <1>12. \A i \in 1 .. Len(sends) : Agrees(sent[sends[i]], sends, i)
    <2> SUFFICES ASSUME NEW i \in 1 .. n PROVE Agrees(sent[sends[i]], sends, i)
      BY <1>3
    <2>1. /\ sends[i] = sent[t][i] /\ i <= Len(sent[t]) /\ i \in Nat /\ i <= n
          /\ i \in 1 .. Len(sent[t])
      BY <1>1, <1>2, <1>3 DEF Agrees
    <2>2. Agrees(sent[sends[i]], sent[t], i)
      BY <2>1 DEF LogMatching, Matching
    <2>3. sends[i] \in Term
      BY <1>3, LogIsSeq
    <2>4. Agrees(sent[t], sends, i)
      BY <1>1, <1>2, <1>3, <2>1, AgreesFewer
    <2>5. sent[sends[i]] \in Log
      BY <1>2, <2>3
    <2> QED
      BY <1>2, <1>3, <2>1, <2>2, <2>4, <2>5, AgreesTrans
  <1>13. LogMatching'
    <2>1. ASSUME NEW v \in Server PROVE Matching(logs[v])'
      <3>1. CASE logs'[v] = logs[v]
        BY <1>2, <1>4, <1>7, <1>8, <3>1, MatchingGrows DEF LogMatching, Matching
      <3>2. CASE logs'[v] = sends
        BY <1>4, <1>12, <3>2 DEF Matching
      <3> QED
        BY <1>4, <1>5, <3>1, <3>2
    <2>2. ASSUME NEW u \in Term PROVE Matching(sent[u])'
      BY <1>4 DEF LogMatching, Matching
    <2> QED
      BY <2>1, <2>2 DEF LogMatching
  <1>14. Confirmed'
    <2> SUFFICES ASSUME NEW u \in Term, NEW v \in Server
                 PROVE  /\ matchIndex'[u][v] <= Len(sent'[u])
                        /\ matchIndex'[u][v] > 0 => term'[v] >= u
      BY DEF Confirmed
    <2>1. /\ matchIndex[u][v] <= Len(sent[u])
          /\ matchIndex[u][v] > 0 => term[v] >= u
      BY DEF Confirmed
    <2>2. CASE u = t /\ v = f
      BY <1>1, <1>2, <1>4, <2>1, <2>2
    <2>3. CASE u # t \/ v # f
      <3>1. matchIndex'[u][v] = matchIndex[u][v]
        BY <1>4, <2>3
      <3> QED
        BY <1>2, <1>4, <1>8, <2>1, <3>1
    <2> QED
      BY <2>2, <2>3
  <1>15. ASSUME NEW u \in Term, NEW k \in 1 .. MaxIndex, Open(u, k)'
         PROVE  Open(u, k)
    <2>1. ASSUME NEW v \in Server, matchIndex'[u][v] >= k \/ term'[v] <= u
          PROVE  matchIndex[u][v] >= k \/ term[v] <= u
      <3>1. CASE u = t /\ v = f
        BY <1>1, <3>1
      <3>2. CASE u # t \/ v # f
        <4>1. matchIndex'[u][v] = matchIndex[u][v]
          BY <1>4, <3>2
        <4>2. term'[v] >= term[v] /\ term'[v] \in Nat /\ term[v] \in Nat /\ u \in Nat
          BY <1>2, <1>8
        <4> QED
          BY <2>1, <4>1, <4>2
      <3> QED
        BY <3>1, <3>2
    <2>2. Choosable(u, k)
      BY <1>15, <2>1, ClosedStays DEF Open
    <2> QED
      BY <1>4, <1>15, <2>2 DEF Open
  <1>16. Held'
    <2> SUFFICES ASSUME NEW u \in Term, NEW k \in 1 .. MaxIndex, Open(u, k)',
                        NEW v \in Server, matchIndex'[u][v] >= k
                 PROVE  Agrees(logs'[v], sent[u], k)
      BY <1>4 DEF Held, Agrees
    <2>1. Open(u, k) /\ k \in Nat \ {0} /\ u \in Nat
      <3>1. Open(u, k)
        BY <1>15
      <3>2. k \in Nat \ {0}
        BY RaftAssumption
      <3>3. u \in Nat
        BY TermInt
      <3> QED
        BY <3>1, <3>2, <3>3
    <2>2. CASE v # f
      BY <1>4, <2>1, <2>2 DEF Held
    <2>3. CASE v = f /\ matchIndex[u][f] >= k
      <3>1. Agrees(logs[f], sent[u], k)
        BY <2>1, <2>3 DEF Held
      <3>2. CASE logs'[f] = logs[f]
        BY <2>3, <3>1, <3>2
      <3>3. CASE ~ Agrees(logs[f], sent[t], n)
        <4>1. Agrees(sent[t], sent[u], k)
          <5>1. CASE u = t
            BY <1>2, <2>1, <5>1 DEF Agrees, Open
          <5>2. CASE u # t
            <6>1. term[f] >= u
              BY <1>2, <2>1, <2>3 DEF Confirmed
            <6>2. t > u
              BY <1>1, <1>2, <2>1, <5>2, <6>1
            <6> QED
              BY <1>1, <2>1, <6>2 DEF Kept
          <5> QED
            BY <5>1, <5>2
        <4>2. Agrees(logs[f], sent[t], k)
          BY <1>2, <2>1, <3>1, <4>1, AgreesTrans
        <4>3. k <= n
          BY <1>1, <1>2, <2>1, <3>3, <4>2, AgreesFewer
        <4>4. logs'[f] \in Log
          BY <1>7 DEF TypeOK
        <4> QED
          BY <1>1, <1>2, <1>6, <2>1, <2>3, <4>1, <4>3, <4>4, AgreesTrans
      <3> QED
        BY <1>5, <3>2, <3>3
    <2>4. CASE v = f /\ ~ (matchIndex[u][f] >= k)
      <3>1. u = t /\ k <= n
        BY <1>1, <1>2, <1>4, <2>1, <2>4
      <3>2. logs'[f] \in Log
        BY <1>7 DEF TypeOK
      <3> QED
        BY <1>1, <1>2, <1>6, <2>1, <2>4, <3>1, <3>2, AgreesFewer
    <2> QED
      BY <2>2, <2>3, <2>4
  <1>17. Kept'
    <2> SUFFICES ASSUME NEW u \in Term, NEW k \in 1 .. MaxIndex, Open(u, k)',
                        NEW w \in Term, w > u, leader'[w] # {}
                 PROVE  Agrees(sent'[w], sent'[u], k)
      BY DEF Kept, Agrees
    <2> QED
      BY <1>4, <1>15 DEF Kept
  <1>18. Reported'
    <2> SUFFICES ASSUME NEW r \in reported
                 PROVE  \E k \in 1 .. MaxIndex :
                          /\ k <= Len(sent[r.term]) /\ sent[r.term][k] = r.term
                          /\ Len(r.prefix) = k /\ Agrees(r.prefix, sent[r.term], k)
                          /\ \E Q : /\ Majority(Q)
                                    /\ \A v \in Q : matchIndex'[r.term][v] >= k
      BY <1>4 DEF Reported, Majority, Agrees
    <2>1. r.term \in Term
      BY DEF TypeOK
    <2>2. PICK k \in 1 .. MaxIndex :
            /\ k <= Len(sent[r.term]) /\ sent[r.term][k] = r.term
            /\ Len(r.prefix) = k /\ Agrees(r.prefix, sent[r.term], k)
            /\ \E Q : Majority(Q) /\ \A v \in Q : matchIndex[r.term][v] >= k
      BY DEF Reported
    <2>3. PICK Q : Majority(Q) /\ \A v \in Q : matchIndex[r.term][v] >= k
      BY <2>2
    <2>4. ASSUME NEW v \in Q PROVE matchIndex'[r.term][v] >= k
      <3>1. v \in Server /\ matchIndex[r.term][v] >= k /\ k \in Nat
        BY <1>2, <2>3 DEF Majority
      <3>2. matchIndex[r.term][v] \in Nat
        BY <1>2, <2>1, <3>1
      <3>3. CASE r.term = t /\ v = f
        BY <1>1, <1>4, <3>1, <3>2, <3>3
      <3>4. CASE r.term # t \/ v # f
        BY <1>4, <2>1, <3>1, <3>4
      <3> QED
        BY <3>3, <3>4
    <2> QED
      BY <2>2, <2>3, <2>4
  <1> QED
    BY <1>7, <1>9, <1>10, <1>11, <1>13, <1>14, <1>16, <1>17, <1>18

-----------------------------------------------------------------------------
(* Commit *)

LEMMA KnownIs ==
  ASSUME IInv, NEW t \in Term, NEW v \in Server
  PROVE  /\ Len(known(t)[v]) = matchIndex[t][v]
         /\ \A i \in 1 .. matchIndex[t][v] : known(t)[v][i] = sent[t][i]
  <1>1. /\ sent[t] \in Log /\ matchIndex[t][v] \in Nat
        /\ matchIndex[t][v] <= Len(sent[t])
    BY TypeFacts, RaftAssumption DEF IInv, Confirmed
  <1>2. known(t)[v] = Prefix(sent[t], matchIndex[t][v])
    BY DEF known
  <1> QED
    BY <1>1, <1>2, PrefixLog

(* The script's committed_index finds an entry of the current term that a
   majority has confirmed. *)
LEMMA CommittedIs ==
  ASSUME IInv, NEW t \in Term, committed_index(t) > 0
  PROVE  /\ committed_index(t) \in 1 .. MaxIndex
         /\ committed_index(t) <= Len(sent[t])
         /\ sent[t][committed_index(t)] = t
         /\ \E Q : Majority(Q) /\ \A v \in Q : matchIndex[t][v] >= committed_index(t)
  <1> DEFINE enough == {i \in candidates(t) : Cardinality(copies(i, t)) >= majority}
             k == committed_index(t)
  <1>1. /\ MaxIndex \in Nat /\ sent[t] \in Log /\ Len(sent[t]) \in Nat
        /\ \A v \in Server : /\ matchIndex[t][v] \in 0 .. MaxIndex
                             /\ matchIndex[t][v] <= Len(sent[t])
    BY TypeFacts, LogIsSeq, RaftAssumption DEF IInv, Confirmed
  <1>2. candidates(t) \subseteq 1 .. MaxIndex
    BY <1>1, KnownIs DEF candidates
  <1>3. \E n \in enough \union {0} : \A i \in enough : i <= n
    <2>1. enough \union {0} \in SUBSET (0 .. MaxIndex)
      BY <1>1, <1>2
    <2>2. \E n \in enough \union {0} : \A i \in enough \union {0} : i <= n
      <3> HIDE DEF enough
      <3> QED
        BY <1>1, <2>1, Greatest
    <2> QED
      BY <2>2
  <1>4. k = CHOOSE n \in enough \union {0} : \A i \in enough : i <= n
    BY DEF committed_index
  <1>5. k \in enough \union {0}
    <2> HIDE DEF enough, k
    <2> QED
      BY <1>3, <1>4
  <1>6. k \in candidates(t) /\ Cardinality(copies(k, t)) >= majority
    BY <1>5
  <1> HIDE DEF k
  <1>7. k \in 1 .. MaxIndex /\ Majority(copies(k, t))
    BY <1>2, <1>6, MajorityEnough DEF copies
  <1>8. \A v \in copies(k, t) : matchIndex[t][v] >= k /\ sent[t][k] = t /\ v \in Server
    <2> SUFFICES ASSUME NEW v \in copies(k, t)
                 PROVE  matchIndex[t][v] >= k /\ sent[t][k] = t /\ v \in Server
      OBVIOUS
    <2>1. v \in Server /\ k <= Len(known(t)[v]) /\ known(t)[v][k] = t
      BY DEF copies
    <2>2. k <= matchIndex[t][v] /\ k \in 1 .. matchIndex[t][v]
      BY <1>1, <1>7, <2>1, KnownIs
    <2> QED
      BY <1>1, <1>7, <2>1, <2>2, KnownIs
  <1>9. PICK v \in Server : v \in copies(k, t)
    BY <1>7, MajoritiesMeet
  <1>10. k <= Len(sent[t]) /\ sent[t][k] = t
    BY <1>1, <1>7, <1>8, <1>9
  <1> QED
    BY <1>7, <1>8, <1>10 DEF k

(* A step that only reports leaves everything else as it was. *)
LEMMA OnlyReported ==
  ASSUME IInv, logs' = logs, term' = term, leader' = leader, sent' = sent,
         matchIndex' = matchIndex
  PROVE  /\ Leadership' /\ Quorums' /\ Orders' /\ LogMatching' /\ Confirmed'
         /\ Held' /\ Kept'
  <1>1. Leadership'
    BY DEF IInv, Leadership
  <1>2. Quorums'
    BY DEF IInv, Quorums, Majority
  <1>3. Orders'
    BY DEF IInv, Orders, Ordered
  <1>4. LogMatching'
    BY DEF IInv, LogMatching, Matching, Agrees
  <1>5. Confirmed'
    BY DEF IInv, Confirmed
  <1>6. \A t \in Term, n \in 1 .. MaxIndex : Open(t, n)' = Open(t, n)
    BY DEF Open, Choosable, Majority
  <1>7. Held'
    BY <1>6 DEF IInv, Held, Agrees
  <1>8. Kept'
    BY <1>6 DEF IInv, Kept, Agrees
  <1> QED
    BY <1>1, <1>2, <1>3, <1>4, <1>5, <1>7, <1>8

LEMMA CommitIInv ==
  ASSUME IInv, NEW t \in Term, NEW s \in Server, Commit(t, s)
  PROVE  IInv'
  <1> USE DEF IInv
  <1> DEFINE k == committed_index(t)
             entry == [term |-> t, prefix |-> committed_prefix(logs[s], t)]
  <1>1. /\ logs' = logs /\ term' = term /\ leader' = leader /\ sent' = sent
        /\ matchIndex' = matchIndex /\ reported' = reported \union {entry}
        /\ k > 0 /\ Leads(s, t)
    BY DEF Commit
  <1>2. /\ k \in 1 .. MaxIndex /\ k <= Len(sent[t]) /\ sent[t][k] = t
        /\ \E Q : Majority(Q) /\ \A v \in Q : matchIndex[t][v] >= k
    BY <1>1, CommittedIs
  <1>3. logs[s] = sent[t] /\ sent[t] \in Log
    BY <1>1, TypeFacts DEF Leads, Leadership
  <1>4. entry.term = t /\ entry.prefix = Prefix(sent[t], k)
    BY <1>3 DEF committed_prefix
  <1> HIDE DEF k
  <1>5. /\ entry.prefix \in Log /\ Len(entry.prefix) = k
        /\ Agrees(entry.prefix, sent[t], k) /\ entry.prefix # <<>>
    BY <1>2, <1>3, <1>4, PrefixLog, PrefixAgrees, EmptyLog
  <1>6. TypeOK'
    <2>1. entry \in [term : Term, prefix : Log \ {<<>>}]
      BY <1>4, <1>5
    <2> HIDE DEF entry
    <2> QED
      BY <1>1, <2>1 DEF TypeOK
  <1>7. Reported'
    <2> SUFFICES ASSUME NEW r \in reported'
                 PROVE  \E i \in 1 .. MaxIndex :
                          /\ i <= Len(sent[r.term]) /\ sent[r.term][i] = r.term
                          /\ Len(r.prefix) = i /\ Agrees(r.prefix, sent[r.term], i)
                          /\ \E Q : /\ Majority(Q)
                                    /\ \A v \in Q : matchIndex[r.term][v] >= i
      BY <1>1 DEF Reported, Majority, Agrees
    <2>1. CASE r \in reported
      BY <2>1 DEF Reported
    <2>2. CASE r = entry
      <3> HIDE DEF entry
      <3> QED
        BY <1>2, <1>4, <1>5, <2>2
    <2> QED
      BY <1>1, <2>1, <2>2
  <1> QED
    BY <1>1, <1>6, <1>7, OnlyReported

-----------------------------------------------------------------------------
(* The theorems *)

LEMMA NextIInv == IInv /\ [Next]_vars => IInv'
  <1> SUFFICES ASSUME IInv, [Next]_vars PROVE IInv'
    OBVIOUS
  <1>1. CASE UNCHANGED vars
    <2>1. /\ logs' = logs /\ term' = term /\ leader' = leader /\ sent' = sent
          /\ matchIndex' = matchIndex /\ reported' = reported
      BY <1>1 DEF vars
    <2>2. TypeOK'
      BY <2>1 DEF IInv, TypeOK
    <2>3. Reported'
      BY <2>1 DEF IInv, Reported, Majority, Agrees
    <2> QED
      BY <2>1, <2>2, <2>3, OnlyReported DEF IInv
  <1>2. ASSUME NEW t \in Term, NEW s \in Server, NEW voters \in SUBSET Server,
               Elect(t, s, voters)
        PROVE  IInv'
    BY <1>2, ElectIInv
  <1>3. ASSUME NEW t \in Term, NEW s \in Server, Propose(t, s) PROVE IInv'
    BY <1>3, ProposeIInv
  <1>4. ASSUME NEW t \in Term, NEW s \in Server, Commit(t, s) PROVE IInv'
    BY <1>4, CommitIInv
  <1>5. ASSUME NEW t \in Term, NEW f \in Server, NEW n \in 0 .. MaxIndex,
               Replicate(t, f, n)
        PROVE  IInv'
    BY <1>5, ReplicateIInv
  <1> QED
    BY <1>1, <1>2, <1>3, <1>4, <1>5 DEF Next

LEMMA Invariance == Spec => []IInv
  BY InitIInv, NextIInv, PTL DEF Spec

(* Terms, logs and what leaders have learned stay in range, and what
   committed_prefix reports is never empty once committed_index is above 0. *)
THEOREM TypeCorrect == Spec => []TypeOK
  <1>1. IInv => TypeOK
    BY DEF IInv
  <1> QED
    BY <1>1, Invariance, PTL

(* What the rule of committed_index once called committed is in the log of
   the leader of that and of every later term, for any number of servers,
   elections and entries, with AppendEntries late, repeated or lost. *)
THEOREM LeaderCompleteness == Spec => []LeadersKeepCommitted
  <1>1. IInv => LeadersKeepCommitted
    <2> SUFFICES ASSUME IInv, NEW r \in reported, NEW t \in r.term .. MaxTerm,
                        leader[t] # {}
                 PROVE  IsPrefix(r.prefix, sent[t])
      BY DEF LeadersKeepCommitted
    <2>1. r.term \in Term /\ r.prefix \in Log
      BY DEF IInv, TypeOK
    <2>2. t \in Term /\ t \in Nat /\ r.term \in Nat /\ t >= r.term
      BY <2>1, RaftAssumption DEF Term
    <2>3. PICK k \in 1 .. MaxIndex :
            /\ k <= Len(sent[r.term]) /\ sent[r.term][k] = r.term
            /\ Len(r.prefix) = k /\ Agrees(r.prefix, sent[r.term], k)
            /\ \E Q : Majority(Q) /\ \A v \in Q : matchIndex[r.term][v] >= k
      BY DEF IInv, Reported
    <2>4. /\ k \in Nat /\ sent[t] \in Log /\ sent[r.term] \in Log
          /\ Len(sent[t]) \in Nat
      BY <2>1, <2>2, TypeFacts, LogIsSeq, RaftAssumption DEF IInv
    <2>5. Open(r.term, k)
      BY <2>3 DEF Open, Choosable
    <2>6. Agrees(r.prefix, sent[t], k)
      <3>1. CASE t = r.term
        BY <2>3, <3>1
      <3>2. CASE t # r.term
        <4>1. Agrees(sent[t], sent[r.term], k)
          BY <2>1, <2>2, <2>5, <3>2 DEF IInv, Kept
        <4>2. Agrees(r.prefix, sent[r.term], k)
          BY <2>3
        <4> QED
          BY <2>1, <2>4, <4>1, <4>2, AgreesTrans
      <3> QED
        BY <3>1, <3>2
    <2>7. k <= Len(sent[t]) /\ Len(r.prefix) = k
      BY <2>3, <2>6 DEF Agrees
    <2>8. Prefix(sent[t], k) = r.prefix
      <3>1. /\ Prefix(sent[t], k) \in Log /\ Len(Prefix(sent[t], k)) = k
            /\ \A j \in 1 .. k : Prefix(sent[t], k)[j] = sent[t][j]
        BY <2>4, <2>7, PrefixLog
      <3> QED
        BY <2>1, <2>6, <2>7, <3>1, LogEqual DEF Agrees
    <2> QED
      BY <2>7, <2>8 DEF IsPrefix
  <1> QED
    BY <1>1, Invariance, PTL
=============================================================================
