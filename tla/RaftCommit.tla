----------------------------- MODULE RaftCommit -----------------------------
(***************************************************************************)
(* The commit rule of                                                      *)
(* learning/distributed-systems/examples/raft_commit_model.py, evaluated   *)
(* in every situation elections and replication can leave the logs in.    *)
(* The one the script lists (A and B hold terms 2 and 4, C holds term 2,   *)
(* and the current term is 4) is one of them.                              *)
(*                                                                         *)
(* An entry is its index and its term: the place in a log gives the index, *)
(* so a log is a sequence of terms, and commands are left out.  Elections  *)
(* and AppendEntries are external (the script excludes them).  What a      *)
(* leader of a term has sent may arrive late, repeatedly, in any order or  *)
(* never, also after that leader was deposed.  A crash loses nothing that  *)
(* is modelled here: logs and terms are on disk, and a restarted server is *)
(* a follower that may be elected again.                                   *)
(*                                                                         *)
(* The logs the script counts copies in are those of all servers as the    *)
(* leader of current_term knows them, from what they have answered it in   *)
(* its own term (matchIndex in 05-raft-logs-and-commit.md).                *)
(***************************************************************************)
EXTENDS Integers, Sequences, FiniteSets

CONSTANTS
  Server,
  MaxTerm,   (* bound: elections   *)
  MaxIndex   (* bound: log length  *)

ASSUME RaftAssumption ==
  /\ IsFiniteSet(Server) /\ Server # {}
  /\ MaxTerm \in Nat /\ MaxIndex \in Nat

Term == 1 .. MaxTerm
Log == UNION {[1 .. n -> Term] : n \in 0 .. MaxIndex}

VARIABLES
  logs,
  term,       (* the highest term each server has seen                     *)
  leader,     (* who won each term: a set of at most one server            *)
  sent,       (* the log of each term's leader, as far as it led           *)
  matchIndex, (* how much of it each server has confirmed to that leader   *)
  reported    (* history: what committed_prefix was found to be, and when  *)

vars == <<logs, term, leader, sent, matchIndex, reported>>

Init ==
  /\ logs = [s \in Server |-> <<>>]
  /\ term = [s \in Server |-> 0]
  /\ leader = [t \in Term |-> {}]
  /\ sent = [t \in Term |-> <<>>]
  /\ matchIndex = [t \in Term |-> [s \in Server |-> 0]]
  /\ reported = {}

-----------------------------------------------------------------------------
(* Elections and replication, external *)

LastTerm(log) == IF log = <<>> THEN 0 ELSE log[Len(log)]

UpToDate(log, other) ==
  \/ LastTerm(log) > LastTerm(other)
  \/ LastTerm(log) = LastTerm(other) /\ Len(log) >= Len(other)

Elect(t, s, voters) ==
  /\ s \in voters
  /\ 2 * Cardinality(voters) > Cardinality(Server)
  /\ \A v \in voters : term[v] < t /\ UpToDate(logs[s], logs[v])
  /\ leader' = [leader EXCEPT ![t] = {s}]
  /\ sent' = [sent EXCEPT ![t] = logs[s]]
  /\ matchIndex' = [matchIndex EXCEPT ![t] =
                      [v \in Server |-> IF v = s THEN Len(logs[s]) ELSE 0]]
  /\ term' = [v \in Server |-> IF v \in voters THEN t ELSE term[v]]
  /\ UNCHANGED <<logs, reported>>

Leads(s, t) == leader[t] = {s} /\ term[s] = t

Propose(t, s) ==
  /\ Leads(s, t)
  /\ Len(logs[s]) < MaxIndex
  /\ logs' = [logs EXCEPT ![s] = Append(@, t)]
  /\ sent' = [sent EXCEPT ![t] = Append(@, t)]
  /\ matchIndex' = [matchIndex EXCEPT ![t][s] = Len(logs[s]) + 1]
  /\ UNCHANGED <<term, leader, reported>>

Prefix(log, n) == SubSeq(log, 1, n)

(* The first n entries of the leader of t reach follower f, which gives up
   what it has only where it differs.  An answer that is lost on its way back
   leaves the leader as it would be had it only judged earlier. *)
Replicate(t, f, n) ==
  /\ leader[t] # {} /\ leader[t] # {f}
  /\ term[f] <= t
  /\ n <= Len(sent[t])
  /\ logs' = IF n <= Len(logs[f]) /\ Prefix(logs[f], n) = Prefix(sent[t], n)
             THEN logs
             ELSE [logs EXCEPT ![f] = Prefix(sent[t], n)]
  /\ term' = [term EXCEPT ![f] = t]
  /\ matchIndex' = [matchIndex EXCEPT ![t][f] = IF n > @ THEN n ELSE @]
  /\ UNCHANGED <<leader, sent, reported>>

-----------------------------------------------------------------------------
(* committed_index *)

majority == Cardinality(Server) \div 2 + 1

(* The script's logs. *)
known(current_term) ==
  [s \in Server |-> Prefix(sent[current_term], matchIndex[current_term][s])]

candidates(current_term) ==
  UNION {1 .. Len(known(current_term)[s]) : s \in Server}

(* Faulty: a copy counts whatever its term. *)
copiesOfAnyTerm(index, current_term) ==
  {s \in Server : index <= Len(known(current_term)[s])}

copies(index, current_term) ==
  {s \in Server : LET log == known(current_term)[s] IN
                   index <= Len(log) /\ log[index] = current_term}

(* The highest index that a majority holds with an entry of the current
   term; 0 when there is none. *)
committed_index(current_term) ==
  LET enough == {index \in candidates(current_term) :
                   Cardinality(copies(index, current_term)) >= majority}
  IN CHOOSE n \in enough \union {0} : \A index \in enough : index <= n

(* Faulty: `<` for `<=` leaves the committed entry itself out. *)
committed_prefix_exclusive(log, t) == Prefix(log, committed_index(t) - 1)

committed_prefix(log, t) == Prefix(log, committed_index(t))

(* The leader of t judges its log. *)
Commit(t, s) ==
  /\ Leads(s, t)
  /\ committed_index(t) > 0
  /\ reported' = reported \union
       {[term |-> t, prefix |-> committed_prefix(logs[s], t)]}
  /\ UNCHANGED <<logs, term, leader, sent, matchIndex>>

Next ==
  \/ \E t \in Term, s \in Server :
       \/ \E voters \in SUBSET Server : Elect(t, s, voters)
       \/ Propose(t, s)
       \/ Commit(t, s)
  \/ \E t \in Term, f \in Server : \E n \in 0 .. MaxIndex : Replicate(t, f, n)

Spec == Init /\ [][Next]_vars
-----------------------------------------------------------------------------
(* Properties *)

TypeOK ==
  /\ logs \in [Server -> Log]
  /\ term \in [Server -> 0 .. MaxTerm]
  /\ leader \in [Term -> SUBSET Server]
  /\ sent \in [Term -> Log]
  /\ matchIndex \in [Term -> [Server -> 0 .. MaxIndex]]
  /\ reported \subseteq [term : Term, prefix : Log \ {<<>>}]

IsPrefix(log, other) ==
  Len(log) <= Len(other) /\ Prefix(other, Len(log)) = log

(* What committed_prefix was once found to contain is in the log of every
   leader of that or a later term: no election and no overwriting takes a
   committed entry back, entries of past terms included, which are committed
   only together with one of the current term. *)
LeadersKeepCommitted ==
  \A r \in reported : \A t \in r.term .. MaxTerm :
    leader[t] # {} => IsPrefix(r.prefix, sent[t])
=============================================================================
