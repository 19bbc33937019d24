----------------------------- MODULE RetryDebit -----------------------------
(***************************************************************************)
(* AccountService of learning/distributed-systems/examples/                *)
(* retry_dedup_model.py, and the callers it is written for: a caller that  *)
(* hears nothing repeats its debit under the same request id.              *)
(*                                                                         *)
(* The callers and the network are external.  Requests and answers may be  *)
(* lost, delayed without limit, duplicated and reordered; a caller keeps   *)
(* one amount per request id, as the script's two calls do.                *)
(***************************************************************************)
EXTENDS Integers, FiniteSets, FiniteSetsExt

CONSTANTS
  RequestId,
  Amount,          (* what each request debits                             *)
  InitialBalance,  (* 1_000 in the code                                    *)
  None,            (* no result recorded, no answer yet                    *)
  Refused          (* the ValueError "insufficient balance"                *)

ASSUME AmountAssumption ==
  /\ IsFiniteSet(RequestId)
  /\ Amount \in [RequestId -> Nat]
  /\ InitialBalance \in Nat
ASSUME SentinelAssumption ==
  None # Refused /\ None \notin Int /\ Refused \notin Int

Answer == Int \union {Refused}

VARIABLES
  balance, executions, results,   (* AccountService *)
  requests, answers,              (* messages in the network *)
  heard                           (* what each caller has been told *)

service == <<balance, executions, results>>
vars == <<service, requests, answers, heard>>

Init ==
  /\ balance = InitialBalance
  /\ executions = 0
  /\ results = [id \in RequestId |-> None]
  /\ requests = {} /\ answers = {}
  /\ heard = [id \in RequestId |-> None]

-----------------------------------------------------------------------------
(* Callers and network, external *)

(* A first call, or a repetition after silence. *)
Call(id) ==
  /\ heard[id] = None
  /\ requests' = requests \union {id}
  /\ UNCHANGED <<service, answers, heard>>

LoseRequest(id) ==
  /\ id \in requests
  /\ requests' = requests \ {id}
  /\ UNCHANGED <<service, answers, heard>>

LoseAnswer(a) ==
  /\ a \in answers
  /\ answers' = answers \ {a}
  /\ UNCHANGED <<service, requests, heard>>

(* The first answer to arrive settles the call; later ones are ignored. *)
Hear(a) ==
  /\ a \in answers
  /\ heard[a.id] = None
  /\ heard' = [heard EXCEPT ![a.id] = a.value]
  /\ UNCHANGED <<service, requests, answers>>

-----------------------------------------------------------------------------
(* debit *)

Known(id) == results[id] # None

(* The answer leaves the service, and the request may be delivered again. *)
Reply(id, value) ==
  /\ answers' = answers \union {[id |-> id, value |-> value]}
  /\ requests' \in {requests, requests \ {id}}
  /\ UNCHANGED heard

(* Faulty: a repetition is answered with the balance of the moment. *)
RepeatCurrent(id) ==
  /\ id \in requests
  /\ Known(id)
  /\ Reply(id, balance)
  /\ UNCHANGED service

(* Faulty: a repetition is dropped as a duplicate. *)
RepeatDropped(id) ==
  /\ id \in requests
  /\ Known(id)
  /\ requests' = requests \ {id}
  /\ UNCHANGED <<service, answers, heard>>

Repeat(id) ==
  /\ id \in requests
  /\ Known(id)
  /\ Reply(id, results[id])
  /\ UNCHANGED service

(* Faulty: a refusal is answered like a missing result. *)
RefuseSilently(id) ==
  /\ id \in requests
  /\ ~Known(id)
  /\ Amount[id] > balance
  /\ Reply(id, None)
  /\ UNCHANGED service

Refuse(id) ==
  /\ id \in requests
  /\ ~Known(id)
  /\ Amount[id] > balance
  /\ Reply(id, Refused)
  /\ UNCHANGED service

(* Faulty: the request id is not looked up first. *)
ExecuteAlways(id) ==
  /\ id \in requests
  /\ Amount[id] <= balance
  /\ balance' = balance - Amount[id]
  /\ executions' = executions + 1
  /\ results' = [results EXCEPT ![id] = balance - Amount[id]]
  /\ Reply(id, balance - Amount[id])

Execute(id) ==
  /\ id \in requests
  /\ ~Known(id)
  /\ Amount[id] <= balance
  /\ balance' = balance - Amount[id]
  /\ executions' = executions + 1
  /\ results' = [results EXCEPT ![id] = balance - Amount[id]]
  /\ Reply(id, balance - Amount[id])

debit(id) == Repeat(id) \/ Refuse(id) \/ Execute(id)

Next ==
  \/ \E id \in RequestId : Call(id) \/ LoseRequest(id) \/ debit(id)
  \/ \E a \in answers : LoseAnswer(a) \/ Hear(a)

Spec == Init /\ [][Next]_vars

(* A caller repeats until it hears; the network, however lossy, delivers a
   message that is sent again and again. *)
FairSpec ==
  /\ Spec
  /\ \A id \in RequestId :
       /\ WF_vars(Call(id))
       /\ SF_vars(debit(id))
       /\ SF_vars(\E a \in answers : a.id = id /\ Hear(a))
-----------------------------------------------------------------------------
(* Properties *)

TypeOK ==
  /\ balance \in Int /\ executions \in Nat
  /\ results \in [RequestId -> Int \union {None}]
  /\ requests \subseteq RequestId
  /\ answers \subseteq [id : RequestId, value : Answer]
  /\ heard \in [RequestId -> Answer \union {None}]

Executed == {id \in RequestId : Known(id)}

(* However often a request is delivered, its amount leaves the account once:
   the money and the execution count add up over the recorded requests, and
   the account is never overdrawn. *)
ChargedOnce ==
  /\ balance >= 0
  /\ executions = Cardinality(Executed)
  /\ balance + MapThenSumSet(LAMBDA id : Amount[id], Executed) = InitialBalance

(* All callers of one id are told the same, whichever of its deliveries is
   answered, and what they are told is what happened: a balance means the
   debit was made, a refusal means it was not and never will be, although
   refusals are not recorded and the request may still be under way. *)
AnswersAgree ==
  /\ \A a, b \in answers : a.id = b.id => a.value = b.value
  /\ \A a \in answers : a.value = Refused \/ a.value = results[a.id]
  /\ \A id \in RequestId :
       heard[id] = Refused \/ [id |-> id, value |-> Refused] \in answers
         => ~Known(id) /\ Amount[id] > balance
  /\ \A id \in RequestId : heard[id] \in Int => heard[id] = results[id]

(* Every caller that keeps repeating is answered in the end. *)
EveryoneHears == \A id \in RequestId : <>(heard[id] # None)
=============================================================================
