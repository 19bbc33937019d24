-------------------------- MODULE SchedulingCheck --------------------------
(***************************************************************************)
(* The schedulers, budgets, pipelines and executions on every input up to  *)
(* a bound, and what each may promise.                                     *)
(***************************************************************************)
EXTENDS Scheduling, Problem

CONSTANTS
  Arrival, MaxBurst, MaxQuantum, MaxJobs,
  MaxDemand, MaxBudget,
  Register, MaxProgram

ASSUME SchedulingAssumption ==
  /\ Arrival \subseteq Nat /\ MaxBurst \in Nat /\ MaxQuantum \in Nat /\ MaxJobs \in Nat
  /\ MaxDemand \in Nat /\ MaxBudget \in Nat /\ MaxProgram \in Nat

Kinds == {"split_three", "atomic_load_store", "atomic_rmw", "mutex_whole_increment"}

Jobs ==
  UNION {{[i \in 1 .. n |-> [name |-> i, arrival |-> a[i], burst |-> b[i]]] :
            a \in [1 .. n -> Arrival], b \in [1 .. n -> 1 .. MaxBurst]}
         : n \in 1 .. MaxJobs}

Instruction ==
  [name : 1 .. MaxProgram, load : BOOLEAN, destination : Register,
   sources : SUBSET Register]

(* Names in the order they first occur: 1 for the first, and so on. *)
Numbered(program) ==
  \A i \in DOMAIN program :
    program[i].name - 1 <= Cardinality({program[j].name : j \in 1 .. i - 1})

SchedulingProblem ==
  \/ \E jobs \in Jobs, policy \in {"FCFS", "SJF"} :
       problem = [kind |-> "queue", jobs |-> jobs, policy |-> policy]
  \/ \E jobs \in Jobs, quantum \in 0 .. MaxQuantum :
       problem = [kind |-> "round robin", jobs |-> jobs, quantum |-> quantum]
  \/ \E of \in Kinds : \E schedule \in schedules(of) :
       problem = [kind |-> "race", of |-> of, schedule |-> schedule]
  \/ \E of \in Kinds : problem = [kind |-> "races", of |-> of]
  \/ \E wanted \in Upto(MaxJobs, 0 .. MaxDemand), budget \in 0 .. MaxBudget,
        quantum \in 0 .. MaxQuantum :
       problem = [kind |-> "budget", wanted |-> wanted, budget |-> budget,
                  quantum |-> quantum]
  \/ \E program \in {p \in Upto(MaxProgram, Instruction) : Numbered(p)} :
       problem = [kind |-> "pipeline", program |-> program]
  \/ problem = [kind |-> "store buffering"]

TwoPeriods ==
  LET period(used) == run_period(problem.budget, problem.wanted, used, problem.quantum)
      first == period([i \in DOMAIN problem.wanted |-> 0])
  IN <<first, period(first.used)>>

SolveScheduling ==
  \/ Solve("queue", nonpreemptive(problem.jobs, problem.policy))
  \/ Solve("round robin", round_robin(problem.jobs, problem.quantum))
  \/ Solve("race", simulate(problem.schedule, problem.of))
  \/ Solve("races", run_model(problem.of))
  \/ Solve("budget", TwoPeriods)
  \/ Solve("pipeline", pipeline(problem.program))
  \/ Solve("store buffering", enumerate_seq_cst_outcomes)

-----------------------------------------------------------------------------
(* What each answer has to be *)

Ticks(job) == {t \in DOMAIN answer : answer[t] = job.name}

(* The job has arrived and is not finished before tick t. *)
Wants(job, t) ==
  job.arrival < t /\ Cardinality({u \in Ticks(job) : u < t}) < job.burst

(* Each job runs for its burst and not before it arrives, and the processor is
   only idle when nobody wants it. *)
Conserving ==
  /\ \A j \in ToSet(problem.jobs) :
       Cardinality(Ticks(j)) = j.burst /\ \A t \in Ticks(j) : Wants(j, t)
  /\ \A t \in DOMAIN answer : answer[t] = Idle =>
       \A j \in ToSet(problem.jobs) : ~Wants(j, t)

(* A job that wants the processor runs at least once in any stretch as long
   as one quantum of every job. *)
NobodyStarves ==
  \A j \in ToSet(problem.jobs) : \A t \in DOMAIN answer :
    LET stretch == t .. t + (Len(problem.jobs) - 1) * problem.quantum IN
    stretch \subseteq DOMAIN answer /\ (\A u \in stretch : Wants(j, u))
      => stretch \intersect Ticks(j) # {}

(* When all jobs come at once, no order waits less in all than the shortest
   first. *)
WaitsLeast ==
  LET TotalWaiting(timeline) ==
        FoldLeft(+, 0, [i \in DOMAIN problem.jobs |-> summarize(timeline, problem.jobs[i]).waiting])
      Order(p) == FoldLeft(LAMBDA line, i : line \o Slots(problem.jobs[i].name, problem.jobs[i].burst),
                           <<>>, p)
  IN (problem.policy = "SJF" /\ \A i \in DOMAIN problem.jobs : problem.jobs[i].arrival = 0)
     => \A p \in {s \in [DOMAIN problem.jobs -> DOMAIN problem.jobs] : IsInjective(s)} :
          TotalWaiting(answer) <= TotalWaiting(Order(p))

(* In each of two periods the budget is used up or nobody wants more; who still
   wants has got at most one quantum less than any other; and what got used is
   carried over, but not whose turn it was: each period starts with the first
   thread, so that nobody gets more than one before it that still wants. *)
BudgetShared ==
  \A p \in {1, 2} :
    LET before(i) == IF p = 1 THEN 0 ELSE answer[1].used[i]
        given == [i \in DOMAIN problem.wanted |-> answer[p].used[i] - before(i)]
        wants(i) == problem.wanted[i] - before(i)
    IN /\ FoldLeft(+, 0, given) + answer[p].budget = problem.budget
       /\ answer[p].budget >= 0
       /\ \A i \in DOMAIN given : given[i] \in 0 .. wants(i)
       /\ answer[p].budget > 0 /\ problem.quantum > 0 =>
            \A i \in DOMAIN given : given[i] = wants(i)
       /\ \A i, j \in DOMAIN given :
            given[i] < wants(i) =>
              given[j] <= given[i] + (IF i < j THEN 0 ELSE problem.quantum)

(* Instruction i executes in cycle i + 2, later by one for every load before
   it whose result the next instruction needs, and waits in ID meanwhile, the
   next one behind it in IF; EX is empty where it waits.  Equal names share
   one record. *)
PipelineOnTime ==
  LET program == problem.program
      waits(i) == Cardinality({j \in 2 .. i :
                    program[j - 1].load /\ program[j - 1].destination \in program[j].sources})
      spent(i) == [FE |-> i + waits(i - 2) .. i + waits(i - 1),
                   ID |-> i + 1 + waits(i - 1) .. i + 1 + waits(i),
                   EX |-> {i + 2 + waits(i)}, MEM |-> {i + 3 + waits(i)},
                   WB |-> {i + 4 + waits(i)}]
      Called(name) == {i \in DOMAIN program : program[i].name = name}
  IN /\ answer.timeline =
          [name \in {item.name : item \in ToSet(program)} |->
             [stage \in Stage |-> UNION {spent(i)[stage] : i \in Called(name)}]]
     /\ answer.bubble_cycles =
          {i + 1 + waits(i) : i \in {i \in DOMAIN program : waits(i) > waits(i - 1)}}

(* An update is lost exactly when the two increments overlap. *)
LostIfOverlapping ==
  LET at(a) == {i \in DOMAIN problem.schedule : problem.schedule[i] = a}
      apart == \E a, b \in Actors : a # b /\ \A i \in at(a), j \in at(b) : i < j
  IN answer = IF apart THEN 2 ELSE 1

(* Of all outcomes only the one where neither store is seen is excluded. *)
OneStoreSeen == answer = relaxed_store_buffering_outcomes \ {<<0, 0>>}

(* The counts main() asserts. *)
AsAsserted ==
  answer = CASE problem.of = "split_three" -> [v \in 0 .. 2 |-> <<0, 18, 2>>[v + 1]]
             [] problem.of = "atomic_load_store" -> [v \in 0 .. 2 |-> <<0, 4, 2>>[v + 1]]
             [] OTHER -> [v \in 0 .. 2 |-> <<0, 0, 2>>[v + 1]]

ExecutionsCorrect ==
  /\ Solved("race") => LostIfOverlapping
  /\ Solved("races") => AsAsserted
  /\ Solved("pipeline") => PipelineOnTime
  /\ Solved("store buffering") => OneStoreSeen
=============================================================================
