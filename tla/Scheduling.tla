----------------------------- MODULE Scheduling -----------------------------
(***************************************************************************)
(* Who runs when: the schedulers and interleaved increments of             *)
(* learning/operating-systems/examples (scheduler.py,                      *)
(* race_interleavings.py), the processor budget of                         *)
(* ubuntu-linux-internals/examples/cgroup_budget.py, and the pipeline and  *)
(* the executions of computer-architecture/examples (pipeline_model.py,    *)
(* memory_order_model.py).                                                 *)
(*                                                                         *)
(* A job is [name, arrival, burst]; a timeline has a name per tick, Idle   *)
(* where nothing is ready.                                                 *)
(***************************************************************************)
EXTENDS PythonData

CONSTANT Idle

-----------------------------------------------------------------------------
(* scheduler.py *)

Key(policy, job) ==
  IF policy = "FCFS" THEN <<job.arrival, job.name>>
  ELSE <<job.burst, job.arrival, job.name>>

Slots(name, n) == [i \in 1 .. n |-> name]

RECURSIVE nonpreemptive_loop(_, _, _)
nonpreemptive_loop(policy, pending, timeline) ==
  LET ready == {job \in pending : job.arrival <= Len(timeline)}
      job == CHOOSE j \in ready : \A k \in ready \ {j} :
               Before(Key(policy, j), Key(policy, k))
  IN IF pending = {} THEN timeline
     ELSE IF ready = {}
     THEN nonpreemptive_loop(policy, pending, Append(timeline, Idle))
     ELSE nonpreemptive_loop(policy, pending \ {job},
                             timeline \o Slots(job.name, job.burst))

nonpreemptive(jobs, policy) == nonpreemptive_loop(policy, ToSet(jobs), <<>>)

(* Those who have arrived by now and are new join the queue, in the order of
   JOBS; the length of the timeline is the time. *)
Admit(jobs, s) ==
  LET new == SelectSeq(jobs, LAMBDA j : /\ j.arrival <= Len(s.timeline)
                                        /\ j.name \notin s.admitted)
  IN [s EXCEPT !.ready = @ \o new,
               !.admitted = @ \union {j.name : j \in ToSet(new)}]

Tick(jobs, s, name) ==
  Admit(jobs, [s EXCEPT !.timeline = Append(@, name)])

(* Faulty: a job that is preempted goes before those who arrived meanwhile. *)
SlicePreemptedFirst(jobs, s, quantum) ==
  LET job == Head(s.ready)
      run == Least(quantum, s.remaining[job.name])
      left == s.remaining[job.name] - run
      queued == [s EXCEPT !.remaining[job.name] = left,
                          !.ready = IF left > 0 THEN Append(Tail(@), job) ELSE Tail(@)]
  IN FoldLeft(LAMBDA t, name : Tick(jobs, t, name), queued, Slots(job.name, run))

Slice(jobs, s, quantum) ==
  LET job == Head(s.ready)
      run == Least(quantum, s.remaining[job.name])
      left == s.remaining[job.name] - run
      ran == FoldLeft(LAMBDA t, name : Tick(jobs, t, name),
                      [s EXCEPT !.ready = Tail(@)], Slots(job.name, run))
  IN [ran EXCEPT !.remaining[job.name] = left,
                 !.ready = IF left > 0 THEN Append(@, job) ELSE @]

RECURSIVE round_robin_loop(_, _, _)
round_robin_loop(jobs, quantum, state) ==
  LET s == Admit(jobs, state) IN
  IF \A name \in DOMAIN s.remaining : s.remaining[name] = 0 THEN s.timeline
  ELSE IF s.ready = <<>>
  THEN round_robin_loop(jobs, quantum, [s EXCEPT !.timeline = Append(@, Idle)])
  ELSE round_robin_loop(jobs, quantum, Slice(jobs, s, quantum))

Burst(jobs, name) == (CHOOSE j \in ToSet(jobs) : j.name = name).burst

round_robin(jobs, quantum) ==
  IF quantum <= 0 THEN ValueError
  ELSE round_robin_loop(jobs, quantum,
         [remaining |-> [n \in {j.name : j \in ToSet(jobs)} |-> Burst(jobs, n)],
          ready |-> <<>>, admitted |-> {}, timeline |-> <<>>])

(* What summarize prints of a job. *)
summarize(timeline, job) ==
  LET ticks == {t \in DOMAIN timeline : timeline[t] = job.name}
      finish == CHOOSE t \in ticks : \A u \in ticks : u <= t
      first == CHOOSE t \in ticks : \A u \in ticks : t <= u
  IN [turnaround |-> finish - job.arrival, response |-> first - 1 - job.arrival,
      waiting |-> finish - job.arrival - job.burst]

-----------------------------------------------------------------------------
(* race_interleavings.py: what one step of an actor does to the shared value
   and to its own copy, by the kind of increment. *)

Steps(kind) ==
  CASE kind = "split_three" -> 3
    [] kind = "atomic_load_store" -> 2
    [] OTHER -> 1

Actors == {"A", "B"}

schedules(kind) ==
  {s \in [1 .. 2 * Steps(kind) -> Actors] :
     \A a \in Actors : Cardinality({i \in DOMAIN s : s[i] = a}) = Steps(kind)}

ActorStep(kind, s, a) ==
  LET step == s.progress[a]
      load == [s EXCEPT !.local[a] = s.value]
      add == [s EXCEPT !.local[a] = @ + 1]
      next == CASE Steps(kind) = 1 -> [s EXCEPT !.value = @ + 1]
                [] step = 0 -> load
                [] kind = "split_three" /\ step = 1 -> add
                [] kind = "split_three" -> [s EXCEPT !.value = s.local[a]]
                [] OTHER -> [s EXCEPT !.value = s.local[a] + 1]
  IN [next EXCEPT !.progress[a] = @ + 1]

simulate(schedule, kind) ==
  FoldLeft(LAMBDA s, a : ActorStep(kind, s, a),
           [value |-> 0, local |-> [a \in Actors |-> 0],
            progress |-> [a \in Actors |-> 0]],
           schedule).value

(* How many schedules end with each value. *)
run_model(kind) ==
  [v \in 0 .. 2 |-> Cardinality({s \in schedules(kind) : simulate(s, kind) = v})]

-----------------------------------------------------------------------------
(* cgroup_budget.py: demand and used by thread, in the order of the list. *)

(* Each thread in turn gets a quantum as long as budget is left. *)
Share(demand, s, quantum, i) ==
  LET use == Least(Least(quantum, demand[i] - s.used[i]), s.budget)
  IN [budget |-> s.budget - use,
      used |-> [j \in DOMAIN demand |-> IF j = i THEN s.used[i] + use ELSE s.used[j]]]

RECURSIVE run_period(_, _, _, _)
run_period(budget, demand, used, quantum) ==
  LET s == FoldLeft(LAMBDA t, i : Share(demand, t, quantum, i),
                    [budget |-> budget, used |-> used],
                    [i \in DOMAIN demand |-> i])
  IN IF s.budget = budget   (* no budget, nobody wants any, or no progress *)
     THEN s
     ELSE run_period(s.budget, demand, s.used, quantum)

-----------------------------------------------------------------------------
(* pipeline_model.py: an instruction is [name, load, destination, sources];
   stages hold its place in the program, 0 when they are empty. *)

Stage == {"FE", "ID", "EX", "MEM", "WB"}   (* FE is the stage IF *)

LoadUse(program, at) ==
  /\ at.EX # 0 /\ at.ID # 0
  /\ program[at.EX].load
  /\ program[at.EX].destination \in program[at.ID].sources

Advance(program, at, fetched) ==
  [WB |-> at.MEM, MEM |-> at.EX] @@
  IF LoadUse(program, at) THEN [EX |-> 0, ID |-> at.ID, FE |-> at.FE]
  ELSE [EX |-> at.ID, ID |-> at.FE,
        FE |-> IF fetched < Len(program) THEN fetched + 1 ELSE 0]

(* cycles[c] is what the stages hold in cycle c; fetched counts the
   instructions that have entered. *)
RECURSIVE pipeline_loop(_, _, _)
pipeline_loop(program, cycles, fetched) ==
  LET next == Advance(program, Last(cycles), fetched) IN
  IF \A stage \in Stage : next[stage] = 0 THEN cycles
  ELSE pipeline_loop(program, Append(cycles, next), Greatest(fetched, next.FE))

(* The cycles an instruction spends in each stage are kept by its name. *)
pipeline(program) ==
  LET cycles == IF program = <<>> THEN <<>>
                ELSE pipeline_loop(program,
                       <<[FE |-> 1, ID |-> 0, EX |-> 0, MEM |-> 0, WB |-> 0]>>, 1)
      In(name, stage) ==
        {c \in DOMAIN cycles : /\ cycles[c][stage] # 0
                               /\ program[cycles[c][stage]].name = name}
  IN [timeline |-> [name \in {item.name : item \in ToSet(program)} |->
                      [stage \in Stage |-> In(name, stage)]],
      bubble_cycles |-> {c + 1 : c \in {c \in DOMAIN cycles : LoadUse(program, cycles[c])}}]

-----------------------------------------------------------------------------
(* memory_order_model.py: store buffering, Sx; Ly beside Sy; Lx *)

program_order == {<<"Sx", "Ly">>, <<"Sy", "Lx">>}
Events == {"Sx", "Ly", "Sy", "Lx"}

Position(order, event) == CHOOSE i \in DOMAIN order : order[i] = event

preserves_program_order(order) ==
  \A p \in program_order : Position(order, p[1]) < Position(order, p[2])

run_seq_cst_store_buffering(order) ==
  LET s == FoldLeft(LAMBDA m, e : CASE e = "Sx" -> [m EXCEPT !.x = 1]
                                    [] e = "Sy" -> [m EXCEPT !.y = 1]
                                    [] e = "Ly" -> [m EXCEPT !.r1 = m.y]
                                    [] e = "Lx" -> [m EXCEPT !.r2 = m.x],
                    [x |-> 0, y |-> 0, r1 |-> 0, r2 |-> 0], order)
  IN <<s.r1, s.r2>>

enumerate_seq_cst_outcomes ==
  {run_seq_cst_store_buffering(order) : order \in
     {o \in [1 .. 4 -> Events] : IsInjective(o) /\ preserves_program_order(o)}}

relaxed_store_buffering_outcomes == {0, 1} \X {0, 1}
=============================================================================
