-------------------------- MODULE SmallModelsCheck --------------------------
(***************************************************************************)
(* The small models on every input up to a bound, compared with what they  *)
(* are for.                                                                *)
(***************************************************************************)
EXTENDS SmallModels, Problem

CONSTANTS
  Site, DeviceName, Memory, MaxDevices,
  MaxIndex, MaxDeliveries,
  PageSize, Addresses,
  MaxSize, MaxAccount

ASSUME SmallModelsAssumption ==
  /\ Site \subseteq Nat /\ Memory \subseteq Nat /\ MaxDevices \in Nat
  /\ MaxIndex \in Nat /\ MaxDeliveries \in Nat
  /\ PageSize \in Nat \ {0} /\ Addresses \in Nat
  /\ MaxSize \in Nat /\ MaxAccount \in Nat

(* A name is unique on its node and may occur on others. *)
Devices ==
  {d \in Upto(MaxDevices, [node : Site, name : DeviceName, memory_gib : Memory]) :
     \A i, j \in DOMAIN d : d[i].node = d[j].node /\ d[i].name = d[j].name => i = j}

(* Requests, which may repeat a name; those made later all have their own. *)
Request == [name : {1, 2}, min_memory_gib : Memory]

(* The products of single ones make up every other product. *)
One(rows, cols, one) == [c \in Cells(rows, cols) |-> IF c = one THEN 1 ELSE 0]

SmallProblem ==
  \/ \E devices \in Devices, first \in Upto(2, Request),
        later \in {l \in Upto(2, Request) : \A i \in DOMAIN l : l[i].name = i} :
       problem = [kind |-> "devices", devices |-> devices, first |-> first, later |-> later]
  \/ \E delivered \in Upto(MaxDeliveries, 1 .. MaxIndex) :
       problem = [kind |-> "replica", delivered |-> delivered]
  \/ \E pages \in SUBSET (0 .. (Addresses \div PageSize) - 1) :
       \E page_table \in [pages -> 0 .. 2] :
         problem = [kind |-> "pages", page_table |-> page_table]
  \/ \E line, sets \in 1 .. 4 : problem = [kind |-> "fields", line |-> line, sets |-> sets]
  \/ \E base \in 0 .. 8, stride \in 0 .. 3, element, access \in {1, 2, 4} :
       problem = [kind |-> "sectors", base |-> base, stride |-> stride,
                  element |-> element, access |-> access]
  \/ \E rows, inner, cols, size \in 1 .. MaxSize :
       \E m \in Cells(rows, inner), n \in Cells(inner, cols) :
         problem = [kind |-> "product", rows |-> rows, inner |-> inner, cols |-> cols,
                    size |-> size, a |-> One(rows, inner, m), b |-> One(inner, cols, n)]
  \/ \E m \in [{"anonymous", "clean_file", "dirty_file", "other"} -> 0 .. MaxAccount] :
       \E target \in 0 .. current_mib(m) :
         problem = [kind |-> "account", memory |-> m, target |-> target]

(* main(): what is allocated is reserved by name before the next request. *)
Names(allocation) ==
  IF allocation = None THEN {} ELSE {d.name : d \in Range(allocation.assignments)}

TwoAllocations ==
  LET first == allocate(problem.devices, problem.first, {})
  IN <<first, allocate(problem.devices, problem.later, Names(first))>>

(* What the leader's log has at an index. *)
ValueAt(index) == index + 1

Replica ==
  FoldLeft(LAMBDA r, index : apply(r, [index |-> index, value |-> ValueAt(index)]),
           [value |-> ValueAt(0), applied_index |-> 0], problem.delivered)

(* main() of memory_pressure_model.py. *)
Relieve ==
  LET toTarget(m) == reclaim_clean(m, current_mib(m) - problem.target)
      reclaimed == toTarget(problem.memory)
      written == writeback_dirty(reclaimed)
  IN <<reclaimed, written, toTarget(written)>>

SolveSmall ==
  \/ Solve("devices", TwoAllocations)
  \/ Solve("replica", Replica)
  \/ Solve("pages", [logical \in -1 .. Addresses |->
                       translate(problem.page_table, PageSize, Addresses, logical)])
  \/ Solve("fields", [address \in 0 .. 63 |-> fields(address, problem.line, problem.sets)])
  \/ Solve("sectors", touched_sectors(
                        lane_addresses(problem.base, 4, problem.element, problem.stride),
                        problem.access, 8))
  \/ Solve("product", tiled_matmul(problem.a, problem.b, problem.rows, problem.inner,
                                   problem.cols, problem.size))
  \/ Solve("account", Relieve)

-----------------------------------------------------------------------------
(* What each answer has to be *)

(* Requests can be met from a node if for every amount there are as many free
   devices of it as requests for it. *)
CanMeet(node, requests, reserved) ==
  \A m \in Memory :
    Cardinality({r \in DOMAIN requests : requests[r].min_memory_gib >= m})
      <= Cardinality({i \in DOMAIN problem.devices :
                        LET d == problem.devices[i] IN
                        d.node = node /\ d.name \notin reserved /\ d.memory_gib >= m})

(* All devices come from the first node that can meet the requests, each is
   free and given once, and is large enough for the last request of the name
   it is kept under; None is only answered where no node can. *)
Placed(allocation, requests, reserved) ==
  LET able == {n \in {d.node : d \in ToSet(problem.devices)} : CanMeet(n, requests, reserved)}
      given == allocation.assignments
      Final(r) == \A l \in r + 1 .. Len(requests) : requests[l].name # requests[r].name
  IN IF allocation = None THEN able = {}
     ELSE /\ allocation.node \in able /\ \A n \in able : allocation.node <= n
          /\ DOMAIN given = {r.name : r \in ToSet(requests)} /\ IsInjective(given)
          /\ \A d \in Range(given) : /\ d \in ToSet(problem.devices)
                                    /\ d.node = allocation.node /\ d.name \notin reserved
          /\ \A r \in {r \in DOMAIN requests : Final(r)} :
               given[requests[r].name].memory_gib >= requests[r].min_memory_gib

(* The replica is where the log can be read off the deliveries in order, and
   has the leader's value there, whatever is lost, repeated or early. *)
AppliedInOrder ==
  LET d == problem.delivered
      ReadsOff(k) == \E at \in [1 .. k -> DOMAIN d] :
                       /\ \A i \in 1 .. k : d[at[i]] = i
                       /\ \A i, j \in 1 .. k : i < j => at[i] < at[j]
  IN /\ answer.value = ValueAt(answer.applied_index)
     /\ ReadsOff(answer.applied_index) /\ ~ReadsOff(answer.applied_index + 1)

PagesMoved ==
  LET pages == DOMAIN problem.page_table
      mapped == {(p * PageSize) + o : p \in pages, o \in 0 .. PageSize - 1}
  IN /\ \A p \in pages : \A o \in 0 .. PageSize - 1 :
          answer[(p * PageSize) + o] = (problem.page_table[p] * PageSize) + o
     /\ \A l \in DOMAIN answer \ mapped :
          answer[l] = IF l \in 0 .. Addresses - 1 THEN LookupError ELSE ValueError

FieldsExact ==
  \A a \in DOMAIN answer :
    LET f == answer[a] IN
    /\ f.offset < problem.line /\ f.set_index < problem.sets
    /\ a = (((f.tag * problem.sets) + f.set_index) * problem.line) + f.offset

(* The sectors that hold some byte of some access. *)
SectorsExact ==
  LET bytes == UNION {{problem.base + (lane * problem.stride * problem.element) + b :
                         b \in 0 .. problem.access - 1} : lane \in 0 .. 3}
  IN \A s \in 0 .. 16 : s \in answer <=> (8 * s .. (8 * s) + 7) \intersect bytes # {}

ProductExact ==
  answer = reference_matmul(problem.a, problem.b, problem.rows, problem.inner, problem.cols)

(* Dirty memory counts until it is written back and reclaimed; in the end the
   target is met as far as file-backed memory goes, and never undershot. *)
TargetReached ==
  LET kept == problem.memory.anonymous + problem.memory.other IN
  /\ current_mib(answer[1]) = Greatest(problem.target, kept + problem.memory.dirty_file)
  /\ current_mib(answer[2]) = current_mib(answer[1]) /\ answer[2].dirty_file = 0
  /\ current_mib(answer[3]) = Greatest(problem.target, kept)

SmallModelsCorrect ==
  /\ Solved("devices") =>
       /\ Placed(answer[1], problem.first, {})
       /\ Placed(answer[2], problem.later, Names(answer[1]))
  /\ Solved("replica") => AppliedInOrder
  /\ Solved("pages") => PagesMoved
  /\ Solved("fields") => FieldsExact
  /\ Solved("sectors") => SectorsExact
  /\ Solved("product") => ProductExact
  /\ Solved("account") => TargetReached
=============================================================================
