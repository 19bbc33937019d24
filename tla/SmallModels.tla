---------------------------- MODULE SmallModels ----------------------------
(***************************************************************************)
(* One-function models of several textbooks (all under learning): device   *)
(* allocation (gpu-operator-dra), a replica that applies a log             *)
(* (distributed-systems), address translation (operating-systems), cache   *)
(* fields (computer-architecture), warps and tiled products                *)
(* (gpu-programming).                                                      *)
(***************************************************************************)
EXTENDS PythonData

-----------------------------------------------------------------------------
(* allocation_model.py: devices is a sequence of [node, name, memory_gib],
   requests of [name, min_memory_gib]; the answer is a node and its devices by
   the names of the requests. *)

(* The places in devices of those on the node that are not reserved. *)
Available(devices, node, reserved) ==
  {i \in DOMAIN devices : devices[i].node = node /\ devices[i].name \notin reserved}

(* permutations(available, len(requests)), by their places, that fit. *)
Selections(devices, available, requests) ==
  {s \in [DOMAIN requests -> available] :
     /\ IsInjective(s)
     /\ \A r \in DOMAIN requests : devices[s[r]].memory_gib >= requests[r].min_memory_gib}

LastNamed(requests, name) ==
  CHOOSE r \in DOMAIN requests :
    /\ requests[r].name = name
    /\ \A l \in DOMAIN requests : requests[l].name = name => l <= r

(* The dict of a selection: of requests with one name the last is kept. *)
Assigned(devices, requests, selected) ==
  [name \in {r.name : r \in ToSet(requests)} |->
     devices[selected[LastNamed(requests, name)]]]

allocate(devices, requests, reserved) ==
  LET nodes == {d.node : d \in ToSet(devices)}
      Fitting(node) == Selections(devices, Available(devices, node, reserved), requests)
      able == {n \in nodes : Fitting(n) # {}}
      node == CHOOSE n \in able : \A m \in able : n <= m
      selected == FirstOf(Fitting(node))
  IN IF able = {} THEN None
     ELSE [node |-> node, assignments |-> Assigned(devices, requests, selected)]

-----------------------------------------------------------------------------
(* replication_model.py *)

apply(replica, event) ==
  IF event.index = replica.applied_index + 1
  THEN [value |-> event.value, applied_index |-> event.index]
  ELSE replica

-----------------------------------------------------------------------------
(* address_translation.py, cache_model.py: sizes are parameters. *)

translate(page_table, page_size, addresses, logical) ==
  LET vpn == logical \div page_size IN
  CASE logical \notin 0 .. (addresses - 1) -> ValueError
    [] logical \in 0 .. addresses - 1 /\ vpn \notin DOMAIN page_table -> LookupError
    [] OTHER -> (page_table[vpn] * page_size) + (logical % page_size)

fields(address, line, sets) ==
  [tag |-> (address \div line) \div sets, set_index |-> (address \div line) % sets,
   offset |-> address % line]

-----------------------------------------------------------------------------
(* coalescing_model.py *)

lane_addresses(base, lanes, element_bytes, stride) ==
  {base + lane * stride * element_bytes : lane \in 0 .. lanes - 1}

touched_sectors(addresses, access_bytes, sector_bytes) ==
  UNION {(a \div sector_bytes) .. ((a + access_bytes - 1) \div sector_bytes) :
           a \in addresses}

-----------------------------------------------------------------------------
(* tiled_matmul_model.py: a matrix is a function of row and column. *)

Cells(rows, cols) == (0 .. (rows - 1)) \X (0 .. (cols - 1))

reference_matmul(a, b, rows, inner, cols) ==
  [c \in Cells(rows, cols) |->
     SumFunction([k \in 0 .. inner - 1 |-> a[<<c[1], k>>] * b[<<k, c[2]>>]])]

(* The tile of x whose first cell is <<row, col>>, zero beyond the edge. *)
Tile(x, row, col, size) ==
  [t \in Cells(size, size) |->
     LET c == <<row + t[1], col + t[2]>> IN IF c \in DOMAIN x THEN x[c] ELSE 0]

Bases(n, size) == {i \in 0 .. n - 1 : i % size = 0}

Accum(a, b, row, col, inner, size) ==
  [t \in Cells(size, size) |->
     SumFunction([k \in Bases(inner, size) \X (0 .. size - 1) |->
                    Tile(a, row, k[1], size)[<<t[1], k[2]>>]
                    * Tile(b, k[1], col, size)[<<k[2], t[2]>>]])]

tiled_matmul(a, b, rows, inner, cols, size) ==
  [c \in Cells(rows, cols) |->
     Accum(a, b, c[1] - (c[1] % size), c[2] - (c[2] % size), inner, size)
       [<<c[1] % size, c[2] % size>>]]

-----------------------------------------------------------------------------
(* memory_pressure_model.py: an account in MiB *)

current_mib(m) == m.anonymous + m.clean_file + m.dirty_file + m.other

reclaim_clean(m, amount) == [m EXCEPT !.clean_file = @ - Least(amount, @)]

writeback_dirty(m) ==
  [m EXCEPT !.clean_file = @ + m.dirty_file, !.dirty_file = 0]
=============================================================================
