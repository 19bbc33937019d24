----------------------------- MODULE Algorithms -----------------------------
(***************************************************************************)
(* learning/algorithms/examples: graph_dp_lab.py and search_sort_lab.py.   *)
(*                                                                         *)
(* Sequences count from one where Python's lists count from zero.  A loop  *)
(* is a fold when its length is known, and otherwise an operator that      *)
(* calls itself.                                                           *)
(***************************************************************************)
EXTENDS PythonData

Infinity == 1000   (* float("inf"), above every sum that occurs *)

-----------------------------------------------------------------------------
(* graph_dp_lab.py.  For bfs and dfs graph[node] lists the neighbours, each
   once. *)

RECURSIVE bfs_loop(_, _, _, _)
bfs_loop(graph, order, queue, visited) ==
  IF queue = <<>> THEN order
  ELSE LET new == SelectSeq(graph[Head(queue)], LAMBDA n : n \notin visited)
       IN bfs_loop(graph, Append(order, Head(queue)), Tail(queue) \o new,
                   visited \union ToSet(new))

bfs(graph, start) == bfs_loop(graph, <<>>, <<start>>, {start})

RECURSIVE dfs_loop(_, _, _)
dfs_loop(graph, order, stack) ==
  IF stack = <<>> THEN order
  ELSE LET node == Last(stack) IN
       IF node \in ToSet(order)   (* visited has the same members as order *)
       THEN dfs_loop(graph, order, Front(stack))
       ELSE dfs_loop(graph, Append(order, node),
                     Front(stack) \o Reverse(graph[node]))

dfs(graph, start) == dfs_loop(graph, <<>>, <<start>>)

(* Here graph[node] lists the edges <<neighbour, weight>>, parallel ones and
   loops as well.  An edge is followed if it leads somewhere sooner. *)
Relax(s, distance, edge) ==
  LET candidate == distance + edge[2] IN
  IF candidate < s.dist[edge[1]]
  THEN [dist |-> [s.dist EXCEPT ![edge[1]] = candidate],
        heap |-> s.heap \union {<<candidate, edge[1]>>}]
  ELSE s

(* The heap gives the least distance, and of those the least node; an entry
   that a shorter path has overtaken is passed over. *)
RECURSIVE dijkstra_loop(_, _)
dijkstra_loop(graph, s) ==
  LET top == FirstOf(s.heap)
      popped == [s EXCEPT !.heap = @ \ {top}]
  IN IF s.heap = {} THEN s.dist
     ELSE IF top[1] # s.dist[top[2]] THEN dijkstra_loop(graph, popped)
     ELSE dijkstra_loop(graph, FoldLeft(LAMBDA t, edge : Relax(t, top[1], edge),
                                        popped, graph[top[2]]))

dijkstra(graph, source) ==
  IF \E node \in DOMAIN graph : \E edge \in ToSet(graph[node]) : edge[2] < 0
  THEN ValueError
  ELSE dijkstra_loop(graph,
         [dist |-> [n \in DOMAIN graph |-> IF n = source THEN 0 ELSE Infinity],
          heap |-> {<<0, source>>}])

min_coin_table(amount, coins) ==
  LET dp[value \in 0 .. amount] ==
        IF value = 0 THEN 0
        ELSE FoldLeft(LAMBDA best, coin :
                        IF coin <= value THEN Least(best, 1 + dp[value - coin])
                        ELSE best,
                      amount + 1, coins)
  IN dp

greedy_coin_count(amount, coins) ==
  FoldLeft(LAMBDA s, coin : [count |-> s.count + s.amount \div coin,
                             amount |-> s.amount % coin],
           [count |-> 0, amount |-> amount],
           SortSeq(coins, LAMBDA a, b : a > b)).count

(* Faulty: the capacities are gone through upwards, so that an item is put in
   again beside itself. *)
knapsack_repeated(capacity, items) ==
  FoldLeft(LAMBDA dp, item :
             LET new[c \in 0 .. capacity] ==
                   IF c < item.weight THEN dp[c]
                   ELSE Greatest(dp[c], item.value + new[c - item.weight])
             IN new,
           [c \in 0 .. capacity |-> 0], items)[capacity]

(* Downwards: what a capacity is compared with has not seen this item. *)
knapsack_01(capacity, items) ==
  FoldLeft(LAMBDA dp, item :
             [c \in 0 .. capacity |->
                IF c < item.weight THEN dp[c]
                ELSE Greatest(dp[c], item.value + dp[c - item.weight])],
           [c \in 0 .. capacity |-> 0], items)[capacity]

-----------------------------------------------------------------------------
(* search_sort_lab.py *)

binary_search(keys, target) ==
  LET search[lo \in 1 .. Len(keys) + 1, hi \in 0 .. Len(keys)] ==
        LET mid == (lo + hi) \div 2 IN
        IF lo > hi THEN None
        ELSE IF keys[mid] = target THEN mid
        ELSE IF keys[mid] < target THEN search[mid + 1, hi]
        ELSE search[lo, mid - 1]
  IN search[1, Len(keys)]

stable_merge(left, right) ==
  LET merged[i \in 1 .. Len(left) + 1, j \in 1 .. Len(right) + 1] ==
        IF i > Len(left) THEN SubSeq(right, j, Len(right))
        ELSE IF j > Len(right) THEN SubSeq(left, i, Len(left))
        ELSE IF left[i].key <= right[j].key THEN <<left[i]>> \o merged[i + 1, j]
        ELSE <<right[j]>> \o merged[i, j + 1]
  IN merged[1, 1]

RECURSIVE merge_sort(_)
merge_sort(records) ==
  LET mid == Len(records) \div 2 IN
  IF Len(records) <= 1 THEN records
  ELSE stable_merge(merge_sort(SubSeq(records, 1, mid)),
                    merge_sort(SubSeq(records, mid + 1, Len(records))))

=============================================================================
