-------------------------- MODULE AlgorithmsCheck --------------------------
(***************************************************************************)
(* The algorithms on every input up to a bound, compared with definitions  *)
(* of what they are for that share none of their steps.                    *)
(***************************************************************************)
EXTENDS Algorithms, Problem

CONSTANTS
  SearchKey, MaxLength,    (* what is searched and sorted       *)
  Node, Weight, MaxEdges,  (* graphs                            *)
  Amount, Coin,            (* change                            *)
  Item, Capacity           (* knapsacks, an item [weight, value] *)

ASSUME AlgorithmsAssumption ==
  /\ SearchKey \subseteq Int /\ MaxLength \in Nat
  /\ Node \subseteq Nat /\ Weight \subseteq Int /\ MaxEdges \in Nat
  /\ Amount \in Nat /\ Coin \subseteq Nat \ {0}
  /\ Item \subseteq [weight : Nat \ {0}, value : Nat] /\ Capacity \in Nat

Edge == [from : Node, to : Node, weight : Weight]

(* Graphs of any number of edges between different nodes, one for a pair. *)
OnePerPair ==
  LET pairs == {p \in Node \X Node : p[1] # p[2]} IN
  {SetToSeq({[from |-> p[1], to |-> p[2], weight |-> w[p]] :
               p \in {p \in pairs : w[p] # None}}) :
     w \in [pairs -> Weight \union {None}]}

(* The edges of each node, in the order they are given. *)
Adjacency(edges) ==
  [n \in Node |->
     LET out == SelectSeq(edges, LAMBDA e : e.from = n)
     IN [i \in DOMAIN out |-> <<out[i].to, out[i].weight>>]]

AlgorithmProblem ==
  \/ \E keys \in {s \in Upto(MaxLength, SearchKey) : Increasing(s)}, target \in SearchKey :
       problem = [kind |-> "search", keys |-> keys, target |-> target]
  \/ \E keys \in Upto(MaxLength, SearchKey) :
       problem = [kind |-> "sort", records |->
                    [i \in DOMAIN keys |-> [key |-> keys[i], at |-> i]]]
  \/ \E kind \in {"bfs", "dfs"}, graph \in [Node -> Distinct(Node)], n \in Node :
       problem = [kind |-> kind, graph |-> graph, start |-> n]
  \/ \E edges \in OnePerPair \union Upto(MaxEdges, Edge), n \in Node :
       problem = [kind |-> "dijkstra", edges |-> edges, source |-> n]
  \/ \E coins \in Distinct(Coin) : problem = [kind |-> "coins", coins |-> coins]
  \/ \E items \in Upto(3, Item) : problem = [kind |-> "knapsack", items |-> items]

SolveAlgorithm ==
  \/ Solve("search", binary_search(problem.keys, problem.target))
  \/ Solve("sort", merge_sort(problem.records))
  \/ Solve("bfs", bfs(problem.graph, problem.start))
  \/ Solve("dfs", dfs(problem.graph, problem.start))
  \/ Solve("dijkstra", dijkstra(Adjacency(problem.edges), problem.source))
  \/ Solve("coins", [least |-> min_coin_table(Amount, problem.coins),
                     greedy |-> [a \in 0 .. Amount |-> greedy_coin_count(a, problem.coins)]])
  \/ Solve("knapsack", knapsack_01(Capacity, problem.items))

-----------------------------------------------------------------------------
(* What each answer has to be *)

SearchRight ==
  IF problem.target \in ToSet(problem.keys)
  THEN problem.keys[answer] = problem.target
  ELSE answer = None

(* Sorted, and records of one key in the order they came. *)
SortStable ==
  /\ ToSet(answer) = ToSet(problem.records) /\ Len(answer) = Len(problem.records)
  /\ \A i, j \in DOMAIN answer : i < j =>
       \/ answer[i].key < answer[j].key
       \/ answer[i].key = answer[j].key /\ answer[i].at < answer[j].at

(* The nodes that can be reached in at most k steps. *)
Within(k) ==
  LET w[i \in 0 .. k] ==
        IF i = 0 THEN {problem.start}
        ELSE w[i - 1] \union UNION {ToSet(problem.graph[n]) : n \in w[i - 1]}
  IN w[k]

ReachesOnce ==
  IsInjective(answer) /\ ToSet(answer) = Within(Cardinality(Node))

Distance(n) == CHOOSE k \in 0 .. Cardinality(Node) :
                 n \in Within(k) /\ \A j \in 0 .. k - 1 : n \notin Within(j)

NearestFirst == \A i, j \in DOMAIN answer : i < j => Distance(answer[i]) <= Distance(answer[j])

(* Each node is the first new neighbour of the last node that has one. *)
DeepestFirst ==
  \A i \in 2 .. Len(answer) :
    LET before == {answer[j] : j \in 1 .. i - 1}
        New(j) == SelectSeq(problem.graph[answer[j]], LAMBDA n : n \notin before)
    IN \E j \in 1 .. i - 1 : /\ New(j) # <<>> /\ answer[i] = Head(New(j))
                             /\ \A k \in j + 1 .. i - 1 : New(k) = <<>>

(* The least weight of the paths to n that visit no node of avoid. *)
Shortest ==
  LET edges == ToSet(problem.edges)
      from[n \in Node, avoid \in SUBSET Node] ==
        IF n = problem.source THEN 0
        ELSE LET sums == {from[e.from, avoid \union {n}] + e.weight : e \in
                            {e \in edges : e.to = n /\ e.from \notin avoid \union {n}}}
             IN CHOOSE s \in sums \union {Infinity} :
                  \A t \in sums \union {Infinity} : s <= t
  IN [n \in Node |-> from[n, {}]]

PathsShortest ==
  IF \E e \in ToSet(problem.edges) : e.weight < 0
  THEN answer = ValueError
  ELSE answer = Shortest

(* How many coins each way of paying v takes. *)
Ways(v) ==
  {FoldLeft(+, 0, c) :
     c \in {c \in [DOMAIN problem.coins -> 0 .. v] :
              v = FoldLeft(+, 0, [i \in DOMAIN problem.coins |-> c[i] * problem.coins[i]])}}

(* Of any two coins one is a multiple of the other. *)
Chain == \A c, d \in ToSet(problem.coins) : c % d = 0 \/ d % c = 0

(* The table has the fewest coins, and more than the amount where no coins pay
   it; greedy pays in some way if there is a coin of one, and in the best way
   if moreover the coins are a chain. *)
FewestCoins ==
  \A v \in 0 .. Amount :
    LET ways == Ways(v) IN
    /\ IF ways = {} THEN answer.least[v] > v
       ELSE answer.least[v] \in ways /\ \A w \in ways : answer.least[v] <= w
    /\ 1 \in ToSet(problem.coins) => answer.greedy[v] \in ways
    /\ 1 \in ToSet(problem.coins) /\ Chain => answer.greedy[v] = answer.least[v]

Total(items, picked, read(_)) ==
  FoldLeft(+, 0, [i \in DOMAIN items |-> IF i \in picked THEN read(items[i]) ELSE 0])

BestLoad ==
  LET loads == {Total(problem.items, p, LAMBDA i : i.value) : p \in
                  {p \in SUBSET DOMAIN problem.items :
                     Total(problem.items, p, LAMBDA i : i.weight) <= Capacity}}
  IN answer \in loads /\ \A l \in loads : l <= answer

AlgorithmsCorrect ==
  /\ Solved("search") => SearchRight
  /\ Solved("sort") => SortStable
  /\ Solved("bfs") => ReachesOnce /\ NearestFirst
  /\ Solved("dfs") => ReachesOnce /\ DeepestFirst
  /\ Solved("dijkstra") => PathsShortest
  /\ Solved("coins") => FewestCoins
  /\ Solved("knapsack") => BestLoad
=============================================================================
