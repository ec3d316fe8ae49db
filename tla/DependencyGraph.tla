-------------------------- MODULE DependencyGraph --------------------------
(***************************************************************************)
(* DependencyGraph of llmform.config.validate and its three walks, in the   *)
(* order in which resolve_references takes them: cycle, topological_order   *)
(* unless there is one, reachable_from.  The first two are the same          *)
(* recursive descent with different bookkeeping; active is its call stack.   *)
(*                                                                         *)
(* A node is the place of its address in lexical order, so that sorted()    *)
(* takes the least.  A dependency need not be a node of the mapping.         *)
(***************************************************************************)
EXTENDS Naturals, Sequences

CONSTANTS
    Nodes,      \* addresses
    Graphs      \* the mappings a graph may be made of

ASSUME NodesAssumption == Nodes \subseteq Nat

IsMapping(g) == DOMAIN g \subseteq Nodes /\ \A n \in DOMAIN g : g[n] \subseteq Nodes

ASSUME GraphsAssumption == \A g \in Graphs : IsMapping(g)

VARIABLES
    graph,      \* the mapping from nodes to their dependencies, fixed
    roots,      \* the nodes reachable_from starts at, fixed
    walk,       \* "cycle", "order", "reach" or "done"
    starts,     \* nodes of the mapping the outer loop has yet to visit
    active,     \* the calls of visit in progress: [node, left to visit]
    visited,    \* the set visited of the walk
    checked,    \* history: the nodes in the order in which cycle left them
    found,      \* the cycle, or empty
    ordered,    \* the list of topological_order
    pending,    \* the list of reachable_from; its order decides nothing
    reachable

mapping == <<graph, roots>>
descent == <<starts, active, visited, checked, found, ordered>>
vars == <<mapping, walk, descent, pending, reachable>>

Deps(n) == IF n \in DOMAIN graph THEN graph[n] ELSE {}

WalkInit == /\ walk = "cycle"
            /\ starts = DOMAIN graph
            /\ active = << >>
            /\ visited = {}
            /\ checked = << >>
            /\ found = << >>
            /\ ordered = << >>
            /\ pending = roots
            /\ reachable = {}

Init == graph \in Graphs /\ roots \in SUBSET Nodes /\ WalkInit

-----------------------------------------------------------------------------
(* cycle and topological_order. *)

Top == active[Len(active)]
Here == IF active = << >> THEN starts ELSE Top.left

(* The loop over the dependencies, or over the nodes, comes to d.             *)
ComesTo(d) == /\ walk \in {"cycle", "order"}
              /\ d \in Here
              /\ \A e \in Here : d <= e

Behind(d) == IF active = << >> THEN << >>
             ELSE [active EXCEPT ![Len(active)].left = @ \ {d}]

GoesOn(d) == starts' = IF active = << >> THEN starts \ {d} ELSE starts

IsActive(d) == \E i \in DOMAIN active : active[i].node = d

(* Mutant: the path of the whole descent is returned. *)
CycleFromTheStart(d) == [i \in 1 .. Len(active) |-> active[i].node] \o <<d>>

CycleTo(d) ==
    LET first == CHOOSE i \in DOMAIN active : active[i].node = d
    IN  [k \in 1 .. Len(active) - first + 1 |-> active[first + k - 1].node] \o <<d>>

(* visit meets an active node.                                               *)
Found(d) ==
    /\ walk = "cycle" /\ ComesTo(d) /\ IsActive(d)
    /\ found' = CycleTo(d)
    /\ walk' = "reach"
    /\ UNCHANGED <<mapping, starts, active, visited, checked, ordered, pending, reachable>>

Skip(d) ==
    /\ ComesTo(d) /\ d \in visited
    /\ walk = "cycle" => ~ IsActive(d)
    /\ active' = Behind(d) /\ GoesOn(d)
    /\ UNCHANGED <<mapping, walk, visited, checked, found, ordered, pending, reachable>>

(* Mutants: a node is visited as soon as visit begins; it is listed then. *)
EnterVisited(d) ==
    /\ ComesTo(d) /\ d \notin visited
    /\ active' = Append(Behind(d), [node |-> d, left |-> Deps(d) \ visited]) /\ GoesOn(d)
    /\ visited' = visited \cup {d}
    /\ UNCHANGED <<mapping, walk, checked, found, ordered, pending, reachable>>

Enter(d) ==
    /\ ComesTo(d) /\ d \notin visited
    /\ walk = "cycle" => ~ IsActive(d)
    /\ active' = Append(Behind(d), [node |-> d, left |-> Deps(d)]) /\ GoesOn(d)
    /\ UNCHANGED <<mapping, walk, visited, checked, found, ordered, pending, reachable>>

(* Mutant: nodes are listed in front of what was listed before. *)
LeaveInFront ==
    /\ active # << >> /\ Here = {} /\ walk \in {"cycle", "order"}
    /\ active' = SubSeq(active, 1, Len(active) - 1)
    /\ visited' = visited \cup {Top.node}
    /\ IF walk = "cycle" THEN checked' = Append(checked, Top.node) /\ UNCHANGED ordered
                         ELSE ordered' = <<Top.node>> \o ordered /\ UNCHANGED checked
    /\ UNCHANGED <<mapping, walk, starts, found, pending, reachable>>

(* visit is through with the dependencies of its node.                       *)
Leave ==
    /\ active # << >> /\ Here = {} /\ walk \in {"cycle", "order"}
    /\ active' = SubSeq(active, 1, Len(active) - 1)
    /\ visited' = visited \cup {Top.node}
    /\ IF walk = "cycle" THEN checked' = Append(checked, Top.node) /\ UNCHANGED ordered
                         ELSE ordered' = Append(ordered, Top.node) /\ UNCHANGED checked
    /\ UNCHANGED <<mapping, walk, starts, found, pending, reachable>>

(* No cycle: topological_order starts afresh (it asks cycle again first).    *)
NoCycle ==
    /\ walk = "cycle" /\ active = << >> /\ starts = {}
    /\ walk' = "order"
    /\ starts' = DOMAIN graph
    /\ visited' = {}
    /\ UNCHANGED <<mapping, active, checked, found, ordered, pending, reachable>>

Sorted ==
    /\ walk = "order" /\ active = << >> /\ starts = {}
    /\ walk' = "reach"
    /\ UNCHANGED <<mapping, descent, pending, reachable>>

-----------------------------------------------------------------------------
(* reachable_from. *)

(* Mutant: nodes reached before are reached again. *)
ReachAgain(n) ==
    /\ walk = "reach" /\ n \in pending
    /\ reachable' = reachable \cup {n}
    /\ pending' = (pending \ {n}) \cup Deps(n)
    /\ UNCHANGED <<mapping, walk, descent>>

(* Mutant: only the nodes of the mapping's first level are reached. *)
ReachRoots(n) ==
    /\ walk = "reach" /\ n \in pending \ reachable
    /\ reachable' = reachable \cup {n}
    /\ pending' = (pending \ {n}) \cup (IF n \in roots THEN Deps(n) ELSE {})
    /\ UNCHANGED <<mapping, walk, descent>>

Reach(n) ==
    /\ walk = "reach" /\ n \in pending \ reachable
    /\ reachable' = reachable \cup {n}
    /\ pending' = (pending \ {n}) \cup Deps(n)
    /\ UNCHANGED <<mapping, walk, descent>>

ReachedBefore(n) ==
    /\ walk = "reach" /\ n \in pending \cap reachable
    /\ pending' = pending \ {n}
    /\ UNCHANGED <<mapping, walk, descent, reachable>>

Reached ==
    /\ walk = "reach" /\ pending = {}
    /\ walk' = "done"
    /\ UNCHANGED <<mapping, descent, pending, reachable>>

Next == \/ \E d \in Nodes : \/ Found(d) \/ Skip(d) \/ Enter(d)
                            \/ Reach(d) \/ ReachedBefore(d)
        \/ Leave \/ NoCycle \/ Sorted \/ Reached

Spec == Init /\ [][Next]_vars

-----------------------------------------------------------------------------
Frames == [node : Nodes, left : SUBSET Nodes]

(* The walks' variables stay in their ranges.                                 *)
TypeOK ==
    /\ IsMapping(graph)
    /\ walk \in {"cycle", "order", "reach", "done"}
    /\ active \in Seq(Frames)
    /\ {checked, found, ordered} \subseteq Seq(Nodes)
    /\ {roots, starts, visited, pending, reachable} \subseteq SUBSET Nodes

Walked == walk \in {"reach", "done"}

(***************************************************************************)
(* The cycle reported is one: each node depends on the next and the last    *)
(* is the first.                                                            *)
(***************************************************************************)
IsCycle(path) == /\ Len(path) > 1
                 /\ path[1] = path[Len(path)]
                 /\ \A i \in 1 .. Len(path) - 1 : path[i + 1] \in Deps(path[i])

CycleIsReal == found # << >> => IsCycle(found)

(***************************************************************************)
(* When no cycle is reported, the order has every node of the mapping, none  *)
(* twice, and each behind all of its dependencies; so no cycle was missed.   *)
(***************************************************************************)
Dependent(list) ==
    \A i \in DOMAIN list : \A d \in Deps(list[i]) : \E j \in 1 .. i - 1 : list[j] = d
Distinct(list) == \A i, j \in DOMAIN list : list[i] = list[j] => i = j
Lists(list, set) == \A n \in set : \E i \in DOMAIN list : list[i] = n

OrderIsTopological ==
    Walked /\ found = << >> =>
        Dependent(ordered) /\ Distinct(ordered) /\ Lists(ordered, DOMAIN graph)

(***************************************************************************)
(* What is reachable is the least set that has the roots and, with a node,  *)
(* its dependencies.                                                        *)
(***************************************************************************)
Closed(S) == \A n \in S : Deps(n) \subseteq S

ReachableIsExact ==
    walk = "done" =>
        /\ roots \subseteq reachable /\ Closed(reachable)
        /\ \A S \in SUBSET Nodes : roots \subseteq S /\ Closed(S) => reachable \subseteq S

(* The walks end on every graph, cyclic ones included: nothing they wait for  *)
(* comes from outside.                                                       *)
WalksEnd == <>(walk = "done")
=============================================================================
