------------------------- MODULE StaticChecks_proofs -------------------------
(*****************************************************************************)
(* What the static checks of a project tell holds of every project: the walks*)
(* of validate.py over the graph, the references that make the graph, the    *)
(* compiler of schemas, the type checker of rules, and the stages of         *)
(* _check_project put together.                                              *)
(*****************************************************************************)
EXTENDS OfflineChecks, Positions, SequenceTheorems, TLAPS

-----------------------------------------------------------------------------
(*****************************************************************************)
(* DependencyGraph: the three walks are right on every graph, whatever its   *)
(* size and shape.                                                           *)
(*****************************************************************************)

(***************************************************************************)
(* The inductive invariant.                                                 *)
(***************************************************************************)
Walking == walk \in {"cycle", "order"}

(* The list of the walk in progress: the nodes it has left, in order.         *)
List == IF walk = "cycle" THEN checked ELSE ordered

(* The calls of visit in progress are for different nodes, none of them       *)
(* visited, each a dependency of the one before; the dependencies that a      *)
(* call is through with are visited, but for the one it is waiting for.       *)
Descent ==
    Walking =>
        \A i \in 1 .. Len(active) :
            /\ active[i].node \notin visited
            /\ active[i].left \subseteq Deps(active[i].node)
            /\ \A e \in Deps(active[i].node) \ active[i].left :
                  e \in visited \/ (i < Len(active) /\ active[i + 1].node = e)
            /\ i < Len(active) => active[i + 1].node \in Deps(active[i].node)
            /\ \A j \in 1 .. Len(active) : active[i].node = active[j].node => i = j

(* The outer loop is through with what is visited or being visited.           *)
Begun ==
    Walking =>
        /\ starts \subseteq DOMAIN graph
        /\ \A n \in DOMAIN graph \ starts :
              n \in visited \/ (Len(active) > 0 /\ active[1].node = n)

Topological(list) == Dependent(list) /\ Distinct(list)

(* The list has the visited nodes, each behind its dependencies.              *)
Listed ==
    /\ Walking => /\ found = << >>
                  /\ Topological(List)
                  /\ \A n \in Nodes : n \in visited <=> \E i \in DOMAIN List : List[i] = n
    /\ walk = "cycle" => ordered = << >>

Before(list, a, b) == \E i, j \in DOMAIN list : i < j /\ list[i] = a /\ list[j] = b

(* The descent of topological_order goes down the order in which cycle left   *)
(* the nodes, so it cannot come back to an active one.                        *)
Guided ==
    walk = "order" =>
        /\ Topological(checked) /\ Lists(checked, DOMAIN graph)
        /\ \A i \in 1 .. Len(active) : \E p \in DOMAIN checked : checked[p] = active[i].node
        /\ \A i, j \in 1 .. Len(active) :
              i < j => Before(checked, active[j].node, active[i].node)

(* What reachable_from has come to and has yet to come to.                    *)
Reaching ==
    /\ roots \subseteq reachable \cup pending
    /\ \A n \in reachable : Deps(n) \subseteq reachable \cup pending
    /\ \A S \in SUBSET Nodes : roots \subseteq S /\ Closed(S) => reachable \cup pending \subseteq S
    /\ walk = "done" => pending = {}

WInv == /\ TypeOK
        /\ Descent /\ Begun /\ Listed /\ Guided /\ Reaching
        /\ CycleIsReal /\ OrderIsTopological

-----------------------------------------------------------------------------
(* A dependency is a node.                                                    *)
LEMMA DepsAreNodes ==
    ASSUME TypeOK
    PROVE  \A n : Deps(n) \subseteq Nodes
BY DEF TypeOK, IsMapping, Deps

(* The invariant holds before the first node is visited.                      *)
LEMMA InitWInv ==
    ASSUME IsMapping(graph), roots \in SUBSET Nodes, WalkInit
    PROVE  WInv
<1> USE DEF WalkInit
<1>1. TypeOK
  BY DEF TypeOK, IsMapping, Frames
<1>2. Descent /\ Begun /\ Guided
  BY DEF Descent, Begun, Guided
<1>3. Listed
  BY DEF Listed, List, Topological, Dependent, Distinct
<1>4. Reaching
  BY DEF Reaching
<1>5. CycleIsReal /\ OrderIsTopological
  BY DEF CycleIsReal, OrderIsTopological, Walked
<1> QED
  BY <1>1, <1>2, <1>3, <1>4, <1>5 DEF WInv

(* Taking a dependency off the innermost call's list leaves the calls as      *)
(* they are.                                                                 *)
LEMMA BehindFacts ==
    ASSUME TypeOK, NEW d
    PROVE  /\ Behind(d) \in Seq(Frames)
           /\ Len(Behind(d)) = Len(active)
           /\ \A i \in 1 .. Len(active) :
                 /\ Behind(d)[i].node = active[i].node
                 /\ i < Len(active) => Behind(d)[i].left = active[i].left
                 /\ i = Len(active) => Behind(d)[i].left = active[i].left \ {d}
<1>1. CASE active = << >>
  BY <1>1 DEF Behind, TypeOK
<1>2. CASE active # << >>
  <2>1. active \in Seq(Frames) /\ Len(active) \in 1 .. Len(active) /\ Len(active) \in Nat
    BY <1>2 DEF TypeOK
  <2>2. \A i \in 1 .. Len(active) : active[i] \in Frames
    BY <2>1
  <2>3. Behind(d) = [active EXCEPT ![Len(active)].left = @ \ {d}]
    BY <1>2 DEF Behind
  <2> QED
    BY <2>1, <2>2, <2>3 DEF Frames
<1> QED
  BY <1>1, <1>2

(* What a step of a descent leaves alone.                                     *)
LEMMA Unwalked ==
    ASSUME WInv, UNCHANGED <<graph, roots, pending, reachable>>, walk' # "done", walk # "done"
    PROVE  Reaching'
BY DEF WInv, Reaching, Closed, Deps

LEMMA Unlisted ==
    ASSUME Listed, UNCHANGED <<graph, walk, visited, checked, found, ordered>>
    PROVE  Listed'
BY DEF Listed, Walking, List, Topological, Dependent, Distinct, Deps

(* visit returns at once from a visited node.                                 *)
LEMMA SkipStep == ASSUME WInv, NEW d \in Nodes, Skip(d) PROVE WInv'
<1> USE DEF WInv
<1>1. /\ walk' = walk /\ Walking /\ d \in visited /\ d \in Here
      /\ active' = Behind(d) /\ GoesOn(d)
      /\ UNCHANGED <<graph, roots, visited, checked, found, ordered, pending, reachable>>
  BY DEF Skip, ComesTo, mapping, Walking
<1>2. /\ active \in Seq(Frames) /\ Len(active) \in Nat
      /\ \A i \in 1 .. Len(active) : active[i] \in Frames
      /\ Len(active) = 0 <=> active = << >>
  BY DEF TypeOK
<1>3. /\ active' \in Seq(Frames) /\ Len(active') = Len(active)
      /\ \A i \in 1 .. Len(active) :
            /\ active'[i].node = active[i].node
            /\ i < Len(active) => active'[i].left = active[i].left
            /\ i = Len(active) => active'[i].left = active[i].left \ {d}
  BY <1>1, BehindFacts
<1>4. TypeOK'
  BY <1>1, <1>3 DEF TypeOK, GoesOn
<1>5. \A m : Deps(m)' = Deps(m)
  BY <1>1 DEF Deps
<1>6. Descent'
  <2> SUFFICES ASSUME NEW i \in 1 .. Len(active)
               PROVE  /\ active'[i].node \notin visited
                      /\ active'[i].left \subseteq Deps(active'[i].node)
                      /\ \A e \in Deps(active'[i].node) \ active'[i].left :
                            e \in visited \/ (i < Len(active) /\ active'[i + 1].node = e)
                      /\ i < Len(active) => active'[i + 1].node \in Deps(active'[i].node)
                      /\ \A j \in 1 .. Len(active) : active'[i].node = active'[j].node => i = j
    BY <1>1, <1>3, <1>5 DEF Descent, Walking
  <2>1. i < Len(active) => i + 1 \in 1 .. Len(active)
    BY <1>2
  <2>2. /\ active[i].node \notin visited /\ active[i].left \subseteq Deps(active[i].node)
        /\ \A e \in Deps(active[i].node) \ active[i].left :
              e \in visited \/ (i < Len(active) /\ active[i + 1].node = e)
        /\ i < Len(active) => active[i + 1].node \in Deps(active[i].node)
        /\ \A j \in 1 .. Len(active) : active[i].node = active[j].node => i = j
    BY <1>1 DEF Descent
  <2>3. active'[i].node = active[i].node
    BY <1>3
  <2>4. active[i].left \ {d} \subseteq active'[i].left /\ active'[i].left \subseteq active[i].left
    <3>1. CASE i < Len(active)
      BY <1>3, <3>1
    <3>2. CASE i = Len(active)
      BY <1>3, <3>2
    <3> QED
      BY <1>2, <3>1, <3>2
  <2>5. ASSUME NEW e \in Deps(active[i].node) \ active'[i].left
        PROVE  e \in visited \/ (i < Len(active) /\ active'[i + 1].node = e)
    <3>1. CASE e = d
      BY <1>1, <3>1
    <3>2. CASE e # d
      BY <1>3, <2>1, <2>2, <2>4, <3>2
    <3> QED
      BY <3>1, <3>2
  <2>6. i < Len(active) => active'[i + 1].node \in Deps(active[i].node)
    BY <1>3, <2>1, <2>2
  <2>7. \A j \in 1 .. Len(active) : active'[i].node = active'[j].node => i = j
    BY <1>3, <2>2
  <2> QED
    BY <2>2, <2>3, <2>4, <2>5, <2>6, <2>7
<1>7. Begun'
  <2>1. /\ starts \subseteq DOMAIN graph
        /\ \A m \in DOMAIN graph \ starts : m \in visited \/ (Len(active) > 0 /\ active[1].node = m)
    BY <1>1 DEF Begun
  <2>2. starts' = IF Len(active) = 0 THEN starts \ {d} ELSE starts
    BY <1>1, <1>2 DEF GoesOn
  <2>3. Len(active) > 0 => active'[1].node = active[1].node
    BY <1>2, <1>3
  <2> QED
    BY <1>1, <1>2, <1>3, <2>1, <2>2, <2>3 DEF Begun, Walking
<1>8. Listed' /\ Guided'
  <2>1. Listed'
    BY <1>1, Unlisted DEF Walking
  <2>2. Guided'
    BY <1>1, <1>3 DEF Guided, Topological, Dependent, Distinct, Lists, Before, Deps
  <2> QED
    BY <2>1, <2>2
<1>9. Reaching'
  BY <1>1, Unwalked DEF Walking
<1>10. CycleIsReal' /\ OrderIsTopological'
  BY <1>1 DEF Listed, Walking, CycleIsReal, OrderIsTopological, Walked
<1> QED
  BY <1>4, <1>6, <1>7, <1>8, <1>9, <1>10

(* visit begins with a node that is neither visited nor active: in cycle that *)
(* is looked at, in topological_order the order of cycle says so.             *)
LEMMA EnterStep == ASSUME WInv, NEW d \in Nodes, Enter(d) PROVE WInv'
<1> DEFINE n == Len(active)
<1> USE DEF WInv
<1>1. /\ walk' = walk /\ Walking /\ d \notin visited /\ d \in Here
      /\ walk = "cycle" => ~ IsActive(d)
      /\ active' = Append(Behind(d), [node |-> d, left |-> Deps(d)]) /\ GoesOn(d)
      /\ UNCHANGED <<graph, roots, visited, checked, found, ordered, pending, reachable>>
  BY DEF Enter, ComesTo, mapping, Walking
<1>2. /\ active \in Seq(Frames) /\ n \in Nat
      /\ \A i \in 1 .. n : active[i] \in Frames
      /\ n = 0 <=> active = << >>
  BY DEF TypeOK
<1>3. /\ active' \in Seq(Frames) /\ Len(active') = n + 1
      /\ active'[n + 1] = [node |-> d, left |-> Deps(d)]
      /\ \A i \in 1 .. n :
            /\ active'[i].node = active[i].node
            /\ i < n => active'[i].left = active[i].left
            /\ i = n => active'[i].left = active[i].left \ {d}
  <2>1. [node |-> d, left |-> Deps(d)] \in Frames
    BY DepsAreNodes DEF Frames
  <2>2. \A i \in 1 .. n : active'[i] = Behind(d)[i]
    BY <1>1, <1>2, <2>1, BehindFacts
  <2> QED
    BY <1>1, <1>2, <2>1, <2>2, BehindFacts
<1>4. TypeOK'
  BY <1>1, <1>3 DEF TypeOK, GoesOn
<1>5. \A m : Deps(m)' = Deps(m)
  BY <1>1 DEF Deps
<1>6. n > 0 => d \in active[n].left /\ d \in Deps(active[n].node)
  BY <1>1, <1>2 DEF Here, Top, Descent
<1>7. n = 0 => d \in DOMAIN graph
  BY <1>1, <1>2 DEF Here, Begun
<1>8. walk = "order" => /\ \E p \in DOMAIN checked : checked[p] = d
                        /\ \A i \in 1 .. n : Before(checked, d, active[i].node)
  <2> SUFFICES ASSUME walk = "order"
               PROVE  /\ \E p \in DOMAIN checked : checked[p] = d
                      /\ \A i \in 1 .. n : Before(checked, d, active[i].node)
    OBVIOUS
  <2>1. /\ Dependent(checked) /\ Distinct(checked) /\ Lists(checked, DOMAIN graph)
        /\ \A i \in 1 .. n : \E p \in DOMAIN checked : checked[p] = active[i].node
        /\ \A i, j \in 1 .. n : i < j => Before(checked, active[j].node, active[i].node)
    BY DEF Guided, Topological
  <2>2. checked \in Seq(Nodes) /\ DOMAIN checked = 1 .. Len(checked) /\ Len(checked) \in Nat
    BY DEF TypeOK
  <2>3. CASE n = 0
    BY <1>7, <2>1, <2>3 DEF Lists
  <2>4. CASE n > 0
    <3>1. n \in 1 .. n
      BY <1>2, <2>4
    <3>2. PICK p \in DOMAIN checked : checked[p] = active[n].node
      BY <2>1, <3>1
    <3>3. PICK q \in 1 .. p - 1 : checked[q] = d
      BY <1>6, <2>1, <2>4, <3>2 DEF Dependent
    <3>4. q \in DOMAIN checked /\ q < p
      BY <2>2, <3>2, <3>3
    <3>5. ASSUME NEW i \in 1 .. n PROVE Before(checked, d, active[i].node)
      <4>1. CASE i = n
        BY <3>2, <3>3, <3>4, <4>1 DEF Before
      <4>2. CASE i < n
        <5>1. PICK a, b \in DOMAIN checked :
                 a < b /\ checked[a] = active[n].node /\ checked[b] = active[i].node
          BY <2>1, <3>1, <4>2 DEF Before
        <5>2. a = p
          BY <2>1, <3>2, <5>1 DEF Distinct
        <5>3. q < b
          BY <2>2, <3>4, <5>1, <5>2
        <5> QED
          BY <3>3, <3>4, <5>1, <5>3 DEF Before
      <4> QED
        BY <1>2, <4>1, <4>2
    <3> QED
      BY <3>3, <3>4, <3>5
  <2> QED
    BY <1>2, <2>3, <2>4
<1>9. ~ IsActive(d)
  <2>1. CASE walk = "cycle"
    BY <1>1, <2>1
  <2>2. CASE walk = "order"
    <3> SUFFICES ASSUME NEW i \in 1 .. n, active[i].node = d PROVE FALSE
      BY <1>2 DEF IsActive
    <3>1. PICK a, b \in DOMAIN checked : a < b /\ checked[a] = d /\ checked[b] = d
      BY <1>8, <2>2 DEF Before
    <3>2. a = b
      BY <2>2, <3>1 DEF Guided, Topological, Distinct
    <3> QED
      BY <3>1, <3>2 DEF TypeOK
  <2> QED
    BY <1>1, <2>1, <2>2 DEF Walking
<1>10. Descent'
  <2> SUFFICES ASSUME NEW i \in 1 .. n + 1
               PROVE  /\ active'[i].node \notin visited
                      /\ active'[i].left \subseteq Deps(active'[i].node)
                      /\ \A e \in Deps(active'[i].node) \ active'[i].left :
                            e \in visited \/ (i < n + 1 /\ active'[i + 1].node = e)
                      /\ i < n + 1 => active'[i + 1].node \in Deps(active'[i].node)
                      /\ \A j \in 1 .. n + 1 : active'[i].node = active'[j].node => i = j
    BY <1>1, <1>3, <1>5 DEF Descent, Walking
  <2>1. \A k \in 1 .. n : active[k].node # d
    BY <1>2, <1>9 DEF IsActive
  <2>2. CASE i = n + 1
    BY <1>1, <1>2, <1>3, <2>1, <2>2
  <2>3. CASE i # n + 1
    <3>1. i \in 1 .. n
      BY <1>2, <2>3
    <3>2. /\ active[i].node \notin visited /\ active[i].left \subseteq Deps(active[i].node)
          /\ \A e \in Deps(active[i].node) \ active[i].left :
                e \in visited \/ (i < n /\ active[i + 1].node = e)
          /\ i < n => active[i + 1].node \in Deps(active[i].node)
          /\ \A j \in 1 .. n : active[i].node = active[j].node => i = j
      BY <1>1, <3>1 DEF Descent
    <3>3. active'[i].node = active[i].node
      BY <1>3, <3>1
    <3>4. i < n => i + 1 \in 1 .. n /\ active'[i + 1].node = active[i + 1].node
                   /\ active'[i].left = active[i].left
      BY <1>2, <1>3, <3>1
    <3>5. i = n => active'[i + 1].node = d /\ active'[i].left = active[i].left \ {d}
      BY <1>3, <3>1
    <3>6. i < n \/ i = n
      BY <1>2, <3>1
    <3>7. ASSUME NEW e \in Deps(active[i].node) \ active'[i].left
          PROVE  e \in visited \/ (i < n + 1 /\ active'[i + 1].node = e)
      BY <1>2, <3>1, <3>2, <3>4, <3>5, <3>6
    <3>8. active'[i + 1].node \in Deps(active[i].node)
      BY <1>2, <1>6, <3>2, <3>4, <3>5, <3>6
    <3>9. active'[i].left \subseteq Deps(active[i].node)
      BY <3>2, <3>4, <3>5, <3>6
    <3>10. \A j \in 1 .. n + 1 : active'[i].node = active'[j].node => i = j
      BY <1>2, <1>3, <2>1, <3>1, <3>2, <3>3
    <3> QED
      BY <3>2, <3>3, <3>7, <3>8, <3>9, <3>10
  <2> QED
    BY <2>2, <2>3
<1>11. Begun'
  <2>1. /\ starts \subseteq DOMAIN graph
        /\ \A m \in DOMAIN graph \ starts : m \in visited \/ (n > 0 /\ active[1].node = m)
    BY <1>1 DEF Begun
  <2>2. starts' = IF n = 0 THEN starts \ {d} ELSE starts
    BY <1>1, <1>2 DEF GoesOn
  <2>3. active'[1].node = IF n = 0 THEN d ELSE active[1].node
    BY <1>2, <1>3
  <2> QED
    BY <1>1, <1>2, <1>3, <2>1, <2>2, <2>3 DEF Begun, Walking
<1>12. Listed'
  BY <1>1, Unlisted
<1>13. Guided'
  <2> SUFFICES ASSUME walk = "order" PROVE Guided'
    BY <1>1 DEF Guided
  <2>1. Topological(checked)' /\ Lists(checked, DOMAIN graph)'
    BY <1>1 DEF Guided, Topological, Dependent, Distinct, Lists, Deps
  <2>2. \A i \in 1 .. n + 1 : \E p \in DOMAIN checked : checked[p] = active'[i].node
    BY <1>2, <1>3, <1>8 DEF Guided
  <2>3. ASSUME NEW i \in 1 .. n + 1, NEW j \in 1 .. n + 1, i < j
        PROVE  Before(checked, active'[j].node, active'[i].node)
    <3>1. i \in 1 .. n /\ (j \in 1 .. n \/ j = n + 1)
      BY <1>2, <2>3
    <3>2. CASE j = n + 1
      BY <1>3, <1>8, <3>1, <3>2
    <3>3. CASE j \in 1 .. n
      BY <1>3, <2>3, <3>1, <3>3 DEF Guided
    <3> QED
      BY <3>1, <3>2, <3>3
  <2> QED
    BY <1>1, <1>3, <2>1, <2>2, <2>3 DEF Guided, Before
<1>14. Reaching'
  BY <1>1, Unwalked DEF Walking
<1>15. CycleIsReal' /\ OrderIsTopological'
  BY <1>1 DEF Listed, Walking, CycleIsReal, OrderIsTopological, Walked
<1> QED
  BY <1>4, <1>10, <1>11, <1>12, <1>13, <1>14, <1>15

(* The path of the calls from the active node on is a cycle.                  *)
LEMMA FoundStep == ASSUME WInv, NEW d \in Nodes, Found(d) PROVE WInv'
<1> DEFINE n == Len(active)
<1> DEFINE first == CHOOSE i \in DOMAIN active : active[i].node = d
<1> DEFINE m == n - first + 1
<1> DEFINE path == [k \in 1 .. m |-> active[first + k - 1].node]
<1> USE DEF WInv
<1>1. /\ walk = "cycle" /\ walk' = "reach" /\ d \in Here /\ IsActive(d)
      /\ found' = CycleTo(d)
      /\ UNCHANGED <<graph, roots, starts, active, visited, checked, ordered, pending, reachable>>
  BY DEF Found, ComesTo, mapping
<1>2. /\ active \in Seq(Frames) /\ n \in Nat /\ DOMAIN active = 1 .. n
      /\ \A i \in 1 .. n : active[i] \in Frames /\ active[i].node \in Nodes
  <2>1. active \in Seq(Frames)
    BY DEF TypeOK
  <2>2. \A i \in 1 .. n : active[i] \in Frames
    BY <2>1
  <2> QED
    BY <2>1, <2>2 DEF Frames
<1>3. first \in 1 .. n /\ active[first].node = d
  BY <1>1, <1>2 DEF IsActive
<1>4. d \in Deps(active[n].node)
  <2>1. active # << >> /\ n \in 1 .. n
    BY <1>2, <1>3
  <2> QED
    BY <1>1, <2>1 DEF Here, Top, Descent, Walking
<1>5. found' = path \o <<d>>
  BY <1>1 DEF CycleTo
<1> HIDE DEF first
<1>6. m \in Nat /\ m > 0 /\ \A k \in 1 .. m : first + k - 1 \in 1 .. n
  BY <1>2, <1>3
<1>7. path \in Seq(Nodes) /\ Len(path) = m
  BY <1>2, <1>6
<1>8. /\ found' \in Seq(Nodes) /\ Len(found') = m + 1 /\ found'[m + 1] = d
      /\ \A k \in 1 .. m : found'[k] = active[first + k - 1].node
  BY <1>5, <1>6, <1>7
<1>9. CycleIsReal'
  <2>1. Len(found') > 1 /\ found'[1] = found'[Len(found')]
    <3>1. first + 1 - 1 = first
      BY <1>3
    <3> QED
      BY <1>3, <1>6, <1>8, <3>1
  <2>2. ASSUME NEW k \in 1 .. m PROVE found'[k + 1] \in Deps(found'[k])
    <3>1. CASE k = m
      <4>1. first + m - 1 = n
        BY <1>2, <1>3
      <4> QED
        BY <1>4, <1>6, <1>8, <3>1, <4>1
    <3>2. CASE k < m
      <4>1. k + 1 \in 1 .. m /\ first + k - 1 < n /\ first + (k + 1) - 1 = first + k - 1 + 1
        BY <1>2, <1>3, <3>2
      <4>2. active[first + k - 1 + 1].node \in Deps(active[first + k - 1].node)
        BY <1>1, <1>6, <4>1 DEF Descent, Walking
      <4> QED
        BY <1>8, <4>1, <4>2
    <3> QED
      BY <1>6, <3>1, <3>2
  <2>3. Len(found') - 1 = m
    BY <1>6, <1>8
  <2>4. \A a : Deps(a)' = Deps(a)
    BY <1>1 DEF Deps
  <2> QED
    BY <2>1, <2>2, <2>3, <2>4 DEF CycleIsReal, IsCycle
<1>10. TypeOK'
  BY <1>1, <1>8 DEF TypeOK
<1>11. Descent' /\ Begun' /\ Listed' /\ Guided'
  BY <1>1 DEF Descent, Begun, Listed, Guided, Walking
<1>12. Reaching'
  BY <1>1, Unwalked
<1>13. OrderIsTopological'
  <2>1. found' # << >>
    BY <1>6, <1>8
  <2> QED
    BY <2>1 DEF OrderIsTopological
<1> QED
  BY <1>9, <1>10, <1>11, <1>12, <1>13

(* A list stays topological when a node that is not in it, but whose          *)
(* dependencies are, is appended.                                            *)
LEMMA AppendTopological ==
    ASSUME NEW list \in Seq(Nodes), NEW n \in Nodes, Topological(list),
           \A i \in DOMAIN list : list[i] # n,
           \A d \in Deps(n) : \E i \in DOMAIN list : list[i] = d
    PROVE  /\ Topological(Append(list, n))
           /\ \A m : (\E i \in DOMAIN Append(list, n) : Append(list, n)[i] = m)
                       <=> m = n \/ \E i \in DOMAIN list : list[i] = m
<1> DEFINE longer == Append(list, n)
<1>1. /\ Len(list) \in Nat /\ DOMAIN list = 1 .. Len(list)
      /\ longer \in Seq(Nodes) /\ DOMAIN longer = 1 .. Len(list) + 1
      /\ longer[Len(list) + 1] = n
      /\ \A i \in DOMAIN list : longer[i] = list[i]
  OBVIOUS
<1> HIDE DEF longer
<1>2. Dependent(longer)
  <2> SUFFICES ASSUME NEW i \in DOMAIN longer, NEW d \in Deps(longer[i])
               PROVE  \E j \in 1 .. i - 1 : longer[j] = d
    BY DEF Dependent
  <2>1. CASE i = Len(list) + 1
    <3>1. PICK j \in DOMAIN list : list[j] = d
      BY <1>1, <2>1
    <3> QED
      BY <1>1, <2>1, <3>1
  <2>2. CASE i \in DOMAIN list
    <3>1. PICK j \in 1 .. i - 1 : list[j] = d
      BY <1>1, <2>2 DEF Topological, Dependent
    <3>2. j \in DOMAIN list
      BY <1>1, <2>2, <3>1
    <3> QED
      BY <1>1, <3>1, <3>2
  <2> QED
    BY <1>1, <2>1, <2>2
<1>3. Distinct(longer)
  BY <1>1 DEF Topological, Distinct
<1>4. \A m : (\E i \in DOMAIN longer : longer[i] = m) <=> m = n \/ \E i \in DOMAIN list : list[i] = m
  <2> TAKE m
  <2>1. ASSUME NEW i \in DOMAIN longer, longer[i] = m
        PROVE  m = n \/ \E k \in DOMAIN list : list[k] = m
    <3>1. i = Len(list) + 1 \/ i \in DOMAIN list
      BY <1>1
    <3> QED
      BY <1>1, <2>1, <3>1
  <2>2. n = longer[Len(list) + 1] /\ Len(list) + 1 \in DOMAIN longer
    BY <1>1
  <2>3. \A i \in DOMAIN list : i \in DOMAIN longer /\ longer[i] = list[i]
    BY <1>1
  <2> QED
    BY <2>1, <2>2, <2>3
<1> QED
  BY <1>2, <1>3, <1>4 DEF Topological, longer

(* The node visit leaves has all of its dependencies behind it in the list.   *)
LEMMA LeaveStep == ASSUME WInv, Leave PROVE WInv'
<1> DEFINE n == Len(active)
<1> DEFINE node == active[n].node
<1> USE DEF WInv
<1>1. /\ active # << >> /\ Here = {} /\ Walking /\ walk' = walk
      /\ active' = SubSeq(active, 1, n - 1)
      /\ visited' = visited \cup {node}
      /\ IF walk = "cycle" THEN checked' = Append(checked, node) /\ ordered' = ordered
                           ELSE ordered' = Append(ordered, node) /\ checked' = checked
      /\ UNCHANGED <<graph, roots, starts, found, pending, reachable>>
  BY DEF Leave, mapping, Walking, Top
<1>2. /\ active \in Seq(Frames) /\ n \in Nat /\ n > 0 /\ n \in 1 .. n
      /\ \A i \in 1 .. n : active[i] \in Frames
  BY <1>1 DEF TypeOK
<1>3. node \in Nodes /\ active[n].left = {}
  BY <1>1, <1>2 DEF Top, Here, Frames
<1> HIDE DEF node
<1>4. /\ active' \in Seq(Frames) /\ Len(active') = n - 1
      /\ \A i \in 1 .. n - 1 : active'[i] = active[i]
  <2>1. \A i \in 1 .. n - 1 : active[i] \in Frames
    BY <1>2
  <2>2. 1 \in Int /\ n - 1 \in Int
    BY <1>2
  <2>3. /\ SubSeq(active, 1, n - 1) \in Seq(Frames)
        /\ Len(SubSeq(active, 1, n - 1)) = IF 1 <= n - 1 THEN n - 1 - 1 + 1 ELSE 0
        /\ \A i \in 1 .. n - 1 - 1 + 1 : SubSeq(active, 1, n - 1)[i] = active[1 + i - 1]
    BY <2>1, <2>2, SubSeqProperties
  <2>4. active' = SubSeq(active, 1, n - 1)
    BY <1>1
  <2>5. n - 1 - 1 + 1 = n - 1 /\ (1 <= n - 1 \/ n - 1 = 0)
    <3> HIDE DEF n
    <3> QED
      BY <1>2
  <2>6. \A i \in 1 .. n - 1 : 1 + i - 1 = i
    OBVIOUS
  <2> QED
    BY <2>3, <2>4, <2>5, <2>6
<1>5. /\ checked \in Seq(Nodes) /\ ordered \in Seq(Nodes) /\ List \in Seq(Nodes)
      /\ List' = Append(List, node)
  BY <1>1 DEF TypeOK, List
<1>6. TypeOK'
  <2>1. checked' = checked \/ checked' = Append(checked, node)
    BY <1>1
  <2>2. ordered' = ordered \/ ordered' = Append(ordered, node)
    BY <1>1
  <2>5. \A s \in Seq(Nodes) : Append(s, node) \in Seq(Nodes)
    BY <1>3, AppendProperties
  <2>4. checked' \in Seq(Nodes) /\ ordered' \in Seq(Nodes)
    BY <1>5, <2>1, <2>2, <2>5
  <2>3. visited' \in SUBSET Nodes
    BY <1>1, <1>3 DEF TypeOK
  <2> QED
    BY <1>1, <1>4, <2>3, <2>4 DEF TypeOK
<1>7. \A m : Deps(m)' = Deps(m)
  BY <1>1 DEF Deps
<1>8. node \notin visited /\ \A e \in Deps(node) : e \in visited
  BY <1>1, <1>2, <1>3 DEF Descent, node
<1>9. Descent'
  <2> SUFFICES ASSUME NEW i \in 1 .. n - 1
               PROVE  /\ active'[i].node \notin visited'
                      /\ active'[i].left \subseteq Deps(active'[i].node)
                      /\ \A e \in Deps(active'[i].node) \ active'[i].left :
                            e \in visited' \/ (i < n - 1 /\ active'[i + 1].node = e)
                      /\ i < n - 1 => active'[i + 1].node \in Deps(active'[i].node)
                      /\ \A j \in 1 .. n - 1 : active'[i].node = active'[j].node => i = j
    BY <1>1, <1>4, <1>7 DEF Descent, Walking
  <2>1. i \in 1 .. n /\ i # n /\ active'[i] = active[i]
    BY <1>2, <1>4
  <2>2. /\ active[i].node \notin visited /\ active[i].left \subseteq Deps(active[i].node)
        /\ \A e \in Deps(active[i].node) \ active[i].left :
              e \in visited \/ (i < n /\ active[i + 1].node = e)
        /\ i < n => active[i + 1].node \in Deps(active[i].node)
        /\ \A j \in 1 .. n : active[i].node = active[j].node => i = j
    BY <1>1, <2>1 DEF Descent
  <2>3. active[i].node # node
    BY <1>2, <2>1, <2>2 DEF node
  <2>4. ASSUME NEW e \in Deps(active[i].node) \ active[i].left
        PROVE  e \in visited' \/ (i < n - 1 /\ active'[i + 1].node = e)
    <3>1. CASE e \in visited
      BY <1>1, <3>1
    <3>2. CASE active[i + 1].node = e /\ i = n - 1
      BY <1>1, <1>2, <3>2 DEF node
    <3>3. CASE active[i + 1].node = e /\ i < n - 1
      BY <1>2, <1>4, <3>3
    <3> QED
      BY <1>2, <2>2, <3>1, <3>2, <3>3
  <2>5. i < n - 1 => active'[i + 1].node \in Deps(active[i].node)
    BY <1>2, <1>4, <2>2
  <2> QED
    BY <1>1, <1>2, <1>4, <2>1, <2>2, <2>3, <2>4, <2>5
<1>10. Begun'
  <2>1. /\ starts \subseteq DOMAIN graph
        /\ \A m \in DOMAIN graph \ starts : m \in visited \/ (n > 0 /\ active[1].node = m)
    BY <1>1 DEF Begun
  <2>2. active[1].node \in visited' \/ (n - 1 > 0 /\ active'[1].node = active[1].node)
    BY <1>1, <1>2, <1>4 DEF node
  <2> QED
    BY <1>1, <1>4, <2>1, <2>2 DEF Begun, Walking
<1>11. Listed'
  <2>1. /\ found = << >> /\ Topological(List)
        /\ walk = "cycle" => ordered = << >>
        /\ \A m \in Nodes : m \in visited <=> \E i \in DOMAIN List : List[i] = m
    BY <1>1 DEF Listed
  <2>2. \A m \in Deps(node) : \E i \in DOMAIN List : List[i] = m
    BY <1>8, <2>1, DepsAreNodes
  <2>3. \A i \in DOMAIN List : List[i] # node
    BY <1>3, <1>8, <2>1
  <2> DEFINE list == List
  <2>6. list \in Seq(Nodes) /\ node \in Nodes /\ Topological(list)
    BY <1>3, <1>5, <2>1
  <2> HIDE DEF list, node
  <2>7. /\ Topological(Append(list, node))
        /\ \A m : (\E i \in DOMAIN Append(list, node) : Append(list, node)[i] = m)
                     <=> m = node \/ \E i \in DOMAIN list : list[i] = m
    BY <2>2, <2>3, <2>6, AppendTopological DEF list, node
  <2>4. /\ Topological(List')
        /\ \A m : (\E i \in DOMAIN List' : List'[i] = m)
                     <=> m = node \/ \E i \in DOMAIN List : List[i] = m
    BY <1>5, <2>7 DEF list, node
  <2>5. Topological(List)'
    BY <1>7, <2>4 DEF Topological, Dependent, Distinct
  <2> QED
    BY <1>1, <2>1, <2>4, <2>5 DEF Listed
<1>12. Guided'
  <2> SUFFICES ASSUME walk = "order" PROVE Guided'
    BY <1>1 DEF Guided
  <2>1. checked' = checked
    BY <1>1
  <2>2. Topological(checked)' /\ Lists(checked, DOMAIN graph)'
    BY <1>1, <2>1 DEF Guided, Topological, Dependent, Distinct, Lists, Deps
  <2>3. \A i \in 1 .. n - 1 : i \in 1 .. n /\ active'[i].node = active[i].node
    BY <1>2, <1>4
  <2>4. \A i \in 1 .. n - 1 : \E p \in DOMAIN checked : checked[p] = active'[i].node
    BY <2>3 DEF Guided
  <2>5. \A i, j \in 1 .. n - 1 : i < j => Before(checked, active'[j].node, active'[i].node)
    BY <2>3 DEF Guided
  <2> QED
    BY <1>4, <2>1, <2>2, <2>4, <2>5 DEF Guided, Before
<1>13. Reaching'
  BY <1>1, Unwalked DEF Walking
<1>14. CycleIsReal' /\ OrderIsTopological'
  BY <1>1 DEF Listed, Walking, CycleIsReal, OrderIsTopological, Walked
<1> QED
  BY <1>6, <1>9, <1>10, <1>11, <1>12, <1>13, <1>14

(* Every node of the mapping has been checked when no cycle was found.        *)
LEMMA NoCycleStep == ASSUME WInv, NoCycle PROVE WInv'
<1> USE DEF WInv
<1>1. /\ walk = "cycle" /\ active = << >> /\ starts = {}
      /\ walk' = "order" /\ starts' = DOMAIN graph /\ visited' = {}
      /\ UNCHANGED <<graph, roots, active, checked, found, ordered, pending, reachable>>
  BY DEF NoCycle, mapping
<1>2. TypeOK'
  BY <1>1 DEF TypeOK, IsMapping
<1>3. Descent' /\ Begun'
  BY <1>1 DEF Descent, Begun
<1>4. found = << >> /\ ordered = << >> /\ Topological(checked) /\ Lists(checked, DOMAIN graph)
  <2>1. \A m \in DOMAIN graph : m \in visited /\ m \in Nodes
    BY <1>1 DEF Begun, Walking, TypeOK, IsMapping
  <2> QED
    BY <1>1, <2>1 DEF Listed, Walking, List, Lists
<1>5. Listed'
  BY <1>1, <1>4 DEF Listed, List, Topological, Dependent, Distinct
<1>6. Guided'
  BY <1>1, <1>4 DEF Guided, Topological, Dependent, Distinct, Lists, Deps
<1>7. Reaching'
  BY <1>1, Unwalked
<1>8. CycleIsReal' /\ OrderIsTopological'
  BY <1>1, <1>4 DEF CycleIsReal, OrderIsTopological, Walked
<1> QED
  BY <1>2, <1>3, <1>5, <1>6, <1>7, <1>8

(* Every node of the mapping is in the order at the end.                      *)
LEMMA SortedStep == ASSUME WInv, Sorted PROVE WInv'
<1> USE DEF WInv
<1>1. /\ walk = "order" /\ active = << >> /\ starts = {} /\ walk' = "reach"
      /\ UNCHANGED <<graph, roots, starts, active, visited, checked, found, ordered,
                     pending, reachable>>
  BY DEF Sorted, mapping, descent
<1>2. TypeOK'
  BY <1>1 DEF TypeOK
<1>3. Descent' /\ Begun' /\ Listed' /\ Guided'
  BY <1>1 DEF Descent, Begun, Listed, Guided, Walking
<1>4. Reaching'
  BY <1>1, Unwalked
<1>5. found = << >> /\ Topological(ordered) /\ Lists(ordered, DOMAIN graph)
  <2>1. \A m \in DOMAIN graph : m \in visited /\ m \in Nodes
    BY <1>1 DEF Begun, Walking, TypeOK, IsMapping
  <2> QED
    BY <1>1, <2>1 DEF Listed, Walking, List, Lists
<1>6. CycleIsReal' /\ OrderIsTopological'
  BY <1>1, <1>5 DEF CycleIsReal, OrderIsTopological, Topological, Dependent, Distinct, Lists, Deps
<1> QED
  BY <1>2, <1>3, <1>4, <1>6

(* reachable_from moves a node, and what it depends on, from what it has yet  *)
(* to come to towards what it has come to.                                   *)
LEMMA ReachSteps ==
    ASSUME WInv, \/ \E n \in Nodes : Reach(n) \/ ReachedBefore(n)
                 \/ Reached
    PROVE  WInv'
<1> USE DEF WInv
<1>1. /\ walk = "reach" /\ walk' \in {"reach", "done"}
      /\ UNCHANGED <<graph, roots, starts, active, visited, checked, found, ordered>>
  BY DEF Reach, ReachedBefore, Reached, mapping, descent
<1>2. \A m : Deps(m)' = Deps(m)
  BY <1>1 DEF Deps
<1>3. Descent' /\ Begun' /\ Listed' /\ Guided' /\ CycleIsReal' /\ OrderIsTopological'
  BY <1>1, <1>2 DEF Descent, Begun, Listed, Guided, Walking, CycleIsReal, IsCycle,
                    OrderIsTopological, Walked, Dependent, Distinct, Lists
<1>4. /\ roots \subseteq reachable \cup pending
      /\ \A n \in reachable : Deps(n) \subseteq reachable \cup pending
      /\ \A S \in SUBSET Nodes : roots \subseteq S /\ Closed(S) => reachable \cup pending \subseteq S
  BY DEF Reaching
<1>5. \A S : Closed(S)' <=> Closed(S)
  BY <1>2 DEF Closed
<1>6. CASE \E n \in Nodes : Reach(n)
  <2>1. PICK n \in Nodes : Reach(n)
    BY <1>6
  <2>2. /\ n \in pending /\ reachable' = reachable \cup {n} /\ walk' = "reach"
        /\ pending' = (pending \ {n}) \cup Deps(n)
    BY <2>1 DEF Reach
  <2>3. TypeOK'
    BY <1>1, <2>2, DepsAreNodes DEF TypeOK
  <2>4. reachable' \cup pending' = reachable \cup pending \cup Deps(n)
    BY <2>2
  <2>5. \A S \in SUBSET Nodes :
            roots \subseteq S /\ Closed(S) => reachable' \cup pending' \subseteq S
    BY <1>4, <2>2, <2>4 DEF Closed
  <2>6. \A m \in reachable' : Deps(m) \subseteq reachable' \cup pending'
    BY <1>4, <2>2, <2>4
  <2>7. Reaching'
    BY <1>1, <1>2, <1>4, <1>5, <2>2, <2>4, <2>5, <2>6 DEF Reaching
  <2> QED
    BY <1>3, <2>3, <2>7
<1>7. CASE \E n \in Nodes : ReachedBefore(n)
  <2>1. PICK n \in Nodes : ReachedBefore(n)
    BY <1>7
  <2>2. n \in reachable /\ reachable' = reachable /\ pending' = pending \ {n} /\ walk' = "reach"
    BY <2>1 DEF ReachedBefore
  <2>3. TypeOK'
    BY <1>1, <2>2 DEF TypeOK
  <2>4. reachable' \cup pending' = reachable \cup pending
    BY <2>2
  <2>5. Reaching'
    BY <1>1, <1>2, <1>4, <1>5, <2>2, <2>4 DEF Reaching
  <2> QED
    BY <1>3, <2>3, <2>5
<1>8. CASE Reached
  <2>1. reachable' = reachable /\ pending' = pending /\ pending = {}
    BY <1>8 DEF Reached
  <2>2. TypeOK'
    BY <1>1, <2>1 DEF TypeOK
  <2>3. Reaching'
    BY <1>1, <1>2, <1>4, <1>5, <2>1 DEF Reaching
  <2> QED
    BY <1>3, <2>2, <2>3
<1> QED
  BY <1>6, <1>7, <1>8

(* Steps that are not of the walks.                                          *)
LEMMA StutterStep == ASSUME WInv, UNCHANGED vars PROVE WInv'
<1> USE DEF WInv, vars, mapping, descent
<1>1. TypeOK' /\ Descent' /\ Begun'
  BY DEF TypeOK, IsMapping, Descent, Begun, Walking, Deps
<1>2. Listed' /\ Guided'
  BY DEF Listed, Guided, Walking, List, Topological, Dependent, Distinct, Lists, Before, Deps
<1>3. Reaching'
  BY DEF Reaching, Closed, Deps
<1>4. CycleIsReal' /\ OrderIsTopological'
  BY DEF CycleIsReal, IsCycle, OrderIsTopological, Walked, Dependent, Distinct, Lists, Deps
<1> QED
  BY <1>1, <1>2, <1>3, <1>4

(* Every step preserves the invariant.                                        *)
LEMMA NextWInv == ASSUME WInv, [Next]_vars PROVE WInv'
<1>1. CASE \E d \in Nodes : Found(d)
  BY <1>1, FoundStep
<1>2. CASE \E d \in Nodes : Skip(d)
  BY <1>2, SkipStep
<1>3. CASE \E d \in Nodes : Enter(d)
  BY <1>3, EnterStep
<1>4. CASE Leave
  BY <1>4, LeaveStep
<1>5. CASE NoCycle
  BY <1>5, NoCycleStep
<1>6. CASE Sorted
  BY <1>6, SortedStep
<1>7. CASE (\E d \in Nodes : Reach(d) \/ ReachedBefore(d)) \/ Reached
  BY <1>7, ReachSteps
<1>8. CASE UNCHANGED vars
  BY <1>8, StutterStep
<1> QED
  BY <1>1, <1>2, <1>3, <1>4, <1>5, <1>6, <1>7, <1>8 DEF Next

-----------------------------------------------------------------------------
(* The invariant of the three walks.                                          *)
THEOREM WalkInvariance == Spec => []WInv
<1>1. Init => WInv
  BY GraphsAssumption, InitWInv DEF Init
<1>2. WInv /\ [Next]_vars => WInv'
  BY NextWInv
<1> QED
  BY <1>1, <1>2, PTL DEF Spec

(* The walks' variables stay in their ranges.                                 *)
THEOREM WalkTypeCorrect == Spec => []TypeOK
<1>1. WInv => TypeOK
  BY DEF WInv
<1> QED
  BY <1>1, WalkInvariance, PTL

(* cycle returns nothing but cycles of the graph.                             *)
THEOREM CyclesAreReal == Spec => []CycleIsReal
<1>1. WInv => CycleIsReal
  BY DEF WInv
<1> QED
  BY <1>1, WalkInvariance, PTL

(* topological_order lists the mapping's nodes behind their dependencies.     *)
THEOREM OrdersAreTopological == Spec => []OrderIsTopological
<1>1. WInv => OrderIsTopological
  BY DEF WInv
<1> QED
  BY <1>1, WalkInvariance, PTL

(* reachable_from returns the least closed set that has the roots.            *)
LEMMA ReachableOfWInv == WInv => ReachableIsExact
<1> SUFFICES ASSUME WInv, walk = "done"
             PROVE  /\ roots \subseteq reachable /\ Closed(reachable)
                    /\ \A S \in SUBSET Nodes : roots \subseteq S /\ Closed(S) => reachable \subseteq S
  BY DEF ReachableIsExact
<1>1. pending = {}
  BY DEF WInv, Reaching
<1>2. roots \subseteq reachable /\ Closed(reachable)
  BY <1>1 DEF WInv, Reaching, Closed
<1>3. \A S \in SUBSET Nodes : roots \subseteq S /\ Closed(S) => reachable \subseteq S
  BY <1>1 DEF WInv, Reaching
<1> QED
  BY <1>2, <1>3

THEOREM ReachableSetsAreExact == Spec => []ReachableIsExact
<1> QED
  BY WalkInvariance, ReachableOfWInv, PTL

(***************************************************************************)
(* cycle finds a cycle exactly when there is one: a graph has none iff every *)
(* set of nodes, if not empty, has one that depends on none of the set.      *)
(***************************************************************************)
GraphIsAcyclic == \A S \in SUBSET Nodes : S # {} => \E n \in S : Deps(n) \cap S = {}

CycleIffCyclic == Walked => (found = << >> <=> GraphIsAcyclic)

THEOREM CycleIsFound == Spec => []CycleIffCyclic
<1>1. WInv => CycleIffCyclic
  <2> SUFFICES ASSUME WInv, Walked PROVE found = << >> <=> GraphIsAcyclic
    BY DEF CycleIffCyclic
  <2>1. ASSUME found = << >>, NEW S \in SUBSET Nodes, S # {}
        PROVE  \E n \in S : Deps(n) \cap S = {}
    <3> DEFINE places == {i \in DOMAIN ordered : ordered[i] \in S}
    <3>1. /\ Dependent(ordered) /\ Lists(ordered, DOMAIN graph)
          /\ ordered \in Seq(Nodes) /\ DOMAIN ordered \subseteq Nat
      BY <2>1 DEF WInv, OrderIsTopological, TypeOK
    <3>2. CASE S \cap DOMAIN graph = {}
      BY <2>1, <3>2 DEF Deps
    <3>3. CASE S \cap DOMAIN graph # {}
      <4>1. places # {} /\ places \subseteq Nat
        BY <3>1, <3>3 DEF Lists
      <4>2. PICK i \in places : \A j \in places : i <= j
        <5> HIDE DEF places
        <5> QED
          BY <4>1, LeastElement
      <4>3. ASSUME NEW d \in Deps(ordered[i]) \cap S PROVE FALSE
        <5>1. PICK j \in 1 .. i - 1 : ordered[j] = d
          BY <3>1, <4>2, <4>3 DEF Dependent
        <5>2. j \in DOMAIN ordered /\ j < i
          BY <3>1, <4>2, <5>1
        <5>3. j \in places
          BY <4>3, <5>1, <5>2
        <5> QED
          BY <3>1, <4>2, <5>2, <5>3
      <4> QED
        BY <4>2, <4>3
    <3> QED
      BY <3>2, <3>3
  <2>2. ASSUME found # << >> PROVE ~ GraphIsAcyclic
    <3> DEFINE m == Len(found) - 1
    <3> DEFINE S == {found[i] : i \in 1 .. m}
    <3>1. /\ found \in Seq(Nodes) /\ m \in Nat /\ m > 0 /\ found[1] = found[m + 1]
          /\ \A i \in 1 .. m : found[i + 1] \in Deps(found[i])
      BY <2>2 DEF WInv, CycleIsReal, IsCycle, TypeOK
    <3>2. S \in SUBSET Nodes /\ S # {}
      BY <3>1
    <3>3. ASSUME NEW n \in S PROVE Deps(n) \cap S # {}
      <4>1. PICK i \in 1 .. m : found[i] = n
        BY <3>3
      <4>2. found[i + 1] \in S
        <5>1. CASE i = m
          BY <3>1, <5>1
        <5>2. CASE i < m
          BY <3>1, <4>1, <5>2
        <5> QED
          BY <3>1, <5>1, <5>2
      <4> QED
        BY <3>1, <4>1, <4>2
    <3> QED
      BY <3>2, <3>3 DEF GraphIsAcyclic
  <2> QED
    BY <2>1, <2>2 DEF GraphIsAcyclic
<1> QED
  BY <1>1, WalkInvariance, PTL

-----------------------------------------------------------------------------
(*****************************************************************************)
(* References: whatever is declared and referred to, a project is ordered, and*)
(* the two ways of telling what is used agree.                               *)
(*****************************************************************************)

(* A kind refers to kinds of lower layers only.                               *)
Layer == [provider |-> 0, source |-> 0, model |-> 1, tool |-> 1, policy |-> 2, agent |-> 3]

LEMMA LayersDescend ==
    \A k \in DOMAIN Demands : \A l \in Demands[k] :
        l \in DOMAIN Demands /\ Layer[l] \in Nat /\ Layer[k] \in Nat /\ Layer[l] < Layer[k]
BY DEF Layer, Demands

(* What is declared has a kind, and so has what it refers to.                 *)
LEMMA ReferenceFacts ==
    ASSUME NEW p \in Projects
    PROVE  /\ p.declared \subseteq Nodes
           /\ \A n \in p.declared : Kind[n] \in DOMAIN Demands
           /\ \A r \in p.references : /\ r.from \in p.declared /\ r.to \in Nodes
                                      /\ r.demanded \in Demands[Kind[r.from]]
<1>1. /\ p.declared \subseteq {n \in Nodes : Kind[n] # "none"}
      /\ \A r \in p.references : /\ r.from \in p.declared /\ r.to \in Nodes
                                 /\ r.demanded \in Demands[Kind[r.from]]
  BY ProjectsAssumption
<1>2. \A n \in Nodes : Kind[n] # "none" => Kind[n] \in DOMAIN Demands
  BY KindAssumption
<1> QED
  BY <1>1, <1>2

(* require reports every reference that it does not resolve.                  *)
LEMMA CodeFacts ==
    ASSUME NEW p, NEW r
    PROVE  /\ Code(p, r) \in {"LLMF300", "LLMF301", "LLMF305", "none"}
           /\ Code(p, r) = "none" => Resolves(p, r)
BY DEF Code, Resolves

-----------------------------------------------------------------------------
(* The graph is that of the project, and the findings are those of the steps  *)
(* taken so far.                                                             *)
Unused(n) == \E f \in findings : f.at = n /\ f.code \in {"LLMF302", "LLMF303"}

RInv == /\ WInv
        /\ project \in Projects
        /\ graph = Edges(project) /\ roots = Agents(project)
        /\ ReferenceFindings(project) \subseteq findings
        /\ \A n : Unused(n) <=> walk = "done" /\ \E f \in Warnings(project, reachable) : f.at = n

(* The references of a project make a mapping from nodes to nodes.            *)
LEMMA EdgesAreMapping ==
    ASSUME NEW p \in Projects
    PROVE  IsMapping(Edges(p)) /\ Agents(p) \in SUBSET Nodes
<1>1. p.declared \subseteq Nodes /\ \A r \in p.references : r.to \in Nodes
  BY ReferenceFacts
<1>2. DOMAIN Edges(p) = p.declared /\ \A n \in p.declared : Edges(p)[n] \subseteq Nodes
  BY <1>1 DEF Edges
<1> QED
  BY <1>1, <1>2 DEF IsMapping, Agents

LEMMA ResolveInitRInv == ResolveInit => RInv
<1> SUFFICES ASSUME ResolveInit PROVE RInv
  OBVIOUS
<1>1. /\ project \in Projects /\ graph = Edges(project) /\ roots = Agents(project)
      /\ findings = ReferenceFindings(project) /\ WalkInit
  BY DEF ResolveInit
<1>2. WInv
  BY <1>1, EdgesAreMapping, InitWInv
<1>3. \A f \in findings : f.code \in {"LLMF300", "LLMF301", "LLMF305"}
  BY <1>1, CodeFacts DEF ReferenceFindings, Finding
<1>4. walk = "cycle"
  BY <1>1 DEF WalkInit
<1> QED
  BY <1>1, <1>2, <1>3, <1>4 DEF RInv, Unused

(* The warnings come with the step that ends the walks; no other step adds    *)
(* one.                                                                      *)
LEMMA ResolveNextRInv == RInv /\ [ResolveNext]_resolveVars => RInv'
<1> SUFFICES ASSUME RInv, [ResolveNext]_resolveVars PROVE RInv'
  OBVIOUS
<1>1. WInv'
  BY NextWInv DEF RInv, ResolveNext, resolveVars
<1>2. CASE ResolveNext
  <2>1. /\ Next /\ project' = project /\ project # NoProject
        /\ findings' = findings
              \cup (IF found' # found THEN {Finding("LLMF304", found'[1])} ELSE {})
              \cup (IF walk' = "done" THEN Warnings(project, reachable) ELSE {})
    BY <1>2, ProjectsAssumption DEF ResolveNext, RInv
  <2>2. graph' = graph /\ roots' = roots /\ walk # "done"
    BY <2>1 DEF Next, Found, Skip, Enter, Leave, NoCycle, Sorted, Reach, ReachedBefore, Reached,
                ComesTo, mapping
  <2>3. walk' = "done" => reachable' = reachable
    BY <2>1 DEF Next, Found, Skip, Enter, Leave, NoCycle, Sorted, Reach, ReachedBefore, Reached,
                ComesTo
  <2>4. \A n : ~ Unused(n)
    BY <2>2 DEF RInv
  <2>5. \A f \in Warnings(project, reachable) : f.code \in {"LLMF302", "LLMF303"}
    BY DEF Warnings, Finding
  <2>6. Finding("LLMF304", found'[1]).code = "LLMF304"
    BY DEF Finding
  <2>7. ASSUME NEW n
        PROVE  Unused(n)' <=> walk' = "done" /\ \E f \in Warnings(project, reachable) : f.at = n
    BY <2>1, <2>4, <2>5, <2>6 DEF Unused
  <2>8. walk' = "done" => Warnings(project, reachable)' = Warnings(project, reachable)
    BY <2>1, <2>3 DEF Warnings, Attached, Resolves, Agents
  <2>9. ReferenceFindings(project)' = ReferenceFindings(project)
        /\ Edges(project)' = Edges(project) /\ Agents(project)' = Agents(project)
    BY <2>1
  <2> QED
    BY <1>1, <2>1, <2>2, <2>7, <2>8, <2>9 DEF RInv
<1>3. CASE UNCHANGED resolveVars
  BY <1>1, <1>3 DEF RInv, resolveVars, vars, mapping, Unused
<1> QED
  BY <1>2, <1>3

THEOREM ResolveInvariance == ResolveSpec => []RInv
<1> QED
  BY ResolveInitRInv, ResolveNextRInv, PTL DEF ResolveSpec

-----------------------------------------------------------------------------
(* A dependency is a resolved reference.                                      *)
LEMMA DepsAreReferences ==
    ASSUME RInv, NEW n, NEW d \in Deps(n)
    PROVE  /\ n \in project.declared
           /\ \E r \in project.references : r.from = n /\ r.to = d /\ Resolves(project, r)
<1>1. graph = Edges(project)
  BY DEF RInv
<1>2. n \in DOMAIN graph /\ d \in graph[n]
  BY DEF Deps
<1> QED
  BY <1>1, <1>2 DEF Edges

(***************************************************************************)
(* A project has no cycle, since of the nodes on one a node of the lowest    *)
(* layer would depend on one of a lower layer still; and without errors      *)
(* every reference is a dependency, whose target is in front.                *)
(***************************************************************************)
LEMMA NoCycleInAProject ==
    ASSUME RInv
    PROVE  found = << >>
<1> SUFFICES ASSUME found # << >> PROVE FALSE
  OBVIOUS
<1> DEFINE m == Len(found) - 1
<1> DEFINE layers == {Layer[Kind[found[i]]] : i \in 1 .. m}
<1>1. /\ found \in Seq(Nodes) /\ m \in Nat /\ m > 0 /\ found[1] = found[m + 1]
      /\ \A i \in 1 .. m : found[i + 1] \in Deps(found[i])
  <2>1. found \in Seq(Nodes)
    BY DEF RInv, WInv, TypeOK
  <2>2. IsCycle(found)
    BY DEF RInv, WInv, CycleIsReal
  <2> QED
    BY <2>1, <2>2 DEF IsCycle
<1>2. ASSUME NEW i \in 1 .. m
      PROVE  /\ Layer[Kind[found[i]]] \in Nat /\ Layer[Kind[found[i + 1]]] \in Nat
             /\ Layer[Kind[found[i + 1]]] < Layer[Kind[found[i]]]
  <2>1. found[i + 1] \in Deps(found[i])
    BY <1>1
  <2>2. PICK r \in project.references :
           r.from = found[i] /\ r.to = found[i + 1] /\ Resolves(project, r)
    BY <2>1, DepsAreReferences
  <2>3. project \in Projects
    BY DEF RInv
  <2>4. Kind[found[i]] \in DOMAIN Demands /\ Kind[found[i + 1]] \in Demands[Kind[found[i]]]
    BY <2>2, <2>3, ReferenceFacts DEF Resolves
  <2> QED
    BY <2>4, LayersDescend
<1>3. layers \subseteq Nat /\ layers # {}
  <2>1. 1 \in 1 .. m
    BY <1>1
  <2>2. Layer[Kind[found[1]]] \in layers
    BY <2>1
  <2>3. ASSUME NEW l \in layers PROVE l \in Nat
    <3>1. PICK i \in 1 .. m : l = Layer[Kind[found[i]]]
      OBVIOUS
    <3> QED
      BY <1>2, <3>1
  <2> QED
    BY <2>2, <2>3
<1>4. PICK low \in layers : \A l \in layers : low <= l
  <2> HIDE DEF layers
  <2> QED
    BY <1>3, LeastElement
<1>5. PICK i \in 1 .. m : low = Layer[Kind[found[i]]]
  OBVIOUS
<1>6. Layer[Kind[found[i + 1]]] \in layers
  <2>1. CASE i = m
    <3>1. found[i + 1] = found[1] /\ 1 \in 1 .. m
      BY <1>1, <2>1
    <3> QED
      BY <3>1
  <2>2. CASE i < m
    <3>1. i + 1 \in 1 .. m
      BY <1>1, <2>2
    <3> QED
      BY <3>1
  <2> QED
    BY <1>1, <2>1, <2>2
<1> QED
  <2> HIDE DEF layers
  <2> QED
    BY <1>2, <1>4, <1>5, <1>6

LEMMA OrderOfRInv == RInv => ProjectsAreOrdered
<1> SUFFICES ASSUME RInv, Walked
             PROVE  /\ found = << >>
                    /\ Valid => \A r \in project.references :
                                   \E i, j \in DOMAIN ordered :
                                       i < j /\ ordered[i] = r.to /\ ordered[j] = r.from
  BY DEF ProjectsAreOrdered
<1>1. found = << >>
  BY NoCycleInAProject
<1>2. ASSUME Valid, NEW r \in project.references
      PROVE  \E i, j \in DOMAIN ordered : i < j /\ ordered[i] = r.to /\ ordered[j] = r.from
  <2>1. project \in Projects /\ graph = Edges(project) /\ ReferenceFindings(project) \subseteq findings
    BY DEF RInv
  <2>2. Resolves(project, r)
    <3> SUFFICES ASSUME Code(project, r) # "none" PROVE FALSE
      BY CodeFacts
    <3>1. Finding(Code(project, r), r.from) \in findings
      BY <2>1 DEF ReferenceFindings
    <3>2. Finding(Code(project, r), r.from).code \in Errors
      BY CodeFacts DEF Finding, Errors
    <3> QED
      BY <1>2, <3>1, <3>2 DEF Valid
  <2>3. r.from \in project.declared
    BY <2>1, ReferenceFacts
  <2>4. r.from \in DOMAIN graph /\ r.to \in Deps(r.from)
    BY <2>1, <2>2, <2>3 DEF Edges, Deps
  <2>5. /\ Dependent(ordered) /\ Lists(ordered, DOMAIN graph)
        /\ ordered \in Seq(Nodes)
    BY <1>1 DEF RInv, WInv, OrderIsTopological, TypeOK
  <2>6. PICK j \in DOMAIN ordered : ordered[j] = r.from
    BY <2>4, <2>5 DEF Lists
  <2>7. PICK i \in 1 .. j - 1 : ordered[i] = r.to
    BY <2>4, <2>5, <2>6 DEF Dependent
  <2>8. i \in DOMAIN ordered /\ i < j
    BY <2>5, <2>6, <2>7
  <2> QED
    BY <2>6, <2>7, <2>8
<1> QED
  BY <1>1, <1>2

THEOREM ProjectsHaveAnOrder == ResolveSpec => []ProjectsAreOrdered
<1> QED
  BY ResolveInvariance, OrderOfRInv, PTL

(***************************************************************************)
(* Only agents refer to policies, and all agents are roots: so what is        *)
(* reached of the policies is what agents attach.                            *)
(***************************************************************************)
LEMMA ReachedPoliciesAreAttached ==
    ASSUME RInv, walk = "done", NEW n \in project.declared, Kind[n] = "policy"
    PROVE  n \in reachable <=> n \in Attached(project)
<1>1. /\ project \in Projects /\ graph = Edges(project) /\ roots = Agents(project)
      /\ roots \subseteq reachable /\ Closed(reachable)
      /\ \A S \in SUBSET Nodes : roots \subseteq S /\ Closed(S) => reachable \subseteq S
  BY ReachableOfWInv DEF RInv, ReachableIsExact
<1>2. project.declared \subseteq Nodes
  BY <1>1, ReferenceFacts
<1>3. ASSUME n \in Attached(project) PROVE n \in reachable
  <2>1. PICK r \in project.references : /\ r.from \in Agents(project) /\ r.to = n
                                        /\ Resolves(project, r)
    BY <1>3 DEF Attached
  <2>2. r.from \in DOMAIN graph /\ n \in Deps(r.from)
    BY <1>1, <2>1 DEF Edges, Deps, Agents
  <2>3. r.from \in reachable
    BY <1>1, <2>1
  <2> QED
    BY <1>1, <2>2, <2>3 DEF Closed
<1>4. ASSUME n \in reachable PROVE n \in Attached(project)
  <2> DEFINE S == {q \in Nodes : Kind[q] = "policy" => q \in Attached(project)}
  <2>1. roots \subseteq S
    BY <1>1, <1>2 DEF Agents
  <2>2. ASSUME NEW q \in S, NEW d \in Deps(q) PROVE d \in S
    <3>1. PICK r \in project.references :
             q \in project.declared /\ r.from = q /\ r.to = d /\ Resolves(project, r)
      BY DepsAreReferences
    <3>2. /\ Kind[q] \in DOMAIN Demands /\ d \in Nodes
          /\ r.demanded \in Demands[Kind[q]] /\ Kind[d] = r.demanded
      BY <1>1, <3>1, ReferenceFacts DEF Resolves
    <3>3. ASSUME Kind[d] = "policy" PROVE d \in Attached(project)
      <4>1. Kind[q] = "agent"
        BY <3>2, <3>3 DEF Demands
      <4> QED
        BY <3>1, <3>2, <3>3, <4>1 DEF Attached, Agents
    <3> QED
      BY <3>2, <3>3
  <2>3. Closed(S) /\ S \in SUBSET Nodes
    BY <2>2 DEF Closed
  <2>4. n \in S
    BY <1>1, <1>4, <2>1, <2>3
  <2> QED
    BY <2>4
<1> QED
  BY <1>3, <1>4

LEMMA UnusedOfRInv == RInv => UnusedIsUnreachable
<1> SUFFICES ASSUME RInv, walk = "done", NEW n \in project.declared \ Agents(project)
             PROVE  n \notin reachable <=> Unused(n)
  BY DEF UnusedIsUnreachable, Unused
<1>1. Unused(n) <=> \E f \in Warnings(project, reachable) : f.at = n
  BY DEF RInv
<1>2. (\E f \in Warnings(project, reachable) : f.at = n)
         <=> \/ Kind[n] = "policy" /\ n \notin Attached(project)
             \/ Kind[n] \notin {"policy", "agent"} /\ n \notin reachable
  <2> DEFINE P == {q \in project.declared : Kind[q] = "policy" /\ q \notin Attached(project)}
  <2> DEFINE Q == {q \in project.declared : Kind[q] \notin {"policy", "agent"} /\ q \notin reachable}
  <2>1. (\E f \in Warnings(project, reachable) : f.at = n) <=> n \in P \/ n \in Q
    <3>1. Warnings(project, reachable)
            = {Finding("LLMF302", q) : q \in P} \cup {Finding("LLMF303", q) : q \in Q}
      BY DEF Warnings
    <3>2. \A code, q : Finding(code, q).at = q
      BY DEF Finding
    <3> HIDE DEF P, Q
    <3> QED
      BY <3>1, <3>2
  <2> QED
    BY <2>1
<1>3. Kind[n] # "agent"
  BY DEF Agents
<1>4. Kind[n] = "policy" => (n \in reachable <=> n \in Attached(project))
  BY ReachedPoliciesAreAttached
<1> QED
  BY <1>1, <1>2, <1>3, <1>4

THEOREM UnusedResourcesAreUnreachable == ResolveSpec => []UnusedIsUnreachable
<1> QED
  BY ResolveInvariance, UnusedOfRInv, PTL

-----------------------------------------------------------------------------
(*****************************************************************************)
(* SchemaCompiler: what compile returns decides the profile, for every       *)
(* document, although the compiler forgets where it failed.                  *)
(*****************************************************************************)

(* The definitions of the module, of a document that is given.               *)
Shape(d, o) == IF o = Root THEN d.root ELSE d.defs[o]
Refs(d, o) == {Shape(d, o).refs[i] : i \in DOMAIN Shape(d, o).refs}
Clean(d, o) == ~ Shape(d, o).marked /\ Shape(d, o).form # "untyped"

Calls == [of : Names \cup {Root}, left : Seq(Names \cup {Foreign}), typed : BOOLEAN]
LeftOf(call) == {call.left[k] : k \in DOMAIN call.left}
Known(m) == {m[p] : p \in 1 .. Len(m)}
Active(calls) == {calls[i].of : i \in 1 .. Len(calls)}

(* The last call comes to a reference.                                       *)
Advanced(calls) == [calls EXCEPT ![Len(calls)].left = Tail(@)]

(* The last call is gone.                                                    *)
Below(calls) == SubSeq(calls, 1, Len(calls) - 1)

(* Each call is for a definition that the one before refers to.              *)
Descending(d, calls) ==
    \A i \in 1 .. Len(calls) :
        /\ calls[i].of \in DOMAIN d.defs \cup {Root}
        /\ LeftOf(calls[i]) \subseteq Refs(d, calls[i].of)
        /\ i > 1 => calls[i].of \in DOMAIN d.defs /\ calls[i].of \in Refs(d, calls[i - 1].of)

(* What a call is through with is known, but for what it waits for; the last  *)
(* one may be about to come to next.                                         *)
Through(d, calls, known, next) ==
    \A i \in 1 .. Len(calls) :
        /\ calls[i].typed /\ Clean(d, calls[i].of)
        /\ Refs(d, calls[i].of) \subseteq
              LeftOf(calls[i]) \cup known \cup (IF i < Len(calls) THEN {calls[i + 1].of} ELSE next)

(* The memo has a definition behind those that it refers to.                 *)
Layered(d, m) ==
    \A p \in 1 .. Len(m) :
        /\ m[p] \in DOMAIN d.defs /\ Clean(d, m[p])
        /\ \A r \in Refs(d, m[p]) : \E q \in 1 .. Len(m) : q < p /\ m[q] = r

TypeInv == /\ document \in Documents
           /\ todo \subseteq DOMAIN Defs
           /\ nodes \in Seq(Calls)
           /\ memo \in Seq(Names)
           /\ attempted \subseteq Names
           /\ compiled \in BOOLEAN

Accounted == /\ attempted \subseteq Known(memo) \cup Active(nodes)
             /\ DOMAIN Defs \subseteq todo \cup Known(memo) \cup Active(nodes)

Rooted == \/ nodes # << >> /\ nodes[1].of = Root
          \/ rootTyped /\ Clean(document, Root) /\ Refs(document, Root) \subseteq Known(memo)

(* As long as nothing was reported, nothing went without a type.             *)
Silent == /\ Through(document, nodes, Known(memo), {})
          /\ Layered(document, memo)
          /\ Accounted /\ Rooted
          /\ lost = {}

CInv == /\ TypeInv
        /\ Descending(document, nodes)
        /\ reports # {} => ~ InProfile
        /\ reports = {} => Silent
        /\ compiled => nodes = << >> /\ todo = {}

-----------------------------------------------------------------------------
(* What IsDocument says of an owner.                                         *)
LEMMA DocumentsAreTyped ==
    ASSUME NEW d \in Documents
    PROVE  /\ DOMAIN d.defs \subseteq Names /\ Root \notin DOMAIN d.defs
           /\ \A o \in DOMAIN d.defs \cup {Root} :
                 /\ Shape(d, o) \in Shapes
                 /\ Shape(d, o).refs \in Seq(Names \cup {Foreign})
<1>1. IsDocument(d)
  BY DocumentsAssumption
<1>2. DOMAIN d.defs \subseteq Names /\ Root \notin DOMAIN d.defs
  BY <1>1, DocumentsAssumption DEF IsDocument
<1>3. ASSUME NEW o \in DOMAIN d.defs \cup {Root} PROVE Shape(d, o) \in Shapes
  BY <1>1, <1>2 DEF IsDocument, WellShaped, Shape
<1>4. \A s \in Shapes : s.refs \in Seq(Names \cup {Foreign})
  BY DEF Shapes
<1> QED
  BY <1>2, <1>3, <1>4

LEMMA Consuming ==
    ASSUME NEW calls \in Seq(Calls), calls # << >>, calls[Len(calls)].left # << >>
    PROVE  /\ Advanced(calls) \in Seq(Calls) /\ Len(Advanced(calls)) = Len(calls)
           /\ \A i \in 1 .. Len(calls) : /\ Advanced(calls)[i].of = calls[i].of
                                         /\ Advanced(calls)[i].typed = calls[i].typed
                                         /\ LeftOf(Advanced(calls)[i]) \subseteq LeftOf(calls[i])
                                         /\ i < Len(calls) => Advanced(calls)[i] = calls[i]
           /\ LeftOf(calls[Len(calls)]) =
                 LeftOf(Advanced(calls)[Len(calls)]) \cup {Head(calls[Len(calls)].left)}
<1> DEFINE n == Len(calls)
           call == calls[n]
           less == [call EXCEPT !.left = Tail(@)]
<1>1. n \in Nat \ {0} /\ n \in 1 .. n /\ call \in Calls
  BY EmptySeq, ElementOfSeq
<1>2. call.left \in Seq(Names \cup {Foreign}) /\ call.left # << >>
  BY <1>1 DEF Calls
<1>3. /\ less \in Calls /\ less.of = call.of /\ less.typed = call.typed
      /\ less.left = Tail(call.left)
  BY <1>1, <1>2, HeadTailProperties DEF Calls
<1>4. LeftOf(call) = LeftOf(less) \cup {Head(call.left)}
  <2> DEFINE s == call.left
             t == Tail(s)
  <2>1. /\ t \in Seq(Names \cup {Foreign}) /\ Len(t) = Len(s) - 1 /\ Len(s) \in Nat
        /\ \A i \in 1 .. Len(t) : t[i] = s[i + 1]
    BY <1>2, HeadTailProperties
  <2>2. Len(s) > 0 /\ Head(s) = s[1]
    BY <1>2
  <2>3. DOMAIN s = 1 .. Len(s) /\ DOMAIN t = 1 .. Len(s) - 1
    BY <1>2, <2>1
  <2> HIDE DEF t
  <2>4. \A i \in DOMAIN t : i + 1 \in DOMAIN s /\ t[i] = s[i + 1]
    BY <2>1, <2>2, <2>3
  <2>5. \A k \in DOMAIN s : k = 1 \/ (k - 1 \in DOMAIN t /\ t[k - 1] = s[k])
    BY <2>1, <2>2, <2>3
  <2>6. 1 \in DOMAIN s /\ less.left = t
    BY <1>3, <2>2, <2>3 DEF t
  <2> HIDE DEF s, less, call
  <2>7. LeftOf(less) \cup {Head(s)} \subseteq {s[k] : k \in DOMAIN s}
    BY <2>2, <2>4, <2>6 DEF LeftOf
  <2>8. {s[k] : k \in DOMAIN s} \subseteq LeftOf(less) \cup {Head(s)}
    BY <2>2, <2>5, <2>6 DEF LeftOf
  <2> QED
    BY <2>7, <2>8 DEF LeftOf, s
<1>5. Advanced(calls) = [calls EXCEPT ![n] = less]
  BY DEF Advanced
<1> HIDE DEF less
<1>6. less \in Calls
  BY <1>3
<1>7. /\ Advanced(calls) \in Seq(Calls) /\ Len(Advanced(calls)) = n
      /\ \A i \in 1 .. n : Advanced(calls)[i] = IF i = n THEN less ELSE calls[i]
  <2>1. n \in 1 .. Len(calls)
    BY <1>1
  <2> HIDE DEF n, call
  <2>2. /\ [calls EXCEPT ![n] = less] \in Seq(Calls)
        /\ Len([calls EXCEPT ![n] = less]) = Len(calls)
        /\ \A i \in 1 .. Len(calls) :
              [calls EXCEPT ![n] = less][i] = IF i = n THEN less ELSE calls[i]
    BY <1>6, <2>1, ExceptSeq
  <2> QED
    BY <1>5, <2>2 DEF n
<1>8. Advanced(calls)[n] = less /\ \A i \in 1 .. n : i # n => Advanced(calls)[i] = calls[i]
  BY <1>1, <1>7
<1>9. LeftOf(less) \subseteq LeftOf(call)
  BY <1>4
<1> HIDE DEF call
<1>10. \A i \in 1 .. n :
          /\ Advanced(calls)[i].of = calls[i].of
          /\ Advanced(calls)[i].typed = calls[i].typed
          /\ LeftOf(Advanced(calls)[i]) \subseteq LeftOf(calls[i])
          /\ i < n => Advanced(calls)[i] = calls[i]
  <2> SUFFICES ASSUME NEW i \in 1 .. n
               PROVE  /\ Advanced(calls)[i].of = calls[i].of
                      /\ Advanced(calls)[i].typed = calls[i].typed
                      /\ LeftOf(Advanced(calls)[i]) \subseteq LeftOf(calls[i])
                      /\ i < n => Advanced(calls)[i] = calls[i]
    OBVIOUS
  <2>3. less.of = call.of /\ less.typed = call.typed
    BY <1>3
  <2>1. CASE i = n
    <3> HIDE DEF n
    <3>1. Advanced(calls)[i] = less /\ calls[i] = call
      BY <1>8, <2>1 DEF call
    <3>2. ~ (i < n)
      BY <1>1, <2>1
    <3> QED
      BY <1>9, <2>3, <3>1, <3>2
  <2>2. CASE i # n
    BY <1>8, <2>2
  <2> QED
    BY <2>1, <2>2
<1>11. LeftOf(calls[n]) = LeftOf(Advanced(calls)[n]) \cup {Head(calls[n].left)}
  BY <1>4, <1>8 DEF call
<1> QED
  BY <1>7, <1>10, <1>11

(* It goes on without a type.                                                *)
LEMMA Untyping ==
    ASSUME NEW calls \in Seq(Calls)
    PROVE  /\ WithoutType(calls) \in Seq(Calls) /\ Len(WithoutType(calls)) = Len(calls)
           /\ \A i \in 1 .. Len(calls) : /\ WithoutType(calls)[i].of = calls[i].of
                                         /\ WithoutType(calls)[i].left = calls[i].left
<1>1. CASE calls = << >>
  BY <1>1 DEF WithoutType
<1>2. CASE calls # << >>
  <2> DEFINE n == Len(calls)
             b == calls[n].typed /\ ShapeOf(calls[n].of).form # "wrapper"
             call == [calls[n] EXCEPT !.typed = b]
  <2>1. n \in 1 .. n /\ calls[n] \in Calls
    BY <1>2, EmptySeq, ElementOfSeq
  <2>2. b \in BOOLEAN
    OBVIOUS
  <2>3. WithoutType(calls) = [calls EXCEPT ![n] = call]
    BY <1>2 DEF WithoutType
  <2> HIDE DEF b
  <2>4. call \in Calls /\ call.of = calls[n].of /\ call.left = calls[n].left
    BY <2>1, <2>2 DEF Calls
  <2> HIDE DEF call
  <2> QED
    BY <2>1, <2>3, <2>4, ExceptSeq
<1> QED
  BY <1>1, <1>2

(* Calls that have less left still descend.                                  *)
LEMMA StillDescending ==
    ASSUME NEW d, NEW calls, NEW new, Descending(d, calls), Len(new) = Len(calls), Len(calls) \in Nat,
           \A i \in 1 .. Len(calls) : /\ new[i].of = calls[i].of
                                      /\ LeftOf(new[i]) \subseteq LeftOf(calls[i])
    PROVE  Descending(d, new) /\ Active(new) = Active(calls)
<1>1. Active(new) = Active(calls)
  BY DEF Active
<1>2. ASSUME NEW i \in 1 .. Len(new)
      PROVE  /\ new[i].of \in DOMAIN d.defs \cup {Root}
             /\ LeftOf(new[i]) \subseteq Refs(d, new[i].of)
             /\ i > 1 => new[i].of \in DOMAIN d.defs /\ new[i].of \in Refs(d, new[i - 1].of)
  <2>1. i > 1 => i - 1 \in 1 .. Len(calls)
    OBVIOUS
  <2> QED
    BY <1>2, <2>1 DEF Descending
<1> QED
  BY <1>1, <1>2 DEF Descending

LEMMA Advancing ==
    ASSUME NEW d, NEW calls \in Seq(Calls), calls # << >>, calls[Len(calls)].left # << >>,
           Descending(d, calls)
    PROVE  /\ Descending(d, Advanced(calls)) /\ Active(Advanced(calls)) = Active(calls)
           /\ Head(calls[Len(calls)].left) \in Refs(d, calls[Len(calls)].of)
           /\ \A known : Through(d, calls, known, {}) =>
                            Through(d, Advanced(calls), known, {Head(calls[Len(calls)].left)})
<1> DEFINE n == Len(calls)
           r == Head(calls[n].left)
<1>1. n \in Nat /\ n \in 1 .. n
  BY EmptySeq
<1>2. Descending(d, Advanced(calls)) /\ Active(Advanced(calls)) = Active(calls)
  <2>1. /\ Len(Advanced(calls)) = n
        /\ \A i \in 1 .. n : /\ Advanced(calls)[i].of = calls[i].of
                             /\ LeftOf(Advanced(calls)[i]) \subseteq LeftOf(calls[i])
    BY Consuming
  <2> QED
    BY <1>1, <2>1, StillDescending
<1>3. LeftOf(calls[n]) = LeftOf(Advanced(calls)[n]) \cup {r}
  BY Consuming
<1>4. r \in Refs(d, calls[n].of)
  <2>1. LeftOf(calls[n]) \subseteq Refs(d, calls[n].of)
    BY <1>1 DEF Descending
  <2> QED
    BY <1>3, <2>1
<1>5. ASSUME NEW known, Through(d, calls, known, {})
      PROVE  Through(d, Advanced(calls), known, {r})
  <2> DEFINE new == Advanced(calls)
  <2>1. /\ Len(new) = n
        /\ \A i \in 1 .. n : /\ new[i].of = calls[i].of
                             /\ new[i].typed = calls[i].typed
                             /\ (i < n => new[i] = calls[i])
    BY Consuming
  <2> HIDE DEF new, r
  <2>2. ASSUME NEW i \in 1 .. n
        PROVE  /\ new[i].typed /\ Clean(d, new[i].of)
               /\ Refs(d, new[i].of) \subseteq
                     LeftOf(new[i]) \cup known \cup (IF i < n THEN {new[i + 1].of} ELSE {r})
    <3>1. /\ calls[i].typed /\ Clean(d, calls[i].of)
          /\ Refs(d, calls[i].of) \subseteq
                LeftOf(calls[i]) \cup known \cup (IF i < n THEN {calls[i + 1].of} ELSE {})
      BY <1>5 DEF Through
    <3>2. CASE i < n
      <4>1. i + 1 \in 1 .. n
        BY <1>1, <3>2
      <4> QED
        BY <2>1, <3>1, <3>2, <4>1
    <3>3. CASE i = n
      <4>1. LeftOf(calls[i]) = LeftOf(new[i]) \cup {r} /\ ~ (i < n)
        BY <1>1, <1>3, <3>3 DEF new
      <4> QED
        BY <2>1, <3>1, <4>1
    <3> QED
      BY <1>1, <3>2, <3>3
  <2> QED
    BY <2>1, <2>2 DEF Through, new
<1> QED
  BY <1>2, <1>4, <1>5

(* A definition is compiled on behalf of the last call.                      *)
LEMMA Pushing ==
    ASSUME NEW d, NEW calls \in Seq(Calls), NEW call \in Calls, Descending(d, calls),
           call.of \in DOMAIN d.defs, LeftOf(call) = Refs(d, call.of),
           calls # << >> => call.of \in Refs(d, calls[Len(calls)].of)
    PROVE  /\ Append(calls, call) \in Seq(Calls)
           /\ Descending(d, Append(calls, call))
           /\ Active(Append(calls, call)) = Active(calls) \cup {call.of}
           /\ \A known : /\ Through(d, calls, known, {call.of})
                         /\ call.typed /\ Clean(d, call.of)
                         => Through(d, Append(calls, call), known, {})
<1> DEFINE n == Len(calls)
           new == Append(calls, call)
<1>1. /\ new \in Seq(Calls) /\ Len(new) = n + 1 /\ n \in Nat
      /\ \A i \in 1 .. n : new[i] = calls[i]
      /\ new[n + 1] = call
  BY AppendProperties
<1> HIDE DEF new
<1>2. \A i \in 1 .. n + 1 : i \in 1 .. n \/ i = n + 1
  BY <1>1
<1>3. n + 1 \in 1 .. n + 1 /\ \A i \in 1 .. n : i \in 1 .. n + 1
  BY <1>1
<1>4. Descending(d, new)
  <2> SUFFICES ASSUME NEW i \in 1 .. n + 1
               PROVE  /\ new[i].of \in DOMAIN d.defs \cup {Root}
                      /\ LeftOf(new[i]) \subseteq Refs(d, new[i].of)
                      /\ i > 1 => new[i].of \in DOMAIN d.defs /\ new[i].of \in Refs(d, new[i - 1].of)
    BY <1>1 DEF Descending
  <2>1. CASE i \in 1 .. n
    <3>1. i > 1 => i - 1 \in 1 .. n
      BY <1>1, <2>1
    <3> QED
      BY <1>1, <2>1, <3>1 DEF Descending
  <2>2. CASE i = n + 1
    <3>1. i > 1 => n \in 1 .. n /\ i - 1 = n /\ calls # << >>
      BY <1>1, <2>2
    <3> QED
      BY <1>1, <2>2, <3>1
  <2> QED
    BY <1>2, <2>1, <2>2
<1>5. Active(new) = Active(calls) \cup {call.of}
  <2>1. \A i \in 1 .. n + 1 : new[i].of \in Active(calls) \cup {call.of}
    BY <1>1, <1>2 DEF Active
  <2>2. \A i \in 1 .. n : calls[i].of \in {new[j].of : j \in 1 .. n + 1}
    BY <1>1, <1>3
  <2>3. call.of \in {new[j].of : j \in 1 .. n + 1}
    BY <1>1, <1>3
  <2> QED
    BY <1>1, <2>1, <2>2, <2>3 DEF Active
<1>6. ASSUME NEW known, Through(d, calls, known, {call.of}), call.typed, Clean(d, call.of)
      PROVE  Through(d, new, known, {})
  <2> SUFFICES ASSUME NEW i \in 1 .. n + 1
               PROVE  /\ new[i].typed /\ Clean(d, new[i].of)
                      /\ Refs(d, new[i].of) \subseteq
                            LeftOf(new[i]) \cup known
                               \cup (IF i < n + 1 THEN {new[i + 1].of} ELSE {})
    BY <1>1 DEF Through
  <2>1. CASE i \in 1 .. n
    <3>1. /\ calls[i].typed /\ Clean(d, calls[i].of)
          /\ Refs(d, calls[i].of) \subseteq
                LeftOf(calls[i]) \cup known \cup (IF i < n THEN {calls[i + 1].of} ELSE {call.of})
      BY <1>6, <2>1 DEF Through
    <3>2. new[i + 1].of = IF i < n THEN calls[i + 1].of ELSE call.of
      <4>1. CASE i < n
        BY <1>1, <2>1, <4>1
      <4>2. CASE i = n
        BY <1>1, <4>2
      <4> QED
        BY <1>1, <2>1, <4>1, <4>2
    <3>3. new[i] = calls[i] /\ i < n + 1
      BY <1>1, <2>1
    <3> QED
      BY <3>1, <3>2, <3>3
  <2>2. CASE i = n + 1
    BY <1>1, <1>6, <2>2
  <2> QED
    BY <1>2, <2>1, <2>2
<1> QED
  BY <1>1, <1>4, <1>5, <1>6 DEF new

(* The last call returns.                                                    *)
LEMMA Popping ==
    ASSUME NEW d, NEW calls \in Seq(Calls), calls # << >>, Descending(d, calls)
    PROVE  /\ Below(calls) \in Seq(Calls) /\ Len(Below(calls)) = Len(calls) - 1
           /\ \A i \in 1 .. Len(Below(calls)) : Below(calls)[i] = calls[i]
           /\ Descending(d, Below(calls))
           /\ Active(calls) = Active(Below(calls)) \cup {calls[Len(calls)].of}
           /\ \A known :
                 Through(d, calls, known, {}) /\ LeftOf(calls[Len(calls)]) = {} =>
                    /\ Through(d, Below(calls), known \cup {calls[Len(calls)].of}, {})
                    /\ Refs(d, calls[Len(calls)].of) \subseteq known
<1> DEFINE n == Len(calls)
           below == Below(calls)
<1>1. n \in Nat \ {0} /\ n \in 1 .. n /\ n - 1 \in Nat
  BY EmptySeq
<1>2. \A i \in 1 .. n : calls[i] \in Calls
  BY ElementOfSeq
<1>3. /\ below \in Seq(Calls) /\ Len(below) = n - 1
      /\ \A i \in 1 .. n - 1 : below[i] = calls[i]
  <2> DEFINE k == n - 1
  <2>1. k \in Nat /\ k \in Int /\ 1 \in Int
    BY <1>1
  <2>2. \A i \in 1 .. k : calls[i] \in Calls
    BY <1>1, <1>2
  <2>3. below = SubSeq(calls, 1, k)
    BY DEF below, Below
  <2> HIDE DEF k
  <2>4. /\ below \in Seq(Calls)
        /\ Len(below) = IF 1 <= k THEN k - 1 + 1 ELSE 0
        /\ \A i \in 1 .. k - 1 + 1 : below[i] = calls[1 + i - 1]
    <3>1. /\ SubSeq(calls, 1, k) \in Seq(Calls)
          /\ Len(SubSeq(calls, 1, k)) = IF 1 <= k THEN k - 1 + 1 ELSE 0
          /\ \A i \in 1 .. k - 1 + 1 : SubSeq(calls, 1, k)[i] = calls[1 + i - 1]
      BY <2>1, <2>2, SubSeqProperties
    <3> QED
      BY <2>3, <3>1
  <2>5. Len(below) = k /\ k - 1 + 1 = k /\ \A i \in 1 .. k : 1 + i - 1 = i
    BY <2>1, <2>4
  <2> QED
    BY <2>4, <2>5 DEF k
<1>4. \A i \in 1 .. n - 1 : i \in 1 .. n /\ i < n /\ (i > 1 => i - 1 \in 1 .. n - 1)
  BY <1>1
<1>5. \A i \in 1 .. n : i \in 1 .. n - 1 \/ i = n
  BY <1>1
<1>6. Descending(d, below)
  BY <1>3, <1>4 DEF Descending
<1>7. Active(calls) = Active(below) \cup {calls[n].of}
  BY <1>1, <1>3, <1>4, <1>5 DEF Active
<1>8. ASSUME NEW known, Through(d, calls, known, {}), LeftOf(calls[n]) = {}
      PROVE  Through(d, below, known \cup {calls[n].of}, {}) /\ Refs(d, calls[n].of) \subseteq known
  <2>1. Refs(d, calls[n].of) \subseteq known
    BY <1>1, <1>8 DEF Through
  <2>2. ASSUME NEW i \in 1 .. n - 1
        PROVE  /\ below[i].typed /\ Clean(d, below[i].of)
               /\ Refs(d, below[i].of) \subseteq
                     LeftOf(below[i]) \cup (known \cup {calls[n].of})
                        \cup (IF i < n - 1 THEN {below[i + 1].of} ELSE {})
    <3>1. /\ calls[i].typed /\ Clean(d, calls[i].of)
          /\ Refs(d, calls[i].of) \subseteq LeftOf(calls[i]) \cup known \cup {calls[i + 1].of}
      BY <1>4, <1>8 DEF Through
    <3>2. calls[i + 1].of = IF i < n - 1 THEN below[i + 1].of ELSE calls[n].of
      <4>1. CASE i < n - 1
        BY <1>1, <1>3, <4>1
      <4>2. CASE i = n - 1
        BY <1>1, <4>2
      <4> QED
        BY <1>1, <4>1, <4>2
    <3> QED
      BY <1>3, <3>1, <3>2
  <2> QED
    BY <1>3, <2>1, <2>2 DEF Through
<1> QED
  BY <1>3, <1>6, <1>7, <1>8

-----------------------------------------------------------------------------
(* The operators of the module are those above, for the document.            *)
LEMMA OfTheDocument ==
    /\ Owners = DOMAIN document.defs \cup {Root}
    /\ \A o : RefsOf(o) = Refs(document, o)
    /\ \A o : Remarks(o) = {} <=> Clean(document, o)
<1>1. \A o : ShapeOf(o) = Shape(document, o)
  BY DEF ShapeOf, Shape, Defs
<1>2. \A o : RefsOf(o) = Refs(document, o)
  BY <1>1 DEF RefsOf, Refs
<1>3. ASSUME NEW o PROVE Remarks(o) = {} <=> Clean(document, o)
  <2>1. CASE Clean(document, o)
    BY <1>1, <2>1 DEF Remarks, Clean
  <2>2. CASE ~ Clean(document, o)
    BY <1>1, <2>2 DEF Remarks, Clean
  <2> QED
    BY <2>1, <2>2
<1> QED
  BY <1>2, <1>3 DEF Owners, Defs

LEMMA OfNames ==
    /\ \A r : IsActiveRef(r) <=> r \in {nodes[i].of : i \in DOMAIN nodes}
    /\ \A r : InMemo(r) <=> r \in {memo[i] : i \in DOMAIN memo}
BY DEF IsActiveRef, InMemo

(* A definition that is asked for while it is active is on a circle.         *)
LEMMA CirclesAreReal ==
    ASSUME TypeInv, Descending(document, nodes), nodes # << >>,
           NEW r \in Names, IsActiveRef(r), r \in Refs(document, Caller.of)
    PROVE  ~ Acyclic
<1> DEFINE n == Len(nodes)
<1>1. n \in Nat /\ DOMAIN nodes = 1 .. n /\ n \in 1 .. n
  BY LenProperties, EmptySeq DEF TypeInv
<1>2. PICK i \in 1 .. n : nodes[i].of = r
  BY <1>1 DEF IsActiveRef
<1> DEFINE S == {nodes[j].of : j \in i .. n}
<1>3. \A j \in i .. n : j \in 1 .. n /\ (j # i => j > 1)
  BY <1>1
<1>4. S \subseteq DOMAIN Defs
  <2>1. r # Root
    BY DocumentsAssumption
  <2>2. nodes[i].of \in DOMAIN document.defs
    BY <1>2, <2>1 DEF Descending
  <2>3. \A j \in i .. n : j # i => nodes[j].of \in DOMAIN document.defs
    BY <1>3 DEF Descending
  <2> QED
    BY <2>2, <2>3 DEF Defs
<1>5. r \in S
  BY <1>1, <1>2
<1>6. ASSUME NEW j \in i .. n PROVE Refs(document, nodes[j].of) \cap S # {}
  <2>1. CASE j = n
    BY <1>5, <2>1 DEF Caller
  <2>2. CASE j # n
    <3> DEFINE k == j + 1
    <3>1. k \in 1 .. n /\ k > 1 /\ k - 1 = j /\ k \in i .. n
      <4> HIDE DEF n, S
      <4>1. i \in Nat /\ j \in Nat /\ 1 <= i /\ i <= j /\ j <= n
        BY <1>1
      <4> QED
        BY <1>1, <2>2, <4>1
    <3> HIDE DEF k
    <3>2. nodes[k].of \in Refs(document, nodes[k - 1].of)
      BY <3>1 DEF Descending
    <3> QED
      BY <3>1, <3>2
  <2> QED
    BY <2>1, <2>2
<1>7. \A o \in S : RefsOf(o) \cap S # {}
  BY <1>6, OfTheDocument
<1> HIDE DEF S
<1> QED
  BY <1>4, <1>5, <1>7 DEF Acyclic

(* Definitions in layers make no circle.                                     *)
LEMMA LayersMakeNoCircle ==
    ASSUME memo \in Seq(Names), Layered(document, memo), DOMAIN Defs \subseteq Known(memo)
    PROVE  Acyclic
<1> SUFFICES ASSUME NEW S \in SUBSET DOMAIN Defs, S # {}
             PROVE  \E o \in S : RefsOf(o) \cap S = {}
  BY DEF Acyclic
<1> DEFINE T == {p \in 1 .. Len(memo) : memo[p] \in S}
<1>1. T \subseteq Nat /\ T # {}
  BY LenProperties DEF Known
<1>2. PICK p \in T : \A q \in T : p <= q
  BY <1>1, LeastElement
<1>3. ASSUME NEW r \in Refs(document, memo[p]), r \in S PROVE FALSE
  <2>1. PICK q \in 1 .. Len(memo) : q < p /\ memo[q] = r
    BY DEF Layered
  <2> QED
    BY <1>2, <1>3, <2>1, LenProperties
<1> QED
  BY <1>3, OfTheDocument

-----------------------------------------------------------------------------
(* The document is the same, and so is the question of its profile.          *)
LEMMA SameProfile ==
    ASSUME document' = document
    PROVE  InProfile' <=> InProfile
BY DEF InProfile, Acyclic, Owners, RefsOf, ShapeOf, Defs

LEMMA LessIsKnown ==
    ASSUME NEW d, NEW calls, NEW known, NEW r \in known, Through(d, calls, known, {r})
    PROVE  Through(d, calls, known, {})
<1> SUFFICES ASSUME NEW i \in 1 .. Len(calls)
             PROVE  /\ calls[i].typed /\ Clean(d, calls[i].of)
                    /\ Refs(d, calls[i].of) \subseteq
                          LeftOf(calls[i]) \cup known
                             \cup (IF i < Len(calls) THEN {calls[i + 1].of} ELSE {})
  BY DEF Through
<1>1. /\ calls[i].typed /\ Clean(d, calls[i].of)
      /\ Refs(d, calls[i].of) \subseteq
            LeftOf(calls[i]) \cup known \cup (IF i < Len(calls) THEN {calls[i + 1].of} ELSE {r})
  BY DEF Through
<1> QED
  BY <1>1

(* What is left of the calls when one comes to a reference.                  *)
LEMMA Asking ==
    ASSUME CInv, NEW r, Asks(r)
    PROVE  /\ ~ compiled
           /\ Consumed \in Seq(Calls) /\ Len(Consumed) = Len(nodes)
           /\ Descending(document, Consumed) /\ Active(Consumed) = Active(nodes)
           /\ nodes = << >> => r \in todo
           /\ nodes # << >> => /\ r \in Refs(document, Caller.of)
                               /\ Consumed # << >>
                               /\ Consumed[Len(nodes)].of = Caller.of
                               /\ Consumed[1].of = nodes[1].of
           /\ \A known : Through(document, nodes, known, {}) =>
                            Through(document, Consumed, known, {r})
<1>1. nodes \in Seq(Calls) /\ Descending(document, nodes) /\ ~ compiled
  BY DEF CInv, TypeInv, Asks
<1>2. CASE nodes = << >>
  <2>1. Consumed = nodes /\ Len(nodes) = 0 /\ r \in todo
    BY <1>2 DEF Consumed, Asks
  <2>2. \A known : Through(document, Consumed, known, {r})
    BY <2>1 DEF Through
  <2> QED
    BY <1>1, <1>2, <2>1, <2>2
<1>3. CASE nodes # << >>
  <2>1. Caller.left # << >> /\ r = Head(Caller.left) /\ Consumed = Advanced(nodes)
    BY <1>3 DEF Asks, Consumed, Advanced
  <2>2. Len(nodes) \in Nat /\ Len(nodes) \in 1 .. Len(nodes) /\ 1 \in 1 .. Len(nodes)
    BY <1>1, <1>3, EmptySeq
  <2>3. /\ Advanced(nodes) \in Seq(Calls) /\ Len(Advanced(nodes)) = Len(nodes)
        /\ \A i \in 1 .. Len(nodes) : Advanced(nodes)[i].of = nodes[i].of
    BY <1>1, <1>3, <2>1, Consuming DEF Caller
  <2>4. Advanced(nodes) # << >>
    BY <2>2, <2>3, EmptySeq
  <2>5. /\ Descending(document, Advanced(nodes)) /\ Active(Advanced(nodes)) = Active(nodes)
        /\ r \in Refs(document, Caller.of)
        /\ \A known : Through(document, nodes, known, {}) =>
                         Through(document, Advanced(nodes), known, {r})
    BY <1>1, <1>3, <2>1, Advancing DEF Caller
  <2> QED
    BY <1>1, <1>3, <2>1, <2>2, <2>3, <2>4, <2>5 DEF Caller
<1> QED
  BY <1>2, <1>3

(* Going on without a type is only ever done of a document that is reported   *)
(* on.                                                                       *)
LEMMA NoTypeKeepsCInv ==
    ASSUME CInv, NEW r, Asks(r), NoType(r), attempted' \subseteq Names,
           reports' # {}, ~ InProfile
    PROVE  CInv'
<1>1. /\ document' = document /\ memo' = memo /\ compiled' = compiled
      /\ nodes' = WithoutType(Consumed) /\ todo' \subseteq todo
  BY DEF NoType, Turned
<1>2. /\ ~ compiled /\ Consumed \in Seq(Calls) /\ Descending(document, Consumed)
  BY Asking
<1>3. /\ nodes' \in Seq(Calls) /\ Len(nodes') = Len(Consumed)
      /\ \A i \in 1 .. Len(Consumed) : /\ nodes'[i].of = Consumed[i].of
                                       /\ LeftOf(nodes'[i]) \subseteq LeftOf(Consumed[i])
  BY <1>1, <1>2, Untyping DEF LeftOf
<1>4. Descending(document, nodes')
  BY <1>2, <1>3, LenProperties, StillDescending
<1>5. TypeInv'
  BY <1>1, <1>3 DEF CInv, TypeInv, Defs
<1> QED
  BY <1>1, <1>2, <1>4, <1>5, SameProfile DEF CInv

(* A reference that no definition answers to.                                *)
LEMMA OutOfProfile ==
    ASSUME NEW o \in Owners, NEW r \in RefsOf(o), r \notin DOMAIN Defs
    PROVE  ~ InProfile
BY DEF InProfile

LEMMA AskerOwns ==
    ASSUME CInv, nodes # << >>
    PROVE  Caller.of \in Owners
BY LenProperties, EmptySeq, OfTheDocument DEF CInv, TypeInv, Descending, Caller

LEMMA MisformedStep ==
    ASSUME CInv, Misformed
    PROVE  CInv'
<1>1. Foreign \notin DOMAIN Defs
  BY DocumentsAreTyped, DocumentsAssumption DEF CInv, TypeInv, Defs
<1>2. nodes # << >> /\ Foreign \in RefsOf(Caller.of)
  BY <1>1, Asking, OfTheDocument DEF Misformed, CInv, TypeInv
<1>3. ~ InProfile
  BY <1>1, <1>2, AskerOwns, OutOfProfile
<1>4. reports' # {} /\ attempted' \subseteq Names
  BY DEF Misformed, CInv, TypeInv
<1> QED
  BY <1>3, <1>4, NoTypeKeepsCInv DEF Misformed

LEMMA CyclicStep ==
    ASSUME CInv, NEW r \in Names, Cyclic(r)
    PROVE  CInv'
<1>1. nodes # << >>
  BY DEF Cyclic, IsActiveRef
<1>2. r \in Refs(document, Caller.of)
  BY <1>1, Asking DEF Cyclic
<1>3. ~ InProfile
  BY <1>1, <1>2, CirclesAreReal DEF Cyclic, CInv, InProfile
<1>4. reports' # {} /\ attempted' \subseteq Names
  BY DEF Cyclic, CInv, TypeInv
<1> QED
  BY <1>3, <1>4, NoTypeKeepsCInv DEF Cyclic

LEMMA TriedStep ==
    ASSUME CInv, NEW r \in Names, Tried(r)
    PROVE  CInv'
<1>1. r \notin Known(memo) \cup Active(nodes)
  <2>1. DOMAIN nodes = 1 .. Len(nodes) /\ DOMAIN memo = 1 .. Len(memo)
    BY LenProperties DEF CInv, TypeInv
  <2> QED
    BY <2>1, OfNames DEF Tried, Known, Active
<1>2. reports # {}
  BY <1>1 DEF CInv, Silent, Accounted, Tried
<1>3. ~ InProfile /\ reports' # {} /\ attempted' \subseteq Names
  BY <1>2 DEF CInv, TypeInv, Tried
<1> QED
  BY <1>3, NoTypeKeepsCInv DEF Tried

LEMMA UnresolvedStep ==
    ASSUME CInv, NEW r \in Names, Unresolved(r)
    PROVE  CInv'
<1>1. nodes # << >> /\ r \in RefsOf(Caller.of)
  BY Asking, OfTheDocument DEF Unresolved, CInv, TypeInv
<1>2. ~ InProfile
  BY <1>1, AskerOwns, OutOfProfile DEF Unresolved
<1>3. reports' # {} /\ attempted' \subseteq Names
  BY DEF Unresolved, CInv, TypeInv
<1> QED
  BY <1>2, <1>3, NoTypeKeepsCInv DEF Unresolved

(* A remembered reference has a type.                                        *)
LEMMA RememberedStep ==
    ASSUME CInv, NEW r \in Names, Remembered(r)
    PROVE  CInv'
<1>1. /\ document' = document /\ memo' = memo /\ attempted' = attempted /\ reports' = reports
      /\ lost' = lost /\ rootTyped' = rootTyped /\ compiled' = compiled /\ nodes' = Consumed
      /\ todo' = IF nodes = << >> THEN todo \ {r} ELSE todo
  BY DEF Remembered, Turned
<1>2. /\ ~ compiled /\ nodes' \in Seq(Calls) /\ Descending(document, nodes')
      /\ Active(nodes') = Active(nodes)
      /\ nodes # << >> => nodes' # << >> /\ nodes'[1].of = nodes[1].of
      /\ \A known : Through(document, nodes, known, {}) => Through(document, nodes', known, {r})
  BY <1>1, Asking DEF Remembered
<1>3. r \in Known(memo)
  <2>1. DOMAIN memo = 1 .. Len(memo)
    BY LenProperties DEF CInv, TypeInv
  <2> QED
    BY <2>1, OfNames DEF Remembered, Known
<1>4. TypeInv'
  BY <1>1, <1>2 DEF CInv, TypeInv, Defs
<1>5. ASSUME reports' = {} PROVE Silent'
  <2>1. Silent
    BY <1>1, <1>5 DEF CInv
  <2>2. Through(document, nodes', Known(memo), {})
    BY <1>2, <1>3, <2>1, LessIsKnown DEF Silent
  <2>3. Accounted'
    <3>1. attempted' \subseteq Known(memo') \cup Active(nodes')
      BY <1>1, <1>2, <2>1 DEF Silent, Accounted
    <3>2. DOMAIN document'.defs \subseteq todo' \cup Known(memo') \cup Active(nodes')
      BY <1>1, <1>2, <1>3, <2>1 DEF Silent, Accounted, Defs
    <3> QED
      BY <3>1, <3>2 DEF Accounted, Defs
  <2>4. Rooted'
    BY <1>1, <1>2, <2>1 DEF Silent, Rooted
  <2> QED
    BY <1>1, <2>1, <2>2, <2>3, <2>4 DEF Silent
<1> QED
  BY <1>1, <1>2, <1>4, <1>5, SameProfile DEF CInv

(* A definition is compiled, once.                                           *)
LEMMA FollowStep ==
    ASSUME CInv, NEW r \in Names, Follow(r)
    PROVE  CInv'
<1> DEFINE call == NodeCall(r)
<1>1. /\ document' = document /\ memo' = memo /\ attempted' = attempted \cup {r}
      /\ reports' = reports \cup Remarks(r)
      /\ lost' = lost /\ rootTyped' = rootTyped /\ compiled' = compiled
      /\ nodes' = Append(Consumed, call)
      /\ todo' = IF nodes = << >> THEN todo \ {r} ELSE todo
      /\ r \in DOMAIN document.defs
  BY DEF Follow, Turned, Defs
<1>2. /\ ~ compiled /\ Consumed \in Seq(Calls) /\ Len(Consumed) = Len(nodes)
      /\ Descending(document, Consumed)
      /\ Active(Consumed) = Active(nodes)
      /\ nodes # << >> => /\ r \in Refs(document, Consumed[Len(Consumed)].of)
                          /\ Consumed # << >> /\ Consumed[1].of = nodes[1].of
      /\ \A known : Through(document, nodes, known, {}) =>
                       Through(document, Consumed, known, {r})
  BY Asking DEF Follow
<1>3. Consumed # << >> => nodes # << >>
  BY DEF Consumed
<1>4. /\ call \in Calls /\ call.of = r /\ LeftOf(call) = Refs(document, r)
      /\ Clean(document, r) => call.typed
  <2>1. ShapeOf(r) = Shape(document, r) /\ r # Root
    BY DocumentsAssumption DEF ShapeOf, Shape, Defs
  <2>2. /\ Shape(document, r).refs \in Seq(Names \cup {Foreign})
        /\ call = [of |-> r, left |-> Shape(document, r).refs,
                   typed |-> Shape(document, r).form # "untyped"]
    BY <1>1, <2>1, DocumentsAreTyped DEF NodeCall, CInv, TypeInv
  <2> DEFINE s == Shape(document, r)
             b == s.form # "untyped"
  <2> HIDE DEF call, s
  <2>3. b \in BOOLEAN /\ s.refs \in Seq(Names \cup {Foreign})
    BY <2>2 DEF s
  <2> HIDE DEF b
  <2>4. call = [of |-> r, left |-> s.refs, typed |-> b]
    BY <2>2 DEF s, b
  <2>5. call \in Calls /\ call.of = r /\ call.left = s.refs /\ call.typed = b
    BY <2>3, <2>4 DEF Calls
  <2>6. LeftOf(call) = Refs(document, r)
    BY <2>5 DEF LeftOf, Refs, s
  <2>7. Clean(document, r) => b
    BY DEF Clean, b, s
  <2> QED
    BY <2>5, <2>6, <2>7
<1> HIDE DEF call
<1>5. /\ nodes' \in Seq(Calls) /\ Descending(document, nodes')
      /\ Active(nodes') = Active(nodes) \cup {r}
      /\ \A known : Through(document, Consumed, known, {r}) /\ Clean(document, r)
                       => Through(document, nodes', known, {})
  <2>1. call.of \in DOMAIN document.defs /\ LeftOf(call) = Refs(document, call.of)
    BY <1>1, <1>4
  <2>2. Consumed # << >> => call.of \in Refs(document, Consumed[Len(Consumed)].of)
    BY <1>2, <1>3, <1>4
  <2>3. /\ Append(Consumed, call) \in Seq(Calls)
        /\ Descending(document, Append(Consumed, call))
        /\ Active(Append(Consumed, call)) = Active(Consumed) \cup {call.of}
        /\ \A known : /\ Through(document, Consumed, known, {call.of})
                      /\ call.typed /\ Clean(document, call.of)
                      => Through(document, Append(Consumed, call), known, {})
    BY <1>2, <1>4, <2>1, <2>2, Pushing
  <2> QED
    BY <1>1, <1>2, <1>4, <2>3
<1>6. TypeInv'
  BY <1>1, <1>5 DEF CInv, TypeInv, Defs
<1>7. ASSUME reports' # {} PROVE ~ InProfile
  <2>1. CASE reports # {}
    BY <2>1 DEF CInv
  <2>2. CASE Remarks(r) # {}
    <3>1. r \in Owners /\ ~ Clean(document, r)
      BY <1>1, <2>2, OfTheDocument
    <3>2. ShapeOf(r) = Shape(document, r)
      BY DEF ShapeOf, Shape, Defs
    <3> QED
      BY <3>1, <3>2 DEF InProfile, Clean
  <2> QED
    BY <1>1, <1>7, <2>1, <2>2
<1>8. ASSUME reports' = {} PROVE Silent'
  <2>1. Silent /\ Clean(document, r)
    BY <1>1, <1>8, OfTheDocument DEF CInv
  <2>2. Through(document, nodes', Known(memo), {})
    BY <1>2, <1>5, <2>1 DEF Silent
  <2>3. Accounted'
    BY <1>1, <1>5, <2>1 DEF Silent, Accounted, Defs
  <2>4. Rooted'
    <3>1. CASE nodes # << >>
      <4>1. nodes' # << >> /\ nodes'[1] = Consumed[1]
        BY <1>1, <1>2, <1>4, <3>1, EmptySeq, AppendProperties
      <4> QED
        BY <1>1, <1>2, <2>1, <3>1, <4>1 DEF Silent, Rooted
    <3>2. CASE nodes = << >>
      BY <1>1, <2>1, <3>2 DEF Silent, Rooted
    <3> QED
      BY <3>1, <3>2
  <2> QED
    BY <1>1, <2>1, <2>2, <2>3, <2>4 DEF Silent
<1> QED
  BY <1>1, <1>2, <1>5, <1>6, <1>7, <1>8, SameProfile DEF CInv

(* A definition joins the memo behind those that it refers to.               *)
LEMMA Remembering ==
    ASSUME NEW d, NEW m \in Seq(Names), NEW o \in Names, Layered(d, m),
           o \in DOMAIN d.defs, Clean(d, o), Refs(d, o) \subseteq Known(m)
    PROVE  /\ Append(m, o) \in Seq(Names) /\ Known(Append(m, o)) = Known(m) \cup {o}
           /\ Layered(d, Append(m, o))
<1> DEFINE n == Len(m)
           new == Append(m, o)
<1>1. /\ new \in Seq(Names) /\ Len(new) = n + 1 /\ n \in Nat
      /\ \A p \in 1 .. n : new[p] = m[p]
      /\ new[n + 1] = o
  BY AppendProperties
<1> HIDE DEF new
<1>2. /\ \A p \in 1 .. n + 1 : p \in 1 .. n \/ p = n + 1
      /\ \A p \in 1 .. n : p \in 1 .. n + 1 /\ p < n + 1
      /\ n + 1 \in 1 .. n + 1
  BY <1>1
<1>3. Known(new) = Known(m) \cup {o}
  <2>1. \A p \in 1 .. n + 1 : new[p] \in Known(m) \cup {o}
    BY <1>1, <1>2 DEF Known
  <2>2. \A p \in 1 .. n : m[p] \in {new[q] : q \in 1 .. n + 1}
    BY <1>1, <1>2
  <2>3. o \in {new[q] : q \in 1 .. n + 1}
    BY <1>1, <1>2
  <2> QED
    BY <1>1, <2>1, <2>2, <2>3 DEF Known
<1>4. Layered(d, new)
  <2> SUFFICES ASSUME NEW p \in 1 .. n + 1
               PROVE  /\ new[p] \in DOMAIN d.defs /\ Clean(d, new[p])
                      /\ \A r \in Refs(d, new[p]) : \E q \in 1 .. n + 1 : q < p /\ new[q] = r
    BY <1>1 DEF Layered
  <2>1. CASE p \in 1 .. n
    <3>1. /\ m[p] \in DOMAIN d.defs /\ Clean(d, m[p])
          /\ \A r \in Refs(d, m[p]) : \E q \in 1 .. n : q < p /\ m[q] = r
      BY <2>1 DEF Layered
    <3> QED
      BY <1>1, <1>2, <2>1, <3>1
  <2>2. CASE p = n + 1
    <3>1. \A r \in Refs(d, o) : \E q \in 1 .. n : m[q] = r
      BY DEF Known
    <3> QED
      BY <1>1, <1>2, <2>2, <3>1
  <2> QED
    BY <1>2, <2>1, <2>2
<1> QED
  BY <1>1, <1>3, <1>4 DEF new

(* The last call is through, with a type or without.                         *)
LEMMA YieldStep ==
    ASSUME CInv, Yield
    PROVE  CInv'
<1> DEFINE n == Len(nodes)
           o == Caller.of
           below == Below(nodes)
<1>1. /\ document' = document /\ todo' = todo /\ attempted' = attempted /\ reports' = reports
      /\ compiled' = compiled /\ nodes # << >> /\ Caller.left = << >>
      /\ nodes' = IF Caller.typed THEN below ELSE WithoutType(below)
      /\ memo' = IF Caller.typed /\ o # Root THEN Append(memo, o) ELSE memo
      /\ rootTyped' = IF o = Root THEN Caller.typed ELSE rootTyped
      /\ Caller.typed => lost' = lost
  BY DEF Yield, Below
<1>2. /\ n \in Nat /\ n \in 1 .. n /\ nodes \in Seq(Calls) /\ memo \in Seq(Names)
      /\ Descending(document, nodes)
  BY <1>1, EmptySeq DEF CInv, TypeInv
<1>3. o \in DOMAIN document.defs \cup {Root} /\ (n > 1 => o \in DOMAIN document.defs)
  BY <1>2 DEF Descending, Caller
<1>4. DOMAIN document.defs \subseteq Names /\ Root \notin DOMAIN document.defs
  BY DocumentsAreTyped DEF CInv, TypeInv
<1>5. LeftOf(nodes[n]) = {}
  BY <1>1 DEF LeftOf, Caller
<1> HIDE DEF below
<1>6. /\ below \in Seq(Calls) /\ Len(below) = n - 1
      /\ \A i \in 1 .. Len(below) : below[i] = nodes[i]
      /\ Descending(document, below)
      /\ Active(nodes) = Active(below) \cup {o}
      /\ \A known : Through(document, nodes, known, {}) =>
                       /\ Through(document, below, known \cup {o}, {})
                       /\ Refs(document, o) \subseteq known
  <2>1. below = Below(nodes) /\ o = nodes[Len(nodes)].of
    BY DEF below, Caller
  <2>2. /\ below \in Seq(Calls) /\ Len(below) = Len(nodes) - 1
        /\ \A i \in 1 .. Len(below) : below[i] = nodes[i]
        /\ Descending(document, below)
        /\ Active(nodes) = Active(below) \cup {nodes[Len(nodes)].of}
        /\ \A known :
              Through(document, nodes, known, {}) /\ LeftOf(nodes[Len(nodes)]) = {} =>
                 /\ Through(document, below, known \cup {nodes[Len(nodes)].of}, {})
                 /\ Refs(document, nodes[Len(nodes)].of) \subseteq known
    BY <1>1, <1>2, <2>1, Popping
  <2> HIDE DEF o
  <2> QED
    BY <1>5, <2>1, <2>2
<1>7. nodes' \in Seq(Calls) /\ Descending(document, nodes')
  <2>1. CASE Caller.typed
    BY <1>1, <1>6, <2>1
  <2>2. CASE ~ Caller.typed
    <3>1. /\ nodes' \in Seq(Calls) /\ Len(nodes') = Len(below)
          /\ \A i \in 1 .. Len(below) : /\ nodes'[i].of = below[i].of
                                        /\ LeftOf(nodes'[i]) \subseteq LeftOf(below[i])
      BY <1>1, <1>6, <2>2, Untyping DEF LeftOf
    <3>2. Len(below) \in Nat
      BY <1>6, LenProperties
    <3> QED
      BY <1>6, <3>1, <3>2, StillDescending
  <2> QED
    BY <2>1, <2>2
<1>8. TypeInv'
  <2>1. memo' \in Seq(Names)
    BY <1>1, <1>2, <1>3, <1>4, AppendProperties
  <2> QED
    BY <1>1, <1>7, <2>1 DEF CInv, TypeInv, Defs
<1>9. ASSUME reports' = {} PROVE Silent'
  <2>1. Silent
    BY <1>1, <1>9 DEF CInv
  <2>2. Caller.typed /\ Clean(document, o)
    BY <1>2, <2>1 DEF Silent, Through, Caller
  <2>3. Through(document, below, Known(memo) \cup {o}, {}) /\ Refs(document, o) \subseteq Known(memo)
    BY <1>6, <2>1 DEF Silent
  <2>4. nodes' = below /\ lost' = {}
    BY <1>1, <2>1, <2>2 DEF Silent
  <2>5. CASE o = Root
    <3>1. n = 1 /\ below = << >>
      <4>1. ~ (n > 1)
        BY <1>3, <1>4, <2>5
      <4>2. n = 1 /\ Len(below) = 0
        BY <1>2, <1>6, <4>1
      <4> QED
        BY <1>6, <4>2, EmptySeq
    <3>2. memo' = memo /\ rootTyped' = TRUE
      BY <1>1, <2>2, <2>5
    <3>3. Active(nodes) = {Root} /\ Active(nodes') = {}
      BY <1>6, <2>4, <2>5, <3>1, EmptySeq DEF Active
    <3>4. Accounted'
      <4>1. attempted \subseteq Known(memo)
        BY <2>1, <3>3, DocumentsAssumption DEF CInv, TypeInv, Silent, Accounted
      <4>2. DOMAIN document.defs \subseteq todo \cup Known(memo)
        BY <1>4, <2>1, <3>3 DEF Silent, Accounted, Defs
      <4> QED
        BY <1>1, <3>2, <3>3, <4>1, <4>2 DEF Accounted, Defs
    <3>5. Rooted'
      BY <1>1, <2>2, <2>3, <2>5, <3>2 DEF Rooted
    <3>6. Through(document, nodes', Known(memo), {})
      BY <2>4, <3>1, EmptySeq DEF Through
    <3> QED
      BY <1>1, <2>1, <2>4, <3>2, <3>4, <3>5, <3>6 DEF Silent
  <2>6. CASE o # Root
    <3>1. o \in DOMAIN document.defs /\ o \in Names
      BY <1>3, <1>4, <2>6
    <3>2. memo' = Append(memo, o) /\ rootTyped' = rootTyped
      BY <1>1, <2>2, <2>6
    <3>3. Known(memo') = Known(memo) \cup {o} /\ Layered(document, memo')
      BY <1>2, <2>1, <2>2, <2>3, <3>1, <3>2, Remembering DEF Silent
    <3>4. Through(document, nodes', Known(memo'), {})
      BY <2>3, <2>4, <3>3
    <3>5. Accounted'
      <4>1. /\ attempted \subseteq Known(memo) \cup Active(nodes)
            /\ DOMAIN document.defs \subseteq todo \cup Known(memo) \cup Active(nodes)
        BY <2>1 DEF Silent, Accounted, Defs
      <4>2. Known(memo) \cup Active(nodes) = Known(memo') \cup Active(nodes')
        BY <1>6, <2>4, <3>3
      <4> QED
        BY <1>1, <4>1, <4>2 DEF Accounted, Defs
    <3>6. Rooted'
      <4>1. CASE nodes[1].of = Root
        <5>1. n # 1
          BY <2>6, <4>1 DEF Caller
        <5>2. 1 \in 1 .. Len(below)
          BY <1>2, <1>6, <5>1
        <5>3. below # << >> /\ below[1] = nodes[1]
          BY <1>6, <5>2, EmptySeq
        <5> QED
          BY <2>4, <4>1, <5>3 DEF Rooted
      <4>2. CASE nodes[1].of # Root
        BY <1>1, <2>1, <3>2, <3>3, <4>2 DEF Silent, Rooted
      <4> QED
        BY <4>1, <4>2
    <3> QED
      BY <1>1, <2>4, <3>3, <3>4, <3>5, <3>6 DEF Silent
  <2> QED
    BY <2>5, <2>6
<1>10. ~ compiled'
  BY <1>1 DEF CInv
<1> QED
  BY <1>1, <1>7, <1>8, <1>9, <1>10, SameProfile DEF CInv

LEMMA CompiledStep ==
    ASSUME CInv, Compiled
    PROVE  CInv'
<1>1. /\ UNCHANGED <<document, todo, nodes, memo, attempted, reports, lost, rootTyped>>
      /\ nodes = << >> /\ todo = {} /\ compiled' = TRUE
  BY DEF Compiled
<1>2. TypeInv' /\ (Silent => Silent')
  BY <1>1 DEF CInv, TypeInv, Silent, Accounted, Rooted, Defs
<1> QED
  BY <1>1, <1>2, SameProfile DEF CInv

LEMMA FirstCall ==
    ASSUME SchemaInit
    PROVE  CInv
<1> DEFINE call == NodeCall(Root)
           s == Shape(document, Root)
           b == s.form # "untyped"
<1>1. /\ document \in Documents /\ todo = DOMAIN Defs /\ nodes = <<call>> /\ memo = << >>
      /\ attempted = {} /\ reports = Remarks(Root) /\ lost = {} /\ compiled = FALSE
  BY DEF SchemaInit, CompileInit
<1>2. s.refs \in Seq(Names \cup {Foreign}) /\ b \in BOOLEAN
  BY <1>1, DocumentsAreTyped
<1>3. ShapeOf(Root) = s
  BY DEF ShapeOf, Shape
<1>4. call = [of |-> Root, left |-> s.refs, typed |-> b]
  BY <1>3 DEF NodeCall
<1>5. (Clean(document, Root) => b) /\ Refs(document, Root) = {s.refs[k] : k \in DOMAIN s.refs}
  BY DEF Clean, Refs
<1> HIDE DEF call, s, b
<1>6. call \in Calls /\ call.of = Root /\ call.left = s.refs /\ call.typed = b
  BY <1>2, <1>4 DEF Calls
<1>7. LeftOf(call) = Refs(document, Root)
  BY <1>5, <1>6 DEF LeftOf
<1>8. nodes \in Seq(Calls) /\ Len(nodes) = 1 /\ nodes[1] = call /\ nodes # << >>
  BY <1>1, <1>6
<1>9. TypeInv
  BY <1>1, <1>8, EmptySeq DEF TypeInv
<1>10. Descending(document, nodes)
  BY <1>6, <1>7, <1>8 DEF Descending
<1>11. ASSUME reports # {} PROVE ~ InProfile
  <2>1. ~ Clean(document, Root) /\ Root \in Owners
    BY <1>1, <1>11, OfTheDocument
  <2> QED
    BY <1>3, <2>1 DEF InProfile, Clean, s
<1>12. ASSUME reports = {} PROVE Silent
  <2>1. Clean(document, Root)
    BY <1>1, <1>12, OfTheDocument
  <2>2. Through(document, nodes, Known(memo), {})
    <3>1. \A i \in 1 .. Len(nodes) : i = 1 /\ nodes[i] = call
      BY <1>8
    <3>2. call.typed /\ Clean(document, call.of) /\ Refs(document, call.of) \subseteq LeftOf(call)
      BY <1>5, <1>6, <1>7, <2>1
    <3> QED
      BY <3>1, <3>2 DEF Through
  <2>3. Layered(document, memo)
    BY <1>1 DEF Layered
  <2>4. Accounted /\ Rooted
    BY <1>1, <1>6, <1>8 DEF Accounted, Rooted
  <2> QED
    BY <1>1, <2>2, <2>3, <2>4 DEF Silent
<1> QED
  BY <1>1, <1>9, <1>10, <1>11, <1>12 DEF CInv

(* The invariant of compile: as long as nothing is reported, what was        *)
(* attempted is typed or under way, and the memo is in layers.               *)
THEOREM CompileInvariance == SchemaSpec => []CInv
<1>1. SchemaInit => CInv
  BY FirstCall
<1>2. CInv /\ [CompileNext]_schemaVars => CInv'
  <2> SUFFICES ASSUME CInv, [CompileNext]_schemaVars PROVE CInv'
    OBVIOUS
  <2>1. CASE Misformed
    BY <2>1, MisformedStep
  <2>2. ASSUME NEW r \in Names, Cyclic(r) PROVE CInv'
    BY <2>2, CyclicStep
  <2>3. ASSUME NEW r \in Names, Remembered(r) PROVE CInv'
    BY <2>3, RememberedStep
  <2>4. ASSUME NEW r \in Names, Tried(r) PROVE CInv'
    BY <2>4, TriedStep
  <2>5. ASSUME NEW r \in Names, Unresolved(r) PROVE CInv'
    BY <2>5, UnresolvedStep
  <2>6. ASSUME NEW r \in Names, Follow(r) PROVE CInv'
    BY <2>6, FollowStep
  <2>7. CASE Yield
    BY <2>7, YieldStep
  <2>8. CASE Compiled
    BY <2>8, CompiledStep
  <2>9. CASE UNCHANGED schemaVars
    <3>1. UNCHANGED <<document, todo, nodes, memo, attempted, reports, lost, rootTyped, compiled>>
      BY <2>9 DEF schemaVars
    <3>2. TypeInv' /\ (Silent => Silent')
      BY <3>1 DEF CInv, TypeInv, Silent, Accounted, Rooted, Defs
    <3> QED
      BY <3>1, <3>2, SameProfile DEF CInv
  <2> QED
    BY <2>1, <2>2, <2>3, <2>4, <2>5, <2>6, <2>7, <2>8, <2>9 DEF CompileNext
<1> QED
  BY <1>1, <1>2, PTL DEF SchemaSpec

(***************************************************************************)
(* For every document, whatever is in its definitions and in which order      *)
(* they are compiled: SchemaCompiler reports on it iff it breaks the profile, *)
(* and one that is not reported on is typed throughout.                       *)
(***************************************************************************)
THEOREM ProfileIsDecided == SchemaSpec => []SchemasAreDecided
<1>1. CInv => SchemasAreDecided
  <2> SUFFICES ASSUME CInv, compiled
               PROVE  /\ reports = {} <=> InProfile
                      /\ reports = {} => /\ rootTyped /\ lost = {}
                                         /\ \A n \in DOMAIN Defs : InMemo(n)
    BY DEF SchemasAreDecided
  <2>1. reports # {} => ~ InProfile
    BY DEF CInv
  <2>2. ASSUME reports = {}
        PROVE  InProfile /\ rootTyped /\ lost = {} /\ \A n \in DOMAIN Defs : InMemo(n)
    <3>1. nodes = << >> /\ todo = {} /\ Silent /\ memo \in Seq(Names)
      BY <2>2 DEF CInv, TypeInv
    <3>2. Active(nodes) = {}
      BY <3>1, EmptySeq DEF Active
    <3>3. DOMAIN Defs \subseteq Known(memo)
      BY <3>1, <3>2 DEF Silent, Accounted
    <3>4. /\ rootTyped /\ lost = {} /\ Clean(document, Root)
          /\ Refs(document, Root) \subseteq Known(memo)
      BY <3>1 DEF Silent, Rooted
    <3>5. \A o \in Known(memo) : /\ o \in DOMAIN Defs /\ Clean(document, o)
                                 /\ Refs(document, o) \subseteq Known(memo)
      BY <3>1 DEF Silent, Layered, Known, Defs
    <3>6. \A n \in DOMAIN Defs : InMemo(n)
      <4>1. DOMAIN memo = 1 .. Len(memo)
        BY <3>1, LenProperties
      <4> QED
        BY <3>3, <4>1, OfNames DEF Known
    <3>7. Acyclic
      BY <3>1, <3>3, LayersMakeNoCircle DEF Silent
    <3>8. \A o \in Owners : /\ Clean(document, o)
                            /\ RefsOf(o) \subseteq DOMAIN Defs
      BY <3>3, <3>4, <3>5, OfTheDocument DEF Defs
    <3>9. \A o : ShapeOf(o) = Shape(document, o)
      BY DEF ShapeOf, Shape, Defs
    <3>10. InProfile
      BY <3>7, <3>8, <3>9 DEF InProfile, Clean
    <3> QED
      BY <3>4, <3>6, <3>10
  <2> QED
    BY <2>1, <2>2
<1> QED
  BY <1>1, CompileInvariance, PTL

-----------------------------------------------------------------------------
(*****************************************************************************)
(* PolicyRules: the type checker of rules is sound.  A rule is a list of nodes,*)
(* each over earlier ones; an induction is on the least node that it fails at.*)
(*****************************************************************************)

(***************************************************************************)
(* A type of rules is one of a set that has the parts of its members; None   *)
(* and Raised are no types.                                                  *)
(***************************************************************************)
WellTyped(S) == \A t \in S : t.kind \in CelKinds /\ Parts(t) \subseteq S
IsType(t) == \E S : WellTyped(S) /\ t \in S

(* The kinds of rules' types, and what is known of their parts.               *)
LEMMA TypeFacts ==
    ASSUME NEW t, IsType(t)
    PROVE  /\ t.kind \in CelKinds
           /\ t.kind = "list" => IsType(t.item)
           /\ t.kind = "map" => IsType(t.key) /\ IsType(t.value)
           /\ t.kind = "object" => \A f \in DOMAIN t.fields : IsType(t.fields[f])
           /\ t # None /\ t # Raised
<1>1. PICK S : WellTyped(S) /\ t \in S
  BY DEF IsType
<1>2. t.kind \in CelKinds /\ Parts(t) \subseteq S
  BY <1>1 DEF WellTyped
<1>3. \A p \in Parts(t) : IsType(p)
  BY <1>1, <1>2 DEF IsType
<1>4. t.kind = "list" => t.item \in Parts(t)
  BY DEF Parts
<1>5. t.kind = "map" => t.key \in Parts(t) /\ t.value \in Parts(t)
  BY DEF Parts
<1>6. t.kind = "object" => \A f \in DOMAIN t.fields : t.fields[f] \in Parts(t)
  BY DEF Parts
<1>7. t # None /\ t # Raised
  BY <1>2 DEF None, Raised, CelKinds
<1> QED
  BY <1>2, <1>3, <1>4, <1>5, <1>6, <1>7

(* The types without parts.                                                  *)
LEMMA SimpleTypes ==
    /\ IsType(BOOL) /\ IsType(INT) /\ IsType(DOUBLE) /\ IsType(DURATION)
    /\ \A members : IsType(Enumeration(members))
    /\ IsType(Text)
<1>1. ASSUME NEW t, t.kind \in CelKinds \ {"list", "map", "object"} PROVE IsType(t)
  <2>1. Parts(t) = {}
    BY <1>1 DEF Parts
  <2>2. WellTyped({t})
    BY <1>1, <2>1 DEF WellTyped
  <2> QED
    BY <2>2 DEF IsType
<1>2. /\ BOOL.kind = "bool" /\ INT.kind = "int" /\ DOUBLE.kind = "double"
      /\ DURATION.kind = "duration"
      /\ \A members : Enumeration(members).kind = "string"
  BY DEF BOOL, INT, DOUBLE, DURATION, Enumeration
<1>3. {"bool", "int", "double", "duration", "string"} \subseteq CelKinds \ {"list", "map", "object"}
  BY DEF CelKinds
<1>4. \A members : IsType(Enumeration(members))
  BY <1>1, <1>2, <1>3
<1>5. IsType(BOOL) /\ IsType(INT) /\ IsType(DOUBLE) /\ IsType(DURATION)
  BY <1>1, <1>2, <1>3
<1> QED
  BY <1>4, <1>5 DEF Text

(* The types with parts.                                                     *)
LEMMA ListTypes == ASSUME NEW t, IsType(t) PROVE IsType(ListOf(t))
<1>1. PICK S : WellTyped(S) /\ t \in S
  BY DEF IsType
<1>2. ListOf(t).kind = "list" /\ Parts(ListOf(t)) = {t}
  BY DEF ListOf, Parts
<1>3. WellTyped(S \cup {ListOf(t)})
  BY <1>1, <1>2 DEF WellTyped, CelKinds
<1> QED
  BY <1>3 DEF IsType

LEMMA MapTypes == ASSUME NEW s, NEW t, IsType(s), IsType(t) PROVE IsType(MapOf(s, t))
<1>1. PICK S : WellTyped(S) /\ s \in S
  BY DEF IsType
<1>2. PICK T : WellTyped(T) /\ t \in T
  BY DEF IsType
<1>3. MapOf(s, t).kind = "map" /\ Parts(MapOf(s, t)) = {s, t}
  BY DEF MapOf, Parts
<1>4. WellTyped(S \cup T \cup {MapOf(s, t)})
  BY <1>1, <1>2, <1>3 DEF WellTyped, CelKinds
<1> QED
  BY <1>4 DEF IsType

LEMMA ObjectTypes ==
    ASSUME NEW fields, \A f \in DOMAIN fields : IsType(fields[f])
    PROVE  IsType(ObjectOf(fields))
<1> DEFINE Around(f) == CHOOSE S : WellTyped(S) /\ fields[f] \in S
           All == UNION {Around(f) : f \in DOMAIN fields}
           object == ObjectOf(fields)
<1>1. \A f \in DOMAIN fields : WellTyped(Around(f)) /\ fields[f] \in Around(f)
  BY DEF IsType
<1>2. object.kind = "object" /\ object.fields = fields
  BY DEF ObjectOf
<1>3. Parts(object) = {fields[f] : f \in DOMAIN fields}
  BY <1>2 DEF Parts
<1>4. Parts(object) \subseteq All
  <2> HIDE DEF Around
  <2> QED
    BY <1>1, <1>3
<1>5. ASSUME NEW t \in All PROVE t.kind \in CelKinds /\ Parts(t) \subseteq All
  <2> HIDE DEF Around
  <2>1. PICK f \in DOMAIN fields : t \in Around(f)
    BY <1>5
  <2>2. t.kind \in CelKinds /\ Parts(t) \subseteq Around(f)
    BY <1>1, <2>1 DEF WellTyped
  <2> QED
    BY <2>2
<1>6. WellTyped(All \cup {object})
  <2> HIDE DEF All, object
  <2>1. "object" \in CelKinds
    BY DEF CelKinds
  <2> QED
    BY <1>2, <1>4, <1>5, <2>1 DEF WellTyped
<1>7. object \in All \cup {object}
  OBVIOUS
<1> HIDE DEF All
<1> QED
  BY <1>6, <1>7 DEF IsType

(* The types of schemas.                                                     *)
LEMMA Levels ==
    \A t \in Types : t.kind \in SchemaKinds /\ Parts(t) \subseteq Types
<1>1. Len(TypeLevels) \in Nat
  BY CatalogAssumption
<1>2. ASSUME NEW t \in Types PROVE t.kind \in SchemaKinds /\ Parts(t) \subseteq Types
  <2>1. PICK i \in 1 .. Len(TypeLevels) : t \in TypeLevels[i]
    BY DEF Types, TypesUpTo
  <2>2. t.kind \in SchemaKinds /\ Parts(t) \subseteq TypesUpTo(i - 1)
    BY <2>1, CatalogAssumption
  <2>3. TypesUpTo(i - 1) \subseteq Types
    BY <1>1, <2>1 DEF Types, TypesUpTo
  <2> QED
    BY <2>2, <2>3
<1> QED
  BY <1>2

LEMMA SchemaTypes == \A t \in Types : IsType(t)
<1>1. SchemaKinds \subseteq CelKinds
  BY DEF SchemaKinds
<1>2. WellTyped(Types)
  BY <1>1, Levels DEF WellTyped
<1> QED
  BY <1>2 DEF IsType

-----------------------------------------------------------------------------
(***************************************************************************)
(* Inference and evaluation go through the nodes of a rule in order: what    *)
(* each node comes to is a function of what its operands, which are in front *)
(* of it, have come to.                                                     *)
(***************************************************************************)
Infers(rule, env, n, f) ==
    f = [i \in 1 .. n |->
            Inferred(rule[i], [k \in DOMAIN rule[i].args |-> f[rule[i].args[k]]], env)]
Evaluates(rule, context, n, f) ==
    f = [i \in 1 .. n |->
            Evaluated(rule[i], [k \in DOMAIN rule[i].args |-> f[rule[i].args[k]]], context)]

LEMMA RuleFacts ==
    ASSUME NEW rule, IsRule(rule)
    PROVE  /\ Len(rule) \in Nat /\ Len(rule) > 0 /\ DOMAIN rule = 1 .. Len(rule)
           /\ \A i \in 1 .. Len(rule) : \A k \in DOMAIN rule[i].args :
                 rule[i].args[k] \in 1 .. Len(rule) /\ rule[i].args[k] < i
<1>1. /\ Len(rule) \in Nat /\ Len(rule) > 0 /\ DOMAIN rule = 1 .. Len(rule)
  BY DEF IsRule
<1>2. ASSUME NEW i \in 1 .. Len(rule), NEW k \in DOMAIN rule[i].args
      PROVE  rule[i].args[k] \in 1 .. i - 1
  <2>0. i \in DOMAIN rule
    BY <1>1, <1>2
  <2>1. rule[i].args \in Seq(1 .. i - 1)
    BY <2>0, Zenon DEF IsRule
  <2>2. rule[i].args \in [1 .. Len(rule[i].args) -> 1 .. i - 1]
    BY <2>1, SeqDef, LenProperties
  <2> QED
    BY <1>2, <2>2
<1> QED
  BY <1>1, <1>2

(* So the functions of inference and evaluation exist.                       *)
LEMMA InferenceExists ==
    ASSUME NEW rule, IsRule(rule), NEW env
    PROVE  \E f : Infers(rule, env, Len(rule), f)
<1> DEFINE Bad == {n \in 0 .. Len(rule) : ~ \E f : Infers(rule, env, n, f)}
<1>1. SUFFICES Bad = {}
  BY RuleFacts
<1>2. SUFFICES ASSUME Bad # {} PROVE FALSE
  OBVIOUS
<1>3. PICK m \in Bad : \A n \in Bad : m <= n
  <2>1. Bad \subseteq Nat
    BY RuleFacts
  <2> HIDE DEF Bad
  <2> QED
    BY <1>2, <2>1, LeastElement
<1>4. m # 0
  <2>1. Infers(rule, env, 0, << >>)
    BY DEF Infers
  <2> QED
    BY <2>1
<1>5. m \in 1 .. Len(rule) /\ m - 1 \in 0 .. Len(rule) /\ m - 1 \notin Bad
  BY <1>3, <1>4, RuleFacts
<1>6. PICK f : Infers(rule, env, m - 1, f)
  BY <1>5
<1> DEFINE Of(h, i) == [k \in DOMAIN rule[i].args |-> h[rule[i].args[k]]]
           g == [i \in 1 .. m |-> IF i = m THEN Inferred(rule[m], Of(f, m), env) ELSE f[i]]
<1>7. ASSUME NEW i \in 1 .. m PROVE Of(g, i) = Of(f, i)
  <2>1. \A k \in DOMAIN rule[i].args : rule[i].args[k] \in 1 .. m /\ rule[i].args[k] < m
    BY <1>5, <1>7, RuleFacts
  <2>2. \A j \in 1 .. m : j < m => g[j] = f[j]
    BY <1>5
  <2> QED
    BY <2>1, <2>2
<1>8. ASSUME NEW i \in 1 .. m PROVE g[i] = Inferred(rule[i], Of(g, i), env)
  <2>1. CASE i = m
    BY <2>1, <1>7
  <2>2. CASE i # m
    <3>1. i \in 1 .. m - 1
      BY <1>5, <2>2
    <3>2. f[i] = Inferred(rule[i], Of(f, i), env)
      BY <1>6, <3>1 DEF Infers
    <3> QED
      BY <1>7, <2>2, <3>2
  <2> QED
    BY <2>1, <2>2
<1>9. Infers(rule, env, m, g)
  <2>1. g = [i \in 1 .. m |-> Inferred(rule[i], Of(g, i), env)]
    BY <1>8
  <2> QED
    BY <2>1 DEF Infers
<1> QED
  BY <1>3, <1>9

LEMMA EvaluationExists ==
    ASSUME NEW rule, IsRule(rule), NEW context
    PROVE  \E f : Evaluates(rule, context, Len(rule), f)
<1> DEFINE Bad == {n \in 0 .. Len(rule) : ~ \E f : Evaluates(rule, context, n, f)}
<1>1. SUFFICES Bad = {}
  BY RuleFacts
<1>2. SUFFICES ASSUME Bad # {} PROVE FALSE
  OBVIOUS
<1>3. PICK m \in Bad : \A n \in Bad : m <= n
  <2>1. Bad \subseteq Nat
    BY RuleFacts
  <2> HIDE DEF Bad
  <2> QED
    BY <1>2, <2>1, LeastElement
<1>4. m # 0
  <2>1. Evaluates(rule, context, 0, << >>)
    BY DEF Evaluates
  <2> QED
    BY <2>1
<1>5. m \in 1 .. Len(rule) /\ m - 1 \in 0 .. Len(rule) /\ m - 1 \notin Bad
  BY <1>3, <1>4, RuleFacts
<1>6. PICK f : Evaluates(rule, context, m - 1, f)
  BY <1>5
<1> DEFINE Of(h, i) == [k \in DOMAIN rule[i].args |-> h[rule[i].args[k]]]
           g == [i \in 1 .. m |-> IF i = m THEN Evaluated(rule[m], Of(f, m), context) ELSE f[i]]
<1>7. ASSUME NEW i \in 1 .. m PROVE Of(g, i) = Of(f, i)
  <2>1. \A k \in DOMAIN rule[i].args : rule[i].args[k] \in 1 .. m /\ rule[i].args[k] < m
    BY <1>5, <1>7, RuleFacts
  <2>2. \A j \in 1 .. m : j < m => g[j] = f[j]
    BY <1>5
  <2> QED
    BY <2>1, <2>2
<1>8. ASSUME NEW i \in 1 .. m PROVE g[i] = Evaluated(rule[i], Of(g, i), context)
  <2>1. CASE i = m
    BY <2>1, <1>7
  <2>2. CASE i # m
    <3>1. i \in 1 .. m - 1
      BY <1>5, <2>2
    <3>2. f[i] = Evaluated(rule[i], Of(f, i), context)
      BY <1>6, <3>1 DEF Evaluates
    <3> QED
      BY <1>7, <2>2, <3>2
  <2> QED
    BY <2>1, <2>2
<1>9. Evaluates(rule, context, m, g)
  <2>1. g = [i \in 1 .. m |-> Evaluated(rule[i], Of(g, i), context)]
    BY <1>8
  <2> QED
    BY <2>1 DEF Evaluates
<1> QED
  BY <1>3, <1>9

(* What Infer and Eval give, then, is what such a function gives the last    *)
(* node.                                                                     *)
LEMMA InferIsOfTheLast ==
    ASSUME NEW rule, IsRule(rule), NEW env
    PROVE  \E f : Infers(rule, env, Len(rule), f) /\ Infer(rule, env) = f[Len(rule)]
<1> DEFINE f == CHOOSE h : Infers(rule, env, Len(rule), h)
<1>1. Infers(rule, env, Len(rule), f)
  BY InferenceExists
<1>2. Infer(rule, env) = f[Len(rule)]
  BY RuleFacts, Zenon DEF Infer, Infers
<1> HIDE DEF f
<1> QED
  BY <1>1, <1>2

LEMMA EvalIsOfTheLast ==
    ASSUME NEW rule, IsRule(rule), NEW context
    PROVE  \E f : Evaluates(rule, context, Len(rule), f) /\ Eval(rule, context) = f[Len(rule)]
<1> DEFINE f == CHOOSE h : Evaluates(rule, context, Len(rule), h)
<1>1. Evaluates(rule, context, Len(rule), f)
  BY EvaluationExists
<1>2. Eval(rule, context) = f[Len(rule)]
  BY RuleFacts, Zenon DEF Eval, Evaluates
<1> HIDE DEF f
<1> QED
  BY <1>1, <1>2

(***************************************************************************)
(* Type soundness, node by node: when the type checker has nothing to say of *)
(* a node, its value is of the type that it has.                             *)
(***************************************************************************)
LEMMA OperatorsAreSound ==
    ASSUME NEW node, NEW s, NEW t, IsType(s), IsType(t), Operator(node.op, s, t).codes = {},
           node.op # "in", NEW vs, vs[1] = s, vs[2] = t
    PROVE  /\ Applied(node, vs) = Operator(node.op, s, t).type
           /\ IsType(Operator(node.op, s, t).type)
<1> DEFINE own == Operator(node.op, s, t)
<1>1. Untyped.codes # {}
  BY DEF Untyped, Typed
<1>2. \A u, codes_ : Typed(u, codes_).type = u /\ Typed(u, codes_).codes = codes_
  BY DEF Typed
<1>3. \A c : Expect(c) = {} => c
  BY DEF Expect
<1>4. CASE node.op \in Comparisons
  <2>1. own = Typed(BOOL, Expect(Compares(node.op, s, t)))
    BY <1>4 DEF Operator, Comparisons, Arithmetic
  <2>2. Compares(node.op, s, t)
    BY <2>1 DEF Typed, Expect
  <2>3. s = t /\ (node.op = "lt" => Ordered(s))
    BY <2>2 DEF Compares, Compatible
  <2>4. node.op \in {"eq", "ne", "lt"}
    BY <1>4 DEF Comparisons
  <2>5. Applied(node, vs) = BOOL
    BY <2>3, <2>4 DEF Applied, Comparisons, Arithmetic
  <2> QED
    BY <1>2, <2>1, <2>5, SimpleTypes
<1>5. CASE node.op \in {"and", "or"}
  <2>1. own = Typed(BOOL, Expect(s = BOOL /\ t = BOOL))
    BY <1>5 DEF Operator, Comparisons, Arithmetic
  <2>2. s = BOOL /\ t = BOOL
    BY <2>1 DEF Typed, Expect
  <2>3. Applied(node, vs) = BOOL
    BY <1>5, <2>2 DEF Applied, Comparisons, Arithmetic
  <2> QED
    BY <1>2, <2>1, <2>3, SimpleTypes
<1>6. CASE node.op \in Arithmetic
  <2>1. own = IF s.kind \in Addable(node.op) /\ s = t THEN Typed(s, {}) ELSE Untyped
    BY <1>6 DEF Operator, Comparisons, Arithmetic
  <2>2. s.kind \in Addable(node.op) /\ s = t /\ own = Typed(s, {})
    BY <1>1, <2>1
  <2>3. Applied(node, vs) = s
    BY <1>6, <2>2 DEF Applied, Comparisons, Arithmetic
  <2> QED
    BY <1>2, <2>2, <2>3
<1>7. CASE node.op = "contains"
  <2>1. own = Typed(BOOL, Expect(IF s.kind = "list" THEN s.item = t
                                  ELSE s.kind = "string" /\ t = Text))
    BY <1>7 DEF Operator, Comparisons, Arithmetic
  <2>2. s.kind = "list" \/ (s.kind = "string" /\ t = Text)
    BY <2>1 DEF Typed, Expect
  <2>3. Text.kind = "string"
    BY DEF Text, Enumeration
  <2>4. Applied(node, vs) = BOOL
    BY <1>7, <2>2, <2>3 DEF Applied, Comparisons, Arithmetic
  <2> QED
    BY <1>2, <2>1, <2>4, SimpleTypes
<1>8. CASE node.op = "startsWith"
  <2>1. own = Typed(BOOL, Expect(s = Text /\ t = Text))
    BY <1>8 DEF Operator, Comparisons, Arithmetic
  <2>2. s = Text /\ t = Text
    BY <2>1 DEF Typed, Expect
  <2>3. Text.kind = "string"
    BY DEF Text, Enumeration
  <2>4. Applied(node, vs) = BOOL
    BY <1>8, <2>2, <2>3 DEF Applied, Comparisons, Arithmetic
  <2> QED
    BY <1>2, <2>1, <2>4, SimpleTypes
<1>9. CASE node.op = "index"
  <2>1. CASE s.kind = "list"
    <3>1. own = Typed(s.item, Expect(t = INT))
      BY <1>9, <2>1 DEF Operator, Comparisons, Arithmetic
    <3>2. t = INT
      BY <3>1 DEF Typed, Expect
    <3>3. Applied(node, vs) = s.item
      BY <1>9, <2>1, <3>2 DEF Applied, Comparisons, Arithmetic
    <3> QED
      BY <1>2, <2>1, <3>1, <3>3, TypeFacts
  <2>2. CASE s.kind = "map"
    <3>1. own = Typed(s.value, Expect(t = s.key))
      BY <1>9, <2>2 DEF Operator, Comparisons, Arithmetic
    <3>2. t = s.key
      BY <3>1 DEF Typed, Expect
    <3>3. Applied(node, vs) = s.value
      BY <1>9, <2>2, <3>2 DEF Applied, Comparisons, Arithmetic
    <3> QED
      BY <1>2, <2>2, <3>1, <3>3, TypeFacts
  <2>3. CASE s.kind \notin {"list", "map"}
    <3>1. own = Untyped
      BY <1>9, <2>3 DEF Operator, Comparisons, Arithmetic
    <3> QED
      BY <1>1, <3>1
  <2> QED
    BY <2>1, <2>2, <2>3
<1>10. CASE node.op \notin Comparisons \cup {"and", "or"} \cup Arithmetic
                           \cup {"contains", "startsWith", "index"}
  <2>1. own = Untyped
    BY <1>10 DEF Operator, Comparisons, Arithmetic
  <2> QED
    BY <1>1, <2>1
<1> QED
  BY <1>4, <1>5, <1>6, <1>7, <1>8, <1>9, <1>10

(* The same of the literals of lists and maps.                               *)
LEMMA ListsAreSound ==
    ASSUME NEW node, node.op = "list", NEW ts, Len(ts) \in Nat, DOMAIN ts = 1 .. Len(ts),
           \A k \in DOMAIN ts : IsType(ts[k].type), ListLiteral(ts).codes = {},
           NEW vs, vs = [k \in DOMAIN ts |-> ts[k].type]
    PROVE  Applied(node, vs) = ListLiteral(ts).type /\ IsType(ListLiteral(ts).type)
<1>1. Untyped.codes # {}
  BY DEF Untyped, Typed
<1>2. Len(ts) # 0 /\ ListLiteral(ts) =
          Typed(IF ts[1].type = None THEN None ELSE ListOf(ts[1].type),
                Expect(\A k \in 2 .. Len(ts) : Compatible(ts[1].type, ts[k].type)))
  BY <1>1 DEF ListLiteral
<1>3. IsType(ts[1].type) /\ ts[1].type # None
  BY <1>2, TypeFacts
<1>4. \A k \in 2 .. Len(ts) : Compatible(ts[1].type, ts[k].type)
  BY <1>2 DEF Typed, Expect
<1>5. \A k \in DOMAIN vs : vs[k] = vs[1]
  <2>1. \A k \in 2 .. Len(ts) : ts[k].type = ts[1].type
    BY <1>4 DEF Compatible
  <2> QED
    BY <1>2, <2>1
<1>6. Applied(node, vs) = ListOf(ts[1].type)
  BY <1>2, <1>5 DEF Applied, Comparisons, Arithmetic
<1>7. ListLiteral(ts).type = ListOf(ts[1].type)
  BY <1>2, <1>3 DEF Typed
<1> QED
  BY <1>3, <1>6, <1>7, ListTypes

LEMMA MapsAreSound ==
    ASSUME NEW node, node.op = "map", NEW ts, Len(ts) \in Nat, DOMAIN ts = 1 .. Len(ts),
           \A k \in DOMAIN ts : IsType(ts[k].type), MapLiteral(ts).codes = {},
           NEW vs, vs = [k \in DOMAIN ts |-> ts[k].type]
    PROVE  Applied(node, vs) = MapLiteral(ts).type /\ IsType(MapLiteral(ts).type)
<1>1. Untyped.codes # {}
  BY DEF Untyped, Typed
<1>2. /\ Len(ts) # 0 /\ Len(ts) % 2 # 1
      /\ MapLiteral(ts) =
          Typed(IF None \in {ts[1].type, ts[2].type} THEN None
                ELSE MapOf(ts[1].type, ts[2].type),
                Expect(\A k \in 3 .. Len(ts) : Compatible(ts[2 - (k % 2)].type, ts[k].type)))
  BY <1>1 DEF MapLiteral
<1>3. 1 \in DOMAIN ts /\ 2 \in DOMAIN ts
  BY <1>2
<1>4. /\ IsType(ts[1].type) /\ ts[1].type # None
      /\ IsType(ts[2].type) /\ ts[2].type # None
  BY <1>3, TypeFacts
<1>5. \A k \in 3 .. Len(ts) : Compatible(ts[2 - (k % 2)].type, ts[k].type)
  BY <1>2 DEF Typed, Expect
<1>6. \A k \in DOMAIN vs : vs[k] = vs[2 - (k % 2)]
  <2> SUFFICES ASSUME NEW k \in 1 .. Len(ts) PROVE vs[k] = vs[2 - (k % 2)]
    OBVIOUS
  <2>1. CASE k \in 1 .. 2
    <3>1. 2 - (k % 2) = k
      BY <2>1
    <3> QED
      BY <3>1
  <2>2. CASE k \in 3 .. Len(ts)
    <3>1. ts[2 - (k % 2)].type = ts[k].type
      BY <1>5, <2>2 DEF Compatible
    <3>2. 2 - (k % 2) \in DOMAIN ts
      BY <1>3, <2>2
    <3> QED
      BY <3>1, <3>2
  <2> QED
    BY <2>1, <2>2
<1>7. Applied(node, vs) = MapOf(ts[1].type, ts[2].type)
  <2>1. vs[1] = ts[1].type /\ vs[2] = ts[2].type
    BY <1>3
  <2> QED
    BY <1>6, <2>1 DEF Applied, Comparisons, Arithmetic
<1>8. MapLiteral(ts).type = MapOf(ts[1].type, ts[2].type)
  BY <1>2, <1>4 DEF Typed
<1> QED
  BY <1>4, <1>7, <1>8, MapTypes

LEMMA NodesAreSound ==
    ASSUME NEW node, NEW env, \A x \in DOMAIN env : IsType(env[x]),
           NEW n, n \in Nat, n \in Arity(node.op),
           node.op = "literal" => node.type \in {None, BOOL, INT, DOUBLE, Text},
           NEW ts, DOMAIN ts = 1 .. n, Len(ts) = n,
           \A k \in 1 .. n : IsType(ts[k].type),
           OwnType(node, ts, env).codes = {}, node.op # "in",
           NEW ws, DOMAIN ws = 1 .. n, \A k \in 1 .. n : ws[k].type = ts[k].type,
           node.op \notin {"ident", "literal", "has"} => Implemented(node, ws)
    PROVE  /\ Evaluated(node, ws, env).type = OwnType(node, ts, env).type
           /\ IsType(OwnType(node, ts, env).type)
<1> DEFINE own == OwnType(node, ts, env)
           op == node.op
           vs == [k \in 1 .. n |-> ts[k].type]
<1>1. Untyped.codes # {}
  BY DEF Untyped, Typed
<1>2. \A u, c : Typed(u, c).type = u /\ Typed(u, c).codes = c
  BY DEF Typed
<1>3. \A k \in DOMAIN vs : IsType(vs[k]) /\ vs[k] # Raised
  BY TypeFacts
<1>4. ASSUME op \notin {"ident", "literal", "has"}
      PROVE  Evaluated(node, ws, env).type = Applied(node, vs)
  <2> DEFINE types == [k \in DOMAIN ws |-> ws[k].type]
  <2>1. types = vs
    OBVIOUS
  <2>2. \A k \in DOMAIN ws : types[k] # Raised
    BY <1>3, <2>1
  <2>3. Evaluated(node, ws, env) = Made(node, ws, Applied(node, types))
    <3> HIDE DEF vs
    <3> QED
      BY <1>4, <2>2, Zenon DEF Evaluated
  <2>4. \A t : Made(node, ws, t).type = t
    BY DEF Made, Value, Converted
  <2> HIDE DEF types, vs
  <2> QED
    BY <2>1, <2>3, <2>4
<1>5. CASE op = "ident"
  <2>1. own = IF node.name \in DOMAIN env THEN Typed(env[node.name], {}) ELSE Untyped
    BY <1>5 DEF OwnType
  <2>2. node.name \in DOMAIN env /\ own.type = env[node.name]
    BY <1>1, <1>2, <2>1
  <2>3. Evaluated(node, ws, env).type = env[node.name]
    BY <1>5, <2>2 DEF Evaluated, Converted, Value
  <2> QED
    BY <2>2, <2>3
<1>6. CASE op = "literal"
  <2>1. own = Typed(node.type, Expect(node.type # None))
    BY <1>6 DEF OwnType
  <2>2. node.type # None /\ own.type = node.type
    BY <2>1 DEF Typed, Expect
  <2>3. Evaluated(node, ws, env).type = node.type
    BY <1>6 DEF Evaluated, Value
  <2>4. IsType(node.type)
    BY <1>6, <2>2, SimpleTypes
  <2> QED
    BY <2>2, <2>3, <2>4
<1>7. CASE op = "has"
  <2>1. own.type = BOOL
    BY <1>7 DEF OwnType, Typed
  <2>2. Evaluated(node, ws, env).type = BOOL
    BY <1>7 DEF Evaluated, Value
  <2> QED
    BY <2>1, <2>2, SimpleTypes
<1>8. ASSUME op \in {"dot", "not", "minus", "size"}
      PROVE  n = 1 /\ vs[1] = ts[1].type /\ IsType(ts[1].type)
  BY <1>8 DEF Arity
<1>9. CASE op = "dot"
  <2>1. own = IF node.name \in DOMAIN FieldsOf(ts[1].type)
              THEN Typed(ts[1].type.fields[node.name], {}) ELSE Untyped
    BY <1>9 DEF OwnType
  <2>2. /\ node.name \in DOMAIN FieldsOf(ts[1].type)
        /\ own.type = ts[1].type.fields[node.name]
    BY <1>1, <1>2, <2>1
  <2>3. ts[1].type.kind = "object" /\ node.name \in DOMAIN ts[1].type.fields
    BY <2>2 DEF FieldsOf
  <2>4. IsType(own.type)
    BY <1>8, <1>9, <2>2, <2>3, TypeFacts
  <2>5. Applied(node, vs) = own.type
    BY <1>8, <1>9, <2>2 DEF Applied, Arithmetic
  <2> QED
    BY <1>4, <1>9, <2>4, <2>5
<1>10. CASE op = "not"
  <2>1. own = Typed(BOOL, Expect(ts[1].type = BOOL))
    BY <1>10 DEF OwnType
  <2>2. ts[1].type = BOOL /\ own.type = BOOL
    BY <2>1 DEF Typed, Expect
  <2>3. Applied(node, vs) = BOOL
    BY <1>8, <1>10, <2>2 DEF Applied, Arithmetic
  <2> QED
    BY <1>4, <1>10, <2>2, <2>3, SimpleTypes
<1>11. CASE op = "minus"
  <2>1. own = IF Numeric(ts[1].type) THEN Typed(ts[1].type, {}) ELSE Untyped
    BY <1>11 DEF OwnType
  <2>2. Numeric(ts[1].type) /\ own.type = ts[1].type
    BY <1>1, <1>2, <2>1
  <2>3. Applied(node, vs) = ts[1].type
    BY <1>8, <1>11, <2>2 DEF Applied, Arithmetic
  <2> QED
    BY <1>4, <1>8, <1>11, <2>2, <2>3
<1>12. CASE op = "size"
  <2>1. own = Typed(INT, Expect(Sized(ts[1].type)))
    BY <1>12 DEF OwnType
  <2>2. Sized(ts[1].type) /\ own.type = INT
    BY <2>1 DEF Typed, Expect
  <2>3. Applied(node, vs) = INT
    BY <1>8, <1>12, <2>2 DEF Applied, Arithmetic
  <2> QED
    BY <1>4, <1>12, <2>2, <2>3, SimpleTypes
<1>13. CASE op = "if"
  <2>0. n = 3
    BY <1>13 DEF Arity
  <2>1. own = IF Compatible(ts[2].type, ts[3].type)
              THEN Typed(ts[2].type, Expect(ts[1].type = BOOL)) ELSE Untyped
    BY <1>13 DEF OwnType
  <2>2. Compatible(ts[2].type, ts[3].type) /\ own = Typed(ts[2].type, Expect(ts[1].type = BOOL))
    BY <1>1, <2>1
  <2>3. ts[1].type = BOOL /\ own.type = ts[2].type /\ ts[2].type = ts[3].type
    BY <2>2 DEF Typed, Expect, Compatible
  <2>4. vs[1] = ts[1].type /\ vs[2] = ts[2].type /\ vs[3] = ts[3].type
    BY <2>0
  <2>5. Applied(node, vs) = ts[2].type
    BY <1>13, <2>3, <2>4 DEF Applied, Arithmetic
  <2>6. IsType(ts[2].type)
    BY <2>0
  <2> QED
    BY <1>4, <1>13, <2>3, <2>5, <2>6
<1>14. CASE op = "list"
  <2>1. own = ListLiteral(ts)
    BY <1>14 DEF OwnType
  <2>2. Applied(node, vs) = ListLiteral(ts).type /\ IsType(ListLiteral(ts).type)
    BY <1>14, <2>1, ListsAreSound
  <2> QED
    BY <1>4, <1>14, <2>1, <2>2
<1>15. CASE op = "map"
  <2>1. own = MapLiteral(ts)
    BY <1>15 DEF OwnType
  <2>2. Applied(node, vs) = MapLiteral(ts).type /\ IsType(MapLiteral(ts).type)
    BY <1>15, <2>1, MapsAreSound
  <2> QED
    BY <1>4, <1>15, <2>1, <2>2
<1>16. CASE op = "macro"
  <2>1. own = Typed(None, {"LLMF413"})
    BY <1>16 DEF OwnType
  <2> QED
    BY <1>2, <2>1
<1>17. CASE op \notin {"ident", "literal", "has", "dot", "not", "minus", "size", "if", "list",
                       "map", "macro"}
  <2>1. own = Operator(op, ts[1].type, ts[2].type)
    BY <1>17 DEF OwnType
  <2>2. n = 2
    BY <1>17 DEF Arity
  <2>3. vs[1] = ts[1].type /\ vs[2] = ts[2].type /\ IsType(ts[1].type) /\ IsType(ts[2].type)
    BY <2>2
  <2> DEFINE of == Operator(node.op, ts[1].type, ts[2].type)
  <2>4. of.codes = {}
    BY <2>1
  <2>5. Applied(node, vs) = of.type /\ IsType(of.type)
    BY <2>3, <2>4, OperatorsAreSound
  <2> QED
    BY <1>4, <1>17, <2>1, <2>5
<1> QED
  BY <1>5, <1>6, <1>7, <1>9, <1>10, <1>11, <1>12, <1>13, <1>14, <1>15, <1>16, <1>17

(* A node that makes its value makes one of celpy's, if it is evaluated.      *)
LEMMA OwnAreMade ==
    ASSUME NEW node, MakesOwn(node), node.op # "ident", NEW ws, NEW env,
           Evaluated(node, ws, env).type # Raised,
           node.op \in {"and", "or"} => ws[1].own /\ ws[2].own
    PROVE  Evaluated(node, ws, env).own
<1>1. node.op \notin {"ident", "dot", "index", "minus", "if"} \cup Arithmetic
  BY DEF MakesOwn
<1>2. \A t : Made(node, ws, t).own
  BY <1>1 DEF Made, Value
<1>3. \A t, own : Value(t, own).type = t /\ Value(t, own).own = own
  BY DEF Value
<1>4. CASE node.op \in {"literal", "has"}
  BY <1>3, <1>4 DEF Evaluated
<1>5. CASE node.op \notin {"ident", "literal", "has"}
  <2> DEFINE types == [k \in DOMAIN ws |-> ws[k].type]
             good == /\ \A k \in DOMAIN ws : types[k] # Raised
                     /\ Implemented(node, ws)
  <2>1. Evaluated(node, ws, env) = IF good THEN Made(node, ws, Applied(node, types))
                                   ELSE Value(Raised, FALSE)
    BY <1>5, Zenon DEF Evaluated
  <2> HIDE DEF good, types
  <2> QED
    BY <1>2, <1>3, <2>1
<1> QED
  BY <1>1, <1>4, <1>5

(* The findings of rules are those of the type checker.                      *)
LEMMA OwnCodes ==
    ASSUME NEW node, NEW env, NEW ts
    PROVE  OwnType(node, ts, env).codes \subseteq {"LLMF411", "LLMF413"}
<1> DEFINE Codes == {"LLMF411", "LLMF413"}
<1>1. \A u, c : Typed(u, c).codes = c
  BY DEF Typed
<1>2. Untyped.codes \subseteq Codes
  BY DEF Untyped, Typed
<1>3. \A c : Expect(c) \subseteq Codes
  BY DEF Expect
<1>4. ListLiteral(ts).codes \subseteq Codes /\ MapLiteral(ts).codes \subseteq Codes
  BY <1>2, <1>3 DEF ListLiteral, MapLiteral, Typed, Expect
<1>5. \A op, s, t : Operator(op, s, t).codes \subseteq Codes
  BY <1>2 DEF Operator, Typed, Expect, Comparisons, Arithmetic
<1> QED
  BY <1>2, <1>4, <1>5 DEF OwnType, Typed, Expect

(* A node and what its n operands were inferred and evaluated to, without      *)
(* anything that went wrong before.                                            *)
Sane(node, n, ts, ws, env) ==
    /\ \A x \in DOMAIN env : IsType(env[x])
    /\ n \in Nat /\ n \in Arity(node.op)
    /\ node.op = "literal" => node.type \in {None, BOOL, INT, DOUBLE, Text}
    /\ DOMAIN ts = 1 .. n /\ Len(ts) = n
    /\ \A k \in 1 .. n : IsType(ts[k].type)
    /\ OwnType(node, ts, env).codes = {}
    /\ node.op # "in"
    /\ DOMAIN ws = 1 .. n /\ \A k \in 1 .. n : ws[k].type = ts[k].type
    /\ Implemented(node, ws)

(* NodesAreSound, for a node of a rule.                                        *)
LEMMA SaneNodesAreSound ==
    ASSUME NEW node, NEW n, NEW ts, NEW ws, NEW env, Sane(node, n, ts, ws, env)
    PROVE  /\ Evaluated(node, ws, env).type = OwnType(node, ts, env).type
           /\ IsType(OwnType(node, ts, env).type)
BY NodesAreSound DEF Sane

(***************************************************************************)
(* Type soundness: a rule has no findings but the type checker's, and one    *)
(* that has none evaluates, in an environment of the types that it was       *)
(* compiled against, to a value of the type inferred.                        *)
(***************************************************************************)
LEMMA InferenceIsSound ==
    ASSUME NEW rule, IsRule(rule), NEW env, \A x \in DOMAIN env : IsType(env[x])
    PROVE  /\ Infer(rule, env).codes \subseteq {"LLMF411", "LLMF413"}
           /\ Infer(rule, env).codes = {} /\ KeepsToCel(rule) =>
                 Eval(rule, env).type = Infer(rule, env).type /\ IsType(Infer(rule, env).type)
<1>1. PICK f : Infers(rule, env, Len(rule), f) /\ Infer(rule, env) = f[Len(rule)]
  BY InferIsOfTheLast
<1>2. PICK g : Evaluates(rule, env, Len(rule), g) /\ Eval(rule, env) = g[Len(rule)]
  BY EvalIsOfTheLast
<1> DEFINE Sound(i) == /\ f[i].codes \subseteq {"LLMF411", "LLMF413"}
                       /\ f[i].codes = {} /\ KeepsToCel(rule) =>
                             /\ g[i].type = f[i].type /\ IsType(f[i].type)
                             /\ MakesOwn(rule[i]) => g[i].own
           Bad == {i \in 1 .. Len(rule) : ~ Sound(i)}
<1>3. SUFFICES Bad = {}
  <2>1. Len(rule) \in 1 .. Len(rule)
    BY RuleFacts
  <2>2. Sound(Len(rule))
    BY <1>3, <2>1
  <2> QED
    BY <1>1, <1>2, <2>2
<1>4. SUFFICES ASSUME Bad # {} PROVE FALSE
  OBVIOUS
<1>5. PICK i \in Bad : \A j \in Bad : i <= j
  <2>1. Bad \subseteq Nat
    BY RuleFacts
  <2> HIDE DEF Bad
  <2> QED
    BY <1>4, <2>1, LeastElement
<1> DEFINE node == rule[i]
           n == Len(node.args)
           ts == [k \in DOMAIN node.args |-> f[node.args[k]]]
           us == [k \in DOMAIN node.args |-> g[node.args[k]]]
           own == OwnType(node, ts, env)
<1>6. i \in 1 .. Len(rule) /\ ~ Sound(i)
  BY <1>5
<1>7. /\ n \in Nat /\ n \in Arity(node.op) /\ DOMAIN node.args = 1 .. n
      /\ node.op = "literal" => node.type \in {None, BOOL, INT, DOUBLE, Text}
  <2>1. i \in DOMAIN rule
    BY <1>6, RuleFacts
  <2>2. /\ node.args \in Seq(1 .. i - 1) /\ Len(node.args) \in Arity(node.op)
        /\ node.op = "literal" => node.type \in {None, BOOL, INT, DOUBLE, Text}
    BY <2>1, Zenon DEF IsRule
  <2>3. n \in Nat /\ DOMAIN node.args = 1 .. n
    BY <2>2, LenProperties
  <2> QED
    BY <2>2, <2>3
<1>8. ASSUME NEW k \in 1 .. n
      PROVE  ts[k] = f[node.args[k]] /\ us[k] = g[node.args[k]] /\ Sound(node.args[k])
  <2>1. node.args[k] \in 1 .. Len(rule) /\ node.args[k] < i
    BY <1>6, <1>7, RuleFacts
  <2>2. node.args[k] \notin Bad
    BY <1>5, <1>6, <2>1
  <2> QED
    BY <1>7, <2>1, <2>2
<1>9. f[i] = Inferred(node, ts, env) /\ g[i] = Evaluated(node, us, env)
  BY <1>1, <1>2, <1>6 DEF Infers, Evaluates
<1>10. f[i] = Typed(own.type, own.codes \cup UNION {ts[k].codes : k \in 1 .. n})
  BY <1>7, <1>9 DEF Inferred
<1>11. f[i].type = own.type /\ f[i].codes = own.codes \cup UNION {ts[k].codes : k \in 1 .. n}
  BY <1>10 DEF Typed
<1>12. f[i].codes \subseteq {"LLMF411", "LLMF413"}
  <2>1. own.codes \subseteq {"LLMF411", "LLMF413"}
    BY OwnCodes
  <2>2. \A k \in 1 .. n : ts[k].codes \subseteq {"LLMF411", "LLMF413"}
    BY <1>8
  <2> HIDE DEF own, ts
  <2> QED
    BY <1>11, <2>1, <2>2
<1>13. ASSUME f[i].codes = {}, KeepsToCel(rule)
       PROVE  /\ g[i].type = f[i].type /\ IsType(f[i].type)
              /\ MakesOwn(node) => g[i].own
  <2>1. own.codes = {} /\ \A k \in 1 .. n : ts[k].codes = {}
    <3> HIDE DEF own, ts
    <3> QED
      BY <1>11, <1>13
  <2>2. \A k \in 1 .. n : /\ us[k].type = ts[k].type /\ IsType(ts[k].type)
                          /\ MakesOwn(rule[node.args[k]]) => us[k].own
    BY <1>8, <1>13, <2>1
  <2>3. DOMAIN us = 1 .. n
    BY <1>7
  <2>4. DOMAIN ts = 1 .. n /\ Len(ts) = n
    <3>1. DOMAIN ts = 1 .. n
      BY <1>7
    <3>2. ts \in [1 .. n -> {ts[k] : k \in 1 .. n}]
      BY <1>7
    <3>3. ts \in Seq({ts[k] : k \in 1 .. n})
      BY <1>7, <3>2, SeqDef
    <3>4. Len(ts) \in Nat /\ DOMAIN ts = 1 .. Len(ts)
      BY <3>3, LenProperties
    <3> HIDE DEF ts, n
    <3> QED
      BY <1>7, <3>1, <3>4
  <2> DEFINE operand(k) == rule[node.args[k]]
  <2>5. /\ node.op # "in"
        /\ node.op \in {"not", "if", "contains", "and", "or"} => MakesOwn(operand(1))
        /\ node.op \in {"and", "or"} => MakesOwn(operand(2))
        /\ node.op = "index" => IsKeyLiteral(operand(2))
        /\ node.op = "map" => \A k \in 1 .. n : k % 2 = 1 => IsKeyLiteral(operand(k))
    <3> DEFINE operands == [k \in DOMAIN node.args |-> rule[node.args[k]]]
    <3>1. /\ node.op # "in"
          /\ node.op \in {"not", "if", "contains", "and", "or"} => MakesOwn(operands[1])
          /\ node.op \in {"and", "or"} => MakesOwn(operands[2])
          /\ node.op = "index" => IsKeyLiteral(operands[2])
          /\ node.op = "map" =>
                \A k \in DOMAIN operands : k % 2 = 1 => IsKeyLiteral(operands[k])
      <4>1. i \in DOMAIN rule
        BY <1>6, RuleFacts
      <4> QED
        BY <1>13, <4>1, Zenon DEF KeepsToCel
    <3>2. /\ node.op \in {"not", "if", "contains"} => n \in {1, 2, 3}
          /\ node.op \in {"and", "or", "index"} => n = 2
      BY <1>7 DEF Arity
    <3>3. DOMAIN operands = 1 .. n /\ \A k \in 1 .. n : operands[k] = operand(k)
      BY <1>7
    <3> HIDE DEF operands, operand, n, node
    <3> QED
      BY <3>1, <3>2, <3>3
  <2>6. /\ node.op \in {"not", "if", "contains", "and", "or"} => us[1].own
        /\ node.op \in {"and", "or"} => us[2].own
    <3>1. /\ node.op \in {"not", "if", "contains"} => n \in {1, 2, 3}
          /\ node.op \in {"and", "or"} => n = 2
      BY <1>7 DEF Arity
    <3> HIDE DEF us, ts, n, node
    <3> QED
      BY <2>2, <2>5, <3>1
  <2>7. ASSUME NEW k \in 1 .. n, IsKeyLiteral(operand(k)) PROVE IsKey(us[k])
    <3> DEFINE j == node.args[k]
    <3>1. j \in 1 .. Len(rule) /\ us[k] = g[j] /\ ts[k] = f[j] /\ j \in DOMAIN rule
      BY <1>6, <1>7, RuleFacts
    <3>2. rule[j].op = "literal" /\ rule[j].type # DOUBLE
      BY <2>7 DEF IsKeyLiteral
    <3>3. rule[j].type \in {None, BOOL, INT, DOUBLE, Text}
      BY <3>1, <3>2, Zenon DEF IsRule
    <3>4. \E xs : g[j] = Evaluated(rule[j], xs, env)
      BY <1>2, <3>1 DEF Evaluates
    <3>5. g[j] = Value(rule[j].type, TRUE)
      BY <3>2, <3>4 DEF Evaluated
    <3>6. rule[j].type # None
      <4>1. IsType(ts[k].type) /\ us[k].type = ts[k].type
        BY <2>2
      <4>2. us[k].type = rule[j].type
        BY <3>1, <3>5 DEF Value
      <4> HIDE DEF us, ts, j
      <4> QED
        BY <4>1, <4>2, TypeFacts
    <3>7. us[k].own /\ us[k].type \in {BOOL, INT, Text}
      <4> HIDE DEF us, j
      <4> QED
        BY <3>1, <3>2, <3>3, <3>5, <3>6 DEF Value
    <3> HIDE DEF us
    <3> QED
      BY <3>7 DEF IsKey, BOOL, INT, Text, Enumeration
  <2>8. Implemented(node, us)
    <3>1. node.op = "index" => IsKey(us[2])
      <4>1. node.op = "index" => n = 2
        BY <1>7 DEF Arity
      <4> HIDE DEF us, n, node
      <4> QED
        BY <2>5, <2>7, <4>1
    <3>2. node.op = "map" => \A k \in DOMAIN us : k % 2 = 1 => IsKey(us[k])
      <4> HIDE DEF us, n, node
      <4> QED
        BY <2>3, <2>5, <2>7
    <3> HIDE DEF us, n, node
    <3> QED
      BY <2>6, <3>1, <3>2 DEF Implemented
  <2>9. Evaluated(node, us, env).type = own.type /\ IsType(own.type)
    <3>2. OwnType(node, ts, env).codes = {}
      BY <2>1
    <3>3. \A k \in 1 .. n : us[k].type = ts[k].type /\ IsType(ts[k].type)
      BY <2>2
    <3>4. node.op # "in"
      BY <2>5
    <3> HIDE DEF us, ts, n, node, own
    <3>5. n \in Nat /\ n \in Arity(node.op)
      BY <1>7
    <3>6. node.op = "literal" => node.type \in {None, BOOL, INT, DOUBLE, Text}
      BY <1>7
    <3>7. DOMAIN ts = 1 .. n /\ Len(ts) = n /\ DOMAIN us = 1 .. n
      BY <2>3, <2>4
    <3>8. /\ Evaluated(node, us, env).type = OwnType(node, ts, env).type
          /\ IsType(OwnType(node, ts, env).type)
      <4>1. \A x \in DOMAIN env : IsType(env[x])
        OBVIOUS
      <4>2. Sane(node, n, ts, us, env)
        BY <2>8, <3>2, <3>3, <3>4, <3>5, <3>6, <3>7, <4>1 DEF Sane
      <4> QED
        BY <4>2, SaneNodesAreSound
    <3> QED
      BY <3>8 DEF own
  <2>10. MakesOwn(node) => Evaluated(node, us, env).own
    <3>1. Evaluated(node, us, env).type # Raised
      <4> HIDE DEF us, node, own
      <4> QED
        BY <2>9, TypeFacts
    <3>2. MakesOwn(node) => node.op # "ident"
      BY DEF MakesOwn
    <3> HIDE DEF us, node
    <3> QED
      BY <2>6, <3>1, <3>2, OwnAreMade
  <2> HIDE DEF us, ts, node, own
  <2> QED
    BY <1>9, <1>11, <2>9, <2>10
<1>14. Sound(i)
  BY <1>12, <1>13
<1> QED
  BY <1>6, <1>14

LEMMA RulesAreSound ==
    ASSUME NEW rule, IsRule(rule), NEW env, \A x \in DOMAIN env : IsType(env[x])
    PROVE  /\ RuleCodes(rule, env) \subseteq {"LLMF411", "LLMF412", "LLMF413"}
           /\ RuleCodes(rule, env) = {} /\ KeepsToCel(rule) => Eval(rule, env).type = BOOL
<1>1. RuleCodes(rule, env) \subseteq {"LLMF411", "LLMF412", "LLMF413"}
  BY InferenceIsSound DEF RuleCodes
<1>2. ASSUME RuleCodes(rule, env) = {}, KeepsToCel(rule) PROVE Eval(rule, env).type = BOOL
  <2>1. Infer(rule, env).codes = {} /\ Infer(rule, env).type \in {None, BOOL}
    BY <1>2 DEF RuleCodes
  <2>2. Eval(rule, env).type = Infer(rule, env).type /\ IsType(Infer(rule, env).type)
    BY <1>2, <2>1, InferenceIsSound
  <2>3. Infer(rule, env).type # None
    BY <2>2, TypeFacts
  <2> QED
    BY <2>1, <2>2, <2>3
<1> QED
  BY <1>1, <1>2

(***************************************************************************)
(* The environments of the hooks have types for their variables.             *)
(***************************************************************************)
LEMMA SetupTypes ==
    ASSUME IsSetup(setup), NEW t \in DOMAIN setup.tools
    PROVE  /\ InputType(setup, t) \in Types /\ Returned(setup, t) \in Types
           /\ ResultType(setup, t) \in Types
<1>1. /\ setup.tools[t].source \in DOMAIN setup.operations
      /\ setup.tools[t].operation \in DOMAIN setup.operations[setup.tools[t].source]
      /\ setup.tools[t].input \in DOMAIN Catalog
      /\ setup.tools[t].output \in DOMAIN Catalog \cup {NoSchema}
  BY DEF IsSetup
<1>2. Operation(setup, t).returns \in DOMAIN Catalog
  BY <1>1 DEF IsSetup, Operation
<1>3. \A s \in DOMAIN Catalog : Catalog[s].type \in Types
  BY CatalogAssumption
<1> QED
  BY <1>1, <1>2, <1>3 DEF InputType, Returned, ResultType

LEMMA AgentTypes ==
    ASSUME IsSetup(setup), NEW a \in DOMAIN setup.agents
    PROVE  IsType(InputOf(setup, a)) /\ IsType(DraftOf(setup, a))
<1>1. {setup.agents[a].input, setup.agents[a].output} \subseteq DOMAIN Catalog \cup {NoSchema}
  BY DEF IsSetup
<1>2. \A s \in DOMAIN Catalog : IsType(Catalog[s].type)
  BY CatalogAssumption, SchemaTypes
<1>3. IsType(ObjectOf([message |-> Text])) /\ IsType(ObjectOf([text |-> Text]))
  <2>1. \A x \in DOMAIN [message |-> Text] : IsType([message |-> Text][x])
    BY SimpleTypes
  <2>2. \A x \in DOMAIN [text |-> Text] : IsType([text |-> Text][x])
    BY SimpleTypes
  <2> QED
    BY <2>1, <2>2, ObjectTypes
<1> QED
  BY <1>1, <1>2, <1>3 DEF InputOf, DraftOf

LEMMA CommonTypes ==
    /\ IsType(Principal) /\ IsType(Messages) /\ IsType(Classes)
    /\ \A x \in DOMAIN Everywhere : IsType(Everywhere[x])
    /\ \A x \in DOMAIN AboutTool : IsType(AboutTool[x])
<1>1. IsType(Text) /\ IsType(ListOf(Text)) /\ IsType(MapOf(Text, Text))
  BY SimpleTypes, ListTypes, MapTypes
<1> DEFINE p == [id |-> Text, tenant |-> Text, role |-> Text, scopes |-> ListOf(Text),
                 attrs |-> MapOf(Text, Text)]
           q == [id |-> Text, name |-> Text, arguments |-> MapOf(Text, Text)]
           e == [tool_call_id |-> Text, name |-> Text, content |-> Text, is_error |-> BOOL]
           m == [role |-> Text, content |-> Text, tool_calls |-> ListOf(ObjectOf(q)),
                 tool_results |-> ListOf(ObjectOf(e))]
           c == [classes |-> ListOf(Text)]
           a == [name |-> Text]
           r == [id |-> Text, iteration |-> INT, cost_usd |-> DOUBLE, elapsed |-> DURATION,
                 principal |-> Principal]
           t == [name |-> Text, source |-> Text, operation |-> Text]
           s == [name |-> Text, type |-> Text]
<1>2. IsType(Principal)
  <2>1. \A x \in DOMAIN p : IsType(p[x])
    BY <1>1
  <2> QED
    BY <2>1, ObjectTypes DEF Principal
<1>3. IsType(Messages)
  <2>1. \A x \in DOMAIN q : IsType(q[x])
    BY <1>1
  <2>2. \A x \in DOMAIN e : IsType(e[x])
    BY <1>1, SimpleTypes
  <2>3. IsType(ListOf(ObjectOf(q))) /\ IsType(ListOf(ObjectOf(e)))
    <3> HIDE DEF q, e
    <3> QED
      BY <2>1, <2>2, ObjectTypes, ListTypes
  <2>4. \A x \in DOMAIN m : IsType(m[x])
    <3> HIDE DEF q, e
    <3> QED
      BY <1>1, <2>3
  <2>5. IsType(ListOf(ObjectOf(m)))
    <3> HIDE DEF m
    <3> QED
      BY <2>4, ObjectTypes, ListTypes
  <2> QED
    BY <2>5 DEF Messages, MessagesOf
<1>4. IsType(Classes)
  <2>1. \A x \in DOMAIN c : IsType(c[x])
    BY <1>1
  <2> QED
    BY <2>1, ObjectTypes DEF Classes
<1>5. IsType(ObjectOf(a)) /\ IsType(ObjectOf(r))
  <2>1. \A x \in DOMAIN a : IsType(a[x])
    BY <1>1
  <2>2. \A x \in DOMAIN r : IsType(r[x])
    BY <1>1, <1>2, SimpleTypes
  <2> QED
    BY <2>1, <2>2, ObjectTypes
<1>6. IsType(ObjectOf(t)) /\ IsType(ObjectOf(s))
  <2>1. \A x \in DOMAIN t : IsType(t[x])
    BY <1>1
  <2>2. \A x \in DOMAIN s : IsType(s[x])
    BY <1>1
  <2> QED
    BY <2>1, <2>2, ObjectTypes
<1>7. \A x \in DOMAIN Everywhere : IsType(Everywhere[x])
  BY <1>2, <1>5 DEF Everywhere
<1>8. \A x \in DOMAIN AboutTool : IsType(AboutTool[x])
  BY <1>6 DEF AboutTool
<1> QED
  BY <1>2, <1>3, <1>4, <1>7, <1>8

LEMMA Extended ==
    ASSUME NEW f, NEW g, \A x \in DOMAIN f : IsType(f[x]), \A x \in DOMAIN g : IsType(g[x])
    PROVE  \A x \in DOMAIN Extend(f, g) : IsType(Extend(f, g)[x])
BY DEF Extend

LEMMA EnvironmentTypes ==
    ASSUME IsSetup(setup), NEW a \in DOMAIN setup.agents, NEW hook \in Hooks, NEW t,
           hook \in ToolHooks => t \in DOMAIN setup.tools
    PROVE  \A x \in DOMAIN HookEnvironment(setup, a, hook, t) :
              IsType(HookEnvironment(setup, a, hook, t)[x])
<1> DEFINE own == CASE hook = "request"     -> [input |-> InputOf(setup, a)]
                    [] hook = "model_call"  -> [model |-> ObjectOf([name |-> Text, id |-> Text,
                                                                    provider |-> Text]),
                                                messages |-> Messages, data |-> Classes]
                    [] hook = "tool_call"   -> Extend(AboutTool, [args |-> InputType(setup, t)])
                    [] hook = "tool_result" -> Extend(AboutTool, [result |-> ResultType(setup, t)])
                    [] hook = "response"    -> [draft |-> DraftOf(setup, a)]
                    [] hook = "loop"        -> [iteration |-> INT, cost_usd |-> DOUBLE,
                                                elapsed |-> DURATION]
<1>1. \A x \in DOMAIN own : IsType(own[x])
  <2>1. CASE hook = "request"
    <3>1. own = [input |-> InputOf(setup, a)]
      BY <2>1
    <3> HIDE DEF own
    <3> QED
      BY <3>1, AgentTypes
  <2>2. CASE hook = "model_call"
    <3> DEFINE m == [name |-> Text, id |-> Text, provider |-> Text]
    <3>1. own = [model |-> ObjectOf(m), messages |-> Messages, data |-> Classes]
      BY <2>2
    <3>2. \A x \in DOMAIN m : IsType(m[x])
      BY SimpleTypes
    <3>3. IsType(ObjectOf(m))
      BY <3>2, ObjectTypes
    <3> HIDE DEF own, m
    <3> QED
      BY <3>1, <3>3, CommonTypes
  <2>3. CASE hook = "tool_call"
    <3> DEFINE e == [args |-> InputType(setup, t)]
    <3>1. own = Extend(AboutTool, e)
      BY <2>3
    <3>2. IsType(InputType(setup, t))
      BY <2>3, SetupTypes, SchemaTypes DEF ToolHooks
    <3>3. \A x \in DOMAIN e : IsType(e[x])
      BY <3>2
    <3> HIDE DEF own, e
    <3> QED
      BY <3>1, <3>3, CommonTypes, Extended
  <2>4. CASE hook = "tool_result"
    <3> DEFINE e == [result |-> ResultType(setup, t)]
    <3>1. own = Extend(AboutTool, e)
      BY <2>4
    <3>2. IsType(ResultType(setup, t))
      BY <2>4, SetupTypes, SchemaTypes DEF ToolHooks
    <3>3. \A x \in DOMAIN e : IsType(e[x])
      BY <3>2
    <3> HIDE DEF own, e
    <3> QED
      BY <3>1, <3>3, CommonTypes, Extended
  <2>5. CASE hook = "response"
    <3>1. own = [draft |-> DraftOf(setup, a)]
      BY <2>5
    <3> HIDE DEF own
    <3> QED
      BY <3>1, AgentTypes
  <2>6. CASE hook = "loop"
    <3>1. own = [iteration |-> INT, cost_usd |-> DOUBLE, elapsed |-> DURATION]
      BY <2>6
    <3> HIDE DEF own
    <3> QED
      BY <3>1, SimpleTypes
  <2> QED
    BY <2>1, <2>2, <2>3, <2>4, <2>5, <2>6 DEF Hooks
<1>2. HookEnvironment(setup, a, hook, t) = Extend(Everywhere, own)
  BY Zenon DEF HookEnvironment
<1> HIDE DEF own
<1> QED
  BY <1>1, <1>2, CommonTypes, Extended

-----------------------------------------------------------------------------
(*****************************************************************************)
(* OfflineChecks: the stages of _check_project, and the dispatches of a run of*)
(* the project that they accept.                                             *)
(*****************************************************************************)

(***************************************************************************)
(* The stages of _check_project leave each other's state alone: what holds   *)
(* of the references and of the schemas by themselves holds in the pipeline.  *)
(***************************************************************************)
LEMMA OfflineNextResolves == [OfflineNext]_offlineVars => [ResolveNext]_resolveVars
BY DEF OfflineNext, CheckReferences, ReferencesChecked, CheckSchemas, SchemasChecked, CheckRules,
       CheckSemantics, Dispatch, Evaluate, offlineVars, resolveVars

LEMMA OfflineNextCompiles == [OfflineNext]_offlineVars => [CompileNext]_schemaVars
BY DEF OfflineNext, CheckReferences, ReferencesChecked, CheckSchemas, SchemasChecked, CheckRules,
       CheckSemantics, Dispatch, Evaluate, offlineVars, schemaVars

THEOREM StagesAreSeparate == OfflineSpec => ResolveSpec /\ SchemaSpec
<1>1. OfflineInit => ResolveInit /\ SchemaInit
  BY DEF OfflineInit
<1>2. [OfflineNext]_offlineVars => [ResolveNext]_resolveVars
  BY OfflineNextResolves
<1>3. [OfflineNext]_offlineVars => [CompileNext]_schemaVars
  BY OfflineNextCompiles
<1> QED
  BY <1>1, <1>2, <1>3, PTL DEF OfflineSpec, ResolveSpec, SchemaSpec

(***************************************************************************)
(* The inductive invariant of the rules, the semantic checks and the         *)
(* dispatches: what is reported, in terms of the setup, and what was         *)
(* compiled.                                                                *)
(***************************************************************************)
CodesOf(c) == RuleCodes(setup.policies[c.policy].rule,
                        HookEnvironment(setup, c.agent, setup.policies[c.policy].on, c.tool))
RuleFindings == UNION {CodesOf(c) : c \in Compilable}

Staged ==
    /\ stage \in {"references", "schemas", "rules", "semantics", "accepted", "refused"}
    /\ stage \in {"schemas", "rules", "semantics", "accepted", "refused"} =>
          walk = "done" /\ project # NoProject
    /\ stage \in {"rules", "semantics", "accepted", "refused"} => compiled
    /\ stage \in {"references", "schemas", "rules"} => codes = {} /\ typed = {}

Gathered ==
    /\ stage \in {"semantics", "accepted", "refused"} => typed = Compilable
    /\ stage = "semantics" => codes = RuleFindings
    /\ stage \in {"accepted", "refused"} => codes = RuleFindings \cup SemanticFindings(setup)
    /\ stage = "accepted" => Valid /\ reports = {} /\ codes \subseteq Warning

Dispatched ==
    outcome # NotEvaluated =>
        /\ stage = "accepted"
        /\ outcome.agent \in DOMAIN setup.agents /\ outcome.policy \in DOMAIN setup.policies
        /\ outcome.tool \in DOMAIN setup.tools \cup {NoTool}
        /\ InForce(outcome.agent, outcome.policy, outcome.tool)

OInv == IsSetup(setup) /\ Staged /\ Gathered /\ Dispatched

LEMMA InitOInv == OfflineInit => OInv
BY DEF OfflineInit, CheckInit, OInv, Staged, Gathered, Dispatched

(* A step that leaves the schemas' reports and the setup alone.               *)
LEMMA SameSetup ==
    ASSUME UNCHANGED <<setup, reports>>
    PROVE  /\ Compilable' = Compilable /\ RuleFindings' = RuleFindings
           /\ SemanticFindings(setup)' = SemanticFindings(setup)
           /\ IsSetup(setup)' = IsSetup(setup)
           /\ \A a, p, t : InForce(a, p, t)' = InForce(a, p, t)
<1>1. Compilable' = Compilable
  BY DEF Compilable, Attachments, HasEnvironment
<1>2. RuleFindings' = RuleFindings
  BY <1>1 DEF RuleFindings, CodesOf
<1>3. \A a, p, t : InForce(a, p, t)' = InForce(a, p, t)
  BY DEF InForce
<1> QED
  BY <1>1, <1>2, <1>3

LEMMA NextOInv == OInv /\ [OfflineNext]_offlineVars => OInv'
<1> SUFFICES ASSUME OInv, [OfflineNext]_offlineVars PROVE OInv'
  OBVIOUS
<1> USE DEF OInv
<1>1. CASE CheckReferences
  <2>1. /\ stage = "references" /\ UNCHANGED <<setup, reports, compiled, stage, codes, typed, outcome>>
    BY <1>1 DEF CheckReferences, schemaVars, checkVars
  <2> QED
    BY <2>1, SameSetup DEF Staged, Gathered, Dispatched
<1>2. CASE ReferencesChecked
  <2>1. /\ stage = "references" /\ walk = "done" /\ project # NoProject /\ stage' = "schemas"
        /\ UNCHANGED <<walk, project, setup, reports, compiled, codes, typed, outcome>>
    BY <1>2 DEF ReferencesChecked, schemaVars, resolveVars, vars
  <2> QED
    BY <2>1, SameSetup DEF Staged, Gathered, Dispatched
<1>3. CASE CheckSchemas
  <2>1. stage = "schemas" /\ UNCHANGED <<walk, project, setup, stage, codes, typed, outcome>>
    BY <1>3 DEF CheckSchemas, checkVars, resolveVars, vars
  <2>2. outcome = NotEvaluated
    BY <2>1 DEF Dispatched
  <2>3. NotEvaluated' = NotEvaluated
    BY DEF NotEvaluated
  <2> QED
    BY <2>1, <2>2, <2>3 DEF Staged, Gathered, Dispatched
<1>4. CASE SchemasChecked
  <2>1. /\ stage = "schemas" /\ compiled /\ stage' = "rules"
        /\ UNCHANGED <<walk, project, setup, reports, compiled, codes, typed, outcome>>
    BY <1>4 DEF SchemasChecked, schemaVars, resolveVars, vars
  <2> QED
    BY <2>1, SameSetup DEF Staged, Gathered, Dispatched
<1>5. CASE CheckRules
  <2>1. /\ stage = "rules" /\ stage' = "semantics"
        /\ UNCHANGED <<walk, project, setup, reports, compiled, outcome>>
        /\ typed' = Compilable /\ codes' = codes \cup RuleFindings
    BY <1>5 DEF CheckRules, schemaVars, resolveVars, vars, RuleFindings, CodesOf
  <2>2. outcome = NotEvaluated /\ codes = {}
    BY <2>1 DEF Dispatched, Staged
  <2>3. NotEvaluated' = NotEvaluated
    BY DEF NotEvaluated
  <2> QED
    BY <2>1, <2>2, <2>3, SameSetup DEF Staged, Gathered, Dispatched
<1>6. CASE CheckSemantics
  <2>1. /\ stage = "semantics" /\ codes' = codes \cup SemanticFindings(setup)
        /\ stage' = IF Valid /\ reports = {} /\ codes' \subseteq Warning
                    THEN "accepted" ELSE "refused"
        /\ UNCHANGED <<walk, project, findings, setup, reports, compiled, typed, outcome>>
    BY <1>6 DEF CheckSemantics, schemaVars, resolveVars, vars
  <2>2. outcome = NotEvaluated /\ codes = RuleFindings
    BY <2>1 DEF Dispatched, Gathered
  <2>3. NotEvaluated' = NotEvaluated
    BY DEF NotEvaluated
  <2>4. Valid' = Valid
    BY <2>1 DEF Valid
  <2>5. stage' \in {"accepted", "refused"}
    BY <2>1
  <2>6. Staged' /\ Dispatched'
    BY <2>1, <2>2, <2>3, <2>5 DEF Staged, Dispatched
  <2>7. Gathered'
    BY <2>1, <2>2, <2>4, <2>5, SameSetup DEF Gathered
  <2> QED
    BY <2>1, <2>6, <2>7, SameSetup
<1>7. CASE Dispatch
  <2>1. PICK c \in Attachments : Evaluate(c.agent, c.policy, c.tool)
    BY <1>7 DEF Dispatch
  <2>2. /\ stage = "accepted" /\ InForce(c.agent, c.policy, c.tool)
        /\ outcome'.agent = c.agent /\ outcome'.policy = c.policy /\ outcome'.tool = c.tool
        /\ UNCHANGED <<walk, project, findings, setup, reports, compiled, stage, codes, typed>>
    BY <2>1 DEF Evaluate, schemaVars, resolveVars, vars
  <2>3. /\ c.agent \in DOMAIN setup.agents /\ c.policy \in DOMAIN setup.policies
        /\ c.tool \in DOMAIN setup.tools \cup {NoTool}
    BY DEF Attachments
  <2>4. Valid' = Valid
    BY <2>2 DEF Valid
  <2>5. Staged' /\ Gathered'
    BY <2>2, <2>4, SameSetup DEF Staged, Gathered
  <2>6. Dispatched'
    BY <2>2, <2>3, SameSetup DEF Dispatched
  <2> QED
    BY <2>2, <2>5, <2>6, SameSetup
<1>8. CASE UNCHANGED offlineVars
  <2>1. UNCHANGED <<walk, project, findings, setup, reports, compiled, stage, codes, typed, outcome>>
    BY <1>8 DEF offlineVars, schemaVars, resolveVars, vars, checkVars
  <2>2. Valid' = Valid
    BY <2>1 DEF Valid
  <2>3. NotEvaluated' = NotEvaluated
    BY DEF NotEvaluated
  <2> QED
    BY <2>1, <2>2, <2>3, SameSetup DEF Staged, Gathered, Dispatched
<1> QED
  BY <1>1, <1>2, <1>3, <1>4, <1>5, <1>6, <1>7, <1>8 DEF OfflineNext

THEOREM OfflineInvariance == OfflineSpec => []OInv
<1>1. OfflineInit => OInv
  BY InitOInv
<1>2. OInv /\ [OfflineNext]_offlineVars => OInv'
  BY NextOInv
<1> QED
  BY <1>1, <1>2, PTL DEF OfflineSpec

(* What match lets through in a run it let through in the checks.             *)
LEMMA MatchesAreMatched ==
    ASSUME IsSetup(setup), NEW a \in DOMAIN setup.agents, NEW p \in DOMAIN setup.policies,
           NEW t \in setup.agents[a].tools \cup {NoTool}, InForce(a, p, t),
           ~ IsAddress(setup.policies[p])
    PROVE  t \in Contexts(setup, a, p)
<1> DEFINE policy == setup.policies[p]
<1>1. /\ p \in setup.agents[a].policies /\ policy.rule # NoRule
      /\ IF policy.on \in ToolHooks THEN t \in DOMAIN setup.tools ELSE t = NoTool
      /\ Matches(policy.match, Strings(setup, policy.on, t))
  BY DEF InForce
<1>2. CASE policy.on \notin ToolHooks
  BY <1>1, <1>2 DEF Contexts
<1>3. CASE policy.on \in ToolHooks
  <2>1. t \in setup.agents[a].tools
    BY <1>1, <1>3 DEF IsSetup
  <2> DEFINE strings == [tool |-> t, source |-> setup.tools[t].source,
                         operation |-> setup.tools[t].operation]
  <2>2. Strings(setup, policy.on, t) = strings
    BY <1>3 DEF Strings
  <2>3. \A key \in DOMAIN policy.match : strings[key] = policy.match[key]
    BY <1>1, <2>2 DEF Matches
  <2>4. /\ "tool" \in DOMAIN policy.match => t = policy.match.tool
        /\ "source" \in DOMAIN policy.match => setup.tools[t].source = policy.match.source
        /\ "operation" \in DOMAIN policy.match =>
              setup.tools[t].operation = policy.match.operation
    BY <2>3
  <2>5. t \in Matched(setup, a, policy.match)
    BY <2>1, <2>4 DEF Matched
  <2> QED
    BY <1>1, <1>3, <2>5 DEF Contexts
<1> QED
  BY <1>2, <1>3

LEMMA AttachmentsHave ==
    ASSUME NEW x \in DOMAIN setup.agents, NEW y \in DOMAIN setup.policies,
           NEW z \in DOMAIN setup.tools \cup {NoTool}
    PROVE  [agent |-> x, policy |-> y, tool |-> z] \in Attachments
<1> DEFINE A == DOMAIN setup.agents
           P == DOMAIN setup.policies
           T == DOMAIN setup.tools \cup {NoTool}
<1>1. Attachments = {[agent |-> a, policy |-> p, tool |-> t] : a \in A, p \in P, t \in T}
  BY DEF Attachments
<1>2. x \in A /\ y \in P /\ z \in T
  OBVIOUS
<1> HIDE DEF A, P, T
<1> QED
  BY <1>1, <1>2

LEMMA DispatchesOfOInv == OInv => DispatchesWereCompiled
<1> SUFFICES ASSUME OInv, outcome # NotEvaluated,
                    outcome.tool \in setup.agents[outcome.agent].tools \cup {NoTool},
                    ~ IsAddress(setup.policies[outcome.policy])
             PROVE  [agent |-> outcome.agent, policy |-> outcome.policy, tool |-> outcome.tool]
                        \in typed
  BY DEF DispatchesWereCompiled
<1> DEFINE a == outcome.agent
           p == outcome.policy
           t == outcome.tool
           c == [agent |-> a, policy |-> p, tool |-> t]
<1>1. /\ IsSetup(setup) /\ stage = "accepted"
      /\ a \in DOMAIN setup.agents /\ p \in DOMAIN setup.policies
      /\ t \in DOMAIN setup.tools \cup {NoTool} /\ InForce(a, p, t)
  BY DEF OInv, Dispatched
<1>2. typed = Compilable /\ reports = {}
  BY <1>1 DEF OInv, Gathered
<1>3. t \in Contexts(setup, a, p)
  <2>1. t \in setup.agents[a].tools \cup {NoTool} /\ ~ IsAddress(setup.policies[p])
    OBVIOUS
  <2> HIDE DEF a, p, t
  <2> QED
    BY <1>1, <2>1, MatchesAreMatched
<1>4. c \in Attachments /\ c.agent = a /\ c.policy = p /\ c.tool = t
  <2>1. c.agent = a /\ c.policy = p /\ c.tool = t
    OBVIOUS
  <2>2. c \in Attachments
    BY <1>1, AttachmentsHave
  <2> QED
    BY <2>1, <2>2
<1>5. p \in setup.agents[a].policies /\ HasEnvironment(setup.policies[p].on)
  BY <1>1, <1>2 DEF InForce, HasEnvironment
<1>6. c \in Compilable
  BY <1>3, <1>4, <1>5 DEF Compilable
<1> QED
  BY <1>2, <1>6

(***************************************************************************)
(* Whatever the project, a rule that a run evaluates for a tool of the agent *)
(* was compiled when the project was accepted.                               *)
(***************************************************************************)
THEOREM EveryDispatchWasCompiled == OfflineSpec => []DispatchesWereCompiled
BY OfflineInvariance, DispatchesOfOInv, PTL

(* A compiled rule is a rule, in an environment of types.                     *)
LEMMA CompiledFacts ==
    ASSUME OInv, NEW c \in Compilable
    PROVE  /\ IsRule(setup.policies[c.policy].rule)
           /\ \A x \in DOMAIN HookEnvironment(setup, c.agent, setup.policies[c.policy].on, c.tool) :
                 IsType(HookEnvironment(setup, c.agent, setup.policies[c.policy].on, c.tool)[x])
<1> DEFINE policy == setup.policies[c.policy]
<1>1. /\ IsSetup(setup) /\ c.agent \in DOMAIN setup.agents /\ c.policy \in DOMAIN setup.policies
      /\ c.tool \in Contexts(setup, c.agent, c.policy)
  BY DEF OInv, Compilable, Attachments
<1>2. policy.rule # NoRule
  BY <1>1 DEF Contexts
<1>3. policy.on \in Hooks /\ IsRule(policy.rule)
  BY <1>1, <1>2 DEF IsSetup
<1>4. policy.on \in ToolHooks => c.tool \in DOMAIN setup.tools
  <2> SUFFICES ASSUME policy.on \in ToolHooks PROVE c.tool \in DOMAIN setup.tools
    OBVIOUS
  <2>1. c.tool \in Matched(setup, c.agent, policy.match)
    BY <1>1, <1>2 DEF Contexts
  <2>2. c.tool \in setup.agents[c.agent].tools
    BY <2>1 DEF Matched
  <2>3. setup.agents[c.agent].tools \subseteq DOMAIN setup.tools
    BY <1>1 DEF IsSetup
  <2> QED
    BY <2>2, <2>3
<1> QED
  BY <1>1, <1>3, <1>4, EnvironmentTypes

LEMMA RulesOfOInv == OInv => AcceptedRulesEvaluate
<1> SUFFICES ASSUME OInv, stage = "accepted", NEW c \in typed,
                    KeepsToCel(setup.policies[c.policy].rule)
             PROVE  Eval(setup.policies[c.policy].rule,
                         HookEnvironment(setup, c.agent, setup.policies[c.policy].on, c.tool)).type
                      = BOOL
  BY DEF AcceptedRulesEvaluate, EvaluatesToBool
<1> DEFINE rule == setup.policies[c.policy].rule
           env == HookEnvironment(setup, c.agent, setup.policies[c.policy].on, c.tool)
<1>1. c \in Compilable /\ CodesOf(c) \subseteq Warning
  BY DEF OInv, Gathered, RuleFindings
<1>2. IsRule(rule) /\ \A x \in DOMAIN env : IsType(env[x])
  BY <1>1, CompiledFacts
<1>3. /\ RuleCodes(rule, env) \subseteq {"LLMF411", "LLMF412", "LLMF413"}
      /\ RuleCodes(rule, env) = {} => Eval(rule, env).type = BOOL
  <2>1. KeepsToCel(rule)
    OBVIOUS
  <2> HIDE DEF rule, env
  <2> QED
    BY <1>2, <2>1, RulesAreSound
<1>4. RuleCodes(rule, env) \subseteq {"LLMF507"}
  BY <1>1 DEF CodesOf, Warning
<1>5. RuleCodes(rule, env) = {}
  <2> HIDE DEF rule, env
  <2> QED
    BY <1>3, <1>4
<1> QED
  BY <1>3, <1>5

(***************************************************************************)
(* Type soundness of the rules of every accepted project.                    *)
(***************************************************************************)
THEOREM AcceptedRulesAreSound == OfflineSpec => []AcceptedRulesEvaluate
BY OfflineInvariance, RulesOfOInv, PTL

(* 1 in 2.                                                                  *)
One == [op |-> "literal", args |-> << >>, type |-> INT]
OneInTwo == <<One, One, [op |-> "in", args |-> <<1, 2>>]>>

(* It is a rule.                                                            *)
LEMMA OneInTwoIsARule == IsRule(OneInTwo)
<1>1. /\ Len(OneInTwo) = 3 /\ DOMAIN OneInTwo = 1 .. 3
      /\ OneInTwo[1] = One /\ OneInTwo[2] = One
      /\ OneInTwo[3] = [op |-> "in", args |-> <<1, 2>>]
  BY DEF OneInTwo
<1>2. /\ One.args \in Seq(1 .. 0) /\ One.args \in Seq(1 .. 1) /\ Len(One.args) = 0
      /\ One.op = "literal" /\ One.type = INT
  BY DEF One
<1>3. OneInTwo[3].args \in Seq(1 .. 2) /\ Len(OneInTwo[3].args) = 2 /\ OneInTwo[3].op = "in"
  BY <1>1
<1>4. 0 \in Arity("literal") /\ 2 \in Arity("in")
  BY DEF Arity
<1>5. /\ OneInTwo[1].args \in Seq(1 .. 1 - 1) /\ OneInTwo[2].args \in Seq(1 .. 2 - 1)
      /\ OneInTwo[3].args \in Seq(1 .. 3 - 1)
  BY <1>1, <1>2, <1>3
<1>6. ASSUME NEW i \in 1 .. 3
      PROVE  /\ OneInTwo[i].args \in Seq(1 .. i - 1)
             /\ Len(OneInTwo[i].args) \in Arity(OneInTwo[i].op)
             /\ OneInTwo[i].op = "literal" => OneInTwo[i].type = INT
  <2>1. CASE i = 1
    BY <2>1, <1>1, <1>2, <1>4, <1>5
  <2>2. CASE i = 2
    BY <2>2, <1>1, <1>2, <1>4, <1>5
  <2>3. CASE i = 3
    BY <2>3, <1>1, <1>3, <1>4, <1>5
  <2> QED
    BY <2>1, <2>2, <2>3
<1> HIDE DEF OneInTwo
<1> QED
  BY <1>1, <1>6 DEF IsRule

(***************************************************************************)
(* Soundness does not extend to "in": 1 in 2 compiles without a finding, in  *)
(* any environment, and cannot be evaluated in it.                           *)
(***************************************************************************)
THEOREM MembershipIsMistyped ==
    ASSUME MaxNodes \in Nat, MaxNodes >= 3, NEW env
    PROVE  \E rule : IsRule(rule) /\ RuleCodes(rule, env) = {} /\ Eval(rule, env).type = Raised
<1> DEFINE pair(f) == [k \in 1 .. 2 |-> f[<<1, 2>>[k]]]
           none(f) == [k \in DOMAIN << >> |-> f[<< >>[k]]]
<1>1. /\ Len(OneInTwo) = 3 /\ DOMAIN OneInTwo = 1 .. 3
      /\ OneInTwo[1] = One /\ OneInTwo[2] = One
      /\ OneInTwo[3] = [op |-> "in", args |-> <<1, 2>>]
      /\ OneInTwo[1].args = << >> /\ OneInTwo[2].args = << >>
      /\ OneInTwo[3].args = <<1, 2>> /\ DOMAIN OneInTwo[3].args = 1 .. 2
  BY DEF OneInTwo, One
<1>2. PICK f : Infers(OneInTwo, env, 3, f) /\ Infer(OneInTwo, env) = f[3]
  BY <1>1, OneInTwoIsARule, InferIsOfTheLast
<1>3. PICK g : Evaluates(OneInTwo, env, 3, g) /\ Eval(OneInTwo, env) = g[3]
  BY <1>1, OneInTwoIsARule, EvalIsOfTheLast
<1>4. ASSUME NEW ts
      PROVE  OwnType(One, ts, env) = Typed(INT, {}) /\ Evaluated(One, ts, env) = Value(INT, TRUE)
  BY DEF OwnType, Evaluated, One, Expect, INT, None
<1>5. ASSUME NEW i \in 1 .. 2 PROVE f[i] = Typed(INT, {}) /\ g[i] = Value(INT, TRUE)
  <2>1. OneInTwo[i] = One /\ OneInTwo[i].args = << >> /\ i \in 1 .. 3
    BY <1>1
  <2>2. f[i] = Inferred(One, none(f), env)
    BY <1>2, <2>1 DEF Infers
  <2>3. g[i] = Evaluated(One, none(g), env)
    BY <1>3, <2>1 DEF Evaluates
  <2>4. Inferred(One, none(f), env) = Typed(INT, {})
    <3>1. DOMAIN none(f) = {}
      OBVIOUS
    <3>2. OwnType(One, none(f), env).type = INT /\ OwnType(One, none(f), env).codes = {}
      BY <1>4 DEF Typed, Value
    <3> HIDE DEF none
    <3> QED
      BY <3>1, <3>2 DEF Inferred, Typed
  <2> QED
    BY <1>4, <2>2, <2>3, <2>4
<1>6. f[3] = Inferred(OneInTwo[3], pair(f), env) /\ g[3] = Evaluated(OneInTwo[3], pair(g), env)
  <2>1. /\ OneInTwo[3].args = <<1, 2>> /\ 3 \in 1 .. 3
        /\ DOMAIN OneInTwo[3].args = 1 .. 2
    BY <1>1
  <2>2. f[3] = Inferred(OneInTwo[3], pair(f), env)
    BY <1>2, <2>1, Zenon DEF Infers
  <2>3. g[3] = Evaluated(OneInTwo[3], pair(g), env)
    BY <1>3, <2>1, Zenon DEF Evaluates
  <2> QED
    BY <2>2, <2>3
<1>7. /\ pair(f)[1] = Typed(INT, {}) /\ pair(f)[2] = Typed(INT, {})
      /\ pair(g)[1] = Value(INT, TRUE) /\ pair(g)[2] = Value(INT, TRUE)
      /\ DOMAIN pair(f) = 1 .. 2 /\ DOMAIN pair(g) = 1 .. 2
  BY <1>5 DEF Value
<1> HIDE DEF pair, none
<1>8. Operator("in", INT, INT) = Typed(BOOL, {})
  <2>1. Compatible(INT, INT) /\ Ordered(INT)
    BY DEF Compatible, Ordered, INT, None
  <2>2. Expect(Compares("in", INT, INT)) = {}
    BY <2>1 DEF Expect, Compares
  <2>3. "in" \in Comparisons
    BY DEF Comparisons
  <2>4. Operator("in", INT, INT) = Typed(BOOL, Expect(Compares("in", INT, INT)))
    BY <2>3 DEF Operator, Comparisons, Arithmetic
  <2> QED
    BY <2>2, <2>4
<1>9. f[3] = Typed(BOOL, {})
  <2>1. OwnType(OneInTwo[3], pair(f), env) = Operator("in", INT, INT)
    <3>1. pair(f)[1].type = INT /\ pair(f)[2].type = INT /\ OneInTwo[3].op = "in"
      BY <1>1, <1>7 DEF Typed
    <3> HIDE DEF OneInTwo
    <3>2. OwnType(OneInTwo[3], pair(f), env) = Operator("in", pair(f)[1].type, pair(f)[2].type)
      BY <3>1 DEF OwnType
    <3> QED
      BY <3>1, <3>2
  <2>2. UNION {pair(f)[k].codes : k \in DOMAIN pair(f)} = {}
    <3>1. \A k \in DOMAIN pair(f) : pair(f)[k].codes = {}
      BY <1>7 DEF Typed
    <3> QED
      BY <3>1
  <2> QED
    BY <1>6, <1>8, <2>1, <2>2 DEF Inferred, Typed
<1>10. g[3].type = Raised
  <2> DEFINE types == [k \in DOMAIN pair(g) |-> pair(g)[k].type]
  <2>1. types[1] = INT /\ types[2] = INT
    BY <1>7 DEF Value
  <2>2. OneInTwo[3].op = "in"
    BY <1>1
  <2>3. Applied(OneInTwo[3], types) = Raised
    <3> HIDE DEF types
    <3> QED
      BY <2>1, <2>2 DEF Applied, Comparisons, Arithmetic, Sized, INT
  <2>4. Evaluated(OneInTwo[3], pair(g), env)
            \in {Made(OneInTwo[3], pair(g), Applied(OneInTwo[3], types)), Value(Raised, FALSE)}
    <3> HIDE DEF OneInTwo, pair
    <3> QED
      BY <2>2 DEF Evaluated
  <2>5. \A t : Made(OneInTwo[3], pair(g), t).type = t
    <3> HIDE DEF OneInTwo, pair
    <3> QED
      BY <2>2 DEF Made, Arithmetic, Value
  <2>6. Made(OneInTwo[3], pair(g), Applied(OneInTwo[3], types)).type = Raised
    BY <2>3, <2>5, Zenon
  <2>7. Value(Raised, FALSE).type = Raised
    BY DEF Value
  <2> HIDE DEF types
  <2> QED
    BY <1>6, <2>4, <2>6, <2>7, Zenon
<1>11. RuleCodes(OneInTwo, env) = {}
  BY <1>1, <1>2, <1>9 DEF RuleCodes, Typed
<1> QED
  BY <1>3, <1>10, <1>11, OneInTwoIsARule

(* !x, over a variable of the context.                                       *)
Negation(x) == <<[op |-> "ident", args |-> << >>, name |-> x], [op |-> "not", args |-> <<1>>]>>

(* It is a rule.                                                            *)
LEMMA NegationIsARule == ASSUME NEW x PROVE IsRule(Negation(x))
<1> DEFINE rule == Negation(x)
<1>1. /\ Len(rule) = 2 /\ DOMAIN rule = 1 .. 2
      /\ rule[1].op = "ident" /\ rule[1].args = << >>
      /\ rule[2].op = "not" /\ rule[2].args = <<1>>
  BY DEF Negation
<1>2. rule[1].args \in Seq(1 .. 1 - 1) /\ Len(rule[1].args) \in Arity(rule[1].op)
  BY <1>1 DEF Arity
<1>3. rule[2].args \in Seq(1 .. 2 - 1) /\ Len(rule[2].args) \in Arity(rule[2].op)
  BY <1>1 DEF Arity
<1> HIDE DEF rule
<1>4. ASSUME NEW i \in 1 .. 2
      PROVE  /\ rule[i].args \in Seq(1 .. i - 1)
             /\ Len(rule[i].args) \in Arity(rule[i].op)
             /\ rule[i].op # "literal"
  <2>1. CASE i = 1
    BY <1>1, <1>2, <2>1
  <2>2. CASE i = 2
    BY <1>1, <1>3, <2>2
  <2> QED
    BY <2>1, <2>2
<1>5. IsRule(rule)
  BY <1>1, <1>4 DEF IsRule
<1> QED
  BY <1>5 DEF rule

(***************************************************************************)
(* Nor does it to what cel() leaves plain: for any variable that is a bool,  *)
(* !x compiles without a finding and cannot be evaluated.                    *)
(***************************************************************************)
THEOREM NegationIsMistyped ==
    ASSUME MaxNodes \in Nat, MaxNodes >= 2, NEW env, NEW x \in DOMAIN env, env[x] = BOOL
    PROVE  /\ IsRule(Negation(x))
           /\ RuleCodes(Negation(x), env) = {} /\ Eval(Negation(x), env).type = Raised
<1> DEFINE rule == Negation(x)
           one(f) == [k \in DOMAIN rule[2].args |-> f[rule[2].args[k]]]
           none(f) == [k \in DOMAIN rule[1].args |-> f[rule[1].args[k]]]
<1>1. /\ Len(rule) = 2 /\ DOMAIN rule = 1 .. 2
      /\ rule[1].op = "ident" /\ rule[1].name = x /\ rule[1].args = << >>
      /\ rule[2].op = "not" /\ rule[2].args = <<1>>
  BY DEF Negation
<1>2. IsRule(rule)
  BY NegationIsARule
<1> HIDE DEF rule
<1>3. PICK f : Infers(rule, env, 2, f) /\ Infer(rule, env) = f[2]
  BY <1>1, <1>2, InferIsOfTheLast
<1>4. PICK g : Evaluates(rule, env, 2, g) /\ Eval(rule, env) = g[2]
  BY <1>1, <1>2, EvalIsOfTheLast
<1> DEFINE of(h, i) == [k \in DOMAIN rule[i].args |-> h[rule[i].args[k]]]
<1>4a. ASSUME NEW i \in 1 .. 2
      PROVE  f[i] = Inferred(rule[i], of(f, i), env) /\ g[i] = Evaluated(rule[i], of(g, i), env)
  BY <1>3, <1>4, Zenon DEF Infers, Evaluates
<1>5. f[1] = Inferred(rule[1], none(f), env) /\ g[1] = Evaluated(rule[1], none(g), env)
  BY <1>4a, 1 \in 1 .. 2, Zenon
<1>6. f[2] = Inferred(rule[2], one(f), env) /\ g[2] = Evaluated(rule[2], one(g), env)
  BY <1>4a, 2 \in 1 .. 2, Zenon
<1>7. /\ DOMAIN none(f) = {}
      /\ DOMAIN one(f) = {1} /\ one(f)[1] = f[1]
      /\ DOMAIN one(g) = {1} /\ one(g)[1] = g[1]
  BY <1>1
<1> HIDE DEF none, one
<1>8. f[1].type = BOOL /\ f[1].codes = {}
  <2>1. OwnType(rule[1], none(f), env).type = BOOL /\ OwnType(rule[1], none(f), env).codes = {}
    BY <1>1 DEF OwnType, Typed
  <2> QED
    BY <1>5, <1>7, <2>1 DEF Inferred, Typed
<1>9. ~ g[1].own
  <2>1. g[1] = Converted(env[x])
    BY <1>1, <1>5 DEF Evaluated
  <2>2. \A t : Converted(t).own = (t.kind \in {"map", "object"})
    BY DEF Converted, Value
  <2>3. env[x].kind = "bool"
    BY DEF BOOL
  <2>4. ~ Converted(env[x]).own
    BY <2>2, <2>3
  <2> QED
    BY <2>1, <2>4, Zenon
<1>10. f[2].type = BOOL /\ f[2].codes = {}
  <2>1. /\ OwnType(rule[2], one(f), env).type = BOOL
        /\ OwnType(rule[2], one(f), env).codes = {}
    BY <1>1, <1>7, <1>8 DEF OwnType, Typed, Expect
  <2>2. UNION {one(f)[k].codes : k \in DOMAIN one(f)} = {}
    BY <1>7, <1>8
  <2> QED
    BY <1>6, <2>1, <2>2 DEF Inferred, Typed
<1>11. g[2].type = Raised
  <2>1. ~ Implemented(rule[2], one(g))
    BY <1>1, <1>7, <1>9 DEF Implemented
  <2>2. g[2] = Value(Raised, FALSE)
    BY <1>1, <1>6, <2>1 DEF Evaluated
  <2> QED
    BY <2>2 DEF Value
<1>12. RuleCodes(rule, env) = {}
  BY <1>1, <1>3, <1>10 DEF RuleCodes
<1> QED
  BY <1>2, <1>4, <1>11, <1>12 DEF rule

-----------------------------------------------------------------------------
(*****************************************************************************)
(* PolicyRules and OfflineChecks: what the checks of a tool against its      *)
(* operation decide.  An induction over types is on the levels they are built by.*)
(*****************************************************************************)

(***************************************************************************)
(* The recursion over types of their values and of the check that one type   *)
(* narrows another goes down to the parts, which are on earlier levels.       *)
(***************************************************************************)
LEMMA LevelFacts ==
    /\ Len(TypeLevels) \in Nat /\ TypesUpTo(0) = {}
    /\ \A n \in 1 .. Len(TypeLevels) : /\ TypesUpTo(n - 1) \subseteq TypesUpTo(n)
                                       /\ TypesUpTo(n) \subseteq Types
                                       /\ \A t \in TypesUpTo(n) : Parts(t) \subseteq TypesUpTo(n - 1)
<1>1. Len(TypeLevels) \in Nat
  BY CatalogAssumption
<1>2. TypesUpTo(0) = {}
  BY DEF TypesUpTo
<1>3. ASSUME NEW n \in 1 .. Len(TypeLevels), NEW m \in 0 .. n
      PROVE  TypesUpTo(m) \subseteq TypesUpTo(n)
  BY <1>1 DEF TypesUpTo
<1>4. ASSUME NEW n \in 1 .. Len(TypeLevels), NEW t \in TypesUpTo(n)
      PROVE  Parts(t) \subseteq TypesUpTo(n - 1)
  <2>1. PICK i \in 1 .. n : t \in TypeLevels[i]
    BY <1>4 DEF TypesUpTo
  <2>2. Parts(t) \subseteq TypesUpTo(i - 1)
    BY <1>1, <2>1, CatalogAssumption
  <2>3. TypesUpTo(i - 1) \subseteq TypesUpTo(n - 1)
    BY <1>1, <2>1 DEF TypesUpTo
  <2> QED
    BY <2>2, <2>3
<1>5. \A n \in 1 .. Len(TypeLevels) : TypesUpTo(n) \subseteq Types
  BY <1>1 DEF Types, TypesUpTo
<1> QED
  BY <1>1, <1>2, <1>3, <1>4, <1>5

(* What a type's values are depends on its parts' alone.                      *)
LEMMA SameParts ==
    ASSUME NEW t, t.kind \in SchemaKinds, NEW f, NEW g, \A p \in Parts(t) : f[p] = g[p]
    PROVE  ValuesOf(t, f) = ValuesOf(t, g)
<1>1. CASE t.kind \notin {"list", "object"}
  BY <1>1 DEF ValuesOf
<1>2. CASE t.kind = "list"
  <2>1. f[t.item] = g[t.item]
    BY <1>2 DEF Parts
  <2>2. ValuesOf(t, f) = {<<"list", S>> : S \in SUBSET f[t.item]}
    BY <1>2 DEF ValuesOf
  <2>3. ValuesOf(t, g) = {<<"list", S>> : S \in SUBSET g[t.item]}
    BY <1>2 DEF ValuesOf
  <2> QED
    BY <2>1, <2>2, <2>3
<1>3. CASE t.kind = "object"
  <2>1. \A x \in DOMAIN t.fields : f[t.fields[x]] = g[t.fields[x]]
    BY <1>3 DEF Parts
  <2> DEFINE Sel(h, F) == {s \in [F -> UNION {h[t.fields[x]] : x \in F}] :
                              \A x \in F : s[x] \in h[t.fields[x]]}
  <2>2. ASSUME NEW F \in SUBSET DOMAIN t.fields PROVE Sel(f, F) = Sel(g, F)
    <3>1. \A x \in F : f[t.fields[x]] = g[t.fields[x]]
      BY <2>1
    <3>2. {f[t.fields[x]] : x \in F} = {g[t.fields[x]] : x \in F}
      BY <3>1
    <3> QED
      BY <3>1, <3>2
  <2>3. Selections(t.fields, f) = UNION {Sel(f, F) : F \in SUBSET DOMAIN t.fields}
    BY Zenon DEF Selections
  <2>4. Selections(t.fields, g) = UNION {Sel(g, F) : F \in SUBSET DOMAIN t.fields}
    BY Zenon DEF Selections
  <2>5. Selections(t.fields, f) = Selections(t.fields, g)
    <3> HIDE DEF Sel
    <3> QED
      BY <2>2, <2>3, <2>4
  <2>6. ValuesOf(t, f) = {<<"object", o>> : o \in Selections(t.fields, f)}
    BY <1>3 DEF ValuesOf
  <2>7. ValuesOf(t, g) = {<<"object", o>> : o \in Selections(t.fields, g)}
    BY <1>3 DEF ValuesOf
  <2> QED
    BY <2>5, <2>6, <2>7
<1> QED
  BY <1>1, <1>2, <1>3

LEMMA ValuesExist == \E f : f = [t \in Types |-> ValuesOf(t, f)]
<1> DEFINE Has(n) == \E f : f = [t \in TypesUpTo(n) |-> ValuesOf(t, f)]
           Bad == {n \in 0 .. Len(TypeLevels) : ~ Has(n)}
<1>1. SUFFICES Bad = {}
  BY LevelFacts DEF Types
<1>2. SUFFICES ASSUME Bad # {} PROVE FALSE
  OBVIOUS
<1>3. PICK m \in Bad : \A n \in Bad : m <= n
  <2>1. Bad \subseteq Nat
    BY LevelFacts
  <2> HIDE DEF Bad
  <2> QED
    BY <1>2, <2>1, LeastElement
<1>4. m # 0
  <2>1. [t \in {} |-> Types] = [t \in TypesUpTo(0) |-> ValuesOf(t, [s \in {} |-> Types])]
    BY LevelFacts
  <2>2. Has(0)
    BY <2>1
  <2> QED
    BY <1>3, <2>2
<1>5. m \in 1 .. Len(TypeLevels) /\ m - 1 \in 0 .. Len(TypeLevels) /\ m - 1 \notin Bad
  BY <1>3, <1>4, LevelFacts
<1>6. PICK f : f = [t \in TypesUpTo(m - 1) |-> ValuesOf(t, f)]
  BY <1>5
<1> DEFINE g == [t \in TypesUpTo(m) |->
                    IF t \in TypesUpTo(m - 1) THEN f[t] ELSE ValuesOf(t, f)]
<1>7. ASSUME NEW t \in TypesUpTo(m) PROVE g[t] = ValuesOf(t, g)
  <2>1. t.kind \in SchemaKinds /\ Parts(t) \subseteq TypesUpTo(m - 1)
    BY <1>5, LevelFacts, Levels
  <2>2. \A p \in Parts(t) : f[p] = g[p]
    BY <1>5, <2>1, LevelFacts
  <2>3. ValuesOf(t, f) = ValuesOf(t, g)
    BY <2>1, <2>2, SameParts
  <2>4. t \in TypesUpTo(m - 1) => f[t] = ValuesOf(t, f)
    BY <1>6
  <2> QED
    BY <2>3, <2>4
<1>8. g = [t \in TypesUpTo(m) |-> ValuesOf(t, g)]
  BY <1>7
<1>9. Has(m)
  <2> HIDE DEF g
  <2> QED
    BY <1>8
<1> QED
  BY <1>3, <1>9

LEMMA ValuesAre == \A t \in Types : values[t] = ValuesOf(t, values)
<1>1. values = CHOOSE f : f = [t \in Types |-> ValuesOf(t, f)]
  BY Zenon DEF values
<1>2. values = [t \in Types |-> ValuesOf(t, values)]
  <2> HIDE DEF values
  <2> DEFINE P(f) == f = [t \in Types |-> ValuesOf(t, f)]
  <2>1. \E f : P(f)
    BY ValuesExist
  <2>2. P(CHOOSE f : P(f))
    <3> HIDE DEF P
    <3> QED
      BY <2>1, Zenon
  <2> QED
    BY <1>1, <2>2, Zenon
<1> QED
  BY <1>2, Zenon

(* The same of narrowing, which goes down both of its types.                 *)
LEMMA SamePairs ==
    ASSUME NEW a, NEW b, NEW f, NEW g,
           \A p \in Parts(a), q \in Parts(b) : f[<<p, q>>] = g[<<p, q>>]
    PROVE  NarrowsBy(a, b, f) = NarrowsBy(a, b, g)
<1>1. CASE a.kind # b.kind
  BY <1>1 DEF NarrowsBy
<1>2. CASE a.kind = b.kind /\ a.kind \notin {"list", "map", "object"}
  BY <1>2 DEF NarrowsBy
<1>3. CASE a.kind = b.kind /\ a.kind = "list"
  <2>1. f[<<a.item, b.item>>] = g[<<a.item, b.item>>]
    BY <1>3 DEF Parts
  <2> QED
    BY <1>3, <2>1 DEF NarrowsBy
<1>4. CASE a.kind = b.kind /\ a.kind = "map"
  <2>1. /\ f[<<a.key, b.key>>] = g[<<a.key, b.key>>]
        /\ f[<<a.value, b.value>>] = g[<<a.value, b.value>>]
    BY <1>4 DEF Parts
  <2> QED
    BY <1>4, <2>1 DEF NarrowsBy
<1>5. CASE a.kind = b.kind /\ a.kind = "object"
  <2>1. \A x \in DOMAIN a.fields : x \in DOMAIN b.fields =>
           f[<<a.fields[x], b.fields[x]>>] = g[<<a.fields[x], b.fields[x]>>]
    BY <1>5 DEF Parts
  <2> QED
    BY <1>5, <2>1 DEF NarrowsBy
<1> QED
  BY <1>1, <1>2, <1>3, <1>4, <1>5

LEMMA NarrowingExists ==
    \E f : f = [pair \in Types \X Types |-> NarrowsBy(pair[1], pair[2], f)]
<1> DEFINE Pairs(n) == TypesUpTo(n) \X Types
           Has(n) == \E f : f = [pair \in Pairs(n) |-> NarrowsBy(pair[1], pair[2], f)]
           Bad == {n \in 0 .. Len(TypeLevels) : ~ Has(n)}
<1>1. SUFFICES Bad = {}
  <2>1. Len(TypeLevels) \in 0 .. Len(TypeLevels)
    BY LevelFacts
  <2>2. Has(Len(TypeLevels))
    <3> HIDE DEF Has
    <3> QED
      BY <1>1, <2>1
  <2>3. Pairs(Len(TypeLevels)) = Types \X Types
    BY DEF Types
  <2> HIDE DEF Pairs
  <2> QED
    BY <2>2, <2>3
<1>2. SUFFICES ASSUME Bad # {} PROVE FALSE
  OBVIOUS
<1>3. PICK m \in Bad : \A n \in Bad : m <= n
  <2>1. Bad \subseteq Nat
    BY LevelFacts
  <2> HIDE DEF Bad
  <2> QED
    BY <1>2, <2>1, LeastElement
<1>4. m # 0
  <2>1. Pairs(0) = {}
    BY LevelFacts
  <2>2. [t \in {} |-> Types]
            = [pair \in Pairs(0) |-> NarrowsBy(pair[1], pair[2], [t \in {} |-> Types])]
    BY <2>1
  <2>3. Has(0)
    BY <2>2
  <2> QED
    BY <1>3, <2>3
<1>5. m \in 1 .. Len(TypeLevels) /\ m - 1 \in 0 .. Len(TypeLevels) /\ Has(m - 1)
  <2>1. m \in 0 .. Len(TypeLevels)
    OBVIOUS
  <2>2. m \in 1 .. Len(TypeLevels) /\ m - 1 \in 0 .. Len(TypeLevels)
    BY <1>4, <2>1, LevelFacts
  <2>3. m - 1 \notin Bad
    <3> HIDE DEF Bad
    <3> QED
      BY <1>3, <2>2
  <2> HIDE DEF Has
  <2> QED
    BY <2>2, <2>3
<1>6. PICK f : f = [pair \in Pairs(m - 1) |-> NarrowsBy(pair[1], pair[2], f)]
  BY <1>5
<1> DEFINE g == [pair \in Pairs(m) |->
                    IF pair \in Pairs(m - 1) THEN f[pair] ELSE NarrowsBy(pair[1], pair[2], f)]
<1>7. ASSUME NEW a \in TypesUpTo(m), NEW b \in Types
      PROVE  g[<<a, b>>] = NarrowsBy(a, b, g)
  <2>1. Parts(a) \subseteq TypesUpTo(m - 1) /\ Parts(b) \subseteq Types
    BY <1>5, LevelFacts, Levels
  <2>2. \A p \in Parts(a), q \in Parts(b) : f[<<p, q>>] = g[<<p, q>>]
    <3> SUFFICES ASSUME NEW p \in Parts(a), NEW q \in Parts(b) PROVE f[<<p, q>>] = g[<<p, q>>]
      OBVIOUS
    <3>1. <<p, q>> \in Pairs(m - 1) /\ <<p, q>> \in Pairs(m)
      BY <1>5, <2>1, LevelFacts
    <3> HIDE DEF Pairs
    <3> QED
      BY <3>1
  <2>3. NarrowsBy(a, b, f) = NarrowsBy(a, b, g)
    <3> HIDE DEF g
    <3> QED
      BY <2>2, SamePairs
  <2>4. <<a, b>> \in Pairs(m) /\ <<a, b>>[1] = a /\ <<a, b>>[2] = b
    OBVIOUS
  <2>5. <<a, b>> \in Pairs(m - 1) => f[<<a, b>>] = NarrowsBy(a, b, f)
    <3> HIDE DEF Pairs
    <3> QED
      BY <1>6, <2>4, Zenon
  <2>6. g[<<a, b>>] = IF <<a, b>> \in Pairs(m - 1) THEN f[<<a, b>>] ELSE NarrowsBy(a, b, f)
    <3> HIDE DEF Pairs
    <3> QED
      BY <2>4, Zenon
  <2> HIDE DEF g, Pairs
  <2> QED
    BY <2>3, <2>5, <2>6, Zenon
<1>8. g = [pair \in Pairs(m) |-> NarrowsBy(pair[1], pair[2], g)]
  <2>1. ASSUME NEW pair \in Pairs(m) PROVE g[pair] = NarrowsBy(pair[1], pair[2], g)
    <3>1. pair[1] \in TypesUpTo(m) /\ pair[2] \in Types /\ pair = <<pair[1], pair[2]>>
      OBVIOUS
    <3> HIDE DEF g
    <3> QED
      BY <1>7, <3>1, Zenon
  <2> DEFINE h == [pair \in Pairs(m) |-> NarrowsBy(pair[1], pair[2], g)]
  <2>2. g = [pair \in Pairs(m) |-> g[pair]]
    BY Zenon
  <2>3. [pair \in Pairs(m) |-> g[pair]] = h
    <3> HIDE DEF g, Pairs
    <3> QED
      BY <2>1, Zenon
  <2> HIDE DEF g
  <2> QED
    BY <2>2, <2>3, Zenon
<1>9. Has(m)
  <2> HIDE DEF g
  <2> QED
    BY <1>8
<1> QED
  BY <1>3, <1>9

LEMMA NarrowingIs ==
    \A a, b \in Types : narrowing[<<a, b>>] = NarrowsBy(a, b, narrowing)
<1> DEFINE P(f) == f = [pair \in Types \X Types |-> NarrowsBy(pair[1], pair[2], f)]
<1>1. narrowing = CHOOSE f : P(f)
  BY Zenon DEF narrowing
<1>2. P(narrowing)
  <2>1. \E f : P(f)
    BY NarrowingExists, Zenon
  <2>2. P(CHOOSE f : P(f))
    <3> HIDE DEF P
    <3> QED
      BY <2>1, Zenon
  <2> HIDE DEF narrowing, P
  <2> QED
    BY <1>1, <2>2, Zenon
<1>3. ASSUME NEW a \in Types, NEW b \in Types
      PROVE  narrowing[<<a, b>>] = NarrowsBy(a, b, narrowing)
  <2>1. <<a, b>> \in Types \X Types /\ <<a, b>>[1] = a /\ <<a, b>>[2] = b
    OBVIOUS
  <2> HIDE DEF narrowing
  <2> DEFINE F == [pair \in Types \X Types |-> NarrowsBy(pair[1], pair[2], narrowing)]
  <2>2. narrowing = F
    BY <1>2, Zenon
  <2>3. F[<<a, b>>] = NarrowsBy(a, b, narrowing)
    BY <2>1, Zenon
  <2> QED
    BY <2>2, <2>3, Zenon
<1> QED
  BY <1>3

(* A selection has some of the fields, each with a value of its type.         *)
LEMMA SelectionsAre ==
    ASSUME NEW fields, NEW among
    PROVE  /\ \A F \in SUBSET DOMAIN fields : \A s :
                 s = [x \in F |-> s[x]] /\ (\A x \in F : s[x] \in among[fields[x]])
                    => s \in Selections(fields, among)
           /\ \A s \in Selections(fields, among) : \E F \in SUBSET DOMAIN fields :
                 s = [x \in F |-> s[x]] /\ \A x \in F : s[x] \in among[fields[x]]
<1> DEFINE Sel(F) == {s \in [F -> UNION {among[fields[x]] : x \in F}] :
                         \A x \in F : s[x] \in among[fields[x]]}
<1>1. Selections(fields, among) = UNION {Sel(F) : F \in SUBSET DOMAIN fields}
  BY Zenon DEF Selections
<1>2. ASSUME NEW F \in SUBSET DOMAIN fields, NEW s,
             s = [x \in F |-> s[x]], \A x \in F : s[x] \in among[fields[x]]
      PROVE  s \in Selections(fields, among)
  <2>1. \A x \in F : s[x] \in UNION {among[fields[y]] : y \in F}
    BY <1>2
  <2>2. s \in [F -> UNION {among[fields[x]] : x \in F}]
    BY <1>2, <2>1
  <2>3. s \in Sel(F)
    BY <1>2, <2>2
  <2> HIDE DEF Sel
  <2> QED
    BY <1>1, <2>3
<1>3. ASSUME NEW s \in Selections(fields, among)
      PROVE  \E F \in SUBSET DOMAIN fields :
                s = [x \in F |-> s[x]] /\ \A x \in F : s[x] \in among[fields[x]]
  <2>1. PICK F \in SUBSET DOMAIN fields : s \in Sel(F)
    <3> HIDE DEF Sel
    <3> QED
      BY <1>1
  <2>2. s = [x \in F |-> s[x]] /\ \A x \in F : s[x] \in among[fields[x]]
    BY <2>1
  <2> QED
    BY <2>2
<1> QED
  BY <1>2, <1>3, Zenon

(* Each type has a value, and its values tell what kind it is of.             *)
Tag(t) == IF t.kind \in {"int", "double"} THEN "number"
          ELSE IF t.kind = "string" THEN "text" ELSE t.kind

LEMMA Inhabited ==
    ASSUME NEW t \in Types
    PROVE  values[t] # {} /\ \A v \in values[t] : v[1] = Tag(t)
<1>0. values[t] = ValuesOf(t, values)
  BY ValuesAre
<1>1. t.kind \in {"bool", "int", "double", "string", "list", "object"}
  BY Levels DEF SchemaKinds, CelKinds
<1> HIDE DEF values
<1>2. CASE t.kind \in {"bool", "int", "double"}
  <2>1. /\ t.kind = "bool" => values[t] = {<<"bool", 0>>}
        /\ t.kind = "int" => values[t] = {<<"number", 1>>}
        /\ t.kind = "double" => values[t] = {<<"number", 1>>, <<"number", 2>>}
    BY <1>0 DEF ValuesOf
  <2>2. Tag(t) = IF t.kind = "bool" THEN "bool" ELSE "number"
    BY <1>2 DEF Tag
  <2>3. <<"bool", 0>>[1] = "bool" /\ <<"number", 1>>[1] = "number" /\ <<"number", 2>>[1] = "number"
    OBVIOUS
  <2>4. CASE t.kind = "bool"
    BY <2>1, <2>2, <2>3, <2>4
  <2>5. CASE t.kind = "int"
    BY <2>1, <2>2, <2>3, <2>5
  <2>6. CASE t.kind = "double"
    BY <2>1, <2>2, <2>3, <2>6
  <2> QED
    BY <1>2, <2>4, <2>5, <2>6
<1>3. CASE t.kind = "string"
  <2> DEFINE among == IF t.enum = {} THEN Strung ELSE t.enum
  <2>1. among # {}
    BY <1>3, StrungAssumption
  <2>2. values[t] = {<<"text", s>> : s \in among}
    BY <1>0, <1>3 DEF ValuesOf
  <2>3. Tag(t) = "text"
    BY <1>3 DEF Tag
  <2> HIDE DEF among
  <2>4. \A v \in values[t] : v[1] = "text"
    BY <2>2
  <2> QED
    BY <2>1, <2>2, <2>3, <2>4
<1>4. CASE t.kind = "list"
  <2>1. values[t] = {<<"list", S>> : S \in SUBSET values[t.item]}
    BY <1>0, <1>4 DEF ValuesOf
  <2>2. {} \in SUBSET values[t.item]
    OBVIOUS
  <2>3. Tag(t) = "list"
    BY <1>4 DEF Tag
  <2>4. \A v \in values[t] : v[1] = "list"
    BY <2>1
  <2>5. <<"list", {}>> \in values[t]
    BY <2>1, <2>2
  <2> QED
    BY <2>3, <2>4, <2>5
<1>5. CASE t.kind = "object"
  <2>1. values[t] = {<<"object", o>> : o \in Selections(t.fields, values)}
    BY <1>0, <1>5 DEF ValuesOf
  <2> DEFINE none == [x \in {} |-> t]
  <2>2. none = [x \in {} |-> none[x]] /\ {} \in SUBSET DOMAIN t.fields
    OBVIOUS
  <2>3. none \in Selections(t.fields, values)
    <3> HIDE DEF none
    <3> QED
      BY <2>2, SelectionsAre
  <2> HIDE DEF none
  <2>4. Tag(t) = "object"
    BY <1>5 DEF Tag
  <2>5. \A v \in values[t] : v[1] = "object"
    BY <2>1
  <2>6. <<"object", none>> \in values[t]
    BY <2>1, <2>3
  <2> QED
    BY <2>4, <2>5, <2>6
<1> QED
  BY <1>1, <1>2, <1>3, <1>4, <1>5

(* One level of narrowing is one level of inclusion.                         *)
LEMMA NarrowsIncludes ==
    ASSUME NEW a \in Types, NEW b \in Types,
           \A p \in Parts(a), q \in Parts(b) :
              narrowing[<<p, q>>] <=> values[p] \subseteq values[q]
    PROVE  narrowing[<<a, b>>] <=> values[a] \subseteq values[b]
<1> DEFINE n == narrowing[<<a, b>>]
<1>0. /\ narrowing[<<a, b>>] = NarrowsBy(a, b, narrowing)
      /\ values[a] = ValuesOf(a, values) /\ values[b] = ValuesOf(b, values)
  BY NarrowingIs, ValuesAre
<1>1. /\ a.kind \in {"bool", "int", "double", "string", "list", "object"}
      /\ b.kind \in {"bool", "int", "double", "string", "list", "object"}
      /\ Parts(a) \subseteq Types /\ Parts(b) \subseteq Types
  BY Levels DEF SchemaKinds, CelKinds
<1> HIDE DEF values, narrowing
<1>2. CASE a.kind \in {"int", "double"} /\ b.kind \in {"int", "double"}
  <2>1. /\ a.kind = "int" => values[a] = {<<"number", 1>>}
        /\ a.kind = "double" => values[a] = {<<"number", 1>>, <<"number", 2>>}
        /\ b.kind = "int" => values[b] = {<<"number", 1>>}
        /\ b.kind = "double" => values[b] = {<<"number", 1>>, <<"number", 2>>}
    BY <1>0 DEF ValuesOf
  <2>2. values[a] \subseteq values[b] <=> (a.kind = "int" \/ b.kind = "double")
    <3>1. <<"number", 2>> # <<"number", 1>>
      OBVIOUS
    <3> QED
      BY <1>2, <2>1, <3>1
  <2>3. NarrowsBy(a, b, narrowing) <=> (a.kind = "int" \/ b.kind = "double")
    BY <1>2 DEF NarrowsBy
  <2> QED
    BY <1>0, <2>2, <2>3
<1>3. CASE /\ a.kind # b.kind
           /\ ~ (a.kind \in {"int", "double"} /\ b.kind \in {"int", "double"})
  <2>1. ~ NarrowsBy(a, b, narrowing)
    BY <1>3 DEF NarrowsBy
  <2>2. Tag(a) # Tag(b)
    BY <1>1, <1>3 DEF Tag
  <2>3. ~ values[a] \subseteq values[b]
    <3>1. PICK v : v \in values[a]
      BY Inhabited
    <3>2. v[1] = Tag(a) /\ \A w \in values[b] : w[1] = Tag(b)
      BY <3>1, Inhabited
    <3> QED
      BY <2>2, <3>1, <3>2
  <2> QED
    BY <1>0, <2>1, <2>3
<1>4. CASE a.kind = "bool" /\ b.kind = "bool"
  <2>1. NarrowsBy(a, b, narrowing)
    BY <1>4 DEF NarrowsBy
  <2>2. values[a] = values[b]
    BY <1>0, <1>4 DEF ValuesOf
  <2> QED
    BY <1>0, <2>1, <2>2
<1>5. CASE a.kind = "string" /\ b.kind = "string"
  <2> DEFINE S == IF a.enum = {} THEN Strung ELSE a.enum
             T == IF b.enum = {} THEN Strung ELSE b.enum
  <2>1. values[a] = {<<"text", s>> : s \in S} /\ values[b] = {<<"text", s>> : s \in T}
    BY <1>0, <1>5 DEF ValuesOf
  <2>2. values[a] \subseteq values[b] <=> S \subseteq T
    <3>1. ASSUME NEW s \in S PROVE <<"text", s>> \in values[a]
      BY <2>1
    <3>2. ASSUME NEW s, <<"text", s>> \in values[b] PROVE s \in T
      BY <2>1, <3>2
    <3>3. ASSUME S \subseteq T, NEW v \in values[a] PROVE v \in values[b]
      BY <2>1, <3>3
    <3> HIDE DEF S, T
    <3> QED
      BY <3>1, <3>2, <3>3
  <2>3. S \subseteq T <=> NarrowsEnum(a.enum, b.enum)
    <3>1. /\ a.enum \subseteq Strung /\ a.enum # Strung
          /\ b.enum \subseteq Strung /\ b.enum # Strung
      BY <1>5, StrungAssumption
    <3> QED
      BY <3>1 DEF NarrowsEnum
  <2>4. NarrowsBy(a, b, narrowing) <=> NarrowsEnum(a.enum, b.enum)
    BY <1>5 DEF NarrowsBy
  <2> QED
    BY <1>0, <2>2, <2>3, <2>4
<1>6. CASE a.kind = "list" /\ b.kind = "list"
  <2>1. /\ values[a] = {<<"list", S>> : S \in SUBSET values[a.item]}
        /\ values[b] = {<<"list", S>> : S \in SUBSET values[b.item]}
    BY <1>0, <1>6 DEF ValuesOf
  <2>2. values[a] \subseteq values[b] <=> values[a.item] \subseteq values[b.item]
    <3>1. <<"list", values[a.item]>> \in values[a]
      BY <2>1
    <3>2. ASSUME NEW S, <<"list", S>> \in values[b] PROVE S \subseteq values[b.item]
      BY <2>1, <3>2
    <3>3. ASSUME values[a.item] \subseteq values[b.item], NEW v \in values[a]
          PROVE  v \in values[b]
      BY <2>1, <3>3
    <3> QED
      BY <3>1, <3>2, <3>3
  <2>3. NarrowsBy(a, b, narrowing) <=> narrowing[<<a.item, b.item>>]
    BY <1>6 DEF NarrowsBy
  <2>4. a.item \in Parts(a) /\ b.item \in Parts(b)
    BY <1>6 DEF Parts
  <2> QED
    BY <1>0, <2>2, <2>3, <2>4
<1>7. CASE a.kind = "object" /\ b.kind = "object"
  <2> DEFINE Fits(x) == x \in DOMAIN b.fields /\ values[a.fields[x]] \subseteq values[b.fields[x]]
  <2>1. /\ values[a] = {<<"object", o>> : o \in Selections(a.fields, values)}
        /\ values[b] = {<<"object", o>> : o \in Selections(b.fields, values)}
    BY <1>0, <1>7 DEF ValuesOf
  <2>2. values[a] \subseteq values[b]
            <=> Selections(a.fields, values) \subseteq Selections(b.fields, values)
    <3>1. ASSUME values[a] \subseteq values[b], NEW o \in Selections(a.fields, values)
          PROVE  o \in Selections(b.fields, values)
      <4>1. <<"object", o>> \in values[b]
        BY <2>1, <3>1
      <4> QED
        BY <2>1, <4>1
    <3>2. ASSUME Selections(a.fields, values) \subseteq Selections(b.fields, values),
                 NEW v \in values[a]
          PROVE  v \in values[b]
      BY <2>1, <3>2
    <3> QED
      BY <3>1, <3>2
  <2>3. \A x \in DOMAIN a.fields : a.fields[x] \in Parts(a)
    BY <1>7 DEF Parts
  <2>4. \A x \in DOMAIN b.fields : b.fields[x] \in Parts(b)
    BY <1>7 DEF Parts
  <2>5. ASSUME Selections(a.fields, values) \subseteq Selections(b.fields, values),
               NEW x \in DOMAIN a.fields
        PROVE  Fits(x)
    <3>1. values[a.fields[x]] # {}
      BY <1>1, <2>3, Inhabited
    <3>2. ASSUME NEW v \in values[a.fields[x]]
          PROVE  x \in DOMAIN b.fields /\ v \in values[b.fields[x]]
      <4> DEFINE s == [y \in {x} |-> v]
      <4>1. s \in Selections(a.fields, values)
        <5>1. {x} \in SUBSET DOMAIN a.fields /\ s = [y \in {x} |-> s[y]]
              /\ \A y \in {x} : s[y] \in values[a.fields[y]]
          OBVIOUS
        <5> HIDE DEF s
        <5> QED
          BY <5>1, SelectionsAre
      <4>2. PICK F \in SUBSET DOMAIN b.fields :
                s = [y \in F |-> s[y]] /\ \A y \in F : s[y] \in values[b.fields[y]]
        <5> HIDE DEF s
        <5> QED
          BY <2>5, <4>1, SelectionsAre
      <4>3. F = {x} /\ s[x] = v
        <5>1. DOMAIN s = {x} /\ s[x] = v
          OBVIOUS
        <5>2. DOMAIN s = F
          <6> HIDE DEF s
          <6> QED
            BY <4>2
        <5> QED
          BY <5>1, <5>2
      <4> HIDE DEF s
      <4> QED
        BY <4>2, <4>3
    <3> QED
      BY <3>1, <3>2
  <2>6. ASSUME \A x \in DOMAIN a.fields : Fits(x), NEW s \in Selections(a.fields, values)
        PROVE  s \in Selections(b.fields, values)
    <3>1. PICK F \in SUBSET DOMAIN a.fields :
              s = [x \in F |-> s[x]] /\ \A x \in F : s[x] \in values[a.fields[x]]
      BY SelectionsAre
    <3>2. F \in SUBSET DOMAIN b.fields /\ \A x \in F : s[x] \in values[b.fields[x]]
      BY <2>6, <3>1
    <3> QED
      BY <3>1, <3>2, SelectionsAre
  <2>7. NarrowsBy(a, b, narrowing) <=>
            \A x \in DOMAIN a.fields :
                x \in DOMAIN b.fields /\ narrowing[<<a.fields[x], b.fields[x]>>]
    BY <1>7 DEF NarrowsBy
  <2>8. (\A x \in DOMAIN a.fields : Fits(x)) <=>
            \A x \in DOMAIN a.fields :
                x \in DOMAIN b.fields /\ narrowing[<<a.fields[x], b.fields[x]>>]
    BY <2>3, <2>4
  <2>9. values[a] \subseteq values[b] <=> \A x \in DOMAIN a.fields : Fits(x)
    <3> HIDE DEF Fits
    <3> QED
      BY <2>2, <2>5, <2>6
  <2> HIDE DEF Fits
  <2> QED
    BY <1>0, <2>7, <2>8, <2>9
<1> QED
  BY <1>1, <1>2, <1>3, <1>4, <1>5, <1>6, <1>7

(***************************************************************************)
(* A type narrows another iff the other has all of its values, however deep   *)
(* the two are nested.                                                       *)
(***************************************************************************)
LEMMA NarrowingIsInclusion ==
    \A a, b \in Types : Narrows(a, b) <=> values[a] \subseteq values[b]
<1> DEFINE Right(a) == \A b \in Types : narrowing[<<a, b>>] <=> values[a] \subseteq values[b]
           Bad == {n \in 0 .. Len(TypeLevels) : \E a \in TypesUpTo(n) : ~ Right(a)}
<1>1. SUFFICES Bad = {}
  <2>1. Len(TypeLevels) \in 0 .. Len(TypeLevels)
    BY LevelFacts
  <2>2. \A a \in TypesUpTo(Len(TypeLevels)) : Right(a)
    <3> HIDE DEF Right
    <3> QED
      BY <1>1, <2>1
  <2> QED
    BY <2>2 DEF Types, Narrows
<1>2. SUFFICES ASSUME Bad # {} PROVE FALSE
  OBVIOUS
<1>3. PICK m \in Bad : \A n \in Bad : m <= n
  <2>1. Bad \subseteq Nat
    BY LevelFacts
  <2> HIDE DEF Bad
  <2> QED
    BY <1>2, <2>1, LeastElement
<1>4. m \in 0 .. Len(TypeLevels)
  OBVIOUS
<1>5. PICK a \in TypesUpTo(m) : ~ Right(a)
  <2> HIDE DEF Right
  <2> QED
    BY <1>3
<1>6. m # 0
  BY <1>5, LevelFacts
<1>7. m \in 1 .. Len(TypeLevels) /\ m - 1 \in 0 .. Len(TypeLevels)
  BY <1>4, <1>6, LevelFacts
<1>8. \A p \in TypesUpTo(m - 1) : Right(p)
  <2>1. m - 1 \notin Bad
    <3> HIDE DEF Bad
    <3> QED
      BY <1>3, <1>7
  <2> HIDE DEF Right
  <2> QED
    BY <1>7, <2>1
<1>9. a \in Types /\ Parts(a) \subseteq TypesUpTo(m - 1)
  BY <1>5, <1>7, LevelFacts
<1>10. ASSUME NEW b \in Types PROVE narrowing[<<a, b>>] <=> values[a] \subseteq values[b]
  <2>1. Parts(b) \subseteq Types
    BY Levels
  <2>2. \A p \in Parts(a), q \in Parts(b) : narrowing[<<p, q>>] <=> values[p] \subseteq values[q]
    BY <1>8, <1>9, <2>1
  <2> HIDE DEF values, narrowing
  <2> QED
    BY <1>9, <2>2, NarrowsIncludes
<1> QED
  BY <1>5, <1>10

(* The findings that a tool's schemas are behind.                            *)
LEMMA FindingsOfTools ==
    /\ "LLMF500" \in SemanticFindings(setup) <=>
          \E t \in DOMAIN setup.tools :
              ~ InputFits(Catalog[setup.tools[t].input], Operation(setup, t).params)
    /\ "LLMF501" \in SemanticFindings(setup) <=>
          \E t \in DOMAIN setup.tools :
              /\ setup.tools[t].output # NoSchema
              /\ ~ Narrows(ResultType(setup, t), Returned(setup, t))
<1>1. \A p : {"LLMF500", "LLMF501"} \cap PolicyFindings(setup, p) = {}
  BY DEF PolicyFindings
<1>2. \A t : /\ "LLMF500" \in ToolFindings(setup, t) <=>
                    ~ InputFits(Catalog[setup.tools[t].input], Operation(setup, t).params)
             /\ "LLMF501" \in ToolFindings(setup, t) <=>
                    /\ setup.tools[t].output # NoSchema
                    /\ ~ Narrows(ResultType(setup, t), Returned(setup, t))
  BY DEF ToolFindings
<1>3. \A x \in {"LLMF500", "LLMF501"} :
         x \in SemanticFindings(setup) <=> \E t \in DOMAIN setup.tools : x \in ToolFindings(setup, t)
  <2> SUFFICES ASSUME NEW x \in {"LLMF500", "LLMF501"}
               PROVE  x \in SemanticFindings(setup)
                        <=> \E t \in DOMAIN setup.tools : x \in ToolFindings(setup, t)
    OBVIOUS
  <2> DEFINE Tools_ == UNION {ToolFindings(setup, t) : t \in DOMAIN setup.tools}
             Policies_ == UNION {PolicyFindings(setup, p) : p \in DOMAIN setup.policies}
             Agents_ == IF \E a \in DOMAIN setup.agents :
                                CostRequired(setup, a) /\ ~ setup.agents[a].priced
                        THEN {"LLMF505"} ELSE {}
  <2>1. x \in Tools_ <=> \E t \in DOMAIN setup.tools : x \in ToolFindings(setup, t)
    OBVIOUS
  <2>2. x \notin Policies_
    BY <1>1
  <2>3. x \notin Agents_
    OBVIOUS
  <2>4. SemanticFindings(setup) = Tools_ \cup Policies_ \cup Agents_
    BY DEF SemanticFindings
  <2> QED
    BY <2>1, <2>2, <2>3, <2>4
<1>4. "LLMF500" \in SemanticFindings(setup) <=>
          \E t \in DOMAIN setup.tools : "LLMF500" \in ToolFindings(setup, t)
  BY <1>3
<1>5. "LLMF501" \in SemanticFindings(setup) <=>
          \E t \in DOMAIN setup.tools : "LLMF501" \in ToolFindings(setup, t)
  BY <1>3
<1>6. "LLMF500" \in SemanticFindings(setup) <=>
          \E t \in DOMAIN setup.tools :
              ~ InputFits(Catalog[setup.tools[t].input], Operation(setup, t).params)
  BY <1>2, <1>4, Zenon
<1>7. "LLMF501" \in SemanticFindings(setup) <=>
          \E t \in DOMAIN setup.tools :
              /\ setup.tools[t].output # NoSchema
              /\ ~ Narrows(ResultType(setup, t), Returned(setup, t))
  BY <1>2, <1>5, Zenon
<1> QED
  BY <1>6, <1>7

(* An input fits an operation iff it is an object, all of its arguments are   *)
(* the operation's, and nothing that it requires is hidden.                  *)
LEMMA FittingInputs ==
    ASSUME IsSetup(setup), NEW t \in DOMAIN setup.tools
    PROVE  InputFits(Catalog[setup.tools[t].input], Operation(setup, t).params)
              <=> ~ (InputType(setup, t).kind # "object" \/ IsRefused(t) \/ HidesRequired(t))
<1> DEFINE schema == Catalog[setup.tools[t].input]
           operation == Operation(setup, t)
           params == operation.params
           fields == schema.type.fields
           Kind_(f) == fields[f].kind
<1>1. setup.tools[t].input \in DOMAIN Catalog
  BY DEF IsSetup
<1>2. /\ schema.type \in Types
      /\ schema.requires \subseteq DOMAIN FieldsOf(schema.type)
      /\ schema.isRef \in BOOLEAN
  BY <1>1, CatalogAssumption
<1>3. InputType(setup, t) = schema.type
  BY DEF InputType
<1>4. CASE schema.type.kind # "object"
  BY <1>3, <1>4 DEF InputFits
<1>5. CASE schema.type.kind = "object"
  <2>1. FieldsOf(schema.type) = fields /\ schema.requires \subseteq DOMAIN fields
    BY <1>2, <1>5 DEF FieldsOf
  <2>2. \A f \in DOMAIN fields : fields[f].kind \in SchemaKinds
    <3>1. \A f \in DOMAIN fields : fields[f] \in Parts(schema.type)
      BY <1>5 DEF Parts
    <3> QED
      BY <1>2, <3>1, Levels
  <2>3. ASSUME NEW F \in SUBSET DOMAIN fields, schema.requires \subseteq F
        PROVE  [f \in F |-> fields[f].kind] \in Arguments(schema)
    <3> DEFINE args == [f \in F |-> fields[f].kind]
    <3>1. args \in [F -> SchemaKinds] /\ DOMAIN args = F
      BY <2>2
    <3>2. args \in UNION {[G -> SchemaKinds] : G \in SUBSET DOMAIN FieldsOf(schema.type)}
      BY <2>1, <3>1
    <3>3. \A f \in DOMAIN args : args[f] = schema.type.fields[f].kind
      OBVIOUS
    <3> HIDE DEF args, fields, schema
    <3> QED
      BY <2>3, <3>1, <3>2, <3>3 DEF Arguments, args
  <2>4. ASSUME NEW args \in Arguments(schema)
        PROVE  /\ schema.requires \subseteq DOMAIN args /\ DOMAIN args \subseteq DOMAIN fields
               /\ \A f \in DOMAIN args : \/ args[f] = fields[f].kind
                                         \/ args[f] = "int" /\ fields[f].kind = "double"
    <3>1. PICK F \in SUBSET DOMAIN FieldsOf(schema.type) : args \in [F -> SchemaKinds]
      BY DEF Arguments
    <3>2. DOMAIN args \subseteq DOMAIN fields
      BY <2>1, <3>1
    <3> QED
      BY <3>2 DEF Arguments
  <2>5. ASSUME InputFits(schema, params) PROVE ~ IsRefused(t) /\ ~ HidesRequired(t)
    <3>1. /\ \A f \in DOMAIN fields : f \in DOMAIN params /\ Accepts(fields[f], params[f].kind)
          /\ \A q \in DOMAIN params : params[q].required => q \in RequiredFields(schema)
      BY <2>5 DEF InputFits
    <3>2. ASSUME NEW args \in Arguments(schema) PROVE Takes(operation, args)
      <4>1. \A q \in DOMAIN params : params[q].required => q \in DOMAIN args
        BY <2>4, <3>1, <3>2 DEF RequiredFields
      <4>2. ASSUME NEW f \in DOMAIN args
            PROVE  /\ f \in DOMAIN params
                   /\ args[f] = params[f].kind \/ (args[f] = "int" /\ params[f].kind = "double")
        <5>1. f \in DOMAIN params /\ Accepts(fields[f], params[f].kind)
          BY <2>4, <3>1, <3>2, <4>2
        <5>2. args[f] = fields[f].kind \/ (args[f] = "int" /\ fields[f].kind = "double")
          BY <2>4, <3>2, <4>2
        <5> QED
          BY <5>1, <5>2 DEF Accepts
      <4> HIDE DEF params
      <4> QED
        BY <4>1, <4>2 DEF Takes, params
    <3>3. ~ HidesRequired(t)
      BY <3>1 DEF HidesRequired, RequiredFields
    <3>4. ~ IsRefused(t)
      BY <3>2 DEF IsRefused
    <3> QED
      BY <3>3, <3>4
  <2>6. ASSUME ~ IsRefused(t), ~ HidesRequired(t) PROVE InputFits(schema, params)
    <3>1. \A args \in Arguments(schema) : Takes(operation, args)
      BY <2>6 DEF IsRefused
    <3>2. ASSUME NEW f \in DOMAIN fields
          PROVE  f \in DOMAIN params /\ Accepts(fields[f], params[f].kind)
      <4> DEFINE args == [x \in DOMAIN fields |-> fields[x].kind]
      <4>1. args \in Arguments(schema)
        BY <2>1, <2>3
      <4>2. Takes(operation, args)
        BY <3>1, <4>1
      <4>3. f \in DOMAIN args /\ args[f] = fields[f].kind
        BY <3>2
      <4>4. /\ f \in DOMAIN params
            /\ args[f] = params[f].kind \/ (args[f] = "int" /\ params[f].kind = "double")
        <5> HIDE DEF args
        <5> QED
          BY <4>2, <4>3 DEF Takes
      <4> QED
        BY <4>3, <4>4 DEF Accepts
    <3>3. ASSUME NEW q \in DOMAIN params, params[q].required PROVE q \in RequiredFields(schema)
      <4> DEFINE args == [x \in schema.requires |-> fields[x].kind]
      <4>1. args \in Arguments(schema)
        BY <2>1, <2>3
      <4>2. Takes(operation, args) /\ DOMAIN args = schema.requires
        BY <3>1, <4>1
      <4>3. q \in schema.requires
        <5> HIDE DEF args
        <5> QED
          BY <3>3, <4>2 DEF Takes
      <4>4. ~ schema.isRef
        BY <2>6, <3>3 DEF HidesRequired
      <4> QED
        BY <4>3, <4>4 DEF RequiredFields
    <3> QED
      BY <1>5, <3>2, <3>3 DEF InputFits
  <2> QED
    BY <1>3, <1>5, <2>5, <2>6
<1> QED
  BY <1>4, <1>5

LEMMA RuleFindingsAreTheCheckers ==
    ASSUME OInv PROVE RuleFindings \subseteq {"LLMF411", "LLMF412", "LLMF413"}
<1>1. ASSUME NEW c \in Compilable PROVE CodesOf(c) \subseteq {"LLMF411", "LLMF412", "LLMF413"}
  <2> DEFINE rule == setup.policies[c.policy].rule
             env == HookEnvironment(setup, c.agent, setup.policies[c.policy].on, c.tool)
  <2>1. IsRule(rule) /\ \A x \in DOMAIN env : IsType(env[x])
    BY CompiledFacts
  <2>2. CodesOf(c) = RuleCodes(rule, env)
    BY DEF CodesOf
  <2> HIDE DEF rule, env
  <2> QED
    BY <2>1, <2>2, RulesAreSound
<1> QED
  BY <1>1 DEF RuleFindings

LEMMA ToolsOfOInv == OInv => ToolsAreDecided
<1> SUFFICES ASSUME OInv, stage \in {"accepted", "refused"}
             PROVE  /\ "LLMF500" \in codes <=>
                          \E t \in DOMAIN setup.tools :
                              InputType(setup, t).kind # "object" \/ IsRefused(t) \/ HidesRequired(t)
                    /\ "LLMF501" \in codes <=>
                          \E t \in DOMAIN setup.tools :
                              /\ setup.tools[t].output # NoSchema
                              /\ ~ values[ResultType(setup, t)] \subseteq values[Returned(setup, t)]
  BY DEF ToolsAreDecided
<1>1. IsSetup(setup) /\ codes = RuleFindings \cup SemanticFindings(setup)
  BY DEF OInv, Gathered
<1>2. \A x \in {"LLMF500", "LLMF501"} : x \in codes <=> x \in SemanticFindings(setup)
  BY <1>1, RuleFindingsAreTheCheckers
<1>3. \A t \in DOMAIN setup.tools :
         ~ InputFits(Catalog[setup.tools[t].input], Operation(setup, t).params)
           <=> (InputType(setup, t).kind # "object" \/ IsRefused(t) \/ HidesRequired(t))
  BY <1>1, FittingInputs
<1>4. \A t \in DOMAIN setup.tools :
         Narrows(ResultType(setup, t), Returned(setup, t))
           <=> values[ResultType(setup, t)] \subseteq values[Returned(setup, t)]
  BY <1>1, SetupTypes, NarrowingIsInclusion
<1> HIDE DEF values
<1> QED
  BY <1>2, <1>3, <1>4, FindingsOfTools

(***************************************************************************)
(* Whatever the project, LLMF500 and LLMF501 are reported exactly of the      *)
(* tools that they stand for.                                               *)
(***************************************************************************)
THEOREM ToolChecksAreExact == OfflineSpec => []ToolsAreDecided
BY OfflineInvariance, ToolsOfOInv, PTL

(* An accepted project was walked, compiled and checked.                     *)
LEMMA AcceptedOfOInv ==
    OInv /\ ProjectsAreOrdered /\ SchemasAreDecided => AcceptedProjectsAreSound
<1> SUFFICES ASSUME OInv, ProjectsAreOrdered, SchemasAreDecided, stage = "accepted"
             PROVE  AcceptedProjectsAreSound
  BY DEF AcceptedProjectsAreSound
<1>1. /\ walk = "done" /\ project # NoProject /\ compiled
      /\ Valid /\ reports = {} /\ codes \subseteq Warning
  BY DEF OInv, Staged, Gathered
<1>2. \A r \in project.references :
         \E i, j \in DOMAIN ordered : i < j /\ ordered[i] = r.to /\ ordered[j] = r.from
  BY <1>1 DEF ProjectsAreOrdered, Walked
<1>3. InProfile
  BY <1>1 DEF SchemasAreDecided
<1>4. "LLMF500" \notin codes /\ "LLMF501" \notin codes
  BY <1>1 DEF Warning
<1>5. ToolsAreDecided
  BY ToolsOfOInv
<1>6. \A t \in DOMAIN setup.tools : InputType(setup, t).kind = "object" /\ ~ IsRefused(t)
  BY <1>4, <1>5 DEF ToolsAreDecided
<1>7. \A t \in DOMAIN setup.tools : setup.tools[t].output # NoSchema =>
          values[ResultType(setup, t)] \subseteq values[Returned(setup, t)]
  BY <1>4, <1>5 DEF ToolsAreDecided
<1> QED
  BY <1>2, <1>3, <1>6, <1>7 DEF AcceptedProjectsAreSound

(***************************************************************************)
(* What an accepted project may rely on, whatever the project: the theorems   *)
(* about the stages put together.                                            *)
(***************************************************************************)
THEOREM AcceptanceIsSound == OfflineSpec => []AcceptedProjectsAreSound
BY StagesAreSeparate, ProjectsHaveAnOrder, ProfileIsDecided, OfflineInvariance, AcceptedOfOInv, PTL
=============================================================================
