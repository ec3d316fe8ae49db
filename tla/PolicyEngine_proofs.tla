------------------------ MODULE PolicyEngine_proofs ------------------------
(***************************************************************************)
(* The dispatch loop computes Hooks!Dispatch, for every evaluator and every  *)
(* list of attached policies, and implements HookContract.                   *)
(***************************************************************************)
EXTENDS PolicyEngine, Hooks_proofs

(***************************************************************************)
(* What the loop has established about the policies before index: none of   *)
(* them stops the hook, those that apply are in applied, those that stage    *)
(* are in staged, in order.                                                  *)
(***************************************************************************)
Scan ==
    pc \in {"scan", "commit"} =>
        /\ \A j \in Stoppers(inv) : index <= j
        /\ applied = {j \in Applied(inv) : j < index}
        /\ StagedPositions = {j \in Stagers(inv) : j < index}

Order ==
    \A k, l \in DOMAIN staged :
        k < l => \/ staged[k][1] < staged[l][1]
                 \/ staged[k][1] = staged[l][1] /\ staged[k][2] < staged[l][2]

Behind == pc = "scan" => \A k \in DOMAIN staged : staged[k][1] < index

Commits ==
    /\ pc = "scan" => committed = 0
    /\ pc = "commit" => index = Len(inv.policies) + 1 /\ ~ Unposted(inv)
    /\ committed > 0 => Stoppers(inv) = {} /\ inv.object /\ ~ Unposted(inv)

(* The transforms reach the payload. *)
Releases == Stoppers(inv) = {} /\ ~ Unposted(inv) /\ inv.object

Decided ==
    /\ pc # "done" => result = NoResult
    /\ pc = "done" => /\ result = Dispatch(inv)
                      /\ CommittedPositions = IF Releases THEN Stagers(inv) ELSE {}

IInv == TypeOK /\ Scan /\ Order /\ Behind /\ Commits /\ Decided

-----------------------------------------------------------------------------
(* An invocation of the model has a well-formed list of policies. *)
LEMMA PoliciesFacts ==
    ASSUME NEW c \in Invocations
    PROVE  /\ Len(c.policies) \in Nat
           /\ DOMAIN c.policies = 1..Len(c.policies)
           /\ c.object \in BOOLEAN
           /\ \A i \in DOMAIN c.policies :
                 /\ c.policies[i].otherwise \in Verdicts
                 /\ c.policies[i].transforms \in Seq({"redact", "tokenize"})
                 /\ Len(c.policies[i].transforms) \in Nat
<1>1. c.policies \in Seq({c.policies[i] : i \in DOMAIN c.policies})
  BY InvocationsAssumption
<1>2. Len(c.policies) \in Nat /\ DOMAIN c.policies = 1..Len(c.policies)
  BY <1>1
<1>3. ASSUME NEW i \in DOMAIN c.policies
      PROVE  /\ c.policies[i].otherwise \in Verdicts
             /\ c.policies[i].transforms \in Seq({"redact", "tokenize"})
  BY InvocationsAssumption
<1>4. ASSUME NEW i \in DOMAIN c.policies
      PROVE  Len(c.policies[i].transforms) \in Nat
  BY <1>3
<1>5. c.object \in BOOLEAN
  BY InvocationsAssumption
<1> QED
  BY <1>2, <1>3, <1>4, <1>5

(* The invariant holds before the first policy is looked at. *)
LEMMA InitIInv == Init => IInv
<1> SUFFICES ASSUME Init PROVE IInv
  OBVIOUS
<1>1. Len(inv.policies) \in Nat /\ DOMAIN inv.policies = 1..Len(inv.policies)
  BY PoliciesFacts DEF Init
<1>2. TypeOK
  BY <1>1 DEF Init, TypeOK, NoResult
<1>3. StagedPositions = {}
  BY DEF Init, StagedPositions
<1>4. Scan
  BY <1>1, <1>3 DEF Init, Scan, Stoppers, Stagers, Applied
<1>5. Order /\ Behind /\ Commits /\ Decided
  BY DEF Init, Order, Behind, Commits, Decided
<1> QED
  BY <1>2, <1>4, <1>5 DEF IInv

-----------------------------------------------------------------------------
(* Appending u leaves the elements of s where they are and puts those of u   *)
(* after them.                                                               *)
LEMMA StagedElements ==
    ASSUME NEW X, NEW s \in Seq(X), NEW u \in Seq(X)
    PROVE  /\ s \o u \in Seq(X)
           /\ Len(s) \in Nat /\ Len(u) \in Nat
           /\ Len(s \o u) = Len(s) + Len(u)
           /\ DOMAIN (s \o u) = 1..Len(s \o u)
           /\ DOMAIN s = 1..Len(s)
           /\ \A k \in 1..Len(s) : (s \o u)[k] = s[k]
           /\ \A k \in Len(s) + 1 .. Len(s) + Len(u) : (s \o u)[k] = u[k - Len(s)]
OBVIOUS

(* What a step may use of the state it starts from. *)
LEMMA StateFacts ==
    ASSUME TypeOK
    PROVE  /\ inv \in Invocations
           /\ Len(inv.policies) \in Nat
           /\ DOMAIN inv.policies = 1..Len(inv.policies)
           /\ index \in Nat /\ index >= 1
           /\ Len(staged) \in Nat
           /\ DOMAIN staged = 1..Len(staged)
           /\ \A k \in DOMAIN staged : staged[k][1] \in DOMAIN inv.policies
           /\ Stoppers(inv) \subseteq Applied(inv)
           /\ Stagers(inv) \subseteq Applied(inv)
           /\ Applied(inv) \subseteq DOMAIN inv.policies
<1>1. Len(inv.policies) \in Nat /\ DOMAIN inv.policies = 1..Len(inv.policies)
  BY PoliciesFacts DEF TypeOK
<1>2. staged \in Seq((DOMAIN inv.policies) \X (Nat \ {0}))
  BY DEF TypeOK
<1>3. Len(staged) \in Nat /\ DOMAIN staged = 1..Len(staged)
  BY <1>2
<1>4. ASSUME NEW k \in DOMAIN staged PROVE staged[k][1] \in DOMAIN inv.policies
  BY <1>2, <1>3
<1> QED
  BY <1>1, <1>3, <1>4 DEF TypeOK, Stoppers, Stagers, Applied

-----------------------------------------------------------------------------
(***************************************************************************)
(* Every step preserves the invariant: first the steps of the scan that go   *)
(* on, then those that return.                                               *)
(***************************************************************************)

LEMMA SkipStep == IInv /\ Skip => IInv'
<1> SUFFICES ASSUME IInv, Skip PROVE IInv'
  OBVIOUS
<1> USE DEF IInv
<1>1. index \notin Applied(inv) /\ index <= Len(inv.policies) /\ pc = "scan"
  BY StateFacts DEF Skip, Here, AppliesHere, Policy, Applied
<1>2. TypeOK'
  BY <1>1, StateFacts DEF TypeOK, Skip
<1>3. StagedPositions' = StagedPositions
  BY DEF Skip, StagedPositions
<1>4. Scan'
  <2>1. \A j \in Stoppers(inv) : index + 1 <= j
    BY <1>1, StateFacts DEF Scan
  <2>2. {j \in Applied(inv) : j < index} = {j \in Applied(inv) : j < index + 1}
    BY <1>1, StateFacts
  <2>3. {j \in Stagers(inv) : j < index} = {j \in Stagers(inv) : j < index + 1}
    BY <1>1, StateFacts
  <2> QED
    BY <1>1, <1>3, <2>1, <2>2, <2>3 DEF Scan, Skip
<1>5. Order' /\ Behind' /\ Commits' /\ Decided'
  BY <1>1, StateFacts DEF Order, Behind, Commits, Decided, Skip
<1> QED
  BY <1>2, <1>4, <1>5

LEMMA StageStep == IInv /\ Stage => IInv'
<1> SUFFICES ASSUME IInv, Stage PROVE IInv'
  OBVIOUS
<1> USE DEF IInv
<1>1. /\ index \in Applied(inv) /\ index \in DOMAIN inv.policies
      /\ pc = "scan" /\ pc' = pc /\ inv' = inv /\ index' = index + 1
      /\ committed' = committed /\ result' = result
  BY StateFacts DEF Stage, Here, AppliesHere, Policy, Applied
<1>2. index \notin Stoppers(inv)
  BY DEF Stage, Policy, Stoppers, Stops
<1> DEFINE n == Len(inv.policies[index].transforms)
<1>3. n \in Nat /\ (n = 0 <=> inv.policies[index].transforms = << >>)
  BY <1>1, PoliciesFacts, StateFacts
<1>4. index \in Stagers(inv) <=> n > 0
  BY <1>1, <1>3 DEF Stage, Policy, Stagers
<1>5. staged \in Seq((DOMAIN inv.policies) \X (Nat \ {0}))
  BY DEF TypeOK
<1> DEFINE new == [k \in 1..n |-> <<index, k>>]
<1>6. staged' = staged \o new
  BY DEF Stage, Policy
<1> HIDE DEF n
<1>a. new \in Seq((DOMAIN inv.policies) \X (Nat \ {0})) /\ Len(new) = n
  BY <1>1, <1>3
<1>b. \A k \in 1..n : new[k] = <<index, k>>
  OBVIOUS
<1> HIDE DEF new
<1>7. /\ staged' \in Seq((DOMAIN inv.policies) \X (Nat \ {0}))
      /\ Len(staged') = Len(staged) + n /\ DOMAIN staged' = 1..Len(staged')
      /\ DOMAIN staged = 1..Len(staged) /\ Len(staged) \in Nat
      /\ \A k \in DOMAIN staged : k \in DOMAIN staged' /\ staged'[k] = staged[k]
      /\ \A k \in DOMAIN staged' \ DOMAIN staged : staged'[k] = <<index, k - Len(staged)>>
  <2>1. /\ staged' \in Seq((DOMAIN inv.policies) \X (Nat \ {0}))
        /\ Len(staged') = Len(staged) + n /\ DOMAIN staged' = 1..Len(staged')
        /\ DOMAIN staged = 1..Len(staged) /\ Len(staged) \in Nat
        /\ \A k \in 1..Len(staged) : staged'[k] = staged[k]
        /\ \A k \in Len(staged) + 1 .. Len(staged) + n : staged'[k] = new[k - Len(staged)]
    <3> DEFINE X == (DOMAIN inv.policies) \X (Nat \ {0})
    <3>1. staged \in Seq(X) /\ new \in Seq(X)
      BY <1>5, <1>a
    <3> HIDE DEF X
    <3>2. /\ staged \o new \in Seq(X)
          /\ Len(staged) \in Nat
          /\ Len(staged \o new) = Len(staged) + Len(new)
          /\ DOMAIN (staged \o new) = 1..Len(staged \o new)
          /\ DOMAIN staged = 1..Len(staged)
          /\ \A k \in 1..Len(staged) : (staged \o new)[k] = staged[k]
          /\ \A k \in Len(staged) + 1 .. Len(staged) + Len(new) :
                (staged \o new)[k] = new[k - Len(staged)]
      BY <3>1, StagedElements
    <3>3. Len(new) = n
      BY <1>a
    <3> QED
      BY <1>6, <3>2, <3>3 DEF X
  <2>2. \A k \in DOMAIN staged' \ DOMAIN staged : staged'[k] = <<index, k - Len(staged)>>
    <3> SUFFICES ASSUME NEW k \in DOMAIN staged', k \notin DOMAIN staged
                 PROVE  staged'[k] = <<index, k - Len(staged)>>
      OBVIOUS
    <3>1. k \in Len(staged) + 1 .. Len(staged) + n /\ k - Len(staged) \in 1..n
      BY <1>3, <2>1
    <3> QED
      BY <1>b, <2>1, <3>1
  <2> QED
    BY <1>3, <2>1, <2>2
<1>8. applied' = applied \cup {index}
  BY DEF Stage
<1>9. TypeOK'
  <2>1. applied' \subseteq DOMAIN inv.policies
    BY <1>1, <1>8 DEF TypeOK
  <2>2. index' \in 1 .. Len(inv.policies) + 1
    BY <1>1, StateFacts
  <2>3. committed' \in 0 .. Len(staged')
    BY <1>1, <1>3, <1>7 DEF TypeOK
  <2> QED
    BY <1>1, <1>7, <2>1, <2>2, <2>3 DEF TypeOK
<1>10. Scan'
  <2>1. \A j \in Stoppers(inv) : index + 1 <= j
    BY <1>1, <1>2, StateFacts DEF Scan
  <2>2. applied' = {j \in Applied(inv) : j < index + 1}
    BY <1>1, <1>8, StateFacts DEF Scan
  <2>3. StagedPositions' = StagedPositions \cup (IF n > 0 THEN {index} ELSE {})
    <3>1. StagedPositions' \subseteq StagedPositions \cup (IF n > 0 THEN {index} ELSE {})
      BY <1>3, <1>7 DEF StagedPositions
    <3>2. StagedPositions \subseteq StagedPositions'
      BY <1>7 DEF StagedPositions
    <3>3. n > 0 => index \in StagedPositions'
      <4>1. n > 0 => Len(staged') \in DOMAIN staged' \ DOMAIN staged
        BY <1>3, <1>7
      <4> QED
        BY <1>7, <4>1 DEF StagedPositions
    <3> QED
      BY <3>1, <3>2, <3>3
  <2>4. StagedPositions' = {j \in Stagers(inv) : j < index + 1}
    BY <1>1, <1>4, <2>3, StateFacts DEF Scan
  <2> QED
    BY <1>1, <2>1, <2>2, <2>4 DEF Scan
<1>11. Behind'
  <2> SUFFICES ASSUME NEW k \in DOMAIN staged' PROVE staged'[k][1] < index + 1
    BY <1>1 DEF Behind
  <2>1. CASE k \in DOMAIN staged
    <3>1. staged[k][1] < index /\ staged[k][1] \in DOMAIN inv.policies
      BY <1>1, <2>1, StateFacts DEF Behind
    <3>2. staged'[k][1] = staged[k][1]
      BY <1>7, <2>1
    <3> QED
      BY <3>1, <3>2, StateFacts
  <2>2. CASE k \notin DOMAIN staged
    BY <1>1, <1>7, <2>2, StateFacts
  <2> QED
    BY <2>1, <2>2
<1>12. Order'
  <2> SUFFICES ASSUME NEW k \in DOMAIN staged', NEW l \in DOMAIN staged', k < l
               PROVE  \/ staged'[k][1] < staged'[l][1]
                      \/ staged'[k][1] = staged'[l][1] /\ staged'[k][2] < staged'[l][2]
    BY DEF Order
  <2>1. CASE l \in DOMAIN staged
    <3>1. k \in DOMAIN staged
      BY <1>7, <2>1
    <3>2. staged'[k] = staged[k] /\ staged'[l] = staged[l]
      BY <1>7, <2>1, <3>1
    <3>3. \/ staged[k][1] < staged[l][1]
          \/ staged[k][1] = staged[l][1] /\ staged[k][2] < staged[l][2]
      BY <2>1, <3>1 DEF Order
    <3> QED
      BY <3>2, <3>3
  <2>2. CASE l \notin DOMAIN staged /\ k \in DOMAIN staged
    BY <1>1, <1>7, <2>2 DEF Behind
  <2>3. CASE l \notin DOMAIN staged /\ k \notin DOMAIN staged
    BY <1>7, <2>3
  <2> QED
    BY <2>1, <2>2, <2>3
<1>13. Commits' /\ Decided'
  BY <1>1 DEF Commits, Decided
<1> QED
  BY <1>9, <1>10, <1>11, <1>12, <1>13

LEMMA WaiveStep == IInv /\ Waive => IInv'
<1> SUFFICES ASSUME IInv, Waive PROVE IInv'
  OBVIOUS
<1> USE DEF IInv
<1>1. /\ index \in Applied(inv) /\ pc = "scan" /\ pc' = pc /\ inv' = inv
      /\ index' = index + 1 /\ staged' = staged /\ committed' = committed
      /\ result' = result /\ applied' = applied \cup {index}
  BY StateFacts DEF Waive, Here, AppliesHere, Policy, Applied
<1>2. index \notin Stoppers(inv) /\ index \notin Stagers(inv)
  BY DEF Waive, Policy, Stoppers, Stops, Stagers, Allows, Refuses
<1>3. TypeOK'
  BY <1>1, StateFacts DEF TypeOK
<1>4. StagedPositions' = StagedPositions
  BY <1>1 DEF StagedPositions
<1>5. Scan'
  <2>1. \A j \in Stoppers(inv) : index + 1 <= j
    BY <1>1, <1>2, StateFacts DEF Scan
  <2>2. applied' = {j \in Applied(inv) : j < index + 1}
    BY <1>1, StateFacts DEF Scan
  <2>3. {j \in Stagers(inv) : j < index} = {j \in Stagers(inv) : j < index + 1}
    BY <1>1, <1>2, StateFacts
  <2> QED
    BY <1>1, <1>4, <2>1, <2>2, <2>3 DEF Scan
<1>6. Order' /\ Behind' /\ Commits' /\ Decided'
  BY <1>1, StateFacts DEF Order, Behind, Commits, Decided
<1> QED
  BY <1>3, <1>5, <1>6

(* The two ways the scan ends at a policy that stops the hook. *)
LEMMA StopStep == IInv /\ (Block \/ RuleRaises) => IInv'
<1> SUFFICES ASSUME IInv, Block \/ RuleRaises PROVE IInv'
  OBVIOUS
<1> USE DEF IInv
<1>1. /\ index \in Applied(inv) /\ index \in DOMAIN inv.policies
      /\ pc = "scan" /\ pc' = "done" /\ inv' = inv
      /\ index' = index /\ staged' = staged /\ committed' = committed
      /\ applied' = applied \cup {index}
  BY StateFacts DEF Block, RuleRaises, Finish, Here, AppliesHere, Policy, Applied
<1>2. index \in Stoppers(inv)
  BY <1>1 DEF Block, RuleRaises, Policy, Stoppers, Stops, Allows, Refuses
<1>3. IsFirstStopper(inv, index)
  BY <1>1, <1>2 DEF IsFirstStopper, Scan
<1>4. applied' = {j \in Applied(inv) : j <= index}
  BY <1>1, StateFacts DEF Scan
<1>5. result' = [outcome |-> StopOutcome(inv.policies[index], inv.ctx),
                 applied |-> {j \in Applied(inv) : j <= index}, staged |-> {}]
  BY <1>4 DEF Block, RuleRaises, Finish, Policy, StopOutcome
<1>6. result' = Dispatch(inv)
  BY <1>3, <1>5, DispatchStops, StateFacts
<1>7. result'.outcome \in Outcomes
  <2>1. CASE Block
    <3>1. inv.policies[index].otherwise \in {"DENY", "REQUIRE_APPROVAL"}
      BY <1>1, <2>1, PoliciesFacts, StateFacts DEF Block, Policy, Waives, Verdicts
    <3> QED
      BY <2>1, <3>1 DEF Block, Finish, Policy, Outcomes
  <2>2. CASE RuleRaises
    BY <2>2 DEF RuleRaises, Finish, Outcomes
  <2> QED
    BY <2>1, <2>2
<1>8. TypeOK'
  BY <1>1, <1>7 DEF TypeOK
<1>9. CommittedPositions' = {}
  BY <1>1 DEF Commits, CommittedPositions
<1>10. Decided'
  BY <1>1, <1>2, <1>6, <1>9 DEF Decided, Releases
<1>11. Scan' /\ Order' /\ Behind' /\ Commits'
  BY <1>1 DEF Scan, Order, Behind, Commits
<1> QED
  BY <1>8, <1>10, <1>11

(* After the scan applied and staged hold everything that applies and stages. *)
LEMMA ScanComplete ==
    ASSUME IInv, pc \in {"scan", "commit"}, index > Len(inv.policies)
    PROVE  /\ Stoppers(inv) = {}
           /\ applied = Applied(inv)
           /\ StagedPositions = Stagers(inv)
<1> USE DEF IInv
<1>1. \A j \in Applied(inv) : j \in Nat /\ j < index
  BY StateFacts
<1>2. Stoppers(inv) = {}
  BY <1>1, StateFacts DEF Scan
<1>3. applied = Applied(inv)
  BY <1>1 DEF Scan
<1>4. StagedPositions = Stagers(inv)
  BY <1>1, StateFacts DEF Scan
<1> QED
  BY <1>2, <1>3, <1>4

LEMMA RefuseStep == IInv /\ Refuse => IInv'
<1> SUFFICES ASSUME IInv, Refuse PROVE IInv'
  OBVIOUS
<1> USE DEF IInv
<1>1. /\ pc = "scan" /\ pc' = "done" /\ UNCHANGED <<inv, index, applied, staged, committed>>
      /\ result' = [outcome |-> "DENY", applied |-> {}, staged |-> {}]
  BY DEF Refuse, Scanned, Finish
<1>2. Stoppers(inv) = {} /\ Unposted(inv)
  BY ScanComplete DEF Refuse, Scanned, PostureRefuses, Unposted
<1>3. result' = Dispatch(inv)
  BY <1>1, <1>2, DispatchRefuses
<1>4. TypeOK'
  BY <1>1 DEF TypeOK, Outcomes
<1>5. CommittedPositions' = {}
  BY <1>1 DEF Commits, CommittedPositions
<1>6. Decided'
  BY <1>1, <1>2, <1>3, <1>5 DEF Decided, Releases
<1>7. Scan' /\ Order' /\ Behind' /\ Commits'
  BY <1>1 DEF Scan, Order, Behind, Commits
<1> QED
  BY <1>4, <1>6, <1>7

LEMMA StartCommitsStep == IInv /\ StartCommits => IInv'
<1> SUFFICES ASSUME IInv, StartCommits PROVE IInv'
  OBVIOUS
<1> USE DEF IInv
<1>1. /\ pc = "scan" /\ pc' = "commit" /\ index > Len(inv.policies)
      /\ UNCHANGED <<inv, index, applied, staged, committed, result>>
  BY DEF StartCommits, Scanned
<1>2. index = Len(inv.policies) + 1
  BY <1>1, StateFacts DEF TypeOK
<1>3. ~ Unposted(inv)
  BY <1>1, ScanComplete DEF StartCommits, PostureRefuses, Unposted
<1>4. TypeOK' /\ Commits'
  BY <1>1, <1>2, <1>3 DEF TypeOK, Commits
<1>5. Scan' /\ Order' /\ Behind' /\ Decided'
  BY <1>1 DEF Scan, StagedPositions, Order, Behind, Decided
<1> QED
  BY <1>4, <1>5

LEMMA CommitStep == IInv /\ Commit => IInv'
<1> SUFFICES ASSUME IInv, Commit PROVE IInv'
  OBVIOUS
<1> USE DEF IInv
<1>1. /\ pc = "commit" /\ committed' = committed + 1 /\ committed < Len(staged)
      /\ inv.object /\ UNCHANGED <<inv, pc, index, applied, staged, result>>
  BY DEF Commit
<1>2. TypeOK'
  BY <1>1, StateFacts DEF TypeOK
<1>3. Stoppers(inv) = {} /\ ~ Unposted(inv)
  BY <1>1, ScanComplete, StateFacts DEF Commits
<1>4. Commits'
  BY <1>1, <1>3 DEF Commits
<1>5. Scan' /\ Order' /\ Behind' /\ Decided'
  BY <1>1 DEF Scan, StagedPositions, Order, Behind, Decided
<1> QED
  BY <1>2, <1>4, <1>5

(* The two ways the commits end: the first raises, or all have run. *)
LEMMA EndStep == IInv /\ (CommitRaises \/ Return) => IInv'
<1> SUFFICES ASSUME IInv, CommitRaises \/ Return PROVE IInv'
  OBVIOUS
<1> USE DEF IInv
<1>1. /\ pc = "commit" /\ pc' = "done" /\ UNCHANGED <<inv, index, applied, staged, committed>>
  BY DEF CommitRaises, Return, Finish
<1>2. Stoppers(inv) = {} /\ ~ Unposted(inv) /\ applied = Applied(inv)
      /\ StagedPositions = Stagers(inv)
  BY <1>1, ScanComplete, StateFacts DEF Commits
<1>3. staged = << >> <=> Stagers(inv) = {}
  <2>1. staged = << >> => StagedPositions = {}
    BY DEF StagedPositions
  <2>2. Len(staged) > 0 => staged[1][1] \in StagedPositions
    BY StateFacts DEF StagedPositions
  <2>3. staged # << >> => Len(staged) > 0
    BY StateFacts DEF TypeOK
  <2> QED
    BY <1>2, <2>1, <2>2, <2>3
<1>4. /\ CommitRaises => ~ inv.object /\ Len(staged) > 0
      /\ Return => committed = Len(staged)
  BY StateFacts DEF CommitRaises, Return, TypeOK
<1>5. Return => (inv.object \/ Stagers(inv) = {})
  BY <1>3, <1>4, StateFacts DEF Commits, TypeOK
<1>6. CommitRaises => Stagers(inv) # {}
  BY <1>3, <1>4, StateFacts
<1>7. result' = Dispatch(inv)
  BY <1>2, <1>3, <1>4, <1>5, <1>6, DispatchReleases DEF CommitRaises, Return, Finish
<1>8. TypeOK'
  BY <1>1 DEF TypeOK, Outcomes, CommitRaises, Return, Finish
<1>9. CommittedPositions' = IF Releases THEN Stagers(inv) ELSE {}
  <2>1. CASE CommitRaises
    <3>1. committed = 0
      BY <1>4, <2>1 DEF Commits, TypeOK
    <3> QED
      BY <1>1, <1>4, <2>1, <3>1 DEF CommittedPositions, Releases
  <2>2. CASE Return
    <3>1. CommittedPositions = StagedPositions
      BY <1>4, <2>2, StateFacts DEF CommittedPositions, StagedPositions
    <3> QED
      BY <1>1, <1>2, <1>5, <2>2, <3>1 DEF CommittedPositions, Releases
  <2> QED
    BY <2>1, <2>2
<1>10. Decided'
  BY <1>1, <1>7, <1>9 DEF Decided, Releases
<1>11. Scan' /\ Order' /\ Behind' /\ Commits'
  BY <1>1 DEF Scan, Order, Behind, Commits
<1> QED
  BY <1>8, <1>10, <1>11

LEMMA NextIInv == IInv /\ [Next]_vars => IInv'
<1>1. IInv /\ UNCHANGED vars => IInv'
  <2> SUFFICES ASSUME IInv, UNCHANGED vars PROVE IInv'
    OBVIOUS
  <2> USE DEF vars, IInv
  <2>1. TypeOK' /\ Order' /\ Behind' /\ Commits'
    BY DEF TypeOK, Order, Behind, Commits
  <2>2. Scan' /\ Decided'
    BY DEF Scan, StagedPositions, Decided, CommittedPositions, Releases
  <2> QED
    BY <2>1, <2>2
<1> QED
  BY <1>1, SkipStep, StageStep, WaiveStep, StopStep, RefuseStep, StartCommitsStep,
     CommitStep, EndStep DEF Next

(* The invariant the theorems below rest on. *)
THEOREM InvariantHolds == Spec => []IInv
BY InitIInv, NextIInv, PTL DEF Spec

(* The loop's locals keep their types, whatever policies are attached.        *)
THEOREM TypeCorrect == Spec => []TypeOK
<1>1. IInv => TypeOK
  BY DEF IInv
<1> QED
  BY <1>1, InvariantHolds, PTL

(* PolicyEngine.dispatch never touches a payload that a policy blocks.        *)
THEOREM BlockedPayloadUntouched == Spec => []NoCommitPastAStopper
<1>1. IInv => NoCommitPastAStopper
  BY DEF IInv, Commits, NoCommitPastAStopper
<1> QED
  BY <1>1, InvariantHolds, PTL

(* The order of attachment decides which policy's verdict is returned.        *)
THEOREM FirstStopperVerdict == Spec => []FirstStopperDecides
<1>1. IInv => FirstStopperDecides
  <2> SUFFICES ASSUME IInv, pc = "done", NEW i \in DOMAIN inv.policies,
                      IsFirstStopper(inv, i)
               PROVE  /\ result.outcome = StopOutcome(inv.policies[i], inv.ctx)
                      /\ i \in result.applied
                      /\ \A j \in result.applied : j <= i
    BY DEF FirstStopperDecides
  <2>1. result = [outcome |-> StopOutcome(inv.policies[i], inv.ctx),
                  applied |-> {j \in Applied(inv) : j <= i}, staged |-> {}]
    BY DispatchStops, StateFacts DEF IInv, Decided
  <2>2. i \in Applied(inv) /\ i <= i
    BY StateFacts DEF IInv, IsFirstStopper
  <2> QED
    BY <2>1, <2>2
<1> QED
  BY <1>1, InvariantHolds, PTL

(* Transforms reach the payload in attached and then declared order.          *)
THEOREM CommitOrder == Spec => []CommitsInAttachedOrder
<1>1. IInv => CommitsInAttachedOrder
  <2> SUFFICES ASSUME IInv, NEW k \in 1..committed, NEW l \in 1..committed, k < l
               PROVE  \/ staged[k][1] < staged[l][1]
                      \/ staged[k][1] = staged[l][1] /\ staged[k][2] < staged[l][2]
    BY DEF CommitsInAttachedOrder
  <2>1. committed \in Nat /\ committed <= Len(staged)
    BY StateFacts DEF IInv, TypeOK
  <2>2. k \in DOMAIN staged /\ l \in DOMAIN staged
    BY <2>1, StateFacts DEF IInv
  <2> QED
    BY <2>2 DEF IInv, Order
<1> QED
  BY <1>1, InvariantHolds, PTL

(* The value the loop returns is the function Dispatch of its arguments: the  *)
(* other modules may use Dispatch for a whole call of the engine.             *)
THEOREM LoopComputesDispatch == Spec => [](pc = "done" => result = Dispatch(inv))
<1>1. IInv => (pc = "done" => result = Dispatch(inv))
  BY DEF IInv, Decided
<1> QED
  BY <1>1, InvariantHolds, PTL

-----------------------------------------------------------------------------
(* The contract's operators are those of Hooks. *)
LEMMA ContractOperators ==
    /\ Contract!Dispatch(inv) = Dispatch(inv)
    /\ Contract!Stagers(inv) = Stagers(inv)
    /\ Contract!Released <=> Releases
    /\ Contract!Undecided = NoResult
BY DEF Contract!Dispatch, Contract!Stagers, Contract!Stoppers, Contract!Applied,
       Contract!Released, Contract!Undecided, Contract!Unposted, Contract!FirstStopper,
       Contract!IsFirstStopper, Contract!StopOutcome, Contract!Stops, Contract!Applies,
       Contract!Matches, Contract!Allows, Contract!Refuses, Contract!Waives, Contract!NoRule,
       Dispatch, Stagers, Stoppers, Applied, Releases, NoResult, Unposted, FirstStopper,
       IsFirstStopper, StopOutcome, Stops, Applies, Matches, Allows, Refuses, Waives, NoRule

(* One more commit touches its policy's position or leaves the set alone.     *)
LEMMA CommitTouches ==
    IInv /\ Commit => Contract!Next \/ UNCHANGED <<inv, CommittedPositions, result>>
<1> SUFFICES ASSUME IInv, Commit
             PROVE  Contract!Next \/ UNCHANGED <<inv, CommittedPositions, result>>
  OBVIOUS
<1> USE DEF IInv
<1>1. /\ pc = "commit" /\ committed' = committed + 1 /\ committed < Len(staged)
      /\ inv.object /\ UNCHANGED <<inv, staged, result>> /\ result = NoResult
  BY DEF Commit, Decided
<1>2. Stoppers(inv) = {} /\ ~ Unposted(inv) /\ StagedPositions = Stagers(inv)
  BY <1>1, ScanComplete, StateFacts DEF Commits
<1>3. committed \in Nat /\ committed + 1 \in DOMAIN staged
  BY <1>1, StateFacts DEF TypeOK
<1> DEFINE i == staged[committed + 1][1]
<1>4. i \in Stagers(inv)
  BY <1>2, <1>3 DEF StagedPositions
<1>5. CommittedPositions' = CommittedPositions \cup {i}
  <2>1. 1..(committed + 1) = (1..committed) \cup {committed + 1}
    BY <1>3
  <2>2. CommittedPositions' = {staged[k][1] : k \in 1..(committed + 1)}
    BY <1>1 DEF CommittedPositions
  <2> QED
    BY <2>1, <2>2 DEF CommittedPositions
<1>6. {j \in Stagers(inv) : j < i} \subseteq CommittedPositions
  <2> SUFFICES ASSUME NEW j \in Stagers(inv), j < i PROVE j \in CommittedPositions
    OBVIOUS
  <2>1. PICK k \in DOMAIN staged : staged[k][1] = j
    BY <1>2 DEF StagedPositions
  <2>2. i \in Nat /\ j \in Nat /\ k \in Nat
    BY <1>4, <2>1, StateFacts
  <2>3. ~ (committed + 1 < k) /\ k # committed + 1
    BY <1>3, <2>1, <2>2 DEF Order
  <2>4. k \in 1..committed
    BY <1>3, <2>2, <2>3, StateFacts
  <2> QED
    BY <2>1, <2>4 DEF CommittedPositions
<1>7. Contract!Touch(i)
  BY <1>1, <1>2, <1>4, <1>5, <1>6, ContractOperators DEF Contract!Touch, Releases
<1> QED
  BY <1>4, <1>7, ContractOperators DEF Contract!Next

(* A step that returns settles on the decision, with what it says is staged   *)
(* already committed.                                                        *)
LEMMA ReturnDecides ==
    ASSUME IInv, IInv', pc # "done", pc' = "done", UNCHANGED <<inv, CommittedPositions>>
    PROVE  Contract!Decide
<1>1. result = NoResult /\ result' = Dispatch(inv)
  BY DEF IInv, Decided
<1>2. Dispatch(inv)' = Dispatch(inv)
  OBVIOUS
<1>3. CommittedPositions = IF Releases THEN Stagers(inv) ELSE {}
  BY DEF IInv, Decided, Releases
<1> QED
  BY <1>1, <1>3, ContractOperators DEF Contract!Decide

(***************************************************************************)
(* The loop implements the contract: no execution of PolicyEngine.dispatch  *)
(* shows a caller anything HookContract does not.                           *)
(***************************************************************************)
THEOREM EngineImplementsContract == Spec => ImplementsContract
<1>1. Init => Contract!Init
  BY ContractOperators DEF Init, Contract!Init, CommittedPositions
<1>2. IInv /\ IInv' /\ [Next]_vars => [Contract!Next]_(Contract!vars)
  <2> SUFFICES ASSUME IInv, IInv', [Next]_vars
               PROVE  Contract!Next \/ UNCHANGED <<inv, CommittedPositions, result>>
    BY DEF Contract!vars
  <2>1. CASE Skip \/ Waive \/ StartCommits
    BY <2>1 DEF Skip, Waive, StartCommits, CommittedPositions
  <2>2. CASE Stage
    <3>1. committed = 0 /\ committed' = 0 /\ UNCHANGED <<inv, result>>
      BY <2>2 DEF Stage, AppliesHere, Here, IInv, Commits
    <3>2. CommittedPositions = {} /\ CommittedPositions' = {}
      BY <3>1 DEF CommittedPositions
    <3> QED
      BY <3>1, <3>2
  <2>3. CASE Commit
    BY <2>3, CommitTouches
  <2>4. CASE Block \/ RuleRaises \/ Refuse \/ CommitRaises \/ Return
    <3>1. pc # "done" /\ pc' = "done" /\ UNCHANGED <<inv, staged, committed>>
      BY <2>4 DEF Block, RuleRaises, Refuse, CommitRaises, Return, Finish,
                  AppliesHere, Here, Scanned
    <3>2. UNCHANGED CommittedPositions
      BY <3>1 DEF CommittedPositions
    <3> QED
      BY <3>1, <3>2, ReturnDecides DEF Contract!Next
  <2>5. CASE UNCHANGED vars
    BY <2>5 DEF vars, CommittedPositions
  <2> QED
    BY <2>1, <2>2, <2>3, <2>4, <2>5 DEF Next
<1> QED
  BY <1>1, <1>2, InvariantHolds, PTL DEF Spec, ImplementsContract, Contract!Spec
=============================================================================
