---------------------------- MODULE PolicyEngine ----------------------------
(***************************************************************************)
(* PolicyEngine.dispatch as the loop it is: one step per attached policy,   *)
(* then the posture check, then one step per staged transform.  The caller  *)
(* sees the payload after every commit (a commit mints tokens in the shared *)
(* vault), so the steps are observable and their order matters.             *)
(***************************************************************************)
EXTENDS Hooks

CONSTANT Invocations         \* the calls of dispatch a behaviour may start with

ASSUME InvocationsAssumption ==
    \A c \in Invocations :
        /\ c.policies \in Seq({c.policies[i] : i \in DOMAIN c.policies})
        /\ c.hook \in HookNames
        /\ c.object \in BOOLEAN
        /\ \A i \in DOMAIN c.policies :
              /\ c.policies[i].otherwise \in Verdicts
              /\ c.policies[i].transforms \in Seq({"redact", "tokenize"})

VARIABLES
    inv,         \* the arguments of the call, fixed
    pc,          \* "scan", "commit" or "done"
    index,       \* position of the policy the loop looks at
    applied,     \* positions appended to the list applied
    staged,      \* the commits staged so far: <<position, part>>
    committed,   \* how many of them the payload has been through
    result       \* NoResult, then the decision returned or raised

vars == <<inv, pc, index, applied, staged, committed, result>>

NoResult == [outcome |-> "UNDECIDED", applied |-> {}, staged |-> {}]

Policy == inv.policies[index]
Here == pc = "scan" /\ index <= Len(inv.policies)
AppliesHere == Here /\ Applies(Policy, inv.hook, inv.ctx)

Init == /\ inv \in Invocations
        /\ pc = "scan"
        /\ index = 1
        /\ applied = {}
        /\ staged = << >>
        /\ committed = 0
        /\ result = NoResult

Finish(outcome, positions, touched) ==
    /\ pc' = "done"
    /\ result' = [outcome |-> outcome, applied |-> positions, staged |-> touched]

(* Mutant: the policy behind one that does not apply is passed over. *)
SkipTwo == /\ Here
           /\ ~ AppliesHere
           /\ index' = index + 2
           /\ UNCHANGED <<inv, pc, applied, staged, committed, result>>

(* The policy is for another hook or its match does not fire. *)
Skip == /\ Here
        /\ ~ AppliesHere
        /\ index' = index + 1
        /\ UNCHANGED <<inv, pc, applied, staged, committed, result>>

(* Mutants: transforms are applied as they are staged; later ones come first. *)
StageEagerly == /\ AppliesHere
                /\ Allows(Policy, inv.ctx)
                /\ applied' = applied \cup {index}
                /\ staged' = staged \o [k \in 1..Len(Policy.transforms) |-> <<index, k>>]
                /\ committed' = Len(staged')
                /\ index' = index + 1
                /\ UNCHANGED <<inv, pc, result>>
StageInFront == /\ AppliesHere
                /\ Allows(Policy, inv.ctx)
                /\ applied' = applied \cup {index}
                /\ staged' = [k \in 1..Len(Policy.transforms) |-> <<index, k>>] \o staged
                /\ index' = index + 1
                /\ UNCHANGED <<inv, pc, committed, result>>

(* The rule is met or absent: every transform of the policy is staged. *)
Stage == /\ AppliesHere
         /\ Allows(Policy, inv.ctx)
         /\ applied' = applied \cup {index}
         /\ staged' = staged \o [k \in 1..Len(Policy.transforms) |-> <<index, k>>]
         /\ index' = index + 1
         /\ UNCHANGED <<inv, pc, committed, result>>

(* Mutant: an approval granted to one policy passes every policy that asks. *)
WaiveAnyQuestion == /\ AppliesHere
                    /\ Refuses(Policy, inv.ctx)
                    /\ \/ Policy.otherwise = "ALLOW"
                       \/ Policy.otherwise = "REQUIRE_APPROVAL" /\ inv.approved # NoPolicy
                    /\ applied' = applied \cup {index}
                    /\ index' = index + 1
                    /\ UNCHANGED <<inv, pc, staged, committed, result>>

(* The rule is unmet and otherwise lets the hook go on; nothing is staged. *)
Waive == /\ AppliesHere
         /\ Refuses(Policy, inv.ctx)
         /\ Waives(Policy, inv.approved)
         /\ applied' = applied \cup {index}
         /\ index' = index + 1
         /\ UNCHANGED <<inv, pc, staged, committed, result>>

(* The rule is unmet and its verdict ends the evaluation. *)
Block == /\ AppliesHere
         /\ Refuses(Policy, inv.ctx)
         /\ ~ Waives(Policy, inv.approved)
         /\ applied' = applied \cup {index}
         /\ Finish(Policy.otherwise, applied', {})
         /\ UNCHANGED <<inv, index, staged, committed>>

(* The evaluator raises and dispatch does not catch it. *)
RuleRaises == /\ AppliesHere
              /\ ~ Allows(Policy, inv.ctx)
              /\ ~ Refuses(Policy, inv.ctx)
              /\ applied' = applied \cup {index}
              /\ Finish("RAISE", applied', {})
              /\ UNCHANGED <<inv, index, staged, committed>>

Scanned == pc = "scan" /\ index > Len(inv.policies)

(* Mutant: the posture refuses at every hook. *)
PostureRefusesAnyHook == applied = {} /\ inv.posture = "deny"

PostureRefuses == applied = {} /\ inv.hook = "tool_call" /\ inv.posture = "deny"

Refuse == /\ Scanned
          /\ PostureRefuses
          /\ Finish("DENY", {}, {})
          /\ UNCHANGED <<inv, index, applied, staged, committed>>

StartCommits == /\ Scanned
                /\ ~ PostureRefuses
                /\ pc' = "commit"
                /\ UNCHANGED <<inv, index, applied, staged, committed, result>>

StagedPositions == {staged[k][1] : k \in DOMAIN staged}
CommittedPositions == {staged[k][1] : k \in 1..committed}

(* payload = commit(payload) for the next staged transform. *)
Commit == /\ pc = "commit"
          /\ committed < Len(staged)
          /\ inv.object
          /\ committed' = committed + 1
          /\ UNCHANGED <<inv, pc, index, applied, staged, result>>

(* A payload that is not an object raises TransformError. *)
CommitRaises == /\ pc = "commit"
                /\ committed < Len(staged)
                /\ ~ inv.object
                /\ Finish("TRANSFORM_ERROR", applied, StagedPositions)
                /\ UNCHANGED <<inv, index, applied, staged, committed>>

Return == /\ pc = "commit"
          /\ committed = Len(staged)
          /\ Finish(IF staged = << >> THEN "NOT_APPLICABLE" ELSE "TRANSFORM",
                    applied, StagedPositions)
          /\ UNCHANGED <<inv, index, applied, staged, committed>>

Next == \/ Skip \/ Stage \/ Waive \/ Block \/ RuleRaises
        \/ Refuse \/ StartCommits
        \/ Commit \/ CommitRaises \/ Return

Spec == Init /\ [][Next]_vars

-----------------------------------------------------------------------------
(* The loop's variables stay in their ranges. *)
TypeOK ==
    /\ inv \in Invocations
    /\ pc \in {"scan", "commit", "done"}
    /\ index \in 1 .. Len(inv.policies) + 1
    /\ applied \subseteq DOMAIN inv.policies
    /\ staged \in Seq((DOMAIN inv.policies) \X (Nat \ {0}))
    /\ committed \in 0 .. Len(staged)
    /\ result.outcome \in Outcomes \cup {"UNDECIDED"}

(***************************************************************************)
(* A denied, suspended or failed invocation leaves the payload as it came,  *)
(* at every moment and not only at its end: no commit has run while any     *)
(* attached policy, also one the loop has yet to reach, stops the hook.     *)
(* ("a denied hook mints no tokens")                                        *)
(***************************************************************************)
NoCommitPastAStopper == committed > 0 => Stoppers(inv) = {} /\ inv.object

(***************************************************************************)
(* The policy that decides is the first in attached order that can: the     *)
(* last applied policy carries the returned verdict and everything before   *)
(* it let the hook go on.                                                   *)
(***************************************************************************)
FirstStopperDecides ==
    pc = "done" =>
        \A i \in DOMAIN inv.policies :
            IsFirstStopper(inv, i) =>
                /\ result.outcome = StopOutcome(inv.policies[i], inv.ctx)
                /\ i \in result.applied
                /\ \A j \in result.applied : j <= i

(***************************************************************************)
(* Transforms reach the payload in attached order, and within a policy in   *)
(* declared order.                                                          *)
(***************************************************************************)
CommitsInAttachedOrder ==
    \A k, l \in 1 .. committed :
        k < l => \/ staged[k][1] < staged[l][1]
                 \/ staged[k][1] = staged[l][1] /\ staged[k][2] < staged[l][2]

(***************************************************************************)
(* The loop implements the contract: what has been committed is what the    *)
(* contract has touched, the value returned is its decision.                *)
(***************************************************************************)
Contract == INSTANCE HookContract
                WITH touched <- CommittedPositions, decision <- result
ImplementsContract == Contract!Spec
=============================================================================
