------------------------------- MODULE Hooks -------------------------------
(***************************************************************************)
(* What one hook invocation decides: the function that                     *)
(* PolicyEngine.dispatch computes, stated without its loop.  The module     *)
(* PolicyEngine models the loop and shows that it computes Dispatch.        *)
(*                                                                         *)
(* A policy is a record                                                     *)
(*   [name, on, match, rule, otherwise, transforms, approvers]              *)
(* with match a function from match keys to names, rule an expression of    *)
(* the evaluator or NoRule, and transforms a sequence of kinds.  The        *)
(* policies of an agent are a sequence, in attached order; a decision names *)
(* them by their positions, so a tuple of applied policies in attached      *)
(* order is the set of its positions.                                       *)
(***************************************************************************)
EXTENDS Integers, Sequences

CONSTANT Evaluate(_, _)      \* the CEL evaluator: rule, context -> Truth

NoRule == "none"
NoPolicy == "none"
Truth == {"true", "false", "error"}

HookNames == {"request", "model_call", "tool_call", "tool_result", "response", "loop"}
Verdicts == {"ALLOW", "DENY", "REQUIRE_APPROVAL"}

(***************************************************************************)
(* RAISE stands for an exception of the evaluator, TRANSFORM_ERROR for the  *)
(* TransformError a commit raises on a payload that is not an object.       *)
(***************************************************************************)
Outcomes == {"DENY", "REQUIRE_APPROVAL", "TRANSFORM", "NOT_APPLICABLE",
             "RAISE", "TRANSFORM_ERROR"}
Blocking == {"DENY", "REQUIRE_APPROVAL"}

(***************************************************************************)
(* The match keys are ANDed and exact.  A context value that is not a       *)
(* string (the dictionary that model_call puts under "model") equals no     *)
(* name.  Addresses are bare names here: the code strips the prefix on      *)
(* both sides.                                                              *)
(***************************************************************************)
Matches(match, ctx) ==
    \A key \in DOMAIN match : key \in DOMAIN ctx /\ ctx[key] = match[key]

Applies(p, hook, ctx) == p.on = hook /\ Matches(p.match, ctx)

(* The rule holds (or there is none): the policy's transforms are staged.   *)
Allows(p, ctx) == p.rule = NoRule \/ Evaluate(p.rule, ctx) = "true"

Refuses(p, ctx) == p.rule # NoRule /\ Evaluate(p.rule, ctx) = "false"

(* An unmet rule lets the hook go on: otherwise is ALLOW, or this very      *)
(* policy was approved.                                                     *)
Waives(p, approved) ==
    \/ p.otherwise = "ALLOW"
    \/ p.otherwise = "REQUIRE_APPROVAL" /\ p.name = approved

(* The policy ends the evaluation: its verdict blocks, or its rule raises.  *)
Stops(p, ctx, approved) ==
    ~ Allows(p, ctx) /\ ~ (Refuses(p, ctx) /\ Waives(p, approved))

StopOutcome(p, ctx) == IF Refuses(p, ctx) THEN p.otherwise ELSE "RAISE"

Applied(inv) == {i \in DOMAIN inv.policies : Applies(inv.policies[i], inv.hook, inv.ctx)}

Stoppers(inv) == {i \in Applied(inv) : Stops(inv.policies[i], inv.ctx, inv.approved)}

(* The positions whose transforms are staged when nothing stops the hook.   *)
Stagers(inv) ==
    {i \in Applied(inv) : /\ Allows(inv.policies[i], inv.ctx)
                          /\ inv.policies[i].transforms # << >>}

IsFirstStopper(inv, i) == i \in Stoppers(inv) /\ \A j \in Stoppers(inv) : i <= j

Unposted(inv) == Applied(inv) = {} /\ inv.hook = "tool_call" /\ inv.posture = "deny"

(***************************************************************************)
(* An invocation inv is a record                                            *)
(*   [policies, hook, ctx, approved, posture, object]                       *)
(* where object says that the payload is a JSON object.                     *)
(***************************************************************************)
FirstStopper(inv) == CHOOSE i \in Stoppers(inv) : IsFirstStopper(inv, i)

Dispatch(inv) ==
    IF Stoppers(inv) # {}
    THEN [outcome |-> StopOutcome(inv.policies[FirstStopper(inv)], inv.ctx),
          applied |-> {j \in Applied(inv) : j <= FirstStopper(inv)},
          staged  |-> {}]
    ELSE IF Unposted(inv)
    THEN [outcome |-> "DENY", applied |-> {}, staged |-> {}]
    ELSE [outcome |-> IF Stagers(inv) = {} THEN "NOT_APPLICABLE"
                      ELSE IF inv.object THEN "TRANSFORM" ELSE "TRANSFORM_ERROR",
          applied |-> Applied(inv),
          staged  |-> Stagers(inv)]
=============================================================================
