--------------------------- MODULE MCPolicyEngine ---------------------------
(***************************************************************************)
(* Every list of up to MaxPolicies attached policies drawn from a palette    *)
(* that holds each way a policy can behave at a tool_call or a response,      *)
(* with and without a granted approval, under both postures, on an object    *)
(* and on any other payload.                                                 *)
(***************************************************************************)
EXTENDS PolicyEngine

CONSTANT MaxPolicies

NoMatch == [k \in {} |-> "any"]

Palette ==
    LET policy(name, on, match, rule, otherwise, transforms) ==
            [name |-> name, on |-> on, match |-> match, rule |-> rule,
             otherwise |-> otherwise, transforms |-> transforms, approvers |-> "anyone"]
    IN  {policy("other", "response", NoMatch, "unmet", "DENY", << >>),
         policy("elsewhere", "tool_call", [tool |-> "lookup"], "unmet", "DENY", << >>),
         policy("deny", "tool_call", [tool |-> "refund"], "unmet", "DENY", <<"tokenize">>),
         policy("ask", "tool_call", NoMatch, "unmet", "REQUIRE_APPROVAL", <<"redact">>),
         policy("ask_too", "tool_call", NoMatch, "unmet", "REQUIRE_APPROVAL", << >>),
         policy("allow", "tool_call", NoMatch, "unmet", "ALLOW", <<"redact">>),
         policy("met", "tool_call", NoMatch, "met", "DENY", <<"redact", "tokenize">>),
         policy("always", "tool_call", NoMatch, NoRule, "DENY", <<"tokenize">>),
         policy("plain", "tool_call", NoMatch, "met", "DENY", << >>),
         policy("broken", "tool_call", NoMatch, "undefined variable", "ALLOW", << >>)}

MCEvaluate(rule, ctx) ==
    CASE rule = "met" -> "true" [] rule = "unmet" -> "false" [] OTHER -> "error"

MCInvocations ==
    [policies : UNION {[1..n -> Palette] : n \in 0..MaxPolicies},
     hook     : {"tool_call", "response"},
     ctx      : {[tool |-> "refund"]},
     approved : {NoPolicy, "ask"},
     posture  : {"allow", "deny"},
     object   : BOOLEAN]
=============================================================================
