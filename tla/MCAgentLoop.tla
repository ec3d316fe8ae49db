---------------------------- MODULE MCAgentLoop ----------------------------
(***************************************************************************)
(* Small projects for one agent with two tools: lookup returns personal     *)
(* data and may be retried once, refund returns none.  Each project attaches *)
(* the policies that make one group of the loop's branches happen.           *)
(***************************************************************************)
EXTENDS AgentLoop

Everywhere == [k \in {} |-> "any"]
For(key, name) == [k \in {key} |-> name]

Policy(name, on, match, rule, otherwise, transforms) ==
    [name |-> name, on |-> on, match |-> match, rule |-> rule, otherwise |-> otherwise,
     transforms |-> transforms, approvers |-> "lead"]

(* The rules the projects use: a rule that reads a variable its hook's       *)
(* context lacks raises.                                                     *)
MCEvaluate(rule, ctx) ==
    LET says(name, holds) == IF name \notin DOMAIN ctx THEN "error"
                             ELSE IF holds THEN "true" ELSE "false"
    IN  CASE rule = "lead"          -> says("principal", ctx.principal = "lead")
          [] rule = "no pii"        -> says("data", "pii" \notin ctx.data)
          [] rule = "first turn"    -> says("iteration", ctx.iteration = 0)
          [] rule = "first attempt" -> says("attempt", ctx.attempt = 0)
          [] rule = "small"         -> says("args", ctx.args = "small")
          [] rule = "clean"         -> says("draft", ctx.draft = "clean")
          [] rule = "object"        -> says("result", ctx.result = "object")
          [] OTHER                  -> "false"

Tools == [lookup |-> [source |-> "crm", operation |-> "get", retries |-> 1, classes |-> {"pii"}],
          refund |-> [source |-> "bank", operation |-> "post", retries |-> 0, classes |-> {}]]

Project(principal, policies) ==
    [policies |-> policies, tools |-> Tools, attached |-> {"lookup", "refund"},
     maxIterations |-> 3, maxCost |-> 5, reserved |-> 2, posture |-> "allow",
     contract |-> TRUE, principal |-> principal, input |-> "text", agent |-> "support",
     model |-> "claude"]

Tokenizing(hook) == Policy("tokenize_" \o hook, hook, Everywhere, NoRule, "DENY", <<"tokenize">>)

(* Personal data needs a lead's approval before it goes to the model; every   *)
(* hook tokenizes.                                                           *)
Guarded(principal) ==
    Project(principal,
            <<Tokenizing("request"), Tokenizing("model_call"), Tokenizing("tool_result"),
              Tokenizing("tool_call"), Tokenizing("response"),
              Policy("pii", "model_call", Everywhere, "no pii", "REQUIRE_APPROVAL", <<"redact">>)>>)

(* Denials at every hook, each for a part of what may happen there.           *)
Strict(request) ==
    Project("clerk",
            <<Policy("who", "request", Everywhere, request, "DENY", << >>),
              Policy("turns", "loop", Everywhere, "first turn", "DENY", << >>),
              Policy("pii", "model_call", Everywhere, "no pii", "DENY", << >>),
              Policy("attempts", "tool_call", For("tool", "lookup"), "first attempt", "DENY", << >>),
              Policy("amount", "tool_call", For("source", "bank"), "small", "REQUIRE_APPROVAL", << >>),
              Policy("shape", "tool_result", For("operation", "post"), "object", "DENY", << >>),
              Policy("leak", "response", Everywhere, "clean", "DENY", << >>)>>)

(* A rule that reads what its hook does not provide, at one hook.             *)
Broken(hook) == Project("clerk", <<Policy("broken", hook, Everywhere,
                                          IF hook = "model_call" THEN "lead" ELSE "no pii",
                                          "ALLOW", << >>)>>)

(* Nothing attached: only the ceilings and the posture hold the run.          *)
Open(posture, maxCost) ==
    [Project("clerk", << >>) EXCEPT !.posture = posture, !.maxCost = maxCost,
                                    !.contract = FALSE]

AskAbout(approvers) ==
    Project("clerk", <<[Policy("ask", "model_call", Everywhere, "never", "REQUIRE_APPROVAL", << >>)
                          EXCEPT !.approvers = approvers]>>)

MCConfigs == {Guarded("lead"), Guarded("clerk"), Strict("lead"), Strict(NoRule),
              Open("deny", 0), Open("allow", 0), Open("allow", 3), Open("allow", 1), AskAbout("no pii")}
             \cup {Broken(hook) : hook \in HookNames}

Completion(calls, valid, draft) == [calls |-> calls, cost |-> 2, valid |-> valid, draft |-> draft]
CallOf(tool, args) == [tool |-> tool, args |-> args]
Final(valid, draft) == Completion(<< >>, valid, draft)

MCCompletions ==
    {Final(TRUE, "clean"), Final(TRUE, "leak"), Final(FALSE, "clean"),
     Completion(<<CallOf("lookup", "small")>>, TRUE, NoValue),
     Completion(<<CallOf("refund", "small"), CallOf("lookup", "small")>>, TRUE, NoValue),
     Completion(<<CallOf("refund", "large")>>, TRUE, NoValue),
     Completion(<<CallOf("lookup", "small"), CallOf("other", "small")>>, TRUE, NoValue)}

MCToolValues == {"object", "list"}
MCIsObject(v) == v = "object"
=============================================================================
