---------------------------- MODULE MCAuditTrail ----------------------------
(***************************************************************************)
(* The trail of runs whose policies ask for approval at the model call,     *)
(* transform with more than one transform, or deny.  The file grows with     *)
(* every call, so the projects are few and their runs two turns long.        *)
(***************************************************************************)
EXTENDS AuditTrail, MCAgentLoop

Short(project) == [project EXCEPT !.maxIterations = 2]

(* Two policies ask, one after the other is answered, and one transforms.     *)
Asking(principal) ==
    Short(Project(principal,
                  <<Policy("mask", "model_call", Everywhere, NoRule, "DENY",
                           <<"redact", "tokenize">>),
                    Policy("pii", "model_call", Everywhere, "no pii", "REQUIRE_APPROVAL",
                           <<"redact">>),
                    Policy("turns", "loop", Everywhere, "first turn", "REQUIRE_APPROVAL",
                           <<"tokenize">>),
                    Policy("result", "tool_result", Everywhere, NoRule, "DENY", <<"redact">>)>>))

(* Two policies ask whatever happens: each answer brings the other's question. *)
AskedTwice ==
    Short(Project("lead",
                  <<Policy("ask", "model_call", Everywhere, "never", "REQUIRE_APPROVAL", << >>),
                    Policy("ask_too", "model_call", Everywhere, "never", "REQUIRE_APPROVAL", << >>)>>))

(* An attempt that is decided on, with tokens for its arguments, and retried.  *)
Retried ==
    Short(Project("clerk",
                  <<Policy("args", "tool_call", For("tool", "lookup"), "small", "DENY",
                           <<"redact", "tokenize">>),
                    Policy("all_args", "tool_call", Everywhere, NoRule, "DENY", << >>)>>))

MCTrailConfigs == {Asking("lead"), Asking("clerk"), Short(Strict(NoRule)),
                   AskedTwice, Retried,
                   Broken("model_call")}

MCTrailCompletions ==
    {Final(TRUE, "clean"), Final(TRUE, "leak"),
     Completion(<<CallOf("lookup", "small")>>, TRUE, NoValue),
     Completion(<<CallOf("refund", "large")>>, TRUE, NoValue)}
=============================================================================
