---------------------------- MODULE MCTokenVault ----------------------------
(***************************************************************************)
(* Two runs, one datum of the users and one of the sources, and             *)
(* combinations of transforms that hide either of them, or none.            *)
(***************************************************************************)
EXTENDS TokenVault

Kind(request, model, call, result, response) ==
    [request |-> request, model_call |-> model, tool_call |-> call,
     tool_result |-> result, response |-> response]

MCRuns == {"first", "second"}

Project(kinds, first, second) ==
    [kinds : kinds, detokenize : BOOLEAN, room : {[first |-> first, second |-> second]}]

Hiding == {Kind("tokenize", "none", "none", "tokenize", "none"),
           Kind("none", "tokenize", "none", "tokenize", "tokenize"),
           Kind("tokenize", "tokenize", "tokenize", "redact", "redact")}

(* A run with one tool call beside one without; a run with two tool calls.    *)
MCConfigs == Project(Hiding, 3, 1)
             \cup Project({Kind("tokenize", "none", "none", "tokenize", "none"),
                           Kind("none", "none", "none", "none", "none")}, 5, 0)
=============================================================================
