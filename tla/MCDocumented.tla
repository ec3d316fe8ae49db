---------------------------- MODULE MCDocumented ----------------------------
(***************************************************************************)
(* One project for each promise: the smallest that shows the disagreement.  *)
(***************************************************************************)
EXTENDS Documented, MCAgentLoop

MCAskingLoop ==
    {Project("clerk", <<Policy("turns", "loop", Everywhere, "lead", "REQUIRE_APPROVAL", << >>)>>)}

MCOneTool == {[Open("allow", 0) EXCEPT !.attached = {"lookup"}]}

MCTwoQuestions ==
    {Project("lead", <<Policy("ask", "model_call", Everywhere, "never", "REQUIRE_APPROVAL", << >>),
                       Policy("ask_too", "model_call", Everywhere, "never", "REQUIRE_APPROVAL",
                              << >>)>>)}
=============================================================================
