----------------------------- MODULE Documented -----------------------------
(***************************************************************************)
(* What docs/SPEC.md and the comments say of a run of AgentLoop and the     *)
(* code does not do.  Each property has a run that violates it.             *)
(***************************************************************************)
EXTENDS AgentLoop

(***************************************************************************)
(* "A hook that cannot yet suspend (every hook but model_call in v0.1)      *)
(* fails closed on REQUIRE_APPROVAL": no step gets past a loop hook that    *)
(* asked for approval.  Loop._step looks for DENY only.                     *)
(***************************************************************************)
LoopHookFailsClosed ==
    pc = "reserve" => Decide("loop", LoopContext, NoPolicy, TRUE).outcome \notin Blocking

(***************************************************************************)
(* "Anything that grants privilege (a tool, ...) is written down or         *)
(* unavailable": an agent's run executes the tools of that agent only.  The  *)
(* provider is offered no others, but Loop._step looks the name it answers   *)
(* with up among the tools of the whole project.                             *)
(***************************************************************************)
OnlyListedToolsAreExecuted == pc = "execute" => Call.tool \in config.attached

(***************************************************************************)
(* "Repeat until answer, max_iterations, or budget": a run whose questions  *)
(* an authorized caller always answers with yes gets somewhere.  A granted  *)
(* approval holds for one policy and one step, so two policies that ask     *)
(* hand the run to each other.                                              *)
(***************************************************************************)
YesSpec == FairSpec /\ WF_vars(Granted(TRUE))

AnsweredRunsSettle == <>(state.status \in Terminal \/ pc = "raised" \/ drifted \/ recoveries > 0)
=============================================================================
