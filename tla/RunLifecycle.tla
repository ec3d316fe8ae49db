---------------------------- MODULE RunLifecycle ----------------------------
(***************************************************************************)
(* What a caller of Loop may rely on, whatever happens inside a step        *)
(* (docs/SPEC.md, "Runtime"): a RunState that settles stays as it is, a     *)
(* step makes at most one model turn, no run makes more than its ceiling,   *)
(* and an approval that was granted is not asked for again by the step that *)
(* it resumed.                                                              *)
(***************************************************************************)
EXTENDS Integers

CONSTANT NoOne               \* no policy waits for an answer

VARIABLES
    limit,      \* max_iterations, fixed
    status,     \* status of the RunState
    turns,      \* completions in its transcript
    waiting     \* the policy that suspended it, or NoOne

vars == <<limit, status, turns, waiting>>

Live == {"running", "suspended"}

Init == /\ limit \in Nat \ {0}
        /\ status = "unstarted"
        /\ turns = 0
        /\ waiting = NoOne

Begin == /\ status = "unstarted"
         /\ status' \in {"running", "denied"}
         /\ UNCHANGED <<limit, turns, waiting>>

Turn == /\ status \in Live
        /\ turns < limit
        /\ status' \in {"running", "completed"}
        /\ turns' = turns + 1
        /\ waiting' = NoOne
        /\ UNCHANGED limit

Suspend == /\ status \in Live
           /\ status' = "suspended"
           /\ waiting' \notin {waiting, NoOne}
           /\ UNCHANGED <<limit, turns>>

Deny == /\ status \in Live
        /\ status' = "denied"
        /\ turns' \in {turns, turns + 1} /\ turns' <= limit
        /\ waiting' = NoOne
        /\ UNCHANGED limit

(* A run that fails while it waits for an answer keeps the question. *)
Fail == /\ status \in Live
        /\ status' = "failed"
        /\ turns' \in {turns, turns + 1} /\ turns' <= limit
        /\ waiting' \in {waiting, NoOne}
        /\ UNCHANGED limit

Next == Begin \/ Turn \/ Suspend \/ Deny \/ Fail

Spec == Init /\ [][Next]_vars
=============================================================================
