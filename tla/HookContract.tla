---------------------------- MODULE HookContract ----------------------------
(***************************************************************************)
(* What a hook invocation promises (docs/SPEC.md, "Evaluation order and    *)
(* transform commit"): the payload is touched only when no policy stops the *)
(* hook, in attached order, and the invocation settles on the decision of   *)
(* Hooks!Dispatch with exactly its transforms applied.                      *)
(***************************************************************************)
EXTENDS Hooks

CONSTANT Invocations         \* the invocations a behaviour may start with

Undecided == [outcome |-> "UNDECIDED", applied |-> {}, staged |-> {}]

VARIABLES
    inv,        \* the invocation, fixed
    touched,    \* positions of the policies whose transforms touched the payload
    decision    \* Undecided, then the decision

vars == <<inv, touched, decision>>

Init == /\ inv \in Invocations
        /\ touched = {}
        /\ decision = Undecided

Released == Stoppers(inv) = {} /\ ~ Unposted(inv) /\ inv.object

Touch(i) == /\ decision = Undecided
            /\ Released
            /\ i \in Stagers(inv)
            /\ {j \in Stagers(inv) : j < i} \subseteq touched
            /\ touched' = touched \cup {i}
            /\ UNCHANGED <<inv, decision>>

Decide == /\ decision = Undecided
          /\ touched = IF Released THEN Stagers(inv) ELSE {}
          /\ decision' = Dispatch(inv)
          /\ UNCHANGED <<inv, touched>>

Next == Decide \/ \E i \in Stagers(inv) : Touch(i)

Spec == Init /\ [][Next]_vars
=============================================================================
