---------------------------- MODULE Hooks_proofs ----------------------------
(***************************************************************************)
(* What Hooks!Dispatch decides, in the forms that the proofs about the      *)
(* dispatch loop and about the agent loop use.                              *)
(***************************************************************************)
EXTENDS Hooks, Positions, FiniteSetTheorems, TLAPS

-----------------------------------------------------------------------------
(***************************************************************************)
(* The three ways Dispatch decides, without its conditional and its CHOOSE.  *)
(***************************************************************************)

(* Of the stopping policies the first in attached order decides. *)
LEMMA DispatchStops ==
    ASSUME NEW c, DOMAIN c.policies \subseteq Int, NEW i, IsFirstStopper(c, i)
    PROVE  Dispatch(c) = [outcome |-> StopOutcome(c.policies[i], c.ctx),
                          applied |-> {j \in Applied(c) : j <= i},
                          staged  |-> {}]
<1>1. Stoppers(c) \subseteq Int
  BY DEF Stoppers, Applied
<1>2. IsFirstStopper(c, FirstStopper(c)) /\ FirstStopper(c) \in Stoppers(c)
  BY DEF IsFirstStopper, FirstStopper
<1>3. FirstStopper(c) <= i /\ i <= FirstStopper(c) /\ FirstStopper(c) \in Int /\ i \in Int
  BY <1>1, <1>2 DEF IsFirstStopper
<1>4. FirstStopper(c) = i
  BY <1>3
<1>5. Stoppers(c) # {}
  BY <1>2
<1> QED
  BY <1>4, <1>5 DEF Dispatch

(* With no policy applied, the deny posture refuses a tool call. *)
LEMMA DispatchRefuses ==
    ASSUME NEW c, Stoppers(c) = {}, Unposted(c)
    PROVE  Dispatch(c) = [outcome |-> "DENY", applied |-> {}, staged |-> {}]
BY DEF Dispatch

(* Otherwise everything that applies is reported and what is staged commits. *)
LEMMA DispatchReleases ==
    ASSUME NEW c, Stoppers(c) = {}, ~ Unposted(c)
    PROVE  Dispatch(c) = [outcome |-> IF Stagers(c) = {} THEN "NOT_APPLICABLE"
                                      ELSE IF c.object THEN "TRANSFORM"
                                      ELSE "TRANSFORM_ERROR",
                          applied |-> Applied(c),
                          staged  |-> Stagers(c)]
BY DEF Dispatch

(* Some policy stops the hook, so one of them is first, and the outcome is   *)
(* its verdict, which is not ALLOW, or an exception.                         *)
LEMMA StopperDecides ==
    ASSUME NEW c, DOMAIN c.policies \subseteq Nat,
           \A j \in DOMAIN c.policies : c.policies[j].otherwise \in Verdicts,
           Stoppers(c) # {}
    PROVE  \E i \in Stoppers(c) :
               /\ IsFirstStopper(c, i)
               /\ Dispatch(c) = [outcome |-> StopOutcome(c.policies[i], c.ctx),
                                 applied |-> {j \in Applied(c) : j <= i},
                                 staged  |-> {}]
               /\ StopOutcome(c.policies[i], c.ctx) \in Blocking \cup {"RAISE"}
<1>1. Stoppers(c) \subseteq Nat
  BY DEF Stoppers, Applied
<1>2. PICK i \in Stoppers(c) : IsFirstStopper(c, i)
  BY <1>1, LeastElement DEF IsFirstStopper
<1>3. i \in DOMAIN c.policies /\ Stops(c.policies[i], c.ctx, c.approved)
  BY DEF Stoppers, Applied
<1>4. StopOutcome(c.policies[i], c.ctx) \in Blocking \cup {"RAISE"}
  BY <1>3 DEF StopOutcome, Stops, Waives, Verdicts, Blocking
<1>5. DOMAIN c.policies \subseteq Int
  OBVIOUS
<1> QED
  BY <1>2, <1>4, <1>5, DispatchStops

(* What a hook that lets the call go on has established. *)
LEMMA DispatchPasses ==
    ASSUME NEW c, DOMAIN c.policies \subseteq Nat,
           \A j \in DOMAIN c.policies : c.policies[j].otherwise \in Verdicts,
           Dispatch(c).outcome \notin Blocking \cup {"RAISE"}
    PROVE  /\ Stoppers(c) = {} /\ ~ Unposted(c)
           /\ Dispatch(c).applied = Applied(c)
           /\ c.object = TRUE => Dispatch(c).outcome \in {"TRANSFORM", "NOT_APPLICABLE"}
<1>1. Stoppers(c) = {}
  BY StopperDecides
<1>2. ~ Unposted(c)
  BY <1>1, DispatchRefuses DEF Blocking
<1> QED
  BY <1>1, <1>2, DispatchReleases

(* A hook asks because of the first policy that stops it: the last that is   *)
(* reported, which is not the one approved.                                  *)
LEMMA DispatchAsks ==
    ASSUME NEW c, DOMAIN c.policies \subseteq Nat,
           \A j \in DOMAIN c.policies : c.policies[j].otherwise \in Verdicts,
           Dispatch(c).outcome = "REQUIRE_APPROVAL"
    PROVE  \E i \in Stoppers(c) :
               /\ Dispatch(c).applied = {j \in Applied(c) : j <= i}
               /\ c.policies[i].name # c.approved
               /\ c.policies[i].otherwise = "REQUIRE_APPROVAL"
<1>1. Stoppers(c) # {}
  <2>1. CASE Stoppers(c) = {} /\ Unposted(c)
    BY <2>1, DispatchRefuses
  <2>2. CASE Stoppers(c) = {} /\ ~ Unposted(c)
    BY <2>2, DispatchReleases
  <2> QED
    BY <2>1, <2>2
<1>2. PICK i \in Stoppers(c) :
         /\ Dispatch(c).outcome = StopOutcome(c.policies[i], c.ctx)
         /\ Dispatch(c).applied = {j \in Applied(c) : j <= i}
  BY <1>1, StopperDecides
<1>3. Refuses(c.policies[i], c.ctx) /\ c.policies[i].otherwise = "REQUIRE_APPROVAL"
  BY <1>2 DEF StopOutcome
<1>4. Stops(c.policies[i], c.ctx, c.approved)
  BY DEF Stoppers
<1>5. c.policies[i].name # c.approved
  BY <1>3, <1>4 DEF Stops, Waives
<1> QED
  BY <1>2, <1>3, <1>5
=============================================================================
