-------------------------- MODULE AgentLoop_proofs --------------------------
(***************************************************************************)
(* The gates, the budget and the life cycle of a run, for every set of      *)
(* projects, completions and tool values, every evaluator, and any number   *)
(* of exceptions, restarts and edits of the closure.                        *)
(***************************************************************************)
EXTENDS AgentLoop, Hooks_proofs

(***************************************************************************)
(* The RunStates a call may hand out, whichever way it ends.                *)
(***************************************************************************)
Coherent(s) == /\ s.status = "suspended" => s.pending # NoPending
               /\ s.status = "unstarted" => s = Unstarted

Budgeted(s) ==
    /\ s.iteration <= config.maxIterations
    /\ s.cost > 0 /\ config.maxCost # 0 =>
          \E c \in Completions : s.cost <= config.maxCost - config.reserved + c.cost

Classified(s) == \A t \in s.tools : config.tools[t].classes \subseteq s.classes

Sound(s) == s \in RunStates /\ Coherent(s) /\ Budgeted(s) /\ Classified(s)

(* What w may add to the RunState s that the call was given. *)
Extends(s, w) == /\ s.classes \subseteq w.classes
                 /\ s.tools \subseteq w.tools
                 /\ s.iteration <= w.iteration
                 /\ s.cost <= w.cost

(* The same, as RunLifecycle tells its steps apart. *)
Leads(s, w) ==
    \/ /\ w.status = s.status /\ w.iteration = s.iteration
       /\ w.pending.policy = s.pending.policy
    \/ /\ s.status = "unstarted" /\ w.status \in {"running", "denied"}
       /\ w.iteration = s.iteration /\ w.pending.policy = s.pending.policy
    \/ /\ s.status \in Live /\ w.status \in {"running", "completed"}
       /\ s.iteration < config.maxIterations /\ w.iteration = s.iteration + 1
       /\ w.pending.policy = NoPolicy
    \/ /\ s.status \in Live /\ w.status = "suspended"
       /\ w.iteration = s.iteration
       /\ w.pending.policy \notin {s.pending.policy, NoPolicy}
    \/ /\ s.status \in Live /\ w.status \in {"denied", "failed"}
       /\ \/ w.iteration = s.iteration
          \/ w.iteration = s.iteration + 1 /\ w.iteration <= config.maxIterations
       /\ \/ w.pending.policy = NoPolicy
          \/ w.status = "failed" /\ w.pending.policy = s.pending.policy

-----------------------------------------------------------------------------
BeforeCall == {"ceilings", "reserve", "complete"}
ToolPlaces == {"tool_call", "execute", "tool_result"}
InCall == BeforeCall \cup {"response"} \cup ToolPlaces

(* Where the caller's RunState is when the code is at pc. *)
Phase == /\ pc = "new" => state.status = "unstarted"
         /\ pc \in InCall => state.status \in Live

(* What the running call has done to its RunState so far. *)
Carried ==
    pc \in InCall =>
        /\ work.status = "running" /\ work.pending = NoPending
        /\ Extends(state, work)
        /\ pc \in BeforeCall =>
              /\ work.iteration = state.iteration
              /\ approved = consent
              /\ state.pending = NoPending \/ approved = state.pending.policy
        /\ pc \in {"reserve", "complete"} => ~ OverIterations /\ ~ OverCost
        /\ pc \notin BeforeCall =>
              /\ work.iteration = state.iteration + 1
              /\ work.iteration <= config.maxIterations

(* What a call that is about to return hands out. *)
Returning == pc = "returning" => Extends(state, work) /\ Leads(state, work)

(* The tool calls of the completion that are left. *)
Tooling ==
    /\ pc \in ToolPlaces => todo # << >>
    /\ pc \in {"execute", "tool_result"} => Known
    /\ pc \in ToolPlaces /\ Known => attempt <= Tool.retries
    /\ pc \notin ToolPlaces => attempt = 0 /\ results = {}
    /\ \A t \in results : config.tools[t].classes \subseteq work.classes

IInv == /\ TypeOK
        /\ Sound(state) /\ Sound(work)
        /\ Phase /\ Carried /\ Returning /\ Tooling
        /\ SettledIsPurged /\ CallIsCleared /\ ExecutionIsCleared

-----------------------------------------------------------------------------
(* A project of the model is well-formed. *)
LEMMA ConfigFacts ==
    ASSUME config \in Configs
    PROVE  /\ DOMAIN config.policies \subseteq Nat
           /\ \A i \in DOMAIN config.policies :
                 /\ config.policies[i].otherwise \in Verdicts
                 /\ config.policies[i].name # NoPolicy
           /\ config.maxIterations \in Nat /\ config.maxIterations > 0
           /\ config.maxCost \in Nat /\ config.reserved \in Nat
           /\ \A t \in DOMAIN config.tools : config.tools[t].retries \in Nat
<1>1. config.policies \in Seq({config.policies[i] : i \in DOMAIN config.policies})
  BY ConfigsAssumption
<1>2. DOMAIN config.policies = 1..Len(config.policies) /\ Len(config.policies) \in Nat
  BY <1>1
<1>3. DOMAIN config.policies \subseteq Nat
  BY <1>2
<1>4. \A i \in DOMAIN config.policies :
         config.policies[i].otherwise \in Verdicts /\ config.policies[i].name # NoPolicy
  BY ConfigsAssumption
<1>5. /\ config.maxIterations \in Nat \ {0}
      /\ config.maxCost \in Nat /\ config.reserved \in Nat
      /\ \A t \in DOMAIN config.tools : config.tools[t].retries \in Nat
  BY ConfigsAssumption
<1>6. config.maxIterations \in Nat /\ config.maxIterations > 0
  BY <1>5
<1> QED
  BY <1>3, <1>4, <1>5, <1>6

LEMMA NonEmpty == ASSUME NEW S, NEW q \in Seq(S), Len(q) > 0 PROVE q # << >>
OBVIOUS

(* The tokens a hook mints are of the two origins. *)
LEMMA MintedOrigins ==
    ASSUME NEW hook, NEW decision, NEW minted \in Mintable(hook, decision)
    PROVE  minted \subseteq Origins
<1>1. HookOrigins(hook) \subseteq Origins
  BY DEF HookOrigins, Origins
<1> QED
  BY <1>1 DEF Mintable

(* A hook that lets the step go on is satisfied with every policy that applies. *)
LEMMA HookPasses ==
    ASSUME config \in Configs, NEW hook, NEW ctx, NEW granted, NEW object,
           Decide(hook, ctx, granted, object).outcome \notin Blocking \cup {"RAISE"}
    PROVE  /\ \A i \in DOMAIN config.policies :
                 Applies(config.policies[i], hook, ctx) =>
                     ~ Stops(config.policies[i], ctx, granted)
           /\ object = TRUE => Decide(hook, ctx, granted, object).outcome
                                  \in {"TRANSFORM", "NOT_APPLICABLE"}
<1> DEFINE c == [policies |-> config.policies, hook |-> hook, ctx |-> ctx,
                 approved |-> granted, posture |-> config.posture, object |-> object]
<1>1. /\ c.policies = config.policies /\ c.hook = hook /\ c.ctx = ctx
      /\ c.approved = granted /\ c.object = object
  OBVIOUS
<1>2. Decide(hook, ctx, granted, object) = Dispatch(c)
  BY DEF Decide
<1> HIDE DEF c
<1>3. /\ Stoppers(c) = {}
      /\ c.object = TRUE => Dispatch(c).outcome \in {"TRANSFORM", "NOT_APPLICABLE"}
  BY <1>1, <1>2, ConfigFacts, DispatchPasses
<1> QED
  BY <1>1, <1>2, <1>3 DEF Stoppers, Applied

(* A hook asks in the name of an attached policy that was not approved. *)
LEMMA HookAsks ==
    ASSUME config \in Configs, NEW hook, NEW ctx, NEW granted, NEW object,
           Decide(hook, ctx, granted, object).outcome = "REQUIRE_APPROVAL"
    PROVE  LET i == Decider(Decide(hook, ctx, granted, object))
           IN  i \in DOMAIN config.policies /\ config.policies[i].name # granted
<1> DEFINE c == [policies |-> config.policies, hook |-> hook, ctx |-> ctx,
                 approved |-> granted, posture |-> config.posture, object |-> object]
<1>1. c.policies = config.policies /\ c.approved = granted
  OBVIOUS
<1>2. Decide(hook, ctx, granted, object) = Dispatch(c)
  BY DEF Decide
<1> HIDE DEF c
<1>3. PICK i \in Stoppers(c) : /\ Dispatch(c).applied = {j \in Applied(c) : j <= i}
                               /\ c.policies[i].name # c.approved
  BY <1>1, <1>2, ConfigFacts, DispatchAsks
<1>4. i \in Applied(c) /\ Applied(c) \subseteq Nat
  BY <1>1, ConfigFacts DEF Stoppers, Applied
<1> DEFINE k == Decider(Dispatch(c))
<1>5. k \in Dispatch(c).applied /\ \A j \in Dispatch(c).applied : j <= k
  BY <1>3, <1>4 DEF Decider
<1>6. k = i
  BY <1>3, <1>4, <1>5
<1>7. i \in DOMAIN config.policies
  BY <1>1, <1>4 DEF Applied
<1> QED
  BY <1>1, <1>2, <1>3, <1>6, <1>7

-----------------------------------------------------------------------------
(* A RunState that another is made from keeps its other fields. *)
LEMMA RunStateFields ==
    ASSUME NEW s \in RunStates
    PROVE  /\ s.status \in Live \cup Terminal \cup {"unstarted"}
           /\ s.pending \in Pendings \cup {NoPending}
           /\ s.iteration \in Nat /\ s.cost \in Nat
           /\ s.tools \subseteq DOMAIN config.tools
           /\ s.classes \subseteq UNION {config.tools[t].classes : t \in DOMAIN config.tools}
           /\ s.auditSeq \in {0, 1}
BY DEF RunStates

LEMMA StatusChange ==
    ASSUME NEW s \in RunStates, NEW status \in Live \cup Terminal \cup {"unstarted"}
    PROVE  /\ [s EXCEPT !.status = status] \in RunStates
           /\ [s EXCEPT !.status = status].status = status
           /\ [s EXCEPT !.status = status].pending = s.pending
           /\ [s EXCEPT !.status = status].iteration = s.iteration
           /\ [s EXCEPT !.status = status].cost = s.cost
           /\ [s EXCEPT !.status = status].classes = s.classes
           /\ [s EXCEPT !.status = status].tools = s.tools
BY DEF RunStates

LEMMA PendingPolicy ==
    ASSUME config \in Configs, NEW q \in Pendings
    PROVE  /\ q # NoPending /\ q.policy \in PolicyNames /\ q.policy # NoPolicy
<1>1. PICK i \in DOMAIN config.policies :
         q = [policy |-> config.policies[i].name, approvers |-> config.policies[i].approvers]
  BY DEF Pendings
<1>2. q.policy = config.policies[i].name /\ NoPending.policy = NoPolicy
  BY <1>1 DEF NoPending
<1> QED
  BY <1>2, ConfigFacts DEF PolicyNames

(* The sets of a project do not change with the state. *)
LEMMA FixedProject ==
    ASSUME config' = config
    PROVE  /\ RunStates' = RunStates /\ PolicyNames' = PolicyNames
           /\ \A s : Sound(s)' <=> Sound(s)
           /\ \A s, w : Leads(s, w)' <=> Leads(s, w)
<1>1. RunStates' = RunStates /\ PolicyNames' = PolicyNames
  BY DEF RunStates, PolicyNames, Pendings
<1>2. ASSUME NEW s PROVE Sound(s)' <=> Sound(s)
  BY <1>1 DEF Sound, Coherent, Budgeted, Classified
<1>3. ASSUME NEW s, NEW w PROVE Leads(s, w)' <=> Leads(s, w)
  BY DEF Leads
<1> QED
  BY <1>1, <1>2, <1>3

(* The invariant holds of a run that was not started. *)
LEMMA InitIInv == Init => IInv
<1> SUFFICES ASSUME Init PROVE IInv
  OBVIOUS
<1>1. Unstarted \in RunStates
  BY DEF Unstarted, RunStates
<1>2. /\ Unstarted.status = "unstarted" /\ Unstarted.cost = 0 /\ Unstarted.tools = {}
      /\ Unstarted.iteration = 0
  BY DEF Unstarted
<1>a. config.maxIterations \in Nat
  BY ConfigFacts DEF Init
<1>3. Sound(Unstarted)
  BY <1>1, <1>2, <1>a DEF Sound, Coherent, Budgeted, Classified
<1>4. TypeOK
  <2>1. recoveries \in 0..MaxRecoveries /\ todo \in Seq(Calls) /\ attempt \in Nat
    BY BoundAssumption DEF Init
  <2>2. pc = "new" /\ results \subseteq DOMAIN config.tools /\ vault \subseteq Origins
    BY DEF Init
  <2> QED
    BY <1>1, <2>1, <2>2 DEF TypeOK, Init
<1>5. Phase /\ Carried /\ Returning /\ Tooling
  BY <1>2 DEF Init, Phase, Carried, Returning, Tooling, InCall, BeforeCall, ToolPlaces
<1>6. SettledIsPurged /\ CallIsCleared /\ ExecutionIsCleared
  BY <1>2 DEF Init, SettledIsPurged, CallIsCleared, ExecutionIsCleared, Terminal
<1> QED
  BY <1>3, <1>4, <1>5, <1>6 DEF IInv, Init

-----------------------------------------------------------------------------
(***************************************************************************)
(* The two ways a call ends.                                                *)
(***************************************************************************)

(* A call may hand out any sound RunState that follows the one it was given,  *)
(* and with it tokens unless that one was settled.                           *)
LEMMA LeaveStep ==
    ASSUME IInv, NEW s, NEW minted, Leave(s, minted), minted \subseteq Origins,
           Sound(s), Extends(state, s), Leads(state, s),
           state.status \in Terminal => minted = {},
           consent' \in PolicyNames \cup {NoPolicy}
    PROVE  IInv'
<1> USE DEF IInv
<1>1. /\ work' = s /\ pc' = "returning" /\ vault' = vault \cup minted
      /\ approved' = NoPolicy /\ todo' = << >> /\ attempt' = 0 /\ results' = {}
      /\ UNCHANGED <<state, config, drifted, recoveries>>
  BY DEF Leave, LeaveCall, fixed
<1>2. Sound(state)' /\ Sound(work)'
  <2>1. Sound(state)'
    BY <1>1 DEF Sound, Coherent, Budgeted, Classified, RunStates, Pendings
  <2>2. Sound(work)'
    BY <1>1 DEF Sound, Coherent, Budgeted, Classified, RunStates, Pendings
  <2> QED
    BY <2>1, <2>2
<1>3. TypeOK'
  <2>1. state' \in RunStates' /\ work' \in RunStates'
    BY <1>2 DEF Sound
  <2> QED
    BY <1>1, <2>1, FixedProject DEF TypeOK
<1>4. Phase' /\ Carried' /\ Tooling'
  BY <1>1 DEF Phase, Carried, Tooling, InCall, BeforeCall, ToolPlaces
<1>5. Returning'
  BY <1>1 DEF Returning, Extends, Leads
<1>6. SettledIsPurged' /\ CallIsCleared' /\ ExecutionIsCleared'
  BY <1>1 DEF SettledIsPurged, CallIsCleared, ExecutionIsCleared
<1> QED
  BY <1>2, <1>3, <1>4, <1>5, <1>6

(* An exception leaves the caller with the RunState it had. *)
LEMMA RaiseStep ==
    ASSUME IInv, Raise, consent' \in PolicyNames \cup {NoPolicy}
    PROVE  IInv'
<1> USE DEF IInv
<1>1. /\ work' = state /\ pc' = "raised" /\ vault' = vault
      /\ approved' = NoPolicy /\ todo' = << >> /\ attempt' = 0 /\ results' = {}
      /\ UNCHANGED <<state, config, drifted, recoveries>>
  BY DEF Raise, LeaveCall, fixed
<1>2. Sound(state)' /\ Sound(work)'
  BY <1>1 DEF Sound, Coherent, Budgeted, Classified, RunStates, Pendings
<1>3. TypeOK'
  <2>1. state' \in RunStates' /\ work' \in RunStates'
    BY <1>2 DEF Sound
  <2> QED
    BY <1>1, <2>1, FixedProject DEF TypeOK
<1>4. Phase' /\ Carried' /\ Tooling' /\ Returning'
  BY <1>1 DEF Phase, Carried, Tooling, Returning, InCall, BeforeCall, ToolPlaces
<1>5. SettledIsPurged' /\ CallIsCleared' /\ ExecutionIsCleared'
  BY <1>1 DEF SettledIsPurged, CallIsCleared, ExecutionIsCleared
<1> QED
  BY <1>2, <1>3, <1>4, <1>5

(* A call that goes on does so with a sound RunState; what is left to show is  *)
(* what the place it goes to stands for.                                      *)
LEMMA ProceedStep ==
    ASSUME IInv, NEW place \in InCall, NEW minted, Proceed(place, minted),
           minted \subseteq Origins, state.status \in Live,
           NEW w, work' = w, Sound(w),
           todo' \in Seq(Calls), attempt' \in Nat, results' \subseteq DOMAIN config.tools,
           approved' \in PolicyNames \cup {NoPolicy},
           consent' \in PolicyNames \cup {NoPolicy},
           Carried', Tooling', CallIsCleared', ExecutionIsCleared'
    PROVE  IInv'
<1> USE DEF IInv
<1>1. /\ pc' = place /\ vault' = vault \cup minted
      /\ UNCHANGED <<state, config, drifted, recoveries>>
  BY DEF Proceed, fixed
<1>2. Sound(state)' /\ Sound(work)'
  <2>1. Sound(state)'
    BY <1>1 DEF Sound, Coherent, Budgeted, Classified, RunStates, Pendings
  <2>2. Sound(work)'
    BY <1>1 DEF Sound, Coherent, Budgeted, Classified, RunStates, Pendings
  <2> QED
    BY <2>1, <2>2
<1>3. TypeOK'
  <2>1. state' \in RunStates' /\ work' \in RunStates'
    BY <1>2 DEF Sound
  <2>2. pc' \in InCall /\ pc' # "new" /\ pc' # "returning"
    BY <1>1 DEF InCall, BeforeCall, ToolPlaces
  <2>3. vault' \subseteq Origins
    BY <1>1 DEF TypeOK
  <2> QED
    BY <1>1, <2>1, <2>2, <2>3, FixedProject DEF TypeOK, InCall, BeforeCall, ToolPlaces
<1>4. Phase' /\ Returning'
  BY <1>1 DEF Phase, Returning, InCall, BeforeCall, ToolPlaces
<1>5. SettledIsPurged'
  BY <1>1 DEF SettledIsPurged, Live, Terminal
<1> QED
  BY <1>2, <1>3, <1>4, <1>5

-----------------------------------------------------------------------------
(***************************************************************************)
(* From the start of a call to the ceilings.                                *)
(***************************************************************************)

LEMMA ReturnedStep == IInv /\ Returned => IInv'
<1> SUFFICES ASSUME IInv, Returned PROVE IInv'
  OBVIOUS
<1> USE DEF IInv
<1>1. /\ state' = work /\ pc' = "idle" /\ vault' = IF Purges THEN {} ELSE vault
      /\ UNCHANGED <<work, config, drifted, recoveries, approved, todo, attempt, results,
                     consent>>
      /\ pc = "returning"
  BY DEF Returned, locals, fixed
<1>2. Sound(state)' /\ Sound(work)'
  BY <1>1 DEF Sound, Coherent, Budgeted, Classified, RunStates, Pendings
<1>3. TypeOK'
  <2>1. state' \in RunStates' /\ work' \in RunStates'
    BY <1>2 DEF Sound
  <2>2. vault' \subseteq Origins
    BY <1>1 DEF TypeOK
  <2> QED
    BY <1>1, <2>1, <2>2, FixedProject DEF TypeOK, Calls
<1>4. Phase' /\ Carried' /\ Returning'
  BY <1>1 DEF Phase, Carried, Returning, InCall, BeforeCall, ToolPlaces
<1>5. Tooling'
  BY <1>1 DEF Tooling, ToolPlaces
<1>6. SettledIsPurged' /\ CallIsCleared' /\ ExecutionIsCleared'
  BY <1>1 DEF SettledIsPurged, Purges, CallIsCleared, ExecutionIsCleared
<1> QED
  BY <1>2, <1>3, <1>4, <1>5, <1>6

LEMMA StartStep == IInv /\ Start => IInv'
<1> SUFFICES ASSUME IInv, Start PROVE IInv'
  OBVIOUS
<1> USE DEF IInv
<1> DEFINE decision == Decide("request", RequestContext, NoPolicy, TRUE)
<1>1. state = Unstarted /\ consent' = consent /\ consent \in PolicyNames \cup {NoPolicy}
  BY DEF Start, Phase, TypeOK, Sound, Coherent
<1>2. CASE Raise
  BY <1>1, <1>2, RaiseStep
<1>3. ASSUME NEW s \in {Fresh, [Fresh EXCEPT !.status = "denied"]}
      PROVE  /\ Sound(s) /\ Extends(state, s) /\ Leads(state, s)
             /\ state.status \notin Terminal
  <2>1. /\ s.status \in {"running", "denied"} /\ s.pending = NoPending /\ s.iteration = 0
        /\ s.cost = 0 /\ s.classes = {} /\ s.tools = {} /\ s.auditSeq = 0
    BY DEF Fresh, Unstarted
  <2>2. s \in RunStates
    <3>1. Unstarted \in RunStates
      BY DEF Unstarted, RunStates
    <3>2. Fresh \in RunStates
      BY <3>1, StatusChange DEF Fresh, Live
    <3> QED
      BY <3>2, StatusChange DEF Terminal
  <2>3. /\ state.status = "unstarted" /\ state.pending = NoPending /\ state.iteration = 0
        /\ state.cost = 0 /\ state.classes = {} /\ state.tools = {}
    BY <1>1 DEF Unstarted
  <2>4. Sound(s)
    <3>1. config.maxIterations \in Nat
      BY ConfigFacts DEF TypeOK
    <3> QED
      BY <2>1, <2>2, <3>1 DEF Sound, Coherent, Budgeted, Classified
  <2>5. Extends(state, s) /\ Leads(state, s)
    BY <2>1, <2>3 DEF Extends, Leads
  <2> QED
    BY <2>3, <2>4, <2>5 DEF Terminal
<1>4. CASE Deny(Fresh)
  <2>1. Leave([Fresh EXCEPT !.status = "denied"], {})
    BY <1>4 DEF Deny, Return
  <2> QED
    BY <1>1, <1>3, <2>1, LeaveStep
<1>5. CASE \E minted \in Mintable("request", decision) : Leave(Fresh, minted)
  <2>1. PICK minted \in Mintable("request", decision) : Leave(Fresh, minted)
    BY <1>5
  <2> QED
    BY <1>1, <1>3, <2>1, LeaveStep, MintedOrigins
<1> QED
  BY <1>2, <1>4, <1>5 DEF Start

(* The RunState a call was given is one it may return, settled as failed if   *)
(* it was live.                                                              *)
LEMMA SameState ==
    ASSUME NEW s, Sound(s)
    PROVE  /\ Extends(s, s) /\ Leads(s, s)
           /\ s.status \in Live =>
                 LET f == [s EXCEPT !.status = "failed"]
                 IN  Sound(f) /\ Extends(s, f) /\ Leads(s, f)
<1>1. s \in RunStates
  BY DEF Sound
<1>2. Extends(s, s) /\ Leads(s, s)
  BY <1>1, RunStateFields DEF Extends, Leads
<1> DEFINE f == [s EXCEPT !.status = "failed"]
<1>3. /\ f \in RunStates /\ f.status = "failed" /\ f.pending = s.pending
      /\ f.iteration = s.iteration /\ f.cost = s.cost
      /\ f.classes = s.classes /\ f.tools = s.tools
  BY <1>1, StatusChange DEF Terminal
<1> HIDE DEF f
<1>4. Sound(f)
  BY <1>3 DEF Sound, Coherent, Budgeted, Classified
<1>5. s.status \in Live => Extends(s, f) /\ Leads(s, f)
  BY <1>1, <1>3, RunStateFields DEF Extends, Leads
<1> QED
  BY <1>2, <1>4, <1>5 DEF f

LEMMA SettledStep == IInv /\ Settled => IInv'
<1> SUFFICES ASSUME IInv, Settled PROVE IInv'
  OBVIOUS
<1>1. Sound(state) /\ consent' = NoPolicy /\ Leave(state, {})
  BY DEF IInv, Settled, Return
<1>2. Extends(state, state) /\ Leads(state, state)
  BY <1>1, SameState
<1> QED
  BY <1>1, <1>2, LeaveStep

LEMMA DriftedStep == IInv /\ Drifted => IInv'
<1> SUFFICES ASSUME IInv, Drifted PROVE IInv'
  OBVIOUS
<1>1. Sound(state) /\ state.status \in Live /\ consent' = NoPolicy
  BY DEF IInv, Drifted
<1>2. CASE Fail(state)
  <2>1. Leave([state EXCEPT !.status = "failed"], {})
    BY <1>2 DEF Fail, Return
  <2> QED BY <1>1, <2>1, LeaveStep, SameState
<1>3. CASE Raise
  BY <1>1, <1>3, RaiseStep
<1> QED BY <1>2, <1>3 DEF Drifted

(* A call that goes on enters _step's loop with what the caller gave it and   *)
(* the approval it brought.                                                  *)
LEMMA EnterStep ==
    ASSUME IInv, Current, NEW s, NEW granted \in PolicyNames \cup {NoPolicy},
           Enter(s, granted), Sound(s), Extends(state, s), s.status = "running",
           s.pending = NoPending, s.iteration = state.iteration,
           state.pending = NoPending \/ granted = state.pending.policy,
           consent' = granted
    PROVE  IInv'
<1> USE DEF IInv
<1>1. /\ work' = s /\ approved' = granted /\ pc' = "ceilings" /\ pc = "idle"
      /\ state.status \in Live
      /\ UNCHANGED <<state, todo, attempt, results, value, vault, config, drifted, recoveries>>
  BY DEF Enter, Current, Called, fixed
<1>2. Proceed("ceilings", {}) /\ "ceilings" \in InCall
  BY <1>1 DEF Proceed, fixed, InCall, BeforeCall
<1>3. Carried'
  BY <1>1 DEF Carried, Extends, InCall, BeforeCall, ToolPlaces
<1>4. Tooling'
  <2>1. \A t \in results : config.tools[t].classes \subseteq s.classes
    BY <1>1 DEF Tooling, ToolPlaces
  <2> QED
    BY <1>1, <2>1 DEF Tooling, ToolPlaces
<1>5. CallIsCleared' /\ ExecutionIsCleared'
  BY <1>1 DEF CallIsCleared, ExecutionIsCleared
<1>6. /\ todo' \in Seq(Calls) /\ attempt' \in Nat /\ results' \subseteq DOMAIN config.tools
  BY <1>1 DEF TypeOK
<1> QED
  BY <1>1, <1>2, <1>3, <1>4, <1>5, <1>6, ProceedStep

LEMMA ContinueStep == IInv /\ Continue => IInv'
<1> SUFFICES ASSUME IInv, Continue PROVE IInv'
  OBVIOUS
<1>1. Current /\ Enter(state, NoPolicy) /\ consent' = NoPolicy /\ state.pending = NoPending
  BY DEF Continue
<1>2. Sound(state) /\ Extends(state, state)
  BY SameState DEF IInv
<1>3. state.status = "running"
  BY <1>1, <1>2 DEF Current, Live, Sound, Coherent
<1> QED
  BY <1>1, <1>2, <1>3, EnterStep

(* The caller's RunState without its question. *)
LEMMA Unasked ==
    ASSUME IInv, NEW status \in {"running", "denied"}, state.status \in Live
    PROVE  LET s == [state EXCEPT !.pending = NoPending, !.status = status]
           IN  /\ Sound(s) /\ Extends(state, s)
               /\ s.status = status /\ s.pending = NoPending
               /\ s.iteration = state.iteration
               /\ status = "denied" => Leads(state, s)
<1> DEFINE s == [state EXCEPT !.pending = NoPending, !.status = status]
<1>1. Sound(state) /\ state \in RunStates
  BY DEF IInv, Sound
<1>2. /\ s \in RunStates /\ s.status = status /\ s.pending = NoPending
      /\ s.iteration = state.iteration /\ s.cost = state.cost
      /\ s.classes = state.classes /\ s.tools = state.tools
  BY <1>1 DEF RunStates, Live, Terminal
<1> HIDE DEF s
<1>3. Sound(s)
  BY <1>1, <1>2 DEF Sound, Coherent, Budgeted, Classified
<1>4. Extends(state, s)
  BY <1>1, <1>2, RunStateFields DEF Extends
<1>5. status = "denied" => Leads(state, s)
  <2>1. s.pending.policy = NoPolicy
    BY <1>2 DEF NoPending
  <2> QED
    BY <1>2, <2>1 DEF Leads
<1> QED
  BY <1>2, <1>3, <1>4, <1>5 DEF s

LEMMA AnswerStep == ASSUME NEW yes \in BOOLEAN PROVE IInv /\ Answer(yes) => IInv'
<1> SUFFICES ASSUME IInv, Answer(yes) PROVE IInv'
  OBVIOUS
<1>1. CASE Refused(yes)
  <2> DEFINE s == [state EXCEPT !.pending = NoPending, !.status = "denied"]
  <2>1. Leave(s, {}) /\ consent' = NoPolicy /\ state.status \in Live
    BY <1>1 DEF Refused, Deny, Return, Current
  <2>2. Sound(s) /\ Extends(state, s) /\ Leads(state, s)
    BY <2>1, Unasked
  <2> QED
    BY <2>1, <2>2, LeaveStep
<1>2. CASE Granted(yes)
  <2> DEFINE s == [state EXCEPT !.pending = NoPending, !.status = "running"]
  <2>1. /\ Current /\ Enter(s, state.pending.policy) /\ consent' = state.pending.policy
        /\ state.status \in Live
    BY <1>2 DEF Granted, Current
  <2>2. /\ Sound(s) /\ Extends(state, s) /\ s.status = "running"
        /\ s.pending = NoPending /\ s.iteration = state.iteration
    BY <2>1, Unasked
  <2>3. state.pending.policy \in PolicyNames \cup {NoPolicy}
    <3>1. state.pending \in Pendings \cup {NoPending} /\ config \in Configs
      BY RunStateFields DEF IInv, TypeOK
    <3> QED
      BY <3>1, PendingPolicy DEF NoPending
  <2> QED
    BY <2>1, <2>2, <2>3, EnterStep
<1>3. CASE ApproversRaise(yes)
  BY <1>3, RaiseStep DEF ApproversRaise
<1> QED
  BY <1>1, <1>2, <1>3 DEF Answer

-----------------------------------------------------------------------------
(***************************************************************************)
(* From the ceilings to the provider.                                       *)
(***************************************************************************)

(* What the place pc says of the RunState being built. *)
LEMMA CallFacts ==
    ASSUME IInv, pc \in InCall
    PROVE  /\ config \in Configs /\ state.status \in Live
           /\ Sound(state) /\ Sound(work) /\ state \in RunStates /\ work \in RunStates
           /\ work.status = "running" /\ work.pending = NoPending
           /\ Extends(state, work)
           /\ consent \in PolicyNames \cup {NoPolicy}
BY DEF IInv, TypeOK, Sound, Phase, Carried

(* Inside a call a run may fail or be denied with what it has so far. *)
LEMMA BlockedStep ==
    ASSUME IInv, pc \in InCall, NEW status \in {"failed", "denied"},
           Leave([work EXCEPT !.status = status], {}), UNCHANGED consent
    PROVE  IInv'
<1> DEFINE s == [work EXCEPT !.status = status]
<1>1. /\ s \in RunStates /\ s.status = status /\ s.pending = NoPending
      /\ s.iteration = work.iteration /\ s.cost = work.cost
      /\ s.classes = work.classes /\ s.tools = work.tools
  BY CallFacts, StatusChange DEF Terminal
<1>2. Leave(s, {})
  OBVIOUS
<1> HIDE DEF s
<1>3. Sound(s)
  BY <1>1, CallFacts DEF Sound, Coherent, Budgeted, Classified
<1>4. Extends(state, s)
  BY <1>1, CallFacts DEF Extends
<1>5. Leads(state, s)
  <2>1. s.pending.policy = NoPolicy
    BY <1>1 DEF NoPending
  <2>2. \/ s.iteration = state.iteration
        \/ s.iteration = state.iteration + 1 /\ s.iteration <= config.maxIterations
    BY <1>1 DEF IInv, Carried
  <2> QED
    BY <1>1, <2>1, <2>2, CallFacts DEF Leads
<1> QED
  BY <1>2, <1>3, <1>4, <1>5, CallFacts, LeaveStep

LEMMA CeilingSteps == IInv /\ (Exceed \/ ExceedReserve) => IInv'
<1> SUFFICES ASSUME IInv, Exceed \/ ExceedReserve PROVE IInv'
  OBVIOUS
<1>1. pc \in InCall /\ Leave([work EXCEPT !.status = "failed"], {}) /\ UNCHANGED consent
  BY DEF Exceed, ExceedReserve, Fail, Return, InCall, BeforeCall
<1> QED
  BY <1>1, BlockedStep

LEMMA LoopHookStep == IInv /\ LoopHook => IInv'
<1> SUFFICES ASSUME IInv, LoopHook PROVE IInv'
  OBVIOUS
<1>1. pc = "ceilings" /\ pc \in InCall /\ UNCHANGED consent /\ ~ OverIterations /\ ~ OverCost
  BY DEF LoopHook, InCall, BeforeCall
<1>2. CASE Raise
  BY <1>1, <1>2, CallFacts, RaiseStep
<1>3. CASE Deny(work)
  BY <1>1, <1>3, BlockedStep DEF Deny, Return
<1>4. CASE Proceed("reserve", {}) /\ UNCHANGED <<work, locals>>
  <2>1. /\ pc' = "reserve" /\ "reserve" \in InCall
        /\ UNCHANGED <<work, approved, todo, attempt, results, state, config, consent>>
    BY <1>1, <1>4 DEF Proceed, locals, fixed, InCall, BeforeCall
  <2>2. Carried'
    BY <1>1, <2>1 DEF IInv, Carried, Extends, OverIterations, OverCost, InCall, BeforeCall,
                      ToolPlaces
  <2>3. Tooling' /\ CallIsCleared' /\ ExecutionIsCleared'
    BY <1>1, <2>1 DEF IInv, Tooling, CallIsCleared, ExecutionIsCleared, ToolPlaces
  <2>4. /\ todo' \in Seq(Calls) /\ attempt' \in Nat /\ results' \subseteq DOMAIN config.tools
        /\ approved' \in PolicyNames \cup {NoPolicy}
    BY <2>1 DEF IInv, TypeOK
  <2> QED
    BY <1>1, <1>4, <2>1, <2>2, <2>3, <2>4, CallFacts, ProceedStep
<1> QED
  BY <1>2, <1>3, <1>4 DEF LoopHook

LEMMA ModelHookStep == IInv /\ ModelHook => IInv'
<1> SUFFICES ASSUME IInv, ModelHook PROVE IInv'
  OBVIOUS
<1> DEFINE decision == Decide("model_call", ModelContext, approved, TRUE)
<1>1. pc = "reserve" /\ pc \in InCall /\ UNCHANGED consent /\ ~ OverReserve
  BY DEF ModelHook, InCall, BeforeCall
<1>2. CASE Raise
  BY <1>1, <1>2, CallFacts, RaiseStep
<1>3. CASE Deny(work)
  BY <1>1, <1>3, BlockedStep DEF Deny, Return
<1>4. CASE /\ decision.outcome = "REQUIRE_APPROVAL"
           /\ Suspend(config.policies[Decider(decision)])
  <2> DEFINE p == config.policies[Decider(decision)]
             asked == [policy |-> p.name, approvers |-> p.approvers]
             s == [work EXCEPT !.status = "suspended", !.pending = asked, !.auditSeq = 1]
  <2>1. p.name # approved /\ p.name # NoPolicy /\ asked \in Pendings
    BY <1>1, <1>4, CallFacts, HookAsks, ConfigFacts DEF Pendings
  <2>2. Leave(s, {})
    BY <1>4 DEF Suspend, Return
  <2>3. asked # NoPending /\ asked.policy = p.name
    BY <1>1, <2>1, CallFacts, PendingPolicy
  <2> HIDE DEF p, asked
  <2>4. /\ s \in RunStates /\ s.status = "suspended" /\ s.pending = asked
        /\ s.iteration = work.iteration /\ s.cost = work.cost
        /\ s.classes = work.classes /\ s.tools = work.tools
    BY <1>1, <2>1, CallFacts DEF RunStates, Live
  <2> HIDE DEF s
  <2>5. Sound(s)
    BY <1>1, <2>3, <2>4, CallFacts DEF Sound, Coherent, Budgeted, Classified
  <2>6. Extends(state, s)
    BY <1>1, <2>4, CallFacts DEF Extends
  <2>7. Leads(state, s)
    <3>1. s.pending.policy # NoPolicy /\ s.pending.policy # approved
      BY <2>1, <2>3, <2>4
    <3>2. state.pending.policy = NoPolicy \/ state.pending.policy = approved
      BY <1>1 DEF IInv, Carried, BeforeCall, NoPending
    <3>3. s.iteration = state.iteration
      BY <1>1, <2>4 DEF IInv, Carried, BeforeCall
    <3> QED
      BY <1>1, <2>4, <3>1, <3>2, <3>3, CallFacts DEF Leads
  <2> QED
    BY <1>1, <2>2, <2>5, <2>6, <2>7, CallFacts, LeaveStep
<1>5. CASE /\ decision.outcome \notin Blocking \cup {"RAISE"}
           /\ \E minted \in Mintable("model_call", decision) : Proceed("complete", minted)
           /\ UNCHANGED <<work, locals>>
  <2>1. PICK minted \in Mintable("model_call", decision) : Proceed("complete", minted)
    BY <1>5
  <2>2. /\ pc' = "complete" /\ "complete" \in InCall
        /\ UNCHANGED <<work, approved, todo, attempt, results, state, config, consent>>
    BY <1>1, <1>5, <2>1 DEF Proceed, locals, fixed, InCall, BeforeCall
  <2>3. Carried'
    BY <1>1, <2>2 DEF IInv, Carried, Extends, OverIterations, OverCost, InCall, BeforeCall,
                      ToolPlaces
  <2>4. Tooling' /\ ExecutionIsCleared'
    BY <1>1, <2>2 DEF IInv, Tooling, ExecutionIsCleared, ToolPlaces
  <2>5. CallIsCleared'
    <3>1. ~ OverIterations /\ ~ OverCost
      BY <1>1 DEF IInv, Carried
    <3>2. (~ OverIterations /\ ~ OverCost /\ ~ OverReserve)'
      BY <1>1, <2>2, <3>1 DEF OverIterations, OverCost, OverReserve
    <3>3. approved = consent
      BY <1>1 DEF IInv, Carried, BeforeCall
    <3>4. ASSUME NEW i \in DOMAIN config.policies,
                 Applies(config.policies[i], "model_call", ModelContext)
          PROVE  LET p == config.policies[i]
                 IN  \/ Allows(p, ModelContext)
                     \/ /\ Refuses(p, ModelContext)
                        /\ \/ p.otherwise = "ALLOW"
                           \/ p.otherwise = "REQUIRE_APPROVAL" /\ p.name = consent
      <4>1. ~ Stops(config.policies[i], ModelContext, approved)
        BY <1>1, <1>5, <3>4, CallFacts, HookPasses
      <4> QED
        BY <3>3, <4>1 DEF Stops, Waives
    <3>5. ModelContext' = ModelContext
      BY <2>2 DEF ModelContext
    <3> QED
      BY <2>2, <3>2, <3>4, <3>5 DEF CallIsCleared
  <2>6. /\ todo' \in Seq(Calls) /\ attempt' \in Nat /\ results' \subseteq DOMAIN config.tools
        /\ approved' \in PolicyNames \cup {NoPolicy}
    BY <2>2 DEF IInv, TypeOK
  <2> QED
    BY <1>1, <2>1, <2>2, <2>3, <2>4, <2>5, <2>6, CallFacts, MintedOrigins, ProceedStep
<1> QED
  BY <1>2, <1>3, <1>4, <1>5 DEF ModelHook

-----------------------------------------------------------------------------
(***************************************************************************)
(* The provider's answer.                                                   *)
(***************************************************************************)

(* The tool calls of a completion are among those the provider may make. *)
LEMMA CompletionCalls ==
    ASSUME NEW c \in Completions
    PROVE  c.calls \in Seq(Calls) /\ c.cost \in Nat
<1>1. c.calls \in Seq({c.calls[i] : i \in DOMAIN c.calls}) /\ c.cost \in Nat
  BY CompletionsAssumption
<1>2. {c.calls[i] : i \in DOMAIN c.calls} \subseteq Calls
  BY DEF Calls, Range
<1> DEFINE S == {c.calls[i] : i \in DOMAIN c.calls}
<1> HIDE DEF S
<1>3. c.calls \in Seq(S) /\ S \subseteq Calls
  BY <1>1, <1>2 DEF S
<1>4. c.calls \in Seq(Calls)
  BY <1>3
<1> QED
  BY <1>1, <1>4

(* The reserve has room for the completion that is charged. *)
LEMMA ChargedFacts ==
    ASSUME IInv, pc = "complete", NEW c \in Completions
    PROVE  /\ Sound(Charged(c)) /\ Extends(state, Charged(c))
           /\ Charged(c).status = "running" /\ Charged(c).pending = NoPending
           /\ Charged(c).iteration = state.iteration + 1
           /\ state.iteration < config.maxIterations
           /\ Charged(c).iteration <= config.maxIterations
           /\ Charged(c).classes = work.classes /\ Charged(c).tools = work.tools
<1> DEFINE s == Charged(c)
<1>1. pc \in InCall
  BY DEF InCall, BeforeCall
<1>2. /\ s \in RunStates /\ s.status = work.status /\ s.pending = work.pending
      /\ s.iteration = work.iteration + 1 /\ s.cost = work.cost + c.cost
      /\ s.classes = work.classes /\ s.tools = work.tools
  <2>1. work \in RunStates
    BY <1>1, CallFacts
  <2>2. work.iteration + 1 \in Nat /\ work.cost + c.cost \in Nat
    BY <2>1, RunStateFields, CompletionCalls
  <2> DEFINE turns == work.iteration + 1
             spent == work.cost + c.cost
  <2>3. s = [work EXCEPT !.iteration = turns, !.cost = spent]
    BY DEF Charged
  <2> HIDE DEF turns, spent
  <2>4. /\ s \in RunStates /\ s.status = work.status /\ s.pending = work.pending
        /\ s.iteration = turns /\ s.cost = spent
        /\ s.classes = work.classes /\ s.tools = work.tools
    BY <2>1, <2>2, <2>3 DEF RunStates, turns, spent
  <2> QED
    BY <2>4 DEF turns, spent
<1> HIDE DEF s
<1>3. work.iteration = state.iteration /\ ~ OverIterations /\ ~ OverReserve
  BY DEF IInv, Carried, CallIsCleared, InCall, BeforeCall
<1>4. /\ work.iteration \in Nat /\ work.cost \in Nat /\ state.cost \in Nat
      /\ state.iteration \in Nat /\ c.cost \in Nat
  BY <1>1, CallFacts, RunStateFields, CompletionCalls
<1>5. /\ config.maxIterations \in Nat /\ config.maxCost \in Nat /\ config.reserved \in Nat
  BY <1>1, CallFacts, ConfigFacts
<1>8. s.iteration <= config.maxIterations /\ state.iteration < config.maxIterations
  BY <1>2, <1>3, <1>4, <1>5 DEF OverIterations
<1>6. Budgeted(s)
  <2>1. config.maxCost # 0 => work.cost + config.reserved <= config.maxCost
    BY <1>3, <1>4, <1>5 DEF OverReserve
  <2>2. config.maxCost # 0 => s.cost <= config.maxCost - config.reserved + c.cost
    BY <1>2, <1>4, <1>5, <2>1
  <2> QED
    BY <1>8, <2>2 DEF Budgeted
<1>7. Sound(s)
  BY <1>1, <1>2, <1>6, CallFacts DEF Sound, Coherent, Classified
<1>9. Extends(state, s)
  <2>1. Extends(state, work)
    BY <1>1, CallFacts
  <2> QED
    BY <1>2, <1>4, <2>1 DEF Extends
<1> QED
  BY <1>1, <1>2, <1>3, <1>7, <1>8, <1>9, CallFacts DEF s

LEMMA ProviderRaisesStep == IInv /\ ProviderRaises => IInv'
<1> SUFFICES ASSUME IInv, ProviderRaises PROVE IInv'
  OBVIOUS
<1>1. Raise /\ UNCHANGED consent /\ pc \in InCall
  BY DEF ProviderRaises, InCall, BeforeCall
<1> QED
  BY <1>1, CallFacts, RaiseStep

(* The call goes on with the charged RunState, to the tools or the response. *)
LEMMA ChargedStep ==
    ASSUME IInv, pc = "complete", NEW c \in Completions, work' = Charged(c),
           NEW place \in {"response", "tool_call"}, Proceed(place, {}),
           UNCHANGED <<approved, attempt, results, consent>>,
           todo' \in Seq(Calls), place = "tool_call" => todo' # << >>
    PROVE  IInv'
<1>1. pc \in InCall
  BY DEF InCall, BeforeCall
<1>2. place \in InCall /\ place \notin BeforeCall
  BY DEF InCall, BeforeCall, ToolPlaces
<1>3. /\ pc' = place
      /\ UNCHANGED <<state, config, approved, attempt, results, consent>>
  BY DEF Proceed, fixed
<1>4. Carried'
  BY <1>2, <1>3, ChargedFacts DEF Carried, Extends, BeforeCall
<1>5. attempt = 0 /\ results = {}
  BY DEF IInv, Tooling, ToolPlaces
<1>6. Tooling'
  <2>1. Known' => attempt' <= Tool'.retries
    <3>1. Known' => Tool'.retries \in Nat
      BY <1>1, <1>3, CallFacts, ConfigFacts DEF Known, Tool
    <3> QED
      BY <1>3, <1>5, <3>1
  <2> QED
    BY <1>3, <1>5, <2>1 DEF Tooling, ToolPlaces
<1>7. CallIsCleared' /\ ExecutionIsCleared'
  BY <1>3 DEF CallIsCleared, ExecutionIsCleared
<1>8. /\ attempt' \in Nat /\ results' \subseteq DOMAIN config.tools
      /\ approved' \in PolicyNames \cup {NoPolicy}
  BY <1>3 DEF IInv, TypeOK
<1> QED
  BY <1>1, <1>2, <1>3, <1>4, <1>6, <1>7, <1>8, CallFacts, ChargedFacts, ProceedStep

LEMMA CompletionStep ==
    ASSUME NEW c \in Completions
    PROVE  IInv /\ (CallsTools(c) \/ Answers(c) \/ BreaksContract(c)) => IInv'
<1> SUFFICES ASSUME IInv, CallsTools(c) \/ Answers(c) \/ BreaksContract(c) PROVE IInv'
  OBVIOUS
<1>1. CASE CallsTools(c)
  BY <1>1, ChargedStep, CompletionCalls DEF CallsTools
<1>2. CASE Answers(c)
  <2>1. todo' \in Seq(Calls)
    BY <1>2 DEF Answers, IInv, TypeOK
  <2> QED
    BY <1>2, <2>1, ChargedStep DEF Answers
<1>3. CASE BreaksContract(c)
  <2> DEFINE s == [Charged(c) EXCEPT !.status = "failed"]
  <2>1. pc = "complete" /\ UNCHANGED consent /\ Leave(s, {}) /\ pc \in InCall
    BY <1>3 DEF BreaksContract, Fail, Return, InCall, BeforeCall
  <2>2. Sound(Charged(c)) /\ Charged(c) \in RunStates
    BY <2>1, ChargedFacts DEF Sound
  <2>3. /\ s \in RunStates /\ s.status = "failed" /\ s.pending = Charged(c).pending
        /\ s.iteration = Charged(c).iteration /\ s.cost = Charged(c).cost
        /\ s.classes = Charged(c).classes /\ s.tools = Charged(c).tools
    BY <2>2, StatusChange DEF Terminal
  <2> HIDE DEF s
  <2>4. Sound(s)
    BY <2>2, <2>3 DEF Sound, Coherent, Budgeted, Classified
  <2>5. Extends(state, s)
    BY <2>1, <2>3, ChargedFacts DEF Extends
  <2>6. Leads(state, s)
    <3>1. s.pending.policy = NoPolicy
      BY <2>1, <2>3, ChargedFacts DEF NoPending
    <3> QED
      BY <2>1, <2>3, <3>1, CallFacts, ChargedFacts DEF Leads
  <2> QED
    BY <2>1, <2>4, <2>5, <2>6, CallFacts, LeaveStep
<1> QED
  BY <1>1, <1>2, <1>3

LEMMA ResponseHookStep == IInv /\ ResponseHook => IInv'
<1> SUFFICES ASSUME IInv, ResponseHook PROVE IInv'
  OBVIOUS
<1>1. pc = "response" /\ pc \in InCall /\ pc \notin BeforeCall /\ UNCHANGED consent
  BY DEF ResponseHook, InCall, BeforeCall
<1>2. CASE Raise
  BY <1>1, <1>2, CallFacts, RaiseStep
<1>3. CASE Deny(work)
  BY <1>1, <1>3, BlockedStep DEF Deny, Return
<1>4. CASE Return([work EXCEPT !.status = "completed"])
  <2> DEFINE s == [work EXCEPT !.status = "completed"]
  <2>1. /\ s \in RunStates /\ s.status = "completed" /\ s.pending = NoPending
        /\ s.iteration = work.iteration /\ s.cost = work.cost
        /\ s.classes = work.classes /\ s.tools = work.tools
    BY <1>1, CallFacts, StatusChange DEF Terminal
  <2>2. Leave(s, {})
    BY <1>4 DEF Return
  <2> HIDE DEF s
  <2>3. Sound(s)
    BY <1>1, <2>1, CallFacts DEF Sound, Coherent, Budgeted, Classified
  <2>4. Extends(state, s)
    BY <1>1, <2>1, CallFacts DEF Extends
  <2>5. s.iteration = state.iteration + 1 /\ s.iteration <= config.maxIterations
    BY <1>1, <2>1 DEF IInv, Carried
  <2>6. state.iteration < config.maxIterations
    <3>1. state.iteration \in Nat /\ config.maxIterations \in Nat
      BY <1>1, CallFacts, RunStateFields, ConfigFacts
    <3> QED
      BY <2>5, <3>1
  <2>7. Leads(state, s)
    <3>1. s.pending.policy = NoPolicy
      BY <2>1 DEF NoPending
    <3> QED
      BY <1>1, <2>1, <2>5, <2>6, <3>1, CallFacts DEF Leads
  <2> QED
    BY <1>1, <2>2, <2>3, <2>4, <2>7, CallFacts, LeaveStep
<1> QED
  BY <1>2, <1>3, <1>4 DEF ResponseHook

-----------------------------------------------------------------------------
(***************************************************************************)
(* The tool calls of a completion.                                          *)
(***************************************************************************)

(* What stays true while the call goes from one place among the tools to      *)
(* another without touching the RunState being built.                        *)
LEMMA ToolPlaceStep ==
    ASSUME IInv, pc \in ToolPlaces, Known, NEW place \in ToolPlaces,
           NEW minted, Proceed(place, minted), minted \subseteq Origins,
           UNCHANGED <<work, approved, todo, results, consent>>,
           attempt' \in Nat, attempt' <= Tool.retries, ExecutionIsCleared'
    PROVE  IInv'
<1>1. /\ pc \in InCall /\ pc \notin BeforeCall /\ pc # "complete"
      /\ place \in InCall /\ place \notin BeforeCall /\ place \notin {"reserve", "complete"}
  BY DEF InCall, BeforeCall, ToolPlaces
<1>2. pc' = place /\ UNCHANGED <<state, config>>
  BY DEF Proceed, fixed
<1>3. Carried'
  BY <1>1, <1>2 DEF IInv, Carried, Extends
<1>4. Known' /\ Tool' = Tool
  BY <1>2 DEF Known, Tool, Call
<1>5. Tooling'
  BY <1>2, <1>4 DEF IInv, Tooling
<1>6. CallIsCleared'
  BY <1>1, <1>2 DEF CallIsCleared
<1>7. /\ todo' \in Seq(Calls) /\ results' \subseteq DOMAIN config.tools
      /\ approved' \in PolicyNames \cup {NoPolicy}
  BY <1>2 DEF IInv, TypeOK
<1> QED
  BY <1>1, <1>2, <1>3, <1>5, <1>6, <1>7, CallFacts, ProceedStep

LEMMA UnknownToolStep == IInv /\ UnknownTool => IInv'
<1> SUFFICES ASSUME IInv, UnknownTool PROVE IInv'
  OBVIOUS
<1>1. Raise /\ UNCHANGED consent /\ pc \in InCall
  BY DEF UnknownTool, InCall, ToolPlaces
<1> QED
  BY <1>1, CallFacts, RaiseStep

LEMMA ToolCallHookStep == IInv /\ ToolCallHook => IInv'
<1> SUFFICES ASSUME IInv, ToolCallHook PROVE IInv'
  OBVIOUS
<1> DEFINE decision == Decide("tool_call", AttemptContext, NoPolicy, TRUE)
<1>1. /\ pc = "tool_call" /\ pc \in InCall /\ pc \in ToolPlaces /\ Known
      /\ UNCHANGED consent
  BY DEF ToolCallHook, InCall, ToolPlaces
<1>2. CASE Raise
  BY <1>1, <1>2, CallFacts, RaiseStep
<1>3. CASE Deny(work)
  BY <1>1, <1>3, BlockedStep DEF Deny, Return
<1>4. CASE /\ decision.outcome \notin Blocking \cup {"RAISE"}
           /\ \E minted \in Mintable("tool_call", decision) : Proceed("execute", minted)
           /\ UNCHANGED <<work, locals>>
  <2>1. PICK minted \in Mintable("tool_call", decision) : Proceed("execute", minted)
    BY <1>4
  <2>2. /\ pc' = "execute" /\ "execute" \in ToolPlaces
        /\ UNCHANGED <<work, approved, todo, attempt, results, state, config, consent>>
    BY <1>1, <1>4, <2>1 DEF Proceed, locals, fixed, ToolPlaces
  <2>3. attempt \in Nat /\ attempt <= Tool.retries
    BY <1>1 DEF IInv, TypeOK, Tooling
  <2>4. ExecutionIsCleared'
    <3>1. ASSUME NEW i \in DOMAIN config.policies,
                 Applies(config.policies[i], "tool_call", AttemptContext)
          PROVE  LET p == config.policies[i]
                 IN  \/ Allows(p, AttemptContext)
                     \/ Refuses(p, AttemptContext) /\ p.otherwise = "ALLOW"
      <4>1. ~ Stops(config.policies[i], AttemptContext, NoPolicy)
        BY <1>1, <1>4, <3>1, CallFacts, HookPasses
      <4>2. config.policies[i].name # NoPolicy
        BY <1>1, CallFacts, ConfigFacts
      <4> QED
        BY <4>1, <4>2 DEF Stops, Waives
    <3>2. AttemptContext' = AttemptContext /\ Tool' = Tool
      BY <2>2 DEF AttemptContext, ToolContext, Tool, Call
    <3> QED
      BY <2>2, <2>3, <3>1, <3>2 DEF ExecutionIsCleared
  <2> QED
    BY <1>1, <2>1, <2>2, <2>3, <2>4, MintedOrigins, ToolPlaceStep
<1> QED
  BY <1>2, <1>3, <1>4 DEF ToolCallHook

LEMMA SucceedsStep == ASSUME NEW v PROVE IInv /\ Succeeds(v) => IInv'
<1> SUFFICES ASSUME IInv, Succeeds(v) PROVE IInv'
  OBVIOUS
<1>1. /\ pc = "execute" /\ pc \in ToolPlaces /\ "tool_result" \in ToolPlaces
      /\ Proceed("tool_result", {}) /\ UNCHANGED <<work, approved, todo, attempt, results, consent>>
  BY DEF Succeeds, ToolPlaces
<1>2. Known /\ attempt \in Nat /\ attempt <= Tool.retries
  BY <1>1 DEF IInv, TypeOK, Tooling
<1>3. ExecutionIsCleared'
  BY <1>1 DEF Proceed, ExecutionIsCleared
<1> QED
  BY <1>1, <1>2, <1>3, ToolPlaceStep

LEMMA RetriesStep == IInv /\ Retries => IInv'
<1> SUFFICES ASSUME IInv, Retries PROVE IInv'
  OBVIOUS
<1>1. /\ pc = "execute" /\ pc \in InCall /\ pc \in ToolPlaces /\ "tool_call" \in ToolPlaces
      /\ attempt < Tool.retries /\ attempt' = attempt + 1
      /\ Proceed("tool_call", {}) /\ UNCHANGED <<work, approved, todo, results, consent>>
  BY DEF Retries, InCall, ToolPlaces
<1>2. Known /\ attempt \in Nat
  BY <1>1 DEF IInv, TypeOK, Tooling
<1>3. Tool.retries \in Nat
  BY <1>1, <1>2, CallFacts, ConfigFacts DEF Known, Tool
<1>4. attempt' \in Nat /\ attempt' <= Tool.retries
  BY <1>1, <1>2, <1>3
<1>5. ExecutionIsCleared'
  BY <1>1 DEF Proceed, ExecutionIsCleared
<1> QED
  BY <1>1, <1>2, <1>4, <1>5, ToolPlaceStep

(* A result is admitted together with the classes of its operation. *)
LEMMA AdmitStep ==
    ASSUME IInv, pc \in {"execute", "tool_result"}, NEW minted, minted \subseteq Origins,
           Admit(minted), UNCHANGED consent
    PROVE  IInv'
<1> DEFINE classes == work.classes \cup Tool.classes
           admitted == [work EXCEPT !.classes = classes]
           done == work.tools \cup results \cup {Call.tool}
<1>1. /\ pc \in InCall /\ pc \in ToolPlaces /\ pc \notin BeforeCall
      /\ todo # << >> /\ Known
      /\ \A t \in results : config.tools[t].classes \subseteq work.classes
  BY DEF IInv, Tooling, InCall, BeforeCall, ToolPlaces
<1>2. /\ Call.tool \in DOMAIN config.tools /\ Tool = config.tools[Call.tool]
      /\ results \subseteq DOMAIN config.tools /\ work.tools \subseteq DOMAIN config.tools
      /\ todo \in Seq(Calls)
  BY <1>1, CallFacts, RunStateFields DEF Known, Tool, IInv, TypeOK
<1>3. /\ classes \subseteq UNION {config.tools[t].classes : t \in DOMAIN config.tools}
      /\ done \subseteq DOMAIN config.tools
      /\ \A t \in done : config.tools[t].classes \subseteq classes
  <2>1. work.classes \subseteq UNION {config.tools[t].classes : t \in DOMAIN config.tools}
    BY <1>1, CallFacts, RunStateFields
  <2>2. Classified(work)
    BY <1>1, CallFacts DEF Sound
  <2> QED
    BY <1>1, <1>2, <2>1, <2>2 DEF Classified
<1> HIDE DEF classes, done
<1>4. work.classes \subseteq classes /\ work.tools \subseteq done /\ results \subseteq done
      /\ Call.tool \in done
  BY DEF classes, done
<1>5. /\ admitted \in RunStates /\ admitted.status = work.status
      /\ admitted.pending = work.pending /\ admitted.iteration = work.iteration
      /\ admitted.cost = work.cost /\ admitted.classes = classes
      /\ admitted.tools = work.tools
  BY <1>1, <1>3, CallFacts DEF RunStates
<1> HIDE DEF admitted
<1>6. CASE Len(todo) > 1
  <2>1. /\ work' = admitted /\ results' = results \cup {Call.tool} /\ todo' = Tail(todo)
        /\ attempt' = 0 /\ UNCHANGED approved /\ Proceed("tool_call", minted)
    BY <1>6 DEF Admit, AdmitWith, admitted, classes
  <2>2. /\ pc' = "tool_call" /\ "tool_call" \in InCall /\ "tool_call" \notin BeforeCall
        /\ UNCHANGED <<state, config>>
    BY <2>1 DEF Proceed, fixed, InCall, BeforeCall, ToolPlaces
  <2>3. Sound(admitted)
    <3>1. Classified(admitted)
      BY <1>3, <1>4, <1>5 DEF Classified
    <3> QED
      BY <1>1, <1>5, <3>1, CallFacts DEF Sound, Coherent, Budgeted
  <2>4. Carried'
    <3>1. /\ admitted.status = "running" /\ admitted.pending = NoPending
          /\ Extends(state, admitted)
          /\ admitted.iteration = state.iteration + 1
          /\ admitted.iteration <= config.maxIterations
      BY <1>1, <1>4, <1>5, CallFacts DEF IInv, Carried, Extends
    <3> QED
      BY <2>1, <2>2, <3>1 DEF Carried, Extends, BeforeCall
  <2>5. todo' \in Seq(Calls) /\ todo' # << >>
    <3>1. Tail(todo) \in Seq(Calls)
      BY <1>1, <1>2
    <3>2. Len(Tail(todo)) = Len(todo) - 1 /\ Len(todo) \in Nat
      BY <1>1, <1>2
    <3>3. Len(Tail(todo)) > 0
      BY <1>6, <3>2
    <3>4. Tail(todo) # << >>
      BY <3>1, <3>3, NonEmpty
    <3> QED
      BY <2>1, <3>1, <3>4
  <2>6. Tooling'
    <3>1. \A t \in results' : config'.tools[t].classes \subseteq work'.classes
      BY <1>3, <1>4, <1>5, <2>1, <2>2
    <3>2. Known' => attempt' <= Tool'.retries
      <4>1. Known' => Tool'.retries \in Nat
        BY <1>1, <2>2, CallFacts, ConfigFacts DEF Known, Tool
      <4> QED
        BY <2>1, <4>1
    <3> QED
      BY <2>2, <2>5, <3>1, <3>2 DEF Tooling, ToolPlaces
  <2>7. CallIsCleared' /\ ExecutionIsCleared'
    BY <2>2 DEF CallIsCleared, ExecutionIsCleared
  <2>8. /\ attempt' \in Nat /\ results' \subseteq DOMAIN config.tools
        /\ approved' \in PolicyNames \cup {NoPolicy}
    BY <1>2, <2>1 DEF IInv, TypeOK
  <2> QED
    BY <1>1, <2>1, <2>2, <2>3, <2>4, <2>5, <2>6, <2>7, <2>8, CallFacts, ProceedStep
<1>7. CASE ~ (Len(todo) > 1)
  <2> DEFINE s == [admitted EXCEPT !.tools = done]
  <2>1. Leave(s, minted)
    BY <1>7 DEF Admit, AdmitWith, admitted, classes, done
  <2>2. /\ s \in RunStates /\ s.status = work.status /\ s.pending = work.pending
        /\ s.iteration = work.iteration /\ s.cost = work.cost
        /\ s.classes = classes /\ s.tools = done
    BY <1>3, <1>5 DEF RunStates
  <2> HIDE DEF s
  <2>3. Sound(s)
    <3>1. Classified(s)
      BY <1>3, <2>2 DEF Classified
    <3> QED
      BY <1>1, <2>2, <3>1, CallFacts DEF Sound, Coherent, Budgeted
  <2>4. Extends(state, s)
    BY <1>1, <1>4, <2>2, CallFacts DEF Extends
  <2>5. s.iteration = state.iteration + 1 /\ state.iteration < config.maxIterations
    <3>1. s.iteration = state.iteration + 1 /\ s.iteration <= config.maxIterations
      BY <1>1, <2>2 DEF IInv, Carried
    <3>2. state.iteration \in Nat /\ config.maxIterations \in Nat
      BY <1>1, CallFacts, RunStateFields, ConfigFacts
    <3> QED
      BY <3>1, <3>2
  <2>6. Leads(state, s)
    <3>1. s.pending.policy = NoPolicy
      BY <1>1, <2>2, CallFacts DEF NoPending
    <3> QED
      BY <1>1, <2>2, <2>5, <3>1, CallFacts DEF Leads
  <2>7. state.status \notin Terminal
    BY <1>1, CallFacts DEF Live, Terminal
  <2> QED
    BY <1>1, <2>1, <2>3, <2>4, <2>6, <2>7, CallFacts, LeaveStep
<1> QED
  BY <1>6, <1>7

LEMMA GivesUpStep == IInv /\ GivesUp => IInv'
<1> SUFFICES ASSUME IInv, GivesUp PROVE IInv'
  OBVIOUS
<1>1. pc = "execute" /\ Admit({}) /\ UNCHANGED consent
  BY DEF GivesUp
<1> QED
  BY <1>1, AdmitStep

LEMMA ToolResultHookStep == IInv /\ ToolResultHook => IInv'
<1> SUFFICES ASSUME IInv, ToolResultHook PROVE IInv'
  OBVIOUS
<1>1. pc = "tool_result" /\ pc \in InCall /\ UNCHANGED consent
  BY DEF ToolResultHook, InCall, ToolPlaces
<1>2. CASE Raise
  BY <1>1, <1>2, CallFacts, RaiseStep
<1>3. CASE Fail(state)
  <2>1. Leave([state EXCEPT !.status = "failed"], {})
    BY <1>3 DEF Fail, Return
  <2> QED
    BY <1>1, <2>1, CallFacts, SameState, LeaveStep
<1>4. CASE Deny(work)
  BY <1>1, <1>4, BlockedStep DEF Deny, Return
<1>5. ASSUME NEW decision, NEW minted \in Mintable("tool_result", decision), Admit(minted)
      PROVE  IInv'
  BY <1>1, <1>5, MintedOrigins, AdmitStep
<1> QED
  BY <1>2, <1>3, <1>4, <1>5 DEF ToolResultHook

-----------------------------------------------------------------------------
(***************************************************************************)
(* What happens around the run.                                             *)
(***************************************************************************)

LEMMA EditFilesStep == IInv /\ EditFiles => IInv'
<1> SUFFICES ASSUME IInv, EditFiles PROVE IInv'
  OBVIOUS
<1>1. /\ drifted' = ~ drifted
      /\ UNCHANGED <<config, state, pc, work, approved, todo, attempt, results, value,
                     vault, consent, recoveries>>
  BY DEF EditFiles, locals
<1>2. Sound(state)' /\ Sound(work)'
  BY <1>1 DEF IInv, Sound, Coherent, Budgeted, Classified, RunStates, Pendings
<1>3. TypeOK'
  <2>1. state' \in RunStates' /\ work' \in RunStates' /\ drifted' \in BOOLEAN
    BY <1>1, <1>2 DEF Sound
  <2> QED
    BY <1>1, <2>1, FixedProject DEF IInv, TypeOK
<1>4. Phase' /\ Carried'
  BY <1>1 DEF IInv, Phase, Carried, Extends, OverIterations, OverCost
<1>5. Returning'
  BY <1>1 DEF IInv, Returning, Extends, Leads
<1>6. Known' = Known /\ Tool' = Tool /\ AttemptContext' = AttemptContext
  BY <1>1 DEF Known, Tool, Call, AttemptContext, ToolContext
<1>7. Tooling'
  BY <1>1, <1>6 DEF IInv, Tooling
<1>8. SettledIsPurged' /\ ExecutionIsCleared'
  BY <1>1, <1>6 DEF IInv, SettledIsPurged, ExecutionIsCleared
<1>9. CallIsCleared'
  BY <1>1 DEF IInv, CallIsCleared, OverIterations, OverCost, OverReserve, ModelContext
<1> QED
  BY <1>2, <1>3, <1>4, <1>5, <1>7, <1>8, <1>9 DEF IInv

(* Between calls only the vault and the RunState of the caller matter. *)
LEMMA BetweenStep ==
    ASSUME IInv, pc' \in {Again, "raised"}, state' = state, config' = config,
           work' \in {state, work}, vault' \in {{}, vault}, drifted' = drifted,
           approved' \in {approved, NoPolicy}, todo' \in {todo, << >>},
           attempt' = 0, results' = {},
           consent' \in {consent, NoPolicy}, recoveries' \in 0..MaxRecoveries
    PROVE  IInv'
<1>1. Sound(state)' /\ Sound(work)'
  BY DEF IInv, Sound, Coherent, Budgeted, Classified, RunStates, Pendings
<1>2. TypeOK'
  <2>1. state' \in RunStates' /\ work' \in RunStates'
    BY <1>1 DEF Sound
  <2>2. pc' \in {"new", "idle", "raised"}
    BY DEF Again
  <2>3. vault' \subseteq Origins /\ consent' \in PolicyNames \cup {NoPolicy}
    BY DEF IInv, TypeOK
  <2>4. approved' \in PolicyNames \cup {NoPolicy} /\ todo' \in Seq(Calls)
    <3>1. << >> \in Seq(Calls)
      OBVIOUS
    <3>2. todo \in Seq(Calls) /\ approved \in PolicyNames \cup {NoPolicy}
      BY DEF IInv, TypeOK
    <3> QED
      BY <3>1, <3>2
  <2>5. attempt' \in Nat /\ results' \subseteq DOMAIN config.tools /\ drifted' \in BOOLEAN
    BY DEF IInv, TypeOK
  <2> QED
    BY <2>1, <2>2, <2>3, <2>4, <2>5, FixedProject DEF IInv, TypeOK
<1>3. Phase'
  BY DEF IInv, Phase, InCall, BeforeCall, ToolPlaces, Again
<1>4. Carried' /\ Returning' /\ Tooling'
  BY DEF Carried, Returning, Tooling, InCall, BeforeCall, ToolPlaces, Again
<1>5. SettledIsPurged' /\ CallIsCleared' /\ ExecutionIsCleared'
  BY DEF IInv, SettledIsPurged, CallIsCleared, ExecutionIsCleared, Again
<1> QED
  BY <1>1, <1>2, <1>3, <1>4, <1>5 DEF IInv

LEMMA AroundSteps == IInv /\ (Retry \/ Restart \/ Abandoned) => IInv'
<1> SUFFICES ASSUME IInv, Retry \/ Restart \/ Abandoned PROVE IInv'
  OBVIOUS
<1>1. recoveries \in 0..MaxRecoveries /\ MaxRecoveries \in Nat
  BY BoundAssumption DEF IInv, TypeOK
<1>2. CASE Retry
  <2>1. /\ pc' = Again /\ pc = "raised" /\ recoveries' = recoveries + 1
        /\ recoveries < MaxRecoveries
        /\ UNCHANGED <<config, state, work, approved, todo, attempt, results, vault, drifted,
                       consent>>
    BY <1>2 DEF Retry, locals
  <2>2. recoveries' \in 0..MaxRecoveries
    BY <1>1, <2>1
  <2>3. attempt = 0 /\ results = {}
    BY <2>1 DEF IInv, Tooling, ToolPlaces
  <2> QED
    BY <2>1, <2>2, <2>3, BetweenStep
<1>3. CASE Restart
  <2>1. /\ pc' = Again /\ recoveries' = recoveries + 1 /\ recoveries < MaxRecoveries
        /\ work' = state /\ vault' = {} /\ consent' = NoPolicy
        /\ approved' = NoPolicy /\ todo' = << >> /\ attempt' = 0 /\ results' = {}
        /\ UNCHANGED <<config, state, drifted>>
    BY <1>3 DEF Restart, LeaveCall
  <2>2. recoveries' \in 0..MaxRecoveries
    BY <1>1, <2>1
  <2> QED
    BY <2>1, <2>2, BetweenStep
<1>4. CASE Abandoned
  <2>1. /\ pc' = "raised" /\ pc = "raised" /\ recoveries' = recoveries
        /\ UNCHANGED <<config, state, work, approved, todo, attempt, results, vault, drifted,
                       consent>>
    BY <1>4 DEF Abandoned, locals
  <2>2. attempt = 0 /\ results = {}
    BY <2>1 DEF IInv, Tooling, ToolPlaces
  <2> QED
    BY <1>1, <2>1, <2>2, BetweenStep
<1> QED
  BY <1>2, <1>3, <1>4

LEMMA StutterStep == IInv /\ UNCHANGED vars => IInv'
<1> SUFFICES ASSUME IInv, UNCHANGED vars PROVE IInv'
  OBVIOUS
<1>1. UNCHANGED <<config, state, pc, work, approved, todo, attempt, results, value, vault,
                  drifted, emitted, consent, recoveries>>
  BY DEF vars
<1>2. Sound(state)' /\ Sound(work)'
  BY <1>1 DEF IInv, Sound, Coherent, Budgeted, Classified, RunStates, Pendings
<1>3. TypeOK'
  <2>1. state' \in RunStates' /\ work' \in RunStates'
    BY <1>2 DEF Sound
  <2> QED
    BY <1>1, <2>1, FixedProject DEF IInv, TypeOK
<1>4. Phase' /\ Carried' /\ Returning'
  BY <1>1 DEF IInv, Phase, Carried, Extends, OverIterations, OverCost, Returning, Leads
<1>5. Known' = Known /\ Tool' = Tool /\ AttemptContext' = AttemptContext
  BY <1>1 DEF Known, Tool, Call, AttemptContext, ToolContext
<1>6. Tooling' /\ SettledIsPurged' /\ ExecutionIsCleared'
  BY <1>1, <1>5 DEF IInv, Tooling, SettledIsPurged, ExecutionIsCleared
<1>7. CallIsCleared'
  BY <1>1 DEF IInv, CallIsCleared, OverIterations, OverCost, OverReserve, ModelContext
<1> QED
  BY <1>2, <1>3, <1>4, <1>6, <1>7 DEF IInv

LEMMA NextIInv == IInv /\ [Next]_vars => IInv'
<1> SUFFICES ASSUME IInv, [Next]_vars PROVE IInv'
  OBVIOUS
<1>1. CASE Machine
  BY <1>1, StartStep, SettledStep, DriftedStep, ContinueStep, ReturnedStep, CeilingSteps,
     LoopHookStep, ModelHookStep, CompletionStep, ResponseHookStep, UnknownToolStep,
     ToolCallHookStep, SucceedsStep, RetriesStep, GivesUpStep, ToolResultHookStep DEF Machine
<1>2. CASE Environment
  BY <1>2, AnswerStep, ProviderRaisesStep, EditFilesStep, AroundSteps DEF Environment
<1> QED
  BY <1>1, <1>2, StutterStep DEF Next

-----------------------------------------------------------------------------
(***************************************************************************)
(* What holds of every run.                                                 *)
(***************************************************************************)

(* The strengthening that the theorems below rest on. *)
THEOREM LoopInvariant == Spec => []IInv
BY InitIInv, NextIInv, PTL DEF Spec

(* Both RunStates, and with them the question a run waits for, are made of    *)
(* what its project declares (Loop._step).                                   *)
THEOREM LoopTypeCorrect == Spec => []TypeOK
<1>1. IInv => TypeOK
  BY DEF IInv
<1> QED
  BY <1>1, LoopInvariant, PTL

(* No way of settling leaves a token in the vault (Loop._finish). *)
THEOREM SettledRunsArePurged == Spec => []SettledIsPurged
<1>1. IInv => SettledIsPurged
  BY DEF IInv
<1> QED
  BY <1>1, LoopInvariant, PTL

(* The provider is called below every ceiling and past every model_call       *)
(* policy that applies, save the one an authorized principal just approved.   *)
THEOREM CallsAreCleared == Spec => []CallIsCleared
<1>1. IInv => CallIsCleared
  BY DEF IInv
<1> QED
  BY <1>1, LoopInvariant, PTL

(* Every attempt of a tool is cleared for that attempt. *)
THEOREM ExecutionsAreCleared == Spec => []ExecutionIsCleared
<1>1. IInv => ExecutionIsCleared
  BY DEF IInv
<1> QED
  BY <1>1, LoopInvariant, PTL

(* The run's classes cover every tool whose result, or error, is in the       *)
(* transcript (PolicyEngine.admit_tool_result).                              *)
THEOREM TranscriptsAreClassified == Spec => []TranscriptIsClassified
<1>1. IInv => TranscriptIsClassified
  BY DEF IInv, TranscriptIsClassified, Sound, Classified, Tooling
<1> QED
  BY <1>1, LoopInvariant, PTL

(* The reserve bounds by how much a run may overshoot its cost ceiling. *)
THEOREM BudgetsHold == Spec => []BudgetHolds
<1>1. IInv => BudgetHolds
  BY DEF IInv, BudgetHolds, Sound, Budgeted
<1> QED
  BY <1>1, LoopInvariant, PTL

(* The caller's RunState changes only when a call returns. *)
LEMMA StateChanges ==
    ASSUME [Next]_vars
    PROVE  /\ config' = config
           /\ state' = state \/ (pc = "returning" /\ state' = work)
<1>1. CASE Returned
  BY <1>1 DEF Returned, fixed
<1>2. CASE Start \/ Settled \/ Drifted \/ Continue
  BY <1>2 DEF Start, Settled, Drifted, Continue, Enter, Fail, Deny, Return, Leave, Raise, fixed
<1>3. CASE Exceed \/ LoopHook \/ ExceedReserve \/ ModelHook
  BY <1>3 DEF Exceed, LoopHook, ExceedReserve, ModelHook, Suspend, Fail, Deny, Return, Leave,
              Raise, Proceed, fixed
<1>4. CASE \E c \in Completions : CallsTools(c) \/ Answers(c) \/ BreaksContract(c)
  BY <1>4 DEF CallsTools, Answers, BreaksContract, Fail, Return, Leave, Proceed, fixed
<1>5. CASE ResponseHook \/ UnknownTool \/ ToolCallHook
  BY <1>5 DEF ResponseHook, UnknownTool, ToolCallHook, Deny, Return, Leave, Raise, Proceed, fixed
<1>6. CASE (\E v \in ToolValues : Succeeds(v)) \/ Retries
  BY <1>6 DEF Succeeds, Retries, Proceed, fixed
<1>7. ASSUME NEW minted, Admit(minted) PROVE UNCHANGED <<config, state>>
  BY <1>7 DEF Admit, AdmitWith, Leave, Proceed, fixed
<1>8. CASE GivesUp \/ ToolResultHook
  BY <1>7, <1>8 DEF GivesUp, ToolResultHook, Fail, Deny, Return, Leave, Raise, fixed
<1>9. CASE Environment
  BY <1>9 DEF Environment, Answer, Refused, Granted, ApproversRaise, Enter, ProviderRaises,
              EditFiles, Retry, Restart, Abandoned, Deny, Return, Leave, Raise, fixed
<1>10. CASE UNCHANGED vars
  BY <1>10 DEF vars
<1> QED
  BY <1>1, <1>2, <1>3, <1>4, <1>5, <1>6, <1>8, <1>9, <1>10 DEF Next, Machine

(* Nothing a call returned is taken back by a later call. *)
THEOREM NothingIsTakenBack == Spec => CallsOnlyAdd
<1>1. IInv /\ [Next]_vars => Extends(state, state')
  <2> SUFFICES ASSUME IInv, [Next]_vars PROVE Extends(state, state')
    OBVIOUS
  <2>1. Extends(state, state)
    BY SameState DEF IInv
  <2>2. pc = "returning" => Extends(state, work)
    BY DEF IInv, Returning
  <2> QED
    BY <2>1, <2>2, StateChanges
<1>2. IInv /\ [Next]_vars => [/\ state.classes \subseteq state'.classes
                              /\ state.tools \subseteq state'.tools
                              /\ state.iteration <= state'.iteration
                              /\ state.cost <= state'.cost]_vars
  BY <1>1 DEF Extends
<1> QED
  BY <1>2, LoopInvariant, PTL DEF Spec, CallsOnlyAdd

(***************************************************************************)
(* What the caller sees of a run is an execution of RunLifecycle: settled   *)
(* runs stay settled, no run makes more turns than its ceiling, and a step   *)
(* that an approval resumed never asks the same question again.              *)
(***************************************************************************)
THEOREM RunsFollowLifecycle == Spec => FollowsLifecycle
<1>1. Init => Lifecycle!Init
  <2> SUFFICES ASSUME Init PROVE Lifecycle!Init
    OBVIOUS
  <2>1. config.maxIterations \in Nat \ {0}
    BY ConfigsAssumption DEF Init
  <2>2. state.status = "unstarted" /\ state.iteration = 0 /\ state.pending.policy = NoPolicy
    BY DEF Init, Unstarted, NoPending
  <2> QED
    BY <2>1, <2>2 DEF Lifecycle!Init
<1>2. IInv /\ [Next]_vars => [Lifecycle!Next]_(Lifecycle!vars)
  <2> SUFFICES ASSUME IInv, [Next]_vars
               PROVE  Lifecycle!Next \/ UNCHANGED Lifecycle!vars
    OBVIOUS
  <2>1. CASE state' = state
    BY <2>1, StateChanges DEF Lifecycle!vars
  <2>2. CASE pc = "returning" /\ state' = work
    <3>1. Leads(state, state')
      BY <2>2 DEF IInv, Returning
    <3>2. config' = config /\ state.iteration <= config.maxIterations
      BY StateChanges DEF IInv, Sound, Budgeted
    <3>3. CASE /\ state'.status = state.status /\ state'.iteration = state.iteration
               /\ state'.pending.policy = state.pending.policy
      BY <3>2, <3>3 DEF Lifecycle!vars
    <3>4. CASE /\ state.status = "unstarted" /\ state'.status \in {"running", "denied"}
               /\ state'.iteration = state.iteration
               /\ state'.pending.policy = state.pending.policy
      BY <3>2, <3>4 DEF Lifecycle!Next, Lifecycle!Begin
    <3>5. CASE /\ state.status \in Live /\ state'.status \in {"running", "completed"}
               /\ state.iteration < config.maxIterations
               /\ state'.iteration = state.iteration + 1
               /\ state'.pending.policy = NoPolicy
      BY <3>2, <3>5 DEF Lifecycle!Next, Lifecycle!Turn, Lifecycle!Live, Live
    <3>6. CASE /\ state.status \in Live /\ state'.status = "suspended"
               /\ state'.iteration = state.iteration
               /\ state'.pending.policy \notin {state.pending.policy, NoPolicy}
      BY <3>2, <3>6 DEF Lifecycle!Next, Lifecycle!Suspend, Lifecycle!Live, Live
    <3>7. CASE /\ state.status \in Live /\ state'.status \in {"denied", "failed"}
               /\ \/ state'.iteration = state.iteration
                  \/ /\ state'.iteration = state.iteration + 1
                     /\ state'.iteration <= config.maxIterations
               /\ \/ state'.pending.policy = NoPolicy
                  \/ /\ state'.status = "failed"
                     /\ state'.pending.policy = state.pending.policy
      BY <3>2, <3>7 DEF Lifecycle!Next, Lifecycle!Deny, Lifecycle!Fail, Lifecycle!Live, Live
    <3> QED
      BY <3>1, <3>3, <3>4, <3>5, <3>6, <3>7 DEF Leads
  <2> QED
    BY <2>1, <2>2, StateChanges
<1> QED
  BY <1>1, <1>2, LoopInvariant, PTL DEF Spec, FollowsLifecycle, Lifecycle!Spec
=============================================================================
