------------------------------ MODULE AgentLoop ------------------------------
(***************************************************************************)
(* One run of llmform.runtime.Loop, driven the way cli.run and an embedding *)
(* application drive it: start, then step until the run is settled.         *)
(*                                                                         *)
(* A step is one synchronous call, but it talks to the evaluator, the       *)
(* provider and the sources on its way, any of which may raise, and the     *)
(* files of the closure may change meanwhile; so the call is a sequence of   *)
(* actions told apart by pc, one per hook or outside call.  The caller's     *)
(* RunState (state) is an immutable value: it changes only when the call     *)
(* returns.  work is the copy the call builds.                               *)
(*                                                                         *)
(* Every hook is one use of Hooks!Dispatch (the module PolicyEngine has its  *)
(* loop).  emitted holds the audit records the last action appended; the     *)
(* module AuditTrail keeps them.                                             *)
(***************************************************************************)
EXTENDS Hooks, FiniteSets, SequencesExt

CONSTANTS
    Configs,        \* the projects a run may belong to
    Completions,    \* the provider's answers: [calls, cost, valid, draft]
    ToolValues,     \* what a source may return
    IsObject(_),    \* whether a tool's value is a JSON object
    NoName,         \* a context value that is not a string
    MaxRecoveries   \* bound on retries after an exception and on restarts

(***************************************************************************)
(* A project, as far as one agent's run goes.  tools are those of the whole *)
(* project, attached the agent's.  maxCost = 0 is no ceiling, reserved the   *)
(* price of a full answer (0 without price or max_tokens).                   *)
(***************************************************************************)
ASSUME ConfigsAssumption ==
    \A c \in Configs :
        /\ c.policies \in Seq({c.policies[i] : i \in DOMAIN c.policies})
        /\ c.maxIterations \in Nat \ {0}
        /\ c.maxCost \in Nat
        /\ c.reserved \in Nat
        /\ c.posture \in {"allow", "deny"}
        /\ \A t \in DOMAIN c.tools : c.tools[t].retries \in Nat
        /\ \A i \in DOMAIN c.policies :
              /\ c.policies[i].name # NoPolicy
              /\ c.policies[i].otherwise \in Verdicts
              /\ c.policies[i].transforms \in Seq({"redact", "tokenize"})

ASSUME CompletionsAssumption ==
    \A c \in Completions :
        /\ c.cost \in Nat      \* models.Price leaves the sign of a price open: assumed
        /\ c.valid \in BOOLEAN
        /\ c.calls \in Seq({c.calls[i] : i \in DOMAIN c.calls})

ASSUME BoundAssumption == MaxRecoveries \in Nat

VARIABLES
    config,      \* the project, fixed
    state,       \* the RunState the caller holds
    pc,          \* "idle" between calls, else where the call is
    work,        \* the RunState the running call builds
    approved,    \* local approved_policy of _step
    todo,        \* the completion's tool calls not yet finished
    attempt,     \* the attempt of the first of them
    results,     \* tools with a result in the local list results
    value,       \* the draft or the tool value a hook is about to see
    vault,       \* origins of the tokens the Loop's vault holds for the run
    drifted,     \* the files differ from the closure the run was started with
    emitted,     \* audit records appended by the last action
    consent,     \* history: policy an authorized caller said yes to in this call
    recoveries   \* retries and restarts so far

vars == <<config, state, pc, work, approved, todo, attempt, results, value,
          vault, drifted, emitted, consent, recoveries>>

locals == <<approved, todo, attempt, results, value>>
fixed == <<config, drifted, recoveries>>

Live == {"running", "suspended"}
Terminal == {"completed", "failed", "denied"}
Origins == {"request", "tool_result"}

NoPending == [policy |-> NoPolicy, approvers |-> NoPolicy]
NoValue == "none"

Unstarted == [status |-> "unstarted", pending |-> NoPending, iteration |-> 0,
              cost |-> 0, classes |-> {}, tools |-> {}, auditSeq |-> 0]

(***************************************************************************)
(* The audit records of a dispatch: for every applied policy a decision     *)
(* with the verdict of the whole hook and, when the hook transformed, one    *)
(* record per transform the policy declares.  That is also so of an applied  *)
(* policy whose unmet rule was waived: dispatch stages none of its           *)
(* transforms, and the trail still says that they were applied.              *)
(* A transform record names the fields; the model's has the kind of the      *)
(* declared transform in their place, as verdict.                            *)
(***************************************************************************)
Record(kind, hook, policy, verdict) ==
    [kind |-> kind, hook |-> hook, policy |-> policy, verdict |-> verdict, answers |-> 0]

(* Mutant: only the first of a policy's transforms is recorded. *)
PolicyRecordsFirst(hook, p, outcome) ==
    <<Record("decision", hook, p.name, outcome)>> \o
    IF outcome = "TRANSFORM" /\ p.transforms # << >>
    THEN <<Record("transform", hook, p.name, p.transforms[1])>>
    ELSE << >>

PolicyRecords(hook, p, outcome) ==
    <<Record("decision", hook, p.name, outcome)>> \o
    IF outcome = "TRANSFORM"
    THEN [k \in DOMAIN p.transforms |-> Record("transform", hook, p.name, p.transforms[k])]
    ELSE << >>

(* Mutant: the policy that blocks is not recorded. *)
DispatchRecordsPassed(hook, decision) ==
    IF decision.outcome \in {"RAISE", "TRANSFORM_ERROR"} THEN << >>
    ELSE FlattenSeq([i \in DOMAIN config.policies |->
                        IF /\ i \in decision.applied
                           /\ decision.outcome \in Blocking =>
                                \E j \in decision.applied : i < j
                        THEN PolicyRecords(hook, config.policies[i], decision.outcome)
                        ELSE << >>])

DispatchRecords(hook, decision) ==
    IF decision.outcome \in {"RAISE", "TRANSFORM_ERROR"} THEN << >>
    ELSE FlattenSeq([i \in DOMAIN config.policies |->
                        IF i \in decision.applied
                        THEN PolicyRecords(hook, config.policies[i], decision.outcome)
                        ELSE << >>])

Decide(hook, ctx, granted, object) ==
    Dispatch([policies |-> config.policies, hook |-> hook, ctx |-> ctx,
              approved |-> granted, posture |-> config.posture, object |-> object])

(* Which tokens a released hook may add to the vault: those of its origin,   *)
(* if one of its transforms tokenizes a field the payload has.               *)
HookOrigins(hook) ==
    CASE hook = "request"    -> {"request"}
      [] hook = "model_call" -> Origins
      [] hook = "loop"       -> {}
      [] OTHER               -> {"tool_result"}

Mintable(hook, decision) ==
    IF /\ decision.outcome = "TRANSFORM"
       /\ \E i \in decision.staged : "tokenize" \in Range(config.policies[i].transforms)
    THEN SUBSET HookOrigins(hook)
    ELSE {{}}

(* Mutant: the first policy that applied is taken for the one that blocked. *)
DeciderFirst(decision) == CHOOSE i \in decision.applied : \A j \in decision.applied : i <= j

(* The position of the policy whose verdict a blocked hook returns.          *)
Decider(decision) == CHOOSE i \in decision.applied : \A j \in decision.applied : j <= i

-----------------------------------------------------------------------------
(* How a call ends: with a RunState, or with an exception, which leaves the   *)
(* caller's RunState as it was.  The process may still die before the caller  *)
(* has the RunState.                                                          *)

LeaveCall == /\ approved' = NoPolicy
             /\ todo' = << >>
             /\ attempt' = 0
             /\ results' = {}
             /\ value' = NoValue

Leave(s, minted) == /\ work' = s
                    /\ pc' = "returning"
                    /\ vault' = vault \cup minted
                    /\ LeaveCall
                    /\ UNCHANGED <<state, fixed>>

Return(s) == Leave(s, {})
Fail(s) == Return([s EXCEPT !.status = "failed"])
Deny(s) == Return([s EXCEPT !.status = "denied"])

Raise == /\ pc' = "raised"
         /\ work' = state
         /\ LeaveCall
         /\ UNCHANGED <<state, vault, fixed>>

Silent == emitted' = << >>

(* Mutant: only a run with a result gives up its vault. *)
PurgesCompleted == work.status = "completed"

Purges == work.status \in Terminal

(* _finish and the return: the vault of a settled run is purged.              *)
Returned == /\ pc = "returning"
            /\ state' = work
            /\ pc' = "idle"
            /\ vault' = IF Purges THEN {} ELSE vault
            /\ Silent
            /\ UNCHANGED <<work, locals, fixed, consent>>

(* The call goes on at the given place with the tokens the hook minted.       *)
Proceed(place, minted) ==
    /\ pc' = place
    /\ vault' = vault \cup minted
    /\ UNCHANGED <<state, fixed>>

-----------------------------------------------------------------------------
(* Loop.start: a fresh RunState, the request hook, the first user message.    *)

RequestContext == [principal |-> config.principal, input |-> config.input,
                   agent |-> config.agent, run |-> 0]

Fresh == [Unstarted EXCEPT !.status = "running"]

Start ==
    LET decision == Decide("request", RequestContext, NoPolicy, TRUE)
    IN  /\ pc = "new"
        /\ emitted' = DispatchRecords("request", decision)
        /\ UNCHANGED consent
        /\ \/ decision.outcome = "RAISE" /\ Raise
           \/ decision.outcome \in Blocking /\ Deny(Fresh)
           \/ /\ decision.outcome \notin Blocking \cup {"RAISE"}
              /\ \E minted \in Mintable("request", decision) : Leave(Fresh, minted)

-----------------------------------------------------------------------------
(* Loop.step up to the ceilings.  A call finds the run settled, the closure   *)
(* changed, an approval to answer, or a run to go on with.                    *)

Called == pc = "idle"

Settled == /\ Called
           /\ state.status \notin Live
           /\ consent' = NoPolicy
           /\ Silent
           /\ Return(state)

(* The digest differs, or a file of the closure is gone or unreadable and      *)
(* build_lock raises.                                                         *)
Drifted == /\ Called
           /\ state.status \in Live
           /\ drifted
           /\ consent' = NoPolicy
           /\ Silent
           /\ Fail(state) \/ Raise

Current == Called /\ state.status \in Live /\ ~ drifted

Enter(s, granted) == /\ work' = s
                     /\ approved' = granted
                     /\ pc' = "ceilings"
                     /\ UNCHANGED <<state, todo, attempt, results, value, vault, fixed>>

Continue == /\ Current
            /\ state.pending = NoPending
            /\ consent' = NoPolicy
            /\ Silent
            /\ Enter(state, NoPolicy)

Authorized == Evaluate(state.pending.approvers,
                       [principal |-> config.principal, run |-> state])

ApprovalRecord(verdict) ==
    <<[kind |-> "approval", hook |-> "model_call", policy |-> state.pending.policy,
       verdict |-> verdict, answers |-> state.auditSeq]>>

(* A no needs no predicate; a yes counts only if the predicate holds.         *)
Refused(yes) == /\ Current
                /\ state.pending # NoPending
                /\ ~ yes \/ Authorized = "false"
                /\ consent' = NoPolicy
                /\ emitted' = ApprovalRecord("DENY")
                /\ Deny([state EXCEPT !.pending = NoPending])

(* Mutant: a yes counts whoever gives it. *)
GrantedByAnyone(yes) == /\ Current
                        /\ state.pending # NoPending
                        /\ yes
                        /\ consent' = IF Authorized = "true" THEN state.pending.policy
                                      ELSE NoPolicy
                        /\ emitted' = ApprovalRecord("ALLOW")
                        /\ Enter([state EXCEPT !.pending = NoPending, !.status = "running"],
                                 state.pending.policy)

Granted(yes) == /\ Current
                /\ state.pending # NoPending
                /\ yes /\ Authorized = "true"
                /\ consent' = state.pending.policy
                /\ emitted' = ApprovalRecord("ALLOW")
                /\ Enter([state EXCEPT !.pending = NoPending, !.status = "running"],
                         state.pending.policy)

ApproversRaise(yes) == /\ Current
                       /\ state.pending # NoPending
                       /\ yes /\ Authorized = "error"
                       /\ consent' = NoPolicy
                       /\ Silent
                       /\ Raise

Answer(yes) == Refused(yes) \/ Granted(yes) \/ ApproversRaise(yes)

-----------------------------------------------------------------------------
(* _step between the approval and the provider.                               *)

(* Mutants: the ceiling let through once more; the reserve not held back. *)
OverIterationsLate == work.iteration > config.maxIterations
OverReserveLate == config.maxCost # 0 /\ work.cost > config.maxCost

OverIterations == work.iteration >= config.maxIterations
OverCost == config.maxCost # 0 /\ work.cost >= config.maxCost
OverReserve == config.maxCost # 0 /\ work.cost + config.reserved > config.maxCost

Exceed == /\ pc = "ceilings"
          /\ OverIterations \/ OverCost
          /\ Silent
          /\ UNCHANGED consent
          /\ Fail(work)

LoopContext == [iteration |-> work.iteration, cost_usd |-> work.cost,
                principal |-> config.principal]

(* Only DENY ends the step here: any other outcome but an exception goes on.  *)
LoopHook ==
    LET decision == Decide("loop", LoopContext, NoPolicy, TRUE)
    IN  /\ pc = "ceilings"
        /\ ~ OverIterations /\ ~ OverCost
        /\ emitted' = DispatchRecords("loop", decision)
        /\ UNCHANGED consent
        /\ \/ decision.outcome = "RAISE" /\ Raise
           \/ decision.outcome = "DENY" /\ Deny(work)
           \/ /\ decision.outcome \notin {"RAISE", "DENY"}
              /\ Proceed("reserve", {})
              /\ UNCHANGED <<work, locals>>

ExceedReserve == /\ pc = "reserve"
                 /\ OverReserve
                 /\ Silent
                 /\ UNCHANGED consent
                 /\ Fail(work)

(* The model is a dictionary in the context, never a name.                    *)
ModelContext == [model |-> NoName, messages |-> work.tools,
                 data |-> work.classes]

(* Mutants: the suspended RunState loses the run's classes; it names the rule  *)
(* in place of the approvers.                                                 *)
SuspendForgetful(p) == Return([work EXCEPT !.status = "suspended", !.classes = {},
                                  !.pending = [policy |-> p.name, approvers |-> p.approvers],
                                  !.auditSeq = 1])
SuspendOnRule(p) == Return([work EXCEPT !.status = "suspended",
                                  !.pending = [policy |-> p.name, approvers |-> p.rule],
                                  !.auditSeq = 1])

Suspend(p) == Return([work EXCEPT !.status = "suspended",
                                  !.pending = [policy |-> p.name, approvers |-> p.approvers],
                                  !.auditSeq = 1])

ModelHook ==
    LET decision == Decide("model_call", ModelContext, approved, TRUE)
    IN  /\ pc = "reserve"
        /\ ~ OverReserve
        /\ emitted' = DispatchRecords("model_call", decision)
        /\ UNCHANGED consent
        /\ \/ decision.outcome = "RAISE" /\ Raise
           \/ decision.outcome = "DENY" /\ Deny(work)
           \/ /\ decision.outcome = "REQUIRE_APPROVAL"
              /\ Suspend(config.policies[Decider(decision)])
           \/ /\ decision.outcome \notin Blocking \cup {"RAISE"}
              /\ \E minted \in Mintable("model_call", decision) : Proceed("complete", minted)
              /\ UNCHANGED <<work, locals>>

-----------------------------------------------------------------------------
(* The provider, and the answer that ends the run.                            *)

(* A prompt or schema file is gone, or the provider raises: nothing is kept.  *)
ProviderRaises == /\ pc = "complete"
                  /\ recoveries < MaxRecoveries
                  /\ Silent
                  /\ UNCHANGED consent
                  /\ Raise

(* Mutant: a completion that calls tools is no turn. *)
ChargedAtEnd(c) == IF c.calls # << >> THEN work
                   ELSE [work EXCEPT !.iteration = work.iteration + 1,
                                     !.cost = work.cost + c.cost]

Charged(c) == [work EXCEPT !.iteration = work.iteration + 1, !.cost = work.cost + c.cost]

CallsTools(c) == /\ pc = "complete"
                 /\ c.calls # << >>
                 /\ work' = Charged(c)
                 /\ todo' = c.calls
                 /\ Silent
                 /\ UNCHANGED <<approved, attempt, results, value, consent>>
                 /\ Proceed("tool_call", {})

Answers(c) == /\ pc = "complete"
              /\ c.calls = << >>
              /\ c.valid \/ ~ config.contract
              /\ work' = Charged(c)
              /\ value' = c.draft
              /\ Silent
              /\ UNCHANGED <<approved, todo, attempt, results, consent>>
              /\ Proceed("response", {})

BreaksContract(c) == /\ pc = "complete"
                     /\ c.calls = << >>
                     /\ ~ c.valid /\ config.contract
                     /\ Silent
                     /\ UNCHANGED consent
                     /\ Fail(Charged(c))

ResponseContext == [principal |-> config.principal, draft |-> value]

(* The tokens the hook minted live no longer than the call: the run settles.  *)
ResponseHook ==
    LET decision == Decide("response", ResponseContext, NoPolicy, TRUE)
    IN  /\ pc = "response"
        /\ emitted' = DispatchRecords("response", decision)
        /\ UNCHANGED consent
        /\ \/ decision.outcome = "RAISE" /\ Raise
           \/ decision.outcome \in Blocking /\ Deny(work)
           \/ /\ decision.outcome \notin Blocking \cup {"RAISE"}
              /\ Return([work EXCEPT !.status = "completed"])

-----------------------------------------------------------------------------
(* The tool calls of a completion, in order, each with its attempts.          *)

Call == Head(todo)
Known == Call.tool \in DOMAIN config.tools
Tool == config.tools[Call.tool]

ToolContext == [tool |-> Call.tool, source |-> Tool.source, operation |-> Tool.operation,
                principal |-> config.principal]

AttemptContext == [tool |-> Call.tool, source |-> Tool.source, operation |-> Tool.operation,
                   principal |-> config.principal, args |-> Call.args, attempt |-> attempt]

(* config.tools[call.name] raises KeyError for a name that is not declared.   *)
UnknownTool == /\ pc = "tool_call"
               /\ ~ Known
               /\ Silent
               /\ UNCHANGED consent
               /\ Raise

(* Mutant: the decisions on a retried attempt are not recorded. *)
ToolCallHookOnce ==
    LET decision == Decide("tool_call", AttemptContext, NoPolicy, TRUE)
    IN  /\ pc = "tool_call"
        /\ Known
        /\ emitted' = IF attempt = 0 THEN DispatchRecords("tool_call", decision) ELSE << >>
        /\ UNCHANGED consent
        /\ \/ /\ \/ decision.outcome = "RAISE"
                 \/ decision.outcome = "DENY" /\ decision.applied = {}
              /\ Raise
           \/ /\ decision.outcome \in Blocking
              /\ decision.applied # {}
              /\ Deny(work)
           \/ /\ decision.outcome \notin Blocking \cup {"RAISE"}
              /\ \E minted \in Mintable("tool_call", decision) : Proceed("execute", minted)
              /\ UNCHANGED <<work, locals>>

(* policies[-1] raises IndexError when the posture denied and nothing applied.*)
ToolCallHook ==
    LET decision == Decide("tool_call", AttemptContext, NoPolicy, TRUE)
    IN  /\ pc = "tool_call"
        /\ Known
        /\ emitted' = DispatchRecords("tool_call", decision)
        /\ UNCHANGED consent
        /\ \/ /\ \/ decision.outcome = "RAISE"
                 \/ decision.outcome = "DENY" /\ decision.applied = {}
              /\ Raise
           \/ /\ decision.outcome \in Blocking
              /\ decision.applied # {}
              /\ Deny(work)
           \/ /\ decision.outcome \notin Blocking \cup {"RAISE"}
              /\ \E minted \in Mintable("tool_call", decision) : Proceed("execute", minted)
              /\ UNCHANGED <<work, locals>>

Succeeds(v) == /\ pc = "execute"
               /\ value' = v
               /\ Silent
               /\ UNCHANGED <<work, approved, todo, attempt, results, consent>>
               /\ Proceed("tool_result", {})

(* A transport failure with attempts left goes back through the hook.         *)
(* Mutant: a retry is covered by the decision on the first attempt. *)
RetriesUnchecked == /\ pc = "execute"
                    /\ attempt < Tool.retries
                    /\ attempt' = attempt + 1
                    /\ Silent
                    /\ UNCHANGED <<work, approved, todo, results, value, consent>>
                    /\ Proceed("execute", {})

Retries == /\ pc = "execute"
           /\ attempt < Tool.retries
           /\ attempt' = attempt + 1
           /\ Silent
           /\ UNCHANGED <<work, approved, todo, results, value, consent>>
           /\ Proceed("tool_call", {})

(* The result joins the list, its operation's classes join the run; after the *)
(* last call the results become the tool message and the call returns.        *)
AdmitWith(classes, minted) ==
    LET admitted == [work EXCEPT !.classes = classes]
    IN  IF Len(todo) > 1
        THEN /\ work' = admitted
             /\ results' = results \cup {Call.tool}
             /\ todo' = Tail(todo)
             /\ attempt' = 0
             /\ value' = NoValue
             /\ UNCHANGED approved
             /\ Proceed("tool_call", minted)
        ELSE Leave([admitted EXCEPT !.tools = work.tools \cup results \cup {Call.tool}],
                   minted)

(* Mutant: the run keeps the classes of its last result only. *)
AdmitReplacing(minted) == AdmitWith(Tool.classes, minted)

Admit(minted) == AdmitWith(work.classes \cup Tool.classes, minted)

(* The last attempt failed: an error result, without the tool_result hook.    *)
GivesUp == /\ pc = "execute"
           /\ attempt = Tool.retries
           /\ Silent
           /\ UNCHANGED consent
           /\ Admit({})

(* A transform error fails the RunState the call was given, not work.         *)
ToolResultHook ==
    LET ctx == [result |-> value] @@ ToolContext
        decision == Decide("tool_result", ctx, NoPolicy, IsObject(value))
    IN  /\ pc = "tool_result"
        /\ emitted' = DispatchRecords("tool_result", decision)
        /\ UNCHANGED consent
        /\ \/ decision.outcome = "RAISE" /\ Raise
           \/ decision.outcome = "TRANSFORM_ERROR" /\ Fail(state)
           \/ decision.outcome \in Blocking /\ Deny(work)
           \/ /\ decision.outcome \in {"TRANSFORM", "NOT_APPLICABLE"}
              /\ \E minted \in Mintable("tool_result", decision) : Admit(minted)

-----------------------------------------------------------------------------
(* What happens around the run.                                               *)

(* A file of the closure is edited, or the edit is undone, at any moment.     *)
EditFiles == /\ drifted' = ~ drifted
             /\ Silent
             /\ UNCHANGED <<config, state, pc, work, locals, vault, consent, recoveries>>

Again == IF state.status = "unstarted" THEN "new" ELSE "idle"

(* After an exception the application may call again with what it holds.      *)
Retry == /\ pc = "raised"
         /\ recoveries < MaxRecoveries
         /\ recoveries' = recoveries + 1
         /\ pc' = Again
         /\ Silent
         /\ UNCHANGED <<config, state, work, locals, vault, drifted, consent>>

(* The process dies, anywhere in a call or between calls; a new Loop with an  *)
(* empty vault goes on from the last RunState returned.                       *)
Restart == /\ recoveries < MaxRecoveries
           /\ recoveries' = recoveries + 1
           /\ pc' = Again
           /\ work' = state
           /\ vault' = {}
           /\ LeaveCall
           /\ consent' = NoPolicy
           /\ Silent
           /\ UNCHANGED <<config, state, drifted>>

(* Nobody calls again after an exception: the run stays where it was left.    *)
Abandoned == /\ pc = "raised"
             /\ recoveries = MaxRecoveries
             /\ Silent
             /\ UNCHANGED <<config, state, pc, work, locals, vault, drifted, consent, recoveries>>

-----------------------------------------------------------------------------
Init == /\ config \in Configs
        /\ state = Unstarted
        /\ pc = "new"
        /\ work = Unstarted
        /\ approved = NoPolicy
        /\ todo = << >>
        /\ attempt = 0
        /\ results = {}
        /\ value = NoValue
        /\ vault = {}
        /\ drifted = FALSE
        /\ emitted = << >>
        /\ consent = NoPolicy
        /\ recoveries = 0

(* One run of the code: the caller's next call and the steps inside a call.   *)
Machine ==
    \/ Start \/ Settled \/ Drifted \/ Continue \/ Returned
    \/ Exceed \/ LoopHook \/ ExceedReserve \/ ModelHook
    \/ \E c \in Completions : CallsTools(c) \/ Answers(c) \/ BreaksContract(c)
    \/ ResponseHook
    \/ UnknownTool \/ ToolCallHook
    \/ \E v \in ToolValues : Succeeds(v)
    \/ Retries \/ GivesUp \/ ToolResultHook

Environment ==
    \/ \E yes \in BOOLEAN : Answer(yes)
    \/ ProviderRaises \/ EditFiles \/ Retry \/ Restart \/ Abandoned

Next == Machine \/ Environment

Spec == Init /\ [][Next]_vars

-----------------------------------------------------------------------------
PolicyNames == {config.policies[i].name : i \in DOMAIN config.policies}
Pendings == {[policy |-> config.policies[i].name, approvers |-> config.policies[i].approvers] :
                i \in DOMAIN config.policies}

RunStates ==
    [status : Live \cup Terminal \cup {"unstarted"}, pending : Pendings \cup {NoPending},
     iteration : Nat, cost : Nat, tools : SUBSET DOMAIN config.tools,
     classes : SUBSET UNION {config.tools[t].classes : t \in DOMAIN config.tools},
     auditSeq : {0, 1}]

Calls == UNION {Range(c.calls) : c \in Completions}

(* Both RunStates and the call's locals stay in their ranges.                 *)
TypeOK ==
    /\ config \in Configs
    /\ state \in RunStates /\ work \in RunStates
    /\ pc \in {"new", "idle", "ceilings", "reserve", "complete", "response",
               "tool_call", "execute", "tool_result", "returning", "raised"}
    /\ approved \in PolicyNames \cup {NoPolicy}
    /\ consent \in PolicyNames \cup {NoPolicy}
    /\ todo \in Seq(Calls)
    /\ attempt \in Nat
    /\ results \subseteq DOMAIN config.tools
    /\ vault \subseteq Origins
    /\ drifted \in BOOLEAN
    /\ recoveries \in 0..MaxRecoveries

(***************************************************************************)
(* The vault of a settled run is empty, on every way a run settles and      *)
(* whatever raised, was retried or restarted before ("purged when the run   *)
(* reaches a terminal state").                                              *)
(***************************************************************************)
SettledIsPurged == state.status \in Terminal => vault = {}

(***************************************************************************)
(* When the provider is about to be called every ceiling has room, and each *)
(* model_call policy that applies holds for the classes of everything in    *)
(* the transcript, waives its rule, or was approved in this very call by an *)
(* authorized principal.                                                    *)
(***************************************************************************)
CallIsCleared ==
    pc = "complete" =>
        /\ ~ OverIterations /\ ~ OverCost /\ ~ OverReserve
        /\ \A i \in DOMAIN config.policies :
              LET p == config.policies[i]
              IN  Applies(p, "model_call", ModelContext) =>
                    \/ Allows(p, ModelContext)
                    \/ /\ Refuses(p, ModelContext)
                       /\ \/ p.otherwise = "ALLOW"
                          \/ p.otherwise = "REQUIRE_APPROVAL" /\ p.name = consent

(***************************************************************************)
(* Each attempt of a tool is cleared by the tool_call policies as they are  *)
(* for that attempt, no approval standing in for them, so a retry is never  *)
(* covered by the decision on an earlier attempt.                           *)
(***************************************************************************)
ExecutionIsCleared ==
    pc = "execute" =>
        /\ attempt <= Tool.retries
        /\ \A i \in DOMAIN config.policies :
              LET p == config.policies[i]
              IN  Applies(p, "tool_call", AttemptContext) =>
                    \/ Allows(p, AttemptContext)
                    \/ Refuses(p, AttemptContext) /\ p.otherwise = "ALLOW"

(***************************************************************************)
(* Whatever a tool put into the transcript, an error included, has its      *)
(* operation's classes in the run: the ceiling a model_call policy sees is   *)
(* never below the data the provider is sent.                                *)
(***************************************************************************)
TranscriptIsClassified ==
    /\ \A t \in state.tools : config.tools[t].classes \subseteq state.classes
    /\ \A t \in work.tools \cup results : config.tools[t].classes \subseteq work.classes

(***************************************************************************)
(* No call, failed ones and retries included, takes back a class, a turn, a *)
(* cost or a result that an earlier call returned to the caller.            *)
(***************************************************************************)
CallsOnlyAdd == [][/\ state.classes \subseteq state'.classes
                   /\ state.tools \subseteq state'.tools
                   /\ state.iteration <= state'.iteration
                   /\ state.cost <= state'.cost]_vars

(***************************************************************************)
(* A run overshoots its cost ceiling by less than one completion: the       *)
(* reserve leaves room for the output of the last one.                      *)
(***************************************************************************)
BudgetHolds ==
    state.cost > 0 /\ config.maxCost # 0 =>
        \E c \in Completions : state.cost <= config.maxCost - config.reserved + c.cost

(* What the caller sees of a run follows RunLifecycle.                        *)
Lifecycle == INSTANCE RunLifecycle
                WITH limit <- config.maxIterations, status <- state.status,
                     turns <- state.iteration, waiting <- state.pending.policy,
                     NoOne <- NoPolicy
FollowsLifecycle == Lifecycle!Spec

(***************************************************************************)
(* The caller calls again while the run is live, the code inside a call     *)
(* runs on, and a provider or source that never answers times out.  Nothing *)
(* makes a user answer, retry or edit files.                                *)
(***************************************************************************)
FairSpec == Spec /\ WF_vars(Machine)

(* Every run settles, unless users keep it waiting or nobody retries.         *)
SettlesUnlessHeld == \/ <>[](state.status \in Terminal)
                     \/ []<>(state.status = "suspended" /\ pc = "idle")
                     \/ <>[](pc = "raised")
=============================================================================
