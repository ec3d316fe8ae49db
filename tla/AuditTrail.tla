----------------------------- MODULE AuditTrail -----------------------------
(***************************************************************************)
(* The audit log of the run that AgentLoop models.  Every action of the run *)
(* appends the records it emits to the AuditLog of the Loop that runs it and *)
(* to the JSONL file, each record numbered and chained by AuditLog.append.   *)
(* A new Loop starts a new AuditLog on the same file.                        *)
(*                                                                         *)
(* A digest stands for the record it was made of (timestamps make records    *)
(* distinct), so prev is the place in the file of the record before, or 0    *)
(* for none.                                                                 *)
(***************************************************************************)
EXTENDS AgentLoop

CONSTANT MaxRecords      \* bound: no question is answered behind that many records

VARIABLES
    log,    \* AuditLog.records of the current Loop, as places in the file
    file    \* the records of the run in the file

trailVars == <<vars, log, file>>

LastOf(places) == IF places = << >> THEN 0 ELSE places[Len(places)]

(* Mutant: the chain restarts with every action's first record. *)
StampUnchained(record, k, places) ==
    [body |-> record, seq |-> Len(places) + k, prev |-> 0]

(* The k-th record appended to a log that holds the given places.             *)
Stamp(record, k, places) ==
    [body |-> record,
     seq  |-> Len(places) + k,
     prev |-> IF k = 1 THEN LastOf(places) ELSE Len(file) + k - 1]

Keep(records) ==
    /\ file' = file \o [k \in DOMAIN records |-> Stamp(records[k], k, log)]
    /\ log' = log \o [k \in DOMAIN records |-> Len(file) + k]

TrailInit == Init /\ log = << >> /\ file = << >>

(* The process may die while a hook writes its records; a run that start did  *)
(* not return is nobody's, and the next start is of another run.              *)
Torn == IF pc \in {"new", "idle", "raised"} THEN {0} ELSE 0 .. Len(emitted)

TrailRestart ==
    /\ Restart
    /\ log' = << >>
    /\ IF state.status = "unstarted" THEN file' = << >>
       ELSE \E n \in Torn : file' = SubSeq(file, 1, Len(file) - n)

(* Two policies that ask can keep a run going between them forever.           *)
Calm == \/ Len(file) < MaxRecords /\ \E yes \in BOOLEAN : Answer(yes)
        \/ ProviderRaises \/ EditFiles \/ Retry \/ Abandoned

TrailNext == \/ (Machine \/ Calm) /\ Keep(emitted')
             \/ TrailRestart

TrailSpec == TrailInit /\ [][TrailNext]_trailVars

-----------------------------------------------------------------------------
(* audit.verify on a sequence of places in the file.                          *)
Verify(places) ==
    \A k \in DOMAIN places :
        /\ file[places[k]].seq = k
        /\ file[places[k]].prev = IF k = 1 THEN 0 ELSE places[k - 1]

(***************************************************************************)
(* What one Loop wrote of the run verifies: numbers without a gap, each     *)
(* record chained to the one before, in every call and after exceptions.    *)
(***************************************************************************)
LoopLogVerifies == Verify(log)

(***************************************************************************)
(* A denied run's last record is the refusal: no step denies a run without  *)
(* saying so in the file, and nothing is recorded after it.                 *)
(***************************************************************************)
DenialIsTheLastWord ==
    state.status = "denied" =>
        /\ file # << >>
        /\ Last(file).body.kind \in {"decision", "approval"}
        /\ Last(file).body.verdict \in Blocking

(***************************************************************************)
(* The step that lets the provider be called, and the step that lets an     *)
(* attempt of a tool begin, itself writes a decision that does not block    *)
(* for each policy that applies to that very call.  What an earlier call,    *)
(* an earlier attempt or a call that raised has left in the file counts for  *)
(* nothing.                                                                 *)
(***************************************************************************)
DecidedNow(hook, ctx) ==
    \A i \in DOMAIN config.policies :
        Applies(config.policies[i], hook, ctx) =>
            \E k \in Len(file) + 1 .. Len(file') :
                /\ file'[k].body.kind = "decision"
                /\ file'[k].body.hook = hook
                /\ file'[k].body.policy = config.policies[i].name
                /\ file'[k].body.verdict \notin Blocking

ProviderCallBegins == pc # "complete" /\ pc' = "complete"
AttemptBegins == pc' = "execute" /\ <<pc, todo, attempt>>' # <<pc, todo, attempt>>

OutsideCallsAreRecorded ==
    [][/\ ProviderCallBegins => DecidedNow("model_call", ModelContext)
       /\ AttemptBegins => DecidedNow("tool_call", AttemptContext)]_trailVars

(***************************************************************************)
(* No datum is tokenized off the record: for each origin of the tokens in    *)
(* the vault, the log of the Loop that holds the vault has the transform     *)
(* record of a hook that wraps data of that origin, behind the TRANSFORM     *)
(* decision of its policy.  Exceptions throw the payload away and keep both  *)
(* the vault and the log; retries mint again; a new Loop has neither.        *)
(* The converse is not so: the trail also has transforms that were not made. *)
(***************************************************************************)
Logged(k) == file[log[k]].body

TokensAreAccountedFor ==
    \A origin \in vault :
        \E k \in DOMAIN log :
            /\ Logged(k).kind = "transform"
            /\ Logged(k).verdict = "tokenize"
            /\ origin \in HookOrigins(Logged(k).hook)
            /\ \E j \in 1 .. k - 1 :
                  Logged(j) = Record("decision", Logged(k).hook, Logged(k).policy, "TRANSFORM")

(***************************************************************************)
(* Every approval is for a policy that the file shows asking: the last of   *)
(* the policies evaluated when a model call ended in REQUIRE_APPROVAL (at    *)
(* the loop hook that verdict is recorded and nobody is asked).  And when    *)
(* the provider is called under an unmet rule that asks for approval, the   *)
(* last answer in the file allows that very policy and nothing was asked    *)
(* behind it: whatever was retried or lost, the file accounts for the call. *)
(***************************************************************************)
IsQuestion(k) == /\ file[k].body.kind = "decision"
                 /\ file[k].body.hook = "model_call"
                 /\ file[k].body.verdict = "REQUIRE_APPROVAL"
IsAnswer(k) == file[k].body.kind = "approval"

MustAsk(p) == /\ Applies(p, "model_call", ModelContext)
              /\ Refuses(p, ModelContext)
              /\ p.otherwise = "REQUIRE_APPROVAL"

ApprovalsAreAccountedFor ==
    /\ \A k \in DOMAIN file :
          IsAnswer(k) => \E j \in 1 .. k - 1 : /\ IsQuestion(j) /\ ~ IsQuestion(j + 1)
                                               /\ file[j].body.policy = file[k].body.policy
    /\ pc = "complete" =>
          \A i \in DOMAIN config.policies :
              MustAsk(config.policies[i]) =>
                  \E k \in DOMAIN file :
                      /\ IsAnswer(k)
                      /\ file[k].body.policy = config.policies[i].name
                      /\ file[k].body.verdict = "ALLOW"
                      /\ \A j \in k + 1 .. Len(file) : ~ IsQuestion(j) /\ ~ IsAnswer(j)
=============================================================================
