------------------------------ MODULE TokenVault ------------------------------
(***************************************************************************)
(* The token vault of one Loop and the values that flow through it: what    *)
(* each run's caller, its tools and the provider get to see.  AgentLoop      *)
(* models how a run proceeds; here a call is reduced to the places where a   *)
(* value is transformed, restored or handed out, and several runs share the  *)
(* vault.  Loop is synchronous, so at most one run is inside a call.         *)
(*                                                                         *)
(* A payload is its one declared field.  A token is a number, the place of   *)
(* its record in the history ledger; data are model values.  The provider    *)
(* and the sources are one party each for all runs and use whatever they     *)
(* have seen.                                                               *)
(***************************************************************************)
EXTENDS Naturals, FiniteSets, SequencesExt

CONSTANTS
    Runs,
    UserData,       \* what callers know by themselves
    ToolData,       \* what only the sources know
    Absent,         \* the content of a message that has none
    Redacted,       \* REDACTION_MARKER
    Configs,        \* [kinds : hook -> kind of transform, detokenize : BOOLEAN,
                    \*  room : run -> bound on its transcript, 0 for a run that is not started]
    MaxMishaps      \* bound on exceptions and restarts

Data == UserData \cup ToolData
Hooks == {"request", "model_call", "tool_call", "tool_result", "response"}
Kinds == {"none", "redact", "tokenize"}
Origins == {"request", "tool_result"}

(* Data, tokens and markers are distinct strings.                             *)
ASSUME DataAssumption ==
    /\ UserData \cap ToolData = {}
    /\ (Data \cup {Absent, Redacted}) \cap Nat = {}
    /\ {Absent, Redacted} \cap Data = {}
    /\ Absent # Redacted

ASSUME ConfigsAssumption == 
    Configs \subseteq [kinds : [Hooks -> Kinds], detokenize : BOOLEAN, room : [Runs -> Nat]]

VARIABLES
    config,       \* the transforms of the agent and its tool, fixed
    records,      \* run -> token -> TokenRecord
    tokens,       \* run -> <<plaintext, origin>> -> token (_plain_tokens)
    ledger,       \* history: every token ever minted, [run, plaintext, origin]
    place,        \* run -> where it is
    transcript,   \* run -> messages of its RunState, [role, content, data]
    copy,         \* run -> the transformed messages of the running call
    value,        \* run -> the argument or draft the provider answered with
    provider,     \* values the provider has been sent
    tool,         \* run -> values its tool was executed with
    caller,       \* run -> values its caller was given
    quoted,       \* history: values an error of a source quoted
    mishaps,      \* exceptions and restarts so far
    lost          \* history: a restart has lost the vault

vault == <<records, tokens, ledger>>
parties == <<provider, tool, caller, quoted>>
trouble == <<mishaps, lost>>
vars == <<config, vault, place, transcript, copy, value, parties, trouble>>

Nothing == [x \in {} |-> 0]
Values == Data \cup {Absent, Redacted} \cup Nat
Places == {"new", "idle", "calling", "called", "executing", "drafted", "responding",
           "settled"}
InCall == Places \ {"new", "idle", "settled"}

-----------------------------------------------------------------------------
(* InMemoryTokenVault, transform and detokenize on one field.                 *)

(* Mutant: the plaintext alone is the key. *)
KeyOfPlaintext(plaintext, origin) == <<plaintext, "request">>

Key(plaintext, origin) == <<plaintext, origin>>

Fresh == Len(ledger) + 1

(* Mutant: tokens are wrapped like any other value. *)
WrapsAll(kind, r, v) == kind = "tokenize"

(* A live token of the run stays as it is.                                    *)
Wraps(kind, r, v) == kind = "tokenize" /\ v \notin DOMAIN records[r]

Holding(map, key, entry) ==
    [k \in DOMAIN map \cup {key} |-> IF k = key THEN entry ELSE map[k]]

Put(r, v, origin) ==
    IF Key(v, origin) \in DOMAIN tokens[r] THEN UNCHANGED vault
    ELSE /\ records' = [records EXCEPT ![r] =
                           Holding(@, Fresh, [plaintext |-> v, origin |-> origin])]
         /\ tokens' = [tokens EXCEPT ![r] = Holding(@, Key(v, origin), Fresh)]
         /\ ledger' = Append(ledger, [run |-> r, plaintext |-> v, origin |-> origin])

Handle(r, v, origin) ==
    IF Key(v, origin) \in DOMAIN tokens[r] THEN tokens[r][Key(v, origin)] ELSE Fresh

(* What a transform of the hook makes of the value, and what it does to the vault. *)
Shown(hook, r, v, origin) ==
    LET kind == config.kinds[hook]
    IN  IF kind = "redact" THEN Redacted
        ELSE IF Wraps(kind, r, v) THEN Handle(r, v, origin) ELSE v

Transform(hook, r, v, origin) ==
    IF Wraps(config.kinds[hook], r, v) THEN Put(r, v, origin) ELSE UNCHANGED vault

(* Mutant: any token is restored to the caller. *)
RestorableToAnyone(record, toCaller) == TRUE

Restorable(record, toCaller) == ~ toCaller \/ record.origin = "request"

(* detokenize on the vault as the transform left it.                          *)
Restored(r, v, toCaller) ==
    IF v \in DOMAIN records'[r] /\ Restorable(records'[r][v], toCaller)
    THEN records'[r][v].plaintext ELSE v

-----------------------------------------------------------------------------
Init == /\ config \in Configs
        /\ records = [r \in Runs |-> Nothing]
        /\ tokens = [r \in Runs |-> Nothing]
        /\ ledger = << >>
        /\ place = [r \in Runs |-> "new"]
        /\ transcript = [r \in Runs |-> << >>]
        /\ copy = [r \in Runs |-> << >>]
        /\ value = [r \in Runs |-> Absent]
        /\ provider = {}
        /\ tool = [r \in Runs |-> {}]
        /\ caller = [r \in Runs |-> {}]
        /\ quoted = {}
        /\ mishaps = 0
        /\ lost = FALSE

NobodyInCall == \A r \in Runs : place[r] \notin InCall

Message(role, content, data) == [role |-> role, content |-> content, data |-> data]

(* Loop.start: the input is the caller's own, or anything a caller was given. *)
Start(r, v) ==
    /\ place[r] = "new" /\ NobodyInCall
    /\ config.room[r] > 0
    /\ Transform("request", r, v, "request")
    /\ transcript' = [transcript EXCEPT ![r] =
                         <<Message("user", Shown("request", r, v, "request"), Absent)>>]
    /\ place' = [place EXCEPT ![r] = "idle"]
    /\ UNCHANGED <<config, copy, value, parties, trouble>>

(* Loop.step begins its copy of the transcript.                               *)
Step(r) ==
    /\ place[r] = "idle" /\ NobodyInCall
    /\ place' = [place EXCEPT ![r] = "calling"]
    /\ UNCHANGED <<config, vault, transcript, copy, value, parties, trouble>>

OriginOf(message) == IF message.role = "user" THEN "request" ELSE "tool_result"

(* The model_call transform of the next message's content.                    *)
Prepare(r) ==
    /\ place[r] = "calling" /\ Len(copy[r]) < Len(transcript[r])
    /\ LET m == transcript[r][Len(copy[r]) + 1]
       IN  /\ Transform("model_call", r, m.content, OriginOf(m))
           /\ copy' = [copy EXCEPT ![r] = Append(@,
                          [m EXCEPT !.content = Shown("model_call", r, m.content, OriginOf(m))])]
    /\ UNCHANGED <<config, place, transcript, value, parties, trouble>>

Sent(r) == {m.content : m \in Range(copy[r])} \cup {m.data : m \in Range(copy[r])}

(* The provider sees the copy and answers with a value it has seen: a tool    *)
(* call's argument or a draft.                                                *)
Complete(r, v, where) ==
    /\ place[r] = "calling" /\ Len(copy[r]) = Len(transcript[r])
    /\ provider' = provider \cup Sent(r)
    /\ v \in provider' \ {Absent}
    /\ where = "called" => Len(transcript[r]) + 2 <= config.room[r]
    /\ place' = [place EXCEPT ![r] = where]
    /\ value' = [value EXCEPT ![r] = v]
    /\ UNCHANGED <<config, vault, transcript, copy, tool, caller, quoted, trouble>>

(* Mutant: the tool's list of fields to detokenize is not looked at. *)
GivenPlaintext(r, v) == Restored(r, v, FALSE)

Given(r, v) == IF config.detokenize THEN Restored(r, v, FALSE) ELSE v

(* The tool_call transform, detokenize for the tool, and the execution.       *)
Execute(r) ==
    /\ place[r] = "called"
    /\ Transform("tool_call", r, value[r], "tool_result")
    /\ tool' = [tool EXCEPT ![r] =
                   @ \cup {Given(r, Shown("tool_call", r, value[r], "tool_result"))}]
    /\ place' = [place EXCEPT ![r] = "executing"]
    /\ UNCHANGED <<config, transcript, copy, value, provider, caller, quoted, trouble>>

(* A source failure with attempts left: the same argument again.              *)
Retry(r) ==
    /\ place[r] = "executing"
    /\ place' = [place EXCEPT ![r] = "called"]
    /\ UNCHANGED <<config, vault, transcript, copy, value, parties, trouble>>

Admit(r, content) ==
    /\ transcript' = [transcript EXCEPT ![r] =
                         @ \o <<Message("assistant", Absent, value[r]),
                                Message("tool", Absent, content)>>]
    /\ place' = [place EXCEPT ![r] = "idle"]
    /\ copy' = [copy EXCEPT ![r] = << >>]
    /\ value' = [value EXCEPT ![r] = Absent]
    /\ UNCHANGED <<config, provider, tool, caller, trouble>>

Known == ToolData \cup UNION {tool[r] : r \in Runs}

(* Mutant: the result enters the transcript as the source returned it. *)
ResultUnchecked(r, v) ==
    /\ place[r] = "executing"
    /\ Transform("tool_result", r, v, "tool_result")
    /\ Admit(r, v)
    /\ UNCHANGED quoted

Result(r, v) ==
    /\ place[r] = "executing"
    /\ Transform("tool_result", r, v, "tool_result")
    /\ Admit(r, Shown("tool_result", r, v, "tool_result"))
    /\ UNCHANGED quoted

(* The last attempt failed: the text of the exception, which may quote what   *)
(* the source was given, is the result, without the tool_result hook.         *)
GiveUp(r, v) ==
    /\ place[r] = "executing"
    /\ Admit(r, v)
    /\ quoted' = quoted \cup {v}
    /\ UNCHANGED vault

Purge(r) == /\ records' = [records EXCEPT ![r] = Nothing]
            /\ tokens' = [tokens EXCEPT ![r] = Nothing]
            /\ UNCHANGED ledger

Settle(r) == /\ Purge(r)
             /\ place' = [place EXCEPT ![r] = "settled"]
             /\ copy' = [copy EXCEPT ![r] = << >>]
             /\ value' = [value EXCEPT ![r] = Absent]
             /\ UNCHANGED <<config, transcript, provider, tool, quoted, trouble>>

(* The response hook transforms the draft; the run is not settled yet.        *)
Draft(r) ==
    /\ place[r] = "drafted"
    /\ Transform("response", r, value[r], "tool_result")
    /\ value' = [value EXCEPT ![r] = Shown("response", r, value[r], "tool_result")]
    /\ place' = [place EXCEPT ![r] = "responding"]
    /\ UNCHANGED <<config, transcript, copy, parties, trouble>>

(* Mutant: the vault is purged before the response is restored. *)
ReleasedAfterPurge(r) == value[r]

Released(r) ==
    IF value[r] \in DOMAIN records[r] /\ Restorable(records[r][value[r]], TRUE)
    THEN records[r][value[r]].plaintext ELSE value[r]

(* The response is restored for the caller, then the run is purged.           *)
Respond(r) ==
    /\ place[r] = "responding"
    /\ caller' = [caller EXCEPT ![r] = @ \cup {Released(r)}]
    /\ Settle(r)

(* A policy, a ceiling or the output contract settles the run inside a call.  *)
Stop(r) ==
    /\ place[r] \in InCall
    /\ place[r] # "responding"
    /\ place[r] = "calling" => copy[r] = << >>
    /\ Settle(r)
    /\ UNCHANGED caller

(* The call raises: its locals are gone, what it minted stays in the vault.   *)
Raise(r) ==
    /\ mishaps < MaxMishaps
    /\ mishaps' = mishaps + 1
    /\ place[r] \in InCall
    /\ place[r] = "calling" => Len(copy[r]) = Len(transcript[r])
    /\ place' = [place EXCEPT ![r] = "idle"]
    /\ copy' = [copy EXCEPT ![r] = << >>]
    /\ value' = [value EXCEPT ![r] = Absent]
    /\ UNCHANGED <<config, vault, transcript, parties, lost>>

(* The process dies; the RunStates go on in a Loop with an empty vault.  To    *)
(* die inside a call is to raise and then to die.                             *)
Restart ==
    /\ mishaps < MaxMishaps
    /\ mishaps' = mishaps + 1
    /\ lost' = TRUE
    /\ NobodyInCall
    /\ records' = [r \in Runs |-> Nothing]
    /\ tokens' = [r \in Runs |-> Nothing]
    /\ UNCHANGED <<config, ledger, place, transcript, copy, value, parties>>

AllSettled == /\ \A r \in Runs : place[r] = "settled" \/ config.room[r] = 0
              /\ UNCHANGED vars

Next ==
    \/ \E r \in Runs :
        \/ \E v \in UserData \cup UNION {caller[q] : q \in Runs} : Start(r, v)
        \/ Step(r) \/ Prepare(r)
        \/ \E v \in provider \cup Sent(r), where \in {"called", "drafted"} : Complete(r, v, where)
        \/ Execute(r) \/ Retry(r)
        \/ \E v \in Known : Result(r, v) \/ GiveUp(r, v)
        \/ Draft(r) \/ Respond(r) \/ Stop(r) \/ Raise(r)
    \/ Restart
    \/ AllSettled

Spec == Init /\ [][Next]_vars

-----------------------------------------------------------------------------
(***************************************************************************)
(* "Tokens are stable within a run and meaningless across runs": the two    *)
(* maps of the vault are inverse to each other, a token is held by the run   *)
(* it was minted for and by no other, and stands for what it was minted for. *)
(***************************************************************************)
TokensStandForOneValue ==
    \A r \in Runs :
        /\ \A t \in DOMAIN records[r] :
              LET record == records[r][t]
              IN  /\ ledger[t] = [run |-> r, plaintext |-> record.plaintext,
                                  origin |-> record.origin]
                  /\ <<record.plaintext, record.origin>> \in DOMAIN tokens[r]
                  /\ tokens[r][<<record.plaintext, record.origin>>] = t
        /\ \A key \in DOMAIN tokens[r] : tokens[r][key] \in DOMAIN records[r]

(***************************************************************************)
(* No token stands for another token of its run, however often a value      *)
(* passes through the hooks: the wrapped one's origin would be hidden.       *)
(***************************************************************************)
NoTokenOfAToken ==
    \A r \in Runs : \A t \in DOMAIN records[r] : records[r][t].plaintext \notin DOMAIN records[r]

Hides(hook) == config.kinds[hook] # "none"
EntryIsHidden == (Hides("request") \/ Hides("model_call")) /\ Hides("tool_result")

(***************************************************************************)
(* With a transform on what users and on what tools put in, the provider is *)
(* never sent a datum in plaintext, in no run, after no exception, restart  *)
(* or detokenizing tool that echoes it; except one that the text of a       *)
(* source's error quoted.                                                   *)
(***************************************************************************)
ProviderSeesNoData == EntryIsHidden => provider \cap Data \subseteq quoted

(* The same for the sources, when no tool has a field to detokenize: users'   *)
(* data do not reach them through a token.                                    *)
ToolsSeeDeclaredFieldsOnly ==
    EntryIsHidden /\ ~ config.detokenize =>
        \A r \in Runs : tool[r] \cap UserData \subseteq quoted

(***************************************************************************)
(* A value tokenized out of a tool result is never restored to a caller: no *)
(* caller of any run learns what only the sources know, whatever token the   *)
(* model drafts or a caller carries from one run into another.               *)
(***************************************************************************)
CallersLearnNoToolData ==
    Hides("tool_result") => \A r \in Runs : caller[r] \cap ToolData \subseteq quoted

(***************************************************************************)
(* While the vault is not lost, a caller gets back what it sent and not the *)
(* token that stands for it, and a tool with a detokenize field gets         *)
(* plaintext and no token of its run.                                        *)
(***************************************************************************)
IsTokenOf(t, r) == t \in DOMAIN ledger /\ ledger[t].run = r

HandlesAreRestored ==
    ~ lost =>
        \A r \in Runs :
            /\ \A t \in caller[r] : IsTokenOf(t, r) => ledger[t].origin # "request"
            /\ config.detokenize => \A t \in tool[r] : ~ IsTokenOf(t, r)

(***************************************************************************)
(* docs/SPEC.md, "Transforms": what tokenize replaced is "never sent to a   *)
(* provider".  A tool that was given the plaintext and fails may quote it.   *)
(***************************************************************************)
TokenizedIsNeverSent == EntryIsHidden => provider \cap UserData = {}
=============================================================================
