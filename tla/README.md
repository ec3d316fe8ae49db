# llmform, specified

TLA+ modules, TLC configurations and TLAPS proofs for llmform: a runtime that
executes agents declared in YAML, with policies (CEL rules) attached to six
hooks of every run, an audit trail, and a token vault that keeps data out of
the provider's sight. Paths below are relative to the repository; the package
is `src/llmform`.

Contents: [inventory](#inventory), [modules](#modules-and-the-code),
[runs](#the-runs), [findings](#where-the-code-and-its-documents-disagree),
[proofs](#what-is-proved), [limits](#what-is-only-model-checked-and-what-is-left-out),
[plan](#plan).

## Inventory

| component | state it keeps | operations | what makes it correct |
|---|---|---|---|
| policy engine `policy/engine.py` | none between calls; inside `dispatch` the lists applied, staged | match, evaluate, otherwise, stage, commit | the first policy that blocks decides; a blocked payload is untouched; commits follow the attached order |
| agent loop `runtime/__init__.py` | none of its own: an immutable `RunState` goes in and comes out; the locals of a call | `start`, `step`: ceilings, hooks, provider, tools with retries, approval, purge | no call outside without its hook; classes cover the transcript; ceilings hold; nothing returned is taken back; every run settles |
| transforms and vault `policy/transforms.py` | per run: token -> record, (plaintext, origin) -> token | put, resolve, purge, transform, detokenize | a token stands for one value in one run; tool data never reach a caller through a token; settled runs leave nothing |
| audit log `audit.py` | list of records, JSONL file | append, verify | numbers and chain hold; every call outside, denial, token and approval is accounted for |
| command line `cli.py` | none; files, child processes | init, lock, validate, `validate --locked`, run (start, step, prompt for approval), fmt | calls the loop until it settles; a child starts only on the word of `--trust-sources` and after its source was written down, and ends with its command |
| lock and closure `lock.py` | lockfile, emptied and then filled | build, write, read, diff | the closure of an agent is what its run depends on; a lock that is clean was written whole, for these files |
| references and graph `config/validate.py` | none | resolve, cycle search, topological order, reachability | every reference resolves, no cycle, dependencies before dependents |
| schema compiler `policy/cel/schema.py` | memo, set of attempted references, list of active ones | compile a document, its definitions, a `$ref` | a document that is not reported on is typed throughout |
| CEL `policy/cel/compiler.py`, `environment.py` | compiled programs | environment of a hook, type check, evaluate | a rule that was accepted finds its variables at run time |
| semantic checks `config/semantic.py` | none | tools against operations, match keys, verdicts, approvers, prices | what the loop cannot do is refused before it runs |
| loading `config/loader.py`, `discovery.py`, `schema.py`, `models.py` | the document merged so far, the owner of each entry | discover, read, merge, phases of validation | no resource is defined twice or lost, whatever the order of the files |
| interpolation `config/interpolation.py` | none | variables, environment, secrets, scrubbing | what a command goes on with is resolved and fits the schema |
| MCP source `sources/mcp.py` | a child process, a request number | initialize, list, call, close | an answer belongs to its request |
| HTTP source `sources/http.py`, `sources/__init__.py` | none | execute | a value that meets its schema, or an error |
| providers `providers/` | none | complete | one completion, or an error |
| rendering and I/O `diagnostics.py`, `config/format.py`, `config/online.py` | none | | |

How they interact. `cli.run`, or an application that embeds the package, builds
one `Loop` and calls `start`, then `step` until the run is settled. A call is
synchronous and single-threaded, yet it is where everything meets: it asks
`dispatch` at every hook (which calls the CEL evaluator and, when released, the
transforms, which write the vault), it calls the provider and the sources, and
it appends to the audit log. The evaluator, the provider, a source and a
transform may each raise; some exceptions become a failed run, others leave
`step` and the caller still holds the old `RunState`. The caller may then call
again, or die and have another `Loop` (empty vault, empty log, same file) go on
from the `RunState` it kept.

Before that, every command loads the project: files one at a time into one
document, which is interpolated and typed; `_check_project` then has references,
schemas, rules and semantics checked, each whatever the others report. `lock`,
`validate --locked` and, with MCP sources, `run` read the files of the closure once
more for their digests and write or compare the lock; `run` starts one child process
for each MCP source. Several commands may do so at once, while somebody edits, since
nothing locks anything.

What is hard about it, and hence what the properties are for (each is listed
under `hazards` in `PROJECT.json`, at its line):

- a policy late in the list blocks after earlier ones staged transforms;
- a granted approval replays the hook against a state that has moved on;
- retries, error results and unknown tools go around hooks that the good path
  passes;
- an exception after the provider was paid, a crash between two audit records, a
  restart with an empty vault;
- a token that passes a hook twice, is echoed by a tool, or is carried by a caller
  into another run that shares the vault;
- the ceilings' `>` and `>=`, and the reserve for one more completion;
- a run that neither settles nor waits;
- a schema reference that was attempted before and has no type is None without a
  report, right only because of what was reported the first time;
- files that are read again for their digests after the configuration was taken from
  them, and a lock that is emptied before it is filled, by several processes;
- a merge that passes over what is no mapping, and a schema that looks at a
  configuration before or after its interpolation;
- child processes that are started before the `try` which closes them, and answers
  that are matched to questions by their order;
- two lists of the variables of each hook, one for the type checker and one for the run, values
  that are converted to CEL's own only in part, and a `match` that is compared with fields before
  a run and with the context's strings in it;
- one branch of the type checker for all relations, and a schema whose type and
  required fields are taken from two places.

## Modules and the code

| module | what it is |
|---|---|
| `Hooks` | `dispatch` as a function: what a hook returns for a list of policies, a context, a granted approval and a posture |
| `HookContract` | abstract: what a caller of a hook may rely on (decide once, then commit staged transforms in order, or never touch the payload) |
| `PolicyEngine` | `dispatch` as the loop it is: scan policies, stage, commit; implements `HookContract` |
| `RunLifecycle` | abstract: what a caller sees of a run (begin, turn, suspend, deny, fail, never more turns than its ceiling) |
| `AgentLoop` | `Loop.start` and `Loop.step`, one action per hook, outside call and early return; implements `RunLifecycle` |
| `AuditTrail` | composes `AgentLoop` with `AuditLog.append`, the JSONL file, torn writes and restarts |
| `TokenVault` | the vault under several runs, with what provider, tools and callers have seen |
| `DependencyGraph` | the cycle search, the topological order and the reachable set of `config/validate.py`, one step of a walk at a time |
| `References` | composes the graph with `resolve_references`: references resolved or reported, edges, warnings |
| `SchemaCompiler` | `SchemaCompiler.compile` of one document: calls, memo, attempted and active references |
| `PolicyRules` | pure: rules and their types, the type checker, the environments of the hooks, the semantic checks, and the contexts and the evaluator of a run in the same terms |
| `OfflineChecks` | composes `References`, `SchemaCompiler` and `PolicyRules` as `_check_project` does, and lets a run of the accepted project dispatch |
| `Configuration` | pure: reading, merging, interpolation and the passes of the configuration schema |
| `McpSource` | a child process, the lines in its pipe, requests and answers; the server is the environment |
| `ProjectCommands` | composes `Configuration` and `McpSource` under the commands of `cli.py`, with the lock, edits and deaths |
| `Documented` | statements of the documents that the code does not satisfy |
| `MCPolicyEngine`, `MCAgentLoop`, `MCAuditTrail`, `MCTokenVault`, `MCOfflineChecks`, `MCProjectCommands`, `MCDocumented` | instances for TLC |
| `Hooks_proofs`, `PolicyEngine_proofs`, `AgentLoop_proofs`, `AuditTrail_proofs`, `TokenVault_proofs` | theorems and proofs about the module of the name |
| `StaticChecks_proofs` | theorems and proofs about `DependencyGraph`, `References`, `SchemaCompiler`, `PolicyRules` and `OfflineChecks` |
| `ProjectCommands_proofs` | theorems and proofs about `McpSource`, the merge of `Configuration`, and `ProjectCommands` |
| `Positions` | the least element of a set of positions, for the proofs |

**Hooks, PolicyEngine.** A policy is a record of its declared fields; `match` is a
function from keys to the value demanded, the transforms a sequence of kinds.
Rules stay uninterpreted: the constant `Evaluate(rule, ctx)` gives "true",
"false" or "error", for a CEL program that may raise. `PolicyEngine` has one
action for each way round the loop (pass over, stage, waive, block, raise), then
the posture, then one for each transform, where a payload that is no object raises.

**AgentLoop.** `state` is the `RunState` the caller holds and changes only when a
call returns; `work` is the copy the call builds; `pc` says where in the call we
are. Early returns, including those that go around later hooks, are each a
disjunct of the action for the code that makes them. The transcript is
abstracted to its number of completions, to the tools whose result or error is
in it, and to its classes; a payload to what the rules of the instance look at.
`Leave` does what every return of `_step` does and `Returned` what `_finish`
does after it (the purge); between the two the process may die. `Raise` is an
exception that leaves `step`; `Retry` calls again with the old `RunState`,
`Restart` does so in a new `Loop`. `EditFiles` changes a file of the closure, which
the next step's comparison notices.

**AuditTrail.** `emitted` holds the records an action of `AgentLoop` appends, in
their order; `AuditTrail` numbers and chains them. It has the transform records the code
writes, of every applied policy once the verdict is TRANSFORM, so the file may name a transform
that was never made. A digest stands for the record
it was made of, so `prev` is a place in the file. A crash inside a call keeps any
prefix of the records of the last hook.

**TokenVault.** A payload is the value of its one declared field; a token is the
place of its record in a history of all tokens minted. Provider and sources use
any value they have seen; a caller starts a run with its own data or with anything a
caller was ever given. A run is reduced to the places where values are
transformed, restored or handed out; which of them a policy stops is `AgentLoop`'s
subject, here any place may stop.

**DependencyGraph, References.** A node is the place of its address in lexical order,
so `sorted` takes the least. `active` is the call stack of the recursive `visit`: the
node of each call and the dependencies it has left. `cycle` and `topological_order`
share the actions `Skip`, `Enter` and `Leave`; only `cycle` looks at the active nodes. That
`topological_order` asks `cycle` again, with the same answer, is left out, and
`pending` is a set, since the order in which `reachable_from` pops decides nothing.
In `References` a field that holds a reference is abstracted to the kind it demands;
a name that is no address has the kind "none".

**SchemaCompiler.** A node of a document is its form (object, wrapper, scalar, untyped),
the references in it, in order, and whether it is reported for its keywords; of
nested nodes only the references are left, since nothing else of them reaches
another definition. `nodes` is the stack of the calls of `_compile_node`, each with the
references it has left. The ways out of `_compile_ref` are actions: `Misformed`,
`Cyclic`, `Remembered`, `Tried`, `Unresolved`, `Follow`. `lost` remembers the objects that
had to leave out a field.

**PolicyRules, OfflineChecks.** A rule is the list of the nodes of its syntax tree, operands in
front (`IsRule`): identifiers, fields, `has`, operators, calls, the conditional, literals of
values, lists and maps, and macros, which the checker refuses (LLMF413) as it does a rule of more
than `MaxNodes` nodes. A value is its type and whether it is cel-python's own (`Value`):
`Converted` is `runtime.cel`, which makes a `MapType` of a dict and leaves lists, strings, numbers
and bools the Python values they are, and `Implemented` says which operators raise on those. So
`Infer` (the checker) and `Eval` (`cel`, on cel-python) run on the same terms, both along the
list, and an evaluation gives a type or `Raised`. `lt` stands for every ordering; `in` has a name
of its own, since the checker types it as an ordering (`compiler.py:97`) and cel-python evaluates
it as membership. The types of schemas come in levels (`TypeLevels`), each over the ones before;
`Catalog` gives a schema's type, what it requires and whether its root is a `$ref`, behind which
`compile` does not look for what is required. `HookEnvironment` is `build_hook_environment`,
`LoopContext` what `Loop` and the policy engine hand over at that hook (one definition for each),
`Contexts` the tools for which `validate_policy_rules` compiles a policy. `stage` goes through
references, schemas, rules and semantics to accepted or refused; in an accepted project `Dispatch`
evaluates any rule in force, for any tool of the project, as the loop may.

**Configuration, ProjectCommands.** A file is a sequence of entries, since YAML lets a key
be repeated, an entry a sequence of resources, a field a plain value with its type
or one of the interpolations. `disk` and `lock` are shared; each process has
its place in the command, the files it has still to read, the document, and what
it recorded. `LoadFile` and `DigestFile` read one file each, so an edit may come
between any two of them; `OpenLock` empties the lock and `FillLock` fills it, and over
what another has filled meanwhile it may leave a mixture. `Launch`, `Initialized`,
`Execute` and `Executed` drive the channels; `Die` is the end of a process at any point.
`CloseAll` may stop at a child that does not end within its two seconds, and leave the rest.

**McpSource.** A channel is the child, the questions open, the lines not read yet and what the
last request came to. The server answers open questions in any order, writes stray
lines and exits. `stray` and `heard` count the stray lines written and read.

## The runs

| run | states | question |
|---|---|---|
| `policy_engine` | some thousands, seconds | does the loop of `dispatch` do what its contract says, on every list of up to three policies, approved or not, both postures, object payloads and others? |
| `agent_loop` | 11,318, under a minute | fifteen small projects: do gates, ceilings, classes, purge and life cycle hold, and does every run settle? |
| `audit_trail` | about 770,000, under a minute | does the file account for what the run did, over exceptions, torn writes and restarts? |
| `token_vault` | about 343,000, seconds | two runs on one vault: who can get to see what? |
| `offline_checks` | about 319,600, under two minutes | do the checks decide what they stand for, and does what they accept evaluate? |
| `commands` | about 499,000, under a minute | what do commands go on with that load, lock, verify and run a project at once? |
| six more | | each violates one statement of the documents, [below](#where-the-code-and-its-documents-disagree) |

**`policy_engine`** checks `NoCommitPastAStopper`, `FirstStopperDecides`,
`CommitsInAttachedOrder` and that the loop implements `HookContract`. Three policies
are enough for a blocker before, between and behind two that transform, and for
an approved policy followed by one that blocks. The run terminates by design,
hence `CHECK_DEADLOCK FALSE`.

**`agent_loop`** checks that the provider is called under every ceiling and past
every applicable policy save the one approved in this very call (`CallIsCleared`);
that each attempt of a tool passes the hook with its own number
(`ExecutionIsCleared`); that the classes cover the transcript, errors included
(`TranscriptIsClassified`); that the cost overshoots by less than the reserve allows
(`BudgetHolds`); that a settled run has no tokens (`SettledIsPurged`); that no call
takes back what an earlier one returned (`CallsOnlyAdd`); that the caller's view
implements `RunLifecycle` (`FollowsLifecycle`); and `SettlesUnlessHeld`. The projects:
one that asks for approval and tokenizes everywhere (with a caller who may and
one who may not approve), one with a denial at every hook for a part of what
happens there, one without policies under each posture and several cost
ceilings, one whose approver rule raises, and one broken rule per hook. Three turns,
two tools of which one may be retried, two calls in one completion, one retry
after an exception or one restart (`MaxRecoveries = 1`): enough for every action,
which a coverage run confirms, and for a turn before, at and past each ceiling.
`recoveries` is bounded because an exception returns the caller to a state it
had before; a second one starts from a state the first one already reaches, save
for the vault, whose contents are sets of origins.

**`audit_trail`** checks the chain of what one `Loop` wrote (`LoopLogVerifies`), that a denied
run's last record is its refusal (`DenialIsTheLastWord`), that the step that lets the provider or
an attempt of a tool begin writes every decision that applies to it itself, so that one written
for an earlier attempt or a call that raised does not count (`OutsideCallsAreRecorded`), that for
whatever the vault holds there is a transform on record behind its decision
(`TokensAreAccountedFor`) and that every approval answers a question and covers the call it
resumed (`ApprovalsAreAccountedFor`). The projects are some of those of `agent_loop` and one in
which a tool whose arguments are tokenized is retried (`Retried`). The project that asks does so
at the loop hook too, where the verdict is recorded and nobody is asked: a question is a record of
the model_call hook. Two turns, two recoveries; questions are answered only while the file is
shorter than `MaxRecords = 12`, since two policies that ask can hand the run to each other without
end.

**`token_vault`** checks that vault maps are inverse and tokens stay in their run
(`TokensStandForOneValue`), that no token stands for a token (`NoTokenOfAToken`), what
the provider, the tools and the callers can learn (`ProviderSeesNoData`,
`ToolsSeeDeclaredFieldsOnly`, `CallersLearnNoToolData`), that a caller gets its own
data back (`HandlesAreRestored`). That a settled run has no tokens left is
`SettledIsPurged` of the loop. One datum of users and one of sources in two runs, since
each property relates one value to its origin and its run; a run with one tool
call beside one without, and a single run with two tool calls, in which a token
can go out, come back and be handed out again. `MaxMishaps = 2` exceptions or
restarts.

**`offline_checks`** starts from families that each vary what one check looks at; the
families of the later checks start where the earlier ones are done with a project
of one agent, since stages share nothing but what they report.

- Graphs: every one of up to three nodes (self-loops, nodes that are not in the mapping)
  and every one of four with at most two dependencies each; projects with references of each kind
  that resolve, dangle, are of the wrong kind or are no address. A reported cycle is one
  (`CycleIsReal`), without one the order has every node once and behind its
  dependencies (`OrderIsTopological`), the reachable set is the least closed one
  (`ReachableIsExact`), a project never has a cycle and, without errors, has each
  reference's target in front (`ProjectsAreOrdered`), a policy is reported as not attached
  iff the walk does not reach it (`UnusedIsUnreachable`), and the walks end
  (`WalksEnd`). Four nodes have diamonds, two cycles with a common node and a cycle
  behind a path that is not on it.
- Schema documents of two and three definitions with every pattern of references among them,
  cyclic, missing, misformed, and nodes without a type: a document is reported on iff it
  breaks the profile, and otherwise typed throughout (`SchemasAreDecided`). Three definitions have
  a circle off the path and a definition that is attempted twice.
- Rules: at each hook every operator over paths that the hook has, lacks or types otherwise, and
  over literals (of lists and maps too), with indices, macros, a selection of nestings, and rules
  at and past the bound on their size (`MaxNodes = 11`). The family has rules of the documents
  too, among them SPEC.md 3.1's on `data.classes`. What was compiled without a finding and keeps
  to what `cel` converts (`KeepsToCel`: what `!`, `?:`, `&&`, `||` and `contains` ask to be
  cel-python's own was made by an operator, keys are literals, no `in`) evaluates to a bool in its
  environment (`AcceptedRulesEvaluate`): the checker against the evaluator. Without the condition
  it is `CompiledRulesEvaluate`, which is violated.
- Matches on two tools of two sources, listed by the agent or not: every rule that a run
  evaluates for a listed tool was compiled (`DispatchesWereCompiled`).
- Tools: inputs against the parameters of an operation, outputs against what it returns, and the
  remaining settings (`ToolsAreDecided`, against a definition by values and arguments in a
  small world of numbers and strings), with inputs whose root is a `$ref`.
- The verdict: what all stages together accept is ordered, keeps to the profile, and its tools
  fit their operations (`AcceptedProjectsAreSound`); the findings of one stage alone
  would not do.

The checks end, hence `CHECK_DEADLOCK FALSE`.

**`commands`** has two families. In one, a single `validate` meets every pair of small files (two
entries in the first, one in the second, among them a repeated key, an anchor that refers to
itself, a block that is no block, defaults and overrides of each type, unresolved and partial
interpolations) under four settings of `--var`. In the other, two or three of `lock`, `run`,
`validate --locked` and `init` share a project, with one or two edits (`MaxEdits = 2`) of any file
at any moment, and a run with two MCP sources meets a server that writes a stray line (`MaxAsked =
3` requests, `MaxStray = 1`). What a command goes on with is what was declared
(`ConfigIsDeclared`). `validate --locked` is clean only of a closure some command wrote whole, and
without edits in between only of these files (`DriftIsNoticed`): two edits are one before and one
during a command, two writers are enough to tear a lock. A child starts only when trusted and
recorded and outlives its command only after a death, a failed launch or a
close that timed out (`ChildrenAreAccountedFor`): the second source is there for that. A source is behind by the stray
lines it took for answers (`AnswersFollowNoise`): three requests are the first, the one that hears
the stray line and the one that hears its predecessor's answer. Commands end, hence
`CHECK_DEADLOCK FALSE`.

### Fairness

`FairSpec` is weak fairness of `Machine`: the caller calls again while the run is
live (`cli.run` does), the code of a call goes on, and what it waits for ends. The
providers and the HTTP source have timeouts, so an answer or an exception comes;
the MCP source reads its child's output without one, so for a silent MCP server
the assumption fails and nothing is claimed. Users' answers, retries after an
exception, restarts and edits get no fairness: `SettlesUnlessHeld` says that a run
settles unless it waits for an answer again and again or an exception is never
retried. `AnsweredRunsSettle` adds fairness of a yes and is violated, see below. `WalksEnd`
assumes weak fairness of the steps of the references stage (`CheckReferences`): they
are plain loops and calls that wait for nothing. The commands get no fairness: a
process may die anywhere, and a child that says nothing blocks its command
forever, for `request` has no timeout.

## Where the code and its documents disagree

Six runs check one documented statement each; TLC finds a behaviour of the code
that breaks it. The quotes are in `PROJECT.json`.

| run | statement | what the code does |
|---|---|---|
| `loop_approval` | a hook that cannot suspend fails closed on REQUIRE_APPROVAL (SPEC.md:995) | after the loop hook `_step` looks for DENY only and goes on to the provider |
| `compiled_rules` | supported expressions are `!flag`, `flag && true`, `items.contains(1)`, `(flag ? 1 : 2) == 1` (`tests/test_cel_compiler.py:129`); a rule of SPEC.md:248 is `!data.classes.contains("restricted") \|\| ..`; a rule "must evaluate to bool" (`compiler.py:349`) | `cel` (`runtime/__init__.py:48-56`) hands over plain Python bools, strings and lists, which cel-python's `!`, `?:`, `&&` and `contains` do not take: a rule that was compiled raises in every run |
| `validated_rules` | every hook from `request` on has `principal`, `input`, `agent`, `run`, and `run` is `{id, iteration, cost_usd, elapsed, principal}` (SPEC.md:295, 336); environments are the variables "available at each policy hook" (`environment.py:1`) | the environments promise them, the contexts of the loop lack them: an accepted rule raises (`runtime/__init__.py:94-107`) |
| `listed_tools` | a tool is written down or unavailable (SPEC.md:31) | the name the provider answers with is looked up in the whole project's tools |
| `two_questions` | repeat until answer, max_iterations or budget (SPEC.md:532) | an approval counts for one policy and one step; two policies that ask hand the run to each other |
| `error_text` | what was tokenized is never sent to a provider (SPEC.md:373) | the text of a source's error is the tool's result and skips the tool_result hook |

Differences that follow from a line or two, and need no run: a tool call denied by the
posture raises out of `step`, since the posture's policies are the empty tuple
(`engine.py:67`) whose last is taken for the failure text (`runtime/__init__.py:386`; SPEC.md:202
"`deny` refuses"); a dispatch whose verdict is TRANSFORM records the transforms of every
applied policy, also of one that was waived or whose `otherwise` is ALLOW, which
staged none (`runtime/__init__.py:187-196`, `engine.py:62-66`; SPEC.md:482 "One record per
policy decision, per applied transform"), so of the trail only the converse holds, that
nothing was tokenized without its record (`TokensAreAccountedFor`); `answers_seq` and
`audit_seq` are always 1 (`runtime/__init__.py:233`, `296`; SPEC.md:508-509); a new
`Loop` numbers the same file from 1 again (SPEC.md:511); a matched policy is
recorded as NOT_APPLICABLE and an unmatched one not at all (SPEC.md:283); a denied
tool call ends the run and is not an error result for the model (SPEC.md:273); the
ceiling on elapsed time is enforced nowhere.

So do these, met on the way to the offline checks and the commands. A `match` on `model` or
`provider` never applies, since the context has a dictionary for the model and no provider
(`engine.py:117`; SPEC.md:259, 296). A `match` on an operation by its address applies in a run
(`engine.py:108-121` strips the kind), yet `validate_policy_rules` compares it as it stands
(`compiler.py:461-463`), so its rule is never compiled; `DispatchesWereCompiled` leaves these
matches out. LLMF505 looks for root identifiers, so a rule on `run.cost_usd` needs no price. A
string with an enum has another type than a literal, so comparing the two is refused. `in` is
typed as an ordering (`compiler.py:97`): `1 in 2` compiles and raises in a run
(`MembershipIsMistyped` proves that such a rule exists in every environment), while an element
`in` its list is refused; so `AcceptedRulesEvaluate` speaks of rules without it. `compile` takes
the required fields from the document's root (`schema.py:76`) and the type from behind a `$ref`
there, so a tool whose input is a `$ref` to an object that requires what the operation requires is
refused (LLMF500; SPEC.md:171 asks for satisfiable inputs only), which is the disjunct
`HidesRequired` of `ToolsAreDecided`. The default `${env.X}` of a variable reaches `${var.N}` as
it is written. What is read from the environment, the run's output and the audit file are not
scrubbed (SPEC.md:616-618). `run --trust-sources` on changed sources writes all sections of the
lock anew, and with them any drift of policies and models; without the flag an MCP source is
refused although it is recorded, and nobody is asked (SPEC.md 7.2, 7.3; README.md:49-51). `lock`
reads the files again for their digests and lets a YAML error of that reading escape. A source
that cannot be started leaves the children of the sources before it running. `--var` reaches
fields that are in no section of the lock (endpoints of providers, ceilings, the base URL of an
HTTP source). The arguments of a call, an agent's input and a tool's declared output are not
validated in a run.

## What is proved

For every value of the constants, checked by TLAPS:

| module | theorems |
|---|---|
| `Hooks_proofs` | lemmas on `Dispatch`: who stops it, what is refused, released, passed and asked |
| `PolicyEngine_proofs` | `TypeCorrect`, `InvariantHolds`, `BlockedPayloadUntouched`, `FirstStopperVerdict`, `CommitOrder`, `LoopComputesDispatch`, `EngineImplementsContract` |
| `AgentLoop_proofs` | `LoopInvariant`, `LoopTypeCorrect`, `SettledRunsArePurged`, `CallsAreCleared`, `ExecutionsAreCleared`, `TranscriptsAreClassified`, `BudgetsHold`, `NothingIsTakenBack`, `RunsFollowLifecycle` |
| `AuditTrail_proofs` | `TrailInvariant`, `LogsVerify`, `TokensAccounted`, `DenialsAreLast`, `OutsideCallsRecorded`, `ApprovalsAccounted`, `TrailImplementsLoop` |
| `TokenVault_proofs` | `VaultInvariant`, `TokensStand`, `NoTokenWraps`, `ProviderIsBlind`, `ToolsAreBlind`, `CallersAreBlind`, `HandlesComeBack`, `TokensStay` |
| `StaticChecks_proofs` | of the graph `WalkInvariance`, `WalkTypeCorrect`, `CyclesAreReal`, `CycleIsFound`, `OrdersAreTopological`, `ReachableSetsAreExact`; of references `ResolveInvariance`, `ProjectsHaveAnOrder`, `UnusedResourcesAreUnreachable`; of schemas `CompileInvariance`, `ProfileIsDecided`; of rules and tools, in the stages of the check, `StagesAreSeparate`, `OfflineInvariance`, `EveryDispatchWasCompiled`, `AcceptedRulesAreSound`, `MembershipIsMistyped`, `NegationIsMistyped`, `ToolChecksAreExact`, `AcceptanceIsSound` |
| `ProjectCommands_proofs` | of MCP sources `McpInvariance`, `SourcesKeepStep`; of commands `CommandsInvariance`, `CommandsImplementMcp`, `RunsKeepStep`, `LockedMeansUnchanged`, `NoChildUnrecorded`; of the configuration `ConfigsAreDeclared` |

**Assumptions.** `InvocationsAssumption`, `ConfigsAssumption` and `CompletionsAssumption` type
what comes from the configuration and the provider's adapter (sequences of policies with known
verdicts and transforms, at least one iteration, ceilings and costs that are natural numbers).
That a cost is not negative is more than the schema guarantees, since `Price` (`models.py:68-70`)
has no lower bound; `BudgetHolds` and `CallsOnlyAdd`, and the theorems about them, speak of
projects whose prices are not negative. `BoundAssumption` makes the bound a natural number.
`NodesAssumption`, `GraphsAssumption`, `KindAssumption` and `ProjectsAssumption` say that nodes
are places, that mappings go from nodes to nodes and that a declared resource has a kind and
refers to the kinds its fields demand. `DocumentsAssumption` says what form a node has when it has
references, and that the root and foreign references are not names of definitions.
`CatalogAssumption` says that a schema file is a finite tree (its type is of some level, and its
parts are of lower ones) and that what it requires are properties of it; `StrungAssumption` that
no enumeration lists all strings, without which an enumeration of all of them and a plain string
would have the same values and different types. `IsSetup`, in `CheckInit`, says of a project that
reaches these checks that the names in it resolve and its hooks exist; `MembershipIsMistyped` asks
for a bound of three nodes or more (the code's is 256). `McpAssumption` says that the bounds are
natural numbers. `CommandsAssumption` says that the files of a project are listed, no
configuration file twice, and that a file holds lists of entries whose fields are mappings, which
is what a YAML loader returns. `CommandsInit`, from which the theorems about commands start, takes
any command for each process and any such files; the run checks two families of them. Nothing is
assumed of the loop's rules, contexts, tools' values or the provider's choice. TLC evaluates the
assumptions in the runs.

**PolicyEngine.** The properties speak of a whole list of policies, the loop of a
position in it, so none of them is inductive. `IInv` says what the part of the
list behind the loop has established: `Scan` (no policy passed so far stops the
hook, and applied and staged are exactly those among them that apply and stage),
`Order` and `Behind` (what is staged is in attached, then declared order, and
behind the loop), `Commits` (nothing is committed before the scan is over and found
no policy that stops), `Decided` (the result, once there is one, is that of
`Hooks!Dispatch`, and the payload went through all transforms or none).
That a least such position exists comes from the well-foundedness of strict
inclusion on finite sets of positions (`LeastElement`), as proofs have no
induction over data here. `LoopComputesDispatch` ties the loop to the function `Hooks!Dispatch`, so
`AgentLoop`, which uses the function, stands on what is proved of the loop;
`EngineImplementsContract` is the refinement.

**AgentLoop.** `IInv` is a conjunction of named parts: `TypeOK`; `Sound(state)` and `Sound(work)`
(a RunState is in range, its status and pending question agree, its cost is within the budget, its
classes cover its tools); `Phase` (only a live run is inside a call); `Carried` (the copy extends
the original, by no turn before the provider is called and by one after; an approval held by the
call is for the question the run waited on); `Returning` (the copy extends the original by what
one step may add, which is a step or a stutter of `RunLifecycle`); `Tooling` (the call being
executed is of a known tool, within its attempts, and the results so far are classified); and the
three gates `SettledIsPurged`, `CallIsCleared`, `ExecutionIsCleared`. `CallIsCleared` needs
`Phase` and the lemmas on `Dispatch`: what was released is what no policy refuses save the
approved one, and the approved one is the one the caller just consented to. `NothingIsTakenBack`
and `RunsFollowLifecycle` need `Returning`, because the caller's RunState changes only in
`Returned`, several actions after the code that decided how.

**AuditTrail.** `TrailImplementsLoop`: each step of the trail is a step of `AgentLoop`, so `IInv`
of the loop holds of a run that is recorded and is the first part of `TrailInv`. What a
step appends is described once: the trace of a hook (`HookTrace`, with the lemmas
on `FlattenSeq`, which is a recursive function and is reasoned about by the least prefix
that fails, as there is no induction), the one record of an answer, or nothing; and
every step is of one of the kinds of `Shaped`, by where it leads and what it writes. The
other parts of `TrailInv`: `Placed` (the log's places are in the file, which ends
with what the last step wrote); `Refusal` (a call that will return a denied run has just
written the refusal, and a settled run writes nothing); `Held` (the question that a
RunState waits on is in the file, nothing was asked behind it in that call, and once
the caller has the RunState no torn write can reach it); `Consented` (what a call goes on
with as approved is the last answer of the file); `AnswersAsked`. A torn write is
the difficult case: it takes records of the last step only, and of those an answer
before its question. `TokensAreAccountedFor` is inductive as it stands: a hook that mints writes the
decision and the transform in the same step, an exception leaves vault and log alone, and a
process that dies takes both.

The first part of `ApprovalsAreAccountedFor` was not provable as it stood: it took any
REQUIRE_APPROVAL for a question, and one of the loop hook, which asks nobody, may be
followed by one of model_call in the next step. The run had no policy that asks at
the loop hook; it has one now, violates the old statement, and satisfies the
statement about model_call.

**TokenVault.** `IInv` says where every value that is about may have come from. `Paired`: the two
maps of a run are inverse to each other and agree with `ledger`, the history of all tokens minted,
which outlives purges and restarts, so that a token carried from one run into another, or from
before a restart, still has an origin to reason by. `Kept`: only a purge or a restart takes
records away. `Screened` and `Contained` are the two confinements: with both entries hidden, data
are in a transcript only as a user put them there before the hook of the request, and never in
what is sent; with tool results hidden, their data are with the tools and behind tokens of origin
`tool_result`. `CallersLearnNoToolData` follows from `Contained` because it covers the ledger too:
a token of origin `request` stands for no tool's datum. `TokensStay` is the action property that a
token, once handed out, stands for the same value over every step until its run settles or the
process dies.

**DependencyGraph.** `WInv` speaks of the call stack. `Descent`: the active nodes are
different and not visited, each depends on the one before, and what a call is
through with is visited, but for the node it is waiting for. `Begun`: the outer
loop is through with what is visited or at the bottom of the stack. `Listed`: the
visited nodes are those of the walk's list, each behind its dependencies.
`Guided` carries the first walk over to the second: the nodes that `cycle` left, in
that order (`checked`, a history variable), are themselves a topological order,
and the descent of `topological_order` goes down it, so it cannot come back to an active
node although it never looks. `Reaching` is the invariant of the third walk.
`CycleIsFound` needs no induction: a graph has no cycle iff every nonempty set of
nodes has one without a dependency in the set, and in a topological order that is
the first of the set (`LeastElement`).

**References.** A reference resolves only to the kind its field demands, and the kinds are
layered (`LayersDescend`). A cycle would have a node of the lowest layer, which depends on
one of a lower layer still: so LLMF304 is never reported for a project, and what
remains follows from the graph's theorems.

**SchemaCompiler.** `SchemasAreDecided` looks at the end of a compilation, and its direction
"nothing reported, hence in the profile" has to be built up from the first step. `Descending`
says that each active call was asked for by the one below it, so a circle that is reported is
one. The rest of `CInv` is `Silent`, under the condition that nothing was reported so far:
`Through` (what a call or a finished definition is through with is typed), `Layered` (the
memo lists a definition behind those it refers to, hence, by `LeastElement`, no circle
within the memo), `Accounted` (whatever was attempted is in the memo or active) and
`Rooted` (the root's own references). `Accounted` is what makes the silent way out
harmless: `Tried` needs a reference that was attempted and is neither, so something was reported
before. At the end the memo has all definitions, and `Acyclic` follows from `Layered`.

**PolicyRules.** `AcceptedRulesAreSound` is type soundness, for rules of any size and types of any
depth. `Infer` and `Eval` are recursive functions over the nodes of a rule. That such functions
exist, and give each node what its operands determine, is shown by the least node up to which
there is none (`InferenceExists`, `EvaluationExists`); that a node without a finding has the type
its operands' values determine is one lemma for each kind of node; and that holds of the whole
rule by the least node at which it fails. `IsType` keeps the argument finite without an induction
over types: a type is a member of a set that has the parts of its members and nothing but CEL's
kinds, so `None` and `Raised`, with which a checker that fails or an evaluator that raises would
agree by accident, are not among them. The environments of all hooks consist of types
(`EnvironmentTypes`), because schemas and the fixed variables do. The values carry whether they
are cel-python's own, and a node that makes one's own for the types makes it so for the values
(`OwnAreMade`); that is what `KeepsToCel` asks of the operands of the operators that insist on it.
Without the condition the statement is false: `in` is mistyped in every environment
(`MembershipIsMistyped`), and so is `!x` for every variable `x` that is a bool
(`NegationIsMistyped`); both are proved.

That LLMF501 means what it says (`ToolChecksAreExact`) is a statement about every pair of types:
the check `narrows` iff all values of the one type are values of the other. Both are recursive
over types; they are shown to exist level by level and compared at the lowest level where they
differ. A type has a value and an enumeration leaves one out (`StrungAssumption`), which the
direction from values to types needs. LLMF500 is about arguments: if the check finds a parameter
missing, not required or of another kind, arguments that the operation does not take are
constructed from it.

**OfflineChecks.** Each stage leaves the others' variables alone (`StagesAreSeparate`), so the
pipeline implements `ResolveSpec` and `SchemaSpec` and what is proved of them holds in it. `OInv`
is about what is left: `Staged` (what is over at which stage), `Gathered` (which rules were
compiled, and the findings in terms of the setup alone) and `Dispatched` (a dispatch evaluates a
rule in force, in an accepted project). `EveryDispatchWasCompiled` then compares two readings of a
`match`: what lets a tool through by the strings of a run's context lets it through by the tool's
fields, so its rule is among the compiled ones. `AcceptanceIsSound` puts the theorems of all
stages together.

**McpSource.** The claim about one answer is not inductive: that the next line answers this
question depends on every line before it. `Valid` of a channel says: nothing is
open before the child was started (`Idle`); what is open or written is numbered by a
question asked, and written at most once (`Numbered`); while the child runs, as many
questions are unread as stray lines were read, and one more when a request waits
(`Counted`); and as long as no stray line was read, a request that waits has the only
unread question, so the next answer is to it (`Abreast`). The proof is one lemma for each
step of a channel, with `Close` as the one step that may touch several, each in the same way.

**ProjectCommands.** A command reads the files one by one, digests them, writes or compares
the lock and starts children, while others do the same and somebody edits. `CInv` says what
each has a right to believe. `Kept` is about the command alone: what is set once, and which
kinds of commands come to which places. `Recorded`: what a command compares with, and the
sources a run may start, were written by some command as a whole, now or earlier. `Steady` is
the heart of `LockedMeansUnchanged` and holds only while nobody has edited since the command
`began`: the files it found are those that are there, and its digests are of what they hold.
`Locked` says the same of the files a lock was made from, and is kept by `FillLock` because
`Steady` holds there if the lock is `quiet`. `Unchanged` is what follows at the end, where a digest
found equal means an equal file. `Cared` is the corresponding part about children. A
step of one command leaves the others alone but for a lock more or an edit counted (`Onward`), so
for each action there is one lemma about the process that takes it and one for all the rest
(`OthersStay`). `CommandsImplementMcp` is a refinement: the commands start, ask, read and close only
as a source does, so `MInv` holds of the sources of a run (`RunsKeepStep`).

`Filtered` (which files are there, or in the closure) is a recursive function; that it keeps
exactly the elements of a set, and each once if it was listed once, is proved by the least prefix
that fails, as for `FlattenSeq` above.

**Configuration.** `ConfigsAreDeclared` has an invariant of its own, `DInv`, about the document
that `load_project` fills. `TellsIfSound`: if the merge has reported nothing and each block is a
mapping, then the document has the entries of all files read, each once and as its owner has it.
The condition cannot be dropped: the merge passes in silence over a block that is no mapping, and
what it dropped comes to light only when the schema, at `Check`, rejects the block
(`SchemaBlocks`). So no entry is lost without a finding, but it is the schema and not the merge
that sees to it. `Resolves` says that resolution changes no more than the fields.

## What is only model-checked, and what is left out

Left to TLC: liveness under fairness (`SettlesUnlessHeld`, `WalksEnd`) and everything about
ENABLED, which the prover does not treat; and the statements of the documents that the code breaks,
each by the behaviour TLC finds. Every other property of the passing runs is a theorem.

Abstracted: prompts, wording, digests, timestamps and payload text; in the loop, CEL's parsing and
evaluation (a rule is true, false or an error), in the offline checks the values (an evaluation
has a type or raises; an index out of range, an absent key, a divisor zero and an overflow raise
too, which types do not tell). What raises on a plain operand is a reading of cel-python, which is
external: a model value that is not its own may be plain, elements of a list or map literal are
taken for plain, the absorption of an error by `&&` and `||` is left out, and a double is taken to
arrive as one though JSON may bring an int. Further abstracted: of the configuration's schema, the
fields that the properties tell apart; prices (a completion has a cost, the reserve is a constant
of the project); in the vault, payloads with several fields or composite values and the message
form of an input (one whole field each), and model_call transforms on message fields other than
`content`, after which `Message.model_validate` (`runtime/__init__.py:318`) raises: in the loop
that is `ProviderRaises`, bounded like every exception by `MaxRecoveries`. A closure file that is
gone or unreadable at the comparison of a step raises too, which is `Drifted`'s second disjunct.

Not modelled: of CEL, the parser and its error LLMF410, and what is within a macro (any
macro is refused); of the commands, `fmt`, `--online`, `--json`, reading the
input; the scrubbing of messages, which is wording; rendering, formatting, positions
within a file, wire formats and URL construction (conversion or I/O without control); and the
unused `MemoryStore`.

## Plan

Done, in the order of importance: dispatch, the loop, the vault, the audit trail, references and
their graph, the MCP source, the schema compiler, the rules and semantic checks, the
configuration, the lock and the commands; the proofs of dispatch, of the loop's safety, of its
audit trail, of the token vault, of the graph, of the schema compiler, of the rules and the stages
of the check, of the MCP source, of the merged configuration and of the commands that share a
project.

What is left, in this order:

1. Payloads with several fields in `TokenVault`.
2. A run of `ProjectCommands` whose loop is `AgentLoop`, in place of "a call succeeds or
   raises".
