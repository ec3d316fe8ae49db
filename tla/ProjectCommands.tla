-------------------------- MODULE ProjectCommands --------------------------
(***************************************************************************)
(* The commands of llmform.cli that read a project and its lock: validate,    *)
(* validate --locked, lock, run and init, several at a time, while somebody   *)
(* edits the files.  A command reads each file when it comes to it: the        *)
(* configuration first, for what it declares, and all the files again for     *)
(* their digests.  llmform.lock is emptied before it is written.             *)
(*                                                                         *)
(* A digest is what it is of; a file is also read whole.  An MCP source is a   *)
(* child process of the run that started it (McpSource).                     *)
(***************************************************************************)
EXTENDS Configuration, McpSource, Functions, SequencesExt

CONSTANTS
    Commands,       \* processes
    ConfigFiles,    \* sequence of names, llmform.yaml in front
    OtherFiles,     \* sequence of the names that a configuration may refer to
    InitContent,    \* _INIT_CONFIG, as a file's content
    PromptContent,  \* of prompts/assistant.md
    Prompt,         \* prompts/assistant.md
    Edits,          \* [file, content] that somebody may write, or delete
    MaxEdits        \* bound on the edits

ASSUME CommandsAssumption ==
    /\ ConfigFiles \in Seq(Range(ConfigFiles)) /\ ConfigFiles # << >>
    /\ IsInjective(ConfigFiles)
    /\ OtherFiles \in Seq(Range(OtherFiles))
    /\ Prompt \in Range(OtherFiles) /\ MaxEdits \in Nat
    /\ \A content \in {InitContent, PromptContent} \cup {e.content : e \in Edits} : IsContent(content)
    /\ Servers \subseteq {<<p, s>> : p \in Commands, s \in {c[2] : c \in Servers}}

VARIABLES
    disk,       \* the files: their content
    lock,       \* llmform.lock
    command,    \* what was typed: [kind, trust, given], of kind "none" if nothing
    proc,       \* the processes
    edits,      \* changes to the files so far
    written     \* history: the locks written, with the files they were made from

commandVars == <<disk, lock, command, proc, edits, written, channel>>

(* The elements of s that are in S, in their order.                          *)
Filtered(s, S) ==
    LET kept[i \in 0 .. Len(s)] ==
            IF i = 0 THEN << >>
            ELSE IF s[i] \in S THEN Append(kept[i - 1], s[i]) ELSE kept[i - 1]
    IN  kept[Len(s)]

Files == ConfigFiles \o OtherFiles
Primary == ConfigFiles[1]

Absent == [parses |-> FALSE, root |-> "absent", recursive |-> FALSE, entries |-> << >>]
Exists(f) == disk[f] # Absent

(* Only a whole lock parses; an emptied one is told from a mixed one, which   *)
(* two writers leave behind.                                                 *)
NoPayload == [files |-> Empty, models |-> Empty, policies |-> Empty,
              policy_attachments |-> Empty, sources |-> Empty]
NoLock == [state |-> "absent", payload |-> NoPayload]
EmptyLock == [state |-> "empty", payload |-> NoPayload]
MixedLock == [state |-> "mixed", payload |-> NoPayload]
Whole(payload) == [state |-> "whole", payload |-> payload]

(* proc: where the command is, the files still to read, the document and its  *)
(* configuration, what is known for the lock, and (history) the verdict, what *)
(* was read, and the number of edits when the command began.                 *)
NotBegun == [at |-> "idle", todo |-> << >>, doc |-> NewDocument, config |-> Empty,
             recorded |-> NoPayload, digests |-> Empty, writing |-> FALSE, asked |-> "",
             verdict |-> "", seen |-> Empty, began |-> 0]

Ends(p, verdict) == proc' = [proc EXCEPT ![p].at = "ended", ![p].verdict = verdict]
Kind(p) == command[p].kind
Config(p) == proc[p].config

-----------------------------------------------------------------------------
(* discover_files, in the order of load_project.                             *)
Discovered == Filtered(ConfigFiles, {f \in Range(ConfigFiles) : Exists(f)})

(* find_project_root and the head of load_project.                           *)
Discover(p) ==
    IF Discovered = << >> THEN Ends(p, "refused")
    ELSE proc' = [proc EXCEPT ![p].at = "load", ![p].todo = Discovered, ![p].began = edits]

Begin(p) ==
    /\ proc[p].at = "idle" /\ Kind(p) # "none"
    /\ IF Kind(p) # "init" THEN Discover(p)
       ELSE IF Exists(Primary) THEN Ends(p, "refused")
       ELSE proc' = [proc EXCEPT ![p].at = "create"]
    /\ UNCHANGED <<disk, lock, command, edits, written, channel>>

(* init writes the configuration, then the prompt.                           *)
Create(p) ==
    /\ proc[p].at \in {"create", "createPrompt"}
    /\ LET config == proc[p].at = "create"
       IN  /\ disk' = IF config THEN [disk EXCEPT ![Primary] = InitContent]
                      ELSE [disk EXCEPT ![Prompt] = PromptContent]
           /\ proc' = [proc EXCEPT ![p].at = IF config THEN "createPrompt" ELSE "created"]
    /\ edits' = edits + 1
    /\ UNCHANGED <<lock, command, written, channel>>

LoadCreated(p) ==
    /\ proc[p].at = "created" /\ Discover(p)
    /\ UNCHANGED <<disk, lock, command, edits, written, channel>>

LoadFile(p) ==
    /\ proc[p].at = "load" /\ proc[p].todo # << >>
    /\ LET f == Head(proc[p].todo)
       IN  proc' = [proc EXCEPT ![p].doc = Added(@, f, disk[f]), ![p].todo = Tail(@),
                                ![p].seen = Holding(@, f, disk[f])]
    /\ UNCHANGED <<disk, lock, command, edits, written, channel>>

-----------------------------------------------------------------------------
(* Fields that name files.                                                   *)
SchemaFields == [agents |-> {"input", "output"}, sources |-> {"returns"},
                 tools |-> {"input", "output"}]
FileFields == [SchemaFields EXCEPT !.agents = @ \cup {"instructions"}]

Named(config, fields) ==
    {f \in Range(OtherFiles) :
        \E k \in DOMAIN fields : \E n \in DOMAIN Resources(config, k) :
            \E x \in fields[k] \cap DOMAIN Resources(config, k)[n] :
                Resources(config, k)[n][x] = String(f)}

(* The offline checks compile the schemas; what else they look at is the      *)
(* subject of OfflineChecks.                                                 *)
Sound(config) == \A f \in Named(config, SchemaFields) : disk[f].parses

McpSources(config) == {s \in DOMAIN Resources(config, "sources") :
                          Resources(config, "sources")[s].type = String("mcp")}

(* Mutant: files that a configuration refers to are not in the closure. *)
ClosureOfConfiguration(p, config) == Filtered(ConfigFiles, DOMAIN proc[p].seen)

(* _closure_files: its own files, and those it refers to.                     *)
ClosureFiles(p, config) ==
    Filtered(Files, DOMAIN proc[p].seen \cup Named(config, FileFields))

(* Where a command goes when the project is in order.                        *)
After(p, config) ==
    CASE Kind(p) = "validate"        -> "ended"
      [] Kind(p) = "locked"          -> "readLock"
      [] Kind(p) \in {"lock", "init"} -> "digest"
      [] Kind(p) = "run"             -> IF McpSources(config) # {} THEN "readLock" ELSE "launch"

Findings(p) == IF Kind(p) = "init" THEN LoadFindings(proc[p].doc)
               ELSE ProjectFindings(proc[p].doc, command[p].given)

(* The end of load_project, and _check_project but for init, which asks for   *)
(* a configuration from load_project alone.                                  *)
Check(p) ==
    /\ proc[p].at = "load" /\ proc[p].todo = << >>
    /\ LET merged == proc[p].doc.merged
           config == IF Kind(p) = "init" THEN merged ELSE Resolve(merged, command[p].given)
           accepted == /\ Findings(p) = {}
                       /\ IF Kind(p) = "init" THEN ~ IsPending(merged) ELSE Sound(config)
       IN  IF ~ accepted THEN Ends(p, "refused")
           ELSE proc' = [proc EXCEPT ![p].at = After(p, config), ![p].config = config,
                                     ![p].writing = Kind(p) \in {"lock", "init"},
                                     ![p].todo = ClosureFiles(p, config),
                                     ![p].verdict = IF Kind(p) = "validate" THEN "clean" ELSE ""]
    /\ UNCHANGED <<disk, lock, command, edits, written, channel>>

-----------------------------------------------------------------------------
(* build_lock.                                                               *)
Pick(config, k, fields) ==
    [n \in DOMAIN Resources(config, k) |->
        Restrict(Resources(config, k)[n], fields \cap DOMAIN Resources(config, k)[n])]

PinnedSources(config) == Pick(config, "sources", {"type", "returns", "command"})

Payload(config, digests) ==
    [files              |-> digests,
     models             |-> Pick(config, "models", {"id", "price"}),
     policies           |-> Pick(config, "policies", DOMAIN FieldTypes.policies),
     policy_attachments |-> Pick(config, "agents", {"policies"}),
     sources            |-> PinnedSources(config)]

(* _config_digest is of the parsed YAML, any other digest of the bytes.       *)
Digest(content, f) ==
    IF f \in Range(ConfigFiles)
    THEN [root |-> content.root, loaded |-> IF content.root = "mapping" THEN Loaded(content) ELSE Empty]
    ELSE content

Digesting(p) == [proc[p] EXCEPT !.at = "digest", !.todo = ClosureFiles(p, Config(p)),
                                !.digests = Empty]

(* run: what it does about the sources, once it knows.                       *)
Decide(p, changed) ==
    IF ~ changed THEN proc' = [proc EXCEPT ![p].at = "launch"]
    ELSE IF command[p].trust
    THEN proc' = [proc EXCEPT ![p] = [Digesting(p) EXCEPT !.writing = TRUE]]
    ELSE Ends(p, "refused")

(* An OSError or a ValueError out of diff_lock.                              *)
Unverified(p) == IF Kind(p) = "run" THEN Decide(p, TRUE) ELSE Ends(p, "refused")

ReadLock(p) ==
    /\ proc[p].at = "readLock"
    /\ IF lock.state # "whole" THEN Unverified(p)
       ELSE proc' = [proc EXCEPT ![p] = [Digesting(p) EXCEPT !.recorded = lock.payload]]
    /\ UNCHANGED <<disk, lock, command, edits, written, channel>>

DigestFile(p) ==
    /\ proc[p].at = "digest" /\ proc[p].todo # << >>
    /\ LET f == Head(proc[p].todo)
       IN  IF ~ Exists(f)
           THEN IF proc[p].writing THEN Ends(p, IF Kind(p) = "lock" THEN "refused" ELSE "raised")
                ELSE Unverified(p)
           ELSE IF f \in Range(ConfigFiles) /\ ~ disk[f].parses THEN Ends(p, "raised")
           ELSE proc' = [proc EXCEPT ![p].digests = Holding(@, f, Digest(disk[f], f)),
                                         ![p].todo = Tail(@)]
    /\ UNCHANGED <<disk, lock, command, edits, written, channel>>

(* Mutant: a source that is in the lock is recorded, whatever its argv. *)
SourcesDifferByName(p, payload) == ~ DOMAIN payload.sources \subseteq DOMAIN proc[p].recorded.sources

SourcesDiffer(p, payload) == payload.sources # proc[p].recorded.sources

(* diff_lock has the payload, or write_lock has.                             *)
Digested(p) ==
    /\ proc[p].at = "digest" /\ proc[p].todo = << >>
    /\ LET payload == Payload(Config(p), proc[p].digests)
       IN  IF proc[p].writing THEN proc' = [proc EXCEPT ![p].at = "write"]
           ELSE IF Kind(p) = "run" THEN Decide(p, SourcesDiffer(p, payload))
           ELSE Ends(p, IF payload = proc[p].recorded THEN "clean" ELSE "refused")
    /\ UNCHANGED <<disk, lock, command, edits, written, channel>>

(* write_text: the file is opened, and emptied, then filled; over what another *)
(* writer has filled meanwhile, what comes out is this text or a mixture.     *)
OpenLock(p) ==
    /\ proc[p].at = "write"
    /\ lock' = EmptyLock
    /\ proc' = [proc EXCEPT ![p].at = "fill"]
    /\ UNCHANGED <<disk, command, edits, written, channel>>

FillLock(p) ==
    /\ proc[p].at = "fill"
    /\ LET payload == Payload(Config(p), proc[p].digests)
       IN  /\ lock' \in IF lock.state = "empty" THEN {Whole(payload)}
                        ELSE {Whole(payload), MixedLock}
           /\ written' = written \cup {[payload |-> payload, disk |-> disk,
                                        quiet |-> edits = proc[p].began]}
    /\ IF Kind(p) = "run" THEN proc' = [proc EXCEPT ![p].at = "launch"] ELSE Ends(p, "clean")
    /\ UNCHANGED <<disk, command, edits, channel>>

-----------------------------------------------------------------------------
Source(p) == <<p, proc[p].asked>>

(* The constructor of McpSource raises without the flag, and when there is no *)
(* such program.                                                             *)
Launch(p, s) ==
    /\ proc[p].at = "launch" /\ s \in McpSources(Config(p)) /\ channel[<<p, s>>].child = "none"
    /\ \/ Ends(p, "raised") /\ UNCHANGED channel
       \/ /\ command[p].trust /\ Spawn(<<p, s>>)
          /\ proc' = [proc EXCEPT ![p].at = "initialize", ![p].asked = s]
    /\ UNCHANGED <<disk, lock, command, edits, written>>

Launched(p) ==
    /\ proc[p].at = "launch"
    /\ \A s \in McpSources(Config(p)) : channel[<<p, s>>].child # "none"
    /\ proc' = [proc EXCEPT ![p].at = "loop"]
    /\ UNCHANGED <<disk, lock, command, edits, written, channel>>

(* An exception out of the constructor is in front of the try of run.         *)
Initialized(p) ==
    /\ proc[p].at = "initialize" /\ Read(Source(p))
    /\ IF Raises(Source(p)) THEN Ends(p, "raised")
       ELSE proc' = [proc EXCEPT ![p].at = "launch"]
    /\ UNCHANGED <<disk, lock, command, edits, written>>

(* execute, called by the loop; an exception is a failed attempt to it.       *)
Execute(p, s) ==
    /\ proc[p].at = "loop" /\ s \in McpSources(Config(p)) /\ Ask(<<p, s>>)
    /\ proc' = IF Running(<<p, s>>) THEN [proc EXCEPT ![p].at = "call", ![p].asked = s] ELSE proc
    /\ UNCHANGED <<disk, lock, command, edits, written>>

Executed(p) ==
    /\ proc[p].at = "call" /\ Read(Source(p))
    /\ proc' = [proc EXCEPT ![p].at = "loop"]
    /\ UNCHANGED <<disk, lock, command, edits, written>>

(* The run settles, or an exception leaves the try: the finally closes, up to *)
(* a child that is not gone two seconds after it was killed.                 *)
CloseAll(p) ==
    /\ proc[p].at = "loop"
    /\ \E C \in SUBSET {c \in Servers : c[1] = p} :
          /\ Close(C)
          /\ \/ /\ C = {c \in Servers : c[1] = p}
                /\ Ends(p, "clean") \/ Ends(p, "refused")
             \/ (\E c \in C : Running(c)) /\ Ends(p, "raised")
    /\ UNCHANGED <<disk, lock, command, edits, written>>

-----------------------------------------------------------------------------
(* The process dies at any point, or of an exception that has no action of its *)
(* own here (the input cannot be read); its children live on.                *)
Die(p) ==
    /\ proc[p].at \notin {"idle", "ended"} /\ Ends(p, "killed")
    /\ UNCHANGED <<disk, lock, command, edits, written, channel>>

Edit(e) ==
    /\ edits < MaxEdits /\ disk[e.file] # e.content
    /\ disk' = [disk EXCEPT ![e.file] = e.content] /\ edits' = edits + 1
    /\ UNCHANGED <<lock, command, proc, written, channel>>

ServerSteps == Serve /\ UNCHANGED <<disk, lock, command, proc, edits, written>>

Step(p) == \/ Begin(p) \/ Create(p) \/ LoadCreated(p) \/ LoadFile(p) \/ Check(p)
           \/ ReadLock(p) \/ DigestFile(p) \/ Digested(p)
           \/ OpenLock(p) \/ FillLock(p)
           \/ \E c \in Servers : c[1] = p /\ (Launch(p, c[2]) \/ Execute(p, c[2]))
           \/ Launched(p) \/ Initialized(p) \/ Executed(p) \/ CloseAll(p)
           \/ Die(p)

Kinds == {"none", "init", "validate", "locked", "lock", "run"}

CommandsInit == /\ lock = NoLock /\ written = {}
                /\ disk = [f \in Range(Files) |-> disk[f]] /\ edits \in Nat
                /\ \A f \in Range(Files) : IsContent(disk[f])
                /\ command = [p \in Commands |-> command[p]]
                /\ \A p \in Commands : Kind(p) \in Kinds
                /\ proc = [p \in Commands |-> NotBegun]
                /\ McpInit

CommandsNext == (\E p \in Commands : Step(p)) \/ (\E e \in Edits : Edit(e)) \/ ServerSteps

(* Whatever was typed, for whatever files.                                   *)
CommandsSpec == CommandsInit /\ [][CommandsNext]_commandVars

-----------------------------------------------------------------------------
SeenPaths(p, f) == IF proc[p].seen[f].root = "mapping" THEN Paths(Loaded(proc[p].seen[f])) ELSE {}

(***************************************************************************)
(* docs/SPEC.md 7.0, "there is no last-write-wins behavior": a configuration  *)
(* that a command goes on with has every entry of every file that was read,   *)
(* resolved, each declared by one file, which is where findings about it      *)
(* point, and nothing else.  The files do not depend on their order, nor is   *)
(* an entry dropped where the merge says nothing.                            *)
(***************************************************************************)
ConfigIsDeclared ==
    \A p \in Commands :
        Config(p) # Empty =>
            /\ Paths(Config(p)) = UNION {SeenPaths(p, f) : f \in DOMAIN proc[p].seen}
            /\ \A f \in DOMAIN proc[p].seen : \A path \in SeenPaths(p, f) :
                  LET entry == Loaded(proc[p].seen[f])[path[1]].resources[path[2]]
                  IN  /\ proc[p].doc.owners[path] = f
                      /\ \A g \in DOMAIN proc[p].seen \ {f} : path \notin SeenPaths(p, g)
                      /\ Config(p)[path[1]].resources[path[2]] =
                            [x \in DOMAIN entry |->
                                Resolved(proc[p].doc.merged, command[p].given, entry[x])]

SameFile(d, e, f) == IF f \in Range(ConfigFiles)
                     THEN /\ d[f].root = e[f].root
                          /\ d[f].root = "mapping" => Loaded(d[f]) = Loaded(e[f])
                     ELSE d[f] = e[f]

(***************************************************************************)
(* docs/SPEC.md 7.2: validate --locked is clean only of a closure that some   *)
(* command has written as a whole; and if nobody edited anything while that   *)
(* command or this one was reading, each file of the closure is what it was   *)
(* then, and no configuration file was added or taken away.  Locks torn by a  *)
(* crash or by two writers, and half of one project with half of another,    *)
(* are not clean.                                                            *)
(***************************************************************************)
DriftIsNoticed ==
    \A p \in Commands :
        Kind(p) = "locked" /\ proc[p].verdict = "clean" =>
            /\ \E w \in written : w.payload = proc[p].recorded
            /\ edits = proc[p].began =>
                  \A w \in written :
                      w.quiet /\ w.payload = proc[p].recorded =>
                          /\ \A f \in Range(ConfigFiles) : SameFile(w.disk, disk, f)
                          /\ \A f \in Named(Config(p), FileFields) : SameFile(w.disk, disk, f)

LaunchIsRecorded(p) ==
    /\ command[p].trust
    /\ \E w \in written : w.payload.sources = PinnedSources(Config(p))

MayBeOrphaned(p) == proc[p].verdict \in {"killed", "raised"}

(***************************************************************************)
(* docs/SPEC.md 7.3: a child process is started only on the word of           *)
(* --trust-sources and after the sources of its configuration were written    *)
(* to a lock; and it is running without its command only if that was killed,  *)
(* a later source could not be started or an earlier one was not gone in time. *)
(***************************************************************************)
ChildrenAreAccountedFor ==
    \A c \in Servers :
        channel[c].child # "none" =>
            /\ LaunchIsRecorded(c[1])
            /\ Running(c) /\ proc[c[1]].at = "ended" => MayBeOrphaned(c[1])
=============================================================================
