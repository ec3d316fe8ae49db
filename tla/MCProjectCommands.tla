------------------------- MODULE MCProjectCommands -------------------------
(***************************************************************************)
(* Two families of initial states: one command and every pair of small files  *)
(* and overrides; several commands, edits and servers over one project.       *)
(***************************************************************************)
EXTENDS ProjectCommands

MCEnviron == [HOME |-> "x"]
MCReadings == [x |-> {"string"}, seven |-> {"string", "integer", "number"},
               true |-> {"string", "boolean"}]
MCConfigFiles == <<"llmform.yaml", "more.llmform.yaml">>
MCOtherFiles == <<"prompt", "schema">>

Entry(name, of) == [name |-> name, block |-> TRUE, of |-> of]
Value(name, field) == [name |-> name, block |-> FALSE,
                       of |-> <<[name |-> "", fields |-> [value |-> field]]>>]
Resource(name, fields) == [name |-> name, fields |-> fields]
Mapping(entries) == [parses |-> TRUE, root |-> "mapping", recursive |-> FALSE, entries |-> entries]
Text(text) == [parses |-> TRUE, root |-> text, recursive |-> FALSE, entries |-> << >>]
Broken == [Absent EXCEPT !.root = "broken"]

Model(id) == [provider |-> String("provider.local"), id |-> id]
OneModel == Entry("models", <<Resource("default", Model(String("m")))>>)
OneAgent == Entry("agents", <<Resource("assistant", [model |-> String("model.default"),
                                                     instructions |-> String("prompt")])>>)

MCInitContent ==
    Mapping(<<Value("version", String("0.1")),
              Entry("providers", <<Resource("local", [type |-> String("ollama"),
                                                      endpoint |-> String("localhost")])>>),
              OneModel,
              Entry("policies", <<Resource("review_request", [on |-> String("request"),
                                                              rule |-> String("true")])>>),
              OneAgent>>)

-----------------------------------------------------------------------------
(* The configurations. *)

Variable(type, default) == [type |-> String(type), default |-> default]
Seven == <<"plain", "integer", "seven">>

Entries ==
    {OneModel,
     Entry("models", <<Resource("default", Model(String("n")))>>),
     Entry("models", <<Resource("other", Model(<<"var", "", "v">>))>>),
     Entry("models", <<Resource("other", Model(<<"secret", "", "HOME">>)),
                       Resource("more", Model(<<"env", "", "NONE">>))>>),
     Entry("models", <<Resource("default", Model(String("m"))),
                       Resource("default", Model(String("n")))>>),
     Entry("models", <<Resource("other", Model(<<"partial", "", "v">>))>>),
     Entry("models", <<Resource("other", [Model(String("m")) EXCEPT !.id = Seven])>>),
     Entry("models", <<Resource("more", [Model(String("m")) @@ [max_tokens |-> <<"var", "", "v">>]
                                         EXCEPT !.id = String("m")])>>),
     Value("models", <<"var", "", "v">>),
     Entry("variables", <<Resource("v", Variable("string", <<"env", "", "HOME">>))>>),
     Entry("variables", <<Resource("v", Variable("integer", Seven))>>),
     Entry("variables", <<Resource("v", [type |-> String("integer"),
                                         required |-> <<"plain", "boolean", "true">>])>>),
     Value("version", String("0.1")),
     [Value("audit", <<"plain", "boolean", "true">>) EXCEPT
        !.block = TRUE, !.of[1].fields = [record_payloads |-> <<"plain", "boolean", "true">>]],
     Value("unknown", String("x"))}

First == {Mapping(<<d, e>>) : d, e \in Entries} \cup {Mapping(<<d>>) : d \in Entries}
         \cup {Text("nothing"), Broken}
Second == {Mapping(<<d>>) : d \in Entries}
          \cup {Absent, Broken, Text("nothing"), Text("list"),
                [Mapping(<<OneModel>>) EXCEPT !.recursive = TRUE]}

MCGiven == {Empty, [v \in {"v"} |-> "seven"], [v \in {"v"} |-> "x"], [v \in {"u"} |-> "x"]}

Invocation(kind, trust, given) == [kind |-> kind, trust |-> trust, given |-> given]
Nothing == Invocation("none", FALSE, Empty)

Disk(first, second, prompt, schema) ==
    [f \in Range(Files) |-> CASE f = "llmform.yaml" -> first [] f = "more.llmform.yaml" -> second
                              [] f = "prompt" -> prompt [] OTHER -> schema]

ConfigurationInit ==
    \E first \in First, second \in Second, given \in MCGiven :
        /\ disk = Disk(first, second, Text("text"), Text("good"))
        /\ command = [p \in Commands |-> IF p = 1 THEN Invocation("validate", FALSE, given)
                                         ELSE Nothing]
        /\ edits = MaxEdits

-----------------------------------------------------------------------------
(* The commands. *)

OneSource(name, argv) ==
    Resource(name, [type |-> String("mcp"), command |-> <<"plain", "list", argv>>,
                    returns |-> String("schema")])
Project(sources) == Mapping(<<OneModel, OneAgent, Entry("sources", sources)>>)
OneArgv == Project(<<OneSource("s", "server")>>)
OtherArgv == Project(<<OneSource("s", "other")>>)
TwoSources == Project(<<OneSource("s", "server"), OneSource("t", "server")>>)
HttpProject == Project(<<Resource("s", [type |-> String("http"), base_url |-> String("x"),
                                        returns |-> String("schema")])>>)
Reordered == Mapping(<<Entry("sources", <<OneSource("s", "server")>>), OneAgent, OneModel>>)
MoreModels == Mapping(<<Entry("models", <<Resource("other", Model(String("m")))>>)>>)

MCPromptContent == Text("text")
EditOf(f, c) == [file |-> f, content |-> c]
MCEdits == {EditOf("llmform.yaml", c) : c \in {OtherArgv, Reordered, Broken}}
           \cup {EditOf("more.llmform.yaml", MoreModels), EditOf("prompt", Text("other text")),
                 EditOf("prompt", Absent), EditOf("schema", Broken)}

Typed(a, b, c) == command = <<a, b, c>>
Plain(kind) == Invocation(kind, FALSE, Empty)
Trusting == Invocation("run", TRUE, Empty)

SomeDisk(config) == disk = Disk(config, Absent, Text("text"), Text("good"))

(* Servers that write stray lines, where there is room for them.              *)
Noisy(C) == channel = [c \in Servers |-> [NoChannel EXCEPT !.stray = IF c \in C THEN 0 ELSE MaxStray]]

CommandsTyped ==
    \/ /\ SomeDisk(OneArgv) /\ Noisy({})
       /\ \/ edits = MaxEdits - 2 /\ Typed(Plain("lock"), Plain("locked"), Nothing)
          \/ edits = MaxEdits - 1 /\ Typed(Trusting, Plain("locked"), Nothing)
          \/ edits = MaxEdits - 1 /\ Typed(Trusting, Plain("lock"), Nothing)
          \/ edits = MaxEdits - 1 /\ Typed(Plain("run"), Plain("lock"), Nothing)
          \/ edits = MaxEdits     /\ Typed(Plain("lock"), Plain("lock"), Plain("locked"))
    \/ /\ SomeDisk(TwoSources) /\ edits = MaxEdits /\ Noisy({<<1, "s">>})
       /\ Typed(Trusting, Nothing, Nothing)
    \/ /\ SomeDisk(HttpProject) /\ edits = MaxEdits /\ Noisy({})
       /\ Typed(Plain("run"), Plain("lock"), Nothing)
    \/ /\ disk = Disk(Absent, Absent, Absent, Text("good")) /\ edits = MaxEdits - 1 /\ Noisy({})
       /\ Typed(Plain("init"), Plain("locked"), Nothing)

MCInit == /\ (ConfigurationInit /\ Noisy({})) \/ CommandsTyped
          /\ CommandsInit

MCServers == {<<1, "s">>, <<1, "t">>}

MCSpec == MCInit /\ [][CommandsNext]_commandVars
=============================================================================
