-------------------------- MODULE MCOfflineChecks --------------------------
(***************************************************************************)
(* Families of projects, each of which varies what one of the checks looks    *)
(* at: the graphs and the references, the schema document, the rules at each  *)
(* hook, the matches, the tools' schemas.                                    *)
(***************************************************************************)
EXTENDS OfflineChecks, FiniteSets

(* References: every graph of three nodes, graphs of four with diamonds and   *)
(* longer cycles, and references of each kind, resolved, dangling, of the     *)
(* wrong kind and to no address at all.                                      *)

(* agent.a, agent.b, model.m, policy.p, provider.v, source.s, tool.t, "x"      *)
MCKind == <<"agent", "agent", "model", "policy", "provider", "source", "tool", "none">>
MCNodes == DOMAIN MCKind

MCGraphs == UNION {[D -> SUBSET (1 .. 3)] : D \in SUBSET (1 .. 3)}
            \cup {g \in [1 .. 4 -> {S \in SUBSET (1 .. 4) : Cardinality(S) <= 2}] :
                     g[4] \subseteq {1}}

Reference(from, demanded, to, operation) ==
    [from |-> from, demanded |-> demanded, to |-> to, operation |-> operation]

(* What each resource may have in its fields.                                 *)
OfAgent == {{Reference(1, "model", m, "")} \cup T :
              m \in {3, 8},
              T \in {{}, {Reference(1, "tool", 7, "")}, {Reference(1, "policy", 4, "")},
                     {Reference(1, "tool", 4, ""), Reference(1, "tool", 7, "")},
                     {Reference(1, "policy", 4, ""), Reference(1, "policy", 2, "")}}}
OfSecond == {Reference(2, "model", 3, "")}
OfModel == {{Reference(3, "provider", v, "")} : v \in {3, 5}}
OfPolicy == {{}, {Reference(4, "tool", 7, "")},
             {Reference(4, "source", 6, ""), Reference(4, "model", 1, "")}}
OfTool == {{Reference(7, "source", 6, o)} : o \in {"get", "put"}}

Declarations == {{1, 3, 4, 5, 6, 7}, {1, 4, 5, 6, 7}, {1, 3, 4, 6, 7}, {1, 3, 5, 7},
                 {1, 2, 3, 4}, {3, 5}}

OneProject == [declared |-> {1, 3, 5}, operations |-> [s \in {6} |-> {"get"}],
               references |-> {Reference(1, "model", 3, ""), Reference(3, "provider", 5, "")}]

MCProjects ==
    {OneProject} \cup
    {[declared |-> D, operations |-> [s \in {6} |-> {"get"}],
      references |-> {r \in a \cup OfSecond \cup m \cup p \cup t : r.from \in D}] :
        D \in Declarations, a \in OfAgent, m \in OfModel, p \in OfPolicy, t \in OfTool}

-----------------------------------------------------------------------------
NoGraphs == {}
FewProjects == {OneProject}

(* Schemas: documents of two and three definitions, with every pattern of     *)
(* references among them, cyclic ones, missing ones and nodes without a type. *)

MCNames == {"d1", "d2", "d3"}
Shape(form, refs, marked) == [form |-> form, refs |-> refs, marked |-> marked]

Objects(N) == {Shape("object", << >>, FALSE)}
              \cup {Shape("object", <<n>>, FALSE) : n \in N}
              \cup {Shape("object", <<n, m>>, FALSE) : n \in N, m \in N}
Wrappers(N) == {Shape("wrapper", <<n>>, FALSE) : n \in N}
Scalar == Shape("scalar", << >>, FALSE)
Odd == {Shape("untyped", << >>, FALSE), Shape("scalar", << >>, TRUE),
        Shape("object", <<Foreign>>, FALSE)}

OneDocument == [root |-> Shape("object", << >>, FALSE), defs |-> [n \in {} |-> Scalar]]
UntypedDocument == [OneDocument EXCEPT !.root.form = "untyped"]

FewDocuments == {OneDocument}

MCDocuments ==
    {OneDocument, UntypedDocument}
    \cup {[root |-> r, defs |-> d] :
             r \in {Shape("object", <<"d1", "d2">>, FALSE), Shape("wrapper", <<"d2">>, FALSE), Scalar},
             d \in [{"d1", "d2"} -> Objects(MCNames) \cup Wrappers(MCNames) \cup Odd]}
    \cup {[root |-> r, defs |-> d] :
             r \in Wrappers({"d2"}),
             d \in [MCNames -> (Objects({"d1", "d2"}) \ Objects({})) \cup Wrappers(MCNames)
                               \cup {Scalar, Shape("object", <<"d3">>, FALSE)}]}

-----------------------------------------------------------------------------
(* Setups. *)

Request == ObjectOf([x |-> INT, y |-> Text, e |-> Enumeration({"a", "b"})])
Args == ObjectOf([x |-> INT, z |-> DOUBLE, l |-> ListOf(INT)])
Result == ObjectOf([y |-> Text, l |-> ListOf(Text), b |-> BOOL])

Fields(F, types) == UNION {[G -> types] : G \in SUBSET F}

Inputs == {ObjectOf(f) : f \in Fields({"x"}, {INT, DOUBLE, Text})}
          \cup {ObjectOf(f) : f \in [{"x", "y"} -> {INT, Text}]} \cup {Text}

Plain == {BOOL, INT, DOUBLE, Text, Enumeration({"a"}), Enumeration({"a", "b"}),
          Enumeration({"b", "c"}), ListOf(INT), ListOf(DOUBLE), ListOf(Enumeration({"a"})), ListOf(Text)}
Outputs == Plain \cup {ObjectOf(f) : f \in Fields({"x", "y"}, {INT, DOUBLE, Text, Enumeration({"a"})})}
           \cup {ObjectOf([x |-> t]) : t \in {ListOf(INT), ListOf(DOUBLE)}}

MCTypeLevels == <<{t \in Plain : t.kind # "list"}, {t \in Plain : t.kind = "list"},
                  {ObjectOf([y |-> Text]), Request, Args, Result} \cup (Inputs \ {Text})
                  \cup (Outputs \ Plain)>>
MCStrung == {"a", "b", "c", "d"}

Schema(type, requires) == [type |-> type, requires |-> requires, isRef |-> FALSE]
OfInputs == UNION {{[type |-> type, requires |-> requires, isRef |-> isRef] :
                       requires \in SUBSET DOMAIN FieldsOf(type), isRef \in BOOLEAN}
                   : type \in Inputs}
OfOutputs == {Schema(type, {}) : type \in Outputs}

(* A schema is its own name.                                                 *)
OfText == Schema(ObjectOf([y |-> Text]), {})
MCCatalog == [schema \in {Schema(Request, {}), Schema(Args, {}), Schema(Result, {}), OfText}
                         \cup OfInputs \cup OfOutputs |-> schema]

OneTool == [source |-> "s", operation |-> "get", input |-> Schema(Args, {}), output |-> NoSchema,
            detokenize |-> {}]
OneOperation == [params |-> [f \in {"x", "y", "z", "l"} |->
                                [kind |-> IF f = "y" THEN "string" ELSE Args.fields[f].kind,
                                 required |-> FALSE]],
                 returns |-> Schema(Result, {}), classes |-> {"pii"}, writes |-> FALSE]
OneAgent == [tools |-> {"t"}, policies |-> {"p"}, input |-> Schema(Request, {}), output |-> OfText,
             priced |-> TRUE, ceiling |-> FALSE]
OnePolicy == [on |-> "loop", match |-> [k \in {} |-> ""], addressed |-> FALSE, rule |-> NoRule,
              otherwise |-> "DENY", approval |-> FALSE]

OneSetup == [tools |-> [t |-> OneTool], operations |-> [s |-> [get |-> OneOperation]],
             agents |-> [a |-> OneAgent], policies |-> [p |-> OnePolicy]]

(* Rules: the nodes of the operands in front of the operator's.              *)
Shifted(e, n) == [i \in DOMAIN e |-> [e[i] EXCEPT !.args = [k \in DOMAIN @ |-> @[k] + n]]]

Ident(name) == <<[op |-> "ident", args |-> << >>, name |-> name]>>
Literal(type, value) == <<[op |-> "literal", args |-> << >>, type |-> type, value |-> value]>>
Dot(of, name) == Append(of, [op |-> "dot", args |-> <<Len(of)>>, name |-> name])
Unary(op, e) == Append(e, [op |-> op, args |-> <<Len(e)>>])
Binary(op, d, e) == d \o Shifted(e, Len(d))
                    \o <<[op |-> op, args |-> <<Len(d), Len(d) + Len(e)>>]>>
Conditional(c, d, e) ==
    LET n == Len(c) + Len(d)
    IN  c \o Shifted(d, Len(c)) \o Shifted(e, n)
        \o <<[op |-> "if", args |-> <<Len(c), n, n + Len(e)>>]>>
DataClasses == Dot(Ident("data"), "classes")

Literals == {Literal(INT, "1"), Literal(DOUBLE, "1.5"), Literal(Text, "pii"),
             Literal(Text, "pci"), Literal(BOOL, "true")}

Paths == [request     |-> {Dot(Ident("input"), f) : f \in {"x", "y", "e", "none"}}
                          \cup {Dot(Dot(Ident("run"), "principal"), "scopes"),
                                Dot(Ident("run"), "elapsed")},
          model_call  |-> {DataClasses, Ident("messages"), Dot(Ident("model"), "name"),
                           Dot(Ident("model"), "id"), Dot(Ident("run"), "cost_usd")},
          tool_call   |-> {Dot(Ident("args"), f) : f \in {"x", "z", "l"}}
                          \cup {Ident("tool"), Dot(Ident("tool"), "name"), Ident("attempt")},
          tool_result |-> {Dot(Ident("result"), f) : f \in {"b", "l", "y"}}
                          \cup {Dot(Ident("source"), "type"), Ident("args")},
          response    |-> {Ident("draft"), Dot(Ident("draft"), "y"), Dot(Ident("agent"), "name"),
                           Dot(Ident("principal"), "attrs")},
          loop        |-> {Ident("iteration"), Ident("cost_usd"), Ident("elapsed"),
                           Dot(Ident("principal"), "role")}]

Atoms(hook) == Paths[hook] \cup Literals

Tests(hook) ==
    {Unary(op, e) : op \in {"not", "has", "size", "minus", "list", "macro"}, e \in Atoms(hook)}
    \cup {Binary(op, d, e) : op \in {"eq", "lt", "in", "and", "add", "mod", "contains", "startsWith",
                                     "index", "list", "map"},
                             d \in Atoms(hook), e \in Atoms(hook)}

(* Of the tests, a few to nest.                                               *)
Clauses(hook) == {Binary("lt", d, Literal(INT, "1")) : d \in Paths[hook]}
                 \cup {Binary("lt", Unary("size", d), Literal(INT, "1")) : d \in Paths[hook]}
                 \cup {Unary("has", d) : d \in Paths[hook]}

(* What literals and their elements are good for.                            *)
Nested(hook) ==
    {Binary("eq", Binary("index", e, Literal(INT, "1")), Literal(INT, "1")) :
        e \in Atoms(hook) \cup {Binary("list", d, Literal(INT, "1")) : d \in Atoms(hook)}}
    \cup {Binary("contains", Binary("list", d, Literal(Text, "pii")), Literal(Text, "pii")) :
             d \in Atoms(hook)}
    \cup {Binary("lt", Binary("index", Binary("map", d, Literal(INT, "1")), Literal(Text, "pii")),
                       Literal(INT, "1")) : d \in Atoms(hook)}

(* The first argument of the first tool call of the first message.           *)
First(e) == Binary("index", e, Literal(INT, "0"))
Argument == Binary("index", Dot(First(Dot(First(Ident("messages")), "tool_calls")), "arguments"),
                   Literal(Text, "pii"))

(* provider_restriction of docs/SPEC.md 3.1.                                 *)
Restriction == Binary("or", Unary("not", Binary("contains", DataClasses, Literal(Text, "pii"))),
                            Binary("eq", Dot(Ident("model"), "provider"), Literal(Text, "pci")))

Rules(hook) ==
    Atoms(hook) \cup Tests(hook) \cup Nested(hook)
    \cup {Restriction, Binary("startsWith", Argument, Literal(Text, "pii"))}
    \cup {Binary("or", c, Unary("not", d)) : c \in Clauses(hook), d \in Clauses(hook)}
    \cup {Conditional(c, d, e) : c \in Clauses(hook), d \in Paths[hook],
                                 e \in Paths[hook] \cup {Literal(BOOL, "true")}}

RuleSetup ==
    \E hook \in Hooks : \E rule \in Rules(hook) :
        setup = [OneSetup EXCEPT !.policies.p.on = hook, !.policies.p.rule = rule]

(* Two tools of one operation each, of different sources; the agent has one   *)
(* of them or both.                                                          *)
TwoTools == [OneSetup EXCEPT
    !.tools = [t |-> OneTool,
               u |-> [OneTool EXCEPT !.source = "r", !.operation = "put",
                                     !.input = OfText]],
    !.operations = [s |-> [get |-> OneOperation],
                    r |-> [put |-> [OneOperation EXCEPT !.classes = {}]]]]

OneMatches == UNION {[K -> {"t", "u", "s", "r", "get", "put"}] : K \in SUBSET {"tool", "source"}}
MatchesOf == OneMatches \cup UNION {[K -> {"t", "s", "get"}] :
                                     K \in SUBSET {"tool", "source", "operation"}}
             \cup {[k \in {"model"} |-> "t"]}

MatchSetup ==
    \E tools \in {{"t"}, {"t", "u"}, {}}, match \in MatchesOf, addressed \in BOOLEAN,
       hook \in {"tool_call", "tool_result", "model_call"},
       rule \in {Literal(BOOL, "true"), Binary("lt", Dot(Ident("args"), "x"), Literal(INT, "1"))} :
        setup = [TwoTools EXCEPT
                    !.agents.a.tools = tools,
                    !.policies.p = [OnePolicy EXCEPT !.on = hook, !.match = match,
                                                     !.addressed = addressed, !.rule = rule]]

(* A tool of every input against every operation, of every output against     *)
(* what its operation returns.                                               *)
Params == Fields({"x", "y"}, [kind : {"int", "double", "string"}, required : BOOLEAN])

ParameterSetup ==
    \E input \in OfInputs, params \in Params :
        setup = [OneSetup EXCEPT !.tools.t.input = input, !.operations.s.get.params = params]

OutputSetup ==
    \E output, returns \in OfOutputs :
        setup = [OneSetup EXCEPT !.tools.t.output = output, !.operations.s.get.returns = returns]

OtherSetup ==
    \E detokenize \in {{}, {"x"}, {"q"}}, writes, priced, ceiling, approval \in BOOLEAN,
       otherwise \in {"DENY", "REQUIRE_APPROVAL"},
       rule \in {NoRule, Binary("lt", Ident("cost_usd"), Literal(DOUBLE, "1.5"))} :
        setup = [OneSetup EXCEPT
                    !.tools.t.detokenize = detokenize, !.operations.s.get.writes = writes,
                    !.agents.a.priced = priced, !.agents.a.ceiling = ceiling,
                    !.policies.p = [OnePolicy EXCEPT !.otherwise = otherwise,
                                                     !.approval = approval, !.rule = rule]]

-----------------------------------------------------------------------------
GraphInit == /\ graph \in Graphs /\ roots \in {{1}, {2, 3}} /\ WalkInit
             /\ project = NoProject /\ findings = {}

(* The references of OneProject and the schema have been checked.            *)
Checked(d) ==
    /\ project = OneProject /\ graph = Edges(project) /\ roots = Agents(project)
    /\ findings = {} /\ walk = "done" /\ starts = {} /\ active = << >>
    /\ visited = {1, 3, 5} /\ checked = <<5, 3, 1>> /\ found = << >> /\ ordered = <<5, 3, 1>>
    /\ pending = {} /\ reachable = {1, 3, 5}
    /\ document = d /\ todo = {} /\ nodes = << >> /\ memo = << >> /\ attempted = {}
    /\ reports = Remarks(Root) /\ lost = {} /\ rootTyped = (d = OneDocument) /\ compiled = TRUE

MCInit ==
    \/ /\ ResolveInit \/ GraphInit
       /\ document = OneDocument /\ CompileInit
       /\ setup = OneSetup /\ CheckInit("references")
    \/ /\ project = OneProject /\ ResolveInit
       /\ SchemaInit
       /\ setup = OneSetup /\ CheckInit("references")
    \/ /\ \/ /\ Checked(OneDocument)
             /\ RuleSetup \/ MatchSetup \/ ParameterSetup \/ OutputSetup \/ OtherSetup
          \/ Checked(UntypedDocument) /\ MatchSetup
       /\ CheckInit("rules")

MCSpec == MCInit /\ [][OfflineNext]_offlineVars /\ WF_offlineVars(CheckReferences)
=============================================================================
