----------------------------- MODULE PolicyRules -----------------------------
(***************************************************************************)
(* The rules of policies, before and during a run: the environments of       *)
(* llmform.policy.cel.environment, the type checker of                       *)
(* llmform.policy.cel.compiler, the checks of llmform.config.semantic, and    *)
(* the contexts that llmform.runtime hands to the rules that were accepted.   *)
(*                                                                         *)
(* A rule is the list of the nodes of its syntax tree, operands in front.     *)
(* A value is abstracted to its type, so the contexts at run time are         *)
(* written in the same terms as the environments, and to whether it is one of *)
(* celpy's own values: cel() makes those of the context's dicts only.  An     *)
(* evaluation gives such a value or raises.                                  *)
(***************************************************************************)
EXTENDS Naturals, Sequences

CONSTANTS
    TypeLevels, \* sequence of sets: the types of schemas, each behind its parts
    Catalog,    \* a schema's name -> [type, requires, isRef]
    MaxNodes,   \* bound on a rule, MAX_AST_NODES
    NoSchema,
    NoTool,     \* the hooks without one
    NoRule

-----------------------------------------------------------------------------
(* Types. *)

None == [kind |-> "none"]
BOOL == [kind |-> "bool"]
INT == [kind |-> "int"]
DOUBLE == [kind |-> "double"]
DURATION == [kind |-> "duration"]
Enumeration(members) == [kind |-> "string", enum |-> members]
Text == Enumeration({})
ListOf(t) == [kind |-> "list", item |-> t]
MapOf(key, value) == [kind |-> "map", key |-> key, value |-> value]
ObjectOf(fields) == [kind |-> "object", fields |-> fields]

CelKinds == {"bool", "int", "double", "string", "duration", "list", "map", "object"}
SchemaKinds == CelKinds \ {"duration", "map"}

FieldsOf(t) == IF t.kind = "object" THEN t.fields ELSE [f \in {} |-> None]

Parts(t) == CASE t.kind = "list"   -> {t.item}
              [] t.kind = "map"    -> {t.key, t.value}
              [] t.kind = "object" -> {t.fields[f] : f \in DOMAIN t.fields}
              [] OTHER             -> {}

TypesUpTo(n) == UNION {TypeLevels[i] : i \in 1 .. n}
Types == TypesUpTo(Len(TypeLevels))

(* A schema file is a finite tree, and what it requires are properties of it. *)
ASSUME CatalogAssumption ==
    /\ Len(TypeLevels) \in Nat
    /\ \A i \in 1 .. Len(TypeLevels) : \A t \in TypeLevels[i] :
          t.kind \in SchemaKinds /\ Parts(t) \subseteq TypesUpTo(i - 1)
    /\ \A s \in DOMAIN Catalog : /\ Catalog[s].type \in Types
                                 /\ Catalog[s].requires \subseteq DOMAIN FieldsOf(Catalog[s].type)
                                 /\ Catalog[s].isRef \in BOOLEAN

Principal == ObjectOf([id |-> Text, tenant |-> Text, role |-> Text,
                       scopes |-> ListOf(Text), attrs |-> MapOf(Text, Text)])

(* The messages of a conversation, whose contents and arguments are of the    *)
(* type json: strings to the type checker, any JSON in a run.                 *)
MessagesOf(json) ==
    LET call == [id |-> Text, name |-> Text, arguments |-> MapOf(Text, json)]
        result == [tool_call_id |-> Text, name |-> Text, content |-> json, is_error |-> BOOL]
    IN  ListOf(ObjectOf([role |-> Text, content |-> json, tool_calls |-> ListOf(ObjectOf(call)),
                         tool_results |-> ListOf(ObjectOf(result))]))
Messages == MessagesOf(Text)
Classes == ObjectOf([classes |-> ListOf(Text)])

-----------------------------------------------------------------------------
(* Rules. *)

Arity(op) == CASE op \in {"ident", "literal"}                    -> {0}
               [] op \in {"dot", "has", "not", "minus", "size"} -> {1}
               [] op = "if"                                     -> {3}
               [] op \in {"list", "map", "macro"}               -> Nat
               [] OTHER                                         -> {2}

IsRule(rule) ==
    /\ Len(rule) \in Nat \ {0} /\ DOMAIN rule = 1 .. Len(rule)
    /\ \A i \in DOMAIN rule : /\ rule[i].args \in Seq(1 .. i - 1)
                              /\ Len(rule[i].args) \in Arity(rule[i].op)
                              /\ rule[i].op = "literal" =>
                                    rule[i].type \in {None, BOOL, INT, DOUBLE, Text}

(* expression_identifiers, expression_data_classes.                          *)
Identifiers(rule) == {rule[i].name : i \in {j \in DOMAIN rule : rule[j].op = "ident"}}

IsDataClasses(rule, i) ==
    /\ rule[i].op = "dot" /\ rule[i].name = "classes"
    /\ LET of == rule[rule[i].args[1]] IN of.op = "ident" /\ of.name = "data"

(* The class is the one literal in the argument, if it is a string.          *)
ClassesNamed(rule) ==
    LET under[i \in DOMAIN rule] ==
            {i} \cup UNION {under[rule[i].args[k]] : k \in DOMAIN rule[i].args}
        classed == {i \in DOMAIN rule : rule[i].op = "contains" /\ IsDataClasses(rule, rule[i].args[1])}
        literals(i) == {l \in under[rule[i].args[2]] : rule[l].op = "literal"}
    IN  {rule[l].value : l \in {m \in DOMAIN rule : /\ \E i \in classed : literals(i) = {m}
                                                     /\ rule[m].type = Text}}

-----------------------------------------------------------------------------
(* The type checker: a node has a type or None, and findings of its own.     *)

Typed(t, codes) == [type |-> t, codes |-> codes]
Untyped == Typed(None, {"LLMF411"})
Expect(condition) == IF condition THEN {} ELSE {"LLMF411"}

Ordered(t) == t.kind \in {"int", "double", "string"}
Sized(t) == t.kind \in {"list", "map", "string"}
Numeric(t) == t.kind \in {"int", "double"}
Compatible(s, t) == s # None /\ s = t
Addable(op) == CASE op = "add"  -> {"int", "double", "string", "list"}
                 [] op = "mod"  -> {"int"}
                 [] OTHER       -> {"int", "double"}

(* "lt" stands for every ordering; _infer takes "in" for one, too.            *)
Comparisons == {"eq", "ne", "lt", "in"}
Arithmetic == {"add", "sub", "mod"}

(* Mutant: any two operands of a comparison will do. *)
ComparesAnything(op, s, t) == s # None /\ t # None

Compares(op, s, t) == Compatible(s, t) /\ (op \in {"eq", "ne"} \/ Ordered(s))

(* _infer for an operator whose operands have the types s and t.             *)
Operator(op, s, t) ==
    CASE op \in Comparisons   -> Typed(BOOL, Expect(Compares(op, s, t)))
      [] op \in {"and", "or"} -> Typed(BOOL, Expect(s = BOOL /\ t = BOOL))
      [] op \in Arithmetic    -> IF s.kind \in Addable(op) /\ s = t THEN Typed(s, {}) ELSE Untyped
      [] op = "contains"      -> Typed(BOOL, Expect(IF s.kind = "list" THEN s.item = t
                                                    ELSE s.kind = "string" /\ t = Text))
      [] op = "startsWith"    -> Typed(BOOL, Expect(s = Text /\ t = Text))
      [] op = "index"         -> (CASE s.kind = "list" -> Typed(s.item, Expect(t = INT))
                                    [] s.kind = "map"  -> Typed(s.value, Expect(t = s.key))
                                    [] OTHER           -> Untyped)
      [] OTHER                -> Untyped

(* _infer for a literal of elements, or of keys and values.                   *)
ListLiteral(ts) ==
    IF Len(ts) = 0 THEN Untyped
    ELSE Typed(IF ts[1].type = None THEN None ELSE ListOf(ts[1].type),
               Expect(\A k \in 2 .. Len(ts) : Compatible(ts[1].type, ts[k].type)))

MapLiteral(ts) ==
    IF Len(ts) = 0 \/ Len(ts) % 2 = 1 THEN Untyped
    ELSE Typed(IF None \in {ts[1].type, ts[2].type} THEN None ELSE MapOf(ts[1].type, ts[2].type),
               Expect(\A k \in 3 .. Len(ts) : Compatible(ts[2 - (k % 2)].type, ts[k].type)))

(* _infer for a node whose operands have come to ts.                          *)
OwnType(node, ts, env) ==
    CASE node.op = "ident"   -> IF node.name \in DOMAIN env THEN Typed(env[node.name], {})
                                ELSE Untyped
      [] node.op = "literal" -> Typed(node.type, Expect(node.type # None))
      [] node.op = "dot"     -> IF node.name \in DOMAIN FieldsOf(ts[1].type)
                                THEN Typed(ts[1].type.fields[node.name], {}) ELSE Untyped
      [] node.op = "has"     -> Typed(BOOL, {})
      [] node.op = "not"     -> Typed(BOOL, Expect(ts[1].type = BOOL))
      [] node.op = "minus"   -> IF Numeric(ts[1].type) THEN Typed(ts[1].type, {}) ELSE Untyped
      [] node.op = "size"    -> Typed(INT, Expect(Sized(ts[1].type)))
      [] node.op = "if"      -> IF Compatible(ts[2].type, ts[3].type)
                                THEN Typed(ts[2].type, Expect(ts[1].type = BOOL)) ELSE Untyped
      [] node.op = "list"    -> ListLiteral(ts)
      [] node.op = "map"     -> MapLiteral(ts)
      [] node.op = "macro"   -> Typed(None, {"LLMF413"})
      [] OTHER               -> Operator(node.op, ts[1].type, ts[2].type)

Inferred(node, ts, env) ==
    LET own == OwnType(node, ts, env)
    IN  Typed(own.type, own.codes \cup UNION {ts[k].codes : k \in DOMAIN ts})

Infer(rule, env) ==
    LET types[i \in DOMAIN rule] ==
            Inferred(rule[i], [k \in DOMAIN rule[i].args |-> types[rule[i].args[k]]], env)
    IN  types[Len(rule)]

(* compile_expression.                                                       *)
RuleCodes(rule, env) ==
    LET inferred == Infer(rule, env)
    IN  IF Len(rule) > MaxNodes THEN {"LLMF413"}
        ELSE inferred.codes
             \cup (IF inferred.type \in {None, BOOL} THEN {} ELSE {"LLMF412"})

-----------------------------------------------------------------------------
(* cel: the evaluator of cel-python, over a context that cel() converts.  Raised *)
(* says that it may raise.  What only values tell is left out: that an index    *)
(* may be out of range, a key absent, or a divisor zero; that "and" and "or"    *)
(* may do without an operand that raised; and that a number may come as an int, *)
(* which every operation on doubles takes.                                     *)

Raised == [kind |-> "raised"]
AnyJson == [kind |-> "any"]

(* A value is celpy's own, or may be a plain one of Python, which has not all  *)
(* that celpy calls.                                                         *)
Value(t, own) == [type |-> t, own |-> own]

(* The value of cel(): dicts become a MapType, lists stay lists and scalars    *)
(* what they are.                                                            *)
Converted(t) == Value(t, t.kind \in {"map", "object"})

(* An operation on operands that are of the types vs.                        *)
Applied(node, vs) ==
    CASE node.op = "dot" /\ node.name \in DOMAIN FieldsOf(vs[1])    -> vs[1].fields[node.name]
      [] node.op = "not" /\ vs[1] = BOOL                           -> BOOL
      [] node.op = "minus" /\ Numeric(vs[1])                       -> vs[1]
      [] node.op = "size" /\ Sized(vs[1])                          -> INT
      [] node.op = "if" /\ vs[1] = BOOL /\ vs[2] = vs[3]           -> vs[2]
      [] node.op = "list" /\ \A k \in DOMAIN vs : vs[k] = vs[1]    -> ListOf(vs[1])
      [] node.op = "map" /\ \A k \in DOMAIN vs : vs[k] = vs[2 - (k % 2)] -> MapOf(vs[1], vs[2])
      [] node.op \in {"eq", "ne"} /\ vs[1].kind = vs[2].kind       -> BOOL
      [] node.op = "lt" /\ vs[1].kind = vs[2].kind /\ Ordered(vs[1]) -> BOOL
      [] node.op = "in" /\ Sized(vs[2])                            -> BOOL
      [] node.op \in {"and", "or"} /\ vs[1] = BOOL /\ vs[2] = BOOL -> BOOL
      [] /\ node.op \in Arithmetic /\ vs[1].kind = vs[2].kind
         /\ vs[1].kind \in Addable(node.op)                        -> vs[1]
      [] /\ node.op = "contains"
         /\ vs[1].kind = "list" \/ (vs[1].kind = "string" /\ vs[2].kind = "string") -> BOOL
      [] /\ node.op = "startsWith" /\ vs[1].kind = "string" /\ vs[2].kind = "string" -> BOOL
      [] node.op = "index" /\ vs[1].kind = "list" /\ vs[2] = INT    -> vs[1].item
      [] node.op = "index" /\ vs[1].kind = "map" /\ vs[2] = vs[1].key -> vs[1].value
      [] OTHER                                                     -> Raised

(* What takes the type of a plain value as well may not take the value: "!",   *)
(* "?:" and "&&" ask for a BoolType, contains is a method of celpy's values, a  *)
(* key has to be one of celpy's or a string.                                  *)
IsKey(v) == v.type.kind = "string" \/ (v.own /\ v.type.kind \in {"int", "bool"})

Implemented(node, vs) ==
    CASE node.op \in {"not", "if", "contains"}                -> vs[1].own
      [] node.op \in {"and", "or"}                            -> vs[1].own \/ vs[2].own
      [] node.op = "index" /\ vs[1].type.kind = "map"         -> IsKey(vs[2])
      [] node.op = "map" -> \A k \in DOMAIN vs : k % 2 = 1 => IsKey(vs[k])
      [] OTHER                                                -> TRUE

(* What an operation makes is celpy's, but for what it takes out of a value    *)
(* or hands on.                                                              *)
Made(node, vs, t) ==
    CASE node.op \in {"dot", "index"}  -> Converted(t)
      [] node.op = "minus"             -> Value(t, vs[1].own)
      [] node.op = "if"                -> Value(t, vs[2].own /\ vs[3].own)
      [] node.op \in {"and", "or"}     -> Value(t, vs[1].own /\ vs[2].own)
      [] node.op \in Arithmetic        -> Value(t, t = INT /\ vs[1].own /\ vs[2].own)
      [] OTHER                         -> Value(t, TRUE)

Evaluated(node, vs, context) ==
    LET types == [k \in DOMAIN vs |-> vs[k].type]
    IN  CASE node.op = "ident" /\ node.name \in DOMAIN context -> Converted(context[node.name])
          [] node.op = "literal"                       -> Value(node.type, TRUE)
          [] node.op = "has"                           -> Value(BOOL, TRUE)
          [] /\ node.op \notin {"ident", "literal", "has"}
             /\ \A k \in DOMAIN vs : types[k] # Raised
             /\ Implemented(node, vs)                  -> Made(node, vs, Applied(node, types))
          [] OTHER                                     -> Value(Raised, FALSE)

Eval(rule, context) ==
    LET values[i \in DOMAIN rule] ==
            Evaluated(rule[i], [k \in DOMAIN rule[i].args |-> values[rule[i].args[k]]], context)
    IN  values[Len(rule)]

-----------------------------------------------------------------------------
(* What a rule may name: build_hook_environment, and what Loop passes.       *)

Hooks == {"request", "model_call", "tool_call", "tool_result", "response", "loop"}
ToolHooks == {"tool_call", "tool_result"}

(* A project as far as rules and semantics go; its references resolve.       *)
IsSetup(setup) ==
    /\ \A t \in DOMAIN setup.tools :
          LET tool == setup.tools[t]
          IN  /\ tool.source \in DOMAIN setup.operations
              /\ tool.operation \in DOMAIN setup.operations[tool.source]
              /\ tool.input \in DOMAIN Catalog /\ tool.output \in DOMAIN Catalog \cup {NoSchema}
    /\ \A s \in DOMAIN setup.operations : \A o \in DOMAIN setup.operations[s] :
          setup.operations[s][o].returns \in DOMAIN Catalog
    /\ \A a \in DOMAIN setup.agents :
          /\ setup.agents[a].tools \subseteq DOMAIN setup.tools
          /\ setup.agents[a].policies \subseteq DOMAIN setup.policies
          /\ {setup.agents[a].input, setup.agents[a].output}
                \subseteq DOMAIN Catalog \cup {NoSchema}
    /\ \A p \in DOMAIN setup.policies :
          /\ setup.policies[p].on \in Hooks
          /\ setup.policies[p].rule # NoRule => IsRule(setup.policies[p].rule)
    /\ NoTool \notin DOMAIN setup.tools

Operation(setup, t) == setup.operations[setup.tools[t].source][setup.tools[t].operation]

(* What a source returns, and what rules are compiled against.               *)
InputType(setup, t) == Catalog[setup.tools[t].input].type
Returned(setup, t) == Catalog[Operation(setup, t).returns].type
ResultType(setup, t) ==
    IF setup.tools[t].output = NoSchema THEN Returned(setup, t)
    ELSE Catalog[setup.tools[t].output].type

(* An agent without a schema has the defaults of docs/SPEC.md 2.6.1.         *)
InputOf(setup, a) == IF setup.agents[a].input = NoSchema THEN ObjectOf([message |-> Text])
                     ELSE Catalog[setup.agents[a].input].type
DraftOf(setup, a) == IF setup.agents[a].output = NoSchema THEN ObjectOf([text |-> Text])
                     ELSE Catalog[setup.agents[a].output].type

Everywhere == [principal |-> Principal,
               agent     |-> ObjectOf([name |-> Text]),
               run       |-> ObjectOf([id |-> Text, iteration |-> INT, cost_usd |-> DOUBLE,
                                       elapsed |-> DURATION, principal |-> Principal])]

AboutTool == [tool   |-> ObjectOf([name |-> Text, source |-> Text, operation |-> Text]),
              source |-> ObjectOf([name |-> Text, type |-> Text])]

Extend(f, g) == [x \in DOMAIN f \cup DOMAIN g |-> IF x \in DOMAIN g THEN g[x] ELSE f[x]]

HookEnvironment(setup, a, hook, t) ==
    Extend(Everywhere,
        CASE hook = "request"     -> [input |-> InputOf(setup, a)]
          [] hook = "model_call"  -> [model |-> ObjectOf([name |-> Text, id |-> Text,
                                                          provider |-> Text]),
                                      messages |-> Messages, data |-> Classes]
          [] hook = "tool_call"   -> Extend(AboutTool, [args |-> InputType(setup, t)])
          [] hook = "tool_result" -> Extend(AboutTool, [result |-> ResultType(setup, t)])
          [] hook = "response"    -> [draft |-> DraftOf(setup, a)]
          [] hook = "loop"        -> [iteration |-> INT, cost_usd |-> DOUBLE,
                                      elapsed |-> DURATION])

(* What the loop says of a tool: strings, which is all that match looks at.    *)
ToolStrings == [tool |-> Text, source |-> Text, operation |-> Text]

RequestContext(setup, a) ==
    [principal |-> Principal, input |-> InputOf(setup, a), agent |-> ObjectOf([name |-> Text]),
     run |-> ObjectOf([id |-> Text, iteration |-> INT, cost_usd |-> DOUBLE])]
LoopHookContext == [iteration |-> INT, cost_usd |-> DOUBLE, principal |-> Principal]
ModelCallContext == [model |-> ObjectOf([id |-> Text, provider |-> Text]),
                     messages |-> MessagesOf(AnyJson), data |-> Classes]
ResponseContext(setup, a) == [principal |-> Principal, draft |-> DraftOf(setup, a)]
ToolContext == Extend(ToolStrings, [principal |-> Principal])
ToolCallContext(setup, t) ==
    Extend(ToolContext, [args |-> InputType(setup, t), attempt |-> INT])
ToolResultContext(setup, t) == Extend(ToolContext, [result |-> Returned(setup, t)])

LoopContext(setup, a, hook, t) ==
    CASE hook = "request"     -> RequestContext(setup, a)
      [] hook = "model_call"  -> ModelCallContext
      [] hook = "tool_call"   -> ToolCallContext(setup, t)
      [] hook = "tool_result" -> ToolResultContext(setup, t)
      [] hook = "response"    -> ResponseContext(setup, a)
      [] hook = "loop"        -> LoopHookContext

(* PolicyEngine._matches takes the kind off any address, an operation's too,  *)
(* and finds no key of another hook.                                         *)
Strings(setup, hook, t) ==
    IF hook \in ToolHooks
    THEN [tool |-> t, source |-> setup.tools[t].source, operation |-> setup.tools[t].operation]
    ELSE [key \in {} |-> ""]

Matches(match, strings) ==
    \A key \in DOMAIN match : key \in DOMAIN strings /\ strings[key] = match[key]

-----------------------------------------------------------------------------
(* validate_policy_rules: each attached policy in each environment.          *)

(* Mutant: a match without a source matches no tool. *)
MatchedBySource(setup, a, match) ==
    {t \in setup.agents[a].tools :
        match # << >> => "source" \in DOMAIN match /\ match.source = setup.tools[t].source}

(* The tools of the agent that the policy's match lets through.              *)
Matched(setup, a, match) ==
    {t \in setup.agents[a].tools :
        /\ "tool" \in DOMAIN match => t = match.tool
        /\ "source" \in DOMAIN match => setup.tools[t].source = match.source
        /\ "operation" \in DOMAIN match => setup.tools[t].operation = match.operation}

(* The address of an operation, "operation.get", is a name that no tool has.  *)
IsAddress(policy) == "operation" \in DOMAIN policy.match /\ policy.addressed

Contexts(setup, a, p) ==
    LET policy == setup.policies[p]
    IN  IF policy.rule = NoRule THEN {}
        ELSE IF policy.on \notin ToolHooks THEN {NoTool}
        ELSE IF IsAddress(policy) THEN {} ELSE Matched(setup, a, policy.match)

-----------------------------------------------------------------------------
(* validate_semantics. *)

(* Mutant: a narrower enumeration is the one with more members. *)
NarrowsWidening(enum, contract) == contract = {} \/ contract \subseteq enum

NarrowsEnum(enum, contract) == contract = {} \/ (enum # {} /\ enum \subseteq contract)

(* _type_narrows, by what parts says of the types' parts.                    *)
NarrowsBy(candidate, contract, parts) ==
    \/ candidate.kind = "int" /\ contract.kind = "double"
    \/ /\ candidate.kind = contract.kind
       /\ CASE candidate.kind = "string" -> NarrowsEnum(candidate.enum, contract.enum)
            [] candidate.kind = "list"   -> parts[<<candidate.item, contract.item>>]
            [] candidate.kind = "map"    -> /\ parts[<<candidate.key, contract.key>>]
                                            /\ parts[<<candidate.value, contract.value>>]
            [] candidate.kind = "object" ->
                 \A f \in DOMAIN candidate.fields :
                     /\ f \in DOMAIN contract.fields
                     /\ parts[<<candidate.fields[f], contract.fields[f]>>]
            [] OTHER                     -> TRUE

narrowing[pair \in Types \X Types] == NarrowsBy(pair[1], pair[2], narrowing)

Narrows(candidate, contract) == narrowing[<<candidate, contract>>]

(* _parameter_accepts; a parameter is declared by its kind.                  *)
Accepts(type, kind) == type.kind = kind \/ (type.kind = "int" /\ kind = "double")

(* CompiledSchema.required_fields: those of the document's root, which a $ref *)
(* does not have.                                                            *)
RequiredFields(schema) == IF schema.isRef THEN {} ELSE schema.requires

InputFits(schema, params) ==
    /\ schema.type.kind = "object"
    /\ \A f \in DOMAIN schema.type.fields :
          f \in DOMAIN params /\ Accepts(schema.type.fields[f], params[f].kind)
    /\ \A q \in DOMAIN params : params[q].required => q \in RequiredFields(schema)

ToolFindings(setup, t) ==
    LET tool == setup.tools[t]
        operation == Operation(setup, t)
        fields == DOMAIN FieldsOf(InputType(setup, t))
        isObject == InputType(setup, t).kind = "object"
    IN  (IF InputFits(Catalog[tool.input], operation.params) THEN {} ELSE {"LLMF500"})
        \cup (IF tool.output # NoSchema /\ ~ Narrows(ResultType(setup, t), Returned(setup, t))
              THEN {"LLMF501"} ELSE {})
        \cup (IF isObject /\ ~ tool.detokenize \subseteq fields THEN {"LLMF506"} ELSE {})
        \cup (IF isObject /\ tool.detokenize # {} /\ operation.writes THEN {"LLMF507"} ELSE {})

MatchKeys(hook) == CASE hook \in ToolHooks     -> {"tool", "source", "operation"}
                     [] hook = "model_call"    -> {"model", "provider"}
                     [] OTHER                  -> {}

ClassesDeclared(setup, a) == UNION {Operation(setup, t).classes : t \in setup.agents[a].tools}

PolicyFindings(setup, p) ==
    LET policy == setup.policies[p]
        users == {a \in DOMAIN setup.agents : p \in setup.agents[a].policies}
    IN  (IF DOMAIN policy.match \subseteq MatchKeys(policy.on) THEN {} ELSE {"LLMF502"})
        \cup (IF policy.otherwise = "REQUIRE_APPROVAL" /\ ~ policy.approval
              THEN {"LLMF504"} ELSE {})
        \cup (IF policy.rule # NoRule /\ \E a \in users :
                    ~ ClassesNamed(policy.rule) \subseteq ClassesDeclared(setup, a)
              THEN {"LLMF503"} ELSE {})

(* A price is needed for a ceiling and for a rule that names the cost.       *)
CostRequired(setup, a) ==
    \/ setup.agents[a].ceiling
    \/ \E p \in setup.agents[a].policies :
          setup.policies[p].rule # NoRule /\ "cost_usd" \in Identifiers(setup.policies[p].rule)

SemanticFindings(setup) ==
    (UNION {ToolFindings(setup, t) : t \in DOMAIN setup.tools})
    \cup (UNION {PolicyFindings(setup, p) : p \in DOMAIN setup.policies})
    \cup (IF \E a \in DOMAIN setup.agents : CostRequired(setup, a) /\ ~ setup.agents[a].priced
          THEN {"LLMF505"} ELSE {})

Warning == {"LLMF507"}
=============================================================================
