--------------------------- MODULE OfflineChecks ---------------------------
(***************************************************************************)
(* _check_project of llmform.cli once the configuration is typed: the         *)
(* references, the schemas, the rules and the semantic checks, each run       *)
(* whatever the others report; and the dispatches of a run of the project     *)
(* that they accept.                                                         *)
(*                                                                         *)
(* A project has one schema document, which gives the types of the setup's    *)
(* inputs and outputs.                                                       *)
(***************************************************************************)
EXTENDS References, SchemaCompiler, PolicyRules

CONSTANT Strung     \* strings, for the values of types

ASSUME StrungAssumption ==
    \A t \in Types : t.kind = "string" => t.enum \subseteq Strung /\ t.enum # Strung

VARIABLES
    stage,      \* "references", "schemas", "rules", "semantics", "accepted", "refused"
    setup,
    codes,      \* findings of the rules and of the semantic checks
    typed,      \* the rules compiled: [agent, policy, tool]
    outcome     \* of the last rule evaluated in a run

checkVars == <<stage, setup, codes, typed, outcome>>
offlineVars == <<resolveVars, schemaVars, checkVars>>

NotEvaluated == [agent |-> "", policy |-> "", tool |-> NoTool, type |-> None]

CheckInit(first) == /\ IsSetup(setup)
                    /\ stage = first
                    /\ codes = {} /\ typed = {}
                    /\ outcome = NotEvaluated

CheckReferences == /\ stage = "references" /\ ResolveNext
                   /\ UNCHANGED <<schemaVars, checkVars>>

ReferencesChecked == /\ stage = "references" /\ walk = "done" /\ project # NoProject
                     /\ stage' = "schemas"
                     /\ UNCHANGED <<resolveVars, schemaVars, setup, codes, typed, outcome>>

CheckSchemas == /\ stage = "schemas" /\ CompileNext
                /\ UNCHANGED <<resolveVars, checkVars>>

SchemasChecked == /\ stage = "schemas" /\ compiled
                  /\ stage' = "rules"
                  /\ UNCHANGED <<resolveVars, schemaVars, setup, codes, typed, outcome>>

(* build_hook_environment gives none when a schema it loads is reported on.   *)
HasEnvironment(hook) == reports = {} \/ hook \in {"model_call", "loop"}

Attachments == {[agent |-> a, policy |-> p, tool |-> t] :
                   a \in DOMAIN setup.agents, p \in DOMAIN setup.policies,
                   t \in DOMAIN setup.tools \cup {NoTool}}

Compilable == {c \in Attachments :
                  /\ c.policy \in setup.agents[c.agent].policies
                  /\ c.tool \in Contexts(setup, c.agent, c.policy)
                  /\ HasEnvironment(setup.policies[c.policy].on)}

(* validate_policy_rules. *)
CheckRules ==
    /\ stage = "rules"
    /\ typed' = Compilable
    /\ codes' = codes \cup UNION {RuleCodes(setup.policies[c.policy].rule,
                                      HookEnvironment(setup, c.agent, setup.policies[c.policy].on,
                                                      c.tool)) : c \in Compilable}
    /\ stage' = "semantics"
    /\ UNCHANGED <<resolveVars, schemaVars, setup, outcome>>

(* Mutant: the findings of the later stages alone decide. *)
AcceptsUnresolved ==
    /\ stage = "semantics"
    /\ codes' = codes \cup SemanticFindings(setup)
    /\ stage' = IF reports = {} /\ codes' \subseteq Warning THEN "accepted" ELSE "refused"
    /\ UNCHANGED <<resolveVars, schemaVars, setup, typed, outcome>>

CheckSemantics ==
    /\ stage = "semantics"
    /\ codes' = codes \cup SemanticFindings(setup)
    /\ stage' = IF Valid /\ reports = {} /\ codes' \subseteq Warning THEN "accepted" ELSE "refused"
    /\ UNCHANGED <<resolveVars, schemaVars, setup, typed, outcome>>

-----------------------------------------------------------------------------
(* A run evaluates the rule of a policy that is in force at the hook.  At the *)
(* tool hooks it may do so for any tool of the project.                      *)
InForce(a, p, t) ==
    LET policy == setup.policies[p]
    IN  /\ p \in setup.agents[a].policies /\ policy.rule # NoRule
        /\ IF policy.on \in ToolHooks THEN t \in DOMAIN setup.tools ELSE t = NoTool
        /\ Matches(policy.match, Strings(setup, policy.on, t))

Evaluate(a, p, t) ==
    /\ stage = "accepted" /\ InForce(a, p, t)
    /\ outcome' = [agent |-> a, policy |-> p, tool |-> t,
                   type |-> Eval(setup.policies[p].rule,
                                 LoopContext(setup, a, setup.policies[p].on, t)).type]
    /\ UNCHANGED <<resolveVars, schemaVars, stage, setup, codes, typed>>

Dispatch == \E c \in Attachments : Evaluate(c.agent, c.policy, c.tool)

OfflineInit == ResolveInit /\ SchemaInit /\ CheckInit("references")

OfflineNext == \/ CheckReferences \/ ReferencesChecked \/ CheckSchemas \/ SchemasChecked
               \/ CheckRules \/ CheckSemantics \/ Dispatch

OfflineSpec == OfflineInit /\ [][OfflineNext]_offlineVars

-----------------------------------------------------------------------------
(***************************************************************************)
(* Every rule that a run evaluates for a tool of the agent, or without a     *)
(* tool, was compiled when the project was accepted: the checks leave no      *)
(* rule out for which an environment is missing, and what match lets through  *)
(* in a run it let through in the checks, which read other fields.  (Not so   *)
(* if the match has the address of an operation for its name.)               *)
(***************************************************************************)
DispatchesWereCompiled ==
    /\ outcome # NotEvaluated
    /\ outcome.tool \in setup.agents[outcome.agent].tools \cup {NoTool}
    /\ ~ IsAddress(setup.policies[outcome.policy])
    => [agent |-> outcome.agent, policy |-> outcome.policy, tool |-> outcome.tool] \in typed

(* Rules that ask for a value of celpy's own only where one was made: what     *)
(* "!", "?:", "&&", "||" and contains demand it of is not taken from the       *)
(* context, and keys are literals.  None has an "in", which the type checker   *)
(* takes for an ordering: 1 in 2 is compiled without a finding, and raises.    *)
MakesOwn(node) == node.op \notin {"ident", "dot", "index", "minus", "if"} \cup Arithmetic
IsKeyLiteral(node) == node.op = "literal" /\ node.type # DOUBLE

KeepsToCel(rule) ==
    \A i \in DOMAIN rule :
        LET node == rule[i]
            operands == [k \in DOMAIN node.args |-> rule[node.args[k]]]
        IN  /\ node.op # "in"
            /\ node.op \in {"not", "if", "contains", "and", "or"} => MakesOwn(operands[1])
            /\ node.op \in {"and", "or"} => MakesOwn(operands[2])
            /\ node.op = "index" => IsKeyLiteral(operands[2])
            /\ node.op = "map" => \A k \in DOMAIN operands : k % 2 = 1 => IsKeyLiteral(operands[k])

TestsMembership(rule) == \E i \in DOMAIN rule : rule[i].op = "in"

EvaluatesToBool(c) ==
    Eval(setup.policies[c.policy].rule,
         HookEnvironment(setup, c.agent, setup.policies[c.policy].on, c.tool)).type = BOOL

(***************************************************************************)
(* A rule that was compiled without a finding evaluates to a bool, and does   *)
(* not raise, whenever the environment is as it was compiled against, if the  *)
(* rule keeps to what cel() converts.                                        *)
(***************************************************************************)
AcceptedRulesEvaluate ==
    stage = "accepted" =>
        \A c \in typed : KeepsToCel(setup.policies[c.policy].rule) => EvaluatesToBool(c)

(***************************************************************************)
(* tests/test_cel_compiler.py has "!flag", "flag && true" and                *)
(* "items.contains(1)" for supported, docs/SPEC.md 3.1 has such a rule, and   *)
(* the compiler's own words are that a rule "must evaluate to bool": so every *)
(* rule that was accepted does, in the environment it was compiled against    *)
(* ("in" apart).                                                             *)
(***************************************************************************)
CompiledRulesEvaluate ==
    stage = "accepted" =>
        \A c \in typed : ~ TestsMembership(setup.policies[c.policy].rule) => EvaluatesToBool(c)

(***************************************************************************)
(* docs/SPEC.md 3.3 has the same variables for every hook, "principal, input, *)
(* agent, run", and more at the later ones: so a validated rule evaluates to  *)
(* a bool in the context that the loop gives it, too, when it would in its    *)
(* environment.                                                              *)
(***************************************************************************)
ValidatedRulesEvaluate ==
    outcome # NotEvaluated /\ KeepsToCel(setup.policies[outcome.policy].rule) =>
        outcome.type = BOOL

-----------------------------------------------------------------------------
(* The values of a type, in a world of two numbers and of strings, of which   *)
(* no enumeration has all; the fields of an object are optional.             *)
Selections(fields, among) ==
    UNION {{g \in [F -> UNION {among[fields[f]] : f \in F}] :
               \A f \in F : g[f] \in among[fields[f]]} : F \in SUBSET DOMAIN fields}

ValuesOf(t, among) ==
    CASE t.kind = "int"    -> {<<"number", 1>>}
      [] t.kind = "double" -> {<<"number", 1>>, <<"number", 2>>}
      [] t.kind = "string" -> {<<"text", s>> : s \in IF t.enum = {} THEN Strung ELSE t.enum}
      [] t.kind = "list"   -> {<<"list", S>> : S \in SUBSET among[t.item]}
      [] t.kind = "object" -> {<<"object", o>> : o \in Selections(t.fields, among)}
      [] OTHER             -> {<<t.kind, 0>>}

values[t \in Types] == ValuesOf(t, values)

(* The arguments that keep to the tool's input: which are there, and of       *)
(* which kind (a whole number may stand for any number).                     *)
Arguments(schema) ==
    {args \in UNION {[F -> SchemaKinds] : F \in SUBSET DOMAIN FieldsOf(schema.type)} :
        /\ schema.requires \subseteq DOMAIN args
        /\ \A f \in DOMAIN args : \/ args[f] = schema.type.fields[f].kind
                                  \/ args[f] = "int" /\ schema.type.fields[f].kind = "double"}

Takes(operation, args) ==
    /\ {q \in DOMAIN operation.params : operation.params[q].required} \subseteq DOMAIN args
    /\ \A f \in DOMAIN args :
          /\ f \in DOMAIN operation.params
          /\ \/ args[f] = operation.params[f].kind
             \/ args[f] = "int" /\ operation.params[f].kind = "double"

IsRefused(t) == \E args \in Arguments(Catalog[setup.tools[t].input]) :
                    ~ Takes(Operation(setup, t), args)

(* A $ref in place of the input's root hides what the input requires.         *)
HidesRequired(t) == /\ Catalog[setup.tools[t].input].isRef
                    /\ \E q \in DOMAIN Operation(setup, t).params :
                          Operation(setup, t).params[q].required

(***************************************************************************)
(* The checks of a tool against its operation decide what they stand for:     *)
(* LLMF500 is reported iff some arguments that keep to the tool's input are   *)
(* not the operation's, or what the input requires was not seen; LLMF501 iff  *)
(* the tool's output admits a value that the operation never returns.        *)
(***************************************************************************)
ToolsAreDecided ==
    stage \in {"accepted", "refused"} =>
        /\ "LLMF500" \in codes <=>
              \E t \in DOMAIN setup.tools :
                  InputType(setup, t).kind # "object" \/ IsRefused(t) \/ HidesRequired(t)
        /\ "LLMF501" \in codes <=>
              \E t \in DOMAIN setup.tools :
                  /\ setup.tools[t].output # NoSchema
                  /\ ~ values[ResultType(setup, t)] \subseteq values[Returned(setup, t)]

(***************************************************************************)
(* What "validate" promises of the project that all of its stages together    *)
(* accept: the order has every resource behind what it refers to, the schemas *)
(* keep to the profile, an operation takes whatever arguments keep to the     *)
(* input of its tool, and it may return whatever the tool's output admits.    *)
(***************************************************************************)
AcceptedProjectsAreSound ==
    stage = "accepted" =>
        /\ \A r \in project.references :
              \E i, j \in DOMAIN ordered : i < j /\ ordered[i] = r.to /\ ordered[j] = r.from
        /\ InProfile
        /\ \A t \in DOMAIN setup.tools :
              /\ InputType(setup, t).kind = "object" /\ ~ IsRefused(t)
              /\ setup.tools[t].output # NoSchema =>
                    values[ResultType(setup, t)] \subseteq values[Returned(setup, t)]
=============================================================================
