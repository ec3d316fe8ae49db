--------------------------- MODULE Configuration ---------------------------
(***************************************************************************)
(* load_project of llmform.config.loader and resolve_interpolations: the      *)
(* files of a project are read one at a time and merged into one mapping,     *)
(* whose ${...} values are resolved before the schema looks at it, unless     *)
(* there are none.                                                           *)
(*                                                                         *)
(* A file's mapping is a sequence of entries, since a key may be repeated;    *)
(* the entry of a resource block is a sequence of resources.  A resource is   *)
(* its fields, a field is <<space, type, text>>: a "plain" value of a type,   *)
(* ${env.text}, ${var.text}, ${secret.text}, or "partial", a string with ${   *)
(* in it.  What is no block has one resource without a name.                 *)
(***************************************************************************)
EXTENDS Naturals, Sequences, FiniteSets, TLC

CONSTANTS
    Environ,    \* os.environ: a function from names to texts
    Readings    \* the types that a text of --var can be parsed as

Blocks == {"variables", "providers", "models", "sources", "tools", "policies", "agents"}
Singletons == {"version", "audit"}

Pending == {"env", "var", "secret"}
String(text) == <<"plain", "string", text>>

Empty == [k \in {} |-> k]

(* What f has and, where it has nothing, what g has.                         *)
Joined(f, g) == [x \in DOMAIN f \cup DOMAIN g |-> IF x \in DOMAIN f THEN f[x] ELSE g[x]]
Holding(f, x, entry) == Joined(f, [y \in {x} |-> entry])

(* What a file may hold.                                                     *)
IsList(s) == s \in Seq({s[i] : i \in DOMAIN s})
IsContent(content) ==
    /\ IsList(content.entries)
    /\ \A i \in DOMAIN content.entries :
          LET of == content.entries[i].of
          IN  /\ IsList(of)
              /\ \A j \in DOMAIN of : of[j].fields = [x \in DOMAIN of[j].fields |-> of[j].fields[x]]

(* yaml.load keeps the last of the entries of one key.                       *)
Latest(s) == [n \in {s[i].name : i \in DOMAIN s} |->
                 s[CHOOSE i \in DOMAIN s : /\ s[i].name = n
                                           /\ \A j \in DOMAIN s : s[j].name = n => j <= i]]

Loaded(content) ==
    LET top == Latest(content.entries)
    IN  [k \in DOMAIN top |->
            LET of == Latest(top[k].of)
            IN  [block |-> top[k].block, resources |-> [n \in DOMAIN of |-> of[n].fields]]]

(* _collect_positions. *)
Repeats(s) == \E i, j \in DOMAIN s : i < j /\ s[i].name = s[j].name
Marks(content) ==
    {"LLMF002" : s \in {s \in {content.entries} \cup
                              {content.entries[i].of : i \in DOMAIN content.entries} : Repeats(s)}}
    \cup (IF content.recursive THEN {"LLMF006"} ELSE {})

-----------------------------------------------------------------------------
(* A document: what is merged, the file in which each resource has its       *)
(* position, and the findings.                                               *)
NewDocument == [merged |-> Empty, owners |-> Empty, codes |-> {}]

Resources(config, k) == IF k \in DOMAIN config /\ config[k].block THEN config[k].resources ELSE Empty

Paths(config) == UNION {{<<k, n>> : n \in DOMAIN config[k].resources} : k \in DOMAIN config}

IsBlock(loaded, k) == k \in Blocks /\ loaded[k].block

Clashing(merged, loaded, k) == DOMAIN merged[k].resources \cap DOMAIN loaded[k].resources

MergeCodes(merged, loaded) ==
    LET common == DOMAIN merged \cap DOMAIN loaded
    IN  {"LLMF003" : k \in {k \in common : /\ IsBlock(loaded, k) /\ merged[k].block
                                           /\ Clashing(merged, loaded, k) # {}}}
        \cup {"LLMF004" : k \in {k \in common : ~ IsBlock(loaded, k)}}

(* A block that comes after a value that is none is passed over in silence.   *)
MergedEntry(merged, loaded, k) ==
    IF k \notin DOMAIN loaded THEN merged[k]
    ELSE IF k \notin DOMAIN merged THEN loaded[k]
    ELSE IF IsBlock(loaded, k) /\ merged[k].block
    THEN [merged[k] EXCEPT !.resources = Joined(@, loaded[k].resources)]
    ELSE merged[k]

(* _merge. *)
Merge(doc, file, loaded) ==
    LET rejected == {k \in DOMAIN doc.merged \cap DOMAIN loaded : ~ IsBlock(loaded, k)}
    IN  [merged |-> [k \in DOMAIN doc.merged \cup DOMAIN loaded |-> MergedEntry(doc.merged, loaded, k)],
         owners |-> Joined(doc.owners, [path \in {q \in Paths(loaded) : q[1] \notin rejected} |-> file]),
         codes  |-> doc.codes \cup MergeCodes(doc.merged, loaded)]

(* One turn of the loop of load_project.                                     *)
Added(doc, file, content) ==
    IF ~ content.parses THEN [doc EXCEPT !.codes = @ \cup {"LLMF001"}]
    ELSE IF content.root = "nothing" THEN doc
    ELSE IF content.root # "mapping" THEN [doc EXCEPT !.codes = @ \cup Marks(content) \cup {"LLMF005"}]
    ELSE Merge([doc EXCEPT !.codes = @ \cup Marks(content)], file, Loaded(content))

-----------------------------------------------------------------------------
(* What the schema of the configuration says of the fields.                  *)
Scalars == {"string", "integer", "number", "boolean"}
FieldTypes ==
    [variables |-> [type |-> {"string"}, default |-> Scalars, required |-> {"boolean"}],
     providers |-> [type |-> {"string"}, api_key |-> {"string"}, endpoint |-> {"string"}],
     models    |-> [provider |-> {"string"}, id |-> {"string"}, max_tokens |-> {"integer"}],
     sources   |-> [type |-> {"string"}, command |-> {"list"}, base_url |-> {"string"},
                    returns |-> {"string"}],
     tools     |-> [source |-> {"string"}, operation |-> {"string"}, input |-> {"string"},
                    output |-> {"string"}],
     policies  |-> [on |-> {"string"}, rule |-> {"string"}],
     agents    |-> [model |-> {"string"}, instructions |-> {"string"}, input |-> {"string"},
                    output |-> {"string"}, policies |-> {"list"}],
     version   |-> [value |-> {"string"}],
     audit     |-> [record_payloads |-> {"boolean"}]]

Needed == [variables |-> {}, providers |-> {"type"}, models |-> {"provider", "id"},
           sources |-> {"type", "returns"}, tools |-> {"source", "operation", "input"},
           policies |-> {"on"}, agents |-> {"model", "instructions"},
           version |-> {"value"}, audit |-> {}]

(* What is left of an interpolation is a string.                             *)
TypeOf(field) == IF field[1] = "plain" THEN field[2] ELSE "string"

FitsSchema(k, fields) ==
    /\ Needed[k] \subseteq DOMAIN fields
    /\ \A x \in DOMAIN fields : /\ x \in DOMAIN FieldTypes[k]
                                /\ TypeOf(fields[x]) \in FieldTypes[k][x]

DeclaredType(fields) == IF "type" \in DOMAIN fields THEN fields.type[3] ELSE "string"

(* Variable.validate_default_type: no text is taken for a number here.       *)
DefaultFits(fields) ==
    "default" \in DOMAIN fields =>
        \/ TypeOf(fields.default) = DeclaredType(fields)
        \/ TypeOf(fields.default) = "integer" /\ DeclaredType(fields) = "number"

FitsEntry(k, entry) ==
    /\ k \in Blocks \cup Singletons
    /\ k \in Blocks => entry.block
    /\ \A n \in DOMAIN entry.resources : FitsSchema(k, entry.resources[n])

(* validate_config_schema and ProjectConfig.model_validate. *)
SchemaFindings(config) ==
    IF /\ \A k \in DOMAIN config : FitsEntry(k, config[k])
       /\ \A n \in DOMAIN Resources(config, "variables") : DefaultFits(config.variables.resources[n])
    THEN {} ELSE {"LLMF100"}

-----------------------------------------------------------------------------
(* resolve_interpolations; given are the values of --var.                    *)

Fields(config) == UNION {UNION {{config[k].resources[n][x] : x \in DOMAIN config[k].resources[n]}
                                : n \in DOMAIN config[k].resources} : k \in DOMAIN config}

IsPending(config) == \E field \in Fields(config) : field[1] \in Pending

Declarations(config) == Resources(config, "variables")

Overridden(config, given) ==
    {v \in DOMAIN given \cap DOMAIN Declarations(config) :
        DeclaredType(Declarations(config)[v]) \in Readings[given[v]]}

Defaulted(config) == {v \in DOMAIN Declarations(config) : "default" \in DOMAIN Declarations(config)[v]}

(* A default is taken as it is written, with its own ${...} if it has one.    *)
Variables(config, given) ==
    [v \in Overridden(config, given) \cup Defaulted(config) |->
        IF v \in Overridden(config, given)
        THEN <<"plain", DeclaredType(Declarations(config)[v]), given[v]>>
        ELSE Declarations(config)[v].default]

IsRequired(fields) == /\ "required" \in DOMAIN fields
                      /\ fields.required # <<"plain", "boolean", "false">>

IsDefined(config, given, field) ==
    CASE field[1] = "var"               -> field[3] \in DOMAIN Variables(config, given)
      [] field[1] \in {"env", "secret"} -> field[3] \in DOMAIN Environ
      [] OTHER                          -> TRUE

Resolved(config, given, field) ==
    IF ~ IsDefined(config, given, field) THEN field
    ELSE CASE field[1] = "var"               -> Variables(config, given)[field[3]]
           [] field[1] \in {"env", "secret"} -> String(Environ[field[3]])
           [] OTHER                          -> field

InterpolationFindings(config, given) ==
    {"LLMF202" : v \in DOMAIN given \ DOMAIN Declarations(config)}
    \cup {"LLMF203" : v \in (DOMAIN given \cap DOMAIN Declarations(config))
                             \ Overridden(config, given)}
    \cup {"LLMF200" : v \in {v \in DOMAIN Declarations(config) \ DOMAIN Variables(config, given) :
                                IsRequired(Declarations(config)[v])}}
    \cup {"LLMF201" : field \in {f \in Fields(config) : f[1] = "partial"}}
    \cup {"LLMF200" : field \in {f \in Fields(config) : ~ IsDefined(config, given, f)}}

Resolve(config, given) ==
    [k \in DOMAIN config |->
        [config[k] EXCEPT !.resources =
            [n \in DOMAIN @ |-> [x \in DOMAIN @[n] |-> Resolved(config, given, @[n][x])]]]]

-----------------------------------------------------------------------------
(* What load_project returns with its document, and what _check_project has   *)
(* before the offline checks.                                                *)

LoadFindings(doc) ==
    IF doc.codes # {} \/ IsPending(doc.merged) THEN doc.codes ELSE SchemaFindings(doc.merged)

(* Mutant: the schema looks at a configuration before it is resolved only. *)
ProjectFindingsUnresolved(doc, given) ==
    IF LoadFindings(doc) # {} THEN LoadFindings(doc) ELSE InterpolationFindings(doc.merged, given)

ProjectFindings(doc, given) ==
    IF LoadFindings(doc) # {} THEN LoadFindings(doc)
    ELSE IF InterpolationFindings(doc.merged, given) # {} THEN InterpolationFindings(doc.merged, given)
    ELSE SchemaFindings(Resolve(doc.merged, given))
=============================================================================
