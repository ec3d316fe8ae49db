--------------------------- MODULE SchemaCompiler ---------------------------
(***************************************************************************)
(* SchemaCompiler of llmform.policy.cel.schema: one schema document is       *)
(* compiled from its root, then each of its $defs, following $ref with a     *)
(* memo, a set of the references ever attempted and the list of the active   *)
(* ones.  A reference without a type is None, and whoever asked for it goes   *)
(* on without: that this is never silent rests on the order of the checks.   *)
(*                                                                         *)
(* A node is abstracted to its form and to the references in it, in order:   *)
(* an object has a type whatever its fields come to, an array or a $ref has  *)
(* one if its only reference has, an untyped node has none.  marked says     *)
(* that the node is reported for its own keywords.                           *)
(***************************************************************************)
EXTENDS Naturals, Sequences

CONSTANTS
    Names,      \* names of definitions
    Root,       \* the document itself, which no reference names
    Foreign,    \* any reference that is not #/$defs/NAME
    Documents   \* [root : Shapes, defs : a function from names to Shapes]

Forms == {"object", "wrapper", "scalar", "untyped"}
Shapes == [form : Forms, refs : Seq(Names \cup {Foreign}), marked : BOOLEAN]

WellShaped(s) == /\ s \in Shapes
                 /\ s.form = "wrapper" => Len(s.refs) = 1
                 /\ s.form \in {"scalar", "untyped"} => s.refs = << >>

IsDocument(d) == /\ WellShaped(d.root)
                 /\ DOMAIN d.defs \subseteq Names
                 /\ \A n \in DOMAIN d.defs : WellShaped(d.defs[n])

ASSUME DocumentsAssumption == /\ Root \notin Names /\ Foreign \notin Names /\ Root # Foreign
                              /\ \A d \in Documents : IsDocument(d)

VARIABLES
    document,   \* self.schema, fixed
    todo,       \* definitions the loop of compile has left
    nodes,      \* the calls of _compile_node: [of, left, typed]
    memo,       \* _memo, in the order of insertion
    attempted,  \* _attempted_refs
    reports,    \* diagnostics: [what, at, to]
    lost,       \* history: the objects that had to leave out a field
    rootTyped,  \* result is not None
    compiled    \* compile has returned

schemaVars == <<document, todo, nodes, memo, attempted, reports, lost, rootTyped, compiled>>

Defs == document.defs
ShapeOf(o) == IF o = Root THEN document.root ELSE Defs[o]

Report(what, at, to) == [what |-> what, at |-> at, to |-> to]
Remarks(o) == IF ShapeOf(o).marked \/ ShapeOf(o).form = "untyped"
              THEN {Report("keyword", o, o)} ELSE {}

NodeCall(o) == [of |-> o, left |-> ShapeOf(o).refs, typed |-> ShapeOf(o).form # "untyped"]

CompileInit == /\ todo = DOMAIN Defs
               /\ nodes = <<NodeCall(Root)>>
               /\ memo = << >>
               /\ attempted = {}
               /\ reports = Remarks(Root)
               /\ lost = {}
               /\ rootTyped = FALSE
               /\ compiled = FALSE

SchemaInit == document \in Documents /\ CompileInit

-----------------------------------------------------------------------------
Caller == nodes[Len(nodes)]
Asker == IF nodes = << >> THEN Root ELSE Caller.of

(* A field, an item, a $ref or the loop of compile comes to a reference.     *)
Asks(r) == /\ ~ compiled
           /\ IF nodes = << >> THEN r \in todo
              ELSE Caller.left # << >> /\ r = Head(Caller.left)

(* Mutant: only a reference of a definition to itself is noticed. *)
IsActiveLast(r) == nodes # << >> /\ Caller.of = r

IsActiveRef(r) == \E i \in DOMAIN nodes : nodes[i].of = r
InMemo(r) == \E i \in DOMAIN memo : memo[i] = r

Consumed == IF nodes = << >> THEN << >>
            ELSE [nodes EXCEPT ![Len(nodes)].left = Tail(@)]
Turned(r) == todo' = IF nodes = << >> THEN todo \ {r} ELSE todo

(* What a caller does with None: an object leaves the field out, what wraps   *)
(* the reference has no type either.                                         *)
WithoutType(calls) ==
    IF calls = << >> THEN calls
    ELSE [calls EXCEPT ![Len(calls)].typed = @ /\ ShapeOf(calls[Len(calls)].of).form # "wrapper"]

Losers(calls) ==
    IF calls # << >> /\ ShapeOf(calls[Len(calls)].of).form = "object"
    THEN {calls[Len(calls)].of} ELSE {}

(* _compile_ref returns None to its caller.                                  *)
NoType(r) == /\ nodes' = WithoutType(Consumed) /\ Turned(r)
             /\ lost' = lost \cup Losers(nodes)
             /\ UNCHANGED <<document, memo, rootTyped, compiled>>

Misformed ==
    /\ Asks(Foreign)
    /\ reports' = reports \cup {Report("form", Asker, Foreign)}
    /\ NoType(Foreign)
    /\ UNCHANGED attempted

Cyclic(r) ==
    /\ Asks(r) /\ r # Foreign /\ IsActiveRef(r)
    /\ reports' = reports \cup {Report("cycle", Asker, r)}
    /\ NoType(r)
    /\ UNCHANGED attempted

Remembered(r) ==
    /\ Asks(r) /\ r # Foreign /\ ~ IsActiveRef(r) /\ InMemo(r)
    /\ nodes' = Consumed /\ Turned(r)
    /\ UNCHANGED <<document, memo, attempted, reports, lost, rootTyped, compiled>>

(* Attempted before, without a type: None again, and nothing is reported.    *)
Tried(r) ==
    /\ Asks(r) /\ r # Foreign /\ ~ IsActiveRef(r) /\ ~ InMemo(r) /\ r \in attempted
    /\ NoType(r)
    /\ UNCHANGED <<attempted, reports>>

Unresolved(r) ==
    /\ Asks(r) /\ r # Foreign /\ r \notin attempted /\ r \notin DOMAIN Defs
    /\ attempted' = attempted \cup {r}
    /\ reports' = reports \cup {Report("unresolved", Asker, r)}
    /\ NoType(r)

Follow(r) ==
    /\ Asks(r) /\ r # Foreign /\ r \notin attempted /\ r \in DOMAIN Defs
    /\ attempted' = attempted \cup {r}
    /\ nodes' = Append(Consumed, NodeCall(r)) /\ Turned(r)
    /\ reports' = reports \cup Remarks(r)
    /\ UNCHANGED <<document, memo, lost, rootTyped, compiled>>

(* _compile_node returns, to _compile_ref and through it to the caller, or to *)
(* compile.                                                                  *)
Yield ==
    /\ nodes # << >> /\ Caller.left = << >>
    /\ LET below == SubSeq(nodes, 1, Len(nodes) - 1)
       IN  /\ nodes' = IF Caller.typed THEN below ELSE WithoutType(below)
           /\ lost' = lost \cup (IF Caller.typed THEN {} ELSE Losers(below))
    /\ memo' = IF Caller.typed /\ Caller.of # Root THEN Append(memo, Caller.of) ELSE memo
    /\ rootTyped' = IF Caller.of = Root THEN Caller.typed ELSE rootTyped
    /\ UNCHANGED <<document, todo, attempted, reports, compiled>>

Compiled ==
    /\ ~ compiled /\ nodes = << >> /\ todo = {}
    /\ compiled' = TRUE
    /\ UNCHANGED <<document, todo, nodes, memo, attempted, reports, lost, rootTyped>>

CompileNext ==
    \/ Misformed
    \/ \E r \in Names : \/ Cyclic(r) \/ Remembered(r) \/ Tried(r)
                        \/ Unresolved(r) \/ Follow(r)
    \/ Yield \/ Compiled

SchemaSpec == SchemaInit /\ [][CompileNext]_schemaVars

-----------------------------------------------------------------------------
Owners == DOMAIN Defs \cup {Root}
RefsOf(o) == {ShapeOf(o).refs[i] : i \in DOMAIN ShapeOf(o).refs}

(* The references of the document's definitions make no circle: every set of *)
(* definitions has one that refers to none of the set.                       *)
Acyclic == \A S \in SUBSET DOMAIN Defs :
              S # {} => \E n \in S : RefsOf(n) \cap S = {}

(* The document keeps to the profile of docs/SPEC.md 3.4.1.                  *)
InProfile == /\ \A o \in Owners : /\ ~ ShapeOf(o).marked /\ ShapeOf(o).form # "untyped"
                                  /\ RefsOf(o) \subseteq DOMAIN Defs
             /\ Acyclic

(***************************************************************************)
(* compile decides the profile: a document is reported on iff it breaks it   *)
(* somewhere, whichever node is compiled first, and one that is not reported  *)
(* on is typed throughout: the root, every definition and every field.  A    *)
(* field missing from a type without a report would make rules on it         *)
(* undefined, or the whole environment None, for no stated reason.           *)
(***************************************************************************)
SchemasAreDecided ==
    compiled => /\ reports = {} <=> InProfile
                /\ reports = {} => /\ rootTyped /\ lost = {}
                                   /\ \A n \in DOMAIN Defs : InMemo(n)
=============================================================================
