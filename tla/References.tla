----------------------------- MODULE References -----------------------------
(***************************************************************************)
(* resolve_references of llmform.config.validate: every reference of a      *)
(* project is resolved to a declaration or to a finding, the resolved ones   *)
(* make a DependencyGraph, and its walks give the rest of the findings.      *)
(*                                                                         *)
(* The fields of the configuration's models that hold references are         *)
(* abstracted to the kind each demands; suggestions and positions are left   *)
(* out.                                                                     *)
(***************************************************************************)
EXTENDS DependencyGraph

CONSTANTS
    Kind,       \* node -> kind of the address, "none" for a bare name
    Projects,   \* [declared, operations : source -> operations,
                \*  references : [from, demanded, to, operation]]
    NoProject   \* the walks may be taken of any graph

(* The kinds of resource each kind has references to.                         *)
Demands == [agent    |-> {"model", "tool", "policy"},
            policy   |-> {"tool", "source", "model", "provider"},
            tool     |-> {"source"},
            model    |-> {"provider"},
            source   |-> {},
            provider |-> {}]

ASSUME KindAssumption == Kind \in [Nodes -> DOMAIN Demands \cup {"none"}]

ASSUME ProjectsAssumption ==
    /\ NoProject \notin Projects
    /\ \A p \in Projects :
          /\ p.declared \subseteq {n \in Nodes : Kind[n] # "none"}
          /\ \A r \in p.references : /\ r.from \in p.declared
                                     /\ r.to \in Nodes
                                     /\ r.demanded \in Demands[Kind[r.from]]

VARIABLES project, findings

(* Mutant: the kind of the address is not looked at. *)
ResolvesAnyKind(p, r) == r.to \in p.declared

(* require returns the name.                                                 *)
Resolves(p, r) == Kind[r.to] = r.demanded /\ r.to \in p.declared

(* Mutant: a name that is not declared is no finding. *)
CodeOfKinds(p, r) == IF Kind[r.to] # r.demanded THEN "LLMF305" ELSE "none"

Code(p, r) ==
    CASE Kind[r.to] # r.demanded                          -> "LLMF305"
      [] Kind[r.to] = r.demanded /\ r.to \notin p.declared -> "LLMF300"
      [] /\ Resolves(p, r) /\ Kind[r.from] = "tool"
         /\ r.operation \notin p.operations[r.to]         -> "LLMF301"
      [] OTHER                                            -> "none"

Finding(code, n) == [code |-> code, at |-> n]
Errors == {"LLMF300", "LLMF301", "LLMF304", "LLMF305"}

ReferenceFindings(p) ==
    {Finding(Code(p, r), r.from) : r \in {q \in p.references : Code(p, q) # "none"}}

Edges(p) ==
    [n \in p.declared |-> {r.to : r \in {q \in p.references : q.from = n /\ Resolves(p, q)}}]

Agents(p) == {n \in p.declared : Kind[n] = "agent"}

(* Mutant: a policy named in any field of an agent is attached. *)
AttachedByName(p) == {r.to : r \in {q \in p.references : q.from \in Agents(p)}}

Attached(p) ==
    {r.to : r \in {q \in p.references : /\ q.from \in Agents(p) /\ q.demanded = "policy"
                                        /\ Resolves(p, q)}}

Warnings(p, reached) ==
    {Finding("LLMF302", n) : n \in {m \in p.declared : Kind[m] = "policy" /\ m \notin Attached(p)}}
    \cup
    {Finding("LLMF303", n) : n \in {m \in p.declared : /\ Kind[m] \notin {"policy", "agent"}
                                                       /\ m \notin reached}}

ResolveInit == /\ project \in Projects
               /\ graph = Edges(project)
               /\ roots = Agents(project)
               /\ findings = ReferenceFindings(project)
               /\ WalkInit

ResolveNext ==
    /\ Next
    /\ UNCHANGED project
    /\ findings' = findings
          \cup (IF found' # found THEN {Finding("LLMF304", found'[1])} ELSE {})
          \cup (IF walk' = "done" /\ project # NoProject THEN Warnings(project, reachable) ELSE {})

resolveVars == <<vars, project, findings>>

ResolveSpec == ResolveInit /\ [][ResolveNext]_resolveVars

-----------------------------------------------------------------------------
Valid == {f \in findings : f.code \in Errors} = {}

(***************************************************************************)
(* A project's resources cannot depend on each other in a circle: the kinds *)
(* are layered and no reference to another kind resolves, so LLMF304 is      *)
(* never reported.  Without an error every reference has its target in       *)
(* front of its consumer in the order.                                       *)
(***************************************************************************)
ProjectsAreOrdered ==
    project # NoProject /\ Walked =>
        /\ found = << >>
        /\ Valid => \A r \in project.references :
                       \E i, j \in DOMAIN ordered :
                           i < j /\ ordered[i] = r.to /\ ordered[j] = r.from

(***************************************************************************)
(* The two ways of telling whether a resource is used agree: a policy is    *)
(* reported as not attached iff the walk from the agents does not reach it,  *)
(* as any other resource is reported.                                       *)
(***************************************************************************)
UnusedIsUnreachable ==
    walk = "done" /\ project # NoProject =>
        \A n \in project.declared \ Agents(project) :
            n \notin reachable <=> \E f \in findings : f.at = n /\ f.code \in {"LLMF302", "LLMF303"}
=============================================================================
