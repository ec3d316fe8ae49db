-------------------------- MODULE AuditTrail_proofs --------------------------
(***************************************************************************)
(* The log verifies and the file accounts for refusals, outside calls,      *)
(* transforms and approvals, for every set of projects, completions and     *)
(* tool values, every evaluator, and any number of exceptions, restarts and *)
(* edits of the closure.  What is proved of a run in AgentLoop_proofs holds *)
(* of its trail, whose steps are steps of AgentLoop.                        *)
(***************************************************************************)
EXTENDS AuditTrail, AgentLoop_proofs, SequenceTheorems

-----------------------------------------------------------------------------
(***************************************************************************)
(* FlattenSeq by the sequence of its values on longer and longer prefixes,  *)
(* which is what an argument by the least counterexample can use.           *)
(***************************************************************************)

(* f holds the concatenations of the first sequences of seqs, up to n of them. *)
Grows(seqs, n, f) == f = [i \in 1 .. n |-> IF i = 1 THEN seqs[i] ELSE f[i - 1] \o seqs[i]]

(* The recursive function of FlattenSeq exists: one that reaches n - 1 can be  *)
(* taken to n.                                                                *)
LEMMA Reaches ==
    ASSUME NEW seqs, NEW n \in Nat
    PROVE  \E f : Grows(seqs, n, f)
<1> DEFINE T == {m \in Nat : ~ \E f : Grows(seqs, m, f)}
<1> SUFFICES ASSUME T # {} PROVE FALSE
  OBVIOUS
<1>1. PICK m \in T : \A k \in T : m <= k
  BY LeastElement
<1>2. CASE m = 0
  <2>1. Grows(seqs, 0, [i \in 1 .. 0 |-> 0])
    BY DEF Grows
  <2> QED BY <1>1, <1>2, <2>1
<1>3. CASE m # 0
  <2>1. m \in Nat /\ m - 1 \in Nat /\ m - 1 \notin T
    BY <1>1, <1>3
  <2>2. PICK f : Grows(seqs, m - 1, f)
    BY <2>1
  <2> DEFINE g == [i \in 1 .. m |-> IF i = m THEN IF i = 1 THEN seqs[i] ELSE f[i - 1] \o seqs[i]
                                    ELSE f[i]]
  <2>3. \A i \in 1 .. m - 1 : f[i] = IF i = 1 THEN seqs[i] ELSE f[i - 1] \o seqs[i]
    BY <2>2 DEF Grows
  <2>4. \A i \in 1 .. m : g[i] = IF i = 1 THEN seqs[i] ELSE g[i - 1] \o seqs[i]
    <3> SUFFICES ASSUME NEW i \in 1 .. m PROVE g[i] = IF i = 1 THEN seqs[i] ELSE g[i - 1] \o seqs[i]
      OBVIOUS
    <3>1. i - 1 # m
      BY <2>1
    <3>2. i # 1 => i - 1 \in 1 .. m - 1 /\ g[i - 1] = f[i - 1]
      BY <2>1
    <3>3. CASE i = m
      BY <3>2, <3>3
    <3>4. CASE i # m
      <4>1. i \in 1 .. m - 1
        BY <2>1, <3>4
      <4>2. g[i] = f[i]
        BY <3>4
      <4> QED BY <2>3, <3>2, <4>1, <4>2
    <3> QED BY <3>3, <3>4
  <2>5. Grows(seqs, m, g)
    <3>1. g = [i \in 1 .. m |-> g[i]]
      OBVIOUS
    <3> HIDE DEF g
    <3> QED BY <2>4, <3>1 DEF Grows
  <2> QED BY <1>1, <2>5
<1> QED BY <1>2, <1>3

(* FlattenSeq concatenates: the last of the growing sequences is its value.    *)
LEMMA Flattening ==
    ASSUME NEW S, NEW seqs \in Seq(Seq(S)), Len(seqs) # 0
    PROVE  \E f : /\ f[1] = seqs[1]
                  /\ \A i \in 2 .. Len(seqs) : f[i] = f[i - 1] \o seqs[i]
                  /\ FlattenSeq(seqs) = f[Len(seqs)]
<1>1. Len(seqs) \in Nat
  OBVIOUS
<1> DEFINE f == CHOOSE g : Grows(seqs, Len(seqs), g)
<1>2. Grows(seqs, Len(seqs), f)
  <2>1. \E g : Grows(seqs, Len(seqs), g)
    BY <1>1, Reaches
  <2> QED BY <2>1
<1>3. FlattenSeq(seqs) = f[Len(seqs)]
  BY Zenon DEF FlattenSeq, Grows
<1>4. \A i \in 1 .. Len(seqs) : f[i] = IF i = 1 THEN seqs[i] ELSE f[i - 1] \o seqs[i]
  <2> HIDE DEF f
  <2> QED BY <1>2 DEF Grows
<1> HIDE DEF f
<1>5. f[1] = seqs[1]
  <2>1. 1 \in 1 .. Len(seqs)
    BY <1>1
  <2> QED BY <1>4, <2>1
<1>6. ASSUME NEW i \in 2 .. Len(seqs) PROVE f[i] = f[i - 1] \o seqs[i]
  <2>1. i \in 1 .. Len(seqs) /\ i # 1
    BY <1>1
  <2> QED BY <1>4, <2>1
<1> QED BY <1>3, <1>5, <1>6

-----------------------------------------------------------------------------
(***************************************************************************)
(* What one hook writes.                                                    *)
(***************************************************************************)
AllNames == UNION {{c.policies[i].name : i \in DOMAIN c.policies} : c \in Configs}

Bodies == [kind : {"decision", "transform", "approval"}, hook : HookNames,
           policy : AllNames,
           verdict : Outcomes \cup Verdicts \cup {"redact", "tokenize"}, answers : {0, 1}]

(* The records R are those of a hook: its decisions carry its verdict, and     *)
(* only a hook that transformed has transforms.                                *)
HookTrace(R, hook, outcome) ==
    /\ R \in Seq(Bodies)
    /\ \A k \in 1 .. Len(R) :
          /\ R[k].hook = hook
          /\ \/ R[k].kind = "decision" /\ R[k].verdict = outcome
             \/ R[k].kind = "transform" /\ outcome = "TRANSFORM"

Decides(R, name) == \E k \in 1 .. Len(R) : R[k].kind = "decision" /\ R[k].policy = name

(* What policies a project attaches, and with what transforms.                *)
LEMMA PolicyTypes ==
    ASSUME config \in Configs, NEW i \in DOMAIN config.policies
    PROVE  /\ config.policies[i].name \in AllNames
           /\ config.policies[i].transforms \in Seq({"redact", "tokenize"})
           /\ DOMAIN config.policies = 1 .. Len(config.policies)
           /\ Len(config.policies) \in Nat
<1>1. config.policies \in Seq({config.policies[j] : j \in DOMAIN config.policies})
  BY ConfigsAssumption
<1>2. config.policies[i].transforms \in Seq({"redact", "tokenize"})
  BY ConfigsAssumption
<1>3. config.policies[i].name \in AllNames
  BY DEF AllNames
<1> QED BY <1>1, <1>2, <1>3

(* A function on the first numbers is a sequence.                             *)
LEMMA SequenceOf ==
    ASSUME NEW S, NEW n \in Nat, NEW q, q = [k \in 1 .. n |-> q[k]],
           \A k \in 1 .. n : q[k] \in S
    PROVE  q \in Seq(S) /\ Len(q) = n
<1>1. q \in [1 .. n -> S]
  OBVIOUS
<1> QED BY <1>1, SeqDef, LenProperties

(* One policy's records: its decision, then its transforms.                   *)
LEMMA PolicyTrace ==
    ASSUME config \in Configs, NEW i \in DOMAIN config.policies, NEW hook \in HookNames,
           NEW outcome \in Outcomes
    PROVE  LET R == PolicyRecords(hook, config.policies[i], outcome)
           IN  /\ HookTrace(R, hook, outcome)
               /\ Decides(R, config.policies[i].name)
               /\ outcome # "TRANSFORM" =>
                     R = <<Record("decision", hook, config.policies[i].name, outcome)>>
<1> DEFINE p == config.policies[i]
           d == Record("decision", hook, p.name, outcome)
           t == [k \in DOMAIN p.transforms |->
                    Record("transform", hook, p.name, p.transforms[k])]
           R == PolicyRecords(hook, p, outcome)
<1>1. p.name \in AllNames /\ p.transforms \in Seq({"redact", "tokenize"})
  BY PolicyTypes
<1>2. /\ d \in Bodies /\ d.hook = hook /\ d.kind = "decision" /\ d.verdict = outcome
      /\ d.policy = p.name
  BY <1>1 DEF Bodies, Record
<1>3. ASSUME NEW k \in DOMAIN p.transforms
      PROVE  /\ t[k] \in Bodies /\ t[k].hook = hook /\ t[k].kind = "transform"
             /\ t[k].policy = p.name
  <2>1. p.transforms[k] \in {"redact", "tokenize"}
    BY <1>1
  <2> QED BY <1>1, <2>1 DEF Bodies, Record
<1>4. t \in Seq(Bodies) /\ Len(t) = Len(p.transforms) /\ Len(t) \in Nat
  <2>1. DOMAIN p.transforms = 1 .. Len(p.transforms) /\ Len(p.transforms) \in Nat
    BY <1>1
  <2>2. t = [k \in 1 .. Len(p.transforms) |-> t[k]]
    BY <2>1
  <2> HIDE DEF t
  <2> QED BY <1>3, <2>1, <2>2, SequenceOf
<1>5. CASE outcome # "TRANSFORM"
  <2>1. R = <<d>>
    <3>1. R = <<d>> \o << >>
      BY <1>5 DEF PolicyRecords
    <3> QED BY <1>2, <3>1
  <2> HIDE DEF R, d
  <2>2. R \in Seq(Bodies) /\ Len(R) = 1 /\ R[1] = d
    BY <1>2, <2>1
  <2>3. 1 .. Len(R) = {1}
    BY <2>2
  <2>4. HookTrace(R, hook, outcome) /\ Decides(R, p.name)
    BY <1>2, <2>2, <2>3 DEF HookTrace, Decides
  <2> QED BY <2>1, <2>4 DEF R, d
<1>6. CASE outcome = "TRANSFORM"
  <2>1. R = <<d>> \o t
    BY <1>6 DEF PolicyRecords
  <2> HIDE DEF R, d, t
  <2>2. /\ R \in Seq(Bodies) /\ Len(R) = 1 + Len(t) /\ R[1] = d
        /\ \A k \in 2 .. Len(R) : R[k] = t[k - 1]
    BY <1>2, <1>4, <2>1
  <2>3. \A k \in 1 .. Len(R) : R[k].policy = p.name /\ R[k].hook = hook
    <3> SUFFICES ASSUME NEW k \in 1 .. Len(R) PROVE R[k].policy = p.name /\ R[k].hook = hook
      OBVIOUS
    <3>1. k = 1 \/ (k \in 2 .. Len(R) /\ k - 1 \in DOMAIN p.transforms)
      BY <1>1, <1>4, <2>2
    <3> QED BY <1>2, <1>3, <2>2, <3>1
  <2>4. \A k \in 2 .. Len(R) : R[k].kind = "transform"
    <3> SUFFICES ASSUME NEW k \in 2 .. Len(R) PROVE R[k].kind = "transform"
      OBVIOUS
    <3>1. k - 1 \in DOMAIN p.transforms
      BY <1>1, <1>4, <2>2
    <3> QED BY <1>3, <2>2, <3>1
  <2>5. HookTrace(R, hook, outcome)
    <3> SUFFICES ASSUME NEW k \in 1 .. Len(R)
                 PROVE  \/ R[k].kind = "decision" /\ R[k].verdict = outcome
                        \/ R[k].kind = "transform"
      BY <1>6, <2>2, <2>3 DEF HookTrace
    <3>1. CASE k = 1
      BY <1>2, <2>2, <3>1
    <3>2. CASE k # 1
      <4>1. k \in 2 .. Len(R)
        BY <1>4, <2>2, <3>2
      <4> QED BY <2>4, <4>1
    <3> QED BY <3>1, <3>2
  <2>6. Decides(R, p.name)
    <3>1. 1 \in 1 .. Len(R)
      BY <1>4, <2>2
    <3> QED BY <1>2, <2>2, <3>1 DEF Decides
  <2> QED BY <1>6, <2>5, <2>6 DEF R
<1> QED BY <1>5, <1>6

(* One trace behind another of the same hook and verdict is a trace.          *)
LEMMA TraceAppend ==
    ASSUME NEW hook, NEW outcome, NEW A, NEW B, HookTrace(A, hook, outcome),
           HookTrace(B, hook, outcome)
    PROVE  /\ HookTrace(A \o B, hook, outcome)
           /\ \A name : Decides(A, name) \/ Decides(B, name) => Decides(A \o B, name)
<1> DEFINE R == A \o B
<1>1. /\ A \in Seq(Bodies) /\ B \in Seq(Bodies) /\ R \in Seq(Bodies)
      /\ Len(R) = Len(A) + Len(B) /\ Len(A) \in Nat /\ Len(B) \in Nat
  BY DEF HookTrace
<1>2. /\ \A k \in 1 .. Len(A) : R[k] = A[k]
      /\ \A k \in 1 .. Len(B) : R[Len(A) + k] = B[k]
  BY <1>1
<1> HIDE DEF R
<1>3. HookTrace(R, hook, outcome)
  <2> SUFFICES ASSUME NEW k \in 1 .. Len(R)
               PROVE  /\ R[k].hook = hook
                      /\ \/ R[k].kind = "decision" /\ R[k].verdict = outcome
                         \/ R[k].kind = "transform" /\ outcome = "TRANSFORM"
    BY <1>1 DEF HookTrace
  <2>1. CASE k <= Len(A)
    <3>1. k \in 1 .. Len(A)
      BY <1>1, <2>1
    <3> QED BY <1>2, <3>1 DEF HookTrace
  <2>2. CASE k > Len(A)
    <3> DEFINE m == k - Len(A)
    <3>1. m \in 1 .. Len(B) /\ k = Len(A) + m
      BY <1>1, <2>2
    <3> HIDE DEF m
    <3>2. R[k] = B[m]
      BY <1>2, <3>1
    <3> QED BY <3>1, <3>2 DEF HookTrace
  <2> QED BY <1>1, <2>1, <2>2
<1>4. ASSUME NEW name, Decides(A, name) PROVE Decides(R, name)
  <2>1. PICK k \in 1 .. Len(A) : A[k].kind = "decision" /\ A[k].policy = name
    BY <1>4 DEF Decides
  <2>2. k \in 1 .. Len(R) /\ R[k] = A[k]
    BY <1>1, <1>2
  <2> QED BY <2>1, <2>2 DEF Decides
<1>5. ASSUME NEW name, Decides(B, name) PROVE Decides(R, name)
  <2>1. PICK k \in 1 .. Len(B) : B[k].kind = "decision" /\ B[k].policy = name
    BY <1>5 DEF Decides
  <2>2. Len(A) + k \in 1 .. Len(R) /\ R[Len(A) + k] = B[k]
    BY <1>1, <1>2
  <2> QED BY <2>1, <2>2 DEF Decides
<1> QED BY <1>3, <1>4, <1>5 DEF R

(* A hook without records.                                                    *)
LEMMA NoTrace == \A hook, outcome : HookTrace(<< >>, hook, outcome)
BY DEF HookTrace

(* What a hook decides: the policies it applied are attached, one of them      *)
(* blocked it unless the posture did, and a hook that lets the run go on       *)
(* applied all that apply.                                                    *)
LEMMA Decision ==
    ASSUME config \in Configs, NEW hook, NEW ctx, NEW granted, NEW object
    PROVE  LET d == Decide(hook, ctx, granted, object)
           IN  /\ d.outcome \in Outcomes
               /\ d.applied \subseteq DOMAIN config.policies
               /\ d.outcome \in Blocking /\ hook # "tool_call" => d.applied # {}
               /\ d.outcome \notin Blocking \cup {"RAISE"} =>
                     \A i \in DOMAIN config.policies :
                         Applies(config.policies[i], hook, ctx) => i \in d.applied
<1> DEFINE c == [policies |-> config.policies, hook |-> hook, ctx |-> ctx,
                 approved |-> granted, posture |-> config.posture, object |-> object]
           d == Decide(hook, ctx, granted, object)
<1>1. c.policies = config.policies /\ c.hook = hook /\ c.ctx = ctx
  OBVIOUS
<1>2. d = Dispatch(c)
  BY DEF Decide
<1> HIDE DEF c, d
<1>3. Applied(c) \subseteq DOMAIN config.policies
  BY <1>1 DEF Applied
<1>4. CASE Stoppers(c) # {}
  <2>1. PICK i \in Stoppers(c) :
          /\ IsFirstStopper(c, i)
          /\ d = [outcome |-> StopOutcome(c.policies[i], c.ctx),
                  applied |-> {j \in Applied(c) : j <= i}, staged |-> {}]
          /\ StopOutcome(c.policies[i], c.ctx) \in Blocking \cup {"RAISE"}
    BY <1>1, <1>2, <1>4, ConfigFacts, StopperDecides
  <2>2. i \in Applied(c) /\ i \in Nat
    BY <1>1, ConfigFacts DEF Stoppers, Applied
  <2>3. i \in d.applied /\ d.applied \subseteq Applied(c)
    BY <2>1, <2>2
  <2>4. d.outcome \in Blocking \cup {"RAISE"}
    BY <2>1
  <2> QED BY <1>3, <2>3, <2>4 DEF d, Blocking, Outcomes
<1>5. CASE Stoppers(c) = {} /\ Unposted(c)
  <2>1. d.outcome = "DENY" /\ d.applied = {} /\ hook = "tool_call"
    BY <1>1, <1>2, <1>5, DispatchRefuses DEF Unposted
  <2> QED BY <2>1 DEF d, Blocking, Outcomes
<1>6. CASE Stoppers(c) = {} /\ ~ Unposted(c)
  <2>1. /\ d.outcome \in {"NOT_APPLICABLE", "TRANSFORM", "TRANSFORM_ERROR"}
        /\ d.applied = Applied(c)
    BY <1>2, <1>6, DispatchReleases
  <2>2. \A i \in DOMAIN config.policies :
           Applies(config.policies[i], hook, ctx) => i \in d.applied
    BY <1>1, <2>1 DEF Applied
  <2> QED BY <1>3, <2>1, <2>2 DEF d, Blocking, Outcomes
<1> QED BY <1>4, <1>5, <1>6

(* The records of a hook are a trace, every applied policy has a decision in   *)
(* them, and the last one says which policy blocked.                           *)
LEMMA DispatchTrace ==
    ASSUME config \in Configs, NEW hook \in HookNames, NEW d, d.outcome \in Outcomes,
           d.applied \subseteq DOMAIN config.policies
    PROVE  LET R == DispatchRecords(hook, d)
           IN  /\ HookTrace(R, hook, d.outcome)
               /\ d.outcome \notin {"RAISE", "TRANSFORM_ERROR"} =>
                     \A i \in d.applied : Decides(R, config.policies[i].name)
               /\ d.outcome \in Blocking /\ d.applied # {} =>
                     \E i \in d.applied :
                         /\ \A j \in d.applied : j <= i
                         /\ Len(R) > 0
                         /\ R[Len(R)] = Record("decision", hook, config.policies[i].name,
                                               d.outcome)
<1> DEFINE n == Len(config.policies)
           seqs == [i \in DOMAIN config.policies |->
                       IF i \in d.applied
                       THEN PolicyRecords(hook, config.policies[i], d.outcome)
                       ELSE << >>]
           R == DispatchRecords(hook, d)
<1>1. DOMAIN config.policies = 1 .. n /\ n \in Nat
  <2>1. config.policies \in Seq({config.policies[i] : i \in DOMAIN config.policies})
    BY ConfigsAssumption
  <2> QED BY <2>1
<1>2. CASE d.outcome \in {"RAISE", "TRANSFORM_ERROR"}
  <2>1. R = << >>
    BY <1>2 DEF DispatchRecords
  <2> HIDE DEF R
  <2>2. HookTrace(R, hook, d.outcome)
    BY <2>1, NoTrace
  <2> QED BY <1>2, <2>2 DEF R, Blocking
<1>3. CASE d.outcome \notin {"RAISE", "TRANSFORM_ERROR"}
  <2>1. R = FlattenSeq(seqs)
    BY <1>3 DEF DispatchRecords
  <2>2. CASE n = 0
    <3>1. d.applied = {}
      BY <1>1, <2>2
    <3>2. seqs = << >>
      BY <1>1, <2>2
    <3>3. R = << >>
      <4> HIDE DEF seqs
      <4> QED BY <2>1, <3>2 DEF FlattenSeq
    <3> HIDE DEF R
    <3>4. HookTrace(R, hook, d.outcome)
      BY <3>3, NoTrace
    <3> QED BY <3>1, <3>4 DEF R
  <2>3. CASE n # 0
    <3>1. ASSUME NEW i \in 1 .. n
          PROVE  /\ HookTrace(seqs[i], hook, d.outcome)
                 /\ i \in d.applied =>
                       /\ Decides(seqs[i], config.policies[i].name)
                       /\ d.outcome \in Blocking =>
                             seqs[i] = <<Record("decision", hook, config.policies[i].name,
                                                d.outcome)>>
                 /\ i \notin d.applied => seqs[i] = << >>
      <4>1. CASE i \in d.applied
        <5>1. seqs[i] = PolicyRecords(hook, config.policies[i], d.outcome)
          BY <1>1, <4>1
        <5>2. d.outcome \in Blocking => d.outcome # "TRANSFORM"
          BY DEF Blocking
        <5> HIDE DEF seqs
        <5> QED BY <1>1, <4>1, <5>1, <5>2, PolicyTrace
      <4>2. CASE i \notin d.applied
        <5>1. seqs[i] = << >>
          BY <1>1, <4>2
        <5> HIDE DEF seqs
        <5> QED BY <4>2, <5>1, NoTrace
      <4> QED BY <4>1, <4>2
    <3>2. seqs = [i \in 1 .. n |-> seqs[i]]
      BY <1>1
    <3> HIDE DEF seqs
    <3>3. seqs \in Seq(Seq(Bodies)) /\ Len(seqs) = n
      <4>1. \A i \in 1 .. n : seqs[i] \in Seq(Bodies)
        BY <3>1 DEF HookTrace
      <4> QED BY <1>1, <3>2, <4>1, SequenceOf
    <3>4. PICK f : /\ f[1] = seqs[1]
                   /\ \A i \in 2 .. n : f[i] = f[i - 1] \o seqs[i]
                   /\ R = f[n]
      BY <2>1, <2>3, <3>3, Flattening
    <3> DEFINE Grown(m) ==
            /\ HookTrace(f[m], hook, d.outcome)
            /\ \A i \in d.applied : i <= m => Decides(f[m], config.policies[i].name)
            /\ d.outcome \in Blocking /\ (\E i \in d.applied : i <= m) =>
                  \E i \in d.applied :
                      /\ \A j \in d.applied : j <= m => j <= i
                      /\ Len(f[m]) > 0
                      /\ f[m][Len(f[m])] = Record("decision", hook, config.policies[i].name,
                                                  d.outcome)
           Counter == {m \in 1 .. n : ~ Grown(m)}
    <3>5. Counter = {}
      <4> SUFFICES ASSUME Counter # {} PROVE FALSE
        OBVIOUS
      <4>1. PICK m \in Counter : \A k \in Counter : m <= k
        <5>1. Counter \subseteq Nat
          BY <1>1
        <5> HIDE DEF Counter
        <5> QED BY <5>1, LeastElement
      <4>2. m \in 1 .. n /\ ~ Grown(m)
        BY <4>1
      <4>3. CASE m \notin d.applied
        <5>1. CASE m = 1
          <6>1. f[m] = << >> /\ \A i \in d.applied : ~ i <= m
            BY <1>1, <3>1, <3>4, <4>3, <5>1
          <6> QED BY <4>2, <6>1, NoTrace
        <5>2. CASE m # 1
          <6>1. m \in 2 .. n /\ m - 1 \in 1 .. n
            BY <1>1, <4>2, <5>2
          <6>2. Grown(m - 1)
            BY <1>1, <4>1, <6>1
          <6>3. f[m] = f[m - 1]
            <7>1. f[m] = f[m - 1] \o << >>
              BY <3>1, <3>4, <4>2, <4>3, <6>1
            <7>2. f[m - 1] \in Seq(Bodies)
              BY <6>2 DEF HookTrace
            <7> QED BY <7>1, <7>2
          <6>4. \A i \in d.applied : i <= m <=> i <= m - 1
            BY <1>1, <4>2, <4>3
          <6>5. Grown(m)
            BY <6>2, <6>3, <6>4
          <6> QED BY <4>2, <6>5
        <5> QED BY <5>1, <5>2
      <4>4. CASE m \in d.applied
        <5>1. CASE m = 1
          <6>1. f[m] = seqs[m]
            BY <3>4, <5>1
          <6>2. \A i \in d.applied : i <= m => i = m
            BY <1>1, <5>1
          <6>3. HookTrace(f[m], hook, d.outcome)
            BY <3>1, <4>2, <6>1
          <6>4. \A i \in d.applied : i <= m => Decides(f[m], config.policies[i].name)
            BY <3>1, <4>2, <4>4, <6>1, <6>2
          <6>5. d.outcome \in Blocking =>
                   /\ Len(f[m]) > 0
                   /\ f[m][Len(f[m])] = Record("decision", hook, config.policies[m].name,
                                               d.outcome)
            <7> DEFINE r == Record("decision", hook, config.policies[m].name, d.outcome)
            <7>1. d.outcome \in Blocking => f[m] = <<r>>
              BY <3>1, <4>2, <4>4, <6>1
            <7> HIDE DEF r
            <7>2. Len(<<r>>) = 1 /\ <<r>>[1] = r
              OBVIOUS
            <7>3. d.outcome \in Blocking => Len(f[m]) = 1 /\ f[m][1] = r
              BY Zenon, <7>1, <7>2
            <7> QED BY <7>3 DEF r
          <6>6. m <= m
            BY <4>2
          <6>7. Grown(m)
            BY <4>4, <6>2, <6>3, <6>4, <6>5, <6>6
          <6> QED BY <4>2, <6>7
        <5>2. CASE m # 1
          <6>1. m \in 2 .. n /\ m - 1 \in 1 .. n
            BY <1>1, <4>2, <5>2
          <6>2. Grown(m - 1)
            BY <1>1, <4>1, <6>1
          <6>3. f[m] = f[m - 1] \o seqs[m]
            BY <3>4, <6>1
          <6>4. HookTrace(seqs[m], hook, d.outcome) /\ HookTrace(f[m - 1], hook, d.outcome)
            BY <3>1, <4>2, <6>2
          <6>5. HookTrace(f[m], hook, d.outcome)
            BY <6>3, <6>4, TraceAppend
          <6>6. \A i \in d.applied : i <= m => i = m \/ i <= m - 1
            BY <1>1, <4>2
          <6>7. \A i \in d.applied : i <= m => Decides(f[m], config.policies[i].name)
            <7> SUFFICES ASSUME NEW i \in d.applied, i <= m
                         PROVE  Decides(f[m], config.policies[i].name)
              OBVIOUS
            <7>1. \/ Decides(f[m - 1], config.policies[i].name)
                  \/ Decides(seqs[m], config.policies[i].name)
              BY <3>1, <4>2, <6>2, <6>6
            <7> DEFINE name == config.policies[i].name
                       A == f[m - 1]
                       B == seqs[m]
            <7>2. HookTrace(A, hook, d.outcome) /\ HookTrace(B, hook, d.outcome)
              BY <6>4
            <7>3. Decides(A, name) \/ Decides(B, name)
              BY <7>1
            <7> HIDE DEF name, A, B, Grown, Counter
            <7>4. Decides(A \o B, name)
              BY <7>2, <7>3, TraceAppend
            <7> QED BY <6>3, <7>4 DEF name, A, B
          <6>8. ASSUME d.outcome \in Blocking
                PROVE  /\ Len(f[m]) > 0
                       /\ f[m][Len(f[m])] = Record("decision", hook,
                                                   config.policies[m].name, d.outcome)
            <7> DEFINE r == Record("decision", hook, config.policies[m].name, d.outcome)
            <7>1. seqs[m] = <<r>> /\ seqs[m] \in Seq(Bodies) /\ f[m - 1] \in Seq(Bodies)
              BY <3>1, <4>2, <4>4, <6>4, <6>8 DEF HookTrace
            <7> HIDE DEF r
            <7>2. f[m] = f[m - 1] \o <<r>> /\ <<r>> \in Seq(Bodies)
              BY <6>3, <7>1
            <7>3. Len(f[m]) = Len(f[m - 1]) + 1 /\ f[m][Len(f[m])] = r
              BY <7>1, <7>2
            <7>4. Len(f[m - 1]) \in Nat
              BY <7>1
            <7> QED BY <7>3, <7>4 DEF r
          <6>9. \A j \in d.applied : j <= m => j <= m
            OBVIOUS
          <6>10. Grown(m)
            BY <4>4, <6>5, <6>7, <6>8, <6>9
          <6> QED BY <4>2, <6>10
        <5> QED BY <5>1, <5>2
      <4> QED BY <4>3, <4>4
    <3>6. Grown(n)
      <4>1. n \in 1 .. n
        BY <1>1, <2>3
      <4> QED BY <3>5, <4>1
    <3>7. \A i \in d.applied : i <= n
      BY <1>1
    <3> HIDE DEF R
    <3>8. HookTrace(R, hook, d.outcome)
      BY <3>4, <3>6
    <3>9. \A i \in d.applied : Decides(R, config.policies[i].name)
      BY <3>4, <3>6, <3>7
    <3>10. d.outcome \in Blocking /\ d.applied # {} =>
              \E i \in d.applied :
                  /\ \A j \in d.applied : j <= i
                  /\ Len(R) > 0
                  /\ R[Len(R)] = Record("decision", hook, config.policies[i].name, d.outcome)
      BY <3>4, <3>6, <3>7
    <3> QED BY <3>8, <3>9, <3>10 DEF R
  <2> QED BY <2>2, <2>3
<1> QED BY <1>2, <1>3

(* The same of a hook that the run calls.                                      *)
LEMMA HookWrites ==
    ASSUME config \in Configs, NEW hook \in HookNames, NEW ctx, NEW granted, NEW object
    PROVE  LET d == Decide(hook, ctx, granted, object)
               R == DispatchRecords(hook, d)
           IN  /\ d.outcome \in Outcomes
               /\ HookTrace(R, hook, d.outcome)
               /\ d.outcome \in Blocking /\ (hook # "tool_call" \/ d.applied # {}) =>
                     \E i \in d.applied :
                         /\ i \in DOMAIN config.policies
                         /\ \A j \in d.applied : j <= i
                         /\ Len(R) > 0
                         /\ R[Len(R)] = Record("decision", hook, config.policies[i].name,
                                               d.outcome)
               /\ d.outcome \notin Blocking \cup {"RAISE", "TRANSFORM_ERROR"} =>
                     \A i \in DOMAIN config.policies :
                         Applies(config.policies[i], hook, ctx) =>
                             Decides(R, config.policies[i].name)
<1> DEFINE d == Decide(hook, ctx, granted, object)
           R == DispatchRecords(hook, d)
<1>1. /\ d.outcome \in Outcomes
      /\ d.applied \subseteq DOMAIN config.policies
      /\ d.outcome \in Blocking /\ hook # "tool_call" => d.applied # {}
      /\ d.outcome \notin Blocking \cup {"RAISE"} =>
            \A i \in DOMAIN config.policies :
                Applies(config.policies[i], hook, ctx) => i \in d.applied
  BY Decision
<1> HIDE DEF d
<1>2. /\ HookTrace(R, hook, d.outcome)
      /\ d.outcome \notin {"RAISE", "TRANSFORM_ERROR"} =>
            \A i \in d.applied : Decides(R, config.policies[i].name)
      /\ d.outcome \in Blocking /\ d.applied # {} =>
            \E i \in d.applied :
                /\ \A j \in d.applied : j <= i
                /\ Len(R) > 0
                /\ R[Len(R)] = Record("decision", hook, config.policies[i].name, d.outcome)
  BY <1>1, DispatchTrace
<1> HIDE DEF R
<1>3. d.outcome \in Blocking /\ (hook # "tool_call" \/ d.applied # {}) =>
         \E i \in d.applied :
             /\ i \in DOMAIN config.policies
             /\ \A j \in d.applied : j <= i
             /\ Len(R) > 0
             /\ R[Len(R)] = Record("decision", hook, config.policies[i].name, d.outcome)
  BY <1>1, <1>2
<1>4. d.outcome \notin Blocking \cup {"RAISE", "TRANSFORM_ERROR"} =>
         \A i \in DOMAIN config.policies :
             Applies(config.policies[i], hook, ctx) => Decides(R, config.policies[i].name)
  BY <1>1, <1>2
<1> QED BY <1>1, <1>2, <1>3, <1>4 DEF d, R

-----------------------------------------------------------------------------
(***************************************************************************)
(* What the steps of a run write.                                           *)
(***************************************************************************)
Quiet == emitted' = << >>

Spoken == \E hook \in HookNames, outcome \in Outcomes : HookTrace(emitted', hook, outcome)

Answered == /\ state.pending # NoPending
            /\ \E verdict \in {"ALLOW", "DENY"} : emitted' = ApprovalRecord(verdict)

(* What a hook writes is the trace of its outcome.                           *)
LEMMA HookSpeaks ==
    ASSUME config \in Configs, NEW hook \in HookNames, NEW ctx, NEW granted, NEW object,
           emitted' = DispatchRecords(hook, Decide(hook, ctx, granted, object))
    PROVE  Spoken
<1> DEFINE d == Decide(hook, ctx, granted, object)
<1>1. d.outcome \in Outcomes /\ HookTrace(emitted', hook, d.outcome)
  BY HookWrites
<1> HIDE DEF d
<1> QED BY <1>1 DEF Spoken

(* A step writes nothing, what one hook decided, or one answer.              *)
LEMMA Writes ==
    ASSUME IInv, Machine \/ Calm
    PROVE  Quiet \/ Spoken \/ Answered
<1>1. config \in Configs
  BY DEF IInv, TypeOK
<1>2. CASE Start
  BY <1>1, <1>2, HookSpeaks DEF Start, HookNames
<1>3. CASE LoopHook
  BY <1>1, <1>3, HookSpeaks DEF LoopHook, HookNames
<1>4. CASE ModelHook
  BY <1>1, <1>4, HookSpeaks DEF ModelHook, HookNames
<1>5. CASE ResponseHook
  BY <1>1, <1>5, HookSpeaks DEF ResponseHook, HookNames
<1>6. CASE ToolCallHook
  BY <1>1, <1>6, HookSpeaks DEF ToolCallHook, HookNames
<1>7. CASE ToolResultHook
  BY <1>1, <1>7, HookSpeaks DEF ToolResultHook, HookNames
<1>8. CASE Settled \/ Drifted \/ Continue \/ Returned \/ Exceed \/ ExceedReserve
           \/ UnknownTool \/ Retries \/ GivesUp \/ ProviderRaises \/ EditFiles \/ Retry
           \/ Abandoned
  BY <1>8 DEF Settled, Drifted, Continue, Returned, Exceed, ExceedReserve, UnknownTool,
              Retries, GivesUp, ProviderRaises, EditFiles, Retry, Abandoned, Silent, Quiet
<1>9. ASSUME NEW c \in Completions, CallsTools(c) \/ Answers(c) \/ BreaksContract(c)
      PROVE  Quiet
  BY <1>9 DEF CallsTools, Answers, BreaksContract, Silent, Quiet
<1>10. ASSUME NEW v \in ToolValues, Succeeds(v) PROVE Quiet
  BY <1>10 DEF Succeeds, Silent, Quiet
<1>11. ASSUME NEW yes \in BOOLEAN, Answer(yes) PROVE Quiet \/ Answered
  BY <1>11 DEF Answer, Refused, Granted, ApproversRaise, Silent, Quiet, Answered
<1> QED BY <1>2, <1>3, <1>4, <1>5, <1>6, <1>7, <1>8, <1>9, <1>10, <1>11 DEF Machine, Calm

(* A step of the trail is a step of the run.                                   *)
LEMMA TrailSteps ==
    /\ TrailInit => Init
    /\ [TrailNext]_trailVars => [Next]_vars
BY DEF TrailInit, TrailNext, TrailRestart, trailVars, Next, Environment, Calm

(* Every record of a step is a record.                                         *)
LEMMA WrittenTypes ==
    ASSUME IInv, Quiet \/ Spoken \/ Answered
    PROVE  emitted' \in Seq(Bodies)
<1>1. CASE Quiet
  BY <1>1 DEF Quiet
<1>2. CASE Spoken
  BY <1>2 DEF Spoken, HookTrace
<1>3. CASE Answered
  <2>1. PICK verdict \in {"ALLOW", "DENY"} : emitted' = ApprovalRecord(verdict)
    BY <1>3 DEF Answered
  <2> DEFINE r == [kind |-> "approval", hook |-> "model_call", policy |-> state.pending.policy,
                   verdict |-> verdict, answers |-> state.auditSeq]
  <2>2. state.pending \in Pendings /\ state.auditSeq \in {0, 1} /\ config \in Configs
    BY <1>3, RunStateFields DEF IInv, TypeOK, Answered
  <2>3. state.pending.policy \in AllNames
    <3>1. PICK i \in DOMAIN config.policies :
             state.pending = [policy |-> config.policies[i].name,
                              approvers |-> config.policies[i].approvers]
      BY <2>2 DEF Pendings
    <3>2. state.pending.policy = config.policies[i].name
      BY <3>1
    <3> QED BY <2>2, <3>2, PolicyTypes
  <2>4. r \in Bodies
    BY <2>2, <2>3 DEF Bodies, HookNames, Verdicts
  <2>5. emitted' = <<r>>
    BY <2>1 DEF ApprovalRecord
  <2> HIDE DEF r
  <2> QED BY <2>4, <2>5
<1> QED BY <1>1, <1>2, <1>3

-----------------------------------------------------------------------------
(***************************************************************************)
(* How the file and the log grow, and what a restart leaves of them.        *)
(***************************************************************************)
Stamped == [body : Bodies, seq : Nat, prev : Nat]

(* The log's places are places in the file, which ends with what the last      *)
(* action wrote.                                                              *)
Placed == /\ file \in Seq(Stamped)
          /\ log \in Seq(Nat)
          /\ \A k \in 1 .. Len(log) : log[k] \in 1 .. Len(file)
          /\ emitted \in Seq(Bodies)
          /\ Len(emitted) <= Len(file)

(* The records R are appended, stamped, and nothing else is touched.           *)
LEMMA KeepFacts ==
    ASSUME Placed, NEW R \in Seq(Bodies), Keep(R)
    PROVE  /\ Len(R) \in Nat /\ Len(file) \in Nat /\ Len(log) \in Nat
           /\ file' \in Seq(Stamped) /\ Len(file') = Len(file) + Len(R)
           /\ \A k \in 1 .. Len(file) : file'[k] = file[k]
           /\ \A k \in 1 .. Len(R) : file'[Len(file) + k] = Stamp(R[k], k, log)
           /\ log' \in Seq(Nat) /\ Len(log') = Len(log) + Len(R)
           /\ \A k \in 1 .. Len(log) : log'[k] = log[k]
           /\ \A k \in 1 .. Len(R) : log'[Len(log) + k] = Len(file) + k
<1> DEFINE new == [k \in DOMAIN R |-> Stamp(R[k], k, log)]
           places == [k \in DOMAIN R |-> Len(file) + k]
<1>1. /\ Len(R) \in Nat /\ Len(file) \in Nat /\ Len(log) \in Nat /\ DOMAIN R = 1 .. Len(R)
      /\ file \in Seq(Stamped) /\ log \in Seq(Nat)
  BY DEF Placed
<1>2. LastOf(log) \in Nat
  <2>1. CASE log = << >>
    BY <2>1 DEF LastOf
  <2>2. CASE log # << >>
    <3>1. Len(log) \in 1 .. Len(log)
      BY <1>1, <2>2
    <3> QED BY <1>1, <2>2, <3>1 DEF LastOf
  <2> QED BY <2>1, <2>2
<1>3. ASSUME NEW k \in 1 .. Len(R) PROVE Stamp(R[k], k, log) \in Stamped
  <2>1. R[k] \in Bodies /\ k \in Nat
    BY <1>1
  <2>2. Len(log) + k \in Nat /\ Len(file) + k - 1 \in Nat
    BY <1>1
  <2> QED BY <1>2, <2>1, <2>2 DEF Stamp, Stamped
<1>4. new \in Seq(Stamped) /\ Len(new) = Len(R)
  <2>1. \A k \in 1 .. Len(R) : new[k] \in Stamped
    BY <1>1, <1>3
  <2>2. new = [k \in 1 .. Len(R) |-> new[k]]
    BY <1>1
  <2> HIDE DEF new
  <2> QED BY <1>1, <2>1, <2>2, SequenceOf
<1>5. places \in Seq(Nat) /\ Len(places) = Len(R)
  <2>1. \A k \in 1 .. Len(R) : places[k] \in Nat
    BY <1>1
  <2>2. places = [k \in 1 .. Len(R) |-> places[k]]
    BY <1>1
  <2> HIDE DEF places
  <2> QED BY <1>1, <2>1, <2>2, SequenceOf
<1>6. file' = file \o new /\ log' = log \o places
  BY DEF Keep
<1>7. /\ \A k \in 1 .. Len(R) : new[k] = Stamp(R[k], k, log)
      /\ \A k \in 1 .. Len(R) : places[k] = Len(file) + k
  BY <1>1
<1> HIDE DEF new, places
<1>8. /\ file' \in Seq(Stamped) /\ Len(file') = Len(file) + Len(R)
      /\ \A k \in 1 .. Len(file) : file'[k] = file[k]
      /\ \A k \in 1 .. Len(R) : file'[Len(file) + k] = new[k]
  <2>1. file' \in Seq(Stamped) /\ Len(file') = Len(file) + Len(R)
    <3>1. file \in Seq(Stamped) /\ new \in Seq(Stamped) /\ Len(new) = Len(R)
      BY <1>1, <1>4
    <3>2. file \o new \in Seq(Stamped)
      BY <3>1
    <3>3. Len(file \o new) = Len(file) + Len(new)
      BY <3>1
    <3> QED BY <1>6, <3>1, <3>2, <3>3
  <2>3. ASSUME NEW k \in 1 .. Len(file) PROVE file'[k] = file[k]
    <3>1. k \in 1 .. Len(file) + Len(new) /\ k <= Len(file)
      BY <1>1, <1>4
    <3> QED BY <1>1, <1>4, <1>6, <3>1, ConcatProperties
  <2>2. ASSUME NEW k \in 1 .. Len(R) PROVE file'[Len(file) + k] = new[k]
    BY <1>1, <1>4, <1>6, ConcatProperties
  <2> QED BY <2>1, <2>2, <2>3
<1>9. /\ log' \in Seq(Nat) /\ Len(log') = Len(log) + Len(R)
      /\ \A k \in 1 .. Len(log) : log'[k] = log[k]
      /\ \A k \in 1 .. Len(R) : log'[Len(log) + k] = places[k]
  <2>1. log' \in Seq(Nat) /\ Len(log') = Len(log) + Len(R)
    <3>1. log \in Seq(Nat) /\ places \in Seq(Nat) /\ Len(places) = Len(R)
      BY <1>1, <1>5
    <3>2. log \o places \in Seq(Nat)
      BY <3>1
    <3>3. Len(log \o places) = Len(log) + Len(places)
      <4> DEFINE N == Nat
      <4>1. log \in Seq(N) /\ places \in Seq(N)
        BY <3>1
      <4> HIDE DEF N
      <4> QED BY <4>1, ConcatProperties
    <3> QED BY <1>6, <3>1, <3>2, <3>3
  <2>3. ASSUME NEW k \in 1 .. Len(log) PROVE log'[k] = log[k]
    <3>1. k \in 1 .. Len(log) + Len(places) /\ k <= Len(log)
      BY <1>1, <1>5
    <3> QED BY <1>1, <1>5, <1>6, <3>1, ConcatProperties
  <2>2. ASSUME NEW k \in 1 .. Len(R) PROVE log'[Len(log) + k] = places[k]
    BY <1>1, <1>5, <1>6, ConcatProperties
  <2> QED BY <2>1, <2>2, <2>3
<1> QED BY <1>1, <1>7, <1>8, <1>9

(* A restart starts a new log; the file loses at most what the last action     *)
(* wrote, or everything when the run was not yet returned.                     *)
LEMMA RestartFacts ==
    ASSUME Placed, TrailRestart
    PROVE  /\ log' = << >> /\ emitted' = << >>
           /\ UNCHANGED <<config, state>>
           /\ pc' \in {"new", "idle"}
           /\ file' \in Seq(Stamped)
           /\ Len(file) \in Nat /\ Len(file') \in Nat /\ Len(emitted) \in Nat
           /\ Len(file') <= Len(file)
           /\ \A k \in 1 .. Len(file') : file'[k] = file[k]
           /\ state.status # "unstarted" => Len(file) - Len(emitted) <= Len(file')
<1>1. /\ file \in Seq(Stamped) /\ Len(file) \in Nat /\ Len(emitted) \in Nat
      /\ Len(emitted) <= Len(file)
  BY DEF Placed
<1>2. /\ log' = << >> /\ emitted' = << >> /\ UNCHANGED <<config, state>>
      /\ pc' \in {"new", "idle"}
  BY DEF TrailRestart, Restart, Silent, Again
<1>3. CASE state.status = "unstarted"
  <2>1. file' = << >>
    BY <1>3 DEF TrailRestart
  <2> QED BY <1>1, <1>2, <1>3, <2>1
<1>4. CASE state.status # "unstarted"
  <2>1. PICK n \in Torn : file' = SubSeq(file, 1, Len(file) - n)
    BY <1>4 DEF TrailRestart
  <2>2. n \in 0 .. Len(emitted)
    BY <1>1 DEF Torn
  <2> DEFINE m == Len(file) - n
  <2>3. m \in 0 .. Len(file) /\ Len(file) - Len(emitted) <= m
    BY <1>1, <2>2
  <2>4. file' = SubSeq(file, 1, m)
    BY <2>1
  <2> HIDE DEF m
  <2>5. file' \in Seq(Stamped) /\ Len(file') = m
    BY <1>1, <2>3, <2>4
  <2>6. \A k \in 1 .. m : file'[k] = file[k]
    BY <1>1, <2>3, <2>4
  <2> QED BY <1>1, <1>2, <2>3, <2>5, <2>6
<1> QED BY <1>3, <1>4

(***************************************************************************)
(* The log verifies.                                                        *)
(***************************************************************************)
LEMMA PlacedStep ==
    ASSUME IInv, Placed, LoopLogVerifies, Machine \/ Calm, Keep(emitted')
    PROVE  Placed' /\ LoopLogVerifies'
<1> DEFINE R == emitted'
<1>1. R \in Seq(Bodies)
  BY Writes, WrittenTypes
<1>2. Keep(R)
  OBVIOUS
<1>3. /\ Len(R) \in Nat /\ Len(file) \in Nat /\ Len(log) \in Nat
      /\ file' \in Seq(Stamped) /\ Len(file') = Len(file) + Len(R)
      /\ \A k \in 1 .. Len(file) : file'[k] = file[k]
      /\ \A k \in 1 .. Len(R) : file'[Len(file) + k] = Stamp(R[k], k, log)
      /\ log' \in Seq(Nat) /\ Len(log') = Len(log) + Len(R)
      /\ \A k \in 1 .. Len(log) : log'[k] = log[k]
      /\ \A k \in 1 .. Len(R) : log'[Len(log) + k] = Len(file) + k
  <2> HIDE DEF R
  <2> QED BY <1>1, <1>2, KeepFacts
<1>4. /\ log \in Seq(Nat) /\ DOMAIN log = 1 .. Len(log)
      /\ \A k \in 1 .. Len(log) : log[k] \in 1 .. Len(file)
  BY DEF Placed
<1>5. ASSUME NEW k \in 1 .. Len(log')
      PROVE  /\ log'[k] \in 1 .. Len(file')
             /\ file'[log'[k]].seq = k
             /\ file'[log'[k]].prev = IF k = 1 THEN 0 ELSE log'[k - 1]
  <2> HIDE DEF R
  <2>1. CASE k <= Len(log)
    <3>0. /\ Len(log) \in Nat /\ Len(log') \in Nat
          /\ \A i \in 1 .. Len(log) : log'[i] = log[i]
          /\ \A i \in 1 .. Len(log) : log[i] \in 1 .. Len(file)
      <4>1. Len(log) \in Nat /\ Len(log') \in Nat
        BY <1>3
      <4>2. \A i \in 1 .. Len(log) : log'[i] = log[i]
        BY <1>3
      <4>3. \A i \in 1 .. Len(log) : log[i] \in 1 .. Len(file)
        BY <1>4
      <4> QED BY <4>1, <4>2, <4>3
    <3>1. k \in 1 .. Len(log) /\ log'[k] = log[k] /\ log[k] \in 1 .. Len(file)
      BY <2>1, <3>0
    <3>2. file[log[k]].seq = k /\ file[log[k]].prev = IF k = 1 THEN 0 ELSE log[k - 1]
      BY <1>4, <3>1 DEF LoopLogVerifies, Verify
    <3>3. k # 1 => k - 1 \in 1 .. Len(log)
      <4>1. Len(log) \in Nat /\ k \in 1 .. Len(log)
        BY <1>3, <3>1
      <4> QED BY <4>1
    <3>4. k # 1 => log'[k - 1] = log[k - 1]
      <4>1. \A i \in 1 .. Len(log) : log'[i] = log[i]
        BY <1>3
      <4> QED BY <3>3, <4>1
    <3>5. file'[log'[k]] = file[log[k]]
      <4>1. \A i \in 1 .. Len(file) : file'[i] = file[i]
        BY <1>3
      <4> QED BY <3>1, <4>1
    <3>6. log'[k] \in 1 .. Len(file')
      <4>1. Len(file') = Len(file) + Len(R) /\ Len(file) \in Nat /\ Len(R) \in Nat
        BY <1>3
      <4> QED BY <3>1, <4>1
    <3> QED BY <3>2, <3>4, <3>5, <3>6
  <2>2. CASE k > Len(log)
    <3> DEFINE m == k - Len(log)
    <3>1. m \in 1 .. Len(R) /\ k = Len(log) + m
      <4>1. Len(log') = Len(log) + Len(R) /\ Len(log) \in Nat /\ Len(R) \in Nat
        BY <1>3
      <4> QED BY <2>2, <4>1
    <3>2. m # 1 => m - 1 \in 1 .. Len(R) /\ k # 1 /\ k - 1 = Len(log) + (m - 1)
      <4>1. Len(log) \in Nat /\ Len(R) \in Nat
        BY <1>3
      <4> QED BY <3>1, <4>1
    <3>3. m = 1 => k - 1 = Len(log) /\ (k = 1 <=> log = << >>)
      BY <1>3, <1>4, <3>1
    <3> HIDE DEF m
    <3>4. log'[k] = Len(file) + m /\ file'[log'[k]] = Stamp(R[m], m, log)
      <4>1. \A i \in 1 .. Len(R) : /\ log'[Len(log) + i] = Len(file) + i
                                   /\ file'[Len(file) + i] = Stamp(R[i], i, log)
        BY <1>3
      <4> QED BY <3>1, <4>1
    <3>5. file'[log'[k]].seq = k
      BY <3>1, <3>4 DEF Stamp
    <3>6. file'[log'[k]].prev = IF m = 1 THEN LastOf(log) ELSE Len(file) + m - 1
      BY <3>4 DEF Stamp
    <3>7. m = 1 => LastOf(log) = IF k = 1 THEN 0 ELSE log'[k - 1]
      <4> SUFFICES ASSUME m = 1 PROVE LastOf(log) = IF k = 1 THEN 0 ELSE log'[k - 1]
        OBVIOUS
      <4>1. CASE k = 1
        BY <3>3, <4>1 DEF LastOf
      <4>2. CASE k # 1
        <5>1. k - 1 \in 1 .. Len(log) /\ k - 1 = Len(log) /\ log # << >>
          BY <1>3, <3>3, <4>2
        <5> QED BY <1>3, <4>2, <5>1 DEF LastOf
      <4> QED BY <4>1, <4>2
    <3>8. m # 1 => log'[k - 1] = Len(file) + (m - 1)
      <4>1. \A i \in 1 .. Len(R) : log'[Len(log) + i] = Len(file) + i
        BY <1>3
      <4> QED BY <3>2, <4>1
    <3>9. log'[k] \in 1 .. Len(file')
      <4>1. Len(file') = Len(file) + Len(R) /\ Len(file) \in Nat /\ Len(R) \in Nat
        BY <1>3
      <4> QED BY <3>1, <3>4, <4>1
    <3>10. m # 1 => Len(file) + (m - 1) = Len(file) + m - 1
      <4>1. Len(file) \in Nat /\ Len(R) \in Nat
        BY <1>3
      <4> QED BY <3>1, <4>1
    <3> QED BY <3>2, <3>5, <3>6, <3>7, <3>8, <3>9, <3>10
  <2>3. k <= Len(log) \/ k > Len(log)
    <3>1. Len(log) \in Nat /\ Len(log') \in Nat
      BY <1>3
    <3> QED BY <3>1
  <2> QED BY <2>1, <2>2, <2>3
<1>6. Placed'
  <2>1. Len(emitted') <= Len(file')
    BY <1>3
  <2> QED BY <1>1, <1>3, <1>5, <2>1 DEF Placed
<1>7. LoopLogVerifies'
  <2>1. DOMAIN log' = 1 .. Len(log')
    BY <1>3
  <2> QED BY <1>5, <2>1 DEF LoopLogVerifies, Verify
<1> QED BY <1>6, <1>7

(* A new Loop starts a chain of its own behind what is left of the file.     *)
LEMMA PlacedRestart ==
    ASSUME Placed, TrailRestart
    PROVE  Placed' /\ LoopLogVerifies'
<1>1. Placed'
  <2>1. Len(emitted') = 0 /\ log' \in Seq(Nat) /\ Len(log') = 0 /\ emitted' \in Seq(Bodies)
    BY RestartFacts
  <2> QED BY <2>1, RestartFacts DEF Placed
<1>2. LoopLogVerifies'
  BY RestartFacts DEF LoopLogVerifies, Verify
<1> QED BY <1>1, <1>2

-----------------------------------------------------------------------------
(***************************************************************************)
(* The steps of a run by where they lead and what they write.               *)
(***************************************************************************)
Raises == pc' = "raised"

Rests == Quiet /\ pc' \in {"new", "idle"}

Waits == Quiet /\ UNCHANGED <<pc, work, approved, todo, attempt>>

Works == pc \in InCall /\ pc' \in {"response", "tool_call", "tool_result"}

Enters == /\ Quiet /\ pc = "idle" /\ pc' = "ceilings"
          /\ state.pending = NoPending /\ approved' = NoPolicy

Allowed == /\ pc = "idle" /\ pc' = "ceilings" /\ state.pending # NoPending
           /\ approved' = state.pending.policy /\ emitted' = ApprovalRecord("ALLOW")

Passes == /\ pc = "ceilings" /\ pc' = "reserve" /\ UNCHANGED approved
          /\ \E outcome \in Outcomes : HookTrace(emitted', "loop", outcome)

Recorded(hook, ctx) ==
    /\ \E outcome \in Outcomes \ Blocking : HookTrace(emitted', hook, outcome)
    /\ \A i \in DOMAIN config.policies :
          Applies(config.policies[i], hook, ctx) => Decides(emitted', config.policies[i].name)

Clears == /\ pc = "reserve" /\ pc' = "complete" /\ UNCHANGED <<work, approved>>
          /\ Recorded("model_call", ModelContext)

Executes == /\ pc = "tool_call" /\ pc' = "execute" /\ UNCHANGED todo
            /\ Recorded("tool_call", AttemptContext)

LeavesPlain == pc' = "returning" /\ work'.status # "denied" /\ work'.pending = NoPending

LeavesAsHeld == /\ Quiet /\ pc' = "returning" /\ work'.pending = state.pending
                /\ work'.status \in {state.status, "failed"}

LastWritten == emitted'[Len(emitted')]

LeavesDenied == /\ pc' = "returning" /\ work'.pending = NoPending
                /\ Len(emitted') > 0
                /\ LastWritten.kind \in {"decision", "approval"}
                /\ LastWritten.verdict \in Blocking

LeavesAsking == /\ pc' = "returning" /\ work'.status = "suspended"
                /\ Len(emitted') > 0
                /\ LastWritten.kind = "decision" /\ LastWritten.hook = "model_call"
                /\ LastWritten.verdict = "REQUIRE_APPROVAL"
                /\ LastWritten.policy = work'.pending.policy

(* Kinds of step that leave the call.                                          *)
Leaves == LeavesPlain \/ LeavesAsHeld \/ LeavesDenied \/ LeavesAsking

Shaped == \/ Raises \/ Rests \/ Waits \/ Works \/ Enters \/ Allowed \/ Passes
          \/ Clears \/ Executes \/ Leaves

(* Inside a call a run that is failed or completed returns plainly.            *)
LEMMA EndsPlain ==
    ASSUME IInv, pc \in InCall, NEW status \in {"failed", "completed"},
           Return([work EXCEPT !.status = status])
    PROVE  LeavesPlain
<1> DEFINE s == [work EXCEPT !.status = status]
<1>1. s.status = status /\ s.pending = NoPending
  BY CallFacts, StatusChange DEF Terminal
<1>2. pc' = "returning" /\ work' = s
  BY DEF Return, Leave
<1> HIDE DEF s
<1> QED BY <1>1, <1>2 DEF LeavesPlain

(* A hook that denies the run says so in its last record.                      *)
LEMMA DeniesAloud ==
    ASSUME IInv, NEW hook \in HookNames, NEW ctx, NEW granted, NEW object,
           emitted' = DispatchRecords(hook, Decide(hook, ctx, granted, object)),
           Decide(hook, ctx, granted, object).outcome \in Blocking,
           hook # "tool_call" \/ Decide(hook, ctx, granted, object).applied # {},
           pc' = "returning", work'.pending = NoPending
    PROVE  LeavesDenied
<1> DEFINE d == Decide(hook, ctx, granted, object)
<1>1. config \in Configs
  BY DEF IInv, TypeOK
<1>2. PICK i \in d.applied :
         /\ Len(emitted') > 0
         /\ emitted'[Len(emitted')] = Record("decision", hook, config.policies[i].name,
                                             d.outcome)
  BY <1>1, HookWrites
<1>3. d.outcome \in Blocking
  OBVIOUS
<1> HIDE DEF d
<1>4. LastWritten.kind = "decision" /\ LastWritten.verdict = d.outcome
  BY <1>2 DEF LastWritten, Record
<1> QED BY <1>2, <1>3, <1>4 DEF LeavesDenied

(* A denied RunState of a call keeps nothing pending.                          *)
LEMMA DeniedWork ==
    ASSUME IInv, pc \in InCall, Deny(work)
    PROVE  pc' = "returning" /\ work'.pending = NoPending
<1>1. [work EXCEPT !.status = "denied"].pending = NoPending
  BY CallFacts, StatusChange DEF Terminal
<1> QED BY <1>1 DEF Deny, Return, Leave

(* A hook that lets the call go on has recorded every policy that applies.     *)
LEMMA ClearsAloud ==
    ASSUME IInv, NEW hook \in HookNames, NEW ctx, NEW granted,
           emitted' = DispatchRecords(hook, Decide(hook, ctx, granted, TRUE)),
           Decide(hook, ctx, granted, TRUE).outcome \notin Blocking \cup {"RAISE"}
    PROVE  Recorded(hook, ctx)
<1> DEFINE d == Decide(hook, ctx, granted, TRUE)
<1>1. config \in Configs
  BY DEF IInv, TypeOK
<1>2. d.outcome \in {"TRANSFORM", "NOT_APPLICABLE"}
  BY <1>1, HookPasses
<1>3. d.outcome \in Outcomes \ Blocking
      /\ d.outcome \notin Blocking \cup {"RAISE", "TRANSFORM_ERROR"}
  BY <1>2 DEF Outcomes, Blocking
<1>4. /\ HookTrace(emitted', hook, d.outcome)
      /\ d.outcome \notin Blocking \cup {"RAISE", "TRANSFORM_ERROR"} =>
            \A i \in DOMAIN config.policies :
                Applies(config.policies[i], hook, ctx) =>
                    Decides(emitted', config.policies[i].name)
  BY <1>1, HookWrites
<1> HIDE DEF d
<1> QED BY <1>3, <1>4 DEF Recorded

(* A result that is admitted goes on with the next tool call or ends the call. *)
LEMMA AdmitShape ==
    ASSUME IInv, pc \in {"execute", "tool_result"}, NEW minted, Admit(minted)
    PROVE  Works \/ LeavesPlain
<1> DEFINE admitted == [work EXCEPT !.classes = work.classes \cup Tool.classes]
           s == [admitted EXCEPT !.tools = work.tools \cup results \cup {Call.tool}]
<1>1. pc \in InCall
  BY DEF InCall, ToolPlaces
<1>2. CASE Len(todo) > 1
  BY <1>1, <1>2 DEF Admit, AdmitWith, Proceed, Works
<1>3. CASE ~ (Len(todo) > 1)
  <2>1. pc' = "returning" /\ work' = s
    BY <1>3 DEF Admit, AdmitWith, Leave
  <2>2. s.status = work.status /\ s.pending = work.pending
    BY <1>1, CallFacts DEF RunStates
  <2> HIDE DEF s
  <2> QED BY <1>1, <2>1, <2>2, CallFacts DEF LeavesPlain
<1> QED BY <1>2, <1>3

(* The step that asks for approval writes the question last.                   *)
LEMMA AsksAloud ==
    ASSUME IInv, pc = "reserve",
           emitted' = DispatchRecords("model_call",
                                      Decide("model_call", ModelContext, approved, TRUE)),
           Decide("model_call", ModelContext, approved, TRUE).outcome = "REQUIRE_APPROVAL",
           Suspend(config.policies[Decider(Decide("model_call", ModelContext, approved, TRUE))])
    PROVE  LeavesAsking
<1> DEFINE d == Decide("model_call", ModelContext, approved, TRUE)
           p == config.policies[Decider(d)]
           asked == [policy |-> p.name, approvers |-> p.approvers]
           s == [work EXCEPT !.status = "suspended", !.pending = asked, !.auditSeq = 1]
<1>1. config \in Configs /\ pc \in InCall
  BY DEF IInv, TypeOK, InCall, BeforeCall
<1>2. d.outcome = "REQUIRE_APPROVAL" /\ d.outcome \in Blocking
  BY DEF Blocking
<1>3. d.applied \subseteq Nat
  <2>1. d.applied \subseteq DOMAIN config.policies
    BY <1>1, Decision
  <2> QED BY <1>1, <2>1, ConfigFacts
<1>4. PICK i \in d.applied :
         /\ \A j \in d.applied : j <= i
         /\ Len(emitted') > 0
         /\ emitted'[Len(emitted')] = Record("decision", "model_call",
                                             config.policies[i].name, d.outcome)
  <2> DEFINE hook == "model_call"
  <2>1. hook \in HookNames /\ hook # "tool_call"
    BY DEF HookNames
  <2>2. d = Decide(hook, ModelContext, approved, TRUE) /\ emitted' = DispatchRecords(hook, d)
    OBVIOUS
  <2> HIDE DEF hook, d, p, asked, s
  <2>3. \E i \in d.applied :
           /\ \A j \in d.applied : j <= i
           /\ Len(emitted') > 0
           /\ emitted'[Len(emitted')] = Record("decision", hook, config.policies[i].name,
                                               d.outcome)
    BY <1>1, <1>2, <2>1, <2>2, HookWrites
  <2> QED BY <2>3 DEF hook
<1>5. Decider(d) = i
  <2>1. Decider(d) \in d.applied /\ \A j \in d.applied : j <= Decider(d)
    <3> HIDE DEF d
    <3> QED BY <1>4 DEF Decider
  <2> HIDE DEF d
  <2> QED BY <1>3, <1>4, <2>1
<1>6. pc' = "returning" /\ work' = s
  BY DEF Suspend, Return, Leave
<1> HIDE DEF d
<1>7. s.status = "suspended" /\ s.pending = asked
  BY <1>1, CallFacts DEF RunStates
<1> HIDE DEF s
<1>8. work'.status = "suspended" /\ work'.pending.policy = config.policies[i].name
  BY <1>5, <1>6, <1>7
<1> HIDE DEF p, asked
<1>9. /\ LastWritten.kind = "decision" /\ LastWritten.hook = "model_call"
      /\ LastWritten.verdict = "REQUIRE_APPROVAL"
      /\ LastWritten.policy = config.policies[i].name
  <2>1. LastWritten = Record("decision", "model_call", config.policies[i].name, d.outcome)
    BY <1>4 DEF LastWritten
  <2> HIDE DEF LastWritten
  <2> QED BY <1>2, <2>1 DEF Record
<1> QED BY <1>4, <1>6, <1>8, <1>9 DEF LeavesAsking

(* The steps at the beginning of a call and between calls.                     *)
LEMMA CallShapes ==
    ASSUME IInv, \/ Start \/ Settled \/ Drifted \/ Continue \/ Returned
                 \/ Calm
    PROVE  Shaped
<1>1. CASE Start
  <2> DEFINE d == Decide("request", RequestContext, NoPolicy, TRUE)
  <2>1. emitted' = DispatchRecords("request", d)
    BY <1>1 DEF Start
  <2>2. CASE Raise
    BY <2>2 DEF Raise, Raises, Shaped
  <2>3. CASE d.outcome \in Blocking /\ Deny(Fresh)
    <3>1. pc' = "returning" /\ work'.pending = NoPending
      BY <2>3 DEF Deny, Return, Leave, Fresh, Unstarted
    <3> QED BY <2>1, <2>3, <3>1, DeniesAloud DEF HookNames, Shaped, Leaves
  <2>4. ASSUME NEW minted, Leave(Fresh, minted) PROVE LeavesPlain
    BY <2>4 DEF Leave, Fresh, Unstarted, LeavesPlain
  <2> QED BY <1>1, <2>2, <2>3, <2>4 DEF Start, Shaped, Leaves
<1>2. CASE Settled
  BY <1>2 DEF Settled, Silent, Quiet, Return, Leave, LeavesAsHeld, Leaves, Shaped
<1>3. CASE Drifted
  <2> DEFINE s == [state EXCEPT !.status = "failed"]
  <2>1. s.status = "failed" /\ s.pending = state.pending
    BY StatusChange DEF IInv, TypeOK, Terminal
  <2>2. Fail(state) => pc' = "returning" /\ work' = s /\ Quiet
    BY <1>3 DEF Drifted, Fail, Return, Leave, Silent, Quiet
  <2> HIDE DEF s
  <2>3. CASE Fail(state)
    BY <2>1, <2>2, <2>3 DEF LeavesAsHeld, Leaves, Shaped
  <2>4. CASE Raise
    BY <2>4 DEF Raise, Raises, Shaped
  <2> QED BY <1>3, <2>3, <2>4 DEF Drifted
<1>4. CASE Continue
  BY <1>4 DEF Continue, Current, Called, Enter, Silent, Quiet, Enters, Shaped
<1>5. CASE Returned
  BY <1>5 DEF Returned, Silent, Quiet, Rests, Shaped
<1>6. CASE Calm
  <2>1. ASSUME NEW yes \in BOOLEAN, Refused(yes) PROVE LeavesDenied
    <3> DEFINE s == [state EXCEPT !.pending = NoPending]
    <3>1. [s EXCEPT !.status = "denied"].pending = NoPending
      BY DEF IInv, TypeOK, RunStates
    <3>2. pc' = "returning" /\ work'.pending = NoPending
      BY <2>1, <3>1 DEF Refused, Deny, Return, Leave
    <3>3. /\ Len(emitted') > 0 /\ LastWritten.kind = "approval"
          /\ LastWritten.verdict = "DENY"
      BY <2>1 DEF Refused, ApprovalRecord, LastWritten
    <3> QED BY <3>2, <3>3 DEF LeavesDenied, Blocking
  <2>2. ASSUME NEW yes \in BOOLEAN, Granted(yes) PROVE Allowed
    BY <2>2 DEF Granted, Current, Called, Enter, Allowed
  <2>3. ASSUME NEW yes \in BOOLEAN, ApproversRaise(yes) PROVE Raises
    BY <2>3 DEF ApproversRaise, Raise, Raises
  <2>4. CASE ProviderRaises \/ EditFiles \/ Retry \/ Abandoned
    BY <2>4 DEF ProviderRaises, EditFiles, Retry, Abandoned, Raise, Raises, Silent, Quiet,
                Waits, Rests, Again, locals, Shaped
  <2> QED BY <1>6, <2>1, <2>2, <2>3, <2>4 DEF Calm, Answer, Shaped, Leaves
<1> QED BY <1>1, <1>2, <1>3, <1>4, <1>5, <1>6

(* The steps from the ceilings to the provider and its answer.                 *)
LEMMA ModelShapes ==
    ASSUME IInv, \/ Exceed \/ LoopHook \/ ExceedReserve \/ ModelHook \/ ResponseHook
                 \/ \E c \in Completions : CallsTools(c) \/ Answers(c) \/ BreaksContract(c)
    PROVE  Shaped
<1>1. CASE Exceed \/ ExceedReserve
  <2>1. pc \in InCall /\ Return([work EXCEPT !.status = "failed"])
    BY <1>1 DEF Exceed, ExceedReserve, Fail, InCall, BeforeCall
  <2> QED BY <2>1, EndsPlain DEF Leaves, Shaped
<1>2. CASE LoopHook
  <2> DEFINE d == Decide("loop", LoopContext, NoPolicy, TRUE)
  <2>1. emitted' = DispatchRecords("loop", d) /\ pc = "ceilings" /\ pc \in InCall
    BY <1>2 DEF LoopHook, InCall, BeforeCall
  <2>2. CASE Raise
    BY <2>2 DEF Raise, Raises, Shaped
  <2>3. CASE d.outcome = "DENY" /\ Deny(work)
    BY <2>1, <2>3, DeniedWork, DeniesAloud DEF HookNames, Blocking, Shaped, Leaves
  <2>4. CASE Proceed("reserve", {}) /\ UNCHANGED <<work, locals>>
    <3>1. d.outcome \in Outcomes /\ HookTrace(emitted', "loop", d.outcome)
      BY <2>1, HookWrites DEF HookNames, IInv, TypeOK
    <3> HIDE DEF d
    <3> QED BY <2>1, <2>4, <3>1 DEF Proceed, locals, Passes, Shaped
  <2> QED BY <1>2, <2>2, <2>3, <2>4 DEF LoopHook
<1>3. CASE ModelHook
  <2> DEFINE d == Decide("model_call", ModelContext, approved, TRUE)
  <2>1. emitted' = DispatchRecords("model_call", d) /\ pc = "reserve" /\ pc \in InCall
    BY <1>3 DEF ModelHook, InCall, BeforeCall
  <2>2. CASE Raise
    BY <2>2 DEF Raise, Raises, Shaped
  <2>3. CASE d.outcome = "DENY" /\ Deny(work)
    BY <2>1, <2>3, DeniedWork, DeniesAloud DEF HookNames, Blocking, Shaped, Leaves
  <2>4. CASE d.outcome = "REQUIRE_APPROVAL" /\ Suspend(config.policies[Decider(d)])
    BY <2>1, <2>4, AsksAloud DEF Shaped, Leaves
  <2>5. ASSUME NEW minted, d.outcome \notin Blocking \cup {"RAISE"},
               Proceed("complete", minted), UNCHANGED <<work, locals>>
        PROVE  Clears
    <3>1. Recorded("model_call", ModelContext)
      BY <2>1, <2>5, ClearsAloud DEF HookNames
    <3> QED BY <2>1, <2>5, <3>1 DEF Proceed, locals, Clears
  <2> QED BY <1>3, <2>2, <2>3, <2>4, <2>5 DEF ModelHook, Shaped
<1>4. CASE ResponseHook
  <2> DEFINE d == Decide("response", ResponseContext, NoPolicy, TRUE)
  <2>1. emitted' = DispatchRecords("response", d) /\ pc \in InCall
    BY <1>4 DEF ResponseHook, InCall
  <2>2. CASE Raise
    BY <2>2 DEF Raise, Raises, Shaped
  <2>3. CASE d.outcome \in Blocking /\ Deny(work)
    BY <2>1, <2>3, DeniedWork, DeniesAloud DEF HookNames, Shaped, Leaves
  <2>4. CASE Return([work EXCEPT !.status = "completed"])
    BY <2>1, <2>4, EndsPlain DEF Leaves, Shaped
  <2> QED BY <1>4, <2>2, <2>3, <2>4 DEF ResponseHook
<1>5. ASSUME NEW c \in Completions, CallsTools(c) \/ Answers(c) PROVE Works
  BY <1>5 DEF CallsTools, Answers, Proceed, Works, InCall, BeforeCall
<1>6. ASSUME NEW c \in Completions, BreaksContract(c) PROVE LeavesPlain
  <2> DEFINE s == [Charged(c) EXCEPT !.status = "failed"]
  <2>1. pc \in InCall /\ pc' = "returning" /\ work' = s
    BY <1>6 DEF BreaksContract, Fail, Return, Leave, InCall, BeforeCall
  <2>2. s.status = "failed" /\ s.pending = work.pending
    BY <2>1, CallFacts DEF Charged, RunStates
  <2> HIDE DEF s
  <2> QED BY <2>1, <2>2, CallFacts DEF LeavesPlain
<1> QED BY <1>1, <1>2, <1>3, <1>4, <1>5, <1>6 DEF Leaves, Shaped

(* The steps of the tool calls.                                                *)
LEMMA ToolShapes ==
    ASSUME IInv, \/ UnknownTool \/ ToolCallHook \/ Retries \/ GivesUp \/ ToolResultHook
                 \/ \E v \in ToolValues : Succeeds(v)
    PROVE  Shaped
<1>1. CASE UnknownTool
  BY <1>1 DEF UnknownTool, Raise, Raises, Shaped
<1>2. CASE ToolCallHook
  <2> DEFINE d == Decide("tool_call", AttemptContext, NoPolicy, TRUE)
  <2>1. emitted' = DispatchRecords("tool_call", d) /\ pc = "tool_call" /\ pc \in InCall
    BY <1>2 DEF ToolCallHook, InCall, ToolPlaces
  <2>2. CASE Raise
    BY <2>2 DEF Raise, Raises, Shaped
  <2>3. CASE d.outcome \in Blocking /\ d.applied # {} /\ Deny(work)
    BY <2>1, <2>3, DeniedWork, DeniesAloud DEF HookNames, Shaped, Leaves
  <2>4. ASSUME NEW minted, d.outcome \notin Blocking \cup {"RAISE"},
               Proceed("execute", minted), UNCHANGED <<work, locals>>
        PROVE  Executes
    <3>1. Recorded("tool_call", AttemptContext)
      BY <2>1, <2>4, ClearsAloud DEF HookNames
    <3> QED BY <2>1, <2>4, <3>1 DEF Proceed, locals, Executes
  <2> QED BY <1>2, <2>2, <2>3, <2>4 DEF ToolCallHook, Shaped
<1>3. CASE Retries \/ \E v \in ToolValues : Succeeds(v)
  BY <1>3 DEF Retries, Succeeds, Proceed, Works, InCall, ToolPlaces, Shaped
<1>4. CASE GivesUp
  BY <1>4, AdmitShape DEF GivesUp, Leaves, Shaped
<1>5. CASE ToolResultHook
  <2> DEFINE ctx == [result |-> value] @@ ToolContext
             d == Decide("tool_result", ctx, NoPolicy, IsObject(value))
  <2>1. emitted' = DispatchRecords("tool_result", d) /\ pc = "tool_result" /\ pc \in InCall
    BY <1>5 DEF ToolResultHook, InCall, ToolPlaces
  <2>2. CASE Raise
    BY <2>2 DEF Raise, Raises, Shaped
  <2>3. CASE d.outcome = "TRANSFORM_ERROR" /\ Fail(state)
    <3> DEFINE s == [state EXCEPT !.status = "failed"]
    <3>1. s.status = "failed" /\ s.pending = state.pending
      BY StatusChange DEF IInv, TypeOK, Terminal
    <3>2. pc' = "returning" /\ work' = s
      BY <2>3 DEF Fail, Return, Leave
    <3>3. Quiet
      BY <2>1, <2>3 DEF DispatchRecords, Quiet
    <3> HIDE DEF s
    <3> QED BY <3>1, <3>2, <3>3 DEF LeavesAsHeld, Leaves, Shaped
  <2>4. CASE d.outcome \in Blocking /\ Deny(work)
    <3>1. pc' = "returning" /\ work'.pending = NoPending
      BY <2>1, <2>4, DeniedWork
    <3> HIDE DEF ctx
    <3> QED BY <2>1, <2>4, <3>1, DeniesAloud DEF HookNames, Shaped, Leaves
  <2>5. ASSUME NEW minted, Admit(minted) PROVE Works \/ LeavesPlain
    BY <2>1, <2>5, AdmitShape
  <2> QED BY <1>5, <2>2, <2>3, <2>4, <2>5 DEF ToolResultHook, Leaves, Shaped
<1> QED BY <1>1, <1>2, <1>3, <1>4, <1>5

(* Every step of a run but a restart is of one of the kinds.                 *)
LEMMA Shapes ==
    ASSUME IInv, Machine \/ Calm
    PROVE  Shaped
BY CallShapes, ModelShapes, ToolShapes DEF Machine

(* Between calls nothing is written but the answer to a question of a live     *)
(* run, and the records of the start.                                          *)
LEMMA OutsideIsQuiet ==
    ASSUME Machine \/ Calm, pc \notin InCall
    PROVE  Quiet \/ (Answered /\ pc = "idle" /\ state.status \in Live) \/ pc = "new"
<1>1. CASE Start
  BY <1>1 DEF Start
<1>2. CASE Settled \/ Drifted \/ Continue \/ Returned
  BY <1>2 DEF Settled, Drifted, Continue, Returned, Silent, Quiet
<1>3. CASE Exceed \/ LoopHook \/ ExceedReserve \/ ModelHook \/ ResponseHook
           \/ UnknownTool \/ ToolCallHook \/ Retries \/ GivesUp \/ ToolResultHook
  <2>1. pc \in {"ceilings", "reserve", "response", "tool_call", "execute", "tool_result"}
    BY <1>3 DEF Exceed, LoopHook, ExceedReserve, ModelHook, ResponseHook, UnknownTool,
                ToolCallHook, Retries, GivesUp, ToolResultHook
  <2> QED BY <2>1 DEF InCall, BeforeCall, ToolPlaces
<1>4. ASSUME NEW c \in Completions, CallsTools(c) \/ Answers(c) \/ BreaksContract(c)
      PROVE  Quiet
  BY <1>4 DEF CallsTools, Answers, BreaksContract, Silent, Quiet
<1>5. ASSUME NEW v \in ToolValues, Succeeds(v) PROVE Quiet
  BY <1>5 DEF Succeeds, Silent, Quiet
<1>6. ASSUME NEW yes \in BOOLEAN, Answer(yes)
      PROVE  Quiet \/ (Answered /\ pc = "idle" /\ state.status \in Live)
  BY <1>6 DEF Answer, Refused, Granted, ApproversRaise, Current, Called, Silent, Quiet, Answered
<1>7. CASE ProviderRaises \/ EditFiles \/ Retry \/ Abandoned
  BY <1>7 DEF ProviderRaises, EditFiles, Retry, Abandoned, Silent, Quiet
<1> QED BY <1>1, <1>2, <1>3, <1>4, <1>5, <1>6, <1>7 DEF Machine, Calm

(* A settled run writes nothing.                                               *)
LEMMA SettledIsQuiet ==
    ASSUME IInv, Machine \/ Calm, state.status \in Terminal
    PROVE  Quiet
<1>1. pc \notin InCall /\ pc # "new" /\ state.status \notin Live
  BY DEF IInv, Phase, Live, Terminal
<1> QED BY <1>1, OutsideIsQuiet

(* What the file has after a step.                                             *)
LEMMA GrowFacts ==
    ASSUME IInv, Placed, Machine \/ Calm, Keep(emitted')
    PROVE  /\ emitted' \in Seq(Bodies)
           /\ Len(emitted') \in Nat /\ Len(file) \in Nat /\ Len(emitted) \in Nat
           /\ Len(emitted) <= Len(file)
           /\ file' \in Seq(Stamped) /\ file \in Seq(Stamped)
           /\ DOMAIN file = 1 .. Len(file) /\ DOMAIN file' = 1 .. Len(file')
           /\ Len(file') = Len(file) + Len(emitted')
           /\ \A k \in 1 .. Len(file) : file'[k] = file[k]
           /\ \A k \in 1 .. Len(emitted') : file'[Len(file) + k].body = emitted'[k]
<1> DEFINE R == emitted'
<1>1. R \in Seq(Bodies)
  BY Writes, WrittenTypes
<1>2. Keep(R)
  OBVIOUS
<1> HIDE DEF R
<1>3. /\ Len(R) \in Nat /\ Len(file) \in Nat
      /\ file' \in Seq(Stamped) /\ Len(file') = Len(file) + Len(R)
      /\ \A k \in 1 .. Len(file) : file'[k] = file[k]
      /\ \A k \in 1 .. Len(R) : file'[Len(file) + k] = Stamp(R[k], k, log)
  BY <1>1, <1>2, KeepFacts
<1>4. \A k \in 1 .. Len(R) : file'[Len(file) + k].body = R[k]
  <2>1. \A k \in 1 .. Len(R) : Stamp(R[k], k, log).body = R[k]
    BY DEF Stamp
  <2> QED BY <1>3, <2>1
<1>5. file \in Seq(Stamped) /\ Len(emitted) \in Nat /\ Len(emitted) <= Len(file)
  BY DEF Placed
<1>6. DOMAIN file = 1 .. Len(file) /\ DOMAIN file' = 1 .. Len(file')
  <2>1. file \in Seq(Stamped) /\ file' \in Seq(Stamped)
    BY <1>3, <1>5
  <2> QED BY <2>1
<1> QED BY <1>1, <1>3, <1>4, <1>5, <1>6 DEF R

-----------------------------------------------------------------------------
(***************************************************************************)
(* A hook that puts tokens in the vault writes of it in the same step, and  *)
(* the log keeps what it has as long as the vault keeps the tokens.         *)
(***************************************************************************)

(* The records R have a and, somewhere behind it, b.                         *)
Behind(R, a, b) ==
    \E m, j \in 1 .. Len(R) : j < m /\ R[j] = a /\ R[m] = b

(* What stands in a part of a sequence stands in the whole.                   *)
LEMMA BehindAppend ==
    ASSUME NEW A \in Seq(Bodies), NEW B \in Seq(Bodies), NEW a, NEW b,
           Behind(A, a, b) \/ Behind(B, a, b)
    PROVE  Behind(A \o B, a, b)
<1> DEFINE R == A \o B
<1>1. Len(R) = Len(A) + Len(B) /\ Len(A) \in Nat /\ Len(B) \in Nat
  OBVIOUS
<1>2. /\ \A k \in 1 .. Len(A) : R[k] = A[k]
      /\ \A k \in 1 .. Len(B) : R[Len(A) + k] = B[k]
  OBVIOUS
<1> HIDE DEF R
<1>3. CASE Behind(A, a, b)
  <2>1. PICK m, j \in 1 .. Len(A) : j < m /\ A[j] = a /\ A[m] = b
    BY <1>3 DEF Behind
  <2>2. m \in 1 .. Len(R) /\ j \in 1 .. Len(R) /\ R[m] = b /\ R[j] = a
    BY <1>1, <1>2, <2>1
  <2> QED BY <2>1, <2>2 DEF Behind, R
<1>4. CASE Behind(B, a, b)
  <2>1. PICK m, j \in 1 .. Len(B) : j < m /\ B[j] = a /\ B[m] = b
    BY <1>4 DEF Behind
  <2>2. /\ Len(A) + m \in 1 .. Len(R) /\ Len(A) + j \in 1 .. Len(R)
        /\ Len(A) + j < Len(A) + m
    BY <1>1, <2>1
  <2>3. R[Len(A) + m] = b /\ R[Len(A) + j] = a
    BY <1>2, <2>1, <2>2
  <2> QED BY <2>2, <2>3 DEF Behind, R
<1> QED BY <1>3, <1>4

(* A policy's tokenizing transform is recorded behind its decision.           *)
LEMMA PolicyTokens ==
    ASSUME config \in Configs, NEW i \in DOMAIN config.policies, NEW hook,
           "tokenize" \in Range(config.policies[i].transforms)
    PROVE  Behind(PolicyRecords(hook, config.policies[i], "TRANSFORM"),
                  Record("decision", hook, config.policies[i].name, "TRANSFORM"),
                  Record("transform", hook, config.policies[i].name, "tokenize"))
<1> DEFINE p == config.policies[i]
           a == Record("decision", hook, p.name, "TRANSFORM")
           b == Record("transform", hook, p.name, "tokenize")
           t == [k \in DOMAIN p.transforms |->
                    Record("transform", hook, p.name, p.transforms[k])]
           R == PolicyRecords(hook, p, "TRANSFORM")
           n == Len(p.transforms)
<1>1. DOMAIN p.transforms = 1 .. n /\ n \in Nat
  BY PolicyTypes
<1>2. PICK k \in 1 .. n : p.transforms[k] = "tokenize"
  BY <1>1 DEF Range
<1>3. t = [l \in 1 .. n |-> t[l]] /\ t[k] = b
  BY <1>1, <1>2
<1>4. R = <<a>> \o t
  BY DEF PolicyRecords
<1> HIDE DEF a, b, t, R, n
<1> DEFINE S == {t[l] : l \in 1 .. n}
<1>5. t \in Seq(S) /\ Len(t) = n
  <2>1. \A l \in 1 .. n : t[l] \in S
    OBVIOUS
  <2> HIDE DEF S
  <2> QED BY <1>1, <1>3, <2>1, SequenceOf
<1> HIDE DEF S
<1>6. Len(R) = 1 + n /\ R[1] = a /\ R[k + 1] = t[k]
  <2>1. <<a>> \in Seq(S \cup {a}) /\ t \in Seq(S \cup {a})
    BY <1>5
  <2> QED BY <1>1, <1>2, <1>4, <1>5, <2>1
<1>7. k + 1 \in 1 .. Len(R) /\ 1 \in 1 .. Len(R) /\ 1 < k + 1
  BY <1>1, <1>2, <1>6
<1>8. Behind(R, a, b)
  BY <1>3, <1>6, <1>7 DEF Behind
<1> QED BY <1>8 DEF R, a, b

(* The records of a hook hold the records of each policy it applied.          *)
LEMMA DispatchTokens ==
    ASSUME config \in Configs, NEW hook \in HookNames, NEW d, d.outcome = "TRANSFORM",
           NEW i \in DOMAIN config.policies, i \in d.applied,
           "tokenize" \in Range(config.policies[i].transforms)
    PROVE  Behind(DispatchRecords(hook, d),
                  Record("decision", hook, config.policies[i].name, "TRANSFORM"),
                  Record("transform", hook, config.policies[i].name, "tokenize"))
<1> DEFINE n == Len(config.policies)
           a == Record("decision", hook, config.policies[i].name, "TRANSFORM")
           b == Record("transform", hook, config.policies[i].name, "tokenize")
           seqs == [j \in DOMAIN config.policies |->
                       IF j \in d.applied
                       THEN PolicyRecords(hook, config.policies[j], d.outcome)
                       ELSE << >>]
           R == DispatchRecords(hook, d)
<1>1. DOMAIN config.policies = 1 .. n /\ n \in Nat
  BY PolicyTypes
<1>2. R = FlattenSeq(seqs)
  BY DEF DispatchRecords
<1>3. \A j \in 1 .. n : seqs[j] \in Seq(Bodies)
  <2> SUFFICES ASSUME NEW j \in 1 .. n PROVE seqs[j] \in Seq(Bodies)
    OBVIOUS
  <2>1. CASE j \in d.applied
    <3>1. seqs[j] = PolicyRecords(hook, config.policies[j], "TRANSFORM")
      BY <1>1, <2>1
    <3>2. "TRANSFORM" \in Outcomes
      BY DEF Outcomes
    <3> HIDE DEF seqs
    <3>3. HookTrace(seqs[j], hook, "TRANSFORM")
      BY <1>1, <3>1, <3>2, PolicyTrace
    <3> QED BY <3>3 DEF HookTrace
  <2>2. CASE j \notin d.applied
    <3>1. seqs[j] = << >>
      BY <1>1, <2>2
    <3> HIDE DEF seqs
    <3> QED BY <3>1
  <2> QED BY <2>1, <2>2
<1>4. Behind(seqs[i], a, b)
  <2>1. seqs[i] = PolicyRecords(hook, config.policies[i], "TRANSFORM")
    OBVIOUS
  <2> HIDE DEF seqs
  <2> QED BY <2>1, PolicyTokens
<1>5. seqs = [j \in 1 .. n |-> seqs[j]] /\ i \in 1 .. n /\ n # 0
  BY <1>1
<1> HIDE DEF seqs, R, a, b
<1>6. seqs \in Seq(Seq(Bodies)) /\ Len(seqs) = n
  BY <1>1, <1>3, <1>5, SequenceOf
<1>7. PICK f : /\ f[1] = seqs[1]
               /\ \A j \in 2 .. n : f[j] = f[j - 1] \o seqs[j]
               /\ R = f[n]
  <2>1. \E f : /\ f[1] = seqs[1]
               /\ \A j \in 2 .. Len(seqs) : f[j] = f[j - 1] \o seqs[j]
               /\ FlattenSeq(seqs) = f[Len(seqs)]
    <3>1. Len(seqs) # 0
      BY <1>5, <1>6
    <3> HIDE DEF n
    <3> QED BY <1>6, <3>1, Flattening
  <2> QED BY <1>2, <1>6, <2>1
<1> DEFINE Grown(m) == f[m] \in Seq(Bodies) /\ (i <= m => Behind(f[m], a, b))
           Counter == {m \in 1 .. n : ~ Grown(m)}
<1>8. Counter = {}
  <2> SUFFICES ASSUME Counter # {} PROVE FALSE
    OBVIOUS
  <2>1. PICK m \in Counter : \A k \in Counter : m <= k
    <3>1. Counter \subseteq Nat
      BY <1>1
    <3> HIDE DEF Counter
    <3> QED BY <3>1, LeastElement
  <2>2. m \in 1 .. n /\ ~ Grown(m)
    BY <2>1
  <2>3. CASE m = 1
    <3>1. f[m] = seqs[m] /\ seqs[m] \in Seq(Bodies)
      BY <1>3, <1>7, <2>2, <2>3
    <3>2. i <= m => i = m
      BY <1>1, <1>5, <2>3
    <3> QED BY <1>4, <2>2, <3>1, <3>2
  <2>4. CASE m # 1
    <3>1. m \in 2 .. n /\ m - 1 \in 1 .. n
      BY <1>1, <2>2, <2>4
    <3>2. Grown(m - 1)
      BY <1>1, <2>1, <3>1
    <3> DEFINE A == f[m - 1]
               B == seqs[m]
    <3>3. f[m] = A \o B /\ A \in Seq(Bodies) /\ B \in Seq(Bodies)
      BY <1>3, <1>7, <2>2, <3>1, <3>2
    <3>4. i <= m => Behind(A, a, b) \/ Behind(B, a, b)
      <4>1. i <= m => i <= m - 1 \/ i = m
        BY <1>1, <1>5, <2>2
      <4> QED BY <1>4, <3>2, <4>1
    <3> HIDE DEF A, B
    <3>5. f[m] \in Seq(Bodies) /\ (i <= m => Behind(f[m], a, b))
      BY <3>3, <3>4, BehindAppend
    <3> QED BY <2>2, <3>5
  <2> QED BY <2>3, <2>4
<1>9. n \in 1 .. n /\ i <= n
  BY <1>1, <1>5
<1>10. Grown(n)
  BY <1>8, <1>9
<1>11. Behind(R, a, b)
  BY <1>7, <1>9, <1>10
<1> QED BY <1>11 DEF R, a, b

(* The step adds tokens to the vault of one hook's origins, and on record.     *)
Minted ==
    \E hook \in HookNames, name \in AllNames :
        /\ vault' \subseteq vault \cup HookOrigins(hook)
        /\ Behind(emitted', Record("decision", hook, name, "TRANSFORM"),
                            Record("transform", hook, name, "tokenize"))

(* A hook that mints has recorded the policy that tokenizes.                   *)
LEMMA HookMints ==
    ASSUME config \in Configs, NEW hook \in HookNames, NEW ctx, NEW granted, NEW object,
           emitted' = DispatchRecords(hook, Decide(hook, ctx, granted, object)),
           NEW minted \in Mintable(hook, Decide(hook, ctx, granted, object)),
           vault' = vault \cup minted
    PROVE  vault' \subseteq vault \/ Minted
<1> DEFINE d == Decide(hook, ctx, granted, object)
<1>1. d.outcome = "TRANSFORM" => d.staged \subseteq d.applied /\ d.applied \subseteq DOMAIN config.policies
  <2> DEFINE c == [policies |-> config.policies, hook |-> hook, ctx |-> ctx,
                   approved |-> granted, posture |-> config.posture, object |-> object]
  <2>1. c.policies = config.policies /\ d = Dispatch(c)
    BY DEF Decide
  <2> HIDE DEF c, d
  <2>2. ASSUME d.outcome = "TRANSFORM" PROVE Stoppers(c) = {} /\ ~ Unposted(c)
    <3>1. Dispatch(c).outcome \notin Blocking \cup {"RAISE"}
      BY <2>1, <2>2 DEF Blocking
    <3> QED BY <2>1, <3>1, ConfigFacts, DispatchPasses
  <2>3. ASSUME d.outcome = "TRANSFORM" PROVE d.applied = Applied(c) /\ d.staged = Stagers(c)
    BY <2>1, <2>2, <2>3, DispatchReleases
  <2> QED BY <2>1, <2>3 DEF Stagers, Applied
<1>2. CASE minted = {}
  BY <1>2
<1>3. CASE minted # {}
  <2>1. /\ d.outcome = "TRANSFORM"
        /\ \E i \in d.staged : "tokenize" \in Range(config.policies[i].transforms)
        /\ minted \subseteq HookOrigins(hook)
    <3> HIDE DEF d
    <3> QED BY <1>3 DEF Mintable, d
  <2>2. PICK i \in d.applied : /\ i \in DOMAIN config.policies
                               /\ "tokenize" \in Range(config.policies[i].transforms)
    BY <1>1, <2>1
  <2> HIDE DEF d
  <2>3. Behind(DispatchRecords(hook, d),
               Record("decision", hook, config.policies[i].name, "TRANSFORM"),
               Record("transform", hook, config.policies[i].name, "tokenize"))
    BY <2>1, <2>2, DispatchTokens
  <2>4. emitted' = DispatchRecords(hook, d)
    BY DEF d
  <2>5. config.policies[i].name \in AllNames
    BY <2>2, PolicyTypes
  <2> QED BY <2>1, <2>3, <2>4, <2>5 DEF Minted
<1> QED BY <1>2, <1>3

(* Only the hooks that keep what they stage add to the vault.                  *)
LEMMA Mints ==
    ASSUME IInv, Machine \/ Calm
    PROVE  vault' \subseteq vault \/ Minted
<1>1. config \in Configs
  BY DEF IInv, TypeOK
<1>2. CASE Start
  <2> DEFINE d == Decide("request", RequestContext, NoPolicy, TRUE)
  <2>1. emitted' = DispatchRecords("request", d)
    BY <1>2 DEF Start
  <2>2. CASE Raise \/ Deny(Fresh)
    BY <2>2 DEF Raise, Deny, Return, Leave
  <2>3. ASSUME NEW minted \in Mintable("request", d), Leave(Fresh, minted)
        PROVE  vault' \subseteq vault \/ Minted
    BY <1>1, <2>1, <2>3, HookMints DEF Leave, HookNames
  <2> QED BY <1>2, <2>2, <2>3 DEF Start
<1>3. CASE ModelHook
  <2> DEFINE d == Decide("model_call", ModelContext, approved, TRUE)
  <2>1. emitted' = DispatchRecords("model_call", d)
    BY <1>3 DEF ModelHook
  <2>2. CASE Raise \/ Deny(work) \/ Suspend(config.policies[Decider(d)])
    BY <2>2 DEF Raise, Deny, Suspend, Return, Leave
  <2>3. ASSUME NEW minted \in Mintable("model_call", d), Proceed("complete", minted)
        PROVE  vault' \subseteq vault \/ Minted
    BY <1>1, <2>1, <2>3, HookMints DEF Proceed, HookNames
  <2> QED BY <1>3, <2>2, <2>3 DEF ModelHook
<1>4. CASE ToolCallHook
  <2> DEFINE d == Decide("tool_call", AttemptContext, NoPolicy, TRUE)
  <2>1. emitted' = DispatchRecords("tool_call", d)
    BY <1>4 DEF ToolCallHook
  <2>2. CASE Raise \/ Deny(work)
    BY <2>2 DEF Raise, Deny, Return, Leave
  <2>3. ASSUME NEW minted \in Mintable("tool_call", d), Proceed("execute", minted)
        PROVE  vault' \subseteq vault \/ Minted
    BY <1>1, <2>1, <2>3, HookMints DEF Proceed, HookNames
  <2> QED BY <1>4, <2>2, <2>3 DEF ToolCallHook
<1>5. ASSUME NEW minted, Admit(minted) PROVE vault' = vault \cup minted
  BY <1>5 DEF Admit, AdmitWith, Leave, Proceed
<1>6. CASE ToolResultHook
  <2> DEFINE ctx == [result |-> value] @@ ToolContext
             d == Decide("tool_result", ctx, NoPolicy, IsObject(value))
  <2>1. emitted' = DispatchRecords("tool_result", d)
    BY <1>6 DEF ToolResultHook
  <2>2. CASE Raise \/ Fail(state) \/ Deny(work)
    BY <2>2 DEF Raise, Fail, Deny, Return, Leave
  <2>3. ASSUME NEW minted \in Mintable("tool_result", d), Admit(minted)
        PROVE  vault' \subseteq vault \/ Minted
    <3> HIDE DEF ctx
    <3> QED BY <1>1, <1>5, <2>1, <2>3, HookMints DEF HookNames
  <2> QED BY <1>6, <2>2, <2>3 DEF ToolResultHook
<1>7. CASE Settled \/ Drifted \/ Continue \/ Returned \/ Exceed \/ LoopHook \/ ExceedReserve
           \/ ResponseHook \/ UnknownTool \/ Retries
  BY <1>7 DEF Settled, Drifted, Continue, Returned, Exceed, LoopHook, ExceedReserve,
              ResponseHook, UnknownTool, Retries, Enter, Fail, Deny, Return, Leave, Raise,
              Proceed
<1>8. CASE GivesUp
  BY <1>5, <1>8 DEF GivesUp
<1>9. ASSUME NEW c \in Completions, CallsTools(c) \/ Answers(c) \/ BreaksContract(c)
      PROVE  vault' \subseteq vault
  BY <1>9 DEF CallsTools, Answers, BreaksContract, Fail, Return, Leave, Proceed
<1>10. ASSUME NEW v \in ToolValues, Succeeds(v) PROVE vault' \subseteq vault
  BY <1>10 DEF Succeeds, Proceed
<1>11. CASE Calm
  BY <1>11 DEF Calm, Answer, Refused, Granted, ApproversRaise, Enter, ProviderRaises,
               EditFiles, Retry, Abandoned, Deny, Return, Leave, Raise
<1> QED BY <1>2, <1>3, <1>4, <1>6, <1>7, <1>8, <1>9, <1>10, <1>11 DEF Machine

(* What the log has of an origin.                                             *)
Accounted(origin) ==
    \E k \in DOMAIN log :
        /\ Logged(k).kind = "transform"
        /\ Logged(k).verdict = "tokenize"
        /\ origin \in HookOrigins(Logged(k).hook)
        /\ \E j \in 1 .. k - 1 :
              Logged(j) = Record("decision", Logged(k).hook, Logged(k).policy, "TRANSFORM")

(* The log keeps its records and gets the step's.                            *)
LEMMA TokensStep ==
    ASSUME IInv, Placed, TokensAreAccountedFor, Machine \/ Calm, Keep(emitted')
    PROVE  TokensAreAccountedFor'
<1> DEFINE R == emitted'
<1>1. R \in Seq(Bodies)
  BY Writes, WrittenTypes
<1>2. Keep(R)
  OBVIOUS
<1>3. /\ Len(R) \in Nat /\ Len(file) \in Nat /\ Len(log) \in Nat
      /\ \A k \in 1 .. Len(file) : file'[k] = file[k]
      /\ \A k \in 1 .. Len(R) : file'[Len(file) + k] = Stamp(R[k], k, log)
      /\ log' \in Seq(Nat) /\ Len(log') = Len(log) + Len(R)
      /\ \A k \in 1 .. Len(log) : log'[k] = log[k]
      /\ \A k \in 1 .. Len(R) : log'[Len(log) + k] = Len(file) + k
  <2> HIDE DEF R
  <2> QED BY <1>1, <1>2, KeepFacts
<1>4. /\ DOMAIN log = 1 .. Len(log) /\ DOMAIN log' = 1 .. Len(log')
      /\ \A k \in 1 .. Len(log) : log[k] \in 1 .. Len(file)
  BY <1>3 DEF Placed
<1> HIDE DEF R
<1> DEFINE After(k) == file'[log'[k]].body
<1>5. ASSUME NEW k \in 1 .. Len(log) PROVE k \in 1 .. Len(log') /\ After(k) = Logged(k)
  <2>1. log'[k] = log[k] /\ file'[log[k]] = file[log[k]]
    BY <1>3, <1>4
  <2> QED BY <1>3, <2>1 DEF Logged
<1>6. ASSUME NEW k \in 1 .. Len(R)
      PROVE  Len(log) + k \in 1 .. Len(log') /\ After(Len(log) + k) = R[k]
  <2>1. file'[log'[Len(log) + k]] = Stamp(R[k], k, log)
    BY <1>3
  <2>2. Stamp(R[k], k, log).body = R[k]
    BY DEF Stamp
  <2> QED BY <1>3, <2>1, <2>2
<1>7. ASSUME NEW origin, NEW k \in 1 .. Len(log'), NEW j \in 1 .. k - 1,
             After(k).kind = "transform", After(k).verdict = "tokenize",
             origin \in HookOrigins(After(k).hook),
             After(j) = Record("decision", After(k).hook, After(k).policy, "TRANSFORM")
      PROVE  Accounted(origin)'
  <2>1. k \in DOMAIN log'
    BY <1>4
  <2> QED BY <1>7, <2>1 DEF Accounted, Logged, HookOrigins, Origins, Record
<1> HIDE DEF After
<1>8. ASSUME NEW origin \in vault PROVE Accounted(origin)'
  <2>1. PICK k \in 1 .. Len(log) :
          /\ Logged(k).kind = "transform"
          /\ Logged(k).verdict = "tokenize"
          /\ origin \in HookOrigins(Logged(k).hook)
          /\ \E j \in 1 .. k - 1 :
                Logged(j) = Record("decision", Logged(k).hook, Logged(k).policy, "TRANSFORM")
    BY <1>4 DEF TokensAreAccountedFor
  <2>2. PICK j \in 1 .. k - 1 :
          Logged(j) = Record("decision", Logged(k).hook, Logged(k).policy, "TRANSFORM")
    BY <2>1
  <2>3. j \in 1 .. Len(log)
    BY <1>3, <2>1, <2>2
  <2>4. k \in 1 .. Len(log') /\ After(k) = Logged(k) /\ After(j) = Logged(j)
    BY <1>5, <2>1, <2>3
  <2> QED BY <1>7, <2>1, <2>2, <2>4
<1>9. ASSUME NEW origin \in vault', origin \notin vault, Minted
      PROVE  Accounted(origin)'
  <2>1. PICK hook \in HookNames, name \in AllNames :
          /\ vault' \subseteq vault \cup HookOrigins(hook)
          /\ Behind(R, Record("decision", hook, name, "TRANSFORM"),
                       Record("transform", hook, name, "tokenize"))
    BY <1>9 DEF Minted, R
  <2>2. origin \in HookOrigins(hook)
    BY <1>9, <2>1
  <2>3. PICK m, j \in 1 .. Len(R) :
          /\ j < m
          /\ R[m] = Record("transform", hook, name, "tokenize")
          /\ R[j] = Record("decision", hook, name, "TRANSFORM")
    BY <2>1 DEF Behind
  <2> DEFINE k == Len(log) + m
             l == Len(log) + j
  <2>4. l \in 1 .. k - 1
    BY <1>3, <2>3
  <2>5. k \in 1 .. Len(log') /\ After(k) = R[m] /\ After(l) = R[j]
    BY <1>6, <2>3
  <2>6. /\ R[m].kind = "transform" /\ R[m].verdict = "tokenize"
        /\ R[m].hook = hook /\ R[m].policy = name
    BY <2>3 DEF Record
  <2> HIDE DEF k, l
  <2> QED BY <1>7, <2>2, <2>3, <2>4, <2>5, <2>6
<1>10. \A origin \in vault' : Accounted(origin)'
  BY <1>8, <1>9, Mints
<1> QED BY <1>10 DEF TokensAreAccountedFor, Accounted

(* A new Loop has an empty vault.                                             *)
LEMMA TokensRestart ==
    ASSUME TrailRestart
    PROVE  TokensAreAccountedFor'
BY DEF TrailRestart, Restart, TokensAreAccountedFor

-----------------------------------------------------------------------------
(***************************************************************************)
(* A refusal is the last word: it is written by the step that makes the     *)
(* call return it, and a settled run writes nothing.                        *)
(***************************************************************************)
LastBlocks == /\ file # << >>
              /\ Last(file).body.kind \in {"decision", "approval"}
              /\ Last(file).body.verdict \in Blocking

Refusal == /\ pc = "returning" /\ work.status = "denied" => LastBlocks
           /\ state.status \in Terminal => emitted = << >>

(* A step that writes nothing leaves the last record where it is.              *)
LEMMA QuietKeeps ==
    ASSUME IInv, Placed, Machine \/ Calm, Keep(emitted'), Quiet
    PROVE  /\ Len(emitted') = 0 /\ Len(file') = Len(file)
           /\ LastBlocks => LastBlocks'
<1>1. Len(emitted') = 0
  BY DEF Quiet
<1>2. /\ Len(file) \in Nat /\ Len(file') = Len(file)
      /\ file \in Seq(Stamped) /\ file' \in Seq(Stamped)
      /\ \A k \in 1 .. Len(file) : file'[k] = file[k]
  BY <1>1, GrowFacts
<1>3. ASSUME LastBlocks PROVE LastBlocks'
  <2>1. Len(file) \in 1 .. Len(file) /\ file' # << >>
    <3>1. Len(file) # 0
      BY <1>2, <1>3 DEF LastBlocks
    <3>2. Len(file') # 0
      BY <1>2, <3>1
    <3> QED BY <1>2, <3>1, <3>2
  <2>2. file'[Len(file')] = file[Len(file)]
    BY <1>2, <2>1
  <2> QED BY <1>3, <2>1, <2>2 DEF LastBlocks, Last
<1> QED BY <1>1, <1>2, <1>3

(* A step that denies writes the refusal last, and none writes after it.     *)
LEMMA DenialStep ==
    ASSUME IInv, Placed, Refusal, DenialIsTheLastWord, Machine \/ Calm, Keep(emitted')
    PROVE  Refusal' /\ DenialIsTheLastWord'
<1>1. state' = state \/ (pc = "returning" /\ state' = work)
  BY TrailSteps, StateChanges DEF Next, Environment, Calm
<1>2. LeavesDenied => LastBlocks'
  <2> SUFFICES ASSUME LeavesDenied PROVE LastBlocks'
    OBVIOUS
  <2>1. /\ Len(emitted') \in Nat /\ Len(file) \in Nat /\ file' \in Seq(Stamped)
        /\ Len(file') = Len(file) + Len(emitted')
        /\ \A k \in 1 .. Len(emitted') : file'[Len(file) + k].body = emitted'[k]
    BY GrowFacts
  <2>2. Len(emitted') \in 1 .. Len(emitted') /\ Len(file') > 0
    BY <2>1 DEF LeavesDenied
  <2>3. file'[Len(file')].body = LastWritten
    BY <2>1, <2>2 DEF LastWritten
  <2>4. file' # << >>
    BY <2>1, <2>2
  <2> QED BY <2>3, <2>4 DEF LastBlocks, Last, LeavesDenied
<1>3. ASSUME pc' = "returning", work'.status = "denied" PROVE LastBlocks'
  <2>1. CASE LeavesDenied
    BY <1>2, <2>1
  <2>2. CASE Waits
    <3>1. LastBlocks
      BY <1>3, <2>2 DEF Waits, Refusal
    <3> QED BY <2>2, <3>1, QuietKeeps DEF Waits
  <2>3. CASE LeavesAsHeld
    <3>1. LastBlocks
      BY <1>3, <2>3 DEF LeavesAsHeld, DenialIsTheLastWord, LastBlocks
    <3> QED BY <2>3, <3>1, QuietKeeps DEF LeavesAsHeld
  <2>4. ~ (Raises \/ Rests \/ Works \/ Enters \/ Allowed \/ Passes \/ Clears \/ Executes
           \/ LeavesPlain \/ LeavesAsking)
    BY <1>3 DEF Raises, Rests, Works, Enters, Allowed, Passes, Clears, Executes,
                LeavesPlain, LeavesAsking
  <2> QED BY <2>1, <2>2, <2>3, <2>4, Shapes DEF Shaped, Leaves
<1>4. pc = "returning" => Quiet
  BY OutsideIsQuiet DEF InCall, BeforeCall, ToolPlaces
<1>5. ASSUME state'.status \in Terminal PROVE Quiet
  BY <1>1, <1>4, <1>5, SettledIsQuiet
<1>6. ASSUME state'.status = "denied" PROVE LastBlocks'
  <2>1. Quiet
    BY <1>5, <1>6 DEF Terminal
  <2>2. LastBlocks
    BY <1>1, <1>6 DEF Refusal, DenialIsTheLastWord, LastBlocks
  <2> QED BY <2>1, <2>2, QuietKeeps
<1>7. Refusal'
  BY <1>3, <1>5 DEF Refusal, Quiet
<1>8. DenialIsTheLastWord'
  BY <1>6 DEF DenialIsTheLastWord, LastBlocks
<1> QED BY <1>7, <1>8

(* What a denied run wrote is in the file when its process dies.             *)
LEMMA DenialRestart ==
    ASSUME IInv, Placed, Refusal, DenialIsTheLastWord, TrailRestart
    PROVE  Refusal' /\ DenialIsTheLastWord'
<1>1. /\ emitted' = << >> /\ UNCHANGED state /\ pc' \in {"new", "idle"}
      /\ file' \in Seq(Stamped) /\ Len(file) \in Nat /\ Len(file') \in Nat
      /\ Len(file') <= Len(file)
      /\ \A k \in 1 .. Len(file') : file'[k] = file[k]
      /\ state.status # "unstarted" => Len(file) - Len(emitted) <= Len(file')
  BY RestartFacts
<1>2. Refusal'
  BY <1>1 DEF Refusal
<1>3. ASSUME state.status = "denied" PROVE LastBlocks'
  <2>1. LastBlocks
    BY <1>3 DEF DenialIsTheLastWord, LastBlocks
  <2>2. Len(emitted) = 0
    BY <1>3 DEF Refusal, Terminal
  <2>3. Len(file') = Len(file)
    BY <1>1, <1>3, <2>2
  <2>4. Len(file) # 0
    BY <2>1 DEF LastBlocks, Placed
  <2>5. file'[Len(file')] = file[Len(file)] /\ file' # << >>
    <3>1. Len(file') \in 1 .. Len(file')
      BY <1>1, <2>3, <2>4
    <3> QED BY <1>1, <2>3, <2>4, <3>1
  <2> QED BY <2>1, <2>5 DEF LastBlocks, Last
<1>4. DenialIsTheLastWord'
  BY <1>1, <1>3 DEF DenialIsTheLastWord, LastBlocks
<1> QED BY <1>2, <1>4

-----------------------------------------------------------------------------
(***************************************************************************)
(* A step that begins an outside call writes the decisions it is made under. *)
(***************************************************************************)

(* The decisions of the policies that apply are what the step adds to the file. *)
LEMMA RecordedGrows ==
    ASSUME IInv, Placed, Machine \/ Calm, Keep(emitted'), NEW hook, NEW ctx,
           Recorded(hook, ctx)
    PROVE  DecidedNow(hook, ctx)
<1> DEFINE R == emitted'
<1>1. /\ Len(R) \in Nat /\ Len(file) \in Nat
      /\ Len(file') = Len(file) + Len(R)
      /\ \A k \in 1 .. Len(R) : file'[Len(file) + k].body = R[k]
  BY GrowFacts
<1>2. PICK outcome \in Outcomes \ Blocking : HookTrace(R, hook, outcome)
  BY DEF Recorded
<1>3. \A i \in DOMAIN config.policies :
         Applies(config.policies[i], hook, ctx) => Decides(R, config.policies[i].name)
  BY DEF Recorded
<1> HIDE DEF R
<1> SUFFICES ASSUME NEW i \in DOMAIN config.policies, Applies(config.policies[i], hook, ctx)
             PROVE  \E k \in Len(file) + 1 .. Len(file') :
                        /\ file'[k].body.kind = "decision"
                        /\ file'[k].body.hook = hook
                        /\ file'[k].body.policy = config.policies[i].name
                        /\ file'[k].body.verdict \notin Blocking
  BY DEF DecidedNow
<1>4. PICK m \in 1 .. Len(R) : R[m].kind = "decision" /\ R[m].policy = config.policies[i].name
  BY <1>3 DEF Decides
<1>5. R[m].hook = hook /\ R[m].verdict = outcome
  BY <1>2, <1>4 DEF HookTrace
<1>6. Len(file) + m \in Len(file) + 1 .. Len(file') /\ file'[Len(file) + m].body = R[m]
  BY <1>1, <1>4
<1> QED BY <1>2, <1>4, <1>5, <1>6

(* An outside call begins only behind its hook.                              *)
LEMMA OutsideStep ==
    ASSUME IInv, Placed, Machine \/ Calm, Keep(emitted')
    PROVE  /\ ProviderCallBegins => DecidedNow("model_call", ModelContext)
           /\ AttemptBegins => DecidedNow("tool_call", AttemptContext)
<1>1. ASSUME ProviderCallBegins PROVE DecidedNow("model_call", ModelContext)
  <2>1. ~ (Raises \/ Rests \/ Waits \/ Works \/ Enters \/ Allowed \/ Passes \/ Executes \/ Leaves)
    BY <1>1 DEF ProviderCallBegins, Raises, Rests, Waits, Works, Enters, Allowed, Passes,
                Executes, Leaves, LeavesPlain, LeavesAsHeld, LeavesDenied, LeavesAsking
  <2>2. Clears
    BY <2>1, Shapes DEF Shaped
  <2> QED BY <2>2, RecordedGrows DEF Clears
<1>2. ASSUME AttemptBegins PROVE DecidedNow("tool_call", AttemptContext)
  <2>1. ~ (Raises \/ Rests \/ Waits \/ Works \/ Enters \/ Allowed \/ Passes \/ Clears \/ Leaves)
    BY <1>2 DEF AttemptBegins, Raises, Rests, Waits, Works, Enters, Allowed, Passes,
                Clears, Leaves, LeavesPlain, LeavesAsHeld, LeavesDenied, LeavesAsking
  <2>2. Executes
    BY <2>1, Shapes DEF Shaped
  <2> QED BY <2>2, RecordedGrows DEF Executes
<1> QED BY <1>1, <1>2

-----------------------------------------------------------------------------
(***************************************************************************)
(* Approvals.  The question that a RunState waits on stays in the file, out  *)
(* of the reach of a crash once the caller has the RunState; nothing is      *)
(* written behind it before the answer.  What is approved in a call was      *)
(* answered so in the file, with no other question or answer behind it.      *)
(***************************************************************************)
AnswersAsked ==
    \A k \in DOMAIN file :
        IsAnswer(k) => \E j \in 1 .. k - 1 : /\ IsQuestion(j) /\ ~ IsQuestion(j + 1)
                                             /\ file[j].body.policy = file[k].body.policy

AskedAt(j, name) == /\ IsQuestion(j)
                    /\ file[j].body.policy = name
                    /\ j < Len(file) => ~ IsQuestion(j + 1)

Held == /\ state.pending # NoPending =>
              \E j \in 1 .. Len(file) - Len(emitted) :
                  AskedAt(j, state.pending.policy) /\ (j = Len(file) => pc \notin InCall)
        /\ pc = "returning" /\ work.pending # NoPending =>
              \E j \in 1 .. Len(file) : AskedAt(j, work.pending.policy)

Consented ==
    pc \in BeforeCall /\ approved # NoPolicy =>
        \E k \in DOMAIN file :
            /\ IsAnswer(k)
            /\ file[k].body.policy = approved
            /\ file[k].body.verdict = "ALLOW"
            /\ \A j \in k + 1 .. Len(file) : ~ IsQuestion(j) /\ ~ IsAnswer(j)

(* The file accounts for the approvals of a run as the invariants say.         *)
LEMMA ApprovalsFollow ==
    ASSUME IInv, AnswersAsked, Consented
    PROVE  ApprovalsAreAccountedFor
<1>1. ASSUME pc = "complete", NEW i \in DOMAIN config.policies, MustAsk(config.policies[i])
      PROVE  config.policies[i].name = approved /\ approved # NoPolicy
  <2> DEFINE p == config.policies[i]
  <2>1. /\ Applies(p, "model_call", ModelContext) /\ Refuses(p, ModelContext)
        /\ p.otherwise = "REQUIRE_APPROVAL"
    BY <1>1 DEF MustAsk
  <2>2. ~ Allows(p, ModelContext)
    BY <2>1 DEF Refuses, Allows
  <2>3. p.name = consent
    BY <1>1, <2>1, <2>2 DEF IInv, CallIsCleared
  <2>4. approved = consent
    BY <1>1 DEF IInv, Carried, InCall, BeforeCall
  <2>5. p.name # NoPolicy
    BY ConfigFacts DEF IInv, TypeOK
  <2> QED BY <2>3, <2>4, <2>5
<1>2. pc = "complete" => pc \in BeforeCall
  BY DEF BeforeCall
<1> QED BY <1>1, <1>2 DEF ApprovalsAreAccountedFor, AnswersAsked, Consented

(* The one record of an answer.                                                *)
LEMMA AnswerWritten ==
    ASSUME NEW verdict, emitted' = ApprovalRecord(verdict)
    PROVE  /\ Len(emitted') = 1 /\ emitted'[1].kind = "approval"
           /\ emitted'[1].policy = state.pending.policy
           /\ emitted'[1].verdict = verdict
<1> DEFINE r == [kind |-> "approval", hook |-> "model_call", policy |-> state.pending.policy,
                 verdict |-> verdict, answers |-> state.auditSeq]
<1>1. emitted' = <<r>>
  BY DEF ApprovalRecord
<1>2. r.kind = "approval" /\ r.policy = state.pending.policy /\ r.verdict = verdict
  OBVIOUS
<1> HIDE DEF r
<1> QED BY <1>1, <1>2

(* A hook writes no answer.                                                    *)
LEMMA HooksNeverAnswer ==
    ASSUME NEW R, NEW hook, NEW outcome, HookTrace(R, hook, outcome), NEW k \in 1 .. Len(R)
    PROVE  /\ R[k].kind # "approval"
           /\ hook # "model_call" \/ outcome # "REQUIRE_APPROVAL" =>
                 ~ (/\ R[k].kind = "decision" /\ R[k].hook = "model_call"
                    /\ R[k].verdict = "REQUIRE_APPROVAL")
BY DEF HookTrace

(* What is appended behind a question that is held leaves it open.           *)
LEMMA AskedStays ==
    ASSUME IInv, Placed, Machine \/ Calm, Keep(emitted'),
           NEW j \in 1 .. Len(file), IsQuestion(j), j < Len(file) => ~ IsQuestion(j + 1),
           j = Len(file) => Quiet \/ Answered
    PROVE  /\ IsQuestion(j)' /\ file'[j].body.policy = file[j].body.policy
           /\ j < Len(file') => ~ IsQuestion(j + 1)'
<1>1. /\ Len(emitted') \in Nat /\ Len(file) \in Nat
      /\ Len(file') = Len(file) + Len(emitted')
      /\ \A k \in 1 .. Len(file) : file'[k] = file[k]
      /\ \A k \in 1 .. Len(emitted') : file'[Len(file) + k].body = emitted'[k]
  BY GrowFacts
<1>2. IsQuestion(j)' /\ file'[j].body.policy = file[j].body.policy
  BY <1>1 DEF IsQuestion
<1>3. ASSUME j < Len(file') PROVE ~ IsQuestion(j + 1)'
  <2>1. CASE j < Len(file)
    <3>1. j + 1 \in 1 .. Len(file)
      BY <1>1, <2>1
    <3>2. ~ IsQuestion(j + 1)
      BY <2>1
    <3> QED BY <1>1, <3>1, <3>2 DEF IsQuestion
  <2>2. CASE j = Len(file)
    <3>1. Answered
      <4>1. Len(emitted') > 0
        BY <1>1, <1>3, <2>2
      <4> QED BY <2>2, <4>1 DEF Quiet
    <3>2. Len(emitted') = 1 /\ emitted'[1].kind = "approval"
      BY <3>1, AnswerWritten DEF Answered
    <3>3. file'[j + 1].body = emitted'[1]
      BY <1>1, <2>2, <3>2
    <3> QED BY <3>2, <3>3 DEF IsQuestion
  <2> QED BY <1>1, <2>1, <2>2
<1> QED BY <1>2, <1>3

(* The question of the RunState that the caller holds.                         *)
LEMMA PendingStays ==
    ASSUME IInv, Placed, Held, Machine \/ Calm, Keep(emitted'), state' = state,
           state.pending # NoPending
    PROVE  \E j \in 1 .. Len(file) :
               /\ IsQuestion(j)' /\ file'[j].body.policy = state.pending.policy
               /\ j < Len(file') => ~ IsQuestion(j + 1)'
               /\ j = Len(file') => pc' \notin InCall
<1>1. /\ Len(emitted') \in Nat /\ Len(file) \in Nat /\ Len(emitted) \in Nat
      /\ Len(file') = Len(file) + Len(emitted')
  BY GrowFacts
<1>2. PICK j \in 1 .. Len(file) - Len(emitted) :
         AskedAt(j, state.pending.policy) /\ (j = Len(file) => pc \notin InCall)
  BY DEF Held
<1>3. j \in 1 .. Len(file)
  BY <1>1, <1>2
<1>4. pc # "new"
  <2>1. state.status # "unstarted"
    BY DEF IInv, Sound, Coherent, Unstarted
  <2> QED BY <2>1 DEF IInv, Phase
<1>5. j = Len(file) => Quiet \/ Answered
  BY <1>2, <1>4, OutsideIsQuiet
<1>6. /\ IsQuestion(j)' /\ file'[j].body.policy = state.pending.policy
      /\ j < Len(file') => ~ IsQuestion(j + 1)'
  BY <1>2, <1>3, <1>5, AskedStays DEF AskedAt
<1>7. ASSUME j = Len(file') PROVE pc' \notin InCall
  <2>1. j = Len(file) /\ Len(emitted') = 0 /\ pc \notin InCall
    BY <1>1, <1>2, <1>3, <1>7
  <2>2. ~ Allowed
    BY <2>1, AnswerWritten DEF Allowed
  <2>3. ~ (Works \/ Enters \/ Passes \/ Clears \/ Executes)
    BY <2>1 DEF Works, Enters, Passes, Clears, Executes, InCall, BeforeCall, ToolPlaces
  <2>4. Raises \/ Rests \/ Waits \/ Leaves
    BY <2>2, <2>3, Shapes DEF Shaped
  <2> QED BY <2>1, <2>4 DEF Raises, Rests, Waits, Leaves, LeavesPlain, LeavesAsHeld,
                            LeavesDenied, LeavesAsking, InCall, BeforeCall, ToolPlaces
<1> QED BY <1>3, <1>6, <1>7

(* A RunState that is held keeps its question in the file.                   *)
LEMMA HeldStep ==
    ASSUME IInv, Placed, Held, Machine \/ Calm, Keep(emitted')
    PROVE  Held'
<1>1. /\ emitted' \in Seq(Bodies)
      /\ Len(emitted') \in Nat /\ Len(file) \in Nat /\ Len(emitted) \in Nat
      /\ Len(file') = Len(file) + Len(emitted')
      /\ \A k \in 1 .. Len(emitted') : file'[Len(file) + k].body = emitted'[k]
  BY GrowFacts
<1>2. state' = state \/ (pc = "returning" /\ state' = work)
  BY TrailSteps, StateChanges DEF Next, Environment, Calm
<1>3. pc = "returning" => Quiet /\ pc' \notin InCall
  <2> SUFFICES ASSUME pc = "returning" PROVE Quiet /\ pc' \notin InCall
    OBVIOUS
  <2>1. Quiet
    BY OutsideIsQuiet DEF InCall, BeforeCall, ToolPlaces
  <2>2. ~ (Works \/ Enters \/ Allowed \/ Passes \/ Clears \/ Executes)
    BY DEF Works, Enters, Allowed, Passes, Clears, Executes, InCall, BeforeCall, ToolPlaces
  <2>3. Raises \/ Rests \/ Waits \/ Leaves
    BY <2>2, Shapes DEF Shaped
  <2> QED BY <2>1, <2>3 DEF Raises, Rests, Waits, Leaves, LeavesPlain, LeavesAsHeld,
                            LeavesDenied, LeavesAsking, InCall, BeforeCall, ToolPlaces
<1>4. ASSUME pc = "returning", work.pending # NoPending
      PROVE  \E j \in 1 .. Len(file) :
                 /\ IsQuestion(j)' /\ file'[j].body.policy = work.pending.policy
                 /\ j < Len(file') => ~ IsQuestion(j + 1)'
  <2>1. PICK j \in 1 .. Len(file) : AskedAt(j, work.pending.policy)
    BY <1>4 DEF Held
  <2> QED BY <1>3, <1>4, <2>1, AskedStays DEF AskedAt
<1>5. ASSUME state'.pending # NoPending
      PROVE  \E j \in 1 .. Len(file') - Len(emitted') :
                 /\ IsQuestion(j)' /\ file'[j].body.policy = state'.pending.policy
                 /\ j < Len(file') => ~ IsQuestion(j + 1)'
                 /\ j = Len(file') => pc' \notin InCall
  <2>1. Len(file') - Len(emitted') = Len(file)
    BY <1>1
  <2>2. CASE state' = state
    BY <1>5, <2>1, <2>2, PendingStays
  <2>3. CASE pc = "returning" /\ state' = work
    BY <1>3, <1>4, <1>5, <2>1, <2>3
  <2> QED BY <1>2, <2>2, <2>3
<1>6. ASSUME pc' = "returning", work'.pending # NoPending
      PROVE  \E j \in 1 .. Len(file') :
                 /\ IsQuestion(j)' /\ file'[j].body.policy = work'.pending.policy
                 /\ j < Len(file') => ~ IsQuestion(j + 1)'
  <2>1. Waits \/ LeavesAsHeld \/ LeavesAsking
    <3>1. ~ (Raises \/ Rests \/ Works \/ Enters \/ Allowed \/ Passes \/ Clears \/ Executes
             \/ LeavesPlain \/ LeavesDenied)
      BY <1>6 DEF Raises, Rests, Works, Enters, Allowed, Passes, Clears, Executes,
                  LeavesPlain, LeavesDenied
    <3> QED BY <3>1, Shapes DEF Shaped, Leaves
  <2>2. 1 .. Len(file) \subseteq 1 .. Len(file')
    BY <1>1
  <2>3. CASE Waits
    BY <1>4, <1>6, <2>2, <2>3 DEF Waits
  <2>4. CASE LeavesAsHeld
    <3>1. CASE state' = state
      <4>1. state.pending # NoPending /\ work'.pending.policy = state.pending.policy
        BY <1>6, <2>4 DEF LeavesAsHeld
      <4> QED BY <2>2, <3>1, <4>1, PendingStays
    <3>2. CASE pc = "returning" /\ state' = work
      <4>1. PICK j \in 1 .. Len(file) - Len(emitted) : AskedAt(j, state.pending.policy)
        BY <1>6, <2>4 DEF LeavesAsHeld, Held
      <4>2. j \in 1 .. Len(file)
        BY <1>1, <4>1
      <4>3. work'.pending = state.pending
        BY <2>4 DEF LeavesAsHeld
      <4> QED BY <1>3, <2>2, <3>2, <4>1, <4>2, <4>3, AskedStays DEF AskedAt
    <3> QED BY <1>2, <3>1, <3>2
  <2>5. CASE LeavesAsking
    <3>1. Len(emitted') \in 1 .. Len(emitted') /\ Len(file') \in 1 .. Len(file')
      BY <1>1, <2>5 DEF LeavesAsking
    <3>2. file'[Len(file')].body = LastWritten
      BY <1>1, <3>1 DEF LastWritten
    <3>3. PICK n \in 1 .. Len(file') : n = Len(file')
      BY <3>1
    <3>4. /\ file'[n].body.kind = "decision" /\ file'[n].body.hook = "model_call"
          /\ file'[n].body.verdict = "REQUIRE_APPROVAL"
          /\ file'[n].body.policy = work'.pending.policy
      BY <2>5, <3>2, <3>3 DEF LeavesAsking
    <3>5. IsQuestion(n)'
      BY <3>4 DEF IsQuestion
    <3>6. ~ (n < Len(file'))
      BY <1>1, <3>3
    <3> QED BY <3>4, <3>5, <3>6
  <2> QED BY <2>1, <2>3, <2>4, <2>5
<1> QED BY <1>5, <1>6 DEF Held, AskedAt

(* A torn write reaches only what no caller has been given.                  *)
LEMMA HeldRestart ==
    ASSUME IInv, Placed, Held, TrailRestart
    PROVE  Held'
<1>1. /\ emitted' = << >> /\ UNCHANGED state /\ pc' \in {"new", "idle"}
      /\ Len(file) \in Nat /\ Len(file') \in Nat /\ Len(emitted) \in Nat
      /\ Len(file') <= Len(file)
      /\ \A k \in 1 .. Len(file') : file'[k] = file[k]
      /\ state.status # "unstarted" => Len(file) - Len(emitted) <= Len(file')
  BY RestartFacts
<1>2. ASSUME state.pending # NoPending
      PROVE  \E j \in 1 .. Len(file') :
                 /\ IsQuestion(j)' /\ file'[j].body.policy = state.pending.policy
                 /\ j < Len(file') => ~ IsQuestion(j + 1)'
  <2>1. state.status # "unstarted"
    BY <1>2 DEF IInv, Sound, Coherent, Unstarted
  <2>2. PICK j \in 1 .. Len(file) - Len(emitted) : AskedAt(j, state.pending.policy)
    BY <1>2 DEF Held
  <2>3. j \in 1 .. Len(file')
    BY <1>1, <2>1, <2>2
  <2>4. IsQuestion(j)' /\ file'[j].body.policy = state.pending.policy
    BY <1>1, <2>2, <2>3 DEF AskedAt, IsQuestion
  <2>5. ASSUME j < Len(file') PROVE ~ IsQuestion(j + 1)'
    <3>1. j + 1 \in 1 .. Len(file') /\ j < Len(file)
      BY <1>1, <2>3, <2>5
    <3>2. ~ IsQuestion(j + 1)
      BY <2>2, <3>1 DEF AskedAt
    <3> QED BY <1>1, <3>1, <3>2 DEF IsQuestion
  <2> QED BY <2>3, <2>4, <2>5
<1>3. Len(file') - Len(emitted') = Len(file')
  BY <1>1
<1>4. pc' # "returning" /\ pc' \notin InCall
  BY <1>1 DEF InCall, BeforeCall, ToolPlaces
<1> QED BY <1>1, <1>2, <1>3, <1>4 DEF Held, AskedAt

(* An approval that a call works under stays the last word of the file.      *)
LEMMA ConsentedStep ==
    ASSUME IInv, Placed, Consented, Machine \/ Calm, Keep(emitted')
    PROVE  Consented'
<1>1. /\ Len(emitted') \in Nat /\ Len(file) \in Nat
      /\ DOMAIN file = 1 .. Len(file) /\ DOMAIN file' = 1 .. Len(file')
      /\ Len(file') = Len(file) + Len(emitted')
      /\ \A k \in 1 .. Len(file) : file'[k] = file[k]
      /\ \A k \in 1 .. Len(emitted') : file'[Len(file) + k].body = emitted'[k]
  BY GrowFacts
<1> DEFINE Yes == \E k \in 1 .. Len(file') :
                      /\ IsAnswer(k)' /\ file'[k].body.policy = approved'
                      /\ file'[k].body.verdict = "ALLOW"
                      /\ \A j \in k + 1 .. Len(file') : ~ IsQuestion(j)' /\ ~ IsAnswer(j)'
<1>2. ASSUME pc' \in BeforeCall, approved' # NoPolicy PROVE Yes
  <2>1. ASSUME pc \in BeforeCall, approved' = approved,
               \A k \in 1 .. Len(emitted') :
                   /\ emitted'[k].kind # "approval"
                   /\ ~ (/\ emitted'[k].kind = "decision" /\ emitted'[k].hook = "model_call"
                         /\ emitted'[k].verdict = "REQUIRE_APPROVAL")
        PROVE  Yes
    <3>1. PICK k \in DOMAIN file :
             /\ IsAnswer(k) /\ file[k].body.policy = approved /\ file[k].body.verdict = "ALLOW"
             /\ \A j \in k + 1 .. Len(file) : ~ IsQuestion(j) /\ ~ IsAnswer(j)
      BY <1>2, <2>1 DEF Consented
    <3>2. k \in 1 .. Len(file') /\ k \in 1 .. Len(file)
      BY <1>1
    <3>3. IsAnswer(k)' /\ file'[k].body.policy = approved' /\ file'[k].body.verdict = "ALLOW"
      BY <1>1, <2>1, <3>1, <3>2 DEF IsAnswer
    <3>4. ASSUME NEW j \in k + 1 .. Len(file') PROVE ~ IsQuestion(j)' /\ ~ IsAnswer(j)'
      <4>1. CASE j <= Len(file)
        <5>1. j \in k + 1 .. Len(file) /\ j \in 1 .. Len(file)
          BY <1>1, <3>2, <4>1
        <5> QED BY <1>1, <3>1, <5>1 DEF IsQuestion, IsAnswer
      <4>2. CASE j > Len(file)
        <5> DEFINE m == j - Len(file)
        <5>1. m \in 1 .. Len(emitted') /\ j = Len(file) + m
          BY <1>1, <3>2, <4>2
        <5> HIDE DEF m
        <5>2. file'[j].body = emitted'[m]
          BY <1>1, <5>1
        <5> QED BY <2>1, <5>1, <5>2 DEF IsQuestion, IsAnswer
      <4> QED BY <1>1, <3>2, <4>1, <4>2
    <3> QED BY <3>2, <3>3, <3>4
  <2>2. CASE Allowed
    <3>1. Len(emitted') = 1 /\ emitted'[1].kind = "approval"
          /\ emitted'[1].policy = approved' /\ emitted'[1].verdict = "ALLOW"
      BY <2>2, AnswerWritten DEF Allowed
    <3>2. Len(file') \in 1 .. Len(file') /\ file'[Len(file')].body = emitted'[1]
      BY <1>1, <3>1
    <3>3. PICK n \in 1 .. Len(file') : n = Len(file')
      BY <3>2
    <3>4. /\ file'[n].body.kind = "approval" /\ file'[n].body.policy = approved'
          /\ file'[n].body.verdict = "ALLOW"
      BY <3>1, <3>2, <3>3
    <3>5. IsAnswer(n)'
      BY <3>4 DEF IsAnswer
    <3>6. \A j \in n + 1 .. Len(file') : FALSE
      BY <1>1, <3>3
    <3> QED BY <3>4, <3>5, <3>6
  <2>3. CASE Passes
    <3>1. PICK outcome \in Outcomes : HookTrace(emitted', "loop", outcome)
      BY <2>3 DEF Passes
    <3> QED BY <2>1, <2>3, <3>1, HooksNeverAnswer DEF Passes, BeforeCall
  <2>4. CASE Clears
    <3>1. PICK outcome \in Outcomes \ Blocking : HookTrace(emitted', "model_call", outcome)
      BY <2>4 DEF Clears, Recorded
    <3>2. outcome # "REQUIRE_APPROVAL"
      BY <3>1 DEF Blocking
    <3> QED BY <2>1, <2>4, <3>1, <3>2, HooksNeverAnswer DEF Clears, BeforeCall
  <2>5. CASE Waits
    <3>1. Len(emitted') = 0
      BY <2>5 DEF Waits, Quiet
    <3> QED BY <1>2, <2>1, <2>5, <3>1 DEF Waits
  <2>6. ~ (Raises \/ Rests \/ Works \/ Enters \/ Executes \/ Leaves)
    BY <1>2 DEF Raises, Rests, Works, Enters, Executes, Leaves, LeavesPlain, LeavesAsHeld,
                LeavesDenied, LeavesAsking, BeforeCall
  <2> QED BY <2>2, <2>3, <2>4, <2>5, <2>6, Shapes DEF Shaped
<1> QED BY <1>1, <1>2 DEF Consented

(* A new Loop works under no approval.                                       *)
LEMMA ConsentedRestart ==
    ASSUME Placed, TrailRestart
    PROVE  Consented'
BY RestartFacts DEF Consented, BeforeCall

(* An answer is appended only where its question is in the file.             *)
LEMMA AnswersStep ==
    ASSUME IInv, Placed, Held, AnswersAsked, Machine \/ Calm, Keep(emitted')
    PROVE  AnswersAsked'
<1>1. /\ Len(emitted') \in Nat /\ Len(file) \in Nat /\ Len(emitted) \in Nat
      /\ DOMAIN file = 1 .. Len(file) /\ DOMAIN file' = 1 .. Len(file')
      /\ Len(file') = Len(file) + Len(emitted')
      /\ \A k \in 1 .. Len(file) : file'[k] = file[k]
      /\ \A k \in 1 .. Len(emitted') : file'[Len(file) + k].body = emitted'[k]
  BY GrowFacts
<1>2. ASSUME NEW k \in 1 .. Len(file'), IsAnswer(k)'
      PROVE  \E j \in 1 .. k - 1 : /\ IsQuestion(j)' /\ ~ IsQuestion(j + 1)'
                                   /\ file'[j].body.policy = file'[k].body.policy
  <2>1. CASE k <= Len(file)
    <3>1. k \in 1 .. Len(file) /\ file'[k] = file[k]
      BY <1>1, <2>1
    <3>2. PICK j \in 1 .. k - 1 : /\ IsQuestion(j) /\ ~ IsQuestion(j + 1)
                                  /\ file[j].body.policy = file[k].body.policy
      BY <1>1, <1>2, <3>1 DEF AnswersAsked, IsAnswer
    <3>3. j \in 1 .. Len(file) /\ j + 1 \in 1 .. Len(file)
      BY <1>1, <3>1, <3>2
    <3>4. file'[j] = file[j] /\ file'[j + 1] = file[j + 1]
      BY <1>1, <3>3
    <3> QED BY <3>1, <3>2, <3>4 DEF IsQuestion
  <2>2. CASE k > Len(file)
    <3> DEFINE m == k - Len(file)
    <3>1. m \in 1 .. Len(emitted') /\ k = Len(file) + m
      BY <1>1, <2>2
    <3> HIDE DEF m
    <3>2. file'[k].body = emitted'[m] /\ emitted'[m].kind = "approval"
      BY <1>1, <1>2, <3>1 DEF IsAnswer
    <3>3. ~ Quiet
      BY <3>1 DEF Quiet
    <3>4. ~ Spoken
      BY <3>1, <3>2, HooksNeverAnswer DEF Spoken
    <3>5. Answered
      BY <3>3, <3>4, Writes
    <3>6. Len(emitted') = 1 /\ emitted'[1].policy = state.pending.policy
      BY <3>5, AnswerWritten DEF Answered
    <3>7. m = 1 /\ k = Len(file') /\ k = Len(file) + 1
      BY <1>1, <3>1, <3>6
    <3>8. PICK j \in 1 .. Len(file) - Len(emitted) : AskedAt(j, state.pending.policy)
      BY <3>5 DEF Held, Answered
    <3>9. j \in 1 .. Len(file)
      BY <1>1, <3>8
    <3>10. /\ IsQuestion(j)' /\ file'[j].body.policy = file[j].body.policy
           /\ j < Len(file') => ~ IsQuestion(j + 1)'
      BY <3>5, <3>8, <3>9, AskedStays DEF AskedAt
    <3>11. j \in 1 .. k - 1 /\ j < Len(file')
      BY <1>1, <3>7, <3>9
    <3> QED BY <3>2, <3>6, <3>7, <3>8, <3>10, <3>11 DEF AskedAt
  <2> QED BY <1>1, <2>1, <2>2
<1> QED BY <1>1, <1>2 DEF AnswersAsked

(* A torn write takes an answer before it takes its question.                *)
LEMMA AnswersRestart ==
    ASSUME Placed, AnswersAsked, TrailRestart
    PROVE  AnswersAsked'
<1>1. /\ Len(file) \in Nat /\ Len(file') \in Nat /\ Len(file') <= Len(file)
      /\ \A k \in 1 .. Len(file') : file'[k] = file[k]
      /\ DOMAIN file = 1 .. Len(file) /\ DOMAIN file' = 1 .. Len(file')
  BY RestartFacts DEF Placed
<1>2. ASSUME NEW k \in 1 .. Len(file'), IsAnswer(k)'
      PROVE  \E j \in 1 .. k - 1 : /\ IsQuestion(j)' /\ ~ IsQuestion(j + 1)'
                                   /\ file'[j].body.policy = file'[k].body.policy
  <2>1. k \in 1 .. Len(file) /\ file'[k] = file[k]
    BY <1>1
  <2>2. PICK j \in 1 .. k - 1 : /\ IsQuestion(j) /\ ~ IsQuestion(j + 1)
                                /\ file[j].body.policy = file[k].body.policy
    BY <1>1, <1>2, <2>1 DEF AnswersAsked, IsAnswer
  <2>3. j \in 1 .. Len(file') /\ j + 1 \in 1 .. Len(file')
    BY <1>1, <2>2
  <2>4. file'[j] = file[j] /\ file'[j + 1] = file[j + 1]
    BY <1>1, <2>3
  <2> QED BY <2>1, <2>2, <2>4 DEF IsQuestion
<1> QED BY <1>1, <1>2 DEF AnswersAsked

-----------------------------------------------------------------------------
(***************************************************************************)
(* The invariant of the trail.                                              *)
(***************************************************************************)
TrailInv == /\ IInv
            /\ Placed /\ LoopLogVerifies
            /\ TokensAreAccountedFor
            /\ Refusal /\ DenialIsTheLastWord
            /\ Held /\ Consented /\ AnswersAsked

(* An empty file accounts for everything.                                    *)
LEMMA InitTrail == TrailInit => TrailInv
<1> SUFFICES ASSUME TrailInit PROVE TrailInv
  OBVIOUS
<1>1. IInv
  BY TrailSteps, InitIInv
<1>2. /\ file = << >> /\ log = << >> /\ emitted = << >> /\ pc = "new"
      /\ state = Unstarted /\ vault = {}
  BY DEF TrailInit, Init
<1>3. Len(file) = 0 /\ Len(log) = 0 /\ Len(emitted) = 0 /\ DOMAIN file = {} /\ DOMAIN log = {}
  BY <1>2
<1>4. Placed /\ LoopLogVerifies
  BY <1>2, <1>3 DEF Placed, LoopLogVerifies, Verify
<1>5. TokensAreAccountedFor /\ AnswersAsked
  BY <1>2, <1>3 DEF TokensAreAccountedFor, AnswersAsked
<1>6. state.status = "unstarted" /\ state.pending = NoPending
  BY <1>2 DEF Unstarted
<1>7. Refusal /\ DenialIsTheLastWord /\ Held /\ Consented
  BY <1>2, <1>6 DEF Refusal, DenialIsTheLastWord, Held, Consented,
                    BeforeCall, Terminal
<1> QED BY <1>1, <1>4, <1>5, <1>7 DEF TrailInv

(* Every action of a run, crash and restart keep the invariant.              *)
LEMMA NextTrail == TrailInv /\ [TrailNext]_trailVars => TrailInv'
<1> SUFFICES ASSUME TrailInv, [TrailNext]_trailVars PROVE TrailInv'
  OBVIOUS
<1>1. IInv'
  BY TrailSteps, NextIInv DEF TrailInv
<1>2. CASE (Machine \/ Calm) /\ Keep(emitted')
  BY <1>1, <1>2, PlacedStep, TokensStep, DenialStep, HeldStep, ConsentedStep,
     AnswersStep DEF TrailInv
<1>3. CASE TrailRestart
  BY <1>1, <1>3, PlacedRestart, TokensRestart, DenialRestart, HeldRestart,
     ConsentedRestart, AnswersRestart DEF TrailInv
<1>4. CASE UNCHANGED trailVars
  <2> USE <1>4 DEF TrailInv, trailVars, vars
  <2>1. Placed' /\ LoopLogVerifies' /\ TokensAreAccountedFor'
    BY DEF Placed, LoopLogVerifies, Verify, TokensAreAccountedFor, Logged
  <2>2. Refusal' /\ DenialIsTheLastWord'
    BY DEF Refusal, LastBlocks, DenialIsTheLastWord
  <2>3. Held' /\ Consented' /\ AnswersAsked'
    BY DEF Held, AskedAt, Consented, AnswersAsked, IsQuestion, IsAnswer
  <2> QED BY <1>1, <2>1, <2>2, <2>3
<1> QED BY <1>2, <1>3, <1>4 DEF TrailNext

(* The invariant that the theorems below rest on: it holds after every action  *)
(* of a run, crash and restart, torn writes included.                         *)
THEOREM TrailInvariant == TrailSpec => []TrailInv
BY InitTrail, NextTrail, PTL DEF TrailSpec

(* What a Loop wrote verifies, whatever raised or was retried in it.           *)
THEOREM LogsVerify == TrailSpec => []LoopLogVerifies
<1>1. TrailInv => LoopLogVerifies
  BY DEF TrailInv
<1> QED BY <1>1, TrailInvariant, PTL

(* Whatever was tokenized is on record with the decision that it was tokenized *)
(* under, over exceptions, retries and restarts.                               *)
THEOREM TokensAccounted == TrailSpec => []TokensAreAccountedFor
<1>1. TrailInv => TokensAreAccountedFor
  BY DEF TrailInv
<1> QED BY <1>1, TrailInvariant, PTL

(* The file of a denied run ends with the refusal.                             *)
THEOREM DenialsAreLast == TrailSpec => []DenialIsTheLastWord
<1>1. TrailInv => DenialIsTheLastWord
  BY DEF TrailInv
<1> QED BY <1>1, TrailInvariant, PTL

(* Every call of the provider and every attempt of a tool, retries included, is *)
(* begun by a step that writes its own decisions.                              *)
THEOREM OutsideCallsRecorded == TrailSpec => OutsideCallsAreRecorded
<1>1. TrailInv /\ [TrailNext]_trailVars =>
          [/\ ProviderCallBegins => DecidedNow("model_call", ModelContext)
           /\ AttemptBegins => DecidedNow("tool_call", AttemptContext)]_trailVars
  <2> SUFFICES ASSUME TrailInv, TrailNext
               PROVE  /\ ProviderCallBegins => DecidedNow("model_call", ModelContext)
                      /\ AttemptBegins => DecidedNow("tool_call", AttemptContext)
    OBVIOUS
  <2>1. CASE (Machine \/ Calm) /\ Keep(emitted')
    BY <2>1, OutsideStep DEF TrailInv
  <2>2. CASE TrailRestart
    <3>1. pc' \in {"new", "idle"}
      BY <2>2, RestartFacts DEF TrailInv
    <3> QED BY <3>1 DEF ProviderCallBegins, AttemptBegins
  <2> QED BY <2>1, <2>2 DEF TrailNext
<1> QED BY <1>1, TrailInvariant, PTL DEF TrailSpec, OutsideCallsAreRecorded

(* Every approval answers a question of the file, and every provider call      *)
(* under a rule that asks has the answer that allows it.                       *)
THEOREM ApprovalsAccounted == TrailSpec => []ApprovalsAreAccountedFor
<1>1. TrailInv => ApprovalsAreAccountedFor
  BY ApprovalsFollow DEF TrailInv
<1> QED BY <1>1, TrailInvariant, PTL

(* The runs of the trail are runs of the agent loop.                           *)
THEOREM TrailImplementsLoop == TrailSpec => Spec
BY TrailSteps, PTL DEF TrailSpec, Spec
=============================================================================
