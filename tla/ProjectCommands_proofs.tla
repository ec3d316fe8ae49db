----------------------- MODULE ProjectCommands_proofs -----------------------
(***************************************************************************)
(* Proofs about ProjectCommands and the McpSource below it, in four parts.    *)
(*                                                                         *)
(* The channels: however a server mixes answers, errors and stray lines, its  *)
(* source is behind by the stray lines it has taken for answers (MInv).       *)
(*                                                                         *)
(* The files: what Filtered keeps, and what a lock says of a project.         *)
(*                                                                         *)
(* The commands: what each of them knows of the files, of the lock and of its *)
(* children while others step and somebody edits (CInv).                     *)
(*                                                                         *)
(* The documents: what load_project has merged is what the files say (DInv).  *)
(***************************************************************************)
EXTENDS ProjectCommands, Positions, SequenceTheorems

(* What the lines in a pipe answer.                                          *)
Of(s) == {s[i].of : i \in DOMAIN s}

(* No two lines answer the same question.                                    *)
Different(s) == \A i, j \in DOMAIN s : s[i].of = s[j].of /\ s[i].of # 0 => i = j

Behind(ch) == ch.open \cup (Of(ch.lines) \ {0})

(* A channel that was never opened; questions are numbered from 1 and        *)
(* answered once; as many are unread as stray lines were heard, and the one   *)
(* that is waited for; without any heard, no other is.                       *)
Idle(ch) == ch.child = "none" => /\ ch.open = {} /\ ch.lines = << >> /\ ch.ident = 0
                                 /\ ~ ch.waiting /\ ch.heard = 0 /\ ch.last.of = 0
Numbered(ch) == /\ Behind(ch) \subseteq 1 .. ch.ident
                /\ ch.open \cap Of(ch.lines) = {}
                /\ Different(ch.lines)
Counted(ch) == ch.child = "running" =>
                  Cardinality(Behind(ch)) = ch.heard + (IF ch.waiting THEN 1 ELSE 0)
Abreast(ch) == ch.heard = 0 => IF ch.waiting THEN Behind(ch) \subseteq {ch.ident}
                               ELSE ch.last.of \in {0, ch.ident}

Valid(ch) == /\ ch \in [child : {"none", "running", "exited", "killed"}, ident : 0 .. MaxAsked,
                        open : SUBSET (1 .. MaxAsked), lines : Seq(Lines), waiting : BOOLEAN,
                        last : Lines, stray : Nat, heard : Nat]
             /\ Idle(ch) /\ Numbered(ch) /\ Counted(ch) /\ Abreast(ch)

MInv == /\ channel = [c \in Servers |-> channel[c]]
        /\ \A c \in Servers : Valid(channel[c])

-----------------------------------------------------------------------------
(* A line is written behind the others.                                      *)
LEMMA Written ==
    ASSUME NEW s \in Seq(Lines), NEW line \in Lines
    PROVE  /\ Append(s, line) \in Seq(Lines)
           /\ Of(Append(s, line)) = Of(s) \cup {line.of}
           /\ Different(s) /\ (line.of = 0 \/ line.of \notin Of(s)) => Different(Append(s, line))
<1> DEFINE t == Append(s, line)
<1>1. /\ t \in Seq(Lines) /\ Len(t) = Len(s) + 1 /\ Len(s) \in Nat
      /\ \A i \in 1 .. Len(s) : t[i] = s[i]
      /\ t[Len(s) + 1] = line
  BY AppendProperties
<1>2. DOMAIN s = 1 .. Len(s) /\ DOMAIN t = 1 .. Len(s) + 1
  BY <1>1
<1> HIDE DEF t
<1>3. Of(t) = Of(s) \cup {line.of}
  <2>1. ASSUME NEW i \in DOMAIN t PROVE t[i].of \in Of(s) \cup {line.of}
    <3>1. i \in DOMAIN s \/ i = Len(s) + 1
      BY <1>1, <1>2
    <3> QED
      BY <1>1, <1>2, <3>1 DEF Of
  <2>2. \A i \in DOMAIN s : i \in DOMAIN t /\ t[i] = s[i]
    BY <1>1, <1>2
  <2>3. Len(s) + 1 \in DOMAIN t
    BY <1>1, <1>2
  <2> QED
    BY <1>1, <2>1, <2>2, <2>3 DEF Of
<1>4. ASSUME Different(s), line.of = 0 \/ line.of \notin Of(s) PROVE Different(t)
  <2> SUFFICES ASSUME NEW i \in DOMAIN t, NEW j \in DOMAIN t, t[i].of = t[j].of, t[i].of # 0
               PROVE  i = j
    BY DEF Different
  <2>1. \A k \in DOMAIN t : (k \in DOMAIN s /\ t[k] = s[k]) \/ (k = Len(s) + 1 /\ t[k] = line)
    BY <1>1, <1>2
  <2>2. \A k \in DOMAIN s : s[k].of # 0 => s[k].of # line.of
    BY <1>4 DEF Of
  <2>3. CASE i \in DOMAIN s /\ t[i] = s[i] /\ j \in DOMAIN s /\ t[j] = s[j]
    BY <1>4, <2>3 DEF Different
  <2>4. CASE i = Len(s) + 1 /\ t[i] = line /\ j \in DOMAIN s /\ t[j] = s[j]
    BY <2>2, <2>4
  <2>5. CASE i \in DOMAIN s /\ t[i] = s[i] /\ j = Len(s) + 1 /\ t[j] = line
    BY <2>2, <2>5
  <2> QED
    BY <2>1, <2>3, <2>4, <2>5
<1> QED
  BY <1>1, <1>3, <1>4 DEF t

(* The first line is read.                                                   *)
LEMMA Taken ==
    ASSUME NEW s \in Seq(Lines), s # << >>
    PROVE  /\ Head(s) \in Lines /\ Tail(s) \in Seq(Lines)
           /\ Of(s) = Of(Tail(s)) \cup {Head(s).of}
           /\ Different(s) => /\ Different(Tail(s))
                              /\ Head(s).of = 0 \/ Head(s).of \notin Of(Tail(s))
<1> DEFINE t == Tail(s)
<1>1. /\ Head(s) \in Lines /\ t \in Seq(Lines) /\ Len(t) = Len(s) - 1
      /\ \A i \in 1 .. Len(t) : t[i] = s[i + 1]
  BY HeadTailProperties
<1>2. Len(s) \in Nat /\ Len(s) > 0 /\ Head(s) = s[1]
  OBVIOUS
<1>3. DOMAIN s = 1 .. Len(s) /\ DOMAIN t = 1 .. Len(s) - 1
  BY <1>1
<1> HIDE DEF t
<1>4. \A i \in DOMAIN t : i + 1 \in DOMAIN s /\ t[i] = s[i + 1] /\ i + 1 # 1
  BY <1>1, <1>2, <1>3
<1>5. \A k \in DOMAIN s : k = 1 \/ (k - 1 \in DOMAIN t /\ t[k - 1] = s[k])
  BY <1>1, <1>2, <1>3
<1>6. 1 \in DOMAIN s
  BY <1>2, <1>3
<1>7. Of(s) = Of(t) \cup {Head(s).of}
  <2>1. Of(t) \cup {Head(s).of} \subseteq Of(s)
    BY <1>2, <1>4, <1>6 DEF Of
  <2>2. Of(s) \subseteq Of(t) \cup {Head(s).of}
    BY <1>2, <1>5 DEF Of
  <2> QED
    BY <2>1, <2>2
<1>8. ASSUME Different(s) PROVE Different(t) /\ (Head(s).of = 0 \/ Head(s).of \notin Of(t))
  <2>1. ASSUME NEW i \in DOMAIN t, NEW j \in DOMAIN t, t[i].of = t[j].of, t[i].of # 0
        PROVE  i = j
    <3>1. i + 1 = j + 1
      BY <1>4, <1>8, <2>1 DEF Different
    <3>2. i \in Nat /\ j \in Nat
      BY <1>2, <1>3
    <3> QED
      BY <3>1, <3>2
  <2>2. ASSUME Head(s).of # 0, NEW i \in DOMAIN t, t[i].of = Head(s).of PROVE FALSE
    BY <1>2, <1>4, <1>6, <1>8, <2>2 DEF Different
  <2> QED
    BY <2>1, <2>2 DEF Different, Of
<1> QED
  BY <1>1, <1>7, <1>8 DEF t

(* The questions behind are finitely many.                                   *)
LEMMA BehindIsFinite ==
    ASSUME NEW ch, Valid(ch)
    PROVE  IsFiniteSet(Behind(ch)) /\ Cardinality(Behind(ch)) \in Nat
<1>1. ch.ident \in Int /\ Behind(ch) \subseteq 1 .. ch.ident
  BY McpAssumption DEF Valid, Numbered
<1>2. IsFiniteSet(1 .. ch.ident)
  BY <1>1, FS_Interval
<1>3. IsFiniteSet(Behind(ch))
  BY <1>1, <1>2, FS_Subset
<1> QED
  BY <1>3, FS_CardinalityType

-----------------------------------------------------------------------------
(***************************************************************************)
(* A record in the place of another is valid: every action is one of these.  *)
(***************************************************************************)
(* A child that starts.                                                      *)
LEMMA SpawnIsValid ==
    ASSUME NEW ch, Valid(ch), ch.child = "none", MaxAsked > 0,
           NEW new, new = [ch EXCEPT !.child = "running", !.ident = 1, !.open = {1},
                                     !.waiting = TRUE]
    PROVE  Valid(new)
<1>1. ch.lines = << >> /\ ch.heard = 0
  BY DEF Valid, Idle
<1>2. /\ new.child = "running" /\ new.ident = 1 /\ new.open = {1} /\ new.waiting = TRUE
      /\ new.lines = << >> /\ new.heard = 0
  BY <1>1 DEF Valid
<1>3. Of(new.lines) = {} /\ Behind(new) = {1}
  BY <1>2 DEF Of, Behind
<1>4. Numbered(new)
  <2>1. Different(new.lines)
    BY <1>2 DEF Different
  <2> QED
    BY <1>2, <1>3, <2>1 DEF Numbered
<1>5. Counted(new) /\ Abreast(new)
  <2>1. Cardinality({1}) = 1
    BY FS_Singleton
  <2>2. Cardinality(Behind(new)) = 1
    BY <1>3, <2>1
  <2>3. Counted(new)
    BY <1>2, <2>2 DEF Counted
  <2>4. Abreast(new)
    BY <1>2, <1>3 DEF Abreast
  <2> QED
    BY <2>3, <2>4
<1>6. 1 \in 1 .. MaxAsked /\ 1 \in 0 .. MaxAsked
  BY McpAssumption
<1> QED
  BY <1>2, <1>4, <1>5, <1>6 DEF Valid, Idle

(* A question to a child that is there.                                      *)
LEMMA AskIsValid ==
    ASSUME NEW ch, Valid(ch), ch.child = "running", ~ ch.waiting, ch.ident < MaxAsked,
           NEW new, new = [ch EXCEPT !.ident = ch.ident + 1, !.open = @ \cup {ch.ident + 1},
                                     !.last = Line(0, FALSE), !.waiting = TRUE]
    PROVE  Valid(new)
<1> DEFINE k == ch.ident + 1
<1>1. /\ new.child = "running" /\ new.ident = k /\ new.open = ch.open \cup {k}
      /\ new.waiting = TRUE /\ new.lines = ch.lines /\ new.heard = ch.heard
  BY DEF Valid
<1>2. ch.ident \in Nat /\ ch.heard \in Nat /\ k \in 1 .. MaxAsked /\ k # 0
  BY McpAssumption DEF Valid
<1>3. Behind(new) = Behind(ch) \cup {k}
  BY <1>1 DEF Behind
<1>4. Behind(ch) \subseteq 1 .. ch.ident /\ k \notin Behind(ch)
  BY <1>2 DEF Valid, Numbered
<1>5. Numbered(new)
  <2>1. Behind(new) \subseteq 1 .. k
    BY <1>2, <1>3, <1>4
  <2>2. k \notin Of(ch.lines)
    BY <1>2, <1>4 DEF Behind
  <2> QED
    BY <1>1, <2>1, <2>2 DEF Numbered, Valid
<1>6. Counted(new)
  <2>1. Cardinality(Behind(ch)) = ch.heard
    BY <1>2 DEF Valid, Counted
  <2>2. Cardinality(Behind(new)) = ch.heard + 1
    BY <1>3, <1>4, <2>1, BehindIsFinite, FS_AddElement
  <2> QED
    BY <1>1, <2>2 DEF Counted
<1>7. Abreast(new)
  <2>1. ASSUME ch.heard = 0 PROVE Behind(ch) = {}
    <3>1. Cardinality(Behind(ch)) = 0
      BY <2>1 DEF Valid, Counted
    <3> QED
      BY <3>1, BehindIsFinite, FS_EmptySet
  <2> QED
    BY <1>1, <1>3, <2>1 DEF Abreast
<1>8. Line(0, FALSE) \in Lines
  BY McpAssumption DEF Line, Lines
<1>9. k \in 0 .. MaxAsked /\ new.open \in SUBSET (1 .. MaxAsked)
  BY <1>1, <1>2 DEF Valid
<1> QED
  BY <1>1, <1>5, <1>6, <1>7, <1>8, <1>9 DEF Valid, Idle

(* The child is gone: the number is taken and nothing is asked.              *)
LEMMA AskInVainIsValid ==
    ASSUME NEW ch, Valid(ch), ch.child = "exited", ~ ch.waiting, ch.ident < MaxAsked,
           NEW new, new = [ch EXCEPT !.ident = ch.ident + 1, !.last = Line(0, TRUE)]
    PROVE  Valid(new)
<1>1. /\ new.child = "exited" /\ new.ident = ch.ident + 1 /\ new.open = ch.open
      /\ new.waiting = ch.waiting /\ new.lines = ch.lines /\ new.heard = ch.heard
      /\ new.last = Line(0, TRUE)
  BY DEF Valid
<1>2. ch.ident \in Nat /\ ch.ident + 1 \in 0 .. MaxAsked /\ Line(0, TRUE) \in Lines
  BY McpAssumption DEF Valid, Line, Lines
<1>3. Behind(new) = Behind(ch)
  BY <1>1 DEF Behind
<1>4. Numbered(new)
  <2>1. Behind(ch) \subseteq 1 .. ch.ident
    BY DEF Valid, Numbered
  <2>2. 1 .. ch.ident \subseteq 1 .. ch.ident + 1
    BY <1>2
  <2> QED
    BY <1>1, <1>3, <2>1, <2>2 DEF Numbered, Valid
<1>5. Abreast(new) /\ Counted(new)
  BY <1>1 DEF Abreast, Counted, Line
<1> QED
  BY <1>1, <1>2, <1>4, <1>5 DEF Valid, Idle

(* A line is read, for the answer or for noise.                              *)
LEMMA ReadLineIsValid ==
    ASSUME NEW ch, Valid(ch), ch.waiting, ch.lines # << >>,
           NEW new, new = [ch EXCEPT !.lines = Tail(@), !.waiting = FALSE, !.last = Head(ch.lines),
                                     !.heard = IF Head(ch.lines).of = 0 THEN @ + 1 ELSE @]
    PROVE  Valid(new)
<1> DEFINE line == Head(ch.lines)
           rest == Tail(ch.lines)
<1>1. ch.lines \in Seq(Lines) /\ ch.heard \in Nat /\ ch.child # "none"
  BY DEF Valid, Idle
<1>2. /\ line \in Lines /\ rest \in Seq(Lines)
      /\ Of(ch.lines) = Of(rest) \cup {line.of}
      /\ Different(rest) /\ (line.of = 0 \/ line.of \notin Of(rest))
  BY <1>1, Taken DEF Valid, Numbered
<1>3. /\ new.child = ch.child /\ new.ident = ch.ident /\ new.open = ch.open
      /\ new.waiting = FALSE /\ new.lines = rest /\ new.last = line
      /\ new.heard = IF line.of = 0 THEN ch.heard + 1 ELSE ch.heard
  BY DEF Valid
<1> HIDE DEF line, rest
<1>4. Behind(new) = IF line.of = 0 THEN Behind(ch) ELSE Behind(ch) \ {line.of}
  <2>1. CASE line.of = 0
    BY <1>2, <1>3, <2>1 DEF Behind
  <2>2. CASE line.of # 0
    <3>1. line.of \notin ch.open
      BY <1>2 DEF Valid, Numbered
    <3> QED
      BY <1>2, <1>3, <2>2, <3>1 DEF Behind
  <2> QED
    BY <2>1, <2>2
<1>5. line.of # 0 => line.of \in Behind(ch)
  BY <1>2 DEF Behind
<1>6. Numbered(new)
  BY <1>2, <1>3, <1>4 DEF Numbered, Valid
<1>7. Counted(new)
  <2> SUFFICES ASSUME new.child = "running" PROVE Cardinality(Behind(new)) = new.heard
    BY <1>1, <1>3 DEF Counted
  <2>1. Cardinality(Behind(ch)) = ch.heard + 1
    BY <1>3 DEF Valid, Counted
  <2>2. line.of # 0 => Cardinality(Behind(new)) = ch.heard
    BY <1>1, <1>4, <1>5, <2>1, BehindIsFinite, FS_RemoveElement
  <2>3. CASE line.of = 0
    <3>1. Behind(new) = Behind(ch) /\ new.heard = ch.heard + 1
      BY <1>3, <1>4, <2>3
    <3> QED
      BY <2>1, <3>1
  <2>4. CASE line.of # 0
    <3>1. new.heard = ch.heard
      BY <1>3, <2>4
    <3> QED
      BY <2>2, <2>4, <3>1
  <2> QED
    BY <2>3, <2>4
<1>8. Abreast(new)
  <2> SUFFICES ASSUME new.heard = 0 PROVE line.of \in {0, ch.ident}
    BY <1>3 DEF Abreast
  <2>1. line.of # 0 /\ ch.heard = 0
    BY <1>1, <1>3
  <2> QED
    BY <1>5, <2>1 DEF Valid, Abreast
<1>9. new.heard \in Nat
  BY <1>1, <1>3
<1> QED
  BY <1>1, <1>2, <1>3, <1>6, <1>7, <1>8, <1>9 DEF Valid, Idle

(* There is no line any more, and will be none.                              *)
LEMMA ReadEndIsValid ==
    ASSUME NEW ch, Valid(ch), ch.waiting, ch.child # "running",
           NEW new, new = [ch EXCEPT !.waiting = FALSE, !.last = Line(0, TRUE)]
    PROVE  Valid(new)
<1>1. /\ new.child = ch.child /\ new.ident = ch.ident /\ new.open = ch.open
      /\ new.waiting = FALSE /\ new.lines = ch.lines /\ new.heard = ch.heard
      /\ new.last = Line(0, TRUE)
  BY DEF Valid
<1>2. Line(0, TRUE) \in Lines /\ ch.child # "none"
  BY McpAssumption DEF Valid, Idle, Line, Lines
<1>3. Numbered(new) /\ Counted(new) /\ Abreast(new)
  BY <1>1 DEF Valid, Numbered, Counted, Abreast, Behind, Line
<1> QED
  BY <1>1, <1>2, <1>3 DEF Valid, Idle

(* The server answers a question that is open.                               *)
LEMMA AnswerIsValid ==
    ASSUME NEW ch, Valid(ch), ch.child = "running", NEW k \in ch.open, NEW raises \in BOOLEAN,
           NEW new, new = [ch EXCEPT !.open = @ \ {k}, !.lines = Append(@, Line(k, raises))]
    PROVE  Valid(new)
<1> DEFINE s == ch.lines
           line == Line(k, raises)
<1>1. s \in Seq(Lines) /\ k \in 1 .. MaxAsked /\ k # 0
  BY McpAssumption DEF Valid
<1>2. line \in Lines /\ line.of = k
  BY <1>1, McpAssumption DEF Line, Lines
<1>3. k \notin Of(s) /\ Different(s)
  BY DEF Valid, Numbered
<1>4. /\ new.child = "running" /\ new.ident = ch.ident /\ new.open = ch.open \ {k}
      /\ new.waiting = ch.waiting /\ new.lines = Append(s, line) /\ new.heard = ch.heard
      /\ new.last = ch.last
  BY DEF Valid
<1> HIDE DEF line
<1>5. new.lines \in Seq(Lines) /\ Of(new.lines) = Of(s) \cup {k} /\ Different(new.lines)
  BY <1>1, <1>2, <1>3, <1>4, Written
<1>6. Behind(new) = Behind(ch)
  BY <1>1, <1>4, <1>5 DEF Behind
<1>7. Numbered(new)
  BY <1>4, <1>5, <1>6 DEF Valid, Numbered
<1>8. Counted(new) /\ Abreast(new)
  BY <1>4, <1>6 DEF Valid, Counted, Abreast
<1>9. new.open \in SUBSET (1 .. MaxAsked)
  BY <1>4 DEF Valid
<1> QED
  BY <1>4, <1>5, <1>7, <1>8, <1>9 DEF Valid, Idle

(* The server writes a line of its own.                                      *)
LEMMA StrayIsValid ==
    ASSUME NEW ch, Valid(ch), ch.child = "running", NEW raises \in BOOLEAN,
           NEW new, new = [ch EXCEPT !.stray = @ + 1, !.lines = Append(@, Line(0, raises))]
    PROVE  Valid(new)
<1> DEFINE s == ch.lines
           line == Line(0, raises)
<1>1. s \in Seq(Lines) /\ line \in Lines /\ line.of = 0
  BY McpAssumption DEF Valid, Line, Lines
<1>2. /\ new.child = "running" /\ new.ident = ch.ident /\ new.open = ch.open
      /\ new.waiting = ch.waiting /\ new.lines = Append(s, line) /\ new.heard = ch.heard
      /\ new.last = ch.last /\ new.stray = ch.stray + 1
  BY DEF Valid
<1> HIDE DEF line
<1>3. new.lines \in Seq(Lines) /\ Of(new.lines) = Of(s) \cup {0} /\ Different(new.lines)
  BY <1>1, <1>2, Written DEF Valid, Numbered
<1>4. Behind(new) = Behind(ch)
  BY <1>2, <1>3 DEF Behind
<1>5. Numbered(new)
  <2>1. ch.open \cap {0} = {}
    BY McpAssumption DEF Valid
  <2> QED
    BY <1>2, <1>3, <1>4, <2>1 DEF Valid, Numbered
<1>6. Counted(new) /\ Abreast(new)
  BY <1>2, <1>4 DEF Valid, Counted, Abreast
<1>7. new.stray \in Nat
  BY <1>2 DEF Valid
<1> QED
  BY <1>2, <1>3, <1>5, <1>6, <1>7 DEF Valid, Idle

(* The child exits, or is killed.                                            *)
LEMMA EndIsValid ==
    ASSUME NEW ch, Valid(ch), ch.child = "running", NEW how \in {"exited", "killed"},
           NEW new, new = [ch EXCEPT !.child = how]
    PROVE  Valid(new)
<1>1. /\ new.child = how /\ new.ident = ch.ident /\ new.open = ch.open
      /\ new.waiting = ch.waiting /\ new.lines = ch.lines /\ new.heard = ch.heard
      /\ new.last = ch.last
  BY DEF Valid
<1>2. Numbered(new) /\ Counted(new) /\ Abreast(new)
  BY <1>1 DEF Valid, Numbered, Counted, Abreast, Behind
<1> QED
  BY <1>1, <1>2 DEF Valid, Idle

-----------------------------------------------------------------------------
(* What a step does to one channel is all it does.                           *)
LEMMA OneChannel ==
    ASSUME MInv, NEW c \in Servers, NEW new, Valid(new), channel' = [channel EXCEPT ![c] = new]
    PROVE  MInv'
<1>1. channel' = [d \in Servers |-> channel'[d]]
  BY DEF MInv
<1>2. \A d \in Servers : channel'[d] = IF d = c THEN new ELSE channel[d]
  BY DEF MInv
<1> QED
  BY <1>1, <1>2 DEF MInv

(* Every channel is valid in the beginning.                                  *)
LEMMA McpStarts == McpInit => MInv
<1> SUFFICES ASSUME McpInit PROVE MInv
  OBVIOUS
<1>1. ASSUME NEW c \in Servers PROVE Valid(channel[c])
  <2> DEFINE ch == channel[c]
  <2>1. PICK n \in 0 .. MaxStray : ch = [NoChannel EXCEPT !.stray = n]
    BY DEF McpInit
  <2>2. Line(0, FALSE) \in Lines /\ << >> \in Seq(Lines) /\ 0 \in 0 .. MaxAsked /\ n \in Nat
    BY McpAssumption DEF Line, Lines
  <2>3. /\ ch.child = "none" /\ ch.open = {} /\ ch.lines = << >>
        /\ ch.ident = 0 /\ ch.waiting = FALSE /\ ch.heard = 0 /\ ch.last.of = 0
    BY <2>1 DEF NoChannel, Line
  <2>8. ch = [child |-> "none", ident |-> 0, open |-> {}, lines |-> << >>, waiting |-> FALSE,
              last |-> Line(0, FALSE), stray |-> n, heard |-> 0]
    BY <2>1 DEF NoChannel
  <2> HIDE DEF ch
  <2>4. ch \in [child : {"none", "running", "exited", "killed"}, ident : 0 .. MaxAsked,
                open : SUBSET (1 .. MaxAsked), lines : Seq(Lines), waiting : BOOLEAN,
                last : Lines, stray : Nat, heard : Nat]
    BY <2>2, <2>8
  <2>5. Of(ch.lines) = {} /\ Behind(ch) = {} /\ Different(ch.lines)
    BY <2>3 DEF Of, Behind, Different
  <2>6. Numbered(ch) /\ Counted(ch) /\ Abreast(ch) /\ Idle(ch)
    BY <2>3, <2>5 DEF Numbered, Counted, Abreast, Idle
  <2>7. Valid(ch)
    BY <2>4, <2>6 DEF Valid
  <2> QED
    BY <2>7 DEF ch
<1> QED
  BY <1>1 DEF McpInit, MInv

(* What a step makes of a channel is valid again.                            *)
LEMMA McpGoesOn == MInv /\ [McpNext]_channel => MInv'
<1> SUFFICES ASSUME MInv, [McpNext]_channel PROVE MInv'
  OBVIOUS
<1>1. ASSUME NEW c \in Servers, Spawn(c) PROVE MInv'
  <2> DEFINE new == [channel[c] EXCEPT !.child = "running", !.ident = 1, !.open = {1},
                                       !.waiting = TRUE]
  <2>1. Valid(new)
    BY <1>1, SpawnIsValid DEF Spawn, MInv
  <2>2. channel' = [channel EXCEPT ![c] = new]
    BY <1>1 DEF Spawn
  <2> QED
    BY <2>1, <2>2, OneChannel
<1>2. ASSUME NEW c \in Servers, Ask(c), Running(c) PROVE MInv'
  <2> DEFINE ch == channel[c]
             new == [ch EXCEPT !.ident = ch.ident + 1, !.open = @ \cup {ch.ident + 1},
                               !.last = Line(0, FALSE), !.waiting = TRUE]
  <2>1. Valid(new)
    BY <1>2, AskIsValid DEF Ask, Running, MInv
  <2>2. channel' = [channel EXCEPT ![c] = new]
    BY <1>2 DEF Ask, MInv
  <2> QED
    BY <2>1, <2>2, OneChannel
<1>3. ASSUME NEW c \in Servers, Ask(c), ~ Running(c) PROVE MInv'
  <2> DEFINE ch == channel[c]
             new == [ch EXCEPT !.ident = ch.ident + 1, !.last = Line(0, TRUE)]
  <2>1. Valid(new)
    BY <1>3, AskInVainIsValid DEF Ask, Running, MInv
  <2>2. channel' = [channel EXCEPT ![c] = new]
    BY <1>3 DEF Ask, MInv
  <2> QED
    BY <2>1, <2>2, OneChannel
<1>4. ASSUME NEW c \in Servers, Read(c), Readable(c) PROVE MInv'
  <2> DEFINE ch == channel[c]
             new == [ch EXCEPT !.lines = Tail(@), !.waiting = FALSE, !.last = Head(ch.lines),
                               !.heard = IF Head(ch.lines).of = 0 THEN @ + 1 ELSE @]
  <2>1. Valid(new)
    BY <1>4, ReadLineIsValid DEF Readable, MInv
  <2>2. channel' = [channel EXCEPT ![c] = new]
    BY <1>4 DEF Read, Readable, Ended, Take, MInv
  <2> QED
    BY <2>1, <2>2, OneChannel
<1>5. ASSUME NEW c \in Servers, Read(c), ~ Readable(c) PROVE MInv'
  <2> DEFINE new == [channel[c] EXCEPT !.waiting = FALSE, !.last = Line(0, TRUE)]
  <2>1. Valid(new)
    BY <1>5, ReadEndIsValid DEF Read, Ended, MInv
  <2>2. channel' = [channel EXCEPT ![c] = new]
    BY <1>5 DEF Read, MInv
  <2> QED
    BY <2>1, <2>2, OneChannel
<1>6. ASSUME NEW C \in SUBSET Servers, Close(C) PROVE MInv'
  <2>1. \A c \in Servers : Valid(Killed(c))
    BY EndIsValid DEF Killed, Running, MInv
  <2>2. \A c \in Servers : channel'[c] = IF c \in C THEN Killed(c) ELSE channel[c]
    BY <1>6 DEF Close
  <2>3. \A c \in Servers : Valid(channel'[c])
    BY <2>1, <2>2 DEF MInv
  <2>4. channel' = [c \in Servers |-> channel'[c]]
    BY <1>6, <2>2 DEF Close
  <2> QED
    BY <2>3, <2>4 DEF MInv
<1>7. ASSUME NEW c \in Servers, Answer(c) PROVE MInv'
  <2>1. PICK k \in channel[c].open, raises \in BOOLEAN :
           /\ Running(c)
           /\ channel' = [channel EXCEPT ![c].open = @ \ {k},
                                         ![c].lines = Append(@, Line(k, raises))]
    BY <1>7 DEF Answer
  <2> DEFINE new == [channel[c] EXCEPT !.open = @ \ {k}, !.lines = Append(@, Line(k, raises))]
  <2>2. Valid(new)
    BY <2>1, AnswerIsValid DEF Running, MInv
  <2>3. channel' = [channel EXCEPT ![c] = new]
    BY <2>1 DEF MInv
  <2> QED
    BY <2>2, <2>3, OneChannel
<1>8. ASSUME NEW c \in Servers, Stray(c) PROVE MInv'
  <2>1. PICK raises \in BOOLEAN :
           /\ Running(c)
           /\ channel' = [channel EXCEPT ![c].stray = @ + 1,
                                         ![c].lines = Append(@, Line(0, raises))]
    BY <1>8 DEF Stray
  <2> DEFINE new == [channel[c] EXCEPT !.stray = @ + 1, !.lines = Append(@, Line(0, raises))]
  <2>2. Valid(new)
    BY <2>1, StrayIsValid DEF Running, MInv
  <2>3. channel' = [channel EXCEPT ![c] = new]
    BY <2>1 DEF MInv
  <2> QED
    BY <2>2, <2>3, OneChannel
<1>9. ASSUME NEW c \in Servers, Exit(c) PROVE MInv'
  <2> DEFINE new == [channel[c] EXCEPT !.child = "exited"]
  <2>1. Valid(new)
    BY <1>9, EndIsValid DEF Exit, Running, MInv
  <2>2. channel' = [channel EXCEPT ![c] = new]
    BY <1>9 DEF Exit
  <2> QED
    BY <2>1, <2>2, OneChannel
<1>10. CASE UNCHANGED channel
  BY <1>10 DEF MInv
<1> QED
  BY <1>1, <1>2, <1>3, <1>4, <1>5, <1>6, <1>7, <1>8, <1>9, <1>10 DEF McpNext, Serve

(* The invariant of the exchange: every channel is valid.                     *)
THEOREM McpInvariance == McpSpec => []MInv
  BY McpStarts, McpGoesOn, PTL DEF McpSpec

(***************************************************************************)
(* While a server runs, the source of llmform.sources.mcp is behind by the    *)
(* stray lines it took for answers and by no more, for any number of servers  *)
(* and of questions; without stray lines each answer is to the last question. *)
(***************************************************************************)
THEOREM SourcesKeepStep == McpSpec => []AnswersFollowNoise
<1>1. MInv => AnswersFollowNoise
  <2> SUFFICES ASSUME MInv, NEW c \in Servers
               PROVE  /\ Running(c) => Cardinality(Unread(c)) =
                                          channel[c].heard + (IF channel[c].waiting THEN 1 ELSE 0)
                      /\ channel[c].heard = 0 /\ ~ channel[c].waiting =>
                            channel[c].last.of \in {0, channel[c].ident}
    BY DEF AnswersFollowNoise
  <2>1. Valid(channel[c])
    BY DEF MInv
  <2>2. Unread(c) = Behind(channel[c])
    BY DEF Unread, Answers, Behind, Of
  <2> QED
    BY <2>1, <2>2 DEF Valid, Counted, Abreast, Running
<1> QED
  BY <1>1, McpInvariance, PTL

-----------------------------------------------------------------------------
(***************************************************************************)
(* Filtered, by its values on longer and longer prefixes, which is what an    *)
(* argument by the least counterexample can use.                             *)
(***************************************************************************)
(* f holds what is kept of the first n elements of s.                         *)
Keeps(s, S, n, f) == f = [i \in 0 .. n |-> IF i = 0 THEN << >>
                                          ELSE IF s[i] \in S THEN Append(f[i - 1], s[i])
                                          ELSE f[i - 1]]

(* What is kept of the first n elements, and each of them once.               *)
KeptRight(s, S, n, t) == /\ t \in Seq(Range(s))
                         /\ Range(t) = {s[i] : i \in 1 .. n} \cap S
                         /\ IsInjective(s) => IsInjective(t)

(* A sequence with one element more.                                         *)
LEMMA Appended ==
    ASSUME NEW X, NEW s \in Seq(X), NEW x \in X
    PROVE  /\ Append(s, x) \in Seq(X) /\ Range(Append(s, x)) = Range(s) \cup {x}
           /\ IsInjective(s) /\ x \notin Range(s) => IsInjective(Append(s, x))
<1> DEFINE t == Append(s, x)
<1>1. /\ t \in Seq(X) /\ Len(t) = Len(s) + 1 /\ Len(s) \in Nat
      /\ \A i \in 1 .. Len(s) : t[i] = s[i]
      /\ t[Len(s) + 1] = x
  BY AppendProperties
<1>2. DOMAIN s = 1 .. Len(s) /\ DOMAIN t = 1 .. Len(s) + 1
  BY <1>1
<1> HIDE DEF t
<1>3. \A i \in DOMAIN t : (i \in DOMAIN s /\ t[i] = s[i]) \/ (i = Len(s) + 1 /\ t[i] = x)
  BY <1>1, <1>2
<1>4. \A i \in DOMAIN s : i \in DOMAIN t /\ t[i] = s[i]
  BY <1>1, <1>2
<1>5. Len(s) + 1 \in DOMAIN t /\ t[Len(s) + 1] = x
  BY <1>1, <1>2
<1>6. Range(t) = Range(s) \cup {x}
  BY <1>3, <1>4, <1>5 DEF Range
<1>7. ASSUME IsInjective(s), x \notin Range(s) PROVE IsInjective(t)
  <2> SUFFICES ASSUME NEW i \in DOMAIN t, NEW j \in DOMAIN t, t[i] = t[j] PROVE i = j
    BY DEF IsInjective
  <2>1. \A k \in DOMAIN s : s[k] # x
    BY <1>7 DEF Range
  <2> QED
    BY <1>3, <1>7, <2>1 DEF IsInjective
<1> QED
  BY <1>1, <1>6, <1>7 DEF t

(* The recursive function of Filtered exists: one that reaches n - 1 can be    *)
(* taken to n.                                                                *)
LEMMA KeepsSome ==
    ASSUME NEW s, NEW S, NEW n \in Nat
    PROVE  \E f : Keeps(s, S, n, f)
<1> DEFINE T == {m \in Nat : ~ \E f : Keeps(s, S, m, f)}
<1> SUFFICES ASSUME T # {} PROVE FALSE
  OBVIOUS
<1>1. PICK m \in T : \A k \in T : m <= k
  BY LeastElement
<1>2. CASE m = 0
  <2>1. \A i \in 0 .. 0 : i = 0
    OBVIOUS
  <2>2. Keeps(s, S, 0, [i \in 0 .. 0 |-> << >>])
    BY <2>1 DEF Keeps
  <2> QED
    BY <1>1, <1>2, <2>2
<1>3. CASE m # 0
  <2>1. m \in Nat /\ m - 1 \in Nat /\ m - 1 \notin T
    BY <1>1, <1>3
  <2>2. PICK f : Keeps(s, S, m - 1, f)
    BY <2>1
  <2> DEFINE last == IF s[m] \in S THEN Append(f[m - 1], s[m]) ELSE f[m - 1]
             g == [i \in 0 .. m |-> IF i = m THEN last ELSE f[i]]
  <2>3. \A i \in 0 .. m - 1 : f[i] = IF i = 0 THEN << >>
                                     ELSE IF s[i] \in S THEN Append(f[i - 1], s[i])
                                     ELSE f[i - 1]
    BY <2>2 DEF Keeps
  <2>4. ASSUME NEW i \in 0 .. m
        PROVE  g[i] = IF i = 0 THEN << >> ELSE IF s[i] \in S THEN Append(g[i - 1], s[i])
                      ELSE g[i - 1]
    <3>1. i - 1 # m /\ (i # 0 => i - 1 \in 0 .. m)
      BY <2>1
    <3>2. i # 0 => g[i - 1] = f[i - 1]
      BY <3>1
    <3>3. CASE i = m
      BY <1>3, <3>2, <3>3
    <3>4. CASE i # m
      <4>1. i \in 0 .. m - 1 /\ g[i] = f[i]
        BY <2>1, <3>4
      <4> QED
        BY <2>3, <3>2, <4>1
    <3> QED
      BY <3>3, <3>4
  <2>5. g = [i \in 0 .. m |-> g[i]]
    OBVIOUS
  <2> HIDE DEF g
  <2>6. Keeps(s, S, m, g)
    BY <2>4, <2>5 DEF Keeps
  <2> QED
    BY <1>1, <2>6
<1> QED
  BY <1>2, <1>3

(* What it has kept of a prefix is what of that prefix is in S.               *)
LEMMA KeepsRight ==
    ASSUME NEW s, s \in Seq(Range(s)), NEW S, NEW f, Keeps(s, S, Len(s), f), NEW n \in 0 .. Len(s)
    PROVE  KeptRight(s, S, n, f[n])
<1> DEFINE T == {m \in 0 .. Len(s) : ~ KeptRight(s, S, m, f[m])}
<1>1. Len(s) \in Nat /\ DOMAIN s = 1 .. Len(s)
  OBVIOUS
<1> SUFFICES ASSUME T # {} PROVE FALSE
  OBVIOUS
<1>2. PICK m \in T : \A k \in T : m <= k
  <2>1. T \subseteq Nat
    BY <1>1
  <2> QED
    BY <2>1, LeastElement
<1>3. CASE m = 0
  <2>1. f[0] = << >>
    BY <1>1 DEF Keeps
  <2>2. << >> \in Seq(Range(s)) /\ Range(<< >>) = {} /\ IsInjective(<< >>)
    BY DEF Range, IsInjective
  <2>3. KeptRight(s, S, 0, << >>)
    BY <2>2 DEF KeptRight
  <2> QED
    BY <1>2, <1>3, <2>1, <2>3
<1>4. CASE m # 0
  <2>1. m \in 1 .. Len(s) /\ m \in Nat /\ m - 1 \in Nat /\ m - 1 \in 0 .. Len(s) /\ m - 1 \notin T
    BY <1>1, <1>2, <1>4
  <2>2. KeptRight(s, S, m - 1, f[m - 1])
    BY <2>1
  <2>3. {s[i] : i \in 1 .. m} = {s[i] : i \in 1 .. m - 1} \cup {s[m]}
    <3>1. 1 .. m = 1 .. m - 1 \cup {m}
      BY <2>1
    <3> QED
      BY <3>1
  <2>4. s[m] \in Range(s)
    BY <1>1, <2>1 DEF Range
  <2>5. IsInjective(s) => s[m] \notin {s[i] : i \in 1 .. m - 1}
    <3> SUFFICES ASSUME IsInjective(s), NEW i \in 1 .. m - 1, s[i] = s[m] PROVE FALSE
      OBVIOUS
    <3>1. i \in DOMAIN s /\ m \in DOMAIN s /\ i # m
      BY <1>1, <2>1
    <3> QED
      BY <3>1 DEF IsInjective
  <2>6. f[m] = IF s[m] \in S THEN Append(f[m - 1], s[m]) ELSE f[m - 1]
    <3>1. m \in 0 .. Len(s)
      BY <2>1
    <3>2. \A i \in 0 .. Len(s) : f[i] = IF i = 0 THEN << >>
                                        ELSE IF s[i] \in S THEN Append(f[i - 1], s[i])
                                        ELSE f[i - 1]
      BY DEF Keeps
    <3> QED
      BY <1>4, <3>1, <3>2, Zenon
  <2>7. CASE s[m] \in S
    <3> DEFINE t == f[m - 1]
               x == s[m]
    <3>1. t \in Seq(Range(s)) /\ x \in Range(s) /\ f[m] = Append(t, x)
      BY <2>2, <2>4, <2>6, <2>7 DEF KeptRight
    <3> HIDE DEF t, x
    <3>2. /\ f[m] \in Seq(Range(s)) /\ Range(f[m]) = Range(t) \cup {x}
          /\ IsInjective(t) /\ x \notin Range(t) => IsInjective(f[m])
      BY <3>1, Appended
    <3> USE DEF t, x
    <3>3. Range(f[m]) = {s[i] : i \in 1 .. m} \cap S
      BY <2>2, <2>3, <2>7, <3>2 DEF KeptRight
    <3>4. IsInjective(s) => IsInjective(f[m])
      BY <2>2, <2>5, <3>2 DEF KeptRight
    <3> QED
      BY <1>2, <3>2, <3>3, <3>4 DEF KeptRight
  <2>8. CASE s[m] \notin S
    BY <1>2, <2>2, <2>3, <2>6, <2>8 DEF KeptRight
  <2> QED
    BY <2>7, <2>8
<1> QED
  BY <1>3, <1>4

(***************************************************************************)
(* The files that discover_files and _closure_files come to are those asked   *)
(* for, each once.                                                           *)
(***************************************************************************)
LEMMA FilteredKeeps ==
    ASSUME NEW s, s \in Seq(Range(s)), NEW S
    PROVE  /\ Filtered(s, S) \in Seq(Range(s))
           /\ Range(Filtered(s, S)) = Range(s) \cap S
           /\ IsInjective(s) => IsInjective(Filtered(s, S))
<1>1. Len(s) \in 0 .. Len(s) /\ DOMAIN s = 1 .. Len(s) /\ Len(s) \in Nat
  OBVIOUS
<1> DEFINE kept == CHOOSE f : Keeps(s, S, Len(s), f)
<1>2. \E f : Keeps(s, S, Len(s), f)
  BY <1>1, KeepsSome
<1>3. Filtered(s, S) = kept[Len(s)]
  BY Zenon DEF Filtered, Keeps
<1>4. Keeps(s, S, Len(s), kept)
  BY <1>2
<1> HIDE DEF kept
<1>5. KeptRight(s, S, Len(s), kept[Len(s)])
  BY <1>1, <1>4, KeepsRight
<1> QED
  BY <1>1, <1>3, <1>5 DEF KeptRight, Range

-----------------------------------------------------------------------------
(***************************************************************************)
(* What is known of a command.                                              *)
(***************************************************************************)
Before == {"idle", "create", "createPrompt", "created"}
WithSources == {"launch", "initialize", "loop", "call"}

(* A record of proc.                                                         *)
Typed(r) ==
    r \in [at : {r.at}, todo : Seq(Range(Files)), doc : {r.doc}, config : {r.config},
           recorded : {r.recorded}, digests : {r.digests}, writing : BOOLEAN,
           asked : {r.asked}, verdict : {r.verdict}, seen : {r.seen}, began : Nat]

(* What is set once only, and which kinds of commands come to which places.   *)
Kept(r, k) ==
    /\ Typed(r)
    /\ k \in Kinds /\ (r.at # "idle" => k # "none")
    /\ r.at \in Before => r.seen = Empty /\ r.doc = NewDocument
    /\ r.at \in Before \cup {"load"} => r.digests = Empty /\ r.config = Empty
    /\ r.at \in {"write", "fill"} => r.todo = << >> /\ r.writing
    /\ r.at # "ended" => r.verdict = ""
    /\ r.at \in WithSources => k = "run"
    /\ r.at \in Before \cup {"load"} \/ k = "locked" => ~ r.writing

(* Some lock that was written is what a command has read, and has the sources *)
(* that it may start.                                                        *)
Recorded(r, k) ==
    /\ (r.at = "digest" /\ ~ r.writing) \/ (k = "locked" /\ r.verdict = "clean") =>
          \E w \in written : w.payload = r.recorded
    /\ r.at \in WithSources /\ McpSources(r.config) # {} =>
          \E w \in written : w.payload.sources = PinnedSources(r.config)

Present(d) == {f \in Range(ConfigFiles) : d[f] # Absent}
Closure(seen, config) == Range(Files) \cap (DOMAIN seen \cup Named(config, FileFields))

Digests(digests, d) == \A f \in DOMAIN digests : d[f] # Absent /\ digests[f] = Digest(d[f], f)

(* A command that nobody disturbs by an edit: the files that it has found are *)
(* there, and the digests are of what the files d hold.                      *)
Steady(r, d) ==
    /\ r.at = "load" => DOMAIN r.seen \cup Range(r.todo) = Present(d)
    /\ r.at \in {"readLock", "digest", "write", "fill"} => DOMAIN r.seen = Present(d)
    /\ r.at \in {"digest", "write", "fill"} =>
          /\ DOMAIN r.digests \cup Range(r.todo) = Closure(r.seen, r.config)
          /\ Digests(r.digests, d)

(* The files of a lock are those of the project d.                           *)
Describes(files, d) == Present(d) \subseteq DOMAIN files /\ Digests(files, d)

(* The second half of DriftIsNoticed.                                        *)
Unchanged(r, k) ==
    k = "locked" /\ r.verdict = "clean" /\ edits = r.began =>
        \A w \in written :
            w.quiet /\ w.payload = r.recorded =>
                \A f \in Range(ConfigFiles) \cup Named(r.config, FileFields) :
                    SameFile(w.disk, disk, f)

Followed(p) == /\ Kept(proc[p], Kind(p))
               /\ Recorded(proc[p], Kind(p))
               /\ proc[p].began <= edits
               /\ edits = proc[p].began => Steady(proc[p], disk)
               /\ Unchanged(proc[p], Kind(p))

(* What a run has asked is a child of its own; the children are started and   *)
(* left as ChildrenAreAccountedFor says.                                     *)
Cared(c) == channel[c].child # "none" =>
                /\ proc[c[1]].at \in WithSources \cup {"ended"}
                /\ LaunchIsRecorded(c[1])
                /\ Running(c) /\ proc[c[1]].at = "ended" => MayBeOrphaned(c[1])

Locked == /\ lock.state = "whole" => \E w \in written : w.payload = lock.payload
          /\ \A w \in written : w.quiet => Describes(w.payload.files, w.disk)

CInv == /\ disk = [f \in Range(Files) |-> disk[f]] /\ edits \in Nat
        /\ proc = [p \in Commands |-> proc[p]]
        /\ Locked
        /\ \A p \in Commands : Followed(p)
        /\ \A p \in Commands : proc[p].at \in {"initialize", "call"} => Source(p) \in Servers
        /\ \A c \in Servers : Cared(c)
        /\ MInv

-----------------------------------------------------------------------------
(* The files are those of the configuration and those it may refer to.       *)
LEMMA FilesAreListed ==
    /\ Files \in Seq(Range(Files))
    /\ Range(Files) = Range(ConfigFiles) \cup Range(OtherFiles)
    /\ Primary \in Range(ConfigFiles) /\ Seq(Range(ConfigFiles)) \subseteq Seq(Range(Files))
<1>1. /\ Len(Files) = Len(ConfigFiles) + Len(OtherFiles)
      /\ \A i \in 1 .. Len(ConfigFiles) : Files[i] = ConfigFiles[i]
      /\ \A i \in 1 .. Len(OtherFiles) : Files[i + Len(ConfigFiles)] = OtherFiles[i]
      /\ Files \in Seq(Range(ConfigFiles) \cup Range(OtherFiles))
  BY CommandsAssumption, ConcatProperties DEF Files
<1>2. /\ DOMAIN Files = 1 .. Len(Files) /\ DOMAIN ConfigFiles = 1 .. Len(ConfigFiles)
      /\ DOMAIN OtherFiles = 1 .. Len(OtherFiles)
      /\ Len(ConfigFiles) \in Nat /\ Len(OtherFiles) \in Nat
  BY <1>1, CommandsAssumption
<1>3. Range(ConfigFiles) \subseteq Range(Files)
  BY <1>1, <1>2 DEF Range
<1>4. Range(OtherFiles) \subseteq Range(Files)
  <2>1. ASSUME NEW i \in 1 .. Len(OtherFiles) PROVE OtherFiles[i] \in Range(Files)
    <3>1. i + Len(ConfigFiles) \in DOMAIN Files
      BY <1>1, <1>2
    <3> QED
      BY <1>1, <3>1 DEF Range
  <2> QED
    BY <1>2, <2>1 DEF Range
<1>5. ASSUME NEW i \in DOMAIN Files PROVE Files[i] \in Range(ConfigFiles) \cup Range(OtherFiles)
  BY <1>1, <1>2
<1>6. Primary \in Range(ConfigFiles)
  <2>1. 1 \in DOMAIN ConfigFiles
    BY <1>2, CommandsAssumption
  <2> QED
    BY <2>1 DEF Primary, Range
<1>7. Range(Files) = Range(ConfigFiles) \cup Range(OtherFiles)
  BY <1>3, <1>4, <1>5 DEF Range
<1>8. Seq(Range(ConfigFiles)) \subseteq Seq(Range(Files))
  BY <1>3
<1> QED
  BY <1>1, <1>6, <1>7, <1>8

(* discover_files has found what is there.                                   *)
LEMMA DiscoveredArePresent ==
    /\ Discovered \in Seq(Range(Files)) /\ Range(Discovered) = Present(disk)
    /\ IsInjective(Discovered)
<1> DEFINE S == {f \in Range(ConfigFiles) : Exists(f)}
<1>1. /\ Filtered(ConfigFiles, S) \in Seq(Range(ConfigFiles))
      /\ Range(Filtered(ConfigFiles, S)) = Range(ConfigFiles) \cap S
      /\ IsInjective(Filtered(ConfigFiles, S))
  <2> HIDE DEF S
  <2> QED
    BY FilteredKeeps, CommandsAssumption
<1>2. Range(ConfigFiles) \cap S = Present(disk)
  BY DEF Present, Exists
<1> QED
  BY <1>1, <1>2, FilesAreListed DEF Discovered

(* The closure as a sequence, which is how the files are digested.           *)
LEMMA ClosureIsListed ==
    ASSUME NEW p, NEW config
    PROVE  /\ ClosureFiles(p, config) \in Seq(Range(Files))
           /\ Range(ClosureFiles(p, config)) = Closure(proc[p].seen, config)
  BY FilteredKeeps, FilesAreListed DEF ClosureFiles, Closure

(* The first file of a list is read.                                         *)
LEMMA OneLess ==
    ASSUME NEW X, NEW s \in Seq(X), s # << >>
    PROVE  /\ Tail(s) \in Seq(X) /\ Range(s) = {Head(s)} \cup Range(Tail(s)) /\ Head(s) \in X
           /\ IsInjective(s) => IsInjective(Tail(s)) /\ Head(s) \notin Range(Tail(s))
<1> DEFINE t == Tail(s)
<1>1. /\ Head(s) \in X /\ t \in Seq(X) /\ Len(t) = Len(s) - 1
      /\ \A i \in 1 .. Len(t) : t[i] = s[i + 1]
  BY HeadTailProperties
<1>2. Len(s) \in Nat /\ Len(s) > 0 /\ Head(s) = s[1]
  OBVIOUS
<1>3. DOMAIN s = 1 .. Len(s) /\ DOMAIN t = 1 .. Len(s) - 1
  BY <1>1
<1> HIDE DEF t
<1>4. \A i \in DOMAIN t : i + 1 \in DOMAIN s /\ t[i] = s[i + 1] /\ i + 1 # 1 /\ i \in Nat
  BY <1>1, <1>2, <1>3
<1>5. \A k \in DOMAIN s : k = 1 \/ (k - 1 \in DOMAIN t /\ t[k - 1] = s[k])
  BY <1>1, <1>2, <1>3
<1>6. 1 \in DOMAIN s
  BY <1>2, <1>3
<1>7. Range(s) = {Head(s)} \cup Range(t)
  BY <1>2, <1>4, <1>5, <1>6 DEF Range
<1>8. ASSUME IsInjective(s) PROVE IsInjective(t) /\ Head(s) \notin Range(t)
  <2>1. ASSUME NEW i \in DOMAIN t, NEW j \in DOMAIN t, t[i] = t[j] PROVE i = j
    <3>1. i + 1 = j + 1
      BY <1>4, <1>8, <2>1 DEF IsInjective
    <3> QED
      BY <1>4, <3>1
  <2>2. ASSUME NEW i \in DOMAIN t, t[i] = Head(s) PROVE FALSE
    BY <1>2, <1>4, <1>6, <1>8, <2>2 DEF IsInjective
  <2> QED
    BY <2>1, <2>2 DEF IsInjective, Range
<1> QED
  BY <1>1, <1>7, <1>8 DEF t

(* Two digests of one file agree only if it is the same.                     *)
LEMMA SameDigestSameFile ==
    ASSUME NEW d, NEW e, NEW f, Digest(d[f], f) = Digest(e[f], f)
    PROVE  SameFile(d, e, f)
<1>1. CASE f \in Range(ConfigFiles)
  BY <1>1 DEF Digest, SameFile
<1>2. CASE f \notin Range(ConfigFiles)
  BY <1>2 DEF Digest, SameFile
<1> QED
  BY <1>1, <1>2

(* Two projects that one lock describes are the same.                        *)
LEMMA DescribedAlike ==
    ASSUME NEW files, NEW d, NEW e, Describes(files, d), Describes(files, e),
           NEW F \in SUBSET DOMAIN files
    PROVE  \A f \in Range(ConfigFiles) \cup F : SameFile(d, e, f)
<1> SUFFICES ASSUME NEW f \in Range(ConfigFiles) \cup F PROVE SameFile(d, e, f)
  OBVIOUS
<1>1. CASE f \in DOMAIN files
  BY <1>1, SameDigestSameFile DEF Describes, Digests
<1>2. CASE f \notin DOMAIN files
  <2>1. f \in Range(ConfigFiles) /\ d[f] = Absent /\ e[f] = Absent
    BY <1>2 DEF Describes, Present
  <2> QED
    BY <2>1 DEF SameFile
<1> QED
  BY <1>1, <1>2

-----------------------------------------------------------------------------
(* What every step leaves alone but the process p that takes it: the locks    *)
(* written stay, one more is of the files as they are, and an edit is counted. *)
Onward(p) ==
    /\ command' = command
    /\ disk' = [f \in Range(Files) |-> disk'[f]]
    /\ proc' = [q \in Commands |-> proc'[q]]
    /\ \A q \in Commands \ {p} : proc'[q] = proc[q]
    /\ written \subseteq written'
    /\ \A w \in written' \ written : w.disk = disk'
    /\ (disk' = disk /\ edits' = edits) \/ edits' = edits + 1

(* That is so of all the steps of a command.                                 *)
LEMMA EveryStepIsOnward ==
    ASSUME CInv, NEW p \in Commands, Step(p)
    PROVE  Onward(p)
<1>1. disk = [f \in Range(Files) |-> disk[f]] /\ proc = [q \in Commands |-> proc[q]]
  BY DEF CInv
<1>2. CASE Begin(p)
  BY <1>1, <1>2 DEF Onward, Begin, Discover, Ends
<1>3. CASE Create(p)
  BY <1>1, <1>3 DEF Onward, Create
<1>4. CASE LoadCreated(p)
  BY <1>1, <1>4 DEF Onward, LoadCreated, Discover, Ends
<1>5. CASE LoadFile(p)
  BY <1>1, <1>5 DEF Onward, LoadFile
<1>6. CASE Check(p)
  BY <1>1, <1>6 DEF Onward, Check, Ends
<1>7. CASE ReadLock(p)
  BY <1>1, <1>7 DEF Onward, ReadLock, Unverified, Decide, Ends
<1>8. CASE DigestFile(p)
  BY <1>1, <1>8 DEF Onward, DigestFile, Unverified, Decide, Ends
<1>9. CASE Digested(p)
  BY <1>1, <1>9 DEF Onward, Digested, Decide, Ends
<1>10. CASE OpenLock(p)
  BY <1>1, <1>10 DEF Onward, OpenLock
<1>11. CASE FillLock(p)
  BY <1>1, <1>11 DEF Onward, FillLock, Ends
<1>12. ASSUME NEW s, Launch(p, s) PROVE Onward(p)
  BY <1>1, <1>12 DEF Onward, Launch, Ends
<1>13. ASSUME NEW s, Execute(p, s) PROVE Onward(p)
  BY <1>1, <1>13 DEF Onward, Execute
<1>14. CASE Launched(p)
  BY <1>1, <1>14 DEF Onward, Launched
<1>15. CASE Initialized(p)
  BY <1>1, <1>15 DEF Onward, Initialized, Ends
<1>16. CASE Executed(p)
  BY <1>1, <1>16 DEF Onward, Executed
<1>17. CASE CloseAll(p)
  BY <1>1, <1>17 DEF Onward, CloseAll, Ends
<1>18. CASE Die(p)
  BY <1>1, <1>18 DEF Onward, Die, Ends
<1> QED
  BY <1>2, <1>3, <1>4, <1>5, <1>6, <1>7, <1>8, <1>9, <1>10, <1>11, <1>12, <1>13, <1>14, <1>15,
     <1>16, <1>17, <1>18 DEF Step

(* A command that takes no step stays as it is known.                        *)
LEMMA OthersStay ==
    ASSUME CInv, NEW p, Onward(p), NEW q \in Commands, proc'[q] = proc[q]
    PROVE  Followed(q)'
<1> DEFINE r == proc[q]
<1>1. Followed(q) /\ edits \in Nat
  BY DEF CInv
<1>2. Kind(q)' = Kind(q) /\ proc[q]' = r
  BY DEF Onward, Kind
<1>3. Kept(proc[q], Kind(q))'
  BY <1>1, <1>2 DEF Followed, Kept
<1>4. Recorded(proc[q], Kind(q))'
  BY <1>1, <1>2 DEF Followed, Recorded, Onward
<1>5. r.began \in Nat
  BY <1>1 DEF Followed, Kept, Typed
<1>6. r.began <= edits'
  BY <1>1, <1>5 DEF Followed, Onward
<1>7. edits' = r.began => disk' = disk /\ edits = r.began
  BY <1>1, <1>5 DEF Followed, Onward
<1>8. edits' = r.began => Steady(r, disk')
  BY <1>1, <1>7 DEF Followed
<1>9. Unchanged(proc[q], Kind(q))'
  <2> SUFFICES ASSUME Kind(q) = "locked", r.verdict = "clean", edits' = r.began,
                      NEW w \in written', w.quiet, w.payload = r.recorded,
                      NEW f \in Range(ConfigFiles) \cup Named(r.config, FileFields)
               PROVE  SameFile(w.disk, disk', f)
    BY <1>2 DEF Unchanged
  <2>1. CASE w \in written
    BY <1>1, <1>7, <2>1 DEF Followed, Unchanged
  <2>2. CASE w \notin written
    BY <2>2 DEF Onward, SameFile
  <2> QED
    BY <2>1, <2>2
<1> QED
  BY <1>2, <1>3, <1>4, <1>6, <1>8, <1>9 DEF Followed

-----------------------------------------------------------------------------
(* A command that ends, but for validate --locked when all is in order.       *)
LEMMA EndedIsFollowed ==
    ASSUME CInv, NEW p \in Commands, Onward(p), NEW v, Ends(p, v), proc[p].at # "ended",
           proc[p].at # "idle" \/ Kind(p) # "none", Kind(p) = "locked" => v # "clean"
    PROVE  Followed(p)'
<1> DEFINE r == proc[p]
           n == [r EXCEPT !.at = "ended", !.verdict = v]
<1>1. Followed(p) /\ edits \in Nat /\ proc = [q \in Commands |-> proc[q]]
  BY DEF CInv
<1>2. Kind(p)' = Kind(p) /\ proc[p]' = n
  BY <1>1 DEF Onward, Kind, Ends
<1>3. Kept(r, Kind(p))
  BY <1>1 DEF Followed
<1>4. /\ n.at = "ended" /\ n.verdict = v /\ n.todo = r.todo /\ n.doc = r.doc /\ n.config = r.config
      /\ n.recorded = r.recorded /\ n.digests = r.digests /\ n.writing = r.writing
      /\ n.asked = r.asked /\ n.seen = r.seen /\ n.began = r.began
  BY <1>3 DEF Kept, Typed
<1>5. Kept(n, Kind(p))
  <2>1. Typed(n)
    BY <1>3, <1>4 DEF Kept, Typed
  <2> QED
    BY <1>3, <1>4, <2>1 DEF Kept, Before, WithSources
<1>6. Recorded(n, Kind(p))' /\ Unchanged(n, Kind(p))' /\ Steady(n, disk)'
  BY <1>2, <1>4 DEF Recorded, Unchanged, Steady, WithSources
<1>7. r.began \in Nat
  BY <1>3 DEF Kept, Typed
<1>8. n.began <= edits'
  BY <1>1, <1>4, <1>7 DEF Followed, Onward
<1> QED
  BY <1>2, <1>5, <1>6, <1>8 DEF Followed

(* What is left to see of a step that does not end validate --locked.         *)
LEMMA MovedIsFollowed ==
    ASSUME CInv, NEW p \in Commands, Onward(p), Kept(proc'[p], Kind(p)),
           proc'[p].began = proc[p].began \/ proc'[p].began = edits,
           Kind(p) = "locked" => proc'[p].verdict # "clean",
           Recorded(proc[p], Kind(p))', edits' = proc'[p].began => Steady(proc'[p], disk')
    PROVE  Followed(p)'
<1>1. Followed(p) /\ edits \in Nat
  BY DEF CInv
<1>2. Kind(p)' = Kind(p)
  BY DEF Onward, Kind
<1>3. proc[p].began \in Nat /\ proc[p].began <= edits
  BY <1>1 DEF Followed, Kept, Typed
<1>4. edits <= edits' /\ edits' \in Nat
  BY <1>1 DEF Onward
<1>5. proc'[p].began <= edits'
  BY <1>1, <1>3, <1>4
<1>6. Unchanged(proc[p], Kind(p))'
  BY <1>2 DEF Unchanged
<1> QED
  BY <1>2, <1>5, <1>6 DEF Followed

(* load_project begins, on the files that are there.                          *)
LEMMA DiscoverIsFollowed ==
    ASSUME CInv, NEW p \in Commands, Onward(p), Discover(p), proc[p].at \in Before,
           Kind(p) # "none",
           UNCHANGED <<disk, edits>>
    PROVE  Followed(p)'
<1> DEFINE r == proc[p]
           n == proc'[p]
<1>1. Kept(r, Kind(p)) /\ proc = [q \in Commands |-> proc[q]]
  BY DEF CInv, Followed
<1>2. CASE Discovered = << >>
  BY <1>2, EndedIsFollowed DEF Discover, Before
<1>3. CASE Discovered # << >>
  <2>1. n = [r EXCEPT !.at = "load", !.todo = Discovered, !.began = edits]
    BY <1>1, <1>3 DEF Discover
  <2>2. edits \in Nat /\ Discovered \in Seq(Range(Files)) /\ Range(Discovered) = Present(disk)
    BY DiscoveredArePresent DEF CInv
  <2>3. /\ n.at = "load" /\ n.todo = Discovered /\ n.began = edits /\ n.verdict = r.verdict
        /\ n.seen = r.seen /\ n.doc = r.doc /\ n.digests = r.digests /\ n.config = r.config
        /\ n.writing = r.writing
    BY <1>1, <2>1 DEF Kept, Typed
  <2>4. r.seen = Empty /\ r.digests = Empty /\ r.config = Empty /\ ~ r.writing /\ r.verdict = ""
    BY <1>1 DEF Kept, Before
  <2>5. Kept(n, Kind(p))
    <3>1. Typed(n)
      BY <1>1, <2>1, <2>2 DEF Kept, Typed
    <3> QED
      BY <1>1, <2>3, <2>4, <3>1 DEF Kept, Before, WithSources
  <2>6. Recorded(proc[p], Kind(p))'
    BY <2>3, <2>4 DEF Recorded, WithSources
  <2>7. Steady(n, disk)
    <3>1. DOMAIN Empty = {}
      BY DEF Empty
    <3> QED
      BY <2>2, <2>3, <2>4, <3>1 DEF Steady
  <2> QED
    BY <2>3, <2>4, <2>5, <2>6, <2>7, MovedIsFollowed
<1> QED
  BY <1>2, <1>3

(* Between the places where nothing is claimed of the files.                  *)
LEMMA BetweenIsFollowed ==
    ASSUME CInv, NEW p \in Commands, Onward(p), proc[p].at \in Before, Kind(p) # "none",
           NEW at \in Before, proc' = [proc EXCEPT ![p].at = at]
    PROVE  Followed(p)'
<1> DEFINE r == proc[p]
           n == proc'[p]
<1>1. Kept(r, Kind(p)) /\ proc = [q \in Commands |-> proc[q]]
  BY DEF CInv, Followed
<1>2. n = [r EXCEPT !.at = at]
  BY <1>1
<1>3. /\ n.at = at /\ n.todo = r.todo /\ n.began = r.began /\ n.verdict = r.verdict
      /\ n.seen = r.seen /\ n.doc = r.doc /\ n.digests = r.digests /\ n.config = r.config
      /\ n.writing = r.writing
  BY <1>1, <1>2 DEF Kept, Typed
<1>4. Kept(n, Kind(p))
  <2>1. Typed(n)
    BY <1>1, <1>2 DEF Kept, Typed
  <2> QED
    BY <1>1, <1>3, <2>1 DEF Kept, Before, WithSources
<1>5. Recorded(proc[p], Kind(p))' /\ n.verdict = ""
  BY <1>1, <1>3 DEF Recorded, WithSources, Before, Kept
<1>6. Steady(n, disk')
  BY <1>3 DEF Steady, Before
<1> QED
  BY <1>3, <1>4, <1>5, <1>6, MovedIsFollowed

(* The next file goes from those to be read to those that were.              *)
LEMMA LoadFileIsFollowed ==
    ASSUME CInv, NEW p \in Commands, Onward(p), LoadFile(p)
    PROVE  Followed(p)'
<1> DEFINE r == proc[p]
           n == proc'[p]
           f == Head(r.todo)
<1>1. Followed(p) /\ Kept(r, Kind(p)) /\ proc = [q \in Commands |-> proc[q]]
  BY DEF CInv, Followed
<1>2. n = [r EXCEPT !.doc = Added(@, f, disk[f]), !.todo = Tail(@), !.seen = Holding(@, f, disk[f])]
  BY <1>1 DEF LoadFile
<1>3. /\ n.at = r.at /\ n.todo = Tail(r.todo) /\ n.began = r.began /\ n.verdict = r.verdict
      /\ n.seen = Holding(r.seen, f, disk[f]) /\ n.digests = r.digests /\ n.config = r.config
      /\ n.writing = r.writing
  BY <1>1, <1>2 DEF Kept, Typed
<1>4. r.at = "load" /\ r.verdict = "" /\ edits' = edits /\ disk' = disk
  BY <1>1 DEF LoadFile, Kept
<1>5. Tail(r.todo) \in Seq(Range(Files)) /\ Range(r.todo) = {f} \cup Range(Tail(r.todo))
  <2>1. r.todo \in Seq(Range(Files)) /\ r.todo # << >>
    BY <1>1 DEF LoadFile, Kept, Typed
  <2> QED
    BY <2>1, OneLess
<1>6. Kept(n, Kind(p))
  <2>1. Typed(n)
    BY <1>1, <1>2, <1>5 DEF Kept, Typed
  <2> QED
    BY <1>1, <1>3, <1>4, <2>1 DEF Kept, Before, WithSources
<1>7. Recorded(proc[p], Kind(p))'
  BY <1>3, <1>4 DEF Recorded, WithSources
<1>8. edits' = n.began => Steady(n, disk')
  <2>1. DOMAIN n.seen = DOMAIN r.seen \cup {f}
    BY <1>3 DEF Holding, Joined
  <2>2. edits = r.began => DOMAIN r.seen \cup Range(r.todo) = Present(disk)
    BY <1>1, <1>4 DEF Followed, Steady
  <2> QED
    BY <1>3, <1>4, <1>5, <2>1, <2>2 DEF Steady
<1> QED
  BY <1>3, <1>4, <1>6, <1>7, <1>8, MovedIsFollowed

(* Nothing is digested yet when a command is done with its configuration.    *)
LEMMA CheckIsFollowed ==
    ASSUME CInv, NEW p \in Commands, Onward(p), Check(p)
    PROVE  Followed(p)'
<1> DEFINE r == proc[p]
           n == proc'[p]
<1>1. Followed(p) /\ Kept(r, Kind(p)) /\ proc = [q \in Commands |-> proc[q]]
  BY DEF CInv, Followed
<1>2. r.at = "load" /\ r.todo = << >> /\ edits' = edits /\ disk' = disk
  BY DEF Check
<1>3. CASE Ends(p, "refused")
  BY <1>2, <1>3, EndedIsFollowed
<1>4. ASSUME NEW config,
             proc' = [proc EXCEPT ![p].at = After(p, config), ![p].config = config,
                                  ![p].writing = Kind(p) \in {"lock", "init"},
                                  ![p].todo = ClosureFiles(p, config),
                                  ![p].verdict = IF Kind(p) = "validate" THEN "clean" ELSE ""]
      PROVE  Followed(p)'
  <2>1. n = [r EXCEPT !.at = After(p, config), !.config = config,
                      !.writing = (Kind(p) \in {"lock", "init"}),
                      !.todo = ClosureFiles(p, config),
                      !.verdict = IF Kind(p) = "validate" THEN "clean" ELSE ""]
    BY <1>1, <1>4
  <2>2. /\ n.at = After(p, config) /\ n.config = config
        /\ n.writing = (Kind(p) \in {"lock", "init"})
        /\ n.todo = ClosureFiles(p, config) /\ n.began = r.began
        /\ n.verdict = (IF Kind(p) = "validate" THEN "clean" ELSE "")
        /\ n.seen = r.seen /\ n.doc = r.doc /\ n.digests = r.digests
    BY <1>1, <2>1 DEF Kept, Typed
  <2>3. Kind(p) \in {"init", "validate", "locked", "lock", "run"} /\ r.digests = Empty
    BY <1>1, <1>2 DEF Kept, Kinds
  <2>4. /\ Kind(p) = "validate" => n.at = "ended"
        /\ Kind(p) = "locked" => n.at = "readLock"
        /\ Kind(p) \in {"lock", "init"} => n.at = "digest"
        /\ Kind(p) = "run" => n.at = "readLock" \/ (n.at = "launch" /\ McpSources(config) = {})
    BY <2>2, <2>3 DEF After
  <2>5. /\ ClosureFiles(p, config) \in Seq(Range(Files))
        /\ Range(ClosureFiles(p, config)) = Closure(r.seen, config)
    BY ClosureIsListed
  <2>6. Kept(n, Kind(p))
    <3>1. (Kind(p) \in {"lock", "init"}) \in BOOLEAN
      OBVIOUS
    <3>2. Typed(n)
      BY <1>1, <2>1, <2>2, <2>5, <3>1 DEF Kept, Typed
    <3>3. Kind(p) = "locked" => ~ n.writing
      BY <2>2
    <3>4. n.at \notin Before \cup {"load", "write", "fill"}
      BY <2>3, <2>4 DEF Before
    <3>5. n.at # "ended" => n.verdict = ""
      BY <2>2, <2>3, <2>4
    <3>6. n.at \in WithSources => Kind(p) = "run"
      BY <2>3, <2>4 DEF WithSources
    <3> QED
      BY <1>1, <2>3, <3>2, <3>3, <3>4, <3>5, <3>6 DEF Kept, Kinds, Before
  <2>7. Recorded(proc[p], Kind(p))'
    <3>1. ~ (n.at = "digest" /\ ~ n.writing)
      BY <2>2, <2>3, <2>4
    <3>2. n.at \in WithSources => McpSources(n.config) = {}
      BY <2>2, <2>3, <2>4 DEF WithSources
    <3>3. Kind(p)' = Kind(p) /\ ~ (Kind(p) = "locked" /\ n.verdict = "clean")
      BY <2>2 DEF Onward, Kind
    <3> QED
      BY <3>1, <3>2, <3>3 DEF Recorded
  <2>8. edits = n.began => Steady(n, disk)
    <3> SUFFICES ASSUME edits = r.began PROVE Steady(n, disk)
      BY <2>2
    <3>1. DOMAIN r.seen \cup Range(r.todo) = Present(disk)
      BY <1>1, <1>2 DEF Followed, Steady
    <3>2. Range(r.todo) = {}
      BY <1>2 DEF Range
    <3>3. DOMAIN n.digests = {} /\ DOMAIN n.seen = Present(disk)
      BY <2>2, <2>3, <3>1, <3>2 DEF Empty
    <3>4. n.at # "load"
      BY <2>3, <2>4
    <3> QED
      BY <2>2, <2>5, <3>3, <3>4 DEF Steady, Digests
  <2> QED
    BY <1>2, <2>2, <2>6, <2>7, <2>8, MovedIsFollowed
<1> QED
  BY <1>3, <1>4 DEF Check

(* To the digests: for diff_lock, which has just read recorded from the lock, *)
(* or for write_lock.                                                        *)
LEMMA DigestingIsFollowed ==
    ASSUME CInv, NEW p \in Commands, Onward(p), UNCHANGED <<disk, edits, written>>,
           proc[p].at \in {"readLock", "digest"}, NEW payload, NEW writing \in BOOLEAN,
           proc' = [proc EXCEPT ![p] = [proc[p] EXCEPT !.at = "digest",
                                            !.todo = ClosureFiles(p, Config(p)), !.digests = Empty,
                                            !.recorded = payload, !.writing = writing]],
           Kind(p) = "locked" => ~ writing,
           ~ writing => \E w \in written : w.payload = payload
    PROVE  Followed(p)'
<1> DEFINE r == proc[p]
           n == proc'[p]
<1>1. Followed(p) /\ Kept(r, Kind(p)) /\ proc = [q \in Commands |-> proc[q]]
  BY DEF CInv, Followed
<1>2. n = [r EXCEPT !.at = "digest", !.todo = ClosureFiles(p, Config(p)), !.digests = Empty,
                    !.recorded = payload, !.writing = writing]
  BY <1>1
<1>3. /\ n.at = "digest" /\ n.todo = ClosureFiles(p, r.config) /\ n.digests = Empty
      /\ n.recorded = payload /\ n.writing = writing /\ n.config = r.config
      /\ n.seen = r.seen /\ n.began = r.began /\ n.verdict = r.verdict
  BY <1>1, <1>2 DEF Kept, Typed, Config
<1>4. /\ ClosureFiles(p, r.config) \in Seq(Range(Files))
      /\ Range(ClosureFiles(p, r.config)) = Closure(r.seen, r.config)
  BY ClosureIsListed
<1>5. Kept(n, Kind(p)) /\ n.verdict = ""
  <2>1. Typed(r) /\ ClosureFiles(p, Config(p)) \in Seq(Range(Files))
    BY <1>1, <1>4 DEF Kept, Config
  <2>2. Typed(n)
    <3> DEFINE D == {"at", "todo", "doc", "config", "recorded", "digests", "writing", "asked",
                     "verdict", "seen", "began"}
    <3>1. DOMAIN r = D
      BY <2>1 DEF Typed
    <3> HIDE DEF n, r, D
    <3>2. n = [x \in D |-> n[x]]
      BY <1>2, <3>1
    <3> USE DEF D
    <3>3. n.todo \in Seq(Range(Files)) /\ n.writing \in BOOLEAN /\ n.began \in Nat
      BY <1>3, <1>4, <2>1 DEF Typed
    <3> QED
      BY <3>2, <3>3 DEF Typed
  <2> QED
    BY <1>1, <1>3, <2>2 DEF Kept, Before, WithSources
<1>6. Recorded(proc[p], Kind(p))'
  BY <1>3, <1>5 DEF Recorded, WithSources
<1>7. edits = n.began => Steady(n, disk)
  <2> SUFFICES ASSUME edits = r.began PROVE Steady(n, disk)
    BY <1>3
  <2>1. DOMAIN r.seen = Present(disk)
    BY <1>1 DEF Followed, Steady
  <2>2. DOMAIN n.digests = {}
    BY <1>3 DEF Empty
  <2> QED
    BY <1>3, <1>4, <2>1, <2>2 DEF Steady, Digests
<1> QED
  BY <1>3, <1>5, <1>6, <1>7, MovedIsFollowed

(* run goes on to its sources when they are those of a lock.                  *)
LEMMA LaunchingIsFollowed ==
    ASSUME CInv, NEW p \in Commands, Onward(p), Kind(p) = "run",
           NEW at \in WithSources, NEW asked,
           proc' = [proc EXCEPT ![p] = [proc[p] EXCEPT !.at = at, !.asked = asked]],
           proc[p].at # "ended",
           McpSources(Config(p)) # {} =>
               \E w \in written' : w.payload.sources = PinnedSources(Config(p))
    PROVE  Followed(p)'
<1> DEFINE r == proc[p]
           n == proc'[p]
<1>1. Kept(r, Kind(p)) /\ proc = [q \in Commands |-> proc[q]]
  BY DEF CInv, Followed
<1>2. n = [r EXCEPT !.at = at, !.asked = asked]
  BY <1>1
<1>3. /\ n.at = at /\ n.todo = r.todo /\ n.digests = r.digests /\ n.writing = r.writing
      /\ n.config = r.config /\ n.seen = r.seen /\ n.began = r.began /\ n.verdict = r.verdict
  BY <1>1, <1>2 DEF Kept, Typed
<1>4. Kept(n, Kind(p)) /\ n.verdict = ""
  <2>1. Typed(n)
    BY <1>1, <1>2 DEF Kept, Typed
  <2> QED
    BY <1>1, <1>3, <2>1 DEF Kept, Before, WithSources
<1>5. Recorded(proc[p], Kind(p))'
  BY <1>3, <1>4 DEF Recorded, WithSources, Config
<1>6. Steady(n, disk')
  BY <1>3 DEF Steady, WithSources
<1> QED
  BY <1>3, <1>4, <1>5, <1>6, MovedIsFollowed

(* What run does about a lock that is not of its sources, or not a lock.      *)
LEMMA DecidedIsFollowed ==
    ASSUME CInv, NEW p \in Commands, Onward(p), UNCHANGED <<disk, edits, written>>,
           proc[p].at \in {"readLock", "digest"}, Kind(p) = "run", Decide(p, TRUE)
    PROVE  Followed(p)'
<1> DEFINE r == proc[p]
<1>1. Kept(r, Kind(p)) /\ proc = [q \in Commands |-> proc[q]]
  BY DEF CInv, Followed
<1>2. CASE command[p].trust
  <2>1. [Digesting(p) EXCEPT !.writing = TRUE] =
            [r EXCEPT !.at = "digest", !.todo = ClosureFiles(p, Config(p)), !.digests = Empty,
                      !.recorded = r.recorded, !.writing = TRUE]
    BY <1>1 DEF Digesting, Kept, Typed
  <2>2. proc' = [proc EXCEPT ![p] = [r EXCEPT !.at = "digest", !.todo = ClosureFiles(p, Config(p)),
                                              !.digests = Empty, !.recorded = r.recorded,
                                              !.writing = TRUE]]
    BY <1>2, <2>1 DEF Decide
  <2> QED
    BY <2>2, DigestingIsFollowed
<1>3. CASE ~ command[p].trust
  BY <1>3, EndedIsFollowed DEF Decide
<1> QED
  BY <1>2, <1>3

(* A lock that cannot be compared.                                           *)
LEMMA UnverifiedIsFollowed ==
    ASSUME CInv, NEW p \in Commands, Onward(p), UNCHANGED <<disk, edits, written>>,
           proc[p].at \in {"readLock", "digest"}, Unverified(p)
    PROVE  Followed(p)'
<1>1. CASE Kind(p) = "run"
  BY <1>1, DecidedIsFollowed DEF Unverified
<1>2. CASE Kind(p) # "run"
  BY <1>2, EndedIsFollowed DEF Unverified
<1> QED
  BY <1>1, <1>2

(* A whole lock is one that was written.                                     *)
LEMMA ReadLockIsFollowed ==
    ASSUME CInv, NEW p \in Commands, Onward(p), ReadLock(p)
    PROVE  Followed(p)'
<1> DEFINE r == proc[p]
<1>1. Kept(r, Kind(p)) /\ proc = [q \in Commands |-> proc[q]]
  BY DEF CInv, Followed
<1>2. CASE lock.state # "whole"
  BY <1>2, UnverifiedIsFollowed DEF ReadLock
<1>3. CASE lock.state = "whole"
  <2>1. r.writing \in BOOLEAN /\ (Kind(p) = "locked" => ~ r.writing)
    BY <1>1 DEF Kept, Typed
  <2>2. [Digesting(p) EXCEPT !.recorded = lock.payload] =
            [r EXCEPT !.at = "digest", !.todo = ClosureFiles(p, Config(p)), !.digests = Empty,
                      !.recorded = lock.payload, !.writing = r.writing]
    BY <1>1 DEF Digesting, Kept, Typed
  <2>3. proc' = [proc EXCEPT ![p] = [r EXCEPT !.at = "digest", !.todo = ClosureFiles(p, Config(p)),
                                              !.digests = Empty, !.recorded = lock.payload,
                                              !.writing = r.writing]]
    BY <1>3, <2>2 DEF ReadLock
  <2>4. \E w \in written : w.payload = lock.payload
    BY <1>3 DEF CInv, Locked
  <2> QED
    BY <2>1, <2>3, <2>4, DigestingIsFollowed DEF ReadLock
<1> QED
  BY <1>2, <1>3

(* One more file is digested, as it is now.                                  *)
LEMMA DigestFileIsFollowed ==
    ASSUME CInv, NEW p \in Commands, Onward(p), DigestFile(p)
    PROVE  Followed(p)'
<1> DEFINE r == proc[p]
           n == proc'[p]
           f == Head(r.todo)
<1>1. Followed(p) /\ Kept(r, Kind(p)) /\ proc = [q \in Commands |-> proc[q]]
  BY DEF CInv, Followed
<1>2. r.at = "digest" /\ r.todo # << >> /\ r.verdict = ""
  BY <1>1 DEF DigestFile, Kept
<1>3. CASE ~ Exists(f)
  <2>1. CASE r.writing
    BY <1>2, <1>3, <2>1, EndedIsFollowed DEF DigestFile
  <2>2. CASE ~ r.writing
    BY <1>2, <1>3, <2>2, UnverifiedIsFollowed DEF DigestFile
  <2> QED
    BY <2>1, <2>2
<1>4. CASE Exists(f) /\ f \in Range(ConfigFiles) /\ ~ disk[f].parses
  BY <1>2, <1>4, EndedIsFollowed DEF DigestFile
<1>5. CASE Exists(f) /\ ~ (f \in Range(ConfigFiles) /\ ~ disk[f].parses)
  <2>1. n = [r EXCEPT !.digests = Holding(@, f, Digest(disk[f], f)), !.todo = Tail(@)]
    BY <1>1, <1>5 DEF DigestFile
  <2>2. /\ n.at = "digest" /\ n.todo = Tail(r.todo) /\ n.began = r.began /\ n.verdict = r.verdict
        /\ n.seen = r.seen /\ n.digests = Holding(r.digests, f, Digest(disk[f], f))
        /\ n.config = r.config /\ n.writing = r.writing /\ n.recorded = r.recorded
    BY <1>1, <1>2, <2>1 DEF Kept, Typed
  <2>3. Tail(r.todo) \in Seq(Range(Files)) /\ Range(r.todo) = {f} \cup Range(Tail(r.todo))
    <3>1. r.todo \in Seq(Range(Files)) /\ r.todo # << >>
      BY <1>1, <1>2 DEF Kept, Typed
    <3> QED
      BY <3>1, OneLess
  <2>4. Kept(n, Kind(p))
    <3>1. Typed(n)
      BY <1>1, <2>1, <2>3 DEF Kept, Typed
    <3> QED
      BY <1>1, <1>2, <2>2, <3>1 DEF Kept, Before, WithSources
  <2>5. Recorded(proc[p], Kind(p))'
    <3>1. ~ r.writing => \E w \in written' : w.payload = r.recorded
      BY <1>1, <1>2 DEF Followed, Recorded, Onward
    <3> QED
      BY <1>2, <2>2, <3>1 DEF Recorded, WithSources
  <2>6. edits = n.began => Steady(n, disk)
    <3> SUFFICES ASSUME edits = r.began PROVE Steady(n, disk)
      BY <2>2
    <3>1. Steady(r, disk)
      BY <1>1 DEF Followed
    <3>2. /\ DOMAIN n.digests = DOMAIN r.digests \cup {f}
          /\ \A g \in DOMAIN r.digests : n.digests[g] = r.digests[g]
          /\ f \notin DOMAIN r.digests => n.digests[f] = Digest(disk[f], f)
      BY <2>2 DEF Holding, Joined
    <3>3. Digests(n.digests, disk)
      <4> SUFFICES ASSUME NEW g \in DOMAIN n.digests
                   PROVE  disk[g] # Absent /\ n.digests[g] = Digest(disk[g], g)
        BY DEF Digests
      <4>1. CASE g \in DOMAIN r.digests
        BY <1>2, <3>1, <3>2, <4>1 DEF Steady, Digests
      <4>2. CASE g \notin DOMAIN r.digests
        BY <1>5, <3>2, <4>2 DEF Exists
      <4> QED
        BY <4>1, <4>2
    <3> QED
      BY <1>2, <2>2, <2>3, <3>1, <3>2, <3>3 DEF Steady
  <2>7. edits' = edits /\ disk' = disk
    BY DEF DigestFile
  <2> QED
    BY <1>2, <2>2, <2>4, <2>5, <2>6, <2>7, MovedIsFollowed
<1> QED
  BY <1>3, <1>4, <1>5

(* When all are read, what has been put together describes the project.       *)
LEMMA AllDigested ==
    ASSUME NEW r, NEW d, Steady(r, d), r.at \in {"digest", "write", "fill"}, r.todo = << >>
    PROVE  Describes(r.digests, d) /\ Named(r.config, FileFields) \subseteq DOMAIN r.digests
<1>1. Range(r.todo) = {}
  BY DEF Range
<1>2. Named(r.config, FileFields) \subseteq Range(OtherFiles)
  BY DEF Named
<1>3. Present(d) \subseteq Range(ConfigFiles)
  BY DEF Present
<1> QED
  BY <1>1, <1>2, <1>3, FilesAreListed DEF Steady, Closure, Describes

(* The payload is put together, and compared or about to be written.         *)
LEMMA DigestedIsFollowed ==
    ASSUME CInv, NEW p \in Commands, Onward(p), Digested(p)
    PROVE  Followed(p)'
<1> DEFINE r == proc[p]
           n == proc'[p]
           payload == Payload(Config(p), r.digests)
<1>1. Followed(p) /\ Kept(r, Kind(p)) /\ proc = [q \in Commands |-> proc[q]]
  BY DEF CInv, Followed
<1>2. r.at = "digest" /\ r.todo = << >> /\ r.verdict = "" /\ UNCHANGED <<disk, edits, written>>
  BY <1>1 DEF Digested, Kept
<1>3. CASE r.writing
  <2>1. n = [r EXCEPT !.at = "write"]
    BY <1>1, <1>3 DEF Digested
  <2>2. /\ n.at = "write" /\ n.todo = r.todo /\ n.began = r.began /\ n.verdict = r.verdict
        /\ n.seen = r.seen /\ n.digests = r.digests /\ n.config = r.config
        /\ n.writing = r.writing
    BY <1>1, <2>1 DEF Kept, Typed
  <2>3. Kept(n, Kind(p))
    <3>1. Typed(n)
      BY <1>1, <2>1 DEF Kept, Typed
    <3> QED
      BY <1>1, <1>2, <1>3, <2>2, <3>1 DEF Kept, Before, WithSources
  <2>4. Recorded(proc[p], Kind(p))'
    BY <1>2, <2>2 DEF Recorded, WithSources
  <2>5. edits = n.began => Steady(n, disk)
    BY <1>1, <1>2, <2>2 DEF Followed, Steady
  <2> QED
    BY <1>2, <2>2, <2>3, <2>4, <2>5, MovedIsFollowed
<1>4. CASE ~ r.writing /\ Kind(p) = "run"
  <2>1. CASE SourcesDiffer(p, payload)
    <3>1. Decide(p, TRUE)
      BY <1>4, <2>1 DEF Digested, Decide
    <3> QED
      BY <1>2, <1>4, <3>1, DecidedIsFollowed
  <2>2. CASE ~ SourcesDiffer(p, payload)
    <3>1. [r EXCEPT !.at = "launch", !.asked = r.asked] = [r EXCEPT !.at = "launch"]
      BY <1>1 DEF Kept, Typed
    <3>2. proc' = [proc EXCEPT ![p] = [r EXCEPT !.at = "launch", !.asked = r.asked]]
      BY <1>1, <1>4, <2>2, <3>1 DEF Digested, Decide
    <3>3. PinnedSources(Config(p)) = r.recorded.sources
      BY <2>2 DEF SourcesDiffer, Payload
    <3>4. \E w \in written' : w.payload.sources = PinnedSources(Config(p))
      BY <1>1, <1>2, <1>4, <3>3 DEF Followed, Recorded
    <3>5. "launch" \in WithSources /\ r.at # "ended"
      BY <1>2 DEF WithSources
    <3> QED
      BY <1>4, <3>2, <3>4, <3>5, LaunchingIsFollowed
  <2> QED
    BY <2>1, <2>2
<1>5. CASE ~ r.writing /\ Kind(p) # "run" /\ payload # r.recorded
  BY <1>2, <1>5, EndedIsFollowed DEF Digested
<1>6. CASE ~ r.writing /\ Kind(p) # "run" /\ payload = r.recorded
  <2>1. n = [r EXCEPT !.at = "ended", !.verdict = "clean"]
    BY <1>1, <1>6 DEF Digested, Ends
  <2>2. /\ n.at = "ended" /\ n.todo = r.todo /\ n.began = r.began /\ n.verdict = "clean"
        /\ n.seen = r.seen /\ n.digests = r.digests /\ n.config = r.config
        /\ n.writing = r.writing /\ n.recorded = r.recorded
    BY <1>1, <2>1 DEF Kept, Typed
  <2>3. Kept(n, Kind(p))
    <3>1. Typed(n)
      BY <1>1, <2>1 DEF Kept, Typed
    <3> QED
      BY <1>1, <1>2, <1>6, <2>2, <3>1 DEF Kept, Before, WithSources
  <2>4. Recorded(proc[p], Kind(p))'
    <3>1. \E w \in written' : w.payload = r.recorded
      BY <1>1, <1>2, <1>6 DEF Followed, Recorded
    <3> QED
      BY <2>2, <3>1 DEF Recorded, WithSources
  <2>5. Steady(n, disk)
    BY <2>2 DEF Steady
  <2>6. Unchanged(proc[p], Kind(p))'
    <3> SUFFICES ASSUME edits = r.began, NEW w \in written, w.quiet, w.payload = r.recorded
                 PROVE  \A f \in Range(ConfigFiles) \cup Named(r.config, FileFields) :
                            SameFile(w.disk, disk, f)
      BY <1>2, <2>2 DEF Unchanged
    <3>1. Describes(r.digests, disk) /\ Named(r.config, FileFields) \subseteq DOMAIN r.digests
      BY <1>1, <1>2, AllDigested DEF Followed
    <3>2. w.payload.files = r.digests
      BY <1>6 DEF Payload
    <3>3. Describes(r.digests, w.disk)
      BY <3>2 DEF CInv, Locked
    <3> QED
      BY <3>1, <3>3, DescribedAlike
  <2>7. r.began <= edits
    BY <1>1 DEF Followed
  <2>8. Kind(p)' = Kind(p)
    BY DEF Onward, Kind
  <2> QED
    BY <1>2, <2>2, <2>3, <2>4, <2>5, <2>6, <2>7, <2>8 DEF Followed
<1> QED
  BY <1>3, <1>4, <1>5, <1>6, <1>1 DEF Kept, Typed

(* To empty the lock touches neither the files nor the digests.              *)
LEMMA OpenLockIsFollowed ==
    ASSUME CInv, NEW p \in Commands, Onward(p), OpenLock(p)
    PROVE  Followed(p)'
<1> DEFINE r == proc[p]
           n == proc'[p]
<1>1. Followed(p) /\ Kept(r, Kind(p)) /\ proc = [q \in Commands |-> proc[q]]
  BY DEF CInv, Followed
<1>2. r.at = "write" /\ r.verdict = "" /\ UNCHANGED <<disk, edits>>
  BY <1>1 DEF OpenLock, Kept
<1>3. n = [r EXCEPT !.at = "fill"]
  BY <1>1 DEF OpenLock
<1>4. /\ n.at = "fill" /\ n.todo = r.todo /\ n.began = r.began /\ n.verdict = r.verdict
      /\ n.seen = r.seen /\ n.digests = r.digests /\ n.config = r.config
      /\ n.writing = r.writing
  BY <1>1, <1>3 DEF Kept, Typed
<1>5. Kept(n, Kind(p))
  <2>1. Typed(n)
    BY <1>1, <1>3 DEF Kept, Typed
  <2> QED
    BY <1>1, <1>2, <1>4, <2>1 DEF Kept, Before, WithSources
<1>6. Recorded(proc[p], Kind(p))'
  BY <1>2, <1>4 DEF Recorded, WithSources
<1>7. edits = n.began => Steady(n, disk)
  BY <1>1, <1>2, <1>4 DEF Followed, Steady
<1> QED
  BY <1>2, <1>4, <1>5, <1>6, <1>7, MovedIsFollowed

(* What a run has written is what its sources are then looked up in.         *)
LEMMA FillLockIsFollowed ==
    ASSUME CInv, NEW p \in Commands, Onward(p), FillLock(p)
    PROVE  Followed(p)'
<1> DEFINE r == proc[p]
           payload == Payload(Config(p), r.digests)
<1>1. Kept(r, Kind(p)) /\ proc = [q \in Commands |-> proc[q]]
  BY DEF CInv, Followed
<1>2. r.at = "fill" /\ r.writing
  BY <1>1 DEF FillLock, Kept
<1>3. CASE Kind(p) = "run"
  <2>1. [r EXCEPT !.at = "launch", !.asked = r.asked] = [r EXCEPT !.at = "launch"]
    BY <1>1 DEF Kept, Typed
  <2>2. proc' = [proc EXCEPT ![p] = [r EXCEPT !.at = "launch", !.asked = r.asked]]
    BY <1>1, <1>3, <2>1 DEF FillLock
  <2>3. payload.sources = PinnedSources(Config(p))
    BY DEF Payload
  <2>4. \E w \in written' : w.payload = payload
    <3> DEFINE new == [payload |-> payload, disk |-> disk, quiet |-> edits = proc[p].began]
    <3>1. new \in written'
      BY DEF FillLock
    <3>2. new.payload = payload
      BY Zenon
    <3> HIDE DEF new
    <3> QED
      BY <3>1, <3>2
  <2>5. "launch" \in WithSources /\ r.at # "ended"
    BY <1>2 DEF WithSources
  <2> QED
    BY <1>3, <2>2, <2>3, <2>4, <2>5, LaunchingIsFollowed
<1>4. CASE Kind(p) # "run"
  <2>1. Kind(p) # "locked"
    BY <1>1, <1>2 DEF Kept
  <2> QED
    BY <1>2, <1>4, <2>1, EndedIsFollowed DEF FillLock
<1> QED
  BY <1>3, <1>4

(* A run that has what it needs for its sources keeps it.                     *)
LEMMA RunningIsFollowed ==
    ASSUME CInv, NEW p \in Commands, Onward(p), proc[p].at \in WithSources,
           NEW at \in WithSources, NEW asked,
           proc' = [proc EXCEPT ![p] = [proc[p] EXCEPT !.at = at, !.asked = asked]]
    PROVE  Followed(p)'
<1>1. Kept(proc[p], Kind(p)) /\ Recorded(proc[p], Kind(p))
  BY DEF CInv, Followed
<1>2. Kind(p) = "run" /\ proc[p].at # "ended"
  BY <1>1 DEF Kept, WithSources
<1>3. McpSources(Config(p)) # {} =>
          \E w \in written' : w.payload.sources = PinnedSources(Config(p))
  BY <1>1 DEF Recorded, Config, Onward
<1> QED
  BY <1>2, <1>3, LaunchingIsFollowed

(* The steps of a run that has its lock.                                     *)
LEMMA SourcesAreFollowed ==
    ASSUME CInv, NEW p \in Commands, Onward(p), NEW s,
           \/ Launch(p, s) \/ Launched(p) \/ Initialized(p) \/ Execute(p, s) \/ Executed(p)
           \/ CloseAll(p)
    PROVE  Followed(p)'
<1> DEFINE r == proc[p]
<1>1. Kept(r, Kind(p)) /\ proc = [q \in Commands |-> proc[q]]
  BY DEF CInv, Followed
<1>2. r.at \in WithSources /\ r.at # "idle" /\ r.at # "ended" /\ Kind(p) # "locked"
  BY <1>1 DEF Kept, WithSources, Launch, Launched, Initialized, Execute, Executed, CloseAll
<1>3. CASE \E v : Ends(p, v)
  BY <1>2, <1>3, EndedIsFollowed
<1>4. CASE proc' = proc
  BY <1>4, OthersStay
<1>5. ASSUME NEW at \in WithSources, NEW asked,
             proc' = [proc EXCEPT ![p].at = at, ![p].asked = asked]
      PROVE  Followed(p)'
  <2>1. proc' = [proc EXCEPT ![p] = [r EXCEPT !.at = at, !.asked = asked]]
    BY <1>1, <1>5
  <2> QED
    BY <1>2, <2>1, RunningIsFollowed
<1>6. ASSUME NEW at \in WithSources, proc' = [proc EXCEPT ![p].at = at] PROVE Followed(p)'
  <2>1. [r EXCEPT !.at = at, !.asked = r.asked] = [r EXCEPT !.at = at]
    BY <1>1 DEF Kept, Typed
  <2>2. proc' = [proc EXCEPT ![p] = [r EXCEPT !.at = at, !.asked = r.asked]]
    BY <1>1, <1>6, <2>1
  <2> QED
    BY <1>2, <2>2, RunningIsFollowed
<1>7. CASE Launch(p, s)
  BY <1>3, <1>5, <1>7 DEF Launch, WithSources
<1>8. CASE Launched(p)
  BY <1>6, <1>8 DEF Launched, WithSources
<1>9. CASE Initialized(p)
  BY <1>3, <1>6, <1>9 DEF Initialized, WithSources
<1>10. CASE Execute(p, s)
  BY <1>4, <1>5, <1>10 DEF Execute, WithSources
<1>11. CASE Executed(p)
  BY <1>6, <1>11 DEF Executed, WithSources
<1>12. CASE CloseAll(p)
  BY <1>3, <1>12 DEF CloseAll
<1> QED
  BY <1>7, <1>8, <1>9, <1>10, <1>11, <1>12

(* All the steps of a command.                                               *)
LEMMA StepIsFollowed ==
    ASSUME CInv, NEW p \in Commands, Onward(p), Step(p)
    PROVE  Followed(p)'
<1>1. Kept(proc[p], Kind(p))
  BY DEF CInv, Followed
<1>2. proc[p].at # "idle" => Kind(p) # "none"
  BY <1>1 DEF Kept
<1>3. CASE Begin(p)
  <2>1. proc[p].at \in Before /\ Kind(p) # "none" /\ "create" \in Before
    BY <1>3 DEF Begin, Before
  <2>2. CASE Ends(p, "refused")
    BY <1>3, <2>2, EndedIsFollowed DEF Begin
  <2> QED
    BY <1>3, <2>1, <2>2, DiscoverIsFollowed, BetweenIsFollowed DEF Begin
<1>4. CASE Create(p)
  <2>1. proc[p].at \in Before /\ Kind(p) # "none" /\ {"createPrompt", "created"} \subseteq Before
    BY <1>2, <1>4 DEF Create, Before
  <2>2. \E at \in Before : proc' = [proc EXCEPT ![p].at = at]
    BY <1>4, <2>1 DEF Create
  <2> QED
    BY <2>1, <2>2, BetweenIsFollowed
<1>5. CASE LoadCreated(p)
  <2>1. proc[p].at \in Before /\ Kind(p) # "none"
    BY <1>2, <1>5 DEF LoadCreated, Before
  <2> QED
    BY <1>5, <2>1, DiscoverIsFollowed DEF LoadCreated
<1>6. CASE Die(p)
  BY <1>6, EndedIsFollowed DEF Die
<1> QED
  BY <1>3, <1>4, <1>5, <1>6, LoadFileIsFollowed, CheckIsFollowed, ReadLockIsFollowed,
     DigestFileIsFollowed, DigestedIsFollowed, OpenLockIsFollowed, FillLockIsFollowed,
     SourcesAreFollowed DEF Step

-----------------------------------------------------------------------------
(* A lock that is written whole describes the files, if nobody edited them.   *)
LEMMA LocksAreWritten ==
    ASSUME CInv, NEW p \in Commands, Step(p)
    PROVE  Locked'
<1> DEFINE r == proc[p]
<1>1. Locked /\ Followed(p)
  BY DEF CInv
<1>2. CASE FillLock(p)
  <2> DEFINE payload == Payload(Config(p), r.digests)
             new == [payload |-> payload, disk |-> disk, quiet |-> edits = r.began]
  <2>1. /\ lock' \in {Whole(payload), MixedLock}
        /\ written' = written \cup {new}
    BY <1>2 DEF FillLock
  <2>2. new.payload = payload /\ new.disk = disk /\ (new.quiet <=> edits = r.began)
    BY Zenon
  <2>3. payload.files = r.digests
    BY DEF Payload
  <2>4. new.quiet => Describes(new.payload.files, new.disk)
    <3>1. r.at = "fill" /\ r.todo = << >>
      BY <1>1, <1>2 DEF FillLock, Followed, Kept
    <3>2. edits = r.began => Steady(r, disk)
      BY <1>1 DEF Followed
    <3>3. edits = r.began => Describes(r.digests, disk)
      BY <3>1, <3>2, AllDigested
    <3> HIDE DEF new, payload
    <3> QED
      BY <2>2, <2>3, <3>3
  <2>5. lock'.state = "whole" => lock'.payload = new.payload
    BY <2>1, <2>2 DEF Whole, MixedLock
  <2> HIDE DEF new, payload
  <2> QED
    BY <1>1, <2>1, <2>4, <2>5 DEF Locked
<1>3. CASE UNCHANGED <<lock, written>>
  BY <1>1, <1>3 DEF Locked
<1>4. CASE OpenLock(p)
  BY <1>1, <1>4 DEF Locked, OpenLock, EmptyLock
<1> QED
  BY <1>2, <1>3, <1>4 DEF Step, Begin, Create, LoadCreated, LoadFile, Check, ReadLock, DigestFile,
     Digested, Launch, Execute, Launched, Initialized, Executed, CloseAll, Die

(* A run asks only children of its own.                                      *)
LEMMA ServersAreCommanded ==
    ASSUME NEW c \in Servers
    PROVE  c = <<c[1], c[2]>> /\ c[1] \in Commands
<1>1. PICK p \in Commands, s \in {d[2] : d \in Servers} : c = <<p, s>>
  BY CommandsAssumption
<1> QED
  BY <1>1

(* The steps of a command are steps of its servers' channels, or none.        *)
LEMMA StepsAreOfMcp ==
    ASSUME CInv, NEW p \in Commands, Step(p)
    PROVE  [McpNext]_channel
<1>1. proc[p].at \in {"initialize", "call"} => Source(p) \in Servers
  BY DEF CInv
<1>2. CASE UNCHANGED channel
  BY <1>2
<1>3. ASSUME NEW c \in Servers, c[1] = p, Launch(p, c[2]) \/ Execute(p, c[2])
      PROVE  [McpNext]_channel
  BY <1>3, ServersAreCommanded DEF Launch, Execute, McpNext
<1>4. CASE Initialized(p) \/ Executed(p)
  BY <1>1, <1>4 DEF Initialized, Executed, McpNext
<1>5. CASE CloseAll(p)
  BY <1>5 DEF CloseAll, McpNext
<1> QED
  BY <1>2, <1>3, <1>4, <1>5 DEF Step, Begin, Create, LoadCreated, LoadFile, Check, ReadLock,
     DigestFile, Digested, OpenLock, FillLock, Launched, Die

(* A run that waits for an answer waits for one of its own children.         *)
LEMMA SourcesAreOwn ==
    ASSUME CInv, NEW p \in Commands, Onward(p), Step(p), NEW q \in Commands
    PROVE  proc'[q].at \in {"initialize", "call"} => Source(q)' \in Servers
<1>1. proc[q].at \in {"initialize", "call"} => Source(q) \in Servers
  BY DEF CInv
<1>2. Kept(proc[p], Kind(p)) /\ proc = [o \in Commands |-> proc[o]]
  BY DEF CInv, Followed
<1>3. {"at", "asked", "todo"} \subseteq DOMAIN proc[p] /\ proc = [o \in Commands |-> proc[o]]
  BY <1>2 DEF Kept, Typed
<1>4. CASE q # p
  BY <1>1, <1>4 DEF Onward, Source
<1>5. CASE q = p
  <2> SUFFICES proc'[p].at \in {"initialize", "call"} => Source(p)' \in Servers
    BY <1>5
  <2>1. ASSUME NEW c \in Servers, c[1] = p, Launch(p, c[2]) \/ Execute(p, c[2])
        PROVE  proc'[p].at \in {"initialize", "call"} => Source(p)' \in Servers
    <3>1. c = <<p, c[2]>>
      BY <2>1, ServersAreCommanded
    <3>2. CASE proc' = proc
      BY <1>1, <1>5, <3>2 DEF Source
    <3>3. CASE \E v : Ends(p, v)
      BY <1>3, <3>3 DEF Ends
    <3>4. ASSUME NEW at, proc' = [proc EXCEPT ![p].at = at, ![p].asked = c[2]]
          PROVE  proc'[p].asked = c[2]
      BY <1>3, <3>4
    <3>5. proc'[p].asked = c[2] => Source(p)' \in Servers
      BY <3>1 DEF Source
    <3> QED
      BY <2>1, <3>2, <3>3, <3>4, <3>5 DEF Launch, Execute
  <2>2. ASSUME NEW v, Ends(p, v) PROVE proc'[p].at = "ended"
    BY <1>3, <2>2 DEF Ends
  <2>3. Discover(p) => proc'[p].at \in {"ended", "load"}
    BY <1>3, <2>2 DEF Discover
  <2>4. \A changed \in BOOLEAN : Decide(p, changed) => proc'[p].at \in {"ended", "digest", "launch"}
    <3>1. ASSUME proc' = [proc EXCEPT ![p] = [Digesting(p) EXCEPT !.writing = TRUE]]
          PROVE  proc'[p].at = "digest"
      BY <1>3, <3>1 DEF Digesting
    <3>2. ASSUME proc' = [proc EXCEPT ![p].at = "launch"] PROVE proc'[p].at = "launch"
      BY <1>3, <3>2
    <3> QED
      BY <2>2, <3>1, <3>2 DEF Decide
  <2>5. Unverified(p) => proc'[p].at \in {"ended", "digest", "launch"}
    BY <2>2, <2>4 DEF Unverified
  <2>6. CASE Begin(p) \/ LoadCreated(p)
    BY <1>3, <2>2, <2>3, <2>6 DEF Begin, LoadCreated
  <2>7. CASE Create(p)
    BY <1>3, <2>7 DEF Create
  <2>8. CASE LoadFile(p)
    BY <1>3, <2>8 DEF LoadFile
  <2>9. CASE Check(p)
    <3>1. Kind(p) \in {"init", "validate", "locked", "lock", "run"}
      BY <1>2, <2>9 DEF Check, Kept, Kinds
    <3>2. \A config : After(p, config) \notin {"initialize", "call"}
      BY <3>1 DEF After
    <3>3. ASSUME NEW config,
                 proc' = [proc EXCEPT ![p].at = After(p, config), ![p].config = config,
                                      ![p].writing = Kind(p) \in {"lock", "init"},
                                      ![p].todo = ClosureFiles(p, config),
                                      ![p].verdict = IF Kind(p) = "validate" THEN "clean" ELSE ""]
          PROVE  proc'[p].at \notin {"initialize", "call"}
      <4>1. proc'[p].at = After(p, config)
        BY <1>3, <3>3
      <4> QED
        BY <3>2, <4>1
    <3>4. Ends(p, "refused") => proc'[p].at \notin {"initialize", "call"}
      BY <2>2
    <3> QED
      BY <2>9, <3>3, <3>4 DEF Check
  <2>10. CASE ReadLock(p)
    BY <1>3, <2>5, <2>10 DEF ReadLock, Digesting
  <2>11. CASE DigestFile(p)
    BY <1>3, <2>2, <2>5, <2>11 DEF DigestFile
  <2>12. CASE Digested(p)
    <3>1. SourcesDiffer(p, Payload(Config(p), proc[p].digests)) \in BOOLEAN
      BY DEF SourcesDiffer
    <3> QED
      BY <1>3, <2>2, <2>12, <2>4, <3>1 DEF Digested
  <2>13. ASSUME NEW at, proc' = [proc EXCEPT ![p].at = at] PROVE proc'[p].at = at
    BY <1>3, <2>13
  <2>14. CASE OpenLock(p) \/ FillLock(p)
    BY <2>2, <2>14, <2>13 DEF OpenLock, FillLock
  <2>15. CASE Launched(p) \/ Initialized(p) \/ Executed(p)
    BY <2>2, <2>15, <2>13 DEF Launched, Initialized, Executed
  <2>16. CASE CloseAll(p) \/ Die(p)
    BY <2>2, <2>16 DEF CloseAll, Die
  <2> QED
    BY <1>5, <2>1, <2>6, <2>7, <2>8, <2>9, <2>10, <2>11, <2>12, <2>14, <2>15, <2>16 DEF Step
<1> QED
  BY <1>4, <1>5

(* The children of a run, but for the one it starts: their command keeps its   *)
(* configuration, and leaves them by what MayBeOrphaned names.                 *)
LEMMA ChildrenStay ==
    ASSUME CInv, NEW p \in Commands, Onward(p), NEW c \in Servers,
           \/ channel'[c].child = channel[c].child
           \/ channel[c].child # "none" /\ channel'[c].child # "running",
           \/ proc[p].at \notin WithSources \cup {"ended"}
           \/ /\ proc'[p].config = proc[p].config
              /\ \/ proc'[p].at \in WithSources
                 \/ proc'[p].at = "ended" /\ proc'[p].verdict \in {"killed", "raised"}
                 \/ proc'[p].at = "ended" /\ channel'[c].child # "running"
    PROVE  Cared(c)'
<1>1. Cared(c) /\ c[1] \in Commands
  BY ServersAreCommanded DEF CInv
<1> SUFFICES ASSUME channel'[c].child # "none" PROVE Cared(c)'
  BY DEF Cared
<1>2. channel[c].child # "none"
  OBVIOUS
<1>3. /\ proc[c[1]].at \in WithSources \cup {"ended"}
      /\ command[c[1]].trust
      /\ \E w \in written : w.payload.sources = PinnedSources(proc[c[1]].config)
      /\ Running(c) /\ proc[c[1]].at = "ended" => MayBeOrphaned(c[1])
  BY <1>1, <1>2 DEF Cared, LaunchIsRecorded, Config
<1>4. proc'[c[1]].config = proc[c[1]].config
  BY <1>1, <1>3 DEF Onward
<1>5. LaunchIsRecorded(c[1])'
  BY <1>3, <1>4 DEF LaunchIsRecorded, Config, Onward
<1>6. proc'[c[1]].at \in WithSources \cup {"ended"}
  BY <1>1, <1>3 DEF Onward
<1>7. ASSUME channel'[c].child = "running", proc'[c[1]].at = "ended"
      PROVE  MayBeOrphaned(c[1])'
  <2>1. CASE c[1] = p
    BY <1>3, <1>7, <2>1 DEF MayBeOrphaned, WithSources
  <2>2. CASE c[1] # p
    BY <1>1, <1>3, <1>7, <2>2 DEF MayBeOrphaned, Onward, Running
  <2> QED
    BY <2>1, <2>2
<1> QED
  BY <1>5, <1>6, <1>7 DEF Cared, Running

(* A source is started on the word of --trust-sources, when its lock is there. *)
LEMMA LaunchedIsCared ==
    ASSUME CInv, NEW p \in Commands, Onward(p), NEW d \in Servers, d[1] = p, Launch(p, d[2]),
           NEW c \in Servers
    PROVE  Cared(c)'
<1>1. d = <<p, d[2]>> /\ proc = [q \in Commands |-> proc[q]] /\ Followed(p)
      /\ channel = [e \in Servers |-> channel[e]]
  BY ServersAreCommanded DEF CInv, MInv
<1>2. {"at", "asked", "verdict", "config"} \subseteq DOMAIN proc[p]
  BY <1>1 DEF Followed, Kept, Typed
<1>3. CASE Ends(p, "raised") /\ UNCHANGED channel
  <2>1. /\ proc'[p].config = proc[p].config /\ proc'[p].at = "ended"
        /\ proc'[p].verdict = "raised"
    BY <1>1, <1>2, <1>3 DEF Ends
  <2> QED
    BY <1>3, <2>1, ChildrenStay
<1>4. CASE /\ command[p].trust /\ Spawn(d)
           /\ proc' = [proc EXCEPT ![p].at = "initialize", ![p].asked = d[2]]
  <2>1. /\ proc'[p].config = proc[p].config /\ proc'[p].at = "initialize"
    BY <1>1, <1>2, <1>4
  <2>2. CASE c = d
    <3>1. \E w \in written : w.payload.sources = PinnedSources(proc[p].config)
      BY <1>1 DEF Launch, Followed, Recorded, Config, WithSources
    <3>2. LaunchIsRecorded(p)'
      BY <1>4, <2>1, <3>1 DEF LaunchIsRecorded, Config, Onward
    <3> QED
      BY <1>1, <2>1, <2>2, <3>2 DEF Cared, WithSources
  <2>3. CASE c # d
    <3>1. channel'[c] = channel[c]
      BY <1>1, <1>4, <2>3 DEF Spawn
    <3> QED
      BY <2>1, <3>1, ChildrenStay DEF WithSources
  <2> QED
    BY <2>2, <2>3
<1> QED
  BY <1>1, <1>3, <1>4 DEF Launch

(* To read and to ask does nothing to a child.                               *)
LEMMA AskingStartsNothing ==
    ASSUME CInv, NEW d \in Servers, Read(d) \/ Ask(d), NEW c \in Servers
    PROVE  channel'[c].child = channel[c].child
<1>1. channel = [e \in Servers |-> channel[e]] /\ Valid(channel[c])
  BY DEF CInv, MInv
<1>2. {"child", "ident", "open", "last", "waiting", "lines", "heard"} \subseteq DOMAIN channel[c]
  BY <1>1 DEF Valid
<1>3. CASE Read(d)
  BY <1>1, <1>2, <1>3 DEF Read
<1>4. CASE Ask(d)
  BY <1>1, <1>2, <1>4 DEF Ask
<1> QED
  BY <1>3, <1>4

(* All the steps of a command, as far as its children go.                    *)
LEMMA StepIsCaring ==
    ASSUME CInv, NEW p \in Commands, Onward(p), Step(p), NEW c \in Servers
    PROVE  Cared(c)'
<1>1. proc = [q \in Commands |-> proc[q]] /\ Followed(p) /\ Cared(c)
      /\ channel = [e \in Servers |-> channel[e]]
  BY DEF CInv, MInv
<1>2. {"at", "asked", "verdict", "config"} \subseteq DOMAIN proc[p]
  BY <1>1 DEF Followed, Kept, Typed
<1>3. CASE UNCHANGED channel /\ proc[p].at \notin WithSources \cup {"ended"}
  BY <1>3, ChildrenStay
<1>4. ASSUME NEW v \in {"killed", "raised"}, Ends(p, v), channel'[c].child = channel[c].child
      PROVE  Cared(c)'
  <2>1. /\ proc'[p].config = proc[p].config /\ proc'[p].at = "ended" /\ proc'[p].verdict = v
    BY <1>1, <1>2, <1>4 DEF Ends
  <2> QED
    BY <1>4, <2>1, ChildrenStay
<1>5. ASSUME NEW at \in WithSources, NEW asked, channel'[c].child = channel[c].child,
             \/ proc' = [proc EXCEPT ![p].at = at]
             \/ proc' = [proc EXCEPT ![p].at = at, ![p].asked = asked]
             \/ proc' = proc /\ proc[p].at = at
      PROVE  Cared(c)'
  <2>1. /\ proc'[p].config = proc[p].config /\ proc'[p].at = at
    BY <1>1, <1>2, <1>5
  <2> QED
    BY <1>5, <2>1, ChildrenStay
<1>6. CASE \E d \in Servers : d[1] = p /\ Launch(p, d[2])
  BY <1>6, LaunchedIsCared
<1>7. ASSUME NEW d \in Servers, d[1] = p, Execute(p, d[2]) PROVE Cared(c)'
  <2>1. d = <<p, d[2]>>
    BY <1>7, ServersAreCommanded
  <2>2. channel'[c].child = channel[c].child
    BY <1>7, <2>1, AskingStartsNothing DEF Execute
  <2> QED
    BY <1>5, <1>7, <2>2 DEF Execute, WithSources
<1>8. CASE Launched(p)
  BY <1>5, <1>8 DEF Launched, WithSources
<1>9. CASE Initialized(p) \/ Executed(p)
  <2>1. Source(p) \in Servers
    BY <1>9 DEF CInv, Initialized, Executed
  <2>2. channel'[c].child = channel[c].child
    BY <1>9, <2>1, AskingStartsNothing DEF Initialized, Executed
  <2> QED
    BY <1>4, <1>5, <1>9, <2>2 DEF Initialized, Executed, WithSources
<1>10. CASE CloseAll(p)
  <2>1. PICK C : /\ C \subseteq {d \in Servers : d[1] = p} /\ Close(C)
                 /\ \/ /\ C = {d \in Servers : d[1] = p}
                       /\ Ends(p, "clean") \/ Ends(p, "refused")
                    \/ Ends(p, "raised")
    BY <1>10 DEF CloseAll
  <2>2. proc'[p].config = proc[p].config /\ proc'[p].at = "ended"
    BY <1>1, <1>2, <2>1 DEF Ends
  <2>3. CASE c \in C
    <3>1. channel'[c] = Killed(c) /\ c[1] = p
      BY <2>1, <2>3 DEF Close
    <3>2. "child" \in DOMAIN channel[c]
      BY DEF CInv, MInv, Valid
    <3>3. channel'[c].child # "running"
      BY <3>1, <3>2 DEF Killed, Running
    <3>4. channel'[c].child = channel[c].child \/ channel[c].child # "none"
      BY <3>1 DEF Killed, Running
    <3> QED
      BY <2>2, <3>1, <3>3, <3>4, ChildrenStay
  <2>4. CASE c \notin C /\ c[1] = p
    <3>1. channel'[c] = channel[c]
      BY <2>1, <2>4 DEF Close
    <3>2. Ends(p, "raised")
      BY <2>1, <2>4
    <3> QED
      BY <1>4, <3>1, <3>2
  <2>5. CASE c[1] # p
    <3>1. channel'[c] = channel[c] /\ c[1] \in Commands
      BY <2>1, <2>5, ServersAreCommanded DEF Close
    <3>2. proc'[c[1]] = proc[c[1]]
      BY <2>5, <3>1 DEF Onward
    <3> QED
      BY <1>1, <3>1, <3>2 DEF Cared, Running, LaunchIsRecorded, MayBeOrphaned, Config, Onward
  <2> QED
    BY <2>3, <2>4, <2>5
<1>11. CASE Die(p)
  BY <1>4, <1>11 DEF Die
<1> QED
  BY <1>3, <1>6, <1>7, <1>8, <1>9, <1>10, <1>11 DEF Step, Begin, Create, LoadCreated, LoadFile,
     Check, ReadLock, DigestFile, Digested, OpenLock, FillLock, WithSources

-----------------------------------------------------------------------------
(* Somebody edits, or a server does something: no command takes a step.       *)
LEMMA NobodySteps ==
    ASSUME CInv, proc' = proc, UNCHANGED <<lock, command, written>>,
           disk' = [f \in Range(Files) |-> disk'[f]],
           (disk' = disk /\ edits' = edits) \/ edits' = edits + 1,
           \A c \in Servers : channel'[c].child = channel[c].child
                              \/ (channel[c].child = "running" /\ channel'[c].child = "exited"),
           MInv'
    PROVE  CInv'
<1>1. \A p : Onward(p)
  BY DEF Onward, CInv
<1>2. \A p \in Commands : Followed(p)'
  BY <1>1, OthersStay
<1>3. Locked' /\ edits' \in Nat
  BY DEF CInv, Locked
<1>4. \A p \in Commands : proc'[p].at \in {"initialize", "call"} => Source(p)' \in Servers
  BY DEF CInv, Source
<1>5. ASSUME NEW c \in Servers PROVE Cared(c)'
  BY DEF CInv, Cared, Running, LaunchIsRecorded, MayBeOrphaned, Config
<1> QED
  BY <1>2, <1>3, <1>4, <1>5 DEF CInv

(* An edit is counted, which is all that a command asks of it.               *)
LEMMA EditIsFollowed ==
    ASSUME CInv, NEW e \in Edits, Edit(e)
    PROVE  CInv'
<1>1. MInv' /\ disk' = [f \in Range(Files) |-> disk'[f]]
  BY DEF CInv, MInv, Edit
<1> QED
  BY <1>1, NobodySteps DEF Edit

(* A server does not start or kill anybody.                                  *)
LEMMA ServingIsFollowed ==
    ASSUME CInv, ServerSteps
    PROVE  CInv'
<1>1. PICK d \in Servers : Answer(d) \/ Stray(d) \/ Exit(d)
  BY DEF ServerSteps, Serve
<1>2. channel = [e \in Servers |-> channel[e]] /\ \A c \in Servers : Valid(channel[c])
  BY DEF CInv, MInv
<1>3. MInv'
  BY McpGoesOn DEF CInv, ServerSteps, McpNext
<1>4. ASSUME NEW c \in Servers
      PROVE  \/ channel'[c].child = channel[c].child
             \/ channel[c].child = "running" /\ channel'[c].child = "exited"
  <2>1. {"child", "open", "lines", "stray"} \subseteq DOMAIN channel[c]
    BY <1>2 DEF Valid
  <2>2. CASE Answer(d)
    BY <1>2, <2>1, <2>2 DEF Answer
  <2>3. CASE Stray(d)
    BY <1>2, <2>1, <2>3 DEF Stray
  <2>4. CASE Exit(d)
    BY <1>2, <2>1, <2>4 DEF Exit, Running
  <2> QED
    BY <1>1, <2>2, <2>3, <2>4
<1> QED
  BY <1>3, <1>4, NobodySteps DEF CInv, ServerSteps

(* The invariant of the commands.                                            *)
THEOREM CommandsInvariance == CommandsSpec => []CInv
<1>1. CommandsInit => CInv
  <2> SUFFICES ASSUME CommandsInit PROVE CInv
    OBVIOUS
  <2>1. MInv
    BY McpStarts DEF CommandsInit
  <2>2. ASSUME NEW p \in Commands PROVE Followed(p)
    <3>1. proc[p] = NotBegun /\ Kind(p) \in Kinds /\ edits \in Nat
      BY DEF CommandsInit
    <3>2. /\ NotBegun.at = "idle" /\ NotBegun.todo = << >> /\ NotBegun.doc = NewDocument
          /\ NotBegun.config = Empty /\ NotBegun.digests = Empty /\ NotBegun.writing = FALSE
          /\ NotBegun.verdict = "" /\ NotBegun.seen = Empty /\ NotBegun.began = 0
      BY DEF NotBegun
    <3>3. Typed(NotBegun)
      BY DEF NotBegun, Typed
    <3>4. Kept(NotBegun, Kind(p))
      BY <3>1, <3>2, <3>3 DEF Kept, WithSources
    <3>5. Recorded(NotBegun, Kind(p)) /\ Steady(NotBegun, disk) /\ Unchanged(NotBegun, Kind(p))
      BY <3>2 DEF Recorded, WithSources, Steady, Unchanged
    <3>6. proc[p].began <= edits
      <4>1. proc[p].began = 0
        BY <3>1, <3>2
      <4>2. edits \in Nat
        BY <3>1
      <4> QED
        BY <4>1, <4>2
    <3> QED
      BY <3>1, <3>4, <3>5, <3>6 DEF Followed
  <2>3. ASSUME NEW p \in Commands PROVE proc[p].at = "idle"
    BY DEF CommandsInit, NotBegun
  <2>4. ASSUME NEW c \in Servers PROVE channel[c].child = "none"
    <3>1. PICK n \in 0 .. MaxStray : channel[c] = [NoChannel EXCEPT !.stray = n]
      BY DEF CommandsInit, McpInit
    <3> QED
      BY <3>1 DEF NoChannel
  <2>5. Locked
    BY DEF CommandsInit, Locked, NoLock
  <2>6. /\ disk = [f \in Range(Files) |-> disk[f]] /\ proc = [p \in Commands |-> proc[p]]
        /\ edits \in Nat
    BY DEF CommandsInit
  <2> QED
    BY <2>1, <2>2, <2>3, <2>4, <2>5, <2>6 DEF CInv, Cared
<1>2. CInv /\ [CommandsNext]_commandVars => CInv'
  <2> SUFFICES ASSUME CInv, [CommandsNext]_commandVars PROVE CInv'
    OBVIOUS
  <2>1. ASSUME NEW p \in Commands, Step(p) PROVE CInv'
    <3>1. Onward(p)
      BY <2>1, EveryStepIsOnward
    <3>2. Followed(p)' /\ Locked'
      BY <2>1, <3>1, StepIsFollowed, LocksAreWritten
    <3>3. ASSUME NEW q \in Commands PROVE Followed(q)'
      BY <3>1, <3>2, OthersStay DEF Onward
    <3>4. \A q \in Commands : proc'[q].at \in {"initialize", "call"} => Source(q)' \in Servers
      BY <2>1, <3>1, SourcesAreOwn
    <3>5. \A c \in Servers : Cared(c)'
      BY <2>1, <3>1, StepIsCaring
    <3>6. MInv'
      BY <2>1, StepsAreOfMcp, McpGoesOn DEF CInv
    <3>7. edits' \in Nat /\ disk' = [f \in Range(Files) |-> disk'[f]]
          /\ proc' = [q \in Commands |-> proc'[q]]
      BY <3>1 DEF Onward, CInv
    <3> QED
      BY <3>2, <3>3, <3>4, <3>5, <3>6, <3>7 DEF CInv
  <2>2. CASE UNCHANGED commandVars
    <3>1. MInv' /\ disk' = [f \in Range(Files) |-> disk'[f]]
      BY <2>2 DEF CInv, MInv, commandVars
    <3> QED
      BY <2>2, <3>1, NobodySteps DEF commandVars
  <2> QED
    BY <2>1, <2>2, EditIsFollowed, ServingIsFollowed DEF CommandsNext
<1> QED
  BY <1>1, <1>2, PTL DEF CommandsSpec

(***************************************************************************)
(* Whatever the commands do, each MCP source of theirs is a source of         *)
(* McpSource: it is started once, asked and read in turns, and closed.        *)
(***************************************************************************)
THEOREM CommandsImplementMcp == CommandsSpec => McpSpec
<1>1. CommandsInit => McpInit
  BY DEF CommandsInit
<1>2. CInv /\ [CommandsNext]_commandVars => [McpNext]_channel
  <2> SUFFICES ASSUME CInv, [CommandsNext]_commandVars PROVE [McpNext]_channel
    OBVIOUS
  <2>1. CASE \E e \in Edits : Edit(e)
    BY <2>1 DEF Edit
  <2>2. CASE ServerSteps
    BY <2>2 DEF ServerSteps, McpNext
  <2>3. CASE UNCHANGED commandVars
    BY <2>3 DEF commandVars
  <2> QED
    BY <2>1, <2>2, <2>3, StepsAreOfMcp DEF CommandsNext
<1> QED
  BY <1>1, <1>2, CommandsInvariance, PTL DEF CommandsSpec, McpSpec

(* ... and so behind by the stray lines it took for answers, in every run.    *)
THEOREM RunsKeepStep == CommandsSpec => []AnswersFollowNoise
  BY CommandsImplementMcp, SourcesKeepStep, PTL

(***************************************************************************)
(* validate --locked is clean only of what a command has written as a whole,  *)
(* and notices every change since then to a file of the closure, and every    *)
(* configuration file added or taken away, whatever commands run meanwhile.   *)
(***************************************************************************)
THEOREM LockedMeansUnchanged == CommandsSpec => []DriftIsNoticed
<1>1. CInv => DriftIsNoticed
  <2> SUFFICES ASSUME CInv, NEW p \in Commands, Kind(p) = "locked", proc[p].verdict = "clean"
               PROVE  /\ \E w \in written : w.payload = proc[p].recorded
                      /\ edits = proc[p].began =>
                            \A w \in written :
                                w.quiet /\ w.payload = proc[p].recorded =>
                                    /\ \A f \in Range(ConfigFiles) : SameFile(w.disk, disk, f)
                                    /\ \A f \in Named(Config(p), FileFields) :
                                          SameFile(w.disk, disk, f)
    BY DEF DriftIsNoticed
  <2>1. Recorded(proc[p], Kind(p)) /\ Unchanged(proc[p], Kind(p))
    BY DEF CInv, Followed
  <2> QED
    BY <2>1 DEF Recorded, Unchanged, Config
<1> QED
  BY <1>1, CommandsInvariance, PTL

(***************************************************************************)
(* A child process of an MCP source is started only on the word of             *)
(* --trust-sources and with its sources in a lock, and outlives only a run     *)
(* that was killed or that raised.                                            *)
(***************************************************************************)
THEOREM NoChildUnrecorded == CommandsSpec => []ChildrenAreAccountedFor
<1>1. CInv => ChildrenAreAccountedFor
  BY DEF CInv, Cared, ChildrenAreAccountedFor
<1> QED
  BY <1>1, CommandsInvariance, PTL

-----------------------------------------------------------------------------
(***************************************************************************)
(* What the merge makes of the files.                                       *)
(***************************************************************************)
IsMapping(fields) == fields = [x \in DOMAIN fields |-> fields[x]]

(* What load_project keeps of the mapping of a file, and of all of them.      *)
Shaped(config) == \A k \in DOMAIN config :
                     /\ {"block", "resources"} \subseteq DOMAIN config[k]
                     /\ \A n \in DOMAIN config[k].resources : IsMapping(config[k].resources[n])

(* Of several entries with one name there is a last one.                      *)
LEMMA LatestIsOne ==
    ASSUME NEW s, IsList(s), NEW n \in DOMAIN Latest(s)
    PROVE  \E i \in DOMAIN s : Latest(s)[n] = s[i]
<1> DEFINE P(i) == s[i].name = n /\ \A j \in DOMAIN s : s[j].name = n => j <= i
<1>1. Len(s) \in Nat /\ DOMAIN s = 1 .. Len(s)
  BY DEF IsList
<1>2. Latest(s)[n] = s[CHOOSE i \in DOMAIN s : P(i)] /\ \E i \in DOMAIN s : s[i].name = n
  BY DEF Latest
<1> DEFINE T == {m \in 0 .. Len(s) : \E i \in DOMAIN s : s[i].name = n /\ m = Len(s) - i}
<1>3. T \subseteq Nat /\ T # {}
  <2>1. PICK i \in DOMAIN s : s[i].name = n
    BY <1>2
  <2>2. Len(s) - i \in 0 .. Len(s)
    BY <1>1
  <2> QED
    BY <1>1, <2>1, <2>2
<1>4. PICK m \in T : \A o \in T : m <= o
  <2> HIDE DEF T
  <2> QED
    BY <1>3, LeastElement
<1>5. PICK i \in DOMAIN s : s[i].name = n /\ m = Len(s) - i
  BY <1>4
<1>6. ASSUME NEW j \in DOMAIN s, s[j].name = n PROVE j <= i
  <2>1. Len(s) - j \in 0 .. Len(s)
    BY <1>1
  <2>2. Len(s) - j \in T
    BY <1>6, <2>1
  <2>3. Len(s) - i <= Len(s) - j
    BY <1>4, <1>5, <2>2
  <2> QED
    BY <1>1, <2>3
<1>7. P(i)
  BY <1>5, <1>6
<1> HIDE DEF P
<1>8. (CHOOSE j \in DOMAIN s : P(j)) \in DOMAIN s
  BY <1>7
<1> QED
  BY <1>2, <1>8

(* A file that parses as a mapping has mappings for its entries.             *)
LEMMA LoadedIsShaped ==
    ASSUME NEW content, IsContent(content)
    PROVE  Shaped(Loaded(content))
<1> DEFINE top == Latest(content.entries)
           loaded == Loaded(content)
<1>1. /\ DOMAIN loaded = DOMAIN top
      /\ \A k \in DOMAIN top :
            loaded[k] = [block |-> top[k].block,
                         resources |-> [n \in DOMAIN Latest(top[k].of) |->
                                           Latest(top[k].of)[n].fields]]
  BY DEF Loaded
<1>2. ASSUME NEW k \in DOMAIN top, NEW n \in DOMAIN Latest(top[k].of)
      PROVE  IsMapping(Latest(top[k].of)[n].fields)
  <2>1. PICK i \in DOMAIN content.entries : top[k] = content.entries[i]
    BY LatestIsOne DEF IsContent
  <2>2. PICK j \in DOMAIN top[k].of : Latest(top[k].of)[n] = top[k].of[j]
    BY <2>1, LatestIsOne DEF IsContent
  <2> DEFINE of == content.entries[i].of
  <2>3. \A h \in DOMAIN of : IsMapping(of[h].fields)
    BY DEF IsContent, IsMapping
  <2>4. top[k].of = of
    BY <2>1
  <2> HIDE DEF top, of
  <2>5. IsMapping(top[k].of[j].fields)
    BY <2>3, <2>4
  <2> QED
    BY <2>2, <2>5
<1> HIDE DEF top, loaded
<1>3. Shaped(loaded)
  <2> SUFFICES ASSUME NEW k \in DOMAIN top
               PROVE  /\ {"block", "resources"} \subseteq DOMAIN loaded[k]
                      /\ \A n \in DOMAIN loaded[k].resources : IsMapping(loaded[k].resources[n])
    BY <1>1 DEF Shaped
  <2> DEFINE of == Latest(top[k].of)
             resources == [n \in DOMAIN of |-> of[n].fields]
  <2>1. loaded[k] = [block |-> top[k].block, resources |-> resources]
    BY <1>1
  <2>2. \A n \in DOMAIN resources : IsMapping(resources[n])
    BY <1>2
  <2> HIDE DEF resources
  <2> QED
    BY <2>1, <2>2
<1> QED
  BY <1>3 DEF loaded

(* What is at a path.                                                        *)
LEMMA PathsAre ==
    ASSUME NEW config
    PROVE  \A path : path \in Paths(config) <=>
               \E k \in DOMAIN config : \E n \in DOMAIN config[k].resources : path = <<k, n>>
  BY DEF Paths

At(config, path) == config[path[1]].resources[path[2]]

(* Files whose blocks are blocks.                                            *)
Blocked(config) == \A k \in DOMAIN config : k \in Blocks => config[k].block

(* A merged entry is one of the two, or has the resources of both.           *)
LEMMA MergedEntries ==
    ASSUME NEW M, NEW L, Shaped(M), Shaped(L), NEW k \in DOMAIN M \cap DOMAIN L
    PROVE  LET entry == MergedEntry(M, L, k)
           IN  /\ {"block", "resources"} \subseteq DOMAIN entry /\ entry.block = M[k].block
               /\ entry.resources = IF IsBlock(L, k) /\ M[k].block
                                    THEN Joined(M[k].resources, L[k].resources) ELSE M[k].resources
  BY DEF MergedEntry, Shaped

(* So has what is merged of two of them.                                     *)
LEMMA MergedIsShaped ==
    ASSUME NEW M, NEW L, Shaped(M), Shaped(L)
    PROVE  Shaped([k \in DOMAIN M \cup DOMAIN L |-> MergedEntry(M, L, k)])
<1> SUFFICES ASSUME NEW k \in DOMAIN M \cup DOMAIN L
             PROVE  LET entry == MergedEntry(M, L, k)
                    IN  /\ {"block", "resources"} \subseteq DOMAIN entry
                        /\ \A n \in DOMAIN entry.resources : IsMapping(entry.resources[n])
  BY DEF Shaped
<1>1. CASE k \in DOMAIN M \cap DOMAIN L
  <2> DEFINE entry == MergedEntry(M, L, k)
             both == Joined(M[k].resources, L[k].resources)
  <2>1. /\ {"block", "resources"} \subseteq DOMAIN entry
        /\ entry.resources = both \/ entry.resources = M[k].resources
    BY <1>1, MergedEntries
  <2>2. \A n \in DOMAIN M[k].resources : IsMapping(M[k].resources[n])
    BY <1>1 DEF Shaped
  <2>3. \A n \in DOMAIN L[k].resources : IsMapping(L[k].resources[n])
    BY <1>1 DEF Shaped
  <2>4. \A n \in DOMAIN both : \/ n \in DOMAIN M[k].resources /\ both[n] = M[k].resources[n]
                               \/ n \in DOMAIN L[k].resources /\ both[n] = L[k].resources[n]
    <3> DEFINE f == M[k].resources
               g == L[k].resources
    <3>1. both = Joined(f, g)
      OBVIOUS
    <3> HIDE DEF f, g, both
    <3>2. /\ DOMAIN both = DOMAIN f \cup DOMAIN g
          /\ \A x \in DOMAIN f : both[x] = f[x]
          /\ \A x \in DOMAIN g : x \in DOMAIN f \/ both[x] = g[x]
      BY <3>1 DEF Joined
    <3>3. \A n \in DOMAIN both : \/ n \in DOMAIN f /\ both[n] = f[n]
                                 \/ n \in DOMAIN g /\ both[n] = g[n]
      BY <3>2
    <3> QED
      BY <3>3 DEF f, g
  <2> HIDE DEF entry, both
  <2>5. \A n \in DOMAIN entry.resources : IsMapping(entry.resources[n])
    BY <2>1, <2>2, <2>3, <2>4
  <2> QED
    BY <2>1, <2>5 DEF entry
<1>2. CASE k \notin DOMAIN L
  BY <1>2 DEF MergedEntry, Shaped
<1>3. CASE k \notin DOMAIN M
  BY <1>3 DEF MergedEntry, Shaped
<1> QED
  BY <1>1, <1>2, <1>3

(***************************************************************************)
(* A merge that reports nothing, of blocks that are blocks, has every entry   *)
(* of both, and neither has an entry of the other.                           *)
(***************************************************************************)
LEMMA MergedHasBoth ==
    ASSUME NEW M, NEW L, Shaped(M), Shaped(L), MergeCodes(M, L) = {},
           NEW N, N = [k \in DOMAIN M \cup DOMAIN L |-> MergedEntry(M, L, k)], Blocked(N)
    PROVE  /\ Blocked(M)
           /\ \A k \in DOMAIN M \cap DOMAIN L : IsBlock(L, k)
           /\ Paths(N) = Paths(M) \cup Paths(L) /\ Paths(M) \cap Paths(L) = {}
           /\ \A path \in Paths(M) : At(N, path) = At(M, path)
           /\ \A path \in Paths(L) : At(N, path) = At(L, path)
<1>1. ASSUME NEW k \in DOMAIN M \cap DOMAIN L
      PROVE  IsBlock(L, k) /\ (M[k].block => Clashing(M, L, k) = {})
  <2>1. {k1 \in DOMAIN M \cap DOMAIN L : ~ IsBlock(L, k1)} = {}
    BY DEF MergeCodes
  <2>2. {k1 \in DOMAIN M \cap DOMAIN L : /\ IsBlock(L, k1) /\ M[k1].block
                                         /\ Clashing(M, L, k1) # {}} = {}
    BY DEF MergeCodes
  <2> QED
    BY <2>1, <2>2
<1>2. DOMAIN N = DOMAIN M \cup DOMAIN L /\ \A k \in DOMAIN N : N[k] = MergedEntry(M, L, k)
  OBVIOUS
<1>3. ASSUME NEW k \in DOMAIN M, k \notin DOMAIN L PROVE N[k] = M[k]
  BY <1>2, <1>3 DEF MergedEntry
<1>4. ASSUME NEW k \in DOMAIN L, k \notin DOMAIN M PROVE N[k] = L[k]
  BY <1>2, <1>4 DEF MergedEntry
<1>5. ASSUME NEW k \in DOMAIN M \cap DOMAIN L
      PROVE  /\ N[k].block = M[k].block
             /\ M[k].block => N[k].resources = Joined(M[k].resources, L[k].resources)
  BY <1>1, <1>2, <1>5, MergedEntries
<1>6. Blocked(M)
  BY <1>2, <1>3, <1>5 DEF Blocked
<1>7. ASSUME NEW k \in DOMAIN M \cap DOMAIN L
      PROVE  /\ DOMAIN N[k].resources = DOMAIN M[k].resources \cup DOMAIN L[k].resources
             /\ DOMAIN M[k].resources \cap DOMAIN L[k].resources = {}
             /\ \A n \in DOMAIN M[k].resources : N[k].resources[n] = M[k].resources[n]
             /\ \A n \in DOMAIN L[k].resources : N[k].resources[n] = L[k].resources[n]
  <2>1. M[k].block
    BY <1>1, <1>6 DEF Blocked, IsBlock
  <2>2. DOMAIN M[k].resources \cap DOMAIN L[k].resources = {}
    BY <1>1, <2>1 DEF Clashing
  <2>3. N[k].resources = Joined(M[k].resources, L[k].resources)
    BY <1>5, <2>1
  <2> QED
    <3> DEFINE f == M[k].resources
               g == L[k].resources
               h == N[k].resources
    <3>1. h = Joined(f, g) /\ DOMAIN f \cap DOMAIN g = {}
      BY <2>2, <2>3
    <3> HIDE DEF f, g, h
    <3>2. /\ DOMAIN h = DOMAIN f \cup DOMAIN g
          /\ \A x \in DOMAIN f : h[x] = f[x]
          /\ \A x \in DOMAIN g : x \in DOMAIN f \/ h[x] = g[x]
      BY <3>1 DEF Joined
    <3>3. \A x \in DOMAIN g : h[x] = g[x]
      BY <3>1, <3>2
    <3> QED
      BY <3>1, <3>2, <3>3 DEF f, g, h
<1>8. ASSUME NEW k \in DOMAIN M, NEW n \in DOMAIN M[k].resources
      PROVE  n \in DOMAIN N[k].resources /\ N[k].resources[n] = M[k].resources[n]
  BY <1>3, <1>7
<1>9. ASSUME NEW k \in DOMAIN L, NEW n \in DOMAIN L[k].resources
       PROVE  n \in DOMAIN N[k].resources /\ N[k].resources[n] = L[k].resources[n]
  BY <1>4, <1>7
<1>10. ASSUME NEW k \in DOMAIN N, NEW n \in DOMAIN N[k].resources
       PROVE  \/ k \in DOMAIN M /\ n \in DOMAIN M[k].resources
              \/ k \in DOMAIN L /\ n \in DOMAIN L[k].resources
  BY <1>2, <1>3, <1>4, <1>7
<1>11. Paths(N) = Paths(M) \cup Paths(L)
  <2>1. \A path : path \in Paths(M) => path \in Paths(N)
    BY <1>2, <1>8, PathsAre
  <2>2. \A path : path \in Paths(L) => path \in Paths(N)
    BY <1>2, <1>9, PathsAre
  <2>3. ASSUME NEW path, path \in Paths(N) PROVE path \in Paths(M) \cup Paths(L)
    <3>1. PICK k \in DOMAIN N : \E n \in DOMAIN N[k].resources : path = <<k, n>>
      BY <2>3, PathsAre
    <3>2. PICK n \in DOMAIN N[k].resources : path = <<k, n>>
      BY <3>1
    <3> QED
      BY <1>10, <3>2, PathsAre
  <2> QED
    BY <2>1, <2>2, <2>3
<1>12. Paths(M) \cap Paths(L) = {}
  <2> SUFFICES ASSUME NEW path, path \in Paths(M), path \in Paths(L) PROVE FALSE
    OBVIOUS
  <2>1. PICK k \in DOMAIN M : \E n \in DOMAIN M[k].resources : path = <<k, n>>
    BY PathsAre
  <2>2. PICK n \in DOMAIN M[k].resources : path = <<k, n>>
    BY <2>1
  <2>3. k \in DOMAIN L /\ n \in DOMAIN L[k].resources
    BY <2>2, PathsAre
  <2> QED
    BY <1>7, <2>3
<1>13. \A path \in Paths(M) : At(N, path) = At(M, path)
  <2> SUFFICES ASSUME NEW path \in Paths(M) PROVE At(N, path) = At(M, path)
    OBVIOUS
  <2>1. PICK k \in DOMAIN M : \E n \in DOMAIN M[k].resources : path = <<k, n>>
    BY PathsAre
  <2>2. PICK n \in DOMAIN M[k].resources : path = <<k, n>>
    BY <2>1
  <2> QED
    BY <1>8, <2>2 DEF At
<1>14. \A path \in Paths(L) : At(N, path) = At(L, path)
  <2> SUFFICES ASSUME NEW path \in Paths(L) PROVE At(N, path) = At(L, path)
    OBVIOUS
  <2>1. PICK k \in DOMAIN L : \E n \in DOMAIN L[k].resources : path = <<k, n>>
    BY PathsAre
  <2>2. PICK n \in DOMAIN L[k].resources : path = <<k, n>>
    BY <2>1
  <2> QED
    BY <1>9, <2>2 DEF At
<1> QED
  BY <1>1, <1>6, <1>11, <1>12, <1>13, <1>14

-----------------------------------------------------------------------------
(* What a file is in the configuration.                                      *)
Contributed(content) == IF content.root = "mapping" THEN Loaded(content) ELSE Empty

(* The document has what the files have, and knows of each entry whose it is. *)
Tells(doc, seen) ==
    /\ Paths(doc.merged) = UNION {Paths(Contributed(seen[f])) : f \in DOMAIN seen}
    /\ DOMAIN doc.owners = Paths(doc.merged)
    /\ \A f \in DOMAIN seen : \A path \in Paths(Contributed(seen[f])) :
          doc.owners[path] = f /\ At(doc.merged, path) = At(Contributed(seen[f]), path)

IsDocument(doc) == {"merged", "owners", "codes"} \subseteq DOMAIN doc /\ Shaped(doc.merged)

(* A document without a finding tells, once its blocks are known to be blocks. *)
TellsIfSound(doc, seen) == doc.codes = {} /\ Blocked(doc.merged) => Tells(doc, seen)

(* load_project has the files of todo before it, each once.                   *)
Reading(r) ==
    r.at = "load" => /\ IsDocument(r.doc) /\ TellsIfSound(r.doc, r.seen)
                     /\ IsInjective(r.todo) /\ Range(r.todo) \cap DOMAIN r.seen = {}

(* The configuration is the document, resolved.                              *)
Resolves(config, merged, given) ==
    /\ Paths(config) = Paths(merged)
    /\ \A path \in Paths(merged) :
          At(config, path) = [x \in DOMAIN At(merged, path) |->
                                 Resolved(merged, given, At(merged, path)[x])]

Told(r, given) ==
    r.config # Empty => Tells(r.doc, r.seen) /\ Resolves(r.config, r.doc.merged, given)

DInv == /\ \A f \in Range(Files) : IsContent(disk[f])
        /\ \A p \in Commands : Reading(proc[p]) /\ Told(proc[p], command[p].given)

-----------------------------------------------------------------------------
(* The configuration without entries.                                        *)
LEMMA NothingHasNoPaths == Paths(Empty) = {} /\ Shaped(Empty)
  BY DEF Paths, Empty, Shaped

(* A file without entries adds nothing.                                      *)
LEMMA NothingTells ==
    ASSUME NEW doc, NEW seen, Tells(doc, seen), NEW f, f \notin DOMAIN seen, NEW content,
           Contributed(content) = Empty
    PROVE  Tells(doc, Holding(seen, f, content))
<1> DEFINE more == Holding(seen, f, content)
<1>1. /\ DOMAIN more = DOMAIN seen \cup {f} /\ more[f] = content
      /\ \A g \in DOMAIN seen : more[g] = seen[g]
  BY DEF Holding, Joined
<1>2. Paths(Contributed(content)) = {}
  BY NothingHasNoPaths
<1> HIDE DEF more
<1>3. UNION {Paths(Contributed(more[g])) : g \in DOMAIN more}
        = UNION {Paths(Contributed(seen[g])) : g \in DOMAIN seen}
  BY <1>1, <1>2
<1>4. \A g \in DOMAIN more : \A path \in Paths(Contributed(more[g])) :
          doc.owners[path] = g /\ At(doc.merged, path) = At(Contributed(more[g]), path)
  BY <1>1, <1>2 DEF Tells
<1>5. Tells(doc, more)
  BY <1>3, <1>4 DEF Tells
<1> QED
  BY <1>5 DEF more

(* A file that is merged without a finding has its own entries.              *)
LEMMA MergeTells ==
    ASSUME NEW doc, NEW seen, IsDocument(doc), TellsIfSound(doc, seen),
           NEW f, f \notin DOMAIN seen, NEW content, IsContent(content), content.root = "mapping",
           NEW n, n = Merge(doc, f, Loaded(content))
    PROVE  IsDocument(n) /\ TellsIfSound(n, Holding(seen, f, content))
<1> DEFINE M == doc.merged
           L == Loaded(content)
           N == n.merged
           more == Holding(seen, f, content)
           rejected == {k \in DOMAIN M \cap DOMAIN L : ~ IsBlock(L, k)}
           own == [path \in {q \in Paths(L) : q[1] \notin rejected} |-> f]
<1>1. /\ {"merged", "owners", "codes"} \subseteq DOMAIN n
      /\ N = [k \in DOMAIN M \cup DOMAIN L |-> MergedEntry(M, L, k)]
      /\ n.owners = Joined(doc.owners, own) /\ n.codes = doc.codes \cup MergeCodes(M, L)
  BY DEF Merge
<1>2. Shaped(M) /\ Shaped(L)
  BY LoadedIsShaped DEF IsDocument
<1>3. Contributed(content) = L
  BY DEF Contributed
<1>4. /\ DOMAIN more = DOMAIN seen \cup {f} /\ more[f] = content
      /\ \A g \in DOMAIN seen : more[g] = seen[g]
  BY DEF Holding, Joined
<1> HIDE DEF L, N, M, more
<1>5. Shaped(N)
  BY <1>1, <1>2, MergedIsShaped
<1>6. ASSUME n.codes = {}, Blocked(N) PROVE Tells(n, more)
  <2>1. /\ MergeCodes(M, L) = {} /\ doc.codes = {} /\ Shaped(M) /\ Shaped(L) /\ Blocked(N)
        /\ N = [k \in DOMAIN M \cup DOMAIN L |-> MergedEntry(M, L, k)]
    BY <1>1, <1>2, <1>6
  <2>2. /\ Blocked(M)
        /\ \A k \in DOMAIN M \cap DOMAIN L : IsBlock(L, k)
        /\ Paths(N) = Paths(M) \cup Paths(L) /\ Paths(M) \cap Paths(L) = {}
        /\ \A path \in Paths(M) : At(N, path) = At(M, path)
        /\ \A path \in Paths(L) : At(N, path) = At(L, path)
    BY <2>1, MergedHasBoth
  <2>3. Tells(doc, seen)
    BY <2>1, <2>2 DEF TellsIfSound, M
  <2>4. rejected = {}
    BY <2>2
  <2>5. DOMAIN own = Paths(L) /\ \A path \in Paths(L) : own[path] = f
    BY <2>4
  <2>6. DOMAIN doc.owners = Paths(M)
    BY <2>3 DEF Tells, M
  <2> HIDE DEF own, rejected
  <2>7. DOMAIN n.owners = Paths(N)
    BY <1>1, <2>2, <2>5, <2>6 DEF Joined
  <2>8. \A path \in Paths(M) : n.owners[path] = doc.owners[path]
    BY <1>1, <2>6 DEF Joined
  <2>9. \A path \in Paths(L) : n.owners[path] = f
    BY <1>1, <2>2, <2>5, <2>6 DEF Joined
  <2>10. Paths(M) = UNION {Paths(Contributed(seen[g])) : g \in DOMAIN seen}
    BY <2>3 DEF Tells, M
  <2>11. Paths(N) = UNION {Paths(Contributed(more[g])) : g \in DOMAIN more}
    BY <1>3, <1>4, <2>2, <2>10
  <2>12. ASSUME NEW g \in DOMAIN more, NEW path \in Paths(Contributed(more[g]))
         PROVE  n.owners[path] = g /\ At(N, path) = At(Contributed(more[g]), path)
    <3>1. CASE g = f
      BY <1>3, <1>4, <2>2, <2>9, <2>12, <3>1
    <3>2. CASE g # f
      <4>1. g \in DOMAIN seen /\ more[g] = seen[g]
        BY <1>4, <3>2
      <4>2. path \in Paths(M)
        BY <2>10, <2>12, <4>1
      <4>3. doc.owners[path] = g /\ At(M, path) = At(Contributed(seen[g]), path)
        BY <2>3, <2>12, <4>1 DEF Tells, M
      <4> QED
        BY <2>2, <2>8, <4>1, <4>2, <4>3
    <3> QED
      BY <3>1, <3>2
  <2> QED
    BY <2>7, <2>11, <2>12 DEF Tells, N
<1> QED
  BY <1>1, <1>5, <1>6 DEF IsDocument, TellsIfSound, N, more

(* One turn of the loop of load_project.                                     *)
LEMMA AddedTells ==
    ASSUME NEW doc, NEW seen, IsDocument(doc), TellsIfSound(doc, seen),
           NEW f, f \notin DOMAIN seen, NEW content, IsContent(content)
    PROVE  LET n == Added(doc, f, content)
           IN  IsDocument(n) /\ TellsIfSound(n, Holding(seen, f, content))
<1> DEFINE more == Holding(seen, f, content)
<1>1. ASSUME NEW codes, NEW n, n = [doc EXCEPT !.codes = @ \cup codes]
      PROVE  /\ IsDocument(n) /\ n.merged = doc.merged /\ n.owners = doc.owners
             /\ n.codes = doc.codes \cup codes
  BY <1>1 DEF IsDocument
<1>2. ASSUME NEW codes, codes # {}
      PROVE  LET n == [doc EXCEPT !.codes = @ \cup codes]
             IN  IsDocument(n) /\ TellsIfSound(n, more)
  <2> DEFINE n == [doc EXCEPT !.codes = @ \cup codes]
  <2>1. IsDocument(n) /\ n.codes = doc.codes \cup codes
    BY <1>1
  <2> HIDE DEF n
  <2>2. IsDocument(n) /\ TellsIfSound(n, more)
    BY <1>2, <2>1 DEF TellsIfSound
  <2> QED
    BY <2>2 DEF n
<1>3. CASE ~ content.parses
  BY <1>2, <1>3 DEF Added
<1>4. CASE content.parses /\ content.root = "nothing"
  <2>1. Added(doc, f, content) = doc
    BY <1>4 DEF Added
  <2>2. Contributed(content) = Empty
    BY <1>4 DEF Contributed
  <2>3. TellsIfSound(doc, more)
    BY <2>2, NothingTells DEF TellsIfSound
  <2> QED
    BY <2>1, <2>3
<1>5. CASE content.parses /\ content.root \notin {"nothing", "mapping"}
  <2> DEFINE codes == Marks(content) \cup {"LLMF005"}
  <2>1. Added(doc, f, content) = [doc EXCEPT !.codes = @ \cup codes]
    <3>1. \A S : (S \cup Marks(content)) \cup {"LLMF005"} = S \cup codes
      OBVIOUS
    <3> QED
      BY <1>5, <3>1 DEF Added
  <2>2. codes # {}
    OBVIOUS
  <2> HIDE DEF codes
  <2> QED
    BY <1>2, <2>1, <2>2
<1>6. CASE content.parses /\ content.root = "mapping"
  <2> DEFINE marked == [doc EXCEPT !.codes = @ \cup Marks(content)]
  <2>1. Added(doc, f, content) = Merge(marked, f, Loaded(content))
    BY <1>6 DEF Added
  <2>2. /\ IsDocument(marked) /\ marked.merged = doc.merged /\ marked.owners = doc.owners
        /\ marked.codes = doc.codes \cup Marks(content)
    BY <1>1
  <2> HIDE DEF marked
  <2>3. TellsIfSound(marked, seen)
    BY <2>2 DEF TellsIfSound, Tells
  <2> QED
    BY <1>6, <2>1, <2>2, <2>3, MergeTells
<1> QED
  BY <1>3, <1>4, <1>5, <1>6

-----------------------------------------------------------------------------
(* Interpolations leave the entries where they are.                          *)
LEMMA ResolvedResolves ==
    ASSUME NEW M, Shaped(M), NEW given
    PROVE  Resolves(Resolve(M, given), M, given) /\ (Blocked(Resolve(M, given)) => Blocked(M))
<1> DEFINE R == Resolve(M, given)
           InAll(k) == [n \in DOMAIN M[k].resources |->
                           [x \in DOMAIN M[k].resources[n] |->
                               Resolved(M, given, M[k].resources[n][x])]]
<1>1. DOMAIN R = DOMAIN M /\ \A k \in DOMAIN M : R[k] = [M[k] EXCEPT !.resources = InAll(k)]
  BY DEF Resolve
<1>2. ASSUME NEW k \in DOMAIN M PROVE {"block", "resources"} \subseteq DOMAIN M[k]
  BY DEF Shaped
<1> HIDE DEF R
<1>3. ASSUME NEW k \in DOMAIN M PROVE R[k].block = M[k].block /\ R[k].resources = InAll(k)
  BY <1>1, <1>2
<1>4. Blocked(R) => Blocked(M)
  BY <1>1, <1>3 DEF Blocked
<1>5. ASSUME NEW k \in DOMAIN M
      PROVE  /\ DOMAIN R[k].resources = DOMAIN M[k].resources
             /\ \A n \in DOMAIN M[k].resources :
                   R[k].resources[n] = [x \in DOMAIN M[k].resources[n] |->
                                           Resolved(M, given, M[k].resources[n][x])]
  BY <1>3
<1>6. Paths(R) = Paths(M)
  BY <1>1, <1>5 DEF Paths
<1>7. ASSUME NEW path \in Paths(M)
      PROVE  At(R, path) = [x \in DOMAIN At(M, path) |-> Resolved(M, given, At(M, path)[x])]
  <2>1. PICK k \in DOMAIN M : \E n \in DOMAIN M[k].resources : path = <<k, n>>
    BY PathsAre
  <2>2. PICK n \in DOMAIN M[k].resources : path = <<k, n>>
    BY <2>1
  <2>3. path[1] = k /\ path[2] = n
    BY <2>2
  <2> QED
    BY <1>5, <2>3 DEF At
<1> QED
  BY <1>4, <1>6, <1>7 DEF Resolves, R

(* Where nothing is to be resolved, the document is resolved.                 *)
LEMMA PlainResolves ==
    ASSUME NEW M, Shaped(M), ~ IsPending(M), NEW given
    PROVE  Resolves(M, M, given)
<1> SUFFICES ASSUME NEW path \in Paths(M)
             PROVE  At(M, path) = [x \in DOMAIN At(M, path) |-> Resolved(M, given, At(M, path)[x])]
  BY DEF Resolves
<1>1. PICK k \in DOMAIN M : \E n \in DOMAIN M[k].resources : path = <<k, n>>
  BY PathsAre
<1>2. PICK n \in DOMAIN M[k].resources : path = <<k, n>>
  BY <1>1
<1> DEFINE entry == M[k].resources[n]
<1>3. At(M, path) = entry
  <2>1. path[1] = k /\ path[2] = n
    BY <1>2
  <2> QED
    BY <2>1 DEF At
<1>4. entry = [x \in DOMAIN entry |-> entry[x]]
  BY DEF Shaped, IsMapping
<1>5. ASSUME NEW x \in DOMAIN entry PROVE Resolved(M, given, entry[x]) = entry[x]
  <2>1. entry[x] \in Fields(M)
    BY DEF Fields
  <2>2. entry[x][1] \notin {"env", "var", "secret"}
    BY <2>1 DEF IsPending, Pending
  <2> HIDE DEF entry
  <2> QED
    BY <2>2 DEF Resolved
<1> HIDE DEF entry
<1> QED
  BY <1>3, <1>4, <1>5

(* What the schema lets pass has blocks for blocks.                           *)
LEMMA SchemaBlocks ==
    ASSUME NEW config, SchemaFindings(config) = {}
    PROVE  Blocked(config)
<1>1. \A k \in DOMAIN config : FitsEntry(k, config[k])
  BY DEF SchemaFindings
<1> QED
  BY <1>1 DEF FitsEntry, Blocked

(* A configuration that a command goes on with is what the files say.         *)
LEMMA CheckTells ==
    ASSUME CInv, DInv, NEW p \in Commands, Check(p)
    PROVE  Told(proc'[p], command[p].given) /\ proc'[p].at # "load"
<1> DEFINE r == proc[p]
           merged == r.doc.merged
           given == command[p].given
           config == IF Kind(p) = "init" THEN merged ELSE Resolve(merged, given)
           accepted == /\ Findings(p) = {}
                       /\ IF Kind(p) = "init" THEN ~ IsPending(merged) ELSE Sound(config)
           n == proc'[p]
<1>1. Kept(r, Kind(p)) /\ proc = [q \in Commands |-> proc[q]] /\ Reading(r) /\ r.at = "load"
  BY DEF CInv, DInv, Followed, Check
<1>2. /\ {"at", "config", "doc", "seen", "todo", "writing", "verdict"} \subseteq DOMAIN r
      /\ r.config = Empty
  BY <1>1 DEF Kept, Typed
<1>3. CASE ~ accepted
  <2>1. n = [r EXCEPT !.at = "ended", !.verdict = "refused"]
    BY <1>1, <1>3 DEF Check, Ends
  <2>2. n.config = Empty /\ n.at = "ended"
    BY <1>2, <2>1
  <2> QED
    BY <2>2 DEF Told
<1>4. CASE accepted
  <2>1. n = [r EXCEPT !.at = After(p, config), !.config = config,
                      !.writing = Kind(p) \in {"lock", "init"},
                      !.todo = ClosureFiles(p, config),
                      !.verdict = IF Kind(p) = "validate" THEN "clean" ELSE ""]
    BY <1>1, <1>4 DEF Check
  <2>2. n.config = config /\ n.doc = r.doc /\ n.seen = r.seen /\ n.at = After(p, config)
    BY <1>2, <2>1
  <2>3. n.at # "load"
    <3>1. Kind(p) \in Kinds \ {"none"}
      BY <1>1 DEF Kept
    <3> QED
      BY <2>2, <3>1 DEF After, Kinds
  <2>4. r.doc.codes = {} /\ Shaped(merged)
    BY <1>1, <1>4 DEF Findings, ProjectFindings, LoadFindings, Reading, IsDocument
  <2>5. Blocked(merged) /\ Resolves(config, merged, given)
    <3>1. CASE Kind(p) = "init"
      <4>1. ~ IsPending(merged) /\ LoadFindings(r.doc) = {} /\ config = merged
        BY <1>4, <3>1 DEF Findings
      <4>2. SchemaFindings(merged) = {}
        BY <2>4, <4>1 DEF LoadFindings
      <4> QED
        BY <2>4, <4>1, <4>2, SchemaBlocks, PlainResolves
    <3>2. CASE Kind(p) # "init"
      <4>1. config = Resolve(merged, given)
        BY <3>2
      <4>2. ProjectFindings(r.doc, given) = {}
        BY <1>4, <3>2 DEF Findings
      <4>3. SchemaFindings(Resolve(merged, given)) = {}
        BY <4>2 DEF ProjectFindings
      <4>4. Blocked(Resolve(merged, given))
        BY <4>3, SchemaBlocks
      <4> QED
        BY <2>4, <4>1, <4>4, ResolvedResolves
    <3> QED
      BY <3>1, <3>2
  <2>6. Tells(r.doc, r.seen)
    BY <1>1, <2>4, <2>5 DEF Reading, TellsIfSound
  <2> HIDE DEF config, accepted
  <2> QED
    BY <2>2, <2>3, <2>5, <2>6 DEF Told
<1> QED
  BY <1>3, <1>4

(* The next file is added to the document.                                   *)
LEMMA LoadFileTells ==
    ASSUME CInv, DInv, NEW p \in Commands, LoadFile(p)
    PROVE  Reading(proc'[p]) /\ proc'[p].config = Empty
<1> DEFINE r == proc[p]
           n == proc'[p]
           f == Head(r.todo)
<1>1. Kept(r, Kind(p)) /\ proc = [q \in Commands |-> proc[q]] /\ Reading(r) /\ r.at = "load"
  BY DEF CInv, DInv, Followed, LoadFile
<1>2. /\ {"at", "config", "doc", "seen", "todo"} \subseteq DOMAIN r /\ r.config = Empty
      /\ r.todo \in Seq(Range(Files)) /\ r.todo # << >>
  BY <1>1 DEF Kept, Typed, LoadFile
<1>3. n = [r EXCEPT !.doc = Added(@, f, disk[f]), !.todo = Tail(@), !.seen = Holding(@, f, disk[f])]
  BY <1>1 DEF LoadFile
<1>4. /\ n.at = r.at /\ n.config = r.config /\ n.todo = Tail(r.todo)
      /\ n.doc = Added(r.doc, f, disk[f]) /\ n.seen = Holding(r.seen, f, disk[f])
  BY <1>2, <1>3
<1>5. /\ Range(r.todo) = {f} \cup Range(Tail(r.todo)) /\ f \in Range(Files)
      /\ IsInjective(Tail(r.todo)) /\ f \notin Range(Tail(r.todo))
  BY <1>1, <1>2, OneLess DEF Reading
<1>6. f \notin DOMAIN r.seen /\ IsContent(disk[f])
  BY <1>1, <1>5 DEF Reading, DInv
<1>7. IsDocument(n.doc) /\ TellsIfSound(n.doc, n.seen)
  BY <1>1, <1>4, <1>6, AddedTells DEF Reading
<1>8. DOMAIN n.seen = DOMAIN r.seen \cup {f}
  BY <1>4 DEF Holding, Joined
<1>9. Range(n.todo) \cap DOMAIN n.seen = {} /\ IsInjective(n.todo)
  BY <1>1, <1>4, <1>5, <1>8 DEF Reading
<1> QED
  BY <1>2, <1>4, <1>7, <1>9 DEF Reading

(* The first file is not read yet.                                           *)
LEMMA DiscoverTells ==
    ASSUME CInv, NEW p \in Commands, Discover(p), proc[p].at \in Before
    PROVE  Reading(proc'[p]) /\ proc'[p].config = Empty
<1> DEFINE r == proc[p]
           n == proc'[p]
<1>1. Kept(r, Kind(p)) /\ proc = [q \in Commands |-> proc[q]]
  BY DEF CInv, Followed
<1>2. /\ {"at", "config", "doc", "seen", "todo", "began", "verdict"} \subseteq DOMAIN r
      /\ r.config = Empty /\ r.seen = Empty /\ r.doc = NewDocument
  BY <1>1 DEF Kept, Typed
<1>3. CASE Discovered = << >>
  <2>1. n = [r EXCEPT !.at = "ended", !.verdict = "refused"]
    BY <1>1, <1>3 DEF Discover, Ends
  <2>2. n.config = Empty /\ n.at = "ended"
    BY <1>2, <2>1
  <2> QED
    BY <2>2 DEF Reading
<1>4. CASE Discovered # << >>
  <2>1. n = [r EXCEPT !.at = "load", !.todo = Discovered, !.began = edits]
    BY <1>1, <1>4 DEF Discover
  <2>2. n.config = Empty /\ n.todo = Discovered /\ n.seen = Empty /\ n.doc = NewDocument
    BY <1>2, <2>1
  <2>3. DOMAIN Empty = {}
    BY DEF Empty
  <2>4. /\ {"merged", "owners", "codes"} \subseteq DOMAIN NewDocument
        /\ NewDocument.merged = Empty /\ NewDocument.owners = Empty
    BY DEF NewDocument
  <2>5. IsDocument(n.doc)
    BY <2>2, <2>4, NothingHasNoPaths DEF IsDocument
  <2>6. Tells(n.doc, n.seen)
    BY <2>2, <2>3, <2>4, NothingHasNoPaths DEF Tells
  <2> QED
    BY <2>2, <2>3, <2>5, <2>6, DiscoveredArePresent DEF Reading, TellsIfSound
<1> QED
  BY <1>3, <1>4

(* No other step reads a file for the configuration, or changes it.          *)
Settled(p) == /\ proc'[p].doc = proc[p].doc /\ proc'[p].seen = proc[p].seen
              /\ proc'[p].config = proc[p].config /\ proc'[p].at # "load"

(* All the steps of a command, as far as its configuration goes.             *)
LEMMA StepIsTold ==
    ASSUME CInv, DInv, NEW p \in Commands, Step(p)
    PROVE  Reading(proc'[p]) /\ Told(proc'[p], command[p].given)
<1>1. /\ proc = [q \in Commands |-> proc[q]] /\ Kept(proc[p], Kind(p))
      /\ Told(proc[p], command[p].given)
  BY DEF CInv, DInv, Followed
<1>2. /\ {"at", "todo", "doc", "config", "recorded", "digests", "writing", "asked", "verdict",
           "seen", "began"} \subseteq DOMAIN proc[p]
      /\ proc[p].at \in Before => proc[p].config = Empty
  BY <1>1 DEF Kept, Typed
<1>3. ASSUME Settled(p) PROVE Reading(proc'[p]) /\ Told(proc'[p], command[p].given)
  BY <1>1, <1>3 DEF Settled, Reading, Told
<1>4. ASSUME Discover(p), proc[p].at \in Before
      PROVE  Reading(proc'[p]) /\ Told(proc'[p], command[p].given)
  BY <1>4, DiscoverTells DEF Told
<1>5. ASSUME NEW verdict, Ends(p, verdict) PROVE Settled(p)
  <2>1. proc'[p] = [proc[p] EXCEPT !.at = "ended", !.verdict = verdict]
    BY <1>1, <1>5 DEF Ends
  <2> QED
    BY <1>2, <2>1 DEF Settled
<1>6. ASSUME NEW at, at # "load", proc' = [proc EXCEPT ![p].at = at] PROVE Settled(p)
  <2>1. proc'[p] = [proc[p] EXCEPT !.at = at]
    BY <1>1, <1>6
  <2> QED
    BY <1>2, <1>6, <2>1 DEF Settled
<1>7. ASSUME NEW changed, Decide(p, changed) PROVE Settled(p)
  <2>1. CASE proc' = [proc EXCEPT ![p] = [Digesting(p) EXCEPT !.writing = TRUE]]
    <3>1. proc'[p] = [Digesting(p) EXCEPT !.writing = TRUE]
      BY <1>1, <2>1
    <3> QED
      BY <1>2, <3>1 DEF Settled, Digesting
  <2> QED
    BY <1>5, <1>6, <1>7, <2>1 DEF Decide
<1>8. ASSUME Unverified(p) PROVE Settled(p)
  BY <1>5, <1>7, <1>8 DEF Unverified
<1>9. ASSUME NEW at, at # "load", NEW s, proc' = [proc EXCEPT ![p].at = at, ![p].asked = s]
      PROVE  Settled(p)
  <2>1. proc'[p] = [proc[p] EXCEPT !.at = at, !.asked = s]
    BY <1>1, <1>9
  <2>2. at # "load"
    BY <1>9
  <2> QED
    BY <1>2, <2>1, <2>2 DEF Settled
<1>10. CASE Begin(p)
  <2>1. proc[p].at = "idle"
    BY <1>10 DEF Begin
  <2> QED
    BY <1>3, <1>4, <1>5, <1>6, <1>10, <2>1 DEF Begin, Before
<1>11. CASE Create(p)
  <2>1. PICK at \in {"createPrompt", "created"} : proc' = [proc EXCEPT ![p].at = at]
    BY <1>11 DEF Create
  <2> QED
    BY <1>3, <1>6, <2>1
<1>12. CASE LoadCreated(p)
  BY <1>4, <1>12 DEF LoadCreated, Before
<1>13. CASE LoadFile(p)
  BY <1>13, LoadFileTells DEF Told
<1>14. CASE Check(p)
  BY <1>14, CheckTells DEF Reading
<1>15. CASE ReadLock(p)
  <2>1. CASE proc' = [proc EXCEPT ![p] = [Digesting(p) EXCEPT !.recorded = lock.payload]]
    <3>1. proc'[p] = [Digesting(p) EXCEPT !.recorded = lock.payload]
      BY <1>1, <2>1
    <3>2. Settled(p)
      BY <1>2, <3>1 DEF Settled, Digesting
    <3> QED
      BY <1>3, <3>2
  <2> QED
    BY <1>3, <1>8, <1>15, <2>1 DEF ReadLock
<1>16. CASE DigestFile(p)
  <2>1. ASSUME NEW digests, NEW todo,
               proc' = [proc EXCEPT ![p].digests = digests, ![p].todo = todo],
               proc[p].at = "digest"
        PROVE  Settled(p)
    <3>1. proc'[p] = [proc[p] EXCEPT !.digests = digests, !.todo = todo]
      BY <1>1, <2>1
    <3>2. proc[p].at = "digest"
      BY <2>1
    <3> QED
      BY <1>2, <3>1, <3>2 DEF Settled
  <2>2. Settled(p)
    BY <1>5, <1>8, <1>16, <2>1 DEF DigestFile
  <2> QED
    BY <1>3, <2>2
<1>17. CASE Digested(p)
  BY <1>3, <1>5, <1>6, <1>7, <1>17 DEF Digested
<1>18. CASE OpenLock(p) \/ FillLock(p)
  BY <1>3, <1>5, <1>6, <1>18 DEF OpenLock, FillLock
<1>19. ASSUME NEW s, Launch(p, s) \/ Execute(p, s) PROVE Settled(p)
  <2>1. CASE proc' = proc /\ proc[p].at = "loop"
    BY <2>1 DEF Settled
  <2> QED
    BY <1>5, <1>9, <1>19, <2>1 DEF Launch, Execute
<1>20. CASE Launched(p) \/ Initialized(p) \/ Executed(p) \/ CloseAll(p) \/ Die(p)
  BY <1>3, <1>5, <1>6, <1>20 DEF Launched, Initialized, Executed, CloseAll, Die
<1> QED
  BY <1>3, <1>10, <1>11, <1>12, <1>13, <1>14, <1>15, <1>16, <1>17, <1>18, <1>19, <1>20 DEF Step

(* Files are written whole, with what they may hold.                         *)
LEMMA FilesStayFiles ==
    ASSUME CInv, DInv, CommandsNext
    PROVE  \A f \in Range(Files) : IsContent(disk'[f])
<1>1. disk = [f \in Range(Files) |-> disk[f]] /\ \A f \in Range(Files) : IsContent(disk[f])
  BY DEF CInv, DInv
<1>2. CASE disk' = disk
  BY <1>1, <1>2
<1>3. ASSUME NEW g, NEW content, IsContent(content), disk' = [disk EXCEPT ![g] = content]
      PROVE  \A f \in Range(Files) : IsContent(disk'[f])
  BY <1>1, <1>3
<1>4. ASSUME NEW e \in Edits, Edit(e) PROVE \A f \in Range(Files) : IsContent(disk'[f])
  <2>1. IsContent(e.content)
    BY CommandsAssumption
  <2> QED
    BY <1>3, <1>4, <2>1 DEF Edit
<1>5. ASSUME NEW p \in Commands, Step(p) PROVE \A f \in Range(Files) : IsContent(disk'[f])
  <2>1. CASE Create(p)
    <3>1. IsContent(InitContent) /\ IsContent(PromptContent)
      BY CommandsAssumption
    <3> QED
      BY <1>3, <2>1, <3>1 DEF Create
  <2>2. CASE ~ Create(p)
    <3>1. disk' = disk
      BY <1>5, <2>2 DEF Step, Begin, LoadCreated, LoadFile, Check, ReadLock, DigestFile, Digested,
         OpenLock, FillLock, Launch, Execute, Launched, Initialized, Executed, CloseAll, Die
    <3> QED
      BY <1>2, <3>1
  <2> QED
    BY <2>1, <2>2
<1>6. CASE ServerSteps
  BY <1>2, <1>6 DEF ServerSteps
<1> QED
  BY <1>4, <1>5, <1>6 DEF CommandsNext

(* The documents of all commands, at every step.                             *)
LEMMA DocumentsGoOn ==
    ASSUME CInv, DInv, [CommandsNext]_commandVars
    PROVE  DInv'
<1>1. ASSUME proc' = proc, command' = command, NEW p \in Commands
      PROVE  Reading(proc[p])' /\ Told(proc[p], command[p].given)'
  BY <1>1 DEF DInv, Reading, Told
<1>2. ASSUME NEW p \in Commands, Step(p), NEW q \in Commands
      PROVE  Reading(proc[q])' /\ Told(proc[q], command[q].given)'
  <2>1. Onward(p)
    BY <1>2, EveryStepIsOnward
  <2>2. CASE q = p
    BY <1>2, <2>1, <2>2, StepIsTold DEF Onward, Reading, Told
  <2>3. CASE q # p
    <3>1. proc'[q] = proc[q] /\ command' = command
      BY <2>1, <2>3 DEF Onward
    <3> QED
      BY <3>1 DEF DInv, Reading, Told
  <2> QED
    BY <2>2, <2>3
<1>3. CASE UNCHANGED commandVars
  BY <1>1, <1>3 DEF DInv, commandVars
<1>4. CASE CommandsNext
  <2>1. \A p \in Commands : Reading(proc[p])' /\ Told(proc[p], command[p].given)'
    BY <1>1, <1>2, <1>4 DEF CommandsNext, Edit, ServerSteps
  <2> QED
    BY <1>4, <2>1, FilesStayFiles DEF DInv
<1> QED
  BY <1>3, <1>4

(***************************************************************************)
(* Whatever the files say and whoever edits them meanwhile, a configuration   *)
(* that a command goes on with has every entry of every file that was read,   *)
(* once, with its position in that file, and nothing else.                   *)
(***************************************************************************)
THEOREM ConfigsAreDeclared == CommandsSpec => []ConfigIsDeclared
<1>1. CommandsInit => DInv
  <2> SUFFICES ASSUME CommandsInit, NEW p \in Commands
               PROVE  Reading(proc[p]) /\ Told(proc[p], command[p].given)
    BY DEF DInv, CommandsInit
  <2>1. proc[p].at = "idle" /\ proc[p].config = Empty
    BY DEF CommandsInit, NotBegun
  <2> QED
    BY <2>1 DEF Reading, Told
<1>2. CInv /\ DInv /\ [CommandsNext]_commandVars => DInv'
  BY DocumentsGoOn
<1>3. DInv => ConfigIsDeclared
  <2> SUFFICES ASSUME DInv, NEW p \in Commands, Config(p) # Empty
               PROVE  /\ Paths(Config(p)) = UNION {SeenPaths(p, f) : f \in DOMAIN proc[p].seen}
                      /\ \A f \in DOMAIN proc[p].seen : \A path \in SeenPaths(p, f) :
                            LET entry == Loaded(proc[p].seen[f])[path[1]].resources[path[2]]
                            IN  /\ proc[p].doc.owners[path] = f
                                /\ \A g \in DOMAIN proc[p].seen \ {f} : path \notin SeenPaths(p, g)
                                /\ Config(p)[path[1]].resources[path[2]] =
                                      [x \in DOMAIN entry |->
                                          Resolved(proc[p].doc.merged, command[p].given, entry[x])]
    BY DEF ConfigIsDeclared
  <2> DEFINE r == proc[p]
             merged == r.doc.merged
  <2>1. Tells(r.doc, r.seen) /\ Resolves(r.config, merged, command[p].given)
    BY DEF DInv, Told, Config
  <2>2. ASSUME NEW f PROVE SeenPaths(p, f) = Paths(Contributed(r.seen[f]))
    BY NothingHasNoPaths DEF SeenPaths, Contributed
  <2>3. Paths(Config(p)) = UNION {SeenPaths(p, f) : f \in DOMAIN r.seen}
    BY <2>1, <2>2 DEF Tells, Resolves, Config
  <2>4. ASSUME NEW f \in DOMAIN r.seen, NEW path \in SeenPaths(p, f)
        PROVE  LET entry == Loaded(r.seen[f])[path[1]].resources[path[2]]
               IN  /\ r.doc.owners[path] = f
                   /\ \A g \in DOMAIN r.seen \ {f} : path \notin SeenPaths(p, g)
                   /\ Config(p)[path[1]].resources[path[2]] =
                         [x \in DOMAIN entry |-> Resolved(merged, command[p].given, entry[x])]
    <3>1. Contributed(r.seen[f]) = Loaded(r.seen[f])
      BY <2>4 DEF SeenPaths, Contributed
    <3>2. /\ path \in Paths(merged) /\ r.doc.owners[path] = f
          /\ At(merged, path) = At(Loaded(r.seen[f]), path)
      BY <2>1, <2>2, <3>1 DEF Tells
    <3>3. \A g \in DOMAIN r.seen \ {f} : path \notin SeenPaths(p, g)
      BY <2>1, <2>2, <3>2 DEF Tells
    <3>4. At(r.config, path) = [x \in DOMAIN At(merged, path) |->
                                   Resolved(merged, command[p].given, At(merged, path)[x])]
      BY <2>1, <3>2 DEF Resolves
    <3> QED
      BY <3>2, <3>3, <3>4 DEF At, Config
  <2> QED
    BY <2>3, <2>4
<1> QED
  BY <1>1, <1>2, <1>3, CommandsInvariance, PTL DEF CommandsSpec
=============================================================================
