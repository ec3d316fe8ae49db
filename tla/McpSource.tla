----------------------------- MODULE McpSource -----------------------------
(***************************************************************************)
(* McpSource of llmform.sources.mcp: a child process that is asked over its   *)
(* stdin, one line per question, and whose next line on stdout is taken for   *)
(* the answer.  Nobody looks at the id in that line, and nobody waits for     *)
(* less than forever.                                                        *)
(*                                                                         *)
(* The server is the environment: it answers in any order, with a result or   *)
(* an error, writes lines that answer nothing (a notification, a log line     *)
(* that is no JSON) and may exit.                                            *)
(***************************************************************************)
EXTENDS Naturals, Sequences, FiniteSets

CONSTANTS
    Servers,    \* one for each child process that may be started
    MaxAsked,   \* bound on the questions to one server
    MaxStray    \* bound on the lines of one server that answer no question

ASSUME McpAssumption == MaxAsked \in Nat /\ MaxStray \in Nat

VARIABLE channel

(* A line answers a question or none (0); raises says that request raises on  *)
(* it: an error response, or no JSON.                                        *)
Line(of, raises) == [of |-> of, raises |-> raises]
Lines == [of : 0 .. MaxAsked, raises : BOOLEAN]

Channels == [child : {"none", "running", "exited", "killed"},
             ident : 0 .. MaxAsked,
             open : SUBSET (1 .. MaxAsked),     \* questions not yet answered
             lines : Seq(Lines),                \* written and not yet read
             waiting : BOOLEAN,                 \* in readline
             last : Lines,                      \* what the last request came to
             stray : Nat,                       \* history: stray lines written,
             heard : Nat]                       \* and those of them read

NoChannel == [child |-> "none", ident |-> 0, open |-> {}, lines |-> << >>, waiting |-> FALSE,
              last |-> Line(0, FALSE), stray |-> 0, heard |-> 0]

(* A server may have less to write than the bound.                           *)
McpInit == channel \in [Servers -> {[NoChannel EXCEPT !.stray = n] : n \in 0 .. MaxStray}]

Running(c) == channel[c].child = "running"

(* __init__ asks at once, with "initialize".                                 *)
Spawn(c) ==
    /\ channel[c].child = "none" /\ MaxAsked > 0
    /\ channel' = [channel EXCEPT ![c] = [@ EXCEPT !.child = "running", !.ident = 1,
                                                   !.open = {1}, !.waiting = TRUE]]

(* request, up to readline: the number is taken before the pipe breaks.       *)
Ask(c) ==
    /\ channel[c].child \in {"running", "exited"} /\ ~ channel[c].waiting
    /\ channel[c].ident < MaxAsked
    /\ LET ident == channel[c].ident + 1
       IN  channel' = IF Running(c)
                      THEN [channel EXCEPT ![c].ident = ident, ![c].open = @ \cup {ident},
                                           ![c].last = Line(0, FALSE), ![c].waiting = TRUE]
                      ELSE [channel EXCEPT ![c].ident = ident, ![c].last = Line(0, TRUE)]

(* Mutant: a line that raises is left for the next request. *)
TakeGood(lines) == IF Head(lines).raises THEN lines ELSE Tail(lines)

Take(lines) == Tail(lines)

Readable(c) == channel[c].waiting /\ channel[c].lines # << >>
Ended(c) == channel[c].waiting /\ channel[c].lines = << >> /\ channel[c].child # "running"

(* request, from readline on: a line, or the end of the file, which is no     *)
(* JSON either.                                                              *)
Read(c) ==
    \/ /\ Readable(c)
       /\ LET line == Head(channel[c].lines)
          IN  channel' = [channel EXCEPT
                             ![c].lines = Take(@), ![c].waiting = FALSE, ![c].last = line,
                             ![c].heard = IF line.of = 0 THEN @ + 1 ELSE @]
    \/ /\ Ended(c)
       /\ channel' = [channel EXCEPT ![c].waiting = FALSE, ![c].last = Line(0, TRUE)]

Raises(c) == IF Readable(c) THEN Head(channel[c].lines).raises ELSE TRUE

(* close of a source whose child is still running, called for all of a run.   *)
Killed(c) == IF Running(c) THEN [channel[c] EXCEPT !.child = "killed"] ELSE channel[c]

-----------------------------------------------------------------------------
(* The server. *)

Answer(c) ==
    \E k \in channel[c].open, raises \in BOOLEAN :
        /\ Running(c)
        /\ channel' = [channel EXCEPT ![c].open = @ \ {k}, ![c].lines = Append(@, Line(k, raises))]

Stray(c) ==
    \E raises \in BOOLEAN :
        /\ Running(c) /\ channel[c].stray < MaxStray
        /\ channel' = [channel EXCEPT ![c].stray = @ + 1, ![c].lines = Append(@, Line(0, raises))]

Exit(c) == Running(c) /\ channel' = [channel EXCEPT ![c].child = "exited"]

Serve == \E c \in Servers : Answer(c) \/ Stray(c) \/ Exit(c)

Close(C) == channel' = [c \in Servers |-> IF c \in C THEN Killed(c) ELSE channel[c]]

McpNext == \/ \E c \in Servers : Spawn(c) \/ Ask(c) \/ Read(c)
           \/ \E C \in SUBSET Servers : Close(C)
           \/ Serve

McpSpec == McpInit /\ [][McpNext]_channel

-----------------------------------------------------------------------------
Answers(c) == {channel[c].lines[i].of : i \in DOMAIN channel[c].lines} \ {0}

(* Questions whose answers have not been read.                               *)
Unread(c) == channel[c].open \cup Answers(c)

(***************************************************************************)
(* As long as a server runs, the source is behind by exactly the stray lines  *)
(* it has taken for answers: without any, every answer is to the question     *)
(* just asked, and an error response, a retry or a failed question does not   *)
(* put the source behind; after one, an answer stays unread for good, and     *)
(* goes to a later question.                                                 *)
(***************************************************************************)
AnswersFollowNoise ==
    \A c \in Servers :
        /\ Running(c) => Cardinality(Unread(c))
                            = channel[c].heard + (IF channel[c].waiting THEN 1 ELSE 0)
        /\ channel[c].heard = 0 /\ ~ channel[c].waiting => channel[c].last.of \in {0, channel[c].ident}
=============================================================================
