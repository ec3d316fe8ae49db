------------------------- MODULE TokenVault_proofs -------------------------
(***************************************************************************)
(* Proofs about TokenVault: what each party can come to know, for any number *)
(* of runs on one vault, any data, transforms, exceptions and restarts.      *)
(***************************************************************************)
EXTENDS TokenVault, SequenceTheorems, TLAPS

(* Tokens are numbered as they are minted, so no value that is about anywhere *)
(* is a token of the future.                                                 *)
Minted == 1 .. Len(ledger)
Current == Data \cup {Absent, Redacted} \cup Minted
Messages == [role : {"user", "assistant", "tool"}, content : Current, data : Current]
Entries == [run : Runs, plaintext : Current, origin : Origins]

TypeInv ==
    /\ config \in Configs
    /\ DOMAIN records = Runs /\ DOMAIN tokens = Runs
    /\ ledger \in Seq(Entries)
    /\ place \in [Runs -> Places]
    /\ transcript \in [Runs -> Seq(Messages)]
    /\ copy \in [Runs -> Seq(Messages)]
    /\ value \in [Runs -> Current]
    /\ provider \subseteq Current
    /\ quoted \subseteq Current
    /\ tool \in [Runs -> SUBSET Current]
    /\ caller \in [Runs -> SUBSET Current]
    /\ lost \in BOOLEAN

(* The two maps of a run are inverse to each other, and agree with the ledger. *)
Paired ==
    \A r \in Runs :
        /\ \A t \in DOMAIN records[r] :
              /\ t \in Minted /\ ledger[t].run = r
              /\ records[r][t] = [plaintext |-> ledger[t].plaintext, origin |-> ledger[t].origin]
              /\ Key(ledger[t].plaintext, ledger[t].origin) \in DOMAIN tokens[r]
              /\ tokens[r][Key(ledger[t].plaintext, ledger[t].origin)] = t
        /\ \A key \in DOMAIN tokens[r] :
              /\ tokens[r][key] \in DOMAIN records[r]
              /\ key = Key(ledger[tokens[r][key]].plaintext, ledger[tokens[r][key]].origin)

(* A run has the record of every token that was minted for it.                *)
HasAll(r) == \A t \in Minted : ledger[t].run = r => t \in DOMAIN records[r]

(* Only a restart or the end of a run takes records away.                     *)
Kept == ~ lost => \A r \in Runs : place[r] # "settled" => HasAll(r)

(* Of the data D, v is at most one that an error quoted.                      *)
Free(v, D) == v \in D => v \in quoted

(* What the provider put into a message or a payload, and what it is sent.    *)
Answered(D) == /\ \A r \in Runs : /\ Free(value[r], D)
                                  /\ \A k \in 1 .. Len(transcript[r]) : Free(transcript[r][k].data, D)
                                  /\ \A k \in 1 .. Len(copy[r]) : /\ Free(copy[r][k].data, D)
                                                                  /\ Free(copy[r][k].content, D)
               /\ \A v \in provider : Free(v, D)

(* With both entries hidden, data are in a transcript only as a user put them  *)
(* there.                                                                    *)
Screened ==
    EntryIsHidden =>
        /\ Answered(Data)
        /\ \A r \in Runs : \A k \in 1 .. Len(transcript[r]) :
              \/ transcript[r][k].role = "user" /\ ~ Hides("request")
              \/ Free(transcript[r][k].content, Data)
        /\ ~ config.detokenize => \A r \in Runs : \A v \in tool[r] : Free(v, Data)

(* With the results of tools hidden, their data are nowhere but with the tools *)
(* and behind tokens of that origin.                                         *)
Contained ==
    Hides("tool_result") =>
        /\ Answered(ToolData)
        /\ \A r \in Runs : \A k \in 1 .. Len(transcript[r]) : Free(transcript[r][k].content, ToolData)
        /\ \A r \in Runs : \A v \in caller[r] : Free(v, ToolData)
        /\ \A t \in Minted : ledger[t].origin = "request" => Free(ledger[t].plaintext, ToolData)

IInv == TypeInv /\ Paired /\ NoTokenOfAToken /\ Kept /\ Screened /\ Contained /\ HandlesAreRestored

-----------------------------------------------------------------------------
(* What the vault does.                                                       *)

(* The ledger only grows.                                                     *)
Extended == /\ ledger' \in Seq([run : Runs, plaintext : Current', origin : Origins])
            /\ Len(ledger) <= Len(ledger')
            /\ \A t \in Minted : ledger'[t] = ledger[t]

(* No value is a datum and a token at once.                                   *)
LEMMA DataAreNoTokens ==
    /\ Data \cap Minted = {} /\ Absent \notin Data /\ Redacted \notin Data
    /\ Absent \notin Minted /\ Redacted \notin Minted
    /\ UserData \subseteq Data /\ ToolData \subseteq Data
  BY DataAssumption DEF Data, Minted

(* What is about stays about as the ledger grows.                             *)
LEMMA Growing ==
    ASSUME TypeInv, Extended
    PROVE  /\ Minted \subseteq Minted' /\ Current \subseteq Current'
           /\ Seq(Messages) \subseteq Seq(Messages')
           /\ SUBSET Current \subseteq SUBSET Current'
  <1>1. Len(ledger) \in Nat /\ Len(ledger') \in Nat
    BY DEF TypeInv, Extended
  <1>2. Minted \subseteq Minted'
    BY <1>1 DEF Minted, Extended
  <1>3. Current \subseteq Current'
    BY <1>2 DEF Current
  <1>4. Messages \subseteq Messages'
    BY <1>3 DEF Messages
  <1>5. Seq(Messages) \subseteq Seq(Messages')
    BY <1>4, SeqMonotonic
  <1> QED BY <1>2, <1>3, <1>5

(* A ledger that is not written grows, too.                                   *)
LEMMA Standing ==
    ASSUME TypeInv, ledger' = ledger
    PROVE  Extended /\ Minted' = Minted /\ Current' = Current /\ Messages' = Messages
  BY DEF TypeInv, Extended, Entries, Minted, Current, Messages

(* What one mint changes.                                                     *)
Mints(r, v, origin) ==
    /\ v \notin DOMAIN records[r] /\ Key(v, origin) \notin DOMAIN tokens[r]
    /\ records' = [records EXCEPT ![r] =
                       Holding(@, Fresh, [plaintext |-> v, origin |-> origin])]
    /\ tokens' = [tokens EXCEPT ![r] = Holding(@, Key(v, origin), Fresh)]
    /\ ledger' = Append(ledger, [run |-> r, plaintext |-> v, origin |-> origin])

(* What a transform does to the vault: nothing, or a mint.                   *)
LEMMA Transforms ==
    ASSUME NEW hook, NEW r, NEW v, NEW origin, Transform(hook, r, v, origin)
    PROVE  UNCHANGED vault \/ Mints(r, v, origin)
  BY DEF Transform, Wraps, Put, Mints

(* The ledger after a mint.                                                   *)
LEMMA MintedLedger ==
    ASSUME TypeInv, NEW r \in Runs, NEW v \in Current, NEW origin \in Origins, Mints(r, v, origin)
    PROVE  /\ Extended /\ Fresh \in Nat /\ Minted' = Minted \cup {Fresh} /\ Fresh \notin Minted
           /\ Fresh \notin Current
           /\ ledger'[Fresh] = [run |-> r, plaintext |-> v, origin |-> origin]
  <1> DEFINE new == [run |-> r, plaintext |-> v, origin |-> origin]
             All == [run : Runs, plaintext : Current', origin : Origins]
  <1>1. Len(ledger) \in Nat /\ Fresh \in Nat /\ ledger' = Append(ledger, new)
    BY DEF TypeInv, Fresh, Mints
  <1>2. ledger \in Seq(Entries) /\ new \in Entries
    BY DEF TypeInv, Entries
  <1>3. /\ Len(ledger') = Len(ledger) + 1 /\ ledger' \in Seq(Entries)
        /\ \A t \in Minted : ledger'[t] = ledger[t]
        /\ ledger'[Fresh] = new
    BY <1>1, <1>2, AppendProperties DEF Minted, Fresh
  <1>4. Minted' = Minted \cup {Fresh} /\ Fresh \notin Minted
    BY <1>1, <1>3 DEF Minted, Fresh
  <1>5. Current \subseteq Current'
    BY <1>4 DEF Current
  <1>6. Entries \subseteq All
    BY <1>5 DEF Entries
  <1>7. ledger' \in Seq(All)
    BY <1>3, <1>6, SeqMonotonic
  <1>8. Fresh \notin Current
    BY <1>1, <1>4, DataAssumption DEF Current
  <1>9. Len(ledger) <= Len(ledger')
    BY <1>1, <1>3
  <1>10. Extended
    BY <1>3, <1>7, <1>9 DEF Extended
  <1> QED BY <1>1, <1>3, <1>4, <1>8, <1>10

(* The two maps after a mint.                                                 *)
LEMMA MintedVault ==
    ASSUME TypeInv, NEW r \in Runs, NEW v, NEW origin, Mints(r, v, origin)
    PROVE  /\ DOMAIN records' = Runs /\ DOMAIN tokens' = Runs
           /\ \A q \in Runs \ {r} : records'[q] = records[q] /\ tokens'[q] = tokens[q]
           /\ DOMAIN records'[r] = DOMAIN records[r] \cup {Fresh}
           /\ DOMAIN tokens'[r] = DOMAIN tokens[r] \cup {Key(v, origin)}
           /\ records'[r][Fresh] = [plaintext |-> v, origin |-> origin]
           /\ tokens'[r][Key(v, origin)] = Fresh
           /\ \A t \in DOMAIN records[r] \ {Fresh} : records'[r][t] = records[r][t]
           /\ \A key \in DOMAIN tokens[r] \ {Key(v, origin)} : tokens'[r][key] = tokens[r][key]
  <1>1. /\ DOMAIN records' = Runs /\ DOMAIN tokens' = Runs
        /\ \A q \in Runs \ {r} : records'[q] = records[q] /\ tokens'[q] = tokens[q]
        /\ records'[r] = Holding(records[r], Fresh, [plaintext |-> v, origin |-> origin])
        /\ tokens'[r] = Holding(tokens[r], Key(v, origin), Fresh)
    BY DEF TypeInv, Mints
  <1> QED BY <1>1 DEF Holding

(* A mint leaves the two maps paired.                                         *)
LEMMA MintedPaired ==
    ASSUME TypeInv, Paired, NEW r \in Runs, NEW v \in Current, NEW origin \in Origins,
           Mints(r, v, origin)
    PROVE  Paired'
  <1>1. /\ Extended /\ Fresh \in Nat /\ Minted' = Minted \cup {Fresh} /\ Fresh \notin Minted
        /\ ledger'[Fresh] = [run |-> r, plaintext |-> v, origin |-> origin]
    BY MintedLedger
  <1>2. \A t \in Minted : ledger'[t] = ledger[t]
    BY <1>1 DEF Extended
  <1>3. Key(v, origin) \notin DOMAIN tokens[r]
    BY DEF Mints
  <1> SUFFICES ASSUME NEW q \in Runs
               PROVE  /\ \A t \in DOMAIN records'[q] :
                            /\ t \in Minted' /\ ledger'[t].run = q
                            /\ records'[q][t] = [plaintext |-> ledger'[t].plaintext,
                                                 origin |-> ledger'[t].origin]
                            /\ Key(ledger'[t].plaintext, ledger'[t].origin) \in DOMAIN tokens'[q]
                            /\ tokens'[q][Key(ledger'[t].plaintext, ledger'[t].origin)] = t
                      /\ \A key \in DOMAIN tokens'[q] :
                            /\ tokens'[q][key] \in DOMAIN records'[q]
                            /\ key = Key(ledger'[tokens'[q][key]].plaintext,
                                         ledger'[tokens'[q][key]].origin)
    BY DEF Paired, Key
  <1>4. CASE q # r
    <2>0. \A s \in Runs \ {r} : records'[s] = records[s] /\ tokens'[s] = tokens[s]
      BY MintedVault
    <2>1. records'[q] = records[q] /\ tokens'[q] = tokens[q]
      BY <2>0, <1>4
    <2>2. \A t \in DOMAIN records[q] :
             /\ t \in Minted /\ ledger[t].run = q
             /\ records[q][t] = [plaintext |-> ledger[t].plaintext, origin |-> ledger[t].origin]
             /\ Key(ledger[t].plaintext, ledger[t].origin) \in DOMAIN tokens[q]
             /\ tokens[q][Key(ledger[t].plaintext, ledger[t].origin)] = t
      BY DEF Paired
    <2>3. \A key \in DOMAIN tokens[q] :
             /\ tokens[q][key] \in DOMAIN records[q]
             /\ key = Key(ledger[tokens[q][key]].plaintext, ledger[tokens[q][key]].origin)
      BY DEF Paired
    <2>4. \A t \in DOMAIN records[q] : t \in Minted' /\ ledger'[t] = ledger[t]
      BY <2>2, <1>1, <1>2
    <2> QED BY <2>1, <2>2, <2>3, <2>4
  <1>5. CASE q = r
    <2>1. /\ DOMAIN records'[r] = DOMAIN records[r] \cup {Fresh}
          /\ DOMAIN tokens'[r] = DOMAIN tokens[r] \cup {Key(v, origin)}
          /\ records'[r][Fresh] = [plaintext |-> v, origin |-> origin]
          /\ tokens'[r][Key(v, origin)] = Fresh
          /\ \A t \in DOMAIN records[r] \ {Fresh} : records'[r][t] = records[r][t]
          /\ \A key \in DOMAIN tokens[r] \ {Key(v, origin)} : tokens'[r][key] = tokens[r][key]
      BY MintedVault
    <2>2. ASSUME NEW t \in DOMAIN records[r]
          PROVE  /\ t \in Minted' /\ ledger'[t].run = r
                 /\ records'[r][t] = [plaintext |-> ledger'[t].plaintext,
                                      origin |-> ledger'[t].origin]
                 /\ Key(ledger'[t].plaintext, ledger'[t].origin) \in DOMAIN tokens'[r]
                 /\ tokens'[r][Key(ledger'[t].plaintext, ledger'[t].origin)] = t
      <3>1. /\ t \in Minted /\ ledger[t].run = r
            /\ records[r][t] = [plaintext |-> ledger[t].plaintext, origin |-> ledger[t].origin]
            /\ Key(ledger[t].plaintext, ledger[t].origin) \in DOMAIN tokens[r]
            /\ tokens[r][Key(ledger[t].plaintext, ledger[t].origin)] = t
        BY DEF Paired
      <3>2. ledger'[t] = ledger[t] /\ t # Fresh
        BY <3>1, <1>1, <1>2
      <3> QED BY <3>1, <3>2, <2>1, <1>1, <1>3
    <2>3. ASSUME NEW key \in DOMAIN tokens[r]
          PROVE  /\ tokens'[r][key] \in DOMAIN records'[r]
                 /\ key = Key(ledger'[tokens'[r][key]].plaintext, ledger'[tokens'[r][key]].origin)
      <3>1. /\ tokens[r][key] \in DOMAIN records[r]
            /\ key = Key(ledger[tokens[r][key]].plaintext, ledger[tokens[r][key]].origin)
            /\ tokens[r][key] \in Minted
        BY DEF Paired
      <3>2. tokens'[r][key] = tokens[r][key]
        BY <2>1, <1>3
      <3> QED BY <3>1, <3>2, <2>1, <1>2
    <2>4. ledger'[Fresh].run = r /\ ledger'[Fresh].plaintext = v /\ ledger'[Fresh].origin = origin
      BY <1>1
    <2> QED BY <2>1, <2>2, <2>3, <2>4, <1>1, <1>5
  <1> QED BY <1>4, <1>5

(* No token is put behind another: the plaintext is no token yet, and the new *)
(* token was nobody's plaintext.                                             *)
LEMMA MintedPlaintext ==
    ASSUME TypeInv, Paired, NoTokenOfAToken, NEW r \in Runs, NEW v \in Current,
           NEW origin \in Origins, Mints(r, v, origin)
    PROVE  NoTokenOfAToken'
  <1>1. /\ Fresh \notin Current /\ Fresh \notin Minted
        /\ ledger'[Fresh] = [run |-> r, plaintext |-> v, origin |-> origin]
    BY MintedLedger
  <1>2. v \notin DOMAIN records[r]
    BY DEF Mints
  <1> SUFFICES ASSUME NEW q \in Runs, NEW t \in DOMAIN records'[q]
               PROVE  records'[q][t].plaintext \notin DOMAIN records'[q]
    BY DEF NoTokenOfAToken
  <1>3. CASE q # r
    <2>1. \A s \in Runs \ {r} : records'[s] = records[s]
      BY MintedVault
    <2>2. records'[q] = records[q]
      BY <2>1, <1>3
    <2>3. records[q][t].plaintext \notin DOMAIN records[q]
      BY <2>2 DEF NoTokenOfAToken
    <2> QED BY <2>2, <2>3
  <1>4. CASE q = r
    <2>1. /\ DOMAIN records'[r] = DOMAIN records[r] \cup {Fresh}
          /\ records'[r][Fresh] = [plaintext |-> v, origin |-> origin]
          /\ \A u \in DOMAIN records[r] \ {Fresh} : records'[r][u] = records[r][u]
      BY MintedVault
    <2>2. CASE t = Fresh
      BY <2>1, <2>2, <1>1, <1>2, <1>4
    <2>3. CASE t # Fresh
      <3>1. t \in DOMAIN records[r] /\ records'[r][t] = records[r][t]
        BY <2>1, <2>3, <1>4
      <3>2. records[r][t].plaintext \notin DOMAIN records[r]
        BY <3>1 DEF NoTokenOfAToken
      <3>3. records[r][t].plaintext \in Current
        <4>1. t \in Minted /\ records[r][t].plaintext = ledger[t].plaintext
          <5>1. t \in Minted
            BY <3>1 DEF Paired
          <5>2. records[r][t] = [plaintext |-> ledger[t].plaintext, origin |-> ledger[t].origin]
            BY <3>1 DEF Paired
          <5> QED BY <5>1, <5>2
        <4>2. ledger[t] \in Entries
          BY <4>1, ElementOfSeq DEF TypeInv, Minted
        <4> QED BY <4>1, <4>2 DEF Entries
      <3> QED BY <3>1, <3>2, <3>3, <2>1, <1>1, <1>4
    <2> QED BY <2>2, <2>3
  <1> QED BY <1>3, <1>4

(* Taking records away disturbs nothing that is left.                         *)
LEMMA Purging ==
    ASSUME TypeInv, Paired, NoTokenOfAToken, NEW S \in SUBSET Runs, ledger' = ledger,
           DOMAIN records' = Runs, DOMAIN tokens' = Runs,
           \A q \in S : records'[q] = Nothing /\ tokens'[q] = Nothing,
           \A q \in Runs \ S : records'[q] = records[q] /\ tokens'[q] = tokens[q]
    PROVE  /\ Paired' /\ NoTokenOfAToken'
           /\ \A q \in Runs \ S : HasAll(q) => HasAll(q)'
  <1>1. Minted' = Minted
    BY Standing
  <1>2. \A q \in S : DOMAIN records'[q] = {} /\ DOMAIN tokens'[q] = {}
    BY DEF Nothing
  <1>3. NoTokenOfAToken'
    BY <1>2 DEF NoTokenOfAToken
  <1>4. Paired'
    <2>1. \A q \in Runs : \A t \in DOMAIN records'[q] :
             /\ t \in Minted' /\ ledger'[t].run = q
             /\ records'[q][t] = [plaintext |-> ledger'[t].plaintext,
                                  origin |-> ledger'[t].origin]
             /\ Key(ledger'[t].plaintext, ledger'[t].origin) \in DOMAIN tokens'[q]
             /\ tokens'[q][Key(ledger'[t].plaintext, ledger'[t].origin)] = t
      <3> TAKE q \in Runs
      <3> TAKE t \in DOMAIN records'[q]
      <3>1. q \notin S
        BY <1>2
      <3>2. records'[q] = records[q] /\ tokens'[q] = tokens[q]
        BY <3>1
      <3>3. /\ t \in Minted /\ ledger[t].run = q
            /\ records[q][t] = [plaintext |-> ledger[t].plaintext, origin |-> ledger[t].origin]
            /\ Key(ledger[t].plaintext, ledger[t].origin) \in DOMAIN tokens[q]
            /\ tokens[q][Key(ledger[t].plaintext, ledger[t].origin)] = t
        BY <3>2 DEF Paired
      <3> QED BY <1>1, <3>2, <3>3
    <2>2. \A q \in Runs : \A key \in DOMAIN tokens'[q] :
             /\ tokens'[q][key] \in DOMAIN records'[q]
             /\ key = Key(ledger'[tokens'[q][key]].plaintext, ledger'[tokens'[q][key]].origin)
      <3> TAKE q \in Runs
      <3> TAKE key \in DOMAIN tokens'[q]
      <3>1. q \notin S
        BY <1>2
      <3>2. records'[q] = records[q] /\ tokens'[q] = tokens[q]
        BY <3>1
      <3>3. /\ tokens[q][key] \in DOMAIN records[q]
            /\ key = Key(ledger[tokens[q][key]].plaintext, ledger[tokens[q][key]].origin)
        BY <3>2 DEF Paired
      <3> QED BY <3>2, <3>3
    <2> QED BY <2>1, <2>2 DEF Paired, Key
  <1>5. \A q \in Runs \ S : HasAll(q) => HasAll(q)'
    BY <1>1 DEF HasAll
  <1> QED BY <1>3, <1>4, <1>5

(* What every transform leaves: a sound vault that forgets nothing.           *)
LEMMA Transforming ==
    ASSUME TypeInv, Paired, NoTokenOfAToken, NEW hook, NEW r \in Runs, NEW v \in Current,
           NEW origin \in Origins, Transform(hook, r, v, origin)
    PROVE  /\ Extended /\ DOMAIN records' = Runs /\ DOMAIN tokens' = Runs
           /\ Paired' /\ NoTokenOfAToken'
           /\ \A q \in Runs : HasAll(q) => HasAll(q)'
           /\ \A t \in Minted' :
                 \/ t \in Minted /\ ledger'[t] = ledger[t]
                 \/ t \notin Current /\ ledger'[t] = [run |-> r, plaintext |-> v, origin |-> origin]
  <1>1. CASE UNCHANGED vault
    <2>1. ledger' = ledger /\ records' = records /\ tokens' = tokens
      BY <1>1 DEF vault
    <2>2. Extended /\ Minted' = Minted
      BY <2>1, Standing
    <2>3. DOMAIN records' = Runs /\ DOMAIN tokens' = Runs
      BY <2>1 DEF TypeInv
    <2>4. Paired' /\ NoTokenOfAToken'
      <3>1. /\ {} \in SUBSET Runs /\ \A q \in {} : records'[q] = Nothing /\ tokens'[q] = Nothing
            /\ \A q \in Runs \ {} : records'[q] = records[q] /\ tokens'[q] = tokens[q]
        BY <2>1
      <3> QED BY <2>1, <2>3, <3>1, Purging
    <2>5. \A q \in Runs : HasAll(q) => HasAll(q)'
      BY <2>1, <2>2 DEF HasAll
    <2>6. \A t \in Minted' : t \in Minted /\ ledger'[t] = ledger[t]
      BY <2>1, <2>2
    <2> QED BY <2>2, <2>3, <2>4, <2>5, <2>6
  <1>2. CASE Mints(r, v, origin)
    <2>1. /\ Extended /\ Minted' = Minted \cup {Fresh} /\ Fresh \notin Current
          /\ ledger'[Fresh] = [run |-> r, plaintext |-> v, origin |-> origin]
      BY <1>2, MintedLedger
    <2>2. \A t \in Minted : ledger'[t] = ledger[t]
      BY <2>1 DEF Extended
    <2>3. Paired' /\ NoTokenOfAToken'
      BY <1>2, MintedPaired, MintedPlaintext
    <2>4. ASSUME NEW q \in Runs, HasAll(q), NEW t \in Minted', ledger'[t].run = q
          PROVE  t \in DOMAIN records'[q]
      <3>1. CASE t = Fresh
        <4>1. q = r
          BY <2>1, <2>4, <3>1
        <4> QED BY <1>2, <3>1, <4>1, MintedVault
      <3>2. CASE t # Fresh
        <4>1. t \in Minted /\ ledger[t].run = q
          BY <2>1, <2>2, <2>4, <3>2
        <4>2. t \in DOMAIN records[q]
          BY <2>4, <4>1 DEF HasAll
        <4>3. DOMAIN records[q] \subseteq DOMAIN records'[q]
          BY <1>2, MintedVault
        <4> QED BY <4>2, <4>3
      <3> QED BY <3>1, <3>2
    <2>5. \A q \in Runs : HasAll(q) => HasAll(q)'
      BY <2>4 DEF HasAll
    <2>6. DOMAIN records' = Runs /\ DOMAIN tokens' = Runs
      BY <1>2, MintedVault
    <2> QED BY <2>1, <2>2, <2>3, <2>5, <2>6
  <1> QED BY <1>1, <1>2, Transforms

(* What a transform shows of a datum is the datum only where nothing hides it. *)
LEMMA Showing ==
    ASSUME TypeInv, Paired, NEW hook \in Hooks, NEW r \in Runs, NEW v \in Current,
           NEW origin \in Origins, Transform(hook, r, v, origin)
    PROVE  /\ Shown(hook, r, v, origin) \in Current'
           /\ Shown(hook, r, v, origin) \in Data =>
                 Shown(hook, r, v, origin) = v /\ ~ Hides(hook)
  <1> DEFINE kind == config.kinds[hook]
  <1>1. kind \in Kinds
    BY ConfigsAssumption DEF TypeInv
  <1>2. Extended
    <2>1. CASE UNCHANGED vault
      BY <2>1, Standing DEF vault
    <2>2. CASE Mints(r, v, origin)
      BY <2>2, MintedLedger
    <2> QED BY <2>1, <2>2, Transforms
  <1>3. Current \subseteq Current' /\ Minted \subseteq Minted'
    BY <1>2, Growing
  <1>4. \A t \in DOMAIN records[r] : t \in Minted
    BY DEF Paired
  <1>5. CASE kind = "redact"
    <2>1. Shown(hook, r, v, origin) = Redacted
      BY <1>5 DEF Shown
    <2> QED BY <2>1, DataAreNoTokens DEF Current
  <1>6. CASE kind # "redact" /\ ~ Wraps(kind, r, v)
    <2>1. Shown(hook, r, v, origin) = v
      BY <1>6 DEF Shown
    <2>2. v \in Data => ~ Hides(hook)
      BY <1>1, <1>4, <1>6, DataAreNoTokens DEF Wraps, Hides, Kinds
    <2> QED BY <2>1, <2>2, <1>3
  <1>7. CASE Wraps(kind, r, v)
    <2>1. Shown(hook, r, v, origin) = Handle(r, v, origin)
      BY <1>7 DEF Shown, Wraps
    <2>2. Handle(r, v, origin) \in Minted'
      <3>1. CASE Key(v, origin) \in DOMAIN tokens[r]
        <4>1. Handle(r, v, origin) = tokens[r][Key(v, origin)]
          BY <3>1 DEF Handle
        <4>2. tokens[r][Key(v, origin)] \in DOMAIN records[r]
          BY <3>1 DEF Paired
        <4> QED BY <4>1, <4>2, <1>3, <1>4
      <3>2. CASE Key(v, origin) \notin DOMAIN tokens[r]
        <4>1. Handle(r, v, origin) = Fresh
          BY <3>2 DEF Handle
        <4>2. Mints(r, v, origin)
          BY <3>2, <1>7 DEF Transform, Put, Mints, Wraps
        <4> QED BY <4>1, <4>2, MintedLedger
      <3> QED BY <3>1, <3>2
    <2>3. Data \cap Minted' = {}
      BY DataAssumption, <1>2 DEF Minted, Data, Extended
    <2> QED BY <2>1, <2>2, <2>3 DEF Current
  <1> QED BY <1>5, <1>6, <1>7

-----------------------------------------------------------------------------
(* What is about, and what a step does to the vault.                          *)

(* All that a run holds is a datum or a token that was minted.               *)
LEMMA MessagesAreAbout ==
    ASSUME TypeInv, NEW r \in Runs
    PROVE  /\ \A k \in 1 .. Len(transcript[r]) :
                 /\ transcript[r][k] \in Messages /\ OriginOf(transcript[r][k]) \in Origins
                 /\ transcript[r][k].content \in Current /\ transcript[r][k].data \in Current
           /\ \A k \in 1 .. Len(copy[r]) :
                 copy[r][k].content \in Current /\ copy[r][k].data \in Current
           /\ Len(transcript[r]) \in Nat /\ Len(copy[r]) \in Nat
           /\ Range(copy[r]) = {copy[r][k] : k \in 1 .. Len(copy[r])}
  <1>1. transcript[r] \in Seq(Messages) /\ copy[r] \in Seq(Messages)
    BY DEF TypeInv
  <1>2. /\ \A k \in 1 .. Len(transcript[r]) : transcript[r][k] \in Messages
        /\ \A k \in 1 .. Len(copy[r]) : copy[r][k] \in Messages
    BY <1>1, ElementOfSeq
  <1>3. \A k \in 1 .. Len(transcript[r]) : OriginOf(transcript[r][k]) \in Origins
    BY DEF OriginOf, Origins
  <1>4. Len(transcript[r]) \in Nat /\ Len(copy[r]) \in Nat
    BY <1>1, LenProperties
  <1>5. Range(copy[r]) = {copy[r][k] : k \in 1 .. Len(copy[r])}
    BY <1>1, RangeEquality
  <1> QED BY <1>2, <1>3, <1>4, <1>5 DEF Messages

(* What can be sent or answered.                                              *)
LEMMA SentIsAbout ==
    ASSUME TypeInv, NEW r \in Runs
    PROVE  /\ Sent(r) \subseteq Current
           /\ \A v \in Sent(r) : \E k \in 1 .. Len(copy[r]) :
                 v = copy[r][k].content \/ v = copy[r][k].data
  <1>1. ASSUME NEW v \in Sent(r)
        PROVE  \E k \in 1 .. Len(copy[r]) : v = copy[r][k].content \/ v = copy[r][k].data
    <2>1. PICK m \in Range(copy[r]) : v = m.content \/ v = m.data
      BY DEF Sent
    <2>2. \E k \in 1 .. Len(copy[r]) : m = copy[r][k]
      <3>1. m \in {copy[r][k] : k \in 1 .. Len(copy[r])}
        BY <2>1, MessagesAreAbout
      <3> QED BY <3>1
    <2> QED BY <2>1, <2>2
  <1>2. ASSUME NEW v \in Sent(r)
        PROVE  v \in Current
    <2>1. PICK k \in 1 .. Len(copy[r]) : v = copy[r][k].content \/ v = copy[r][k].data
      BY <1>1
    <2> QED BY <2>1, MessagesAreAbout
  <1> QED BY <1>1, <1>2

(* What a caller or a source can bring.                                       *)
LEMMA InputsAreAbout ==
    ASSUME TypeInv
    PROVE  /\ \A v \in UserData \cup UNION {caller[q] : q \in Runs} :
                 v \in Current /\ (v \in UserData \/ \E q \in Runs : v \in caller[q])
           /\ Known \subseteq Current
  BY DEF TypeInv, Known, Current, Data

(* What a step may do to the vault: nothing, transform a value, or forget.    *)
Untouched == UNCHANGED vault
Transformed == \E hook \in Hooks, r \in Runs, v \in Current, origin \in Origins :
                  Transform(hook, r, v, origin)
Forgotten == \/ \E r \in Runs : Purge(r) /\ place' = [place EXCEPT ![r] = "settled"]
             \/ Restart

(* A step leaves the vault alone, mints, or forgets the records of a run.    *)
LEMMA VaultMoves ==
    ASSUME TypeInv, [Next]_vars
    PROVE  \/ /\ Untouched \/ Transformed
              /\ lost' = lost /\ \A r \in Runs : place[r] = "settled" => place'[r] = "settled"
           \/ Forgotten /\ (lost => lost')
  <1> DEFINE Quiet == /\ Untouched \/ Transformed
                      /\ lost' = lost
                      /\ \A r \in Runs : place[r] = "settled" => place'[r] = "settled"
  <1> USE DEF trouble
  <1>1. ASSUME NEW r \in Runs, NEW v \in UserData \cup UNION {caller[q] : q \in Runs}, Start(r, v)
        PROVE  Quiet
    <2>1. Transform("request", r, v, "request") /\ v \in Current
      BY <1>1, InputsAreAbout DEF Start
    <2>2. Transformed
      BY <2>1 DEF Transformed, Hooks, Origins
    <2> QED BY <1>1, <2>2 DEF Start, TypeInv
  <1>2. ASSUME NEW r \in Runs, Step(r) \/ Retry(r) \/ Raise(r)
        PROVE  Quiet
    BY <1>2 DEF Step, Retry, Raise, TypeInv, Untouched, InCall
  <1>3. ASSUME NEW r \in Runs, Prepare(r)
        PROVE  Quiet
    <2> DEFINE m == transcript[r][Len(copy[r]) + 1]
    <2>1. Len(copy[r]) + 1 \in 1 .. Len(transcript[r])
      BY <1>3, MessagesAreAbout DEF Prepare
    <2>2. m.content \in Current /\ OriginOf(m) \in Origins
      BY <2>1, MessagesAreAbout
    <2>3. Transform("model_call", r, m.content, OriginOf(m))
      BY <1>3 DEF Prepare
    <2>4. Transformed
      BY <2>2, <2>3 DEF Transformed, Hooks
    <2> QED BY <1>3, <2>4 DEF Prepare
  <1>4. ASSUME NEW r \in Runs, NEW v \in provider \cup Sent(r), NEW where \in {"called", "drafted"},
               Complete(r, v, where)
        PROVE  Quiet
    BY <1>4 DEF Complete, TypeInv, Untouched
  <1>5. ASSUME NEW r \in Runs, Execute(r)
        PROVE  Quiet
    <2>1. Transform("tool_call", r, value[r], "tool_result") /\ value[r] \in Current
      BY <1>5 DEF Execute, TypeInv
    <2>2. Transformed
      BY <2>1 DEF Transformed, Hooks, Origins
    <2> QED BY <1>5, <2>2 DEF Execute, TypeInv
  <1>6. ASSUME NEW r \in Runs, NEW v \in Known, Result(r, v)
        PROVE  Quiet
    <2>1. Transform("tool_result", r, v, "tool_result") /\ v \in Current
      BY <1>6, InputsAreAbout DEF Result
    <2>2. Transformed
      BY <2>1 DEF Transformed, Hooks, Origins
    <2> QED BY <1>6, <2>2 DEF Result, Admit, TypeInv
  <1>7. ASSUME NEW r \in Runs, NEW v \in Known, GiveUp(r, v)
        PROVE  Quiet
    BY <1>7 DEF GiveUp, Admit, TypeInv, Untouched
  <1>8. ASSUME NEW r \in Runs, Draft(r)
        PROVE  Quiet
    <2>1. Transform("response", r, value[r], "tool_result") /\ value[r] \in Current
      BY <1>8 DEF Draft, TypeInv
    <2>2. Transformed
      BY <2>1 DEF Transformed, Hooks, Origins
    <2> QED BY <1>8, <2>2 DEF Draft, TypeInv
  <1>9. ASSUME NEW r \in Runs, Respond(r) \/ Stop(r)
        PROVE  Forgotten /\ (lost => lost')
    BY <1>9 DEF Respond, Stop, Settle, Forgotten
  <1>10. CASE Restart
    BY <1>10 DEF Restart, Forgotten
  <1>11. CASE AllSettled \/ UNCHANGED vars
    BY <1>11 DEF AllSettled, vars, Untouched
  <1> QED BY <1>1, <1>2, <1>3, <1>4, <1>5, <1>6, <1>7, <1>8, <1>9, <1>10, <1>11 DEF Next

(* The vault stays sound, and forgets only as runs end or the process does.   *)
LEMMA VaultStep ==
    ASSUME TypeInv, Paired, NoTokenOfAToken, Kept, [Next]_vars
    PROVE  /\ Extended /\ DOMAIN records' = Runs /\ DOMAIN tokens' = Runs
           /\ Paired' /\ NoTokenOfAToken' /\ Kept'
  <1>1. CASE /\ Untouched \/ Transformed
             /\ lost' = lost
             /\ \A r \in Runs : place[r] = "settled" => place'[r] = "settled"
    <2>1. /\ Extended /\ DOMAIN records' = Runs /\ DOMAIN tokens' = Runs
          /\ Paired' /\ NoTokenOfAToken'
          /\ \A q \in Runs : HasAll(q) => HasAll(q)'
      <3>1. CASE Untouched
        <4>1. records' = records /\ tokens' = tokens /\ ledger' = ledger
          BY <3>1 DEF Untouched, vault
        <4>2. /\ {} \in SUBSET Runs /\ \A q \in {} : records'[q] = Nothing /\ tokens'[q] = Nothing
              /\ \A q \in Runs \ {} : records'[q] = records[q] /\ tokens'[q] = tokens[q]
          BY <4>1
        <4>3. DOMAIN records' = Runs /\ DOMAIN tokens' = Runs
          BY <4>1 DEF TypeInv
        <4>4. Paired' /\ NoTokenOfAToken' /\ \A q \in Runs \ {} : HasAll(q) => HasAll(q)'
          BY <4>1, <4>2, <4>3, Purging
        <4> QED BY <4>1, <4>3, <4>4, Standing
      <3>2. CASE Transformed
        BY <3>2, Transforming DEF Transformed
      <3> QED BY <1>1, <3>1, <3>2
    <2>2. ASSUME ~ lost', NEW r \in Runs, place'[r] # "settled"
          PROVE  HasAll(r)'
      <3>1. ~ lost /\ place[r] # "settled"
        BY <1>1, <2>2
      <3> QED BY <2>1, <3>1 DEF Kept
    <2>3. Kept'
      BY <2>2 DEF Kept
    <2> QED BY <2>1, <2>3
  <1>2. ASSUME NEW r \in Runs, Purge(r), place' = [place EXCEPT ![r] = "settled"], lost => lost'
        PROVE  /\ Extended /\ DOMAIN records' = Runs /\ DOMAIN tokens' = Runs
               /\ Paired' /\ NoTokenOfAToken' /\ Kept'
    <2>1. /\ ledger' = ledger /\ DOMAIN records' = Runs /\ DOMAIN tokens' = Runs
          /\ \A q \in {r} : records'[q] = Nothing /\ tokens'[q] = Nothing
          /\ \A q \in Runs \ {r} : records'[q] = records[q] /\ tokens'[q] = tokens[q]
          /\ {r} \in SUBSET Runs
      BY <1>2 DEF Purge, TypeInv
    <2>2. Paired' /\ NoTokenOfAToken' /\ \A q \in Runs \ {r} : HasAll(q) => HasAll(q)'
      BY <2>1, Purging
    <2>3. place'[r] = "settled" /\ \A q \in Runs \ {r} : place'[q] = place[q]
      BY <1>2 DEF TypeInv
    <2>4. Kept'
      BY <1>2, <2>2, <2>3 DEF Kept
    <2> QED BY <2>1, <2>2, <2>4, Standing
  <1>3. CASE Restart
    <2>1. /\ ledger' = ledger /\ DOMAIN records' = Runs /\ DOMAIN tokens' = Runs
          /\ \A q \in Runs : records'[q] = Nothing /\ tokens'[q] = Nothing
          /\ \A q \in Runs \ Runs : records'[q] = records[q] /\ tokens'[q] = tokens[q]
          /\ Runs \in SUBSET Runs /\ lost'
      BY <1>3 DEF Restart
    <2>2. Paired' /\ NoTokenOfAToken'
      BY <2>1, Purging
    <2> QED BY <2>1, <2>2, Standing DEF Kept
  <1> QED BY <1>1, <1>2, <1>3, VaultMoves DEF Forgotten

(* A record of a run stands for a value that is about.                        *)
LEMMA RecordsAreAbout ==
    ASSUME TypeInv, Paired, NEW r \in Runs, NEW t \in DOMAIN records[r]
    PROVE  /\ t \in Minted /\ ledger[t] \in Entries /\ ledger[t].run = r
           /\ records[r][t].plaintext = ledger[t].plaintext
           /\ records[r][t].origin = ledger[t].origin
           /\ records[r][t].plaintext \in Current
  <1>1. t \in Minted /\ ledger[t].run = r
    BY DEF Paired
  <1>2. records[r][t] = [plaintext |-> ledger[t].plaintext, origin |-> ledger[t].origin]
    BY DEF Paired
  <1>3. ledger[t] \in Entries
    BY <1>1, ElementOfSeq DEF TypeInv, Minted
  <1> QED BY <1>1, <1>2, <1>3 DEF Entries

(* The same in the next state of a step that leaves a sound vault.            *)
LEMMA RecordsStayAbout ==
    ASSUME Extended, Paired', NEW r \in Runs, NEW t \in DOMAIN records'[r]
    PROVE  /\ t \in Minted' /\ ledger'[t].run = r
           /\ records'[r][t].plaintext = ledger'[t].plaintext
           /\ records'[r][t].plaintext \in Current'
  <1>1. t \in Minted' /\ ledger'[t].run = r
    BY DEF Paired
  <1>2. records'[r][t] = [plaintext |-> ledger'[t].plaintext, origin |-> ledger'[t].origin]
    BY DEF Paired
  <1>3. ledger'[t] \in [run : Runs, plaintext : Current', origin : Origins]
    BY <1>1, ElementOfSeq DEF Extended, Minted
  <1> QED BY <1>1, <1>2, <1>3

(* What a tool is given: its argument, or what no token of its run stands for. *)
LEMMA GivenValues ==
    ASSUME Extended, Paired', NoTokenOfAToken', NEW r \in Runs, NEW s \in Current'
    PROVE  /\ Given(r, s) \in Current'
           /\ ~ config.detokenize => Given(r, s) = s
           /\ config.detokenize => Given(r, s) \notin DOMAIN records'[r]
  <1>1. CASE s \in DOMAIN records'[r]
    <2>1. records'[r][s].plaintext \in Current' /\ records'[r][s].plaintext \notin DOMAIN records'[r]
      BY <1>1, RecordsStayAbout DEF NoTokenOfAToken
    <2> QED BY <1>1, <2>1 DEF Given, Restored, Restorable
  <1>2. CASE s \notin DOMAIN records'[r]
    BY <1>2 DEF Given, Restored
  <1> QED BY <1>1, <1>2

(* What a caller is given: the plaintext of a token of requests, or the answer *)
(* itself.                                                                    *)
LEMMA ReleasedValues ==
    ASSUME TypeInv, Paired, NEW r \in Runs
    PROVE  /\ Released(r) \in Current
           /\ \/ /\ Released(r) = value[r]
                 /\ value[r] \in DOMAIN records[r] =>
                       value[r] \in Minted /\ ledger[value[r]].origin # "request"
              \/ /\ value[r] \in DOMAIN records[r] /\ value[r] \in Minted
                 /\ Released(r) = records[r][value[r]].plaintext
                 /\ Released(r) = ledger[value[r]].plaintext
                 /\ ledger[value[r]].origin = "request"
  <1>1. value[r] \in Current
    BY DEF TypeInv
  <1>2. CASE value[r] \in DOMAIN records[r]
    BY <1>1, <1>2, RecordsAreAbout DEF Released, Restorable
  <1>3. CASE value[r] \notin DOMAIN records[r]
    BY <1>1, <1>3 DEF Released
  <1> QED BY <1>2, <1>3

-----------------------------------------------------------------------------
(* The types of what is not in the vault.                                     *)
LEMMA TypeStep ==
    ASSUME TypeInv, Paired, NoTokenOfAToken, Kept, [Next]_vars
    PROVE  TypeInv'
  <1> USE DEF parties, trouble
  <1> DEFINE Flows == /\ transcript' \in [Runs -> Seq(Messages')]
                      /\ copy' \in [Runs -> Seq(Messages')]
                      /\ value' \in [Runs -> Current']
                      /\ provider' \subseteq Current' /\ quoted' \subseteq Current'
                      /\ tool' \in [Runs -> SUBSET (Current')]
                      /\ caller' \in [Runs -> SUBSET (Current')]
             Tags == config' = config /\ place' \in [Runs -> Places] /\ lost' \in BOOLEAN
  <1>1. Extended /\ DOMAIN records' = Runs /\ DOMAIN tokens' = Runs
    BY VaultStep
  <1>2. /\ Current \subseteq Current'
        /\ \A s : s \in Seq(Messages) => s \in Seq(Messages')
    BY <1>1, Growing
  <1>3. /\ transcript \in [Runs -> Seq(Messages')] /\ copy \in [Runs -> Seq(Messages')]
        /\ value \in [Runs -> Current']
        /\ provider \subseteq Current' /\ quoted \subseteq Current'
        /\ tool \in [Runs -> SUBSET (Current')] /\ caller \in [Runs -> SUBSET (Current')]
    <2>1. transcript \in [Runs -> Seq(Messages)] /\ copy \in [Runs -> Seq(Messages)]
      BY DEF TypeInv
    <2>2. transcript \in [Runs -> Seq(Messages')] /\ copy \in [Runs -> Seq(Messages')]
      BY <2>1, <1>2
    <2>3. /\ value \in [Runs -> Current']
          /\ provider \subseteq Current' /\ quoted \subseteq Current'
      BY <1>2 DEF TypeInv
    <2>4. tool \in [Runs -> SUBSET Current] /\ caller \in [Runs -> SUBSET Current]
      BY DEF TypeInv
    <2>5. tool \in [Runs -> SUBSET (Current')] /\ caller \in [Runs -> SUBSET (Current')]
      BY <2>4, <1>2
    <2> QED BY <2>2, <2>3, <2>5
  <1>4. Absent \in Current' /\ << >> \in Seq(Messages') /\ Len(<< >>) = 0
    BY EmptySeq DEF Current
  <1>5. /\ \A role \in {"user", "assistant", "tool"}, c \in Current', d \in Current' :
              Message(role, c, d) \in Messages'
        /\ \A m \in Messages, c \in Current' : [m EXCEPT !.content = c] \in Messages'
    BY <1>2 DEF Message, Messages
  <1>6. place \in [Runs -> Places] /\ lost \in BOOLEAN
    BY DEF TypeInv
  <1>11. ASSUME NEW r \in Runs, NEW v \in UserData \cup UNION {caller[q] : q \in Runs}, Start(r, v)
         PROVE  Flows /\ Tags
    <2>1. v \in Current
      BY InputsAreAbout
    <2>2. Shown("request", r, v, "request") \in Current'
      BY <1>11, <2>1, Showing DEF Start, Hooks, Origins
    <2>3. <<Message("user", Shown("request", r, v, "request"), Absent)>> \in Seq(Messages')
      BY <2>2, <1>4, <1>5
    <2> QED BY <1>11, <2>3, <1>3, <1>6 DEF Start, Places
  <1>12. ASSUME NEW r \in Runs, Step(r) \/ Retry(r)
         PROVE  Flows /\ Tags
    BY <1>12, <1>3, <1>6 DEF Step, Retry, Places
  <1>13. ASSUME NEW r \in Runs, Prepare(r)
         PROVE  Flows /\ Tags
    <2> DEFINE m == transcript[r][Len(copy[r]) + 1]
               shown == [m EXCEPT !.content = Shown("model_call", r, m.content, OriginOf(m))]
    <2>1. Len(copy[r]) + 1 \in 1 .. Len(transcript[r])
      BY <1>13, MessagesAreAbout DEF Prepare
    <2>2. m \in Messages /\ m.content \in Current /\ OriginOf(m) \in Origins
      BY <2>1, MessagesAreAbout
    <2>3. /\ Transform("model_call", r, m.content, OriginOf(m))
          /\ copy' = [copy EXCEPT ![r] = Append(@, shown)]
      BY <1>13 DEF Prepare
    <2>4. Shown("model_call", r, m.content, OriginOf(m)) \in Current'
      BY <2>2, <2>3, Showing DEF Hooks
    <2>5. shown \in Messages'
      BY <2>2, <2>4, <1>5
    <2>6. Append(copy[r], shown) \in Seq(Messages')
      BY <2>5, <1>3, AppendProperties
    <2>7. copy' \in [Runs -> Seq(Messages')]
      BY <2>3, <2>6, <1>3
    <2> QED BY <1>13, <2>7, <1>3, <1>6 DEF Prepare
  <1>14. ASSUME NEW r \in Runs, NEW v \in provider \cup Sent(r), NEW where \in {"called", "drafted"},
                Complete(r, v, where)
         PROVE  Flows /\ Tags
    <2>1. Sent(r) \subseteq Current' /\ v \in Current'
      BY <1>2, <1>3, SentIsAbout
    <2> QED BY <1>14, <2>1, <1>3, <1>6 DEF Complete, Places
  <1>15. ASSUME NEW r \in Runs, Execute(r)
         PROVE  Flows /\ Tags
    <2> DEFINE shown == Shown("tool_call", r, value[r], "tool_result")
    <2>1. value[r] \in Current /\ Transform("tool_call", r, value[r], "tool_result")
      BY <1>15 DEF Execute, TypeInv
    <2>2. shown \in Current'
      BY <2>1, Showing DEF Hooks, Origins
    <2>3. Given(r, shown) \in Current'
      BY <2>2, VaultStep, GivenValues
    <2> QED BY <1>15, <2>3, <1>3, <1>6 DEF Execute, Places
  <1>16. ASSUME NEW r \in Runs, NEW content \in Current', Admit(r, content)
         PROVE  /\ transcript' \in [Runs -> Seq(Messages')] /\ copy' \in [Runs -> Seq(Messages')]
                /\ value' \in [Runs -> Current']
                /\ provider' = provider /\ tool' = tool /\ caller' = caller
                /\ Tags
    <2> DEFINE new == <<Message("assistant", Absent, value[r]), Message("tool", Absent, content)>>
    <2>1. new \in Seq(Messages')
      BY <1>3, <1>4, <1>5
    <2>2. transcript[r] \o new \in Seq(Messages')
      BY <2>1, <1>3, ConcatProperties
    <2>3. transcript' = [transcript EXCEPT ![r] = transcript[r] \o new]
      BY <1>16 DEF Admit
    <2>4. transcript' \in [Runs -> Seq(Messages')]
      BY <2>2, <2>3, <1>3
    <2> QED BY <1>16, <2>4, <1>3, <1>4, <1>6 DEF Admit, Places
  <1>17. ASSUME NEW r \in Runs, NEW v \in Known, Result(r, v)
         PROVE  Flows /\ Tags
    <2>1. v \in Current
      BY InputsAreAbout
    <2>2. Shown("tool_result", r, v, "tool_result") \in Current'
      BY <1>17, <2>1, Showing DEF Result, Hooks, Origins
    <2> QED BY <1>17, <2>2, <1>3, <1>16 DEF Result
  <1>18. ASSUME NEW r \in Runs, NEW v \in Known, GiveUp(r, v)
         PROVE  Flows /\ Tags
    <2>1. v \in Current'
      BY <1>2, InputsAreAbout
    <2> QED BY <1>18, <2>1, <1>3, <1>16 DEF GiveUp
  <1>19. ASSUME NEW r \in Runs, Draft(r)
         PROVE  Flows /\ Tags
    <2>1. value[r] \in Current
      BY DEF TypeInv
    <2>2. Shown("response", r, value[r], "tool_result") \in Current'
      BY <1>19, <2>1, Showing DEF Draft, Hooks, Origins
    <2> QED BY <1>19, <2>2, <1>3, <1>6 DEF Draft, Places
  <1>20. ASSUME NEW r \in Runs, Respond(r)
         PROVE  Flows /\ Tags
    <2>1. Released(r) \in Current'
      BY <1>2, ReleasedValues
    <2> QED BY <1>20, <2>1, <1>3, <1>4, <1>6 DEF Respond, Settle, Places
  <1>21. ASSUME NEW r \in Runs, Stop(r)
         PROVE  Flows /\ Tags
    BY <1>21, <1>3, <1>4, <1>6 DEF Stop, Settle, Places
  <1>22. ASSUME NEW r \in Runs, Raise(r)
         PROVE  Flows /\ Tags
    BY <1>22, <1>3, <1>4, <1>6 DEF Raise, Places
  <1>23. ASSUME Restart
         PROVE  Flows /\ Tags
    BY <1>23, <1>3, <1>6 DEF Restart
  <1>24. ASSUME AllSettled \/ UNCHANGED vars
         PROVE  Flows /\ Tags
    <2>1. UNCHANGED <<config, place, transcript, copy, value, provider, tool, caller, quoted, lost>>
      BY <1>24 DEF AllSettled, vars
    <2> QED BY <2>1, <1>3, <1>6
  <1>25. Flows /\ Tags
    <2> HIDE DEF Flows, Tags
    <2> QED BY <1>11, <1>12, <1>13, <1>14, <1>15, <1>17, <1>18, <1>19, <1>20, <1>21, <1>22,
               <1>23, <1>24 DEF Next
  <1> QED BY <1>1, <1>25 DEF TypeInv, Extended, Entries

-----------------------------------------------------------------------------
(* Where the values of a step come from.                                      *)

(* The project stays, and what an error has once quoted stays quoted.        *)
LEMMA FixedStep ==
    ASSUME [Next]_vars
    PROVE  config' = config /\ quoted \subseteq quoted'
  <1>1. ASSUME NEW r \in Runs,
               \/ \E v \in UserData \cup UNION {caller[q] : q \in Runs} : Start(r, v)
               \/ Step(r) \/ Prepare(r)
               \/ \E v \in provider \cup Sent(r), where \in {"called", "drafted"} :
                     Complete(r, v, where)
               \/ Execute(r) \/ Retry(r)
        PROVE  config' = config /\ quoted' = quoted
    BY <1>1 DEF Start, Step, Prepare, Complete, Execute, Retry, parties
  <1>2. ASSUME NEW r \in Runs, NEW v \in Known, Result(r, v) \/ GiveUp(r, v)
        PROVE  config' = config /\ quoted \subseteq quoted'
    BY <1>2 DEF Result, GiveUp, Admit
  <1>3. ASSUME NEW r \in Runs, Draft(r) \/ Respond(r) \/ Stop(r) \/ Raise(r)
        PROVE  config' = config /\ quoted' = quoted
    BY <1>3 DEF Draft, Respond, Stop, Raise, Settle, parties
  <1>4. Restart \/ AllSettled \/ UNCHANGED vars => config' = config /\ quoted' = quoted
    BY DEF Restart, AllSettled, vars, parties
  <1> QED BY <1>1, <1>2, <1>3, <1>4 DEF Next

(* A message is a transformed input, an argument of the provider, or a tool's   *)
(* result, which is transformed unless it is the text of an error.            *)
IsInput(v) == v \in UserData \/ \E q \in Runs : v \in caller[q]

(* A message of the next transcript: it was there, or which role put it there.*)
LEMMA TranscriptStep ==
    ASSUME TypeInv, Paired, [Next]_vars, NEW r \in Runs, NEW k \in 1 .. Len(transcript'[r])
    PROVE  LET m == transcript'[r][k]
           IN  \/ k \in 1 .. Len(transcript[r]) /\ m = transcript[r][k]
               \/ /\ m.role = "user" /\ m.data = Absent
                  /\ m.content \in Data => ~ Hides("request") /\ IsInput(m.content)
               \/ /\ m.role # "user" /\ m.content = Absent
                  /\ m.data \in Data =>
                        m.data = value[r] \/ ~ Hides("tool_result") \/ m.data \in quoted'
  <1> DEFINE m == transcript'[r][k]
             Goal == \/ k \in 1 .. Len(transcript[r]) /\ m = transcript[r][k]
                     \/ /\ m.role = "user" /\ m.data = Absent
                        /\ m.content \in Data => ~ Hides("request") /\ IsInput(m.content)
                     \/ /\ m.role # "user" /\ m.content = Absent
                        /\ m.data \in Data =>
                              m.data = value[r] \/ ~ Hides("tool_result") \/ m.data \in quoted'
  <1>1. transcript \in [Runs -> Seq(Messages)] /\ transcript[r] \in Seq(Messages)
    BY DEF TypeInv
  <1>2. transcript'[r] = transcript[r] => Goal
    OBVIOUS
  <1>3. ASSUME NEW s \in Runs, NEW v \in UserData \cup UNION {caller[q] : q \in Runs}, Start(s, v)
        PROVE  Goal
    <2> DEFINE shown == Shown("request", s, v, "request")
    <2>1. v \in Current /\ IsInput(v) /\ Transform("request", s, v, "request")
      BY <1>3, InputsAreAbout DEF IsInput, Start
    <2>2. shown \in Data => shown = v /\ ~ Hides("request")
      BY <2>1, Showing DEF Hooks, Origins
    <2>3. transcript' = [transcript EXCEPT ![s] = <<Message("user", shown, Absent)>>]
      BY <1>3 DEF Start
    <2>4. CASE r = s
      <3>1. transcript'[r] = <<Message("user", shown, Absent)>>
        BY <1>1, <2>3, <2>4
      <3>2. m = Message("user", shown, Absent)
        BY <3>1
      <3> QED BY <2>1, <2>2, <3>2 DEF Message
    <2>5. CASE r # s
      BY <1>1, <1>2, <2>3, <2>5
    <2> QED BY <2>4, <2>5
  <1>4. ASSUME NEW s \in Runs, NEW answer, Admit(s, answer),
               answer \in Data => ~ Hides("tool_result") \/ answer \in quoted'
        PROVE  Goal
    <2> DEFINE new == <<Message("assistant", Absent, value[s]), Message("tool", Absent, answer)>>
               All == {transcript[r][j] : j \in 1 .. Len(transcript[r])} \cup {new[1], new[2]}
    <2>1. transcript' = [transcript EXCEPT ![s] = transcript[s] \o new]
      BY <1>4 DEF Admit
    <2>2. CASE r = s
      <3>1. transcript'[r] = transcript[r] \o new
        BY <1>1, <2>1, <2>2
      <3>2. transcript[r] \in Seq(All) /\ new \in Seq(All) /\ Len(new) = 2
        <4>1. transcript[r] \in Seq({transcript[r][j] : j \in 1 .. Len(transcript[r])})
          BY <1>1, SeqOfRange, RangeEquality
        <4>2. transcript[r] \in Seq(All)
          BY <4>1, SeqMonotonic
        <4> QED BY <4>2
      <3>3. /\ Len(transcript'[r]) = Len(transcript[r]) + 2
            /\ \A j \in 1 .. Len(transcript[r]) + 2 :
                  transcript'[r][j] = IF j <= Len(transcript[r]) THEN transcript[r][j]
                                      ELSE new[j - Len(transcript[r])]
        BY <3>1, <3>2, ConcatProperties
      <3>4. Len(transcript[r]) \in Nat
        BY <1>1, LenProperties
      <3>5. CASE k <= Len(transcript[r])
        BY <3>3, <3>4, <3>5
      <3>6. CASE k = Len(transcript[r]) + 1
        <4>1. m = Message("assistant", Absent, value[r])
          BY <3>3, <3>4, <3>6, <2>2
        <4>2. m.role # "user" /\ m.data = value[r] /\ m.content = Absent
          BY <4>1 DEF Message
        <4> QED BY <4>2, DataAreNoTokens
      <3>7. CASE k = Len(transcript[r]) + 2
        <4>1. m = Message("tool", Absent, answer)
          BY <3>3, <3>4, <3>7
        <4>2. m.role # "user" /\ m.data = answer /\ m.content = Absent
          BY <4>1 DEF Message
        <4> QED BY <4>2, <1>4
      <3>8. k \in 1 .. Len(transcript[r]) + 2
        BY <3>3
      <3>9. \/ k <= Len(transcript[r])
            \/ k = Len(transcript[r]) + 1 \/ k = Len(transcript[r]) + 2
        BY <3>4, <3>8
      <3> QED BY <3>5, <3>6, <3>7, <3>9
    <2>3. CASE r # s
      BY <1>1, <1>2, <2>1, <2>3
    <2> QED BY <2>2, <2>3
  <1>5. ASSUME NEW s \in Runs, NEW v \in Known, Result(s, v)
        PROVE  Goal
    <2> DEFINE shown == Shown("tool_result", s, v, "tool_result")
    <2>1. v \in Current /\ Transform("tool_result", s, v, "tool_result") /\ Admit(s, shown)
      BY <1>5, InputsAreAbout DEF Result
    <2>2. shown \in Data => ~ Hides("tool_result")
      BY <2>1, Showing DEF Hooks, Origins
    <2> QED BY <2>1, <2>2, <1>4
  <1>6. ASSUME NEW s \in Runs, NEW v \in Known, GiveUp(s, v)
        PROVE  Goal
    BY <1>6, <1>4 DEF GiveUp
  <1>7. ASSUME NEW s \in Runs,
               \/ Step(s) \/ Prepare(s)
               \/ \E v \in provider \cup Sent(s), where \in {"called", "drafted"} :
                     Complete(s, v, where)
               \/ Execute(s) \/ Retry(s) \/ Draft(s) \/ Respond(s) \/ Stop(s) \/ Raise(s)
        PROVE  transcript' = transcript
    BY <1>7 DEF Step, Prepare, Complete, Execute, Retry, Draft, Respond, Stop, Raise, Settle
  <1>8. Restart \/ AllSettled \/ UNCHANGED vars => transcript' = transcript
    BY DEF Restart, AllSettled, vars
  <1>9. Goal
    <2> HIDE DEF Goal
    <2> QED BY <1>2, <1>3, <1>5, <1>6, <1>7, <1>8 DEF Next
  <1> QED BY <1>9

(* A message of the copy is one of the transcript, its content transformed.   *)
LEMMA CopyStep ==
    ASSUME TypeInv, Paired, [Next]_vars, NEW r \in Runs, NEW k \in 1 .. Len(copy'[r])
    PROVE  LET m == copy'[r][k]
           IN  \/ k \in 1 .. Len(copy[r]) /\ m = copy[r][k]
               \/ \E j \in 1 .. Len(transcript[r]) :
                     /\ m.data = transcript[r][j].data
                     /\ m.content \in Data =>
                           m.content = transcript[r][j].content /\ ~ Hides("model_call")
  <1> DEFINE m == copy'[r][k]
             Goal == \/ k \in 1 .. Len(copy[r]) /\ m = copy[r][k]
                     \/ \E j \in 1 .. Len(transcript[r]) :
                           /\ m.data = transcript[r][j].data
                           /\ m.content \in Data =>
                                 m.content = transcript[r][j].content /\ ~ Hides("model_call")
  <1>1. copy \in [Runs -> Seq(Messages)] /\ copy[r] \in Seq(Messages)
    BY DEF TypeInv
  <1>2. copy'[r] = copy[r] => Goal
    OBVIOUS
  <1>3. copy'[r] = << >> => Goal
    BY EmptySeq
  <1>4. ASSUME NEW s \in Runs, Prepare(s)
        PROVE  Goal
    <2> DEFINE j == Len(copy[s]) + 1
               o == transcript[s][j]
               c == Shown("model_call", s, o.content, OriginOf(o))
               shown == [o EXCEPT !.content = c]
    <2>1. Len(copy[s]) + 1 \in 1 .. Len(transcript[s])
      BY <1>4, MessagesAreAbout DEF Prepare
    <2>2. o \in Messages /\ o.content \in Current /\ OriginOf(o) \in Origins
      BY <2>1, MessagesAreAbout
    <2>3. Transform("model_call", s, o.content, OriginOf(o)) /\ copy' = [copy EXCEPT ![s] = Append(@, shown)]
      BY <1>4 DEF Prepare
    <2>4. c \in Current' /\ (c \in Data => c = o.content /\ ~ Hides("model_call"))
      BY <2>2, <2>3, Showing DEF Hooks
    <2>5. shown.content = c /\ shown.data = o.data
      BY <2>2 DEF Messages
    <2>6. CASE r = s
      <3>1. copy'[r] = Append(copy[r], shown)
        BY <1>1, <2>3, <2>6
      <3> DEFINE All == {copy[r][i] : i \in 1 .. Len(copy[r])} \cup {shown}
      <3>2. copy[r] \in Seq(All)
        <4>1. copy[r] \in Seq({copy[r][i] : i \in 1 .. Len(copy[r])})
          BY <1>1, SeqOfRange, RangeEquality
        <4> QED BY <4>1, SeqMonotonic
      <3>3. /\ Len(copy'[r]) = Len(copy[r]) + 1
            /\ \A i \in 1 .. Len(copy[r]) : copy'[r][i] = copy[r][i]
            /\ copy'[r][Len(copy[r]) + 1] = shown
        BY <3>1, <3>2, AppendProperties
      <3>4. Len(copy[r]) \in Nat
        BY <1>1, LenProperties
      <3>5. k \in 1 .. Len(copy[r]) \/ k = Len(copy[r]) + 1
        BY <3>3, <3>4
      <3>6. CASE k \in 1 .. Len(copy[r])
        BY <3>3, <3>6
      <3>7. CASE k = Len(copy[r]) + 1
        <4>1. m = shown
          BY <3>3, <3>7
        <4> QED BY <4>1, <2>1, <2>4, <2>5, <2>6
      <3> QED BY <3>5, <3>6, <3>7
    <2>7. CASE r # s
      BY <1>1, <1>2, <2>3, <2>7
    <2> QED BY <2>6, <2>7
  <1>5. ASSUME NEW s \in Runs, copy' = [copy EXCEPT ![s] = << >>]
        PROVE  copy'[r] = copy[r] \/ copy'[r] = << >>
    BY <1>1, <1>5
  <1>6. ASSUME NEW s \in Runs,
               \/ \E v \in UserData \cup UNION {caller[q] : q \in Runs} : Start(s, v)
               \/ Step(s)
               \/ \E v \in provider \cup Sent(s), where \in {"called", "drafted"} :
                     Complete(s, v, where)
               \/ Execute(s) \/ Retry(s) \/ Draft(s)
        PROVE  copy' = copy
    BY <1>6 DEF Start, Step, Complete, Execute, Retry, Draft
  <1>7. ASSUME NEW s \in Runs, NEW v \in Known, Result(s, v) \/ GiveUp(s, v)
        PROVE  copy'[r] = copy[r] \/ copy'[r] = << >>
    BY <1>5, <1>7 DEF Result, GiveUp, Admit
  <1>8. ASSUME NEW s \in Runs, Respond(s) \/ Stop(s) \/ Raise(s)
        PROVE  copy'[r] = copy[r] \/ copy'[r] = << >>
    BY <1>5, <1>8 DEF Respond, Stop, Raise, Settle
  <1>9. Restart \/ AllSettled \/ UNCHANGED vars => copy' = copy
    BY DEF Restart, AllSettled, vars
  <1>10. Goal
    <2> HIDE DEF Goal
    <2> QED BY <1>2, <1>3, <1>4, <1>6, <1>7, <1>8, <1>9 DEF Next
  <1> QED BY <1>10

(* A call's value is what the provider answered, transformed.                 *)
LEMMA ValueStep ==
    ASSUME TypeInv, Paired, [Next]_vars, NEW r \in Runs, value'[r] \in Data
    PROVE  value'[r] = value[r] \/ value'[r] \in provider'
  <1> DEFINE Goal == value'[r] \in Data => value'[r] = value[r] \/ value'[r] \in provider'
  <1>1. value \in [Runs -> Current]
    BY DEF TypeInv
  <1>2. ASSUME NEW s \in Runs, value' = [value EXCEPT ![s] = Absent]
        PROVE  Goal
    BY <1>1, <1>2, DataAreNoTokens
  <1>3. ASSUME NEW s \in Runs, NEW v \in provider \cup Sent(s), NEW where \in {"called", "drafted"},
               Complete(s, v, where)
        PROVE  Goal
    BY <1>1, <1>3 DEF Complete
  <1>4. ASSUME NEW s \in Runs, Draft(s)
        PROVE  Goal
    <2> DEFINE shown == Shown("response", s, value[s], "tool_result")
    <2>1. value' = [value EXCEPT ![s] = shown] /\ Transform("response", s, value[s], "tool_result")
      BY <1>4 DEF Draft
    <2>2. shown \in Data => shown = value[s]
      BY <2>1, <1>1, Showing DEF Hooks, Origins
    <2> QED BY <1>1, <2>1, <2>2
  <1>5. ASSUME NEW s \in Runs,
               \/ \E v \in UserData \cup UNION {caller[q] : q \in Runs} : Start(s, v)
               \/ Step(s) \/ Prepare(s) \/ Execute(s) \/ Retry(s)
        PROVE  value' = value
    BY <1>5 DEF Start, Step, Prepare, Execute, Retry
  <1>6. ASSUME NEW s \in Runs, NEW v \in Known, Result(s, v) \/ GiveUp(s, v)
        PROVE  Goal
    BY <1>2, <1>6 DEF Result, GiveUp, Admit
  <1>7. ASSUME NEW s \in Runs, Respond(s) \/ Stop(s) \/ Raise(s)
        PROVE  Goal
    BY <1>2, <1>7 DEF Respond, Stop, Raise, Settle
  <1>8. Restart \/ AllSettled \/ UNCHANGED vars => value' = value
    BY DEF Restart, AllSettled, vars
  <1>9. Goal
    BY <1>3, <1>4, <1>5, <1>6, <1>7, <1>8 DEF Next
  <1> QED BY <1>9

(* The provider is sent copies and nothing else.                              *)
LEMMA ProviderStep ==
    ASSUME TypeInv, [Next]_vars, NEW v \in provider'
    PROVE  \/ v \in provider
           \/ \E r \in Runs : \E k \in 1 .. Len(copy[r]) : v = copy[r][k].content \/ v = copy[r][k].data
  <1>1. ASSUME NEW r \in Runs, NEW u \in provider \cup Sent(r), NEW where \in {"called", "drafted"},
               Complete(r, u, where)
        PROVE  provider' = provider \cup Sent(r)
    BY <1>1 DEF Complete
  <1>2. ASSUME NEW r \in Runs,
               \/ \E u \in UserData \cup UNION {caller[q] : q \in Runs} : Start(r, u)
               \/ Step(r) \/ Prepare(r) \/ Execute(r) \/ Retry(r)
               \/ \E u \in Known : Result(r, u) \/ GiveUp(r, u)
        PROVE  provider' = provider
    BY <1>2 DEF Start, Step, Prepare, Execute, Retry, Result, GiveUp, Admit, parties
  <1>3. ASSUME NEW r \in Runs, Draft(r) \/ Respond(r) \/ Stop(r) \/ Raise(r)
        PROVE  provider' = provider
    BY <1>3 DEF Draft, Respond, Stop, Raise, Settle, parties
  <1>4. Restart \/ AllSettled \/ UNCHANGED vars => provider' = provider
    BY DEF Restart, AllSettled, vars, parties
  <1>5. v \in provider \/ \E r \in Runs : v \in Sent(r)
    BY <1>1, <1>2, <1>3, <1>4 DEF Next
  <1> QED BY <1>5, SentIsAbout

(* A tool is given the transformed argument, or what no token stands for.      *)
LEMMA ToolStep ==
    ASSUME TypeInv, Paired, NoTokenOfAToken, Kept, [Next]_vars, NEW r \in Runs, NEW v \in tool'[r]
    PROVE  \/ v \in tool[r]
           \/ /\ v \in Current' /\ place'[r] # "settled"
              /\ ~ config.detokenize /\ v \in Data => v = value[r]
              /\ config.detokenize => v \notin DOMAIN records'[r]
  <1> DEFINE Goal == \/ v \in tool[r]
                     \/ /\ v \in Current' /\ place'[r] # "settled"
                        /\ ~ config.detokenize /\ v \in Data => v = value[r]
                        /\ config.detokenize => v \notin DOMAIN records'[r]
  <1>1. tool \in [Runs -> SUBSET Current] /\ place \in [Runs -> Places]
    BY DEF TypeInv
  <1>2. ASSUME NEW s \in Runs, Execute(s)
        PROVE  Goal
    <2> DEFINE shown == Shown("tool_call", s, value[s], "tool_result")
    <2>1. value[s] \in Current /\ Transform("tool_call", s, value[s], "tool_result")
      BY <1>2 DEF Execute, TypeInv
    <2>2. shown \in Current' /\ (shown \in Data => shown = value[s])
      BY <2>1, Showing DEF Hooks, Origins
    <2>3. /\ Given(s, shown) \in Current'
          /\ ~ config.detokenize => Given(s, shown) = shown
          /\ config.detokenize => Given(s, shown) \notin DOMAIN records'[s]
      BY <2>2, VaultStep, GivenValues
    <2>4. /\ tool' = [tool EXCEPT ![s] = @ \cup {Given(s, shown)}]
          /\ place' = [place EXCEPT ![s] = "executing"]
      BY <1>2 DEF Execute
    <2>5. v \in tool[r] \/ (r = s /\ v = Given(s, shown))
      BY <1>1, <2>4
    <2>6. place'[s] # "settled"
      BY <1>1, <2>4
    <2> QED BY <2>2, <2>3, <2>5, <2>6
  <1>3. ASSUME NEW s \in Runs,
               \/ \E u \in UserData \cup UNION {caller[q] : q \in Runs} : Start(s, u)
               \/ Step(s) \/ Prepare(s)
               \/ \E u \in provider \cup Sent(s), where \in {"called", "drafted"} :
                     Complete(s, u, where)
               \/ Retry(s) \/ \E u \in Known : Result(s, u) \/ GiveUp(s, u)
        PROVE  tool' = tool
    BY <1>3 DEF Start, Step, Prepare, Complete, Retry, Result, GiveUp, Admit, parties
  <1>4. ASSUME NEW s \in Runs, Draft(s) \/ Respond(s) \/ Stop(s) \/ Raise(s)
        PROVE  tool' = tool
    BY <1>4 DEF Draft, Respond, Stop, Raise, Settle, parties
  <1>5. Restart \/ AllSettled \/ UNCHANGED vars => tool' = tool
    BY DEF Restart, AllSettled, vars, parties
  <1>6. Goal
    <2>1. tool' = tool => Goal
      OBVIOUS
    <2> HIDE DEF Goal
    <2> QED BY <2>1, <1>2, <1>3, <1>4, <1>5 DEF Next
  <1> QED BY <1>6

(* A caller is given its response.                                            *)
LEMMA CallerStep ==
    ASSUME TypeInv, [Next]_vars, NEW r \in Runs, NEW v \in caller'[r]
    PROVE  \/ v \in caller[r]
           \/ v = Released(r) /\ place[r] = "responding" /\ ledger' = ledger
  <1>1. caller \in [Runs -> SUBSET Current]
    BY DEF TypeInv
  <1>2. ASSUME NEW s \in Runs, Respond(s)
        PROVE  v \in caller[r] \/ (v = Released(r) /\ place[r] = "responding" /\ ledger' = ledger)
    <2>1. /\ caller' = [caller EXCEPT ![s] = @ \cup {Released(s)}]
          /\ place[s] = "responding" /\ ledger' = ledger
      BY <1>2 DEF Respond, Settle, Purge
    <2> QED BY <1>1, <2>1
  <1>3. ASSUME NEW s \in Runs,
               \/ \E u \in UserData \cup UNION {caller[q] : q \in Runs} : Start(s, u)
               \/ Step(s) \/ Prepare(s)
               \/ \E u \in provider \cup Sent(s), where \in {"called", "drafted"} :
                     Complete(s, u, where)
               \/ Retry(s) \/ \E u \in Known : Result(s, u) \/ GiveUp(s, u)
        PROVE  caller' = caller
    BY <1>3 DEF Start, Step, Prepare, Complete, Retry, Result, GiveUp, Admit, parties
  <1>4. ASSUME NEW s \in Runs, Execute(s) \/ Draft(s) \/ Stop(s) \/ Raise(s)
        PROVE  caller' = caller
    BY <1>4 DEF Execute, Draft, Stop, Raise, Settle, parties
  <1>5. Restart \/ AllSettled \/ UNCHANGED vars => caller' = caller
    BY DEF Restart, AllSettled, vars, parties
  <1>6. caller' = caller => v \in caller[r]
    OBVIOUS
  <1> QED BY <1>2, <1>3, <1>4, <1>5, <1>6 DEF Next

(* A token of origin "request" stands for an input or a message of a user.     *)
LEMMA LedgerStep ==
    ASSUME TypeInv, Paired, NoTokenOfAToken, [Next]_vars, NEW t \in Minted'
    PROVE  \/ t \in Minted /\ ledger'[t] = ledger[t]
           \/ /\ t \notin Current
              /\ ledger'[t].origin = "request" =>
                    LET p == ledger'[t].plaintext
                    IN  \/ IsInput(p)
                        \/ \E r \in Runs : \E k \in 1 .. Len(transcript[r]) :
                              p = transcript[r][k].content
  <1> DEFINE Goal == \/ t \in Minted /\ ledger'[t] = ledger[t]
                     \/ /\ t \notin Current
                        /\ ledger'[t].origin = "request" =>
                              LET p == ledger'[t].plaintext
                              IN  \/ IsInput(p)
                                  \/ \E r \in Runs : \E k \in 1 .. Len(transcript[r]) :
                                        p = transcript[r][k].content
  <1>1. ASSUME NEW hook, NEW r \in Runs, NEW v \in Current, NEW origin \in Origins,
               Transform(hook, r, v, origin),
               origin = "request" => 
                   \/ IsInput(v)
                   \/ \E q \in Runs : \E k \in 1 .. Len(transcript[q]) :
                         v = transcript[q][k].content
        PROVE  Goal
    <2>1. \A u \in Minted' :
             \/ u \in Minted /\ ledger'[u] = ledger[u]
             \/ u \notin Current /\ ledger'[u] = [run |-> r, plaintext |-> v, origin |-> origin]
      <3>1. Transform(hook, r, v, origin)
        BY <1>1
      <3> QED BY <3>1, Transforming
    <2>2. CASE t \notin Current /\ ledger'[t] = [run |-> r, plaintext |-> v, origin |-> origin]
      <3>1. ledger'[t].plaintext = v /\ ledger'[t].origin = origin
        BY <2>2
      <3> QED BY <2>2, <3>1, <1>1
    <2>3. CASE t \in Minted /\ ledger'[t] = ledger[t]
      BY <2>3
    <2> HIDE DEF Goal
    <2> QED BY <2>1, <2>2, <2>3
  <1>2. ASSUME ledger' = ledger
        PROVE  Goal
    BY <1>2, Standing
  <1>3. ASSUME NEW r \in Runs, NEW v \in UserData \cup UNION {caller[q] : q \in Runs}, Start(r, v)
        PROVE  Goal
    BY <1>1, <1>3, InputsAreAbout DEF Start, IsInput, Origins
  <1>4. ASSUME NEW r \in Runs, Prepare(r)
        PROVE  Goal
    <2> DEFINE m == transcript[r][Len(copy[r]) + 1]
    <2>1. Len(copy[r]) + 1 \in 1 .. Len(transcript[r])
      BY <1>4, MessagesAreAbout DEF Prepare
    <2>2. m.content \in Current /\ OriginOf(m) \in Origins
      BY <2>1, MessagesAreAbout
    <2>3. Transform("model_call", r, m.content, OriginOf(m))
      BY <1>4 DEF Prepare
    <2> QED BY <1>1, <2>1, <2>2, <2>3
  <1>5. ASSUME NEW r \in Runs, Execute(r) \/ Draft(r)
        PROVE  Goal
    <2>1. /\ value[r] \in Current /\ "tool_result" \in Origins
          /\ \E hook \in Hooks : Transform(hook, r, value[r], "tool_result")
      BY <1>5 DEF Execute, Draft, TypeInv, Origins, Hooks
    <2> QED BY <2>1, <1>1
  <1>6. ASSUME NEW r \in Runs, NEW v \in Known, Result(r, v)
        PROVE  Goal
    <2>1. /\ v \in Current /\ "tool_result" \in Origins
          /\ Transform("tool_result", r, v, "tool_result")
      BY <1>6, InputsAreAbout DEF Result, Origins
    <2> QED BY <2>1, <1>1
  <1>7. ASSUME NEW r \in Runs,
               \/ Step(r)
               \/ \E v \in provider \cup Sent(r), where \in {"called", "drafted"} :
                     Complete(r, v, where)
               \/ Retry(r) \/ \E v \in Known : GiveUp(r, v)
               \/ Respond(r) \/ Stop(r) \/ Raise(r)
        PROVE  ledger' = ledger
    BY <1>7 DEF Step, Complete, Retry, GiveUp, Respond, Stop, Raise, Settle, Purge, vault
  <1>8. Restart \/ AllSettled \/ UNCHANGED vars => ledger' = ledger
    BY DEF Restart, AllSettled, vars, vault
  <1>9. Goal
    <2> HIDE DEF Goal
    <2> QED BY <1>2, <1>3, <1>4, <1>5, <1>6, <1>7, <1>8 DEF Next
  <1> QED BY <1>9

-----------------------------------------------------------------------------
(* What the parties know.                                                     *)

(* While data of D are copied only from messages that hold none, the provider *)
(* has none to answer with.                                                   *)
LEMMA AnsweredStep ==
    ASSUME TypeInv, Paired, [Next]_vars, NEW D \in SUBSET Data, Answered(D), Hides("tool_result"),
           \A r \in Runs : \A k \in 1 .. Len(transcript[r]) :
               Hides("model_call") \/ Free(transcript[r][k].content, D)
    PROVE  Answered(D)'
  <1>1. \A r \in Runs : /\ Free(value[r], D)
                        /\ \A k \in 1 .. Len(transcript[r]) : Free(transcript[r][k].data, D)
                        /\ \A k \in 1 .. Len(copy[r]) : /\ Free(copy[r][k].data, D)
                                                        /\ Free(copy[r][k].content, D)
    BY DEF Answered
  <1>2. \A v \in provider : Free(v, D)
    BY DEF Answered
  <1>3. ASSUME NEW v \in provider'
        PROVE  Free(v, D)
    <2>1. \/ v \in provider
          \/ \E r \in Runs : \E k \in 1 .. Len(copy[r]) : v = copy[r][k].content \/ v = copy[r][k].data
      BY ProviderStep
    <2> QED BY <2>1, <1>1, <1>2
  <1>4. ASSUME NEW r \in Runs
        PROVE  Free(value'[r], D)
    <2>1. value'[r] \in D => value'[r] = value[r] \/ value'[r] \in provider'
      BY ValueStep
    <2>2. CASE value'[r] = value[r]
      BY <2>2, <1>1
    <2>3. CASE value'[r] \in provider'
      BY <2>3, <1>3
    <2> QED BY <2>1, <2>2, <2>3 DEF Free
  <1>5. ASSUME NEW r \in Runs, NEW k \in 1 .. Len(transcript'[r])
        PROVE  transcript'[r][k].data \in D => transcript'[r][k].data \in quoted'
    <2> DEFINE m == transcript'[r][k]
    <2>1. \/ k \in 1 .. Len(transcript[r]) /\ m = transcript[r][k]
          \/ m.data = Absent
          \/ m.data \in Data => m.data = value[r] \/ ~ Hides("tool_result") \/ m.data \in quoted'
      BY TranscriptStep
    <2>2. CASE k \in 1 .. Len(transcript[r]) /\ m = transcript[r][k]
      <3>1. Free(m.data, D)
        BY <2>2, <1>1
      <3> QED BY <3>1, FixedStep DEF Free
    <2>3. CASE m.data = Absent
      BY <2>3, DataAreNoTokens
    <2>4. CASE m.data \in Data => m.data = value[r] \/ ~ Hides("tool_result") \/ m.data \in quoted'
      <3>1. Free(value[r], D)
        BY <1>1
      <3> QED BY <2>4, <3>1, FixedStep DEF Free
    <2> QED BY <2>1, <2>2, <2>3, <2>4
  <1>6. ASSUME NEW r \in Runs, NEW k \in 1 .. Len(copy'[r])
        PROVE  Free(copy'[r][k].data, D) /\ Free(copy'[r][k].content, D)
    <2> DEFINE m == copy'[r][k]
    <2>1. \/ k \in 1 .. Len(copy[r]) /\ m = copy[r][k]
          \/ \E j \in 1 .. Len(transcript[r]) :
                /\ m.data = transcript[r][j].data
                /\ m.content \in Data => m.content = transcript[r][j].content /\ ~ Hides("model_call")
      BY CopyStep
    <2>2. CASE k \in 1 .. Len(copy[r]) /\ m = copy[r][k]
      BY <2>2, <1>1
    <2>3. CASE \E j \in 1 .. Len(transcript[r]) :
                  /\ m.data = transcript[r][j].data
                  /\ m.content \in Data => m.content = transcript[r][j].content /\ ~ Hides("model_call")
      <3>1. PICK j \in 1 .. Len(transcript[r]) :
                  /\ m.data = transcript[r][j].data
                  /\ m.content \in Data => m.content = transcript[r][j].content /\ ~ Hides("model_call")
        BY <2>3
      <3>2. Free(m.data, D)
        BY <3>1, <1>1
      <3>3. Free(m.content, D)
        BY <3>1 DEF Free
      <3> QED BY <3>2, <3>3
    <2> QED BY <2>1, <2>2, <2>3
  <1>7. \A v \in provider' : v \in D => v \in quoted'
    BY <1>3, FixedStep DEF Free
  <1>8. \A r \in Runs : value'[r] \in D => value'[r] \in quoted'
    BY <1>4, FixedStep DEF Free
  <1>9. \A r \in Runs : \A k \in 1 .. Len(transcript'[r]) :
            transcript'[r][k].data \in D => transcript'[r][k].data \in quoted'
    BY <1>5
  <1>10. \A r \in Runs : \A k \in 1 .. Len(copy'[r]) :
            /\ copy'[r][k].data \in D => copy'[r][k].data \in quoted'
            /\ copy'[r][k].content \in D => copy'[r][k].content \in quoted'
    BY <1>6, FixedStep DEF Free
  <1> QED BY <1>7, <1>8, <1>9, <1>10 DEF Answered, Free

(* With both entries hidden, no step shows the provider a datum.             *)
LEMMA ScreenedStep ==
    ASSUME TypeInv, Paired, NoTokenOfAToken, Kept, Screened, [Next]_vars
    PROVE  Screened'
  <1>1. config' = config /\ quoted \subseteq quoted'
    BY FixedStep
  <1> SUFFICES ASSUME EntryIsHidden
               PROVE  /\ Answered(Data)'
                      /\ \A r \in Runs : \A k \in 1 .. Len(transcript'[r]) :
                            \/ transcript'[r][k].role = "user" /\ ~ Hides("request")
                            \/ transcript'[r][k].content \in Data =>
                                  transcript'[r][k].content \in quoted'
                      /\ ~ config.detokenize =>
                            \A r \in Runs : \A v \in tool'[r] : v \in Data => v \in quoted'
    BY <1>1 DEF Screened, EntryIsHidden, Hides, Free
  <1>2. /\ Answered(Data)
        /\ \A r \in Runs : \A k \in 1 .. Len(transcript[r]) :
              \/ transcript[r][k].role = "user" /\ ~ Hides("request")
              \/ Free(transcript[r][k].content, Data)
        /\ ~ config.detokenize => \A r \in Runs : \A v \in tool[r] : Free(v, Data)
    BY DEF Screened
  <1>3. Hides("tool_result") /\ (Hides("request") \/ Hides("model_call"))
    BY DEF EntryIsHidden
  <1>4. Answered(Data)'
    BY <1>2, <1>3, AnsweredStep
  <1>5. ASSUME NEW r \in Runs, NEW k \in 1 .. Len(transcript'[r])
        PROVE  \/ transcript'[r][k].role = "user" /\ ~ Hides("request")
               \/ transcript'[r][k].content \in Data => transcript'[r][k].content \in quoted'
    <2> DEFINE m == transcript'[r][k]
    <2>1. \/ k \in 1 .. Len(transcript[r]) /\ m = transcript[r][k]
          \/ m.role = "user" /\ (m.content \in Data => ~ Hides("request"))
          \/ m.content = Absent
      BY TranscriptStep
    <2>2. CASE k \in 1 .. Len(transcript[r]) /\ m = transcript[r][k]
      BY <2>2, <1>1, <1>2 DEF Free
    <2>3. CASE m.content = Absent
      BY <2>3, DataAreNoTokens
    <2> QED BY <2>1, <2>2, <2>3
  <1>6. ASSUME ~ config.detokenize, NEW r \in Runs, NEW v \in tool'[r], v \in Data
        PROVE  v \in quoted'
    <2>1. v \in tool[r] \/ v = value[r]
      BY <1>6, ToolStep
    <2>2. Free(value[r], Data)
      BY <1>2 DEF Answered
    <2> QED BY <2>1, <2>2, <1>1, <1>2, <1>6 DEF Free
  <1> QED BY <1>4, <1>5, <1>6

(* With the results of tools hidden, no step takes their data elsewhere.     *)
LEMMA ContainedStep ==
    ASSUME TypeInv, Paired, NoTokenOfAToken, Contained, [Next]_vars
    PROVE  Contained'
  <1>1. config' = config /\ quoted \subseteq quoted'
    BY FixedStep
  <1> SUFFICES ASSUME Hides("tool_result")
               PROVE  /\ Answered(ToolData)'
                      /\ \A r \in Runs : \A k \in 1 .. Len(transcript'[r]) :
                            transcript'[r][k].content \in ToolData =>
                                transcript'[r][k].content \in quoted'
                      /\ \A r \in Runs : \A v \in caller'[r] : v \in ToolData => v \in quoted'
                      /\ \A t \in Minted' : ledger'[t].origin = "request" =>
                            (ledger'[t].plaintext \in ToolData => ledger'[t].plaintext \in quoted')
    BY <1>1 DEF Contained, Hides, Free
  <1>2. /\ Answered(ToolData)
        /\ \A r \in Runs : \A k \in 1 .. Len(transcript[r]) : Free(transcript[r][k].content, ToolData)
        /\ \A r \in Runs : \A v \in caller[r] : Free(v, ToolData)
        /\ \A t \in Minted : ledger[t].origin = "request" => Free(ledger[t].plaintext, ToolData)
    BY DEF Contained
  <1>3. ToolData \in SUBSET Data
    BY DataAreNoTokens
  <1>4. Answered(ToolData)'
    BY <1>2, <1>3, AnsweredStep
  <1>5. \A v : IsInput(v) => Free(v, ToolData)
    BY <1>2, DataAssumption DEF IsInput, Free
  <1>6. ASSUME NEW r \in Runs, NEW k \in 1 .. Len(transcript'[r]),
               transcript'[r][k].content \in ToolData
        PROVE  transcript'[r][k].content \in quoted'
    <2> DEFINE m == transcript'[r][k]
    <2>1. \/ k \in 1 .. Len(transcript[r]) /\ m = transcript[r][k]
          \/ m.content \in Data => IsInput(m.content)
          \/ m.content = Absent
      BY TranscriptStep
    <2>2. CASE k \in 1 .. Len(transcript[r]) /\ m = transcript[r][k]
      BY <2>2, <1>1, <1>2, <1>6 DEF Free
    <2>3. CASE m.content \in Data => IsInput(m.content)
      BY <2>3, <1>1, <1>3, <1>5, <1>6 DEF Free
    <2>4. CASE m.content = Absent
      BY <2>4, <1>3, <1>6, DataAreNoTokens
    <2> QED BY <2>1, <2>2, <2>3, <2>4
  <1>7. ASSUME NEW r \in Runs, NEW v \in caller'[r], v \in ToolData
        PROVE  v \in quoted'
    <2>1. v \in caller[r] \/ v = Released(r)
      BY CallerStep
    <2>2. \/ Released(r) = value[r]
          \/ \E t \in Minted : Released(r) = ledger[t].plaintext /\ ledger[t].origin = "request"
      BY ReleasedValues
    <2>3. Free(value[r], ToolData)
      BY <1>2 DEF Answered
    <2>4. Free(v, ToolData)
      BY <2>1, <2>2, <2>3, <1>2
    <2> QED BY <2>4, <1>1, <1>7 DEF Free
  <1>8. ASSUME NEW t \in Minted', ledger'[t].origin = "request", ledger'[t].plaintext \in ToolData
        PROVE  ledger'[t].plaintext \in quoted'
    <2>1. \/ t \in Minted /\ ledger'[t] = ledger[t]
          \/ IsInput(ledger'[t].plaintext)
          \/ \E r \in Runs : \E k \in 1 .. Len(transcript[r]) :
                ledger'[t].plaintext = transcript[r][k].content
      BY <1>8, LedgerStep
    <2>2. Free(ledger'[t].plaintext, ToolData)
      BY <2>1, <1>2, <1>5, <1>8
    <2> QED BY <2>2, <1>1, <1>8 DEF Free
  <1> QED BY <1>4, <1>6, <1>7, <1>8

(* No step hands out a token whose record is gone, unless the vault was lost.*)
LEMMA HandlesStep ==
    ASSUME TypeInv, TypeInv', Paired, NoTokenOfAToken, Kept, HandlesAreRestored, [Next]_vars
    PROVE  HandlesAreRestored'
  <1>1. Paired' /\ NoTokenOfAToken' /\ Kept' /\ config' = config /\ (lost => lost')
    BY VaultStep, VaultMoves, FixedStep
  <1>2. DOMAIN ledger = Minted /\ DOMAIN ledger' = Minted'
    BY LenProperties DEF TypeInv, Minted
  <1>3. ASSUME NEW r \in Runs, NEW t \in Current, t \in Minted', ledger'[t].run = r
        PROVE  IsTokenOf(t, r) /\ ledger'[t] = ledger[t]
    <2>1. t \in Minted /\ ledger'[t] = ledger[t]
      BY <1>3, LedgerStep
    <2> QED BY <2>1, <1>2, <1>3 DEF IsTokenOf
  <1> SUFFICES ASSUME ~ lost', NEW r \in Runs
               PROVE  /\ \A t \in caller'[r] : t \in Minted' /\ ledger'[t].run = r =>
                                                   ledger'[t].origin # "request"
                      /\ config'.detokenize =>
                            \A t \in tool'[r] : ~ (t \in Minted' /\ ledger'[t].run = r)
    BY <1>2 DEF HandlesAreRestored, IsTokenOf
  <1>4. ~ lost
    BY <1>1
  <1>5. /\ \A t \in caller[r] : IsTokenOf(t, r) => ledger[t].origin # "request"
        /\ config.detokenize => \A t \in tool[r] : ~ IsTokenOf(t, r)
    BY <1>4 DEF HandlesAreRestored
  <1>6. caller[r] \subseteq Current /\ tool[r] \subseteq Current
    BY DEF TypeInv
  <1>7. ASSUME NEW t \in caller'[r], t \in Minted', ledger'[t].run = r
        PROVE  ledger'[t].origin # "request"
    <2>1. CASE t \in caller[r]
      BY <2>1, <1>3, <1>5, <1>6, <1>7
    <2>2. CASE t = Released(r) /\ place[r] = "responding" /\ ledger' = ledger
      <3>1. HasAll(r)
        BY <2>2, <1>4 DEF Kept
      <3>2. t \in Minted /\ ledger'[t] = ledger[t]
        BY <2>2, <1>7, Standing
      <3>3. t \in DOMAIN records[r]
        BY <3>1, <3>2, <1>7 DEF HasAll
      <3>4. CASE /\ Released(r) = value[r]
                 /\ value[r] \in DOMAIN records[r] => ledger[value[r]].origin # "request"
        BY <3>2, <3>3, <3>4, <2>2
      <3>5. CASE /\ value[r] \in DOMAIN records[r]
                 /\ Released(r) = records[r][value[r]].plaintext
        BY <3>3, <3>5, <2>2 DEF NoTokenOfAToken
      <3> QED BY <3>4, <3>5, ReleasedValues
    <2> QED BY <2>1, <2>2, CallerStep
  <1>8. ASSUME config.detokenize, NEW t \in tool'[r], t \in Minted', ledger'[t].run = r
        PROVE  FALSE
    <2>1. CASE t \in tool[r]
      BY <2>1, <1>3, <1>5, <1>6, <1>8
    <2>2. CASE place'[r] # "settled" /\ t \notin DOMAIN records'[r]
      <3>1. HasAll(r)'
        BY <2>2, <1>1 DEF Kept
      <3> QED BY <3>1, <2>2, <1>8 DEF HasAll
    <2> QED BY <2>1, <2>2, <1>8, ToolStep
  <1> QED BY <1>1, <1>7, <1>8

-----------------------------------------------------------------------------
(* Nothing is stored and nothing is about.                                   *)
LEMMA Initially == Init => IInv
  <1> SUFFICES ASSUME Init
               PROVE  IInv
    OBVIOUS
  <1> USE DEF Init
  <1>1. /\ Absent \in Current /\ Absent \notin Data /\ << >> \in Seq(Entries)
        /\ << >> \in Seq(Messages) /\ Len(<< >>) = 0
    BY EmptySeq, DataAreNoTokens DEF Current
  <1>2. Minted = {}
    BY <1>1 DEF Minted
  <1>3. \A r \in Runs : DOMAIN records[r] = {} /\ DOMAIN tokens[r] = {}
    BY DEF Nothing
  <1>4. TypeInv
    BY <1>1 DEF TypeInv, Places
  <1>5. Paired
    BY <1>3 DEF Paired
  <1>6. NoTokenOfAToken
    BY <1>3 DEF NoTokenOfAToken
  <1>7. Kept
    BY <1>2 DEF Kept, HasAll
  <1>8. \A r \in Runs : Len(transcript[r]) = 0 /\ Len(copy[r]) = 0
    BY <1>1
  <1>9. Answered(Data) /\ Answered(ToolData)
    BY <1>1, <1>8, DataAreNoTokens DEF Answered, Free
  <1>10. Screened
    BY <1>8, <1>9 DEF Screened
  <1>11. Contained
    BY <1>2, <1>8, <1>9 DEF Contained
  <1>12. HandlesAreRestored
    BY DEF HandlesAreRestored
  <1> QED BY <1>4, <1>5, <1>6, <1>7, <1>10, <1>11, <1>12 DEF IInv

(* Every step of every run keeps the invariant.                              *)
LEMMA Inductively == IInv /\ [Next]_vars => IInv'
  <1> SUFFICES ASSUME IInv, [Next]_vars
               PROVE  IInv'
    OBVIOUS
  <1>1. TypeInv /\ Paired /\ NoTokenOfAToken /\ Kept /\ Screened /\ Contained /\ HandlesAreRestored
    BY DEF IInv
  <1>2. TypeInv'
    BY <1>1, TypeStep
  <1>3. Paired' /\ NoTokenOfAToken' /\ Kept'
    BY <1>1, VaultStep
  <1>4. Screened'
    BY <1>1, ScreenedStep
  <1>5. Contained'
    BY <1>1, ContainedStep
  <1>6. HandlesAreRestored'
    BY <1>1, <1>2, HandlesStep
  <1> QED BY <1>2, <1>3, <1>4, <1>5, <1>6 DEF IInv

(* The vault, what every party holds and where it came from stay as IInv says. *)
THEOREM VaultInvariant == Spec => []IInv
  <1>1. Init => IInv
    BY Initially
  <1>2. IInv /\ [Next]_vars => IInv'
    BY Inductively
  <1> QED BY <1>1, <1>2, PTL DEF Spec

(* InMemoryTokenVault.put and purge keep the two maps of a run inverse to each  *)
(* other, and a token is held by no run but the one it was minted for.          *)
THEOREM TokensStand == Spec => []TokensStandForOneValue
  <1>1. IInv => TokensStandForOneValue
    <2> SUFFICES ASSUME IInv, NEW r \in Runs
                 PROVE  /\ \A t \in DOMAIN records[r] :
                              /\ ledger[t] = [run |-> r, plaintext |-> records[r][t].plaintext,
                                              origin |-> records[r][t].origin]
                              /\ <<records[r][t].plaintext, records[r][t].origin>>
                                    \in DOMAIN tokens[r]
                              /\ tokens[r][<<records[r][t].plaintext, records[r][t].origin>>] = t
                        /\ \A key \in DOMAIN tokens[r] : tokens[r][key] \in DOMAIN records[r]
      BY DEF TokensStandForOneValue
    <2>1. TypeInv /\ Paired
      BY DEF IInv
    <2>2. ASSUME NEW t \in DOMAIN records[r]
          PROVE  /\ ledger[t] = [run |-> r, plaintext |-> records[r][t].plaintext,
                                 origin |-> records[r][t].origin]
                 /\ <<records[r][t].plaintext, records[r][t].origin>> \in DOMAIN tokens[r]
                 /\ tokens[r][<<records[r][t].plaintext, records[r][t].origin>>] = t
      <3>1. /\ ledger[t] \in Entries /\ ledger[t].run = r
            /\ records[r][t].plaintext = ledger[t].plaintext
            /\ records[r][t].origin = ledger[t].origin
        BY <2>1, RecordsAreAbout
      <3>2. /\ Key(ledger[t].plaintext, ledger[t].origin) \in DOMAIN tokens[r]
            /\ tokens[r][Key(ledger[t].plaintext, ledger[t].origin)] = t
        <4>1. \A u \in DOMAIN records[r] :
                 /\ Key(ledger[u].plaintext, ledger[u].origin) \in DOMAIN tokens[r]
                 /\ tokens[r][Key(ledger[u].plaintext, ledger[u].origin)] = u
          BY <2>1 DEF Paired
        <4> QED BY <4>1
      <3>3. ledger[t] = [run |-> ledger[t].run, plaintext |-> ledger[t].plaintext,
                         origin |-> ledger[t].origin]
        BY <3>1 DEF Entries
      <3> QED BY <3>1, <3>2, <3>3 DEF Key
    <2>3. \A key \in DOMAIN tokens[r] : tokens[r][key] \in DOMAIN records[r]
      BY <2>1 DEF Paired
    <2> QED BY <2>2, <2>3
  <1> QED BY <1>1, VaultInvariant, PTL

(* transform wraps no live token of the run, so none hides another's origin.    *)
THEOREM NoTokenWraps == Spec => []NoTokenOfAToken
  <1>1. IInv => NoTokenOfAToken
    BY DEF IInv
  <1> QED BY <1>1, VaultInvariant, PTL

(* Whatever the runs, exceptions and restarts, a provider whose both entries    *)
(* are transformed is sent no datum but what an error of a source quoted.       *)
THEOREM ProviderIsBlind == Spec => []ProviderSeesNoData
  <1>1. IInv => ProviderSeesNoData
    BY DEF IInv, Screened, Answered, Free, ProviderSeesNoData
  <1> QED BY <1>1, VaultInvariant, PTL

(* A tool without a field to detokenize is executed with no datum of a user     *)
(* the model could not have been shown.                                        *)
THEOREM ToolsAreBlind == Spec => []ToolsSeeDeclaredFieldsOnly
  <1>1. IInv => ToolsSeeDeclaredFieldsOnly
    BY DataAreNoTokens DEF IInv, Screened, Free, ToolsSeeDeclaredFieldsOnly
  <1> QED BY <1>1, VaultInvariant, PTL

(* The origin kept with a record decides what detokenize gives a caller, in all  *)
(* runs and after any chain of them.                                           *)
THEOREM CallersAreBlind == Spec => []CallersLearnNoToolData
  <1>1. IInv => CallersLearnNoToolData
    BY DEF IInv, Contained, Free, CallersLearnNoToolData
  <1> QED BY <1>1, VaultInvariant, PTL

(* As long as the vault is not lost, _finish purges after it restored, and a     *)
(* retried tool is given the plaintext again.                                  *)
THEOREM HandlesComeBack == Spec => []HandlesAreRestored
  <1>1. IInv => HandlesAreRestored
    BY DEF IInv
  <1> QED BY <1>1, VaultInvariant, PTL

(***************************************************************************)
(* "Tokens are stable within a run": what put has once answered for a        *)
(* plaintext and an origin it answers until the run settles or the process   *)
(* dies, over every step in between.                                        *)
(***************************************************************************)
TokensAreStable ==
    \A r \in Runs : place'[r] # "settled" /\ ~ lost' =>
        \A key \in DOMAIN tokens[r] : key \in DOMAIN tokens'[r] /\ tokens'[r][key] = tokens[r][key]

(* No step of any run changes or drops a token of a run that goes on.           *)
THEOREM TokensStay == Spec => [][TokensAreStable]_vars
  <1>1. IInv /\ [Next]_vars => TokensAreStable
    <2> SUFFICES ASSUME IInv, [Next]_vars, NEW r \in Runs, place'[r] # "settled", ~ lost',
                        NEW key \in DOMAIN tokens[r]
                 PROVE  key \in DOMAIN tokens'[r] /\ tokens'[r][key] = tokens[r][key]
      BY DEF TokensAreStable
    <2> DEFINE t == tokens[r][key]
    <2>1. TypeInv /\ Paired /\ NoTokenOfAToken /\ Kept
      BY DEF IInv
    <2>2. Extended /\ Paired' /\ Kept'
      BY <2>1, VaultStep
    <2>3. /\ t \in DOMAIN records[r]
          /\ key = Key(ledger[t].plaintext, ledger[t].origin)
      BY <2>1 DEF Paired
    <2>4. t \in Minted /\ ledger[t].run = r
      BY <2>1, <2>3, RecordsAreAbout
    <2>5. t \in Minted' /\ ledger'[t] = ledger[t]
      BY <2>1, <2>2, <2>4, Growing DEF Extended
    <2>6. HasAll(r)'
      BY <2>2 DEF Kept
    <2>7. t \in DOMAIN records'[r]
      BY <2>4, <2>5, <2>6 DEF HasAll
    <2>8. \A u \in DOMAIN records'[r] :
             /\ <<ledger'[u].plaintext, ledger'[u].origin>> \in DOMAIN tokens'[r]
             /\ tokens'[r][<<ledger'[u].plaintext, ledger'[u].origin>>] = u
      BY <2>2 DEF Paired, Key
    <2>9. key = <<ledger'[t].plaintext, ledger'[t].origin>>
      BY <2>3, <2>5 DEF Key
    <2> QED BY <2>7, <2>8, <2>9
  <1> QED BY <1>1, VaultInvariant, PTL DEF Spec
=============================================================================
