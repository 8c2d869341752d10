----------------------------- MODULE SpeechProofs -----------------------------
(***************************************************************************)
(* The speech relays of SpeechRelay, for every number of frames, every     *)
(* metering interval, threshold, buffer and number of attempts: all audio  *)
(* is metered once, the streaming relay is never dead unnoticed, and what  *)
(* was said is neither forgotten nor understood twice or out of order.     *)
(***************************************************************************)
EXTENDS SpeechRelay, SequenceTheorems, WellFoundedInduction, TLAPS

-----------------------------------------------------------------------------
(* Metering *)

\* The meter counts frames, and with what it reported all of them.
Metered ==
    /\ meter \in [pending : Nat, reported : Nat]
    /\ pushed \in Nat
    /\ meter.reported + meter.pending = pushed

\* A frame pushed is counted.
LEMMA FrameIsMetered ==
    ASSUME Metered, pushed' = pushed + 1, meter' = MeterFrame
    PROVE  Metered'
<1>1. meter.pending \in Nat /\ meter.reported \in Nat /\ MeterAt \in Nat
  BY SttRelayAssumption DEF Metered
<1>2. CASE meter.pending + 1 >= MeterAt
  <2>1. meter' = [pending |-> 0, reported |-> meter.reported + meter.pending + 1]
    BY <1>2 DEF MeterFrame
  <2> QED
    BY <2>1, <1>1 DEF Metered
<1>3. CASE ~(meter.pending + 1 >= MeterAt)
  <2>1. meter' = [meter EXCEPT !.pending = @ + 1]
    BY <1>3 DEF MeterFrame
  <2> QED
    BY <2>1, <1>1 DEF Metered
<1> QED
  BY <1>2, <1>3

\* The rest is reported when the relay is closed.
LEMMA RestIsMetered ==
    ASSUME Metered, UNCHANGED pushed, meter' = MeterRest
    PROVE  Metered'
BY DEF Metered, MeterRest

\* The other events count nothing.
LEMMA NoFramesNoMeter ==
    ASSUME Metered, UNCHANGED pushed, UNCHANGED meter
    PROVE  Metered'
BY DEF Metered

\* Every step of the Deepgram relay counts each frame it is given.
LEMMA DeepgramMeters ==
    ASSUME Metered, DeepgramNext
    PROVE  Metered'
<1>1. CASE \E speech \in BOOLEAN : PushAudio(speech)
  BY <1>1, FrameIsMetered DEF PushAudio, Frames
<1>2. CASE Opens
  BY <1>2, NoFramesNoMeter DEF Opens, NoFrames
<1>3. CASE UtteranceEnd
  BY <1>3, NoFramesNoMeter DEF UtteranceEnd, NoFrames
<1>4. CASE Closes
  BY <1>4, NoFramesNoMeter DEF Closes, NoFrames
<1>5. CASE Reconnects
  BY <1>5, NoFramesNoMeter DEF Reconnects, NoFrames
<1>6. CASE Close
  BY <1>6, RestIsMetered DEF Close, NoFrames
<1>7. CASE Drops
  BY <1>7, NoFramesNoMeter DEF Drops, NoFrames
<1>8. CASE \E n \in Frame : Transcribed(n)
  BY <1>8, NoFramesNoMeter DEF Transcribed, NoFrames
<1> QED
  BY <1>1, <1>2, <1>3, <1>4, <1>5, <1>6, <1>7, <1>8 DEF DeepgramNext

\* Every step of the Whisper relay counts each frame it is given.
LEMMA WhisperMeters ==
    ASSUME Metered, WhisperNext
    PROVE  Metered'
<1>1. CASE PushSilence
  BY <1>1, FrameIsMetered DEF PushSilence, Frames
<1>2. CASE PushSpeech
  BY <1>2, FrameIsMetered DEF PushSpeech, Frames
<1>3. CASE PartialReturns
  BY <1>3, NoFramesNoMeter DEF PartialReturns, NoFrames
<1>4. CASE CloseWhisper
  BY <1>4, RestIsMetered DEF CloseWhisper, NoFrames
<1>5. CASE \E i \in 1..MaxRequests : TranscriptionFails(i) \/ TranscriptionReturns(i)
  BY <1>5, NoFramesNoMeter DEF TranscriptionFails, TranscriptionReturns, NoFrames
<1> QED
  BY <1>1, <1>2, <1>3, <1>4, <1>5 DEF WhisperNext

\* Every frame pushed is metered once, in either relay, over any drops,
\* reconnects, overlapping transcriptions and repeated closes.
THEOREM AllAudioMetered == Spec => []EveryFrameMetered
<1>1. Init => Metered
  BY DEF Init, SttInit, Metered
<1>2. Metered /\ [Next]_vars => Metered'
  <2> SUFFICES ASSUME Metered, [Next]_vars
               PROVE  Metered'
    OBVIOUS
  <2>1. CASE DeepgramNext
    BY <2>1, DeepgramMeters
  <2>2. CASE WhisperNext
    BY <2>2, WhisperMeters
  <2>3. CASE UNCHANGED vars
    BY <2>3, NoFramesNoMeter DEF vars, sttVars
  <2> QED
    BY <2>1, <2>2, <2>3 DEF Next
<1>3. Metered => EveryFrameMetered
  BY DEF Metered, EveryFrameMetered
<1> QED
  BY <1>1, <1>2, <1>3, PTL DEF Spec

-----------------------------------------------------------------------------
(* Reconnecting *)

\* The parts of the relay and of the connection that reconnecting is about.
RelayShape ==
    /\ DOMAIN relay = {"open", "disposed", "attempts", "keepAlive", "timer", "preOpen"}
    /\ {relay.disposed, relay.timer, relay.keepAlive} \subseteq BOOLEAN
    /\ told \in BOOLEAN
    /\ DOMAIN upstream = {"is", "heard"}
    /\ upstream.is \in {"none", "connecting", "up", "broken", "closing"}

DeadInv == RelayShape /\ NeverSilentlyDead

\* Every step of the Deepgram relay keeps it from being dead without a timer or a word to the client.
LEMMA DeepgramNeverDead ==
    ASSUME DeadInv, DeepgramNext
    PROVE  DeadInv'
<1> USE DEF DeadInv, RelayShape, NeverSilentlyDead
<1>1. CASE \E speech \in BOOLEAN : PushAudio(speech)
  BY <1>1 DEF PushAudio, Buffer, Hearing, Missing
<1>2. CASE Opens
  BY <1>2 DEF Opens
<1>3. CASE UtteranceEnd
  BY <1>3 DEF UtteranceEnd
<1>4. CASE Closes
  BY <1>4 DEF Closes, ScheduleReconnect, NotConnected
<1>5. CASE Reconnects
  BY <1>5 DEF Reconnects, Connecting
<1>6. CASE Close
  BY <1>6 DEF Close
<1>7. CASE Drops
  BY <1>7 DEF Drops
<1>8. CASE \E n \in Frame : Transcribed(n)
  BY <1>8 DEF Transcribed
<1> QED
  BY <1>1, <1>2, <1>3, <1>4, <1>5, <1>6, <1>7, <1>8 DEF DeepgramNext

\* Without a connection the streaming relay is waiting to reconnect, was closed
\* or has told the client, and it keeps no dead connection alive: however many
\* drops, give-ups and late openings there are.
THEOREM RelayNeverDead == Spec => []NeverDead
<1> DEFINE Inv == provider = "deepgram" => DeadInv
<1>1. Init => Inv
  <2> SUFFICES ASSUME Init, provider = "deepgram"
               PROVE  DeadInv
    OBVIOUS
  <2>1. /\ relay = [open |-> FALSE, disposed |-> FALSE, attempts |-> 0,
                    keepAlive |-> FALSE, timer |-> FALSE, preOpen |-> <<>>]
        /\ upstream = [is |-> "connecting", heard |-> NoText]
        /\ told = FALSE
    BY DEF Init, SttInit, DeepgramInit, Connecting
  <2>2. RelayShape
    BY <2>1 DEF RelayShape
  <2>3. NeverSilentlyDead
    BY <2>1 DEF NeverSilentlyDead
  <2> QED
    BY <2>2, <2>3 DEF DeadInv
<1>2. Inv /\ [Next]_vars => Inv'
  <2> SUFFICES ASSUME Inv, [Next]_vars, provider' = "deepgram"
               PROVE  DeadInv'
    OBVIOUS
  <2>1. CASE Next
    BY <2>1, DeepgramNeverDead DEF Next
  <2>2. CASE UNCHANGED vars
    BY <2>2 DEF vars, sttVars, deepgramVars, DeadInv, RelayShape, NeverSilentlyDead
  <2> QED
    BY <2>1, <2>2
<1>3. Inv => NeverDead
  BY DEF DeadInv, NeverDead
<1> QED
  BY <1>1, <1>2, <1>3, PTL DEF Spec
-----------------------------------------------------------------------------
(* Induction, over sets of numbers                                          *)

\* A set of naturals with 0 and the successor of each is all of them.
LEMMA AllNaturals ==
    ASSUME NEW S \in SUBSET Nat, 0 \in S, \A n \in S : n + 1 \in S
    PROVE  S = Nat
<1> SUFFICES ASSUME Nat \ S # {}
             PROVE  FALSE
  OBVIOUS
<1> DEFINE T == Nat \ S
           R == OpToRel(<, Nat)
<1>1. IsWellFoundedOn(R, Nat)
  BY NatLessThanWellFounded
<1>2. T \subseteq Nat /\ T # {}
  OBVIOUS
<1>3. \E x \in T : \A y \in T : ~(<<y, x>> \in R)
  <2> HIDE DEF T, R
  <2> QED
    BY WFMin, <1>1, <1>2, Zenon
<1>4. PICK x \in T : \A y \in T : ~(<<y, x>> \in R)
  BY <1>3
<1>5. x \in Nat \ {0}
  OBVIOUS
<1>6. x - 1 \in Nat /\ (x - 1) + 1 = x /\ x - 1 < x
  BY <1>5
<1>7. x - 1 \in S
  <2>1. x - 1 \in T => <<x - 1, x>> \in R
    BY <1>6, <1>5 DEF OpToRel
  <2> QED
    BY <2>1, <1>4, <1>6
<1> QED
  BY <1>7, <1>6

-----------------------------------------------------------------------------
(* Flattening                                                               *)

\* f flattens the first n texts of s.
Flattens(f, s, n) ==
    f = [i \in 1..n |-> IF i = 1 THEN s[i] ELSE f[i-1] \o s[i]]

Flat(s) == CHOOSE f : Flattens(f, s, Len(s))

\* FlattenSeq is what its recursive function comes to.
LEMMA FlattenIsFlat ==
    ASSUME NEW s
    PROVE  FlattenSeq(s) = IF Len(s) = 0 THEN s ELSE Flat(s)[Len(s)]
BY DEF FlattenSeq, Flat, Flattens

\* Every beginning of a sequence can be flattened.
LEMMA CanFlatten ==
    ASSUME NEW s, NEW m \in Nat
    PROVE  \E f : Flattens(f, s, m)
<1> DEFINE Good == {n \in Nat : \E f : Flattens(f, s, n)}
<1>1. 0 \in Good
  <2>1. Flattens([i \in 1..0 |-> s[i]], s, 0)
    BY DEF Flattens
  <2> QED
    BY <2>1
<1>2. ASSUME NEW n \in Good
      PROVE  n + 1 \in Good
  <2>1. PICK f : Flattens(f, s, n)
    OBVIOUS
  <2> DEFINE g == [i \in 1..n + 1 |->
                     IF i = n + 1 THEN IF n = 0 THEN s[i] ELSE f[n] \o s[i] ELSE f[i]]
  <2>2. ASSUME NEW i \in 1..n + 1
        PROVE  g[i] = IF i = 1 THEN s[i] ELSE g[i-1] \o s[i]
    <3>1. CASE i = n + 1
      BY <3>1, n \in Nat
    <3>2. CASE i # n + 1
      <4>1. i \in 1..n /\ (i # 1 => i - 1 \in 1..n /\ i - 1 \in 1..n + 1 /\ i - 1 # n + 1)
        BY <3>2, n \in Nat
      <4>2. f[i] = IF i = 1 THEN s[i] ELSE f[i-1] \o s[i]
        BY <2>1, <4>1 DEF Flattens
      <4> QED
        BY <4>1, <4>2, <3>2
    <3> QED
      BY <3>1, <3>2
  <2>3. Flattens(g, s, n + 1)
    <3>1. g = [i \in 1..n + 1 |-> g[i]]
      OBVIOUS
    <3> HIDE DEF g
    <3> QED
      BY <3>1, <2>2 DEF Flattens
  <2> QED
    BY <2>3
<1>3. Good = Nat
  <2> HIDE DEF Good
  <2>1. Good \in SUBSET Nat
    BY DEF Good
  <2> QED
    BY <1>1, <1>2, <2>1, AllNaturals
<1> QED
  BY <1>3

LEMMA FlatFlattens ==
    ASSUME NEW s, Len(s) \in Nat
    PROVE  Flattens(Flat(s), s, Len(s))
<1>1. \E f : Flattens(f, s, Len(s))
  BY CanFlatten
<1> QED
  BY <1>1, Zenon DEF Flat

\* Nothing flattens to nothing, and what is appended comes last.
LEMMA FlattenNone ==
    FlattenSeq(<<>>) = <<>>
BY FlattenIsFlat

LEMMA FlattenLonger ==
    ASSUME NEW s, NEW r, NEW t, NEW n \in Nat \ {0},
           Len(s) = n, Len(r) = n + 1, r[n + 1] = t, \A i \in 1..n : r[i] = s[i]
    PROVE  FlattenSeq(r) = FlattenSeq(s) \o t
<1> DEFINE f == Flat(s)
           g == Flat(r)
<1>1. Flattens(f, s, n) /\ Flattens(g, r, n + 1)
  BY FlatFlattens
<1>2. FlattenSeq(r) = g[n + 1] /\ FlattenSeq(s) = f[n]
  <2>1. Len(r) # 0 /\ Len(s) # 0
    OBVIOUS
  <2> QED
    BY <2>1, FlattenIsFlat
<1> DEFINE Same == {i \in Nat : i \in 1..n => f[i] = g[i]}
<1> HIDE DEF f, g
<1>3. 0 \in Same
  OBVIOUS
<1>4. ASSUME NEW i \in Same
      PROVE  i + 1 \in Same
  <2> SUFFICES ASSUME i + 1 \in 1..n
               PROVE  f[i + 1] = g[i + 1]
    OBVIOUS
  <2>1. i \in Nat /\ i + 1 \in 1..n + 1 /\ (i # 0 => i \in 1..n) /\ (i + 1) - 1 = i
    OBVIOUS
  <2>2. f[i + 1] = IF i + 1 = 1 THEN s[i + 1] ELSE f[(i + 1) - 1] \o s[i + 1]
    BY <1>1 DEF Flattens
  <2>3. g[i + 1] = IF i + 1 = 1 THEN r[i + 1] ELSE g[(i + 1) - 1] \o r[i + 1]
    BY <1>1, <2>1 DEF Flattens
  <2>4. r[i + 1] = s[i + 1]
    OBVIOUS
  <2>5. CASE i = 0
    BY <2>2, <2>3, <2>4, <2>5
  <2>6. CASE i # 0
    <3>1. f[i] = g[i] /\ i + 1 # 1
      BY <2>1, <2>6
    <3> QED
      BY <2>1, <2>2, <2>3, <2>4, <3>1
  <2> QED
    BY <2>5, <2>6
<1>5. Same = Nat
  <2>1. Same \in SUBSET Nat
    OBVIOUS
  <2> HIDE DEF Same
  <2> QED
    BY <1>3, <1>4, <2>1, AllNaturals
<1>6. f[n] = g[n]
  <2>1. n \in Same /\ n \in 1..n
    BY <1>5
  <2> QED
    BY <2>1
<1>7. g[n + 1] = g[n] \o t
  <2>1. n + 1 \in 1..n + 1 /\ n + 1 # 1 /\ (n + 1) - 1 = n
    OBVIOUS
  <2>2. g[n + 1] = IF n + 1 = 1 THEN r[n + 1] ELSE g[(n + 1) - 1] \o r[n + 1]
    BY <1>1, <2>1 DEF Flattens
  <2> QED
    BY <2>1, <2>2
<1> QED
  BY <1>2, <1>6, <1>7

LEMMA FlattenAppend ==
    ASSUME NEW S, NEW s \in Seq(Seq(S)), NEW t \in Seq(S)
    PROVE  FlattenSeq(Append(s, t)) = FlattenSeq(s) \o t
<1>1. PICK r : r = Append(s, t)
  OBVIOUS
<1>2. PICK n : n = Len(s)
  OBVIOUS
<1>3. /\ n \in Nat /\ Len(r) = n + 1 /\ r[n + 1] = t
      /\ \A i \in 1..n : r[i] = s[i]
  BY <1>1, <1>2
<1>4. CASE n # 0
  <2>1. n \in Nat \ {0}
    BY <1>3, <1>4
  <2>2. FlattenSeq(r) = FlattenSeq(s) \o t
    BY <1>2, <1>3, <2>1, FlattenLonger, Zenon
  <2> QED
    BY <1>1, <2>2
<1>5. CASE n = 0
  <2>1. s = <<>>
    BY <1>2, <1>5, EmptySeq, Zenon
  <2>2. Len(r) = 1 /\ r[1] = t
    BY <1>3, <1>5
  <2>3. Len(r) # 0 /\ Len(r) \in Nat
    BY <2>2
  <2>4. FlattenSeq(r) = Flat(r)[Len(r)]
    BY <2>3, FlattenIsFlat, Zenon
  <2>5. Flattens(Flat(r), r, 1)
    BY <2>2, <2>3, FlatFlattens, Zenon
  <2>6. Flat(r)[1] = r[1]
    BY <2>5 DEF Flattens
  <2>7. FlattenSeq(s) = <<>>
    BY <2>1, FlattenNone, Zenon
  <2>8. FlattenSeq(r) = t
    BY <2>2, <2>4, <2>6, Zenon
  <2>9. <<>> \o t = t
    OBVIOUS
  <2> QED
    BY <2>7, <2>8, <2>9, <1>1, Zenon
<1> QED
  BY <1>4, <1>5

\* Texts flatten to a text.
LEMMA FlattenType ==
    ASSUME NEW S, NEW s \in Seq(Seq(S))
    PROVE  FlattenSeq(s) \in Seq(S)
<1> DEFINE n == Len(s)
           f == Flat(s)
<1>1. n \in Nat /\ \A i \in 1..n : s[i] \in Seq(S)
  OBVIOUS
<1>2. Flattens(f, s, n)
  BY <1>1, FlatFlattens
<1> DEFINE Good == {i \in Nat : i \in 1..n => f[i] \in Seq(S)}
<1> HIDE DEF f, n
<1>3. 0 \in Good
  OBVIOUS
<1>4. ASSUME NEW i \in Good
      PROVE  i + 1 \in Good
  <2> SUFFICES ASSUME i + 1 \in 1..n
               PROVE  f[i + 1] \in Seq(S)
    OBVIOUS
  <2>1. i \in Nat /\ (i # 0 => i \in 1..n) /\ (i + 1) - 1 = i
    BY <1>1
  <2>2. f[i + 1] = IF i + 1 = 1 THEN s[i + 1] ELSE f[(i + 1) - 1] \o s[i + 1]
    BY <1>2 DEF Flattens
  <2>3. s[i + 1] \in Seq(S)
    BY <1>1
  <2>4. CASE i = 0
    BY <2>2, <2>3, <2>4
  <2>5. CASE i # 0
    <3>1. i + 1 # 1 /\ i \in 1..n
      BY <2>1, <2>5
    <3>2. f[i + 1] = f[i] \o s[i + 1] /\ f[i] \in Seq(S)
      BY <2>1, <2>2, <3>1
    <3> QED
      BY <3>2, <2>3
  <2> QED
    BY <2>4, <2>5
<1>5. Good = Nat
  <2>1. Good \in SUBSET Nat
    OBVIOUS
  <2> HIDE DEF Good
  <2> QED
    BY <1>3, <1>4, <2>1, AllNaturals
<1>6. CASE n = 0
  <2>1. s = <<>>
    BY <1>6 DEF n
  <2>2. FlattenSeq(s) = <<>>
    BY <2>1, FlattenNone
  <2> QED
    BY <2>2
<1>7. CASE n # 0
  <2>1. n \in 1..n /\ n \in Good
    BY <1>1, <1>5, <1>7
  <2> QED
    BY <2>1, <1>7, FlattenIsFlat DEF f, n
<1> QED
  BY <1>6, <1>7
-----------------------------------------------------------------------------
(* Texts                                                                    *)

Ascending(s) == \A i, j \in DOMAIN s : i < j => s[i] < s[j]

\* All of s comes before all of t.
Before(s, t) == \A a \in ToSet(s), b \in ToSet(t) : a < b

\* A text holds frames.
LEMMA TextFacts ==
    ASSUME NEW s \in Text
    PROVE  /\ Len(s) \in Nat /\ DOMAIN s = 1..Len(s)
           /\ \A i \in 1..Len(s) : s[i] \in Frame
           /\ ToSet(s) \subseteq Frame
BY DEF Text, ToSet

\* A text behind another one
LEMMA JoinedText ==
    ASSUME NEW s \in Text, NEW t \in Text
    PROVE  /\ s \o t \in Text
           /\ ToSet(s \o t) = ToSet(s) \cup ToSet(t)
           /\ Ascending(s \o t) <=> Ascending(s) /\ Ascending(t) /\ Before(s, t)
<1>1. PICK r : r = s \o t
  OBVIOUS
<1>2. /\ r \in Text /\ Len(r) = Len(s) + Len(t)
      /\ \A i \in 1..Len(s) + Len(t) : r[i] = IF i <= Len(s) THEN s[i] ELSE t[i - Len(s)]
  BY <1>1, ConcatProperties, Zenon DEF Text
<1>3. /\ Len(s) \in Nat /\ DOMAIN s = 1..Len(s)
      /\ Len(t) \in Nat /\ DOMAIN t = 1..Len(t)
      /\ DOMAIN r = 1..(Len(s) + Len(t))
  BY <1>2, TextFacts
<1> DEFINE m == Len(s)
           n == Len(t)
<1>4. /\ \A i \in 1..m : i \in 1..(m + n) /\ r[i] = s[i]
      /\ \A i \in 1..n : m + i \in 1..(m + n) /\ r[m + i] = t[i]
      /\ \A i \in 1..(m + n) : i \in 1..m \/ (i - m \in 1..n /\ i = m + (i - m))
  <2>1. ASSUME NEW i \in 1..m
        PROVE  i \in 1..(m + n) /\ r[i] = s[i]
    <3>1. i \in 1..(m + n) /\ i <= m
      BY <1>3
    <3> QED
      BY <1>2, <3>1
  <2>2. ASSUME NEW i \in 1..n
        PROVE  m + i \in 1..(m + n) /\ r[m + i] = t[i]
    <3>1. m + i \in 1..(m + n) /\ ~(m + i <= m) /\ (m + i) - m = i
      BY <1>3
    <3> QED
      BY <1>2, <3>1
  <2>3. ASSUME NEW i \in 1..(m + n)
        PROVE  i \in 1..m \/ (i - m \in 1..n /\ i = m + (i - m))
    BY <1>3
  <2> QED
    BY <2>1, <2>2, <2>3
<1>5. \A i, j \in 1..n : m + i < m + j <=> i < j
  BY <1>3
<1>6. \A i \in 1..m, j \in 1..n : i < m + j
  BY <1>3
<1> HIDE DEF m, n
<1>7. ToSet(r) = ToSet(s) \cup ToSet(t)
  <2>1. /\ ToSet(s) = {s[i] : i \in 1..m} /\ ToSet(t) = {t[i] : i \in 1..n}
        /\ ToSet(r) = {r[i] : i \in 1..(m + n)}
    BY <1>3 DEF ToSet, m, n
  <2>2. ASSUME NEW x \in ToSet(r)
        PROVE  x \in ToSet(s) \cup ToSet(t)
    <3>1. PICK i \in 1..(m + n) : x = r[i]
      BY <2>1
    <3>2. CASE i \in 1..m
      BY <2>1, <3>1, <3>2, <1>4
    <3>3. CASE i - m \in 1..n /\ i = m + (i - m)
      <4>1. x = t[i - m]
        BY <3>1, <3>3, <1>4
      <4> QED
        BY <2>1, <3>3, <4>1
    <3> QED
      BY <3>2, <3>3, <1>4
  <2>3. ToSet(s) \subseteq ToSet(r)
    BY <2>1, <1>4
  <2>4. ASSUME NEW i \in 1..n
        PROVE  t[i] \in ToSet(r)
    BY <2>1, <1>4
  <2> QED
    BY <2>1, <2>2, <2>3, <2>4
<1>8. ASSUME Ascending(r)
      PROVE  Ascending(s) /\ Ascending(t) /\ Before(s, t)
  <2>1. Ascending(s)
    BY <1>3, <1>4, <1>8 DEF Ascending, m, n
  <2>2. Ascending(t)
    BY <1>3, <1>4, <1>5, <1>8 DEF Ascending, m, n
  <2>3. Before(s, t)
    <3>1. \A i \in 1..m, j \in 1..n : r[i] < r[m + j]
      BY <1>3, <1>4, <1>6, <1>8 DEF Ascending, m, n
    <3> QED
      BY <1>3, <1>4, <3>1 DEF Before, ToSet, m, n
  <2> QED
    BY <2>1, <2>2, <2>3
<1>9. ASSUME Ascending(s), Ascending(t), Before(s, t)
      PROVE  Ascending(r)
  <2> SUFFICES ASSUME NEW i \in 1..(m + n), NEW j \in 1..(m + n), i < j
               PROVE  r[i] < r[j]
    BY <1>3 DEF Ascending, m, n
  <2>1. CASE i \in 1..m /\ j \in 1..m
    BY <2>1, <1>3, <1>4, <1>9 DEF Ascending, m, n
  <2>2. CASE i \in 1..m /\ j - m \in 1..n /\ j = m + (j - m)
    <3>1. s[i] < t[j - m]
      BY <2>2, <1>3, <1>9 DEF Before, ToSet, m, n
    <3> QED
      BY <3>1, <2>2, <1>4
  <2>3. CASE i - m \in 1..n /\ i = m + (i - m) /\ j - m \in 1..n /\ j = m + (j - m)
    <3>1. i - m < j - m
      BY <1>3 DEF m, n
    <3>2. t[i - m] < t[j - m]
      BY <3>1, <2>3, <1>3, <1>9 DEF Ascending, m, n
    <3> QED
      BY <3>2, <2>3, <1>4
  <2>4. ~(i \notin 1..m /\ j \in 1..m)
    BY <1>3 DEF m, n
  <2> QED
    BY <2>1, <2>2, <2>3, <2>4, <1>4
<1> QED
  BY <1>1, <1>2, <1>7, <1>8, <1>9, Zenon

\* One frame, and none
LEMMA ShortText ==
    ASSUME NEW f \in Frame
    PROVE  <<f>> \in Text /\ ToSet(<<f>>) = {f} /\ Ascending(<<f>>)
BY DEF Text, ToSet, Ascending

LEMMA EmptyText ==
    NoText \in Text /\ ToSet(NoText) = {} /\ Ascending(NoText)
BY DEF Text, NoText, ToSet, Ascending

-----------------------------------------------------------------------------
(* What is heard of frames                                                  *)

\* What each of the frames b holds if the voiced ones are V, and all of it.
Holds(f, V) == IF f \in V THEN <<f>> ELSE NoText
Heard(b, V) == FlattenSeq([n \in DOMAIN b |-> IF b[n] \in V THEN <<b[n]>> ELSE NoText])

\* One frame more
LEMMA HeardMore ==
    ASSUME NEW b \in Text, NEW f \in Frame, NEW V
    PROVE  Heard(Append(b, f), V) = Heard(b, V) \o Holds(f, V)
<1> DEFINE Texts(c) == [n \in DOMAIN c |-> Holds(c[n], V)]
<1>1. PICK c : c = Append(b, f)
  OBVIOUS
<1>2. PICK m : m = Len(b)
  OBVIOUS
<1>3. /\ m \in Nat /\ DOMAIN b = 1..m /\ DOMAIN c = 1..m + 1 /\ c[m + 1] = f
      /\ \A i \in 1..m : c[i] = b[i] /\ b[i] \in Frame
  BY <1>1, <1>2 DEF Text
<1>4. \A g \in Frame : Holds(g, V) \in Text
  BY ShortText, EmptyText DEF Holds
<1>5. Texts(b) \in Seq(Text) /\ Len(Texts(b)) = m
  <2>1. \A i \in 1..m : Holds(b[i], V) \in Text
    BY <1>3, <1>4
  <2>2. Texts(b) = [i \in 1..m |-> Holds(b[i], V)]
    BY <1>3
  <2>3. \A T : (\A i \in 1..m : Holds(b[i], V) \in T)
                  => [i \in 1..m |-> Holds(b[i], V)] \in Seq(T)
    BY <1>3
  <2>4. Len([i \in 1..m |-> Holds(b[i], V)]) = m
    BY <1>3
  <2> QED
    BY <2>1, <2>2, <2>3, <2>4, Zenon
<1>6. Texts(c) = Append(Texts(b), Holds(f, V))
  <2>1. PICK s : s = Texts(b)
    OBVIOUS
  <2>2. PICK x : x = Holds(f, V)
    OBVIOUS
  <2>3. s \in Seq(Text) /\ Len(s) = m /\ x \in Text
    BY <1>4, <1>5, <2>1, <2>2
  <2>4. \A i \in 1..m : s[i] = Holds(b[i], V)
    BY <1>3, <2>1
  <2>5. PICK z : z = Append(s, x)
    OBVIOUS
  <2>6. /\ z \in Seq(Text) /\ Len(z) = m + 1 /\ z[m + 1] = x
        /\ \A i \in 1..m : z[i] = s[i]
    BY <2>3, <2>5, AppendProperties, Zenon
  <2>7. z \in [1..m + 1 -> Text]
    BY <2>6, LenProperties, Zenon
  <2>8. Texts(c) = [i \in 1..m + 1 |-> Holds(c[i], V)]
    BY <1>3
  <2>9. ASSUME NEW i \in 1..m + 1
        PROVE  Holds(c[i], V) = z[i]
    <3>1. CASE i = m + 1
      BY <3>1, <1>3, <2>2, <2>6
    <3>2. CASE i # m + 1
      <4>1. i \in 1..m
        BY <3>2, <1>3
      <4> QED
        BY <4>1, <3>2, <1>3, <2>4, <2>6
    <3> QED
      BY <3>1, <3>2
  <2>10. Texts(c) = z
    BY <2>7, <2>8, <2>9
  <2> QED
    BY <2>1, <2>2, <2>5, <2>10
<1>7. FlattenSeq(Append(Texts(b), Holds(f, V))) = FlattenSeq(Texts(b)) \o Holds(f, V)
  <2> HIDE DEF Texts, Holds
  <2> QED
    BY <1>4, <1>5, FlattenAppend, Zenon DEF Text
<1>8. FlattenSeq(Texts(c)) = Heard(c, V) /\ FlattenSeq(Texts(b)) = Heard(b, V)
  BY DEF Heard, Holds
<1> HIDE DEF Texts
<1> QED
  BY <1>1, <1>6, <1>7, <1>8, Zenon

\* Of no frame nothing is heard, of one what it holds.
LEMMA HeardOne ==
    ASSUME NEW f \in Frame, NEW V
    PROVE  Heard(<<>>, V) = NoText /\ Heard(<<f>>, V) = Holds(f, V)
<1>1. Heard(<<>>, V) = NoText
  <2>1. [n \in DOMAIN <<>> |-> IF <<>>[n] \in V THEN <<<<>>[n]>> ELSE NoText] = <<>>
    OBVIOUS
  <2> QED
    BY <2>1, FlattenNone DEF Heard, NoText
<1>2. <<f>> = Append(<<>>, f) /\ <<>> \in Text
  BY DEF Text
<1>3. Holds(f, V) \in Text
  BY ShortText, EmptyText DEF Holds
<1>4. NoText \o Holds(f, V) = Holds(f, V)
  BY <1>3, ConcatEmptySeq, Zenon DEF Text, NoText
<1>5. Heard(Append(<<>>, f), V) = Heard(<<>>, V) \o Holds(f, V)
  BY <1>2, HeardMore, Zenon
<1> QED
  BY <1>1, <1>2, <1>4, <1>5, Zenon

\* Of frames in order their speech is heard, in order.
LEMMA HeardInOrder ==
    ASSUME NEW b \in Text, Ascending(b), NEW V
    PROVE  /\ Heard(b, V) \in Text
           /\ ToSet(Heard(b, V)) = ToSet(b) \cap V
           /\ Ascending(Heard(b, V))
<1> DEFINE Fits(c) == /\ Heard(c, V) \in Text
                      /\ ToSet(Heard(c, V)) = ToSet(c) \cap V
                      /\ Ascending(Heard(c, V))
           Good == {n \in Nat : \A c \in Text : Len(c) = n /\ Ascending(c) => Fits(c)}
<1>1. 0 \in Good
  <2> SUFFICES ASSUME NEW c \in Text, Len(c) = 0
               PROVE  Fits(c)
    OBVIOUS
  <2>1. c = <<>>
    BY EmptySeq, Zenon DEF Text
  <2>2. Heard(c, V) = NoText
    <3>1. [n \in DOMAIN <<>> |-> IF <<>>[n] \in V THEN <<<<>>[n]>> ELSE NoText] = <<>>
      OBVIOUS
    <3> QED
      BY <2>1, <3>1, FlattenNone DEF Heard, NoText
  <2>3. ToSet(c) = {}
    BY <2>1, EmptyText DEF NoText
  <2> QED
    BY <2>2, <2>3, EmptyText
<1>2. ASSUME NEW n \in Good
      PROVE  n + 1 \in Good
  <2> SUFFICES ASSUME NEW c \in Text, Len(c) = n + 1, Ascending(c)
               PROVE  Fits(c)
    OBVIOUS
  <2>1. PICK d, f : d \in Text /\ f \in Frame /\ c = Append(d, f) /\ Len(d) = n
    <3>1. SubSeq(c, 1, n) \in Text /\ c[n + 1] \in Frame /\ Len(SubSeq(c, 1, n)) = n
      BY DEF Text
    <3>2. c = Append(SubSeq(c, 1, n), c[n + 1])
      BY DEF Text
    <3> QED
      BY <3>1, <3>2
  <2>2. c = d \o <<f>>
    BY <2>1, AppendIsConcat, Zenon DEF Text
  <2>3. Ascending(d) /\ Before(d, <<f>>) /\ <<f>> \in Text /\ ToSet(c) = ToSet(d) \cup {f}
    <3>1. <<f>> \in Text /\ ToSet(<<f>>) = {f}
      BY <2>1, ShortText, Zenon
    <3>2. Ascending(d \o <<f>>)
      BY <2>2
    <3>3. /\ ToSet(d \o <<f>>) = ToSet(d) \cup ToSet(<<f>>)
          /\ Ascending(d \o <<f>>) <=> Ascending(d) /\ Ascending(<<f>>) /\ Before(d, <<f>>)
      BY <2>1, <3>1, JoinedText, Zenon
    <3> QED
      BY <2>2, <3>1, <3>2, <3>3, Zenon
  <2>4. /\ Heard(d, V) \in Text /\ ToSet(Heard(d, V)) = ToSet(d) \cap V
        /\ Ascending(Heard(d, V))
    <3>1. \A e \in Text : Len(e) = n /\ Ascending(e) => Fits(e)
      OBVIOUS
    <3>2. Fits(d)
      <4> HIDE DEF Fits
      <4> QED
        BY <3>1, <2>1, <2>3
    <3> QED
      BY <3>2
  <2>5. Heard(c, V) = Heard(d, V) \o Holds(f, V)
    BY <2>1, HeardMore, Zenon
  <2>6. /\ Holds(f, V) \in Text /\ ToSet(Holds(f, V)) = {f} \cap V
        /\ Ascending(Holds(f, V))
    BY <2>1, ShortText, EmptyText DEF Holds
  <2>7. Before(Heard(d, V), Holds(f, V))
    BY <2>3, <2>4, <2>6, <2>1, ShortText, EmptyText DEF Before
  <2>8. /\ Heard(c, V) \in Text
        /\ ToSet(Heard(c, V)) = ToSet(Heard(d, V)) \cup ToSet(Holds(f, V))
        /\ Ascending(Heard(c, V))
    <3> HIDE DEF Fits
    <3>1. PICK u, v : u = Heard(d, V) /\ v = Holds(f, V)
      OBVIOUS
    <3>2. u \in Text /\ v \in Text /\ Ascending(u) /\ Ascending(v) /\ Before(u, v)
      BY <2>4, <2>6, <2>7, <3>1, Zenon
    <3>3. /\ u \o v \in Text /\ ToSet(u \o v) = ToSet(u) \cup ToSet(v)
          /\ Ascending(u \o v) <=> Ascending(u) /\ Ascending(v) /\ Before(u, v)
      BY <3>2, JoinedText, Zenon
    <3> QED
      BY <2>5, <3>1, <3>2, <3>3, Zenon
  <2> QED
    BY <2>3, <2>4, <2>6, <2>8
<1>3. Good = Nat
  <2>1. Good \in SUBSET Nat
    OBVIOUS
  <2> HIDE DEF Good
  <2> QED
    BY <1>1, <1>2, <2>1, AllNaturals
<1>4. Len(b) \in Good
  BY <1>3, TextFacts
<1> QED
  BY <1>4
-----------------------------------------------------------------------------
(* What becomes of speech                                                   *)

\* Of n frames pushed those in V are voiced: understood in U, in the buffer B
\* or missing in M, and the buffer comes after what was understood.
Spoken(U, B, V, M, n) ==
    /\ n \in Nat
    /\ U \in Text /\ B \in Text
    /\ V \subseteq 1..n /\ ToSet(B) \subseteq 1..n
    /\ Ascending(U) /\ Ascending(B) /\ Before(U, B)
    /\ V = ToSet(U) \cup (ToSet(B) \cap V) \cup M

\* A silent frame
LEMMA SilentFrame ==
    ASSUME NEW U, NEW B, NEW V, NEW M, NEW n, Spoken(U, B, V, M, n)
    PROVE  Spoken(U, B, V, M, n + 1)
<1>1. 1..n \subseteq 1..n + 1
  BY DEF Spoken
<1> QED
  BY <1>1 DEF Spoken

\* A frame that is missing if it is voiced
LEMMA MissedFrame ==
    ASSUME NEW U, NEW B, NEW V, NEW M, NEW n, Spoken(U, B, V, M, n)
    PROVE  Spoken(U, B, V \cup {n + 1}, M \cup {n + 1}, n + 1)
<1>1. 1..n \subseteq 1..n + 1 /\ n + 1 \in 1..n + 1 /\ n + 1 \notin 1..n
  BY DEF Spoken
<1>2. V \cup {n + 1} =
        ToSet(U) \cup (ToSet(B) \cap (V \cup {n + 1})) \cup (M \cup {n + 1})
  BY <1>1 DEF Spoken
<1> QED
  BY <1>1, <1>2 DEF Spoken

\* A frame of speech behind what was understood, with nothing in the buffer
LEMMA HeardFrame ==
    ASSUME NEW U, NEW V, NEW M, NEW n, Spoken(U, <<>>, V, M, n), n + 1 \in Frame
    PROVE  Spoken(U \o <<n + 1>>, <<>>, V \cup {n + 1}, M, n + 1)
<1>1. n \in Nat /\ 1..n \subseteq 1..n + 1 /\ n + 1 \in 1..n + 1
  BY DEF Spoken
<1>2. U \in Text /\ Ascending(U) /\ ToSet(U) \subseteq 1..n
  BY DEF Spoken
<1>3. Before(U, <<n + 1>>)
  BY <1>1, <1>2, ShortText DEF Before
<1>4. /\ U \o <<n + 1>> \in Text /\ ToSet(U \o <<n + 1>>) = ToSet(U) \cup {n + 1}
      /\ Ascending(U \o <<n + 1>>)
  <2>1. /\ <<n + 1>> \in Text /\ ToSet(<<n + 1>>) = {n + 1} /\ Ascending(<<n + 1>>)
    BY ShortText, Zenon
  <2> QED
    BY <2>1, <1>2, <1>3, JoinedText, Zenon
<1>5. /\ <<>> \in Text /\ ToSet(<<>>) = {} /\ Ascending(<<>>)
  BY EmptyText DEF NoText
<1>6. Before(U \o <<n + 1>>, <<>>)
  BY <1>5 DEF Before
<1>7. V = ToSet(U) \cup M /\ V \subseteq 1..n
  BY <1>5 DEF Spoken
<1> QED
  BY <1>1, <1>4, <1>5, <1>6, <1>7 DEF Spoken

\* A frame that is buffered: of speech, if X has it
LEMMA BufferedFrame ==
    ASSUME NEW U, NEW B, NEW V, NEW M, NEW n, Spoken(U, B, V, M, n), n + 1 \in Frame,
           NEW X \in SUBSET {n + 1}
    PROVE  Spoken(U, Append(B, n + 1), V \cup X, M, n + 1)
<1>1. n \in Nat /\ 1..n \subseteq 1..n + 1 /\ n + 1 \in 1..n + 1 /\ n + 1 \notin 1..n
  BY DEF Spoken
<1>2. /\ B \in Text /\ Ascending(B) /\ ToSet(B) \subseteq 1..n
      /\ U \in Text /\ ToSet(U) \subseteq 1..n /\ Before(U, B)
  BY DEF Spoken
<1>3. PICK C : C = Append(B, n + 1)
  OBVIOUS
<1>4. C = B \o <<n + 1>>
  BY <1>2, <1>3, AppendIsConcat, Zenon DEF Text
<1>5. Before(B, <<n + 1>>) /\ Before(U, <<n + 1>>)
  BY <1>1, <1>2, ShortText DEF Before
<1>6. C \in Text /\ ToSet(C) = ToSet(B) \cup {n + 1} /\ Ascending(C)
  <2>1. /\ <<n + 1>> \in Text /\ ToSet(<<n + 1>>) = {n + 1} /\ Ascending(<<n + 1>>)
    BY ShortText, Zenon
  <2>2. /\ B \o <<n + 1>> \in Text /\ ToSet(B \o <<n + 1>>) = ToSet(B) \cup ToSet(<<n + 1>>)
        /\ Ascending(B \o <<n + 1>>) <=>
              Ascending(B) /\ Ascending(<<n + 1>>) /\ Before(B, <<n + 1>>)
    BY <2>1, <1>2, JoinedText, Zenon
  <2> QED
    BY <2>1, <2>2, <1>2, <1>4, <1>5, Zenon
<1>7. Before(U, C)
  <2>1. \A a \in ToSet(U) : a < n + 1
    BY <1>5, ShortText DEF Before
  <2> QED
    BY <2>1, <1>2, <1>6 DEF Before
<1>8. V \cup X = ToSet(U) \cup (ToSet(C) \cap (V \cup X)) \cup M
  <2>1. V = ToSet(U) \cup (ToSet(B) \cap V) \cup M /\ V \subseteq 1..n
    BY DEF Spoken
  <2> QED
    BY <2>1, <1>1, <1>6
<1>9. V \cup X \subseteq 1..n + 1 /\ ToSet(C) \subseteq 1..n + 1
  BY <1>1, <1>2, <1>6 DEF Spoken
<1> QED
  BY <1>1, <1>2, <1>3, <1>6, <1>7, <1>8, <1>9 DEF Spoken

\* The buffer is replayed, and what it holds of speech is heard.
LEMMA Replayed ==
    ASSUME NEW U, NEW B, NEW V, NEW M, NEW n, Spoken(U, B, V, M, n)
    PROVE  Spoken(U \o Heard(B, V), <<>>, V, M, n)
<1>1. /\ U \in Text /\ Ascending(U) /\ B \in Text /\ Ascending(B) /\ Before(U, B)
  BY DEF Spoken
<1>2. PICK H : H = Heard(B, V)
  OBVIOUS
<1>3. H \in Text /\ ToSet(H) = ToSet(B) \cap V /\ Ascending(H)
  BY <1>1, <1>2, HeardInOrder, Zenon
<1>4. Before(U, H)
  BY <1>1, <1>3 DEF Before
<1>5. /\ U \o H \in Text /\ ToSet(U \o H) = ToSet(U) \cup ToSet(H)
      /\ Ascending(U \o H)
  BY <1>1, <1>3, <1>4, JoinedText, Zenon
<1>6. /\ <<>> \in Text /\ ToSet(<<>>) = {} /\ Ascending(<<>>)
  BY EmptyText DEF NoText
<1>7. Before(U \o H, <<>>)
  BY <1>6 DEF Before
<1> QED
  BY <1>2, <1>3, <1>5, <1>6, <1>7 DEF Spoken

\* The buffer is lost.
LEMMA ReplayLost ==
    ASSUME NEW U, NEW B, NEW V, NEW M, NEW n, Spoken(U, B, V, M, n)
    PROVE  Spoken(U, <<>>, V, M \cup {f \in ToSet(B) : f \in V}, n)
<1>1. /\ <<>> \in Text /\ ToSet(<<>>) = {} /\ Ascending(<<>>)
  BY EmptyText DEF NoText
<1>2. Before(U, <<>>)
  BY <1>1 DEF Before
<1> QED
  BY <1>1, <1>2 DEF Spoken

\* The end of what was understood is lost.
LEMMA EndLost ==
    ASSUME NEW P \in Text, NEW H \in Text, NEW B, NEW V, NEW M, NEW n,
           Spoken(P \o H, B, V, M, n)
    PROVE  Spoken(P, B, V, M \cup ToSet(H), n)
<1>1. PICK U : U = P \o H
  OBVIOUS
<1>2. Spoken(U, B, V, M, n)
  BY <1>1
<1>3. ToSet(U) = ToSet(P) \cup ToSet(H) /\ (Ascending(U) => Ascending(P))
  BY <1>1, JoinedText, Zenon
<1> QED
  BY <1>2, <1>3 DEF Spoken, Before
-----------------------------------------------------------------------------
(* Streamed speech                                                          *)

\* What is known of the endpointing state
TextShape ==
    /\ threshold \in Int
    /\ pushed \in 0..MaxFrames
    /\ finals \in Seq(Text)
    /\ pendingText \in Text

\* Only a connection that is up has heard anything; while there is an open one
\* nothing is buffered; and all speech is where it should be.
StreamInv ==
    /\ DeadInv
    /\ TextShape
    /\ upstream.heard \in Text
    /\ upstream.is \in {"none", "connecting", "broken"} => upstream.heard = NoText
    /\ upstream.is \in {"none", "connecting"} => ~relay.open
    /\ relay.open /\ upstream.is # "broken" => relay.preOpen = <<>>
    /\ Spoken(Understood, relay.preOpen, voiced, missing, pushed)

\* What was asked is a text, and a question more is asked behind it.
LEMMA Asks ==
    ASSUME finals \in Seq(Text), NEW q \in Text, OnFinal(q)
    PROVE  /\ finals' \in Seq(Text)
           /\ FlattenSeq(finals) \in Text
           /\ FlattenSeq(finals') = FlattenSeq(finals) \o q
<1>1. FlattenSeq(finals) \in Text
  BY FlattenType, Zenon DEF Text
<1>2. CASE q = NoText
  <2>1. finals' = finals
    BY <1>2 DEF OnFinal
  <2>2. FlattenSeq(finals) \o <<>> = FlattenSeq(finals)
    BY <1>1, ConcatEmptySeq, Zenon DEF Text
  <2> QED
    BY <1>1, <1>2, <2>1, <2>2, Zenon DEF NoText
<1>3. CASE q # NoText
  <2>1. finals' = Append(finals, q)
    BY <1>3 DEF OnFinal
  <2>2. Append(finals, q) \in Seq(Text)
    BY AppendProperties, Zenon
  <2>3. FlattenSeq(Append(finals, q)) = FlattenSeq(finals) \o q
    BY FlattenAppend, Zenon DEF Text
  <2> QED
    BY <1>1, <2>1, <2>2, <2>3, Zenon
<1> QED
  BY <1>2, <1>3

\* Texts behind each other
LEMMA TextsAssociate ==
    ASSUME NEW s \in Text, NEW t \in Text, NEW u \in Text
    PROVE  (s \o t) \o u = s \o (t \o u)
<1>1. s \in Seq(Frame) /\ t \in Seq(Frame) /\ u \in Seq(Frame)
  BY DEF Text
<1> QED
  BY <1>1, ConcatAssociative

\* What was understood, in its parts
LEMMA UnderstoodParts ==
    ASSUME TextShape, upstream.heard \in Text
    PROVE  /\ FlattenSeq(finals) \o pendingText \in Text
           /\ Understood = (FlattenSeq(finals) \o pendingText) \o upstream.heard
           /\ Understood = FlattenSeq(finals) \o (pendingText \o upstream.heard)
           /\ Understood \in Text
<1>1. FlattenSeq(finals) \in Text /\ pendingText \in Text
  BY FlattenType, Zenon DEF Text, TextShape
<1>2. FlattenSeq(finals) \o pendingText \in Text
  BY <1>1, ConcatProperties, Zenon DEF Text
<1>3. (FlattenSeq(finals) \o pendingText) \o upstream.heard \in Text
  BY <1>2, ConcatProperties, Zenon DEF Text
<1>4. (FlattenSeq(finals) \o pendingText) \o upstream.heard
        = FlattenSeq(finals) \o (pendingText \o upstream.heard)
  <2>1. PICK u : u = upstream.heard
    OBVIOUS
  <2>2. u \in Text
    BY <2>1
  <2> QED
    BY <2>1, <2>2, <1>1, TextsAssociate, Zenon
<1> QED
  BY <1>2, <1>3, <1>4, Zenon DEF Understood

\* The records' fields after an action
LEMMA StreamParts ==
    ASSUME StreamInv
    PROVE  /\ RelayShape /\ TextShape /\ upstream.heard \in Text
           /\ relay.preOpen \in Text
           /\ pushed \in Nat /\ (pushed < MaxFrames => pushed + 1 \in Frame /\ pushed + 1 \in 0..MaxFrames)
           /\ pushed + 1 \notin voiced
<1>1. pushed \in Nat /\ MaxFrames \in Nat
  BY SttRelayAssumption DEF StreamInv, TextShape
<1>2. voiced \subseteq 1..pushed /\ relay.preOpen \in Text
  BY DEF StreamInv, Spoken
<1> QED
  BY <1>1, <1>2 DEF StreamInv, DeadInv, Frame

\* A frame is pushed.
LEMMA PushKeepsSpeech ==
    ASSUME StreamInv, DeadInv', NEW speech \in BOOLEAN, PushAudio(speech)
    PROVE  StreamInv'
<1> DEFINE f == pushed + 1
           X == IF speech THEN {f} ELSE {}
<1>1. /\ pushed' = f /\ pushed < MaxFrames /\ threshold' = threshold
      /\ finals' = finals /\ pendingText' = pendingText
      /\ voiced' = voiced \cup X
  BY DEF PushAudio, Frames
<1>2. /\ pushed \in Nat /\ f \in Frame /\ f \in 0..MaxFrames /\ f \notin voiced
      /\ relay.preOpen \in Text /\ upstream.heard \in Text
  BY <1>1, StreamParts
<1>3. TextShape'
  BY <1>1, <1>2 DEF StreamInv, TextShape
<1>4. (f \in voiced') <=> speech
  BY <1>1, <1>2
<1>5. CASE relay.open /\ upstream.is # "broken" /\ Hearing(<<f>>) /\ UNCHANGED <<relay, missing>>
  <2>1. Speech(<<f>>) = IF speech THEN <<f>> ELSE NoText
    <3>1. Speech(<<f>>) = Heard(<<f>>, voiced')
      BY DEF Speech, Heard
    <3>2. Heard(<<f>>, voiced') = Holds(f, voiced')
      BY <1>2, HeardOne, Zenon
    <3> QED
      BY <3>1, <3>2, <1>4 DEF Holds
  <2>2. PICK t : t = Speech(<<f>>)
    OBVIOUS
  <2>3. t \in Text
    BY <2>1, <2>2, <1>2, ShortText, EmptyText
  <2>4. upstream' = [upstream EXCEPT !.heard = @ \o t]
    BY <1>5, <2>2 DEF Hearing
  <2>5. upstream'.is = upstream.is /\ upstream'.heard = upstream.heard \o t
    BY <2>4 DEF StreamInv, DeadInv, RelayShape
  <2>6. upstream'.heard \in Text
    BY <2>3, <2>5, <1>2, ConcatProperties, Zenon DEF Text
  <2>7. relay' = relay /\ missing' = missing /\ relay.preOpen = <<>>
    BY <1>5 DEF StreamInv
  <2>8. Understood' = Understood \o t
    <3>1. Understood = (FlattenSeq(finals) \o pendingText) \o upstream.heard
          /\ FlattenSeq(finals) \o pendingText \in Text
      BY UnderstoodParts, <1>2 DEF StreamInv
    <3>2. Understood' = (FlattenSeq(finals) \o pendingText) \o (upstream.heard \o t)
      BY <1>1, <2>5 DEF Understood
    <3> QED
      BY <3>1, <3>2, <2>3, <1>2, TextsAssociate, Zenon
  <2>9. Spoken(Understood \o t, <<>>, voiced \cup X, missing, f)
    <3>1. Spoken(Understood, <<>>, voiced, missing, pushed)
      BY <2>7 DEF StreamInv
    <3>2. CASE speech
      <4>1. t = <<f>> /\ X = {f}
        BY <2>1, <2>2, <3>2
      <4> QED
        BY <4>1, <3>1, <1>2, HeardFrame
    <3>3. CASE ~speech
      <4>1. t = <<>> /\ X = {}
        BY <2>1, <2>2, <3>3 DEF NoText
      <4>2. Understood \o <<>> = Understood
        <5>1. Understood \in Text
          BY UnderstoodParts, <1>2 DEF StreamInv
        <5> QED
          BY <5>1, ConcatEmptySeq, Zenon DEF Text
      <4>3. Spoken(Understood, <<>>, voiced, missing, f)
        BY <3>1, SilentFrame
      <4>4. voiced \cup X = voiced
        BY <4>1
      <4> QED
        BY <4>1, <4>2, <4>3, <4>4, Zenon
    <3> QED
      BY <3>2, <3>3
  <2>10. upstream.is \in {"up", "closing"}
    BY <1>5 DEF StreamInv, DeadInv, RelayShape, NeverSilentlyDead
  <2>11. Spoken(Understood, relay.preOpen, voiced, missing, pushed)'
    BY <2>7, <2>8, <2>9, <1>1
  <2> QED
    BY <1>3, <2>5, <2>6, <2>7, <2>10, <2>11 DEF StreamInv
<1>6. CASE relay.open /\ upstream.is = "broken" /\ Missing(<<f>>) /\ UNCHANGED <<relay, upstream>>
  <2>1. missing' = missing \cup X
    <3>1. ToSet(<<f>>) = {f}
      BY <1>2, ShortText
    <3> QED
      BY <3>1, <1>4, <1>6 DEF Missing
  <2>2. Understood' = Understood
    BY <1>1, <1>6 DEF Understood
  <2>3. Spoken(Understood, relay.preOpen, voiced \cup X, missing \cup X, f)
    <3>1. Spoken(Understood, relay.preOpen, voiced, missing, pushed)
      BY DEF StreamInv
    <3>2. CASE speech
      BY <3>1, <3>2, MissedFrame
    <3>3. CASE ~speech
      <4>1. voiced \cup X = voiced /\ missing \cup X = missing
        BY <3>3
      <4>2. Spoken(Understood, relay.preOpen, voiced, missing, f)
        BY <3>1, SilentFrame
      <4> QED
        BY <4>1, <4>2, Zenon
    <3> QED
      BY <3>2, <3>3
  <2>4. Spoken(Understood, relay.preOpen, voiced, missing, pushed)'
    BY <2>1, <2>2, <2>3, <1>1, <1>6
  <2> QED
    BY <1>3, <2>4, <1>6 DEF StreamInv
<1>7. CASE (relay.open => upstream.is = "broken") /\ Buffer(f)
  <2>1. upstream' = upstream /\ Understood' = Understood
    BY <1>1, <1>7 DEF Understood, Buffer
  <2>2. Spoken(Understood, relay.preOpen, voiced, missing, pushed)
    BY DEF StreamInv
  <2>3. CASE relay' = [relay EXCEPT !.preOpen = Append(@, f)] /\ UNCHANGED missing
    <3>1. relay'.preOpen = Append(relay.preOpen, f) /\ relay'.open = relay.open
      BY <2>3 DEF StreamInv, DeadInv, RelayShape
    <3>2. X \in SUBSET {f}
      OBVIOUS
    <3>3. Spoken(Understood, Append(relay.preOpen, f), voiced \cup X, missing, f)
      <4> HIDE DEF X
      <4> QED
        BY <2>2, <3>2, <1>2, BufferedFrame
    <3>4. Spoken(Understood, relay.preOpen, voiced, missing, pushed)'
      BY <3>1, <3>3, <2>1, <2>3, <1>1
    <3> QED
      BY <1>3, <1>7, <2>1, <3>1, <3>4 DEF StreamInv
  <2>4. CASE Missing(<<f>>) /\ UNCHANGED relay
    <3>1. missing' = missing \cup X
      <4>1. ToSet(<<f>>) = {f}
        BY <1>2, ShortText
      <4> QED
        BY <4>1, <1>4, <2>4 DEF Missing
    <3>2. Spoken(Understood, relay.preOpen, voiced \cup X, missing \cup X, f)
      <4>1. CASE speech
        BY <2>2, <4>1, MissedFrame
      <4>2. CASE ~speech
        <5>1. voiced \cup X = voiced /\ missing \cup X = missing
          BY <4>2
        <5>2. Spoken(Understood, relay.preOpen, voiced, missing, f)
          BY <2>2, SilentFrame
        <5> QED
          BY <5>1, <5>2, Zenon
      <4> QED
        BY <4>1, <4>2
    <3>3. Spoken(Understood, relay.preOpen, voiced, missing, pushed)'
      BY <3>1, <3>2, <2>1, <2>4, <1>1
    <3> QED
      BY <1>3, <2>1, <2>4, <3>3 DEF StreamInv
  <2> QED
    BY <2>3, <2>4, <1>7 DEF Buffer
<1> QED
  BY <1>5, <1>6, <1>7 DEF PushAudio

\* The connection opens, and hears what was buffered or breaks.
LEMMA OpensKeepsSpeech ==
    ASSUME StreamInv, DeadInv', Opens
    PROVE  StreamInv'
<1>1. /\ upstream.is = "connecting" /\ UNCHANGED <<threshold, pushed, voiced, finals, pendingText>>
      /\ relay' = [relay EXCEPT !.open = TRUE, !.attempts = 0, !.keepAlive = TRUE,
                                !.preOpen = <<>>]
  BY DEF Opens, NoFrames
<1>2. relay'.preOpen = <<>> /\ relay.preOpen \in Text
  BY <1>1, StreamParts DEF RelayShape
<1>3. TextShape'
  BY <1>1 DEF StreamInv, TextShape
<1>4. /\ Spoken(Understood, relay.preOpen, voiced, missing, pushed)
      /\ upstream.heard = NoText /\ FlattenSeq(finals) \o pendingText \in Text
      /\ Understood = (FlattenSeq(finals) \o pendingText) \o NoText
  BY <1>1, UnderstoodParts DEF StreamInv
<1>5. Understood = FlattenSeq(finals) \o pendingText
  BY <1>4, ConcatEmptySeq, Zenon DEF Text, NoText
<1>6. CASE upstream' = [is |-> "up", heard |-> Speech(relay.preOpen)] /\ UNCHANGED missing
  <2>1. Speech(relay.preOpen) = Heard(relay.preOpen, voiced)
    BY <1>1 DEF Speech, Heard
  <2>2. upstream'.heard = Heard(relay.preOpen, voiced) /\ upstream'.is = "up"
    BY <2>1, <1>6
  <2>3. upstream'.heard \in Text
    <3>1. Ascending(relay.preOpen)
      BY <1>4 DEF Spoken
    <3> QED
      BY <3>1, <2>2, <1>2, HeardInOrder
  <2>4. Understood' = Understood \o Heard(relay.preOpen, voiced)
    BY <2>2, <1>1, <1>5 DEF Understood
  <2>5. Spoken(Understood \o Heard(relay.preOpen, voiced), <<>>, voiced, missing, pushed)
    BY <1>4, Replayed, Zenon
  <2>6. Spoken(Understood, relay.preOpen, voiced, missing, pushed)'
    BY <2>4, <2>5, <1>1, <1>2, <1>6
  <2> QED
    BY <1>2, <1>3, <2>2, <2>3, <2>6 DEF StreamInv
<1>7. CASE upstream' = [upstream EXCEPT !.is = "broken"] /\ Missing(relay.preOpen)
  <2>1. upstream'.is = "broken" /\ upstream'.heard = upstream.heard
    BY <1>7 DEF StreamInv, DeadInv, RelayShape
  <2>2. Understood' = Understood
    BY <2>1, <1>1 DEF Understood
  <2>3. missing' = missing \cup {f \in ToSet(relay.preOpen) : f \in voiced}
    BY <1>1, <1>7 DEF Missing
  <2>4. Spoken(Understood, <<>>, voiced,
               missing \cup {f \in ToSet(relay.preOpen) : f \in voiced}, pushed)
    BY <1>4, ReplayLost
  <2>5. Spoken(Understood, relay.preOpen, voiced, missing, pushed)'
    BY <2>2, <2>3, <2>4, <1>1, <1>2
  <2> QED
    BY <1>2, <1>3, <1>4, <2>1, <2>5 DEF StreamInv
<1> QED
  BY <1>6, <1>7 DEF Opens

\* A text and what is cut off its front
LEMMA CutText ==
    ASSUME NEW s \in Text, NEW n \in DOMAIN s
    PROVE  /\ SubSeq(s, 1, n) \in Text /\ SubSeq(s, n + 1, Len(s)) \in Text
           /\ SubSeq(s, 1, n) \o SubSeq(s, n + 1, Len(s)) = s
<1>1. s \in Seq(Frame) /\ Len(s) \in Nat /\ n \in 1..Len(s)
  BY DEF Text
<1>2. /\ SubSeq(s, 1, n) \in Seq(Frame) /\ SubSeq(s, n + 1, Len(s)) \in Seq(Frame)
      /\ Len(SubSeq(s, 1, n)) = n /\ Len(SubSeq(s, n + 1, Len(s))) = Len(s) - n
      /\ \A i \in 1..n : SubSeq(s, 1, n)[i] = s[i]
      /\ \A i \in 1..(Len(s) - n) : SubSeq(s, n + 1, Len(s))[i] = s[n + i]
  BY <1>1
<1>3. PICK a, b : a = SubSeq(s, 1, n) /\ b = SubSeq(s, n + 1, Len(s))
  OBVIOUS
<1>4. /\ a \o b \in Seq(Frame) /\ Len(a \o b) = Len(a) + Len(b)
      /\ \A i \in 1..Len(a) + Len(b) : (a \o b)[i] = IF i <= Len(a) THEN a[i] ELSE b[i - Len(a)]
  BY <1>2, <1>3, ConcatProperties, Zenon
<1>5. Len(a) = n /\ Len(b) = Len(s) - n /\ Len(a \o b) = Len(s)
  BY <1>1, <1>2, <1>3, <1>4
<1>6. ASSUME NEW i \in 1..Len(s)
      PROVE  (a \o b)[i] = s[i]
  <2>1. CASE i <= n
    BY <2>1, <1>1, <1>2, <1>3, <1>4, <1>5
  <2>2. CASE ~(i <= n)
    <3>1. i - n \in 1..(Len(s) - n) /\ n + (i - n) = i /\ i \in 1..Len(a) + Len(b)
      BY <2>2, <1>1, <1>5
    <3>2. b[i - n] = s[n + (i - n)]
      BY <3>1, <1>2, <1>3
    <3>3. (a \o b)[i] = b[i - n]
      BY <3>1, <2>2, <1>4, <1>5
    <3> QED
      BY <3>1, <3>2, <3>3
  <2> QED
    BY <2>1, <2>2
<1>7. a \o b = s
  BY <1>1, <1>4, <1>5, <1>6, SeqEqual, Zenon
<1> QED
  BY <1>2, <1>3, <1>7 DEF Text

\* A final transcript: what was heard first is understood.
LEMMA TranscribedKeepsSpeech ==
    ASSUME StreamInv, DeadInv', NEW n \in Frame, Transcribed(n)
    PROVE  StreamInv'
<1>1. PICK h : h = upstream.heard
  OBVIOUS
<1>2. /\ upstream.is \in {"up", "closing"} /\ n \in DOMAIN h
      /\ UNCHANGED <<threshold, pushed, voiced, finals, relay, missing>>
      /\ pendingText' = pendingText \o SubSeq(h, 1, n)
      /\ upstream' = [upstream EXCEPT !.heard = SubSeq(h, n + 1, Len(h))]
  BY <1>1 DEF Transcribed, NoFrames, ReduceSpeech
<1>3. /\ upstream'.is = upstream.is
      /\ upstream'.heard = SubSeq(h, n + 1, Len(h))
  BY <1>2 DEF StreamInv, DeadInv, RelayShape
<1>4. PICK a, b : a = SubSeq(h, 1, n) /\ b = SubSeq(h, n + 1, Len(h))
  OBVIOUS
<1>5. h \in Text /\ a \in Text /\ b \in Text /\ h = a \o b
  <2>1. h \in Text
    BY <1>1 DEF StreamInv
  <2> QED
    BY <2>1, <1>2, <1>4, CutText
<1>6. pendingText \in Text /\ FlattenSeq(finals) \in Text
  BY FlattenType, Zenon DEF StreamInv, TextShape, Text
<1>7. pendingText \o a \in Text /\ pendingText' = pendingText \o a /\ upstream'.heard = b
  <2>1. pendingText \o a \in Text
    BY <1>5, <1>6, JoinedText, Zenon
  <2> QED
    BY <2>1, <1>2, <1>3, <1>4
<1>8. TextShape'
  BY <1>2, <1>7 DEF StreamInv, TextShape
<1>9. Understood' = Understood
  <2>1. Understood' = (FlattenSeq(finals) \o (pendingText \o a)) \o b
    BY <1>2, <1>7 DEF Understood
  <2>2. Understood = (FlattenSeq(finals) \o pendingText) \o (a \o b)
    BY <1>1, <1>5 DEF Understood
  <2>3. FlattenSeq(finals) \o (pendingText \o a) = (FlattenSeq(finals) \o pendingText) \o a
    BY <1>5, <1>6, TextsAssociate, Zenon
  <2>4. FlattenSeq(finals) \o pendingText \in Text
    BY <1>6, JoinedText, Zenon
  <2>5. ((FlattenSeq(finals) \o pendingText) \o a) \o b
          = (FlattenSeq(finals) \o pendingText) \o (a \o b)
    BY <2>4, <1>5, TextsAssociate, Zenon
  <2> QED
    BY <2>1, <2>2, <2>3, <2>5, Zenon
<1>10. Spoken(Understood, relay.preOpen, voiced, missing, pushed)'
  BY <1>2, <1>9 DEF StreamInv
<1> QED
  BY <1>2, <1>3, <1>5, <1>7, <1>8, <1>10 DEF StreamInv

\* The pause after an utterance: what was understood is asked.
LEMMA UtteranceEndKeepsSpeech ==
    ASSUME StreamInv, DeadInv', UtteranceEnd
    PROVE  StreamInv'
<1>1. /\ UNCHANGED <<threshold, pushed, voiced, relay, upstream, missing>>
      /\ pendingText' = NoText /\ OnFinal(pendingText)
  <2>1. threshold >= threshold
    BY DEF StreamInv, TextShape
  <2> QED
    BY <2>1 DEF UtteranceEnd, ReduceSilence, NoFrames
<1>2. /\ finals' \in Seq(Text) /\ FlattenSeq(finals) \in Text
      /\ FlattenSeq(finals') = FlattenSeq(finals) \o pendingText
  <2>1. finals \in Seq(Text) /\ pendingText \in Text
    BY DEF StreamInv, TextShape
  <2> QED
    BY <2>1, <1>1, Asks
<1>3. TextShape'
  BY <1>1, <1>2, EmptyText DEF StreamInv, TextShape
<1>4. Understood' = Understood
  <2>1. FlattenSeq(finals) \o pendingText \in Text
    BY UnderstoodParts DEF StreamInv
  <2>2. (FlattenSeq(finals) \o pendingText) \o NoText = FlattenSeq(finals) \o pendingText
    BY <2>1, ConcatEmptySeq, Zenon DEF Text, NoText
  <2> QED
    BY <2>2, <1>1, <1>2 DEF Understood
<1>5. Spoken(Understood, relay.preOpen, voiced, missing, pushed)'
  BY <1>1, <1>4 DEF StreamInv
<1> QED
  BY <1>1, <1>3, <1>5 DEF StreamInv

\* Upstream fails: what it had heard is missing.
LEMMA DropsKeepsSpeech ==
    ASSUME StreamInv, DeadInv', Drops
    PROVE  StreamInv'
<1>1. /\ UNCHANGED <<threshold, pushed, voiced, relay, pendingText, finals>>
      /\ upstream' = [is |-> "broken", heard |-> NoText]
      /\ missing' = missing \cup ToSet(upstream.heard)
  BY DEF Drops, NoFrames
<1>2. upstream'.is = "broken" /\ upstream'.heard = NoText
  BY <1>1
<1>3. TextShape'
  BY <1>1 DEF StreamInv, TextShape
<1>4. PICK p, h : p = FlattenSeq(finals) \o pendingText /\ h = upstream.heard
  OBVIOUS
<1>5. p \in Text /\ h \in Text /\ Understood = p \o h
  BY <1>4, UnderstoodParts DEF StreamInv
<1>6. Understood' = p
  <2>1. p \o NoText = p
    BY <1>5, ConcatEmptySeq, Zenon DEF Text, NoText
  <2> QED
    BY <2>1, <1>1, <1>2, <1>4 DEF Understood
<1>7. Spoken(p, relay.preOpen, voiced, missing \cup ToSet(h), pushed)
  <2>1. Spoken(p \o h, relay.preOpen, voiced, missing, pushed)
    BY <1>5 DEF StreamInv
  <2> QED
    BY <2>1, <1>5, EndLost, Zenon
<1>8. Spoken(Understood, relay.preOpen, voiced, missing, pushed)'
  BY <1>1, <1>4, <1>6, <1>7
<1> QED
  BY <1>1, <1>2, <1>3, <1>8, EmptyText DEF StreamInv

\* The connection is closed, closes or is begun anew: nobody hears anything.
LEMMA ConnectingKeepsSpeech ==
    ASSUME StreamInv, DeadInv', Closes \/ Reconnects \/ Close
    PROVE  StreamInv'
<1>1. UNCHANGED <<threshold, pushed, voiced, missing, pendingText, finals>>
  BY DEF Closes, Reconnects, Close, NoFrames
<1>2. upstream'.heard = upstream.heard
  <2>1. CASE Closes
    BY <2>1 DEF Closes, NotConnected, StreamInv
  <2>2. CASE Reconnects
    <3>1. upstream.is = "none"
      BY <2>2 DEF Reconnects, StreamInv, DeadInv, NeverSilentlyDead
    <3> QED
      BY <2>2, <3>1 DEF Reconnects, Connecting, StreamInv
  <2>3. CASE Close
    BY <2>3 DEF Close, StreamInv, DeadInv, RelayShape
  <2> QED
    BY <2>1, <2>2, <2>3
<1>3. relay'.preOpen = relay.preOpen
  <2>1. CASE Closes
    BY <2>1 DEF Closes, ScheduleReconnect, StreamInv, DeadInv, RelayShape
  <2>2. CASE Reconnects
    BY <2>2 DEF Reconnects, StreamInv, DeadInv, RelayShape
  <2>3. CASE Close
    BY <2>3 DEF Close, StreamInv, DeadInv, RelayShape
  <2> QED
    BY <2>1, <2>2, <2>3
<1>4. /\ upstream'.is \in {"none", "connecting", "broken"} => upstream'.heard = NoText
      /\ upstream'.is \in {"none", "connecting"} => ~relay'.open
      /\ relay'.open /\ upstream'.is # "broken" => relay'.preOpen = <<>>
  <2>1. CASE Closes
    <3>1. ~relay'.open
      BY <2>1 DEF Closes, ScheduleReconnect, StreamInv, DeadInv, RelayShape
    <3> QED
      BY <2>1, <3>1 DEF Closes, NotConnected
  <2>2. CASE Reconnects
    BY <2>2 DEF Reconnects, Connecting, StreamInv, DeadInv, RelayShape
  <2>3. CASE Close
    <3>1. relay'.open = relay.open
      BY <2>3 DEF Close, StreamInv, DeadInv, RelayShape
    <3>2. upstream' = upstream \/ upstream' = [upstream EXCEPT !.is = "closing"]
      BY <2>3 DEF Close
    <3>3. CASE upstream' = upstream
      BY <3>1, <3>3, <1>3 DEF StreamInv
    <3>4. CASE upstream' = [upstream EXCEPT !.is = "closing"]
      <4>1. upstream'.is = "closing"
        BY <3>4 DEF StreamInv, DeadInv, RelayShape
      <4>2. upstream.is \in {"up", "connecting"} \/ upstream' = upstream
        BY <2>3 DEF Close
      <4> QED
        BY <4>1, <4>2, <3>1, <3>3, <1>3 DEF StreamInv
    <3> QED
      BY <3>2, <3>3, <3>4
  <2> QED
    BY <2>1, <2>2, <2>3
<1>5. Spoken(Understood, relay.preOpen, voiced, missing, pushed)'
  BY <1>1, <1>2, <1>3 DEF StreamInv, Understood
<1>6. TextShape' /\ (upstream.heard \in Text)'
  BY <1>1, <1>2 DEF StreamInv, TextShape
<1> QED
  BY <1>4, <1>5, <1>6 DEF StreamInv

\* The threshold is a number, and stays the same.
LEMMA ThresholdIsNumber == SttInit => threshold \in Int
<1> SUFFICES ASSUME NEW c \in Configured
             PROVE  ResolveSilenceThreshold(c) \in Int
  BY DEF SttInit
<1>1. c = Unset \/ c \in Int
  BY SttRelayAssumption
<1> QED
  BY <1>1 DEF ResolveSilenceThreshold

\* Whatever the streaming relay goes through, speech is understood in order and
\* once, and what is not understood waits in the buffer or is known to be
\* missing: for every number of frames, drops and reconnects and every buffer.
THEOREM SpeechAlwaysPreserved == Spec => []SpeechPreserved
<1> DEFINE Inv == provider = "deepgram" => StreamInv
<1>1. Init => Inv
  <2> SUFFICES ASSUME Init, provider = "deepgram"
               PROVE  StreamInv
    OBVIOUS
  <2>1. /\ relay = [open |-> FALSE, disposed |-> FALSE, attempts |-> 0,
                    keepAlive |-> FALSE, timer |-> FALSE, preOpen |-> <<>>]
        /\ upstream = [is |-> "connecting", heard |-> NoText]
        /\ told = FALSE /\ missing = {} /\ voiced = {} /\ pushed = 0
        /\ finals = <<>> /\ pendingText = NoText
    BY DEF Init, SttInit, DeepgramInit, Connecting
  <2>2. DeadInv
    BY <2>1 DEF DeadInv, RelayShape, NeverSilentlyDead
  <2>3. TextShape
    <3>1. threshold \in Int
      BY ThresholdIsNumber DEF Init
    <3> QED
      BY <2>1, <3>1, EmptyText, SttRelayAssumption DEF TextShape
  <2>4. Understood = <<>>
    <3>1. Understood = (<<>> \o <<>>) \o <<>>
      BY <2>1, FlattenNone DEF Understood, NoText
    <3> QED
      BY <3>1
  <2>5. Spoken(<<>>, <<>>, {}, {}, 0)
    BY EmptyText DEF Spoken, NoText, Before
  <2>6. Spoken(Understood, relay.preOpen, voiced, missing, pushed)
    BY <2>1, <2>4, <2>5
  <2> QED
    BY <2>1, <2>2, <2>3, <2>6, EmptyText DEF StreamInv
<1>2. Inv /\ [Next]_vars => Inv'
  <2> SUFFICES ASSUME Inv, [Next]_vars, provider' = "deepgram"
               PROVE  StreamInv'
    OBVIOUS
  <2>1. CASE Next
    <3>1. StreamInv /\ DeepgramNext
      BY <2>1 DEF Next
    <3>2. DeadInv'
      BY <3>1, DeepgramNeverDead DEF StreamInv
    <3> QED
      BY <3>1, <3>2, PushKeepsSpeech, OpensKeepsSpeech, TranscribedKeepsSpeech,
         UtteranceEndKeepsSpeech, DropsKeepsSpeech, ConnectingKeepsSpeech DEF DeepgramNext
  <2>2. CASE UNCHANGED vars
    BY <2>2 DEF vars, sttVars, deepgramVars, StreamInv, DeadInv, RelayShape,
                NeverSilentlyDead, TextShape, Understood, Spoken
  <2> QED
    BY <2>1, <2>2
<1>3. Inv => SpeechPreserved
  <2> SUFFICES ASSUME StreamInv
               PROVE  SpeechInOrder /\ NoSpeechForgotten
    BY DEF SpeechPreserved
  <2>1. Spoken(Understood, relay.preOpen, voiced, missing, pushed)
    BY DEF StreamInv
  <2>2. SpeechInOrder
    BY <2>1 DEF Spoken, Ascending, SpeechInOrder
  <2>3. NoSpeechForgotten
    BY <2>1 DEF Spoken, NoSpeechForgotten
  <2> QED
    BY <2>2, <2>3
<1> QED
  BY <1>1, <1>2, <1>3, PTL DEF Spec

-----------------------------------------------------------------------------
(* Transcribed speech                                                       *)

\* Everything pending is asked at once, and every transcription under way is of
\* all of the utterance but what came after it began.
WhisperInv ==
    /\ TextShape
    /\ pendingText = NoText
    /\ utterance \in Text
    /\ requests \in Seq(Text)
    /\ voiced \subseteq 1..pushed
    /\ \A i \in DOMAIN requests : ToSet(utterance) \ overlapped \subseteq ToSet(requests[i])
    /\ OnlyOverlappingSpeechLost

\* finalize begins.
LEMMA FinalizeKeepsRequests ==
    ASSUME WhisperInv, Finalize
    PROVE  /\ requests' \in Seq(Text)
           /\ \A i \in DOMAIN requests' :
                 ToSet(utterance) \ overlapped \subseteq ToSet(requests'[i])
<1>1. CASE requests' = requests
  BY <1>1 DEF WhisperInv
<1>2. CASE requests' = Append(requests, utterance)
  <2>1. requests \in Seq(Text) /\ utterance \in Text
    BY DEF WhisperInv
  <2>2. PICK r : r = Append(requests, utterance)
    OBVIOUS
  <2>3. /\ r \in Seq(Text) /\ Len(r) = Len(requests) + 1
        /\ \A i \in 1..Len(requests) : r[i] = requests[i]
        /\ r[Len(requests) + 1] = utterance
    BY <2>1, <2>2, AppendProperties, Zenon
  <2>4. DOMAIN r = 1..Len(requests) + 1 /\ DOMAIN requests = 1..Len(requests)
        /\ Len(requests) \in Nat
    BY <2>1, <2>3
  <2>5. ASSUME NEW i \in DOMAIN r
        PROVE  ToSet(utterance) \ overlapped \subseteq ToSet(r[i])
    <3>1. CASE i = Len(requests) + 1
      BY <3>1, <2>3
    <3>2. CASE i \in 1..Len(requests)
      BY <3>2, <2>3, <2>4 DEF WhisperInv
    <3> QED
      BY <3>1, <3>2, <2>4
  <2> QED
    BY <1>2, <2>2, <2>3, <2>5
<1> QED
  BY <1>1, <1>2 DEF Finalize

\* A request is over: the others are left.
LEMMA RequestsLeft ==
    ASSUME NEW q \in Seq(Text), NEW i \in DOMAIN q
    PROVE  /\ RemoveAt(q, i) \in Seq(Text)
           /\ \A j \in DOMAIN RemoveAt(q, i) : \E k \in DOMAIN q : RemoveAt(q, i)[j] = q[k]
<1>1. Len(q) \in Nat /\ i \in 1..Len(q) /\ DOMAIN q = 1..Len(q)
  OBVIOUS
<1>2. PICK a, b : a = SubSeq(q, 1, i - 1) /\ b = SubSeq(q, i + 1, Len(q))
  OBVIOUS
<1>3. /\ a \in Seq(Text) /\ b \in Seq(Text) /\ Len(a) \in Nat /\ Len(b) \in Nat
      /\ \A j \in 1..Len(a) : \E k \in DOMAIN q : a[j] = q[k]
      /\ \A j \in 1..Len(b) : \E k \in DOMAIN q : b[j] = q[k]
  <2>1. /\ a \in Seq(Text) /\ Len(a) = i - 1
        /\ \A j \in 1..(i - 1) : a[j] = q[j] /\ j \in DOMAIN q
    BY <1>1, <1>2
  <2>2. /\ b \in Seq(Text) /\ Len(b) = Len(q) - i
        /\ \A j \in 1..(Len(q) - i) : b[j] = q[i + j] /\ i + j \in DOMAIN q
    BY <1>1, <1>2
  <2>3. Len(a) \in Nat /\ Len(b) \in Nat
    BY <2>1, <2>2, <1>1
  <2>4. \A j \in 1..Len(a) : \E k \in DOMAIN q : a[j] = q[k]
    BY <2>1, Zenon
  <2>5. ASSUME NEW j \in 1..Len(b)
        PROVE  \E k \in DOMAIN q : b[j] = q[k]
    <3>1. b[j] = q[i + j] /\ i + j \in DOMAIN q
      BY <2>2, Zenon
    <3> QED
      BY <3>1, Zenon
  <2> QED
    BY <2>1, <2>2, <2>3, <2>4, <2>5, Zenon
<1>4. PICK r : r = a \o b
  OBVIOUS
<1>5. /\ r \in Seq(Text) /\ Len(r) = Len(a) + Len(b)
      /\ \A j \in 1..Len(a) + Len(b) : r[j] = IF j <= Len(a) THEN a[j] ELSE b[j - Len(a)]
  BY <1>3, <1>4, ConcatProperties, Zenon
<1>6. RemoveAt(q, i) = r
  BY <1>2, <1>4 DEF RemoveAt
<1>7. DOMAIN r = 1..Len(a) + Len(b)
  BY <1>5
<1>8. ASSUME NEW j \in DOMAIN r
      PROVE  \E k \in DOMAIN q : r[j] = q[k]
  <2>1. CASE j <= Len(a)
    <3>1. j \in 1..Len(a) /\ r[j] = a[j]
      BY <2>1, <1>3, <1>5, <1>7
    <3> QED
      BY <3>1, <1>3
  <2>2. CASE ~(j <= Len(a))
    <3>1. j - Len(a) \in 1..Len(b) /\ r[j] = b[j - Len(a)]
      BY <2>2, <1>3, <1>5, <1>7
    <3> QED
      BY <3>1, <1>3
  <2> QED
    BY <2>1, <2>2
<1> QED
  BY <1>5, <1>6, <1>8

\* A frame of silence ends the utterance or not.
LEMMA SilenceKeeps ==
    ASSUME WhisperInv, PushSilence
    PROVE  WhisperInv'
<1>1. /\ pushed < MaxFrames /\ pushed' = pushed + 1 /\ voiced' = voiced
      /\ UNCHANGED <<threshold, utterance, unmade, overlapped, pendingText, finals>>
      /\ Finalize \/ requests' = requests
  BY DEF PushSilence, Frames
<1>2. TextShape' /\ 1..pushed \subseteq 1..pushed'
  BY <1>1, SttRelayAssumption DEF WhisperInv, TextShape
<1>3. /\ requests' \in Seq(Text)
      /\ \A i \in DOMAIN requests' :
            ToSet(utterance) \ overlapped \subseteq ToSet(requests'[i])
  BY <1>1, FinalizeKeepsRequests DEF WhisperInv
<1>4. OnlyOverlappingSpeechLost'
  BY <1>1 DEF WhisperInv, OnlyOverlappingSpeechLost
<1> QED
  BY <1>1, <1>2, <1>3, <1>4 DEF WhisperInv

\* A frame of speech joins the utterance.
LEMMA SpeechKeeps ==
    ASSUME WhisperInv, PushSpeech
    PROVE  WhisperInv'
<1> DEFINE f == pushed + 1
<1>1. /\ pushed < MaxFrames /\ pushed' = f /\ voiced' = voiced \cup {f}
      /\ utterance' = Append(utterance, f)
      /\ overlapped' = IF requests = <<>> THEN overlapped ELSE overlapped \cup {f}
      /\ UNCHANGED <<threshold, requests, unmade, pendingText, finals>>
  BY DEF PushSpeech, Frames
<1>2. /\ TextShape' /\ 1..pushed \subseteq 1..pushed' /\ f \in 1..pushed' /\ f \in Frame
  BY <1>1, SttRelayAssumption DEF WhisperInv, TextShape, Frame
<1>3. utterance' \in Text /\ ToSet(utterance') = ToSet(utterance) \cup {f}
  <2>1. utterance \in Text
    BY DEF WhisperInv
  <2>2. utterance' = utterance \o <<f>>
    BY <1>1, <1>2, <2>1, AppendIsConcat, Zenon DEF Text
  <2>3. <<f>> \in Text /\ ToSet(<<f>>) = {f}
    BY <1>2, ShortText
  <2> QED
    BY <2>1, <2>2, <2>3, JoinedText, Zenon
<1>4. ASSUME NEW i \in DOMAIN requests
      PROVE  ToSet(utterance') \ overlapped' \subseteq ToSet(requests[i])
  <2>1. requests # <<>>
    OBVIOUS
  <2> QED
    BY <2>1, <1>1, <1>3 DEF WhisperInv
<1>5. OnlyOverlappingSpeechLost'
  BY <1>1, <1>3 DEF WhisperInv, OnlyOverlappingSpeechLost
<1> QED
  BY <1>1, <1>2, <1>3, <1>4, <1>5 DEF WhisperInv

\* A transcription fails: the utterance is kept.
LEMMA FailureKeeps ==
    ASSUME WhisperInv, NEW i, TranscriptionFails(i)
    PROVE  WhisperInv'
<1>1. /\ i \in DOMAIN requests /\ requests' = RemoveAt(requests, i)
      /\ UNCHANGED <<threshold, pushed, voiced, utterance, unmade, overlapped, pendingText, finals>>
  BY DEF TranscriptionFails, NoFrames
<1>2. /\ requests' \in Seq(Text)
      /\ \A j \in DOMAIN requests' : \E k \in DOMAIN requests : requests'[j] = requests[k]
  <2>1. requests \in Seq(Text)
    BY DEF WhisperInv
  <2> QED
    BY <2>1, <1>1, RequestsLeft
<1>3. ASSUME NEW j \in DOMAIN requests'
      PROVE  ToSet(utterance) \ overlapped \subseteq ToSet(requests'[j])
  BY <1>2 DEF WhisperInv
<1>4. TextShape' /\ OnlyOverlappingSpeechLost'
  BY <1>1 DEF WhisperInv, TextShape, OnlyOverlappingSpeechLost
<1> QED
  BY <1>1, <1>2, <1>3, <1>4 DEF WhisperInv

\* A transcription returns: what it is of was asked, or was no speech.
LEMMA ReturnKeeps ==
    ASSUME WhisperInv, NEW i, TranscriptionReturns(i)
    PROVE  WhisperInv'
<1>1. /\ i \in DOMAIN requests /\ requests' = RemoveAt(requests, i) /\ utterance' = NoText
      /\ UNCHANGED <<threshold, pushed, voiced, overlapped>>
  BY DEF TranscriptionReturns, NoFrames
<1>2. requests \in Seq(Text) /\ requests[i] \in Text /\ finals \in Seq(Text) /\ pendingText = NoText
  BY <1>1 DEF WhisperInv, TextShape
<1>3. PICK text \in {requests[i], NoText} :
         /\ pendingText' = NoText /\ OnFinal(NoText \o text)
         /\ unmade' = IF text = NoText THEN unmade \cup ToSet(requests[i]) ELSE unmade
  <2>1. threshold >= threshold
    BY DEF WhisperInv, TextShape
  <2> QED
    BY <2>1, <1>2 DEF TranscriptionReturns, ReduceSilence, ReduceSpeech
<1>4. text \in Text /\ NoText \o text = text
  <2>1. text \in Text
    BY <1>2, EmptyText
  <2> QED
    BY <2>1, ConcatEmptySeq, Zenon DEF Text, NoText
<1>5. /\ finals' \in Seq(Text) /\ FlattenSeq(finals) \in Text
      /\ FlattenSeq(finals') = FlattenSeq(finals) \o text
  <2>1. OnFinal(text)
    BY <1>3, <1>4
  <2> QED
    BY <2>1, <1>2, <1>4, Asks
<1>6. ToSet(FlattenSeq(finals')) = ToSet(FlattenSeq(finals)) \cup ToSet(text)
  BY <1>4, <1>5, JoinedText, Zenon
<1>7. TextShape' /\ utterance' \in Text /\ ToSet(utterance') = {}
  BY <1>1, <1>3, <1>5, EmptyText DEF WhisperInv, TextShape
<1>8. requests' \in Seq(Text)
  BY <1>1, <1>2, RequestsLeft
<1>9. OnlyOverlappingSpeechLost'
  <2>1. voiced \ overlapped \subseteq
          ToSet(utterance) \cup ToSet(FlattenSeq(finals)) \cup unmade
    BY DEF WhisperInv, OnlyOverlappingSpeechLost
  <2>2. ToSet(utterance) \ overlapped \subseteq ToSet(requests[i])
    BY <1>1 DEF WhisperInv
  <2>3. ToSet(requests[i]) \subseteq ToSet(FlattenSeq(finals')) \cup unmade'
    BY <1>3, <1>6
  <2>4. unmade \subseteq unmade'
    BY <1>3
  <2> QED
    BY <2>1, <2>2, <2>3, <2>4, <1>1, <1>6 DEF OnlyOverlappingSpeechLost
<1> QED
  BY <1>1, <1>3, <1>7, <1>8, <1>9 DEF WhisperInv

\* Every step of the Whisper relay keeps what was said before a transcription.
LEMMA WhisperKeeps ==
    ASSUME WhisperInv, WhisperNext
    PROVE  WhisperInv'
<1>1. CASE PartialReturns
  <2>1. UNCHANGED <<threshold, pushed, voiced, utterance, requests, unmade, overlapped,
                    pendingText, finals>>
    BY <1>1 DEF PartialReturns, NoFrames
  <2> QED
    BY <2>1 DEF WhisperInv, TextShape, OnlyOverlappingSpeechLost
<1>2. CASE CloseWhisper
  <2>1. /\ UNCHANGED <<threshold, pushed, voiced, utterance, unmade, overlapped,
                       pendingText, finals>>
        /\ Finalize
    BY <1>2 DEF CloseWhisper, NoFrames
  <2>2. /\ requests' \in Seq(Text)
        /\ \A i \in DOMAIN requests' :
              ToSet(utterance) \ overlapped \subseteq ToSet(requests'[i])
    BY <2>1, FinalizeKeepsRequests
  <2> QED
    BY <2>1, <2>2 DEF WhisperInv, TextShape, OnlyOverlappingSpeechLost
<1> QED
  BY <1>1, <1>2, SilenceKeeps, SpeechKeeps, FailureKeeps, ReturnKeeps DEF WhisperNext

\* What was said before a transcription began waits in the utterance, was asked
\* or was found to be no speech, however many calls of finalize overlap, fail
\* or answer late, and for every threshold and number of frames.
THEOREM AlwaysKeptUntilTranscribed == Spec => []KeptUntilTranscribed
<1> DEFINE Inv == provider = "whisper" => WhisperInv
<1>1. Init => Inv
  <2> SUFFICES ASSUME Init
               PROVE  WhisperInv
    OBVIOUS
  <2>1. /\ voiced = {} /\ pushed = 0 /\ finals = <<>> /\ pendingText = NoText
        /\ utterance = NoText /\ requests = <<>>
    BY DEF Init, SttInit, WhisperInit
  <2>2. TextShape
    <3>1. threshold \in Int
      BY ThresholdIsNumber DEF Init
    <3> QED
      BY <2>1, <3>1, EmptyText, SttRelayAssumption DEF TextShape
  <2> QED
    BY <2>1, <2>2, EmptyText DEF WhisperInv, OnlyOverlappingSpeechLost
<1>2. Inv /\ [Next]_vars => Inv'
  <2> SUFFICES ASSUME Inv, [Next]_vars, provider' = "whisper"
               PROVE  WhisperInv'
    OBVIOUS
  <2>1. CASE Next
    BY <2>1, WhisperKeeps DEF Next
  <2>2. CASE UNCHANGED vars
    BY <2>2 DEF vars, sttVars, whisperVars, WhisperInv, TextShape, OnlyOverlappingSpeechLost
  <2> QED
    BY <2>1, <2>2
<1>3. Inv => KeptUntilTranscribed
  BY DEF WhisperInv, KeptUntilTranscribed
<1> QED
  BY <1>1, <1>2, <1>3, PTL DEF Spec
=============================================================================
