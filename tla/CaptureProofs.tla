---------------------------- MODULE CaptureProofs ----------------------------
(***************************************************************************)
(* The voice gate and the devices of AudioCapture, for every hangover,     *)
(* every length of the lead-in and every number of frames, mounts and      *)
(* requests.                                                               *)
(***************************************************************************)
EXTENDS AudioCapture, SequenceTheorems, TLAPS

GateRecord ==
    [silence : 0..VAD_HANGOVER, open : BOOLEAN, preroll : Seq(Nat),
     count : Nat, first : Nat, last : Nat]

\* s is the end of what was captured: of c frames, the last of them sent being
\* l, as many as came since, or as many as fit.
EndOf(s, c, l) ==
    /\ Len(s) = IF c - l <= VAD_PREROLL_FRAMES THEN c - l ELSE VAD_PREROLL_FRAMES
    /\ \A i \in 1..Len(s) : s[i] = c - Len(s) + i

LeadIn(g) == EndOf(g.preroll, g.count, g.last)

\* The gate is open while a voice is not long past, and then all is sent.
OpenGate(g) ==
    /\ g.silence < VAD_HANGOVER => g.open
    /\ g.open => g.last = g.count

\* What was sent last goes back to the first frame, or for a whole lead-in.
SentSince(g) == g.first <= 1 \/ g.first <= g.last - VAD_PREROLL_FRAMES

GateGood(g) ==
    /\ g \in GateRecord
    /\ g.last <= g.count
    /\ LeadIn(g)
    /\ OpenGate(g)
    /\ SentSince(g)

GateInv == GateGood(gate)

Heard(g, n, h) == [g EXCEPT !.count = n, !.silence = h]

\* new has heard one more frame than g.
Hears(g, new) ==
    /\ new \in GateRecord
    /\ new.count = g.count + 1
    /\ new.open = g.open
    /\ new.preroll = g.preroll /\ new.first = g.first /\ new.last = g.last

-----------------------------------------------------------------------------
(* The operators of the gate *)

\* Rolling the lead-in by one frame adds it at the end; when the lead-in is
\* full its first frame is let go.
LEMMA RollShort ==
    ASSUME NEW s \in Seq(Nat), NEW n \in Nat, Len(s) < VAD_PREROLL_FRAMES
    PROVE  /\ Roll(s, n) \in Seq(Nat)
           /\ Len(Roll(s, n)) = Len(s) + 1
           /\ \A i \in 1..Len(s) + 1 : Roll(s, n)[i] = IF i <= Len(s) THEN s[i] ELSE n
<1>1. /\ Append(s, n) \in Seq(Nat) /\ Len(Append(s, n)) = Len(s) + 1
      /\ \A i \in 1..Len(s) + 1 : Append(s, n)[i] = IF i <= Len(s) THEN s[i] ELSE n
  OBVIOUS
<1>2. VAD_PREROLL_FRAMES \in Nat \ {0}
  BY CaptureAssumption
<1>3. Roll(s, n) = Append(s, n)
  BY <1>1, <1>2 DEF Roll
<1> QED
  BY <1>1, <1>3

\* A full lead-in drops its oldest frame for the new one.
LEMMA RollFull ==
    ASSUME NEW s \in Seq(Nat), NEW n \in Nat, Len(s) = VAD_PREROLL_FRAMES
    PROVE  /\ Roll(s, n) \in Seq(Nat)
           /\ Len(Roll(s, n)) = Len(s)
           /\ \A i \in 1..Len(s) : Roll(s, n)[i] = IF i < Len(s) THEN s[i + 1] ELSE n
<1> DEFINE all == Append(s, n)
<1>1. /\ all \in Seq(Nat) /\ Len(all) = Len(s) + 1
      /\ \A i \in 1..Len(s) + 1 : all[i] = IF i <= Len(s) THEN s[i] ELSE n
  OBVIOUS
<1>2. VAD_PREROLL_FRAMES \in Nat \ {0}
  BY CaptureAssumption
<1>3. /\ Tail(all) \in Seq(Nat) /\ Len(Tail(all)) = Len(s)
      /\ \A i \in 1..Len(s) : Tail(all)[i] = all[i + 1]
  <2>1. all # <<>>
    BY <1>1
  <2> HIDE DEF all
  <2>2. /\ Tail(all) \in Seq(Nat) /\ Len(Tail(all)) = Len(all) - 1
        /\ \A i \in 1..Len(Tail(all)) : Tail(all)[i] = all[i + 1]
    BY <1>1, <2>1, HeadTailProperties
  <2> QED
    BY <1>1, <2>2
<1>4. Roll(s, n) = Tail(all)
  BY <1>1, <1>2 DEF Roll
<1> HIDE DEF all
<1>5. ASSUME NEW i \in 1..Len(s)
      PROVE  Tail(all)[i] = IF i < Len(s) THEN s[i + 1] ELSE n
  <2>1. i + 1 \in 1..Len(s) + 1 /\ (i + 1 <= Len(s) <=> i < Len(s))
    OBVIOUS
  <2>2. all[i + 1] = IF i + 1 <= Len(s) THEN s[i + 1] ELSE n
    BY <2>1, <1>1
  <2> QED
    BY <2>1, <2>2, <1>3
<1> QED
  BY <1>3, <1>4, <1>5

\* The end of what was captured, rolled by the next frame, is the end again.
LEMMA RollKeepsEnd ==
    ASSUME NEW s \in Seq(Nat), NEW c \in Nat, NEW l \in Nat, l <= c, EndOf(s, c, l)
    PROVE  Roll(s, c + 1) \in Seq(Nat) /\ EndOf(Roll(s, c + 1), c + 1, l)
<1> DEFINE new == Roll(s, c + 1)
<1>1. Len(s) \in Nat /\ VAD_PREROLL_FRAMES \in Nat \ {0} /\ c + 1 \in Nat
  BY CaptureAssumption
<1>2. /\ Len(s) = IF c - l <= VAD_PREROLL_FRAMES THEN c - l ELSE VAD_PREROLL_FRAMES
      /\ \A i \in 1..Len(s) : s[i] = c - Len(s) + i
  BY DEF EndOf
<1>3. CASE Len(s) < VAD_PREROLL_FRAMES
  <2>1. /\ new \in Seq(Nat) /\ Len(new) = Len(s) + 1
        /\ \A i \in 1..Len(s) + 1 : new[i] = IF i <= Len(s) THEN s[i] ELSE c + 1
    BY <1>1, <1>3, RollShort
  <2> HIDE DEF new
  <2>2. ASSUME NEW i \in 1..Len(s) + 1
        PROVE  new[i] = c + 1 - (Len(s) + 1) + i
    <3>1. CASE i <= Len(s)
      <4>1. i \in 1..Len(s)
        BY <3>1, <1>1
      <4>2. s[i] = c - Len(s) + i
        BY <4>1, <1>2
      <4>3. new[i] = s[i]
        BY <3>1, <2>1
      <4> QED
        BY <4>2, <4>3, <1>1
    <3>2. CASE i = Len(s) + 1
      <4>1. new[i] = c + 1
        BY <3>2, <2>1, <1>1
      <4> QED
        BY <3>2, <4>1, <1>1
    <3> QED
      BY <3>1, <3>2, <1>1
  <2>3. EndOf(new, c + 1, l)
    BY <2>1, <2>2, <1>1, <1>2, <1>3 DEF EndOf
  <2> QED
    BY <2>1, <2>3 DEF new
<1>4. CASE Len(s) = VAD_PREROLL_FRAMES
  <2>1. /\ new \in Seq(Nat) /\ Len(new) = Len(s)
        /\ \A i \in 1..Len(s) : new[i] = IF i < Len(s) THEN s[i + 1] ELSE c + 1
    BY <1>1, <1>4, RollFull
  <2> HIDE DEF new
  <2>2. ASSUME NEW i \in 1..Len(s)
        PROVE  new[i] = c + 1 - Len(s) + i
    <3>1. CASE i < Len(s)
      <4>1. i + 1 \in 1..Len(s)
        BY <3>1, <1>1
      <4>2. s[i + 1] = c - Len(s) + (i + 1)
        BY <4>1, <1>2
      <4> QED
        BY <3>1, <4>2, <2>1, <1>1
    <3>2. CASE i = Len(s)
      BY <3>2, <2>1, <1>1
    <3> QED
      BY <3>1, <3>2, <1>1
  <2>3. EndOf(new, c + 1, l)
    BY <2>1, <2>2, <1>1, <1>2, <1>4 DEF EndOf
  <2> QED
    BY <2>1, <2>3 DEF new
<1> QED
  BY <1>1, <1>2, <1>3, <1>4

\* A gate that hears a frame, holds it or passes it is a gate again, and these
\* are its parts.
LEMMA HeardGate ==
    ASSUME NEW g \in GateRecord, NEW n \in Nat, NEW h \in 0..VAD_HANGOVER
    PROVE  /\ Heard(g, n, h) \in GateRecord
           /\ Heard(g, n, h).count = n /\ Heard(g, n, h).silence = h
           /\ Heard(g, n, h).open = g.open /\ Heard(g, n, h).preroll = g.preroll
           /\ Heard(g, n, h).first = g.first /\ Heard(g, n, h).last = g.last
BY DEF GateRecord, Heard

\* What holding a frame back makes of the gate.
LEMMA HeldGate ==
    ASSUME NEW g \in GateRecord, NEW n, Roll(g.preroll, n) \in Seq(Nat)
    PROVE  /\ Hold(g, n) \in GateRecord
           /\ Hold(g, n).count = g.count /\ Hold(g, n).silence = g.silence
           /\ Hold(g, n).open = FALSE /\ Hold(g, n).preroll = Roll(g.preroll, n)
           /\ Hold(g, n).first = g.first /\ Hold(g, n).last = g.last
<1> DEFINE rolled == Roll(g.preroll, n)
<1>1. Hold(g, n) = [g EXCEPT !.open = FALSE, !.preroll = rolled]
  BY DEF Hold
<1> HIDE DEF rolled
<1>2. rolled \in Seq(Nat)
  BY DEF rolled
<1>3. LET held == [g EXCEPT !.open = FALSE, !.preroll = rolled] IN
      /\ held \in GateRecord
      /\ held.count = g.count /\ held.silence = g.silence /\ held.open = FALSE
      /\ held.preroll = rolled /\ held.first = g.first /\ held.last = g.last
  BY <1>2 DEF GateRecord
<1> QED
  BY <1>1, <1>3 DEF rolled

\* What passing a frame on makes of the gate.
LEMMA PassedGate ==
    ASSUME NEW g \in GateRecord, NEW n \in Nat, Given(g, n) \in Nat
    PROVE  /\ Pass(g, n) \in GateRecord
           /\ Pass(g, n).count = g.count /\ Pass(g, n).silence = g.silence
           /\ Pass(g, n).open = TRUE
           /\ g.open => Pass(g, n).preroll = g.preroll
           /\ ~g.open => Pass(g, n).preroll = <<>>
           /\ Given(g, n) <= g.last + 1 => Pass(g, n).first = g.first
           /\ ~(Given(g, n) <= g.last + 1) => Pass(g, n).first = Given(g, n)
           /\ Pass(g, n).last = n
<1> DEFINE first == IF Given(g, n) <= g.last + 1 THEN g.first ELSE Given(g, n)
           preroll == IF g.open THEN g.preroll ELSE <<>>
<1>1. Pass(g, n) = [g EXCEPT !.first = first, !.last = n, !.preroll = preroll, !.open = TRUE]
  BY DEF Pass
<1>2. first \in Nat /\ preroll \in Seq(Nat)
  BY DEF GateRecord
<1> HIDE DEF first, preroll
<1>3. LET passed == [g EXCEPT !.first = first, !.last = n, !.preroll = preroll, !.open = TRUE] IN
      /\ passed \in GateRecord
      /\ passed.count = g.count /\ passed.silence = g.silence /\ passed.open = TRUE
      /\ passed.preroll = preroll /\ passed.first = first /\ passed.last = n
  BY <1>2 DEF GateRecord
<1> QED
  BY <1>1, <1>3 DEF first, preroll

\* A frame is held: it joins the lead-in.
LEMMA HoldKeepsGate ==
    ASSUME NEW g \in GateRecord, GateGood(g), NEW heard, Hears(g, heard),
           heard.silence = VAD_HANGOVER
    PROVE  GateGood(Hold(heard, heard.count))
<1> DEFINE n == heard.count
           new == Hold(heard, n)
<1>1. /\ g.count \in Nat /\ g.last \in Nat /\ g.first \in Nat /\ g.preroll \in Seq(Nat)
      /\ g.last <= g.count /\ n = g.count + 1 /\ heard \in GateRecord
      /\ VAD_PREROLL_FRAMES \in Nat \ {0} /\ VAD_HANGOVER \in Nat
  BY CaptureAssumption DEF GateRecord, GateGood, Hears
<1>2. heard.preroll = g.preroll /\ heard.first = g.first /\ heard.last = g.last
  BY DEF Hears
<1>3. EndOf(g.preroll, g.count, g.last) /\ SentSince(g)
  BY DEF GateGood, LeadIn
<1>4. Roll(g.preroll, g.count + 1) \in Seq(Nat)
      /\ EndOf(Roll(g.preroll, g.count + 1), g.count + 1, g.last)
  BY <1>1, <1>3, RollKeepsEnd
<1>5. Roll(heard.preroll, n) \in Seq(Nat) /\ EndOf(Roll(heard.preroll, n), n, g.last)
  BY <1>1, <1>2, <1>4
<1> HIDE DEF n
<1>6. /\ new \in GateRecord /\ new.count = n /\ new.silence = VAD_HANGOVER
      /\ new.open = FALSE /\ new.preroll = Roll(heard.preroll, n)
      /\ new.first = g.first /\ new.last = g.last
  BY <1>1, <1>2, <1>5, HeldGate DEF n
<1> HIDE DEF new
<1>7. LeadIn(new)
  BY <1>5, <1>6 DEF LeadIn
<1>8. OpenGate(new) /\ new.last <= new.count
  BY <1>1, <1>6 DEF OpenGate
<1>9. SentSince(new)
  BY <1>3, <1>6 DEF SentSince
<1>10. GateGood(new)
  BY <1>6, <1>7, <1>8, <1>9 DEF GateGood
<1> QED
  BY <1>10 DEF new, n

\* The lead-in and the next frame are given: the frames from this one on.
LEMMA GivenFrom ==
    ASSUME NEW g \in GateRecord, GateGood(g), NEW heard, Hears(g, heard)
    PROVE  /\ Given(heard, heard.count) = g.count + 1 - Len(g.preroll)
           /\ Given(heard, heard.count) \in Nat
<1> DEFINE given == Given(heard, heard.count)
<1>1. /\ g.count \in Nat /\ g.last \in Nat /\ g.last <= g.count /\ g.preroll \in Seq(Nat)
      /\ VAD_PREROLL_FRAMES \in Nat \ {0} /\ Len(g.preroll) \in Nat
  BY CaptureAssumption DEF GateRecord, GateGood
<1>2. /\ Len(g.preroll) = IF g.count - g.last <= VAD_PREROLL_FRAMES
                          THEN g.count - g.last ELSE VAD_PREROLL_FRAMES
      /\ \A i \in 1..Len(g.preroll) : g.preroll[i] = g.count - Len(g.preroll) + i
      /\ g.open => g.last = g.count
  BY DEF GateGood, LeadIn, EndOf, OpenGate
<1>3. given = IF g.open \/ g.preroll = <<>> THEN g.count + 1 ELSE Head(g.preroll)
  BY DEF Given, Hears
<1> HIDE DEF given
<1>4. given = g.count + 1 - Len(g.preroll)
  <2>1. CASE g.preroll = <<>>
    BY <2>1, <1>1, <1>3
  <2>2. CASE g.preroll # <<>>
    <3>1. Len(g.preroll) > 0 /\ Head(g.preroll) = g.preroll[1]
      BY <2>2, <1>1
    <3>2. ~g.open
      BY <3>1, <1>1, <1>2
    <3>3. given = g.preroll[1]
      BY <3>1, <3>2, <2>2, <1>3
    <3>4. 1 \in 1..Len(g.preroll)
      BY <3>1, <1>1
    <3>5. g.preroll[1] = g.count - Len(g.preroll) + 1
      BY <3>4, <1>2
    <3> QED
      BY <3>3, <3>5, <1>1
  <2> QED
    BY <2>1, <2>2
<1>5. given \in Nat
  BY <1>1, <1>2, <1>4
<1> QED
  BY <1>4, <1>5 DEF given

\* A frame is passed on, the first one after the lead-in.
LEMMA PassKeepsGate ==
    ASSUME NEW g \in GateRecord, GateGood(g), NEW heard, Hears(g, heard)
    PROVE  GateGood(Pass(heard, heard.count))
<1> DEFINE n == heard.count
           new == Pass(heard, n)
           given == Given(heard, n)
<1>1. /\ g.count \in Nat /\ g.last \in Nat /\ g.first \in Nat /\ g.preroll \in Seq(Nat)
      /\ g.last <= g.count /\ n = g.count + 1 /\ n \in Nat /\ heard \in GateRecord
      /\ g.open \in BOOLEAN /\ Len(g.preroll) \in Nat
      /\ VAD_PREROLL_FRAMES \in Nat \ {0} /\ VAD_HANGOVER \in Nat
  BY CaptureAssumption DEF GateRecord, GateGood, Hears
<1>2. /\ heard.preroll = g.preroll /\ heard.first = g.first /\ heard.last = g.last
      /\ heard.open = g.open
  BY DEF Hears
<1>3. /\ Len(g.preroll) = IF g.count - g.last <= VAD_PREROLL_FRAMES
                          THEN g.count - g.last ELSE VAD_PREROLL_FRAMES
      /\ g.open => g.last = g.count
      /\ SentSince(g)
  BY DEF GateGood, LeadIn, EndOf, OpenGate
<1>4. given = g.count + 1 - Len(g.preroll) /\ given \in Nat
  BY GivenFrom
<1> HIDE DEF given, n
<1>5. /\ new \in GateRecord /\ new.count = n /\ new.open = TRUE
      /\ new.preroll = IF g.open THEN g.preroll ELSE <<>>
      /\ new.first = IF given <= g.last + 1 THEN g.first ELSE given
      /\ new.last = n
  <2>1. /\ new \in GateRecord /\ new.count = heard.count /\ new.open = TRUE
        /\ heard.open => new.preroll = heard.preroll
        /\ ~heard.open => new.preroll = <<>>
        /\ given <= heard.last + 1 => new.first = heard.first
        /\ ~(given <= heard.last + 1) => new.first = given
        /\ new.last = n
    <3>1. heard \in GateRecord /\ n \in Nat /\ Given(heard, n) \in Nat
      BY <1>1, <1>4 DEF given
    <3> QED
      BY <3>1, PassedGate DEF given
  <2>2. new.count = n
    BY <2>1 DEF n
  <2> HIDE DEF new
  <2> QED
    BY <2>1, <2>2, <1>2
<1> HIDE DEF new
<1>6. new.preroll = <<>>
  BY <1>1, <1>3, <1>5
<1>7. SentSince(new)
  <2>1. CASE given <= g.last + 1
    BY <2>1, <1>1, <1>3, <1>5 DEF SentSince
  <2>2. CASE given > g.last + 1
    <3>1. Len(g.preroll) = VAD_PREROLL_FRAMES
      BY <2>2, <1>1, <1>3, <1>4
    <3> QED
      BY <3>1, <2>2, <1>1, <1>4, <1>5 DEF SentSince
  <2> QED
    BY <2>1, <2>2, <1>1, <1>4
<1>8. LeadIn(new)
  BY <1>1, <1>5, <1>6 DEF LeadIn, EndOf
<1>9. OpenGate(new) /\ new.last <= new.count
  BY <1>1, <1>5 DEF OpenGate
<1>10. GateGood(new)
  BY <1>5, <1>7, <1>8, <1>9 DEF GateGood
<1> QED
  BY <1>10 DEF new, n

-----------------------------------------------------------------------------
(* The invariant *)

\* A gate that nothing has passed is good.
LEMMA ShutGateGood == GateGood(ShutGate)
BY CaptureAssumption DEF ShutGate, GateGood, GateRecord, LeadIn, EndOf, OpenGate, SentSince

\* What is captured keeps the gate good.
LEMMA FrameKeepsGate ==
    ASSUME GateInv, NEW voice \in BOOLEAN, Frame(voice)
    PROVE  GateInv'
<1> DEFINE n == gate.count + 1
           silence == CASE voice -> 0
                        [] ~voice /\ gate.silence < VAD_HANGOVER -> gate.silence + 1
                        [] OTHER -> VAD_HANGOVER
           heard == Heard(gate, n, silence)
<1>1. gate \in GateRecord /\ GateGood(gate) /\ VAD_HANGOVER \in Nat \ {0}
  BY CaptureAssumption DEF GateInv, GateGood
<1>2. gate.silence \in 0..VAD_HANGOVER /\ n \in Nat
  BY <1>1 DEF GateRecord
<1>3. silence \in 0..VAD_HANGOVER
  BY <1>1, <1>2
<1>4. gate' = IF silence < VAD_HANGOVER THEN Pass(heard, n) ELSE Hold(heard, n)
  BY DEF Frame, Heard
<1> HIDE DEF silence, n
<1>5. /\ heard \in GateRecord /\ heard.count = n /\ heard.silence = silence
      /\ heard.open = gate.open /\ heard.preroll = gate.preroll
      /\ heard.first = gate.first /\ heard.last = gate.last
  BY <1>1, <1>2, <1>3, HeardGate
<1> HIDE DEF heard
<1>6. Hears(gate, heard)
  BY <1>5 DEF Hears, n
<1>7. CASE silence < VAD_HANGOVER
  <2>1. GateGood(Pass(heard, n))
    BY <1>1, <1>5, <1>6, PassKeepsGate
  <2> QED
    BY <2>1, <1>4, <1>7 DEF GateInv
<1>8. CASE ~(silence < VAD_HANGOVER)
  <2>1. silence = VAD_HANGOVER
    BY <1>1, <1>3, <1>8
  <2>2. GateGood(Hold(heard, n))
    BY <2>1, <1>1, <1>5, <1>6, HoldKeepsGate
  <2> QED
    BY <2>2, <1>4, <1>8 DEF GateInv
<1> QED
  BY <1>7, <1>8

\* While no source is active only the time since the last voice goes on.
LEMMA PauseKeepsGate ==
    ASSUME GateInv, Pause
    PROVE  GateInv'
BY CaptureAssumption
   DEF GateInv, Pause, GateGood, GateRecord, LeadIn, OpenGate, SentSince

\* Every step keeps the gate good: a mount shuts it, the other steps but frames
\* and pauses leave it alone.
LEMMA StepKeepsGate ==
    ASSUME GateInv, [CaptureNext]_captureVars
    PROVE  GateInv'
<1>1. ASSUME gate' = gate PROVE GateInv'
  BY <1>1 DEF GateInv
<1>2. ASSUME gate' = ShutGate PROVE GateInv'
  BY <1>2, ShutGateGood DEF GateInv
<1>3. CASE Mounts \/ Unmounts
  BY <1>2, <1>3 DEF Mounts, Unmounts
<1>4. CASE \E s \in Source : ToggleOn(s) \/ ToggleOff(s)
  BY <1>1, <1>4 DEF ToggleOn, ToggleOff
<1>5. CASE \E m \in Mount, s \in Source, k \in 1..MaxRequests : Granted(m, s, k) \/ Denied(m, s, k)
  BY <1>1, <1>5 DEF Granted, Denied
<1>6. CASE \E m \in Mount, k \in 1..MaxRequests : GrantedSilent(m, k)
  BY <1>1, <1>6 DEF GrantedSilent
<1>7. CASE \E m \in Mount : Closed(m)
  BY <1>1, <1>7 DEF Closed
<1>8. CASE \E voice \in BOOLEAN : Frame(voice)
  BY <1>8, FrameKeepsGate
<1>9. CASE Pause
  BY <1>9, PauseKeepsGate
<1>10. CASE UNCHANGED captureVars
  BY <1>1, <1>10 DEF captureVars
<1> QED
  BY <1>3, <1>4, <1>5, <1>6, <1>7, <1>8, <1>9, <1>10 DEF CaptureNext

\* A good gate sends speech in order, once, and from its beginning.
LEMMA GoodGateSendsWhole == GateInv => SpeechSentWhole
<1> SUFFICES ASSUME GateInv PROVE FramesInOrder /\ OnsetNotClipped
  BY DEF SpeechSentWhole
<1>1. /\ gate \in GateRecord /\ gate.last <= gate.count
      /\ gate.count \in Nat /\ gate.last \in Nat /\ gate.preroll \in Seq(Nat)
      /\ DOMAIN gate.preroll = 1..Len(gate.preroll)
      /\ gate.silence \in 0..VAD_HANGOVER
      /\ gate.first \in Nat
      /\ VAD_PREROLL_FRAMES \in Nat \ {0} /\ VAD_HANGOVER \in Nat \ {0}
  BY CaptureAssumption DEF GateInv, GateGood, GateRecord
<1>2. LeadIn(gate) /\ OpenGate(gate) /\ SentSince(gate)
  BY DEF GateInv, GateGood
<1>3. FramesInOrder
  <2>1. SUFFICES ASSUME NEW i \in 1..Len(gate.preroll)
                 PROVE  gate.preroll[i] > IF i = 1 THEN gate.last ELSE gate.preroll[i - 1]
    BY <1>1 DEF FramesInOrder
  <2>2. gate.preroll[i] = gate.count - Len(gate.preroll) + i
    BY <1>2 DEF LeadIn, EndOf
  <2>3. i # 1 => gate.preroll[i - 1] = gate.count - Len(gate.preroll) + (i - 1)
    <3>1. i # 1 => i - 1 \in 1..Len(gate.preroll)
      BY <1>1
    <3> QED
      BY <3>1, <1>2 DEF LeadIn, EndOf
  <2>4. gate.count - Len(gate.preroll) >= gate.last
    BY <1>1, <1>2 DEF LeadIn, EndOf
  <2> QED
    BY <2>2, <2>3, <2>4, <1>1
<1>4. OnsetNotClipped
  BY <1>1, <1>2 DEF OnsetNotClipped, OpenGate, SentSince
<1> QED
  BY <1>3, <1>4

\* The voice gate sends every frame at most once and in order, and a voice at
\* once and with its lead-in, across mounts, toggles, pauses and refusals.
THEOREM SpeechAlwaysSentWhole == CaptureSpec => []SpeechSentWhole
<1>1. CaptureInit => GateInv
  BY ShutGateGood DEF CaptureInit, GateInv
<1>2. GateInv /\ [CaptureNext]_captureVars => GateInv'
  BY StepKeepsGate
<1> QED
  BY <1>1, <1>2, GoodGateSendsWhole, PTL DEF CaptureSpec

-----------------------------------------------------------------------------
(* The devices *)

CaptureShape ==
    [started : BOOLEAN, graph : BOOLEAN, closing : BOOLEAN,
     starting : {<<>>} \cup (Source \X Nat),
     active : [Source -> BOOLEAN], held : [Source -> Nat]]

InState(st, state) == {k \in DOMAIN st : st[k] = state}

\* A source of c that is on has a stream, those of its requests that are open
\* being in st, and only the mounted capture, the one with a graph, has one on.
Live(c, st, s) == c.active[s] => c.graph /\ InState(st, "open") # {}

\* No request crossed another one or a stop: the one open stream is the one
\* held, and at most one is awaited, while the source is off and can be given.
Exact(c, st, s) ==
    /\ InState(st, "open") = IF c.active[s] THEN {c.held[s]} ELSE {}
    /\ \A k \in InState(st, "awaited") :
          c.graph /\ ~c.active[s] /\ InState(st, "awaited") = {k}

DeviceShape ==
    /\ mounted \in BOOLEAN /\ mount \in Nat
    /\ mounted => mount \in Mount
    /\ cap \in [Mount -> CaptureShape]
    /\ streams \in [Mount -> [Source -> Seq(StreamState)]]
    /\ \A m \in Mount : cap[m].graph <=> mounted /\ m = mount

Shows == shown = IF mounted THEN cap[mount].active ELSE NoAudio

SourceGood(m, s) ==
    /\ Live(cap[m], streams[m][s], s)
    /\ <<m, s>> \notin crossed => Exact(cap[m], streams[m][s], s)

DeviceInv ==
    /\ DeviceShape
    /\ Shows
    /\ \A m \in Mount, s \in Source : SourceGood(m, s)

\* A request that is made is awaited, besides those there are.
LEMMA Requested ==
    ASSUME NEW st \in Seq(StreamState)
    PROVE  /\ Append(st, "awaited") \in Seq(StreamState)
           /\ Append(st, "awaited") # st
           /\ InState(Append(st, "awaited"), "open") = InState(st, "open")
           /\ InState(Append(st, "awaited"), "awaited")
                = InState(st, "awaited") \cup {Len(st) + 1}
<1> DEFINE new == Append(st, "awaited")
<1>1. /\ new \in Seq(StreamState) /\ Len(new) = Len(st) + 1 /\ Len(st) \in Nat
      /\ DOMAIN new = 1..Len(st) + 1 /\ DOMAIN st = 1..Len(st)
      /\ \A i \in 1..Len(st) + 1 : new[i] = IF i <= Len(st) THEN st[i] ELSE "awaited"
  BY DEF StreamState
<1> HIDE DEF new
<1>2. new # st
  BY <1>1
<1>3. InState(new, "open") = InState(st, "open")
  BY <1>1 DEF InState
<1>4. InState(new, "awaited") = InState(st, "awaited") \cup {Len(st) + 1}
  BY <1>1 DEF InState
<1> QED
  BY <1>1, <1>2, <1>3, <1>4 DEF new

\* A request that is answered is no longer awaited, and its stream is open if
\* the device was given.
LEMMA Answered ==
    ASSUME NEW st \in Seq(StreamState), NEW k \in InState(st, "awaited"),
           NEW answer \in StreamState \ {"awaited"}
    PROVE  LET new == [st EXCEPT ![k] = answer] IN
           /\ new \in Seq(StreamState)
           /\ InState(new, "awaited") = InState(st, "awaited") \ {k}
           /\ InState(new, "open")
                = IF answer = "open" THEN InState(st, "open") \cup {k} ELSE InState(st, "open")
<1> DEFINE new == [st EXCEPT ![k] = answer]
<1>1. k \in DOMAIN st /\ st[k] = "awaited" /\ answer \in StreamState /\ answer # "awaited"
  BY DEF InState
<1>2. /\ new \in Seq(StreamState) /\ DOMAIN new = DOMAIN st
      /\ \A i \in DOMAIN st : new[i] = IF i = k THEN answer ELSE st[i]
  BY <1>1
<1> HIDE DEF new
<1> QED
  BY <1>1, <1>2 DEF new, InState

-----------------------------------------------------------------------------
(* One source of one capture *)

\* A request keeps a source good if none is awaited, or if the crossing is
\* noted.
LEMMA RequestKeeps ==
    ASSUME NEW c, NEW d, NEW s \in Source, NEW st \in Seq(StreamState),
           d.graph = c.graph, d.active[s] = c.active[s], d.held[s] = c.held[s]
    PROVE  /\ Live(c, st, s) => Live(d, Append(st, "awaited"), s)
           /\ Exact(c, st, s) /\ c.graph /\ ~c.active[s] /\ InState(st, "awaited") = {}
                => Exact(d, Append(st, "awaited"), s)
<1> DEFINE new == Append(st, "awaited")
<1>1. /\ InState(new, "open") = InState(st, "open")
      /\ InState(new, "awaited") = InState(st, "awaited") \cup {Len(st) + 1}
  BY Requested
<1> HIDE DEF new
<1> QED
  BY <1>1 DEF Live, Exact, new

\* An answer keeps a source good, whatever it is.
LEMMA AnswerKeeps ==
    ASSUME NEW c, NEW d, NEW s \in Source, NEW st \in Seq(StreamState),
           NEW k \in InState(st, "awaited"), NEW answer \in StreamState \ {"awaited"},
           c.graph \in BOOLEAN, d.active[s] \in BOOLEAN, c.active[s] \in BOOLEAN,
           d.graph = c.graph,
           answer = "open" => d.active[s] = c.graph /\ d.held[s] = k,
           answer # "open" => (d.active[s] => c.active[s])
    PROVE  LET new == [st EXCEPT ![k] = answer] IN
           /\ Live(c, st, s) => Live(d, new, s)
           /\ Exact(c, st, s) => Exact(d, new, s)
<1> DEFINE new == [st EXCEPT ![k] = answer]
<1>1. /\ InState(new, "awaited") = InState(st, "awaited") \ {k}
      /\ InState(new, "open")
           = IF answer = "open" THEN InState(st, "open") \cup {k} ELSE InState(st, "open")
  BY Answered
<1> HIDE DEF new
<1>2. Live(c, st, s) => Live(d, new, s)
  BY <1>1 DEF Live
<1>3. Exact(c, st, s) => Exact(d, new, s)
  <2> SUFFICES ASSUME Exact(c, st, s) PROVE Exact(d, new, s)
    OBVIOUS
  <2>1. c.graph /\ ~c.active[s] /\ InState(st, "awaited") = {k} /\ InState(st, "open") = {}
    BY DEF Exact
  <2>2. InState(new, "awaited") = {}
    BY <1>1, <2>1
  <2>3. InState(new, "open") = IF d.active[s] THEN {d.held[s]} ELSE {}
    <3>1. CASE answer = "open"
      BY <3>1, <1>1, <2>1
    <3>2. CASE answer # "open"
      BY <3>2, <1>1, <2>1
    <3> QED
      BY <3>1, <3>2
  <2> QED
    BY <2>2, <2>3 DEF Exact
<1> QED
  BY <1>2, <1>3 DEF new

-----------------------------------------------------------------------------
(* One capture *)

\* A step of one capture that keeps its graph and both its sources good keeps
\* the invariant.
LEMMA OneCaptureKeeps ==
    ASSUME DeviceInv, NEW m \in Mount, NEW d \in CaptureShape,
           NEW all \in [Source -> Seq(StreamState)],
           d.graph = cap[m].graph,
           cap' = [cap EXCEPT ![m] = d], streams' = [streams EXCEPT ![m] = all],
           shown' = IF mounted /\ m = mount THEN d.active ELSE shown,
           UNCHANGED <<mounted, mount>>, crossed \subseteq crossed',
           \A s \in Source : Live(d, all[s], s),
           \A s \in Source : <<m, s>> \notin crossed' => Exact(d, all[s], s)
    PROVE  DeviceInv'
<1>1. DeviceShape /\ Shows /\ \A l \in Mount, s \in Source : SourceGood(l, s)
  BY DEF DeviceInv
<1>2. DeviceShape'
  BY <1>1 DEF DeviceShape
<1>3. Shows'
  BY <1>1 DEF Shows, DeviceShape
<1>4. ASSUME NEW l \in Mount, NEW s \in Source PROVE SourceGood(l, s)'
  <2>1. CASE l = m
    <3>1. cap'[l] = d /\ streams'[l][s] = all[s]
      BY <1>1, <2>1 DEF DeviceShape
    <3> QED
      BY <2>1, <3>1 DEF SourceGood
  <2>2. CASE l # m
    <3>1. cap'[l] = cap[l] /\ streams'[l] = streams[l]
      BY <1>1, <2>2 DEF DeviceShape
    <3>2. SourceGood(l, s)
      BY <1>1
    <3> QED
      BY <3>1, <3>2 DEF SourceGood
  <2> QED
    BY <2>1, <2>2
<1> QED
  BY <1>2, <1>3, <1>4 DEF DeviceInv

\* Capture m is d now, its requests are all: those for s are t, and for another
\* source one may have been made.
WentOn(m, s, c, t, d, all) ==
    /\ d.graph = c.graph /\ d.active = c.active /\ d.held = c.held
    /\ cap' = [cap EXCEPT ![m] = d] /\ streams' = [streams EXCEPT ![m] = all]
    /\ shown' = IF mounted /\ m = mount THEN d.active ELSE shown
    /\ all[s] = t
    /\ \A r \in Source \ {s} :
          \/ all[r] = streams[m][r]
          \/ /\ all[r] = Append(streams[m][r], "awaited") /\ ~c.active[r]
             /\ <<m, r>> \notin crossed' => cap[m].graph /\ ~Awaits(m, r)
    /\ crossed \subseteq crossed'

\* start() goes on, or not, from a capture whose request was answered.
LEMMA Continues ==
    ASSUME DeviceInv, NEW m \in Mount, NEW s \in Source, NEW k,
           NEW c \in CaptureShape, NEW t \in Seq(StreamState),
           Continue(m, s, k, c, [streams EXCEPT ![m][s] = t])
    PROVE  \E d \in CaptureShape, all \in [Source -> Seq(StreamState)] :
              WentOn(m, s, c, t, d, all)
<1> DEFINE now == [streams EXCEPT ![m][s] = t]
           idle == [c EXCEPT !.starting = <<>>]
           next == CASE c.starting # <<s, k>> -> [c |-> c, all |-> now]
                     [] c.starting = <<s, k>> /\ s = "mic" -> StartSystem(m, c, now)
                     [] OTHER -> [c |-> idle, all |-> now]
<1>1. /\ streams \in [Mount -> [Source -> Seq(StreamState)]]
      /\ now \in [Mount -> [Source -> Seq(StreamState)]]
      /\ now[m] = [streams[m] EXCEPT ![s] = t] /\ now = [streams EXCEPT ![m] = now[m]]
      /\ now[m][s] = t /\ \A r \in Source \ {s} : now[m][r] = streams[m][r]
  BY DEF DeviceInv, DeviceShape
<1>2. /\ cap' = [cap EXCEPT ![m] = next.c] /\ streams' = next.all
      /\ shown' = IF mounted /\ m = mount THEN next.c.active ELSE shown
      /\ crossed' = IF next.all = now \/ (cap[m].graph /\ ~Awaits(m, "system")) THEN crossed
                    ELSE crossed \cup {<<m, "system">>}
  BY DEF Continue, Emits
<1>3. /\ idle \in CaptureShape
      /\ idle.graph = c.graph /\ idle.active = c.active /\ idle.held = c.held
  BY DEF CaptureShape
<1> HIDE DEF now, idle, next
<1>4. ASSUME next.all = now, next.c \in {c, idle}
      PROVE  /\ next.c \in CaptureShape /\ now[m] \in [Source -> Seq(StreamState)]
             /\ next.c.graph = c.graph /\ next.c.active = c.active /\ next.c.held = c.held
             /\ streams' = [streams EXCEPT ![m] = now[m]] /\ crossed' = crossed
  BY <1>1, <1>2, <1>3, <1>4
<1>5. CASE next.all = now /\ next.c \in {c, idle}
  <2>1. /\ next.c \in CaptureShape /\ now[m] \in [Source -> Seq(StreamState)]
        /\ next.c.graph = c.graph /\ next.c.active = c.active /\ next.c.held = c.held
        /\ streams' = [streams EXCEPT ![m] = now[m]] /\ crossed' = crossed
    BY <1>4, <1>5
  <2> QED
    BY <2>1, <1>1, <1>2 DEF WentOn
<1>6. CASE s = "mic" /\ ~c.active["system"]
           /\ \E n \in Nat : next.c = [c EXCEPT !.starting = <<"system", n>>]
           /\ next.all = [now EXCEPT ![m]["system"] = Append(@, "awaited")]
  <2> DEFINE old == streams[m]["system"]
             all == [now[m] EXCEPT !["system"] = Append(old, "awaited")]
  <2>1. s # "system" /\ "system" \in Source /\ Source \ {s} = {"system"}
    BY <1>6 DEF Source
  <2>2. /\ next.c \in CaptureShape
        /\ next.c.graph = c.graph /\ next.c.active = c.active /\ next.c.held = c.held
    <3>1. PICK n \in Nat : next.c = [c EXCEPT !.starting = <<"system", n>>]
      BY <1>6
    <3>2. <<"system", n>> \in {<<>>} \cup (Source \X Nat)
      BY <2>1
    <3> HIDE DEF next
    <3> QED
      BY <3>1, <3>2 DEF CaptureShape
  <2>3. now[m]["system"] = old /\ old \in Seq(StreamState)
    BY <1>1, <2>1
  <2>4. Append(old, "awaited") \in Seq(StreamState) /\ Append(old, "awaited") # old
    BY <2>3, Requested
  <2>5. /\ next.all = [now EXCEPT ![m] = all] /\ all \in [Source -> Seq(StreamState)]
        /\ all["system"] = Append(old, "awaited") /\ all[s] = t
        /\ next.all = [streams EXCEPT ![m] = all] /\ next.all[m]["system"] # now[m]["system"]
    <3>1. next.all = [now EXCEPT ![m] = all]
      BY <1>6, <2>3
    <3>2. /\ all \in [Source -> Seq(StreamState)]
          /\ all["system"] = Append(old, "awaited") /\ all[s] = now[m][s]
      <4>1. now[m] \in [Source -> Seq(StreamState)]
        BY <1>1
      <4> HIDE DEF old
      <4> QED
        BY <4>1, <2>1, <2>4
    <3> HIDE DEF all, old
    <3>3. next.all[m] = all
      BY <1>1, <3>1
    <3>4. next.all = [streams EXCEPT ![m] = all]
      BY <1>1, <3>1
    <3> QED
      BY <1>1, <2>3, <2>4, <3>1, <3>2, <3>3, <3>4
  <2>6. crossed' = IF cap[m].graph /\ ~Awaits(m, "system") THEN crossed
                   ELSE crossed \cup {<<m, "system">>}
    BY <2>5, <1>2
  <2> HIDE DEF all
  <2> QED
    BY <1>2, <1>6, <2>1, <2>2, <2>5, <2>6 DEF WentOn
<1>7. \/ next.all = now /\ next.c \in {c, idle}
      \/ /\ s = "mic" /\ ~c.active["system"]
         /\ \E n \in Nat : next.c = [c EXCEPT !.starting = <<"system", n>>]
         /\ next.all = [now EXCEPT ![m]["system"] = Append(@, "awaited")]
  <2>1. CASE c.starting # <<s, k>>
    BY <2>1 DEF next
  <2>2. CASE c.starting = <<s, k>> /\ s = "mic"
    <3>1. next = StartSystem(m, c, now)
      BY <2>2 DEF next
    <3>2. CASE ~c.started \/ c.active["system"]
      BY <3>1, <3>2 DEF StartSystem, idle
    <3>3. CASE ~(~c.started \/ c.active["system"])
      <4>1. next = [c |-> [c EXCEPT !.starting = <<"system", Len(now[m]["system"]) + 1>>],
                    all |-> [now EXCEPT ![m]["system"] = Append(@, "awaited")]]
        BY <3>1, <3>3 DEF StartSystem
      <4>2. Len(now[m]["system"]) + 1 \in Nat
        BY <1>1 DEF Source
      <4> QED
        BY <2>2, <3>3, <4>1, <4>2
    <3> QED
      BY <3>2, <3>3
  <2>3. CASE c.starting = <<s, k>> /\ s # "mic"
    BY <2>3 DEF next
  <2> QED
    BY <2>1, <2>2, <2>3
<1> QED
  BY <1>5, <1>6, <1>7

\* Nothing is awaited of a source, in the two ways of saying it.
LEMMA NothingAwaited ==
    ASSUME NEW m, NEW s, ~Awaits(m, s)
    PROVE  InState(streams[m][s], "awaited") = {}
BY DEF Awaits, InState

\* An answer to a request and what start() does next keep the invariant.
LEMMA ContinueKeeps ==
    ASSUME DeviceInv, NEW m \in Mount, NEW s \in Source, NEW k,
           NEW c \in CaptureShape, NEW t \in Seq(StreamState),
           c.graph = cap[m].graph,
           \A r \in Source \ {s} : c.active[r] = cap[m].active[r] /\ c.held[r] = cap[m].held[r],
           Live(c, t, s), <<m, s>> \notin crossed => Exact(c, t, s),
           Continue(m, s, k, c, [streams EXCEPT ![m][s] = t]), UNCHANGED <<mounted, mount>>
    PROVE  DeviceInv'
<1>1. PICK d \in CaptureShape, all \in [Source -> Seq(StreamState)] :
        WentOn(m, s, c, t, d, all)
  BY Continues
<1>2. ASSUME NEW r \in Source
      PROVE  Live(d, all[r], r) /\ (<<m, r>> \notin crossed' => Exact(d, all[r], r))
  <2>1. CASE r = s
    BY <2>1, <1>1 DEF WentOn, Live, Exact
  <2>2. CASE r # s
    <3> DEFINE st == streams[m][r]
    <3>1. /\ d.graph = cap[m].graph /\ d.active[r] = cap[m].active[r]
          /\ d.held[r] = cap[m].held[r] /\ st \in Seq(StreamState)
      BY <2>2, <1>1 DEF WentOn, DeviceInv, DeviceShape
    <3>2. Live(cap[m], st, r) /\ (<<m, r>> \notin crossed => Exact(cap[m], st, r))
      BY DEF DeviceInv, SourceGood
    <3>3. CASE all[r] = st
      BY <3>1, <3>2, <3>3, <1>1 DEF WentOn, Live, Exact
    <3>4. CASE /\ all[r] = Append(st, "awaited") /\ ~c.active[r]
               /\ <<m, r>> \notin crossed' => cap[m].graph /\ ~Awaits(m, r)
      <4>1. Live(d, all[r], r)
        BY <3>1, <3>2, <3>4, RequestKeeps
      <4>2. ASSUME <<m, r>> \notin crossed' PROVE Exact(d, all[r], r)
        <5>1. /\ Exact(cap[m], st, r) /\ cap[m].graph /\ ~cap[m].active[r]
              /\ InState(st, "awaited") = {}
          <6>1. c.active[r] = cap[m].active[r] /\ crossed \subseteq crossed'
            BY <2>2, <1>1 DEF WentOn
          <6>2. <<m, r>> \notin crossed /\ ~Awaits(m, r)
            BY <6>1, <4>2, <3>4
          <6> QED
            BY <6>1, <6>2, <4>2, <3>2, <3>4, NothingAwaited
        <5> QED
          BY <5>1, <3>1, <3>4, RequestKeeps
      <4> QED
        BY <4>1, <4>2
    <3> QED
      BY <3>3, <3>4, <2>2, <1>1 DEF WentOn
  <2> QED
    BY <2>1, <2>2
<1> QED
  BY <1>1, <1>2, OneCaptureKeeps DEF WentOn

-----------------------------------------------------------------------------
(* The actions *)

\* What holds of a capture and of one of its sources
LEMMA CaptureTypes ==
    ASSUME DeviceInv, NEW m \in Mount, NEW s \in Source
    PROVE  /\ cap[m] \in CaptureShape /\ cap[m].active \in [Source -> BOOLEAN]
           /\ cap[m].held \in [Source -> Nat]
           /\ cap[m].graph \in BOOLEAN /\ cap[m].active[s] \in BOOLEAN
           /\ streams[m] \in [Source -> Seq(StreamState)]
           /\ streams[m][s] \in Seq(StreamState)
           /\ Live(cap[m], streams[m][s], s)
           /\ <<m, s>> \notin crossed => Exact(cap[m], streams[m][s], s)
BY DEF DeviceInv, DeviceShape, SourceGood, CaptureShape

\* The device is given, or the screen without sound, or nothing.
LEMMA AnswersKeep ==
    ASSUME DeviceInv, NEW m \in Mount, NEW s \in Source, NEW k \in 1..MaxRequests,
           Granted(m, s, k) \/ Denied(m, s, k) \/ (s = "system" /\ GrantedSilent(m, k))
    PROVE  DeviceInv'
<1> DEFINE st == streams[m][s]
<1>1. /\ cap[m] \in CaptureShape /\ cap[m].active \in [Source -> BOOLEAN]
      /\ cap[m].held \in [Source -> Nat]
      /\ cap[m].graph \in BOOLEAN /\ cap[m].active[s] \in BOOLEAN
      /\ st \in Seq(StreamState)
      /\ Live(cap[m], st, s) /\ (<<m, s>> \notin crossed => Exact(cap[m], st, s))
  BY CaptureTypes
<1>2. k \in InState(st, "awaited") /\ k \in Nat /\ UNCHANGED <<mounted, mount>>
  BY CaptureAssumption DEF Granted, Denied, GrantedSilent, Awaited, InState
<1>3. ASSUME NEW answer \in StreamState \ {"awaited"}, NEW c \in CaptureShape,
             c.graph = cap[m].graph,
             \A r \in Source \ {s} :
                c.active[r] = cap[m].active[r] /\ c.held[r] = cap[m].held[r],
             answer = "open" => c.active[s] = cap[m].graph /\ c.held[s] = k,
             answer # "open" => (c.active[s] => cap[m].active[s]),
             Continue(m, s, k, c, [streams EXCEPT ![m][s] = [st EXCEPT ![k] = answer]])
      PROVE  DeviceInv'
  <2> DEFINE new == [st EXCEPT ![k] = answer]
  <2>1. new \in Seq(StreamState)
    BY <1>1, <1>2, Answered
  <2>2. c.active[s] \in BOOLEAN
    BY <1>3 DEF CaptureShape
  <2>3. Live(c, new, s) /\ (<<m, s>> \notin crossed => Exact(c, new, s))
    BY <1>1, <1>2, <1>3, <2>2, AnswerKeeps
  <2> HIDE DEF new
  <2>4. Continue(m, s, k, c, [streams EXCEPT ![m][s] = new])
    BY <1>3 DEF new
  <2> QED
    BY <2>1, <2>3, <2>4, <1>2, <1>3, ContinueKeeps
<1>4. CASE Granted(m, s, k)
  <2> DEFINE c == [cap[m] EXCEPT !.held[s] = k, !.active[s] = cap[m].graph]
  <2>1. /\ c \in CaptureShape /\ c.graph = cap[m].graph
        /\ c.active[s] = cap[m].graph /\ c.held[s] = k
        /\ \A r \in Source \ {s} :
              c.active[r] = cap[m].active[r] /\ c.held[r] = cap[m].held[r]
    BY <1>1, <1>2 DEF CaptureShape
  <2>2. Continue(m, s, k, c, [streams EXCEPT ![m][s] = [st EXCEPT ![k] = "open"]])
    BY <1>4 DEF Granted
  <2> HIDE DEF c
  <2> QED
    BY <2>1, <2>2, <1>3 DEF StreamState
<1>5. CASE Denied(m, s, k)
  <2> DEFINE c == [cap[m] EXCEPT !.active[s] = FALSE]
  <2>1. /\ c \in CaptureShape /\ c.graph = cap[m].graph /\ c.active[s] = FALSE
        /\ \A r \in Source \ {s} :
              c.active[r] = cap[m].active[r] /\ c.held[r] = cap[m].held[r]
    BY <1>1 DEF CaptureShape
  <2>2. Continue(m, s, k, c, [streams EXCEPT ![m][s] = [st EXCEPT ![k] = "refused"]])
    BY <1>5 DEF Denied
  <2> HIDE DEF c
  <2> QED
    BY <2>1, <2>2, <1>3 DEF StreamState
<1>6. CASE s = "system" /\ GrantedSilent(m, k)
  <2> DEFINE c == [cap[m] EXCEPT !.held[s] = k]
  <2>1. /\ c \in CaptureShape /\ c.graph = cap[m].graph /\ c.active = cap[m].active
        /\ \A r \in Source \ {s} :
              c.active[r] = cap[m].active[r] /\ c.held[r] = cap[m].held[r]
    BY <1>1, <1>2 DEF CaptureShape
  <2>2. Continue(m, s, k, c, [streams EXCEPT ![m][s] = [st EXCEPT ![k] = "stopped"]])
    BY <1>6 DEF GrantedSilent
  <2> HIDE DEF c
  <2> QED
    BY <2>1, <2>2, <1>3 DEF StreamState
<1> QED
  BY <1>4, <1>5, <1>6

\* A toggle asks for a source that is off.
LEMMA ToggleOnKeeps ==
    ASSUME DeviceInv, NEW s \in Source, ToggleOn(s)
    PROVE  DeviceInv'
<1> DEFINE m == mount
           st == streams[m][s]
           all == [streams[m] EXCEPT ![s] = Append(st, "awaited")]
<1>1. /\ mounted /\ m \in Mount /\ cap[m].graph /\ ~cap[m].active[s]
      /\ shown = cap[m].active
      /\ cap \in [Mount -> CaptureShape]
  BY DEF DeviceInv, DeviceShape, Shows, ToggleOn
<1>2. /\ cap[m] \in CaptureShape /\ streams[m] \in [Source -> Seq(StreamState)]
      /\ \A r \in Source :
            /\ Live(cap[m], streams[m][r], r)
            /\ <<m, r>> \notin crossed => Exact(cap[m], streams[m][r], r)
  BY <1>1, CaptureTypes
<1>3. /\ streams' = [streams EXCEPT ![m] = all] /\ UNCHANGED <<mounted, mount, cap, shown>>
      /\ crossed' = IF Awaits(m, s) THEN crossed \cup {<<m, s>>} ELSE crossed
  BY DEF ToggleOn, Asks
<1>4. Append(st, "awaited") \in Seq(StreamState)
  BY <1>2, Requested
<1> HIDE DEF m
<1>5. /\ all \in [Source -> Seq(StreamState)] /\ all[s] = Append(st, "awaited")
      /\ \A r \in Source \ {s} : all[r] = streams[m][r]
  BY <1>2, <1>4
<1> HIDE DEF all
<1>6. Live(cap[m], all[s], s)
  BY <1>2, <1>5, RequestKeeps
<1>7. ASSUME <<m, s>> \notin crossed' PROVE Exact(cap[m], all[s], s)
  <2>1. Exact(cap[m], st, s) /\ InState(st, "awaited") = {}
    BY <1>2, <1>3, <1>7, NothingAwaited
  <2> QED
    BY <2>1, <1>1, <1>2, <1>5, RequestKeeps
<1>8. ASSUME NEW r \in Source
      PROVE  Live(cap[m], all[r], r) /\ (<<m, r>> \notin crossed' => Exact(cap[m], all[r], r))
  BY <1>2, <1>3, <1>5, <1>6, <1>7
<1>9. cap' = [cap EXCEPT ![m] = cap[m]] /\ crossed \subseteq crossed'
  BY <1>1, <1>3
<1>10. shown' = IF mounted /\ m = mount THEN cap[m].active ELSE shown
  BY <1>1, <1>3
<1> QED
  BY <1>1, <1>2, <1>3, <1>5, <1>8, <1>9, <1>10, OneCaptureKeeps

\* Letting the held stream of a source go leaves a source that is off good.
LEMMA ReleaseKeeps ==
    ASSUME NEW c, NEW d, NEW s \in Source, NEW st \in Seq(StreamState),
           NEW new \in Seq(StreamState), DOMAIN new = DOMAIN st,
           c.active[s] \in BOOLEAN,
           \A k \in DOMAIN st :
              new[k] = IF c.active[s] /\ k = c.held[s] THEN "stopped" ELSE st[k],
           ~d.active[s], Exact(c, st, s), InState(st, "awaited") = {} \/ d.graph = c.graph
    PROVE  Exact(d, new, s)
<1>1. InState(new, "open") = {}
  BY DEF Exact, InState
<1>2. InState(new, "awaited") \subseteq InState(st, "awaited")
  BY DEF InState
<1>3. InState(new, "awaited") # {} => InState(new, "awaited") = InState(st, "awaited")
  BY <1>2 DEF Exact
<1> QED
  BY <1>1, <1>2, <1>3 DEF Exact

\* A toggle lets a source go that is on.
LEMMA ToggleOffKeeps ==
    ASSUME DeviceInv, NEW s \in Source, ToggleOff(s)
    PROVE  DeviceInv'
<1> DEFINE m == mount
           st == streams[m][s]
           d == Off(cap[m], s)
           new == [k \in DOMAIN st |-> IF k = cap[m].held[s] THEN "stopped" ELSE st[k]]
           all == IF cap[m].held[s] = 0 THEN streams[m] ELSE [streams[m] EXCEPT ![s] = new]
<1>1. /\ mounted /\ m \in Mount /\ cap[m].graph /\ cap[m].active[s]
      /\ cap \in [Mount -> CaptureShape] /\ streams \in [Mount -> [Source -> Seq(StreamState)]]
  BY DEF DeviceInv, DeviceShape, ToggleOff
<1>2. /\ cap[m] \in CaptureShape /\ streams[m] \in [Source -> Seq(StreamState)]
      /\ cap[m].active \in [Source -> BOOLEAN] /\ cap[m].held \in [Source -> Nat]
      /\ \A r \in Source :
            /\ Live(cap[m], streams[m][r], r)
            /\ <<m, r>> \notin crossed => Exact(cap[m], streams[m][r], r)
  BY <1>1, CaptureTypes
<1>3. /\ cap' = [cap EXCEPT ![m] = d]
      /\ streams' = IF cap[m].held[s] = 0 THEN streams
                    ELSE [streams EXCEPT ![m][s][cap[m].held[s]] = "stopped"]
      /\ shown' = IF mounted /\ m = mount THEN d.active ELSE shown
      /\ UNCHANGED <<mounted, mount, crossed>>
  BY DEF ToggleOff, Released, Emits
<1> HIDE DEF m
<1>4. /\ d \in CaptureShape /\ d.graph = cap[m].graph /\ ~d.active[s]
      /\ \A r \in Source \ {s} : d.active[r] = cap[m].active[r] /\ d.held[r] = cap[m].held[r]
  BY <1>2 DEF Off, CaptureShape
<1> HIDE DEF d
<1>5. /\ st \in Seq(StreamState) /\ new \in Seq(StreamState) /\ DOMAIN new = DOMAIN st
      /\ new = [st EXCEPT ![cap[m].held[s]] = "stopped"]
      /\ \A k \in DOMAIN st : new[k] = IF k = cap[m].held[s] THEN "stopped" ELSE st[k]
  <2>1. st \in Seq(StreamState)
    BY <1>2
  <2> HIDE DEF st
  <2>2. new = [st EXCEPT ![cap[m].held[s]] = "stopped"]
    OBVIOUS
  <2>3. new \in [1..Len(st) -> StreamState]
    BY <2>1 DEF StreamState
  <2> QED
    BY <2>1, <2>2, <2>3
<1>6. streams' = [streams EXCEPT ![m] = all]
  <2> HIDE DEF new
  <2>1. CASE cap[m].held[s] = 0
    BY <2>1, <1>1, <1>3
  <2>2. CASE cap[m].held[s] # 0
    BY <2>2, <1>3, <1>5
  <2> QED
    BY <2>1, <2>2
<1>7. all \in [Source -> Seq(StreamState)]
  <2> HIDE DEF new
  <2> QED
    BY <1>2, <1>5
<1>8. \A r \in Source \ {s} : all[r] = streams[m][r]
  BY <1>2
<1>9. ASSUME <<m, s>> \notin crossed PROVE Exact(d, all[s], s)
  <2>1. Exact(cap[m], st, s)
    BY <1>2, <1>9
  <2>2. cap[m].held[s] # 0
    <3>1. InState(st, "open") = {cap[m].held[s]}
      BY <2>1, <1>1 DEF Exact
    <3>2. cap[m].held[s] \in 1..Len(st)
      BY <3>1, <1>5 DEF InState
    <3> QED
      BY <3>2, <1>5
  <2>3. all[s] = new
    BY <2>2, <1>2
  <2> HIDE DEF all, new, st
  <2>4. /\ cap[m].active[s] \in BOOLEAN /\ ~d.active[s] /\ d.graph = cap[m].graph
        /\ st \in Seq(StreamState) /\ new \in Seq(StreamState) /\ DOMAIN new = DOMAIN st
        /\ \A k \in DOMAIN st :
              new[k] = IF cap[m].active[s] /\ k = cap[m].held[s] THEN "stopped" ELSE st[k]
    BY <1>1, <1>2, <1>4, <1>5
  <2>5. Exact(d, new, s)
    BY <2>1, <2>4, ReleaseKeeps
  <2> QED
    BY <2>3, <2>5
<1> HIDE DEF all
<1>10. ASSUME NEW r \in Source
       PROVE  Live(d, all[r], r) /\ (<<m, r>> \notin crossed' => Exact(d, all[r], r))
  <2>1. CASE r = s
    BY <2>1, <1>3, <1>4, <1>9 DEF Live
  <2>2. CASE r # s
    BY <2>2, <1>2, <1>3, <1>4, <1>8 DEF Live, Exact
  <2> QED
    BY <2>1, <2>2
<1>11. m \in Mount /\ crossed \subseteq crossed'
  BY <1>1, <1>3
<1> QED
  BY <1>3, <1>4, <1>6, <1>7, <1>10, <1>11, OneCaptureKeeps

\* The Overlay leaves: both sources are let go, and a request still awaited
\* has crossed the stop.
LEMMA UnmountsKeeps == DeviceInv /\ Unmounts => DeviceInv'
<1> SUFFICES ASSUME DeviceInv, Unmounts PROVE DeviceInv'
  OBVIOUS
<1> DEFINE m == mount
           released == {s \in Source : cap[m].active[s]}
           d == [cap[m] EXCEPT !.active = NoAudio, !.graph = FALSE, !.closing = TRUE,
                               !.held = [s \in Source |-> IF s \in released THEN 0 ELSE @[s]]]
           all == [s \in Source |-> [k \in DOMAIN streams[m][s] |->
                     IF s \in released /\ k = cap[m].held[s] THEN "stopped"
                     ELSE streams[m][s][k]]]
<1>1. /\ mounted /\ m \in Mount /\ mount \in Nat
      /\ cap \in [Mount -> CaptureShape] /\ streams \in [Mount -> [Source -> Seq(StreamState)]]
      /\ \A l \in Mount : cap[l].graph <=> l = m
  BY DEF DeviceInv, DeviceShape, Unmounts
<1>2. /\ cap' = [cap EXCEPT ![m] = d] /\ streams' = [streams EXCEPT ![m] = all]
      /\ shown' = NoAudio /\ mounted' = FALSE /\ mount' = mount
      /\ crossed' = crossed \cup {<<mount, s>> : s \in {t \in Source : Awaits(mount, t)}}
  BY DEF Unmounts, Stops
<1>3. /\ cap[m] \in CaptureShape /\ streams[m] \in [Source -> Seq(StreamState)]
      /\ cap[m].active \in [Source -> BOOLEAN] /\ cap[m].held \in [Source -> Nat]
  BY <1>1 DEF CaptureShape
<1>4. /\ d \in CaptureShape /\ d.graph = FALSE /\ d.active = NoAudio
  <2> DEFINE held == [s \in Source |-> IF s \in released THEN 0 ELSE cap[m].held[s]]
  <2>1. held \in [Source -> Nat] /\ NoAudio \in [Source -> BOOLEAN]
    BY <1>3 DEF NoAudio
  <2>2. d = [cap[m] EXCEPT !.active = NoAudio, !.graph = FALSE, !.closing = TRUE, !.held = held]
    OBVIOUS
  <2> HIDE DEF d, held
  <2> QED
    BY <2>1, <2>2, <1>3 DEF CaptureShape
<1>5. ASSUME NEW s \in Source
      PROVE  /\ all[s] \in Seq(StreamState) /\ DOMAIN all[s] = DOMAIN streams[m][s]
             /\ \A k \in DOMAIN streams[m][s] :
                   all[s][k] = IF cap[m].active[s] /\ k = cap[m].held[s] THEN "stopped"
                               ELSE streams[m][s][k]
  <2> DEFINE st == streams[m][s]
  <2>1. st \in Seq(StreamState)
    BY <1>3
  <2>2. all[s] = [k \in DOMAIN st |->
                     IF cap[m].active[s] /\ k = cap[m].held[s] THEN "stopped" ELSE st[k]]
    OBVIOUS
  <2> HIDE DEF all
  <2>3. all[s] \in [1..Len(st) -> StreamState]
    BY <2>1, <2>2 DEF StreamState
  <2> QED
    BY <2>1, <2>2, <2>3
<1>6. all \in [Source -> Seq(StreamState)]
  BY <1>5
<1> HIDE DEF d, all, m
<1>7. DeviceShape'
  <2>1. \A l \in Mount : ~cap'[l].graph
    BY <1>1, <1>2, <1>4
  <2> QED
    BY <2>1, <1>1, <1>2, <1>4, <1>6 DEF DeviceShape
<1>8. Shows'
  BY <1>2 DEF Shows
<1>9. ASSUME NEW l \in Mount, NEW s \in Source PROVE SourceGood(l, s)'
  <2>1. Live(cap[l], streams[l][s], s) /\ (<<l, s>> \notin crossed => Exact(cap[l], streams[l][s], s))
    BY CaptureTypes
  <2>2. CASE l = m
    <3>1. cap'[l] = d /\ streams'[l][s] = all[s]
      BY <1>1, <1>2, <2>2
    <3>2. ~d.active[s]
      BY <1>4 DEF NoAudio
    <3>3. ASSUME <<l, s>> \notin crossed' PROVE Exact(d, all[s], s)
      <4>1. <<m, s>> \notin crossed /\ ~Awaits(m, s)
        BY <3>3, <2>2, <1>2 DEF m
      <4>2. InState(streams[m][s], "awaited") = {} /\ Exact(cap[m], streams[m][s], s)
        BY <4>1, <2>1, <2>2, NothingAwaited
      <4>3. /\ streams[m][s] \in Seq(StreamState) /\ all[s] \in Seq(StreamState)
            /\ cap[m].active[s] \in BOOLEAN
        BY <1>3, <1>5
      <4> QED
        BY <4>2, <4>3, <3>2, <1>5, ReleaseKeeps
    <3> QED
      BY <2>2, <3>1, <3>2, <3>3 DEF SourceGood, Live
  <2>3. CASE l # m
    <3>1. cap'[l] = cap[l] /\ streams'[l] = streams[l] /\ crossed \subseteq crossed'
      BY <1>1, <1>2, <2>3
    <3> QED
      BY <3>1, <2>1 DEF SourceGood
  <2> QED
    BY <2>2, <2>3
<1> QED
  BY <1>7, <1>8, <1>9 DEF DeviceInv

\* A new Overlay asks for the microphone of a new capture.
LEMMA MountsKeeps == DeviceInv /\ Mounts => DeviceInv'
<1> SUFFICES ASSUME DeviceInv, Mounts PROVE DeviceInv'
  OBVIOUS
<1> DEFINE m == mount + 1
           d == [Unborn EXCEPT !.started = TRUE, !.graph = TRUE, !.starting = <<"mic", 1>>]
           st == streams[m]["mic"]
<1>1. /\ ~mounted /\ m \in Mount /\ mount \in Nat /\ "mic" \in Source
      /\ cap \in [Mount -> CaptureShape] /\ streams \in [Mount -> [Source -> Seq(StreamState)]]
      /\ \A l \in Mount : ~cap[l].graph
  BY CaptureAssumption DEF DeviceInv, DeviceShape, Mounts, Mount, Source
<1>2. /\ cap' = [cap EXCEPT ![m] = d] /\ streams' = [streams EXCEPT ![m]["mic"] = Append(@, "awaited")]
      /\ shown' = NoAudio /\ mounted' = TRUE /\ mount' = m /\ crossed' = crossed
  BY DEF Mounts, Asks
<1>3. d \in CaptureShape /\ d.graph /\ d.active = NoAudio
  BY DEF Unborn, CaptureShape, Source, NoAudio
<1>4. /\ st \in Seq(StreamState) /\ Append(st, "awaited") \in Seq(StreamState)
      /\ InState(Append(st, "awaited"), "open") = InState(st, "open")
      /\ InState(Append(st, "awaited"), "awaited") = InState(st, "awaited") \cup {Len(st) + 1}
  <2>1. st \in Seq(StreamState)
    BY <1>1
  <2> HIDE DEF st
  <2> QED
    BY <2>1, Requested
<1> HIDE DEF d, m
<1>5. /\ streams' \in [Mount -> [Source -> Seq(StreamState)]]
      /\ streams'[m]["mic"] = Append(st, "awaited")
      /\ \A s \in Source \ {"mic"} : streams'[m][s] = streams[m][s]
      /\ \A l \in Mount \ {m} : streams'[l] = streams[l]
  BY <1>1, <1>2, <1>4
<1>6. /\ cap' \in [Mount -> CaptureShape] /\ cap'[m] = d
      /\ \A l \in Mount \ {m} : cap'[l] = cap[l]
  BY <1>1, <1>2, <1>3
<1>7. DeviceShape'
  <2>1. m \in Nat
    BY <1>1 DEF m
  <2>2. \A l \in Mount : cap'[l].graph <=> l = m
    BY <1>1, <1>3, <1>6
  <2> QED
    BY <2>1, <2>2, <1>1, <1>2, <1>5, <1>6 DEF DeviceShape
<1>8. Shows'
  BY <1>2, <1>3, <1>6 DEF Shows
<1>9. ASSUME NEW l \in Mount, NEW s \in Source PROVE SourceGood(l, s)'
  <2>1. Live(cap[l], streams[l][s], s) /\ (<<l, s>> \notin crossed => Exact(cap[l], streams[l][s], s))
    BY CaptureTypes
  <2>2. CASE l = m
    <3>1. ~d.active[s] /\ ~cap[m].active[s]
      BY <2>1, <2>2, <1>1, <1>3 DEF Live, NoAudio
    <3>2. ASSUME <<l, s>> \notin crossed
          PROVE  InState(streams[m][s], "open") = {} /\ InState(streams[m][s], "awaited") = {}
      BY <3>1, <3>2, <2>1, <2>2, <1>1 DEF Exact
    <3>3. CASE s = "mic"
      <4>1. ASSUME <<l, s>> \notin crossed PROVE Exact(d, Append(st, "awaited"), s)
        <5>1. /\ InState(Append(st, "awaited"), "open") = {}
              /\ InState(Append(st, "awaited"), "awaited") = {Len(st) + 1}
          BY <4>1, <3>2, <3>3, <1>4
        <5> QED
          BY <5>1, <3>1, <1>3 DEF Exact
      <4> QED
        BY <4>1, <3>1, <3>3, <2>2, <1>2, <1>5, <1>6 DEF SourceGood, Live
    <3>4. CASE s # "mic"
      <4>1. ASSUME <<l, s>> \notin crossed PROVE Exact(d, streams[m][s], s)
        BY <4>1, <3>1, <3>2 DEF Exact
      <4> QED
        BY <4>1, <3>1, <3>4, <2>2, <1>2, <1>5, <1>6 DEF SourceGood, Live
    <3> QED
      BY <3>3, <3>4
  <2>3. CASE l # m
    BY <2>1, <2>3, <1>2, <1>5, <1>6 DEF SourceGood
  <2> QED
    BY <2>2, <2>3
<1> QED
  BY <1>7, <1>8, <1>9 DEF DeviceInv

\* The audio context is closed.
LEMMA ClosedKeeps ==
    ASSUME DeviceInv, NEW m \in Mount, Closed(m)
    PROVE  DeviceInv'
<1> DEFINE d == [cap[m] EXCEPT !.closing = FALSE, !.started = FALSE]
<1>1. /\ cap[m] \in CaptureShape /\ streams[m] \in [Source -> Seq(StreamState)]
      /\ streams \in [Mount -> [Source -> Seq(StreamState)]]
      /\ \A s \in Source : Live(cap[m], streams[m][s], s)
      /\ \A s \in Source : <<m, s>> \notin crossed => Exact(cap[m], streams[m][s], s)
  BY CaptureTypes DEF DeviceInv, DeviceShape
<1>2. /\ d \in CaptureShape /\ d.graph = cap[m].graph
      /\ d.active = cap[m].active /\ d.held = cap[m].held
  BY <1>1 DEF CaptureShape
<1>3. /\ cap' = [cap EXCEPT ![m] = d] /\ UNCHANGED <<mounted, mount, streams, shown, crossed>>
  BY DEF Closed
<1> HIDE DEF d
<1>4. \A s \in Source : Live(d, streams[m][s], s)
  BY <1>1, <1>2 DEF Live
<1>5. \A s \in Source : <<m, s>> \notin crossed' => Exact(d, streams[m][s], s)
  BY <1>1, <1>2, <1>3 DEF Exact
<1>6. streams' = [streams EXCEPT ![m] = streams[m]]
  BY <1>1, <1>3
<1>7. shown' = IF mounted /\ m = mount THEN d.active ELSE shown
  BY <1>2, <1>3 DEF DeviceInv, Shows
<1> QED
  BY <1>1, <1>2, <1>3, <1>4, <1>5, <1>6, <1>7, OneCaptureKeeps

\* Frames and pauses leave the devices alone.
LEMMA StillKeeps ==
    ASSUME DeviceInv, UNCHANGED <<mounted, mount, cap, streams, shown, crossed>>
    PROVE  DeviceInv'
BY DEF DeviceInv, DeviceShape, Shows, SourceGood

\* Nothing is captured at the start.
LEMMA InitDeviceInv == CaptureInit => DeviceInv
<1> SUFFICES ASSUME CaptureInit PROVE DeviceInv
  OBVIOUS
<1>1. /\ Unborn \in CaptureShape /\ ~Unborn.graph /\ Unborn.active = NoAudio
      /\ \A s \in Source : ~NoAudio[s]
  BY DEF Unborn, CaptureShape, NoAudio, Source
<1>2. \A m \in Mount, s \in Source : cap[m] = Unborn /\ streams[m][s] = <<>>
  BY DEF CaptureInit
<1>3. DeviceShape
  <2>1. cap \in [Mount -> CaptureShape] /\ mounted = FALSE /\ mount = 0
    BY <1>1 DEF CaptureInit
  <2>2. streams \in [Mount -> [Source -> Seq(StreamState)]]
    <3>1. <<>> \in Seq(StreamState)
      OBVIOUS
    <3>2. [s \in Source |-> <<>>] \in [Source -> Seq(StreamState)]
      BY <3>1
    <3> QED
      BY <3>2, Zenon DEF CaptureInit
  <2>3. \A m \in Mount : ~cap[m].graph
    BY <1>1 DEF CaptureInit
  <2> QED
    BY <2>1, <2>2, <2>3 DEF DeviceShape
<1>4. Shows
  BY DEF CaptureInit, Shows
<1>5. InState(<<>>, "open") = {} /\ InState(<<>>, "awaited") = {}
  BY DEF InState
<1>6. \A m \in Mount, s \in Source : SourceGood(m, s)
  BY <1>1, <1>2, <1>5 DEF SourceGood, Live, Exact
<1> QED
  BY <1>3, <1>4, <1>6 DEF DeviceInv

\* Every step keeps the invariant.
LEMMA NextDeviceInv == DeviceInv /\ [CaptureNext]_captureVars => DeviceInv'
<1> SUFFICES ASSUME DeviceInv, [CaptureNext]_captureVars PROVE DeviceInv'
  OBVIOUS
<1>1. CASE Mounts
  BY <1>1, MountsKeeps
<1>2. CASE Unmounts
  BY <1>2, UnmountsKeeps
<1>3. ASSUME NEW s \in Source, ToggleOn(s) \/ ToggleOff(s) PROVE DeviceInv'
  BY <1>3, ToggleOnKeeps, ToggleOffKeeps
<1>4. ASSUME NEW m \in Mount, NEW s \in Source, NEW k \in 1..MaxRequests,
             Granted(m, s, k) \/ Denied(m, s, k)
      PROVE  DeviceInv'
  BY <1>4, AnswersKeep
<1>5. ASSUME NEW m \in Mount, NEW k \in 1..MaxRequests, GrantedSilent(m, k) PROVE DeviceInv'
  <2>1. "system" \in Source
    BY DEF Source
  <2> QED
    BY <2>1, <1>5, AnswersKeep
<1>6. ASSUME NEW m \in Mount, Closed(m) PROVE DeviceInv'
  BY <1>6, ClosedKeeps
<1>7. CASE \E voice \in BOOLEAN : Frame(voice)
  BY <1>7, StillKeeps DEF Frame
<1>8. CASE Pause
  BY <1>8, StillKeeps DEF Pause
<1>9. CASE UNCHANGED captureVars
  BY <1>9, StillKeeps DEF captureVars
<1> QED
  BY <1>1, <1>2, <1>3, <1>4, <1>5, <1>6, <1>7, <1>8, <1>9 DEF CaptureNext

\* What is shown on is captured, and nothing else, where no request crossed.
LEMMA GoodSourcesAreShown == DeviceInv => DevicesAreShown
<1> SUFFICES ASSUME DeviceInv PROVE DevicesAreShown
  OBVIOUS
<1>1. \A m, s : Open(m, s) = InState(streams[m][s], "open")
  BY DEF Open, InState
<1>2. ASSUME NEW m \in Mount, NEW s \in Source, <<m, s>> \notin crossed
      PROVE  Open(m, s) = IF mounted /\ m = mount /\ shown[s] THEN {cap[m].held[s]} ELSE {}
  <2>1. /\ Exact(cap[m], streams[m][s], s) /\ Live(cap[m], streams[m][s], s)
        /\ cap[m].active[s] \in BOOLEAN
    BY <1>2, CaptureTypes
  <2>2. cap[m].active[s] => mounted /\ m = mount
    BY <2>1 DEF Live, DeviceInv, DeviceShape
  <2>3. mounted /\ m = mount => shown = cap[m].active
    BY DEF DeviceInv, Shows
  <2>4. Open(m, s) = IF cap[m].active[s] THEN {cap[m].held[s]} ELSE {}
    BY <1>1, <2>1 DEF Exact
  <2> QED
    BY <2>2, <2>3, <2>4
<1>3. ASSUME NEW s \in Source, shown[s] PROVE Open(mount, s) # {}
  <2>1. mounted /\ mount \in Mount /\ cap[mount].active[s]
    BY <1>3 DEF DeviceInv, DeviceShape, Shows, NoAudio
  <2>2. Live(cap[mount], streams[mount][s], s)
    BY <2>1, CaptureTypes
  <2> QED
    BY <2>1, <2>2, <1>1 DEF Live
<1> QED
  BY <1>2, <1>3 DEF DevicesAreShown

\* The devices captured are those the Overlay shows on, through any toggles,
\* refusals, stops and mounts, but for requests that crossed another or a stop.
THEOREM DevicesAlwaysShown == CaptureSpec => []DevicesAreShown
<1>1. CaptureInit => DeviceInv
  BY InitDeviceInv
<1>2. DeviceInv /\ [CaptureNext]_captureVars => DeviceInv'
  BY NextDeviceInv
<1>3. DeviceInv => DevicesAreShown
  BY GoodSourcesAreShown
<1> QED
  BY <1>1, <1>2, <1>3, PTL DEF CaptureSpec
=============================================================================
