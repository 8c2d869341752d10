----------------------------- MODULE DeepgramRelay -----------------------------
(***************************************************************************)
(* The streaming relay: one upstream connection at a time, opened again    *)
(* when it drops, with the frames pushed meanwhile kept for the next one.  *)
(* Upstream is Deepgram: it hears what is sent on a connection that is up, *)
(* transcribes it in order, and forgets it when the connection breaks.     *)
(***************************************************************************)
EXTENDS SttRelay

CONSTANTS
    MaxReconnectAttempts,
    PreopenBufferCap

ASSUME DeepgramAssumption == {MaxReconnectAttempts, PreopenBufferCap} \subseteq Nat \ {0}

VARIABLES
    relay,      \* the closure of createDeepgramRelayFactory
    upstream,   \* the connection, and what was heard on it but not yet transcribed
    missing     \* history: voiced frames lost with a connection, or the buffer being full

deepgramVars == <<relay, upstream, missing>>

DeepgramTypeOK ==
    /\ relay \in [open : BOOLEAN, disposed : BOOLEAN, attempts : 0..MaxReconnectAttempts,
                  keepAlive : BOOLEAN, timer : BOOLEAN, preOpen : Seq(Frame)]
    /\ Len(relay.preOpen) <= PreopenBufferCap
    /\ upstream \in [is : {"none", "connecting", "up", "broken", "closing"}, heard : Text]
    /\ missing \subseteq Frame

Connecting == [is |-> "connecting", heard |-> NoText]
NotConnected == [is |-> "none", heard |-> NoText]

DeepgramInit(first) ==
    /\ relay = [open |-> FALSE, disposed |-> FALSE, attempts |-> 0,
                keepAlive |-> FALSE, timer |-> FALSE, preOpen |-> <<>>]
    /\ upstream = first
    /\ missing = {}

-----------------------------------------------------------------------------
\* What there is to hear in frames: a voiced one each, or nothing.
Speech(frames) ==
    FlattenSeq([n \in DOMAIN frames |-> IF frames[n] \in voiced' THEN <<frames[n]>> ELSE NoText])

Hearing(frames) == upstream' = [upstream EXCEPT !.heard = @ \o Speech(frames)]
Missing(frames) == missing' = missing \cup {f \in ToSet(frames) : f \in voiced'}

\* Kept for the next connection, if there is room.
Buffer(f) ==
    /\ UNCHANGED upstream
    /\ IF Len(relay.preOpen) < PreopenBufferCap
       THEN relay' = [relay EXCEPT !.preOpen = Append(@, f)] /\ UNCHANGED missing
       ELSE Missing(<<f>>) /\ UNCHANGED relay

\* send on a broken connection throws, or goes nowhere
PushAudio(speech) ==
    LET f == pushed + 1 IN
    /\ Frames(speech)
    /\ \/ relay.open /\ upstream.is # "broken" /\ Hearing(<<f>>) /\ UNCHANGED <<relay, missing>>
       \/ relay.open /\ upstream.is = "broken" /\ Missing(<<f>>) /\ UNCHANGED <<relay, upstream>>
       \/ (relay.open => upstream.is = "broken") /\ Buffer(f)
    /\ UNCHANGED <<pendingText, finals, told>>

\* Mutant: the frames replayed stay in the buffer.
OpensKeeping ==
    /\ upstream.is = "connecting"
    /\ relay' = [relay EXCEPT !.open = TRUE, !.attempts = 0, !.keepAlive = TRUE]
    /\ NoFrames
    /\ upstream' = [is |-> "up", heard |-> Speech(relay.preOpen)]
    /\ UNCHANGED <<missing, meter, pendingText, finals, told>>

\* 'Open': the buffer is replayed and forgotten, even if the connection is
\* broken again by then; the keep-alive runs, even if close() has been called.
Opens ==
    /\ upstream.is = "connecting"
    /\ relay' = [relay EXCEPT !.open = TRUE, !.attempts = 0, !.keepAlive = TRUE,
                              !.preOpen = <<>>]
    /\ NoFrames
    /\ \/ /\ upstream' = [is |-> "up", heard |-> Speech(relay.preOpen)]
          /\ UNCHANGED missing
       \/ upstream' = [upstream EXCEPT !.is = "broken"] /\ Missing(relay.preOpen)
    /\ UNCHANGED <<meter, pendingText, finals, told>>

\* 'Transcript', final: of the first n frames heard.  Interim results change
\* nothing but the screen.
Transcribed(n) ==
    /\ upstream.is \in {"up", "closing"}
    /\ n \in DOMAIN upstream.heard
    /\ pendingText' = ReduceSpeech(pendingText, SubSeq(upstream.heard, 1, n))
    /\ upstream' = [upstream EXCEPT !.heard = SubSeq(@, n + 1, Len(@))]
    /\ NoFrames
    /\ UNCHANGED <<relay, missing, meter, finals, told>>

\* 'UtteranceEnd': the silence is taken to be the threshold at least.
UtteranceEnd ==
    LET r == ReduceSilence(pendingText, threshold, threshold) IN
    /\ upstream.is \in {"up", "closing"}
    /\ pendingText' = r.pending
    /\ OnFinal(r.question)
    /\ NoFrames
    /\ UNCHANGED <<relay, upstream, missing, meter, told>>

\* Mutant: giving up is not reported.
ScheduleReconnectSilently(new) ==
    /\ UNCHANGED told
    /\ relay' = IF new.disposed \/ new.timer \/ new.attempts >= MaxReconnectAttempts THEN new
                ELSE [new EXCEPT !.attempts = @ + 1, !.timer = TRUE]

ScheduleReconnect(new) ==
    CASE new.disposed \/ new.timer -> relay' = new /\ UNCHANGED told
      [] ~new.disposed /\ ~new.timer /\ new.attempts >= MaxReconnectAttempts ->
            relay' = new /\ told' = TRUE
      [] OTHER -> /\ relay' = [new EXCEPT !.attempts = @ + 1, !.timer = TRUE]
                  /\ UNCHANGED told

\* 'Close'
Closes ==
    /\ \/ upstream.is = "broken"
       \/ upstream.is = "closing" /\ upstream.heard = NoText
    /\ upstream' = NotConnected
    /\ ScheduleReconnect([relay EXCEPT !.open = FALSE, !.keepAlive = FALSE])
    /\ NoFrames
    /\ UNCHANGED <<missing, meter, pendingText, finals>>

\* Mutant: the fired timer is still taken to be running.
ReconnectsUncleared ==
    /\ relay.timer
    /\ upstream.is = "none"
    /\ relay' = [relay EXCEPT !.open = FALSE]
    /\ upstream' = Connecting
    /\ NoFrames
    /\ UNCHANGED <<missing, meter, pendingText, finals, told>>

\* The reconnect timer: connect
Reconnects ==
    /\ relay.timer
    /\ relay' = [relay EXCEPT !.timer = FALSE, !.open = FALSE]
    /\ upstream' = Connecting
    /\ NoFrames
    /\ UNCHANGED <<missing, meter, pendingText, finals, told>>

\* close(): the request may or may not take while the connection opens.
Close ==
    /\ ~relay.disposed
    /\ relay' = [relay EXCEPT !.disposed = TRUE, !.timer = FALSE, !.keepAlive = FALSE]
    /\ meter' = MeterRest
    /\ CASE upstream.is = "up" -> upstream' = [upstream EXCEPT !.is = "closing"]
         [] upstream.is = "connecting" ->
               upstream' \in {upstream, [upstream EXCEPT !.is = "closing"]}
         [] OTHER -> UNCHANGED upstream
    /\ NoFrames
    /\ UNCHANGED <<missing, pendingText, finals, told>>

\* Upstream fails: what it had heard will not be transcribed.
Drops ==
    /\ upstream.is \in {"connecting", "up", "closing"}
    /\ upstream' = [is |-> "broken", heard |-> NoText]
    /\ missing' = missing \cup ToSet(upstream.heard)
    /\ NoFrames
    /\ UNCHANGED <<relay, meter, pendingText, finals, told>>

DeepgramNext ==
    \/ \E speech \in BOOLEAN : PushAudio(speech)
    \/ Opens \/ UtteranceEnd \/ Closes \/ Reconnects \/ Close \/ Drops
    \/ \E n \in Frame : Transcribed(n)

\* Timers fire, close events are delivered, a connection comes up or fails.
DeepgramFairness ==
    /\ WF_<<sttVars, deepgramVars>>(Reconnects)
    /\ WF_<<sttVars, deepgramVars>>(Closes)
    /\ WF_<<sttVars, deepgramVars>>(Opens)

-----------------------------------------------------------------------------
(* Properties                                                               *)

\* All that was made of the speech so far: asked, pending and heard.
Understood == FlattenSeq(finals) \o pendingText \o upstream.heard

\* Speech is understood in the order it was spoken and no part of it twice,
\* across reconnects and replays of the buffer ("preserving the endpointing
\* state", deepgramClient.ts:11).
SpeechInOrder ==
    \A i, j \in DOMAIN Understood : i < j => Understood[i] < Understood[j]

\* No speech disappears: what was said is understood, waits in the buffer, or
\* was lost with a connection or to a full buffer.
NoSpeechForgotten ==
    voiced = ToSet(Understood) \cup (ToSet(relay.preOpen) \cap voiced) \cup missing

\* The relay is never left dead in silence ("the transcript never gets
\* permanently stuck. Only repeated failures surface an error",
\* deepgramClient.ts:12): without a connection a reconnect is due or the client
\* was told, and a connection only runs its keep-alive while there is one.
NeverSilentlyDead ==
    /\ ~relay.disposed /\ upstream.is = "none" => relay.timer \/ told
    /\ relay.timer => upstream.is = "none"
    /\ relay.disposed => ~relay.timer
    /\ relay.keepAlive => upstream.is \in {"up", "broken", "closing"}
=============================================================================
