----------------------------- MODULE WhisperRelay -----------------------------
(***************************************************************************)
(* The relay over a transcription request per utterance.  The energy of a  *)
(* frame decides speech and silence; finalize awaits the transcription of  *)
(* a copy of the utterance, and pushAudio and further calls go on meanwhile. *)
(***************************************************************************)
EXTENDS SttRelay

CONSTANT MaxRequests   \* bound: finalize calls in flight at once

ASSUME WhisperAssumption == MaxRequests \in Nat \ {0}

VARIABLES
    utterance,
    silence,      \* silenceMs, in tenths of a second
    busy,         \* a partial transcription is in flight
    requests,     \* finalize calls in flight, each with its copy of the utterance
    unmade,       \* history: voiced frames of which no question was made
    overlapped    \* history: voiced frames pushed while a finalize was in flight

whisperVars == <<utterance, silence, busy, requests, unmade, overlapped>>

WhisperTypeOK ==
    /\ utterance \in Text
    /\ silence \in 0..(MaxFrames * FrameTenths)
    /\ busy \in BOOLEAN
    /\ requests \in Seq(Text \ {NoText})
    /\ unmade \cup overlapped \subseteq Frame

WhisperInit ==
    /\ utterance = NoText
    /\ silence = 0
    /\ busy = FALSE
    /\ requests = <<>>
    /\ unmade = {}
    /\ overlapped = {}

-----------------------------------------------------------------------------
\* finalize, up to its await
Finalize ==
    IF utterance = NoText
    THEN UNCHANGED requests
    ELSE Len(requests) < MaxRequests /\ requests' = Append(requests, utterance)

\* A silent frame: enough of them finalize the utterance.
PushSilence ==
    LET sofar == silence + FrameTenths IN
    /\ Frames(FALSE)
    /\ IF utterance # NoText /\ sofar >= threshold
       THEN silence' = 0 /\ Finalize
       ELSE silence' = sofar /\ UNCHANGED requests
    /\ UNCHANGED <<utterance, busy, unmade, overlapped, pendingText, finals, told>>

\* A voiced frame: it may start a partial transcription, if the last is over.
PushSpeech ==
    /\ Frames(TRUE)
    /\ silence' = 0
    /\ utterance' = Append(utterance, pushed + 1)
    /\ overlapped' = IF requests = <<>> THEN overlapped ELSE overlapped \cup {pushed + 1}
    /\ busy' \in {busy, TRUE}
    /\ UNCHANGED <<requests, unmade, pendingText, finals, told>>

\* The partial is shown, or its error reported.
PartialReturns ==
    /\ busy
    /\ busy' = FALSE
    /\ told' \in {told, TRUE}
    /\ NoFrames
    /\ UNCHANGED <<utterance, silence, requests, unmade, overlapped, meter, pendingText, finals>>

\* Mutant: the utterance is given up when its transcription fails.
TranscriptionFailsClearing(i) ==
    /\ i \in DOMAIN requests
    /\ requests' = RemoveAt(requests, i)
    /\ utterance' = NoText
    /\ told' = TRUE
    /\ NoFrames
    /\ UNCHANGED <<silence, busy, unmade, overlapped, meter, pendingText, finals>>

\* finalize, its request failed: the utterance is kept.
TranscriptionFails(i) ==
    /\ i \in DOMAIN requests
    /\ requests' = RemoveAt(requests, i)
    /\ told' = TRUE
    /\ NoFrames
    /\ UNCHANGED <<utterance, silence, busy, unmade, overlapped, meter, pendingText, finals>>

\* finalize, its request answered with what was said or with no text: the
\* utterance, as it is by now, is over.
TranscriptionReturns(i) ==
    /\ i \in DOMAIN requests
    /\ \E text \in {requests[i], NoText} :
          LET r == ReduceSilence(ReduceSpeech(pendingText, text), threshold, threshold) IN
          /\ pendingText' = r.pending
          /\ OnFinal(r.question)
          /\ unmade' = IF text = NoText THEN unmade \cup ToSet(requests[i]) ELSE unmade
    /\ requests' = RemoveAt(requests, i)
    /\ utterance' = NoText
    /\ NoFrames
    /\ UNCHANGED <<silence, busy, overlapped, meter, told>>

\* close(), called while the session ends and awaiting its own finalize
CloseWhisper ==
    /\ meter' = MeterRest
    /\ Finalize
    /\ NoFrames
    /\ UNCHANGED <<utterance, silence, busy, unmade, overlapped, pendingText, finals, told>>

WhisperNext ==
    \/ PushSilence \/ PushSpeech \/ PartialReturns \/ CloseWhisper
    \/ \E i \in 1..MaxRequests : TranscriptionFails(i) \/ TranscriptionReturns(i)

-----------------------------------------------------------------------------
(* Properties                                                               *)

\* What was said before a transcription began is not lost to it: it waits in
\* the utterance, was asked, or was found to be no speech.  Only what arrives
\* while finalize awaits may disappear with the utterance it joined.
OnlyOverlappingSpeechLost ==
    voiced \ overlapped \subseteq
        ToSet(utterance) \cup ToSet(FlattenSeq(finals)) \cup unmade

-----------------------------------------------------------------------------
(* What the documents say, and the code does not do: see the README.         *)

\* A silence makes one question of the speech before it (requirement 13.5): no
\* part of it is asked, and answered, twice.
AskedOnce ==
    LET asked == FlattenSeq(finals) IN
    \A i, j \in DOMAIN asked : asked[i] = asked[j] => i = j

\* All speech followed by silence is asked in the end, also what was said while
\* the question before it was being transcribed.
NoSpeechOverwritten ==
    requests = <<>> =>
        voiced \subseteq ToSet(utterance) \cup ToSet(FlattenSeq(finals)) \cup unmade
=============================================================================
