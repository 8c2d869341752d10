------------------------------- MODULE SttRelay -------------------------------
(***************************************************************************)
(* What the two speech relays of the session gateway share: the events     *)
(* they emit, the metering of audio and the shared endpointing reducers.   *)
(* A frame of audio is its number; a text is the sequence of the voiced    *)
(* frames it is the transcription of.                                      *)
(***************************************************************************)
EXTENDS Integers, Sequences, FiniteSets, SequencesExt

CONSTANTS
    MaxFrames,     \* bound: frames pushed
    FrameTenths,   \* length of a frame in tenths of a second
    MeterAt,       \* frames per metered minute
    Configured,    \* silence thresholds a client asks for, in tenths
    Unset          \* undefined or NaN asked for

ASSUME SttRelayAssumption ==
    /\ MaxFrames \in Nat
    /\ {FrameTenths, MeterAt} \subseteq Nat \ {0}
    /\ Configured \subseteq Int \cup {Unset}
    /\ Configured # {}

VARIABLES
    threshold,     \* the resolved silence threshold
    pushed,        \* frames pushed so far
    voiced,        \* those among them that hold speech
    meter,         \* meteredSamples, and what onMetered has reported
    pendingText,   \* SttState
    finals,        \* onFinal events, in order
    told           \* onError has been called

sttVars == <<threshold, pushed, voiced, meter, pendingText, finals, told>>

Frame == 1..MaxFrames
Text == Seq(Frame)
NoText == <<>>

SttTypeOK ==
    /\ threshold \in 3..50
    /\ pushed \in 0..MaxFrames
    /\ voiced \subseteq 1..pushed
    /\ meter \in [pending : 0..(MeterAt - 1), reported : Nat]
    /\ pendingText \in Text
    /\ finals \in Seq(Text \ {NoText})
    /\ told \in BOOLEAN

\* 0.3 to 5 seconds, 1.5 by default
ResolveSilenceThreshold(configured) ==
    CASE configured = Unset -> 15
      [] configured < 3 -> 3
      [] configured > 50 -> 50
      [] OTHER -> configured

SttInit ==
    /\ threshold \in {ResolveSilenceThreshold(c) : c \in Configured}
    /\ pushed = 0
    /\ voiced = {}
    /\ meter = [pending |-> 0, reported |-> 0]
    /\ pendingText = NoText
    /\ finals = <<>>
    /\ told = FALSE

\* reduceStt
ReduceSpeech(pending, text) == pending \o text

ReduceSilence(pending, duration, limit) ==
    IF duration >= limit
    THEN [pending |-> NoText, question |-> pending]
    ELSE [pending |-> pending, question |-> NoText]

OnFinal(question) == finals' = IF question = NoText THEN finals ELSE Append(finals, question)

\* Mutant: the minute is reported and the samples counted on.
MeterFrameKeeping ==
    IF meter.pending + 1 >= MeterAt
    THEN [pending |-> meter.pending, reported |-> meter.reported + meter.pending + 1]
    ELSE [meter EXCEPT !.pending = @ + 1]

MeterFrame ==
    IF meter.pending + 1 >= MeterAt
    THEN [pending |-> 0, reported |-> meter.reported + meter.pending + 1]
    ELSE [meter EXCEPT !.pending = @ + 1]

MeterRest == [pending |-> 0, reported |-> meter.reported + meter.pending]

\* The part of pushAudio both relays begin with: the next frame, with speech
\* in it or without.
Frames(speech) ==
    /\ pushed < MaxFrames
    /\ pushed' = pushed + 1
    /\ voiced' = IF speech THEN voiced \cup {pushed + 1} ELSE voiced
    /\ meter' = MeterFrame
    /\ UNCHANGED threshold

NoFrames == UNCHANGED <<threshold, pushed, voiced>>
=============================================================================
