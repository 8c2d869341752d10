------------------------------ MODULE SpeechRelay ------------------------------
(***************************************************************************)
(* The relay of a session as the backend configures it: Deepgram's, unless *)
(* the default provider is Whisper.  The variables of the other stay as    *)
(* they are.                                                               *)
(***************************************************************************)
EXTENDS DeepgramRelay, WhisperRelay

VARIABLE provider   \* DEFAULT_STT_PROVIDER

vars == <<sttVars, deepgramVars, whisperVars, provider>>

\* startBackend's sttRelayFactory
Init ==
    /\ provider \in {"deepgram", "whisper"}
    /\ SttInit
    /\ DeepgramInit(IF provider = "whisper" THEN NotConnected ELSE Connecting)
    /\ WhisperInit

Next ==
    /\ UNCHANGED provider
    /\ \/ provider # "whisper" /\ DeepgramNext /\ UNCHANGED whisperVars
       \/ provider = "whisper" /\ WhisperNext /\ UNCHANGED deepgramVars

Spec == Init /\ [][Next]_vars

\* Each relay's events that are due are delivered; audio, drops and the end of
\* the session are free.
FairSpec == Spec /\ DeepgramFairness

-----------------------------------------------------------------------------
(* Properties                                                               *)

RelayTypeOK == SttTypeOK /\ DeepgramTypeOK /\ WhisperTypeOK

\* Whatever the relay goes through, each frame pushed is metered once: those
\* reported and those waiting to be are all of them.
EveryFrameMetered == meter.reported + meter.pending = pushed

\* What DeepgramRelay and WhisperRelay promise, each where it is the relay.
SpeechPreserved == provider = "deepgram" => SpeechInOrder /\ NoSpeechForgotten
NeverDead == provider = "deepgram" => NeverSilentlyDead
KeptUntilTranscribed == provider = "whisper" => OnlyOverlappingSpeechLost

\* A relay that lost its connection comes up again, or has told the client, or
\* has been closed.
RelayRecovers ==
    [](provider = "deepgram" /\ ~relay.open =>
        <>(relay.open \/ told \/ relay.disposed))

-----------------------------------------------------------------------------
(* What the documents say, and the code does not do: see the README.         *)

SpeechAskedOnce == provider = "whisper" => AskedOnce
SpeechAllAsked == provider = "whisper" => NoSpeechOverwritten
=============================================================================
