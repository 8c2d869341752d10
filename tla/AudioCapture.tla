------------------------------ MODULE AudioCapture ------------------------------
(***************************************************************************)
(* The renderer's audio capture: one AudioCapture object per mount of the  *)
(* Overlay, its microphone and system-audio toggles, the device requests   *)
(* they await, the stop of an unmounted Overlay, and the voice gate that   *)
(* decides which frames leave.  Samples are left out: a frame is its       *)
(* number and whether there was a voice in it.                             *)
(***************************************************************************)
EXTENDS Integers, Sequences, FiniteSets, SequencesExt

CONSTANTS
    MaxMounts,           \* bound: Overlays mounted
    MaxRequests,         \* bound: requests for devices, of all Overlays
    MaxFrames,           \* bound: frames of one Overlay
    VAD_HANGOVER,        \* VAD_HANGOVER_MS, in frames
    VAD_PREROLL_FRAMES

ASSUME CaptureAssumption ==
    /\ {MaxMounts, MaxRequests, MaxFrames} \subseteq Nat
    /\ {VAD_HANGOVER, VAD_PREROLL_FRAMES} \subseteq Nat \ {0}

VARIABLES
    mounted,             \* an Overlay is on the screen
    mount,               \* Overlays so far: the newest has this number
    cap,                 \* the AudioCapture object of each
    streams,             \* what each getUserMedia or getDisplayMedia call came to
    shown,               \* the CaptureState the mounted Overlay displays
    crossed,             \* sources one of whose requests crossed another or a stop
    gate                 \* the voice gate of the mounted Overlay

captureVars == <<mounted, mount, cap, streams, shown, crossed, gate>>

Source == {"mic", "system"}
Mount == 1..MaxMounts

\* A request is awaited, was refused, or gave a stream whose tracks run until
\* they are stopped.
StreamState == {"awaited", "refused", "open", "stopped"}

\* starting: the request start() awaits, by source and number.
CaptureRecord ==
    [started : BOOLEAN, graph : BOOLEAN, closing : BOOLEAN,
     starting : {<<>>} \cup (Source \X (1..MaxRequests)),
     active : [Source -> BOOLEAN], held : [Source -> 0..MaxRequests]]
Unborn == [started |-> FALSE, graph |-> FALSE, closing |-> FALSE, starting |-> <<>>,
           active |-> [s \in Source |-> FALSE], held |-> [s \in Source |-> 0]]

NoAudio == [s \in Source |-> FALSE]

\* silence: frames since the last voice; count: frames processed; last: the
\* last frame given to the sink, with all frames from first on.
ShutGate == [silence |-> VAD_HANGOVER, open |-> FALSE, preroll |-> <<>>,
             count |-> 0, first |-> 0, last |-> 0]

CaptureTypeOK ==
    /\ mounted \in BOOLEAN
    /\ mount \in 0..MaxMounts
    /\ cap \in [Mount -> CaptureRecord]
    /\ streams \in [Mount -> [Source -> Seq(StreamState)]]
    /\ shown \in [Source -> BOOLEAN]
    /\ crossed \subseteq (Mount \X Source)
    /\ gate.silence \in 0..VAD_HANGOVER
    /\ Len(gate.preroll) <= VAD_PREROLL_FRAMES
    /\ gate.count \in 0..MaxFrames

CaptureInit ==
    /\ mounted = FALSE
    /\ mount = 0
    /\ cap = [m \in Mount |-> Unborn]
    /\ streams = [m \in Mount |-> [s \in Source |-> <<>>]]
    /\ shown = NoAudio
    /\ crossed = {}
    /\ gate = ShutGate

-----------------------------------------------------------------------------
(* setMicEnabled and setSystemEnabled                                       *)

\* emitState, after which the Overlay of m, if it is still there, shows it
Emits(m, c) == shown' = IF mounted /\ m = mount THEN c.active ELSE shown

Awaits(m, s) == \E k \in DOMAIN streams[m][s] : streams[m][s][k] = "awaited"

Requests == {r \in Mount \X Source \X (1..MaxRequests) : r[3] \in DOMAIN streams[r[1]][r[2]]}

CanAsk == Cardinality(Requests) < MaxRequests

Asks(m, s) == [streams EXCEPT ![m][s] = Append(@, "awaited")]

\* The stream held for s, if any, is let go and its tracks are stopped.
Released(m, c, s, all) ==
    IF c.held[s] = 0 THEN all ELSE [all EXCEPT ![m][s][c.held[s]] = "stopped"]

Off(c, s) == [c EXCEPT !.active[s] = FALSE, !.held[s] = 0]

\* start() goes on to the system source when the microphone is settled.
StartSystem(m, c, all) ==
    IF ~c.started \/ c.active["system"]
    THEN [c |-> [c EXCEPT !.starting = <<>>], all |-> all]
    ELSE [c |-> [c EXCEPT !.starting = <<"system", Len(all[m]["system"]) + 1>>],
          all |-> [all EXCEPT ![m]["system"] = Append(@, "awaited")]]

\* The await of request k for s returns to start(), if start() made it.
Continue(m, s, k, c, all) ==
    LET next == CASE c.starting # <<s, k>> -> [c |-> c, all |-> all]
                  [] c.starting = <<s, k>> /\ s = "mic" -> StartSystem(m, c, all)
                  [] OTHER -> [c |-> [c EXCEPT !.starting = <<>>], all |-> all]
    IN  /\ cap' = [cap EXCEPT ![m] = next.c]
        /\ streams' = next.all
        /\ Emits(m, next.c)
        /\ crossed' = IF next.all = all \/ (cap[m].graph /\ ~Awaits(m, "system")) THEN crossed
                      ELSE crossed \cup {<<m, "system">>}

Awaited(m, s, k) ==
    /\ k \in DOMAIN streams[m][s]
    /\ streams[m][s][k] = "awaited"
    /\ s = "mic" /\ cap[m].starting = <<s, k>> => CanAsk

\* The device is given: the stream is held and joined to the graph; where
\* stop() has taken the graph away, the join throws.
Granted(m, s, k) ==
    /\ Awaited(m, s, k)
    /\ LET c == [cap[m] EXCEPT !.held[s] = k, !.active[s] = cap[m].graph]
       IN  Continue(m, s, k, c, [streams EXCEPT ![m][s][k] = "open"])
    /\ UNCHANGED <<mounted, mount, gate>>

\* A screen is shared without sound: its video track is stopped.
GrantedSilent(m, k) ==
    /\ Awaited(m, "system", k)
    /\ LET c == [cap[m] EXCEPT !.held["system"] = k]
       IN  Continue(m, "system", k, c, [streams EXCEPT ![m]["system"][k] = "stopped"])
    /\ UNCHANGED <<mounted, mount, gate>>

\* No device, or no permission
Denied(m, s, k) ==
    /\ Awaited(m, s, k)
    /\ LET c == [cap[m] EXCEPT !.active[s] = FALSE]
       IN  Continue(m, s, k, c, [streams EXCEPT ![m][s][k] = "refused"])
    /\ UNCHANGED <<mounted, mount, gate>>

-----------------------------------------------------------------------------
(* The Overlay                                                              *)

\* The effect makes a new AudioCapture and starts it, microphone first.
Mounts ==
    /\ ~mounted
    /\ mount < MaxMounts
    /\ CanAsk
    /\ mounted' = TRUE
    /\ mount' = mount + 1
    /\ cap' = [cap EXCEPT ![mount + 1] =
                 [Unborn EXCEPT !.started = TRUE, !.graph = TRUE, !.starting = <<"mic", 1>>]]
    /\ streams' = Asks(mount + 1, "mic")
    /\ shown' = NoAudio
    /\ gate' = ShutGate
    /\ UNCHANGED crossed

\* toggleMic, toggleSystem: the opposite of what is shown is asked for.
ToggleOn(s) ==
    LET m == mount IN
    /\ mounted
    /\ ~shown[s]
    /\ cap[m].started /\ ~cap[m].active[s]
    /\ CanAsk
    /\ streams' = Asks(m, s)
    /\ crossed' = IF Awaits(m, s) THEN crossed \cup {<<m, s>>} ELSE crossed
    /\ UNCHANGED <<mounted, mount, cap, shown, gate>>

ToggleOff(s) ==
    LET m == mount
        c == Off(cap[m], s)
    IN
    /\ mounted
    /\ shown[s]
    /\ cap[m].started /\ cap[m].active[s]
    /\ cap' = [cap EXCEPT ![m] = c]
    /\ streams' = Released(m, cap[m], s, streams)
    /\ Emits(m, c)
    /\ UNCHANGED <<mounted, mount, crossed, gate>>

\* Mutant: only the microphone is released.
StopsMicOnly(m) ==
    LET c == cap[m]
    IN  /\ cap' = [cap EXCEPT ![m] = [c EXCEPT !.active["mic"] = FALSE, !.held["mic"] = 0,
                                               !.graph = FALSE, !.closing = TRUE]]
        /\ streams' = IF c.active["mic"] THEN Released(m, c, "mic", streams) ELSE streams

\* stop() up to the closing of the context: a source that is not active is
\* passed over, and so is the request it may be waiting for.
Stops(m) ==
    LET c == cap[m]
        released == {s \in Source : c.active[s]}
    IN  /\ cap' = [cap EXCEPT ![m] =
                     [c EXCEPT !.active = NoAudio, !.graph = FALSE, !.closing = TRUE,
                               !.held = [s \in Source |-> IF s \in released THEN 0 ELSE @[s]]]]
        /\ streams' = [streams EXCEPT ![m] = [s \in Source |->
                          [k \in DOMAIN @[s] |->
                              IF s \in released /\ k = c.held[s] THEN "stopped" ELSE @[s][k]]]]

\* The cleanup of the effect: the pill was asked for, or the session ended.
Unmounts ==
    /\ mounted
    /\ mounted' = FALSE
    /\ Stops(mount)
    /\ shown' = NoAudio
    /\ gate' = ShutGate
    /\ crossed' = crossed \cup {<<mount, s>> : s \in {t \in Source : Awaits(mount, t)}}
    /\ UNCHANGED mount

\* context.close() returns.
Closed(m) ==
    /\ cap[m].closing
    /\ cap' = [cap EXCEPT ![m].closing = FALSE, ![m].started = FALSE]
    /\ UNCHANGED <<mounted, mount, streams, shown, crossed, gate>>

-----------------------------------------------------------------------------
(* onaudioprocess                                                           *)

Roll(preroll, n) ==
    LET all == Append(preroll, n)
    IN  IF Len(all) > VAD_PREROLL_FRAMES THEN Tail(all) ELSE all

\* The lead-in, if the gate was shut, and frame n are given to the sink.
Given(g, n) == IF g.open \/ g.preroll = <<>> THEN n ELSE Head(g.preroll)

\* Mutant: the lead-in is not cleared.
PassKeeping(g, n) ==
    [g EXCEPT !.first = IF Given(g, n) <= g.last + 1 THEN @ ELSE Given(g, n),
              !.last = n, !.open = TRUE]

\* A frame goes out, the first one after its lead-in.
Pass(g, n) ==
    [g EXCEPT !.first = IF Given(g, n) <= g.last + 1 THEN @ ELSE Given(g, n),
              !.last = n, !.preroll = IF g.open THEN @ ELSE <<>>, !.open = TRUE]

Hold(g, n) == [g EXCEPT !.open = FALSE, !.preroll = Roll(@, n)]

Frame(voice) ==
    LET n == gate.count + 1
        silence == CASE voice -> 0
                     [] ~voice /\ gate.silence < VAD_HANGOVER -> gate.silence + 1
                     [] OTHER -> VAD_HANGOVER
        heard == [gate EXCEPT !.count = n, !.silence = silence]
    IN
    /\ mounted
    /\ \E s \in Source : cap[mount].active[s]
    /\ n <= MaxFrames
    /\ gate' = IF silence < VAD_HANGOVER THEN Pass(heard, n) ELSE Hold(heard, n)
    /\ UNCHANGED <<mounted, mount, cap, streams, shown, crossed>>

\* The clock goes on while no source is active.
Pause ==
    /\ mounted
    /\ \A s \in Source : ~cap[mount].active[s]
    /\ gate' = [gate EXCEPT !.silence = VAD_HANGOVER]
    /\ UNCHANGED <<mounted, mount, cap, streams, shown, crossed>>

-----------------------------------------------------------------------------
CaptureNext ==
    \/ Mounts
    \/ Unmounts
    \/ \E s \in Source : ToggleOn(s) \/ ToggleOff(s)
    \/ \E m \in Mount, s \in Source, k \in 1..MaxRequests : Granted(m, s, k) \/ Denied(m, s, k)
    \/ \E m \in Mount, k \in 1..MaxRequests : GrantedSilent(m, k)
    \/ \E m \in Mount : Closed(m)
    \/ \E voice \in BOOLEAN : Frame(voice)
    \/ Pause

CaptureSpec == CaptureInit /\ [][CaptureNext]_captureVars

-----------------------------------------------------------------------------
(* Properties                                                               *)

Open(m, s) == {k \in DOMAIN streams[m][s] : streams[m][s][k] = "open"}

\* A device is captured exactly while the Overlay shows it on, through any
\* toggles, refusals, unmounts and new mounts, unless a request crossed
\* another one or a stop: then a stream may be left with nobody to stop it.
DevicesAreShown ==
    /\ \A m \in Mount, s \in Source : <<m, s>> \notin crossed =>
          Open(m, s) = IF mounted /\ m = mount /\ shown[s] THEN {cap[m].held[s]} ELSE {}
    /\ \A s \in Source : shown[s] => Open(mount, s) # {}

\* Frames leave in the order they were captured and at most once: what waits
\* in the lead-in is in order and later than all that was sent.
FramesInOrder ==
    \A i \in DOMAIN gate.preroll :
        gate.preroll[i] > IF i = 1 THEN gate.last ELSE gate.preroll[i - 1]

\* A frame with a voice leaves at once, with the frames before it, as many as
\* the lead-in holds, so that the first word is not clipped.
OnsetNotClipped ==
    gate.count > 0 /\ gate.silence = 0 =>
        /\ gate.last = gate.count
        /\ gate.first <= 1 \/ gate.first <= gate.count - VAD_PREROLL_FRAMES

\* The voice gate sends speech in order, once, and from its beginning.
SpeechSentWhole == FramesInOrder /\ OnsetNotClipped

-----------------------------------------------------------------------------
(* What the comments say, and the code does not do: see the README.         *)

\* When stop() has returned and no request is awaited, every device of that
\* capture is released (audioCapture.ts:206, "Stop all capture and release
\* devices").
DevicesReleased ==
    \A m \in 1..mount, s \in Source :
        ~cap[m].started /\ ~Awaits(m, s) => Open(m, s) = {}
=============================================================================
