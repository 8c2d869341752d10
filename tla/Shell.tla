--------------------------------- MODULE Shell ---------------------------------
(***************************************************************************)
(* The app shell: the renderer's App with the Overlay it mounts, the main   *)
(* process's WindowManager, and the IPC between them.  Each direction of    *)
(* the IPC is first in, first out; the renderer's calls take effect in the  *)
(* main process later, and events of the main process reach the Overlay     *)
(* only while it is mounted.  The interview itself is SessionClient's: here *)
(* it is live or over.                                                      *)
(***************************************************************************)
EXTENDS WindowManager

CONSTANTS
    Content,      \* heights the Overlay's content can have
    MaxSteps      \* bound: what the user does

ASSUME ShellAssumption ==
    /\ Content \subseteq Nat
    /\ Content # {}
    /\ MaxSteps \in Nat

VARIABLES
    ui,           \* the state of App and of the Overlay
    ipc,          \* calls on their way to the main process
    events,       \* replies and events on their way to the renderer
    session,      \* the interview, as the gateway has it
    history       \* for the properties; see History

vars == <<windowVars, ui, ipc, events, session, history>>

Phase == {"loading", "auth", "ready", "interview"}

\* error: the unreachable-backend screen; busy: the form has been sent;
\* private, stealth and content are the Overlay's, and as it begins when it
\* is not mounted.
Ui == [phase : Phase, step : {"start", "onboarding"}, collapsed : BOOLEAN,
       error : BOOLEAN, busy : BOOLEAN,
       private : BOOLEAN, stealth : BOOLEAN, content : Content]

Fewest == CHOOSE h \in Content : \A g \in Content : h <= g

NewUi == [phase |-> "loading", step |-> "start", collapsed |-> FALSE, error |-> FALSE,
          busy |-> FALSE, private |-> TRUE, stealth |-> FALSE, content |-> Fewest]

Call(type, value) == [type |-> type, value |-> value]

\* left: where the expanded window was left; missed: the end of the interview
\* found no Overlay; stale: the window was created while the manager still
\* had the last one's collapse; steps: so far.
History == [left : Place, missed : BOOLEAN, stale : BOOLEAN, steps : 0..MaxSteps]

ShellTypeOK ==
    /\ win \in Window
    /\ manager \in Manager
    /\ windows \in 1..MaxWindows
    /\ ui \in Ui
    /\ session \in {"none", "live", "over", "disposed"}
    /\ history \in History
    /\ ~win.exists => ipc = <<>> /\ events = <<>>

ShellInit ==
    /\ WindowInit
    /\ ui = NewUi
    /\ ipc = <<Call("height", 720)>>
    /\ events = <<>>
    /\ session = "none"
    /\ history = [left |-> win.bounds.at, missed |-> FALSE, stale |-> FALSE, steps |-> 0]

-----------------------------------------------------------------------------
(* What App renders, and the effects that follow                             *)

OverlayMounted(u) == u.phase = "interview" /\ ~u.collapsed

ScreenHeight(u) ==
    CASE u.phase = "interview" -> u.content
      [] u.phase = "ready" /\ u.step = "start" -> 300
      [] OTHER -> 720

\* Mutant: a mounting Overlay leaves the protection as it is.
EffectsUnprotecting(old, new) ==
    CASE OverlayMounted(new) /\ ~OverlayMounted(old) -> <<Call("height", ScreenHeight(new))>>
      [] ~new.collapsed /\ new.phase # "interview"
            /\ <<old.phase, old.step, old.collapsed>> # <<new.phase, new.step, new.collapsed>>
         -> <<Call("height", ScreenHeight(new))>>
      [] OTHER -> <<>>

\* The Overlay reports its height and turns private mode on as it mounts; the
\* other screens set their height when phase, collapsed or readyStep changed.
Effects(old, new) ==
    CASE OverlayMounted(new) /\ ~OverlayMounted(old) ->
            <<Call("height", ScreenHeight(new)), Call("private", TRUE)>>
      [] ~new.collapsed /\ new.phase # "interview"
            /\ <<old.phase, old.step, old.collapsed>> # <<new.phase, new.step, new.collapsed>>
         -> <<Call("height", ScreenHeight(new))>>
      [] OTHER -> <<>>

\* What an unmounted Overlay forgets
Forgets(u) ==
    IF OverlayMounted(u) THEN u
    ELSE [u EXCEPT !.private = TRUE, !.stealth = FALSE, !.content = Fewest]

\* The renderer makes the calls, sets the state, and then the effects run.
Renders(calls, u) ==
    /\ ui' = Forgets(u)
    /\ ipc' = ipc \o calls \o Effects(ui, u)

-----------------------------------------------------------------------------
(* The renderer                                                             *)

Boots ==
    /\ win.exists
    /\ ui.phase = "loading"
    /\ ~ui.error
    /\ \/ Renders(<<>>, [ui EXCEPT !.error = TRUE])
       \/ \E phase \in {"auth", "ready"} : Renders(<<>>, [ui EXCEPT !.phase = phase])
    /\ UNCHANGED <<windowVars, events, session, history>>

\* A sign-in that was under way ends, collapsed or not.
SignsIn ==
    /\ win.exists
    /\ ui.phase = "auth"
    /\ Renders(<<>>, [ui EXCEPT !.phase = "ready"])
    /\ UNCHANGED <<windowVars, events, session, history>>

Counted == history.steps < MaxSteps /\ history' = [history EXCEPT !.steps = @ + 1]

\* A click needs a window that takes the mouse.
Clicks ==
    /\ win.exists
    /\ win.visible
    /\ ~win.ignoring
    /\ Counted
    /\ UNCHANGED <<windowVars, events, session>>

OnPage(step) == ui.phase = "ready" /\ ui.step = step /\ ~ui.collapsed

CreateFree == OnPage("start") /\ Clicks /\ Renders(<<>>, [ui EXCEPT !.step = "onboarding"])

Back ==
    /\ OnPage("onboarding")
    /\ Clicks
    /\ Renders(<<>>, [ui EXCEPT !.step = "start", !.busy = FALSE])

\* onStart; the phase waits for the reply.
StartInterview ==
    /\ OnPage("onboarding")
    /\ ~ui.busy
    /\ Clicks
    /\ Renders(<<Call("start", TRUE)>>, [ui EXCEPT !.busy = TRUE])

StopInterview == OverlayMounted(ui) /\ Clicks /\ Renders(<<Call("stop", TRUE)>>, ui)

Collapse ==
    /\ ~ui.collapsed
    /\ Clicks
    /\ Renders(<<Call("collapsed", TRUE)>>, [ui EXCEPT !.collapsed = TRUE, !.busy = FALSE])

\* A press on the pill that travels less than the threshold moves it and expands.
Expand ==
    /\ ui.collapsed
    /\ Clicks
    /\ \E slip \in {<<>>, <<Call("move", TRUE)>>} :
          \E h \in Content :
             Renders(slip \o <<Call("collapsed", FALSE)>>,
                     [ui EXCEPT !.collapsed = FALSE, !.content = h])

DragPill == ui.collapsed /\ Clicks /\ Renders(<<Call("move", TRUE)>>, ui)

TogglePrivate ==
    /\ OverlayMounted(ui)
    /\ Clicks
    /\ Renders(<<Call("private", ~ui.private)>>, [ui EXCEPT !.private = ~@])

ToggleStealth ==
    /\ OverlayMounted(ui)
    /\ Clicks
    /\ Renders(<<Call("clickthrough", ~ui.stealth)>>, [ui EXCEPT !.stealth = ~@])

Close == ~ui.collapsed /\ Clicks /\ Renders(<<Call("quit", TRUE)>>, ui)

\* The ResizeObserver reports what an answer or a banner made of the height.
ContentChanges ==
    /\ win.exists
    /\ OverlayMounted(ui)
    /\ Counted
    /\ \E h \in Content \ {ui.content} :
          Renders(<<Call("height", h)>>, [ui EXCEPT !.content = h])
    /\ UNCHANGED <<windowVars, events, session>>

\* The header drags the expanded window; no call is on its way meanwhile.
DragWindow ==
    /\ win.exists /\ win.visible /\ ~win.ignoring
    /\ ~ui.collapsed
    /\ ipc = <<>>
    /\ history.steps < MaxSteps
    /\ \E p \in Place \ {win.bounds.at} :
          /\ win' = MoveTo(win, p)
          /\ history' = [history EXCEPT !.steps = @ + 1, !.left = p]
    /\ UNCHANGED <<manager, windows, ui, ipc, events, session>>

-----------------------------------------------------------------------------
(* The main process                                                         *)

ToRenderer(event) == events' = IF win.exists THEN Append(events, event) ELSE events

\* Mutant: the renderer is not told.
ClickThroughSilently(enabled) ==
    /\ SetClickThrough(enabled)
    /\ UNCHANGED events

\* setClickThrough with its clickthrough-change
ClickThrough(enabled) ==
    /\ SetClickThrough(enabled)
    /\ ToRenderer(Call("clickthrough", enabled))

\* IPC_INTERVIEW_START, whose reply is always ok
InterviewStarts ==
    /\ Calls(ShowOverlay(win))
    /\ ToRenderer(Call("started", TRUE))
    /\ session' = "live"
    /\ history' = [history EXCEPT !.missed = FALSE]

\* Mutant: session_ended is not passed on.
InterviewEndsUnwired ==
    /\ session = "live"
    /\ session' = "over"
    /\ UNCHANGED events
    /\ history' = [history EXCEPT !.missed = ~win.exists]

\* session_ended is passed on
InterviewEnds ==
    /\ session = "live"
    /\ session' = "over"
    /\ ToRenderer(Call("ended", TRUE))
    /\ history' = [history EXCEPT !.missed = ~win.exists]

\* stop_session; the gateway answers a session it has.
InterviewStops ==
    IF session = "live" THEN InterviewEnds /\ UNCHANGED windowVars
    ELSE UNCHANGED <<windowVars, events, session, history>>

Handle(c) ==
    \/ c.type = "collapsed" /\ SetCollapsed(c.value) /\ UNCHANGED <<events, session, history>>
    \/ /\ c.type = "height"
       /\ Calls(SetContentHeight(win, c.value))
       /\ UNCHANGED <<events, session, history>>
    \/ /\ c.type = "private"
       /\ Calls(SetPrivateMode(win, c.value))
       /\ UNCHANGED <<events, session, history>>
    \/ /\ c.type = "move"
       /\ \E p \in Place : Calls(MoveTo(win, p))
       /\ UNCHANGED <<events, session, history>>
    \/ c.type = "clickthrough" /\ ClickThrough(c.value) /\ UNCHANGED <<session, history>>
    \/ c.type = "start" /\ InterviewStarts
    \/ c.type = "stop" /\ InterviewStops

MainHandles ==
    /\ ipc # <<>>
    /\ Head(ipc).type # "quit"
    /\ Handle(Head(ipc))
    /\ ipc' = Tail(ipc)
    /\ UNCHANGED ui

Untouched == UNCHANGED <<ui, ipc, session, history>>

Shows ==
    /\ win.exists /\ ~win.ready
    /\ Calls(ReadyToShow(win))
    /\ Untouched /\ UNCHANGED events

\* The global hotkeys but the answer key, AnswerStream's
Hotkey ==
    /\ session # "disposed"
    /\ Counted
    /\ \/ Calls(ToggleVisibility(win)) /\ UNCHANGED events
       \/ ClickThrough(~manager.clickThrough)
       \/ ToggleCaptureState /\ UNCHANGED events
    /\ UNCHANGED <<ui, ipc, session>>

SessionEnds == InterviewEnds /\ UNCHANGED <<windowVars, ui, ipc>>

\* The window closes, and its renderer is gone with what was on the way.
Closes(quits) ==
    /\ WindowCloses
    /\ ui' = NewUi
    /\ ipc' = <<>>
    /\ events' = <<>>
    /\ session' = IF quits THEN "disposed" ELSE session

Missing == \E i \in DOMAIN events : events[i].type = "ended"

\* IPC_APP_QUIT
Quits ==
    /\ ipc # <<>>
    /\ Head(ipc).type = "quit"
    /\ Closes(TRUE)
    /\ UNCHANGED history

\* Closed from outside: the app quits, but on macOS the app and the interview
\* go on without a window,
WindowClosed ==
    /\ history.steps < MaxSteps
    /\ \E quits \in BOOLEAN : Closes(quits)
    /\ history' = [history EXCEPT !.steps = @ + 1, !.missed = @ \/ Missing]

\* until the dock icon makes another.
Activate ==
    /\ session # "disposed"
    /\ RecreateWindow
    /\ ipc' = <<Call("height", 720)>>
    /\ history' = [history EXCEPT !.left = win'.bounds.at, !.stale = manager.collapsed]
    /\ UNCHANGED <<ui, events, session>>

-----------------------------------------------------------------------------
(* Events reach the renderer                                                *)

Receive(e) ==
    \/ /\ e.type = "started"
       /\ \E h \in IF OverlayMounted(ui) THEN {ui.content} ELSE Content :
             Renders(<<>>, [ui EXCEPT !.phase = "interview", !.content = h])
       /\ UNCHANGED history
    \/ /\ e.type = "ended"
       /\ IF OverlayMounted(ui)
          THEN /\ Renders(<<>>, [ui EXCEPT !.phase = "ready", !.step = "start"])
               /\ UNCHANGED history
          ELSE /\ history' = [history EXCEPT !.missed = TRUE]
               /\ UNCHANGED <<ui, ipc>>
    \/ /\ e.type = "clickthrough"
       /\ Renders(<<>>, [ui EXCEPT !.stealth = e.value])
       /\ UNCHANGED history

RendererHears ==
    /\ events # <<>>
    /\ Receive(Head(events))
    /\ events' = Tail(events)
    /\ UNCHANGED <<windowVars, session>>

Next ==
    \/ Boots \/ SignsIn
    \/ CreateFree \/ Back \/ StartInterview \/ StopInterview
    \/ Collapse \/ Expand \/ DragPill \/ TogglePrivate \/ ToggleStealth \/ Close
    \/ ContentChanges \/ DragWindow
    \/ MainHandles \/ Shows \/ Hotkey \/ SessionEnds
    \/ Quits \/ WindowClosed \/ Activate
    \/ RendererHears

Spec == ShellInit /\ [][Next]_vars

-----------------------------------------------------------------------------
(* Properties                                                               *)

AtRest == win.exists /\ ipc = <<>> /\ events = <<>>

\* Whenever the Overlay shows private mode as on, the window is excluded from
\* screen capture, whatever was switched, collapsed, hidden or restarted before
\* (Overlay.tsx:152, windowManager.ts:setPrivateMode).
PrivateIsProtected == AtRest /\ OverlayMounted(ui) /\ ui.private => win.protected

\* The window has the size of what is on the screen: the pill's exactly while
\* the pill is shown, else the height of the current screen, clamped, to within
\* what setContentHeight skips.
SizeFits ==
    /\ win.bounds.pill = ui.collapsed
    /\ ui.collapsed => win.bounds.height = COLLAPSED_SIZE
    /\ ~ui.collapsed => Near(win.bounds.height, Clamped(ScreenHeight(ui)))

\* The pill's travels do not move the window: it expands where it was left
\* ("The expanded geometry is remembered and restored on expand",
\* windowManager.ts:295).
PlaceIsKept == ~ui.collapsed => win.bounds.at = history.left

\* At rest the window is where and as large as the screen wants it, however it
\* was collapsed, dragged, hidden, closed and expanded; a window made while the
\* manager still had the last one's collapse is excepted.
WindowFits == AtRest /\ ~history.stale => SizeFits /\ PlaceIsKept

\* An interview that is over leaves the screen, unless its end found no
\* Overlay to hear of it.
EndedIsShown ==
    AtRest /\ ui.phase = "interview" /\ session = "over" => history.missed

\* The Overlay never claims the mouse passes through when it does not, however
\* button and hotkey cross.
StealthIsShown == AtRest /\ ui.stealth => win.ignoring

-----------------------------------------------------------------------------
(* What the documents say, and the code does not do: see the README.         *)

\* "content protection is a window property that is already applied on every
\* screen, so the pill stays screen-share invisible" (App.tsx:48-50): private
\* mode switched off in the Overlay outlives it.
PageProtected == AtRest /\ ~OverlayMounted(ui) => win.protected

\* The same without the exception: session_ended is lost while collapsed
\* (requirement 8.6, "auth/interview state is preserved", collapseView.ts:10).
EndedIsNoticed == AtRest /\ ui.phase = "interview" => session # "over"

\* The same for a window recreated while collapsed.
SizeAlwaysFollows == AtRest => SizeFits
=============================================================================
