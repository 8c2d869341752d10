----------------------------- MODULE WindowManager -----------------------------
(***************************************************************************)
(* The main process's WindowManager: the one overlay window, its            *)
(* protection from screen capture, click-through, the collapse to a pill,   *)
(* and what of that the manager remembers when the window is gone.  A       *)
(* place on the desktop is a member of a small set, sizes are pixels.       *)
(* Resizing by hand and opacity are left out.                               *)
(***************************************************************************)
EXTENDS Integers, Sequences

CONSTANTS
    Place,                \* where a window's top-left corner can be
    WorkArea,             \* height of the display's work area
    COLLAPSED_SIZE,
    MIN_OVERLAY_HEIGHT,
    DEFAULT_OVERLAY_HEIGHT,
    MaxWindows            \* bound: windows created

ASSUME WindowAssumption ==
    /\ Place # {}
    /\ {WorkArea, COLLAPSED_SIZE, MIN_OVERLAY_HEIGHT, DEFAULT_OVERLAY_HEIGHT} \subseteq Nat
    /\ MaxWindows \in Nat \ {0}

VARIABLES
    win,                  \* the BrowserWindow
    manager,              \* the WindowManager's own fields
    windows               \* windows created so far

windowVars == <<win, manager, windows>>

Bounds == [at : Place, height : Nat, pill : BOOLEAN]

\* pill: its width is COLLAPSED_SIZE; a window that does not exist keeps the
\* other fields of its last moment.
Window == [exists : BOOLEAN, ready : BOOLEAN, visible : BOOLEAN, protected : BOOLEAN,
           ignoring : BOOLEAN, bounds : Bounds]

NoBounds == <<>>
Manager == [collapsed : BOOLEAN, expanded : Bounds \cup {NoBounds},
            clickThrough : BOOLEAN, captureActive : BOOLEAN]

\* createOverlayWindow: shown by 'ready-to-show', which comes later
NewWindow(p) == [exists |-> TRUE, ready |-> FALSE, visible |-> FALSE, protected |-> TRUE,
                 ignoring |-> FALSE,
                 bounds |-> [at |-> p, height |-> DEFAULT_OVERLAY_HEIGHT, pill |-> FALSE]]

NewManager == [collapsed |-> FALSE, expanded |-> NoBounds, clickThrough |-> FALSE,
               captureActive |-> FALSE]

WindowInit ==
    /\ \E p \in Place : win = NewWindow(p)
    /\ manager = NewManager
    /\ windows = 1

-----------------------------------------------------------------------------
(* What each call makes of a window that exists                              *)

ReadyToShow(w) == [w EXCEPT !.ready = TRUE, !.visible = TRUE]

ShowOverlay(w) == [w EXCEPT !.protected = TRUE, !.visible = TRUE]

HideOverlay(w) == [w EXCEPT !.visible = FALSE]

ToggleVisibility(w) == IF w.visible THEN HideOverlay(w) ELSE ShowOverlay(w)

SetPrivateMode(w, enabled) == [w EXCEPT !.protected = enabled]

MoveTo(w, p) == [w EXCEPT !.bounds.at = p]

Clamped(h) ==
    LET most == WorkArea - 40
        fit == IF h < most THEN h ELSE most
    IN  IF fit > MIN_OVERLAY_HEIGHT THEN fit ELSE MIN_OVERLAY_HEIGHT

Near(a, b) == a - b \in {-1, 0, 1}

SetContentHeight(w, h) ==
    IF manager.collapsed \/ Near(Clamped(h), w.bounds.height) THEN w
    ELSE [w EXCEPT !.bounds.height = Clamped(h)]

PillAt(p) == [at |-> p, height |-> COLLAPSED_SIZE, pill |-> TRUE]

Collapsed(w) == [w EXCEPT !.bounds = PillAt(@.at)]

\* The expanded bounds are remembered, once.
Remembers(w) == [manager EXCEPT !.collapsed = TRUE,
                                !.expanded = IF manager.collapsed THEN @ ELSE w.bounds]

Expanded(w) ==
    [w EXCEPT !.bounds =
        IF manager.expanded # NoBounds THEN manager.expanded
        ELSE [at |-> @.at, height |-> DEFAULT_OVERLAY_HEIGHT, pill |-> FALSE]]

-----------------------------------------------------------------------------
(* The operations.  Each does nothing to a window that does not exist.       *)

Has(w) == win' = IF win.exists THEN w ELSE win

\* Mutant: expanding leaves the collapsed flag on.
SetCollapsedForGood(collapsed) ==
    /\ Has(IF collapsed THEN Collapsed(win) ELSE Expanded(win))
    /\ manager' = IF win.exists /\ collapsed THEN Remembers(win) ELSE manager
    /\ UNCHANGED windows

SetCollapsed(collapsed) ==
    /\ Has(IF collapsed THEN Collapsed(win) ELSE Expanded(win))
    /\ manager' = CASE ~win.exists -> manager
                    [] win.exists /\ collapsed -> Remembers(win)
                    [] OTHER -> [manager EXCEPT !.collapsed = FALSE]
    /\ UNCHANGED windows

\* The manager's flag changes even without a window.
SetClickThrough(enabled) ==
    /\ Has([win EXCEPT !.ignoring = enabled])
    /\ manager' = [manager EXCEPT !.clickThrough = enabled]
    /\ UNCHANGED windows

Calls(w) == Has(w) /\ UNCHANGED <<manager, windows>>

\* The capture hotkey flips a flag nobody in the renderer listens for.
ToggleCaptureState ==
    /\ manager' = [manager EXCEPT !.captureActive = ~@]
    /\ UNCHANGED <<win, windows>>

WindowCloses ==
    /\ win.exists
    /\ win' = [win EXCEPT !.exists = FALSE]
    /\ UNCHANGED <<manager, windows>>

\* The manager's fields outlive the window.
RecreateWindow ==
    /\ ~win.exists
    /\ windows < MaxWindows
    /\ \E p \in Place : win' = NewWindow(p)
    /\ windows' = windows + 1
    /\ UNCHANGED manager
=============================================================================
