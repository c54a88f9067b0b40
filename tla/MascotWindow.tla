---------------------------- MODULE MascotWindow ----------------------------
(***************************************************************************)
(* The mascot mode of the window (app/src/mascot.rs): one record for the   *)
(* switches of MascotState and for what the window has been told, with an  *)
(* operator for each method.  Two callers change the mode, a key and the   *)
(* end of a frame, and each follows it with the transparency of the        *)
(* surface; the cursor and the preferences of the last session touch the   *)
(* same window.  Sizes, positions and the drag of the window are left out. *)
(***************************************************************************)
EXTENDS Naturals, Sequences

VARIABLE mascot

Levels == {"Normal", "AlwaysOnTop"}

MascotTypeOK ==
  mascot \in [enabled : BOOLEAN, alwaysOnTop : BOOLEAN, fullscreen : BOOLEAN,
              decorations : BOOLEAN, level : Levels, hittest : BOOLEAN,
              transparent : BOOLEAN, alphaMap : BOOLEAN]

\* A window as it is created, with the preferences that are no mode.
PlainWindow(prefs) ==
  [enabled |-> FALSE, alwaysOnTop |-> prefs.alwaysOnTop, fullscreen |-> prefs.fullscreen,
   decorations |-> TRUE, level |-> "Normal", hittest |-> TRUE,
   transparent |-> FALSE, alphaMap |-> FALSE]

LevelFor(onTop) == IF onTop THEN "AlwaysOnTop" ELSE "Normal"

\* MascotState::enter.
Enter(m) ==
  [m EXCEPT !.enabled = TRUE, !.decorations = FALSE, !.level = LevelFor(m.alwaysOnTop),
            !.hittest = IF m.fullscreen THEN @ ELSE FALSE]

\* Mutant of Leave: the click-through of the mascot stays.
LeaveClickThrough(m) ==
  [m EXCEPT !.enabled = FALSE, !.decorations = TRUE, !.level = "Normal"]

\* MascotState::leave.
Leave(m) ==
  [m EXCEPT !.enabled = FALSE, !.decorations = TRUE, !.level = "Normal", !.hittest = TRUE]

\* MascotState::toggle, and the transparency that both callers set after it.
Toggle(m) ==
  LET toggled == IF m.enabled THEN Leave(m) ELSE Enter(m)
  IN [toggled EXCEPT !.transparent = toggled.enabled]

\* MascotState::toggle_always_on_top.
ToggleAlwaysOnTop(m) ==
  [m EXCEPT !.alwaysOnTop = ~@, !.level = IF m.enabled THEN LevelFor(~m.alwaysOnTop) ELSE @]

\* init_all: the mode of the last session is entered again.
Restored(prefs) == IF prefs.enabled THEN Toggle(PlainWindow(prefs)) ELSE PlainWindow(prefs)

\* The end of update_frame: the alpha map follows the frame that was drawn,
\* if its pixels have been read back by now.
AlphaMapped(m, readBack) ==
  [m EXCEPT !.alphaMap = m.enabled /\ (@ \/ readBack)]

----------------------------------------------------------------------------

\* Key M, outside of a frame.
KeyM == mascot' = Toggle(mascot)

\* Key F.
KeyF == mascot.enabled /\ mascot' = ToggleAlwaysOnTop(mascot)

\* CursorMoved: the cursor is over the model or an ImGui window, or it is not.
MoveCursor(over) ==
  /\ mascot.enabled /\ mascot.alphaMap
  /\ mascot' = [mascot EXCEPT !.hittest = over]

----------------------------------------------------------------------------

\* The window is what the mode says, whichever way the mode was changed: bare
\* and transparent as a mascot, above the others if it is to be, and otherwise
\* decorated, at the normal level and never deaf to the mouse.
WindowFollowsMascot ==
  /\ mascot.decorations = ~mascot.enabled
  /\ mascot.transparent = mascot.enabled
  /\ mascot.level = LevelFor(mascot.enabled /\ mascot.alwaysOnTop)
  /\ ~mascot.enabled => mascot.hittest

=============================================================================
