----------------------------- MODULE LuaOverlay -----------------------------
(***************************************************************************)
(* The Lua overlay: every frame the scripts of assets/scripts call widgets *)
(* (lua-imgui/src/bindings.rs), the calls are replayed on ImGui            *)
(* (lua-imgui/src/lib.rs and commands.rs), and what the user did there is  *)
(* kept by label and returned to the same calls of the next frame.  The    *)
(* app copies its state into AvatarState before the scripts run and takes  *)
(* back what they changed (app/src/update.rs, 5c to 5f), next to the keys, *)
(* the wheel, the mascot window and the threads of the task list.          *)
(*                                                                         *)
(* A frame is two steps, for the threads of the task list run between the  *)
(* scripts and the action queue: DrawFrame is 5c and 5d, FinishFrame the   *)
(* rest.  A setting has two values.  A frame takes one click at most.      *)
(* Collapsing headers, which keep what is under them out of the replay as  *)
(* a hidden window does, are left out: all of them are open.               *)
(***************************************************************************)
EXTENDS MascotWindow, NotionTasks, SequencesExt, Functions

CONSTANT MaxInputs   \* bound on what the user and the server's editors do

ASSUME OverlayAssumption == MaxInputs \in Nat

VARIABLES
  pc,         \* "idle" between frames, "drawn" between the two steps of one
  camera,     \* camera_distance
  debug,      \* show_debug_overlay
  showImgui,  \* show_imgui
  hidden,     \* the windows that are closed or folded
  outputs,    \* widget_outputs: what the user did, by label
  completed,  \* completed_ids of notion_tasks.lua
  requested,  \* the display part of AvatarState after the scripts
  actions,    \* the action queue
  inputs,     \* inputs so far
  drawn,      \* the widgets of the last replay
  owed        \* the widget that was clicked in it, or Nothing

frameVars == <<pc, camera, debug, showImgui, hidden, outputs, completed, requested, actions, inputs,
               drawn, owed>>
overlayVars == <<mascot, server, notion, threads, pc, camera, debug, showImgui, hidden, outputs,
                 completed, requested, actions, inputs, drawn, owed>>

Windows == {"Controls", "Settings (Lua)", "Task List"}
Fields  == {"camera", "debug", "mascot", "onTop", "fullscreen"}

Label(text, row) == [text |-> text, row |-> row]

\* A widget as it is replayed: what it stands for, and the value it shows.
Widget(window, label, does, id, value) ==
  [window |-> window, label |-> label, does |-> does, id |-> id, value |-> value]
Nothing == Widget("none", Label("", 0), "none", "none", FALSE)

\* The settings widgets of ui.lua and settings.lua, in the order of the calls.
Script ==
  << <<"Controls", "Camera Distance", "camera">>,
     <<"Controls", "Show Debug Overlay", "debug">>,
     <<"Settings (Lua)", "Mascot Mode (M)", "mascot">>,
     <<"Settings (Lua)", "Always on Top (F)", "onTop">>,
     <<"Settings (Lua)", "Maximized Window", "fullscreen">>,
     <<"Settings (Lua)", "Debug Overlay", "debug">>,
     <<"Settings (Lua)", "Camera Distance", "camera">> >>

\* 5c: the snapshot of the app's state that the getters return.
Settings == [camera |-> camera, debug |-> debug, mascot |-> mascot.enabled,
             onTop |-> mascot.alwaysOnTop, fullscreen |-> mascot.fullscreen]

----------------------------------------------------------------------------

\* A widget call returns what the user did in the last replay of its label,
\* or the value it is given.
Returned(label, given) == IF label \in DOMAIN outputs THEN outputs[label] ELSE given

\* The label of each widget of the scripts, and the places of those of a field.
LabelAt  == [i \in DOMAIN Script |-> Label(Script[i][2], 0)]
PlacesOf == [field \in Fields |-> {i \in DOMAIN Script : Script[i][3] = field}]

\* The scripts hand every returned value to the setter of the field, whose
\* getter reads the same place: what a field is after the first n widgets is
\* what the last of them returned that returned what the user did.
After(field, n) ==
  LET setting == {i \in PlacesOf[field] : i <= n /\ LabelAt[i] \in DOMAIN outputs}
  IN IF setting = {} THEN Settings[field] ELSE outputs[LabelAt[Max(setting)]]

RunSettings ==
  [i \in DOMAIN Script |->
     Widget(Script[i][1], LabelAt[i], Script[i][3], "none", After(Script[i][3], i))]

\* The fields when the scripts are through.
Changed == [field \in Fields |-> After(field, Len(Script))]

\* The widgets of notion_tasks.lua: Refresh unless the list is loading, and
\* two for each task that was not completed here, labelled by its place.
Row(i) ==
  LET item(text, does) == Widget("Task List", Label(text, i), does, notion.tasks[i],
                                 Returned(Label(text, i), FALSE))
  IN IF notion.tasks[i] \in completed THEN <<>>
     ELSE <<item("##done", "complete"), item("##subtask", "child")>>

RunTasks ==
  LET refresh == Widget("Task List", Label("Refresh", 0), "refresh", "any",
                        Returned(Label("Refresh", 0), FALSE))
  IN (IF notion.loading THEN <<>> ELSE <<refresh>>)
     \o FlattenSeq([i \in DOMAIN notion.tasks |-> Row(i)])

\* What the scripts ask for: a task whose box is ticked is completed, a
\* submitted text becomes a page (a text that was typed is never empty, the
\* feedback keeps it).
Asked == {[does |-> item.does, id |-> item.id] : item \in {w \in ToSet(RunTasks) : w.value}}

\* The widgets in the order of their calls.
Items == RunSettings \o RunTasks

\* A click, a drag or Enter on a widget changes its value.
Clicked(w) == IF w.does = "child" THEN TRUE ELSE ~w.value

\* What the user did to the clicked widget is kept for its label, if no later
\* widget of the items at the places shown has the same one.
KeptFor(items, shown, click) ==
  {l \in {click.label} : \E i \in shown : /\ items[i] = click
                                          /\ \A j \in shown : j > i => items[j].label # l}

Stale(items, shown) == {items[i].label : i \in shown}

\* Mutant of Replayed: a value that was returned is not removed.
ReplayedKeeping(items, shown, click) ==
  LET kept == KeptFor(items, shown, click)
  IN [l \in DOMAIN outputs \cup kept |-> IF l \in kept THEN Clicked(click) ELSE outputs[l]]

\* Mutant of Replayed: what was done is removed with the stale values.
ReplayedForgetting(items, shown, click) == Restrict(outputs, DOMAIN outputs \ Stale(items, shown))

\* replay_inner: the other labels of the items lose their values.
Replayed(items, shown, click) ==
  LET kept == KeptFor(items, shown, click)
  IN [l \in (DOMAIN outputs \ Stale(items, shown)) \cup kept |->
        IF l \in kept THEN Clicked(click) ELSE outputs[l]]

Counted == inputs < MaxInputs /\ inputs' = inputs + 1

\* 5d without ImGui: the scripts do not run.
DrawNothing ==
  /\ pc = "idle" /\ ~showImgui
  /\ pc' = "drawn" /\ requested' = Settings
  /\ UNCHANGED <<camera, debug, showImgui, hidden, outputs, completed, actions, inputs, drawn, owed>>

\* 5d: the scripts run, and what they drew in the windows that are not hidden
\* is replayed.
Draw(items, hiding, click) ==
  LET shown == {i \in DOMAIN items : items[i].window \notin hiding}
      seen  == {items[i] : i \in shown}
  IN /\ pc = "idle" /\ showImgui
     /\ click \in seen \cup {Nothing}
     /\ pc' = "drawn"
     /\ requested' = Changed
     /\ actions' = actions \cup Asked
     /\ completed' = completed \cup {a.id : a \in {a \in Asked : a.does = "complete"}}
     /\ outputs' = Replayed(items, shown, click)
     /\ drawn' = seen /\ owed' = click
     /\ UNCHANGED <<camera, debug, showImgui>>

\* A frame in which nothing is clicked, a widget is, the "Windows" list shows
\* or hides a window before the scripts run, or the user closes or folds one
\* that has been drawn.
DrawOnly == Draw(Items, hidden, Nothing) /\ UNCHANGED <<hidden, inputs>>
DrawAndClick ==
  /\ mascot.hittest /\ Counted
  /\ LET items == Items
     IN \E click \in ToSet(items) : Draw(items, hidden, click)
  /\ UNCHANGED hidden
DrawSwitching(w) ==
  /\ mascot.hittest /\ Counted
  /\ hidden' = SymDiff(hidden, {w})
  /\ Draw(Items, hidden', Nothing)
DrawAndClose(w) ==
  /\ mascot.hittest /\ Counted
  /\ w \notin hidden /\ hidden' = hidden \cup {w}
  /\ Draw(Items, hidden, Nothing)

DrawFrame ==
  /\ DrawNothing \/ DrawOnly \/ DrawAndClick \/ \E w \in Windows : DrawSwitching(w) \/ DrawAndClose(w)
  /\ UNCHANGED <<mascot, server, notion, threads>>

----------------------------------------------------------------------------

\* 5e: what the scripts changed against the snapshot is taken over; the
\* mascot mode is left to the end of the frame.
TakenOver(m) ==
  [(IF requested.onTop # m.alwaysOnTop THEN ToggleAlwaysOnTop(m) ELSE m)
     EXCEPT !.fullscreen = requested.fullscreen]

\* 5e, 5f and the end of update_frame.
FinishFrame ==
  /\ pc = "drawn"
  /\ pc' = "idle"
  /\ camera' = requested.camera /\ debug' = requested.debug
  /\ \E readBack \in BOOLEAN :
       LET taken == TakenOver(mascot)
       IN mascot' = AlphaMapped(IF requested.mascot # mascot.enabled THEN Toggle(taken) ELSE taken,
                                readBack)
  /\ StartJobs({a \in actions : a.does # "complete"})
  /\ actions' = {}
  /\ UNCHANGED <<showImgui, hidden, outputs, completed, requested, inputs, drawn, owed>>

----------------------------------------------------------------------------

\* What reaches the window between two frames: keys, wheel and cursor.
PressM == Counted /\ KeyM /\ UNCHANGED <<camera, showImgui>>
PressF == Counted /\ KeyF /\ UNCHANGED <<camera, showImgui>>
PressF1 == Counted /\ showImgui' = ~showImgui /\ UNCHANGED <<mascot, camera>>
Wheel == Counted /\ mascot.hittest /\ camera' = ~camera /\ UNCHANGED <<mascot, showImgui>>
Cursor == \E over \in BOOLEAN : MoveCursor(over) /\ UNCHANGED <<camera, showImgui, inputs>>

WindowEvent ==
  /\ pc = "idle"
  /\ PressM \/ PressF \/ PressF1 \/ Wheel \/ Cursor
  /\ UNCHANGED <<pc, debug, hidden, outputs, completed, requested, actions, drawn, owed,
                 server, notion, threads>>

\* CloseRequested saves the preferences; the next start restores them and
\* loads the scripts, which ask for a first refresh.
Restart ==
  /\ pc = "idle" /\ Counted
  /\ mascot' = Restored(mascot)
  /\ debug' = FALSE /\ showImgui' = TRUE /\ hidden' = {}
  /\ outputs' = <<>> /\ completed' = {} /\ actions' = {Refresh}
  /\ requested' = [Settings EXCEPT !.debug = FALSE]
  /\ drawn' = {} /\ owed' = Nothing
  /\ notion' = [tasks |-> <<>>, loading |-> FALSE, error |-> FALSE]
  /\ threads' = EmptyBag
  /\ UNCHANGED <<pc, camera, server>>

\* The first of the two distances is the one of the preferences.
OverlayInit ==
  /\ NotionInit
  /\ \E on, top, full \in BOOLEAN :
       mascot = Restored([enabled |-> on, alwaysOnTop |-> top, fullscreen |-> full])
  /\ pc = "idle" /\ camera = FALSE /\ debug = FALSE /\ showImgui = TRUE /\ hidden = {}
  /\ outputs = <<>> /\ completed = {} /\ actions = {Refresh} /\ requested = Settings
  /\ inputs = 0 /\ drawn = {} /\ owed = Nothing

\* What goes on beside the frames, at any of their steps.
ThreadRuns == ThreadStep /\ UNCHANGED <<mascot, frameVars>>
ListEdited ==
  /\ Counted /\ ServerEdit
  /\ UNCHANGED <<mascot, pc, camera, debug, showImgui, hidden, outputs, completed, requested,
                 actions, drawn, owed>>

OverlayNext ==
  \/ DrawFrame
  \/ FinishFrame
  \/ WindowEvent
  \/ ThreadRuns
  \/ ListEdited
  \/ Restart

OverlaySpec == OverlayInit /\ [][OverlayNext]_overlayVars

----------------------------------------------------------------------------

OverlayTypeOK ==
  /\ MascotTypeOK /\ NotionTypeOK
  /\ pc \in {"idle", "drawn"} /\ camera \in BOOLEAN /\ debug \in BOOLEAN /\ showImgui \in BOOLEAN
  /\ hidden \subseteq Windows
  /\ \A l \in DOMAIN outputs : outputs[l] \in BOOLEAN
  /\ requested \in [Fields -> BOOLEAN]
  /\ inputs \in 0..MaxInputs
  /\ Cardinality(actions) <= 2 + Cardinality(drawn)
  /\ owed \in drawn \cup {Nothing}

\* The scripts have run.
Ran == pc = "idle" /\ pc' = "drawn" /\ showImgui

\* Only a widget that was drawn in the last replay had its old value removed
\* there; a hidden one goes on returning what was done when it was last drawn.
Renewed(label) == \E w \in drawn : w.label = label

\* No later widget of the same field returns an old value, and none of the
\* same label was drawn after it.
LastWord(w) ==
  \A i, j \in DOMAIN Script :
    (i < j /\ Script[i][1] = w.window /\ LabelAt[i] = w.label /\ Script[j][3] = w.does)
    => LabelAt[j] # w.label /\ Renewed(LabelAt[j])

\* What the user does to a setting is what it has after the next frame in
\* which the scripts run (widget_outputs, sync 5e), whatever keys came in
\* between; what the user does to the task list is asked for then, unless the
\* list has been replaced or its Refresh is gone.
TakesClick ==
  Ran /\ owed # Nothing =>
    IF owed.does \in Fields THEN LastWord(owed) => requested'[owed.does] = Clicked(owed)
    ELSE (Clicked(owed) /\ \E w \in ToSet(RunTasks) : w.label = owed.label /\ w.id = owed.id)
         => [does |-> owed.does, id |-> owed.id] \in actions'

ClickArrives == [][TakesClick]_overlayVars

\* Nothing is changed and nothing is asked for that the user did not do since
\* the last time the scripts ran: no click works twice, and none works on
\* another widget.  Left out are widgets that a hidden window keeps from
\* being renewed, and a list that was replaced under the click.
AddsNothing ==
  Ran =>
    /\ \A f \in Fields : requested'[f] # Settings[f] =>
         \/ owed.does = f /\ requested'[f] = Clicked(owed)
         \/ \E i \in PlacesOf[f] : LabelAt[i] \in DOMAIN outputs /\ ~Renewed(LabelAt[i])
    /\ \A a \in actions' \ actions :
         \/ owed.does = a.does /\ owed.id = a.id
         \/ \E w \in ToSet(RunTasks) : /\ w.does = a.does /\ w.id = a.id
                                       /\ ~\E d \in drawn : d.label = w.label /\ d.id = w.id

NothingUnasked == [][AddsNothing]_overlayVars

=============================================================================
