---------------------------- MODULE AvatarFrame ----------------------------
(***************************************************************************)
(* The frame loop of the avatar application (app/src/update.rs, app.rs),   *)
(* composed with the tracker worker thread: capture a camera frame, offer  *)
(* it to the worker, take a result if there is one, solve it into the rig, *)
(* write the rig and the idle animation to the bones, present, and apply   *)
(* what the Lua settings window changed.  Keys arrive between two frames;  *)
(* the worker runs in between everything.                                  *)
(***************************************************************************)
EXTENDS TrackerThread, FiniteSets

CONSTANTS
  IdleBones,    \* the bone groups the idle clip has channels for
  LuaChanges    \* the sets of switches one frame of Lua may flip

(* A bone group is a set of humanoid bones the code always treats alike.   *)
BoneGroups == {"neck", "torso", "arms", "left_hand", "right_hand", "other"}

(* The switches of AppState that the frame loop reads.                     *)
Switches == {"tracking", "face", "arm", "hand", "auto_blink"}

ASSUME IdleBonesAssumption  == IdleBones \subseteq BoneGroups
ASSUME LuaChangesAssumption == LuaChanges \subseteq SUBSET Switches

VARIABLES
  pc,           \* where the loop is: "events" between frames, "sent" after
                \* send_frame, "applied" after the rig is on the bones
  captured,     \* the number of the latest camera frame
  switch,       \* the value of each of Switches
  idle,         \* idle_animation: "none", "off" or "on"
  last,         \* last_tracking_result
  rig,          \* for each part, the frame it was solved from, NoFrame for None
  rigDirty,     \* rig_dirty
  bones,        \* what each group was last written from
  modeFrame     \* history: the latest frame when faceOnly last changed

loopVars == <<pc, captured, switch, idle, last, rig, rigDirty, bones, modeFrame>>
vars     == <<trackerVars, loopVars>>

NoRig    == [p \in Parts |-> NoFrame]
BindPose == [g \in BoneGroups |-> "bind"]

TypeOK ==
  /\ TrackerTypeOK
  /\ pc \in {"events", "sent", "applied"}
  /\ captured \in 0..MaxFrames
  /\ switch \in [Switches -> BOOLEAN]
  /\ idle \in {"none", "off", "on"}
  /\ last \in Results \cup {NoResult}
  /\ rig \in [Parts -> FrameIds \cup {NoFrame}]
  /\ rigDirty \in BOOLEAN
  /\ bones \in [BoneGroups -> {"bind", "idle", "rig"}]
  /\ modeFrame \in 0..MaxFrames

\* The blink mode comes from the saved preferences; the idle clip may be missing.
Init ==
  /\ TrackerInit
  /\ pc = "events"
  /\ captured = 0
  /\ \E blink \in SUBSET {"auto_blink"} :
       switch = [s \in Switches |-> s \in {"tracking", "face"} \cup blink]
  /\ idle \in {"none", "on"}
  /\ last = NoResult
  /\ rig = NoRig
  /\ rigDirty = TRUE
  /\ bones = BindPose
  /\ modeFrame = 0

----------------------------------------------------------------------------
(* Solving a result into the rig.                                          *)

\* The camera mirrors the image: the tracker's right hand drives the left.
Mirror(p) ==
  CASE p = "left_hand"  -> "right_hand"
    [] p = "right_hand" -> "left_hand"
    [] OTHER            -> p

\* Mutant of Solved: a hand that is not seen keeps its rig, like the face.
SolvedKeepingHands(result) ==
  [p \in Parts |-> IF Mirror(p) \in result.seen THEN result.frame ELSE rig[p]]

\* A hand that is not seen is cleared; the face and the pose keep their rig.
Solved(result) ==
  IF result = NoResult THEN rig
  ELSE [p \in Parts |->
          IF Mirror(p) \in result.seen THEN result.frame
          ELSE IF p \in {"left_hand", "right_hand"} THEN NoFrame
          ELSE rig[p]]

\* rig_changed: something was solved, or a hand was cleared.
SolverWrote(result) ==
  /\ result # NoResult
  /\ \/ result.seen # {}
     \/ rig["left_hand"] # NoFrame
     \/ rig["right_hand"] # NoFrame

----------------------------------------------------------------------------
(* Writing the rig and the idle animation to the bones.                    *)

PartOf(g) ==
  CASE g = "neck"               -> "face"
    [] g \in {"torso", "arms"}  -> "pose"
    [] OTHER                    -> g

\* collect_tracked_bones: the idle animation keeps off these groups.  The
\* torso and the legs are among them once a pose was solved, and the
\* per-feature switches are not consulted.
Tracked(r, g) == g # "other" /\ r[PartOf(g)] # NoFrame

\* The groups apply_rig_to_model really writes from the rig.
Driven(r, g) ==
  /\ Tracked(r, g)
  /\ \/ g = "neck" /\ switch["face"]
     \/ g = "arms" /\ switch["arm"]
     \/ g \in {"left_hand", "right_hand"} /\ switch["hand"]

ApplyRig(r) ==
  [g \in BoneGroups |->
     IF Driven(r, g) THEN "rig"
     ELSE IF idle = "on" /\ g \in IdleBones /\ ~Tracked(r, g) THEN "idle"
     ELSE bones[g]]

----------------------------------------------------------------------------
(* The frame loop: update_frame in three steps, cut where the worker can    *)
(* be seen to run in between.                                              *)

\* Capture, and offer the frame to the worker if tracking is on.  MaxFrames
\* bounds the numbered frames; the loop goes on without new ones after it.
BeginFrame ==
  /\ pc = "events"
  /\ pc' = "sent"
  /\ IF captured < MaxFrames
       THEN /\ captured' = captured + 1
            /\ IF switch["tracking"] THEN SendFrame(captured') ELSE UNCHANGED frameChan
       ELSE UNCHANGED <<captured, frameChan>>
  /\ UNCHANGED <<worker, resultChan, faceOnly, switch, idle, last, rig, rigDirty,
                 bones, modeFrame>>

\* Mutant of Received: a result that saw nothing is not stored.
ReceivedNonEmpty == IF resultChan.seen # {} /\ switch["tracking"] THEN resultChan ELSE last

\* A waiting result is always taken, and kept only while tracking is on.
Received == IF resultChan # NoResult /\ switch["tracking"] THEN resultChan ELSE last

\* Mutants of ReceiveSolveApply: a playing animation alone does not cause the
\* bones to be written; the channel is not read while tracking is off.
ReceiveSolveApplyIfChanged ==
  /\ pc = "sent"
  /\ pc' = "applied"
  /\ TryRecvResult
  /\ last' = Received
  /\ rig' = Solved(Received)
  /\ IF SolverWrote(Received) \/ switch["auto_blink"] \/ rigDirty
       THEN bones' = ApplyRig(rig') /\ rigDirty' = FALSE
       ELSE UNCHANGED <<bones, rigDirty>>
  /\ UNCHANGED <<frameChan, worker, faceOnly, captured, switch, idle, modeFrame>>
ReceiveWhenTracking ==
  /\ pc = "sent"
  /\ pc' = "applied"
  /\ IF switch["tracking"] THEN TryRecvResult ELSE UNCHANGED resultChan
  /\ last' = Received
  /\ rig' = Solved(Received)
  /\ bones' = ApplyRig(rig')
  /\ rigDirty' = FALSE
  /\ UNCHANGED <<frameChan, worker, faceOnly, captured, switch, idle, modeFrame>>

\* Take the result, run the solvers on the latest one, write the bones.
ReceiveSolveApply ==
  /\ pc = "sent"
  /\ pc' = "applied"
  /\ TryRecvResult
  /\ last' = Received
  /\ rig' = Solved(Received)
  /\ IF SolverWrote(Received) \/ switch["auto_blink"] \/ rigDirty \/ idle = "on"
       THEN bones' = ApplyRig(rig') /\ rigDirty' = FALSE
       ELSE UNCHANGED <<bones, rigDirty>>
  /\ UNCHANGED <<frameChan, worker, faceOnly, captured, switch, idle, modeFrame>>

\* get_current_texture fails: update_frame returns before the Lua sync.
SurfaceLost ==
  /\ pc = "applied"
  /\ pc' = "events"
  /\ UNCHANGED <<trackerVars, captured, switch, idle, last, rig, rigDirty, bones,
                 modeFrame>>

\* Mutant of ToggleIdle: the pose is left as it is.
ToggleIdleNoReset ==
  /\ idle # "none"
  /\ idle' = IF idle = "on" THEN "off" ELSE "on"
  /\ rigDirty' = TRUE
  /\ UNCHANGED bones

\* The idle animation is switched, with the pose reset when it goes off.
ToggleIdle ==
  /\ idle # "none"
  /\ idle' = IF idle = "on" THEN "off" ELSE "on"
  /\ bones' = IF idle = "on" THEN BindPose ELSE bones
  /\ rigDirty' = TRUE

\* One frame's worth of idle changes from Lua: the checkbox, then the queued
\* ResetIdlePose and LoadIdleAnimation actions (a clip that cannot be loaded
\* leaves no animation, and loading touches neither the bones nor rig_dirty).
SyncIdle ==
  \E toggle, reset, load \in BOOLEAN :
    /\ toggle => idle # "none"
    /\ idle' \in IF load THEN {"none", "on"}
                 ELSE IF toggle THEN {"on", "off"} \ {idle} ELSE {idle}
    /\ bones' = IF reset \/ (toggle /\ idle = "on") THEN BindPose ELSE bones
    /\ rigDirty' = (rigDirty \/ toggle \/ reset)

\* Render, apply what the Lua scripts changed, drain the action queue, present.
SyncAndPresent ==
  /\ pc = "applied"
  /\ pc' = "events"
  /\ \E flips \in LuaChanges :
       switch' = [s \in Switches |-> IF s \in flips THEN ~switch[s] ELSE switch[s]]
  /\ SetFaceOnly(~(switch'["arm"] \/ switch'["hand"]))
  /\ modeFrame' = IF faceOnly' = faceOnly THEN modeFrame ELSE captured
  /\ SyncIdle
  /\ UNCHANGED <<frameChan, worker, resultChan, captured, last, rig>>

----------------------------------------------------------------------------
(* Keys, handled between frames.                                           *)

\* T: turning tracking off drops the rig, but not the last result.
KeyT ==
  /\ pc = "events"
  /\ switch' = [switch EXCEPT !["tracking"] = ~@]
  /\ IF switch["tracking"]
       THEN rig' = NoRig /\ bones' = BindPose /\ rigDirty' = TRUE
       ELSE UNCHANGED <<rig, bones, rigDirty>>
  /\ UNCHANGED <<trackerVars, pc, captured, idle, last, modeFrame>>

\* I: the idle animation.
KeyI ==
  /\ pc = "events"
  /\ ToggleIdle
  /\ UNCHANGED <<trackerVars, pc, captured, switch, last, rig, modeFrame>>

\* B: the blink mode.
KeyB ==
  /\ pc = "events"
  /\ switch' = [switch EXCEPT !["auto_blink"] = ~@]
  /\ UNCHANGED <<trackerVars, pc, captured, idle, last, rig, rigDirty, bones, modeFrame>>

Frame == BeginFrame \/ ReceiveSolveApply \/ SurfaceLost \/ SyncAndPresent
Key   == KeyT \/ KeyI \/ KeyB

\* The worker thread runs on its own.
WorkerStep == Worker /\ UNCHANGED loopVars

Next == Frame \/ Key \/ WorkerStep

\* The window asks for a redraw after every frame, and the worker is a thread
\* that never blocks but in recv; nothing makes the user press a key.
Fairness ==
  /\ WF_vars(Frame)
  /\ WF_vars(WorkerStep)

Spec     == Init /\ [][Next]_vars
FairSpec == Spec /\ Fairness

----------------------------------------------------------------------------
(* Properties.                                                             *)

\* What is under way between the frame loop and itself.
InFlight == {frameChan, worker.frame, resultChan.frame} \ {NoFrame}

\* The frames under way are distinct, in the order of their capture from the
\* frame channel back to the result channel, and all newer than the result in
\* use: the two one-slot channels and the worker never hold a frame twice and
\* never overtake one another (tracker_thread.rs 47-59, update.rs 42-75).
PipelineOrder ==
  /\ frameChan # NoFrame => worker.frame < frameChan
  /\ \A f \in InFlight : last.frame < f /\ f <= captured
  /\ resultChan # NoResult =>
       \A f \in {frameChan, worker.frame} \ {NoFrame} : resultChan.frame < f
  /\ last.frame <= captured

\* The avatar never goes back in time: a result that replaces the one in use
\* comes from a later frame, whatever was dropped, and whenever tracking was
\* switched off and on in between (update.rs 47-75).
ResultsInOrder == [][last' = last \/ last'.frame > last.frame]_vars

\* A hand is on the avatar only if the result in use saw the opposite hand:
\* no stale hand survives a result, a switch or a reset (update.rs 132-170).
HandsOfLatestResult ==
  \A h \in {"left_hand", "right_hand"} :
    rig[h] # NoFrame => rig[h] = last.frame /\ Mirror(h) \in last.seen

\* set_face_only takes effect at once: every frame captured after the mode last
\* changed is analysed in the present mode, although the worker reads an atomic
\* of its own accord (tracker_thread.rs 47-49 and 72-74, update.rs 1163-1165).
ModeSettles ==
  worker.mode # "unread" /\ worker.frame > modeFrame =>
    worker.mode = IF faceOnly THEN "face_only" ELSE "full"

\* Once the idle animation is switched off no bone is left in its pose, however
\* the key, the checkbox, the queued actions and the reloading of a clip are
\* interleaved with the frames (app.rs 285-302, update.rs 1142-1152, 1215-1219).
NoPoseLeftWhenOff == idle = "off" => \A g \in BoneGroups : bones[g] # "idle"

\* After the rig is applied, a playing idle animation has written every group it
\* has a channel for and that no rig part tracks: a hand that was lost or a rig
\* that was dropped gives its bones back to the animation (update.rs 1467-1476).
IdleFillsUntracked ==
  pc = "applied" /\ idle = "on" =>
    \A g \in IdleBones : ~Tracked(rig, g) => bones[g] = "idle"

\* While tracking is off the result in use stays, and no new frame reaches the
\* worker, although results of earlier frames keep arriving (update.rs 42-51).
OffFreezes ==
  [][~switch["tracking"] /\ ~switch'["tracking"] =>
       last' = last /\ frameChan' \in {frameChan, NoFrame}]_vars

\* The pipeline implements the lossy pipe: at most three frames under way,
\* delivered in order, each at most once (tracker_thread.rs 25-27).
Pipe == INSTANCE LossyPipe WITH Capacity  <- 3,
                                pending   <- InFlight,
                                delivered <- last.frame
ImplementsPipe == Pipe!Spec

\* Every frame that enters the pipeline leaves it, also while tracking is off
\* and nobody wants the results: they are taken and thrown away, so that a
\* result never waits in the channel for tracking to return (update.rs 47-51).
EveryFrameSettles == \A f \in FrameIds : f \in InFlight ~> f \notin InFlight

\* A frame sent to the worker makes the avatar track, unless tracking is turned
\* off meanwhile: dropping frames and results starves nobody (update.rs 41-75).
TrackingStarts == frameChan # NoFrame ~> last # NoResult \/ ~switch["tracking"]

\* update.rs 1454 says of an active idle animation: "Bones without tracking:
\* idle animation rotation directly".
IdleOnBonesWithoutTracking ==
  pc = "applied" /\ idle = "on" =>
    \A g \in IdleBones : ~Driven(rig, g) => bones[g] = "idle"

============================================================================
