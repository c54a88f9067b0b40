------------------------ MODULE AvatarFrame_proofs ------------------------
(***************************************************************************)
(* What the frame loop and the tracker guarantee for every number of       *)
(* frames, every set of detections, idle clips and Lua changes.            *)
(***************************************************************************)
EXTENDS AvatarFrame, FiniteSetTheorems, TLAPS

----------------------------------------------------------------------------
(* Type correctness.                                                       *)

\* Every step keeps every variable in its type.
LEMMA TypeStep == TypeOK /\ [Next]_vars => TypeOK'
<1> USE MaxFramesAssumption, DetectionsAssumption
        DEF TypeOK, TrackerTypeOK, FrameIds, NoFrame, Modes, Results, NoResult
<1> SUFFICES ASSUME TypeOK, [Next]_vars PROVE TypeOK'
  OBVIOUS
<1>1. CASE BeginFrame
  BY <1>1 DEF BeginFrame, SendFrame
<1>2. CASE ReceiveSolveApply
  <2>1. Received \in Results \cup {NoResult}
    BY DEF Received
  <2>2. Solved(Received) \in [Parts -> FrameIds \cup {NoFrame}]
    BY <2>1 DEF Solved
  <2>3. ApplyRig(rig') \in [BoneGroups -> {"bind", "idle", "rig"}]
    BY DEF ApplyRig
  <2> QED
    BY <1>2, <2>1, <2>2, <2>3 DEF ReceiveSolveApply, TryRecvResult
<1>3. CASE SurfaceLost
  BY <1>3 DEF SurfaceLost, trackerVars
<1>4. CASE SyncAndPresent
  <2>1. switch' \in [Switches -> BOOLEAN]
    <3>1. PICK flips \in LuaChanges :
            switch' = [s \in Switches |-> IF s \in flips THEN ~switch[s] ELSE switch[s]]
      BY <1>4 DEF SyncAndPresent
    <3>2. \A s \in Switches : switch[s] \in BOOLEAN
      OBVIOUS
    <3>3. \A s \in Switches : (IF s \in flips THEN ~switch[s] ELSE switch[s]) \in BOOLEAN
      BY <3>2, Zenon
    <3> QED
      BY <3>1, <3>3, Zenon
  <2>2. idle' \in {"none", "off", "on"} /\ rigDirty' \in BOOLEAN
        /\ bones' \in [BoneGroups -> {"bind", "idle", "rig"}]
    BY <1>4 DEF SyncAndPresent, SyncIdle, BindPose
  <2>3. faceOnly' \in BOOLEAN /\ modeFrame' \in 0..MaxFrames
    BY <1>4 DEF SyncAndPresent, SetFaceOnly
  <2> QED
    BY <1>4, <2>1, <2>2, <2>3 DEF SyncAndPresent
<1>5. CASE KeyT
  <2>1. switch' \in [Switches -> BOOLEAN]
    BY <1>5 DEF KeyT, Switches
  <2>2. rig' \in [Parts -> FrameIds \cup {NoFrame}] /\ rigDirty' \in BOOLEAN
        /\ bones' \in [BoneGroups -> {"bind", "idle", "rig"}]
    <3>1. CASE switch["tracking"]
      BY <1>5, <3>1 DEF KeyT, NoRig, BindPose
    <3>2. CASE ~switch["tracking"]
      BY <1>5, <3>2 DEF KeyT
    <3> QED
      BY <3>1, <3>2
  <2> QED
    BY <1>5, <2>1, <2>2 DEF KeyT, trackerVars
<1>6. CASE KeyI
  BY <1>6 DEF KeyI, ToggleIdle, trackerVars, BindPose
<1>7. CASE KeyB
  BY <1>7 DEF KeyB, trackerVars, Switches
<1>8. CASE WorkerStep
  <2>1. CASE WorkerRecv
    BY <1>8, <2>1 DEF WorkerStep, WorkerRecv, loopVars
  <2>2. CASE WorkerLoadMode
    BY <1>8, <2>2 DEF WorkerStep, WorkerLoadMode, loopVars
  <2>3. CASE WorkerPublish
    <3>1. \A seen \in Detections : Detect(seen) \in Results
      BY <2>3 DEF WorkerPublish, Detect, Parts
    <3> QED
      BY <1>8, <2>3, <3>1 DEF WorkerStep, WorkerPublish, loopVars
  <2> QED
    BY <1>8, <2>1, <2>2, <2>3 DEF WorkerStep, Worker
<1>9. CASE UNCHANGED vars
  BY <1>9 DEF vars, trackerVars, loopVars
<1> QED
  BY <1>1, <1>2, <1>3, <1>4, <1>5, <1>6, <1>7, <1>8, <1>9 DEF Next, Frame, Key

\* The frame loop and the tracker are type correct.
THEOREM TypeCorrect == Spec => []TypeOK
<1>1. Init => TypeOK
  <2> SUFFICES ASSUME Init PROVE TypeOK
    OBVIOUS
  <2>1. switch \in [Switches -> BOOLEAN]
    <3>1. PICK blink \in SUBSET {"auto_blink"} :
            switch = [s \in Switches |-> s \in {"tracking", "face"} \cup blink]
      BY DEF Init
    <3>2. \A s \in Switches : (s \in {"tracking", "face"} \cup blink) \in BOOLEAN
      OBVIOUS
    <3> QED
      BY <3>1, <3>2, Zenon
  <2>2. rig \in [Parts -> FrameIds \cup {NoFrame}]
        /\ bones \in [BoneGroups -> {"bind", "idle", "rig"}]
    BY DEF Init, NoRig, BindPose
  <2>3. TrackerTypeOK
    BY DEF Init, TrackerInit, TrackerTypeOK, NoFrame
  <2> QED
    BY <2>1, <2>2, <2>3, MaxFramesAssumption DEF Init, TypeOK
<1> QED
  BY <1>1, TypeStep, PTL DEF Spec

----------------------------------------------------------------------------
(* The order of the pipeline.  PipelineOrder is inductive relative to       *)
(* TypeOK: a frame enters behind all others with a number no other has,     *)
(* and each hand-over moves a frame without passing another.                *)

\* The steps that neither move a frame nor replace the result in use.
LEMMA OrderKept ==
  ASSUME PipelineOrder, UNCHANGED <<frameChan, worker, resultChan, captured, last>>
  PROVE  PipelineOrder'
BY DEF PipelineOrder, InFlight

\* Every step keeps the frames under way in order.
LEMMA OrderStep == TypeOK /\ PipelineOrder /\ [Next]_vars => PipelineOrder'
<1> USE MaxFramesAssumption
        DEF TypeOK, TrackerTypeOK, FrameIds, NoFrame, Modes, Results, NoResult
<1> SUFFICES ASSUME TypeOK, PipelineOrder, [Next]_vars PROVE PipelineOrder'
  OBVIOUS
<1>1. CASE BeginFrame
  <2>1. captured' \in Nat /\ captured <= captured'
    BY <1>1 DEF BeginFrame
  <2>2. frameChan' = frameChan
        \/ (frameChan = NoFrame /\ captured' = captured + 1 /\ frameChan' = captured')
    <3>1. CASE captured < MaxFrames /\ switch["tracking"]
      BY <1>1, <3>1 DEF BeginFrame, SendFrame
    <3>2. CASE ~(captured < MaxFrames /\ switch["tracking"])
      BY <1>1, <3>2 DEF BeginFrame
    <3> QED
      BY <3>1, <3>2
  <2> QED
    BY <1>1, <2>1, <2>2 DEF BeginFrame, PipelineOrder, InFlight
<1>2. CASE ReceiveSolveApply
  <2>1. last' \in {last, resultChan} /\ resultChan' = NoResult
        /\ (last' # last => resultChan # NoResult)
    BY <1>2 DEF ReceiveSolveApply, Received, TryRecvResult
  <2>2. UNCHANGED <<frameChan, worker, captured>>
    BY <1>2 DEF ReceiveSolveApply
  <2> QED
    BY <2>1, <2>2 DEF PipelineOrder, InFlight
<1>3. CASE SurfaceLost
  BY <1>3, OrderKept DEF SurfaceLost, trackerVars
<1>4. CASE SyncAndPresent
  BY <1>4, OrderKept DEF SyncAndPresent
<1>5. CASE KeyT
  BY <1>5, OrderKept DEF KeyT, trackerVars
<1>6. CASE KeyI
  BY <1>6, OrderKept DEF KeyI, trackerVars
<1>7. CASE KeyB
  BY <1>7, OrderKept DEF KeyB, trackerVars
<1>8. CASE WorkerStep
  <2>1. CASE WorkerRecv
    BY <1>8, <2>1 DEF WorkerStep, WorkerRecv, loopVars, PipelineOrder, InFlight
  <2>2. CASE WorkerLoadMode
    BY <1>8, <2>2 DEF WorkerStep, WorkerLoadMode, loopVars, PipelineOrder, InFlight
  <2>3. CASE WorkerPublish
    <3>1. PICK seen \in Detections :
            resultChan' = IF resultChan = NoResult THEN Detect(seen) ELSE resultChan
      BY <2>3 DEF WorkerPublish
    <3>2. Detect(seen).frame = worker.frame
      BY DEF Detect
    <3>3. worker'.frame = NoFrame /\ UNCHANGED <<frameChan, captured, last>>
      BY <1>8, <2>3 DEF WorkerStep, WorkerPublish, loopVars
    <3>4. worker.frame # NoFrame
      BY <2>3 DEF WorkerPublish
    <3>5. CASE resultChan = NoResult
      BY <3>1, <3>2, <3>3, <3>4, <3>5 DEF PipelineOrder, InFlight
    <3>6. CASE resultChan # NoResult
      BY <3>1, <3>3, <3>6 DEF PipelineOrder, InFlight
    <3> QED
      BY <3>5, <3>6
  <2> QED
    BY <1>8, <2>1, <2>2, <2>3 DEF WorkerStep, Worker
<1>9. CASE UNCHANGED vars
  BY <1>9, OrderKept DEF vars, trackerVars, loopVars
<1> QED
  BY <1>1, <1>2, <1>3, <1>4, <1>5, <1>6, <1>7, <1>8, <1>9 DEF Next, Frame, Key

\* Frames travel through the pipeline in order, none of them twice.
THEOREM Order == Spec => [](TypeOK /\ PipelineOrder)
<1>1. Init => PipelineOrder
  BY MaxFramesAssumption DEF Init, TrackerInit, PipelineOrder, InFlight, NoResult, NoFrame
<1>2. Spec => []TypeOK
  BY TypeCorrect
<1> QED
  BY <1>1, <1>2, OrderStep, PTL DEF Spec

\* A result that replaces the one in use comes from a later frame.
THEOREM InOrder == Spec => ResultsInOrder
<1>1. TypeOK /\ PipelineOrder /\ [Next]_vars => [last' = last \/ last'.frame > last.frame]_vars
  <2> SUFFICES ASSUME TypeOK, PipelineOrder, Next, last' # last
               PROVE  last'.frame > last.frame
    OBVIOUS
  <2>1. CASE ReceiveSolveApply
    <3>1. last' = resultChan /\ resultChan # NoResult
      BY <2>1 DEF ReceiveSolveApply, Received
    <3>2. resultChan.frame \in InFlight
      BY <3>1 DEF TypeOK, TrackerTypeOK, Results, FrameIds, InFlight, NoFrame
    <3> QED
      BY <3>1, <3>2 DEF PipelineOrder, TypeOK, TrackerTypeOK, Results, NoResult, FrameIds,
                        NoFrame
  <2>2. CASE BeginFrame \/ SurfaceLost \/ SyncAndPresent \/ Key \/ WorkerStep
    BY <2>2 DEF BeginFrame, SurfaceLost, SyncAndPresent, Key, KeyT, KeyI, KeyB, WorkerStep,
                loopVars
  <2> QED
    BY <2>1, <2>2 DEF Next, Frame
<1> QED
  BY <1>1, Order, PTL DEF Spec, ResultsInOrder

----------------------------------------------------------------------------
(* The rig and the bones.                                                  *)

\* The steps that leave the rig and the result in use alone keep the hands.
LEMMA HandsKept ==
  ASSUME HandsOfLatestResult, UNCHANGED <<rig, last>>
  PROVE  HandsOfLatestResult'
BY DEF HandsOfLatestResult, Mirror

\* Solving clears every hand the result in use does not see, so that what is
\* left of the hands always comes from that result.
LEMMA HandsStep == TypeOK /\ HandsOfLatestResult /\ [Next]_vars => HandsOfLatestResult'
<1> SUFFICES ASSUME TypeOK, HandsOfLatestResult, [Next]_vars PROVE HandsOfLatestResult'
  OBVIOUS
<1>1. CASE ReceiveSolveApply
  <2>1. last' = Received /\ rig' = Solved(Received)
    BY <1>1 DEF ReceiveSolveApply
  <2>2. CASE Received = NoResult
    <3>1. last = NoResult \/ resultChan = NoResult
      BY <2>2 DEF Received
    <3>2. last' = last /\ rig' = rig
      BY <2>1, <2>2, <3>1 DEF Received, Solved
    <3> QED
      BY <3>2, HandsKept
  <2>3. CASE Received # NoResult
    <3> SUFFICES ASSUME NEW h \in {"left_hand", "right_hand"}, rig'[h] # NoFrame
                 PROVE  rig'[h] = last'.frame /\ Mirror(h) \in last'.seen
      BY DEF HandsOfLatestResult, Mirror
    <3>1. rig'[h] = IF Mirror(h) \in last'.seen THEN last'.frame ELSE NoFrame
      BY <2>1, <2>3 DEF Solved, Parts
    <3> QED
      BY <3>1
  <2> QED
    BY <2>2, <2>3
<1>2. CASE KeyT
  <2>1. last' = last /\ (rig' = rig \/ rig' = NoRig)
    BY <1>2 DEF KeyT
  <2> QED
    BY <2>1, HandsKept DEF HandsOfLatestResult, NoRig, Parts
<1>3. CASE BeginFrame \/ SurfaceLost \/ SyncAndPresent \/ KeyI \/ KeyB \/ WorkerStep
           \/ UNCHANGED vars
  <2>1. UNCHANGED <<rig, last>>
    BY <1>3 DEF BeginFrame, SurfaceLost, SyncAndPresent, KeyI, KeyB, WorkerStep, vars, loopVars
  <2> QED
    BY <2>1, HandsKept
<1> QED
  BY <1>1, <1>2, <1>3 DEF Next, Frame, Key

\* No hand outlives the result that saw it.
THEOREM HandsAreCurrent == Spec => []HandsOfLatestResult
<1>1. Init => HandsOfLatestResult
  BY DEF Init, HandsOfLatestResult, NoRig, Parts
<1> QED
  BY <1>1, TypeCorrect, HandsStep, PTL DEF Spec

\* Whatever switches the idle animation off also resets the pose, and an
\* animation that is off writes no bone.
LEMMA IdleOffStep == TypeOK /\ NoPoseLeftWhenOff /\ [Next]_vars => NoPoseLeftWhenOff'
<1> SUFFICES ASSUME TypeOK, NoPoseLeftWhenOff, [Next]_vars,
                    idle' = "off", NEW g \in BoneGroups
             PROVE  bones'[g] # "idle"
  BY DEF NoPoseLeftWhenOff
<1>1. CASE ReceiveSolveApply
  <2>1. idle = "off"
    BY <1>1 DEF ReceiveSolveApply
  <2>2. bones' = bones \/ bones' = ApplyRig(rig')
    BY <1>1 DEF ReceiveSolveApply
  <2>3. ApplyRig(rig')[g] \in {"rig", bones[g]}
    BY <2>1 DEF ApplyRig
  <2> QED
    BY <2>1, <2>2, <2>3 DEF NoPoseLeftWhenOff
<1>2. CASE SyncAndPresent
  BY <1>2 DEF SyncAndPresent, SyncIdle, BindPose, NoPoseLeftWhenOff, TypeOK
<1>3. CASE KeyT
  <2>1. idle = "off" /\ (bones' = bones \/ bones' = BindPose)
    BY <1>3 DEF KeyT
  <2> QED
    BY <2>1 DEF BindPose, NoPoseLeftWhenOff
<1>4. CASE KeyI
  BY <1>4 DEF KeyI, ToggleIdle, BindPose, TypeOK
<1>5. CASE BeginFrame \/ SurfaceLost \/ KeyB \/ WorkerStep \/ UNCHANGED vars
  <2>1. UNCHANGED <<idle, bones>>
    BY <1>5 DEF BeginFrame, SurfaceLost, KeyB, WorkerStep, vars, loopVars
  <2> QED
    BY <2>1 DEF NoPoseLeftWhenOff
<1> QED
  BY <1>1, <1>2, <1>3, <1>4, <1>5 DEF Next, Frame, Key

\* An idle animation that was switched off has left no bone in its pose.
THEOREM IdleOffIsClean == Spec => []NoPoseLeftWhenOff
<1>1. Init => NoPoseLeftWhenOff
  BY DEF Init, NoPoseLeftWhenOff, BindPose
<1> QED
  BY <1>1, TypeCorrect, IdleOffStep, PTL DEF Spec

\* Only ReceiveSolveApply reaches "applied", and it writes every group a playing
\* animation has a channel for unless the rig tracks it.
LEMMA IdleFillsStep == IdleFillsUntracked /\ [Next]_vars => IdleFillsUntracked'
<1> SUFFICES ASSUME IdleFillsUntracked, [Next]_vars PROVE IdleFillsUntracked'
  OBVIOUS
<1>1. CASE ReceiveSolveApply
  <2> SUFFICES ASSUME idle' = "on", NEW g \in IdleBones, ~Tracked(rig', g)
               PROVE  bones'[g] = "idle"
    BY DEF IdleFillsUntracked, Tracked
  <2>1. idle = "on" /\ bones' = ApplyRig(rig')
    BY <1>1 DEF ReceiveSolveApply
  <2>2. ~Driven(rig', g)
    BY DEF Driven
  <2> QED
    BY <2>1, <2>2, IdleBonesAssumption DEF ApplyRig
<1>2. CASE WorkerStep \/ UNCHANGED vars
  <2>1. UNCHANGED <<pc, idle, rig, bones>>
    BY <1>2 DEF WorkerStep, vars, loopVars
  <2> QED
    BY <2>1 DEF IdleFillsUntracked, Tracked
<1>3. CASE BeginFrame \/ SurfaceLost \/ SyncAndPresent \/ Key
  <2>1. pc' # "applied"
    BY <1>3 DEF BeginFrame, SurfaceLost, SyncAndPresent, Key, KeyT, KeyI, KeyB
  <2> QED
    BY <2>1 DEF IdleFillsUntracked
<1> QED
  BY <1>1, <1>2, <1>3 DEF Next, Frame

\* A playing idle animation has every group that nothing tracks.
THEOREM IdleFills == Spec => []IdleFillsUntracked
<1>1. Init => IdleFillsUntracked
  BY DEF Init, IdleFillsUntracked
<1> QED
  BY <1>1, IdleFillsStep, PTL DEF Spec

\* While tracking is off no result comes into use and no frame reaches the worker.
THEOREM OffIsFrozen == Spec => OffFreezes
<1>1. [Next]_vars => [~switch["tracking"] /\ ~switch'["tracking"] =>
                        last' = last /\ frameChan' \in {frameChan, NoFrame}]_vars
  <2> SUFFICES ASSUME Next, ~switch["tracking"]
               PROVE  last' = last /\ frameChan' \in {frameChan, NoFrame}
    OBVIOUS
  <2>1. CASE BeginFrame
    BY <2>1 DEF BeginFrame
  <2>2. CASE ReceiveSolveApply
    BY <2>2 DEF ReceiveSolveApply, Received
  <2>3. CASE SurfaceLost \/ SyncAndPresent \/ Key
    BY <2>3 DEF SurfaceLost, SyncAndPresent, Key, KeyT, KeyI, KeyB, trackerVars
  <2>4. CASE WorkerStep
    BY <2>4 DEF WorkerStep, loopVars, Worker, WorkerRecv, WorkerLoadMode, WorkerPublish
  <2> QED
    BY <2>1, <2>2, <2>3, <2>4 DEF Next, Frame
<1> QED
  BY <1>1, PTL DEF Spec, OffFreezes

----------------------------------------------------------------------------
(* The worker's mode.                                                      *)

\* A change of mode is dated with the latest captured frame, and the worker
\* holds no later one; between changes the worker reads the present mode.
LEMMA ModeStep ==
  TypeOK /\ PipelineOrder /\ ModeSettles /\ [Next]_vars => ModeSettles'
<1> SUFFICES ASSUME TypeOK, PipelineOrder, ModeSettles, [Next]_vars PROVE ModeSettles'
  OBVIOUS
<1>1. CASE SyncAndPresent
  <2>1. UNCHANGED worker /\ modeFrame' = IF faceOnly' = faceOnly THEN modeFrame ELSE captured
    BY <1>1 DEF SyncAndPresent
  <2>2. CASE faceOnly' = faceOnly
    BY <2>1, <2>2 DEF ModeSettles
  <2>3. CASE faceOnly' # faceOnly
    <3>1. worker.frame <= captured
      BY MaxFramesAssumption
         DEF PipelineOrder, InFlight, TypeOK, TrackerTypeOK, FrameIds, NoFrame
    <3>2. ~(worker'.frame > modeFrame')
      BY <2>1, <2>3, <3>1, MaxFramesAssumption
         DEF TypeOK, TrackerTypeOK, FrameIds, NoFrame
    <3> QED
      BY <3>2 DEF ModeSettles
  <2> QED
    BY <2>2, <2>3
<1>2. CASE WorkerStep
  <2>1. UNCHANGED modeFrame
    BY <1>2 DEF WorkerStep, loopVars
  <2> QED
    BY <1>2, <2>1 DEF WorkerStep, Worker, WorkerRecv, WorkerLoadMode, WorkerPublish,
                      ModeSettles, TypeOK, TrackerTypeOK
<1>3. CASE BeginFrame \/ ReceiveSolveApply \/ SurfaceLost \/ Key \/ UNCHANGED vars
  <2>1. UNCHANGED <<worker, faceOnly, modeFrame>>
    BY <1>3 DEF BeginFrame, ReceiveSolveApply, SurfaceLost, Key, KeyT, KeyI, KeyB, vars,
                trackerVars, loopVars
  <2> QED
    BY <2>1 DEF ModeSettles
<1> QED
  BY <1>1, <1>2, <1>3 DEF Next, Frame

\* Frames captured after a change of mode are analysed in the new mode.
THEOREM ModeIsObeyed == Spec => []ModeSettles
<1>1. Init => ModeSettles
  BY DEF Init, TrackerInit, ModeSettles
<1>2. Spec => [](TypeOK /\ PipelineOrder)
  BY Order
<1> QED
  BY <1>1, <1>2, ModeStep, PTL DEF Spec

----------------------------------------------------------------------------
(* The pipeline implements the lossy pipe.                                 *)

\* Three variables name at most three frames.
LEMMA AtMostThree ==
  ASSUME NEW a, NEW b, NEW c, NEW S, S \subseteq {a, b, c}
  PROVE  Cardinality(S) <= 3
<1>1. IsFiniteSet({c}) /\ Cardinality({c}) = 1
  BY FS_Singleton
<1>2. IsFiniteSet({b, c}) /\ Cardinality({b, c}) <= 2
  <2>1. {b, c} = {c} \cup {b}
    OBVIOUS
  <2> QED
    BY <1>1, <2>1, FS_AddElement
<1>3. IsFiniteSet({a, b, c}) /\ Cardinality({a, b, c}) <= 3
  <2>1. {a, b, c} = {b, c} \cup {a}
    OBVIOUS
  <2>2. Cardinality({b, c}) \in Nat
    BY <1>2, FS_CardinalityType
  <2>3. /\ IsFiniteSet({b, c} \cup {a})
        /\ Cardinality({b, c} \cup {a}) \in {Cardinality({b, c}), Cardinality({b, c}) + 1}
    BY <1>2, FS_AddElement
  <2>4. ASSUME NEW m \in Nat, m <= 2, NEW n, n \in {m, m + 1}
        PROVE  n <= 3
    BY <2>4
  <2>5. Cardinality({b, c} \cup {a}) <= 3
    BY <1>2, <2>2, <2>3, <2>4
  <2> QED
    BY <2>1, <2>3, <2>5, Zenon
<1>4. Cardinality(S) <= Cardinality({a, b, c}) /\ IsFiniteSet(S)
  BY <1>3, FS_Subset
<1> QED
  BY <1>3, <1>4, FS_CardinalityType

\* LossyPipe counts with the same operator as this module.
LEMMA SameCardinality ==
  ASSUME NEW S
  PROVE  Pipe!Cardinality(S) = Cardinality(S)
BY DEF Cardinality, Pipe!Cardinality, IsFiniteSet, Pipe!IsFiniteSet

\* A step that moves no frame is a stutter of the pipe.
LEMMA PipeStutters ==
  ASSUME UNCHANGED <<frameChan, worker, resultChan, captured, last>>
  PROVE  UNCHANGED Pipe!vars
BY DEF Pipe!vars, InFlight

\* What is left of a set of numbers without its least one is later than that one.
LEMMA WithoutTheLeast ==
  ASSUME NEW S, S \subseteq Int, NEW r \in S, \A f \in S : r <= f
  PROVE  S \ {r} \subseteq {f \in S : r < f}
OBVIOUS

\* Every step of the frame loop or the worker is a step of the pipe or a stutter.
LEMMA PipeStep == TypeOK /\ PipelineOrder /\ [Next]_vars => [Pipe!Next]_Pipe!vars
<1> USE MaxFramesAssumption
        DEF TypeOK, TrackerTypeOK, FrameIds, NoFrame, Modes, Results, NoResult
<1> SUFFICES ASSUME TypeOK, PipelineOrder, [Next]_vars PROVE Pipe!Next \/ UNCHANGED Pipe!vars
  OBVIOUS
<1>1. CASE BeginFrame
  <2>1. CASE captured < MaxFrames
    <3>1. captured' = captured + 1 /\ UNCHANGED <<worker, resultChan, last>>
      BY <1>1, <2>1 DEF BeginFrame
    <3>2. frameChan' = frameChan \/ (frameChan = NoFrame /\ frameChan' = captured')
      <4>1. CASE switch["tracking"]
        BY <1>1, <2>1, <4>1 DEF BeginFrame, SendFrame
      <4>2. CASE ~switch["tracking"]
        BY <1>1, <2>1, <4>2 DEF BeginFrame
      <4> QED
        BY <4>1, <4>2
    <3>3. InFlight' \in {InFlight, InFlight \cup {captured'}}
      BY <3>1, <3>2 DEF InFlight
    <3>4. Pipe!Cardinality(InFlight') <= 3
      <4>1. InFlight' \subseteq {frameChan', worker'.frame, resultChan'.frame}
        BY DEF InFlight
      <4> QED
        BY <4>1, AtMostThree, SameCardinality
    <3>5. UNCHANGED last.frame
      BY <3>1
    <3>6. Pipe!Capture
      BY <2>1, <3>1, <3>3, <3>4, <3>5 DEF Pipe!Capture
    <3> QED
      BY <3>6 DEF Pipe!Next
  <2>2. CASE ~(captured < MaxFrames)
    BY <1>1, <2>2, PipeStutters DEF BeginFrame
  <2> QED
    BY <2>1, <2>2
<1>2. CASE ReceiveSolveApply
  <2>1. UNCHANGED <<frameChan, worker, captured>> /\ resultChan' = NoResult /\ last' = Received
    BY <1>2 DEF ReceiveSolveApply, TryRecvResult
  <2>2. CASE resultChan = NoResult
    BY <2>1, <2>2, PipeStutters DEF Received
  <2>3. CASE resultChan # NoResult
    <3>1. resultChan.frame \in InFlight
      BY <2>3 DEF InFlight
    <3>2. InFlight' = InFlight \ {resultChan.frame}
      BY <2>1, <2>3 DEF InFlight, PipelineOrder
    <3>3. \A f \in InFlight : resultChan.frame <= f
      BY <2>3 DEF InFlight, PipelineOrder
    <3>4. CASE last' = resultChan
      <4>1. InFlight \subseteq Int
        BY DEF InFlight
      <4>2. InFlight' \subseteq {f \in InFlight : resultChan.frame < f}
        <5> HIDE DEF TypeOK
        <5>1. InFlight \ {resultChan.frame} \subseteq {f \in InFlight : resultChan.frame < f}
          BY <3>1, <3>3, <4>1, WithoutTheLeast, Zenon
        <5> QED
          BY <3>2, <5>1, Zenon
      <4> QED
        BY <2>1, <3>1, <3>4, <4>2 DEF Pipe!Next, Pipe!Deliver
    <3>5. CASE last' = last
      BY <2>1, <3>1, <3>2, <3>5 DEF Pipe!Next, Pipe!Lose
    <3> QED
      BY <2>1, <3>4, <3>5 DEF Received
  <2> QED
    BY <2>2, <2>3
<1>3. CASE SurfaceLost
  BY <1>3, PipeStutters DEF SurfaceLost, trackerVars
<1>4. CASE SyncAndPresent
  BY <1>4, PipeStutters DEF SyncAndPresent
<1>5. CASE Key
  BY <1>5, PipeStutters DEF Key, KeyT, KeyI, KeyB, trackerVars
<1>6. CASE WorkerStep
  <2>1. CASE WorkerRecv
    <3>1. InFlight' = InFlight
      BY <2>1 DEF WorkerRecv, InFlight
    <3> QED
      BY <1>6, <3>1 DEF WorkerStep, loopVars, Pipe!vars
  <2>2. CASE WorkerLoadMode
    <3>1. InFlight' = InFlight
      BY <2>2 DEF WorkerLoadMode, InFlight
    <3> QED
      BY <1>6, <3>1 DEF WorkerStep, loopVars, Pipe!vars
  <2>3. CASE WorkerPublish
    <3>1. worker.frame # NoFrame /\ worker'.frame = NoFrame /\ UNCHANGED <<frameChan, captured, last>>
      BY <1>6, <2>3 DEF WorkerStep, WorkerPublish, loopVars
    <3>2. CASE resultChan = NoResult
      <4>1. resultChan'.frame = worker.frame
        BY <2>3, <3>2 DEF WorkerPublish, Detect
      <4>2. InFlight' = InFlight
        BY <3>1, <3>2, <4>1 DEF InFlight
      <4> QED
        BY <3>1, <4>2 DEF Pipe!vars
    <3>3. CASE resultChan # NoResult
      <4>1. resultChan' = resultChan
        BY <2>3, <3>3 DEF WorkerPublish
      <4>2. worker.frame \in InFlight /\ InFlight' = InFlight \ {worker.frame}
        BY <3>1, <3>3, <4>1 DEF InFlight, PipelineOrder
      <4> QED
        BY <3>1, <4>2 DEF Pipe!Next, Pipe!Lose
    <3> QED
      BY <3>2, <3>3
  <2> QED
    BY <1>6, <2>1, <2>2, <2>3 DEF WorkerStep, Worker
<1>7. CASE UNCHANGED vars
  BY <1>7, PipeStutters DEF vars, trackerVars, loopVars
<1> QED
  BY <1>1, <1>2, <1>3, <1>4, <1>5, <1>6, <1>7 DEF Next, Frame

\* The frame loop and the tracker implement the lossy pipe.
THEOREM Implements == Spec => ImplementsPipe
<1>1. Init => Pipe!Init
  BY DEF Init, TrackerInit, NoResult, NoFrame, Pipe!Init, InFlight
<1> QED
  BY <1>1, Order, PipeStep, PTL DEF Spec, ImplementsPipe, Pipe!Spec

============================================================================
