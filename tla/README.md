# TLA+ specifications of kalidokit-rust

kalidokit-rust drives a VRM avatar from a camera: a worker thread runs face,
pose and hand detection, solvers turn landmarks into a rig, the frame loop
writes the rig and an idle animation to the bones, springs move hair and
clothes, and the picture is rendered, shown in a window without borders if the
user likes, and served to other programs as a virtual camera. Around this sit a
speech pipeline (microphone, voice activity detection, Whisper), a Lua overlay
that edits the application's state, a task list from Notion, a video decoder for
the background and two plugin systems.

This directory holds TLA+ modules translated from that source, the TLC
configurations that check them, and proofs for TLAPS. `PROJECT.json` maps every
definition to the lines it stands for, lists the hazards of the code with the
properties that cover them, and names a mutant of the code for each property.

    tlc -config avatar_frame.cfg      MCAvatarFrame.tla
    tlc -config speech_capture.cfg    MCSpeechCapture.tla
    tlc -config grpc_broker.cfg       MCGrpcBroker.tla
    tlc -config plugin_connection.cfg MCPluginConnection.tla
    tlc -config plugin_host.cfg       MCPluginHost.tla
    tlc -config video_session.cfg     MCVideoSession.tla
    tlc -config lua_overlay.cfg       MCLuaOverlay.tla
    tlc -config virtual_camera.cfg    MCVirtualCamera.tla
    tlc -config avatar_pose.cfg       MCAvatarPose.tla

    tlc -config idle_bones.cfg        MCAvatarFrame.tla     # these three find
    tlc -config reset_in_flight.cfg   MCSpeechCapture.tla   # a violation, see
    tlc -config bind_pose.cfg         MCAvatarPose.tla      # "Findings"

    tlapm AvatarFrame_proofs.tla
    tlapm SpeechCapture_proofs.tla
    tlapm RpcControl_proofs.tla
    tlapm GrpcBroker_proofs.tla
    tlapm PluginHost_proofs.tla
    tlapm AvatarPose_proofs.tla
    tlapm LuaOverlay_proofs.tla
    tlapm VirtualCamera_proofs.tla

## 1. Inventory

| part | state it keeps | operations | talks to | what makes it correct |
|---|---|---|---|---|
| tracker worker thread (`app/src/tracker_thread.rs`) | two `sync_channel(1)`, an atomic mode flag, the frame in hand | recv, load the mode, detect, publish; `send_frame`, `try_recv_result`, `set_face_only` | frame loop | results in capture order, each once; a mode change takes effect; nothing is stuck |
| frame loop (`app/src/update.rs`, `app.rs`) | switches, last result, rig, `rig_dirty`, idle animation, bones | one frame; keys; Lua and queued changes | tracker thread, Lua overlay, renderer | bones show the right writer after any order of results and switches |
| avatar model and animation (`vrm`) | hierarchy, joints, humanoid bones, clip and its time, two stores of every rotation | load, retarget, sample, reset, compute the pose | frame loop, springs | the avatar moves as the film's source did; a reset is the bind pose |
| springs (`spring-physics`, `vrm/src/spring_bone.rs`) | chains, colliders, the last results | one step per frame, write back | the pose | results end where they belong and do not feed back |
| speech capture (`speech-capture`) | audio channel, segmenter, flags `running`, `reset_flag`, `whisper_abort`, heartbeat | start, stop, reset, abort; the worker's loop | audio capture, avatar state | an utterance is reported whole and once; reset, abort and stop take effect |
| avatar state (`avatar-sdk`) | a mutex-guarded snapshot, an action queue | getters, setters, actions | frame loop, Lua, speech callback, Notion threads | what is shown is current |
| Lua overlay (`lua`, `lua-imgui`, `assets/scripts`) | command list, widget outputs, window visibility | scripts, replay, exchange of outputs | avatar snapshot, action queue | a click acts once, and on the widget clicked |
| mascot window (`app/src/mascot.rs`) | mode, level, click-through, window attributes | toggle, on top, cursor, alpha map | keys, scripts, frame read-back, preferences | the window has the attributes of its mode |
| Notion tasks (`app/src/notion.rs`) | list, loading flag, error | refresh, new page, complete, on detached threads | a server, the action queue | loading tells the truth; a late answer does no harm |
| user preferences (`app/src/user_prefs.rs`) | a file | load, save at exit | mascot window, camera, lights | what is saved comes back |
| frame read-back (`renderer/src/scene.rs`) | two staging buffers, index, one flag | resize, copy, map, read | virtual camera, mascot hit test | only a mapped buffer is read |
| virtual camera (`virtual-camera`, macOS extension and DAL plugin) | a one-slot channel, a client list under a mutex; in each client a buffer and a connection | send a frame, broadcast, accept; connect, read, cut frames | other processes over TCP | frames arrive whole and in order; the flow comes back after a restart; exit returns |
| video decoder (`video-decoder`) | sample table, demuxer position, playback clock, backend | open, `decode_frame`, seek, pause, loop | frame loop | the table is the track's; a seek shows its keyframe; a loop goes on |
| go-plugin brokers and RPC control connection | pending tables, stream sender, locks, sequence numbers | accept, dial, deliver, close, call, serve | peer process | a connection goes to the caller that asked for it; an answer to its call; nobody waits for ever |
| go-plugin client and server | child process, channel, exit flag, managed clients | start, reattach, negotiate, kill, cleanup, drop, serve | peer process | the best common version; no orphan; start and kill return |
| dynplug manager | native and wasm tables | load, invoke, unload | shared libraries | a name is one plugin |
| audio capture, end-of-turn detection, ten-vad, stt-cli, solver, tracker inference, auto blink, renderer, imgui renderer and text edit, terminal, drawio, logger | numeric, bindings, or none of interest | | | see "Not modelled" |

The hard behaviours are the free interleaving of the frame loop with its
worker, results that arrive after the setting they were computed for is gone,
full one-slot channels, flags that one thread sets and another looks at now and
then, inferences during which everything else goes on, pending tables with
timeouts and locks that are held across a wait, futures that are dropped at an
await, processes that hang or crash between any two steps, outputs that are read
one frame after they were made, detached threads whose answers come late, two
users of one read-back, two stores of one rotation, and run-length tables whose
borders do not fall together.

## 2. Modules

| module | models | uses |
|---|---|---|
| `LossyPipe` | abstract: numbered frames travel a pipe that may lose them, in order, each at most once | |
| `TrackerThread` | `tracker_thread.rs`, `holistic.rs` | |
| `AvatarFrame` | `update_frame` up to the bones, the keys T, I, B and the action queue, with the worker | extends `TrackerThread`, implements `LossyPipe` |
| `SpeechEvents` | abstract: utterances open and close in order | |
| `VadSegmenter` | `segmenter.rs` | |
| `SpeechCapture` | `speech-capture/src/lib.rs`, `whisper_engine.rs`, the application's callback and its reset, abort and stop | extends `VadSegmenter`, implements `SpeechEvents` |
| `Rendezvous` | abstract: an accept and a dial of the same service at two ends are paired, each at most once | |
| `GrpcBroker` | `grpc_broker.rs`, the broker stream of `grpc_client.rs` and `grpc_server.rs` | implements `Rendezvous` |
| `MuxBroker` | `mux_broker.rs` | implements `Rendezvous` |
| `RpcControl` | `rpc_client.rs`, `rpc_server.rs`, `rpc_codec.rs` on the same connection | extends `MuxBroker` |
| `PluginHost` | `client.rs`, `runner.rs`, `server.rs`, `protocol.rs`, the shutdown service | |
| `Mp4Samples` | the sample table of `demux/mp4.rs`, with a reference definition | |
| `VideoSession` | `backend/mod.rs`, `software.rs`, `apple.rs`, `util/timestamp.rs` | extends `Mp4Samples` |
| `MascotWindow` | `mascot.rs` | |
| `NotionTasks` | `notion.rs` and the task actions of `update.rs` | |
| `LuaOverlay` | `lua-imgui`, the scripts, the second half of `update_frame`, preferences | extends `MascotWindow`, `NotionTasks` |
| `FrameCapture` | the read-back of `scene.rs` | |
| `VirtualCamera` | `virtual-camera`, its macOS clients, their calls in `update.rs` and `app.rs` | extends `FrameCapture`, implements `LossyPipe` |
| `Rotations` | the turns of a cube | |
| `AnimationClip` | `vrm/src/animation.rs`, `animation_player.rs` | extends `Rotations` |
| `AvatarModel` | `vrm/src/loader.rs`, what it calls of `bone.rs` and `spring_bone.rs` | extends `AnimationClip` |
| `AvatarPose` | the bones, springs and switches of `update.rs`, `bone.rs`, `world.rs` | extends `AvatarModel` |
| `MC...` | constants for TLC | each extends the module of its name; `MCPluginConnection` extends `RpcControl` |
| `AvatarFrame_proofs`, `SpeechCapture_proofs`, `RpcControl_proofs`, `GrpcBroker_proofs`, `PluginHost_proofs`, `AvatarPose_proofs`, `LuaOverlay_proofs`, `VirtualCamera_proofs` | theorems | each extends the module of its name |

### The frame loop and the tracker

A camera frame is its number, a tracking result the frame it was computed from
and the set of parts seen in it. `frameChan` and `resultChan` are the two
one-slot channels, `worker` the frame the thread holds with the mode it read,
`faceOnly` the atomic flag. The thread's loop is three actions: `WorkerRecv`,
`WorkerLoadMode` and `WorkerPublish`; the flag can change between any two.

`update_frame` is cut into three steps where the worker can be seen to run in
between: `BeginFrame` (capture, `send_frame`), `ReceiveSolveApply` (receive,
solve, write the bones) and `SyncAndPresent` (the Lua changes, `set_face_only`,
the action queue), or `SurfaceLost`, the early return when the surface cannot be
acquired. Keys come between frames. What the Lua script may flip in one frame is
the constant `LuaChanges`; a hidden overlay flips nothing.

The rig keeps, for each part, the frame it was solved from; a bone group keeps
who wrote it last, the bind pose, the idle animation or the rig. Interpolation
weights, angles and the order of bones inside a group are left out. The groups
are those the code always treats alike: `neck` (with the eyes), `arms`, each
hand, `torso` (with the legs, which the rig claims and never drives) and
`other`.

### The pose of the avatar

`AvatarFrame` knows who wrote a bone; `AvatarPose` knows what was written. A
rotation is one of the 24 turns of a cube: a group with three axes that do not
commute, in which a product in the wrong order, a missing inverse or a frame
taken for another one shows. Interpolation between keys, positions and scales
are left out, and so is what the integrator of the springs computes: a chain
swings its parent by any turn of the constant `Swings`.

`AnimationClip` reads both file formats into the local turns of VRM bones: the
name table, the Euler orders, the FBX link table, forward kinematics of the
source per frame, the world delta, its mirror image, the local delta.
`AvatarModel` is the loader: parents from children, humanoid bones, the flat
lists of joints and colliders with their offsets, the chains. Files are records
of what the loader reads, so that a missing section or an index without a node
is an input like any other.

In the code a rotation has two stores: `node_transforms`, and for a humanoid
bone also its `local_rotation`, which wins when the pose is computed. The model
has both (`nodeRot`, `boneRot`). `Frame` is the whole of one frame: advance and
sample the clip, restore the spring nodes, compute the pose, step the springs,
write their results, compute the pose that is drawn.

### The speech capture

An audio hop is its number, and its number is its timestamp. The channel always
holds the hops after the last one taken, up to the last one captured, so two
numbers stand for it. The worker's program counter follows `vad_worker`: the
head of the loop reads `running` and swaps the reset flag (`WorkerTop`), then
flushes or receives, has the detector look at the hop (`WorkerHop`, or
`WorkerHopFails`), perhaps runs an interim inference (`WorkerInterim` is its
return), feeds the segmenter (`WorkerFeed`), and perhaps runs the final
inference (`WorkerFinal` is its return). An inference lasts as long as the other
actions like. `VadSegmenter` has one action per branch of `feed_with_raw`. The
application's thread starts, stops (three steps: the flag, the stream, the
join), resets (two steps: the flag, then what it shows) and aborts.

`heard` is a history variable: what the callback has been told. `SpeechEvents`
is a specification of it alone. `skipped`, `resetAt` and `aborted` are histories
the properties need; no guard reads them. `heartbeat` abstracts the timestamp to
whether it was stored in the present tick.

A capture frame has 256 samples and so has a hop; noise suppression works on 160
samples and delays a hop by less than one frame, which the model leaves out. The
batch fallback for end-of-turn detection (lib.rs 399-427) never runs, because
every `VoiceEnd` of the segmenter already carries `end_of_turn`.

### The plugin connection

Both brokers have the same promise, `Rendezvous`, and break it in different
places if they break it. In `GrpcBroker` an accept binds a listener, takes the
lock on the stream sender and keeps it while it waits five seconds for its peer;
a dial registers, waits for the address and connects. An address is named by the
accept that bound it. `pending` may hold the entry of a dial that has given up;
a registration over it drops the older one's sender. Only the plugin's broker
ever holds a stream sender, since the stream is set up by the client and served
by the plugin; it may break at any time. `close` takes one lock after the other.

In `MuxBroker` a brokered connection is a stream of the one yamux connection: a
dial asks the driver for a stream, writes the id and waits for the
acknowledgement with no timeout of its own. At the other end a task per stream
looks the id up, acknowledges, and hands the stream over, which are three
actions, because the accept may time out between any two. `ConnectionFails` ends
the connection for everybody. `RpcControl` adds the control connection: a call
takes a number, then the lock, writes, reads the length of an answer and its
body. It can be cancelled at every await: between the length and the body of its
request, which leaves a torn request behind, and between the length and the body
of its answer, which leaves a body that nothing announces (`stray`). The calls
after it take that body for lengths, four bytes at a time (`RpcMisreads`). Its
first byte, 0x93, makes a length that is too large; what the bytes after it make
depends on their values, and is left open: too large as well, or one for which a
call waits with the lock held and which swallows the answers to come
(`RpcSwallows`). The server answers one request after the other; when it leaves,
the stream ends for the client.

### The plugin process

`PluginHost` has two clients of one process. The owner has a command and the
handle of the child; the guest was made with the owner's reattach configuration.
`start` is cut at its awaits and where it blocks: `StartCommand`, `Spawn` or
`StartTimesOut`, `ReadLine`, `Connect`; `kill` likewise: `KillCalled`,
`ShutdownReturns`, `KillReturns`. The process boots, listens, serves and drains,
and may crash or hang at any point, or be no plugin at all (`BootStranger`).
Clients are registered for `cleanup_clients` and dropped in any order. `offer`
is what the two sides bring to the negotiation, among every combination.

### The video session

`Mp4Samples` has the single pass that expands the run-length boxes of a track
(`BuildSampleTable`) and a reference definition that looks each sample up in the
boxes (`SamplesOf`). `VideoSession` keeps the two positions of the code apart:
`playback`, the clock that moves with the time the caller passes, and `cursor`,
the demuxer that moves with the samples decoded. A track says of each sample
whether it yields a picture, nothing or an error; a delta frame yields nothing
before the decoder has had a sync sample. `DecodeFrame` has one disjunct per way
through `decode_frame`. Both session kinds are modelled; the other backends only
ever refuse to open.

### The overlay, the mascot window and the task list

A frame of `LuaOverlay` is two steps, since the threads of the task list run
between them: `DrawFrame` (copy the state to the snapshot, run the scripts,
replay their calls on ImGui and keep what the user did by label) and
`FinishFrame` (take back what the scripts changed, the alpha map, the action
queue). `Script` lists the settings widgets of the scripts in the order of their
calls, with their labels, two of which share one; `RunTasks` makes the widgets
of the task list, which are labelled by their row. A slider has two values. A
frame takes one click at most. `owed` and `drawn` are histories: the click that
the scripts have not seen yet, and what was drawn in the last replay.

`MascotWindow` has an operator for each method of `MascotState` over one record
of its switches and of what the window was told. `NotionTasks` has a bag of
threads that are never joined, each at its stage, and a list on the server that
others edit. `Restart` saves the preferences and starts again.

### The virtual camera

`FrameCapture` is one record, as it is one group of fields in `Scene`: the size,
the index of the buffer, `pending`, the one `ready` flag, and for each buffer
whether it is mapped and what it holds. `VirtualCamera` carries frames from it
through the one-slot channel to the writer, which takes the mutex, goes through
the clients and writes a header and the pixels to each, waiting for room; a
socket holds `SocketRoom` such pieces. A client connects, reads what there is,
cuts it into frames by the headers, and closes after an end of stream. The
application and the clients are launched, crash, stop and are suspended in any
order. Frames are numbered up to `MaxFrames`; the later ones are all `Later`,
which the properties about order leave out and those about progress need.

The camera extension and the DAL plugin run the same protocol and are both a
client.

## 3. Runs

| run | question | bounds |
|---|---|---|
| `avatar_frame` | does the avatar show what it should, in any interleaving? | 3 camera frames, then frames without new images for ever |
| `speech_capture` | are utterances whole and in order; do reset, abort and stop work? | 5 hops |
| `grpc_broker` | do only matching calls meet, is nothing lost without a cause, does every call return? | 2 accepts, 2 dials, 1 close, 2 services |
| `plugin_connection` | the same for the multiplexed connection; does an answer go to its call, does every call return, whatever dropped calls leave on the stream? | 2 accepts, 2 dials, 1 close, 3 control calls; of these `MaxLoad` 12 in a session, a broker call counting 3 and a control call 4: four of the former, three of the latter, or a mix |
| `plugin_host` | is the best version agreed on, is nothing orphaned, do start and kill return? | 2 versions in every combination, 2 clients, 2 starts |
| `video_session` | is the table the track's, does a seek show its keyframe, does a loop go on? | 10 tracks of up to 4 samples, time steps 1 and 3, 2 seeks, 1 fault, a lag of 3 |
| `lua_overlay` | does a click act once and there, is the loading flag true, does the window follow? | 3 inputs of the user or the server, 2 threads, lists of 2 and 1 tasks |
| `virtual_camera` | are frames read, carried and cut correctly, does the flow come back, does exit return? | 1 client, 2 numbered frames, sockets of 2 pieces, 2 sizes of the mascot window |
| `avatar_pose` | does the avatar move as filmed, do springs stay in their place, do indices resolve? | 4 clip files, 3 avatars, 2 swings, 1 change of clip |
| `idle_bones` | doc at update.rs 1454: bones without tracking are idle | as `avatar_frame` |
| `reset_in_flight` | doc at speech-capture lib.rs 136: reset cancels what is pending | 5 hops, the application's durations |
| `bind_pose` | doc at bone.rs 220: a reset is the bind pose | as `avatar_pose` |

Three camera frames fill the frame channel, the worker and the result channel at
the same time, so that each of the two `try_send` calls can fail; the loop then
goes on without new frames, so every order of switches and late results is seen.
The detections tell every pair of parts apart, and one hand has no idle channel
while the other has.

Five hops are enough for an utterance with a pause that resumes, for one that
ends by the extended timeout of an incomplete turn (three hops of silence), and
for one that is cut early or discarded followed by the start of another. Resets,
aborts, stops and restarts are not bounded at all.

Two accepts and two dials of a broker are enough for a call that finds the entry
of one that gave up, for one that displaces another, and for one behind the lock
of another; the first pair can always succeed, and the second pair ranges over
the same service, another one, and the end that cannot serve it. Three control
calls are one that is dropped between a length and a body, one that reads what it
left, and one that waits behind that. The calls of these three plugin runs come to an
end, so their configurations do not check for deadlock; that no call hangs is
`EveryCallReturns` and `CallsReturn`.

The tracks have chunks of unequal sizes and chunks without samples, one size for all
samples and one for each, runs that end inside a chunk, times of zero, a duration that
is missing or too short, sync samples at the start, in the middle or everywhere, and
samples that yield nothing or fail. Where no backend opens the file the application goes on without a
session, so that run does not check for deadlock either.

Three inputs are enough for a click, something that changes the state under it,
and a second click or a restart. Frames, cursor movements and threads are not
bounded. Two numbered frames are enough to be swapped, repeated or mixed, and the
whole path holds them and later ones at the same time; a socket of two pieces is
full after one frame. With two clients, three million states and safety only, the
same properties held; that instance is too large for the run, which has one
client.

The two films share a skeleton whose root lies on its side, whose nodes have
rotations before and in their rest pose, and which has an unanimated node between
animated ones; one film is there in both formats, and one has a single channel
whose keys lie between frames. One avatar has a strand on a humanoid bone, with
chains, colliders and joints that name nodes that do not exist, one hangs a
strand on a plain node, one is refused.

Sizes, in distinct states: `grpc_broker` 97 thousand, `plugin_connection` 203
thousand, `plugin_host` 553 thousand, `video_session` 131 thousand,
`lua_overlay` 740 thousand, `virtual_camera` 187 thousand, `avatar_pose` 54
thousand.

### Properties of the frame loop

* `ImplementsPipe` (and the theorems `Order` and `InOrder`): nothing is
  overtaken, delivered twice or applied after something newer.
* `HandsOfLatestResult`: a hand is on the avatar only if the result in use saw
  the opposite hand (the camera mirrors).
* `ModeSettles`: a frame captured after the mode changed is analysed in that mode.
* `NoPoseLeftWhenOff`, `IdleFillsUntracked`: the idle animation leaves nothing
  behind when it is off, and takes every bone back that nobody tracks.
* `EveryFrameSettles`, `TrackingStarts`: every frame leaves the pipeline, and
  dropping frames keeps nobody from being tracked.
* `OffFreezes` is proved and in no run: with tracking off, late results change
  nothing.

### Properties of the pose

* `FollowsSource`: at every key, each animated bone is turned in the world as the
  film's bone was, seen from the other side, whatever the format, the rest poses
  and the springs. It asks that the bones between two animated ones are animated,
  that all have the same keys, and that the avatar has the film's bones jointed as
  in VRM.
* `NoFeedback`: the pose that the springs start from has nothing of the last
  frame's swings in it.
* `FirstSwingIsDrawn`: what the springs write locally to a plain node is, in the
  world, the swing they computed, when no swung node is above it. It asks that the
  forward kinematics reaches the node: below a node that is its own ancestor the code
  draws a rotation without its parent's.
* `IndicesResolve`: chains, colliders and joints mean what they meant in the file: a
  chain has the colliders of its groups and no others, a vertex names the joint it named
  in the list of its own skin (a mesh shown with one skin).

### Properties of the speech capture

* `ResetDropsTheOld`: once the worker has seen a reset, no audio from before it
  is in the channel, the buffers or an inference.
* `UtteranceIsWhole`: an utterance's audio has no gap and nothing extra.
* `AbortHitsCurrentInference`: an abort hits the running inference and no later.
* `ImplementsEvents`: the callback's protocol.
* `StopSilences`, `StopReturns`, `ResetIsSeen`: after a stop no callback comes;
  a stop returns; a reset is seen without audio.
* `InterimIsOpen` is proved and in no run: the interim text shown is never that of
  a reported utterance.

### Properties of the plugin library

* `ImplementsRendezvous` (both brokers): the ends of a brokered connection asked
  for the same service at different ends, nobody is paired twice, and `Ok` means
  paired.
* `DroppedWithCause`: a dial loses its place to a close or a newer dial of the same
  service only, never to a stale entry.
* `CloseLeavesNothing`: when `close` returns, its end has no entry and no sender.
* `AnswersMatch`: no call accepts an answer that a cancelled one left behind, nor
  what it makes of the body of one.
* `EveryCallReturns`: accepts, dials and the gRPC broker's closes return
  (`EveryBrokerCallReturns` for the multiplexed one). Control calls return
  (`EveryRpcReturns`), those that read a body for a length included, except when a
  dropped call has stopped the stream (`Derailed`): the server waits for the rest of a
  torn request, or a call has read a small length out of a body and waits under the
  lock. Neither has a timeout.
* `NegotiatedIsBest`: both sides come to the highest common version, although each
  chooses for itself from lists in any order.
* `KilledIsOver`, `OneProcess`: a kill or a drop leaves no process; a client never
  has a second one it could lose.
* `CallsReturn`: start and kill return unless the process hangs.

### Properties of the video session

* `TableIsTrack`: the table of the single pass is the one the boxes define.
* `SeekShowsKeyframe`: the first frame after a seek of the software session is the
  keyframe at or before the position, also when the clock goes round in between.
* `LoopGoesOn`: a looping video with something to show goes on for ever.

### Properties of the overlay

* `ClickArrives`, `NothingUnasked`: what the user did is what the next run of the
  scripts does, once, and nothing else; with the exceptions under "Findings".
* `LoadingMeansFetching`: the loading flag is up exactly while a refresh thread is on
  its way, and there is one at most.
* `WindowFollowsMascot`: decorations, level and click-through of the window are those
  of its mode, whoever changed it.

### Properties of the virtual camera

* `ReadsOnlyMapped`: with two users that resize one capture in turn, the one flag
  still only ever lets a mapped buffer be read.
* `ImplementsPipe`: a client gets frames in order, each at most once, and never a
  mixture of two, across lost connections and restarts.
* `FramesFlow`: a client that runs gets frames for ever, with mascot mode off (see
  "Findings").
* `StopReturns`: exit waits for nobody but a suspended client.

### Fairness

`AvatarFrame` assumes weak fairness of a frame (the window asks for a redraw
after every frame, app.rs 104-146) and of the worker (a thread that blocks in
`recv` only). `SpeechCapture` assumes weak fairness of the worker, which waits
in `recv_timeout` only, given that an inference returns, and of the application
finishing a `stop` or reset it has begun. Keys, Lua, the microphone and the
calls of the application are never fair.

The brokers and the control connection assume weak fairness of every step of a
call that has been made, of the tasks that the library spawns and of its timers,
since the runtime polls every task that can go on. Nobody has to make a call, to
open or break a stream or to cancel. `PluginHost` assumes it of the steps of
start and kill and of a process that boots and serves; not of a crash, a hang, a
drain or a call. `VideoSession` assumes that the frame loop calls `decode_frame`.

`VirtualCamera` assumes weak fairness of the frame, the GPU, the writer, the
clients' run loops and exit, and strong fairness of two actions: a frame that is
due for the camera, because the 33 ms of its throttle pass again and again
(`VcamFrame`), and `Accept`, because the listener competes with the writer for a
mutex that is free again and again. Nothing has to crash, start or be suspended.
`LuaOverlay` and `AvatarPose` state safety only and assume nothing.

### Findings

Three runs are expected to be violated; `PROJECT.json` quotes the line each
contradicts, and the comment that `FollowsSource` corrects.

* `idle_bones`: bones that tracking claims and does not drive (the legs) are left
  out of the idle animation as well.
* `reset_in_flight`: a reset during a hop lets that hop's callback through, and the
  application goes on showing voice.
* `bind_pose`: a reset copies the node transforms to the bones, and the springs
  have written theirs there; the swing stays in the bone.
* `BoneChannel`: its doc comment (animation.rs 11-12, also 19 and 28) says that a
  channel stores the world-space delta `rest_inv * anim`. The code computes
  `anim * rest_inv` (line 542) and stores it under the turn of the VRM parent (lines
  555-571), as a local turn. `FollowsSource` holds for what the code does; with the
  documented product, which is its mutant `WorldDeltaSwapped`, it fails: the comment
  is out of date, and following it would turn the avatar wrongly.

What else the modelling showed, at its line, without a run of its own:

* The comment at tracker_thread.rs 51 says that the older result is dropped when
  the channel is full; `try_send` drops the newer one.
* A short utterance is not ignored with the application's durations: the minimum
  is compared with a duration that includes the silence (segmenter.rs 175).
* The heartbeat is stored before an inference only (whisper_engine.rs 86 and 90).
* `rpc_server.rs` encodes a body that is encoded already, so that a client never
  decodes a reply with a body.
* A start that waits for the line of a hung process has no timeout
  (client.rs 150), nor has the shutdown request of a kill.
* A control call that is dropped between the length and the body of its answer breaks
  the connection for the calls after it: one or more of them fail with "response too
  large", and one may wait for ever, with the lock held (rpc_client.rs 74-93).
* Outputs are kept by label over all windows: of two widgets of the label "Camera
  Distance" the later one erases what was done to the earlier (commands.rs 216).
  Task widgets are labelled by row: a click lands on another task when the list is
  replaced under it. A widget of a hidden window goes on returning what was last done
  to it. `ClickArrives` and `NothingUnasked` leave these three cases out, by name.
* With mascot mode on at another size than the camera's frames, the two users of the
  one capture resize it in turn, each resize drops the frame under way, and none is
  ever read back: `FramesFlow` is about mascot mode off (update.rs 1387).
* `imgui.button` always returns false to a script, so "Reset" and "Abort Whisper"
  of the scripts do nothing.
* The list that a create-child thread fetches late overwrites a newer one.
* A suspended client with a full socket stalls the writer, with the mutex held, hence
  the other clients, new ones and exit.
* A client that reads the end of the stream drops complete frames it has not cut yet.
* A video that does not loop stops before its last frame; the Apple session seeks to
  the start of the file; a reader that failed is not opened again; the texture of a
  background video is removed in mascot mode and not restored after it.
* Swings compound along a chain. The first bone of a chain on a humanoid node is
  never seen to swing, yet a reset and the loading of a clip read it (`bind_pose`).
  Siblings with one parent overwrite each other. A spring node listed twice is
  restored as the identity. A chain on a plain node does feed back. Springs that are
  switched off freeze the last swing.
* Retargeting counts a parent without a channel twice, matches frames by their
  number and not their time, and reads three values per key of a cubic spline. An
  avatar without `UpperChest` loses its turn. A mesh with two skins gets the offset
  of the later one. A change of clip leaves other bones in the pose of the old one.

## 4. Proofs

`AvatarFrame_proofs` proves, for every length of the session, every set of
detections, every clip and every Lua script, that `Spec` implies the type
invariant, each of the safety and action properties of the run and `OffFreezes`,
and that it implements `LossyPipe`. The inductive invariants are small: `TypeOK`,
`PipelineOrder` and `HandsOfLatestResult` are inductive as they stand, given
the ones before them in this order; the implementation of the pipe needs
`PipelineOrder`, since only there it is known that the result in `resultChan` is
the oldest frame under way, and that the three places hold distinct frames.
`ModeSettles` and the two properties of the idle animation use strengthenings
defined at their place in the module. The assumptions are the named ones of
`TrackerThread` and `AvatarFrame`.

`SpeechCapture_proofs` proves, for every number of hops, every timeout,
interval and log length and every answer of the detectors, that `Spec` implies
the type invariant, the three invariants of the run, `InterimIsOpen` and
`StopSilences`, and that it
implements `SpeechEvents`. None of the invariants is inductive by itself. The
core is `Base`, which joins to `TypeOK` two parts:

- `Told`: a worker that speaks is in the utterance that was last opened to the
  callback, and stays so until it is reported, also while Whisper works on it;
- `ToldBefore`: the hop in hand is later than everything the callback was told.

With them a report is one of an open utterance and about a later hop, which is
the protocol. `TypeOK` itself needs them: the log takes a hop that was opened.
`FeedCases` sums up the segmenter: a hop leaves it quiet, opens an utterance,
adds to it, discards it or closes it; no later proof looks at the verdicts.
`ResetDropsTheOld` is joined with `ResetSeen`, which says why a new worker whose
flag is already down needs no flush: its predecessor saw the flag and its channel
began empty. `UtteranceIsWhole` becomes `WholeSoFar`, the same at every step of
the loop, and `StopSilences` follows from `Joined`. The assumptions are those of
`VadSegmenter` and `SpeechCapture`: the times are natural numbers, the log holds at
least one entry.

`RpcControl_proofs` proves, for every set of calls and ids, that both ends of a
`MuxBroker` implement `Rendezvous`, and for every number of requests that
`AnswersMatch` holds. The broker and the control connection step in turn, so each
has its own invariant. The broker's is `Pairing`: an entry of the table is an accept
of its end and its id that no stream has taken (`Entries`), what a stream took no
other stream has (`TakenOnce`), and how far a dial, its stream and the accept it took
are fits together (`Streams`, `Given`). With it, acknowledging a stream that took an
accept is the step that pairs the two. `AnswersMatch` needs `Owned`: no number is
given twice, and requests and answers on the stream say what the call of their number
asks. Taking an answer in two steps needs `Reading`: only the call with the lock is
between its request and its answer, so that nobody takes the answer whose length it has
read; a step that may lose answers and accepts none is summed up as `Loses`. The
proof did not go through at first, because the guards of `Outcome` overlapped and a
`CASE` may then take either; it is a chain of `IF` now, in the order of the code.

`GrpcBroker_proofs` proves that `GrpcBroker` implements `Rendezvous`, and
`CloseLeavesNothing` and `DroppedWithCause`. Two invariants carry it. `Locking`: who
holds the lock of an end and who is in the state that holds it are the same, and what a
close has cleared stays clear while it holds the lock. `Addressing`: an entry is a
dial that still has no address; an address on the wire was sent once, by an accept of
the plugin, and no dial has it; the address a dial has is that of an accept of the
other end for the same service, and no other dial's. Connecting is then a pairing.

`PluginHost_proofs` proves the three invariants of the run for every number of
versions, every pair of lists and every number of starts. `Launched` says that the
command is gone once a process is or will be there, which a start that timed out does
not undo; `Held` that who has a handle has that of this one process, and that a kill
waits for an exit only where there is one. With these `KilledIsOver` is inductive.
`NegotiatedIsBest` rests on `Negotiated` and on the lemma that the version the plugin
serves, found among versions in any order, is the highest common one.

`AvatarPose_proofs` proves the type invariant and three of the four properties of the
run, for every avatar, animation file and set of swings; of the files it assumes the
form in which the importers give them (`VrmFile`, `GlbFile`, `FbxFile`), not that a
hierarchy is a tree or an index in range. `PoseType` needs that a file of either format
loads to a clip of rotations (`GlbType`, `FbxType`, `RetargetType`), and a VRM file to
a model whose bones, parents and chains name nodes (`LoadType`). For `NoFeedback` the
invariant says that, where chains are anchored, the nodes that are neither bones nor
springs have the rotation of the file: everything else is written anew from the bones
or restored before the springs run. `FirstSwingIsDrawn` takes the laws of a group for
rotations, proved from the turns of a cube as permutations, and the recursion of the
kinematics: the nodes that are reached from a root have a rank, below their children's,
so a first node at which two poses differ cannot exist (`WorldAgrees`), and the
rotation above a swung node is the one its result was made local with. `IndicesResolve`
rests on `LaidOut`: lists laid end to end are found where the sums of their lengths say,
which colliders and joints have in common; a skipped group has length 0 and keeps its
place.

The proofs corrected two properties, false for files that no run has. In
`FirstSwingIsDrawn` a node could be its own ancestor; in `IndicesResolve` a collider was
known by its node and number, so that of two groups at one node, which the code keeps
apart, each was asked to have the other's.

`LuaOverlay_proofs` proves the four properties of the run for every set of lists and
number of threads and inputs. `WindowFollowsMascot` is inductive once the fields of the
window are known to be switches. `LoadingMeansFetching` needs `Queued`: no refresh waits
in the queue while one runs, since the scripts draw no Refresh then (`TasksDrawn`, for
which the concatenation of the rows is taken apart at its first counterexample).
`ClickArrives` and `NothingUnasked` follow from `ClickInv`, about what is kept by label
between two runs of the scripts: widgets that were drawn under one label are for the same
thing (`DrawnInv`); for a label that was drawn nothing is kept but the click (`Kept`); and
the click is, unless a later widget of its label was drawn with it (`Owed`). That the
setting of a field is what the last of its widgets returned is `LastReturned`. `ClickInv`
was checked with TLC on the instance of the run first.

`VirtualCamera_proofs` proves `ReadsOnlyMapped` and that the camera implements
`LossyPipe` for every client among any number of them, every number of frames and every
size of a socket. `CaptureInv` says that the buffer to be used next is always free and
that the one flag tells the state of the other one; it is inductive because a resize
replaces both buffers. For the pipe, `ChanInv` and `WriterInv` order the frames in the
buffer, the channel and the writer; `ClientInv` says of every connection who still has it
(`Linked`), that all under way is newer than what was shown (`Shows`), and that what was
written and not cut is headers and pixels of the same frames in turn, in order, of
which only the one the writer is at may be half there (`Streams`). A step then loses
frames (`Loses`), lets one arrive (`Arrives`) or captures a new one. The invariant was
checked with TLC on the instance of the run before it was proved.

All assumptions are the named ones of the modules. Those of the brokers say that there is
an id, that the kinds of calls are disjoint and that the call that stands for none is
none of them; `PluginHostAssumption` and `RpcControlAssumption` bound what a call may
ask for; `NotionAssumption` that there is a list and room for a thread;
`NobodyAssumption` that the writer's "no client" is none; `RoomAssumption` that a socket
has room for a piece.

What stays with TLC:

* the liveness properties (`EveryFrameSettles`, `TrackingStarts`, `StopReturns`,
  `ResetIsSeen`, `EveryCallReturns`, `CallsReturn`, `FramesFlow`, `LoopGoesOn`): TLAPS
  proves nothing under fairness here;
* `TableIsTrack`, about what folds compute for every input: it needs induction over
  data, whose theorems take an operator as a parameter, which no installed prover
  instantiates (the inductions of section 4 are by a least counterexample, on a
  recursive function or a length);
* `FollowsSource`, which relates two skeletons through the retargeting and the sampling
  of a key: not proved yet;
* `SeekShowsKeyframe`, which looks its samples up in the table that `TableIsTrack` is
  about;
* `BindPoseIsBind` and the other violated properties, of which there is nothing to prove.

## 5. Not modelled

Numeric code without a state that another step reads: the solver, the inference of
the tracker, face, pose and hand models, the integrator and the constraints of the
springs, blend shapes, look-at and automatic blink, noise suppression, ten-vad,
end-of-turn detection, shaders, meshes and materials. These, with in-file tests,
the vendored text editor (3,500 lines of C++), examples, build scripts and tables
of constants, are most of the lines the map does not name.

Wrappers: the renderer's GPU calls in a fixed order, the ImGui renderer and text
editor, the audio backends around cpal and ScreenCaptureKit, the property tables,
the installer and the teardown of the DAL plugin and what a client does with a
frame it has (the queue of the DAL stream, the test pattern), the logger, the
stt-cli.

Sequential code within reach of its unit tests: the tables of `dynplug` behind
`&mut self`, with one caller at a time; the terminal's screen buffer, which one reader
thread fills and the frame loop draws under a mutex; the draw.io converter; `accept_and_serve`, `dial_tcp` and `next_id`
of the brokers, which chain a modelled call with a socket call or count; preferences
outside the overlay's fields; the thread of `notion_complete`, which writes nothing
back.

Parts of modelled components: dragging, sizes and positions of windows, camera moves
and lights, the background image and its animated GIF, the ImGui windows that are not
scripts, collapsing headers, which keep what is under them from being replayed as a
hidden window does (commands.rs 261-284), text and colour widgets that no script reads;
the end of the camera's listener at an error of `accept` (macos.rs 85), after which no
client is served; TLS, stdio forwarding,
discovery and the mux variant of `serve`; the server's inbound half of the broker
stream, on which a client never sends; short reads of a length prefix; decoding,
colour conversion and NAL rewriting; the loss of the GPU device; the end of the
tracker thread when the application drops its handle. A press outside ImGui whose
release falls on an ImGui window leaves `dragging_model` set (app.rs 431): geometry
is left out, and so is this.

A face or a pose that is no longer seen keeps its rig in the code and in the model.
Each part is listed in `PROJECT.json` with its reason.

## 6. Plan

1. `FollowsSource`: the lemmas on ranks and on the group of rotations that
   `AvatarPose_proofs` has carry its kinematics, on the source's skeleton and on the
   avatar's; what is missing is that a sequence of keys is sampled at its own key.
2. The renderer's order of passes and the tracker's inference are numeric; what they
   share with the frame loop is in `AvatarFrame`, and nothing more of them is planned.
