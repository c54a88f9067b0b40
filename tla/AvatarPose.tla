----------------------------- MODULE AvatarPose -----------------------------
(***************************************************************************)
(* The pose of the avatar: the idle animation on the humanoid bones, the   *)
(* spring chains on the nodes below them, and the switches and resets of   *)
(* the user (app/src/update.rs, app.rs, init.rs; vrm/src/bone.rs;          *)
(* spring-physics/src/world.rs).                                           *)
(*                                                                         *)
(* A node's rotation has two stores: node_transforms, and for the node of  *)
(* a humanoid bone also the bone's local rotation, which wins when the     *)
(* pose is computed.  The springs write the first, the animation the       *)
(* second, and a reset copies the first to the second.                     *)
(*                                                                         *)
(* Positions are left out: the physics of a spring bone is any swing of a  *)
(* given set.  Camera tracking is left to AvatarFrame.                     *)
(***************************************************************************)
EXTENDS AvatarModel

CONSTANTS
  Avatars,      \* the avatar files, by their paths
  ClipFiles,    \* the animation files, by their paths
  Swings,       \* the swings away from its pose a spring bone may have
  Steps,        \* the times a frame may take, in ticks
  MaxReloads    \* bound: how often another animation is loaded

ASSUME AvatarsAssumption == \A f \in DOMAIN Avatars : VrmFile(Avatars[f])
ASSUME ClipFilesAssumption ==
  \A f \in DOMAIN ClipFiles : /\ ClipFiles[f].format = "glb" => GlbFile(ClipFiles[f])
                              /\ ClipFiles[f].format = "fbx" => FbxFile(ClipFiles[f])
ASSUME SwingsAssumption == Swings \subseteq Rotation
ASSUME StepsAssumption  == Steps \subseteq Nat
ASSUME ReloadsAssumption == MaxReloads \in Nat

VARIABLES
  library,      \* the clip files: what each films and loads to; it never changes
  avatar,       \* the path of the avatar's file
  model,        \* vrm_model, but for what changes: the next two
  nodeRot,      \* node_transforms: the rotation of each node
  boneRot,      \* humanoid_bones: the local rotation of each bone
  idle,         \* idle_animation
  film,         \* what the file films that idle was last asked from
  reloads,      \* how often that was
  springs,      \* spring_physics_enabled
  swung,        \* spring_world: the world rotation of each spring bone's parent
  drawn         \* compute_joint_matrices: the world rotation of each node in this pose

vars == <<library, avatar, model, nodeRot, boneRot, idle, film, reloads, springs, swung, drawn>>

NoIdle == [clip |-> NoClip, time |-> 0, enabled |-> FALSE, bind |-> <<>>]

\* The bones init.rs takes a bind rotation for: not the fingers, eyes and jaw.
BodyBones ==
  {"Hips", "Spine", "Chest", "UpperChest", "Neck", "Head"}
  \cup {s \o p : s \in Sides, p \in {"Shoulder", "UpperArm", "LowerArm", "Hand",
                                     "UpperLeg", "LowerLeg", "Foot", "Toes"}}

\* The rotation the node transforms give each bone.
FromNodes(m, rotations) ==
  [b \in DOMAIN m.humanoid |-> BoneRest(rotations, m.humanoid[b])]

BindPose == FromNodes(model, Avatars[avatar].rest)

\* load_idle_animation: a file that gives no clip leaves no animation, the
\* bind pose is taken from the node transforms as they are.
LoadIdle(m, rotations, file) ==
  LET clip == library[file].clip
  IN  IF clip = NoClip THEN NoIdle
      ELSE NewPlayer(clip, [b \in BodyBones \cap DOMAIN m.humanoid |-> FromNodes(m, rotations)[b]])

----------------------------------------------------------------------------
(* The world rotations of a pose.                                          *)

BoneAt(m, n) == {b \in DOMAIN m.humanoid : m.humanoid[b] = n}

\* compute_joint_matrices: a humanoid bone's rotation replaces its node's.  For
\* two bones on one node the hash order decides; here it is either, for good.
PoseWorld(m, rotations, bones) ==
  WorldRotations([n \in DOMAIN rotations |->
                    IF BoneAt(m, n) = {} THEN rotations[n]
                    ELSE bones[CHOOSE b \in BoneAt(m, n) : TRUE]],
                 m.parent)

\* The node the i-th spring bone's result goes to: the bone's parent.
Swung(m, i) == m.parent[m.springNodes[i]]

\* Mutant of Clean: the spring nodes keep the rotation of the last frame.
CleanKept(m, rotations, bones) == PoseWorld(m, rotations, bones)

\* The pose the springs start from: with no rotation at the spring nodes.
Clean(m, rotations, bones) ==
  PoseWorld(m, [n \in DOMAIN rotations |->
                  IF n \in ToSet(m.springNodes) THEN Identity ELSE rotations[n]], bones)

\* The saved rotations, put back: a node that is listed twice was saved as it
\* was and then as the identity.
Restored(m, rotations) ==
  [n \in DOMAIN rotations |->
     IF Cardinality({i \in DOMAIN m.springNodes : m.springNodes[i] = n}) > 1 THEN Identity
     ELSE rotations[n]]

\* spring_world.update: each bone's result, the swing applied to its parent.
Results(m, clean, swings) ==
  [i \in DOMAIN swings |-> IF Swung(m, i) = NoNode THEN Identity
                           ELSE swings[i] ** clean[Swung(m, i)]]

AboveWorld(m, clean, n) == IF m.parent[n] = NoNode THEN Identity ELSE clean[m.parent[n]]

\* Mutant of ApplyResults: the result is not made local.
ApplyResultsWorld(m, rotations, clean, results) ==
  [n \in DOMAIN rotations |->
     LET mine == {i \in DOMAIN results : Swung(m, i) = n}
     IN  IF mine = {} THEN rotations[n] ELSE results[Max(mine)]]

\* Each result becomes the local rotation of the parent node, under the clean
\* rotation of the node above that; of two results for a node the later counts.
ApplyResults(m, rotations, clean, results) ==
  [n \in DOMAIN rotations |->
     LET mine == {i \in DOMAIN results : Swung(m, i) = n}
     IN  IF mine = {} THEN rotations[n]
         ELSE Inv(AboveWorld(m, clean, n)) ** results[Max(mine)]]

----------------------------------------------------------------------------
(* The program.                                                            *)

Init ==
  /\ library = [file \in DOMAIN ClipFiles |->
                  [film |-> ClipFiles[file].film, clip |-> LoadClip(ClipFiles[file])]]
  /\ \E file \in {f \in DOMAIN Avatars : Loads(Avatars[f])} :
       /\ avatar = file
       /\ model = Load(Avatars[file])
       /\ nodeRot = Avatars[file].rest
  /\ boneRot = BindPose
  /\ \E file \in DOMAIN ClipFiles :
       /\ film = library[file].film
       /\ idle = LoadIdle(model, nodeRot, file)
  /\ reloads = 0
  /\ springs = TRUE
  /\ swung = [i \in DOMAIN model.springNodes |-> Identity]
  /\ drawn = PoseWorld(model, nodeRot, boneRot)

\* update_frame: the animation goes on and is written to the bones, the springs
\* swing from the new pose, and the pose is drawn.
Frame ==
  /\ \E dt \in Steps : idle' = Advance(idle, dt)
  /\ \E pose \in Samples(idle') :
       boneRot' = [b \in DOMAIN boneRot |-> IF b \in DOMAIN pose THEN pose[b] ELSE boneRot[b]]
  /\ IF springs
       THEN LET clean == Clean(model, nodeRot, boneRot')
            IN  /\ \E swings \in [DOMAIN swung -> Swings] :
                     swung' = Results(model, clean, swings)
                /\ nodeRot' = ApplyResults(model, Restored(model, nodeRot), clean, swung')
       ELSE UNCHANGED <<nodeRot, swung>>
  /\ drawn' = PoseWorld(model, nodeRot', boneRot')
  /\ UNCHANGED <<library, avatar, model, film, reloads, springs>>

\* reset_to_bind_pose: from the node transforms, for the bones whose node exists.
ResetToBindPose ==
  boneRot' = [b \in DOMAIN boneRot |->
                IF model.humanoid[b] \in DOMAIN nodeRot THEN nodeRot[model.humanoid[b]]
                ELSE boneRot[b]]

\* Key I, the check box and the Lua switch.
ToggleIdle ==
  /\ idle # NoIdle
  /\ idle' = [idle EXCEPT !.enabled = ~@]
  /\ IF idle.enabled THEN ResetToBindPose ELSE UNCHANGED boneRot
  /\ drawn' = PoseWorld(model, nodeRot, boneRot')
  /\ UNCHANGED <<library, avatar, model, nodeRot, film, reloads, springs, swung>>

\* Key T as it turns tracking off, and the action ResetIdlePose.
ResetPose ==
  /\ ResetToBindPose
  /\ drawn' = PoseWorld(model, nodeRot, boneRot')
  /\ UNCHANGED <<library, avatar, model, nodeRot, idle, film, reloads, springs, swung>>

\* The actions LoadIdleAnimation and BrowseIdleAnimation; the bones stay as
\* they are.
ChangeClip ==
  /\ reloads < MaxReloads
  /\ reloads' = reloads + 1
  /\ \E file \in DOMAIN ClipFiles :
       /\ film' = library[file].film
       /\ idle' = LoadIdle(model, nodeRot, file)
  /\ UNCHANGED <<library, avatar, model, nodeRot, boneRot, springs, swung, drawn>>

\* The Lua switch for the springs: the nodes stay as they are.
ToggleSprings ==
  /\ springs' = ~springs
  /\ UNCHANGED <<library, avatar, model, nodeRot, boneRot, idle, film, reloads, swung, drawn>>

Next == Frame \/ ToggleIdle \/ ResetPose \/ ChangeClip \/ ToggleSprings

Spec == Init /\ [][Next]_vars

----------------------------------------------------------------------------
(* Properties.                                                             *)

\* Where the chains of the avatar hang: every swing goes to the node of a
\* humanoid bone or to a spring node.
Anchored ==
  \A i \in DOMAIN swung :
    BoneAt(model, Swung(model, i)) # {} \/ Swung(model, i) \in ToSet(model.springNodes)

\* The VRM bones above a bone, and the nodes above a node.
BonesAbove[b \in VrmBones] ==
  IF b \in DOMAIN VrmParent THEN {VrmParent[b]} \cup BonesAbove[VrmParent[b]] ELSE {}

NodesAbove ==
  LET above[n \in DOMAIN model.parent] ==
        IF model.parent[n] = NoNode THEN {} ELSE {model.parent[n]} \cup above[model.parent[n]]
  IN  above

\* What retargeting asks of a film: the bones between two animated bones are
\* animated, and all have the same keys.
Retargetable ==
  /\ film.evenKeys
  /\ \A b \in film.bones :
       BonesAbove[b] \cap film.bones # {} => VrmParent[b] \in film.bones

\* What it asks of the avatar: the film's bones, jointed as in VRM, with no
\* rotation in the bind pose.
Wears ==
  \A b \in film.bones :
    /\ b \in DOMAIN model.humanoid
    /\ b \in DOMAIN idle.bind => idle.bind[b] = Identity
    /\ b \in DOMAIN VrmParent /\ VrmParent[b] \in film.bones =>
         model.parent[model.humanoid[b]] = model.humanoid[VrmParent[b]]

\* The world rotation the uppermost of the film's bones at or above b is under.
FilmRoot(b) ==
  LET top == CHOOSE a \in ({b} \cup BonesAbove[b]) \cap film.bones :
               BonesAbove[a] \cap film.bones = {}
  IN  AboveWorld(model, drawn, model.humanoid[top])

ShownAsFilmed ==
  idle.enabled /\ Retargetable /\ Wears =>
    \A k \in DOMAIN film.times : film.times[k] = idle.time =>
      \A b \in film.bones :
        drawn[model.humanoid[b]] = FilmRoot(b) ** ConjugateY180(film.turns[k][b])

\* At every key of the clip each animated bone is drawn turned as the source's
\* bone was turned in the world, seen from the other side; whatever the file's
\* format, the rest pose and the unanimated bones of the source, and whatever
\* the springs do: retarget_to_vrm, the player, the bone override of
\* compute_joint_matrices and the springs' writes agree.  With the formula that the
\* doc of BoneChannel gives instead (the mutant WorldDeltaSwapped) they do not.
FollowsSource == [][Frame => ShownAsFilmed']_vars

\* The pose the springs start from has nothing of the last frame's swings in
\* it, so long as every chain hangs on a humanoid bone or on a spring node: the
\* reset of the spring nodes in update_frame leaves no feedback.
NoFeedback ==
  Anchored =>
    Clean(model, nodeRot, boneRot) = Clean(model, Avatars[avatar].rest, boneRot)

SwingsDrawn ==
  LET swingers == {Swung(model, j) : j \in DOMAIN swung}
  IN  \A i \in DOMAIN swung :
        LET p == Swung(model, i)
        IN  /\ p \in Reached(model.parent) \ {NoNode}
            /\ BoneAt(model, p) = {}
            /\ \A j \in DOMAIN swung : Swung(model, j) = p => j <= i
            /\ \A a \in NodesAbove[p] :
                 BoneAt(model, a) # {} \/ a \notin swingers \cup ToSet(model.springNodes)
            => drawn'[p] = swung'[i]

\* A swing that goes to a plain node is drawn as the physics left it, in world
\* terms, unless a swung node is above or the hierarchy above is broken: what
\* ApplyResults makes local and the forward kinematics makes global again is the
\* same rotation.
FirstSwingIsDrawn == [][Frame /\ springs => SwingsDrawn]_vars

\* The loader's flat lists: a chain has the bones of its group that exist, and
\* the colliders of the groups it names and no others; a vertex of a mesh with
\* one skin that names a joint in that skin's own list names the same joint.
IndicesResolve ==
  LET file == Avatars[avatar]
      skins(mesh) == {file.shows[i].skin : i \in {j \in DOMAIN file.shows : file.shows[j].mesh = mesh}}
  IN  /\ \A c \in DOMAIN model.chains :
           LET chain == model.chains[c]
               group == file.boneGroups[chain.group]
           IN  /\ ToSet(chain.bones) = ToSet(group.bones) \cap Nodes(file)
               /\ {model.colliders[i] : i \in chain.colliders} =
                    {k \in ToSet(model.colliders) : k.group \in ToSet(group.colliderGroups)}
      /\ \A mesh \in DOMAIN model.vertices : \A skin \in skins(mesh) : skins(mesh) = {skin} =>
           \A v \in DOMAIN model.vertices[mesh] :
             LET joint == file.vertices[mesh][v]
             IN  joint \in DOMAIN file.skins[skin] =>
                   model.joints[model.vertices[mesh][v]] = file.skins[skin][joint]

\* "Reset all bone rotations and positions to their bind pose values"
\* (vrm/src/bone.rs:220): after a reset every bone has the rotation the avatar
\* was loaded with.  The springs' writes to the nodes of humanoid bones break it.
BindPoseIsBind ==
  [][ResetPose \/ (ToggleIdle /\ idle.enabled) => boneRot' = BindPose]_vars

=============================================================================
