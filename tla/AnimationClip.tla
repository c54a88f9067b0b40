---------------------------- MODULE AnimationClip ---------------------------
(***************************************************************************)
(* vrm/src/animation.rs and animation_player.rs: an animation made for a   *)
(* Mixamo skeleton, read from a glTF or an FBX file, becomes one channel   *)
(* of local turns per VRM bone, and a player samples them.                 *)
(*                                                                         *)
(* Times are in ticks and rise within a channel, so that its last time is  *)
(* its greatest.  A node's name is its Mixamo name without the optional    *)
(* prefix "mixamorig:".  0 is "no node" and "no parent".                   *)
(***************************************************************************)
EXTENDS Rotations, SequencesExt

NoNode == 0
NoClip == [channels |-> <<>>, duration |-> 0]

\* A glTF document as the importer gives it.
GlbFile(file) ==
  LET nodes == DOMAIN file.rest
  IN  /\ IsFiniteSet(nodes) /\ nodes \subseteq Nat \ {NoNode}
      /\ file.rest \in [nodes -> Rotation]
      /\ file.parent \in [nodes -> nodes \cup {NoNode}]
      /\ file.channels \in Seq([property : STRING, node : nodes, readable : BOOLEAN,
                                times : Seq(Nat), rots : Seq(Rotation)])

\* An FBX document: angles are in quarter turns, objects and links have numbers.
FbxFile(file) ==
  LET euler == [1..3 -> Int]
  IN  /\ IsFiniteSet(DOMAIN file.models) /\ DOMAIN file.models \subseteq Nat \ {NoNode}
      /\ file.models \in [DOMAIN file.models -> [name : STRING, pre : euler, lcl : euler]]
      /\ IsFiniteSet(file.curveNodes)
      /\ file.curves \in [DOMAIN file.curves -> [times : Seq(Nat), values : Seq(Int)]]
      /\ file.links \in Seq([kind : STRING, child : Nat, parent : Nat, label : STRING])

----------------------------------------------------------------------------
(* Names.                                                                  *)

Sides == {"Left", "Right"}

\* The function whose graph is a set of pairs.
Table(pairs) == [key \in {p[1] : p \in pairs} |-> (CHOOSE p \in pairs : p[1] = key)[2]]

\* build_vrm_bone_parent_map.
VrmParent ==
  LET trunk == {<<"Spine", "Hips">>, <<"Chest", "Spine">>, <<"UpperChest", "Chest">>,
                <<"Neck", "UpperChest">>, <<"Head", "Neck">>, <<"Jaw", "Head">>}
      sided == {<<"UpperArm", "Shoulder">>, <<"LowerArm", "UpperArm">>, <<"Hand", "LowerArm">>,
                <<"LowerLeg", "UpperLeg">>, <<"Foot", "LowerLeg">>, <<"Toes", "Foot">>}
               \cup UNION {{<<f \o "Proximal", "Hand">>, <<f \o "Intermediate", f \o "Proximal">>,
                            <<f \o "Distal", f \o "Intermediate">>} :
                           f \in {"Thumb", "Index", "Middle", "Ring", "Little"}}
      onTrunk == {<<"Shoulder", "UpperChest">>, <<"UpperLeg", "Hips">>, <<"Eye", "Head">>}
  IN  Table(trunk \cup {<<s \o p[1], s \o p[2]>> : s \in Sides, p \in sided}
                  \cup {<<s \o p[1], p[2]>> : s \in Sides, p \in onTrunk})

\* mixamo_to_vrm; a name that is not in its domain is not a VRM bone.
MixamoToVrm ==
  LET trunk == {<<"Hips", "Hips">>, <<"Spine", "Spine">>, <<"Spine1", "Chest">>,
                <<"Spine2", "UpperChest">>, <<"Neck", "Neck">>, <<"Head", "Head">>}
      sided == {<<"Shoulder", "Shoulder">>, <<"Arm", "UpperArm">>, <<"ForeArm", "LowerArm">>,
                <<"Hand", "Hand">>, <<"UpLeg", "UpperLeg">>, <<"Leg", "LowerLeg">>,
                <<"Foot", "Foot">>, <<"ToeBase", "Toes">>}
               \cup {<<"Hand" \o f \o p[1], (IF f = "Pinky" THEN "Little" ELSE f) \o p[2]>> :
                       f \in {"Thumb", "Index", "Middle", "Ring", "Pinky"},
                       p \in {<<"1", "Proximal">>, <<"2", "Intermediate">>, <<"3", "Distal">>}}
  IN  Table(trunk \cup {<<s \o p[1], s \o p[2]>> : s \in Sides, p \in sided})

----------------------------------------------------------------------------
(* Forward kinematics.                                                     *)

\* The nodes the passes over the hierarchy reach: a broken hierarchy is left
\* out and keeps the identity.
Reached(parent) ==
  LET after[pass \in 0..Cardinality(DOMAIN parent)] ==
        IF pass = 0 THEN {NoNode}
        ELSE LET before == after[pass - 1]
             IN  {NoNode} \cup {n \in DOMAIN parent : parent[n] \in before}
  IN  after[Cardinality(DOMAIN parent)]

\* compute_world_rotations.
WorldRotations(local, parent) ==
  LET reached == Reached(parent)
      world[n \in DOMAIN parent] ==
        IF n \notin reached THEN Identity
        ELSE IF parent[n] = NoNode THEN local[n]
        ELSE world[parent[n]] ** local[n]
  IN  world

----------------------------------------------------------------------------
(* Retargeting.                                                            *)

\* Conjugation by a half turn about Y: the sources face the other way.
ConjugateY180(r) == HalfY ** r ** HalfY

\* Mutant of WorldDelta: the rest pose taken off on the other side.  It is the
\* formula of the doc comment, `delta = mixamo_world_rest_inv * mixamo_world_anim`
\* (animation.rs 11-12), which the code does not follow (line 542).
WorldDeltaSwapped(world, rest) == ConjugateY180(Inv(rest) ** world)

\* How far a node has turned from its rest, seen from the avatar, in the order
\* of the code.
WorldDelta(world, rest) == ConjugateY180(world ** Inv(rest))

\* The turn of a bone under the turn of its VRM parent, which is what a channel
\* stores (the comments at lines 11, 19 and 28 call it a world-space one).  A
\* parent that is not animated counts as not turned, whatever is above it.
LocalDelta(deltas, above, n) ==
  IF above = NoNode THEN deltas[n] ELSE Inv(deltas[above]) ** deltas[n]

\* The skeleton in its k-th frame; a node with fewer keys is at rest.
FrameLocal(skeleton, channels, k) ==
  [n \in DOMAIN skeleton.parent |->
     IF n \in DOMAIN channels /\ k <= Len(channels[n].rots) THEN channels[n].rots[k]
     ELSE skeleton.rest[n]]

\* retarget_to_vrm: frames are matched by their number, not by their time.  The
\* channels of the clip stand under their nodes, in whose order they are.
Retarget(skeleton, channels, duration) ==
  LET bones     == {n \in DOMAIN channels : skeleton.name[n] \in DOMAIN MixamoToVrm}
      bone(n)   == MixamoToVrm[skeleton.name[n]]
      above(n)  == LET ps == {p \in bones : /\ bone(n) \in DOMAIN VrmParent
                                            /\ bone(p) = VrmParent[bone(n)]}
                   IN  IF ps = {} THEN NoNode ELSE Max(ps)
      frames    == Max({0} \cup {Len(channels[n].times) : n \in DOMAIN channels})
      worldRest == WorldRotations(skeleton.rest, skeleton.parent)
      deltas    == [k \in 1..frames |->
                      LET world == WorldRotations(FrameLocal(skeleton, channels, k), skeleton.parent)
                      IN  [n \in bones |-> WorldDelta(world[n], worldRest[n])]]
  IN  IF frames = 0 THEN NoClip
      ELSE [channels |-> [n \in {m \in bones : channels[m].times # <<>>} |->
                            [bone  |-> bone(n),
                             times |-> channels[n].times,
                             rots  |-> [k \in 1..frames |-> LocalDelta(deltas[k], above(n), n)]]],
            duration |-> duration]

\* The last of a sequence's members that satisfy a condition.
LastWith(s, Ok(_)) == s[Max({i \in DOMAIN s : Ok(s[i])})]

Duration(channels) ==
  Max({0} \cup {Last(channels[n].times) : n \in {m \in DOMAIN channels : channels[m].times # <<>>}})

\* load_glb: of two channels for a node the later one counts; a channel without
\* readable keys is left out.
LoadGlb(file) ==
  LET turns    == {i \in DOMAIN file.channels : /\ file.channels[i].property = "rotation"
                                                /\ file.channels[i].readable}
      channels == [n \in {file.channels[i].node : i \in turns} |->
                     file.channels[Max({i \in turns : file.channels[i].node = n})]]
      skeleton == [name |-> file.name, rest |-> file.rest, parent |-> file.parent]
  IN  Retarget(skeleton, channels, Duration([i \in turns |-> file.channels[i]]))

----------------------------------------------------------------------------
(* FBX: models, curves, curve nodes and the links between them.            *)

\* euler_xyz_to_quat, in quarter turns: X first, then Y, then Z.
EulerXyz(e) == Turns(TurnZ, e[3]) ** Turns(TurnY, e[2]) ** Turns(TurnX, e[1])

\* Curves with keys, and one value per key.
Curves(file) == {c \in DOMAIN file.curves : /\ file.curves[c].times # <<>>
                                            /\ Len(file.curves[c].times) = Len(file.curves[c].values)}

\* The three tables made from the connections: model to parent, curve node to
\* model and curve to curve node; of two links from a child the later counts.
FbxLinks(file) ==
  LET models == DOMAIN file.models
      pick(children, parents, kinds) ==
        LET ok(l)  == l.kind \in kinds /\ l.child \in children /\ l.parent \in parents
            linked == {c \in children : \E i \in DOMAIN file.links : ok(file.links[i]) /\ file.links[i].child = c}
        IN  [c \in linked |-> LastWith(file.links, LAMBDA l : ok(l) /\ l.child = c)]
  IN  [parent  |-> pick(models, models, {"OO"}),
       ofModel |-> pick(file.curveNodes, models, {"OP"}),
       ofNode  |-> pick(Curves(file), file.curveNodes, {"OP", "OO"})]

\* FBX local rotation = PreRotation * LclRotation.
FbxLocal(model, lcl) == EulerXyz(model.pre) ** EulerXyz(lcl)

\* The keys of one curve node: an axis without a k-th value keeps the model's
\* own; the time is that of the first axis that has a k-th key.
FbxChannel(file, model, axes) ==
  LET curve(a)  == file.curves[axes[a]]
      has(k)    == {a \in DOMAIN axes : k <= Len(curve(a).values)}
      keys      == Max({Len(curve(a).values) : a \in DOMAIN axes})
      lcl(k)    == [a \in 1..3 |-> IF a \in has(k) THEN curve(a).values[k] ELSE model.lcl[a]]
  IN  [times |-> [k \in 1..keys |-> curve(Min(has(k))).times[k]],
       rots  |-> [k \in 1..keys |-> FbxLocal(model, lcl(k))]]

\* load_fbx.  The hash tables give the models no order; the retargeting's order
\* matters only to two models for one bone.
LoadFbx(file) ==
  LET links    == FbxLinks(file)
      models   == DOMAIN file.models
      skeleton == [name   |-> [m \in models |-> file.models[m].name],
                   rest   |-> [m \in models |-> FbxLocal(file.models[m], file.models[m].lcl)],
                   parent |-> [m \in models |-> IF m \in DOMAIN links.parent
                                                THEN links.parent[m].parent ELSE NoNode]]
      axisOf   == [X |-> 1, Y |-> 2, Z |-> 3]
      axes(cn) == LET mine == {c \in DOMAIN links.ofNode : links.ofNode[c].parent = cn
                                                           /\ links.ofNode[c].label \in DOMAIN axisOf}
                  IN  Table({<<axisOf[links.ofNode[c].label], c>> : c \in mine})
      turning  == {cn \in DOMAIN links.ofModel : links.ofModel[cn].label = "Rotation"
                                                 /\ DOMAIN axes(cn) # {}}
      made     == [cn \in turning |-> FbxChannel(file, file.models[links.ofModel[cn].parent], axes(cn))]
      channels == [m \in {links.ofModel[cn].parent : cn \in turning} |->
                     made[CHOOSE cn \in turning : links.ofModel[cn].parent = m]]
  IN  Retarget(skeleton, channels, Duration(made))

\* AnimationClip::load: by the file's extension.
LoadClip(file) ==
  CASE file.format = "glb" -> LoadGlb(file)
    [] file.format = "fbx" -> LoadFbx(file)
    [] OTHER               -> NoClip

----------------------------------------------------------------------------
(* The player.                                                             *)

NewPlayer(clip, bind) == [clip |-> clip, time |-> 0, enabled |-> TRUE, bind |-> bind]

\* update: a looping clip starts again; a clip without length stays at its start.
Advance(player, dt) ==
  IF ~player.enabled THEN player
  ELSE [player EXCEPT !.time = IF player.clip.duration > 0
                               THEN (@ + dt) % player.clip.duration
                               ELSE 0]

\* sample_rotation.  Between two keys the rotation lies between theirs: here it
\* is either of them.  From the last time on it is the last rotation.
SampleRotation(times, rots, t) ==
  IF t <= times[1] THEN {rots[1]}
  ELSE IF t >= Last(times) THEN {Last(rots)}
  ELSE IF t \in ToSet(times) THEN {rots[k] : k \in {j \in DOMAIN times : times[j] = t}}
  ELSE LET k == Max({j \in DOMAIN times : times[j] < t}) IN {rots[k], rots[k + 1]}

\* sample: final = bind * delta; a bone without a bind rotation takes the delta.
\* Of two channels for a bone the later one counts.
Samples(player) ==
  LET channels == player.clip.channels
      bones    == {channels[n].bone : n \in DOMAIN channels}
      bind(b)  == IF b \in DOMAIN player.bind THEN player.bind[b] ELSE Identity
      poses(b) == LET c == channels[Max({n \in DOMAIN channels : channels[n].bone = b})]
                  IN  {bind(b) ** r : r \in SampleRotation(c.times, c.rots, player.time)}
  IN  IF ~player.enabled THEN {<<>>}
      ELSE {pose \in [bones -> UNION {poses(b) : b \in bones}] :
              \A b \in bones : pose[b] \in poses(b)}

=============================================================================
