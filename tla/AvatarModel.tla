----------------------------- MODULE AvatarModel ----------------------------
(***************************************************************************)
(* Loading an avatar: vrm/src/loader.rs with the parts of bone.rs and      *)
(* spring_bone.rs it calls.  The file is a record of what the loader       *)
(* reads, its indices counted from 1; what it builds is the VrmModel: the  *)
(* hierarchy, the humanoid bones, the flat list of skin joints and the     *)
(* spring chains with their colliders.                                     *)
(***************************************************************************)
EXTENDS AnimationClip

\* HumanoidBoneName: the 55 bones.
VrmBones == {"Hips"} \cup DOMAIN VrmParent

Nodes(file) == DOMAIN file.rest

\* A VRM document: the lists the loader walks.
VrmFile(file) ==
  /\ file.rest \in Seq(Rotation)
  /\ file.boneGroups \in Seq([bones : Seq(Nat), colliderGroups : Seq(Nat)])
  /\ file.colliderGroups \in Seq([node : Nat, size : Nat])
  /\ file.skins \in Seq(Seq(Nat))
  /\ file.shows \in Seq([mesh : Nat, skin : DOMAIN file.skins])

\* node_parents: of two nodes that list a child the later is its parent.
NodeParents(file) ==
  [n \in Nodes(file) |->
     Max({NoNode} \cup {p \in Nodes(file) : n \in ToSet(file.children[p])})]

\* HumanoidBones::from_vrm_json: unknown names are left out, a later entry
\* replaces an earlier one.
Humanoid(file) ==
  [b \in {e.bone : e \in ToSet(file.humanBones)} \cap VrmBones |->
     LastWith(file.humanBones, LAMBDA e : e.bone = b).node]

\* A bone's rotation in the node transforms, the identity for a node there is not.
BoneRest(rotations, n) == IF n \in DOMAIN rotations THEN rotations[n] ELSE Identity

\* Of a row of lists laid end to end, how many members come before each; at
\* the end, how many there are.
Starts(sizes) ==
  LET start[i \in 1..Len(sizes) + 1] == IF i = 1 THEN 0 ELSE start[i - 1] + sizes[i - 1]
  IN  start

\* skin_offsets: where a skin's joints begin in the flat list.
SkinOffset(file, skin) == Starts([s \in DOMAIN file.skins |-> Len(file.skins[s])])[skin]

\* mesh_to_skin, then joint_offset: the skin of the last node that shows the
\* mesh, no offset without one.
JointOffset(file, mesh) ==
  LET shown == {i \in DOMAIN file.shows : file.shows[i].mesh = mesh}
  IN  IF shown = {} THEN 0 ELSE SkinOffset(file, file.shows[Max(shown)].skin)

\* The joints a mesh's vertices name, as indices into the flat list.
VertexJoints(file, mesh) ==
  [v \in DOMAIN file.vertices[mesh] |-> file.vertices[mesh][v] + JointOffset(file, mesh)]

----------------------------------------------------------------------------
(* build_spring_world.                                                     *)

\* How many colliders of a group are taken: none at a node there is not.
GroupSize(file, g) ==
  IF file.colliderGroups[g].node \in Nodes(file) THEN file.colliderGroups[g].size ELSE 0

\* all_colliders: the k-th collider of a group, at its node.
Colliders(file) ==
  IF ~file.hasSecondary THEN <<>>
  ELSE FlattenSeq([g \in DOMAIN file.colliderGroups |->
                     [k \in 1..GroupSize(file, g) |->
                        [group |-> g, nth |-> k, node |-> file.colliderGroups[g].node]]])

GroupStarts(file) == Starts([g \in DOMAIN file.colliderGroups |-> GroupSize(file, g)])

\* Mutant of ColliderRanges: a group that is skipped gets no range, which moves
\* the later ones.
ColliderRangesOfTaken(file) ==
  LET taken == SelectSeq([g \in DOMAIN file.colliderGroups |-> g],
                         LAMBDA g : file.colliderGroups[g].node \in Nodes(file))
      start == GroupStarts(file)
  IN  [i \in DOMAIN taken |-> start[taken[i]] + 1..start[taken[i] + 1]]

\* collider_group_ranges: where each group's colliders are in all_colliders.
ColliderRanges(file) ==
  LET start == GroupStarts(file)
  IN  [g \in DOMAIN file.colliderGroups |-> start[g] + 1..start[g + 1]]

\* The bones of a group whose nodes exist, in the file's order.
ChainBones(file, g) ==
  LET bones == file.boneGroups[g].bones
  IN  FlattenSeq([i \in DOMAIN bones |-> IF bones[i] \in Nodes(file) THEN <<bones[i]>> ELSE <<>>])

\* A chain: its bones, with the colliders of the groups it names.  A chain
\* without a bone is left out.
Chain(file, g) ==
  LET ranges == ColliderRanges(file)
  IN  [group     |-> g,
       bones     |-> ChainBones(file, g),
       colliders |-> UNION {ranges[h] : h \in ToSet(file.boneGroups[g].colliderGroups) \cap DOMAIN ranges}]

Chains(file) ==
  IF ~file.hasSecondary THEN <<>>
  ELSE FlattenSeq([g \in DOMAIN file.boneGroups |->
                     IF ChainBones(file, g) = <<>> THEN <<>> ELSE <<Chain(file, g)>>])

\* load fails without the humanoid bones or the blend shapes, and with a
\* secondary animation that has no bone groups.
Loads(file) ==
  file.hasHumanBones /\ file.hasBlendShapes /\ (file.hasSecondary => file.hasBoneGroups)

\* The VrmModel; springNodes are the nodes of the spring bones, chain by chain.
Load(file) ==
  LET chains == Chains(file)
  IN  [parent      |-> NodeParents(file),
       humanoid    |-> Humanoid(file),
       joints      |-> FlattenSeq(file.skins),
       vertices    |-> [mesh \in DOMAIN file.vertices |-> VertexJoints(file, mesh)],
       colliders   |-> Colliders(file),
       chains      |-> chains,
       springNodes |-> FlattenSeq([c \in DOMAIN chains |-> chains[c].bones])]

=============================================================================
