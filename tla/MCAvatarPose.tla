---------------------------- MODULE MCAvatarPose ----------------------------
(* AvatarPose over two films in both formats and three avatars.            *)
EXTENDS AvatarPose

InOrder(nodes) ==
  [i \in 1..Cardinality(nodes) |->
     CHOOSE n \in nodes : Cardinality({m \in nodes : m < n}) = i - 1]

\* A film: a source skeleton, in quarter turns, and its keys.  What an exporter
\* makes of it is the file; film.turns is how far each bone has turned from its
\* rest in the world of the source.
Film(name, parent, pre, lcl, keys, times, even) ==
  LET nodes     == DOMAIN name
      at(n, k)  == IF n \in DOMAIN keys /\ k <= Len(keys[n]) THEN keys[n][k] ELSE lcl[n]
      local(k)  == [n \in nodes |-> EulerXyz(pre[n]) ** EulerXyz(at(n, k))]
      rest      == WorldRotations([n \in nodes |-> EulerXyz(pre[n]) ** EulerXyz(lcl[n])], parent)
      bones     == {MixamoToVrm[name[n]] : n \in DOMAIN keys}
      node(b)   == CHOOSE n \in DOMAIN keys : MixamoToVrm[name[n]] = b
  IN  [bones    |-> bones,
       times    |-> times,
       evenKeys |-> even,
       turns    |-> [k \in DOMAIN times |->
                       LET world == WorldRotations(local(k), parent)
                       IN  [b \in bones |-> world[node(b)] ** Inv(rest[node(b)])]]]

AsGlb(name, parent, pre, lcl, keys, times, even) ==
  [format   |-> "glb",
   film     |-> Film(name, parent, pre, lcl, keys, times, even),
   name     |-> name,
   parent   |-> parent,
   rest     |-> [n \in DOMAIN name |-> EulerXyz(pre[n]) ** EulerXyz(lcl[n])],
   channels |-> <<[property |-> "translation", node |-> 1, readable |-> TRUE, times |-> <<0>>, rots |-> <<>>]>>
                \o [i \in 1..Cardinality(DOMAIN keys) |->
                      LET n == InOrder(DOMAIN keys)[i]
                      IN  [property |-> "rotation", node |-> n, readable |-> TRUE,
                           times |-> SubSeq(times, 1, Len(keys[n])),
                           rots |-> [k \in DOMAIN keys[n] |-> EulerXyz(pre[n]) ** EulerXyz(keys[n][k])]]]]

\* Models are numbered from 1, curve nodes from 11, curves from 100.
AsFbx(name, parent, pre, lcl, keys, times, even) ==
  LET axis    == <<"X", "Y", "Z">>
      curve(n, a) == 100 + 3 * n + a
      links(n) ==
        (IF parent[n] = NoNode THEN <<>>
         ELSE <<[kind |-> "OO", child |-> n, parent |-> parent[n], label |-> ""]>>)
        \o (IF n \notin DOMAIN keys THEN <<>>
            ELSE <<[kind |-> "OP", child |-> 10 + n, parent |-> n, label |-> "Rotation"]>>
                 \o [a \in 1..3 |-> [kind |-> "OP", child |-> curve(n, a), parent |-> 10 + n,
                                      label |-> axis[a]]])
  IN  [format     |-> "fbx",
       film       |-> Film(name, parent, pre, lcl, keys, times, even),
       models     |-> [n \in DOMAIN name |-> [name |-> name[n], pre |-> pre[n], lcl |-> lcl[n]]],
       curveNodes |-> {10 + n : n \in DOMAIN keys},
       curves     |-> [c \in {curve(n, a) : n \in DOMAIN keys, a \in 1..3} |->
                         LET n == (c - 101) \div 3 a == c - 100 - 3 * n
                         IN  [times |-> SubSeq(times, 1, Len(keys[n])),
                              values |-> [k \in DOMAIN keys[n] |-> keys[n][k][a]]]],
       links      |-> FlattenSeq([n \in DOMAIN name |-> links(n)])]

\* An armature on its side, hips, an unanimated node, spine and chest; the
\* children come before their parents.
Names   == <<"Chest0", "Spine1", "Spine", "Hips", "Armature">>
Parents == <<3, 1, 4, 5, 0>>
Pre     == <<<<0, 1, 0>>, <<0, 0, 0>>, <<0, 0, 1>>, <<1, 0, 0>>, <<3, 0, 0>>>>
Lcl     == <<<<0, 0, 0>>, <<1, 0, 0>>, <<0, 0, 0>>, <<0, 2, 0>>, <<0, 0, 0>>>>
Walk    == (2 :> <<<<0, 1, 0>>, <<2, 0, 0>>, <<0, 0, 1>>>>)
           @@ (3 :> <<<<0, 0, 0>>, <<0, 1, 1>>, <<0, 0, 0>>>>)
           @@ (4 :> <<<<0, 0, 1>>, <<1, 0, 0>>, <<0, 1, 0>>>>)
\* Only the chest is animated, and a frame falls between its keys.
Wave    == 2 :> <<<<0, 1, 0>>, <<1, 0, 0>>>>

MCClipFiles ==
  ("walk.glb" :> AsGlb(Names, Parents, Pre, Lcl, Walk, <<0, 1, 2>>, TRUE)) @@
  ("walk.fbx" :> AsFbx(Names, Parents, Pre, Lcl, Walk, <<0, 1, 2>>, TRUE)) @@
  ("wave.glb" :> AsGlb(Names, Parents, Pre, Lcl, Wave, <<0, 2>>, TRUE)) @@
  ("walk.bvh" :> [format |-> "bvh", film |-> Film(Names, Parents, Pre, Lcl, Walk, <<0, 1, 2>>, TRUE)])

\* A turned root, hips, spine and chest, and a strand of two nodes on the chest.
Avatar ==
  [rest          |-> <<TurnX, Identity, Identity, Identity, Identity, Identity>>,
   children      |-> <<<<2>>, <<3>>, <<4>>, <<5>>, <<6>>, <<>>>>,
   hasHumanBones |-> TRUE,
   humanBones    |-> <<[bone |-> "Hips", node |-> 2], [bone |-> "Spine", node |-> 3],
                       [bone |-> "Chest", node |-> 4], [bone |-> "Tail", node |-> 5]>>,
   hasBlendShapes |-> TRUE,
   hasSecondary  |-> TRUE,
   hasBoneGroups |-> TRUE,
   colliderGroups |-> <<[node |-> 2, size |-> 1], [node |-> 9, size |-> 2], [node |-> 4, size |-> 2]>>,
   boneGroups    |-> <<[bones |-> <<5, 6, 9>>, colliderGroups |-> <<3, 4>>],
                       [bones |-> <<9>>, colliderGroups |-> <<1>>]>>,
   skins         |-> <<<<4, 3>>, <<2, 5, 6>>>>,
   shows         |-> <<[mesh |-> 1, skin |-> 1], [mesh |-> 2, skin |-> 2]>>,
   vertices      |-> <<<<1, 2>>, <<3, 1>>>>]

\* The same with the strand on a plain node of its own; and one that the loader
\* refuses.
MCAvatars ==
  [strand  |-> Avatar,
   hanging |-> [Avatar EXCEPT !.boneGroups = <<[bones |-> <<6>>, colliderGroups |-> <<1>>]>>],
   broken  |-> [Avatar EXCEPT !.hasBoneGroups = FALSE]]

MCSwings == {Identity, TurnX}
MCSteps  == {1}
=============================================================================
