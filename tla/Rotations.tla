------------------------------ MODULE Rotations -----------------------------
(***************************************************************************)
(* The rotations of the models: the 24 turns of a cube.  They are a group  *)
(* of rotations of space with three axes that do not commute, which is all *)
(* that retargeting, forward kinematics and the spring results use of      *)
(* unit quaternions (glam::Quat).  A turn is written as the permutation of *)
(* the cube's four diagonals.                                              *)
(***************************************************************************)
EXTENDS Naturals, Sequences, FiniteSets

Diagonals == 1..4

Rotation == {p \in [Diagonals -> Diagonals] : \A d, e \in Diagonals : p[d] = p[e] => d = e}

Identity == <<1, 2, 3, 4>>

\* Quarter turns about the three axes.
TurnX == <<3, 4, 2, 1>>
TurnY == <<4, 1, 2, 3>>
TurnZ == <<2, 4, 1, 3>>

\* Composition and inverse, as functions: TLC evaluates their arguments once.
Product == [f \in Rotation \X Rotation |-> LET p == f[1] q == f[2]
                                            IN  <<p[q[1]], p[q[2]], p[q[3]], p[q[4]]>>]
Inverted ==
  [p \in Rotation |-> LET from(d) == CHOOSE e \in Diagonals : p[e] = d
                      IN  <<from(1), from(2), from(3), from(4)>>]

\* q first, then p: the product of quaternions.
p ** q == Product[<<p, q>>]
Inv(p) == Inverted[p]

\* n quarter turns of the kind of r.
Turns(r, n) ==
  LET turned[k \in 0..3] == IF k = 0 THEN Identity ELSE r ** turned[k - 1]
  IN  turned[n % 4]

HalfY == Turns(TurnY, 2)

=============================================================================
