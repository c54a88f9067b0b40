-------------------------- MODULE MCAvatarFrame --------------------------
(* The frame loop and the tracker on a short session.                      *)
EXTENDS AvatarFrame

\* Nothing in view; the face and one hand; the whole body.  Every pair of parts
\* is told apart, and each part comes and goes.
MCDetections == {{}, {"face", "left_hand"}, {"face", "pose", "right_hand"}}

\* The clips of the repository have no finger channels for the hands here: one
\* hand is left to the tracker alone, and the torso and "other" to the clip.
MCIdleBones == {"torso", "arms", "left_hand", "other"}

\* Lua flips the tracking switch, or goes from the face alone to the arms and
\* hands alone and back.
MCLuaChanges == {{}, {"tracking"}, {"face", "arm", "hand"}}

==========================================================================
