---------------------------- MODULE MCLuaOverlay ----------------------------
(* Two lists of tasks for TLC: a task that moves up a place in the other,  *)
(* which comes second.                                                     *)
EXTENDS LuaOverlay

Long    == <<"a", "b">>
MCLists == {Long, <<"b">>}

MCInit == OverlayInit /\ server = Long
MCSpec == MCInit /\ [][OverlayNext]_overlayVars

=============================================================================
