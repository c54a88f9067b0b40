-------------------------- MODULE MCVirtualCamera --------------------------
(* The virtual camera with one client and two sizes of the mascot window.   *)
EXTENDS VirtualCamera

\* The mascot window has the size of the camera's frames, or another one.
MCMascotSizes == {"vcam", "window"}

============================================================================
