----------------------------- MODULE MCDirLock -----------------------------
(***************************************************************************)
(* DirLock with few processes and lock files: the instance is all in the   *)
(* configuration.  Symmetry is not used, for liveness is checked.          *)
(***************************************************************************)
EXTENDS DirLock
=============================================================================
