----------------------------- MODULE MCFrameSync -----------------------------
(* FrameSync on small instances. *)
EXTENDS FrameSync
=============================================================================
