-------------------------- MODULE MCFrameHandoff --------------------------
(* A small instance of FrameHandoff. *)
EXTENDS FrameHandoff

CONSTANTS t1, t2, t3

MCThreads == {t1, t2, t3}

=============================================================================
