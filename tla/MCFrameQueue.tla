---------------------------- MODULE MCFrameQueue ----------------------------
(* FrameQueue with two frames that fit, one that does not, two closers.     *)
EXTENDS FrameQueue

CONSTANTS f1, f2, big, c1, c2

MCFrame == {f1, f2, big}
MCOversize == {big}
MCCloser == {c1, c2}
=============================================================================
