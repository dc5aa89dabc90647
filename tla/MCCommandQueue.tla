--------------------------- MODULE MCCommandQueue ---------------------------
(***************************************************************************)
(* Small instances of CommandQueue: a normal lane and a probe lane.        *)
(***************************************************************************)
EXTENDS CommandQueue

\* A negative limit, none, and one above the initial 1.
MCLimits == {-1, 0, 2}
=============================================================================
