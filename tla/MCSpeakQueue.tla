----------------------------- MODULE MCSpeakQueue -----------------------------
(***************************************************************************)
(* A small instance of the speech pipeline: three calls, two sessions.     *)
(***************************************************************************)
EXTENDS SpeakQueue

CONSTANTS s1, s2

MCSessions == {s1, s2}
=============================================================================
