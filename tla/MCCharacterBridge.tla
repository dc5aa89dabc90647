-------------------------- MODULE MCCharacterBridge --------------------------
(***************************************************************************)
(* A small instance of the character hub: two senders that may broadcast   *)
(* at the same time, the first of them twice, and a display that may be    *)
(* slow.  Any of the three may leave or break.                             *)
(***************************************************************************)
EXTENDS CharacterBridge

CONSTANTS c1, c2, c3

MCClients  == {c1, c2, c3}
MCSenders  == {c1, c2}
MCSlow     == {c3}
MCMaxSends == [c \in MCSenders |-> IF c = c1 THEN 2 ELSE 1]
=============================================================================
