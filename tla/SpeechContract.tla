---------------------------- MODULE SpeechContract ----------------------------
(***************************************************************************)
(* What the speech pipeline promises its callers, without queues, loops,   *)
(* flags, syntheses or players: a sentence waits, is spoken at most once   *)
(* and is over.  It is spoken in the order of the calls, in the current    *)
(* session only and never after a Stop; and two sentences are spoken at    *)
(* once only after a Stop, which cannot take back a speak under way.       *)
(* SpeakQueue implements this specification.                               *)
(***************************************************************************)
EXTENDS Naturals, FiniteSets

CONSTANTS Sessions, NoSession, MaxCalls

VARIABLES
    phase,     \* [Call -> Phase]
    session,   \* [Call -> Sessions]: what a sentence belongs to
    made,      \* [Call -> Nat]: the Stops there had been when it was called
    current,   \* the session of the last call
    stops      \* the Stops so far

vars == <<phase, session, made, current, stops>>

Call  == 1..MaxCalls
Phase == {"new", "waiting", "speaking", "over"}
Voices == {c \in Call : phase[c] = "speaking"}

Init ==
    /\ phase = [c \in Call |-> "new"]
    /\ session = [c \in Call |-> NoSession]
    /\ made = [c \in Call |-> 0]
    /\ current = NoSession
    /\ stops = 0

Falls(c)  == phase[c] = "waiting" /\ phase'[c] = "over"
Ends(c)   == phase[c] = "speaking" /\ phase'[c] = "over"

\* A sentence begins: its turn has come, and nothing before it is left waiting.
Begins(c) ==
    /\ phase[c] = "waiting" /\ phase'[c] = "speaking"
    /\ session[c] = current /\ made[c] = stops
    /\ \A d \in 1..(c - 1) :
         /\ phase'[d] # "waiting"
         /\ phase[d] = "waiting" => session[d] # current

\* A call of speakCharacter.  Sentences fall only to a call of another session.
Say(c, s) ==
    /\ phase[c] = "new" /\ \A d \in 1..(c - 1) : phase[d] # "new"
    /\ phase' \in [Call -> Phase] /\ phase'[c] \in {"waiting", "over"}
    /\ \A d \in Call \ {c} : phase'[d] = phase[d] \/ (Falls(d) /\ s # current)
    /\ session' = [session EXCEPT ![c] = s]
    /\ made' = [made EXCEPT ![c] = stops]
    /\ current' = s
    /\ UNCHANGED stops

\* Stop: nothing begins any more that was called so far.
Stop ==
    /\ stops' = stops + 1
    /\ phase' \in [Call -> Phase]
    /\ \A c \in Call : phase'[c] = phase[c] \/ Falls(c)
    /\ UNCHANGED <<session, made, current>>

\* Sentences end, fall or begin.
Turn ==
    /\ phase' \in [Call -> Phase]
    /\ \A c \in Call : phase'[c] = phase[c] \/ Falls(c) \/ Ends(c) \/ Begins(c)
    /\ (\E c \in Call : Begins(c)) => Cardinality(Voices') <= 1 + stops
    /\ UNCHANGED <<session, made, current, stops>>

Next == (\E c \in Call, s \in Sessions : Say(c, s)) \/ Stop \/ Turn

Spec == Init /\ [][Next]_vars
=============================================================================
