----------------------------- MODULE OutboxContract -----------------------------
(***************************************************************************)
(* What the outbound delivery queue promises the code that hands it a      *)
(* message, without files, claims, owners, retries or markers.  A message  *)
(* is accepted, pending, and in the end gone or set aside for a human.     *)
(* It goes only when it is out, was called off or is best effort.  A       *)
(* strict message is sent by its sender at most once, never sent again     *)
(* after that or when it is no longer pending, and sent again more than    *)
(* once only as often as a wrong error report or a crash hid the outcome.  *)
(* A notice is never strict, and no message is once the recovery has run   *)
(* out of time.  DeliveryQueue implements this specification.              *)
(***************************************************************************)
EXTENDS Naturals

CONSTANT Message

VARIABLES
    state,     \* [Message -> State]
    strict,    \* [Message -> BOOLEAN]: its owners exclude each other
    best,      \* [Message -> BOOLEAN]: best effort
    off,       \* [Message -> BOOLEAN]: called off
    sends,     \* [Message -> Nat]: by its sender, as the platform saw them
    resends,   \* [Message -> Nat]: by whoever found it pending
    wrong,     \* [Message -> Nat]: of both, reported as errors
    crashes    \* so far

vars == <<state, strict, best, off, sends, resends, wrong, crashes>>

State     == {"new", "pending", "failed", "gone"}
Copies(m) == sends[m] + resends[m]

Init ==
    /\ state = [m \in Message |-> "new"]
    /\ strict \in [Message -> BOOLEAN] /\ best \in [Message -> BOOLEAN]
    /\ off = [m \in Message |-> FALSE]
    /\ sends = [m \in Message |-> 0]
    /\ resends = [m \in Message |-> 0]
    /\ wrong = [m \in Message |-> 0]
    /\ crashes = 0

Goes(m, from, to) ==
    /\ state[m] \in from
    /\ state' = [state EXCEPT ![m] = to]
    /\ UNCHANGED <<strict, best, off, sends, resends, wrong, crashes>>

Accept(m)   == Goes(m, {"new"}, "pending")
Remove(m)   == (best[m] \/ off[m] \/ Copies(m) > 0) /\ Goes(m, {"pending"}, "gone")
SetAside(m) == Goes(m, {"pending"}, "failed")
Reappear(m) == ~strict[m] /\ Goes(m, {"failed", "gone"}, "pending")

Send(m) ==
    /\ state[m] # "new"
    /\ strict[m] => sends[m] = 0
    /\ sends' = [sends EXCEPT ![m] = @ + 1]
    /\ UNCHANGED <<state, strict, best, off, resends, wrong, crashes>>

SendAgain(m) ==
    /\ state[m] # "new"
    /\ strict[m] => /\ state[m] = "pending" /\ sends[m] = 0
                    /\ resends[m] <= wrong[m] + crashes
    /\ resends' = [resends EXCEPT ![m] = @ + 1]
    /\ UNCHANGED <<state, strict, best, off, sends, wrong, crashes>>

\* The caller calls it off, or an error is reported of a copy that is out.
Report(m) ==
    /\ state[m] # "new"
    /\ off' = off \/ off' = [off EXCEPT ![m] = TRUE]
    /\ \/ wrong' = wrong
       \/ /\ Copies(m) > 0
          /\ strict[m] => wrong[m] < Copies(m)
          /\ wrong' = [wrong EXCEPT ![m] = @ + 1]
    /\ UNCHANGED <<state, strict, best, sends, resends, crashes>>

\* The recovery runs out of time.
Relax ==
    /\ strict' = [m \in Message |-> FALSE]
    /\ UNCHANGED <<state, best, off, sends, resends, wrong, crashes>>

Crash ==
    /\ crashes' = crashes + 1
    /\ UNCHANGED <<state, strict, best, off, sends, resends, wrong>>

Next ==
    \/ \E m \in Message : Accept(m) \/ Remove(m) \/ SetAside(m) \/ Reappear(m)
    \/ \E m \in Message : Send(m) \/ SendAgain(m) \/ Report(m)
    \/ Relax \/ Crash

Spec == Init /\ [][Next]_vars
=============================================================================
