---------------------------- MODULE LaneContract ----------------------------
(***************************************************************************)
(* What a command lane of the gateway promises its callers, without        *)
(* queues, task ids, generations, timers or waiters: a command waits, then *)
(* holds a slot of its lane, then has released it.  Waiting commands get   *)
(* slots in the order of the calls, never more than the lane has, and as   *)
(* soon as the lane has one.  CommandQueue implements this specification.  *)
(***************************************************************************)
EXTENDS Integers, FiniteSets

CONSTANTS Lanes, MaxJobs

VARIABLES
    status,   \* [Job -> Status]
    cap,      \* [Lanes -> Nat]: the slots of a lane
    laneOf    \* [Job -> Lanes]: the lane a command is for

vars == <<status, cap, laneOf>>

Job    == 1..MaxJobs
Status == {"new", "waiting", "holding", "released", "dropped"}

On(l)         == {j \in Job : laneOf[j] = l}
With(l, s, x) == {j \in On(l) : s[j] = x}

\* A command waits only while its lane is full.
Eager ==
    \A l \in Lanes :
        With(l, status, "waiting") # {} => Cardinality(With(l, status, "holding")) >= cap[l]

Init ==
    /\ status = [j \in Job |-> "new"]
    /\ cap \in [Lanes -> Nat]
    /\ laneOf \in [Job -> Lanes]

\* From the statuses s, slots are given to waiting commands: in order, within
\* the limit, and until the lane is full or nothing waits.
Promoted(s, j) == s[j] = "waiting" /\ status'[j] = "holding"

Promote(s) ==
    /\ status' \in [Job -> Status]
    /\ \A j \in Job : status'[j] = s[j] \/ Promoted(s, j)
    /\ \A j, k \in Job :
         j < k /\ laneOf[j] = laneOf[k] /\ Promoted(s, k) => status'[j] # "waiting"
    /\ \A l \in Lanes :
         (\E j \in On(l) : Promoted(s, j)) =>
             Cardinality(With(l, status', "holding")) <= cap'[l]
    /\ Eager'

\* A call of enqueueCommandInLane, in the order of the numbers.
Submit(j) ==
    /\ status[j] = "new"
    /\ \A i \in Job : i < j => status[i] # "new"
    /\ Promote([status EXCEPT ![j] = "waiting"])
    /\ UNCHANGED <<cap, laneOf>>

\* A call while the gateway drains.
Refuse(j) ==
    /\ status[j] = "new"
    /\ \A i \in Job : i < j => status[i] # "new"
    /\ status' = [status EXCEPT ![j] = "dropped"]
    /\ UNCHANGED <<cap, laneOf>>

\* Commands of H let go of their slots, whether they ended or were given up.
Release(H) ==
    /\ \A j \in H : status[j] = "holding"
    /\ Promote([j \in Job |-> IF j \in H THEN "released" ELSE status[j]])
    /\ UNCHANGED <<cap, laneOf>>

Resize(l) ==
    /\ cap' \in [Lanes -> Nat]
    /\ \A m \in Lanes \ {l} : cap'[m] = cap[m]
    /\ Promote(status)
    /\ UNCHANGED laneOf

Clear(l) ==
    /\ status' = [j \in Job |-> IF j \in With(l, status, "waiting") THEN "dropped"
                                                                  ELSE status[j]]
    /\ UNCHANGED <<cap, laneOf>>

Next ==
    \/ \E j \in Job : Submit(j) \/ Refuse(j) \/ Release({j})
    \/ \E L \in SUBSET Lanes : Release({j \in Job : laneOf[j] \in L /\ status[j] = "holding"})
    \/ \E l \in Lanes : Resize(l) \/ Clear(l)

Spec == Init /\ [][Next]_vars
=============================================================================
