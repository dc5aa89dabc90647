---------------------------- MODULE CommandQueue ----------------------------
(***************************************************************************)
(* The in-process command lanes of the OpenClaw gateway                    *)
(* (openclaw/src/process/command-queue.ts).  A lane is a FIFO of entries   *)
(* and a set of active task ids bounded by maxConcurrent; every agent run  *)
(* the interaction bridge starts with chat.send passes through one.        *)
(*                                                                         *)
(* A JavaScript turn is one step: drainLane and pump run to completion     *)
(* without an await, so `draining` is FALSE between any two steps and has  *)
(* no variable.  An entry is numbered when it is enqueued and its number   *)
(* stands for the taskId it gets when it is dequeued (an entry is dequeued *)
(* at most once).  Lanes exist from the start: a lane the code has not     *)
(* created yet is one with an empty queue and the same defaults.           *)
(***************************************************************************)
EXTENDS Integers, Sequences, FiniteSets

CONSTANTS
    Lanes,          \* lane names
    ProbeLanes,     \* the lanes named auth-probe:* or session:probe-*
    Waiters,        \* concurrent callers of waitForActiveTasks
    MaxJobs,        \* bound: calls of enqueueCommandInLane
    Limits,         \* arguments of setCommandLaneConcurrency
    MaxGeneration,  \* bound: resets of a lane
    TimedChoices    \* values of "the caller passes taskTimeoutMs"

ASSUME LanesAssumption == ProbeLanes \subseteq Lanes
ASSUME BoundsAssumption ==
    /\ MaxJobs \in Nat
    /\ Limits \subseteq Int
    /\ MaxGeneration \in Nat
ASSUME TimedAssumption == TimedChoices \subseteq BOOLEAN

Job == 1..MaxJobs

VARIABLES
    queue,           \* [Lanes -> Seq(Job)]: LaneState.queue
    active,          \* [Lanes -> SUBSET Job]: LaneState.activeTaskIds
    maxConcurrent,   \* [Lanes -> Nat]
    generation,      \* [Lanes -> Nat]
    gatewayDraining, \* BOOLEAN
    nextJob,         \* the number of the next enqueue call
    jobLane,         \* [Job -> Lanes]: the lane of an entry
    jobTimed,        \* [Job -> BOOLEAN]: the entry has a taskTimeoutMs
    jobGeneration,   \* [Job -> Nat]: taskGeneration, captured by pump
    exec,            \* [Job -> ExecState]: the task function itself
    promise,         \* [Job -> PromiseState]: what the caller holds
    waiter,          \* [Waiters -> WaiterState]
    waiterIds        \* [Waiters -> SUBSET Job]: activeAtStart

lanesVars   == <<queue, active, maxConcurrent, generation, gatewayDraining>>
jobVars     == <<nextJob, jobLane, jobTimed, jobGeneration, exec, promise>>
waiterVars  == <<waiter, waiterIds>>
vars        == <<lanesVars, jobVars, waiterVars>>

ExecState    == {"idle", "running", "ended"}
PromiseState == {"none", "pending", "settled", "timedout", "cleared", "refused"}
WaiterState  == {"idle", "waiting", "drained", "expired"}

Init ==
    /\ queue = [l \in Lanes |-> <<>>]
    /\ active = [l \in Lanes |-> {}]
    /\ maxConcurrent = [l \in Lanes |-> 1]
    /\ generation = [l \in Lanes |-> 0]
    /\ gatewayDraining = FALSE
    /\ nextJob = 1
    /\ jobLane \in [Job -> Lanes]
    /\ jobTimed \in [Job -> TimedChoices]
    /\ jobGeneration = [j \in Job |-> 0]
    /\ exec = [j \in Job |-> "idle"]
    /\ promise = [j \in Job |-> "none"]
    /\ waiter = [w \in Waiters |-> "idle"]
    /\ waiterIds = [w \in Waiters |-> {}]

-----------------------------------------------------------------------------
(* drainLane and pump                                                      *)

\* Slip (see PROJECT.json, mutants): the loop admits while n <= m.
PumpCountOneMore(len, n, m) ==
    LET free == IF n <= m THEN m - n + 1 ELSE 0
    IN  IF len < free THEN len ELSE free

\* How many entries the while loop of pump shifts from a queue of length len
\* when n tasks are active and the limit is m.
PumpCount(len, n, m) ==
    LET free == IF n < m THEN m - n ELSE 0
    IN  IF len < free THEN len ELSE free

\* The entries at the first n places of q.
FirstJobs(q, n) == {q[i] : i \in 1..n}

\* What the loop does when it takes the first k[l] entries of every lane l: they
\* become active, their task functions run and they remember the generation.
StartJobs(k, q, a, g, ex) ==
    LET started(j) == j \in FirstJobs(q[jobLane[j]], k[jobLane[j]])
    IN  /\ queue' = [l \in Lanes |-> SubSeq(q[l], k[l] + 1, Len(q[l]))]
        /\ active' = [l \in Lanes |-> a[l] \cup FirstJobs(q[l], k[l])]
        /\ exec' = [j \in Job |-> IF started(j) THEN "running" ELSE ex[j]]
        /\ jobGeneration' = [j \in Job |-> IF started(j) THEN g[jobLane[j]]
                                                        ELSE jobGeneration[j]]

\* pump on every lane of D, from the queues q, active sets a, limits m,
\* generations g and task states ex that the handler has written before it.
PumpCounts(D, q, a, m) ==
    [l \in Lanes |-> IF l \in D THEN PumpCount(Len(q[l]), Cardinality(a[l]), m[l])
                                ELSE 0]

Pump(D, q, a, m, g, ex) == StartJobs(PumpCounts(D, q, a, m), q, a, g, ex)

\* Slip: every for some.
HasPendingActiveTasksEvery(ids, a) == \A j \in ids : \E l \in Lanes : j \in a[l]

\* notifyActiveTaskWaiters: every waiter none of whose ids is active in a.
HasPendingActiveTasks(ids, a) == \E l \in Lanes : ids \cap a[l] # {}

NotifyActiveTaskWaiters(a) ==
    waiter' = [w \in Waiters |->
                 IF waiter[w] = "waiting" /\ ~HasPendingActiveTasks(waiterIds[w], a)
                   THEN "drained"
                   ELSE waiter[w]]

-----------------------------------------------------------------------------
(* The exported operations                                                 *)

\* enqueueCommandInLane while the gateway drains: a rejected promise.
EnqueueRefused ==
    /\ nextJob <= MaxJobs
    /\ gatewayDraining
    /\ promise' = [promise EXCEPT ![nextJob] = "refused"]
    /\ nextJob' = nextJob + 1
    /\ UNCHANGED <<lanesVars, jobLane, jobTimed, jobGeneration, exec, waiterVars>>

\* Slip: unshift for push.
EnqueueAtFront ==
    /\ nextJob <= MaxJobs
    /\ ~gatewayDraining
    /\ LET l == jobLane[nextJob]
       IN  Pump({l}, [queue EXCEPT ![l] = <<nextJob>> \o @], active,
                maxConcurrent, generation, exec)
    /\ promise' = [promise EXCEPT ![nextJob] = "pending"]
    /\ nextJob' = nextJob + 1
    /\ UNCHANGED <<maxConcurrent, generation, gatewayDraining, jobLane,
                   jobTimed, waiterVars>>

\* enqueueCommandInLane: push the entry and drain its lane.  The arguments of
\* the calls to come (lane and timeout) are drawn in Init and read here.
Enqueue ==
    /\ nextJob <= MaxJobs
    /\ ~gatewayDraining
    /\ LET l == jobLane[nextJob]
       IN  Pump({l}, [queue EXCEPT ![l] = Append(@, nextJob)], active,
                maxConcurrent, generation, exec)
    /\ promise' = [promise EXCEPT ![nextJob] = "pending"]
    /\ nextJob' = nextJob + 1
    /\ UNCHANGED <<maxConcurrent, generation, gatewayDraining, jobLane,
                   jobTimed, waiterVars>>

\* The await in pump's async block returns for job j with the given outcome:
\* completeTask, then notify and pump when the generation still matches, then
\* resolve or reject.  ex is the state of the task function afterwards.
Release(j, outcome, ex) ==
    LET l    == jobLane[j]
        left == [active EXCEPT ![l] = @ \ {j}]
    IN  /\ promise' = [promise EXCEPT ![j] = outcome]
        /\ \/ /\ jobGeneration[j] = generation[l]
              /\ NotifyActiveTaskWaiters(left)
              /\ Pump({l}, queue, left, maxConcurrent, generation, ex)
           \/ /\ jobGeneration[j] # generation[l]
              /\ exec' = ex
              /\ UNCHANGED <<queue, active, jobGeneration, waiter>>
        /\ UNCHANGED <<maxConcurrent, generation, gatewayDraining, nextJob,
                       jobLane, jobTimed, waiterIds>>

\* The task function settles first, with a result or an error: the two
\* branches differ in logging and in the value the caller gets.
Complete(j) ==
    /\ exec[j] = "running"
    /\ promise[j] = "pending"
    /\ Release(j, "settled", [exec EXCEPT ![j] = "ended"])

\* Slip: the timeout rejects the promise but does not complete the task.
TimeoutTaskKeepsSlot(j) ==
    /\ exec[j] = "running"
    /\ promise[j] = "pending"
    /\ jobTimed[j]
    /\ promise' = [promise EXCEPT ![j] = "timedout"]
    /\ UNCHANGED <<lanesVars, nextJob, jobLane, jobTimed, jobGeneration, exec, waiterVars>>

\* The timer of runQueueEntryTask fires first; the task keeps running.
TimeoutTask(j) ==
    /\ exec[j] = "running"
    /\ promise[j] = "pending"
    /\ jobTimed[j]
    /\ Release(j, "timedout", exec)

\* A task that lost the race settles: a rejection is only logged.
LateSettle(j) ==
    /\ exec[j] = "running"
    /\ promise[j] = "timedout"
    /\ exec' = [exec EXCEPT ![j] = "ended"]
    /\ UNCHANGED <<lanesVars, nextJob, jobLane, jobTimed, jobGeneration,
                   promise, waiterVars>>

MarkGatewayDraining ==
    /\ gatewayDraining' = TRUE
    /\ UNCHANGED <<queue, active, maxConcurrent, generation, jobVars, waiterVars>>

\* Slip: no Math.max.
SetCommandLaneConcurrencyUnclamped(l, n) ==
    LET D == IF n > 0 THEN {l} ELSE {}
        m == [maxConcurrent EXCEPT ![l] = n]
    IN  /\ maxConcurrent' = m
        /\ Pump(D, queue, active, m, generation, exec)
        /\ UNCHANGED <<generation, gatewayDraining, nextJob, jobLane, jobTimed,
                       promise, waiterVars>>

\* Slip: a limit that was raised does not drain the lane.
SetCommandLaneConcurrencyUndrained(l, n) ==
    LET least == IF l \in ProbeLanes THEN 1 ELSE 0
        limit == IF n < least THEN least ELSE n
    IN  /\ maxConcurrent' = [maxConcurrent EXCEPT ![l] = limit]
        /\ UNCHANGED <<queue, active, generation, gatewayDraining, jobVars, waiterVars>>

\* setCommandLaneConcurrency: a probe lane never falls below 1.
SetCommandLaneConcurrency(l, n) ==
    LET least == IF l \in ProbeLanes THEN 1 ELSE 0
        limit == IF n < least THEN least ELSE n
        D     == IF limit > 0 THEN {l} ELSE {}
        m     == [maxConcurrent EXCEPT ![l] = limit]
    IN  /\ maxConcurrent' = m
        /\ Pump(D, queue, active, m, generation, exec)
        /\ UNCHANGED <<generation, gatewayDraining, nextJob, jobLane, jobTimed,
                       promise, waiterVars>>

\* Slip: the removed entries are not rejected.
ClearCommandLaneSilently(l) ==
    /\ queue' = [queue EXCEPT ![l] = <<>>]
    /\ UNCHANGED <<active, maxConcurrent, generation, gatewayDraining, jobVars, waiterVars>>

\* Slip: slice for splice, so the rejected entries stay in the queue.
ClearCommandLaneKeepsQueue(l) ==
    /\ promise' = [j \in Job |-> IF j \in FirstJobs(queue[l], Len(queue[l]))
                                   THEN "cleared"
                                   ELSE promise[j]]
    /\ UNCHANGED <<lanesVars, nextJob, jobLane, jobTimed, jobGeneration, exec, waiterVars>>

\* clearCommandLane: reject everything that is queued, leave what is active.
ClearCommandLane(l) ==
    /\ queue' = [queue EXCEPT ![l] = <<>>]
    /\ promise' = [j \in Job |-> IF j \in FirstJobs(queue[l], Len(queue[l]))
                                   THEN "cleared"
                                   ELSE promise[j]]
    /\ UNCHANGED <<active, maxConcurrent, generation, gatewayDraining, nextJob,
                   jobLane, jobTimed, jobGeneration, exec, waiterVars>>

\* Slips: the queued entries are not drained; the generation is not advanced;
\* the waiters are not notified.
ResetLanesUndrained(L) ==
    LET idle == [l \in Lanes |-> IF l \in L THEN {} ELSE active[l]]
    IN  /\ \A l \in L : generation[l] < MaxGeneration
        /\ generation' = [l \in Lanes |-> IF l \in L THEN generation[l] + 1 ELSE generation[l]]
        /\ active' = idle
        /\ NotifyActiveTaskWaiters(idle)
        /\ UNCHANGED <<queue, maxConcurrent, jobVars, waiterIds>>

ResetLanesSameGeneration(L) ==
    LET idle == [l \in Lanes |-> IF l \in L THEN {} ELSE active[l]]
    IN  /\ Pump({l \in L : queue[l] # <<>>}, queue, idle, maxConcurrent, generation, exec)
        /\ NotifyActiveTaskWaiters(active')
        /\ UNCHANGED <<generation, maxConcurrent, nextJob, jobLane, jobTimed, promise,
                       waiterIds>>

ResetLanesUnnotified(L) ==
    LET g    == [l \in Lanes |-> IF l \in L THEN generation[l] + 1 ELSE generation[l]]
        idle == [l \in Lanes |-> IF l \in L THEN {} ELSE active[l]]
    IN  /\ \A l \in L : generation[l] < MaxGeneration
        /\ generation' = g
        /\ Pump({l \in L : queue[l] # <<>>}, queue, idle, maxConcurrent, g, exec)
        /\ UNCHANGED <<maxConcurrent, nextJob, jobLane, jobTimed, promise, waiterVars>>

\* The common part of the two resets, on the lanes of L.
ResetLanes(L) ==
    LET g    == [l \in Lanes |-> IF l \in L THEN generation[l] + 1 ELSE generation[l]]
        idle == [l \in Lanes |-> IF l \in L THEN {} ELSE active[l]]
    IN  /\ \A l \in L : generation[l] < MaxGeneration
        /\ generation' = g
        /\ Pump({l \in L : queue[l] # <<>>}, queue, idle, maxConcurrent, g, exec)
        /\ NotifyActiveTaskWaiters(active')
        /\ UNCHANGED <<maxConcurrent, nextJob, jobLane, jobTimed, promise, waiterIds>>

\* resetCommandLane: the recovery path for one lane.
ResetCommandLane(l) ==
    /\ ResetLanes({l})
    /\ UNCHANGED gatewayDraining

\* resetAllLanes: after an in-process restart.
ResetAllLanes ==
    /\ ResetLanes(Lanes)
    /\ gatewayDraining' = FALSE

\* waitForActiveTasks.  With nothing active it resolves at once, and a
\* non-positive timeout gives up at once; otherwise the waiter is registered.
ActiveIds == UNION {active[l] : l \in Lanes}

WaitForActiveTasks(w) ==
    /\ waiter[w] # "waiting"
    /\ \/ /\ ActiveIds = {}
          /\ waiter' = [waiter EXCEPT ![w] = "drained"]
          /\ waiterIds' = [waiterIds EXCEPT ![w] = {}]
       \/ /\ ActiveIds # {}
          /\ waiter' = [waiter EXCEPT ![w] = "expired"]
          /\ waiterIds' = [waiterIds EXCEPT ![w] = {}]
       \/ /\ ActiveIds # {}
          /\ waiter' = [waiter EXCEPT ![w] = "waiting"]
          /\ waiterIds' = [waiterIds EXCEPT ![w] = ActiveIds]
    /\ UNCHANGED <<lanesVars, jobVars>>

\* The timer of waitForActiveTasks: the waiter is deleted with drained FALSE.
WaiterTimeout(w) ==
    /\ waiter[w] = "waiting"
    /\ waiter' = [waiter EXCEPT ![w] = "expired"]
    /\ waiterIds' = [waiterIds EXCEPT ![w] = {}]
    /\ UNCHANGED <<lanesVars, jobVars>>

Next ==
    \/ EnqueueRefused
    \/ Enqueue
    \/ \E j \in Job : Complete(j) \/ TimeoutTask(j) \/ LateSettle(j)
    \/ MarkGatewayDraining
    \/ \E l \in Lanes, n \in Limits : SetCommandLaneConcurrency(l, n)
    \/ \E l \in Lanes : ClearCommandLane(l) \/ ResetCommandLane(l)
    \/ ResetAllLanes
    \/ \E w \in Waiters : WaitForActiveTasks(w) \/ WaiterTimeout(w)

Spec == Init /\ [][Next]_vars

\* Fairness of the timers alone: a task function may hang forever (a model
\* call, a shell command), a setTimeout callback may not.
FairSpec == Spec /\ \A j \in Job : WF_vars(TimeoutTask(j))

-----------------------------------------------------------------------------
(* The contract of a lane                                                  *)

\* A command as its caller sees it.  A slot is held by the active entries only:
\* after a timeout or a reset the task may go on without one.
Status ==
    [j \in Job |->
        IF promise[j] = "none" THEN "new"
        ELSE IF promise[j] \in {"cleared", "refused"} THEN "dropped"
        ELSE IF j \in active[jobLane[j]] THEN "holding"
        ELSE IF exec[j] = "idle" THEN "waiting"
        ELSE "released"]

Contract == INSTANCE LaneContract
    WITH status <- Status, cap <- maxConcurrent, laneOf <- jobLane

-----------------------------------------------------------------------------
(* Properties                                                              *)

Queued(l) == FirstJobs(queue[l], Len(queue[l]))

TypeOK ==
    /\ queue \in [Lanes -> Seq(Job)]
    /\ active \in [Lanes -> SUBSET Job]
    /\ maxConcurrent \in [Lanes -> Nat]
    /\ generation \in [Lanes -> Nat]
    /\ gatewayDraining \in BOOLEAN
    /\ nextJob \in 1..(MaxJobs + 1)
    /\ jobLane \in [Job -> Lanes]
    /\ jobTimed \in [Job -> BOOLEAN]
    /\ jobGeneration \in [Job -> Nat]
    /\ exec \in [Job -> ExecState]
    /\ promise \in [Job -> PromiseState]
    /\ waiter \in [Waiters -> WaiterState]
    /\ waiterIds \in [Waiters -> SUBSET Job]

\* Work conservation: an entry waits only while its lane is full.  Nothing
\* polls a lane, so an operation that forgot to drain would strand the entry
\* until the next enqueue (the hazard the comment on resetAllLanes names).
NoIdleSlotWhileQueued ==
    \A l \in Lanes : queue[l] # <<>> => Cardinality(active[l]) >= maxConcurrent[l]

\* No slot leaks and none is released twice: the active ids of a lane are
\* exactly its unsettled running entries of the current generation, whatever
\* timeouts, late settlements and completions of reset generations happened.
ActiveSlotsExact ==
    \A l \in Lanes :
        active[l] = {j \in Job : /\ jobLane[j] = l
                                 /\ exec[j] = "running"
                                 /\ promise[j] = "pending"
                                 /\ jobGeneration[j] = generation[l]}

\* No command is lost: a caller still waiting on its promise has an entry that
\* is queued on its own lane or a task that is running, never neither or both.
NoLostCommand ==
    \A j \in Job : promise[j] = "pending" =>
        \/ j \in Queued(jobLane[j]) /\ exec[j] = "idle"
        \/ j \notin Queued(jobLane[j]) /\ exec[j] = "running"

\* FIFO: an entry that has started was enqueued before all that still wait on
\* its lane, and the queue itself is in order of arrival.
StartedInOrder ==
    \A l \in Lanes :
        /\ \A i, k \in 1..Len(queue[l]) : i < k => queue[l][i] < queue[l][k]
        /\ \A j \in Job, i \in Queued(l) :
              jobLane[j] = l /\ exec[j] # "idle" => j < i

\* A command whose caller was told that it was cleared or refused has not run
\* and never will, whatever drains, resets or new limits come later: the caller
\* may issue it again without having it done twice.
CalledOffNeverRuns ==
    \A j \in Job : promise[j] \in {"cleared", "refused"} => exec[j] = "idle"

\* A registered waiter still waits for something: notifyActiveTaskWaiters is
\* called wherever the last of its ids can leave, so it is never stranded.
WaiterHasPendingTask ==
    \A w \in Waiters : waiter[w] = "waiting" =>
        HasPendingActiveTasks(waiterIds[w], active)

\* A waiter told drained: true had each of its tasks settled for the caller,
\* or force-released by a reset of the task's lane.
DrainedIsEarned ==
    \A w \in Waiters : waiter[w] = "drained" =>
        \A j \in waiterIds[w] :
            promise[j] # "pending" \/ jobGeneration[j] < generation[jobLane[j]]

\* A step that starts work on a lane leaves it within its limit, even when
\* the limit was lowered under running tasks or the lane was reset.
LimitRespectedOnStart ==
    [][\A l \in Lanes : active'[l] \ active[l] # {} =>
           Cardinality(active'[l]) <= maxConcurrent'[l]]_vars

\* A lane whose entries carry a timeout cannot be blocked by tasks that hang:
\* every entry leaves the queue unless its lane is paused (limit 0).
TimedLaneNeverBlocks ==
    \A j \in Job :
        (promise[j] = "pending" /\ exec[j] = "idle")
            ~> (exec[j] # "idle" \/ promise[j] # "pending"
                    \/ maxConcurrent[jobLane[j]] = 0)

\* The queues, generations, timers and resets implement the lane contract: every
\* step is one that LaneContract allows, or leaves its view of the lanes as it is.
ContractHonoured == Contract!Spec
=============================================================================
