------------------------- MODULE LaneContractProofs -------------------------
(***************************************************************************)
(* CommandQueue implements LaneContract, for every set of lanes and every  *)
(* bound.  View is Status as a function of what a handler has written when *)
(* it calls pump, so that one lemma about pump serves every operation, as  *)
(* Shape does in CommandQueueProofs.                                       *)
(***************************************************************************)
EXTENDS CommandQueueProofs

View(p, a, ex) ==
    [j \in Job |->
        IF p[j] = "none" THEN "new"
        ELSE IF p[j] \in {"cleared", "refused"} THEN "dropped"
        ELSE IF j \in a[jobLane[j]] THEN "holding"
        ELSE IF ex[j] = "idle" THEN "waiting"
        ELSE "released"]

\* What IInv leaves out and the contract needs: an entry that was settled had
\* started, and calls are numbered in order.
Settled ==
    \A j \in Job : /\ promise[j] \in {"settled", "timedout"} => exec[j] # "idle"
                   /\ j < nextJob => promise[j] # "none"

-----------------------------------------------------------------------------
(* The strengthened invariant                                              *)

\* pump either starts a task or leaves its state as the handler wrote it.
LEMMA PumpStarts ==
    ASSUME NEW D, NEW q, NEW a, NEW m, NEW g, NEW ex, Pump(D, q, a, m, g, ex)
    PROVE  \A j \in Job : exec'[j] = "running" \/ exec'[j] = ex[j]
BY DEF Pump, StartJobs

\* Settled holds initially: no call has been made.
LEMMA SettledInit == Init => Settled
<1>1. \A j \in Job : j \in Nat /\ j >= 1
  BY BoundsAssumption DEF Job
<1> QED BY <1>1 DEF Init, Settled

\* A task that completes or times out keeps Settled: it was running.
LEMMA ReleaseSettled ==
    ASSUME IInv, Settled, NEW j \in Job, NEW outcome \in {"settled", "timedout"},
           NEW ex \in [Job -> ExecState], ex[j] # "idle",
           \A i \in Job : i # j => ex[i] = exec[i],
           Release(j, outcome, ex)
    PROVE  Settled'
<1>1. promise \in [Job -> PromiseState]
  BY DEF IInv, TypeOK
<1>2. promise' = [promise EXCEPT ![j] = outcome] /\ nextJob' = nextJob
  BY DEF Release
<1>3. \A i \in Job : exec'[i] = "running" \/ exec'[i] = ex[i]
  <2>1. CASE Pump({jobLane[j]}, queue, [active EXCEPT ![jobLane[j]] = @ \ {j}],
                  maxConcurrent, generation, ex)
    BY <2>1, PumpStarts
  <2>2. CASE exec' = ex
    BY <2>2
  <2> QED BY <2>1, <2>2 DEF Release
<1>4. ASSUME NEW i \in Job
      PROVE  /\ promise'[i] \in {"settled", "timedout"} => exec'[i] # "idle"
             /\ i < nextJob' => promise'[i] # "none"
  <2>1. CASE i = j
    BY <1>1, <1>2, <1>3, <2>1
  <2>2. CASE i # j
    BY <1>1, <1>2, <1>3, <2>2 DEF Settled
  <2> QED BY <2>1, <2>2
<1> QED BY <1>4 DEF Settled

\* Every operation keeps Settled.
LEMMA NextSettled == ASSUME IInv, Settled, Next PROVE Settled'
<1>1. /\ promise \in [Job -> PromiseState]
      /\ exec \in [Job -> ExecState]
      /\ nextJob \in Nat
      /\ Job \subseteq Nat
  BY BoundsAssumption DEF IInv, TypeOK, Job
<1>2. CASE EnqueueRefused \/ Enqueue
  <2>1. \A j \in Job : exec'[j] = "running" \/ exec'[j] = exec[j]
    BY <1>2, PumpStarts DEF EnqueueRefused, Enqueue
  <2>2. PICK x \in {"refused", "pending"} :
           promise' = [promise EXCEPT ![nextJob] = x] /\ nextJob' = nextJob + 1
    BY <1>2 DEF EnqueueRefused, Enqueue
  <2>3. ASSUME NEW j \in Job
        PROVE  /\ promise'[j] \in {"settled", "timedout"} => exec'[j] # "idle"
               /\ j < nextJob' => promise'[j] # "none"
    <3>1. CASE j = nextJob
      BY <1>1, <2>2, <3>1
    <3>2. CASE j # nextJob
      <4>1. promise'[j] = promise[j]
        BY <1>1, <2>2, <3>2
      <4>2. j < nextJob' => j < nextJob
        BY <1>1, <2>2, <3>2
      <4> QED BY <2>1, <4>1, <4>2 DEF Settled
    <3> QED BY <3>1, <3>2
  <2> QED BY <2>3 DEF Settled
<1>3. ASSUME NEW j \in Job, Complete(j) PROVE Settled'
  <2> DEFINE ex == [exec EXCEPT ![j] = "ended"]
  <2>1. /\ ex \in [Job -> ExecState] /\ ex[j] # "idle"
        /\ \A i \in Job : i # j => ex[i] = exec[i]
    BY <1>1 DEF ExecState
  <2>2. Release(j, "settled", ex)
    BY <1>3 DEF Complete
  <2> HIDE DEF ex
  <2> QED BY <2>1, <2>2, ReleaseSettled
<1>4. ASSUME NEW j \in Job, TimeoutTask(j) PROVE Settled'
  <2>1. exec[j] = "running" /\ Release(j, "timedout", exec)
    BY <1>4 DEF TimeoutTask
  <2> QED BY <1>1, <2>1, ReleaseSettled
<1>5. ASSUME NEW j \in Job, LateSettle(j) PROVE Settled'
  BY <1>1, <1>5 DEF LateSettle, Settled
<1>6. CASE MarkGatewayDraining \/ \E w \in Waiters : WaitForActiveTasks(w) \/ WaiterTimeout(w)
  BY <1>6 DEF MarkGatewayDraining, WaitForActiveTasks, WaiterTimeout, jobVars, Settled
<1>7. ASSUME NEW l \in Lanes, NEW n \in Limits, SetCommandLaneConcurrency(l, n)
      PROVE  Settled'
  BY <1>7, PumpStarts DEF SetCommandLaneConcurrency, Settled
<1>8. ASSUME NEW l \in Lanes, ClearCommandLane(l) PROVE Settled'
  BY <1>8 DEF ClearCommandLane, Settled
<1>9. ASSUME NEW L \in SUBSET Lanes, ResetLanes(L) PROVE Settled'
  BY <1>9, PumpStarts DEF ResetLanes, Settled
<1>10. CASE ResetAllLanes \/ \E l \in Lanes : ResetCommandLane(l)
  BY <1>9, <1>10 DEF ResetAllLanes, ResetCommandLane
<1> QED BY <1>2, <1>3, <1>4, <1>5, <1>6, <1>7, <1>8, <1>10 DEF Next

\* A step that changes no variable keeps Settled.
LEMMA StutterSettled == ASSUME Settled, UNCHANGED vars PROVE Settled'
BY DEF Settled, vars, jobVars

-----------------------------------------------------------------------------
(* What the contract sees of a step                                        *)

\* The entries of the queues q are idle, unsettled and without a slot.
Startable(q, a, ex, p) ==
    /\ q \in [Lanes -> Seq(Job)]
    /\ a \in [Lanes -> SUBSET Job]
    /\ \A l \in Lanes : \A i \in 1..Len(q[l]) :
         /\ jobLane[q[l][i]] = l
         /\ p[q[l][i]] = "pending"
         /\ ex[q[l][i]] = "idle"
         /\ q[l][i] \notin a[l]

\* A queue that starts some of its entries gives waiting commands a slot and
\* leaves every other command as it was.
LEMMA PumpPromotes ==
    ASSUME NEW D, NEW q, NEW a, NEW m \in [Lanes -> Nat], NEW g, NEW ex, NEW p,
           jobLane \in [Job -> Lanes],
           Startable(q, a, ex, p),
           Pump(D, q, a, m, g, ex)
    PROVE  \A j \in Job :
             \/ View(p, active', exec')[j] = View(p, a, ex)[j]
             \/ View(p, a, ex)[j] = "waiting" /\ View(p, active', exec')[j] = "holding"
<1> SUFFICES ASSUME NEW j \in Job
             PROVE  \/ View(p, active', exec')[j] = View(p, a, ex)[j]
                    \/ /\ View(p, a, ex)[j] = "waiting"
                       /\ View(p, active', exec')[j] = "holding"
  OBVIOUS
<1> DEFINE l == jobLane[j]
           k == PumpCounts(D, q, a, m)
           S == FirstJobs(q[l], k[l])
<1>1. l \in Lanes
  OBVIOUS
<1>2. Len(q[l]) \in Nat /\ k[l] \in 0..Len(q[l])
  BY <1>1, PumpCountsFacts, LenProperties DEF Startable
<1>3. /\ active'[l] = a[l] \cup S
      /\ exec'[j] = IF j \in S THEN "running" ELSE ex[j]
  BY <1>1 DEF Pump, StartJobs
<1>4. CASE j \in S
  <2> HIDE DEF k
  <2>1. PICK i \in 1..k[l] : q[l][i] = j
    BY <1>4 DEF FirstJobs
  <2>2. i \in 1..Len(q[l])
    BY <1>2, <2>1
  <2>3. p[j] = "pending" /\ ex[j] = "idle" /\ j \notin a[l]
    BY <1>1, <2>1, <2>2 DEF Startable
  <2> HIDE DEF S
  <2> QED BY <1>3, <1>4, <2>3 DEF View
<1>5. CASE j \notin S
  <2> HIDE DEF S
  <2> QED BY <1>3, <1>5 DEF View
<1> QED BY <1>4, <1>5

\* The contract counts as the lanes do.
LEMMA SameCardinality == ASSUME NEW S PROVE Contract!Cardinality(S) = Cardinality(S)
BY DEF Contract!Cardinality, Cardinality

\* Status is the view of the state itself.
LEMMA StatusView ==
    /\ Status = View(promise, active, exec)
    /\ jobLane' = jobLane => Status' = View(promise', active', exec')
BY DEF Status, View

\* Whenever a step of CommandQueue only gives slots to commands that wait in s,
\* it does so in order, within the limit, and until the lane is full.
LEMMA Promotes ==
    ASSUME IInv', Settled', StartsWithinLimit, jobLane' = jobLane,
           jobLane \in [Job -> Lanes], NEW s,
           \A j \in Job : \/ Status'[j] = s[j]
                          \/ s[j] = "waiting" /\ Status'[j] = "holding",
           \A j \in Job : s[j] = "waiting" => j \notin active[jobLane[j]]
    PROVE  Contract!Promote(s)
<1>1. /\ TypeOK'
      /\ Shape(queue', active', generation', exec', jobGeneration', promise', nextJob')
      /\ NoIdleSlotWhileQueued'
  BY DEF IInv, Shape
<1>2. Job \subseteq Nat /\ \A j \in Job : promise'[j] \in PromiseState
  <2>1. Job \subseteq Nat
    BY BoundsAssumption DEF Job
  <2> QED BY <1>1, <2>1 DEF TypeOK
<1>3. ASSUME NEW j \in Job
      PROVE  /\ Status'[j] = "holding" <=> j \in active'[jobLane[j]]
             /\ Status'[j] = "waiting" <=> promise'[j] = "pending" /\ exec'[j] = "idle"
  <2>1. j \in active'[jobLane[j]] => promise'[j] = "pending" /\ exec'[j] = "running"
    BY <1>1 DEF Shape
  <2>2. promise'[j] \in {"settled", "timedout"} => exec'[j] # "idle"
    BY DEF Settled
  <2>3. Status'[j] = View(promise', active', exec')[j]
    BY StatusView
  <2> QED BY <1>2, <2>1, <2>2, <2>3 DEF View, PromiseState
<1>4. Status' \in [Contract!Job -> Contract!Status]
  BY DEF Status, Job, Contract!Job, Contract!Status
<1>5. \A j \in Contract!Job : Status'[j] = s[j] \/ Contract!Promoted(s, j)
  BY DEF Contract!Job, Job, Contract!Promoted
<1>6. ASSUME NEW j \in Job, NEW k \in Job, j < k, jobLane[j] = jobLane[k],
             Status'[k] = "holding"
      PROVE  Status'[j] # "waiting"
  <2> SUFFICES ASSUME Status'[j] = "waiting" PROVE FALSE
    OBVIOUS
  <2> DEFINE l == jobLane[j]
  <2>1. promise'[j] = "pending" /\ exec'[j] = "idle"
    BY <1>3
  <2>2. k \in active'[l]
    BY <1>3, <1>6
  <2>3. l \in Lanes
    OBVIOUS
  <2>4. exec'[k] # "idle" /\ jobLane[k] = l
    BY <1>1, <1>6, <2>2, <2>3 DEF Shape
  <2>5. PICK i \in 1..Len(queue'[l]) : queue'[l][i] = j
    BY <1>1, <2>1 DEF Shape
  <2>6. k < j
    BY <1>1, <2>3, <2>4, <2>5 DEF Shape
  <2> QED BY <1>2, <1>6, <2>6
<1>7. \A j, k \in Contract!Job :
        j < k /\ jobLane[j] = jobLane[k] /\ Contract!Promoted(s, k) => Status'[j] # "waiting"
  BY <1>6 DEF Contract!Job, Job, Contract!Promoted
<1>8. ASSUME NEW l \in Lanes
      PROVE  Contract!With(l, Status', "holding") = active'[l]
  <2>1. \A j \in active'[l] : j \in Job /\ jobLane[j] = l
    BY <1>1 DEF Shape, TypeOK
  <2> QED BY <1>3, <2>1 DEF Contract!With, Contract!On, Contract!Job, Job
<1>9. ASSUME NEW l \in Lanes, NEW j \in Job, jobLane[j] = l, Contract!Promoted(s, j)
      PROVE  Cardinality(Contract!With(l, Status', "holding")) <= maxConcurrent'[l]
  <2>1. s[j] = "waiting" /\ Status'[j] = "holding"
    BY <1>9 DEF Contract!Promoted
  <2>2. j \in active'[l] \ active[l]
    BY <1>3, <1>9, <2>1
  <2>3. Cardinality(active'[l]) <= maxConcurrent'[l]
    BY <2>2 DEF StartsWithinLimit
  <2> QED BY <1>8, <2>3
<1>10. \A l \in Lanes :
         (\E j \in Contract!On(l) : Contract!Promoted(s, j)) =>
            Cardinality(Contract!With(l, Status', "holding")) <= maxConcurrent'[l]
  BY <1>9 DEF Contract!On, Contract!Job, Job
<1>11. Contract!Eager'
  <2>1. ASSUME NEW l \in Lanes, NEW j \in Job, jobLane[j] = l, Status'[j] = "waiting"
        PROVE  Cardinality(active'[l]) >= maxConcurrent'[l]
    <3>1. promise'[j] = "pending" /\ exec'[j] = "idle"
      BY <1>3, <2>1
    <3>2. \E i \in 1..Len(queue'[l]) : queue'[l][i] = j
      BY <1>1, <2>1, <3>1 DEF Shape
    <3>3. queue'[l] # <<>>
      BY <3>2
    <3> QED BY <1>1, <3>3 DEF NoIdleSlotWhileQueued
  <2>2. ASSUME NEW l \in Lanes, Contract!With(l, Status', "waiting") # {}
        PROVE  Contract!Cardinality(Contract!With(l, Status', "holding")) >= maxConcurrent'[l]
    <3>1. Cardinality(active'[l]) >= maxConcurrent'[l]
      BY <2>1, <2>2 DEF Contract!With, Contract!On, Contract!Job, Job
    <3> QED BY <1>8, <3>1, SameCardinality
  <2>3. \A l \in Lanes : \A x :
          Contract!With(l, Status, x)' = Contract!With(l, Status', x)
    BY DEF Contract!With, Contract!On, Contract!Job
  <2> QED BY <2>2, <2>3 DEF Contract!Eager
<1> QED BY <1>4, <1>5, <1>7, <1>10, <1>11, SameCardinality DEF Contract!Promote

\* The parts of the state the steps below reason about.
LEMMA Facts ==
    ASSUME IInv, Settled
    PROVE  /\ Job \subseteq Nat
           /\ queue \in [Lanes -> Seq(Job)] /\ active \in [Lanes -> SUBSET Job]
           /\ maxConcurrent \in [Lanes -> Nat] /\ jobLane \in [Job -> Lanes]
           /\ exec \in [Job -> ExecState] /\ promise \in [Job -> PromiseState]
           /\ nextJob \in Nat
           /\ \A l \in Lanes : \A i \in 1..Len(queue[l]) :
                /\ queue[l][i] \in Job
                /\ jobLane[queue[l][i]] = l
                /\ promise[queue[l][i]] = "pending"
                /\ exec[queue[l][i]] = "idle"
           /\ \A l \in Lanes : \A j \in active[l] :
                /\ jobLane[j] = l /\ promise[j] = "pending" /\ exec[j] = "running"
                /\ jobGeneration[j] = generation[l]
           /\ \A j \in Job :
                promise[j] = "pending" /\ exec[j] = "running"
                  /\ jobGeneration[j] = generation[jobLane[j]] => j \in active[jobLane[j]]
           /\ \A j \in Job : j >= nextJob => exec[j] = "idle" /\ promise[j] = "none"
<1>1. /\ TypeOK
      /\ Shape(queue, active, generation, exec, jobGeneration, promise, nextJob)
  BY DEF IInv
<1>2. Job \subseteq Nat
  BY BoundsAssumption DEF Job
<1>3. /\ queue \in [Lanes -> Seq(Job)] /\ active \in [Lanes -> SUBSET Job]
      /\ maxConcurrent \in [Lanes -> Nat] /\ jobLane \in [Job -> Lanes]
      /\ exec \in [Job -> ExecState] /\ promise \in [Job -> PromiseState]
      /\ nextJob \in Nat
  BY <1>1, BoundsAssumption DEF TypeOK
<1>4. ASSUME NEW l \in Lanes, NEW i \in 1..Len(queue[l])
      PROVE  /\ queue[l][i] \in Job
             /\ jobLane[queue[l][i]] = l
             /\ promise[queue[l][i]] = "pending"
             /\ exec[queue[l][i]] = "idle"
  <2>1. queue[l][i] \in Job
    BY <1>3, ElementOfSeq
  <2> QED BY <1>1, <2>1 DEF Shape
<1>5. ASSUME NEW l \in Lanes, NEW j \in active[l]
      PROVE  /\ jobLane[j] = l /\ promise[j] = "pending" /\ exec[j] = "running"
             /\ jobGeneration[j] = generation[l]
  BY <1>1, <1>3 DEF Shape
<1>6. \A j \in Job :
        promise[j] = "pending" /\ exec[j] = "running"
          /\ jobGeneration[j] = generation[jobLane[j]] => j \in active[jobLane[j]]
  BY <1>1, <1>3 DEF Shape
<1>7. \A j \in Job : j >= nextJob => exec[j] = "idle" /\ promise[j] = "none"
  BY <1>1 DEF Shape
<1> QED BY <1>2, <1>3, <1>4, <1>5, <1>6, <1>7

\* A step that pumps after the handler wrote p, a and ex promotes from what the
\* contract sees of them, provided no task went back to idle.
LEMMA PumpedPromotes ==
    ASSUME IInv, Settled, IInv', Settled', StartsWithinLimit, jobLane' = jobLane,
           NEW D, NEW q, NEW a, NEW m \in [Lanes -> Nat], NEW g, NEW ex, NEW p,
           Startable(q, a, ex, p),
           \A j \in Job : ex[j] = "idle" => exec[j] = "idle",
           promise' = p,
           Pump(D, q, a, m, g, ex)
    PROVE  Contract!Promote(View(p, a, ex))
<1> DEFINE s == View(p, a, ex)
<1>1. jobLane \in [Job -> Lanes]
  BY Facts
<1>2. \A j \in Job : \/ View(p, active', exec')[j] = s[j]
                     \/ s[j] = "waiting" /\ View(p, active', exec')[j] = "holding"
  <2> HIDE DEF s
  <2>1. \A j \in Job :
          \/ View(p, active', exec')[j] = View(p, a, ex)[j]
          \/ View(p, a, ex)[j] = "waiting" /\ View(p, active', exec')[j] = "holding"
    BY <1>1, PumpPromotes
  <2> QED BY <2>1 DEF s
<1>3. Status' = View(p, active', exec')
  BY StatusView
<1>4. ASSUME NEW j \in Job, s[j] = "waiting" PROVE j \notin active[jobLane[j]]
  <2>1. ex[j] = "idle"
    BY <1>4 DEF View
  <2>2. exec[j] = "idle" /\ jobLane[j] \in Lanes
    BY <1>1, <2>1
  <2> QED BY <2>2, Facts
<1> HIDE DEF s
<1>5. \A j \in Job : Status'[j] = s[j] \/ (s[j] = "waiting" /\ Status'[j] = "holding")
  BY <1>2, <1>3
<1>6. Contract!Promote(s)
  BY <1>1, <1>4, <1>5, Promotes
<1> QED BY <1>6 DEF s

-----------------------------------------------------------------------------
(* One lemma per operation                                                 *)

\* A call that is refused is the contract's Refuse.
LEMMA EnqueueRefusedRefines ==
    ASSUME IInv, Settled, EnqueueRefused
    PROVE  Contract!Refuse(nextJob) /\ nextJob \in Job
<1>1. /\ nextJob <= MaxJobs
      /\ promise' = [promise EXCEPT ![nextJob] = "refused"]
      /\ UNCHANGED <<active, exec, jobLane, maxConcurrent>>
  BY DEF EnqueueRefused, lanesVars
<1>2. nextJob \in Job
  BY <1>1, BoundsAssumption DEF IInv, TypeOK, Job
<1>3. promise[nextJob] = "none" /\ promise \in [Job -> PromiseState] /\ nextJob \in Nat
  BY <1>2, Facts
<1>4. Status[nextJob] = "new" /\ \A i \in Job : i < nextJob => Status[i] # "new"
  BY <1>2, <1>3 DEF Status, Settled
<1>5. Status' = [Status EXCEPT ![nextJob] = "dropped"]
  BY <1>1, <1>2, <1>3 DEF Status
<1> QED BY <1>1, <1>2, <1>4, <1>5 DEF Contract!Refuse, Contract!Job, Job

\* A call that is accepted is the contract's Submit: the command joins the
\* waiting ones of its lane and slots are given out.
LEMMA EnqueueRefines ==
    ASSUME IInv, Settled, Enqueue
    PROVE  Contract!Submit(nextJob) /\ nextJob \in Job
<1> DEFINE l == jobLane[nextJob]
           q == [queue EXCEPT ![l] = Append(@, nextJob)]
           p == [promise EXCEPT ![nextJob] = "pending"]
<1>1. /\ nextJob <= MaxJobs
      /\ Pump({l}, q, active, maxConcurrent, generation, exec)
      /\ promise' = p
      /\ UNCHANGED <<maxConcurrent, jobLane>>
  BY DEF Enqueue
<1>2. nextJob \in Job
  BY <1>1, BoundsAssumption DEF IInv, TypeOK, Job
<1>3. /\ queue \in [Lanes -> Seq(Job)] /\ active \in [Lanes -> SUBSET Job]
      /\ maxConcurrent \in [Lanes -> Nat] /\ jobLane \in [Job -> Lanes]
      /\ promise \in [Job -> PromiseState]
      /\ promise[nextJob] = "none" /\ exec[nextJob] = "idle"
      /\ l \in Lanes
      /\ nextJob \in Nat
  BY <1>2, Facts
<1>4. /\ \A i \in Job : p[i] = IF i = nextJob THEN "pending" ELSE promise[i]
  BY <1>3
<1>5. nextJob \notin active[l]
  BY <1>3, Facts
<1>6. q \in [Lanes -> Seq(Job)]
  BY <1>2, <1>3, AppendProperties
<1>7. ASSUME NEW k \in Lanes, NEW i \in 1..Len(q[k])
      PROVE  /\ jobLane[q[k][i]] = k
             /\ p[q[k][i]] = "pending"
             /\ exec[q[k][i]] = "idle"
             /\ q[k][i] \notin active[k]
  <2>1. CASE k = l /\ i = Len(queue[l]) + 1
    <3>1. q[k][i] = nextJob
      BY <1>2, <1>3, <2>1, AppendProperties
    <3> QED BY <1>2, <1>3, <1>4, <1>5, <2>1, <3>1
  <2>2. CASE ~(k = l /\ i = Len(queue[l]) + 1)
    <3>1. i \in 1..Len(queue[k]) /\ q[k][i] = queue[k][i]
      <4>1. CASE k = l
        BY <1>2, <1>3, <2>2, <4>1, AppendProperties, LenProperties
      <4>2. CASE k # l
        BY <1>3, <4>2
      <4> QED BY <4>1, <4>2
    <3>2. /\ queue[k][i] \in Job /\ jobLane[queue[k][i]] = k
          /\ promise[queue[k][i]] = "pending" /\ exec[queue[k][i]] = "idle"
      BY <3>1, Facts
    <3>3. queue[k][i] \notin active[k]
      BY <3>2, Facts
    <3> QED BY <1>3, <1>4, <3>1, <3>2, <3>3
  <2> QED BY <2>1, <2>2
<1> HIDE DEF q, p
<1>12. Startable(q, active, exec, p)
  BY <1>3, <1>6, <1>7 DEF Startable
<1>8. IInv' /\ StartsWithinLimit /\ Settled'
  BY EnqueueInvariant, NextSettled DEF Next
<1>9. Contract!Promote(View(p, active, exec))
  BY <1>1, <1>3, <1>6, <1>8, <1>12, PumpedPromotes
<1> HIDE DEF l
<1>10. View(p, active, exec) = [Status EXCEPT ![nextJob] = "waiting"]
  <2>1. View(p, active, exec)[nextJob] = "waiting"
    BY <1>2, <1>3, <1>4, <1>5 DEF View, l
  <2>2. \A i \in Job : i # nextJob => View(p, active, exec)[i] = Status[i]
    BY <1>4 DEF View, Status
  <2> QED BY <1>2, <2>1, <2>2 DEF View, Status
<1>11. Status[nextJob] = "new" /\ \A i \in Job : i < nextJob => Status[i] # "new"
  BY <1>2, <1>3 DEF Status, Settled
<1> QED BY <1>1, <1>2, <1>9, <1>10, <1>11 DEF Contract!Submit, Contract!Job, Job

\* A task that ends, or is given up by its timer, releases its slot; one that a
\* reset had already taken the slot from changes nothing for the contract.
LEMMA ReleaseRefines ==
    ASSUME IInv, Settled, IInv', Settled', StartsWithinLimit,
           NEW j \in Job, exec[j] = "running", promise[j] = "pending",
           NEW outcome \in {"settled", "timedout"}, NEW ex \in [Job -> ExecState],
           ex[j] # "idle", \A i \in Job : i # j => ex[i] = exec[i],
           Release(j, outcome, ex)
    PROVE  Contract!Release({j}) \/ UNCHANGED Contract!vars
<1> DEFINE l == jobLane[j]
           left == [active EXCEPT ![l] = @ \ {j}]
           p == [promise EXCEPT ![j] = outcome]
<1>1. promise' = p /\ jobLane' = jobLane /\ maxConcurrent' = maxConcurrent
  BY DEF Release
<1>2. /\ queue \in [Lanes -> Seq(Job)] /\ active \in [Lanes -> SUBSET Job]
      /\ maxConcurrent \in [Lanes -> Nat] /\ jobLane \in [Job -> Lanes]
      /\ promise \in [Job -> PromiseState]
      /\ l \in Lanes
  BY Facts
<1>3. /\ p[j] = outcome
      /\ \A i \in Job : i # j => p[i] = promise[i]
  BY <1>2
<1>4. /\ left \in [Lanes -> SUBSET Job] /\ left[l] = active[l] \ {j}
      /\ \A k \in Lanes : k # l => left[k] = active[k]
  BY <1>2
<1>5. CASE /\ jobGeneration[j] = generation[l]
           /\ Pump({l}, queue, left, maxConcurrent, generation, ex)
  <2>1. j \in active[l]
    BY <1>5, Facts
  <2>2. ASSUME NEW k \in Lanes, NEW i \in 1..Len(queue[k])
        PROVE  /\ jobLane[queue[k][i]] = k
               /\ p[queue[k][i]] = "pending"
               /\ ex[queue[k][i]] = "idle"
               /\ queue[k][i] \notin left[k]
    <3> HIDE DEF p, left, l
    <3>1. /\ queue[k][i] \in Job /\ jobLane[queue[k][i]] = k
          /\ promise[queue[k][i]] = "pending" /\ exec[queue[k][i]] = "idle"
      BY SMTT(30), Facts
    <3>2. queue[k][i] # j
      BY <3>1
    <3>3. queue[k][i] \notin active[k]
      BY <3>1, Facts
    <3> QED BY <1>3, <1>4, <3>1, <3>2, <3>3
  <2> HIDE DEF p, left
  <2>3. Startable(queue, left, ex, p)
    BY <1>2, <1>4, <2>2 DEF Startable
  <2>4. Contract!Promote(View(p, left, ex))
    BY <1>1, <1>2, <1>4, <1>5, <2>3, PumpedPromotes
  <2>5. View(p, left, ex) = [i \in Job |-> IF i \in {j} THEN "released" ELSE Status[i]]
    <3>1. View(p, left, ex)[j] = "released"
      BY <1>3, <1>4 DEF View
    <3>2. \A i \in Job : i # j => View(p, left, ex)[i] = Status[i]
      BY <1>2, <1>3, <1>4 DEF View, Status
    <3> QED BY <3>1, <3>2 DEF View, Status
  <2>6. Status[j] = "holding"
    BY <2>1 DEF Status
  <2> QED BY <1>1, <2>4, <2>5, <2>6 DEF Contract!Release, Contract!Job, Job
<1>6. CASE /\ jobGeneration[j] # generation[l]
           /\ exec' = ex
           /\ UNCHANGED <<queue, active, jobGeneration, waiter>>
  <2>1. j \notin active[l]
    BY <1>2, <1>6, Facts
  <2> HIDE DEF p
  <2>2. Status' = View(p, active, ex)
    BY <1>1, <1>6, StatusView
  <2>3. View(p, active, ex)[j] = Status[j]
    BY <1>3, <2>1 DEF View, Status
  <2>4. \A i \in Job : i # j => View(p, active, ex)[i] = Status[i]
    BY <1>3 DEF View, Status
  <2>5. Status' = Status
    BY <2>2, <2>3, <2>4 DEF View, Status
  <2> QED BY <1>1, <2>5 DEF Contract!vars
<1> QED BY <1>5, <1>6 DEF Release

\* setCommandLaneConcurrency resizes a lane and gives out the slots it gains.
LEMMA SetConcurrencyRefines ==
    ASSUME IInv, Settled, NEW l \in Lanes, NEW n \in Limits,
           SetCommandLaneConcurrency(l, n)
    PROVE  Contract!Resize(l)
<1> DEFINE least == IF l \in ProbeLanes THEN 1 ELSE 0
           limit == IF n < least THEN least ELSE n
           D     == IF limit > 0 THEN {l} ELSE {}
           m     == [maxConcurrent EXCEPT ![l] = limit]
<1>1. /\ maxConcurrent' = m /\ promise' = promise /\ jobLane' = jobLane
      /\ Pump(D, queue, active, m, generation, exec)
  BY DEF SetCommandLaneConcurrency
<1>2. IInv' /\ StartsWithinLimit /\ Settled'
  BY SetConcurrencyInvariant, NextSettled DEF Next
<1>3. /\ queue \in [Lanes -> Seq(Job)] /\ active \in [Lanes -> SUBSET Job]
      /\ maxConcurrent \in [Lanes -> Nat]
  BY Facts
<1>4. m \in [Lanes -> Nat]
  BY <1>1, <1>2 DEF IInv, TypeOK
<1>5. \A k \in Lanes \ {l} : m[k] = maxConcurrent[k]
  BY <1>3
<1>6. Startable(queue, active, exec, promise)
  <2> SUFFICES ASSUME NEW k \in Lanes, NEW i \in 1..Len(queue[k])
               PROVE  /\ jobLane[queue[k][i]] = k
                      /\ promise[queue[k][i]] = "pending"
                      /\ exec[queue[k][i]] = "idle"
                      /\ queue[k][i] \notin active[k]
    BY <1>3 DEF Startable
  <2>1. /\ jobLane[queue[k][i]] = k /\ promise[queue[k][i]] = "pending"
        /\ exec[queue[k][i]] = "idle"
    BY Facts
  <2> QED BY <2>1, Facts
<1> HIDE DEF m, D
<1>7. Contract!Promote(View(promise, active, exec))
  BY <1>1, <1>2, <1>3, <1>4, <1>6, PumpedPromotes
<1>8. Contract!Promote(Status)
  BY <1>7, StatusView
<1> QED BY <1>1, <1>4, <1>5, <1>8 DEF Contract!Resize

\* clearCommandLane drops exactly what waits on the lane.
LEMMA ClearRefines ==
    ASSUME IInv, Settled, NEW l \in Lanes, ClearCommandLane(l)
    PROVE  Contract!Clear(l)
<1> DEFINE C == FirstJobs(queue[l], Len(queue[l]))
<1>1. /\ promise' = [j \in Job |-> IF j \in C THEN "cleared" ELSE promise[j]]
      /\ UNCHANGED <<active, exec, jobLane, maxConcurrent>>
  BY DEF ClearCommandLane
<1>2. ASSUME NEW j \in Job
      PROVE  /\ j \in C => Status[j] = "waiting" /\ jobLane[j] = l
             /\ Status[j] = "waiting" /\ jobLane[j] = l => j \in C
  <2>1. ASSUME j \in C PROVE Status[j] = "waiting" /\ jobLane[j] = l
    <3>1. PICK i \in 1..Len(queue[l]) : queue[l][i] = j
      BY <2>1 DEF FirstJobs
    <3>0. /\ promise[queue[l][i]] = "pending" /\ exec[queue[l][i]] = "idle"
          /\ jobLane[queue[l][i]] = l
      BY Facts
    <3>2. promise[j] = "pending" /\ exec[j] = "idle" /\ jobLane[j] = l
      BY <3>0, <3>1
    <3>3. j \notin active[l]
      BY <3>2, Facts
    <3> QED BY <3>2, <3>3 DEF Status
  <2>2. ASSUME Status[j] = "waiting", jobLane[j] = l PROVE j \in C
    <3>1. promise[j] \in PromiseState
      BY Facts
    <3>2. promise[j] = "pending" /\ exec[j] = "idle"
      BY <2>2, <3>1 DEF Status, Settled, PromiseState
    <3>3. \E i \in 1..Len(queue[l]) : queue[l][i] = j
      BY <2>2, <3>2 DEF IInv, Shape
    <3> QED BY <3>3 DEF FirstJobs
  <2> QED BY <2>1, <2>2
<1> HIDE DEF C
<1>3. ASSUME NEW j \in Job
      PROVE  Status'[j] = IF j \in C THEN "dropped" ELSE Status[j]
  BY <1>1, <1>2 DEF Status
<1>4. Contract!With(l, Status, "waiting") = C \cap Job
  BY <1>2 DEF Contract!With, Contract!On, Contract!Job, Job
<1>5. Status' = [j \in Job |-> IF j \in C THEN "dropped" ELSE Status[j]]
  BY <1>3 DEF Status
<1>6. Status' = [j \in Contract!Job |-> IF j \in Contract!With(l, Status, "waiting")
                                          THEN "dropped" ELSE Status[j]]
  BY <1>4, <1>5 DEF Contract!Job, Job
<1> QED BY <1>1, <1>6 DEF Contract!Clear

\* A reset of the lanes of L releases all that hold a slot there and gives the
\* slots to the commands that wait.
LEMMA ResetRefines ==
    ASSUME IInv, Settled, IInv', StartsWithinLimit, Settled',
           NEW L \in SUBSET Lanes, ResetLanes(L)
    PROVE  Contract!Release({j \in Contract!Job : jobLane[j] \in L /\ Status[j] = "holding"})
<1> DEFINE g    == [l \in Lanes |-> IF l \in L THEN generation[l] + 1 ELSE generation[l]]
           idle == [l \in Lanes |-> IF l \in L THEN {} ELSE active[l]]
           D    == {l \in L : queue[l] # <<>>}
           H    == {j \in Job : jobLane[j] \in L /\ Status[j] = "holding"}
<1>1. /\ Pump(D, queue, idle, maxConcurrent, g, exec)
      /\ UNCHANGED <<maxConcurrent, jobLane, promise>>
  BY DEF ResetLanes
<1>2. /\ queue \in [Lanes -> Seq(Job)] /\ active \in [Lanes -> SUBSET Job]
      /\ maxConcurrent \in [Lanes -> Nat] /\ jobLane \in [Job -> Lanes]
  BY Facts
<1>3. idle \in [Lanes -> SUBSET Job] /\ \A l \in Lanes : idle[l] \subseteq active[l]
  BY <1>2
<1>4. Startable(queue, idle, exec, promise)
  <2> SUFFICES ASSUME NEW k \in Lanes, NEW i \in 1..Len(queue[k])
               PROVE  /\ jobLane[queue[k][i]] = k
                      /\ promise[queue[k][i]] = "pending"
                      /\ exec[queue[k][i]] = "idle"
                      /\ queue[k][i] \notin idle[k]
    BY <1>2, <1>3 DEF Startable
  <2>1. /\ jobLane[queue[k][i]] = k /\ promise[queue[k][i]] = "pending"
        /\ exec[queue[k][i]] = "idle"
    BY Facts
  <2>2. queue[k][i] \notin active[k]
    BY <2>1, Facts
  <2> QED BY <1>3, <2>1, <2>2
<1>5. ASSUME NEW j \in Job
      PROVE  View(promise, idle, exec)[j] = IF j \in H THEN "released" ELSE Status[j]
  <2>1. jobLane[j] \in Lanes
    BY <1>2
  <2>2. CASE jobLane[j] \notin L
    BY <2>1, <2>2 DEF View, Status
  <2>3. CASE jobLane[j] \in L /\ j \in active[jobLane[j]]
    <3>1. promise[j] = "pending" /\ exec[j] = "running"
      BY <2>1, <2>3, Facts
    <3> QED BY <2>1, <2>3, <3>1 DEF View, Status
  <2>4. CASE jobLane[j] \in L /\ j \notin active[jobLane[j]]
    BY <2>1, <2>4 DEF View, Status
  <2> QED BY <2>2, <2>3, <2>4
<1> HIDE DEF g, idle, D, H
<1>6. Contract!Promote(View(promise, idle, exec))
  BY <1>1, <1>2, <1>4, PumpedPromotes
<1>7. View(promise, idle, exec) = [j \in Job |-> IF j \in H THEN "released" ELSE Status[j]]
  BY <1>5 DEF View
<1>8. \A j \in H : Status[j] = "holding"
  BY DEF H
<1>9. Contract!Release(H)
  BY <1>1, <1>6, <1>7, <1>8 DEF Contract!Release, Contract!Job, Job
<1>10. H = {j \in Contract!Job : jobLane[j] \in L /\ Status[j] = "holding"}
  BY DEF H, Contract!Job, Job
<1> QED BY <1>9, <1>10

\* Every step of CommandQueue is a step of the contract or invisible to it.
LEMMA StepRefines ==
    ASSUME IInv, Settled, Next PROVE Contract!Next \/ UNCHANGED Contract!vars
<1>1. IInv' /\ StartsWithinLimit /\ Settled'
  BY NextInvariant, NextSettled
<1>2. exec \in [Job -> ExecState] /\ Job = Contract!Job
  BY Facts DEF Job, Contract!Job
<1>3. CASE EnqueueRefused \/ Enqueue
  BY <1>2, <1>3, EnqueueRefusedRefines, EnqueueRefines DEF Contract!Next
<1>4. ASSUME NEW j \in Job, Complete(j) PROVE Contract!Next \/ UNCHANGED Contract!vars
  <2> DEFINE ex == [exec EXCEPT ![j] = "ended"]
  <2>1. /\ ex \in [Job -> ExecState] /\ ex[j] # "idle"
        /\ \A i \in Job : i # j => ex[i] = exec[i]
    BY <1>2 DEF ExecState
  <2>2. exec[j] = "running" /\ promise[j] = "pending" /\ Release(j, "settled", ex)
    BY <1>4 DEF Complete
  <2> HIDE DEF ex
  <2>3. Contract!Release({j}) \/ UNCHANGED Contract!vars
    BY <1>1, <2>1, <2>2, ReleaseRefines
  <2> QED BY <1>2, <2>3 DEF Contract!Next
<1>5. ASSUME NEW j \in Job, TimeoutTask(j) PROVE Contract!Next \/ UNCHANGED Contract!vars
  <2>1. exec[j] = "running" /\ promise[j] = "pending" /\ Release(j, "timedout", exec)
    BY <1>5 DEF TimeoutTask
  <2>2. Contract!Release({j}) \/ UNCHANGED Contract!vars
    BY <1>1, <1>2, <2>1, ReleaseRefines
  <2> QED BY <1>2, <2>2 DEF Contract!Next
<1>6. ASSUME NEW j \in Job, LateSettle(j) PROVE UNCHANGED Contract!vars
  <2>1. /\ exec[j] = "running" /\ exec' = [exec EXCEPT ![j] = "ended"]
        /\ UNCHANGED <<active, promise, jobLane, maxConcurrent>>
    BY <1>6 DEF LateSettle, lanesVars
  <2>2. \A i \in Job : exec'[i] = "idle" <=> exec[i] = "idle"
    BY <1>2, <2>1
  <2> QED BY <2>1, <2>2 DEF Contract!vars, Status
<1>7. CASE MarkGatewayDraining \/ \E w \in Waiters : WaitForActiveTasks(w) \/ WaiterTimeout(w)
  <2>1. UNCHANGED <<active, promise, exec, jobLane, maxConcurrent>>
    BY <1>7 DEF MarkGatewayDraining, WaitForActiveTasks, WaiterTimeout, jobVars, lanesVars
  <2> QED BY <2>1 DEF Contract!vars, Status
<1>8. CASE \E l \in Lanes, n \in Limits : SetCommandLaneConcurrency(l, n)
  BY <1>8, SetConcurrencyRefines DEF Contract!Next
<1>9. CASE \E l \in Lanes : ClearCommandLane(l)
  BY <1>9, ClearRefines DEF Contract!Next
<1>10. CASE ResetAllLanes \/ \E l \in Lanes : ResetCommandLane(l)
  <2>1. PICK L \in SUBSET Lanes : ResetLanes(L)
    BY <1>10 DEF ResetAllLanes, ResetCommandLane
  <2>2. Contract!Release({j \in Contract!Job : jobLane[j] \in L /\ Status[j] = "holding"})
    BY <1>1, <2>1, ResetRefines
  <2> QED BY <2>2 DEF Contract!Next
<1> QED BY <1>3, <1>4, <1>5, <1>6, <1>7, <1>8, <1>9, <1>10 DEF Next

\* The initial states are initial states of the contract.
LEMMA InitRefines == ASSUME Init PROVE Contract!Init
<1>1. Status = [j \in Job |-> "new"]
  BY DEF Init, Status
<1>2. maxConcurrent \in [Lanes -> Nat] /\ jobLane \in [Job -> Lanes]
  BY DEF Init
<1> QED BY <1>1, <1>2 DEF Contract!Init, Contract!Job, Job

-----------------------------------------------------------------------------
(* The theorems                                                            *)

\* A task that was settled had started, and calls are numbered in order: with
\* IInv, what the refinement rests on.
THEOREM SettledHolds == Spec => [](IInv /\ Settled)
<1>1. Init => IInv /\ Settled
  BY InitInvariant, SettledInit
<1>2. IInv /\ Settled /\ [Next]_vars => (IInv /\ Settled)'
  BY NextInvariant, StutterInvariant, NextSettled, StutterSettled
<1> QED BY <1>1, <1>2, PTL DEF Spec

\* The command lanes implement their contract: whatever timeouts, resets, clears
\* and resizes happen, slots go to waiting commands in order of arrival, within
\* the limit, and as soon as there are any.
THEOREM ContractImplemented == Spec => ContractHonoured
<1>1. Init => Contract!Init
  BY InitRefines
<1>2. IInv /\ Settled /\ [Next]_vars => [Contract!Next]_(Contract!vars)
  <2>1. UNCHANGED vars => UNCHANGED Contract!vars
    BY DEF vars, lanesVars, jobVars, Contract!vars, Status
  <2> QED BY <2>1, StepRefines
<1> QED BY <1>1, <1>2, SettledHolds, PTL DEF Spec, ContractHonoured, Contract!Spec

-----------------------------------------------------------------------------
(* What callers may conclude from the contract alone                       *)

\* The commands of a lane get their slots in the order of the calls.
ServedInTurn ==
    \A i, j \in Job :
        i < j /\ jobLane[i] = jobLane[j] /\ Status[j] \in {"holding", "released"} =>
            Status[i] \in {"holding", "released", "dropped"}

\* A command that has left its slot or was dropped never gets one again.
OverForGood ==
    [][\A j \in Job : Status[j] \in {"released", "dropped"} => Status'[j] = Status[j]]_vars

\* Calls are numbered in order: with ServedInTurn, what every step preserves.
CalledInOrder == \A i, j \in Job : i < j /\ Status[j] # "new" => Status[i] # "new"

\* Promote gives slots to waiting commands, in turn, and to all that may have one.
LEMMA PromoteMoves ==
    ASSUME NEW t, Contract!Promote(t), jobLane' = jobLane
    PROVE  /\ \A j \in Job : Status'[j] = t[j] \/ (t[j] = "waiting" /\ Status'[j] = "holding")
           /\ \A j, k \in Job :
                j < k /\ jobLane[j] = jobLane[k] /\ Status'[j] = "waiting" /\ t[k] # "holding"
                    => Status'[k] # "holding"
           /\ Contract!Eager'
<1>1. /\ \A j \in Job : Status'[j] = t[j] \/ Contract!Promoted(t, j)
      /\ \A j, k \in Job : j < k /\ jobLane[j] = jobLane[k] /\ Contract!Promoted(t, k)
                               => Status'[j] # "waiting"
      /\ Contract!Eager'
  BY DEF Contract!Promote, Contract!Job, Job
<1> QED BY <1>1 DEF Contract!Promoted

\* What a step of the contract may do with a command, and in which order.
Moves ==
    /\ jobLane' = jobLane
    /\ \A j \in Job : \/ Status'[j] = Status[j]
                      \/ Status[j] = "new" /\ Status'[j] \in {"waiting", "holding", "dropped"}
                      \/ Status[j] = "waiting" /\ Status'[j] \in {"holding", "dropped"}
                      \/ Status[j] = "holding" /\ Status'[j] = "released"
    /\ \A j, k \in Job :
         j < k /\ jobLane[j] = jobLane[k] /\ Status'[j] = "waiting" /\ Status[k] # "holding"
             => Status'[k] # "holding"
    /\ \A i, j \in Job : i < j /\ Status[i] = "new" /\ Status[j] = "new" => Status'[j] = "new"
    /\ Contract!Eager => Contract!Eager'

LEMMA ContractMoves == ASSUME Contract!Next PROVE Moves
<1>0. Contract!Job = Job /\ Status = [j \in Job |-> Status[j]]
  BY DEF Contract!Job, Job, Status
<1>1. ASSUME NEW c \in Job, Contract!Submit(c)
      PROVE  Moves
  <2> DEFINE t == [Status EXCEPT ![c] = "waiting"]
  <2>1. /\ Status[c] = "new" /\ \A i \in Job : i < c => Status[i] # "new"
        /\ Contract!Promote(t) /\ jobLane' = jobLane
    BY <1>0, <1>1 DEF Contract!Submit
  <2>2. t[c] = "waiting" /\ \A j \in Job : j # c => t[j] = Status[j]
    BY <1>0
  <2> HIDE DEF t
  <2>3. /\ \A j \in Job : Status'[j] = t[j] \/ (t[j] = "waiting" /\ Status'[j] = "holding")
        /\ \A j, k \in Job :
             j < k /\ jobLane[j] = jobLane[k] /\ Status'[j] = "waiting" /\ t[k] # "holding"
                 => Status'[k] # "holding"
        /\ Contract!Eager'
    BY <2>1, PromoteMoves
  <2> QED BY <2>1, <2>2, <2>3 DEF Moves
<1>2. ASSUME NEW c \in Job, Contract!Refuse(c)
      PROVE  Moves
  <2>1. /\ Status[c] = "new" /\ \A i \in Job : i < c => Status[i] # "new"
        /\ Status' = [Status EXCEPT ![c] = "dropped"]
        /\ jobLane' = jobLane /\ maxConcurrent' = maxConcurrent
    BY <1>0, <1>2 DEF Contract!Refuse
  <2>2. Status'[c] = "dropped" /\ \A j \in Job : j # c => Status'[j] = Status[j]
    BY <1>0, <2>1
  <2>3. \A j \in Job : /\ Status'[j] = "waiting" <=> Status[j] = "waiting"
                       /\ Status'[j] = "holding" <=> Status[j] = "holding"
    BY <2>1, <2>2
  <2>4. Contract!Eager => Contract!Eager'
    BY <1>0, <2>1, <2>3 DEF Contract!Eager, Contract!With, Contract!On
  <2> QED BY <2>1, <2>2, <2>3, <2>4 DEF Moves
<1>3. ASSUME NEW H, H \subseteq Job, Contract!Release(H)
      PROVE  Moves
  <2> DEFINE t == [j \in Contract!Job |-> IF j \in H THEN "released" ELSE Status[j]]
  <2>1. /\ \A j \in H : Status[j] = "holding"
        /\ Contract!Promote(t) /\ jobLane' = jobLane
    BY <1>3 DEF Contract!Release
  <2>2. \A j \in Job : t[j] = IF j \in H THEN "released" ELSE Status[j]
    BY <1>0
  <2> HIDE DEF t
  <2>3. /\ \A j \in Job : Status'[j] = t[j] \/ (t[j] = "waiting" /\ Status'[j] = "holding")
        /\ \A j, k \in Job :
             j < k /\ jobLane[j] = jobLane[k] /\ Status'[j] = "waiting" /\ t[k] # "holding"
                 => Status'[k] # "holding"
        /\ Contract!Eager'
    BY <2>1, PromoteMoves
  <2> QED BY <2>1, <2>2, <2>3 DEF Moves
<1>4. ASSUME NEW l \in Lanes, Contract!Resize(l)
      PROVE  Moves
  BY <1>4, PromoteMoves DEF Contract!Resize, Moves
<1>5. ASSUME NEW l \in Lanes, Contract!Clear(l)
      PROVE  Moves
  <2> DEFINE W == {j \in Job : jobLane[j] = l /\ Status[j] = "waiting"}
  <2>1. /\ Status' = [j \in Job |-> IF j \in W THEN "dropped" ELSE Status[j]]
        /\ jobLane' = jobLane /\ maxConcurrent' = maxConcurrent
    BY <1>0, <1>5 DEF Contract!Clear, Contract!With, Contract!On
  <2>2. \A j \in Job : Status'[j] = IF j \in W THEN "dropped" ELSE Status[j]
    BY <2>1
  <2>3. \A j \in Job : /\ Status'[j] = "waiting" => Status[j] = "waiting"
                       /\ Status'[j] = "holding" <=> Status[j] = "holding"
    BY <2>2
  <2>4. Contract!Eager => Contract!Eager'
    <3>1. ASSUME NEW m \in Lanes
          PROVE  /\ Contract!With(m, Status, "waiting")' \subseteq Contract!With(m, Status, "waiting")
                 /\ Contract!With(m, Status, "holding")' = Contract!With(m, Status, "holding")
      BY <1>0, <2>1, <2>3 DEF Contract!With, Contract!On
    <3> QED BY <2>1, <3>1 DEF Contract!Eager
  <2> QED BY <2>1, <2>2, <2>3, <2>4 DEF Moves
<1> QED
  <2>1. CASE \E c \in Contract!Job : Contract!Submit(c) \/ Contract!Refuse(c) \/ Contract!Release({c})
    <3>1. \A c \in Job : {c} \subseteq Job
      OBVIOUS
    <3> QED BY <1>0, <1>1, <1>2, <1>3, <2>1, <3>1
  <2>2. CASE \E L \in SUBSET Lanes :
               Contract!Release({j \in Contract!Job : jobLane[j] \in L /\ Status[j] = "holding"})
    <3>1. \A L : {j \in Contract!Job : jobLane[j] \in L /\ Status[j] = "holding"} \subseteq Job
      BY <1>0
    <3> QED BY <1>3, <2>2, <3>1
  <2>3. CASE \E l \in Lanes : Contract!Resize(l) \/ Contract!Clear(l)
    BY <1>4, <1>5, <2>3
  <2> QED BY <2>1, <2>2, <2>3 DEF Contract!Next

\* The contract alone implies that a command waits only while its lane is full,
\* that slots are given in the order of the calls, and that what is over stays
\* over: callers of enqueueCommandInLane need not know how the lanes do it.
THEOREM ContractSuffices ==
    ContractHonoured => []Contract!Eager /\ []ServedInTurn /\ OverForGood
<1> DEFINE Inv  == CalledInOrder /\ ServedInTurn /\ Contract!Eager
           Over == \A j \in Job : Status[j] \in {"released", "dropped"} => Status'[j] = Status[j]
<1>1. Contract!Init => Inv
  <2> SUFFICES ASSUME Contract!Init PROVE Inv
    OBVIOUS
  <2>1. \A j \in Job : Status[j] = "new"
    BY DEF Contract!Init, Contract!Job, Job
  <2>2. Contract!Eager
    BY <2>1 DEF Contract!Eager, Contract!With, Contract!On, Contract!Job, Job
  <2> QED BY <2>1, <2>2 DEF CalledInOrder, ServedInTurn
<1>2. Inv /\ [Contract!Next]_(Contract!vars) => Inv' /\ [Over]_vars
  <2> SUFFICES ASSUME Inv, [Contract!Next]_(Contract!vars) PROVE Inv' /\ Over
    OBVIOUS
  <2>1. CASE Contract!Next
    <3>0. Moves
      BY <2>1, ContractMoves
    <3>1. CalledInOrder'
      BY <3>0 DEF CalledInOrder, Moves
    <3>2. ServedInTurn'
      <4>1. SUFFICES ASSUME NEW i \in Job, NEW j \in Job, i < j, jobLane'[i] = jobLane'[j],
                            Status'[j] \in {"holding", "released"}
                     PROVE  Status'[i] \in {"holding", "released", "dropped"}
        BY DEF ServedInTurn
      <4>2. Status'[i] \in {"waiting", "holding", "released", "dropped"}
        <5>1. Status'[i] # "new"
          BY <3>1, <4>1 DEF CalledInOrder
        <5>2. Status'[i] \in {"new", "waiting", "holding", "released", "dropped"}
          BY DEF Status
        <5> QED BY <5>1, <5>2
      <4>3. CASE Status[j] \in {"holding", "released"}
        BY <3>0, <4>1, <4>3 DEF ServedInTurn, Moves
      <4>4. CASE Status[j] \notin {"holding", "released"}
        BY <3>0, <4>1, <4>2, <4>4 DEF Moves
      <4> QED BY <4>3, <4>4
    <3> QED BY <3>0, <3>1, <3>2 DEF Moves
  <2>2. CASE UNCHANGED Contract!vars
    BY <2>2 DEF Contract!vars, CalledInOrder, ServedInTurn, Contract!Eager, Contract!With, Contract!On
  <2> QED BY <2>1, <2>2
<1> QED BY <1>1, <1>2, PTL DEF ContractHonoured, Contract!Spec, OverForGood

=============================================================================
