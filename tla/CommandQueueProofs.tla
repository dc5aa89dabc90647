------------------------- MODULE CommandQueueProofs -------------------------
(***************************************************************************)
(* Proofs about CommandQueue for every set of lanes and waiters and every  *)
(* bound.  The inductive invariant describes the lanes by Shape, which is  *)
(* parameterised by the values a handler has computed when it calls pump,  *)
(* so that the one lemma about StartJobs serves every operation.           *)
(***************************************************************************)
EXTENDS CommandQueue, FiniteSetTheorems, SequenceTheorems, TLAPS

\* The types of the values pump starts from.
LaneTypes(q, a, g, ex, jg, p) ==
    /\ q \in [Lanes -> Seq(Job)]
    /\ a \in [Lanes -> SUBSET Job]
    /\ g \in [Lanes -> Nat]
    /\ ex \in [Job -> ExecState]
    /\ jg \in [Job -> Nat]
    /\ p \in [Job -> PromiseState]

\* Queues hold idle pending entries of their lane in order of arrival, after
\* everything that has started; active sets are exact.
Shape(q, a, g, ex, jg, p, n) ==
    /\ \A l \in Lanes : \A i \in 1..Len(q[l]) :
         /\ jobLane[q[l][i]] = l
         /\ ex[q[l][i]] = "idle"
         /\ p[q[l][i]] = "pending"
    /\ \A l \in Lanes : \A i, k \in 1..Len(q[l]) : i < k => q[l][i] < q[l][k]
    /\ \A l \in Lanes : \A j \in Job : \A i \in 1..Len(q[l]) :
         jobLane[j] = l /\ ex[j] # "idle" => j < q[l][i]
    /\ \A j \in Job : p[j] = "pending" /\ ex[j] = "idle" =>
         \E i \in 1..Len(q[jobLane[j]]) : q[jobLane[j]][i] = j
    /\ \A j \in Job : p[j] = "pending" => ex[j] # "ended"
    /\ \A j \in Job : jg[j] <= g[jobLane[j]]
    /\ \A j \in Job : j >= n => ex[j] = "idle" /\ p[j] = "none"
    /\ \A l \in Lanes : \A j \in Job :
         j \in a[l] <=> /\ jobLane[j] = l
                        /\ ex[j] = "running"
                        /\ p[j] = "pending"
                        /\ jg[j] = g[l]

\* A waiter only ever captures tasks that have started.
WaiterIdsStarted ==
    \A w \in Waiters : \A j \in waiterIds[w] : exec[j] # "idle"

\* The inductive invariant.
IInv ==
    /\ TypeOK
    /\ Shape(queue, active, generation, exec, jobGeneration, promise, nextJob)
    /\ NoIdleSlotWhileQueued
    /\ WaiterHasPendingTask
    /\ DrainedIsEarned
    /\ WaiterIdsStarted

-----------------------------------------------------------------------------
(* Facts about the operators                                               *)

\* Subsets of Job are finite and have a cardinality.
LEMMA JobsFinite ==
    ASSUME NEW S \in SUBSET Job
    PROVE  IsFiniteSet(S) /\ Cardinality(S) \in Nat
<1>1. IsFiniteSet(Job)
  BY FS_Interval, BoundsAssumption DEF Job
<1>2. IsFiniteSet(S)
  BY <1>1, FS_Subset
<1> QED
  BY <1>2, FS_CardinalityType

\* pump takes what fits: never more than is queued or free, and it stops only
\* when the queue is empty or the lane is full.
LEMMA PumpCountFacts ==
    ASSUME NEW len \in Nat, NEW n \in Nat, NEW m \in Nat
    PROVE  /\ PumpCount(len, n, m) \in 0..len
           /\ PumpCount(len, n, m) > 0 => n + PumpCount(len, n, m) <= m
           /\ PumpCount(len, n, m) < len => n + PumpCount(len, n, m) >= m
BY DEF PumpCount

\* What remains of a queue after its first k entries are shifted.
LEMMA RestFacts ==
    ASSUME NEW q \in Seq(Job), NEW k \in 0..Len(q)
    PROVE  /\ SubSeq(q, k + 1, Len(q)) \in Seq(Job)
           /\ Len(SubSeq(q, k + 1, Len(q))) = Len(q) - k
           /\ \A i \in 1..(Len(q) - k) : SubSeq(q, k + 1, Len(q))[i] = q[k + i]
<1> DEFINE s == SubSeq(q, k + 1, Len(q))
<1>0. Len(q) \in Nat /\ k \in Nat /\ k <= Len(q)
  BY LenProperties
<1>1. \A i \in (k + 1)..Len(q) : q[i] \in Job
  BY <1>0, ElementOfSeq
<1>2. /\ s \in Seq(Job)
      /\ Len(s) = IF k + 1 <= Len(q) THEN Len(q) - (k + 1) + 1 ELSE 0
      /\ \A i \in 1..(Len(q) - (k + 1) + 1) : s[i] = q[(k + 1) + i - 1]
  <2> HIDE DEF s
  <2> QED BY <1>0, <1>1, SubSeqProperties DEF s
<1>3. Len(q) - (k + 1) + 1 = Len(q) - k
  BY <1>0
<1>4. ASSUME NEW i \in 1..(Len(q) - k) PROVE s[i] = q[k + i]
  <2>1. (k + 1) + i - 1 = k + i
    BY <1>0
  <2> QED BY <1>2, <1>3, <2>1
<1> QED BY <1>0, <1>2, <1>3, <1>4

\* The first k entries of an increasing queue are k jobs.
LEMMA FirstJobsCardinality ==
    ASSUME NEW q \in Seq(Job), NEW k \in 0..Len(q),
           \A i, j \in 1..Len(q) : i < j => q[i] < q[j]
    PROVE  /\ FirstJobs(q, k) \in SUBSET Job
           /\ Cardinality(FirstJobs(q, k)) = k
<1> DEFINE f == [i \in 1..k |-> q[i]]
           T == FirstJobs(q, k)
<1>0. Len(q) \in Nat /\ k \in Nat /\ k <= Len(q) /\ 1..k \subseteq 1..Len(q)
  BY LenProperties
<1>1. \A i \in 1..k : q[i] \in Job
  BY <1>0, ElementOfSeq
<1>2. T \in SUBSET Job
  BY <1>1 DEF FirstJobs
<1>3. f \in [1..k -> T]
  BY DEF FirstJobs
<1>4. \A i, j \in 1..k : f[i] = f[j] => i = j
  <2> TAKE i, j \in 1..k
  <2>1. q[i] \in Int /\ q[j] \in Int
    BY <1>1, BoundsAssumption DEF Job
  <2> QED BY <1>0, <2>1
<1>5. \A t \in T : \E i \in 1..k : f[i] = t
  BY DEF FirstJobs
<1>6. f \in Bijection(1..k, T)
  BY <1>3, <1>4, <1>5 DEF Bijection, Injection, Surjection, IsInjective
<1>7. ExistsBijection(1..k, T)
  BY <1>6 DEF ExistsBijection
<1>8. Cardinality(T) = k
  BY <1>0, <1>7, FS_CountingElements
<1> QED BY <1>2, <1>8

\* pump preserves Shape: the entries it starts become active in the current
\* generation of their lane, and nothing they overtake is left behind them.
LEMMA StartJobsShape ==
    ASSUME NEW q, NEW a, NEW g, NEW ex, NEW p, NEW n \in Nat, NEW k,
           jobLane \in [Job -> Lanes],
           LaneTypes(q, a, g, ex, jobGeneration, p),
           Shape(q, a, g, ex, jobGeneration, p, n),
           \A l \in Lanes : k[l] \in 0..Len(q[l]),
           StartJobs(k, q, a, g, ex)
    PROVE  /\ LaneTypes(queue', active', g, exec', jobGeneration', p)
           /\ Shape(queue', active', g, exec', jobGeneration', p, n)
           /\ \A j \in Job : ex[j] # "idle" => exec'[j] = ex[j]
           /\ \A j \in Job : ex[j] # "idle" => jobGeneration'[j] = jobGeneration[j]
<1> DEFINE S(j) == j \in FirstJobs(q[jobLane[j]], k[jobLane[j]])
<1>0. /\ Job \subseteq Nat
      /\ \A l \in Lanes : q[l] \in Seq(Job) /\ Len(q[l]) \in Nat
      /\ \A l \in Lanes : \A i \in 1..Len(q[l]) : q[l][i] \in Job
      /\ \A l \in Lanes : k[l] \in Nat /\ k[l] <= Len(q[l])
      /\ \A j \in Job : jobLane[j] \in Lanes
  <2>1. Job \subseteq Nat
    BY BoundsAssumption DEF Job
  <2>2. ASSUME NEW l \in Lanes
        PROVE  /\ q[l] \in Seq(Job)
               /\ Len(q[l]) \in Nat
               /\ \A i \in 1..Len(q[l]) : q[l][i] \in Job
    <3>1. q[l] \in Seq(Job)
      BY DEF LaneTypes
    <3> QED BY <3>1, LenProperties, ElementOfSeq
  <2>3. \A l \in Lanes : k[l] \in Nat /\ k[l] <= Len(q[l])
    BY <2>2
  <2> QED BY <2>1, <2>2, <2>3
<1>1. ASSUME NEW l \in Lanes
      PROVE  /\ queue'[l] \in Seq(Job)
             /\ Len(queue'[l]) = Len(q[l]) - k[l]
             /\ \A i \in 1..(Len(q[l]) - k[l]) : queue'[l][i] = q[l][k[l] + i]
  BY <1>0, RestFacts DEF StartJobs
<1>2. /\ \A l \in Lanes : active'[l] = a[l] \cup FirstJobs(q[l], k[l])
      /\ \A j \in Job : exec'[j] = IF S(j) THEN "running" ELSE ex[j]
      /\ \A j \in Job : jobGeneration'[j] =
                           IF S(j) THEN g[jobLane[j]] ELSE jobGeneration[j]
  BY DEF StartJobs
<1>3. \A j \in Job : S(j) <=> \E i \in 1..k[jobLane[j]] : q[jobLane[j]][i] = j
  BY DEF FirstJobs
<1>4. ASSUME NEW j \in Job, S(j)
      PROVE  ex[j] = "idle" /\ p[j] = "pending"
  <2>1. PICK i \in 1..k[jobLane[j]] : q[jobLane[j]][i] = j
    BY <1>3, <1>4
  <2>2. i \in 1..Len(q[jobLane[j]])
    BY <1>0
  <2> QED BY <1>0, <2>1, <2>2 DEF Shape
<1>5. ASSUME NEW l \in Lanes, NEW i \in 1..Len(queue'[l])
      PROVE  /\ k[l] + i \in 1..Len(q[l])
             /\ queue'[l][i] = q[l][k[l] + i]
             /\ queue'[l][i] \in Job
             /\ jobLane[queue'[l][i]] = l
             /\ ~S(queue'[l][i])
  <2>0. /\ Len(queue'[l]) = Len(q[l]) - k[l]
        /\ \A x \in 1..(Len(q[l]) - k[l]) : queue'[l][x] = q[l][k[l] + x]
        /\ Len(q[l]) \in Nat /\ k[l] \in Nat
    BY <1>0, <1>1
  <2>1. k[l] + i \in 1..Len(q[l]) /\ queue'[l][i] = q[l][k[l] + i]
    BY SMTT(30), <2>0, <1>5
  <2>2. queue'[l][i] \in Job /\ jobLane[queue'[l][i]] = l
    BY <1>0, <2>1 DEF Shape
  <2>3. ASSUME NEW h \in 1..k[l] PROVE q[l][h] # q[l][k[l] + i]
    <3>1. h \in 1..Len(q[l]) /\ h < k[l] + i
      BY <1>0, <2>1
    <3>2. q[l][h] < q[l][k[l] + i] /\ q[l][h] \in Nat /\ q[l][k[l] + i] \in Nat
      BY <1>0, <2>1, <3>1 DEF Shape
    <3> QED BY <3>2
  <2>4. ~S(queue'[l][i])
    BY <1>3, <2>1, <2>2, <2>3
  <2> QED BY <2>1, <2>2, <2>4
<1> HIDE DEF S
<1>6. LaneTypes(queue', active', g, exec', jobGeneration', p)
  <2>1. queue' \in [Lanes -> Seq(Job)]
    BY <1>1 DEF StartJobs
  <2>2. \A l \in Lanes : active'[l] \in SUBSET Job
    <3> TAKE l \in Lanes
    <3>1. a[l] \subseteq Job
      BY DEF LaneTypes
    <3>2. \A i \in 1..k[l] : i \in 1..Len(q[l])
      BY <1>0
    <3>3. FirstJobs(q[l], k[l]) \subseteq Job
      BY <1>0, <3>2 DEF FirstJobs
    <3> QED BY <1>2, <3>1, <3>3
  <2>3. active' \in [Lanes -> SUBSET Job]
    BY <2>2 DEF StartJobs
  <2>4. exec' \in [Job -> ExecState]
    BY DEF StartJobs, LaneTypes, ExecState
  <2>5. jobGeneration' \in [Job -> Nat]
    BY <1>0 DEF StartJobs, LaneTypes
  <2> QED BY <2>1, <2>3, <2>4, <2>5 DEF LaneTypes
<1>7. \A l \in Lanes : \A i \in 1..Len(queue'[l]) :
         /\ jobLane[queue'[l][i]] = l
         /\ exec'[queue'[l][i]] = "idle"
         /\ p[queue'[l][i]] = "pending"
  <2> TAKE l \in Lanes
  <2> TAKE i \in 1..Len(queue'[l])
  <2> DEFINE j == queue'[l][i]
  <2>1. j \in Job /\ jobLane[j] = l /\ ~S(j)
    BY <1>5
  <2>2. ex[j] = "idle" /\ p[j] = "pending"
    <3>1. k[l] + i \in 1..Len(q[l]) /\ j = q[l][k[l] + i]
      BY <1>5
    <3> HIDE DEF j
    <3> QED BY <3>1 DEF Shape
  <2> HIDE DEF j
  <2>3. exec'[j] = "idle"
    BY <1>2, <2>1, <2>2
  <2> QED BY <2>1, <2>2, <2>3 DEF j
<1>8. ASSUME NEW l \in Lanes, NEW i \in 1..Len(queue'[l]), NEW h \in 1..Len(queue'[l]), i < h
      PROVE  queue'[l][i] < queue'[l][h]
  <2>1. k[l] + i < k[l] + h
    BY <1>0, <1>1, <1>8
  <2>2. /\ k[l] + i \in 1..Len(q[l]) /\ queue'[l][i] = q[l][k[l] + i]
        /\ k[l] + h \in 1..Len(q[l]) /\ queue'[l][h] = q[l][k[l] + h]
    BY <1>5
  <2>3. q[l][k[l] + i] < q[l][k[l] + h]
    BY <2>1, <2>2 DEF Shape
  <2> QED BY <2>2, <2>3
<1>9. ASSUME NEW l \in Lanes, NEW j \in Job, NEW i \in 1..Len(queue'[l]),
             jobLane[j] = l, exec'[j] # "idle"
      PROVE  j < queue'[l][i]
  <2>1. CASE S(j)
    <3>1. PICK h \in 1..k[l] : q[l][h] = j
      BY <1>3, <1>9, <2>1
    <3>2. h \in 1..Len(q[l]) /\ h < k[l] + i
      BY <1>0, <1>1
    <3>3. k[l] + i \in 1..Len(q[l]) /\ queue'[l][i] = q[l][k[l] + i]
      BY <1>5
    <3>4. q[l][h] < q[l][k[l] + i]
      BY <3>2, <3>3 DEF Shape
    <3> QED BY <3>1, <3>3, <3>4
  <2>2. CASE ~S(j)
    BY SMTT(30), <1>2, <1>5, <1>9, <2>2 DEF Shape
  <2> QED BY <2>1, <2>2
<1>10. ASSUME NEW j \in Job, p[j] = "pending", exec'[j] = "idle"
       PROVE  \E i \in 1..Len(queue'[jobLane[j]]) : queue'[jobLane[j]][i] = j
  <2> DEFINE l == jobLane[j]
  <2>1. ~S(j) /\ ex[j] = "idle"
    BY <1>2, <1>10
  <2>2. PICK h \in 1..Len(q[l]) : q[l][h] = j
    BY <1>10, <2>1 DEF Shape
  <2>3. h > k[l]
    BY <1>0, <1>3, <2>1, <2>2
  <2>4. h - k[l] \in 1..Len(queue'[l]) /\ k[l] + (h - k[l]) = h
    BY <1>0, <1>1, <2>3
  <2>5. queue'[l][h - k[l]] = j
    <3>1. queue'[l][h - k[l]] = q[l][k[l] + (h - k[l])]
      BY <1>0, <1>5, <2>4
    <3> QED BY <2>2, <2>4, <3>1
  <2> QED BY <2>4, <2>5
<1>11. \A j \in Job : p[j] = "pending" => exec'[j] # "ended"
  BY <1>2 DEF Shape
<1>12. \A j \in Job : jobGeneration'[j] <= g[jobLane[j]]
  BY <1>0, <1>2 DEF Shape, LaneTypes
<1>13. \A j \in Job : j >= n => exec'[j] = "idle" /\ p[j] = "none"
  BY <1>2, <1>4 DEF Shape
<1>14. ASSUME NEW l \in Lanes, NEW j \in Job
       PROVE  j \in active'[l] <=> /\ jobLane[j] = l
                                   /\ exec'[j] = "running"
                                   /\ p[j] = "pending"
                                   /\ jobGeneration'[j] = g[l]
  <2>1. j \in FirstJobs(q[l], k[l]) <=> jobLane[j] = l /\ S(j)
    <3>1. ASSUME j \in FirstJobs(q[l], k[l]) PROVE jobLane[j] = l
      <4>1. PICK i \in 1..k[l] : q[l][i] = j
        BY <3>1 DEF FirstJobs
      <4>2. i \in 1..Len(q[l])
        BY <1>0
      <4> QED BY <4>1, <4>2 DEF Shape
    <3> QED BY <3>1 DEF S
  <2>2. CASE S(j)
    BY <1>2, <1>4, <2>1, <2>2 DEF Shape
  <2>3. CASE ~S(j)
    BY <1>2, <2>1, <2>3 DEF Shape
  <2> QED BY <2>2, <2>3
<1>15. Shape(queue', active', g, exec', jobGeneration', p, n)
  BY <1>7, <1>8, <1>9, <1>10, <1>11, <1>12, <1>13, <1>14 DEF Shape
<1> QED BY <1>2, <1>4, <1>6, <1>15

\* The counts pump uses are legal, lane by lane.
LEMMA PumpCountsFacts ==
    ASSUME NEW D, NEW q \in [Lanes -> Seq(Job)], NEW a \in [Lanes -> SUBSET Job],
           NEW m \in [Lanes -> Nat], NEW l \in Lanes
    PROVE  LET c == PumpCounts(D, q, a, m)[l]
           IN  /\ c \in 0..Len(q[l])
               /\ c > 0 => Cardinality(a[l]) + c <= m[l]
               /\ l \in D /\ c < Len(q[l]) => Cardinality(a[l]) + c >= m[l]
               /\ l \notin D => c = 0
<1>1. Len(q[l]) \in Nat /\ Cardinality(a[l]) \in Nat /\ m[l] \in Nat
  BY LenProperties, JobsFinite
<1>2. CASE l \in D
  <2>1. PumpCounts(D, q, a, m)[l] = PumpCount(Len(q[l]), Cardinality(a[l]), m[l])
    BY <1>2 DEF PumpCounts
  <2> QED BY <1>1, <1>2, <2>1, PumpCountFacts
<1>3. CASE l \notin D
  <2>1. PumpCounts(D, q, a, m)[l] = 0
    BY <1>3 DEF PumpCounts
  <2> QED BY <1>1, <1>3, <2>1
<1> QED BY <1>2, <1>3

\* pump on the lanes of D leaves every one of them empty or full, and starts
\* nothing beyond a lane's limit.
LEMMA PumpFills ==
    ASSUME NEW q, NEW a, NEW g, NEW ex, NEW p, NEW n \in Nat,
           NEW m \in [Lanes -> Nat], NEW D,
           jobLane \in [Job -> Lanes],
           LaneTypes(q, a, g, ex, jobGeneration, p),
           Shape(q, a, g, ex, jobGeneration, p, n),
           Pump(D, q, a, m, g, ex),
           \A l \in Lanes : l \notin D /\ q[l] # <<>> => Cardinality(a[l]) >= m[l]
    PROVE  \A l \in Lanes :
             /\ queue'[l] # <<>> => Cardinality(active'[l]) >= m[l]
             /\ active'[l] \ a[l] # {} => Cardinality(active'[l]) <= m[l]
<1> SUFFICES ASSUME NEW l \in Lanes
             PROVE  /\ queue'[l] # <<>> => Cardinality(active'[l]) >= m[l]
                    /\ active'[l] \ a[l] # {} => Cardinality(active'[l]) <= m[l]
  OBVIOUS
<1> DEFINE c == PumpCounts(D, q, a, m)[l]
           T == FirstJobs(q[l], c)
<1>1. q[l] \in Seq(Job) /\ a[l] \in SUBSET Job /\ m[l] \in Nat /\ Len(q[l]) \in Nat
  BY LenProperties DEF LaneTypes
<1>2. /\ c \in 0..Len(q[l])
      /\ c > 0 => Cardinality(a[l]) + c <= m[l]
      /\ l \in D /\ c < Len(q[l]) => Cardinality(a[l]) + c >= m[l]
      /\ l \notin D => c = 0
  BY PumpCountsFacts DEF LaneTypes
<1>3. queue'[l] = SubSeq(q[l], c + 1, Len(q[l])) /\ active'[l] = a[l] \cup T
  BY DEF Pump, StartJobs
<1>4. \A i, j \in 1..Len(q[l]) : i < j => q[l][i] < q[l][j]
  BY DEF Shape
<1> HIDE DEF c
<1>5. T \in SUBSET Job /\ Cardinality(T) = c
  BY <1>1, <1>2, <1>4, FirstJobsCardinality
<1>6. a[l] \cap T = {}
  <2> SUFFICES ASSUME NEW i \in 1..c PROVE q[l][i] \notin a[l]
    BY DEF FirstJobs
  <2>1. i \in 1..Len(q[l])
    BY <1>1, <1>2
  <2>2. ex[q[l][i]] = "idle"
    BY <2>1 DEF Shape
  <2>3. \A j \in a[l] : ex[j] = "running"
    BY <1>1 DEF Shape
  <2> QED BY <2>2, <2>3
<1>7. Cardinality(active'[l]) = Cardinality(a[l]) + c
  <2>1. IsFiniteSet(a[l]) /\ IsFiniteSet(T) /\ Cardinality(a[l]) \in Nat
    BY <1>1, <1>5, JobsFinite
  <2>2. Cardinality(a[l] \cup T) =
          Cardinality(a[l]) + Cardinality(T) - Cardinality(a[l] \cap T)
    BY <2>1, FS_Union
  <2>3. Cardinality(a[l] \cap T) = 0
    BY <1>6, FS_EmptySet
  <2>4. c \in Nat
    BY <1>1, <1>2
  <2> HIDE DEF T
  <2> QED BY <1>3, <1>5, <2>1, <2>2, <2>3, <2>4
<1>8. Cardinality(a[l]) \in Nat
  BY <1>1, JobsFinite
<1>9. ASSUME queue'[l] # <<>> PROVE Cardinality(active'[l]) >= m[l]
  <2>1. c < Len(q[l])
    <3>1. SUFFICES ASSUME c = Len(q[l]) PROVE FALSE
      BY <1>1, <1>2
    <3>2. queue'[l] = <<>>
      BY <1>1, <1>3, <3>1, SubSeqEmpty
    <3> QED BY <1>9, <3>2
  <2>2. CASE l \in D
    BY <1>1, <1>2, <1>7, <1>8, <2>1, <2>2
  <2>3. CASE l \notin D
    <3>1. q[l] # <<>>
      BY <1>1, <1>2, <2>1, <2>3, EmptySeq
    <3> QED BY <1>1, <1>2, <1>7, <1>8, <2>3, <3>1
  <2> QED BY <2>2, <2>3
<1>10. ASSUME active'[l] \ a[l] # {} PROVE Cardinality(active'[l]) <= m[l]
  <2>1. c > 0
    <3>1. T # {}
      BY <1>3, <1>10
    <3> QED BY <1>2, <3>1 DEF FirstJobs
  <2> QED BY <1>1, <1>2, <1>7, <1>8, <2>1
<1> QED BY <1>9, <1>10

\* A waiter none of whose started tasks is active has had them all settled or
\* force-released.
LEMMA NothingPending ==
    ASSUME NEW q, NEW a, NEW g, NEW ex, NEW jg, NEW p, NEW n,
           jobLane \in [Job -> Lanes],
           LaneTypes(q, a, g, ex, jg, p),
           Shape(q, a, g, ex, jg, p, n),
           NEW ids \in SUBSET Job,
           \A j \in ids : ex[j] # "idle",
           ~HasPendingActiveTasks(ids, a)
    PROVE  \A j \in ids : p[j] # "pending" \/ jg[j] < g[jobLane[j]]
<1> SUFFICES ASSUME NEW j \in ids, p[j] = "pending"
             PROVE  jg[j] < g[jobLane[j]]
  OBVIOUS
<1>1. j \in Job /\ jobLane[j] \in Lanes
  OBVIOUS
<1>2. ex[j] = "running"
  BY <1>1 DEF LaneTypes, ExecState, Shape
<1>3. j \notin a[jobLane[j]]
  BY <1>1 DEF HasPendingActiveTasks
<1>4. jg[j] # g[jobLane[j]]
  BY <1>1, <1>2, <1>3 DEF Shape
<1>5. jg[j] <= g[jobLane[j]] /\ jg[j] \in Nat /\ g[jobLane[j]] \in Nat
  BY <1>1 DEF Shape, LaneTypes
<1> QED BY <1>4, <1>5

\* What every handler that ends in pump establishes about the lanes.
LEMMA PumpStep ==
    ASSUME NEW q, NEW a, NEW g, NEW ex, NEW p, NEW n \in Nat,
           NEW m \in [Lanes -> Nat], NEW D,
           jobLane \in [Job -> Lanes],
           LaneTypes(q, a, g, ex, jobGeneration, p),
           Shape(q, a, g, ex, jobGeneration, p, n),
           Pump(D, q, a, m, g, ex),
           \A l \in Lanes : l \notin D /\ q[l] # <<>> => Cardinality(a[l]) >= m[l],
           jobLane' = jobLane, generation' = g, promise' = p, nextJob' = n,
           maxConcurrent' = m
    PROVE  /\ LaneTypes(queue, active, generation, exec, jobGeneration, promise)'
           /\ Shape(queue, active, generation, exec, jobGeneration, promise, nextJob)'
           /\ NoIdleSlotWhileQueued'
           /\ \A l \in Lanes : a[l] \subseteq active'[l]
           /\ \A j \in Job : ex[j] # "idle" => exec'[j] = ex[j]
           /\ \A j \in Job : ex[j] # "idle" => jobGeneration'[j] = jobGeneration[j]
           /\ \A l \in Lanes :
                active'[l] \ a[l] # {} => Cardinality(active'[l]) <= maxConcurrent'[l]
<1> DEFINE k == PumpCounts(D, q, a, m)
<1>1. StartJobs(k, q, a, g, ex)
  BY DEF Pump
<1>2. \A l \in Lanes : k[l] \in 0..Len(q[l])
  BY PumpCountsFacts DEF LaneTypes
<1> HIDE DEF k
<1>3. /\ LaneTypes(queue', active', g, exec', jobGeneration', p)
      /\ Shape(queue', active', g, exec', jobGeneration', p, n)
      /\ \A j \in Job : ex[j] # "idle" => exec'[j] = ex[j]
      /\ \A j \in Job : ex[j] # "idle" => jobGeneration'[j] = jobGeneration[j]
  BY <1>1, <1>2, StartJobsShape
<1>4. \A l \in Lanes :
        /\ queue'[l] # <<>> => Cardinality(active'[l]) >= m[l]
        /\ active'[l] \ a[l] # {} => Cardinality(active'[l]) <= m[l]
  BY PumpFills
<1>5. \A l \in Lanes : a[l] \subseteq active'[l]
  BY <1>1 DEF StartJobs
<1>6. LaneTypes(queue, active, generation, exec, jobGeneration, promise)'
  BY <1>3 DEF LaneTypes
<1>7. Shape(queue, active, generation, exec, jobGeneration, promise, nextJob)'
  BY <1>3 DEF Shape
<1>8. NoIdleSlotWhileQueued'
  BY <1>4 DEF NoIdleSlotWhileQueued
<1> QED BY <1>3, <1>4, <1>5, <1>6, <1>7, <1>8

\* What LimitRespectedOnStart says of one step.
StartsWithinLimit ==
    \A l \in Lanes : active'[l] \ active[l] # {} =>
        Cardinality(active'[l]) <= maxConcurrent'[l]

-----------------------------------------------------------------------------
(* The invariant is inductive                                              *)

\* Freshly created lanes, with nothing queued and nobody waiting, satisfy the
\* invariant.
LEMMA InitInvariant == Init => IInv
<1> SUFFICES ASSUME Init PROVE IInv
  OBVIOUS
<1> USE DEF Init
<1>0. /\ 1 \in 1..(MaxJobs + 1)
      /\ Job \subseteq Nat
      /\ \A j \in Job : j >= 1
  BY BoundsAssumption DEF Job
<1>1. TypeOK
  <2>1. queue \in [Lanes -> Seq(Job)]
    BY EmptySeq
  <2> QED BY <1>0, <2>1, TimedAssumption DEF TypeOK, ExecState, PromiseState, WaiterState
<1>2. Shape(queue, active, generation, exec, jobGeneration, promise, nextJob)
  <2>1. \A l \in Lanes : Len(queue[l]) = 0 /\ 1..Len(queue[l]) = {}
    BY EmptySeq
  <2> QED BY <1>0, <1>1, <2>1 DEF Shape, TypeOK
<1>3. NoIdleSlotWhileQueued /\ WaiterHasPendingTask /\ DrainedIsEarned /\ WaiterIdsStarted
  BY DEF NoIdleSlotWhileQueued, WaiterHasPendingTask, DrainedIsEarned, WaiterIdsStarted
<1> QED BY <1>1, <1>2, <1>3 DEF IInv

\* The lane part of the type invariant, and the rest of it.
LEMMA TypeParts ==
    TypeOK <=> /\ LaneTypes(queue, active, generation, exec, jobGeneration, promise)
               /\ maxConcurrent \in [Lanes -> Nat]
               /\ gatewayDraining \in BOOLEAN
               /\ nextJob \in 1..(MaxJobs + 1)
               /\ jobLane \in [Job -> Lanes]
               /\ jobTimed \in [Job -> BOOLEAN]
               /\ waiter \in [Waiters -> WaiterState]
               /\ waiterIds \in [Waiters -> SUBSET Job]
BY DEF TypeOK, LaneTypes

\* Waiters that a handler leaves alone, when it only adds active tasks and
\* keeps the outcome and generation of the tasks the waiters captured.
LEMMA WaitersUntouched ==
    ASSUME IInv, UNCHANGED <<waiter, waiterIds, jobLane>>,
           \A l \in Lanes : generation'[l] = generation[l],
           \A l \in Lanes : active[l] \subseteq active'[l],
           \A j \in Job : exec[j] # "idle" =>
              /\ exec'[j] # "idle"
              /\ jobGeneration'[j] = jobGeneration[j]
              /\ promise[j] # "pending" => promise'[j] # "pending"
    PROVE  WaiterHasPendingTask' /\ DrainedIsEarned' /\ WaiterIdsStarted'
<1>0. /\ waiterIds \in [Waiters -> SUBSET Job] /\ jobLane \in [Job -> Lanes]
      /\ WaiterHasPendingTask /\ DrainedIsEarned /\ WaiterIdsStarted
  BY DEF IInv, TypeOK
<1>1. WaiterIdsStarted'
  BY <1>0 DEF WaiterIdsStarted
<1>2. WaiterHasPendingTask'
  BY <1>0 DEF WaiterHasPendingTask, HasPendingActiveTasks
<1>3. DrainedIsEarned'
  BY <1>0 DEF DrainedIsEarned, WaiterIdsStarted
<1> QED BY <1>1, <1>2, <1>3

\* enqueueCommandInLane keeps the invariant: the new entry is the youngest of
\* its lane, and the drain that follows starts entries in order.
LEMMA EnqueueInvariant ==
    ASSUME IInv, Enqueue PROVE IInv' /\ StartsWithinLimit
<1> DEFINE l == jobLane[nextJob]
           q == [queue EXCEPT ![l] = Append(@, nextJob)]
           p == [promise EXCEPT ![nextJob] = "pending"]
<1>1. /\ TypeOK
      /\ LaneTypes(queue, active, generation, exec, jobGeneration, promise)
      /\ Shape(queue, active, generation, exec, jobGeneration, promise, nextJob)
  BY TypeParts DEF IInv
<1>2. /\ jobLane \in [Job -> Lanes] /\ nextJob \in Job /\ l \in Lanes
      /\ nextJob + 1 \in Nat /\ nextJob + 1 \in 1..(MaxJobs + 1)
      /\ Job \subseteq Nat
      /\ maxConcurrent \in [Lanes -> Nat]
  BY <1>1, BoundsAssumption DEF TypeOK, Enqueue, Job
<1>3. Pump({l}, q, active, maxConcurrent, generation, exec)
  BY DEF Enqueue
<1>4. /\ promise' = p /\ nextJob' = nextJob + 1
      /\ UNCHANGED <<maxConcurrent, generation, gatewayDraining, jobLane,
                     jobTimed, waiter, waiterIds>>
  BY DEF Enqueue, waiterVars
<1>5. /\ q[l] = Append(queue[l], nextJob) /\ q[l] \in Seq(Job)
      /\ Len(q[l]) = Len(queue[l]) + 1 /\ Len(queue[l]) \in Nat
      /\ \A i \in 1..Len(queue[l]) : q[l][i] = queue[l][i]
      /\ q[l][Len(queue[l]) + 1] = nextJob
      /\ \A k \in Lanes : k # l => q[k] = queue[k]
  <2>1. queue[l] \in Seq(Job) /\ queue \in [Lanes -> Seq(Job)]
    BY <1>1, <1>2 DEF LaneTypes
  <2>2. q[l] = Append(queue[l], nextJob)
    BY <1>2, <2>1
  <2>3. \A k \in Lanes : k # l => q[k] = queue[k]
    BY <2>1
  <2> QED BY <1>2, <2>1, <2>2, <2>3, AppendProperties, LenProperties
<1>6. /\ p[nextJob] = "pending" /\ exec[nextJob] = "idle" /\ promise[nextJob] = "none"
      /\ \A j \in Job : j # nextJob => p[j] = promise[j]
  BY <1>1, <1>2 DEF LaneTypes, Shape
<1>7. LaneTypes(q, active, generation, exec, jobGeneration, p)
  <2>1. q \in [Lanes -> Seq(Job)]
    BY <1>1, <1>2, <1>5 DEF LaneTypes
  <2>2. p \in [Job -> PromiseState]
    BY <1>1 DEF LaneTypes, PromiseState
  <2> QED BY <1>1, <2>1, <2>2 DEF LaneTypes
<1>8. \A k \in Lanes : \A i \in 1..Len(queue[k]) :
        queue[k][i] \in Job /\ queue[k][i] < nextJob
  <2> TAKE k \in Lanes
  <2> TAKE i \in 1..Len(queue[k])
  <2>1. queue[k][i] \in Job /\ promise[queue[k][i]] = "pending"
    BY <1>1, ElementOfSeq DEF LaneTypes, Shape
  <2>2. ~(queue[k][i] >= nextJob)
    BY <1>1, <2>1 DEF Shape
  <2>3. queue[k][i] \in Nat /\ nextJob \in Nat
    BY <1>2, <2>1
  <2> QED BY <2>1, <2>2, <2>3
<1> HIDE DEF q, p, l
<1>9. Shape(q, active, generation, exec, jobGeneration, p, nextJob + 1)
  <2>1. \A k \in Lanes : \A i \in 1..Len(q[k]) :
          \/ i \in 1..Len(queue[k]) /\ q[k][i] = queue[k][i]
          \/ k = l /\ i = Len(queue[l]) + 1 /\ q[k][i] = nextJob
    <3> TAKE k \in Lanes
    <3> TAKE i \in 1..Len(q[k])
    <3>1. CASE k = l
      BY <1>5, <3>1
    <3>2. CASE k # l
      BY <1>5, <3>2
    <3> QED BY <3>1, <3>2
  <2>2. ASSUME NEW k \in Lanes, NEW i \in 1..Len(q[k])
        PROVE  jobLane[q[k][i]] = k /\ exec[q[k][i]] = "idle" /\ p[q[k][i]] = "pending"
    <3>1. CASE i \in 1..Len(queue[k]) /\ q[k][i] = queue[k][i]
      <4>1. queue[k][i] # nextJob /\ queue[k][i] \in Job
        BY <1>2, <1>8, <3>1
      <4> QED BY <1>1, <1>6, <3>1, <4>1 DEF Shape
    <3>2. CASE k = l /\ q[k][i] = nextJob
      BY <1>6, <3>2 DEF l
    <3> QED BY <2>1, <3>1, <3>2
  <2>3. ASSUME NEW k \in Lanes, NEW i \in 1..Len(q[k]), NEW h \in 1..Len(q[k]), i < h
        PROVE  q[k][i] < q[k][h]
    <3>1. CASE h \in 1..Len(queue[k]) /\ q[k][h] = queue[k][h]
      <4>1. i \in 1..Len(queue[k]) /\ q[k][i] = queue[k][i]
        <5>1. Len(queue[k]) \in Nat
          BY <1>1, LenProperties DEF LaneTypes
        <5>2. i \in 1..Len(queue[k])
          BY <2>3, <3>1, <5>1
        <5> QED BY <1>5, <5>2
      <4> QED BY <1>1, <2>3, <3>1, <4>1 DEF Shape
    <3>2. CASE k = l /\ h = Len(queue[l]) + 1 /\ q[k][h] = nextJob
      <4>1. i \in 1..Len(queue[k]) /\ q[k][i] = queue[k][i]
        BY <1>5, <2>3, <3>2
      <4> QED BY <1>8, <3>2, <4>1
    <3> QED BY <2>1, <3>1, <3>2
  <2>4. ASSUME NEW k \in Lanes, NEW j \in Job, NEW i \in 1..Len(q[k]),
               jobLane[j] = k, exec[j] # "idle"
        PROVE  j < q[k][i]
    <3>1. CASE i \in 1..Len(queue[k]) /\ q[k][i] = queue[k][i]
      BY <1>1, <2>4, <3>1 DEF Shape
    <3>2. CASE q[k][i] = nextJob
      <4>1. ~(j >= nextJob)
        BY <1>1, <2>4 DEF Shape
      <4> QED BY <1>2, <3>2, <4>1
    <3> QED BY <2>1, <3>1, <3>2
  <2>5. ASSUME NEW j \in Job, p[j] = "pending", exec[j] = "idle"
        PROVE  \E i \in 1..Len(q[jobLane[j]]) : q[jobLane[j]][i] = j
    <3>1. CASE j = nextJob
      <4>1. Len(queue[l]) + 1 \in 1..Len(q[l])
        BY <1>5
      <4> QED BY <1>5, <3>1, <4>1 DEF l
    <3>2. CASE j # nextJob
      <4>1. PICK i \in 1..Len(queue[jobLane[j]]) : queue[jobLane[j]][i] = j
        BY <1>1, <1>6, <2>5, <3>2 DEF Shape
      <4>2. jobLane[j] \in Lanes
        BY <1>2
      <4>3. i \in 1..Len(q[jobLane[j]]) /\ q[jobLane[j]][i] = j
        BY SMTT(30), <1>5, <4>1, <4>2
      <4> QED BY <4>3
    <3> QED BY <3>1, <3>2
  <2>6. \A j \in Job : p[j] = "pending" => exec[j] # "ended"
    BY <1>1, <1>6 DEF Shape
  <2>7. \A j \in Job : jobGeneration[j] <= generation[jobLane[j]]
    BY <1>1 DEF Shape
  <2>8. \A j \in Job : j >= nextJob + 1 => exec[j] = "idle" /\ p[j] = "none"
    BY <1>1, <1>2, <1>6 DEF Shape
  <2>9. \A k \in Lanes : \A j \in Job :
          j \in active[k] <=> /\ jobLane[j] = k
                              /\ exec[j] = "running"
                              /\ p[j] = "pending"
                              /\ jobGeneration[j] = generation[k]
    BY <1>1, <1>2, <1>6 DEF Shape
  <2> QED BY <2>2, <2>3, <2>4, <2>5, <2>6, <2>7, <2>8, <2>9 DEF Shape
<1>10. \A k \in Lanes : k \notin {l} /\ q[k] # <<>> =>
         Cardinality(active[k]) >= maxConcurrent[k]
  BY <1>5 DEF IInv, NoIdleSlotWhileQueued
<1>11. /\ LaneTypes(queue, active, generation, exec, jobGeneration, promise)'
       /\ Shape(queue, active, generation, exec, jobGeneration, promise, nextJob)'
       /\ NoIdleSlotWhileQueued'
       /\ \A k \in Lanes : active[k] \subseteq active'[k]
       /\ \A j \in Job : exec[j] # "idle" => exec'[j] = exec[j]
       /\ \A j \in Job : exec[j] # "idle" => jobGeneration'[j] = jobGeneration[j]
       /\ StartsWithinLimit
  BY <1>2, <1>3, <1>4, <1>7, <1>9, <1>10, PumpStep DEF StartsWithinLimit
<1>12. TypeOK'
  BY <1>1, <1>2, <1>4, <1>11 DEF TypeOK, LaneTypes
<1>13. \A j \in Job : exec[j] # "idle" => p[j] = promise[j]
  BY <1>6
<1>14. WaiterHasPendingTask' /\ DrainedIsEarned' /\ WaiterIdsStarted'
  BY <1>4, <1>11, <1>13, WaitersUntouched
<1> QED BY <1>11, <1>12, <1>14 DEF IInv

\* The two ways the await in pump returns share their effect on the lane.
LEMMA ReleaseInvariant ==
    ASSUME IInv, NEW j \in Job, exec[j] = "running", promise[j] = "pending",
           NEW outcome \in {"settled", "timedout"}, NEW ex \in [Job -> ExecState],
           ex[j] # "idle", \A i \in Job : i # j => ex[i] = exec[i],
           Release(j, outcome, ex)
    PROVE  IInv' /\ StartsWithinLimit
<1> DEFINE l == jobLane[j]
           left == [active EXCEPT ![l] = @ \ {j}]
           p == [promise EXCEPT ![j] = outcome]
<1>1. /\ TypeOK
      /\ LaneTypes(queue, active, generation, exec, jobGeneration, promise)
      /\ Shape(queue, active, generation, exec, jobGeneration, promise, nextJob)
      /\ NoIdleSlotWhileQueued /\ WaiterHasPendingTask /\ DrainedIsEarned
      /\ WaiterIdsStarted
  BY TypeParts DEF IInv
<1>2. /\ jobLane \in [Job -> Lanes] /\ l \in Lanes
      /\ nextJob \in Nat
      /\ maxConcurrent \in [Lanes -> Nat]
      /\ waiter \in [Waiters -> WaiterState]
      /\ waiterIds \in [Waiters -> SUBSET Job]
  BY <1>1, BoundsAssumption DEF TypeOK
<1>3. /\ promise' = p
      /\ UNCHANGED <<maxConcurrent, generation, gatewayDraining, nextJob,
                     jobLane, jobTimed, waiterIds>>
  BY DEF Release
<1>4. /\ p \in [Job -> PromiseState] /\ p[j] = outcome
      /\ \A i \in Job : i # j => p[i] = promise[i]
  BY <1>1 DEF LaneTypes, PromiseState
<1>5. /\ left \in [Lanes -> SUBSET Job] /\ left[l] = active[l] \ {j}
      /\ \A k \in Lanes : k # l => left[k] = active[k]
  BY <1>1, <1>2 DEF LaneTypes
<1>6. \A k \in Lanes : \A i \in 1..Len(queue[k]) : queue[k][i] \in Job \ {j}
  <2> TAKE k \in Lanes
  <2> TAKE i \in 1..Len(queue[k])
  <2>1. queue[k][i] \in Job
    BY <1>1, ElementOfSeq DEF LaneTypes
  <2>2. exec[queue[k][i]] = "idle"
    BY <1>1 DEF Shape
  <2> QED BY <2>1, <2>2
<1> HIDE DEF p, l, left
\* What Shape says apart from the active sets, whichever branch is taken.
<1>7. /\ \A k \in Lanes : \A i \in 1..Len(queue[k]) :
           jobLane[queue[k][i]] = k /\ ex[queue[k][i]] = "idle" /\ p[queue[k][i]] = "pending"
      /\ \A k \in Lanes : \A i, h \in 1..Len(queue[k]) : i < h => queue[k][i] < queue[k][h]
      /\ \A k \in Lanes : \A o \in Job : \A i \in 1..Len(queue[k]) :
           jobLane[o] = k /\ ex[o] # "idle" => o < queue[k][i]
      /\ \A o \in Job : p[o] = "pending" /\ ex[o] = "idle" =>
           \E i \in 1..Len(queue[jobLane[o]]) : queue[jobLane[o]][i] = o
      /\ \A o \in Job : p[o] = "pending" => ex[o] # "ended"
      /\ \A o \in Job : jobGeneration[o] <= generation[jobLane[o]]
      /\ \A o \in Job : o >= nextJob => ex[o] = "idle" /\ p[o] = "none"
  <2>1. \A k \in Lanes : \A i \in 1..Len(queue[k]) :
           jobLane[queue[k][i]] = k /\ ex[queue[k][i]] = "idle" /\ p[queue[k][i]] = "pending"
    BY <1>1, <1>4, <1>6 DEF Shape
  <2>2. \A k \in Lanes : \A o \in Job : \A i \in 1..Len(queue[k]) :
           jobLane[o] = k /\ ex[o] # "idle" => o < queue[k][i]
    <3> TAKE k \in Lanes
    <3> TAKE o \in Job
    <3>1. ex[o] # "idle" => exec[o] # "idle"
      OBVIOUS
    <3> QED BY <1>1, <3>1 DEF Shape
  <2>3. \A o \in Job : p[o] = "pending" =>
           o # j /\ promise[o] = "pending" /\ ex[o] = exec[o]
    BY <1>4
  <2>4. \A o \in Job : o >= nextJob => o # j
    BY <1>1 DEF Shape
  <2> QED BY <1>1, <1>4, <2>1, <2>2, <2>3, <2>4 DEF Shape
<1>8. CASE /\ jobGeneration[j] = generation[l]
           /\ NotifyActiveTaskWaiters(left)
           /\ Pump({l}, queue, left, maxConcurrent, generation, ex)
  <2>1. LaneTypes(queue, left, generation, ex, jobGeneration, p)
    BY <1>1, <1>4, <1>5 DEF LaneTypes
  <2>2. \A k \in Lanes : \A o \in Job :
          o \in left[k] <=> /\ jobLane[o] = k
                            /\ ex[o] = "running"
                            /\ p[o] = "pending"
                            /\ jobGeneration[o] = generation[k]
    <3> TAKE k \in Lanes
    <3> TAKE o \in Job
    <3>1. CASE o = j
      <4>1. j \notin left[k]
        BY <1>1, <1>5 DEF l, Shape
      <4> QED BY <1>4, <3>1, <4>1
    <3>2. CASE o # j
      <4>1. o \in left[k] <=> o \in active[k]
        BY <1>5, <3>2
      <4> QED BY <1>1, <1>4, <3>2, <4>1 DEF Shape
    <3> QED BY <3>1, <3>2
  <2>3. Shape(queue, left, generation, ex, jobGeneration, p, nextJob)
    BY <1>7, <2>2 DEF Shape
  <2>4. \A k \in Lanes : k \notin {l} /\ queue[k] # <<>> =>
          Cardinality(left[k]) >= maxConcurrent[k]
    BY <1>1, <1>5 DEF NoIdleSlotWhileQueued
  <2>5. /\ LaneTypes(queue, active, generation, exec, jobGeneration, promise)'
        /\ Shape(queue, active, generation, exec, jobGeneration, promise, nextJob)'
        /\ NoIdleSlotWhileQueued'
        /\ \A k \in Lanes : left[k] \subseteq active'[k]
        /\ \A i \in Job : ex[i] # "idle" => exec'[i] = ex[i]
        /\ \A i \in Job : ex[i] # "idle" => jobGeneration'[i] = jobGeneration[i]
        /\ \A k \in Lanes :
             active'[k] \ left[k] # {} => Cardinality(active'[k]) <= maxConcurrent'[k]
    <3>1. /\ jobLane \in [Job -> Lanes] /\ nextJob \in Nat
          /\ maxConcurrent \in [Lanes -> Nat]
      BY <1>2
    <3>2. /\ jobLane' = jobLane /\ generation' = generation /\ promise' = p
          /\ nextJob' = nextJob /\ maxConcurrent' = maxConcurrent
      BY <1>3
    <3>3. Pump({l}, queue, left, maxConcurrent, generation, ex)
      BY <1>8
    <3> QED BY <2>1, <2>3, <2>4, <3>1, <3>2, <3>3, PumpStep
  <2>6. /\ waiter' \in [Waiters -> WaiterState]
        /\ \A w \in Waiters : waiter'[w] =
             IF waiter[w] = "waiting" /\ ~HasPendingActiveTasks(waiterIds[w], left)
               THEN "drained" ELSE waiter[w]
    BY <1>2, <1>8 DEF NotifyActiveTaskWaiters, WaiterState
  <2>7. TypeOK'
    BY <1>1, <1>3, <2>5, <2>6 DEF TypeOK, LaneTypes
  <2>8. \A i \in Job : exec[i] # "idle" => ex[i] # "idle"
    OBVIOUS
  <2>9. WaiterIdsStarted'
    BY <1>1, <1>2, <1>3, <2>5, <2>8 DEF WaiterIdsStarted
  <2>10. WaiterHasPendingTask'
    BY <1>2, <1>3, <2>5, <2>6 DEF WaiterHasPendingTask, HasPendingActiveTasks
  <2>11. DrainedIsEarned'
    <3> SUFFICES ASSUME NEW w \in Waiters, waiter'[w] = "drained", NEW i \in waiterIds[w]
                 PROVE  p[i] # "pending" \/ jobGeneration'[i] < generation[jobLane[i]]
      BY <1>3 DEF DrainedIsEarned
    <3>1. i \in Job /\ ex[i] # "idle" /\ jobGeneration'[i] = jobGeneration[i]
      BY <1>1, <1>2, <2>5, <2>8 DEF WaiterIdsStarted
    <3>2. CASE waiter[w] = "drained"
      <4>1. promise[i] # "pending" \/ jobGeneration[i] < generation[jobLane[i]]
        BY <1>1, <3>2 DEF DrainedIsEarned
      <4> QED BY <1>4, <3>1, <4>1
    <3>3. CASE ~HasPendingActiveTasks(waiterIds[w], left)
      <4>1. waiterIds[w] \in SUBSET Job /\ \A o \in waiterIds[w] : ex[o] # "idle"
        BY <1>1, <1>2, <2>8 DEF WaiterIdsStarted
      <4> QED BY <1>2, <2>1, <2>3, <3>1, <3>3, <4>1, NothingPending
    <3> QED BY <2>6, <3>2, <3>3
  <2>12. StartsWithinLimit
    BY <1>5, <2>5 DEF StartsWithinLimit
  <2> QED BY <2>5, <2>7, <2>9, <2>10, <2>11, <2>12 DEF IInv
<1>9. CASE /\ jobGeneration[j] # generation[l]
           /\ exec' = ex
           /\ UNCHANGED <<queue, active, jobGeneration, waiter>>
  <2>1. TypeOK'
    BY <1>1, <1>3, <1>4, <1>9 DEF TypeOK
  <2>2. \A k \in Lanes : \A o \in Job :
          o \in active[k] <=> /\ jobLane[o] = k
                              /\ ex[o] = "running"
                              /\ p[o] = "pending"
                              /\ jobGeneration[o] = generation[k]
    <3> TAKE k \in Lanes
    <3> TAKE o \in Job
    <3>1. CASE o = j
      BY <1>1, <1>4, <1>9, <3>1 DEF Shape, l
    <3>2. CASE o # j
      BY <1>1, <1>4, <3>2 DEF Shape
    <3> QED BY <3>1, <3>2
  <2>3. Shape(queue, active, generation, ex, jobGeneration, p, nextJob)
    BY <1>7, <2>2 DEF Shape
  <2>4. Shape(queue, active, generation, exec, jobGeneration, promise, nextJob)'
    BY <1>3, <1>9, <2>3 DEF Shape
  <2>5. NoIdleSlotWhileQueued'
    BY <1>1, <1>3, <1>9 DEF NoIdleSlotWhileQueued
  <2>6. \A i \in Job : exec[i] # "idle" => ex[i] # "idle"
    OBVIOUS
  <2>7. \A i \in Job : promise[i] # "pending" => p[i] # "pending"
    BY <1>4
  <2>8. WaiterHasPendingTask' /\ DrainedIsEarned' /\ WaiterIdsStarted'
    BY <1>3, <1>9, <2>6, <2>7, WaitersUntouched
  <2>9. StartsWithinLimit
    BY <1>9 DEF StartsWithinLimit
  <2> QED BY <2>1, <2>4, <2>5, <2>8, <2>9 DEF IInv
<1> QED BY <1>8, <1>9 DEF Release, l, left

\* An entry whose task settles (the await in pump returns) keeps the invariant.
LEMMA CompleteInvariant ==
    ASSUME IInv, NEW j \in Job, Complete(j) PROVE IInv' /\ StartsWithinLimit
<1> DEFINE ex == [exec EXCEPT ![j] = "ended"]
<1>1. exec \in [Job -> ExecState]
  BY DEF IInv, TypeOK
<1>2. ex \in [Job -> ExecState] /\ ex[j] # "idle" /\ \A i \in Job : i # j => ex[i] = exec[i]
  BY <1>1 DEF ExecState
<1>3. exec[j] = "running" /\ promise[j] = "pending" /\ Release(j, "settled", ex)
  BY DEF Complete
<1> HIDE DEF ex
<1> QED BY <1>2, <1>3, ReleaseInvariant

\* An entry that its task timeout settles keeps the invariant, although the
\* task itself runs on.
LEMMA TimeoutTaskInvariant ==
    ASSUME IInv, NEW j \in Job, TimeoutTask(j) PROVE IInv' /\ StartsWithinLimit
<1>1. exec \in [Job -> ExecState]
  BY DEF IInv, TypeOK
<1>2. exec[j] = "running" /\ promise[j] = "pending" /\ Release(j, "timedout", exec)
  BY DEF TimeoutTask
<1> QED BY <1>1, <1>2, ReleaseInvariant

\* setCommandLaneConcurrency keeps the invariant: shrinking a lane starts
\* nothing, growing it starts what now fits.
LEMMA SetConcurrencyInvariant ==
    ASSUME IInv, NEW l \in Lanes, NEW n \in Limits, SetCommandLaneConcurrency(l, n)
    PROVE  IInv' /\ StartsWithinLimit
<1> DEFINE least == IF l \in ProbeLanes THEN 1 ELSE 0
           limit == IF n < least THEN least ELSE n
           D == IF limit > 0 THEN {l} ELSE {}
           m == [maxConcurrent EXCEPT ![l] = limit]
<1>1. /\ TypeOK
      /\ LaneTypes(queue, active, generation, exec, jobGeneration, promise)
      /\ Shape(queue, active, generation, exec, jobGeneration, promise, nextJob)
      /\ NoIdleSlotWhileQueued
  BY TypeParts DEF IInv
<1>2. jobLane \in [Job -> Lanes] /\ nextJob \in Nat
  BY <1>1, BoundsAssumption DEF TypeOK
<1>3. n \in Int /\ limit \in Nat
  BY BoundsAssumption
<1> HIDE DEF limit
<1>4. m \in [Lanes -> Nat] /\ m[l] = limit /\ \A k \in Lanes : k # l => m[k] = maxConcurrent[k]
  BY <1>1, <1>3 DEF TypeOK
<1>5. /\ maxConcurrent' = m
      /\ Pump(D, queue, active, m, generation, exec)
      /\ UNCHANGED <<generation, gatewayDraining, nextJob, jobLane, jobTimed,
                     promise, waiter, waiterIds>>
  BY DEF SetCommandLaneConcurrency, waiterVars, limit
<1>6. ASSUME NEW k \in Lanes, k \notin D, queue[k] # <<>>
      PROVE  Cardinality(active[k]) >= m[k]
  <2>1. CASE k = l
    <3>1. m[k] = 0
      BY <1>3, <1>4, <1>6, <2>1
    <3>2. Cardinality(active[k]) \in Nat
      BY <1>1, JobsFinite DEF LaneTypes
    <3> QED BY <3>1, <3>2
  <2>2. CASE k # l
    BY <1>1, <1>4, <1>6, <2>2 DEF NoIdleSlotWhileQueued
  <2> QED BY <2>1, <2>2
<1> HIDE DEF m, D
<1>7. /\ LaneTypes(queue, active, generation, exec, jobGeneration, promise)'
      /\ Shape(queue, active, generation, exec, jobGeneration, promise, nextJob)'
      /\ NoIdleSlotWhileQueued'
      /\ \A k \in Lanes : active[k] \subseteq active'[k]
      /\ \A j \in Job : exec[j] # "idle" => exec'[j] = exec[j]
      /\ \A j \in Job : exec[j] # "idle" => jobGeneration'[j] = jobGeneration[j]
      /\ StartsWithinLimit
  <2>1. /\ jobLane' = jobLane /\ generation' = generation /\ promise' = promise
        /\ nextJob' = nextJob /\ maxConcurrent' = m
        /\ Pump(D, queue, active, m, generation, exec)
    BY <1>5
  <2> QED BY <1>1, <1>2, <1>4, <1>6, <2>1, PumpStep DEF StartsWithinLimit
<1>8. TypeOK'
  BY <1>1, <1>4, <1>5, <1>7 DEF TypeOK, LaneTypes
<1>9. WaiterHasPendingTask' /\ DrainedIsEarned' /\ WaiterIdsStarted'
  BY <1>5, <1>7, WaitersUntouched
<1> QED BY <1>7, <1>8, <1>9 DEF IInv

\* clearCommandLane keeps the invariant: every entry it removes from the queue
\* has its promise rejected.
LEMMA ClearInvariant ==
    ASSUME IInv, NEW l \in Lanes, ClearCommandLane(l) PROVE IInv' /\ StartsWithinLimit
<1> DEFINE C == FirstJobs(queue[l], Len(queue[l]))
<1>1. /\ TypeOK
      /\ LaneTypes(queue, active, generation, exec, jobGeneration, promise)
      /\ Shape(queue, active, generation, exec, jobGeneration, promise, nextJob)
      /\ NoIdleSlotWhileQueued
      /\ jobLane \in [Job -> Lanes]
  BY TypeParts DEF IInv, TypeOK
<1>2. /\ \A k \in Lanes : queue'[k] = IF k = l THEN <<>> ELSE queue[k]
      /\ \A j \in Job : promise'[j] = IF j \in C THEN "cleared" ELSE promise[j]
      /\ UNCHANGED <<active, maxConcurrent, generation, gatewayDraining, nextJob,
                     jobLane, jobTimed, jobGeneration, exec, waiter, waiterIds>>
  BY <1>1 DEF ClearCommandLane, waiterVars, LaneTypes
<1>3. \A j \in Job : j \in C => jobLane[j] = l /\ exec[j] = "idle" /\ promise[j] = "pending"
  BY <1>1 DEF FirstJobs, Shape
<1>4. \A j \in Job : j \in C <=> \E i \in 1..Len(queue[l]) : queue[l][i] = j
  BY DEF FirstJobs
<1>5. TypeOK'
  <2>1. queue' \in [Lanes -> Seq(Job)]
    BY <1>1, EmptySeq DEF ClearCommandLane, LaneTypes
  <2>2. promise' \in [Job -> PromiseState]
    BY <1>1 DEF ClearCommandLane, LaneTypes, PromiseState
  <2> QED BY <1>1, <1>2, <2>1, <2>2 DEF TypeOK
<1> HIDE DEF C
<1>6. Shape(queue, active, generation, exec, jobGeneration, promise, nextJob)'
  <2>1. \A k \in Lanes : \A i \in 1..Len(queue'[k]) :
          k # l /\ i \in 1..Len(queue[k]) /\ queue'[k][i] = queue[k][i]
    BY <1>2, EmptySeq
  <2>2. ASSUME NEW k \in Lanes, NEW i \in 1..Len(queue'[k])
        PROVE  /\ jobLane[queue'[k][i]] = k
               /\ exec[queue'[k][i]] = "idle"
               /\ promise'[queue'[k][i]] = "pending"
    <3>1. k # l /\ i \in 1..Len(queue[k]) /\ queue'[k][i] = queue[k][i]
      BY <2>1
    <3>2. queue[k][i] \in Job
      BY <1>1, <3>1, ElementOfSeq DEF LaneTypes
    <3>3. /\ jobLane[queue[k][i]] = k /\ exec[queue[k][i]] = "idle"
          /\ promise[queue[k][i]] = "pending"
      BY <1>1, <3>1 DEF Shape
    <3>4. queue[k][i] \notin C
      BY <1>3, <3>1, <3>2, <3>3
    <3> QED BY <1>2, <3>1, <3>2, <3>3, <3>4
  <2>3. ASSUME NEW k \in Lanes, NEW i \in 1..Len(queue'[k]), NEW h \in 1..Len(queue'[k]), i < h
        PROVE  queue'[k][i] < queue'[k][h]
    <3>1. /\ i \in 1..Len(queue[k]) /\ queue'[k][i] = queue[k][i]
          /\ h \in 1..Len(queue[k]) /\ queue'[k][h] = queue[k][h]
      BY <2>1
    <3> QED BY <1>1, <2>3, <3>1 DEF Shape
  <2>4. ASSUME NEW k \in Lanes, NEW j \in Job, NEW i \in 1..Len(queue'[k]),
               jobLane[j] = k, exec[j] # "idle"
        PROVE  j < queue'[k][i]
    <3>1. i \in 1..Len(queue[k]) /\ queue'[k][i] = queue[k][i]
      BY <2>1
    <3> QED BY <1>1, <2>4, <3>1 DEF Shape
  <2>5. ASSUME NEW j \in Job, promise'[j] = "pending", exec[j] = "idle"
        PROVE  \E i \in 1..Len(queue'[jobLane[j]]) : queue'[jobLane[j]][i] = j
    <3>1. j \notin C /\ promise[j] = "pending"
      BY <1>2, <2>5
    <3>2. PICK i \in 1..Len(queue[jobLane[j]]) : queue[jobLane[j]][i] = j
      BY <1>1, <2>5, <3>1 DEF Shape
    <3>3. jobLane[j] # l /\ jobLane[j] \in Lanes
      BY <1>1, <1>4, <3>1, <3>2
    <3> QED BY <1>2, <3>2, <3>3
  <2>6. \A j \in Job : promise'[j] = "pending" => exec[j] # "ended"
    BY <1>1, <1>2 DEF Shape
  <2>7. \A j \in Job : jobGeneration[j] <= generation[jobLane[j]]
    BY <1>1 DEF Shape
  <2>8. \A j \in Job : j >= nextJob => exec[j] = "idle" /\ promise'[j] = "none"
    BY <1>1, <1>2, <1>3 DEF Shape
  <2>9. ASSUME NEW k \in Lanes, NEW j \in Job
        PROVE  j \in active[k] <=> /\ jobLane[j] = k
                                   /\ exec[j] = "running"
                                   /\ promise'[j] = "pending"
                                   /\ jobGeneration[j] = generation[k]
    BY <1>1, <1>2, <1>3 DEF Shape
  <2> QED BY <1>2, <2>2, <2>3, <2>4, <2>5, <2>6, <2>7, <2>8, <2>9 DEF Shape
<1>7. NoIdleSlotWhileQueued'
  BY <1>1, <1>2 DEF NoIdleSlotWhileQueued
<1>8. \A j \in Job : exec[j] # "idle" => promise'[j] = promise[j]
  BY <1>2, <1>3
<1>9. WaiterHasPendingTask' /\ DrainedIsEarned' /\ WaiterIdsStarted'
  BY <1>2, <1>8, WaitersUntouched
<1> QED BY <1>2, <1>5, <1>6, <1>7, <1>9 DEF IInv, StartsWithinLimit

\* The two resets share their effect on the lanes they reset.
LEMMA ResetInvariant ==
    ASSUME IInv, NEW L \in SUBSET Lanes, ResetLanes(L), gatewayDraining' \in BOOLEAN
    PROVE  IInv' /\ StartsWithinLimit
<1> DEFINE g == [l \in Lanes |-> IF l \in L THEN generation[l] + 1 ELSE generation[l]]
           idle == [l \in Lanes |-> IF l \in L THEN {} ELSE active[l]]
           D == {l \in L : queue[l] # <<>>}
<1>1. /\ TypeOK
      /\ LaneTypes(queue, active, generation, exec, jobGeneration, promise)
      /\ Shape(queue, active, generation, exec, jobGeneration, promise, nextJob)
      /\ NoIdleSlotWhileQueued /\ DrainedIsEarned /\ WaiterIdsStarted
  BY TypeParts DEF IInv
<1>2. /\ jobLane \in [Job -> Lanes] /\ nextJob \in Nat
      /\ maxConcurrent \in [Lanes -> Nat]
      /\ waiter \in [Waiters -> WaiterState]
      /\ waiterIds \in [Waiters -> SUBSET Job]
  BY <1>1, BoundsAssumption DEF TypeOK
<1>3. /\ generation' = g
      /\ Pump(D, queue, idle, maxConcurrent, g, exec)
      /\ NotifyActiveTaskWaiters(active')
      /\ UNCHANGED <<maxConcurrent, nextJob, jobLane, jobTimed, promise, waiterIds>>
  BY DEF ResetLanes
<1>4. /\ g \in [Lanes -> Nat]
      /\ \A l \in Lanes : g[l] = IF l \in L THEN generation[l] + 1 ELSE generation[l]
      /\ \A l \in Lanes : generation[l] \in Nat
  BY <1>1 DEF LaneTypes
<1>5. /\ idle \in [Lanes -> SUBSET Job]
      /\ \A l \in Lanes : idle[l] = IF l \in L THEN {} ELSE active[l]
  BY <1>1 DEF LaneTypes
<1>6. \A l \in Lanes : l \notin D /\ queue[l] # <<>> =>
        Cardinality(idle[l]) >= maxConcurrent[l]
  BY <1>1, <1>5 DEF NoIdleSlotWhileQueued
<1> HIDE DEF g, idle, D
<1>7. LaneTypes(queue, idle, g, exec, jobGeneration, promise)
  BY <1>1, <1>4, <1>5 DEF LaneTypes
<1>8. Shape(queue, idle, g, exec, jobGeneration, promise, nextJob)
  <2>1. \A j \in Job : /\ jobGeneration[j] <= generation[jobLane[j]]
                       /\ jobGeneration[j] \in Nat
                       /\ jobLane[j] \in Lanes
    BY <1>1, <1>2 DEF Shape, LaneTypes
  <2>2. \A j \in Job : jobGeneration[j] <= g[jobLane[j]]
    BY <1>4, <2>1
  <2>3. ASSUME NEW l \in Lanes, NEW j \in Job
        PROVE  j \in idle[l] <=> /\ jobLane[j] = l
                                 /\ exec[j] = "running"
                                 /\ promise[j] = "pending"
                                 /\ jobGeneration[j] = g[l]
    <3>1. CASE l \in L
      <4>1. jobLane[j] = l => jobGeneration[j] # g[l]
        BY <1>4, <2>1, <3>1
      <4> QED BY <1>5, <3>1, <4>1
    <3>2. CASE l \notin L
      BY <1>1, <1>4, <1>5, <3>2 DEF Shape
    <3> QED BY <3>1, <3>2
  <2> QED BY <1>1, <2>2, <2>3 DEF Shape
<1>9. /\ LaneTypes(queue, active, generation, exec, jobGeneration, promise)'
      /\ Shape(queue, active, generation, exec, jobGeneration, promise, nextJob)'
      /\ NoIdleSlotWhileQueued'
      /\ \A j \in Job : exec[j] # "idle" => exec'[j] = exec[j]
      /\ \A j \in Job : exec[j] # "idle" => jobGeneration'[j] = jobGeneration[j]
      /\ \A l \in Lanes :
           active'[l] \ idle[l] # {} => Cardinality(active'[l]) <= maxConcurrent'[l]
  <2>1. /\ jobLane' = jobLane /\ generation' = g /\ promise' = promise
        /\ nextJob' = nextJob /\ maxConcurrent' = maxConcurrent
        /\ Pump(D, queue, idle, maxConcurrent, g, exec)
    BY <1>3
  <2>2. jobLane \in [Job -> Lanes] /\ nextJob \in Nat /\ maxConcurrent \in [Lanes -> Nat]
    BY <1>2
  <2> QED BY <1>6, <1>7, <1>8, <2>1, <2>2, PumpStep
<1>10. /\ waiter' \in [Waiters -> WaiterState]
       /\ \A w \in Waiters : waiter'[w] =
            IF waiter[w] = "waiting" /\ ~HasPendingActiveTasks(waiterIds[w], active')
              THEN "drained" ELSE waiter[w]
  BY <1>2, <1>3 DEF NotifyActiveTaskWaiters, WaiterState
<1>11. TypeOK'
  BY <1>1, <1>3, <1>9, <1>10 DEF TypeOK, LaneTypes
<1>12. WaiterIdsStarted'
  BY <1>1, <1>2, <1>3, <1>9 DEF WaiterIdsStarted
<1>13. WaiterHasPendingTask'
  BY <1>2, <1>3, <1>10 DEF WaiterHasPendingTask, HasPendingActiveTasks
<1>14. DrainedIsEarned'
  <2> SUFFICES ASSUME NEW w \in Waiters, waiter'[w] = "drained", NEW j \in waiterIds[w]
               PROVE  promise[j] # "pending" \/ jobGeneration'[j] < g[jobLane[j]]
    BY <1>3 DEF DrainedIsEarned
  <2>1. j \in Job /\ exec[j] # "idle" /\ jobGeneration'[j] = jobGeneration[j]
    BY <1>1, <1>2, <1>9 DEF WaiterIdsStarted
  <2>2. CASE waiter[w] = "drained"
    <3>1. promise[j] # "pending" \/ jobGeneration[j] < generation[jobLane[j]]
      BY <1>1, <2>2 DEF DrainedIsEarned
    <3>2. generation[jobLane[j]] <= g[jobLane[j]] /\ jobGeneration[j] \in Nat
          /\ generation[jobLane[j]] \in Nat /\ g[jobLane[j]] \in Nat
      <4>1. jobLane[j] \in Lanes /\ jobGeneration[j] \in Nat
        BY <1>1, <1>2, <2>1 DEF LaneTypes
      <4> QED BY <1>4, <4>1
    <3> QED BY <2>1, <3>1, <3>2
  <2>3. CASE waiter[w] = "waiting" /\ ~HasPendingActiveTasks(waiterIds[w], active')
    <3>1. /\ LaneTypes(queue', active', g, exec', jobGeneration', promise)
          /\ Shape(queue', active', g, exec', jobGeneration', promise, nextJob)
      <4>1. /\ jobLane' = jobLane /\ generation' = g /\ promise' = promise
            /\ nextJob' = nextJob
        BY <1>3
      <4>2. LaneTypes(queue', active', g, exec', jobGeneration', promise)
        BY <1>9, <4>1 DEF LaneTypes
      <4>3. Shape(queue', active', g, exec', jobGeneration', promise, nextJob)
        BY <1>9, <4>1 DEF Shape
      <4> QED BY <4>2, <4>3
    <3>2. waiterIds[w] \in SUBSET Job /\ \A o \in waiterIds[w] : exec'[o] # "idle"
      BY <1>1, <1>2, <1>9 DEF WaiterIdsStarted
    <3> QED BY <1>2, <2>3, <3>1, <3>2, NothingPending
  <2> QED BY <1>10, <2>2, <2>3
<1>15. StartsWithinLimit
  BY <1>5, <1>9 DEF StartsWithinLimit
<1> QED BY <1>9, <1>11, <1>12, <1>13, <1>14, <1>15 DEF IInv

\* waitForActiveTasks keeps the invariant: a waiter captures only ids that are
\* active, and is answered at once when there are none.
LEMMA WaitInvariant ==
    ASSUME IInv, NEW w \in Waiters, WaitForActiveTasks(w) \/ WaiterTimeout(w)
    PROVE  IInv' /\ StartsWithinLimit
<1>1. /\ TypeOK
      /\ Shape(queue, active, generation, exec, jobGeneration, promise, nextJob)
      /\ NoIdleSlotWhileQueued /\ WaiterHasPendingTask /\ DrainedIsEarned
      /\ WaiterIdsStarted
  BY DEF IInv
<1>2. UNCHANGED <<lanesVars, jobVars>>
  BY DEF WaitForActiveTasks, WaiterTimeout
<1>3. ActiveIds \in SUBSET Job /\ \A j \in ActiveIds : exec[j] # "idle"
  BY <1>1 DEF ActiveIds, TypeOK, Shape
<1>4. /\ waiter' \in [Waiters -> WaiterState]
      /\ waiterIds' \in [Waiters -> SUBSET Job]
      /\ \A v \in Waiters : v # w => waiter'[v] = waiter[v] /\ waiterIds'[v] = waiterIds[v]
      /\ \/ waiter'[w] \in {"drained", "expired"} /\ waiterIds'[w] = {}
         \/ waiter'[w] = "waiting" /\ waiterIds'[w] = ActiveIds /\ ActiveIds # {}
  BY <1>1, <1>3 DEF WaitForActiveTasks, WaiterTimeout, TypeOK, WaiterState
<1>5. TypeOK'
  BY <1>1, <1>2, <1>4 DEF TypeOK, lanesVars, jobVars
<1>6. Shape(queue, active, generation, exec, jobGeneration, promise, nextJob)'
  BY <1>1, <1>2 DEF Shape, lanesVars, jobVars
<1>7. NoIdleSlotWhileQueued'
  BY <1>1, <1>2 DEF NoIdleSlotWhileQueued, lanesVars
<1>8. WaiterHasPendingTask'
  <2> SUFFICES ASSUME NEW v \in Waiters, waiter'[v] = "waiting"
               PROVE  HasPendingActiveTasks(waiterIds'[v], active)
    BY <1>2 DEF WaiterHasPendingTask, HasPendingActiveTasks, lanesVars
  <2>1. CASE v = w
    BY <1>4, <2>1 DEF HasPendingActiveTasks, ActiveIds
  <2>2. CASE v # w
    BY <1>1, <1>4, <2>2 DEF WaiterHasPendingTask
  <2> QED BY <2>1, <2>2
<1>9. DrainedIsEarned' /\ WaiterIdsStarted'
  BY <1>1, <1>2, <1>3, <1>4 DEF DrainedIsEarned, WaiterIdsStarted, lanesVars, jobVars
<1>10. StartsWithinLimit
  BY <1>2 DEF StartsWithinLimit, lanesVars
<1> QED BY <1>5, <1>6, <1>7, <1>8, <1>9, <1>10 DEF IInv

\* The operations that touch neither the lanes' queues nor their active sets.
LEMMA QuietInvariant ==
    ASSUME IInv, EnqueueRefused \/ MarkGatewayDraining \/ \E j \in Job : LateSettle(j)
    PROVE  IInv' /\ StartsWithinLimit
<1>1. /\ TypeOK
      /\ Shape(queue, active, generation, exec, jobGeneration, promise, nextJob)
      /\ NoIdleSlotWhileQueued /\ WaiterHasPendingTask /\ DrainedIsEarned
      /\ WaiterIdsStarted
      /\ jobLane \in [Job -> Lanes] /\ nextJob \in Nat
  BY BoundsAssumption DEF IInv, TypeOK
<1>2. \A l \in Lanes : \A i \in 1..Len(queue[l]) :
        queue[l][i] \in Job /\ exec[queue[l][i]] = "idle" /\ promise[queue[l][i]] = "pending"
  <2> TAKE l \in Lanes
  <2> TAKE i \in 1..Len(queue[l])
  <2>1. queue[l][i] \in Job
    BY <1>1, ElementOfSeq DEF TypeOK
  <2> QED BY <1>1, <2>1 DEF Shape
<1>3. CASE EnqueueRefused
  <2>1. /\ promise' = [promise EXCEPT ![nextJob] = "refused"] /\ nextJob' = nextJob + 1
        /\ UNCHANGED <<queue, active, maxConcurrent, generation, gatewayDraining, jobLane,
                       jobTimed, jobGeneration, exec, waiter, waiterIds>>
    BY <1>3 DEF EnqueueRefused, lanesVars, waiterVars
  <2>2. nextJob \in Job /\ nextJob + 1 \in 1..(MaxJobs + 1) /\ Job \subseteq Nat
    BY <1>1, <1>3, BoundsAssumption DEF EnqueueRefused, TypeOK, Job
  <2>3. exec[nextJob] = "idle" /\ promise[nextJob] = "none"
    BY <1>1, <2>2 DEF Shape
  <2>4. /\ promise' \in [Job -> PromiseState]
        /\ promise'[nextJob] = "refused"
        /\ \A j \in Job : j # nextJob => promise'[j] = promise[j]
    BY <1>1, <2>1, <2>2 DEF TypeOK, PromiseState
  <2>5. TypeOK'
    BY <1>1, <2>1, <2>2, <2>4 DEF TypeOK
  <2>6. \A j \in Job : j >= nextJob + 1 => j >= nextJob /\ j # nextJob
    BY <2>2
  <2>8. Shape(queue, active, generation, exec, jobGeneration, promise, nextJob)'
    <3>1. \A j \in Job : promise'[j] = "pending" <=> promise[j] = "pending"
      BY <2>3, <2>4
    <3>2. \A l \in Lanes : \A i \in 1..Len(queue[l]) : promise'[queue[l][i]] = "pending"
      BY <1>2, <3>1
    <3>3. \A j \in Job : j >= nextJob + 1 => exec[j] = "idle" /\ promise'[j] = "none"
      BY <1>1, <2>4, <2>6 DEF Shape
    <3>4. Shape(queue, active, generation, exec, jobGeneration, promise', nextJob + 1)
      BY <1>1, <3>1, <3>2, <3>3 DEF Shape
    <3> QED BY <2>1, <3>4 DEF Shape
  <2>9. NoIdleSlotWhileQueued'
    BY <1>1, <2>1 DEF NoIdleSlotWhileQueued
  <2>10. \A j \in Job : promise[j] # "pending" => promise'[j] # "pending"
    BY <2>3, <2>4
  <2>11. WaiterHasPendingTask' /\ DrainedIsEarned' /\ WaiterIdsStarted'
    BY <2>1, <2>10, WaitersUntouched
  <2> QED BY <2>1, <2>5, <2>8, <2>9, <2>11 DEF IInv, StartsWithinLimit
<1>4. CASE MarkGatewayDraining
  <2>1. /\ gatewayDraining' \in BOOLEAN
        /\ UNCHANGED <<queue, active, maxConcurrent, generation, nextJob, jobLane,
                       jobTimed, jobGeneration, exec, promise, waiter, waiterIds>>
    BY <1>4 DEF MarkGatewayDraining, jobVars, waiterVars
  <2>2. TypeOK'
    BY <1>1, <2>1 DEF TypeOK
  <2>3. Shape(queue, active, generation, exec, jobGeneration, promise, nextJob)'
    BY <1>1, <2>1 DEF Shape
  <2>4. NoIdleSlotWhileQueued'
    BY <1>1, <2>1 DEF NoIdleSlotWhileQueued
  <2>5. WaiterHasPendingTask' /\ DrainedIsEarned' /\ WaiterIdsStarted'
    BY <2>1, WaitersUntouched
  <2> QED BY <2>1, <2>2, <2>3, <2>4, <2>5 DEF IInv, StartsWithinLimit
<1>5. ASSUME NEW j \in Job, LateSettle(j) PROVE IInv' /\ StartsWithinLimit
  <2>1. /\ exec' = [exec EXCEPT ![j] = "ended"]
        /\ exec[j] = "running" /\ promise[j] = "timedout"
        /\ UNCHANGED <<queue, active, maxConcurrent, generation, gatewayDraining, nextJob,
                       jobLane, jobTimed, jobGeneration, promise, waiter, waiterIds>>
    BY <1>5 DEF LateSettle, lanesVars, waiterVars
  <2>2. /\ exec' \in [Job -> ExecState] /\ exec'[j] = "ended"
        /\ \A i \in Job : i # j => exec'[i] = exec[i]
    BY <1>1, <2>1 DEF TypeOK, ExecState
  <2>3. TypeOK'
    BY <1>1, <2>1, <2>2 DEF TypeOK
  <2>4. /\ \A i \in Job : exec'[i] = "idle" <=> exec[i] = "idle"
        /\ \A i \in Job : promise[i] = "pending" => exec'[i] = exec[i]
    BY <2>1, <2>2
  <2>5. Shape(queue, active, generation, exec', jobGeneration, promise, nextJob)
    <3>1. \A l \in Lanes : \A i \in 1..Len(queue[l]) : exec'[queue[l][i]] = "idle"
      BY <1>2, <2>4
    <3>2. \A l \in Lanes : \A o \in Job :
            o \in active[l] <=> /\ jobLane[o] = l
                                /\ exec'[o] = "running"
                                /\ promise[o] = "pending"
                                /\ jobGeneration[o] = generation[l]
      BY <1>1, <2>4 DEF Shape
    <3> QED BY SMTT(30), <1>1, <2>4, <3>1, <3>2 DEF Shape
  <2>6. Shape(queue, active, generation, exec, jobGeneration, promise, nextJob)'
    BY <2>1, <2>5 DEF Shape
  <2>7. NoIdleSlotWhileQueued'
    BY <1>1, <2>1 DEF NoIdleSlotWhileQueued
  <2>8. WaiterHasPendingTask' /\ DrainedIsEarned' /\ WaiterIdsStarted'
    BY <2>1, <2>4, WaitersUntouched
  <2> QED BY <2>1, <2>3, <2>6, <2>7, <2>8 DEF IInv, StartsWithinLimit
<1> QED BY <1>3, <1>4, <1>5

\* Every operation of the module keeps the invariant.
LEMMA NextInvariant ==
    ASSUME IInv, Next PROVE IInv' /\ StartsWithinLimit
<1>1. CASE EnqueueRefused \/ MarkGatewayDraining \/ \E j \in Job : LateSettle(j)
  BY <1>1, QuietInvariant
<1>2. CASE Enqueue
  BY <1>2, EnqueueInvariant
<1>3. CASE \E j \in Job : Complete(j)
  BY <1>3, CompleteInvariant
<1>4. CASE \E j \in Job : TimeoutTask(j)
  BY <1>4, TimeoutTaskInvariant
<1>5. CASE \E l \in Lanes, n \in Limits : SetCommandLaneConcurrency(l, n)
  BY <1>5, SetConcurrencyInvariant
<1>6. CASE \E l \in Lanes : ClearCommandLane(l)
  BY <1>6, ClearInvariant
<1>7. CASE \E l \in Lanes : ResetCommandLane(l)
  <2>1. PICK l \in Lanes : ResetCommandLane(l)
    BY <1>7
  <2>2. ResetLanes({l}) /\ gatewayDraining' \in BOOLEAN
    BY <2>1 DEF ResetCommandLane, IInv, TypeOK
  <2> QED BY <2>2, ResetInvariant
<1>8. CASE ResetAllLanes
  BY <1>8, ResetInvariant DEF ResetAllLanes
<1>9. CASE \E w \in Waiters : WaitForActiveTasks(w) \/ WaiterTimeout(w)
  BY <1>9, WaitInvariant
<1> QED BY <1>1, <1>2, <1>3, <1>4, <1>5, <1>6, <1>7, <1>8, <1>9 DEF Next

\* A step that changes no variable keeps the invariant.
LEMMA StutterInvariant ==
    ASSUME IInv, UNCHANGED vars PROVE IInv' /\ StartsWithinLimit
<1>1. UNCHANGED <<queue, active, maxConcurrent, generation, gatewayDraining, nextJob,
                  jobLane, jobTimed, jobGeneration, exec, promise, waiter, waiterIds>>
  BY DEF vars, lanesVars, jobVars, waiterVars
<1>2. TypeOK'
  BY <1>1 DEF IInv, TypeOK
<1>3. Shape(queue, active, generation, exec, jobGeneration, promise, nextJob)'
  BY <1>1 DEF IInv, Shape
<1>4. NoIdleSlotWhileQueued'
  BY <1>1 DEF IInv, NoIdleSlotWhileQueued
<1>5. WaiterHasPendingTask' /\ DrainedIsEarned' /\ WaiterIdsStarted'
  BY <1>1, WaitersUntouched
<1> QED BY <1>1, <1>2, <1>3, <1>4, <1>5 DEF IInv, StartsWithinLimit

-----------------------------------------------------------------------------
(* The theorems                                                            *)

\* The inductive invariant holds in every reachable state.
THEOREM InvariantHolds == Spec => []IInv
<1>1. Init => IInv
  BY InitInvariant
<1>2. IInv /\ [Next]_vars => IInv'
  BY NextInvariant, StutterInvariant
<1> QED BY <1>1, <1>2, PTL DEF Spec

\* Every variable has its type, for every set of lanes and every bound.
THEOREM TypeCorrect == Spec => []TypeOK
<1>1. IInv => TypeOK
  BY DEF IInv
<1> QED BY <1>1, InvariantHolds, PTL

\* No operation of the module leaves an entry waiting on a lane that has a free
\* slot: work conservation of drainLane, completion, resize, clear and reset.
THEOREM WorkConservation == Spec => []NoIdleSlotWhileQueued
<1>1. IInv => NoIdleSlotWhileQueued
  BY DEF IInv
<1> QED BY <1>1, InvariantHolds, PTL

\* The active ids of a lane are exactly its unsettled running entries of the
\* current generation: completeTask's generation check neither leaks a slot nor
\* frees one twice.
THEOREM SlotsExact == Spec => []ActiveSlotsExact
<1>1. IInv => ActiveSlotsExact
  BY DEF IInv, TypeOK, Shape, ActiveSlotsExact
<1> QED BY <1>1, InvariantHolds, PTL

\* An unsettled promise always has its entry queued or its task running.
THEOREM CommandsAccountedFor == Spec => []NoLostCommand
<1>1. IInv => NoLostCommand
  <2> SUFFICES ASSUME IInv, NEW j \in Job, promise[j] = "pending"
               PROVE  \/ j \in Queued(jobLane[j]) /\ exec[j] = "idle"
                      \/ j \notin Queued(jobLane[j]) /\ exec[j] = "running"
    BY DEF NoLostCommand
  <2>1. /\ Shape(queue, active, generation, exec, jobGeneration, promise, nextJob)
        /\ jobLane[j] \in Lanes
        /\ exec[j] \in ExecState
    BY DEF IInv, TypeOK
  <2>2. CASE exec[j] = "idle"
    BY <2>1, <2>2 DEF Shape, Queued, FirstJobs
  <2>3. CASE exec[j] # "idle"
    <3>1. exec[j] = "running"
      BY <2>1, <2>3 DEF Shape, ExecState
    <3>2. j \notin Queued(jobLane[j])
      BY <2>1, <2>3 DEF Shape, Queued, FirstJobs
    <3> QED BY <3>1, <3>2
  <2> QED BY <2>2, <2>3
<1> QED BY <1>1, InvariantHolds, PTL

\* Entries of a lane start in the order they were enqueued.
THEOREM FirstInFirstOut == Spec => []StartedInOrder
<1>1. IInv => StartedInOrder
  BY DEF IInv, Shape, StartedInOrder, Queued, FirstJobs
<1> QED BY <1>1, InvariantHolds, PTL

\* A waiter of waitForActiveTasks is never stranded: one of the tasks it captured
\* is still active, and its end will notify the waiter.
THEOREM WaitersSound == Spec => []WaiterHasPendingTask
<1>1. IInv => WaiterHasPendingTask
  BY DEF IInv
<1> QED BY <1>1, InvariantHolds, PTL

\* A waiter that was told drained had every task it captured settled for its
\* caller, or force-released by a reset of the task's lane.
THEOREM DrainedSound == Spec => []DrainedIsEarned
<1>1. IInv => DrainedIsEarned
  BY DEF IInv
<1> QED BY <1>1, InvariantHolds, PTL

\* No step starts a task beyond the limit its lane has after the step.
THEOREM LimitRespected == Spec => LimitRespectedOnStart
<1>1. IInv /\ [Next]_vars => StartsWithinLimit
  BY NextInvariant, StutterInvariant
<1>2. IInv /\ [Next]_vars =>
        [\A l \in Lanes : active'[l] \ active[l] # {} =>
           Cardinality(active'[l]) <= maxConcurrent'[l]]_vars
  BY <1>1 DEF StartsWithinLimit
<1> QED BY <1>2, InvariantHolds, PTL DEF Spec, LimitRespectedOnStart

-----------------------------------------------------------------------------
(* Commands that were called off                                           *)

\* The types of the lanes pump is called on, and the places of an entry in them.
Pumpable(q, a, m) ==
    /\ q \in [Lanes -> Seq(Job)]
    /\ a \in [Lanes -> SUBSET Job]
    /\ m \in [Lanes -> Nat]
    /\ jobLane \in [Job -> Lanes]

Within(q, j) == \E i \in 1..Len(q[jobLane[j]]) : q[jobLane[j]][i] = j

\* pump starts nothing but entries of the queues it was called on.
LEMMA OnlyQueuedStart ==
    ASSUME NEW D, NEW q, NEW a, NEW m, NEW g, NEW ex,
           Pumpable(q, a, m), Pump(D, q, a, m, g, ex)
    PROVE  \A j \in Job : exec'[j] = ex[j] \/ Within(q, j)
<1> SUFFICES ASSUME NEW j \in Job, exec'[j] # ex[j]
             PROVE  Within(q, j)
  OBVIOUS
<1> DEFINE k == PumpCounts(D, q, a, m)
           l == jobLane[j]
<1>1. l \in Lanes
  BY DEF Pumpable
<1>2. Len(q[l]) \in Nat /\ k[l] \in 0..Len(q[l])
  BY <1>1, PumpCountsFacts, LenProperties DEF Pumpable
<1>3. StartJobs(k, q, a, g, ex)
  BY DEF Pump
<1> HIDE DEF k
<1>4. j \in FirstJobs(q[l], k[l])
  BY <1>3 DEF StartJobs
<1> QED BY <1>2, <1>4 DEF FirstJobs, Within

\* A step that leaves the outcomes alone and pumps the queues as they are starts
\* only commands whose callers still wait.
LEMMA PumpSparesCalledOff ==
    ASSUME IInv, CalledOffNeverRuns, NEW D, NEW a \in [Lanes -> SUBSET Job],
           NEW m \in [Lanes -> Nat], NEW g, NEW ex, Pump(D, queue, a, m, g, ex),
           NEW j \in Job, promise[j] \in {"cleared", "refused"}, ex[j] = exec[j]
    PROVE  exec'[j] = "idle"
<1>1. /\ queue \in [Lanes -> Seq(Job)]
      /\ jobLane \in [Job -> Lanes]
      /\ Shape(queue, active, generation, exec, jobGeneration, promise, nextJob)
  BY DEF IInv, TypeOK
<1>2. CASE exec'[j] = ex[j]
  BY <1>2 DEF CalledOffNeverRuns
<1>3. CASE exec'[j] # ex[j]
  <2>1. PICK i \in 1..Len(queue[jobLane[j]]) : queue[jobLane[j]][i] = j
    <3>1. Pumpable(queue, a, m)
      BY <1>1 DEF Pumpable
    <3> QED BY <1>3, <3>1, OnlyQueuedStart DEF Within
  <2>2. promise[queue[jobLane[j]][i]] = "pending"
    BY <1>1, <2>1 DEF Shape
  <2> QED BY <2>1, <2>2
<1> QED BY <1>2, <1>3

\* Every operation keeps CalledOffNeverRuns.
LEMMA NextSparesCalledOff ==
    ASSUME IInv, CalledOffNeverRuns, Next PROVE CalledOffNeverRuns'
<1> SUFFICES ASSUME NEW j \in Job, promise'[j] \in {"cleared", "refused"}
             PROVE  exec'[j] = "idle"
  BY DEF CalledOffNeverRuns
<1>1. /\ queue \in [Lanes -> Seq(Job)] /\ active \in [Lanes -> SUBSET Job]
      /\ maxConcurrent \in [Lanes -> Nat] /\ jobLane \in [Job -> Lanes]
      /\ promise \in [Job -> PromiseState] /\ exec \in [Job -> ExecState]
      /\ Shape(queue, active, generation, exec, jobGeneration, promise, nextJob)
  BY DEF IInv, TypeOK
<1>2. CASE EnqueueRefused
  <2>1. CASE j = nextJob
    <3>1. nextJob \in Nat /\ j >= nextJob
      BY <2>1, BoundsAssumption DEF IInv, TypeOK
    <3>2. exec[j] = "idle"
      BY <1>1, <3>1 DEF Shape
    <3> QED BY <1>2, <3>2 DEF EnqueueRefused
  <2>2. CASE j # nextJob
    BY <1>1, <1>2, <2>2 DEF EnqueueRefused, CalledOffNeverRuns
  <2> QED BY <2>1, <2>2
<1>3. CASE Enqueue
  <2> DEFINE l == jobLane[nextJob]
             q == [queue EXCEPT ![l] = Append(@, nextJob)]
  <2>1. /\ nextJob \in Job /\ l \in Lanes
        /\ promise' = [promise EXCEPT ![nextJob] = "pending"]
        /\ Pump({l}, q, active, maxConcurrent, generation, exec)
    BY <1>1, <1>3, BoundsAssumption DEF Enqueue, IInv, TypeOK, Job
  <2>2. j # nextJob /\ promise[j] \in {"cleared", "refused"} /\ exec[j] = "idle"
    <3>1. j # nextJob /\ promise'[j] = promise[j]
      BY <1>1, <2>1
    <3> QED BY <3>1 DEF CalledOffNeverRuns
  <2>3. /\ q[l] = Append(queue[l], nextJob) /\ queue[l] \in Seq(Job)
        /\ q \in [Lanes -> Seq(Job)]
        /\ \A k \in Lanes : k # l => q[k] = queue[k]
    BY <1>1, <2>1, AppendProperties
  <2> HIDE DEF q, l
  <2>4. ASSUME exec'[j] # "idle" PROVE FALSE
    <3> DEFINE k == jobLane[j]
    <3>1. PICK i \in 1..Len(q[k]) : q[k][i] = j
      <4>1. exec'[j] # exec[j]
        BY <2>2, <2>4
      <4>2. Pumpable(q, active, maxConcurrent)
        BY <1>1, <2>3 DEF Pumpable
      <4> QED BY <2>1, <4>1, <4>2, OnlyQueuedStart DEF Within
    <3>2. CASE k = l
      <4>1. /\ Len(q[l]) = Len(queue[l]) + 1 /\ Len(queue[l]) \in Nat
            /\ \A x \in 1..Len(queue[l]) : q[l][x] = queue[l][x]
            /\ q[l][Len(queue[l]) + 1] = nextJob
        BY <2>1, <2>3, AppendProperties, LenProperties
      <4>2. i \in 1..Len(queue[l]) /\ queue[l][i] = j
        BY <2>2, <3>1, <3>2, <4>1
      <4> QED BY <1>1, <2>1, <2>2, <4>2 DEF Shape
    <3>3. CASE k # l
      <4>1. k \in Lanes /\ q[k] = queue[k]
        BY <1>1, <2>3, <3>3
      <4>2. promise[queue[k][i]] = "pending"
        BY <1>1, <3>1, <4>1 DEF Shape
      <4> QED BY <2>2, <3>1, <4>1, <4>2
    <3> QED BY <3>2, <3>3
  <2> QED BY <2>4
<1>4. ASSUME NEW i \in Job, Complete(i) \/ TimeoutTask(i)
      PROVE  exec'[j] = "idle"
  <2> DEFINE left == [active EXCEPT ![jobLane[i]] = @ \ {i}]
  <2>1. PICK outcome \in {"settled", "timedout"}, ex \in {exec, [exec EXCEPT ![i] = "ended"]} :
           Release(i, outcome, ex)
    BY <1>4 DEF Complete, TimeoutTask
  <2>2. /\ j # i /\ promise[j] \in {"cleared", "refused"} /\ ex[j] = exec[j]
    BY <1>1, <2>1 DEF Release
  <2>3. left \in [Lanes -> SUBSET Job]
    BY <1>1
  <2>4. CASE Pump({jobLane[i]}, queue, left, maxConcurrent, generation, ex)
    <3> HIDE DEF left
    <3> QED BY <1>1, <2>2, <2>3, <2>4, PumpSparesCalledOff
  <2>5. CASE exec' = ex
    BY <2>2, <2>5 DEF CalledOffNeverRuns
  <2> QED BY <2>1, <2>4, <2>5 DEF Release
<1>5. CASE \E i \in Job : LateSettle(i)
  BY <1>1, <1>5 DEF LateSettle, CalledOffNeverRuns
<1>6. CASE MarkGatewayDraining
  BY <1>6 DEF MarkGatewayDraining, jobVars, CalledOffNeverRuns
<1>7. ASSUME NEW l \in Lanes, NEW n \in Limits, SetCommandLaneConcurrency(l, n)
      PROVE  exec'[j] = "idle"
  <2>1. /\ maxConcurrent' \in [Lanes -> Nat]
        /\ promise' = promise
    BY <1>7, NextInvariant DEF Next, IInv, TypeOK, SetCommandLaneConcurrency
  <2>2. PICK D : Pump(D, queue, active, maxConcurrent', generation, exec)
    BY <1>7 DEF SetCommandLaneConcurrency
  <2> QED BY <1>1, <2>1, <2>2, PumpSparesCalledOff
<1>8. ASSUME NEW l \in Lanes, ClearCommandLane(l)
      PROVE  exec'[j] = "idle"
  <2>1. CASE j \in FirstJobs(queue[l], Len(queue[l]))
    <3>1. PICK i \in 1..Len(queue[l]) : queue[l][i] = j
      BY <2>1 DEF FirstJobs
    <3> QED BY <1>1, <1>8, <3>1 DEF ClearCommandLane, Shape
  <2>2. CASE j \notin FirstJobs(queue[l], Len(queue[l]))
    BY <1>8, <2>2 DEF ClearCommandLane, CalledOffNeverRuns
  <2> QED BY <2>1, <2>2
<1>9. ASSUME NEW L \in SUBSET Lanes, ResetLanes(L)
      PROVE  exec'[j] = "idle"
  <2> DEFINE idle == [l \in Lanes |-> IF l \in L THEN {} ELSE active[l]]
  <2>1. idle \in [Lanes -> SUBSET Job]
    BY <1>1
  <2>2. /\ promise' = promise
        /\ \E D, g : Pump(D, queue, idle, maxConcurrent, g, exec)
    BY <1>9 DEF ResetLanes
  <2> HIDE DEF idle
  <2> QED BY <1>1, <2>1, <2>2, PumpSparesCalledOff
<1>10. CASE ResetAllLanes \/ \E l \in Lanes : ResetCommandLane(l)
  BY <1>9, <1>10 DEF ResetAllLanes, ResetCommandLane
<1>11. CASE \E w \in Waiters : WaitForActiveTasks(w) \/ WaiterTimeout(w)
  BY <1>11 DEF WaitForActiveTasks, WaiterTimeout, jobVars, CalledOffNeverRuns
<1> QED BY <1>2, <1>3, <1>4, <1>5, <1>6, <1>7, <1>8, <1>10, <1>11 DEF Next

\* A command that was cleared or refused has not run and never will.
THEOREM CalledOffStaysOff == Spec => []CalledOffNeverRuns
<1>1. Init => CalledOffNeverRuns
  BY DEF Init, CalledOffNeverRuns
<1>2. IInv /\ CalledOffNeverRuns /\ [Next]_vars => CalledOffNeverRuns'
  <2>1. ASSUME CalledOffNeverRuns, UNCHANGED vars PROVE CalledOffNeverRuns'
    BY <2>1 DEF CalledOffNeverRuns, vars, jobVars
  <2> QED BY <2>1, NextSparesCalledOff
<1> QED BY <1>1, <1>2, InvariantHolds, PTL DEF Spec

=============================================================================
