--------------------------- MODULE SpeakQueueProofs ---------------------------
(***************************************************************************)
(* Proofs about SpeakQueue, for any sessions and any numbers of calls and  *)
(* of Stops.                                                               *)
(***************************************************************************)
EXTENDS SpeakQueue, SequenceTheorems, FiniteSetTheorems, WellFoundedInduction, TLAPS

\* The queue holds the queued calls, in the order of the calls, and each of them
\* was made after the last Stop (whose token is tk).
QueueFits(q, jb, tk) ==
    /\ jb \in [Call -> Job]
    /\ q \in Seq(Call)
    /\ \A c \in Call : jb[c].state = "queued" <=> \E i \in 1..Len(q) : q[i] = c
    /\ \A i, j \in 1..Len(q) : i < j => q[i] < q[j]
    /\ \A c \in Call : jb[c].state = "queued" => jb[c].token = tk

\* Syntheses follow one another in the order of the calls.
ChainFits(jb, n) ==
    /\ \A c \in Call : c > n <=> jb[c].state = "idle"
    /\ \A c, d \in Call :
         c < d /\ jb[d].state \in {"fetching", "queued"} =>
             jb[c].state \notin {"idle", "chained", "fetching"}

\* No call and no loop is ahead of the Stops; a loop awaits what was begun, and
\* isProcessing speaks of a loop that no Stop has ended.
LoopsFit ==
    /\ \A c \in Call : job[c].token <= token /\ loop[c].token <= token
    /\ \A c \in Call : loop[c].task # 0 => job[loop[c].task].state \in {"speaking", "ended"}
    /\ isProcessing => \E c \in Call : Talking(c)

IInv ==
    /\ TypeOK
    /\ QueueFits(queue, job, token)
    /\ ChainFits(job, calls)
    /\ LoopsFit
    /\ NoStrandedTask
    /\ StoppedCatchesOldOnly

-----------------------------------------------------------------------------
(* The queue                                                               *)

\* The first task of the current session has a place in the queue, behind tasks
\* of other sessions only.
LEMMA SelectFacts ==
    ASSUME NEW jb, NEW q \in Seq(Call), FirstOfSession(q, jb) # 0
    PROVE  /\ FirstOfSession(q, jb) \in 1..Len(q)
           /\ jb[q[FirstOfSession(q, jb)]].session = currentSession
           /\ \A j \in 1..(FirstOfSession(q, jb) - 1) : jb[q[j]].session # currentSession
<1> DEFINE I == {i \in 1..Len(q) : jb[q[i]].session = currentSession}
<1>1. FirstOfSession(q, jb) = IF I # {} THEN Min(I) ELSE 0
  BY DEF FirstOfSession, SelectInSeq
<1>2. I # {} => \E i \in I : \A j \in I : i <= j
  <2>1. I \subseteq Nat
    OBVIOUS
  <2>2. I # {} => \E i \in I : \A j \in I : ~(<<j, i>> \in OpToRel(<, Nat))
    BY <2>1, NatLessThanWellFounded, WFMin
  <2>3. \A i, j \in Nat : j < i => <<j, i>> \in OpToRel(<, Nat)
    BY DEF OpToRel
  <2>4. \A i, j \in Nat : i <= j \/ j < i
    OBVIOUS
  <2> QED BY <2>1, <2>2, <2>3, <2>4
<1>3. I # {} => Min(I) \in I /\ \A j \in I : Min(I) <= j
  BY <1>2 DEF Min
<1>4. PICK m \in I : m = FirstOfSession(q, jb) /\ \A j \in I : m <= j
  BY <1>1, <1>3
<1>5. ASSUME NEW j \in 1..(m - 1) PROVE jb[q[j]].session # currentSession
  <2>1. Len(q) \in Nat /\ m \in 1..Len(q)
    BY LenProperties
  <2>2. j \in 1..Len(q) /\ ~(m <= j)
    BY <2>1
  <2> QED BY <1>4, <2>2
<1> QED BY <1>4, <1>5

\* The calls of a queue, by index.
LEMMA ToSetFacts ==
    ASSUME NEW q \in Seq(Call), NEW c
    PROVE  c \in ToSet(q) <=> \E i \in 1..Len(q) : q[i] = c
BY DEF ToSet

\* Marking changes the state of the marked calls and nothing else.
LEMMA MarkFacts ==
    ASSUME NEW jb \in [Call -> Job], NEW C, NEW state \in JobState
    PROVE  /\ Mark(jb, C, state) \in [Call -> Job]
           /\ \A c \in Call : /\ Mark(jb, C, state)[c].token = jb[c].token
                              /\ Mark(jb, C, state)[c].session = jb[c].session
                              /\ c \in C => Mark(jb, C, state)[c].state = state
                              /\ c \notin C => Mark(jb, C, state)[c].state = jb[c].state
BY DEF Mark, Job

\* Clearing a whole queue leaves no call queued.
LEMMA ClearFacts ==
    ASSUME NEW q, NEW jb, NEW tk, QueueFits(q, jb, tk)
    PROVE  /\ ClearQueue(jb, q) \in [Call -> Job]
           /\ \A c \in Call :
                /\ ClearQueue(jb, q)[c].token = jb[c].token
                /\ ClearQueue(jb, q)[c].session = jb[c].session
                /\ jb[c].state = "queued" => ClearQueue(jb, q)[c].state = "dropped"
                /\ jb[c].state # "queued" => ClearQueue(jb, q)[c].state = jb[c].state
<1>1. jb \in [Call -> Job] /\ q \in Seq(Call) /\ "dropped" \in JobState
  BY DEF QueueFits, JobState
<1>2. \A c \in Call : c \in ToSet(q) <=> jb[c].state = "queued"
  BY <1>1, ToSetFacts DEF QueueFits
<1>3. /\ ClearQueue(jb, q) \in [Call -> Job]
      /\ \A c \in Call :
           /\ ClearQueue(jb, q)[c].token = jb[c].token
           /\ ClearQueue(jb, q)[c].session = jb[c].session
           /\ c \in ToSet(q) => ClearQueue(jb, q)[c].state = "dropped"
           /\ c \notin ToSet(q) => ClearQueue(jb, q)[c].state = jb[c].state
  BY <1>1, MarkFacts DEF ClearQueue
<1> QED BY <1>2, <1>3

\* A queue that is cleared leaves no call queued, so it fits any token.
LEMMA ClearFits ==
    ASSUME NEW q, NEW jb, NEW tk, NEW tk2, QueueFits(q, jb, tk)
    PROVE  QueueFits(<<>>, ClearQueue(jb, q), tk2)
<1>1. <<>> \in Seq(Call) /\ Len(<<>>) = 0
  OBVIOUS
<1>2. /\ ClearQueue(jb, q) \in [Call -> Job]
      /\ \A c \in Call : ClearQueue(jb, q)[c].state # "queued"
  BY ClearFacts
<1> QED BY <1>1, <1>2 DEF QueueFits

\* q2 and jb2 are what the i-th task leaves when it is taken.
Taken(q, jb, i, q2, jb2) ==
    /\ q2 \in Seq(Call) /\ jb2 \in [Call -> Job]
    /\ Len(q2) = Len(q) - i /\ \A j \in 1..(Len(q) - i) : q2[j] = q[j + i]
    /\ \A c \in Call : jb2[c].token = jb[c].token /\ jb2[c].session = jb[c].session
    /\ jb2[q[i]].state = "speaking"
    /\ \A c \in Call : (\E j \in 1..(i - 1) : q[j] = c) /\ c # q[i] => jb2[c].state = "dropped"
    /\ \A c \in Call : (\A j \in 1..(i - 1) : q[j] # c) /\ c # q[i] => jb2[c].state = jb[c].state

\* A task leaves the queue with those before it.
LEMMA TakeShape ==
    ASSUME NEW q, NEW jb, NEW tk, QueueFits(q, jb, tk), NEW i \in 1..Len(q),
           NEW q2, NEW jb2, Taken(q, jb, i, q2, jb2)
    PROVE  /\ QueueFits(q2, jb2, tk)
           /\ q[i] \in Call /\ jb[q[i]].state = "queued"
           /\ \A c \in Call :
                /\ jb[c].state # "queued" => jb2[c].state = jb[c].state
                /\ jb[c].state = "queued" /\ c < q[i] =>
                     jb2[c].state = "dropped" /\ \E j \in 1..(i - 1) : q[j] = c
                /\ jb[c].state = "queued" /\ c > q[i] => jb2[c].state = "queued"
<1>0. /\ q2 \in Seq(Call) /\ jb2 \in [Call -> Job] /\ jb2[q[i]].state = "speaking"
      /\ Len(q2) = Len(q) - i /\ \A j \in 1..Len(q2) : q2[j] = q[j + i]
      /\ \A c \in Call : /\ jb2[c].token = jb[c].token
                         /\ (\E j \in 1..(i - 1) : q[j] = c) /\ c # q[i] => jb2[c].state = "dropped"
                         /\ (\A j \in 1..(i - 1) : q[j] # c) /\ c # q[i] =>
                              jb2[c].state = jb[c].state
  BY DEF Taken
<1>1. /\ q \in Seq(Call) /\ Len(q) \in Nat
      /\ \A c \in Call : jb[c].state = "queued" <=> \E j \in 1..Len(q) : q[j] = c
      /\ \A j, k \in 1..Len(q) : j < k => q[j] < q[k]
      /\ \A j \in 1..Len(q) : q[j] \in Call
      /\ \A c \in Call : c \in Int
  <2>1. q \in Seq(Call)
    BY DEF QueueFits
  <2>2. Len(q) \in Nat /\ \A j \in 1..Len(q) : q[j] \in Call
    BY <2>1, LenProperties, ElementOfSeq
  <2>3. \A c \in Call : c \in Int
    BY DEF Call
  <2> QED BY <2>1, <2>2, <2>3 DEF QueueFits
<1>2. /\ \A j \in 1..(i - 1) : j \in 1..Len(q) /\ j < i
      /\ \A j \in 1..(Len(q) - i) : j + i \in 1..Len(q) /\ i < j + i
      /\ \A j \in 1..Len(q) : \/ j \in 1..(i - 1)
                              \/ j = i
                              \/ i < j /\ j - i \in 1..(Len(q) - i) /\ j = (j - i) + i
  BY <1>1
<1>3. q[i] \in Call /\ jb[q[i]].state = "queued"
  BY <1>1
<1>4. \A j \in 1..Len(q2) : q2[j] \in Call /\ jb[q2[j]].state = "queued" /\ q[i] < q2[j]
  <2>1. SUFFICES ASSUME NEW j \in 1..Len(q2)
                 PROVE  q2[j] \in Call /\ jb[q2[j]].state = "queued" /\ q[i] < q2[j]
    OBVIOUS
  <2>2. j + i \in 1..Len(q) /\ i < j + i /\ q2[j] = q[j + i]
    BY <1>0, <1>2
  <2> QED BY <1>1, <2>2
<1>5. \A j \in 1..(i - 1) : q[j] \in Call /\ jb[q[j]].state = "queued" /\ q[j] < q[i]
  BY <1>1, <1>2
<1>6. ASSUME NEW c \in Call, jb[c].state = "queued"
      PROVE  \/ c < q[i] /\ \E j \in 1..(i - 1) : q[j] = c
             \/ c = q[i]
             \/ c > q[i] /\ \E j \in 1..Len(q2) : q2[j] = c
  <2>1. PICK j \in 1..Len(q) : q[j] = c
    BY <1>1, <1>6
  <2>2. CASE j \in 1..(i - 1)
    BY <1>5, <2>1, <2>2
  <2>3. CASE j - i \in 1..(Len(q) - i) /\ j = (j - i) + i
    <3>1. q2[j - i] = c /\ j - i \in 1..Len(q2)
      BY <1>0, <2>1, <2>3
    <3> QED BY <1>1, <1>3, <1>4, <3>1
  <2> QED BY <1>2, <2>1, <2>2, <2>3
<1>7. ASSUME NEW c \in Call, jb[c].state # "queued" PROVE jb2[c].state = jb[c].state
  BY <1>0, <1>3, <1>5, <1>7
<1>8. ASSUME NEW c \in Call, jb[c].state = "queued", c < q[i]
      PROVE  jb2[c].state = "dropped" /\ \E j \in 1..(i - 1) : q[j] = c
  <2>1. c # q[i] /\ ~(c > q[i])
    BY <1>1, <1>3, <1>8
  <2> QED BY <1>0, <1>6, <1>8, <2>1
<1>9. ASSUME NEW c \in Call, jb[c].state = "queued", c > q[i] PROVE jb2[c].state = "queued"
  <2>1. c # q[i] /\ \A j \in 1..(i - 1) : q[j] # c
    BY <1>1, <1>3, <1>5, <1>9
  <2> QED BY <1>0, <1>9, <2>1
<1>10. \A c \in Call : jb2[c].state = "queued" => jb[c].state = "queued" /\ c > q[i]
  <2>1. ASSUME NEW c \in Call, jb2[c].state = "queued" PROVE jb[c].state = "queued" /\ c > q[i]
    <3>1. jb[c].state = "queued"
      BY <1>7, <2>1
    <3>2. c # q[i] /\ ~(c < q[i])
      BY <1>0, <1>8, <2>1, <3>1
    <3> QED BY <1>6, <3>1, <3>2
  <2> QED BY <2>1
<1>11. \A c \in Call : jb2[c].state = "queued" <=> \E j \in 1..Len(q2) : q2[j] = c
  <2>1. ASSUME NEW c \in Call, jb2[c].state = "queued" PROVE \E j \in 1..Len(q2) : q2[j] = c
    <3>1. jb[c].state = "queued" /\ c > q[i]
      BY <1>10, <2>1
    <3>2. c # q[i] /\ ~(c < q[i])
      BY <1>1, <1>3, <3>1
    <3> QED BY <1>6, <3>1, <3>2
  <2>2. \A j \in 1..Len(q2) : jb2[q2[j]].state = "queued"
    <3>1. \A j \in 1..Len(q2) : q2[j] \in Call /\ jb[q2[j]].state = "queued" /\ q2[j] > q[i]
      BY <1>1, <1>3, <1>4
    <3> QED BY <1>9, <3>1
  <2> QED BY <2>1, <2>2
<1>12. \A j, k \in 1..Len(q2) : j < k => q2[j] < q2[k]
  <2>1. SUFFICES ASSUME NEW j \in 1..Len(q2), NEW k \in 1..Len(q2), j < k
                 PROVE  q2[j] < q2[k]
    OBVIOUS
  <2>2. j + i \in 1..Len(q) /\ k + i \in 1..Len(q) /\ j + i < k + i
    BY <1>0, <1>1, <1>2, <2>1
  <2>3. q2[j] = q[j + i] /\ q2[k] = q[k + i]
    BY <1>0
  <2> QED BY <1>1, <2>2, <2>3
<1>13. \A c \in Call : jb2[c].state = "queued" => jb2[c].token = tk
  <2>1. \A c \in Call : jb[c].state = "queued" => jb[c].token = tk
    BY DEF QueueFits
  <2> QED BY <1>0, <1>10, <2>1
<1>14. QueueFits(q2, jb2, tk)
  BY <1>0, <1>11, <1>12, <1>13 DEF QueueFits
<1> QED BY <1>3, <1>7, <1>8, <1>9, <1>14

\* The i-th task is taken: those before it are dropped, those behind it stay.
After(q, jb, i) == Mark(ClearQueue(jb, SubSeq(q, 1, i - 1)), {q[i]}, "speaking")

\* Taking the i-th task is what Taken says: those before it are dropped.
LEMMA TakeFacts ==
    ASSUME NEW q, NEW jb, NEW tk, QueueFits(q, jb, tk), NEW i \in 1..Len(q)
    PROVE  Taken(q, jb, i, SubSeq(q, i + 1, Len(q)), After(q, jb, i))
<1> DEFINE p   == SubSeq(q, 1, i - 1)
           q2  == SubSeq(q, i + 1, Len(q))
           cl  == ClearQueue(jb, p)
           T   == {q[i]}
           jb2 == Mark(cl, T, "speaking")
<1>1. /\ jb \in [Call -> Job] /\ q \in Seq(Call) /\ Len(q) \in Nat
      /\ "dropped" \in JobState /\ "speaking" \in JobState
      /\ \A j \in 1..Len(q) : q[j] \in Call
  BY LenProperties, ElementOfSeq DEF QueueFits, JobState
<1>2. p \in Seq(Call) /\ Len(p) = i - 1 /\ \A j \in 1..(i - 1) : p[j] = q[j]
  BY <1>1, SubSeqProperties
<1>3. q2 \in Seq(Call) /\ Len(q2) = Len(q) - i /\ \A j \in 1..(Len(q) - i) : q2[j] = q[j + i]
  BY <1>1, SubSeqProperties
<1>4. cl = ClearQueue(jb, p) /\ jb2 = Mark(cl, T, "speaking") /\ \A c : c \in T <=> c = q[i]
  OBVIOUS
<1>5. q[i] \in Call
  BY <1>1
<1> HIDE DEF p, q2, cl, T, jb2
<1>6. \A c \in Call : c \in ToSet(p) <=> \E j \in 1..(i - 1) : q[j] = c
  <2>1. \A c \in Call : c \in ToSet(p) <=> \E j \in 1..Len(p) : p[j] = c
    BY <1>2, ToSetFacts
  <2> QED BY <1>2, <2>1
<1>7. cl \in [Call -> Job] /\ \A c \in Call :
        /\ cl[c].token = jb[c].token /\ cl[c].session = jb[c].session
        /\ c \in ToSet(p) => cl[c].state = "dropped"
        /\ c \notin ToSet(p) => cl[c].state = jb[c].state
  BY <1>1, <1>4, MarkFacts DEF ClearQueue
<1>8. jb2 \in [Call -> Job] /\ \A c \in Call :
        /\ jb2[c].token = cl[c].token /\ jb2[c].session = cl[c].session
        /\ c \in T => jb2[c].state = "speaking"
        /\ c \notin T => jb2[c].state = cl[c].state
  BY <1>1, <1>4, <1>7, MarkFacts
<1>9. Taken(q, jb, i, q2, jb2)
  <2>1. \A c \in Call : jb2[c].token = jb[c].token /\ jb2[c].session = jb[c].session
    BY <1>7, <1>8
  <2>2. jb2[q[i]].state = "speaking"
    BY <1>4, <1>5, <1>8
  <2>3. ASSUME NEW c \in Call, \E j \in 1..(i - 1) : q[j] = c, c # q[i]
        PROVE  jb2[c].state = "dropped"
    BY <1>4, <1>6, <1>7, <1>8, <2>3
  <2>4. ASSUME NEW c \in Call, \A j \in 1..(i - 1) : q[j] # c, c # q[i]
        PROVE  jb2[c].state = jb[c].state
    BY <1>4, <1>6, <1>7, <1>8, <2>4
  <2> QED BY <1>3, <1>8, <2>1, <2>2, <2>3, <2>4 DEF Taken
<1> QED BY <1>9 DEF p, q2, cl, T, jb2, After

-----------------------------------------------------------------------------
(* processQueue                                                            *)

\* Calls that a loop takes out of the queue are dropped or spoken, and what is
\* spoken leaves no earlier call behind it in the queue.
Served(jb, jb2) ==
    /\ \A d \in Call :
         /\ jb2[d].token = jb[d].token /\ jb2[d].session = jb[d].session
         /\ \/ jb2[d].state = jb[d].state
            \/ jb[d].state = "queued" /\ jb2[d].state \in {"dropped", "speaking"}
    /\ \A d, e \in Call :
         jb[d].state # "speaking" /\ jb2[d].state = "speaking" /\ e < d => jb2[e].state # "queued"

\* The one call that a loop takes to be spoken is t.  It is of the current session,
\* and what was queued before it is not.
InTurn(jb, jb2, t) ==
    \A d \in Call : jb[d].state # "speaking" /\ jb2[d].state = "speaking" =>
        /\ d = t /\ jb[d].session = currentSession
        /\ \A e \in Call : e < d /\ jb[e].state = "queued" => jb[e].session # currentSession

\* What the code between two awaits of a loop does to calls, queue and loop.
LEMMA IterateFacts ==
    ASSUME NEW c \in Call, NEW tk \in 0..MaxStops, NEW q, NEW jb, NEW flag, NEW processing,
           QueueFits(q, jb, token), loop \in [Call -> Loop], timer \in [Call -> BOOLEAN],
           Iterate(c, tk, q, jb, flag, processing)
    PROVE  /\ QueueFits(queue', job', token) /\ Served(jb, job')
           /\ InTurn(jb, job', loop'[c].task)
           /\ timer' \in [Call -> BOOLEAN] /\ loop' \in [Call -> Loop]
           /\ \A d \in Call : d # c => loop'[d] = loop[d]
           /\ loop'[c].token \in {tk, loop[c].token}
           /\ \/ /\ loop'[c].task = 0 /\ isProcessing' = FALSE
                 /\ IF tk = token THEN queue' = <<>> ELSE queue' = q
              \/ /\ loop'[c].task \in Call /\ job'[loop'[c].task].state = "speaking"
                 /\ loop'[c].token = token /\ tk = token /\ isProcessing' = processing
<1> DEFINE mine == FirstOfSession(q, jb)
<1>1. q \in Seq(Call) /\ jb \in [Call -> Job]
  BY DEF QueueFits
<1>2. Call \subseteq 0..MaxCalls
  BY BoundsAssumption DEF Call
<1>3. ASSUME NEW q2, NEW jb2, LeaveLoop(c, tk, q2, jb2)
      PROVE  /\ queue' = q2 /\ job' = jb2
             /\ timer' \in [Call -> BOOLEAN] /\ loop' \in [Call -> Loop]
             /\ \A d \in Call : d # c => loop'[d] = loop[d]
             /\ loop'[c].token = loop[c].token
             /\ loop'[c].task = 0 /\ isProcessing' = FALSE
  <2>1. 0 \in 0..MaxCalls /\ loop[c] \in Loop
    BY BoundsAssumption
  <2> QED BY <1>3, <2>1 DEF LeaveLoop, Loop
<1>4. Served(jb, jb) /\ \A t : InTurn(jb, jb, t)
  BY DEF Served, InTurn
<1>5. CASE (q = <<>> \/ tk # token) /\ LeaveLoop(c, tk, q, jb)
  BY <1>3, <1>4, <1>5
<1>6. CASE tk = token /\ LeaveLoop(c, tk, <<>>, ClearQueue(jb, q))
  <2> DEFINE jb2 == ClearQueue(jb, q)
  <2>1. \A d \in Call :
          /\ jb2[d].token = jb[d].token /\ jb2[d].session = jb[d].session
          /\ jb[d].state = "queued" => jb2[d].state = "dropped"
          /\ jb[d].state # "queued" => jb2[d].state = jb[d].state
    BY ClearFacts
  <2>4. QueueFits(<<>>, jb2, token)
    BY ClearFits
  <2>2. queue' = <<>> /\ job' = jb2
    BY <1>3, <1>6
  <2> HIDE DEF jb2
  <2>3. Served(jb, jb2) /\ \A t : InTurn(jb, jb2, t)
    <3>1. \A d \in Call : jb2[d].state = "speaking" => jb[d].state = "speaking"
      BY <2>1
    <3> QED BY <2>1, <3>1 DEF Served, InTurn
  <2> QED BY <1>3, <1>6, <2>2, <2>3, <2>4
<1>7. CASE tk = token /\ mine # 0 /\ SpeakNext(c, tk, mine, q, jb) /\ isProcessing' = processing
  <2>1. /\ mine \in 1..Len(q) /\ jb[q[mine]].session = currentSession
        /\ \A j \in 1..(mine - 1) : jb[q[j]].session # currentSession
    <3>1. mine # 0 => /\ mine \in 1..Len(q) /\ jb[q[mine]].session = currentSession
                      /\ \A j \in 1..(mine - 1) : jb[q[j]].session # currentSession
      BY <1>1, SelectFacts
    <3> QED BY <1>7, <3>1
  <2> HIDE DEF mine
  <2> DEFINE jb2 == After(q, jb, mine)
             q2  == SubSeq(q, mine + 1, Len(q))
             t   == q[mine]
  <2>2. /\ queue' = q2 /\ job' = jb2
        /\ loop' = [loop EXCEPT ![c] = [task |-> t, token |-> tk]] /\ timer' = timer
    BY <1>7 DEF SpeakNext, After
  <2>10. Taken(q, jb, mine, q2, jb2)
    BY <2>1, TakeFacts
  <2> HIDE DEF jb2, q2
  <2>11. /\ QueueFits(q2, jb2, token)
         /\ t \in Call /\ jb[t].state = "queued"
         /\ \A d \in Call :
              /\ jb[d].state # "queued" => jb2[d].state = jb[d].state
              /\ jb[d].state = "queued" /\ d < t =>
                   jb2[d].state = "dropped" /\ \E j \in 1..(mine - 1) : q[j] = d
              /\ jb[d].state = "queued" /\ d > t => jb2[d].state = "queued"
    BY <2>1, <2>10, TakeShape
  <2>12. /\ jb2[t].state = "speaking"
         /\ \A d \in Call : jb2[d].token = jb[d].token /\ jb2[d].session = jb[d].session
    BY <2>10 DEF Taken
  <2>3. /\ QueueFits(q2, jb2, token)
        /\ t \in Call /\ jb[t].state = "queued" /\ jb2[t].state = "speaking"
        /\ \A d \in Call :
             /\ jb2[d].token = jb[d].token /\ jb2[d].session = jb[d].session
             /\ jb[d].state # "queued" => jb2[d].state = jb[d].state
             /\ jb[d].state = "queued" /\ d < t => jb2[d].state = "dropped"
             /\ jb[d].state = "queued" /\ d > t => jb2[d].state = "queued"
    BY <2>11, <2>12
  <2>13. /\ jb[t].session = currentSession
         /\ \A d \in Call : d < t /\ jb[d].state = "queued" => jb[d].session # currentSession
    BY <2>1, <2>11
  <2> HIDE DEF t
  <2>4. \A d \in Call : d < t \/ d = t \/ d > t
    BY <2>3 DEF Call
  <2>5. \A d \in Call : jb[d].state # "speaking" /\ jb2[d].state = "speaking" => d = t
    BY <2>3, <2>4
  <2>6. \A e \in Call : e < t => jb2[e].state # "queued"
    BY <2>3
  <2>7. Served(jb, jb2)
    BY <2>3, <2>4, <2>5, <2>6 DEF Served
  <2>14. InTurn(jb, jb2, t)
    BY <2>5, <2>13 DEF InTurn
  <2>8. [task |-> t, token |-> tk] \in Loop
    BY <1>2, <2>3 DEF Loop
  <2>9. /\ loop' \in [Call -> Loop] /\ loop'[c] = [task |-> t, token |-> tk]
        /\ \A d \in Call : d # c => loop'[d] = loop[d]
    BY <2>2, <2>8
  <2> QED BY <1>7, <2>2, <2>3, <2>7, <2>9, <2>14
<1> QED BY <1>5, <1>6, <1>7 DEF Iterate

-----------------------------------------------------------------------------
(* The calls                                                               *)

\* In the typed queue every member is a queued call.
LEMMA QueueTyped ==
    ASSUME NEW q, NEW jb, NEW tk, QueueFits(q, jb, tk)
    PROVE  /\ jb \in [Call -> Job] /\ q \in Seq(Call)
           /\ \A c \in ToSet(q) : jb[c].state = "queued"
<1>1. /\ jb \in [Call -> Job] /\ q \in Seq(Call)
      /\ \A c \in Call : (\E i \in 1..Len(q) : q[i] = c) => jb[c].state = "queued"
  BY DEF QueueFits
<1>2. \A c \in ToSet(q) : \E i \in 1..Len(q) : q[i] = c
  BY <1>1, ToSetFacts
<1>3. \A i \in 1..Len(q) : q[i] \in Call
  BY <1>1, ElementOfSeq
<1> QED BY <1>1, <1>2, <1>3

\* jb2 differs from jb in call c alone.
Moved(jb, jb2, c, state) ==
    /\ jb2 \in [Call -> Job] /\ jb2[c].state = state
    /\ \A d \in Call : d # c => jb2[d].state = jb[d].state /\ jb2[d].token = jb[d].token

\* Marking one call moves that call and leaves its token as it was.
LEMMA MarkMoves ==
    ASSUME NEW jb \in [Call -> Job], NEW c \in Call, NEW state \in JobState
    PROVE  /\ Moved(jb, Mark(jb, {c}, state), c, state)
           /\ \A d \in Call : Mark(jb, {c}, state)[d].token = jb[d].token
<1> DEFINE C == {c}
<1>1. c \in C /\ \A d : d # c => d \notin C
  OBVIOUS
<1> HIDE DEF C
<1>2. /\ Mark(jb, C, state) \in [Call -> Job]
      /\ \A d \in Call : /\ Mark(jb, C, state)[d].token = jb[d].token
                         /\ d \in C => Mark(jb, C, state)[d].state = state
                         /\ d \notin C => Mark(jb, C, state)[d].state = jb[d].state
  BY MarkFacts
<1>3. /\ Moved(jb, Mark(jb, C, state), c, state)
      /\ \A d \in Call : Mark(jb, C, state)[d].token = jb[d].token
  BY <1>1, <1>2 DEF Moved
<1> QED BY <1>3 DEF C

\* A call that was not queued and is not queued now leaves the queue as it was.
LEMMA MoveFits ==
    ASSUME NEW q, NEW jb, NEW tk, QueueFits(q, jb, tk), NEW jb2, NEW c \in Call,
           NEW state, Moved(jb, jb2, c, state), jb[c].state # "queued", state # "queued"
    PROVE  QueueFits(q, jb2, tk)
<1>1. \A d \in Call : jb2[d].state = "queued" <=> jb[d].state = "queued"
  BY DEF Moved
<1>2. \A d \in Call : jb2[d].state = "queued" => jb2[d].token = jb[d].token
  BY DEF Moved
<1> QED BY <1>1, <1>2 DEF QueueFits, Moved

\* What a loop takes out of the queue leaves the chain as it was.
LEMMA ServedChain ==
    ASSUME NEW jb, NEW jb2, NEW n, ChainFits(jb, n), Served(jb, jb2)
    PROVE  ChainFits(jb2, n)
<1>1. \A d \in Call : /\ jb2[d].state = "idle" <=> jb[d].state = "idle"
                      /\ jb2[d].state = "chained" <=> jb[d].state = "chained"
                      /\ jb2[d].state = "fetching" <=> jb[d].state = "fetching"
                      /\ jb2[d].state = "queued" => jb[d].state = "queued"
  BY DEF Served
<1> QED BY <1>1 DEF ChainFits

\* Clearing the queue serves it, in the sense of the chain.
LEMMA ClearServes ==
    ASSUME NEW q, NEW jb, NEW tk, QueueFits(q, jb, tk)
    PROVE  Served(jb, ClearQueue(jb, q))
<1>1. \A c \in Call :
        /\ ClearQueue(jb, q)[c].token = jb[c].token
        /\ ClearQueue(jb, q)[c].session = jb[c].session
        /\ jb[c].state = "queued" => ClearQueue(jb, q)[c].state = "dropped"
        /\ jb[c].state # "queued" => ClearQueue(jb, q)[c].state = jb[c].state
  BY ClearFacts
<1> DEFINE jb2 == ClearQueue(jb, q)
<1> HIDE DEF jb2
<1>2. \A c \in Call :
        /\ jb2[c].token = jb[c].token /\ jb2[c].session = jb[c].session
        /\ jb[c].state = "queued" => jb2[c].state = "dropped"
        /\ jb[c].state # "queued" => jb2[c].state = jb[c].state
  BY <1>1 DEF jb2
<1>3. Served(jb, jb2)
  BY <1>2 DEF Served
<1> QED BY <1>3 DEF jb2

-----------------------------------------------------------------------------
(* The steps                                                               *)

\* A call that begins to speak was made after the last Stop and leaves none before
\* it on its way.
Begun ==
    \A c \in Call : job[c].state # "speaking" /\ job'[c].state = "speaking" =>
        /\ Current(c)
        /\ \A d \in Call : d < c => job'[d].state \notin {"chained", "fetching", "queued"}

\* The initial states satisfy the invariant.
LEMMA InitFits == Init => IInv
<1> SUFFICES ASSUME Init PROVE IInv
  OBVIOUS
<1>1. 0 \in 0..MaxCalls /\ 0 \in 0..MaxStops
  BY BoundsAssumption
<1>2. <<>> \in Seq(Call) /\ ToSet(<<>>) = {} /\ Len(<<>>) = 0
  BY DEF ToSet
<1>3. TypeOK
  BY <1>1, <1>2 DEF Init, TypeOK, Job, JobState, Loop, PlayState
<1>4. QueueFits(queue, job, token)
  BY <1>1, <1>2 DEF Init, QueueFits, Job, JobState
<1>5. ChainFits(job, calls)
  BY DEF Init, ChainFits, Call
<1>6. LoopsFit
  BY <1>1 DEF Init, LoopsFit
<1>7. NoStrandedTask /\ StoppedCatchesOldOnly
  BY DEF Init, NoStrandedTask, StoppedCatchesOldOnly
<1> QED BY <1>3, <1>4, <1>5, <1>6, <1>7 DEF IInv

\* The step leaves the calls, the queue, the loops and the token alone, and lifts
\* the stop at most.
LEMMA QuietStep ==
    ASSUME IInv, TypeOK', UNCHANGED <<calls, job, queue, token, loop, isProcessing, currentSession>>,
           stopped' => stopped
    PROVE  IInv' /\ Begun
<1>1. QueueFits(queue', job', token') /\ ChainFits(job', calls')
  BY DEF IInv
<1>2. LoopsFit'
  BY DEF IInv, LoopsFit, Talking
<1>3. NoStrandedTask' /\ StoppedCatchesOldOnly'
  BY DEF IInv, NoStrandedTask, StoppedCatchesOldOnly, Talking, Current
<1>4. Begun
  BY DEF Begun
<1> QED BY <1>1, <1>2, <1>3, <1>4 DEF IInv

\* Player, timer and microphone touch no queue and no loop.
LEMMA QuietTypes ==
    ASSUME TypeOK,
           \/ UNCHANGED vars
           \/ ToggleListening
           \/ \E c \in Call : StartSound(c) \/ NeutralTimer(c)
    PROVE  /\ TypeOK' /\ (stopped' => stopped)
           /\ UNCHANGED <<calls, job, queue, token, loop, isProcessing, currentSession>>
<1>1. Call \subseteq 0..MaxCalls
  BY BoundsAssumption DEF Call
<1>2. CASE UNCHANGED vars
  BY <1>2 DEF vars, queueVars, loopVars, playVars, TypeOK
<1>3. CASE ToggleListening
  BY <1>3 DEF ToggleListening, loopVars, playVars, TypeOK
<1>4. ASSUME NEW c \in Call, StartSound(c)
      PROVE  /\ TypeOK' /\ (stopped' => stopped)
             /\ UNCHANGED <<calls, job, queue, token, loop, isProcessing, currentSession>>
  BY <1>1, <1>4 DEF StartSound, queueVars, loopVars, TypeOK, PlayState
<1>5. ASSUME NEW c \in Call, NeutralTimer(c)
      PROVE  /\ TypeOK' /\ (stopped' => stopped)
             /\ UNCHANGED <<calls, job, queue, token, loop, isProcessing, currentSession>>
  BY <1>5 DEF NeutralTimer, playVars, TypeOK
<1> QED BY <1>2, <1>3, <1>4, <1>5

\* The synthesis of a call begins, or the call is over without a speech.
LEMMA SynthesisStep ==
    ASSUME IInv, NEW c \in Call, BeginSynthesis(c) \/ Discard(c)
    PROVE  IInv' /\ Begun
<1>1. PICK st \in {"fetching", "ended"} :
        /\ job' = Mark(job, {c}, st)
        /\ job[c].state \in {"chained", "fetching"}
        /\ st = "fetching" => /\ job[c].state = "chained" /\ job[c].token = token
                             /\ \A d \in 1..(c - 1) : job[d].state \notin {"chained", "fetching"}
  BY DEF BeginSynthesis, Discard
<1>2. UNCHANGED <<calls, queueVars, loopVars, playVars>>
  BY DEF BeginSynthesis, Discard
<1>3. job \in [Call -> Job] /\ st \in JobState
  BY DEF IInv, TypeOK, JobState
<1>4. Moved(job, job', c, st) /\ \A d \in Call : job'[d].token = job[d].token
  BY <1>1, <1>3, MarkMoves
<1>5. QueueFits(queue', job', token')
  <2>1. QueueFits(queue, job', token)
    BY <1>1, <1>4, MoveFits DEF IInv
  <2> QED BY <1>2, <2>1 DEF queueVars
<1>6. TypeOK'
  BY <1>2, <1>5, QueueTyped DEF IInv, TypeOK, queueVars, loopVars, playVars
<1>7. ChainFits(job', calls')
  <2>1. \A d \in Call : d > calls' <=> job'[d].state = "idle"
    BY <1>1, <1>2, <1>4 DEF IInv, ChainFits, Moved
  <2>2. SUFFICES ASSUME NEW d \in Call, NEW e \in Call, d < e,
                        job'[e].state \in {"fetching", "queued"}
                 PROVE  job'[d].state \notin {"idle", "chained", "fetching"}
    BY <2>1 DEF ChainFits
  <2>3. CASE e = c
    <3>1. job[c].state = "chained" /\ job[d].state \notin {"chained", "fetching"} /\ d # c
      BY <1>1, <1>4, <2>2, <2>3 DEF Moved, Call
    <3>2. job[d].state # "idle"
      BY <2>2, <2>3, <3>1 DEF IInv, ChainFits, Call, TypeOK
    <3> QED BY <1>4, <3>1, <3>2 DEF Moved
  <2>4. CASE e # c
    <3>1. job[d].state \notin {"idle", "chained", "fetching"}
      BY <1>4, <2>2, <2>4 DEF IInv, ChainFits, Moved
    <3> QED BY <1>1, <1>4, <3>1 DEF Moved
  <2> QED BY <2>3, <2>4
<1>8. LoopsFit'
  <2>1. \A d \in Call : loop[d].task # 0 => loop[d].task \in Call
    BY DEF IInv, TypeOK, Loop, Call
  <2>2. \A d \in Call : loop[d].task # 0 => job'[loop[d].task].state \in {"speaking", "ended"}
    BY <1>1, <1>4, <2>1 DEF IInv, LoopsFit, Moved
  <2> QED BY <1>2, <1>4, <2>2 DEF IInv, LoopsFit, Talking, queueVars, loopVars
<1>9. NoStrandedTask'
  BY <1>2 DEF IInv, NoStrandedTask, Talking, queueVars, loopVars
<1>10. StoppedCatchesOldOnly'
  <2>1. stopped' = stopped /\ token' = token
    BY <1>2 DEF queueVars
  <2>2. \A d \in Call : job'[d].state \in {"chained", "fetching", "queued"} =>
          job[d].state \in {"chained", "fetching", "queued"}
    BY <1>1, <1>4 DEF Moved
  <2> QED BY <1>4, <2>1, <2>2 DEF IInv, StoppedCatchesOldOnly, Current
<1>11. Begun
  BY <1>1, <1>4 DEF Begun, Moved
<1> QED BY <1>5, <1>6, <1>7, <1>8, <1>9, <1>10, <1>11 DEF IInv

\* A loop goes on, from the queue q and the calls jb it finds: all that the two
\* callers of Iterate need.
LEMMA LoopStep ==
    ASSUME IInv, NEW c \in Call, NEW tk \in 0..MaxStops, NEW q, NEW jb, NEW flag,
           NEW processing \in BOOLEAN,
           QueueFits(q, jb, token), ChainFits(jb, calls),
           \A d \in Call : jb[d].token = job[d].token,
           \A d \in Call : jb[d].state = "speaking" => job[d].state = "speaking",
           \A d \in Call : loop[d].task # 0 => jb[loop[d].task].state \in {"speaking", "ended"},
           stopped => \A d \in Call : jb[d].state \in {"chained", "fetching", "queued"} =>
                                        jb[d].token # token,
           tk <= token, tk # token => q = queue /\ loop[c].token # token,
           Iterate(c, tk, q, jb, flag, processing),
           UNCHANGED <<calls, currentSession, stopped, token>>,
           isSpeaking' \in BOOLEAN, play' \in [Call -> PlayState], source' \in 0..MaxCalls
    PROVE  IInv' /\ Begun
<1>1. loop \in [Call -> Loop] /\ timer \in [Call -> BOOLEAN] /\ token \in 0..MaxStops
  BY DEF IInv, TypeOK
<1>2. /\ QueueFits(queue', job', token) /\ Served(jb, job')
      /\ timer' \in [Call -> BOOLEAN] /\ loop' \in [Call -> Loop]
      /\ \A d \in Call : d # c => loop'[d] = loop[d]
      /\ loop'[c].token \in {tk, loop[c].token}
      /\ \/ /\ loop'[c].task = 0 /\ isProcessing' = FALSE
            /\ IF tk = token THEN queue' = <<>> ELSE queue' = q
         \/ /\ loop'[c].task \in Call /\ job'[loop'[c].task].state = "speaking"
            /\ loop'[c].token = token /\ tk = token /\ isProcessing' = processing
  BY <1>1, IterateFacts
<1>3. QueueFits(queue', job', token')
  BY <1>2
<1>4. TypeOK'
  BY <1>2, <1>3, QueueTyped DEF IInv, TypeOK
<1>5. ChainFits(job', calls')
  BY <1>2, ServedChain
<1>6. 0 \notin Call /\ \A d \in Call : loop[d].task # 0 => loop[d].task \in Call
  BY <1>1 DEF Loop, Call
<1>7. LoopsFit'
  <2>1. \A d \in Call : job'[d].token <= token' /\ loop'[d].token <= token'
    <3>1. \A d \in Call : job[d].token <= token /\ loop[d].token <= token
      BY DEF IInv, LoopsFit
    <3>2. \A d \in Call : job'[d].token = job[d].token
      BY <1>2 DEF Served
    <3> QED BY <1>2, <3>1, <3>2
  <2>2. ASSUME NEW d \in Call, loop'[d].task # 0
        PROVE  job'[loop'[d].task].state \in {"speaking", "ended"}
    <3>1. CASE d = c
      BY <1>2, <2>2, <3>1
    <3>2. CASE d # c
      <4>1. loop'[d] = loop[d] /\ loop[d].task \in Call
        BY <1>2, <1>6, <2>2, <3>2
      <4>2. jb[loop[d].task].state \in {"speaking", "ended"}
        BY <2>2, <4>1
      <4> QED BY <1>2, <4>1, <4>2 DEF Served
    <3> QED BY <3>1, <3>2
  <2>3. isProcessing' => \E d \in Call : Talking(d)'
    BY <1>2, <1>6 DEF Talking
  <2> QED BY <2>1, <2>2, <2>3 DEF LoopsFit
<1>8. NoStrandedTask'
  <2>1. CASE tk = token
    BY <1>2, <1>6, <2>1 DEF NoStrandedTask, Talking
  <2>2. CASE tk # token
    <3>1. queue' = queue /\ loop[c].token # token
      BY <1>2, <2>2
    <3>2. \A d \in Call : Talking(d) => Talking(d)'
      BY <1>2, <3>1 DEF Talking
    <3> QED BY <3>1, <3>2 DEF IInv, NoStrandedTask
  <2> QED BY <2>1, <2>2
<1>9. StoppedCatchesOldOnly'
  <2>1. \A d \in Call : job'[d].token = jb[d].token
    BY <1>2 DEF Served
  <2>2. \A d \in Call : job'[d].state \in {"chained", "fetching", "queued"} =>
          jb[d].state \in {"chained", "fetching", "queued"}
    BY <1>2 DEF Served
  <2> QED BY <2>1, <2>2 DEF StoppedCatchesOldOnly, Current
<1>10. Begun
  <2>1. SUFFICES ASSUME NEW d \in Call, job[d].state # "speaking", job'[d].state = "speaking"
                 PROVE  /\ Current(d)
                        /\ \A e \in Call : e < d =>
                             job'[e].state \notin {"chained", "fetching", "queued"}
    BY DEF Begun
  <2>2. jb[d].state = "queued"
    BY <1>2, <2>1 DEF Served
  <2>3. Current(d)
    BY <2>2 DEF QueueFits, Current
  <2>4. \A e \in Call : e < d => job'[e].state # "queued"
    BY <1>2, <2>1, <2>2 DEF Served
  <2>5. \A e \in Call : e < d => jb[e].state \notin {"idle", "chained", "fetching"}
    BY <2>2 DEF ChainFits
  <2>6. \A e \in Call : \/ job'[e].state = jb[e].state
                        \/ job'[e].state \in {"dropped", "speaking"}
    BY <1>2 DEF Served
  <2> QED BY <2>3, <2>4, <2>5, <2>6
<1> QED BY <1>3, <1>4, <1>5, <1>7, <1>8, <1>9, <1>10 DEF IInv

\* The calls as a loop finds them whose speak has returned.
Over(c) == Mark(job, {loop[c].task}, "ended")

\* The values with which SpeakReturns enters the next iteration.
LEMMA OverFits ==
    ASSUME IInv, NEW c \in Call, SpeakReturns(c)
    PROVE  /\ QueueFits(queue, Over(c), token) /\ ChainFits(Over(c), calls)
           /\ loop[c].task \in Call /\ Over(c)[loop[c].task].state = "ended"
           /\ \A d \in Call :
                /\ Over(c)[d].session = job[d].session /\ Over(c)[d].token = job[d].token
                /\ \/ Over(c)[d].state = job[d].state
                   \/ Over(c)[d].state = "ended" /\ job[d].state \in {"speaking", "ended"}
<1> DEFINE t  == loop[c].task
           jb == Mark(job, {t}, "ended")
<1>1. job \in [Call -> Job] /\ loop \in [Call -> Loop] /\ "ended" \in JobState
  BY DEF IInv, TypeOK, JobState
<1>2. t \in Call /\ job[t].state \in {"speaking", "ended"}
  BY <1>1 DEF SpeakReturns, IInv, LoopsFit, Loop, Call
<1>3. Moved(job, jb, t, "ended")
  BY <1>1, <1>2, MarkMoves
<1>4. \A d \in Call : jb[d].session = job[d].session /\ jb[d].token = job[d].token
  BY <1>1, MarkFacts
<1>5. jb = Over(c) /\ t = loop[c].task
  BY DEF Over
<1> HIDE DEF t, jb
<1>6. QueueFits(queue, jb, token)
  BY <1>2, <1>3, MoveFits DEF IInv
<1>7. /\ jb[t].state = "ended"
      /\ \A d \in Call : \/ jb[d].state = job[d].state
                         \/ jb[d].state = "ended" /\ job[d].state \in {"speaking", "ended"}
  <2>1. jb[t].state = "ended" /\ \A d \in Call : d # t => jb[d].state = job[d].state
    BY <1>3 DEF Moved
  <2> QED BY <1>2, <2>1
<1>8. ChainFits(jb, calls)
  BY <1>7 DEF IInv, ChainFits
<1> QED BY <1>2, <1>4, <1>5, <1>6, <1>7, <1>8

\* A loop that awaited speak goes on.
LEMMA ReturnStep ==
    ASSUME IInv, NEW c \in Call, SpeakReturns(c)
    PROVE  IInv' /\ Begun
<1> DEFINE jb == Over(c)
<1>1. loop \in [Call -> Loop] /\ isProcessing \in BOOLEAN
  BY DEF IInv, TypeOK
<1>2. loop[c].token \in 0..MaxStops /\ loop[c].token <= token
  BY <1>1 DEF IInv, LoopsFit, Loop
<1>3. Iterate(c, loop[c].token, queue, jb, isSpeaking, isProcessing)
  BY DEF SpeakReturns, Over
<1>4. /\ UNCHANGED <<calls, currentSession, stopped, token>>
      /\ isSpeaking' \in BOOLEAN /\ play' \in [Call -> PlayState] /\ source' \in 0..MaxCalls
  <2>1. 0 \in 0..MaxCalls
    BY BoundsAssumption
  <2> QED BY <2>1 DEF SpeakReturns, IInv, TypeOK, PlayState
<1>5. /\ QueueFits(queue, jb, token) /\ ChainFits(jb, calls)
      /\ \A d \in Call :
           /\ jb[d].token = job[d].token
           /\ \/ jb[d].state = job[d].state
              \/ jb[d].state = "ended" /\ job[d].state \in {"speaking", "ended"}
  BY OverFits
<1> HIDE DEF jb
<1>6. /\ \A d \in Call : jb[d].state = "speaking" => job[d].state = "speaking"
      /\ \A d \in Call : loop[d].task # 0 => jb[loop[d].task].state \in {"speaking", "ended"}
      /\ stopped => \A d \in Call : jb[d].state \in {"chained", "fetching", "queued"} =>
                                       jb[d].token # token
  <2>1. \A d \in Call : loop[d].task # 0 => loop[d].task \in Call
    BY <1>1 DEF Loop, Call
  <2>2. \A d \in Call : loop[d].task # 0 => jb[loop[d].task].state \in {"speaking", "ended"}
    BY <1>5, <2>1 DEF IInv, LoopsFit
  <2>3. stopped => \A d \in Call : jb[d].state \in {"chained", "fetching", "queued"} =>
                                       jb[d].token # token
    BY <1>5 DEF IInv, StoppedCatchesOldOnly, Current
  <2> QED BY <1>5, <2>2, <2>3
<1> QED BY <1>1, <1>2, <1>3, <1>4, <1>5, <1>6, LoopStep

\* A call whose speech is there joins the end of the queue, in its place.
LEMMA AppendFits ==
    ASSUME NEW q, NEW jb, NEW tk, QueueFits(q, jb, tk), NEW c \in Call, NEW jb2,
           Moved(jb, jb2, c, "queued"), jb2[c].token = tk, jb[c].state # "queued",
           \A d \in Call : jb[d].state = "queued" => d < c
    PROVE  QueueFits(Append(q, c), jb2, tk)
<1> DEFINE q2 == Append(q, c)
<1>1. /\ q \in Seq(Call) /\ Len(q) \in Nat
      /\ \A d \in Call : jb[d].state = "queued" <=> \E i \in 1..Len(q) : q[i] = d
      /\ \A i, j \in 1..Len(q) : i < j => q[i] < q[j]
      /\ \A d \in Call : jb[d].state = "queued" => jb[d].token = tk
  BY LenProperties DEF QueueFits
<1>2. /\ q2 \in Seq(Call) /\ Len(q2) = Len(q) + 1 /\ q2[Len(q) + 1] = c
      /\ \A i \in 1..Len(q) : q2[i] = q[i]
  BY <1>1, AppendProperties
<1>3. /\ \A i \in 1..Len(q) : i \in 1..Len(q2)
      /\ \A i \in 1..Len(q2) : i \in 1..Len(q) \/ i = Len(q) + 1
      /\ Len(q) + 1 \in 1..Len(q2)
  BY <1>1, <1>2
<1> HIDE DEF q2
<1>4. /\ jb2 \in [Call -> Job] /\ jb2[c].state = "queued"
      /\ \A d \in Call : d # c => jb2[d].state = jb[d].state /\ jb2[d].token = jb[d].token
  BY DEF Moved
<1>5. \A d \in Call : jb2[d].state = "queued" <=> \E i \in 1..Len(q2) : q2[i] = d
  <2>1. ASSUME NEW d \in Call, jb2[d].state = "queued" PROVE \E i \in 1..Len(q2) : q2[i] = d
    <3>1. CASE d = c
      BY <1>2, <1>3, <3>1
    <3>2. CASE d # c
      <4>1. jb[d].state = "queued"
        BY <1>4, <2>1, <3>2
      <4>2. PICK i \in 1..Len(q) : q[i] = d
        BY <1>1, <4>1
      <4> QED BY <1>2, <1>3, <4>2
    <3> QED BY <3>1, <3>2
  <2>2. ASSUME NEW d \in Call, NEW i \in 1..Len(q2), q2[i] = d PROVE jb2[d].state = "queued"
    BY <1>1, <1>2, <1>3, <1>4, <2>2
  <2> QED BY <2>1, <2>2
<1>6. ASSUME NEW i \in 1..Len(q2), NEW j \in 1..Len(q2), i < j PROVE q2[i] < q2[j]
  <2>1. i \in 1..Len(q)
    BY <1>1, <1>2, <1>6
  <2>2. CASE j \in 1..Len(q)
    BY <1>1, <1>2, <1>6, <2>1, <2>2
  <2>3. CASE j = Len(q) + 1
    <3>1. q[i] \in Call
      BY <1>1, <2>1, ElementOfSeq
    <3>2. q[i] < c
      BY <1>1, <2>1, <3>1
    <3> QED BY <1>2, <2>1, <2>3, <3>2
  <2> QED BY <1>3, <2>2, <2>3
<1>7. \A d \in Call : jb2[d].state = "queued" => jb2[d].token = tk
  BY <1>1, <1>4
<1>8. QueueFits(q2, jb2, tk)
  BY <1>2, <1>4, <1>5, <1>6, <1>7 DEF QueueFits
<1> QED BY <1>8 DEF q2

\* The calls and the queue when the speech of a call has come.
Arrived(c) == Mark(job, {c}, "queued")

\* The values with which a finished synthesis enters the queue.
LEMMA ArrivedFits ==
    ASSUME IInv, NEW c \in Call, Synthesized(c)
    PROVE  /\ QueueFits(Append(queue, c), Arrived(c), token) /\ ChainFits(Arrived(c), calls)
           /\ job[c].state = "fetching" /\ ~stopped /\ Arrived(c)[c].state = "queued"
           /\ \A d \in Call : d # c => Arrived(c)[d].state = job[d].state
           /\ \A d \in Call : /\ Arrived(c)[d].session = job[d].session
                              /\ Arrived(c)[d].token = job[d].token
<1> DEFINE jb == Mark(job, {c}, "queued")
<1>1. job \in [Call -> Job] /\ "queued" \in JobState
  BY DEF IInv, TypeOK, JobState
<1>2. job[c].state = "fetching" /\ job[c].token = token /\ ~stopped
  BY DEF Synthesized, IInv, StoppedCatchesOldOnly, Current
<1>3. Moved(job, jb, c, "queued")
  BY <1>1, MarkMoves
<1>4. \A d \in Call : jb[d].session = job[d].session /\ jb[d].token = job[d].token
  BY <1>1, MarkFacts
<1>5. jb = Arrived(c)
  BY DEF Arrived
<1> HIDE DEF jb
<1>6. QueueFits(Append(queue, c), jb, token)
  <2>1. \A d \in Call : job[d].state = "queued" => d < c
    <3>1. \A d \in Call : d < c \/ d = c \/ c < d
      BY DEF Call
    <3> QED BY <1>2, <3>1 DEF IInv, ChainFits
  <2> QED BY <1>2, <1>3, <1>4, <2>1, AppendFits DEF IInv
<1>7. jb[c].state = "queued" /\ \A d \in Call : d # c => jb[d].state = job[d].state
  BY <1>3 DEF Moved
<1>8. ChainFits(jb, calls)
  <2>1. \A d \in Call : d > calls <=> jb[d].state = "idle"
    BY <1>2, <1>7 DEF IInv, ChainFits
  <2>2. SUFFICES ASSUME NEW d \in Call, NEW e \in Call, d < e,
                        jb[e].state \in {"fetching", "queued"}
                 PROVE  jb[d].state \notin {"idle", "chained", "fetching"}
    BY <2>1 DEF ChainFits
  <2>3. job[e].state \in {"fetching", "queued"}
    BY <1>2, <1>7, <2>2
  <2>4. job[d].state \notin {"idle", "chained", "fetching"}
    BY <2>2, <2>3 DEF IInv, ChainFits
  <2> QED BY <1>2, <1>7, <2>4
<1> QED BY <1>2, <1>4, <1>5, <1>6, <1>7, <1>8

\* The speech of a call is there: it is queued, and a loop is started for it when
\* none is at work.
LEMMA SynthesizedStep ==
    ASSUME IInv, NEW c \in Call, Synthesized(c)
    PROVE  IInv' /\ Begun
<1> DEFINE q  == Append(queue, c)
           jb == Arrived(c)
<1>1. token \in 0..MaxStops
  BY DEF IInv, TypeOK
<1>2. /\ QueueFits(q, jb, token) /\ ChainFits(jb, calls)
      /\ job[c].state = "fetching" /\ ~stopped /\ jb[c].state = "queued"
      /\ \A d \in Call : d # c => jb[d].state = job[d].state
      /\ \A d \in Call : jb[d].token = job[d].token
  BY ArrivedFits
<1>3. /\ UNCHANGED <<calls, currentSession, stopped, token, source>> /\ isSpeaking' = TRUE
      /\ \/ /\ isProcessing /\ queue' = q /\ job' = jb
            /\ UNCHANGED <<isProcessing, loopVars, play>>
         \/ /\ ~isProcessing
            /\ Iterate(c, token, q, jb, TRUE, TRUE)
            /\ play' = [play EXCEPT ![loop'[c].task] = "decoding"]
  BY <1>2 DEF Synthesized, AddTask, Arrived
<1> HIDE DEF q, jb
<1>4. \A d \in Call : jb[d].state = "speaking" => job[d].state = "speaking"
  BY <1>2
<1>5. \A d \in Call : loop[d].task # 0 => jb[loop[d].task].state \in {"speaking", "ended"}
  <2>1. \A d \in Call : loop[d].task # 0 => loop[d].task \in Call
    BY DEF IInv, TypeOK, Loop, Call
  <2> QED BY <1>2, <2>1 DEF IInv, LoopsFit
<1>6. CASE isProcessing /\ queue' = q /\ job' = jb /\ UNCHANGED <<isProcessing, loopVars, play>>
  <2>1. QueueFits(queue', job', token')
    BY <1>2, <1>3, <1>6
  <2>2. TypeOK'
    BY <1>3, <1>6, <2>1, QueueTyped DEF IInv, TypeOK, loopVars
  <2>3. ChainFits(job', calls')
    BY <1>2, <1>3, <1>6
  <2>4. LoopsFit'
    BY <1>2, <1>3, <1>5, <1>6 DEF IInv, LoopsFit, Talking, loopVars
  <2>5. NoStrandedTask'
    BY <1>3, <1>6 DEF IInv, LoopsFit, NoStrandedTask, Talking, loopVars
  <2>6. StoppedCatchesOldOnly'
    BY <1>2, <1>3 DEF StoppedCatchesOldOnly
  <2>7. Begun
    BY <1>4, <1>6 DEF Begun
  <2> QED BY <2>1, <2>2, <2>3, <2>4, <2>5, <2>6, <2>7 DEF IInv
<1>7. CASE Iterate(c, token, q, jb, TRUE, TRUE) /\ play' = [play EXCEPT ![loop'[c].task] = "decoding"]
  <2>1. /\ isSpeaking' \in BOOLEAN /\ play' \in [Call -> PlayState] /\ source' \in 0..MaxCalls
    BY <1>3, <1>7 DEF IInv, TypeOK, PlayState
  <2>2. token <= token /\ TRUE \in BOOLEAN
    BY <1>1
  <2>3. \A d \in Call : jb[d].token = job[d].token
    BY <1>2
  <2>4. UNCHANGED <<calls, currentSession, stopped, token>>
    BY <1>3
  <2> QED BY <1>1, <1>2, <1>4, <1>5, <1>7, <2>1, <2>2, <2>3, <2>4, LoopStep
<1> QED BY <1>3, <1>6, <1>7

\* speakCharacter is called: what a new session, or a session after a Stop, finds in
\* the queue is dropped.
LEMMA SpeakCharacterStep ==
    ASSUME IInv, NEW c \in Call, NEW s \in Sessions, SpeakCharacter(c, s)
    PROVE  IInv' /\ Begun
<1> DEFINE fresh == stopped \/ currentSession # s
           q     == IF fresh THEN <<>> ELSE queue
           jb    == IF fresh THEN ClearQueue(job, queue) ELSE job
<1>1. PICK state \in {"chained", "ended"} :
        job' = [jb EXCEPT ![c] = [state |-> state, session |-> s, token |-> token]]
  BY DEF SpeakCharacter
<1>2. /\ c = calls + 1 /\ calls' = c /\ currentSession' = s /\ stopped' = FALSE /\ queue' = q
      /\ isSpeaking' = (fresh \/ isSpeaking)
      /\ UNCHANGED <<isProcessing, token, loopVars, playVars>>
  BY DEF SpeakCharacter
<1>3. /\ QueueFits(q, jb, token) /\ Served(job, jb) /\ (fresh => q = <<>>) /\ (~fresh => q = queue)
      /\ \A d \in Call : jb[d].state = "speaking" => job[d].state = "speaking"
  <2>1. QueueFits(queue, job, token)
    BY DEF IInv
  <2>2. CASE fresh
    <3>1. QueueFits(<<>>, ClearQueue(job, queue), token) /\ Served(job, ClearQueue(job, queue))
      BY <2>1, ClearFits, ClearServes
    <3>2. \A d \in Call :
            /\ job[d].state = "queued" => ClearQueue(job, queue)[d].state = "dropped"
            /\ job[d].state # "queued" => ClearQueue(job, queue)[d].state = job[d].state
      BY <2>1, ClearFacts
    <3>3. \A d \in Call : ClearQueue(job, queue)[d].state = "speaking" => job[d].state = "speaking"
      BY <3>2
    <3> QED BY <2>2, <3>1, <3>3
  <2>3. CASE ~fresh
    <3>1. Served(job, job)
      BY DEF Served
    <3> QED BY <2>1, <2>3, <3>1
  <2> QED BY <2>2, <2>3
<1>4. fresh \in BOOLEAN
  BY DEF IInv, TypeOK
<1> HIDE DEF fresh, q, jb
<1>5. job[c].state = "idle" /\ jb[c].state = "idle" /\ c \notin {0}
  <2>1. job[c].state = "idle"
    BY <1>2 DEF IInv, ChainFits, TypeOK, Call
  <2> QED BY <1>3, <2>1 DEF Served, Call
<1>6. /\ job'[c].state = state /\ job'[c].token = token
      /\ job' \in [Call -> Job] /\ \A d \in Call : d # c => job'[d] = jb[d]
  <2>1. jb \in [Call -> Job]
    BY <1>3 DEF QueueFits
  <2>2. [state |-> state, session |-> s, token |-> token] \in Job
    BY DEF IInv, TypeOK, Job, JobState
  <2> QED BY <1>1, <2>1, <2>2
<1>7. Moved(jb, job', c, state)
  BY <1>6 DEF Moved
<1>8. QueueFits(queue', job', token')
  <2>1. QueueFits(q, job', token)
    BY <1>3, <1>5, <1>7, MoveFits
  <2> QED BY <1>2, <2>1
<1>9. TypeOK'
  <2>1. calls' \in 0..MaxCalls /\ isSpeaking' \in BOOLEAN
    BY <1>2, <1>4, BoundsAssumption DEF Call, IInv, TypeOK
  <2> QED BY <1>2, <1>8, <2>1, QueueTyped DEF IInv, TypeOK, loopVars, playVars
<1>10. ChainFits(job', calls')
  <2>1. ChainFits(jb, calls)
    BY <1>3, ServedChain DEF IInv
  <2>2. calls \in Nat /\ Call \subseteq Nat
    BY BoundsAssumption DEF IInv, TypeOK, Call
  <2>3. \A d \in Call : d > calls' <=> job'[d].state = "idle"
    <3>1. \A d \in Call : d # c => (d > calls' <=> jb[d].state = "idle")
      <4>1. SUFFICES ASSUME NEW d \in Call, d # c
                     PROVE  d > calls' <=> jb[d].state = "idle"
        OBVIOUS
      <4>2. d > calls' <=> d > calls
        BY <1>2, <2>2, <4>1
      <4> QED BY <2>1, <4>2 DEF ChainFits
    <3> QED BY <1>2, <1>6, <2>2, <3>1
  <2>4. SUFFICES ASSUME NEW d \in Call, NEW e \in Call, d < e,
                        job'[e].state \in {"fetching", "queued"}
                 PROVE  job'[d].state \notin {"idle", "chained", "fetching"}
    BY <2>3 DEF ChainFits
  <2>5. e # c /\ jb[e].state \in {"fetching", "queued"}
    BY <1>6, <2>4
  <2>6. d # c
    BY <1>5, <2>1, <2>4, <2>5 DEF ChainFits
  <2> QED BY <1>6, <2>1, <2>4, <2>5, <2>6 DEF ChainFits
<1>11. LoopsFit'
  <2>1. \A d \in Call : loop[d].task # 0 => loop[d].task \in Call
    BY DEF IInv, TypeOK, Loop, Call
  <2>2. \A d \in Call : loop[d].task # 0 => jb[loop[d].task].state \in {"speaking", "ended"}
    BY <1>3, <2>1 DEF IInv, LoopsFit, Served
  <2>3. \A d \in Call : loop[d].task # 0 => job'[loop[d].task].state \in {"speaking", "ended"}
    BY <1>5, <1>6, <2>1, <2>2
  <2>4. \A d \in Call : job'[d].token <= token /\ loop[d].token <= token
    <3>1. token <= token
      BY DEF IInv, TypeOK
    <3>2. \A d \in Call : jb[d].token <= token
      BY <1>3 DEF IInv, LoopsFit, Served
    <3> QED BY <1>6, <3>1, <3>2 DEF IInv, LoopsFit
  <2> QED BY <1>2, <2>3, <2>4 DEF IInv, LoopsFit, Talking, loopVars
<1>12. NoStrandedTask'
  BY <1>2, <1>3 DEF IInv, NoStrandedTask, Talking, loopVars
<1>13. StoppedCatchesOldOnly'
  BY <1>2 DEF StoppedCatchesOldOnly
<1>14. Begun
  BY <1>3, <1>6 DEF Begun
<1> QED BY <1>8, <1>9, <1>10, <1>11, <1>12, <1>13, <1>14 DEF IInv

\* Stop: what is queued is dropped, and every call so far is one of the past.
LEMMA StopStep ==
    ASSUME IInv, StopAll
    PROVE  IInv' /\ Begun
<1> DEFINE jb == ClearQueue(job, queue)
<1>1. /\ QueueFits(<<>>, jb, token + 1) /\ Served(job, jb)
      /\ \A d \in Call : jb[d].state = "speaking" => job[d].state = "speaking"
  <2>1. QueueFits(queue, job, token)
    BY DEF IInv
  <2>2. \A d \in Call : /\ job[d].state = "queued" => jb[d].state = "dropped"
                        /\ job[d].state # "queued" => jb[d].state = job[d].state
    BY <2>1, ClearFacts
  <2>3. \A d \in Call : jb[d].state = "speaking" => job[d].state = "speaking"
    BY <2>2
  <2> QED BY <2>1, <2>3, ClearFits, ClearServes
<1>2. /\ token < MaxStops /\ token' = token + 1 /\ isProcessing' = FALSE /\ queue' = <<>>
      /\ job' = jb /\ stopped' = TRUE /\ isSpeaking' = FALSE /\ source' = 0
      /\ play' = [t \in Call |-> IF t = source THEN "cut" ELSE play[t]]
      /\ UNCHANGED <<calls, currentSession, loopVars>>
  BY DEF StopAll
<1> HIDE DEF jb
<1>3. token \in Nat /\ token + 1 \in 0..MaxStops /\ 0 \in 0..MaxCalls
  BY <1>2, BoundsAssumption DEF IInv, TypeOK
<1>4. QueueFits(queue', job', token') /\ ChainFits(job', calls')
  <2>1. ChainFits(jb, calls)
    BY <1>1, ServedChain DEF IInv
  <2> QED BY <1>1, <1>2, <2>1
<1>5. TypeOK'
  <2>1. play' \in [Call -> PlayState]
    BY <1>2 DEF IInv, TypeOK, PlayState
  <2> QED BY <1>2, <1>3, <1>4, <2>1, QueueTyped DEF IInv, TypeOK, loopVars
<1>6. LoopsFit'
  <2>1. \A d \in Call : loop[d].task # 0 => loop[d].task \in Call
    BY DEF IInv, TypeOK, Loop, Call
  <2>2. \A d \in Call : loop[d].task # 0 => jb[loop[d].task].state \in {"speaking", "ended"}
    BY <1>1, <2>1 DEF IInv, LoopsFit, Served
  <2>3. \A d \in Call : jb[d].token <= token + 1 /\ loop[d].token <= token + 1
    <3>1. \A d \in Call : jb[d].token = job[d].token
      BY <1>1 DEF Served
    <3>2. \A d \in Call : job[d].token \in Nat /\ loop[d].token \in Nat
      BY DEF IInv, TypeOK, Job, Loop
    <3> QED BY <1>3, <3>1, <3>2 DEF IInv, LoopsFit
  <2> QED BY <1>2, <2>2, <2>3 DEF LoopsFit, loopVars
<1>7. NoStrandedTask'
  BY <1>2 DEF NoStrandedTask
<1>8. StoppedCatchesOldOnly'
  <2>1. \A d \in Call : job[d].token <= token /\ job[d].token \in Nat
    BY DEF IInv, LoopsFit, TypeOK, Job
  <2>2. \A d \in Call : jb[d].token = job[d].token
    BY <1>1 DEF Served
  <2> QED BY <1>2, <1>3, <2>1, <2>2 DEF StoppedCatchesOldOnly, Current
<1>9. Begun
  BY <1>1, <1>2 DEF Begun
<1> QED BY <1>4, <1>5, <1>6, <1>7, <1>8, <1>9 DEF IInv

\* The invariant is inductive, and every step keeps the order of beginning.
LEMMA NextFits == IInv /\ [Next]_vars => IInv' /\ Begun
<1> SUFFICES ASSUME IInv, [Next]_vars PROVE IInv' /\ Begun
  OBVIOUS
<1>1. ASSUME \/ UNCHANGED vars
             \/ ToggleListening
             \/ \E c \in Call : StartSound(c) \/ NeutralTimer(c)
      PROVE  IInv' /\ Begun
  <2>1. TypeOK
    BY DEF IInv
  <2>2. /\ TypeOK' /\ (stopped' => stopped)
        /\ UNCHANGED <<calls, job, queue, token, loop, isProcessing, currentSession>>
    BY <1>1, <2>1, QuietTypes
  <2> QED BY <2>2, QuietStep
<1>2. ASSUME NEW c \in Call, NEW s \in Sessions, SpeakCharacter(c, s) PROVE IInv' /\ Begun
  BY <1>2, SpeakCharacterStep
<1>3. ASSUME NEW c \in Call, BeginSynthesis(c) \/ Discard(c) PROVE IInv' /\ Begun
  BY <1>3, SynthesisStep
<1>4. ASSUME NEW c \in Call, Synthesized(c) PROVE IInv' /\ Begun
  BY <1>4, SynthesizedStep
<1>5. ASSUME NEW c \in Call, SpeakReturns(c) PROVE IInv' /\ Begun
  BY <1>5, ReturnStep
<1>6. CASE StopAll
  BY <1>6, StopStep
<1> QED BY <1>1, <1>2, <1>3, <1>4, <1>5, <1>6 DEF Next

-----------------------------------------------------------------------------
(* The voices                                                              *)

\* What speaks is awaited by a loop.
Awaited(jb, lp) == \A c \in Call : jb[c].state = "speaking" => \E d \in Call : lp[d].task = c

\* A loop is named by a call whose speech came.
Named(jb, lp) ==
    \A c \in Call : lp[c].task # 0 => jb[c].state \notin {"idle", "chained", "fetching"}

Voiced ==
    /\ Awaited(job, loop)
    /\ Named(job, loop)
    /\ LoopsBounded

\* Sets of calls are finite, and grow and shrink by one call at a time.
LEMMA CallSets ==
    ASSUME NEW S \in SUBSET Call, NEW c \in Call
    PROVE  /\ IsFiniteSet(S) /\ Cardinality(S) \in Nat
           /\ Cardinality(S \cup {c}) <= Cardinality(S) + 1
           /\ Cardinality(S \ {c}) <= Cardinality(S)
           /\ c \in S => Cardinality(S \ {c}) + 1 = Cardinality(S)
<1>1. IsFiniteSet(Call)
  BY FS_Interval, BoundsAssumption DEF Call
<1>2. IsFiniteSet(S) /\ Cardinality(S) \in Nat
  BY <1>1, FS_Subset, FS_CardinalityType
<1>3. Cardinality(S \cup {c}) = IF c \in S THEN Cardinality(S) ELSE Cardinality(S) + 1
  BY <1>2, FS_AddElement
<1>4. Cardinality(S \ {c}) = IF c \in S THEN Cardinality(S) - 1 ELSE Cardinality(S)
  BY <1>2, FS_RemoveElement
<1> QED BY <1>2, <1>3, <1>4

\* There are no more voices than loops.
LEMMA FewVoices ==
    ASSUME NEW jb, NEW lp, Awaited(jb, lp)
    PROVE  /\ Cardinality({c \in Call : jb[c].state = "speaking"}) \in Nat
           /\ Cardinality({d \in Call : lp[d].task # 0}) \in Nat
           /\ Cardinality({c \in Call : jb[c].state = "speaking"}) <=
                Cardinality({d \in Call : lp[d].task # 0})
<1> DEFINE V == {c \in Call : jb[c].state = "speaking"}
           R == {d \in Call : lp[d].task \in V}
           L == {d \in Call : lp[d].task # 0}
           f == [d \in R |-> lp[d].task]
<1>1. IsFiniteSet(Call)
  BY FS_Interval, BoundsAssumption DEF Call
<1>2. 0 \notin Call
  BY DEF Call
<1>3. R \subseteq L /\ L \subseteq Call /\ R \subseteq Call /\ V \subseteq Call
  BY <1>2
<1>4. IsFiniteSet(R) /\ IsFiniteSet(L) /\ IsFiniteSet(V)
  BY <1>1, <1>3, FS_Subset
<1>5. Cardinality(R) <= Cardinality(L)
  BY <1>3, <1>4, FS_Subset
<1>6. f \in Surjection(R, V)
  <2>1. f \in [R -> V]
    OBVIOUS
  <2>2. \A c \in V : \E d \in R : f[d] = c
    BY DEF Awaited
  <2> QED BY <2>1, <2>2 DEF Surjection
<1>7. Cardinality(V) <= Cardinality(R)
  BY <1>4, <1>6, FS_Surjection
<1>8. Cardinality(V) \in Nat /\ Cardinality(R) \in Nat /\ Cardinality(L) \in Nat
  BY <1>4, FS_CardinalityType
<1> HIDE DEF V, R, L
<1>9. Cardinality(V) <= Cardinality(L)
  BY <1>5, <1>7, <1>8
<1> QED BY <1>8, <1>9 DEF V, L

\* What the caller sees of the states of a call.
LEMMA PhaseFacts ==
    ASSUME NEW st \in JobState
    PROVE  /\ PhaseOf(st) = "new" <=> st = "idle"
           /\ PhaseOf(st) = "waiting" <=> st \in {"chained", "fetching", "queued"}
           /\ PhaseOf(st) = "speaking" <=> st = "speaking"
           /\ PhaseOf(st) = "over" <=> st \in {"ended", "dropped"}
           /\ PhaseOf(st) \in {"new", "waiting", "speaking", "over"}
BY DEF PhaseOf, JobState

\* The contract counts with its own instance of Cardinality.
LEMMA SameCardinality == ASSUME NEW S PROVE Contract!Cardinality(S) = Cardinality(S)
BY DEF Contract!Cardinality, Cardinality

\* A call keeps its phase, falls, ends or begins.
Onward(a, b) ==
    \/ PhaseOf(b) = PhaseOf(a)
    \/ PhaseOf(a) \in {"waiting", "speaking"} /\ PhaseOf(b) = "over"
    \/ PhaseOf(a) = "waiting" /\ b = "speaking"

\* The sentence that begins is the first of the current session that waits.
Turned ==
    \A c \in Call : job[c].state # "speaking" /\ job'[c].state = "speaking" =>
        /\ job[c].session = currentSession
        /\ \A d \in Call : d < c /\ job[d].state \in {"chained", "fetching", "queued"} =>
                            job[d].session # currentSession

Kept ==
    /\ \A c \in Call : job'[c].session = job[c].session /\ job'[c].token = job[c].token
    /\ UNCHANGED <<currentSession, token>>

\* A step that moves calls onward, in order and within the bound, is a Turn.
LEMMA TurnRefines ==
    ASSUME TypeOK, TypeOK', Kept, Turned, Begun, Awaited(job, loop)', LoopsBounded',
           \A c \in Call : Onward(job[c].state, job'[c].state)
    PROVE  Contract!Turn
<1>1. /\ \A c \in Call : job[c].state \in JobState /\ job'[c].state \in JobState
      /\ Contract!Call = Call
  BY DEF TypeOK, Job, Contract!Call, Call
<1>2. \A c \in Call : Phases[c] = PhaseOf(job[c].state) /\ Phases'[c] = PhaseOf(job'[c].state)
  BY DEF Phases
<1>3. Phases' \in [Contract!Call -> Contract!Phase]
  BY <1>1, PhaseFacts DEF Phases, Contract!Phase
<1>4. UNCHANGED <<[c \in Call |-> job[c].session], [c \in Call |-> job[c].token],
                  currentSession, token>>
  BY DEF Kept
<1>5. ASSUME NEW c \in Call
      PROVE  \/ Phases'[c] = Phases[c]
             \/ Contract!Falls(c) \/ Contract!Ends(c) \/ Contract!Begins(c)
  <2>1. CASE PhaseOf(job'[c].state) = PhaseOf(job[c].state)
    BY <1>2, <2>1
  <2>2. CASE PhaseOf(job[c].state) \in {"waiting", "speaking"} /\ PhaseOf(job'[c].state) = "over"
    BY <1>2, <2>2 DEF Contract!Falls, Contract!Ends
  <2>3. CASE PhaseOf(job[c].state) = "waiting" /\ job'[c].state = "speaking"
    <3>1. /\ Phases[c] = "waiting" /\ Phases'[c] = "speaking"
          /\ job[c].state # "speaking"
      BY <1>1, <1>2, <2>3, PhaseFacts
    <3>2. job[c].session = currentSession /\ job[c].token = token
      BY <2>3, <3>1 DEF Begun, Turned, Current
    <3>3. ASSUME NEW d \in 1..(c - 1)
          PROVE  Phases'[d] # "waiting" /\ (Phases[d] = "waiting" => job[d].session # currentSession)
      <4>1. d \in Call /\ d < c
        BY BoundsAssumption DEF Call
      <4>2. job'[d].state \notin {"chained", "fetching", "queued"}
        BY <2>3, <3>1, <4>1 DEF Begun
      <4>3. job[d].state \in {"chained", "fetching", "queued"} => job[d].session # currentSession
        BY <2>3, <3>1, <4>1 DEF Turned
      <4> QED BY <1>1, <1>2, <4>1, <4>2, <4>3, PhaseFacts
    <3>4. \A d \in 1..(c - 1) : d \in Call
      BY BoundsAssumption DEF Call
    <3> QED BY <3>1, <3>2, <3>3, <3>4 DEF Contract!Begins
  <2> QED BY <2>1, <2>2, <2>3 DEF Onward
<1>6. Contract!Cardinality(Contract!Voices') <= 1 + token
  <2> DEFINE V == {c \in Call : job'[c].state = "speaking"}
             L == {d \in Call : loop'[d].task # 0}
  <2>1. Contract!Voices' = V
    BY <1>1, <1>2, PhaseFacts DEF Contract!Voices
  <2>2. Cardinality(V) \in Nat /\ Cardinality(L) \in Nat /\ Cardinality(V) <= Cardinality(L)
    BY FewVoices
  <2>3. Cardinality(L) <= IF isProcessing' THEN 1 + token ELSE token
    BY DEF LoopsBounded, Running, Kept
  <2>4. token \in Nat
    BY DEF TypeOK
  <2> HIDE DEF V, L
  <2>5. Cardinality(V) <= 1 + token
    BY <2>2, <2>3, <2>4
  <2> QED BY <2>1, <2>5, SameCardinality
<1> QED BY <1>1, <1>3, <1>4, <1>5, <1>6 DEF Contract!Turn

\* What neither calls nor loops notice is a stutter of the contract.
LEMMA QuietVoiced ==
    ASSUME Voiced, UNCHANGED <<job, loop, token, isProcessing, currentSession>>
    PROVE  Voiced' /\ UNCHANGED Contract!vars
<1>1. Voiced'
  BY DEF Voiced, Awaited, Named, LoopsBounded, Running
<1>2. UNCHANGED Contract!vars
  BY DEF Contract!vars, Phases
<1> QED BY <1>1, <1>2

\* The begin and the end in vain of a synthesis.
LEMMA SynthesisVoiced ==
    ASSUME TypeOK, TypeOK', Begun, Voiced, NEW c \in Call, BeginSynthesis(c) \/ Discard(c)
    PROVE  Voiced' /\ Contract!Turn
<1>1. PICK st \in {"fetching", "ended"} :
        /\ job' = Mark(job, {c}, st)
        /\ job[c].state \in {"chained", "fetching"}
        /\ UNCHANGED <<loop, isProcessing, token, currentSession>>
  BY DEF BeginSynthesis, Discard, queueVars, loopVars
<1>2. /\ \A d \in Call : /\ job'[d].session = job[d].session /\ job'[d].token = job[d].token
                         /\ d # c => job'[d].state = job[d].state
      /\ job'[c].state = st
  BY <1>1 DEF Mark, TypeOK, Job
<1>3. \A d \in Call : job'[d].state = "speaking" <=> job[d].state = "speaking"
  BY <1>1, <1>2
<1>4. Awaited(job, loop)'
  BY <1>1, <1>3 DEF Voiced, Awaited
<1>5. Named(job, loop)'
  BY <1>1, <1>2 DEF Voiced, Named
<1>6. LoopsBounded'
  BY <1>1 DEF Voiced, LoopsBounded, Running
<1>7. Kept /\ Turned
  BY <1>1, <1>2, <1>3 DEF Kept, Turned
<1>8. \A d \in Call : Onward(job[d].state, job'[d].state)
  <2>1. PhaseOf(job[c].state) = "waiting" /\ PhaseOf(st) \in {"waiting", "over"}
    BY <1>1, PhaseFacts DEF JobState
  <2> QED BY <1>2, <2>1 DEF Onward
<1> QED BY <1>4, <1>5, <1>6, <1>7, <1>8, TurnRefines DEF Voiced

\* The calls as the loop c finds them: its own task is over, or its own call has
\* been queued.
Found(jb, c) ==
    /\ \A d \in Call : jb[d].session = job[d].session /\ jb[d].token = job[d].token
    /\ \A d \in Call :
         \/ jb[d].state = job[d].state
         \/ jb[d].state = "ended" /\ job[d].state \in {"speaking", "ended"}
         \/ d = c /\ jb[d].state = "queued" /\ job[d].state = "fetching"
    /\ \A d \in Call : jb[d].state = "speaking" => loop[c].task # d
    /\ jb[c].state \notin {"idle", "chained", "fetching"}

\* Whoever calls Iterate, with values that fit, takes a Turn.
LEMMA LoopVoiced ==
    ASSUME IInv, IInv', Begun, Voiced, NEW c \in Call, NEW tk \in 0..MaxStops, NEW q, NEW jb,
           NEW flag, NEW processing,
           QueueFits(q, jb, token), ChainFits(jb, calls), Found(jb, c),
           \/ c \in Running /\ processing = isProcessing
           \/ c \notin Running /\ ~isProcessing /\ processing = TRUE,
           Iterate(c, tk, q, jb, flag, processing),
           UNCHANGED <<currentSession, token>>
    PROVE  Voiced' /\ Contract!Turn
<1>1. /\ TypeOK /\ TypeOK' /\ loop \in [Call -> Loop] /\ timer \in [Call -> BOOLEAN]
      /\ token \in Nat /\ isProcessing \in BOOLEAN /\ 0 \notin Call
  BY DEF IInv, TypeOK, Call
<1>2. /\ Served(jb, job') /\ InTurn(jb, job', loop'[c].task)
      /\ \A d \in Call : d # c => loop'[d] = loop[d]
      /\ \/ loop'[c].task = 0 /\ isProcessing' = FALSE
         \/ loop'[c].task \in Call /\ isProcessing' = processing
  <2> HIDE DEF IInv
  <2> QED BY <1>1, IterateFacts
<1>3. \A d \in Call : \/ job'[d].state = jb[d].state
                      \/ jb[d].state = "queued" /\ job'[d].state \in {"dropped", "speaking"}
  BY <1>2 DEF Served
<1>4. Awaited(job, loop)'
  <2>1. SUFFICES ASSUME NEW d \in Call, job'[d].state = "speaking"
                 PROVE  \E e \in Call : loop'[e].task = d
    BY DEF Awaited
  <2>2. CASE jb[d].state = "speaking"
    <3>1. job[d].state = "speaking" /\ loop[c].task # d
      BY <2>2 DEF Found
    <3>2. PICK e \in Call : loop[e].task = d
      BY <3>1 DEF Voiced, Awaited
    <3> QED BY <1>2, <3>1, <3>2
  <2>3. CASE jb[d].state # "speaking"
    BY <1>2, <2>1, <2>3 DEF InTurn
  <2> QED BY <2>2, <2>3
<1>5. Named(job, loop)'
  <2>1. SUFFICES ASSUME NEW d \in Call, loop'[d].task # 0
                 PROVE  job'[d].state \notin {"idle", "chained", "fetching"}
    BY DEF Named
  <2>2. jb[d].state \notin {"idle", "chained", "fetching"}
    <3>1. CASE d = c
      BY <3>1 DEF Found
    <3>2. CASE d # c
      <4>1. job[d].state \notin {"idle", "chained", "fetching"}
        BY <1>2, <2>1, <3>2 DEF Voiced, Named
      <4> QED BY <3>2, <4>1 DEF Found
    <3> QED BY <3>1, <3>2
  <2> QED BY <1>3, <2>2
<1>6. LoopsBounded'
  <2> DEFINE n == Cardinality(Running)
  <2>1. /\ n \in Nat /\ Running \in SUBSET Call
        /\ Cardinality(Running \cup {c}) <= n + 1
        /\ Cardinality(Running \ {c}) <= n
        /\ c \in Running => Cardinality(Running \ {c}) + 1 = n
        /\ Cardinality(Running \ {c}) \in Nat /\ Cardinality(Running \cup {c}) \in Nat
    <3>1. Running \in SUBSET Call /\ Running \ {c} \in SUBSET Call
          /\ Running \cup {c} \in SUBSET Call
      BY DEF Running
    <3> QED BY <3>1, CallSets
  <2>2. n <= IF isProcessing THEN 1 + token ELSE token
    BY DEF Voiced, LoopsBounded
  <2>3. CASE loop'[c].task = 0 /\ isProcessing' = FALSE
    <3>1. Running' = Running \ {c}
      BY <1>2, <2>3 DEF Running
    <3>2. Cardinality(Running \ {c}) <= token
      <4> HIDE DEF n
      <4> QED BY <1>1, <2>1, <2>2
    <3> QED BY <2>3, <3>1, <3>2 DEF LoopsBounded
  <2>4. CASE loop'[c].task \in Call /\ isProcessing' = processing
    <3>1. Running' = Running \cup {c}
      BY <1>1, <1>2, <2>4 DEF Running
    <3>2. CASE c \in Running /\ processing = isProcessing
      <4>1. Running' = Running /\ isProcessing' = isProcessing
        BY <2>4, <3>1, <3>2
      <4> QED BY <2>2, <4>1 DEF LoopsBounded
    <3>3. CASE ~isProcessing /\ processing = TRUE
      <4>1. Cardinality(Running \cup {c}) <= 1 + token
        <5> HIDE DEF n
        <5> QED BY <1>1, <2>1, <2>2, <3>3
      <4> QED BY <2>4, <3>1, <3>3, <4>1 DEF LoopsBounded
    <3> QED BY <3>2, <3>3
  <2> QED BY <1>2, <2>3, <2>4
<1>7. Kept
  BY <1>2 DEF Kept, Served, Found
<1>8. Turned
  <2>1. SUFFICES ASSUME NEW d \in Call, job[d].state # "speaking", job'[d].state = "speaking"
                 PROVE  /\ job[d].session = currentSession
                        /\ \A e \in Call :
                             e < d /\ job[e].state \in {"chained", "fetching", "queued"} =>
                               job[e].session # currentSession
    BY DEF Turned
  <2>2. jb[d].state = "queued"
    BY <1>3, <2>1 DEF Found
  <2>3. /\ jb[d].session = currentSession
        /\ \A e \in Call : e < d /\ jb[e].state = "queued" => jb[e].session # currentSession
    BY <1>2, <2>1, <2>2 DEF InTurn
  <2>4. \A e \in Call : e < d => jb[e].state \notin {"idle", "chained", "fetching"}
    BY <2>2 DEF ChainFits
  <2>5. ASSUME NEW e \in Call, e < d, job[e].state \in {"chained", "fetching", "queued"}
        PROVE  jb[e].state = "queued" /\ jb[e].session = job[e].session
    <3>1. jb[e].state = job[e].state \/ jb[e].state = "queued"
      BY <2>5 DEF Found
    <3> QED BY <2>4, <2>5, <3>1 DEF Found
  <2> QED BY <2>3, <2>5 DEF Found
<1>9. \A d \in Call : Onward(job[d].state, job'[d].state)
  <2>1. SUFFICES ASSUME NEW d \in Call PROVE Onward(job[d].state, job'[d].state)
    OBVIOUS
  <2>2. job[d].state \in JobState /\ job'[d].state \in JobState
    BY <1>1 DEF TypeOK, Job
  <2>3. \/ job'[d].state = job[d].state
        \/ job'[d].state = "ended" /\ job[d].state \in {"speaking", "ended"}
        \/ job'[d].state = "queued" /\ job[d].state = "fetching"
        \/ /\ job[d].state \in {"queued", "fetching"}
           /\ job'[d].state \in {"dropped", "speaking"}
    BY <1>3 DEF Found
  <2> QED BY <2>2, <2>3, PhaseFacts DEF Onward
<1> QED BY <1>1, <1>4, <1>6, <1>5, <1>7, <1>8, <1>9, TurnRefines DEF Voiced

\* A speak that returns.
LEMMA ReturnVoiced ==
    ASSUME IInv, IInv', Begun, Voiced, NEW c \in Call, SpeakReturns(c)
    PROVE  Voiced' /\ Contract!Turn
<1> DEFINE jb == Over(c)
<1>1. loop[c].task \in Call /\ loop[c].token \in 0..MaxStops /\ c \in Running
  BY DEF SpeakReturns, IInv, TypeOK, Loop, Call, Running
<1>2. /\ Iterate(c, loop[c].token, queue, jb, isSpeaking, isProcessing)
      /\ UNCHANGED <<currentSession, token>>
  BY DEF SpeakReturns, Over
<1>3. /\ QueueFits(queue, jb, token) /\ ChainFits(jb, calls)
      /\ jb[loop[c].task].state = "ended"
      /\ \A d \in Call :
           /\ jb[d].session = job[d].session /\ jb[d].token = job[d].token
           /\ \/ jb[d].state = job[d].state
              \/ jb[d].state = "ended" /\ job[d].state \in {"speaking", "ended"}
  BY OverFits
<1> HIDE DEF jb
<1>4. Found(jb, c)
  <2>1. job[c].state \notin {"idle", "chained", "fetching"}
    BY <1>1 DEF Voiced, Named, Running
  <2> QED BY <1>1, <1>3, <2>1 DEF Found
<1> QED BY <1>1, <1>2, <1>3, <1>4, LoopVoiced

\* A synthesis that arrives, and starts a loop where none is at work.
LEMMA SynthesizedVoiced ==
    ASSUME IInv, IInv', Begun, Voiced, NEW c \in Call, Synthesized(c)
    PROVE  Voiced' /\ Contract!Turn
<1> DEFINE q  == Append(queue, c)
           jb == Arrived(c)
<1>1. token \in 0..MaxStops /\ TypeOK /\ TypeOK'
  BY DEF IInv, TypeOK
<1>2. /\ QueueFits(q, jb, token) /\ ChainFits(jb, calls)
      /\ job[c].state = "fetching" /\ ~stopped /\ jb[c].state = "queued"
      /\ \A d \in Call : d # c => jb[d].state = job[d].state
      /\ \A d \in Call : jb[d].session = job[d].session /\ jb[d].token = job[d].token
  BY ArrivedFits
<1>3. /\ UNCHANGED <<currentSession, token>>
      /\ \/ isProcessing /\ job' = jb /\ UNCHANGED <<isProcessing, loop>>
         \/ ~isProcessing /\ Iterate(c, token, q, jb, TRUE, TRUE)
  BY <1>2 DEF Synthesized, AddTask, Arrived, loopVars
<1> HIDE DEF q, jb
<1>4. Found(jb, c) /\ c \notin Running
  <2>1. loop[c].task = 0
    BY <1>2 DEF Voiced, Named
  <2>2. \A d \in Call : loop[c].task # d
    BY <2>1 DEF Call
  <2> QED BY <1>2, <2>1, <2>2 DEF Found, Running
<1>5. CASE isProcessing /\ job' = jb /\ UNCHANGED <<isProcessing, loop>>
  <2>1. \A d \in Call : job'[d].state = "speaking" <=> job[d].state = "speaking"
    BY <1>2, <1>5
  <2>2. Awaited(job, loop)' /\ Named(job, loop)' /\ LoopsBounded'
    <3>1. Awaited(job, loop)'
      BY <1>5, <2>1 DEF Voiced, Awaited
    <3>2. Named(job, loop)'
      BY <1>2, <1>5 DEF Voiced, Named
    <3>3. LoopsBounded'
      BY <1>3, <1>5 DEF Voiced, LoopsBounded, Running
    <3> QED BY <3>1, <3>2, <3>3
  <2>3. Kept /\ Turned
    BY <1>3, <1>2, <1>5, <2>1 DEF Kept, Turned
  <2>4. \A d \in Call : Onward(job[d].state, job'[d].state)
    <3>1. PhaseOf(job[c].state) = "waiting" /\ PhaseOf("queued") = "waiting"
      BY <1>2, PhaseFacts DEF JobState
    <3> QED BY <1>2, <1>5, <3>1 DEF Onward
  <2> QED BY <1>1, <2>2, <2>3, <2>4, TurnRefines DEF Voiced
<1>6. CASE ~isProcessing /\ Iterate(c, token, q, jb, TRUE, TRUE)
  BY <1>1, <1>2, <1>3, <1>4, <1>6, LoopVoiced
<1> QED BY <1>3, <1>5, <1>6

\* A call finds the queue empty after a Stop: only another session drops tasks.
LEMMA SpeakCharacterVoiced ==
    ASSUME IInv, IInv', Voiced, NEW c \in Call, NEW s \in Sessions, SpeakCharacter(c, s)
    PROVE  Voiced' /\ Contract!Say(c, s)
<1> DEFINE fresh == stopped \/ currentSession # s
           jb    == IF fresh THEN ClearQueue(job, queue) ELSE job
<1>1. PICK state \in {"chained", "ended"} :
        job' = [jb EXCEPT ![c] = [state |-> state, session |-> s, token |-> token]]
  BY DEF SpeakCharacter
<1>2. /\ c = calls + 1 /\ currentSession' = s
      /\ UNCHANGED <<isProcessing, token, loop>>
  BY DEF SpeakCharacter, loopVars
<1>3. /\ jb \in [Call -> Job]
      /\ \A d \in Call :
           /\ jb[d].session = job[d].session /\ jb[d].token = job[d].token
           /\ \/ jb[d].state = job[d].state
              \/ job[d].state = "queued" /\ jb[d].state = "dropped" /\ s # currentSession
  <2>1. QueueFits(queue, job, token) /\ job \in [Call -> Job]
    BY DEF IInv, TypeOK
  <2>2. /\ ClearQueue(job, queue) \in [Call -> Job]
        /\ \A d \in Call :
             /\ ClearQueue(job, queue)[d].token = job[d].token
             /\ ClearQueue(job, queue)[d].session = job[d].session
             /\ job[d].state = "queued" => ClearQueue(job, queue)[d].state = "dropped"
             /\ job[d].state # "queued" => ClearQueue(job, queue)[d].state = job[d].state
    BY <2>1, ClearFacts
  <2>3. stopped => \A d \in Call : job[d].state # "queued"
    BY <2>1 DEF QueueFits, IInv, StoppedCatchesOldOnly, Current
  <2>4. CASE fresh
    <3>1. jb = ClearQueue(job, queue) /\ (stopped \/ s # currentSession)
      BY <2>4
    <3> HIDE DEF jb, fresh
    <3> QED BY <2>2, <2>3, <3>1
  <2>5. CASE ~fresh
    BY <2>1, <2>5
  <2> QED BY <2>4, <2>5
<1> HIDE DEF fresh, jb
<1>4. /\ job'[c] = [state |-> state, session |-> s, token |-> token]
      /\ \A d \in Call : d # c => job'[d] = jb[d]
  BY <1>1, <1>3
<1>5. \A d \in Call : job[d].state = "idle" <=> d > calls
  BY DEF IInv, ChainFits
<1>6. calls \in Nat /\ Call \subseteq Nat
  BY BoundsAssumption DEF IInv, TypeOK, Call
<1>7. job[c].state = "idle" /\ \A d \in 1..(c - 1) : d \in Call /\ job[d].state # "idle"
  <2>1. c > calls
    BY <1>2, <1>6
  <2>2. \A d \in 1..(c - 1) : d \in Call /\ ~(d > calls)
    BY <1>2, <1>6, BoundsAssumption DEF Call
  <2> QED BY <1>5, <2>1, <2>2
<1>8. Voiced'
  <2>1. Awaited(job, loop)'
    <3>1. \A d \in Call : job'[d].state = "speaking" => job[d].state = "speaking"
      BY <1>3, <1>4
    <3> QED BY <1>2, <3>1 DEF Voiced, Awaited
  <2>2. Named(job, loop)'
    <3>1. \A d \in Call : loop[d].task # 0 => d # c /\ job[d].state \notin {"idle", "chained", "fetching"}
      BY <1>7 DEF Voiced, Named
    <3> QED BY <1>2, <1>3, <1>4, <3>1 DEF Named
  <2>3. LoopsBounded'
    BY <1>2 DEF Voiced, LoopsBounded, Running
  <2> QED BY <2>1, <2>2, <2>3 DEF Voiced
<1>9. /\ \A d \in Call : job[d].state \in JobState /\ job'[d].state \in JobState
      /\ Contract!Call = Call
  BY DEF IInv, TypeOK, Job, Contract!Call, Call
<1>10. \A d \in Call : Phases[d] = PhaseOf(job[d].state) /\ Phases'[d] = PhaseOf(job'[d].state)
  BY DEF Phases
<1>11. Phases' \in [Contract!Call -> Contract!Phase]
  BY <1>9, PhaseFacts DEF Phases, Contract!Phase
<1>12. Phases[c] = "new" /\ \A d \in 1..(c - 1) : Phases[d] # "new"
  BY <1>7, <1>9, <1>10, PhaseFacts
<1>13. Phases'[c] \in {"waiting", "over"}
  BY <1>4, <1>9, <1>10, PhaseFacts
<1>14. ASSUME NEW d \in Call \ {c}
       PROVE  Phases'[d] = Phases[d] \/ (Contract!Falls(d) /\ s # currentSession)
  <2>1. \/ job'[d].state = job[d].state
        \/ job[d].state = "queued" /\ job'[d].state = "dropped" /\ s # currentSession
    BY <1>3, <1>4
  <2> QED BY <1>9, <1>10, <2>1, PhaseFacts DEF Contract!Falls
<1>15. /\ [d \in Call |-> job'[d].session] = [[d \in Call |-> job[d].session] EXCEPT ![c] = s]
       /\ [d \in Call |-> job'[d].token] = [[d \in Call |-> job[d].token] EXCEPT ![c] = token]
  <2>1. \A d \in Call : /\ job'[d].session = IF d = c THEN s ELSE job[d].session
                        /\ job'[d].token = IF d = c THEN token ELSE job[d].token
    BY <1>3, <1>4
  <2> QED BY <2>1
<1>16. Contract!Say(c, s)
  BY <1>2, <1>9, <1>11, <1>12, <1>13, <1>14, <1>15 DEF Contract!Say
<1> QED BY <1>8, <1>16

\* Stop, which clears the flag and raises the bound.
LEMMA StopVoiced ==
    ASSUME IInv, IInv', Voiced, StopAll
    PROVE  Voiced' /\ Contract!Stop
<1> DEFINE jb == ClearQueue(job, queue)
<1>1. /\ token' = token + 1 /\ isProcessing' = FALSE /\ job' = jb
      /\ UNCHANGED <<loop, currentSession>>
  BY DEF StopAll, loopVars
<1>2. QueueFits(queue, job, token)
  BY DEF IInv
<1>3. \A d \in Call : /\ jb[d].session = job[d].session /\ jb[d].token = job[d].token
                      /\ \/ jb[d].state = job[d].state
                         \/ job[d].state = "queued" /\ jb[d].state = "dropped"
  BY <1>2, ClearFacts
<1> HIDE DEF jb
<1>4. Voiced'
  <2>1. Awaited(job, loop)'
    <3>1. \A d \in Call : job'[d].state = "speaking" => job[d].state = "speaking"
      BY <1>1, <1>3
    <3> QED BY <1>1, <3>1 DEF Voiced, Awaited
  <2>2. Named(job, loop)'
    BY <1>1, <1>3 DEF Voiced, Named
  <2>3. LoopsBounded'
    <3>1. Running' = Running
      BY <1>1 DEF Running
    <3>2. Cardinality(Running) <= 1 + token
      <4>1. IsFiniteSet(Call) /\ Running \subseteq Call
        BY FS_Interval, BoundsAssumption DEF Call, Running
      <4>2. Cardinality(Running) \in Nat /\ token \in Nat
        BY <4>1, FS_Subset, FS_CardinalityType DEF IInv, TypeOK
      <4> QED BY <4>2 DEF Voiced, LoopsBounded
    <3>3. 1 + token = token + 1
      BY DEF IInv, TypeOK
    <3> QED BY <1>1, <3>1, <3>2, <3>3 DEF LoopsBounded
  <2> QED BY <2>1, <2>2, <2>3 DEF Voiced
<1>5. /\ \A d \in Call : job[d].state \in JobState /\ job'[d].state \in JobState
      /\ Contract!Call = Call
  BY DEF IInv, TypeOK, Job, Contract!Call, Call
<1>6. \A d \in Call : Phases[d] = PhaseOf(job[d].state) /\ Phases'[d] = PhaseOf(job'[d].state)
  BY DEF Phases
<1>7. Phases' \in [Contract!Call -> Contract!Phase]
  BY <1>5, PhaseFacts DEF Phases, Contract!Phase
<1>8. \A d \in Call : Phases'[d] = Phases[d] \/ Contract!Falls(d)
  BY <1>1, <1>3, <1>5, <1>6, PhaseFacts DEF Contract!Falls
<1>9. /\ [d \in Call |-> job'[d].session] = [d \in Call |-> job[d].session]
      /\ [d \in Call |-> job'[d].token] = [d \in Call |-> job[d].token]
  BY <1>1, <1>3
<1>10. Contract!Stop
  BY <1>1, <1>5, <1>7, <1>8, <1>9 DEF Contract!Stop
<1> QED BY <1>4, <1>10

\* Every step is one of the contract or a stutter.
LEMMA NextRefines ==
    ASSUME IInv, Voiced, [Next]_vars
    PROVE  Voiced' /\ [Contract!Next]_(Contract!vars)
<1>1. IInv' /\ Begun /\ TypeOK /\ TypeOK'
  BY NextFits DEF IInv
<1>2. ASSUME \/ UNCHANGED vars
             \/ ToggleListening
             \/ \E c \in Call : StartSound(c) \/ NeutralTimer(c)
      PROVE  Voiced' /\ UNCHANGED Contract!vars
  <2>1. UNCHANGED <<calls, job, queue, token, loop, isProcessing, currentSession>>
    BY <1>1, <1>2, QuietTypes
  <2> QED BY <2>1, QuietVoiced
<1>3. ASSUME NEW c \in Call, NEW s \in Sessions, SpeakCharacter(c, s)
      PROVE  Voiced' /\ Contract!Next
  <2>1. Voiced' /\ Contract!Say(c, s)
    BY <1>1, <1>3, SpeakCharacterVoiced
  <2>2. c \in Contract!Call
    BY DEF Contract!Call, Call
  <2> QED BY <2>1, <2>2 DEF Contract!Next
<1>4. ASSUME NEW c \in Call, BeginSynthesis(c) \/ Discard(c)
      PROVE  Voiced' /\ Contract!Next
  BY <1>1, <1>4, SynthesisVoiced DEF Contract!Next
<1>5. ASSUME NEW c \in Call, Synthesized(c)
      PROVE  Voiced' /\ Contract!Next
  BY <1>1, <1>5, SynthesizedVoiced DEF Contract!Next
<1>6. ASSUME NEW c \in Call, SpeakReturns(c)
      PROVE  Voiced' /\ Contract!Next
  BY <1>1, <1>6, ReturnVoiced DEF Contract!Next
<1>7. CASE StopAll
  BY <1>1, <1>7, StopVoiced DEF Contract!Next
<1> QED BY <1>2, <1>3, <1>4, <1>5, <1>6, <1>7 DEF Next

\* The initial states are initial in the contract.
LEMMA InitRefines ==
    ASSUME Init
    PROVE  Voiced /\ Contract!Init
<1>1. Running = {}
  BY DEF Init, Running
<1>2. Voiced
  BY <1>1, FS_EmptySet, BoundsAssumption DEF Init, Voiced, Awaited, Named, LoopsBounded
<1>3. Contract!Init
  <2>1. PhaseOf("idle") = "new"
    BY PhaseFacts DEF JobState
  <2>2. \A c \in Call : /\ PhaseOf(job[c].state) = "new"
                        /\ job[c].session = NoSession /\ job[c].token = 0
    BY <2>1 DEF Init
  <2>3. Contract!Call = Call
    BY DEF Contract!Call, Call
  <2> QED BY <2>2, <2>3 DEF Init, Phases, Contract!Init
<1> QED BY <1>2, <1>3

-----------------------------------------------------------------------------
(* Theorems                                                                *)

\* The inductive invariant holds in every reachable state of the speech pipeline.
THEOREM InvariantHolds == Spec => []IInv
<1>1. IInv /\ [Next]_vars => IInv'
  BY NextFits
<1> QED BY <1>1, InitFits, PTL DEF Spec

\* The pipeline keeps its types, and what is in the queue is a queued call.
THEOREM TypeCorrect == Spec => []TypeOK
<1>1. IInv => TypeOK
  BY DEF IInv
<1> QED BY <1>1, InvariantHolds, PTL

\* While speakQueue.ts has a task queued, a loop that no Stop has ended awaits
\* speak, although stopAll resets isProcessing under the loop that runs.
THEOREM NothingStranded == Spec => []NoStrandedTask
<1>1. IInv => NoStrandedTask
  BY DEF IInv
<1> QED BY <1>1, InvariantHolds, PTL

\* addTask of a call that passed the token check of speakCharacter never finds the
\* stopped flag set.
THEOREM OnlyOldStopped == Spec => []StoppedCatchesOldOnly
<1>1. IInv => StoppedCatchesOldOnly
  BY DEF IInv
<1> QED BY <1>1, InvariantHolds, PTL

\* No sentence whose speakCharacter was called before a Stop begins after it.
THEOREM StopHolds == Spec => StopIsFinal
<1>1. IInv /\ [Next]_vars =>
        [\A c \in Call : job[c].state # "speaking" /\ job'[c].state = "speaking" => Current(c)]_vars
  BY NextFits DEF Begun
<1> QED BY <1>1, InvariantHolds, PTL DEF Spec, StopIsFinal

\* The sentences of a session begin in the order in which speakCharacter was called.
THEOREM OrderHolds == Spec => SentencesInOrder
<1>1. IInv /\ [Next]_vars =>
        [\A c \in Call : job[c].state # "speaking" /\ job'[c].state = "speaking" =>
          \A d \in 1..(c - 1) :
            Current(d) /\ job[d].session = job[c].session =>
              job'[d].state \notin {"chained", "fetching", "queued"}]_vars
  <2>1. \A c \in Call : \A d \in 1..(c - 1) : d \in Call /\ d < c
    BY BoundsAssumption DEF Call
  <2> QED BY <2>1, NextFits DEF Begun
<1> QED BY <1>1, InvariantHolds, PTL DEF Spec, SentencesInOrder

\* The second layer holds in every reachable state.
LEMMA VoicedHolds == Spec => []Voiced
<1>1. IInv /\ Voiced /\ [Next]_vars => Voiced'
  BY NextRefines
<1>2. Init => Voiced
  BY InitRefines
<1> QED BY <1>1, <1>2, InvariantHolds, PTL DEF Spec

\* However often Stop resets isProcessing under a loop that awaits speak, there is
\* at most one processQueue loop more than there were Stops.
THEOREM LoopsBoundedHolds == Spec => []LoopsBounded
<1>1. Voiced => LoopsBounded
  BY DEF Voiced
<1> QED BY <1>1, VoicedHolds, PTL

\* Every step of the queue, its loops, the syntheses and Stop is one that the speech
\* contract allows: what speakCharacter's callers see is SpeechContract.
THEOREM ContractImplemented == Spec => ContractHonoured
<1>1. Init => Contract!Init
  BY InitRefines
<1>2. IInv /\ Voiced /\ [Next]_vars => [Contract!Next]_(Contract!vars)
  BY NextRefines
<1> QED BY <1>1, <1>2, InvariantHolds, VoicedHolds, PTL DEF Spec, ContractHonoured, Contract!Spec

\* Where the contract lets a sentence begin.
LEMMA ContractBegins ==
    ASSUME TypeOK, TypeOK', Contract!Next, NEW c \in Call,
           job[c].state # "speaking", job'[c].state = "speaking"
    PROVE  /\ Current(c)
           /\ \A d \in 1..(c - 1) : job'[d].state \notin {"chained", "fetching", "queued"}
<1>1. /\ \A d \in Call : job[d].state \in JobState /\ job'[d].state \in JobState
      /\ Contract!Call = Call
  BY DEF TypeOK, Job, Contract!Call, Call
<1>2. \A d \in Call : Phases[d] = PhaseOf(job[d].state) /\ Phases'[d] = PhaseOf(job'[d].state)
  BY DEF Phases
<1>3. Phases[c] # "speaking" /\ Phases'[c] = "speaking"
  BY <1>1, <1>2, PhaseFacts
<1>4. ASSUME NEW d \in Call, NEW s \in Sessions, Contract!Say(d, s)
      PROVE  FALSE
  BY <1>1, <1>3, <1>4 DEF Contract!Say, Contract!Falls
<1>5. ~Contract!Stop
  BY <1>1, <1>3 DEF Contract!Stop, Contract!Falls
<1>6. Contract!Begins(c)
  <2>1. Contract!Turn
    BY <1>1, <1>4, <1>5 DEF Contract!Next
  <2> QED BY <1>1, <1>3, <2>1 DEF Contract!Turn, Contract!Falls, Contract!Ends
<1>7. Current(c)
  <2>1. [d \in Call |-> job[d].token][c] = token
    BY <1>6 DEF Contract!Begins
  <2> QED BY <2>1 DEF Current
<1>8. ASSUME NEW d \in 1..(c - 1)
      PROVE  job'[d].state \notin {"chained", "fetching", "queued"}
  <2>1. d \in Call
    BY BoundsAssumption DEF Call
  <2>2. Phases'[d] # "waiting"
    BY <1>6 DEF Contract!Begins
  <2> QED BY <1>1, <1>2, <2>1, <2>2, PhaseFacts
<1> QED BY <1>7, <1>8

\* The contract is not empty: without a look at queues, loops, flags and syntheses
\* it implies that Stop is final and that sentences are spoken in order.
THEOREM ContractSuffices == []TypeOK /\ ContractHonoured => StopIsFinal /\ SentencesInOrder
<1>1. TypeOK /\ TypeOK' /\ [Contract!Next]_(Contract!vars) =>
        /\ [\A c \in Call : job[c].state # "speaking" /\ job'[c].state = "speaking" => Current(c)]_vars
        /\ [\A c \in Call : job[c].state # "speaking" /\ job'[c].state = "speaking" =>
             \A d \in 1..(c - 1) :
               Current(d) /\ job[d].session = job[c].session =>
                 job'[d].state \notin {"chained", "fetching", "queued"}]_vars
  <2> SUFFICES ASSUME TypeOK, TypeOK', [Contract!Next]_(Contract!vars), NEW c \in Call,
                      job[c].state # "speaking", job'[c].state = "speaking"
               PROVE  /\ Current(c)
                      /\ \A d \in 1..(c - 1) : job'[d].state \notin {"chained", "fetching", "queued"}
    OBVIOUS
  <2>1. CASE Contract!Next
    BY <2>1, ContractBegins
  <2>2. CASE UNCHANGED Contract!vars
    <3>1. Phases' = Phases
      BY <2>2 DEF Contract!vars
    <3>2. PhaseOf(job[c].state) = Phases[c] /\ PhaseOf(job'[c].state) = Phases'[c]
      BY DEF Phases
    <3>3. job[c].state \in JobState /\ job'[c].state \in JobState
      BY DEF TypeOK, Job
    <3> QED BY <3>1, <3>2, <3>3, PhaseFacts
  <2> QED BY <2>1, <2>2
<1> QED BY <1>1, PTL DEF ContractHonoured, Contract!Spec, StopIsFinal, SentencesInOrder
=============================================================================
