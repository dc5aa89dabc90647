------------------------ MODULE DeliveryQueueProofs ------------------------
(***************************************************************************)
(* Proofs about DeliveryQueue for any number of messages, retries and      *)
(* crashes.  The invariant has two parts: Claims says who works on what,   *)
(* without any condition; Progress relates the entry on disk, the place of *)
(* its one worker and the history, and holds until the recovery runs out   *)
(* of time and calls failDelivery without the claims (overrun).            *)
(* The last section proves that the queue implements OutboxContract.       *)
(***************************************************************************)
EXTENDS DeliveryQueue, FiniteSetTheorems, TLAPS

\* Places at which an owner that takes claims holds the claim of its message.
Busy == {"preparing", "marking", "sending", "accepted", "recording", "recorded", "acking",
         "unlinking", "failing", "retrying", "moving", "rereading", "reconciling"}

Working(o) == HoldsClaim(o) /\ pc[o] \in Busy

\* Senders and deferrals keep to their message; only enqueued messages are read.
Places ==
    /\ \A m \in Message : at[Sender(m)] = m /\ at[Defer(m)] = m
    /\ \A m \in Message : pc[Defer(m)] \in {"idle", "failing", "retrying", "done"}
    /\ \A m \in Message : kind[m] = "notice" =>
         pc[Sender(m)] \in {"idle", "sending", "accepted", "acking", "unlinking", "failing",
                            "retrying", "done"}
    /\ \A m \in Message : kind[m] = "notice" /\ pc[Sender(m)] \in {"idle", "sending", "accepted"} =>
         tries[m] < MaxNoticeTries

Enqueued ==
    /\ \A m \in Message : pc[Sender(m)] = "idle" => files[m] = {}
    /\ \A o \in Replayers : \A m \in todo[o] : pc[Sender(m)] # "idle"
    /\ \A o \in Replayers : pc[o] \in Busy => pc[Sender(at[o])] # "idle"
    /\ \A m \in Message : pc[Defer(m)] \in Busy => pc[Sender(m)] # "idle"

ClaimsHeld == \A o \in Owners : Working(o) => at[o] \in claimed

ClaimsExclusive ==
    \A o, p \in Owners : Working(o) /\ Working(p) /\ at[o] = at[p] => o = p

\* An acknowledgement is earned.
Taken(m) == sent[m].live + sent[m].replay > 0
Earned ==
    \A o \in Owners :
        /\ pc[o] \in {"accepted", "recording", "recorded"} => Taken(at[o])
        /\ pc[o] = "acking" => best[at[o]] \/ Taken(at[o]) \/ dropped[at[o]]

Claims ==
    /\ TypeOK
    /\ Places
    /\ Enqueued
    /\ ClaimsHeld
    /\ ClaimsExclusive
    /\ Earned
    /\ NeverLost

\* What is true of a message whoever works on it.
Pending(m)     == "json" \in files[m]
Delivering(m)  == \E o \in Replayers : at[o] = m /\ pc[o] \in {"accepted", "acking"}
Trying(m)      == \E o \in Replayers :
                     at[o] = m /\ pc[o] \in {"sending", "accepted", "failing", "retrying",
                                             "acking", "moving"}
MsgOK(m) ==
    /\ acked[m] => ~Pending(m)
    /\ pc[Sender(m)] = "idle" =>
         sent[m].replay = 0 /\ attempts[m] = 0 /\ ~acked[m]
    /\ pc[Sender(m)] \in {"idle", "written", "preparing", "marking"} => sent[m].live = 0
    /\ pc[Sender(m)] \in {"idle", "written", "preparing"} => held[Sender(m)].state = "none"
    /\ sent[m].live > 0 /\ Pending(m) => entry[m].state # "none"
    /\ sent[m].replay <= 1 + lost[m] + crashes
    /\ Pending(m) /\ ~Delivering(m) => sent[m].replay <= lost[m] + crashes
    /\ attempts[m] <= MaxRetries + crashes
    /\ Pending(m) => attempts[m] <= entry[m].retry + 1 + crashes
    /\ Pending(m) /\ ~Trying(m) => attempts[m] <= entry[m].retry + crashes

\* What is true of the message an owner works on.
WorkOK(o, m) ==
    /\ pc[o] \in {"marking", "retrying", "recorded"} => Pending(m) /\ held[o] = entry[m]
    /\ pc[o] = "unlinking" => ~Pending(m)
    /\ pc[o] = "recording" => Pending(m)
    /\ o \in Replayers =>
         /\ pc[o] \in {"reconciling", "sending", "accepted", "moving"} => Pending(m)
         /\ pc[o] = "reconciling" => entry[m].retry < MaxRetries
         /\ pc[o] = "sending" => sent[m].live = 0
    /\ o = Sender(m) =>
         /\ pc[o] \in {"sending", "accepted"} /\ Pending(m) => entry[m].state # "none"
         /\ pc[o] \in {"sending", "accepted"} /\ held[o].state = "started" => Pending(m)

Progress ==
    ~overrun =>
        /\ \A m \in Message : pc[Defer(m)] = "idle"
        /\ \A m \in Live : MsgOK(m)
        /\ \A o \in Owners : Working(o) /\ kind[at[o]] = "live" => WorkOK(o, at[o])

IInv == Claims /\ Progress

-----------------------------------------------------------------------------
(* The owners                                                              *)

\* Senders, deferrals and the two replayers are different owners.
LEMMA OwnerFacts ==
    /\ \A m \in Message : Sender(m) \in Owners /\ Sender(m) \notin Replayers
    /\ \A m \in Message : Defer(m) \in Owners /\ Defer(m) \notin Replayers
    /\ \A m, n \in Message : Sender(m) # Defer(n)
    /\ \A m, n \in Message : Sender(m) = Sender(n) => m = n
    /\ \A o \in Replayers : o \in Owners
    /\ Boot \in Replayers
    /\ \A o \in Owners \ Replayers : \E m \in Message : o = Sender(m) \/ o = Defer(m)
BY DEF Owners, Replayers, Sender, Defer, Boot, Drain

\* The replayers and the senders of deliver.ts are the owners that take claims.
LEMMA ClaimFacts ==
    /\ \A o \in Replayers : HoldsClaim(o)
    /\ \A m \in Message : HoldsClaim(Sender(m)) <=> kind[at[Sender(m)]] = "live"
    /\ \A m \in Message : ~HoldsClaim(Defer(m))
BY OwnerFacts DEF HoldsClaim, Sender, Defer

-----------------------------------------------------------------------------
(* Types                                                                   *)

\* Every step preserves the types.
LEMMA TypeStep ==
    ASSUME Claims, Next
    PROVE  TypeOK'
<1>0. TypeOK /\ Places
  BY DEF Claims
<1>1. ASSUME NEW m \in Message, Enqueue(m) PROVE TypeOK'
  <2>1. Sender(m) \in Owners
    BY OwnerFacts
  <2>2. files' \in [Message -> SUBSET File]
    BY <1>0, <1>1, <2>1 DEF Enqueue, Goto, TypeOK, File
  <2>3. entry' \in [Message -> Entry]
    BY <1>0, <1>1, <2>1 DEF Enqueue, Goto, TypeOK, Entry, Fresh
  <2>4. pc' \in [Owners -> Place]
    BY <1>0, <1>1, <2>1 DEF Enqueue, Goto, TypeOK, Place
  <2> QED BY <1>0, <1>1, <2>2, <2>3, <2>4 DEF Enqueue, TypeOK, diskVars, historyVars
<1>2. ASSUME NEW m \in Message, ClaimLive(m) PROVE TypeOK'
  <2>1. Sender(m) \in Owners
    BY OwnerFacts
  <2>2. pc' \in [Owners -> Place]
    BY <1>0, <1>2, <2>1 DEF ClaimLive, Goto, TypeOK, Place
  <2>3. claimed' \in SUBSET Message
    BY <1>0, <1>2, <2>1 DEF ClaimLive, Goto, TypeOK
  <2> QED BY <1>0, <1>2, <2>2, <2>3 DEF ClaimLive, TypeOK, diskVars, historyVars
<1>3. ASSUME NEW m \in Message, Prepare(m) PROVE TypeOK'
  <2>1. Sender(m) \in Owners
    BY OwnerFacts
  <2>2. pc' \in [Owners -> Place]
    BY ZenonT(60), <1>0, <1>3, <2>1 DEF Prepare, Goto, TypeOK, Place
  <2>3. dropped' \in [Message -> BOOLEAN]
    BY <1>0, <1>3, <2>1 DEF Prepare, Goto, TypeOK
  <2>4. held' \in [Owners -> Entry]
    BY ZenonT(60), <1>0, <1>3, <2>1 DEF Prepare, Goto, TypeOK, Entry, Fresh
  <2> QED BY <1>0, <1>3, <2>2, <2>3, <2>4 DEF Prepare, TypeOK, diskVars, historyVars
<1>4. ASSUME NEW m \in Message, MarkStarted(m) PROVE TypeOK'
  <2>1. Sender(m) \in Owners
    BY OwnerFacts
  <2>2. held[Sender(m)] \in Entry
    BY <1>0, <2>1 DEF TypeOK
  <2>3. [held[Sender(m)] EXCEPT !.state = "started"] \in Entry
    BY <2>2 DEF Entry
  <2>4. files' \in [Message -> SUBSET File]
    BY <1>0, <1>4, <2>1 DEF MarkStarted, WriteEntry, TypeOK, File
  <2>5. entry' \in [Message -> Entry]
    BY <1>0, <1>4, <2>3 DEF MarkStarted, WriteEntry, TypeOK
  <2>6. held' \in [Owners -> Entry]
    BY <1>0, <1>4, <2>1, <2>3 DEF MarkStarted, TypeOK
  <2>7. pc' \in [Owners -> Place]
    BY <1>0, <1>4, <2>1 DEF MarkStarted, Goto, TypeOK, Place
  <2> QED BY <1>0, <1>4, <2>4, <2>5, <2>6, <2>7 DEF MarkStarted, TypeOK, historyVars
<1>5. ASSUME NEW m \in Message, LiveReturns(m) PROVE TypeOK'
  <2>1. Sender(m) \in Owners
    BY OwnerFacts
  <2>2. pc' \in [Owners -> Place]
    BY ZenonT(60), <1>0, <1>5, <2>1 DEF LiveReturns, Goto, Errored, TypeOK, Place
  <2>3. lost' \in [Message -> Nat]
    BY <1>0, <1>5, <2>1 DEF LiveReturns, Goto, Errored, TypeOK
  <2>4. dropped' \in [Message -> BOOLEAN]
    BY <1>0, <1>5, <2>1 DEF LiveReturns, Goto, Errored, TypeOK
  <2> QED BY <1>0, <1>5, <2>2, <2>3, <2>4 DEF LiveReturns, TypeOK, diskVars, historyVars
<1>6. ASSUME NEW m \in Message, ReadForUnknown(m) PROVE TypeOK'
  <2>1. Sender(m) \in Owners
    BY OwnerFacts
  <2>2. held' \in [Owners -> Entry]
    BY <1>0, <1>6, <2>1 DEF ReadForUnknown, Goto, TypeOK, Entry, Fresh
  <2>3. pc' \in [Owners -> Place]
    BY <1>0, <1>6, <2>1 DEF ReadForUnknown, Goto, TypeOK, Place
  <2> QED BY <1>0, <1>6, <2>2, <2>3 DEF ReadForUnknown, TypeOK, diskVars, historyVars
<1>7. ASSUME NEW m \in Message, MarkUnknown(m) PROVE TypeOK'
  <2>1. Sender(m) \in Owners
    BY OwnerFacts
  <2>2. files' \in [Message -> SUBSET File]
    BY <1>0, <1>7, <2>1 DEF MarkUnknown, Goto, WriteEntry, TypeOK, File
  <2>3. entry' \in [Message -> Entry]
    BY SMTT(30), <1>0, <1>7, <2>1 DEF MarkUnknown, Goto, WriteEntry, TypeOK, Entry, Fresh
  <2>4. pc' \in [Owners -> Place]
    BY <1>0, <1>7, <2>1 DEF MarkUnknown, Goto, WriteEntry, TypeOK, Place
  <2> QED BY <1>0, <1>7, <2>2, <2>3, <2>4 DEF MarkUnknown, TypeOK, diskVars, historyVars
<1>8. ASSUME NEW m \in Message, NoticeReturns(m) PROVE TypeOK'
  <2>1. Sender(m) \in Owners /\ at[Sender(m)] = m
    BY <1>0, OwnerFacts DEF Places
  <2>2. pc' \in [Owners -> Place]
    BY <1>0, <1>8, <2>1 DEF NoticeReturns, Goto, TypeOK, Place
  <2>3. lost' \in [Message -> Nat]
    BY <1>0, <1>8, <2>1 DEF NoticeReturns, Errored, TypeOK
  <2>4. tries' \in [Message -> 0..MaxNoticeTries]
    <3>1. tries \in [Message -> 0..MaxNoticeTries]
      BY <1>0 DEF TypeOK
    <3>2. CASE UNCHANGED tries
      BY <3>1, <3>2
    <3>3. CASE Errored(Sender(m)) /\ tries' = [tries EXCEPT ![m] = @ + 1]
      <4>1. tries[m] \in 0..MaxNoticeTries /\ tries[m] < MaxNoticeTries
        BY <1>0, <1>8, <3>1, <3>3 DEF NoticeReturns, Errored, Places
      <4>2. tries[m] + 1 \in 0..MaxNoticeTries
        BY <4>1, BoundsAssumption
      <4> QED BY <3>1, <3>3, <4>2
    <3> QED BY <1>8, <3>2, <3>3 DEF NoticeReturns
  <2> QED BY <1>0, <1>8, <2>2, <2>3, <2>4 DEF NoticeReturns, TypeOK, diskVars
<1>9. ASSUME NEW o \in Replayers, StartReplay(o) PROVE TypeOK'
  <2>1. o \in Owners
    BY OwnerFacts
  <2>2. booted' \in BOOLEAN
    BY <1>0, <1>9, <2>1 DEF StartReplay, Snapshot, Goto, TypeOK
  <2>3. todo' \in [Replayers -> SUBSET Message]
    BY <1>0, <1>9, <2>1 DEF StartReplay, Snapshot, Goto, TypeOK
  <2>4. files' \in [Message -> SUBSET File]
    BY <1>0, <1>9, <2>1 DEF StartReplay, Snapshot, Goto, TypeOK, File
  <2>5. pc' \in [Owners -> Place]
    BY <1>0, <1>9, <2>1 DEF StartReplay, Snapshot, Goto, TypeOK, Place
  <2> QED BY <1>0, <1>9, <2>2, <2>3, <2>4, <2>5 DEF StartReplay, TypeOK, diskVars, historyVars
<1>10. ASSUME NEW o \in Replayers, ClaimNext(o) PROVE TypeOK'
  <2>1. o \in Owners /\ todo[o] \in SUBSET Message
    BY <1>0, OwnerFacts DEF TypeOK
  <2>2. CASE todo[o] = {} /\ Goto(o, "idle") /\ UNCHANGED <<claimed, at, todo>>
    <3>1. pc' \in [Owners -> Place]
      BY <1>0, <2>1, <2>2 DEF Goto, TypeOK, Place
    <3> QED BY <1>0, <1>10, <2>2, <3>1 DEF ClaimNext, TypeOK, diskVars, historyVars
  <2>3. ASSUME NEW m \in todo[o],
               todo' = [todo EXCEPT ![o] = @ \ {m}],
               \/ UNCHANGED <<claimed, pc, at>>
               \/ /\ claimed' = claimed \cup {m}
                  /\ at' = [at EXCEPT ![o] = m]
                  /\ Goto(o, "rereading")
        PROVE  TypeOK'
    <3>1. m \in Message
      BY <2>1
    <3>2. todo' \in [Replayers -> SUBSET Message]
      BY <1>0, <2>1, <2>3 DEF TypeOK
    <3>3. claimed' \in SUBSET Message /\ at' \in [Owners -> Message]
      BY <1>0, <2>3, <3>1 DEF TypeOK
    <3>4. pc' \in [Owners -> Place]
      BY <1>0, <2>1, <2>3 DEF Goto, TypeOK, Place
    <3> QED BY <1>0, <1>10, <3>2, <3>3, <3>4 DEF ClaimNext, TypeOK, diskVars, historyVars
  <2> QED BY <1>10, <2>2, <2>3 DEF ClaimNext
<1>11. ASSUME NEW o \in Replayers, Reread(o) PROVE TypeOK'
  <2>1. o \in Owners /\ at[o] \in Message
    BY <1>0, OwnerFacts DEF TypeOK
  <2>2. pc' \in [Owners -> Place]
    BY ZenonT(60), <1>0, <1>11, <2>1 DEF Reread, Goto, Finish, TypeOK, Place
  <2>3. attempts' \in [Message -> Nat]
    <3>1. attempts' = attempts \/ attempts' = [attempts EXCEPT ![at[o]] = @ + 1]
      BY <1>11 DEF Reread
    <3> QED BY SMTT(30), <1>0, <2>1, <3>1 DEF TypeOK
  <2>4. held' \in [Owners -> Entry]
    <3>1. held' = held \/ held' = [held EXCEPT ![o] = Fresh]
      BY <1>11 DEF Reread, Finish
    <3>2. Fresh \in Entry
      BY DEF Fresh, Entry
    <3> QED BY <1>0, <3>1, <3>2 DEF TypeOK
  <2>5. claimed' \in SUBSET Message
    BY <1>0, <1>11 DEF Reread, Finish, TypeOK
  <2> QED BY <1>0, <1>11, <2>2, <2>3, <2>4, <2>5 DEF Reread, TypeOK, diskVars
<1>12. ASSUME NEW o \in Replayers, Reconcile(o) PROVE TypeOK'
  <2>1. o \in Owners
    BY OwnerFacts
  <2>2. pc' \in [Owners -> Place]
    BY ZenonT(60), <1>0, <1>12, <2>1 DEF Reconcile, Goto, TypeOK, Place
  <2>3. attempts' \in [Message -> Nat]
    BY <1>0, <1>12, <2>1 DEF Reconcile, Goto, TypeOK
  <2> QED BY <1>0, <1>12, <2>2, <2>3 DEF Reconcile, TypeOK, diskVars, historyVars
<1>13. ASSUME NEW o \in Replayers, ReplayReturns(o) PROVE TypeOK'
  <2>1. o \in Owners
    BY OwnerFacts
  <2>2. pc' \in [Owners -> Place]
    BY <1>0, <1>13, <2>1 DEF ReplayReturns, Goto, Errored, TypeOK, Place
  <2>3. lost' \in [Message -> Nat]
    <3>1. UNCHANGED lost \/ Errored(o)
      BY <1>13 DEF ReplayReturns
    <3> QED BY <1>0, <2>1, <3>1 DEF Errored, TypeOK
  <2>4. dropped' \in [Message -> BOOLEAN]
    BY <1>0, <1>13, <2>1 DEF ReplayReturns, Goto, Errored, TypeOK
  <2> QED BY <1>0, <1>13, <2>2, <2>3, <2>4 DEF ReplayReturns, TypeOK, diskVars, historyVars
<1>14. ASSUME NEW o \in Replayers, Move(o) PROVE TypeOK'
  <2>1. o \in Owners
    BY OwnerFacts
  <2>2. files' \in [Message -> SUBSET File]
    BY <1>0, <1>14, <2>1 DEF Move, Finish, Goto, HoldsClaim, TypeOK, File
  <2>3. held' \in [Owners -> Entry]
    BY <1>0, <1>14, <2>1 DEF Move, Finish, Goto, HoldsClaim, TypeOK, Entry, Fresh
  <2>4. pc' \in [Owners -> Place]
    BY <1>0, <1>14, <2>1 DEF Move, Finish, Goto, HoldsClaim, TypeOK, Place
  <2>5. claimed' \in SUBSET Message
    BY <1>0, <1>14, <2>1 DEF Move, Finish, Goto, HoldsClaim, TypeOK
  <2> QED BY <1>0, <1>14, <2>2, <2>3, <2>4, <2>5 DEF Move, TypeOK, diskVars, historyVars
<1>15. ASSUME NEW o \in Owners, Ack(o) PROVE TypeOK'
  <2>1. at[o] \in Message
    BY <1>0 DEF TypeOK
  <2>2. files' \in [Message -> SUBSET File]
    <3>1. \/ files' = files
          \/ files' = [files EXCEPT ![at[o]] = (@ \ {"json"}) \cup {"delivered"}]
      BY <1>15 DEF Ack
    <3> QED BY SMTT(30), <1>0, <2>1, <3>1 DEF TypeOK, File
  <2>3. acked' \in [Message -> BOOLEAN]
    BY <1>0, <1>15, <2>1 DEF Ack, TypeOK
  <2>4. pc' \in [Owners -> Place]
    BY <1>0, <1>15 DEF Ack, Goto, TypeOK, Place
  <2> QED BY <1>0, <1>15, <2>2, <2>3, <2>4 DEF Ack, TypeOK
<1>16. ASSUME NEW o \in Owners, Unlink(o) PROVE TypeOK'
  <2>1. files' \in [Message -> SUBSET File]
    BY <1>0, <1>16 DEF Unlink, Finish, Goto, HoldsClaim, TypeOK, File
  <2>2. held' \in [Owners -> Entry]
    BY <1>0, <1>16 DEF Unlink, Finish, Goto, HoldsClaim, TypeOK, Entry, Fresh
  <2>3. pc' \in [Owners -> Place]
    BY <1>0, <1>16 DEF Unlink, Finish, Goto, HoldsClaim, TypeOK, Place
  <2>4. claimed' \in SUBSET Message
    BY <1>0, <1>16 DEF Unlink, Finish, Goto, HoldsClaim, TypeOK
  <2> QED BY <1>0, <1>16, <2>1, <2>2, <2>3, <2>4 DEF Unlink, TypeOK, diskVars, historyVars
<1>17. ASSUME NEW o \in Owners, FailRead(o) PROVE TypeOK'
  <2>1. at[o] \in Message
    BY <1>0 DEF TypeOK
  <2>2. entry[at[o]] \in Entry /\ Fresh \in Entry
    BY <1>0, <2>1 DEF TypeOK, Entry, Fresh
  <2>3. held' = [held EXCEPT ![o] = entry[at[o]]] \/ held' = [held EXCEPT ![o] = Fresh]
    BY <1>17 DEF FailRead, Finish
  <2>4. held' \in [Owners -> Entry]
    BY <1>0, <2>2, <2>3 DEF TypeOK
  <2>5. pc' \in [Owners -> Place]
    BY <1>0, <1>17 DEF FailRead, Goto, Finish, TypeOK, Place
  <2>6. claimed' \in SUBSET Message
    BY <1>0, <1>17 DEF FailRead, Finish, TypeOK
  <2> QED BY <1>0, <1>17, <2>4, <2>5, <2>6 DEF FailRead, TypeOK, diskVars, historyVars
<1>18. ASSUME NEW o \in Owners, FailWrite(o) PROVE TypeOK'
  <2>1. at[o] \in Message
    BY <1>0 DEF TypeOK
  <2>2. held[o] \in Entry
    BY <1>0 DEF TypeOK
  <2>3. [held[o] EXCEPT !.retry = @ + 1] \in Entry
    BY <2>2 DEF Entry
  <2>4. files' \in [Message -> SUBSET File]
    BY <1>0, <1>18, <2>1 DEF FailWrite, WriteEntry, TypeOK, File
  <2>5. entry' = [entry EXCEPT ![at[o]] = [held[o] EXCEPT !.retry = @ + 1]]
    BY <1>18 DEF FailWrite, WriteEntry
  <2>6. entry' \in [Message -> Entry]
    BY <1>0, <2>3, <2>5 DEF TypeOK
  <2>7. held' \in [Owners -> Entry]
    BY <1>0, <1>18 DEF FailWrite, Finish, TypeOK, Entry, Fresh
  <2>8. pc' \in [Owners -> Place]
    BY <1>0, <1>18 DEF FailWrite, Goto, Finish, TypeOK, Place
  <2>9. claimed' \in SUBSET Message
    BY <1>0, <1>18 DEF FailWrite, Finish, TypeOK
  <2> QED BY <1>0, <1>18, <2>4, <2>6, <2>7, <2>8, <2>9 DEF FailWrite, TypeOK, historyVars
<1>19. ASSUME NEW o \in Owners, PlatformAccepts(o) PROVE TypeOK'
  <2>1. at[o] \in Message
    BY <1>0 DEF TypeOK
  <2>2. sent[at[o]] \in [live : Nat, replay : Nat]
    BY <1>0, <2>1 DEF TypeOK
  <2>3. \/ sent' = [sent EXCEPT ![at[o]].live = @ + 1]
        \/ sent' = [sent EXCEPT ![at[o]].replay = @ + 1]
    <3>1. CASE o \in Replayers
      BY <1>19, <3>1 DEF PlatformAccepts
    <3>2. CASE o \notin Replayers
      BY <1>19, <3>2 DEF PlatformAccepts
    <3> QED BY <3>1, <3>2
  <2>4. /\ [sent[at[o]] EXCEPT !.live = @ + 1] \in [live : Nat, replay : Nat]
        /\ [sent[at[o]] EXCEPT !.replay = @ + 1] \in [live : Nat, replay : Nat]
    BY <2>2
  <2>5. sent' \in [Message -> [live : Nat, replay : Nat]]
    BY ZenonT(60), <1>0, <2>3, <2>4 DEF TypeOK
  <2>6. pc' \in [Owners -> Place]
    BY <1>0, <1>19 DEF PlatformAccepts, Goto, TypeOK, Place
  <2> QED BY <1>0, <1>19, <2>5, <2>6 DEF PlatformAccepts, TypeOK, diskVars
<1>20. ASSUME OutOfTime PROVE TypeOK'
  <2>1. pc' \in [Owners -> Place]
    BY <1>0, <1>20 DEF OutOfTime, TypeOK, Place
  <2>2. todo' \in [Replayers -> SUBSET Message]
    BY <1>0, <1>20 DEF OutOfTime, TypeOK
  <2>3. overrun' \in BOOLEAN
    BY <1>0, <1>20 DEF OutOfTime, TypeOK
  <2> QED BY <1>0, <1>20, <2>1, <2>2, <2>3 DEF OutOfTime, TypeOK, diskVars, historyVars
<1>21. ASSUME Crash PROVE TypeOK'
  <2>1. crashes' \in Nat
    BY <1>0, <1>21 DEF Crash, TypeOK
  <2>2. claimed' \in SUBSET Message
    BY <1>0, <1>21 DEF Crash, TypeOK
  <2>3. pc' \in [Owners -> Place]
    BY <1>0, <1>21 DEF Crash, TypeOK, Place
  <2>4. todo' \in [Replayers -> SUBSET Message]
    BY <1>0, <1>21 DEF Crash, TypeOK
  <2>5. held' \in [Owners -> Entry]
    BY <1>0, <1>21 DEF Crash, TypeOK, Entry, Fresh
  <2>6. booted' \in BOOLEAN
    BY <1>0, <1>21 DEF Crash, TypeOK
  <2> QED BY <1>0, <1>21, <2>1, <2>2, <2>3, <2>4, <2>5, <2>6 DEF Crash, TypeOK, diskVars,
       historyVars
<1> QED BY <1>1, <1>2, <1>3, <1>4, <1>5, <1>6, <1>7, <1>8, <1>9, <1>10, <1>11, <1>12, <1>13,
     <1>14, <1>15, <1>16, <1>17, <1>18, <1>19, <1>20, <1>21 DEF Next

\* Every step keeps the senders and the deferrals to their message.
LEMMA PlacesStep ==
    ASSUME Claims, Next
    PROVE  Places'
<1>0. /\ pc \in [Owners -> Place] /\ at \in [Owners -> Message] /\ claimed \subseteq Message
      /\ kind \in [Message -> Kinds] /\ files \in [Message -> SUBSET File]
      /\ todo \in [Replayers -> SUBSET Message] /\ tries \in [Message -> 0..MaxNoticeTries]
      /\ Places
  BY DEF Claims, TypeOK
<1>1. ASSUME NEW m \in Message, Enqueue(m) PROVE Places'
  <2>1. Sender(m) \in Owners
    BY OwnerFacts
  <2> QED BY <1>0, OwnerFacts, <1>1, <2>1 DEF Enqueue, Goto, historyVars, Places
<1>2. ASSUME NEW m \in Message, ClaimLive(m) PROVE Places'
  <2>1. Sender(m) \in Owners
    BY OwnerFacts
  <2> QED BY ZenonT(60), <1>0, OwnerFacts, <1>2, <2>1 DEF ClaimLive, Goto, diskVars, historyVars, Places
<1>3. ASSUME NEW m \in Message, Prepare(m) PROVE Places'
  <2>1. Sender(m) \in Owners
    BY OwnerFacts
  <2> QED BY <1>0, OwnerFacts, <1>3, <2>1 DEF Prepare, Goto, diskVars, Places
<1>4. ASSUME NEW m \in Message, MarkStarted(m) PROVE Places'
  <2>1. Sender(m) \in Owners
    BY OwnerFacts
  <2> QED BY <1>0, OwnerFacts, <1>4, <2>1 DEF MarkStarted, Goto, WriteEntry, historyVars,
       Places
<1>5. ASSUME NEW m \in Message, LiveReturns(m) PROVE Places'
  <2>1. Sender(m) \in Owners
    BY OwnerFacts
  <2> QED BY <1>0, OwnerFacts, <1>5, <2>1 DEF LiveReturns, Goto, Errored, diskVars, Places
<1>6. ASSUME NEW m \in Message, ReadForUnknown(m) PROVE Places'
  <2>1. Sender(m) \in Owners
    BY OwnerFacts
  <2> QED BY <1>0, OwnerFacts, <1>6, <2>1 DEF ReadForUnknown, Goto, diskVars, historyVars,
       Places
<1>7. ASSUME NEW m \in Message, MarkUnknown(m) PROVE Places'
  <2>1. Sender(m) \in Owners
    BY OwnerFacts
  <2> QED BY <1>0, OwnerFacts, <1>7, <2>1 DEF MarkUnknown, Goto, WriteEntry, historyVars,
       Places
<1>8. ASSUME NEW m \in Message, NoticeReturns(m) PROVE Places'
  <2>1. Sender(m) \in Owners
    BY OwnerFacts
  <2> QED BY SMTT(30), <1>0, OwnerFacts, <1>8, <2>1 DEF NoticeReturns, Goto, Errored, diskVars, Places
<1>9. ASSUME NEW o \in Replayers, StartReplay(o) PROVE Places'
  <2>1. o \in Owners
    BY OwnerFacts
  <2> QED BY <1>0, OwnerFacts, <1>9, <2>1 DEF StartReplay, Snapshot, Goto, historyVars, Places
<1>10. ASSUME NEW o \in Replayers, ClaimNext(o) PROVE Places'
  <2>1. o \in Owners
    BY OwnerFacts
  <2> QED BY <1>0, OwnerFacts, <1>10, <2>1 DEF ClaimNext, Goto, diskVars, historyVars, Places
<1>11. ASSUME NEW o \in Replayers, Reread(o) PROVE Places'
  <2>1. o \in Owners
    BY OwnerFacts
  <2> QED BY SMTT(30), <1>0, OwnerFacts, <1>11, <2>1 DEF Reread, Goto, Finish, HoldsClaim, diskVars,
       Places
<1>12. ASSUME NEW o \in Replayers, Reconcile(o) PROVE Places'
  <2>1. o \in Owners
    BY OwnerFacts
  <2> QED BY SMTT(30), <1>0, OwnerFacts, <1>12, <2>1 DEF Reconcile, Goto, diskVars, Places
<1>13. ASSUME NEW o \in Replayers, ReplayReturns(o) PROVE Places'
  <2>1. o \in Owners
    BY OwnerFacts
  <2> QED BY SMTT(30), <1>0, OwnerFacts, <1>13, <2>1 DEF ReplayReturns, Goto, Errored, diskVars, Places
<1>14. ASSUME NEW o \in Replayers, Move(o) PROVE Places'
  <2>1. o \in Owners
    BY OwnerFacts
  <2> QED BY <1>0, OwnerFacts, <1>14, <2>1 DEF Move, Finish, Goto, HoldsClaim, historyVars,
       Places
<1>15. ASSUME NEW o \in Owners, Ack(o) PROVE Places'
  BY <1>0, OwnerFacts, <1>15 DEF Ack, Goto, Places
<1>16. ASSUME NEW o \in Owners, Unlink(o) PROVE Places'
  BY <1>0, OwnerFacts, <1>16 DEF Unlink, Finish, Goto, HoldsClaim, historyVars, Places
<1>17. ASSUME NEW o \in Owners, FailRead(o) PROVE Places'
  BY <1>0, OwnerFacts, <1>17 DEF FailRead, Goto, Finish, HoldsClaim, diskVars, historyVars,
       Places
<1>18. ASSUME NEW o \in Owners, FailWrite(o) PROVE Places'
  BY <1>0, OwnerFacts, <1>18 DEF FailWrite, WriteEntry, Finish, Goto, HoldsClaim, historyVars,
       Places
<1>19. ASSUME NEW o \in Owners, PlatformAccepts(o) PROVE Places'
  BY <1>0, OwnerFacts, <1>19 DEF PlatformAccepts, Goto, diskVars, Places
<1>20. ASSUME OutOfTime PROVE Places'
  BY <1>0, OwnerFacts, <1>20 DEF OutOfTime, diskVars, Places
<1>21. ASSUME Crash PROVE Places'
  <2>1. \A n \in Message : Sender(n)[1] = "sender" /\ Defer(n)[1] = "defer"
    BY DEF Sender, Defer
  <2>2. \A n \in Message :
          /\ pc'[Sender(n)] \in {"idle", "done"}
          /\ pc'[Sender(n)] = "idle" => pc[Sender(n)] = "idle"
          /\ pc'[Defer(n)] = "idle"
    BY <1>0, <1>21, <2>1, OwnerFacts DEF Crash
  <2> QED BY <1>0, <1>21, <2>2 DEF Crash, Places
<1> QED BY <1>1, <1>2, <1>3, <1>4, <1>5, <1>6, <1>7, <1>8, <1>9, <1>10, <1>11, <1>12, <1>13,
     <1>14, <1>15, <1>16, <1>17, <1>18, <1>19, <1>20, <1>21 DEF Next

\* Every step keeps the replayers to messages that have been enqueued.
LEMMA EnqueuedStep ==
    ASSUME Claims, Next
    PROVE  Enqueued'
<1>0. /\ pc \in [Owners -> Place] /\ at \in [Owners -> Message] /\ claimed \subseteq Message
      /\ kind \in [Message -> Kinds] /\ files \in [Message -> SUBSET File]
      /\ todo \in [Replayers -> SUBSET Message] /\ tries \in [Message -> 0..MaxNoticeTries]
      /\ Places /\ Enqueued
  BY DEF Claims, TypeOK
<1>1. ASSUME NEW m \in Message, Enqueue(m) PROVE Enqueued'
  <2>1. Sender(m) \in Owners
    BY OwnerFacts
  <2> QED BY SMTT(30), <1>0, OwnerFacts, <1>1, <2>1 DEF Enqueue, Goto, historyVars, Enqueued, Busy
<1>2. ASSUME NEW m \in Message, ClaimLive(m) PROVE Enqueued'
  <2>1. Sender(m) \in Owners
    BY OwnerFacts
  <2>2. /\ \E p \in Place \ {"idle"} : pc' = [pc EXCEPT ![Sender(m)] = p]
        /\ UNCHANGED <<files, todo, at>>
    BY <1>2 DEF ClaimLive, Goto, diskVars, Place
  <2> QED BY SMTT(30), <1>0, <2>1, <2>2, OwnerFacts DEF Enqueued, Busy
<1>3. ASSUME NEW m \in Message, Prepare(m) PROVE Enqueued'
  <2>1. Sender(m) \in Owners
    BY OwnerFacts
  <2>2. /\ \E p \in Place \ {"idle"} : pc' = [pc EXCEPT ![Sender(m)] = p]
        /\ UNCHANGED <<files, todo, at>>
    BY <1>3 DEF Prepare, Goto, diskVars, Place
  <2> QED BY SMTT(30), <1>0, <2>1, <2>2, OwnerFacts DEF Enqueued, Busy
<1>4. ASSUME NEW m \in Message, MarkStarted(m) PROVE Enqueued'
  <2>1. Sender(m) \in Owners
    BY OwnerFacts
  <2> QED BY <1>0, OwnerFacts, <1>4, <2>1 DEF MarkStarted, Goto, WriteEntry, historyVars,
       Enqueued, Busy
<1>5. ASSUME NEW m \in Message, LiveReturns(m) PROVE Enqueued'
  <2>1. Sender(m) \in Owners
    BY OwnerFacts
  <2>2. /\ \E p \in Place \ {"idle"} : pc' = [pc EXCEPT ![Sender(m)] = p]
        /\ UNCHANGED <<files, todo, at>>
    BY <1>5 DEF LiveReturns, Goto, diskVars, Place
  <2> QED BY SMTT(30), <1>0, <2>1, <2>2, OwnerFacts DEF Enqueued, Busy
<1>6. ASSUME NEW m \in Message, ReadForUnknown(m) PROVE Enqueued'
  <2>1. Sender(m) \in Owners
    BY OwnerFacts
  <2> QED BY <1>0, OwnerFacts, <1>6, <2>1 DEF ReadForUnknown, Goto, diskVars, historyVars,
       Enqueued, Busy
<1>7. ASSUME NEW m \in Message, MarkUnknown(m) PROVE Enqueued'
  <2>1. Sender(m) \in Owners
    BY OwnerFacts
  <2> QED BY <1>0, OwnerFacts, <1>7, <2>1 DEF MarkUnknown, Goto, WriteEntry, historyVars,
       Enqueued, Busy
<1>8. ASSUME NEW m \in Message, NoticeReturns(m) PROVE Enqueued'
  <2>1. Sender(m) \in Owners
    BY OwnerFacts
  <2>2. /\ \E p \in Place \ {"idle"} : pc' = [pc EXCEPT ![Sender(m)] = p]
        /\ UNCHANGED <<files, todo, at>>
    BY <1>8 DEF NoticeReturns, Goto, diskVars, Place
  <2> QED BY SMTT(30), <1>0, <2>1, <2>2, OwnerFacts DEF Enqueued, Busy
<1>9. ASSUME NEW o \in Replayers, StartReplay(o) PROVE Enqueued'
  <2>1. o \in Owners
    BY OwnerFacts
  <2> QED BY <1>0, OwnerFacts, <1>9, <2>1 DEF StartReplay, Snapshot, Goto, historyVars,
       Enqueued, Busy
<1>10. ASSUME NEW o \in Replayers, ClaimNext(o) PROVE Enqueued'
  <2>1. o \in Owners
    BY OwnerFacts
  <2>2. UNCHANGED files
    BY <1>10 DEF ClaimNext, diskVars
  <2>3. CASE todo[o] = {} /\ Goto(o, "idle") /\ UNCHANGED <<claimed, at, todo>>
    BY <1>0, <2>1, <2>2, <2>3, OwnerFacts DEF Goto, Enqueued, Busy
  <2>4. ASSUME NEW m \in todo[o],
               todo' = [todo EXCEPT ![o] = @ \ {m}],
               \/ UNCHANGED <<claimed, pc, at>>
               \/ /\ claimed' = claimed \cup {m}
                  /\ at' = [at EXCEPT ![o] = m]
                  /\ Goto(o, "rereading")
        PROVE  Enqueued'
    <3>1. m \in Message /\ pc[Sender(m)] # "idle"
      BY <1>0 DEF Enqueued
    <3>2. \A n \in Message : pc'[Sender(n)] = pc[Sender(n)] /\ pc'[Defer(n)] = pc[Defer(n)]
      BY <1>0, <2>1, <2>4, OwnerFacts DEF Goto
    <3>3. \A r \in Replayers : todo'[r] \subseteq todo[r]
      BY <1>0, <2>4
    <3>4. \A r \in Replayers : pc'[r] \in Busy =>
            (pc[r] \in Busy /\ at'[r] = at[r]) \/ at'[r] = m
      BY <1>0, <2>1, <2>4, OwnerFacts DEF Goto
    <3>5. \A r \in Replayers : at[r] \in Message /\ at'[r] \in Message
      BY <1>0, <2>4, <3>1, OwnerFacts
    <3> QED BY <1>0, <2>2, <3>1, <3>2, <3>3, <3>4, <3>5 DEF Enqueued
  <2> QED BY <1>10, <2>3, <2>4 DEF ClaimNext
<1>11. ASSUME NEW o \in Replayers, Reread(o) PROVE Enqueued'
  <2>1. o \in Owners
    BY OwnerFacts
  <2>2. /\ \E p \in Place : pc' = [pc EXCEPT ![o] = p]
        /\ pc[o] \in Busy
        /\ UNCHANGED <<files, todo, at>>
    BY <1>11 DEF Reread, Goto, Finish, diskVars, Place, Busy
  <2> QED BY SMTT(30), <1>0, <2>1, <2>2, OwnerFacts DEF Enqueued
<1>12. ASSUME NEW o \in Replayers, Reconcile(o) PROVE Enqueued'
  <2>1. o \in Owners
    BY OwnerFacts
  <2>2. /\ \E p \in Place : pc' = [pc EXCEPT ![o] = p]
        /\ pc[o] \in Busy
        /\ UNCHANGED <<files, todo, at>>
    BY <1>12 DEF Reconcile, Goto, diskVars, Place, Busy
  <2> QED BY SMTT(30), <1>0, <2>1, <2>2, OwnerFacts DEF Enqueued
<1>13. ASSUME NEW o \in Replayers, ReplayReturns(o) PROVE Enqueued'
  <2>1. o \in Owners
    BY OwnerFacts
  <2>2. /\ \E p \in Place : pc' = [pc EXCEPT ![o] = p]
        /\ pc[o] \in Busy
        /\ UNCHANGED <<files, todo, at>>
    BY <1>13 DEF ReplayReturns, Errored, Goto, diskVars, Place, Busy
  <2> QED BY SMTT(30), <1>0, <2>1, <2>2, OwnerFacts DEF Enqueued
<1>14. ASSUME NEW o \in Replayers, Move(o) PROVE Enqueued'
  <2>1. o \in Owners
    BY OwnerFacts
  <2> QED BY <1>0, OwnerFacts, <1>14, <2>1 DEF Move, Finish, Goto, HoldsClaim, historyVars,
       Enqueued, Busy
<1>15. ASSUME NEW o \in Owners, Ack(o) PROVE Enqueued'
  BY <1>0, OwnerFacts, <1>15 DEF Ack, Goto, Enqueued, Busy
<1>16. ASSUME NEW o \in Owners, Unlink(o) PROVE Enqueued'
  BY <1>0, OwnerFacts, <1>16 DEF Unlink, Finish, Goto, HoldsClaim, historyVars, Enqueued, Busy
<1>17. ASSUME NEW o \in Owners, FailRead(o) PROVE Enqueued'
  <2>1. /\ \E p \in Place \ {"idle"} : pc' = [pc EXCEPT ![o] = p]
        /\ pc[o] \in Busy
        /\ UNCHANGED <<files, todo, at>>
    BY <1>17 DEF FailRead, Finish, Goto, Place, Busy, diskVars
  <2> QED BY <1>0, <2>1, OwnerFacts DEF Enqueued
<1>18. ASSUME NEW o \in Owners, FailWrite(o) PROVE Enqueued'
  <2>1. /\ \E p \in Place \ {"idle"} : pc' = [pc EXCEPT ![o] = p]
        /\ pc[o] \in Busy
        /\ files' = [files EXCEPT ![at[o]] = @ \cup {"json"}]
        /\ UNCHANGED <<todo, at>>
    BY <1>18 DEF FailWrite, WriteEntry, Finish, Goto, Place, Busy
  <2>2. pc[Sender(at[o])] # "idle"
    <3>1. CASE o \in Replayers
      BY <1>0, <2>1, <3>1 DEF Enqueued
    <3>2. ASSUME NEW n \in Message, o = Sender(n)
          PROVE  pc[Sender(at[o])] # "idle"
      BY <1>0, <2>1, <3>2 DEF Places, Busy
    <3>3. ASSUME NEW n \in Message, o = Defer(n)
          PROVE  pc[Sender(at[o])] # "idle"
      BY <1>0, <2>1, <3>3 DEF Places, Enqueued
    <3> QED BY <3>1, <3>2, <3>3, OwnerFacts
  <2> QED BY SMTT(30), <1>0, <2>1, <2>2, OwnerFacts DEF Enqueued
<1>19. ASSUME NEW o \in Owners, PlatformAccepts(o) PROVE Enqueued'
  BY <1>0, OwnerFacts, <1>19 DEF PlatformAccepts, Goto, diskVars, Enqueued, Busy
<1>20. ASSUME OutOfTime PROVE Enqueued'
  <2>1. \A n \in Message :
          /\ pc'[Sender(n)] = pc[Sender(n)]
          /\ pc'[Defer(n)] # pc[Defer(n)] => n \in todo[Boot]
    <3>1. \A n, i \in Message : Defer(n) = Defer(i) => n = i
      BY DEF Defer
    <3>2. todo[Boot] \subseteq Message
      BY <1>0, OwnerFacts
    <3> QED BY <1>0, <1>20, <3>1, <3>2, OwnerFacts DEF OutOfTime
  <2>2. \A r \in Replayers : pc'[r] \in Busy => pc[r] \in Busy
    BY <1>0, <1>20, OwnerFacts DEF OutOfTime, Busy
  <2> QED BY <1>0, <1>20, <2>1, <2>2, OwnerFacts DEF OutOfTime, diskVars, Enqueued
<1>21. ASSUME Crash PROVE Enqueued'
  <2>1. /\ \A n \in Message : pc'[Sender(n)] = "idle" => pc[Sender(n)] = "idle"
        /\ \A n \in Message : pc'[Defer(n)] = "idle"
        /\ \A r \in Replayers : pc'[r] = "idle" /\ todo'[r] = {}
    <3>1. \A n \in Message : Sender(n)[1] = "sender" /\ Defer(n)[1] = "defer"
      BY DEF Sender, Defer
    <3>2. \A r \in Replayers : r[1] # "sender"
      BY DEF Replayers, Boot, Drain
    <3> QED BY <1>0, <1>21, <3>1, <3>2, OwnerFacts DEF Crash
  <2> QED BY <1>0, <1>21, <2>1 DEF Crash, Enqueued, Busy, diskVars
<1> QED BY <1>1, <1>2, <1>3, <1>4, <1>5, <1>6, <1>7, <1>8, <1>9, <1>10, <1>11, <1>12, <1>13,
     <1>14, <1>15, <1>16, <1>17, <1>18, <1>19, <1>20, <1>21 DEF Next

-----------------------------------------------------------------------------
(* Claims                                                                  *)

\* What the steps do to the claims: an owner goes on with what it has, takes a
\* message nobody has, or is done with its message.
Advance(o) ==
    /\ \E p \in Place : /\ pc' = [pc EXCEPT ![o] = p]
                        /\ HoldsClaim(o) /\ p \in Busy => pc[o] \in Busy
    /\ UNCHANGED <<kind, at, claimed>>

Take(o, m) ==
    /\ m \notin claimed
    /\ o \in Replayers \/ at[o] = m
    /\ claimed' = claimed \cup {m}
    /\ at' = [at EXCEPT ![o] = m]
    /\ \E p \in Busy : pc' = [pc EXCEPT ![o] = p]
    /\ UNCHANGED kind

Leave(o) == pc[o] \in Busy /\ Finish(o) /\ UNCHANGED <<kind, at>>

StepShape ==
    \/ \E o \in Owners : Advance(o) \/ Leave(o) \/ \E m \in Message : Take(o, m)
    \/ UNCHANGED <<kind, pc, at, claimed>>
    \/ OutOfTime
    \/ Crash

\* Every step has one of these shapes.
LEMMA ShapeOfStep ==
    ASSUME Claims, Next
    PROVE  StepShape
<1>0. /\ pc \in [Owners -> Place] /\ at \in [Owners -> Message] /\ todo \in [Replayers -> SUBSET Message]
      /\ kind \in [Message -> Kinds] /\ Places
  BY DEF Claims, TypeOK
<1>1. ASSUME NEW m \in Message, Enqueue(m) PROVE StepShape
  <2>1. Sender(m) \in Owners /\ at[Sender(m)] = m
    BY <1>0, OwnerFacts DEF Places
  <2>2. Advance(Sender(m))
    BY <1>0, <1>1, <2>1, ClaimFacts, KindsAssumption DEF Enqueue, Goto, Advance, Place, Busy
  <2> QED BY <2>1, <2>2 DEF StepShape
<1>2. ASSUME NEW m \in Message, ClaimLive(m) PROVE StepShape
  <2>1. Sender(m) \in Owners /\ at[Sender(m)] = m
    BY <1>0, OwnerFacts DEF Places
  <2>2. CASE m \in claimed
    <3>1. Advance(Sender(m))
      BY <1>0, <1>2, <2>1, <2>2 DEF ClaimLive, Goto, Advance, Place, Busy
    <3> QED BY <2>1, <3>1 DEF StepShape
  <2>3. CASE m \notin claimed
    <3>1. at' = [at EXCEPT ![Sender(m)] = m]
      BY <1>0, <1>2, <2>1 DEF ClaimLive
    <3>2. Take(Sender(m), m)
      BY <1>2, <2>1, <2>3, <3>1 DEF ClaimLive, Goto, Take, Busy
    <3> QED BY <2>1, <3>2 DEF StepShape
  <2> QED BY <2>2, <2>3
<1>3. ASSUME NEW m \in Message, Prepare(m) PROVE StepShape
  <2>1. Sender(m) \in Owners /\ at[Sender(m)] = m
    BY <1>0, OwnerFacts DEF Places
  <2>2. Advance(Sender(m))
    BY <1>0, <1>3, <2>1 DEF Prepare, Goto, Advance, Place, Busy
  <2> QED BY <2>1, <2>2 DEF StepShape
<1>4. ASSUME NEW m \in Message, MarkStarted(m) PROVE StepShape
  <2>1. Sender(m) \in Owners /\ at[Sender(m)] = m
    BY <1>0, OwnerFacts DEF Places
  <2>2. Advance(Sender(m))
    BY <1>0, <1>4, <2>1 DEF MarkStarted, Goto, WriteEntry, Advance, Place, Busy
  <2> QED BY <2>1, <2>2 DEF StepShape
<1>5. ASSUME NEW m \in Message, LiveReturns(m) PROVE StepShape
  <2>1. Sender(m) \in Owners /\ at[Sender(m)] = m
    BY <1>0, OwnerFacts DEF Places
  <2>2. Advance(Sender(m))
    BY <1>0, <1>5, <2>1 DEF LiveReturns, Goto, Errored, Advance, Place, Busy
  <2> QED BY <2>1, <2>2 DEF StepShape
<1>6. ASSUME NEW m \in Message, ReadForUnknown(m) PROVE StepShape
  <2>1. Sender(m) \in Owners /\ at[Sender(m)] = m
    BY <1>0, OwnerFacts DEF Places
  <2>2. Advance(Sender(m))
    BY <1>0, <1>6, <2>1 DEF ReadForUnknown, Goto, Advance, Place, Busy
  <2> QED BY <2>1, <2>2 DEF StepShape
<1>7. ASSUME NEW m \in Message, MarkUnknown(m) PROVE StepShape
  <2>1. Sender(m) \in Owners /\ at[Sender(m)] = m
    BY <1>0, OwnerFacts DEF Places
  <2>2. Advance(Sender(m))
    BY <1>0, <1>7, <2>1 DEF MarkUnknown, Goto, WriteEntry, Advance, Place, Busy
  <2> QED BY <2>1, <2>2 DEF StepShape
<1>8. ASSUME NEW m \in Message, NoticeReturns(m) PROVE StepShape
  <2>1. Sender(m) \in Owners /\ at[Sender(m)] = m
    BY <1>0, OwnerFacts DEF Places
  <2>2. Advance(Sender(m))
    BY <1>0, <1>8, <2>1 DEF NoticeReturns, Goto, Errored, Advance, Place, Busy
  <2> QED BY <2>1, <2>2 DEF StepShape
<1>9. ASSUME NEW o \in Replayers, StartReplay(o) PROVE StepShape
  <2>1. o \in Owners
    BY OwnerFacts
  <2>2. Advance(o)
    BY <1>0, <1>9, <2>1 DEF StartReplay, Snapshot, Goto, Advance, Place, Busy
  <2> QED BY <2>1, <2>2 DEF StepShape
<1>10. ASSUME NEW o \in Replayers, ClaimNext(o) PROVE StepShape
  <2>1. o \in Owners
    BY OwnerFacts
  <2>2. CASE todo[o] = {} /\ Goto(o, "idle") /\ UNCHANGED <<claimed, at, todo>>
    <3>1. Advance(o)
      BY <1>10, <2>2 DEF ClaimNext, Goto, Advance, Place, Busy
    <3> QED BY <2>1, <3>1 DEF StepShape
  <2>3. ASSUME NEW m \in todo[o], m \notin claimed, claimed' = claimed \cup {m},
               at' = [at EXCEPT ![o] = m], Goto(o, "rereading")
        PROVE  StepShape
    <3>1. m \in Message
      BY <1>0
    <3>2. Take(o, m)
      BY <1>10, <2>3 DEF ClaimNext, Take, Goto, Busy
    <3> QED BY <2>1, <3>1, <3>2 DEF StepShape
  <2>4. CASE UNCHANGED <<claimed, pc, at>>
    BY <1>10, <2>4 DEF ClaimNext, StepShape
  <2> QED BY <1>10, <2>2, <2>3, <2>4 DEF ClaimNext
<1>11. ASSUME NEW o \in Replayers, Reread(o) PROVE StepShape
  <2>1. o \in Owners
    BY OwnerFacts
  <2>2. Leave(o) \/ Advance(o)
    BY <1>0, <1>11 DEF Reread, Leave, Advance, Goto, Place, Busy
  <2> QED BY <2>1, <2>2 DEF StepShape
<1>12. ASSUME NEW o \in Replayers, Reconcile(o) PROVE StepShape
  <2>1. o \in Owners
    BY OwnerFacts
  <2>2. Advance(o)
    BY <1>0, <1>12, <2>1 DEF Reconcile, Goto, Advance, Place, Busy
  <2> QED BY <2>1, <2>2 DEF StepShape
<1>13. ASSUME NEW o \in Replayers, ReplayReturns(o) PROVE StepShape
  <2>1. o \in Owners
    BY OwnerFacts
  <2>2. Advance(o)
    BY <1>0, <1>13, <2>1 DEF ReplayReturns, Goto, Errored, Advance, Place, Busy
  <2> QED BY <2>1, <2>2 DEF StepShape
<1>14. ASSUME NEW o \in Replayers, Move(o) PROVE StepShape
  <2>0. o \in Owners
    BY OwnerFacts
  <2>1. Leave(o)
    BY <1>0, <1>14 DEF Move, Leave, Busy
  <2> QED BY <2>0, <2>1 DEF StepShape
<1>15. ASSUME NEW o \in Owners, Ack(o) PROVE StepShape
  <2>1. Advance(o)
    BY <1>0, <1>15 DEF Ack, Goto, Advance, Place, Busy
  <2> QED BY <2>1 DEF StepShape
<1>16. ASSUME NEW o \in Owners, Unlink(o) PROVE StepShape
  <2>1. Leave(o)
    BY <1>0, <1>16 DEF Unlink, Leave, Busy
  <2> QED BY <2>1 DEF StepShape
<1>17. ASSUME NEW o \in Owners, FailRead(o) PROVE StepShape
  <2>1. Leave(o) \/ Advance(o)
    BY <1>0, <1>17 DEF FailRead, Leave, Advance, Goto, Place, Busy
  <2> QED BY <2>1 DEF StepShape
<1>18. ASSUME NEW o \in Owners, FailWrite(o) PROVE StepShape
  <2>1. Leave(o)
    BY <1>0, <1>18 DEF FailWrite, Leave, Busy
  <2> QED BY <2>1 DEF StepShape
<1>19. ASSUME NEW o \in Owners, PlatformAccepts(o) PROVE StepShape
  <2>1. Advance(o)
    BY <1>0, <1>19 DEF PlatformAccepts, Goto, Advance, Place, Busy
  <2> QED BY <2>1 DEF StepShape
<1>20. ASSUME OutOfTime PROVE StepShape
  BY <1>20 DEF StepShape
<1>21. ASSUME Crash PROVE StepShape
  BY <1>21 DEF StepShape
<1> QED BY <1>1, <1>2, <1>3, <1>4, <1>5, <1>6, <1>7, <1>8, <1>9, <1>10, <1>11, <1>12, <1>13,
     <1>14, <1>15, <1>16, <1>17, <1>18, <1>19, <1>20, <1>21 DEF Next

\* The claims keep the owners apart, whatever shape a step has.
LEMMA ClaimsStep ==
    ASSUME Claims, StepShape
    PROVE  ClaimsHeld' /\ ClaimsExclusive'
<1>0. /\ pc \in [Owners -> Place] /\ at \in [Owners -> Message] /\ claimed \subseteq Message
      /\ kind \in [Message -> Kinds] /\ todo \in [Replayers -> SUBSET Message]
      /\ ClaimsHeld /\ ClaimsExclusive /\ Places
  BY DEF Claims, TypeOK
<1>1. ASSUME NEW o \in Owners, Advance(o)
      PROVE  ClaimsHeld' /\ ClaimsExclusive'
  <2>1. \A q \in Owners : Working(q)' => Working(q)
    BY <1>0, <1>1 DEF Advance, Working, HoldsClaim
  <2> QED BY <1>0, <1>1, <2>1 DEF Advance, ClaimsHeld, ClaimsExclusive
<1>2. ASSUME NEW o \in Owners, NEW m \in Message, Take(o, m)
      PROVE  ClaimsHeld' /\ ClaimsExclusive'
  <2>1. \A q \in Owners : q # o => at'[q] = at[q] /\ (Working(q)' <=> Working(q))
    BY <1>0, <1>2 DEF Take, Working, HoldsClaim
  <2>2. at'[o] = m /\ m \notin claimed /\ claimed' = claimed \cup {m}
    BY <1>0, <1>2 DEF Take
  <2>3. ClaimsHeld'
    BY <1>0, <2>1, <2>2 DEF ClaimsHeld
  <2>4. ClaimsExclusive'
    BY <1>0, <2>1, <2>2 DEF ClaimsHeld, ClaimsExclusive
  <2> QED BY <2>3, <2>4
<1>3. ASSUME NEW o \in Owners, Leave(o)
      PROVE  ClaimsHeld' /\ ClaimsExclusive'
  <2>1. \A q \in Owners : Working(q)' => Working(q) /\ q # o
    BY <1>0, <1>3 DEF Leave, Finish, Goto, Working, HoldsClaim, Busy
  <2>2. \A q \in Owners : Working(q)' => at[q] \in claimed'
    <3>1. CASE HoldsClaim(o)
      <4>1. Working(o) /\ claimed' = claimed \ {at[o]}
        BY <1>3, <3>1 DEF Leave, Finish, Working
      <4> QED BY <1>0, <2>1, <4>1 DEF ClaimsHeld, ClaimsExclusive
    <3>2. CASE ~HoldsClaim(o)
      BY <1>0, <1>3, <2>1, <3>2 DEF Leave, Finish, ClaimsHeld
    <3> QED BY <3>1, <3>2
  <2> QED BY <1>0, <1>3, <2>1, <2>2 DEF Leave, ClaimsHeld, ClaimsExclusive
<1>4. CASE UNCHANGED <<kind, pc, at, claimed>>
  BY <1>0, <1>4 DEF ClaimsHeld, ClaimsExclusive, Working, HoldsClaim
<1>5. CASE OutOfTime
  <2>1. \A q \in Owners : Working(q)' => Working(q)
    <3>1. \A m \in Message : ~HoldsClaim(Defer(m))'
      BY OwnerFacts DEF HoldsClaim, Defer
    <3>2. ASSUME NEW q \in Owners, \A m \in Message : q # Defer(m)
          PROVE  pc'[q] \in {pc[q], "idle"}
      BY <1>0, <1>5, <3>2, OwnerFacts DEF OutOfTime
    <3>3. UNCHANGED <<kind, at>>
      BY <1>5 DEF OutOfTime
    <3> QED BY <3>1, <3>2, <3>3 DEF Working, HoldsClaim, Busy
  <2> QED BY <1>0, <1>5, <2>1 DEF OutOfTime, ClaimsHeld, ClaimsExclusive
<1>6. CASE Crash
  <2>1. \A q \in Owners : ~Working(q)'
    BY <1>0, <1>6 DEF Crash, Working, Busy
  <2> QED BY <2>1 DEF ClaimsHeld, ClaimsExclusive
<1> QED BY <1>1, <1>2, <1>3, <1>4, <1>5, <1>6 DEF StepShape

-----------------------------------------------------------------------------
(* Nothing is lost                                                         *)

\* Every step acknowledges only what was sent, called off or bestEffort.
LEMMA EarnedStep ==
    ASSUME Claims, Next
    PROVE  Earned'
<1>0. /\ pc \in [Owners -> Place] /\ at \in [Owners -> Message] /\ best \in [Message -> BOOLEAN]
      /\ sent \in [Message -> [live : Nat, replay : Nat]] /\ dropped \in [Message -> BOOLEAN]
      /\ files \in [Message -> SUBSET File] /\ lost \in [Message -> Nat]
      /\ Places /\ Earned
  BY DEF Claims, TypeOK
<1>1. ASSUME NEW m \in Message, Enqueue(m) PROVE Earned'
  <2>1. Sender(m) \in Owners
    BY OwnerFacts
  <2> QED BY <1>0, <1>1, <2>1 DEF Enqueue, Goto, historyVars, Earned, Taken
<1>2. ASSUME NEW m \in Message, ClaimLive(m) PROVE Earned'
  <2>1. Sender(m) \in Owners
    BY OwnerFacts
  <2> QED BY <1>0, <1>2, <2>1 DEF ClaimLive, Goto, diskVars, historyVars, Earned, Taken
<1>3. ASSUME NEW m \in Message, Prepare(m) PROVE Earned'
  <2>1. Sender(m) \in Owners /\ at[Sender(m)] = m
    BY <1>0, OwnerFacts DEF Places
  <2>2. /\ UNCHANGED <<at, sent, best>>
        /\ \A n \in Message : dropped[n] => dropped'[n]
    BY <1>0, <1>3 DEF Prepare
  <2>3. \A q \in Owners : q # Sender(m) => pc'[q] = pc[q]
    BY <1>0, <1>3 DEF Prepare, Goto
  <2>4. pc'[Sender(m)] \notin {"accepted", "recorded"}
    BY <1>0, <1>3, <2>1 DEF Prepare, Goto
  <2>5. pc'[Sender(m)] = "recording" => Taken(m)
    BY <1>0, <1>3, <2>1 DEF Prepare, Goto, Earned
  <2>6. pc'[Sender(m)] = "acking" => Taken(m) \/ dropped'[m]
    BY <1>0, <1>3, <2>1 DEF Prepare, Goto, Earned
  <2> QED BY <1>0, <2>1, <2>2, <2>3, <2>4, <2>5, <2>6 DEF Earned, Taken
<1>4. ASSUME NEW m \in Message, MarkStarted(m) PROVE Earned'
  <2>1. Sender(m) \in Owners
    BY OwnerFacts
  <2> QED BY <1>0, <1>4, <2>1 DEF MarkStarted, Goto, WriteEntry, historyVars, Earned, Taken
<1>5. ASSUME NEW m \in Message, LiveReturns(m) PROVE Earned'
  <2>1. Sender(m) \in Owners /\ at[Sender(m)] = m
    BY <1>0, OwnerFacts DEF Places
  <2>2. /\ UNCHANGED <<at, sent, best>>
        /\ \A n \in Message : dropped[n] => dropped'[n]
    BY <1>0, <1>5 DEF LiveReturns
  <2>3. \A q \in Owners : q # Sender(m) => pc'[q] = pc[q]
    BY <1>0, <1>5 DEF LiveReturns, Goto
  <2>4. pc'[Sender(m)] \notin {"accepted", "recorded"}
    BY <1>0, <1>5, <2>1 DEF LiveReturns, Goto
  <2>5. pc'[Sender(m)] = "recording" => Taken(m)
    BY <1>0, <1>5, <2>1 DEF LiveReturns, Goto, Earned
  <2>6. pc'[Sender(m)] = "acking" => Taken(m) \/ dropped'[m]
    BY <1>0, <1>5, <2>1 DEF LiveReturns, Goto, Earned
  <2> QED BY <1>0, <2>1, <2>2, <2>3, <2>4, <2>5, <2>6 DEF Earned, Taken
<1>6. ASSUME NEW m \in Message, ReadForUnknown(m) PROVE Earned'
  <2>1. Sender(m) \in Owners
    BY OwnerFacts
  <2> QED BY <1>0, <1>6, <2>1 DEF ReadForUnknown, Goto, diskVars, historyVars, Earned, Taken
<1>7. ASSUME NEW m \in Message, MarkUnknown(m) PROVE Earned'
  <2>1. Sender(m) \in Owners
    BY OwnerFacts
  <2> QED BY <1>0, <1>7, <2>1 DEF MarkUnknown, Goto, WriteEntry, historyVars, Earned, Taken
<1>8. ASSUME NEW m \in Message, NoticeReturns(m) PROVE Earned'
  <2>1. Sender(m) \in Owners
    BY OwnerFacts
  <2> QED BY <1>0, <1>8, <2>1 DEF NoticeReturns, Goto, Errored, diskVars, Earned, Taken
<1>9. ASSUME NEW o \in Replayers, StartReplay(o) PROVE Earned'
  <2>1. o \in Owners
    BY OwnerFacts
  <2> QED BY <1>0, <1>9, <2>1 DEF StartReplay, Snapshot, Goto, historyVars, Earned, Taken
<1>10. ASSUME NEW o \in Replayers, ClaimNext(o) PROVE Earned'
  <2>1. o \in Owners
    BY OwnerFacts
  <2> QED BY <1>0, <1>10, <2>1 DEF ClaimNext, Goto, diskVars, historyVars, Earned, Taken
<1>11. ASSUME NEW o \in Replayers, Reread(o) PROVE Earned'
  <2>1. o \in Owners
    BY OwnerFacts
  <2> QED BY <1>0, <1>11, <2>1 DEF Reread, Goto, Finish, HoldsClaim, diskVars, Earned, Taken
<1>12. ASSUME NEW o \in Replayers, Reconcile(o) PROVE Earned'
  <2>1. o \in Owners
    BY OwnerFacts
  <2> QED BY <1>0, <1>12, <2>1 DEF Reconcile, Goto, diskVars, Earned, Taken
<1>13. ASSUME NEW o \in Replayers, ReplayReturns(o) PROVE Earned'
  <2>1. o \in Owners
    BY OwnerFacts
  <2> QED BY <1>0, <1>13, <2>1 DEF ReplayReturns, Goto, Errored, diskVars, Earned, Taken
<1>14. ASSUME NEW o \in Replayers, Move(o) PROVE Earned'
  <2>1. o \in Owners
    BY OwnerFacts
  <2> QED BY <1>0, <1>14, <2>1 DEF Move, Finish, Goto, HoldsClaim, historyVars, Earned, Taken
<1>15. ASSUME NEW o \in Owners, Ack(o) PROVE Earned'
  BY <1>0, <1>15 DEF Ack, Goto, Earned, Taken
<1>16. ASSUME NEW o \in Owners, Unlink(o) PROVE Earned'
  BY <1>0, <1>16 DEF Unlink, Finish, Goto, HoldsClaim, historyVars, Earned, Taken
<1>17. ASSUME NEW o \in Owners, FailRead(o) PROVE Earned'
  BY <1>0, <1>17 DEF FailRead, Goto, Finish, HoldsClaim, diskVars, historyVars, Earned, Taken
<1>18. ASSUME NEW o \in Owners, FailWrite(o) PROVE Earned'
  BY <1>0, <1>18 DEF FailWrite, WriteEntry, Finish, Goto, HoldsClaim, historyVars, Earned,
       Taken
<1>19. ASSUME NEW o \in Owners, PlatformAccepts(o) PROVE Earned'
  BY <1>0, <1>19 DEF PlatformAccepts, Goto, diskVars, Earned, Taken
<1>20. ASSUME OutOfTime PROVE Earned'
  BY <1>0, <1>20 DEF OutOfTime, diskVars, Earned, Taken
<1>21. ASSUME Crash PROVE Earned'
  BY <1>0, <1>21 DEF Crash, diskVars, Earned, Taken
<1> QED BY <1>1, <1>2, <1>3, <1>4, <1>5, <1>6, <1>7, <1>8, <1>9, <1>10, <1>11, <1>12, <1>13,
     <1>14, <1>15, <1>16, <1>17, <1>18, <1>19, <1>20, <1>21 DEF Next

\* Every step keeps a message that is neither sent nor called off on disk.
LEMMA NeverLostStep ==
    ASSUME Claims, Next
    PROVE  NeverLost'
<1>0. /\ pc \in [Owners -> Place] /\ at \in [Owners -> Message] /\ best \in [Message -> BOOLEAN]
      /\ sent \in [Message -> [live : Nat, replay : Nat]] /\ dropped \in [Message -> BOOLEAN]
      /\ files \in [Message -> SUBSET File] /\ lost \in [Message -> Nat]
      /\ Places /\ Earned /\ NeverLost /\ Enqueued
  BY DEF Claims, TypeOK
<1>1. ASSUME NEW m \in Message, Enqueue(m) PROVE NeverLost'
  <2>1. Sender(m) \in Owners
    BY OwnerFacts
  <2> QED BY <1>0, OwnerFacts, <1>1, <2>1 DEF Enqueue, Goto, historyVars, Earned, Taken,
       NeverLost, Accounted
<1>2. ASSUME NEW m \in Message, ClaimLive(m) PROVE NeverLost'
  <2>1. Sender(m) \in Owners
    BY OwnerFacts
  <2> QED BY <1>0, OwnerFacts, <1>2, <2>1 DEF ClaimLive, Goto, diskVars, historyVars, Earned,
       Taken, NeverLost, Accounted
<1>3. ASSUME NEW m \in Message, Prepare(m) PROVE NeverLost'
  <2>1. Sender(m) \in Owners
    BY OwnerFacts
  <2>2. /\ UNCHANGED <<files, sent, best>>
        /\ \A n \in Message : dropped[n] => dropped'[n]
    BY <1>0, <1>3 DEF Prepare, diskVars
  <2>3. pc[Sender(m)] # "idle" /\ \E p \in Place : pc' = [pc EXCEPT ![Sender(m)] = p]
    BY <1>3 DEF Prepare, Errored, Goto, Place
  <2>4. \A n \in Message : pc[Sender(n)] = "idle" => pc'[Sender(n)] = "idle"
    BY <1>0, <2>1, <2>3, OwnerFacts
  <2>5. ASSUME NEW n \in Message, Accounted(n)
        PROVE  Accounted(n)'
    BY <1>0, <2>2, <2>4, <2>5 DEF Accounted
  <2> QED BY <1>0, <2>2, <2>5 DEF NeverLost
<1>4. ASSUME NEW m \in Message, MarkStarted(m) PROVE NeverLost'
  <2>1. Sender(m) \in Owners
    BY OwnerFacts
  <2> QED BY <1>0, OwnerFacts, <1>4, <2>1 DEF MarkStarted, Goto, WriteEntry, historyVars,
       Earned, Taken, NeverLost, Accounted
<1>5. ASSUME NEW m \in Message, LiveReturns(m) PROVE NeverLost'
  <2>1. Sender(m) \in Owners
    BY OwnerFacts
  <2>2. /\ UNCHANGED <<files, sent, best>>
        /\ \A n \in Message : dropped[n] => dropped'[n]
    BY <1>0, <1>5 DEF LiveReturns, diskVars
  <2>3. pc[Sender(m)] # "idle" /\ \E p \in Place : pc' = [pc EXCEPT ![Sender(m)] = p]
    BY <1>5 DEF LiveReturns, Errored, Goto, Place
  <2>4. \A n \in Message : pc[Sender(n)] = "idle" => pc'[Sender(n)] = "idle"
    BY <1>0, <2>1, <2>3, OwnerFacts
  <2>5. ASSUME NEW n \in Message, Accounted(n)
        PROVE  Accounted(n)'
    BY <1>0, <2>2, <2>4, <2>5 DEF Accounted
  <2> QED BY <1>0, <2>2, <2>5 DEF NeverLost
<1>6. ASSUME NEW m \in Message, ReadForUnknown(m) PROVE NeverLost'
  <2>1. Sender(m) \in Owners
    BY OwnerFacts
  <2> QED BY <1>0, OwnerFacts, <1>6, <2>1 DEF ReadForUnknown, Goto, diskVars, historyVars,
       Earned, Taken, NeverLost, Accounted
<1>7. ASSUME NEW m \in Message, MarkUnknown(m) PROVE NeverLost'
  <2>1. Sender(m) \in Owners
    BY OwnerFacts
  <2> QED BY <1>0, OwnerFacts, <1>7, <2>1 DEF MarkUnknown, Goto, WriteEntry, historyVars,
       Earned, Taken, NeverLost, Accounted
<1>8. ASSUME NEW m \in Message, NoticeReturns(m) PROVE NeverLost'
  <2>1. Sender(m) \in Owners
    BY OwnerFacts
  <2> QED BY <1>0, OwnerFacts, <1>8, <2>1 DEF NoticeReturns, Goto, Errored, diskVars, Earned,
       Taken, NeverLost, Accounted
<1>9. ASSUME NEW o \in Replayers, StartReplay(o) PROVE NeverLost'
  <2>1. o \in Owners
    BY OwnerFacts
  <2> QED BY ZenonT(60), <1>0, OwnerFacts, <1>9, <2>1 DEF StartReplay, Snapshot, Goto, historyVars,
       Earned, Taken, NeverLost, Accounted
<1>10. ASSUME NEW o \in Replayers, ClaimNext(o) PROVE NeverLost'
  <2>1. o \in Owners
    BY OwnerFacts
  <2> QED BY <1>0, OwnerFacts, <1>10, <2>1 DEF ClaimNext, Goto, diskVars, historyVars, Earned,
       Taken, NeverLost, Accounted
<1>11. ASSUME NEW o \in Replayers, Reread(o) PROVE NeverLost'
  <2>1. o \in Owners
    BY OwnerFacts
  <2> QED BY <1>0, OwnerFacts, <1>11, <2>1 DEF Reread, Goto, Finish, HoldsClaim, diskVars,
       Earned, Taken, NeverLost, Accounted
<1>12. ASSUME NEW o \in Replayers, Reconcile(o) PROVE NeverLost'
  <2>1. o \in Owners
    BY OwnerFacts
  <2> QED BY <1>0, OwnerFacts, <1>12, <2>1 DEF Reconcile, Goto, diskVars, Earned, Taken,
       NeverLost, Accounted
<1>13. ASSUME NEW o \in Replayers, ReplayReturns(o) PROVE NeverLost'
  <2>1. o \in Owners
    BY OwnerFacts
  <2>2. /\ UNCHANGED <<files, sent, best>>
        /\ \A n \in Message : dropped[n] => dropped'[n]
    BY <1>0, <1>13 DEF ReplayReturns, diskVars
  <2>3. pc[o] # "idle" /\ \E p \in Place : pc' = [pc EXCEPT ![o] = p]
    BY <1>13 DEF ReplayReturns, Errored, Goto, Place
  <2>4. \A n \in Message : pc[Sender(n)] = "idle" => pc'[Sender(n)] = "idle"
    BY <1>0, <2>1, <2>3, OwnerFacts
  <2>5. ASSUME NEW n \in Message, Accounted(n)
        PROVE  Accounted(n)'
    BY <1>0, <2>2, <2>4, <2>5 DEF Accounted
  <2> QED BY <1>0, <2>2, <2>5 DEF NeverLost
<1>14. ASSUME NEW o \in Replayers, Move(o) PROVE NeverLost'
  <2>1. o \in Owners
    BY OwnerFacts
  <2> QED BY <1>0, OwnerFacts, <1>14, <2>1 DEF Move, Finish, Goto, HoldsClaim, historyVars,
       Earned, Taken, NeverLost, Accounted
<1>15. ASSUME NEW o \in Owners, Ack(o) PROVE NeverLost'
  BY <1>0, OwnerFacts, <1>15 DEF Ack, Goto, Earned, Taken, NeverLost, Accounted
<1>16. ASSUME NEW o \in Owners, Unlink(o) PROVE NeverLost'
  BY ZenonT(60), <1>0, OwnerFacts, <1>16 DEF Unlink, Finish, Goto, HoldsClaim, historyVars, Earned, Taken,
       NeverLost, Accounted
<1>17. ASSUME NEW o \in Owners, FailRead(o) PROVE NeverLost'
  BY <1>0, OwnerFacts, <1>17 DEF FailRead, Goto, Finish, HoldsClaim, diskVars, historyVars,
       Earned, Taken, NeverLost, Accounted
<1>18. ASSUME NEW o \in Owners, FailWrite(o) PROVE NeverLost'
  BY <1>0, OwnerFacts, <1>18 DEF FailWrite, WriteEntry, Finish, Goto, HoldsClaim, historyVars,
       Earned, Taken, NeverLost, Accounted
<1>19. ASSUME NEW o \in Owners, PlatformAccepts(o) PROVE NeverLost'
  BY SMTT(30), <1>0, OwnerFacts, <1>19 DEF PlatformAccepts, Goto, diskVars, Earned, Taken, NeverLost,
       Accounted
<1>20. ASSUME OutOfTime PROVE NeverLost'
  <2>1. \A n \in Message : pc'[Sender(n)] = pc[Sender(n)]
    <3>1. todo[Boot] \subseteq Message
      BY OwnerFacts DEF Claims, TypeOK
    <3> QED BY <1>0, <1>20, <3>1, OwnerFacts DEF OutOfTime
  <2> QED BY <1>0, <1>20, <2>1 DEF OutOfTime, diskVars, NeverLost, Accounted
<1>21. ASSUME Crash PROVE NeverLost'
  BY <1>0, OwnerFacts, <1>21 DEF Crash, diskVars, Earned, Taken, NeverLost, Accounted
<1> QED BY <1>1, <1>2, <1>3, <1>4, <1>5, <1>6, <1>7, <1>8, <1>9, <1>10, <1>11, <1>12, <1>13,
     <1>14, <1>15, <1>16, <1>17, <1>18, <1>19, <1>20, <1>21 DEF Next

\* The first states satisfy the first part of the invariant.
LEMMA InitClaims == Init => Claims
<1> SUFFICES ASSUME Init PROVE Claims
  OBVIOUS
<1>0. /\ pc = [o \in Owners |-> "idle"]
      /\ files = [m \in Message |-> {}]
      /\ todo = [o \in Replayers |-> {}]
      /\ tries = [m \in Message |-> 0]
      /\ at = [o \in Owners |-> IF o \in Replayers THEN 1 ELSE o[2]]
  BY DEF Init
<1>1. \A m \in Message : at[Sender(m)] = m /\ at[Defer(m)] = m
  BY <1>0, OwnerFacts DEF Sender, Defer
<1>2. at \in [Owners -> Message]
  <2>1. 1 \in Message
    BY BoundsAssumption DEF Message
  <2>2. \A o \in Replayers : at[o] = 1
    BY <1>0, OwnerFacts
  <2>3. \A o \in Owners : at[o] \in Message
    BY <1>1, <2>1, <2>2, OwnerFacts
  <2> QED BY <1>0, <2>3
<1>3. TypeOK
  <2>1. pc \in [Owners -> Place]
    BY <1>0 DEF Place
  <2>2. held \in [Owners -> Entry] /\ entry \in [Message -> Entry]
    BY DEF Init, Fresh, Entry
  <2>3. tries \in [Message -> 0..MaxNoticeTries]
    BY <1>0, BoundsAssumption
  <2>4. sent \in [Message -> [live : Nat, replay : Nat]]
    BY DEF Init
  <2> QED BY <1>2, <2>1, <2>2, <2>3, <2>4 DEF Init, TypeOK
<1>4. Places
  <2>1. \A m \in Message : pc[Sender(m)] = "idle" /\ pc[Defer(m)] = "idle"
    BY <1>0, OwnerFacts
  <2>2. \A m \in Message : tries[m] < MaxNoticeTries
    BY <1>0, BoundsAssumption
  <2> QED BY <1>1, <2>1, <2>2 DEF Places
<1>5. Enqueued
  BY <1>0, OwnerFacts DEF Enqueued, Busy
<1>6. ClaimsHeld /\ ClaimsExclusive
  BY <1>0 DEF ClaimsHeld, ClaimsExclusive, Working, Busy
<1>7. Earned
  BY <1>0 DEF Earned
<1>8. NeverLost
  BY <1>0, OwnerFacts DEF NeverLost, Accounted
<1> QED BY <1>3, <1>4, <1>5, <1>6, <1>7, <1>8 DEF Claims

\* A stuttering step keeps both parts.
LEMMA StutterIInv ==
    ASSUME UNCHANGED vars
    PROVE  (Claims => Claims') /\ (Progress => Progress')
BY DEF vars, diskVars, ownerVars, historyVars, Claims, TypeOK, Places, Enqueued, ClaimsHeld,
       ClaimsExclusive, Working, HoldsClaim, Earned, Taken, NeverLost, Accounted, Progress,
       Live, MsgOK, WorkOK, Pending, Delivering, Trying

\* Every step preserves the first part of the invariant.
LEMMA ClaimsNext ==
    ASSUME Claims, Next
    PROVE  Claims'
BY TypeStep, PlacesStep, EnqueuedStep, ShapeOfStep, ClaimsStep, EarnedStep, NeverLostStep
   DEF Claims

-----------------------------------------------------------------------------
(* Progress                                                                *)

\* What a step of owner o may touch: its own place and what it has read, and the
\* entry and the history of its message.
Touches(o) ==
    /\ UNCHANGED <<kind, at, crashes, overrun>>
    /\ \A q \in Owners : q # o => pc'[q] = pc[q] /\ held'[q] = held[q]
    /\ \A n \in Message : n # at[o] =>
         /\ files'[n] = files[n] /\ entry'[n] = entry[n]
         /\ sent'[n] = sent[n] /\ attempts'[n] = attempts[n]
         /\ lost'[n] = lost[n] /\ acked'[n] = acked[n]

\* While the recovery keeps to its time, an owner with a claim only has to keep
\* its own message right: no other owner works on it.
LEMMA OwnMessageSuffices ==
    ASSUME Claims, Progress, ~overrun, NEW o \in Owners, pc[o] \in Busy, Touches(o),
           NEW m \in Message, m = at[o],
           kind[m] = "live" => MsgOK(m)' /\ (pc'[o] \in Busy => WorkOK(o, m)')
    PROVE  Progress'
<1>0. /\ at \in [Owners -> Message] /\ kind \in [Message -> Kinds]
      /\ Places /\ ClaimsExclusive
      /\ \A n \in Message : pc[Defer(n)] = "idle"
      /\ \A n \in Live : MsgOK(n)
      /\ \A q \in Owners : Working(q) /\ kind[at[q]] = "live" => WorkOK(q, at[q])
  BY DEF Claims, TypeOK, Progress
<1>1. \A n \in Message : o # Defer(n)
  BY <1>0 DEF Busy
<1>2. \A n \in Message : pc'[Defer(n)] = "idle"
  BY <1>0, <1>1, OwnerFacts DEF Touches
<1>3. ASSUME NEW n \in Live
      PROVE  MsgOK(n)'
  <2>1. CASE n = m
    BY <2>1 DEF Live
  <2>2. CASE n # m
    <3>1. n \in Message /\ Sender(n) \in Owners /\ Sender(n) # o
      BY <1>0, <2>2, OwnerFacts DEF Live, Places
    <3>2. /\ Delivering(n)' <=> Delivering(n)
          /\ Trying(n)' <=> Trying(n)
      BY <2>2, OwnerFacts DEF Touches, Delivering, Trying
    <3>3. MsgOK(n)
      BY <1>0
    <3> QED BY <2>2, <3>1, <3>2, <3>3 DEF Touches, MsgOK, Pending
  <2> QED BY <2>1, <2>2
<1>4. ASSUME NEW q \in Owners, Working(q)', kind'[at'[q]] = "live"
      PROVE  WorkOK(q, at[q])'
  <2>0. at' = at /\ kind' = kind
    BY DEF Touches
  <2>1. CASE q = o
    BY <1>4, <2>0, <2>1 DEF Working
  <2>2. CASE q # o
    <3>1. Working(q) /\ kind[at[q]] = "live" /\ pc'[q] = pc[q] /\ held'[q] = held[q]
      BY <1>4, <2>0, <2>2 DEF Touches, Working, HoldsClaim
    <3>2. at[q] # at[o]
      <4>1. HoldsClaim(o) \/ kind[at[o]] # "live"
        BY <1>1, OwnerFacts, ClaimFacts
      <4>2. CASE HoldsClaim(o)
        BY <1>0, <2>2, <3>1, <4>2 DEF ClaimsExclusive, Working
      <4>3. CASE kind[at[o]] # "live"
        BY <3>1, <4>3
      <4> QED BY <4>1, <4>2, <4>3
    <3>3. WorkOK(q, at[q]) /\ at[q] \in Message
      BY <1>0, <3>1
    <3> QED BY <2>0, <3>1, <3>2, <3>3 DEF Touches, WorkOK, Pending
  <2> QED BY <2>1, <2>2
<1>5. Live' = Live
  BY DEF Touches, Live
<1> QED BY <1>2, <1>3, <1>4, <1>5 DEF Progress

\* No replayer is busy with the message of a busy sender.
LEMMA SenderAlone ==
    ASSUME Claims, Progress, ~overrun, NEW m \in Message, kind[m] = "live",
           pc[Sender(m)] \in Busy, Touches(Sender(m))
    PROVE  /\ MsgOK(m) /\ WorkOK(Sender(m), m)
           /\ ~Delivering(m)' /\ ~Trying(m)'
           /\ ~Delivering(m) /\ ~Trying(m)
<1>0. /\ Places /\ ClaimsExclusive
      /\ \A n \in Live : MsgOK(n)
      /\ \A q \in Owners : Working(q) /\ kind[at[q]] = "live" => WorkOK(q, at[q])
  BY DEF Claims, Progress
<1>1. Sender(m) \in Owners /\ at[Sender(m)] = m /\ Working(Sender(m)) /\ m \in Live
  BY <1>0, OwnerFacts, ClaimFacts DEF Places, Working, Live
<1>2. ASSUME NEW r \in Replayers, at[r] = m
      PROVE  pc[r] \notin Busy
  BY <1>0, <1>1, <1>2, OwnerFacts, ClaimFacts DEF ClaimsExclusive, Working
<1>3. ~Delivering(m) /\ ~Trying(m)
  BY <1>2 DEF Delivering, Trying, Busy
<1>4. \A r \in Replayers : at'[r] = at[r] /\ pc'[r] = pc[r]
  BY <1>1, OwnerFacts DEF Touches
<1>5. ~Delivering(m)' /\ ~Trying(m)'
  BY <1>2, <1>4 DEF Delivering, Trying, Busy
<1> QED BY <1>0, <1>1, <1>3, <1>5

\* A busy replayer is the only one that delivers or tries its message.
LEMMA ReplayerAlone ==
    ASSUME Claims, Progress, ~overrun, NEW o \in Replayers, NEW m \in Message, at[o] = m,
           kind[m] = "live", pc[o] \in Busy, Touches(o)
    PROVE  /\ MsgOK(m) /\ WorkOK(o, m)
           /\ pc[Sender(m)] # "idle" /\ pc'[Sender(m)] = pc[Sender(m)]
           /\ held'[Sender(m)] = held[Sender(m)]
           /\ Delivering(m) <=> pc[o] \in {"accepted", "acking"}
           /\ Trying(m) <=> pc[o] \in {"sending", "accepted", "failing", "retrying", "acking",
                                       "moving"}
           /\ Delivering(m)' <=> pc'[o] \in {"accepted", "acking"}
           /\ Trying(m)' <=> pc'[o] \in {"sending", "accepted", "failing", "retrying",
                                         "acking", "moving"}
<1>0. /\ ClaimsExclusive /\ Enqueued
      /\ \A n \in Live : MsgOK(n)
      /\ \A q \in Owners : Working(q) /\ kind[at[q]] = "live" => WorkOK(q, at[q])
  BY DEF Claims, Progress
<1>1. o \in Owners /\ Working(o) /\ m \in Live
  BY OwnerFacts, ClaimFacts DEF Working, Live
<1>2. \A r \in Replayers : at[r] = m /\ pc[r] \in Busy => r = o
  BY <1>0, <1>1, OwnerFacts, ClaimFacts DEF ClaimsExclusive, Working
<1>3. \A r \in Replayers : at'[r] = at[r] /\ (r # o => pc'[r] = pc[r])
  BY OwnerFacts DEF Touches
<1>4. /\ Delivering(m) <=> pc[o] \in {"accepted", "acking"}
      /\ Delivering(m)' <=> pc'[o] \in {"accepted", "acking"}
  BY <1>2, <1>3 DEF Delivering, Busy
<1>5. /\ Trying(m) <=> pc[o] \in {"sending", "accepted", "failing", "retrying", "acking",
                                  "moving"}
      /\ Trying(m)' <=> pc'[o] \in {"sending", "accepted", "failing", "retrying", "acking",
                                    "moving"}
  BY <1>2, <1>3 DEF Trying, Busy
<1>6. /\ pc[Sender(m)] # "idle" /\ pc'[Sender(m)] = pc[Sender(m)]
      /\ held'[Sender(m)] = held[Sender(m)]
  BY <1>0, OwnerFacts DEF Enqueued, Touches
<1> QED BY <1>0, <1>1, <1>4, <1>5, <1>6

\* The types of what belongs to a message and its owner.
LEMMA OwnTypes ==
    ASSUME Claims, NEW o \in Owners, NEW m \in Message
    PROVE  /\ pc \in [Owners -> Place] /\ at \in [Owners -> Message]
           /\ held \in [Owners -> Entry] /\ entry \in [Message -> Entry]
           /\ held[o] \in Entry /\ entry[m] \in Entry
           /\ files \in [Message -> SUBSET File] /\ sent \in [Message -> [live : Nat, replay : Nat]]
           /\ sent[m] \in [live : Nat, replay : Nat]
           /\ lost \in [Message -> Nat] /\ attempts \in [Message -> Nat]
           /\ lost[m] \in Nat /\ attempts[m] \in Nat
           /\ acked \in [Message -> BOOLEAN] /\ crashes \in Nat /\ kind \in [Message -> Kinds]
           /\ Places
BY DEF Claims, TypeOK

\* The live sender: what it decides before the platform.
LEMMA PrepareProgress ==
    ASSUME Claims, Progress, ~overrun, NEW m \in Message, Prepare(m)
    PROVE  Progress'
<1>0. /\ Sender(m) \in Owners /\ at[Sender(m)] = m
      /\ kind[m] = "live" /\ pc[Sender(m)] \in Busy
  BY OwnerFacts, KindsAssumption DEF Prepare, Claims, TypeOK, Places, Busy
<1>1. Touches(Sender(m))
  BY <1>0, OwnTypes DEF Prepare, Goto, diskVars, Touches
<1>2. /\ MsgOK(m) /\ WorkOK(Sender(m), m)
      /\ ~Delivering(m)' /\ ~Trying(m)'
      /\ ~Delivering(m) /\ ~Trying(m)
  BY <1>0, <1>1, SenderAlone
<1>3. MsgOK(m)'
  BY <1>0, <1>1, <1>2, OwnTypes DEF Prepare, Goto, diskVars, MsgOK, WorkOK, Pending, Entry,
       Fresh, Touches
<1>4. WorkOK(Sender(m), m)'
  BY SMTT(30), <1>0, <1>2, OwnTypes, OwnerFacts DEF Prepare, Goto, diskVars, MsgOK, WorkOK, Pending,
       Entry
<1> QED BY <1>0, <1>1, <1>3, <1>4, OwnMessageSuffices

\* The start of the attempt is on disk before the platform sees the message.
LEMMA MarkStartedProgress ==
    ASSUME Claims, Progress, ~overrun, NEW m \in Message, MarkStarted(m)
    PROVE  Progress'
<1>0. /\ Sender(m) \in Owners /\ at[Sender(m)] = m
      /\ kind[m] = "live" /\ pc[Sender(m)] \in Busy
  BY OwnerFacts, KindsAssumption DEF MarkStarted, Claims, TypeOK, Places, Busy
<1>1. Touches(Sender(m))
  BY <1>0, OwnTypes DEF MarkStarted, Goto, WriteEntry, historyVars, Touches
<1>2. /\ MsgOK(m) /\ WorkOK(Sender(m), m)
      /\ ~Delivering(m)' /\ ~Trying(m)'
      /\ ~Delivering(m) /\ ~Trying(m)
  BY <1>0, <1>1, SenderAlone
<1>3. MsgOK(m)'
  BY <1>0, <1>1, <1>2, OwnTypes DEF MarkStarted, Goto, WriteEntry, historyVars, MsgOK, WorkOK,
       Pending, Entry, Fresh, Touches
<1>4. WorkOK(Sender(m), m)'
  BY <1>0, <1>2, OwnTypes, OwnerFacts DEF MarkStarted, Goto, WriteEntry, historyVars, MsgOK,
       WorkOK, Pending, Entry
<1> QED BY <1>0, <1>1, <1>3, <1>4, OwnMessageSuffices

\* The outcome of a live send.
LEMMA LiveReturnsProgress ==
    ASSUME Claims, Progress, ~overrun, NEW m \in Message, LiveReturns(m)
    PROVE  Progress'
<1>0. /\ Sender(m) \in Owners /\ at[Sender(m)] = m
      /\ kind[m] = "live" /\ pc[Sender(m)] \in Busy
  BY OwnerFacts, KindsAssumption DEF LiveReturns, Errored, Claims, TypeOK, Places, Busy
<1>1. Touches(Sender(m))
  BY <1>0, OwnTypes DEF LiveReturns, Goto, Errored, diskVars, Touches
<1>2. /\ MsgOK(m) /\ WorkOK(Sender(m), m)
      /\ ~Delivering(m)' /\ ~Trying(m)'
      /\ ~Delivering(m) /\ ~Trying(m)
  BY <1>0, <1>1, SenderAlone
<1>3. MsgOK(m)'
  BY <1>0, <1>1, <1>2, OwnTypes DEF LiveReturns, Goto, Errored, diskVars, MsgOK, WorkOK,
       Pending, Entry, Fresh, Touches
<1>4. WorkOK(Sender(m), m)'
  BY SMTT(30), <1>0, <1>2, OwnTypes, OwnerFacts DEF LiveReturns, Goto, Errored, diskVars, MsgOK, WorkOK,
       Pending, Entry
<1> QED BY <1>0, <1>1, <1>3, <1>4, OwnMessageSuffices

\* The entry is still there when its outcome is recorded.
LEMMA ReadForUnknownProgress ==
    ASSUME Claims, Progress, ~overrun, NEW m \in Message, ReadForUnknown(m)
    PROVE  Progress'
<1>0. /\ Sender(m) \in Owners /\ at[Sender(m)] = m
      /\ kind[m] = "live" /\ pc[Sender(m)] \in Busy
  BY OwnerFacts, KindsAssumption DEF ReadForUnknown, Claims, TypeOK, Places, Busy
<1>1. Touches(Sender(m))
  BY <1>0, OwnTypes DEF ReadForUnknown, Goto, diskVars, historyVars, Touches
<1>2. /\ MsgOK(m) /\ WorkOK(Sender(m), m)
      /\ ~Delivering(m)' /\ ~Trying(m)'
      /\ ~Delivering(m) /\ ~Trying(m)
  BY <1>0, <1>1, SenderAlone
<1>3. MsgOK(m)'
  BY <1>0, <1>1, <1>2, OwnTypes DEF ReadForUnknown, Goto, diskVars, historyVars, MsgOK,
       WorkOK, Pending, Entry, Fresh, Touches
<1>4. WorkOK(Sender(m), m)'
  BY <1>0, <1>2, OwnTypes, OwnerFacts DEF ReadForUnknown, Goto, diskVars, historyVars, MsgOK,
       WorkOK, Pending, Entry
<1> QED BY <1>0, <1>1, <1>3, <1>4, OwnMessageSuffices

\* Recording the outcome keeps the count of retries.
LEMMA MarkUnknownProgress ==
    ASSUME Claims, Progress, ~overrun, NEW m \in Message, MarkUnknown(m)
    PROVE  Progress'
<1>0. /\ Sender(m) \in Owners /\ at[Sender(m)] = m
      /\ kind[m] = "live" /\ pc[Sender(m)] \in Busy
  BY OwnerFacts, KindsAssumption DEF MarkUnknown, Claims, TypeOK, Places, Busy
<1>1. Touches(Sender(m))
  BY <1>0, OwnTypes DEF MarkUnknown, Goto, WriteEntry, historyVars, Touches
<1>2. /\ MsgOK(m) /\ WorkOK(Sender(m), m)
      /\ ~Delivering(m)' /\ ~Trying(m)'
      /\ ~Delivering(m) /\ ~Trying(m)
  BY <1>0, <1>1, SenderAlone
<1>3. MsgOK(m)'
  BY <1>0, <1>1, <1>2, OwnTypes DEF MarkUnknown, Goto, WriteEntry, historyVars, MsgOK, WorkOK,
       Pending, Entry, Fresh, Touches
<1>4. WorkOK(Sender(m), m)'
  BY <1>0, <1>2, OwnTypes, OwnerFacts DEF MarkUnknown, Goto, WriteEntry, historyVars, MsgOK,
       WorkOK, Pending, Entry
<1> QED BY <1>0, <1>1, <1>3, <1>4, OwnMessageSuffices

\* Only an entry without a recorded attempt is sent without asking.
LEMMA RereadProgress ==
    ASSUME Claims, Progress, ~overrun, NEW o \in Replayers, NEW m \in Message, m = at[o],
         Reread(o)
    PROVE  Progress'
<1>0. o \in Owners /\ pc[o] \in Busy
  BY OwnerFacts DEF Reread, Busy
<1>1. Touches(o)
  BY <1>0, OwnTypes DEF Reread, Goto, Finish, diskVars, Touches
<1>2. ASSUME kind[m] = "live"
      PROVE  MsgOK(m)' /\ WorkOK(o, m)'
  <2>1. /\ MsgOK(m) /\ WorkOK(o, m)
        /\ pc[Sender(m)] # "idle" /\ pc'[Sender(m)] = pc[Sender(m)]
        /\ held'[Sender(m)] = held[Sender(m)]
    BY <1>0, <1>1, <1>2, ReplayerAlone
  <2>2. /\ Delivering(m) <=> pc[o] \in {"accepted", "acking"}
        /\ Trying(m) <=> pc[o] \in {"sending", "accepted", "failing", "retrying", "acking",
             "moving"}
        /\ Delivering(m)' <=> pc'[o] \in {"accepted", "acking"}
        /\ Trying(m)' <=> pc'[o] \in {"sending", "accepted", "failing", "retrying", "acking",
             "moving"}
    BY <1>0, <1>1, <1>2, ReplayerAlone
  <2>3. MsgOK(m)'
    BY <1>0, <1>1, <2>1, <2>2, OwnTypes, BoundsAssumption DEF Reread, Goto, Finish, diskVars,
         MsgOK, WorkOK, Pending, Entry, Fresh, Touches
  <2>4. WorkOK(o, m)'
    <3>1. o # Sender(m) /\ sent[m].live \in Nat
      BY OwnerFacts, OwnTypes
    <3>2. UNCHANGED <<files, entry, sent>>
      BY <1>0, OwnTypes DEF Reread, diskVars
    <3>3. pc'[o] \in {"next", "moving", "reconciling", "sending"}
      BY <1>0, OwnTypes DEF Reread, Finish, Goto
    <3>4. pc'[o] \in {"moving", "reconciling", "sending"} => Pending(m)
      BY <1>0, OwnTypes DEF Reread, Finish, Goto, Pending
    <3>5. pc'[o] = "sending" => Pending(m) /\ entry[m].state = "none"
      BY <1>0, OwnTypes DEF Reread, Finish, Goto, Pending
    <3>6. pc'[o] = "sending" => sent[m].live = 0
      BY <2>1, <3>1, <3>5 DEF MsgOK
    <3>7. pc'[o] = "reconciling" => entry[m].retry < MaxRetries
      BY <1>0, OwnTypes DEF Reread, Finish, Goto
    <3> QED BY <3>1, <3>2, <3>3, <3>4, <3>6, <3>7 DEF WorkOK, Pending
  <2> QED BY <2>3, <2>4
<1> QED BY <1>0, <1>1, <1>2, OwnMessageSuffices

\* An entry with a recorded attempt is sent again only if it was not sent.
LEMMA ReconcileProgress ==
    ASSUME Claims, Progress, ~overrun, NEW o \in Replayers, NEW m \in Message, m = at[o],
         Reconcile(o)
    PROVE  Progress'
<1>0. o \in Owners /\ pc[o] \in Busy
  BY OwnerFacts DEF Reconcile, Busy
<1>1. Touches(o)
  BY <1>0, OwnTypes DEF Reconcile, Goto, diskVars, Touches
<1>2. ASSUME kind[m] = "live"
      PROVE  MsgOK(m)' /\ WorkOK(o, m)'
  <2>1. /\ MsgOK(m) /\ WorkOK(o, m)
        /\ pc[Sender(m)] # "idle" /\ pc'[Sender(m)] = pc[Sender(m)]
        /\ held'[Sender(m)] = held[Sender(m)]
    BY <1>0, <1>1, <1>2, ReplayerAlone
  <2>2. /\ Delivering(m) <=> pc[o] \in {"accepted", "acking"}
        /\ Trying(m) <=> pc[o] \in {"sending", "accepted", "failing", "retrying", "acking",
             "moving"}
        /\ Delivering(m)' <=> pc'[o] \in {"accepted", "acking"}
        /\ Trying(m)' <=> pc'[o] \in {"sending", "accepted", "failing", "retrying", "acking",
             "moving"}
    BY <1>0, <1>1, <1>2, ReplayerAlone
  <2>3. /\ UNCHANGED <<files, entry, held, sent, lost, acked, crashes>>
        /\ pc[o] = "reconciling"
        /\ \A n \in Message : n # m => attempts'[n] = attempts[n]
        /\ \/ pc'[o] \in {"acking", "failing", "moving"} /\ attempts' = attempts
           \/ /\ pc'[o] = "sending"
              /\ attempts'[m] = attempts[m] + 1
              /\ sent[m].live = 0
    <3>1. /\ UNCHANGED <<files, entry, held, sent, lost, acked, crashes>>
          /\ pc[o] = "reconciling"
          /\ \A n \in Message : n # m => attempts'[n] = attempts[n]
      BY <1>0, <1>1, OwnTypes DEF Reconcile, Touches, diskVars
    <3>2. ~(sent[m].live + sent[m].replay > 0) => sent[m].live = 0
      <4>1. sent[m].live \in Nat /\ sent[m].replay \in Nat
        BY <1>0, OwnTypes
      <4> QED BY <4>1
    <3>3. \/ pc'[o] \in {"acking", "failing", "moving"} /\ attempts' = attempts
          \/ /\ pc'[o] = "sending"
             /\ attempts'[m] = attempts[m] + 1
             /\ ~(sent[m].live + sent[m].replay > 0)
      BY <1>0, OwnTypes DEF Reconcile, Goto
    <3> QED BY <3>1, <3>2, <3>3
  <2>4. Pending(m) /\ attempts[m] <= entry[m].retry + crashes
    BY <2>1, <2>2, <2>3 DEF MsgOK, WorkOK
  <2>5. attempts'[m] <= MaxRetries + crashes
    <3>1. entry[m].retry \in Nat /\ attempts[m] \in Nat /\ crashes \in Nat
      BY <1>0, OwnTypes DEF Entry
    <3>2. entry[m].retry < MaxRetries
      BY <2>1, <2>3 DEF WorkOK
    <3> QED BY <2>1, <2>3, <2>4, <3>1, <3>2, BoundsAssumption DEF MsgOK
  <2>6. MsgOK(m)'
    BY <1>0, <2>1, <2>2, <2>3, <2>4, <2>5, OwnTypes, BoundsAssumption DEF MsgOK, Pending, Entry
  <2>7. WorkOK(o, m)'
    BY <1>0, <2>3, <2>4, OwnerFacts DEF WorkOK, Pending
  <2> QED BY <2>6, <2>7
<1> QED BY <1>0, <1>1, <1>2, OwnMessageSuffices

\* The outcome of a replay: a wrong error report is counted in lost.
LEMMA ReplayReturnsProgress ==
    ASSUME Claims, Progress, ~overrun, NEW o \in Replayers, NEW m \in Message, m = at[o],
         ReplayReturns(o)
    PROVE  Progress'
<1>0. o \in Owners /\ pc[o] \in Busy
  BY OwnerFacts DEF ReplayReturns, Errored, Busy
<1>1. Touches(o)
  BY <1>0, OwnTypes DEF ReplayReturns, Goto, Errored, diskVars, Touches
<1>2. ASSUME kind[m] = "live"
      PROVE  MsgOK(m)' /\ WorkOK(o, m)'
  <2>1. /\ MsgOK(m) /\ WorkOK(o, m)
        /\ pc[Sender(m)] # "idle" /\ pc'[Sender(m)] = pc[Sender(m)]
        /\ held'[Sender(m)] = held[Sender(m)]
    BY <1>0, <1>1, <1>2, ReplayerAlone
  <2>2. /\ Delivering(m) <=> pc[o] \in {"accepted", "acking"}
        /\ Trying(m) <=> pc[o] \in {"sending", "accepted", "failing", "retrying", "acking",
             "moving"}
        /\ Delivering(m)' <=> pc'[o] \in {"accepted", "acking"}
        /\ Trying(m)' <=> pc'[o] \in {"sending", "accepted", "failing", "retrying", "acking",
             "moving"}
    BY <1>0, <1>1, <1>2, ReplayerAlone
  <2>3. MsgOK(m)'
    BY <1>0, <1>1, <2>1, <2>2, OwnTypes, BoundsAssumption DEF ReplayReturns, Goto, Errored,
         diskVars, MsgOK, WorkOK, Pending, Entry, Fresh, Touches
  <2>4. WorkOK(o, m)'
    BY <1>0, <2>1, OwnTypes, OwnerFacts DEF ReplayReturns, Goto, Errored, diskVars, MsgOK,
         WorkOK, Pending, Entry, Fresh
  <2> QED BY <2>3, <2>4
<1> QED BY <1>0, <1>1, <1>2, OwnMessageSuffices

\* An entry that is given up is no longer pending.
LEMMA MoveProgress ==
    ASSUME Claims, Progress, ~overrun, NEW o \in Replayers, NEW m \in Message, m = at[o],
         Move(o)
    PROVE  Progress'
<1>0. o \in Owners /\ pc[o] \in Busy
  BY OwnerFacts DEF Move, Busy
<1>1. Touches(o)
  BY <1>0, OwnTypes DEF Move, Finish, Goto, historyVars, Touches
<1>2. ASSUME kind[m] = "live"
      PROVE  MsgOK(m)' /\ WorkOK(o, m)'
  <2>1. /\ MsgOK(m) /\ WorkOK(o, m)
        /\ pc[Sender(m)] # "idle" /\ pc'[Sender(m)] = pc[Sender(m)]
        /\ held'[Sender(m)] = held[Sender(m)]
    BY <1>0, <1>1, <1>2, ReplayerAlone
  <2>2. /\ Delivering(m) <=> pc[o] \in {"accepted", "acking"}
        /\ Trying(m) <=> pc[o] \in {"sending", "accepted", "failing", "retrying", "acking",
             "moving"}
        /\ Delivering(m)' <=> pc'[o] \in {"accepted", "acking"}
        /\ Trying(m)' <=> pc'[o] \in {"sending", "accepted", "failing", "retrying", "acking",
             "moving"}
    BY <1>0, <1>1, <1>2, ReplayerAlone
  <2>3. MsgOK(m)'
    BY <1>0, <1>1, <2>1, <2>2, OwnTypes, BoundsAssumption DEF Move, Finish, Goto, historyVars,
         MsgOK, WorkOK, Pending, Entry, Fresh, Touches
  <2>4. WorkOK(o, m)'
    BY <1>0, <2>1, OwnTypes, OwnerFacts DEF Move, Finish, Goto, historyVars, MsgOK, WorkOK,
         Pending, Entry, Fresh
  <2> QED BY <2>3, <2>4
<1> QED BY <1>0, <1>1, <1>2, OwnMessageSuffices

\* An acknowledged entry is no longer pending.
LEMMA AckProgress ==
    ASSUME Claims, Progress, ~overrun, NEW o \in Owners, NEW m \in Message, m = at[o], Ack(o)
    PROVE  Progress'
<1>0. pc[o] \in Busy
  BY DEF Ack, Busy
<1>1. Touches(o)
  BY <1>0, OwnTypes DEF Ack, Goto, Touches
<1>2. ASSUME kind[m] = "live", o \in Replayers
      PROVE  MsgOK(m)' /\ WorkOK(o, m)'
  <2>1. /\ MsgOK(m) /\ WorkOK(o, m)
        /\ pc[Sender(m)] # "idle" /\ pc'[Sender(m)] = pc[Sender(m)]
        /\ held'[Sender(m)] = held[Sender(m)]
    BY <1>0, <1>1, <1>2, ReplayerAlone
  <2>2. /\ Delivering(m) <=> pc[o] \in {"accepted", "acking"}
        /\ Trying(m) <=> pc[o] \in {"sending", "accepted", "failing", "retrying", "acking",
             "moving"}
        /\ Delivering(m)' <=> pc'[o] \in {"accepted", "acking"}
        /\ Trying(m)' <=> pc'[o] \in {"sending", "accepted", "failing", "retrying", "acking",
             "moving"}
    BY <1>0, <1>1, <1>2, ReplayerAlone
  <2>3. MsgOK(m)'
    BY <1>1, <1>2, <2>1, <2>2, OwnTypes, BoundsAssumption DEF Ack, Goto, MsgOK, WorkOK,
         Pending, Entry, Fresh, Touches
  <2>4. WorkOK(o, m)'
    BY <1>2, <2>1, OwnTypes, OwnerFacts DEF Ack, Goto, MsgOK, WorkOK, Pending, Entry, Fresh
  <2> QED BY <2>3, <2>4
<1>3. ASSUME kind[m] = "live", o = Sender(m)
      PROVE  MsgOK(m)' /\ WorkOK(o, m)'
  <2>1. /\ MsgOK(m) /\ WorkOK(o, m)
        /\ ~Delivering(m)' /\ ~Trying(m)'
        /\ ~Delivering(m) /\ ~Trying(m)
    BY <1>0, <1>1, <1>3, SenderAlone
  <2>2. o \notin Replayers
    BY <1>3, OwnerFacts
  <2>3. MsgOK(m)'
    BY <1>1, <1>3, <2>1, <2>2, OwnTypes, BoundsAssumption DEF Ack, Goto, MsgOK, WorkOK,
         Pending, Entry, Fresh, Touches
  <2>4. WorkOK(o, m)'
    BY <1>3, <2>1, <2>2, OwnTypes DEF Ack, Goto, MsgOK, WorkOK, Pending, Entry, Fresh
  <2> QED BY <2>3, <2>4
<1>4. o \in Replayers \/ o = Sender(m)
  <2>1. /\ \A n \in Message : pc[Defer(n)] = "idle" /\ at[Sender(n)] = n
    BY DEF Claims, Places, Progress
  <2> QED BY <1>0, <2>1, OwnerFacts DEF Busy
<1> QED BY <1>0, <1>1, <1>2, <1>3, <1>4, OwnMessageSuffices

\* Removing the marker frees a message that is no longer pending.
LEMMA UnlinkProgress ==
    ASSUME Claims, Progress, ~overrun, NEW o \in Owners, NEW m \in Message, m = at[o],
         Unlink(o)
    PROVE  Progress'
<1>0. pc[o] \in Busy
  BY DEF Unlink, Busy
<1>1. Touches(o)
  BY <1>0, OwnTypes DEF Unlink, Finish, Goto, historyVars, Touches
<1>2. ASSUME kind[m] = "live", o \in Replayers
      PROVE  MsgOK(m)' /\ WorkOK(o, m)'
  <2>1. /\ MsgOK(m) /\ WorkOK(o, m)
        /\ pc[Sender(m)] # "idle" /\ pc'[Sender(m)] = pc[Sender(m)]
        /\ held'[Sender(m)] = held[Sender(m)]
    BY <1>0, <1>1, <1>2, ReplayerAlone
  <2>2. /\ Delivering(m) <=> pc[o] \in {"accepted", "acking"}
        /\ Trying(m) <=> pc[o] \in {"sending", "accepted", "failing", "retrying", "acking",
             "moving"}
        /\ Delivering(m)' <=> pc'[o] \in {"accepted", "acking"}
        /\ Trying(m)' <=> pc'[o] \in {"sending", "accepted", "failing", "retrying", "acking",
             "moving"}
    BY <1>0, <1>1, <1>2, ReplayerAlone
  <2>3. MsgOK(m)'
    BY <1>1, <1>2, <2>1, <2>2, OwnTypes, BoundsAssumption DEF Unlink, Finish, Goto,
         historyVars, MsgOK, WorkOK, Pending, Entry, Fresh, Touches
  <2>4. WorkOK(o, m)'
    BY <1>2, <2>1, OwnTypes, OwnerFacts DEF Unlink, Finish, Goto, historyVars, MsgOK, WorkOK,
         Pending, Entry, Fresh
  <2> QED BY <2>3, <2>4
<1>3. ASSUME kind[m] = "live", o = Sender(m)
      PROVE  MsgOK(m)' /\ WorkOK(o, m)'
  <2>1. /\ MsgOK(m) /\ WorkOK(o, m)
        /\ ~Delivering(m)' /\ ~Trying(m)'
        /\ ~Delivering(m) /\ ~Trying(m)
    BY <1>0, <1>1, <1>3, SenderAlone
  <2>2. o \notin Replayers
    BY <1>3, OwnerFacts
  <2>3. MsgOK(m)'
    BY <1>1, <1>3, <2>1, <2>2, OwnTypes, BoundsAssumption DEF Unlink, Finish, Goto,
         historyVars, MsgOK, WorkOK, Pending, Entry, Fresh, Touches
  <2>4. WorkOK(o, m)'
    BY <1>3, <2>1, <2>2, OwnTypes DEF Unlink, Finish, Goto, historyVars, MsgOK, WorkOK,
         Pending, Entry, Fresh
  <2> QED BY <2>3, <2>4
<1>4. o \in Replayers \/ o = Sender(m)
  <2>1. /\ \A n \in Message : pc[Defer(n)] = "idle" /\ at[Sender(n)] = n
    BY DEF Claims, Places, Progress
  <2> QED BY <1>0, <2>1, OwnerFacts DEF Busy
<1> QED BY <1>0, <1>1, <1>2, <1>3, <1>4, OwnMessageSuffices

\* failDelivery has read the entry as it is on disk.
LEMMA FailReadProgress ==
    ASSUME Claims, Progress, ~overrun, NEW o \in Owners, NEW m \in Message, m = at[o],
         FailRead(o)
    PROVE  Progress'
<1>0. pc[o] \in Busy
  BY DEF FailRead, Busy
<1>1. Touches(o)
  BY <1>0, OwnTypes DEF FailRead, Goto, Finish, diskVars, historyVars, Touches
<1>2. ASSUME kind[m] = "live", o \in Replayers
      PROVE  MsgOK(m)' /\ WorkOK(o, m)'
  <2>1. /\ MsgOK(m) /\ WorkOK(o, m)
        /\ pc[Sender(m)] # "idle" /\ pc'[Sender(m)] = pc[Sender(m)]
        /\ held'[Sender(m)] = held[Sender(m)]
    BY <1>0, <1>1, <1>2, ReplayerAlone
  <2>2. /\ Delivering(m) <=> pc[o] \in {"accepted", "acking"}
        /\ Trying(m) <=> pc[o] \in {"sending", "accepted", "failing", "retrying", "acking",
             "moving"}
        /\ Delivering(m)' <=> pc'[o] \in {"accepted", "acking"}
        /\ Trying(m)' <=> pc'[o] \in {"sending", "accepted", "failing", "retrying", "acking",
             "moving"}
    BY <1>0, <1>1, <1>2, ReplayerAlone
  <2>3. MsgOK(m)'
    BY <1>1, <1>2, <2>1, <2>2, OwnTypes, BoundsAssumption DEF FailRead, Goto, Finish,
         diskVars, historyVars, MsgOK, WorkOK, Pending, Entry, Fresh, Touches
  <2>4. WorkOK(o, m)'
    BY SMTT(30), <1>2, <2>1, OwnTypes, OwnerFacts DEF FailRead, Goto, Finish, diskVars, historyVars,
         MsgOK, WorkOK, Pending, Entry, Fresh
  <2> QED BY <2>3, <2>4
<1>3. ASSUME kind[m] = "live", o = Sender(m)
      PROVE  MsgOK(m)' /\ WorkOK(o, m)'
  <2>1. /\ MsgOK(m) /\ WorkOK(o, m)
        /\ ~Delivering(m)' /\ ~Trying(m)'
        /\ ~Delivering(m) /\ ~Trying(m)
    BY <1>0, <1>1, <1>3, SenderAlone
  <2>2. o \notin Replayers
    BY <1>3, OwnerFacts
  <2>3. MsgOK(m)'
    BY <1>1, <1>3, <2>1, <2>2, OwnTypes, BoundsAssumption DEF FailRead, Goto, Finish,
         diskVars, historyVars, MsgOK, WorkOK, Pending, Entry, Fresh, Touches
  <2>4. WorkOK(o, m)'
    BY <1>3, <2>1, <2>2, OwnTypes DEF FailRead, Goto, Finish, diskVars, historyVars, MsgOK,
         WorkOK, Pending, Entry, Fresh
  <2> QED BY <2>3, <2>4
<1>4. o \in Replayers \/ o = Sender(m)
  <2>1. /\ \A n \in Message : pc[Defer(n)] = "idle" /\ at[Sender(n)] = n
    BY DEF Claims, Places, Progress
  <2> QED BY <1>0, <2>1, OwnerFacts DEF Busy
<1> QED BY <1>0, <1>1, <1>2, <1>3, <1>4, OwnMessageSuffices

\* failDelivery pays for the replay with one retry.
LEMMA FailWriteProgress ==
    ASSUME Claims, Progress, ~overrun, NEW o \in Owners, NEW m \in Message, m = at[o],
         FailWrite(o)
    PROVE  Progress'
<1>0. pc[o] \in Busy
  BY DEF FailWrite, Busy
<1>1. Touches(o)
  BY <1>0, OwnTypes DEF FailWrite, WriteEntry, Finish, Goto, historyVars, Touches
<1>2. ASSUME kind[m] = "live", o \in Replayers
      PROVE  MsgOK(m)' /\ WorkOK(o, m)'
  <2>1. /\ MsgOK(m) /\ WorkOK(o, m)
        /\ pc[Sender(m)] # "idle" /\ pc'[Sender(m)] = pc[Sender(m)]
        /\ held'[Sender(m)] = held[Sender(m)]
    BY <1>0, <1>1, <1>2, ReplayerAlone
  <2>2. /\ Delivering(m) <=> pc[o] \in {"accepted", "acking"}
        /\ Trying(m) <=> pc[o] \in {"sending", "accepted", "failing", "retrying", "acking",
             "moving"}
        /\ Delivering(m)' <=> pc'[o] \in {"accepted", "acking"}
        /\ Trying(m)' <=> pc'[o] \in {"sending", "accepted", "failing", "retrying", "acking",
             "moving"}
    BY <1>0, <1>1, <1>2, ReplayerAlone
  <2>3. MsgOK(m)'
    BY <1>1, <1>2, <2>1, <2>2, OwnTypes, BoundsAssumption DEF FailWrite, WriteEntry, Finish,
         Goto, historyVars, MsgOK, WorkOK, Pending, Entry, Fresh, Touches
  <2>4. WorkOK(o, m)'
    BY <1>2, <2>1, OwnTypes, OwnerFacts DEF FailWrite, WriteEntry, Finish, Goto, historyVars,
         MsgOK, WorkOK, Pending, Entry, Fresh
  <2> QED BY <2>3, <2>4
<1>3. ASSUME kind[m] = "live", o = Sender(m)
      PROVE  MsgOK(m)' /\ WorkOK(o, m)'
  <2>1. /\ MsgOK(m) /\ WorkOK(o, m)
        /\ ~Delivering(m)' /\ ~Trying(m)'
        /\ ~Delivering(m) /\ ~Trying(m)
    BY <1>0, <1>1, <1>3, SenderAlone
  <2>2. o \notin Replayers
    BY <1>3, OwnerFacts
  <2>3. MsgOK(m)'
    BY <1>1, <1>3, <2>1, <2>2, OwnTypes, BoundsAssumption DEF FailWrite, WriteEntry, Finish,
         Goto, historyVars, MsgOK, WorkOK, Pending, Entry, Fresh, Touches
  <2>4. WorkOK(o, m)'
    BY <1>3, <2>1, <2>2, OwnTypes DEF FailWrite, WriteEntry, Finish, Goto, historyVars, MsgOK,
         WorkOK, Pending, Entry, Fresh
  <2> QED BY <2>3, <2>4
<1>4. o \in Replayers \/ o = Sender(m)
  <2>1. /\ \A n \in Message : pc[Defer(n)] = "idle" /\ at[Sender(n)] = n
    BY DEF Claims, Places, Progress
  <2> QED BY <1>0, <2>1, OwnerFacts DEF Busy
<1> QED BY <1>0, <1>1, <1>2, <1>3, <1>4, OwnMessageSuffices

\* The platform takes a replay only of a pending entry that was not sent live.
LEMMA PlatformAcceptsProgress ==
    ASSUME Claims, Progress, ~overrun, NEW o \in Owners, NEW m \in Message, m = at[o],
         PlatformAccepts(o)
    PROVE  Progress'
<1>0. pc[o] \in Busy
  BY DEF PlatformAccepts, Busy
<1>1. Touches(o)
  BY <1>0, OwnTypes DEF PlatformAccepts, Goto, diskVars, Touches
<1>2. ASSUME kind[m] = "live", o \in Replayers
      PROVE  MsgOK(m)' /\ WorkOK(o, m)'
  <2>1. /\ MsgOK(m) /\ WorkOK(o, m)
        /\ pc[Sender(m)] # "idle" /\ pc'[Sender(m)] = pc[Sender(m)]
        /\ held'[Sender(m)] = held[Sender(m)]
    BY <1>0, <1>1, <1>2, ReplayerAlone
  <2>2. /\ Delivering(m) <=> pc[o] \in {"accepted", "acking"}
        /\ Trying(m) <=> pc[o] \in {"sending", "accepted", "failing", "retrying", "acking",
             "moving"}
        /\ Delivering(m)' <=> pc'[o] \in {"accepted", "acking"}
        /\ Trying(m)' <=> pc'[o] \in {"sending", "accepted", "failing", "retrying", "acking",
             "moving"}
    BY <1>0, <1>1, <1>2, ReplayerAlone
  <2>3. MsgOK(m)'
    BY <1>1, <1>2, <2>1, <2>2, OwnTypes, BoundsAssumption DEF PlatformAccepts, Goto, diskVars,
         MsgOK, WorkOK, Pending, Entry, Fresh, Touches
  <2>4. WorkOK(o, m)'
    BY <1>2, <2>1, OwnTypes, OwnerFacts DEF PlatformAccepts, Goto, diskVars, MsgOK, WorkOK,
         Pending, Entry, Fresh
  <2> QED BY <2>3, <2>4
<1>3. ASSUME kind[m] = "live", o = Sender(m)
      PROVE  MsgOK(m)' /\ WorkOK(o, m)'
  <2>1. /\ MsgOK(m) /\ WorkOK(o, m)
        /\ ~Delivering(m)' /\ ~Trying(m)'
        /\ ~Delivering(m) /\ ~Trying(m)
    BY <1>0, <1>1, <1>3, SenderAlone
  <2>2. o \notin Replayers
    BY <1>3, OwnerFacts
  <2>3. MsgOK(m)'
    BY <1>1, <1>3, <2>1, <2>2, OwnTypes, BoundsAssumption DEF PlatformAccepts, Goto, diskVars,
         MsgOK, WorkOK, Pending, Entry, Fresh, Touches
  <2>4. WorkOK(o, m)'
    BY <1>3, <2>1, <2>2, OwnTypes DEF PlatformAccepts, Goto, diskVars, MsgOK, WorkOK, Pending,
         Entry, Fresh
  <2> QED BY <2>3, <2>4
<1>4. o \in Replayers \/ o = Sender(m)
  <2>1. /\ \A n \in Message : pc[Defer(n)] = "idle" /\ at[Sender(n)] = n
    BY DEF Claims, Places, Progress
  <2> QED BY <1>0, <2>1, OwnerFacts DEF Busy
<1> QED BY <1>0, <1>1, <1>2, <1>3, <1>4, OwnMessageSuffices

\* Steps of owners that are not busy, and of senders of notices, leave what the
\* live messages are about as it is.
LEMMA QuietProgress ==
    ASSUME Claims, Progress, ~overrun, NEW o \in Owners,
           UNCHANGED <<kind, entry, sent, attempts, acked, crashes, overrun>>,
           \A n \in Message : Pending(n)' <=> Pending(n),
           \A n \in Live : lost'[n] = lost[n],
           \A q \in Owners : q # o => pc'[q] = pc[q] /\ at'[q] = at[q],
           held' = held,
           \/ o \in Replayers /\ pc[o] \notin Busy /\ pc'[o] \in {"idle", "next", "rereading"}
           \/ \E m \in Message : o = Sender(m) /\ at' = at /\
                \/ kind[m] # "live"
                \/ pc[o] = "written" /\ pc'[o] \in {"done", "preparing"}
    PROVE  Progress'
<1>0. /\ Places /\ at \in [Owners -> Message]
      /\ \A n \in Message : pc[Defer(n)] = "idle"
      /\ \A n \in Live : MsgOK(n)
      /\ \A q \in Owners : Working(q) /\ kind[at[q]] = "live" => WorkOK(q, at[q])
  BY DEF Claims, TypeOK, Progress
<1>1. Live' = Live
  BY DEF Live
<1>2. \A n \in Message : pc'[Defer(n)] = "idle"
  BY <1>0, OwnerFacts
<1>3. ASSUME NEW n \in Live
      PROVE  MsgOK(n)'
  <2>1. n \in Message /\ kind[n] = "live" /\ Sender(n) \in Owners
    BY OwnerFacts DEF Live
  <2>2. /\ Delivering(n)' <=> Delivering(n)
        /\ Trying(n)' <=> Trying(n)
    BY OwnerFacts DEF Delivering, Trying, Busy
  <2>3. \/ pc'[Sender(n)] = pc[Sender(n)]
        \/ pc[Sender(n)] = "written" /\ pc'[Sender(n)] \in {"done", "preparing"}
    BY <2>1, OwnerFacts
  <2>4. MsgOK(n)
    BY <1>0
  <2> QED BY <2>1, <2>2, <2>3, <2>4 DEF MsgOK
<1>4. ASSUME NEW q \in Owners, Working(q)', kind'[at'[q]] = "live"
      PROVE  WorkOK(q, at[q])'
  <2>1. CASE q # o
    <3>1. Working(q) /\ kind[at[q]] = "live" /\ pc'[q] = pc[q] /\ at'[q] = at[q]
      BY <1>4, <2>1 DEF Working, HoldsClaim
    <3>2. WorkOK(q, at[q]) /\ at[q] \in Message
      BY <1>0, <3>1
    <3> QED BY <3>1, <3>2 DEF WorkOK
  <2>2. CASE q = o
    <3>1. pc'[o] \in {"rereading", "preparing"}
      <4>1. CASE o \in Replayers
        BY <1>4, <2>2, <4>1, OwnerFacts DEF Working, Busy
      <4>2. CASE o \notin Replayers
        BY <1>0, <1>4, <2>2, <4>2 DEF Working, Busy, Places
      <4> QED BY <4>1, <4>2
    <3> QED BY <2>2, <3>1 DEF WorkOK
  <2> QED BY <2>1, <2>2
<1> QED BY <1>1, <1>2, <1>3, <1>4 DEF Progress

\* A message that is enqueued starts with an empty history.
LEMMA EnqueueProgress ==
    ASSUME Claims, Progress, ~overrun, NEW m \in Message, Enqueue(m)
    PROVE  Progress'
<1>0. /\ Places /\ Enqueued /\ at \in [Owners -> Message] /\ pc \in [Owners -> Place]
      /\ files \in [Message -> SUBSET File] /\ entry \in [Message -> Entry]
      /\ \A n \in Message : pc[Defer(n)] = "idle"
      /\ \A n \in Live : MsgOK(n)
      /\ \A q \in Owners : Working(q) /\ kind[at[q]] = "live" => WorkOK(q, at[q])
  BY DEF Claims, TypeOK, Progress
<1>1. /\ UNCHANGED <<kind, at, held, sent, attempts, lost, acked, crashes, overrun>>
      /\ pc[Sender(m)] = "idle" /\ Sender(m) \in Owners /\ at[Sender(m)] = m
      /\ \A q \in Owners : q # Sender(m) => pc'[q] = pc[q]
      /\ pc'[Sender(m)] = IF kind[m] = "live" THEN "written" ELSE "sending"
      /\ \A n \in Message : n # m => files'[n] = files[n] /\ entry'[n] = entry[n]
      /\ files'[m] = {"json"} /\ entry'[m] = Fresh
  BY <1>0, OwnerFacts DEF Enqueue, Goto, historyVars, Places
<1>2. Live' = Live
  BY <1>1 DEF Live
<1>3. \A n \in Message : pc'[Defer(n)] = "idle"
  BY <1>0, <1>1, OwnerFacts
<1>4. ASSUME NEW n \in Live
      PROVE  MsgOK(n)'
  <2>1. n \in Message /\ kind[n] = "live" /\ MsgOK(n) /\ Sender(n) \in Owners
    BY <1>0, OwnerFacts DEF Live
  <2>2. /\ Delivering(n)' <=> Delivering(n)
        /\ Trying(n)' <=> Trying(n)
    BY <1>1, OwnerFacts DEF Delivering, Trying
  <2>3. CASE n # m
    <3>1. pc'[Sender(n)] = pc[Sender(n)]
      BY <1>1, <2>1, <2>3, OwnerFacts
    <3> QED BY <1>1, <2>1, <2>2, <2>3, <3>1 DEF MsgOK, Pending
  <2>4. CASE n = m
    <3>1. sent[m].live = 0 /\ sent[m].replay = 0 /\ attempts[m] = 0 /\ ~acked[m]
          /\ held[Sender(m)].state = "none"
      BY <1>1, <2>1, <2>4 DEF MsgOK
    <3>2. pc'[Sender(m)] = "written"
      BY <1>1, <2>1, <2>4
    <3>3. lost[m] \in Nat /\ crashes \in Nat
      BY DEF Claims, TypeOK
    <3> QED BY <1>1, <2>4, <3>1, <3>2, <3>3, BoundsAssumption DEF MsgOK, Fresh
  <2> QED BY <2>3, <2>4
<1>5. ASSUME NEW q \in Owners, Working(q)', kind'[at'[q]] = "live"
      PROVE  WorkOK(q, at[q])'
  <2>1. q # Sender(m)
    BY <1>1, <1>5 DEF Working, Busy
  <2>2. Working(q) /\ kind[at[q]] = "live" /\ pc'[q] = pc[q]
    BY <1>1, <1>5, <2>1 DEF Working, HoldsClaim
  <2>3. at[q] # m
    <3>1. CASE q \in Replayers
      BY <1>0, <1>1, <2>2, <3>1 DEF Enqueued, Working
    <3>2. ASSUME NEW n \in Message, q = Sender(n)
          PROVE  at[q] # m
      BY <1>0, <2>1, <3>2 DEF Places
    <3>3. ASSUME NEW n \in Message, q = Defer(n)
          PROVE  at[q] # m
      BY <1>0, <2>2, <3>3 DEF Working, Busy
    <3> QED BY <3>1, <3>2, <3>3, OwnerFacts
  <2>4. WorkOK(q, at[q]) /\ at[q] \in Message
    BY <1>0, <2>2
  <2> QED BY <1>1, <2>2, <2>3, <2>4 DEF WorkOK, Pending
<1> QED BY <1>2, <1>3, <1>4, <1>5 DEF Progress

\* After a crash nobody is busy.
LEMMA CrashProgress ==
    ASSUME Claims, Progress, ~overrun, Crash
    PROVE  Progress'
<1>0. /\ Places /\ pc \in [Owners -> Place] /\ crashes \in Nat
      /\ attempts \in [Message -> Nat] /\ lost \in [Message -> Nat]
      /\ sent \in [Message -> [live : Nat, replay : Nat]] /\ entry \in [Message -> Entry]
      /\ \A n \in Live : MsgOK(n)
  BY DEF Claims, TypeOK, Progress
<1>1. /\ UNCHANGED <<kind, files, entry, at, sent, attempts, lost, acked, overrun>>
      /\ crashes' = crashes + 1
      /\ \A q \in Owners : pc'[q] \notin Busy /\ held'[q] = Fresh
  BY DEF Crash, diskVars, Busy
<1>2. \A n \in Message :
        /\ pc'[Sender(n)] \in {"idle", "done"}
        /\ pc'[Sender(n)] = "idle" => pc[Sender(n)] = "idle"
        /\ pc'[Defer(n)] = "idle"
  <2>1. \A n \in Message : Sender(n)[1] = "sender" /\ Defer(n)[1] = "defer"
    BY DEF Sender, Defer
  <2> QED BY <1>0, <2>1, OwnerFacts DEF Crash
<1>3. Live' = Live
  BY <1>1 DEF Live
<1>4. ASSUME NEW n \in Live
      PROVE  MsgOK(n)'
  <2>1. n \in Message /\ MsgOK(n) /\ Sender(n) \in Owners
    BY <1>0, OwnerFacts DEF Live
  <2>2. ~Delivering(n)' /\ ~Trying(n)'
    BY <1>1, OwnerFacts DEF Delivering, Trying, Busy
  <2>3. pc'[Sender(n)] = "idle" => pc[Sender(n)] = "idle"
    BY <1>2, <2>1
  <2>4. pc'[Sender(n)] \in {"idle", "done"} /\ held'[Sender(n)].state = "none"
    BY <1>1, <1>2, <2>1 DEF Fresh
  <2>5. /\ attempts[n] \in Nat /\ lost[n] \in Nat /\ sent[n].replay \in Nat
        /\ entry[n].retry \in Nat
    BY <1>0, <2>1 DEF Entry
  <2>6. Pending(n)' <=> Pending(n)
    BY <1>1 DEF Pending
  <2> QED BY <1>0, <1>1, <2>1, <2>2, <2>3, <2>4, <2>5, <2>6, BoundsAssumption DEF MsgOK
<1> QED BY <1>1, <1>2, <1>3, <1>4 DEF Progress, Working

\* The first part is inductive on its own; the second needs the first.
LEMMA ProgressNext ==
    ASSUME Claims, Progress, Next
    PROVE  Progress'
<1>0. CASE overrun'
  BY <1>0 DEF Progress
<1> SUFFICES ASSUME ~overrun' PROVE Progress'
  BY <1>0
<1>1. ~overrun
  BY DEF Next, Enqueue, ClaimLive, Prepare, MarkStarted, LiveReturns, ReadForUnknown,
         MarkUnknown, NoticeReturns, StartReplay, ClaimNext, Reread, Reconcile,
         ReplayReturns, Move, OutOfTime, Ack, Unlink, FailRead, FailWrite,
         PlatformAccepts, Crash, historyVars
<1>2. /\ Places /\ at \in [Owners -> Message] /\ pc \in [Owners -> Place]
      /\ kind \in [Message -> Kinds] /\ files \in [Message -> SUBSET File]
      /\ lost \in [Message -> Nat] /\ todo \in [Replayers -> SUBSET Message]
  BY DEF Claims, TypeOK
<1>3. ASSUME NEW m \in Message,
             Enqueue(m) \/ Prepare(m) \/ MarkStarted(m) \/ LiveReturns(m)
               \/ ReadForUnknown(m) \/ MarkUnknown(m)
      PROVE  Progress'
  BY <1>1, <1>3, EnqueueProgress, PrepareProgress, MarkStartedProgress, LiveReturnsProgress,
     ReadForUnknownProgress, MarkUnknownProgress
<1>4. ASSUME NEW m \in Message, ClaimLive(m)
      PROVE  Progress'
  <2>1. Sender(m) \in Owners
    BY OwnerFacts
  <2>2. /\ UNCHANGED <<kind, files, entry, at, held, lost, sent, attempts, acked, crashes, overrun>>
        /\ pc[Sender(m)] = "written" /\ pc'[Sender(m)] \in {"done", "preparing"}
        /\ \A q \in Owners : q # Sender(m) => pc'[q] = pc[q]
    BY <1>2, <1>4, <2>1 DEF ClaimLive, Goto, diskVars, historyVars
  <2> QED BY <1>1, <2>1, <2>2, QuietProgress DEF Pending
<1>5. ASSUME NEW m \in Message, NoticeReturns(m)
      PROVE  Progress'
  <2>1. Sender(m) \in Owners /\ at[Sender(m)] = m
    BY <1>2, OwnerFacts DEF Places
  <2>2. /\ UNCHANGED <<kind, files, entry, at, held, sent, attempts, acked, crashes, overrun>>
        /\ kind[m] = "notice"
        /\ \A n \in Message : n # m => lost'[n] = lost[n]
        /\ \A q \in Owners : q # Sender(m) => pc'[q] = pc[q]
    BY <1>2, <1>5, <2>1 DEF NoticeReturns, Errored, Goto, diskVars
  <2>3. \A n \in Live : lost'[n] = lost[n]
    BY <2>2 DEF Live
  <2> QED BY <1>1, <2>1, <2>2, <2>3, QuietProgress DEF Pending
<1>6. ASSUME NEW o \in Replayers, StartReplay(o) \/ ClaimNext(o)
      PROVE  Progress'
  <2>1. o \in Owners
    BY OwnerFacts
  <2>2. /\ UNCHANGED <<kind, entry, held, lost, sent, attempts, acked, crashes, overrun>>
        /\ pc[o] \in {"idle", "next"} /\ pc'[o] \in {"idle", "next", "rereading"}
        /\ \A q \in Owners : q # o => pc'[q] = pc[q] /\ at'[q] = at[q]
        /\ \A n \in Message : Pending(n)' <=> Pending(n)
    <3>1. CASE StartReplay(o)
      BY <1>2, <2>1, <3>1 DEF StartReplay, Snapshot, Goto, historyVars, Pending
    <3>2. CASE ClaimNext(o)
      BY <1>2, <2>1, <3>2 DEF ClaimNext, Goto, diskVars, historyVars, Pending
    <3> QED BY <1>6, <3>1, <3>2
  <2>3. pc[o] \notin Busy
    BY <2>2 DEF Busy
  <2> QED BY <1>1, <2>1, <2>2, <2>3, QuietProgress
<1>7. ASSUME NEW o \in Replayers, Reread(o) \/ Reconcile(o) \/ ReplayReturns(o) \/ Move(o)
      PROVE  Progress'
  BY <1>1, <1>2, <1>7, OwnerFacts, RereadProgress, ReconcileProgress, ReplayReturnsProgress,
     MoveProgress
<1>8. ASSUME NEW o \in Owners,
             Ack(o) \/ Unlink(o) \/ FailRead(o) \/ FailWrite(o) \/ PlatformAccepts(o)
      PROVE  Progress'
  BY <1>1, <1>2, <1>8, AckProgress, UnlinkProgress, FailReadProgress, FailWriteProgress,
     PlatformAcceptsProgress
<1>9. ~OutOfTime
  BY DEF OutOfTime
<1>10. CASE Crash
  BY <1>1, <1>10, CrashProgress
<1> QED BY <1>3, <1>4, <1>5, <1>6, <1>7, <1>8, <1>9, <1>10 DEF Next

\* The first states satisfy the second part of the invariant.
LEMMA InitProgress == Init => Progress
<1> SUFFICES ASSUME Init PROVE Progress
  OBVIOUS
<1>1. /\ \A o \in Owners : pc[o] = "idle" /\ held[o] = Fresh
      /\ \A m \in Message : /\ files[m] = {} /\ sent[m] = [live |-> 0, replay |-> 0]
                            /\ attempts[m] = 0 /\ lost[m] = 0 /\ ~acked[m]
      /\ crashes = 0
  BY DEF Init
<1>2. \A m \in Live : MsgOK(m)
  BY <1>1, OwnerFacts, BoundsAssumption DEF Live, MsgOK, Pending, Fresh
<1>3. \A o \in Owners : ~Working(o)
  BY <1>1 DEF Working, Busy
<1>4. \A m \in Message : pc[Defer(m)] = "idle"
  BY <1>1, OwnerFacts
<1> QED BY <1>2, <1>3, <1>4 DEF Progress

-----------------------------------------------------------------------------
(* The theorems                                                            *)

\* Both parts of the invariant hold in every reachable state.
THEOREM InvariantHolds == Spec => []IInv
<1>1. Init => IInv
  BY InitClaims, InitProgress DEF IInv
<1>2. IInv /\ [Next]_vars => IInv'
  BY ClaimsNext, ProgressNext, StutterIInv DEF IInv
<1> QED BY <1>1, <1>2, PTL DEF Spec

\* Every variable has its type; above all a restart notice is tried at most
\* OUTBOUND_MAX_ATTEMPTS times.
THEOREM TypeCorrect == Spec => []TypeOK
<1>1. IInv => TypeOK
  BY DEF IInv, Claims
<1> QED BY <1>1, InvariantHolds, PTL

\* A message that is not bestEffort stays on disk until it was sent or called
\* off, through every crash and every race of senders and recoveries.
THEOREM AcceptedNeverLost == Spec => []NeverLost
<1>1. IInv => NeverLost
  BY DEF IInv, Claims
<1> QED BY <1>1, InvariantHolds, PTL

\* The claims keep the live sender, the recovery and the drain from sending the
\* same message at the same time.
THEOREM ClaimsExclude == Spec => []OneSenderAtPlatform
<1>1. ASSUME IInv, NEW m \in Live
      PROVE  Cardinality({o \in Owners : at[o] = m /\ AtPlatform(o)}) <= 1
  <2> DEFINE S == {o \in Owners : at[o] = m /\ AtPlatform(o)}
  <2>0. Places /\ ClaimsExclusive /\ m \in Message /\ kind[m] = "live"
    BY <1>1 DEF IInv, Claims, Live
  <2>1. ASSUME NEW o \in S
        PROVE  Working(o)
    <3>1. \A n \in Message : o # Defer(n)
      BY <2>0, <2>1 DEF Places, AtPlatform
    <3>2. HoldsClaim(o)
      BY <2>0, <2>1, <3>1, OwnerFacts, ClaimFacts
    <3> QED BY <2>1, <3>2 DEF Working, Busy, AtPlatform
  <2>2. \A o, q \in S : o = q
    BY <2>0, <2>1 DEF ClaimsExclusive
  <2>3. CASE S = {}
    BY <2>3, FS_EmptySet
  <2>4. ASSUME NEW o \in S
        PROVE  Cardinality(S) <= 1
    <3>1. S = {o}
      BY <2>2
    <3> HIDE DEF S
    <3> QED BY <3>1, FS_Singleton
  <2> QED BY <2>3, <2>4
<1>2. IInv => OneSenderAtPlatform
  BY <1>1 DEF OneSenderAtPlatform
<1> QED BY <1>2, InvariantHolds, PTL

\* Replays of a message are explained by crashes and by wrong error reports.
THEOREM ReplaysExplained == Spec => []RepeatsExplained
<1>1. IInv => RepeatsExplained
  BY DEF IInv, Progress, MsgOK, RepeatsExplained
<1> QED BY <1>1, InvariantHolds, PTL

\* MAX_RETRIES bounds the replays of an entry, apart from crashes.
THEOREM ReplaysBoundedHolds == Spec => []ReplaysBounded
<1>1. IInv => ReplaysBounded
  BY DEF IInv, Progress, MsgOK, ReplaysBounded
<1> QED BY <1>1, InvariantHolds, PTL

\* Only the platform step of a replayer adds a replay, and then the entry is
\* there and the live sender has put nothing on the platform.
LEMMA ReplayStep ==
    ASSUME IInv, [Next]_vars, NEW m \in Live, ~overrun, sent'[m].replay # sent[m].replay
    PROVE  ~acked[m] /\ sent[m].live = 0
<1>1. m \in Message /\ kind[m] = "live"
  BY DEF Live
<1>2. sent \in [Message -> [live : Nat, replay : Nat]] /\ at \in [Owners -> Message]
  BY DEF IInv, Claims, TypeOK
<1>3. PICK o \in Owners : PlatformAccepts(o)
  BY <1>1 DEF Next, vars, Enqueue, ClaimLive, Prepare, MarkStarted, LiveReturns,
     ReadForUnknown, MarkUnknown, NoticeReturns, StartReplay, ClaimNext, Reread, Reconcile,
     ReplayReturns, Move, OutOfTime, Ack, Unlink, FailRead, FailWrite, Crash, historyVars
<1>4. at[o] = m /\ o \in Replayers /\ pc[o] = "sending"
  BY <1>1, <1>2, <1>3 DEF PlatformAccepts
<1>5. MsgOK(m) /\ WorkOK(o, m)
  BY <1>1, <1>4, ClaimFacts DEF IInv, Progress, Working, Busy
<1> QED BY <1>4, <1>5 DEF MsgOK, WorkOK

\* No stale snapshot and no leftover marker replays an acknowledged entry.
THEOREM AckIsFinal == Spec => NoReplayAfterAck
<1>1. IInv /\ [Next]_vars =>
        [\A m \in Live : acked[m] /\ ~overrun => sent'[m].replay = sent[m].replay]_vars
  BY ReplayStep
<1> QED BY <1>1, InvariantHolds, PTL DEF Spec, NoReplayAfterAck

\* What a live send has put on the platform is never replayed blindly.
THEOREM LiveSendsNeverReplayed == Spec => LiveNeverReplayed
<1>1. ASSUME IInv, [Next]_vars, NEW m \in Live, sent[m].live > 0, ~overrun
      PROVE  sent'[m].replay = sent[m].replay
  BY <1>1, ReplayStep
<1>2. IInv /\ [Next]_vars =>
        [\A m \in Live : sent[m].live > 0 /\ ~overrun => sent'[m].replay = sent[m].replay]_vars
  BY <1>1
<1> QED BY <1>2, InvariantHolds, PTL DEF Spec, LiveNeverReplayed

-----------------------------------------------------------------------------
(* The contract                                                            *)

\* Places of a sender that has put nothing on the platform yet.
Before == {"idle", "written", "preparing", "marking", "sending"}

\* A live message is sent once by its sender, and reported wrongly as often as
\* it was taken at most: less often while an answer is on its way.
Counted(m) ==
    /\ pc[Sender(m)] \in Before => sent[m].live = 0
    /\ lost[m] <= sent[m].live + sent[m].replay
    /\ (\E o \in Owners : at[o] = m /\ pc[o] = "accepted") =>
         lost[m] < sent[m].live + sent[m].replay

Counts == \A m \in Live : Counted(m)

\* A step that nothing is sent or answered in keeps the counts.
LEMMA QuietCounts ==
    ASSUME Counts, UNCHANGED <<kind, sent, lost>>,
           \A m \in Message : pc'[Sender(m)] \in Before => pc[Sender(m)] \in Before,
           \A o \in Owners : pc'[o] = "accepted" => pc[o] = "accepted" /\ at'[o] = at[o]
    PROVE  Counts'
<1>1. Live' = Live /\ \A m \in Live : m \in Message
  BY DEF Live
<1>2. ASSUME NEW m \in Live
      PROVE  Counted(m)'
  BY <1>1, <1>2 DEF Counts, Counted
<1> QED BY <1>1, <1>2 DEF Counts

\* The platform takes a copy of the owner's message.
LEMMA AcceptCounts ==
    ASSUME Claims, Counts, NEW o \in Owners, PlatformAccepts(o)
    PROVE  Counts'
<1>0. /\ pc \in [Owners -> Place] /\ at \in [Owners -> Message] /\ Places
      /\ sent \in [Message -> [live : Nat, replay : Nat]] /\ lost \in [Message -> Nat]
  BY DEF Claims, TypeOK
<1>1. Live' = Live /\ at' = at /\ lost' = lost /\ kind' = kind
  BY DEF PlatformAccepts, Live
<1>2. pc' = [pc EXCEPT ![o] = "accepted"] /\ pc[o] = "sending"
  BY DEF PlatformAccepts, Goto
<1>3. ASSUME NEW m \in Live, at[o] # m
      PROVE  Counted(m)'
  <2>1. m \in Message /\ sent'[m] = sent[m] /\ Sender(m) # o /\ Sender(m) \in Owners
    BY <1>0, <1>3, OwnerFacts DEF Live, Places, PlatformAccepts
  <2> QED BY <1>0, <1>1, <1>2, <1>3, <2>1 DEF Counts, Counted
<1>4. ASSUME NEW m \in Live, at[o] = m
      PROVE  Counted(m)'
  <2>1. m \in Message /\ Sender(m) \in Owners /\ sent[m] \in [live : Nat, replay : Nat]
    BY <1>0, OwnerFacts DEF Live
  <2>2. lost[m] <= sent[m].live + sent[m].replay /\ lost[m] \in Nat
    BY <1>0, <2>1 DEF Counts, Counted
  <2>3. CASE o \in Replayers
    <3>1. sent'[m].live = sent[m].live /\ sent'[m].replay = sent[m].replay + 1
      BY <1>0, <1>4, <2>1, <2>3 DEF PlatformAccepts
    <3>2. Sender(m) # o
      BY <2>1, <2>3, OwnerFacts
    <3> QED BY <1>0, <1>1, <1>2, <2>1, <2>2, <3>1, <3>2 DEF Counts, Counted
  <2>4. CASE o \notin Replayers
    <3>1. sent'[m].live = sent[m].live + 1 /\ sent'[m].replay = sent[m].replay
      BY <1>0, <1>4, <2>1, <2>4 DEF PlatformAccepts
    <3>2. o = Sender(m)
      BY <1>0, <1>2, <1>4, <2>4, OwnerFacts DEF Places
    <3> QED BY <1>0, <1>1, <1>2, <2>1, <2>2, <3>1, <3>2 DEF Counts, Counted, Before
  <2> QED BY <2>3, <2>4
<1> QED BY <1>1, <1>3, <1>4 DEF Counts

\* A send that returns, with or without a report of an error.
LEMMA ReturnCounts ==
    ASSUME Claims, Counts, NEW o \in Owners, NEW p \in Place \ (Before \cup {"accepted"}),
           pc' = [pc EXCEPT ![o] = p], UNCHANGED <<kind, at, sent>>,
           lost' = lost \/ (pc[o] = "accepted" /\ lost' = [lost EXCEPT ![at[o]] = @ + 1])
    PROVE  Counts'
<1>0. /\ pc \in [Owners -> Place] /\ at \in [Owners -> Message] /\ Places
      /\ sent \in [Message -> [live : Nat, replay : Nat]] /\ lost \in [Message -> Nat]
      /\ ClaimsExclusive
  BY DEF Claims, TypeOK
<1>1. /\ \A m \in Message : pc'[Sender(m)] \in Before => pc[Sender(m)] \in Before
      /\ \A q \in Owners : pc'[q] = "accepted" => pc[q] = "accepted" /\ q # o
  BY <1>0, OwnerFacts
<1>2. CASE lost' = lost
  BY <1>1, <1>2, QuietCounts
<1>3. CASE pc[o] = "accepted" /\ lost' = [lost EXCEPT ![at[o]] = @ + 1]
  <2>1. Live' = Live /\ \A m \in Live : m \in Message
    BY DEF Live
  <2>2. ASSUME NEW m \in Live, m # at[o]
        PROVE  Counted(m)'
    BY <1>0, <1>1, <1>3, <2>1, <2>2 DEF Counts, Counted
  <2>3. ASSUME NEW m \in Live, m = at[o]
        PROVE  Counted(m)'
    <3>1. \A q \in Owners : at[q] = m /\ pc[q] = "accepted" => HoldsClaim(q)
      <4>1. \A q \in Owners : at[q] = m /\ pc[q] = "accepted" => \A n \in Message : q # Defer(n)
        BY <1>0 DEF Places
      <4> QED BY <1>0, <2>1, <4>1, OwnerFacts, ClaimFacts DEF Live, Places
    <3>2. \A q \in Owners : at[q] = m /\ pc[q] = "accepted" => q = o
      BY <1>0, <1>3, <2>3, <3>1 DEF ClaimsExclusive, Working, Busy
    <3>3. lost[m] < sent[m].live + sent[m].replay /\ lost'[m] = lost[m] + 1
      BY <1>0, <1>3, <2>1, <2>3 DEF Counts, Counted
    <3>4. lost[m] \in Nat /\ sent[m].live \in Nat /\ sent[m].replay \in Nat
      BY <1>0, <2>1
    <3> QED BY <1>1, <2>1, <3>2, <3>3, <3>4 DEF Counts, Counted
  <2> QED BY <2>1, <2>2, <2>3 DEF Counts
<1> QED BY <1>2, <1>3

\* Every step keeps the counts.
LEMMA CountsNext ==
    ASSUME Claims, Counts, Next
    PROVE  Counts'
<1>0. /\ pc \in [Owners -> Place] /\ at \in [Owners -> Message] /\ Places
      /\ todo \in [Replayers -> SUBSET Message] /\ lost \in [Message -> Nat]
  BY DEF Claims, TypeOK
<1>1. ASSUME NEW m \in Message, Enqueue(m) \/ ClaimLive(m)
      PROVE  Counts'
  <2>1. UNCHANGED <<kind, sent, lost, at>> /\ pc[Sender(m)] \in Before
    BY <1>1 DEF Enqueue, ClaimLive, historyVars, Before
  <2>2. \E p \in Place \ {"accepted"} : pc' = [pc EXCEPT ![Sender(m)] = p]
    BY <1>1 DEF Enqueue, ClaimLive, Goto, Place
  <2> QED BY <1>0, <2>1, <2>2, QuietCounts, OwnerFacts
<1>2. ASSUME NEW m \in Message, Prepare(m) \/ MarkStarted(m) \/ ReadForUnknown(m) \/ MarkUnknown(m)
      PROVE  Counts'
  <2>1. UNCHANGED <<kind, sent, lost, at>>
    BY <1>2 DEF Prepare, MarkStarted, ReadForUnknown, MarkUnknown, historyVars
  <2>2. \E p \in Place \ {"accepted"} :
          pc' = [pc EXCEPT ![Sender(m)] = p] /\ (p \in Before => pc[Sender(m)] \in Before)
    BY <1>2 DEF Prepare, MarkStarted, ReadForUnknown, MarkUnknown, Goto, Place, Before
  <2> QED BY <1>0, <2>1, <2>2, QuietCounts, OwnerFacts
<1>3. ASSUME NEW m \in Message, LiveReturns(m)
      PROVE  Counts'
  <2>1. Sender(m) \in Owners /\ at[Sender(m)] = m
    BY <1>0, OwnerFacts DEF Places
  <2>2. UNCHANGED <<kind, at, sent>>
    BY <1>3 DEF LiveReturns
  <2>3. \E p \in Place \ (Before \cup {"accepted"}) : pc' = [pc EXCEPT ![Sender(m)] = p]
    BY <1>3 DEF LiveReturns, Goto, Place, Before
  <2>4. lost' = lost \/ (pc[Sender(m)] = "accepted" /\ lost' = [lost EXCEPT ![m] = @ + 1])
    BY <1>3, <2>1 DEF LiveReturns, Errored
  <2> QED BY <2>1, <2>2, <2>3, <2>4, ReturnCounts
<1>4. ASSUME NEW m \in Message, NoticeReturns(m)
      PROVE  Counts'
  <2>1. Sender(m) \in Owners /\ at[Sender(m)] = m
    BY <1>0, OwnerFacts DEF Places
  <2>2. UNCHANGED <<kind, at, sent>> /\ kind[m] = "notice"
    BY <1>4 DEF NoticeReturns
  <2>3. \E p \in Place \ {"accepted"} : pc' = [pc EXCEPT ![Sender(m)] = p]
    BY <1>4 DEF NoticeReturns, Goto, Place
  <2>4. \A n \in Live : n \in Message /\ n # m /\ lost'[n] = lost[n]
    BY <1>0, <1>4, <2>1, <2>2 DEF NoticeReturns, Errored, Live
  <2>5. ASSUME NEW n \in Live
        PROVE  Counted(n)'
    <3>1. Sender(n) # Sender(m)
      BY <2>4, OwnerFacts
    <3> QED BY <1>0, <2>1, <2>2, <2>3, <2>4, <3>1, OwnerFacts DEF Counts, Counted
  <2> QED BY <2>2, <2>5 DEF Counts, Live
<1>5. ASSUME NEW o \in Replayers, StartReplay(o) \/ Reread(o) \/ Reconcile(o) \/ Move(o)
      PROVE  Counts'
  <2>1. UNCHANGED <<kind, sent, lost, at>>
    BY <1>5 DEF StartReplay, Reread, Reconcile, Move, historyVars
  <2>2. \E p \in Place \ {"accepted"} : pc' = [pc EXCEPT ![o] = p]
    BY <1>5 DEF StartReplay, Reread, Reconcile, Move, Finish, Goto, Place
  <2> QED BY <1>0, <2>1, <2>2, QuietCounts, OwnerFacts
<1>6. ASSUME NEW o \in Replayers, ClaimNext(o)
      PROVE  Counts'
  <2>1. UNCHANGED <<kind, sent, lost>>
    BY <1>6 DEF ClaimNext, historyVars
  <2>2. /\ \A q \in Owners : q # o => pc'[q] = pc[q] /\ at'[q] = at[q]
        /\ pc'[o] # "accepted" /\ o \in Owners
    BY <1>0, <1>6, OwnerFacts DEF ClaimNext, Goto
  <2> QED BY <2>1, <2>2, QuietCounts, OwnerFacts
<1>7. ASSUME NEW o \in Replayers, ReplayReturns(o)
      PROVE  Counts'
  <2>1. UNCHANGED <<kind, at, sent>> /\ o \in Owners
    BY <1>7, OwnerFacts DEF ReplayReturns
  <2>2. \E p \in Place \ (Before \cup {"accepted"}) : pc' = [pc EXCEPT ![o] = p]
    BY <1>7 DEF ReplayReturns, Goto, Place, Before
  <2>3. lost' = lost \/ (pc[o] = "accepted" /\ lost' = [lost EXCEPT ![at[o]] = @ + 1])
    BY <1>7 DEF ReplayReturns, Errored
  <2> QED BY <2>1, <2>2, <2>3, ReturnCounts
<1>8. ASSUME OutOfTime
      PROVE  Counts'
  <2>1. UNCHANGED <<kind, sent, lost, at>>
    BY <1>8 DEF OutOfTime
  <2>2. /\ \A m \in Message : pc'[Sender(m)] = pc[Sender(m)]
        /\ \A o \in Owners : pc'[o] = "accepted" => pc[o] = "accepted"
    BY <1>0, <1>8, OwnerFacts DEF OutOfTime
  <2> QED BY <2>1, <2>2, QuietCounts
<1>9. ASSUME NEW o \in Owners, Ack(o) \/ Unlink(o) \/ FailRead(o) \/ FailWrite(o)
      PROVE  Counts'
  <2>1. UNCHANGED <<kind, sent, lost, at>>
    BY <1>9 DEF Ack, Unlink, FailRead, FailWrite, historyVars
  <2>2. \E p \in Place \ {"accepted"} :
          pc' = [pc EXCEPT ![o] = p] /\ (p \in Before => o \in Replayers)
    BY <1>9 DEF Ack, Unlink, FailRead, FailWrite, Finish, Goto, Place, Before
  <2> QED BY <1>0, <2>1, <2>2, QuietCounts, OwnerFacts
<1>10. ASSUME NEW o \in Owners, PlatformAccepts(o)
       PROVE  Counts'
  BY <1>10, AcceptCounts
<1>11. ASSUME Crash
       PROVE  Counts'
  <2>1. UNCHANGED <<kind, sent, lost, at>>
    BY <1>11 DEF Crash
  <2>2. /\ \A m \in Message : pc'[Sender(m)] \in Before => pc[Sender(m)] \in Before
        /\ \A o \in Owners : pc'[o] # "accepted"
    <3>1. \A m \in Message : Sender(m)[1] = "sender" /\ Sender(m) \in Owners
      BY OwnerFacts DEF Sender
    <3> QED BY <1>0, <1>11, <3>1 DEF Crash, Before
  <2> QED BY <2>1, <2>2, QuietCounts
<1> QED BY <1>1, <1>2, <1>3, <1>4, <1>5, <1>6, <1>7, <1>8, <1>9, <1>10, <1>11 DEF Next

\* Nothing has been sent in the first states.
LEMMA InitCounts == Init => Counts
<1> SUFFICES ASSUME Init PROVE Counts
  OBVIOUS
<1>1. /\ \A o \in Owners : pc[o] = "idle"
      /\ \A m \in Message : sent[m] = [live |-> 0, replay |-> 0] /\ lost[m] = 0
  BY DEF Init
<1> QED BY <1>1 DEF Counts, Counted, Live

\* So the counts are right in every reachable state.
LEMMA CountsHold == Spec => []Counts
<1>1. IInv /\ Counts /\ [Next]_vars => Counts'
  <2>1. Counts /\ UNCHANGED vars => Counts'
    BY DEF Counts, Counted, Live, vars, ownerVars, historyVars
  <2> QED BY <2>1, CountsNext DEF IInv
<1> QED BY <1>1, InitCounts, InvariantHolds, PTL DEF Spec

\* The contract asks less of a message whose owners may meet.
Loose(m) == kind[m] = "live" => overrun

\* An owner that goes on does not make a message new.
LEMMA SameAge ==
    ASSUME pc \in [Owners -> Place], NEW o \in Owners, NEW p \in Place,
           pc' = [pc EXCEPT ![o] = p],
           o \in Replayers \/ (pc[o] # "idle" /\ p # "idle")
    PROVE  \A m \in Message : pc'[Sender(m)] = "idle" <=> pc[Sender(m)] = "idle"
BY OwnerFacts

\* A message whose files are the same for the contract is in the same state.
LEMMA SameState ==
    ASSUME NEW m \in Message, pc'[Sender(m)] = "idle" <=> pc[Sender(m)] = "idle",
           "json" \in files'[m] <=> "json" \in files[m],
           "failed" \in files'[m] <=> "failed" \in files[m]
    PROVE  StateOf(m)' = StateOf(m)
BY DEF StateOf

\* A step that changes the state of one message only.
LEMMA StateRefines ==
    ASSUME UNCHANGED <<kind, best, sent, lost, dropped, crashes, overrun>>,
           NEW m \in Message, \A n \in Message : n # m => StateOf(n)' = StateOf(n),
           \/ StateOf(m)' = StateOf(m)
           \/ StateOf(m) = "new" /\ StateOf(m)' = "pending"
           \/ /\ StateOf(m) = "pending" /\ StateOf(m)' = "gone"
              /\ best[m] \/ dropped[m] \/ sent[m].live + sent[m].replay > 0
           \/ StateOf(m) = "pending" /\ StateOf(m)' = "failed"
           \/ Loose(m) /\ StateOf(m) \in {"failed", "gone"} /\ StateOf(m)' = "pending"
    PROVE  Contract!Next \/ UNCHANGED Contract!vars
<1> DEFINE st == [n \in Message |-> StateOf(n)]
<1>1. /\ [n \in Message |-> kind[n] = "live" /\ ~overrun]' = [n \in Message |-> kind[n] = "live" /\ ~overrun]
      /\ [n \in Message |-> sent[n].live]' = [n \in Message |-> sent[n].live]
      /\ [n \in Message |-> sent[n].replay]' = [n \in Message |-> sent[n].replay]
  OBVIOUS
<1>2. ASSUME NEW t, StateOf(m)' = t
      PROVE  st' = [st EXCEPT ![m] = t]
  BY <1>2
<1>3. CASE StateOf(m)' = StateOf(m)
  <2>1. st' = st
    BY <1>3
  <2> QED BY <1>1, <2>1 DEF Contract!vars
<1>4. ASSUME NEW from, NEW t, StateOf(m) \in from, StateOf(m)' = t
      PROVE  Contract!Goes(m, from, t)
  <2>1. st[m] \in from
    BY <1>4
  <2> HIDE DEF st
  <2> QED BY <1>1, <1>2, <1>4, <2>1 DEF Contract!Goes, st
<1>5. CASE StateOf(m) = "new" /\ StateOf(m)' = "pending"
  BY <1>4, <1>5 DEF Contract!Next, Contract!Accept
<1>6. CASE /\ StateOf(m) = "pending" /\ StateOf(m)' = "gone"
           /\ best[m] \/ dropped[m] \/ sent[m].live + sent[m].replay > 0
  <2>1. Contract!Goes(m, {"pending"}, "gone")
    BY <1>4, <1>6
  <2>2. Contract!Remove(m)
    BY <1>6, <2>1 DEF Contract!Remove, Contract!Copies
  <2> QED BY <2>2 DEF Contract!Next
<1>7. CASE StateOf(m) = "pending" /\ StateOf(m)' = "failed"
  BY <1>4, <1>7 DEF Contract!Next, Contract!SetAside
<1>8. CASE Loose(m) /\ StateOf(m) \in {"failed", "gone"} /\ StateOf(m)' = "pending"
  <2>1. Contract!Goes(m, {"failed", "gone"}, "pending")
    BY <1>4, <1>8
  <2>2. Contract!Reappear(m)
    BY <1>8, <2>1 DEF Contract!Reappear, Loose
  <2> QED BY <2>2 DEF Contract!Next
<1> QED BY <1>3, <1>5, <1>6, <1>7, <1>8

\* A step that changes no state at all.
LEMMA QuietRefines ==
    ASSUME UNCHANGED <<kind, best, sent, lost, dropped, crashes, overrun>>,
           \A m \in Message : StateOf(m)' = StateOf(m)
    PROVE  UNCHANGED Contract!vars
<1>1. /\ [n \in Message |-> kind[n] = "live" /\ ~overrun]' = [n \in Message |-> kind[n] = "live" /\ ~overrun]
      /\ [n \in Message |-> sent[n].live]' = [n \in Message |-> sent[n].live]
      /\ [n \in Message |-> sent[n].replay]' = [n \in Message |-> sent[n].replay]
      /\ [n \in Message |-> StateOf(n)]' = [n \in Message |-> StateOf(n)]
  OBVIOUS
<1> QED BY <1>1 DEF Contract!vars

\* A message is called off, or an error is reported.
LEMMA ReportRefines ==
    ASSUME UNCHANGED <<kind, best, sent, crashes, overrun>>, NEW m \in Message,
           \A n \in Message : StateOf(n)' = StateOf(n), StateOf(m) # "new",
           dropped' = dropped \/ dropped' = [dropped EXCEPT ![m] = TRUE],
           \/ lost' = lost
           \/ /\ sent[m].live + sent[m].replay > 0
              /\ ~Loose(m) => lost[m] < sent[m].live + sent[m].replay
              /\ lost' = [lost EXCEPT ![m] = @ + 1]
    PROVE  Contract!Next
<1>1. /\ [n \in Message |-> kind[n] = "live" /\ ~overrun]' = [n \in Message |-> kind[n] = "live" /\ ~overrun]
      /\ [n \in Message |-> sent[n].live]' = [n \in Message |-> sent[n].live]
      /\ [n \in Message |-> sent[n].replay]' = [n \in Message |-> sent[n].replay]
      /\ [n \in Message |-> StateOf(n)]' = [n \in Message |-> StateOf(n)]
  OBVIOUS
<1>2. Contract!Report(m)
  BY <1>1 DEF Contract!Report, Contract!Copies, Loose
<1> QED BY <1>2 DEF Contract!Next

\* The platform takes a copy: of a strict message the first one from its sender,
\* or one of an entry that is pending, with an excuse for each copy before.
LEMMA AcceptRefines ==
    ASSUME IInv, Counts, NEW o \in Owners, NEW m \in Message, m = at[o], PlatformAccepts(o)
    PROVE  Contract!Next
<1>0. /\ pc \in [Owners -> Place] /\ at \in [Owners -> Message]
      /\ sent \in [Message -> [live : Nat, replay : Nat]] /\ Places /\ Enqueued
  BY DEF IInv, Claims, TypeOK
<1>1. /\ pc[o] = "sending" /\ pc' = [pc EXCEPT ![o] = "accepted"]
      /\ UNCHANGED <<kind, best, files, lost, dropped, crashes, overrun>>
  BY DEF PlatformAccepts, Goto, diskVars
<1>2. (\A n \in Message : StateOf(n)' = StateOf(n)) /\ StateOf(m) # "new"
  <2>1. \A n \in Message : StateOf(n)' = StateOf(n)
    BY <1>0, <1>1, SameAge, SameState DEF Place
  <2>2. pc[Sender(m)] # "idle"
    <3>1. CASE o \in Replayers
      BY <1>0, <1>1, <3>1 DEF Enqueued, Busy
    <3>2. CASE o \notin Replayers
      BY <1>0, <1>1, <3>2, OwnerFacts DEF Places
    <3> QED BY <3>1, <3>2
  <2> QED BY <2>1, <2>2 DEF StateOf
<1> DEFINE st == [n \in Message |-> StateOf(n)]
           once == [n \in Message |-> sent[n].live]
           more == [n \in Message |-> sent[n].replay]
           strict == [n \in Message |-> kind[n] = "live" /\ ~overrun]
<1>3. /\ strict' = strict /\ (strict[m] => ~Loose(m))
      /\ st' = st /\ st[m] # "new"
      /\ once[m] = sent[m].live /\ more[m] = sent[m].replay
  BY <1>0, <1>1, <1>2 DEF Loose
<1>4. ASSUME o \in Replayers
      PROVE  Contract!SendAgain(m)
  <2>1. sent' = [sent EXCEPT ![m].replay = @ + 1]
    BY <1>4 DEF PlatformAccepts
  <2>2. once' = once /\ more' = [more EXCEPT ![m] = @ + 1]
    BY <1>0, <2>1
  <2>3. ~Loose(m) => Pending(m) /\ sent[m].live = 0 /\ sent[m].replay <= lost[m] + crashes
    <3> SUFFICES ASSUME kind[m] = "live", ~overrun
                 PROVE  Pending(m) /\ sent[m].live = 0 /\ sent[m].replay <= lost[m] + crashes
      BY DEF Loose
    <3>1. MsgOK(m) /\ WorkOK(o, m) /\ ClaimsExclusive
      BY <1>0, <1>1, <1>4, ClaimFacts DEF IInv, Claims, Progress, Working, Busy, Live
    <3>2. ~Delivering(m)
      BY <1>0, <1>1, <1>4, <3>1, ClaimFacts, OwnerFacts DEF Delivering, ClaimsExclusive, Working, Busy
    <3> QED BY <1>1, <1>4, <3>1, <3>2 DEF MsgOK, WorkOK
  <2>4. Pending(m) => st[m] = "pending"
    BY <1>0, <1>3 DEF StateOf, Pending
  <2>5. strict[m] => st[m] = "pending" /\ once[m] = 0 /\ more[m] <= lost[m] + crashes
    BY <1>3, <2>3, <2>4
  <2> QED BY ONLY <1>1, <1>3, <2>2, <2>5 DEF Contract!SendAgain
<1>5. ASSUME o \notin Replayers
      PROVE  Contract!Send(m)
  <2>1. sent' = [sent EXCEPT ![m].live = @ + 1]
    BY <1>5 DEF PlatformAccepts
  <2>2. once' = [once EXCEPT ![m] = @ + 1] /\ more' = more
    BY <1>0, <2>1
  <2>3. o = Sender(m)
    BY <1>0, <1>1, <1>5, OwnerFacts DEF Places
  <2>4. kind[m] = "live" => once[m] = 0
    BY <1>0, <1>1, <2>3 DEF Counts, Counted, Live, Before
  <2>5. strict[m] => once[m] = 0
    BY <1>3, <2>4 DEF Loose
  <2> QED BY ONLY <1>1, <1>3, <2>2, <2>5 DEF Contract!Send
<1> QED BY <1>0, <1>4, <1>5 DEF Contract!Next

\* The file of a message that is owned strictly is there when its owner writes.
LEMMA WritesPending ==
    ASSUME IInv, NEW o \in Owners, pc[o] \in {"marking", "recorded", "retrying"}
    PROVE  Loose(at[o]) \/ Pending(at[o])
<1> SUFFICES ASSUME kind[at[o]] = "live", ~overrun PROVE Pending(at[o])
  BY DEF Loose
<1>1. HoldsClaim(o)
  <2>1. \A m \in Message : pc[Defer(m)] = "idle" /\ at[Sender(m)] = m
    BY DEF IInv, Claims, Places, Progress
  <2> QED BY <2>1, OwnerFacts, ClaimFacts
<1>2. WorkOK(o, at[o])
  BY <1>1 DEF IInv, Progress, Working, Busy
<1> QED BY <1>2 DEF WorkOK

\* Every step is one of the contract, or changes nothing that it knows of.
LEMMA NextRefines ==
    ASSUME IInv, Counts, Next
    PROVE  Contract!Next \/ UNCHANGED Contract!vars
<1>0. /\ pc \in [Owners -> Place] /\ at \in [Owners -> Message] /\ files \in [Message -> SUBSET File]
      /\ sent \in [Message -> [live : Nat, replay : Nat]] /\ lost \in [Message -> Nat]
      /\ todo \in [Replayers -> SUBSET Message] /\ crashes \in Nat
      /\ Places /\ Enqueued /\ Earned
  BY DEF IInv, Claims, TypeOK
<1> DEFINE Same == UNCHANGED <<kind, best, sent, lost, dropped, crashes, overrun>>
<1>1. ASSUME NEW m \in Message, Enqueue(m)
      PROVE  Contract!Next \/ UNCHANGED Contract!vars
  <2>1. Sender(m) \in Owners /\ Same
    BY <1>1, OwnerFacts DEF Enqueue, historyVars
  <2>2. StateOf(m) = "new" /\ StateOf(m)' = "pending"
    BY <1>0, <1>1, <2>1 DEF Enqueue, Goto, StateOf
  <2>3. \A n \in Message : n # m => StateOf(n)' = StateOf(n)
    BY <1>0, <1>1, <2>1, OwnerFacts DEF Enqueue, Goto, StateOf
  <2> QED BY <2>1, <2>2, <2>3, StateRefines
<1>2. ASSUME NEW m \in Message, ClaimLive(m) \/ ReadForUnknown(m)
      PROVE  Contract!Next \/ UNCHANGED Contract!vars
  <2>1. Sender(m) \in Owners /\ Same /\ files' = files
    BY <1>2, OwnerFacts DEF ClaimLive, ReadForUnknown, historyVars, diskVars
  <2>2. \E p \in Place : /\ pc' = [pc EXCEPT ![Sender(m)] = p]
                         /\ pc[Sender(m)] # "idle" /\ p # "idle"
    BY <1>2 DEF ClaimLive, ReadForUnknown, Goto, Place
  <2>3. \A n \in Message : StateOf(n)' = StateOf(n)
    BY <1>0, <2>1, <2>2, SameAge, SameState
  <2> QED BY <2>1, <2>3, QuietRefines
<1>3. ASSUME NEW m \in Message, Prepare(m)
      PROVE  Contract!Next \/ UNCHANGED Contract!vars
  <2>1. /\ Sender(m) \in Owners /\ UNCHANGED <<kind, best, sent, lost, crashes, overrun, files>>
        /\ dropped' = dropped \/ dropped' = [dropped EXCEPT ![m] = TRUE]
    BY <1>3, OwnerFacts DEF Prepare, diskVars
  <2>2. \E p \in Place : /\ pc' = [pc EXCEPT ![Sender(m)] = p]
                         /\ pc[Sender(m)] # "idle" /\ p # "idle"
    BY <1>3 DEF Prepare, Goto, Place
  <2>3. (\A n \in Message : StateOf(n)' = StateOf(n)) /\ StateOf(m) # "new"
    <3>1. StateOf(m) # "new"
      BY <2>2 DEF StateOf
    <3> QED BY <1>0, <2>1, <2>2, <3>1, SameAge, SameState
  <2> QED BY <2>1, <2>3, ReportRefines
<1>4. ASSUME NEW m \in Message, MarkStarted(m) \/ MarkUnknown(m)
      PROVE  Contract!Next \/ UNCHANGED Contract!vars
  <2>1. Sender(m) \in Owners /\ Same /\ at[Sender(m)] = m
    BY <1>0, <1>4, OwnerFacts DEF MarkStarted, MarkUnknown, historyVars, Places
  <2>2. \E p \in Place : /\ pc' = [pc EXCEPT ![Sender(m)] = p]
                         /\ pc[Sender(m)] \in {"marking", "recorded"} /\ p # "idle"
    BY <1>4 DEF MarkStarted, MarkUnknown, Goto, Place
  <2>3. \A n \in Message : pc'[Sender(n)] = "idle" <=> pc[Sender(n)] = "idle"
    BY <1>0, <2>1, <2>2, SameAge
  <2>4. files' = [files EXCEPT ![m] = @ \cup {"json"}]
    BY <1>4 DEF MarkStarted, MarkUnknown, WriteEntry
  <2>5. Loose(m) \/ Pending(m)
    BY <2>1, <2>2, WritesPending
  <2> QED BY <1>0, <2>1, <2>2, <2>3, <2>4, <2>5, StateRefines DEF StateOf, Pending
<1>5. ASSUME NEW m \in Message, LiveReturns(m) \/ NoticeReturns(m)
      PROVE  Contract!Next \/ UNCHANGED Contract!vars
  <2>1. /\ Sender(m) \in Owners /\ at[Sender(m)] = m
        /\ UNCHANGED <<kind, best, sent, crashes, overrun, files>>
    BY <1>0, <1>5, OwnerFacts DEF LiveReturns, NoticeReturns, diskVars, Places
  <2>2. dropped' = dropped \/ dropped' = [dropped EXCEPT ![m] = TRUE]
    BY <1>5 DEF LiveReturns, NoticeReturns
  <2>3. \E p \in Place : /\ pc' = [pc EXCEPT ![Sender(m)] = p]
                         /\ pc[Sender(m)] \in {"sending", "accepted"} /\ p # "idle"
    BY <1>5 DEF LiveReturns, NoticeReturns, Errored, Goto, Place
  <2>4. lost' = lost \/ (pc[Sender(m)] = "accepted" /\ lost' = [lost EXCEPT ![m] = @ + 1])
    BY <1>5, <2>1 DEF LiveReturns, NoticeReturns, Errored
  <2>5. pc[Sender(m)] = "accepted" =>
          /\ sent[m].live + sent[m].replay > 0
          /\ ~Loose(m) => lost[m] < sent[m].live + sent[m].replay
    BY <1>0, <2>1 DEF Earned, Taken, Counts, Counted, Loose, Live
  <2>6. (\A n \in Message : StateOf(n)' = StateOf(n)) /\ StateOf(m) # "new"
    <3>1. StateOf(m) # "new"
      BY <2>3 DEF StateOf
    <3> QED BY <1>0, <2>1, <2>3, <3>1, SameAge, SameState
  <2> QED BY <2>1, <2>2, <2>4, <2>5, <2>6, ReportRefines
<1>6. ASSUME NEW o \in Replayers, StartReplay(o) \/ ClaimNext(o) \/ Reread(o) \/ Reconcile(o)
      PROVE  Contract!Next \/ UNCHANGED Contract!vars
  <2>1. o \in Owners /\ Same
    BY <1>6, OwnerFacts DEF StartReplay, ClaimNext, Reread, Reconcile, historyVars
  <2>2. \A n \in Message : pc'[Sender(n)] = "idle" <=> pc[Sender(n)] = "idle"
    <3>1. pc' = pc \/ \E p : pc' = [pc EXCEPT ![o] = p]
      <4>1. CASE StartReplay(o) \/ ClaimNext(o)
        BY <4>1 DEF StartReplay, ClaimNext, Goto
      <4>2. CASE Reread(o) \/ Reconcile(o)
        BY <4>2 DEF Reread, Reconcile, Finish, Goto
      <4> QED BY <1>6, <4>1, <4>2
    <3>2. \A n \in Message : Sender(n) \in Owners /\ Sender(n) # o
      BY OwnerFacts
    <3> QED BY <1>0, <3>1, <3>2
  <2>3. \A n \in Message : /\ "json" \in files'[n] <=> "json" \in files[n]
                           /\ "failed" \in files'[n] <=> "failed" \in files[n]
    BY <1>0, <1>6 DEF StartReplay, Snapshot, ClaimNext, Reread, Reconcile, diskVars
  <2> QED BY <2>1, <2>2, <2>3, SameState, QuietRefines
<1>7. ASSUME NEW o \in Replayers, ReplayReturns(o)
      PROVE  Contract!Next \/ UNCHANGED Contract!vars
  <2>0. o \in Owners /\ at[o] \in Message
    BY <1>0, OwnerFacts
  <2>1. UNCHANGED <<kind, best, sent, crashes, overrun, files>>
    BY <1>7 DEF ReplayReturns, diskVars
  <2>2. dropped' = dropped \/ dropped' = [dropped EXCEPT ![at[o]] = TRUE]
    BY <1>7 DEF ReplayReturns
  <2>3. \E p \in Place : pc' = [pc EXCEPT ![o] = p] /\ pc[o] \in {"sending", "accepted"}
    BY <1>7 DEF ReplayReturns, Errored, Goto, Place
  <2>4. lost' = lost \/ (pc[o] = "accepted" /\ lost' = [lost EXCEPT ![at[o]] = @ + 1])
    BY <1>7 DEF ReplayReturns, Errored
  <2>5. pc[o] = "accepted" =>
          /\ sent[at[o]].live + sent[at[o]].replay > 0
          /\ ~Loose(at[o]) => lost[at[o]] < sent[at[o]].live + sent[at[o]].replay
    BY <1>0, <2>0 DEF Earned, Taken, Counts, Counted, Loose, Live
  <2>6. (\A n \in Message : StateOf(n)' = StateOf(n)) /\ StateOf(at[o]) # "new"
    <3>1. StateOf(at[o]) # "new"
      BY <1>0, <2>3 DEF StateOf, Enqueued, Busy
    <3> QED BY <1>0, <2>0, <2>1, <2>3, <3>1, SameAge, SameState
  <2> QED BY <2>0, <2>1, <2>2, <2>4, <2>5, <2>6, ReportRefines
<1>8. ASSUME NEW o \in Owners, Ack(o) \/ (o \in Replayers /\ Move(o)) \/ FailWrite(o)
      PROVE  Contract!Next \/ UNCHANGED Contract!vars
  <2>1. at[o] \in Message /\ Same
    BY <1>0, <1>8 DEF Ack, Move, FailWrite, historyVars
  <2>2. /\ pc[o] \in Busy
        /\ \E p \in Place : /\ pc' = [pc EXCEPT ![o] = p]
                            /\ o \in Replayers \/ (pc[o] # "idle" /\ p # "idle")
    BY <1>8 DEF Ack, Move, FailWrite, Finish, Goto, Place, Busy
  <2>3. \A n \in Message : pc'[Sender(n)] = "idle" <=> pc[Sender(n)] = "idle"
    BY <1>0, <2>2, SameAge
  <2>4. \A n \in Message : n # at[o] => StateOf(n)' = StateOf(n)
    BY <1>0, <1>8, <2>1, <2>3 DEF Ack, Move, FailWrite, WriteEntry, StateOf
  <2>5. pc[Sender(at[o])] # "idle"
    <3>1. CASE o \in Replayers
      BY <1>0, <2>2, <3>1 DEF Enqueued
    <3>2. CASE o \notin Replayers
      BY <1>0, <2>2, <3>2, OwnerFacts DEF Enqueued, Places, Busy
    <3> QED BY <3>1, <3>2
  <2>6. CASE Ack(o)
    <3>1. best[at[o]] \/ dropped[at[o]] \/ sent[at[o]].live + sent[at[o]].replay > 0
      BY <1>0, <2>6 DEF Ack, Earned, Taken
    <3> QED BY <1>0, <2>1, <2>3, <2>4, <2>5, <2>6, <3>1, StateRefines DEF Ack, StateOf
  <2>7. CASE o \in Replayers /\ Move(o)
    BY <1>0, <2>1, <2>3, <2>4, <2>5, <2>7, StateRefines DEF Move, StateOf
  <2>8. CASE FailWrite(o)
    <3>1. Loose(at[o]) \/ Pending(at[o])
      BY <2>8, WritesPending DEF FailWrite
    <3> QED BY <1>0, <2>1, <2>3, <2>4, <2>5, <2>8, <3>1, StateRefines
         DEF FailWrite, WriteEntry, StateOf, Pending
  <2> QED BY <1>8, <2>6, <2>7, <2>8
<1>9. ASSUME NEW o \in Owners, Unlink(o) \/ FailRead(o)
      PROVE  Contract!Next \/ UNCHANGED Contract!vars
  <2>1. Same
    BY <1>9 DEF Unlink, FailRead, historyVars
  <2>2. \E p \in Place : /\ pc' = [pc EXCEPT ![o] = p]
                         /\ o \in Replayers \/ (pc[o] # "idle" /\ p # "idle")
    BY <1>9 DEF Unlink, FailRead, Finish, Goto, Place
  <2>3. \A n \in Message : pc'[Sender(n)] = "idle" <=> pc[Sender(n)] = "idle"
    BY <1>0, <2>2, SameAge
  <2>4. \A n \in Message : /\ "json" \in files'[n] <=> "json" \in files[n]
                           /\ "failed" \in files'[n] <=> "failed" \in files[n]
    BY <1>0, <1>9 DEF Unlink, FailRead, diskVars
  <2> QED BY <2>1, <2>3, <2>4, SameState, QuietRefines
<1>10. ASSUME NEW o \in Owners, PlatformAccepts(o)
       PROVE  Contract!Next
  BY <1>0, <1>10, AcceptRefines
<1>11. ASSUME OutOfTime
       PROVE  Contract!Next
  <2>1. UNCHANGED <<kind, best, sent, lost, dropped, crashes, files>> /\ overrun'
    BY <1>11 DEF OutOfTime, diskVars
  <2>2. \A n \in Message : StateOf(n)' = StateOf(n)
    <3>1. \A n \in Message : pc'[Sender(n)] = pc[Sender(n)]
      <4>1. ASSUME NEW n \in Message
            PROVE  /\ Sender(n) \in Owners /\ Sender(n) # Boot
                   /\ ~\E m \in Message : Sender(n) = Defer(m)
        BY OwnerFacts
      <4>2. todo[Boot] \subseteq Message
        BY <1>0, OwnerFacts
      <4>3. pc' = [o \in Owners |->
                     IF \E m \in todo[Boot] : o = Defer(m) THEN "failing"
                     ELSE IF o = Boot THEN "idle" ELSE pc[o]]
        BY <1>11 DEF OutOfTime
      <4> QED BY <4>1, <4>2, <4>3
    <3> QED BY <2>1, <3>1 DEF StateOf
  <2>3. /\ [n \in Message |-> kind[n] = "live" /\ ~overrun]' = [n \in Message |-> FALSE]
        /\ [n \in Message |-> sent[n].live]' = [n \in Message |-> sent[n].live]
        /\ [n \in Message |-> sent[n].replay]' = [n \in Message |-> sent[n].replay]
        /\ [n \in Message |-> StateOf(n)]' = [n \in Message |-> StateOf(n)]
    BY <2>1, <2>2
  <2>4. Contract!Relax
    BY <2>1, <2>3 DEF Contract!Relax
  <2> QED BY <2>4 DEF Contract!Next
<1>12. ASSUME Crash
       PROVE  Contract!Next
  <2>1. UNCHANGED <<kind, best, sent, lost, dropped, overrun, files>> /\ crashes' = crashes + 1
    BY <1>12 DEF Crash, diskVars
  <2>2. \A n \in Message : StateOf(n)' = StateOf(n)
    <3>1. \A n \in Message : Sender(n)[1] = "sender" /\ Sender(n) \in Owners
      BY OwnerFacts DEF Sender
    <3>2. \A n \in Message : pc'[Sender(n)] = "idle" <=> pc[Sender(n)] = "idle"
      BY <1>0, <1>12, <3>1 DEF Crash
    <3> QED BY <2>1, <3>2 DEF StateOf
  <2>3. /\ [n \in Message |-> kind[n] = "live" /\ ~overrun]' = [n \in Message |-> kind[n] = "live" /\ ~overrun]
        /\ [n \in Message |-> sent[n].live]' = [n \in Message |-> sent[n].live]
        /\ [n \in Message |-> sent[n].replay]' = [n \in Message |-> sent[n].replay]
        /\ [n \in Message |-> StateOf(n)]' = [n \in Message |-> StateOf(n)]
    BY <2>1, <2>2
  <2>4. Contract!Crash
    BY <2>1, <2>3 DEF Contract!Crash
  <2> QED BY <2>4 DEF Contract!Next
<1> QED BY <1>1, <1>2, <1>3, <1>4, <1>5, <1>6, <1>7, <1>8, <1>9, <1>10, <1>11, <1>12, OwnerFacts
     DEF Next

\* The first states are those of the contract.
LEMMA InitRefines == Init => Contract!Init
<1> SUFFICES ASSUME Init PROVE Contract!Init
  OBVIOUS
<1>1. \A m \in Message : StateOf(m) = "new" /\ sent[m] = [live |-> 0, replay |-> 0]
  BY OwnerFacts DEF Init, StateOf
<1>2. /\ [m \in Message |-> StateOf(m)] = [m \in Message |-> "new"]
      /\ [m \in Message |-> sent[m].live] = [m \in Message |-> 0]
      /\ [m \in Message |-> sent[m].replay] = [m \in Message |-> 0]
      /\ [m \in Message |-> kind[m] = "live" /\ ~overrun] \in [Message -> BOOLEAN]
  BY <1>1
<1> QED BY <1>2 DEF Init, Contract!Init

\* Whatever the interleaving of senders, recovery, drain, deferral and crashes,
\* the queue does to a message only what the contract of the outbox allows.
THEOREM ContractImplemented == Spec => ContractHonoured
<1>1. IInv /\ Counts /\ [Next]_vars => [Contract!Next]_(Contract!vars)
  <2>1. UNCHANGED vars => UNCHANGED Contract!vars
    <3> SUFFICES ASSUME UNCHANGED vars PROVE UNCHANGED Contract!vars
      OBVIOUS
    <3>1. UNCHANGED <<kind, best, sent, lost, dropped, crashes, overrun, pc, files>>
      BY DEF vars, diskVars, ownerVars, historyVars
    <3>2. \A m \in Message : StateOf(m)' = StateOf(m)
      BY <3>1 DEF StateOf
    <3> QED BY <3>1, <3>2, QuietRefines
  <2> QED BY <2>1, NextRefines
<1> QED BY <1>1, InitRefines, InvariantHolds, CountsHold, PTL DEF Spec, ContractHonoured, Contract!Spec

\* What the contract says of one message, step by step.
Excused(m) ==
    /\ StateOf(m) = "gone" => best[m] \/ dropped[m] \/ sent[m].live + sent[m].replay > 0
    /\ kind[m] = "live" /\ ~overrun => sent[m].replay <= 1 + lost[m] + crashes

\* A step of the contract keeps a message excused, and replays no message that
\* its sender has sent.
LEMMA ContractStep ==
    ASSUME TypeOK, TypeOK', Contract!Next, NEW m \in Message, Excused(m)
    PROVE  /\ Excused(m)'
           /\ kind[m] = "live" /\ ~overrun /\ sent[m].live > 0 => sent'[m].replay = sent[m].replay
<1> DEFINE st == [n \in Message |-> StateOf(n)]
           strict == [n \in Message |-> kind[n] = "live" /\ ~overrun]
           once == [n \in Message |-> sent[n].live]
           more == [n \in Message |-> sent[n].replay]
           OK(s, b, f, o, r, w, c, t) ==
               /\ s = "gone" => b \/ f \/ o + r > 0
               /\ t => r <= 1 + w + c
<1>1. /\ st[m] = StateOf(m) /\ strict[m] = (kind[m] = "live" /\ ~overrun)
      /\ once[m] = sent[m].live /\ more[m] = sent[m].replay
      /\ st'[m] = StateOf(m)' /\ strict'[m] = (kind'[m] = "live" /\ ~overrun')
      /\ once'[m] = sent'[m].live /\ more'[m] = sent'[m].replay
  OBVIOUS
<1>2. /\ once[m] \in Nat /\ more[m] \in Nat /\ lost[m] \in Nat /\ crashes \in Nat
      /\ once'[m] \in Nat /\ more'[m] \in Nat /\ lost'[m] \in Nat /\ crashes' \in Nat
      /\ best \in [Message -> BOOLEAN] /\ dropped \in [Message -> BOOLEAN]
      /\ lost \in [Message -> Nat]
  BY <1>1 DEF TypeOK
<1>3. OK(st[m], best[m], dropped[m], once[m], more[m], lost[m], crashes, strict[m])
  BY <1>1 DEF Excused
<1> DEFINE Good == /\ OK(st'[m], best'[m], dropped'[m], once'[m], more'[m], lost'[m], crashes', strict'[m])
                   /\ strict[m] /\ once[m] > 0 => more'[m] = more[m]
<1>4. /\ DOMAIN st = Message /\ DOMAIN once = Message /\ DOMAIN more = Message
  OBVIOUS
<1>5. ASSUME NEW n \in Message, Contract!Accept(n) \/ Contract!Remove(n) \/ Contract!SetAside(n) \/ Contract!Reappear(n)
      PROVE  Good
  <2>1. /\ UNCHANGED <<strict, best, dropped, once, more, lost, crashes>>
        /\ \E from, t : st' = [st EXCEPT ![n] = t] /\ (t = "gone" => best[n] \/ dropped[n] \/ once[n] + more[n] > 0)
    BY <1>5 DEF Contract!Accept, Contract!Remove, Contract!SetAside, Contract!Reappear, Contract!Goes,
         Contract!Copies
  <2> HIDE DEF st, once, more, strict
  <2> QED BY <1>2, <1>3, <1>4, <2>1
<1>6. ASSUME NEW n \in Message, Contract!Send(n)
      PROVE  Good
  <2>1. UNCHANGED <<st, strict, best, dropped, more, lost, crashes>> /\ once' = [once EXCEPT ![n] = @ + 1]
    BY <1>6 DEF Contract!Send
  <2> HIDE DEF st, once, more, strict
  <2> QED BY <1>2, <1>3, <1>4, <2>1
<1>7. ASSUME NEW n \in Message, Contract!SendAgain(n)
      PROVE  Good
  <2>1. /\ UNCHANGED <<st, strict, best, dropped, once, lost, crashes>> /\ more' = [more EXCEPT ![n] = @ + 1]
        /\ strict[n] => once[n] = 0 /\ more[n] <= lost[n] + crashes
    BY <1>7 DEF Contract!SendAgain
  <2> HIDE DEF st, once, more, strict
  <2> QED BY <1>2, <1>3, <1>4, <2>1
<1>8. ASSUME NEW n \in Message, Contract!Report(n)
      PROVE  Good
  <2>1. /\ UNCHANGED <<st, strict, best, once, more, crashes>>
        /\ dropped' = dropped \/ dropped' = [dropped EXCEPT ![n] = TRUE]
        /\ lost' = lost \/ lost' = [lost EXCEPT ![n] = @ + 1]
    BY <1>8 DEF Contract!Report
  <2> HIDE DEF st, once, more, strict
  <2> QED BY <1>2, <1>3, <1>4, <2>1
<1>9. ASSUME Contract!Relax
      PROVE  Good
  <2>1. UNCHANGED <<st, best, dropped, once, more, lost, crashes>> /\ strict' = [n \in Message |-> FALSE]
    BY <1>9 DEF Contract!Relax
  <2>2. ~strict'[m]
    BY <2>1
  <2> HIDE DEF st, once, more, strict
  <2> QED BY <1>2, <1>3, <2>1, <2>2
<1>10. ASSUME Contract!Crash
       PROVE  Good
  <2>1. UNCHANGED <<st, strict, best, dropped, once, more, lost>> /\ crashes' = crashes + 1
    BY <1>10 DEF Contract!Crash
  <2> HIDE DEF st, once, more, strict
  <2> QED BY <1>2, <1>3, <2>1
<1>11. Good
  BY <1>5, <1>6, <1>7, <1>8, <1>9, <1>10 DEF Contract!Next
<1> QED BY <1>1, <1>11 DEF Excused

\* The contract is not empty: it alone, without a look at files, claims and
\* owners, implies that nothing is lost, that repetitions are explained and that
\* a live send is never replayed.
THEOREM ContractSuffices ==
    []TypeOK /\ ContractHonoured => []NeverLost /\ []RepeatsExplained /\ LiveNeverReplayed
<1> DEFINE Inv == \A m \in Message : Excused(m)
<1>1. TypeOK /\ Contract!Init => Inv
  <2> SUFFICES ASSUME TypeOK, Contract!Init, NEW m \in Message
               PROVE  Excused(m)
    OBVIOUS
  <2>1. /\ [n \in Message |-> StateOf(n)][m] = "new" /\ [n \in Message |-> sent[n].replay][m] = 0
        /\ lost[m] = 0 /\ crashes = 0
    BY DEF Contract!Init
  <2> QED BY <2>1 DEF Excused
<1>2. TypeOK /\ TypeOK' /\ Inv /\ [Contract!Next]_(Contract!vars) =>
        Inv' /\ [\A m \in Live : sent[m].live > 0 /\ ~overrun => sent'[m].replay = sent[m].replay]_vars
  <2> SUFFICES ASSUME TypeOK, TypeOK', Inv, [Contract!Next]_(Contract!vars)
               PROVE  Inv' /\ \A m \in Live : sent[m].live > 0 /\ ~overrun => sent'[m].replay = sent[m].replay
    OBVIOUS
  <2>1. CASE Contract!Next
    BY <2>1, ContractStep DEF Live
  <2>2. CASE UNCHANGED Contract!vars
    <3>1. /\ [n \in Message |-> StateOf(n)]' = [n \in Message |-> StateOf(n)]
          /\ [n \in Message |-> kind[n] = "live" /\ ~overrun]' = [n \in Message |-> kind[n] = "live" /\ ~overrun]
          /\ [n \in Message |-> sent[n].live]' = [n \in Message |-> sent[n].live]
          /\ [n \in Message |-> sent[n].replay]' = [n \in Message |-> sent[n].replay]
          /\ UNCHANGED <<best, dropped, lost, crashes>>
      BY <2>2 DEF Contract!vars
    <3>2. ASSUME NEW m \in Message
          PROVE  /\ StateOf(m)' = StateOf(m) /\ sent'[m].live = sent[m].live /\ sent'[m].replay = sent[m].replay
                 /\ (kind'[m] = "live" /\ ~overrun') = (kind[m] = "live" /\ ~overrun)
      <4>1. /\ [n \in Message |-> StateOf(n)]'[m] = [n \in Message |-> StateOf(n)][m]
            /\ [n \in Message |-> kind[n] = "live" /\ ~overrun]'[m] = [n \in Message |-> kind[n] = "live" /\ ~overrun][m]
            /\ [n \in Message |-> sent[n].live]'[m] = [n \in Message |-> sent[n].live][m]
            /\ [n \in Message |-> sent[n].replay]'[m] = [n \in Message |-> sent[n].replay][m]
        BY ONLY <3>1
      <4> QED BY <4>1
    <3> QED BY <3>1, <3>2 DEF Excused, Live
  <2> QED BY <2>1, <2>2
<1>3. Inv => NeverLost /\ RepeatsExplained
  BY DEF Excused, NeverLost, Accounted, StateOf, RepeatsExplained, Live
<1> QED BY <1>1, <1>2, <1>3, PTL DEF ContractHonoured, Contract!Spec, LiveNeverReplayed

=============================================================================
