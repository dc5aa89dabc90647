---------------------------- MODULE DeliveryQueue ----------------------------
(***************************************************************************)
(* The outbound delivery queue of the OpenClaw gateway                     *)
(* (openclaw/src/infra/outbound/delivery-queue-*.ts and deliver.ts): a     *)
(* message is written to disk before it is sent and removed when it is     *)
(* done; what a crash leaves behind is sent again by the startup recovery  *)
(* and by the drain of a channel that reconnects.                          *)
(*                                                                         *)
(* An owner is one run of that code: the sender that accepted a message,   *)
(* the startup recovery, a reconnect drain, or one failDelivery call of    *)
(* the recovery that ran out of time.  Every await is a place between two  *)
(* actions; the files survive a crash, everything else is lost.  Files are *)
(* replaced and renamed atomically, and a write fails only by a crash.     *)
(* The messages are those of one account, numbered in the order of         *)
(* enqueuedAt, so that the drain matches every entry.                      *)
(***************************************************************************)
EXTENDS Integers, FiniteSets

CONSTANTS
    MaxMessages,     \* bound: calls of enqueueDelivery
    MaxRetries,      \* MAX_RETRIES
    MaxNoticeTries,  \* OUTBOUND_MAX_ATTEMPTS
    MaxCrashes,      \* bound: restarts of the gateway
    Kinds            \* which code accepts the messages

ASSUME BoundsAssumption ==
    /\ MaxMessages \in Nat \ {0}
    /\ MaxRetries \in Nat
    /\ MaxNoticeTries \in Nat \ {0}
    /\ MaxCrashes \in Nat
ASSUME KindsAssumption == Kinds \subseteq {"live", "notice"}

Message   == 1..MaxMessages
Sender(m) == <<"sender", m>>
Defer(m)  == <<"defer", m>>
Boot      == <<"boot", 0>>
Drain     == <<"drain", 0>>
Replayers == {Boot, Drain}
Owners    == {Sender(m) : m \in Message} \cup {Defer(m) : m \in Message} \cup Replayers

Entry == [retry : Nat, state : {"none", "started", "unknown"}]
Fresh == [retry |-> 0, state |-> "none"]
File  == {"json", "delivered", "failed"}
Place == {"idle", "written", "preparing", "marking", "sending", "accepted", "recording",
          "recorded", "acking", "unlinking", "failing", "retrying", "moving", "next",
          "rereading", "reconciling", "done"}

VARIABLES
    kind,      \* [Message -> Kinds]: sent by deliver.ts, or a restart notice
    best,      \* [Message -> BOOLEAN]: bestEffort, stored with the entry
    files,     \* [Message -> SUBSET File]: {id}.json, {id}.delivered, failed/{id}.json
    entry,     \* [Message -> Entry]: what {id}.json says
    claimed,   \* entriesInProgress
    pc,        \* [Owners -> Place]
    at,        \* [Owners -> Message]: the message an owner works on
    held,      \* [Owners -> Entry]: the entry an owner read last
    todo,      \* [Replayers -> SUBSET Message]: the rest of its snapshot
    tries,     \* [Message -> 0..MaxNoticeTries]: attempts of the restart notice
    booted,    \* the startup recovery has run since the last restart
    crashes,   \* restarts so far
    sent,      \* [Message -> [by sender and by replay -> Nat]]: the platform took it
    attempts,  \* [Message -> Nat]: replays begun
    lost,      \* [Message -> Nat]: taken by the platform, reported as an error
    dropped,   \* [Message -> BOOLEAN]: aborted, or cancelled by a hook
    acked,     \* [Message -> BOOLEAN]: ackDelivery has renamed its file
    overrun    \* the recovery has run out of time and deferred entries

diskVars    == <<files, entry>>
ownerVars   == <<claimed, pc, at, held, todo, tries, booted>>
historyVars == <<crashes, sent, attempts, lost, dropped, acked, overrun>>
vars        == <<kind, best, diskVars, ownerVars, historyVars>>

Live == {m \in Message : kind[m] = "live"}

Init ==
    /\ kind \in [Message -> Kinds]
    /\ best \in [Message -> BOOLEAN]
    /\ \A m \in Message : kind[m] = "notice" => ~best[m]
    /\ files = [m \in Message |-> {}]
    /\ entry = [m \in Message |-> Fresh]
    /\ claimed = {}
    /\ pc = [o \in Owners |-> "idle"]
    /\ at = [o \in Owners |-> IF o \in Replayers THEN 1 ELSE o[2]]
    /\ held = [o \in Owners |-> Fresh]
    /\ todo = [o \in Replayers |-> {}]
    /\ tries = [m \in Message |-> 0]
    /\ booted = FALSE
    /\ crashes = 0
    /\ sent = [m \in Message |-> [live |-> 0, replay |-> 0]]
    /\ attempts = [m \in Message |-> 0]
    /\ lost = [m \in Message |-> 0]
    /\ dropped = [m \in Message |-> FALSE]
    /\ acked = [m \in Message |-> FALSE]
    /\ overrun = FALSE

-----------------------------------------------------------------------------
(* Common steps of the owners                                              *)

Goto(o, p) == pc' = [pc EXCEPT ![o] = p]

\* A sender of a notice and a deferral hold no claim.
HoldsClaim(o) == o \in Replayers \/ (o[1] = "sender" /\ kind[at[o]] = "live")

\* The owner is done with its message; the claim goes in the finally block, and
\* what was read of the entry was a local variable.
Finish(o) ==
    /\ held' = [held EXCEPT ![o] = Fresh]
    /\ Goto(o, IF o \in Replayers THEN "next" ELSE "done")
    /\ claimed' = IF HoldsClaim(o) THEN claimed \ {at[o]} ELSE claimed

\* enqueueDelivery: the write-ahead entry.
Enqueue(m) ==
    /\ pc[Sender(m)] = "idle"
    /\ \A i \in Message : i < m => pc[Sender(i)] # "idle"
    /\ files' = [files EXCEPT ![m] = {"json"}]
    /\ entry' = [entry EXCEPT ![m] = Fresh]
    /\ Goto(Sender(m), IF kind[m] = "live" THEN "written" ELSE "sending")
    /\ UNCHANGED <<kind, best, claimed, at, held, todo, tries, booted, historyVars>>

\* ackDelivery, first phase: rename the entry to its marker.
Ack(o) ==
    /\ pc[o] = "acking"
    /\ IF "json" \in files[at[o]]
         THEN /\ files' = [files EXCEPT ![at[o]] = (@ \ {"json"}) \cup {"delivered"}]
              /\ acked' = [acked EXCEPT ![at[o]] = TRUE]
         ELSE UNCHANGED <<files, acked>>
    /\ Goto(o, "unlinking")
    /\ UNCHANGED <<kind, best, entry, claimed, at, held, todo, tries, booted, crashes, sent,
                   attempts, lost, dropped, overrun>>

\* ackDelivery, second phase: remove the marker.
Unlink(o) ==
    /\ pc[o] = "unlinking"
    /\ files' = [files EXCEPT ![at[o]] = @ \ {"delivered"}]
    /\ Finish(o)
    /\ UNCHANGED <<kind, best, entry, at, todo, tries, booted, historyVars>>

\* failDelivery reads the entry; when it is gone the error is swallowed.
FailRead(o) ==
    /\ pc[o] = "failing"
    /\ \/ /\ "json" \in files[at[o]]
          /\ held' = [held EXCEPT ![o] = entry[at[o]]]
          /\ Goto(o, "retrying")
          /\ UNCHANGED claimed
       \/ /\ "json" \notin files[at[o]]
          /\ Finish(o)
    /\ UNCHANGED <<kind, best, diskVars, at, todo, tries, booted, historyVars>>

\* Write e as the entry of m: the file is there afterwards, whatever was before.
WriteEntry(m, e) ==
    /\ files' = [files EXCEPT ![m] = @ \cup {"json"}]
    /\ entry' = [entry EXCEPT ![m] = e]

\* Slip: retryCount is not advanced.
FailWriteUncounted(o) ==
    /\ pc[o] = "retrying"
    /\ WriteEntry(at[o], held[o])
    /\ Finish(o)
    /\ UNCHANGED <<kind, best, at, todo, tries, booted, historyVars>>

\* failDelivery writes what it read, with one more retry.
FailWrite(o) ==
    /\ pc[o] = "retrying"
    /\ WriteEntry(at[o], [held[o] EXCEPT !.retry = @ + 1])
    /\ Finish(o)
    /\ UNCHANGED <<kind, best, at, todo, tries, booted, historyVars>>

\* The platform takes the message; the answer is on its way.
PlatformAccepts(o) ==
    /\ pc[o] = "sending"
    /\ LET how == IF o \in Replayers THEN "replay" ELSE "live"
       IN  sent' = [sent EXCEPT ![at[o]][how] = @ + 1]
    /\ Goto(o, "accepted")
    /\ UNCHANGED <<kind, best, diskVars, claimed, at, held, todo, tries, booted, crashes,
                   attempts, lost, dropped, acked, overrun>>

\* An error of the send: the platform refused it, or took it and said otherwise.
Errored(o) ==
    /\ pc[o] \in {"sending", "accepted"}
    /\ lost' = IF pc[o] = "accepted" THEN [lost EXCEPT ![at[o]] = @ + 1] ELSE lost

-----------------------------------------------------------------------------
(* deliverOutboundPayloads: the live sender                                *)

\* withActiveDeliveryClaim: a replayer that was faster keeps the message.
ClaimLive(m) ==
    /\ pc[Sender(m)] = "written"
    /\ IF m \in claimed
         THEN Goto(Sender(m), "done") /\ UNCHANGED claimed
         ELSE Goto(Sender(m), "preparing") /\ claimed' = claimed \cup {m}
    /\ UNCHANGED <<kind, best, diskVars, at, held, todo, tries, booted, historyVars>>

\* Up to the first platform call: an abort or a hook that cancels everything
\* ends in an acknowledgement, an error in failDelivery, and otherwise
\* markDeliveryPlatformSendAttemptStarted reads the entry.  When that is gone
\* the send goes on, or fails if its policy requires the queue.
Prepare(m) ==
    /\ pc[Sender(m)] = "preparing"
    /\ \/ Goto(Sender(m), "acking") /\ dropped' = [dropped EXCEPT ![m] = TRUE]
          /\ UNCHANGED held
       \/ Goto(Sender(m), "failing") /\ UNCHANGED <<held, dropped>>
       \/ /\ "json" \in files[m]
          /\ Goto(Sender(m), "marking")
          /\ held' = [held EXCEPT ![Sender(m)] = entry[m]]
          /\ UNCHANGED dropped
       \/ /\ "json" \notin files[m]
          /\ Goto(Sender(m), "sending")
          /\ UNCHANGED <<held, dropped>>
    /\ UNCHANGED <<kind, best, diskVars, claimed, at, todo, tries, booted, crashes, sent,
                   attempts, lost, acked, overrun>>

\* Slip: the attempt is not recorded.
MarkNothing(m) ==
    /\ pc[Sender(m)] = "marking"
    /\ Goto(Sender(m), "sending")
    /\ UNCHANGED <<kind, best, diskVars, claimed, at, held, todo, tries, booted, historyVars>>

\* What was written stays in held: its state says platformSendStarted.
MarkStarted(m) ==
    LET e == [held[Sender(m)] EXCEPT !.state = "started"]
    IN  /\ pc[Sender(m)] = "marking"
        /\ WriteEntry(m, e)
        /\ held' = [held EXCEPT ![Sender(m)] = e]
        /\ Goto(Sender(m), "sending")
        /\ UNCHANGED <<kind, best, claimed, at, todo, tries, booted, historyVars>>

\* Without an error the outcome is recorded as unknown before the entry is
\* acknowledged, if the start was.  An abort is acknowledged; any other error,
\* also one that bestEffort passed to onError, ends in failDelivery.
LiveReturns(m) ==
    LET o == Sender(m)
    IN  /\ kind[m] = "live"
        /\ \/ /\ pc[o] = "accepted"
              /\ Goto(o, IF held[o].state = "started" THEN "recording" ELSE "acking")
              /\ UNCHANGED <<lost, dropped>>
           \/ Errored(o) /\ Goto(o, "failing") /\ UNCHANGED dropped
           \/ Errored(o) /\ Goto(o, "acking") /\ dropped' = [dropped EXCEPT ![m] = TRUE]
        /\ UNCHANGED <<kind, best, diskVars, claimed, at, held, todo, tries, booted, crashes,
                       sent, attempts, acked, overrun>>

\* markDeliveryPlatformOutcomeUnknown reads and writes the entry.
ReadForUnknown(m) ==
    /\ pc[Sender(m)] = "recording"
    /\ held' = [held EXCEPT ![Sender(m)] = entry[m]]
    /\ Goto(Sender(m), "recorded")
    /\ UNCHANGED <<kind, best, diskVars, claimed, at, todo, tries, booted, historyVars>>

MarkUnknown(m) ==
    /\ pc[Sender(m)] = "recorded"
    /\ WriteEntry(m, [held[Sender(m)] EXCEPT !.state = "unknown"])
    /\ Goto(Sender(m), "acking")
    /\ UNCHANGED <<kind, best, claimed, at, held, todo, tries, booted, historyVars>>

-----------------------------------------------------------------------------
(* deliverRestartSentinelNotice                                            *)

\* Slip: one attempt too many.
NoticeReturnsLate(m) ==
    LET o == Sender(m)
    IN  /\ kind[m] = "notice"
        /\ \/ pc[o] = "accepted" /\ Goto(o, "acking") /\ UNCHANGED <<lost, tries>>
           \/ /\ Errored(o)
              /\ tries' = [tries EXCEPT ![m] = @ + 1]
              /\ Goto(o, IF tries'[m] <= MaxNoticeTries THEN "sending" ELSE "failing")
        /\ UNCHANGED <<kind, best, diskVars, claimed, at, held, todo, booted, crashes, sent,
                       attempts, dropped, acked, overrun>>

\* Its own loop of attempts around a send that skips the queue.
NoticeReturns(m) ==
    LET o == Sender(m)
    IN  /\ kind[m] = "notice"
        /\ \/ pc[o] = "accepted" /\ Goto(o, "acking") /\ UNCHANGED <<lost, tries>>
           \/ /\ Errored(o)
              /\ tries' = [tries EXCEPT ![m] = @ + 1]
              /\ Goto(o, IF tries'[m] < MaxNoticeTries THEN "sending" ELSE "failing")
        /\ UNCHANGED <<kind, best, diskVars, claimed, at, held, todo, booted, crashes, sent,
                       attempts, dropped, acked, overrun>>

-----------------------------------------------------------------------------
(* recoverPendingDeliveries and drainPendingDeliveries                     *)

\* Slip: a marker is taken for an entry.
SnapshotWithMarkers(o) ==
    /\ todo' = [todo EXCEPT ![o] = {m \in Message : files[m] \cap {"json", "delivered"} # {}}]
    /\ files' = [m \in Message |-> IF "delivered" \in files[m] THEN {"json"} ELSE files[m]]

\* loadPendingDeliveries: the entries there are; markers left behind go.
Snapshot(o) ==
    /\ todo' = [todo EXCEPT ![o] = {m \in Message : "json" \in files[m]}]
    /\ files' = [m \in Message |-> files[m] \ {"delivered"}]

\* Once per start of the gateway, and whenever the channel connects unless the
\* drain of that account is still running.
StartReplay(o) ==
    /\ pc[o] = "idle"
    /\ o = Boot => ~booted
    /\ booted' = (booted \/ o = Boot)
    /\ Snapshot(o)
    /\ Goto(o, "next")
    /\ UNCHANGED <<kind, best, entry, claimed, at, held, tries, historyVars>>

IsFirst(m, S) == \A i \in S : m <= i

\* Slip: the claim is not looked at.
ClaimNextAnyway(o) ==
    /\ pc[o] = "next"
    /\ \/ todo[o] = {} /\ Goto(o, "idle") /\ UNCHANGED <<claimed, at, todo>>
       \/ \E m \in todo[o] :
            /\ IsFirst(m, todo[o])
            /\ todo' = [todo EXCEPT ![o] = @ \ {m}]
            /\ at' = [at EXCEPT ![o] = m]
            /\ claimed' = claimed \cup {m}
            /\ Goto(o, "rereading")
    /\ UNCHANGED <<kind, best, diskVars, held, tries, booted, historyVars>>

\* The next entry of the snapshot, unless another owner has it.
ClaimNext(o) ==
    /\ pc[o] = "next"
    /\ \/ todo[o] = {} /\ Goto(o, "idle") /\ UNCHANGED <<claimed, at, todo>>
       \/ \E m \in todo[o] :
            /\ IsFirst(m, todo[o])
            /\ todo' = [todo EXCEPT ![o] = @ \ {m}]
            /\ IF m \in claimed
                 THEN UNCHANGED <<claimed, pc, at>>
                 ELSE /\ claimed' = claimed \cup {m}
                      /\ at' = [at EXCEPT ![o] = m]
                      /\ Goto(o, "rereading")
    /\ UNCHANGED <<kind, best, diskVars, held, tries, booted, historyVars>>

\* The recovery is out of time before its next entry, spent on earlier ones:
\* deferRemainingEntriesForBudget calls failDelivery for all the rest at once,
\* without their claims.
OutOfTime ==
    /\ pc[Boot] = "next"
    /\ todo[Boot] # {}
    /\ pc' = [o \in Owners |->
                IF \E m \in todo[Boot] : o = Defer(m) THEN "failing"
                ELSE IF o = Boot THEN "idle" ELSE pc[o]]
    /\ todo' = [todo EXCEPT ![Boot] = {}]
    /\ overrun' = TRUE
    /\ UNCHANGED <<kind, best, diskVars, claimed, at, held, tries, booted, crashes, sent,
                   attempts, lost, dropped, acked>>

\* Slip: the entry of the snapshot is used.
RereadNothing(o) ==
    /\ pc[o] = "rereading"
    /\ attempts' = [attempts EXCEPT ![at[o]] = @ + 1]
    /\ Goto(o, "sending")
    /\ UNCHANGED <<kind, best, diskVars, claimed, at, held, todo, tries, booted, crashes,
                   sent, lost, dropped, acked, overrun>>

\* The entry is read again under the claim: gone, out of retries, waiting for
\* its backoff (never on the first replay after a crash), of unknown outcome,
\* or to be sent.
Reread(o) ==
    LET m == at[o]
        e == entry[m]
    IN  /\ pc[o] = "rereading"
        /\ \/ /\ \/ "json" \notin files[m]
                 \/ "json" \in files[m] /\ e.retry > 0 /\ e.retry < MaxRetries
              /\ Finish(o)
              /\ UNCHANGED attempts
           \/ /\ "json" \in files[m]
              /\ \/ e.retry >= MaxRetries /\ Goto(o, "moving") /\ UNCHANGED attempts
                 \/ /\ e.retry < MaxRetries /\ e.state # "none"
                    /\ Goto(o, "reconciling")
                    /\ UNCHANGED attempts
                 \/ /\ e.retry < MaxRetries /\ e.state = "none"
                    /\ Goto(o, "sending")
                    /\ attempts' = [attempts EXCEPT ![m] = @ + 1]
              /\ UNCHANGED <<claimed, held>>
        /\ UNCHANGED <<kind, best, diskVars, at, todo, tries, booted, crashes, sent,
                       lost, dropped, acked, overrun>>

\* reconcileUnknownSend of the channel's adapter, which does not lie: sent, not
\* sent, unresolved but worth a retry, or no answer at all.
Reconcile(o) ==
    LET m     == at[o]
        taken == sent[m].live + sent[m].replay > 0
    IN  /\ pc[o] = "reconciling"
        /\ \/ taken /\ Goto(o, "acking") /\ UNCHANGED attempts
           \/ /\ ~taken
              /\ Goto(o, "sending")
              /\ attempts' = [attempts EXCEPT ![m] = @ + 1]
           \/ Goto(o, "failing") /\ UNCHANGED attempts
           \/ Goto(o, "moving") /\ UNCHANGED attempts
        /\ UNCHANGED <<kind, best, diskVars, claimed, at, held, todo, tries, booted, crashes,
                       sent, lost, dropped, acked, overrun>>

\* deliver resolves: sent, cancelled by a hook, or, with bestEffort, an error
\* that nobody counts because there is no queue id.  Or it rejects, with bestEffort
\* as well when the error is not one of a payload (its set-up, the mirrored
\* transcript): an error that is permanent or worth a retry.
ReplayReturns(o) ==
    LET m == at[o]
    IN  /\ o \in Replayers
        /\ \/ pc[o] = "accepted" /\ Goto(o, "acking") /\ UNCHANGED <<lost, dropped>>
           \/ /\ pc[o] = "sending"
              /\ Goto(o, "acking")
              /\ dropped' = [dropped EXCEPT ![m] = TRUE]
              /\ UNCHANGED lost
           \/ Errored(o) /\ best[m] /\ Goto(o, "acking") /\ UNCHANGED dropped
           \/ /\ Errored(o)
              /\ \E p \in {"failing", "moving"} : Goto(o, p)
              /\ UNCHANGED dropped
        /\ UNCHANGED <<kind, best, diskVars, claimed, at, held, todo, tries, booted, crashes,
                       sent, attempts, acked, overrun>>

\* Slip: the entry is given up without a copy under failed/.
MoveUnlinks(o) ==
    /\ pc[o] = "moving"
    /\ files' = [files EXCEPT ![at[o]] = @ \ {"json"}]
    /\ Finish(o)
    /\ UNCHANGED <<kind, best, entry, at, todo, tries, booted, historyVars>>

\* moveToFailed; an entry that is gone is left alone.
Move(o) ==
    /\ pc[o] = "moving"
    /\ files' = [files EXCEPT ![at[o]] =
                    IF "json" \in @ THEN (@ \ {"json"}) \cup {"failed"} ELSE @]
    /\ Finish(o)
    /\ UNCHANGED <<kind, best, entry, at, todo, tries, booted, historyVars>>

-----------------------------------------------------------------------------
\* The gateway dies and starts again: only the files are left.
Crash ==
    /\ crashes < MaxCrashes
    /\ crashes' = crashes + 1
    /\ claimed' = {}
    /\ pc' = [o \in Owners |-> IF o[1] = "sender" /\ pc[o] # "idle" THEN "done" ELSE "idle"]
    /\ todo' = [o \in Replayers |-> {}]
    /\ held' = [o \in Owners |-> Fresh]
    /\ booted' = FALSE
    /\ UNCHANGED <<kind, best, diskVars, at, tries, sent, attempts, lost, dropped, acked,
                   overrun>>

Next ==
    \/ \E m \in Message : Enqueue(m) \/ ClaimLive(m) \/ Prepare(m) \/ MarkStarted(m)
    \/ \E m \in Message : LiveReturns(m) \/ ReadForUnknown(m) \/ MarkUnknown(m)
    \/ \E m \in Message : NoticeReturns(m)
    \/ \E o \in Replayers : StartReplay(o) \/ ClaimNext(o) \/ Reread(o)
    \/ \E o \in Replayers : Reconcile(o) \/ ReplayReturns(o) \/ Move(o)
    \/ OutOfTime
    \/ \E o \in Owners : Ack(o) \/ Unlink(o) \/ FailRead(o) \/ FailWrite(o)
    \/ \E o \in Owners : PlatformAccepts(o)
    \/ Crash

Spec == Init /\ [][Next]_vars

-----------------------------------------------------------------------------
(* The contract                                                            *)

\* Where the message is for the code that handed it over.
StateOf(m) ==
    IF pc[Sender(m)] = "idle" THEN "new"
    ELSE IF "json" \in files[m] THEN "pending"
    ELSE IF "failed" \in files[m] THEN "failed"
    ELSE "gone"

Contract == INSTANCE OutboxContract
    WITH state <- [m \in Message |-> StateOf(m)],
         strict <- [m \in Message |-> kind[m] = "live" /\ ~overrun],
         off <- dropped, wrong <- lost,
         sends <- [m \in Message |-> sent[m].live],
         resends <- [m \in Message |-> sent[m].replay]

-----------------------------------------------------------------------------
(* Properties                                                              *)

TypeOK ==
    /\ kind \in [Message -> Kinds]
    /\ best \in [Message -> BOOLEAN]
    /\ files \in [Message -> SUBSET File]
    /\ entry \in [Message -> Entry]
    /\ claimed \subseteq Message
    /\ pc \in [Owners -> Place]
    /\ at \in [Owners -> Message]
    /\ held \in [Owners -> Entry]
    /\ todo \in [Replayers -> SUBSET Message]
    /\ tries \in [Message -> 0..MaxNoticeTries]
    /\ booted \in BOOLEAN
    /\ crashes \in Nat
    /\ sent \in [Message -> [live : Nat, replay : Nat]]
    /\ attempts \in [Message -> Nat]
    /\ lost \in [Message -> Nat]
    /\ dropped \in [Message -> BOOLEAN]
    /\ acked \in [Message -> BOOLEAN]
    /\ overrun \in BOOLEAN

Accounted(m) ==
    \/ pc[Sender(m)] = "idle"
    \/ files[m] \cap {"json", "failed"} # {}
    \/ sent[m].live + sent[m].replay > 0
    \/ dropped[m]

\* A message the queue has accepted is never lost, whatever crashes and races:
\* it is on disk, pending or under failed/, until it was sent or called off.
\* A bestEffort message is excepted: the recovery acknowledges it whatever the
\* platform says (ReplayReturns).
NeverLost == \A m \in Message : ~best[m] => Accounted(m)

\* The claim keeps the live sender, the recovery and the drain apart: no two of
\* them are at the platform with the same message.
AtPlatform(o)       == pc[o] \in {"sending", "accepted"}
OneSenderAtPlatform ==
    \A m \in Live : Cardinality({o \in Owners : at[o] = m /\ AtPlatform(o)}) <= 1

\* Once an entry is acknowledged no stale snapshot and no marker left by a crash
\* brings it back, as long as the recovery keeps to its time.
NoReplayAfterAck ==
    [][\A m \in Live : acked[m] /\ ~overrun => sent'[m].replay = sent[m].replay]_vars

\* What a live send has put on the platform is never replayed blindly, wherever
\* the gateway crashed, as long as the recovery keeps to its time.
LiveNeverReplayed ==
    [][\A m \in Live : sent[m].live > 0 /\ ~overrun => sent'[m].replay = sent[m].replay]_vars

\* A message is replayed to the platform a second time only because a crash or a
\* wrong error report hid the first one.
RepeatsExplained ==
    ~overrun => \A m \in Live : sent[m].replay <= 1 + lost[m] + crashes

\* Files, claims, marks and retries implement the contract of the outbox.
ContractHonoured == Contract!Spec

\* MAX_RETRIES bounds the replays of an entry; only crashes add to them.
ReplaysBounded ==
    ~overrun => \A m \in Live : attempts[m] <= MaxRetries + crashes
=============================================================================
