# virtual-agent: TLA+ models, model checking and proofs

The repository is a voice-controlled virtual character. A user talks to it, an
LLM agent decides what to do, operates devices through Home Assistant, and the
character says what happened. These modules model the part of that path in which
concurrency, time limits and failures meet. Paths below are relative to the
repository; line numbers are those of the commit the models were written from.

Run a check with `tlc -workers 2 -config X.cfg M`, where `X.cfg` and `M` are a row of
the table in section 4; check the proofs of a component with
`tlapm M.tla`, where `M` is one of the modules named `...Proofs` (section 5).

## 1. Inventory

```
 browser page ─┐                                       ┌─ Home Assistant
 voice-listener┴─> interaction-bridge ──> OpenClaw ──> ha-bridge
                        │   ▲            gateway           │
                        │   └────────── /speak ────────────┘
                        ▼
               ha-character-bridge (hub) ──> AITuber Kit: external linkage
                                              ─> speakCharacter ─> SpeakQueue ─> LipSync
```

| Part | Source | State it keeps | Operations |
|---|---|---|---|
| Interaction bridge | `openclaw/interaction-bridge/main.py` | `last_speak_at_monotonic`; per request: previous text, run id, run start | `/send-text`, `/voice`, `/speak` |
| Home Assistant bridge | `openclaw/ha-bridge/main.py` | none of its own; per request the result of the service and of the speech | `/run/{action}` |
| OpenClaw command lanes | `openclaw/src/process/command-queue.ts` | lanes (queue, active ids, limit, generation), waiters, draining flag | enqueue, pump, complete, timeout, resize, clear, reset, wait |
| Character hub | `ha-character-bridge/bridge_server.py` | the set of clients | handshake, read loop, broadcast, cleanup |
| speakCharacter | `aituber-kit/src/features/messages/speakCharacter.ts` | the chain of syntheses | one call per sentence |
| Speech queue | `aituber-kit/src/features/messages/speakQueue.ts` | queue, `isProcessing`, `stopped`, `currentSessionId`, stop token, `isSpeaking` | `addTask`, `processQueue`, `stopAll`, `checkSessionId`, completion timer |
| Lip-sync player | `aituber-kit/src/features/lipSync/lipSync.ts` | `currentSource` | play, stop |
| Voice listener | `voice-listener/voice_listener.py` | ring buffer, wake confirmation, last text, cooldown | one loop over audio frames |
| External linkage | `aituber-kit/src/utils/WebSocketManager.ts`, `components/useExternalLinkage.tsx` | the socket, temporary messages | connect, reconnect, message |
| agent.wait | `openclaw/src/gateway/server-methods/agent-job.ts`, `agent-wait-dedupe.ts` | run snapshots, errors held back, waiters | lifecycle event, wait, expiry |
| Delivery queue | `openclaw/src/infra/outbound/delivery-queue-*.ts`, `deliver.ts`, `gateway/server-restart-sentinel.ts` | one file per entry: pending, `.delivered` marker, or under `failed/`; in memory the claims and a flag per drain | enqueue, mark, ack, fail, move, live send, restart notice, startup recovery, reconnect drain, deferral |

The rest of the tree (17 000 files) is the vendored bulk of the OpenClaw gateway
(chat channels, plugins, apps, UI) and of AITuber Kit (rendering, settings,
models); `PROJECT.json` lists what of it was considered and why it is left aside.

How the parts interact, and what is hard about it:

* **Request and reply.** The interaction bridge opens a gateway socket per request, reads the
  last assistant text, sends `chat.send`, waits with `agent.wait` and reads the
  history again. Whether there is a new reply is decided by comparing texts; whether
  it has already been spoken by comparing two clock values, one of them global to
  all requests. Meanwhile the run may call ha-bridge, which calls `/speak` of the same
  bridge, with a limit of 10 seconds on each leg.
* **Lanes.** Nothing polls a lane: work moves only when an operation drains it. A reset
  releases slots of tasks that still run, a task timeout settles the caller while the
  task goes on, and a restart waits on a snapshot of active ids.
* **Hub.** One set of clients is iterated across awaits while other handlers change it; one
  slow reader suspends every broadcast that reaches it.
* **Voice listener.** One thread blocks in every call to the bridge, with limits of 3 and 60 seconds,
  while the handlers behind those calls go on after the limit.
* **Delivery.** Three kinds of code send the same file's message (the sender that accepted
  it, the recovery of a starting gateway, the drain of a reconnecting channel), each from
  what it read some awaits ago, and the gateway can die between any two file
  operations.
* **Speech.** Stop, a new session and the completion timer all meet loops, syntheses and
  sounds that were started before them and cannot be cancelled, only disowned by
  a token.

What makes each part correct:

* lanes: no lost command, exact slots, order of arrival, limits respected, nothing
  run that its caller was told is called off, waiters woken exactly when their tasks are done, and a
  lane that a hanging task cannot block;
* bridges: the character claims only what Home Assistant did, says a reply once,
  says the reply of the right run, and answers every caller;
* listener: it hears the next wake word whatever hangs, does not open the microphone while
  something is still to be said, and its own messages do not take the place of a reply;
* delivery: what was accepted is on disk until it was sent or called off, one sender at a
  time, a repetition only where a crash or a wrong error hid the outcome, and never after
  the acknowledgement;
* hub: exact membership, order per sender, no live client left out while nobody comes or
  goes, lost ones forgotten;
* speech: Stop is final, sentences in order, one loop at a time but for those a Stop has
  interrupted, nothing stranded in the queue, and the talking flag lowered in the end.

`PROJECT.json` has the hazards line by line, with the property that covers each, or
the reason why none does.

## 2. Modules

| Module | Models | Notes |
|---|---|---|
| `CommandQueue` | `command-queue.ts` | one action per exported operation; no RECURSIVE, so it can be proved about |
| `LaneContract` | what a caller relies on in `command-queue.ts` | the abstract specification: order, limit, one outcome per command; no generations, timers or ids |
| `CommandQueueProofs` | — | theorems about `CommandQueue` |
| `LaneContractProofs` | — | `CommandQueue` implements `LaneContract` |
| `DeliveryQueue` | `delivery-queue-storage.ts`, `delivery-queue-recovery.ts`, and the parts of `deliver.ts` and `server-restart-sentinel.ts` that touch the queue | with crashes between any two steps |
| `OutboxContract` | what the code that hands over a message relies on in the same files | the abstract specification: nothing lost, sent once, sent again only for a reason; no files, claims, owners or retries |
| `DeliveryQueueProofs` | — | theorems about `DeliveryQueue`, and that it implements `OutboxContract` |
| `InteractionBridge` | `interaction-bridge/main.py` and the gateway session it sees | a component: actions, no specification of its own |
| `InteractionBridgeProofs` | — | lemmas about its actions, for the two compositions |
| `HaBridge` | `ha-bridge/main.py`, composed with `InteractionBridge` | the specification of the speech path and its properties |
| `HaBridgeProofs` | — | theorems about `HaBridge` |
| `VoiceListener` | `voice_listener.py`, composed with `InteractionBridge` | its main loop; checked as it stands, without an MC module |
| `VoiceListenerProofs` | — | theorems about `VoiceListener` |
| `CharacterBridge` | `bridge_server.py` | with peers and transports as environment |
| `CharacterBridgeProofs` | — | theorems about `CharacterBridge` |
| `SpeakQueue` | `speakCharacter.ts`, `speakQueue.ts`, `lipSync.ts` | one pipeline, because the three only make sense together |
| `SpeechContract` | what a caller relies on in the three | the abstract specification: order, session, Stop, how much may overlap; no queues, loops, flags or syntheses |
| `SpeakQueueProofs` | — | theorems about `SpeakQueue`, and that it implements `SpeechContract` |
| `MC...` | — | instances for TLC |

In each component module some operators carry the comment `Slip`. They are not part
of the specification: each is a definition as a plausible bug would have it, and
`PROJECT.json` pairs it with the property that finds it. Replacing the definition
by its slip makes the run fail, so no property holds merely by the shape of the model.

**CommandQueue.** `queue`, `active`, `maxConcurrent`, `generation` are the fields of `LaneState`;
`gatewayDraining` is the global flag; `promise` is what the caller of `enqueueCommandInLane`
holds and `exec` what the task function does, because after a timeout or a reset the
two part. `jobGeneration` is the `taskGeneration` captured by `pump`. A JavaScript turn is
one step, so `drainLane` and `pump` are operators (`Pump`, `StartJobs`) evaluated inside
the handler that calls them, on the values that handler has already written: `Pump` gets
them as arguments. Entries are numbered by the enqueue call; the lane and "has a timeout"
of each are drawn in `Init` and never change, which is the same as drawing them at the call.
Error wording, warnings about waiting time and the snapshots of `getQueueSize` are left out.

**LaneContract.** A command is *new*, *waiting*, *holding* a slot, has *released* it, or was *dropped* (cleared or
refused). A lane has `cap` slots. Every operation that can free or add slots ends in `Promote`: slots go to
waiting commands in the order of the calls, within the cap, and until the lane is full or
nothing waits. A reset is a `Release` of all that a set of lanes holds, which is all that a caller may
rely on. `CommandQueue` maps to it by `Status` (the caller's promise, the execution and the active set together say
which it is), `maxConcurrent` and the lane of each entry; `Contract` is the instance and
`ContractHonoured` the property. What the mapping hides is what a caller must not have to know: queues,
ids, generations, timers, waiters.

**DeliveryQueue.** `files` says which of `{id}.json`, `{id}.delivered` and `failed/{id}.json` exist, `entry` what the
first one says; both survive `Crash`, everything else does not. An *owner* is one run of the code:
the sender of a message, the startup recovery, a drain, or one `failDelivery` of the recovery that
ran out of time. `pc` is the await an owner is suspended in; `held` is what it read there, so that a write
which loses another owner's update is the model's as it is the code's. `claimed` is `entriesInProgress`. The file
operations themselves are a package outside the repository (`@openclaw/fs-safe/store`): renames and replacements are taken to be
atomic, and the two phases of an acknowledgement are those the comment of `ackDelivery` describes. `sent`, `attempts`,
`lost`, `dropped`, `acked` and `overrun` are history for the properties. The length of a backoff is abstracted:
an entry that has failed before may be due or not. The messages are those of one account, so a drain
matches each of them.

**OutboxContract.** A message is *new*, *pending*, *failed* (set aside for a human) or *gone*, and goes only when a copy of it
is out, when it was called off, or when it is best effort. A *strict* message (live, while the recovery keeps to
its time) does not come back. Its sender sends it once; others send it again only while it is pending and its sender has not sent
it, and each copy before the new one needs an excuse: an error reported for a copy that is out, or a
crash. `DeliveryQueue` maps to it by `StateOf` (is the sender still to come, is there a `{id}.json`, is there one
under `failed/`) and the history variables. The mapping hides markers, attempts, claims, owners, snapshots and
`MAX_RETRIES`. A notice may come back after it was acknowledged:
`Reappear`.

**VoiceListener.** `ear` is where the loop is and which call of the bridge it blocks in; the calls are
the requests and `/speak` calls of `InteractionBridge`, whose handlers go on when the listener gives up.
Scores, levels and texts only choose between `Discard` and `Send`; ring buffer and VAD are left out.

**InteractionBridge / HaBridge.** A handler is cut at its awaits and nowhere else: `Submit`, `FetchPrevious`,
`ChatSend`, `WaitReturns`, `FetchLatest`, `Decide`, `SpeakReply` are `send_to_openclaw`; `SpeakCall`, `SpeakDeliver`,
`SpeakDone`, `SpeakFail` are `/speak`, where *delivered* and *recorded* are apart because
`last_speak_at_monotonic` is written after `send_to_aituber` returned. The comparison of the two
clock values is one flag per request: a finishing `/speak` sets it for the requests in
flight, since exactly those started before it. `RunStart`, `RunSays`, `RunEnd` are the gateway
(external): a session runs one agent run at a time. `env` is drawn in `Init` and says whether
requests may overlap, time limits may expire, and services may fail; properties name the
circumstances they need through it. `agent.wait` may come back before the run is over when its limit expires and when it fails,
since the code swallows that failure (`main.py:543`); `ChatSend` may be answered without a `runId`, and then nothing is
waited for or spoken.

**CharacterBridge.** `running` is the handler that holds the event loop inside `broadcast`:
`drain()` suspends only for a paused or closing transport. A transport that is closed with unsent data is *closing*
until `Flush`, and a `drain()` of another handler that waits for it goes on waiting. `cast` holds the locals of a
broadcast, among them the size the iterator was made with. `Abort` is the `RuntimeError` of CPython
when the size differs, `Rescan` the free choice of what an iterator still visits when members
came and went at equal size. `cast[c].audience` records which of this happened to a broadcast: *steady* while the set
is the one it began with, *touched* once another handler has changed it (a discard of an absent member changes
nothing), *rescanned* when the iterator has gone on after that.

**SpeakQueue.** A loop of `processQueue` is named by the call whose `addTask` started it and
has the token it began with; `Iterate` is the code from `while` to the next await.
`token` is `stopTokenCounter`. `play` and `source` are the player: `cut` is a sound whose source was
stopped, whose `onended` still has to arrive. A stop that comes while the sound
is being decoded does not silence it, as in the code.

**SpeechContract.** A sentence is *new*, *waiting*, *speaking* or *over*. It begins only when nothing before it is left waiting, in the
current session and if no Stop came since its call; a call of another session may drop what waits, a Stop may
drop all of it; and with a sentence that begins at most one more sounds than there have been Stops. `SpeakQueue` maps to
it by `PhaseOf` (chained, being synthesised and queued are all *waiting*; dropped and ended are *over*; a call has also ended when `speak` threw, which
skips its `onComplete`), the
session and stop token of each call, `currentSessionId` and `stopTokenCounter`. The mapping hides queue, `isProcessing`,
`stopped`, `isSpeaking`, loops, timers and the player.

Observations made while translating, which no property states:

* when a synthesis fails after `checkSessionId` has raised `isSpeaking`, nothing lowers it until
  the next speech or Stop (`TalkingEnds` therefore starts where a loop talks);
* tasks cleared from the queue never get their `onComplete`;
* the branch of `processQueue` that clears the queue because `stopped` is set cannot be
  reached through `speakCharacter`; `StoppedCatchesOldOnly`, which is proved, is the reason;
* a replay sends with `skipQueue`, so nothing marks its attempt: a gateway that dies after the
  platform took a replayed message and before the acknowledgement sends it again at the next
  start. `RepeatsExplained`, which is proved, counts exactly these. (`docs/concepts/message-lifecycle-refactor.md:442`
  plans for a mark here.)
* a live send that throws after its attempt was marked stays marked, and no adapter in the
  tree implements `reconcileUnknownSend`, so the recovery moves it to `failed/` unsent;
* a restart notice holds no claim, and the drain may send it too: the claim and repetition
  properties are about live messages for this reason;
* `deferRemainingEntriesForBudget` writes entries without their claims; its read and write can fall
  around an acknowledgement and bring the entry back. This is why those properties are stated for
  a recovery that keeps to its time (`~overrun`), while `NeverLost` and `OneSenderAtPlatform` are not;
* a replay of a `bestEffort` message whose error is swallowed (`deliver.ts:1607`) is acknowledged and
  its entry deleted: `NeverLost` excepts such messages. An error that is not a payload's (set-up, mirrored
  transcript) leaves `deliver` all the same and is counted;
* the live sender does not read its entry again after it has claimed it: a replayer that claims, sends
  and acknowledges between the write of the entry and the claim makes the message go out twice;
* the listener's repeat guard looks back 3 seconds, but every send is followed by 4 seconds of cooldown
  and debounce, so with the defaults it never rejects anything;
* when the listener's 60 seconds expire, its error message counts as speech during the run,
  and the reply that the bridge is still waiting for is then not spoken; so does an
  acknowledgement that the bridge delivers late. `StatusNeverSilencesReply` holds while no limit expires.

## 3. Fairness

* `CommandQueue`: weak fairness of the task timers only. A task function may hang;
  a `setTimeout` callback is run by the event loop.
* `HaBridge`: the coroutines and threads of the two bridges go on, the gateway answers
  requests, and, where `env.timeouts` is set, limits expire. Nothing is assumed of agent runs
  or of the hub. `wait_for_response` has no limit of its own, so a gateway that never answers is
  outside these properties (a hazard in the list).
* `VoiceListener`: the request handlers of the bridge and the loop itself: a blocked call ends with its
  time limit at the latest, sleeps end, a recording ends at `MAX_RECORD_SECONDS`. Nothing is assumed
  of agent runs, the hub or the gateway, and `ListensAgain` needs the limits (`env.timeouts`).
* `DeliveryQueue`: none; all its properties are safety. The recovery retries only at a restart
  or a reconnect, for which nothing is fair.
* `CharacterBridge`: strong fairness per handler, because `running` turns the other handlers'
  steps off again and again while the event loop is first-come first-served; and a peer
  that stopped reading reads again or breaks, also while its closed transport is being flushed. TCP keep-alive or its owner sees to that.
* `SpeakQueue`: a synthesis answers or fails, a sound ends, a timer fires. No fairness
  for users. The audio context is taken to be allowed to play.

## 4. Runs

| Run | Expect | What it shows |
|---|---|---|
| `CommandQueue_safety` (`MCCommandQueue`) | pass | all safety properties of the lanes |
| `CommandQueue_liveness` (`MCCommandQueue`) | pass | a lane of timed entries is never blocked by hanging tasks; every step is one of `LaneContract` |
| `HaBridge_speech` (`MCHaBridge`) | pass | what is spoken, by whom and how often |
| `HaBridge_liveness` (`MCHaBridge`) | pass | callers are answered although runs and hub hang |
| `HaBridge_double` (`MCHaBridge`) | violation | `NoDoubleSpeech` fails, here because a limit expires |
| `HaBridge_repeat` (`MCHaBridge`) | violation | `TalkReplySpoken` fails for a repeated text |
| `CharacterBridge_hub` (`MCCharacterBridge`) | pass | an undisturbed broadcast reaches every member; membership, order, lost clients forgotten |
| `CharacterBridge_leftout` (`MCCharacterBridge`) | violation | `NobodyLeftOut` fails on concurrent membership changes |
| `SpeakQueue_speech` (`MCSpeakQueue`) | pass | every step is one of `SpeechContract`; Stop is final, no stranded task, overlapping loops bounded, talking ends |
| `SpeakQueue_overlap` (`MCSpeakQueue`) | violation | `OneLoop` fails after Stop |
| `DeliveryQueue_recovery` (`DeliveryQueue`) | pass | every step is one of `OutboxContract`; nothing lost, one sender at a time, repetitions bounded, none after the acknowledgement |
| `VoiceListener_voice` (`VoiceListener`) | pass | the listener always listens again, only when all is said, and does not silence replies |

Bounds, and why they suffice:

* `CommandQueue`: two lanes, one of them a probe lane whose limit is never below 1,
  three entries, limits −1, 0 and 2 besides the initial 1, one reset per lane, one
  waiter. A slot can leak or be freed twice only between an entry of the old generation,
  one of the new one and one that waits: three entries. Two lanes are needed for a waiter
  whose ids leave from different lanes and for `resetAllLanes`. The liveness run has two
  lanes as well, because the refinement has to see one lane reset beside another. In both
  runs every entry has a timeout; an entry without one behaves like a timed entry whose
  timer has not fired yet, which safety already allows.
* `HaBridge`: two requests, which may overlap, so that each can be the older one of
  the session; two texts, equal or different; one `/speak` from elsewhere. One call of an
  action per run. The liveness run uses one text since no wait depends on it, with and without failing services, and the two
  violations use the least that shows them.
* `CharacterBridge`: two senders (two broadcasts at once, one inside the other's `drain`), one of
  which sends twice (order), and a display that may be slow; every client joins once and
  may leave or break at any time.
* `SpeakQueue`: three calls, two sessions, two Stops. Two loops that overlap and a task that waits
  need three; a stop between two of them and one after need two.
* `DeliveryQueue`: one message, since an owner touches one message at a time and reads no other's
  file; two crashes, so that a recovery can die too and the next one finds what it left;
  `MAX_RETRIES` of 2 and two attempts of a notice, enough for a first, a repeated and a refused
  one. The proofs hold for any number of messages, retries and crashes.
* `VoiceListener`: two utterances, so that one can be left over from the other's time limit, and
  three status messages, of which one utterance uses at most two.

Deadlock is not checked: each bound makes the systems stop when the calls are used up.

### Disagreements with the documentation

1. **Said twice** (`HaBridge_double`). `README.md:154`: when `/speak` was called its utterance
   takes precedence and double speech is avoided. ha-bridge gives up on `/speak` after 10 seconds,
   the run ends, and the reply is spoken before `/speak` has recorded its time
   (`interaction-bridge/main.py:299`). That is the way the run shows. There is another that needs no limit, only
   two requests of the session in flight together: the `/speak` of the first run ends; the second request is
   submitted and reads the old history; the first run gives its text and ends; the second run ends without one;
   the second handler takes the text of the first for its own, sees no speech since its start, and speaks it. (It is
   found by the same property with two requests, `OverlapChoices` = {TRUE} and `TimeoutChoices` = {FALSE}.)
   `RepeatedInTimeOnlyByMute` is what does hold: in time a request is never repeated by its own handler, and, unless
   a service fails, by another one only in the way just told.
2. **Not said** (`HaBridge_repeat`). `README.md:152`: the reply to casual talk is spoken. A reply whose
   text equals the previous one is taken for the old one (`main.py:556`). `NewTalkReplySpoken` is
   what does hold.
3. **Left out** (`CharacterBridge_leftout`). A client that joins or leaves while a broadcast waits
   ends that broadcast with an uncaught `RuntimeError` (`bridge_server.py:109`): the rest get
   nothing, and the sender is disconnected. `SteadyAudienceServed` is what does hold: a broadcast during which
   nobody joins or leaves is on the wire of every other member when it is done.
4. **Two loops** (`SpeakQueue_overlap`). `speakQueue.ts:84` says that no second `processQueue` is started
   beside one at work. A loop interrupted by Stop sets `isProcessing = false` when its `speak` returns
   (`:144`), under its successor. `LoopsBounded` is what does hold: every Stop adds one loop at most, and
   `SpeechContract` allows no more sentences at once than that.

## 5. Proofs

`CommandQueueProofs` proves, for every set of lanes and waiters and every bound, from
the assumptions named in `CommandQueue` (probe lanes are lanes, bounds are numbers, limits are
integers):

| Theorem | States |
|---|---|
| `InvariantHolds` | `Spec => []IInv` |
| `TypeCorrect` | `[]TypeOK` |
| `WorkConservation` | `[]NoIdleSlotWhileQueued` |
| `SlotsExact` | `[]ActiveSlotsExact` |
| `CommandsAccountedFor` | `[]NoLostCommand` |
| `FirstInFirstOut` | `[]StartedInOrder` |
| `WaitersSound` | `[]WaiterHasPendingTask` |
| `DrainedSound` | `[]DrainedIsEarned` |
| `LimitRespected` | `LimitRespectedOnStart` |
| `CalledOffStaysOff` | `[]CalledOffNeverRuns` |

The properties are not inductive one by one: that a completion frees the right slot rests on
active sets being exact, which rests on queued entries being idle and pending, which rests on
entries not enqueued yet having no state. `Shape` states these facts together, over
*arguments* rather than variables, because a handler calls `pump` on values it has just
computed. `StartJobsShape` proves once that `pump` preserves `Shape`, and `PumpFills` that it leaves
every lane it visits empty or full and starts nothing beyond a limit; each operation then
only has to show that what it hands to `pump` has the shape. `IInv` adds the types, the waiters'
properties and `WaiterIdsStarted` (a waiter captures only started tasks, so a later start
cannot change what it waits for). `CalledOffNeverRuns` needs `IInv` and one more observation: `pump` starts only what is
queued (`OnlyQueuedStart`), and what is queued has a caller who still waits. The proofs of the two resets and of the two ways in which
a task leaves its slot are shared (`ResetInvariant`, `ReleaseInvariant`). The last step of each theorem
is temporal (PTL).

`LaneContractProofs` proves, from the same assumptions, that the lanes implement the contract:

| Theorem | States |
|---|---|
| `SettledHolds` | `Spec => [](IInv /\ Settled)` |
| `ContractImplemented` | `Spec => ContractHonoured` |
| `ContractSuffices` | `ContractHonoured => []Contract!Eager /\ []ServedInTurn /\ OverForGood` |

`Settled` is what the mapping needs beyond `IInv`: an entry whose caller was answered has started, and calls
are numbered in order. `View` is `Status` as a function of the values a handler hands to `pump`. `PumpPromotes`
shows once that `pump` only takes commands of the view from waiting to holding, and `Promotes` that a step which
does no more than that is a `Promote` of the contract (order from `StartedInOrder`'s argument, the cap from
`StartsWithinLimit`, eagerness from `NoIdleSlotWhileQueued`). Then one lemma per operation names the action of the
contract that it takes: completions and timeouts release one command, resets all of some lanes; late
results, waiters and `markGatewayDraining` stutter.
`ContractSuffices` says what the contract is worth to a caller, without any of `CommandQueue`: a command waits only while
its lane is full, commands of a lane get their slots in the order of the calls (which needs `CalledInOrder` to be
inductive), and one that has left its slot or was dropped never gets one again.

`DeliveryQueueProofs` proves, for any number of messages, retries, notice attempts and crashes:

| Theorem | States |
|---|---|
| `InvariantHolds` | `Spec => []IInv` |
| `TypeCorrect` | `[]TypeOK` |
| `AcceptedNeverLost` | `[]NeverLost` |
| `ClaimsExclude` | `[]OneSenderAtPlatform` |
| `ReplaysExplained` | `[]RepeatsExplained` |
| `ReplaysBoundedHolds` | `[]ReplaysBounded` |
| `AckIsFinal` | `NoReplayAfterAck` |
| `LiveSendsNeverReplayed` | `LiveNeverReplayed` |
| `ContractImplemented` | `ContractHonoured` |
| `ContractSuffices` | `[]TypeOK /\ ContractHonoured => []NeverLost /\ []RepeatsExplained /\ LiveNeverReplayed` |

The invariant has two halves. `Claims` needs no condition: an owner at work on a live message has its claim,
two owners with one claim are the same (`ClaimsExclusive`), only enqueued messages are worked on, an
acknowledgement is earned, and `NeverLost`. `Progress` says, for every live message and while the recovery keeps to
its time, what holds of it whoever works on it (`MsgOK`: what the live sender put on the platform is
marked for as long as the entry is pending; an acknowledged entry is not pending; replays that reached
the platform exceed wrong errors and crashes by at most the one under way) and what its
one worker may assume (`WorkOK`: what it read is still what the file says). The second depends on the
first: since a step touches only the files of its owner's message (`Touches`) and no other
worker has that message, `OwnMessageSuffices` lets each action be proved for its own
message alone. The two action properties then follow from the invariant in the state before the step.

The refinement needs one more layer, `Counts`: wrong errors never exceed copies, since each belongs to a copy that is out.
Then `NextRefines` has one step per action. Most stutter (`QuietRefines`); those that change the file of a message without a
change of its state do too (`StateRefines`). A write that could bring a deleted entry back (`WritesPending`) is either made by an owner
whose `WorkOK` says that the entry is still there, or concerns a message that is not strict. The excuse in `SendAgain` is
the count in `MsgOK`. `ContractSuffices` is a theorem about the contract: nothing is used of `DeliveryQueue` but that its
mapped states obey it (and their types), so what a caller wants to know needs nothing that the mapping hides.
`RepeatsExplained` therefore is proved and no run checks it on its own.

The speech path has two compositions over one component. `InteractionBridgeProofs` holds what both need:
each group of its actions keeps the types and `LaneFits` (the running agent run is the first of the session's lane, and
a request that speaks has something to say). It assumes what `InteractionBridge` names: the names of requests and of other `/speak` calls
differ, `NoText` is no text, and a pair of requests is not itself such a name (`PairsAssumption`: `uttered` holds calls
and pairs). `HaBridgeProofs` proves, for any requests, calls, texts and choices of `env`:

| Theorem | States |
|---|---|
| `InvariantHolds` | `Spec => []IInv` |
| `TypeCorrect` | `[]TypeOK` |
| `OperationFirst` | `[]OperatedBeforeSpoken` |
| `RepeatsInTime` | `[]RepeatedInTimeOnlyByMute` |
| `RepliesAreOwn` | `[]OnlyOwnReply` |
| `NewTalkIsSpoken` | `[]NewTalkReplySpoken` |

The argument follows a request through its awaits. `RunsFit` and `CallsFit` relate its place to those of the run, the
action and the `/speak` call (the operation precedes the speech; in time, the run is over when the history is
read). `SaidFits` says that a reply which anybody knows was given by its run. From them `SpeechFits`: in time, when a handler may speak the
reply of its own run that run's call did not speak, since its end would have been noticed. `TakeoverFits` (`TakeoverOf` for each pair of requests) is
about the reply of another run: as long as nothing fails, a request whose own run has given a reply can only meet the reply of a later run,
and what that run said by `/speak` was said during the request, which therefore stays silent. `AloneFits` and `HistoryFits` say what a request that is alone reads: the text it saw before,
or its own run's; so a text that differs is its own. Each conjunct is preserved by a lemma with one step per action.

`VoiceListenerProofs` proves of the other composition, with the same generality:

| Theorem | States |
|---|---|
| `InvariantHolds` | `Spec => []IInv` |
| `TypeCorrect` | `[]TypeOK` |
| `ReplyNotSilenced` | `[]StatusNeverSilencesReply` |
| `ListensInSilence` | `[]ListensWhenQuiet` |

Here the heart is `LoopFits`: in time, whatever is under way in the bridge is the one call in which the loop
blocks. Hence no speech ends during a request (`SilenceFits`), and nothing is under way while the
loop listens.

`CharacterBridgeProofs` proves, for any finite set of clients and any number of messages:

| Theorem | States |
|---|---|
| `InvariantHolds` | `Spec => []IInv` |
| `TypeCorrect` | `[]TypeOK` |
| `AudienceServed` | `SteadyAudienceServed` |
| `MembersAliveHolds` | `[]MembersAlive` |
| `LiveClientsStay` | `[]LiveClientsRegistered` |
| `OrderKept` | `SenderOrderKept` |

Membership rests on `StaleLost` (what a suspended broadcast is going to forget has broken for good, so it
is no live client) and on `Casting` (locals of a broadcast exist exactly inside it). Order rests on `Ordered`: the
unread frames of a sender are numbered upwards, all above the one it broadcasts, which is not below anything a
client has received; one broadcast per sender is under way because its handler runs it. `Served` follows a
steady broadcast: the iterator's size is that of the set, and every other member is still to be visited, has the
message, or is lost. A change of the set ends *steady* in all other broadcasts, so only the broadcast's own
steps have to keep it. `MembersAlive`, which no run checks on its own, says that the set holds no client whose
handler has ended.

`SpeakQueueProofs` proves, for any sessions and any numbers of calls and Stops:

| Theorem | States |
|---|---|
| `InvariantHolds` | `Spec => []IInv` |
| `TypeCorrect` | `[]TypeOK` |
| `NothingStranded` | `[]NoStrandedTask` |
| `OnlyOldStopped` | `[]StoppedCatchesOldOnly` |
| `StopHolds` | `StopIsFinal` |
| `OrderHolds` | `SentencesInOrder` |
| `LoopsBoundedHolds` | `[]LoopsBounded` |
| `ContractImplemented` | `ContractHonoured` |
| `ContractSuffices` | `[]TypeOK /\ ContractHonoured => StopIsFinal /\ SentencesInOrder` |

`QueueFits` says that the queue is exactly the queued calls, in the order of the calls and none from before the last
Stop; `ChainFits` that syntheses follow one another in that order; `LoopsFit` that `isProcessing` speaks of a loop
no Stop has ended. `QueueFits` takes queue and calls as arguments, because a handler hands `Iterate` values it has just
computed; `TakeShape` shows once what taking the i-th task leaves, `IterateFacts` what the code between two awaits
does, and `LoopStep` that both callers of `Iterate` keep the invariant. Every step also satisfies `Begun` (a call
that begins to speak is not older than the last Stop and leaves no earlier one on its way), which gives the two
action properties. `NoStrandedTask` holds although the second loop of `SpeakQueue_overlap` is possible: the proof
needs that some loop serves the queue, not that one does.

The last two theorems rest on a second layer, `Voiced`: every sentence that speaks is awaited by some loop (`Awaited`), a
loop carries the name of a call that is past its synthesis, so the next one to start is a new one (`Named`), and
`LoopsBounded`. This is inductive because it mentions `isProcessing`: a loop starts only where the flag is false,
which leaves room for one; leaving a loop lowers count and flag together; Stop clears the flag and raises the
bound. No more sentences sound than loops run (`FewVoices`), which is the count in the contract. Then each
operation takes one action of the contract: `SpeakCharacter` is `Say`, Stop is `Stop`; a synthesis that fails, a task
that is queued and a `speak` that returns are a `Turn` (the order comes from `Begun`, the session from what `Iterate`
takes); player, timer and microphone stutter. `SentencesInOrder` follows from the contract (`ContractSuffices`), and `StoppedCatchesOldOnly` is
about a flag that the contract hides: both are proved, and no run checks them on their own.

Only model-checked: every liveness property (fairness and ENABLED are beyond the prover). Every invariant and every action
property of a passing run is proved. No theorem rests on induction over
data: queues are handled by index, never by recursion.

## 6. Not modelled

* **agent.wait** (`agent-job.ts`, `agent-wait-dedupe.ts`): the bridge uses done, error and timeout
  alike, so the model takes it as a call that returns when the run is over or the time is up. The
  grace time of an error inside the gateway makes no difference to any property here.
* **The recorder page** and the **external linkage** of AITuber Kit: browser code on either side of the
  modelled path. Their ends are modelled (`/voice` as a request, the display as a client of the hub, a
  message as a call of `speakCharacter`); messages lost while the display reconnects are lost in the model
  because a closed client receives nothing.
* **Signals of the voice listener**: wake scores, VAD, ring buffer, levels and the texts
  themselves are data; the model lets every choice they lead to happen.
* **Delivery queue**: the length of the backoff, migration of old entries, media
  and commit hooks; entries of other accounts.
* **Stop texts**: that `/stop` and the like abort the session's run in the middle of a tool call. Of such a
  request only the answer without a `runId` is modelled.
* Rendering, settings and model adapters (no protocol), the session write lock (pids and file
  times), the chat channels of OpenClaw, the signature of the gateway handshake, and WebSocket frame
  encoding.
