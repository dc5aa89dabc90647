------------------------------ MODULE SpeakQueue ------------------------------
(***************************************************************************)
(* The speech pipeline of AITuber Kit: speakCharacter (synthesis, one call *)
(* after the other), SpeakQueue (the playback queue, its processQueue      *)
(* loops, Stop and the completion timer) and the LipSync player.           *)
(*                                                                         *)
(* JavaScript runs a callback to its end: an action is the code between    *)
(* two awaits, the microtasks it resolves included.  A processQueue loop   *)
(* is named by the call whose addTask started it.                          *)
(***************************************************************************)
EXTENDS Naturals, FiniteSets, SequencesExt

CONSTANTS
    Sessions,   \* session ids: one per chat answer or WebSocket message
    NoSession,
    MaxCalls,   \* bound: calls of speakCharacter
    MaxStops    \* bound: presses of Stop

ASSUME SessionAssumption == NoSession \notin Sessions
ASSUME BoundsAssumption == MaxCalls \in Nat /\ MaxStops \in Nat

VARIABLES
    calls,           \* calls of speakCharacter made so far
    job,             \* [Call -> Job]: the calls
    queue,           \* Seq(Call)
    isProcessing,
    currentSession,
    stopped,
    token,           \* stopTokenCounter
    isSpeaking,      \* the flag in homeStore
    loop,            \* [Call -> Loop]: the processQueue loops
    timer,           \* [Call -> BOOLEAN]: their scheduleNeutralExpression
    play,            \* [Call -> PlayState]
    source           \* LipSync.currentSource: a call, or 0

queueVars == <<queue, isProcessing, currentSession, stopped, token, isSpeaking>>
loopVars  == <<loop, timer>>
playVars  == <<play, source>>
vars      == <<calls, job, queueVars, loopVars, playVars>>

Call      == 1..MaxCalls
JobState  == {"idle", "chained", "fetching", "queued", "speaking", "ended", "dropped"}
Job       == [state : JobState, session : Sessions \cup {NoSession}, token : 0..MaxStops]
\* task = 0: no loop of that name is running.
Loop      == [task : 0..MaxCalls, token : 0..MaxStops]
PlayState == {"silent", "decoding", "playing", "cut"}

Init ==
    /\ calls = 0
    /\ job = [c \in Call |-> [state |-> "idle", session |-> NoSession, token |-> 0]]
    /\ queue = <<>>
    /\ isProcessing = FALSE
    /\ currentSession = NoSession
    /\ stopped = FALSE
    /\ token = 0
    /\ isSpeaking = FALSE
    /\ loop = [c \in Call |-> [task |-> 0, token |-> 0]]
    /\ timer = [c \in Call |-> FALSE]
    /\ play = [c \in Call |-> "silent"]
    /\ source = 0

\* Calls C change state.  A task that leaves the queue unspoken is "dropped": its
\* onComplete is never called.
Mark(jb, C, state) == [c \in Call |-> [jb[c] EXCEPT !.state = IF c \in C THEN state ELSE @]]

ClearQueue(jb, q) == Mark(jb, ToSet(q), "dropped")

-----------------------------------------------------------------------------
(* processQueue                                                            *)

\* The loop is left, on an empty queue, a changed token or a cleared flag.  Only
\* with the current token does it schedule the return to the neutral expression.
LeaveLoop(c, tk, q, jb) ==
    /\ queue' = q
    /\ job' = jb
    /\ isProcessing' = FALSE
    /\ loop' = [loop EXCEPT ![c].task = 0]
    /\ timer' = [timer EXCEPT ![c] = tk = token]

\* Slip: the task is read but not shifted.
SpeakNextUnshifted(c, tk, i, q, jb) ==
    /\ queue' = SubSeq(q, i, Len(q))
    /\ job' = Mark(ClearQueue(jb, SubSeq(q, 1, i - 1)), {q[i]}, "speaking")
    /\ loop' = [loop EXCEPT ![c] = [task |-> q[i], token |-> tk]]
    /\ UNCHANGED timer

\* A task is taken and speak is awaited; tasks of old sessions before it go.
SpeakNext(c, tk, i, q, jb) ==
    /\ queue' = SubSeq(q, i + 1, Len(q))
    /\ job' = Mark(ClearQueue(jb, SubSeq(q, 1, i - 1)), {q[i]}, "speaking")
    /\ loop' = [loop EXCEPT ![c] = [task |-> q[i], token |-> tk]]
    /\ UNCHANGED timer

\* The place of the first task of the current session, or 0.
FirstOfSession(q, jb) == SelectInSeq(q, LAMBDA t : jb[t].session = currentSession)

\* The loop from `while` to its next await: q is the queue, jb the calls, flag
\* isSpeaking and processing isProcessing as they are there.
Iterate(c, tk, q, jb, flag, processing) ==
    LET mine == FirstOfSession(q, jb)
    IN  \/ /\ q = <<>> \/ tk # token
           /\ LeaveLoop(c, tk, q, jb)
        \/ /\ tk = token
           /\ ~flag \/ mine = 0
           /\ LeaveLoop(c, tk, <<>>, ClearQueue(jb, q))
        \/ /\ tk = token
           /\ flag /\ mine # 0
           /\ SpeakNext(c, tk, mine, q, jb)
           /\ isProcessing' = processing

\* Slip: a loop is started without a look at isProcessing.
AddTaskUnguarded(c) ==
    LET q  == Append(queue, c)
        jb == Mark(job, {c}, "queued")
    IN  /\ isSpeaking' = TRUE
        /\ \/ /\ stopped
              /\ queue' = <<>>
              /\ job' = ClearQueue(jb, q)
              /\ UNCHANGED <<isProcessing, loopVars, play>>
           \/ /\ ~stopped
              /\ Iterate(c, token, q, jb, TRUE, TRUE)
              /\ play' = [play EXCEPT ![loop'[c].task] = "decoding"]
        /\ UNCHANGED <<currentSession, stopped, token, source>>

\* addTask: push, raise isSpeaking, run processQueue up to its first await.
AddTask(c) ==
    LET q  == Append(queue, c)
        jb == Mark(job, {c}, "queued")
    IN  /\ isSpeaking' = TRUE
        /\ \/ /\ isProcessing
              /\ queue' = q
              /\ job' = jb
              /\ UNCHANGED <<isProcessing, loopVars, play>>
           \/ /\ ~isProcessing /\ stopped
              /\ queue' = <<>>
              /\ job' = ClearQueue(jb, q)
              /\ UNCHANGED <<isProcessing, loopVars, play>>
           \/ /\ ~isProcessing /\ ~stopped
              /\ Iterate(c, token, q, jb, TRUE, TRUE)
              /\ play' = [play EXCEPT ![loop'[c].task] = "decoding"]
        /\ UNCHANGED <<currentSession, stopped, token, source>>

-----------------------------------------------------------------------------
(* speakCharacter                                                          *)

\* checkSessionId, then either nothing to say or a place in the synthesis chain.
SpeakCharacter(c, s) ==
    LET fresh == stopped \/ currentSession # s
    IN  /\ calls < MaxCalls
        /\ c = calls + 1
        /\ calls' = c
        /\ currentSession' = s
        /\ stopped' = FALSE
        /\ isSpeaking' = (fresh \/ isSpeaking)
        /\ queue' = IF fresh THEN <<>> ELSE queue
        /\ \E state \in {"chained", "ended"} :
             job' = [IF fresh THEN ClearQueue(job, queue) ELSE job
                       EXCEPT ![c] = [state |-> state, session |-> s, token |-> token]]
        /\ UNCHANGED <<isProcessing, token, loopVars, playVars>>

\* Slip: the syntheses are not chained.
BeginSynthesisUnchained(c) ==
    /\ job[c].state = "chained"
    /\ job' = Mark(job, {c}, IF job[c].token = token THEN "fetching" ELSE "ended")
    /\ UNCHANGED <<calls, queueVars, loopVars, playVars>>

\* The chain reaches the call: fetch its speech, unless Stop was pressed.
BeginSynthesis(c) ==
    /\ job[c].state = "chained"
    /\ \A d \in 1..(c - 1) : job[d].state \notin {"chained", "fetching"}
    /\ job' = Mark(job, {c}, IF job[c].token = token THEN "fetching" ELSE "ended")
    /\ UNCHANGED <<calls, queueVars, loopVars, playVars>>

\* No speech (an error, an empty answer), or Stop was pressed while it was made.
Discard(c) ==
    /\ job[c].state = "fetching"
    /\ job' = Mark(job, {c}, "ended")
    /\ UNCHANGED <<calls, queueVars, loopVars, playVars>>

\* Slip: the token is not compared again when the speech is there.
SynthesizedUnchecked(c) ==
    /\ job[c].state = "fetching"
    /\ AddTask(c)
    /\ UNCHANGED calls

\* The speech is there and no Stop came between: it is queued.
Synthesized(c) ==
    /\ job[c].state = "fetching"
    /\ job[c].token = token
    /\ AddTask(c)
    /\ UNCHANGED calls

-----------------------------------------------------------------------------
(* The player: LipSync.playFromArrayBuffer and stopCurrentPlayback         *)

StartSound(t) ==
    /\ play[t] = "decoding"
    /\ play' = [play EXCEPT ![t] = "playing"]
    /\ source' = t
    /\ UNCHANGED <<calls, job, queueVars, loopVars>>

\* The sound ended, was cut, or could not be decoded: speak returns to the loop
\* that waits for it, which calls onComplete and goes on; when speak throws it logs
\* the error instead and goes on as well.
SpeakReturns(c) ==
    LET t == loop[c].task
    IN  /\ t # 0
        /\ \/ /\ play[t] = "decoding"
              /\ source' = 0
           \/ /\ play[t] \in {"playing", "cut"}
              /\ source' = IF source = t THEN 0 ELSE source
        /\ Iterate(c, loop[c].token, queue, Mark(job, {t}, "ended"), isSpeaking, isProcessing)
        /\ play' = [u \in Call |-> IF u = loop'[c].task THEN "decoding"
                                   ELSE IF u = t THEN "silent" ELSE play[u]]
        /\ UNCHANGED <<calls, currentSession, stopped, token, isSpeaking>>

-----------------------------------------------------------------------------
(* Stop, the completion timer and the microphone                           *)

\* Slip: isProcessing stays with the loop that was stopped.
StopAllKeepsProcessing ==
    /\ token < MaxStops
    /\ stopped' = TRUE
    /\ token' = token + 1
    /\ queue' = <<>>
    /\ job' = ClearQueue(job, queue)
    /\ isSpeaking' = FALSE
    /\ play' = [t \in Call |-> IF t = source THEN "cut" ELSE play[t]]
    /\ source' = 0
    /\ UNCHANGED <<calls, isProcessing, currentSession, loopVars>>

StopAll ==
    /\ token < MaxStops
    /\ stopped' = TRUE
    /\ isProcessing' = FALSE
    /\ token' = token + 1
    /\ queue' = <<>>
    /\ job' = ClearQueue(job, queue)
    /\ isSpeaking' = FALSE
    /\ play' = [t \in Call |-> IF t = source THEN "cut" ELSE play[t]]
    /\ source' = 0
    /\ UNCHANGED <<calls, currentSession, loopVars>>

\* Slip: the flag is left as it is.
NeutralTimerKeepsFlag(c) ==
    /\ timer[c]
    /\ timer' = [timer EXCEPT ![c] = FALSE]
    /\ IF queue = <<>> /\ ~isProcessing THEN stopped' = FALSE ELSE UNCHANGED stopped
    /\ UNCHANGED <<calls, job, queue, isProcessing, currentSession, token, isSpeaking,
                   loop, playVars>>

\* shouldResetToNeutral after QUEUE_CHECK_DELAY.  The queue was empty when the
\* timer was set: a loop with the current token leaves no other way.
NeutralTimer(c) ==
    /\ timer[c]
    /\ timer' = [timer EXCEPT ![c] = FALSE]
    /\ IF queue = <<>> /\ ~isProcessing
         THEN isSpeaking' = FALSE /\ stopped' = FALSE
         ELSE UNCHANGED <<isSpeaking, stopped>>
    /\ UNCHANGED <<calls, job, queue, isProcessing, currentSession, token, loop, playVars>>

\* toggleListening: the microphone is opened while the character speaks.
ToggleListening ==
    /\ isSpeaking
    /\ isSpeaking' = FALSE
    /\ UNCHANGED <<calls, job, queue, isProcessing, currentSession, stopped, token,
                   loopVars, playVars>>

Next ==
    \/ \E c \in Call :
         \/ \E s \in Sessions : SpeakCharacter(c, s)
         \/ BeginSynthesis(c) \/ Discard(c) \/ Synthesized(c)
         \/ StartSound(c) \/ SpeakReturns(c) \/ NeutralTimer(c)
    \/ StopAll
    \/ ToggleListening

Spec == Init /\ [][Next]_vars

\* Synthesis answers or fails, a sound ends, a timer fires.  Nobody has to speak,
\* to press Stop or to open the microphone.
FairSpec ==
    /\ Spec
    /\ \A c \in Call :
         /\ WF_vars(BeginSynthesis(c))
         /\ WF_vars(Discard(c) \/ Synthesized(c))
         /\ WF_vars(SpeakReturns(c))
         /\ WF_vars(NeutralTimer(c))

-----------------------------------------------------------------------------
(* The contract                                                            *)

\* Of the states of a call, what its caller sees.
PhaseOf(state) ==
    CASE state = "idle" -> "new"
      [] state \in {"chained", "fetching", "queued"} -> "waiting"
      [] state = "speaking" -> "speaking"
      [] state \in {"ended", "dropped"} -> "over"

Phases == [c \in Call |-> PhaseOf(job[c].state)]

Contract == INSTANCE SpeechContract
    WITH phase <- Phases, session <- [c \in Call |-> job[c].session],
         made <- [c \in Call |-> job[c].token], current <- currentSession, stops <- token

-----------------------------------------------------------------------------
(* Properties                                                              *)

\* The loop awaits speak and no Stop has ended it; the call predates no Stop.
Talking(c) == loop[c].task # 0 /\ loop[c].token = token
Current(c) == job[c].token = token

TypeOK ==
    /\ calls \in 0..MaxCalls
    /\ job \in [Call -> Job]
    /\ queue \in Seq(Call) /\ \A c \in ToSet(queue) : job[c].state = "queued"
    /\ isProcessing \in BOOLEAN /\ stopped \in BOOLEAN /\ isSpeaking \in BOOLEAN
    /\ currentSession \in Sessions \cup {NoSession}
    /\ token \in 0..MaxStops
    /\ loop \in [Call -> Loop]
    /\ timer \in [Call -> BOOLEAN]
    /\ play \in [Call -> PlayState]
    /\ source \in 0..MaxCalls

\* Stop is final: no task whose speakCharacter was called before a Stop begins to
\* speak after it, whichever loop, synthesis or timer is still under way.
StopIsFinal ==
    [][\A c \in Call : job[c].state # "speaking" /\ job'[c].state = "speaking" => Current(c)]_vars

\* A queued task never waits for nobody: while the queue is not empty a loop with
\* the current token is awaiting speak, although Stop resets isProcessing under it.
NoStrandedTask ==
    queue # <<>> => \E c \in Call : Talking(c)

\* The stopped flag never catches a call made after the Stop: addTask of a call
\* that passed the token check finds the queue open.
StoppedCatchesOldOnly ==
    stopped => \A c \in Call : job[c].state \in {"chained", "fetching", "queued"} => ~Current(c)

\* The sentences of a session are spoken in the order of their calls: when one
\* begins, none called before it in the same session is still on its way.
SentencesInOrder ==
    [][\A c \in Call : job[c].state # "speaking" /\ job'[c].state = "speaking" =>
         \A d \in 1..(c - 1) :
           Current(d) /\ job[d].session = job[c].session =>
             job'[d].state \notin {"chained", "fetching", "queued"}]_vars

\* The queue, its loops and their tokens implement the speech contract.
ContractHonoured == Contract!Spec

\* At most one more loop is at work for every Stop, those that a Stop has ended
\* and that still await speak included.
Running == {c \in Call : loop[c].task # 0}
LoopsBounded == Cardinality(Running) <= IF isProcessing THEN 1 + token ELSE token

\* Talking ends with isSpeaking lowered, by Stop, the microphone or the completion
\* timer: the flag that hides the send button and holds back the idle mode.
TalkingEnds == \A c \in Call : Talking(c) ~> ~isSpeaking

\* speakQueue.ts:84, in processQueue: no second one is started while another one
\* is at work.  Loops that a Stop has already ended are not counted.
OneLoop == Cardinality({c \in Call : Talking(c)}) <= 1
=============================================================================
