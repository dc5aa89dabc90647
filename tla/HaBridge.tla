------------------------------ MODULE HaBridge ------------------------------
(***************************************************************************)
(* openclaw/ha-bridge/main.py, composed with the interaction bridge: an    *)
(* agent run calls /run/{action}, the bridge posts to Home Assistant and,  *)
(* when that succeeded, makes the character say so through /speak of the   *)
(* interaction bridge.  The run waits for the answer of its call.  A run   *)
(* makes at most one call here; Home Assistant is external.                *)
(***************************************************************************)
EXTENDS InteractionBridge

CONSTANT EnabledChoices   \* values of speakEnabled

ASSUME EnabledAssumption == EnabledChoices \subseteq BOOLEAN

VARIABLES
    speakEnabled,  \* SPEAK_ENABLED and SPEAK_URL are set; read at the start
    call,      \* [Requests -> CallState]: the /run call of an agent run
    operated   \* [Requests -> BOOLEAN]: Home Assistant carried the service out

hbVars == <<speakEnabled, call, operated>>
vars   == <<ibVars, hbVars>>

\* "failed" is the 502 of run_action; the last three are the "speak" field of
\* its answer.
Answered  == {"denied", "failed", "disabled", "spoken", "speakError"}
CallState == {"none", "ha", "speaking"} \cup Answered

Init ==
    /\ IBInit
    /\ speakEnabled \in EnabledChoices
    /\ call = [r \in Requests |-> "none"]
    /\ operated = [r \in Requests |-> FALSE]

\* run_action: an action that is not in devices.yaml is refused with 403.
RunAction(r) ==
    /\ run[r] = "running"
    /\ call[r] = "none"
    /\ said[r] = NoText
    /\ \E next \in {"ha", "denied"} : call' = [call EXCEPT ![r] = next]
    /\ UNCHANGED <<ibVars, speakEnabled, operated>>

\* Home Assistant answers with success: speak_after_action posts to /speak.
HaSucceeds(r) ==
    /\ call[r] = "ha"
    /\ operated' = [operated EXCEPT ![r] = TRUE]
    /\ UNCHANGED speakEnabled
    /\ \/ /\ speakEnabled
          /\ SpeakCall(r)
          /\ call' = [call EXCEPT ![r] = "speaking"]
       \/ /\ ~speakEnabled
          /\ call' = [call EXCEPT ![r] = "disabled"]
          /\ UNCHANGED ibVars

\* Slip: no raise_for_status, so a refused service is spoken of as well.
HaFailsUnnoticed(r) ==
    /\ env.failures
    /\ call[r] = "ha"
    /\ SpeakCall(r)
    /\ call' = [call EXCEPT ![r] = "speaking"]
    /\ UNCHANGED <<speakEnabled, operated>>

\* An error status or the 10 second limit: 502, although with the limit the
\* service may have been carried out all the same.
HaFails(r) ==
    /\ env.failures
    /\ call[r] = "ha"
    /\ \E done \in {FALSE, env.timeouts} : operated' = [operated EXCEPT ![r] = done]
    /\ call' = [call EXCEPT ![r] = "failed"]
    /\ UNCHANGED <<ibVars, speakEnabled>>

\* /speak answers with success or with 502.
SpeakAnswers(r) ==
    /\ call[r] = "speaking"
    /\ \/ speak[r] = "ok" /\ call' = [call EXCEPT ![r] = "spoken"]
       \/ speak[r] = "failed" /\ call' = [call EXCEPT ![r] = "speakError"]
    /\ UNCHANGED <<ibVars, speakEnabled, operated>>

\* Slip: the limit covers the answer but not the time before the message is out.
SpeakTimesOutLate(r) ==
    /\ env.timeouts
    /\ call[r] = "speaking"
    /\ speak[r] = "delivered"
    /\ call' = [call EXCEPT ![r] = "speakError"]
    /\ UNCHANGED <<ibVars, speakEnabled, operated>>

\* requests.post gives up after 10 seconds; the handler of /speak goes on.
SpeakTimesOut(r) ==
    /\ env.timeouts
    /\ call[r] = "speaking"
    /\ speak[r] \in {"sending", "delivered"}
    /\ call' = [call EXCEPT ![r] = "speakError"]
    /\ UNCHANGED <<ibVars, speakEnabled, operated>>

CallStep(r) == HaSucceeds(r) \/ HaFails(r) \/ SpeakAnswers(r) \/ SpeakTimesOut(r)

\* The agent speaks and ends only after its tool call has been answered.
ToolAnswered(r) == call[r] \in {"none"} \cup Answered

Next ==
    \/ \E r \in Requests :
         \/ (Submit(r) \/ RequestStep(r) \/ GatewayError(r)) /\ UNCHANGED hbVars
         \/ (RunStart(r) \/ SpeakStep(r)) /\ UNCHANGED hbVars
         \/ ToolAnswered(r) /\ (RunSays(r) \/ RunEnd(r)) /\ UNCHANGED hbVars
         \/ RunAction(r) \/ CallStep(r)
    \/ \E k \in UiCalls : (SpeakCall(k) \/ SpeakStep(k)) /\ UNCHANGED hbVars

Spec == Init /\ [][Next]_vars

\* Fairness of the two bridges: their coroutines and threads go on, the gateway
\* answers requests and time limits expire.  An agent run may hang, and /speak
\* may hang in the hub; those have limits.
FairSpec ==
    /\ Spec
    /\ \A r \in Requests : WF_vars(RequestStep(r) /\ UNCHANGED hbVars)
    /\ \A r \in Requests : WF_vars(CallStep(r))

-----------------------------------------------------------------------------
(* Properties                                                              *)

TypeOK ==
    /\ IBTypeOK
    /\ call \in [Requests -> CallState]
    /\ operated \in [Requests -> BOOLEAN]
    /\ speakEnabled \in BOOLEAN

\* The character speaks of a device only after Home Assistant operated it.
OperatedBeforeSpoken == \A r \in Requests : r \in uttered => operated[r]

\* README, browser voice input, item 7: when /speak was called its utterance
\* takes precedence and the request is not spoken twice.
SpokenTwice(r) == r \in uttered /\ \E o \in Requests : <<o, r>> \in uttered
NoDoubleSpeech == \A r \in Requests : ~SpokenTwice(r)

\* What the code does ensure of it while no time limit expires: a run that spoke
\* for itself is never repeated by its own request, failures or not; and without
\* failures by no other either, except one in flight together with it whose own
\* run ended without a word and that takes this reply for its own.
RepeatedInTimeOnlyByMute ==
    ~env.timeouts =>
        \A r, o \in Requests : r \in uttered /\ <<o, r>> \in uttered =>
            /\ o # r
            /\ env.failures \/ (env.overlap /\ said[o] = NoText)

\* A request that is alone, in time and without failures has the character say
\* the reply of its own run and of no other.
OnlyOwnReply ==
    env = [overlap |-> FALSE, timeouts |-> FALSE, failures |-> FALSE] =>
        \A r, o \in Requests : <<r, o>> \in uttered => o = r

\* README, browser voice input, item 5: OpenClaw's reply to casual talk (a run
\* that called no action) is spoken, or its failure is reported.
TalkReply(r) == req[r] = "ok" /\ call[r] = "none" /\ run[r] = "done" /\ said[r] # NoText
TalkReplySpoken ==
    \A r \in Requests : TalkReply(r) => <<r, r>> \in uttered \/ outcome[r] = "failed"

\* What the code does ensure of it: alone, in time, with nobody else using
\* /speak, and with a text that is not the one the session said before.
NewTalkReplySpoken ==
    /\ env = [overlap |-> FALSE, timeouts |-> FALSE, failures |-> FALSE]
    /\ \A k \in UiCalls : speak[k] = "none"
    => \A r \in Requests : TalkReply(r) /\ said[r] # prev[r] => <<r, r>> \in uttered

\* Every request is answered although agent runs may hang, when agent.wait has
\* its time limit.
RequestAnswered ==
    env.timeouts => \A r \in Requests : InFlight(r) ~> req[r] \in Finished

\* Every /run call is answered although /speak may hang: the 10 second limits.
CallAnswered ==
    env.timeouts => \A r \in Requests : call[r] = "speaking" ~> call[r] \in Answered
=============================================================================
