---------------------------- MODULE VoiceListener ----------------------------
(***************************************************************************)
(* voice-listener/voice_listener.py, composed with the interaction bridge: *)
(* one loop that waits for the wake word, may acknowledge it by /speak,    *)
(* records and transcribes an utterance, and hands its text to /send-text. *)
(* The loop blocks in each call until the answer or the call's own time    *)
(* limit; the handler at the bridge goes on after that limit.  Which wake  *)
(* scores, recordings and texts are accepted is a choice.  Every request   *)
(* of the bridge is one of the listener's here, every call of /speak is    *)
(* one of its status messages, and agent runs only talk (HaBridge has the  *)
(* runs that operate devices).                                             *)
(***************************************************************************)
EXTENDS InteractionBridge

CONSTANT AckChoices   \* values of WAKE_ACK_ENABLED

ASSUME AckAssumption == AckChoices \subseteq BOOLEAN

VARIABLES
    ackEnabled,  \* WAKE_ACK_ENABLED, read at the start
    ear          \* [doing : Doing, on : Calls \cup {NoText}]: where the loop is

vlVars == <<ackEnabled, ear>>
vars   == <<ibVars, vlVars>>

Doing == {"listening", "acking", "recording", "sending", "reporting", "cooling"}

At(d)    == [doing |-> d, on |-> NoText]
On(d, c) == [doing |-> d, on |-> c]

Init ==
    /\ IBInit
    /\ ackEnabled \in AckChoices
    /\ ear = At("listening")

\* Bounds: the names left for requests and for status messages (a wake uses two
\* at most); which of them is taken makes no difference.
IdleRequests == {r \in Requests : req[r] = "idle"}
FreshStatus  == {k \in UiCalls : speak[k] = "none"}
NextRequest  == CHOOSE r \in IdleRequests : TRUE
NextStatus   == CHOOSE k \in FreshStatus : TRUE

\* speak_status: the loop blocks in requests.post.
SpeakStatus(d) ==
    /\ SpeakCall(NextStatus)
    /\ ear' = On(d, NextStatus)

\* Enough confirmed chunks: the acknowledgement, or the recording at once.
Wake ==
    /\ ear.doing = "listening"
    /\ IdleRequests # {}
    /\ \E j, k \in FreshStatus : j # k
    /\ \/ /\ ackEnabled
          /\ SpeakStatus("acking")
       \/ /\ ~ackEnabled
          /\ ear' = At("recording")
          /\ UNCHANGED ibVars
    /\ UNCHANGED ackEnabled

\* Slip: requests.post has no timeout.
StatusAnsweredUnlimited(k) == speak[k] \in {"ok", "failed"}

\* requests.post of speak_status: an answer of any kind, or 3 seconds.
StatusAnswered(k) == speak[k] \in {"ok", "failed"} \/ env.timeouts

\* Slip: the acknowledgement is posted without waiting for its answer.
AckReturnsAtOnce ==
    /\ ear.doing = "acking"
    /\ ear' = At("recording")
    /\ UNCHANGED <<ibVars, ackEnabled>>

AckReturns ==
    /\ ear.doing = "acking"
    /\ StatusAnswered(ear.on)
    /\ ear' = At("recording")
    /\ UNCHANGED <<ibVars, ackEnabled>>

\* A recording that is too short or too quiet, with its own cooldown; or a text
\* that is empty, noise or a repeat, without one.
Discard ==
    /\ ear.doing = "recording"
    /\ \E d \in {"cooling", "listening"} : ear' = At(d)
    /\ UNCHANGED <<ibVars, ackEnabled>>

\* The except block, reached before there is a request: transcribe_wav raised.
TranscriptionFails ==
    /\ ear.doing = "recording"
    /\ env.failures
    /\ SpeakStatus("reporting")
    /\ UNCHANGED ackEnabled

\* send_text_to_openclaw.
Send ==
    /\ ear.doing = "recording"
    /\ Submit(NextRequest)
    /\ ear' = On("sending", NextRequest)
    /\ UNCHANGED ackEnabled

\* Slip: 60 seconds and an error status are taken for a reply.
SendReturnsRegardless ==
    /\ ear.doing = "sending"
    /\ ear' = At("cooling")
    /\ UNCHANGED <<ibVars, ackEnabled>>

\* The reply is in, spoken or not.
SendReturns ==
    /\ ear.doing = "sending"
    /\ req[ear.on] = "ok"
    /\ ear' = At("cooling")
    /\ UNCHANGED <<ibVars, ackEnabled>>

\* The except block: an error status, or 60 seconds; the loop says that an
\* error occurred, also while the bridge still works on the request.
SendFails ==
    /\ ear.doing = "sending"
    /\ req[ear.on] \in {"error", "refused"} \/ (env.timeouts /\ req[ear.on] # "ok")
    /\ SpeakStatus("reporting")
    /\ UNCHANGED ackEnabled

ReportReturns ==
    /\ ear.doing = "reporting"
    /\ StatusAnswered(ear.on)
    /\ ear' = At("cooling")
    /\ UNCHANGED <<ibVars, ackEnabled>>

\* Cooldown, debounce and the resets of the wake model.
CoolDown ==
    /\ ear.doing = "cooling"
    /\ ear' = At("listening")
    /\ UNCHANGED <<ibVars, ackEnabled>>

\* The bridge and the gateway.
BridgeStep ==
    \/ \E r \in Requests :
         \/ RequestStep(r) \/ GatewayError(r)
         \/ RunStart(r) \/ RunSays(r) \/ RunEnd(r)
    \/ \E k \in UiCalls : SpeakStep(k)

LoopStep == AckReturns \/ SendReturns \/ SendFails \/ ReportReturns \/ CoolDown

Next ==
    \/ BridgeStep /\ UNCHANGED vlVars
    \/ Wake
    \/ Discard
    \/ TranscriptionFails
    \/ Send
    \/ LoopStep

Spec == Init /\ [][Next]_vars

\* Fairness of the bridge's request handlers and of the loop: a blocked call
\* ends at the latest with its time limit, a sleep ends, and a recording ends at
\* MAX_RECORD_SECONDS and its transcription with the client's own limit.  Agent
\* runs, the hub and the gateway may hang.
FairSpec ==
    /\ Spec
    /\ \A r \in Requests : WF_vars(RequestStep(r) /\ UNCHANGED vlVars)
    /\ WF_vars(LoopStep)
    /\ WF_vars(Discard \/ TranscriptionFails \/ Send)

-----------------------------------------------------------------------------
(* Properties                                                              *)

TypeOK ==
    /\ IBTypeOK
    /\ ackEnabled \in BOOLEAN
    /\ ear \in [doing : Doing, on : Calls \cup {NoText}]
    /\ ear.doing \in {"acking", "reporting"} => ear.on \in UiCalls
    /\ ear.doing = "sending" => ear.on \in Requests

\* The listener's own status messages never keep the bridge from speaking the
\* reply: the acknowledgement is over before the request begins, unless a time
\* limit cut it short.  (Nothing else calls /speak in this composition.)
StatusNeverSilencesReply ==
    ~env.timeouts => \A r \in Requests : outcome[r] # "skipped"

\* The microphone is open only when the bridge has nothing more to say: while no
\* time limit expires, the loop does not come back to the wake word, or to the
\* recording, with a request or a status message still on its way.
ListensWhenQuiet ==
    ~env.timeouts /\ ear.doing \in {"listening", "recording"} =>
        /\ \A r \in Requests : ~InFlight(r)
        /\ \A k \in Calls : speak[k] \notin {"sending", "delivered"}

\* The user is listened to again after every wake word, whatever hangs behind
\* the bridge: with the time limits no call holds the loop for good.
ListensAgain ==
    env.timeouts => (ear.doing # "listening" ~> ear.doing = "listening")
=============================================================================
