-------------------------- MODULE InteractionBridge --------------------------
(***************************************************************************)
(* openclaw/interaction-bridge/main.py: the FastAPI service that sends the *)
(* user's text to the OpenClaw gateway, waits for the agent's reply and    *)
(* has the character say it, and that offers /speak to everything else.    *)
(*                                                                         *)
(* Handlers are coroutines of one event loop, so a handler is cut at its   *)
(* awaits and at nothing else.  The comparison of last_speak_at_monotonic  *)
(* with run_started_at is kept as one flag per request, spokeDuring: a     *)
(* /speak that completes sets it for every request in flight, because only *)
(* those started before it.  The gateway is external: one session lane     *)
(* that runs one agent run at a time, and one chat history of which only   *)
(* the latest assistant entry is ever used.                                *)
(***************************************************************************)
EXTENDS Naturals, Sequences, FiniteSets

CONSTANTS
    Requests,      \* calls of /send-text and /voice
    UiCalls,       \* calls of /speak by the page or the voice listener
    Texts,         \* what an assistant entry may say
    NoText,        \* Python's None
    OverlapChoices, \* values of env.overlap: requests may be in flight together
    TimeoutChoices, \* values of env.timeouts: time limits may expire early
    FailureChoices  \* values of env.failures: gateway and hub may fail

ASSUME NoTextAssumption == NoText \notin Texts
ASSUME CallsAssumption == UiCalls \cap Requests = {}
ASSUME EnvAssumption ==
    OverlapChoices \cup TimeoutChoices \cup FailureChoices \subseteq BOOLEAN

\* A request of ha-bridge to /speak is named by the agent run that made it.
Calls == UiCalls \cup Requests

\* In uttered a reply is a pair of requests: never to be taken for a call.
ASSUME PairsAssumption == Calls \cap (Requests \X Requests) = {}

VARIABLES
    env,         \* what the surroundings may do; drawn at the start, then fixed
    req,         \* [Requests -> ReqState]: where a send_to_openclaw call is
    prev,        \* [Requests -> Texts or NoText]: previous_assistant_text
    heard,       \* [Requests -> entries]: the latest entry chat.history gave
    spokeDuring, \* [Requests -> BOOLEAN]: last_speak_at >= run_started_at
    outcome,     \* [Requests -> Outcome]: assistant_text_spoken and its reason
    speak,       \* [Calls -> SpeakState]: where a /speak call is
    uttered,     \* what reached the character hub: calls and <<request, run>>
    lane,        \* gateway: the queued runs of the session, first one active
    run,         \* gateway: [Requests -> RunState]
    latest,      \* gateway: the latest assistant entry of the session
    said         \* gateway: [Requests -> Texts or NoText]: what each run said

reqVars     == <<req, prev, heard, spokeDuring, outcome>>
gatewayVars == <<lane, run, latest, said>>
ibVars      == <<env, reqVars, speak, uttered, gatewayVars>>

ReqState   == {"idle", "connecting", "sending", "waiting", "reading", "deciding",
               "speaking", "ok", "error", "refused"}
Finished   == {"ok", "error", "refused"}
Outcome    == {"none", "spoken", "skipped", "failed"}
SpeakState == {"none", "sending", "delivered", "ok", "failed"}
RunState   == {"none", "queued", "running", "done"}
Entry      == [of : Requests, text : Texts]
NoEntry    == [of |-> NoText, text |-> NoText]

InFlight(r) == req[r] \notin {"idle"} \cup Finished

IBInit ==
    /\ env \in [overlap : OverlapChoices, timeouts : TimeoutChoices,
               failures : FailureChoices]
    /\ req = [r \in Requests |-> "idle"]
    /\ prev = [r \in Requests |-> NoText]
    /\ heard = [r \in Requests |-> NoEntry]
    /\ spokeDuring = [r \in Requests |-> FALSE]
    /\ outcome = [r \in Requests |-> "none"]
    /\ speak = [k \in Calls |-> "none"]
    /\ uttered = {}
    /\ lane = <<>>
    /\ run = [r \in Requests |-> "none"]
    /\ latest = NoEntry
    /\ said = [r \in Requests |-> NoText]

-----------------------------------------------------------------------------
(* /send-text and /voice                                                   *)

\* Slip: any earlier /speak counts, run_started_at is not looked at.
SubmitEverSpoken(r) ==
    /\ req[r] = "idle"
    /\ env.overlap \/ \A o \in Requests : ~InFlight(o)
    /\ \E next \in {"connecting", "refused"} : req' = [req EXCEPT ![r] = next]
    /\ spokeDuring' = [spokeDuring EXCEPT ![r] = \E k \in Calls : speak[k] = "ok"]
    /\ UNCHANGED <<env, prev, heard, outcome, speak, uttered, gatewayVars>>

\* The handler up to the first await of send_to_openclaw.  An empty text, from
\* the form or from the transcription, ends the request there, as does a
\* transcription that fails; run_started_at is taken before the connection.
Submit(r) ==
    /\ req[r] = "idle"
    /\ env.overlap \/ \A o \in Requests : ~InFlight(o)
    /\ \E next \in {"connecting", "refused"} : req' = [req EXCEPT ![r] = next]
    /\ spokeDuring' = [spokeDuring EXCEPT ![r] = FALSE]
    /\ UNCHANGED <<env, prev, heard, outcome, speak, uttered, gatewayVars>>

\* Slip: the entry itself is kept, its text is not extracted.
FetchPreviousEntry(r) ==
    /\ req[r] = "connecting"
    /\ prev' = [prev EXCEPT ![r] = latest]
    /\ req' = [req EXCEPT ![r] = "sending"]
    /\ UNCHANGED <<env, heard, spokeDuring, outcome, speak, uttered, gatewayVars>>

\* The handshake and the first chat.history: remember what the session said last.
FetchPrevious(r) ==
    /\ req[r] = "connecting"
    /\ prev' = [prev EXCEPT ![r] = latest.text]
    /\ req' = [req EXCEPT ![r] = "sending"]
    /\ UNCHANGED <<env, heard, spokeDuring, outcome, speak, uttered, gatewayVars>>

\* chat.send is accepted and the run joins the session's lane; or it is answered
\* without a runId, as a stop text is, and there is no reply to wait for.
ChatSend(r) ==
    /\ req[r] = "sending"
    /\ \/ /\ lane' = Append(lane, r)
          /\ run' = [run EXCEPT ![r] = "queued"]
          /\ req' = [req EXCEPT ![r] = "waiting"]
       \/ /\ req' = [req EXCEPT ![r] = "ok"]
          /\ UNCHANGED <<lane, run>>
    /\ UNCHANGED <<env, prev, heard, spokeDuring, outcome, speak, uttered, latest, said>>

\* A refused connection, a response that is not ok, a socket that closes: the
\* exception leaves send_to_openclaw and the handler answers 502.  In "waiting" it
\* is the socket that closes: agent.wait swallows that, chat.history does not.
GatewayError(r) ==
    /\ env.failures
    /\ req[r] \in {"connecting", "sending", "waiting", "reading"}
    /\ req' = [req EXCEPT ![r] = "error"]
    /\ UNCHANGED <<env, prev, heard, spokeDuring, outcome, speak, uttered, gatewayVars>>

\* Slips: agent.wait is not awaited; it has no timeoutMs.
WaitReturnsAtOnce(r) ==
    /\ req[r] = "waiting"
    /\ req' = [req EXCEPT ![r] = "reading"]
    /\ UNCHANGED <<env, prev, heard, spokeDuring, outcome, speak, uttered, gatewayVars>>

WaitReturnsUnlimited(r) ==
    /\ req[r] = "waiting"
    /\ run[r] = "done" \/ env.failures
    /\ req' = [req EXCEPT ![r] = "reading"]
    /\ UNCHANGED <<env, prev, heard, spokeDuring, outcome, speak, uttered, gatewayVars>>

\* agent.wait returns because the run ended, because its time is up, or because
\* the call failed on an open socket; the code does not distinguish.
WaitReturns(r) ==
    /\ req[r] = "waiting"
    /\ run[r] = "done" \/ env.timeouts \/ env.failures
    /\ req' = [req EXCEPT ![r] = "reading"]
    /\ UNCHANGED <<env, prev, heard, spokeDuring, outcome, speak, uttered, gatewayVars>>

\* The gateway answers the second chat.history.
FetchLatest(r) ==
    /\ req[r] = "reading"
    /\ heard' = [heard EXCEPT ![r] = latest]
    /\ req' = [req EXCEPT ![r] = "deciding"]
    /\ UNCHANGED <<env, prev, spokeDuring, outcome, speak, uttered, gatewayVars>>

\* The answer arrives: is there a new text, and has /speak been called since?
Decide(r) ==
    /\ req[r] = "deciding"
    /\ \/ /\ heard[r].text \in {NoText, prev[r]}
          /\ req' = [req EXCEPT ![r] = "ok"]
          /\ UNCHANGED outcome
       \/ /\ heard[r].text \notin {NoText, prev[r]}
          /\ spokeDuring[r]
          /\ req' = [req EXCEPT ![r] = "ok"]
          /\ outcome' = [outcome EXCEPT ![r] = "skipped"]
       \/ /\ heard[r].text \notin {NoText, prev[r]}
          /\ ~spokeDuring[r]
          /\ req' = [req EXCEPT ![r] = "speaking"]
          /\ UNCHANGED outcome
    /\ UNCHANGED <<env, prev, heard, spokeDuring, speak, uttered, gatewayVars>>

\* send_to_aituber for the reply; its failure is reported and swallowed.
SpeakReply(r) ==
    /\ req[r] = "speaking"
    /\ \/ /\ uttered' = uttered \cup {<<r, heard[r].of>>}
          /\ outcome' = [outcome EXCEPT ![r] = "spoken"]
       \/ /\ env.failures
          /\ outcome' = [outcome EXCEPT ![r] = "failed"]
          /\ UNCHANGED uttered
    /\ req' = [req EXCEPT ![r] = "ok"]
    /\ UNCHANGED <<env, prev, heard, spokeDuring, speak, gatewayVars>>

-----------------------------------------------------------------------------
(* /speak                                                                  *)

SpeakCall(k) ==
    /\ speak[k] = "none"
    /\ speak' = [speak EXCEPT ![k] = "sending"]
    /\ UNCHANGED <<env, reqVars, uttered, gatewayVars>>

\* ws.send: the hub has the message, the handler is still in send_to_aituber.
SpeakDeliver(k) ==
    /\ speak[k] = "sending"
    /\ speak' = [speak EXCEPT ![k] = "delivered"]
    /\ uttered' = uttered \cup {k}
    /\ UNCHANGED <<env, reqVars, gatewayVars>>

\* Slip: the time of the speech is not recorded.
SpeakDoneUnrecorded(k) ==
    /\ speak[k] = "delivered"
    /\ speak' = [speak EXCEPT ![k] = "ok"]
    /\ UNCHANGED <<env, reqVars, uttered, gatewayVars>>

\* send_to_aituber returns: only now is last_speak_at_monotonic set.
SpeakDone(k) ==
    /\ speak[k] = "delivered"
    /\ speak' = [speak EXCEPT ![k] = "ok"]
    /\ spokeDuring' = [r \in Requests |-> spokeDuring[r] \/ InFlight(r)]
    /\ UNCHANGED <<env, req, prev, heard, outcome, uttered, gatewayVars>>

\* The hub cannot be reached: 502, and the time of the last speech is kept.
SpeakFail(k) ==
    /\ env.failures
    /\ speak[k] = "sending"
    /\ speak' = [speak EXCEPT ![k] = "failed"]
    /\ UNCHANGED <<env, reqVars, uttered, gatewayVars>>

-----------------------------------------------------------------------------
(* The gateway's session, as far as the bridge sees it (external)          *)

RunStart(r) ==
    /\ lane # <<>>
    /\ Head(lane) = r
    /\ run[r] = "queued"
    /\ run' = [run EXCEPT ![r] = "running"]
    /\ UNCHANGED <<env, reqVars, speak, uttered, lane, latest, said>>

\* The run appends its assistant entry to the history (once, in this model).
RunSays(r) ==
    /\ run[r] = "running"
    /\ said[r] = NoText
    /\ \E t \in Texts : /\ latest' = [of |-> r, text |-> t]
                       /\ said' = [said EXCEPT ![r] = t]
    /\ UNCHANGED <<env, reqVars, speak, uttered, lane, run>>

RunEnd(r) ==
    /\ run[r] = "running"
    /\ run' = [run EXCEPT ![r] = "done"]
    /\ lane' = Tail(lane)
    /\ UNCHANGED <<env, reqVars, speak, uttered, latest, said>>

\* What the bridge does of its own accord for a request, errors left aside.
RequestStep(r) ==
    \/ FetchPrevious(r) \/ ChatSend(r) \/ WaitReturns(r)
    \/ FetchLatest(r) \/ Decide(r) \/ SpeakReply(r)

SpeakStep(k) == SpeakDeliver(k) \/ SpeakDone(k) \/ SpeakFail(k)

\* The types of the bridge's variables, for the modules that compose it.
IBTypeOK ==
    /\ env \in [overlap : BOOLEAN, timeouts : BOOLEAN, failures : BOOLEAN]
    /\ req \in [Requests -> ReqState]
    /\ prev \in [Requests -> Texts \cup {NoText}]
    /\ heard \in [Requests -> Entry \cup {NoEntry}]
    /\ spokeDuring \in [Requests -> BOOLEAN]
    /\ outcome \in [Requests -> Outcome]
    /\ speak \in [Calls -> SpeakState]
    /\ uttered \subseteq Calls \cup (Requests \X Requests)
    /\ lane \in Seq(Requests)
    /\ run \in [Requests -> RunState]
    /\ latest \in Entry \cup {NoEntry}
    /\ said \in [Requests -> Texts \cup {NoText}]
=============================================================================
