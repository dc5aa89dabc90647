--------------------------- MODULE HaBridgeProofs ---------------------------
(***************************************************************************)
(* Proofs about HaBridge, for any requests, /speak calls and texts and for *)
(* every choice of what the surroundings may do.                           *)
(***************************************************************************)
EXTENDS HaBridge, InteractionBridgeProofs

InTime == ~env.timeouts
Calm   == env = [overlap |-> FALSE, timeouts |-> FALSE, failures |-> FALSE]
Quiet  == \A k \in UiCalls : speak[k] = "none"

\* The run of a request: there is none before chat.send, its call is answered when
\* it speaks or ends, and in time it is over when agent.wait returns.
RunsFit ==
    \A r \in Requests :
        /\ req[r] \in {"idle", "connecting", "sending", "refused"} => run[r] = "none"
        /\ run[r] \in {"none", "queued"} => call[r] = "none" /\ said[r] = NoText
        /\ run[r] = "done" \/ said[r] # NoText => ToolAnswered(r)
        /\ InTime /\ ~env.failures =>
             /\ req[r] \in {"reading", "deciding", "speaking"} => run[r] = "done"
             /\ req[r] = "ok" => run[r] \in {"none", "done"}

\* The /speak call of a /run call: made after the operation, and over before
\* the /run call is, unless the 10 second limit ended that one.
CallsFit ==
    /\ \A r \in Requests :
         /\ call[r] \in {"none", "ha", "denied", "disabled", "failed"} => speak[r] = "none"
         /\ InTime /\ call[r] = "spoken" => speak[r] = "ok"
         /\ InTime /\ call[r] = "speakError" => speak[r] = "failed"
         /\ speak[r] # "none" => operated[r]
         /\ speak[r] = "ok" /\ InFlight(r) => spokeDuring[r]
    /\ \A k \in Calls : k \in uttered <=> speak[k] \in {"delivered", "ok"}

\* A reply that is known to the history, to a handler or to the hub is one that
\* its run has given.
From(e, r) == e # NoEntry /\ e.of = r

SaidFits ==
    \A r \in Requests :
        /\ From(latest, r) => said[r] # NoText
        /\ \A o \in Requests : /\ From(heard[o], r) => said[r] # NoText
                               /\ <<o, r>> \in uttered => said[r] # NoText

\* In time: a handler that speaks the reply of its own run, or has spoken it, is
\* the only one to speak for that run.
SpeechFits ==
    InTime => \A r \in Requests :
        /\ req[r] = "speaking" /\ From(heard[r], r) => r \notin uttered
        /\ <<r, r>> \in uttered => r \notin uttered

\* In time and without failures: when the run of o has given a reply, a later run
\* of the session that speaks for itself does so during o.  So o speaks the reply
\* of such a run only if its own run gave none.
TakeoverOf(o, r) ==
    /\ req[o] \in {"waiting", "reading"} /\ said[o] # NoText =>
         /\ run[r] = "running" /\ speak[r] = "ok" => spokeDuring[o]
         /\ From(latest, r) /\ r \in uttered => spokeDuring[o]
    /\ From(heard[o], r) /\ r \in uttered /\ said[o] # NoText =>
         /\ req[o] = "deciding" => spokeDuring[o]
         /\ req[o] # "speaking"
    /\ <<o, r>> \in uttered =>
         /\ run[o] = "done"
         /\ r \in uttered => said[o] = NoText

TakeoverFits ==
    InTime /\ ~env.failures =>
        \A o \in Requests : \A r \in Requests \ {o} : TakeoverOf(o, r)

\* Alone, in time and without failures: one request at a time.
AloneFits ==
    Calm => \A r \in Requests :
        /\ req[r] # "error"
        /\ \A o \in Requests : InFlight(r) /\ InFlight(o) => r = o

\* Alone, in time and without failures: what a request has read of the history
\* is what was there before it or what its own run said.
Own(r, e) == e = [of |-> r, text |-> said[r]]

HistoryFits ==
    Calm => \A r \in Requests :
        /\ req[r] = "sending" => prev[r] = latest.text
        /\ req[r] \in {"waiting", "reading"} =>
             /\ latest.text = prev[r] \/ latest.of = r
             /\ said[r] # NoText => Own(r, latest)
        /\ req[r] \in {"deciding", "speaking"} =>
             /\ heard[r].text = prev[r] \/ heard[r].of = r
             /\ said[r] # NoText => Own(r, heard[r])
        /\ req[r] = "speaking" => heard[r].text # prev[r]
        /\ Quiet /\ InFlight(r) /\ spokeDuring[r] => call[r] # "none"

IInv ==
    /\ TypeOK
    /\ LaneFits
    /\ RunsFit
    /\ CallsFit
    /\ SaidFits
    /\ SpeechFits
    /\ TakeoverFits
    /\ AloneFits
    /\ HistoryFits
    /\ OnlyOwnReply
    /\ NewTalkReplySpoken

-----------------------------------------------------------------------------
(* Steps                                                                   *)

\* Types are kept.
LEMMA TypeStep ==
    ASSUME TypeOK, LaneFits, Next
    PROVE  TypeOK' /\ LaneFits'
<1>1. IBTypeOK
  BY DEF TypeOK
<1>2. ASSUME NEW r \in Requests, Submit(r) \/ RequestStep(r) \/ GatewayError(r), UNCHANGED hbVars
      PROVE  TypeOK' /\ LaneFits'
  BY <1>1, <1>2, RequestTypes DEF hbVars, TypeOK
<1>3. ASSUME NEW k \in Calls, SpeakCall(k) \/ SpeakStep(k), UNCHANGED hbVars
      PROVE  TypeOK' /\ LaneFits'
  BY <1>1, <1>3, SpeakTypes DEF hbVars, TypeOK
<1>4. ASSUME NEW r \in Requests, RunStart(r) \/ RunSays(r) \/ RunEnd(r), UNCHANGED hbVars
      PROVE  TypeOK' /\ LaneFits'
  BY <1>1, <1>4, RunTypes DEF hbVars, TypeOK
<1>5. ASSUME NEW r \in Requests, RunAction(r) \/ SpeakAnswers(r) \/ SpeakTimesOut(r)
      PROVE  TypeOK' /\ LaneFits'
  <2>1. IBTypeOK' /\ LaneFits'
    BY <1>1, <1>5, StutterTypes DEF RunAction, SpeakAnswers, SpeakTimesOut
  <2> QED
    BY <1>5, <2>1 DEF RunAction, SpeakAnswers, SpeakTimesOut, TypeOK, CallState, Answered
<1>6. ASSUME NEW r \in Requests, HaSucceeds(r) PROVE TypeOK' /\ LaneFits'
  <2>1. operated' \in [Requests -> BOOLEAN] /\ speakEnabled' \in BOOLEAN
    BY <1>6 DEF HaSucceeds, TypeOK
  <2>2. call' \in [Requests -> CallState]
    BY <1>6 DEF HaSucceeds, TypeOK, CallState, Answered
  <2>3. SpeakCall(r) \/ UNCHANGED ibVars
    BY <1>6 DEF HaSucceeds
  <2>4. IBTypeOK' /\ LaneFits'
    BY <1>1, <2>3, SpeakTypes, StutterTypes DEF Calls
  <2> QED BY <2>1, <2>2, <2>4 DEF TypeOK
<1>7. ASSUME NEW r \in Requests, HaFails(r) PROVE TypeOK' /\ LaneFits'
  <2>1. env.timeouts \in BOOLEAN
    BY <1>1 DEF IBTypeOK
  <2>2. operated' \in [Requests -> BOOLEAN]
    BY <1>7, <2>1 DEF HaFails, TypeOK
  <2>3. IBTypeOK' /\ LaneFits'
    BY <1>1, <1>7, StutterTypes DEF HaFails
  <2> QED BY <1>7, <2>2, <2>3 DEF HaFails, TypeOK, CallState, Answered
<1> QED
  BY <1>2, <1>3, <1>4, <1>5, <1>6, <1>7 DEF Next, CallStep, Calls

\* The order of a request and its run is kept.
LEMMA RunsStep ==
    ASSUME TypeOK, RunsFit, Next
    PROVE  RunsFit'
<1> USE DEF hbVars, ibVars, reqVars, gatewayVars, TypeOK, IBTypeOK, RunsFit, InTime,
            ToolAnswered, Answered
<1>1. ASSUME NEW r \in Requests, Submit(r), UNCHANGED hbVars PROVE RunsFit'
  BY <1>1 DEF Submit
<1>2. ASSUME NEW r \in Requests, GatewayError(r), UNCHANGED hbVars PROVE RunsFit'
  BY <1>2 DEF GatewayError
<1>3. ASSUME NEW r \in Requests, FetchPrevious(r), UNCHANGED hbVars PROVE RunsFit'
  BY <1>3 DEF FetchPrevious
<1>4. ASSUME NEW r \in Requests, ChatSend(r), UNCHANGED hbVars PROVE RunsFit'
  BY <1>4 DEF ChatSend
<1>5. ASSUME NEW r \in Requests, WaitReturns(r), UNCHANGED hbVars PROVE RunsFit'
  BY <1>5 DEF WaitReturns
<1>6. ASSUME NEW r \in Requests, FetchLatest(r), UNCHANGED hbVars PROVE RunsFit'
  BY <1>6 DEF FetchLatest
<1>7. ASSUME NEW r \in Requests, Decide(r), UNCHANGED hbVars PROVE RunsFit'
  BY <1>7 DEF Decide
<1>8. ASSUME NEW r \in Requests, SpeakReply(r), UNCHANGED hbVars PROVE RunsFit'
  BY <1>8 DEF SpeakReply
<1>9. ASSUME NEW r \in Requests, RunStart(r), UNCHANGED hbVars PROVE RunsFit'
  BY <1>9 DEF RunStart
<1>10. ASSUME NEW k \in UiCalls, SpeakCall(k), UNCHANGED hbVars PROVE RunsFit'
  BY <1>10 DEF SpeakCall
<1>11. ASSUME NEW k \in Calls, SpeakDeliver(k), UNCHANGED hbVars PROVE RunsFit'
  BY <1>11 DEF SpeakDeliver
<1>12. ASSUME NEW k \in Calls, SpeakDone(k), UNCHANGED hbVars PROVE RunsFit'
  BY <1>12 DEF SpeakDone
<1>13. ASSUME NEW k \in Calls, SpeakFail(k), UNCHANGED hbVars PROVE RunsFit'
  BY <1>13 DEF SpeakFail
<1>14. ASSUME NEW r \in Requests, RunSays(r), ToolAnswered(r), UNCHANGED hbVars PROVE RunsFit'
  BY <1>14 DEF RunSays
<1>15. ASSUME NEW r \in Requests, RunEnd(r), ToolAnswered(r), UNCHANGED hbVars PROVE RunsFit'
  BY <1>15 DEF RunEnd
<1>16. ASSUME NEW r \in Requests, RunAction(r) PROVE RunsFit'
  BY <1>16 DEF RunAction
<1>17. ASSUME NEW r \in Requests, HaSucceeds(r) PROVE RunsFit'
  BY <1>17 DEF HaSucceeds, SpeakCall
<1>18. ASSUME NEW r \in Requests, HaFails(r) PROVE RunsFit'
  BY <1>18 DEF HaFails
<1>19. ASSUME NEW r \in Requests, SpeakAnswers(r) PROVE RunsFit'
  BY <1>19 DEF SpeakAnswers
<1>20. ASSUME NEW r \in Requests, SpeakTimesOut(r) PROVE RunsFit'
  BY <1>20 DEF SpeakTimesOut
<1> QED
  BY <1>1, <1>2, <1>3, <1>4, <1>5, <1>6, <1>7, <1>8, <1>9, <1>10,
     <1>11, <1>12, <1>13, <1>14, <1>15, <1>16, <1>17, <1>18, <1>19, <1>20
  DEF Next, RequestStep, SpeakStep, CallStep, Calls

\* In time, no speech of a run is under way when the run has replied or is over.
LEMMA QuietWhenAnswered ==
    ASSUME TypeOK, RunsFit, CallsFit, InTime, NEW r \in Requests,
           run[r] = "done" \/ said[r] # NoText
    PROVE  speak[r] \notin {"sending", "delivered"}
BY DEF RunsFit, CallsFit, ToolAnswered, Answered

\* The order of a /run call, its operation and its speech is kept.
LEMMA CallsStep ==
    ASSUME TypeOK, LaneFits, RunsFit, CallsFit, Next
    PROVE  CallsFit'
<1> USE DEF hbVars, ibVars, reqVars, gatewayVars, TypeOK, IBTypeOK, RunsFit, CallsFit,
            InTime, InFlight, Finished, Calls
<1>1. ASSUME NEW r \in Requests, Submit(r), UNCHANGED hbVars PROVE CallsFit'
  BY <1>1, CallsAssumption DEF Submit
<1>2. ASSUME NEW r \in Requests, GatewayError(r), UNCHANGED hbVars PROVE CallsFit'
  BY <1>2, CallsAssumption DEF GatewayError
<1>3. ASSUME NEW r \in Requests, FetchPrevious(r), UNCHANGED hbVars PROVE CallsFit'
  BY <1>3, CallsAssumption DEF FetchPrevious
<1>4. ASSUME NEW r \in Requests, ChatSend(r), UNCHANGED hbVars PROVE CallsFit'
  BY <1>4, CallsAssumption DEF ChatSend
<1>5. ASSUME NEW r \in Requests, WaitReturns(r), UNCHANGED hbVars PROVE CallsFit'
  BY <1>5, CallsAssumption DEF WaitReturns
<1>6. ASSUME NEW r \in Requests, FetchLatest(r), UNCHANGED hbVars PROVE CallsFit'
  BY <1>6, CallsAssumption DEF FetchLatest
<1>7. ASSUME NEW r \in Requests, Decide(r), UNCHANGED hbVars PROVE CallsFit'
  BY <1>7, CallsAssumption DEF Decide
<1>8. ASSUME NEW r \in Requests, SpeakReply(r), UNCHANGED hbVars PROVE CallsFit'
  <2>1. \A k \in Calls : k # <<r, heard[r].of>>
    BY <1>8, ReplyIsPair DEF TypeOK
  <2>2. /\ \A k \in Calls : k \in uttered' <=> k \in uttered
        /\ req'[r] = "ok" /\ \A o \in Requests \ {r} : req'[o] = req[o]
        /\ UNCHANGED <<call, operated, speak, spokeDuring, env>>
    BY <1>8, <2>1 DEF SpeakReply, hbVars, TypeOK, IBTypeOK
  <2> QED BY <2>2 DEF CallsFit, InTime, InFlight, Finished
<1>9. ASSUME NEW r \in Requests, RunStart(r), UNCHANGED hbVars PROVE CallsFit'
  BY <1>9, CallsAssumption DEF RunStart
<1>10. ASSUME NEW k \in UiCalls, SpeakCall(k), UNCHANGED hbVars PROVE CallsFit'
  BY <1>10, CallsAssumption DEF SpeakCall
<1>11. ASSUME NEW k \in Calls, SpeakDeliver(k), UNCHANGED hbVars PROVE CallsFit'
  BY <1>11, CallsAssumption DEF SpeakDeliver
<1>12. ASSUME NEW k \in Calls, SpeakDone(k), UNCHANGED hbVars PROVE CallsFit'
  BY <1>12, CallsAssumption DEF SpeakDone
<1>13. ASSUME NEW k \in Calls, SpeakFail(k), UNCHANGED hbVars PROVE CallsFit'
  BY <1>13, CallsAssumption DEF SpeakFail
<1>14. ASSUME NEW r \in Requests, RunSays(r), ToolAnswered(r), UNCHANGED hbVars
      PROVE CallsFit'
  BY <1>14, CallsAssumption DEF RunSays
<1>15. ASSUME NEW r \in Requests, RunEnd(r), ToolAnswered(r), UNCHANGED hbVars PROVE CallsFit'
  BY <1>15, CallsAssumption DEF RunEnd
<1>16. ASSUME NEW r \in Requests, RunAction(r) PROVE CallsFit'
  BY <1>16, CallsAssumption DEF RunAction
<1>17. ASSUME NEW r \in Requests, HaSucceeds(r) PROVE CallsFit'
  <2>1. /\ UNCHANGED <<env, req, spokeDuring, uttered>> /\ call[r] = "ha" /\ operated'[r]
        /\ \A o \in Requests \ {r} : call'[o] = call[o] /\ operated'[o] = operated[o]
        /\ \/ call'[r] = "speaking" /\ speak' = [speak EXCEPT ![r] = "sending"]
           \/ call'[r] = "disabled" /\ speak' = speak
        /\ speak[r] = "none"
    BY <1>17 DEF HaSucceeds, SpeakCall
  <2> QED BY <2>1, CallsAssumption
<1>18. ASSUME NEW r \in Requests, HaFails(r) PROVE CallsFit'
  BY <1>18, CallsAssumption DEF HaFails
<1>19. ASSUME NEW r \in Requests, SpeakAnswers(r) PROVE CallsFit'
  BY <1>19, CallsAssumption DEF SpeakAnswers
<1>20. ASSUME NEW r \in Requests, SpeakTimesOut(r) PROVE CallsFit'
  BY <1>20, CallsAssumption DEF SpeakTimesOut
<1> QED
  BY <1>1, <1>2, <1>3, <1>4, <1>5, <1>6, <1>7, <1>8, <1>9, <1>10,
     <1>11, <1>12, <1>13, <1>14, <1>15, <1>16, <1>17, <1>18, <1>19, <1>20
  DEF Next, RequestStep, SpeakStep, CallStep, Calls

\* A reply is heard of only after its run has given it.
LEMMA SaidKept ==
    ASSUME SaidFits, UNCHANGED <<latest, heard, said, uttered>>
    PROVE  SaidFits'
BY DEF SaidFits, From

\* Every step keeps SaidFits.
LEMMA SaidStep ==
    ASSUME TypeOK, LaneFits, SaidFits, Next
    PROVE  SaidFits'
<1> USE DEF hbVars, ibVars, reqVars, gatewayVars
<1>1. ASSUME NEW r \in Requests, UNCHANGED hbVars,
             Submit(r) \/ GatewayError(r) \/ FetchPrevious(r) \/ ChatSend(r) \/ WaitReturns(r)
      PROVE  SaidFits'
  <2>1. UNCHANGED <<latest, heard, said, uttered>>
    BY <1>1 DEF Submit, GatewayError, FetchPrevious, ChatSend, WaitReturns
  <2> QED BY <2>1, SaidKept
<1>2. ASSUME NEW r \in Requests, FetchLatest(r), UNCHANGED hbVars PROVE SaidFits'
  BY <1>2 DEF FetchLatest, TypeOK, IBTypeOK, SaidFits, From
<1>3. ASSUME NEW r \in Requests, Decide(r), UNCHANGED hbVars PROVE SaidFits'
  <2>1. UNCHANGED <<latest, heard, said, uttered>>
    BY <1>3 DEF Decide
  <2> QED BY <2>1, SaidKept
<1>4. ASSUME NEW r \in Requests, SpeakReply(r), UNCHANGED hbVars PROVE SaidFits'
  <2>1. /\ UNCHANGED <<latest, heard, said>> /\ req[r] = "speaking"
        /\ uttered' \subseteq uttered \cup {<<r, heard[r].of>>}
    BY <1>4 DEF SpeakReply
  <2>2. From(heard[r], heard[r].of)
    BY <2>1 DEF LaneFits, From
  <2>3. \A q, o \in Requests :
          <<q, o>> \in uttered' => <<q, o>> \in uttered \/ (q = r /\ o = heard[r].of)
    BY <2>1
  <2> QED BY <2>1, <2>2, <2>3 DEF SaidFits, From
<1>5. ASSUME NEW r \in Requests, RunStart(r), UNCHANGED hbVars PROVE SaidFits'
  <2>1. UNCHANGED <<latest, heard, said, uttered>>
    BY <1>5 DEF RunStart
  <2> QED BY <2>1, SaidKept
<1>6. ASSUME NEW r \in Requests, RunSays(r), ToolAnswered(r), UNCHANGED hbVars
      PROVE  SaidFits'
  <2>1. /\ UNCHANGED <<heard, uttered>> /\ said[r] = NoText
        /\ said'[r] # NoText /\ latest'.of = r
        /\ \A o \in Requests \ {r} : said'[o] = said[o]
    BY <1>6, NoTextAssumption DEF RunSays, TypeOK, IBTypeOK
  <2> QED BY <2>1 DEF SaidFits, From
<1>7. ASSUME NEW r \in Requests, RunEnd(r), ToolAnswered(r), UNCHANGED hbVars
      PROVE  SaidFits'
  <2>1. UNCHANGED <<latest, heard, said, uttered>>
    BY <1>7 DEF RunEnd
  <2> QED BY <2>1, SaidKept
<1>8. ASSUME NEW k \in Calls, SpeakFail(k) \/ SpeakCall(k), UNCHANGED hbVars
      PROVE  SaidFits'
  <2>1. UNCHANGED <<latest, heard, said, uttered>>
    BY <1>8 DEF SpeakFail, SpeakCall
  <2> QED BY <2>1, SaidKept
<1>9. ASSUME NEW k \in Calls, SpeakDeliver(k), UNCHANGED hbVars PROVE SaidFits'
  <2>1. UNCHANGED <<latest, heard, said>> /\ uttered' = uttered \cup {k}
    BY <1>9 DEF SpeakDeliver
  <2>2. \A q, o \in Requests : <<q, o>> \in uttered' => <<q, o>> \in uttered
    BY <2>1, PairsAssumption
  <2> QED BY <2>1, <2>2 DEF SaidFits, From
<1>10. ASSUME NEW k \in Calls, SpeakDone(k), UNCHANGED hbVars PROVE SaidFits'
  <2>1. UNCHANGED <<latest, heard, said, uttered>>
    BY <1>10 DEF SpeakDone
  <2> QED BY <2>1, SaidKept
<1>11. ASSUME NEW r \in Requests, RunAction(r) \/ HaFails(r) \/ SpeakAnswers(r) \/ SpeakTimesOut(r)
      PROVE  SaidFits'
  <2>1. UNCHANGED <<latest, heard, said, uttered>>
    BY <1>11 DEF RunAction, HaFails, SpeakAnswers, SpeakTimesOut
  <2> QED BY <2>1, SaidKept
<1>12. ASSUME NEW r \in Requests, HaSucceeds(r) PROVE SaidFits'
  <2>1. UNCHANGED <<latest, heard, said, uttered>>
    BY <1>12 DEF HaSucceeds, SpeakCall
  <2> QED BY <2>1, SaidKept
<1> QED
  BY <1>1, <1>2, <1>3, <1>4, <1>5, <1>6, <1>7, <1>8, <1>9, <1>10, <1>11, <1>12
  DEF Next, RequestStep, SpeakStep, CallStep, Calls

\* In time no reply is spoken by its run and by the handler of that run.
LEMMA SpeechKept ==
    ASSUME SpeechFits, UNCHANGED <<heard, uttered, env>>,
           \A o \in Requests : req'[o] = "speaking" => req[o] = "speaking"
    PROVE  SpeechFits'
BY DEF SpeechFits, From, InTime

\* Every step keeps SpeechFits.
LEMMA SpeechStep ==
    ASSUME TypeOK, LaneFits, RunsFit, CallsFit, SaidFits, SpeechFits, Next
    PROVE  SpeechFits'
<1> USE DEF hbVars, ibVars, reqVars, gatewayVars
<1>1. ASSUME NEW r \in Requests, UNCHANGED hbVars,
             Submit(r) \/ GatewayError(r) \/ FetchPrevious(r) \/ ChatSend(r) \/ WaitReturns(r)
      PROVE  SpeechFits'
  <2>1. /\ UNCHANGED <<heard, uttered, env>>
        /\ \A o \in Requests : req'[o] = "speaking" => req[o] = "speaking"
    BY <1>1 DEF Submit, GatewayError, FetchPrevious, ChatSend, WaitReturns, TypeOK, IBTypeOK
  <2> QED BY <2>1, SpeechKept
<1>2. ASSUME NEW r \in Requests, FetchLatest(r), UNCHANGED hbVars PROVE SpeechFits'
  <2>1. /\ UNCHANGED <<uttered, env>>
        /\ \A o \in Requests :
             req'[o] = "speaking" => req[o] = "speaking" /\ heard'[o] = heard[o]
    BY <1>2 DEF FetchLatest, TypeOK, IBTypeOK
  <2> QED BY <2>1 DEF SpeechFits, From, InTime
<1>3. ASSUME NEW r \in Requests, Decide(r), UNCHANGED hbVars PROVE SpeechFits'
  <2>1. /\ UNCHANGED <<uttered, env, heard>>
        /\ \A o \in Requests : req'[o] = "speaking" =>
             req[o] = "speaking" \/ (o = r /\ req[r] = "deciding" /\ ~spokeDuring[r])
    BY <1>3 DEF Decide, TypeOK, IBTypeOK
  <2>2. ASSUME InTime, req[r] = "deciding", ~spokeDuring[r], From(heard[r], r)
        PROVE  r \notin uttered
    <3>1. said[r] # NoText /\ InFlight(r)
      BY <2>2 DEF SaidFits, InFlight, Finished
    <3>2. speak[r] \notin {"sending", "delivered", "ok"}
      BY <2>2, <3>1, QuietWhenAnswered DEF CallsFit
    <3> QED BY <3>2 DEF CallsFit, Calls
  <2> QED BY <2>1, <2>2 DEF SpeechFits, From, InTime
<1>4. ASSUME NEW r \in Requests, SpeakReply(r), UNCHANGED hbVars PROVE SpeechFits'
  <2>1. /\ UNCHANGED <<env, heard>> /\ req[r] = "speaking"
        /\ uttered' \subseteq uttered \cup {<<r, heard[r].of>>}
        /\ \A o \in Requests : req'[o] = "speaking" => req[o] = "speaking"
    BY <1>4 DEF SpeakReply, TypeOK, IBTypeOK
  <2>2. \A o \in Requests : o \in uttered' => o \in uttered
    BY <1>4, <2>1, ReplyIsPair DEF TypeOK, Calls
  <2>3. ASSUME InTime, NEW o \in Requests, <<o, o>> \in uttered' PROVE o \notin uttered
    <3>1. <<o, o>> \in uttered \/ (o = r /\ From(heard[r], r))
      BY <2>1, <2>3 DEF LaneFits, From
    <3> QED BY <2>1, <2>3, <3>1 DEF SpeechFits
  <2> QED BY <2>1, <2>2, <2>3 DEF SpeechFits, From, InTime
<1>5. ASSUME NEW r \in Requests, RunStart(r), UNCHANGED hbVars PROVE SpeechFits'
  <2>1. /\ UNCHANGED <<heard, uttered, env>>
        /\ \A o \in Requests : req'[o] = "speaking" => req[o] = "speaking"
    BY <1>5 DEF RunStart, TypeOK, IBTypeOK
  <2> QED BY <2>1, SpeechKept
<1>6. ASSUME NEW r \in Requests, RunSays(r), ToolAnswered(r), UNCHANGED hbVars
      PROVE  SpeechFits'
  <2>1. /\ UNCHANGED <<heard, uttered, env>>
        /\ \A o \in Requests : req'[o] = "speaking" => req[o] = "speaking"
    BY <1>6 DEF RunSays, TypeOK, IBTypeOK
  <2> QED BY <2>1, SpeechKept
<1>7. ASSUME NEW r \in Requests, RunEnd(r), ToolAnswered(r), UNCHANGED hbVars
      PROVE  SpeechFits'
  <2>1. /\ UNCHANGED <<heard, uttered, env>>
        /\ \A o \in Requests : req'[o] = "speaking" => req[o] = "speaking"
    BY <1>7 DEF RunEnd, TypeOK, IBTypeOK
  <2> QED BY <2>1, SpeechKept
<1>8. ASSUME NEW k \in Calls, SpeakFail(k) \/ SpeakCall(k), UNCHANGED hbVars
      PROVE  SpeechFits'
  <2>1. /\ UNCHANGED <<heard, uttered, env>>
        /\ \A o \in Requests : req'[o] = "speaking" => req[o] = "speaking"
    BY <1>8 DEF SpeakFail, SpeakCall, TypeOK, IBTypeOK, Calls
  <2> QED BY <2>1, SpeechKept
<1>9. ASSUME NEW k \in Calls, SpeakDeliver(k), UNCHANGED hbVars PROVE SpeechFits'
  <2>1. /\ UNCHANGED <<env, req, heard>> /\ speak[k] = "sending"
        /\ uttered' = uttered \cup {k}
    BY <1>9 DEF SpeakDeliver
  <2>2. \A o \in Requests : <<o, o>> \in uttered' => <<o, o>> \in uttered
    BY <2>1, PairsAssumption
  <2>3. ASSUME InTime, NEW o \in Requests, From(heard[o], o) \/ <<o, o>> \in uttered
        PROVE  o # k
    <3>1. said[o] # NoText
      BY <2>3 DEF SaidFits
    <3> QED BY <2>1, <2>3, <3>1, QuietWhenAnswered
  <2> QED BY <2>1, <2>2, <2>3 DEF SpeechFits, From, InTime
<1>10. ASSUME NEW k \in Calls, SpeakDone(k), UNCHANGED hbVars PROVE SpeechFits'
  <2>1. /\ UNCHANGED <<heard, uttered, env>>
        /\ \A o \in Requests : req'[o] = "speaking" => req[o] = "speaking"
    BY <1>10 DEF SpeakDone, TypeOK, IBTypeOK
  <2> QED BY <2>1, SpeechKept
<1>11. ASSUME NEW r \in Requests, RunAction(r) \/ HaFails(r) \/ SpeakAnswers(r) \/ SpeakTimesOut(r)
      PROVE  SpeechFits'
  <2>1. /\ UNCHANGED <<heard, uttered, env>>
        /\ \A o \in Requests : req'[o] = "speaking" => req[o] = "speaking"
    BY <1>11 DEF RunAction, HaFails, SpeakAnswers, SpeakTimesOut, TypeOK, IBTypeOK
  <2> QED BY <2>1, SpeechKept
<1>12. ASSUME NEW r \in Requests, HaSucceeds(r) PROVE SpeechFits'
  <2>1. /\ UNCHANGED <<heard, uttered, env>>
        /\ \A o \in Requests : req'[o] = "speaking" => req[o] = "speaking"
    BY <1>12 DEF HaSucceeds, SpeakCall, TypeOK, IBTypeOK, Calls
  <2> QED BY <2>1, SpeechKept
<1> QED
  BY <1>1, <1>2, <1>3, <1>4, <1>5, <1>6, <1>7, <1>8, <1>9, <1>10, <1>11, <1>12
  DEF Next, RequestStep, SpeakStep, CallStep, Calls

\* In time and without failures a request whose run gave a reply takes over no
\* other: what that depends on.
LEMMA TakeoverKept ==
    ASSUME TakeoverFits, UNCHANGED <<heard, uttered, env, latest, said>>,
           \A o \in Requests :
             /\ req'[o] \in {"waiting", "reading"} /\ said[o] # NoText =>
                  req[o] \in {"waiting", "reading"}
             /\ req'[o] = "deciding" => req[o] = "deciding"
             /\ req'[o] = "speaking" => req[o] = "speaking"
             /\ req[o] \in {"waiting", "reading", "deciding"} /\ spokeDuring[o] =>
                  spokeDuring'[o]
             /\ run'[o] = "running" /\ speak'[o] = "ok" =>
                  run[o] = "running" /\ speak[o] = "ok"
             /\ run[o] = "done" => run'[o] = "done"
    PROVE  TakeoverFits'
BY DEF TakeoverFits, TakeoverOf, From, InTime

\* Every step keeps TakeoverFits.
LEMMA TakeoverStep ==
    ASSUME TypeOK, LaneFits, RunsFit, CallsFit, SaidFits, TakeoverFits, Next
    PROVE  TakeoverFits'
<1> USE DEF hbVars, ibVars, reqVars, gatewayVars
<1>1. ASSUME NEW r \in Requests, UNCHANGED hbVars,
             Submit(r) \/ GatewayError(r) \/ FetchPrevious(r) \/ ChatSend(r) \/ WaitReturns(r)
      PROVE  TakeoverFits'
  <2>1. /\ UNCHANGED <<heard, uttered, env, latest, said>>
        /\ \A o \in Requests :
             /\ req'[o] \in {"waiting", "reading"} /\ said[o] # NoText =>
                  req[o] \in {"waiting", "reading"}
             /\ req'[o] = "deciding" => req[o] = "deciding"
             /\ req'[o] = "speaking" => req[o] = "speaking"
             /\ req[o] \in {"waiting", "reading", "deciding"} /\ spokeDuring[o] =>
                  spokeDuring'[o]
             /\ run'[o] = "running" /\ speak'[o] = "ok" =>
                  run[o] = "running" /\ speak[o] = "ok"
             /\ run[o] = "done" => run'[o] = "done"
    BY <1>1 DEF Submit, GatewayError, FetchPrevious, ChatSend, WaitReturns, TypeOK, IBTypeOK, RunsFit
  <2> QED BY <2>1, TakeoverKept
<1>2. ASSUME NEW r \in Requests, FetchLatest(r), UNCHANGED hbVars PROVE TakeoverFits'
  <2>1. /\ UNCHANGED <<uttered, env, said, run, speak, spokeDuring, latest>>
        /\ req[r] = "reading" /\ req'[r] = "deciding" /\ heard'[r] = latest
        /\ \A o \in Requests \ {r} : req'[o] = req[o] /\ heard'[o] = heard[o]
    BY <1>2 DEF FetchLatest, TypeOK, IBTypeOK
  <2> QED BY <2>1 DEF TakeoverFits, TakeoverOf, From, InTime
<1>3. ASSUME NEW r \in Requests, Decide(r), UNCHANGED hbVars PROVE TakeoverFits'
  <2>1. /\ UNCHANGED <<heard, uttered, env, latest, said, run, speak, spokeDuring>>
        /\ req[r] = "deciding" /\ req'[r] \in {"ok", "speaking"}
        /\ req'[r] = "speaking" => ~spokeDuring[r]
        /\ \A o \in Requests \ {r} : req'[o] = req[o]
    BY <1>3 DEF Decide, TypeOK, IBTypeOK
  <2> QED BY <2>1 DEF TakeoverFits, TakeoverOf, From, InTime
<1>4. ASSUME NEW r \in Requests, SpeakReply(r), UNCHANGED hbVars PROVE TakeoverFits'
  <2>1. /\ UNCHANGED <<heard, env, latest, said, run, speak, spokeDuring>>
        /\ req[r] = "speaking" /\ req'[r] = "ok"
        /\ uttered' \subseteq uttered \cup {<<r, heard[r].of>>}
        /\ \A o \in Requests \ {r} : req'[o] = req[o]
    BY <1>4 DEF SpeakReply, TypeOK, IBTypeOK
  <2>2. \A o \in Requests : o \in uttered' => o \in uttered
    BY <1>4, <2>1, ReplyIsPair DEF TypeOK, Calls
  <2>3. \A q, o \in Requests :
          <<q, o>> \in uttered' => <<q, o>> \in uttered \/ (q = r /\ From(heard[r], o))
    BY <2>1 DEF LaneFits, From
  <2>4. InTime /\ ~env.failures => run[r] = "done"
    BY <2>1 DEF RunsFit
  <2> QED BY <2>1, <2>2, <2>3, <2>4 DEF TakeoverFits, TakeoverOf, From, InTime
<1>5. ASSUME NEW r \in Requests, RunStart(r), UNCHANGED hbVars PROVE TakeoverFits'
  <2>1. /\ UNCHANGED <<heard, uttered, env, latest, said>>
        /\ \A o \in Requests :
             /\ req'[o] \in {"waiting", "reading"} /\ said[o] # NoText =>
                  req[o] \in {"waiting", "reading"}
             /\ req'[o] = "deciding" => req[o] = "deciding"
             /\ req'[o] = "speaking" => req[o] = "speaking"
             /\ req[o] \in {"waiting", "reading", "deciding"} /\ spokeDuring[o] =>
                  spokeDuring'[o]
             /\ run'[o] = "running" /\ speak'[o] = "ok" =>
                  run[o] = "running" /\ speak[o] = "ok"
             /\ run[o] = "done" => run'[o] = "done"
    BY <1>5 DEF RunStart, TypeOK, IBTypeOK, RunsFit, CallsFit
  <2> QED BY <2>1, TakeoverKept
<1>6. ASSUME NEW r \in Requests, RunSays(r), ToolAnswered(r), UNCHANGED hbVars
      PROVE  TakeoverFits'
  <2>1. /\ UNCHANGED <<heard, uttered, env, req, run, speak, spokeDuring>>
        /\ run[r] = "running" /\ said[r] = NoText /\ latest'.of = r
        /\ \A o \in Requests \ {r} : said'[o] = said[o]
    BY <1>6 DEF RunSays, TypeOK, IBTypeOK
  <2>2. \A o \in Requests : run[o] = "running" => o = r
    BY <2>1 DEF LaneFits
  <2>3. \A o \in Requests : From(latest', o) => o = r
    BY <2>1 DEF From
  <2>4. InTime /\ ~env.failures =>
          req[r] \notin {"deciding", "speaking"} /\ \A o \in Requests : <<r, o>> \notin uttered
    BY <2>1 DEF RunsFit, TakeoverFits, TakeoverOf, SaidFits
  <2>5. InTime /\ r \in uttered => speak[r] = "ok"
    BY <1>6 DEF CallsFit, ToolAnswered, Answered, Calls
  <2> SUFFICES ASSUME InTime, ~env.failures, NEW o \in Requests, NEW q \in Requests \ {o}
               PROVE  TakeoverOf(o, q)'
    BY <2>1 DEF TakeoverFits, InTime
  <2>6. TakeoverOf(o, q)
    BY DEF TakeoverFits
  <2>7. CASE o = r
    BY <2>1, <2>2, <2>3, <2>4, <2>6, <2>7 DEF TakeoverOf, From
  <2>8. CASE o # r
    BY <2>1, <2>2, <2>3, <2>5, <2>6, <2>8 DEF TakeoverOf, From
  <2> QED BY <2>7, <2>8
<1>7. ASSUME NEW r \in Requests, RunEnd(r), ToolAnswered(r), UNCHANGED hbVars
      PROVE  TakeoverFits'
  <2>1. /\ UNCHANGED <<heard, uttered, env, latest, said>>
        /\ \A o \in Requests :
             /\ req'[o] \in {"waiting", "reading"} /\ said[o] # NoText =>
                  req[o] \in {"waiting", "reading"}
             /\ req'[o] = "deciding" => req[o] = "deciding"
             /\ req'[o] = "speaking" => req[o] = "speaking"
             /\ req[o] \in {"waiting", "reading", "deciding"} /\ spokeDuring[o] =>
                  spokeDuring'[o]
             /\ run'[o] = "running" /\ speak'[o] = "ok" =>
                  run[o] = "running" /\ speak[o] = "ok"
             /\ run[o] = "done" => run'[o] = "done"
    BY <1>7 DEF RunEnd, TypeOK, IBTypeOK
  <2> QED BY <2>1, TakeoverKept
<1>8. ASSUME NEW k \in Calls, SpeakFail(k) \/ SpeakCall(k), UNCHANGED hbVars
      PROVE  TakeoverFits'
  <2>1. /\ UNCHANGED <<heard, uttered, env, latest, said>>
        /\ \A o \in Requests :
             /\ req'[o] \in {"waiting", "reading"} /\ said[o] # NoText =>
                  req[o] \in {"waiting", "reading"}
             /\ req'[o] = "deciding" => req[o] = "deciding"
             /\ req'[o] = "speaking" => req[o] = "speaking"
             /\ req[o] \in {"waiting", "reading", "deciding"} /\ spokeDuring[o] =>
                  spokeDuring'[o]
             /\ run'[o] = "running" /\ speak'[o] = "ok" =>
                  run[o] = "running" /\ speak[o] = "ok"
             /\ run[o] = "done" => run'[o] = "done"
    BY <1>8 DEF SpeakFail, SpeakCall, TypeOK, IBTypeOK, Calls
  <2> QED BY <2>1, TakeoverKept
<1>9. ASSUME NEW k \in Calls, SpeakDeliver(k), UNCHANGED hbVars PROVE TakeoverFits'
  <2>1. /\ UNCHANGED <<heard, env, latest, said, run, req, spokeDuring>>
        /\ speak[k] = "sending" /\ uttered' = uttered \cup {k}
        /\ \A o \in Requests : speak'[o] = "ok" => speak[o] = "ok"
    BY <1>9 DEF SpeakDeliver, TypeOK, IBTypeOK
  <2>2. \A q, o \in Requests : <<q, o>> \in uttered' => <<q, o>> \in uttered
    BY <2>1, PairsAssumption
  <2>3. ASSUME InTime, NEW q \in Requests, NEW o \in Requests,
               From(latest, o) \/ From(heard[q], o) \/ <<q, o>> \in uttered
        PROVE  o # k
    <3>1. said[o] # NoText
      BY <2>3 DEF SaidFits
    <3> QED BY <2>1, <2>3, <3>1, QuietWhenAnswered
  <2> QED BY <2>1, <2>2, <2>3 DEF TakeoverFits, TakeoverOf, From, InTime
<1>10. ASSUME NEW k \in Calls, SpeakDone(k), UNCHANGED hbVars PROVE TakeoverFits'
  <2>1. /\ UNCHANGED <<heard, uttered, env, latest, said, run, req>>
        /\ \A o \in Requests : spokeDuring'[o] <=> spokeDuring[o] \/ InFlight(o)
    BY <1>10 DEF SpeakDone
  <2>2. \A o \in Requests : req[o] \in {"waiting", "reading", "deciding"} => InFlight(o)
    BY DEF InFlight, Finished
  <2> QED BY <2>1, <2>2 DEF TakeoverFits, TakeoverOf, From, InTime
<1>11. ASSUME NEW r \in Requests, RunAction(r) \/ HaFails(r) \/ SpeakAnswers(r) \/ SpeakTimesOut(r)
      PROVE  TakeoverFits'
  <2>1. /\ UNCHANGED <<heard, uttered, env, latest, said>>
        /\ \A o \in Requests :
             /\ req'[o] \in {"waiting", "reading"} /\ said[o] # NoText =>
                  req[o] \in {"waiting", "reading"}
             /\ req'[o] = "deciding" => req[o] = "deciding"
             /\ req'[o] = "speaking" => req[o] = "speaking"
             /\ req[o] \in {"waiting", "reading", "deciding"} /\ spokeDuring[o] =>
                  spokeDuring'[o]
             /\ run'[o] = "running" /\ speak'[o] = "ok" =>
                  run[o] = "running" /\ speak[o] = "ok"
             /\ run[o] = "done" => run'[o] = "done"
    BY <1>11 DEF RunAction, HaFails, SpeakAnswers, SpeakTimesOut, TypeOK, IBTypeOK
  <2> QED BY <2>1, TakeoverKept
<1>12. ASSUME NEW r \in Requests, HaSucceeds(r) PROVE TakeoverFits'
  <2>1. /\ UNCHANGED <<heard, uttered, env, latest, said>>
        /\ \A o \in Requests :
             /\ req'[o] \in {"waiting", "reading"} /\ said[o] # NoText =>
                  req[o] \in {"waiting", "reading"}
             /\ req'[o] = "deciding" => req[o] = "deciding"
             /\ req'[o] = "speaking" => req[o] = "speaking"
             /\ req[o] \in {"waiting", "reading", "deciding"} /\ spokeDuring[o] =>
                  spokeDuring'[o]
             /\ run'[o] = "running" /\ speak'[o] = "ok" =>
                  run[o] = "running" /\ speak[o] = "ok"
             /\ run[o] = "done" => run'[o] = "done"
    BY <1>12, CallsAssumption DEF HaSucceeds, SpeakCall, TypeOK, IBTypeOK, Calls
  <2> QED BY <2>1, TakeoverKept
<1> QED
  BY <1>1, <1>2, <1>3, <1>4, <1>5, <1>6, <1>7, <1>8, <1>9, <1>10, <1>11, <1>12
  DEF Next, RequestStep, SpeakStep, CallStep, Calls

\* Alone, one request follows the other.
LEMMA AloneStep ==
    ASSUME TypeOK, AloneFits, Next
    PROVE  AloneFits'
<1> USE DEF hbVars, ibVars, reqVars, gatewayVars, TypeOK, IBTypeOK, AloneFits, Calm,
            InFlight, Finished
<1>1. ASSUME NEW r \in Requests, Submit(r), UNCHANGED hbVars PROVE AloneFits'
  BY <1>1 DEF Submit
<1>2. ASSUME NEW r \in Requests, GatewayError(r), UNCHANGED hbVars PROVE AloneFits'
  BY <1>2 DEF GatewayError
<1>3. ASSUME NEW r \in Requests, FetchPrevious(r), UNCHANGED hbVars PROVE AloneFits'
  BY <1>3 DEF FetchPrevious
<1>4. ASSUME NEW r \in Requests, ChatSend(r), UNCHANGED hbVars PROVE AloneFits'
  BY <1>4 DEF ChatSend
<1>5. ASSUME NEW r \in Requests, WaitReturns(r), UNCHANGED hbVars PROVE AloneFits'
  BY <1>5 DEF WaitReturns
<1>6. ASSUME NEW r \in Requests, FetchLatest(r), UNCHANGED hbVars PROVE AloneFits'
  BY <1>6 DEF FetchLatest
<1>7. ASSUME NEW r \in Requests, Decide(r), UNCHANGED hbVars PROVE AloneFits'
  BY <1>7 DEF Decide
<1>8. ASSUME NEW r \in Requests, SpeakReply(r), UNCHANGED hbVars PROVE AloneFits'
  BY <1>8 DEF SpeakReply
<1>9. ASSUME NEW r \in Requests, RunStart(r), UNCHANGED hbVars PROVE AloneFits'
  BY <1>9 DEF RunStart
<1>10. ASSUME NEW k \in UiCalls, SpeakCall(k), UNCHANGED hbVars PROVE AloneFits'
  BY <1>10 DEF SpeakCall
<1>11. ASSUME NEW k \in Calls, SpeakDeliver(k), UNCHANGED hbVars PROVE AloneFits'
  BY <1>11 DEF SpeakDeliver
<1>12. ASSUME NEW k \in Calls, SpeakDone(k), UNCHANGED hbVars PROVE AloneFits'
  BY <1>12 DEF SpeakDone
<1>13. ASSUME NEW k \in Calls, SpeakFail(k), UNCHANGED hbVars PROVE AloneFits'
  BY <1>13 DEF SpeakFail
<1>14. ASSUME NEW r \in Requests, RunSays(r), ToolAnswered(r), UNCHANGED hbVars
      PROVE AloneFits'
  BY <1>14 DEF RunSays
<1>15. ASSUME NEW r \in Requests, RunEnd(r), ToolAnswered(r), UNCHANGED hbVars
      PROVE AloneFits'
  BY <1>15 DEF RunEnd
<1>16. ASSUME NEW r \in Requests, RunAction(r) PROVE AloneFits'
  BY <1>16 DEF RunAction
<1>17. ASSUME NEW r \in Requests, HaSucceeds(r) PROVE AloneFits'
  BY <1>17 DEF HaSucceeds, SpeakCall
<1>18. ASSUME NEW r \in Requests, HaFails(r) PROVE AloneFits'
  BY <1>18 DEF HaFails
<1>19. ASSUME NEW r \in Requests, SpeakAnswers(r) PROVE AloneFits'
  BY <1>19 DEF SpeakAnswers
<1>20. ASSUME NEW r \in Requests, SpeakTimesOut(r) PROVE AloneFits'
  BY <1>20 DEF SpeakTimesOut
<1> QED
  BY <1>1, <1>2, <1>3, <1>4, <1>5, <1>6, <1>7, <1>8, <1>9, <1>10,
     <1>11, <1>12, <1>13, <1>14, <1>15, <1>16, <1>17, <1>18, <1>19, <1>20
  DEF Next, RequestStep, SpeakStep, CallStep, Calls

\* In a calm world a run that is not over belongs to the request in flight.
LEMMA ActiveInFlight ==
    ASSUME TypeOK, RunsFit, AloneFits, Calm, NEW r \in Requests,
           run[r] \in {"queued", "running"}
    PROVE  InFlight(r)
BY DEF TypeOK, IBTypeOK, ReqState, RunsFit, AloneFits, Calm, InTime, InFlight, Finished

\* A calm request reads what was there before or what its own run said.
LEMMA HistoryStep ==
    ASSUME TypeOK, RunsFit, CallsFit, AloneFits, HistoryFits, Next
    PROVE  HistoryFits'
<1> USE DEF hbVars, ibVars, reqVars, gatewayVars, TypeOK, IBTypeOK, RunsFit, HistoryFits,
            Own, Calm, Quiet, InFlight, Finished
<1>1. ASSUME NEW r \in Requests, Submit(r), UNCHANGED hbVars PROVE HistoryFits'
  BY <1>1, ActiveInFlight DEF Submit
<1>2. ASSUME NEW r \in Requests, GatewayError(r), UNCHANGED hbVars PROVE HistoryFits'
  BY <1>2, ActiveInFlight DEF GatewayError
<1>3. ASSUME NEW r \in Requests, FetchPrevious(r), UNCHANGED hbVars PROVE HistoryFits'
  BY <1>3, ActiveInFlight DEF FetchPrevious
<1>4. ASSUME NEW r \in Requests, ChatSend(r), UNCHANGED hbVars PROVE HistoryFits'
  BY <1>4, ActiveInFlight DEF ChatSend
<1>5. ASSUME NEW r \in Requests, WaitReturns(r), UNCHANGED hbVars PROVE HistoryFits'
  BY <1>5, ActiveInFlight DEF WaitReturns
<1>6. ASSUME NEW r \in Requests, FetchLatest(r), UNCHANGED hbVars PROVE HistoryFits'
  BY <1>6, ActiveInFlight DEF FetchLatest
<1>7. ASSUME NEW r \in Requests, Decide(r), UNCHANGED hbVars PROVE HistoryFits'
  BY <1>7, ActiveInFlight DEF Decide
<1>8. ASSUME NEW r \in Requests, SpeakReply(r), UNCHANGED hbVars PROVE HistoryFits'
  BY <1>8, ActiveInFlight DEF SpeakReply
<1>9. ASSUME NEW r \in Requests, RunStart(r), UNCHANGED hbVars PROVE HistoryFits'
  BY <1>9, ActiveInFlight DEF RunStart
<1>10. ASSUME NEW k \in UiCalls, SpeakCall(k), UNCHANGED hbVars PROVE HistoryFits'
  <2>1. UNCHANGED <<env, req, prev, heard, spokeDuring, said, latest, run, call>>
    BY <1>10 DEF SpeakCall
  <2>2. Quiet' => Quiet
    BY <1>10 DEF SpeakCall, Calls
  <2> QED BY <2>1, <2>2
<1>11. ASSUME NEW k \in Calls, SpeakDeliver(k), UNCHANGED hbVars PROVE HistoryFits'
  BY <1>11, ActiveInFlight DEF SpeakDeliver
<1>12. ASSUME NEW k \in Calls, SpeakDone(k), UNCHANGED hbVars PROVE HistoryFits'
  <2>1. /\ UNCHANGED <<env, req, prev, heard, latest, said, call>> /\ speak[k] = "delivered"
        /\ speak' = [speak EXCEPT ![k] = "ok"]
        /\ \A r \in Requests : spokeDuring'[r] => spokeDuring[r] \/ InFlight(r)
    BY <1>12 DEF SpeakDone, hbVars, gatewayVars
  <2>2. Calm' => Calm
    BY <2>1 DEF Calm
  <2>3. Quiet' => Quiet /\ k \notin UiCalls
    BY <2>1 DEF Quiet, TypeOK, IBTypeOK, Calls
  <2>4. ASSUME Calm, Quiet, k \notin UiCalls, NEW r \in Requests, InFlight(r)
        PROVE  call[r] # "none"
    <3>1. k \in Requests /\ InTime
      BY <2>4 DEF Calls, Calm, InTime
    <3>2. call[k] \in CallState /\ call[k] \notin {"none"} \cup Answered
      BY <2>1, <3>1 DEF CallsFit, TypeOK, CallState, Answered
    <3>3. run[k] \in RunState /\ run[k] \notin {"none", "queued", "done"}
      BY <3>1, <3>2 DEF RunsFit, ToolAnswered, TypeOK, IBTypeOK
    <3>4. InFlight(k)
      BY <2>4, <3>1, <3>3, ActiveInFlight DEF RunState
    <3> QED BY <2>4, <3>1, <3>2, <3>4 DEF AloneFits
  <2> QED BY <2>1, <2>2, <2>3, <2>4 DEF HistoryFits, Own, InFlight
<1>13. ASSUME NEW k \in Calls, SpeakFail(k), UNCHANGED hbVars PROVE HistoryFits'
  BY <1>13, ActiveInFlight DEF SpeakFail
<1>14. ASSUME NEW r \in Requests, RunSays(r), ToolAnswered(r), UNCHANGED hbVars
      PROVE HistoryFits'
  <2>1. /\ UNCHANGED <<env, reqVars, speak, run, call>> /\ run[r] = "running"
        /\ said[r] = NoText /\ said'[r] = latest'.text /\ latest' \in Entry /\ latest'.of = r
        /\ \A o \in Requests \ {r} : said'[o] = said[o]
    BY <1>14 DEF RunSays, hbVars, TypeOK, IBTypeOK, Entry
  <2>2. Calm' => Calm /\ InTime
    BY <2>1 DEF Calm, InTime
  <2>3. Calm => \A o \in Requests : InFlight(o) => o = r
    BY <2>1, ActiveInFlight DEF AloneFits
  <2>4. Calm => req[r] \notin {"sending", "reading", "deciding", "speaking"}
    BY <2>1 DEF RunsFit, Calm, InTime
  <2>5. latest' = [of |-> r, text |-> said'[r]]
    BY <2>1 DEF Entry
  <2>6. \A o \in Requests : InFlight(o)' <=> InFlight(o)
    BY <2>1 DEF InFlight, reqVars
  <2>7. \A o \in Requests :
          req[o] \in {"sending", "waiting", "reading", "deciding", "speaking"} => InFlight(o)
    BY DEF InFlight, Finished
  <2>8. Calm /\ Quiet => \A o \in Requests : InFlight(o) /\ spokeDuring[o] => call[o] # "none"
    BY DEF HistoryFits
  <2> QED BY <2>1, <2>2, <2>3, <2>4, <2>5, <2>6, <2>7, <2>8 DEF HistoryFits, Own, reqVars, Quiet
<1>15. ASSUME NEW r \in Requests, RunEnd(r), ToolAnswered(r), UNCHANGED hbVars
      PROVE HistoryFits'
  BY <1>15, ActiveInFlight DEF RunEnd
<1>16. ASSUME NEW r \in Requests, RunAction(r) PROVE HistoryFits'
  BY <1>16, ActiveInFlight DEF RunAction
<1>17. ASSUME NEW r \in Requests, HaSucceeds(r) PROVE HistoryFits'
  <2>1. /\ UNCHANGED <<env, reqVars, latest, said>>
        /\ \A o \in Requests : call'[o] = "none" => call[o] = "none"
    BY <1>17 DEF HaSucceeds, SpeakCall, ibVars, gatewayVars, TypeOK
  <2>2. Quiet' => Quiet
    BY <1>17, CallsAssumption DEF HaSucceeds, SpeakCall, ibVars, Quiet, TypeOK, IBTypeOK, Calls
  <2> QED BY <2>1, <2>2 DEF HistoryFits, Own, Calm, InFlight, reqVars
<1>18. ASSUME NEW r \in Requests, HaFails(r) PROVE HistoryFits'
  BY <1>18, ActiveInFlight DEF HaFails
<1>19. ASSUME NEW r \in Requests, SpeakAnswers(r) PROVE HistoryFits'
  BY <1>19, ActiveInFlight DEF SpeakAnswers
<1>20. ASSUME NEW r \in Requests, SpeakTimesOut(r) PROVE HistoryFits'
  BY <1>20, ActiveInFlight DEF SpeakTimesOut
<1> HIDE DEF hbVars, ibVars, reqVars, gatewayVars, TypeOK, IBTypeOK, RunsFit, HistoryFits,
             Own, Calm, Quiet, InFlight, Finished
<1> QED
  BY <1>1, <1>2, <1>3, <1>4, <1>5, <1>6, <1>7, <1>8, <1>9, <1>10,
     <1>11, <1>12, <1>13, <1>14, <1>15, <1>16, <1>17, <1>18, <1>19, <1>20
  DEF Next, RequestStep, SpeakStep, CallStep, Calls

\* In a calm world a request has only the reply of its own run spoken.
LEMMA OwnStep ==
    ASSUME TypeOK, HistoryFits, OnlyOwnReply, Next
    PROVE  OnlyOwnReply'
<1> USE DEF hbVars, ibVars, reqVars, gatewayVars, TypeOK, IBTypeOK, OnlyOwnReply
<1>1. ASSUME NEW r \in Requests, Submit(r), UNCHANGED hbVars PROVE OnlyOwnReply'
  BY <1>1, PairsAssumption DEF Submit
<1>2. ASSUME NEW r \in Requests, GatewayError(r), UNCHANGED hbVars PROVE OnlyOwnReply'
  BY <1>2, PairsAssumption DEF GatewayError
<1>3. ASSUME NEW r \in Requests, FetchPrevious(r), UNCHANGED hbVars PROVE OnlyOwnReply'
  BY <1>3, PairsAssumption DEF FetchPrevious
<1>4. ASSUME NEW r \in Requests, ChatSend(r), UNCHANGED hbVars PROVE OnlyOwnReply'
  BY <1>4, PairsAssumption DEF ChatSend
<1>5. ASSUME NEW r \in Requests, WaitReturns(r), UNCHANGED hbVars PROVE OnlyOwnReply'
  BY <1>5, PairsAssumption DEF WaitReturns
<1>6. ASSUME NEW r \in Requests, FetchLatest(r), UNCHANGED hbVars PROVE OnlyOwnReply'
  BY <1>6, PairsAssumption DEF FetchLatest
<1>7. ASSUME NEW r \in Requests, Decide(r), UNCHANGED hbVars PROVE OnlyOwnReply'
  BY <1>7, PairsAssumption DEF Decide
<1>8. ASSUME NEW r \in Requests, SpeakReply(r), UNCHANGED hbVars PROVE OnlyOwnReply'
  <2>1. /\ env' = env /\ req[r] = "speaking"
        /\ uttered' \subseteq uttered \cup {<<r, heard[r].of>>}
    BY <1>8 DEF SpeakReply
  <2>2. Calm => heard[r].of = r
    BY <2>1 DEF HistoryFits
  <2>3. \A q, o \in Requests :
          <<q, o>> \in uttered' => <<q, o>> \in uttered \/ (q = r /\ o = heard[r].of)
    BY <2>1
  <2> QED BY <2>1, <2>2, <2>3 DEF OnlyOwnReply, Calm
<1>9. ASSUME NEW r \in Requests, RunStart(r), UNCHANGED hbVars PROVE OnlyOwnReply'
  BY <1>9, PairsAssumption DEF RunStart
<1>10. ASSUME NEW k \in UiCalls, SpeakCall(k), UNCHANGED hbVars PROVE OnlyOwnReply'
  BY <1>10, PairsAssumption DEF SpeakCall
<1>11. ASSUME NEW k \in Calls, SpeakDeliver(k), UNCHANGED hbVars PROVE OnlyOwnReply'
  BY <1>11, PairsAssumption DEF SpeakDeliver
<1>12. ASSUME NEW k \in Calls, SpeakDone(k), UNCHANGED hbVars PROVE OnlyOwnReply'
  BY <1>12, PairsAssumption DEF SpeakDone
<1>13. ASSUME NEW k \in Calls, SpeakFail(k), UNCHANGED hbVars PROVE OnlyOwnReply'
  BY <1>13, PairsAssumption DEF SpeakFail
<1>14. ASSUME NEW r \in Requests, RunSays(r), ToolAnswered(r), UNCHANGED hbVars
      PROVE OnlyOwnReply'
  BY <1>14, PairsAssumption DEF RunSays
<1>15. ASSUME NEW r \in Requests, RunEnd(r), ToolAnswered(r), UNCHANGED hbVars
      PROVE OnlyOwnReply'
  BY <1>15, PairsAssumption DEF RunEnd
<1>16. ASSUME NEW r \in Requests, RunAction(r) PROVE OnlyOwnReply'
  BY <1>16, PairsAssumption DEF RunAction
<1>17. ASSUME NEW r \in Requests, HaSucceeds(r) PROVE OnlyOwnReply'
  BY <1>17, PairsAssumption DEF HaSucceeds, SpeakCall
<1>18. ASSUME NEW r \in Requests, HaFails(r) PROVE OnlyOwnReply'
  BY <1>18, PairsAssumption DEF HaFails
<1>19. ASSUME NEW r \in Requests, SpeakAnswers(r) PROVE OnlyOwnReply'
  BY <1>19, PairsAssumption DEF SpeakAnswers
<1>20. ASSUME NEW r \in Requests, SpeakTimesOut(r) PROVE OnlyOwnReply'
  BY <1>20, PairsAssumption DEF SpeakTimesOut
<1> QED
  BY <1>1, <1>2, <1>3, <1>4, <1>5, <1>6, <1>7, <1>8, <1>9, <1>10,
     <1>11, <1>12, <1>13, <1>14, <1>15, <1>16, <1>17, <1>18, <1>19, <1>20
  DEF Next, RequestStep, SpeakStep, CallStep, Calls

\* In a calm world a new reply to casual talk is spoken.
LEMMA TalkStep ==
    ASSUME TypeOK, RunsFit, HistoryFits, NewTalkReplySpoken, Next
    PROVE  NewTalkReplySpoken'
<1> USE DEF hbVars, ibVars, reqVars, gatewayVars, TypeOK, IBTypeOK, RunsFit, InTime,
            NewTalkReplySpoken, TalkReply
<1>1. ASSUME NEW r \in Requests, Submit(r), UNCHANGED hbVars PROVE NewTalkReplySpoken'
  BY <1>1 DEF Submit
<1>2. ASSUME NEW r \in Requests, GatewayError(r), UNCHANGED hbVars PROVE NewTalkReplySpoken'
  BY <1>2 DEF GatewayError
<1>3. ASSUME NEW r \in Requests, FetchPrevious(r), UNCHANGED hbVars PROVE NewTalkReplySpoken'
  BY <1>3 DEF FetchPrevious
<1>4. ASSUME NEW r \in Requests, ChatSend(r), UNCHANGED hbVars PROVE NewTalkReplySpoken'
  BY <1>4 DEF ChatSend
<1>5. ASSUME NEW r \in Requests, WaitReturns(r), UNCHANGED hbVars PROVE NewTalkReplySpoken'
  BY <1>5 DEF WaitReturns
<1>6. ASSUME NEW r \in Requests, FetchLatest(r), UNCHANGED hbVars PROVE NewTalkReplySpoken'
  BY <1>6 DEF FetchLatest
<1>7. ASSUME NEW r \in Requests, Decide(r), UNCHANGED hbVars PROVE NewTalkReplySpoken'
  <2>1. /\ UNCHANGED <<env, prev, heard, spokeDuring, speak, uttered, run, said, call>>
        /\ req[r] = "deciding"
        /\ req'[r] = "ok" => heard[r].text \in {NoText, prev[r]} \/ spokeDuring[r]
        /\ \A o \in Requests \ {r} : req'[o] = req[o]
    BY <1>7 DEF Decide, hbVars, gatewayVars, TypeOK, IBTypeOK
  <2>2. ASSUME Calm, Quiet, req'[r] = "ok", call[r] = "none", said[r] # NoText
        PROVE  said[r] = prev[r]
    <3>1. InFlight(r)
      BY <2>1 DEF InFlight, Finished
    <3>2. Own(r, heard[r]) /\ ~spokeDuring[r]
      BY <2>1, <2>2, <3>1 DEF HistoryFits
    <3>3. heard[r].text = said[r]
      BY <3>2 DEF Own
    <3> QED BY <2>1, <2>2, <3>2, <3>3
  <2> QED BY <2>1, <2>2 DEF NewTalkReplySpoken, TalkReply, Calm, Quiet
<1>8. ASSUME NEW r \in Requests, SpeakReply(r), UNCHANGED hbVars PROVE NewTalkReplySpoken'
  <2>1. /\ UNCHANGED <<env, prev, speak, run, said, call>> /\ req[r] = "speaking"
        /\ \A o \in Requests \ {r} : req'[o] = req[o]
        /\ uttered \subseteq uttered'
        /\ env.failures \/ <<r, heard[r].of>> \in uttered'
    BY <1>8 DEF SpeakReply, hbVars, gatewayVars, TypeOK, IBTypeOK
  <2>2. Calm => ~env.failures
    BY DEF Calm
  <2>3. Calm => heard[r].of = r
    BY <2>1 DEF HistoryFits
  <2>4. Calm => <<r, r>> \in uttered'
    BY <2>1, <2>2, <2>3
  <2> QED BY <2>1, <2>4 DEF NewTalkReplySpoken, TalkReply, Calm
<1>9. ASSUME NEW r \in Requests, RunStart(r), UNCHANGED hbVars PROVE NewTalkReplySpoken'
  BY <1>9 DEF RunStart
<1>10. ASSUME NEW k \in UiCalls, SpeakCall(k), UNCHANGED hbVars PROVE NewTalkReplySpoken'
  BY <1>10 DEF SpeakCall
<1>11. ASSUME NEW k \in Calls, SpeakDeliver(k), UNCHANGED hbVars PROVE NewTalkReplySpoken'
  BY <1>11 DEF SpeakDeliver
<1>12. ASSUME NEW k \in Calls, SpeakDone(k), UNCHANGED hbVars PROVE NewTalkReplySpoken'
  BY <1>12 DEF SpeakDone
<1>13. ASSUME NEW k \in Calls, SpeakFail(k), UNCHANGED hbVars PROVE NewTalkReplySpoken'
  BY <1>13 DEF SpeakFail
<1>14. ASSUME NEW r \in Requests, RunSays(r), ToolAnswered(r), UNCHANGED hbVars
      PROVE NewTalkReplySpoken'
  BY <1>14 DEF RunSays
<1>15. ASSUME NEW r \in Requests, RunEnd(r), ToolAnswered(r), UNCHANGED hbVars
      PROVE NewTalkReplySpoken'
  BY <1>15 DEF RunEnd
<1>16. ASSUME NEW r \in Requests, RunAction(r) PROVE NewTalkReplySpoken'
  BY <1>16 DEF RunAction
<1>17. ASSUME NEW r \in Requests, HaSucceeds(r) PROVE NewTalkReplySpoken'
  <2>1. /\ UNCHANGED <<env, req, prev, uttered, run, said>>
        /\ \A o \in Requests : call'[o] = "none" => call[o] = "none"
    BY <1>17 DEF HaSucceeds, SpeakCall, ibVars, reqVars, gatewayVars, TypeOK
  <2>2. Quiet' => Quiet
    BY <1>17, CallsAssumption DEF HaSucceeds, SpeakCall, ibVars, Quiet, TypeOK, IBTypeOK, Calls
  <2> QED BY <2>1, <2>2 DEF NewTalkReplySpoken, TalkReply, Quiet
<1>18. ASSUME NEW r \in Requests, HaFails(r) PROVE NewTalkReplySpoken'
  BY <1>18 DEF HaFails
<1>19. ASSUME NEW r \in Requests, SpeakAnswers(r) PROVE NewTalkReplySpoken'
  BY <1>19 DEF SpeakAnswers
<1>20. ASSUME NEW r \in Requests, SpeakTimesOut(r) PROVE NewTalkReplySpoken'
  BY <1>20 DEF SpeakTimesOut
<1> QED
  BY <1>1, <1>2, <1>3, <1>4, <1>5, <1>6, <1>7, <1>8, <1>9, <1>10,
     <1>11, <1>12, <1>13, <1>14, <1>15, <1>16, <1>17, <1>18, <1>19, <1>20
  DEF Next, RequestStep, SpeakStep, CallStep, Calls

-----------------------------------------------------------------------------
(* The invariant                                                           *)

\* Nothing has been asked, called or said.
LEMMA InitIInv == Init => IInv
<1>1. SUFFICES ASSUME Init PROVE IInv
  OBVIOUS
<1>2. TypeOK /\ LaneFits
  BY <1>1, InitTypes, EnabledAssumption DEF Init, TypeOK, CallState
<1>3. /\ \A r \in Requests : /\ req[r] = "idle" /\ run[r] = "none" /\ call[r] = "none"
                             /\ speak[r] = "none" /\ said[r] = NoText
      /\ \A k \in Calls : speak[k] = "none"
      /\ uttered = {}
  BY <1>1 DEF Init, IBInit, Calls
<1>4. RunsFit /\ CallsFit
  BY <1>3 DEF RunsFit, CallsFit, InFlight
<1>5. SpeechFits /\ AloneFits /\ HistoryFits
  BY <1>3 DEF SpeechFits, AloneFits, HistoryFits, InFlight
<1>7. SaidFits /\ TakeoverFits
  BY <1>1, <1>3 DEF Init, IBInit, SaidFits, TakeoverFits, TakeoverOf, From
<1>6. OnlyOwnReply /\ NewTalkReplySpoken
  BY <1>3 DEF OnlyOwnReply, NewTalkReplySpoken, TalkReply
<1> QED BY <1>2, <1>4, <1>5, <1>6, <1>7 DEF IInv

\* Nothing in IInv depends on anything but the variables.
LEMMA StutterIInv == IInv /\ UNCHANGED vars => IInv'
<1> SUFFICES ASSUME IInv, UNCHANGED vars PROVE IInv'
  OBVIOUS
<1> USE DEF vars, hbVars, ibVars, reqVars, gatewayVars
<1>1. TypeOK' /\ LaneFits'
  BY DEF IInv, TypeOK, IBTypeOK, LaneFits
<1>2. RunsFit'
  BY DEF IInv, RunsFit, InTime, ToolAnswered
<1>3. CallsFit'
  BY DEF IInv, CallsFit, InTime, InFlight
<1>4. SpeechFits'
  BY DEF IInv, SpeechFits, From, InTime
<1>5. AloneFits'
  BY DEF IInv, AloneFits, Calm, InFlight
<1>6. HistoryFits'
  BY DEF IInv, HistoryFits, Own, Calm, Quiet, InFlight
<1>7. OnlyOwnReply' /\ NewTalkReplySpoken'
  BY DEF IInv, OnlyOwnReply, NewTalkReplySpoken, TalkReply
<1>8. SaidFits' /\ TakeoverFits'
  BY DEF IInv, SaidFits, TakeoverFits, TakeoverOf, From, InTime
<1> QED BY <1>1, <1>2, <1>3, <1>4, <1>5, <1>6, <1>7, <1>8 DEF IInv

\* The strengthened invariant holds in every reachable state, for any requests,
\* /speak calls and texts and whatever the surroundings do.
THEOREM InvariantHolds == Spec => []IInv
<1>1. IInv /\ [Next]_vars => IInv'
  <2>1. IInv /\ Next => IInv'
    BY TypeStep, RunsStep, CallsStep, SaidStep, SpeechStep, TakeoverStep, AloneStep,
       HistoryStep, OwnStep, TalkStep
    DEF IInv
  <2> QED BY <2>1, StutterIInv
<1> QED BY InitIInv, <1>1, PTL DEF Spec

\* Every variable keeps its type, among them the entry that a reply is read from.
THEOREM TypeCorrect == Spec => []TypeOK
<1>1. IInv => TypeOK
  BY DEF IInv
<1> QED BY <1>1, InvariantHolds, PTL

\* What speak_after_action has the character say, Home Assistant has done, also
\* when calls fail or run out of time.
THEOREM OperationFirst == Spec => []OperatedBeforeSpoken
<1>1. IInv => OperatedBeforeSpoken
  BY DEF IInv, CallsFit, OperatedBeforeSpoken, Calls
<1> QED BY <1>1, InvariantHolds, PTL

\* In time the comparison of last_speak_at_monotonic with run_started_at keeps a
\* request from speaking the reply of its run once that run has spoken; and who
\* else speaks it, failures aside, was in flight with it and had no reply.
THEOREM RepeatsInTime == Spec => []RepeatedInTimeOnlyByMute
<1>1. ASSUME IInv, InTime, NEW r \in Requests, NEW o \in Requests,
             r \in uttered, <<o, r>> \in uttered
      PROVE  o # r /\ (env.failures \/ (env.overlap /\ said[o] = NoText))
  <2>1. o # r
    BY <1>1 DEF IInv, SpeechFits
  <2>2. ~env.failures => said[o] = NoText
    BY <1>1, <2>1 DEF IInv, TakeoverFits, TakeoverOf
  <2>3. ASSUME ~env.failures, ~env.overlap PROVE FALSE
    <3>1. env = [overlap |-> FALSE, timeouts |-> FALSE, failures |-> FALSE]
      BY <1>1, <2>3 DEF IInv, TypeOK, IBTypeOK, InTime
    <3> QED BY <1>1, <2>1, <3>1 DEF IInv, OnlyOwnReply
  <2>4. env.failures \in BOOLEAN /\ env.overlap \in BOOLEAN
    BY <1>1 DEF IInv, TypeOK, IBTypeOK
  <2> QED BY <2>1, <2>2, <2>3, <2>4
<1>2. IInv => RepeatedInTimeOnlyByMute
  BY <1>1 DEF RepeatedInTimeOnlyByMute, InTime
<1> QED BY <1>2, InvariantHolds, PTL

\* The previous text that send_to_openclaw remembers keeps a request that is
\* alone from having the reply of an earlier run spoken.
THEOREM RepliesAreOwn == Spec => []OnlyOwnReply
<1>1. IInv => OnlyOwnReply
  BY DEF IInv
<1> QED BY <1>1, InvariantHolds, PTL

\* Neither the text comparison nor the speech comparison drops a new reply to
\* casual talk of a request that is alone.
THEOREM NewTalkIsSpoken == Spec => []NewTalkReplySpoken
<1>1. IInv => NewTalkReplySpoken
  BY DEF IInv
<1> QED BY <1>1, InvariantHolds, PTL
=============================================================================
