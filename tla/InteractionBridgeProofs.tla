----------------------- MODULE InteractionBridgeProofs -----------------------
(***************************************************************************)
(* Facts about InteractionBridge that hold in whatever composes it.        *)
(***************************************************************************)
EXTENDS InteractionBridge, SequenceTheorems, TLAPS

\* Only the first run of the lane is active, and there is a reply to speak.
LaneFits ==
    \A r \in Requests :
        /\ run[r] = "running" => lane # <<>> /\ Head(lane) = r
        /\ req[r] = "speaking" => heard[r] # NoEntry

\* The name of a spoken reply is a pair, and not the name of a /speak call.
LEMMA ReplyIsPair ==
    ASSUME IBTypeOK, LaneFits, NEW r \in Requests, SpeakReply(r)
    PROVE  /\ <<r, heard[r].of>> \in Requests \X Requests
           /\ \A k \in Calls : k # <<r, heard[r].of>>
<1>1. heard[r] \in Entry
  BY DEF SpeakReply, IBTypeOK, LaneFits
<1>2. <<r, heard[r].of>> \in Requests \X Requests
  BY <1>1 DEF Entry
<1> QED BY <1>2, PairsAssumption

\* The bridge starts with its types.
LEMMA InitTypes == IBInit => IBTypeOK /\ LaneFits
<1> SUFFICES ASSUME IBInit PROVE IBTypeOK /\ LaneFits
  OBVIOUS
<1>1. env \in [overlap : BOOLEAN, timeouts : BOOLEAN, failures : BOOLEAN]
  BY EnvAssumption DEF IBInit
<1>2. lane \in Seq(Requests)
  BY DEF IBInit
<1> QED
  BY <1>1, <1>2
  DEF IBInit, IBTypeOK, LaneFits, ReqState, Outcome, SpeakState, RunState, Entry, NoEntry

\* Nothing of the bridge changes.
LEMMA StutterTypes == IBTypeOK /\ LaneFits /\ UNCHANGED ibVars => IBTypeOK' /\ LaneFits'
BY DEF ibVars, reqVars, gatewayVars, IBTypeOK, LaneFits

\* What a request does keeps the types and the lane.
LEMMA RequestTypes ==
    ASSUME IBTypeOK, LaneFits, NEW r \in Requests,
           Submit(r) \/ RequestStep(r) \/ GatewayError(r)
    PROVE  IBTypeOK' /\ LaneFits'
<1> USE DEF reqVars, gatewayVars, IBTypeOK, LaneFits, ReqState, NoEntry
<1>1. CASE Submit(r)
  BY <1>1 DEF Submit
<1>2. CASE GatewayError(r)
  BY <1>2 DEF GatewayError
<1>3. CASE FetchPrevious(r)
  BY <1>3 DEF FetchPrevious, Entry
<1>4. CASE ChatSend(r)
  <2>1. /\ Append(lane, r) \in Seq(Requests)
        /\ lane # <<>> => Head(Append(lane, r)) = Head(lane)
    BY AppendProperties
  <2>2. CASE lane' = Append(lane, r)
    <3>1. IBTypeOK'
      BY <1>4, <2>1, <2>2 DEF ChatSend, RunState
    <3>2. LaneFits'
      <4>1. UNCHANGED heard /\ lane' # <<>> /\ req'[r] # "speaking"
        BY <1>4, <2>1, <2>2, AppendProperties DEF ChatSend
      <4>2. /\ run'[r] # "running"
            /\ \A o \in Requests \ {r} : run'[o] = run[o] /\ req'[o] = req[o]
        BY <1>4, <2>2 DEF ChatSend
      <4> QED BY <2>1, <2>2, <4>1, <4>2
    <3> QED BY <3>1, <3>2
  <2>3. CASE UNCHANGED <<lane, run>>
    BY <1>4, <2>3 DEF ChatSend
  <2> QED BY <1>4, <2>2, <2>3 DEF ChatSend
<1>5. CASE WaitReturns(r)
  BY <1>5 DEF WaitReturns
<1>6. CASE FetchLatest(r)
  BY <1>6 DEF FetchLatest
<1>7. CASE Decide(r)
  <2>1. heard[r] = NoEntry => heard[r].text = NoText
    OBVIOUS
  <2>2. req'[r] = "speaking" => heard[r] # NoEntry
    BY <1>7, <2>1 DEF Decide
  <2> QED BY <1>7, <2>2 DEF Decide, Outcome
<1>8. CASE SpeakReply(r)
  <2>1. uttered' \subseteq Calls \cup (Requests \X Requests)
    <3>1. <<r, heard[r].of>> \in Requests \X Requests
      BY <1>8, ReplyIsPair
    <3>2. uttered' \subseteq uttered \cup {<<r, heard[r].of>>}
      BY <1>8 DEF SpeakReply
    <3> QED BY <3>1, <3>2
  <2> QED BY <1>8, <2>1 DEF SpeakReply, Outcome
<1> QED
  BY <1>1, <1>2, <1>3, <1>4, <1>5, <1>6, <1>7, <1>8 DEF RequestStep

\* What /speak does keeps the types and the lane.
LEMMA SpeakTypes ==
    ASSUME IBTypeOK, LaneFits, NEW k \in Calls, SpeakCall(k) \/ SpeakStep(k)
    PROVE  IBTypeOK' /\ LaneFits'
<1> USE DEF reqVars, gatewayVars, IBTypeOK, LaneFits, SpeakState
<1>1. CASE SpeakCall(k)
  BY <1>1 DEF SpeakCall
<1>2. CASE SpeakDeliver(k)
  BY <1>2 DEF SpeakDeliver
<1>3. CASE SpeakDone(k)
  BY <1>3 DEF SpeakDone, InFlight
<1>4. CASE SpeakFail(k)
  BY <1>4 DEF SpeakFail
<1> QED BY <1>1, <1>2, <1>3, <1>4 DEF SpeakStep

\* What an agent run does keeps the types and the lane.
LEMMA RunTypes ==
    ASSUME IBTypeOK, LaneFits, NEW r \in Requests,
           RunStart(r) \/ RunSays(r) \/ RunEnd(r)
    PROVE  IBTypeOK' /\ LaneFits'
<1> USE DEF reqVars, gatewayVars, IBTypeOK, LaneFits, RunState
<1>1. CASE RunStart(r)
  BY <1>1 DEF RunStart
<1>2. CASE RunSays(r)
  BY <1>2 DEF RunSays, Entry
<1>3. CASE RunEnd(r)
  <2>1. Tail(lane) \in Seq(Requests)
    BY <1>3, HeadTailProperties DEF RunEnd
  <2>2. \A o \in Requests : run'[o] # "running"
    BY <1>3 DEF RunEnd
  <2> QED BY <1>3, <2>1, <2>2 DEF RunEnd
<1> QED BY <1>1, <1>2, <1>3
=============================================================================
