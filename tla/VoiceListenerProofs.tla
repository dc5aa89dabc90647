------------------------- MODULE VoiceListenerProofs -------------------------
(***************************************************************************)
(* Proofs about VoiceListener, for any requests, status messages and texts *)
(* and for every choice of what the surroundings may do.                   *)
(***************************************************************************)
EXTENDS VoiceListener, InteractionBridgeProofs

InTime == ~env.timeouts

\* Names are left for what the loop may still start before it listens again.
NamesLeft ==
    /\ ear.doing \in {"acking", "recording"} => IdleRequests # {}
    /\ ear.doing \in {"acking", "recording", "sending"} => FreshStatus # {}

\* In time, whatever the loop has started and not seen the end of is the call
\* in which it blocks now.
LoopFits ==
    /\ \A r \in Requests : speak[r] = "none"
    /\ InTime =>
         /\ \A r \in Requests : InFlight(r) => ear = On("sending", r)
         /\ \A k \in UiCalls : speak[k] \in {"sending", "delivered"} =>
              ear \in {On("acking", k), On("reporting", k)}

\* In time, no speech has ended since a request in flight began.
SilenceFits ==
    InTime => \A r \in Requests : /\ InFlight(r) => ~spokeDuring[r]
                                  /\ outcome[r] # "skipped"

IInv ==
    /\ TypeOK
    /\ LaneFits
    /\ NamesLeft
    /\ LoopFits
    /\ SilenceFits

-----------------------------------------------------------------------------
(* Steps                                                                   *)

\* The names that the loop takes are names that are left.
LEMMA NextNames ==
    /\ IdleRequests # {} => NextRequest \in Requests /\ req[NextRequest] = "idle"
    /\ FreshStatus # {} => NextStatus \in UiCalls /\ speak[NextStatus] = "none"
BY DEF NextRequest, NextStatus, IdleRequests, FreshStatus

\* What the loop calls of the bridge: a /speak, a /send-text, or nothing.
LEMMA LoopCalls ==
    ASSUME TypeOK, NamesLeft, Wake \/ Discard \/ TranscriptionFails \/ Send \/ LoopStep
    PROVE  \/ UNCHANGED ibVars
           \/ FreshStatus # {} /\ SpeakCall(NextStatus)
           \/ IdleRequests # {} /\ Submit(NextRequest)
<1>1. CASE Wake
  BY <1>1 DEF Wake, SpeakStatus
<1>2. CASE TranscriptionFails \/ SendFails
  BY <1>2 DEF TranscriptionFails, SendFails, SpeakStatus, NamesLeft
<1>3. CASE Send
  BY <1>3 DEF Send, NamesLeft
<1>4. CASE Discard \/ AckReturns \/ SendReturns \/ ReportReturns \/ CoolDown
  BY <1>4 DEF Discard, AckReturns, SendReturns, ReportReturns, CoolDown
<1> QED BY <1>1, <1>2, <1>3, <1>4 DEF LoopStep

\* Types are kept.
LEMMA TypeStep ==
    ASSUME TypeOK, LaneFits, NamesLeft, Next
    PROVE  TypeOK' /\ LaneFits'
<1>1. IBTypeOK
  BY DEF TypeOK
<1>2. CASE BridgeStep /\ UNCHANGED vlVars
  <2>1. IBTypeOK' /\ LaneFits'
    BY <1>1, <1>2, RequestTypes, RunTypes, SpeakTypes DEF BridgeStep, Calls
  <2> QED BY <1>2, <2>1 DEF vlVars, TypeOK
<1>3. CASE Wake \/ Discard \/ TranscriptionFails \/ Send \/ LoopStep
  <2>1. IBTypeOK' /\ LaneFits'
    BY <1>1, <1>3, LoopCalls, NextNames, StutterTypes, RequestTypes, SpeakTypes DEF Calls
  <2>2. ackEnabled' = ackEnabled
    BY <1>3 DEF Wake, Discard, TranscriptionFails, Send, LoopStep, AckReturns, SendReturns,
                SendFails, ReportReturns, CoolDown
  <2>3. \/ \E d \in {"cooling", "recording", "listening"} : ear' = At(d)
        \/ FreshStatus # {} /\ \E d \in {"acking", "reporting"} : ear' = On(d, NextStatus)
        \/ IdleRequests # {} /\ ear' = On("sending", NextRequest)
    BY <1>3 DEF Wake, Discard, TranscriptionFails, Send, LoopStep, AckReturns, SendReturns,
                SendFails, ReportReturns, CoolDown, SpeakStatus, NamesLeft
  <2> QED BY <2>1, <2>2, <2>3, NextNames DEF TypeOK, At, On, Doing, Calls
<1> QED BY <1>2, <1>3 DEF Next

\* What the handlers of the bridge never do of their own accord.
LEMMA BridgeFacts ==
    ASSUME TypeOK, LoopFits, BridgeStep
    PROVE  /\ env' = env
           /\ \A r \in Requests :
                /\ req[r] = "idle" => req'[r] = "idle"
                /\ InFlight(r)' => InFlight(r)
                /\ speak[r] = "none" => speak'[r] = "none"
           /\ \A k \in UiCalls :
                /\ speak[k] = "none" => speak'[k] = "none"
                /\ speak'[k] \in {"sending", "delivered"} => speak[k] \in {"sending", "delivered"}
<1> USE DEF reqVars, gatewayVars, TypeOK, IBTypeOK, InFlight, Finished
<1>1. ASSUME NEW r \in Requests, RequestStep(r) \/ GatewayError(r)
      PROVE  UNCHANGED <<env, speak>> /\ \A o \in Requests :
               (req[o] = "idle" => req'[o] = "idle") /\ (InFlight(o)' => InFlight(o))
  BY <1>1 DEF RequestStep, FetchPrevious, ChatSend, WaitReturns, FetchLatest, Decide,
              SpeakReply, GatewayError
<1>2. ASSUME NEW r \in Requests, RunStart(r) \/ RunSays(r) \/ RunEnd(r)
      PROVE  UNCHANGED <<env, speak, req>>
  BY <1>2 DEF RunStart, RunSays, RunEnd
<1>3. ASSUME NEW k \in UiCalls, SpeakStep(k)
      PROVE  /\ UNCHANGED <<env, req>> /\ \A r \in Requests : speak'[r] = speak[r]
             /\ \A j \in UiCalls :
                  /\ speak[j] = "none" => speak'[j] = "none"
                  /\ speak'[j] \in {"sending", "delivered"} =>
                       speak[j] \in {"sending", "delivered"}
  BY <1>3, CallsAssumption DEF SpeakStep, SpeakDeliver, SpeakDone, SpeakFail, Calls
<1> QED BY <1>1, <1>2, <1>3 DEF BridgeStep

\* Names stay left.
LEMMA NamesStep ==
    ASSUME TypeOK, NamesLeft, LoopFits, Next
    PROVE  NamesLeft'
<1>1. CASE BridgeStep /\ UNCHANGED vlVars
  <2>1. IdleRequests \subseteq IdleRequests' /\ FreshStatus \subseteq FreshStatus'
    BY <1>1, BridgeFacts DEF IdleRequests, FreshStatus
  <2> QED BY <1>1, <2>1 DEF vlVars, NamesLeft
<1>2. CASE Wake
  <2>1. IdleRequests' = IdleRequests /\ IdleRequests # {}
    BY <1>2 DEF Wake, SpeakStatus, SpeakCall, ibVars, reqVars, IdleRequests
  <2>2. PICK k \in FreshStatus : k # NextStatus
    BY <1>2 DEF Wake
  <2>3. k \in FreshStatus'
    BY <1>2, <2>2 DEF Wake, SpeakStatus, SpeakCall, ibVars, FreshStatus, TypeOK, IBTypeOK, Calls
  <2> QED BY <2>1, <2>3 DEF NamesLeft
<1>3. CASE Discard \/ SendReturns \/ ReportReturns \/ CoolDown \/ TranscriptionFails \/ SendFails
  <2>1. ear'.doing \in {"cooling", "listening", "reporting"}
    BY <1>3 DEF Discard, SendReturns, ReportReturns, CoolDown, TranscriptionFails, SendFails,
                SpeakStatus, At, On
  <2> QED BY <2>1 DEF NamesLeft
<1>4. CASE Send
  <2>1. ear'.doing = "sending" /\ FreshStatus' = FreshStatus
    BY <1>4 DEF Send, Submit, On, FreshStatus
  <2> QED BY <1>4, <2>1 DEF Send, NamesLeft
<1>5. CASE AckReturns
  BY <1>5 DEF AckReturns, ibVars, reqVars, NamesLeft, IdleRequests, FreshStatus
<1> QED BY <1>1, <1>2, <1>3, <1>4, <1>5 DEF Next, LoopStep

\* In time, the loop and the bridge agree about what is going on.
LEMMA LoopFitsStep ==
    ASSUME TypeOK, NamesLeft, LoopFits, Next
    PROVE  LoopFits'
<1> USE DEF InTime
<1>1. CASE BridgeStep /\ UNCHANGED vlVars
  BY <1>1, BridgeFacts DEF vlVars, LoopFits
<1>2. ASSUME FreshStatus # {}, SpeakStatus("acking") \/ SpeakStatus("reporting"),
             InTime => \A r \in Requests : ~InFlight(r),
             InTime => \A k \in UiCalls : speak[k] \notin {"sending", "delivered"}
      PROVE  LoopFits'
  <2>1. /\ NextStatus \in UiCalls /\ NextStatus \notin Requests
        /\ ear' \in {On("acking", NextStatus), On("reporting", NextStatus)}
        /\ env' = env /\ req' = req
        /\ speak' = [speak EXCEPT ![NextStatus] = "sending"]
    BY <1>2, NextNames, CallsAssumption DEF SpeakStatus, SpeakCall, reqVars
  <2>2. \A j \in Calls : j # NextStatus => speak'[j] = speak[j]
    BY <2>1 DEF TypeOK, IBTypeOK
  <2>3. \A r \in Requests : (InFlight(r)' <=> InFlight(r)) /\ speak'[r] = "none"
    BY <2>1, <2>2 DEF InFlight, LoopFits, Calls
  <2> QED BY <1>2, <2>1, <2>2, <2>3 DEF LoopFits, Calls
<1>3. CASE Wake
  <2>1. InTime => \A r \in Requests : ~InFlight(r)
    BY <1>3 DEF Wake, LoopFits, On
  <2>2. InTime => \A k \in UiCalls : speak[k] \notin {"sending", "delivered"}
    BY <1>3 DEF Wake, LoopFits, On
  <2>3. CASE SpeakStatus("acking")
    BY <1>2, <1>3, <2>1, <2>2, <2>3 DEF Wake
  <2>4. CASE UNCHANGED ibVars
    BY <2>1, <2>2, <2>4 DEF ibVars, reqVars, LoopFits, InFlight
  <2> QED BY <1>3, <2>3, <2>4 DEF Wake
<1>4. CASE TranscriptionFails
  <2>1. InTime => \A r \in Requests : ~InFlight(r)
    BY <1>4 DEF TranscriptionFails, LoopFits, On
  <2>2. InTime => \A k \in UiCalls : speak[k] \notin {"sending", "delivered"}
    BY <1>4 DEF TranscriptionFails, LoopFits, On
  <2> QED BY <1>2, <1>4, <2>1, <2>2 DEF TranscriptionFails, NamesLeft
<1>5. CASE SendFails
  <2>1. InTime => \A r \in Requests : ~InFlight(r)
    BY <1>5 DEF SendFails, LoopFits, On, InFlight, Finished
  <2>2. InTime => \A k \in UiCalls : speak[k] \notin {"sending", "delivered"}
    BY <1>5 DEF SendFails, LoopFits, On
  <2> QED BY <1>2, <1>5, <2>1, <2>2 DEF SendFails, NamesLeft
<1>6. CASE Send
  <2>1. /\ ear' = On("sending", NextRequest) /\ env' = env /\ speak' = speak
        /\ \A r \in Requests : r # NextRequest => req'[r] = req[r]
        /\ ear.doing = "recording"
    BY <1>6 DEF Send, Submit, TypeOK, IBTypeOK
  <2>2. InTime => /\ \A r \in Requests : ~InFlight(r)
                  /\ \A k \in UiCalls : speak[k] \notin {"sending", "delivered"}
    BY <2>1 DEF LoopFits, On
  <2> QED BY <2>1, <2>2 DEF LoopFits, InFlight
<1>7. ASSUME Discard \/ AckReturns \/ SendReturns \/ ReportReturns \/ CoolDown PROVE LoopFits'
  <2>1. UNCHANGED ibVars
    BY <1>7 DEF Discard, AckReturns, SendReturns, ReportReturns, CoolDown
  <2>2. InTime => \A r \in Requests : ~InFlight(r)
    BY <1>7 DEF Discard, AckReturns, SendReturns, ReportReturns, CoolDown, LoopFits, On,
                InFlight, Finished
  <2>3. InTime => \A k \in UiCalls : speak[k] \notin {"sending", "delivered"}
    BY <1>7 DEF Discard, AckReturns, SendReturns, ReportReturns, CoolDown, StatusAnswered,
                LoopFits, On
  <2> QED BY <2>1, <2>2, <2>3 DEF ibVars, reqVars, LoopFits, InFlight
<1> QED BY <1>1, <1>3, <1>4, <1>5, <1>6, <1>7 DEF Next, LoopStep

\* In time, no status message ends while a request is in flight.
LEMMA SilenceStep ==
    ASSUME TypeOK, NamesLeft, LoopFits, SilenceFits, Next
    PROVE  SilenceFits'
<1> USE DEF InTime
<1>1. ASSUME NEW r \in Requests, RequestStep(r) \/ GatewayError(r), UNCHANGED vlVars
      PROVE  SilenceFits'
  <2>1. /\ UNCHANGED <<env, spokeDuring>> /\ \A o \in Requests : InFlight(o)' => InFlight(o)
    BY <1>1 DEF RequestStep, FetchPrevious, ChatSend, WaitReturns, FetchLatest, Decide,
                SpeakReply, GatewayError, TypeOK, IBTypeOK, InFlight, Finished
  <2>2. \A o \in Requests : outcome'[o] = "skipped" =>
          outcome[o] = "skipped" \/ (InFlight(o) /\ spokeDuring[o])
    BY <1>1 DEF RequestStep, FetchPrevious, ChatSend, WaitReturns, FetchLatest, Decide,
                SpeakReply, GatewayError, TypeOK, IBTypeOK, InFlight, Finished
  <2> QED BY <2>1, <2>2 DEF SilenceFits
<1>2. ASSUME NEW r \in Requests, RunStart(r) \/ RunSays(r) \/ RunEnd(r) PROVE SilenceFits'
  BY <1>2 DEF RunStart, RunSays, RunEnd, reqVars, SilenceFits, InFlight
<1>3. ASSUME NEW k \in UiCalls, SpeakStep(k) PROVE SilenceFits'
  <2>1. SpeakDone(k) => (InTime => \A r \in Requests : ~InFlight(r))
    BY DEF SpeakDone, LoopFits, On
  <2>2. UNCHANGED <<env, req, outcome>>
    BY <1>3 DEF SpeakStep, SpeakDeliver, SpeakDone, SpeakFail, reqVars
  <2>3. \A r \in Requests : spokeDuring'[r] => spokeDuring[r] \/ SpeakDone(k)
    BY <1>3 DEF SpeakStep, SpeakDeliver, SpeakFail, reqVars
  <2> QED BY <2>1, <2>2, <2>3 DEF SilenceFits, InFlight
<1>4. ASSUME NEW k \in Calls, SpeakCall(k) PROVE SilenceFits'
  BY <1>4 DEF SpeakCall, reqVars, SilenceFits, InFlight
<1>5. ASSUME NEW r \in Requests, Submit(r) PROVE SilenceFits'
  BY <1>5 DEF Submit, TypeOK, IBTypeOK, SilenceFits, InFlight, Finished
<1>6. CASE UNCHANGED ibVars
  BY <1>6 DEF ibVars, reqVars, SilenceFits, InFlight
<1>7. CASE Wake \/ Discard \/ TranscriptionFails \/ Send \/ LoopStep
  BY <1>4, <1>5, <1>6, <1>7, LoopCalls, NextNames DEF Calls
<1> QED BY <1>1, <1>2, <1>3, <1>7 DEF Next, BridgeStep

-----------------------------------------------------------------------------
(* The invariant                                                           *)

\* The loop listens and nothing has been asked or said.
LEMMA InitIInv == Init => IInv
<1> SUFFICES ASSUME Init PROVE IInv
  OBVIOUS
<1>1. TypeOK /\ LaneFits
  BY InitTypes, AckAssumption DEF Init, TypeOK, At, Doing
<1>2. /\ \A r \in Requests :
           req[r] = "idle" /\ speak[r] = "none" /\ outcome[r] = "none"
      /\ \A k \in UiCalls : speak[k] = "none"
      /\ ear.doing = "listening"
  BY DEF Init, IBInit, Calls, At
<1> QED BY <1>1, <1>2 DEF IInv, NamesLeft, LoopFits, SilenceFits, InFlight

\* Nothing in IInv depends on anything but the variables.
LEMMA StutterIInv == IInv /\ UNCHANGED vars => IInv'
<1> SUFFICES ASSUME IInv, UNCHANGED vars PROVE IInv'
  OBVIOUS
<1> USE DEF vars, vlVars, ibVars, reqVars, gatewayVars
<1>1. TypeOK' /\ LaneFits'
  BY DEF IInv, TypeOK, IBTypeOK, LaneFits
<1>2. NamesLeft' /\ LoopFits' /\ SilenceFits'
  BY DEF IInv, NamesLeft, IdleRequests, FreshStatus, LoopFits, SilenceFits, InTime, InFlight
<1> QED BY <1>1, <1>2 DEF IInv

\* The strengthened invariant holds in every reachable state, for any requests
\* and status messages and whatever the surroundings do.
THEOREM InvariantHolds == Spec => []IInv
<1>1. IInv /\ [Next]_vars => IInv'
  <2>1. IInv /\ Next => IInv'
    BY TypeStep, NamesStep, LoopFitsStep, SilenceStep DEF IInv
  <2> QED BY <2>1, StutterIInv
<1> QED BY InitIInv, <1>1, PTL DEF Spec

\* Every variable keeps its type: the loop blocks only in calls it has made.
THEOREM TypeCorrect == Spec => []TypeOK
<1>1. IInv => TypeOK
  BY DEF IInv
<1> QED BY <1>1, InvariantHolds, PTL

\* As long as no time limit expires, neither the acknowledgement of the wake word
\* nor an error message makes send_to_openclaw drop a reply.
THEOREM ReplyNotSilenced == Spec => []StatusNeverSilencesReply
<1>1. IInv => StatusNeverSilencesReply
  BY DEF IInv, SilenceFits, InTime, StatusNeverSilencesReply
<1> QED BY <1>1, InvariantHolds, PTL

\* As long as no time limit expires, the microphone is open only when the bridge
\* has nothing more to say.
THEOREM ListensInSilence == Spec => []ListensWhenQuiet
<1>1. IInv => ListensWhenQuiet
  BY DEF IInv, LoopFits, InTime, ListensWhenQuiet, On, Calls
<1> QED BY <1>1, InvariantHolds, PTL
=============================================================================
