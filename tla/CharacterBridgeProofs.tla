------------------------ MODULE CharacterBridgeProofs ------------------------
(***************************************************************************)
(* Proofs about CharacterBridge, for any finite set of clients and any     *)
(* number of messages.                                                     *)
(***************************************************************************)
EXTENDS CharacterBridge, FiniteSetTheorems, SequenceTheorems, TLAPS

\* A handler is inside broadcast exactly while its locals are in use, and only
\* such a handler can have the event loop there.
Casting ==
    /\ running # Nobody => handler[running] = "broadcasting"
    /\ \A c \in Clients :
         /\ handler[c] # "broadcasting" => cast[c] = NoCast
         /\ handler[c] = "broadcasting" => cast[c].msg \in Message /\ cast[c].msg[1] = c

\* What a broadcast is going to forget has broken for good.
StaleLost == \A c \in Clients : \A d \in cast[c].stale : net[d] = "lost"

\* The frames of c that are still to be read come after those received from c
\* and after the one that c broadcasts, in the order they were sent.
Frame(c, i)  == i \in 1..Len(inbox[c]) /\ inbox[c][i] # End
Number(c, i) == inbox[c][i][2]

Ordered ==
    /\ \A c \in Clients : \A i \in Nat : Frame(c, i) => inbox[c][i][1] = c
    /\ \A c \in Clients : \A i, j \in Nat :
         Frame(c, i) /\ Frame(c, j) /\ i < j => Number(c, i) < Number(c, j)
    /\ \A c, d \in Clients : \A i \in Nat : Frame(c, i) => received[d][c] < Number(c, i)
    /\ \A c \in Clients : \A i \in Nat :
         Frame(c, i) /\ handler[c] = "broadcasting" => cast[c].msg[2] < Number(c, i)
    /\ \A c, d \in Clients :
         handler[c] = "broadcasting" => received[d][c] <= cast[c].msg[2]

\* While the audience of a broadcast is steady, its members are ahead of it, have
\* the message, or are lost.
Served ==
    \A c \in Clients : handler[c] = "broadcasting" /\ cast[c].audience = "steady" =>
        /\ cast[c].size = Cardinality(clients)
        /\ \A d \in clients \ {c} :
             d \in cast[c].todo \/ received[d][c] = cast[c].msg[2] \/ net[d] = "lost"

IInv ==
    /\ TypeOK
    /\ Casting
    /\ StaleLost
    /\ MembersAlive
    /\ LiveClientsRegistered
    /\ Ordered
    /\ Served

-----------------------------------------------------------------------------
(* Types                                                                   *)

\* A close frame is not a message.
LEMMA EndFacts == End \notin Message /\ NoMessage \notin Message
BY DEF End, NoMessage, Message

\* The size an iterator remembers is a number that a cast can hold.
LEMMA SizeFacts == ASSUME clients \subseteq Clients PROVE Cardinality(clients) \in 0..Cardinality(Clients)
BY ClientsAssumption, FS_Subset, FS_CardinalityType

\* The locals of no broadcast are well typed.
LEMMA NoCastType == NoCast \in Cast
<1>1. Cardinality(Clients) \in Nat
  BY ClientsAssumption, FS_CardinalityType
<1> QED BY <1>1 DEF NoCast, Cast

\* What a handler does to the locals of its broadcast.
LEMMA CastFacts ==
    ASSUME NEW k \in Cast
    PROVE  /\ [k EXCEPT !.audience = "touched"] \in Cast
           /\ \A t \in SUBSET Clients : [k EXCEPT !.todo = t, !.audience = "rescanned"] \in Cast
           /\ \A t \in SUBSET Clients : [k EXCEPT !.todo = t] \in Cast
           /\ \A t \in SUBSET Clients, a \in Clients : [k EXCEPT !.todo = t, !.at = a] \in Cast
           /\ \A t \in SUBSET Clients : [k EXCEPT !.at = Nobody, !.stale = t] \in Cast
<1> DEFINE N == 0..Cardinality(Clients)
           M == Message \cup {NoMessage}
<1>1. Cast = [msg : M, size : N, todo : SUBSET Clients, stale : SUBSET Clients,
              at : Clients \cup {Nobody}, audience : {"steady", "touched", "rescanned"}]
  BY DEF Cast
<1> HIDE DEF N, M
<1> QED BY <1>1

\* Marking the other iterations changes nothing but the mark, and marks them when
\* the set really changes.
LEMMA ModifiedFacts ==
    ASSUME TypeOK, NEW c \in Clients, NEW members
    PROVE  /\ Modified(c, members) \in [Clients -> Cast]
           /\ Modified(c, members)[c] = cast[c]
           /\ \A d \in Clients :
                /\ Modified(c, members)[d].msg = cast[d].msg
                /\ Modified(c, members)[d].stale = cast[d].stale
                /\ Modified(c, members)[d].at = cast[d].at
                /\ handler[d] # "broadcasting" => Modified(c, members)[d] = cast[d]
                /\ members = clients => Modified(c, members)[d] = cast[d]
                /\ members # clients /\ handler[d] = "broadcasting" /\ d # c =>
                     Modified(c, members)[d].audience = "touched"
<1>1. \A d \in Clients : cast[d] \in Cast /\ [cast[d] EXCEPT !.audience = "touched"] \in Cast
  BY CastFacts DEF TypeOK
<1>2. \A d \in Clients :
        /\ [cast[d] EXCEPT !.audience = "touched"].msg = cast[d].msg
        /\ [cast[d] EXCEPT !.audience = "touched"].stale = cast[d].stale
        /\ [cast[d] EXCEPT !.audience = "touched"].at = cast[d].at
        /\ [cast[d] EXCEPT !.audience = "touched"].audience = "touched"
  BY <1>1 DEF Cast
<1> QED BY <1>1, <1>2 DEF Modified

\* What Cleanup leaves behind.
LEMMA CleanupFacts ==
    ASSUME TypeOK, NEW c \in Clients, Cleanup(c), running' \in Clients \cup {Nobody}
    PROVE  /\ TypeOK'
           /\ cast'[c] = NoCast
           /\ \A d \in Clients \ {c} : cast'[d].msg = cast[d].msg /\ cast'[d].stale = cast[d].stale
                 /\ (handler[d] # "broadcasting" => cast'[d] = cast[d])
                 /\ (clients' = clients => cast'[d] = cast[d])
                 /\ (clients' # clients /\ handler[d] = "broadcasting" =>
                      cast'[d].audience = "touched")
<1>1. cast' \in [Clients -> Cast]
  BY ModifiedFacts, NoCastType DEF Cleanup
<1>2. inbox' \in [Clients -> Seq(Message \cup {End})]
  BY DEF Cleanup, TypeOK
<1>3. TypeOK'
  BY <1>1, <1>2 DEF Cleanup, TypeOK, HandlerState, NetState
<1>4. cast' = [Modified(c, clients') EXCEPT ![c] = NoCast]
  BY DEF Cleanup
<1>5. Modified(c, clients') \in [Clients -> Cast]
  BY ModifiedFacts
<1>6. cast'[c] = NoCast /\ \A d \in Clients \ {c} : cast'[d] = Modified(c, clients')[d]
  BY <1>4, <1>5
<1> QED BY <1>3, <1>6, ModifiedFacts

\* Every step keeps the types.
LEMMA TypeStep == ASSUME TypeOK, Casting, Next PROVE TypeOK'
<1>0. \A c \in Clients : c # Nobody
  BY NobodyAssumption
<1>1. PICK c \in Clients :
        \/ Leave(c) \/ Pause(c) \/ Unpause(c) \/ Break(c) \/ Flush(c)
        \/ Open(c) \/ HandlerStep(c)
  BY DEF Next
<1>2. CASE Leave(c)
  <2>1. Append(inbox[c], End) \in Seq(Message \cup {End})
    BY AppendProperties DEF TypeOK
  <2> QED BY <1>2, <2>1 DEF Leave, TypeOK
<1>3. CASE Pause(c) \/ Unpause(c) \/ Break(c) \/ Flush(c)
  BY <1>3 DEF Pause, Unpause, Break, Flush, NetChange, TypeOK, NetState
<1>4. CASE Open(c)
  <2>1. Modified(c, clients') \in [Clients -> Cast] /\ cast \in [Clients -> Cast]
    BY ModifiedFacts DEF TypeOK
  <2>2. cast' \in [Clients -> Cast]
    BY <1>4, <2>1 DEF Open
  <2>3. handler' \in [Clients -> HandlerState] /\ clients' \subseteq Clients
    BY <1>4 DEF Open, TypeOK, HandlerState
  <2> QED BY <1>4, <2>2, <2>3 DEF Open, TypeOK
<1>5. CASE Close(c)
  BY <1>5, CleanupFacts DEF Close, TypeOK
<1>6. CASE ReadText(c)
  <2>1. /\ Head(inbox[c]) \in Message
        /\ Tail(inbox[c]) \in Seq(Message \cup {End})
    BY <1>6, HeadTailProperties DEF ReadText, TypeOK
  <2>2. cast' \in [Clients -> Cast]
    <3>1. [NoCast EXCEPT !.msg = Head(inbox[c]), !.size = Cardinality(clients),
                         !.todo = clients \ {c}] \in Cast
      BY <2>1, NoCastType, SizeFacts DEF Cast, TypeOK, NoCast
    <3> QED BY <1>6, <3>1 DEF ReadText, TypeOK
  <2> QED BY <1>6, <2>1, <2>2 DEF ReadText, TypeOK, HandlerState
<1>7. CASE Abort(c)
  BY <1>7, CleanupFacts DEF Abort
<1>8. CASE Rescan(c)
  <2>1. ASSUME NEW t \in SUBSET (clients \ {c}),
               cast' = [cast EXCEPT ![c].todo = t, ![c].audience = "rescanned"]
        PROVE  cast' \in [Clients -> Cast]
    <3>1. t \in SUBSET Clients /\ cast[c] \in Cast
      BY DEF TypeOK
    <3>2. cast' = [cast EXCEPT ![c] = [cast[c] EXCEPT !.todo = t, !.audience = "rescanned"]]
      BY <2>1, <3>1 DEF TypeOK
    <3> HIDE DEF Cast
    <3> QED BY <3>1, <3>2, CastFacts DEF TypeOK
  <2> QED BY <1>8, <2>1 DEF Rescan, TypeOK
<1>9. CASE Drained(c)
  <2>1. cast[c] \in Cast /\ cast[c].at \in Clients
    BY <1>9 DEF Drained, TypeOK, Cast
  <2>2. cast' \in [Clients -> Cast]
    <3>1. cast[c].stale \in SUBSET Clients /\ cast[c].stale \cup {cast[c].at} \in SUBSET Clients
      BY <2>1 DEF Cast
    <3>2. \E t \in SUBSET Clients : cast' = [cast EXCEPT ![c] = [cast[c] EXCEPT !.at = Nobody, !.stale = t]]
      BY <1>9, <3>1 DEF Drained, TypeOK
    <3>3. \E v \in Cast : cast' = [cast EXCEPT ![c] = v]
      BY <2>1, <3>2, CastFacts
    <3> QED BY <3>3 DEF TypeOK
  <2> QED BY <1>9, <2>2 DEF Drained, TypeOK
<1>10. CASE Finish(c)
  <2>1. cast' \in [Clients -> Cast]
    BY <1>10, ModifiedFacts, NoCastType DEF Finish, TypeOK
  <2> QED BY <1>10, <2>1 DEF Finish, TypeOK, HandlerState
<1>11. ASSUME NEW d \in Clients, Write(c, d) PROVE TypeOK'
  <2>1. cast[c].msg \in Message
    BY <1>11, <1>0 DEF Write, Iterating, Casting
  <2>2. received' \in [Clients -> [Senders -> Nat]]
    <3>1. cast[c].msg[1] \in Senders /\ cast[c].msg[2] \in Nat
      BY <2>1 DEF Message
    <3> QED BY <1>11, <3>1 DEF Write, TypeOK
  <2>3. cast' \in [Clients -> Cast]
    <3>1. cast[c] \in Cast /\ cast[c].todo \ {d} \in SUBSET Clients
      BY DEF TypeOK, Cast
    <3>2. \/ cast' = [cast EXCEPT ![c] = [cast[c] EXCEPT !.todo = cast[c].todo \ {d}]]
          \/ cast' = [cast EXCEPT ![c] = [cast[c] EXCEPT !.todo = cast[c].todo \ {d}, !.at = d]]
      BY <1>11 DEF Write, TypeOK
    <3>3. \E v \in Cast : cast' = [cast EXCEPT ![c] = v]
      BY <3>1, <3>2, CastFacts
    <3> QED BY <3>3 DEF TypeOK
  <2> QED BY <1>11, <2>2, <2>3 DEF Write, TypeOK
<1> QED BY <1>1, <1>2, <1>3, <1>4, <1>5, <1>6, <1>7, <1>8, <1>9, <1>10, <1>11
        DEF HandlerStep

-----------------------------------------------------------------------------
(* Handlers, membership and stale clients                                  *)

\* What a step of a broadcast does to the locals the invariants speak of.
LEMMA WriteFacts ==
    ASSUME TypeOK, NEW c \in Clients, NEW d \in Clients, Write(c, d)
    PROVE  \A x \in Clients : /\ cast'[x].msg = cast[x].msg
                              /\ cast'[x].stale = cast[x].stale
                              /\ x # c => cast'[x] = cast[x]
BY DEF Write, TypeOK, Cast

\* A drain that ends changes one broadcast, which may note one lost client.
LEMMA DrainedFacts ==
    ASSUME TypeOK, NEW c \in Clients, Drained(c)
    PROVE  /\ \A x \in Clients : cast'[x].msg = cast[x].msg /\ (x # c => cast'[x] = cast[x])
           /\ \/ cast'[c].stale = cast[c].stale
              \/ net[cast[c].at] = "lost" /\ cast'[c].stale = cast[c].stale \cup {cast[c].at}
BY DEF Drained, TypeOK, Cast

\* Going on after a change touches neither message nor lost clients.
LEMMA RescanFacts ==
    ASSUME TypeOK, NEW c \in Clients, Rescan(c)
    PROVE  \A x \in Clients : /\ cast'[x].msg = cast[x].msg
                              /\ cast'[x].stale = cast[x].stale
                              /\ x # c => cast'[x] = cast[x]
BY DEF Rescan, TypeOK, Cast

\* A handler broadcasts the oldest frame of its client.
LEMMA ReadFacts ==
    ASSUME TypeOK, Ordered, NEW c \in Clients, ReadText(c)
    PROVE  /\ cast'[c].msg = Head(inbox[c]) /\ cast'[c].stale = {}
           /\ Head(inbox[c]) = inbox[c][1] /\ Frame(c, 1)
           /\ Head(inbox[c]) \in Message /\ Head(inbox[c])[1] = c
           /\ \A x \in Clients : x # c => cast'[x] = cast[x]
<1>1. /\ inbox[c] \in Seq(Message \cup {End}) /\ inbox[c] # <<>> /\ Head(inbox[c]) # End
      /\ cast \in [Clients -> Cast]
  BY DEF ReadText, TypeOK
<1>2. Head(inbox[c]) \in Message /\ Head(inbox[c]) = inbox[c][1] /\ Len(inbox[c]) \in Nat
      /\ Len(inbox[c]) >= 1
  BY <1>1, HeadTailProperties, LenProperties, EmptySeq
<1>3. Frame(c, 1)
  BY <1>1, <1>2 DEF Frame
<1>4. inbox[c][1][1] = c
  BY <1>3 DEF Ordered
<1> QED BY <1>1, <1>2, <1>3, <1>4 DEF ReadText, NoCast

\* Finish leaves its own locals empty and at most marks those of the others.
LEMMA FinishFacts ==
    ASSUME TypeOK, NEW c \in Clients, Finish(c)
    PROVE  /\ cast'[c] = NoCast
           /\ \A x \in Clients \ {c} :
                /\ cast'[x].msg = cast[x].msg /\ cast'[x].stale = cast[x].stale
                /\ handler[x] # "broadcasting" => cast'[x] = cast[x]
                /\ clients' = clients => cast'[x] = cast[x]
                /\ clients' # clients /\ handler[x] = "broadcasting" =>
                     cast'[x].audience = "touched"
<1>1. cast \in [Clients -> Cast]
  BY DEF TypeOK
<1>2. cast' = [Modified(c, clients') EXCEPT ![c] = NoCast]
  BY DEF Finish
<1>3. Modified(c, clients') \in [Clients -> Cast]
  BY ModifiedFacts
<1>4. cast'[c] = NoCast /\ \A x \in Clients \ {c} : cast'[x] = Modified(c, clients')[x]
  BY <1>2, <1>3
<1> QED BY <1>4, ModifiedFacts

\* A step that leaves handlers and members alone, mends no connection and at
\* most marks the locals of a broadcast.
LEMMA MembersKept ==
    ASSUME IInv, handler' = handler, clients' = clients,
           \A x \in Clients : /\ net[x] = "lost" => net'[x] = "lost"
                              /\ cast'[x].msg = cast[x].msg
                              /\ \A d \in cast'[x].stale : d \in cast[x].stale \/ net[d] = "lost"
                              /\ handler[x] # "broadcasting" => cast'[x] = cast[x],
           \A x \in Clients : cast'[x].stale \subseteq Clients,
           running' # Nobody => handler[running'] = "broadcasting"
    PROVE  Casting' /\ StaleLost' /\ MembersAlive' /\ LiveClientsRegistered'
<1>0. Casting /\ StaleLost /\ MembersAlive /\ LiveClientsRegistered
  BY DEF IInv
<1>1. Casting'
  BY <1>0 DEF Casting
<1>2. StaleLost'
  BY <1>0 DEF StaleLost
<1>3. MembersAlive' /\ LiveClientsRegistered'
  BY <1>0 DEF MembersAlive, LiveClientsRegistered
<1> QED BY <1>1, <1>2, <1>3

\* The member set follows the handlers, and a broadcast forgets only clients
\* whose connection has broken.
LEMMA MembersStep ==
    ASSUME IInv, Next
    PROVE  Casting' /\ StaleLost' /\ MembersAlive' /\ LiveClientsRegistered'
<1>0. /\ TypeOK /\ Casting /\ StaleLost /\ MembersAlive /\ LiveClientsRegistered /\ Ordered
      /\ handler \in [Clients -> HandlerState] /\ net \in [Clients -> NetState]
      /\ cast \in [Clients -> Cast] /\ clients \subseteq Clients
      /\ \A c \in Clients : c # Nobody
      /\ NoCast.stale = {} /\ NoCast.at = Nobody
  BY NobodyAssumption DEF IInv, TypeOK, NoCast
<1>1. PICK c \in Clients :
        \/ Leave(c) \/ Pause(c) \/ Unpause(c) \/ Break(c) \/ Flush(c)
        \/ Open(c) \/ HandlerStep(c)
  BY DEF Next
<1>2. CASE Leave(c)
  BY <1>0, <1>2, MembersKept DEF Leave, Casting, Cast
<1>3. CASE Pause(c) \/ Unpause(c) \/ Break(c) \/ Flush(c)
  <2>1. \A x \in Clients : net[x] = "lost" => net'[x] = "lost"
    BY <1>0, <1>3 DEF Pause, Unpause, Break, Flush, NetChange
  <2>2. UNCHANGED <<handler, clients, cast, running>>
    BY <1>3 DEF Pause, Unpause, Break, Flush, NetChange
  <2> QED BY <1>0, <2>1, <2>2, MembersKept DEF Casting, Cast
<1>4. CASE Open(c)
  <2>1. \A x \in Clients : /\ cast'[x].msg = cast[x].msg /\ cast'[x].stale = cast[x].stale
                           /\ handler[x] # "broadcasting" => cast'[x] = cast[x]
    BY <1>0, <1>4, ModifiedFacts DEF Open
  <2>2. Casting' /\ StaleLost'
    BY <1>0, <1>4, <2>1 DEF Open, Casting, StaleLost
  <2>3. MembersAlive' /\ LiveClientsRegistered'
    BY <1>0, <1>4 DEF Open, MembersAlive, LiveClientsRegistered
  <2> QED BY <2>2, <2>3
<1>5. ASSUME Cleanup(c), running' = Nobody
      PROVE  Casting' /\ StaleLost' /\ MembersAlive' /\ LiveClientsRegistered'
  <2>1. /\ cast'[c] = NoCast
        /\ \A x \in Clients \ {c} : cast'[x].msg = cast[x].msg /\ cast'[x].stale = cast[x].stale
              /\ (handler[x] # "broadcasting" => cast'[x] = cast[x])
    BY <1>0, <1>5, CleanupFacts
  <2>2. Casting' /\ StaleLost'
    <3>1. /\ handler'[c] = "closed" /\ \A x \in Clients \ {c} : handler'[x] = handler[x]
          /\ \A x \in Clients : net[x] = "lost" => net'[x] = "lost"
          /\ \A x \in Clients : cast[x].stale \subseteq Clients
      BY <1>0, <1>5 DEF Cleanup, Cast
    <3>2. Casting'
      BY <1>0, <1>5, <2>1, <3>1 DEF Casting
    <3>3. StaleLost'
      BY <1>0, <2>1, <3>1 DEF StaleLost
    <3> QED BY <3>2, <3>3
  <2>3. MembersAlive' /\ LiveClientsRegistered'
    BY <1>0, <1>5 DEF Cleanup, MembersAlive, LiveClientsRegistered
  <2> QED BY <2>2, <2>3
<1>6. CASE Close(c) \/ Abort(c)
  BY <1>5, <1>6 DEF Close, Abort
<1>7. CASE ReadText(c)
  <2>1. /\ cast'[c].msg \in Message /\ cast'[c].msg[1] = c /\ cast'[c].stale = {}
        /\ handler'[c] = "broadcasting" /\ running' = c /\ net' = net
        /\ \A x \in Clients \ {c} : cast'[x] = cast[x] /\ handler'[x] = handler[x]
    <3>1. handler \in [Clients -> HandlerState]
      BY <1>0 DEF TypeOK
    <3>2. /\ handler'[c] = "broadcasting" /\ running' = c /\ net' = net
          /\ \A x \in Clients \ {c} : handler'[x] = handler[x]
      BY <1>7, <3>1 DEF ReadText
    <3>3. /\ cast'[c].msg \in Message /\ cast'[c].msg[1] = c /\ cast'[c].stale = {}
          /\ \A x \in Clients \ {c} : cast'[x] = cast[x]
      BY <1>0, <1>7, ReadFacts
    <3> QED BY <3>2, <3>3
  <2>3. Casting'
    BY <1>0, <2>1 DEF Casting
  <2>4. StaleLost'
    BY <1>0, <2>1 DEF StaleLost
  <2>2. MembersAlive' /\ LiveClientsRegistered'
    BY <1>0, <1>7 DEF ReadText, MembersAlive, LiveClientsRegistered
  <2> QED BY <2>2, <2>3, <2>4
<1>8. CASE Rescan(c)
  <2>1. UNCHANGED <<handler, clients, net, running>> /\ handler[c] = "broadcasting"
    BY <1>0, <1>8 DEF Rescan, Iterating, Casting
  <2> QED BY <1>0, <1>8, <2>1, RescanFacts, MembersKept DEF Casting, Cast
<1>9. CASE Drained(c)
  <2>1. handler[c] = "broadcasting" /\ cast[c].at \in Clients
    BY <1>0, <1>9 DEF Drained, Casting, Cast
  <2>2. UNCHANGED <<handler, clients, net>> /\ running' = c
    BY <1>9 DEF Drained
  <2>3. \A x \in Clients : cast'[x].stale \subseteq Clients
    BY <1>0, <1>9, <2>1, DrainedFacts DEF Cast
  <2> QED BY <1>0, <1>9, <2>1, <2>2, <2>3, DrainedFacts, MembersKept
<1>10. CASE Finish(c)
  <2>1. /\ running' = Nobody /\ net' = net /\ handler'[c] = "reading"
        /\ \A x \in Clients \ {c} : handler'[x] = handler[x]
        /\ clients' = clients \ cast[c].stale
    BY <1>0, <1>10 DEF Finish
  <2>2. Casting'
    BY <1>0, <1>10, <2>1, FinishFacts DEF Casting
  <2>3. StaleLost'
    BY <1>0, <1>10, <2>1, FinishFacts DEF StaleLost
  <2>4. handler[c] = "broadcasting"
    BY <1>0, <1>10 DEF Finish, Iterating, Casting
  <2>5. MembersAlive'
    BY <1>0, <2>1 DEF MembersAlive
  <2>6. LiveClientsRegistered'
    BY <1>0, <2>1, <2>4 DEF LiveClientsRegistered, StaleLost
  <2> QED BY <2>2, <2>3, <2>5, <2>6
<1>11. ASSUME NEW d \in Clients, Write(c, d)
       PROVE  Casting' /\ StaleLost' /\ MembersAlive' /\ LiveClientsRegistered'
  <2>1. /\ UNCHANGED <<handler, clients, net>> /\ handler[c] = "broadcasting"
        /\ running' \in {running, Nobody}
    BY <1>0, <1>11 DEF Write, Iterating, Casting
  <2>2. \A x \in Clients : cast'[x].stale \subseteq Clients
    BY <1>0, <1>11, WriteFacts DEF Cast
  <2>3. running' # Nobody => handler[running'] = "broadcasting"
    BY <1>0, <2>1 DEF Casting
  <2> QED BY <1>0, <1>11, <2>1, <2>2, <2>3, WriteFacts, MembersKept
<1> QED BY <1>1, <1>2, <1>3, <1>4, <1>6, <1>7, <1>8, <1>9, <1>10, <1>11 DEF HandlerStep

-----------------------------------------------------------------------------
(* Order                                                                   *)

\* A step that sends, reads and writes no frame but may drop some.
LEMMA OrderedKept ==
    ASSUME Ordered, received' = received,
           \A x \in Clients : \A i \in Nat :
             Frame(x, i)' => Frame(x, i) /\ inbox'[x][i] = inbox[x][i],
           \A x \in Clients : handler'[x] = "broadcasting" =>
             handler[x] = "broadcasting" /\ cast'[x].msg = cast[x].msg
    PROVE  Ordered'
BY DEF Ordered, Number

\* Frames are numbered as they are sent; reading takes the oldest.
LEMMA OrderedStep == ASSUME IInv, Next PROVE Ordered'
<1>0. /\ TypeOK /\ Casting /\ Ordered
      /\ handler \in [Clients -> HandlerState]
      /\ \A c \in Clients : /\ inbox[c] \in Seq(Message \cup {End})
                            /\ Len(inbox[c]) \in Nat
      /\ inbox \in [Clients -> Seq(Message \cup {End})]
      /\ received \in [Clients -> [Senders -> Nat]]
      /\ \A c \in Clients : c # Nobody
      /\ Senders \subseteq Clients
  BY NobodyAssumption, ClientsAssumption, LenProperties DEF IInv, TypeOK
<1>1. PICK c \in Clients :
        \/ Leave(c) \/ Pause(c) \/ Unpause(c) \/ Break(c) \/ Flush(c)
        \/ Open(c) \/ HandlerStep(c)
  BY DEF Next
<1>2. CASE Leave(c)
  <2>1. /\ inbox'[c] = Append(inbox[c], End)
        /\ \A x \in Clients : x # c => inbox'[x] = inbox[x]
        /\ UNCHANGED <<handler, cast, received>>
    BY <1>0, <1>2 DEF Leave
  <2>2. /\ Len(inbox'[c]) = Len(inbox[c]) + 1
        /\ \A i \in 1..Len(inbox[c]) : inbox'[c][i] = inbox[c][i]
        /\ inbox'[c][Len(inbox[c]) + 1] = End
    BY <1>0, <2>1, AppendProperties
  <2>3. \A i \in 1..(Len(inbox[c]) + 1) : i \in 1..Len(inbox[c]) \/ i = Len(inbox[c]) + 1
    BY <1>0
  <2>4. \A i \in Nat : Frame(c, i)' => Frame(c, i) /\ inbox'[c][i] = inbox[c][i]
    BY <2>2, <2>3 DEF Frame
  <2>5. \A x \in Clients : \A i \in Nat :
          Frame(x, i)' => Frame(x, i) /\ inbox'[x][i] = inbox[x][i]
    BY <2>1, <2>4 DEF Frame
  <2> QED BY <1>0, <2>1, <2>5, OrderedKept
<1>3. CASE Pause(c) \/ Unpause(c) \/ Break(c) \/ Flush(c)
  <2>1. UNCHANGED <<handler, inbox, cast, received>>
    BY <1>3 DEF Pause, Unpause, Break, Flush, NetChange
  <2> QED BY <1>0, <2>1, OrderedKept DEF Frame
<1>4. CASE Open(c)
  <2>1. /\ UNCHANGED <<inbox, received>>
        /\ \A x \in Clients : cast'[x].msg = cast[x].msg
        /\ \A x \in Clients : handler'[x] = "broadcasting" => handler[x] = "broadcasting"
    BY <1>0, <1>4, ModifiedFacts DEF Open
  <2> QED BY <1>0, <2>1, OrderedKept DEF Frame
<1>5. ASSUME Cleanup(c), running' = Nobody PROVE Ordered'
  <2>1. \A i \in Nat : ~Frame(c, i)'
    BY <1>0, <1>5 DEF Cleanup, Frame
  <2>2. /\ \A x \in Clients \ {c} : inbox'[x] = inbox[x] /\ handler'[x] = handler[x]
        /\ handler'[c] = "closed" /\ received' = received
    BY <1>0, <1>5 DEF Cleanup
  <2>3. \A x \in Clients \ {c} : cast'[x].msg = cast[x].msg
    BY <1>0, <1>5, CleanupFacts
  <2>4. \A x \in Clients : \A i \in Nat :
          Frame(x, i)' => Frame(x, i) /\ inbox'[x][i] = inbox[x][i]
    BY <2>1, <2>2 DEF Frame
  <2> QED BY <1>0, <2>2, <2>3, <2>4, OrderedKept
<1>6. CASE Close(c) \/ Abort(c)
  BY <1>5, <1>6 DEF Close, Abort
<1>7. CASE ReadText(c)
  <2>1. /\ cast'[c].msg = inbox[c][1] /\ Frame(c, 1) /\ inbox[c][1] \in Message
        /\ inbox[c][1][1] = c
        /\ \A x \in Clients : x # c => cast'[x] = cast[x]
    BY <1>0, <1>7, ReadFacts
  <2>2. /\ \A x \in Clients : x # c => inbox'[x] = inbox[x] /\ handler'[x] = handler[x]
        /\ handler'[c] = "broadcasting" /\ received' = received
        /\ inbox'[c] = Tail(inbox[c]) /\ inbox[c] # <<>>
    BY <1>0, <1>7 DEF ReadText
  <2>3. /\ Len(inbox'[c]) = Len(inbox[c]) - 1
        /\ \A i \in 1..Len(inbox'[c]) : inbox'[c][i] = inbox[c][i + 1]
    BY <1>0, <2>2, HeadTailProperties
  <2>4. \A i \in Nat : Frame(c, i)' =>
          /\ i + 1 \in Nat /\ 1 < i + 1
          /\ Frame(c, i + 1) /\ inbox'[c][i] = inbox[c][i + 1]
    BY <1>0, <2>3 DEF Frame
  <2>5. \A x \in Clients : x # c => \A i \in Nat :
          (Frame(x, i)' <=> Frame(x, i)) /\ inbox'[x][i] = inbox[x][i]
    BY <2>2 DEF Frame
  <2>6. /\ \A x \in Clients : \A i \in Nat : Frame(x, i) => inbox[x][i][1] = x
        /\ \A x \in Clients : \A i, j \in Nat :
             Frame(x, i) /\ Frame(x, j) /\ i < j => inbox[x][i][2] < inbox[x][j][2]
        /\ \A x, d \in Clients : \A i \in Nat : Frame(x, i) => received[d][x] < inbox[x][i][2]
    BY <1>0 DEF Ordered, Number
  <2>7. \A x \in Clients : \A i \in Nat : Frame(x, i)' => inbox'[x][i][1] = x
    BY <2>4, <2>5, <2>6
  <2>8. \A x \in Clients : \A i, j \in Nat :
          Frame(x, i)' /\ Frame(x, j)' /\ i < j => inbox'[x][i][2] < inbox'[x][j][2]
    <3>1. \A i, j \in Nat : Frame(c, i)' /\ Frame(c, j)' /\ i < j =>
            inbox'[c][i][2] < inbox'[c][j][2]
      <4>1. SUFFICES ASSUME NEW i \in Nat, NEW j \in Nat, Frame(c, i)', Frame(c, j)', i < j
                     PROVE  inbox'[c][i][2] < inbox'[c][j][2]
        OBVIOUS
      <4>2. i + 1 \in Nat /\ j + 1 \in Nat /\ i + 1 < j + 1
        BY <4>1
      <4> QED BY <2>4, <2>6, <4>1, <4>2
    <3>2. \A x \in Clients \ {c} : \A i, j \in Nat :
            Frame(x, i)' /\ Frame(x, j)' /\ i < j => inbox'[x][i][2] < inbox'[x][j][2]
      BY <2>5, <2>6
    <3> QED BY <3>1, <3>2
  <2>9. \A x, d \in Clients : \A i \in Nat : Frame(x, i)' => received'[d][x] < inbox'[x][i][2]
    <3>1. \A d \in Clients : \A i \in Nat : Frame(c, i)' => received'[d][c] < inbox'[c][i][2]
      BY <2>2, <2>4, <2>6
    <3>2. \A x \in Clients \ {c} : \A d \in Clients : \A i \in Nat :
            Frame(x, i)' => received'[d][x] < inbox'[x][i][2]
      BY <2>2, <2>5, <2>6
    <3> QED BY <3>1, <3>2
  <2>10. \A x \in Clients : \A i \in Nat :
           Frame(x, i)' /\ handler'[x] = "broadcasting" => cast'[x].msg[2] < inbox'[x][i][2]
    <3>1. \A i \in Nat : Frame(c, i)' => cast'[c].msg[2] < inbox'[c][i][2]
      BY <2>1, <2>4, <2>6
    <3>2. \A x \in Clients \ {c} : \A i \in Nat :
            Frame(x, i)' /\ handler'[x] = "broadcasting" => cast'[x].msg[2] < inbox'[x][i][2]
      <4>1. \A x \in Clients : \A i \in Nat :
              Frame(x, i) /\ handler[x] = "broadcasting" => cast[x].msg[2] < inbox[x][i][2]
        BY <1>0 DEF Ordered, Number
      <4> QED BY <2>1, <2>2, <2>5, <4>1
    <3> QED BY <3>1, <3>2
  <2>11. \A x, d \in Clients :
           handler'[x] = "broadcasting" => received'[d][x] <= cast'[x].msg[2]
    <3>1. c \in Senders /\ inbox[c][1][2] \in Nat
      BY <2>1 DEF Message
    <3>2. \A d \in Clients : received'[d][c] <= cast'[c].msg[2]
      <4>1. \A d \in Clients : received[d][c] < inbox[c][1][2]
        BY <2>1, <2>6
      <4>2. \A d \in Clients : received[d][c] \in Nat
        BY <1>0, <3>1 DEF TypeOK
      <4> QED BY <2>1, <2>2, <3>1, <4>1, <4>2
    <3>3. \A x \in Clients \ {c} : \A d \in Clients :
            handler'[x] = "broadcasting" => received'[d][x] <= cast'[x].msg[2]
      BY <1>0, <2>1, <2>2 DEF Ordered
    <3> QED BY <3>2, <3>3
  <2> QED BY <2>7, <2>8, <2>9, <2>10, <2>11 DEF Ordered, Number
<1>8. CASE Rescan(c)
  <2>1. UNCHANGED <<handler, inbox, received>>
    BY <1>8 DEF Rescan
  <2> QED BY <1>0, <1>8, <2>1, RescanFacts, OrderedKept DEF Frame
<1>9. CASE Drained(c)
  <2>1. UNCHANGED <<handler, inbox, received>>
    BY <1>9 DEF Drained
  <2> QED BY <1>0, <1>9, <2>1, DrainedFacts, OrderedKept DEF Frame
<1>10. CASE Finish(c)
  <2>1. \A x \in Clients : x # c => cast'[x].msg = cast[x].msg /\ handler'[x] = handler[x]
    BY <1>0, <1>10, FinishFacts DEF Finish
  <2>2. handler'[c] = "reading" /\ inbox' = inbox /\ received' = received
    BY <1>0, <1>10 DEF Finish
  <2> QED BY <1>0, <2>1, <2>2, OrderedKept DEF Frame
<1>11. ASSUME NEW d \in Clients, Write(c, d) PROVE Ordered'
  <2>1. /\ \A x \in Clients : cast'[x].msg = cast[x].msg
        /\ inbox' = inbox /\ handler' = handler
        /\ handler[c] = "broadcasting"
    BY <1>0, <1>11, WriteFacts DEF Write, Iterating, Casting
  <2>2. cast[c].msg[1] = c /\ c \in Senders /\ cast[c].msg[2] \in Nat
    BY <1>0, <2>1 DEF Casting, Message
  <2>3. \A x, e \in Clients : \/ received'[e][x] = received[e][x]
                              \/ x = c /\ received'[e][x] = cast[c].msg[2]
    BY <1>0, <1>11, <2>2 DEF Write
  <2>4. \A x \in Clients : \A i \in Nat : Frame(x, i)' <=> Frame(x, i)
    BY <2>1 DEF Frame
  <2>5. \A x, e \in Clients : \A i \in Nat : Frame(x, i)' => received'[e][x] < inbox'[x][i][2]
    <3>1. \A x, e \in Clients : \A i \in Nat : Frame(x, i) => received[e][x] < inbox[x][i][2]
      BY <1>0 DEF Ordered, Number
    <3>2. \A i \in Nat : Frame(c, i) => cast[c].msg[2] < inbox[c][i][2]
      BY <1>0, <2>1 DEF Ordered, Number
    <3> QED BY <2>1, <2>3, <2>4, <3>1, <3>2
  <2>6. \A x, e \in Clients :
          handler'[x] = "broadcasting" => received'[e][x] <= cast'[x].msg[2]
    <3>1. \A x, e \in Clients :
            handler[x] = "broadcasting" => received[e][x] <= cast[x].msg[2]
      BY <1>0 DEF Ordered
    <3>2. cast[c].msg[2] <= cast[c].msg[2]
      BY <2>2
    <3> QED BY <2>1, <2>3, <3>1, <3>2
  <2> QED BY <1>0, <2>1, <2>4, <2>5, <2>6 DEF Ordered, Number
<1> QED BY <1>1, <1>2, <1>3, <1>4, <1>6, <1>7, <1>8, <1>9, <1>10, <1>11 DEF HandlerStep

-----------------------------------------------------------------------------
(* The audience                                                            *)

\* What is steady stays served when its set and its own locals are the same, nobody
\* is cured and nothing of its own message is overwritten.
LEMMA ServedKept ==
    ASSUME Served,
           \A x, d \in Clients : handler[x] = "broadcasting" =>
             received'[d][x] = received[d][x] \/ received'[d][x] = cast[x].msg[2],
           \A d \in Clients : net[d] = "lost" => net'[d] = "lost",
           clients \subseteq Clients, clients' \subseteq Clients,
           \A x \in Clients : handler'[x] = "broadcasting" /\ cast'[x].audience = "steady" =>
             /\ handler[x] = "broadcasting" /\ clients' = clients
             /\ cast[x].audience = "steady"
             /\ cast'[x].size = cast[x].size /\ cast'[x].msg = cast[x].msg
             /\ \A d \in cast[x].todo :
                  d \in cast'[x].todo \/ received'[d][x] = cast[x].msg[2] \/ net[d] = "lost"
    PROVE  Served'
<1> SUFFICES ASSUME NEW x \in Clients, handler'[x] = "broadcasting", cast'[x].audience = "steady"
             PROVE  /\ cast'[x].size = Cardinality(clients')
                    /\ \A d \in clients' \ {x} :
                         \/ d \in cast'[x].todo
                         \/ received'[d][x] = cast'[x].msg[2]
                         \/ net'[d] = "lost"
  BY DEF Served
<1>1. /\ handler[x] = "broadcasting" /\ clients' = clients
      /\ cast[x].audience = "steady"
      /\ cast'[x].size = cast[x].size /\ cast'[x].msg = cast[x].msg
      /\ \A d \in cast[x].todo :
           d \in cast'[x].todo \/ received'[d][x] = cast[x].msg[2] \/ net[d] = "lost"
  OBVIOUS
<1>2. /\ cast[x].size = Cardinality(clients)
      /\ \A d \in clients \ {x} :
           d \in cast[x].todo \/ received[d][x] = cast[x].msg[2] \/ net[d] = "lost"
  BY <1>1 DEF Served
<1> QED BY <1>1, <1>2

\* Every step keeps what a steady broadcast has served.
LEMMA ServedStep == ASSUME IInv, Next PROVE Served'
<1>0. /\ TypeOK /\ Casting /\ Ordered /\ Served /\ TypeOK'
      /\ handler \in [Clients -> HandlerState] /\ net \in [Clients -> NetState]
      /\ cast \in [Clients -> Cast]
      /\ received \in [Clients -> [Senders -> Nat]]
      /\ \A c \in Clients : c # Nobody
      /\ clients \subseteq Clients /\ clients' \subseteq Clients
  BY NobodyAssumption, TypeStep DEF IInv, TypeOK
<1>1. PICK c \in Clients :
        \/ Leave(c) \/ Pause(c) \/ Unpause(c) \/ Break(c) \/ Flush(c)
        \/ Open(c) \/ HandlerStep(c)
  BY DEF Next
<1>2. CASE Leave(c)
  BY <1>0, <1>2, ServedKept DEF Leave
<1>3. CASE Pause(c) \/ Unpause(c) \/ Break(c) \/ Flush(c)
  <2>1. \A x \in Clients : net[x] = "lost" => net'[x] = "lost"
    BY <1>0, <1>3 DEF Pause, Unpause, Break, Flush, NetChange
  <2>2. UNCHANGED <<handler, clients, cast, received>>
    BY <1>3 DEF Pause, Unpause, Break, Flush, NetChange
  <2> QED BY <1>0, <2>1, <2>2, ServedKept
<1>4. CASE Open(c)
  <2>1. \A x \in Clients :
          /\ handler'[x] = "broadcasting" => handler[x] = "broadcasting"
          /\ clients' = clients => cast'[x] = cast[x]
          /\ clients' # clients /\ handler[x] = "broadcasting" /\ x # c =>
               cast'[x].audience = "touched"
          /\ handler'[c] # "broadcasting"
    BY <1>0, <1>4, ModifiedFacts DEF Open
  <2>2. UNCHANGED <<net, received>>
    BY <1>4 DEF Open
  <2> QED BY <1>0, <2>1, <2>2, ServedKept
<1>5. ASSUME Cleanup(c) PROVE Served'
  <2>1. /\ running' \in Clients \cup {Nobody}
        /\ handler'[c] = "closed"
        /\ \A x \in Clients \ {c} : handler'[x] = handler[x]
        /\ \A x \in Clients : net[x] = "lost" => net'[x] = "lost"
        /\ received' = received
    BY <1>0, <1>5 DEF Cleanup, TypeOK
  <2>2. \A x \in Clients \ {c} :
          /\ clients' = clients => cast'[x] = cast[x]
          /\ clients' # clients /\ handler[x] = "broadcasting" => cast'[x].audience = "touched"
    BY <1>0, <1>5, <2>1, CleanupFacts
  <2> QED BY <1>0, <2>1, <2>2, ServedKept
<1>6. CASE Close(c) \/ Abort(c)
  BY <1>5, <1>6 DEF Close, Abort
<1>7. CASE ReadText(c)
  <2>1. /\ cast'[c] = [NoCast EXCEPT !.msg = Head(inbox[c]), !.size = Cardinality(clients),
                                     !.todo = clients \ {c}]
        /\ \A x \in Clients : x # c => cast'[x] = cast[x] /\ handler'[x] = handler[x]
        /\ UNCHANGED <<clients, net, received>>
    BY <1>0, <1>7 DEF ReadText
  <2>2. cast'[c].size = Cardinality(clients) /\ cast'[c].todo = clients \ {c}
    BY <2>1 DEF NoCast
  <2>3. SUFFICES ASSUME NEW x \in Clients, handler'[x] = "broadcasting",
                        cast'[x].audience = "steady"
                 PROVE  /\ cast'[x].size = Cardinality(clients)
                        /\ \A d \in clients \ {x} :
                             \/ d \in cast'[x].todo
                             \/ received[d][x] = cast'[x].msg[2]
                             \/ net[d] = "lost"
    BY <2>1 DEF Served
  <2>4. CASE x = c
    BY <2>2, <2>4
  <2>5. CASE x # c
    <3>1. cast'[x] = cast[x] /\ handler[x] = "broadcasting" /\ cast[x].audience = "steady"
      BY <2>1, <2>3, <2>5
    <3> QED BY <1>0, <3>1 DEF Served
  <2> QED BY <2>4, <2>5
<1>8. CASE Rescan(c)
  <2>1. UNCHANGED <<handler, clients, net, received>>
    BY <1>8 DEF Rescan
  <2>2. cast'[c].audience = "rescanned" /\ \A x \in Clients : x # c => cast'[x] = cast[x]
    BY <1>0, <1>8 DEF Rescan, Cast
  <2> QED BY <1>0, <2>1, <2>2, ServedKept
<1>9. CASE Drained(c)
  <2>1. UNCHANGED <<handler, clients, net, received>>
    BY <1>9 DEF Drained
  <2>2. \A x \in Clients : /\ cast'[x].size = cast[x].size /\ cast'[x].msg = cast[x].msg
                           /\ cast'[x].todo = cast[x].todo
                           /\ cast'[x].audience = cast[x].audience
    BY <1>0, <1>9 DEF Drained, Cast
  <2> QED BY <1>0, <2>1, <2>2, ServedKept
<1>10. CASE Finish(c)
  <2>1. /\ handler'[c] = "reading" /\ \A x \in Clients : x # c => handler'[x] = handler[x]
        /\ UNCHANGED <<net, received>>
    BY <1>0, <1>10 DEF Finish
  <2>2. \A x \in Clients \ {c} :
          /\ clients' = clients => cast'[x] = cast[x]
          /\ clients' # clients /\ handler[x] = "broadcasting" => cast'[x].audience = "touched"
    BY <1>0, <1>10, FinishFacts
  <2> QED BY <1>0, <2>1, <2>2, ServedKept
<1>11. ASSUME NEW d \in Clients, Write(c, d) PROVE Served'
  <2>1. /\ UNCHANGED <<handler, clients, net>> /\ handler[c] = "broadcasting"
        /\ cast[c].msg[1] = c /\ c \in Senders /\ cast[c].msg[2] \in Nat
    BY <1>0, <1>11 DEF Write, Iterating, Casting, Message
  <2>2. \A x, e \in Clients : \/ received'[e][x] = received[e][x]
                              \/ x = c /\ received'[e][x] = cast[c].msg[2]
    BY <1>0, <1>11, <2>1 DEF Write
  <2>3. received'[d][c] = cast[c].msg[2] \/ net[d] = "lost"
    BY <1>0, <1>11, <2>1 DEF Write
  <2>4. \A x \in Clients : /\ cast'[x].size = cast[x].size /\ cast'[x].msg = cast[x].msg
                           /\ cast'[x].audience = cast[x].audience
                           /\ x # c => cast'[x].todo = cast[x].todo
                           /\ \A e \in cast[c].todo : e = d \/ e \in cast'[c].todo
    BY <1>0, <1>11 DEF Write, Cast
  <2> QED BY <1>0, <2>1, <2>2, <2>3, <2>4, ServedKept
<1> QED BY <1>1, <1>2, <1>3, <1>4, <1>6, <1>7, <1>8, <1>9, <1>10, <1>11 DEF HandlerStep

-----------------------------------------------------------------------------
(* The invariant                                                           *)

\* No connection, no broadcast, and the frames of each sender numbered.
LEMMA InitIInv == Init => IInv
<1>1. SUFFICES ASSUME Init PROVE IInv
  OBVIOUS
<1>2. \A c \in Senders : /\ Sending(c) \in Seq(Message \cup {End})
                         /\ Len(Sending(c)) = MaxSends[c]
                         /\ \A i \in 1..MaxSends[c] : Sending(c)[i] = <<c, i>>
  <2>1. SUFFICES ASSUME NEW c \in Senders
                 PROVE  /\ Sending(c) \in Seq(Message \cup {End})
                        /\ Len(Sending(c)) = MaxSends[c]
                        /\ \A i \in 1..MaxSends[c] : Sending(c)[i] = <<c, i>>
    OBVIOUS
  <2>2. MaxSends[c] \in Nat
    BY MaxSendsAssumption
  <2>3. \A i \in 1..MaxSends[c] : <<c, i>> \in Message \cup {End}
    BY <2>2 DEF Message
  <2>4. Sending(c) \in [1..MaxSends[c] -> Message \cup {End}]
    BY <2>3 DEF Sending
  <2> QED BY <2>2, <2>4, IsASeq, LenProperties DEF Sending
<1>3. \A c \in Clients : \/ c \in Senders /\ inbox[c] = Sending(c)
                         \/ c \notin Senders /\ inbox[c] = <<>>
  BY <1>1 DEF Init
<1>4. inbox \in [Clients -> Seq(Message \cup {End})]
  <2>1. \A c \in Clients : inbox[c] \in Seq(Message \cup {End})
    <3>1. <<>> \in Seq(Message \cup {End})
      OBVIOUS
    <3> QED BY <1>2, <1>3, <3>1
  <2>2. inbox = [c \in Clients |-> inbox[c]]
    BY <1>1 DEF Init
  <2> QED BY <2>1, <2>2
<1>5. TypeOK
  <2>1. cast \in [Clients -> Cast]
    BY <1>1, NoCastType DEF Init
  <2>2. received \in [Clients -> [Senders -> Nat]]
    BY <1>1 DEF Init
  <2> QED BY <1>1, <1>4, <2>1, <2>2 DEF Init, TypeOK, HandlerState, NetState
<1>6. \A c \in Clients : \A i \in Nat : Frame(c, i) =>
        c \in Senders /\ i \in 1..MaxSends[c] /\ inbox[c][i] = <<c, i>>
  BY <1>2, <1>3 DEF Frame
<1>7. Ordered
  <2>1. \A c \in Clients : \A i \in Nat : Frame(c, i) =>
          inbox[c][i][1] = c /\ inbox[c][i][2] = i /\ 0 < i /\ c \in Senders
    BY <1>6, MaxSendsAssumption
  <2>2. \A c, d \in Clients : c \in Senders => received[d][c] = 0
    BY <1>1 DEF Init
  <2>3. \A c \in Clients : handler[c] # "broadcasting"
    BY <1>1 DEF Init
  <2> QED BY <2>1, <2>2, <2>3 DEF Ordered, Number
<1>8. Casting /\ StaleLost /\ MembersAlive /\ LiveClientsRegistered /\ Served
  BY <1>1 DEF Init, Served, Casting, StaleLost, NoCast, MembersAlive, LiveClientsRegistered
<1> QED BY <1>5, <1>7, <1>8 DEF IInv

\* Nothing in IInv depends on anything but the variables.
LEMMA StutterIInv == IInv /\ UNCHANGED vars => IInv'
BY DEF vars, IInv, TypeOK, Casting, StaleLost, MembersAlive, LiveClientsRegistered, Ordered,
       Served, Frame, Number

\* The strengthened invariant holds in every reachable state, for any finite set
\* of clients: handlers, membership, stale lists and the numbering of frames.
THEOREM InvariantHolds == Spec => []IInv
<1>1. IInv /\ [Next]_vars => IInv'
  <2>1. IInv /\ Next => IInv'
    BY TypeStep, MembersStep, OrderedStep, ServedStep DEF IInv
  <2> QED BY <2>1, StutterIInv
<1> QED BY InitIInv, <1>1, PTL DEF Spec

\* Every variable keeps its type, among them the sequences of frames and the
\* locals of suspended broadcasts.
THEOREM TypeCorrect == Spec => []TypeOK
<1>1. IInv => TypeOK
  BY DEF IInv
<1> QED BY <1>1, InvariantHolds, PTL

\* However a handler of handle_client ends, its writer has left the set.
THEOREM MembersAliveHolds == Spec => []MembersAlive
<1>1. IInv => MembersAlive
  BY DEF IInv
<1> QED BY <1>1, InvariantHolds, PTL

\* No broadcast, however long it waits in drain, unsubscribes a client that is
\* still connected.
THEOREM LiveClientsStay == Spec => []LiveClientsRegistered
<1>1. IInv => LiveClientsRegistered
  BY DEF IInv
<1> QED BY <1>1, InvariantHolds, PTL

\* No client is written an older message of a sender after a newer one.
THEOREM OrderKept == Spec => SenderOrderKept
<1>1. IInv /\ [Next]_vars =>
        [\A d \in Clients : \A s \in Senders : received'[d][s] >= received[d][s]]_vars
  <2>1. SUFFICES ASSUME IInv, Next, NEW d \in Clients, NEW s \in Senders
                 PROVE  received'[d][s] >= received[d][s]
    OBVIOUS
  <2>2. /\ s \in Clients /\ received[d][s] \in Nat
        /\ \A c \in Clients : c # Nobody
    BY <2>1, ClientsAssumption, NobodyAssumption DEF IInv, TypeOK
  <2>3. CASE received' = received
    BY <2>2, <2>3
  <2>4. ASSUME NEW c \in Clients, NEW e \in Clients, Write(c, e)
        PROVE  received'[d][s] >= received[d][s]
    <3>1. handler[c] = "broadcasting" /\ cast[c].msg[1] = c
      BY <2>1, <2>2, <2>4 DEF Write, Iterating, IInv, Casting
    <3>2. cast[c].msg \in Message /\ received[d][c] <= cast[c].msg[2]
      BY <2>1, <3>1 DEF IInv, Casting, Ordered
    <3>3. \/ received'[d][s] = received[d][s]
          \/ s = c /\ received'[d][s] = cast[c].msg[2]
      BY <2>1, <2>4, <3>1 DEF Write, IInv, TypeOK
    <3>4. cast[c].msg[2] \in Nat
      BY <3>2 DEF Message
    <3> QED BY <2>2, <3>2, <3>3, <3>4
  <2> QED BY <2>1, <2>3, <2>4 DEF Next, HandlerStep, Leave, Pause, Unpause, Break, Flush, NetChange,
          Open, Close, Cleanup, ReadText, Abort, Rescan, Drained, Finish
<1> QED BY <1>1, InvariantHolds, PTL DEF Spec, SenderOrderKept

\* A broadcast whose audience is steady is not ended, whatever it meets, before every
\* member that is still connected has its message.
THEOREM AudienceServed == Spec => SteadyAudienceServed
<1>1. IInv /\ [Next]_vars =>
        [\A c \in Clients :
           /\ handler[c] = "broadcasting" /\ handler'[c] # "broadcasting"
           /\ cast[c].audience = "steady"
           => \A d \in clients \ {c} :
                received[d][c] = cast[c].msg[2] \/ net[d] = "lost"]_vars
  <2>1. SUFFICES ASSUME IInv, Next, NEW c \in Clients, handler[c] = "broadcasting",
                        handler'[c] # "broadcasting", cast[c].audience = "steady"
                 PROVE  \A d \in clients \ {c} :
                          received[d][c] = cast[c].msg[2] \/ net[d] = "lost"
    OBVIOUS
  <2>2. /\ SizeKept(c)
        /\ \A d \in clients \ {c} :
             d \in cast[c].todo \/ received[d][c] = cast[c].msg[2] \/ net[d] = "lost"
    BY <2>1 DEF IInv, Served, SizeKept
  <2>3. cast[c].todo = {}
    <3>1. PICK x \in Clients :
            \/ Leave(x) \/ Pause(x) \/ Unpause(x) \/ Break(x) \/ Flush(x)
            \/ Open(x) \/ HandlerStep(x)
      BY <2>1 DEF Next
    <3>2. /\ handler \in [Clients -> HandlerState]
      BY <2>1 DEF IInv, TypeOK
    <3>3. ~(Leave(x) \/ Pause(x) \/ Unpause(x) \/ Break(x) \/ Flush(x))
      BY <2>1 DEF Leave, Pause, Unpause, Break, Flush, NetChange
    <3>4. ~Open(x) /\ ~Close(x) /\ ~ReadText(x)
      BY <2>1, <3>2 DEF Open, Close, Cleanup, ReadText
    <3>5. ~Rescan(x) /\ ~Drained(x) /\ \A d \in Clients : ~Write(x, d)
      BY <2>1 DEF Rescan, Drained, Write
    <3>6. Abort(x) \/ Finish(x)
      BY <3>1, <3>3, <3>4, <3>5 DEF HandlerStep
    <3>7. x = c
      BY <2>1, <3>2, <3>6 DEF Abort, Cleanup, Finish
    <3> QED BY <2>2, <3>6, <3>7 DEF Abort, Finish
  <2> QED BY <2>2, <2>3
<1> QED BY <1>1, InvariantHolds, PTL DEF Spec, SteadyAudienceServed
=============================================================================
