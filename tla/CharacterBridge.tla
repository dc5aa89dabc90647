--------------------------- MODULE CharacterBridge ---------------------------
(***************************************************************************)
(* ha-character-bridge/bridge_server.py: the WebSocket hub that passes     *)
(* every JSON message of one client (a /speak call, a test script) to all  *)
(* the others (the character display).                                     *)
(*                                                                         *)
(* Handlers are coroutines of one event loop.  `running` names the handler *)
(* that has the loop inside broadcast: drain() gives it up only for a      *)
(* transport that is closing or whose buffer is above the high-water mark, *)
(* so writes to healthy clients follow one another without interleaving.   *)
(* The for loop walks the live set `clients`: CPython's set iterator       *)
(* raises RuntimeError when the size has changed since it was made, and    *)
(* when members came and went at equal size it visits whatever the table   *)
(* now holds ahead of it, which is a free choice here.                     *)
(***************************************************************************)
EXTENDS Naturals, Sequences, FiniteSets

CONSTANTS
    Clients,    \* connections to the hub
    Senders,    \* those that send messages
    Slow,       \* those that may stop reading for a while
    Nobody,
    MaxSends    \* [Senders -> Nat]: the messages each will send

ASSUME ClientsAssumption ==
    Senders \subseteq Clients /\ Slow \subseteq Clients /\ IsFiniteSet(Clients)
ASSUME NobodyAssumption == Nobody \notin Clients
ASSUME MaxSendsAssumption == MaxSends \in [Senders -> Nat]

VARIABLES
    clients,   \* the module's global set
    handler,   \* [Clients -> HandlerState]: the coroutine of a connection
    net,       \* [Clients -> NetState]: its transport as drain() sees it
    inbox,     \* [Clients -> Seq]: frames on their way to the handler
    cast,      \* [Clients -> Cast]: locals of the broadcast of a handler
    running,   \* the handler that holds the event loop, or Nobody
    received   \* [Clients -> [Senders -> Nat]]: the last message written to each

vars == <<clients, handler, net, inbox, cast, running, received>>

HandlerState == {"none", "reading", "broadcasting", "closed"}
NetState     == {"up", "paused", "closing", "lost"}
Message      == Senders \X (Nat \ {0})
NoMessage    == <<>>
End          == <<0>>    \* a close frame, an EOF or a text that is not JSON
Cast         == [msg : Message \cup {NoMessage}, size : 0..Cardinality(Clients),
                 todo : SUBSET Clients, stale : SUBSET Clients,
                 at : Clients \cup {Nobody}, audience : {"steady", "touched", "rescanned"}]
NoCast       == [msg |-> NoMessage, size |-> 0, todo |-> {}, stale |-> {},
                 at |-> Nobody, audience |-> "steady"]

\* What a peer is going to send: the time a frame takes is the time to ReadText.
Sending(c) == [i \in 1..MaxSends[c] |-> <<c, i>>]

Init ==
    /\ clients = {}
    /\ handler = [c \in Clients |-> "none"]
    /\ net = [c \in Clients |-> "up"]
    /\ inbox = [c \in Clients |-> IF c \in Senders THEN Sending(c) ELSE <<>>]
    /\ cast = [c \in Clients |-> NoCast]
    /\ running = Nobody
    /\ received = [c \in Clients |-> [s \in Senders |-> 0]]

\* The set becomes `members`: when that changes it, suspended iterations of other
\* handlers will notice.
Modified(mine, members) ==
    [c \in Clients |-> IF handler[c] = "broadcasting" /\ c # mine /\ members # clients
                         THEN [cast[c] EXCEPT !.audience = "touched"]
                         ELSE cast[c]]

-----------------------------------------------------------------------------
(* The peers and the network (external)                                    *)

Leave(c) ==
    /\ running = Nobody
    /\ handler[c] \in {"reading", "broadcasting"}
    /\ net[c] # "lost"
    /\ End \notin {inbox[c][i] : i \in 1..Len(inbox[c])}
    /\ inbox' = [inbox EXCEPT ![c] = Append(@, End)]
    /\ UNCHANGED <<clients, handler, net, cast, running, received>>

\* The peer stops reading, reads again, or its connection breaks.
NetChange(c, from, to) ==
    /\ running = Nobody
    /\ handler[c] \in {"reading", "broadcasting"}
    /\ net[c] \in from
    /\ net' = [net EXCEPT ![c] = to]
    /\ UNCHANGED <<clients, handler, inbox, cast, running, received>>

Pause(c)   == c \in Slow /\ NetChange(c, {"up"}, "paused")
Unpause(c) == NetChange(c, {"paused"}, "up")
Break(c)   == NetChange(c, {"up", "paused"}, "lost")

\* A closed transport is done: the peer has read the rest, or is gone.
Flush(c) ==
    /\ running = Nobody
    /\ net[c] = "closing"
    /\ net' = [net EXCEPT ![c] = "lost"]
    /\ UNCHANGED <<clients, handler, inbox, cast, running, received>>

-----------------------------------------------------------------------------
(* handle_client                                                           *)

\* The opening handshake: a wrong path or a missing key ends the connection
\* before it is added to the set.
Open(c) ==
    /\ running = Nobody
    /\ handler[c] = "none"
    /\ \/ /\ clients' = clients \cup {c}
          /\ handler' = [handler EXCEPT ![c] = "reading"]
          /\ cast' = Modified(c, clients')
       \/ /\ handler' = [handler EXCEPT ![c] = "closed"]
          /\ UNCHANGED <<clients, cast>>
    /\ UNCHANGED <<net, inbox, running, received>>

\* The finally clause: leave the set and close the transport.  close() sends what
\* is buffered first: until then a drain() that waits for c goes on waiting (nobody
\* else can tell, since only members are written to).
Cleanup(c) ==
    /\ clients' = clients \ {c}
    /\ handler' = [handler EXCEPT ![c] = "closed"]
    /\ net' = [net EXCEPT ![c] = IF @ = "paused" /\ \E d \in Clients : cast[d].at = c
                                   THEN "closing" ELSE "lost"]
    /\ inbox' = [inbox EXCEPT ![c] = <<>>]
    /\ cast' = [Modified(c, clients') EXCEPT ![c] = NoCast]
    /\ UNCHANGED received

\* Slip: a lost connection is caught inside the read loop.
CloseOnEndOnly(c) ==
    /\ running = Nobody
    /\ handler[c] = "reading"
    /\ inbox[c] # <<>> /\ Head(inbox[c]) = End
    /\ Cleanup(c)
    /\ UNCHANGED running

\* read_frame returns None or raises, or json.loads raises.
Close(c) ==
    /\ running = Nobody
    /\ handler[c] = "reading"
    /\ net[c] = "lost" \/ (inbox[c] # <<>> /\ Head(inbox[c]) = End)
    /\ Cleanup(c)
    /\ UNCHANGED running

\* Slips: json.loads is not called before the broadcast; the last frame is taken.
ReadTextUnparsed(c) ==
    /\ running = Nobody
    /\ handler[c] = "reading"
    /\ inbox[c] # <<>>
    /\ inbox' = [inbox EXCEPT ![c] = Tail(@)]
    /\ cast' = [cast EXCEPT ![c] = [NoCast EXCEPT !.msg = Head(inbox[c]),
                                                  !.size = Cardinality(clients),
                                                  !.todo = clients \ {c}]]
    /\ handler' = [handler EXCEPT ![c] = "broadcasting"]
    /\ running' = c
    /\ UNCHANGED <<clients, net, received>>

ReadTextLast(c) ==
    LET n == Len(inbox[c])
    IN  /\ running = Nobody
        /\ handler[c] = "reading"
        /\ n > 0
        /\ inbox[c][n] # End
        /\ inbox' = [inbox EXCEPT ![c] = SubSeq(@, 1, n - 1)]
        /\ cast' = [cast EXCEPT ![c] = [NoCast EXCEPT !.msg = inbox[c][n],
                                                      !.size = Cardinality(clients),
                                                      !.todo = clients \ {c}]]
        /\ handler' = [handler EXCEPT ![c] = "broadcasting"]
        /\ running' = c
        /\ UNCHANGED <<clients, net, received>>

\* A text message: broadcast makes its iterator over clients.
ReadText(c) ==
    /\ running = Nobody
    /\ handler[c] = "reading"
    /\ inbox[c] # <<>>
    /\ Head(inbox[c]) # End
    /\ inbox' = [inbox EXCEPT ![c] = Tail(@)]
    /\ cast' = [cast EXCEPT ![c] = [NoCast EXCEPT !.msg = Head(inbox[c]),
                                                  !.size = Cardinality(clients),
                                                  !.todo = clients \ {c}]]
    /\ handler' = [handler EXCEPT ![c] = "broadcasting"]
    /\ running' = c
    /\ UNCHANGED <<clients, net, received>>

-----------------------------------------------------------------------------
(* broadcast                                                               *)

\* The iterator is asked for the next client.
Iterating(c) == running = c /\ cast[c].at = Nobody
SizeKept(c)  == Cardinality(clients) = cast[c].size

\* RuntimeError: Set changed size during iteration.  Nothing in handle_client
\* catches it, so the sender's connection ends and the rest get no message.
Abort(c) ==
    /\ Iterating(c)
    /\ ~SizeKept(c)
    /\ Cleanup(c)
    /\ running' = Nobody

\* Members came and went at equal size: any clients may lie ahead now.
Rescan(c) ==
    /\ Iterating(c)
    /\ SizeKept(c)
    /\ cast[c].audience = "touched"
    /\ \E t \in SUBSET (clients \ {c}) :
         cast' = [cast EXCEPT ![c].todo = t, ![c].audience = "rescanned"]
    /\ UNCHANGED <<clients, handler, net, inbox, running, received>>

\* send_text to the next client: write, then drain.
Write(c, d) ==
    /\ Iterating(c)
    /\ SizeKept(c)
    /\ cast[c].audience # "touched"
    /\ d \in cast[c].todo
    /\ received' = IF net[d] = "lost" THEN received
                   ELSE [received EXCEPT ![d][cast[c].msg[1]] = cast[c].msg[2]]
    /\ \/ /\ net[d] = "up"
          /\ cast' = [cast EXCEPT ![c].todo = @ \ {d}]
          /\ UNCHANGED running
       \/ /\ net[d] # "up"
          /\ cast' = [cast EXCEPT ![c].todo = @ \ {d}, ![c].at = d]
          /\ running' = Nobody
    /\ UNCHANGED <<clients, handler, net, inbox>>

\* Slip: every client that made drain wait counts as stale.
DrainedAllStale(c) ==
    /\ running = Nobody
    /\ cast[c].at # Nobody
    /\ net[cast[c].at] \notin {"paused", "closing"}
    /\ cast' = [cast EXCEPT ![c].at = Nobody, ![c].stale = @ \cup {cast[c].at}]
    /\ running' = c
    /\ UNCHANGED <<clients, handler, net, inbox, received>>

\* Slip: the try of broadcast stands around its for loop.
DrainedGivesUp(c) ==
    LET d == cast[c].at
    IN  /\ running = Nobody
        /\ d # Nobody
        /\ net[d] \notin {"paused", "closing"}
        /\ cast' = [cast EXCEPT
                      ![c].at = Nobody,
                      ![c].stale = IF net[d] = "lost" THEN @ \cup {d} ELSE @,
                      ![c].todo = IF net[d] = "lost" THEN {} ELSE @]
        /\ running' = c
        /\ UNCHANGED <<clients, handler, net, inbox, received>>

\* drain returns, or raises ConnectionResetError: an OSError, hence stale.
Drained(c) ==
    LET d == cast[c].at
    IN  /\ running = Nobody
        /\ d # Nobody
        /\ net[d] \notin {"paused", "closing"}
        /\ cast' = [cast EXCEPT
                      ![c].at = Nobody,
                      ![c].stale = IF net[d] = "lost" THEN @ \cup {d} ELSE @]
        /\ running' = c
        /\ UNCHANGED <<clients, handler, net, inbox, received>>

\* The loop ends: forget the stale clients and read the next frame.
Finish(c) ==
    /\ Iterating(c)
    /\ SizeKept(c)
    /\ cast[c].audience # "touched"
    /\ cast[c].todo = {}
    /\ clients' = clients \ cast[c].stale
    /\ cast' = [Modified(c, clients') EXCEPT ![c] = NoCast]
    /\ handler' = [handler EXCEPT ![c] = "reading"]
    /\ running' = Nobody
    /\ UNCHANGED <<net, inbox, received>>

HandlerStep(c) ==
    \/ Close(c) \/ ReadText(c) \/ Abort(c) \/ Rescan(c) \/ Drained(c) \/ Finish(c)
    \/ \E d \in Clients : Write(c, d)

Next ==
    \E c \in Clients :
        \/ Leave(c) \/ Pause(c) \/ Unpause(c) \/ Break(c) \/ Flush(c)
        \/ Open(c) \/ HandlerStep(c)

Spec == Init /\ [][Next]_vars

\* The loop runs every handler that is ready; a peer that stopped reading does
\* not stay so forever (it reads again, or TCP or its owner ends it).
FairSpec ==
    /\ Spec
    /\ \A c \in Clients : SF_vars(HandlerStep(c))
    /\ \A c \in Slow : SF_vars(Unpause(c) \/ Flush(c))

-----------------------------------------------------------------------------
(* Properties                                                              *)

TypeOK ==
    /\ clients \subseteq Clients
    /\ handler \in [Clients -> HandlerState]
    /\ net \in [Clients -> NetState]
    /\ inbox \in [Clients -> Seq(Message \cup {End})]
    /\ cast \in [Clients -> Cast]
    /\ running \in Clients \cup {Nobody}
    /\ received \in [Clients -> [Senders -> Nat]]

\* However a handler ends, by EOF, bad JSON or an uncaught RuntimeError in its
\* own broadcast, its writer is no longer a member of the set.
MembersAlive == \A c \in clients : handler[c] \in {"reading", "broadcasting"}

\* The stale list and the cleanup of other handlers never unsubscribe a client
\* that is still connected: a display that is up keeps getting messages.
LiveClientsRegistered ==
    \A c \in Clients :
        handler[c] \in {"reading", "broadcasting"} /\ net[c] # "lost" => c \in clients

\* What broadcast does promise, although it walks the live set: while nobody comes
\* or goes it is not ended before every member that is still connected has the
\* message, however many others fail or make drain wait.
SteadyAudienceServed ==
    [][\A c \in Clients :
         /\ handler[c] = "broadcasting" /\ handler'[c] # "broadcasting"
         /\ cast[c].audience = "steady"
         => \A d \in clients \ {c} : received[d][c] = cast[c].msg[2] \/ net[d] = "lost"]_vars

\* Messages of one sender reach each client in the order they were sent.
SenderOrderKept ==
    [][\A d \in Clients : \A s \in Senders : received'[d][s] >= received[d][s]]_vars

\* A connection that broke is forgotten, also when its own handler waits for a
\* slow client inside broadcast.
LostClientForgotten ==
    \A c \in Clients : (c \in clients /\ net[c] = "lost") ~> c \notin clients

\* README, ha-character-bridge: the bridge sends the interaction bridge's
\* messages to AITuber Kit; broadcast tolerates a client that fails.  So
\* whatever ends a broadcast, no registered live client was left out of it.
NobodyLeftOut ==
    [][\A c \in Clients :
         handler[c] = "broadcasting" /\ handler'[c] # "broadcasting" =>
             \A d \in cast[c].todo : d \notin clients \/ net[d] = "lost"]_vars
=============================================================================
