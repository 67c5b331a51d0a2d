------------------------------ MODULE Session ------------------------------
(***************************************************************************)
(* The life of connections between clients and one server: connect,        *)
(* disconnect, stop, keep-alives, timeouts, erasing and reconnecting, over *)
(* a network that loses, delays and repeats datagrams, with clients and    *)
(* servers that are stopped or killed and started again.  A datagram is    *)
(* its packetId and connectionId; what its chunks do is in Stream.         *)
(***************************************************************************)
EXTENDS Naturals, FiniteSets

CONSTANTS
  Clients,
  Ids,           \* connection ids a client may draw (64 random bits, not 0)
  TimeoutTicks,  \* g_connectionTimeout_us in keep-alive periods
  EraseTicks,    \* the two seconds a lost connection is kept
  NetBound,      \* bound of the model: datagrams in flight in bad conditions
  Server, Nobody

ASSUME SessionAssumption ==
  /\ Ids \subseteq Nat \ {0}
  /\ TimeoutTicks \in Nat \ {0, 1} /\ EraseTicks \in Nat \ {0} /\ NetBound \in Nat
  /\ Server \notin Clients /\ Nobody \notin Clients

VARIABLES
  client,      \* client[c]: the connection of client c, its only one, with key 0
  server,      \* server[k]: the connection with key k of the server
  net,         \* datagrams in flight
  ran,         \* in good conditions, endpoints whose process() has run in this period
  conditions,  \* "good": nothing is lost, stopped or killed; "bad": all of it may be
  heard        \* history: heard[k] is the set of clients whose packets
               \* the server's connection k has read

vars == <<client, server, net, ran, conditions, heard>>

Keys == Ids \cup {0}
Endpoints == Clients \cup {Server}

NoConnection ==
  [exists |-> FALSE, peer |-> Nobody, connectionId |-> 0, isConnected |-> FALSE,
   silence |-> 0, erase |-> 0, isDisconnectRequested |-> FALSE, bufferId |-> 0,
   told |-> "nothing"]

\* isConnected: lastPacketTick_us # INT64_MAX, and then silence is its age in
\* ticks.  erase: 0 for nextEraseTick_us = INT64_MAX, 1 when that tick has come.
\* bufferId: the connectionId in txBuffer.  told: the last callback.
Connection ==
  [exists : BOOLEAN, peer : Clients \cup {Server, Nobody}, connectionId : Keys,
   isConnected : BOOLEAN, silence : 0..TimeoutTicks, erase : 0..(EraseTicks + 1),
   isDisconnectRequested : BOOLEAN, bufferId : Keys,
   told : {"nothing", "onConnected", "onDisconnected"}]

Datagram == [from : Endpoints, to : Endpoints, packetId : {"TypeA", "Disconnect"}, connectionId : Keys]

Init ==
  /\ client = [c \in Clients |-> NoConnection]
  /\ server = [k \in Keys |-> NoConnection]
  /\ net = {}
  /\ ran = {}
  /\ conditions = "bad"
  /\ heard = [k \in Keys |-> {}]

-----------------------------------------------------------------------------
(* The network *)

\* Datagrams are sent; in bad conditions any of them may be lost.
Send(datagrams) ==
  IF conditions = "good" THEN net' = net \cup datagrams
  ELSE \E lost \in SUBSET datagrams :
         /\ net' = net \cup (datagrams \ lost)
         /\ Cardinality(net') <= NetBound

\* A datagram is taken from the network, and what answers it is sent; in bad
\* conditions it may come again, and the answer may be lost.
Take(m, answers) ==
  /\ m \in net
  /\ \E left \in {net \ {m}, net}, lost \in SUBSET answers :
       /\ left = net => conditions = "bad"
       /\ net' = left \cup (answers \ lost)
       /\ lost # answers => Cardinality(net') <= NetBound

Lose ==
  /\ conditions = "bad"
  /\ \E m \in net : net' = net \ {m}
  /\ UNCHANGED <<client, server, ran, conditions, heard>>

-----------------------------------------------------------------------------
(* What happens to one connection *)

Message(e, k, packetId, connectionId) ==
  [from |-> e, to |-> k.peer, packetId |-> packetId, connectionId |-> connectionId]

\* Connection::onDisconnected and the callback
Lost(k) == [k EXCEPT !.isConnected = FALSE, !.silence = 0, !.connectionId = 0,
                     !.told = "onDisconnected"]

\* process_ts for one connection: it is closed, has timed out, is erased, or waits.
Processed(e, k) ==
  IF ~k.exists \/ k.isDisconnectRequested THEN NoConnection
  ELSE IF k.erase = 0
  THEN IF k.isConnected /\ k.silence >= TimeoutTicks
       THEN [Lost(k) EXCEPT !.erase = EraseTicks + 1] ELSE k
  ELSE IF k.erase = 1
  THEN IF e = Server THEN NoConnection
       ELSE [k EXCEPT !.erase = 0, !.isConnected = FALSE, !.silence = 0]
  ELSE k

Sent_Unchecked(e, k) ==
  IF k.exists /\ k.isDisconnectRequested THEN {Message(e, k, "Disconnect", k.bufferId)}
  ELSE {Message(e, Processed(e, k), "TypeA", Processed(e, k).connectionId)}

\* What process() sends for it: the Disconnect of process_ts, whose connectionId
\* is the one left in txBuffer, or a TypeA.
Sent(e, k) ==
  IF k.exists /\ k.isDisconnectRequested THEN {Message(e, k, "Disconnect", k.bufferId)}
  ELSE LET p == Processed(e, k)
       IN  IF p.exists THEN {Message(e, p, "TypeA", p.connectionId)} ELSE {}

Buffered(k) == [k EXCEPT !.bufferId = k.connectionId]

\* stop(): a Disconnect to the peer of every connection that is connected
Stopped(e, k) == IF k.isConnected THEN {Message(e, k, "Disconnect", k.bufferId)} ELSE {}

-----------------------------------------------------------------------------
(* onUdpReceived *)

\* connections.find(header.connectionId): a client's connection has key 0,
\* whatever its connectionId.
Find(e, id) ==
  IF e = Server THEN server[id] ELSE IF id = 0 THEN client[e] ELSE NoConnection

ReceiveDisconnect(m) ==
  LET k == Find(m.to, m.connectionId)
      closed == IF k.exists /\ k.erase = 0 THEN [Lost(k) EXCEPT !.erase = EraseTicks + 1] ELSE k
  IN  /\ m.packetId = "Disconnect"
      /\ Take(m, {})
      /\ IF m.to = Server
         THEN server' = [server EXCEPT ![m.connectionId] = closed] /\ UNCHANGED client
         ELSE client' = [client EXCEPT ![m.to] = IF m.connectionId = 0 THEN closed ELSE @]
              /\ UNCHANGED server
      /\ UNCHANGED <<ran, conditions, heard>>

\* A packet arrives for a connection: lastPacketTick_us, and onConnected.
Heard_Once(k) == [k EXCEPT !.isConnected = TRUE,
                           !.told = IF k.isConnected THEN @ ELSE "onConnected"]

Heard(k) == [k EXCEPT !.isConnected = TRUE, !.silence = 0,
                      !.told = IF k.isConnected THEN @ ELSE "onConnected"]

\* The packet that ends a window of packets is answered at once with a TypeA.
\* Bound of the model: in good conditions none does, so that a period ends.
Answers(e, k) ==
  {{}} \cup IF conditions = "bad" THEN {{Message(e, k, "TypeA", k.connectionId)}} ELSE {}

Answering(k, answers) == IF answers = {} THEN k ELSE Buffered(k)

\* The server makes the connection of an id it does not know and keeps its first
\* address; one that waits to be erased is not served.
Served(m) ==
  IF server[m.connectionId].exists THEN server[m.connectionId]
  ELSE [NoConnection EXCEPT !.exists = TRUE, !.peer = m.from, !.connectionId = m.connectionId]

ServerReceive_Revives(m) ==
  /\ m.to = Server /\ m.packetId = "TypeA"
  /\ \E answers \in Answers(Server, Heard(Served(m))) :
       /\ Take(m, answers)
       /\ server' = [server EXCEPT ![m.connectionId] = Answering(Heard(Served(m)), answers)]
       /\ heard' = [heard EXCEPT ![m.connectionId] = @ \cup {m.from}]
  /\ UNCHANGED <<client, ran, conditions>>

ServerReceive(m) ==
  /\ m.to = Server /\ m.packetId = "TypeA"
  /\ \/ /\ Served(m).erase # 0
        /\ Take(m, {})
        /\ UNCHANGED <<server, heard>>
     \/ /\ Served(m).erase = 0
        /\ \E answers \in Answers(Server, Heard(Served(m))) :
             /\ Take(m, answers)
             /\ server' = [server EXCEPT ![m.connectionId] = Answering(Heard(Served(m)), answers)]
             /\ heard' = [heard EXCEPT ![m.connectionId] = @ \cup {m.from}]
  /\ UNCHANGED <<client, ran, conditions>>

\* A client takes every packet for its one connection; only a packet with
\* connectionId 0 finds out that it waits to be erased.
ClientReceive(m) ==
  LET k == client[m.to]
      isDropped == ~k.exists \/ Find(m.to, m.connectionId).erase # 0
  IN  /\ m.to \in Clients /\ m.packetId = "TypeA"
      /\ \/ isDropped /\ Take(m, {}) /\ UNCHANGED client
         \/ /\ ~isDropped
            /\ \E answers \in Answers(m.to, Heard(k)) :
                 /\ Take(m, answers)
                 /\ client' = [client EXCEPT ![m.to] = Answering(Heard(k), answers)]
      /\ UNCHANGED <<server, ran, conditions, heard>>

-----------------------------------------------------------------------------
(* process(): process_ts, then a keep-alive for every connection *)

\* Bound of the model: in good conditions once in a keep-alive period.
ProcessClient(c) ==
  /\ conditions = "good" => c \notin ran
  /\ client' = [client EXCEPT ![c] = Buffered(Processed(c, @))]
  /\ Send(Sent(c, client[c]))
  /\ ran' = IF conditions = "good" THEN ran \cup {c} ELSE {}
  /\ UNCHANGED <<server, conditions, heard>>

ProcessServer ==
  /\ conditions = "good" => Server \notin ran
  /\ server' = [k \in Keys |-> Buffered(Processed(Server, server[k]))]
  /\ heard' = [k \in Keys |-> IF server'[k].exists THEN heard[k] ELSE {}]
  /\ Send(UNION {Sent(Server, server[k]) : k \in Keys})
  /\ ran' = IF conditions = "good" THEN ran \cup {Server} ELSE {}
  /\ UNCHANGED <<client, conditions>>

\* A keep-alive period passes.  In good conditions every thread has run in it and
\* every datagram sent in it has arrived.
Aged(k) == [k EXCEPT !.silence = IF k.isConnected /\ @ < TimeoutTicks THEN @ + 1 ELSE @,
                     !.erase = IF @ > 1 THEN @ - 1 ELSE @]

Tick ==
  /\ conditions = "good" => ran = Endpoints /\ net = {}
  /\ client' = [c \in Clients |-> Aged(client[c])]
  /\ server' = [k \in Keys |-> Aged(server[k])]
  /\ ran' = {}
  /\ UNCHANGED <<net, conditions, heard>>

-----------------------------------------------------------------------------
(* The applications *)

IdsInUse ==
  {client[c].connectionId : c \in Clients} \cup {k \in Keys : server[k].exists}
    \cup {m.connectionId : m \in net}

\* connect(): a new connection, or a new id for the one that lost its id.  The
\* random id is none that is in use.
Connect(c) ==
  /\ client[c].connectionId = 0
  /\ \E id \in Ids \ IdsInUse :
       client' = [client EXCEPT ![c] =
                    IF @.exists THEN [@ EXCEPT !.connectionId = id, !.peer = Server]
                    ELSE [NoConnection EXCEPT !.exists = TRUE, !.peer = Server, !.connectionId = id]]
  /\ UNCHANGED <<server, net, ran, conditions, heard>>

\* The example client calls connect as long as it is not connected.
Reconnect(c) == ~client[c].isConnected /\ Connect(c)

Disconnect(c) ==
  /\ conditions = "bad"
  /\ client[c].isConnected
  /\ client' = [client EXCEPT ![c].isDisconnectRequested = TRUE]
  /\ UNCHANGED <<server, net, ran, conditions, heard>>

\* A program is stopped, or killed without a Disconnect, and started again.
RestartClient(c) ==
  /\ conditions = "bad"
  /\ Send(Stopped(c, client[c]))
  /\ client' = [client EXCEPT ![c] = NoConnection]
  /\ UNCHANGED <<server, ran, conditions, heard>>

\* stop() joins the thread, which has sent each connection a keep-alive by then.
RestartServer ==
  /\ conditions = "bad"
  /\ \A k \in Keys : server[k].bufferId = server[k].connectionId
  /\ Send(UNION {Stopped(Server, server[k]) : k \in Keys})
  /\ server' = [k \in Keys |-> NoConnection]
  /\ heard' = [k \in Keys |-> {}]
  /\ UNCHANGED <<client, ran, conditions>>

\* The bad conditions end.
ConditionsImprove ==
  /\ conditions = "bad" /\ conditions' = "good"
  /\ UNCHANGED <<client, server, net, ran, heard>>

Receive == \E m \in net : ReceiveDisconnect(m) \/ ServerReceive(m) \/ ClientReceive(m)

Next ==
  \/ Receive
  \/ Lose
  \/ \E c \in Clients : ProcessClient(c) \/ Connect(c) \/ Disconnect(c) \/ RestartClient(c)
  \/ ProcessServer
  \/ RestartServer
  \/ Tick
  \/ ConditionsImprove

Spec == Init /\ [][Next]_vars

FairSpec ==
  /\ Spec
  /\ WF_vars(Receive) /\ WF_vars(ProcessServer) /\ WF_vars(Tick)
  /\ \A c \in Clients : WF_vars(ProcessClient(c)) /\ WF_vars(Reconnect(c))

-----------------------------------------------------------------------------
(* Properties *)

\* What the fields hold, and where process() sends: every datagram is addressed to
\* a client or to the server, never to the peer of a connection that is gone.
SessionTypeOK ==
  /\ client \in [Clients -> Connection]
  /\ server \in [Keys -> Connection]
  /\ net \subseteq Datagram
  /\ ran \subseteq Endpoints
  /\ conditions \in {"good", "bad"}
  /\ heard \in [Keys -> SUBSET Clients]

\* The server's application hears onConnected and onDisconnected of a connection
\* in turn, and no connection it was told of is erased without onDisconnected
\* (unless the server itself is stopped).
ServerToldInTurn ==
  [][\A k \in Keys :
       /\ server[k].told = "onConnected" /\ server'[k].told # "onConnected"
            => \/ server'[k].told = "onDisconnected"
               \/ server' = [j \in Keys |-> NoConnection] /\ conditions = "bad"
       /\ server[k].told = "onDisconnected" => server'[k].told # "onConnected"]_vars

Established(c) ==
  LET id == client[c].connectionId
  IN  /\ client[c].isConnected
      /\ server[id].isConnected /\ server[id].peer = c

\* Clients and server find each other again: whatever was lost, stopped or
\* killed, once the conditions stay good every client ends up connected to a
\* connection of the server that has its address and stays so, provided its
\* application calls connect while it is not connected.
ConnectionRecovers ==
  [](conditions = "good" => <>[](\A c \in Clients : Established(c)))

\* README: "A single socket on the server side to connect to all clients": a
\* connection of the server is the connection of one client.
OneClientPerConnection == \A k \in Keys : Cardinality(heard[k]) <= 1
=============================================================================
