--------------------------- MODULE SessionProofs ---------------------------
(***************************************************************************)
(* Proofs about the life of connections (Session), for any number of       *)
(* clients, of connection ids and of datagrams in flight, any timeout, and *)
(* whatever is lost, repeated, stopped or killed.                          *)
(***************************************************************************)
EXTENDS Session, TLAPS

-----------------------------------------------------------------------------
(* The inductive invariant                                                 *)

\* A client's connection that exists has the server for its peer.
ClientConnection(k) ==
  /\ k \in Connection
  /\ k.exists => k.peer = Server
  /\ k.isConnected => k.exists

\* A connection of the server that exists has a client for its peer; it waits to be
\* erased exactly if the application was told of its end.
ServerConnection(k) ==
  /\ k \in Connection
  /\ k.exists => k.peer \in Clients
  /\ k.isConnected => k.exists
  /\ ~k.exists => k.told = "nothing"
  /\ ~k.isDisconnectRequested
  /\ k.erase # 0 <=> k.told = "onDisconnected"

\* a datagram between a client and the server
Between(m) ==
  /\ m \in Datagram
  /\ \/ m.from = Server /\ m.to \in Clients
     \/ m.from \in Clients /\ m.to = Server

SessionInv ==
  /\ client \in [Clients -> Connection]
  /\ \A c \in Clients : ClientConnection(client[c])
  /\ server \in [Keys -> Connection]
  /\ \A k \in Keys : ServerConnection(server[k])
  /\ \A m \in net : Between(m)
  /\ ran \subseteq Endpoints
  /\ conditions \in {"good", "bad"}
  /\ heard \in [Keys -> SUBSET Clients]

-----------------------------------------------------------------------------
(* What happens to one connection                                          *)

\* a client's key, an id or none
LEMMA KeysType == 0 \in Keys /\ Keys \subseteq Nat
BY SessionAssumption DEF Keys

\* the bounds of the counters
LEMMA TicksType ==
  /\ TimeoutTicks \in Nat /\ EraseTicks \in Nat /\ EraseTicks > 0
  /\ 0 \in 0..TimeoutTicks /\ 0 \in 0..(EraseTicks + 1)
  /\ EraseTicks + 1 \in 0..(EraseTicks + 1) /\ EraseTicks + 1 # 0
BY SessionAssumption

\* the fields of a connection that does not exist
LEMMA NoConnectionIs ==
  /\ NoConnection \in Connection /\ ~NoConnection.exists /\ ~NoConnection.isConnected
  /\ NoConnection.told = "nothing" /\ NoConnection.erase = 0
  /\ ClientConnection(NoConnection) /\ ServerConnection(NoConnection)
<1>1. NoConnection \in Connection
  BY KeysType, TicksType DEF NoConnection, Connection
<1> QED BY <1>1 DEF NoConnection, ClientConnection, ServerConnection

\* the fields of a connection
LEMMA FieldTypes ==
  ASSUME NEW k \in Connection
  PROVE  /\ k.exists \in BOOLEAN /\ k.peer \in Clients \cup {Server, Nobody}
         /\ k.connectionId \in Keys /\ k.isConnected \in BOOLEAN
         /\ k.silence \in 0..TimeoutTicks /\ k.erase \in 0..(EraseTicks + 1)
         /\ k.isDisconnectRequested \in BOOLEAN /\ k.bufferId \in Keys
         /\ k.told \in {"nothing", "onConnected", "onDisconnected"}
BY DEF Connection

\* Connection::onDisconnected, with the time to erase it set
LEMMA LostIs ==
  ASSUME NEW k \in Connection
  PROVE  LET l == [Lost(k) EXCEPT !.erase = EraseTicks + 1]
         IN  /\ l \in Connection /\ l.exists = k.exists /\ l.peer = k.peer
             /\ ~l.isConnected /\ l.told = "onDisconnected" /\ l.erase = EraseTicks + 1
             /\ l.isDisconnectRequested = k.isDisconnectRequested
BY KeysType, TicksType DEF Connection, Lost

\* a client's connection whose time to be erased has come is kept
LEMMA KeptIs ==
  ASSUME NEW k \in Connection
  PROVE  LET l == [k EXCEPT !.erase = 0, !.isConnected = FALSE, !.silence = 0]
         IN  l \in Connection /\ l.exists = k.exists /\ l.peer = k.peer /\ ~l.isConnected
BY TicksType DEF Connection

\* what a packet leaves in txBuffer
LEMMA BufferedIs ==
  ASSUME NEW k \in Connection
  PROVE  /\ Buffered(k) \in Connection /\ Buffered(k).exists = k.exists
         /\ Buffered(k).peer = k.peer /\ Buffered(k).isConnected = k.isConnected
         /\ Buffered(k).told = k.told /\ Buffered(k).erase = k.erase
         /\ Buffered(k).isDisconnectRequested = k.isDisconnectRequested
BY DEF Connection, Buffered

\* what a packet of the peer does to a connection
LEMMA HeardIs ==
  ASSUME NEW k \in Connection
  PROVE  /\ Heard(k) \in Connection /\ Heard(k).exists = k.exists /\ Heard(k).peer = k.peer
         /\ Heard(k).isConnected /\ Heard(k).erase = k.erase
         /\ Heard(k).isDisconnectRequested = k.isDisconnectRequested
         /\ Heard(k).told \in {k.told, "onConnected"}
BY TicksType DEF Connection, Heard

\* what a tick does to a connection
LEMMA AgedIs ==
  ASSUME NEW k \in Connection
  PROVE  /\ Aged(k) \in Connection /\ Aged(k).exists = k.exists /\ Aged(k).peer = k.peer
         /\ Aged(k).isConnected = k.isConnected /\ Aged(k).told = k.told
         /\ Aged(k).isDisconnectRequested = k.isDisconnectRequested
         /\ Aged(k).erase = 0 <=> k.erase = 0
<1> DEFINE s == IF k.isConnected /\ k.silence < TimeoutTicks THEN k.silence + 1 ELSE k.silence
           e == IF k.erase > 1 THEN k.erase - 1 ELSE k.erase
<1>1. k.silence \in 0..TimeoutTicks /\ k.erase \in 0..(EraseTicks + 1)
  BY FieldTypes
<1>2. s \in 0..TimeoutTicks /\ e \in 0..(EraseTicks + 1) /\ (e = 0 <=> k.erase = 0)
  BY <1>1, TicksType
<1>3. Aged(k) = [k EXCEPT !.silence = s, !.erase = e]
  BY DEF Aged, Connection
<1> HIDE DEF s, e
<1> QED BY <1>2, <1>3 DEF Connection

\* process_ts on a connection of a client
LEMMA ProcessedByClient ==
  ASSUME NEW c \in Clients, NEW k, ClientConnection(k)
  PROVE  ClientConnection(Processed(c, k))
<1>1. k \in Connection /\ c # Server
  BY SessionAssumption DEF ClientConnection
<1>2. \/ Processed(c, k) = NoConnection
      \/ Processed(c, k) = k
      \/ /\ Processed(c, k) = [Lost(k) EXCEPT !.erase = EraseTicks + 1]
         /\ k.exists
      \/ /\ Processed(c, k) = [k EXCEPT !.erase = 0, !.isConnected = FALSE, !.silence = 0]
         /\ k.exists
  BY <1>1 DEF Processed
<1>3. CASE Processed(c, k) = NoConnection
  BY Zenon, <1>3, NoConnectionIs
<1>4. CASE Processed(c, k) = k
  BY Zenon, <1>4
<1>5. CASE Processed(c, k) = [Lost(k) EXCEPT !.erase = EraseTicks + 1]
  BY Zenon, <1>1, <1>5, LostIs DEF ClientConnection
<1>6. CASE Processed(c, k) = [k EXCEPT !.erase = 0, !.isConnected = FALSE, !.silence = 0]
  BY Zenon, <1>1, <1>6, KeptIs DEF ClientConnection
<1> QED BY <1>2, <1>3, <1>4, <1>5, <1>6

\* process_ts on a connection of the server: it is erased only after its end was told
LEMMA ProcessedByServer ==
  ASSUME NEW k, ServerConnection(k)
  PROVE  LET p == Processed(Server, k)
         IN  /\ ServerConnection(p)
             /\ k.told = "onConnected" => p.told \in {"onConnected", "onDisconnected"}
             /\ k.told = "onDisconnected" => p.told # "onConnected"
<1>1. k \in Connection /\ k.erase \in Nat
  BY FieldTypes, TicksType DEF ServerConnection
<1>2. \/ /\ Processed(Server, k) = NoConnection
         /\ ~k.exists \/ k.erase # 0
      \/ Processed(Server, k) = k
      \/ /\ Processed(Server, k) = [Lost(k) EXCEPT !.erase = EraseTicks + 1]
         /\ k.exists
  BY <1>1 DEF Processed, ServerConnection
<1>3. CASE Processed(Server, k) = NoConnection /\ (~k.exists \/ k.erase # 0)
  <2>1. k.told # "onConnected"
    BY <1>3 DEF ServerConnection
  <2>2. NoConnection.told # "onConnected"
    BY NoConnectionIs
  <2> QED BY Zenon, <1>3, <2>1, <2>2, NoConnectionIs
<1>4. CASE Processed(Server, k) = k
  <2>1. k.told = "onDisconnected" => k.told # "onConnected"
    OBVIOUS
  <2> QED BY Zenon, <1>4, <2>1
<1>5. CASE Processed(Server, k) = [Lost(k) EXCEPT !.erase = EraseTicks + 1] /\ k.exists
  <2> DEFINE l == [Lost(k) EXCEPT !.erase = EraseTicks + 1]
  <2>1. /\ l \in Connection /\ l.exists = k.exists /\ l.peer = k.peer
        /\ ~l.isConnected /\ l.told = "onDisconnected" /\ l.erase = EraseTicks + 1
        /\ l.isDisconnectRequested = k.isDisconnectRequested
    BY Zenon, <1>1, LostIs
  <2> HIDE DEF l
  <2>2. ServerConnection(l) /\ l.told # "onConnected"
    BY <1>5, <2>1, TicksType DEF ServerConnection
  <2> QED BY Zenon, <1>5, <2>1, <2>2 DEF l
<1> QED BY <1>2, <1>3, <1>4, <1>5

-----------------------------------------------------------------------------
(* What is sent                                                            *)

\* a datagram of a connection
LEMMA MessageIs ==
  ASSUME NEW e, NEW k, NEW packetId \in {"TypeA", "Disconnect"}, NEW id \in Keys,
         \/ e = Server /\ k.peer \in Clients
         \/ e \in Clients /\ k.peer = Server
  PROVE  Between(Message(e, k, packetId, id))
BY DEF Message, Between, Datagram, Endpoints

\* what clients send
LEMMA SentByClient ==
  ASSUME NEW c \in Clients, NEW k, ClientConnection(k)
  PROVE  \A m \in Sent(c, k) \cup Stopped(c, k) : Between(m)
<1> DEFINE p == Processed(c, k)
<1>1. ClientConnection(p)
  BY ProcessedByClient
<1>2. k \in Connection /\ k.bufferId \in Keys /\ p.connectionId \in Keys
  BY <1>1, FieldTypes DEF ClientConnection
<1> HIDE DEF p
<1>3. \A m \in Sent(c, k) :
        \/ k.exists /\ m = Message(c, k, "Disconnect", k.bufferId)
        \/ p.exists /\ m = Message(c, p, "TypeA", p.connectionId)
  BY DEF Sent, p
<1>4. \A m \in Stopped(c, k) : k.isConnected /\ m = Message(c, k, "Disconnect", k.bufferId)
  BY DEF Stopped
<1>5. k.exists => Between(Message(c, k, "Disconnect", k.bufferId))
  BY <1>2, MessageIs DEF ClientConnection
<1>6. p.exists => Between(Message(c, p, "TypeA", p.connectionId))
  BY <1>1, <1>2, MessageIs DEF ClientConnection
<1> QED BY <1>3, <1>4, <1>5, <1>6 DEF ClientConnection

\* what the server sends
LEMMA SentByServer ==
  ASSUME NEW k, ServerConnection(k)
  PROVE  \A m \in Sent(Server, k) \cup Stopped(Server, k) : Between(m)
<1> DEFINE p == Processed(Server, k)
<1>1. ServerConnection(p)
  BY Zenon, ProcessedByServer
<1>2. k \in Connection /\ k.bufferId \in Keys /\ p.connectionId \in Keys
  BY <1>1, FieldTypes DEF ServerConnection
<1> HIDE DEF p
<1>3. \A m \in Sent(Server, k) :
        \/ k.exists /\ m = Message(Server, k, "Disconnect", k.bufferId)
        \/ p.exists /\ m = Message(Server, p, "TypeA", p.connectionId)
  BY DEF Sent, p
<1>4. \A m \in Stopped(Server, k) :
        k.isConnected /\ m = Message(Server, k, "Disconnect", k.bufferId)
  BY DEF Stopped
<1>5. k.exists => Between(Message(Server, k, "Disconnect", k.bufferId))
  BY <1>2, MessageIs DEF ServerConnection
<1>6. p.exists => Between(Message(Server, p, "TypeA", p.connectionId))
  BY <1>1, <1>2, MessageIs DEF ServerConnection
<1> QED BY <1>3, <1>4, <1>5, <1>6 DEF ServerConnection

\* a datagram is lost or under way
LEMMA SendKeeps ==
  ASSUME NEW datagrams, Send(datagrams), \A m \in net : Between(m),
         \A m \in datagrams : Between(m)
  PROVE  \A m \in net' : Between(m)
<1>1. net' \subseteq net \cup datagrams
  BY Zenon DEF Send
<1> QED BY Zenon, <1>1

\* what is left in flight when a datagram is taken and answered
LEMMA TakeKeeps ==
  ASSUME NEW m, NEW answers, Take(m, answers), \A n \in net : Between(n),
         \A n \in answers : Between(n)
  PROVE  \A n \in net' : Between(n)
<1>1. net' \subseteq net \cup answers
  BY Zenon DEF Take
<1> QED BY Zenon, <1>1

\* a datagram is taken and not answered
LEMMA TakeOnly ==
  ASSUME NEW m, Take(m, {}), \A n \in net : Between(n)
  PROVE  \A n \in net' : Between(n)
<1> DEFINE none == {}
<1>1. Take(m, none) /\ \A n \in none : Between(n)
  BY SMT
<1> HIDE DEF none
<1> QED BY Zenon, <1>1, TakeKeeps

\* the answer to a packet that ends a window, and the connection that sends it
LEMMA AnswersAre ==
  ASSUME NEW e, NEW k \in Connection, NEW answers \in Answers(e, k),
         \/ e = Server /\ k.peer \in Clients
         \/ e \in Clients /\ k.peer = Server
  PROVE  /\ \A n \in answers : Between(n)
         /\ Answering(k, answers) \in {k, Buffered(k)}
<1>1. Between(Message(e, k, "TypeA", k.connectionId))
  BY FieldTypes, MessageIs
<1>2. answers = {} \/ answers = {Message(e, k, "TypeA", k.connectionId)}
  BY DEF Answers
<1>3. \A n \in answers : Between(n)
  BY Zenon, <1>1, <1>2
<1> QED BY <1>3 DEF Answering

-----------------------------------------------------------------------------
(* The steps                                                               *)

\* what the server's application is told of connection k in a step
InTurn(k) ==
  /\ server[k].told = "onConnected" /\ server'[k].told # "onConnected"
       => \/ server'[k].told = "onDisconnected"
          \/ server' = [j \in Keys |-> NoConnection] /\ conditions = "bad"
  /\ server[k].told = "onDisconnected" => server'[k].told # "onConnected"

\* a connection that is told of nothing new
LEMMA Untold ==
  ASSUME NEW k \in Keys, server'[k].told = server[k].told
  PROVE  InTurn(k)
BY DEF InTurn

\* a Disconnect at either end
LEMMA ReceiveDisconnectStep ==
  ASSUME SessionInv, NEW m \in net, ReceiveDisconnect(m)
  PROVE  SessionInv' /\ \A k \in Keys : InTurn(k)
<1> DEFINE k == Find(m.to, m.connectionId)
           l == [Lost(k) EXCEPT !.erase = EraseTicks + 1]
           closed == IF k.exists /\ k.erase = 0 THEN l ELSE k
<1>0. /\ client \in [Clients -> Connection] /\ \A c \in Clients : ClientConnection(client[c])
      /\ server \in [Keys -> Connection] /\ \A j \in Keys : ServerConnection(server[j])
      /\ \A n \in net : Between(n)
  BY DEF SessionInv
<1>1. Between(m) /\ m.connectionId \in Keys /\ Server \notin Clients
  BY SessionAssumption DEF SessionInv, Between, Datagram
<1>2. \A n \in net' : Between(n)
  BY Zenon, <1>0, TakeOnly DEF ReceiveDisconnect
<1>3. ran' = ran /\ conditions' = conditions /\ heard' = heard
  BY DEF ReceiveDisconnect
<1>4. CASE m.to = Server
  <2>1. server' = [server EXCEPT ![m.connectionId] = closed] /\ client' = client
    BY <1>4 DEF ReceiveDisconnect
  <2>2. k = server[m.connectionId] /\ k \in Connection /\ ServerConnection(k)
    BY <1>0, <1>1, <1>4 DEF Find
  <2> HIDE DEF k
  <2>3. /\ l \in Connection /\ l.exists = k.exists /\ l.peer = k.peer
        /\ ~l.isConnected /\ l.told = "onDisconnected" /\ l.erase = EraseTicks + 1
        /\ l.isDisconnectRequested = k.isDisconnectRequested
    BY Zenon, <2>2, LostIs
  <2> HIDE DEF l
  <2>4. k.exists => ServerConnection(l)
    BY <2>2, <2>3, TicksType DEF ServerConnection
  <2>5. ServerConnection(closed) /\ closed.told \in {k.told, "onDisconnected"}
    BY Zenon, <2>2, <2>3, <2>4
  <2> HIDE DEF closed
  <2>6. closed \in Connection
    BY <2>5 DEF ServerConnection
  <2>7. server' \in [Keys -> Connection]
    BY <1>0, <2>1, <2>6
  <2>8. \A j \in Keys : server'[j] = IF j = m.connectionId THEN closed ELSE server[j]
    BY <1>0, <2>1
  <2>9. \A j \in Keys : ServerConnection(server'[j])
    BY Zenon, <1>0, <2>5, <2>8
  <2>10. SessionInv'
    BY Zenon, <1>0, <1>2, <1>3, <2>1, <2>7, <2>9 DEF SessionInv
  <2>11. ASSUME NEW j \in Keys PROVE InTurn(j)
    BY <2>2, <2>5, <2>8 DEF InTurn
  <2> QED BY Zenon, <2>10, <2>11
<1>5. CASE m.to # Server
  <2>1. m.to \in Clients
    BY <1>1, <1>5 DEF Between
  <2>2. /\ client' = [client EXCEPT ![m.to] = IF m.connectionId = 0 THEN closed ELSE @]
        /\ server' = server
    BY <1>5 DEF ReceiveDisconnect
  <2>3. m.connectionId = 0 => k = client[m.to]
    BY <1>5 DEF Find
  <2> HIDE DEF k
  <2>4. ASSUME k \in Connection, ClientConnection(k) PROVE ClientConnection(closed)
    <3>1. /\ l \in Connection /\ l.exists = k.exists /\ l.peer = k.peer /\ ~l.isConnected
      BY Zenon, <2>4, LostIs
    <3> HIDE DEF l
    <3> QED BY <2>4, <3>1 DEF ClientConnection
  <2> HIDE DEF closed
  <2> DEFINE new == IF m.connectionId = 0 THEN closed ELSE client[m.to]
  <2>5. ClientConnection(new)
    BY Zenon, <1>0, <2>1, <2>3, <2>4
  <2>6. client' = [client EXCEPT ![m.to] = new]
    BY <1>0, <2>1, <2>2
  <2> HIDE DEF new
  <2>7. new \in Connection
    BY <2>5 DEF ClientConnection
  <2>8. client' \in [Clients -> Connection]
    BY <1>0, <2>6, <2>7
  <2>9. \A c \in Clients : client'[c] = IF c = m.to THEN new ELSE client[c]
    BY <1>0, <2>6
  <2>10. \A c \in Clients : ClientConnection(client'[c])
    BY Zenon, <1>0, <2>5, <2>9
  <2>11. SessionInv'
    BY Zenon, <1>2, <1>3, <2>2, <2>8, <2>10 DEF SessionInv
  <2> QED BY Zenon, <2>2, <2>11, Untold
<1> QED BY <1>4, <1>5

\* a TypeA at the server: a known connection, or a new one
LEMMA ServerReceiveStep ==
  ASSUME SessionInv, NEW m \in net, ServerReceive(m)
  PROVE  SessionInv' /\ \A k \in Keys : InTurn(k)
<1> DEFINE id  == m.connectionId
           new == [NoConnection EXCEPT !.exists = TRUE, !.peer = m.from, !.connectionId = id]
           k   == Served(m)
<1>0. /\ client \in [Clients -> Connection] /\ \A c \in Clients : ClientConnection(client[c])
      /\ server \in [Keys -> Connection] /\ \A j \in Keys : ServerConnection(server[j])
      /\ (\A n \in net : Between(n)) /\ heard \in [Keys -> SUBSET Clients]
  BY DEF SessionInv
<1>1. id \in Keys /\ m.from \in Clients
  BY SessionAssumption DEF SessionInv, Between, Datagram, ServerReceive
<1>2. ran' = ran /\ conditions' = conditions /\ client' = client
  BY DEF ServerReceive
<1>3. CASE Take(m, {}) /\ UNCHANGED <<server, heard>>
  <2>1. \A n \in net' : Between(n)
    BY Zenon, <1>0, <1>3, TakeOnly
  <2>2. SessionInv'
    BY Zenon, <1>2, <1>3, <2>1 DEF SessionInv
  <2> QED BY Zenon, <1>3, <2>2, Untold
<1>4. ASSUME NEW answers \in Answers(Server, Heard(k)), k.erase = 0, Take(m, answers),
             server' = [server EXCEPT ![id] = Answering(Heard(k), answers)],
             heard' = [heard EXCEPT ![id] = @ \cup {m.from}]
      PROVE  SessionInv' /\ \A j \in Keys : InTurn(j)
  <2>1. /\ new \in Connection /\ new.exists /\ new.peer = m.from /\ ~new.isConnected
        /\ ~new.isDisconnectRequested /\ new.told = "nothing" /\ new.erase = 0
    BY <1>1, KeysType, TicksType DEF NoConnection, Connection
  <2>2. k = IF server[id].exists THEN server[id] ELSE new
    BY DEF Served
  <2> HIDE DEF new, k
  <2>3. ServerConnection(new) /\ new.exists
    BY <1>1, <2>1 DEF ServerConnection
  <2>4. /\ ServerConnection(k) /\ k.exists /\ k \in Connection
        /\ server[id].told # "nothing" => k = server[id]
    BY Zenon, <1>0, <1>1, <2>2, <2>3 DEF ServerConnection
  <2>5. k.told # "onDisconnected"
    BY <1>4, <2>4 DEF ServerConnection
  <2>6. server[id].told # "onDisconnected"
    BY <2>4, <2>5
  <2>7. /\ Heard(k) \in Connection /\ Heard(k).exists = k.exists /\ Heard(k).peer = k.peer
        /\ Heard(k).isConnected /\ Heard(k).erase = k.erase
        /\ Heard(k).isDisconnectRequested = k.isDisconnectRequested
        /\ Heard(k).told \in {k.told, "onConnected"}
    BY <2>4, HeardIs
  <2> DEFINE h == Heard(k)
             a == Answering(h, answers)
  <2> HIDE DEF h
  <2>8. ServerConnection(h) /\ h.told # "onDisconnected" /\ h.exists /\ h \in Connection
    BY <1>4, <2>4, <2>5, <2>7 DEF ServerConnection, h
  <2>9. (\A n \in answers : Between(n)) /\ a \in {h, Buffered(h)}
    <3>1. h.peer \in Clients
      BY <2>8 DEF ServerConnection
    <3> QED BY Zenon, <1>4, <2>8, <3>1, AnswersAre DEF h
  <2> HIDE DEF a
  <2>10. ServerConnection(a) /\ a \in Connection /\ a.told = h.told
    BY <2>8, <2>9, BufferedIs DEF ServerConnection
  <2>11. server' = [server EXCEPT ![id] = a]
    BY Zenon, <1>4 DEF a, h
  <2>12. server' \in [Keys -> Connection] /\ heard' \in [Keys -> SUBSET Clients]
    BY <1>0, <1>1, <1>4, <2>10, <2>11
  <2>13. \A j \in Keys : server'[j] = IF j = id THEN a ELSE server[j]
    BY <1>0, <2>11
  <2>14. \A j \in Keys : ServerConnection(server'[j])
    BY Zenon, <1>0, <2>10, <2>13
  <2>15. \A n \in net' : Between(n)
    BY Zenon, <1>0, <1>4, <2>9, TakeKeeps
  <2>16. SessionInv'
    BY Zenon, <1>0, <1>2, <2>12, <2>14, <2>15 DEF SessionInv
  <2>17. server[id].told = "onConnected" => a.told = "onConnected"
    BY <2>4, <2>7, <2>10 DEF h
  <2>18. ASSUME NEW j \in Keys PROVE InTurn(j)
    BY <2>6, <2>13, <2>17 DEF InTurn
  <2> QED BY Zenon, <2>16, <2>18
<1>5. \/ Take(m, {}) /\ UNCHANGED <<server, heard>>
      \/ /\ k.erase = 0
         /\ \E answers \in Answers(Server, Heard(k)) :
              /\ Take(m, answers)
              /\ server' = [server EXCEPT ![id] = Answering(Heard(k), answers)]
              /\ heard' = [heard EXCEPT ![id] = @ \cup {m.from}]
  BY Zenon DEF ServerReceive
<1> HIDE DEF k
<1> QED BY Zenon, <1>3, <1>4, <1>5

\* a step that changes the connection of one client
LEMMA ClientAssigned ==
  ASSUME SessionInv, NEW c \in Clients, NEW new, ClientConnection(new),
         client' = [client EXCEPT ![c] = new], UNCHANGED <<server, heard>>,
         \A m \in net' : Between(m), ran' \subseteq Endpoints, conditions' = conditions
  PROVE  SessionInv' /\ \A k \in Keys : InTurn(k)
<1>1. new \in Connection /\ client \in [Clients -> Connection]
  BY DEF ClientConnection, SessionInv
<1>2. client' \in [Clients -> Connection]
  BY <1>1
<1>3. \A d \in Clients : client'[d] = IF d = c THEN new ELSE client[d]
  BY <1>1
<1>4. \A d \in Clients : ClientConnection(client'[d])
  BY Zenon, <1>3 DEF SessionInv
<1>5. SessionInv'
  BY Zenon, <1>2, <1>4 DEF SessionInv
<1> QED BY Zenon, <1>5, Untold

\* a client's own steps: connect, disconnect, stop, timeouts
LEMMA ClientStep ==
  ASSUME SessionInv, NEW c \in Clients,
         ProcessClient(c) \/ Connect(c) \/ Disconnect(c) \/ RestartClient(c)
  PROVE  SessionInv' /\ \A k \in Keys : InTurn(k)
<1>0. /\ client \in [Clients -> Connection] /\ ClientConnection(client[c])
      /\ client[c] \in Connection /\ \A m \in net : Between(m)
      /\ ran \subseteq Endpoints
  BY DEF SessionInv
<1>1. \A m \in Sent(c, client[c]) \cup Stopped(c, client[c]) : Between(m)
  BY Zenon, <1>0, SentByClient
<1>2. CASE ProcessClient(c)
  <2> DEFINE p == Processed(c, client[c])
             new == Buffered(p)
  <2>1. ClientConnection(p)
    BY Zenon, <1>0, ProcessedByClient
  <2>2. client' = [client EXCEPT ![c] = new]
    BY <1>0, <1>2 DEF ProcessClient
  <2> HIDE DEF p
  <2>3. ClientConnection(new)
    BY <2>1, BufferedIs DEF ClientConnection
  <2> HIDE DEF new
  <2>4. /\ Send(Sent(c, client[c])) /\ UNCHANGED <<server, heard>> /\ conditions' = conditions
        /\ ran' \in {ran \cup {c}, {}}
    BY Zenon, <1>2 DEF ProcessClient
  <2>5. \A m \in net' : Between(m)
    BY Zenon, <1>0, <1>1, <2>4, SendKeeps
  <2>6. ran' \subseteq Endpoints
    BY <1>0, <2>4 DEF Endpoints
  <2> QED BY Zenon, <2>2, <2>3, <2>4, <2>5, <2>6, ClientAssigned
<1>3. CASE Connect(c)
  <2>1. PICK id \in Ids :
          client' = [client EXCEPT ![c] =
                       IF @.exists THEN [@ EXCEPT !.connectionId = id, !.peer = Server]
                       ELSE [NoConnection EXCEPT !.exists = TRUE, !.peer = Server,
                                                 !.connectionId = id]]
    BY Zenon, <1>3 DEF Connect
  <2>2. UNCHANGED <<server, net, ran, conditions, heard>>
    BY Zenon, <1>3 DEF Connect
  <2> DEFINE old == [client[c] EXCEPT !.connectionId = id, !.peer = Server]
             made == [NoConnection EXCEPT !.exists = TRUE, !.peer = Server, !.connectionId = id]
             new == IF client[c].exists THEN old ELSE made
  <2>3. client' = [client EXCEPT ![c] = new]
    BY <1>0, <2>1
  <2>4. client[c].exists => ClientConnection(old)
    BY <1>0 DEF ClientConnection, Connection, Keys
  <2>5. ClientConnection(made)
    BY KeysType, TicksType DEF NoConnection, ClientConnection, Connection, Keys
  <2> HIDE DEF old, made
  <2>6. ClientConnection(new)
    BY Zenon, <2>4, <2>5
  <2> HIDE DEF new
  <2> QED BY Zenon, <1>0, <2>2, <2>3, <2>6, ClientAssigned
<1>4. CASE Disconnect(c)
  <2> DEFINE new == [client[c] EXCEPT !.isDisconnectRequested = TRUE]
  <2>1. client' = [client EXCEPT ![c] = new] /\ UNCHANGED <<server, net, ran, conditions, heard>>
    BY <1>0, <1>4 DEF Disconnect
  <2>2. ClientConnection(new)
    BY <1>0 DEF ClientConnection, Connection
  <2> HIDE DEF new
  <2> QED BY Zenon, <1>0, <2>1, <2>2, ClientAssigned
<1>5. CASE RestartClient(c)
  <2>1. /\ client' = [client EXCEPT ![c] = NoConnection]
        /\ UNCHANGED <<server, ran, conditions, heard>> /\ Send(Stopped(c, client[c]))
    BY Zenon, <1>5 DEF RestartClient
  <2>2. \A m \in net' : Between(m)
    BY Zenon, <1>0, <1>1, <2>1, SendKeeps
  <2> QED BY Zenon, <1>0, <2>1, <2>2, NoConnectionIs, ClientAssigned
<1> QED BY <1>2, <1>3, <1>4, <1>5

\* a TypeA at a client
LEMMA ClientReceiveStep ==
  ASSUME SessionInv, NEW m \in net, ClientReceive(m)
  PROVE  SessionInv' /\ \A k \in Keys : InTurn(k)
<1> DEFINE c == m.to
           h == Heard(client[c])
<1>0. /\ client \in [Clients -> Connection] /\ c \in Clients /\ ClientConnection(client[c])
      /\ client[c] \in Connection /\ (\A n \in net : Between(n)) /\ ran \subseteq Endpoints
  BY DEF SessionInv, ClientReceive
<1>1. UNCHANGED <<server, ran, conditions, heard>>
  BY DEF ClientReceive
<1>2. CASE Take(m, {}) /\ client' = client
  <2>1. \A n \in net' : Between(n)
    BY Zenon, <1>0, <1>2, TakeOnly
  <2>2. SessionInv'
    BY Zenon, <1>1, <1>2, <2>1 DEF SessionInv
  <2> QED BY Zenon, <1>1, <2>2, Untold
<1>3. ASSUME NEW answers \in Answers(c, h), client[c].exists, Take(m, answers),
             client' = [client EXCEPT ![c] = Answering(h, answers)]
      PROVE  SessionInv' /\ \A k \in Keys : InTurn(k)
  <2> DEFINE a == Answering(h, answers)
  <2>1. ClientConnection(h) /\ h.exists /\ h \in Connection
    BY <1>0, <1>3, HeardIs DEF ClientConnection
  <2> HIDE DEF h
  <2>2. (\A n \in answers : Between(n)) /\ a \in {h, Buffered(h)}
    <3>1. h.peer = Server
      BY <2>1 DEF ClientConnection
    <3> QED BY Zenon, <1>0, <1>3, <2>1, <3>1, AnswersAre
  <2>3. \A n \in net' : Between(n)
    BY Zenon, <1>0, <1>3, <2>2, TakeKeeps
  <2>4. client' = [client EXCEPT ![c] = a]
    BY Zenon, <1>3
  <2> HIDE DEF a, c
  <2>5. ClientConnection(a)
    BY <2>1, <2>2, BufferedIs DEF ClientConnection
  <2> QED BY Zenon, <1>0, <1>1, <2>3, <2>4, <2>5, ClientAssigned
<1>4. \/ Take(m, {}) /\ client' = client
      \/ /\ client[c].exists
         /\ \E answers \in Answers(c, h) :
              Take(m, answers) /\ client' = [client EXCEPT ![c] = Answering(h, answers)]
  BY Zenon DEF ClientReceive
<1> HIDE DEF h
<1> QED BY Zenon, <1>2, <1>3, <1>4

\* the server's timeouts and erasures
LEMMA ProcessServerStep ==
  ASSUME SessionInv, ProcessServer
  PROVE  SessionInv' /\ \A k \in Keys : InTurn(k)
<1>0. /\ server \in [Keys -> Connection] /\ \A j \in Keys : ServerConnection(server[j])
      /\ (\A n \in net : Between(n)) /\ heard \in [Keys -> SUBSET Clients]
      /\ ran \subseteq Endpoints
  BY DEF SessionInv
<1>1. /\ server' = [k \in Keys |-> Buffered(Processed(Server, server[k]))]
      /\ heard' = [k \in Keys |-> IF server'[k].exists THEN heard[k] ELSE {}]
      /\ Send(UNION {Sent(Server, server[k]) : k \in Keys})
      /\ ran' \in {ran \cup {Server}, {}} /\ client' = client /\ conditions' = conditions
  BY Zenon DEF ProcessServer
<1>2. ASSUME NEW k \in Keys
      PROVE  ServerConnection(Buffered(Processed(Server, server[k]))) /\ InTurn(k)
  <2> DEFINE p == Processed(Server, server[k])
  <2>1. /\ ServerConnection(p)
        /\ server[k].told = "onConnected" => p.told \in {"onConnected", "onDisconnected"}
        /\ server[k].told = "onDisconnected" => p.told # "onConnected"
    BY Zenon, <1>0, ProcessedByServer
  <2>2. server'[k] = Buffered(p)
    BY <1>1
  <2> HIDE DEF p
  <2>3. ServerConnection(Buffered(p)) /\ Buffered(p).told = p.told
    BY <2>1, BufferedIs DEF ServerConnection
  <2>4. InTurn(k)
    BY <2>1, <2>2, <2>3 DEF InTurn
  <2> QED BY <2>3, <2>4 DEF p
<1>3. server' \in [Keys -> Connection] /\ \A k \in Keys : ServerConnection(server'[k])
  <2>1. \A k \in Keys : Buffered(Processed(Server, server[k])) \in Connection
    BY Zenon, <1>2 DEF ServerConnection
  <2> QED BY <1>1, <1>2, <2>1
<1>4. heard' \in [Keys -> SUBSET Clients]
  <2>1. \A k \in Keys : (IF server'[k].exists THEN heard[k] ELSE {}) \in SUBSET Clients
    BY <1>0
  <2> QED BY Zenon, <1>1, <2>1
<1>5. \A n \in net' : Between(n)
  <2>1. \A n \in UNION {Sent(Server, server[k]) : k \in Keys} : Between(n)
    BY Zenon, <1>0, SentByServer
  <2> QED BY Zenon, <1>0, <1>1, <2>1, SendKeeps
<1>6. ran' \subseteq Endpoints
  BY <1>0, <1>1 DEF Endpoints
<1>7. SessionInv'
  BY Zenon, <1>1, <1>3, <1>4, <1>5, <1>6 DEF SessionInv
<1> QED BY Zenon, <1>2, <1>7

\* the server is stopped or killed, and started again
LEMMA RestartServerStep ==
  ASSUME SessionInv, RestartServer
  PROVE  SessionInv' /\ \A k \in Keys : InTurn(k)
<1>0. /\ server \in [Keys -> Connection] /\ \A j \in Keys : ServerConnection(server[j])
      /\ \A n \in net : Between(n)
  BY DEF SessionInv
<1>1. /\ server' = [k \in Keys |-> NoConnection] /\ heard' = [k \in Keys |-> {}]
      /\ Send(UNION {Stopped(Server, server[k]) : k \in Keys})
      /\ conditions = "bad" /\ UNCHANGED <<client, ran, conditions>>
  BY Zenon DEF RestartServer
<1>2. server' \in [Keys -> Connection] /\ heard' \in [Keys -> SUBSET Clients]
  BY <1>1, NoConnectionIs
<1>3. \A k \in Keys : server'[k] = NoConnection
  BY <1>1
<1>4. \A k \in Keys : ServerConnection(server'[k])
  BY Zenon, <1>3, NoConnectionIs
<1>5. \A n \in net' : Between(n)
  <2>1. \A n \in UNION {Stopped(Server, server[k]) : k \in Keys} : Between(n)
    BY Zenon, <1>0, SentByServer
  <2> QED BY Zenon, <1>0, <1>1, <2>1, SendKeeps
<1>6. SessionInv'
  BY Zenon, <1>1, <1>2, <1>4, <1>5 DEF SessionInv
<1>7. ASSUME NEW k \in Keys PROVE InTurn(k)
  <2>1. server'[k].told # "onConnected"
    BY <1>3, NoConnectionIs
  <2> QED BY Zenon, <1>1, <2>1 DEF InTurn
<1> QED BY Zenon, <1>6, <1>7

\* time passes for all connections
LEMMA TickStep ==
  ASSUME SessionInv, Tick
  PROVE  SessionInv' /\ \A k \in Keys : InTurn(k)
<1>0. /\ client \in [Clients -> Connection] /\ \A c \in Clients : ClientConnection(client[c])
      /\ server \in [Keys -> Connection] /\ \A j \in Keys : ServerConnection(server[j])
  BY DEF SessionInv
<1>1. /\ client' = [c \in Clients |-> Aged(client[c])]
      /\ server' = [k \in Keys |-> Aged(server[k])]
      /\ ran' = {} /\ UNCHANGED <<net, conditions, heard>>
  BY Zenon DEF Tick
<1>2. ASSUME NEW c \in Clients PROVE ClientConnection(Aged(client[c]))
  BY <1>0, AgedIs DEF ClientConnection
<1>3. ASSUME NEW k \in Keys
      PROVE  ServerConnection(Aged(server[k])) /\ Aged(server[k]).told = server[k].told
  <2>1. server[k] \in Connection /\ ServerConnection(server[k])
    BY <1>0
  <2> QED BY <2>1, AgedIs DEF ServerConnection
<1>4. client' \in [Clients -> Connection] /\ \A c \in Clients : ClientConnection(client'[c])
  <2>1. \A c \in Clients : Aged(client[c]) \in Connection
    BY Zenon, <1>2 DEF ClientConnection
  <2> QED BY <1>1, <1>2, <2>1
<1>5. server' \in [Keys -> Connection] /\ \A k \in Keys : ServerConnection(server'[k])
  <2>1. \A k \in Keys : Aged(server[k]) \in Connection
    BY Zenon, <1>3 DEF ServerConnection
  <2> QED BY <1>1, <1>3, <2>1
<1>6. ran' \subseteq Endpoints
  BY <1>1
<1>7. SessionInv'
  BY Zenon, <1>1, <1>4, <1>5, <1>6 DEF SessionInv
<1>8. \A k \in Keys : server'[k].told = server[k].told
  BY <1>1, <1>3
<1> QED BY Zenon, <1>7, <1>8, Untold

\* every step keeps the invariant and tells the server's application in turn
LEMMA SessionStep ==
  ASSUME SessionInv, [Next]_vars
  PROVE  SessionInv' /\ \A k \in Keys : InTurn(k)
<1>1. CASE Receive
  BY Zenon, <1>1, ReceiveDisconnectStep, ServerReceiveStep, ClientReceiveStep DEF Receive
<1>2. CASE Lose
  <2>1. UNCHANGED <<client, server, ran, conditions, heard>> /\ net' \subseteq net
    BY <1>2 DEF Lose
  <2>2. SessionInv'
    BY Zenon, <2>1 DEF SessionInv
  <2> QED BY Zenon, <2>1, <2>2, Untold
<1>3. CASE ConditionsImprove
  <2>1. UNCHANGED <<client, server, ran, net, heard>> /\ conditions' \in {"good", "bad"}
    BY <1>3 DEF ConditionsImprove
  <2>2. SessionInv'
    BY Zenon, <2>1 DEF SessionInv
  <2> QED BY Zenon, <2>1, <2>2, Untold
<1>4. CASE UNCHANGED vars
  <2>1. UNCHANGED <<client, server, net, ran, conditions, heard>>
    BY <1>4 DEF vars
  <2>2. SessionInv'
    BY Zenon, <2>1 DEF SessionInv
  <2> QED BY Zenon, <2>1, <2>2, Untold
<1> QED BY Zenon, <1>1, <1>2, <1>3, <1>4, ClientStep, ProcessServerStep, RestartServerStep,
           TickStep DEF Next

-----------------------------------------------------------------------------
(* The theorems                                                            *)

\* The inductive invariant holds of every behaviour of clients and server.
THEOREM SessionInvariant == Spec => []SessionInv
<1>1. Init => SessionInv
  <2> SUFFICES ASSUME Init PROVE SessionInv
    OBVIOUS
  <2>1. /\ client \in [Clients -> Connection] /\ server \in [Keys -> Connection]
        /\ heard \in [Keys -> SUBSET Clients]
        /\ \A c \in Clients : client[c] = NoConnection
        /\ \A k \in Keys : server[k] = NoConnection
    BY NoConnectionIs DEF Init
  <2>2. net = {} /\ ran \subseteq Endpoints /\ conditions \in {"good", "bad"}
    BY DEF Init
  <2> QED BY Zenon, <2>1, <2>2, NoConnectionIs DEF SessionInv
<1>2. SessionInv /\ [Next]_vars => SessionInv'
  BY SessionStep
<1> QED BY <1>1, <1>2, PTL DEF Spec

\* All fields keep their types, and what process() and stop() send is addressed to
\* an endpoint, never to the peer of a connection that is gone.
THEOREM SessionType == Spec => []SessionTypeOK
<1>1. SessionInv => SessionTypeOK
  BY Zenon DEF SessionInv, SessionTypeOK, Between
<1> QED BY <1>1, SessionInvariant, PTL

\* The server's application hears onConnected and onDisconnected of a connection in
\* turn, and of the end of every connection it was told of before it is erased.
THEOREM ServerTold == Spec => ServerToldInTurn
<1>1. SessionInv /\ [Next]_vars => [\A k \in Keys : InTurn(k)]_vars
  BY SessionStep
<1> QED BY <1>1, SessionInvariant, PTL DEF Spec, ServerToldInTurn, InTurn
=============================================================================
