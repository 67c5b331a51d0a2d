-------------------------------- MODULE Impl --------------------------------
(***************************************************************************)
(* The two threads of a UDSPSocket: the application's, which calls send,   *)
(* disconnect, connect and stop, and the network thread, which runs        *)
(* process().  They meet in the mutex, in the queue of commands and in the *)
(* connection itself; onUdpReceived and processConnection run without the  *)
(* mutex, process_ts with it, and all of them call back the application.   *)
(* One connection; when a peer is silent or a packet is acknowledged is    *)
(* left open.                                                              *)
(***************************************************************************)
EXTENDS Naturals, Sequences

CONSTANTS
  Roles,      \* values of isServer
  SendsIn,    \* callbacks in which the application calls send
  MaxSends    \* bound of the model: calls of send

Callbacks == {"onConnected", "onDisconnected", "onReceived", "onReceived d",
              "onDelivered s", "onDelivered t", "onDelivered d"}

ASSUME ImplAssumption ==
  Roles \subseteq BOOLEAN /\ SendsIn \subseteq Callbacks /\ MaxSends \in Nat

VARIABLES
  isServer, isRunning,
  owner,       \* the thread that holds the mutex
  exists, isConnected, isDisconnectRequested,
  isErasing,   \* nextEraseTick_us # INT64_MAX
  commands,    \* the queue of commands; a command is the number of its send
  fifo,        \* packets of the tx streams that are not acknowledged
  app, net,    \* where the threads are
  todo,        \* callbacks of the network thread's present step, <<callback, packet>>
  pointer,     \* what the application has: no Connection*, one, or one it called
               \* disconnect for and does not use any more
  sending,     \* the number of the call of send in progress in its thread
  crashed,     \* what was going on when undefined behaviour ended the program
  calls,       \* history: calls of send so far
  reports,     \* history: packets onDelivered was called for
  excused      \* history: calls of send before the connection was last lost or closed

connection == <<exists, isConnected, isDisconnectRequested, isErasing>>
history == <<calls, reports, excused>>
vars == <<isServer, isRunning, owner, connection, commands, fifo, app, net, todo, pointer,
          sending, crashed, history>>

Init ==
  /\ isServer \in Roles
  /\ isRunning = TRUE
  /\ owner = "nobody"
  /\ exists = FALSE /\ isConnected = FALSE /\ isDisconnectRequested = FALSE /\ isErasing = FALSE
  /\ commands = <<>> /\ fifo = <<>>
  /\ app = "idle" /\ net = "receive"
  /\ todo = <<>>
  /\ pointer = "null" /\ sending = 0
  /\ crashed = "no"
  /\ calls = 0 /\ reports = <<>> /\ excused = 0

Runs == crashed = "no"

Delivered(status, packets) == [i \in 1..Len(packets) |-> <<status, packets[i]>>]

\* Connection::onDisconnected reports every packet not acknowledged, and what has
\* arrived of a packet, if anything; then its caller reports the loss of the
\* connection.
Disconnected ==
  {Delivered("onDelivered d", fifo) \o partly \o <<<<"onDisconnected", 0>>>> :
     partly \in {<<>>, <<<<"onReceived d", 0>>>>}}

-----------------------------------------------------------------------------
(* The application's thread *)

\* The network thread is in code that reads the streams without the mutex.
NetIsInside == net \in {"receiving", "looping"}

CallSend ==
  /\ Runs /\ app = "idle" /\ pointer = "valid" /\ calls < MaxSends
  /\ app' = "send" /\ calls' = calls + 1 /\ sending' = calls + 1
  /\ UNCHANGED <<isServer, isRunning, owner, connection, commands, fifo, net, todo, pointer,
                 crashed, reports, excused>>

LockToSend ==
  /\ Runs /\ app = "send" /\ owner = "nobody"
  /\ owner' = "app" /\ app' = "emplace"
  /\ UNCHANGED <<isServer, isRunning, connection, commands, fifo, net, todo, pointer, sending,
                 crashed, history>>

Emplace ==
  /\ Runs /\ app = "emplace"
  /\ commands' = Append(commands, sending)
  /\ owner' = "nobody" /\ app' = "idle" /\ sending' = 0
  /\ UNCHANGED <<isServer, isRunning, connection, fifo, net, todo, pointer, crashed, history>>

\* disconnect() looks at the connection before it takes the mutex.
CallDisconnect ==
  /\ Runs /\ app = "idle" /\ pointer = "valid" /\ ~isServer /\ isConnected
  /\ app' = "disconnect" /\ pointer' = "closed"
  /\ UNCHANGED <<isServer, isRunning, owner, connection, commands, fifo, net, todo, sending,
                 crashed, history>>

RequestDisconnect ==
  /\ Runs /\ app = "disconnect" /\ owner = "nobody"
  /\ isDisconnectRequested' = exists
  /\ app' = "idle"
  /\ UNCHANGED <<isServer, isRunning, owner, exists, isConnected, isErasing, commands, fifo,
                 net, todo, pointer, sending, crashed, history>>

\* connect() when there is no connection (yet, or after disconnect)
Connect ==
  /\ Runs /\ app = "idle" /\ owner = "nobody" /\ ~isServer /\ ~exists /\ todo = <<>>
  /\ exists' = TRUE
  /\ pointer' = "null"
  /\ UNCHANGED <<isServer, isRunning, owner, isConnected, isDisconnectRequested, isErasing,
                 commands, fifo, app, net, todo, sending, crashed, history>>

\* connect() to another address: the old connection is dropped under the mutex
\* and without the callback, while the network thread may be inside it.
ConnectElsewhere ==
  /\ Runs /\ app = "idle" /\ owner = "nobody" /\ pointer = "valid" /\ ~isServer
  /\ \/ /\ commands' = <<>> /\ fifo' = <<>>
        /\ reports' = reports \o fifo
        /\ excused' = calls
        /\ UNCHANGED crashed
     \/ /\ NetIsInside
        /\ crashed' = "connect"
        /\ UNCHANGED <<commands, fifo, reports, excused>>
  /\ UNCHANGED <<isServer, isRunning, owner, connection, app, net, todo, pointer, sending, calls>>

\* stop(): the thread is joined before the mutex is taken.
CallStop ==
  /\ Runs /\ app = "idle"
  /\ isRunning' = FALSE
  /\ app' = "join"
  /\ UNCHANGED <<isServer, owner, connection, commands, fifo, net, todo, pointer, sending,
                 crashed, history>>

Join_Locked ==
  /\ Runs /\ app = "join" /\ owner = "nobody"
  /\ owner' = "app" /\ app' = "interrupt"
  /\ UNCHANGED <<isServer, isRunning, connection, commands, fifo, net, todo, pointer, sending,
                 crashed, history>>

Join ==
  /\ Runs /\ app = "join" /\ net = "ended" /\ owner = "nobody"
  /\ owner' = "app" /\ app' = "interrupt"
  /\ UNCHANGED <<isServer, isRunning, connection, commands, fifo, net, todo, pointer, sending,
                 crashed, history>>

Interrupt ==
  /\ Runs /\ app = "interrupt" /\ net = "ended"
  /\ IF isConnected
     THEN /\ isConnected' = FALSE
          /\ commands' = <<>> /\ fifo' = <<>>
          /\ reports' = reports \o fifo /\ excused' = calls
     ELSE UNCHANGED <<isConnected, commands, fifo, reports, excused>>
  /\ owner' = "nobody" /\ app' = "stopped"
  /\ UNCHANGED <<isServer, isRunning, exists, isDisconnectRequested, isErasing, net, todo,
                 pointer, sending, crashed, calls>>

-----------------------------------------------------------------------------
(* The network thread *)

\* onUdpReceived: a TypeA.  Some of the packets are acknowledged, in order, and
\* reported; a packet may be handed over.  A server makes the connection, and
\* does not serve one that waits to be erased.
ReceivePacket ==
  /\ Runs /\ net = "receive"
  /\ exists \/ isServer
  /\ ~(isServer /\ isErasing)
  /\ exists' = TRUE /\ isConnected' = TRUE
  /\ \E acked \in 0..Len(fifo), received \in {<<>>, <<<<"onReceived", 0>>>>} :
       /\ todo' = (IF isConnected THEN <<>> ELSE <<<<"onConnected", 0>>>>)
                    \o Delivered("onDelivered s", SubSeq(fifo, 1, acked)) \o received
       /\ fifo' = SubSeq(fifo, acked + 1, Len(fifo))
  /\ net' = "receiving"
  /\ UNCHANGED <<isServer, isRunning, owner, isDisconnectRequested, isErasing, commands, app,
                 pointer, sending, crashed, history>>

\* onUdpReceived: a Disconnect.  commands is cleared without the mutex: when the
\* application is adding a command, either may be lost or the program crashes.
ReceiveDisconnect ==
  /\ Runs /\ net = "receive" /\ exists /\ ~isErasing
  /\ isErasing' = TRUE /\ isConnected' = FALSE
  /\ \/ commands' = <<>> /\ UNCHANGED crashed
     \/ app = "emplace" /\ UNCHANGED <<commands, crashed>>
     \/ app = "emplace" /\ crashed' = "Disconnect" /\ UNCHANGED commands
  /\ todo' \in Disconnected /\ fifo' = <<>>
  /\ net' = "receiving"
  /\ UNCHANGED <<isServer, isRunning, owner, exists, isDisconnectRequested, app, pointer, sending,
                 history>>

Received ==
  /\ Runs /\ net \in {"receive", "receiving"} /\ todo = <<>>
  /\ net' \in IF net = "receiving" THEN {"receive", "lock"} ELSE {"lock"}
  /\ UNCHANGED <<isServer, isRunning, owner, connection, commands, fifo, app, todo, pointer,
                 sending, crashed, history>>

Lock_Skipped ==
  /\ Runs /\ net = "lock"
  /\ net' = "process_ts" /\ UNCHANGED owner
  /\ UNCHANGED <<isServer, isRunning, connection, commands, fifo, app, todo, pointer, sending,
                 crashed, history>>

Lock ==
  /\ Runs /\ net = "lock" /\ owner = "nobody"
  /\ net' = "process_ts" /\ owner' = "net"
  /\ UNCHANGED <<isServer, isRunning, connection, commands, fifo, app, todo, pointer, sending,
                 crashed, history>>

\* doCommands puts the packets into the streams; it reads commands, which the
\* application must not be changing.
DoCommands ==
  /\ Runs /\ net = "process_ts"
  /\ IF exists
     THEN /\ fifo' = fifo \o commands /\ commands' = <<>>
          /\ crashed' = IF app = "emplace" THEN "doCommands" ELSE "no"
     ELSE UNCHANGED <<fifo, commands, crashed>>
  /\ net' = "check"
  /\ UNCHANGED <<isServer, isRunning, owner, connection, app, todo, pointer, sending, history>>

Drop_KeepsFifo == commands' = <<>> /\ todo' \in Disconnected /\ UNCHANGED fifo

Drop == commands' = <<>> /\ fifo' = <<>> /\ todo' \in Disconnected

\* The rest of process_ts: a requested disconnect, a timeout, the erasure of a
\* lost connection.
Close ==
  /\ isDisconnectRequested
  /\ Drop
  /\ exists' = FALSE /\ isConnected' = FALSE /\ isDisconnectRequested' = FALSE /\ isErasing' = FALSE

TimeOut_Erases ==
  /\ ~isDisconnectRequested /\ ~isErasing /\ isConnected
  /\ Drop
  /\ exists' = FALSE /\ isConnected' = FALSE /\ isErasing' = FALSE
  /\ UNCHANGED isDisconnectRequested

TimeOut ==
  /\ ~isDisconnectRequested /\ ~isErasing /\ isConnected
  /\ Drop
  /\ isErasing' = TRUE /\ isConnected' = FALSE
  /\ UNCHANGED <<exists, isDisconnectRequested>>

\* What nextEraseTick_us relies on: a call that began before the application was
\* told of the loss has returned two seconds later.  No condition of the code
\* sees to it.
NoCallLastsTwoSeconds == app \in {"idle", "join"}

Erase ==
  /\ ~isDisconnectRequested /\ isErasing /\ NoCallLastsTwoSeconds
  /\ isErasing' = FALSE /\ isConnected' = FALSE
  /\ exists' = ~isServer
  /\ IF isServer THEN commands' = <<>> /\ fifo' = <<>> ELSE UNCHANGED <<commands, fifo>>
  /\ UNCHANGED <<isDisconnectRequested, todo>>

CheckConnection_ReportsLate ==
  /\ Runs /\ net = "check"
  /\ \/ exists /\ (Close \/ TimeOut \/ Erase)
     \/ /\ ~(exists /\ isDisconnectRequested)
        /\ todo' = Delivered("onDelivered t", fifo) /\ fifo' = <<>>
        /\ UNCHANGED <<connection, commands>>
  /\ net' = "checked"
  /\ UNCHANGED <<isServer, isRunning, owner, app, pointer, sending, crashed, history>>

CheckConnection ==
  /\ Runs /\ net = "check"
  /\ \/ exists /\ (Close \/ TimeOut \/ Erase)
     \/ ~(exists /\ isDisconnectRequested) /\ UNCHANGED <<connection, commands, fifo, todo>>
  /\ net' = "checked"
  /\ UNCHANGED <<isServer, isRunning, owner, app, pointer, sending, crashed, history>>

Unlock ==
  /\ Runs /\ net = "checked" /\ todo = <<>>
  /\ net' = "loop" /\ owner' = "nobody"
  /\ UNCHANGED <<isServer, isRunning, connection, commands, fifo, app, todo, pointer, sending,
                 crashed, history>>

\* processConnection and the keep-alive: packets that have timed out, or are not
\* reliable and written, are reported.
ProcessConnection ==
  /\ Runs /\ net = "loop"
  /\ \E done \in 0..Len(fifo), status \in {"onDelivered s", "onDelivered t"} :
       /\ todo' = Delivered(status, SubSeq(fifo, 1, done))
       /\ fifo' = SubSeq(fifo, done + 1, Len(fifo))
  /\ net' = "looping"
  /\ UNCHANGED <<isServer, isRunning, owner, connection, commands, app, pointer, sending, crashed,
                 history>>

While ==
  /\ Runs /\ net = "looping" /\ todo = <<>>
  /\ net' = IF isRunning THEN "receive" ELSE "ended"
  /\ UNCHANGED <<isServer, isRunning, owner, connection, commands, fifo, app, todo, pointer,
                 sending, crashed, history>>

\* The next callback.  The application notes the connection in onConnected and
\* drops it in onDisconnected, as the example client does; in the callbacks of
\* SendsIn it may call send for that connection, which takes the mutex.
Callback ==
  /\ Runs /\ todo # <<>>
  /\ LET callback == Head(todo)[1]
         packet   == Head(todo)[2]
     IN  /\ pointer' = IF pointer # "closed" /\ callback = "onConnected" THEN "valid"
                       ELSE IF pointer # "closed" /\ callback = "onDisconnected" THEN "null"
                       ELSE pointer
         /\ reports' = IF packet > 0 THEN Append(reports, packet) ELSE reports
         /\ excused' = IF callback = "onDisconnected" THEN calls ELSE excused
         /\ \/ /\ callback \in SendsIn /\ pointer' = "valid" /\ calls < MaxSends
               /\ owner = "nobody"
               /\ calls' = calls + 1 /\ commands' = Append(commands, calls + 1)
            \/ UNCHANGED <<calls, commands>>
  /\ todo' = Tail(todo)
  /\ UNCHANGED <<isServer, isRunning, owner, connection, fifo, app, net, sending, crashed>>

-----------------------------------------------------------------------------

AppNext == CallSend \/ LockToSend \/ Emplace \/ CallDisconnect \/ RequestDisconnect
           \/ Connect \/ ConnectElsewhere \/ CallStop \/ Join \/ Interrupt

NetNext == ReceivePacket \/ ReceiveDisconnect \/ Received \/ Lock \/ DoCommands
           \/ CheckConnection \/ Unlock \/ ProcessConnection \/ While \/ Callback

Next == AppNext \/ NetNext

Spec == Init /\ [][Next]_vars

\* Both threads run on, and neither is kept from the mutex for ever: the network
\* thread waits up to 10 ms for datagrams without it in every round.  Datagrams
\* do not keep it in onUdpReceived for ever.
FairSpec ==
  /\ Spec
  /\ WF_vars(NetNext) /\ WF_vars(Received) /\ SF_vars(Received /\ net' = "lock") /\ SF_vars(Lock)
  /\ SF_vars(LockToSend) /\ WF_vars(Emplace) /\ SF_vars(RequestDisconnect)
  /\ WF_vars(Join) /\ WF_vars(Interrupt)

-----------------------------------------------------------------------------
(* Properties *)

PacketsIn(s) == {s[i] : i \in 1..Len(s)}

\* Every call of the application returns: no call waits for the mutex, or stop()
\* for the thread, for ever (unless the program crashes).
CallsReturn == app # "idle" ~> app \in {"idle", "stopped"} \/ ~Runs

\* No packet is reported twice and none is forgotten: a packet send() has taken is
\* in commands, in its stream, or reported, or the application has been told
\* that the connection is lost (or closed it) since.
SendsAccounted ==
  /\ \A i, j \in 1..Len(reports) : reports[i] = reports[j] => i = j
  /\ Runs => \A n \in (1..calls) \ {sending} :
       \/ n \in PacketsIn(commands) \cup PacketsIn(fifo) \cup PacketsIn(reports)
       \/ n <= excused
       \/ \E i \in 1..Len(todo) : todo[i][2] = n \/ todo[i][1] = "onDisconnected"

\* The queue of commands and the streams are not touched by both threads at once,
\* except where a Disconnect arrives or connect() changes the address.
SharedStateGuarded == crashed \in {"no", "Disconnect", "connect"}

\* A call never works on a connection that has been erased, provided that no call
\* takes longer than the two seconds after which process_ts erases it.
CallsUseConnection == app \in {"send", "emplace"} => exists

\* The network thread holds the mutex in no callbacks but those that tell of a
\* lost connection, onDisconnected and the reports with 'd' before it.  In all the
\* others send and setTxStreamPriority can take the mutex.
CallbacksUnlocked ==
  todo # <<>> /\ owner = "net"
    => Head(todo)[1] \in {"onDisconnected", "onDelivered d", "onReceived d"}

\* UdspSocket.hpp, of send: "Calling it in the onDisconnected callback causes a
\* deadlock!"  In the callbacks the note does not name, it can take the mutex.
SendsInCallbacksReturn ==
  todo # <<>> /\ Head(todo)[1] # "onDisconnected" => owner # "net"
=============================================================================
