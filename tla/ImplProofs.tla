----------------------------- MODULE ImplProofs -----------------------------
(***************************************************************************)
(* Proofs about the two threads of a UDSPSocket, for any number of calls   *)
(* and packets.                                                            *)
(***************************************************************************)
EXTENDS Impl, Integers, TLAPS

\* Who is in a critical section holds the mutex, and the network thread holds it
\* only there.
MutexInv ==
  /\ app \in {"emplace", "interrupt"} => owner = "app"
  /\ owner = "net" <=> net \in {"process_ts", "check", "checked"}
  /\ SharedStateGuarded

\* each step of a thread keeps to the mutex
LEMMA AppMutex ==
  ASSUME MutexInv, AppNext
  PROVE  MutexInv'
<1> USE DEF MutexInv, SharedStateGuarded, Runs
<1>1. CASE CallSend
  BY <1>1 DEF CallSend
<1>2. CASE LockToSend
  BY <1>2 DEF LockToSend
<1>3. CASE Emplace
  BY <1>3 DEF Emplace
<1>4. CASE CallDisconnect
  BY <1>4 DEF CallDisconnect
<1>5. CASE RequestDisconnect
  BY <1>5 DEF RequestDisconnect
<1>6. CASE Connect
  BY <1>6 DEF Connect
<1>7. CASE ConnectElsewhere
  BY <1>7 DEF ConnectElsewhere
<1>8. CASE CallStop
  BY <1>8 DEF CallStop
<1>9. CASE Join
  BY <1>9 DEF Join
<1>10. CASE Interrupt
  BY <1>10 DEF Interrupt
<1> QED
  BY <1>1, <1>2, <1>3, <1>4, <1>5, <1>6, <1>7, <1>8, <1>9, <1>10 DEF AppNext

LEMMA NetMutex ==
  ASSUME MutexInv, NetNext
  PROVE  MutexInv'
<1> USE DEF MutexInv, SharedStateGuarded, Runs
<1>1. CASE ReceivePacket
  BY <1>1 DEF ReceivePacket
<1>2. CASE ReceiveDisconnect
  BY <1>2 DEF ReceiveDisconnect
<1>3. CASE Received
  BY <1>3 DEF Received
<1>4. CASE Lock
  BY <1>4 DEF Lock
<1>5. CASE DoCommands
  BY <1>5 DEF DoCommands
<1>6. CASE CheckConnection
  BY <1>6 DEF CheckConnection
<1>7. CASE Unlock
  BY <1>7 DEF Unlock
<1>8. CASE ProcessConnection
  BY <1>8 DEF ProcessConnection
<1>9. CASE While
  BY <1>9 DEF While
<1>10. CASE Callback
  BY <1>10 DEF Callback
<1> QED
  BY <1>1, <1>2, <1>3, <1>4, <1>5, <1>6, <1>7, <1>8, <1>9, <1>10 DEF NetNext

LEMMA MutexInvariant == Spec => []MutexInv
<1>1. Init => MutexInv
  BY DEF Init, MutexInv, SharedStateGuarded
<1>2. MutexInv /\ [Next]_vars => MutexInv'
  <2>1. MutexInv /\ UNCHANGED vars => MutexInv'
    BY DEF vars, MutexInv, SharedStateGuarded
  <2> QED BY <2>1, AppMutex, NetMutex DEF Next
<1> QED BY <1>1, <1>2, PTL DEF Spec

\* send_ts and doCommands never touch the queue of commands at the same time: of
\* the races only those of a Disconnect and of connect() remain.
THEOREM Guarded == Spec => []SharedStateGuarded
<1>1. MutexInv => SharedStateGuarded
  BY DEF MutexInv
<1> QED BY <1>1, MutexInvariant, PTL

-----------------------------------------------------------------------------
(* The callbacks that are due                                              *)

Due == Callbacks \X Nat

LostCallbacks == {"onDelivered d", "onReceived d", "onDisconnected"}

HasCall(q, c) == \E i \in 1..Len(q) : q[i][1] = c
OnlyLost(q) == \A i \in 1..Len(q) : q[i][1] \in LostCallbacks

ListInv ==
  /\ fifo \in Seq(Nat) /\ commands \in Seq(Nat) /\ todo \in Seq(Due)
  /\ calls \in Nat /\ sending \in Nat

\* Callbacks are due only inside onUdpReceived, process_ts and processConnection;
\* those of process_ts tell of a lost connection.
TodoInv ==
  /\ net \notin {"receiving", "checked", "looping"} => todo = <<>>
  /\ net = "checked" => OnlyLost(todo)

\* the callbacks for some packets, all with one status
LEMMA DeliveredCalls ==
  ASSUME NEW status \in Callbacks, NEW packets \in Seq(Nat)
  PROVE  /\ Delivered(status, packets) \in Seq(Due)
         /\ status \in LostCallbacks => OnlyLost(Delivered(status, packets))
         /\ \A c : c # status => ~HasCall(Delivered(status, packets), c)
<1>1. \A i \in 1..Len(packets) :
        <<status, packets[i]>> \in Due /\ <<status, packets[i]>>[1] = status
  BY DEF Due
<1>2. /\ Delivered(status, packets) \in Seq(Due)
      /\ Len(Delivered(status, packets)) = Len(packets)
      /\ \A i \in 1..Len(packets) : Delivered(status, packets)[i][1] = status
  BY <1>1 DEF Delivered
<1> QED BY <1>2 DEF OnlyLost, HasCall

LEMMA SingleCall ==
  ASSUME NEW c \in Callbacks
  PROVE  <<<<c, 0>>>> \in Seq(Due) /\ Len(<<<<c, 0>>>>) = 1 /\ <<<<c, 0>>>>[1][1] = c
<1> DEFINE x == <<c, 0>>
<1>1. x \in Due /\ x[1] = c
  BY DEF Due
<1> HIDE DEF x
<1>2. <<x>> \in Seq(Due) /\ Len(<<x>>) = 1 /\ <<x>>[1] = x
  BY <1>1
<1>3. <<x>>[1][1] = c
  BY <1>1, <1>2
<1> QED BY <1>2, <1>3 DEF x

LEMMA ConcatLen ==
  ASSUME NEW d \in Seq(Due), NEW e \in Seq(Due)
  PROVE  d \o e \in Seq(Due) /\ Len(d) \in Nat /\ Len(d \o e) = Len(d) + Len(e)
OBVIOUS

\* a list of callbacks with one more at its end
LEMMA LastCall ==
  ASSUME NEW d \in Seq(Due), NEW e \in Seq(Due), Len(e) = 1
  PROVE  /\ d \o e \in Seq(Due)
         /\ HasCall(d \o e, e[1][1])
         /\ OnlyLost(d) /\ e[1][1] \in LostCallbacks => OnlyLost(d \o e)
<1> DEFINE s == d \o e
           n == Len(d)
<1>4. s \in Seq(Due) /\ n \in Nat /\ Len(s) = n + 1
  BY ConcatLen
<1>5. \A i \in 1..n : s[i] = d[i]
  OBVIOUS
<1>6. s[n + 1] = e[1]
  BY <1>4
<1>1. /\ s \in Seq(Due) /\ n \in Nat /\ Len(s) = n + 1
      /\ \A i \in 1..n : s[i] = d[i]
      /\ s[n + 1] = e[1]
  BY <1>4, <1>5, <1>6
<1> HIDE DEF s
<1>2. HasCall(s, e[1][1])
  BY <1>1 DEF HasCall
<1>3. OnlyLost(d) /\ e[1][1] \in LostCallbacks => OnlyLost(s)
  <2> SUFFICES ASSUME OnlyLost(d), e[1][1] \in LostCallbacks, NEW i \in 1..Len(s)
               PROVE  s[i][1] \in LostCallbacks
    BY DEF OnlyLost
  <2>1. i \in 1..n \/ i = n + 1
    BY <1>1
  <2> QED BY <1>1, <2>1 DEF OnlyLost
<1> QED BY <1>1, <1>2, <1>3 DEF s

LEMMA NoCalls ==
  OnlyLost(<<>>) /\ \A c : ~HasCall(<<>>, c)
BY DEF HasCall, OnlyLost

\* the callbacks of a lost connection; the last one tells of the loss
LEMMA DisconnectedCalls ==
  ASSUME fifo \in Seq(Nat), NEW q \in Disconnected
  PROVE  q \in Seq(Due) /\ OnlyLost(q) /\ HasCall(q, "onDisconnected")
<1> DEFINE d == Delivered("onDelivered d", fifo)
           r == <<<<"onReceived d", 0>>>>
           e == <<<<"onDisconnected", 0>>>>
<1>1. d \in Seq(Due) /\ OnlyLost(d)
  BY DeliveredCalls DEF Callbacks, LostCallbacks
<1>2. /\ r \in Seq(Due) /\ Len(r) = 1 /\ r[1][1] = "onReceived d"
      /\ e \in Seq(Due) /\ Len(e) = 1 /\ e[1][1] = "onDisconnected"
  BY SingleCall DEF Callbacks
<1>3. r[1][1] \in LostCallbacks /\ e[1][1] \in LostCallbacks
  BY <1>2 DEF LostCallbacks
<1>4. q = (d \o <<>>) \o e \/ q = (d \o r) \o e
  BY Zenon DEF Disconnected
<1> HIDE DEF d, r, e
<1>5. d \o <<>> = d
  BY <1>1
<1>6. d \o r \in Seq(Due) /\ OnlyLost(d \o r)
  BY Zenon, <1>1, <1>2, <1>3, LastCall
<1>7. PICK b \in {d, d \o r} : q = b \o e
  BY Zenon, <1>4, <1>5
<1>8. b \in Seq(Due) /\ OnlyLost(b)
  BY Zenon, <1>1, <1>6
<1>9. q \in Seq(Due) /\ OnlyLost(q) /\ HasCall(q, e[1][1])
  BY Zenon, <1>2, <1>3, <1>7, <1>8, LastCall
<1> QED BY Zenon, <1>2, <1>9

\* the next callback and those behind it
LEMMA TailCalls ==
  ASSUME NEW q \in Seq(Due), q # <<>>
  PROVE  /\ Tail(q) \in Seq(Due)
         /\ Head(q)[1] \in Callbacks
         /\ OnlyLost(q) => OnlyLost(Tail(q)) /\ Head(q)[1] \in LostCallbacks
         /\ \A c : HasCall(q, c) <=> Head(q)[1] = c \/ HasCall(Tail(q), c)
<1>1. /\ Tail(q) \in Seq(Due) /\ Len(Tail(q)) = Len(q) - 1
      /\ \A i \in 1..Len(Tail(q)) : Tail(q)[i] = q[i + 1] /\ i + 1 \in 1..Len(q)
      /\ Head(q) = q[1] /\ 1 \in 1..Len(q) /\ q[1] \in Due
  OBVIOUS
<1>5. q[1][1] \in Callbacks
  BY <1>1 DEF Due
<1>2. ASSUME OnlyLost(q) PROVE OnlyLost(Tail(q)) /\ Head(q)[1] \in LostCallbacks
  BY <1>1, <1>2 DEF OnlyLost
<1>3. ASSUME NEW c, HasCall(q, c) PROVE Head(q)[1] = c \/ HasCall(Tail(q), c)
  <2>1. PICK i \in 1..Len(q) : q[i][1] = c
    BY <1>3 DEF HasCall
  <2>2. CASE i = 1
    BY <1>1, <2>1, <2>2
  <2>3. CASE i # 1
    <3>1. i - 1 \in 1..Len(Tail(q)) /\ Tail(q)[i - 1] = q[i]
      BY <1>1, <2>3
    <3> QED BY <2>1, <3>1 DEF HasCall
  <2> QED BY <2>2, <2>3
<1>4. ASSUME NEW c, HasCall(Tail(q), c) \/ Head(q)[1] = c PROVE HasCall(q, c)
  BY <1>1, <1>4 DEF HasCall
<1> QED BY <1>1, <1>2, <1>3, <1>4, <1>5

LEMMA ClearedLists ==
  ASSUME ListInv, commands' = <<>> \/ commands' = commands, fifo' = <<>> \/ fifo' = fifo,
         todo' \in Seq(Due), UNCHANGED <<calls, sending>>
  PROVE  ListInv'
<1>1. <<>> \in Seq(Nat)
  OBVIOUS
<1>2. commands' \in Seq(Nat)
  BY <1>1, Zenon DEF ListInv
<1>3. fifo' \in Seq(Nat)
  BY <1>1, Zenon DEF ListInv
<1> QED BY <1>2, <1>3 DEF ListInv

LEMMA AppList ==
  ASSUME ListInv, AppNext
  PROVE  ListInv'
<1> USE DEF ListInv, history, connection
<1>1. CASE CallSend
  BY <1>1 DEF CallSend
<1>2. CASE LockToSend
  BY <1>2 DEF LockToSend
<1>3. CASE Emplace
  BY <1>3 DEF Emplace
<1>4. CASE CallDisconnect
  BY <1>4 DEF CallDisconnect
<1>5. CASE RequestDisconnect
  BY <1>5 DEF RequestDisconnect
<1>6. CASE Connect
  BY <1>6 DEF Connect
<1>7. CASE ConnectElsewhere
  <2>1. (commands' = <<>> \/ commands' = commands) /\ (fifo' = <<>> \/ fifo' = fifo)
    BY <1>7, Zenon DEF ConnectElsewhere
  <2>2. UNCHANGED <<todo, calls, sending>>
    BY <1>7 DEF ConnectElsewhere
  <2> QED BY <2>1, <2>2, ClearedLists
<1>8. CASE CallStop
  BY <1>8 DEF CallStop
<1>9. CASE Join
  BY <1>9 DEF Join
<1>10. CASE Interrupt
  <2>1. (commands' = <<>> \/ commands' = commands) /\ (fifo' = <<>> \/ fifo' = fifo)
    BY <1>10, Zenon DEF Interrupt
  <2>2. UNCHANGED <<todo, calls, sending>>
    BY <1>10 DEF Interrupt
  <2> QED BY <2>1, <2>2, ClearedLists
<1> QED
  BY <1>1, <1>2, <1>3, <1>4, <1>5, <1>6, <1>7, <1>8, <1>9, <1>10 DEF AppNext

LEMMA AppTodo ==
  ASSUME TodoInv, AppNext
  PROVE  TodoInv'
<1>1. UNCHANGED <<net, todo>>
  BY DEF AppNext, CallSend, LockToSend, Emplace, CallDisconnect, RequestDisconnect, Connect,
         ConnectElsewhere, CallStop, Join, Interrupt
<1> QED BY <1>1 DEF TodoInv

LEMMA Parts ==
  ASSUME NEW q \in Seq(Nat), NEW k \in 0..Len(q)
  PROVE  SubSeq(q, 1, k) \in Seq(Nat) /\ SubSeq(q, k + 1, Len(q)) \in Seq(Nat)
OBVIOUS

\* what a TypeA makes due
LEMMA ReceiveList ==
  ASSUME ListInv, ReceivePacket
  PROVE  todo' \in Seq(Due) /\ fifo' \in Seq(Nat)
<1>1. PICK acked \in 0..Len(fifo), received \in {<<>>, <<<<"onReceived", 0>>>>} :
        /\ todo' = (IF isConnected THEN <<>> ELSE <<<<"onConnected", 0>>>>)
                     \o Delivered("onDelivered s", SubSeq(fifo, 1, acked)) \o received
        /\ fifo' = SubSeq(fifo, acked + 1, Len(fifo))
  BY Zenon DEF ReceivePacket
<1>2. SubSeq(fifo, 1, acked) \in Seq(Nat) /\ fifo' \in Seq(Nat)
  BY <1>1, Parts DEF ListInv
<1>3. <<>> \in Seq(Due)
  OBVIOUS
<1>4. <<<<"onConnected", 0>>>> \in Seq(Due) /\ <<<<"onReceived", 0>>>> \in Seq(Due)
  BY SingleCall DEF Callbacks
<1> DEFINE a == IF isConnected THEN <<>> ELSE <<<<"onConnected", 0>>>>
           d == Delivered("onDelivered s", SubSeq(fifo, 1, acked))
<1>5. a \in Seq(Due) /\ received \in Seq(Due)
  BY <1>1, <1>3, <1>4, Zenon
<1>6. d \in Seq(Due)
  BY <1>2, DeliveredCalls DEF Callbacks
<1>7. todo' = (a \o d) \o received
  BY <1>1
<1> HIDE DEF a, d
<1>8. a \o d \in Seq(Due)
  BY <1>5, <1>6, ConcatLen
<1>9. todo' \in Seq(Due)
  BY <1>5, <1>7, <1>8, ConcatLen
<1> QED BY <1>2, <1>9

\* what processConnection makes due
LEMMA LateList ==
  ASSUME ListInv, ProcessConnection
  PROVE  todo' \in Seq(Due) /\ fifo' \in Seq(Nat) /\ ~HasCall(todo', "onConnected")
<1>1. PICK done \in 0..Len(fifo), status \in {"onDelivered s", "onDelivered t"} :
        /\ todo' = Delivered(status, SubSeq(fifo, 1, done))
        /\ fifo' = SubSeq(fifo, done + 1, Len(fifo))
  BY Zenon DEF ProcessConnection
<1>2. SubSeq(fifo, 1, done) \in Seq(Nat) /\ fifo' \in Seq(Nat)
  BY <1>1, Parts DEF ListInv
<1>3. status \in Callbacks /\ status # "onConnected"
  BY DEF Callbacks
<1> QED BY <1>1, <1>2, <1>3, DeliveredCalls

LEMMA NetList ==
  ASSUME ListInv, NetNext
  PROVE  ListInv'
<1>1. CASE ReceivePacket
  BY <1>1, ReceiveList DEF ReceivePacket, ListInv, history
<1>2. CASE ReceiveDisconnect
  <2>1. /\ commands' = <<>> \/ commands' = commands
        /\ fifo' = <<>> /\ todo' \in Disconnected /\ UNCHANGED <<calls, sending>>
    BY <1>2, Zenon DEF ReceiveDisconnect, history
  <2> QED BY <2>1, DisconnectedCalls, ClearedLists DEF ListInv
<1>3. CASE Received
  BY <1>3 DEF Received, ListInv, history
<1>4. CASE Lock
  BY <1>4 DEF Lock, ListInv, history
<1>5. CASE DoCommands
  <2>1. /\ \/ fifo' = fifo \o commands /\ commands' = <<>>
           \/ UNCHANGED <<fifo, commands>>
        /\ UNCHANGED <<todo, calls, sending>>
    BY <1>5, Zenon DEF DoCommands, history
  <2>2. fifo \o commands \in Seq(Nat) /\ <<>> \in Seq(Nat)
    BY DEF ListInv
  <2>3. fifo' \in Seq(Nat) /\ commands' \in Seq(Nat)
    BY <2>1, <2>2, Zenon DEF ListInv
  <2> QED BY <2>1, <2>3 DEF ListInv
<1>6. CASE CheckConnection
  <2>1. /\ commands' = <<>> \/ commands' = commands
        /\ fifo' = <<>> \/ fifo' = fifo
        /\ todo' \in Disconnected \/ todo' = todo
        /\ UNCHANGED <<calls, sending>>
    BY <1>6, Zenon DEF CheckConnection, Close, TimeOut, Erase, Drop, history
  <2>2. todo' \in Seq(Due)
    BY <2>1, DisconnectedCalls DEF ListInv
  <2> QED BY <2>1, <2>2, ClearedLists
<1>7. CASE Unlock
  BY <1>7 DEF Unlock, ListInv, history
<1>8. CASE ProcessConnection
  BY <1>8, LateList DEF ProcessConnection, ListInv, history
<1>9. CASE While
  BY <1>9 DEF While, ListInv, history
<1>10. CASE Callback
  <2>1. todo # <<>> /\ todo' = Tail(todo) /\ UNCHANGED <<fifo, sending>>
    BY <1>10 DEF Callback
  <2>2. \/ calls' = calls + 1 /\ commands' = Append(commands, calls + 1)
        \/ UNCHANGED <<calls, commands>>
    BY <1>10, Zenon DEF Callback
  <2>5. calls + 1 \in Nat /\ Append(commands, calls + 1) \in Seq(Nat)
    BY DEF ListInv
  <2>3. commands' \in Seq(Nat) /\ calls' \in Nat
    BY <2>2, <2>5, Zenon DEF ListInv
  <2>4. todo' \in Seq(Due)
    BY <2>1, TailCalls DEF ListInv
  <2> QED BY <2>1, <2>3, <2>4 DEF ListInv
<1> QED
  BY <1>1, <1>2, <1>3, <1>4, <1>5, <1>6, <1>7, <1>8, <1>9, <1>10 DEF NetNext

LEMMA NetTodo ==
  ASSUME ListInv, TodoInv, NetNext
  PROVE  TodoInv'
<1>1. CASE ReceivePacket \/ ReceiveDisconnect
  BY <1>1 DEF ReceivePacket, ReceiveDisconnect, TodoInv
<1>2. CASE Received
  BY <1>2, Zenon DEF Received, TodoInv
<1>3. CASE Lock \/ DoCommands
  BY <1>3 DEF Lock, DoCommands, TodoInv
<1>4. CASE CheckConnection
  <2>1. todo' \in Disconnected \/ todo' = todo
    BY <1>4, Zenon DEF CheckConnection, Close, TimeOut, Erase, Drop
  <2>2. net = "check" /\ net' = "checked"
    BY <1>4 DEF CheckConnection
  <2>3. OnlyLost(todo) /\ \A q \in Disconnected : OnlyLost(q)
    BY <2>2, NoCalls, DisconnectedCalls DEF TodoInv, ListInv
  <2>4. OnlyLost(todo')
    BY <2>1, <2>3, Zenon
  <2> QED BY <2>2, <2>4 DEF TodoInv
<1>5. CASE Unlock
  BY <1>5 DEF Unlock, TodoInv
<1>6. CASE ProcessConnection
  BY <1>6 DEF ProcessConnection, TodoInv
<1>7. CASE While
  <2>1. todo' = <<>> /\ net' # "checked"
    BY <1>7 DEF While
  <2> QED BY <2>1, Zenon DEF TodoInv
<1>8. CASE Callback
  <2>1. todo # <<>> /\ todo' = Tail(todo) /\ UNCHANGED net
    BY <1>8 DEF Callback
  <2>2. OnlyLost(todo) => OnlyLost(todo')
    BY <2>1, TailCalls DEF ListInv
  <2> QED BY <2>1, <2>2, Zenon DEF TodoInv
<1> QED
  BY <1>1, <1>2, <1>3, <1>4, <1>5, <1>6, <1>7, <1>8 DEF NetNext

LEMMA TodoInvariant == Spec => [](ListInv /\ TodoInv)
<1>1. Init => ListInv /\ TodoInv
  <2> SUFFICES ASSUME Init PROVE ListInv /\ TodoInv
    OBVIOUS
  <2>1. ListInv
    BY DEF Init, ListInv
  <2>2. TodoInv
    BY DEF Init, TodoInv
  <2> QED BY <2>1, <2>2
<1>2. ListInv /\ TodoInv /\ [Next]_vars => (ListInv /\ TodoInv)'
  <2> SUFFICES ASSUME ListInv, TodoInv, [Next]_vars PROVE ListInv' /\ TodoInv'
    OBVIOUS
  <2>1. CASE UNCHANGED vars
    BY <2>1 DEF vars, ListInv, TodoInv, history
  <2> QED BY <2>1, AppList, NetList, AppTodo, NetTodo DEF Next
<1> QED BY <1>1, <1>2, PTL DEF Spec

\* The callbacks that run with the mutex held by their own thread are those that
\* tell of a lost connection; in every other one send can take the mutex.
THEOREM CallbacksRunUnlocked == Spec => []CallbacksUnlocked
<1>1. MutexInv /\ ListInv /\ TodoInv => CallbacksUnlocked
  <2> SUFFICES ASSUME MutexInv, ListInv, TodoInv, todo # <<>>, owner = "net"
               PROVE  Head(todo)[1] \in LostCallbacks
    BY DEF CallbacksUnlocked, LostCallbacks
  <2>1. net = "checked"
    BY DEF MutexInv, TodoInv
  <2>2. OnlyLost(todo)
    BY <2>1 DEF TodoInv
  <2> QED BY <2>2, TailCalls DEF ListInv
<1> QED BY <1>1, MutexInvariant, TodoInvariant, PTL

-----------------------------------------------------------------------------
(* The life of a connection                                                *)

\* The application's pointer leads to a connection, a call of send is under way
\* only while there is one, and a server erases a connection only after the
\* application has been told of its loss.
LifeInv ==
  /\ exists \in BOOLEAN /\ isServer \in BOOLEAN
  /\ pointer = "valid" => exists
  /\ HasCall(todo, "onConnected") => exists
  /\ app \in {"send", "emplace"} => exists /\ pointer # "closed"
  /\ app = "disconnect" => pointer = "closed"
  /\ isDisconnectRequested => exists /\ pointer = "closed"
  /\ isServer /\ isErasing => /\ pointer = "valid" => HasCall(todo, "onDisconnected")
                              /\ ~HasCall(todo, "onConnected")

LEMMA LostIsNotConnected ==
  ASSUME NEW q, OnlyLost(q)
  PROVE  ~HasCall(q, "onConnected")
BY DEF OnlyLost, HasCall, LostCallbacks

\* the application's own steps; a call starts only with a pointer it may use
LEMMA AppLife ==
  ASSUME ImplAssumption, LifeInv, AppNext
  PROVE  LifeInv'
<1> USE DEF LifeInv, connection
<1>1. CASE CallSend
  BY <1>1 DEF CallSend
<1>2. CASE LockToSend
  BY <1>2 DEF LockToSend
<1>3. CASE Emplace
  BY <1>3 DEF Emplace
<1>4. CASE CallDisconnect
  BY <1>4 DEF CallDisconnect
<1>5. CASE RequestDisconnect
  BY <1>5 DEF RequestDisconnect
<1>6. CASE Connect
  BY <1>6 DEF Connect
<1>7. CASE ConnectElsewhere
  BY <1>7 DEF ConnectElsewhere
<1>8. CASE CallStop
  BY <1>8 DEF CallStop
<1>9. CASE Join
  BY <1>9 DEF Join
<1>10. CASE Interrupt
  BY <1>10 DEF Interrupt
<1> QED
  BY <1>1, <1>2, <1>3, <1>4, <1>5, <1>6, <1>7, <1>8, <1>9, <1>10 DEF AppNext

\* the network thread's steps; an erasure finds no pointer in use
LEMMA NetLife ==
  ASSUME ListInv, TodoInv, LifeInv, NetNext
  PROVE  LifeInv'
<1>0. /\ \A q \in Disconnected : ~HasCall(q, "onConnected") /\ HasCall(q, "onDisconnected")
      /\ ~HasCall(<<>>, "onConnected")
  BY DisconnectedCalls, LostIsNotConnected, NoCalls DEF ListInv
<1> USE DEF LifeInv, connection
<1>1. CASE ReceivePacket
  <2>1. /\ exists' = TRUE /\ UNCHANGED <<isServer, isErasing, isDisconnectRequested, app, pointer>>
        /\ ~(isServer /\ isErasing)
    BY <1>1, Zenon DEF ReceivePacket
  <2> QED BY <2>1, Zenon
<1>2. CASE ReceiveDisconnect
  <2>1. /\ exists /\ todo' \in Disconnected
        /\ UNCHANGED <<exists, isServer, isDisconnectRequested, app, pointer>>
    BY <1>2, Zenon DEF ReceiveDisconnect
  <2>2. ~HasCall(todo', "onConnected") /\ HasCall(todo', "onDisconnected")
    BY <1>0, <2>1, Zenon
  <2> QED BY <2>1, <2>2, Zenon
<1>3. CASE Received
  BY <1>3, Zenon DEF Received
<1>4. CASE Lock
  BY <1>4, Zenon DEF Lock
<1>5. CASE DoCommands
  BY <1>5, Zenon DEF DoCommands
<1>6. CASE CheckConnection
  <2>1. todo = <<>> /\ UNCHANGED <<isServer, app, pointer>>
    BY <1>6 DEF CheckConnection, TodoInv
  <2>2. CASE exists /\ (Close \/ TimeOut)
    <3>1. todo' \in Disconnected /\ UNCHANGED <<isServer, app, pointer>>
      BY <2>1, <2>2, Zenon DEF Close, TimeOut, Drop
    <3>2. ~HasCall(todo', "onConnected") /\ HasCall(todo', "onDisconnected")
      BY <1>0, <3>1, Zenon
    <3>3. CASE Close
      BY <3>1, <3>2, <3>3, Zenon DEF Close
    <3>4. CASE TimeOut
      BY <2>2, <3>1, <3>2, <3>4, Zenon DEF TimeOut
    <3> QED BY <2>2, <3>3, <3>4
  <2>3. CASE exists /\ Erase
    <3>1. /\ exists' = ~isServer /\ isErasing' = FALSE /\ isErasing /\ app \in {"idle", "join"}
          /\ ~isDisconnectRequested /\ isDisconnectRequested' = isDisconnectRequested
          /\ todo' = todo
      BY <2>3, Zenon DEF Erase, NoCallLastsTwoSeconds
    <3>2. ~HasCall(todo', "onConnected")
      BY <1>0, <2>1, <3>1, Zenon
    <3>3. isServer => pointer # "valid"
      BY <2>1, <3>1, NoCalls, Zenon
    <3> QED BY <2>1, <3>1, <3>2, <3>3
  <2>4. CASE UNCHANGED <<connection, commands, fifo, todo>>
    BY <2>1, <2>4, Zenon
  <2> QED BY <1>6, <2>2, <2>3, <2>4, Zenon DEF CheckConnection
<1>7. CASE Unlock
  BY <1>7, Zenon DEF Unlock
<1>8. CASE ProcessConnection
  <2>1. todo = <<>> /\ UNCHANGED <<isServer, connection, app, pointer>>
    BY <1>8 DEF ProcessConnection, TodoInv
  <2>2. ~HasCall(todo, "onDisconnected") /\ ~HasCall(todo', "onConnected")
    BY <1>8, <2>1, NoCalls, LateList
  <2> QED BY <2>1, <2>2, Zenon
<1>9. CASE While
  BY <1>9, Zenon DEF While
<1>10. CASE Callback
  <2> DEFINE callback == Head(todo)[1]
  <2>1. /\ todo # <<>> /\ todo' = Tail(todo)
        /\ pointer' = IF pointer # "closed" /\ callback = "onConnected" THEN "valid"
                      ELSE IF pointer # "closed" /\ callback = "onDisconnected" THEN "null"
                      ELSE pointer
        /\ UNCHANGED <<exists, isServer, isErasing, isDisconnectRequested, app>>
    BY <1>10, Zenon DEF Callback
  <2>2. \A c : HasCall(todo, c) <=> callback = c \/ HasCall(todo', c)
    BY <2>1, TailCalls DEF ListInv
  <2> HIDE DEF callback
  <2> QED BY <2>1, <2>2
<1> QED
  BY <1>1, <1>2, <1>3, <1>4, <1>5, <1>6, <1>7, <1>8, <1>9, <1>10 DEF NetNext

LEMMA LifeInvariant == Spec => []LifeInv
<1>1. Init => LifeInv
  <2> SUFFICES ASSUME Init PROVE LifeInv
    OBVIOUS
  <2>1. todo = <<>> /\ isServer \in BOOLEAN
    BY ImplAssumption DEF Init
  <2>2. ~HasCall(todo, "onConnected")
    BY <2>1, NoCalls
  <2> QED BY <2>1, <2>2 DEF Init, LifeInv
<1>2. ListInv /\ TodoInv /\ LifeInv /\ [Next]_vars => LifeInv'
  <2> SUFFICES ASSUME ListInv, TodoInv, LifeInv, [Next]_vars PROVE LifeInv'
    OBVIOUS
  <2>1. CASE UNCHANGED vars
    BY <2>1, Zenon DEF vars, LifeInv, connection
  <2> QED BY <2>1, ImplAssumption, AppLife, NetLife DEF Next
<1> QED BY <1>1, <1>2, TodoInvariant, PTL DEF Spec

\* A call of send never works on a connection that process_ts has erased, however
\* the calls, the callbacks and the erasure interleave.
THEOREM PointersLive == Spec => []CallsUseConnection
<1>1. LifeInv => CallsUseConnection
  BY DEF LifeInv, CallsUseConnection
<1> QED BY <1>1, LifeInvariant, PTL

-----------------------------------------------------------------------------
(***************************************************************************)
(* What becomes of a packet.  Its number is in one place at a time: in the *)
(* call of send that is under way, the queue of commands, the fifo of its  *)
(* stream, a callback that is due, or among the reports.  It leaves them   *)
(* without a report only where a callback onDisconnected is due; the one   *)
(* place that drops packets without a callback, the erasure of a server's  *)
(* connection, runs when all calls of send precede an onDisconnected.      *)
(***************************************************************************)

Once(s) == \A i, j \in 1..Len(s) : s[i] = s[j] => i = j

\* the packets of the callbacks that are due; onConnected and the like have 0
PacketsDue(q) == {q[i][2] : i \in 1..Len(q)} \ {0}
OnceDue(q) == \A i, j \in 1..Len(q) : q[i][2] = q[j][2] /\ q[i][2] # 0 => i = j

\* C, F, D, R: the packets in commands, the fifo, callbacks due, and the reports;
\* s is being sent, k were
Apart(C, F, D, R, s, k) ==
  /\ C \cap F = {} /\ C \cap D = {} /\ C \cap R = {}
  /\ F \cap D = {} /\ F \cap R = {} /\ D \cap R = {}
  /\ C \cup F \cup D \cup R \subseteq 1..k
  /\ s \notin C \cup F \cup D \cup R
  /\ s \in 0..k

Covered(places, s, k, e, isLost) == \A n \in 1..k : n # s => n \in places \/ n <= e \/ isLost

IsLost(q) == HasCall(q, "onDisconnected")

AccountInv ==
  /\ reports \in Seq(Nat)
  /\ Once(commands) /\ Once(fifo) /\ OnceDue(todo) /\ Once(reports)
  /\ Apart(PacketsIn(commands), PacketsIn(fifo), PacketsDue(todo), PacketsIn(reports),
           sending, calls)
  /\ Runs => Covered(PacketsIn(commands) \cup PacketsIn(fifo) \cup PacketsDue(todo)
                       \cup PacketsIn(reports), sending, calls, excused, IsLost(todo))
  /\ app \in {"send", "emplace"} <=> sending # 0
  /\ isServer /\ isErasing /\ ~IsLost(todo) => excused = calls

\* empty lists
LEMMA NonePackets ==
  /\ Once(<<>>) /\ OnceDue(<<>>) /\ PacketsIn(<<>>) = {} /\ PacketsDue(<<>>) = {}
BY DEF Once, OnceDue, PacketsIn, PacketsDue

\* packets put behind others
LEMMA ConcatPackets ==
  ASSUME NEW s \in Seq(Nat), NEW t \in Seq(Nat), Once(s), Once(t),
         PacketsIn(s) \cap PacketsIn(t) = {}
  PROVE  /\ s \o t \in Seq(Nat) /\ Once(s \o t)
         /\ PacketsIn(s \o t) = PacketsIn(s) \cup PacketsIn(t)
<1> DEFINE u == s \o t
           m == Len(s)
           k == Len(t)
<1>1. /\ m \in Nat /\ k \in Nat /\ Len(u) = m + k /\ u \in Seq(Nat)
      /\ \A i \in 1..m : u[i] = s[i] /\ s[i] \in PacketsIn(s)
      /\ \A i \in (m + 1)..(m + k) : u[i] = t[i - m]
      /\ \A i \in 1..k : t[i] \in PacketsIn(t)
  BY DEF PacketsIn
<1> HIDE DEF u
<1>2. \A i \in (m + 1)..(m + k) : i - m \in 1..k
  BY <1>1
<1>3. ASSUME NEW i \in 1..Len(u), NEW j \in 1..Len(u), u[i] = u[j] PROVE i = j
  <2>1. CASE i \in 1..m /\ j \in 1..m
    BY <1>1, <1>3, <2>1 DEF Once
  <2>2. CASE i \in (m + 1)..(m + k) /\ j \in (m + 1)..(m + k)
    <3>1. t[i - m] = t[j - m] /\ i - m \in 1..k /\ j - m \in 1..k
      BY Zenon, <1>1, <1>2, <1>3, <2>2
    <3>2. i - m = j - m
      BY Zenon, <3>1 DEF Once
    <3> QED BY <1>1, <2>2, <3>2
  <2>3. CASE i \in 1..m /\ j \in (m + 1)..(m + k)
    <3>1. u[i] \in PacketsIn(s) /\ u[j] \in PacketsIn(t)
      BY <1>1, <1>2, <2>3
    <3> QED BY <1>3, <3>1
  <2>4. CASE j \in 1..m /\ i \in (m + 1)..(m + k)
    <3>1. u[j] \in PacketsIn(s) /\ u[i] \in PacketsIn(t)
      BY <1>1, <1>2, <2>4
    <3> QED BY <1>3, <3>1
  <2>5. i \in 1..m \/ i \in (m + 1)..(m + k)
    BY <1>1
  <2>6. j \in 1..m \/ j \in (m + 1)..(m + k)
    BY <1>1
  <2> QED BY Zenon, <2>1, <2>2, <2>3, <2>4, <2>5, <2>6
<1>4. PacketsIn(u) = PacketsIn(s) \cup PacketsIn(t)
  <2>1. ASSUME NEW i \in 1..Len(u) PROVE u[i] \in PacketsIn(s) \cup PacketsIn(t)
    <3>1. i \in 1..m \/ i \in (m + 1)..(m + k)
      BY <1>1
    <3>2. CASE i \in (m + 1)..(m + k)
      <4>1. u[i] = t[i - m] /\ i - m \in 1..k
        BY <1>1, <1>2, <3>2
      <4> QED BY Zenon, <1>1, <4>1
    <3> QED BY Zenon, <1>1, <3>1, <3>2
  <2>2. ASSUME NEW i \in 1..m PROVE s[i] \in PacketsIn(u)
    <3>1. i \in 1..Len(u) /\ u[i] = s[i]
      BY <1>1
    <3> QED BY Zenon, <3>1 DEF PacketsIn
  <2>3. ASSUME NEW i \in 1..k PROVE t[i] \in PacketsIn(u)
    <3>1. m + i \in 1..Len(u) /\ m + i \in (m + 1)..(m + k) /\ (m + i) - m = i
      BY <1>1
    <3>2. u[m + i] = t[i]
      BY <1>1, <3>1
    <3> QED BY Zenon, <3>1, <3>2 DEF PacketsIn
  <2> HIDE DEF m, k
  <2> QED BY ZenonT(60), <2>1, <2>2, <2>3 DEF PacketsIn, m, k
<1> QED BY Zenon, <1>1, <1>3, <1>4 DEF Once, u

\* the first k packets, and the others
LEMMA SplitPackets ==
  ASSUME NEW s \in Seq(Nat), Once(s), NEW k \in 0..Len(s)
  PROVE  LET a == SubSeq(s, 1, k)
             b == SubSeq(s, k + 1, Len(s))
         IN  /\ a \in Seq(Nat) /\ b \in Seq(Nat) /\ Once(a) /\ Once(b)
             /\ PacketsIn(a) \cap PacketsIn(b) = {}
             /\ PacketsIn(a) \cup PacketsIn(b) = PacketsIn(s)
<1> DEFINE a == SubSeq(s, 1, k)
           b == SubSeq(s, k + 1, Len(s))
           m == Len(s) - k
<1>1. /\ a \in Seq(Nat) /\ b \in Seq(Nat) /\ m \in Nat
      /\ Len(a) = k /\ Len(b) = m /\ k \in Nat /\ Len(s) = k + m
      /\ \A i \in 1..k : a[i] = s[i]
      /\ \A i \in 1..m : b[i] = s[k + i]
  OBVIOUS
<1> HIDE DEF a, b, m
<1>2. /\ \A i \in 1..k : i \in 1..Len(s)
      /\ \A i \in 1..m : k + i \in 1..Len(s)
      /\ \A i \in 1..k, j \in 1..m : i # k + j
      /\ \A i, j \in 1..m : k + i = k + j => i = j
      /\ \A i \in 1..Len(s) : i \in 1..k \/ \E j \in 1..m : i = k + j
  <2>1. ASSUME NEW i \in 1..Len(s), i \notin 1..k PROVE \E j \in 1..m : i = k + j
    <3>1. i - k \in 1..m /\ i = k + (i - k)
      BY <1>1, <2>1
    <3> QED BY Zenon, <3>1
  <2>2. /\ \A i \in 1..k : i \in 1..Len(s)
        /\ \A i \in 1..m : k + i \in 1..Len(s)
        /\ \A i \in 1..k, j \in 1..m : i # k + j
        /\ \A i, j \in 1..m : k + i = k + j => i = j
    BY <1>1
  <2> QED BY Zenon, <2>1, <2>2
<1>3. Once(a) /\ Once(b)
  <2>1. ASSUME NEW i \in 1..k, NEW j \in 1..k, a[i] = a[j] PROVE i = j
    <3>1. s[i] = s[j] /\ i \in 1..Len(s) /\ j \in 1..Len(s)
      BY <1>1, <1>2, <2>1
    <3> QED BY Zenon, <3>1 DEF Once
  <2>2. ASSUME NEW i \in 1..m, NEW j \in 1..m, b[i] = b[j] PROVE i = j
    <3>1. s[k + i] = s[k + j] /\ k + i \in 1..Len(s) /\ k + j \in 1..Len(s)
      BY <1>1, <1>2, <2>2
    <3>2. k + i = k + j
      BY Zenon, <3>1 DEF Once
    <3> QED BY Zenon, <1>2, <3>2
  <2> QED BY Zenon, <1>1, <2>1, <2>2 DEF Once
<1>4. PacketsIn(a) \cap PacketsIn(b) = {}
  <2>1. ASSUME NEW i \in 1..k, NEW j \in 1..m PROVE a[i] # b[j]
    <3>1. a[i] = s[i] /\ b[j] = s[k + j]
      BY Zenon, <1>1
    <3> QED BY Zenon, <1>2, <3>1 DEF Once
  <2>2. ASSUME NEW x, x \in PacketsIn(a), x \in PacketsIn(b) PROVE FALSE
    <3>1. (\E i \in 1..k : x = a[i]) /\ (\E j \in 1..m : x = b[j])
      BY ZenonT(60), <1>1, <2>2 DEF PacketsIn
    <3> QED BY Zenon, <2>1, <3>1
  <2> QED BY Zenon, <2>2
<1>5. PacketsIn(a) \cup PacketsIn(b) = PacketsIn(s)
  <2>1. \A i \in 1..k : a[i] \in PacketsIn(s)
    BY ZenonT(60), <1>1, <1>2 DEF PacketsIn
  <2>2. \A i \in 1..m : b[i] \in PacketsIn(s)
    BY ZenonT(60), <1>1, <1>2 DEF PacketsIn
  <2>3. ASSUME NEW i \in 1..Len(s) PROVE s[i] \in PacketsIn(a) \cup PacketsIn(b)
    <3>1. CASE i \in 1..k
      BY Zenon, <1>1, <3>1 DEF PacketsIn
    <3>2. CASE \E j \in 1..m : i = k + j
      BY Zenon, <1>1, <3>2 DEF PacketsIn
    <3> QED BY Zenon, <1>2, <3>1, <3>2
  <2> QED BY ZenonT(60), <1>1, <2>1, <2>2, <2>3 DEF PacketsIn
<1> QED BY Zenon, <1>1, <1>3, <1>4, <1>5 DEF a, b

\* one packet more
LEMMA AppendPackets ==
  ASSUME NEW s \in Seq(Nat), Once(s), NEW n \in Nat, n \notin PacketsIn(s)
  PROVE  /\ Append(s, n) \in Seq(Nat) /\ Once(Append(s, n))
         /\ PacketsIn(Append(s, n)) = PacketsIn(s) \cup {n}
<1> DEFINE t == Append(s, n)
           m == Len(s)
<1>1. /\ t \in Seq(Nat) /\ m \in Nat /\ Len(t) = m + 1 /\ t[m + 1] = n
      /\ \A i \in 1..m : t[i] = s[i]
  OBVIOUS
<1> HIDE DEF t
<1>2. \A i \in 1..m : t[i] # n
  BY <1>1 DEF PacketsIn
<1>3. \A i \in 1..Len(t) : i \in 1..m \/ i = m + 1
  BY <1>1
<1>4. 1..m \subseteq 1..Len(t) /\ m + 1 \in 1..Len(t)
  BY <1>1
<1>5. ASSUME NEW i \in 1..Len(t), NEW j \in 1..Len(t), t[i] = t[j] PROVE i = j
  <2>1. CASE i \in 1..m /\ j \in 1..m
    BY <1>1, <1>5, <2>1 DEF Once
  <2>2. CASE i = m + 1 \/ j = m + 1
    BY Zenon, <1>1, <1>2, <1>3, <1>5, <2>2
  <2> QED BY Zenon, <1>3, <2>1, <2>2
<1>6. PacketsIn(t) = PacketsIn(s) \cup {n}
  <2>1. \A i \in 1..Len(t) : t[i] \in PacketsIn(s) \cup {n}
    BY Zenon, <1>1, <1>3 DEF PacketsIn, m
  <2>2. \A i \in 1..m : s[i] \in PacketsIn(t)
    BY Zenon, <1>1, <1>4 DEF PacketsIn
  <2>3. n \in PacketsIn(t)
    BY Zenon, <1>1, <1>4 DEF PacketsIn
  <2> QED BY Zenon, <2>1, <2>2, <2>3 DEF PacketsIn, m
<1> QED BY Zenon, <1>1, <1>5, <1>6 DEF Once, t

\* callbacks for packets have just those packets
LEMMA DeliveredPackets ==
  ASSUME NEW status \in Callbacks, NEW p \in Seq(Nat), Once(p), 0 \notin PacketsIn(p)
  PROVE  /\ OnceDue(Delivered(status, p))
         /\ PacketsDue(Delivered(status, p)) = PacketsIn(p)
<1> DEFINE q == Delivered(status, p)
<1>1. Len(q) = Len(p) /\ \A i \in 1..Len(p) : q[i][2] = p[i]
  BY DEF Delivered
<1> HIDE DEF q
<1>2. OnceDue(q)
  <2> SUFFICES ASSUME NEW i \in 1..Len(q), NEW j \in 1..Len(q), q[i][2] = q[j][2] PROVE i = j
    BY Zenon DEF OnceDue
  <2>1. i \in 1..Len(p) /\ j \in 1..Len(p) /\ p[i] = p[j]
    BY <1>1
  <2> QED BY Zenon, <2>1 DEF Once
<1>3. PacketsDue(q) = PacketsIn(p)
  <2>1. {q[i][2] : i \in 1..Len(q)} = PacketsIn(p)
    BY <1>1 DEF PacketsIn
  <2> QED BY Zenon, <2>1 DEF PacketsDue
<1> QED BY Zenon, <1>2, <1>3 DEF q

\* callbacks without a packet before or behind others
LEMMA PlainCalls ==
  ASSUME NEW d \in Seq(Due), OnceDue(d), NEW e \in Seq(Due), \A i \in 1..Len(e) : e[i][2] = 0
  PROVE  /\ OnceDue(d \o e) /\ PacketsDue(d \o e) = PacketsDue(d)
         /\ OnceDue(e \o d) /\ PacketsDue(e \o d) = PacketsDue(d)
<1> DEFINE m == Len(d)
           k == Len(e)
           u == d \o e
           v == e \o d
<1>1. /\ m \in Nat /\ k \in Nat /\ Len(u) = m + k /\ Len(v) = k + m
      /\ \A i \in 1..m : u[i] = d[i] /\ v[k + i] = d[i]
  <2>1. m \in Nat /\ k \in Nat /\ Len(u) = m + k /\ Len(v) = k + m
    OBVIOUS
  <2>2. \A i \in 1..m : u[i] = d[i]
    OBVIOUS
  <2>3. ASSUME NEW i \in 1..m PROVE v[k + i] = d[i]
    <3>1. k + i \in 1..(k + m) /\ ~(k + i <= k) /\ (k + i) - k = i
      BY <2>1
    <3> QED BY <3>1
  <2> QED BY <2>1, <2>2, <2>3
<1>2. \A i \in 1..Len(u) : i \in 1..m \/ u[i][2] = 0
  <2> SUFFICES ASSUME NEW i \in 1..Len(u), i \notin 1..m PROVE u[i][2] = 0
    OBVIOUS
  <2>1. i - m \in 1..k /\ u[i] = e[i - m]
    BY <1>1
  <2> HIDE DEF u
  <2> QED BY <2>1
<1>3. \A i \in 1..Len(v) : (i - k \in 1..m /\ i = k + (i - k)) \/ v[i][2] = 0
  <2> SUFFICES ASSUME NEW i \in 1..Len(v), i - k \notin 1..m PROVE v[i][2] = 0
    BY <1>1
  <2>1. i \in 1..k /\ v[i] = e[i]
    BY <1>1
  <2> HIDE DEF v
  <2> QED BY <2>1
<1> HIDE DEF u, v
<1>4. /\ \A i \in 1..m : i \in 1..Len(u) /\ k + i \in 1..Len(v)
      /\ \A i, j \in Int : i - k = j - k => i = j
  BY <1>1
<1>5. OnceDue(u)
  <2> SUFFICES ASSUME NEW i \in 1..Len(u), NEW j \in 1..Len(u), u[i][2] = u[j][2], u[i][2] # 0
               PROVE  i = j
    BY Zenon DEF OnceDue
  <2>1. i \in 1..m /\ j \in 1..m
    BY Zenon, <1>2
  <2> QED BY Zenon, <1>1, <2>1 DEF OnceDue
<1>6. OnceDue(v)
  <2> SUFFICES ASSUME NEW i \in 1..Len(v), NEW j \in 1..Len(v), v[i][2] = v[j][2], v[i][2] # 0
               PROVE  i = j
    BY Zenon DEF OnceDue
  <2>1. i - k \in 1..m /\ j - k \in 1..m /\ i = k + (i - k) /\ j = k + (j - k)
    BY Zenon, <1>3
  <2>2. v[i] = d[i - k] /\ v[j] = d[j - k]
    <3>1. PICK a \in 1..m : i = k + a /\ a = i - k
      BY Zenon, <2>1
    <3>2. PICK b \in 1..m : j = k + b /\ b = j - k
      BY Zenon, <2>1
    <3> QED BY Zenon, <1>1, <3>1, <3>2
  <2>3. i - k = j - k
    BY Zenon, <2>1, <2>2 DEF OnceDue
  <2> QED BY Zenon, <2>1, <2>3
<1>7. PacketsDue(u) = PacketsDue(d)
  <2>1. \A i \in 1..Len(u) : u[i][2] \in PacketsDue(d) \cup {0}
    BY Zenon, <1>1, <1>2 DEF PacketsDue
  <2>2. \A i \in 1..m : d[i][2] \in PacketsDue(u) \cup {0}
    BY Zenon, <1>1, <1>4 DEF PacketsDue
  <2> QED BY Zenon, <2>1, <2>2 DEF PacketsDue
<1>8. PacketsDue(v) = PacketsDue(d)
  <2>1. ASSUME NEW i \in 1..Len(v) PROVE v[i][2] \in PacketsDue(d) \cup {0}
    <3>1. CASE v[i][2] = 0
      BY Zenon, <3>1
    <3>2. CASE i - k \in 1..m /\ i = k + (i - k)
      <4>1. PICK a \in 1..m : i = k + a
        BY Zenon, <3>2
      <4>2. v[i] = d[a]
        BY Zenon, <1>1, <4>1
      <4> QED BY Zenon, <4>2 DEF PacketsDue
    <3> QED BY Zenon, <1>3, <3>1, <3>2
  <2>2. \A i \in 1..m : d[i][2] \in PacketsDue(v) \cup {0}
    BY Zenon, <1>1, <1>4 DEF PacketsDue
  <2> QED BY Zenon, <2>1, <2>2 DEF PacketsDue
<1> QED BY Zenon, <1>5, <1>6, <1>7, <1>8 DEF u, v

\* the next callback, and the others
LEMMA NextPacket ==
  ASSUME NEW q \in Seq(Due), q # <<>>, OnceDue(q)
  PROVE  LET n == Head(q)[2]
         IN  /\ n \in Nat /\ OnceDue(Tail(q))
             /\ PacketsDue(q) = PacketsDue(Tail(q)) \cup ({n} \ {0})
             /\ n \notin PacketsDue(Tail(q))
<1> DEFINE t == Tail(q)
           n == Head(q)[2]
<1>1. /\ Len(q) \in Nat /\ Len(q) >= 1 /\ Len(t) = Len(q) - 1 /\ Head(q) = q[1] /\ q[1] \in Due
      /\ \A i \in 1..Len(t) : t[i] = q[i + 1]
  OBVIOUS
<1>2. n \in Nat /\ q[1][2] = n
  BY <1>1 DEF Due
<1> HIDE DEF t, n
<1>3. /\ \A i \in 1..Len(t) : i + 1 \in 1..Len(q) /\ i + 1 # 1
      /\ \A i, j \in 1..Len(t) : i + 1 = j + 1 => i = j
      /\ \A i \in 1..Len(q) : i = 1 \/ i - 1 \in 1..Len(t)
      /\ \A i \in 1..Len(q) : (i - 1) + 1 = i
      /\ 1 \in 1..Len(q)
  BY <1>1
<1>4. OnceDue(t)
  <2> SUFFICES ASSUME NEW i \in 1..Len(t), NEW j \in 1..Len(t), t[i][2] = t[j][2], t[i][2] # 0
               PROVE  i = j
    BY Zenon DEF OnceDue
  <2>1. t[i] = q[i + 1] /\ t[j] = q[j + 1]
    BY Zenon, <1>1
  <2>2. i + 1 = j + 1
    <3>1. q[i + 1][2] = q[j + 1][2] /\ q[i + 1][2] # 0 /\ i + 1 \in 1..Len(q) /\ j + 1 \in 1..Len(q)
      BY Zenon, <1>3, <2>1
    <3> QED BY ZenonT(60), <3>1 DEF OnceDue
  <2> QED BY Zenon, <1>3, <2>2
<1>5. n \notin PacketsDue(t)
  <2> SUFFICES ASSUME n \in PacketsDue(t) PROVE FALSE
    OBVIOUS
  <2>1. PICK i \in 1..Len(t) : t[i][2] = n /\ n # 0
    BY Zenon DEF PacketsDue
  <2>2. q[i + 1][2] = q[1][2] /\ q[1][2] # 0
    BY Zenon, <1>1, <1>2, <2>1
  <2> QED BY Zenon, <1>3, <2>2 DEF OnceDue
<1>6. PacketsDue(q) = PacketsDue(t) \cup ({n} \ {0})
  <2>1. ASSUME NEW i \in 1..Len(q) PROVE q[i][2] \in PacketsDue(t) \cup {n} \cup {0}
    <3>1. CASE i = 1
      BY Zenon, <1>2, <3>1
    <3>2. CASE i - 1 \in 1..Len(t)
      <4>1. t[i - 1] = q[i]
        BY <1>1, <1>3, <3>2
      <4> QED BY Zenon, <3>2, <4>1 DEF PacketsDue
    <3> QED BY Zenon, <1>3, <3>1, <3>2
  <2>2. ASSUME NEW i \in 1..Len(t) PROVE t[i][2] \in PacketsDue(q) \cup {0}
    <3>1. t[i] = q[i + 1] /\ i + 1 \in 1..Len(q)
      BY <1>1, <1>3
    <3> QED BY Zenon, <3>1 DEF PacketsDue
  <2>3. n \in PacketsDue(q) \cup {0}
    BY Zenon, <1>2, <1>3 DEF PacketsDue
  <2> QED BY Zenon, <2>1, <2>2, <2>3 DEF PacketsDue
<1> QED BY Zenon, <1>2, <1>4, <1>5, <1>6 DEF t, n

-----------------------------------------------------------------------------
(* The steps of the application's thread *)

\* steps that move no packet
LEMMA AccountSame ==
  ASSUME AccountInv, UNCHANGED <<commands, fifo, todo, reports, sending, calls, excused, crashed,
                                 isServer, isErasing>>,
         app' \in {"send", "emplace"} <=> app \in {"send", "emplace"}
  PROVE  AccountInv'
BY Zenon DEF AccountInv, Runs

\* send() is called: the number is a new one.
LEMMA AccountCall ==
  ASSUME AccountInv, ListInv, LifeInv, CallSend
  PROVE  AccountInv'
<1>1. /\ UNCHANGED <<commands, fifo, todo, reports, excused, crashed, isServer, isErasing>>
      /\ app = "idle" /\ app' = "send" /\ pointer = "valid"
      /\ calls' = calls + 1 /\ sending' = calls + 1
  BY Zenon DEF CallSend, connection
<1>2. calls \in Nat /\ sending = 0
  BY <1>1 DEF ListInv, AccountInv
<1>3. /\ 1..calls \subseteq 1..(calls + 1) /\ calls + 1 \in 0..(calls + 1) /\ calls + 1 # 0
      /\ calls + 1 \notin 1..calls
      /\ \A n \in 1..(calls + 1) : n # calls + 1 => n \in 1..calls /\ n # 0
  BY <1>2
<1>4. Apart(PacketsIn(commands), PacketsIn(fifo), PacketsDue(todo), PacketsIn(reports),
            calls + 1, calls + 1)
  <2>1. Apart(PacketsIn(commands), PacketsIn(fifo), PacketsDue(todo), PacketsIn(reports),
              sending, calls)
    BY Zenon DEF AccountInv
  <2> QED BY Zenon, <1>3, <2>1 DEF Apart
<1>5. Runs' => Covered(PacketsIn(commands) \cup PacketsIn(fifo) \cup PacketsDue(todo)
                         \cup PacketsIn(reports), calls + 1, calls + 1, excused, IsLost(todo))
  BY Zenon, <1>1, <1>2, <1>3 DEF AccountInv, Covered, Runs
<1>6. isServer /\ isErasing => IsLost(todo)
  BY Zenon, <1>1 DEF LifeInv, IsLost
<1> QED BY Zenon, <1>1, <1>3, <1>4, <1>5, <1>6 DEF AccountInv

\* send() puts its packet into the queue and returns
LEMMA AccountEmplace ==
  ASSUME AccountInv, ListInv, Emplace
  PROVE  AccountInv'
<1>1. /\ UNCHANGED <<fifo, todo, reports, calls, excused, crashed, isServer, isErasing>>
      /\ app = "emplace" /\ app' = "idle"
      /\ commands' = Append(commands, sending) /\ sending' = 0
  BY Zenon DEF Emplace, connection, history
<1>2. Apart(PacketsIn(commands), PacketsIn(fifo), PacketsDue(todo), PacketsIn(reports),
            sending, calls)
  BY Zenon DEF AccountInv
<1>3. Once(commands)' /\ PacketsIn(commands)' = PacketsIn(commands) \cup {sending}
  <2>1. /\ commands \in Seq(Nat) /\ Once(commands) /\ sending \in Nat
        /\ sending \notin PacketsIn(commands)
    BY <1>1, <1>2 DEF AccountInv, ListInv, Apart
  <2> QED BY <1>1, <2>1, AppendPackets
<1>4. sending # 0 /\ sending \in 1..calls /\ 0 \in 0..calls /\ 0 \notin 1..calls
  <2>1. sending # 0
    BY Zenon, <1>1 DEF AccountInv
  <2>2. sending \in 0..calls /\ calls \in Nat
    BY Zenon, <1>2 DEF ListInv, Apart
  <2> QED BY <2>1, <2>2
<1>5. Apart(PacketsIn(commands)', PacketsIn(fifo), PacketsDue(todo), PacketsIn(reports), 0, calls)
  BY Zenon, <1>2, <1>3, <1>4 DEF Apart
<1>6. Runs' => Covered(PacketsIn(commands)' \cup PacketsIn(fifo) \cup PacketsDue(todo)
                         \cup PacketsIn(reports), 0, calls, excused, IsLost(todo))
  BY Zenon, <1>1, <1>3 DEF AccountInv, Covered, Runs
<1> QED BY Zenon, <1>1, <1>3, <1>5, <1>6 DEF AccountInv

\* connect() to another address and stop(): what is in the streams is reported.
LEMMA AccountInterrupt ==
  ASSUME AccountInv, ListInv, commands' = <<>>, fifo' = <<>>, reports' = reports \o fifo,
         excused' = calls, UNCHANGED <<todo, sending, calls>>,
         app' \in {"send", "emplace"} <=> app \in {"send", "emplace"}
  PROVE  AccountInv'
<1>1. Apart(PacketsIn(commands), PacketsIn(fifo), PacketsDue(todo), PacketsIn(reports),
            sending, calls)
  BY Zenon DEF AccountInv
<1>2. reports' \in Seq(Nat) /\ Once(reports)' /\ PacketsIn(reports)' = PacketsIn(reports) \cup PacketsIn(fifo)
  <2>1. PacketsIn(reports) \cap PacketsIn(fifo) = {}
    BY Zenon, <1>1 DEF Apart
  <2>2. reports \in Seq(Nat) /\ fifo \in Seq(Nat) /\ Once(reports) /\ Once(fifo)
    BY Zenon DEF AccountInv, ListInv
  <2> QED BY Zenon, <2>1, <2>2, ConcatPackets
<1>3. Once(<<>>) /\ PacketsIn(<<>>) = {}
  BY NonePackets
<1>4. Apart({}, {}, PacketsDue(todo), PacketsIn(reports)', sending, calls)
  BY Zenon, <1>1, <1>2 DEF Apart
<1>5. \A n \in 1..calls : n <= calls
  BY DEF ListInv
<1>6. \A p : Covered(p, sending, calls, calls, IsLost(todo))
  BY Zenon, <1>5 DEF Covered
<1> QED BY Zenon, <1>2, <1>3, <1>4, <1>6 DEF AccountInv

\* no step of the application's thread loses or doubles a packet
LEMMA AppAccount ==
  ASSUME AccountInv, ListInv, LifeInv, AppNext
  PROVE  AccountInv'
<1>1. CASE CallSend
  BY Zenon, <1>1, AccountCall
<1>2. CASE LockToSend
  BY <1>2, AccountSame DEF LockToSend, connection, history
<1>3. CASE Emplace
  BY Zenon, <1>3, AccountEmplace
<1>4. CASE CallDisconnect
  BY <1>4, AccountSame DEF CallDisconnect, connection, history
<1>5. CASE RequestDisconnect
  BY <1>5, AccountSame DEF RequestDisconnect, connection, history
<1>6. CASE Connect
  BY <1>6, AccountSame DEF Connect, connection, history
<1>7. CASE ConnectElsewhere
  <2>1. UNCHANGED <<app, todo, sending, calls, isServer, isErasing>>
    BY Zenon, <1>7 DEF ConnectElsewhere, connection
  <2>2. CASE /\ commands' = <<>> /\ fifo' = <<>> /\ reports' = reports \o fifo
             /\ excused' = calls
    BY Zenon, <2>1, <2>2, AccountInterrupt
  <2>3. CASE UNCHANGED <<commands, fifo, reports, excused>> /\ crashed' = "connect"
    <3>1. ~Runs'
      BY <2>3 DEF Runs
    <3> QED BY Zenon, <2>1, <2>3, <3>1 DEF AccountInv
  <2> QED BY Zenon, <1>7, <2>2, <2>3 DEF ConnectElsewhere
<1>8. CASE CallStop
  BY <1>8, AccountSame DEF CallStop, connection, history
<1>9. CASE Join
  BY <1>9, AccountSame DEF Join, connection, history
<1>10. CASE Interrupt
  <2>1. /\ UNCHANGED <<todo, sending, calls, crashed, isServer, isErasing>>
        /\ app = "interrupt" /\ app' = "stopped"
    BY Zenon, <1>10 DEF Interrupt
  <2>2. app' \in {"send", "emplace"} <=> app \in {"send", "emplace"}
    BY <2>1
  <2>3. CASE isConnected
    <3>1. /\ commands' = <<>> /\ fifo' = <<>>
          /\ reports' = reports \o fifo /\ excused' = calls
      BY Zenon, <1>10, <2>3 DEF Interrupt
    <3> QED BY Zenon, <2>1, <2>2, <3>1, AccountInterrupt
  <2>4. CASE ~isConnected
    <3>1. UNCHANGED <<commands, fifo, reports, excused>>
      BY Zenon, <1>10, <2>4 DEF Interrupt
    <3> QED BY Zenon, <2>1, <2>2, <3>1, AccountSame
  <2> QED BY <2>3, <2>4
<1> QED
  BY <1>1, <1>2, <1>3, <1>4, <1>5, <1>6, <1>7, <1>8, <1>9, <1>10 DEF AppNext

-----------------------------------------------------------------------------
(* The steps of the network thread *)

\* The first packets of the streams become due; the rest stays.
LEMMA AccountReport ==
  ASSUME AccountInv, ListInv, todo = <<>>, NEW k \in 0..Len(fifo),
         fifo' = SubSeq(fifo, k + 1, Len(fifo)),
         OnceDue(todo'), PacketsDue(todo') = PacketsIn(SubSeq(fifo, 1, k)),
         UNCHANGED <<commands, reports, sending, calls, excused, crashed, app>>,
         ~(isServer' /\ isErasing') \/ (isServer /\ isErasing)
  PROVE  AccountInv'
<1>1. Apart(PacketsIn(commands), PacketsIn(fifo), {}, PacketsIn(reports), sending, calls)
  BY Zenon, NonePackets DEF AccountInv
<1>2. /\ Once(fifo)'
      /\ PacketsIn(SubSeq(fifo, 1, k)) \cap PacketsIn(fifo)' = {}
      /\ PacketsIn(SubSeq(fifo, 1, k)) \cup PacketsIn(fifo)' = PacketsIn(fifo)
  <2>1. fifo \in Seq(Nat) /\ Once(fifo)
    BY Zenon DEF AccountInv, ListInv
  <2> QED BY Zenon, <2>1, SplitPackets
<1>3. Apart(PacketsIn(commands), PacketsIn(fifo)', PacketsDue(todo)', PacketsIn(reports),
            sending, calls)
  BY ZenonT(60), SMTT(60), <1>1, <1>2 DEF Apart
<1>4. ~IsLost(todo) /\ PacketsDue(todo) = {}
  BY Zenon, NoCalls, NonePackets DEF IsLost
<1>5. Runs' => Covered(PacketsIn(commands) \cup PacketsIn(fifo)' \cup PacketsDue(todo)'
                         \cup PacketsIn(reports), sending, calls, excused, IsLost(todo)')
  BY Zenon, <1>2, <1>4 DEF AccountInv, Covered, Runs
<1>6. isServer' /\ isErasing' => excused = calls
  BY Zenon, <1>4 DEF AccountInv
<1> QED BY Zenon, <1>2, <1>3, <1>5, <1>6 DEF AccountInv

\* the packets of a stream are no zeros
LEMMA FifoPackets ==
  ASSUME AccountInv
  PROVE  0 \notin PacketsIn(fifo)
<1>1. PacketsIn(fifo) \subseteq 1..calls
  BY Zenon DEF AccountInv, Apart
<1>2. 0 \notin 1..calls
  OBVIOUS
<1> QED BY Zenon, <1>1, <1>2

\* the callbacks for the first k packets of the streams
LEMMA ReportedPackets ==
  ASSUME AccountInv, ListInv, NEW k \in 0..Len(fifo), NEW status \in Callbacks
  PROVE  LET p == SubSeq(fifo, 1, k)
             d == Delivered(status, p)
         IN  d \in Seq(Due) /\ OnceDue(d) /\ PacketsDue(d) = PacketsIn(p)
<1> DEFINE p == SubSeq(fifo, 1, k)
<1>1. fifo \in Seq(Nat) /\ Once(fifo)
  BY Zenon DEF AccountInv, ListInv
<1>2. p \in Seq(Nat) /\ Once(p) /\ PacketsIn(p) \subseteq PacketsIn(fifo)
  <2> DEFINE b == SubSeq(fifo, k + 1, Len(fifo))
  <2>1. p \in Seq(Nat) /\ Once(p) /\ PacketsIn(p) \cup PacketsIn(b) = PacketsIn(fifo)
    BY Zenon, <1>1, SplitPackets
  <2> HIDE DEF p, b
  <2> QED BY Zenon, <2>1
<1> HIDE DEF p
<1>3. 0 \notin PacketsIn(p)
  BY Zenon, <1>2, FifoPackets
<1>4. Delivered(status, p) \in Seq(Due)
  BY Zenon, <1>2, DeliveredCalls
<1> QED BY Zenon, <1>2, <1>3, <1>4, DeliveredPackets DEF p

\* a TypeA: the packets acknowledged become due, between other callbacks
LEMMA AccountReceive ==
  ASSUME AccountInv, ListInv, TodoInv, ReceivePacket
  PROVE  AccountInv'
<1>1. PICK acked \in 0..Len(fifo), received \in {<<>>, <<<<"onReceived", 0>>>>} :
        /\ todo' = (IF isConnected THEN <<>> ELSE <<<<"onConnected", 0>>>>)
                     \o Delivered("onDelivered s", SubSeq(fifo, 1, acked)) \o received
        /\ fifo' = SubSeq(fifo, acked + 1, Len(fifo))
  BY Zenon DEF ReceivePacket
<1>2. /\ net = "receive" /\ ~(isServer /\ isErasing)
      /\ UNCHANGED <<commands, reports, sending, calls, excused, crashed, app, isServer, isErasing>>
  BY Zenon DEF ReceivePacket, history
<1>3. todo = <<>>
  BY <1>2 DEF TodoInv
<1> DEFINE a == IF isConnected THEN <<>> ELSE <<<<"onConnected", 0>>>>
           p == SubSeq(fifo, 1, acked)
           d == Delivered("onDelivered s", p)
<1>4. todo' = (a \o d) \o received
  BY <1>1
<1>5. d \in Seq(Due) /\ OnceDue(d) /\ PacketsDue(d) = PacketsIn(p)
  <2>1. "onDelivered s" \in Callbacks
    BY DEF Callbacks
  <2> QED BY Zenon, <2>1, ReportedPackets
<1>6. \A c : \A i \in 1..Len(<<<<c, 0>>>>) : <<<<c, 0>>>>[i][2] = 0
  <2> SUFFICES ASSUME NEW c, NEW i \in 1..Len(<<<<c, 0>>>>) PROVE <<<<c, 0>>>>[i][2] = 0
    OBVIOUS
  <2>1. i = 1
    OBVIOUS
  <2> QED BY <2>1
<1>7. /\ a \in Seq(Due) /\ received \in Seq(Due)
      /\ \A i \in 1..Len(a) : a[i][2] = 0
      /\ \A i \in 1..Len(received) : received[i][2] = 0
  <2>1. <<>> \in Seq(Due) /\ \A i \in 1..Len(<<>>) : <<>>[i][2] = 0
    OBVIOUS
  <2>2. <<<<"onConnected", 0>>>> \in Seq(Due) /\ <<<<"onReceived", 0>>>> \in Seq(Due)
    BY SingleCall DEF Callbacks
  <2>3. CASE isConnected
    BY ZenonT(60), <1>6, <2>1, <2>2, <2>3
  <2>4. CASE ~isConnected
    BY ZenonT(60), <1>6, <2>1, <2>2, <2>4
  <2> QED BY <2>3, <2>4
<1> HIDE DEF a, d, p
<1>8. a \o d \in Seq(Due) /\ OnceDue(a \o d) /\ PacketsDue(a \o d) = PacketsIn(p)
  BY Zenon, <1>5, <1>7, PlainCalls, ConcatLen
<1>9. OnceDue(todo') /\ PacketsDue(todo') = PacketsIn(p)
  BY Zenon, <1>4, <1>7, <1>8, PlainCalls
<1> QED BY Zenon, <1>1, <1>2, <1>3, <1>9, AccountReport DEF p

\* processConnection: the packets done become due
LEMMA AccountProcess ==
  ASSUME AccountInv, ListInv, TodoInv, ProcessConnection
  PROVE  AccountInv'
<1>1. PICK done \in 0..Len(fifo), status \in {"onDelivered s", "onDelivered t"} :
        /\ todo' = Delivered(status, SubSeq(fifo, 1, done))
        /\ fifo' = SubSeq(fifo, done + 1, Len(fifo))
  BY Zenon DEF ProcessConnection
<1>2. /\ net = "loop"
      /\ UNCHANGED <<commands, reports, sending, calls, excused, crashed, app, isServer, isErasing>>
  BY Zenon DEF ProcessConnection, history, connection
<1>3. todo = <<>>
  BY <1>2 DEF TodoInv
<1>4. status \in Callbacks
  BY DEF Callbacks
<1>5. OnceDue(todo') /\ PacketsDue(todo') = PacketsIn(SubSeq(fifo, 1, done))
  BY Zenon, <1>1, <1>4, ReportedPackets
<1> QED BY Zenon, <1>1, <1>2, <1>3, <1>5, AccountReport

\* A Disconnect, a requested disconnect, a timeout: every packet of the streams
\* becomes due, those in commands are covered by the onDisconnected behind them.
LEMMA AccountLost ==
  ASSUME AccountInv, ListInv, todo = <<>>, commands' = <<>> \/ commands' = commands,
         fifo' = <<>>, todo' \in Disconnected, UNCHANGED <<reports, sending, calls, excused, app>>
  PROVE  AccountInv'
<1>1. Apart(PacketsIn(commands), PacketsIn(fifo), {}, PacketsIn(reports), sending, calls)
  BY Zenon, NonePackets DEF AccountInv
<1>2. Once(<<>>) /\ PacketsIn(<<>>) = {}
  BY NonePackets
<1>3. IsLost(todo')
  BY Zenon, DisconnectedCalls DEF IsLost, ListInv
<1>4. OnceDue(todo') /\ PacketsDue(todo') = PacketsIn(fifo)
  <2> DEFINE d == Delivered("onDelivered d", fifo)
             r == <<<<"onReceived d", 0>>>>
             e == <<<<"onDisconnected", 0>>>>
  <2>1. {"onDelivered d", "onReceived d", "onDisconnected"} \subseteq Callbacks
    BY DEF Callbacks
  <2>2. fifo \in Seq(Nat) /\ Once(fifo) /\ 0 \notin PacketsIn(fifo)
    BY Zenon, FifoPackets DEF AccountInv, ListInv
  <2>3. d \in Seq(Due) /\ OnceDue(d) /\ PacketsDue(d) = PacketsIn(fifo)
    BY Zenon, <2>1, <2>2, DeliveredCalls, DeliveredPackets
  <2>4. /\ r \in Seq(Due) /\ \A i \in 1..Len(r) : r[i][2] = 0
        /\ e \in Seq(Due) /\ \A i \in 1..Len(e) : e[i][2] = 0
    <3>1. Len(r) = 1 /\ r[1][2] = 0 /\ Len(e) = 1 /\ e[1][2] = 0
      OBVIOUS
    <3>2. (\A i \in 1..Len(r) : i = 1) /\ \A i \in 1..Len(e) : i = 1
      OBVIOUS
    <3>3. "onReceived d" \in Callbacks /\ "onDisconnected" \in Callbacks
      BY <2>1
    <3> QED BY Zenon, <3>1, <3>2, <3>3, SingleCall
  <2>5. todo' = (d \o <<>>) \o e \/ todo' = (d \o r) \o e
    BY Zenon DEF Disconnected
  <2> HIDE DEF d, r, e
  <2>6. d \o <<>> = d
    BY <2>3
  <2>7. d \o r \in Seq(Due)
    BY <2>3, <2>4, ConcatLen
  <2>8. OnceDue(d \o r) /\ PacketsDue(d \o r) = PacketsIn(fifo)
    BY ZenonT(60), SMTT(60), <2>3, <2>4, PlainCalls
  <2>9. PICK b \in {d, d \o r} : todo' = b \o e
    BY Zenon, <2>5, <2>6
  <2>10. b \in Seq(Due) /\ OnceDue(b) /\ PacketsDue(b) = PacketsIn(fifo)
    BY Zenon, <2>3, <2>7, <2>8
  <2> QED BY ZenonT(60), SMTT(60), <2>4, <2>9, <2>10, PlainCalls
<1>5. Once(commands)' /\ PacketsIn(commands)' \subseteq PacketsIn(commands)
  BY Zenon, <1>2 DEF AccountInv
<1>6. Apart(PacketsIn(commands)', {}, PacketsDue(todo)', PacketsIn(reports), sending, calls)
  BY Zenon, <1>1, <1>4, <1>5 DEF Apart
<1>7. \A p : Covered(p, sending, calls, excused, IsLost(todo)')
  BY Zenon, <1>3 DEF Covered
<1> QED BY Zenon, <1>2, <1>3, <1>4, <1>5, <1>6, <1>7 DEF AccountInv

\* doCommands: the packets in the queue follow those in the streams
LEMMA AccountCommands ==
  ASSUME AccountInv, ListInv, fifo' = fifo \o commands, commands' = <<>>,
         UNCHANGED <<todo, reports, sending, calls, excused, app, isServer, isErasing>>, Runs
  PROVE  AccountInv'
<1>1. Apart(PacketsIn(commands), PacketsIn(fifo), PacketsDue(todo), PacketsIn(reports),
            sending, calls)
  BY Zenon DEF AccountInv
<1>2. Once(<<>>) /\ PacketsIn(<<>>) = {}
  BY NonePackets
<1>3. Once(fifo)' /\ PacketsIn(fifo)' = PacketsIn(fifo) \cup PacketsIn(commands)
  <2>1. PacketsIn(fifo) \cap PacketsIn(commands) = {}
    BY Zenon, <1>1 DEF Apart
  <2>2. fifo \in Seq(Nat) /\ commands \in Seq(Nat) /\ Once(fifo) /\ Once(commands)
    BY Zenon DEF AccountInv, ListInv
  <2> QED BY Zenon, <2>1, <2>2, ConcatPackets
<1>4. Apart({}, PacketsIn(fifo)', PacketsDue(todo), PacketsIn(reports), sending, calls)
  BY Zenon, <1>1, <1>3 DEF Apart
<1>5. Covered({} \cup PacketsIn(fifo)' \cup PacketsDue(todo) \cup PacketsIn(reports),
              sending, calls, excused, IsLost(todo))
  BY Zenon, <1>3 DEF AccountInv, Covered
<1> QED BY Zenon, <1>2, <1>3, <1>4, <1>5 DEF AccountInv

\* A server's connection is erased with its packets when nothing is due any more
\* and every call of send precedes an onDisconnected.
LEMMA AccountErase ==
  ASSUME AccountInv, ListInv, todo = <<>>, Erase,
         UNCHANGED <<isServer, app, reports, sending, calls, excused, crashed>>
  PROVE  AccountInv'
<1>1. /\ isErasing /\ isErasing' = FALSE /\ todo' = todo
      /\ IF isServer THEN commands' = <<>> /\ fifo' = <<>> ELSE UNCHANGED <<commands, fifo>>
  BY Zenon DEF Erase
<1>2. CASE ~isServer
  BY Zenon, <1>1, <1>2 DEF AccountInv, Runs
<1>3. CASE isServer
  <2>1. Apart(PacketsIn(commands), PacketsIn(fifo), PacketsDue(todo), PacketsIn(reports),
              sending, calls)
    BY Zenon DEF AccountInv
  <2>2. excused = calls
    BY Zenon, <1>1, <1>3, NoCalls DEF AccountInv, IsLost
  <2>3. Once(<<>>) /\ PacketsIn(<<>>) = {}
    BY NonePackets
  <2>4. Apart({}, {}, PacketsDue(todo), PacketsIn(reports), sending, calls)
    BY Zenon, <2>1 DEF Apart
  <2>5. \A n \in 1..calls : n <= calls
    BY DEF ListInv
  <2>6. \A p : Covered(p, sending, calls, excused, IsLost(todo))
    BY Zenon, <2>2, <2>5 DEF Covered
  <2> QED BY Zenon, <1>1, <1>3, <2>3, <2>4, <2>6 DEF AccountInv
<1> QED BY <1>2, <1>3

\* The packet of a callback goes from those due to the reports; in the callback
\* a new one may be sent.
LEMMA AccountCallback ==
  ASSUME AccountInv, ListInv, LifeInv', Callback
  PROVE  AccountInv'
<1> DEFINE c == Head(todo)[1]
           n == Head(todo)[2]
           isSent == calls' = calls + 1 /\ commands' = Append(commands, calls + 1)
                     /\ pointer' = "valid"
<1>1. /\ Runs /\ todo # <<>> /\ todo' = Tail(todo)
      /\ UNCHANGED <<fifo, sending, crashed, app, isServer, isErasing>>
      /\ reports' = IF n > 0 THEN Append(reports, n) ELSE reports
      /\ excused' = IF c = "onDisconnected" THEN calls ELSE excused
      /\ isSent \/ UNCHANGED <<calls, commands>>
  BY Zenon DEF Callback, connection
<1>2. /\ n \in Nat /\ OnceDue(todo') /\ n \notin PacketsDue(todo')
      /\ PacketsDue(todo) = PacketsDue(todo') \cup ({n} \ {0})
  <2>1. todo \in Seq(Due) /\ OnceDue(todo)
    BY Zenon DEF AccountInv, ListInv
  <2> QED BY Zenon, <1>1, <2>1, NextPacket
<1>3. IsLost(todo) <=> c = "onDisconnected" \/ IsLost(todo')
  BY Zenon, <1>1, TailCalls DEF ListInv, IsLost
<1>4. Apart(PacketsIn(commands), PacketsIn(fifo), PacketsDue(todo), PacketsIn(reports),
            sending, calls)
  BY Zenon DEF AccountInv
<1> HIDE DEF c, n
<1>5. /\ reports' \in Seq(Nat) /\ Once(reports')
      /\ PacketsIn(reports') = PacketsIn(reports) \cup ({n} \ {0})
  <2>1. CASE n > 0
    <3>1. n # 0
      BY <2>1
    <3>2. n \notin PacketsIn(reports)
      BY Zenon, <1>2, <1>4, <3>1 DEF Apart
    <3>3. reports \in Seq(Nat) /\ Once(reports)
      BY Zenon DEF AccountInv
    <3>4. reports' = Append(reports, n)
      BY Zenon, <1>1, <2>1
    <3>5. /\ reports' \in Seq(Nat) /\ Once(reports')
          /\ PacketsIn(reports') = PacketsIn(reports) \cup {n}
      BY Zenon, <1>2, <3>2, <3>3, <3>4, AppendPackets
    <3> QED BY Zenon, <3>1, <3>5
  <2>2. CASE ~(n > 0)
    <3>1. n = 0
      BY <1>2, <2>2
    <3> QED BY Zenon, <1>1, <2>2, <3>1 DEF AccountInv
  <2> QED BY <2>1, <2>2
<1>6. Apart(PacketsIn(commands), PacketsIn(fifo), PacketsDue(todo'), PacketsIn(reports'),
            sending, calls)
  BY Zenon, <1>2, <1>4, <1>5 DEF Apart
<1>7. Covered(PacketsIn(commands) \cup PacketsIn(fifo) \cup PacketsDue(todo') \cup PacketsIn(reports'),
              sending, calls, excused', IsLost(todo'))
  <2>1. CASE c = "onDisconnected"
    <3>1. excused' = calls /\ \A i \in 1..calls : i <= calls
      BY <1>1, <2>1 DEF ListInv
    <3> QED BY Zenon, <3>1 DEF Covered
  <2>2. CASE c # "onDisconnected"
    BY Zenon, <1>1, <1>2, <1>3, <1>5, <2>2 DEF AccountInv, Covered
  <2> QED BY <2>1, <2>2
<1>8. isServer /\ isErasing /\ ~IsLost(todo') => excused' = calls /\ UNCHANGED <<calls, commands>>
  <2> SUFFICES ASSUME isServer, isErasing, ~IsLost(todo')
               PROVE  excused' = calls /\ UNCHANGED <<calls, commands>>
    OBVIOUS
  <2>1. pointer' # "valid"
    BY Zenon, <1>1 DEF LifeInv, IsLost
  <2>2. excused' = calls
    BY Zenon, <1>1, <1>3 DEF AccountInv
  <2> QED BY Zenon, <1>1, <2>1, <2>2
<1>9. CASE UNCHANGED <<calls, commands>>
  BY Zenon, <1>1, <1>2, <1>5, <1>6, <1>7, <1>8, <1>9 DEF AccountInv, Runs
<1>10. CASE isSent
  <2>1. calls \in Nat /\ commands \in Seq(Nat) /\ Once(commands)
    BY Zenon DEF AccountInv, ListInv
  <2>2. /\ calls + 1 \in Nat /\ calls + 1 \in 1..(calls + 1) /\ calls + 1 \notin 0..calls
        /\ 1..calls \subseteq 1..(calls + 1) /\ 1..calls \subseteq 0..calls
        /\ 0..calls \subseteq 0..(calls + 1)
        /\ \A i \in 1..(calls + 1) : i = calls + 1 \/ i \in 1..calls
    BY <2>1
  <2>3. Once(commands') /\ PacketsIn(commands') = PacketsIn(commands) \cup {calls + 1}
    <3>1. calls + 1 \notin PacketsIn(commands)
      BY Zenon, <1>4, <2>2 DEF Apart
    <3>2. commands' = Append(commands, calls + 1)
      BY Zenon, <1>10
    <3> QED BY Zenon, <2>1, <2>2, <3>1, <3>2, AppendPackets
  <2>4. Apart(PacketsIn(commands'), PacketsIn(fifo), PacketsDue(todo'), PacketsIn(reports'),
              sending, calls + 1)
    BY Zenon, <1>6, <2>2, <2>3 DEF Apart
  <2>5. Covered(PacketsIn(commands') \cup PacketsIn(fifo) \cup PacketsDue(todo')
                  \cup PacketsIn(reports'), sending, calls + 1, excused', IsLost(todo'))
    BY Zenon, <1>7, <2>2, <2>3 DEF Covered
  <2>6. isServer /\ isErasing => IsLost(todo')
    <3>1. calls' # calls
      BY <1>10, <2>1
    <3> QED BY Zenon, <1>8, <3>1
  <2>7. calls' = calls + 1
    BY Zenon, <1>10
  <2> HIDE DEF isSent
  <2> QED BY Zenon, <1>1, <1>2, <1>5, <2>3, <2>4, <2>5, <2>6, <2>7 DEF AccountInv
<1> QED BY Zenon, <1>1, <1>9, <1>10

\* no step of the network thread loses or doubles a packet
LEMMA NetAccount ==
  ASSUME AccountInv, ListInv, TodoInv, LifeInv', NetNext
  PROVE  AccountInv'
<1>1. CASE ReceivePacket
  BY Zenon, <1>1, AccountReceive
<1>2. CASE ReceiveDisconnect
  <2>1. /\ net = "receive" /\ (commands' = <<>> \/ commands' = commands) /\ fifo' = <<>>
        /\ todo' \in Disconnected /\ UNCHANGED <<reports, sending, calls, excused, app>>
    BY Zenon, <1>2 DEF ReceiveDisconnect, history
  <2>2. todo = <<>>
    BY <2>1 DEF TodoInv
  <2> QED BY Zenon, <2>1, <2>2, AccountLost
<1>3. CASE Received
  BY <1>3, AccountSame DEF Received, connection, history
<1>4. CASE Lock
  BY <1>4, AccountSame DEF Lock, connection, history
<1>5. CASE DoCommands
  <2>1. UNCHANGED <<todo, reports, sending, calls, excused, app, isServer, isErasing>> /\ Runs
    BY Zenon, <1>5 DEF DoCommands, connection, history
  <2>2. CASE exists
    <3>1. fifo' = fifo \o commands /\ commands' = <<>>
      BY Zenon, <1>5, <2>2 DEF DoCommands
    <3> QED BY Zenon, <2>1, <3>1, AccountCommands
  <2>3. CASE ~exists
    <3>1. UNCHANGED <<fifo, commands, crashed>>
      BY Zenon, <1>5, <2>3 DEF DoCommands
    <3> QED BY Zenon, <2>1, <3>1, AccountSame
  <2> QED BY <2>2, <2>3
<1>6. CASE CheckConnection
  <2>1. /\ net = "check"
        /\ UNCHANGED <<isServer, app, reports, sending, calls, excused, crashed>>
    BY Zenon, <1>6 DEF CheckConnection, history
  <2>2. todo = <<>>
    BY <2>1 DEF TodoInv
  <2>3. CASE Close \/ TimeOut
    <3>1. commands' = <<>> /\ fifo' = <<>> /\ todo' \in Disconnected
      BY Zenon, <2>3 DEF Close, TimeOut, Drop
    <3> QED BY Zenon, <2>1, <2>2, <3>1, AccountLost
  <2>4. CASE Erase
    BY Zenon, <2>1, <2>2, <2>4, AccountErase
  <2>5. CASE UNCHANGED <<connection, commands, fifo, todo>>
    BY Zenon, <2>1, <2>5, AccountSame DEF connection
  <2> QED BY Zenon, <1>6, <2>3, <2>4, <2>5 DEF CheckConnection
<1>7. CASE Unlock
  BY <1>7, AccountSame DEF Unlock, connection, history
<1>8. CASE ProcessConnection
  BY Zenon, <1>8, AccountProcess
<1>9. CASE While
  BY <1>9, AccountSame DEF While, connection, history
<1>10. CASE Callback
  BY Zenon, <1>10, AccountCallback
<1> QED
  BY <1>1, <1>2, <1>3, <1>4, <1>5, <1>6, <1>7, <1>8, <1>9, <1>10 DEF NetNext

\* A packet that send() has taken is never reported twice, and not forgotten by
\* doCommands, the streams, a Disconnect, a timeout, disconnect(), connect(), stop()
\* or the erasure of a server's connection: it is in commands, in its stream, about
\* to be reported or reported, or the loss of the connection is told.
THEOREM Accounted == Spec => []SendsAccounted
<1>1. Init => AccountInv
  <2> SUFFICES ASSUME Init PROVE AccountInv
    OBVIOUS
  <2>1. /\ commands = <<>> /\ fifo = <<>> /\ todo = <<>> /\ reports = <<>> /\ sending = 0
        /\ calls = 0 /\ app = "idle" /\ excused = 0
    BY Zenon DEF Init
  <2>2. Apart({}, {}, {}, {}, 0, 0)
    BY DEF Apart
  <2>3. \A p, e, b : Covered(p, 0, 0, e, b)
    BY DEF Covered
  <2>4. <<>> \in Seq(Nat) /\ "idle" \notin {"send", "emplace"}
    OBVIOUS
  <2> QED BY Zenon, <2>1, <2>2, <2>3, <2>4, NonePackets DEF AccountInv
<1>2. AccountInv /\ ListInv /\ TodoInv /\ LifeInv /\ LifeInv' /\ [Next]_vars => AccountInv'
  <2> SUFFICES ASSUME AccountInv, ListInv, TodoInv, LifeInv, LifeInv', [Next]_vars
               PROVE  AccountInv'
    OBVIOUS
  <2>1. CASE UNCHANGED vars
    BY <2>1, AccountSame DEF vars, connection, history
  <2> QED BY <2>1, AppAccount, NetAccount DEF Next
<1>3. AccountInv => SendsAccounted
  <2> SUFFICES ASSUME AccountInv PROVE SendsAccounted
    OBVIOUS
  <2>1. ASSUME Runs, NEW n \in (1..calls) \ {sending}
        PROVE  \/ n \in PacketsIn(commands) \cup PacketsIn(fifo) \cup PacketsIn(reports)
               \/ n <= excused
               \/ \E i \in 1..Len(todo) : todo[i][2] = n \/ todo[i][1] = "onDisconnected"
    <3>1. \/ n \in PacketsIn(commands) \cup PacketsIn(fifo) \cup PacketsDue(todo)
                     \cup PacketsIn(reports)
          \/ n <= excused \/ IsLost(todo)
      BY Zenon, <2>1 DEF AccountInv, Covered
    <3> QED BY Zenon, <3>1 DEF IsLost, HasCall, PacketsDue
  <2>2. Once(reports)
    BY Zenon DEF AccountInv
  <2> QED BY Zenon, <2>1, <2>2 DEF SendsAccounted, Once
<1> QED BY <1>1, <1>2, <1>3, TodoInvariant, LifeInvariant, PTL DEF Spec
=============================================================================
