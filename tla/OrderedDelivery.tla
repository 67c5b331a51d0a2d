-------------------------- MODULE OrderedDelivery --------------------------
(***************************************************************************)
(* What a stream promises the two applications, without chunks, fifos or a *)
(* network.  Packets are numbered from 0 in the order they are sent.       *)
(***************************************************************************)
EXTENDS Naturals, Sequences

VARIABLES
  sent,       \* packets sent so far
  through,    \* packets the receiver is through with: reported or complete
  received,   \* the calls of onReceived: packet and status, "p" for a part of it
  reported    \* what onDelivered said of packet 0, 1, ...

vars == <<sent, through, received, reported>>

IsPrefixOf(s, t) == Len(s) <= Len(t) /\ \A i \in 1..Len(s) : t[i] = s[i]

IsEnd(call) == call.status # "p"

Init == sent = 0 /\ through = {} /\ received = <<>> /\ reported = <<>>

Send ==
  /\ sent' > sent
  /\ UNCHANGED <<through, received, reported>>

\* The receiver gets on: it never goes back on a packet, it knows only packets
\* that were sent, and reports ends in the order of the packets, once each.
Deliver ==
  /\ UNCHANGED <<sent, reported>>
  /\ through \subseteq through' /\ through' \subseteq 0..(sent - 1)
  /\ IsPrefixOf(received, received')
  /\ \A j \in (Len(received) + 1)..Len(received') :
       IsEnd(received'[j]) =>
         /\ received'[j].id \in through'
         /\ \A i \in 1..(j - 1) :
              IsEnd(received'[i]) => received'[i].id < received'[j].id

\* The sender hears of its packets in order; success of a reliable one only when
\* the receiver is through with it.
Report ==
  /\ Len(reported) < Len(reported') /\ Len(reported') <= sent
  /\ IsPrefixOf(reported, reported')
  /\ \A n \in (Len(reported) + 1)..Len(reported') :
       /\ reported'[n].id = n - 1
       /\ reported'[n].status = "s" /\ reported'[n].isReliable => n - 1 \in through
  /\ UNCHANGED <<sent, through, received>>

Next == Send \/ Deliver \/ Report

Spec == Init /\ [][Next]_vars
=============================================================================
