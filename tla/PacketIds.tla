----------------------------- MODULE PacketIds -----------------------------
(***************************************************************************)
(* Packet ids of a stream and the comparisons RxStream makes on them       *)
(* (Impl.hpp).  Ids are uint32_t counters that wrap after UINT32_MAX; the  *)
(* code tells "before" from "after" by quarters of the id space.           *)
(***************************************************************************)
EXTENDS Integers, Sequences

CONSTANT UINT32_MAX       \* 2^32 - 1 in the code, small for TLC

ASSUME IdSpaceAssumption == UINT32_MAX \in Nat /\ UINT32_MAX >= 15

PacketId == 0..UINT32_MAX

\* packetId + 1 and nextPacketId++ in uint32_t arithmetic
NextId(id) == IF id = UINT32_MAX THEN 0 ELSE id + 1

\* UINT32_MAX / 4 and UINT32_MAX / 4 * 3
Quarter == UINT32_MAX \div 4
ThreeQuarters == Quarter * 3

\* "low < UINT32_MAX / 4 and UINT32_MAX / 4 * 3 < high": low is taken to lie
\* after high, on the other side of the wrap
Wrapped(low, high) == low < Quarter /\ ThreeQuarters < high

Advance(front, id) == IF front < id \/ Wrapped(id, front) THEN id ELSE front

\* mutant: an isFront chunk sets the front without a comparison
updateFrontPacketId_Unguarded(front, shadow, isFront, id) ==
  IF isFront THEN id ELSE front

\* RxStream::updateFrontPacketId, with the ids of the fifo as shadow
updateFrontPacketId(front, shadow, isFront, id) ==
  LET caughtUp == IF shadow = <<>> THEN front ELSE Advance(front, Head(shadow))
  IN  IF isFront THEN Advance(caughtUp, id) ELSE caughtUp

\* RxStream::isReceivedBefore
isReceivedBefore(front, id) ==
  IF id < front THEN front - id <= Quarter ELSE id - front >= ThreeQuarters
=============================================================================
