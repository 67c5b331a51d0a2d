----------------------------- MODULE Priorities -----------------------------
(***************************************************************************)
(* The streams of one connection compete for the channel.  For every       *)
(* priority writeDataChunk looks, in turn, for a stream with a packet to   *)
(* send; among the priorities that have one it chooses by the share of     *)
(* bytes each was given since the last full second.                        *)
(* Which packet of a stream is sent is the business of TxStream: here a    *)
(* stream either has a packet that may be sent now or it has none.         *)
(***************************************************************************)
EXTENDS Naturals, Sequences, FiniteSets

CONSTANTS Streams,      \* stream ids
          ChunkSizes,   \* sizes of chunks in bytes
          MaxChunk,     \* an upper bound of them
          UINT32_MAX,   \* countSent_B and its products are uint32_t
          MaxTotal,     \* bound of the model: bytes sent in a second
          MaxChanges    \* bound of the model: commands and disconnections

Priority == {"Realtime", "High", "Medium", "Low"}

NoStream == "none"      \* the priority of an id that txStreams.map does not hold

ASSUME PrioritiesAssumption ==
  /\ UINT32_MAX \in Nat /\ MaxChunk \in Nat /\ MaxTotal \in Nat /\ MaxChanges \in Nat
  /\ ChunkSizes \subseteq 1..MaxChunk
  /\ IsFiniteSet(Streams)    \* an id is a uint8_t

VARIABLES
  priority,          \* txStreams.map: the priority of each stream it holds
  vec, vecIdx,       \* PriorityMeta::vec and vecIdx, per priority
  countSent_B,       \* PriorityMeta::countSent_B, per priority
  isStreamsChanged,
  mix, isSteady,     \* history: whether every choice of this second was among the
                     \* same priorities, and which those were
  passedOver,        \* history: how often a ready stream lost the turn in a row
  changes            \* bound of the model

vars == <<priority, vec, vecIdx, countSent_B, isStreamsChanged,
          mix, isSteady, passedOver, changes>>

InMap(s) == priority[s] # NoStream

Init ==
  /\ priority \in [Streams -> Priority \cup {NoStream}]
  /\ vec = [p \in Priority |-> <<>>]
  /\ vecIdx = [p \in Priority |-> 0]
  /\ countSent_B = [p \in Priority |-> 0]
  /\ isStreamsChanged = TRUE
  /\ mix = {} /\ isSteady = TRUE
  /\ passedOver = [s \in Streams |-> 0]
  /\ changes = 0

-----------------------------------------------------------------------------
(* Commands *)

Changed == changes < MaxChanges /\ changes' = changes + 1

\* The command of setTxStreamPriority; the reliability given with the priority
\* may be another one than the stream has.
SetTxStreamPriority_NoFlag(s, p, otherReliability) ==
  /\ Changed
  /\ priority' = [priority EXCEPT ![s] = p]
  /\ isStreamsChanged' = (isStreamsChanged \/ ~InMap(s))
  /\ UNCHANGED <<vec, vecIdx, countSent_B, mix, isSteady, passedOver>>

SetTxStreamPriority(s, p, otherReliability) ==
  /\ Changed
  /\ priority' = [priority EXCEPT ![s] = p]
  /\ isStreamsChanged' =
       (isStreamsChanged \/ ~InMap(s) \/ priority[s] # p \/ otherReliability)
  /\ UNCHANGED <<vec, vecIdx, countSent_B, mix, isSteady, passedOver>>

\* The first packet of a stream without a priority makes it a Medium one.
FirstSend(s) ==
  /\ ~InMap(s)
  /\ Changed
  /\ priority' = [priority EXCEPT ![s] = "Medium"]
  /\ isStreamsChanged' = TRUE
  /\ UNCHANGED <<vec, vecIdx, countSent_B, mix, isSteady, passedOver>>

\* Connection::onDisconnected destroys the streams, vec keeps their addresses.
OnDisconnected ==
  /\ Changed
  /\ priority' = [s \in Streams |-> NoStream]
  /\ isStreamsChanged' = TRUE
  /\ countSent_B' = [p \in Priority |-> 0]
  /\ mix' = {} /\ isSteady' = TRUE
  /\ UNCHANGED <<vec, vecIdx, passedOver>>

\* The once-a-second part of processConnection.
NextSecond ==
  /\ countSent_B' = [p \in Priority |-> 0]
  /\ mix' = {} /\ isSteady' = TRUE
  /\ UNCHANGED <<priority, vec, vecIdx, isStreamsChanged, passedOver, changes>>

-----------------------------------------------------------------------------
(* Choosing a stream *)

\* The orders in which an unordered_map may enumerate the streams of S.
Orders(S) == {q \in [1..Cardinality(S) -> S] :
                /\ \A i, j \in DOMAIN q : q[i] = q[j] => i = j
                /\ \A s \in S : \E i \in DOMAIN q : q[i] = s}

StreamsOf(p) == {s \in Streams : priority[s] = p}

\* The values vec may have after TxStreams::update.  Each stream goes to the
\* vector of its priority, in the order of the map; whatever orders the vectors
\* have, some order of the map gives them.
Updated ==
  IF isStreamsChanged
  THEN [Realtime : Orders(StreamsOf("Realtime")), High : Orders(StreamsOf("High")),
        Medium : Orders(StreamsOf("Medium")), Low : Orders(StreamsOf("Low"))]
  ELSE {vec}

\* The k-th stream of q from index idx on; an index left over from a longer
\* vector starts at the front.
Turn(q, idx, k) ==
  LET start == IF idx >= Len(q) THEN 0 ELSE idx
  IN  q[((start + k) % Len(q)) + 1]

\* streamByPriority[p]: the first stream from vecIdx on that has a packet.
StreamByPriority(q, idx, ready) ==
  LET k == CHOOSE i \in 0..(Len(q) - 1) :
             /\ Turn(q, idx, i) \in ready
             /\ \A j \in 0..(i - 1) : Turn(q, idx, j) \notin ready
  IN  Turn(q, idx, k)

NextIdx_Stays(q, idx) == IF idx >= Len(q) THEN 0 ELSE idx

NextIdx(q, idx) == IF idx + 1 >= Len(q) THEN 0 ELSE idx + 1

\* (count * 100) / total < percent in uint32_t; total counts one byte more.
Below(count, total, percent) ==
  ((count * 100) % (UINT32_MAX + 1)) \div (total + 1) < percent

TotalNonRT == countSent_B["High"] + countSent_B["Medium"] + countSent_B["Low"]

Total == countSent_B["Realtime"] + TotalNonRT

\* The priorities that may be chosen when those of R have a packet to send.
\* The pseudo-random index selects any priority of R.
RealtimeChoice_Half(R) ==
  IF Below(countSent_B["Realtime"], Total, 50) THEN {"Realtime"} ELSE R

RealtimeChoice(R) ==
  IF Below(countSent_B["Realtime"], Total, 98) THEN {"Realtime"} ELSE R

IsBelow(p, percent) == Below(countSent_B[p], TotalNonRT, percent)

ShareChoice_Swapped(R) ==
  CASE R = {"High", "Medium", "Low"} ->
         IF IsBelow("High", 80) THEN "High" ELSE IF IsBelow("Medium", 16) THEN "Medium" ELSE "Low"
    [] R = {"High", "Medium"} -> IF IsBelow("High", 84) THEN "High" ELSE "Medium"
    [] R = {"High", "Low"}    -> IF IsBelow("High", 5) THEN "High" ELSE "Low"
    [] R = {"Medium", "Low"}  -> IF IsBelow("Medium", 80) THEN "Medium" ELSE "Low"
    [] OTHER -> CHOOSE p \in R : TRUE

ShareChoice(R) ==
  CASE R = {"High", "Medium", "Low"} ->
         IF IsBelow("High", 80) THEN "High" ELSE IF IsBelow("Medium", 16) THEN "Medium" ELSE "Low"
    [] R = {"High", "Medium"} -> IF IsBelow("High", 84) THEN "High" ELSE "Medium"
    [] R = {"High", "Low"}    -> IF IsBelow("High", 95) THEN "High" ELSE "Low"
    [] R = {"Medium", "Low"}  -> IF IsBelow("Medium", 80) THEN "Medium" ELSE "Low"
    [] OTHER -> CHOOSE p \in R : TRUE

Choice(R) == IF "Realtime" \in R THEN RealtimeChoice(R) ELSE {ShareChoice(R)}

\* The streams of ready have a packet that may be sent.  The chosen stream loses
\* its turn whether its chunk, of written bytes, fits the datagram or not (0).
WriteDataChunk(ready, written) ==
  \E v \in Updated :
    LET R == {p \in Priority : \E i \in DOMAIN v[p] : v[p][i] \in ready}
    IN  /\ R # {}
        /\ Total + written <= MaxTotal
        /\ vec' = v /\ isStreamsChanged' = FALSE
        /\ \E p \in Choice(R) :
             LET chosen == StreamByPriority(v[p], vecIdx[p], ready)
                 before == [s \in Streams |-> IF isStreamsChanged THEN 0 ELSE passedOver[s]]
             IN  /\ vecIdx' = [vecIdx EXCEPT ![p] = NextIdx(v[p], @)]
                 /\ countSent_B' = [countSent_B EXCEPT ![p] = @ + written]
                 /\ passedOver' = [s \in Streams |->
                      IF s = chosen \/ s \notin ready THEN 0
                      ELSE IF priority[s] = p THEN before[s] + 1 ELSE before[s]]
        /\ isSteady' = (isSteady /\ mix \in {{}, R})
        /\ mix' = IF isSteady' THEN R ELSE {}
        /\ UNCHANGED <<priority, changes>>

Next ==
  \/ \E s \in Streams, p \in Priority, r \in BOOLEAN : SetTxStreamPriority(s, p, r)
  \/ \E s \in Streams : FirstSend(s)
  \/ OnDisconnected
  \/ NextSecond
  \/ \E ready \in SUBSET {s \in Streams : InMap(s)}, w \in ChunkSizes \cup {0} :
       WriteDataChunk(ready, w)

Spec == Init /\ [][Next]_vars

-----------------------------------------------------------------------------
(* Properties *)

PrioritiesTypeOK ==
  /\ priority \in [Streams -> Priority \cup {NoStream}]
  /\ \A p \in Priority : \A i \in DOMAIN vec[p] : vec[p][i] \in Streams
  /\ vecIdx \in [Priority -> Nat]
  /\ countSent_B \in [Priority -> Nat]
  /\ isStreamsChanged \in BOOLEAN /\ isSteady \in BOOLEAN
  /\ mix \subseteq Priority
  /\ passedOver \in [Streams -> Nat]
  /\ changes \in 0..MaxChanges

\* When writeDataChunk uses the vectors without rebuilding them, they hold
\* exactly the streams of the map, each once and under its own priority: no
\* pointer to a destroyed stream is followed and no stream is forgotten.
VecMatchesMap ==
  ~isStreamsChanged =>
     \A p \in Priority : vec[p] \in Orders(StreamsOf(p))

\* A stream that has a packet to send gets its turn: it is passed over at most
\* as many times in a row as its priority has streams.  (Once more than a round
\* takes: vecIdx outlives a change of the vectors, and one that points behind
\* the end gives the first stream two turns.)
TurnComes ==
  ~isStreamsChanged => \A s \in Streams : InMap(s) => passedOver[s] <= Len(vec[priority[s]])

\* No product countSent_B * 100 of this second exceeds uint32_t.
NoWrap == \A p \in Priority : countSent_B[p] * 100 <= UINT32_MAX

\* Percent of the bytes a priority is meant to get when those of R compete
\* (the table in writeDataChunk).
Percent(R, p) ==
  CASE R = {"High", "Medium", "Low"} ->
         (CASE p = "High" -> 80 [] p = "Medium" -> 16 [] OTHER -> 4)
    [] R = {"High", "Medium"} -> IF p = "High" THEN 84 ELSE 16
    [] R = {"High", "Low"}    -> IF p = "High" THEN 95 ELSE 5
    [] R = {"Medium", "Low"}  -> IF p = "Medium" THEN 80 ELSE 20
    [] OTHER -> 100

\* While the same priorities compete for a whole second and no product has
\* wrapped, none of them gets more than its percentage of the bytes plus one
\* chunk; since the percentages add up to 100, none gets much less either.
SharesKept ==
  isSteady /\ NoWrap /\ "Realtime" \notin mix =>
    \A p \in mix : 100 * countSent_B[p] <= Percent(mix, p) * TotalNonRT + 100 * MaxChunk

\* While a realtime stream has a packet at every choice and no product has
\* wrapped, realtime gets at least 98 % of the bytes up to one chunk, whatever
\* the pseudo-random choices in between.
RealtimeShareKept ==
  isSteady /\ NoWrap /\ "Realtime" \in mix =>
    100 * countSent_B["Realtime"] + 98 * MaxChunk >= 98 * Total
=============================================================================
