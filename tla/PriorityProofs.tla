--------------------------- MODULE PriorityProofs ---------------------------
(***************************************************************************)
(* Proofs that the choice of writeDataChunk keeps the shares of the        *)
(* priorities and gives every stream its turn, for any streams, any sizes  *)
(* of chunks up to MaxChunk and any width of the counts.                   *)
(***************************************************************************)
EXTENDS Priorities, FiniteSetTheorems, TLAPS

NonRT == {"High", "Medium", "Low"}

\* Only the counts and the history of the second matter to the shares.  Before
\* the first choice of a second nothing was sent in it.
CountsOK ==
  /\ countSent_B \in [Priority -> Nat]
  /\ isSteady \in BOOLEAN
  /\ mix \subseteq Priority
  /\ isSteady /\ mix = {} => \A p \in Priority : countSent_B[p] = 0

ShareInv == CountsOK /\ SharesKept /\ RealtimeShareKept

-----------------------------------------------------------------------------
(* The integer arithmetic of Below *)

\* integer division compares like the product
LEMMA DivBelow ==
  ASSUME NEW x \in Nat, NEW y \in Nat, NEW k \in Nat, y > 0
  PROVE  (x \div y < k) <=> (x < k * y)
<1> DEFINE q == x \div y
<1>1. q \in Nat /\ q * y <= x /\ x < (q + 1) * y
  BY SMT
<1> HIDE DEF q
<1>2. ASSUME q < k PROVE x < k * y
  <2>1. (q + 1) * y <= k * y
    BY <1>1, <1>2, SMT
  <2> QED BY <1>1, <2>1, SMT
<1>3. ASSUME ~(q < k) PROVE ~(x < k * y)
  <2>1. k * y <= q * y
    BY <1>1, <1>3, SMT
  <2> QED BY <1>1, <2>1, SMT
<1> QED BY <1>2, <1>3 DEF q

LEMMA ModSmall ==
  ASSUME NEW x \in Nat, NEW m \in Nat, x <= m
  PROVE  x % (m + 1) = x
BY SMT

\* as long as the product fits uint32_t, Below compares exactly
LEMMA BelowExact ==
  ASSUME NEW count \in Nat, NEW total \in Nat, NEW percent \in Nat,
         count * 100 <= UINT32_MAX
  PROVE  Below(count, total, percent) <=> count * 100 < percent * (total + 1)
<1>1. count * 100 \in Nat /\ total + 1 \in Nat /\ total + 1 > 0 /\ UINT32_MAX \in Nat
  BY PrioritiesAssumption
<1> DEFINE x == count * 100
           y == total + 1
<1>2. x % (UINT32_MAX + 1) = x
  BY <1>1, ModSmall
<1>3. (x \div y < percent) <=> (x < percent * y)
  <2> HIDE DEF x, y
  <2> QED BY <1>1, DivBelow DEF x, y
<1> QED BY <1>2, <1>3 DEF Below

-----------------------------------------------------------------------------
(* The choice *)

LEMMA TotalsAreNat ==
  ASSUME CountsOK
  PROVE  TotalNonRT \in Nat /\ Total \in Nat /\ Total = countSent_B["Realtime"] + TotalNonRT
BY DEF CountsOK, TotalNonRT, Total, Priority

LEMMA IsBelowExact ==
  ASSUME CountsOK, NoWrap, NEW p \in Priority, NEW percent \in Nat
  PROVE  IsBelow(p, percent) <=> countSent_B[p] * 100 < percent * (TotalNonRT + 1)
<1>1. countSent_B[p] \in Nat /\ countSent_B[p] * 100 <= UINT32_MAX
  BY DEF CountsOK, NoWrap
<1> QED BY <1>1, TotalsAreNat, BelowExact DEF IsBelow

\* whoever is chosen has had at most its percentage so far
LEMMA ChosenIsBehind ==
  ASSUME CountsOK, NoWrap, NEW R \in SUBSET NonRT, R # {}
  PROVE  /\ ShareChoice(R) \in R
         /\ 100 * countSent_B[ShareChoice(R)]
              <= Percent(R, ShareChoice(R)) * (TotalNonRT + 1)
<1> DEFINE h == countSent_B["High"]
           m == countSent_B["Medium"]
           l == countSent_B["Low"]
           T == TotalNonRT
<1>1. h \in Nat /\ m \in Nat /\ l \in Nat /\ T = h + m + l
  BY DEF CountsOK, Priority, TotalNonRT
<1>2. /\ IsBelow("High", 80) <=> h * 100 < 80 * (T + 1)
      /\ IsBelow("Medium", 16) <=> m * 100 < 16 * (T + 1)
      /\ IsBelow("High", 84) <=> h * 100 < 84 * (T + 1)
      /\ IsBelow("High", 95) <=> h * 100 < 95 * (T + 1)
      /\ IsBelow("Medium", 80) <=> m * 100 < 80 * (T + 1)
  BY IsBelowExact DEF Priority
<1> HIDE DEF T
<1>3. CASE R = {"High", "Medium", "Low"}
  <2>1. ShareChoice(R) = IF IsBelow("High", 80) THEN "High"
                         ELSE IF IsBelow("Medium", 16) THEN "Medium" ELSE "Low"
    BY <1>3 DEF ShareChoice
  <2>2. Percent(R, "High") = 80 /\ Percent(R, "Medium") = 16 /\ Percent(R, "Low") = 4
    BY <1>3 DEF Percent
  <2> QED BY <1>1, <1>2, <1>3, <2>1, <2>2 DEF T
<1>4. CASE R = {"High", "Medium"}
  <2>0. R # {"High", "Medium", "Low"}
    BY <1>4
  <2>1. ShareChoice(R) = IF IsBelow("High", 84) THEN "High" ELSE "Medium"
    BY <1>4, <2>0 DEF ShareChoice
  <2>2. Percent(R, "High") = 84 /\ Percent(R, "Medium") = 16
    BY <1>4, <2>0 DEF Percent
  <2> QED BY <1>1, <1>2, <1>4, <2>1, <2>2 DEF T
<1>5. CASE R = {"High", "Low"}
  <2>0. R # {"High", "Medium", "Low"} /\ R # {"High", "Medium"}
    BY <1>5
  <2>1. ShareChoice(R) = IF IsBelow("High", 95) THEN "High" ELSE "Low"
    BY <1>5, <2>0 DEF ShareChoice
  <2>2. Percent(R, "High") = 95 /\ Percent(R, "Low") = 5
    BY <1>5, <2>0 DEF Percent
  <2> QED BY <1>1, <1>2, <1>5, <2>1, <2>2 DEF T
<1>6. CASE R = {"Medium", "Low"}
  <2>0. R # {"High", "Medium", "Low"} /\ R # {"High", "Medium"} /\ R # {"High", "Low"}
    BY <1>6
  <2>1. ShareChoice(R) = IF IsBelow("Medium", 80) THEN "Medium" ELSE "Low"
    BY <1>6, <2>0 DEF ShareChoice
  <2>2. Percent(R, "Medium") = 80 /\ Percent(R, "Low") = 20
    BY <1>6, <2>0 DEF Percent
  <2> QED BY <1>1, <1>2, <1>6, <2>1, <2>2 DEF T
<1>7. ASSUME NEW p \in NonRT, R = {p}
      PROVE  /\ ShareChoice(R) \in R
             /\ 100 * countSent_B[ShareChoice(R)]
                  <= Percent(R, ShareChoice(R)) * (TotalNonRT + 1)
  <2>1. /\ R # {"High", "Medium", "Low"} /\ R # {"High", "Medium"}
        /\ R # {"High", "Low"} /\ R # {"Medium", "Low"}
    BY <1>7
  <2>2. ShareChoice(R) = p
    BY <1>7, <2>1 DEF ShareChoice
  <2>3. Percent(R, p) = 100
    BY <2>1 DEF Percent
  <2>4. countSent_B[p] <= T /\ countSent_B[p] \in Nat
    BY <1>1 DEF NonRT
  <2> QED BY <1>1, <1>7, <2>2, <2>3, <2>4 DEF T
<1>8. \/ R = {"High", "Medium", "Low"} \/ R = {"High", "Medium"} \/ R = {"High", "Low"}
      \/ R = {"Medium", "Low"} \/ \E p \in NonRT : R = {p}
  BY DEF NonRT
<1> QED BY <1>3, <1>4, <1>5, <1>6, <1>7, <1>8

LEMMA PercentRange ==
  ASSUME NEW R, NEW p
  PROVE  Percent(R, p) \in 0..100
<1>1. \/ Percent(R, p) = 80 \/ Percent(R, p) = 16 \/ Percent(R, p) = 4
      \/ Percent(R, p) = 84 \/ Percent(R, p) = 95 \/ Percent(R, p) = 5
      \/ Percent(R, p) = 20 \/ Percent(R, p) = 100
  BY DEF Percent
<1> QED BY <1>1

\* one more chunk of w bytes for one that is behind, and for another one
LEMMA ShareArithmetic ==
  ASSUME NEW c \in Nat, NEW T \in Nat, NEW k \in 0..100, NEW w \in Nat, NEW M \in Nat, w <= M
  PROVE  /\ 100 * c <= k * (T + 1) /\ w # 0 => 100 * (c + w) <= k * (T + w) + 100 * M
         /\ 100 * c <= k * T + 100 * M => 100 * c <= k * (T + w) + 100 * M
<1>1. /\ k * (T + 1) = k * T + k /\ k * (T + w) = k * T + k * w
      /\ k * T \in Nat /\ k * w \in Nat
  BY SMT
<1>2. w # 0 => k <= k * w
  BY SMT
<1> DEFINE a == k * T
           b == k * w
<1> HIDE DEF a, b
<1>3. /\ 100 * c <= a + k /\ w # 0 => 100 * (c + w) <= a + b + 100 * M
      /\ 100 * c <= a + 100 * M => 100 * c <= a + b + 100 * M
  BY <1>1, <1>2, SMT DEF a, b
<1> QED BY <1>1, <1>3 DEF a, b

\* one choice keeps the shares
LEMMA CountStep ==
  ASSUME ShareInv, NEW R \in SUBSET Priority, R # {}, NEW p \in Choice(R),
         NEW w \in 0..MaxChunk,
         countSent_B' = [countSent_B EXCEPT ![p] = @ + w],
         isSteady' = (isSteady /\ mix \in {{}, R}),
         mix' = IF isSteady' THEN R ELSE {}
  PROVE  ShareInv'
<1>1. MaxChunk \in Nat /\ w \in Nat /\ w <= MaxChunk /\ UINT32_MAX \in Nat
  BY PrioritiesAssumption
<1>2. CountsOK'
  <2>1. countSent_B' \in [Priority -> Nat]
    <3>1. countSent_B \in [Priority -> Nat]
      BY DEF ShareInv, CountsOK
    <3>2. ASSUME NEW q \in Priority PROVE countSent_B'[q] \in Nat
      <4>1. CASE q = p
        BY <1>1, <3>1, <4>1
      <4>2. CASE q # p
        BY <3>1, <4>2
      <4> QED BY <4>1, <4>2
    <3>3. countSent_B' = [q \in Priority |-> countSent_B'[q]]
      BY <3>1
    <3> QED BY <3>2, <3>3
  <2>2. isSteady' \in BOOLEAN /\ mix' \subseteq Priority
    BY Zenon DEF ShareInv, CountsOK
  <2>3. isSteady' => mix' # {}
    OBVIOUS
  <2> QED BY <2>1, <2>2, <2>3 DEF CountsOK
<1> SUFFICES ASSUME isSteady', NoWrap'
             PROVE  SharesKept' /\ RealtimeShareKept'
  BY <1>2 DEF ShareInv, SharesKept, RealtimeShareKept
<1>3. isSteady /\ mix \in {{}, R} /\ mix' = R /\ CountsOK
  BY DEF ShareInv
<1>4. NoWrap
  <2> SUFFICES ASSUME NEW q \in Priority PROVE countSent_B[q] * 100 <= UINT32_MAX
    BY DEF NoWrap
  <2>1. /\ countSent_B[q] \in Nat /\ countSent_B'[q] \in Nat
        /\ countSent_B[q] <= countSent_B'[q]
    BY <1>1, <1>3 DEF CountsOK
  <2>2. countSent_B'[q] * 100 <= UINT32_MAX
    BY DEF NoWrap
  <2> QED BY <1>1, <2>1, <2>2
<1>5. TotalNonRT \in Nat /\ Total \in Nat /\ Total = countSent_B["Realtime"] + TotalNonRT
  BY <1>3, TotalsAreNat
<1>6. CASE "Realtime" \notin R
  <2>1. R \in SUBSET NonRT /\ p = ShareChoice(R)
    BY <1>6 DEF Choice, NonRT, Priority
  <2>2. p \in R /\ 100 * countSent_B[p] <= Percent(R, p) * (TotalNonRT + 1)
    BY <1>3, <1>4, <2>1, ChosenIsBehind
  <2>3. TotalNonRT' = TotalNonRT + w
    BY <1>1, <1>3, <2>1, <2>2 DEF TotalNonRT, NonRT, CountsOK, Priority
  <2>4. SUFFICES ASSUME NEW q \in R
        PROVE 100 * countSent_B'[q] <= Percent(R, q) * TotalNonRT' + 100 * MaxChunk
    BY <1>3, <1>6 DEF SharesKept, RealtimeShareKept
  <2>5. countSent_B[q] \in Nat /\ Percent(R, q) \in 0..100
    BY <1>3, PercentRange DEF CountsOK
  <2>6. 100 * countSent_B[q] <= Percent(R, q) * TotalNonRT + 100 * MaxChunk
    <3>1. CASE mix = R
      BY <1>3, <1>4, <1>6, <3>1 DEF ShareInv, SharesKept
    <3>2. CASE mix = {}
      <4>1. countSent_B[q] = 0
        BY <1>3, <3>2 DEF CountsOK
      <4>2. Percent(R, q) * TotalNonRT \in Nat
        BY <1>5, <2>5
      <4> QED BY <1>1, <4>1, <4>2
    <3> QED BY <1>3, <3>1, <3>2
  <2>7. countSent_B'[q] = IF q = p THEN countSent_B[q] + w ELSE countSent_B[q]
    BY <1>3 DEF CountsOK
  <2> DEFINE c == countSent_B[q]
             T == TotalNonRT
             k == Percent(R, q)
  <2>8. /\ 100 * c <= k * (T + 1) /\ w # 0 => 100 * (c + w) <= k * (T + w) + 100 * MaxChunk
        /\ 100 * c <= k * (T + w) + 100 * MaxChunk
    <3>1. c \in Nat /\ T \in Nat /\ k \in 0..100 /\ 100 * c <= k * T + 100 * MaxChunk
      BY <1>5, <2>5, <2>6
    <3> HIDE DEF c, T, k
    <3> QED BY SMTT(60), ZenonT(60), <1>1, <3>1, ShareArithmetic
  <2>9. CASE q = p /\ w # 0
    BY <2>2, <2>3, <2>7, <2>8, <2>9
  <2>10. CASE q # p
    BY <2>3, <2>7, <2>8, <2>10
  <2>11. CASE w = 0
    BY <2>3, <2>5, <2>7, <2>8, <2>11
  <2> QED BY <2>9, <2>10, <2>11
<1>7. CASE "Realtime" \in R
  <2> DEFINE r == countSent_B["Realtime"]
  <2>1. p \in Priority /\ p \in RealtimeChoice(R) /\ r \in Nat
    BY <1>3, <1>7 DEF Choice, RealtimeChoice, CountsOK, Priority
  <2>2. SUFFICES 100 * countSent_B'["Realtime"] + 98 * MaxChunk >= 98 * Total'
    BY <1>3, <1>7 DEF SharesKept, RealtimeShareKept
  <2>3. 100 * r + 98 * MaxChunk >= 98 * Total
    <3>1. CASE mix = R
      BY <1>3, <1>4, <1>7, <3>1 DEF ShareInv, RealtimeShareKept
    <3>2. CASE mix = {}
      <4>1. r = 0 /\ Total = 0
        BY <1>3, <3>2 DEF CountsOK, Total, TotalNonRT, Priority
      <4> QED BY <1>1, <4>1
    <3> QED BY <1>3, <3>1, <3>2
  <2>4. Total' = Total + w
    BY <1>1, <1>3, <2>1 DEF Total, TotalNonRT, CountsOK, Priority
  <2>5. CASE p = "Realtime"
    <3>1. countSent_B'["Realtime"] = r + w
      BY <1>3, <2>5 DEF CountsOK, Priority
    <3> QED BY <1>1, <1>5, <2>1, <2>3, <2>4, <3>1
  <2>6. CASE p # "Realtime"
    <3>1. countSent_B'["Realtime"] = r
      BY <1>3, <2>6 DEF CountsOK, Priority
    <3>2. ~Below(r, Total, 98)
      BY <2>1, <2>6 DEF RealtimeChoice
    <3>3. ~(r * 100 < 98 * (Total + 1))
      <4>1. r * 100 <= UINT32_MAX
        BY <1>4 DEF NoWrap, Priority
      <4> QED BY <1>5, <2>1, <3>2, <4>1, BelowExact
    <3> QED BY <1>1, <1>5, <2>1, <2>4, <3>1, <3>3
  <2> QED BY <2>5, <2>6
<1> QED BY <1>6, <1>7

-----------------------------------------------------------------------------
LEMMA ShareStep ==
  ASSUME ShareInv, [Next]_vars
  PROVE  ShareInv'
<1> DEFINE shareVars == <<countSent_B, mix, isSteady>>
<1>1. ASSUME UNCHANGED shareVars PROVE ShareInv'
  BY <1>1 DEF ShareInv, CountsOK, SharesKept, RealtimeShareKept, NoWrap, Total, TotalNonRT
<1>2. ASSUME countSent_B' = [p \in Priority |-> 0], mix' = {}, isSteady' = TRUE
      PROVE  ShareInv'
  BY <1>2 DEF ShareInv, CountsOK, SharesKept, RealtimeShareKept
<1>3. ASSUME NEW s \in Streams, NEW p \in Priority, NEW r \in BOOLEAN,
             SetTxStreamPriority(s, p, r)
      PROVE  ShareInv'
  BY <1>1, <1>3 DEF SetTxStreamPriority
<1>4. ASSUME NEW s \in Streams, FirstSend(s) PROVE ShareInv'
  BY <1>1, <1>4 DEF FirstSend
<1>5. CASE OnDisconnected
  BY <1>2, <1>5 DEF OnDisconnected
<1>6. CASE NextSecond
  BY <1>2, <1>6 DEF NextSecond
<1>7. ASSUME NEW ready \in SUBSET {s \in Streams : InMap(s)},
             NEW w \in ChunkSizes \cup {0}, WriteDataChunk(ready, w)
      PROVE  ShareInv'
  <2>1. PICK v \in Updated :
          LET R == {p \in Priority : \E i \in DOMAIN v[p] : v[p][i] \in ready}
          IN  /\ R # {}
              /\ \E p \in Choice(R) : countSent_B' = [countSent_B EXCEPT ![p] = @ + w]
              /\ isSteady' = (isSteady /\ mix \in {{}, R})
              /\ mix' = IF isSteady' THEN R ELSE {}
    BY <1>7 DEF WriteDataChunk
  <2> DEFINE R == {p \in Priority : \E i \in DOMAIN v[p] : v[p][i] \in ready}
  <2>2. R \in SUBSET Priority /\ w \in 0..MaxChunk
    BY PrioritiesAssumption
  <2> HIDE DEF R
  <2> QED BY <2>1, <2>2, CountStep DEF R
<1>8. CASE UNCHANGED vars
  BY <1>1, <1>8 DEF vars
<1> QED BY <1>3, <1>4, <1>5, <1>6, <1>7, <1>8 DEF Next

LEMMA ShareInvariant == Spec => []ShareInv
<1>1. Init => ShareInv
  BY DEF Init, ShareInv, CountsOK, SharesKept, RealtimeShareKept
<1>2. ShareInv /\ [Next]_vars => ShareInv'
  BY ShareStep
<1> QED BY <1>1, <1>2, PTL DEF Spec

\* The table of writeDataChunk: while the same priorities below Realtime compete
\* and no product wraps, none exceeds its percentage by more than one chunk.
THEOREM Shares == Spec => []SharesKept
<1>1. ShareInv => SharesKept
  BY DEF ShareInv
<1> QED BY <1>1, ShareInvariant, PTL

\* The first branch of writeDataChunk: a realtime stream that always has a packet
\* gets 98 % of the bytes, up to one chunk.
THEOREM RealtimeShare == Spec => []RealtimeShareKept
<1>1. ShareInv => RealtimeShareKept
  BY DEF ShareInv
<1> QED BY <1>1, ShareInvariant, PTL

-----------------------------------------------------------------------------
(***************************************************************************)
(* Whose turn it is.  The vectors are those of the map, and a stream that  *)
(* was passed over has come nearer to the front of its vector by as much,  *)
(* except for the one turn that a stale vecIdx costs.                      *)
(***************************************************************************)

\* turns until the stream at i (from 1 on) of n is the first one that is asked
Distance(n, idx, i) == IF i > idx THEN i - 1 - idx ELSE i - 1 + n - idx

Waits(n, idx, i, passed) == IF idx >= n THEN passed = 0 ELSE passed + Distance(n, idx, i) <= n

TurnInv ==
  /\ priority \in [Streams -> Priority \cup {NoStream}]
  /\ vecIdx \in [Priority -> Nat] /\ passedOver \in [Streams -> Nat]
  /\ isStreamsChanged \in BOOLEAN
  /\ VecMatchesMap
  /\ ~isStreamsChanged =>
       \A p \in Priority : \A i \in 1..Len(vec[p]) :
         Waits(Len(vec[p]), vecIdx[p], i, passedOver[vec[p][i]])

\* an order of the streams of p is a sequence of all of them
LEMMA OrderLen ==
  ASSUME NEW p, NEW q \in Orders(StreamsOf(p))
  PROVE  /\ Len(q) \in Nat /\ DOMAIN q = 1..Len(q)
         /\ \A i \in 1..Len(q) : q[i] \in Streams /\ priority[q[i]] = p
         /\ \A s \in Streams : priority[s] = p => \E i \in 1..Len(q) : q[i] = s
<1> DEFINE S == StreamsOf(p)
           n == Cardinality(S)
<1>1. n \in Nat
  <2>1. IsFiniteSet(Streams) /\ S \in SUBSET Streams
    BY PrioritiesAssumption DEF StreamsOf
  <2>2. IsFiniteSet(S)
    BY Zenon, <2>1, FS_Subset
  <2> QED BY Zenon, <2>2, FS_CardinalityType
<1>2. q \in [1..n -> S] /\ \A s \in S : \E i \in DOMAIN q : q[i] = s
  BY Zenon DEF Orders
<1> HIDE DEF n
<1>3. q \in Seq(S) /\ Len(q) = n /\ DOMAIN q = 1..n
  BY <1>1, <1>2
<1>4. \A s : s \in S <=> s \in Streams /\ priority[s] = p
  BY DEF StreamsOf
<1> HIDE DEF S
<1> QED BY <1>1, <1>2, <1>3, <1>4

\* update gives the vectors of the map
LEMMA UpdatedMatches ==
  ASSUME TurnInv, NEW v \in Updated
  PROVE  \A p \in Priority : v[p] \in Orders(StreamsOf(p))
<1>1. CASE isStreamsChanged
  <2> DEFINE O(p) == Orders(StreamsOf(p))
  <2>1. v \in [Realtime : O("Realtime"), High : O("High"), Medium : O("Medium"), Low : O("Low")]
    BY <1>1 DEF Updated
  <2> HIDE DEF O
  <2>2. \A p \in Priority : v[p] \in O(p)
    BY <2>1 DEF Priority
  <2> QED BY <2>2 DEF O
<1>2. CASE ~isStreamsChanged
  BY Zenon, <1>2 DEF Updated, TurnInv, VecMatchesMap
<1> QED BY <1>1, <1>2

\* the stream whose turn it is gets it, if it has a packet
LEMMA FirstIsChosen ==
  ASSUME NEW q, NEW idx \in Nat, NEW ready, Len(q) \in Nat, idx < Len(q), q[idx + 1] \in ready
  PROVE  StreamByPriority(q, idx, ready) = q[idx + 1]
<1> DEFINE P(i) == /\ Turn(q, idx, i) \in ready
                   /\ \A j \in 0..(i - 1) : Turn(q, idx, j) \notin ready
           k == CHOOSE i \in 0..(Len(q) - 1) : P(i)
<1>1. Turn(q, idx, 0) = q[idx + 1]
  <2>1. (idx + 0) % Len(q) = idx /\ ~(idx >= Len(q))
    OBVIOUS
  <2> QED BY <2>1 DEF Turn
<1>2. 0 \in 0..(Len(q) - 1) /\ P(0)
  BY <1>1
<1>3. k \in 0..(Len(q) - 1) /\ P(k)
  <2> HIDE DEF P
  <2> QED BY Zenon, <1>2
<1> HIDE DEF k
<1>4. k = 0
  <2> SUFFICES ASSUME k # 0 PROVE FALSE
    OBVIOUS
  <2>1. 0 \in 0..(k - 1)
    BY <1>3
  <2> QED BY <1>1, <1>3, <2>1
<1>5. StreamByPriority(q, idx, ready) = Turn(q, idx, k)
  BY DEF StreamByPriority, k
<1> QED BY <1>1, <1>4, <1>5

\* the next index is one turn nearer, and at the front when it was stale
LEMMA NextTurn ==
  ASSUME NEW q, NEW idx \in Nat, Len(q) \in Nat, NEW i \in 1..Len(q), NEW passed \in Nat
  PROVE  /\ Waits(Len(q), NextIdx(q, idx), i, 0) /\ Waits(Len(q), idx, i, 0)
         /\ NextIdx(q, idx) \in Nat
         /\ Waits(Len(q), idx, i, passed) /\ idx # i - 1 =>
              Waits(Len(q), NextIdx(q, idx), i, passed + 1)
<1> DEFINE n == Len(q)
<1>1. n \in Nat /\ i \in 1..n
  OBVIOUS
<1> HIDE DEF n
<1>2. CASE idx + 1 >= n
  <2>1. NextIdx(q, idx) = 0
    BY <1>2 DEF NextIdx, n
  <2>2. Waits(n, 0, i, 0) /\ Waits(n, idx, i, 0)
    BY <1>1, <1>2 DEF Waits, Distance
  <2>3. Waits(n, idx, i, passed) /\ idx # i - 1 => Waits(n, 0, i, passed + 1)
    BY <1>1, <1>2 DEF Waits, Distance
  <2> QED BY <2>1, <2>2, <2>3 DEF n
<1>3. CASE idx + 1 < n
  <2>1. NextIdx(q, idx) = idx + 1
    BY <1>1, <1>3 DEF NextIdx, n
  <2>2. Waits(n, idx + 1, i, 0) /\ Waits(n, idx, i, 0)
    BY <1>1, <1>3 DEF Waits, Distance
  <2>3. Waits(n, idx, i, passed) /\ idx # i - 1 => Waits(n, idx + 1, i, passed + 1)
    BY <1>1, <1>3 DEF Waits, Distance
  <2> QED BY <2>1, <2>2, <2>3 DEF n
<1> QED BY <1>1, <1>2, <1>3

\* one choice: the chosen stream starts anew, the others come one turn nearer
LEMMA TurnWrite ==
  ASSUME TurnInv, NEW ready, NEW w, WriteDataChunk(ready, w)
  PROVE  TurnInv'
<1> DEFINE before(s) == IF isStreamsChanged THEN 0 ELSE passedOver[s]
<1>0. PICK v \in Updated :
        LET R == {p \in Priority : \E i \in DOMAIN v[p] : v[p][i] \in ready}
        IN  /\ R # {}
            /\ Total + w <= MaxTotal
            /\ vec' = v /\ isStreamsChanged' = FALSE
            /\ \E p \in Choice(R) :
                 /\ vecIdx' = [vecIdx EXCEPT ![p] = NextIdx(v[p], @)]
                 /\ countSent_B' = [countSent_B EXCEPT ![p] = @ + w]
                 /\ passedOver' = [s \in Streams |->
                      IF s = StreamByPriority(v[p], vecIdx[p], ready) \/ s \notin ready THEN 0
                      ELSE IF priority[s] = p
                           THEN [t \in Streams |-> before(t)][s] + 1
                           ELSE [t \in Streams |-> before(t)][s]]
            /\ isSteady' = (isSteady /\ mix \in {{}, R})
            /\ mix' = IF isSteady' THEN R ELSE {}
            /\ UNCHANGED <<priority, changes>>
  BY ZenonT(60) DEF WriteDataChunk
<1>10. PICK p :
         /\ vecIdx' = [vecIdx EXCEPT ![p] = NextIdx(v[p], @)]
         /\ passedOver' = [s \in Streams |->
              IF s = StreamByPriority(v[p], vecIdx[p], ready) \/ s \notin ready THEN 0
              ELSE IF priority[s] = p
                   THEN [t \in Streams |-> before(t)][s] + 1
                   ELSE [t \in Streams |-> before(t)][s]]
  BY Zenon, <1>0
<1>1. /\ vec' = v /\ isStreamsChanged' = FALSE /\ UNCHANGED priority
      /\ vecIdx' = [vecIdx EXCEPT ![p] = NextIdx(v[p], @)]
      /\ passedOver' = [s \in Streams |->
           IF s = StreamByPriority(v[p], vecIdx[p], ready) \/ s \notin ready THEN 0
           ELSE IF priority[s] = p THEN before(s) + 1 ELSE before(s)]
  <2>1. \A s \in Streams : [t \in Streams |-> before(t)][s] = before(s)
    OBVIOUS
  <2> HIDE DEF before
  <2> QED BY <1>0, <1>10, <2>1
<1>2. /\ vecIdx \in [Priority -> Nat] /\ \A s \in Streams : before(s) \in Nat
      /\ isStreamsChanged \in BOOLEAN
  BY DEF TurnInv
<1>3. \A r \in Priority : v[r] \in Orders(StreamsOf(r))
  BY Zenon, UpdatedMatches
<1>4. \A r \in Priority : /\ Len(v[r]) \in Nat
                          /\ \A i \in 1..Len(v[r]) : v[r][i] \in Streams /\ priority[v[r][i]] = r
  BY Zenon, <1>3, OrderLen
<1>5. \A r \in Priority : \A i \in 1..Len(v[r]) :
        Waits(Len(v[r]), vecIdx[r], i, before(v[r][i]))
  <2> SUFFICES ASSUME NEW r \in Priority, NEW i \in 1..Len(v[r])
               PROVE  Waits(Len(v[r]), vecIdx[r], i, before(v[r][i]))
    OBVIOUS
  <2>1. CASE isStreamsChanged
    <3>1. before(v[r][i]) = 0
      BY <2>1
    <3>2. Waits(Len(v[r]), vecIdx[r], i, 0)
      <4>1. vecIdx[r] \in Nat /\ Len(v[r]) \in Nat /\ 0 \in Nat
        BY <1>2, <1>4
      <4> QED BY Zenon, <4>1, NextTurn
    <3> QED BY <3>1, <3>2
  <2>2. CASE ~isStreamsChanged
    <3>1. v = vec /\ before(v[r][i]) = passedOver[v[r][i]]
      BY <2>2 DEF Updated
    <3> QED BY Zenon, <2>2, <3>1 DEF TurnInv
  <2> QED BY <2>1, <2>2
<1> HIDE DEF before
<1>6. /\ passedOver' \in [Streams -> Nat]
      /\ \A s \in Streams : \/ passedOver'[s] = 0
                            \/ priority[s] # p /\ passedOver'[s] = before(s)
                            \/ /\ priority[s] = p /\ passedOver'[s] = before(s) + 1
                               /\ s # StreamByPriority(v[p], vecIdx[p], ready) /\ s \in ready
  BY <1>1, <1>2
<1>7. /\ vecIdx' \in [Priority -> Nat]
      /\ \A r \in Priority : vecIdx'[r] = IF r = p THEN NextIdx(v[r], vecIdx[r]) ELSE vecIdx[r]
  <2>1. \A r \in Priority : NextIdx(v[r], vecIdx[r]) \in Nat
    BY <1>2 DEF NextIdx
  <2> QED BY <1>1, <1>2, <2>1
<1>8. VecMatchesMap'
  <2>1. \A r : StreamsOf(r)' = StreamsOf(r)
    BY <1>1 DEF StreamsOf
  <2> QED BY Zenon, <1>1, <1>3, <2>1 DEF VecMatchesMap
<1>9. ASSUME NEW r \in Priority, NEW i \in 1..Len(v[r])
      PROVE  Waits(Len(v[r]), vecIdx'[r], i, passedOver'[v[r][i]])
  <2> DEFINE s == v[r][i]
  <2>1. s \in Streams /\ priority[s] = r /\ Len(v[r]) \in Nat /\ vecIdx[r] \in Nat /\ before(s) \in Nat
    BY <1>2, <1>4
  <2>2. Waits(Len(v[r]), vecIdx[r], i, before(s))
    BY <1>5
  <2> DEFINE idx == vecIdx[r]
             q == v[r]
             b == before(s)
  <2>3. /\ Waits(Len(q), NextIdx(q, idx), i, 0) /\ Waits(Len(q), idx, i, 0)
        /\ idx # i - 1 => Waits(Len(q), NextIdx(q, idx), i, b + 1)
    <3> HIDE DEF idx, q, b, s
    <3> QED BY Zenon, <2>1, <2>2, NextTurn DEF idx, q, b
  <2>4. CASE passedOver'[s] = 0
    BY Zenon, <1>7, <2>3, <2>4
  <2>5. CASE r # p /\ passedOver'[s] = before(s)
    BY Zenon, <1>7, <2>2, <2>5
  <2>6. CASE /\ r = p /\ passedOver'[s] = before(s) + 1
             /\ s # StreamByPriority(q, idx, ready) /\ s \in ready
    <3>1. idx # i - 1
      <4> SUFFICES ASSUME idx = i - 1 PROVE FALSE
        OBVIOUS
      <4>1. idx < Len(q) /\ idx + 1 = i
        BY <2>1
      <4>2. StreamByPriority(q, idx, ready) = q[idx + 1]
        <5> HIDE DEF q, idx, s
        <5>1. q[idx + 1] \in ready
          BY <2>6, <4>1 DEF q, s
        <5> QED BY Zenon, <2>1, <4>1, <5>1, FirstIsChosen DEF q, idx
      <4> QED BY Zenon, <2>6, <4>1, <4>2
    <3> QED BY Zenon, <1>7, <2>3, <2>6, <3>1
  <2> QED BY Zenon, <1>6, <2>1, <2>4, <2>5, <2>6
<1> QED BY Zenon, <1>1, <1>2, <1>6, <1>7, <1>8, <1>9 DEF TurnInv

\* every other step leaves the turns alone or sets isStreamsChanged
LEMMA TurnStep ==
  ASSUME TurnInv, [Next]_vars
  PROVE  TurnInv'
<1>1. ASSUME UNCHANGED <<priority, vec, vecIdx, isStreamsChanged, passedOver>> PROVE TurnInv'
  <2>1. \A r : StreamsOf(r)' = StreamsOf(r)
    BY <1>1 DEF StreamsOf
  <2> QED BY Zenon, <1>1, <2>1 DEF TurnInv, VecMatchesMap
<1>2. ASSUME priority' \in [Streams -> Priority \cup {NoStream}], isStreamsChanged' = TRUE,
             UNCHANGED <<vecIdx, passedOver>>
      PROVE  TurnInv'
  BY Zenon, <1>2 DEF TurnInv, VecMatchesMap
<1>3. ASSUME NEW s \in Streams, NEW p \in Priority, NEW r \in BOOLEAN,
             SetTxStreamPriority(s, p, r)
      PROVE  TurnInv'
  <2>1. /\ priority' = [priority EXCEPT ![s] = p] /\ UNCHANGED <<vec, vecIdx, passedOver>>
        /\ isStreamsChanged' = (isStreamsChanged \/ ~InMap(s) \/ priority[s] # p \/ r)
    BY Zenon, <1>3 DEF SetTxStreamPriority
  <2>2. priority' \in [Streams -> Priority \cup {NoStream}]
    BY <2>1 DEF TurnInv
  <2>3. CASE isStreamsChanged \/ ~InMap(s) \/ priority[s] # p \/ r
    BY Zenon, <1>2, <2>1, <2>2, <2>3
  <2>4. CASE ~(isStreamsChanged \/ ~InMap(s) \/ priority[s] # p \/ r)
    <3>1. priority' = priority
      BY <2>1, <2>4 DEF TurnInv
    <3>2. isStreamsChanged' = isStreamsChanged
      BY Zenon, <2>1, <2>4 DEF TurnInv
    <3> QED BY Zenon, <1>1, <2>1, <3>1, <3>2
  <2> QED BY <2>3, <2>4
<1>4. ASSUME NEW s \in Streams, FirstSend(s) PROVE TurnInv'
  <2>1. priority' \in [Streams -> Priority \cup {NoStream}]
    BY <1>4 DEF FirstSend, TurnInv, Priority
  <2> QED BY Zenon, <1>2, <1>4, <2>1 DEF FirstSend
<1>5. CASE OnDisconnected
  <2>1. priority' \in [Streams -> Priority \cup {NoStream}]
    BY <1>5 DEF OnDisconnected
  <2> QED BY Zenon, <1>2, <1>5, <2>1 DEF OnDisconnected
<1>6. CASE NextSecond
  BY <1>1, <1>6 DEF NextSecond
<1>7. ASSUME NEW ready, NEW w, WriteDataChunk(ready, w) PROVE TurnInv'
  BY Zenon, <1>7, TurnWrite
<1>8. CASE UNCHANGED vars
  BY <1>1, <1>8 DEF vars
<1> QED BY Zenon, <1>3, <1>4, <1>5, <1>6, <1>7, <1>8 DEF Next

LEMMA TurnInvariant == Spec => []TurnInv
<1>1. Init => TurnInv
  BY DEF Init, TurnInv, VecMatchesMap
<1>2. TurnInv /\ [Next]_vars => TurnInv'
  BY TurnStep
<1> QED BY <1>1, <1>2, PTL DEF Spec

\* isStreamsChanged is set by every change of the map that update must follow: while
\* it is not, the vectors hold the streams of the map, each once.
THEOREM VecUpToDate == Spec => []VecMatchesMap
<1>1. TurnInv => VecMatchesMap
  BY DEF TurnInv
<1> QED BY <1>1, TurnInvariant, PTL

\* The round of writeDataChunk: vecIdx moves on by one at every choice, so no stream
\* with a packet waits longer than a round and the turn of a stale vecIdx.
THEOREM Turns == Spec => []TurnComes
<1>1. TurnInv => TurnComes
  <2> SUFFICES ASSUME TurnInv, ~isStreamsChanged, NEW s \in Streams, InMap(s)
               PROVE  passedOver[s] <= Len(vec[priority[s]])
    BY DEF TurnComes
  <2> DEFINE p == priority[s]
             n == Len(vec[p])
  <2>1. p \in Priority /\ vec[p] \in Orders(StreamsOf(p))
    BY DEF InMap, TurnInv, VecMatchesMap
  <2>2. n \in Nat /\ \E i \in 1..n : vec[p][i] = s
    <3>1. priority[s] = p
      OBVIOUS
    <3> HIDE DEF p
    <3>2. PICK q \in Orders(StreamsOf(p)) : q = vec[p]
      BY Zenon, <2>1
    <3>3. Len(q) \in Nat /\ \A t \in Streams : priority[t] = p => \E i \in 1..Len(q) : q[i] = t
      BY ZenonT(60), SMTT(60), OrderLen
    <3> QED BY Zenon, <3>1, <3>2, <3>3
  <2>3. PICK i \in 1..n : vec[p][i] = s
    BY Zenon, <2>2
  <2>4. Waits(n, vecIdx[p], i, passedOver[s])
    BY Zenon, <2>1, <2>3 DEF TurnInv
  <2>5. vecIdx[p] \in Nat /\ passedOver[s] \in Nat
    BY <2>1 DEF TurnInv
  <2> HIDE DEF n
  <2>6. passedOver[s] <= n
    BY <2>2, <2>4, <2>5 DEF Waits, Distance
  <2> QED BY <2>6 DEF n
<1> QED BY <1>1, TurnInvariant, PTL
=============================================================================
