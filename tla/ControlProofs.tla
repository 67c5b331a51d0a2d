--------------------------- MODULE ControlProofs ---------------------------
(***************************************************************************)
(* Proofs about what the two sides find out of the network for each other: *)
(* the path MTU search, for every path, base size, number of tries, and    *)
(* any number of datagrams under way and of resets; and the loss and round *)
(* trip statistics, for every window size, limit and width of the packet   *)
(* numbers.                                                                *)
(***************************************************************************)
EXTENDS PathMtu, Traffic, Integers, TLAPS

TypeOK ==
  /\ PMTU_B \in Nat /\ PMTUProbeSize_B \in Nat
  /\ PMTUProbeCount \in Nat /\ PMTUProbeStep_B \in Nat
  /\ PMTUProbeResponse_B \in Nat
  /\ path \in Nat /\ g_basePMTU_IPv4_B <= path
  /\ probes \subseteq Nat /\ headers \subseteq Nat
  /\ isClean \in BOOLEAN

\* what is under way never grows but by the size sent
LEMMA AddToBound ==
  ASSUME NEW net, NEW size
  PROVE  AddTo(net, size) \subseteq net \cup {size}
BY DEF AddTo

LEMMA HalfIsNat ==
  ASSUME NEW n \in Nat
  PROVE  n \div 2 \in Nat
BY SMT

LEMMA TypeStep ==
  ASSUME TypeOK, [Next]_vars
  PROVE  TypeOK'
<1> USE PathMtuAssumption
<1>1. ASSUME NEW pmtu \in Nat, NEW step \in Nat, ProcessProbe(pmtu, step),
             UNCHANGED <<PMTUProbeResponse_B, path, headers>>
      PROVE  TypeOK'
  <2> DEFINE isTried == step # 0 /\ PMTUProbeCount + 1 >= g_PMTUMaxProbes
             next == IF step = 0 THEN FirstStep ELSE IF isTried THEN step \div 2 ELSE step
  <2>1. next \in Nat
    BY HalfIsNat
  <2>2. PMTU_B' = pmtu /\ isClean' \in BOOLEAN /\ PMTUProbeCount' \in Nat
    BY <1>1 DEF ProcessProbe, TypeOK
  <2>3. /\ PMTUProbeStep_B' \in {0, next}
        /\ PMTUProbeSize_B' \in {PMTUProbeSize_B, pmtu + next}
        /\ probes' \subseteq probes \cup {pmtu + next}
    <3>1. CASE next < MinStep
      BY <1>1, <3>1 DEF ProcessProbe
    <3>2. CASE ~(next < MinStep)
      BY <1>1, <3>2, AddToBound DEF ProcessProbe
    <3> QED BY <3>1, <3>2
  <2> HIDE DEF next
  <2> QED BY <1>1, <2>1, <2>2, <2>3 DEF TypeOK
<1>2. CASE ProbeDue
  BY <1>1, <1>2 DEF ProbeDue, TypeOK
<1>3. CASE Silence
  BY <1>1, <1>3 DEF Silence
<1>4. CASE WriteHeader
  <2>1. headers' \subseteq headers \cup {PMTUProbeResponse_B}
    BY <1>4, AddToBound DEF WriteHeader
  <2> QED BY <1>4, <2>1 DEF WriteHeader, TypeOK
<1>5. CASE AnswererReset
  BY <1>5 DEF AnswererReset, TypeOK
<1>6. ASSUME NEW size \in headers, ReceiveHeader(size)
      PROVE  TypeOK'
  BY <1>6 DEF ReceiveHeader, TypeOK
<1>7. ASSUME NEW size \in probes, ReceiveProbe(size)
      PROVE  TypeOK'
  BY <1>7 DEF ReceiveProbe, TypeOK
<1>8. ASSUME NEW size \in probes \cup headers, Lose(size)
      PROVE  TypeOK'
  BY <1>8 DEF Lose, TypeOK
<1>9. CASE PartialReset
  BY <1>9 DEF PartialReset, TypeOK
<1>10. CASE UNCHANGED vars
  BY <1>10 DEF vars, TypeOK
<1> QED
  BY <1>2, <1>3, <1>4, <1>5, <1>6, <1>7, <1>8, <1>9, <1>10 DEF Next

-----------------------------------------------------------------------------
LEMMA CrossedStep ==
  ASSUME TypeOK, SizesCrossed, [Next]_vars
  PROVE  SizesCrossed'
<1> USE PathMtuAssumption
<1>1. CASE ProbeDue
  BY <1>1 DEF ProbeDue, ProcessProbe, SizesCrossed
<1>2. CASE Silence
  BY <1>2 DEF Silence, ProcessProbe, SizesCrossed, TypeOK
<1>3. CASE WriteHeader
  <2>1. headers' \subseteq headers \cup {PMTUProbeResponse_B}
    BY <1>3, AddToBound DEF WriteHeader
  <2> QED BY <1>3, <2>1 DEF WriteHeader, SizesCrossed
<1>4. CASE AnswererReset
  BY <1>4 DEF AnswererReset, SizesCrossed, TypeOK
<1>5. ASSUME NEW size \in headers, ReceiveHeader(size)
      PROVE  SizesCrossed'
  BY <1>5 DEF ReceiveHeader, SizesCrossed
<1>6. ASSUME NEW size \in probes, ReceiveProbe(size)
      PROVE  SizesCrossed'
  BY <1>6 DEF ReceiveProbe, SizesCrossed
<1>7. ASSUME NEW size \in probes \cup headers, Lose(size)
      PROVE  SizesCrossed'
  BY <1>7 DEF Lose, SizesCrossed
<1>8. CASE PartialReset
  BY <1>8 DEF PartialReset, SizesCrossed, TypeOK
<1>9. CASE UNCHANGED vars
  BY <1>9 DEF vars, SizesCrossed
<1> QED
  BY <1>1, <1>2, <1>3, <1>4, <1>5, <1>6, <1>7, <1>8, <1>9 DEF Next

LEMMA InitCrossed == Init => TypeOK /\ SizesCrossed
<1> SUFFICES ASSUME Init PROVE TypeOK /\ SizesCrossed
  OBVIOUS
<1>1. path \in Nat /\ g_basePMTU_IPv4_B <= path /\ g_basePMTU_IPv4_B \in Nat
  BY PathMtuAssumption DEF Init
<1>2. TypeOK
  BY <1>1 DEF Init, TypeOK
<1>3. SizesCrossed
  BY <1>1 DEF Init, SizesCrossed
<1> QED BY <1>2, <1>3

\* Whatever the network does to probes and headers, and whenever either side is
\* reset, processConnection never comes to use datagrams the path does not carry.
THEOREM PMTUSafe == Spec => []PMTUFitsPath
<1>1. TypeOK /\ SizesCrossed /\ [Next]_vars => (TypeOK /\ SizesCrossed)'
  BY TypeStep, CrossedStep
<1>2. SizesCrossed => PMTUFitsPath
  BY DEF SizesCrossed, PMTUFitsPath
<1> QED
  BY InitCrossed, <1>1, <1>2, PTL DEF Spec

-----------------------------------------------------------------------------
\* Steps are the values PMTUProbeStep_B may have during a search: halving leads
\* from FirstStep down to MinStep, through members of Steps only.
HalvesTo(Steps) ==
  /\ Steps \subseteq Nat /\ FirstStep \in Steps
  /\ \A s \in Steps : MinStep <= s /\ (s = MinStep \/ s \div 2 \in Steps)

\* While the search is clean its last probe is the one for the current step, or
\* has just been answered; at its end the last probe did not fit.
Narrowed(Steps) ==
  isClean =>
    IF PMTUProbeStep_B = 0
    THEN path < PMTU_B + MinStep /\ (PMTUProbeSize_B = 0 \/ PMTUProbeSize_B > path)
    ELSE /\ PMTUProbeStep_B \in Steps
         /\ \/ PMTUProbeSize_B = 0 /\ PMTUProbeCount = 0
            \/ PMTUProbeSize_B = PMTU_B + PMTUProbeStep_B

LEMMA NarrowedStep ==
  ASSUME NEW Steps, HalvesTo(Steps), g_PMTUMaxProbes >= 2,
         TypeOK, SizesCrossed, Narrowed(Steps), [Next]_vars
  PROVE  Narrowed(Steps)'
<1> USE PathMtuAssumption
<1>1. CASE ProbeDue
  <2>1. CASE PMTUProbeStep_B = 0
    BY <1>1, <2>1 DEF ProbeDue, ProcessProbe, HalvesTo, Narrowed, TypeOK
  <2>2. CASE PMTUProbeStep_B # 0 /\ PMTUProbeCount + 1 >= g_PMTUMaxProbes
    <3> SUFFICES ASSUME isClean' PROVE Narrowed(Steps)'
      BY DEF Narrowed
    <3>1. isClean /\ ~IsUnanswered
      BY <1>1, <2>2 DEF ProbeDue, ProcessProbe
    <3>2. /\ PMTUProbeStep_B \in Steps /\ PMTUProbeSize_B = PMTU_B + PMTUProbeStep_B
          /\ path < PMTU_B + PMTUProbeStep_B
      BY <2>2, <3>1 DEF Narrowed, IsUnanswered, TypeOK
    <3>3. CASE PMTUProbeStep_B \div 2 < MinStep
      <4>1. PMTUProbeStep_B = MinStep
        BY <3>2, <3>3 DEF HalvesTo
      <4>2. /\ PMTU_B' = PMTU_B /\ path' = path /\ PMTUProbeStep_B' = 0
            /\ PMTUProbeSize_B' = PMTUProbeSize_B
        BY <1>1, <2>2, <3>3 DEF ProbeDue, ProcessProbe
      <4> QED BY <3>2, <4>1, <4>2 DEF Narrowed
    <3>4. CASE ~(PMTUProbeStep_B \div 2 < MinStep)
      <4>1. PMTUProbeStep_B \div 2 \in Steps
        BY <3>2, <3>4 DEF HalvesTo, TypeOK
      <4>2. /\ PMTU_B' = PMTU_B /\ PMTUProbeStep_B' = PMTUProbeStep_B \div 2
            /\ PMTUProbeSize_B' = PMTU_B + (PMTUProbeStep_B \div 2)
        BY <1>1, <2>2, <3>4 DEF ProbeDue, ProcessProbe
      <4> QED BY <3>4, <4>1, <4>2 DEF Narrowed, TypeOK
    <3> QED BY <3>3, <3>4
  <2>3. CASE PMTUProbeStep_B # 0 /\ ~(PMTUProbeCount + 1 >= g_PMTUMaxProbes)
    BY <1>1, <2>3 DEF ProbeDue, ProcessProbe, HalvesTo, Narrowed, TypeOK
  <2> QED BY <2>1, <2>2, <2>3
<1>2. CASE Silence
  BY <1>2 DEF Silence, ProcessProbe, HalvesTo, Narrowed, TypeOK
<1>3. CASE WriteHeader
  BY <1>3 DEF WriteHeader, Narrowed
<1>4. CASE AnswererReset
  BY <1>4 DEF AnswererReset, Narrowed
<1>5. ASSUME NEW size \in headers, ReceiveHeader(size)
      PROVE  Narrowed(Steps)'
  <2>1. size <= path /\ size \in Nat
    BY DEF SizesCrossed, TypeOK
  <2> QED BY <1>5, <2>1 DEF ReceiveHeader, Narrowed, TypeOK
<1>6. ASSUME NEW size \in probes, ReceiveProbe(size)
      PROVE  Narrowed(Steps)'
  BY <1>6 DEF ReceiveProbe, Narrowed
<1>7. ASSUME NEW size \in probes \cup headers, Lose(size)
      PROVE  Narrowed(Steps)'
  BY <1>7 DEF Lose, Narrowed
<1>8. CASE PartialReset
  BY <1>8 DEF PartialReset, Narrowed
<1>9. CASE UNCHANGED vars
  BY <1>9 DEF vars, Narrowed
<1> QED
  BY <1>1, <1>2, <1>3, <1>4, <1>5, <1>6, <1>7, <1>8, <1>9 DEF Next

\* A search of processConnection during which every probe that fits is answered in
\* time ends within MinStep bytes of the path, if a probe is tried at least twice
\* and FirstStep halves down to MinStep exactly.
THEOREM PMTUExact ==
  ASSUME NEW CONSTANT Steps, HalvesTo(Steps), g_PMTUMaxProbes >= 2
  PROVE  Spec => []SearchIsExact
<1>1. Init => Narrowed(Steps)
  BY DEF Init, Narrowed
<1>2. /\ TypeOK /\ SizesCrossed /\ Narrowed(Steps) /\ [Next]_vars
      => (TypeOK /\ SizesCrossed /\ Narrowed(Steps))'
  BY TypeStep, CrossedStep, NarrowedStep
<1>3. Narrowed(Steps) => SearchIsExact
  BY DEF Narrowed, SearchIsExact
<1> QED
  BY InitCrossed, <1>1, <1>2, <1>3, PTL DEF Spec

\* The numbers of Connection.cpp: steps from 128 down to 4, three tries of a probe.
THEOREM CodeIsExact ==
  ASSUME FirstStep = 128, MinStep = 4, g_PMTUMaxProbes = 3
  PROVE  Spec => []SearchIsExact
<1> DEFINE Steps == {4, 8, 16, 32, 64, 128}
<1>1. HalvesTo(Steps)
  <2>1. /\ 8 \div 2 = 4 /\ 16 \div 2 = 8 /\ 32 \div 2 = 16
        /\ 64 \div 2 = 32 /\ 128 \div 2 = 64
    OBVIOUS
  <2> QED BY <2>1 DEF HalvesTo
<1> HIDE DEF Steps
<1> QED BY <1>1, PMTUExact

-----------------------------------------------------------------------------
(***************************************************************************)
(* The loss.  Since the receiver last computed it, at packet               *)
(* rxPacketNumberInWindowProcessed, as many packets were sent as it        *)
(* counted and as were lost, so that the difference of the packet numbers  *)
(* is the number it should have counted.  What has to be shown is that     *)
(* the numbers never come far enough around for the difference to be taken *)
(* for a late packet: the last packet received lies in the window of the   *)
(* processed one, but for one case.  The processed packet may be the very  *)
(* last one before the wrap; the first one after it then opens a window    *)
(* and yet nothing is computed, because the formula expects 0.             *)
(***************************************************************************)

\* A window and a run of lost packets fit in half of the packet numbers (2^32).
NoLap == 2 * (g_packetsWindowSize + MaxBurst) <= UINT32_MAX

\* packets received since the last one processed, up to the last one received
Reach == rxPacketsCountInWindow + lost - burst

\* the last packet received, in the window of the processed one or right after the wrap
LastReceived(last) ==
  /\ rxPacketsWindowIdx = WindowOf(last)
  /\ \/ /\ last = rxPacketNumberInWindowProcessed + Reach
        /\ rxPacketsWindowIdx = WindowOf(rxPacketNumberInWindowProcessed)
     \/ /\ rxPacketNumberInWindowProcessed = UINT32_MAX
        /\ last = Reach - 1 /\ rxPacketsWindowIdx = 0

LossInv ==
  /\ txPacketsCount \in 0..UINT32_MAX
  /\ rxPacketNumberInWindowProcessed \in 0..UINT32_MAX
  /\ rxPacketsCountInWindow \in Nat /\ lost \in Nat
  /\ burst \in 0..MaxBurst /\ burst <= lost
  /\ \E last \in 0..UINT32_MAX :
       /\ LastReceived(last)
       /\ txPacketsCount \in {last + burst, last + burst - (UINT32_MAX + 1)}
  /\ LossIsTrue

\* numbers of one window are closer than its size
LEMMA SameWindow ==
  ASSUME NEW a \in Nat, NEW b \in Nat, WindowOf(a) = WindowOf(b), a <= b
  PROVE  b - a < g_packetsWindowSize
<1> DEFINE w == g_packetsWindowSize
           q == a \div w
<1>1. w \in Nat \ {0}
  BY TrafficAssumption
<1>2. a = w * (a \div w) + (a % w) /\ a % w \in 0..w-1
  BY <1>1
<1>3. b = w * (b \div w) + (b % w) /\ b % w \in 0..w-1
  BY <1>1
<1>4. a \div w = b \div w
  BY DEF WindowOf
<1>5. PICK r \in Int : r = w * (a \div w)
  BY <1>1
<1> QED BY <1>1, <1>2, <1>3, <1>4, <1>5

\* a packet that enters no other window is fewer than a window ahead
LEMMA FirstWindow ==
  ASSUME NEW a \in Nat, WindowOf(a) = 0
  PROVE  a < g_packetsWindowSize
<1>1. WindowOf(0) = 0
  BY TrafficAssumption DEF WindowOf
<1> QED BY <1>1, SameWindow

\* a share of more packets is a smaller share
LEMMA DivideMore ==
  ASSUME NEW x \in Nat, NEW d \in Nat \ {0}
  PROVE  /\ x \div d \in Nat /\ x \div (d + 1) \in Nat
         /\ x \div (d + 1) <= x \div d
<1> DEFINE p == x \div d
           q == x \div (d + 1)
<1>1. p \in Nat /\ q \in Nat /\ x = d * p + (x % d) /\ x % d \in 0..d-1
  BY SMTT(60)
<1>2. x = (d + 1) * q + (x % (d + 1)) /\ x % (d + 1) \in 0..d
  BY SMTT(60)
<1>3. SUFFICES ASSUME p < q PROVE FALSE
  BY <1>1
<1> HIDE DEF p, q
<1>4. d * q >= d * p + d
  <2>1. PICK e \in Nat : q = p + 1 + e
    BY <1>1, <1>3
  <2>2. d * q = d * p + d + d * e /\ d * e \in Nat
    BY <1>1, <2>1
  <2>3. d * p \in Nat
    BY <1>1
  <2> QED BY <2>2, <2>3
<1>5. (d + 1) * q = d * q + q /\ d * q \in Nat /\ d * p \in Nat
  BY <1>1
<1> QED BY <1>1, <1>2, <1>3, <1>4, <1>5

\* the share of the packets lost, in 1/100 percent
ShareLost(count, missing) ==
  IF missing = 0 THEN 0 ELSE 10000 - (count * 10000) \div (count + missing)

\* What the receiver computes of the packets it counted and those lost: the formula
\* expects one packet too few where the number wrapped.
LEMMA LossOf ==
  ASSUME NEW count \in Nat \ {0}, NEW missing \in Nat, NEW expected \in Nat,
         \/ expected = count + missing
         \/ expected = count + missing - 1 /\ expected > 0
  PROVE  /\ Loss(count, expected) <= ShareLost(count, missing)
         /\ expected = count + missing => Loss(count, expected) = ShareLost(count, missing)
<1> DEFINE x == count * 10000
<1>1. x \in Nat
  OBVIOUS
<1>2. CASE expected = count + missing
  <2>1. ~(count < expected) <=> missing = 0
    BY <1>2
  <2> HIDE DEF x
  <2> DEFINE q == x \div (count + missing)
  <2>2. q \in Int
    BY <1>1
  <2> QED BY <1>2, <2>1, <2>2 DEF Loss, ShareLost, x
<1>3. CASE expected = count + missing - 1 /\ expected > 0
  <2>1. expected + 1 = count + missing /\ expected \in Nat \ {0}
    BY <1>3
  <2>2. /\ x \div expected \in Nat /\ x \div (expected + 1) \in Nat
        /\ x \div (expected + 1) <= x \div expected
    <3> HIDE DEF x
    <3> QED BY Zenon, <1>1, <2>1, DivideMore
  <2>3. CASE missing = 0
    BY <1>3, <2>3 DEF Loss, ShareLost
  <2>4. CASE missing # 0 /\ count < expected
    BY <2>1, <2>2, <2>4 DEF Loss, ShareLost
  <2>5. CASE missing # 0 /\ ~(count < expected)
    <3>1. missing = 1 /\ expected = count
      BY <2>5, <1>3
    <3>2. x \div count = 10000
      BY SMT
    <3>3. x \div (count + missing) <= 10000
      BY <2>1, <2>2, <3>1, <3>2
    <3> HIDE DEF x
    <3>4. x \div (count + missing) \in Int
      BY <1>1, <2>2, <2>1
    <3> QED BY <3>1, <3>3, <3>4, <2>1 DEF Loss, ShareLost, x
  <2> QED BY <2>3, <2>4, <2>5
<1> QED BY <1>2, <1>3

\* The packet that arrives next was sent this many packets after the processed one.
LEMMA NextNumber ==
  ASSUME NoLap, LossInv
  PROVE  LET sent     == rxPacketsCountInWindow + lost + 1
             old      == rxPacketNumberInWindowProcessed
             number   == (txPacketsCount + 1) % (UINT32_MAX + 1)
         IN  /\ sent \in Nat \ {0} /\ sent <= g_packetsWindowSize + MaxBurst + 1
             /\ number \in 0..UINT32_MAX
             /\ \/ number = old + sent /\ rxPacketsWindowIdx = WindowOf(old)
                     /\ sent <= g_packetsWindowSize + MaxBurst
                \/ number = old + sent - (UINT32_MAX + 1) /\ rxPacketsWindowIdx = WindowOf(old)
                     /\ sent <= g_packetsWindowSize + MaxBurst
                \/ /\ old = UINT32_MAX /\ number = sent - 1 /\ rxPacketsWindowIdx = 0
                   /\ sent >= 2
<1> DEFINE sent     == rxPacketsCountInWindow + lost + 1
           old      == rxPacketNumberInWindowProcessed
           number   == (txPacketsCount + 1) % (UINT32_MAX + 1)
<1>0. /\ UINT32_MAX \in Nat /\ MaxBurst \in Nat /\ g_packetsWindowSize \in Nat \ {0}
      /\ 2 * (g_packetsWindowSize + MaxBurst) <= UINT32_MAX
  BY TrafficAssumption DEF NoLap
<1>1. PICK last \in 0..UINT32_MAX :
        LastReceived(last) /\ txPacketsCount \in {last + burst, last + burst - (UINT32_MAX + 1)}
  BY DEF LossInv
<1>2. /\ txPacketsCount \in 0..UINT32_MAX /\ old \in 0..UINT32_MAX
      /\ rxPacketsCountInWindow \in Nat /\ lost \in Nat
      /\ burst \in 0..MaxBurst /\ burst <= lost
  BY DEF LossInv
<1>3. number = IF txPacketsCount = UINT32_MAX THEN 0 ELSE txPacketsCount + 1
  BY <1>0, <1>2
<1>4. Reach \in Nat /\ sent = Reach + burst + 1
  BY <1>2 DEF Reach
<1> HIDE DEF number, sent, old
<1>5. CASE last = rxPacketNumberInWindowProcessed + Reach
             /\ rxPacketsWindowIdx = WindowOf(rxPacketNumberInWindowProcessed)
  <2>1. Reach < g_packetsWindowSize
    <3>1. last = old + Reach /\ WindowOf(last) = WindowOf(old)
      BY <1>1, <1>5 DEF LastReceived, old
    <3>2. last - old < g_packetsWindowSize
      BY <1>0, <1>2, <1>4, <3>1, SameWindow
    <3> QED BY <1>2, <1>4, <3>1, <3>2
  <2>2. last = old + Reach /\ rxPacketsWindowIdx = WindowOf(old)
    BY <1>5 DEF old
  <2>3. /\ sent \in Nat \ {0} /\ sent <= g_packetsWindowSize + MaxBurst
        /\ number \in 0..UINT32_MAX
        /\ number = old + sent \/ number = old + sent - (UINT32_MAX + 1)
    BY <1>0, <1>1, <1>2, <1>3, <1>4, <2>1, <2>2
  <2>4. sent <= g_packetsWindowSize + MaxBurst + 1
    BY <1>0, <2>3
  <2> QED BY <2>2, <2>3, <2>4 DEF number, sent, old
<1>6. CASE rxPacketNumberInWindowProcessed = UINT32_MAX
             /\ last = Reach - 1 /\ rxPacketsWindowIdx = 0
  <2>1. last < g_packetsWindowSize
    BY <1>1, <1>0, <1>6, FirstWindow DEF LastReceived
  <2>2. /\ sent \in Nat \ {0} /\ sent <= g_packetsWindowSize + MaxBurst + 1
        /\ number \in 0..UINT32_MAX /\ number = sent - 1 /\ sent >= 2
    BY <1>0, <1>1, <1>2, <1>3, <1>4, <1>6, <2>1
  <2> QED BY <1>6, <2>2 DEF number, sent, old
<1> QED BY <1>1, <1>5, <1>6 DEF LastReceived

\* a packet arrives: it closes the window with the true loss, or is counted
LEMMA LossReceive ==
  ASSUME NoLap, LossInv, txPacketsCount' = (txPacketsCount + 1) % (UINT32_MAX + 1),
         ReceivePacket(txPacketsCount')
  PROVE  LossInv'
<1>n. PICK number : number = txPacketsCount'
  OBVIOUS
<1> DEFINE sent     == rxPacketsCountInWindow + lost + 1
           count    == rxPacketsCountInWindow + 1
           old      == rxPacketNumberInWindowProcessed
           expected == Expected(number)
           isNew    == rxPacketsWindowIdx # WindowOf(number)
<1>0. /\ UINT32_MAX \in Nat /\ MaxBurst \in Nat /\ g_packetsWindowSize \in Nat \ {0}
      /\ 2 * (g_packetsWindowSize + MaxBurst) <= UINT32_MAX
  BY TrafficAssumption DEF NoLap
<1>1. /\ old \in 0..UINT32_MAX /\ rxPacketsCountInWindow \in Nat /\ lost \in Nat
      /\ count \in Nat \ {0} /\ sent = count + lost
  BY DEF LossInv
<1>2. /\ sent \in Nat \ {0} /\ sent <= g_packetsWindowSize + MaxBurst + 1
      /\ number \in 0..UINT32_MAX
      /\ \/ number = old + sent /\ rxPacketsWindowIdx = WindowOf(old)
              /\ sent <= g_packetsWindowSize + MaxBurst
         \/ number = old + sent - (UINT32_MAX + 1) /\ rxPacketsWindowIdx = WindowOf(old)
              /\ sent <= g_packetsWindowSize + MaxBurst
         \/ /\ old = UINT32_MAX /\ number = sent - 1 /\ rxPacketsWindowIdx = 0
            /\ sent >= 2
  BY Zenon, <1>n, NextNumber
<1>3. /\ number = old + sent => expected = sent
      /\ number # old + sent => expected = sent - 1 /\ number <= old
  <2>1. CASE number = old + sent
    BY <1>0, <1>1, <1>2, <2>1 DEF Expected
  <2>2. CASE number # old + sent
    <3>1. number = old + sent - (UINT32_MAX + 1) \/ (old = UINT32_MAX /\ number = sent - 1)
      BY Zenon, <1>2, <2>2
    <3>2. number = old + sent - (UINT32_MAX + 1)
      BY <1>0, <1>1, <1>2, <3>1
    <3>3. old - number = UINT32_MAX + 1 - sent
      BY <1>0, <1>1, <1>2, <3>2
    <3>4. ~(old < number) /\ ~(old - number < UINT32_MAX \div 2)
      BY <1>0, <1>1, <1>2, <3>2, <3>3
    <3> QED BY <1>0, <1>1, <1>2, <3>2, <3>4 DEF Expected
  <2> QED BY <2>1, <2>2
<1>4. /\ rxPacketsWindowIdx' = WindowOf(number) /\ burst' = 0
      /\ IF isNew /\ expected > 0
         THEN /\ rxPacketsLossInWindow_prc100' = Loss(count, expected)
              /\ rxPacketsCountInWindow' = 0 /\ rxPacketNumberInWindowProcessed' = number
              /\ trueLoss' = (IF lost = 0 THEN 0 ELSE 10000 - (count * 10000) \div (count + lost))
              /\ isWrapped' = (number <= old) /\ lost' = 0
         ELSE /\ rxPacketsCountInWindow' = count
              /\ UNCHANGED <<rxPacketsLossInWindow_prc100, rxPacketNumberInWindowProcessed,
                             trueLoss, isWrapped, lost>>
  <2>1. ReceivePacket(number)
    BY Zenon, <1>n
  <2> QED BY <2>1 DEF ReceivePacket
<1>5. burst' \in 0..MaxBurst /\ lost' \in Nat /\ burst' <= lost'
      /\ rxPacketsCountInWindow' \in Nat /\ rxPacketNumberInWindowProcessed' \in 0..UINT32_MAX
  <2> HIDE DEF expected, isNew
  <2> QED BY <1>0, <1>1, <1>2, <1>4
<1>6. CASE isNew /\ expected > 0
  <2>0. expected \in Nat /\ (expected = sent \/ expected = sent - 1)
    BY <1>2, <1>3
  <2>1. LossIsTrue'
    <3> DEFINE share == ShareLost(count, lost)
    <3> HIDE DEF expected, old, isNew
    <3>1. \/ expected = count + lost
          \/ expected = count + lost - 1 /\ expected > 0
      BY <1>1, <2>0, <1>6
    <3>2. Loss(count, expected) <= share /\ (expected = count + lost => Loss(count, expected) = share)
      <4> HIDE DEF count
      <4> QED BY Zenon, <1>1, <2>0, <3>1, LossOf
    <3>3. /\ rxPacketsLossInWindow_prc100' = Loss(count, expected) /\ trueLoss' = share
          /\ isWrapped' = (number <= old)
      BY <1>4, <1>6 DEF ShareLost
    <3>4. ~(number <= old) => expected = count + lost
      BY Zenon, <1>1, <1>3
    <3> HIDE DEF share, count, sent
    <3> QED BY Zenon, <3>2, <3>3, <3>4 DEF LossIsTrue
  <2>2. Reach' = 0
    BY <1>4, <1>6 DEF Reach
  <2>3. LastReceived(number)'
    <3> HIDE DEF expected, isNew
    <3>1. number = rxPacketNumberInWindowProcessed' + Reach'
      BY <1>4, <1>6, <1>2, <2>2
    <3>2. rxPacketsWindowIdx' = WindowOf(number) /\ rxPacketNumberInWindowProcessed' = number
      BY <1>4, <1>6
    <3> QED BY Zenon, <3>1, <3>2 DEF LastReceived, WindowOf
  <2>4. number \in {number + burst', number + burst' - (UINT32_MAX + 1)}
    BY <1>2, <1>4
  <2>5. \E last \in 0..UINT32_MAX :
          LastReceived(last)' /\ number \in {last + burst', last + burst' - (UINT32_MAX + 1)}
    BY Zenon, <1>2, <2>3, <2>4
  <2> QED BY Zenon, <1>n, <1>2, <1>5, <2>1, <2>5 DEF LossInv
<1>7. CASE ~(isNew /\ expected > 0)
  <2>1. LossIsTrue'
    BY <1>4, <1>7 DEF LossIsTrue, LossInv
  <2>2. /\ rxPacketNumberInWindowProcessed' = old /\ Reach' = sent
        /\ rxPacketsWindowIdx' = WindowOf(number)
    BY <1>1, <1>4, <1>7 DEF Reach
  <2>3. \/ number = old + sent /\ WindowOf(number) = WindowOf(old)
        \/ old = UINT32_MAX /\ number = sent - 1 /\ WindowOf(number) = 0
    <3>1. CASE number = old + sent /\ rxPacketsWindowIdx = WindowOf(old)
      BY <1>2, <1>3, <1>7, <3>1
    <3>2. CASE number = old + sent - (UINT32_MAX + 1) /\ rxPacketsWindowIdx = WindowOf(old)
                 /\ sent <= g_packetsWindowSize + MaxBurst
      <4>1. number <= old /\ ~(old - number < g_packetsWindowSize)
        BY <1>0, <1>1, <1>2, <3>2
      <4>2. isNew
        BY <1>1, <1>2, <3>2, <4>1, SameWindow
      <4>3. number # old + sent /\ expected = sent - 1
        BY <1>0, <1>1, <1>2, <1>3, <3>2
      <4>4. sent = 1
        BY <1>2, <1>7, <4>2, <4>3
      <4>5. old = UINT32_MAX /\ number = 0
        BY <1>0, <1>1, <1>2, <3>2, <4>4
      <4>6. WindowOf(0) = 0
        BY <1>0 DEF WindowOf
      <4> QED BY <4>4, <4>5, <4>6
    <3>3. CASE old = UINT32_MAX /\ number = sent - 1 /\ rxPacketsWindowIdx = 0 /\ sent >= 2
      <4>1. number # old + sent /\ expected > 0
        BY <1>0, <1>1, <1>2, <1>3, <3>3
      <4> QED BY <1>7, <3>3, <4>1
    <3> QED BY Zenon, <1>2, <3>1, <3>2, <3>3
  <2>4. LastReceived(number)'
    <3> HIDE DEF expected, isNew, old, sent
    <3> QED BY Zenon, <2>2, <2>3 DEF LastReceived, WindowOf
  <2>5. number \in {number + burst', number + burst' - (UINT32_MAX + 1)}
    BY <1>2, <1>4
  <2>6. \E last \in 0..UINT32_MAX :
          LastReceived(last)' /\ number \in {last + burst', last + burst' - (UINT32_MAX + 1)}
    BY Zenon, <1>2, <2>4, <2>5
  <2> QED BY Zenon, <1>n, <1>2, <1>5, <2>1, <2>6 DEF LossInv
<1> QED BY Zenon, <1>6, <1>7

\* a packet is lost: it counts for the run and for the window
LEMMA LossLose ==
  ASSUME NoLap, LossInv, txPacketsCount' = (txPacketsCount + 1) % (UINT32_MAX + 1), LosePacket
  PROVE  LossInv'
<1>0. UINT32_MAX \in Nat /\ MaxBurst \in Nat /\ MaxBurst <= UINT32_MAX
  BY TrafficAssumption DEF NoLap
<1>1. PICK last \in 0..UINT32_MAX :
        LastReceived(last) /\ txPacketsCount \in {last + burst, last + burst - (UINT32_MAX + 1)}
  BY DEF LossInv
<1>2. /\ txPacketsCount \in 0..UINT32_MAX /\ rxPacketNumberInWindowProcessed \in 0..UINT32_MAX
      /\ rxPacketsCountInWindow \in Nat /\ lost \in Nat
      /\ burst \in 0..MaxBurst /\ burst <= lost /\ LossIsTrue
  BY DEF LossInv
<1>3. /\ burst < MaxBurst /\ burst' = burst + 1 /\ lost' = lost + 1
      /\ UNCHANGED <<rxPacketsWindowIdx, rxPacketNumberInWindowProcessed,
                     rxPacketsCountInWindow, rxPacketsLossInWindow_prc100, trueLoss, isWrapped>>
  BY DEF LosePacket, rxVars
<1>4. txPacketsCount' = IF txPacketsCount = UINT32_MAX THEN 0 ELSE txPacketsCount + 1
  BY <1>0, <1>2
<1>5. /\ txPacketsCount' \in 0..UINT32_MAX
      /\ txPacketsCount' \in {last + burst', last + burst' - (UINT32_MAX + 1)}
  <2>1. last + burst <= UINT32_MAX + UINT32_MAX
    BY <1>0, <1>1, <1>2
  <2> QED BY <1>0, <1>1, <1>2, <1>3, <1>4, <2>1
<1>6. Reach' = Reach
  BY <1>2, <1>3 DEF Reach
<1>7. LastReceived(last)'
  BY <1>1, <1>3, <1>6 DEF LastReceived, WindowOf
<1>8. LossIsTrue'
  BY <1>2, <1>3 DEF LossIsTrue
<1>9. burst' \in 0..MaxBurst /\ burst' <= lost' /\ lost' \in Nat
  BY <1>0, <1>2, <1>3
<1>10. \E l \in 0..UINT32_MAX :
         /\ LastReceived(l)'
         /\ txPacketsCount' \in {l + burst', l + burst' - (UINT32_MAX + 1)}
  BY Zenon, <1>1, <1>5, <1>7
<1>11. rxPacketNumberInWindowProcessed' \in 0..UINT32_MAX /\ rxPacketsCountInWindow' \in Nat
  BY <1>2, <1>3
<1> QED BY Zenon, <1>5, <1>8, <1>9, <1>10, <1>11 DEF LossInv

\* no other step touches the receiving side
LEMMA LossStep ==
  ASSUME NoLap, LossInv, [TrafficNext]_trafficVars
  PROVE  LossInv'
<1>1. CASE SendPacket
  BY Zenon, <1>1, LossReceive, LossLose DEF SendPacket
<1>2. ASSUME UNCHANGED <<txPacketsCount, rxVars, lossHistory>>
      PROVE  LossInv'
  <2>1. UNCHANGED <<txPacketsCount, rxPacketsWindowIdx, rxPacketNumberInWindowProcessed,
                    rxPacketsCountInWindow, rxPacketsLossInWindow_prc100, burst, lost,
                    trueLoss, isWrapped>>
    BY <1>2 DEF rxVars, lossHistory
  <2> QED BY <2>1 DEF LossInv, LastReceived, Reach, LossIsTrue, WindowOf
<1>3. CASE ReceiverPartialReset
  <2>1. UNCHANGED <<txPacketsCount, rxPacketsWindowIdx, rxPacketNumberInWindowProcessed,
                    rxPacketsCountInWindow, burst, lost, isWrapped>>
    BY <1>3 DEF ReceiverPartialReset, txVars
  <2>2. LossIsTrue'
    BY <1>3 DEF ReceiverPartialReset, LossIsTrue
  <2> QED BY <2>1, <2>2 DEF LossInv, LastReceived, Reach, WindowOf
<1>4. CASE Answer \/ HeaderReceived(FALSE, FALSE, FALSE)
  BY <1>2, <1>4 DEF Answer, HeaderReceived
<1>5. ASSUME NEW speed, Next1Hz(speed)
      PROVE  LossInv'
  BY <1>2, <1>5 DEF Next1Hz
<1>6. ASSUME NEW limit, SetTxSpeedLimit_B_s(limit)
      PROVE  LossInv'
  BY <1>2, <1>6 DEF SetTxSpeedLimit_B_s
<1>7. CASE SenderPartialReset
  BY <1>2, <1>7 DEF SenderPartialReset
<1>8. CASE ConditionsChange \/ UNCHANGED trafficVars
  BY <1>2, <1>8 DEF ConditionsChange, trafficVars, txVars
<1> QED BY Zenon, <1>1, <1>3, <1>4, <1>5, <1>6, <1>7, <1>8 DEF TrafficNext

\* The loss that the receiver reports is the share of packets really lost in the
\* window it closed, and not more where the packet number wrapped in it.
THEOREM TrafficLoss ==
  ASSUME NoLap
  PROVE  TrafficSpec => []LossIsTrue
<1>1. TrafficInit => LossInv
  <2> SUFFICES ASSUME TrafficInit PROVE LossInv
    OBVIOUS
  <2>1. /\ txPacketsCount = 0 /\ rxPacketsWindowIdx = 0 /\ rxPacketNumberInWindowProcessed = 0
        /\ rxPacketsCountInWindow = 0 /\ burst = 0 /\ lost = 0 /\ LossIsTrue
    BY DEF TrafficInit, LossIsTrue
  <2>2. WindowOf(0) = 0 /\ Reach = 0 /\ 0 \in 0..UINT32_MAX /\ 0 \in 0..MaxBurst
    BY <2>1, TrafficAssumption DEF WindowOf, Reach
  <2>3. LastReceived(0)
    BY <2>1, <2>2 DEF LastReceived
  <2>4. \E last \in 0..UINT32_MAX :
          LastReceived(last) /\ txPacketsCount \in {last + burst, last + burst - (UINT32_MAX + 1)}
    <3>1. txPacketsCount \in {0 + burst, 0 + burst - (UINT32_MAX + 1)}
      BY <2>1
    <3> QED BY Zenon, <2>2, <2>3, <3>1
  <2> QED BY <2>1, <2>2, <2>4 DEF LossInv
<1>2. LossInv /\ [TrafficNext]_trafficVars => LossInv'
  BY LossStep
<1>3. LossInv => LossIsTrue
  BY DEF LossInv
<1> QED BY <1>1, <1>2, <1>3, PTL DEF TrafficSpec

-----------------------------------------------------------------------------
(* The search for a new minRTT.  RTTCount counts bad round trips while no   *)
(* search is under way, and it is 0 when one ends.                          *)

ProbeInv ==
  /\ RTTCount \in Nat /\ isRTTProbing \in BOOLEAN
  /\ badRun \in 0..g_RTTBadProbeLimit
  /\ ~isRTTProbing => RTTCount <= badRun

\* RTTCount counts bad round trips in a row while no search is under way
LEMMA ProbeStep ==
  ASSUME ProbeInv, [TrafficNext]_trafficVars
  PROVE  /\ ProbeInv'
         /\ ~isRTTProbing /\ isRTTProbing' => badRun + 1 >= g_RTTBadProbeLimit
<1>0. g_RTTBadProbeLimit \in Nat \ {0} /\ g_RTTNewProbeLimit \in Nat \ {0}
  BY TrafficAssumption
<1>1. ASSUME NEW isAnswer \in BOOLEAN, NEW isBig \in BOOLEAN, NEW isDue \in BOOLEAN,
             HeaderReceived(isAnswer, isBig, isDue)
      PROVE  /\ ProbeInv'
             /\ ~isRTTProbing /\ isRTTProbing' => badRun + 1 >= g_RTTBadProbeLimit
  <2> DEFINE tx == IF isAnswer THEN OnRTT(isBig, isDue) ELSE NoRTT
  <2>1. /\ RTTCount' = tx.count /\ isRTTProbing' = tx.probing
        /\ badRun' = IF ~isAnswer \/ isRTTProbing THEN badRun
                     ELSE IF tx.probing \/ ~(isBig \/ tooBigLoss) THEN 0
                     ELSE Min(badRun + 1, g_RTTBadProbeLimit)
    BY Zenon, <1>1 DEF HeaderReceived
  <2>2. CASE ~isAnswer
    <3>1. tx.count = RTTCount /\ tx.probing = isRTTProbing
      BY <2>2 DEF NoRTT
    <3> HIDE DEF tx
    <3> QED BY <2>1, <2>2, <3>1 DEF ProbeInv
  <2>3. CASE isAnswer /\ isRTTProbing
    <3> DEFINE isMore == RTTCount + 1 < g_RTTNewProbeLimit
    <3>1. /\ tx.count = IF RTTCount + 1 >= g_RTTNewProbeLimit THEN 0 ELSE RTTCount + 1
          /\ tx.probing = isMore
      BY <2>3 DEF OnRTT
    <3> HIDE DEF tx
    <3>2. tx.count \in Nat
      BY <1>0, <3>1 DEF ProbeInv
    <3>3. CASE RTTCount + 1 < g_RTTNewProbeLimit
      <4>1. tx.probing = TRUE
        BY <3>1, <3>3
      <4> QED BY <2>1, <2>3, <3>2, <4>1 DEF ProbeInv
    <3>4. CASE ~(RTTCount + 1 < g_RTTNewProbeLimit)
      <4>1. tx.probing = FALSE
        <5>1. isMore = FALSE
          BY <3>4
        <5> QED BY Zenon, <3>1, <5>1
      <4>2. tx.count = 0
        BY <1>0, <3>1, <3>4 DEF ProbeInv
      <4>3. RTTCount' = 0 /\ isRTTProbing' = FALSE /\ badRun' = badRun
        BY Zenon, <2>1, <2>3, <4>1, <4>2
      <4>4. 0 <= badRun /\ 0 \in Nat
        BY DEF ProbeInv
      <4> QED BY Zenon, <2>3, <4>3, <4>4 DEF ProbeInv
    <3> QED BY <3>3, <3>4
  <2>4. CASE isAnswer /\ ~isRTTProbing /\ (isBig \/ tooBigLoss)
    <3> DEFINE isLast == isDue /\ RTTCount + 1 >= g_RTTBadProbeLimit
    <3>1. /\ tx.count = IF isLast THEN 0 ELSE IF isDue THEN RTTCount + 1 ELSE RTTCount
          /\ tx.probing = isLast
      BY <2>4 DEF OnRTT
    <3> HIDE DEF tx
    <3>2. badRun' = IF isLast THEN 0 ELSE Min(badRun + 1, g_RTTBadProbeLimit)
      BY <2>1, <2>4, <3>1
    <3>3. CASE isLast
      BY <1>0, <2>1, <3>1, <3>2, <3>3 DEF ProbeInv
    <3>4. CASE ~isLast
      BY <1>0, <2>1, <2>4, <3>1, <3>2, <3>4 DEF ProbeInv, Min
    <3> QED BY <3>3, <3>4
  <2>5. CASE isAnswer /\ ~isRTTProbing /\ ~(isBig \/ tooBigLoss)
    <3>1. tx.count = 0 /\ tx.probing = FALSE
      BY <2>5 DEF OnRTT
    <3> HIDE DEF tx
    <3>2. badRun' = 0 /\ RTTCount' = 0
      BY <2>1, <2>5, <3>1
    <3>3. isRTTProbing' = FALSE
      BY Zenon, <2>1, <3>1
    <3>4. 0 \in Nat /\ 0 \in 0..g_RTTBadProbeLimit /\ 0 <= 0
      BY <1>0
    <3> QED BY Zenon, <3>2, <3>3, <3>4 DEF ProbeInv
  <2> QED BY <2>2, <2>3, <2>4, <2>5 DEF ProbeInv
<1>2. ASSUME UNCHANGED <<isRTTProbing, RTTCount, badRun>>
      PROVE  /\ ProbeInv'
             /\ ~isRTTProbing /\ isRTTProbing' => badRun + 1 >= g_RTTBadProbeLimit
  BY <1>2 DEF ProbeInv
<1>3. CASE SendPacket
  BY <1>2, <1>3 DEF SendPacket
<1>4. CASE Answer \/ HeaderReceived(FALSE, FALSE, FALSE)
  BY Zenon, <1>1, <1>4 DEF Answer
<1>5. ASSUME NEW speed, Next1Hz(speed)
      PROVE  UNCHANGED <<isRTTProbing, RTTCount, badRun>>
  BY <1>5 DEF Next1Hz
<1>6. ASSUME NEW limit, SetTxSpeedLimit_B_s(limit)
      PROVE  UNCHANGED <<isRTTProbing, RTTCount, badRun>>
  BY <1>6 DEF SetTxSpeedLimit_B_s
<1>7. CASE SenderPartialReset \/ ReceiverPartialReset \/ ConditionsChange \/ UNCHANGED trafficVars
  <2>1. UNCHANGED <<isRTTProbing, RTTCount, badRun>>
    BY <1>7 DEF SenderPartialReset, ReceiverPartialReset, ConditionsChange, trafficVars, txVars
  <2> QED BY Zenon, <1>2, <2>1
<1> QED BY Zenon, <1>2, <1>3, <1>4, <1>5, <1>6, <1>7 DEF TrafficNext

\* A new minRTT is searched for only after g_RTTBadProbeLimit bad round trips in a
\* row, whatever the loss windows, resets and earlier searches in between.
THEOREM TrafficProbing == TrafficSpec => ProbingAfterBadRun
<1>1. TrafficInit => ProbeInv
  <2>1. 0 \in Nat /\ 0 \in 0..g_RTTBadProbeLimit /\ 0 <= 0
    BY TrafficAssumption
  <2> QED BY Zenon, <2>1 DEF TrafficInit, ProbeInv
<1>2. ProbeInv /\ [TrafficNext]_trafficVars
        => /\ ProbeInv'
           /\ [~isRTTProbing /\ isRTTProbing' => badRun + 1 >= g_RTTBadProbeLimit]_trafficVars
  BY ProbeStep
<1> QED BY <1>1, <1>2, PTL DEF TrafficSpec, ProbingAfterBadRun
=============================================================================
