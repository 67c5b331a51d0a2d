------------------------------ MODULE Traffic ------------------------------
(***************************************************************************)
(* Traffic control of one direction of a connection.  The receiver counts  *)
(* the packets that arrive and, whenever their number enters another       *)
(* window, computes the share that was lost; the sender finds it in the    *)
(* headers it receives, measures the round trip time, and raises or lowers *)
(* txLimit_B_s.  The network loses packets but keeps their order.          *)
(***************************************************************************)
EXTENDS Naturals

CONSTANTS
  UINT32_MAX,             \* packet numbers are uint32_t
  g_packetsWindowSize, g_RTTBadProbeLimit, g_RTTNewProbeLimit,
  g_kIncStep, g_kDecStep,
  Window_B,               \* g_packetsWindowSize * g_basePMTU_IPv4_B
  g_txLimitDefault_B_s,
  DesiredLimits,          \* limits the application may set
  MaxBurst                \* bound of the model: packets lost in a row

ASSUME TrafficAssumption ==
  /\ UINT32_MAX \in Nat /\ MaxBurst \in Nat /\ Window_B \in Nat
  /\ g_packetsWindowSize \in Nat \ {0} /\ g_RTTBadProbeLimit \in Nat \ {0}
  /\ g_RTTNewProbeLimit \in Nat \ {0} /\ g_kIncStep \in Nat \ {0} /\ g_kDecStep \in Nat \ {0}
  /\ g_txLimitDefault_B_s \in Nat \ {0}
  /\ DesiredLimits \subseteq Nat

VARIABLES
  \* the sending side
  txPacketsCount, txPacketsWindowIdx, txLimit_B_s, desiredTxLimit_B_s,
  tooBigLoss, tooBigRTT, isRTTProbing, RTTCount,
  isRTTRequested, \* RTTRequestTick_us > 0: a round trip is being measured
  \* the receiving side
  rxPacketsWindowIdx, rxPacketNumberInWindowProcessed, rxPacketsCountInWindow,
  rxPacketsLossInWindow_prc100,
  conditions,     \* "good": nothing is lost, round trips are short, and there is
                  \* always enough to send; "bad": none of these is certain
  \* history
  burst,          \* packets lost since the last one received
  lost,           \* packets lost since rxPacketNumberInWindowProcessed
  trueLoss,       \* the share really lost when the loss was last computed
  isWrapped,      \* the packet number wrapped in that window
  badRun          \* bad round trips since the last good one, up to the limit

txVars == <<txPacketsCount, txPacketsWindowIdx, txLimit_B_s, desiredTxLimit_B_s,
            tooBigLoss, tooBigRTT, isRTTProbing, RTTCount, isRTTRequested>>
rxVars == <<rxPacketsWindowIdx, rxPacketNumberInWindowProcessed, rxPacketsCountInWindow,
            rxPacketsLossInWindow_prc100>>
lossHistory == <<burst, lost, trueLoss, isWrapped>>
trafficVars == <<txVars, rxVars, conditions, lossHistory, badRun>>

WindowOf(number) == number \div g_packetsWindowSize

TrafficInit ==
  /\ txPacketsCount = 0 /\ txPacketsWindowIdx = 0
  /\ txLimit_B_s = g_txLimitDefault_B_s
  /\ desiredTxLimit_B_s \in DesiredLimits
  /\ tooBigLoss = FALSE /\ tooBigRTT = FALSE
  /\ isRTTProbing = FALSE /\ RTTCount = 0
  /\ isRTTRequested = TRUE
  /\ rxPacketsWindowIdx = 0 /\ rxPacketNumberInWindowProcessed = 0
  /\ rxPacketsCountInWindow = 0 /\ rxPacketsLossInWindow_prc100 = 0
  /\ conditions \in {"good", "bad"}
  /\ burst = 0 /\ lost = 0 /\ trueLoss = 0 /\ isWrapped = FALSE
  /\ badRun = 0

-----------------------------------------------------------------------------
(* The receiving side *)

\* rxPacketsCountInWindowExpected
Expected_NoWrap(received) ==
  LET processed == rxPacketNumberInWindowProcessed
  IN  IF processed < received THEN received - processed ELSE 0

Expected(received) ==
  LET processed == rxPacketNumberInWindowProcessed
  IN  IF processed < received THEN received - processed
      ELSE IF processed - received < UINT32_MAX \div 2 THEN 0
      ELSE UINT32_MAX - processed + received

\* The share not received, in 1/100 percent.
Loss(count, expected) ==
  IF count < expected THEN 10000 - (count * 10000) \div expected ELSE 0

\* The statistics in onUdpReceived when the packet with this number arrives.
ReceivePacket(number) ==
  LET count    == rxPacketsCountInWindow + 1
      expected == Expected(number)
  IN  /\ rxPacketsWindowIdx' = WindowOf(number)
      /\ IF rxPacketsWindowIdx # WindowOf(number) /\ expected > 0
         THEN /\ rxPacketsLossInWindow_prc100' = Loss(count, expected)
              /\ rxPacketsCountInWindow' = 0
              /\ rxPacketNumberInWindowProcessed' = number
              /\ trueLoss' = IF lost = 0 THEN 0 ELSE 10000 - (count * 10000) \div (count + lost)
              /\ isWrapped' = (number <= rxPacketNumberInWindowProcessed)
              /\ lost' = 0
         ELSE /\ rxPacketsCountInWindow' = count
              /\ UNCHANGED <<rxPacketsLossInWindow_prc100, rxPacketNumberInWindowProcessed,
                             trueLoss, isWrapped, lost>>
      /\ burst' = 0

LosePacket ==
  /\ conditions = "bad"
  /\ burst < MaxBurst
  /\ burst' = burst + 1 /\ lost' = lost + 1
  /\ UNCHANGED <<rxVars, trueLoss, isWrapped>>

\* Bound of the model: between two headers the packet numbers do not come back
\* to the window of the first (2^32 packets).
IsLap(number) ==
  WindowOf(number) = txPacketsWindowIdx /\ WindowOf(txPacketsCount) # txPacketsWindowIdx

\* writePacket numbers the packet; it arrives or is lost.
SendPacket ==
  /\ txPacketsCount' = (txPacketsCount + 1) % (UINT32_MAX + 1)
  /\ ~IsLap(txPacketsCount')
  /\ isRTTRequested' = TRUE
  /\ ReceivePacket(txPacketsCount') \/ LosePacket
  /\ UNCHANGED <<txPacketsWindowIdx, txLimit_B_s, desiredTxLimit_B_s, tooBigLoss,
                 tooBigRTT, isRTTProbing, RTTCount, conditions, badRun>>

-----------------------------------------------------------------------------
(* The sending side *)

Min(a, b) == IF a < b THEN a ELSE b
Max(a, b) == IF a < b THEN b ELSE a

Decreased(limit) == limit - limit \div g_kDecStep

Increased(limit) ==
  LET inc == IF limit \div g_kIncStep <= Window_B THEN Window_B ELSE limit \div g_kIncStep
  IN  Min(limit + inc, desiredTxLimit_B_s)

\* A round trip was measured.  isBig: it is too long; isDue: nextRTTProbe_us has
\* come.  The values left in tx are those the rest of the handler sees.
OnRTT_Forgets(isBig, isDue) ==
  IF isRTTProbing
  THEN [limit |-> txLimit_B_s, bigRTT |-> tooBigRTT,
        count |-> IF RTTCount + 1 >= g_RTTNewProbeLimit THEN 0 ELSE RTTCount + 1,
        probing |-> RTTCount + 1 < g_RTTNewProbeLimit]
  ELSE IF isBig \/ tooBigLoss
  THEN LET isLast == isDue /\ RTTCount + 1 >= g_RTTBadProbeLimit
       IN  [limit |-> Decreased(txLimit_B_s), bigRTT |-> isBig,
            count |-> IF isLast THEN 0 ELSE IF isDue THEN RTTCount + 1 ELSE RTTCount,
            probing |-> isLast]
  ELSE [limit |-> Increased(txLimit_B_s), bigRTT |-> FALSE, count |-> RTTCount, probing |-> FALSE]

OnRTT(isBig, isDue) ==
  IF isRTTProbing
  THEN [limit |-> txLimit_B_s, bigRTT |-> tooBigRTT,
        count |-> IF RTTCount + 1 >= g_RTTNewProbeLimit THEN 0 ELSE RTTCount + 1,
        probing |-> RTTCount + 1 < g_RTTNewProbeLimit]
  ELSE IF isBig \/ tooBigLoss
  THEN LET isLast == isDue /\ RTTCount + 1 >= g_RTTBadProbeLimit
       IN  [limit |-> Decreased(txLimit_B_s), bigRTT |-> isBig,
            count |-> IF isLast THEN 0 ELSE IF isDue THEN RTTCount + 1 ELSE RTTCount,
            probing |-> isLast]
  ELSE [limit |-> Increased(txLimit_B_s), bigRTT |-> FALSE, count |-> 0, probing |-> FALSE]

NoRTT == [limit |-> txLimit_B_s, bigRTT |-> tooBigRTT, count |-> RTTCount, probing |-> isRTTProbing]

EntersWindow == txPacketsWindowIdx # WindowOf(txPacketsCount)

\* The window part of the handler, after the round trip part has left tx.
OnWindow_Sticky(tx) ==
  IF ~EntersWindow \/ tx.probing
  THEN txLimit_B_s' = tx.limit /\ UNCHANGED tooBigLoss
  ELSE LET isBig == 100 < rxPacketsLossInWindow_prc100 \/ tooBigLoss
       IN  /\ tooBigLoss' = isBig
           /\ txLimit_B_s' = IF isBig \/ tx.bigRTT THEN Decreased(tx.limit) ELSE Increased(tx.limit)

OnWindow(tx) ==
  IF ~EntersWindow \/ tx.probing
  THEN txLimit_B_s' = tx.limit /\ UNCHANGED tooBigLoss
  ELSE LET isBig == 100 < rxPacketsLossInWindow_prc100
       IN  /\ tooBigLoss' = isBig
           /\ txLimit_B_s' = IF isBig \/ tx.bigRTT THEN Decreased(tx.limit) ELSE Increased(tx.limit)

\* A header arrives at the sending side; it may answer the round trip request.
HeaderReceived(isAnswer, isBig, isDue) ==
  LET tx == IF isAnswer THEN OnRTT(isBig, isDue) ELSE NoRTT
  IN  /\ isAnswer => isRTTRequested
      /\ isRTTRequested' = (isRTTRequested /\ ~isAnswer)
      /\ isBig => conditions = "bad"
      /\ tooBigRTT' = tx.bigRTT /\ RTTCount' = tx.count /\ isRTTProbing' = tx.probing
      /\ OnWindow(tx)
      /\ txPacketsWindowIdx' = WindowOf(txPacketsCount)
      /\ badRun' = IF ~isAnswer \/ isRTTProbing THEN badRun
                   ELSE IF tx.probing \/ ~(isBig \/ tooBigLoss) THEN 0
                   ELSE Min(badRun + 1, g_RTTBadProbeLimit)
      /\ UNCHANGED <<txPacketsCount, desiredTxLimit_B_s, rxVars, conditions, lossHistory>>

\* Once a second: not more than four times what was really sent.
Next1Hz(speed) ==
  /\ conditions = "good" => speed = txLimit_B_s
  /\ txLimit_B_s' = Min(txLimit_B_s, Max(g_txLimitDefault_B_s, speed * 4))
  /\ UNCHANGED <<txPacketsCount, txPacketsWindowIdx, desiredTxLimit_B_s, tooBigLoss,
                 tooBigRTT, isRTTProbing, RTTCount, isRTTRequested, rxVars, conditions,
                 lossHistory, badRun>>

SetTxSpeedLimit_B_s(limit) ==
  /\ desiredTxLimit_B_s' = limit
  /\ UNCHANGED <<txPacketsCount, txPacketsWindowIdx, txLimit_B_s, tooBigLoss,
                 tooBigRTT, isRTTProbing, RTTCount, isRTTRequested, rxVars, conditions,
                 lossHistory, badRun>>

\* partialReset on the sending side after two seconds without a packet; what it
\* does to the path MTU is in PathMtu.
SenderPartialReset ==
  /\ conditions = "bad"
  /\ txLimit_B_s' = g_txLimitDefault_B_s
  /\ isRTTRequested' = FALSE
  /\ UNCHANGED <<txPacketsCount, txPacketsWindowIdx, desiredTxLimit_B_s, tooBigLoss,
                 tooBigRTT, isRTTProbing, RTTCount, rxVars, conditions, lossHistory, badRun>>

\* The same on the receiving side, which forgets the loss but not the window.
ReceiverPartialReset ==
  /\ conditions = "bad"
  /\ rxPacketsLossInWindow_prc100' = 0 /\ trueLoss' = 0
  /\ UNCHANGED <<txVars, rxPacketsWindowIdx, rxPacketNumberInWindowProcessed,
                 rxPacketsCountInWindow, conditions, burst, lost, isWrapped, badRun>>

ConditionsChange ==
  /\ conditions' \in {"good", "bad"} \ {conditions}
  /\ UNCHANGED <<txVars, rxVars, lossHistory, badRun>>

Answer == \E isBig, isDue \in BOOLEAN : HeaderReceived(TRUE, isBig, isDue)

TrafficNext ==
  \/ SendPacket
  \/ Answer
  \/ HeaderReceived(FALSE, FALSE, FALSE)
  \/ \E speed \in 0..txLimit_B_s : Next1Hz(speed)
  \/ \E limit \in DesiredLimits : SetTxSpeedLimit_B_s(limit)
  \/ SenderPartialReset \/ ReceiverPartialReset
  \/ ConditionsChange

TrafficSpec == TrafficInit /\ [][TrafficNext]_trafficVars

\* Packets keep being sent in both directions (at least the keep-alives), and a
\* round trip that is being measured is answered in the end.
TrafficFairSpec ==
  /\ TrafficSpec
  /\ WF_trafficVars(SendPacket) /\ WF_trafficVars(Answer)
  /\ WF_trafficVars(HeaderReceived(FALSE, FALSE, FALSE))

-----------------------------------------------------------------------------
(* Properties *)

\* As long as packets are not reordered, the loss sent back to the sender is the
\* share really lost between the two packets that closed the window; where the
\* packet number wrapped, it is not more than that.
LossIsTrue ==
  /\ rxPacketsLossInWindow_prc100 <= trueLoss
  /\ ~isWrapped => rxPacketsLossInWindow_prc100 = trueLoss

\* A new minRTT is looked for, with the traffic reduced, only after
\* g_RTTBadProbeLimit bad round trips in a row (the code counts them in RTTCount,
\* which also counts the samples of the search itself).
ProbingAfterBadRun ==
  [][~isRTTProbing /\ isRTTProbing' => badRun + 1 >= g_RTTBadProbeLimit]_trafficVars

\* The limit recovers: once the conditions stay good and the application keeps
\* the limit it set, the sender reaches exactly that limit and stays there;
\* neither flag of the last bad window or round trip, nor a search for minRTT
\* under way, holds it back.
LimitRecovers ==
  \A limit \in DesiredLimits :
    <>[](conditions = "good" /\ desiredTxLimit_B_s = limit) => <>[](txLimit_B_s = limit)
=============================================================================
