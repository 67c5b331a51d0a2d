------------------------------ MODULE PathMtu ------------------------------
(***************************************************************************)
(* The search for the largest datagram that crosses the path.  One side    *)
(* probes with datagrams of PMTU_B + PMTUProbeStep_B bytes; the other      *)
(* writes the size of the last probe it received into every header it      *)
(* sends.  Probes larger than the path do not arrive; the others, and the  *)
(* headers, may be lost, repeated, delayed and overtake each other.        *)
(***************************************************************************)
EXTENDS Naturals, FiniteSets

CONSTANTS g_basePMTU_IPv4_B, g_PMTUMaxProbes,
          FirstStep,   \* 128 in the code
          MinStep,     \* 4 in the code
          Paths,       \* sizes the path may carry
          NetBound,    \* bound of the model: datagrams under way in a direction
          MaxResets    \* bound of the model: resets of a side

ASSUME PathMtuAssumption ==
  /\ g_basePMTU_IPv4_B \in Nat \ {0}
  /\ g_PMTUMaxProbes \in Nat \ {0}
  /\ MinStep \in Nat \ {0} /\ FirstStep \in Nat /\ MinStep <= FirstStep
  /\ NetBound \in Nat /\ MaxResets \in Nat
  /\ Paths \subseteq Nat
  /\ \A size \in Paths : g_basePMTU_IPv4_B <= size

VARIABLES
  PMTU_B, PMTUProbeSize_B, PMTUProbeCount, PMTUProbeStep_B,  \* the probing side
  PMTUProbeResponse_B,   \* the answering side
  path,                  \* the largest datagram the path carries
  probes, headers,       \* probes under way, and sizes in headers under way
  isClean,               \* history: every probe of this search that fits the path
                         \* was answered before the next one was due
  resets                 \* bound of the model

vars == <<PMTU_B, PMTUProbeSize_B, PMTUProbeCount, PMTUProbeStep_B,
          PMTUProbeResponse_B, path, probes, headers, isClean, resets>>

Init ==
  /\ PMTU_B = g_basePMTU_IPv4_B
  /\ PMTUProbeSize_B = 0 /\ PMTUProbeCount = 0 /\ PMTUProbeStep_B = 0
  /\ PMTUProbeResponse_B = 0
  /\ path \in Paths
  /\ probes = {} /\ headers = {}
  /\ isClean = FALSE
  /\ resets = 0

AddTo(net, size) ==
  IF Cardinality(net \cup {size}) <= NetBound THEN net \cup {size} ELSE net

IsUnanswered == PMTUProbeSize_B > 0 /\ PMTUProbeSize_B <= path

\* The part of processConnection that runs when nextPMTUProbe_us has come, from
\* step onwards: start a search, try again, or halve the step after the last try.
ProcessProbe_StopsEarly(pmtu, step) ==
  LET isTried == step # 0 /\ PMTUProbeCount + 1 >= g_PMTUMaxProbes
      next    == IF step = 0 THEN FirstStep ELSE IF isTried THEN step \div 2 ELSE step
  IN  /\ PMTU_B' = pmtu
      /\ PMTUProbeCount' = IF isTried THEN 0
                           ELSE IF step = 0 THEN PMTUProbeCount ELSE PMTUProbeCount + 1
      /\ isClean' = (step = 0 \/ (isClean /\ ~IsUnanswered))
      /\ IF next <= MinStep
         THEN PMTUProbeStep_B' = 0 /\ UNCHANGED <<PMTUProbeSize_B, probes>>
         ELSE /\ PMTUProbeStep_B' = next
              /\ PMTUProbeSize_B' = pmtu + next
              /\ probes' = AddTo(probes, pmtu + next)

ProcessProbe_NoHalving(pmtu, step) ==
  LET next == IF step = 0 THEN FirstStep ELSE step
  IN  /\ PMTU_B' = pmtu
      /\ PMTUProbeCount' = IF step = 0 \/ PMTUProbeCount + 1 >= g_PMTUMaxProbes
                           THEN 0 ELSE PMTUProbeCount + 1
      /\ isClean' = (step = 0 \/ (isClean /\ ~IsUnanswered))
      /\ PMTUProbeStep_B' = next
      /\ PMTUProbeSize_B' = pmtu + next
      /\ probes' = AddTo(probes, pmtu + next)

ProcessProbe(pmtu, step) ==
  LET isTried == step # 0 /\ PMTUProbeCount + 1 >= g_PMTUMaxProbes
      next    == IF step = 0 THEN FirstStep ELSE IF isTried THEN step \div 2 ELSE step
  IN  /\ PMTU_B' = pmtu
      /\ PMTUProbeCount' = IF isTried THEN 0
                           ELSE IF step = 0 THEN PMTUProbeCount ELSE PMTUProbeCount + 1
      /\ isClean' = (step = 0 \/ (isClean /\ ~IsUnanswered))
      /\ IF next < MinStep
         THEN PMTUProbeStep_B' = 0 /\ UNCHANGED <<PMTUProbeSize_B, probes>>
         ELSE /\ PMTUProbeStep_B' = next
              /\ PMTUProbeSize_B' = pmtu + next
              /\ probes' = AddTo(probes, pmtu + next)

\* The probe timer is due.
ProbeDue ==
  /\ ProcessProbe(PMTU_B, PMTUProbeStep_B)
  /\ UNCHANGED <<PMTUProbeResponse_B, path, headers, resets>>

\* Nothing was received for two seconds: partialReset, which also makes the probe
\* timer due; PMTUProbeSize_B and PMTUProbeCount keep their values.
Silence ==
  /\ PMTU_B # g_basePMTU_IPv4_B
  /\ resets < MaxResets /\ resets' = resets + 1
  /\ ProcessProbe(g_basePMTU_IPv4_B, 0)
  /\ UNCHANGED <<PMTUProbeResponse_B, path, headers>>

\* partialReset when the connection is lost or made again (a Disconnect, the
\* erasure, connect): the timer is due, and served by a later round.
PartialReset ==
  /\ resets < MaxResets /\ resets' = resets + 1
  /\ PMTU_B' = g_basePMTU_IPv4_B /\ PMTUProbeStep_B' = 0
  /\ isClean' = FALSE
  /\ UNCHANGED <<PMTUProbeSize_B, PMTUProbeCount, PMTUProbeResponse_B, path, probes, headers>>

\* A header of the other side arrives; it may arrive again.
ReceiveHeader_AnyAnswer(size) ==
  /\ size \in headers
  /\ headers' \in {headers, headers \ {size}}
  /\ IF PMTUProbeSize_B > 0 /\ size > 0
     THEN PMTU_B' = PMTUProbeSize_B /\ PMTUProbeSize_B' = 0 /\ PMTUProbeCount' = 0
     ELSE UNCHANGED <<PMTU_B, PMTUProbeSize_B, PMTUProbeCount>>
  /\ UNCHANGED <<PMTUProbeStep_B, PMTUProbeResponse_B, path, probes, isClean, resets>>

ReceiveHeader(size) ==
  /\ size \in headers
  /\ headers' \in {headers, headers \ {size}}
  /\ IF PMTUProbeSize_B > 0 /\ size = PMTUProbeSize_B
     THEN PMTU_B' = PMTUProbeSize_B /\ PMTUProbeSize_B' = 0 /\ PMTUProbeCount' = 0
     ELSE UNCHANGED <<PMTU_B, PMTUProbeSize_B, PMTUProbeCount>>
  /\ UNCHANGED <<PMTUProbeStep_B, PMTUProbeResponse_B, path, probes, isClean, resets>>

-----------------------------------------------------------------------------
(* The answering side and the network *)

ReceiveProbe(size) ==
  /\ size \in probes /\ size <= path
  /\ probes' \in {probes, probes \ {size}}
  /\ PMTUProbeResponse_B' = size
  /\ UNCHANGED <<PMTU_B, PMTUProbeSize_B, PMTUProbeCount, PMTUProbeStep_B,
                 path, headers, isClean, resets>>

\* Every packet of the answering side carries its PMTUProbeResponse_B.
WriteHeader ==
  /\ headers' = AddTo(headers, PMTUProbeResponse_B)
  /\ UNCHANGED <<PMTU_B, PMTUProbeSize_B, PMTUProbeCount, PMTUProbeStep_B,
                 PMTUProbeResponse_B, path, probes, isClean, resets>>

\* The answering side resets its half of the connection.
AnswererReset ==
  /\ PMTUProbeResponse_B # 0
  /\ resets < MaxResets /\ resets' = resets + 1
  /\ PMTUProbeResponse_B' = 0
  /\ UNCHANGED <<PMTU_B, PMTUProbeSize_B, PMTUProbeCount, PMTUProbeStep_B,
                 path, probes, headers, isClean>>

Lose(size) ==
  /\ size \in probes \cup headers
  /\ \/ probes' = probes \ {size} /\ UNCHANGED headers
     \/ headers' = headers \ {size} /\ UNCHANGED probes
  /\ UNCHANGED <<PMTU_B, PMTUProbeSize_B, PMTUProbeCount, PMTUProbeStep_B,
                 PMTUProbeResponse_B, path, isClean, resets>>

Next ==
  \/ ProbeDue \/ Silence \/ PartialReset \/ WriteHeader \/ AnswererReset
  \/ \E size \in headers : ReceiveHeader(size)
  \/ \E size \in probes : ReceiveProbe(size)
  \/ \E size \in probes \cup headers : Lose(size)

Spec == Init /\ [][Next]_vars

\* The thread wakes up regularly, so a due timer is served.
FairSpec == Spec /\ WF_vars(ProbeDue)

-----------------------------------------------------------------------------
(* Properties *)

\* Every size the prober may come to believe, its own or under way in the answer,
\* crossed the path.
SizesCrossed ==
  /\ PMTU_B <= path
  /\ PMTUProbeResponse_B <= path
  /\ \A size \in headers : size <= path

\* The connection never uses datagrams larger than the path carries, whatever is
\* lost, repeated, delayed or reset on either side while it searches: an answer
\* that outlives its probe, or the probe's reset, never confirms a larger one.
PMTUFitsPath == PMTU_B <= path

\* A search during which every probe that fits is answered in time ends within
\* MinStep bytes of the path: halving the step after g_PMTUMaxProbes tries, a try
\* count shared between steps and not reset with them, and a new step after each
\* success leave no gap.
SearchIsExact == PMTUProbeStep_B = 0 /\ isClean => path < PMTU_B + MinStep

\* The search phase always ends, so probing stops for ten minutes, even if every
\* datagram is lost.
SearchEnds == []<>(PMTUProbeStep_B = 0)
=============================================================================
