SPECIFICATION ControlSpec
CONSTANTS
  g_basePMTU_IPv4_B = 20
  g_PMTUMaxProbes = 2
  FirstStep = 8
  MinStep = 2
  Paths = {21, 27}
  NetBound = 2
  MaxResets = 1
  UINT32_MAX = 7
  g_packetsWindowSize = 2
  g_RTTBadProbeLimit = 3
  g_RTTNewProbeLimit = 2
  g_kIncStep = 2
  g_kDecStep = 2
  Window_B = 1
  g_txLimitDefault_B_s = 2
  DesiredLimits = {1, 5}
  MaxBurst = 1
INVARIANTS PMTUFitsPath SearchIsExact LossIsTrue
PROPERTIES SearchEnds ProbingAfterBadRun LimitRecovers
