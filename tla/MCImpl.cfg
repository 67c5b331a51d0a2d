SPECIFICATION FairSpec
CONSTANTS
  Roles = {TRUE, FALSE}
  SendsIn = {"onConnected", "onReceived", "onDelivered s", "onDelivered t"}
  MaxSends = 3
INVARIANTS SendsAccounted SharedStateGuarded CallsUseConnection CallbacksUnlocked
PROPERTY CallsReturn
CHECK_DEADLOCK FALSE
