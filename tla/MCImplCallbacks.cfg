SPECIFICATION Spec
CONSTANTS
  Roles = {FALSE}
  SendsIn = {"onConnected", "onReceived", "onDelivered s", "onDelivered t", "onDelivered d"}
  MaxSends = 2
INVARIANT SendsInCallbacksReturn
CHECK_DEADLOCK FALSE
