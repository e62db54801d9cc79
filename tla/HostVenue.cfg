CONSTANTS
  Session = {"f", "h"}
  Role <- MCRole
  TokenPrefix <- MCPrefix
  Account <- MCAccount
  Order <- MCOrder
  CardOrders <- MCCardOrders
  Fill = TRUE
  Split <- MCSplit
  MaxEvents = 2
SPECIFICATION Spec
INVARIANTS StreamsWhole InflightIsUnanswered PositionIsFills
CHECK_DEADLOCK FALSE
PROPERTIES AllAnswered
