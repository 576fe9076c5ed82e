SPECIFICATION BillingFairSpec
CONSTANTS
  annual = annual
  monthly = monthly
  Orders = {annual, monthly}
  Plan <- MCPlan
  Channels = {"verify", "payment.captured"}
  GiftMonths = 2
  GiftTiers = {"team"}
  SeatChoices = {5}
  MaxGifts = 1
  MaxNow = 1
  MaxFailures = 1
INVARIANTS
  BillingTypeOK
  OneGrantPerPayment
  NoUnpaidTime
  PaidIsAccountedFor
  ConfirmedIsHonoured
PROPERTIES
  CapturedIsGranted
CHECK_DEADLOCK FALSE
