SPECIFICATION BillingSpec
CONSTANTS
  annual = annual
  monthly = monthly
  Orders = {annual, monthly}
  Plan <- MCPlan
  Channels = {"verify", "payment.captured"}
  GiftMonths = 2
  GiftTiers = {}
  SeatChoices = {}
  MaxGifts = 0
  MaxNow = 1
  MaxFailures = 0
PROPERTIES
  PaymentNeverShortens
CHECK_DEADLOCK FALSE
