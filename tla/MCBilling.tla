------------------------------ MODULE MCBilling ------------------------------
(* Instances of Billing: an annual Team order and a monthly Pro order, with  *)
(* cycles of three months and one.                                           *)
EXTENDS Billing

CONSTANTS annual, monthly

MCPlan == [o \in Orders |->
  IF o = annual THEN [tier |-> "team", months |-> 3, seats |-> 4]
  ELSE [tier |-> "pro", months |-> 1, seats |-> 1]]
=============================================================================
