----------------------------- MODULE MCPurchase -----------------------------
EXTENDS Purchase
QuarterOff == [type |-> "percentage", value |-> 25, min |-> 10]
=============================================================================
