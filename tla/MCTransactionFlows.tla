------------------------- MODULE MCTransactionFlows -------------------------
EXTENDS TransactionFlowsProperties, TLC
=============================================================================
