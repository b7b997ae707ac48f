\* Two tabs or a reload, two actions, a poll that asks about one transaction.
SPECIFICATION FairFlows
CONSTANTS
    Tabs = {1, 2}
    Keys = {1, 2}
    MaxParallelFlows = 1
    MaxTxsPerCycle = 1
    KeptTxs = 2
    MaxEffort = 4
INVARIANTS FlowsNameTheirOwn  QuietTabsAgree
PROPERTIES PendingSettles
CHECK_DEADLOCK FALSE
