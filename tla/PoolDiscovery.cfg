\* Two tokens (four ordered pairs), two loads, a registry that grows to two pools.
SPECIFICATION Spec
CONSTANTS
    deployer = deployer
    anyone = anyone
    moto = moto
    pill = pill
    poolA = poolA
    Owner = deployer
    Accounts = {deployer, anyone}
    PairTokens = {moto, pill}
    Contracts = {poolA}
    ZeroAddress = ZeroAddress
    MaxPools = 2
    Builds <- TheBuilds
    MaxLoads = 2
INVARIANTS ListAndMapAgree DiscoveryIsComplete
PROPERTIES LastLoadStays
CHECK_DEADLOCK FALSE
