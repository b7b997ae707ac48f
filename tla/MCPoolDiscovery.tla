--------------------------- MODULE MCPoolDiscovery ---------------------------
(***************************************************************************)
(* Instances of the registry and its reader for TLC.                       *)
(***************************************************************************)
EXTENDS PoolDiscovery

CONSTANTS deployer, anyone, moto, pill, poolA

ThePool == <<Entry(poolA, <<moto, pill>>)>>

Build(config, factory, env) ==
    [config |-> config, factory |-> factory, env |-> env]
TheBuilds == {Build(ThePool, TRUE, <<>>), Build(<<>>, TRUE, ThePool),
              Build(<<>>, TRUE, <<>>), Build(<<>>, FALSE, <<>>)}
=============================================================================
