---------------------------- MODULE PoolDiscovery ----------------------------
(***************************************************************************)
(* How a page finds its pools (hooks/useDiscoverPools.ts) by reading the   *)
(* factory (services/factory.ts getAllPools) while the factory grows: the  *)
(* count is read once, then one entry per call.  Every refetch or change   *)
(* of provider starts another load and cancels the one before, whose calls *)
(* still return.  Load n is cancelled when a later one has started.        *)
(***************************************************************************)
EXTENDS OptionsFactory

CONSTANTS
    Builds,   \* builds of the site: [config : the pools of
              \* pools.config.json, factory : VITE_FACTORY_ADDRESS is set,
              \* env : <<the pool of VITE_POOL_ADDRESS>> or <<>>]
    MaxLoads  \* bound: loads started

VARIABLES
    build,  \* the build that runs
    loads,  \* load -> [phase, since, count, found]
    shown   \* the hook's state: pools, source, loading, error

vars == <<poolTemplate, treasury, pools, poolList, build, loads, shown>>

(* since is not kept by the code: the length of the list when the load     *)
(* began; by: the load whose result is shown, 0 for none.                  *)
NewLoad(phase) ==
    [phase |-> phase, since |-> Len(poolList), count |-> 0, found |-> <<>>]

DiscoveryInit ==
    /\ FactoryInit
    /\ build \in Builds
    /\ loads = <<>>
    /\ shown = [pools |-> <<>>, source |-> "none", loading |-> FALSE,
                error |-> FALSE, by |-> 0]

(* Mutant: the flag is not looked at. *)
CurrentOrNot(n) == TRUE

Current(n) == n = Len(loads)

Result(n, found, source) ==
    [pools |-> found, source |-> source, loading |-> FALSE, error |-> FALSE,
     by |-> n]

(* Strategy 3, after the factory was not there or gave nothing. *)
Fallback(n) ==
    IF build.env # <<>> THEN Result(n, build.env, "env")
    ELSE [Result(n, <<>>, "none") EXCEPT !.error = ~build.factory]

(* What load n leaves on the page when its calls have failed. *)
AfterFailure(n) == IF Current(n) THEN Fallback(n) ELSE shown

AfterSuccess(n, found) ==
    IF ~Current(n) THEN shown
    ELSE IF found # <<>> THEN Result(n, found, "factory")
    ELSE Fallback(n)

(* The effect body up to its first await. *)
StartLoad ==
    /\ Len(loads) < MaxLoads
    /\ LET n == Len(loads) + 1
       IN  \/ /\ build.config # <<>>
              /\ loads' = Append(loads, NewLoad("over"))
              /\ shown' = Result(n, build.config, "config")
           \/ /\ build.config = <<>> /\ build.factory
              /\ loads' = Append(loads, NewLoad("count"))
              /\ shown' = [shown EXCEPT !.loading = TRUE, !.error = FALSE]
           \/ /\ build.config = <<>> /\ ~build.factory
              /\ loads' = Append(loads, NewLoad("over"))
              /\ shown' = Fallback(n)
    /\ UNCHANGED <<factoryVars, build>>

ReadCount(n) ==
    /\ loads[n].phase = "count"
    /\ LET c == GetPoolCount
       IN  IF c = 0
           THEN /\ loads' = [loads EXCEPT ![n].phase = "over"]
                /\ shown' = AfterSuccess(n, <<>>)
           ELSE /\ loads' = [loads EXCEPT ![n].phase = "entries",
                                          ![n].count = c]
                /\ UNCHANGED shown
    /\ UNCHANGED <<factoryVars, build>>

ReadEntry(n) ==
    /\ loads[n].phase = "entries"
    /\ InBounds(Len(loads[n].found))
    /\ LET found == Append(loads[n].found, GetPoolByIndex(Len(loads[n].found)))
           last  == Len(found) = loads[n].count
       IN  /\ loads' = [loads EXCEPT ![n].found = found,
                                     ![n].phase = IF last THEN "over" ELSE @]
           /\ shown' = IF last THEN AfterSuccess(n, found) ELSE shown
    /\ UNCHANGED <<factoryVars, build>>

ReadFails(n) ==
    /\ loads[n].phase \in {"count", "entries"}
    /\ loads' = [loads EXCEPT ![n].phase = "over"]
    /\ shown' = AfterFailure(n)
    /\ UNCHANGED <<factoryVars, build>>

LoadSteps(n) == ReadCount(n) \/ ReadEntry(n) \/ ReadFails(n)

Next ==
    \/ FactoryNext /\ UNCHANGED <<build, loads, shown>>
    \/ StartLoad
    \/ \E n \in DOMAIN loads : LoadSteps(n)

(* Every call to the node is answered or fails. *)
Spec ==
    /\ DiscoveryInit /\ [][Next]_vars
    /\ \A n \in 1 .. MaxLoads : WF_vars(n \in DOMAIN loads /\ LoadSteps(n))

-----------------------------------------------------------------------------
(* Discovery is complete: a list that came from the factory is a prefix of *)
(* the registry, in its order, and holds every pool that was registered    *)
(* when its load began, however much was registered meanwhile.             *)
DiscoveryIsComplete ==
    shown.source = "factory" =>
        /\ Len(shown.pools) \in loads[shown.by].since .. Len(poolList)
        /\ shown.pools = SubSeq(poolList, 1, Len(shown.pools))

(* When no more loads are started, the page stops loading with the result  *)
(* of the last one, whichever of its calls fail, and a slow answer to an   *)
(* earlier load, or of an earlier provider, does not replace it later.     *)
LastLoadStays == <>[](~shown.loading /\ shown.by = Len(loads))
=============================================================================
