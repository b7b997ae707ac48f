--------------------------- MODULE OptionsFactory ---------------------------
(***************************************************************************)
(* The pool registry (src/contracts/factory/contract.ts): one pool address *)
(* per ordered pair of tokens, kept twice, as a map from pairs (pools) and *)
(* as a list that is read by index (poolList, whose length is poolCount).  *)
(***************************************************************************)
EXTENDS Naturals, Sequences

CONSTANTS
    Owner,         \* tx.origin of the deployment
    Accounts,      \* senders of transactions, the owner among them
    PairTokens,    \* token addresses pools are made of
    Contracts,     \* addresses the owner may name as pool, template, treasury
    ZeroAddress,   \* Address.zero()
    MaxPools       \* bound: pools ever registered

Pairs == PairTokens \X PairTokens

(* A contract deployed from a template: its address follows from the       *)
(* template and the salt, which is the hash of the pair.                   *)
Deployed(template, pair) == [template |-> template, salt |-> pair]

PoolAddresses ==
    Contracts \cup [template : Contracts, salt : Pairs]

ASSUME FactoryAssumption ==
    /\ Owner \in Accounts
    /\ ZeroAddress \notin PoolAddresses
    /\ MaxPools \in Nat

VARIABLES poolTemplate, treasury, pools, poolList

factoryVars == <<poolTemplate, treasury, pools, poolList>>

Entry(pool, pair) ==
    [address |-> pool, underlying |-> pair[1], premiumToken |-> pair[2]]

FactoryTypeOK ==
    /\ poolTemplate \in Contracts \cup {ZeroAddress}
    /\ treasury \in Contracts \cup {ZeroAddress}
    /\ pools \in [Pairs -> PoolAddresses \cup {ZeroAddress}]
    /\ poolList \in Seq([address : PoolAddresses, underlying : PairTokens,
                         premiumToken : PairTokens])

FactoryInit ==
    /\ poolTemplate = ZeroAddress
    /\ treasury = ZeroAddress
    /\ pools = [pair \in Pairs |-> ZeroAddress]
    /\ poolList = <<>>

-----------------------------------------------------------------------------
(* Views. *)

(* ZeroAddress for a pair that has none. *)
GetPool(pair) == pools[pair]

GetPoolCount == Len(poolList)

(* 0-based; reverts beyond the end. *)
InBounds(index) == index < GetPoolCount
GetPoolByIndex(index) == poolList[index + 1]

-----------------------------------------------------------------------------
(* Methods. *)

(* The zero address is accepted: it switches createPool off. *)
SetPoolTemplate(caller, template) ==
    /\ caller = Owner
    /\ poolTemplate' = template
    /\ UNCHANGED <<treasury, pools, poolList>>

SetTreasury(caller, addr) ==
    /\ caller = Owner
    /\ addr # ZeroAddress
    /\ treasury' = addr
    /\ UNCHANGED <<poolTemplate, pools, poolList>>

(* Mutant: the newest pool becomes the first of the list. *)
RegisterFirst(pool, pair) == poolList' = <<Entry(pool, pair)>> \o poolList

RegisterInList(pool, pair) == poolList' = Append(poolList, Entry(pool, pair))

(* Mutant: a pair may be registered again. *)
AlwaysFree(pair) == TRUE

Unregistered(pair) == pools[pair] = ZeroAddress

(* The owner's word for it: nothing asks the pool which tokens it trades,  *)
(* and a pool may be registered for several pairs.                         *)
RegisterPool(caller, pool, pair) ==
    /\ caller = Owner
    /\ pool # ZeroAddress
    /\ Unregistered(pair)
    /\ Len(poolList) < MaxPools
    /\ pools' = [pools EXCEPT ![pair] = pool]
    /\ RegisterInList(pool, pair)
    /\ UNCHANGED <<poolTemplate, treasury>>

(* Anybody may; reverts when the deployment does. *)
CreatePool(caller, pair) ==
    /\ pair[1] # pair[2]
    /\ Unregistered(pair)
    /\ poolTemplate # ZeroAddress
    /\ treasury # ZeroAddress
    /\ Len(poolList) < MaxPools
    /\ LET pool == Deployed(poolTemplate, pair)
       IN  /\ pools' = [pools EXCEPT ![pair] = pool]
           /\ RegisterInList(pool, pair)
    /\ UNCHANGED <<poolTemplate, treasury>>

FactoryNext ==
    \E caller \in Accounts :
        \/ \E a \in Contracts \cup {ZeroAddress} :
              SetPoolTemplate(caller, a) \/ SetTreasury(caller, a)
        \/ \E pair \in Pairs :
              \/ CreatePool(caller, pair)
              \/ \E a \in Contracts : RegisterPool(caller, a, pair)

FactorySpec == FactoryInit /\ [][FactoryNext]_factoryVars

-----------------------------------------------------------------------------
PairOf(entry) == <<entry.underlying, entry.premiumToken>>

(* The two copies of the registry agree: the list names every registered   *)
(* pair once, with the pool the map has for it, and nothing else.  A       *)
(* reader of the list and a reader of the map see the same pools, whether  *)
(* they were created or registered.                                        *)
ListAndMapAgree ==
    /\ \A i \in DOMAIN poolList :
          GetPool(PairOf(poolList[i])) = poolList[i].address
    /\ \A i, j \in DOMAIN poolList :
          PairOf(poolList[i]) = PairOf(poolList[j]) => i = j
    /\ \A pair \in Pairs :
          GetPool(pair) # ZeroAddress =>
              \E i \in DOMAIN poolList : PairOf(poolList[i]) = pair

(* Answers stay true: once an index or a pair has been answered with a     *)
(* pool, every later call answers the same, which is what lets a reader    *)
(* fetch the list one index at a time and keep what it has read.           *)
AnswersAreFinal ==
    [][/\ \A i \in DOMAIN poolList :
             i \in DOMAIN poolList' /\ poolList'[i] = poolList[i]
       /\ \A pair \in Pairs :
             ~Unregistered(pair) => pools'[pair] = pools[pair]]_factoryVars
=============================================================================
