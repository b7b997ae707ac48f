------------------------- MODULE PoolDiscoveryProofs -------------------------
(***************************************************************************)
(* Proofs about the pool registry, for any number of tokens and pools, and *)
(* about its reader, for any builds, any number of loads and any registry  *)
(* that grows meanwhile.                                                   *)
(*                                                                         *)
(* The safety of discovery rests on what the registry promises: it only    *)
(* ever grows at its end, so that what a load has read one entry at a time *)
(* is a prefix of the registry, however much is registered between two     *)
(* of its calls.                                                           *)
(***************************************************************************)
EXTENDS PoolDiscovery, SequenceTheorems, TLAPS

-----------------------------------------------------------------------------
(* The registry.  Both methods that add a pool do the same to the two      *)
(* copies, under the same condition: Added is that step, and the invariant *)
(* is shown once for it.                                                   *)

RegistryOK == FactoryTypeOK /\ ListAndMapAgree

Added(pool, pair) ==
    /\ Unregistered(pair)
    /\ pools' = [pools EXCEPT ![pair] = pool]
    /\ RegisterInList(pool, pair)

(* What Append gives, element by element. *)
LEMMA Appended ==
    ASSUME NEW S, NEW s \in Seq(S), NEW x \in S, NEW t, t = Append(s, x)
    PROVE  /\ DOMAIN s = 1 .. Len(s) /\ Len(s) \in Nat
           /\ DOMAIN t = 1 .. Len(s) + 1
           /\ t[Len(s) + 1] = x
           /\ \A i \in DOMAIN s : t[i] = s[i] /\ s[i] \in S
OBVIOUS

(* Every method either adds a pool or leaves the registry alone.           *)
LEMMA EveryMethod ==
    ASSUME RegistryOK, [FactoryNext]_factoryVars
    PROVE  /\ poolTemplate' \in Contracts \cup {ZeroAddress}
           /\ treasury' \in Contracts \cup {ZeroAddress}
           /\ \/ UNCHANGED <<pools, poolList>>
              \/ \E pool \in PoolAddresses, pair \in Pairs : Added(pool, pair)
<1>1. CASE UNCHANGED factoryVars
    BY <1>1 DEF factoryVars, RegistryOK, FactoryTypeOK
<1>2. ASSUME NEW caller \in Accounts, NEW a \in Contracts \cup {ZeroAddress},
             SetPoolTemplate(caller, a) \/ SetTreasury(caller, a)
      PROVE  /\ poolTemplate' \in Contracts \cup {ZeroAddress}
             /\ treasury' \in Contracts \cup {ZeroAddress}
             /\ UNCHANGED <<pools, poolList>>
    BY <1>2 DEF SetPoolTemplate, SetTreasury, RegistryOK, FactoryTypeOK
<1>3. ASSUME NEW caller \in Accounts, NEW pair \in Pairs,
             CreatePool(caller, pair)
      PROVE  /\ UNCHANGED <<poolTemplate, treasury>>
             /\ \E pool \in PoolAddresses : Added(pool, pair)
    <2>1. Deployed(poolTemplate, pair) \in PoolAddresses
        BY <1>3 DEF CreatePool, Deployed, PoolAddresses, RegistryOK, FactoryTypeOK
    <2>2. Added(Deployed(poolTemplate, pair), pair)
        BY <1>3 DEF CreatePool, Added
    <2>. QED BY <1>3, <2>1, <2>2 DEF CreatePool
<1>4. ASSUME NEW caller \in Accounts, NEW pair \in Pairs,
             NEW a \in Contracts, RegisterPool(caller, a, pair)
      PROVE  /\ UNCHANGED <<poolTemplate, treasury>>
             /\ \E pool \in PoolAddresses : Added(pool, pair)
    <2>1. a \in PoolAddresses /\ Added(a, pair)
        BY <1>4 DEF RegisterPool, Added, PoolAddresses
    <2>. QED BY <1>4, <2>1 DEF RegisterPool
<1>. QED
    BY <1>1, <1>2, <1>3, <1>4 DEF FactoryNext, RegistryOK, FactoryTypeOK

(* Adding a pool for a pair that has none keeps the two copies in step.    *)
LEMMA AddedKeepsRegistry ==
    ASSUME RegistryOK, NEW pool \in PoolAddresses, NEW pair \in Pairs,
           Added(pool, pair)
    PROVE  /\ pools' \in [Pairs -> PoolAddresses \cup {ZeroAddress}]
           /\ poolList' \in Seq([address : PoolAddresses,
                                 underlying : PairTokens,
                                 premiumToken : PairTokens])
           /\ ListAndMapAgree'
<1>. DEFINE Entries == [address : PoolAddresses, underlying : PairTokens,
                        premiumToken : PairTokens]
            e == Entry(pool, pair)
<1>1. e \in Entries /\ PairOf(e) = pair /\ e.address = pool
    BY DEF Entry, PairOf, Pairs
<1>2. /\ poolList' = Append(poolList, e)
      /\ pools' = [pools EXCEPT ![pair] = pool]
      /\ pools[pair] = ZeroAddress
    BY DEF Added, RegisterInList, Unregistered
<1>3. /\ poolList \in Seq(Entries)
      /\ pools \in [Pairs -> PoolAddresses \cup {ZeroAddress}]
      /\ ZeroAddress \notin PoolAddresses
    BY FactoryAssumption DEF RegistryOK, FactoryTypeOK
<1>4. /\ poolList' \in Seq(Entries)
      /\ pools' \in [Pairs -> PoolAddresses \cup {ZeroAddress}]
    BY <1>1, <1>2, <1>3
<1>. HIDE DEF e, Entries
<1>5. /\ DOMAIN poolList = 1 .. Len(poolList) /\ Len(poolList) \in Nat
      /\ DOMAIN poolList' = 1 .. Len(poolList) + 1
      /\ poolList'[Len(poolList) + 1] = e
      /\ \A i \in DOMAIN poolList : /\ poolList'[i] = poolList[i]
                                    /\ poolList[i] \in Entries
    BY <1>1, <1>2, <1>3, Appended
<1>6. \A i \in DOMAIN poolList : PairOf(poolList[i]) \in Pairs
                                    /\ PairOf(poolList[i]) # pair
    <2>. SUFFICES ASSUME NEW i \in DOMAIN poolList
                  PROVE  /\ PairOf(poolList[i]) \in Pairs
                         /\ PairOf(poolList[i]) # pair
        OBVIOUS
    <2>1. poolList[i] \in Entries
        BY <1>5
    <2>2. PairOf(poolList[i]) \in Pairs
        BY <2>1 DEF PairOf, Pairs, Entries
    <2>3. pools[PairOf(poolList[i])] \in PoolAddresses
        BY <2>1 DEF Entries, RegistryOK, ListAndMapAgree, GetPool
    <2>. QED BY <2>2, <2>3, <1>2, <1>3
<1>7. \A i \in DOMAIN poolList' : pools'[PairOf(poolList'[i])] = poolList'[i].address
    <2>1. ASSUME NEW i \in DOMAIN poolList
          PROVE  pools'[PairOf(poolList[i])] = poolList[i].address
        BY <1>2, <1>3, <1>6 DEF RegistryOK, ListAndMapAgree, GetPool
    <2>2. pools'[PairOf(e)] = e.address
        BY <1>1, <1>2, <1>3
    <2>3. \A i \in DOMAIN poolList' : i \in DOMAIN poolList \/ i = Len(poolList) + 1
        BY <1>5
    <2>. QED BY <2>1, <2>2, <2>3, <1>5
<1>8. \A i, j \in DOMAIN poolList' :
         PairOf(poolList'[i]) = PairOf(poolList'[j]) => i = j
    <2>1. \A i \in DOMAIN poolList' : i \in DOMAIN poolList \/ i = Len(poolList) + 1
        BY <1>5
    <2>. QED BY <2>1, <1>1, <1>5, <1>6 DEF RegistryOK, ListAndMapAgree, GetPool
<1>9. \A p \in Pairs : pools'[p] # ZeroAddress =>
          \E i \in DOMAIN poolList' : PairOf(poolList'[i]) = p
    <2>1. CASE Len(poolList) + 1 \in DOMAIN poolList'
        BY <2>1, <1>1, <1>2, <1>3, <1>5 DEF RegistryOK, ListAndMapAgree, GetPool
    <2>. QED BY <2>1, <1>5
<1>. QED BY <1>4, <1>7, <1>8, <1>9 DEF Entries, ListAndMapAgree, GetPool

(* Every method keeps the registry. *)
LEMMA RegistryStep ==
    ASSUME RegistryOK, [FactoryNext]_factoryVars
    PROVE  RegistryOK'
<1>1. CASE UNCHANGED <<pools, poolList>>
    BY <1>1, EveryMethod DEF RegistryOK, FactoryTypeOK, ListAndMapAgree, GetPool
<1>2. CASE \E pool \in PoolAddresses, pair \in Pairs : Added(pool, pair)
    BY <1>2, EveryMethod, AddedKeepsRegistry DEF RegistryOK, FactoryTypeOK
<1>. QED BY <1>1, <1>2, EveryMethod

(* The registry is well typed and its two copies agree, in every state any *)
(* sequence of calls leads to: the list a page reads and the map a         *)
(* contract or a script asks name the same pools, one for each pair.       *)
THEOREM RegistryConsistent == FactorySpec => [](FactoryTypeOK /\ ListAndMapAgree)
<1>1. FactoryInit => RegistryOK
    BY DEF FactoryInit, RegistryOK, FactoryTypeOK, ListAndMapAgree, GetPool
<1>2. RegistryOK /\ [FactoryNext]_factoryVars => RegistryOK'
    BY RegistryStep
<1>. QED BY <1>1, <1>2, PTL DEF FactorySpec, RegistryOK

(* What the registry has answered, by index or by pair, it answers for     *)
(* ever: the ground on which a page reads the list one call at a time.     *)
THEOREM RegistryAnswersFinal == FactorySpec => AnswersAreFinal
<1>. DEFINE Final ==
        /\ \A i \in DOMAIN poolList :
              i \in DOMAIN poolList' /\ poolList'[i] = poolList[i]
        /\ \A pair \in Pairs : ~Unregistered(pair) => pools'[pair] = pools[pair]
<1>1. ASSUME RegistryOK, [FactoryNext]_factoryVars PROVE [Final]_factoryVars
    <2>1. CASE UNCHANGED <<pools, poolList>>
        BY <2>1
    <2>2. ASSUME NEW pool \in PoolAddresses, NEW pair \in Pairs, Added(pool, pair)
          PROVE  Final
        <3>1. Entry(pool, pair) \in [address : PoolAddresses,
                    underlying : PairTokens, premiumToken : PairTokens]
            BY DEF Entry, Pairs
        <3>2. \A i \in DOMAIN poolList :
                 i \in DOMAIN poolList' /\ poolList'[i] = poolList[i]
            BY <2>2, <3>1, <1>1
               DEF Added, RegisterInList, RegistryOK, FactoryTypeOK
        <3>3. \A p \in Pairs : ~Unregistered(p) => pools'[p] = pools[p]
            BY <2>2, <1>1 DEF Added, Unregistered, RegistryOK, FactoryTypeOK
        <3>. QED BY <3>2, <3>3
    <2>. QED BY <2>1, <2>2, <1>1, EveryMethod
<1>2. FactorySpec => []RegistryOK
    BY RegistryConsistent, PTL DEF RegistryOK
<1>. QED BY <1>1, <1>2, PTL DEF FactorySpec, AnswersAreFinal

-----------------------------------------------------------------------------
(* The reader. *)

Entries == [address : PoolAddresses, underlying : PairTokens,
            premiumToken : PairTokens]

Prefix(s, t) ==
    /\ s \in Seq(Entries)
    /\ Len(s) <= Len(t)
    /\ \A i \in 1 .. Len(s) : s[i] = t[i]

(* A load that is reading: its count was read after it began, and what it  *)
(* has found is a prefix of the registry.                                  *)
LoadOK(l) ==
    /\ l.since <= Len(poolList)
    /\ l.phase = "entries" => l.count \in l.since .. Len(poolList)
    /\ Prefix(l.found, poolList)

Load == [phase : {"count", "entries", "over"}, since : Nat, count : Nat,
         found : Seq(Entries)]

(* What the hook returns, field by field. *)
Whole(s) ==
    s = [pools |-> s.pools, source |-> s.source, loading |-> s.loading,
         error |-> s.error, by |-> s.by]

ShownOK ==
    shown.source = "factory" =>
        /\ shown.by \in DOMAIN loads
        /\ Len(shown.pools) >= loads[shown.by].since
        /\ Prefix(shown.pools, poolList)

DiscoveryOK ==
    /\ RegistryOK
    /\ loads \in Seq(Load)
    /\ \A n \in DOMAIN loads : LoadOK(loads[n])
    /\ Whole(shown) /\ ShownOK

-----------------------------------------------------------------------------
(* A prefix is what SubSeq cuts off. *)
LEMMA PrefixIsSubSeq ==
    ASSUME NEW t \in Seq(Entries), NEW s, Prefix(s, t)
    PROVE  s = SubSeq(t, 1, Len(s))
<1>1. s \in Seq(Entries) /\ Len(s) \in Nat /\ Len(s) <= Len(t)
  BY DEF Prefix
<1>2. /\ SubSeq(t, 1, Len(s)) \in Seq(Entries)
      /\ Len(SubSeq(t, 1, Len(s))) = Len(s)
      /\ \A i \in 1 .. Len(s) : SubSeq(t, 1, Len(s))[i] = t[i]
  BY <1>1
<1>3. \A i \in 1 .. Len(s) : s[i] = SubSeq(t, 1, Len(s))[i]
  BY <1>2 DEF Prefix
<1> HIDE DEF Entries
<1> QED BY <1>1, <1>2, <1>3, SeqEqual

(* A prefix stays one while the list grows at its end. *)
LEMMA PrefixGrows ==
    ASSUME NEW s, NEW t, NEW u, Prefix(s, t), Len(t) \in Nat, Len(u) \in Nat,
           Len(t) <= Len(u), \A i \in 1 .. Len(t) : u[i] = t[i]
    PROVE  Prefix(s, u)
<1>1. Len(s) \in Nat
  BY DEF Prefix
<1> QED BY <1>1 DEF Prefix

(* The registry grows at its end or stays. *)
LEMMA RegistryGrows ==
    ASSUME RegistryOK, [FactoryNext]_factoryVars
    PROVE  /\ Len(poolList) \in Nat /\ Len(poolList') \in Nat
           /\ Len(poolList) <= Len(poolList')
           /\ \A i \in 1 .. Len(poolList) : poolList'[i] = poolList[i]
<1>1. poolList \in Seq(Entries)
  BY DEF RegistryOK, FactoryTypeOK, Entries
<1>2. CASE UNCHANGED <<pools, poolList>>
  BY <1>1, <1>2
<1>3. ASSUME NEW pool \in PoolAddresses, NEW pair \in Pairs, Added(pool, pair)
      PROVE  /\ Len(poolList') = Len(poolList) + 1
             /\ \A i \in 1 .. Len(poolList) : poolList'[i] = poolList[i]
  <2>1. Entry(pool, pair) \in Entries
    BY DEF Entry, Entries, Pairs
  <2> HIDE DEF Entries
  <2>2. poolList' = Append(poolList, Entry(pool, pair))
    BY <1>3 DEF Added, RegisterInList
  <2> QED BY <1>1, <2>1, <2>2
<1> QED BY <1>1, <1>2, <1>3, EveryMethod

(* A registration disturbs no load and no page. *)
LEMMA FactoryKeeps ==
    ASSUME DiscoveryOK, [FactoryNext]_factoryVars, UNCHANGED <<loads, shown>>
    PROVE  DiscoveryOK'
<1>1. /\ Len(poolList) \in Nat /\ Len(poolList') \in Nat
      /\ Len(poolList) <= Len(poolList')
      /\ \A i \in 1 .. Len(poolList) : poolList'[i] = poolList[i]
  BY RegistryGrows DEF DiscoveryOK
<1>2. \A s : Prefix(s, poolList) => Prefix(s, poolList')
  BY <1>1, PrefixGrows
<1>3. ASSUME NEW n \in DOMAIN loads' PROVE LoadOK(loads[n])'
  <2>1. LoadOK(loads[n]) /\ loads[n] \in Load
    BY <1>3 DEF DiscoveryOK
  <2> QED BY <1>1, <1>2, <2>1 DEF LoadOK, Load
<1>4. ShownOK'
  BY <1>2 DEF DiscoveryOK, ShownOK
<1> QED BY <1>3, <1>4, RegistryStep DEF DiscoveryOK

-----------------------------------------------------------------------------
(* The steps of the loads: the registry stays as it is. *)

(* One load changes; what is shown stays or is of another source. *)
LEMMA LoadChanges ==
    ASSUME DiscoveryOK, UNCHANGED factoryVars,
           NEW n \in DOMAIN loads, NEW l \in Load, LoadOK(l),
           l.since = loads[n].since,
           loads' = [loads EXCEPT ![n] = l],
           Whole(shown'),
           \/ shown' = shown
           \/ shown'.source # "factory"
           \/ /\ shown'.by = n /\ Len(shown'.pools) >= l.since
              /\ Prefix(shown'.pools, poolList)
    PROVE  DiscoveryOK'
<1>1. RegistryOK' /\ poolList' = poolList
  BY DEF factoryVars, DiscoveryOK, RegistryOK, FactoryTypeOK, ListAndMapAgree,
         GetPool
<1>2. /\ loads \in Seq(Load) /\ loads' \in Seq(Load)
      /\ DOMAIN loads' = DOMAIN loads /\ loads'[n] = l
      /\ \A m \in DOMAIN loads : m # n => loads'[m] = loads[m]
  BY DEF DiscoveryOK
<1>3. ASSUME NEW m \in DOMAIN loads' PROVE LoadOK(loads'[m])
  BY <1>2 DEF DiscoveryOK
<1>4. \A x : LoadOK(x)' <=> LoadOK(x)
  BY <1>1 DEF LoadOK
<1>5. ShownOK'
  BY <1>1, <1>2 DEF DiscoveryOK, ShownOK
<1> QED BY <1>1, <1>2, <1>3, <1>4, <1>5 DEF DiscoveryOK


(* The fallbacks do not come from the factory. *)
LEMMA FallbackSource ==
    ASSUME NEW n
    PROVE  Whole(Fallback(n)) /\ Fallback(n).source # "factory"
BY DEF Fallback, Result, Whole

(* The effect body up to its first await. *)
LEMMA StartKeeps ==
    ASSUME DiscoveryOK, StartLoad
    PROVE  DiscoveryOK'
<1>1. RegistryOK' /\ poolList' = poolList
  BY DEF StartLoad, factoryVars, DiscoveryOK, RegistryOK, FactoryTypeOK,
         ListAndMapAgree, GetPool
<1>2. PICK phase \in {"count", "over"} : loads' = Append(loads, NewLoad(phase))
  BY DEF StartLoad
<1>3. /\ Whole(shown')
      /\ \/ shown'.source # "factory"
         \/ /\ shown'.source = shown.source /\ shown'.by = shown.by
            /\ shown'.pools = shown.pools
  <2>1. CASE shown' = [shown EXCEPT !.loading = TRUE, !.error = FALSE]
    BY <2>1 DEF DiscoveryOK, Whole
  <2>2. CASE shown' = Result(Len(loads) + 1, build.config, "config")
    BY <2>2 DEF Result, Whole
  <2>3. CASE shown' = Fallback(Len(loads) + 1)
    BY <2>3, FallbackSource
  <2> QED BY <2>1, <2>2, <2>3 DEF StartLoad
<1>4. Len(poolList) \in Nat
  BY DEF DiscoveryOK, RegistryOK, FactoryTypeOK
<1>5. NewLoad(phase) \in Load /\ LoadOK(NewLoad(phase))
  BY <1>4 DEF NewLoad, Load, LoadOK, Prefix
<1> DEFINE l == NewLoad(phase)
<1> HIDE DEF l
<1>6. /\ loads \in Seq(Load) /\ loads' \in Seq(Load)
      /\ DOMAIN loads \subseteq DOMAIN loads'
      /\ \A m \in DOMAIN loads : loads'[m] = loads[m]
      /\ \A m \in DOMAIN loads' : m \in DOMAIN loads \/ loads'[m] = l
  BY <1>2, <1>5 DEF DiscoveryOK, l
<1>7. ASSUME NEW m \in DOMAIN loads' PROVE LoadOK(loads'[m])
  BY <1>5, <1>6 DEF DiscoveryOK, l
<1>8. \A x : LoadOK(x)' <=> LoadOK(x)
  BY <1>1 DEF LoadOK
<1>9. ShownOK'
  BY <1>1, <1>3, <1>6 DEF DiscoveryOK, ShownOK
<1>10. Whole(shown)'
  BY <1>3 DEF Whole
<1> QED BY <1>1, <1>6, <1>7, <1>8, <1>9, <1>10 DEF DiscoveryOK

(* What a load finds reaches the page only as a whole. *)
LEMMA SuccessShows ==
    ASSUME Whole(shown), NEW n, NEW found, shown' = AfterSuccess(n, found)
    PROVE  /\ Whole(shown')
           /\ \/ shown' = shown
              \/ shown'.source # "factory"
              \/ shown'.by = n /\ shown'.pools = found
BY FallbackSource DEF AfterSuccess, Result, Whole

LEMMA CountKeeps ==
    ASSUME DiscoveryOK, NEW n \in DOMAIN loads, ReadCount(n)
    PROVE  DiscoveryOK'
<1>1. loads[n] \in Load /\ LoadOK(loads[n]) /\ Len(poolList) \in Nat
  BY DEF DiscoveryOK, RegistryOK, FactoryTypeOK
<1>2. CASE /\ GetPoolCount = 0
           /\ loads' = [loads EXCEPT ![n].phase = "over"]
           /\ shown' = AfterSuccess(n, <<>>)
  <2> DEFINE l == [loads[n] EXCEPT !.phase = "over"]
  <2>1. l \in Load /\ LoadOK(l) /\ l.since = loads[n].since
    BY <1>1 DEF Load, LoadOK
  <2>2. Whole(shown') /\ (shown' = shown \/ shown'.source # "factory")
    BY <1>2, FallbackSource DEF AfterSuccess, DiscoveryOK
  <2>3. loads' = [loads EXCEPT ![n] = l]
    BY <1>2
  <2> HIDE DEF l
  <2> QED BY <2>1, <2>2, <2>3, LoadChanges DEF ReadCount
<1>3. CASE /\ loads' = [loads EXCEPT ![n].phase = "entries",
                                     ![n].count = GetPoolCount]
           /\ shown' = shown
  <2> DEFINE l == [loads[n] EXCEPT !.phase = "entries", !.count = GetPoolCount]
  <2>0. /\ l \in Load /\ l.since = loads[n].since /\ l.found = loads[n].found
        /\ l.count = Len(poolList)
    BY <1>1 DEF Load, GetPoolCount
  <2>1. l \in Load /\ LoadOK(l) /\ l.since = loads[n].since
    BY <1>1, <2>0 DEF Load, LoadOK
  <2>2. loads' = [loads EXCEPT ![n] = l]
    BY <1>3
  <2> HIDE DEF l
  <2>3. Whole(shown')
    BY <1>3 DEF DiscoveryOK
  <2> QED BY <1>3, <2>1, <2>2, <2>3, LoadChanges DEF ReadCount
<1> QED BY <1>2, <1>3 DEF ReadCount

(* One entry more is still a prefix; when it is the last one that was      *)
(* counted, everything since the load began has been read.                 *)
LEMMA EntryKeeps ==
    ASSUME DiscoveryOK, NEW n \in DOMAIN loads, ReadEntry(n)
    PROVE  DiscoveryOK'
<1> DEFINE old == loads[n]
           e == poolList[Len(old.found) + 1]
           found == Append(old.found, e)
           l == [old EXCEPT !.found = found,
                            !.phase = IF Len(found) = old.count
                                      THEN "over" ELSE @]
<1>1. /\ old \in Load /\ LoadOK(old) /\ poolList \in Seq(Entries)
      /\ old.phase = "entries"
  BY DEF DiscoveryOK, RegistryOK, FactoryTypeOK, ReadEntry, Entries
<1>2. /\ old.found \in Seq(Entries) /\ Len(old.found) \in Nat
      /\ Len(old.found) < Len(poolList)
      /\ \A i \in 1 .. Len(old.found) : old.found[i] = poolList[i]
  BY <1>1 DEF LoadOK, Prefix, ReadEntry, InBounds, GetPoolCount
<1>3. e \in Entries
  BY <1>1, <1>2
<1> HIDE DEF e, Entries
<1>4. /\ found \in Seq(Entries) /\ Len(found) = Len(old.found) + 1
      /\ \A i \in 1 .. Len(old.found) : found[i] = old.found[i]
      /\ found[Len(old.found) + 1] = e
  BY <1>2, <1>3
<1>5. Prefix(found, poolList)
  BY <1>2, <1>4 DEF Prefix, e
<1> HIDE DEF found
<1>6. l \in Load /\ LoadOK(l) /\ l.since = old.since
  BY <1>1, <1>4, <1>5 DEF Load, LoadOK, Entries
<1>7. loads' = [loads EXCEPT ![n] = l]
  BY DEF ReadEntry, found, e, GetPoolByIndex
<1>8. /\ Whole(shown')
      /\ \/ shown' = shown
         \/ shown'.source # "factory"
         \/ Len(found) = old.count /\ shown'.by = n /\ shown'.pools = found
  BY SuccessShows DEF ReadEntry, found, e, GetPoolByIndex, DiscoveryOK
<1>9. Len(found) = old.count => Len(found) >= l.since
  BY <1>1, <1>6 DEF LoadOK, Load
<1> HIDE DEF l
<1> QED BY <1>5, <1>6, <1>7, <1>8, <1>9, LoadChanges, ZenonT(60) DEF ReadEntry

LEMMA FailKeeps ==
    ASSUME DiscoveryOK, NEW n \in DOMAIN loads, ReadFails(n)
    PROVE  DiscoveryOK'
<1> DEFINE l == [loads[n] EXCEPT !.phase = "over"]
<1>1. loads[n] \in Load /\ LoadOK(loads[n])
  BY DEF DiscoveryOK
<1>2. l \in Load /\ LoadOK(l) /\ l.since = loads[n].since
  BY <1>1 DEF Load, LoadOK
<1>3. Whole(shown') /\ (shown' = shown \/ shown'.source # "factory")
  BY FallbackSource DEF ReadFails, AfterFailure, DiscoveryOK
<1>4. loads' = [loads EXCEPT ![n] = l]
  BY DEF ReadFails
<1> HIDE DEF l
<1> QED BY <1>2, <1>3, <1>4, LoadChanges DEF ReadFails

LEMMA DiscoveryStep ==
    ASSUME DiscoveryOK, [Next]_vars
    PROVE  DiscoveryOK'
<1>1. CASE UNCHANGED vars
  <2>1. UNCHANGED factoryVars /\ UNCHANGED <<loads, shown>>
    BY <1>1 DEF vars, factoryVars
  <2> QED BY <2>1, FactoryKeeps
<1>2. CASE FactoryNext /\ UNCHANGED <<build, loads, shown>>
  BY <1>2, FactoryKeeps
<1> QED BY <1>1, <1>2, StartKeeps, CountKeeps, EntryKeeps, FailKeeps
        DEF Next, LoadSteps

(* A list that a page shows as coming from the factory is a prefix of the  *)
(* registry that misses nothing registered before its load began, for any  *)
(* number of loads and calls that answer late, out of turn or not at all.  *)
THEOREM DiscoveredListsAreComplete == Spec => []DiscoveryIsComplete
<1>1. DiscoveryInit => DiscoveryOK
  <2> SUFFICES ASSUME DiscoveryInit PROVE DiscoveryOK
    OBVIOUS
  <2>1. RegistryOK
    BY DEF DiscoveryInit, FactoryInit, RegistryOK, FactoryTypeOK,
           ListAndMapAgree, GetPool
  <2>2. loads \in Seq(Load) /\ DOMAIN loads = {} /\ shown.source = "none"
    BY DEF DiscoveryInit
  <2>3. Whole(shown)
    BY DEF DiscoveryInit, Whole
  <2> QED BY <2>1, <2>2, <2>3 DEF DiscoveryOK, ShownOK
<1>2. DiscoveryOK /\ [Next]_vars => DiscoveryOK'
  BY DiscoveryStep
<1>3. DiscoveryOK => DiscoveryIsComplete
  <2> SUFFICES ASSUME DiscoveryOK, shown.source = "factory"
               PROVE  /\ Len(shown.pools) \in loads[shown.by].since .. Len(poolList)
                      /\ shown.pools = SubSeq(poolList, 1, Len(shown.pools))
    BY DEF DiscoveryIsComplete
  <2>1. /\ shown.by \in DOMAIN loads /\ Prefix(shown.pools, poolList)
        /\ Len(shown.pools) >= loads[shown.by].since
    BY DEF DiscoveryOK, ShownOK
  <2>2. /\ loads[shown.by].since \in Nat
        /\ poolList \in Seq(Entries) /\ shown.pools \in Seq(Entries)
    <3>1. loads[shown.by] \in Load
      BY <2>1 DEF DiscoveryOK
    <3>2. poolList \in Seq(Entries)
      BY DEF DiscoveryOK, RegistryOK, FactoryTypeOK, Entries
    <3> QED BY <2>1, <3>1, <3>2 DEF Load, Prefix
  <2>3. Len(shown.pools) \in Nat /\ Len(shown.pools) <= Len(poolList)
    BY <2>1, <2>2 DEF Prefix
  <2> QED BY <2>1, <2>2, <2>3, PrefixIsSubSeq
<1> QED BY <1>1, <1>2, <1>3, PTL DEF Spec
=============================================================================
