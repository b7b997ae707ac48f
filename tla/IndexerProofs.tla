--------------------------- MODULE IndexerProofs ---------------------------
(***************************************************************************)
(* Proofs about the indexer, for any pools, faults and chain, with one run *)
(* at a time: the cursor cannot have moved since the run read it.          *)
(*                                                                         *)
(* CursorOK says what that makes of the run's variables, phase by phase.   *)
(* MineMeans relates the pool's side to the decoder: the events of every   *)
(* transaction decode to statements that say how the book changed and what *)
(* was paid, and that make nothing up.  IndexOK then says that the tables, *)
(* and the tables as the statements in hand would make them, show a prefix *)
(* of the chain, and that every statement in hand is some block's.         *)
(*                                                                         *)
(* The last part is about the tasks after the batch: CandleInv says which  *)
(* snapshots replacing and pruning leave for a candle to be made of.       *)
(***************************************************************************)
EXTENDS IndexerProperties, PriceCandlesProperties, NaturalsInduction,
        WellFoundedInduction, FiniteSetTheorems, SequenceTheorems, TLAPS

OneRun == \A r, s \in Runs : r = s

RunSet(S) == [phase : S, pools : S, grace : S, from : S, to : S, stmts : S]
IsRun(x) == \E S : x \in RunSet(S)

RunOK(x) ==
    /\ IsRun(x)
    /\ x.from \in Nat /\ x.to \in Nat
    /\ x.phase = "height" => x.from = cursor + 1
    /\ x.phase = "fetch" => cursor < x.from /\ x.from <= x.to
    /\ x.phase \in {"fetch", "commit"} => cursor <= x.to /\ x.to <= Height

CursorOK ==
    /\ \E S : chain \in Seq(S)
    /\ cursor \in Nat /\ cursor <= Height
    /\ DOMAIN run = Runs
    /\ \A r \in Runs : RunOK(run[r])

(* y is a run in phase p with these bounds.                                *)
RunIs(y, p, from, to) == IsRun(y) /\ y.phase = p /\ y.from = from /\ y.to = to

(* What the assignments of a run's variables make of it.                   *)
LEMMA RunGoes ==
    ASSUME NEW x, IsRun(x), NEW p, NEW q
    PROVE  RunIs([x EXCEPT !.phase = p], p, x.from, x.to)
<1>1. PICK S : x \in RunSet(S) BY DEF IsRun
<1>2. [x EXCEPT !.phase = p] \in RunSet(S \cup {p, q})
    BY <1>1 DEF RunSet
<1>. QED BY <1>1, <1>2 DEF RunIs, IsRun, RunSet

(* A run that has its pools. *)
LEMMA RunResolves ==
    ASSUME NEW x, IsRun(x), NEW p, NEW q
    PROVE  RunIs([x EXCEPT !.phase = p, !.pools = q], p, x.from, x.to)
<1>1. PICK S : x \in RunSet(S) BY DEF IsRun
<1>2. [x EXCEPT !.phase = p, !.pools = q] \in RunSet(S \cup {p, q})
    BY <1>1 DEF RunSet
<1>. QED BY <1>1, <1>2 DEF RunIs, IsRun, RunSet

(* A run that has its grace period. *)
LEMMA RunLearns ==
    ASSUME NEW x, IsRun(x), NEW p, NEW q
    PROVE  RunIs([x EXCEPT !.phase = p, !.grace = q], p, x.from, x.to)
<1>1. PICK S : x \in RunSet(S) BY DEF IsRun
<1>2. [x EXCEPT !.phase = p, !.grace = q] \in RunSet(S \cup {p, q})
    BY <1>1 DEF RunSet
<1>. QED BY <1>1, <1>2 DEF RunIs, IsRun, RunSet

(* A run that has its first block. *)
LEMMA RunStarts ==
    ASSUME NEW x, IsRun(x), NEW p, NEW q
    PROVE  RunIs([x EXCEPT !.phase = p, !.from = q], p, q, x.to)
<1>1. PICK S : x \in RunSet(S) BY DEF IsRun
<1>2. [x EXCEPT !.phase = p, !.from = q] \in RunSet(S \cup {p, q})
    BY <1>1 DEF RunSet
<1>. QED BY <1>1, <1>2 DEF RunIs, IsRun, RunSet

(* A run that has its last block. *)
LEMMA RunEnds ==
    ASSUME NEW x, IsRun(x), NEW p, NEW q
    PROVE  RunIs([x EXCEPT !.phase = p, !.to = q], p, x.from, q)
<1>1. PICK S : x \in RunSet(S) BY DEF IsRun
<1>2. [x EXCEPT !.phase = p, !.to = q] \in RunSet(S \cup {p, q})
    BY <1>1 DEF RunSet
<1>. QED BY <1>1, <1>2 DEF RunIs, IsRun, RunSet

(* A run that has one more block's statements. *)
LEMMA RunCollects ==
    ASSUME NEW x, IsRun(x), NEW p, NEW q, NEW s
    PROVE  RunIs([x EXCEPT !.stmts = @ \o s, !.from = q, !.phase = p], p, q, x.to)
<1>1. PICK S : x \in RunSet(S) BY DEF IsRun
<1>2. [x EXCEPT !.stmts = @ \o s, !.from = q, !.phase = p] \in RunSet(S \cup {p, q, x.stmts \o s})
    BY <1>1 DEF RunSet
<1>. QED BY <1>1, <1>2 DEF RunIs, IsRun, RunSet

(* A run that sleeps. *)
LEMMA AsleepIsRun == IsRun(Asleep)
<1>1. Asleep \in RunSet({"asleep", {}, DefaultGrace, 0, <<>>})
    BY DEF Asleep, RunSet
<1>. QED BY <1>1 DEF IsRun

(* A transaction of any contract is one more block.                        *)
LEMMA MiningAppends ==
    ASSUME MineBlock
    PROVE  \E b : chain' = Append(chain, b)
<1>. DEFINE Appends == \E b : chain' = Append(chain, b)
<1>0. ASSUME NEW b, NEW e, NEW l, Mine(b, e, l) PROVE Appends
    BY <1>0 DEF Mine
<1>. HIDE DEF Appends
<1>1. ASSUME NEW u, NEW id, NEW fee, NEW type,
             WriteOption(u, type) \/ BuyOption(id, u, fee) \/ ReserveOption(id, u)
      PROVE  Appends
    BY <1>0, <1>1 DEF WriteOption, BuyOption, ReserveOption
<1>2. ASSUME NEW u, NEW id, NEW fee,
             ExecuteReservation(id) \/ CancelReservation(id) \/ TransferOption(id, u)
      PROVE  Appends
    BY <1>0, <1>2 DEF ExecuteReservation, CancelReservation, TransferOption
<1>3. ASSUME NEW u, NEW id, NEW fee,
             Roll(id, fee) \/ Exercise(id, fee) \/ Swap(u) \/ Elsewhere(u)
      PROVE  Appends
    BY <1>0, <1>3 DEF Roll, Exercise, Swap, Elsewhere
<1>4. ASSUME NEW ids, NEW fee, Cancel(ids, fee) \/ Settle(ids)
      PROVE  Appends
    BY <1>0, <1>4 DEF Cancel, Settle
<1>5. Appends BY <1>1, <1>2, <1>3, <1>4 DEF MineBlock
<1>. QED BY <1>5 DEF Appends

(* A chain with one more block. *)
LEMMA AppendGrows ==
    ASSUME NEW S, NEW s \in Seq(S), NEW x
    PROVE  Append(s, x) \in Seq(S \cup {x}) /\ Len(Append(s, x)) = Len(s) + 1
           /\ Len(s) \in Nat
OBVIOUS

(* The cursor's invariant holds at first. *)
LEMMA CursorInit == ASSUME Init PROVE CursorOK
<1>1. chain \in Seq({}) /\ Height = 0
    BY DEF Init, ChainInit, Height
<1>2. \A r \in Runs : RunOK(run[r])
    BY AsleepIsRun DEF Init, IndexerInit, RunOK, Asleep
<1>. QED BY <1>1, <1>2 DEF Init, IndexerInit, CursorOK

(* A step that changes one run, neither the chain nor the cursor, and      *)
(* leaves that run as it should be.                                        *)
LEMMA OneRunChanges ==
    ASSUME CursorOK, NEW r \in Runs, NEW x, Set(r, x), RunOK(x),
           UNCHANGED <<chain, cursor>>
    PROVE  CursorOK' /\ cursor' >= cursor
<1>1. Height' = Height BY DEF Height
<1>2. \A s \in Runs : run'[s] = x \/ run'[s] = run[s]
    BY DEF Set, CursorOK
<1>3. \A s \in Runs : RunOK(run[s])' BY <1>1, <1>2 DEF RunOK, IsRun, CursorOK
<1>4. DOMAIN run' = Runs BY DEF Set, CursorOK
<1>5. cursor' \in Nat /\ cursor' <= Height' /\ cursor' >= cursor
    BY <1>1 DEF CursorOK
<1>6. (\E S : chain \in Seq(S))' BY DEF CursorOK
<1>. QED BY <1>3, <1>4, <1>5, <1>6 DEF CursorOK

(* A sleeping run is as it should be. *)
LEMMA AsleepOK == RunOK(Asleep)
BY AsleepIsRun DEF RunOK, Asleep

(* A run that only goes to a phase before the height is read. *)
LEMMA EarlyPhaseOK ==
    ASSUME CursorOK, NEW r \in Runs, NEW x, IsRun(x),
           x.from = run[r].from, x.to = run[r].to,
           x.phase \in {"resolve", "grace", "cursor"}
    PROVE  RunOK(x)
BY DEF CursorOK, RunOK

(* The height is a number. *)
LEMMA HeightNat == ASSUME CursorOK PROVE Height \in Nat
BY DEF CursorOK, Height

(* What a run that read the height h goes on with.                         *)
LEMMA LearnHeightOK ==
    ASSUME CursorOK, NEW r \in Runs, NEW h \in Int, h <= Height,
           LearnHeight(r, h)
    PROVE  CursorOK' /\ cursor' >= cursor
<1>. DEFINE from == run[r].from
            to == LastBlock(from, h)
            x == [run[r] EXCEPT !.phase = ToFetch(from, to), !.to = to]
<1>1. UNCHANGED <<chain, cursor>>
    BY DEF LearnHeight, chainVars, dbVars
<1>2. CASE AtTip(r, h)
    BY <1>1, <1>2, AsleepOK, OneRunChanges DEF LearnHeight
<1>3. CASE ~AtTip(r, h)
    <2>1. Set(r, x) BY <1>3 DEF LearnHeight
    <2>2. IsRun(run[r]) /\ from \in Nat /\ from = cursor + 1
        BY DEF LearnHeight, At, CursorOK, RunOK
    <2>3. to \in Nat /\ from <= to /\ to <= Height
        BY <1>3, <2>2, HeightNat, PollerAssumption DEF AtTip, LastBlock, CursorOK
    <2>4. RunIs(x, "fetch", from, to)
        BY <2>2, <2>3, RunEnds DEF ToFetch
    <2>. HIDE DEF x, to
    <2>5. RunOK(x) BY <2>2, <2>3, <2>4 DEF RunOK, CursorOK, RunIs
    <2>. QED BY <1>1, <2>1, <2>5, OneRunChanges
<1>. QED BY <1>2, <1>3

(* A run that has its next block's statements, or none for a null block.   *)
LEMMA CollectOK ==
    ASSUME CursorOK, NEW r \in Runs, At(r, "fetch"), NEW stmts, Collect(r, stmts),
           UNCHANGED <<chain, cursor>>
    PROVE  CursorOK' /\ cursor' >= cursor
<1>. DEFINE n == run[r].from
            x == [run[r] EXCEPT !.stmts = @ \o stmts, !.from = n + 1,
                                !.phase = ToFetch(n + 1, run[r].to)]
<1>1. Set(r, x) BY DEF Collect
<1>2. IsRun(run[r]) /\ n \in Nat /\ run[r].to \in Nat /\ cursor < n /\ n <= run[r].to
      /\ run[r].to <= Height
    BY DEF At, CursorOK, RunOK
<1>3. RunIs(x, ToFetch(n + 1, run[r].to), n + 1, run[r].to)
    BY <1>2, RunCollects
<1>. HIDE DEF x
<1>4. RunOK(x) BY <1>2, <1>3 DEF RunOK, ToFetch, CursorOK, RunIs
<1>. QED BY <1>1, <1>4, OneRunChanges

(* Every step keeps the invariant and moves the cursor forward only.       *)
LEMMA CursorStep ==
    ASSUME OneRun, CursorOK, [Next]_pollerVars
    PROVE  CursorOK' /\ cursor' >= cursor
<1>. USE DEF pollerVars, chainVars, dbVars
<1>1. CASE UNCHANGED pollerVars
    <2>1. Height' = Height BY <1>1 DEF Height
    <2>. QED BY <1>1, <2>1 DEF CursorOK, RunOK, IsRun
<1>2. CASE MineStep
    <2>1. PICK b : chain' = Append(chain, b) BY <1>2, MiningAppends DEF MineStep
    <2>2. PICK S : chain \in Seq(S) BY DEF CursorOK
    <2>3. chain' \in Seq(S \cup {b}) /\ Height' = Height + 1 /\ Height \in Nat
        BY <2>1, <2>2, AppendGrows DEF Height
    <2>4. UNCHANGED <<cursor, run>> BY <1>2 DEF MineStep
    <2>. QED BY <2>3, <2>4 DEF CursorOK, RunOK, IsRun
<1>3. ASSUME NEW r \in Runs, Cron(r) \/ ResolveFails(r) \/ LearnGraceFails(r)
      PROVE  CursorOK' /\ cursor' >= cursor
    <2>1. PICK p \in {"resolve", "grace", "cursor"} : Go(r, p) /\ UNCHANGED <<chain, cursor>>
        BY <1>3 DEF Cron, ResolveFails, LearnGraceFails
    <2>. DEFINE x == [run[r] EXCEPT !.phase = p]
    <2>2. IsRun(run[r]) BY DEF CursorOK, RunOK
    <2>3. IsRun(x) /\ x.from = run[r].from /\ x.to = run[r].to /\ x.phase = p
        BY <2>2, RunGoes DEF RunIs
    <2>4. RunOK(x) BY <2>3, EarlyPhaseOK
    <2>. QED BY <2>1, <2>4, OneRunChanges DEF Go
<1>4. ASSUME NEW r \in Runs, Resolve(r)
      PROVE  CursorOK' /\ cursor' >= cursor
    <2>. DEFINE x == [run[r] EXCEPT !.phase = "grace", !.pools = Tracked]
    <2>1. RunIs(x, "grace", run[r].from, run[r].to)
        BY RunResolves DEF CursorOK, RunOK
    <2>2. RunOK(x) BY <2>1, EarlyPhaseOK DEF RunIs
    <2>. QED BY <1>4, <2>2, OneRunChanges DEF Resolve
<1>5. ASSUME NEW r \in Runs, LearnGrace(r)
      PROVE  CursorOK' /\ cursor' >= cursor
    <2>. DEFINE x(g) == [run[r] EXCEPT !.phase = "cursor", !.grace = g]
                y == [run[r] EXCEPT !.phase = "cursor"]
    <2>0. IsRun(run[r]) BY DEF CursorOK, RunOK
    <2>1. \A g : RunIs(x(g), "cursor", run[r].from, run[r].to)
        BY <2>0, RunLearns
    <2>2. RunIs(y, "cursor", run[r].from, run[r].to)
        BY <2>0, RunGoes
    <2>. HIDE DEF x, y
    <2>3. RunOK(y) /\ \A g : RunOK(x(g)) BY <2>1, <2>2, EarlyPhaseOK DEF RunIs
    <2>4. UNCHANGED <<chain, cursor>> BY <1>5 DEF LearnGrace
    <2>5. Set(r, y) \/ \E g : Set(r, x(g)) BY <1>5 DEF LearnGrace, Go, x, y
    <2>. QED BY <2>3, <2>4, <2>5, OneRunChanges
<1>6. ASSUME NEW r \in Runs, ReadCursor(r)
      PROVE  CursorOK' /\ cursor' >= cursor
    <2>. DEFINE x == [run[r] EXCEPT !.phase = "height", !.from = cursor + 1]
    <2>1. IsRun(run[r]) /\ run[r].to \in Nat /\ cursor \in Nat BY DEF CursorOK, RunOK
    <2>2. RunIs(x, "height", cursor + 1, run[r].to)
        BY <2>1, RunStarts
    <2>. HIDE DEF x
    <2>3. RunOK(x) BY <2>1, <2>2 DEF RunOK, RunIs
    <2>4. Set(r, x) BY <1>6 DEF ReadCursor, x
    <2>. QED BY <1>6, <2>3, <2>4, OneRunChanges DEF ReadCursor
<1>7. ASSUME NEW r \in Runs, ReadHeight(r) \/ ReadHeightBehind(r)
      PROVE  CursorOK' /\ cursor' >= cursor
    <2>1. PICK h \in {Height, Height - 1} : LearnHeight(r, h)
        BY <1>7 DEF ReadHeight, ReadHeightBehind
    <2>2. h \in Int /\ h <= Height BY HeightNat
    <2>. QED BY <2>1, <2>2, LearnHeightOK
<1>8. ASSUME NEW r \in Runs, FetchBlock(r) \/ FetchNothing(r)
      PROVE  CursorOK' /\ cursor' >= cursor
    <2>1. At(r, "fetch") /\ UNCHANGED <<chain, cursor>>
        BY <1>8 DEF FetchBlock, FetchNothing
    <2>2. \E stmts : Collect(r, stmts)
        BY <1>8 DEF FetchBlock, FetchNothing
    <2>. QED BY <2>1, <2>2, CollectOK
<1>9. ASSUME NEW r \in Runs, Commit(r)
       PROVE  CursorOK' /\ cursor' >= cursor
    <2>1. run[r].to \in Nat /\ cursor <= run[r].to /\ run[r].to <= Height
        BY <1>9 DEF Commit, At, CursorOK, RunOK
    <2>2. cursor' = run[r].to /\ chain' = chain /\ Height' = Height
        BY <1>9 DEF Commit, Height
    <2>3. run' = [run EXCEPT ![r] = Asleep] BY <1>9 DEF Commit, Set
    <2>4. \A s \in Runs : run'[s] = Asleep BY <2>3 DEF OneRun, CursorOK
    <2>5. \A s \in Runs : RunOK(run[s])' BY <2>4, AsleepIsRun DEF RunOK, Asleep
    <2>6. DOMAIN run' = Runs BY <2>3 DEF CursorOK
    <2>7. (\E S : chain \in Seq(S))' BY <2>2 DEF CursorOK
    <2>. QED BY <2>1, <2>2, <2>5, <2>6, <2>7 DEF CursorOK
<1>10. ASSUME NEW r \in Runs, Abort(r)
       PROVE  CursorOK' /\ cursor' >= cursor
    BY <1>10, AsleepOK, OneRunChanges DEF Abort
<1>. QED
    BY <1>1, <1>2, <1>3, <1>4, <1>5, <1>6, <1>7, <1>8, <1>9, <1>10
    DEF Next, RunStep, RunFault

(* With one run at a time the cursor never goes back, whatever fails and   *)
(* however far behind the node that answers is.                            *)
THEOREM CursorAdvances ==
    ASSUME OneRun
    PROVE  Spec => CursorOnlyAdvances
<1>1. Init => CursorOK BY CursorInit
<1>2. CursorOK /\ [Next]_pollerVars => CursorOK' BY CursorStep
<1>3. CursorOK /\ [Next]_pollerVars => [cursor' >= cursor]_pollerVars BY CursorStep
<1>. QED BY <1>1, <1>2, <1>3, PTL DEF Spec, CursorOnlyAdvances

(* The index never claims a block the chain does not have.                 *)
THEOREM CursorWithinChain ==
    ASSUME OneRun
    PROVE  Spec => [](cursor <= Height)
<1>1. Init => CursorOK BY CursorInit
<1>2. CursorOK /\ [Next]_pollerVars => CursorOK' BY CursorStep
<1>3. CursorOK => cursor <= Height BY DEF CursorOK
<1>. QED BY <1>1, <1>2, <1>3, PTL DEF Spec

(* A set of numbers with 0 and every successor has them all. *)
LEMMA SetInduction ==
    ASSUME NEW S, 0 \in S, \A n \in Nat : n \in S => n + 1 \in S
    PROVE  Nat \subseteq S
<1>1. SUFFICES ASSUME Nat \ S # {} PROVE FALSE
    OBVIOUS
<1>2. IsWellFoundedOn(OpToRel(<, Nat), Nat)
    BY NatLessThanWellFounded
<1>3. PICK m \in Nat \ S : \A k \in Nat \ S : ~(<<k, m>> \in OpToRel(<, Nat))
    BY <1>1, <1>2, WFMin
<1>4. m \in Nat /\ m # 0
    BY <1>3
<1>5. m - 1 \in Nat /\ m - 1 < m /\ m = (m - 1) + 1
    BY <1>4
<1>6. m - 1 \in S
    BY <1>3, <1>5 DEF OpToRel
<1>. QED BY <1>3, <1>5, <1>6

(* ---- concatenations ---- *)

(* The concatenations of the first i of ss, for i up to n. *)
IsFlat(f, ss, n) == f = [i \in 1 .. n |-> IF i = 1 THEN ss[i] ELSE f[i - 1] \o ss[i]]

(* The concatenations of the prefixes of any sequence exist. *)
LEMMA FlatExists ==
    ASSUME NEW ss, NEW n \in Nat
    PROVE  \E f : IsFlat(f, ss, n)
<1>. DEFINE N == {m \in Nat : \E f : IsFlat(f, ss, m)}
<1>1. 0 \in N
    <2>1. IsFlat([i \in 1 .. 0 |-> <<>>], ss, 0) BY DEF IsFlat
    <2>. QED BY <2>1
<1>2. ASSUME NEW m \in Nat, m \in N PROVE m + 1 \in N
    <2>1. PICK f : IsFlat(f, ss, m) BY <1>2
    <2>. DEFINE last == IF m = 0 THEN ss[1] ELSE f[m] \o ss[m + 1]
                g == [i \in 1 .. m + 1 |-> IF i = m + 1 THEN last ELSE f[i]]
    <2>2. \A i \in 1 .. m : g[i] = f[i] OBVIOUS
    <2>3. ASSUME NEW i \in 1 .. m + 1
          PROVE  g[i] = IF i = 1 THEN ss[i] ELSE g[i - 1] \o ss[i]
        <3>1. CASE i = m + 1 BY <2>2, <3>1
        <3>2. CASE i # m + 1
            <4>1. i \in 1 .. m /\ (i # 1 => i - 1 \in 1 .. m) BY <3>2
            <4>2. f[i] = IF i = 1 THEN ss[i] ELSE f[i - 1] \o ss[i]
                BY <2>1, <4>1 DEF IsFlat
            <4>. HIDE DEF g
            <4>. QED BY <2>2, <4>1, <4>2
        <3>. QED BY <3>1, <3>2
    <2>4. g = [i \in 1 .. m + 1 |-> g[i]] OBVIOUS
    <2>. HIDE DEF g
    <2>5. IsFlat(g, ss, m + 1) BY <2>3, <2>4 DEF IsFlat
    <2>. QED BY <2>5
<1>3. Nat \subseteq N
    <2>. HIDE DEF N
    <2>. QED BY <1>1, <1>2, SetInduction
<1>. QED BY <1>3

(* They depend on the prefix alone, and are sequences. *)
LEMMA FlatAgrees ==
    ASSUME NEW S, NEW n \in Nat, NEW m \in Nat, NEW ss \in Seq(Seq(S)), NEW tt,
           n <= Len(ss), n <= m, \A i \in 1 .. n : ss[i] = tt[i],
           NEW f, NEW g, IsFlat(f, ss, n), IsFlat(g, tt, m)
    PROVE  \A i \in 1 .. n : f[i] = g[i] /\ f[i] \in Seq(S)
<1>. DEFINE N == {k \in Nat : k \in 1 .. n => f[k] = g[k] /\ f[k] \in Seq(S)}
<1>1. 0 \in N OBVIOUS
<1>2. ASSUME NEW k \in Nat, k \in N PROVE k + 1 \in N
    <2>1. SUFFICES ASSUME k + 1 \in 1 .. n
                   PROVE f[k + 1] = g[k + 1] /\ f[k + 1] \in Seq(S)
        OBVIOUS
    <2>0. k + 1 \in 1 .. m /\ (k + 1) - 1 = k /\ (k + 1 = 1 <=> k = 0) BY <2>1
    <2>2. f[k + 1] = IF k = 0 THEN ss[k + 1] ELSE f[k] \o ss[k + 1]
        BY <2>0, <2>1 DEF IsFlat
    <2>3. g[k + 1] = IF k = 0 THEN tt[k + 1] ELSE g[k] \o tt[k + 1]
        BY <2>0 DEF IsFlat
    <2>4. k # 0 => f[k] = g[k] /\ f[k] \in Seq(S) BY <1>2, <2>1
    <2>5. ss[k + 1] = tt[k + 1] /\ ss[k + 1] \in Seq(S) BY <2>1
    <2>. QED BY <2>2, <2>3, <2>4, <2>5
<1>3. Nat \subseteq N
    <2>. HIDE DEF N
    <2>. QED BY <1>1, <1>2, SetInduction
<1>. QED BY <1>3

(* FlattenSeq is the last of them. *)
LEMMA FlattenIs ==
    ASSUME NEW S, NEW ss \in Seq(Seq(S)), ss # <<>>
    PROVE  \E f : IsFlat(f, ss, Len(ss)) /\ FlattenSeq(ss) = f[Len(ss)]
<1>. DEFINE f == CHOOSE f : f = [i \in 1 .. Len(ss) |->
                                   IF i = 1 THEN ss[i] ELSE f[i - 1] \o ss[i]]
<1>0. Len(ss) \in Nat OBVIOUS
<1>1. \E x : IsFlat(x, ss, Len(ss)) BY <1>0, FlatExists
<1>2. IsFlat(f, ss, Len(ss)) BY <1>1 DEF IsFlat
<1>3. Len(ss) # 0 OBVIOUS
<1>4. FlattenSeq(ss) = f[Len(ss)] BY <1>3 DEF FlattenSeq
<1>. QED BY <1>2, <1>4

(* Nothing flattened is nothing. *)
LEMMA FlattenEmpty == FlattenSeq(<<>>) = <<>>
BY DEF FlattenSeq

(* One sequence more is concatenated at the end. *)
LEMMA FlattenAppend ==
    ASSUME NEW S, NEW ss \in Seq(Seq(S)), NEW x \in Seq(S)
    PROVE  /\ FlattenSeq(ss) \in Seq(S)
           /\ FlattenSeq(Append(ss, x)) = FlattenSeq(ss) \o x
<1>. DEFINE n == Len(ss)
            tt == Append(ss, x)
<1>1. tt \in Seq(Seq(S)) /\ tt # <<>> /\ Len(tt) = n + 1 /\ n \in Nat
      /\ tt[n + 1] = x /\ \A i \in 1 .. n : ss[i] = tt[i]
    <2>1. Len(tt) = n + 1 /\ n \in Nat /\ tt \in Seq(Seq(S)) OBVIOUS
    <2>2. tt[n + 1] = x /\ \A i \in 1 .. n : ss[i] = tt[i] OBVIOUS
    <2>3. tt # <<>>
        <3>1. Len(<<>>) = 0 /\ n + 1 # 0 BY <2>1
        <3>. HIDE DEF tt, n
        <3>. QED BY <2>1, <3>1
    <2>. QED BY <2>1, <2>2, <2>3
<1>. HIDE DEF tt
<1>2. PICK g : IsFlat(g, tt, n + 1) /\ FlattenSeq(tt) = g[n + 1]
    BY <1>1, FlattenIs
<1>3. g[n + 1] = IF n = 0 THEN x ELSE g[n] \o x
    <2>1. n + 1 \in 1 .. n + 1 /\ (n + 1) - 1 = n /\ (n + 1 = 1 <=> n = 0) BY <1>1
    <2>. QED BY <1>1, <1>2, <2>1 DEF IsFlat
<1>4. CASE n = 0
    <2>1. ss = <<>> BY <1>4
    <2>2. FlattenSeq(ss) = <<>> /\ <<>> \in Seq(S) BY <2>1, FlattenEmpty
    <2>3. FlattenSeq(tt) = x /\ <<>> \o x = x BY <1>2, <1>3, <1>4
    <2>. QED BY <2>2, <2>3 DEF tt
<1>5. CASE n # 0
    <2>1. ss # <<>> BY <1>5
    <2>2. PICK f : IsFlat(f, ss, n) /\ FlattenSeq(ss) = f[n] BY <2>1, FlattenIs
    <2>3. f[n] = g[n] /\ f[n] \in Seq(S)
        <3>1. n + 1 \in Nat /\ n <= n + 1 /\ n <= Len(ss) /\ n \in 1 .. n BY <1>1, <1>5
        <3>2. \A i \in 1 .. n : f[i] = g[i] /\ f[i] \in Seq(S)
            <4>1. n <= Len(ss) BY <3>1
            <4>2. \A i \in 1 .. n : ss[i] = tt[i] BY <1>1
            <4>3. IsFlat(f, ss, n) /\ IsFlat(g, tt, n + 1) BY <1>2, <2>2
            <4>. HIDE DEF n
            <4>4. n \in Nat /\ n + 1 \in Nat /\ n <= n + 1 BY <1>1
            <4>. QED BY <4>1, <4>2, <4>3, <4>4, FlatAgrees
        <3>. QED BY <3>1, <3>2
    <2>. QED BY <1>2, <1>3, <1>5, <2>2, <2>3 DEF tt
<1>. QED BY <1>4, <1>5

(* ---- batches ---- *)

(* The tables after the first k statements of ss, for k up to n. *)
IsRunOf(f, t, ss, n) ==
    f = [k \in 0 .. n |-> IF k = 0 THEN t ELSE Do(f[k - 1], ss[k])]

(* The tables after each prefix of a batch exist. *)
LEMMA RunExists ==
    ASSUME NEW t, NEW ss, NEW n \in Nat
    PROVE  \E f : IsRunOf(f, t, ss, n)
<1>. DEFINE N == {m \in Nat : \E f : IsRunOf(f, t, ss, m)}
<1>1. 0 \in N
    <2>1. IsRunOf([i \in 0 .. 0 |-> t], t, ss, 0) BY DEF IsRunOf
    <2>. QED BY <2>1
<1>2. ASSUME NEW m \in Nat, m \in N PROVE m + 1 \in N
    <2>1. PICK f : IsRunOf(f, t, ss, m) BY <1>2
    <2>. DEFINE g == [i \in 0 .. m + 1 |-> IF i = m + 1 THEN Do(f[m], ss[m + 1]) ELSE f[i]]
    <2>2. \A i \in 0 .. m : g[i] = f[i] OBVIOUS
    <2>3. ASSUME NEW i \in 0 .. m + 1
          PROVE  g[i] = IF i = 0 THEN t ELSE Do(g[i - 1], ss[i])
        <3>1. CASE i = m + 1
            <4>1. i - 1 = m /\ g[i - 1] = f[m] /\ i # 0 BY <2>2, <3>1
            <4>. QED BY <3>1, <4>1
        <3>2. CASE i # m + 1
            <4>1. i \in 0 .. m /\ (i # 0 => i - 1 \in 0 .. m) BY <3>2
            <4>2. f[i] = IF i = 0 THEN t ELSE Do(f[i - 1], ss[i])
                BY <2>1, <4>1 DEF IsRunOf
            <4>. HIDE DEF g
            <4>. QED BY <2>2, <4>1, <4>2
        <3>. QED BY <3>1, <3>2
    <2>4. g = [i \in 0 .. m + 1 |-> g[i]] OBVIOUS
    <2>. HIDE DEF g
    <2>5. IsRunOf(g, t, ss, m + 1) BY <2>3, <2>4 DEF IsRunOf
    <2>. QED BY <2>5
<1>3. Nat \subseteq N
    <2>. HIDE DEF N
    <2>. QED BY <1>1, <1>2, SetInduction
<1>. QED BY <1>3

(* f and g agree between lo and n. *)
Same(f, g, lo, n) == \A i \in lo .. n : f[i] = g[i]

(* They depend on the prefix alone. *)
LEMMA RunAgrees ==
    ASSUME NEW t, NEW n \in Nat, NEW m \in Nat, NEW ss, NEW tt,
           n <= m, Same(ss, tt, 1, n),
           NEW f, NEW g, IsRunOf(f, t, ss, n), IsRunOf(g, t, tt, m)
    PROVE  Same(f, g, 0, n)
<1>. DEFINE N == {k \in Nat : k \in 0 .. n => f[k] = g[k]}
<1>1. 0 \in N BY DEF IsRunOf
<1>2. ASSUME NEW k \in Nat, k \in N PROVE k + 1 \in N
    <2>1. SUFFICES ASSUME k + 1 \in 0 .. n PROVE f[k + 1] = g[k + 1]
        OBVIOUS
    <2>2. f[k + 1] = Do(f[k], ss[k + 1]) BY <2>1 DEF IsRunOf
    <2>3. g[k + 1] = Do(g[k], tt[k + 1]) BY <2>1 DEF IsRunOf
    <2>4. f[k] = g[k] BY <1>2, <2>1
    <2>5. ss[k + 1] = tt[k + 1] BY <2>1 DEF Same
    <2>. QED BY <2>2, <2>3, <2>4, <2>5
<1>3. Nat \subseteq N
    <2>. HIDE DEF N
    <2>. QED BY <1>1, <1>2, SetInduction
<1>. QED BY <1>3 DEF Same

(* A batch (db.batch) leaves the last of them. *)
LEMMA BatchIs ==
    ASSUME NEW t, NEW ss, Len(ss) \in Nat
    PROVE  \E f : IsRunOf(f, t, ss, Len(ss)) /\ Batch(t, ss) = f[Len(ss)]
<1>. DEFINE f == CHOOSE f : f = [k \in 0 .. Len(ss) |->
                                   IF k = 0 THEN t ELSE Do(f[k - 1], ss[k])]
<1>1. \E x : IsRunOf(x, t, ss, Len(ss)) BY RunExists
<1>2. IsRunOf(f, t, ss, Len(ss)) BY <1>1 DEF IsRunOf
<1>3. Batch(t, ss) = f[Len(ss)] BY DEF Batch
<1>. QED BY <1>2, <1>3

(* A batch of no statements changes nothing. *)
LEMMA BatchEmpty == ASSUME NEW t PROVE Batch(t, <<>>) = t
<1>1. Len(<<>>) = 0 OBVIOUS
<1>2. PICK f : IsRunOf(f, t, <<>>, 0) /\ Batch(t, <<>>) = f[0] BY <1>1, BatchIs
<1>. QED BY <1>2 DEF IsRunOf

(* A batch does its last statement last. *)
LEMMA BatchAppend ==
    ASSUME NEW t, NEW S, NEW ss \in Seq(S), NEW s
    PROVE  Batch(t, Append(ss, s)) = Do(Batch(t, ss), s)
<1>. DEFINE n == Len(ss)
            tt == Append(ss, s)
<1>1. Len(tt) = n + 1 /\ n \in Nat /\ tt[n + 1] = s /\ \A i \in 1 .. n : ss[i] = tt[i]
    <2>1. ss \in Seq(S \cup {s}) /\ s \in S \cup {s} OBVIOUS
    <2>. QED BY <2>1
<1>. HIDE DEF tt
<1>2. PICK f : IsRunOf(f, t, ss, n) /\ Batch(t, ss) = f[n] BY <1>1, BatchIs
<1>3. PICK g : IsRunOf(g, t, tt, n + 1) /\ Batch(t, tt) = g[n + 1] BY <1>1, BatchIs
<1>4. f[n] = g[n]
    <2>1. n + 1 \in Nat /\ n <= n + 1 /\ n \in 0 .. n BY <1>1
    <2>2. Same(ss, tt, 1, n) BY <1>1 DEF Same
    <2>3. IsRunOf(f, t, ss, n) /\ IsRunOf(g, t, tt, n + 1) BY <1>2, <1>3
    <2>. HIDE DEF n
    <2>4. n \in Nat /\ n + 1 \in Nat /\ n <= n + 1 BY <1>1
    <2>5. Same(f, g, 0, n) BY <2>2, <2>3, <2>4, RunAgrees
    <2>. QED BY <2>4, <2>5 DEF Same
<1>5. g[n + 1] = Do(g[n], s) BY <1>1, <1>3 DEF IsRunOf
<1>. QED BY <1>2, <1>3, <1>4, <1>5 DEF tt

(* A batch of one statement. *)
LEMMA BatchOne == ASSUME NEW t, NEW s PROVE Batch(t, <<s>>) = Do(t, s)
<1>1. <<>> \in Seq({}) OBVIOUS
<1>2. Append(<<>>, s) = <<s>> OBVIOUS
<1>3. Batch(t, Append(<<>>, s)) = Do(Batch(t, <<>>), s) BY <1>1, BatchAppend
<1>. QED BY <1>2, <1>3, BatchEmpty

(* Two batches one after the other are one batch. *)
LEMMA BatchConcat ==
    ASSUME NEW t, NEW S, NEW ss \in Seq(S), NEW tt \in Seq(S)
    PROVE  Batch(t, ss \o tt) = Batch(Batch(t, ss), tt)
<1>. DEFINE N == {k \in Nat : \A uu \in Seq(S) : Len(uu) = k =>
                     Batch(t, ss \o uu) = Batch(Batch(t, ss), uu)}
<1>1. 0 \in N
    <2>1. \A uu \in Seq(S) : Len(uu) = 0 => uu = <<>> /\ ss \o uu = ss OBVIOUS
    <2>. QED BY <2>1, BatchEmpty
<1>2. ASSUME NEW k \in Nat, k \in N PROVE k + 1 \in N
    <2>1. SUFFICES ASSUME NEW uu \in Seq(S), Len(uu) = k + 1
                   PROVE  Batch(t, ss \o uu) = Batch(Batch(t, ss), uu)
        OBVIOUS
    <2>. DEFINE v == SubSeq(uu, 1, k)
                x == uu[k + 1]
    <2>2. v \in Seq(S) /\ Len(v) = k /\ x \in S /\ uu = Append(v, x) BY <2>1
    <2>. HIDE DEF v, x
    <2>3. ss \o uu = Append(ss \o v, x) /\ ss \o v \in Seq(S) BY <2>2
    <2>4. Batch(t, ss \o v) = Batch(Batch(t, ss), v) BY <1>2, <2>2
    <2>5. Batch(t, Append(ss \o v, x)) = Do(Batch(t, ss \o v), x) BY <2>3, BatchAppend
    <2>6. Batch(Batch(t, ss), Append(v, x)) = Do(Batch(Batch(t, ss), v), x)
        BY <2>2, BatchAppend
    <2>. QED BY <2>2, <2>3, <2>4, <2>5, <2>6
<1>3. Nat \subseteq N
    <2>. HIDE DEF N
    <2>. QED BY <1>1, <1>2, SetInduction
<1>. QED BY <1>3

(* A sequence of anything. *)
IsList(s) == \E S : s \in Seq(S)

(* Rows, tables: typed far enough for the provers. *)
RowSet(S) == [writer : S, buyer : S, status : S, created : S, updated : S, grace : S]
IsRow(x) == \E S : x \in RowSet(S)
IsRows(o) == o = [id \in DOMAIN o |-> o[id]] /\ \A id \in DOMAIN o : IsRow(o[id])

TableSet(S) == [options : S, fees : Seq(S), transfers : Seq(S), swaps : Seq(S)]
IsTables(t) == IsRows(t.options) /\ \E S : t \in TableSet(S)

(* p with q at id. *)
Put(p, id, q) == [i \in DOMAIN p \cup {id} |-> IF i = id THEN q ELSE p[i]]

(* What the two UPDATEs make of a row. *)
StatusRow(x, v, b, n) ==
    [x EXCEPT !.status = v, !.updated = n, !.buyer = Coalesce(b, @)]
BuyerRow(x, b, n) == [x EXCEPT !.buyer = b, !.updated = n]

(* What an UPDATE makes of a row of options. *)
LEMMA RowIsSet ==
    ASSUME NEW x, IsRow(x), NEW v, NEW n, NEW b
    PROVE  /\ IsRow(StatusRow(x, v, b, n))
           /\ Position(StatusRow(x, v, b, n))
                = [writer |-> x.writer, buyer |-> Coalesce(b, x.buyer), status |-> v]
           /\ IsRow(BuyerRow(x, v, n))
           /\ Position(BuyerRow(x, v, n))
                = [writer |-> x.writer, buyer |-> v, status |-> x.status]
<1>1. PICK S : x \in RowSet(S) BY DEF IsRow
<1>. DEFINE c == Coalesce(b, x.buyer)
<1>. HIDE DEF c
<1>2. [x EXCEPT !.status = v, !.updated = n, !.buyer = c] \in RowSet(S \cup {v, n, c})
    BY <1>1 DEF RowSet
<1>3. [x EXCEPT !.buyer = v, !.updated = n] \in RowSet(S \cup {v, n})
    BY <1>1 DEF RowSet
<1>4. [x EXCEPT !.status = v, !.updated = n, !.buyer = c].writer = x.writer
      /\ [x EXCEPT !.status = v, !.updated = n, !.buyer = c].buyer = c
      /\ [x EXCEPT !.status = v, !.updated = n, !.buyer = c].status = v
    BY <1>1 DEF RowSet
<1>5. [x EXCEPT !.buyer = v, !.updated = n].writer = x.writer
      /\ [x EXCEPT !.buyer = v, !.updated = n].buyer = v
      /\ [x EXCEPT !.buyer = v, !.updated = n].status = x.status
    BY <1>1 DEF RowSet
<1>6. [x EXCEPT !.status = v, !.updated = n, !.buyer = Coalesce(b, @)]
        = [x EXCEPT !.status = v, !.updated = n, !.buyer = c]
    BY <1>1 DEF c, RowSet
<1>7. IsRow([x EXCEPT !.status = v, !.updated = n, !.buyer = c])
      /\ IsRow([x EXCEPT !.buyer = v, !.updated = n])
    BY <1>2, <1>3 DEF IsRow
<1>. QED BY <1>4, <1>5, <1>6, <1>7 DEF Position, StatusRow, BuyerRow, c

(* u is t with this row of options. *)
Stores(t, u, id, row) ==
    /\ IsTables(u)
    /\ u.options = Put(t.options, id, row)
    /\ u.fees = t.fees /\ u.transfers = t.transfers /\ u.swaps = t.swaps

(* Tables with one row of options set. *)
LEMMA OptionsAreSet ==
    ASSUME NEW t, IsTables(t), NEW id, NEW row, IsRow(row)
    PROVE  Stores(t, [t EXCEPT !.options = Put(t.options, id, row)], id, row)
<1>. DEFINE o == Put(t.options, id, row)
            u == [t EXCEPT !.options = o]
<1>1. PICK S : t \in TableSet(S) BY DEF IsTables
<1>2. IsRows(o) BY DEF IsTables, IsRows, Put
<1>. HIDE DEF o
<1>3. u \in TableSet(S \cup {o}) /\ u.options = o
      /\ u.fees = t.fees /\ u.transfers = t.transfers /\ u.swaps = t.swaps
    BY <1>1 DEF TableSet
<1>. HIDE DEF u
<1>4. IsTables(u) BY <1>2, <1>3 DEF IsTables
<1>. QED BY <1>3, <1>4 DEF Stores, o, u

(* INSERT OR IGNORE stores the row of an option not there yet. *)
LEMMA InsertStores ==
    ASSUME NEW t, IsTables(t), NEW id, NEW row, IsRow(row), id \notin DOMAIN t.options
    PROVE  Stores(t, Do(t, InsertOption(id, row)), id, row)
<1>1. Do(t, InsertOption(id, row)) = [t EXCEPT !.options = Put(t.options, id, row)]
    BY DEF Do, InsertOption, DoInsertOption, Put
<1>. QED BY <1>1, OptionsAreSet

(* An UPDATE of an option that is there replaces its row. *)
LEMMA UpdateStores ==
    ASSUME NEW t, IsTables(t), NEW id \in DOMAIN t.options, NEW row, IsRow(row)
    PROVE  Stores(t, UpdateRow(t, id, row), id, row)
<1>1. PICK S : t \in TableSet(S) BY DEF IsTables
<1>2. [t.options EXCEPT ![id] = row] = Put(t.options, id, row)
    BY DEF IsTables, IsRows, Put
<1>3. UpdateRow(t, id, row) = [t EXCEPT !.options = Put(t.options, id, row)]
    BY <1>1, <1>2 DEF UpdateRow, TableSet
<1>. QED BY <1>3, OptionsAreSet

(* UPDATE of the status (and buyer, where one is given). *)
LEMMA StatusStores ==
    ASSUME NEW t, IsTables(t), NEW id \in DOMAIN t.options, NEW v, NEW b, NEW n
    PROVE  \E row : /\ Stores(t, Do(t, UpdateStatus(id, v, b, n)), id, row)
                    /\ IsRow(row)
                    /\ Position(row) = [writer |-> t.options[id].writer,
                                        buyer |-> Coalesce(b, t.options[id].buyer),
                                        status |-> v]
<1>. DEFINE x == t.options[id]
            row == StatusRow(x, v, b, n)
<1>1. IsRow(x) BY DEF IsTables, IsRows
<1>2. Do(t, UpdateStatus(id, v, b, n)) = UpdateRow(t, id, row)
    BY DEF Do, UpdateStatus, DoUpdateStatus, StatusRow
<1>. HIDE DEF x
<1>3. IsRow(row)
      /\ Position(row) = [writer |-> x.writer, buyer |-> Coalesce(b, x.buyer), status |-> v]
    BY <1>1, RowIsSet
<1>. HIDE DEF row
<1>4. Stores(t, UpdateRow(t, id, row), id, row) BY <1>3, UpdateStores
<1>. QED BY <1>2, <1>3, <1>4 DEF x

(* UPDATE of the buyer. *)
LEMMA BuyerStores ==
    ASSUME NEW t, IsTables(t), NEW id \in DOMAIN t.options, NEW b, NEW n
    PROVE  \E row : /\ Stores(t, Do(t, UpdateBuyer(id, b, n)), id, row)
                    /\ IsRow(row)
                    /\ Position(row) = [writer |-> t.options[id].writer, buyer |-> b,
                                        status |-> t.options[id].status]
<1>. DEFINE x == t.options[id]
            row == BuyerRow(x, b, n)
<1>1. IsRow(x) BY DEF IsTables, IsRows
<1>2. Do(t, UpdateBuyer(id, b, n)) = UpdateRow(t, id, row)
    BY DEF Do, UpdateBuyer, DoUpdateBuyer, BuyerRow
<1>. HIDE DEF x
<1>3. IsRow(row)
      /\ Position(row) = [writer |-> x.writer, buyer |-> b, status |-> x.status]
    BY <1>1, RowIsSet
<1>. HIDE DEF row
<1>4. Stores(t, UpdateRow(t, id, row), id, row) BY <1>3, UpdateStores
<1>. QED BY <1>2, <1>3, <1>4 DEF x

(* An INSERT into one of the lists. *)
Lists == {"fees", "transfers", "swaps"}
Adds(t, u, table, row) ==
    /\ IsTables(u)
    /\ u.options = t.options
    /\ u[table] = Append(t[table], row)
    /\ \A other \in Lists \ {table} : u[other] = t[other]

(* INSERT into a list adds one row at its end. *)
LEMMA InsertAdds ==
    ASSUME NEW t, IsTables(t), NEW table \in Lists, NEW row
    PROVE  Adds(t, Do(t, Insert(table, row)), table, row)
<1>1. PICK S : t \in TableSet(S) BY DEF IsTables
<1>. DEFINE u == [t EXCEPT ![table] = Append(@, row)]
<1>2. Do(t, Insert(table, row)) = u BY DEF Do, Insert
<1>3. u \in TableSet(S \cup {row}) /\ u.options = t.options
      /\ u[table] = Append(t[table], row)
      /\ \A other \in Lists \ {table} : u[other] = t[other]
    <2>. DEFINE x(l) == Append(l, row)
                T == S \cup {row}
    <2>0. t \in TableSet(T) /\ x(t.fees) \in Seq(T) /\ x(t.transfers) \in Seq(T)
          /\ x(t.swaps) \in Seq(T)
        BY <1>1 DEF TableSet
    <2>. HIDE DEF x, T
    <2>1. CASE table = "fees"
        <3>1. u = [t EXCEPT !.fees = x(t.fees)] BY <1>1, <2>1 DEF TableSet, x
        <3>2. [t EXCEPT !.fees = x(t.fees)] \in TableSet(T)
            BY <2>0 DEF TableSet
        <3>. QED BY <1>1, <2>1, <3>1, <3>2 DEF TableSet, Lists, x, T
    <2>2. CASE table = "transfers"
        <3>1. u = [t EXCEPT !.transfers = x(t.transfers)] BY <1>1, <2>2 DEF TableSet, x
        <3>2. [t EXCEPT !.transfers = x(t.transfers)] \in TableSet(T)
            BY <2>0 DEF TableSet
        <3>. QED BY <1>1, <2>2, <3>1, <3>2 DEF TableSet, Lists, x, T
    <2>3. CASE table = "swaps"
        <3>1. u = [t EXCEPT !.swaps = x(t.swaps)] BY <1>1, <2>3 DEF TableSet, x
        <3>2. [t EXCEPT !.swaps = x(t.swaps)] \in TableSet(T)
            BY <2>0 DEF TableSet
        <3>. QED BY <1>1, <2>3, <3>1, <3>2 DEF TableSet, Lists, x, T
    <2>. QED BY <2>1, <2>2, <2>3 DEF Lists
<1>. HIDE DEF u
<1>4. IsTables(u) BY <1>3 DEF IsTables
<1>. QED BY <1>2, <1>3, <1>4 DEF Adds

(* A list is a sequence of its elements. *)
LEMMA OwnElements == ASSUME NEW s, IsList(s) PROVE s \in Seq(ToSet(s))
<1>1. PICK S : s \in Seq(S) BY DEF IsList
<1>. QED BY <1>1 DEF ToSet

(* Two lists are sequences over one set. *)
LEMMA ListsTogether ==
    ASSUME NEW s, NEW t, IsList(s), IsList(t)
    PROVE  \E S : s \in Seq(S) /\ t \in Seq(S)
<1>1. PICK S : s \in Seq(S) BY DEF IsList
<1>2. PICK T : t \in Seq(T) BY DEF IsList
<1>3. s \in Seq(S \cup T) /\ t \in Seq(S \cup T) BY <1>1, <1>2
<1>. QED BY <1>3

(* Two lists concatenated are a list. *)
LEMMA ListsJoin ==
    ASSUME NEW s, NEW t, IsList(s), IsList(t)
    PROVE  IsList(s \o t)
<1>1. PICK S : s \in Seq(S) /\ t \in Seq(S) BY ListsTogether
<1>2. s \o t \in Seq(S) BY <1>1
<1>. QED BY <1>2 DEF IsList

Associate(x, y, z) == (x \o y) \o z = x \o (y \o z)

(* Concatenation of lists is associative. *)
LEMMA ListsAssociate ==
    ASSUME NEW x, NEW y, NEW z, IsList(x), IsList(y), IsList(z)
    PROVE  Associate(x, y, z)
<1>1. PICK S : x \in Seq(S) /\ y \in Seq(S) BY ListsTogether
<1>2. PICK T : z \in Seq(T) BY DEF IsList
<1>3. x \in Seq(S \cup T) /\ y \in Seq(S \cup T) /\ z \in Seq(S \cup T) BY <1>1, <1>2
<1>. QED BY <1>3 DEF Associate

(* Lists of at most two elements. *)
LEMMA ShortLists ==
    /\ IsList(<<>>)
    /\ \A x : IsList(<<x>>)
    /\ \A x, y : IsList(<<x, y>>)
<1>1. <<>> \in Seq({}) OBVIOUS
<1>2. \A x : <<x>> \in Seq({x}) OBVIOUS
<1>3. \A x, y : <<x, y>> \in Seq({x, y}) OBVIOUS
<1>. QED BY <1>1, <1>2, <1>3 DEF IsList

(* ---- the rows of fees somebody paid ---- *)

(* The paid fees of one fee row more. *)
LEMMA RealIsList ==
    ASSUME NEW f, IsList(f), NEW row
    PROVE  /\ IsList(Real(f))
           /\ Real(Append(f, row)) = IF row.amount = EscrowHash THEN Real(f)
                                     ELSE Append(Real(f), row)
<1>. DEFINE x(r) == IF r.amount = EscrowHash THEN <<>> ELSE <<r>>
            R(g) == [k \in DOMAIN g |-> x(g[k])]
<1>1. PICK S : f \in Seq(S) BY DEF IsList
<1>2. \A r \in S \cup {row} : x(r) \in Seq(S \cup {row})
    <2>1. \A r \in S \cup {row} : <<>> \in Seq(S \cup {row}) /\ <<r>> \in Seq(S \cup {row})
        OBVIOUS
    <2>. QED BY <2>1
<1>. HIDE DEF x
<1>3. R(f) \in Seq(Seq(S \cup {row}))
    <2>1. \A k \in 1 .. Len(f) : f[k] \in S \cup {row} BY <1>1
    <2>2. R(f) = [k \in 1 .. Len(f) |-> x(f[k])] /\ Len(f) \in Nat BY <1>1
    <2>3. \A k \in 1 .. Len(f) : x(f[k]) \in Seq(S \cup {row}) BY <1>2, <2>1
    <2>. HIDE DEF R
    <2>. QED BY <2>2, <2>3
<1>4. R(Append(f, row)) = Append(R(f), x(row)) BY <1>1
<1>. HIDE DEF R
<1>5. FlattenSeq(R(f)) \in Seq(S \cup {row})
      /\ FlattenSeq(Append(R(f), x(row))) = FlattenSeq(R(f)) \o x(row)
    BY <1>2, <1>3, FlattenAppend
<1>6. \A g : Real(g) = FlattenSeq(R(g)) BY DEF Real, R, x
<1>7. Real(f) \in Seq(S \cup {row}) /\ Real(Append(f, row)) = Real(f) \o x(row)
    BY <1>4, <1>5, <1>6
<1>8. Real(f) \o x(row) = IF row.amount = EscrowHash THEN Real(f) ELSE Append(Real(f), row)
    BY <1>7 DEF x
<1>. QED BY <1>7, <1>8 DEF IsList

(* No rows, no paid fees. *)
LEMMA RealEmpty == Real(<<>>) = <<>>
BY FlattenEmpty DEF Real

(* ---- what statements make of tables that show the positions p ---- *)

(* The fees, transfers and swaps of a block. *)
IsLedger(l) ==
    /\ l = [fees |-> l.fees, transfers |-> l.transfers, swaps |-> l.swaps]
    /\ IsList(l.fees) /\ IsList(l.transfers) /\ IsList(l.swaps)
Join(l, m) == [fees |-> l.fees \o m.fees, transfers |-> l.transfers \o m.transfers,
               swaps |-> l.swaps \o m.swaps]

(* u is t with the positions p2 and the ledger l added. *)
Gives(t, u, p2, l) ==
    /\ IsTables(u)
    /\ Positions(u.options) = p2
    /\ Real(u.fees) = Real(t.fees) \o l.fees
    /\ u.transfers = t.transfers \o l.transfers
    /\ u.swaps = t.swaps \o l.swaps
ListSays(ss, p, p2, l) ==
    \A t : IsTables(t) /\ Positions(t.options) = p => Gives(t, Batch(t, ss), p2, l)

(* The tables' lists are lists. *)
LEMMA TableLists ==
    ASSUME NEW t, IsTables(t)
    PROVE  IsList(t.fees) /\ IsList(t.transfers) /\ IsList(t.swaps) /\ IsList(Real(t.fees))
<1>1. PICK S : t \in TableSet(S) BY DEF IsTables
<1>2. IsList(t.fees) /\ IsList(t.transfers) /\ IsList(t.swaps)
    BY <1>1 DEF TableSet, IsList
<1>. QED BY <1>2, RealIsList

(* Joining nothing to a ledger. *)
LEMMA NoLedgerIs ==
    /\ IsLedger(NoLedger)
    /\ \A l : IsLedger(l) => Join(NoLedger, l) = l /\ Join(l, NoLedger) = l
<1>1. IsLedger(NoLedger) BY ShortLists DEF IsLedger, NoLedger
<1>2. ASSUME NEW l, IsLedger(l) PROVE Join(NoLedger, l) = l /\ Join(l, NoLedger) = l
    <2>1. \A s : IsList(s) => s \o <<>> = s /\ <<>> \o s = s BY DEF IsList
    <2>. QED BY <1>2, <2>1 DEF IsLedger, Join, NoLedger
<1>. QED BY <1>1, <1>2

(* Two ledgers joined are a ledger. *)
LEMMA JoinIsLedger ==
    ASSUME NEW l, NEW m, IsLedger(l), IsLedger(m) PROVE IsLedger(Join(l, m))
BY ListsJoin DEF IsLedger, Join

(* No statements say nothing new. *)
LEMMA NothingSays == \A p : ListSays(<<>>, p, p, NoLedger)
<1>1. SUFFICES ASSUME NEW t, IsTables(t)
               PROVE  Gives(t, Batch(t, <<>>), Positions(t.options), NoLedger)
    BY DEF ListSays
<1>2. \A s : IsList(s) => s \o <<>> = s BY DEF IsList
<1>. QED BY <1>1, <1>2, BatchEmpty, TableLists DEF Gives, NoLedger

(* What two lists of statements say one after the other. *)
LEMMA JoinedSays ==
    ASSUME NEW ss, NEW tt, IsList(ss), IsList(tt), NEW p, NEW p2, NEW p3,
           NEW l, NEW m, IsLedger(l), IsLedger(m),
           ListSays(ss, p, p2, l), ListSays(tt, p2, p3, m)
    PROVE  ListSays(ss \o tt, p, p3, Join(l, m))
<1>1. SUFFICES ASSUME NEW t, IsTables(t), Positions(t.options) = p
               PROVE  Gives(t, Batch(t, ss \o tt), p3, Join(l, m))
    BY DEF ListSays
<1>2. PICK u : u = Batch(t, ss) OBVIOUS
<1>3. PICK v : v = Batch(u, tt) OBVIOUS
<1>4. Batch(t, ss \o tt) = v
    <2>1. PICK S : ss \in Seq(S) /\ tt \in Seq(S) BY ListsTogether
    <2>. QED BY <1>2, <1>3, <2>1, BatchConcat
<1>5. Gives(t, u, p2, l) BY <1>1, <1>2 DEF ListSays
<1>6. Gives(u, v, p3, m) BY <1>3, <1>5 DEF ListSays, Gives
<1>0. IsList(l.fees) /\ IsList(m.fees) /\ IsList(l.transfers) /\ IsList(m.transfers)
      /\ IsList(l.swaps) /\ IsList(m.swaps)
    BY DEF IsLedger
<1>a. IsList(t.fees) /\ IsList(t.transfers) /\ IsList(t.swaps) /\ IsList(Real(t.fees))
    BY <1>1, TableLists
<1>8. Real(v.fees) = Real(t.fees) \o (l.fees \o m.fees)
    <2>1. Associate(Real(t.fees), l.fees, m.fees)
        BY <1>0, <1>a, ListsAssociate
    <2>. QED BY <1>5, <1>6, <2>1 DEF Gives, Associate
<1>9. v.transfers = t.transfers \o (l.transfers \o m.transfers)
    <2>1. Associate(t.transfers, l.transfers, m.transfers)
        BY <1>0, <1>a, ListsAssociate
    <2>. QED BY <1>5, <1>6, <2>1 DEF Gives, Associate
<1>10. v.swaps = t.swaps \o (l.swaps \o m.swaps)
    <2>1. Associate(t.swaps, l.swaps, m.swaps)
        BY <1>0, <1>a, ListsAssociate
    <2>. QED BY <1>5, <1>6, <2>1 DEF Gives, Associate
<1>. QED BY <1>4, <1>6, <1>8, <1>9, <1>10 DEF Gives, Join

(* ---- single statements ---- *)

(* What storing a row says. *)
LEMMA StoresSays ==
    ASSUME NEW t, NEW u, NEW id, NEW row, IsTables(t), Stores(t, u, id, row)
    PROVE  Gives(t, u, Put(Positions(t.options), id, Position(row)), NoLedger)
<1>1. Positions(u.options) = Put(Positions(t.options), id, Position(row))
    BY DEF Stores, Put, Positions
<1>2. \A s : IsList(s) => s \o <<>> = s BY DEF IsList
<1>. QED BY <1>1, <1>2, TableLists DEF Stores, Gives, NoLedger

(* A list of one statement says what the statement does. *)
LEMMA OneSays ==
    ASSUME NEW s, NEW p, NEW p2, NEW l,
           \A t : IsTables(t) /\ Positions(t.options) = p => Gives(t, Do(t, s), p2, l)
    PROVE  ListSays(<<s>>, p, p2, l)
BY BatchOne DEF ListSays

(* INSERT OR IGNORE of a new option says its position. *)
LEMMA InsertOptionSays ==
    ASSUME NEW p, NEW id, id \notin DOMAIN p, NEW row, IsRow(row)
    PROVE  ListSays(<<InsertOption(id, row)>>, p, Put(p, id, Position(row)), NoLedger)
<1>1. SUFFICES ASSUME NEW t, IsTables(t), Positions(t.options) = p
               PROVE Gives(t, Do(t, InsertOption(id, row)), Put(p, id, Position(row)), NoLedger)
    BY OneSays
<1>2. id \notin DOMAIN t.options BY <1>1 DEF Positions
<1>. QED BY <1>1, <1>2, InsertStores, StoresSays

(* UPDATE of a status moves the option. *)
LEMMA StatusSays ==
    ASSUME NEW p, NEW id \in DOMAIN p, NEW v, NEW b, NEW n
    PROVE  ListSays(<<UpdateStatus(id, v, b, n)>>, p,
                    Put(p, id, [writer |-> p[id].writer, buyer |-> Coalesce(b, p[id].buyer),
                                status |-> v]), NoLedger)
<1>. DEFINE q == [writer |-> p[id].writer, buyer |-> Coalesce(b, p[id].buyer), status |-> v]
<1>1. SUFFICES ASSUME NEW t, IsTables(t), Positions(t.options) = p
               PROVE Gives(t, Do(t, UpdateStatus(id, v, b, n)), Put(p, id, q), NoLedger)
    BY OneSays
<1>2. id \in DOMAIN t.options /\ p[id].writer = t.options[id].writer
      /\ p[id].buyer = t.options[id].buyer
    BY <1>1 DEF Positions, Position
<1>3. PICK row : Stores(t, Do(t, UpdateStatus(id, v, b, n)), id, row) /\ Position(row) = q
    BY <1>1, <1>2, StatusStores
<1>. QED BY <1>1, <1>3, StoresSays

(* UPDATE of a buyer hands the option on. *)
LEMMA BuyerSays ==
    ASSUME NEW p, NEW id \in DOMAIN p, NEW b, NEW n
    PROVE  ListSays(<<UpdateBuyer(id, b, n)>>, p,
                    Put(p, id, [writer |-> p[id].writer, buyer |-> b,
                                status |-> p[id].status]), NoLedger)
<1>. DEFINE q == [writer |-> p[id].writer, buyer |-> b, status |-> p[id].status]
<1>1. SUFFICES ASSUME NEW t, IsTables(t), Positions(t.options) = p
               PROVE Gives(t, Do(t, UpdateBuyer(id, b, n)), Put(p, id, q), NoLedger)
    BY OneSays
<1>2. id \in DOMAIN t.options /\ p[id].writer = t.options[id].writer
      /\ p[id].status = t.options[id].status
    BY <1>1 DEF Positions, Position
<1>3. PICK row : Stores(t, Do(t, UpdateBuyer(id, b, n)), id, row) /\ Position(row) = q
    BY <1>1, <1>2, BuyerStores
<1>. QED BY <1>1, <1>3, StoresSays

(* INSERT of a fee, a transfer or a swap says that row. *)
LEMMA InsertSays ==
    ASSUME NEW p, NEW row
    PROVE  /\ ListSays(<<Insert("fees", row)>>, p, p,
                IF row.amount = EscrowHash THEN NoLedger ELSE Fees(<<row>>))
           /\ ListSays(<<Insert("transfers", row)>>, p, p,
                [NoLedger EXCEPT !.transfers = <<row>>])
           /\ ListSays(<<Insert("swaps", row)>>, p, p, [NoLedger EXCEPT !.swaps = <<row>>])
<1>1. \A s : IsList(s) => s \o <<>> = s /\ Append(s, row) = s \o <<row>> BY DEF IsList
<1>2. ASSUME NEW t, IsTables(t), Positions(t.options) = p
      PROVE  /\ Gives(t, Do(t, Insert("fees", row)), p,
                      IF row.amount = EscrowHash THEN NoLedger ELSE Fees(<<row>>))
             /\ Gives(t, Do(t, Insert("transfers", row)), p,
                      [NoLedger EXCEPT !.transfers = <<row>>])
             /\ Gives(t, Do(t, Insert("swaps", row)), p, [NoLedger EXCEPT !.swaps = <<row>>])
    <2>0. IsList(t.fees) /\ IsList(t.transfers) /\ IsList(t.swaps) /\ IsList(Real(t.fees))
        BY <1>2, TableLists
    <2>1. PICK u : u = Do(t, Insert("fees", row)) OBVIOUS
    <2>2. PICK v : v = Do(t, Insert("transfers", row)) OBVIOUS
    <2>3. PICK w : w = Do(t, Insert("swaps", row)) OBVIOUS
    <2>4. Adds(t, u, "fees", row) /\ Adds(t, v, "transfers", row) /\ Adds(t, w, "swaps", row)
        BY <1>2, <2>1, <2>2, <2>3, InsertAdds DEF Lists
    <2>5. IsTables(u) /\ u.options = t.options /\ u.fees = Append(t.fees, row)
          /\ u.transfers = t.transfers /\ u.swaps = t.swaps
        BY <2>4 DEF Adds, Lists
    <2>6. IsTables(v) /\ v.options = t.options /\ v.fees = t.fees
          /\ v.transfers = Append(t.transfers, row) /\ v.swaps = t.swaps
        BY <2>4 DEF Adds, Lists
    <2>7. IsTables(w) /\ w.options = t.options /\ w.fees = t.fees
          /\ w.transfers = t.transfers /\ w.swaps = Append(t.swaps, row)
        BY <2>4 DEF Adds, Lists
    <2>8. Real(u.fees) = IF row.amount = EscrowHash THEN Real(t.fees)
                         ELSE Append(Real(t.fees), row)
        BY <2>0, <2>5, RealIsList
    <2>. QED BY <1>1, <1>2, <2>0, <2>1, <2>2, <2>3, <2>5, <2>6, <2>7, <2>8
             DEF Gives, NoLedger, Fees
<1>. QED BY <1>2, OneSays

(* ---- decoding ---- *)

(* The fee part of a handler is a list of statements. *)
LEMMA FeeInsertIsList ==
    ASSUME NEW e, NEW n, NEW kind, NEW amount PROVE IsList(FeeInsert(e, n, kind, amount))
BY ShortLists DEF FeeInsert

(* Every event decodes to a list of statements. *)
LEMMA EventIsList ==
    ASSUME NEW e, NEW n, NEW pools, NEW g PROVE IsList(DecodeEvent(e, n, pools, g))
<1>. DEFINE d == e.data
<1>1. IsList(HandleWritten(d, n, g)) /\ IsList(HandleWrittenBtc(d, n, g))
      /\ IsList(HandleSettled(d, n)) /\ IsList(HandleTransferred(d, n))
      /\ IsList(HandleOptionReserved(d, n)) /\ IsList(HandleReservationExecuted(d, n))
      /\ IsList(HandleReservationCancelled(d, n)) /\ IsList(HandleSwapExecuted(d, n))
      /\ IsList(<<>>)
    BY ShortLists DEF HandleWritten, HandleWrittenBtc, HandleSettled, HandleTransferred,
       HandleOptionReserved, HandleReservationExecuted, HandleReservationCancelled,
       HandleSwapExecuted
<1>2. IsList(HandleCancelled(d, n)) /\ IsList(HandlePurchased(d, n))
      /\ IsList(HandleExercised(d, n))
    BY ShortLists, FeeInsertIsList, ListsJoin
       DEF HandleCancelled, HandlePurchased, HandleExercised
<1>3. IsList(DecodePoolEvent(e, n, g)) BY <1>1, <1>2 DEF DecodePoolEvent
<1>. QED BY <1>1, <1>3 DEF DecodeEvent

(* A block with one event more decodes to its statements more. *)
LEMMA DecodeAppend ==
    ASSUME NEW evs, IsList(evs), NEW e, NEW n, NEW pools, NEW g
    PROVE  /\ IsList(DecodeBlock(evs, n, pools, g))
           /\ DecodeBlock(Append(evs, e), n, pools, g)
                = DecodeBlock(evs, n, pools, g) \o DecodeEvent(e, n, pools, g)
<1>. DEFINE x(r) == DecodeEvent(r, n, pools, g)
            R(f) == [k \in DOMAIN f |-> x(f[k])]
<1>1. PICK S : evs \in Seq(S) BY DEF IsList
<1>. DEFINE U == UNION {ToSet(x(r)) : r \in S \cup {e}}
<1>2. \A r \in S \cup {e} : x(r) \in Seq(U)
    <2>1. SUFFICES ASSUME NEW r \in S \cup {e} PROVE x(r) \in Seq(U) OBVIOUS
    <2>2. x(r) \in Seq(ToSet(x(r))) BY EventIsList, OwnElements
    <2>3. ToSet(x(r)) \subseteq U OBVIOUS
    <2>. HIDE DEF U, x
    <2>4. PICK y, T : y = x(r) /\ T = ToSet(x(r)) OBVIOUS
    <2>5. y \in Seq(T) /\ T \subseteq U BY <2>2, <2>3, <2>4
    <2>6. y \in Seq(U) BY <2>5
    <2>. QED BY <2>4, <2>6
<1>. HIDE DEF x, U
<1>3. R(evs) \in Seq(Seq(U))
    <2>1. \A k \in 1 .. Len(evs) : evs[k] \in S BY <1>1
    <2>2. R(evs) = [k \in 1 .. Len(evs) |-> x(evs[k])] /\ Len(evs) \in Nat BY <1>1
    <2>3. \A k \in 1 .. Len(evs) : x(evs[k]) \in Seq(U) BY <1>2, <2>1
    <2>. HIDE DEF R
    <2>. QED BY <2>2, <2>3
<1>4. R(Append(evs, e)) = Append(R(evs), x(e)) BY <1>1
<1>. HIDE DEF R
<1>5. FlattenSeq(R(evs)) \in Seq(U)
      /\ FlattenSeq(Append(R(evs), x(e))) = FlattenSeq(R(evs)) \o x(e)
    BY <1>2, <1>3, FlattenAppend
<1>6. \A f : DecodeBlock(f, n, pools, g) = FlattenSeq(R(f)) BY DEF DecodeBlock, R, x
<1>. QED BY <1>4, <1>5, <1>6 DEF IsList, x

(* A block without events decodes to nothing. *)
LEMMA DecodeEmpty ==
    \A n, pools, g : DecodeBlock(<<>>, n, pools, g) = <<>>
BY FlattenEmpty DEF DecodeBlock

(* ---- what a statement may say of a block ---- *)

(* A statement block n may make: its own book or ledger bears it out. *)
Told(s, blk, n) ==
    \/ /\ s.op = "insertOption"
       /\ s.id \in DOMAIN blk.book
       /\ IsRow(s.row) /\ Position(s.row) = Position(blk.book[s.id])
    \/ /\ s.op = "updateStatus"
       /\ s.id \in DOMAIN blk.book
       /\ s.status = blk.book[s.id].status
       /\ s.buyer = NULL \/ s.buyer = blk.book[s.id].buyer
    \/ /\ s.op = "updateBuyer"
       /\ s.id \in DOMAIN blk.book
       /\ s.buyer = blk.book[s.id].buyer
    \/ /\ s.op = "insert"
       /\ s.table \in Lists
       /\ s.table = "fees" => \/ s.row.amount = EscrowHash
                              \/ s.row.block = n /\ s.row \in ToSet(blk.fees)
AllTold(ss, blk, n) == IsList(ss) /\ \A k \in DOMAIN ss : Told(ss[k], blk, n)

(* Statements a block may make, one list after the other. *)
LEMMA ToldJoins ==
    ASSUME NEW ss, NEW tt, NEW blk, NEW n, AllTold(ss, blk, n), AllTold(tt, blk, n)
    PROVE  AllTold(ss \o tt, blk, n)
<1>1. PICK S : ss \in Seq(S) /\ tt \in Seq(S) BY ListsTogether DEF AllTold
<1>2. ss \o tt \in Seq(S) BY <1>1
<1>3. ASSUME NEW k \in DOMAIN (ss \o tt) PROVE Told((ss \o tt)[k], blk, n)
    <2>1. CASE k <= Len(ss)
        <3>1. k \in DOMAIN ss /\ (ss \o tt)[k] = ss[k] BY <1>1, <1>3, <2>1
        <3>. QED BY <3>1 DEF AllTold
    <2>2. CASE ~(k <= Len(ss))
        <3>1. k - Len(ss) \in DOMAIN tt /\ (ss \o tt)[k] = tt[k - Len(ss)]
            BY <1>1, <1>3, <2>2
        <3>. QED BY <3>1 DEF AllTold
    <2>. QED BY <2>1, <2>2
<1>. QED BY <1>2, <1>3 DEF AllTold, IsList

(* The same for at most two statements. *)
LEMMA ShortTold ==
    ASSUME NEW blk, NEW n
    PROVE  /\ AllTold(<<>>, blk, n)
           /\ \A s : Told(s, blk, n) => AllTold(<<s>>, blk, n)
           /\ \A s, t : Told(s, blk, n) /\ Told(t, blk, n) => AllTold(<<s, t>>, blk, n)
BY ShortLists DEF AllTold

(* A block may make the statements its own book bears out. *)
LEMMA StatementsTold ==
    ASSUME NEW blk, NEW n, NEW id \in DOMAIN blk.book
    PROVE  /\ \A row : IsRow(row) /\ Position(row) = Position(blk.book[id])
                          => Told(InsertOption(id, row), blk, n)
           /\ \A v, b : v = blk.book[id].status /\ (b = NULL \/ b = blk.book[id].buyer)
                          => Told(UpdateStatus(id, v, b, n), blk, n)
           /\ \A b : b = blk.book[id].buyer => Told(UpdateBuyer(id, b, n), blk, n)
BY DEF Told, InsertOption, UpdateStatus, UpdateBuyer

(* A block may make the rows it has itself. *)
LEMMA InsertsTold ==
    ASSUME NEW blk, NEW n, NEW row
    PROVE  /\ Told(Insert("transfers", row), blk, n) /\ Told(Insert("swaps", row), blk, n)
           /\ row.amount = EscrowHash \/ (row.block = n /\ row \in ToSet(blk.fees))
                => Told(Insert("fees", row), blk, n)
BY DEF Told, Insert, Lists

(* ---- events and blocks ---- *)

(* What an event, or a block of events, says and may make. *)
EventSays(e, n, p, p2, l) == \A g : ListSays(DecodeEvent(e, n, Tracked, g), p, p2, l)
EventTold(e, n, blk) ==
    \A pools \in SUBSET Tracked : \A g : AllTold(DecodeEvent(e, n, pools, g), blk, n)

BlockSays(evs, n, p, p2, l) == \A g : ListSays(DecodeBlock(evs, n, Tracked, g), p, p2, l)
BlockTold(evs, n, blk) ==
    \A pools \in SUBSET Tracked : \A g : AllTold(DecodeBlock(evs, n, pools, g), blk, n)

(* A block without events says nothing and makes nothing up. *)
LEMMA EmptyBlock ==
    ASSUME NEW n, NEW p, NEW blk
    PROVE  BlockSays(<<>>, n, p, p, NoLedger) /\ BlockTold(<<>>, n, blk)
BY DecodeEmpty, NothingSays, ShortTold DEF BlockSays, BlockTold

(* What a block with one event more says. *)
LEMMA LongerBlock ==
    ASSUME NEW evs, IsList(evs), NEW e, NEW n, NEW p, NEW p2, NEW p3, NEW l, NEW m,
           IsLedger(l), IsLedger(m),
           BlockSays(evs, n, p, p2, l), EventSays(e, n, p2, p3, m)
    PROVE  BlockSays(Append(evs, e), n, p, p3, Join(l, m))
<1>1. SUFFICES ASSUME NEW g
               PROVE ListSays(DecodeBlock(Append(evs, e), n, Tracked, g), p, p3, Join(l, m))
    BY DEF BlockSays
<1>2. ListSays(DecodeBlock(evs, n, Tracked, g), p, p2, l)
      /\ ListSays(DecodeEvent(e, n, Tracked, g), p2, p3, m)
    BY DEF BlockSays, EventSays
<1>3. IsList(DecodeBlock(evs, n, Tracked, g)) /\ IsList(DecodeEvent(e, n, Tracked, g))
    BY DecodeAppend, EventIsList
<1>4. PICK ss, tt : ss = DecodeBlock(evs, n, Tracked, g) /\ tt = DecodeEvent(e, n, Tracked, g)
    OBVIOUS
<1>5. ListSays(ss \o tt, p, p3, Join(l, m)) BY <1>2, <1>3, <1>4, JoinedSays
<1>6. DecodeBlock(Append(evs, e), n, Tracked, g)
        = DecodeBlock(evs, n, Tracked, g) \o DecodeEvent(e, n, Tracked, g)
    BY DecodeAppend
<1>. QED BY <1>4, <1>5, <1>6

(* What a block with one event more may make. *)
LEMMA LongerTold ==
    ASSUME NEW evs, IsList(evs), NEW e, NEW n, NEW blk,
           BlockTold(evs, n, blk), EventTold(e, n, blk)
    PROVE  BlockTold(Append(evs, e), n, blk)
<1>1. SUFFICES ASSUME NEW pools \in SUBSET Tracked, NEW g
               PROVE AllTold(DecodeBlock(Append(evs, e), n, pools, g), blk, n)
    BY DEF BlockTold
<1>2. PICK ss, tt : ss = DecodeBlock(evs, n, pools, g) /\ tt = DecodeEvent(e, n, pools, g)
    OBVIOUS
<1>3. AllTold(ss, blk, n) /\ AllTold(tt, blk, n) BY <1>2 DEF BlockTold, EventTold
<1>4. AllTold(ss \o tt, blk, n) BY <1>3, ToldJoins
<1>5. DecodeBlock(Append(evs, e), n, pools, g)
        = DecodeBlock(evs, n, pools, g) \o DecodeEvent(e, n, pools, g)
    BY DecodeAppend
<1>. QED BY <1>2, <1>4, <1>5

(* An event of the pool, when this run could resolve the pool. *)
LEMMA PoolEventDecodes ==
    ASSUME NEW type, type # "SwapExecuted", NEW data, NEW n, NEW pools, NEW g
    PROVE  DecodeEvent(PoolEvent(type, data), n, pools, g)
             = IF "pool" \in pools THEN DecodePoolEvent(PoolEvent(type, data), n, g)
               ELSE <<>>
BY DEF DecodeEvent, PoolEvent, Event

(* An event of the pool says what its handler's statements say. *)
LEMMA PoolEventMeans ==
    ASSUME NEW type, type # "SwapExecuted", NEW data, NEW n, NEW p, NEW p2, NEW l, NEW blk,
           \A g : LET ss == DecodePoolEvent(PoolEvent(type, data), n, g) IN
                  ListSays(ss, p, p2, l) /\ AllTold(ss, blk, n)
    PROVE  EventSays(PoolEvent(type, data), n, p, p2, l)
           /\ EventTold(PoolEvent(type, data), n, blk)
BY PoolEventDecodes, ShortTold, ConfigAssumption DEF EventSays, EventTold

(* ---- what each event says ---- *)

(* An option moved to status v; the fee its event pays. *)
Moved(p, id, b, v) ==
    Put(p, id, [writer |-> p[id].writer, buyer |-> Coalesce(b, p[id].buyer), status |-> v])
PaidFee(id, kind, amount, n) ==
    IF amount \in {0, EscrowHash} THEN NoLedger
    ELSE Fees(<<[id |-> id, kind |-> kind, amount |-> amount, block |-> n]>>)

(* Ledgers of one row. *)
LEMMA RowLedgers ==
    \A row : /\ IsLedger(Fees(<<row>>))
             /\ IsLedger([NoLedger EXCEPT !.transfers = <<row>>])
             /\ IsLedger([NoLedger EXCEPT !.swaps = <<row>>])
<1>1. ASSUME NEW x, IsList(x)
      PROVE  /\ IsLedger(Fees(x)) /\ IsLedger([NoLedger EXCEPT !.transfers = x])
             /\ IsLedger([NoLedger EXCEPT !.swaps = x])
    <2>1. Fees(x) = [fees |-> x, transfers |-> <<>>, swaps |-> <<>>] BY DEF Fees, NoLedger
    <2>2. [NoLedger EXCEPT !.transfers = x] = [fees |-> <<>>, transfers |-> x, swaps |-> <<>>]
        BY DEF NoLedger
    <2>3. [NoLedger EXCEPT !.swaps = x] = [fees |-> <<>>, transfers |-> <<>>, swaps |-> x]
        BY DEF NoLedger
    <2>. QED BY <1>1, <2>1, <2>2, <2>3, ShortLists DEF IsLedger
<1>. QED BY <1>1, ShortLists

(* The ledger of a fee. *)
LEMMA PaidFeeIsLedger ==
    ASSUME NEW id, NEW kind, NEW amount, NEW n PROVE IsLedger(PaidFee(id, kind, amount, n))
BY RowLedgers, NoLedgerIs DEF PaidFee

(* A handler's fee row says the fee, unless none was paid. *)
LEMMA FeeInsertSays ==
    ASSUME NEW p, NEW e, NEW n, NEW kind, NEW amount
    PROVE  ListSays(FeeInsert(e, n, kind, amount), p, p, PaidFee(e.id, kind, amount, n))
<1>1. CASE amount = 0
    BY <1>1, NothingSays DEF FeeInsert, PaidFee
<1>2. CASE amount # 0
    <2>1. PICK row : row = [id |-> e.id, kind |-> kind, amount |-> amount, block |-> n]
        OBVIOUS
    <2>2. row.amount = amount BY <2>1
    <2>3. FeeInsert(e, n, kind, amount) = <<Insert("fees", row)>> BY <1>2, <2>1 DEF FeeInsert
    <2>4. PaidFee(e.id, kind, amount, n) = IF row.amount = EscrowHash THEN NoLedger
                                         ELSE Fees(<<row>>)
        BY <1>2, <2>1, <2>2 DEF PaidFee
    <2>. QED BY <2>3, <2>4, InsertSays
<1>. QED BY <1>1, <1>2

(* A status event with a fee moves the option and says the fee. *)
LEMMA MoveSays ==
    ASSUME NEW p, NEW e, e.id \in DOMAIN p, NEW v, NEW b, NEW n, NEW kind, NEW amount
    PROVE  ListSays(<<UpdateStatus(e.id, v, b, n)>> \o FeeInsert(e, n, kind, amount),
                    p, Moved(p, e.id, b, v), PaidFee(e.id, kind, amount, n))
<1>1. PICK ss, tt, l : ss = <<UpdateStatus(e.id, v, b, n)>>
                       /\ tt = FeeInsert(e, n, kind, amount)
                       /\ l = PaidFee(e.id, kind, amount, n)
    OBVIOUS
<1>2. ListSays(ss, p, Moved(p, e.id, b, v), NoLedger) BY <1>1, StatusSays DEF Moved
<1>3. ListSays(tt, Moved(p, e.id, b, v), Moved(p, e.id, b, v), l) BY <1>1, FeeInsertSays
<1>4. IsList(ss) /\ IsList(tt) /\ IsLedger(l) /\ IsLedger(NoLedger)
    BY <1>1, ShortLists, FeeInsertIsList, PaidFeeIsLedger, NoLedgerIs
<1>5. ListSays(ss \o tt, p, Moved(p, e.id, b, v), Join(NoLedger, l))
    BY <1>2, <1>3, <1>4, JoinedSays
<1>6. Join(NoLedger, l) = l BY <1>4, NoLedgerIs
<1>. QED BY <1>1, <1>5, <1>6

(* Its statements are the block's own. *)
LEMMA MoveTold ==
    ASSUME NEW blk, NEW e, e.id \in DOMAIN blk.book, NEW n, NEW kind, NEW amount,
           NEW v, v = blk.book[e.id].status, NEW b, b = NULL \/ b = blk.book[e.id].buyer,
           \/ amount \in {0, EscrowHash}
           \/ [id |-> e.id, kind |-> kind, amount |-> amount, block |-> n] \in ToSet(blk.fees)
    PROVE  AllTold(<<UpdateStatus(e.id, v, b, n)>> \o FeeInsert(e, n, kind, amount), blk, n)
<1>1. AllTold(<<UpdateStatus(e.id, v, b, n)>>, blk, n) BY StatementsTold, ShortTold
<1>2. AllTold(FeeInsert(e, n, kind, amount), blk, n)
    <2>1. CASE amount = 0 BY <2>1, ShortTold DEF FeeInsert
    <2>2. CASE amount # 0
        <3>1. PICK row : row = [id |-> e.id, kind |-> kind, amount |-> amount, block |-> n]
            OBVIOUS
        <3>2. row.amount = amount /\ row.block = n BY <3>1
        <3>3. Told(Insert("fees", row), blk, n) BY <2>2, <3>1, <3>2, InsertsTold
        <3>4. FeeInsert(e, n, kind, amount) = <<Insert("fees", row)>>
            BY <2>2, <3>1 DEF FeeInsert
        <3>. QED BY <3>3, <3>4, ShortTold
    <2>. QED BY <2>1, <2>2
<1>. QED BY <1>1, <1>2, ToldJoins

(* The events of a new option. *)
WrittenTypes == {"OptionWritten", "OptionWrittenBtc"}

(* OptionWritten and OptionWrittenBtc say the new, open option. *)
LEMMA WrittenMeans ==
    ASSUME NEW type \in WrittenTypes, NEW p, NEW id, id \notin DOMAIN p, NEW w, NEW n, NEW blk,
           id \in DOMAIN blk.book,
           Position(blk.book[id]) = [writer |-> w, buyer |-> NULL, status |-> OPEN]
    PROVE  LET e == PoolEvent(type, [id |-> id, writer |-> w]) IN
           /\ EventSays(e, n, p, Put(p, id, [writer |-> w, buyer |-> NULL, status |-> OPEN]),
                        NoLedger)
           /\ EventTold(e, n, blk)
<1>. DEFINE data == [id |-> id, writer |-> w]
            e == PoolEvent(type, data)
            row(g) == [writer |-> w, buyer |-> NULL, status |-> OPEN,
                       created |-> n, updated |-> 0, grace |-> g]
            q == [writer |-> w, buyer |-> NULL, status |-> OPEN]
<1>1. \A g : row(g) \in RowSet({w, NULL, OPEN, n, 0, g}) BY DEF RowSet
<1>2. \A g : IsRow(row(g)) /\ Position(row(g)) = q BY <1>1 DEF IsRow, Position
<1>3. \A g : DecodePoolEvent(e, n, g) = <<InsertOption(id, row(g))>>
    BY DEF DecodePoolEvent, PoolEvent, Event, HandleWritten, HandleWrittenBtc, WrittenTypes
<1>. HIDE DEF row, q
<1>4. \A g : ListSays(<<InsertOption(id, row(g))>>, p, Put(p, id, q), NoLedger)
    BY <1>2, InsertOptionSays
<1>5. \A g : AllTold(<<InsertOption(id, row(g))>>, blk, n)
    BY <1>2, StatementsTold, ShortTold DEF q
<1>6. type # "SwapExecuted" BY DEF WrittenTypes
<1>. HIDE DEF data
<1>. QED BY <1>3, <1>4, <1>5, <1>6, PoolEventMeans DEF q, data

(* OptionCancelled says the cancelled option and the fee it paid. *)
LEMMA CancelledMeans ==
    ASSUME NEW d, NEW p, d.id \in DOMAIN p, NEW n, NEW blk,
           d.id \in DOMAIN blk.book, blk.book[d.id].status = CANCELLED,
           \/ d.fourth \in {0, EscrowHash}
           \/ [id |-> d.id, kind |-> "cancel", amount |-> d.fourth, block |-> n] \in ToSet(blk.fees)
    PROVE  /\ EventSays(PoolEvent("OptionCancelled", d), n, p, Moved(p, d.id, NULL, CANCELLED),
                        PaidFee(d.id, "cancel", d.fourth, n))
           /\ EventTold(PoolEvent("OptionCancelled", d), n, blk)
<1>1. \A g : DecodePoolEvent(PoolEvent("OptionCancelled", d), n, g)
               = <<UpdateStatus(d.id, CANCELLED, NULL, n)>> \o FeeInsert(d, n, "cancel", d.fourth)
    BY DEF DecodePoolEvent, PoolEvent, Event, HandleCancelled
<1>2. ListSays(<<UpdateStatus(d.id, CANCELLED, NULL, n)>> \o FeeInsert(d, n, "cancel", d.fourth),
               p, Moved(p, d.id, NULL, CANCELLED), PaidFee(d.id, "cancel", d.fourth, n))
    BY MoveSays
<1>3. AllTold(<<UpdateStatus(d.id, CANCELLED, NULL, n)>> \o FeeInsert(d, n, "cancel", d.fourth),
              blk, n)
    BY MoveTold
<1>. QED BY <1>1, <1>2, <1>3, PoolEventMeans

(* OptionPurchased says the sold option and the premium's fee. *)
LEMMA PurchasedMeans ==
    ASSUME NEW d, NEW p, d.id \in DOMAIN p, NEW n, NEW blk,
           d.id \in DOMAIN blk.book, blk.book[d.id].status = PURCHASED,
           blk.book[d.id].buyer = d.buyer, NEW fee, SaleFee(d) = fee,
           \/ fee = 0
           \/ [id |-> d.id, kind |-> "buy", amount |-> fee, block |-> n] \in ToSet(blk.fees)
    PROVE  /\ EventSays(PoolEvent("OptionPurchased", d), n, p,
                        Moved(p, d.id, d.buyer, PURCHASED), PaidFee(d.id, "buy", fee, n))
           /\ EventTold(PoolEvent("OptionPurchased", d), n, blk)
<1>1. \A g : DecodePoolEvent(PoolEvent("OptionPurchased", d), n, g)
               = <<UpdateStatus(d.id, PURCHASED, d.buyer, n)>> \o FeeInsert(d, n, "buy", fee)
    BY DEF DecodePoolEvent, PoolEvent, Event, HandlePurchased
<1>2. ListSays(<<UpdateStatus(d.id, PURCHASED, d.buyer, n)>> \o FeeInsert(d, n, "buy", fee),
               p, Moved(p, d.id, d.buyer, PURCHASED), PaidFee(d.id, "buy", fee, n))
    BY MoveSays
<1>3. AllTold(<<UpdateStatus(d.id, PURCHASED, d.buyer, n)>> \o FeeInsert(d, n, "buy", fee),
              blk, n)
    BY MoveTold
<1>. QED BY <1>1, <1>2, <1>3, PoolEventMeans

(* OptionExercised says the exercised option and its fee. *)
LEMMA ExercisedMeans ==
    ASSUME NEW d, NEW p, d.id \in DOMAIN p, NEW n, NEW blk,
           d.id \in DOMAIN blk.book, blk.book[d.id].status = EXERCISED,
           \/ d.fee = 0
           \/ [id |-> d.id, kind |-> "exercise", amount |-> d.fee, block |-> n] \in ToSet(blk.fees)
    PROVE  /\ EventSays(PoolEvent("OptionExercised", d), n, p, Moved(p, d.id, NULL, EXERCISED),
                        PaidFee(d.id, "exercise", d.fee, n))
           /\ EventTold(PoolEvent("OptionExercised", d), n, blk)
<1>1. \A g : DecodePoolEvent(PoolEvent("OptionExercised", d), n, g)
               = <<UpdateStatus(d.id, EXERCISED, NULL, n)>> \o FeeInsert(d, n, "exercise", d.fee)
    BY DEF DecodePoolEvent, PoolEvent, Event, HandleExercised
<1>2. ListSays(<<UpdateStatus(d.id, EXERCISED, NULL, n)>> \o FeeInsert(d, n, "exercise", d.fee),
               p, Moved(p, d.id, NULL, EXERCISED), PaidFee(d.id, "exercise", d.fee, n))
    BY MoveSays
<1>3. AllTold(<<UpdateStatus(d.id, EXERCISED, NULL, n)>> \o FeeInsert(d, n, "exercise", d.fee),
              blk, n)
    BY MoveTold
<1>. QED BY <1>1, <1>2, <1>3, PoolEventMeans

(* OptionExpired, OptionReserved and ReservationCancelled say a status. *)
LEMMA StatusEventMeans ==
    ASSUME NEW type, NEW v,
           \/ type = "OptionExpired" /\ v = EXPIRED
           \/ type = "OptionReserved" /\ v = RESERVED
           \/ type = "ReservationCancelled" /\ v = OPEN,
           NEW d, NEW p, d.id \in DOMAIN p, NEW n, NEW blk,
           d.id \in DOMAIN blk.book, blk.book[d.id].status = v
    PROVE  /\ EventSays(PoolEvent(type, d), n, p, Moved(p, d.id, NULL, v), NoLedger)
           /\ EventTold(PoolEvent(type, d), n, blk)
<1>1. \A g : DecodePoolEvent(PoolEvent(type, d), n, g) = <<UpdateStatus(d.id, v, NULL, n)>>
    BY DEF DecodePoolEvent, PoolEvent, Event, HandleSettled, HandleOptionReserved,
           HandleReservationCancelled
<1>2. ListSays(<<UpdateStatus(d.id, v, NULL, n)>>, p, Moved(p, d.id, NULL, v), NoLedger)
    BY StatusSays DEF Moved
<1>3. AllTold(<<UpdateStatus(d.id, v, NULL, n)>>, blk, n) BY StatementsTold, ShortTold
<1>4. type # "SwapExecuted" OBVIOUS
<1>. QED BY <1>1, <1>2, <1>3, <1>4, PoolEventMeans

(* The second position stored at an id is the one that stays. *)
LEMMA PutTwice ==
    \A p, id, q, r : /\ Put(Put(p, id, q), id, r) = Put(p, id, r)
                     /\ Put(p, id, q)[id] = q /\ id \in DOMAIN Put(p, id, q)
BY DEF Put

(* Two lists of one element concatenated. *)
LEMMA ConcatTwo == ASSUME NEW s, NEW t PROVE <<s>> \o <<t>> = <<s, t>>
<1>1. <<s>> \in Seq({s, t}) /\ <<t>> \in Seq({s, t}) /\ <<s, t>> \in Seq({s, t}) OBVIOUS
<1>2. Len(<<s, t>>) = 2 /\ <<s, t>>[1] = s /\ <<s, t>>[2] = t OBVIOUS
<1>3. PICK x2 \in Seq({s, t}) : x2 = <<s, t>> BY <1>1
<1>a. PICK a \in Seq({s, t}) : a = <<s>> BY <1>1
<1>b. PICK c \in Seq({s, t}) : c = <<t>> BY <1>1
<1>c. Len(a) = 1 /\ a[1] = s /\ Len(c) = 1 /\ c[1] = t BY <1>a, <1>b
<1>e. a \o c \in Seq({s, t}) BY <1>a, <1>b
<1>4. PICK y2 \in Seq({s, t}) : y2 = a \o c BY <1>e
<1>5. Len(y2) = 2 /\ y2[1] = s /\ y2[2] = t BY <1>a, <1>b, <1>c, <1>4
<1>d. y2 = <<s>> \o <<t>> BY <1>a, <1>b, <1>4
<1>6. Len(x2) = 2 /\ x2[1] = s /\ x2[2] = t BY <1>2, <1>3
<1>7. \A i \in 1 .. Len(x2) : x2[i] = y2[i] BY <1>5, <1>6
<1>8. x2 = y2 BY <1>5, <1>6, <1>7, SeqEqual
<1>. QED BY <1>3, <1>d, <1>8

(* What two statements say one after the other. *)
LEMMA PairSays ==
    ASSUME NEW s, NEW t, NEW p, NEW p2, NEW p3, NEW l, IsLedger(l),
           ListSays(<<s>>, p, p2, NoLedger), ListSays(<<t>>, p2, p3, l)
    PROVE  ListSays(<<s, t>>, p, p3, l)
<1>1. PICK x, y : x = <<s>> /\ y = <<t>> OBVIOUS
<1>2. ListSays(x \o y, p, p3, Join(NoLedger, l))
    BY <1>1, ShortLists, NoLedgerIs, JoinedSays
<1>3. <<s>> \o <<t>> = <<s, t>> BY ConcatTwo
<1>. QED BY <1>1, <1>2, <1>3, NoLedgerIs

(* ReservationExecuted says the option sold to who reserved it. *)
LEMMA ExecutedMeans ==
    ASSUME NEW d, NEW p, d.id \in DOMAIN p, NEW n, NEW blk,
           d.id \in DOMAIN blk.book, blk.book[d.id].status = PURCHASED,
           blk.book[d.id].buyer = d.buyer
    PROVE  /\ EventSays(PoolEvent("ReservationExecuted", d), n, p,
                  Put(p, d.id, [writer |-> p[d.id].writer, buyer |-> d.buyer,
                                status |-> PURCHASED]), NoLedger)
           /\ EventTold(PoolEvent("ReservationExecuted", d), n, blk)
<1>. DEFINE s == UpdateStatus(d.id, PURCHASED, d.buyer, n)
            t == UpdateBuyer(d.id, d.buyer, n)
            p2 == Moved(p, d.id, d.buyer, PURCHASED)
            q == [writer |-> p[d.id].writer, buyer |-> d.buyer, status |-> PURCHASED]
<1>1. \A g : DecodePoolEvent(PoolEvent("ReservationExecuted", d), n, g) = <<s, t>>
    BY DEF DecodePoolEvent, PoolEvent, Event, HandleReservationExecuted
<1>2. ListSays(<<s>>, p, p2, NoLedger) BY StatusSays DEF Moved
<1>3. d.id \in DOMAIN p2 /\ p2[d.id].writer = p[d.id].writer /\ p2[d.id].status = PURCHASED
    BY PutTwice DEF Moved
<1>4. Put(p2, d.id, q) = Put(p, d.id, q) BY PutTwice DEF Moved
<1>. HIDE DEF p2
<1>5. ListSays(<<t>>, p2, Put(p2, d.id, q), NoLedger) BY <1>3, BuyerSays
<1>6. Told(s, blk, n) /\ Told(t, blk, n) BY StatementsTold
<1>. HIDE DEF s, t, q
<1>7. ListSays(<<s, t>>, p, Put(p, d.id, q), NoLedger)
    BY <1>2, <1>4, <1>5, PairSays, NoLedgerIs
<1>8. AllTold(<<s, t>>, blk, n) BY <1>6, ShortTold
<1>9. PICK ss : ss = <<s, t>> OBVIOUS
<1>10. \A g : DecodePoolEvent(PoolEvent("ReservationExecuted", d), n, g) = ss BY <1>1, <1>9
<1>11. ListSays(ss, p, Put(p, d.id, q), NoLedger) /\ AllTold(ss, blk, n) BY <1>7, <1>8, <1>9
<1>. QED BY <1>10, <1>11, PoolEventMeans DEF q

(* OptionTransferred says the new holder and the transfer. *)
LEMMA TransferredMeans ==
    ASSUME NEW d, NEW p, d.id \in DOMAIN p, NEW n, NEW blk,
           d.id \in DOMAIN blk.book, blk.book[d.id].buyer = d.to
    PROVE  /\ EventSays(PoolEvent("OptionTransferred", d), n, p,
                  Put(p, d.id, [writer |-> p[d.id].writer, buyer |-> d.to,
                                status |-> p[d.id].status]),
                  [NoLedger EXCEPT !.transfers =
                      <<[id |-> d.id, from |-> d.from, to |-> d.to, block |-> n]>>])
           /\ EventTold(PoolEvent("OptionTransferred", d), n, blk)
<1>. DEFINE s == UpdateBuyer(d.id, d.to, n)
            row == [id |-> d.id, from |-> d.from, to |-> d.to, block |-> n]
            t == Insert("transfers", row)
            p2 == Put(p, d.id, [writer |-> p[d.id].writer, buyer |-> d.to,
                                status |-> p[d.id].status])
            l == [NoLedger EXCEPT !.transfers = <<row>>]
<1>1. \A g : DecodePoolEvent(PoolEvent("OptionTransferred", d), n, g) = <<s, t>>
    BY DEF DecodePoolEvent, PoolEvent, Event, HandleTransferred
<1>2. ListSays(<<s>>, p, p2, NoLedger) BY BuyerSays
<1>. HIDE DEF row, p2
<1>3. ListSays(<<t>>, p2, p2, l) BY InsertSays
<1>4. Told(s, blk, n) /\ Told(t, blk, n) BY StatementsTold, InsertsTold
<1>5. IsLedger(l) BY RowLedgers
<1>. HIDE DEF s, t, l
<1>6. ListSays(<<s, t>>, p, p2, l) BY <1>2, <1>3, <1>5, PairSays
<1>7. AllTold(<<s, t>>, blk, n) BY <1>4, ShortTold
<1>8. EventSays(PoolEvent("OptionTransferred", d), n, p, p2, l)
      /\ EventTold(PoolEvent("OptionTransferred", d), n, blk)
    <2>1. PICK ss : ss = <<s, t>> OBVIOUS
    <2>2. \A g : DecodePoolEvent(PoolEvent("OptionTransferred", d), n, g) = ss BY <1>1, <2>1
    <2>3. ListSays(ss, p, p2, l) /\ AllTold(ss, blk, n) BY <1>6, <1>7, <2>1
    <2>. QED BY <2>2, <2>3, PoolEventMeans
<1>. QED BY <1>8 DEF p2, l, row

(* SwapExecuted says the swap. *)
LEMMA SwapMeans ==
    ASSUME NEW buyer, NEW p, NEW n, NEW blk
    PROVE  LET e == Event("token", "SwapExecuted", [buyer |-> buyer]) IN
           /\ EventSays(e, n, p, p,
                 [NoLedger EXCEPT !.swaps = <<[buyer |-> buyer, block |-> n]>>])
           /\ EventTold(e, n, blk)
<1>. DEFINE e == Event("token", "SwapExecuted", [buyer |-> buyer])
            row == [buyer |-> buyer, block |-> n]
<1>1. \A pools, g : DecodeEvent(e, n, pools, g) = <<Insert("swaps", row)>>
    BY ConfigAssumption DEF DecodeEvent, Event, HandleSwapExecuted
<1>. HIDE DEF e, row
<1>2. ListSays(<<Insert("swaps", row)>>, p, p, [NoLedger EXCEPT !.swaps = <<row>>])
    BY InsertSays
<1>3. AllTold(<<Insert("swaps", row)>>, blk, n) BY InsertsTold, ShortTold
<1>4. EventSays(e, n, p, p, [NoLedger EXCEPT !.swaps = <<row>>]) /\ EventTold(e, n, blk)
    BY <1>1, <1>2, <1>3 DEF EventSays, EventTold
<1>. QED BY <1>4 DEF e, row

(* Events without a handler, and those of other contracts, say nothing. *)
LEMMA SilentMeans ==
    ASSUME NEW e, NEW n, NEW p, NEW blk,
           \/ \E type \in {"OptionRolled", "OptionRestored", "BtcClaimable"} : \E data :
                 e = PoolEvent(type, data)
           \/ \E data : e = Event("other", "OptionWritten", data)
    PROVE  EventSays(e, n, p, p, NoLedger) /\ EventTold(e, n, blk)
<1>1. \A pools \in SUBSET Tracked : \A g : DecodeEvent(e, n, pools, g) = <<>>
    <2>1. ASSUME NEW type \in {"OptionRolled", "OptionRestored", "BtcClaimable"}, NEW data,
                 e = PoolEvent(type, data), NEW pools, NEW g
          PROVE  DecodeEvent(e, n, pools, g) = <<>>
        BY <2>1 DEF DecodeEvent, DecodePoolEvent, PoolEvent, Event
    <2>2. ASSUME NEW data, e = Event("other", "OptionWritten", data),
                 NEW pools \in SUBSET Tracked, NEW g
          PROVE  DecodeEvent(e, n, pools, g) = <<>>
        BY <2>2, ConfigAssumption DEF DecodeEvent, Event
    <2>. QED BY <2>1, <2>2
<1>2. \A g : DecodeEvent(e, n, Tracked, g) = <<>> BY <1>1
<1>. QED BY <1>1, <1>2, NothingSays, ShortTold DEF EventSays, EventTold

(* ---- blocks ---- *)

(* Options and books, typed far enough for the provers. *)
OptionSet(S) == [writer : S, buyer : S, status : S, type : S, reservedFor : S]
IsOption(x) == \E S : x \in OptionSet(S)
IsBook(b) ==
    /\ b = [id \in DOMAIN b |-> b[id]]
    /\ \A id \in DOMAIN b : IsOption(b[id])
    /\ \E n \in Nat : DOMAIN b = 0 .. n - 1

LedgerOf(blk) == [fees |-> blk.fees, transfers |-> blk.transfers, swaps |-> blk.swaps]

(* The events of block n say how its book and ledger differ from p. *)
BlockMeans(blk, n, p) ==
    /\ IsLedger(LedgerOf(blk))
    /\ BlockSays(blk.events, n, p, Positions(blk.book), LedgerOf(blk))
    /\ BlockTold(blk.events, n, blk)

(* Options stay, and their writers. *)
Grows(b, b2) == DOMAIN b \subseteq DOMAIN b2 /\ \A id \in DOMAIN b : b2[id].writer = b[id].writer

(* The step mines such a block. *)
MinesWell ==
    \E blk : /\ chain' = Append(chain, blk)
             /\ book' = blk.book
             /\ IsBook(blk.book) /\ Grows(book, blk.book)
             /\ BlockMeans(blk, Height + 1, Positions(book))

(* A block whose events say its book and its ledger is well mined. *)
LEMMA MinedWell ==
    ASSUME NEW b2, NEW evs, NEW l, Mine(b2, evs, l), IsBook(b2), Grows(book, b2), IsLedger(l),
           BlockSays(evs, Height + 1, Positions(book), Positions(b2), l),
           BlockTold(evs, Height + 1, Block(b2, evs, l))
    PROVE  MinesWell
<1>. DEFINE blk == Block(b2, evs, l)
<1>1. blk.book = b2 /\ blk.events = evs /\ LedgerOf(blk) = l
    BY DEF Block, LedgerOf, IsLedger
<1>2. chain' = Append(chain, blk) /\ book' = b2 BY DEF Mine
<1>. HIDE DEF blk
<1>3. BlockMeans(blk, Height + 1, Positions(book)) BY <1>1 DEF BlockMeans, blk
<1>. QED BY <1>1, <1>2, <1>3 DEF MinesWell

(* The same for a block of one event. *)
LEMMA OneEvent ==
    ASSUME NEW b2, NEW e, NEW l, Mine(b2, <<e>>, l), IsBook(b2), Grows(book, b2), IsLedger(l),
           EventSays(e, Height + 1, Positions(book), Positions(b2), l),
           EventTold(e, Height + 1, Block(b2, <<e>>, l))
    PROVE  MinesWell
<1>1. Append(<<>>, e) = <<e>> OBVIOUS
<1>. DEFINE n == Height + 1
            p == Positions(book)
            p2 == Positions(b2)
            blk == Block(b2, <<e>>, l)
<1>. HIDE DEF n, p, p2, blk
<1>2. BlockSays(<<>>, n, p, p, NoLedger) /\ BlockTold(<<>>, n, blk) BY EmptyBlock
<1>3. BlockSays(Append(<<>>, e), n, p, p2, Join(NoLedger, l))
    BY <1>2, NoLedgerIs, ShortLists, LongerBlock DEF n, p, p2
<1>4. BlockTold(Append(<<>>, e), n, blk) BY <1>2, ShortLists, LongerTold DEF n, blk
<1>5. BlockSays(<<e>>, n, p, p2, l) /\ BlockTold(<<e>>, n, blk)
    BY <1>1, <1>3, <1>4, NoLedgerIs
<1>. QED BY <1>5, MinedWell DEF n, p, p2, blk

(* ---- books ---- *)

(* A book with one option changed. *)
LEMMA BookMoves ==
    ASSUME NEW b, IsBook(b), NEW id \in DOMAIN b, NEW o, IsOption(o), o.writer = b[id].writer
    PROVE  LET b2 == [b EXCEPT ![id] = o] IN
           /\ IsBook(b2) /\ Grows(b, b2)
           /\ id \in DOMAIN b2 /\ b2[id] = o
           /\ Positions(b2) = Put(Positions(b), id, Position(o))
<1>. DEFINE b2 == [b EXCEPT ![id] = o]
<1>1. DOMAIN b2 = DOMAIN b /\ b2[id] = o /\ b2 = [i \in DOMAIN b2 |-> b2[i]]
      /\ \A i \in DOMAIN b : i # id => b2[i] = b[i]
    OBVIOUS
<1>. HIDE DEF b2
<1>2. IsBook(b2) BY <1>1 DEF IsBook
<1>3. Positions(b2) = Put(Positions(b), id, Position(o)) BY <1>1 DEF Positions, Put
<1>. QED BY <1>1, <1>2, <1>3 DEF Grows, b2

(* What the assignments of an option make of it. *)
OfStatus(x, v) == [x EXCEPT !.status = v]
OfBuyer(x, b) == [x EXCEPT !.buyer = b]
Bought(x, b) == [x EXCEPT !.status = PURCHASED, !.buyer = b]
HeldFor(x, v, b) == [x EXCEPT !.status = v, !.reservedFor = b]

(* An option with another status, or held for somebody. *)
LEMMA OptionMoves ==
    ASSUME NEW x, IsOption(x), NEW v, NEW b
    PROVE  /\ IsOption(OfStatus(x, v)) /\ OfStatus(x, v).writer = x.writer
           /\ OfStatus(x, v).status = v
           /\ Position(OfStatus(x, v)) = [writer |-> x.writer, buyer |-> x.buyer, status |-> v]
           /\ IsOption(HeldFor(x, v, b)) /\ HeldFor(x, v, b).writer = x.writer
           /\ HeldFor(x, v, b).status = v
           /\ Position(HeldFor(x, v, b)) = Position(OfStatus(x, v))
<1>1. PICK S : x \in OptionSet(S) BY DEF IsOption
<1>. DEFINE T == S \cup {v, b}
<1>2. OfStatus(x, v) \in OptionSet(T) /\ HeldFor(x, v, b) \in OptionSet(T)
    BY <1>1 DEF OptionSet, OfStatus, HeldFor
<1>3. IsOption(OfStatus(x, v)) /\ IsOption(HeldFor(x, v, b)) BY <1>2 DEF IsOption
<1>. QED BY <1>1, <1>3 DEF OptionSet, Position, OfStatus, HeldFor

(* An option with another buyer. *)
LEMMA OptionSells ==
    ASSUME NEW x, IsOption(x), NEW b
    PROVE  /\ IsOption(Bought(x, b)) /\ Bought(x, b).writer = x.writer
           /\ Bought(x, b).status = PURCHASED /\ Bought(x, b).buyer = b
           /\ Position(Bought(x, b)) = [writer |-> x.writer, buyer |-> b, status |-> PURCHASED]
           /\ IsOption(OfBuyer(x, b)) /\ OfBuyer(x, b).writer = x.writer
           /\ OfBuyer(x, b).buyer = b
           /\ Position(OfBuyer(x, b)) = [writer |-> x.writer, buyer |-> b, status |-> x.status]
<1>1. PICK S : x \in OptionSet(S) BY DEF IsOption
<1>. DEFINE T == S \cup {PURCHASED, b}
<1>2. Bought(x, b) \in OptionSet(T) /\ OfBuyer(x, b) \in OptionSet(T)
    BY <1>1 DEF OptionSet, Bought, OfBuyer
<1>3. IsOption(Bought(x, b)) /\ IsOption(OfBuyer(x, b)) BY <1>2 DEF IsOption
<1>. QED BY <1>1, <1>3 DEF OptionSet, Position, Bought, OfBuyer

(* A book with one option more. *)
LEMMA BookWrites ==
    ASSUME NEW b, IsBook(b), NEW o, IsOption(o)
    PROVE  LET id == Cardinality(DOMAIN b)
               b2 == [i \in DOMAIN b \cup {id} |-> IF i = id THEN o ELSE b[i]] IN
           /\ id \notin DOMAIN b
           /\ IsBook(b2) /\ Grows(b, b2)
           /\ id \in DOMAIN b2 /\ b2[id] = o
           /\ Positions(b2) = Put(Positions(b), id, Position(o))
<1>1. PICK n \in Nat : DOMAIN b = 0 .. n - 1 BY DEF IsBook
<1>2. Cardinality(DOMAIN b) = n
    <2>1. Cardinality(0 .. n - 1) = IF 0 > n - 1 THEN 0 ELSE n - 1 - 0 + 1
        BY <1>1, FS_Interval
    <2>. QED BY <1>1, <2>1
<1>3. PICK id : id = Cardinality(DOMAIN b) OBVIOUS
<1>. DEFINE b2 == [i \in DOMAIN b \cup {id} |-> IF i = id THEN o ELSE b[i]]
<1>4. id \notin DOMAIN b /\ DOMAIN b2 = 0 .. (n + 1) - 1 BY <1>1, <1>2, <1>3
<1>5. b2 = [i \in DOMAIN b2 |-> b2[i]] /\ b2[id] = o
      /\ \A i \in DOMAIN b : b2[i] = b[i]
    BY <1>4
<1>d. DOMAIN b2 = DOMAIN b \cup {id} OBVIOUS
<1>. HIDE DEF b2
<1>6. IsBook(b2)
    <2>1. \A i \in DOMAIN b2 : IsOption(b2[i]) 
        <3>1. SUFFICES ASSUME NEW i \in DOMAIN b2 PROVE IsOption(b2[i]) OBVIOUS
        <3>2. i = id \/ i \in DOMAIN b BY <1>d, <3>1
        <3>3. b2[i] = o \/ (i \in DOMAIN b /\ b2[i] = b[i]) BY <1>5, <3>2
        <3>4. \A j \in DOMAIN b : IsOption(b[j]) BY DEF IsBook
        <3>. QED BY <3>3, <3>4
    <2>2. DOMAIN b2 = 0 .. (n + 1) - 1 /\ n + 1 \in Nat BY <1>4 DEF b2
    <2>3. \E m \in Nat : DOMAIN b2 = 0 .. m - 1 BY <2>2
    <2>. QED BY <1>5, <2>1, <2>3 DEF IsBook
<1>7. Positions(b2) = Put(Positions(b), id, Position(o))
    <2>1. DOMAIN Positions(b) = DOMAIN b BY DEF Positions
    <2>2. ASSUME NEW i \in DOMAIN b2
          PROVE  Position(b2[i]) = IF i = id THEN Position(o) ELSE Positions(b)[i]
        <3>1. i = id \/ (i # id /\ i \in DOMAIN b) BY <1>d, <2>2
        <3>2. i \in DOMAIN b => Positions(b)[i] = Position(b[i]) BY DEF Positions
        <3>. QED BY <1>5, <3>1, <3>2
    <2>3. Positions(b2) = [i \in DOMAIN b2 |-> Position(b2[i])] BY DEF Positions
    <2>4. Put(Positions(b), id, Position(o))
            = [i \in DOMAIN b2 |-> IF i = id THEN Position(o) ELSE Positions(b)[i]]
        <3>1. DOMAIN Positions(b) \cup {id} = DOMAIN b2 BY <1>d, <2>1
        <3>. QED BY <3>1 DEF Put
    <2>. QED BY <2>2, <2>3, <2>4
<1>. QED BY <1>3, <1>4, <1>5, <1>d, <1>6, <1>7 DEF Grows, b2

(* Tuples as appended tuples. *)
LEMMA TuplesAppend ==
    /\ \A x, y : <<x, y>> = Append(<<x>>, y)
    /\ \A x, y, z : <<x, y, z>> = Append(<<x, y>>, z)
OBVIOUS

(* A block of one event says what the event says. *)
LEMMA FirstEvent ==
    ASSUME NEW e, NEW n, NEW p, NEW p2, NEW l, IsLedger(l), EventSays(e, n, p, p2, l), NEW blk,
           EventTold(e, n, blk)
    PROVE  BlockSays(<<e>>, n, p, p2, l) /\ BlockTold(<<e>>, n, blk)
<1>1. Append(<<>>, e) = <<e>> OBVIOUS
<1>2. BlockSays(<<>>, n, p, p, NoLedger) /\ BlockTold(<<>>, n, blk) BY EmptyBlock
<1>3. BlockSays(Append(<<>>, e), n, p, p2, Join(NoLedger, l))
    BY <1>2, NoLedgerIs, ShortLists, LongerBlock
<1>4. BlockTold(Append(<<>>, e), n, blk) BY <1>2, ShortLists, LongerTold
<1>. QED BY <1>1, <1>3, <1>4, NoLedgerIs

(* A block of two events says both. *)
LEMMA TwoEvents ==
    ASSUME NEW e, NEW f, NEW n, NEW p, NEW p2, NEW p3, NEW l, NEW m, IsLedger(l), IsLedger(m),
           EventSays(e, n, p, p2, l), EventSays(f, n, p2, p3, m),
           NEW blk, EventTold(e, n, blk), EventTold(f, n, blk)
    PROVE  BlockSays(<<e, f>>, n, p, p3, Join(l, m)) /\ BlockTold(<<e, f>>, n, blk)
<1>1. PICK x : x = <<e>> OBVIOUS
<1>2. BlockSays(x, n, p, p2, l) /\ BlockTold(x, n, blk) /\ IsList(x)
    BY <1>1, FirstEvent, ShortLists
<1>3. BlockSays(Append(x, f), n, p, p3, Join(l, m)) BY <1>2, LongerBlock
<1>4. BlockTold(Append(x, f), n, blk) BY <1>2, LongerTold
<1>5. Append(x, f) = <<e, f>> BY <1>1, TuplesAppend
<1>. QED BY <1>3, <1>4, <1>5

(* ---- one option of the book changes ---- *)

(* The pool's book with one option changed. *)
LEMMA BookChanges ==
    ASSUME IsBook(book), NEW id \in Ids, NEW o, IsOption(o), o.writer = book[id].writer,
           NEW b2, b2 = [book EXCEPT ![id] = o]
    PROVE  /\ IsBook(b2) /\ Grows(book, b2) /\ DOMAIN b2 = Ids /\ b2[id] = o
           /\ Positions(b2) = Put(Positions(book), id, Position(o))
<1>1. id \in DOMAIN book /\ DOMAIN b2 = Ids BY DEF Ids
<1>. QED BY <1>1, BookMoves

(* An option of the book and its position. *)
LEMMA OptionOfBook ==
    ASSUME IsBook(book), NEW id \in Ids
    PROVE  LET p == Positions(book) IN
           /\ IsOption(book[id]) /\ \E S : book[id] \in OptionSet(S)
           /\ id \in DOMAIN p /\ p[id].writer = book[id].writer
           /\ p[id].buyer = book[id].buyer /\ p[id].status = book[id].status
BY DEF IsBook, Ids, IsOption, Positions, Position

(* An option that becomes cancelled, exercised or expired. *)
LEMMA StatusChanges ==
    ASSUME IsBook(book), NEW id \in Ids, NEW v
    PROVE  LET b2 == Becomes(id, v) IN
           /\ IsBook(b2) /\ Grows(book, b2) /\ DOMAIN b2 = Ids /\ b2[id].status = v
           /\ Positions(b2) = Moved(Positions(book), id, NULL, v)
<1>1. PICK o : o = OfStatus(book[id], v) OBVIOUS
<1>2. Becomes(id, v) = [book EXCEPT ![id] = o] BY <1>1 DEF Becomes, OfStatus
<1>3. IsOption(o) /\ o.writer = book[id].writer /\ o.status = v
      /\ Position(o) = [writer |-> book[id].writer, buyer |-> book[id].buyer, status |-> v]
    BY <1>1, OptionOfBook, OptionMoves
<1>4. Moved(Positions(book), id, NULL, v) = Put(Positions(book), id, Position(o))
    BY <1>3, OptionOfBook DEF Moved, Coalesce
<1>5. PICK b2 : b2 = Becomes(id, v) OBVIOUS
<1>6. IsBook(b2) /\ Grows(book, b2) /\ DOMAIN b2 = Ids /\ b2[id] = o
      /\ Positions(b2) = Put(Positions(book), id, Position(o))
    BY <1>2, <1>3, <1>5, BookChanges
<1>. QED BY <1>3, <1>4, <1>5, <1>6

(* An option that is sold. *)
LEMMA SaleChanges ==
    ASSUME IsBook(book), NEW id \in Ids, NEW b
    PROVE  LET b2 == Sold(id, b)
               p == Positions(book) IN
           /\ IsBook(b2) /\ Grows(book, b2) /\ DOMAIN b2 = Ids
           /\ b2[id].status = PURCHASED /\ b2[id].buyer = b
           /\ Positions(b2) = Put(p, id, [writer |-> p[id].writer, buyer |-> b,
                                          status |-> PURCHASED])
<1>1. PICK o : o = Bought(book[id], b) OBVIOUS
<1>2. Sold(id, b) = [book EXCEPT ![id] = o]
    <2>1. PICK S : book[id] \in OptionSet(S) BY OptionOfBook
    <2>. QED BY <1>1, <2>1 DEF Sold, Ids, Bought
<1>3. IsOption(o) /\ o.writer = book[id].writer /\ o.status = PURCHASED /\ o.buyer = b
      /\ Position(o) = [writer |-> book[id].writer, buyer |-> b, status |-> PURCHASED]
    BY <1>1, OptionOfBook, OptionSells
<1>4. Positions(book)[id].writer = book[id].writer BY OptionOfBook
<1>5. PICK b2 : b2 = Sold(id, b) OBVIOUS
<1>6. IsBook(b2) /\ Grows(book, b2) /\ DOMAIN b2 = Ids /\ b2[id] = o
      /\ Positions(b2) = Put(Positions(book), id, Position(o))
    BY <1>2, <1>3, <1>5, BookChanges
<1>. QED BY <1>3, <1>4, <1>5, <1>6

(* An option just written. *)
LEMMA NewIs ==
    ASSUME NEW w, NEW type
    PROVE  IsOption(New(w, type))
           /\ Position(New(w, type)) = [writer |-> w, buyer |-> NULL, status |-> OPEN]
<1>1. New(w, type) \in OptionSet({w, NoOne, OPEN, type}) BY DEF New, OptionSet
<1>. QED BY <1>1, ConfigAssumption DEF IsOption, New, Position

(* The book with an option just written. *)
LEMMA WithNewIs ==
    ASSUME NEW b, IsBook(b), DOMAIN b = Ids, NEW w, NEW type
    PROVE  LET b2 == WithNew(b, w, type)
               q == [writer |-> w, buyer |-> NULL, status |-> OPEN] IN
           /\ NextId \notin DOMAIN Positions(b)
           /\ IsBook(b2) /\ Grows(b, b2)
           /\ NextId \in DOMAIN b2 /\ Position(b2[NextId]) = q
           /\ \A i \in Ids : b2[i] = b[i]
           /\ Positions(b2) = Put(Positions(b), NextId, q)
<1>. DEFINE o == New(w, type)
            id == Cardinality(DOMAIN b)
            b2 == [i \in DOMAIN b \cup {id} |-> IF i = id THEN o ELSE b[i]]
<1>1. IsOption(o) /\ Position(o) = [writer |-> w, buyer |-> NULL, status |-> OPEN] BY NewIs
<1>2. id = NextId /\ b2 = WithNew(b, w, type) BY DEF NextId, WithNew
<1>. HIDE DEF o
<1>3. /\ id \notin DOMAIN b
      /\ IsBook(b2) /\ Grows(b, b2)
      /\ id \in DOMAIN b2 /\ b2[id] = o
      /\ Positions(b2) = Put(Positions(b), id, Position(o))
    BY <1>1, BookWrites
<1>4. \A i \in Ids : b2[i] = b[i] BY <1>3
<1>5. DOMAIN Positions(b) = DOMAIN b BY DEF Positions
<1>. HIDE DEF b2, id
<1>. QED BY <1>1, <1>2, <1>3, <1>4, <1>5

(* The ledger of a transaction's fee. *)
LEMMA FeeRowsAre ==
    ASSUME NEW id, NEW kind, NEW fee \in {0, 1}
    PROVE  /\ Fees(FeeRows(id, kind, fee)) = PaidFee(id, kind, fee, Height + 1)
           /\ IsLedger(Fees(FeeRows(id, kind, fee)))
           /\ \/ fee = 0
              \/ [id |-> id, kind |-> kind, amount |-> fee, block |-> Height + 1]
                    \in ToSet(FeeRows(id, kind, fee))
           /\ Fees(FeeRows(id, kind, fee)).fees = FeeRows(id, kind, fee)
<1>. DEFINE row == [id |-> id, kind |-> kind, amount |-> fee, block |-> Height + 1]
<1>1. CASE fee = 0
    <2>1. FeeRows(id, kind, fee) = <<>> BY <1>1 DEF FeeRows
    <2>2. Fees(<<>>) = NoLedger /\ NoLedger.fees = <<>> BY DEF Fees, NoLedger
    <2>. QED BY <1>1, <2>1, <2>2, NoLedgerIs DEF PaidFee
<1>2. CASE fee = 1
    <2>1. FeeRows(id, kind, fee) = <<row>> BY <1>2 DEF FeeRows, FeeRow
    <2>. HIDE DEF row
    <2>2. row \in ToSet(<<row>>) BY DEF ToSet
    <2>3. Fees(<<row>>).fees = <<row>> BY DEF Fees, NoLedger
    <2>4. PaidFee(id, kind, fee, Height + 1) = Fees(<<row>>) BY <1>2 DEF PaidFee, EscrowHash, row
    <2>. QED BY <2>1, <2>2, <2>3, <2>4, RowLedgers DEF row
<1>. QED BY <1>1, <1>2

(* ---- one lemma for each transaction ---- *)

(* writeOption mines a block whose events say what it did. *)
LEMMA WriteOptionMines ==
    ASSUME IsBook(book), NEW w, NEW type, WriteOption(w, type)
    PROVE  MinesWell
<1>. DEFINE b2 == WithNew(book, w, type)
            e == WrittenEvent(NextId, w, type)
            q == [writer |-> w, buyer |-> NULL, status |-> OPEN]
            p == Positions(book)
            n == Height + 1
            blk == Block(b2, <<e>>, NoLedger)
<1>1. Mine(b2, <<e>>, NoLedger) BY DEF WriteOption
<1>2. /\ NextId \notin DOMAIN p
      /\ IsBook(b2) /\ Grows(book, b2)
      /\ NextId \in DOMAIN b2 /\ Position(b2[NextId]) = q
      /\ Positions(b2) = Put(p, NextId, q)
    BY WithNewIs DEF Ids
<1>3. PICK ty \in WrittenTypes : e = PoolEvent(ty, [id |-> NextId, writer |-> w])
    BY DEF WrittenEvent, WrittenTypes
<1>4. blk.book = b2 BY DEF Block
<1>. HIDE DEF b2, n, p, blk, e
<1>5. EventSays(e, n, p, Put(p, NextId, q), NoLedger) /\ EventTold(e, n, blk)
    BY <1>2, <1>3, <1>4, WrittenMeans
<1>. QED BY <1>1, <1>2, <1>5, NoLedgerIs, OneEvent DEF b2, n, p, blk, e

(* So does buyOption. *)
LEMMA BuyOptionMines ==
    ASSUME IsBook(book), NEW id, NEW u \in Users, NEW fee \in {0, 1}, BuyOption(id, u, fee)
    PROVE  MinesWell
<1>. DEFINE b2 == Sold(id, u)
            d == [id |-> id, buyer |-> u, premium |-> Premium, writerAmount |-> Premium - fee]
            e == PoolEvent("OptionPurchased", d)
            l == Fees(FeeRows(id, "buy", fee))
            p == Positions(book)
            n == Height + 1
            blk == Block(b2, <<e>>, l)
<1>1. Mine(b2, <<e>>, l) /\ id \in Ids BY DEF BuyOption, In
<1>2. SaleFee(d) = fee BY DEF SaleFee, Premium
<1>3. d.id = id /\ d.buyer = u OBVIOUS
<1>4. blk.book = b2 /\ blk.fees = l.fees BY DEF Block
<1>5. id \in DOMAIN p /\ Coalesce(u, p[id].buyer) = u
    BY <1>1, ConfigAssumption DEF Positions, Ids, Coalesce
<1>. HIDE DEF b2, d, n, p, blk, l
<1>6. /\ IsBook(b2) /\ Grows(book, b2) /\ id \in DOMAIN b2
      /\ b2[id].status = PURCHASED /\ b2[id].buyer = u
      /\ Positions(b2) = Moved(p, id, u, PURCHASED)
    BY <1>1, <1>5, SaleChanges DEF b2, p, Moved
<1>7. l = PaidFee(id, "buy", fee, n) /\ IsLedger(l)
      /\ (fee = 0 \/ [id |-> id, kind |-> "buy", amount |-> fee, block |-> n] \in ToSet(blk.fees))
    BY <1>4, FeeRowsAre DEF l, n
<1>8. EventSays(e, n, p, Moved(p, id, u, PURCHASED), l) /\ EventTold(e, n, blk)
    BY <1>2, <1>3, <1>4, <1>5, <1>6, <1>7, PurchasedMeans
<1>. HIDE DEF e
<1>. QED BY <1>1, <1>6, <1>7, <1>8, OneEvent DEF n, p, blk

(* So does reserveOption. *)
LEMMA ReserveOptionMines ==
    ASSUME IsBook(book), NEW id, NEW u, ReserveOption(id, u)
    PROVE  MinesWell
<1>. DEFINE b2 == [book EXCEPT ![id].status = RESERVED, ![id].reservedFor = u]
            d == [id |-> id, buyer |-> u]
            e == PoolEvent("OptionReserved", d)
            p == Positions(book)
            n == Height + 1
            blk == Block(b2, <<e>>, NoLedger)
            o == HeldFor(book[id], RESERVED, u)
<1>1. Mine(b2, <<e>>, NoLedger) /\ id \in Ids BY DEF ReserveOption, In
<1>2. b2 = [book EXCEPT ![id] = o]
    <2>1. PICK S : book[id] \in OptionSet(S) BY <1>1, OptionOfBook
    <2>. QED BY <1>1, <2>1 DEF Ids, HeldFor
<1>3. d.id = id OBVIOUS
<1>4. blk.book = b2 BY DEF Block
<1>. HIDE DEF b2, d, n, blk, o
<1>5. IsOption(o) /\ o.writer = book[id].writer /\ o.status = RESERVED
      /\ Position(o) = [writer |-> book[id].writer, buyer |-> book[id].buyer,
                        status |-> RESERVED]
    BY <1>1, OptionOfBook, OptionMoves DEF o
<1>6. Moved(p, id, NULL, RESERVED) = Put(p, id, Position(o)) /\ id \in DOMAIN p
    BY <1>1, <1>5, OptionOfBook DEF Moved, Coalesce
<1>7. IsBook(b2) /\ Grows(book, b2) /\ DOMAIN b2 = Ids /\ b2[id] = o
      /\ Positions(b2) = Moved(p, id, NULL, RESERVED)
    BY <1>1, <1>2, <1>5, <1>6, BookChanges
<1>. HIDE DEF p
<1>8. EventSays(e, n, p, Moved(p, id, NULL, RESERVED), NoLedger) /\ EventTold(e, n, blk)
    BY <1>1, <1>3, <1>4, <1>5, <1>6, <1>7, StatusEventMeans
<1>. HIDE DEF e
<1>. QED BY <1>1, <1>7, <1>8, NoLedgerIs, OneEvent DEF n, p, blk

(* So does executeReservation. *)
LEMMA ExecuteReservationMines ==
    ASSUME IsBook(book), NEW id, ExecuteReservation(id)
    PROVE  MinesWell
<1>. DEFINE u == book[id].reservedFor
            b2 == Sold(id, u)
            d == [id |-> id, buyer |-> u]
            e == PoolEvent("ReservationExecuted", d)
            p == Positions(book)
            n == Height + 1
            blk == Block(b2, <<e>>, NoLedger)
            q == [writer |-> p[id].writer, buyer |-> u, status |-> PURCHASED]
<1>1. Mine(b2, <<e>>, NoLedger) /\ id \in Ids BY DEF ExecuteReservation, In
<1>2. d.id = id /\ d.buyer = u OBVIOUS
<1>3. blk.book = b2 BY DEF Block
<1>. HIDE DEF u, b2, d, n, blk
<1>4. IsBook(b2) /\ Grows(book, b2) /\ DOMAIN b2 = Ids
      /\ b2[id].status = PURCHASED /\ b2[id].buyer = u /\ Positions(b2) = Put(p, id, q)
    BY <1>1, SaleChanges DEF b2
<1>5. id \in DOMAIN p BY <1>1, OptionOfBook
<1>. HIDE DEF p
<1>6. EventSays(e, n, p, Put(p, id, q), NoLedger) /\ EventTold(e, n, blk)
    BY <1>1, <1>2, <1>3, <1>4, <1>5, ExecutedMeans
<1>. HIDE DEF e, q
<1>. QED BY <1>1, <1>4, <1>6, NoLedgerIs, OneEvent DEF n, p, blk

(* So does cancelReservation, with its second, silent event. *)
LEMMA CancelReservationMines ==
    ASSUME IsBook(book), NEW id, CancelReservation(id)
    PROVE  MinesWell
<1>. DEFINE b2 == [book EXCEPT ![id].status = OPEN, ![id].reservedFor = NoOne]
            d == [id |-> id]
            e == PoolEvent("ReservationCancelled", d)
            f == PoolEvent("OptionRestored", d)
            p == Positions(book)
            n == Height + 1
            blk == Block(b2, <<e, f>>, NoLedger)
            o == HeldFor(book[id], OPEN, NoOne)
            p2 == Positions(b2)
<1>1. Mine(b2, <<e, f>>, NoLedger) /\ id \in Ids BY DEF CancelReservation, In
<1>2. b2 = [book EXCEPT ![id] = o]
    <2>1. PICK S : book[id] \in OptionSet(S) BY <1>1, OptionOfBook
    <2>. QED BY <1>1, <2>1 DEF Ids, HeldFor
<1>3. d.id = id OBVIOUS
<1>4. blk.book = b2 BY DEF Block
<1>. HIDE DEF b2, d, n, blk, o
<1>5. IsOption(o) /\ o.writer = book[id].writer /\ o.status = OPEN
      /\ Position(o) = [writer |-> book[id].writer, buyer |-> book[id].buyer,
                        status |-> OPEN]
    BY <1>1, OptionOfBook, OptionMoves DEF o
<1>6. Moved(p, id, NULL, OPEN) = Put(p, id, Position(o)) /\ id \in DOMAIN p
    BY <1>1, <1>5, OptionOfBook DEF Moved, Coalesce
<1>7. IsBook(b2) /\ Grows(book, b2) /\ DOMAIN b2 = Ids /\ b2[id] = o
      /\ p2 = Moved(p, id, NULL, OPEN)
    BY <1>1, <1>2, <1>5, <1>6, BookChanges
<1>. HIDE DEF p, p2
<1>8. EventSays(e, n, p, p2, NoLedger) /\ EventTold(e, n, blk)
    BY <1>1, <1>3, <1>4, <1>5, <1>6, <1>7, StatusEventMeans
<1>9. EventSays(f, n, p2, p2, NoLedger) /\ EventTold(f, n, blk)
    BY SilentMeans
<1>. HIDE DEF e, f
<1>10. BlockSays(<<e, f>>, n, p, p2, Join(NoLedger, NoLedger))
       /\ BlockTold(<<e, f>>, n, blk)
    BY <1>8, <1>9, NoLedgerIs, TwoEvents
<1>11. Join(NoLedger, NoLedger) = NoLedger BY NoLedgerIs
<1>12. PICK evs : evs = <<e, f>> OBVIOUS
<1>. QED BY <1>1, <1>7, <1>10, <1>11, <1>12, NoLedgerIs, MinedWell DEF n, p, p2, blk

(* So does transferOption. *)
LEMMA TransferOptionMines ==
    ASSUME IsBook(book), NEW id, NEW to, TransferOption(id, to)
    PROVE  MinesWell
<1>. DEFINE b2 == [book EXCEPT ![id].buyer = to]
            d == [id |-> id, from |-> book[id].buyer, to |-> to]
            e == PoolEvent("OptionTransferred", d)
            n == Height + 1
            row == [id |-> d.id, from |-> d.from, to |-> d.to, block |-> n]
            l == [NoLedger EXCEPT !.transfers = <<row>>]
            p == Positions(book)
            blk == Block(b2, <<e>>, l)
            o == OfBuyer(book[id], to)
            q == [writer |-> p[id].writer, buyer |-> to, status |-> p[id].status]
<1>1. Mine(b2, <<e>>, l) /\ id \in Ids BY DEF TransferOption, In
<1>2. b2 = [book EXCEPT ![id] = o] BY DEF OfBuyer
<1>3. d.id = id /\ d.to = to OBVIOUS
<1>4. blk.book = b2 BY DEF Block
<1>5. IsLedger(l) BY RowLedgers
<1>. HIDE DEF b2, d, n, blk, o
<1>6. IsOption(o) /\ o.writer = book[id].writer /\ o.buyer = to
      /\ Position(o) = [writer |-> book[id].writer, buyer |-> to, status |-> book[id].status]
    BY <1>1, OptionOfBook, OptionSells DEF o
<1>7. q = Position(o) /\ id \in DOMAIN p BY <1>1, <1>6, OptionOfBook
<1>. HIDE DEF q
<1>a. IsBook(b2) /\ Grows(book, b2) /\ DOMAIN b2 = Ids /\ b2[id] = o
      /\ Positions(b2) = Put(Positions(book), id, Position(o))
    BY <1>1, <1>2, <1>6, BookChanges
<1>. HIDE DEF p
<1>8. Positions(b2) = Put(p, id, q) BY <1>a, <1>7 DEF p
<1>b. q = [writer |-> p[id].writer, buyer |-> to, status |-> p[id].status] BY DEF q
<1>9. EventSays(e, n, p, Put(p, id, q), l) /\ EventTold(e, n, blk)
    BY <1>1, <1>3, <1>4, <1>6, <1>7, <1>a, <1>b, TransferredMeans
<1>. HIDE DEF e, l
<1>. QED BY <1>1, <1>5, <1>8, <1>9, <1>a, OneEvent DEF n, p, blk

(* A book that stays keeps its writers. *)
LEMMA SameBook == ASSUME IsBook(book) PROVE Grows(book, book)
BY DEF Grows

(* So does a swap of NativeSwap. *)
LEMMA SwapMines ==
    ASSUME IsBook(book), NEW u, Swap(u)
    PROVE  MinesWell
<1>. DEFINE e == Event("token", "SwapExecuted", [buyer |-> u])
            n == Height + 1
            l == [NoLedger EXCEPT !.swaps = <<[buyer |-> u, block |-> n]>>]
            p == Positions(book)
            blk == Block(book, <<e>>, l)
<1>1. Mine(book, <<e>>, l) BY DEF Swap
<1>2. IsLedger(l) BY RowLedgers
<1>. HIDE DEF n, p, blk
<1>3. EventSays(e, n, p, p, l) /\ EventTold(e, n, blk) BY SwapMeans
<1>. HIDE DEF e, l
<1>. QED BY <1>1, <1>2, <1>3, SameBook, OneEvent DEF n, p, blk

(* So does a contract nobody follows: nothing is what it says. *)
LEMMA ElsewhereMines ==
    ASSUME IsBook(book), NEW u, Elsewhere(u)
    PROVE  MinesWell
<1>. DEFINE e == Event("other", "OptionWritten", [id |-> 0, writer |-> u])
            n == Height + 1
            p == Positions(book)
            blk == Block(book, <<e>>, NoLedger)
<1>1. Mine(book, <<e>>, NoLedger) BY DEF Elsewhere
<1>. HIDE DEF n, p, blk
<1>2. EventSays(e, n, p, p, NoLedger) /\ EventTold(e, n, blk) BY SilentMeans
<1>. HIDE DEF e
<1>. QED BY <1>1, <1>2, SameBook, NoLedgerIs, OneEvent DEF n, p, blk

(* A list of one or of two events. *)
LEMMA MaybeFirst ==
    ASSUME NEW c, NEW x, NEW y
    PROVE  (IF c THEN <<x>> ELSE <<>>) \o <<y>> = IF c THEN <<x, y>> ELSE <<y>>
<1>1. <<x>> \o <<y>> = <<x, y>> BY ConcatTwo
<1>2. <<y>> \in Seq({y}) /\ \A s \in Seq({y}) : <<>> \o s = s OBVIOUS
<1>. QED BY <1>1, <1>2

(* So does exercise, with BtcClaimable before it on a type 2 call. *)
LEMMA ExerciseMines ==
    ASSUME IsBook(book), NEW id, NEW fee \in {0, 1}, Exercise(id, fee)
    PROVE  MinesWell
<1>. DEFINE b2 == Becomes(id, EXERCISED)
            d == [id |-> id, fee |-> fee]
            e == PoolEvent("OptionExercised", d)
            f == PoolEvent("BtcClaimable", [id |-> id])
            call == poolType = 2 /\ book[id].type = CALL
            evs == (IF call THEN <<f>> ELSE <<>>) \o <<e>>
            l == Fees(FeeRows(id, "exercise", fee))
            p == Positions(book)
            p2 == Positions(b2)
            n == Height + 1
            blk == Block(b2, evs, l)
<1>1. Mine(b2, evs, l) /\ id \in Ids BY DEF Exercise, In
<1>2. evs = IF call THEN <<f, e>> ELSE <<e>>
    BY MaybeFirst
<1>3. d.id = id /\ d.fee = fee OBVIOUS
<1>4. blk.book = b2 /\ blk.fees = l.fees BY DEF Block
<1>. HIDE DEF evs, blk, b2, d, n, l, call
<1>5. IsBook(b2) /\ Grows(book, b2) /\ DOMAIN b2 = Ids /\ b2[id].status = EXERCISED
      /\ p2 = Moved(p, id, NULL, EXERCISED)
    BY <1>1, StatusChanges DEF b2
<1>6. id \in DOMAIN p BY <1>1, OptionOfBook
<1>7. l = PaidFee(id, "exercise", fee, n) /\ IsLedger(l)
      /\ (fee = 0 \/ [id |-> id, kind |-> "exercise", amount |-> fee, block |-> n]
                        \in ToSet(blk.fees))
    BY <1>4, FeeRowsAre DEF l, n
<1>. HIDE DEF p, p2
<1>8. EventSays(e, n, p, p2, l) /\ EventTold(e, n, blk)
    BY <1>1, <1>3, <1>4, <1>5, <1>6, <1>7, ExercisedMeans
<1>9. EventSays(f, n, p, p, NoLedger) /\ EventTold(f, n, blk) BY SilentMeans
<1>. HIDE DEF e, f
<1>10. BlockSays(evs, n, p, p2, l) /\ BlockTold(evs, n, blk)
    <2>1. CASE call
        <3>1. BlockSays(<<f, e>>, n, p, p2, Join(NoLedger, l)) /\ BlockTold(<<f, e>>, n, blk)
            BY <1>7, <1>8, <1>9, NoLedgerIs, TwoEvents
        <3>. QED BY <1>2, <1>7, <2>1, <3>1, NoLedgerIs
    <2>2. CASE ~call
        BY <1>2, <1>7, <1>8, <2>2, FirstEvent
    <2>. QED BY <2>1, <2>2
<1>. QED BY <1>1, <1>5, <1>7, <1>10, MinedWell DEF n, p, p2, blk

(* A list of three events. *)
LEMMA ThreeAppend ==
    ASSUME NEW x, NEW y, NEW z PROVE <<x, y, z>> = Append(<<x, y>>, z)
OBVIOUS

(* So does rollOption, whose three events cancel one option and write    *)
(* another.                                                              *)
LEMMA RollMines ==
    ASSUME IsBook(book), NEW id, NEW fee \in {0, 1}, Roll(id, fee)
    PROVE  MinesWell
<1>. DEFINE w == book[id].writer
            type == book[id].type
            b1 == Becomes(id, CANCELLED)
            b2 == WithNew(b1, w, type)
            d == [id |-> id, writer |-> w, fourth |-> fee]
            e == PoolEvent("OptionCancelled", d)
            f == WrittenEvent(NextId, w, type)
            g == PoolEvent("OptionRolled", [id |-> id])
            evs == <<e, f, g>>
            l == Fees(FeeRows(id, "cancel", fee))
            p == Positions(book)
            p1 == Positions(b1)
            p2 == Positions(b2)
            n == Height + 1
            blk == Block(b2, evs, l)
            q == [writer |-> w, buyer |-> NULL, status |-> OPEN]
<1>1. id \in Ids /\ poolType = 0 BY DEF Roll, In
<1>2. CancelledEvent(id, fee) = e BY <1>1 DEF CancelledEvent, EscrowOnly
<1>3. Mine(b2, evs, l) BY <1>2 DEF Roll
<1>4. PICK ty \in WrittenTypes : f = PoolEvent(ty, [id |-> NextId, writer |-> w])
    BY DEF WrittenEvent, WrittenTypes
<1>5. d.id = id /\ d.fourth = fee OBVIOUS
<1>6. blk.book = b2 /\ blk.fees = l.fees BY DEF Block
<1>. HIDE DEF evs, blk, b2, b1, d, n, l, w, type, f
<1>7. IsBook(b1) /\ Grows(book, b1) /\ DOMAIN b1 = Ids /\ b1[id].status = CANCELLED
      /\ p1 = Moved(p, id, NULL, CANCELLED)
    BY <1>1, StatusChanges DEF b1
<1>8. /\ NextId \notin DOMAIN p1
      /\ IsBook(b2) /\ Grows(b1, b2)
      /\ NextId \in DOMAIN b2 /\ Position(b2[NextId]) = q
      /\ \A i \in Ids : b2[i] = b1[i]
      /\ p2 = Put(p1, NextId, q)
    BY <1>7, WithNewIs DEF b2
<1>9. id \in DOMAIN p BY <1>1, OptionOfBook
<1>10. l = PaidFee(id, "cancel", fee, n) /\ IsLedger(l)
       /\ (fee = 0 \/ [id |-> id, kind |-> "cancel", amount |-> fee, block |-> n]
                        \in ToSet(blk.fees))
    BY <1>6, FeeRowsAre DEF l, n
<1>11. b2[id].status = CANCELLED /\ id \in DOMAIN b2 BY <1>1, <1>7, <1>8 DEF Grows
<1>12. Grows(book, b2) BY <1>7, <1>8 DEF Grows
<1>. HIDE DEF p, p1, p2, q
<1>13. EventSays(e, n, p, p1, l) /\ EventTold(e, n, blk)
    BY <1>5, <1>6, <1>7, <1>9, <1>10, <1>11, CancelledMeans
<1>14. EventSays(f, n, p1, p2, NoLedger) /\ EventTold(f, n, blk)
    BY <1>4, <1>6, <1>8, WrittenMeans DEF q
<1>15. EventSays(g, n, p2, p2, NoLedger) /\ EventTold(g, n, blk) BY SilentMeans
<1>. HIDE DEF e, g
<1>16. PICK two : two = <<e, f>> OBVIOUS
<1>17. BlockSays(two, n, p, p2, l) /\ BlockTold(two, n, blk) /\ IsList(two)
    BY <1>10, <1>13, <1>14, <1>16, NoLedgerIs, TwoEvents, ShortLists
<1>18. BlockSays(Append(two, g), n, p, p2, Join(l, NoLedger))
    BY <1>10, <1>15, <1>17, NoLedgerIs, LongerBlock
<1>19. BlockTold(Append(two, g), n, blk) BY <1>15, <1>17, LongerTold
<1>c. <<e, f, g>> = Append(<<e, f>>, g) BY ThreeAppend
<1>20. Append(two, g) = evs BY <1>16, <1>c DEF evs
<1>. QED BY <1>3, <1>8, <1>10, <1>12, <1>18, <1>19, <1>20, NoLedgerIs, MinedWell
         DEF n, p, p2, blk

(* The k-th event takes the positions and the ledger one step on. *)
StepSays(evs, n, ps, ls, k) ==
    \E l : /\ IsLedger(l)
           /\ EventSays(evs[k], n, ps[k - 1], ps[k], l)
           /\ ls[k] = Join(ls[k - 1], l)

(* A prefix and the next longer one. *)
LEMMA PrefixGrows ==
    ASSUME NEW S, NEW s \in Seq(S), NEW k \in Nat, k + 1 <= Len(s)
    PROVE  /\ SubSeq(s, 1, k) \in Seq(S) /\ SubSeq(s, 1, 0) = <<>>
           /\ SubSeq(s, 1, k + 1) = Append(SubSeq(s, 1, k), s[k + 1])
OBVIOUS

(* The longest prefix is the whole, the shortest nothing. *)
LEMMA WholePrefix ==
    ASSUME NEW S, NEW s \in Seq(S) PROVE SubSeq(s, 1, Len(s)) = s /\ SubSeq(s, 1, 0) = <<>>
OBVIOUS

(* Events that each take the positions one step on take them all the     *)
(* way.                                                                  *)
LEMMA ManySay ==
    ASSUME NEW evs, IsList(evs), NEW n, NEW ps, NEW ls, ls[0] = NoLedger,
           \A k \in 1 .. Len(evs) : StepSays(evs, n, ps, ls, k)
    PROVE  /\ IsLedger(ls[Len(evs)])
           /\ BlockSays(evs, n, ps[0], ps[Len(evs)], ls[Len(evs)])
<1>. DEFINE Pre(k) == SubSeq(evs, 1, k)
            Holds(k) == IsLedger(ls[k]) /\ BlockSays(Pre(k), n, ps[0], ps[k], ls[k])
            Good == {k \in Nat : k <= Len(evs) => Holds(k)}
<1>1. PICK S : evs \in Seq(S) BY DEF IsList
<1>2. Len(evs) \in Nat /\ Pre(Len(evs)) = evs /\ Pre(0) = <<>> BY <1>1, WholePrefix
<1>3. \A k \in Nat : k + 1 <= Len(evs) => /\ IsList(Pre(k))
                                          /\ Pre(k + 1) = Append(Pre(k), evs[k + 1])
    BY <1>1, PrefixGrows DEF IsList
<1>. HIDE DEF Pre
<1>4. 0 \in Good
    BY <1>2, EmptyBlock, NoLedgerIs
<1>5. ASSUME NEW k \in Nat, k \in Good PROVE k + 1 \in Good
    <2>1. SUFFICES ASSUME k + 1 <= Len(evs) PROVE Holds(k + 1) OBVIOUS
    <2>2. Holds(k) BY <1>2, <1>5, <2>1
    <2>3. k + 1 \in 1 .. Len(evs) /\ (k + 1) - 1 = k BY <1>2, <2>1
    <2>4. PICK l : IsLedger(l) /\ EventSays(evs[k + 1], n, ps[k], ps[k + 1], l)
                   /\ ls[k + 1] = Join(ls[k], l)
        <3>1. StepSays(evs, n, ps, ls, k + 1) BY <2>3
        <3>. QED BY <2>3, <3>1 DEF StepSays
    <2>5. IsList(Pre(k)) /\ Pre(k + 1) = Append(Pre(k), evs[k + 1]) BY <1>3, <2>1
    <2>6. BlockSays(Append(Pre(k), evs[k + 1]), n, ps[0], ps[k + 1], Join(ls[k], l))
        BY <2>2, <2>4, <2>5, LongerBlock
    <2>. QED BY <2>2, <2>4, <2>5, <2>6, JoinIsLedger
<1>. HIDE DEF Good
<1>6. Nat \subseteq Good BY <1>4, <1>5, SetInduction
<1>7. Holds(Len(evs)) BY <1>2, <1>6 DEF Good
<1>. QED BY <1>2, <1>7

(* Events that each make only the block's statements do so together. *)
LEMMA ManyTold ==
    ASSUME NEW evs, IsList(evs), NEW n, NEW blk,
           \A k \in 1 .. Len(evs) : EventTold(evs[k], n, blk)
    PROVE  BlockTold(evs, n, blk)
<1>. DEFINE Pre(k) == SubSeq(evs, 1, k)
            Good == {k \in Nat : k <= Len(evs) => BlockTold(Pre(k), n, blk)}
<1>1. PICK S : evs \in Seq(S) BY DEF IsList
<1>2. Len(evs) \in Nat /\ Pre(Len(evs)) = evs /\ Pre(0) = <<>> BY <1>1, WholePrefix
<1>3. \A k \in Nat : k + 1 <= Len(evs) => /\ IsList(Pre(k))
                                          /\ Pre(k + 1) = Append(Pre(k), evs[k + 1])
    BY <1>1, PrefixGrows DEF IsList
<1>. HIDE DEF Pre
<1>4. 0 \in Good BY <1>2, EmptyBlock
<1>5. ASSUME NEW k \in Nat, k \in Good PROVE k + 1 \in Good
    <2>1. SUFFICES ASSUME k + 1 <= Len(evs) PROVE BlockTold(Pre(k + 1), n, blk) OBVIOUS
    <2>2. BlockTold(Pre(k), n, blk) /\ k + 1 \in 1 .. Len(evs) BY <1>2, <1>5, <2>1
    <2>3. IsList(Pre(k)) /\ Pre(k + 1) = Append(Pre(k), evs[k + 1]) BY <1>3, <2>1
    <2>4. EventTold(evs[k + 1], n, blk) BY <2>2
    <2>5. BlockTold(Append(Pre(k), evs[k + 1]), n, blk) BY <2>2, <2>3, <2>4, LongerTold
    <2>. QED BY <2>3, <2>5
<1>. HIDE DEF Good
<1>6. Nat \subseteq Good BY <1>4, <1>5, SetInduction
<1>. QED BY <1>2, <1>6 DEF Good

(* The positions p after the first k of ids became v. *)
After(p, ids, k, v) ==
    [i \in DOMAIN p |->
        IF \E j \in 1 .. k : ids[j] = i
        THEN [writer |-> p[i].writer, buyer |-> p[i].buyer, status |-> v] ELSE p[i]]

(* Before the first of a batch nothing has changed. *)
LEMMA AfterNone ==
    ASSUME NEW p, p = [i \in DOMAIN p |-> p[i]], NEW ids, NEW v
    PROVE  After(p, ids, 0, v) = p
BY DEF After

(* The next of a batch moves its option. *)
LEMMA AfterNext ==
    ASSUME NEW p, NEW ids, NEW v, NEW k \in Nat, ids[k + 1] \in DOMAIN p
    PROVE  /\ ids[k + 1] \in DOMAIN After(p, ids, k, v)
           /\ After(p, ids, k + 1, v) = Moved(After(p, ids, k, v), ids[k + 1], NULL, v)
<1>. DEFINE q == After(p, ids, k, v)
            id == ids[k + 1]
            r == After(p, ids, k + 1, v)
<1>1. DOMAIN q = DOMAIN p /\ id \in DOMAIN q BY DEF After
<1>2. q[id].writer = p[id].writer /\ q[id].buyer = p[id].buyer BY DEF After
<1>3. Coalesce(NULL, q[id].buyer) = p[id].buyer BY <1>2 DEF Coalesce
<1>4. Moved(q, id, NULL, v) = Put(q, id, [writer |-> p[id].writer, buyer |-> p[id].buyer,
                                          status |-> v])
    BY <1>2, <1>3 DEF Moved
<1>5. \A i : (\E j \in 1 .. k + 1 : ids[j] = i) <=> (i = id \/ \E j \in 1 .. k : ids[j] = i)
    OBVIOUS
<1>6. r = [i \in DOMAIN p |-> IF i = id
              THEN [writer |-> p[id].writer, buyer |-> p[id].buyer, status |-> v] ELSE q[i]]
    BY <1>5 DEF After
<1>7. DOMAIN q \cup {id} = DOMAIN p BY <1>1
<1>8. Put(q, id, [writer |-> p[id].writer, buyer |-> p[id].buyer, status |-> v]) = r
    BY <1>6, <1>7 DEF Put
<1>. QED BY <1>1, <1>4, <1>8

(* The book after a batch. *)
LEMMA AllBecomeIs ==
    ASSUME IsBook(book), NEW m \in Nat, NEW ids \in [1 .. m -> Ids], NEW v
    PROVE  LET b2 == AllBecome(ids, v) IN
           /\ IsBook(b2) /\ Grows(book, b2) /\ DOMAIN b2 = Ids
           /\ \A k \in 1 .. m : b2[ids[k]].status = v
           /\ Positions(b2) = After(Positions(book), ids, m, v)
<1>. DEFINE b2 == AllBecome(ids, v)
            p == Positions(book)
<1>1. DOMAIN b2 = Ids /\ b2 = [i \in DOMAIN b2 |-> b2[i]] BY DEF AllBecome
<1>2. \A i : i \in ToSet(ids) <=> \E j \in 1 .. m : ids[j] = i BY DEF ToSet
<1>3. \A i \in Ids : b2[i] = IF \E j \in 1 .. m : ids[j] = i THEN OfStatus(book[i], v)
                             ELSE book[i]
    BY <1>2 DEF AllBecome, OfStatus
<1>. HIDE DEF b2
<1>4. \A i \in Ids : /\ IsOption(book[i]) /\ IsOption(OfStatus(book[i], v))
                     /\ OfStatus(book[i], v).writer = book[i].writer
                     /\ OfStatus(book[i], v).status = v
                     /\ Position(OfStatus(book[i], v))
                          = [writer |-> book[i].writer, buyer |-> book[i].buyer, status |-> v]
    BY OptionOfBook, OptionMoves
<1>5. IsBook(b2) BY <1>1, <1>3, <1>4 DEF IsBook, Ids
<1>6. Grows(book, b2) BY <1>1, <1>3, <1>4 DEF Grows, Ids
<1>7. ASSUME NEW k \in 1 .. m PROVE b2[ids[k]].status = v
    <2>1. PICK i \in Ids : i = ids[k] OBVIOUS
    <2>2. b2[i] = OfStatus(book[i], v) BY <1>3, <2>1
    <2>. QED BY <1>4, <2>1, <2>2
<1>8. \A i \in Ids : /\ i \in DOMAIN p /\ p[i] = Position(book[i])
                     /\ p[i].writer = book[i].writer /\ p[i].buyer = book[i].buyer
    BY DEF Positions, Ids, Position
<1>9. DOMAIN p = Ids BY DEF Positions, Ids
<1>. HIDE DEF p
<1>10. \A i \in Ids : Position(b2[i]) = IF \E j \in 1 .. m : ids[j] = i
            THEN [writer |-> p[i].writer, buyer |-> p[i].buyer, status |-> v] ELSE p[i]
    BY <1>3, <1>4, <1>8
<1>11. Positions(b2) = After(p, ids, m, v) BY <1>1, <1>9, <1>10 DEF Positions, After
<1>. QED BY <1>1, <1>5, <1>6, <1>7, <1>11 DEF b2, p

(* So does a batch of settle calls. *)
LEMMA SettleMines ==
    ASSUME IsBook(book), NEW m \in Nat, NEW ids \in [1 .. m -> Ids], Settle(ids)
    PROVE  MinesWell
<1>. DEFINE b2 == AllBecome(ids, EXPIRED)
            d(k) == [id |-> ids[k]]
            e(k) == PoolEvent("OptionExpired", d(k))
            evs == [k \in 1 .. m |-> e(k)]
            p == Positions(book)
            n == Height + 1
            blk == Block(b2, evs, NoLedger)
            ps == [k \in 0 .. m |-> After(p, ids, k, EXPIRED)]
            ls == [k \in 0 .. m |-> NoLedger]
<1>1. Mine(b2, evs, NoLedger) BY DEF Settle
<1>2. evs \in Seq({e(k) : k \in 1 .. m}) /\ Len(evs) = m /\ \A k \in 1 .. m : evs[k] = e(k)
    OBVIOUS
<1>3. IsList(evs) BY <1>2 DEF IsList
<1>4. blk.book = b2 BY DEF Block
<1>5. \A k : d(k).id = ids[k] OBVIOUS
<1>6. /\ ps[0] = After(p, ids, 0, EXPIRED) /\ ls[0] = NoLedger
      /\ ps[m] = After(p, ids, m, EXPIRED) /\ ls[m] = NoLedger
      /\ \A k \in 1 .. m : /\ ps[k - 1] = After(p, ids, k - 1, EXPIRED)
                           /\ ps[k] = After(p, ids, k, EXPIRED)
                           /\ ls[k - 1] = NoLedger /\ ls[k] = NoLedger
    OBVIOUS
<1>. HIDE DEF b2, d, n, blk, evs, ps, ls
<1>7. /\ IsBook(b2) /\ Grows(book, b2) /\ DOMAIN b2 = Ids
      /\ \A k \in 1 .. m : b2[ids[k]].status = EXPIRED
      /\ Positions(b2) = After(p, ids, m, EXPIRED)
    BY AllBecomeIs DEF b2
<1>8. p = [i \in DOMAIN p |-> p[i]] /\ DOMAIN p = Ids BY DEF Positions, Ids
<1>. HIDE DEF p
<1>9. ps[0] = p BY <1>6, <1>8, AfterNone
<1>10. ASSUME NEW k \in 1 .. m
       PROVE  StepSays(evs, n, ps, ls, k) /\ EventTold(evs[k], n, blk)
    <2>1. k - 1 \in Nat /\ (k - 1) + 1 = k /\ ids[k] \in Ids OBVIOUS
    <2>2. ids[k] \in DOMAIN ps[k - 1] /\ ps[k] = Moved(ps[k - 1], ids[k], NULL, EXPIRED)
        BY <1>6, <1>8, <2>1, AfterNext
    <2>3. d(k).id \in DOMAIN blk.book /\ blk.book[d(k).id].status = EXPIRED
        BY <1>4, <1>5, <1>7, <2>1
    <2>4. EventSays(e(k), n, ps[k - 1], ps[k], NoLedger) /\ EventTold(e(k), n, blk)
        BY <1>5, <2>2, <2>3, StatusEventMeans
    <2>5. Join(NoLedger, NoLedger) = NoLedger /\ IsLedger(NoLedger) BY NoLedgerIs
    <2>. QED BY <1>2, <1>6, <2>4, <2>5 DEF StepSays
<1>a. BlockSays(evs, n, ps[0], ps[Len(evs)], ls[Len(evs)])
    BY <1>2, <1>3, <1>6, <1>10, ManySay
<1>11. BlockSays(evs, n, p, Positions(b2), NoLedger)
    BY <1>2, <1>6, <1>7, <1>9, <1>a
<1>12. BlockTold(evs, n, blk) BY <1>2, <1>3, <1>10, ManyTold
<1>. QED BY <1>1, <1>7, <1>11, <1>12, NoLedgerIs, MinedWell DEF n, p, blk

(* A ledger of fees alone. *)
LEMMA FeesAre ==
    ASSUME NEW f PROVE Fees(f) = [fees |-> f, transfers |-> <<>>, swaps |-> <<>>]
<1>1. NoLedger \in [fees : {<<>>, f}, transfers : {<<>>}, swaps : {<<>>}] BY DEF NoLedger
<1>. QED BY <1>1 DEF Fees, NoLedger

(* One fee more. *)
LEMMA FeesJoin ==
    ASSUME NEW f, IsList(f), NEW row
    PROVE  /\ IsLedger(Fees(f))
           /\ Join(Fees(f), Fees(<<row>>)) = Fees(Append(f, row))
<1>1. f \o <<row>> = Append(f, row) /\ <<>> \o <<>> = <<>>
    BY DEF IsList
<1>a. PICK r, g : r = <<row>> /\ g = Append(f, row) OBVIOUS
<1>2. Fees(f) = [fees |-> f, transfers |-> <<>>, swaps |-> <<>>]
      /\ Fees(r) = [fees |-> r, transfers |-> <<>>, swaps |-> <<>>]
      /\ Fees(g) = [fees |-> g, transfers |-> <<>>, swaps |-> <<>>]
    BY FeesAre
<1>3. IsLedger(Fees(f)) BY <1>2, ShortLists DEF IsLedger
<1>4. Join(Fees(f), Fees(r)) = [fees |-> f \o r, transfers |-> <<>> \o <<>>,
                               swaps |-> <<>> \o <<>>]
    BY <1>2 DEF Join
<1>5. f \o r = g BY <1>1, <1>a
<1>6. Join(Fees(f), Fees(r)) = Fees(g) BY <1>1, <1>2, <1>4, <1>5
<1>. QED BY <1>3, <1>6, <1>a

(* The rows of the fees of the first k of ids. *)
FeeList(ids, k, fee, n) ==
    [j \in 1 .. k |-> [id |-> ids[j], kind |-> "cancel", amount |-> fee, block |-> n]]

(* The fees of a batch, one option more. *)
LEMMA FeeListNext ==
    ASSUME NEW ids, NEW k \in Nat, NEW fee, NEW n
    PROVE  /\ IsList(FeeList(ids, k, fee, n))
           /\ FeeList(ids, k + 1, fee, n)
                = Append(FeeList(ids, k, fee, n),
                         [id |-> ids[k + 1], kind |-> "cancel", amount |-> fee, block |-> n])
<1>. DEFINE r(j) == [id |-> ids[j], kind |-> "cancel", amount |-> fee, block |-> n]
            S == {r(j) : j \in 1 .. k + 1}
            a == [j \in 1 .. k |-> r(j)]
            b == [j \in 1 .. k + 1 |-> r(j)]
<1>1. a \in Seq(S) /\ b \in Seq(S) /\ Len(a) = k /\ Len(b) = k + 1
      /\ r(k + 1) \in S
    OBVIOUS
<1>2. (\A j \in 1 .. k : a[j] = r(j)) /\ \A j \in 1 .. k + 1 : b[j] = r(j) OBVIOUS
<1>3. a = FeeList(ids, k, fee, n) /\ b = FeeList(ids, k + 1, fee, n) BY DEF FeeList
<1>. HIDE DEF r, S, a, b
<1>4. b = Append(a, r(k + 1)) BY <1>1, <1>2
<1>. QED BY <1>1, <1>3, <1>4 DEF IsList, r

(* The fees of the first k cancellations of a batch. *)
CancelLedger(ids, k, fee, n) ==
    IF fee = 0 THEN NoLedger ELSE Fees(FeeList(ids, k, fee, n))

(* What the event of a cancellation with this fee may end with. *)
MayEnd(fourth, fee) == fourth = fee \/ (fee = 0 /\ fourth = EscrowHash)

(* k comes after j. *)
Follows(j, k) == j \in Nat /\ k = j + 1

(* The ledger of a batch of cancellations, one option more. *)
LEMMA CancelLedgerNext ==
    ASSUME NEW ids, NEW j, NEW k, Follows(j, k), NEW fee, fee \in {0, 1}, NEW n,
           NEW fourth, MayEnd(fourth, fee)
    PROVE  CancelLedger(ids, k, fee, n)
             = Join(CancelLedger(ids, j, fee, n), PaidFee(ids[k], "cancel", fourth, n))
<1>. DEFINE row == [id |-> ids[k], kind |-> "cancel", amount |-> fee, block |-> n]
<1>1. CASE fee = 0
    <2>1. PaidFee(ids[k], "cancel", fourth, n) = NoLedger BY <1>1 DEF PaidFee, MayEnd
    <2>. QED BY <1>1, <2>1, NoLedgerIs DEF CancelLedger
<1>2. CASE fee = 1
    <2>1. PaidFee(ids[k], "cancel", fourth, n) = Fees(<<row>>)
        BY <1>2 DEF PaidFee, EscrowHash, MayEnd
    <2>2. PICK f, g : f = FeeList(ids, j, fee, n) /\ g = FeeList(ids, k, fee, n) OBVIOUS
    <2>3. IsList(f) /\ g = Append(f, row) BY <2>2, FeeListNext DEF Follows
    <2>. HIDE DEF row
    <2>4. Join(Fees(f), Fees(<<row>>)) = Fees(g) BY <2>3, FeesJoin
    <2>. QED BY <1>2, <2>1, <2>2, <2>4 DEF CancelLedger
<1>. QED BY <1>1, <1>2

(* Before the first option it is empty. *)
LEMMA CancelLedgerStarts ==
    ASSUME NEW ids, NEW fee, NEW n PROVE CancelLedger(ids, 0, fee, n) = NoLedger
<1>1. FeeList(ids, 0, fee, n) = <<>> BY DEF FeeList
<1>2. Fees(<<>>) = NoLedger BY FeesAre DEF NoLedger
<1>. QED BY <1>1, <1>2 DEF CancelLedger

(* So does a batch of cancellations, whoever is paid. *)
LEMMA CancelMines ==
    ASSUME IsBook(book), NEW m \in Nat, NEW ids \in [1 .. m -> Ids], NEW fee \in {0, 1},
           Cancel(ids, fee)
    PROVE  MinesWell
<1>. DEFINE b2 == AllBecome(ids, CANCELLED)
            n == Height + 1
            fourth(k) == IF EscrowOnly(ids[k]) THEN EscrowHash ELSE fee
            d(k) == [id |-> ids[k], writer |-> book[ids[k]].writer, fourth |-> fourth(k)]
            e(k) == PoolEvent("OptionCancelled", d(k))
            evs == [k \in 1 .. m |-> e(k)]
            p == Positions(book)
            fs == FeeList(ids, m, fee, n)
            l == CancelLedger(ids, m, fee, n)
            blk == Block(b2, evs, l)
            ps == [k \in 0 .. m |-> After(p, ids, k, CANCELLED)]
            ls == [k \in 0 .. m |-> CancelLedger(ids, k, fee, n)]
<1>0. DOMAIN ids = 1 .. m OBVIOUS
<1>1. Mine(b2, evs, l)
    <2>1. Fees(IF fee = 0 THEN <<>> ELSE [k \in DOMAIN ids |-> FeeRow(ids[k], "cancel", fee)])
            = l
        <3>1. Fees(<<>>) = NoLedger BY FeesAre DEF NoLedger
        <3>2. fs = [k \in DOMAIN ids |-> FeeRow(ids[k], "cancel", fee)]
            BY <1>0 DEF FeeList, FeeRow
        <3>. QED BY <3>1, <3>2 DEF CancelLedger
    <2>2. evs = [k \in DOMAIN ids |-> CancelledEvent(ids[k], fee)]
        BY <1>0 DEF CancelledEvent
    <2>. HIDE DEF evs, l
    <2>. QED BY <2>1, <2>2 DEF Cancel
<1>2. evs \in Seq({e(k) : k \in 1 .. m}) /\ Len(evs) = m /\ \A k \in 1 .. m : evs[k] = e(k)
    OBVIOUS
<1>3. IsList(evs) BY <1>2 DEF IsList
<1>4. blk.book = b2 /\ blk.fees = l.fees BY DEF Block
<1>5. \A k : d(k).id = ids[k] /\ d(k).fourth = fourth(k) OBVIOUS
<1>6. /\ ps[0] = After(p, ids, 0, CANCELLED) /\ ls[0] = CancelLedger(ids, 0, fee, n)
      /\ ps[m] = After(p, ids, m, CANCELLED) /\ ls[m] = l
      /\ \A k \in 1 .. m : /\ ps[k - 1] = After(p, ids, k - 1, CANCELLED)
                           /\ ps[k] = After(p, ids, k, CANCELLED)
                           /\ ls[k - 1] = CancelLedger(ids, k - 1, fee, n)
                           /\ ls[k] = CancelLedger(ids, k, fee, n)
    OBVIOUS
<1>7. \A k \in 1 .. m : fourth(k) = fee \/ (fee = 0 /\ fourth(k) = EscrowHash)
    BY <1>0 DEF Cancel
<1>8. ASSUME fee # 0, NEW k \in 1 .. m
      PROVE  [id |-> ids[k], kind |-> "cancel", amount |-> fee, block |-> n] \in ToSet(blk.fees)
    <2>1. l.fees = fs BY <1>8, FeesAre DEF CancelLedger
    <2>2. DOMAIN fs = 1 .. m
          /\ fs[k] = [id |-> ids[k], kind |-> "cancel", amount |-> fee, block |-> n]
        BY DEF FeeList
    <2>. HIDE DEF fs, l, blk
    <2>. QED BY <1>4, <2>1, <2>2 DEF ToSet
<1>. HIDE DEF b2, d, n, blk, evs, ps, ls, fourth, l
<1>9. /\ IsBook(b2) /\ Grows(book, b2) /\ DOMAIN b2 = Ids
      /\ \A k \in 1 .. m : b2[ids[k]].status = CANCELLED
      /\ Positions(b2) = After(p, ids, m, CANCELLED)
    BY AllBecomeIs DEF b2
<1>10. p = [i \in DOMAIN p |-> p[i]] /\ DOMAIN p = Ids BY DEF Positions, Ids
<1>. HIDE DEF p
<1>11. ps[0] = p /\ ls[0] = NoLedger BY <1>6, <1>10, AfterNone, CancelLedgerStarts
<1>12. ASSUME NEW k \in 1 .. m
       PROVE  StepSays(evs, n, ps, ls, k) /\ EventTold(evs[k], n, blk)
    <2>. DEFINE x == PaidFee(ids[k], "cancel", fourth(k), n)
    <2>1. k - 1 \in Nat /\ (k - 1) + 1 = k /\ ids[k] \in Ids OBVIOUS
    <2>2. ids[k] \in DOMAIN ps[k - 1] /\ ps[k] = Moved(ps[k - 1], ids[k], NULL, CANCELLED)
        BY <1>6, <1>10, <2>1, AfterNext
    <2>3. IsLedger(x) /\ ls[k] = Join(ls[k - 1], x)
        <3>1. PICK j : j = k - 1 OBVIOUS
        <3>2. Follows(j, k) /\ MayEnd(fourth(k), fee) BY <1>7, <2>1, <3>1 DEF MayEnd, Follows
        <3>3. CancelLedger(ids, k, fee, n) = Join(CancelLedger(ids, j, fee, n), x)
            BY <3>2, CancelLedgerNext
        <3>. QED BY <1>6, <3>1, <3>3, PaidFeeIsLedger
    <2>4. d(k).id \in DOMAIN blk.book /\ blk.book[d(k).id].status = CANCELLED
        BY <1>4, <1>5, <1>9, <2>1
    <2>5. d(k).fourth \in {0, EscrowHash}
          \/ [id |-> d(k).id, kind |-> "cancel", amount |-> d(k).fourth, block |-> n]
                \in ToSet(blk.fees)
        BY <1>5, <1>7, <1>8
    <2>6. EventSays(e(k), n, ps[k - 1], Moved(ps[k - 1], d(k).id, NULL, CANCELLED),
                    PaidFee(d(k).id, "cancel", d(k).fourth, n))
          /\ EventTold(e(k), n, blk)
        BY <1>5, <2>2, <2>4, <2>5, CancelledMeans
    <2>7. EventSays(e(k), n, ps[k - 1], ps[k], x) BY <1>5, <2>2, <2>6
    <2>. HIDE DEF x, e
    <2>. QED BY <1>2, <2>3, <2>6, <2>7 DEF StepSays
<1>13. BlockSays(evs, n, ps[0], ps[Len(evs)], ls[Len(evs)]) /\ IsLedger(ls[Len(evs)])
    BY <1>2, <1>3, <1>11, <1>12, ManySay
<1>14. BlockSays(evs, n, p, Positions(b2), l) /\ IsLedger(l)
    BY <1>2, <1>6, <1>9, <1>11, <1>13
<1>15. BlockTold(evs, n, blk) BY <1>2, <1>3, <1>12, ManyTold
<1>. QED BY <1>1, <1>9, <1>14, <1>15, MinedWell DEF n, p, blk

(* Every transaction mines a block whose events say what it did. *)
LEMMA MineMeans ==
    ASSUME IsBook(book), MineBlock PROVE MinesWell
<1>1. PICK u \in Users, id \in 0 .. MaxIds - 1, fee \in {0, 1} :
        \/ \E type \in {CALL, PUT} : WriteOption(u, type)
        \/ BuyOption(id, u, fee) \/ ReserveOption(id, u)
        \/ ExecuteReservation(id) \/ CancelReservation(id)
        \/ Roll(id, fee) \/ Exercise(id, fee)
        \/ TransferOption(id, u)
        \/ Swap(u) \/ Elsewhere(u)
        \/ \E ids \in Batches : Cancel(ids, fee) \/ Settle(ids)
    BY DEF MineBlock
<1>2. ASSUME \E type \in {CALL, PUT} : WriteOption(u, type) PROVE MinesWell
    BY <1>2, WriteOptionMines
<1>3. ASSUME NEW ids \in Batches, Cancel(ids, fee) \/ Settle(ids) PROVE MinesWell
    <2>1. PICK m \in 1 .. NextId : ids \in [1 .. m -> Ids] BY DEF Batches
    <2>2. m \in Nat OBVIOUS
    <2>3. CASE Cancel(ids, fee) BY <2>1, <2>2, <2>3, CancelMines
    <2>4. CASE Settle(ids) BY <2>1, <2>2, <2>4, SettleMines
    <2>. QED BY <1>3, <2>3, <2>4
<1>4. CASE BuyOption(id, u, fee) BY <1>4, BuyOptionMines
<1>5. CASE ReserveOption(id, u) BY <1>5, ReserveOptionMines
<1>6. CASE ExecuteReservation(id) BY <1>6, ExecuteReservationMines
<1>7. CASE CancelReservation(id) BY <1>7, CancelReservationMines
<1>8. CASE Roll(id, fee) BY <1>8, RollMines
<1>9. CASE Exercise(id, fee) BY <1>9, ExerciseMines
<1>10. CASE TransferOption(id, u) BY <1>10, TransferOptionMines
<1>11. CASE Swap(u) BY <1>11, SwapMines
<1>12. CASE Elsewhere(u) BY <1>12, ElsewhereMines
<1>. QED BY <1>1, <1>2, <1>3, <1>4, <1>5, <1>6, <1>7, <1>8, <1>9, <1>10, <1>11, <1>12

(* ---- the chain ---- *)

(* The book after the first n blocks. *)
BookAt(c, n) == IF n = 0 THEN <<>> ELSE c[n].book

(* Every block of c means what it did, and b is the last book. *)
ChainIs(c, b) ==
    /\ IsList(c)
    /\ IsBook(b) /\ b = BookAt(c, Len(c))
    /\ \A n \in 1 .. Len(c) : /\ IsBook(c[n].book) /\ Grows(c[n].book, b)
                              /\ BlockMeans(c[n], n, Positions(BookAt(c, n - 1)))

(* The empty chain. *)
LEMMA ChainStarts == ChainIs(<<>>, <<>>)
<1>1. IsBook(<<>>) BY DEF IsBook
<1>. QED BY <1>1, ShortLists DEF ChainIs, BookAt

(* A chain with one well mined block more. *)
LEMMA ChainExtends ==
    ASSUME NEW c, NEW b, ChainIs(c, b), NEW blk, IsBook(blk.book), Grows(b, blk.book),
           BlockMeans(blk, Len(c) + 1, Positions(b))
    PROVE  ChainIs(Append(c, blk), blk.book)
<1>. DEFINE d == Append(c, blk)
<1>1. PICK S : c \in Seq(S) BY DEF ChainIs, IsList
<1>2. /\ d \in Seq(S \cup {blk}) /\ Len(c) \in Nat /\ Len(d) = Len(c) + 1
      /\ d[Len(d)] = blk /\ \A n \in 1 .. Len(c) : d[n] = c[n]
    BY <1>1
<1>. HIDE DEF d
<1>3. IsList(d) BY <1>2 DEF IsList
<1>4. BookAt(d, Len(d)) = blk.book BY <1>2 DEF BookAt
<1>5. \A n \in 0 .. Len(c) : BookAt(d, n) = BookAt(c, n) BY <1>2 DEF BookAt
<1>6. ASSUME NEW n \in 1 .. Len(d)
      PROVE  /\ IsBook(d[n].book) /\ Grows(d[n].book, blk.book)
             /\ BlockMeans(d[n], n, Positions(BookAt(d, n - 1)))
    <2>1. CASE n = Len(d)
        <3>1. d[n] = blk /\ n - 1 = Len(c) /\ n = Len(c) + 1 BY <1>2, <2>1
        <3>2. BookAt(d, n - 1) = b BY <1>2, <1>5, <3>1 DEF ChainIs
        <3>3. Grows(blk.book, blk.book) BY DEF Grows
        <3>. QED BY <3>1, <3>2, <3>3
    <2>2. CASE n # Len(d)
        <3>1. n \in 1 .. Len(c) /\ d[n] = c[n] /\ n - 1 \in 0 .. Len(c) BY <1>2, <2>2
        <3>2. IsBook(c[n].book) /\ Grows(c[n].book, b)
              /\ BlockMeans(c[n], n, Positions(BookAt(c, n - 1)))
            BY <3>1 DEF ChainIs
        <3>3. Grows(c[n].book, blk.book) BY <3>2 DEF Grows
        <3>. QED BY <1>5, <3>1, <3>2, <3>3
    <2>. QED BY <2>1, <2>2
<1>7. ChainIs(d, blk.book) BY <1>3, <1>4, <1>6 DEF ChainIs
<1>. QED BY <1>7 DEF d

(* ---- what the tables have heard ---- *)

(* NeverInvents, of the tables t and the first m blocks of c. *)
HeardRow(row, id, c, m) ==
    LET past == {n \in 1 .. m : id \in DOMAIN c[n].book} IN
    /\ \E n \in past : c[n].book[id].status = row.status
    /\ \E n \in past : c[n].book[id].buyer = row.buyer
    /\ \A n \in past : c[n].book[id].writer = row.writer
HeardFee(row, c, m) ==
    row.amount = EscrowHash \/ (row.block \in 1 .. m /\ row \in ToSet(c[row.block].fees))
Heard(t, c, m) ==
    /\ IsTables(t)
    /\ \A id \in DOMAIN t.options : HeardRow(t.options[id], id, c, m)
    /\ \A row \in ToSet(t.fees) : HeardFee(row, c, m)

(* Empty tables have heard nothing. *)
LEMMA NothingHeard == ASSUME NEW c PROVE Heard(NoTables, c, 0)
<1>1. NoTables \in TableSet({<<>>}) BY DEF NoTables, TableSet
<1>2. IsTables(NoTables) BY <1>1 DEF IsTables, IsRows, NoTables
<1>. QED BY <1>2 DEF Heard, NoTables, ToSet

(* A row stays heard when a block confirms what changed of it. *)
LEMMA HeardAgain ==
    ASSUME NEW row, NEW row2, NEW id, NEW c, NEW m, NEW n, n \in 1 .. m, id \in DOMAIN c[n].book,
           HeardRow(row, id, c, m), row2.writer = row.writer,
           row2.status = row.status \/ row2.status = c[n].book[id].status,
           row2.buyer = row.buyer \/ row2.buyer = c[n].book[id].buyer
    PROVE  HeardRow(row2, id, c, m)
BY DEF HeardRow

(* The parts of a position. *)
LEMMA PositionIs ==
    ASSUME NEW row, NEW w, NEW b, NEW v, Position(row) = [writer |-> w, buyer |-> b, status |-> v]
    PROVE  row.writer = w /\ row.buyer = b /\ row.status = v
BY DEF Position

(* Tables with a heard row stored. *)
LEMMA HeardStores ==
    ASSUME NEW t, NEW u, NEW id, NEW row, NEW c, NEW m,
           Heard(t, c, m), Stores(t, u, id, row), HeardRow(row, id, c, m)
    PROVE  Heard(u, c, m)
<1>1. \A i \in DOMAIN u.options : i = id \/ (i \in DOMAIN t.options /\ u.options[i] = t.options[i])
    BY DEF Stores, Put
<1>2. id \in DOMAIN u.options => u.options[id] = row BY DEF Stores, Put
<1>3. \A i \in DOMAIN u.options : HeardRow(u.options[i], i, c, m) BY <1>1, <1>2 DEF Heard
<1>. QED BY <1>3 DEF Heard, Stores

(* A block's INSERT of an option invents nothing. *)
LEMMA InsertOptionHeard ==
    ASSUME NEW t, NEW s, NEW c, NEW b, NEW m, NEW n, ChainIs(c, b), m \in 0 .. Len(c),
           n \in 1 .. m, Heard(t, c, m), Told(s, c[n], n), s.op = "insertOption"
    PROVE  Heard(Do(t, s), c, m)
<1>1. s.id \in DOMAIN c[n].book /\ IsRow(s.row) /\ Position(s.row) = Position(c[n].book[s.id])
    BY DEF Told
<1>2. CASE s.id \in DOMAIN t.options
    BY <1>2 DEF Do, DoInsertOption
<1>3. CASE s.id \notin DOMAIN t.options
    <2>1. Do(t, s) = Do(t, InsertOption(s.id, s.row))
        BY DEF Do, InsertOption, DoInsertOption
    <2>2. Stores(t, Do(t, s), s.id, s.row) BY <1>1, <1>3, <2>1, InsertStores DEF Heard
    <2>3. s.row.writer = c[n].book[s.id].writer /\ s.row.buyer = c[n].book[s.id].buyer
          /\ s.row.status = c[n].book[s.id].status
        BY <1>1, PositionIs DEF Position
    <2>4. \A k \in 1 .. m : s.id \in DOMAIN c[k].book
                              => c[k].book[s.id].writer = c[n].book[s.id].writer
        <3>1. Len(c) \in Nat BY DEF ChainIs, IsList
        <3>2. \A k \in 1 .. m : k \in 1 .. Len(c) BY <3>1
        <3>3. \A k \in 1 .. m : Grows(c[k].book, b) BY <3>2 DEF ChainIs
        <3>. QED BY <1>1, <3>3 DEF Grows
    <2>5. HeardRow(s.row, s.id, c, m) BY <1>1, <2>3, <2>4 DEF HeardRow
    <2>. QED BY <2>2, <2>5, HeardStores
<1>. QED BY <1>2, <1>3

(* Nor does its UPDATE of a status. *)
LEMMA StatusHeard ==
    ASSUME NEW t, NEW s, NEW c, NEW m, NEW n, n \in 1 .. m, Heard(t, c, m),
           Told(s, c[n], n), s.op = "updateStatus"
    PROVE  Heard(Do(t, s), c, m)
<1>1. s.id \in DOMAIN c[n].book /\ s.status = c[n].book[s.id].status
      /\ (s.buyer = NULL \/ s.buyer = c[n].book[s.id].buyer)
    BY DEF Told
<1>2. Do(t, s) = Do(t, UpdateStatus(s.id, s.status, s.buyer, s.block))
    BY DEF Do, UpdateStatus, DoUpdateStatus
<1>3. CASE s.id \notin DOMAIN t.options
    BY <1>3 DEF Do, DoUpdateStatus, UpdateRow
<1>4. CASE s.id \in DOMAIN t.options
    <2>. DEFINE x == t.options[s.id]
    <2>1. PICK row : /\ Stores(t, Do(t, s), s.id, row)
                     /\ Position(row) = [writer |-> x.writer, buyer |-> Coalesce(s.buyer, x.buyer),
                                         status |-> s.status]
        BY <1>2, <1>4, StatusStores DEF Heard
    <2>2. row.writer = x.writer /\ row.buyer = Coalesce(s.buyer, x.buyer)
          /\ row.status = s.status
        BY <2>1, PositionIs
    <2>3. HeardRow(x, s.id, c, m) BY <1>4 DEF Heard
    <2>. HIDE DEF x
    <2>4. row.buyer = x.buyer \/ row.buyer = c[n].book[s.id].buyer BY <1>1, <2>2 DEF Coalesce
    <2>5. HeardRow(row, s.id, c, m) BY <1>1, <2>2, <2>3, <2>4, HeardAgain
    <2>. QED BY <2>1, <2>5, HeardStores
<1>. QED BY <1>3, <1>4

(* Nor its UPDATE of a buyer. *)
LEMMA BuyerHeard ==
    ASSUME NEW t, NEW s, NEW c, NEW m, NEW n, n \in 1 .. m, Heard(t, c, m),
           Told(s, c[n], n), s.op = "updateBuyer"
    PROVE  Heard(Do(t, s), c, m)
<1>1. s.id \in DOMAIN c[n].book /\ s.buyer = c[n].book[s.id].buyer
    BY DEF Told
<1>2. Do(t, s) = Do(t, UpdateBuyer(s.id, s.buyer, s.block))
    BY DEF Do, UpdateBuyer, DoUpdateBuyer
<1>3. CASE s.id \notin DOMAIN t.options
    BY <1>3 DEF Do, DoUpdateBuyer, UpdateRow
<1>4. CASE s.id \in DOMAIN t.options
    <2>. DEFINE x == t.options[s.id]
    <2>1. PICK row : /\ Stores(t, Do(t, s), s.id, row)
                     /\ Position(row) = [writer |-> x.writer, buyer |-> s.buyer,
                                         status |-> x.status]
        BY <1>2, <1>4, BuyerStores DEF Heard
    <2>2. row.writer = x.writer /\ row.buyer = s.buyer /\ row.status = x.status
        BY <2>1, PositionIs
    <2>3. HeardRow(x, s.id, c, m) BY <1>4 DEF Heard
    <2>. HIDE DEF x
    <2>5. HeardRow(row, s.id, c, m) BY <1>1, <2>2, <2>3, HeardAgain
    <2>. QED BY <2>1, <2>5, HeardStores
<1>. QED BY <1>3, <1>4

(* Nor its INSERT of a fee, a transfer or a swap. *)
LEMMA InsertHeard ==
    ASSUME NEW t, NEW s, NEW c, NEW m, NEW n, n \in 1 .. m, Heard(t, c, m),
           Told(s, c[n], n), s.op = "insert"
    PROVE  Heard(Do(t, s), c, m)
<1>1. s.table \in Lists
      /\ (s.table = "fees" => \/ s.row.amount = EscrowHash
                              \/ s.row.block = n /\ s.row \in ToSet(c[n].fees))
    BY DEF Told
<1>2. Do(t, s) = Do(t, Insert(s.table, s.row)) BY DEF Do, Insert
<1>3. PICK u : u = Do(t, s) OBVIOUS
<1>4. Adds(t, u, s.table, s.row) BY <1>1, <1>2, <1>3, InsertAdds DEF Heard
<1>5. \A row \in ToSet(u.fees) : HeardFee(row, c, m)
    <2>1. CASE s.table = "fees"
        <3>1. u.fees = Append(t.fees, s.row) BY <1>4, <2>1 DEF Adds
        <3>2. IsList(t.fees) BY TableLists DEF Heard
        <3>3. ToSet(u.fees) = ToSet(t.fees) \cup {s.row}
            BY <3>1, <3>2 DEF IsList, ToSet
        <3>4. HeardFee(s.row, c, m) BY <1>1, <2>1 DEF HeardFee
        <3>. QED BY <3>3, <3>4 DEF Heard
    <2>2. CASE s.table # "fees"
        <3>1. u.fees = t.fees BY <1>4, <2>2 DEF Adds, Lists
        <3>. QED BY <3>1 DEF Heard
    <2>. QED BY <2>1, <2>2
<1>. QED BY <1>3, <1>4, <1>5 DEF Heard, Adds

(* No statement of a block invents anything. *)
LEMMA StatementHeard ==
    ASSUME NEW t, NEW s, NEW c, NEW b, NEW m, NEW n, ChainIs(c, b), m \in 0 .. Len(c),
           n \in 1 .. m, Heard(t, c, m), Told(s, c[n], n)
    PROVE  Heard(Do(t, s), c, m)
BY InsertOptionHeard, StatusHeard, BuyerHeard, InsertHeard DEF Told

(* Every statement of ss may be said by one of the first m blocks. *)
ToldBy(ss, c, m) ==
    IsList(ss) /\ \A k \in DOMAIN ss : \E n \in 1 .. m : Told(ss[k], c[n], n)

(* Nor does a batch of statements from blocks of the prefix. *)
LEMMA BatchHeard ==
    ASSUME NEW t, NEW ss, NEW c, NEW b, NEW m, ChainIs(c, b), m \in 0 .. Len(c),
           Heard(t, c, m), ToldBy(ss, c, m)
    PROVE  Heard(Batch(t, ss), c, m)
<1>. DEFINE Pre(k) == SubSeq(ss, 1, k)
            Good == {k \in Nat : k <= Len(ss) => Heard(Batch(t, Pre(k)), c, m)}
<1>1. PICK S : ss \in Seq(S) BY DEF ToldBy, IsList
<1>2. Len(ss) \in Nat /\ Pre(Len(ss)) = ss /\ Pre(0) = <<>> BY <1>1, WholePrefix
<1>3. \A k \in Nat : k + 1 <= Len(ss) => /\ Pre(k) \in Seq(S)
                                         /\ Pre(k + 1) = Append(Pre(k), ss[k + 1])
    BY <1>1, PrefixGrows
<1>4. \A k \in Nat : k + 1 <= Len(ss) => \E n \in 1 .. m : Told(ss[k + 1], c[n], n)
    BY <1>1 DEF ToldBy
<1>. HIDE DEF Pre
<1>5. 0 \in Good BY <1>2, BatchEmpty
<1>6. ASSUME NEW k \in Nat, k \in Good PROVE k + 1 \in Good
    <2>1. SUFFICES ASSUME k + 1 <= Len(ss) PROVE Heard(Batch(t, Pre(k + 1)), c, m) OBVIOUS
    <2>2. Heard(Batch(t, Pre(k)), c, m) BY <1>2, <1>6, <2>1
    <2>3. PICK n \in 1 .. m : Told(ss[k + 1], c[n], n) BY <1>4, <2>1
    <2>4. Pre(k) \in Seq(S) /\ Pre(k + 1) = Append(Pre(k), ss[k + 1]) BY <1>3, <2>1
    <2>5. Batch(t, Append(Pre(k), ss[k + 1])) = Do(Batch(t, Pre(k)), ss[k + 1])
        BY <2>4, BatchAppend
    <2>6. PICK u, s : u = Batch(t, Pre(k)) /\ s = ss[k + 1] OBVIOUS
    <2>7. Heard(Do(u, s), c, m) BY <2>2, <2>3, <2>6, StatementHeard
    <2>. QED BY <2>4, <2>5, <2>6, <2>7
<1>. HIDE DEF Good
<1>7. Nat \subseteq Good BY <1>5, <1>6, SetInduction
<1>. QED BY <1>2, <1>7 DEF Good

(* What was heard of a prefix was heard of a longer one. *)
LEMMA HeardLater ==
    ASSUME NEW t, NEW c, NEW b, NEW m, NEW m2, ChainIs(c, b), m \in Nat, m2 \in 0 .. Len(c),
           m <= m2, Heard(t, c, m)
    PROVE  Heard(t, c, m2)
<1>0. Len(c) \in Nat BY DEF ChainIs, IsList
<1>1. \A n \in 1 .. m : n \in 1 .. m2 BY <1>0
<1>2. \A n \in 1 .. m2 : Grows(c[n].book, b) BY <1>0 DEF ChainIs
<1>3. ASSUME NEW id \in DOMAIN t.options PROVE HeardRow(t.options[id], id, c, m2)
    <2>. DEFINE row == t.options[id]
    <2>1. HeardRow(row, id, c, m) BY DEF Heard
    <2>. HIDE DEF row
    <2>2. PICK n \in 1 .. m : id \in DOMAIN c[n].book /\ c[n].book[id].writer = row.writer
        BY <2>1 DEF HeardRow
    <2>3. \A k \in 1 .. m2 : id \in DOMAIN c[k].book => c[k].book[id].writer = row.writer
        BY <1>1, <1>2, <2>2 DEF Grows
    <2>. QED BY <1>1, <2>1, <2>3 DEF HeardRow, row
<1>4. \A row \in ToSet(t.fees) : HeardFee(row, c, m2) BY <1>1 DEF Heard, HeardFee
<1>. QED BY <1>3, <1>4 DEF Heard

(* What was heard of a prefix depends on the prefix alone. *)
LEMMA HeardSame ==
    ASSUME NEW t, NEW c, NEW d, NEW m, Same(c, d, 1, m), Heard(t, c, m)
    PROVE  Heard(t, d, m)
<1>1. \A n \in 1 .. m : c[n] = d[n] BY DEF Same
<1>2. \A id \in DOMAIN t.options : HeardRow(t.options[id], id, d, m)
    BY <1>1 DEF Heard, HeardRow
<1>3. \A row \in ToSet(t.fees) : HeardFee(row, d, m) BY <1>1 DEF Heard, HeardFee
<1>. QED BY <1>2, <1>3 DEF Heard

(* What a prefix may say depends on the prefix alone. *)
LEMMA ToldSame ==
    ASSUME NEW ss, NEW c, NEW d, NEW m, Same(c, d, 1, m), ToldBy(ss, c, m)
    PROVE  ToldBy(ss, d, m)
BY DEF Same, ToldBy

(* What a prefix may say a longer one may. *)
LEMMA ToldLater ==
    ASSUME NEW ss, NEW c, NEW m, NEW m2, m \in Nat, m2 \in Nat, m <= m2, ToldBy(ss, c, m)
    PROVE  ToldBy(ss, c, m2)
<1>1. \A n \in 1 .. m : n \in 1 .. m2 OBVIOUS
<1>. QED BY <1>1 DEF ToldBy

(* One block's statements more. *)
LEMMA ToldMore ==
    ASSUME NEW ss, NEW tt, NEW c, NEW n, n \in Nat \ {0}, ToldBy(ss, c, n), AllTold(tt, c[n], n)
    PROVE  ToldBy(ss \o tt, c, n)
<1>0. IsList(ss) /\ IsList(tt) BY DEF ToldBy, AllTold
<1>1. PICK S : ss \in Seq(S) /\ tt \in Seq(S) BY <1>0, ListsTogether
<1>2. ss \o tt \in Seq(S) /\ n \in 1 .. n BY <1>1
<1>3. ASSUME NEW k \in DOMAIN (ss \o tt)
      PROVE  \E i \in 1 .. n : Told((ss \o tt)[k], c[i], i)
    <2>1. CASE k <= Len(ss)
        <3>1. k \in DOMAIN ss /\ (ss \o tt)[k] = ss[k] BY <1>1, <1>3, <2>1
        <3>. QED BY <3>1 DEF ToldBy
    <2>2. CASE ~(k <= Len(ss))
        <3>1. k - Len(ss) \in DOMAIN tt /\ (ss \o tt)[k] = tt[k - Len(ss)]
            BY <1>1, <1>3, <2>2
        <3>2. Told((ss \o tt)[k], c[n], n) BY <3>1 DEF AllTold
        <3>. QED BY <1>2, <3>2
    <2>. QED BY <2>1, <2>2
<1>. QED BY <1>2, <1>3 DEF ToldBy, IsList

(* No statements need no block. *)
LEMMA NothingTold == ASSUME NEW c, NEW m PROVE ToldBy(<<>>, c, m)
BY ShortLists DEF ToldBy

(* ---- what the first n blocks say ---- *)

(* The tables t show what the first n blocks of c say. *)
ShownIn(t) == [options |-> Positions(t.options), fees |-> Real(t.fees),
               transfers |-> t.transfers, swaps |-> t.swaps]
Says(t, c, n) == IsTables(t) /\ ShownIn(t) = SaidBy(SubSeq(c, 1, n))

(* The rows of a prefix that is one block longer. *)
LEMMA RowsNext ==
    ASSUME NEW c, IsList(c), NEW table, \A n \in 1 .. Len(c) : IsList(c[n][table]),
           NEW n \in Nat, n + 1 <= Len(c)
    PROVE  RowsOf(SubSeq(c, 1, n + 1), table) = RowsOf(SubSeq(c, 1, n), table) \o c[n + 1][table]
<1>. DEFINE S == UNION {ToSet(c[k][table]) : k \in 1 .. Len(c)}
            R(s) == [k \in DOMAIN s |-> s[k][table]]
            a == SubSeq(c, 1, n)
            b == SubSeq(c, 1, n + 1)
            x == c[n + 1][table]
<1>1. PICK T : c \in Seq(T) BY DEF IsList
<1>2. /\ a \in Seq(T) /\ Len(a) = n /\ \A k \in 1 .. n : a[k] = c[k] /\ k \in 1 .. Len(c)
      /\ b \in Seq(T) /\ Len(b) = n + 1 /\ \A k \in 1 .. n + 1 : b[k] = c[k]
      /\ n + 1 \in 1 .. Len(c)
    BY <1>1
<1>3. \A k \in 1 .. Len(c) : c[k][table] \in Seq(S)
    <2>1. ASSUME NEW k \in 1 .. Len(c) PROVE c[k][table] \in Seq(S)
        <3>1. PICK s : s = c[k][table] OBVIOUS
        <3>2. s \in Seq(ToSet(s)) BY <3>1, OwnElements
        <3>3. ToSet(s) \subseteq S BY <3>1
        <3>4. s \in Seq(S) BY <3>2, <3>3
        <3>. QED BY <3>1, <3>4
    <2>. QED BY <2>1
<1>. HIDE DEF S, a, b
<1>4. DOMAIN a = 1 .. n /\ DOMAIN b = 1 .. n + 1 BY <1>2
<1>5. PICK f : f = R(a) OBVIOUS
<1>6. PICK g : g = R(b) OBVIOUS
<1>7. DOMAIN f = 1 .. n /\ \A k \in 1 .. n : f[k] = c[k][table] BY <1>2, <1>4, <1>5
<1>8. DOMAIN g = 1 .. n + 1 /\ \A k \in 1 .. n + 1 : g[k] = c[k][table] BY <1>2, <1>4, <1>6
<1>9. f \in Seq(Seq(S)) /\ Len(f) = n
    <2>1. f = [k \in 1 .. n |-> f[k]] BY <1>4, <1>5
    <2>2. \A k \in 1 .. n : f[k] \in Seq(S) BY <1>2, <1>3, <1>7
    <2>. QED BY <2>1, <2>2
<1>10. g \in Seq(Seq(S)) /\ Len(g) = n + 1
    <2>1. g = [k \in 1 .. n + 1 |-> g[k]] BY <1>4, <1>6
    <2>2. \A k \in 1 .. n + 1 : k \in 1 .. Len(c) BY <1>2
    <2>3. \A k \in 1 .. n + 1 : g[k] \in Seq(S) BY <2>2, <1>3, <1>8
    <2>4. PICK j \in Nat : j = n + 1 OBVIOUS
    <2>5. g = [k \in 1 .. j |-> g[k]] /\ \A k \in 1 .. j : g[k] \in Seq(S) BY <2>1, <2>3, <2>4
    <2>6. g \in Seq(Seq(S)) /\ Len(g) = j BY <2>5
    <2>. QED BY <2>4, <2>6
<1>11. x \in Seq(S) BY <1>2, <1>3
<1>12. g = Append(f, x)
    <2>1. PICK h, y : h = Append(f, x) /\ y = x OBVIOUS
    <2>2. h \in Seq(Seq(S)) /\ Len(h) = n + 1 /\ h[n + 1] = y /\ \A k \in 1 .. n : h[k] = f[k]
        BY <1>9, <1>11, <2>1
    <2>3. \A k \in 1 .. n + 1 : h[k] = g[k] BY <1>7, <1>8, <2>1, <2>2
    <2>. QED BY <1>10, <2>1, <2>2, <2>3
<1>13. FlattenSeq(Append(f, x)) = FlattenSeq(f) \o x BY <1>9, <1>11, FlattenAppend
<1>14. RowsOf(a, table) = FlattenSeq(f) BY <1>5 DEF RowsOf
<1>15. RowsOf(b, table) = FlattenSeq(g) BY <1>6 DEF RowsOf
<1>. QED BY <1>12, <1>13, <1>14, <1>15 DEF a, b

(* The book after a prefix. *)
LEMMA BookOfPrefix ==
    ASSUME NEW c, IsList(c), NEW n \in 0 .. Len(c)
    PROVE  BookOf(SubSeq(c, 1, n)) = BookAt(c, n)
<1>1. PICK T : c \in Seq(T) BY DEF IsList
<1>2. CASE n = 0
    <2>1. SubSeq(c, 1, n) = <<>> BY <1>1, <1>2
    <2>. QED BY <1>2, <2>1 DEF BookOf, BookAt
<1>3. CASE n # 0
    <2>1. PICK a : a = SubSeq(c, 1, n) OBVIOUS
    <2>2. a \in Seq(T) /\ Len(a) = n /\ a[n] = c[n] /\ a # <<>> BY <1>1, <1>3, <2>1
    <2>3. Last(a) = c[n] BY <2>2 DEF Last
    <2>. QED BY <1>3, <2>1, <2>2, <2>3 DEF BookOf, BookAt
<1>. QED BY <1>2, <1>3

(* Empty tables say what no block says. *)
LEMMA NothingSaid == ASSUME NEW c, IsList(c) PROVE Says(NoTables, c, 0)
<1>1. SubSeq(c, 1, 0) = <<>> BY WholePrefix DEF IsList
<1>2. IsTables(NoTables) BY NothingHeard DEF Heard
<1>3. \A table : RowsOf(<<>>, table) = <<>> BY FlattenEmpty DEF RowsOf
<1>4. Positions(NoTables.options) = Positions(BookOf(<<>>)) BY DEF NoTables, BookOf
<1>5. Real(NoTables.fees) = <<>> BY RealEmpty DEF NoTables
<1>6. NoTables.transfers = <<>> /\ NoTables.swaps = <<>> BY DEF NoTables
<1>. QED BY <1>1, <1>2, <1>3, <1>4, <1>5, <1>6 DEF Says, ShownIn, SaidBy

(* Tables that say a prefix say the next one after the next block's      *)
(* batch.                                                                *)
LEMMA SaysNext ==
    ASSUME NEW c, NEW b, ChainIs(c, b), NEW n \in Nat, n + 1 <= Len(c), NEW t, NEW g,
           Says(t, c, n)
    PROVE  Says(Batch(t, DecodeBlock(c[n + 1].events, n + 1, Tracked, g)), c, n + 1)
<1>. DEFINE blk == c[n + 1]
            l == LedgerOf(blk)
            p == Positions(BookAt(c, n))
            p2 == Positions(blk.book)
            ss == DecodeBlock(blk.events, n + 1, Tracked, g)
            u == Batch(t, ss)
<1>0. IsList(c) /\ Len(c) \in Nat BY DEF ChainIs, IsList
<1>1. n + 1 \in 1 .. Len(c) /\ (n + 1) - 1 = n /\ n \in 0 .. Len(c) /\ n + 1 \in 0 .. Len(c)
    BY <1>0
<1>2. BlockMeans(blk, n + 1, p) BY <1>1 DEF ChainIs
<1>3. BookOf(SubSeq(c, 1, n)) = BookAt(c, n) /\ BookOf(SubSeq(c, 1, n + 1)) = blk.book
    BY <1>0, <1>1, BookOfPrefix DEF BookAt
<1>4. \A k \in 1 .. Len(c) : IsList(c[k].fees) /\ IsList(c[k].transfers) /\ IsList(c[k].swaps)
    BY DEF ChainIs, BlockMeans, IsLedger, LedgerOf
<1>5. /\ RowsOf(SubSeq(c, 1, n + 1), "fees") = RowsOf(SubSeq(c, 1, n), "fees") \o blk.fees
      /\ RowsOf(SubSeq(c, 1, n + 1), "transfers")
           = RowsOf(SubSeq(c, 1, n), "transfers") \o blk.transfers
      /\ RowsOf(SubSeq(c, 1, n + 1), "swaps") = RowsOf(SubSeq(c, 1, n), "swaps") \o blk.swaps
    BY <1>0, <1>4, RowsNext
<1>6. l.fees = blk.fees /\ l.transfers = blk.transfers /\ l.swaps = blk.swaps BY DEF LedgerOf
<1>. HIDE DEF blk, l, p, p2, ss
<1>7. IsTables(t) /\ Positions(t.options) = p
      /\ Real(t.fees) = RowsOf(SubSeq(c, 1, n), "fees")
      /\ t.transfers = RowsOf(SubSeq(c, 1, n), "transfers")
      /\ t.swaps = RowsOf(SubSeq(c, 1, n), "swaps")
    BY <1>3 DEF Says, ShownIn, SaidBy, p
<1>8. ListSays(ss, p, p2, l) BY <1>2 DEF BlockMeans, BlockSays, l, p2, ss
<1>9. Gives(t, u, p2, l) BY <1>7, <1>8 DEF ListSays
<1>. HIDE DEF u
<1>10. ShownIn(u) = SaidBy(SubSeq(c, 1, n + 1)) /\ IsTables(u)
    BY <1>3, <1>5, <1>6, <1>7, <1>9 DEF Gives, ShownIn, SaidBy, p2
<1>. QED BY <1>10 DEF Says, u, ss, blk

(* The variables of the run y but its grace period. *)
RunBe(y, phase, pools, from, to, stmts) ==
    /\ y.phase = phase /\ y.pools = pools /\ y.from = from /\ y.to = to /\ y.stmts = stmts

(* All that the assignments of a run's variables leave. *)
LEMMA RunBecomes ==
    ASSUME NEW x, IsRun(x), NEW p, NEW q
    PROVE  /\ RunBe([x EXCEPT !.phase = p], p, x.pools, x.from, x.to, x.stmts)
           /\ RunBe([x EXCEPT !.phase = p, !.pools = q], p, q, x.from, x.to, x.stmts)
           /\ RunBe([x EXCEPT !.phase = p, !.grace = q], p, x.pools, x.from, x.to, x.stmts)
           /\ RunBe([x EXCEPT !.phase = p, !.from = q], p, x.pools, q, x.to, x.stmts)
           /\ RunBe([x EXCEPT !.phase = p, !.to = q], p, x.pools, x.from, q, x.stmts)
<1>1. PICK S : x \in RunSet(S) BY DEF IsRun
<1>2. x \in RunSet(S \cup {p, q}) BY <1>1 DEF RunSet
<1>. QED BY <1>2 DEF RunBe, RunSet

(* The same for the statements. *)
LEMMA RunGathers ==
    ASSUME NEW x, IsRun(x), NEW p, NEW q, NEW s
    PROVE  RunBe([x EXCEPT !.stmts = @ \o s, !.from = q, !.phase = p],
                 p, x.pools, q, x.to, x.stmts \o s)
<1>1. PICK S : x \in RunSet(S) BY DEF IsRun
<1>2. x \in RunSet(S \cup {p, q, x.stmts \o s}) BY <1>1 DEF RunSet
<1>. QED BY <1>2 DEF RunBe, RunSet

(* The phases after the addresses are resolved. *)
Late == {"grace", "cursor", "height", "fetch", "commit"}

(* What the run x has in hand, lossless as far as it is. *)
Tells(x, lossless) ==
    /\ IsList(x.stmts) /\ x.pools \subseteq Tracked
    /\ x.phase \notin {"fetch", "commit"} => x.stmts = <<>>
    /\ x.phase \in {"fetch", "commit"} => ToldBy(x.stmts, chain, x.from - 1)
    /\ x.phase = "commit" => x.from = x.to + 1 /\ cursor < x.to
    /\ lossless /\ x.phase \in Late => x.pools = Tracked
    /\ lossless /\ x.phase \in {"fetch", "commit"}
         => Says(Batch(tables, x.stmts), chain, x.from - 1)

(* The invariant of the index. *)
IndexOK ==
    /\ CursorOK
    /\ ChainIs(chain, book)
    /\ IsList(faults)
    /\ Heard(tables, chain, cursor)
    /\ Lossless => Says(tables, chain, cursor)
    /\ \A r \in Runs : Tells(run[r], Lossless)

(* A sleeping run has nothing in hand. *)
LEMMA AsleepTells == ASSUME NEW l \in BOOLEAN PROVE Tells(Asleep, l)
BY ShortLists DEF Tells, Asleep, Late

(* A fault is recorded, and a lossy one stays known. *)
LEMMA FaultLoses ==
    ASSUME IsList(faults), NEW kind, Fault(kind)
    PROVE  /\ IsList(faults') /\ (Lossless' => Lossless)
           /\ kind \in {"unresolved", "nullBlock"} => ~Lossless'
<1>1. PICK S : faults \in Seq(S) BY DEF IsList
<1>2. faults' = Append(faults, kind) BY DEF Fault
<1>3. PICK g : g = faults' OBVIOUS
<1>4. g \in Seq(S \cup {kind}) /\ ToSet(g) = ToSet(faults) \cup {kind}
    BY <1>1, <1>2, <1>3 DEF ToSet
<1>. QED BY <1>3, <1>4 DEF IsList, Lossless

(* The invariant holds at first. *)
LEMMA IndexInit == ASSUME Init PROVE IndexOK
<1>1. CursorOK BY CursorInit
<1>2. chain = <<>> /\ book = <<>> /\ tables = NoTables /\ cursor = 0 /\ faults = <<>>
      /\ run = [r \in Runs |-> Asleep]
    BY DEF Init, ChainInit, IndexerInit
<1>3. ChainIs(chain, book) /\ IsList(faults) BY <1>2, ChainStarts, ShortLists
<1>4. Heard(tables, chain, cursor) /\ Says(tables, chain, cursor)
    BY <1>2, NothingHeard, NothingSaid, ShortLists
<1>5. Lossless \in BOOLEAN BY DEF Lossless
<1>6. \A r \in Runs : Tells(run[r], Lossless) BY <1>2, <1>5, AsleepTells
<1>. QED BY <1>1, <1>3, <1>4, <1>6 DEF IndexOK

(* A block mined keeps it. *)
LEMMA IndexMines ==
    ASSUME IndexOK, CursorOK', MineStep
    PROVE  IndexOK'
<1>1. UNCHANGED <<tables, cursor, run, faults>> BY DEF MineStep, dbVars
<1>2. PICK blk : /\ chain' = Append(chain, blk) /\ book' = blk.book
                 /\ IsBook(blk.book) /\ Grows(book, blk.book)
                 /\ BlockMeans(blk, Height + 1, Positions(book))
    BY MineMeans DEF MineStep, IndexOK, ChainIs, MinesWell
<1>3. ChainIs(chain', book') BY <1>2, ChainExtends DEF IndexOK, Height
<1>4. PICK S : chain \in Seq(S) BY DEF IndexOK, CursorOK
<1>5. \A n \in 0 .. Len(chain) : Same(chain, chain', 1, n)
                                 /\ SubSeq(chain', 1, n) = SubSeq(chain, 1, n)
    BY <1>2, <1>4 DEF Same
<1>6. cursor \in 0 .. Len(chain) BY DEF IndexOK, CursorOK, Height
<1>7. Heard(tables', chain', cursor') BY <1>1, <1>5, <1>6, HeardSame DEF IndexOK
<1>8. Lossless' <=> Lossless BY <1>1 DEF Lossless
<1>9. \A t : \A n \in 0 .. Len(chain) : Says(t, chain, n) => Says(t, chain', n)
    BY <1>5 DEF Says
<1>10. Lossless' => Says(tables', chain', cursor') BY <1>1, <1>6, <1>8, <1>9 DEF IndexOK
<1>11. ASSUME NEW r \in Runs PROVE Tells(run[r], Lossless)'
    <2>. DEFINE x == run[r]
    <2>1. Tells(x, Lossless) /\ RunOK(x) BY DEF IndexOK, CursorOK
    <2>2. x.phase \in {"fetch", "commit"} => x.from - 1 \in 0 .. Len(chain)
        BY <1>6, <2>1 DEF Tells, RunOK, Height
    <2>. HIDE DEF x
    <2>3. x.phase \in {"fetch", "commit"} => ToldBy(x.stmts, chain', x.from - 1)
        BY <1>5, <2>1, <2>2, ToldSame DEF Tells
    <2>4. Lossless /\ x.phase \in {"fetch", "commit"}
            => Says(Batch(tables, x.stmts), chain', x.from - 1)
        BY <1>9, <2>1, <2>2 DEF Tells
    <2>5. x' = x BY <1>1 DEF x
    <2>. QED BY <1>1, <1>8, <2>1, <2>3, <2>4, <2>5 DEF Tells, x
<1>12. IsList(faults') BY <1>1 DEF IndexOK
<1>. QED BY <1>3, <1>7, <1>10, <1>11, <1>12 DEF IndexOK

(* A step of one run that leaves the chain, the tables and the cursor. *)
LEMMA IndexRuns ==
    ASSUME IndexOK, CursorOK', NEW r \in Runs, NEW x, Set(r, x),
           UNCHANGED <<chain, book, tables, cursor>>,
           faults' = faults \/ \E kind : Fault(kind),
           Tells(x, Lossless')
    PROVE  IndexOK'
<1>1. IsList(faults') /\ (Lossless' => Lossless)
    <2>1. CASE faults' = faults BY <2>1 DEF IndexOK, Lossless
    <2>2. CASE \E kind : Fault(kind) BY <2>2, FaultLoses DEF IndexOK
    <2>. QED BY <2>1, <2>2
<1>2. \A s \in Runs : run'[s] = x \/ run'[s] = run[s] BY DEF Set, IndexOK, CursorOK
<1>3. ASSUME NEW y, Tells(y, Lossless) PROVE Tells(y, Lossless')
    BY <1>1, <1>3 DEF Tells
<1>4. \A s \in Runs : Tells(run'[s], Lossless') BY <1>2, <1>3 DEF IndexOK
<1>5. \A s \in Runs : Tells(run[s], Lossless)' BY <1>4 DEF Tells
<1>. QED BY <1>1, <1>5 DEF IndexOK

(* A commit keeps it and moves the cursor forward within the chain. *)
LEMMA IndexCommits ==
    ASSUME OneRun, IndexOK, CursorOK', NEW r \in Runs, Commit(r)
    PROVE  IndexOK' /\ chain' = chain /\ cursor' \in cursor + 1 .. Len(chain)
<1>. DEFINE x == run[r]
<1>1. UNCHANGED <<chain, book, faults>> /\ tables' = Batch(tables, x.stmts) /\ cursor' = x.to
      /\ x.phase = "commit"
    BY DEF Commit, chainVars, At
<1>2. Tells(x, Lossless) /\ RunOK(x) BY DEF IndexOK, CursorOK
<1>. HIDE DEF x
<1>3. cursor \in Nat /\ x.to \in Nat /\ cursor < x.to /\ x.to <= Len(chain)
      /\ x.from - 1 = x.to
    BY <1>1, <1>2 DEF Tells, RunOK, IndexOK, CursorOK, Height
<1>4. ToldBy(x.stmts, chain, x.to) /\ (Lossless => Says(tables', chain, x.to))
    BY <1>1, <1>2, <1>3 DEF Tells
<1>5. Heard(tables', chain, x.to)
    <2>1. Len(chain) \in Nat BY DEF IndexOK, ChainIs, IsList
    <2>2. x.to \in 0 .. Len(chain) /\ cursor <= x.to BY <1>3, <2>1
    <2>3. Heard(tables, chain, x.to) BY <1>3, <2>2, HeardLater DEF IndexOK
    <2>. QED BY <1>1, <1>4, <2>2, <2>3, BatchHeard DEF IndexOK
<1>6. run' = [run EXCEPT ![r] = Asleep] BY DEF Commit, Set
<1>7. \A s \in Runs : run'[s] = Asleep BY <1>6 DEF OneRun, IndexOK, CursorOK
<1>8. \A s \in Runs : Tells(run[s], Lossless)'
    <2>1. Tells(Asleep, Lossless)' BY ShortLists DEF Tells, Asleep, Late
    <2>. QED BY <1>7, <2>1 DEF Tells
<1>9. Lossless' <=> Lossless BY <1>1 DEF Lossless
<1>10. IndexOK' BY <1>1, <1>4, <1>5, <1>8, <1>9 DEF IndexOK
<1>11. cursor' \in cursor + 1 .. Len(chain)
    <2>1. Len(chain) \in Nat BY DEF IndexOK, ChainIs, IsList
    <2>. QED BY <1>1, <1>3, <2>1
<1>. QED BY <1>1, <1>10, <1>11

(* A run that reads the height keeps it. *)
LEMMA IndexLearnsHeight ==
    ASSUME IndexOK, CursorOK', NEW r \in Runs, NEW h \in Int, h <= Height, LearnHeight(r, h),
           faults' = faults \/ \E kind : Fault(kind)
    PROVE  IndexOK'
<1>. DEFINE y == run[r]
            from == y.from
            to == LastBlock(from, h)
            x == [y EXCEPT !.phase = ToFetch(from, to), !.to = to]
<1>1. UNCHANGED <<chain, book, tables, cursor>>
    BY DEF LearnHeight, chainVars, dbVars
<1>2. Tells(y, Lossless) /\ RunOK(y) /\ y.phase = "height"
    BY DEF IndexOK, CursorOK, LearnHeight, At
<1>3. Lossless' \in BOOLEAN /\ (Lossless' => Lossless)
    BY FaultLoses DEF IndexOK, Lossless
<1>4. CASE AtTip(r, h)
    <2>1. Set(r, Asleep) BY <1>4 DEF LearnHeight
    <2>2. Tells(Asleep, Lossless') BY <1>3, AsleepTells
    <2>. QED BY <1>1, <2>1, <2>2, IndexRuns
<1>5. CASE ~AtTip(r, h)
    <2>1. Set(r, x) BY <1>5 DEF LearnHeight
    <2>2. from = cursor + 1 /\ cursor \in Nat /\ from \in Nat /\ y.stmts = <<>>
        BY <1>2 DEF RunOK, Tells, IndexOK, CursorOK
    <2>3. to \in Nat /\ from <= to
        BY <1>5, <2>2, HeightNat, PollerAssumption DEF AtTip, LastBlock, IndexOK
    <2>4. RunBe(x, ToFetch(from, to), y.pools, from, to, y.stmts)
        BY <1>2, RunBecomes DEF RunOK
    <2>. HIDE DEF x, y, to, from
    <2>5. x.phase = "fetch" /\ x.pools = y.pools /\ x.from = cursor + 1 /\ x.stmts = <<>>
        BY <2>2, <2>3, <2>4 DEF RunBe, ToFetch
    <2>6. Batch(tables, <<>>) = tables BY BatchEmpty
    <2>7. x.from - 1 = cursor BY <2>2, <2>5
    <2>8. Lossless' => Says(tables, chain, cursor) BY <1>3 DEF IndexOK
    <2>9. Tells(x, Lossless')
        BY <1>2, <1>3, <2>5, <2>6, <2>7, <2>8, NothingTold, ShortLists DEF Tells, Late
    <2>. QED BY <1>1, <2>1, <2>9, IndexRuns
<1>. QED BY <1>4, <1>5

(* What follows when a run takes in the statements ss for its next block. *)
LEMMA IndexCollects ==
    ASSUME IndexOK, CursorOK', NEW r \in Runs, At(r, "fetch"), NEW ss, Collect(r, ss),
           UNCHANGED <<chain, book, tables, cursor>>,
           faults' = faults \/ \E kind : Fault(kind),
           AllTold(ss, chain[run[r].from], run[r].from),
           Lossless' => ss = Decoded(r, run[r].from)
    PROVE  IndexOK'
<1>. DEFINE y == run[r]
            n == y.from
            ph == ToFetch(n + 1, y.to)
            x == [y EXCEPT !.stmts = @ \o ss, !.from = n + 1, !.phase = ph]
<1>1. Set(r, x) BY DEF Collect
<1>2. Tells(y, Lossless) /\ RunOK(y) /\ y.phase = "fetch" BY DEF IndexOK, CursorOK, At
<1>3. Lossless' \in BOOLEAN /\ (Lossless' => Lossless)
    BY FaultLoses DEF IndexOK, Lossless
<1>4. cursor \in Nat /\ n \in Nat /\ y.to \in Nat /\ cursor < n /\ n <= y.to
      /\ y.to <= Len(chain) /\ Len(chain) \in Nat
    BY <1>2 DEF RunOK, IndexOK, CursorOK, Height, ChainIs, IsList
<1>5. x.phase = ph /\ x.pools = y.pools /\ x.from = n + 1 /\ x.to = y.to
      /\ x.stmts = y.stmts \o ss
    BY <1>2, RunGathers DEF RunOK, RunBe
<1>6. ToldBy(y.stmts, chain, n - 1) /\ IsList(y.stmts) BY <1>2 DEF Tells
<1>7. PICK k \in Nat : k = n - 1 /\ n = k + 1 /\ k + 1 <= Len(chain) BY <1>4
<1>8. AllTold(ss, chain[n], n) /\ (Lossless' => ss = Decoded(r, n)) OBVIOUS
<1>9. Lossless' => Decoded(r, n) = DecodeBlock(chain[n].events, n, Tracked, y.grace)
    BY <1>2, <1>3 DEF Decoded, Tells, Late
<1>10. ph = "fetch" \/ (ph = "commit" /\ ~(n + 1 <= y.to)) BY DEF ToFetch
<1>. HIDE DEF x, y, n, ph
<1>11. ToldBy(x.stmts, chain, n)
    <2>1. ToldBy(y.stmts, chain, n) BY <1>4, <1>6, <1>7, ToldLater
    <2>. QED BY <1>4, <1>5, <1>8, <2>1, ToldMore
<1>12. ASSUME Lossless' PROVE Says(Batch(tables, x.stmts), chain, n)
    <2>1. Says(Batch(tables, y.stmts), chain, k)
        BY <1>2, <1>3, <1>7, <1>12 DEF Tells, n
    <2>2. PICK t, dd : t = Batch(tables, y.stmts)
                       /\ dd = DecodeBlock(chain[k + 1].events, k + 1, Tracked, y.grace)
        OBVIOUS
    <2>3. Says(Batch(t, dd), chain, k + 1) BY <1>7, <2>1, <2>2, SaysNext DEF IndexOK
    <2>4. ss = dd BY <1>7, <1>8, <1>9, <1>12, <2>2
    <2>5. Batch(tables, y.stmts \o ss) = Batch(t, ss)
        <3>1. IsList(ss) BY <1>8 DEF AllTold
        <3>2. PICK S : y.stmts \in Seq(S) /\ ss \in Seq(S) BY <1>6, <3>1, ListsTogether
        <3>. QED BY <2>2, <3>2, BatchConcat
    <2>. QED BY <1>5, <1>7, <2>3, <2>4, <2>5
<1>13. x.from - 1 = n BY <1>4, <1>5
<1>14. IsList(x.stmts) BY <1>11 DEF ToldBy
<1>15. x.phase = "commit" => x.from = x.to + 1 /\ cursor < x.to BY <1>4, <1>5, <1>10
<1>16. x.pools \subseteq Tracked /\ (Lossless' => x.pools = Tracked)
    BY <1>2, <1>3, <1>5 DEF Tells, Late
<1>17. x.phase \in {"fetch", "commit"} BY <1>5, <1>10
<1>18. Tells(x, Lossless')
    BY <1>11, <1>12, <1>13, <1>14, <1>15, <1>16, <1>17 DEF Tells
<1>. QED BY <1>1, <1>18, IndexRuns

(* A run that fetches a block, or gets none, keeps it. *)
LEMMA IndexFetches ==
    ASSUME IndexOK, CursorOK', NEW r \in Runs, FetchBlock(r) \/ FetchNothing(r)
    PROVE  IndexOK'
<1>. DEFINE y == run[r]
            n == y.from
<1>1. At(r, "fetch") /\ UNCHANGED <<chain, book, tables, cursor>>
    BY DEF FetchBlock, FetchNothing, chainVars, dbVars
<1>2. Tells(y, Lossless) /\ RunOK(y) /\ y.phase = "fetch" BY <1>1 DEF IndexOK, CursorOK, At
<1>3. n \in 1 .. Len(chain)
    BY <1>2 DEF RunOK, IndexOK, CursorOK, Height, ChainIs, IsList
<1>4. CASE FetchBlock(r)
    <2>1. BlockTold(chain[n].events, n, chain[n])
        BY <1>3 DEF IndexOK, ChainIs, BlockMeans
    <2>2. y.pools \in SUBSET Tracked BY <1>2 DEF Tells
    <2>3. AllTold(Decoded(r, n), chain[n], n) BY <2>1, <2>2 DEF BlockTold, Decoded
    <2>4. Collect(r, Decoded(r, n)) /\ faults' = faults BY <1>4 DEF FetchBlock
    <2>5. PICK ss : ss = Decoded(r, n) OBVIOUS
    <2>. QED BY <1>1, <2>3, <2>4, <2>5, IndexCollects
<1>5. CASE FetchNothing(r)
    <2>1. Collect(r, <<>>) /\ Fault("nullBlock") BY <1>5 DEF FetchNothing
    <2>2. ~Lossless' BY <2>1, FaultLoses DEF IndexOK
    <2>3. AllTold(<<>>, chain[n], n) BY ShortTold
    <2>4. PICK ss : ss = <<>> OBVIOUS
    <2>. QED BY <1>1, <2>1, <2>2, <2>3, <2>4, IndexCollects
<1>. QED BY <1>4, <1>5

(* A run still before its first block. *)
LEMMA EarlyTells ==
    ASSUME IndexOK, NEW r \in Runs, run[r].phase \in {"asleep", "resolve", "grace", "cursor"},
           NEW x, NEW p \in {"resolve", "grace", "cursor", "height"}, NEW q, NEW f,
           RunBe(x, p, q, f, run[r].to, run[r].stmts), q \subseteq Tracked,
           NEW l \in BOOLEAN, l /\ p # "resolve" => q = Tracked
    PROVE  Tells(x, l)
<1>1. Tells(run[r], Lossless) BY DEF IndexOK
<1>2. run[r].stmts = <<>> BY <1>1 DEF Tells
<1>. QED BY <1>2, ShortLists DEF RunBe, Tells, Late

(* Every step keeps it. *)
LEMMA IndexStep ==
    ASSUME OneRun, IndexOK, [Next]_pollerVars
    PROVE  IndexOK'
<1>. USE DEF pollerVars, chainVars, dbVars
<1>0. CursorOK' BY CursorStep DEF IndexOK
<1>a. Lossless \in BOOLEAN /\ Lossless' \in BOOLEAN BY DEF Lossless
<1>b. \A r \in Runs : Tells(run[r], Lossless) /\ IsRun(run[r])
    BY DEF IndexOK, CursorOK, RunOK
<1>1. CASE UNCHANGED pollerVars
    BY <1>0, <1>1 DEF IndexOK, ChainIs, Heard, Says, Lossless, Tells
<1>2. CASE MineStep BY <1>0, <1>2, IndexMines
<1>3. ASSUME NEW r \in Runs, Cron(r) PROVE IndexOK'
    <2>1. RunBe([run[r] EXCEPT !.phase = "resolve"], "resolve", run[r].pools, run[r].from,
                run[r].to, run[r].stmts)
        BY <1>b, RunBecomes
    <2>2. PICK x : x = [run[r] EXCEPT !.phase = "resolve"] OBVIOUS
    <2>3. Set(r, x) /\ run[r].phase = "asleep" /\ faults' = faults
          /\ UNCHANGED <<chain, book, tables, cursor>>
        BY <1>3, <2>2 DEF Cron, Go, At
    <2>4. run[r].pools \subseteq Tracked BY <1>b DEF Tells
    <2>5. Tells(x, Lossless') BY <1>a, <2>1, <2>2, <2>3, <2>4, EarlyTells
    <2>. QED BY <1>0, <2>3, <2>5, IndexRuns
<1>4. ASSUME NEW r \in Runs, Resolve(r) PROVE IndexOK'
    <2>1. RunBe([run[r] EXCEPT !.phase = "grace", !.pools = Tracked], "grace", Tracked,
                run[r].from, run[r].to, run[r].stmts)
        BY <1>b, RunBecomes
    <2>2. PICK x : x = [run[r] EXCEPT !.phase = "grace", !.pools = Tracked] OBVIOUS
    <2>3. Set(r, x) /\ run[r].phase = "resolve" /\ faults' = faults
          /\ UNCHANGED <<chain, book, tables, cursor>>
        BY <1>4, <2>2 DEF Resolve, At
    <2>5. Tells(x, Lossless') BY <1>a, <2>1, <2>2, <2>3, EarlyTells
    <2>. QED BY <1>0, <2>3, <2>5, IndexRuns
<1>5. ASSUME NEW r \in Runs, ResolveFails(r) PROVE IndexOK'
    <2>1. RunBe([run[r] EXCEPT !.phase = "grace"], "grace", run[r].pools, run[r].from,
                run[r].to, run[r].stmts)
        BY <1>b, RunBecomes
    <2>2. PICK x : x = [run[r] EXCEPT !.phase = "grace"] OBVIOUS
    <2>3. Set(r, x) /\ run[r].phase = "resolve" /\ Fault("unresolved")
          /\ UNCHANGED <<chain, book, tables, cursor>>
        BY <1>5, <2>2 DEF ResolveFails, Go, At
    <2>4. run[r].pools \subseteq Tracked BY <1>b DEF Tells
    <2>6. ~Lossless' BY <2>3, FaultLoses DEF IndexOK
    <2>5. Tells(x, Lossless') BY <1>a, <2>1, <2>2, <2>3, <2>4, <2>6, EarlyTells
    <2>. QED BY <1>0, <2>3, <2>5, IndexRuns
<1>6. ASSUME NEW r \in Runs, LearnGrace(r) \/ LearnGraceFails(r) PROVE IndexOK'
    <2>. DEFINE x(g) == [run[r] EXCEPT !.phase = "cursor", !.grace = g]
                z == [run[r] EXCEPT !.phase = "cursor"]
                Is(y) == RunBe(y, "cursor", run[r].pools, run[r].from, run[r].to, run[r].stmts)
    <2>1. Is(z) /\ \A g : Is(x(g)) BY <1>b, RunBecomes
    <2>2. (Set(r, z) \/ \E g : Set(r, x(g))) /\ run[r].phase = "grace"
          /\ UNCHANGED <<chain, book, tables, cursor>>
          /\ (faults' = faults \/ \E kind : Fault(kind))
        BY <1>6 DEF LearnGrace, LearnGraceFails, Go, At
    <2>3. PICK y : Is(y) /\ Set(r, y)
        <3>. HIDE DEF x, z, Is
        <3>. QED BY <2>1, <2>2
    <2>4. Lossless' => Lossless BY <2>2, FaultLoses DEF IndexOK, Lossless
    <2>5. run[r].pools \subseteq Tracked /\ (Lossless' => run[r].pools = Tracked)
        BY <1>b, <2>2, <2>4 DEF Tells, Late
    <2>6. Tells(y, Lossless') BY <1>a, <2>2, <2>3, <2>5, EarlyTells
    <2>. QED BY <1>0, <2>2, <2>3, <2>6, IndexRuns
<1>7. ASSUME NEW r \in Runs, ReadCursor(r) PROVE IndexOK'
    <2>1. RunBe([run[r] EXCEPT !.phase = "height", !.from = cursor + 1], "height", run[r].pools,
                cursor + 1, run[r].to, run[r].stmts)
        BY <1>b, RunBecomes
    <2>2. PICK x : x = [run[r] EXCEPT !.phase = "height", !.from = cursor + 1] OBVIOUS
    <2>3. Set(r, x) /\ run[r].phase = "cursor" /\ faults' = faults
          /\ UNCHANGED <<chain, book, tables, cursor>>
        BY <1>7, <2>2 DEF ReadCursor, At
    <2>4. Lossless' <=> Lossless BY <2>3 DEF Lossless
    <2>5. run[r].pools \subseteq Tracked /\ (Lossless' => run[r].pools = Tracked)
        BY <1>b, <2>3, <2>4 DEF Tells, Late
    <2>6. Tells(x, Lossless') BY <1>a, <2>1, <2>2, <2>3, <2>5, EarlyTells
    <2>. QED BY <1>0, <2>3, <2>6, IndexRuns
<1>8. ASSUME NEW r \in Runs, ReadHeight(r) \/ ReadHeightBehind(r) PROVE IndexOK'
    <2>1. PICK h \in {Height, Height - 1} : LearnHeight(r, h)
        BY <1>8 DEF ReadHeight, ReadHeightBehind
    <2>2. h \in Int /\ h <= Height BY HeightNat DEF IndexOK
    <2>3. faults' = faults \/ \E kind : Fault(kind) BY <1>8 DEF ReadHeight, ReadHeightBehind
    <2>. QED BY <1>0, <2>1, <2>2, <2>3, IndexLearnsHeight
<1>9. ASSUME NEW r \in Runs, FetchBlock(r) \/ FetchNothing(r) PROVE IndexOK'
    BY <1>0, <1>9, IndexFetches
<1>10. ASSUME NEW r \in Runs, Commit(r) PROVE IndexOK'
    BY <1>0, <1>10, IndexCommits
<1>11. ASSUME NEW r \in Runs, Abort(r) PROVE IndexOK'
    <2>1. Set(r, Asleep) /\ Fault("abort") /\ UNCHANGED <<chain, book, tables, cursor>>
        BY <1>11 DEF Abort
    <2>2. Tells(Asleep, Lossless') BY <1>a, AsleepTells
    <2>. QED BY <1>0, <2>1, <2>2, IndexRuns
<1>. QED
    BY <1>1, <1>2, <1>3, <1>4, <1>5, <1>6, <1>7, <1>8, <1>9, <1>10, <1>11
    DEF Next, RunStep, RunFault

(* However much a run loses, a row only says what the chain said of its  *)
(* option, and a fee row only what was charged.                          *)
THEOREM IndexNeverInvents ==
    ASSUME OneRun
    PROVE  Spec => []NeverInvents
<1>1. Init => IndexOK BY IndexInit
<1>2. IndexOK /\ [Next]_pollerVars => IndexOK' BY IndexStep
<1>3. IndexOK => NeverInvents BY DEF IndexOK, Heard, HeardRow, HeardFee, NeverInvents
<1>. QED BY <1>1, <1>2, <1>3, PTL DEF Spec

(* What the refinement shows of the tables. *)
Visible == IF Lossless THEN Shown ELSE SaidBy(Indexed)

(* What is shown is always what the prefix up to the cursor says. *)
LEMMA IndexShows ==
    ASSUME IndexOK PROVE Visible = SaidBy(Indexed)
BY DEF IndexOK, Visible, Says, Shown, ShownIn, Indexed

(* The abstract index starts with the poller. *)
LEMMA ViewStarts ==
    ASSUME Init PROVE View!Init
<1>1. chain = <<>> /\ cursor = 0 BY DEF Init, ChainInit, IndexerInit
<1>2. IndexOK BY IndexInit
<1>3. SubSeq(<<>>, 1, 0) = <<>> OBVIOUS
<1>4. Indexed = <<>> BY <1>1, <1>3 DEF Indexed
<1>5. Visible = SaidBy(<<>>) BY <1>2, <1>4, IndexShows
<1>. QED BY <1>1, <1>5 DEF View!Init, Visible

(* A block mined is a step Grow of the abstract index. *)
LEMMA ViewGrows ==
    ASSUME IndexOK, IndexOK', MineStep PROVE View!Next
<1>1. PICK b : chain' = Append(chain, b) BY MiningAppends DEF MineStep
<1>2. PICK S : chain \in Seq(S) BY DEF IndexOK, CursorOK
<1>3. cursor \in 0 .. Len(chain) /\ cursor' = cursor
    BY DEF IndexOK, CursorOK, Height, MineStep, dbVars
<1>4. /\ Len(chain') = Len(chain) + 1 /\ SubSeq(chain', 1, Len(chain)) = chain
      /\ SubSeq(chain', 1, cursor) = SubSeq(chain, 1, cursor)
    BY <1>1, <1>2, <1>3
<1>5. Indexed' = Indexed BY <1>3, <1>4 DEF Indexed
<1>6. Visible = SaidBy(Indexed) /\ Visible' = SaidBy(Indexed)
    <2>1. Visible = SaidBy(Indexed) BY IndexShows
    <2>2. (Visible = SaidBy(Indexed))'
        BY DEF IndexOK, Visible, Says, Shown, ShownIn, Indexed
    <2>3. SaidBy(Indexed)' = SaidBy(Indexed) BY <1>5
    <2>. QED BY <2>1, <2>2, <2>3
<1>. QED BY <1>3, <1>4, <1>6 DEF View!Next, View!Grow, Visible

(* A commit is its step Advance. *)
LEMMA ViewAdvances ==
    ASSUME OneRun, IndexOK, NEW r \in Runs, Commit(r) PROVE View!Next
<1>0. CursorOK'
    <2>1. [Next]_pollerVars BY DEF Next, RunStep
    <2>. QED BY <2>1, CursorStep DEF IndexOK
<1>1. IndexOK' /\ chain' = chain /\ cursor' \in cursor + 1 .. Len(chain)
    BY <1>0, IndexCommits
<1>2. (Visible = SaidBy(Indexed))'
    BY <1>1 DEF IndexOK, Visible, Says, Shown, ShownIn, Indexed
<1>3. Indexed' = SubSeq(chain, 1, cursor') BY <1>1 DEF Indexed
<1>4. Visible' = SaidBy(SubSeq(chain, 1, cursor')) BY <1>2, <1>3
<1>. QED BY <1>1, <1>4 DEF View!Next, View!Advance, Visible

(* Any other step of the poller is none. *)
LEMMA ViewStays ==
    ASSUME IndexOK, IndexOK', UNCHANGED <<chain, cursor>> PROVE UNCHANGED View!viewVars
<1>1. Indexed' = Indexed BY DEF Indexed
<1>2. (Visible = SaidBy(Indexed))'
    BY DEF IndexOK, Visible, Says, Shown, ShownIn, Indexed
<1>3. Visible = SaidBy(Indexed) BY IndexShows
<1>4. Visible' = Visible BY <1>1, <1>2, <1>3
<1>. QED BY <1>4 DEF View!viewVars, Visible

(* The poller steps as the abstract index may. *)
LEMMA ViewStep ==
    ASSUME OneRun, IndexOK, [Next]_pollerVars PROVE [View!Next]_View!viewVars
<1>. USE DEF pollerVars, chainVars, dbVars
<1>0. IndexOK' BY IndexStep
<1>1. CASE UNCHANGED pollerVars BY <1>0, <1>1, ViewStays
<1>2. CASE MineStep BY <1>0, <1>2, ViewGrows
<1>3. ASSUME NEW r \in Runs, Commit(r) PROVE View!Next BY <1>3, ViewAdvances
<1>4. ASSUME NEW r \in Runs,
             \/ Cron(r) \/ Resolve(r) \/ LearnGrace(r) \/ ReadCursor(r) \/ ReadHeight(r)
             \/ FetchBlock(r) \/ RunFault(r)
      PROVE  UNCHANGED View!viewVars
    <2>1. UNCHANGED <<chain, cursor>>
        BY <1>4 DEF Cron, Resolve, LearnGrace, ReadCursor, ReadHeight, LearnHeight, FetchBlock,
           RunFault, ResolveFails, LearnGraceFails, ReadHeightBehind, FetchNothing, Abort
    <2>. QED BY <1>0, <2>1, ViewStays
<1>. QED BY <1>1, <1>2, <1>3, <1>4 DEF Next, RunStep

(* With one run at a time the poller implements the abstract index: what *)
(* a reader sees is always what a prefix of the chain says, and the      *)
(* prefix only grows.                                                    *)
THEOREM IndexShowsPrefixes ==
    ASSUME OneRun
    PROVE  Spec => ShowsPrefixes
<1>1. Init => IndexOK /\ View!Init BY IndexInit, ViewStarts
<1>2. IndexOK /\ [Next]_pollerVars => IndexOK' BY IndexStep
<1>3. IndexOK /\ [Next]_pollerVars => [View!Next]_View!viewVars BY ViewStep
<1>. QED BY <1>1, <1>2, <1>3, PTL DEF Spec, ShowsPrefixes, View!Spec

-----------------------------------------------------------------------------
(* Prices: what a run saves of them, and what candles make of it.          *)

(* Finite sets of numbers have ends. *)
LEMMA FiniteHasEnds ==
    ASSUME NEW S \in SUBSET Nat, IsFiniteSet(S), S # {}
    PROVE  /\ \E m \in S : \A x \in S : x <= m
           /\ \E m \in S : \A x \in S : m <= x
<1>. DEFINE Ends(U) == /\ \E m \in U : \A x \in U : x <= m
                       /\ \E m \in U : \A x \in U : m <= x
            A == {n \in Nat : \A U \in SUBSET Nat :
                     IsFiniteSet(U) /\ Cardinality(U) = n /\ U # {} => Ends(U)}
<1>1. 0 \in A BY FS_EmptySet
<1>2. ASSUME NEW n \in Nat, n \in A PROVE n + 1 \in A
    <2>. SUFFICES ASSUME NEW U \in SUBSET Nat, IsFiniteSet(U), Cardinality(U) = n + 1, U # {}
                  PROVE  Ends(U)
        OBVIOUS
    <2>1. PICK y : y \in U OBVIOUS
    <2>. DEFINE V == U \ {y}
    <2>2. V \in SUBSET Nat /\ IsFiniteSet(V) /\ Cardinality(V) = n
        <3>1. IsFiniteSet(V) /\ Cardinality(V) = Cardinality(U) - 1
            BY <2>1, FS_RemoveElement
        <3>2. Cardinality(V) = n
            <4>1. Cardinality(V) = (n + 1) - 1 BY <3>1
            <4>. QED BY <4>1
        <3>3. V \in SUBSET Nat OBVIOUS
        <3>. QED BY <3>1, <3>2, <3>3
    <2>3. CASE V = {}
        <3>1. y \in Nat /\ \A x \in U : x = y BY <2>1, <2>3
        <3>2. y <= y BY <3>1
        <3>3. \A x \in U : x <= y /\ y <= x BY <3>1, <3>2
        <3>. QED BY <2>1, <3>3
    <2>4. CASE V # {}
        <3>1. Ends(V) BY <1>2, <2>2, <2>4
        <3>2. PICK m \in V : \A x \in V : x <= m BY <3>1
        <3>3. PICK k \in V : \A x \in V : k <= x BY <3>1
        <3>4. \E z \in U : \A x \in U : x <= z
            <4>1. CASE y <= m
                <5>1. \A x \in U : x <= m BY <3>2, <4>1
                <5>. QED BY <5>1
            <4>2. CASE m <= y
                <5>1. \A x \in U : x <= y BY <2>1, <3>2, <4>2
                <5>. QED BY <2>1, <5>1
            <4>. QED BY <2>1, <4>1, <4>2
        <3>5. \E z \in U : \A x \in U : z <= x
            <4>1. CASE k <= y
                <5>1. \A x \in U : k <= x BY <3>3, <4>1
                <5>. QED BY <5>1
            <4>2. CASE y <= k
                <5>1. \A x \in U : y <= x BY <2>1, <3>3, <4>2
                <5>. QED BY <2>1, <5>1
            <4>. QED BY <2>1, <4>1, <4>2
        <3>. QED BY <3>4, <3>5
    <2>. QED BY <2>3, <2>4
<1>3. Nat \subseteq A
    <2>. HIDE DEF A
    <2>. QED BY <1>1, <1>2, SetInduction
<1>. QED BY <1>3, FS_CardinalityType

(* What is saved in a row. *)
PriceRow == [token : Tokens, block : Nat, time : Nat, price : Nat]

(* The blocks and the prices of finitely many rows are finitely many.      *)
LEMMA RowsAreFinite ==
    ASSUME NEW rows \in SUBSET PriceRow, IsFiniteSet(rows)
    PROVE  /\ IsFiniteSet({r.block : r \in rows}) /\ {r.block : r \in rows} \subseteq Nat
           /\ IsFiniteSet({r.price : r \in rows}) /\ {r.price : r \in rows} \subseteq Nat
<1>1. /\ [r \in rows |-> r.block] \in Surjection(rows, {r.block : r \in rows})
      /\ [r \in rows |-> r.price] \in Surjection(rows, {r.price : r \in rows})
    BY DEF Surjection
<1>2. IsFiniteSet({r.block : r \in rows}) /\ IsFiniteSet({r.price : r \in rows})
    BY <1>1, FS_Surjection
<1>. QED BY <1>2 DEF PriceRow

(* The ends of a candle are what they are called. *)
LEMMA CandleEnds ==
    ASSUME NEW rows \in SUBSET PriceRow, IsFiniteSet(rows), rows # {}
    PROVE  LET prices == {r.price : r \in rows}
           IN  /\ Earliest(rows) \in rows /\ Latest(rows) \in rows
               /\ Highest(prices) \in prices /\ Lowest(prices) \in prices
               /\ \A p \in prices : p \in Nat /\ p <= Highest(prices) /\ Lowest(prices) <= p
<1>. DEFINE prices == {r.price : r \in rows}
            blocks == {r.block : r \in rows}
<1>1. IsFiniteSet(blocks) /\ blocks \in SUBSET Nat /\ IsFiniteSet(prices) /\ prices \in SUBSET Nat
    BY RowsAreFinite
<1>2. blocks # {} /\ prices # {} OBVIOUS
<1>3. \E m \in rows : \A r \in rows : m.block <= r.block
    <2>1. PICK b \in blocks : \A x \in blocks : b <= x
        <3>. HIDE DEF blocks
        <3>. QED BY <1>1, <1>2, FiniteHasEnds
    <2>. QED BY <2>1
<1>4. \E m \in rows : \A r \in rows : r.block <= m.block
    <2>1. PICK b \in blocks : \A x \in blocks : x <= b
        <3>. HIDE DEF blocks
        <3>. QED BY <1>1, <1>2, FiniteHasEnds
    <2>. QED BY <2>1
<1>5. Earliest(rows) \in rows BY <1>3 DEF Earliest
<1>6. Latest(rows) \in rows BY <1>4 DEF Latest
<1>. HIDE DEF prices
<1>7. /\ \E m \in prices : \A x \in prices : x <= m
      /\ \E m \in prices : \A x \in prices : m <= x
    BY <1>1, <1>2, FiniteHasEnds
<1>8. Highest(prices) \in prices /\ \A p \in prices : p <= Highest(prices)
    BY <1>7 DEF Highest
<1>9. Lowest(prices) \in prices /\ \A p \in prices : Lowest(prices) <= p
    BY <1>7 DEF Lowest
<1>10. \A p \in prices : p \in Nat BY <1>1
<1>. QED BY <1>5, <1>6, <1>8, <1>9, <1>10 DEF prices

-----------------------------------------------------------------------------
(* The invariant.  Any time of the running roll-up, or now. *)
ReadTime == IF roll = NoRoll THEN clock ELSE roll.time

PriceMaps == UNION {[S -> Nat] : S \in SUBSET Tokens}

ClockOK ==
    /\ clock \in Nat /\ height \in Nat /\ tip \in Nat
    /\ Origin + height <= clock /\ tip <= height

PollOK ==
    /\ poll \in [phase : {"idle", "quote", "save"}, time : Nat, block : Nat, prices : PriceMaps]
    /\ poll # NoPoll =>
          /\ poll.time <= clock /\ poll.block <= height
          /\ \A q \in quoted : q.block <= poll.block /\ q.time <= poll.time
          /\ roll # NoRoll => poll.time = roll.time

(* The row in the table for what q once said, or a later answer. *)
Answers(s, q) == s.token = q.token /\ s.block = q.block /\ q.time <= s.time

RowsOK ==
    /\ quoted \subseteq PriceRow /\ IsFiniteSet(quoted)
    /\ snapshots \subseteq quoted
    /\ \A r, s \in snapshots : r.token = s.token /\ r.block = s.block => r = s
    /\ \A q \in quoted : q.block <= height /\ q.time <= ReadTime
    /\ \A q \in quoted :
          (\E s \in snapshots : Answers(s, q)) \/ q.time + Retention < ReadTime

SwapsOK == \A s \in swaps : s.block \in Nat /\ s.block + Origin <= ReadTime

IsCandle(c) ==
    c = [token |-> c.token, interval |-> c.interval, openTime |-> c.openTime,
         open |-> c.open, close |-> c.close, high |-> c.high, low |-> c.low,
         volume |-> c.volume, trades |-> c.trades]

IsTrue(c) ==
    /\ IsCandle(c)
    /\ \E rows \in SUBSET BucketSnapshots(quoted, c.token, c.openTime, c.interval) :
          BorneOut(rows, c)

RollSet(S) == [phase : S, time : S, block : S, todo : S, rows : S]
IsRoll(r) == \E S : r \in RollSet(S)

RollOK ==
    /\ IsRoll(roll)
    /\ roll # NoRoll => /\ roll.time \in Nat /\ roll.time <= clock
                        /\ \A c \in roll.rows : IsTrue(c)

CandleInv ==
    /\ ClockOK /\ PollOK /\ RowsOK /\ SwapsOK /\ RollOK
    /\ \A c \in candles : IsTrue(c)

(* A bucket is begun less than its length ago. *)
LEMMA BucketBounds ==
    ASSUME NEW t \in Nat, NEW i \in Nat \ {0}
    PROVE  /\ BucketStart(t, i) \in Nat
           /\ BucketStart(t, i) <= t /\ t < BucketStart(t, i) + i
BY DEF BucketStart

(* The rows read of a bucket tell the candle that is made of them.         *)
LEMMA ReadIsTrue ==
    ASSUME CandleInv, roll # NoRoll, NEW token, NEW i \in Intervals,
           BucketSnapshots(snapshots, token, BucketStart(roll.time, i), i) # {}
    PROVE  IsTrue(CandleNow(token, roll.time, i))
<1>. DEFINE start == BucketStart(roll.time, i)
            rows == BucketSnapshots(snapshots, token, start, i)
            traded == BucketSwaps(token, start, i)
            c == CandleNow(token, roll.time, i)
<1>1. /\ roll.time \in Nat /\ i \in Nat \ {0} /\ i <= Retention /\ i <= Origin
      /\ Retention \in Nat /\ Origin \in Nat /\ ReadTime = roll.time
    BY TimeAssumption DEF CandleInv, RollOK, ReadTime
<1>2. start \in Nat /\ start <= roll.time /\ roll.time < start + i
    BY <1>1, BucketBounds
<1>. HIDE DEF start
<1>3. traded = {}
    <2>1. \A s \in swaps : s.block \in Nat /\ s.block + Origin <= roll.time
        BY <1>1 DEF CandleInv, SwapsOK
    <2>2. \A s \in swaps : ~(start <= s.block) BY <1>1, <1>2, <2>1
    <2>. QED BY <2>2 DEF BucketSwaps
<1>4. c = Candle(token, start, i, rows, {})
    BY <1>3 DEF CandleNow, start
<1>5. PricesSeen(rows, {}) = {r.price : r \in rows}
    BY DEF PricesSeen, SwapPrices
<1>6. /\ IsCandle(c) /\ c.token = token /\ c.interval = i /\ c.openTime = start
      /\ c.open = Earliest(rows).price /\ c.close = Latest(rows).price
      /\ c.high = Highest({r.price : r \in rows}) /\ c.low = Lowest({r.price : r \in rows})
    <2>. HIDE DEF rows, c
    <2>. QED BY <1>4, <1>5 DEF IsCandle, Candle
<1>7. rows # {} BY DEF start
<1>8. \A r, s \in rows : r.block = s.block => r = s
    BY DEF BucketSnapshots, CandleInv, RowsOK
<1>9. ASSUME NEW q \in BucketSnapshots(quoted, token, start, i)
      PROVE  \E r \in rows : r.block = q.block
    <2>1. q \in quoted /\ q.token = token /\ start <= q.time /\ q.time \in Nat
        BY DEF BucketSnapshots, InBucket, CandleInv, RowsOK, PriceRow
    <2>2. ~(q.time + Retention < roll.time) BY <1>1, <1>2, <2>1
    <2>3. PICK s \in snapshots : Answers(s, q)
        BY <1>1, <2>1, <2>2 DEF CandleInv, RowsOK
    <2>4. s \in quoted /\ s.time \in Nat /\ s.time <= roll.time
        BY <1>1 DEF CandleInv, RowsOK, PriceRow
    <2>5. start <= s.time /\ s.time < start + i
        BY <1>1, <1>2, <2>1, <2>3, <2>4 DEF Answers
    <2>6. s \in rows
        BY <2>1, <2>3, <2>5 DEF BucketSnapshots, InBucket, Answers
    <2>. QED BY <2>3, <2>6 DEF Answers
<1>10. rows \in SUBSET BucketSnapshots(quoted, c.token, c.openTime, c.interval)
    <2>1. rows \in SUBSET BucketSnapshots(quoted, token, start, i)
        BY DEF BucketSnapshots, CandleInv, RowsOK
    <2>. QED BY <1>6, <2>1
<1>. HIDE DEF rows, c
<1>11. BorneOut(rows, c)
    BY <1>6, <1>7, <1>8, <1>9 DEF BorneOut
<1>. QED BY <1>6, <1>10, <1>11 DEF IsTrue, c

(* What a candle tells stays told: later answers are for later blocks.     *)
LEMMA TruthStays ==
    ASSUME quoted \subseteq quoted', quoted' \subseteq PriceRow,
           \A n \in quoted' : n \in quoted \/ \A q \in quoted : q.block <= n.block,
           NEW c, IsTrue(c)
    PROVE  IsTrue(c)'
<1>1. PICK rows \in SUBSET BucketSnapshots(quoted, c.token, c.openTime, c.interval) :
         BorneOut(rows, c)
    BY DEF IsTrue
<1>2. rows \in SUBSET BucketSnapshots(quoted', c.token, c.openTime, c.interval)
    BY <1>1 DEF BucketSnapshots
<1>3. ASSUME NEW q \in BucketSnapshots(quoted', c.token, c.openTime, c.interval),
             NEW r \in rows, q.block < r.block
      PROVE  \E s \in rows : s.block = q.block
    <2>1. q \in quoted' /\ r \in quoted /\ q.block \in Nat /\ r.block \in Nat
        BY <1>1 DEF BucketSnapshots, PriceRow
    <2>2. q \in quoted BY <1>3, <2>1
    <2>3. q \in BucketSnapshots(quoted, c.token, c.openTime, c.interval)
        BY <2>2 DEF BucketSnapshots
    <2>. QED BY <1>1, <1>3, <2>3 DEF BorneOut
<1>4. BorneOut(rows, c)' BY <1>1, <1>3 DEF BorneOut
<1>. QED BY <1>2, <1>4 DEF IsTrue

(* No step but a save touches what was quoted. *)
LEMMA TruthFrame ==
    ASSUME UNCHANGED quoted, NEW c
    PROVE  IsTrue(c)' <=> IsTrue(c)
BY DEF IsTrue, BorneOut

(* A poll that goes on. *)
LEMMA PollGoes ==
    ASSUME poll \in [phase : {"idle", "quote", "save"}, time : Nat, block : Nat,
                     prices : PriceMaps],
           NEW p \in {"quote", "save"}, NEW m \in PriceMaps
    PROVE  LET new == [poll EXCEPT !.phase = p, !.prices = m]
           IN  /\ new \in [phase : {"idle", "quote", "save"}, time : Nat, block : Nat,
                           prices : PriceMaps]
               /\ new # NoPoll /\ new.time = poll.time /\ new.block = poll.block
BY DEF NoPoll

(* The quotients are prices. *)
LEMMA RatesAreNat ==
    ASSUME NEW a \in Nat, NEW b \in Nat, a # 0
    PROVE  /\ (b * Scale) \div a \in Nat
           /\ (QuoteSats * Scale * Scale) \div a \in Nat
<1>1. Scale \in Nat /\ QuoteSats \in Nat BY PriceAssumption
<1>2. \A x, y \in Nat : x * y \in Nat OBVIOUS
<1>3. b * Scale \in Nat /\ QuoteSats * Scale \in Nat BY <1>1, <1>2
<1>4. QuoteSats * Scale * Scale \in Nat BY <1>1, <1>2, <1>3
<1>5. \A x \in Nat, d \in Nat \ {0} : x \div d \in Nat OBVIOUS
<1>. QED BY <1>3, <1>4, <1>5

LEMMA PricesAreMaps ==
    ASSUME NEW q \in [Base -> Quotes \cup {NoQuote}] PROVE PricesOf(q) \in PriceMaps
<1>. DEFINE IsMap(f) == f \in [DOMAIN f -> Nat] /\ DOMAIN f \subseteq Tokens
<1>1. \A f : IsMap(f) => f \in PriceMaps BY DEF PriceMaps
<1>2. /\ q["A"] \in Nat \cup {NoQuote} /\ q["B"] \in Nat \cup {NoQuote}
      /\ "A" \in Base /\ "B" \in Base
      /\ \A t \in Base : q[t] = NoQuote \/ q[t] \in Nat
    BY PriceAssumption DEF Base
<1>3. IsMap(BaseRates(q)) BY <1>2 DEF BaseRates, Tokens
<1>4. IsMap(CrossRate(q))
    <2>1. CASE q["A"] # NoQuote /\ q["B"] # NoQuote /\ q["A"] # 0
        <3>1. (q["B"] * Scale) \div q["A"] \in Nat BY <1>2, <2>1, RatesAreNat
        <3>2. CrossRate(q) = [t \in {"A_B"} |-> (q["B"] * Scale) \div q["A"]]
            BY <2>1 DEF CrossRate
        <3>. QED BY <3>1, <3>2 DEF Tokens, Pairs
    <2>2. CASE ~(q["A"] # NoQuote /\ q["B"] # NoQuote /\ q["A"] # 0)
        <3>1. CrossRate(q) = <<>> BY <2>2 DEF CrossRate
        <3>. QED BY <3>1
    <2>. QED BY <2>1, <2>2
<1>5. ASSUME NEW t \in Base, NEW pair \in Tokens PROVE IsMap(BtcRate(q, t, pair))
    <2>1. CASE q[t] # NoQuote /\ q[t] # 0
        <3>1. (QuoteSats * Scale * Scale) \div q[t] \in Nat BY <1>2, <2>1, RatesAreNat
        <3>2. BtcRate(q, t, pair) = [p \in {pair} |-> (QuoteSats * Scale * Scale) \div q[t]]
            BY <2>1 DEF BtcRate
        <3>. QED BY <3>1, <3>2
    <2>2. CASE ~(q[t] # NoQuote /\ q[t] # 0)
        <3>1. BtcRate(q, t, pair) = <<>> BY <2>2 DEF BtcRate
        <3>. QED BY <3>1
    <2>. QED BY <2>1, <2>2
<1>6. ASSUME NEW f, NEW g, IsMap(f), IsMap(g) PROVE IsMap(Merge(f, g))
    BY <1>6 DEF Merge
<1>7. "A_BTC" \in Tokens /\ "B_BTC" \in Tokens BY DEF Tokens, Pairs
<1>8. IsMap(BtcRate(q, "A", "A_BTC")) /\ IsMap(BtcRate(q, "B", "B_BTC"))
    BY <1>2, <1>5, <1>7
<1>. HIDE DEF IsMap
<1>9. IsMap(PricesOf(q)) BY <1>3, <1>4, <1>6, <1>8 DEF PricesOf
<1>. QED BY <1>1, <1>9

-----------------------------------------------------------------------------
(* Step by step. *)

LEMMA CandleInit == PricesInit => CandleInv
<1>. SUFFICES ASSUME PricesInit PROVE CandleInv OBVIOUS
<1>1. NoPoll \in [phase : {"idle", "quote", "save"}, time : Nat, block : Nat, prices : PriceMaps]
    <2>1. <<>> \in [{} -> Nat] OBVIOUS
    <2>2. <<>> \in PriceMaps BY <2>1 DEF PriceMaps
    <2>. QED BY <2>2 DEF NoPoll
<1>2. IsRoll(NoRoll)
    <2>1. NoRoll \in RollSet({"idle", 0, <<>>, {}}) BY DEF NoRoll, RollSet
    <2>. QED BY <2>1 DEF IsRoll
<1>3. IsFiniteSet({}) BY FS_EmptySet
<1>. QED BY <1>1, <1>2, <1>3, TimeAssumption
         DEF PricesInit, CandleInv, ClockOK, PollOK, RowsOK, SwapsOK, RollOK, ReadTime

LEMMA TickKeeps == ASSUME CandleInv, Tick PROVE CandleInv'
<1>1. /\ ClockOK' /\ ReadTime <= ReadTime' /\ ReadTime \in Nat /\ ReadTime' \in Nat
      /\ (poll # NoPoll => poll.time <= clock') /\ (roll # NoRoll => roll.time <= clock')
    BY TimeAssumption DEF Tick, CandleInv, ClockOK, PollOK, RollOK, ReadTime
<1>2. PollOK' BY <1>1 DEF Tick, CandleInv, PollOK
<1>3. RowsOK'
    <2>1. \A q \in quoted : q.time \in Nat /\ q.time + Retention \in Nat
        BY TimeAssumption DEF CandleInv, RowsOK, PriceRow
    <2>. QED BY <1>1, <2>1 DEF Tick, CandleInv, RowsOK
<1>4. SwapsOK' BY <1>1, TimeAssumption DEF Tick, CandleInv, SwapsOK
<1>5. \A c : IsTrue(c)' <=> IsTrue(c) BY TruthFrame DEF Tick
<1>6. RollOK' BY <1>1, <1>5 DEF Tick, CandleInv, RollOK
<1>. QED BY <1>1, <1>2, <1>3, <1>4, <1>5, <1>6 DEF CandleInv, Tick

LEMMA MineKeeps == ASSUME CandleInv, BlockMined PROVE CandleInv'
<1>1. ClockOK' /\ ReadTime' = ReadTime /\ height <= height'
    BY TimeAssumption DEF BlockMined, CandleInv, ClockOK, ReadTime
<1>2. PollOK' BY <1>1 DEF BlockMined, CandleInv, PollOK, ClockOK
<1>3. RowsOK'
    <2>1. \A q \in quoted : q.block \in Nat
        BY DEF CandleInv, RowsOK, PriceRow
    <2>. QED BY <1>1, <2>1 DEF BlockMined, CandleInv, RowsOK, ClockOK
<1>4. SwapsOK' BY <1>1 DEF BlockMined, CandleInv, SwapsOK
<1>5. \A c : IsTrue(c)' <=> IsTrue(c) BY TruthFrame DEF BlockMined
<1>6. RollOK' BY <1>1, <1>5 DEF BlockMined, CandleInv, RollOK
<1>. QED BY <1>1, <1>2, <1>3, <1>4, <1>5, <1>6 DEF CandleInv, BlockMined

LEMMA StartKeeps == ASSUME CandleInv, StartTasks PROVE CandleInv'
<1>0. poll = NoPoll /\ roll = NoRoll /\ ReadTime = clock /\ clock \in Nat /\ height \in Nat
    BY DEF StartTasks, Idle, ReadTime, CandleInv, ClockOK
<1>1. ClockOK'
    BY PriceAssumption DEF StartTasks, CandleInv, ClockOK
<1>2. /\ poll' = [phase |-> "quote", time |-> clock, block |-> height, prices |-> <<>>]
      /\ poll' # NoPoll
    BY DEF StartTasks, NoPoll
<1>3. roll' = NoRoll \/ roll' = [phase |-> "read", time |-> clock, block |-> height,
                                 todo |-> RollOrder, rows |-> {}]
    BY DEF StartTasks, NoRoll
<1>4. ReadTime' = clock BY <1>3 DEF ReadTime, StartTasks
<1>5. PollOK'
    <2>1. <<>> \in PriceMaps
        <3>1. <<>> \in [{} -> Nat] OBVIOUS
        <3>. QED BY <3>1 DEF PriceMaps
    <2>2. poll' \in [phase : {"idle", "quote", "save"}, time : Nat, block : Nat,
                     prices : PriceMaps]
        BY <1>0, <1>2, <2>1
    <2>3. clock' = clock /\ height' = height /\ quoted' = quoted BY DEF StartTasks
    <2>4. roll' # NoRoll => roll'.time = clock BY <1>3
    <2>5. \A q \in quoted : q.block <= height /\ q.time <= clock
        BY <1>0 DEF CandleInv, RowsOK
    <2>. QED BY <1>0, <1>2, <2>2, <2>3, <2>4, <2>5 DEF PollOK
<1>6. RowsOK' BY <1>0, <1>4 DEF StartTasks, CandleInv, RowsOK
<1>7. SwapsOK'
    <2>1. PICK mined \in SwapsIn(tip + 1 .. tip') : swaps' = swaps \cup mined
        BY DEF StartTasks
    <2>2. \A s \in mined : s.block \in tip + 1 .. tip' BY DEF SwapsIn
    <2>3. /\ tip \in Nat /\ tip' \in Nat /\ tip' <= height /\ Origin \in Nat
          /\ Origin + height <= clock
        BY <1>1, TimeAssumption DEF StartTasks, CandleInv, ClockOK
    <2>4. \A s \in mined : s.block \in Nat /\ s.block + Origin <= clock
        BY <1>0, <2>2, <2>3
    <2>. QED BY <1>0, <1>4, <2>1, <2>4 DEF SwapsOK, CandleInv
<1>8. \A c : IsTrue(c)' <=> IsTrue(c) BY TruthFrame DEF StartTasks
<1>9. RollOK'
    <2>1. clock' = clock BY DEF StartTasks
    <2>2. IsRoll(roll')
        <3>1. [phase |-> "read", time |-> clock, block |-> height, todo |-> RollOrder,
               rows |-> {}] \in RollSet({"read", clock, height, RollOrder, {}})
            BY DEF RollSet
        <3>. QED BY <1>0, <1>3, <3>1 DEF IsRoll, CandleInv, RollOK
    <2>. QED BY <1>0, <1>3, <2>1, <2>2 DEF RollOK
<1>. QED BY <1>1, <1>5, <1>6, <1>7, <1>8, <1>9 DEF CandleInv, StartTasks

LEMMA QuotesKeep ==
    ASSUME CandleInv, NEW q \in [Base -> Quotes \cup {NoQuote}], GetQuotes(q)
    PROVE  CandleInv'
<1>1. /\ poll' \in [phase : {"idle", "quote", "save"}, time : Nat, block : Nat,
                    prices : PriceMaps]
      /\ poll' # NoPoll /\ poll'.time = poll.time /\ poll'.block = poll.block
    BY PollGoes, PricesAreMaps DEF CandleInv, PollOK, GetQuotes
<1>2. poll # NoPoll BY DEF GetQuotes, NoPoll
<1>3. PollOK' BY <1>1, <1>2 DEF CandleInv, PollOK, GetQuotes
<1>4. ClockOK' /\ RowsOK' /\ SwapsOK'
    BY DEF CandleInv, GetQuotes, ClockOK, RowsOK, SwapsOK, ReadTime
<1>5. \A c : IsTrue(c)' <=> IsTrue(c) BY TruthFrame DEF GetQuotes
<1>. QED BY <1>3, <1>4, <1>5 DEF CandleInv, GetQuotes, RollOK

LEMMA SaveKeeps == ASSUME CandleInv, SavePrices PROVE CandleInv'
<1>. DEFINE new == Snapshots(poll)
<1>0. /\ poll # NoPoll /\ poll' = NoPoll /\ quoted' = quoted \cup new
      /\ snapshots' = {s \in snapshots : ~(s.block = poll.block /\ s.token \in DOMAIN poll.prices)}
                       \cup new
      /\ UNCHANGED <<clock, height, tip, swaps, candles, roll>>
    BY DEF SavePrices, NoPoll
<1>1. /\ poll.time \in Nat /\ poll.block \in Nat /\ poll.prices \in PriceMaps
      /\ poll.time <= clock /\ poll.block <= height
      /\ \A q \in quoted : q.block <= poll.block /\ q.time <= poll.time
    BY <1>0 DEF CandleInv, PollOK
<1>2. PICK S \in SUBSET Tokens : poll.prices \in [S -> Nat] BY <1>1 DEF PriceMaps
<1>3. new \subseteq PriceRow BY <1>1, <1>2 DEF Snapshots, PriceRow
<1>4. IsFiniteSet(new)
    <2>1. IsFiniteSet(Tokens)
        <3>1. IsFiniteSet({"A"} \cup {"B"}) BY FS_Singleton, FS_Union
        <3>2. IsFiniteSet(({"A_B"} \cup {"A_BTC"}) \cup {"B_BTC"}) BY FS_Singleton, FS_Union
        <3>3. Base = {"A"} \cup {"B"} /\ Pairs = ({"A_B"} \cup {"A_BTC"}) \cup {"B_BTC"}
            BY DEF Base, Pairs
        <3>. QED BY <3>1, <3>2, <3>3, FS_Union DEF Tokens
    <2>2. IsFiniteSet(S) BY <2>1, FS_Subset
    <2>. DEFINE row == [t \in S |-> [token |-> t, block |-> poll.block, time |-> poll.time,
                                     price |-> poll.prices[t]]]
    <2>3. row \in Surjection(S, new) BY <1>2 DEF Surjection, Snapshots
    <2>. QED BY <2>2, <2>3, FS_Surjection
<1>5. \A n \in new : /\ n.block = poll.block /\ n.time = poll.time
                     /\ n.token \in S
    BY <1>2 DEF Snapshots
<1>6. \A t \in S : \E n \in new : n.token = t
    <2>. TAKE t \in S
    <2>1. [token |-> t, block |-> poll.block, time |-> poll.time, price |-> poll.prices[t]] \in new
        BY <1>2 DEF Snapshots
    <2>. QED BY <2>1
<1>7. \A n, m \in new : n.token = m.token => n = m BY DEF Snapshots
<1>8. DOMAIN poll.prices = S BY <1>2
<1>9. ReadTime' = ReadTime /\ poll.time <= ReadTime
    BY <1>0, <1>1 DEF ReadTime, CandleInv, PollOK
<1>. HIDE DEF new
<1>10. RowsOK'
    <2>1. quoted' \subseteq PriceRow /\ IsFiniteSet(quoted')
        BY <1>0, <1>3, <1>4, FS_Union DEF CandleInv, RowsOK
    <2>2. snapshots' \subseteq quoted' BY <1>0 DEF CandleInv, RowsOK
    <2>3. ASSUME NEW r \in snapshots', NEW s \in snapshots',
                 r.token = s.token, r.block = s.block
          PROVE  r = s
        <3>1. CASE r \in new /\ s \in new BY <1>7, <2>3, <3>1
        <3>2. CASE r \notin new /\ s \notin new BY <1>0, <2>3, <3>2 DEF CandleInv, RowsOK
        <3>3. CASE r \in new /\ s \notin new BY <1>0, <1>5, <1>8, <2>3, <3>3
        <3>4. CASE r \notin new /\ s \in new BY <1>0, <1>5, <1>8, <2>3, <3>4
        <3>. QED BY <3>1, <3>2, <3>3, <3>4
    <2>4. \A q \in quoted' : q.block <= height' /\ q.time <= ReadTime'
        BY <1>0, <1>1, <1>5, <1>9 DEF CandleInv, RowsOK
    <2>5. ASSUME NEW q \in quoted'
          PROVE  (\E s \in snapshots' : Answers(s, q)) \/ q.time + Retention < ReadTime'
        <3>1. CASE q \in new
            <4>1. q.time <= q.time BY <1>1, <1>5, <3>1
            <4>. QED BY <1>0, <3>1, <4>1 DEF Answers
        <3>2. CASE q \in quoted /\ q.block = poll.block /\ q.token \in S
            <4>1. PICK n \in new : n.token = q.token BY <1>6, <3>2
            <4>2. Answers(n, q) BY <1>1, <1>5, <3>2, <4>1 DEF Answers
            <4>. QED BY <1>0, <4>2
        <3>3. CASE q \in quoted /\ ~(q.block = poll.block /\ q.token \in S)
            <4>1. CASE q.time + Retention < ReadTime BY <1>9, <4>1
            <4>2. ASSUME NEW s \in snapshots, Answers(s, q) PROVE s \in snapshots'
                BY <1>0, <1>8, <3>3, <4>2 DEF Answers
            <4>. QED BY <3>3, <4>1, <4>2 DEF CandleInv, RowsOK
        <3>. QED BY <1>0, <3>1, <3>2, <3>3
    <2>. QED BY <2>1, <2>2, <2>3, <2>4, <2>5 DEF RowsOK
<1>11. PollOK'
    <2>1. <<>> \in PriceMaps
        <3>1. <<>> \in [{} -> Nat] OBVIOUS
        <3>. QED BY <3>1 DEF PriceMaps
    <2>. QED BY <1>0, <2>1 DEF PollOK, NoPoll
<1>12. ClockOK' /\ SwapsOK'
    BY <1>0, <1>9 DEF CandleInv, ClockOK, SwapsOK
<1>13. ASSUME NEW c, IsTrue(c) PROVE IsTrue(c)'
    <2>1. quoted' \subseteq PriceRow BY <1>10 DEF RowsOK
    <2>2. \A n \in quoted' : n \in quoted \/ \A q \in quoted : q.block <= n.block
        BY <1>0, <1>1, <1>5
    <2>. QED BY <1>0, <1>13, <2>1, <2>2, TruthStays
<1>14. RollOK' BY <1>0, <1>13 DEF CandleInv, RollOK
<1>. QED BY <1>0, <1>10, <1>11, <1>12, <1>13, <1>14 DEF CandleInv

LEMMA ReadKeeps == ASSUME CandleInv, RollRead PROVE CandleInv'
<1>. DEFINE token == Head(roll.todo)
            rows == roll.rows \cup CandlesNow(token, roll.time)
            p == IF Len(roll.todo) = 1 THEN "save" ELSE "read"
<1>1. /\ roll' = [roll EXCEPT !.todo = Tail(roll.todo), !.rows = rows, !.phase = p]
      /\ roll # NoRoll /\ IsRoll(roll)
      /\ UNCHANGED <<clock, height, tip, snapshots, quoted, swaps, candles, poll>>
    BY DEF RollRead, NoRoll, CandleInv, RollOK
<1>2. IsRoll(roll') /\ roll' # NoRoll /\ roll'.time = roll.time /\ roll'.rows = rows
    <2>1. PICK S : roll \in RollSet(S) BY <1>1 DEF IsRoll
    <2>2. p \in {"read", "save"} OBVIOUS
    <2>. HIDE DEF rows, p
    <2>3. roll' \in RollSet(S \cup {p, Tail(roll.todo), rows})
        BY <1>1, <2>1 DEF RollSet
    <2>4. roll'.time = roll.time /\ roll'.rows = rows /\ roll'.phase = p
        BY <1>1, <2>1 DEF RollSet
    <2>5. roll' # NoRoll BY <2>2, <2>4 DEF NoRoll
    <2>. QED BY <2>3, <2>4, <2>5 DEF IsRoll
<1>3. ReadTime' = ReadTime BY <1>1, <1>2 DEF ReadTime
<1>4. \A c : IsTrue(c)' <=> IsTrue(c) BY <1>1, TruthFrame
<1>5. \A c \in CandlesNow(token, roll.time) : IsTrue(c)
    BY <1>1, ReadIsTrue DEF CandlesNow
<1>6. RollOK' BY <1>1, <1>2, <1>4, <1>5 DEF CandleInv, RollOK
<1>7. ClockOK' /\ RowsOK' /\ SwapsOK' /\ PollOK'
    BY <1>1, <1>2, <1>3 DEF CandleInv, ClockOK, RowsOK, SwapsOK, PollOK
<1>. QED BY <1>1, <1>4, <1>6, <1>7 DEF CandleInv

(* The roll-up ends, by its save or its failure. *)
LEMMA RollEnds ==
    ASSUME CandleInv, roll' = NoRoll, roll # NoRoll,
           UNCHANGED <<clock, height, tip, snapshots, quoted, swaps, poll>>,
           \A c \in candles' : c \in candles \/ c \in roll.rows
    PROVE  CandleInv'
<1>1. /\ ReadTime \in Nat /\ ReadTime' \in Nat /\ ReadTime <= ReadTime'
    BY DEF CandleInv, ClockOK, RollOK, ReadTime
<1>2. \A c : IsTrue(c)' <=> IsTrue(c) BY TruthFrame
<1>3. RowsOK'
    <2>1. \A q \in quoted : q.time \in Nat /\ q.time + Retention \in Nat
        BY TimeAssumption DEF CandleInv, RowsOK, PriceRow
    <2>. QED BY <1>1, <2>1 DEF CandleInv, RowsOK
<1>4. SwapsOK' BY <1>1, TimeAssumption DEF CandleInv, SwapsOK
<1>5. RollOK'
    <2>1. NoRoll \in RollSet({"idle", 0, <<>>, {}}) BY DEF NoRoll, RollSet
    <2>. QED BY <2>1 DEF IsRoll, RollOK
<1>6. PollOK' /\ ClockOK' BY DEF CandleInv, PollOK, ClockOK
<1>7. \A c \in candles' : IsTrue(c)' BY <1>2 DEF CandleInv, RollOK
<1>. QED BY <1>3, <1>4, <1>5, <1>6, <1>7 DEF CandleInv

LEMMA PruneKeeps == ASSUME CandleInv, Prune PROVE CandleInv'
<1>1. /\ roll # NoRoll /\ ReadTime = roll.time /\ ReadTime' = ReadTime
      /\ UNCHANGED <<clock, height, tip, quoted, candles, poll, roll>>
    BY DEF Prune, NoRoll, ReadTime
<1>2. RowsOK'
    <2>1. ASSUME NEW q \in quoted
          PROVE  (\E s \in snapshots' : Answers(s, q)) \/ q.time + Retention < ReadTime
        <3>1. CASE q.time + Retention < ReadTime BY <3>1
        <3>2. ASSUME NEW s \in snapshots, Answers(s, q)
              PROVE  s \in snapshots' \/ q.time + Retention < ReadTime
            <4>1. s.time \in Nat /\ q.time \in Nat /\ Retention \in Nat /\ roll.time \in Nat
                BY <1>1, TimeAssumption DEF CandleInv, RowsOK, PriceRow, RollOK
            <4>2. CASE roll.time <= s.time + Retention BY <4>2 DEF Prune
            <4>3. CASE ~(roll.time <= s.time + Retention)
                BY <1>1, <3>2, <4>1, <4>3 DEF Answers
            <4>. QED BY <4>2, <4>3
        <3>. QED BY <3>1, <3>2 DEF CandleInv, RowsOK
    <2>2. snapshots' \subseteq snapshots BY DEF Prune
    <2>. QED BY <1>1, <2>1, <2>2 DEF CandleInv, RowsOK
<1>3. SwapsOK' BY <1>1 DEF Prune, CandleInv, SwapsOK
<1>4. \A c : IsTrue(c)' <=> IsTrue(c) BY <1>1, TruthFrame
<1>5. ClockOK' /\ PollOK' /\ RollOK'
    BY <1>1, <1>4 DEF CandleInv, ClockOK, PollOK, RollOK
<1>. QED BY <1>1, <1>2, <1>3, <1>4, <1>5 DEF CandleInv

(* The poll fails. *)
LEMMA PollFails ==
    ASSUME CandleInv, poll' = NoPoll,
           UNCHANGED <<clock, height, tip, snapshots, quoted, swaps, candles, roll>>
    PROVE  CandleInv'
<1>1. PollOK'
    <2>1. <<>> \in PriceMaps
        <3>1. <<>> \in [{} -> Nat] OBVIOUS
        <3>. QED BY <3>1 DEF PriceMaps
    <2>. QED BY <2>1 DEF PollOK, NoPoll
<1>2. \A c : IsTrue(c)' <=> IsTrue(c) BY TruthFrame
<1>. QED BY <1>1, <1>2
         DEF CandleInv, ClockOK, RowsOK, SwapsOK, RollOK, ReadTime

LEMMA CandleStep == ASSUME CandleInv, [PricesNext]_priceVars PROVE CandleInv'
<1>1. CASE UNCHANGED priceVars
    <2>1. UNCHANGED <<clock, height, tip, snapshots, quoted, swaps, candles, poll, roll>>
        BY <1>1 DEF priceVars
    <2>2. \A c : IsTrue(c)' <=> IsTrue(c) BY <2>1, TruthFrame
    <2>. QED BY <2>1, <2>2
             DEF CandleInv, ClockOK, PollOK, RowsOK, SwapsOK, RollOK, ReadTime
<1>2. CASE RollSave
    <2>1. roll # NoRoll BY <1>2 DEF RollSave, NoRoll
    <2>. QED BY <1>2, <2>1, RollEnds DEF RollSave
<1>3. CASE TaskFails BY <1>3, RollEnds, PollFails DEF TaskFails
<1>. QED BY <1>1, <1>2, <1>3, TickKeeps, MineKeeps, StartKeeps, QuotesKeep, SaveKeeps,
            ReadKeeps, PruneKeeps DEF PricesNext

(* Turned over, the lower price is the higher. *)
LEMMA InversionTurns ==
    ASSUME NEW p \in Nat \ {0}, NEW q \in Nat, p <= q, NEW t
    PROVE  InvertedFor(t, q) <= InvertedFor(t, p)
<1>1. \A n \in Nat : n \div q <= n \div p
    <2>. TAKE n \in Nat
    <2>. DEFINE x == n \div q
                y == n \div p
    <2>1. /\ x \in Nat /\ y \in Nat /\ q \in Nat \ {0}
          /\ x * q <= n /\ n < y * p + p
        OBVIOUS
    <2>. HIDE DEF x, y
    <2>2. SUFFICES ASSUME y + 1 <= x PROVE FALSE BY <2>1
    <2>3. (y + 1) * p <= x * p /\ x * p <= x * q BY <2>1, <2>2
    <2>4. (y + 1) * p = y * p + p BY <2>1
    <2>5. y * p + p \in Nat /\ x * p \in Nat /\ x * q \in Nat BY <2>1
    <2>. QED BY <2>1, <2>3, <2>4, <2>5
<1>2. \A x, y \in Nat : x * y \in Nat OBVIOUS
<1>3. Scale * Scale \in Nat /\ QuoteSats * Scale \in Nat BY <1>2, PriceAssumption
<1>. QED BY <1>1, <1>3 DEF InvertedFor, InvertPrice, SafeInvert

LEMMA ChartIsOrdered ==
    ASSUME NEW c, IsCandle(c), NEW t, {c.low, c.open, c.close, c.high} \subseteq Nat,
           Ordered(c), c.low > 0
    PROVE  Ordered(ChartCandle(t, c))
<1>. DEFINE d == Inverted(t, c)
<1>1. /\ d.open = InvertedFor(t, c.open) /\ d.close = InvertedFor(t, c.close)
      /\ d.high = InvertedFor(t, c.low) /\ d.low = InvertedFor(t, c.high)
    BY DEF Inverted, IsCandle
<1>2. \A p, q \in Nat : p > 0 /\ p <= q => InvertedFor(t, q) <= InvertedFor(t, p)
    BY InversionTurns
<1>3. c.open > 0 /\ c.close > 0 BY DEF Ordered
<1>4. Ordered(d)
    <2>. HIDE DEF d
    <2>. QED BY <1>1, <1>2, <1>3 DEF Ordered
<1>. QED BY <1>4 DEF ChartCandle

(* A true candle is in order. *)
LEMMA TrueIsOrdered ==
    ASSUME RowsOK, NEW c, IsTrue(c)
    PROVE  Ordered(c) /\ {c.low, c.open, c.close, c.high} \subseteq Nat
<1>1. PICK rows \in SUBSET BucketSnapshots(quoted, c.token, c.openTime, c.interval) :
         BorneOut(rows, c)
    BY DEF IsTrue
<1>2. rows \in SUBSET PriceRow /\ IsFiniteSet(rows) /\ rows # {}
    <2>1. rows \in SUBSET quoted BY DEF BucketSnapshots
    <2>. QED BY <1>1, <2>1, FS_Subset DEF RowsOK, BorneOut
<1>. DEFINE prices == {r.price : r \in rows}
<1>3. /\ Earliest(rows) \in rows /\ Latest(rows) \in rows
      /\ Highest(prices) \in prices /\ Lowest(prices) \in prices
      /\ \A p \in prices : p \in Nat /\ p <= Highest(prices) /\ Lowest(prices) <= p
    BY <1>2, CandleEnds
<1>4. Earliest(rows).price \in prices /\ Latest(rows).price \in prices BY <1>3
<1>5. /\ c.open = Earliest(rows).price /\ c.close = Latest(rows).price
      /\ c.high = Highest(prices) /\ c.low = Lowest(prices)
    BY <1>1 DEF BorneOut
<1>. HIDE DEF prices
<1>. QED BY <1>3, <1>4, <1>5 DEF Ordered

(* Whatever is saved, replaced and pruned while candles are made, each is  *)
(* what the first few blocks of its bucket said, and is shown the right    *)
(* way up (pollPrices, rollUpAllCandles, pruneOldData; router.ts and       *)
(* priceService.ts).                                                       *)
THEOREM CandlesStayTrue == PricesSpec => []CandlesAreTrue
<1>1. CandleInv => CandlesAreTrue
    <2>. SUFFICES ASSUME CandleInv PROVE CandlesAreTrue OBVIOUS
    <2>1. ASSUME NEW t, NEW i, NEW c \in GetCandles(Canonical(t), i), c.low > 0
          PROVE  Ordered(ChartCandle(t, c))
        <3>1. IsTrue(c) BY DEF GetCandles, CandleInv
        <3>. QED BY <2>1, <3>1, TrueIsOrdered, ChartIsOrdered DEF CandleInv, IsTrue
    <2>2. \A c \in candles :
             \E rows \in SUBSET BucketSnapshots(quoted, c.token, c.openTime, c.interval) :
                BorneOut(rows, c)
        BY DEF CandleInv, IsTrue
    <2>. QED BY <2>1, <2>2 DEF CandlesAreTrue
<1>2. CandleInv /\ [PricesNext]_priceVars => CandleInv' BY CandleStep
<1>. QED BY <1>1, <1>2, CandleInit, PTL DEF PricesSpec
=============================================================================
