--------------------------- MODULE IndexerPoller ---------------------------
(***************************************************************************)
(* The poller (src/indexer/src/poller/index.ts, worker.ts): a cron trigger *)
(* starts a run, and a run asks the node for the pools' addresses, their   *)
(* grace period, the chain's height and one block after another, then      *)
(* writes everything it decoded and the new cursor in one batch.  Between  *)
(* two of its calls the chain grows and, with more than one run, another   *)
(* run does its own.  A run that fails or is stopped leaves nothing behind *)
(* but what it had already written.                                        *)
(***************************************************************************)
EXTENDS PoolEvents, IndexerTables

CONSTANTS
    Runs,               \* bound: cron runs alive at one time
    MaxBlocksPerRun,
    Faults,             \* which faults may occur
    MaxFaults           \* bound: how many

ASSUME PollerAssumption == MaxBlocksPerRun \in Nat \ {0} /\ MaxFaults \in Nat

VARIABLES
    tables,      \* options, fees, transfers, swaps
    cursor,      \* indexer_state.last_indexed_block
    poolRow,     \* the pool's row: its grace period, or NULL
    run,         \* r -> the run's local variables
    faults       \* the faults so far, a sequence of kinds

dbVars == <<tables, cursor, poolRow>>
pollerVars == <<chainVars, dbVars, run, faults>>

Asleep == [phase |-> "asleep", pools |-> {}, grace |-> DefaultGrace, from |-> 0,
           to |-> 0, stmts |-> <<>>]

IndexerInit ==
    /\ tables = NoTables
    /\ cursor = 0
    /\ poolRow = NULL
    /\ run = [r \in Runs |-> Asleep]
    /\ faults = <<>>

Fault(kind) ==
    /\ kind \in Faults
    /\ Len(faults) < MaxFaults
    /\ faults' = Append(faults, kind)

At(r, phase) == run[r].phase = phase
Set(r, new) == run' = [run EXCEPT ![r] = new]
Go(r, phase) == Set(r, [run[r] EXCEPT !.phase = phase])

Cron(r) ==
    /\ At(r, "asleep")
    /\ Go(r, "resolve")
    /\ UNCHANGED <<chainVars, dbVars, faults>>

(* INSERT OR IGNORE *)
UpsertPool(row) == Coalesce(row, DefaultGrace)

(* resolvePoolAddresses, and upsertPool for every pool it resolved. *)
Resolve(r) ==
    /\ At(r, "resolve")
    /\ Set(r, [run[r] EXCEPT !.phase = "grace", !.pools = Tracked])
    /\ poolRow' = UpsertPool(poolRow)
    /\ UNCHANGED <<chainVars, tables, cursor, faults>>

(* An address that cannot be resolved is logged and left out. *)
ResolveFails(r) ==
    /\ At(r, "resolve")
    /\ Fault("unresolved")
    /\ Go(r, "grace")
    /\ UNCHANGED <<chainVars, dbVars>>

(* The default stands for "not asked yet", so it is asked again each time. *)
LearnGrace(r) ==
    /\ At(r, "grace")
    /\ IF run[r].pools = {} THEN Go(r, "cursor") /\ UNCHANGED poolRow
       ELSE LET g == IF poolRow # DefaultGrace THEN poolRow ELSE GracePeriod IN
            /\ Set(r, [run[r] EXCEPT !.phase = "cursor", !.grace = g])
            /\ poolRow' = g
    /\ UNCHANGED <<chainVars, tables, cursor, faults>>

LearnGraceFails(r) ==
    /\ At(r, "grace")
    /\ run[r].pools # {}
    /\ poolRow = DefaultGrace
    /\ Fault("grace")
    /\ Go(r, "cursor")
    /\ UNCHANGED <<chainVars, dbVars>>

ReadCursor(r) ==
    /\ At(r, "cursor")
    /\ Set(r, [run[r] EXCEPT !.phase = "height", !.from = cursor + 1])
    /\ UNCHANGED <<chainVars, dbVars, faults>>

(* Mutant: nothing to do one block too early. *)
TipMinusOne(r, h) == h <= run[r].from
AtTip(r, h) == h < run[r].from

LastBlock(from, h) == IF h < from - 1 + MaxBlocksPerRun THEN h
                      ELSE from - 1 + MaxBlocksPerRun

ToFetch(from, to) == IF from <= to THEN "fetch" ELSE "commit"

LearnHeight(r, h) ==
    /\ At(r, "height")
    /\ LET from == run[r].from
           to == LastBlock(from, h) IN
       IF AtTip(r, h) THEN Set(r, Asleep)
       ELSE Set(r, [run[r] EXCEPT !.phase = ToFetch(from, to), !.to = to])
    /\ UNCHANGED <<chainVars, dbVars>>

ReadHeight(r) == LearnHeight(r, Height) /\ UNCHANGED faults

(* The node that answers is a block behind the one that answered before.   *)
ReadHeightBehind(r) == Height > 0 /\ LearnHeight(r, Height - 1) /\ Fault("behind")

(* How far the run has got is the number of blocks it asked for.           *)
Decoded(r, n) == DecodeBlock(chain[n].events, n, run[r].pools, run[r].grace)

Collect(r, stmts) ==
    LET n == run[r].from IN
    Set(r, [run[r] EXCEPT !.stmts = @ \o stmts, !.from = n + 1,
                          !.phase = ToFetch(n + 1, run[r].to)])

FetchBlock(r) ==
    /\ At(r, "fetch")
    /\ Collect(r, Decoded(r, run[r].from))
    /\ UNCHANGED <<chainVars, dbVars, faults>>

(* getBlock answers null: the block is logged and skipped. *)
FetchNothing(r) ==
    /\ At(r, "fetch")
    /\ Fault("nullBlock")
    /\ Collect(r, <<>>)
    /\ UNCHANGED <<chainVars, dbVars>>

Commit(r) ==
    /\ At(r, "commit")
    /\ tables' = Batch(tables, run[r].stmts)
    /\ cursor' = run[r].to
    /\ Set(r, Asleep)
    /\ UNCHANGED <<chainVars, poolRow, faults>>

(* Any call that throws ends the run, and so does the platform. *)
Abort(r) ==
    /\ ~At(r, "asleep")
    /\ Fault("abort")
    /\ Set(r, Asleep)
    /\ UNCHANGED <<chainVars, dbVars>>

RunStep(r) ==
    \/ Resolve(r) \/ LearnGrace(r) \/ ReadCursor(r) \/ ReadHeight(r)
    \/ FetchBlock(r) \/ Commit(r)

RunFault(r) ==
    \/ ResolveFails(r) \/ LearnGraceFails(r) \/ ReadHeightBehind(r)
    \/ FetchNothing(r) \/ Abort(r)

MineStep == MineBlock /\ UNCHANGED <<dbVars, run, faults>>

Init == ChainInit /\ IndexerInit
Next == MineStep \/ \E r \in Runs : Cron(r) \/ RunStep(r) \/ RunFault(r)
Spec == Init /\ [][Next]_pollerVars

(* The cron trigger keeps firing and waitUntil keeps a run alive.          *)
Fairness == \A r \in Runs : WF_pollerVars(Cron(r)) /\ WF_pollerVars(RunStep(r))
FairSpec == Spec /\ Fairness
=============================================================================
