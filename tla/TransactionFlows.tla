-------------------------- MODULE TransactionFlows --------------------------
(***************************************************************************)
(* The page's two-step flows: approve a token, then write, buy or          *)
(* exercise; and its single calls.  Each tab holds the wallet's flows and  *)
(* transactions in memory and in the local storage it shares with the      *)
(* other tabs; a flow's status is not stored but derived from its          *)
(* transactions, which a poller asks the node about.                       *)
(*                                                                         *)
(* A handler runs to its next await, and what it changes is rendered and   *)
(* stored before the next event; what it captured at the click is what it  *)
(* still uses when the wallet answers.                                     *)
(***************************************************************************)
EXTENDS Naturals, Sequences, FiniteSets

CONSTANTS Tabs,
          Keys,             \* action, pool and option of a flow (flowIdentityKey)
          MaxParallelFlows, \* MAX_PARALLEL_FLOWS, 5
          MaxTxsPerCycle,   \* MAX_TXS_PER_CYCLE, 5
          KeptTxs,          \* transactions a wallet keeps, 100
          MaxEffort         \* bound: tabs opened, flows claimed, transactions sent

ASSUME FlowsAssumption ==
    /\ MaxParallelFlows \in Nat \ {0}
    /\ MaxTxsPerCycle \in Nat \ {0} /\ KeptTxs \in Nat \ {0}
    /\ MaxEffort \in Nat

VARIABLES
    chain,        \* the transactions the wallet signed: what for, whether mined
    storedFlows,  \* frogop_active_flows_<wallet>
    storedTxs,    \* frogop_pending_txs_<wallet>, newest first
    tabs,         \* the provider of each tab
    modals,       \* the open modal of each tab, while the wallet signs
    claims, opens

flowVars == <<chain, storedFlows, storedTxs, tabs, modals, claims, opens>>

None == 0

(* timers: flows to be released after three seconds; inbox: storage        *)
(* events, TRUE for one with a new value; poll: what a poll still asks.    *)
NoTab == [open |-> FALSE, flows |-> <<>>, txs |-> <<>>, timers |-> {},
          inbox |-> <<>>, poll |-> <<>>]

(* sending: the step being signed; my: the flow of the clicked rendering;  *)
(* claimed: claimedFlowIdRef.                                              *)
IdleModal == [sending |-> "none", key |-> None, my |-> None, claimed |-> None]

Effort == opens + claims + Len(chain)

(* Lists, by the indices of what is meant: the provers know no operator    *)
(* that takes a test.                                                      *)
Elements(list) == {list[n] : n \in DOMAIN list}
FirstIn(I) == IF I = {} THEN 0 ELSE CHOOSE i \in I : \A j \in I : i <= j

(* What is left of a list: the elements at the indices in I.               *)
Filtered(list, I) ==
    LET left[n \in 0 .. Len(list)] ==
            IF n = 0 THEN <<>>
            ELSE IF n \in I THEN Append(left[n - 1], list[n]) ELSE left[n - 1]
    IN left[Len(list)]

FlowsInit ==
    /\ chain = <<>> /\ storedFlows = <<>> /\ storedTxs = <<>>
    /\ tabs = [t \in Tabs |-> NoTab]
    /\ modals = [t \in Tabs |-> IdleModal]
    /\ claims = 0 /\ opens = 0

-----------------------------------------------------------------------------
(* Derived status. *)

(* A transaction that is not in the list counts as pending. *)
Outcome(id, txs) ==
    LET i == FirstIn({n \in DOMAIN txs : txs[n].id = id})
    IN IF i = 0 THEN "broadcast" ELSE txs[i].status

(* Mutant: what is not in the list is taken for done. *)
ApprovedIfUnknown(f, txs) ==
    IF f.action # None THEN <<"action", Outcome(f.action, txs)>>
    ELSE IF \E i \in DOMAIN txs : txs[i].id = f.approval
         THEN <<"approval", Outcome(f.approval, txs)>>
    ELSE <<"approval", IF f.approval = None THEN "broadcast" ELSE "confirmed">>

(* The action's transaction decides, where there is one.                   *)
DeriveFlowStatus(f, txs) ==
    IF f.action # None THEN <<"action", Outcome(f.action, txs)>>
    ELSE IF f.approval # None THEN <<"approval", Outcome(f.approval, txs)>>
    ELSE <<"approval", "broadcast">>

ActiveFlows(tab) ==
    [n \in DOMAIN tab.flows |->
        LET f == tab.flows[n]
        IN [id |-> f.id, approval |-> f.approval, action |-> f.action,
            status |-> DeriveFlowStatus(f, tab.txs)]]

-----------------------------------------------------------------------------
(* Rendering and storing. *)

Rendered(tab) ==
    [tab EXCEPT !.timers = @ \cup {f.id : f \in {g \in Elements(ActiveFlows(tab)) :
                                        g.status = <<"action", "confirmed">>}}]

(* A storage event goes to every other tab, if the value changed.          *)
Notified(tab, flows) ==
    IF tab.open /\ flows # storedFlows
    THEN [tab EXCEPT !.inbox = Append(@, flows # <<>>)] ELSE tab

(* Tab t renders what was set, and its effects store it.                   *)
Commit(t, tab, set) ==
    LET flows == IF "flows" \in set THEN tab.flows ELSE storedFlows
    IN /\ storedFlows' = flows
       /\ storedTxs' = IF "txs" \in set THEN tab.txs ELSE storedTxs
       /\ tabs' = [u \in Tabs |-> IF u = t THEN Rendered(tab)
                                  ELSE Notified(tabs[u], flows)]

CommitFlows(t, flows) == Commit(t, [tabs[t] EXCEPT !.flows = flows], {"flows"})
Without(flows, id) ==
    Filtered(flows, {n \in DOMAIN flows : flows[n].id # id})

(* Flows claimed more than four hours ago and without a transaction are    *)
(* dropped when they are read: any of them may be that old.                *)
LoadFlows(stale) ==
    Filtered(storedFlows,
             {n \in DOMAIN storedFlows : storedFlows[n].id \notin stale})
MayBeStale == {f.id : f \in {g \in Elements(storedFlows) :
                                 g.approval = None /\ g.action = None}}

Newest(n, list) == SubSeq(list, 1, IF Len(list) < n THEN Len(list) ELSE n)
Kept(txs) == Newest(KeptTxs, txs)

(* Tabs are alike: which one opens first makes no difference.              *)
OpenTab(t) ==
    /\ ~tabs[t].open /\ Effort < MaxEffort
    /\ opens = 0 => t = CHOOSE u \in Tabs : TRUE
    /\ \E stale \in {{}, MayBeStale} :
          Commit(t, [NoTab EXCEPT !.open = TRUE, !.flows = LoadFlows(stale),
                                  !.txs = Kept(storedTxs)], {"flows", "txs"})
    /\ opens' = opens + 1
    /\ UNCHANGED <<chain, modals, claims>>

(* Closed, reloaded or crashed: memory is lost, storage is kept.           *)
CloseTab(t) ==
    /\ tabs[t].open
    /\ tabs' = [tabs EXCEPT ![t] = NoTab]
    /\ modals' = [modals EXCEPT ![t] = IdleModal]
    /\ UNCHANGED <<chain, storedFlows, storedTxs, claims, opens>>

(* Mutant: an event without a value, for an emptied list, is ignored. *)
IgnoreRemoval(t) ==
    /\ tabs[t].inbox # <<>>
    /\ \E stale \in {{}, MayBeStale} :
          Commit(t, [tabs[t] EXCEPT !.inbox = Tail(@),
                        !.flows = IF Head(tabs[t].inbox) THEN LoadFlows(stale) ELSE @],
                 IF Head(tabs[t].inbox) THEN {"flows"} ELSE {})
    /\ UNCHANGED <<chain, modals, claims, opens>>

(* The handler reads the list as it is now, not as the event says.         *)
OnStorage(t) ==
    /\ tabs[t].inbox # <<>>
    /\ \E stale \in {{}, MayBeStale} :
          Commit(t, [tabs[t] EXCEPT !.inbox = Tail(@),
                        !.flows = IF Head(tabs[t].inbox) THEN LoadFlows(stale)
                                  ELSE <<>>], {"flows"})
    /\ UNCHANGED <<chain, modals, claims, opens>>

AutoRelease(t, id) ==
    /\ id \in tabs[t].timers
    /\ Commit(t, [tabs[t] EXCEPT !.timers = @ \ {id},
                                 !.flows = Without(@, id)], {"flows"})
    /\ UNCHANGED <<chain, modals, claims, opens>>

-----------------------------------------------------------------------------
(* The modals.  Whether the allowance covers the cost is data: either.     *)

(* Mutant: the key forgets which option and pool it is about. *)
AnyFlow(flows, key) == IF flows = <<>> THEN 0 ELSE 1

FlowOfKey(flows, key) == FirstIn({n \in DOMAIN flows : flows[n].key = key})
MyFlow(t, key) ==
    LET i == FlowOfKey(tabs[t].flows, key)
    IN IF i = 0 THEN [id |-> None, approval |-> None, status |-> <<>>]
       ELSE ActiveFlows(tabs[t])[i]

ApprovalPending(t, key) ==
    /\ MyFlow(t, key).status = <<"approval", "broadcast">>
    /\ MyFlow(t, key).approval # None
ApprovalReady(t, key) == MyFlow(t, key).status = <<"approval", "confirmed">>
CanStartFlow(t, key) ==
    MyFlow(t, key).id # None \/ Len(tabs[t].flows) < MaxParallelFlows

Clickable(t) == tabs[t].open /\ modals[t].sending = "none"

(* claimFlow: a retry replaces the flow with the same identity.            *)
Claimed(flows, flow) ==
    LET i == FlowOfKey(flows, flow.key)
    IN IF i = 0 THEN Append(flows, flow) ELSE [flows EXCEPT ![i] = flow]

ClickApprove(t, key) ==
    /\ Clickable(t)
    /\ ~ApprovalPending(t, key) /\ ~ApprovalReady(t, key)
    /\ CanStartFlow(t, key)
    /\ Effort < MaxEffort
    /\ claims' = claims + 1
    /\ modals' = [modals EXCEPT ![t] =
                    [sending |-> "approval", key |-> key,
                     my |-> MyFlow(t, key).id, claimed |-> claims + 1]]
    /\ CommitFlows(t, Claimed(tabs[t].flows,
                         [id |-> claims + 1, key |-> key,
                          approval |-> None, action |-> None]))
    /\ UNCHANGED <<chain, opens>>

ClickAction(t, key) ==
    /\ Clickable(t) /\ ~ApprovalPending(t, key)
    /\ Effort < MaxEffort
    /\ modals' = [modals EXCEPT ![t] =
                    [IdleModal EXCEPT !.sending = "action", !.key = key,
                                      !.my = MyFlow(t, key).id]]
    /\ UNCHANGED <<chain, storedFlows, storedTxs, tabs, claims, opens>>

(* Flow id gets the transaction; nothing happens if it is not there.       *)
Updated(flows, id, step, tx) ==
    [n \in DOMAIN flows |->
        IF flows[n].id # id THEN flows[n]
        ELSE IF step = "approval" THEN [flows[n] EXCEPT !.approval = tx]
        ELSE [flows[n] EXCEPT !.action = tx]]

AddTransaction(txs, tx) ==
    Kept(<<[id |-> tx, status |-> "broadcast"]>> \o txs)

(* updateFlow as the clicked rendering made it: its own flow first, then   *)
(* the one just claimed.                                                   *)
ResolveFlowId(modal) == IF modal.my # None THEN modal.my ELSE modal.claimed

Sent(t) ==
    LET modal == modals[t]
        tx == Len(chain) + 1
        id == IF modal.sending = "approval" THEN ResolveFlowId(modal) ELSE modal.my
        tab == [tabs[t] EXCEPT !.txs = AddTransaction(@, tx)]
    IN /\ modal.sending # "none"
       /\ Effort < MaxEffort
       /\ chain' = Append(chain, [key |-> modal.key, step |-> modal.sending,
                                  mined |-> FALSE, old |-> FALSE])
       /\ IF id = None THEN Commit(t, tab, {"txs"})
          ELSE Commit(t, [tab EXCEPT !.flows = Updated(@, id, modal.sending, tx)],
                      {"flows", "txs"})
       /\ modals' = [modals EXCEPT ![t] = IdleModal]
       /\ UNCHANGED <<claims, opens>>

(* Cancel, settle, transfer, roll and the batches are one call without a   *)
(* flow, which uses nothing it captured at the click: only its transaction *)
(* counts, which competes for a place in the list and in a poll.           *)
SingleCallSent(t) ==
    /\ Clickable(t)
    /\ Effort < MaxEffort
    /\ chain' = Append(chain, [key |-> None, step |-> "single",
                               mined |-> FALSE, old |-> FALSE])
    /\ Commit(t, [tabs[t] EXCEPT !.txs = AddTransaction(@, Len(chain) + 1)], {"txs"})
    /\ UNCHANGED <<modals, claims, opens>>

(* Rejected in the wallet, or the call reverted: the flow stays claimed.   *)
(* Closed before the wallet answers, the modal drops the answer: what was  *)
(* signed is then tracked nowhere.                                         *)
SendFails(t) ==
    /\ modals[t].sending # "none"
    /\ modals' = [modals EXCEPT ![t] = IdleModal]
    /\ UNCHANGED <<chain, storedFlows, storedTxs, tabs, claims, opens>>

(* In the header or, "start fresh", in the modal, also while it waits; the *)
(* modal then forgets what it claimed.                                     *)
AbandonFlow(t, id) ==
    /\ \E n \in DOMAIN tabs[t].flows : tabs[t].flows[n].id = id
    /\ CommitFlows(t, Without(tabs[t].flows, id))
    /\ modals' \in {modals, [modals EXCEPT ![t].claimed = None]}
    /\ UNCHANGED <<chain, claims, opens>>

ClearConfirmed(t) ==
    LET txs == tabs[t].txs
        confirmed == {n \in DOMAIN txs : txs[n].status = "confirmed"}
    IN /\ confirmed # {}
       /\ Commit(t, [tabs[t] EXCEPT !.txs = Filtered(txs, DOMAIN txs \ confirmed)],
                 {"txs"})
       /\ UNCHANGED <<chain, modals, claims, opens>>

-----------------------------------------------------------------------------
(* The poller. *)

IsPending(tx) == tx.status = "broadcast"

PollStart(t) ==
    /\ tabs[t].poll = <<>>
    /\ LET txs == tabs[t].txs
           pending == {n \in DOMAIN txs : IsPending(txs[n])}
           batch == Newest(MaxTxsPerCycle, Filtered(txs, pending))
       IN /\ batch # <<>>
          /\ tabs' = [tabs EXCEPT ![t].poll = [n \in DOMAIN batch |-> batch[n].id]]
    /\ UNCHANGED <<chain, storedFlows, storedTxs, modals, claims, opens>>

(* Mutant: nothing is given up. *)
AnswersPatiently(id) ==
    {"broadcast"} \cup (IF chain[id].mined THEN {"confirmed"} ELSE {})

(* After two hours a transaction is given up before the node is asked; a   *)
(* call that fails is no answer.                                           *)
Answers(id) ==
    IF chain[id].old THEN {"failed"}
    ELSE {"broadcast"} \cup (IF chain[id].mined THEN {"confirmed"} ELSE {})

WithStatus(txs, id, status) ==
    [n \in DOMAIN txs |-> IF txs[n].id = id THEN [txs[n] EXCEPT !.status = status]
                          ELSE txs[n]]

(* What was confirmed a day ago is marked as failed at the end of a poll:  *)
(* whatever is confirmed and older than two hours may be that old.         *)
Pruned(txs) ==
    [n \in DOMAIN txs |->
        IF txs[n].status = "confirmed" /\ chain[txs[n].id].old
        THEN [txs[n] EXCEPT !.status = "failed"] ELSE txs[n]]

PollTx(t) ==
    /\ tabs[t].poll # <<>>
    /\ LET id == Head(tabs[t].poll)
           rest == [tabs[t] EXCEPT !.poll = Tail(@)]
       IN \E answer \in Answers(id), day \in BOOLEAN :
            LET kept == IF rest.poll = <<>> /\ day THEN Pruned(rest.txs) ELSE rest.txs
                set == IF answer = "broadcast" /\ kept = rest.txs THEN {} ELSE {"txs"}
            IN Commit(t, [rest EXCEPT !.txs = IF answer = "broadcast" THEN kept
                                              ELSE WithStatus(kept, id, answer)], set)
    /\ UNCHANGED <<chain, modals, claims, opens>>

-----------------------------------------------------------------------------
(* The world. *)

(* A transaction that is never mined was dropped.                          *)
Mined(tx) ==
    /\ ~chain[tx].mined
    /\ chain' = [chain EXCEPT ![tx].mined = TRUE]
    /\ UNCHANGED <<storedFlows, storedTxs, tabs, modals, claims, opens>>

HoursPass ==
    /\ chain' = [tx \in DOMAIN chain |-> [chain[tx] EXCEPT !.old = TRUE]]
    /\ UNCHANGED <<storedFlows, storedTxs, tabs, modals, claims, opens>>

FlowsNext ==
    \/ \E t \in Tabs :
          \/ OpenTab(t) \/ CloseTab(t) \/ OnStorage(t)
          \/ \E id \in 1 .. MaxEffort : AutoRelease(t, id)
          \/ \E key \in Keys : ClickApprove(t, key) \/ ClickAction(t, key)
          \/ SingleCallSent(t)
          \/ Sent(t) \/ SendFails(t)
          \/ \E id \in 1 .. MaxEffort : AbandonFlow(t, id)
          \/ ClearConfirmed(t) \/ PollStart(t) \/ PollTx(t)
    \/ \E tx \in DOMAIN chain : Mined(tx)
    \/ HoursPass

FlowsSpec == FlowsInit /\ [][FlowsNext]_flowVars

(* Blocks and timers wake the poller, the node or the time-out answers it, *)
(* and time goes by.  Nobody has to click, close or sign anything.         *)
FairFlows ==
    /\ FlowsSpec
    /\ WF_flowVars(HoursPass)
    /\ \A t \in Tabs : WF_flowVars(PollStart(t) \/ PollTx(t))
=============================================================================
