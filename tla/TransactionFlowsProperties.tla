---------------------- MODULE TransactionFlowsProperties ----------------------
(* What flows, transactions and tabs owe one another and the user. *)
EXTENDS TransactionFlows

Lists == {storedFlows} \cup {tabs[t].flows : t \in Tabs}

(* Cross-contamination (the UUIDs are there to prevent it): whichever tab  *)
(* wrote a list last and however stale the rendering a click used, a flow  *)
(* only ever names transactions signed for its own action and option, the  *)
(* approval as approval, and no two flows share one.                       *)
FlowsNameTheirOwn ==
    \A flows \in Lists : \A n \in DOMAIN flows :
        LET f == flows[n] IN
        /\ f.approval # None =>
              chain[f.approval].key = f.key /\ chain[f.approval].step = "approval"
        /\ f.action # None =>
              chain[f.action].key = f.key /\ chain[f.action].step = "action"
        /\ \A k \in DOMAIN flows :
              /\ flows[k].approval = f.approval /\ f.approval # None => k = n
              /\ flows[k].action = f.action /\ f.action # None => k = n

(* Derived status never runs ahead of the chain: a modal offers the second *)
(* step as approved, and the page releases a flow as done, only if that    *)
(* transaction was mined, across reloads, tabs, cleared and aged lists.    *)
StatusIsTrue ==
    \A t \in Tabs :
        /\ \A n \in DOMAIN tabs[t].flows :
              LET f == ActiveFlows(tabs[t])[n] IN
              /\ f.status = <<"approval", "confirmed">> => chain[f.approval].mined
              /\ f.status = <<"action", "confirmed">> => chain[f.action].mined
        /\ \A id \in tabs[t].timers :
              \E tx \in DOMAIN chain : chain[tx].step = "action" /\ chain[tx].mined

(* "StorageEvent syncs StoredFlow data": once no event is on its way, the  *)
(* open tabs show the same flows, those in the storage, however their      *)
(* writes and events crossed.                                              *)
Quiet == \A t \in Tabs : tabs[t].inbox = <<>>
QuietTabsAgree == Quiet => \A t \in Tabs : tabs[t].open => tabs[t].flows = storedFlows

(* A transaction some tab shows as pending comes to a moment when no tab   *)
(* does, although a poll asks about the newest few only, tabs do not share *)
(* what they learn, and one that was dropped never gets a receipt.         *)
ShowsPending(t, id) ==
    \E n \in DOMAIN tabs[t].txs : tabs[t].txs[n].id = id /\ IsPending(tabs[t].txs[n])
PendingSettles ==
    \A id \in 1 .. MaxEffort - 1 :
        (\E t \in Tabs : ShowsPending(t, id)) ~> ~\E t \in Tabs : ShowsPending(t, id)
=============================================================================
