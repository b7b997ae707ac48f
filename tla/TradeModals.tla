----------------------------- MODULE TradeModals -----------------------------
(***************************************************************************)
(* A trader at a page of an OP20 pool: the modals in which he buys,        *)
(* exercises and writes, each in two transactions, an approval and the     *)
(* call (BuyOptionModal, ExerciseModal, WriteOptionPanel).  A modal acts   *)
(* on the balance and allowance it last read (useTokenInfo) and on the     *)
(* status of its flow, which follows what the poller has seen of the       *)
(* flow's transactions; meanwhile others use the pool.  What happens to    *)
(* flows across tabs, reloads, rejections and time-outs is the subject of  *)
(* TransactionFlows; here there is one tab, and the trader signs what he   *)
(* clicks.                                                                 *)
(***************************************************************************)
EXTENDS StrategyDesk

CONSTANTS
    Trader,
    Offers,             \* forms filled in: type, strike, amount, premium, days
    Counterparty,       \* who has written the options listed at first
    Books,              \* sequences of forms, as he filled them in
    MAX_PARALLEL_FLOWS,
    MaxFreshStarts,     \* bound: flows he abandons, one of a job
    MaxEffort           \* bound: transactions signed, by him and by others

ASSUME DeskBounds ==
    /\ Trader \in Users /\ Counterparty \in Users \ {Trader}
    /\ MAX_PARALLEL_FLOWS \in Nat \ {0}
    /\ MaxFreshStarts \in Nat /\ MaxEffort \in Nat

VARIABLES
    allowance, \* token -> what the pool may still take from the trader
    txs,       \* the trader's transactions, as signed
    flows,     \* job -> its flow, for the flows that are active
    modal,     \* the job of the open modal
    info,      \* the balance and allowance it has read
    fresh,     \* the jobs whose flow he has abandoned, or replaced after its call
    moves      \* transactions of others so far

deskVars == <<vars, allowance, txs, flows, modal, info, fresh, moves>>

(* A job is what a flow's identity names: an action and its option, or the *)
(* instance of a form.                                                     *)
Job(kind, about) == [kind |-> kind, about |-> about]
Jobs == [kind : {"buyOption", "exercise"}, about : 0 .. MaxOptions - 1]
          \cup [kind : {"writeOption"}, about : Offers]
NoJob == Job("none", 0)

EffortLeft == Len(txs) + moves < MaxEffort

NotRead == [balance |-> Unknown, allowance |-> Unknown]
NoFlow  == [approval |-> 0, action |-> 0]

(* The pool as writeOption and buyOption leave it: the counterparty wrote  *)
(* the book in block 0 and the trader bought what is sold of it.           *)
Written(book) ==
    [id \in 0 .. Len(book) - 1 |->
        LET w == book[id + 1]
            o == NewOption(Counterparty, w.optionType, w.strikePrice,
                           w.underlyingAmount, w.premium, w.days)
        IN  IF w.sold THEN [o EXCEPT !.buyer = Trader, !.status = PURCHASED] ELSE o]

Total(amount(_), ids) == MapThenSumSet(LAMBDA id : amount(options[id]), ids)

Spent(t) ==
    LET sold == {id \in DOMAIN options : options[id].status = PURCHASED}
        premium(o) == IF t = PremiumToken THEN o.premium ELSE 0
        fee(o)     == FeeOf(premium(o), BUY_FEE_BPS)
        escrow(o)  == IF t = CollateralToken(o) THEN Collateral(o) ELSE 0
    IN  [premiums |-> Total(premium, sold), fees |-> Total(fee, sold),
         escrow   |-> Total(escrow, DOMAIN options)]

DeskInit ==
    /\ block = 0
    /\ \E book \in Books : nextId = Len(book) /\ options = Written(book)
    /\ feeRecipient \in FeeRecipients
    /\ balance = [t \in Tokens |->
         LET spent == Spent(t)
             net(a) == CASE a = Trader       -> -spent.premiums
                         [] a = Counterparty -> spent.premiums - spent.fees - spent.escrow
                         [] OTHER            -> 0
             fees(a) == IF a = feeRecipient THEN spent.fees ELSE 0
         IN  [a \in Addresses |-> IF a = Pool THEN spent.escrow + fees(a)
                                  ELSE InitialFunds + net(a) + fees(a)]]
    /\ allowance = [t \in Tokens |-> 0]
    /\ txs = <<>>
    /\ flows = [job \in {} |-> NoFlow]
    /\ modal = NoJob
    /\ info = NotRead
    /\ fresh = {}
    /\ moves = 0

-----------------------------------------------------------------------------
(* What a job is about. *)

OptionOf(job) ==
    IF job.kind = "writeOption"
    THEN LET w == job.about
         IN  NewOption(Trader, w.optionType, w.strikePrice, w.underlyingAmount,
                       w.premium, block + w.days)
    ELSE options[job.about]

(* The token the modal approves and how much of it. *)
PaysIn(job) ==
    LET o == OptionOf(job)
    IN  CASE job.kind = "buyOption"   -> PremiumToken
          [] job.kind = "writeOption" -> CollateralToken(o)
          [] job.kind = "exercise" /\ o.optionType = CALL -> PremiumToken
          [] OTHER -> Underlying
Price(job) ==
    LET o == OptionOf(job)
    IN  CASE job.kind = "buyOption"   -> TotalCost(o)
          [] job.kind = "writeOption" -> ShownCollateral(o)
          [] OTHER                    -> ShownPay(o)

(* Mined, the call takes effect or reverts. *)
Call(job, expiry) ==
    CASE job.kind = "buyOption" -> BuyOption(Trader, job.about)
      [] job.kind = "exercise"  -> Exercise(Trader, job.about)
      [] OTHER -> LET w == job.about
                  IN  WriteOption(Trader, w.optionType, w.strikePrice,
                                  w.underlyingAmount, w.premium, expiry)

PoolTakes(job, expiry) == ENABLED Call(job, expiry)

(* The sender simulates the call on the chain before he signs it.          *)
SimulationPasses(job, expiry) ==
    PoolTakes(job, expiry) /\ Price(job) <= allowance[PaysIn(job)]

-----------------------------------------------------------------------------
(* Flows. *)

IsSeen(n) == txs[n].state = "seen"

(* Mutant: only the action's confirmation is looked at. *)
StuckFlowStatus(f) ==
    IF f.action # 0
    THEN IF IsSeen(f.action) THEN "action_confirmed" ELSE "action_pending"
    ELSE "approval_pending"

FlowStatus(f) ==
    CASE f.action # 0 /\ IsSeen(f.action)     -> "action_confirmed"
      [] f.action # 0 /\ ~IsSeen(f.action)    -> "action_pending"
      [] f.action = 0 /\ f.approval # 0 /\ IsSeen(f.approval) -> "approval_confirmed"
      [] OTHER                              -> "approval_pending"

IsMyFlow(job) == job \in DOMAIN flows
CanStartFlow(job) ==
    IsMyFlow(job) \/ Cardinality(DOMAIN flows) < MAX_PARALLEL_FLOWS

ApprovalReady(job) ==
    IsMyFlow(job) /\ FlowStatus(flows[job]) = "approval_confirmed"
ApprovalPending(job) ==
    /\ IsMyFlow(job)
    /\ FlowStatus(flows[job]) = "approval_pending"
    /\ flows[job].approval # 0

Put(book, job, flow) ==
    [j \in DOMAIN book \cup {job} |-> IF j = job THEN flow ELSE book[j]]
Drop(book, job) == [j \in DOMAIN book \ {job} |-> book[j]]

-----------------------------------------------------------------------------
(* The page. *)

BuyTargets ==
    LET chain == BuildChain(options, block)
    IN  UNION {RowOffers(Trader, options, chain[b]) : b \in DOMAIN chain}
          \cup UNION {WizardTargets(Trader, options, s) : s \in Spots}

ExerciseTargets ==
    {id \in DOMAIN options : "exercise" \in RowAction(Trader, options[id], block)}

(* From a chain just loaded; the pool may move on while the modal is open. *)
OpenModal(job) ==
    /\ modal = NoJob
    /\ EffortLeft
    /\ \/ job.kind = "buyOption"   /\ job.about \in BuyTargets
       \/ job.kind = "exercise"    /\ job.about \in ExerciseTargets
       \/ job.kind = "writeOption"
    /\ modal' = job
    /\ info' = NotRead
    /\ UNCHANGED <<vars, allowance, txs, flows, fresh, moves>>

CloseModal ==
    /\ modal # NoJob
    /\ modal' = NoJob /\ info' = NotRead
    /\ UNCHANGED <<vars, allowance, txs, flows, fresh, moves>>

(* On opening, after an approval is sent and with every block: until then  *)
(* the modal goes by what it has.                                          *)
Current == [balance   |-> balance[PaysIn(modal)][Trader],
            allowance |-> allowance[PaysIn(modal)]]
ReadToken ==
    /\ modal # NoJob
    /\ info # Current
    /\ info' = Current
    /\ UNCHANGED <<vars, allowance, txs, flows, modal, fresh, moves>>

HasBalance(job) == Price(job) <= info.balance

(* Mutant: an approval still in the mempool is forgotten. *)
NeedsByAllowance(job) ==
    info # NotRead /\ ~ApprovalReady(job) /\ info.allowance < Price(job)

NeedsApproval(job) ==
    /\ info # NotRead
    /\ ~ApprovalPending(job) /\ ~ApprovalReady(job)
    /\ info.allowance < Price(job)

Signed(job, step) ==
    [job |-> job, step |-> step, token |-> PaysIn(job), amount |-> Price(job),
     expiry |-> OptionOf(job).expiryBlock, state |-> "sent"]

(* handleApprove: claims the job's flow anew and asks for the whole price, *)
(* whatever has been approved already.  Where a flow was there, the hook   *)
(* resolves to that one, just replaced, and the approval is not recorded.  *)
(* Writing does not ask for a balance.                                     *)
ClickApprove ==
    /\ modal # NoJob
    /\ NeedsApproval(modal)
    /\ HasBalance(modal) \/ modal.kind = "writeOption"
    /\ CanStartFlow(modal)
    /\ EffortLeft
    /\ txs' = Append(txs, Signed(modal, "approve"))
    /\ IF IsMyFlow(modal)
       THEN /\ flows' = Put(flows, modal, NoFlow)
            /\ fresh' = IF flows[modal].action = 0 THEN fresh ELSE fresh \cup {modal}
       ELSE /\ flows' = Put(flows, modal, [NoFlow EXCEPT !.approval = Len(txs) + 1])
            /\ UNCHANGED fresh
    /\ UNCHANGED <<vars, allowance, modal, info, moves>>

(* handleBuy, handleExercise, handleWrite: a call that the simulation      *)
(* refuses changes nothing; one that is sent ends in a receipt.            *)
ActOffered(job) ==
    /\ info # NotRead
    /\ ~NeedsApproval(job) /\ ~ApprovalPending(job)
    /\ HasBalance(job)
Refused(job) ==
    ActOffered(job) /\ ~SimulationPasses(job, OptionOf(job).expiryBlock)
ClickAct ==
    /\ modal # NoJob
    /\ ActOffered(modal)
    /\ SimulationPasses(modal, OptionOf(modal).expiryBlock)
    /\ EffortLeft
    /\ txs' = Append(txs, Signed(modal, "act"))
    /\ flows' = IF IsMyFlow(modal)
                THEN [flows EXCEPT ![modal].action = Len(txs) + 1] ELSE flows
    /\ modal' = NoJob /\ info' = NotRead
    /\ UNCHANGED <<vars, allowance, fresh, moves>>

CanStartFresh(job) == job \notin fresh /\ Cardinality(fresh) < MaxFreshStarts

(* The banner's "Start Fresh", whatever the flow is waiting for. *)
StartFresh ==
    /\ modal # NoJob /\ IsMyFlow(modal)
    /\ CanStartFresh(modal)
    /\ flows' = Drop(flows, modal)
    /\ fresh' = fresh \cup {modal}
    /\ UNCHANGED <<vars, allowance, txs, modal, info, moves>>

(* The poller, which does not tell a reverted call from a good one; and    *)
(* the release of a flow whose action it has seen.                         *)
Poll(n) ==
    /\ n \in DOMAIN txs /\ txs[n].state = "mined"
    /\ txs' = [txs EXCEPT ![n].state = "seen"]
    /\ UNCHANGED <<vars, allowance, flows, modal, info, fresh, moves>>

Release(job) ==
    /\ IsMyFlow(job) /\ FlowStatus(flows[job]) = "action_confirmed"
    /\ flows' = Drop(flows, job)
    /\ UNCHANGED <<vars, allowance, txs, modal, info, fresh, moves>>

-----------------------------------------------------------------------------
(* The chain. *)

WithMined(n) == [txs EXCEPT ![n].state = "mined"]

(* The pool takes the price with its token's transferFrom. *)
Mine(n) ==
    /\ n \in DOMAIN txs /\ txs[n].state = "sent"
    /\ txs' = WithMined(n)
    /\ LET tx == txs[n]
           covered == tx.amount <= allowance[tx.token]
       IN  \/ /\ tx.step = "approve"
              /\ allowance' = [allowance EXCEPT ![tx.token] = @ + tx.amount]
              /\ UNCHANGED vars
           \/ /\ tx.step = "act" /\ covered
              /\ Call(tx.job, tx.expiry)
              /\ allowance' = [allowance EXCEPT ![tx.token] = @ - tx.amount]
           \/ /\ tx.step = "act" /\ ~(covered /\ PoolTakes(tx.job, tx.expiry))
              /\ UNCHANGED <<vars, allowance>>
    /\ UNCHANGED <<flows, modal, info, fresh, moves>>

OthersMove ==
    /\ EffortLeft
    /\ moves' = moves + 1
    /\ Permissionless \/ \E u \in Users \ {Trader} : SignedBy(u)
    /\ UNCHANGED <<allowance, txs, flows, modal, info, fresh>>

Block ==
    /\ NextBlock
    /\ UNCHANGED <<allowance, txs, flows, modal, info, fresh, moves>>

DeskNext ==
    \/ \E job \in Jobs : OpenModal(job) \/ Release(job)
    \/ CloseModal \/ ReadToken \/ ClickApprove \/ ClickAct \/ StartFresh
    \/ \E n \in DOMAIN txs : Poll(n) \/ Mine(n)
    \/ OthersMove \/ Block

DeskSpec == DeskInit /\ [][DeskNext]_deskVars

(* The page reads and polls, what was signed is mined, and a trader with a *)
(* modal open presses what it offers, "Start Fresh" where he is refused.   *)
FairDesk ==
    /\ DeskSpec
    /\ WF_deskVars(\/ ReadToken \/ ClickApprove \/ ClickAct
                   \/ StartFresh /\ Refused(modal))
    /\ WF_deskVars(\E n \in DOMAIN txs : Mine(n) \/ Poll(n))

-----------------------------------------------------------------------------
(* Properties. *)

(* The approval buttons never have two approvals of one purchase, exercise *)
(* or listing under way, unless the trader started afresh or replaced a    *)
(* flow whose call was sent: not while the first is in the mempool and the *)
(* allowance still reads as before, nor while it is mined and the page has *)
(* not noticed.                                                            *)
ApprovalsDoNotPileUp ==
    \A job \in Jobs \ fresh :
        Cardinality({n \in DOMAIN txs : /\ txs[n].job = job
                                        /\ txs[n].step = "approve"
                                        /\ ~IsSeen(n)}) <= 1

(* A trader who keeps a modal open gets his transaction signed, unless the *)
(* pool no longer takes it, the price is not in his account, other flows   *)
(* hold every slot, or he was refused after his last fresh start: another  *)
(* job of the same pool may use the allowance he approved.                 *)
TradesGoThrough ==
    \A job \in Jobs :
        modal = job ~> \/ modal # job
                       \/ ~PoolTakes(job, OptionOf(job).expiryBlock)
                       \/ ~CanStartFlow(job)
                       \/ ~EffortLeft
                       \/ Refused(job) /\ ~CanStartFresh(job)
=============================================================================
