---------------------------- MODULE SpreadRouter ----------------------------
(***************************************************************************)
(* The router (src/contracts/router/contract.ts) in front of an OP20 pool: *)
(* one transaction of a wallet that makes two calls to the pool, with the  *)
(* wallet as their sender.  The transaction is several steps here, one for *)
(* each call, so that a call can fail after another has already changed    *)
(* the pool; no other transaction runs in between.                         *)
(***************************************************************************)
EXTENDS OptionsPoolProperties, Sequences

VARIABLE strategy  \* the router call in progress, or NoCall

routerVars == <<vars, strategy>>

NoCall == [wallet |-> NoOne, legs |-> <<>>]

Idle == strategy = NoCall

PoolState == [nextId |-> nextId, options |-> options, balance |-> balance]

WriteLeg(type, strike, amount, premium, expiry) ==
    [method |-> "writeOption", type |-> type, strike |-> strike,
     amount |-> amount, premium |-> premium, expiry |-> expiry]
BuyLeg(id) == [method |-> "buyOption", id |-> id]

(* Legs past their expiry are left out: they fail as LegFails does.        *)
WriteLegs == {WriteLeg(t, k, a, p, e) : t \in OptionTypes, k \in Strikes,
                a \in Amounts, p \in Premiums,
                e \in {x \in Expiries : x > block}}

RouterInit == Init /\ strategy = NoCall

(* ---- the page that sends strategies (StrategySection.tsx) ---- *)

Writes(leg, type) == leg.method = "writeOption" /\ leg.type = type

(* Collar, bull call spread, bear put spread.  The picker of the option to *)
(* buy offers every open one, the lock on its type notwithstanding.        *)
PageStrategy(legs) ==
    \/ Writes(legs[1], CALL) /\ Writes(legs[2], PUT)
    \/ legs[1].method = "writeOption" /\ legs[2].method = "buyOption"

(* Mutant: a put's collateral reckoned like a call's. *)
RequiredAsForCalls(leg) ==
    IF leg.method = "buyOption"
    THEN [token |-> PremiumToken, amount |-> options[leg.id].premium]
    ELSE [token |-> IF leg.type = CALL THEN Underlying ELSE PremiumToken,
          amount |-> leg.amount]

RequiredFor(leg) ==
    IF leg.method = "buyOption"
    THEN [token |-> PremiumToken, amount |-> options[leg.id].premium]
    ELSE IF leg.type = CALL
    THEN [token |-> Underlying, amount |-> leg.amount]
    ELSE [token |-> PremiumToken, amount |-> (leg.strike * leg.amount) \div PRECISION]

(* What the wallet has to have approved for the page to send the strategy; *)
(* an option the page does not know counts for nothing.                    *)
ComputeRequiredAllowances(legs) ==
    [t \in Tokens |->
        LET of(leg) == IF leg.method = "buyOption" /\ leg.id \notin DOMAIN options
                       THEN 0
                       ELSE LET r == RequiredFor(leg)
                            IN  IF r.token = t THEN r.amount ELSE 0
        IN  of(legs[1]) + of(legs[2])]

(* ---- the two methods ---- *)

(* The router keeps neither before, the storage OP_NET falls back on when  *)
(* the transaction reverts, nor approved, what the page asked for.         *)
Begin(wallet, legs) ==
    /\ Idle
    /\ strategy' = [wallet |-> wallet, legs |-> legs, before |-> PoolState,
                    approved |-> IF PageStrategy(legs)
                                 THEN ComputeRequiredAllowances(legs) ELSE <<>>]
    /\ UNCHANGED vars

(* MED-6: zero is taken for a missing id. *)
BuyIdAccepted(id) == id # 0

ExecuteSpread(wallet, write, buyId) ==
    /\ BuyIdAccepted(buyId)
    /\ Begin(wallet, <<write, BuyLeg(buyId)>>)

ExecuteDualWrite(wallet, write1, write2) ==
    Begin(wallet, <<write1, write2>>)

(* The pool's method, called for the wallet. *)
PoolCall(wallet, leg) ==
    \/ /\ leg.method = "writeOption"
       /\ WriteOption(wallet, leg.type, leg.strike, leg.amount, leg.premium,
                      leg.expiry)
    \/ /\ leg.method = "buyOption"
       /\ BuyOption(wallet, leg.id)

RunLeg ==
    /\ ~Idle
    /\ strategy.legs # <<>>
    /\ PoolCall(strategy.wallet, Head(strategy.legs))
    /\ strategy' = [strategy EXCEPT !.legs = Tail(@)]

Return ==
    /\ ~Idle
    /\ strategy.legs = <<>>
    /\ strategy' = NoCall
    /\ UNCHANGED vars

(* Mutant: the failing call alone is undone (stopOnFailure forgotten and   *)
(* the result not looked at).                                              *)
KeepEarlierLegs ==
    /\ ~Idle
    /\ strategy.legs # <<>>
    /\ strategy' = NoCall
    /\ UNCHANGED vars

(* A call fails: on a guard of the pool, for want of an allowance or of    *)
(* gas.  The whole transaction reverts.                                    *)
LegFails ==
    /\ ~Idle
    /\ strategy.legs # <<>>
    /\ nextId' = strategy.before.nextId
    /\ options' = strategy.before.options
    /\ balance' = strategy.before.balance
    /\ strategy' = NoCall
    /\ UNCHANGED <<block, feeRecipient>>

RouterCall(u) ==
    \/ \E w \in WriteLegs, id \in 0 .. MaxOptions : ExecuteSpread(u, w, id)
    \/ \E w1, w2 \in WriteLegs : ExecuteDualWrite(u, w1, w2)

RouterNext ==
    \/ Idle /\ Next /\ UNCHANGED strategy
    \/ \E u \in Users : RouterCall(u)
    \/ RunLeg
    \/ Return
    \/ LegFails

RouterSpec == RouterInit /\ [][RouterNext]_routerVars

-----------------------------------------------------------------------------
(* The pool as everybody else sees it: before or after a router call.      *)
Seen == IF Idle THEN PoolState ELSE strategy.before

Sales(opts, before) ==
    Cardinality({id \in DOMAIN before :
        before[id].status = OPEN /\ opts[id].status = PURCHASED})

(* All legs or none: a router call that has ended left the pool and every  *)
(* balance as they were, or both its legs took effect; a leg that fails    *)
(* takes an earlier one with it, whatever that one had moved.              *)
AllLegsOrNone ==
    [][~Idle /\ Idle' =>
          \/ PoolState' = strategy.before
          \/ (nextId' - strategy.before.nextId)
               + Sales(options', strategy.before.options) = 2]_routerVars

(* Only the wallet that signed the router call pays for its legs, in the   *)
(* leg that buys as little as in those that write; and the two legs of a   *)
(* strategy of the page together never take more of a token than the page  *)
(* reckoned, so that approved once, they cannot fail for want of it.       *)
OnlyTheWalletPays ==
    [][~Idle /\ Idle' =>
          \A t \in Tokens, u \in Users :
              LET paid == strategy.before.balance[t][u] - balance'[t][u]
              IN  paid > 0 =>
                    /\ u = strategy.wallet
                    /\ t \in DOMAIN strategy.approved => paid <= strategy.approved[t]
      ]_routerVars

SeenLifecycle == INSTANCE OptionLifecycle WITH
    now <- block,
    book <- [id \in DOMAIN Seen.options |-> Entry(Seen.options[id])],
    Reservable <- FALSE

(* With the router in use the pool still follows the lifecycle: a strategy *)
(* is one step of it in which two options move, each along an edge, inside *)
(* its window; in particular nobody buys the option he has just written.   *)
StrategiesFollowLifecycle == SeenLifecycle!Spec
=============================================================================
