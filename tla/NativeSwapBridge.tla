-------------------------- MODULE NativeSwapBridge --------------------------
(***************************************************************************)
(* The bridge contract (src/contracts/bridge/contract.ts): a price cache   *)
(* in front of NativeSwap, Bitcoin script hashes, and the registry of      *)
(* transaction outputs already counted as a payment.                       *)
(*                                                                         *)
(* Its methods are conjuncts of a caller's action: a call from a pool is   *)
(* part of the pool's transaction and is undone with it.  A script hash is *)
(* the record of what is hashed; an output is its script hash and value.   *)
(***************************************************************************)
EXTENDS Integers

CONSTANTS
    PricedTokens,         \* tokens a price is asked for
    MAX_PRICE_STALENESS,  \* blocks a cached price is served
    PricesAt              \* block -> prices NativeSwap may quote in it

VARIABLES
    block,       \* Blockchain.block.number
    priceCache,  \* token -> [price, block], both 0 when never set
    consumed     \* outputs counted already, by (script hash, value)

BridgeInit ==
    /\ priceCache = [t \in PricedTokens |-> [price |-> 0, block |-> 0]]
    /\ consumed = {}

(* Mutant: one block too long. *)
FreshOneBlockLonger(token) ==
    LET c == priceCache[token]
    IN  c.block # 0 /\ block - c.block <= MAX_PRICE_STALENESS + 1

Fresh(token) ==
    LET c == priceCache[token]
    IN  c.block # 0 /\ block - c.block <= MAX_PRICE_STALENESS

(* What NativeSwap may answer now; the bridge rejects a zero price. *)
Quotes == PricesAt[block] \ {0}

(* getBtcPrice answers price: from the cache, or a new quote it caches. *)
GetBtcPrice(token, price) ==
    \/ /\ Fresh(token)
       /\ price = priceCache[token].price
       /\ UNCHANGED <<priceCache, consumed>>
    \/ /\ ~Fresh(token)
       /\ price \in Quotes
       /\ priceCache' = [priceCache EXCEPT
                           ![token] = [price |-> price, block |-> block]]
       /\ UNCHANGED consumed

CsvScript(pubkey, csvBlocks) == [pubkey |-> pubkey, csvBlocks |-> csvBlocks]

(* The dual-path escrow: buyerPubkey may spend at once, writerPubkey from  *)
(* block cltvBlock on.                                                     *)
EscrowScript(buyerPubkey, writerPubkey, cltvBlock) ==
    [buyerPubkey |-> buyerPubkey, writerPubkey |-> writerPubkey,
     cltvBlock |-> cltvBlock]

(* Mutant: the registry is written but not consulted. *)
VerifyWithoutRegistry(script, amount, out) ==
    /\ out.script = script
    /\ out.value >= amount
    /\ consumed' = consumed \cup {out}
    /\ UNCHANGED priceCache

(* verifyBtcOutput finds output out of the current transaction. *)
VerifyBtcOutput(script, amount, out) ==
    /\ out.script = script
    /\ out.value >= amount
    /\ out \notin consumed
    /\ consumed' = consumed \cup {out}
    /\ UNCHANGED priceCache
=============================================================================
