------------------------- MODULE OptionsPoolProofs -------------------------
(***************************************************************************)
(* Proofs about the OP20 pool, for any sets of users, inputs and bounds.   *)
(***************************************************************************)
EXTENDS OptionsPoolProperties, NaturalsInduction, WellFoundedInduction, TLAPS

-----------------------------------------------------------------------------
(* Facts about SumUpTo for every length.  Induction is stated over a set   *)
(* of naturals, whose least missing element would be a contradiction, so   *)
(* that it can be cited with the set {n \in Nat : P(n)}.                   *)

(* Induction: a set holding 0 and closed under successor holds every Nat.  *)
LEMMA SetInduction ==
    ASSUME NEW S, 0 \in S, \A n \in Nat : n \in S => n + 1 \in S
    PROVE  Nat \subseteq S
<1>1. SUFFICES ASSUME Nat \ S # {} PROVE FALSE
  OBVIOUS
<1>2. IsWellFoundedOn(OpToRel(<, Nat), Nat)
  BY NatLessThanWellFounded
<1>3. PICK m \in Nat \ S : \A k \in Nat \ S : ~(<<k, m>> \in OpToRel(<, Nat))
  BY <1>1, <1>2, WFMin
<1>4. m \in Nat /\ m # 0
  BY <1>3
<1>5. m - 1 \in Nat /\ m - 1 < m /\ m = (m - 1) + 1
  BY <1>4
<1>6. m - 1 \in S
  BY <1>3, <1>5 DEF OpToRel
<1> QED
  BY <1>3, <1>5, <1>6

(* The partial sums of f as a function on 0 .. n. *)
Partial(f, n, s) ==
    /\ s \in [0..n -> Int]
    /\ \A k \in 0..n : s[k] = IF k = 0 THEN 0 ELSE s[k-1] + f[k-1]

(* Every f has partial sums. *)
LEMMA PartialExists ==
    ASSUME NEW n \in Nat, NEW f \in [0 .. n-1 -> Int]
    PROVE  \E s : Partial(f, n, s)
<1> DEFINE P(m) == m <= n => \E s : Partial(f, m, s)
           S == {m \in Nat : P(m)}
<1>1. 0 \in S
  <2>1. Partial(f, 0, [k \in 0..0 |-> 0])
    BY DEF Partial
  <2> QED BY <2>1
<1>2. ASSUME NEW m \in Nat, m \in S PROVE m + 1 \in S
  <2>1. SUFFICES ASSUME m + 1 <= n PROVE \E s : Partial(f, m + 1, s)
    OBVIOUS
  <2>2. PICK s : Partial(f, m, s)
    BY <1>2, <2>1
  <2> DEFINE r == [k \in 0 .. m+1 |-> IF k = m + 1 THEN s[m] + f[m] ELSE s[k]]
  <2>3. f[m] \in Int /\ s[m] \in Int
    BY <2>1, <2>2 DEF Partial
  <2>4. r \in [0 .. m+1 -> Int]
    BY <2>2, <2>3 DEF Partial
  <2>5. ASSUME NEW k \in 0 .. m+1
        PROVE  r[k] = IF k = 0 THEN 0 ELSE r[k-1] + f[k-1]
    <3>1. CASE k = m + 1
      BY <3>1, <2>2 DEF Partial
    <3>2. CASE k # m + 1
      BY <3>2, <2>2 DEF Partial
    <3> QED BY <3>1, <3>2
  <2>6. Partial(f, m + 1, r)
    BY <2>4, <2>5 DEF Partial
  <2> QED BY <2>6
<1>3. Nat \subseteq S
  <2> HIDE DEF S
  <2> QED BY <1>1, <1>2, SetInduction
<1> QED BY <1>3

(* SumUpTo(f, n) is the last partial sum. *)
LEMMA SumIsPartial ==
    ASSUME NEW n \in Nat, NEW f \in [0 .. n-1 -> Int]
    PROVE  \A s : Partial(f, n, s) => SumUpTo(f, n) = s[n]
<1> SUFFICES ASSUME NEW s, Partial(f, n, s) PROVE SumUpTo(f, n) = s[n]
  OBVIOUS
<1> DEFINE F(g) == g = [k \in 0..n |-> IF k = 0 THEN 0 ELSE g[k-1] + f[k-1]]
<1>1. SumUpTo(f, n) = (CHOOSE g : F(g))[n]
  BY DEF SumUpTo
<1>2. F(s)
  BY DEF Partial
<1>3. F(CHOOSE g : F(g))
  <2> HIDE DEF F
  <2> QED BY <1>2
<1>4. ASSUME NEW g, F(g) PROVE g[n] = s[n]
  <2> DEFINE S == {m \in Nat : m <= n => g[m] = s[m]}
  <2>1. \A k \in 0..n : g[k] = IF k = 0 THEN 0 ELSE g[k-1] + f[k-1]
    BY <1>4
  <2>2. \A k \in 0..n : s[k] = IF k = 0 THEN 0 ELSE s[k-1] + f[k-1]
    BY DEF Partial
  <2> HIDE DEF F
  <2>3. 0 \in S
    BY <2>1, <2>2
  <2>4. ASSUME NEW m \in Nat, m \in S PROVE m + 1 \in S
    BY <2>1, <2>2, <2>4
  <2>5. Nat \subseteq S
    <3> HIDE DEF S
    <3> QED BY <2>3, <2>4, SetInduction
  <2> QED BY <2>5
<1> QED BY <1>1, <1>3, <1>4

-----------------------------------------------------------------------------
(* The facts the proofs about the pools cite. *)

(* A sum of integers is an integer. *)
LEMMA SumType ==
    ASSUME NEW n \in Nat, NEW f \in [0 .. n-1 -> Int]
    PROVE  SumUpTo(f, n) \in Int
<1>1. PICK p : Partial(f, n, p)  BY PartialExists
<1>2. SumUpTo(f, n) = p[n]       BY <1>1, SumIsPartial
<1>3. p[n] \in Int               BY <1>1 DEF Partial
<1> QED BY <1>2, <1>3

(* The empty sum is zero. *)
LEMMA SumEmpty ==
    ASSUME NEW f \in [0 .. -1 -> Int]
    PROVE  SumUpTo(f, 0) = 0
<1>1. f \in [0 .. 0 - 1 -> Int]
  OBVIOUS
<1>2. PICK p : Partial(f, 0, p)  BY <1>1, PartialExists
<1>3. SumUpTo(f, 0) = p[0]       BY <1>1, <1>2, SumIsPartial
<1>4. p[0] = 0                   BY <1>2 DEF Partial
<1> QED BY <1>3, <1>4

(* Adding pointwise adds the sums. *)
LEMMA SumAdd ==
    ASSUME NEW n \in Nat,
           NEW f \in [0 .. n-1 -> Int], NEW g \in [0 .. n-1 -> Int],
           NEW h \in [0 .. n-1 -> Int],
           \A i \in 0 .. n-1 : h[i] = f[i] + g[i]
    PROVE  SumUpTo(h, n) = SumUpTo(f, n) + SumUpTo(g, n)
<1>1. PICK p : Partial(f, n, p)  BY PartialExists
<1>2. PICK q : Partial(g, n, q)  BY PartialExists
<1>3. PICK r : Partial(h, n, r)  BY PartialExists
<1> DEFINE S == {m \in Nat : m <= n => r[m] = p[m] + q[m]}
<1>4. 0 \in S
  BY <1>1, <1>2, <1>3 DEF Partial
<1>5. ASSUME NEW m \in Nat, m \in S PROVE m + 1 \in S
  <2> SUFFICES ASSUME m + 1 <= n PROVE r[m+1] = p[m+1] + q[m+1]
    OBVIOUS
  <2>1. /\ r[m+1] = r[m] + h[m]
        /\ p[m+1] = p[m] + f[m]
        /\ q[m+1] = q[m] + g[m]
    <3>0. m + 1 \in 0..n /\ m + 1 # 0 /\ (m + 1) - 1 = m
      OBVIOUS
    <3>1. r[m+1] = r[m] + h[m]  BY <1>3, <3>0 DEF Partial
    <3>2. p[m+1] = p[m] + f[m]  BY <1>1, <3>0 DEF Partial
    <3>3. q[m+1] = q[m] + g[m]  BY <1>2, <3>0 DEF Partial
    <3> QED BY <3>1, <3>2, <3>3
  <2>2. h[m] = f[m] + g[m] /\ f[m] \in Int /\ g[m] \in Int
    OBVIOUS
  <2>3. r[m] = p[m] + q[m] /\ p[m] \in Int /\ q[m] \in Int
    BY <1>5, <1>1, <1>2 DEF Partial
  <2> QED BY <2>1, <2>2, <2>3
<1>6. Nat \subseteq S
  <2> HIDE DEF S
  <2> QED BY <1>4, <1>5, SetInduction
<1>7. r[n] = p[n] + q[n]
  BY <1>6
<1> QED BY <1>1, <1>2, <1>3, <1>7, SumIsPartial

(* A sum with at most one nonzero term is that term. *)
LEMMA SumSingle ==
    ASSUME NEW n \in Nat, NEW f \in [0 .. n-1 -> Int], NEW j \in 0 .. n-1,
           \A i \in 0 .. n-1 : i # j => f[i] = 0
    PROVE  SumUpTo(f, n) = f[j]
<1>1. PICK p : Partial(f, n, p)  BY PartialExists
<1> DEFINE S == {m \in Nat : m <= n => p[m] = IF m <= j THEN 0 ELSE f[j]}
<1>2. 0 \in S
  BY <1>1 DEF Partial
<1>3. ASSUME NEW m \in Nat, m \in S PROVE m + 1 \in S
  <2> SUFFICES ASSUME m + 1 <= n
               PROVE  p[m+1] = IF m + 1 <= j THEN 0 ELSE f[j]
    OBVIOUS
  <2>1. p[m+1] = p[m] + f[m]
    BY <1>1 DEF Partial
  <2>2. p[m] = (IF m <= j THEN 0 ELSE f[j]) /\ f[j] \in Int
    BY <1>3
  <2>3. f[m] = IF m = j THEN f[j] ELSE 0
    OBVIOUS
  <2> QED BY <2>1, <2>2, <2>3
<1>4. Nat \subseteq S
  <2> HIDE DEF S
  <2> QED BY <1>2, <1>3, SetInduction
<1>5. p[n] = f[j]
  BY <1>4
<1> QED BY <1>1, <1>5, SumIsPartial

(* Changing one term changes the sum by the difference. *)
LEMMA SumUpdate ==
    ASSUME NEW n \in Nat, NEW j \in 0 .. n-1,
           NEW f \in [0 .. n-1 -> Int], NEW h \in [0 .. n-1 -> Int],
           \A i \in 0 .. n-1 : i # j => h[i] = f[i]
    PROVE  SumUpTo(h, n) = SumUpTo(f, n) + h[j] - f[j]
<1> DEFINE g == [i \in 0 .. n-1 |-> IF i = j THEN h[j] - f[j] ELSE 0]
<1>1. g \in [0 .. n-1 -> Int]
  OBVIOUS
<1>2. SumUpTo(h, n) = SumUpTo(f, n) + SumUpTo(g, n)
  <2>1. \A i \in 0 .. n-1 : h[i] = f[i] + g[i]
    OBVIOUS
  <2> HIDE DEF g
  <2> QED BY <1>1, <2>1, SumAdd
<1>3. SumUpTo(g, n) = g[j]
  <2>1. \A i \in 0 .. n-1 : i # j => g[i] = 0
    OBVIOUS
  <2> HIDE DEF g
  <2> QED BY <1>1, <2>1, SumSingle
<1>4. g[j] = h[j] - f[j] /\ h[j] \in Int /\ f[j] \in Int
  OBVIOUS
<1>5. SumUpTo(f, n) \in Int
  BY SumType
<1> HIDE DEF g
<1> QED BY <1>2, <1>3, <1>4, <1>5

(* One more term at the end. *)
LEMMA SumExtend ==
    ASSUME NEW n \in Nat,
           NEW f \in [0 .. n-1 -> Int], NEW h \in [0 .. n -> Int],
           \A i \in 0 .. n-1 : h[i] = f[i]
    PROVE  SumUpTo(h, n+1) = SumUpTo(f, n) + h[n]
<1>1. n + 1 \in Nat /\ h \in [0 .. (n+1)-1 -> Int]
  OBVIOUS
<1>2. PICK r : Partial(h, n + 1, r)
  BY <1>1, PartialExists
<1> DEFINE p == [k \in 0..n |-> r[k]]
<1>3. Partial(f, n, p)
  BY <1>2 DEF Partial
<1>4. SumUpTo(f, n) = r[n]
  BY <1>3, SumIsPartial
<1>5. SumUpTo(h, n + 1) = r[n+1]
  BY <1>1, <1>2, SumIsPartial
<1>6. r[n+1] = r[n] + h[n]
  BY <1>2 DEF Partial
<1> QED BY <1>4, <1>5, <1>6

(* A sum of naturals is a natural. *)
LEMMA SumNat ==
    ASSUME NEW n \in Nat, NEW f \in [0 .. n-1 -> Nat]
    PROVE  SumUpTo(f, n) \in Nat
<1>1. f \in [0 .. n-1 -> Int]
  OBVIOUS
<1>2. PICK p : Partial(f, n, p)  BY <1>1, PartialExists
<1> DEFINE S == {m \in Nat : m <= n => p[m] \in Nat}
<1>3. 0 \in S
  BY <1>2 DEF Partial
<1>4. ASSUME NEW m \in Nat, m \in S PROVE m + 1 \in S
  BY <1>2, <1>4 DEF Partial
<1>5. Nat \subseteq S
  <2> HIDE DEF S
  <2> QED BY <1>3, <1>4, SetInduction
<1>6. p[n] \in Nat
  BY <1>5
<1> QED BY <1>1, <1>2, <1>6, SumIsPartial

(* Larger terms make a larger sum. *)
LEMMA SumMonotone ==
    ASSUME NEW n \in Nat,
           NEW f \in [0 .. n-1 -> Int], NEW g \in [0 .. n-1 -> Int],
           \A i \in 0 .. n-1 : f[i] <= g[i]
    PROVE  SumUpTo(f, n) <= SumUpTo(g, n)
<1> DEFINE d == [i \in 0 .. n-1 |-> g[i] - f[i]]
<1>1. d \in [0 .. n-1 -> Nat] /\ d \in [0 .. n-1 -> Int]
  OBVIOUS
<1>2. \A i \in 0 .. n-1 : g[i] = f[i] + d[i]
  OBVIOUS
<1> HIDE DEF d
<1>3. SumUpTo(g, n) = SumUpTo(f, n) + SumUpTo(d, n)
  BY <1>1, <1>2, SumAdd
<1>4. SumUpTo(f, n) \in Int /\ SumUpTo(d, n) \in Nat
  BY <1>1, SumType, SumNat
<1> QED BY <1>3, <1>4

-----------------------------------------------------------------------------
USE DEF CALL, PUT, OPEN, PURCHASED, EXERCISED, EXPIRED, CANCELLED, RESERVED

-----------------------------------------------------------------------------
(* Arithmetic. *)

(* Rounding a fee up never takes more than the amount itself. *)
LEMMA FeeBounds ==
    ASSUME NEW x \in Nat
    PROVE  /\ FeeOf(x, CANCEL_FEE_BPS) \in 0..x
           /\ FeeOf(x, BUY_FEE_BPS) \in 0..x
           /\ FeeOf(x, EXERCISE_FEE_BPS) \in 0..x
BY DEF FeeOf, CANCEL_FEE_BPS, BUY_FEE_BPS, EXERCISE_FEE_BPS

(* Division of naturals stays in the naturals. *)
LEMMA QuotientNat == ASSUME NEW x \in Nat, NEW d \in Nat \ {0}
                     PROVE  x \div d \in Nat
OBVIOUS

(* So does multiplication. *)
LEMMA ProductNat == ASSUME NEW x \in Nat, NEW y \in Nat PROVE x * y \in Nat
OBVIOUS

(* A well-formed option's strike value and collateral are naturals. *)
LEMMA AmountsNat ==
    ASSUME NEW o \in Option
    PROVE  StrikeValue(o) \in Nat /\ Collateral(o) \in Nat
<1>1. o.strikePrice \in Nat /\ o.underlyingAmount \in Nat
  BY DEF Option
<1>2. o.strikePrice * o.underlyingAmount \in Nat
  BY <1>1, ProductNat
<1>3. StrikeValue(o) \in Nat
  BY <1>2, PrecisionAssumption, QuotientNat DEF StrikeValue
<1> QED BY <1>1, <1>3 DEF Collateral

(* Cancelling never costs more than the collateral. *)
LEMMA CancelFeeBounds ==
    ASSUME NEW o \in Option
    PROVE  CancelFee(o) \in 0 .. Collateral(o)
BY AmountsNat, FeeBounds DEF CancelFee

-----------------------------------------------------------------------------
(* Payments. *)

Ledgers == [Addresses -> Nat]

(* What one transferFrom does to a ledger, sender = receiver included. *)
LEMMA MovedFacts ==
    ASSUME NEW l \in Ledgers, NEW from \in Addresses, NEW to \in Addresses,
           NEW amount \in Nat, CanPay(l, from, amount)
    PROVE  /\ Moved(l, from, to, amount) \in Ledgers
           /\ \A a \in Addresses : Moved(l, from, to, amount)[a] =
                l[a] - (IF a = from THEN amount ELSE 0)
                     + (IF a = to THEN amount ELSE 0)
BY DEF Moved, CanPay, Ledgers

(* The same for the ledgers of all tokens: only token t's accounts move. *)
LEMMA PayFacts ==
    ASSUME NEW b \in [Tokens -> Ledgers], NEW t \in Tokens,
           NEW from \in Addresses, NEW to \in Addresses,
           NEW amount \in Nat, Affords(b, t, from, amount)
    PROVE  /\ Pay(b, t, from, to, amount) \in [Tokens -> Ledgers]
           /\ \A u \in Tokens, a \in Addresses :
                Pay(b, t, from, to, amount)[u][a] =
                  b[u][a] - (IF u = t /\ a = from THEN amount ELSE 0)
                          + (IF u = t /\ a = to THEN amount ELSE 0)
<1>1. b[t] \in Ledgers /\ CanPay(b[t], from, amount)
  BY DEF Affords
<1>2. Moved(b[t], from, to, amount) \in Ledgers
  BY <1>1, MovedFacts
<1>3. \A a \in Addresses : Moved(b[t], from, to, amount)[a] =
         b[t][a] - (IF a = from THEN amount ELSE 0)
                 + (IF a = to THEN amount ELSE 0)
  BY <1>1, MovedFacts
<1>4. ASSUME NEW u \in Tokens
      PROVE  Pay(b, t, from, to, amount)[u] =
               IF u = t THEN Moved(b[t], from, to, amount) ELSE b[u]
  BY DEF Pay
<1>5. ASSUME NEW u \in Tokens, NEW a \in Addresses
      PROVE  b[u][a] \in Nat
  BY DEF Ledgers
<1>6. ASSUME NEW u \in Tokens, NEW a \in Addresses
      PROVE  Pay(b, t, from, to, amount)[u][a] =
               b[u][a] - (IF u = t /\ a = from THEN amount ELSE 0)
                       + (IF u = t /\ a = to THEN amount ELSE 0)
  <2>1. CASE u = t  BY <2>1, <1>3, <1>4
  <2>2. CASE u # t  BY <2>2, <1>4, <1>5
  <2> QED BY <2>1, <2>2
<1>7. Pay(b, t, from, to, amount) \in [Tokens -> Ledgers]
  BY <1>2 DEF Pay
<1> QED BY <1>6, <1>7

-----------------------------------------------------------------------------
(* Locked collateral. *)

(* What one option locks is a natural number. *)
LEMMA LockedByNat ==
    ASSUME NEW o \in Option, NEW t
    PROVE  LockedBy(o, t) \in Nat
BY AmountsNat DEF LockedBy

(* So is what all of them lock. *)
LEMMA LockedType ==
    ASSUME NEW n \in Nat, NEW opts \in [0 .. n-1 -> Option], NEW t
    PROVE  /\ [id \in 0 .. n-1 |-> LockedBy(opts[id], t)] \in [0 .. n-1 -> Nat]
           /\ LockedIn(opts, n, t) \in Nat
<1> DEFINE f == [id \in 0 .. n-1 |-> LockedBy(opts[id], t)]
<1>1. f \in [0 .. n-1 -> Nat]
  BY LockedByNat
<1>2. SumUpTo(f, n) \in Nat
  <2> HIDE DEF f
  <2> QED BY <1>1, SumNat
<1> QED BY <1>1, <1>2 DEF LockedIn

(* Replacing one option's record. *)
LEMMA LockedUpdate ==
    ASSUME NEW n \in Nat, NEW opts \in [0 .. n-1 -> Option], NEW t,
           NEW j \in 0 .. n-1, NEW o \in Option
    PROVE  LockedIn([opts EXCEPT ![j] = o], n, t) =
             LockedIn(opts, n, t) + LockedBy(o, t) - LockedBy(opts[j], t)
<1> DEFINE new == [opts EXCEPT ![j] = o]
           f == [id \in 0 .. n-1 |-> LockedBy(opts[id], t)]
           h == [id \in 0 .. n-1 |-> LockedBy(new[id], t)]
<1>1. new \in [0 .. n-1 -> Option]
  OBVIOUS
<1>2. f \in [0 .. n-1 -> Int] /\ h \in [0 .. n-1 -> Int]
  <2> HIDE DEF new
  <2> QED BY <1>1, LockedByNat
<1>3. \A i \in 0 .. n-1 : i # j => h[i] = f[i]
  OBVIOUS
<1>4. h[j] = LockedBy(o, t) /\ f[j] = LockedBy(opts[j], t)
  OBVIOUS
<1>5. SumUpTo(h, n) = SumUpTo(f, n) + h[j] - f[j]
  <2> HIDE DEF f, h, new
  <2> QED BY <1>2, <1>3, SumUpdate
<1> QED BY <1>4, <1>5 DEF LockedIn

(* Appending a new option's record. *)
LEMMA LockedExtend ==
    ASSUME NEW n \in Nat, NEW opts \in [0 .. n-1 -> Option], NEW t,
           NEW new \in [0 .. n -> Option],
           \A i \in 0 .. n-1 : new[i] = opts[i]
    PROVE  LockedIn(new, n + 1, t) = LockedIn(opts, n, t) + LockedBy(new[n], t)
<1> DEFINE f == [id \in 0 .. n-1 |-> LockedBy(opts[id], t)]
           h == [id \in 0 .. n |-> LockedBy(new[id], t)]
<1>1. f \in [0 .. n-1 -> Int] /\ h \in [0 .. n -> Int]
  BY LockedByNat
<1>2. \A i \in 0 .. n-1 : h[i] = f[i]
  OBVIOUS
<1>3. h[n] = LockedBy(new[n], t)
  OBVIOUS
<1>4. SumUpTo(h, n + 1) = SumUpTo(f, n) + h[n]
  <2> HIDE DEF f, h
  <2> QED BY <1>1, <1>2, SumExtend
<1>5. (n + 1) - 1 = n
  OBVIOUS
<1>6. LockedIn(new, n + 1, t) = SumUpTo(h, n + 1)
  BY <1>5 DEF LockedIn
<1> QED BY <1>3, <1>4, <1>6 DEF LockedIn

-----------------------------------------------------------------------------
(* One step's effect on the escrow.  Surplus(t) is what the pool holds     *)
(* beyond the live collateral; no action lowers it, and only a fee paid to *)
(* the pool itself raises it.                                              *)

Surplus(t) == balance[t][Pool] - Locked(t)

EscrowStep(t) ==
    /\ Surplus(t)' >= Surplus(t)
    /\ feeRecipient # Pool => Surplus(t)' = Surplus(t)

(* Memberships the type invariant gives, as the step lemmas need them. *)
LEMMA Basics ==
    ASSUME TypeOK
    PROVE  /\ DOMAIN options = 0 .. nextId - 1
           /\ Pool \in Addresses /\ feeRecipient \in Addresses
           /\ Underlying \in Tokens /\ PremiumToken \in Tokens
           /\ balance \in [Tokens -> Ledgers]
           /\ \A id \in DOMAIN options :
                 /\ options[id] \in Option
                 /\ CollateralToken(options[id]) \in Tokens
                 /\ options[id].writer \in Users
                 /\ options[id].writer \in Addresses
                 /\ options[id].writer # Pool
BY AddressAssumption DEF TypeOK, Addresses, Tokens, Ledgers, Option, CollateralToken

(* The two sides of solvency are natural numbers. *)
LEMMA LockedNat ==
    ASSUME TypeOK, NEW t \in Tokens
    PROVE  Locked(t) \in Nat /\ balance[t][Pool] \in Nat
<1>1. Locked(t) \in Nat
  BY LockedType DEF TypeOK, Locked
<1>2. balance[t][Pool] \in Nat
  BY Basics DEF TypeOK
<1> QED BY <1>1, <1>2

(* A new option's record is well formed. *)
LEMMA NewOptionType ==
    ASSUME NEW w \in Users, NEW type \in OptionTypes, NEW k \in Nat \ {0},
           NEW a \in Nat \ {0}, NEW p \in Nat \ {0}, NEW e \in Nat
    PROVE  NewOption(w, type, k, a, p, e) \in Option
BY DEF NewOption, Option, Statuses, Addresses

(* Extended appends one record and keeps the others. *)
LEMMA ExtendedType ==
    ASSUME nextId \in Nat, NEW opts \in [0 .. nextId - 1 -> Option],
           NEW o \in Option
    PROVE  /\ Extended(opts, o) \in [0 .. nextId -> Option]
           /\ Extended(opts, o)[nextId] = o
           /\ \A i \in 0 .. nextId - 1 : Extended(opts, o)[i] = opts[i]
BY DEF Extended

(* writeOption: what comes in is what the new option locks. *)
LEMMA WriteStep ==
    ASSUME TypeOK, NEW w \in Users, NEW type \in OptionTypes,
           NEW k \in Strikes, NEW a \in Amounts, NEW p \in Premiums,
           NEW e \in Nat, WriteOption(w, type, k, a, p, e)
    PROVE  TypeOK' /\ \A t \in Tokens : EscrowStep(t)
<1> DEFINE o == NewOption(w, type, k, a, p, e)
           c == Collateral(o)
           ct == CollateralToken(o)
<1>1. o \in Option
  BY NewOptionType, InputAssumption
<1>2. c \in Nat /\ ct \in Tokens /\ Live(o)
  BY <1>1, AmountsNat DEF CollateralToken, Tokens, Live, NewOption
<1>3. /\ nextId' = nextId + 1
      /\ options' = Extended(options, o)
      /\ balance' = Pay(balance, ct, w, Pool, c)
      /\ Affords(balance, ct, w, c)
      /\ block' = block /\ feeRecipient' = feeRecipient
  BY DEF WriteOption
<1>4. w \in Addresses /\ w # Pool
  BY AddressAssumption DEF Addresses
<1> HIDE DEF o, c, ct
<1>5. /\ options' \in [0 .. nextId -> Option]
      /\ options'[nextId] = o
      /\ \A i \in 0 .. nextId - 1 : options'[i] = options[i]
  BY <1>1, <1>3, ExtendedType DEF TypeOK
<1>6. /\ balance' \in [Tokens -> Ledgers]
      /\ \A t \in Tokens : balance'[t][Pool] =
            balance[t][Pool] + (IF t = ct THEN c ELSE 0)
  <2>1. /\ Pay(balance, ct, w, Pool, c) \in [Tokens -> Ledgers]
        /\ \A t \in Tokens, x \in Addresses :
             Pay(balance, ct, w, Pool, c)[t][x] =
               balance[t][x] - (IF t = ct /\ x = w THEN c ELSE 0)
                             + (IF t = ct /\ x = Pool THEN c ELSE 0)
    BY <1>2, <1>3, <1>4, Basics, PayFacts
  <2>2. \A t \in Tokens : balance[t][Pool] \in Nat
    BY LockedNat
  <2> QED BY <1>2, <1>3, <1>4, <2>1, <2>2, Basics
<1>7. TypeOK'
  <2>1. nextId' - 1 = nextId /\ nextId' \in Nat
    BY <1>3 DEF TypeOK
  <2> QED BY <1>3, <1>5, <1>6, <2>1 DEF TypeOK, Ledgers
<1>8. ASSUME NEW t \in Tokens PROVE EscrowStep(t)
  <2>1. Locked(t)' = Locked(t) + LockedBy(o, t)
    BY <1>3, <1>5, LockedExtend DEF TypeOK, Locked
  <2>2. LockedBy(o, t) = IF t = ct THEN c ELSE 0
    BY <1>2 DEF LockedBy, c, ct
  <2> QED BY <1>2, <1>6, <2>1, <2>2, LockedNat DEF EscrowStep, Surplus
<1> QED BY <1>7, <1>8

(* Closing or selling one option: its record changes, and the pool pays    *)
(* out exactly what the record stops locking, or receives a fee back.      *)
LEMMA SingleStep ==
    ASSUME TypeOK, NEW id \in DOMAIN options, NEW o \in Option,
           options' = [options EXCEPT ![id] = o],
           block' = block, nextId' = nextId, feeRecipient' = feeRecipient,
           balance' \in [Tokens -> Ledgers],
           \A t \in Tokens :
              LET drop == LockedBy(options[id], t) - LockedBy(o, t)
              IN  /\ balance'[t][Pool] >= balance[t][Pool] - drop
                  /\ feeRecipient # Pool =>
                       balance'[t][Pool] = balance[t][Pool] - drop
    PROVE  TypeOK' /\ \A t \in Tokens : EscrowStep(t)
<1>1. TypeOK'
  BY DEF TypeOK, Ledgers
<1>2. ASSUME NEW t \in Tokens PROVE EscrowStep(t)
  <2>1. Locked(t)' = Locked(t) + LockedBy(o, t) - LockedBy(options[id], t)
    BY LockedUpdate DEF TypeOK, Locked
  <2>2. LockedBy(o, t) \in Nat /\ LockedBy(options[id], t) \in Nat
    BY LockedByNat, Basics
  <2>3. Locked(t) \in Nat /\ balance[t][Pool] \in Nat
    BY LockedNat
  <2>4. balance'[t][Pool] \in Nat
    BY Basics DEF Ledgers
  <2> QED BY <2>1, <2>2, <2>3, <2>4 DEF EscrowStep, Surplus
<1> QED BY <1>1, <1>2

(* A payment between two users leaves the pool's accounts alone. *)
LEMMA UserPayment ==
    ASSUME NEW b \in [Tokens -> Ledgers], NEW t \in Tokens,
           NEW from \in Users, NEW to \in Users, NEW amount \in Nat,
           Affords(b, t, from, amount)
    PROVE  /\ Pay(b, t, from, to, amount) \in [Tokens -> Ledgers]
           /\ \A u \in Tokens : Pay(b, t, from, to, amount)[u][Pool] = b[u][Pool]
<1>1. /\ from \in Addresses /\ to \in Addresses /\ Pool \in Addresses
      /\ from # Pool /\ to # Pool
  BY AddressAssumption DEF Addresses
<1>2. /\ Pay(b, t, from, to, amount) \in [Tokens -> Ledgers]
      /\ \A u \in Tokens, a \in Addresses :
           Pay(b, t, from, to, amount)[u][a] =
             b[u][a] - (IF u = t /\ a = from THEN amount ELSE 0)
                     + (IF u = t /\ a = to THEN amount ELSE 0)
  BY <1>1, PayFacts
<1>3. \A u \in Tokens : b[u][Pool] \in Nat
  BY <1>1 DEF Ledgers
<1> QED BY <1>1, <1>2, <1>3

(* The pool pays x to a user and then the fee y to the fee recipient. *)
LEMMA PayoutWithFee ==
    ASSUME NEW b \in [Tokens -> Ledgers], NEW t \in Tokens,
           NEW to \in Users, NEW r \in Addresses,
           NEW c \in Nat, NEW fee \in 0..c, Affords(b, t, Pool, c),
           NEW n, n = Pay(Pay(b, t, Pool, to, c - fee), t, Pool, r, fee)
    PROVE  /\ n \in [Tokens -> Ledgers]
           /\ \A u \in Tokens : n[u][Pool] =
                b[u][Pool] - (IF u = t THEN c ELSE 0)
                           + (IF u = t /\ r = Pool THEN fee ELSE 0)
<1> DEFINE m == Pay(b, t, Pool, to, c - fee)
<1>1. to \in Addresses /\ to # Pool /\ Pool \in Addresses
  BY AddressAssumption DEF Addresses
<1>2. \A u \in Tokens : b[u][Pool] \in Nat
  BY <1>1 DEF Ledgers
<1>3. /\ b[t][Pool] >= c /\ c - fee \in Nat /\ fee \in Nat
      /\ Affords(b, t, Pool, c - fee)
  BY <1>2 DEF Affords, CanPay
<1>4. /\ m \in [Tokens -> Ledgers]
      /\ \A u \in Tokens, a \in Addresses :
           m[u][a] = b[u][a] - (IF u = t /\ a = Pool THEN c - fee ELSE 0)
                             + (IF u = t /\ a = to THEN c - fee ELSE 0)
  BY <1>1, <1>3, PayFacts
<1>5. n = Pay(m, t, Pool, r, fee)
  OBVIOUS
<1> HIDE DEF m
<1>6. \A u \in Tokens : m[u][Pool] = b[u][Pool] - (IF u = t THEN c - fee ELSE 0)
  BY <1>1, <1>2, <1>4
<1>7. Affords(m, t, Pool, fee)
  BY <1>2, <1>3, <1>6 DEF Affords, CanPay
<1>8. /\ n \in [Tokens -> Ledgers]
      /\ \A u \in Tokens, a \in Addresses :
           n[u][a] = m[u][a] - (IF u = t /\ a = Pool THEN fee ELSE 0)
                             + (IF u = t /\ a = r THEN fee ELSE 0)
  BY <1>1, <1>3, <1>4, <1>5, <1>7, PayFacts
<1>9. \A u \in Tokens : n[u][Pool] =
         b[u][Pool] - (IF u = t THEN c ELSE 0)
                    + (IF u = t /\ r = Pool THEN fee ELSE 0)
  BY <1>1, <1>2, <1>3, <1>6, <1>8
<1> QED BY <1>8, <1>9

(* What closing a live option releases. *)
LEMMA ClosedRecord ==
    ASSUME TypeOK, NEW id \in DOMAIN options,
           NEW s \in {EXERCISED, EXPIRED, CANCELLED}
    PROVE  LET o == [options[id] EXCEPT !.status = s]
           IN  /\ o \in Option
               /\ [options EXCEPT ![id].status = s] = [options EXCEPT ![id] = o]
               /\ \A t \in Tokens : LockedBy(o, t) = 0
<1>1. options[id] \in Option
  BY Basics
<1>2. [options[id] EXCEPT !.status = s] \in Option
  BY <1>1 DEF Option, Statuses
<1>3. ~Live([options[id] EXCEPT !.status = s])
  BY <1>1 DEF Option, Live
<1> QED BY <1>2, <1>3 DEF LockedBy

(* A live option locks its collateral, in its collateral token only. *)
LEMMA LiveRecord ==
    ASSUME TypeOK, NEW id \in DOMAIN options, Live(options[id])
    PROVE  \A t \in Tokens : LockedBy(options[id], t) =
             IF t = CollateralToken(options[id])
             THEN Collateral(options[id]) ELSE 0
BY DEF LockedBy

(* cancelOption: refund and fee together are the option's collateral. *)
LEMMA CancelStep ==
    ASSUME TypeOK, NEW w \in Users, NEW id \in DOMAIN options,
           CancelOption(w, id)
    PROVE  TypeOK' /\ \A t \in Tokens : EscrowStep(t)
<1> DEFINE o == options[id]
           n == [o EXCEPT !.status = CANCELLED]
           c == Collateral(o)
           fee == CancelFee(o)
           ct == CollateralToken(o)
<1>1. /\ o \in Option /\ c \in Nat /\ fee \in 0..c
      /\ ct \in Tokens /\ o.writer \in Users
  BY Basics, AmountsNat, CancelFeeBounds
<1>2. /\ options' = [options EXCEPT ![id] = n] /\ n \in Option
      /\ \A t \in Tokens : LockedBy(n, t) = 0
  BY ClosedRecord DEF CancelOption, SetStatus
<1>3. \A t \in Tokens : LockedBy(o, t) = IF t = ct THEN c ELSE 0
  BY LiveRecord DEF CancelOption, Live, MayCancel
<1>4. /\ Affords(balance, ct, Pool, c)
      /\ balance' = Pay(Pay(balance, ct, Pool, o.writer, c - fee),
                        ct, Pool, feeRecipient, fee)
      /\ block' = block /\ nextId' = nextId /\ feeRecipient' = feeRecipient
  BY DEF CancelOption
<1> HIDE DEF o, n, c, fee, ct
<1>5. /\ balance' \in [Tokens -> Ledgers]
      /\ \A t \in Tokens : balance'[t][Pool] =
            balance[t][Pool] - (IF t = ct THEN c ELSE 0)
                + (IF t = ct /\ feeRecipient = Pool THEN fee ELSE 0)
  <2>1. feeRecipient \in Addresses /\ balance \in [Tokens -> Ledgers]
    BY Basics
  <2> QED BY <1>1, <1>4, <2>1, PayoutWithFee
<1>6. ASSUME NEW t \in Tokens
      PROVE  LET drop == LockedBy(o, t) - LockedBy(n, t)
             IN  /\ balance'[t][Pool] >= balance[t][Pool] - drop
                 /\ feeRecipient # Pool =>
                      balance'[t][Pool] = balance[t][Pool] - drop
  BY <1>1, <1>2, <1>3, <1>5, LockedNat
<1> QED BY <1>2, <1>4, <1>5, <1>6, SingleStep DEF o

(* buyOption: the premium bypasses the pool; the record still locks the    *)
(* same collateral.                                                        *)
LEMMA BuyStep ==
    ASSUME TypeOK, NEW u \in Users, NEW id \in DOMAIN options,
           BuyOption(u, id)
    PROVE  TypeOK' /\ \A t \in Tokens : EscrowStep(t)
<1> DEFINE o == options[id]
           n == [o EXCEPT !.buyer = u, !.status = PURCHASED]
           fee == FeeOf(o.premium, BUY_FEE_BPS)
           m == Pay(balance, PremiumToken, u, o.writer, o.premium - fee)
<1>1. o \in Option /\ o.status = OPEN /\ u # o.writer
  BY Basics DEF BuyOption, CanBuy, MayBuy
<1>2. n \in Option /\ \A t \in Tokens : LockedBy(n, t) = LockedBy(o, t)
  BY <1>1 DEF Option, Statuses, Addresses, LockedBy, Live, CollateralToken,
              Collateral, StrikeValue
<1>3. options' = [options EXCEPT ![id] = n]
  BY DEF BuyOption, TypeOK
<1>4. /\ Affords(balance, PremiumToken, u, o.premium)
      /\ balance' = Pay(m, PremiumToken, u, feeRecipient, fee)
      /\ block' = block /\ nextId' = nextId /\ feeRecipient' = feeRecipient
  BY DEF BuyOption, CanBuy, MayBuy
<1>5. /\ o.premium \in Nat /\ fee \in 0..o.premium
      /\ o.writer \in Users /\ u \in Addresses /\ u # Pool
      /\ Pool \in Addresses
      /\ o.writer \in Addresses /\ balance[PremiumToken][u] \in Nat
  <2>1. o.premium \in Nat /\ o.writer \in Users
    BY <1>1 DEF Option
  <2>2. balance[PremiumToken][u] \in Nat
    BY Basics DEF Ledgers, Addresses
  <2> QED BY <2>1, <2>2, FeeBounds, AddressAssumption DEF Addresses
<1> HIDE DEF o, n, fee, m
<1>6. Affords(balance, PremiumToken, u, o.premium - fee)
  BY <1>4, <1>5 DEF Affords, CanPay
<1>7. /\ m \in [Tokens -> Ledgers]
      /\ \A t \in Tokens : m[t][Pool] = balance[t][Pool]
  BY <1>5, <1>6, Basics, UserPayment DEF m
<1>8. m[PremiumToken][u] >= fee
  <2>1. \A t \in Tokens, a \in Addresses : m[t][a] =
          balance[t][a]
            - (IF t = PremiumToken /\ a = u THEN o.premium - fee ELSE 0)
            + (IF t = PremiumToken /\ a = o.writer THEN o.premium - fee ELSE 0)
    BY <1>5, <1>6, Basics, PayFacts DEF m
  <2>2. m[PremiumToken][u] = balance[PremiumToken][u] - (o.premium - fee)
    BY <2>1, <1>1, <1>5, Basics
  <2>3. balance[PremiumToken][u] >= o.premium
    BY <1>4 DEF Affords, CanPay
  <2> QED BY <2>2, <2>3, <1>5
<1>9. /\ balance' \in [Tokens -> Ledgers]
      /\ \A t \in Tokens : balance'[t][Pool] =
            m[t][Pool] + (IF t = PremiumToken /\ feeRecipient = Pool
                          THEN fee ELSE 0)
  <2>1. Affords(m, PremiumToken, u, fee) /\ fee \in Nat
    BY <1>5, <1>8 DEF Affords, CanPay
  <2>2. /\ balance' \in [Tokens -> Ledgers]
        /\ \A t \in Tokens, a \in Addresses : balance'[t][a] =
             m[t][a] - (IF t = PremiumToken /\ a = u THEN fee ELSE 0)
                     + (IF t = PremiumToken /\ a = feeRecipient THEN fee ELSE 0)
    BY <1>4, <1>5, <1>7, <2>1, Basics, PayFacts
  <2>3. \A t \in Tokens : m[t][Pool] \in Nat
    BY <1>7, LockedNat
  <2> QED BY <2>2, <2>3, <2>1, <1>5, Basics
<1>10. ASSUME NEW t \in Tokens
       PROVE  LET drop == LockedBy(o, t) - LockedBy(n, t)
              IN  /\ balance'[t][Pool] >= balance[t][Pool] - drop
                  /\ feeRecipient # Pool =>
                       balance'[t][Pool] = balance[t][Pool] - drop
  <2>1. LockedBy(o, t) - LockedBy(n, t) = 0 /\ balance[t][Pool] \in Nat
    BY <1>1, <1>2, LockedByNat, LockedNat
  <2> QED BY <1>5, <1>7, <1>9, <2>1
<1> QED BY <1>2, <1>3, <1>4, <1>9, <1>10, SingleStep DEF o

(* exercise: the delivery bypasses the pool, the payout is the collateral. *)
LEMMA ExerciseStep ==
    ASSUME TypeOK, NEW u \in Users, NEW id \in DOMAIN options,
           Exercise(u, id)
    PROVE  TypeOK' /\ \A t \in Tokens : EscrowStep(t)
<1> DEFINE o == options[id]
           n == [o EXCEPT !.status = EXERCISED]
           c == Collateral(o)
           fee == FeeOf(c, EXERCISE_FEE_BPS)
           out == CollateralToken(o)
           in == IF o.optionType = CALL THEN PremiumToken ELSE Underlying
           price == IF o.optionType = CALL THEN StrikeValue(o)
                                           ELSE o.underlyingAmount
           d == Pay(balance, in, u, o.writer, price)
<1>1. /\ o \in Option /\ c \in Nat /\ fee \in 0..c /\ price \in Nat
      /\ out \in Tokens /\ in \in Tokens /\ o.writer \in Users
  <2>1. o \in Option /\ out \in Tokens /\ in \in Tokens /\ o.writer \in Users
    BY Basics
  <2>2. o.underlyingAmount \in Nat
    BY <2>1 DEF Option
  <2> QED BY <2>1, <2>2, AmountsNat, FeeBounds
<1>2. /\ options' = [options EXCEPT ![id] = n] /\ n \in Option
      /\ \A t \in Tokens : LockedBy(n, t) = 0
  BY ClosedRecord DEF Exercise, SetStatus
<1>3. \A t \in Tokens : LockedBy(o, t) = IF t = out THEN c ELSE 0
  BY LiveRecord DEF Exercise, Live, MayExercise
<1>4. /\ Affords(balance, in, u, price) /\ Affords(d, out, Pool, c)
      /\ balance' = Pay(Pay(d, out, Pool, u, c - fee),
                        out, Pool, feeRecipient, fee)
      /\ block' = block /\ nextId' = nextId /\ feeRecipient' = feeRecipient
  BY DEF Exercise
<1> HIDE DEF o, n, c, fee, out, in, price
<1>5. /\ d \in [Tokens -> Ledgers]
      /\ \A t \in Tokens : d[t][Pool] = balance[t][Pool]
  BY <1>1, <1>4, Basics, UserPayment
<1> HIDE DEF d
<1>6. /\ balance' \in [Tokens -> Ledgers]
      /\ \A t \in Tokens : balance'[t][Pool] =
            d[t][Pool] - (IF t = out THEN c ELSE 0)
                + (IF t = out /\ feeRecipient = Pool THEN fee ELSE 0)
  <2>1. feeRecipient \in Addresses
    BY Basics
  <2> QED BY <1>1, <1>4, <1>5, <2>1, PayoutWithFee
<1>7. ASSUME NEW t \in Tokens
      PROVE  LET drop == LockedBy(o, t) - LockedBy(n, t)
             IN  /\ balance'[t][Pool] >= balance[t][Pool] - drop
                 /\ feeRecipient # Pool =>
                      balance'[t][Pool] = balance[t][Pool] - drop
  BY <1>1, <1>2, <1>3, <1>5, <1>6, LockedNat
<1> QED BY <1>2, <1>4, <1>6, <1>7, SingleStep DEF o

(* settle: the whole collateral goes back to the writer. *)
LEMMA SettleStep ==
    ASSUME TypeOK, NEW id \in DOMAIN options, Settle(id)
    PROVE  TypeOK' /\ \A t \in Tokens : EscrowStep(t)
<1> DEFINE o == options[id]
           n == [o EXCEPT !.status = EXPIRED]
           c == Collateral(o)
           ct == CollateralToken(o)
<1>1. /\ o \in Option /\ c \in Nat /\ ct \in Tokens
      /\ o.writer \in Addresses /\ o.writer # Pool
  BY Basics, AmountsNat
<1>2. /\ options' = [options EXCEPT ![id] = n] /\ n \in Option
      /\ \A t \in Tokens : LockedBy(n, t) = 0
  BY ClosedRecord DEF Settle, SetStatus
<1>3. \A t \in Tokens : LockedBy(o, t) = IF t = ct THEN c ELSE 0
  BY LiveRecord DEF Settle, CanSettle, Live
<1>4. /\ Affords(balance, ct, Pool, c)
      /\ balance' = Pay(balance, ct, Pool, o.writer, c)
      /\ block' = block /\ nextId' = nextId /\ feeRecipient' = feeRecipient
  BY DEF Settle
<1> HIDE DEF o, n, c, ct
<1>5. /\ balance' \in [Tokens -> Ledgers]
      /\ \A t \in Tokens, a \in Addresses : balance'[t][a] =
           balance[t][a] - (IF t = ct /\ a = Pool THEN c ELSE 0)
                         + (IF t = ct /\ a = o.writer THEN c ELSE 0)
  <2>1. balance \in [Tokens -> Ledgers] /\ Pool \in Addresses
    BY Basics
  <2> QED BY <1>1, <1>4, <2>1, PayFacts
<1>6. ASSUME NEW t \in Tokens
      PROVE  LET drop == LockedBy(o, t) - LockedBy(n, t)
             IN  /\ balance'[t][Pool] >= balance[t][Pool] - drop
                 /\ feeRecipient # Pool =>
                      balance'[t][Pool] = balance[t][Pool] - drop
  BY <1>1, <1>2, <1>3, <1>5, Basics, LockedNat, SMTT(30)
<1> QED BY <1>2, <1>4, <1>5, <1>6, SingleStep DEF o

(* transferOption: a new holder, the same lock. *)
LEMMA TransferStep ==
    ASSUME TypeOK, NEW u \in Users, NEW id \in DOMAIN options,
           NEW new \in Addresses, TransferOption(u, id, new)
    PROVE  TypeOK' /\ \A t \in Tokens : EscrowStep(t)
<1> DEFINE o == options[id]
           n == [o EXCEPT !.buyer = new]
<1>1. o \in Option
  BY Basics
<1>2. n \in Option /\ \A t \in Tokens : LockedBy(n, t) = LockedBy(o, t)
  BY <1>1 DEF Option, LockedBy, Live, CollateralToken, Collateral, StrikeValue
<1>3. options' = [options EXCEPT ![id] = n]
  BY DEF TransferOption, TypeOK
<1>4. UNCHANGED <<block, nextId, balance, feeRecipient>>
  BY DEF TransferOption
<1> HIDE DEF n
<1>5. ASSUME NEW t \in Tokens
      PROVE  LET drop == LockedBy(o, t) - LockedBy(n, t)
             IN  /\ balance'[t][Pool] >= balance[t][Pool] - drop
                 /\ feeRecipient # Pool =>
                      balance'[t][Pool] = balance[t][Pool] - drop
  <2>1. LockedBy(o, t) - LockedBy(n, t) = 0 /\ balance[t][Pool] \in Nat
    BY <1>1, <1>2, LockedByNat, LockedNat
  <2> QED BY <1>4, <2>1
<1> QED BY <1>2, <1>3, <1>4, <1>5, Basics, SingleStep

(* Steps that touch neither options nor balances. *)
LEMMA QuietStep ==
    ASSUME TypeOK, UNCHANGED <<nextId, options, balance>>,
           block' \in Nat, feeRecipient' \in Addresses
    PROVE  TypeOK' /\ \A t \in Tokens : EscrowStep(t)
<1>1. TypeOK'
  BY DEF TypeOK
<1>2. ASSUME NEW t \in Tokens PROVE EscrowStep(t)
  <2>1. Locked(t)' = Locked(t)
    BY DEF Locked
  <2> QED BY <2>1, LockedNat DEF EscrowStep, Surplus
<1> QED BY <1>1, <1>2

(* rollOption: the netted payment turns the old lock into the new one. *)
LEMMA RollStep ==
    ASSUME TypeOK, NEW w \in Users, NEW id \in DOMAIN options,
           NEW k \in Strikes, NEW e \in Nat, NEW p \in Premiums,
           RollOption(w, id, k, e, p)
    PROVE  TypeOK' /\ \A t \in Tokens : EscrowStep(t)
<1> DEFINE old == options[id]
           closed == [old EXCEPT !.status = CANCELLED]
           rest == [options EXCEPT ![id] = closed]
           new == NewOption(w, old.optionType, k, old.underlyingAmount, p, e)
           ct == CollateralToken(old)
           c == Collateral(old)
           d == Collateral(new)
           fee == CancelFee(old)
           refund == c - fee
           feeOut == Pay(balance, ct, Pool, feeRecipient, fee)
<1>1. old \in Option /\ id \in 0 .. nextId - 1
  BY Basics
<1>2. /\ closed \in Option /\ rest \in [0 .. nextId - 1 -> Option]
      /\ \A t \in Tokens : LockedBy(closed, t) = 0
      /\ [options EXCEPT ![id].status = CANCELLED] = rest
  BY ClosedRecord DEF TypeOK
<1>3. /\ new \in Option /\ Live(new) /\ CollateralToken(new) = ct
  <2>1. old.optionType \in OptionTypes /\ old.underlyingAmount \in Nat \ {0}
    BY <1>1 DEF Option
  <2>2. new \in Option
    BY <2>1, NewOptionType, InputAssumption
  <2> QED BY <2>2 DEF NewOption, Live, CollateralToken
<1>4. /\ c \in Nat /\ d \in Nat /\ fee \in 0..c /\ refund \in Nat
      /\ ct \in Tokens
  BY <1>1, <1>3, AmountsNat, CancelFeeBounds, Basics
<1>5. \A t \in Tokens : /\ LockedBy(old, t) = (IF t = ct THEN c ELSE 0)
                        /\ LockedBy(new, t) = (IF t = ct THEN d ELSE 0)
  <2>1. Live(old)
    BY DEF RollOption, Live, MayCancel
  <2> QED BY <2>1, <1>3 DEF LockedBy
<1>6. /\ options' = Extended(rest, new) /\ nextId' = nextId + 1
      /\ Affords(balance, ct, Pool, fee)
      /\ block' = block /\ feeRecipient' = feeRecipient
  BY <1>2 DEF RollOption
<1>7. \/ /\ d >= refund
         /\ Affords(feeOut, ct, w, d - refund)
         /\ balance' = Pay(feeOut, ct, w, Pool, d - refund)
      \/ /\ d < refund
         /\ Affords(feeOut, ct, Pool, refund - d)
         /\ balance' = Pay(feeOut, ct, Pool, w, refund - d)
  BY DEF RollOption
<1>8. /\ w \in Addresses /\ w # Pool /\ Pool \in Addresses
      /\ feeRecipient \in Addresses /\ balance \in [Tokens -> Ledgers]
  BY Basics, AddressAssumption DEF Addresses
<1> HIDE DEF old, closed, rest, new, ct, c, d, fee, refund, feeOut
<1>9. /\ feeOut \in [Tokens -> Ledgers]
      /\ \A t \in Tokens : feeOut[t][Pool] =
           balance[t][Pool] - (IF t = ct THEN fee ELSE 0)
               + (IF t = ct /\ feeRecipient = Pool THEN fee ELSE 0)
  <2>1. /\ feeOut \in [Tokens -> Ledgers]
        /\ \A t \in Tokens, a \in Addresses : feeOut[t][a] =
             balance[t][a] - (IF t = ct /\ a = Pool THEN fee ELSE 0)
                           + (IF t = ct /\ a = feeRecipient THEN fee ELSE 0)
    BY <1>4, <1>6, <1>8, PayFacts DEF feeOut
  <2> QED BY <2>1, <1>8
<1>10. /\ balance' \in [Tokens -> Ledgers]
       /\ \A t \in Tokens : balance'[t][Pool] =
            feeOut[t][Pool] + (IF t = ct THEN d - refund ELSE 0)
  <2>1. \A t \in Tokens : feeOut[t][Pool] \in Nat
    BY <1>8, <1>9 DEF Ledgers
  <2>2. CASE d >= refund
    <3>1. d - refund \in Nat /\ Affords(feeOut, ct, w, d - refund)
          /\ balance' = Pay(feeOut, ct, w, Pool, d - refund)
      BY <2>2, <1>4, <1>7
    <3>2. /\ balance' \in [Tokens -> Ledgers]
          /\ \A t \in Tokens, a \in Addresses : balance'[t][a] =
               feeOut[t][a] - (IF t = ct /\ a = w THEN d - refund ELSE 0)
                            + (IF t = ct /\ a = Pool THEN d - refund ELSE 0)
      BY <3>1, <1>4, <1>8, <1>9, PayFacts
    <3> QED BY <3>1, <3>2, <2>1, <1>8
  <2>3. CASE d < refund
    <3>1. refund - d \in Nat /\ Affords(feeOut, ct, Pool, refund - d)
          /\ balance' = Pay(feeOut, ct, Pool, w, refund - d)
      BY <2>3, <1>4, <1>7
    <3>2. /\ balance' \in [Tokens -> Ledgers]
          /\ \A t \in Tokens, a \in Addresses : balance'[t][a] =
               feeOut[t][a] - (IF t = ct /\ a = Pool THEN refund - d ELSE 0)
                            + (IF t = ct /\ a = w THEN refund - d ELSE 0)
      BY <3>1, <1>4, <1>8, <1>9, PayFacts
    <3> QED BY <3>1, <3>2, <2>1, <1>4, <1>8
  <2> QED BY <2>2, <2>3, <1>4
<1>11. /\ options' \in [0 .. nextId -> Option] /\ options'[nextId] = new
       /\ \A i \in 0 .. nextId - 1 : options'[i] = rest[i]
  BY <1>2, <1>3, <1>6, ExtendedType DEF TypeOK
<1>12. TypeOK'
  <2>1. nextId' \in Nat /\ nextId' - 1 = nextId
    BY <1>6 DEF TypeOK
  <2> QED BY <2>1, <1>6, <1>10, <1>11 DEF TypeOK, Ledgers
<1>13. ASSUME NEW t \in Tokens PROVE EscrowStep(t)
  <2>0. nextId \in Nat /\ options \in [0 .. nextId - 1 -> Option]
    BY DEF TypeOK
  <2>1. LockedIn(rest, nextId, t) =
          Locked(t) + LockedBy(closed, t) - LockedBy(old, t)
    <3>1. LockedIn([options EXCEPT ![id] = closed], nextId, t) =
            LockedIn(options, nextId, t) + LockedBy(closed, t)
              - LockedBy(options[id], t)
      <4>1. closed \in Option /\ id \in 0 .. nextId - 1
        BY <1>1, <1>2
      <4> QED BY <2>0, <4>1, LockedUpdate
    <3> QED BY <3>1 DEF Locked, rest, old
  <2>2. Locked(t)' = LockedIn(rest, nextId, t) + LockedBy(new, t)
    <3>1. LockedIn(options', nextId + 1, t) =
            LockedIn(rest, nextId, t) + LockedBy(options'[nextId], t)
      BY <2>0, <1>2, <1>11, LockedExtend
    <3> QED BY <3>1, <1>6, <1>11 DEF Locked
  <2>3. Locked(t)' = Locked(t) + (IF t = ct THEN d - c ELSE 0)
    BY <2>1, <2>2, <1>2, <1>4, <1>5, LockedNat
  <2>4. refund = c - fee
    BY DEF refund
  <2>5. balance'[t][Pool] = balance[t][Pool] + (IF t = ct THEN d - c ELSE 0)
          + (IF t = ct /\ feeRecipient = Pool THEN fee ELSE 0)
    BY <1>4, <1>9, <1>10, <2>4, LockedNat
  <2> QED BY <1>4, <2>3, <2>5, LockedNat DEF EscrowStep, Surplus
<1> QED BY <1>12, <1>13

-----------------------------------------------------------------------------
(* Batches. *)

(* A batch's total is a natural number: the sum of its terms. *)
LEMMA BatchTotalNat ==
    ASSUME TypeOK, NEW ids, NEW t, NEW amount \in [DOMAIN options -> Nat]
    PROVE  BatchTotal(ids, t, amount) \in Nat
<1> DEFINE f == [id \in DOMAIN options |->
                   IF id \in ids /\ CollateralToken(options[id]) = t
                   THEN amount[id] ELSE 0]
<1>1. nextId \in Nat /\ DOMAIN options = 0 .. nextId - 1
  BY Basics DEF TypeOK
<1>2. f \in [0 .. nextId - 1 -> Nat]
  BY <1>1
<1>3. SumUpTo(f, nextId) \in Nat
  <2> HIDE DEF f
  <2> QED BY <1>1, <1>2, SumNat
<1> QED BY <1>3 DEF BatchTotal

(* Collateral and cancel fees are natural numbers. *)
LEMMA AmountTypes ==
    ASSUME TypeOK
    PROVE  /\ Collaterals \in [DOMAIN options -> Nat]
           /\ CancelFees \in [DOMAIN options -> Nat]
           /\ \A id \in DOMAIN options : CancelFees[id] <= Collaterals[id]
<1>1. ASSUME NEW id \in DOMAIN options
      PROVE  /\ Collateral(options[id]) \in Nat
             /\ CancelFee(options[id]) \in 0 .. Collateral(options[id])
  BY Basics, AmountsNat, CancelFeeBounds
<1> QED BY <1>1 DEF Collaterals, CancelFees

(* The fees of a batch never exceed the collateral it returns. *)
LEMMA BatchFeesBounded ==
    ASSUME TypeOK, NEW ids, NEW t
    PROVE  BatchTotal(ids, t, CancelFees) <= BatchTotal(ids, t, Collaterals)
<1> DEFINE In(id) == id \in ids /\ CollateralToken(options[id]) = t
           f == [id \in DOMAIN options |->
                   IF In(id) THEN CancelFees[id] ELSE 0]
           h == [id \in DOMAIN options |->
                   IF In(id) THEN Collaterals[id] ELSE 0]
           g == [id \in DOMAIN options |->
                   IF In(id) THEN Collaterals[id] - CancelFees[id] ELSE 0]
<1>1. nextId \in Nat /\ DOMAIN options = 0 .. nextId - 1
  BY Basics DEF TypeOK
<1>2. /\ f \in [0 .. nextId - 1 -> Int] /\ h \in [0 .. nextId - 1 -> Int]
      /\ g \in [0 .. nextId - 1 -> Nat] /\ g \in [0 .. nextId - 1 -> Int]
      /\ \A i \in 0 .. nextId - 1 : h[i] = f[i] + g[i]
  <2>1. ASSUME NEW i \in 0 .. nextId - 1
        PROVE  /\ Collaterals[i] \in Nat /\ CancelFees[i] \in Nat
               /\ Collaterals[i] - CancelFees[i] \in Nat
    <3>1. i \in DOMAIN options
      BY <1>1
    <3>2. Collaterals[i] \in Nat /\ CancelFees[i] \in Nat
      BY <3>1, AmountTypes
    <3>3. CancelFees[i] <= Collaterals[i]
      BY <3>1, AmountTypes
    <3> QED BY <3>2, <3>3
  <2> HIDE DEF In
  <2>2. ASSUME NEW i \in 0 .. nextId - 1
        PROVE  /\ f[i] \in Nat /\ h[i] \in Nat /\ g[i] \in Nat
               /\ h[i] = f[i] + g[i]
    <3>1. i \in DOMAIN options
      BY <1>1
    <3> QED BY <2>1, <3>1
  <2>3. /\ f = [i \in 0 .. nextId - 1 |-> f[i]]
        /\ g = [i \in 0 .. nextId - 1 |-> g[i]]
        /\ h = [i \in 0 .. nextId - 1 |-> h[i]]
    BY <1>1
  <2> HIDE DEF f, g, h
  <2> QED BY <2>2, <2>3
<1>3. /\ BatchTotal(ids, t, CancelFees) = SumUpTo(f, nextId)
      /\ BatchTotal(ids, t, Collaterals) = SumUpTo(h, nextId)
  BY DEF BatchTotal
<1> HIDE DEF f, g, h
<1>4. SumUpTo(h, nextId) = SumUpTo(f, nextId) + SumUpTo(g, nextId)
  BY <1>1, <1>2, SumAdd
<1>5. SumUpTo(g, nextId) \in Nat /\ SumUpTo(f, nextId) \in Int
  BY <1>1, <1>2, SumNat, SumType
<1> QED BY <1>3, <1>4, <1>5

(* Closing a batch of live options releases exactly its total. *)
LEMMA BatchReleases ==
    ASSUME TypeOK, NEW ids \in SUBSET DOMAIN options,
           NEW s \in {EXPIRED, CANCELLED},
           \A id \in ids : Live(options[id]), NEW t \in Tokens
    PROVE  /\ WithStatus(ids, s) \in [0 .. nextId - 1 -> Option]
           /\ LockedIn(WithStatus(ids, s), nextId, t) =
                Locked(t) - BatchTotal(ids, t, Collaterals)
<1> DEFINE new == WithStatus(ids, s)
           f == [id \in 0 .. nextId - 1 |-> LockedBy(new[id], t)]
           g == [id \in DOMAIN options |->
                   IF id \in ids /\ CollateralToken(options[id]) = t
                   THEN Collaterals[id] ELSE 0]
           h == [id \in 0 .. nextId - 1 |-> LockedBy(options[id], t)]
<1>1. nextId \in Nat /\ DOMAIN options = 0 .. nextId - 1
  BY Basics DEF TypeOK
<1>2. ASSUME NEW id \in 0 .. nextId - 1
      PROVE  /\ new[id] \in Option
             /\ LockedBy(new[id], t) \in Nat
             /\ LockedBy(options[id], t) \in Nat
             /\ g[id] \in Nat
             /\ LockedBy(options[id], t) = LockedBy(new[id], t) + g[id]
  <2>1. options[id] \in Option /\ LockedBy(options[id], t) \in Nat
    BY <1>1, Basics, LockedByNat
  <2>2. CASE id \in ids
    <3>1. new[id] = [options[id] EXCEPT !.status = s]
      BY <1>1, <2>2 DEF WithStatus
    <3>2. /\ [options[id] EXCEPT !.status = s] \in Option
          /\ LockedBy([options[id] EXCEPT !.status = s], t) = 0
      <4>1. id \in DOMAIN options /\ s \in {EXERCISED, EXPIRED, CANCELLED}
        BY <1>1
      <4> QED BY <4>1, ClosedRecord
    <3>3. Live(options[id]) /\ Collaterals[id] = Collateral(options[id])
      BY <1>1, <2>2 DEF Collaterals
    <3>4. LockedBy(options[id], t) = g[id]
      BY <1>1, <2>2, <3>3 DEF LockedBy
    <3> HIDE DEF g, new
    <3> QED BY <2>1, <3>1, <3>2, <3>4
  <2>3. CASE id \notin ids
    <3>1. new[id] = options[id]
      BY <1>1, <2>3 DEF WithStatus
    <3>2. g[id] = 0
      BY <1>1, <2>3
    <3> HIDE DEF g, new
    <3> QED BY <2>1, <3>1, <3>2
  <2> QED BY <2>2, <2>3
<1>3. new \in [0 .. nextId - 1 -> Option]
  <2>1. new = [id \in 0 .. nextId - 1 |-> new[id]]
    BY <1>1 DEF WithStatus
  <2> HIDE DEF new
  <2> QED BY <1>2, <2>1
<1>4. /\ f \in [0 .. nextId - 1 -> Int] /\ h \in [0 .. nextId - 1 -> Int]
      /\ g \in [0 .. nextId - 1 -> Int]
      /\ \A i \in 0 .. nextId - 1 : h[i] = f[i] + g[i]
  <2>1. g = [i \in 0 .. nextId - 1 |-> g[i]]
    BY <1>1
  <2> HIDE DEF new, g
  <2> QED BY <1>2, <2>1
<1>5. /\ LockedIn(new, nextId, t) = SumUpTo(f, nextId)
      /\ Locked(t) = SumUpTo(h, nextId)
      /\ BatchTotal(ids, t, Collaterals) = SumUpTo(g, nextId)
  <2> HIDE DEF new
  <2> QED BY DEF LockedIn, Locked, BatchTotal
<1> HIDE DEF f, g, h, new
<1>6. SumUpTo(h, nextId) = SumUpTo(f, nextId) + SumUpTo(g, nextId)
  BY <1>1, <1>4, SumAdd
<1>7. SumUpTo(f, nextId) \in Int /\ SumUpTo(g, nextId) \in Int
  BY <1>1, <1>4, SumType
<1> QED BY <1>3, <1>5, <1>6, <1>7 DEF new

(* A batch of live options is closed and the pool pays out their total,    *)
(* getting back at most a fee.                                             *)
LEMMA BatchStep ==
    ASSUME TypeOK, NEW ids \in SUBSET DOMAIN options,
           NEW s \in {EXPIRED, CANCELLED},
           \A id \in ids : Live(options[id]),
           options' = WithStatus(ids, s),
           block' = block, nextId' = nextId, feeRecipient' = feeRecipient,
           balance' \in [Tokens -> Ledgers],
           \A t \in Tokens :
              LET drop == BatchTotal(ids, t, Collaterals)
              IN  /\ balance'[t][Pool] >= balance[t][Pool] - drop
                  /\ feeRecipient # Pool =>
                       balance'[t][Pool] = balance[t][Pool] - drop
    PROVE  TypeOK' /\ \A t \in Tokens : EscrowStep(t)
<1>1. TypeOK'
  <2>1. options' \in [0 .. nextId - 1 -> Option]
    <3>1. Underlying \in Tokens
      BY DEF Tokens
    <3> QED BY <3>1, BatchReleases
  <2> QED BY <2>1 DEF TypeOK, Ledgers
<1>2. ASSUME NEW t \in Tokens PROVE EscrowStep(t)
  <2> DEFINE drop == BatchTotal(ids, t, Collaterals)
  <2>1. Locked(t)' = Locked(t) - drop
    <3>1. LockedIn(options', nextId, t) = Locked(t) - drop
      BY BatchReleases
    <3> QED BY <3>1 DEF Locked
  <2>2. drop \in Nat
    BY BatchTotalNat, AmountTypes
  <2>3. Locked(t) \in Nat /\ balance[t][Pool] \in Nat
    BY LockedNat
  <2>4. balance'[t][Pool] \in Nat
    BY Basics DEF Ledgers
  <2>5. /\ balance'[t][Pool] >= balance[t][Pool] - drop
        /\ feeRecipient # Pool => balance'[t][Pool] = balance[t][Pool] - drop
    OBVIOUS
  <2> HIDE DEF drop
  <2> QED BY <2>1, <2>2, <2>3, <2>4, <2>5 DEF EscrowStep, Surplus
<1> QED BY <1>1, <1>2

(* batchCancel. *)
LEMMA BatchCancelStep ==
    ASSUME TypeOK, NEW w \in Users, NEW ids \in SUBSET DOMAIN options,
           BatchCancel(w, ids)
    PROVE  TypeOK' /\ \A t \in Tokens : EscrowStep(t)
<1> DEFINE total(t) == BatchTotal(ids, t, Collaterals)
           fees(t)  == BatchTotal(ids, t, CancelFees)
           mid(t)   == Moved(balance[t], Pool, w, total(t) - fees(t))
           end(t)   == Moved(mid(t), Pool, feeRecipient, fees(t))
<1>1. /\ \A id \in ids : Live(options[id])
      /\ \A t \in Tokens : Affords(balance, t, Pool, total(t))
      /\ options' = WithStatus(ids, CANCELLED)
      /\ balance' = [t \in Tokens |-> end(t)]
      /\ block' = block /\ nextId' = nextId /\ feeRecipient' = feeRecipient
  BY DEF BatchCancel, Live, CanBatchCancel, MayCancel
<1>2. /\ w \in Addresses /\ w # Pool /\ Pool \in Addresses
      /\ feeRecipient \in Addresses
  BY Basics, AddressAssumption DEF Addresses
<1>3. ASSUME NEW t \in Tokens
      PROVE  /\ end(t) \in Ledgers
             /\ end(t)[Pool] = balance[t][Pool] - total(t)
                  + (IF feeRecipient = Pool THEN fees(t) ELSE 0)
             /\ total(t) \in Nat /\ fees(t) \in Nat
  <2>1. /\ total(t) \in Nat /\ fees(t) \in Nat /\ fees(t) <= total(t)
    BY AmountTypes, BatchTotalNat, BatchFeesBounded
  <2>2. balance[t] \in Ledgers /\ balance[t][Pool] \in Nat
    BY Basics, LockedNat
  <2>3. balance[t][Pool] >= total(t)
    BY <1>1 DEF Affords, CanPay
  <2> HIDE DEF total, fees
  <2>4. /\ CanPay(balance[t], Pool, total(t) - fees(t))
        /\ total(t) - fees(t) \in Nat
    BY <2>1, <2>2, <2>3 DEF CanPay
  <2>5. /\ mid(t) \in Ledgers
        /\ \A a \in Addresses : mid(t)[a] =
             balance[t][a] - (IF a = Pool THEN total(t) - fees(t) ELSE 0)
                           + (IF a = w THEN total(t) - fees(t) ELSE 0)
    BY <1>2, <2>2, <2>4, MovedFacts
  <2> HIDE DEF mid
  <2>6. mid(t)[Pool] = balance[t][Pool] - (total(t) - fees(t))
    BY <1>2, <2>1, <2>2, <2>5
  <2>7. CanPay(mid(t), Pool, fees(t))
    BY <2>1, <2>2, <2>3, <2>6 DEF CanPay
  <2>8. /\ end(t) \in Ledgers
        /\ \A a \in Addresses : end(t)[a] =
             mid(t)[a] - (IF a = Pool THEN fees(t) ELSE 0)
                       + (IF a = feeRecipient THEN fees(t) ELSE 0)
    BY <1>2, <2>1, <2>5, <2>7, MovedFacts
  <2> QED BY <1>2, <2>1, <2>2, <2>6, <2>8
<1> HIDE DEF end, mid, total, fees
<1>4. balance' \in [Tokens -> Ledgers]
  BY <1>1, <1>3
<1>5. ASSUME NEW t \in Tokens
      PROVE  /\ balance'[t][Pool] >= balance[t][Pool] - total(t)
             /\ feeRecipient # Pool =>
                  balance'[t][Pool] = balance[t][Pool] - total(t)
  <2>1. balance'[t] = end(t) /\ balance[t][Pool] \in Nat
    BY <1>1, LockedNat
  <2> QED BY <1>3, <2>1
<1> QED BY <1>1, <1>4, <1>5, BatchStep DEF total

(* batchSettle. *)
LEMMA BatchSettleStep ==
    ASSUME TypeOK, NEW ids, BatchSettle(ids)
    PROVE  TypeOK' /\ \A t \in Tokens : EscrowStep(t)
<1> DEFINE due == {id \in ids : CanSettle(id)}
           total(t) == BatchTotal(due, t, Collaterals)
<1>1. /\ due \in SUBSET DOMAIN options
      /\ \A id \in due : Live(options[id])
  BY DEF CanSettle, Exists, Live
<1>2. /\ \A t \in Tokens : Affords(balance, t, Pool, total(t))
      /\ options' = WithStatus(due, EXPIRED)
      /\ balance' = [t \in Tokens |-> [a \in Addresses |->
            IF a = Pool THEN balance[t][a] - total(t)
                        ELSE balance[t][a] + SettledTo(due, t, a)]]
      /\ block' = block /\ nextId' = nextId /\ feeRecipient' = feeRecipient
  BY DEF BatchSettle
<1> HIDE DEF due
<1>3. ASSUME NEW t \in Tokens, NEW a \in Addresses
      PROVE  /\ total(t) \in Nat /\ SettledTo(due, t, a) \in Nat
             /\ balance[t][a] \in Nat /\ balance[t][Pool] >= total(t)
  <2>1. total(t) \in Nat /\ SettledTo(due, t, a) \in Nat
    BY AmountTypes, BatchTotalNat DEF SettledTo
  <2>2. balance[t][a] \in Nat
    BY Basics DEF Ledgers
  <2>3. balance[t][Pool] >= total(t)
    BY <1>2 DEF Affords, CanPay
  <2> QED BY <2>1, <2>2, <2>3
<1>4. Pool \in Addresses
  BY Basics
<1> HIDE DEF total
<1>5. balance' \in [Tokens -> Ledgers]
  <2>1. ASSUME NEW t \in Tokens, NEW a \in Addresses
        PROVE  (IF a = Pool THEN balance[t][a] - total(t)
                            ELSE balance[t][a] + SettledTo(due, t, a)) \in Nat
    BY <1>3
  <2> QED BY <1>2, <2>1 DEF Ledgers
<1>6. ASSUME NEW t \in Tokens
      PROVE  balance'[t][Pool] = balance[t][Pool] - total(t)
             /\ balance'[t][Pool] \in Nat
  BY <1>2, <1>3, <1>4
<1> QED BY <1>1, <1>2, <1>5, <1>6, BatchStep DEF total

-----------------------------------------------------------------------------
(* Every step, and the theorems. *)

(* No step breaks the types or takes escrowed collateral out of the pool   *)
(* without closing the option it belongs to.                               *)
LEMMA NextStep ==
    ASSUME TypeOK, [Next]_vars
    PROVE  TypeOK' /\ \A t \in Tokens : EscrowStep(t)
<1>1. CASE UNCHANGED vars
  BY <1>1, QuietStep DEF vars, TypeOK
<1>2. CASE NextBlock
  BY <1>2, QuietStep DEF NextBlock, TypeOK
<1>3. CASE Permissionless
  BY <1>3, SettleStep, BatchSettleStep DEF Permissionless
<1>4. ASSUME NEW u \in Users, SignedBy(u)
      PROVE  TypeOK' /\ \A t \in Tokens : EscrowStep(t)
  <2>1. CASE \E type \in OptionTypes, k \in Strikes, a \in Amounts,
                p \in Premiums, e \in Expiries : WriteOption(u, type, k, a, p, e)
    BY <2>1, WriteStep DEF Expiries
  <2>2. CASE \E id \in DOMAIN options : CancelOption(u, id)
    BY <2>2, CancelStep
  <2>3. CASE \E id \in DOMAIN options : BuyOption(u, id)
    BY <2>3, BuyStep
  <2>4. CASE \E id \in DOMAIN options : Exercise(u, id)
    BY <2>4, ExerciseStep
  <2>5. CASE \E id \in DOMAIN options, new \in Addresses :
                TransferOption(u, id, new)
    BY <2>5, TransferStep
  <2>6. CASE \E id \in DOMAIN options, k \in Strikes, e \in Expiries,
                p \in Premiums : RollOption(u, id, k, e, p)
    BY <2>6, RollStep DEF Expiries
  <2>7. CASE \E ids \in SUBSET DOMAIN options : BatchCancel(u, ids)
    BY <2>7, BatchCancelStep
  <2>8. CASE \E new \in FeeRecipients : UpdateFeeRecipient(u, new)
    BY <2>8, QuietStep, AddressAssumption DEF UpdateFeeRecipient, TypeOK
  <2> QED BY <1>4, <2>1, <2>2, <2>3, <2>4, <2>5, <2>6, <2>7, <2>8 DEF SignedBy
<1> QED BY <1>1, <1>2, <1>3, <1>4 DEF Next

(* At deployment the pool holds nothing and owes nothing. *)
LEMMA InitState ==
    ASSUME Init
    PROVE  /\ TypeOK
           /\ feeRecipient \in FeeRecipients
           /\ \A t \in Tokens : Surplus(t) = 0
<1>1. TypeOK
  <2>1. feeRecipient \in Addresses
    BY AddressAssumption DEF Init
  <2>2. options \in [0 .. nextId - 1 -> Option]
    BY DEF Init
  <2> QED BY <2>1, <2>2, BoundAssumption DEF Init, TypeOK
<1>2. ASSUME NEW t \in Tokens PROVE Surplus(t) = 0
  <2>1. nextId = 0 /\ balance[t][Pool] = 0
    BY DEF Init, Addresses
  <2>2. Locked(t) = 0
    <3> DEFINE f == [id \in 0 .. nextId - 1 |-> LockedBy(options[id], t)]
    <3>1. f \in [0 .. -1 -> Int]
      BY <2>1
    <3>2. SumUpTo(f, 0) = 0
      <4> HIDE DEF f
      <4> QED BY <3>1, SumEmpty
    <3> QED BY <2>1, <3>2 DEF Locked, LockedIn
  <2> QED BY <2>1, <2>2 DEF Surplus
<1> QED BY <1>1, <1>2 DEF Init

(* The variables keep their types, whatever the constants. *)
THEOREM TypeCorrect == Spec => []TypeOK
<1>1. Init => TypeOK
  BY InitState
<1>2. TypeOK /\ [Next]_vars => TypeOK'
  BY NextStep
<1> QED BY <1>1, <1>2, PTL DEF Spec

(* A nonnegative surplus is solvency, a zero surplus is no dust. *)
LEMMA SurplusMeaning ==
    ASSUME TypeOK, NEW t \in Tokens
    PROVE  /\ Surplus(t) \in Int
           /\ (Surplus(t) >= 0) <=> (balance[t][Pool] >= Locked(t))
           /\ (Surplus(t) = 0) <=> (balance[t][Pool] = Locked(t))
BY LockedNat DEF Surplus

(* Solvency: in every reachable state of every instance the pool holds the *)
(* collateral of all live options.                                         *)
THEOREM PoolSolvent == Spec => []Solvent
<1>1. Init => Solvent
  <2> SUFFICES ASSUME Init, NEW t \in Tokens
               PROVE  balance[t][Pool] >= Locked(t)
    BY DEF Solvent
  <2> QED BY InitState, SurplusMeaning
<1>2. TypeOK /\ TypeOK' /\ Solvent /\ [Next]_vars => Solvent'
  <2> SUFFICES ASSUME TypeOK, TypeOK', Solvent, [Next]_vars, NEW t \in Tokens
               PROVE  (balance[t][Pool] >= Locked(t))'
    BY DEF Solvent
  <2>1. Surplus(t) \in Int /\ Surplus(t) >= 0
    BY SurplusMeaning DEF Solvent
  <2>2. Surplus(t)' >= Surplus(t)
    BY NextStep DEF EscrowStep
  <2>3. Locked(t)' \in Nat /\ (balance[t][Pool])' \in Nat
    <3>1. Locked(t)' \in Nat
      BY LockedType DEF TypeOK, Locked
    <3> QED BY <3>1, AddressAssumption DEF TypeOK, Addresses
  <2> QED BY <2>1, <2>2, <2>3 DEF Surplus
<1> QED BY <1>1, <1>2, TypeCorrect, PTL DEF Spec

(* The inductive invariant of NothingStranded: the fee role only goes to   *)
(* FeeRecipients, so when the pool is not among them no fee ever comes     *)
(* back to it and the surplus stays zero.                                  *)
Exact ==
    /\ TypeOK
    /\ feeRecipient \in FeeRecipients
    /\ Pool \notin FeeRecipients => \A t \in Tokens : Surplus(t) = 0

(* No dust: fees and rounding never leave unclaimable tokens in the pool.  *)
THEOREM PoolKeepsNoDust == Spec => []NothingStranded
<1>1. Init => Exact
  BY InitState DEF Exact
<1>2. Exact /\ [Next]_vars => Exact'
  <2> SUFFICES ASSUME Exact, [Next]_vars PROVE Exact'
    OBVIOUS
  <2>1. TypeOK' /\ \A t \in Tokens : EscrowStep(t)
    BY NextStep DEF Exact
  <2>2. feeRecipient' \in FeeRecipients
    <3>1. CASE UNCHANGED vars  BY <3>1 DEF vars, Exact
    <3>2. CASE NextBlock       BY <3>2 DEF NextBlock, Exact
    <3>3. CASE Permissionless
      BY <3>3 DEF Permissionless, Settle, BatchSettle, Exact
    <3>4. ASSUME NEW u \in Users, SignedBy(u)
          PROVE  feeRecipient' \in FeeRecipients
      <4>1. CASE \E new \in FeeRecipients : UpdateFeeRecipient(u, new)
        BY <4>1 DEF UpdateFeeRecipient
      <4>2. CASE ~ \E new \in FeeRecipients : UpdateFeeRecipient(u, new)
        <5>1. feeRecipient' = feeRecipient
          <6>1. \A type, k, a, p, e :
                   WriteOption(u, type, k, a, p, e) => feeRecipient' = feeRecipient
            BY DEF WriteOption
          <6>2. \A id, k, e, p :
                   RollOption(u, id, k, e, p) => feeRecipient' = feeRecipient
            BY DEF RollOption
          <6>3. \A id, new :
                   CancelOption(u, id) \/ BuyOption(u, id) \/ Exercise(u, id)
                     \/ TransferOption(u, id, new)
                   => feeRecipient' = feeRecipient
            BY DEF CancelOption, BuyOption, Exercise, TransferOption
          <6>4. \A ids : BatchCancel(u, ids) => feeRecipient' = feeRecipient
            BY DEF BatchCancel
          <6> QED BY <3>4, <4>2, <6>1, <6>2, <6>3, <6>4 DEF SignedBy
        <5> QED BY <5>1 DEF Exact
      <4> QED BY <4>1, <4>2
    <3> QED BY <3>1, <3>2, <3>3, <3>4 DEF Next
  <2>3. ASSUME Pool \notin FeeRecipients, NEW t \in Tokens
        PROVE  Surplus(t)' = 0
    BY <2>1, <2>3 DEF Exact, EscrowStep
  <2> QED BY <2>1, <2>2, <2>3 DEF Exact
<1>3. Exact => NothingStranded
  BY SurplusMeaning DEF Exact, NothingStranded
<1> QED BY <1>1, <1>2, <1>3, PTL DEF Spec

-----------------------------------------------------------------------------
(* The pool implements the lifecycle. *)

USE DEF Lifecycle!OPEN, Lifecycle!PURCHASED, Lifecycle!EXERCISED,
        Lifecycle!EXPIRED, Lifecycle!CANCELLED, Lifecycle!RESERVED

(* The record o becomes n along one edge of the lifecycle. *)
Advances(o, n) ==
    /\ Terms(n) = Terms(o)
    /\ \/ /\ o.status = OPEN /\ n.status = CANCELLED
          /\ n.buyer = o.buyer
       \/ /\ o.status = OPEN /\ n.status = PURCHASED
          /\ block < o.expiryBlock
          /\ n.buyer \notin {NoOne, o.writer}
       \/ /\ o.status = PURCHASED /\ n.status = PURCHASED
          /\ block < GraceEnd(o)
          /\ n.buyer \notin {NoOne, o.buyer}
       \/ /\ o.status = PURCHASED /\ n.status = EXERCISED
          /\ o.expiryBlock <= block /\ block < GraceEnd(o)
          /\ n.buyer = o.buyer
       \/ /\ o.status = PURCHASED /\ n.status = EXPIRED
          /\ GraceEnd(o) <= block
          /\ n.buyer = o.buyer

OnOffer(o) == o.status = OPEN /\ o.buyer = NoOne /\ block < o.expiryBlock

(* What a transaction does to the records, as the lifecycle sees it. *)
Continues ==
    /\ block' = block
    /\ DOMAIN options \subseteq DOMAIN options'
    /\ \A id \in DOMAIN options :
          options'[id] = options[id] \/ Advances(options[id], options'[id])
    /\ \A id \in DOMAIN options' \ DOMAIN options : OnOffer(options'[id])

(* An edge of the records is a legal move of the abstract book. *)
LEMMA AdvanceIsLegal ==
    ASSUME NEW id \in DOMAIN options, id \in DOMAIN options',
           Advances(options[id], options'[id])
    PROVE  Lifecycle!LegalMove(id)
<1> DEFINE o == options[id]
           n == options'[id]
           then == [i \in DOMAIN options |-> Entry(options[i])]
           now  == [i \in DOMAIN options' |-> Entry(options'[i])]
<1>1. /\ then[id] = Entry(o) /\ now[id] = Entry(n)
      /\ Entry(o).status = o.status /\ Entry(n).status = n.status
      /\ Entry(o).holder = o.buyer /\ Entry(n).holder = n.buyer
      /\ Entry(o).terms = Terms(o) /\ Entry(n).terms = Terms(n)
      /\ Terms(o).expiryBlock = o.expiryBlock
      /\ Terms(o).writer = o.writer
  BY DEF Entry, Terms
<1>2. Terms(n) = Terms(o)
  BY DEF Advances
<1> QED
  BY <1>1, <1>2
     DEF Advances, GraceEnd, Lifecycle!LegalMove, Lifecycle!Withdraw,
         Lifecycle!Sell, Lifecycle!Assign, Lifecycle!Exercise,
         Lifecycle!Lapse, Lifecycle!Moves, Lifecycle!KeepsHolder,
         Lifecycle!NewHolder, Lifecycle!Expiry, Lifecycle!GraceEnd

(* A transaction that continues the records is one of the lifecycle's. *)
LEMMA ContinuesIsTransact ==
    ASSUME Continues
    PROVE  Lifecycle!Transact
<1> DEFINE then == [i \in DOMAIN options |-> Entry(options[i])]
           now  == [i \in DOMAIN options' |-> Entry(options'[i])]
<1>1. DOMAIN then = DOMAIN options /\ DOMAIN now = DOMAIN options'
  OBVIOUS
<1>2. ASSUME NEW id \in DOMAIN options
      PROVE  now[id] = then[id] \/ Lifecycle!LegalMove(id)
  BY AdvanceIsLegal DEF Continues
<1>3. ASSUME NEW id \in DOMAIN options' \ DOMAIN options
      PROVE  Lifecycle!Listed(id)
  <2>1. OnOffer(options'[id])
    BY DEF Continues
  <2>2. now[id] = Entry(options'[id])
    OBVIOUS
  <2> QED BY <2>1, <2>2 DEF OnOffer, Entry, Terms, Lifecycle!Listed
<1> QED
  BY <1>1, <1>2, <1>3 DEF Continues, Lifecycle!Transact, Lifecycle!Ids
(* One record replaced. *)
LEMMA OneAdvances ==
    ASSUME NEW id \in DOMAIN options, NEW n,
           options' = [options EXCEPT ![id] = n],
           Advances(options[id], n), block' = block
    PROVE  Continues
<1>1. DOMAIN options' = DOMAIN options
  OBVIOUS
<1>2. options'[id] = n /\ \A i \in DOMAIN options : i # id => options'[i] = options[i]
  OBVIOUS
<1> QED BY <1>1, <1>2 DEF Continues

(* One record closed, with the conditions the methods check. *)
LEMMA OneCloses ==
    ASSUME TypeOK, NEW id \in DOMAIN options, NEW s,
           options' = [options EXCEPT ![id].status = s], block' = block,
           \/ options[id].status = OPEN /\ s = CANCELLED
           \/ /\ options[id].status = PURCHASED /\ s = EXERCISED
              /\ options[id].expiryBlock <= block /\ block < GraceEnd(options[id])
           \/ /\ options[id].status = PURCHASED /\ s = EXPIRED
              /\ GraceEnd(options[id]) <= block
    PROVE  Continues
<1> DEFINE n == [options[id] EXCEPT !.status = s]
<1>1. options[id] \in Option
  BY Basics
<1>2. options' = [options EXCEPT ![id] = n]
  OBVIOUS
<1>3. n.status = s /\ n.buyer = options[id].buyer /\ Terms(n) = Terms(options[id])
  BY <1>1 DEF Option, Terms
<1>4. Advances(options[id], n)
  BY <1>3 DEF Advances
<1> HIDE DEF n
<1> QED BY <1>2, <1>4, OneAdvances

(* buyOption and every other sale: a buyer other than the writer. *)
LEMMA SaleContinues ==
    ASSUME TypeOK, NEW id \in DOMAIN options, NEW u \in Users,
           options' = [options EXCEPT ![id].buyer = u, ![id].status = PURCHASED],
           block' = block,
           options[id].status = OPEN, block < options[id].expiryBlock,
           u # options[id].writer
    PROVE  Continues
<1> DEFINE n == [options[id] EXCEPT !.buyer = u, !.status = PURCHASED]
<1>1. options[id] \in Option /\ u # NoOne
  BY Basics, AddressAssumption DEF Addresses
<1>2. options' = [options EXCEPT ![id] = n]
  OBVIOUS
<1>3. n.status = PURCHASED /\ n.buyer = u /\ Terms(n) = Terms(options[id])
  BY <1>1 DEF Option, Terms
<1>4. Advances(options[id], n)
  BY <1>1, <1>3 DEF Advances
<1> HIDE DEF n
<1> QED BY <1>2, <1>4, OneAdvances

(* transferOption: a purchased option changes hands. *)
LEMMA TransferContinues ==
    ASSUME TypeOK, NEW u, NEW id, NEW new \in Addresses,
           TransferOption(u, id, new)
    PROVE  Continues
<1> DEFINE n == [options[id] EXCEPT !.buyer = new]
<1>1. /\ id \in DOMAIN options /\ options[id].status = PURCHASED
      /\ block < GraceEnd(options[id]) /\ new # options[id].buyer
      /\ options' = [options EXCEPT ![id] = n] /\ block' = block
  BY DEF TransferOption, Exists, MayTransfer
<1>2. options[id] \in Option /\ new # NoOne
  BY <1>1, Basics, AddressAssumption
<1>3. /\ n.status = PURCHASED /\ n.buyer = new
      /\ Terms(n) = Terms(options[id])
  BY <1>1, <1>2 DEF Option, Terms
<1>4. Advances(options[id], n)
  BY <1>1, <1>2, <1>3 DEF Advances
<1> HIDE DEF n
<1> QED BY <1>1, <1>4, OneAdvances

(* writeOption, whatever the collateral: a new record, on offer. *)
LEMMA WriteContinues ==
    ASSUME TypeOK, NEW w, NEW type, NEW k, NEW a, NEW p, NEW e,
           ExpiryInRange(e), block' = block,
           options' = Extended(options, NewOption(w, type, k, a, p, e))
    PROVE  Continues
<1> DEFINE o == NewOption(w, type, k, a, p, e)
<1>1. OnOffer(o)
  BY DEF OnOffer, NewOption, ExpiryInRange
<1> HIDE DEF o
<1>2. DOMAIN options = 0 .. nextId - 1 /\ nextId \in Nat
  BY Basics DEF TypeOK
<1>3. /\ DOMAIN options' = 0 .. nextId /\ options'[nextId] = o
      /\ \A i \in 0 .. nextId - 1 : options'[i] = options[i]
  BY <1>2 DEF Extended, o
<1> QED BY <1>1, <1>2, <1>3 DEF Continues

(* rollOption: one record cancelled and one on offer. *)
LEMMA RollContinues ==
    ASSUME TypeOK, NEW w, NEW id, NEW k, NEW e, NEW p,
           RollOption(w, id, k, e, p)
    PROVE  Continues
<1> DEFINE old == options[id]
           new == NewOption(w, old.optionType, k, old.underlyingAmount, p, e)
           n == [old EXCEPT !.status = CANCELLED]
           mid == [options EXCEPT ![id].status = CANCELLED]
<1>1. /\ id \in DOMAIN options /\ old.status = OPEN /\ block' = block
      /\ ExpiryInRange(e) /\ options' = Extended(mid, new)
  BY DEF RollOption, Exists, MayCancel
<1>2. DOMAIN options = 0 .. nextId - 1 /\ nextId \in Nat /\ old \in Option
  BY <1>1, Basics DEF TypeOK
<1>3. OnOffer(new)
  BY <1>1 DEF OnOffer, NewOption, ExpiryInRange
<1>4. Advances(old, n)
  BY <1>1, <1>2 DEF Option, Terms, Advances
<1>5. /\ mid[id] = n
      /\ \A i \in 0 .. nextId - 1 : i # id => mid[i] = options[i]
  BY <1>1, <1>2
<1> HIDE DEF old, new, n, mid
<1>6. /\ DOMAIN options' = 0 .. nextId /\ options'[nextId] = new
      /\ \A i \in 0 .. nextId - 1 : options'[i] = mid[i]
  BY <1>1, <1>2 DEF Extended
<1> QED BY <1>1, <1>2, <1>3, <1>4, <1>5, <1>6 DEF Continues, old

(* The batches: each of their records closed on its own conditions. *)
LEMMA BatchContinues ==
    ASSUME TypeOK, NEW ids, NEW s, block' = block,
           options' = WithStatus(ids, s),
           \A id \in ids \cap DOMAIN options :
              \/ options[id].status = OPEN /\ s = CANCELLED
              \/ CanSettle(id) /\ s = EXPIRED
    PROVE  Continues
<1>1. DOMAIN options' = DOMAIN options
  BY DEF WithStatus
<1>2. ASSUME NEW id \in DOMAIN options
      PROVE  options'[id] = options[id] \/ Advances(options[id], options'[id])
  <2>1. CASE id \notin ids
    BY <2>1 DEF WithStatus
  <2>2. CASE id \in ids
    <3> DEFINE n == [options[id] EXCEPT !.status = s]
    <3>1. options'[id] = n /\ options[id] \in Option
      BY <2>2, Basics DEF WithStatus
    <3>2. /\ n.status = s /\ n.buyer = options[id].buyer
          /\ Terms(n) = Terms(options[id])
      BY <3>1 DEF Option, Terms
    <3>3. Advances(options[id], n)
      BY <2>2, <3>2 DEF Advances, CanSettle
    <3> QED BY <3>1, <3>3
  <2> QED BY <2>1, <2>2
<1> QED BY <1>1, <1>2 DEF Continues

(* Every transaction of a user. *)
LEMMA SignedContinues ==
    ASSUME TypeOK, NEW u \in Users, SignedBy(u)
    PROVE  Continues
<1>1. CASE \E type \in OptionTypes, k \in Strikes, a \in Amounts,
              p \in Premiums, e \in Expiries : WriteOption(u, type, k, a, p, e)
  BY <1>1, WriteContinues DEF WriteOption
<1>2. CASE \E id \in DOMAIN options : CancelOption(u, id)
  BY <1>2, OneCloses DEF CancelOption, SetStatus, MayCancel
<1>3. CASE \E id \in DOMAIN options : BuyOption(u, id)
  BY <1>3, SaleContinues DEF BuyOption, CanBuy, MayBuy
<1>4. CASE \E id \in DOMAIN options : Exercise(u, id)
  BY <1>4, OneCloses DEF Exercise, SetStatus, MayExercise
<1>5. CASE \E id \in DOMAIN options, new \in Addresses :
              TransferOption(u, id, new)
  BY <1>5, TransferContinues
<1>6. CASE \E id \in DOMAIN options, k \in Strikes, e \in Expiries,
              p \in Premiums : RollOption(u, id, k, e, p)
  BY <1>6, RollContinues
<1>7. CASE \E ids \in SUBSET DOMAIN options : BatchCancel(u, ids)
  BY <1>7, BatchContinues DEF BatchCancel, CanBatchCancel, MayCancel
<1>8. CASE \E new \in FeeRecipients : UpdateFeeRecipient(u, new)
  BY <1>8 DEF UpdateFeeRecipient, Continues
<1> QED
  BY <1>1, <1>2, <1>3, <1>4, <1>5, <1>6, <1>7, <1>8 DEF SignedBy

(* A new block is the lifecycle's tick. *)
LEMMA BlockTicks ==
    ASSUME NextBlock
    PROVE  Lifecycle!Tick
BY DEF NextBlock, Lifecycle!Tick

(* The pool's moves are the lifecycle's: exercise and settlement never     *)
(* overlap, terminal statuses are final, terms are frozen, and an option   *)
(* is sold once, to somebody other than its writer.                        *)
THEOREM PoolImplementsLifecycle == Spec => ImplementsLifecycle
<1>1. Init => Lifecycle!Init
  <2> SUFFICES ASSUME Init PROVE Lifecycle!Init
    OBVIOUS
  <2>1. block \in Nat /\ DOMAIN options = {}
    BY DEF Init
  <2> QED BY <2>1 DEF Lifecycle!Init
<1>2. TypeOK /\ [Next]_vars => [Lifecycle!Next]_(Lifecycle!lifecycleVars)
  <2> SUFFICES ASSUME TypeOK, [Next]_vars
               PROVE  [Lifecycle!Next]_(Lifecycle!lifecycleVars)
    OBVIOUS
  <2>1. CASE UNCHANGED vars
    BY <2>1 DEF vars, Lifecycle!lifecycleVars
  <2>2. CASE NextBlock
    BY <2>2, BlockTicks DEF Lifecycle!Next
  <2>3. ASSUME NEW id \in DOMAIN options, Settle(id) PROVE Continues
    BY <2>3, OneCloses DEF Settle, SetStatus, CanSettle
  <2>4. ASSUME NEW ids, BatchSettle(ids) PROVE Continues
    BY <2>4, BatchContinues DEF BatchSettle
  <2>5. CASE Continues
    BY <2>5, ContinuesIsTransact DEF Lifecycle!Next
  <2> QED
    BY <2>1, <2>2, <2>3, <2>4, <2>5, SignedContinues DEF Next, Permissionless
<1> QED
  BY <1>1, <1>2, TypeCorrect, PTL DEF Spec, ImplementsLifecycle, Lifecycle!Spec

-----------------------------------------------------------------------------
(* Writers are made whole.  The difference a step makes to u's stake in    *)
(* token t is his balance's difference, plus what an option written in the *)
(* step locks, less what the step owes him for each earlier option.        *)

OwnBy(o, u, t) == IF o.writer = u THEN LockedBy(o, t) ELSE 0

FeeBy(o, n, u, t) ==
    IF /\ o.writer = u
       /\ o.status = OPEN /\ n.status = CANCELLED
       /\ CollateralToken(o) = t
    THEN CancelFee(o) ELSE 0

EffectBy(o, n, u, t) ==
    IF o.writer = u /\ o.status = PURCHASED /\ n.status = EXERCISED
    THEN Delivered(o, t) - Surrendered(o, t) ELSE 0

(* What u must be paid in token t when the record o becomes n. *)
Owed(o, n, u, t) ==
    OwnBy(o, u, t) - OwnBy(n, u, t) - FeeBy(o, n, u, t) + EffectBy(o, n, u, t)

OwedInAll(u, t) ==
    SumUpTo([id \in DOMAIN options |-> Owed(options[id], options'[id], u, t)],
            nextId)

(* What u locks in an option this step writes. *)
Opened(u, t) == IF nextId' = nextId THEN 0 ELSE OwnBy(options'[nextId], u, t)

(* The step pays u what it owes him, and for what he locks. *)
Paid(u, t) == balance'[t][u] + Opened(u, t) >= balance[t][u] + OwedInAll(u, t)

Whole(u, t) == ~PaysAsHolder(u) => Paid(u, t)

(* The parts of a due are integers. *)
LEMMA OwedType ==
    ASSUME NEW o \in Option, NEW n \in Option, block \in Nat, NEW u, NEW t
    PROVE  /\ OwnBy(o, u, t) \in Nat
           /\ FeeBy(o, n, u, t) \in Int
           /\ EffectBy(o, n, u, t) \in Int
           /\ Owed(o, n, u, t) \in Int
<1>1. OwnBy(o, u, t) \in Nat /\ OwnBy(n, u, t) \in Nat
  BY LockedByNat DEF OwnBy
<1>2. FeeBy(o, n, u, t) \in Int
  <2>1. CancelFee(o) \in Int
    BY CancelFeeBounds, AmountsNat
  <2> QED BY <2>1 DEF FeeBy
<1>3. EffectBy(o, n, u, t) \in Int
  <2>1. Delivered(o, t) \in Int /\ Surrendered(o, t) \in Int
    BY AmountsNat DEF Delivered, Surrendered, Option
  <2> HIDE DEF Delivered, Surrendered
  <2> QED BY <2>1 DEF EffectBy
<1> HIDE DEF OwnBy, FeeBy, EffectBy
<1> QED BY <1>1, <1>2, <1>3 DEF Owed

(* A step that pays every due makes the writer whole. *)
LEMMA StakeLaw ==
    ASSUME TypeOK, TypeOK', nextId' \in {nextId, nextId + 1},
           NEW u \in Users, NEW t \in Tokens, Paid(u, t)
    PROVE  Stake(u, t)' >= Stake(u, t) - FeesCharged(u, t)
                             + ExerciseEffect(u, t)
<1> DEFINE own == [id \in 0 .. nextId - 1 |-> OwnBy(options[id], u, t)]
           now == [id \in 0 .. nextId - 1 |-> OwnBy(options'[id], u, t)]
           fee == [id \in 0 .. nextId - 1 |->
                      FeeBy(options[id], options'[id], u, t)]
           eff == [id \in 0 .. nextId - 1 |->
                      EffectBy(options[id], options'[id], u, t)]
           due == [id \in 0 .. nextId - 1 |->
                      Owed(options[id], options'[id], u, t)]
           kept == [id \in 0 .. nextId - 1 |->
                      OwnBy(options[id], u, t)
                        + EffectBy(options[id], options'[id], u, t)]
           lost == [id \in 0 .. nextId - 1 |->
                      OwnBy(options'[id], u, t)
                        + FeeBy(options[id], options'[id], u, t)]
           all == [id \in 0 .. nextId' - 1 |-> OwnBy(options'[id], u, t)]
           Sum(f) == SumUpTo(f, nextId)
<1>1. /\ nextId \in Nat /\ nextId' \in Nat /\ block \in Nat
      /\ DOMAIN options = 0 .. nextId - 1
      /\ DOMAIN options' = 0 .. nextId' - 1
      /\ balance[t][u] \in Nat /\ balance'[t][u] \in Nat
  BY DEF TypeOK, Addresses
<1>2. ASSUME NEW id \in 0 .. nextId - 1
      PROVE  /\ OwnBy(options[id], u, t) \in Int
             /\ OwnBy(options'[id], u, t) \in Int
             /\ FeeBy(options[id], options'[id], u, t) \in Int
             /\ EffectBy(options[id], options'[id], u, t) \in Int
             /\ Owed(options[id], options'[id], u, t) \in Int
  <2>1. id \in 0 .. nextId' - 1
    <3>1. CASE nextId' = nextId
      BY <3>1
    <3>2. CASE nextId' = nextId + 1
      BY <1>1, <3>2
    <3> QED BY <3>1, <3>2
  <2>2. options[id] \in Option /\ options'[id] \in Option
    BY <2>1 DEF TypeOK
  <2> HIDE DEF own, now, fee, eff, due, kept, lost, all, Sum
  <2>3. /\ OwnBy(options[id], u, t) \in Nat
        /\ FeeBy(options[id], options'[id], u, t) \in Int
        /\ EffectBy(options[id], options'[id], u, t) \in Int
        /\ Owed(options[id], options'[id], u, t) \in Int
    BY <1>1, <2>2, OwedType
  <2>4. OwnBy(options'[id], u, t) \in Nat
    BY <1>1, <2>2, OwedType
  <2> QED BY <2>3, <2>4
<1>3. ASSUME NEW id \in 0 .. nextId' - 1
      PROVE  OwnBy(options'[id], u, t) \in Int
  <2>1. options'[id] \in Option
    BY <1>1 DEF TypeOK
  <2> QED BY <2>1, LockedByNat DEF OwnBy
<1>4. /\ OwnLocked(u, t) = Sum(own)
      /\ FeesCharged(u, t) = Sum(fee)
      /\ ExerciseEffect(u, t) = Sum(eff)
      /\ OwedInAll(u, t) = Sum(due)
  BY <1>1 DEF OwnLocked, FeesCharged, ExerciseEffect, OwedInAll, Turns,
              OwnBy, FeeBy, EffectBy
<1>5. OwnLocked(u, t)' = SumUpTo(all, nextId')
  BY <1>1 DEF OwnLocked, OwnBy
<1> DEFINE Ints == [0 .. nextId - 1 -> Int]
<1>6. /\ own \in Ints /\ now \in Ints /\ fee \in Ints /\ eff \in Ints
      /\ due \in Ints /\ kept \in Ints /\ lost \in Ints
      /\ all \in [0 .. nextId' - 1 -> Int]
  BY <1>2, <1>3
<1>7. /\ \A id \in 0 .. nextId - 1 : kept[id] = own[id] + eff[id]
      /\ \A id \in 0 .. nextId - 1 : lost[id] = now[id] + fee[id]
  OBVIOUS
<1>8. \A id \in 0 .. nextId - 1 : kept[id] = lost[id] + due[id]
  <2> HIDE DEF Owed, OwnBy, FeeBy, EffectBy
  <2> SUFFICES ASSUME NEW id \in 0 .. nextId - 1
               PROVE  OwnBy(options[id], u, t)
                        + EffectBy(options[id], options'[id], u, t)
                      = OwnBy(options'[id], u, t)
                          + FeeBy(options[id], options'[id], u, t)
                          + Owed(options[id], options'[id], u, t)
    BY <1>2
  <2> QED BY <1>2 DEF Owed
<1>9. SumUpTo(all, nextId') = Sum(now) + Opened(u, t) /\ Opened(u, t) \in Int
  <2>1. CASE nextId' = nextId
    <3>1. all = now
      BY <2>1
    <3> HIDE DEF all, now
    <3>2. Sum(now) \in Int
      BY <1>1, <1>6, SumType
    <3>3. Opened(u, t) = 0
      BY <2>1 DEF Opened
    <3>4. SumUpTo(all, nextId') = Sum(now)
      BY <2>1, <3>1
    <3> QED BY <3>2, <3>3, <3>4
  <2>2. CASE nextId' = nextId + 1
    <3>1. nextId' - 1 = nextId /\ nextId' # nextId
      BY <1>1, <2>2
    <3>2. all[nextId] = OwnBy(options'[nextId], u, t) /\ all[nextId] \in Int
      <4>1. nextId \in 0 .. nextId' - 1
        <5> HIDE DEF own, now, fee, eff, due, kept, lost, all, Ints, Sum
        <5> QED BY <1>1, <2>2
      <4> QED BY <1>3, <4>1
    <3>3. all \in [0 .. nextId -> Int]
      BY <1>6, <3>1
    <3>4. \A id \in 0 .. nextId - 1 : all[id] = now[id]
      BY <1>1, <3>1
    <3>5. now \in [0 .. nextId - 1 -> Int]
      BY <1>6
    <3> HIDE DEF own, now, fee, eff, due, kept, lost, all, Ints
    <3>6. SumUpTo(all, nextId + 1) = SumUpTo(now, nextId) + all[nextId]
      BY <1>1, <3>3, <3>4, <3>5, SumExtend
    <3> QED BY <2>2, <3>1, <3>2, <3>6 DEF Opened
  <2> QED BY <2>1, <2>2
<1> HIDE DEF own, now, fee, eff, due, kept, lost, all
<1>10. /\ Sum(kept) = Sum(own) + Sum(eff)
       /\ Sum(lost) = Sum(now) + Sum(fee)
       /\ Sum(kept) = Sum(lost) + Sum(due)
  <2>1. Sum(kept) = Sum(own) + Sum(eff)
    BY <1>1, <1>6, <1>7, SumAdd
  <2>2. Sum(lost) = Sum(now) + Sum(fee)
    BY <1>1, <1>6, <1>7, SumAdd
  <2>3. Sum(kept) = Sum(lost) + Sum(due)
    <3>1. /\ kept \in [0 .. nextId - 1 -> Int]
          /\ lost \in [0 .. nextId - 1 -> Int]
          /\ due \in [0 .. nextId - 1 -> Int]
      BY <1>6
    <3> HIDE DEF Ints
    <3> QED BY <1>1, <1>8, <3>1, SumAdd
  <2> QED BY <2>1, <2>2, <2>3
<1>11. /\ Sum(own) \in Int /\ Sum(now) \in Int /\ Sum(fee) \in Int
       /\ Sum(eff) \in Int /\ Sum(due) \in Int
  BY <1>1, <1>6, SumType
<1>12. balance[t][u] \in Int /\ balance'[t][u] \in Int /\ Opened(u, t) \in Int
  BY <1>1, <1>9
<1>13. balance'[t][u] + Opened(u, t) >= balance[t][u] + Sum(due)
  BY <1>4 DEF Paid
<1>14. /\ Stake(u, t) = balance[t][u] + Sum(own)
       /\ Stake(u, t)' = balance'[t][u] + (Sum(now) + Opened(u, t))
  BY <1>4, <1>5, <1>9 DEF Stake
<1> DEFINE b == balance[t][u]
           b2 == balance'[t][u]
           op == Opened(u, t)
<1> HIDE DEF Sum, b, b2, op
<1>15. b2 + (Sum(now) + op) >= (b + Sum(own)) - Sum(fee) + Sum(eff)
  BY <1>10, <1>11, <1>12, <1>13 DEF b, b2, op
<1> QED BY <1>4, <1>14, <1>15 DEF b, b2, op

(* If one record changes, the step owes u for that one only. *)
LEMMA OneOwed ==
    ASSUME TypeOK, NEW j \in DOMAIN options, NEW n \in Option,
           NEW u, NEW t,
           options'[j] = n,
           \A id \in DOMAIN options : id # j => options'[id] = options[id]
    PROVE  OwedInAll(u, t) = Owed(options[j], n, u, t) /\ OwedInAll(u, t) \in Int
<1> DEFINE due == [id \in 0 .. nextId - 1 |->
                      Owed(options[id], options'[id], u, t)]
<1>1. /\ nextId \in Nat /\ block \in Nat
      /\ DOMAIN options = 0 .. nextId - 1
      /\ \A id \in DOMAIN options : options[id] \in Option
  BY DEF TypeOK
<1>2. ASSUME NEW id \in 0 .. nextId - 1
      PROVE  due[id] \in Int /\ (id # j => due[id] = 0)
  <2>1. options[id] \in Option /\ options'[id] \in Option
    BY <1>1
  <2>2. /\ Owed(options[id], options'[id], u, t) \in Int
        /\ OwnBy(options[id], u, t) \in Nat
    BY <1>1, <2>1, OwedType
  <2>3. id # j => Owed(options[id], options'[id], u, t) = 0
    <3> SUFFICES ASSUME id # j
                 PROVE  Owed(options[id], options[id], u, t) = 0
      BY <1>1
    <3> QED BY <2>2 DEF Owed, FeeBy, EffectBy
  <2> QED BY <2>2, <2>3
<1>3. due \in [0 .. nextId - 1 -> Int] /\ due[j] = Owed(options[j], n, u, t)
  <2>1. due = [id \in 0 .. nextId - 1 |-> due[id]]
    OBVIOUS
  <2> QED BY <1>1, <1>2
<1>4. OwedInAll(u, t) = SumUpTo(due, nextId)
  BY <1>1 DEF OwedInAll
<1> HIDE DEF due
<1>5. SumUpTo(due, nextId) = due[j]
  BY <1>1, <1>2, <1>3, SumSingle
<1> QED BY <1>1, <1>2, <1>3, <1>4, <1>5

(* Nothing is owed for records that owe nothing. *)
LEMMA NothingOwed ==
    ASSUME TypeOK, NEW u, NEW t,
           \A id \in DOMAIN options : Owed(options[id], options'[id], u, t) = 0
    PROVE  OwedInAll(u, t) = 0
<1> DEFINE due == [id \in 0 .. nextId - 1 |-> 0]
<1>1. nextId \in Nat /\ DOMAIN options = 0 .. nextId - 1
  BY DEF TypeOK
<1>2. OwedInAll(u, t) = SumUpTo(due, nextId)
  BY <1>1 DEF OwedInAll
<1>3. due \in [0 .. nextId - 1 -> Int]
  OBVIOUS
<1>4. \A id \in 0 .. nextId - 1 : due[id] = due[id] + due[id]
  OBVIOUS
<1> HIDE DEF due
<1>5. SumUpTo(due, nextId) = SumUpTo(due, nextId) + SumUpTo(due, nextId)
  BY <1>1, <1>3, <1>4, SumAdd
<1>6. SumUpTo(due, nextId) \in Int
  BY <1>1, <1>3, SumType
<1>7. \A x \in Int : x = x + x => x = 0
  OBVIOUS
<1> QED BY <1>2, <1>5, <1>6, <1>7

(* A record that does not change owes nothing. *)
LEMMA SameRecord ==
    ASSUME NEW o \in Option, NEW u, NEW t
    PROVE  Owed(o, o, u, t) = 0
<1>1. OwnBy(o, u, t) \in Nat
  BY LockedByNat DEF OwnBy
<1> QED BY <1>1 DEF Owed, FeeBy, EffectBy

(* A payout and its fee, seen from a user's side. *)
LEMMA PayoutReceived ==
    ASSUME NEW b \in [Tokens -> Ledgers], NEW t \in Tokens,
           NEW to \in Users, NEW r \in Addresses,
           NEW c \in Nat, NEW fee \in 0..c, Affords(b, t, Pool, c),
           NEW n, n = Pay(Pay(b, t, Pool, to, c - fee), t, Pool, r, fee),
           NEW u \in Users, NEW v \in Tokens
    PROVE  n[v][u] >= b[v][u] + (IF v = t /\ u = to THEN c - fee ELSE 0)
<1> DEFINE m == Pay(b, t, Pool, to, c - fee)
<1>1. /\ to \in Addresses /\ Pool \in Addresses /\ u \in Addresses
      /\ u # Pool /\ to # Pool
  BY AddressAssumption DEF Addresses
<1>2. b[t][Pool] \in Nat /\ b[v][u] \in Nat
  BY <1>1 DEF Ledgers
<1>3. /\ b[t][Pool] >= c /\ c - fee \in Nat /\ fee \in Nat
      /\ Affords(b, t, Pool, c - fee)
  BY <1>2 DEF Affords, CanPay
<1>4. /\ m \in [Tokens -> Ledgers]
      /\ \A w \in Tokens, a \in Addresses :
           m[w][a] = b[w][a] - (IF w = t /\ a = Pool THEN c - fee ELSE 0)
                             + (IF w = t /\ a = to THEN c - fee ELSE 0)
  BY <1>1, <1>3, PayFacts
<1>5. n = Pay(m, t, Pool, r, fee)
  OBVIOUS
<1> HIDE DEF m
<1>6. m[t][Pool] = b[t][Pool] - (c - fee)
  BY <1>1, <1>2, <1>4
<1>7. Affords(m, t, Pool, fee)
  BY <1>2, <1>3, <1>6 DEF Affords, CanPay
<1>8. \A w \in Tokens, a \in Addresses :
         n[w][a] = m[w][a] - (IF w = t /\ a = Pool THEN fee ELSE 0)
                           + (IF w = t /\ a = r THEN fee ELSE 0)
  BY <1>1, <1>3, <1>4, <1>5, <1>7, PayFacts
<1>9. n[v][u] = m[v][u] + (IF v = t /\ u = r THEN fee ELSE 0)
  <2>1. m[v][u] \in Nat
    BY <1>1, <1>4 DEF Ledgers
  <2> QED BY <1>1, <1>3, <1>8, <2>1
<1>10. m[v][u] = b[v][u] + (IF v = t /\ u = to THEN c - fee ELSE 0)
  BY <1>1, <1>2, <1>3, <1>4
<1> QED BY <1>2, <1>3, <1>9, <1>10

(* What closing an unsold or a sold option owes each address. *)
LEMMA ClosedOwed ==
    ASSUME TypeOK, NEW id \in DOMAIN options, Live(options[id]),
           NEW s \in {EXERCISED, EXPIRED, CANCELLED}, NEW u,
           NEW t \in Tokens
    PROVE  LET o == options[id]
               n == [o EXCEPT !.status = s]
           IN  Owed(o, n, u, t) =
                 IF o.writer = u
                 THEN (IF CollateralToken(o) = t THEN Collateral(o) ELSE 0)
                        - FeeBy(o, n, u, t) + EffectBy(o, n, u, t)
                 ELSE 0
<1> DEFINE o == options[id]
           n == [o EXCEPT !.status = s]
<1>1. /\ o \in Option /\ n \in Option /\ LockedBy(n, t) = 0
      /\ block \in Nat
  BY Basics, ClosedRecord DEF TypeOK
<1>2. LockedBy(o, t) = IF CollateralToken(o) = t THEN Collateral(o) ELSE 0
  BY LiveRecord
<1>3. /\ OwnBy(n, u, t) = 0
      /\ OwnBy(o, u, t) =
           IF o.writer = u
           THEN IF CollateralToken(o) = t THEN Collateral(o) ELSE 0
           ELSE 0
  BY <1>1, <1>2 DEF OwnBy
<1>4. /\ FeeBy(o, n, u, t) \in Int /\ EffectBy(o, n, u, t) \in Int
      /\ OwnBy(o, u, t) \in Nat
  BY <1>1, OwedType
<1>5. o.writer # u => FeeBy(o, n, u, t) = 0 /\ EffectBy(o, n, u, t) = 0
  BY DEF FeeBy, EffectBy
<1> HIDE DEF o, n
<1> QED BY <1>3, <1>4, <1>5 DEF Owed, o, n

(* cancelOption. *)
LEMMA CancelWhole ==
    ASSUME TypeOK, NEW w \in Users, NEW id \in DOMAIN options,
           CancelOption(w, id), NEW u \in Users, NEW t \in Tokens
    PROVE  Whole(u, t)
<1> DEFINE o == options[id]
           n == [o EXCEPT !.status = CANCELLED]
           c == Collateral(o)
           fee == CancelFee(o)
           ct == CollateralToken(o)
<1>1. /\ o \in Option /\ c \in Nat /\ fee \in 0..c
      /\ ct \in Tokens /\ o.writer \in Users /\ balance[t][u] \in Nat
      /\ feeRecipient \in Addresses /\ balance \in [Tokens -> Ledgers]
  BY Basics, AmountsNat, CancelFeeBounds DEF TypeOK, Addresses
<1>2. options' = [options EXCEPT ![id] = n] /\ n \in Option
  BY ClosedRecord DEF CancelOption, SetStatus
<1>3. /\ Affords(balance, ct, Pool, c) /\ o.status = OPEN
      /\ balance' = Pay(Pay(balance, ct, Pool, o.writer, c - fee),
                        ct, Pool, feeRecipient, fee)
      /\ nextId' = nextId
  BY DEF CancelOption, MayCancel
<1>4. OwedInAll(u, t) = Owed(o, n, u, t)
  BY <1>2, OneOwed
<1>5. Owed(o, n, u, t) = IF t = ct /\ u = o.writer THEN c - fee ELSE 0
  <2>1. Owed(o, n, u, t) = IF o.writer = u
                          THEN (IF ct = t THEN c ELSE 0)
                                 - FeeBy(o, n, u, t) + EffectBy(o, n, u, t)
                          ELSE 0
    BY <1>3, ClosedOwed DEF Live
  <2>2. EffectBy(o, n, u, t) = 0
    BY <1>3 DEF EffectBy
  <2>3. o.writer = u => FeeBy(o, n, u, t) = IF ct = t THEN fee ELSE 0
    <3>1. n.status = CANCELLED
      BY <1>1 DEF Option
    <3> QED BY <1>3, <3>1 DEF FeeBy
  <2> HIDE DEF o, n, c, fee, ct
  <2> QED BY <1>1, <2>1, <2>2, <2>3
<1> HIDE DEF o, n, c, fee, ct
<1>6. balance'[t][u] >= balance[t][u]
                          + (IF t = ct /\ u = o.writer THEN c - fee ELSE 0)
  BY <1>1, <1>3, PayoutReceived
<1>7. Opened(u, t) = 0 /\ balance'[t][u] \in Int
  <2>1. TypeOK'
    BY CancelStep
  <2> QED BY <1>3, <2>1 DEF Opened, TypeOK, Addresses
<1> QED BY <1>4, <1>5, <1>6, <1>7 DEF Whole, Paid

(* settle. *)
LEMMA SettleWhole ==
    ASSUME TypeOK, NEW id \in DOMAIN options, Settle(id),
           NEW u \in Users, NEW t \in Tokens
    PROVE  Whole(u, t)
<1> DEFINE o == options[id]
           n == [o EXCEPT !.status = EXPIRED]
           c == Collateral(o)
           ct == CollateralToken(o)
<1>1. /\ o \in Option /\ c \in Nat /\ ct \in Tokens /\ Pool \in Addresses
      /\ o.writer \in Addresses /\ u \in Addresses /\ u # Pool
      /\ balance[t][u] \in Nat /\ balance \in [Tokens -> Ledgers]
  BY Basics, AmountsNat, AddressAssumption DEF TypeOK, Addresses
<1>2. options' = [options EXCEPT ![id] = n] /\ n \in Option
  BY ClosedRecord DEF Settle, SetStatus
<1>3. /\ Affords(balance, ct, Pool, c) /\ o.status = PURCHASED
      /\ balance' = Pay(balance, ct, Pool, o.writer, c)
      /\ nextId' = nextId
  BY DEF Settle, CanSettle
<1>4. OwedInAll(u, t) = Owed(o, n, u, t)
  BY <1>2, OneOwed
<1>5. Owed(o, n, u, t) = IF t = ct /\ u = o.writer THEN c ELSE 0
  <2>1. Owed(o, n, u, t) = IF o.writer = u
                          THEN (IF ct = t THEN c ELSE 0)
                                 - FeeBy(o, n, u, t) + EffectBy(o, n, u, t)
                          ELSE 0
    BY <1>3, ClosedOwed DEF Live
  <2>2. EffectBy(o, n, u, t) = 0 /\ FeeBy(o, n, u, t) = 0
    <3>1. n.status = EXPIRED
      BY <1>1 DEF Option
    <3> QED BY <1>3, <3>1 DEF EffectBy, FeeBy
  <2> HIDE DEF o, n, c, ct
  <2> QED BY <1>1, <2>1, <2>2
<1> HIDE DEF o, n, c, ct
<1>6. balance'[t][u] = balance[t][u]
                          + (IF t = ct /\ u = o.writer THEN c ELSE 0)
  <2>1. balance'[t][u] =
          balance[t][u] - (IF t = ct /\ u = Pool THEN c ELSE 0)
                        + (IF t = ct /\ u = o.writer THEN c ELSE 0)
    BY <1>1, <1>3, PayFacts
  <2> QED BY <1>1, <2>1
<1>7. Opened(u, t) = 0
  BY <1>3 DEF Opened
<1> QED BY <1>1, <1>4, <1>5, <1>6, <1>7 DEF Whole, Paid

(* A user who is not the payer receives at least his share. *)
LEMMA PaidOnly ==
    ASSUME NEW b \in [Tokens -> Ledgers], NEW t \in Tokens,
           NEW from \in Addresses, NEW to \in Addresses,
           NEW amount \in Nat, Affords(b, t, from, amount),
           NEW u \in Users, u # from, NEW v \in Tokens
    PROVE  /\ Pay(b, t, from, to, amount) \in [Tokens -> Ledgers]
           /\ Pay(b, t, from, to, amount)[v][u] =
                b[v][u] + (IF v = t /\ u = to THEN amount ELSE 0)
           /\ b[v][u] \in Nat
<1>1. u \in Addresses
  BY DEF Addresses
<1>2. b[v][u] \in Nat
  BY <1>1 DEF Ledgers
<1>3. /\ Pay(b, t, from, to, amount) \in [Tokens -> Ledgers]
      /\ Pay(b, t, from, to, amount)[v][u] =
           b[v][u] - (IF v = t /\ u = from THEN amount ELSE 0)
                   + (IF v = t /\ u = to THEN amount ELSE 0)
  BY <1>1, PayFacts
<1> QED BY <1>2, <1>3

(* buyOption: the writer's lock stays, and only the buyer pays. *)
LEMMA BuyWhole ==
    ASSUME TypeOK, NEW w \in Users, NEW id \in DOMAIN options,
           BuyOption(w, id), NEW u \in Users, NEW t \in Tokens
    PROVE  Whole(u, t)
<1> SUFFICES ASSUME ~PaysAsHolder(u) PROVE Paid(u, t)
  BY DEF Whole
<1> DEFINE o == options[id]
           n == [o EXCEPT !.buyer = w, !.status = PURCHASED]
           fee == FeeOf(o.premium, BUY_FEE_BPS)
           m == Pay(balance, PremiumToken, w, o.writer, o.premium - fee)
<1>1. /\ o \in Option /\ o.status = OPEN /\ w \in Addresses
      /\ o.writer \in Addresses /\ feeRecipient \in Addresses
      /\ PremiumToken \in Tokens /\ balance \in [Tokens -> Ledgers]
      /\ o.premium \in Nat /\ fee \in 0..o.premium
  <2>1. o \in Option /\ o.status = OPEN /\ o.premium \in Nat
    BY Basics DEF BuyOption, Option, CanBuy, MayBuy
  <2> QED BY <2>1, Basics, FeeBounds DEF Addresses
<1>2. /\ n \in Option /\ LockedBy(n, t) = LockedBy(o, t)
      /\ n.writer = o.writer /\ n.status = PURCHASED /\ n.buyer = w
  BY <1>1 DEF Option, Statuses, Addresses, LockedBy, Live, CollateralToken,
              Collateral, StrikeValue
<1>3. options' = [options EXCEPT ![id] = n]
  BY DEF BuyOption, TypeOK
<1>4. /\ Affords(balance, PremiumToken, w, o.premium)
      /\ balance' = Pay(m, PremiumToken, w, feeRecipient, fee)
      /\ nextId' = nextId
  BY DEF BuyOption, CanBuy, MayBuy
<1>5. u # w
  <2>1. options'[id] = n
    BY <1>3
  <2> QED BY <1>1, <1>2, <2>1 DEF PaysAsHolder, Turns
<1>6. OwedInAll(u, t) = 0
  <2>1. Owed(o, n, u, t) = 0
    <3>1. OwnBy(o, u, t) = OwnBy(n, u, t) /\ OwnBy(o, u, t) \in Nat
      BY <1>1, <1>2, LockedByNat DEF OwnBy
    <3>2. FeeBy(o, n, u, t) = 0 /\ EffectBy(o, n, u, t) = 0
      BY <1>1, <1>2 DEF FeeBy, EffectBy
    <3> QED BY <3>1, <3>2 DEF Owed
  <2>2. OwedInAll(u, t) = Owed(o, n, u, t)
    BY <1>2, <1>3, OneOwed
  <2> QED BY <2>1, <2>2
<1> HIDE DEF o, n, fee, m
<1>7. Affords(balance, PremiumToken, w, o.premium - fee)
  <2>1. balance[PremiumToken][w] \in Nat
    BY <1>1 DEF Ledgers
  <2> QED BY <1>1, <1>4, <2>1 DEF Affords, CanPay
<1>8. /\ m \in [Tokens -> Ledgers] /\ m[t][u] >= balance[t][u]
      /\ balance[t][u] \in Nat
      /\ m[PremiumToken][w] \in Nat /\ m[PremiumToken][w] >= fee
  <2>1. o.premium - fee \in Nat
    BY <1>1
  <2>2. /\ m \in [Tokens -> Ledgers] /\ balance[t][u] \in Nat
        /\ m[t][u] = balance[t][u] + (IF t = PremiumToken /\ u = o.writer
                                      THEN o.premium - fee ELSE 0)
    BY <1>1, <1>5, <1>7, <2>1, PaidOnly DEF m
  <2>3. m[PremiumToken][w] =
          balance[PremiumToken][w] - (o.premium - fee)
            + (IF w = o.writer THEN o.premium - fee ELSE 0)
    BY <1>1, <1>7, <2>1, PayFacts DEF m
  <2>4. /\ balance[PremiumToken][w] \in Nat
        /\ balance[PremiumToken][w] >= o.premium
        /\ m[PremiumToken][w] \in Nat
    BY <1>1, <1>4, <2>2 DEF Ledgers, Affords, CanPay
  <2> QED BY <1>1, <2>1, <2>2, <2>3, <2>4
<1>9. balance'[t][u] >= balance[t][u] /\ balance'[t][u] \in Int
  <2>1. Affords(m, PremiumToken, w, fee) /\ fee \in Nat
    BY <1>1, <1>8 DEF Affords, CanPay
  <2>2. /\ m[t][u] \in Nat
        /\ balance'[t][u] =
             m[t][u] + (IF t = PremiumToken /\ u = feeRecipient
                        THEN fee ELSE 0)
    BY <1>1, <1>4, <1>5, <1>8, <2>1, PaidOnly
  <2> QED BY <1>8, <2>1, <2>2
<1>10. Opened(u, t) = 0
  BY <1>4 DEF Opened
<1> QED BY <1>6, <1>8, <1>9, <1>10 DEF Paid

(* exercise: the writer is paid the price for the collateral he gives up. *)
LEMMA ExerciseWhole ==
    ASSUME TypeOK, NEW w \in Users, NEW id \in DOMAIN options,
           Exercise(w, id), NEW u \in Users, NEW t \in Tokens
    PROVE  Whole(u, t)
<1> SUFFICES ASSUME ~PaysAsHolder(u) PROVE Paid(u, t)
  BY DEF Whole
<1> DEFINE o == options[id]
           n == [o EXCEPT !.status = EXERCISED]
           c == Collateral(o)
           fee == FeeOf(c, EXERCISE_FEE_BPS)
           out == CollateralToken(o)
           in == IF o.optionType = CALL THEN PremiumToken ELSE Underlying
           price == IF o.optionType = CALL THEN StrikeValue(o)
                                           ELSE o.underlyingAmount
           d == Pay(balance, in, w, o.writer, price)
<1>1. /\ o \in Option /\ c \in Nat /\ fee \in 0..c /\ price \in Nat
      /\ out \in Tokens /\ in \in Tokens
      /\ o.writer \in Addresses /\ w \in Addresses
      /\ feeRecipient \in Addresses /\ balance \in [Tokens -> Ledgers]
  <2>1. /\ o \in Option /\ out \in Tokens /\ in \in Tokens
        /\ o.writer \in Addresses /\ w \in Addresses
        /\ feeRecipient \in Addresses /\ balance \in [Tokens -> Ledgers]
    BY Basics DEF Addresses
  <2>2. o.underlyingAmount \in Nat
    BY <2>1 DEF Option
  <2> QED BY <2>1, <2>2, AmountsNat, FeeBounds
<1>2. options' = [options EXCEPT ![id] = n] /\ n \in Option
  BY ClosedRecord DEF Exercise, SetStatus
<1>3. /\ Affords(balance, in, w, price) /\ Affords(d, out, Pool, c)
      /\ balance' = Pay(Pay(d, out, Pool, w, c - fee),
                        out, Pool, feeRecipient, fee)
      /\ nextId' = nextId
      /\ o.status = PURCHASED /\ w = o.buyer
  BY DEF Exercise, MayExercise
<1>4. n.status = EXERCISED /\ n.buyer = o.buyer
  BY <1>1 DEF Option
<1>5. u # w
  <2>1. options'[id] = n
    BY <1>2
  <2> QED BY <1>3, <1>4, <2>1 DEF PaysAsHolder, Turns
<1>6. OwedInAll(u, t) = IF t = in /\ u = o.writer THEN price ELSE 0
  <2>1. Owed(o, n, u, t) = IF o.writer = u
                          THEN (IF out = t THEN c ELSE 0)
                                 - FeeBy(o, n, u, t) + EffectBy(o, n, u, t)
                          ELSE 0
    BY <1>3, ClosedOwed DEF Live
  <2>2. FeeBy(o, n, u, t) = 0
    BY <1>3 DEF FeeBy
  <2>3. o.writer = u => EffectBy(o, n, u, t) =
          Delivered(o, t) - Surrendered(o, t)
    BY <1>3, <1>4 DEF EffectBy
  <2>4. Surrendered(o, t) = IF out = t THEN c ELSE 0
    BY DEF Surrendered
  <2>5. Delivered(o, t) = IF t = in THEN price ELSE 0
    <3>1. o.optionType \in {CALL, PUT} /\ StrikeValue(o) \in Nat
          /\ o.underlyingAmount \in Nat
      BY <1>1, AmountsNat DEF Option, OptionTypes
    <3> QED BY <3>1 DEF Delivered
  <2>6. OwedInAll(u, t) = Owed(o, n, u, t)
    BY <1>2, OneOwed
  <2> HIDE DEF o, n, c, fee, out, in, price
  <2> QED BY <1>1, <2>1, <2>2, <2>3, <2>4, <2>5, <2>6
<1> HIDE DEF o, n, c, fee, out, in, price
<1>7. /\ d \in [Tokens -> Ledgers] /\ balance[t][u] \in Nat
      /\ d[t][u] = balance[t][u]
                     + (IF t = in /\ u = o.writer THEN price ELSE 0)
  BY <1>1, <1>3, <1>5, PaidOnly
<1> HIDE DEF d
<1>8. balance'[t][u] >= d[t][u]
  <2>1. balance'[t][u] >= d[t][u] + (IF t = out /\ u = w THEN c - fee ELSE 0)
    BY <1>1, <1>3, <1>7, PayoutReceived
  <2>2. d[t][u] \in Nat
    BY <1>1, <1>7
  <2> QED BY <1>5, <2>1, <2>2
<1>9. Opened(u, t) = 0 /\ balance'[t][u] \in Int
  <2>1. TypeOK'
    BY ExerciseStep
  <2> QED BY <1>3, <2>1 DEF Opened, TypeOK, Addresses
<1> QED BY <1>1, <1>6, <1>7, <1>8, <1>9 DEF Paid

(* Steps that move no money and close or write nothing. *)
LEMMA StillWhole ==
    ASSUME TypeOK, NEW u \in Users, NEW t \in Tokens,
           balance' = balance, nextId' = nextId,
           \A id \in DOMAIN options : Owed(options[id], options'[id], u, t) = 0
    PROVE  Whole(u, t)
<1>1. OwedInAll(u, t) = 0 /\ Opened(u, t) = 0
  BY NothingOwed DEF Opened
<1>2. balance[t][u] \in Nat
  BY DEF TypeOK, Addresses
<1> QED BY <1>1, <1>2 DEF Whole, Paid

(* Steps that change neither options nor balances. *)
LEMMA QuietWhole ==
    ASSUME TypeOK, UNCHANGED <<nextId, options, balance>>,
           NEW u \in Users, NEW t \in Tokens
    PROVE  Whole(u, t)
BY StillWhole, SameRecord, Basics

(* transferOption. *)
LEMMA TransferWhole ==
    ASSUME TypeOK, NEW w \in Users, NEW id \in DOMAIN options,
           NEW new \in Addresses, TransferOption(w, id, new),
           NEW u \in Users, NEW t \in Tokens
    PROVE  Whole(u, t)
<1> DEFINE o == options[id]
           n == [o EXCEPT !.buyer = new]
<1>1. o \in Option /\ o.status = PURCHASED
  BY Basics DEF TransferOption, MayTransfer
<1>2. /\ LockedBy(n, t) = LockedBy(o, t)
      /\ n.writer = o.writer /\ n.status = PURCHASED
  BY <1>1 DEF Option, LockedBy, Live, CollateralToken, Collateral, StrikeValue
<1>3. /\ options' = [options EXCEPT ![id] = n]
      /\ balance' = balance /\ nextId' = nextId
  BY DEF TransferOption, TypeOK
<1>4. Owed(o, n, u, t) = 0
  <2>1. OwnBy(o, u, t) = OwnBy(n, u, t) /\ OwnBy(o, u, t) \in Nat
    BY <1>1, <1>2, LockedByNat DEF OwnBy
  <2>2. FeeBy(o, n, u, t) = 0 /\ EffectBy(o, n, u, t) = 0
    BY <1>1, <1>2 DEF FeeBy, EffectBy
  <2> QED BY <2>1, <2>2 DEF Owed
<1> HIDE DEF n
<1>5. ASSUME NEW i \in DOMAIN options
      PROVE  Owed(options[i], options'[i], u, t) = 0
  <2>1. CASE i = id
    BY <1>3, <1>4, <2>1
  <2>2. CASE i # id
    BY <1>3, <2>2, SameRecord, Basics
  <2> QED BY <2>1, <2>2
<1> QED BY <1>3, <1>5, StillWhole

(* writeOption: what leaves the writer's account is locked for him. *)
LEMMA WriteWhole ==
    ASSUME TypeOK, NEW w \in Users, NEW type \in OptionTypes,
           NEW k \in Strikes, NEW a \in Amounts, NEW p \in Premiums,
           NEW e \in Nat, WriteOption(w, type, k, a, p, e),
           NEW u \in Users, NEW t \in Tokens
    PROVE  Whole(u, t)
<1> DEFINE o == NewOption(w, type, k, a, p, e)
           c == Collateral(o)
           ct == CollateralToken(o)
<1>1. /\ o \in Option /\ c \in Nat /\ ct \in Tokens
      /\ Live(o) /\ o.writer = w
  <2>1. o \in Option
    BY NewOptionType, InputAssumption
  <2> QED BY <2>1, AmountsNat
          DEF CollateralToken, Tokens, Live, NewOption
<1>2. /\ nextId' = nextId + 1 /\ options' = Extended(options, o)
      /\ balance' = Pay(balance, ct, w, Pool, c)
      /\ Affords(balance, ct, w, c)
  BY DEF WriteOption
<1>3. /\ w \in Addresses /\ w # Pool /\ Pool \in Addresses
      /\ u \in Addresses /\ u # Pool
      /\ balance \in [Tokens -> Ledgers] /\ balance[t][u] \in Nat
  BY Basics, AddressAssumption DEF Addresses, TypeOK
<1> HIDE DEF o, c, ct
<1>4. options'[nextId] = o /\ nextId' # nextId
      /\ \A i \in DOMAIN options : options'[i] = options[i]
  <2>1. nextId \in Nat /\ DOMAIN options = 0 .. nextId - 1
        /\ options \in [0 .. nextId - 1 -> Option]
    BY DEF TypeOK
  <2>2. /\ Extended(options, o)[nextId] = o
        /\ \A i \in 0 .. nextId - 1 : Extended(options, o)[i] = options[i]
    BY <1>1, <2>1, ExtendedType
  <2>3. nextId' # nextId
    BY <1>2, <2>1
  <2> QED BY <1>2, <2>1, <2>2, <2>3
<1>5. OwedInAll(u, t) = 0
  <2>1. \A i \in DOMAIN options : Owed(options[i], options'[i], u, t) = 0
    BY <1>4, SameRecord, Basics
  <2> QED BY <2>1, NothingOwed
<1>6. Opened(u, t) = IF t = ct /\ u = w THEN c ELSE 0
  BY <1>1, <1>4 DEF Opened, OwnBy, LockedBy, c, ct
<1>7. balance'[t][u] = balance[t][u] - (IF t = ct /\ u = w THEN c ELSE 0)
  <2>1. balance'[t][u] =
          balance[t][u] - (IF t = ct /\ u = w THEN c ELSE 0)
                        + (IF t = ct /\ u = Pool THEN c ELSE 0)
    BY <1>1, <1>2, <1>3, PayFacts
  <2> QED BY <1>1, <1>3, <2>1
<1> QED BY <1>1, <1>3, <1>5, <1>6, <1>7 DEF Whole, Paid

(* rollOption: the netted payment is the difference of the two locks and   *)
(* the fee, whichever direction it flows.                                  *)
LEMMA RollWhole ==
    ASSUME TypeOK, NEW w \in Users, NEW id \in DOMAIN options,
           NEW k \in Strikes, NEW e \in Nat, NEW p \in Premiums,
           RollOption(w, id, k, e, p), NEW u \in Users, NEW t \in Tokens
    PROVE  Whole(u, t)
<1> DEFINE old == options[id]
           closed == [old EXCEPT !.status = CANCELLED]
           rest == [options EXCEPT ![id] = closed]
           new == NewOption(w, old.optionType, k, old.underlyingAmount, p, e)
           ct == CollateralToken(old)
           c == Collateral(old)
           d == Collateral(new)
           fee == CancelFee(old)
           refund == c - fee
           feeOut == Pay(balance, ct, Pool, feeRecipient, fee)
<1>1. /\ old \in Option /\ old.writer = w /\ old.status = OPEN
      /\ Live(old)
  BY Basics DEF RollOption, Live, MayCancel
<1>2. /\ closed \in Option /\ rest \in [0 .. nextId - 1 -> Option]
      /\ [options EXCEPT ![id].status = CANCELLED] = rest
      /\ closed.status = CANCELLED
  <2>1. closed.status = CANCELLED
    BY <1>1 DEF Option
  <2> QED BY <2>1, ClosedRecord DEF TypeOK
<1>3. /\ new \in Option /\ Live(new) /\ CollateralToken(new) = ct
      /\ new.writer = w
  <2>1. old.optionType \in OptionTypes /\ old.underlyingAmount \in Nat \ {0}
    BY <1>1 DEF Option
  <2>2. new \in Option
    BY <2>1, NewOptionType, InputAssumption
  <2> QED BY <2>2 DEF NewOption, Live, CollateralToken
<1>4. /\ c \in Nat /\ d \in Nat /\ fee \in 0..c /\ refund \in Nat
      /\ ct \in Tokens
  BY <1>1, <1>3, AmountsNat, CancelFeeBounds, Basics
<1>5. /\ options' = Extended(rest, new) /\ nextId' = nextId + 1
      /\ Affords(balance, ct, Pool, fee)
  BY <1>2 DEF RollOption
<1>6. \/ /\ d >= refund
         /\ Affords(feeOut, ct, w, d - refund)
         /\ balance' = Pay(feeOut, ct, w, Pool, d - refund)
      \/ /\ d < refund
         /\ Affords(feeOut, ct, Pool, refund - d)
         /\ balance' = Pay(feeOut, ct, Pool, w, refund - d)
  BY DEF RollOption
<1>7. /\ w \in Addresses /\ w # Pool /\ Pool \in Addresses
      /\ u \in Addresses /\ u # Pool /\ feeRecipient \in Addresses
      /\ balance \in [Tokens -> Ledgers] /\ balance[t][u] \in Nat
  BY Basics, AddressAssumption DEF Addresses, TypeOK
<1>8. Owed(old, closed, u, t) = IF t = ct /\ u = w THEN refund ELSE 0
  <2>1. Owed(old, closed, u, t) =
          IF old.writer = u
          THEN (IF ct = t THEN c ELSE 0) - FeeBy(old, closed, u, t)
                 + EffectBy(old, closed, u, t)
          ELSE 0
    BY <1>1, ClosedOwed
  <2>2. EffectBy(old, closed, u, t) = 0
    BY <1>1 DEF EffectBy
  <2>3. w = u => FeeBy(old, closed, u, t) = IF ct = t THEN fee ELSE 0
    BY <1>1, <1>2 DEF FeeBy
  <2> HIDE DEF old, closed, c, fee, ct
  <2> QED BY <1>1, <1>4, <2>1, <2>2, <2>3
<1> HIDE DEF rest, new, d
<1>9. /\ options'[nextId] = new /\ nextId' # nextId
      /\ \A i \in DOMAIN options : options'[i] = rest[i]
  <2>1. nextId \in Nat /\ DOMAIN options = 0 .. nextId - 1
    BY DEF TypeOK
  <2> QED BY <1>2, <1>3, <1>5, <2>1, ExtendedType
<1>10. OwedInAll(u, t) = IF t = ct /\ u = w THEN refund ELSE 0
  <2>1. options'[id] = closed
    BY <1>9 DEF rest
  <2>2. \A i \in DOMAIN options : i # id => options'[i] = options[i]
    BY <1>9 DEF rest
  <2>3. OwedInAll(u, t) = Owed(old, closed, u, t)
    BY <1>2, <2>1, <2>2, OneOwed
  <2> QED BY <1>8, <2>3
<1>11. Opened(u, t) = IF t = ct /\ u = w THEN d ELSE 0
  BY <1>3, <1>9 DEF Opened, OwnBy, LockedBy, d
<1> HIDE DEF old, closed, ct, c, fee, refund, feeOut
<1>12. /\ feeOut \in [Tokens -> Ledgers]
       /\ feeOut[t][u] >= balance[t][u] /\ feeOut[t][u] \in Nat
  <2>1. /\ feeOut \in [Tokens -> Ledgers] /\ balance[t][u] \in Nat
        /\ feeOut[t][u] = balance[t][u] + (IF t = ct /\ u = feeRecipient
                                           THEN fee ELSE 0)
    BY <1>4, <1>5, <1>7, PaidOnly DEF feeOut
  <2> QED BY <1>4, <2>1
<1>13. balance'[t][u] = feeOut[t][u]
         + (IF t = ct /\ u = w THEN refund - d ELSE 0)
  <2>1. CASE d >= refund
    <3>1. d - refund \in Nat /\ ~(d < refund)
      BY <1>4, <2>1
    <3>2. balance'[t][u] = feeOut[t][u]
            - (IF t = ct /\ u = w THEN d - refund ELSE 0)
            + (IF t = ct /\ u = Pool THEN d - refund ELSE 0)
      BY <1>4, <1>6, <1>7, <1>12, <3>1, PayFacts
    <3> QED BY <1>4, <1>7, <1>12, <3>2
  <2>2. CASE d < refund
    <3>1. refund - d \in Nat /\ ~(d >= refund)
      BY <1>4, <2>2
    <3>2. balance'[t][u] = feeOut[t][u]
            - (IF t = ct /\ u = Pool THEN refund - d ELSE 0)
            + (IF t = ct /\ u = w THEN refund - d ELSE 0)
      BY <1>4, <1>6, <1>7, <1>12, <3>1, PayFacts
    <3> QED BY <1>4, <1>7, <1>12, <3>2
  <2> QED BY <1>6, <2>1, <2>2
<1> QED BY <1>4, <1>7, <1>10, <1>11, <1>12, <1>13 DEF Whole, Paid

(* What a batch owes for one of its options, and for the others. *)
LEMMA BatchOwed ==
    ASSUME TypeOK, NEW ids \in SUBSET DOMAIN options,
           NEW s \in {EXPIRED, CANCELLED},
           \A id \in ids : Live(options[id]),
           options' = WithStatus(ids, s),
           NEW u, NEW t \in Tokens, NEW id \in DOMAIN options
    PROVE  Owed(options[id], options'[id], u, t) =
             IF /\ id \in ids /\ options[id].writer = u
                /\ CollateralToken(options[id]) = t
             THEN Collateral(options[id])
                    - (IF s = CANCELLED /\ options[id].status = OPEN
                       THEN CancelFee(options[id]) ELSE 0)
             ELSE 0
<1> DEFINE o == options[id]
           n == [o EXCEPT !.status = s]
<1>1. /\ o \in Option /\ Collateral(o) \in Nat /\ CancelFee(o) \in Int
      /\ block \in Nat
  BY Basics, AmountsNat, CancelFeeBounds DEF TypeOK
<1>2. CASE id \notin ids
  <2>1. options'[id] = o
    BY <1>2 DEF WithStatus
  <2> QED BY <1>1, <1>2, <2>1, SameRecord
<1>3. CASE id \in ids
  <2>1. options'[id] = n /\ s \in {EXERCISED, EXPIRED, CANCELLED}
    BY <1>3 DEF WithStatus
  <2>2. n.status = s
    BY <1>1 DEF Option
  <2>3. Owed(o, n, u, t) = IF o.writer = u
                          THEN (IF CollateralToken(o) = t
                                THEN Collateral(o) ELSE 0)
                                 - FeeBy(o, n, u, t) + EffectBy(o, n, u, t)
                          ELSE 0
    <3>1. Live(options[id])
      BY <1>3
    <3>2. CASE s = EXPIRED
      BY <3>1, <3>2, ClosedOwed
    <3>3. CASE s = CANCELLED
      BY <3>1, <3>3, ClosedOwed
    <3> QED BY <3>2, <3>3
  <2>4. EffectBy(o, n, u, t) = 0
    BY <2>2 DEF EffectBy
  <2>5. o.writer = u => FeeBy(o, n, u, t) =
          IF s = CANCELLED /\ o.status = OPEN /\ CollateralToken(o) = t
          THEN CancelFee(o) ELSE 0
    BY <2>2 DEF FeeBy
  <2> HIDE DEF o, n
  <2> QED BY <1>1, <1>3, <2>1, <2>3, <2>4, <2>5 DEF o
<1> QED BY <1>2, <1>3

(* batchCancel: the caller gets the total less the fees. *)
LEMMA BatchCancelWhole ==
    ASSUME TypeOK, NEW w \in Users, NEW ids \in SUBSET DOMAIN options,
           BatchCancel(w, ids), NEW u \in Users, NEW t \in Tokens
    PROVE  Whole(u, t)
<1> DEFINE total == BatchTotal(ids, t, Collaterals)
           fees  == BatchTotal(ids, t, CancelFees)
           mid   == Moved(balance[t], Pool, w, total - fees)
           In(id) == id \in ids /\ CollateralToken(options[id]) = t
           f == [id \in DOMAIN options |->
                   IF In(id) THEN CancelFees[id] ELSE 0]
           h == [id \in DOMAIN options |->
                   IF In(id) THEN Collaterals[id] ELSE 0]
           due == [id \in DOMAIN options |->
                     Owed(options[id], options'[id], u, t)]
<1>1. /\ \A id \in ids : /\ Live(options[id])
                          /\ options[id].writer = w
                          /\ options[id].status = OPEN
      /\ Affords(balance, t, Pool, total)
      /\ options' = WithStatus(ids, CANCELLED)
      /\ balance'[t] = Moved(mid, Pool, feeRecipient, fees)
      /\ nextId' = nextId
  BY DEF BatchCancel, Live, CanBatchCancel, MayCancel
<1>2. /\ w \in Addresses /\ w # Pool /\ Pool \in Addresses
      /\ u \in Addresses /\ u # Pool /\ feeRecipient \in Addresses
      /\ balance[t] \in Ledgers /\ balance[t][u] \in Nat
      /\ balance[t][Pool] \in Nat
      /\ nextId \in Nat /\ DOMAIN options = 0 .. nextId - 1
  BY Basics, AddressAssumption, LockedNat DEF Addresses, TypeOK
<1>3. /\ total \in Nat /\ fees \in Nat /\ fees <= total
      /\ balance[t][Pool] >= total
  <2>1. total \in Nat /\ fees \in Nat /\ fees <= total
    BY AmountTypes, BatchTotalNat, BatchFeesBounded
  <2> QED BY <1>1, <2>1 DEF Affords, CanPay
<1>4. \A id \in DOMAIN options :
         Owed(options[id], options'[id], u, t) =
           IF In(id) /\ u = w
           THEN Collateral(options[id]) - CancelFee(options[id]) ELSE 0
  <2> SUFFICES ASSUME NEW id \in DOMAIN options
               PROVE  Owed(options[id], options'[id], u, t) =
                        IF In(id) /\ u = w
                        THEN Collateral(options[id]) - CancelFee(options[id])
                        ELSE 0
    OBVIOUS
  <2>1. Owed(options[id], options'[id], u, t) =
          IF /\ id \in ids /\ options[id].writer = u
             /\ CollateralToken(options[id]) = t
          THEN Collateral(options[id])
                 - (IF CANCELLED = CANCELLED /\ options[id].status = OPEN
                    THEN CancelFee(options[id]) ELSE 0)
          ELSE 0
    BY <1>1, BatchOwed
  <2> QED BY <1>1, <2>1
<1>5. OwedInAll(u, t) = IF u = w THEN total - fees ELSE 0
  <2>1. CASE u # w
    BY <1>4, <2>1, NothingOwed
  <2>2. CASE u = w
    <3>1. ASSUME NEW id \in 0 .. nextId - 1
          PROVE  /\ f[id] \in Int /\ h[id] \in Int /\ due[id] \in Int
                 /\ h[id] = f[id] + due[id]
      <4>1. /\ Collaterals[id] = Collateral(options[id])
            /\ CancelFees[id] = CancelFee(options[id])
            /\ Collateral(options[id]) \in Int
            /\ CancelFee(options[id]) \in Int
        BY <1>2, Basics, AmountsNat, CancelFeeBounds
           DEF Collaterals, CancelFees
      <4>2. due[id] = IF In(id) THEN Collateral(options[id])
                                       - CancelFee(options[id]) ELSE 0
        BY <1>2, <1>4, <2>2
      <4>3. /\ f[id] = IF In(id) THEN CancelFee(options[id]) ELSE 0
            /\ h[id] = IF In(id) THEN Collateral(options[id]) ELSE 0
        BY <1>2, <4>1
      <4> HIDE DEF f, h, due, In
      <4> QED BY <4>1, <4>2, <4>3
    <3>2. /\ OwedInAll(u, t) = SumUpTo(due, nextId)
          /\ total = SumUpTo(h, nextId) /\ fees = SumUpTo(f, nextId)
      BY DEF OwedInAll, BatchTotal
    <3>3. /\ f = [id \in 0 .. nextId - 1 |-> f[id]]
          /\ h = [id \in 0 .. nextId - 1 |-> h[id]]
          /\ due = [id \in 0 .. nextId - 1 |-> due[id]]
      BY <1>2
    <3> HIDE DEF f, h, due, total, fees
    <3>4. /\ f \in [0 .. nextId - 1 -> Int] /\ h \in [0 .. nextId - 1 -> Int]
          /\ due \in [0 .. nextId - 1 -> Int]
      BY <3>1, <3>3
    <3>5. SumUpTo(h, nextId) = SumUpTo(f, nextId) + SumUpTo(due, nextId)
      BY <1>2, <3>1, <3>4, SumAdd
    <3>6. SumUpTo(due, nextId) \in Int
      BY <1>2, <3>4, SumType
    <3> QED BY <1>3, <2>2, <3>2, <3>5, <3>6
  <2> QED BY <2>1, <2>2
<1> HIDE DEF total, fees
<1>6. /\ mid \in Ledgers
      /\ mid[u] = balance[t][u] + (IF u = w THEN total - fees ELSE 0)
      /\ mid[Pool] = balance[t][Pool] - (total - fees)
  <2>1. CanPay(balance[t], Pool, total - fees) /\ total - fees \in Nat
    BY <1>2, <1>3 DEF CanPay
  <2>2. /\ mid \in Ledgers
        /\ \A a \in Addresses : mid[a] =
             balance[t][a] - (IF a = Pool THEN total - fees ELSE 0)
                           + (IF a = w THEN total - fees ELSE 0)
    BY <1>2, <2>1, MovedFacts
  <2> HIDE DEF mid
  <2> QED BY <1>2, <1>3, <2>2
<1> HIDE DEF mid
<1>7. balance'[t][u] = mid[u] + (IF u = feeRecipient THEN fees ELSE 0)
  <2>1. CanPay(mid, Pool, fees)
    BY <1>2, <1>3, <1>6 DEF CanPay
  <2>2. balance'[t][u] = mid[u] - (IF u = Pool THEN fees ELSE 0)
                                + (IF u = feeRecipient THEN fees ELSE 0)
    BY <1>1, <1>2, <1>3, <1>6, <2>1, MovedFacts
  <2>3. mid[u] \in Nat
    BY <1>2, <1>6 DEF Ledgers
  <2> QED BY <1>2, <1>3, <2>2, <2>3
<1>8. Opened(u, t) = 0
  BY <1>1 DEF Opened
<1> QED BY <1>2, <1>3, <1>5, <1>6, <1>7, <1>8 DEF Whole, Paid

(* batchSettle: every writer gets the total of his own options. *)
LEMMA BatchSettleWhole ==
    ASSUME TypeOK, NEW ids, BatchSettle(ids),
           NEW u \in Users, NEW t \in Tokens
    PROVE  Whole(u, t)
<1> DEFINE due == {id \in ids : CanSettle(id)}
           mine == {id \in due : options[id].writer = u}
<1>1. /\ due \in SUBSET DOMAIN options /\ mine \in SUBSET DOMAIN options
      /\ \A id \in due : Live(options[id]) /\ options[id].status = PURCHASED
  BY DEF CanSettle, Exists, Live
<1>2. /\ options' = WithStatus(due, EXPIRED)
      /\ nextId' = nextId
      /\ balance' = [v \in Tokens |-> [a \in Addresses |->
            IF a = Pool THEN balance[v][a] - BatchTotal(due, v, Collaterals)
                        ELSE balance[v][a] + SettledTo(due, v, a)]]
  BY DEF BatchSettle
<1> HIDE DEF due
<1>3. balance'[t][u] = balance[t][u] + SettledTo(due, t, u)
  <2>1. u \in Addresses /\ u # Pool
    BY AddressAssumption DEF Addresses
  <2> QED BY <1>2, <2>1
<1>4. OwedInAll(u, t) = SettledTo(due, t, u)
  <2>1. ASSUME NEW id \in DOMAIN options
        PROVE  Owed(options[id], options'[id], u, t) =
                 IF id \in mine /\ CollateralToken(options[id]) = t
                 THEN Collaterals[id] ELSE 0
    <3>1. Owed(options[id], options'[id], u, t) =
            IF /\ id \in due /\ options[id].writer = u
               /\ CollateralToken(options[id]) = t
            THEN Collateral(options[id])
                   - (IF EXPIRED = CANCELLED /\ options[id].status = OPEN
                      THEN CancelFee(options[id]) ELSE 0)
            ELSE 0
      <4>1. \A i \in due : Live(options[i])
        BY <1>1
      <4>2. due \in SUBSET DOMAIN options /\ options' = WithStatus(due, EXPIRED)
        BY <1>1, <1>2
      <4>3. EXPIRED \in {EXPIRED, CANCELLED}
        OBVIOUS
      <4> QED BY <4>1, <4>2, <4>3, BatchOwed
    <3>2. /\ Collaterals[id] = Collateral(options[id])
          /\ Collateral(options[id]) \in Nat
      BY Basics, AmountsNat DEF Collaterals
    <3> QED BY <3>1, <3>2
  <2>2. [id \in DOMAIN options |-> Owed(options[id], options'[id], u, t)] =
        [id \in DOMAIN options |->
           IF id \in mine /\ CollateralToken(options[id]) = t
           THEN Collaterals[id] ELSE 0]
    <3> HIDE DEF mine
    <3> QED BY <2>1
  <2> QED BY <2>2 DEF OwedInAll, SettledTo, BatchTotal
<1>5. Opened(u, t) = 0
  BY <1>2 DEF Opened
<1>6. balance[t][u] \in Nat /\ SettledTo(due, t, u) \in Nat
  <2>1. SettledTo(due, t, u) \in Nat
    BY <1>1, AmountTypes, BatchTotalNat DEF SettledTo
  <2> QED BY <2>1 DEF TypeOK, Addresses
<1> QED BY <1>3, <1>4, <1>5, <1>6 DEF Whole, Paid

(* Every step pays the writers what it owes them. *)
LEMMA EveryStepWhole ==
    ASSUME TypeOK, [Next]_vars, NEW u \in Users, NEW t \in Tokens
    PROVE  Whole(u, t) /\ nextId' \in {nextId, nextId + 1}
<1>1. CASE UNCHANGED vars
  BY <1>1, QuietWhole DEF vars
<1>2. CASE NextBlock
  BY <1>2, QuietWhole DEF NextBlock
<1>3. CASE \E id \in DOMAIN options : Settle(id)
  BY <1>3, SettleWhole DEF Settle
<1>4. CASE \E ids \in SUBSET (0 .. MaxOptions) : BatchSettle(ids)
  BY <1>4, BatchSettleWhole DEF BatchSettle
<1>5. ASSUME NEW w \in Users, SignedBy(w)
      PROVE  Whole(u, t) /\ nextId' \in {nextId, nextId + 1}
  <2>1. ASSUME NEW type \in OptionTypes, NEW k \in Strikes,
               NEW a \in Amounts, NEW p \in Premiums, NEW e \in Expiries,
               WriteOption(w, type, k, a, p, e)
        PROVE  Whole(u, t) /\ nextId' = nextId + 1
    <3>1. e \in Nat
      BY DEF Expiries
    <3>2. Whole(u, t)
      BY <2>1, <3>1, WriteWhole
    <3> QED BY <2>1, <3>2 DEF WriteOption
  <2>2. CASE \E id \in DOMAIN options : CancelOption(w, id)
    BY <2>2, CancelWhole DEF CancelOption
  <2>3. CASE \E id \in DOMAIN options : BuyOption(w, id)
    BY <2>3, BuyWhole DEF BuyOption
  <2>4. CASE \E id \in DOMAIN options : Exercise(w, id)
    BY <2>4, ExerciseWhole DEF Exercise
  <2>5. CASE \E id \in DOMAIN options, new \in Addresses :
                TransferOption(w, id, new)
    BY <2>5, TransferWhole DEF TransferOption
  <2>6. ASSUME NEW id \in DOMAIN options, NEW k \in Strikes,
               NEW e \in Expiries, NEW p \in Premiums,
               RollOption(w, id, k, e, p)
        PROVE  Whole(u, t) /\ nextId' = nextId + 1
    <3>1. e \in Nat
      BY DEF Expiries
    <3>2. Whole(u, t)
      BY <2>6, <3>1, RollWhole
    <3> QED BY <2>6, <3>2 DEF RollOption
  <2>7. CASE \E ids \in SUBSET DOMAIN options : BatchCancel(w, ids)
    BY <2>7, BatchCancelWhole DEF BatchCancel
  <2>8. CASE \E new \in FeeRecipients : UpdateFeeRecipient(w, new)
    BY <2>8, QuietWhole DEF UpdateFeeRecipient
  <2> QED BY <1>5, <2>1, <2>2, <2>3, <2>4, <2>5, <2>6, <2>7, <2>8 DEF SignedBy
<1> QED BY <1>1, <1>2, <1>3, <1>4, <1>5 DEF Next, Permissionless

(* No call takes value from a writer beyond the published cancel fees and  *)
(* the swap of an exercise: base.ts and contract.ts move the collateral of *)
(* every closed option to him, whoever calls, in a batch or alone.         *)
THEOREM WritersKeepTheirStake == Spec => WritersMadeWhole
<1> DEFINE Fair == \A u \in Users, t \in Tokens :
              ~PaysAsHolder(u) =>
                  Stake(u, t)' >= Stake(u, t) - FeesCharged(u, t)
                                    + ExerciseEffect(u, t)
<1>1. TypeOK /\ [Next]_vars => [Fair]_vars
  <2> SUFFICES ASSUME TypeOK, [Next]_vars, NEW u \in Users, NEW t \in Tokens,
                      ~PaysAsHolder(u)
               PROVE  Stake(u, t)' >= Stake(u, t) - FeesCharged(u, t)
                                        + ExerciseEffect(u, t)
    OBVIOUS
  <2>1. TypeOK'
    BY NextStep
  <2>2. Paid(u, t) /\ nextId' \in {nextId, nextId + 1}
    BY EveryStepWhole DEF Whole
  <2> QED BY <2>1, <2>2, StakeLaw
<1> QED BY <1>1, TypeCorrect, PTL DEF Spec, WritersMadeWhole
=============================================================================
