----------------------- MODULE TransactionFlowsProofs -----------------------
(***************************************************************************)
(* Proofs about flows and tracked transactions, for any number of tabs,    *)
(* actions, flows and transactions, however their handlers interleave.     *)
(***************************************************************************)
EXTENDS TransactionFlowsProperties, NaturalsInduction, WellFoundedInduction,
        TLAPS

-----------------------------------------------------------------------------
(* Lists with elements left out. *)

(* Induction: a set holding 0 and closed under successor holds every Nat.  *)
LEMMA SetInduction ==
    ASSUME NEW S, 0 \in S, \A n \in Nat : n \in S => n + 1 \in S
    PROVE  Nat \subseteq S
<1>1. SUFFICES ASSUME Nat \ S # {} PROVE FALSE
  OBVIOUS
<1>2. IsWellFoundedOn(OpToRel(<, Nat), Nat)
  BY NatLessThanWellFounded
<1>3. PICK m \in Nat \ S : \A k \in Nat \ S : ~(<<k, m>> \in OpToRel(<, Nat))
  BY <1>1, <1>2, WFMin
<1>4. m \in Nat /\ m # 0
  BY <1>3
<1>5. m - 1 \in Nat /\ m - 1 < m /\ m = (m - 1) + 1
  BY <1>4
<1>6. m - 1 \in S
  BY <1>3, <1>5 DEF OpToRel
<1> QED BY <1>3, <1>5, <1>6

(* new has elements of old, each place of old at most once. *)
DrawnUpTo(new, old, n) ==
    \E m \in [DOMAIN new -> 1 .. n] :
        /\ \A j, k \in DOMAIN new : m[j] = m[k] => j = k
        /\ \A k \in DOMAIN new : new[k] = old[m[k]]

Drawn(new, old) == DrawnUpTo(new, old, Len(old))

(* What is left of the first n elements. *)
Left(f, n, s, I) ==
    f = [k \in 0 .. n |-> IF k = 0 THEN <<>>
                          ELSE IF k \in I THEN Append(f[k - 1], s[k])
                          ELSE f[k - 1]]

(* The recursive function of Filtered exists. *)
LEMMA LeftExists ==
    ASSUME NEW s, NEW I, NEW n \in Nat
    PROVE  \E f : Left(f, n, s, I)
<1> DEFINE N == {m \in Nat : \E f : Left(f, m, s, I)}
<1>1. 0 \in N
  <2>1. Left([k \in 0 .. 0 |-> <<>>], 0, s, I)
    BY DEF Left
  <2> QED BY <2>1
<1>2. ASSUME NEW m \in Nat, m \in N PROVE m + 1 \in N
  <2>1. PICK f : Left(f, m, s, I)
    BY <1>2
  <2> DEFINE g == [k \in 0 .. m + 1 |->
                     IF k = m + 1
                     THEN IF k \in I THEN Append(f[m], s[k]) ELSE f[m]
                     ELSE f[k]]
  <2>2. \A k \in 0 .. m : g[k] = f[k]
    OBVIOUS
  <2>3. \A k \in 0 .. m + 1 :
           g[k] = IF k = 0 THEN <<>>
                  ELSE IF k \in I THEN Append(g[k - 1], s[k]) ELSE g[k - 1]
    <3> TAKE k \in 0 .. m + 1
    <3>1. CASE k = m + 1
      <4>1. g[k - 1] = f[m] /\ k # 0
        BY <2>2, <3>1
      <4> QED BY <3>1, <4>1
    <3>2. CASE k # m + 1
      <4>1. k \in 0 .. m /\ (k # 0 => k - 1 \in 0 .. m)
        BY <3>2
      <4>2. f[k] = IF k = 0 THEN <<>>
                   ELSE IF k \in I THEN Append(f[k - 1], s[k]) ELSE f[k - 1]
        BY <2>1, <4>1 DEF Left
      <4> HIDE DEF g
      <4> QED BY <2>2, <4>1, <4>2
    <3> QED BY <3>1, <3>2
  <2>4. g = [k \in 0 .. m + 1 |-> g[k]]
    OBVIOUS
  <2> HIDE DEF g
  <2>5. Left(g, m + 1, s, I)
    BY <2>3, <2>4 DEF Left
  <2> QED BY <2>5
<1>3. Nat \subseteq N
  <2> HIDE DEF N
  <2> QED BY <1>1, <1>2, SetInduction
<1> QED BY <1>3

(* One element more. *)
LEMMA DrawnFurther ==
    ASSUME NEW S, NEW s \in Seq(S), NEW n \in Nat, n + 1 <= Len(s),
           NEW t \in Seq(S), DrawnUpTo(t, s, n)
    PROVE  /\ DrawnUpTo(t, s, n + 1)
           /\ Append(t, s[n + 1]) \in Seq(S)
           /\ DrawnUpTo(Append(t, s[n + 1]), s, n + 1)
<1>1. PICK m \in [DOMAIN t -> 1 .. n] :
        /\ \A j, k \in DOMAIN t : m[j] = m[k] => j = k
        /\ \A k \in DOMAIN t : t[k] = s[m[k]]
  BY DEF DrawnUpTo
<1>2. DrawnUpTo(t, s, n + 1)
  <2>1. m \in [DOMAIN t -> 1 .. n + 1]
    OBVIOUS
  <2> QED BY <1>1, <2>1 DEF DrawnUpTo
<1>3. s[n + 1] \in S
  OBVIOUS
<1>4. Append(t, s[n + 1]) \in Seq(S)
  BY <1>3
<1>5. DrawnUpTo(Append(t, s[n + 1]), s, n + 1)
  <2> DEFINE u == Append(t, s[n + 1])
             w == [k \in 1 .. Len(t) + 1 |-> IF k = Len(t) + 1 THEN n + 1
                                             ELSE m[k]]
  <2>1. /\ DOMAIN u = 1 .. Len(t) + 1 /\ DOMAIN t = 1 .. Len(t)
        /\ Len(t) \in Nat
        /\ u[Len(t) + 1] = s[n + 1]
        /\ \A k \in 1 .. Len(t) : u[k] = t[k]
    BY <1>3
  <2>2. \A k \in 1 .. Len(t) : w[k] = m[k] /\ m[k] \in 1 .. n
    BY <2>1
  <2>3. w[Len(t) + 1] = n + 1
    BY <2>1
  <2>4. w \in [DOMAIN u -> 1 .. n + 1]
    BY <2>1, <2>2, <2>3
  <2> HIDE DEF u, w
  <2>5. ASSUME NEW j \in DOMAIN u, NEW k \in DOMAIN u, w[j] = w[k]
        PROVE  j = k
    BY <1>1, <2>1, <2>2, <2>3, <2>5
  <2>6. ASSUME NEW k \in DOMAIN u PROVE u[k] = s[w[k]]
    BY <1>1, <2>1, <2>2, <2>3
  <2> QED BY <2>4, <2>5, <2>6 DEF DrawnUpTo, u
<1> QED BY <1>2, <1>4, <1>5

(* What is left of a list is drawn from it. *)
LEMMA FilteredIsDrawn ==
    ASSUME NEW S, NEW s \in Seq(S), NEW I
    PROVE  Filtered(s, I) \in Seq(S) /\ Drawn(Filtered(s, I), s)
<1>1. Len(s) \in Nat
  OBVIOUS
<1>2. PICK f : f = CHOOSE g : Left(g, Len(s), s, I)
  OBVIOUS
<1>3. Left(f, Len(s), s, I)
  BY <1>1, <1>2, LeftExists
<1>4. Filtered(s, I) = f[Len(s)]
  BY <1>2 DEF Filtered, Left
<1> DEFINE N == {n \in Nat : n <= Len(s) => /\ f[n] \in Seq(S)
                                            /\ DrawnUpTo(f[n], s, n)}
<1>5. \A k \in 0 .. Len(s) :
         f[k] = IF k = 0 THEN <<>>
                ELSE IF k \in I THEN Append(f[k - 1], s[k]) ELSE f[k - 1]
  BY <1>3 DEF Left
<1>6. 0 \in N
  <2>1. f[0] = <<>>
    BY <1>1, <1>5
  <2>2. \A m \in [{} -> 1 .. 0] : m \in [DOMAIN <<>> -> 1 .. 0]
    OBVIOUS
  <2>3. [k \in {} |-> 1] \in [{} -> 1 .. 0]
    OBVIOUS
  <2>4. DrawnUpTo(f[0], s, 0)
    BY <2>1, <2>2, <2>3 DEF DrawnUpTo
  <2>5. f[0] \in Seq(S)
    BY <2>1
  <2> QED BY <2>4, <2>5
<1>7. ASSUME NEW n \in Nat, n \in N PROVE n + 1 \in N
  <2>1. SUFFICES ASSUME n + 1 <= Len(s)
                 PROVE  f[n + 1] \in Seq(S) /\ DrawnUpTo(f[n + 1], s, n + 1)
    OBVIOUS
  <2>2. f[n] \in Seq(S) /\ DrawnUpTo(f[n], s, n)
    BY <1>1, <1>7, <2>1
  <2>3. f[n + 1] = IF n + 1 \in I THEN Append(f[n], s[n + 1]) ELSE f[n]
    BY <1>1, <1>5, <2>1
  <2> QED BY <2>1, <2>2, <2>3, DrawnFurther
<1>8. Nat \subseteq N
  <2> HIDE DEF N
  <2> QED BY <1>6, <1>7, SetInduction
<1>9. f[Len(s)] \in Seq(S) /\ DrawnUpTo(f[Len(s)], s, Len(s))
  BY <1>1, <1>8
<1> QED BY <1>4, <1>9 DEF Drawn

(* The first of a list's indices that meet a condition, or 0. *)
LEMMA FirstIsIn ==
    ASSUME NEW I \in SUBSET Nat
    PROVE  IF I = {} THEN FirstIn(I) = 0 ELSE FirstIn(I) \in I
<1>1. CASE I = {}
  BY <1>1 DEF FirstIn
<1>2. CASE I # {}
  <2>1. \E i \in I : \A j \in I : i <= j
    <3>1. IsWellFoundedOn(OpToRel(<, Nat), Nat)
      BY NatLessThanWellFounded
    <3>2. PICK i \in I : \A j \in I : ~(<<j, i>> \in OpToRel(<, Nat))
      BY <1>2, <3>1, WFMin
    <3>3. \A j \in I : ~(j < i)
      BY <3>2 DEF OpToRel
    <3> QED BY <3>3
  <2> QED BY <1>2, <2>1 DEF FirstIn
<1> QED BY <1>1, <1>2

-----------------------------------------------------------------------------
(* The invariant of the flows. *)

Flow == [id : Nat, key : Keys, approval : Nat, action : Nat]
Tx == [id : Nat, status : {"broadcast", "confirmed", "failed"}]
Signed == [key : Keys \cup {None}, step : {"approval", "action", "single"},
           mined : BOOLEAN, old : BOOLEAN]
TabType == [open : BOOLEAN, flows : Seq(Flow), txs : Seq(Tx),
            timers : SUBSET Nat, inbox : Seq(BOOLEAN), poll : Seq(Nat)]
ModalType == [sending : {"none", "approval", "action"},
              key : Keys \cup {None}, my : Nat, claimed : Nat]

(* Flow f was claimed, and its transactions were signed for it: ch is what *)
(* the wallet signed, cl how many flows were claimed.                      *)
Named(f, ch, cl) ==
    /\ f.id \in 1 .. cl
    /\ f.approval # None =>
          /\ f.approval \in 1 .. Len(ch) /\ ch[f.approval].key = f.key
          /\ ch[f.approval].step = "approval"
    /\ f.action # None =>
          /\ f.action \in 1 .. Len(ch) /\ ch[f.action].key = f.key
          /\ ch[f.action].step = "action"

(* Records of flows in any two lists: an id is one action of one option,   *)
(* and a transaction is one flow's.                                        *)
SameFlow(f, g) ==
    /\ f.id = g.id => f.key = g.key
    /\ f.approval = g.approval /\ f.approval # None => f.id = g.id
    /\ f.action = g.action /\ f.action # None => f.id = g.id

ListOK(a, ch, cl) ==
    /\ a \in Seq(Flow)
    /\ \A n \in DOMAIN a : Named(a[n], ch, cl)
    /\ \A n, k \in DOMAIN a : a[n].id = a[k].id => n = k

FlowsOK(L, ch, cl) ==
    /\ \A a \in L : ListOK(a, ch, cl)
    /\ \A a, b \in L : \A n \in DOMAIN a : \A k \in DOMAIN b :
          SameFlow(a[n], b[k])

(* What a modal captured at the click is about its own key, in every list. *)
ModalOK(m, L, cl) ==
    /\ m \in ModalType /\ m.my <= cl /\ m.claimed <= cl
    /\ m.sending # "none" => m.key \in Keys
    /\ \A a \in L : \A n \in DOMAIN a :
          a[n].id \in {m.my, m.claimed} => a[n].key = m.key

ModalsOK(ms, L, cl) ==
    ms \in [Tabs -> ModalType] /\ \A t \in Tabs : ModalOK(ms[t], L, cl)

FlowsInv ==
    /\ chain \in Seq(Signed) /\ claims \in Nat
    /\ tabs \in [Tabs -> TabType] /\ storedTxs \in Seq(Tx)
    /\ FlowsOK(Lists, chain, claims)
    /\ ModalsOK(modals, Lists, claims)

(* What is tracked was signed, and confirmed only if mined; a timer waits  *)
(* only where an action was.                                               *)
TxsOK(txs, ch) ==
    \A n \in DOMAIN txs :
        /\ txs[n].id \in 1 .. Len(ch)
        /\ txs[n].status = "confirmed" => ch[txs[n].id].mined

ActionMined(ch) ==
    \E i \in 1 .. Len(ch) : ch[i].step = "action" /\ ch[i].mined

TabOK(tab, ch) ==
    /\ TxsOK(tab.txs, ch)
    /\ \A n \in DOMAIN tab.poll : tab.poll[n] \in 1 .. Len(ch)
    /\ tab.timers # {} => ActionMined(ch)

StatusInv ==
    TxsOK(storedTxs, chain) /\ \A t \in Tabs : TabOK(tabs[t], chain)

AgreeInv ==
    \A t \in Tabs :
        tabs[t].open /\ tabs[t].inbox = <<>> => tabs[t].flows = storedFlows

TabsInv == FlowsInv /\ StatusInv /\ AgreeInv

(* The wallet signs more, and what it signed is mined. *)
Continues(ch, d) ==
    /\ ch \in Seq(Signed) /\ d \in Seq(Signed) /\ Len(ch) <= Len(d)
    /\ \A i \in 1 .. Len(ch) :
          /\ d[i].key = ch[i].key /\ d[i].step = ch[i].step
          /\ ch[i].mined => d[i].mined

(* A list drawn from another is as good. *)
LEMMA DrawnIsOK ==
    ASSUME NEW L, NEW ch, NEW cl, FlowsOK(L, ch, cl), NEW a \in L,
           NEW new \in Seq(Flow), Drawn(new, a)
    PROVE  /\ FlowsOK(L \cup {new}, ch, cl)
           /\ \A ms : ModalsOK(ms, L, cl) => ModalsOK(ms, L \cup {new}, cl)
<1>1. a \in Seq(Flow) /\ DOMAIN a = 1 .. Len(a)
  BY DEF FlowsOK, ListOK
<1>2. PICK m \in [DOMAIN new -> DOMAIN a] :
        /\ \A j, k \in DOMAIN new : m[j] = m[k] => j = k
        /\ \A k \in DOMAIN new : new[k] = a[m[k]]
  BY <1>1 DEF Drawn, DrawnUpTo
<1>3. ListOK(new, ch, cl)
  <2>1. \A n \in DOMAIN new : Named(new[n], ch, cl)
    BY <1>2 DEF FlowsOK, ListOK
  <2>2. ASSUME NEW n \in DOMAIN new, NEW k \in DOMAIN new,
               new[n].id = new[k].id
        PROVE  n = k
    <3>1. a[m[n]].id = a[m[k]].id
      BY <1>2, <2>2
    <3>2. m[n] = m[k]
      BY <1>2, <3>1 DEF FlowsOK, ListOK
    <3> QED BY <1>2, <3>2
  <2> QED BY <2>1, <2>2 DEF ListOK
<1>4. \A b \in L \cup {new} : \A n \in DOMAIN b :
         \E c \in L : \E k \in DOMAIN c : b[n] = c[k]
  BY <1>2
<1>5. FlowsOK(L \cup {new}, ch, cl)
  <2>1. \A b \in L \cup {new} : ListOK(b, ch, cl)
    BY <1>3 DEF FlowsOK
  <2>2. ASSUME NEW b \in L \cup {new}, NEW c \in L \cup {new},
               NEW n \in DOMAIN b, NEW k \in DOMAIN c
        PROVE  SameFlow(b[n], c[k])
    <3>1. PICK d \in L : \E i \in DOMAIN d : b[n] = d[i]
      BY <1>4
    <3>2. PICK e \in L : \E i \in DOMAIN e : c[k] = e[i]
      BY <1>4
    <3> QED BY <3>1, <3>2 DEF FlowsOK
  <2> QED BY <2>1, <2>2 DEF FlowsOK
<1>6. ASSUME NEW ms, ModalsOK(ms, L, cl) PROVE ModalsOK(ms, L \cup {new}, cl)
  BY <1>4, <1>6 DEF ModalsOK, ModalOK
<1> QED BY <1>5, <1>6

(* Fewer lists. *)
LEMMA FewerAreOK ==
    ASSUME NEW L, NEW ch, NEW cl, FlowsOK(L, ch, cl), NEW M \in SUBSET L
    PROVE  /\ FlowsOK(M, ch, cl)
           /\ \A ms : ModalsOK(ms, L, cl) => ModalsOK(ms, M, cl)
<1>1. FlowsOK(M, ch, cl)
  BY DEF FlowsOK
<1> QED BY <1>1 DEF ModalsOK, ModalOK

(* x is in one of the lists. *)
Among(x, L) == \E c \in L : \E k \in DOMAIN c : x = c[k]

(* With one more list there is at most one more flow. *)
AddsOnly(f, new, L) ==
    \A b \in L \cup {new} : \A n \in DOMAIN b : b[n] = f \/ Among(b[n], L)

(* A flow just claimed: appended, or in the place of its key's. *)
LEMMA ClaimedIsOK ==
    ASSUME NEW L, NEW ch, NEW cl \in Nat, FlowsOK(L, ch, cl), NEW a \in L,
           NEW f \in Flow, f.id = cl + 1, f.approval = None, f.action = None
    PROVE  /\ Claimed(a, f) \in Seq(Flow)
           /\ FlowsOK(L \cup {Claimed(a, f)}, ch, cl + 1)
           /\ AddsOnly(f, Claimed(a, f), L)
<1> DEFINE i == FlowOfKey(a, f.key)
           new == Claimed(a, f)
<1>1. a \in Seq(Flow) /\ DOMAIN a = 1 .. Len(a) /\ Len(a) \in Nat
  BY DEF FlowsOK, ListOK
<1>2. i = 0 \/ i \in DOMAIN a
  BY <1>1, FirstIsIn DEF FlowOfKey
<1> HIDE DEF i
<1>3. \E p \in Nat \ {0} :
         /\ new \in Seq(Flow) /\ p \in DOMAIN new /\ new[p] = f
         /\ \A n \in DOMAIN new : n # p => n \in DOMAIN a /\ new[n] = a[n]
  <2>1. CASE i = 0
    <3>1. new = Append(a, f)
      BY <2>1 DEF Claimed, i
    <3> HIDE DEF new
    <3>2. /\ new \in Seq(Flow) /\ Len(a) + 1 \in DOMAIN new
          /\ new[Len(a) + 1] = f
          /\ \A n \in DOMAIN new : n # Len(a) + 1 => n \in DOMAIN a /\ new[n] = a[n]
      BY <1>1, <3>1
    <3> QED BY <1>1, <3>2
  <2>2. CASE i \in DOMAIN a
    <3>1. i # 0 /\ i = FlowOfKey(a, f.key)
      BY <1>1, <2>2 DEF i
    <3>2. new = [a EXCEPT ![i] = f]
      BY <3>1 DEF Claimed
    <3> HIDE DEF new
    <3>3. /\ new \in Seq(Flow) /\ i \in DOMAIN new /\ new[i] = f
          /\ \A n \in DOMAIN new : n # i => n \in DOMAIN a /\ new[n] = a[n]
      BY <1>1, <2>2, <3>2
    <3> QED BY <1>1, <2>2, <3>3
  <2> QED BY <1>2, <2>1, <2>2
<1> HIDE DEF new
<1>4. PICK p \in Nat \ {0} :
         /\ new \in Seq(Flow) /\ p \in DOMAIN new /\ new[p] = f
         /\ \A n \in DOMAIN new : n # p => n \in DOMAIN a /\ new[n] = a[n]
  BY <1>3
<1>5. \A b \in L : \A n \in DOMAIN b : b[n].id \in 1 .. cl
  BY DEF FlowsOK, ListOK, Named
<1>6. \A g : Named(g, ch, cl) => Named(g, ch, cl + 1)
  BY DEF Named
<1>7. Named(f, ch, cl + 1)
  BY DEF Named
<1>8. ListOK(new, ch, cl + 1)
  <2>1. \A n \in DOMAIN new : Named(new[n], ch, cl + 1)
    BY <1>4, <1>6, <1>7 DEF FlowsOK, ListOK
  <2>2. ASSUME NEW n \in DOMAIN new, NEW k \in DOMAIN new,
               new[n].id = new[k].id
        PROVE  n = k
    <3>1. CASE n # p /\ k # p
      BY <1>4, <2>2, <3>1 DEF FlowsOK, ListOK
    <3>2. \A j \in DOMAIN new : j # p => new[j].id # new[p].id
      BY <1>4, <1>5
    <3> QED BY <2>2, <3>1, <3>2
  <2> QED BY <1>4, <2>1, <2>2 DEF ListOK
<1>9. \A b \in L : ListOK(b, ch, cl + 1)
  BY <1>6 DEF FlowsOK, ListOK
<1>10. \A b \in L \cup {new} : \A n \in DOMAIN b :
          b[n] = f \/ Among(b[n], L)
  BY <1>4 DEF Among
<1>11. \A c \in L : \A k \in DOMAIN c : SameFlow(f, c[k]) /\ SameFlow(c[k], f)
  <2>1. ASSUME NEW c \in L, NEW k \in DOMAIN c
        PROVE  SameFlow(f, c[k]) /\ SameFlow(c[k], f)
    <3>1. c[k].id # f.id
      BY <1>5
    <3> QED BY <3>1 DEF SameFlow
  <2> QED BY <2>1
<1>12. SameFlow(f, f)
  BY DEF SameFlow
<1>13. ASSUME NEW b \in L \cup {new}, NEW c \in L \cup {new},
              NEW n \in DOMAIN b, NEW k \in DOMAIN c
       PROVE  SameFlow(b[n], c[k])
  <2>1. \A d \in L, e \in L : \A x \in DOMAIN d : \A y \in DOMAIN e :
           SameFlow(d[x], e[y])
    BY DEF FlowsOK
  <2>2. b[n] = f \/ \E d \in L : \E x \in DOMAIN d : b[n] = d[x]
    BY <1>10 DEF Among
  <2>3. c[k] = f \/ \E d \in L : \E x \in DOMAIN d : c[k] = d[x]
    BY <1>10 DEF Among
  <2> QED BY <1>11, <1>12, <2>1, <2>2, <2>3
<1>14. FlowsOK(L \cup {new}, ch, cl + 1)
  BY <1>8, <1>9, <1>13 DEF FlowsOK
<1> QED BY <1>4, <1>10, <1>14 DEF new, AddsOnly

(* The transaction just sent becomes the flow's that the click was about.  *)
LEMMA UpdatedIsOK ==
    ASSUME NEW L, NEW ch \in Seq(Signed), NEW cl \in Nat, FlowsOK(L, ch, cl),
           NEW a \in L, NEW id \in Nat, NEW key \in Keys,
           NEW step \in {"approval", "action"},
           NEW x \in Signed, x.key = key, x.step = step,
           \A b \in L : \A n \in DOMAIN b : b[n].id = id => b[n].key = key,
           NEW ms, ModalsOK(ms, L, cl)
    PROVE  LET new == Updated(a, id, step, Len(ch) + 1)
           IN  /\ new \in Seq(Flow)
               /\ FlowsOK(L \cup {new}, Append(ch, x), cl)
               /\ ModalsOK(ms, L \cup {new}, cl)
<1> DEFINE tx == Len(ch) + 1
           after == Append(ch, x)
           new == Updated(a, id, step, tx)
<1>1. a \in Seq(Flow) /\ DOMAIN a = 1 .. Len(a) /\ Len(a) \in Nat
  BY DEF FlowsOK, ListOK
<1>2. /\ tx \in Nat \ {0} /\ Len(after) = tx /\ after[tx] = x
      /\ \A i \in 1 .. Len(ch) : i < tx /\ after[i] = ch[i]
  OBVIOUS
<1> HIDE DEF tx, after
<1>3. DOMAIN new = DOMAIN a
  BY DEF Updated
<1>4. ASSUME NEW n \in DOMAIN a
      PROVE  /\ new[n] \in Flow /\ new[n].id = a[n].id /\ new[n].key = a[n].key
             /\ new[n].approval = IF a[n].id = id /\ step = "approval" THEN tx
                                  ELSE a[n].approval
             /\ new[n].action = IF a[n].id = id /\ step = "action" THEN tx
                                ELSE a[n].action
  <2>1. a[n] \in Flow
    BY <1>1
  <2>2. new[n] = IF a[n].id # id THEN a[n]
                 ELSE IF step = "approval" THEN [a[n] EXCEPT !.approval = tx]
                 ELSE [a[n] EXCEPT !.action = tx]
    BY DEF Updated
  <2> HIDE DEF new
  <2> QED BY <1>2, <2>1, <2>2 DEF Flow
<1>5. new \in Seq(Flow)
  <2>1. new \in [1 .. Len(a) -> Flow]
    <3>1. new = [n \in DOMAIN a |-> new[n]]
      BY DEF Updated
    <3> HIDE DEF new
    <3> QED BY <1>1, <1>4, <3>1
  <2> QED BY <1>1, <2>1
<1> HIDE DEF new
<1>6. \A b \in L : \A n \in DOMAIN b :
         /\ b[n] \in Flow
         /\ b[n].approval # tx /\ b[n].action # tx
         /\ Named(b[n], ch, cl) /\ Named(b[n], after, cl)
  <2>1. ASSUME NEW b \in L, NEW n \in DOMAIN b
        PROVE  /\ b[n] \in Flow
               /\ b[n].approval # tx /\ b[n].action # tx
               /\ Named(b[n], ch, cl) /\ Named(b[n], after, cl)
    <3>1. b[n] \in Flow /\ Named(b[n], ch, cl)
      BY DEF FlowsOK, ListOK
    <3>2. b[n].approval # tx /\ b[n].action # tx
      BY <1>2, <3>1 DEF Named, None
    <3>3. Named(b[n], after, cl)
      BY <1>2, <3>1 DEF Named
    <3> QED BY <3>1, <3>2, <3>3
  <2> QED BY <2>1
<1>7. ListOK(new, after, cl)
  <2>1. ASSUME NEW n \in DOMAIN new PROVE Named(new[n], after, cl)
    <3>1. n \in DOMAIN a /\ Named(a[n], after, cl)
      BY <1>3, <1>6
    <3>2. a[n].id = id => a[n].key = key
      BY <3>1
    <3> QED BY <1>2, <1>4, <3>1, <3>2 DEF Named
  <2>2. \A n, k \in DOMAIN new : new[n].id = new[k].id => n = k
    BY <1>3, <1>4 DEF FlowsOK, ListOK
  <2> QED BY <1>5, <2>1, <2>2 DEF ListOK
<1>8. \A b \in L : ListOK(b, after, cl)
  BY <1>6 DEF FlowsOK, ListOK
<1>9. \A b \in L, c \in L : \A n \in DOMAIN b : \A k \in DOMAIN c :
         SameFlow(b[n], c[k])
  BY DEF FlowsOK
<1>10. ASSUME NEW c \in L, NEW n \in DOMAIN new, NEW k \in DOMAIN c
       PROVE  SameFlow(new[n], c[k]) /\ SameFlow(c[k], new[n])
  <2>1. n \in DOMAIN a /\ SameFlow(a[n], c[k]) /\ SameFlow(c[k], a[n])
    BY <1>3, <1>9
  <2> QED BY <1>4, <1>6, <2>1 DEF SameFlow
<1>11. ASSUME NEW n \in DOMAIN new, NEW k \in DOMAIN new
       PROVE  SameFlow(new[n], new[k])
  <2>1. n \in DOMAIN a /\ k \in DOMAIN a /\ SameFlow(a[n], a[k])
    BY <1>3, <1>9
  <2>2. /\ a[n].approval # tx /\ a[k].approval # tx
        /\ a[n].action # tx /\ a[k].action # tx
    BY <1>6, <2>1
  <2> QED BY <1>4, <2>1, <2>2 DEF SameFlow
<1>12. FlowsOK(L \cup {new}, after, cl)
  <2>1. ASSUME NEW b \in L \cup {new}, NEW c \in L \cup {new},
               NEW n \in DOMAIN b, NEW k \in DOMAIN c
        PROVE  SameFlow(b[n], c[k])
    BY <1>9, <1>10, <1>11
  <2> QED BY <1>7, <1>8, <2>1 DEF FlowsOK
<1>13. ModalsOK(ms, L \cup {new}, cl)
  <2>1. \A b \in L \cup {new} : \A n \in DOMAIN b :
           \E c \in L : \E k \in DOMAIN c :
              b[n].id = c[k].id /\ b[n].key = c[k].key
    BY <1>3, <1>4
  <2> QED BY <2>1 DEF ModalsOK, ModalOK
<1> QED BY <1>5, <1>12, <1>13 DEF new, tx, after

-----------------------------------------------------------------------------
(* Rendering and storing. *)

(* What a commit makes of the tabs and the storage. *)
LEMMA CommitFacts ==
    ASSUME tabs \in [Tabs -> TabType], NEW t \in Tabs, NEW tab \in TabType,
           NEW set, Commit(t, tab, set)
    PROVE  /\ tabs' \in [Tabs -> TabType]
           /\ tabs'[t].flows = tab.flows /\ tabs'[t].txs = tab.txs
           /\ tabs'[t].open = tab.open /\ tabs'[t].inbox = tab.inbox
           /\ tabs'[t].poll = tab.poll
           /\ tabs'[t] = Rendered(tab)
           /\ \A u \in Tabs \ {t} :
                 /\ tabs'[u].flows = tabs[u].flows /\ tabs'[u].txs = tabs[u].txs
                 /\ tabs'[u].open = tabs[u].open /\ tabs'[u].poll = tabs[u].poll
                 /\ tabs'[u].timers = tabs[u].timers
                 /\ tabs'[u].open /\ tabs'[u].inbox = <<>> =>
                       tabs[u].inbox = <<>> /\ storedFlows' = storedFlows
           /\ storedFlows' = IF "flows" \in set THEN tab.flows ELSE storedFlows
           /\ storedTxs' = IF "txs" \in set THEN tab.txs ELSE storedTxs
<1>1. /\ storedFlows' = IF "flows" \in set THEN tab.flows ELSE storedFlows
      /\ storedTxs' = IF "txs" \in set THEN tab.txs ELSE storedTxs
      /\ tabs' = [u \in Tabs |-> IF u = t THEN Rendered(tab)
                                 ELSE Notified(tabs[u], storedFlows')]
  BY DEF Commit
<1>2. /\ Rendered(tab) \in TabType
      /\ Rendered(tab).flows = tab.flows /\ Rendered(tab).txs = tab.txs
      /\ Rendered(tab).open = tab.open /\ Rendered(tab).inbox = tab.inbox
      /\ Rendered(tab).poll = tab.poll
  <2> DEFINE done == {f.id : f \in {g \in Elements(ActiveFlows(tab)) :
                                       g.status = <<"action", "confirmed">>}}
  <2>1. done \subseteq Nat
    <3>1. tab.flows \in Seq(Flow)
      BY DEF TabType
    <3>2. ASSUME NEW n \in DOMAIN tab.flows PROVE tab.flows[n].id \in Nat
      <4>1. tab.flows[n] \in Flow
        BY <3>1
      <4> QED BY <4>1 DEF Flow
    <3>3. ASSUME NEW g \in Elements(ActiveFlows(tab)) PROVE g.id \in Nat
      <4>1. PICK n \in DOMAIN ActiveFlows(tab) : g = ActiveFlows(tab)[n]
        BY DEF Elements
      <4>2. n \in DOMAIN tab.flows /\ g.id = tab.flows[n].id
        BY <4>1 DEF ActiveFlows
      <4> QED BY <3>2, <4>2
    <3> QED BY <3>3
  <2>2. Rendered(tab) = [tab EXCEPT !.timers = tab.timers \cup done]
    BY DEF Rendered
  <2> HIDE DEF done
  <2>3. (tab.timers \cup done) \in SUBSET Nat
    BY <2>1 DEF TabType
  <2> QED BY <2>2, <2>3 DEF TabType
<1>3. ASSUME NEW u \in Tabs
      PROVE  LET v == Notified(tabs[u], storedFlows')
             IN  /\ v \in TabType
                 /\ v.flows = tabs[u].flows /\ v.txs = tabs[u].txs
                 /\ v.open = tabs[u].open /\ v.poll = tabs[u].poll
                 /\ v.timers = tabs[u].timers
                 /\ v.open /\ v.inbox = <<>> =>
                       tabs[u].inbox = <<>> /\ storedFlows' = storedFlows
  <2>1. tabs[u] \in TabType
    OBVIOUS
  <2>2. PICK e \in BOOLEAN : e = (storedFlows' # <<>>)
    OBVIOUS
  <2> DEFINE box == Append(tabs[u].inbox, e)
  <2>3. tabs[u].inbox \in Seq(BOOLEAN)
    BY <2>1 DEF TabType
  <2>4. box \in Seq(BOOLEAN) /\ box # <<>>
    BY <2>3
  <2>5. Notified(tabs[u], storedFlows') =
          IF tabs[u].open /\ storedFlows' # storedFlows
          THEN [tabs[u] EXCEPT !.inbox = box] ELSE tabs[u]
    BY <2>2 DEF Notified
  <2> HIDE DEF box
  <2> QED BY <2>1, <2>4, <2>5 DEF TabType
<1>4. tabs' \in [Tabs -> TabType]
  BY <1>1, <1>2, <1>3
<1>5. \A u \in Tabs : u # t => tabs'[u] = Notified(tabs[u], storedFlows')
  BY <1>1
<1>6. tabs'[t] = Rendered(tab)
  BY <1>1
<1> QED BY <1>1, <1>2, <1>3, <1>4, <1>5, <1>6

(* The lists are sequences of flows. *)
LEMMA ListFacts ==
    ASSUME FlowsInv
    PROVE  /\ storedFlows \in Lists /\ storedFlows \in Seq(Flow)
           /\ \A t \in Tabs :
                 /\ tabs[t] \in TabType /\ tabs[t].flows \in Lists
                 /\ tabs[t].flows \in Seq(Flow) /\ tabs[t].txs \in Seq(Tx)
BY DEF FlowsInv, Lists, TabType, FlowsOK, ListOK

(* A commit of flows that are as they have to be. *)
LEMMA CommitStep ==
    ASSUME FlowsInv, NEW t \in Tabs, NEW tab \in TabType, NEW set,
           Commit(t, tab, set), chain' \in Seq(Signed), claims' \in Nat,
           FlowsOK(Lists \cup {tab.flows}, chain', claims'),
           ModalsOK(modals', Lists \cup {tab.flows}, claims')
    PROVE  FlowsInv'
<1>1. /\ tabs' \in [Tabs -> TabType]
      /\ storedFlows' \in Lists \cup {tab.flows}
      /\ \A u \in Tabs : tabs'[u].flows \in Lists \cup {tab.flows}
      /\ storedTxs' \in Seq(Tx)
  <2>1. tabs \in [Tabs -> TabType] /\ storedTxs \in Seq(Tx) /\ tab.txs \in Seq(Tx)
    BY DEF FlowsInv, TabType
  <2>2. storedFlows \in Lists /\ \A u \in Tabs : tabs[u].flows \in Lists
    BY ListFacts
  <2>3. /\ tabs' \in [Tabs -> TabType] /\ tabs'[t].flows = tab.flows
        /\ \A u \in Tabs \ {t} : tabs'[u].flows = tabs[u].flows
        /\ storedFlows' = IF "flows" \in set THEN tab.flows ELSE storedFlows
        /\ storedTxs' = IF "txs" \in set THEN tab.txs ELSE storedTxs
    BY <2>1, CommitFacts
  <2> QED BY <2>1, <2>2, <2>3
<1>2. Lists' \subseteq Lists \cup {tab.flows}
  BY <1>1 DEF Lists
<1>3. FlowsOK(Lists', chain', claims') /\ ModalsOK(modals', Lists', claims')
  BY <1>2, FewerAreOK
<1> QED BY <1>1, <1>3 DEF FlowsInv

(* What an outcome says of a transaction. *)
LEMMA OutcomeIsTrue ==
    ASSUME NEW txs \in Seq(Tx), NEW ch, TxsOK(txs, ch), NEW id,
           Outcome(id, txs) = "confirmed"
    PROVE  ch[id].mined
<1> DEFINE I == {n \in DOMAIN txs : txs[n].id = id}
<1>1. PICK i : i = FirstIn(I)
  OBVIOUS
<1>2. Outcome(id, txs) = IF i = 0 THEN "broadcast" ELSE txs[i].status
  BY <1>1 DEF Outcome
<1>3. I \in SUBSET Nat
  OBVIOUS
<1>4. i \in I
  BY <1>1, <1>2, <1>3, FirstIsIn
<1>5. i # 0 /\ i \in DOMAIN txs /\ txs[i].id = id
  BY <1>3, <1>4
<1> QED BY <1>2, <1>5 DEF TxsOK

(* A derived status never runs ahead of the chain. *)
LEMMA DerivedIsTrue ==
    ASSUME NEW txs \in Seq(Tx), NEW ch, TxsOK(txs, ch), NEW f,
           DeriveFlowStatus(f, txs)[2] = "confirmed"
    PROVE  /\ DeriveFlowStatus(f, txs)[1] = "approval" =>
                  f.approval # None /\ ch[f.approval].mined
           /\ DeriveFlowStatus(f, txs)[1] = "action" =>
                  f.action # None /\ ch[f.action].mined
<1>1. CASE f.action # None
  <2>1. DeriveFlowStatus(f, txs) = <<"action", Outcome(f.action, txs)>>
    BY <1>1 DEF DeriveFlowStatus
  <2> QED BY <1>1, <2>1, OutcomeIsTrue
<1>2. CASE f.action = None /\ f.approval # None
  <2>1. DeriveFlowStatus(f, txs) = <<"approval", Outcome(f.approval, txs)>>
    BY <1>2 DEF DeriveFlowStatus
  <2> QED BY <1>2, <2>1, OutcomeIsTrue
<1>3. CASE f.action = None /\ f.approval = None
  BY <1>3 DEF DeriveFlowStatus
<1> QED BY <1>1, <1>2, <1>3

(* Rendering starts a timer only for what is done. *)
LEMMA RenderedIsOK ==
    ASSUME NEW tab \in TabType, NEW ch, NEW cl, TabOK(tab, ch),
           ListOK(tab.flows, ch, cl)
    PROVE  TabOK(Rendered(tab), ch)
<1> DEFINE done == {f.id : f \in {g \in Elements(ActiveFlows(tab)) :
                                     g.status = <<"action", "confirmed">>}}
<1>1. tab.txs \in Seq(Tx) /\ tab.flows \in Seq(Flow)
  BY DEF TabType
<1>2. ASSUME done # {} PROVE ActionMined(ch)
  <2>1. PICK g \in Elements(ActiveFlows(tab)) : g.status = <<"action", "confirmed">>
    BY <1>2
  <2>2. PICK n \in DOMAIN ActiveFlows(tab) : g = ActiveFlows(tab)[n]
    BY DEF Elements
  <2>3. PICK f : f = tab.flows[n]
    OBVIOUS
  <2>4. n \in DOMAIN tab.flows
        /\ DeriveFlowStatus(f, tab.txs) = <<"action", "confirmed">>
    BY <2>1, <2>2, <2>3 DEF ActiveFlows
  <2>5. f.action # None /\ ch[f.action].mined
    BY <1>1, <2>4, DerivedIsTrue DEF TabOK
  <2>6. Named(f, ch, cl)
    BY <2>3, <2>4 DEF ListOK
  <2> QED BY <2>5, <2>6 DEF Named, ActionMined
<1>3. Rendered(tab) = [tab EXCEPT !.timers = tab.timers \cup done]
  BY DEF Rendered
<1> HIDE DEF done
<1>4. /\ Rendered(tab).txs = tab.txs /\ Rendered(tab).poll = tab.poll
      /\ Rendered(tab).timers = tab.timers \cup done
  BY <1>3 DEF TabType
<1> QED BY <1>2, <1>4 DEF TabOK

(* What was true of the tracked transactions stays true. *)
LEMMA StaysTrue ==
    ASSUME NEW ch, NEW d, Continues(ch, d)
    PROVE  /\ \A txs : TxsOK(txs, ch) => TxsOK(txs, d)
           /\ \A tab : TabOK(tab, ch) => TabOK(tab, d)
<1>1. Len(ch) \in Nat /\ Len(d) \in Nat /\ Len(ch) <= Len(d)
  BY DEF Continues
<1>2. \A txs : TxsOK(txs, ch) => TxsOK(txs, d)
  BY <1>1 DEF TxsOK, Continues
<1>3. ActionMined(ch) => ActionMined(d)
  BY <1>1 DEF ActionMined, Continues
<1> QED BY <1>1, <1>2, <1>3 DEF TabOK

(* A tab commits what it may. *)
LEMMA TabCommits ==
    ASSUME TabsInv, NEW t \in Tabs, NEW tab \in TabType, NEW set,
           Commit(t, tab, set), Continues(chain, chain'), claims' \in Nat,
           FlowsOK(Lists \cup {tab.flows}, chain', claims'),
           ModalsOK(modals', Lists \cup {tab.flows}, claims'),
           TabOK(tab, chain'),
           "flows" \in set \/ /\ tab.flows = tabs[t].flows
                              /\ tab.open = tabs[t].open
                              /\ tab.inbox = tabs[t].inbox
    PROVE  TabsInv'
<1>1. tabs \in [Tabs -> TabType]
  BY DEF TabsInv, FlowsInv
<1>2. FlowsInv'
  BY CommitStep DEF TabsInv, Continues
<1>3. StatusInv'
  <2>1. TxsOK(storedTxs, chain') /\ \A u \in Tabs : TabOK(tabs[u], chain')
    BY StaysTrue DEF TabsInv, StatusInv
  <2>2. TxsOK(storedTxs', chain')
    BY <1>1, <2>1, CommitFacts DEF TabOK
  <2>3. TabOK(tabs'[t], chain')
    <3>1. ListOK(tab.flows, chain', claims')
      BY DEF FlowsOK
    <3> QED BY <1>1, <3>1, CommitFacts, RenderedIsOK
  <2>4. ASSUME NEW u \in Tabs \ {t} PROVE TabOK(tabs'[u], chain')
    <3>1. /\ tabs'[u].txs = tabs[u].txs /\ tabs'[u].poll = tabs[u].poll
          /\ tabs'[u].timers = tabs[u].timers
      BY <1>1, CommitFacts
    <3> QED BY <2>1, <3>1 DEF TabOK
  <2> QED BY <2>2, <2>3, <2>4 DEF StatusInv
<1>4. AgreeInv'
  <2>1. ASSUME NEW u \in Tabs, tabs'[u].open, tabs'[u].inbox = <<>>
        PROVE  tabs'[u].flows = storedFlows'
    <3>1. CASE u = t
      BY <1>1, <2>1, <3>1, CommitFacts DEF TabsInv, AgreeInv
    <3>2. CASE u # t
      BY <1>1, <2>1, <3>2, CommitFacts DEF TabsInv, AgreeInv
    <3> QED BY <3>1, <3>2
  <2> QED BY <2>1 DEF AgreeInv
<1> QED BY <1>2, <1>3, <1>4 DEF TabsInv

(* More is signed than was; the flows do not mind. *)
LEMMA SignedMore ==
    ASSUME NEW L, NEW ch \in Seq(Signed), NEW cl, FlowsOK(L, ch, cl),
           NEW d \in Seq(Signed), Len(ch) <= Len(d),
           \A i \in 1 .. Len(ch) : d[i].key = ch[i].key /\ d[i].step = ch[i].step
    PROVE  FlowsOK(L, d, cl)
<1>1. \A f : Named(f, ch, cl) => Named(f, d, cl)
  BY DEF Named
<1> QED BY <1>1 DEF FlowsOK, ListOK

(* A commit of flows some list had. *)
LEMMA DrawnStep ==
    ASSUME TabsInv, NEW t \in Tabs, NEW tab \in TabType, NEW set,
           Commit(t, tab, set), NEW a \in Lists, Drawn(tab.flows, a),
           UNCHANGED claims, Continues(chain, chain'),
           ModalsOK(modals', Lists, claims),
           TabOK(tab, chain'),
           "flows" \in set \/ /\ tab.flows = tabs[t].flows
                              /\ tab.open = tabs[t].open
                              /\ tab.inbox = tabs[t].inbox
    PROVE  TabsInv'
<1>1. tab.flows \in Seq(Flow)
  BY DEF TabType
<1>2. claims \in Nat /\ claims' = claims /\ FlowsOK(Lists, chain, claims)
  BY DEF TabsInv, FlowsInv
<1>3. FlowsOK(Lists, chain', claims)
  BY <1>2, SignedMore DEF Continues
<1>4. /\ FlowsOK(Lists \cup {tab.flows}, chain', claims')
      /\ ModalsOK(modals', Lists \cup {tab.flows}, claims')
  BY <1>1, <1>2, <1>3, DrawnIsOK
<1> QED BY <1>2, <1>4, TabCommits

(* A list, and none of it, are drawn from the list. *)
LEMMA DrawnRefl ==
    ASSUME NEW S, NEW a \in Seq(S)
    PROVE  Drawn(a, a) /\ Drawn(<<>>, a)
<1>1. DOMAIN a = 1 .. Len(a)
  OBVIOUS
<1>2. Drawn(a, a)
  <2>1. [k \in DOMAIN a |-> k] \in [DOMAIN a -> 1 .. Len(a)]
    BY <1>1
  <2> QED BY <2>1 DEF Drawn, DrawnUpTo
<1>3. Drawn(<<>>, a)
  <2>1. [k \in {} |-> k] \in [DOMAIN <<>> -> 1 .. Len(a)]
    OBVIOUS
  <2> QED BY <2>1 DEF Drawn, DrawnUpTo
<1> QED BY <1>2, <1>3

(* The rest of a list. *)
LEMMA TailFacts ==
    ASSUME NEW S, NEW s \in Seq(S), s # <<>>
    PROVE  /\ Tail(s) \in Seq(S) /\ Head(s) = s[1] /\ 1 \in DOMAIN s
           /\ \A n \in DOMAIN Tail(s) : n + 1 \in DOMAIN s /\ Tail(s)[n] = s[n + 1]
OBVIOUS

(* The newest of a list. *)
LEMMA NewestFacts ==
    ASSUME NEW S, NEW list \in Seq(S), NEW n \in Nat
    PROVE  /\ Newest(n, list) \in Seq(S)
           /\ \A k \in DOMAIN Newest(n, list) :
                 k \in DOMAIN list /\ Newest(n, list)[k] = list[k]
<1>1. PICK m \in Nat : m = (IF Len(list) < n THEN Len(list) ELSE n)
  OBVIOUS
<1>2. m <= Len(list) /\ Newest(n, list) = SubSeq(list, 1, m)
  BY <1>1 DEF Newest
<1> QED BY <1>2

(* The flow of a key, as the clicked rendering has it. *)
LEMMA MyFlowFacts ==
    ASSUME FlowsInv, NEW t \in Tabs, NEW key
    PROVE  /\ MyFlow(t, key).id \in Nat /\ MyFlow(t, key).id <= claims
           /\ \A a \in Lists : \A n \in DOMAIN a :
                 a[n].id = MyFlow(t, key).id => a[n].key = key
<1> DEFINE flows == tabs[t].flows
           I == {n \in DOMAIN flows : flows[n].key = key}
<1>1. PICK i : i = FlowOfKey(flows, key)
  OBVIOUS
<1>2. i = FirstIn(I)
  BY <1>1 DEF FlowOfKey
<1>3. flows \in Lists /\ flows \in Seq(Flow) /\ I \subseteq Nat
      /\ FlowsOK(Lists, chain, claims) /\ claims \in Nat
  BY ListFacts DEF FlowsInv
<1>4. i = 0 \/ i \in I
  BY <1>2, <1>3, FirstIsIn
<1>5. \A a \in Lists : \A n \in DOMAIN a : a[n].id \in 1 .. claims
  BY <1>3 DEF FlowsOK, ListOK, Named
<1>6. CASE i = 0
  <2>1. MyFlow(t, key).id = 0
    BY <1>1, <1>6 DEF MyFlow, None
  <2> QED BY <1>3, <1>5, <2>1
<1>7. CASE i \in I
  <2>1. i # 0 /\ i \in DOMAIN flows /\ flows[i].key = key
    BY <1>3, <1>7
  <2>2. MyFlow(t, key).id = flows[i].id
    BY <1>1, <2>1 DEF MyFlow, ActiveFlows
  <2>3. \A a \in Lists : \A n \in DOMAIN a : SameFlow(a[n], flows[i])
    BY <1>3, <2>1 DEF FlowsOK
  <2>4. flows[i].id \in 1 .. claims
    BY <1>3, <1>5, <2>1
  <2> QED BY <1>3, <2>1, <2>2, <2>3, <2>4 DEF SameFlow
<1> QED BY <1>4, <1>6, <1>7

-----------------------------------------------------------------------------
(* Every step keeps the invariant. *)

(* The list a tab reads from the storage. *)
LEMMA LoadedFlows ==
    ASSUME FlowsInv, NEW stale
    PROVE  LoadFlows(stale) \in Seq(Flow) /\ Drawn(LoadFlows(stale), storedFlows)
BY ListFacts, FilteredIsDrawn DEF LoadFlows

(* What a tab keeps of its flows. *)
LEMMA WithoutOne ==
    ASSUME NEW flows \in Seq(Flow), NEW id
    PROVE  Without(flows, id) \in Seq(Flow) /\ Drawn(Without(flows, id), flows)
BY FilteredIsDrawn DEF Without

(* What every tab knows in the invariant. *)
LEMMA TabFacts ==
    ASSUME TabsInv, NEW t \in Tabs
    PROVE  /\ tabs[t] \in TabType /\ TabOK(tabs[t], chain)
           /\ tabs[t].flows \in Lists /\ tabs[t].flows \in Seq(Flow)
           /\ Drawn(tabs[t].flows, tabs[t].flows)
           /\ tabs[t].txs \in Seq(Tx) /\ TxsOK(tabs[t].txs, chain)
           /\ tabs[t].poll \in Seq(Nat)
BY ListFacts, DrawnRefl DEF TabsInv, StatusInv, TabOK, TabType

(* Nothing is signed or claimed and no modal moves. *)
LEMMA QuietStep ==
    ASSUME TabsInv, NEW t \in Tabs, NEW tab \in TabType, NEW set,
           Commit(t, tab, set), NEW a \in Lists, Drawn(tab.flows, a),
           UNCHANGED <<chain, modals, claims>>,
           TabOK(tab, chain),
           "flows" \in set \/ /\ tab.flows = tabs[t].flows
                              /\ tab.open = tabs[t].open
                              /\ tab.inbox = tabs[t].inbox
    PROVE  TabsInv'
<1>1. chain' = chain /\ Continues(chain, chain') /\ modals' = modals
      /\ claims' = claims /\ ModalsOK(modals', Lists, claims)
  BY DEF TabsInv, FlowsInv, Continues
<1>2. TabOK(tab, chain')
  BY <1>1
<1> QED BY <1>1, <1>2, DrawnStep

(* A modal that waits for nothing captured nothing. *)
LEMMA IdleIsOK ==
    ASSUME TabsInv, NEW t \in Tabs
    PROVE  /\ ModalsOK(modals, Lists, claims)
           /\ ModalsOK([modals EXCEPT ![t] = IdleModal], Lists, claims)
<1>1. IdleModal \in ModalType /\ IdleModal.my = 0 /\ IdleModal.claimed = 0
      /\ IdleModal.sending = "none"
  BY DEF IdleModal, ModalType, None
<1>2. /\ FlowsOK(Lists, chain, claims) /\ ModalsOK(modals, Lists, claims)
      /\ claims \in Nat
  BY DEF TabsInv, FlowsInv
<1>3. \A a \in Lists : \A n \in DOMAIN a : a[n].id # 0
  BY <1>2 DEF FlowsOK, ListOK, Named
<1>4. ModalOK(IdleModal, Lists, claims)
  BY <1>1, <1>2, <1>3 DEF ModalOK
<1> QED BY <1>2, <1>4 DEF ModalsOK, ModalOK

(* The newest of good transactions are good. *)
LEMMA KeptIsOK ==
    ASSUME NEW txs \in Seq(Tx)
    PROVE  /\ Kept(txs) \in Seq(Tx)
           /\ \A ch : TxsOK(txs, ch) => TxsOK(Kept(txs), ch)
<1>1. KeptTxs \in Nat
  BY FlowsAssumption
<1> QED BY <1>1, NewestFacts DEF Kept, TxsOK

(* A tab is opened on what the storage has. *)
LEMMA OpenTabStep ==
    ASSUME TabsInv, NEW t \in Tabs, OpenTab(t) PROVE TabsInv'
<1>1. PICK stale :
        Commit(t, [NoTab EXCEPT !.open = TRUE, !.flows = LoadFlows(stale),
                                !.txs = Kept(storedTxs)], {"flows", "txs"})
  BY DEF OpenTab
<1>2. PICK flows : flows = LoadFlows(stale)
  OBVIOUS
<1>3. PICK txs : txs = Kept(storedTxs)
  OBVIOUS
<1>4. flows \in Seq(Flow) /\ Drawn(flows, storedFlows) /\ storedFlows \in Lists
  BY <1>2, LoadedFlows, ListFacts DEF TabsInv
<1>5. txs \in Seq(Tx) /\ TxsOK(txs, chain)
  BY <1>3, KeptIsOK DEF TabsInv, FlowsInv, StatusInv
<1>6. PICK tab : tab = [NoTab EXCEPT !.open = TRUE, !.flows = flows,
                                     !.txs = txs]
  OBVIOUS
<1>7. tab = [open |-> TRUE, flows |-> flows, txs |-> txs, timers |-> {},
             inbox |-> <<>>, poll |-> <<>>]
  BY <1>6 DEF NoTab
<1>8. tab \in TabType /\ tab.flows = flows /\ TabOK(tab, chain)
  BY <1>4, <1>5, <1>7 DEF TabType, TabOK
<1>9. Commit(t, tab, {"flows", "txs"})
  BY <1>1, <1>2, <1>3, <1>6
<1> QED BY <1>4, <1>8, <1>9, QuietStep DEF OpenTab

(* A tab is closed. *)
LEMMA CloseTabStep ==
    ASSUME TabsInv, NEW t \in Tabs, CloseTab(t) PROVE TabsInv'
<1>1. /\ tabs' = [tabs EXCEPT ![t] = NoTab]
      /\ modals' = [modals EXCEPT ![t] = IdleModal]
      /\ UNCHANGED <<chain, storedFlows, storedTxs, claims>>
  BY DEF CloseTab
<1>2. NoTab \in TabType /\ NoTab.flows = <<>> /\ ~NoTab.open /\ TabOK(NoTab, chain)
  BY DEF NoTab, TabType, TabOK, TxsOK
<1>3. tabs' \in [Tabs -> TabType] /\ tabs'[t] = NoTab
      /\ \A u \in Tabs \ {t} : tabs'[u] = tabs[u]
  BY <1>1, <1>2 DEF TabsInv, FlowsInv
<1>4. storedFlows \in Lists /\ Drawn(<<>>, storedFlows) /\ <<>> \in Seq(Flow)
      /\ FlowsOK(Lists, chain, claims)
  BY ListFacts, DrawnRefl DEF TabsInv, FlowsInv
<1>5. Lists' \subseteq Lists \cup {<<>>}
  BY <1>1, <1>2, <1>3 DEF Lists
<1>6. ModalsOK(modals', Lists, claims)
  BY <1>1, IdleIsOK
<1>7. FlowsOK(Lists', chain, claims) /\ ModalsOK(modals', Lists', claims)
  <2>1. /\ FlowsOK(Lists \cup {<<>>}, chain, claims)
        /\ ModalsOK(modals', Lists \cup {<<>>}, claims)
    BY <1>4, <1>6, DrawnIsOK
  <2> QED BY <1>5, <2>1, FewerAreOK
<1>8. FlowsInv'
  BY <1>1, <1>3, <1>7 DEF TabsInv, FlowsInv
<1>9. StatusInv'
  BY <1>1, <1>2, <1>3 DEF TabsInv, StatusInv
<1>10. AgreeInv'
  BY <1>1, <1>2, <1>3 DEF TabsInv, AgreeInv
<1> QED BY <1>8, <1>9, <1>10 DEF TabsInv

(* A storage event arrives. *)
LEMMA OnStorageStep ==
    ASSUME TabsInv, NEW t \in Tabs, OnStorage(t) PROVE TabsInv'
<1>1. tabs[t].inbox # <<>> /\ tabs[t] \in TabType /\ TabOK(tabs[t], chain)
  BY TabFacts DEF OnStorage
<1>2. PICK stale :
        Commit(t, [tabs[t] EXCEPT !.inbox = Tail(@),
                      !.flows = IF Head(tabs[t].inbox) THEN LoadFlows(stale)
                                ELSE <<>>], {"flows"})
  BY DEF OnStorage
<1>3. PICK flows : flows = IF Head(tabs[t].inbox) THEN LoadFlows(stale) ELSE <<>>
  OBVIOUS
<1>4. flows \in Seq(Flow) /\ Drawn(flows, storedFlows) /\ storedFlows \in Lists
  <2>1. <<>> \in Seq(Flow)
    OBVIOUS
  <2> QED BY <1>3, <2>1, LoadedFlows, ListFacts, DrawnRefl DEF TabsInv
<1>5. PICK box : box = Tail(tabs[t].inbox)
  OBVIOUS
<1>6. box \in Seq(BOOLEAN)
  <2>1. tabs[t].inbox \in Seq(BOOLEAN)
    BY <1>1 DEF TabType
  <2> QED BY <1>1, <1>5, <2>1, TailFacts
<1>7. PICK tab : tab = [tabs[t] EXCEPT !.inbox = box, !.flows = flows]
  OBVIOUS
<1>8. tab \in TabType /\ tab.flows = flows /\ TabOK(tab, chain)
  BY <1>1, <1>4, <1>6, <1>7 DEF TabType, TabOK
<1>9. Commit(t, tab, {"flows"})
  BY <1>2, <1>3, <1>5, <1>7
<1> QED BY <1>4, <1>8, <1>9, QuietStep DEF OnStorage

(* A timer releases a flow. *)
LEMMA AutoReleaseStep ==
    ASSUME TabsInv, NEW t \in Tabs, NEW id, AutoRelease(t, id) PROVE TabsInv'
<1>1. /\ tabs[t] \in TabType /\ tabs[t].flows \in Lists
      /\ tabs[t].flows \in Seq(Flow) /\ TabOK(tabs[t], chain)
  BY TabFacts
<1>2. PICK flows : flows = Without(tabs[t].flows, id)
  OBVIOUS
<1>3. flows \in Seq(Flow) /\ Drawn(flows, tabs[t].flows)
  BY <1>1, <1>2, WithoutOne
<1>4. PICK timers : timers = tabs[t].timers \ {id}
  OBVIOUS
<1>5. timers \in SUBSET Nat
  BY <1>1, <1>4 DEF TabType
<1>6. PICK tab : tab = [tabs[t] EXCEPT !.timers = timers, !.flows = flows]
  OBVIOUS
<1>7. tab \in TabType /\ tab.flows = flows /\ TabOK(tab, chain)
  <2>1. tab \in TabType /\ tab.flows = flows /\ tab.timers = timers
        /\ tab.txs = tabs[t].txs /\ tab.poll = tabs[t].poll
    BY <1>1, <1>3, <1>5, <1>6 DEF TabType
  <2> QED BY <1>1, <1>4, <2>1 DEF TabOK
<1>8. Commit(t, tab, {"flows"})
  BY <1>2, <1>4, <1>6 DEF AutoRelease
<1> QED BY <1>1, <1>3, <1>7, <1>8, QuietStep DEF AutoRelease

(* A flow is given up, and the modal may forget it. *)
LEMMA AbandonFlowStep ==
    ASSUME TabsInv, NEW t \in Tabs, NEW id, AbandonFlow(t, id) PROVE TabsInv'
<1>1. /\ tabs[t] \in TabType /\ tabs[t].flows \in Lists
      /\ tabs[t].flows \in Seq(Flow) /\ TabOK(tabs[t], chain)
  BY TabFacts
<1>2. PICK flows : flows = Without(tabs[t].flows, id)
  OBVIOUS
<1>3. flows \in Seq(Flow) /\ Drawn(flows, tabs[t].flows)
  BY <1>1, <1>2, WithoutOne
<1>4. PICK tab : tab = [tabs[t] EXCEPT !.flows = flows]
  OBVIOUS
<1>5. tab \in TabType /\ tab.flows = flows /\ TabOK(tab, chain)
  BY <1>1, <1>3, <1>4 DEF TabType, TabOK
<1>6. Commit(t, tab, {"flows"})
  BY <1>2, <1>4 DEF AbandonFlow, CommitFlows
<1>7. ModalsOK(modals', Lists, claims)
  <2>1. /\ ModalsOK(modals, Lists, claims) /\ modals \in [Tabs -> ModalType]
        /\ FlowsOK(Lists, chain, claims) /\ claims \in Nat
    BY DEF TabsInv, FlowsInv, ModalsOK
  <2>2. CASE modals' = modals
    BY <2>1, <2>2
  <2>3. CASE modals' = [modals EXCEPT ![t].claimed = None]
    <3>1. PICK m : m = [modals[t] EXCEPT !.claimed = None]
      OBVIOUS
    <3>2. m \in ModalType /\ m.claimed = 0 /\ m.my = modals[t].my
          /\ m.key = modals[t].key /\ m.sending = modals[t].sending
      BY <2>1, <3>1 DEF ModalType, None
    <3>3. \A a \in Lists : \A n \in DOMAIN a : a[n].id # 0
      BY <2>1 DEF FlowsOK, ListOK, Named
    <3>4. ModalOK(modals[t], Lists, claims)
      BY <2>1 DEF ModalsOK
    <3>5. ModalOK(m, Lists, claims)
      BY <2>1, <3>2, <3>3, <3>4 DEF ModalOK
    <3>6. modals' = [modals EXCEPT ![t] = m]
      BY <2>3, <3>1
    <3> QED BY <2>1, <3>2, <3>5, <3>6 DEF ModalsOK
  <2> QED BY <2>2, <2>3 DEF AbandonFlow
<1>8. UNCHANGED <<chain, claims>> /\ Continues(chain, chain')
  BY DEF AbandonFlow, TabsInv, FlowsInv, Continues
<1>9. TabOK(tab, chain')
  BY <1>5, <1>8
<1> QED BY <1>1, <1>3, <1>5, <1>6, <1>7, <1>8, <1>9, DrawnStep

(* A flow is claimed before the wallet is asked for the approval. *)
LEMMA ClickApproveStep ==
    ASSUME TabsInv, NEW t \in Tabs, NEW key \in Keys, ClickApprove(t, key)
    PROVE  TabsInv'
<1>1. /\ tabs[t] \in TabType /\ tabs[t].flows \in Lists
      /\ TabOK(tabs[t], chain)
  BY TabFacts
<1>2. /\ FlowsOK(Lists, chain, claims) /\ ModalsOK(modals, Lists, claims)
      /\ claims \in Nat /\ chain \in Seq(Signed)
  BY DEF TabsInv, FlowsInv
<1>3. PICK f : f = [id |-> claims + 1, key |-> key, approval |-> None,
                    action |-> None]
  OBVIOUS
<1>4. f \in Flow /\ f.id = claims + 1 /\ f.key = key /\ f.approval = None
      /\ f.action = None
  BY <1>2, <1>3 DEF Flow, None
<1>5. PICK flows : flows = Claimed(tabs[t].flows, f)
  OBVIOUS
<1>6. /\ flows \in Seq(Flow)
      /\ FlowsOK(Lists \cup {flows}, chain, claims + 1)
      /\ \A b \in Lists \cup {flows} : \A n \in DOMAIN b :
            b[n] = f \/ Among(b[n], Lists)
  <2>1. PICK a \in Lists : a = tabs[t].flows
    BY <1>1
  <2>2. /\ Claimed(a, f) \in Seq(Flow)
        /\ FlowsOK(Lists \cup {Claimed(a, f)}, chain, claims + 1)
        /\ AddsOnly(f, Claimed(a, f), Lists)
    BY <1>2, <1>4, ClaimedIsOK
  <2>3. flows = Claimed(a, f)
    BY <1>5, <2>1
  <2> QED BY <2>2, <2>3 DEF AddsOnly
<1>7. PICK tab : tab = [tabs[t] EXCEPT !.flows = flows]
  OBVIOUS
<1>8. tab \in TabType /\ tab.flows = flows /\ TabOK(tab, chain)
  BY <1>1, <1>6, <1>7 DEF TabType, TabOK
<1>9. /\ Commit(t, tab, {"flows"}) /\ claims' = claims + 1 /\ chain' = chain
      /\ modals' = [modals EXCEPT ![t] =
                      [sending |-> "approval", key |-> key,
                       my |-> MyFlow(t, key).id, claimed |-> claims + 1]]
  BY <1>3, <1>5, <1>7 DEF ClickApprove, CommitFlows
<1>10. PICK m : m = [sending |-> "approval", key |-> key,
                     my |-> MyFlow(t, key).id, claimed |-> claims + 1]
  OBVIOUS
<1>11. /\ m.my \in Nat /\ m.my <= claims
       /\ \A a \in Lists : \A n \in DOMAIN a : a[n].id = m.my => a[n].key = key
  BY <1>10, MyFlowFacts DEF TabsInv
<1>12. /\ m \in ModalType /\ m.key = key /\ m.claimed = claims + 1
  BY <1>2, <1>10, <1>11 DEF ModalType
<1>13. \A c \in Lists : \A n \in DOMAIN c : c[n].id \in 1 .. claims
  BY <1>2 DEF FlowsOK, ListOK, Named
<1>14. ModalOK(m, Lists \cup {flows}, claims + 1)
  <2>1. ASSUME NEW b \in Lists \cup {flows}, NEW n \in DOMAIN b,
               b[n].id \in {m.my, m.claimed}
        PROVE  b[n].key = m.key
    BY <1>2, <1>4, <1>6, <1>11, <1>12, <1>13, <2>1 DEF Among
  <2> QED BY <1>2, <1>11, <1>12, <2>1 DEF ModalOK
<1>15. ASSUME NEW u \in Tabs PROVE ModalOK(modals[u], Lists \cup {flows}, claims + 1)
  <2>1. ModalOK(modals[u], Lists, claims) /\ modals[u] \in ModalType
    BY <1>2 DEF ModalsOK
  <2>2. modals[u].my \in Nat /\ modals[u].claimed \in Nat
    BY <2>1 DEF ModalType
  <2>3. ASSUME NEW b \in Lists \cup {flows}, NEW n \in DOMAIN b,
               b[n].id \in {modals[u].my, modals[u].claimed}
        PROVE  b[n].key = modals[u].key
    <3>1. b[n] # f
      BY <1>2, <1>4, <2>1, <2>2, <2>3 DEF ModalOK
    <3>2. PICK c \in Lists : \E k \in DOMAIN c : b[n] = c[k]
      BY <1>6, <3>1 DEF Among
    <3> QED BY <2>1, <2>3, <3>2 DEF ModalOK
  <2> QED BY <1>2, <2>1, <2>2, <2>3 DEF ModalOK
<1>16. ModalsOK(modals', Lists \cup {flows}, claims + 1)
  <2>1. modals' = [modals EXCEPT ![t] = m] /\ modals \in [Tabs -> ModalType]
    BY <1>2, <1>9, <1>10 DEF ModalsOK
  <2> QED BY <1>12, <1>14, <1>15, <2>1 DEF ModalsOK
<1>17. Continues(chain, chain') /\ claims' \in Nat /\ TabOK(tab, chain')
  BY <1>2, <1>8, <1>9 DEF Continues
<1> QED BY <1>6, <1>8, <1>9, <1>16, <1>17, TabCommits

(* The wallet is asked for the action. *)
LEMMA ClickActionStep ==
    ASSUME TabsInv, NEW t \in Tabs, NEW key \in Keys, ClickAction(t, key)
    PROVE  TabsInv'
<1>1. PICK m : m = [IdleModal EXCEPT !.sending = "action", !.key = key,
                                     !.my = MyFlow(t, key).id]
  OBVIOUS
<1>2. /\ modals' = [modals EXCEPT ![t] = m]
      /\ UNCHANGED <<chain, storedFlows, storedTxs, tabs, claims>>
  BY <1>1 DEF ClickAction
<1>3. m = [sending |-> "action", key |-> key, my |-> MyFlow(t, key).id,
           claimed |-> 0]
  BY <1>1 DEF IdleModal, None
<1>4. /\ FlowsOK(Lists, chain, claims) /\ ModalsOK(modals, Lists, claims)
      /\ claims \in Nat /\ FlowsInv
  BY DEF TabsInv, FlowsInv
<1>5. /\ m.my \in Nat /\ m.my <= claims
      /\ \A a \in Lists : \A n \in DOMAIN a : a[n].id = m.my => a[n].key = key
  BY <1>3, <1>4, MyFlowFacts
<1>6. m \in ModalType /\ m.claimed = 0 /\ m.key = key
  BY <1>3, <1>5 DEF ModalType
<1>7. \A a \in Lists : \A n \in DOMAIN a : a[n].id # 0
  BY <1>4 DEF FlowsOK, ListOK, Named
<1>8. ModalOK(m, Lists, claims)
  BY <1>4, <1>5, <1>6, <1>7 DEF ModalOK
<1>9. ModalsOK(modals', Lists, claims)
  BY <1>2, <1>4, <1>6, <1>8 DEF ModalsOK
<1>10. Lists' = Lists
  BY <1>2 DEF Lists
<1>11. FlowsInv'
  BY <1>2, <1>4, <1>9, <1>10 DEF FlowsInv
<1> QED BY <1>2, <1>11 DEF TabsInv, StatusInv, AgreeInv

(* A transaction is signed: the list of what was signed goes on. *)
LEMMA SignedOne ==
    ASSUME NEW ch \in Seq(Signed), NEW x \in Signed
    PROVE  /\ Continues(ch, Append(ch, x)) /\ Append(ch, x) \in Seq(Signed)
           /\ Len(Append(ch, x)) = Len(ch) + 1
           /\ Len(ch) + 1 \in 1 .. Len(Append(ch, x))
<1>1. /\ Append(ch, x) \in Seq(Signed) /\ Len(Append(ch, x)) = Len(ch) + 1
      /\ \A i \in 1 .. Len(ch) : Append(ch, x)[i] = ch[i]
      /\ Len(ch) \in Nat
  OBVIOUS
<1> QED BY <1>1 DEF Continues

(* A transaction is tracked: it was signed. *)
LEMMA AddedIsOK ==
    ASSUME NEW ch \in Seq(Signed), NEW x \in Signed, NEW txs \in Seq(Tx),
           TxsOK(txs, ch)
    PROVE  /\ AddTransaction(txs, Len(ch) + 1) \in Seq(Tx)
           /\ TxsOK(AddTransaction(txs, Len(ch) + 1), Append(ch, x))
<1>1. PICK tx : tx = [id |-> Len(ch) + 1, status |-> "broadcast"]
  OBVIOUS
<1>2. tx \in Tx /\ tx.id = Len(ch) + 1 /\ tx.status # "confirmed"
  BY <1>1 DEF Tx
<1>3. PICK d : d = Append(ch, x)
  OBVIOUS
<1>4. TxsOK(txs, d) /\ Len(ch) + 1 \in 1 .. Len(d)
  BY <1>3, SignedOne, StaysTrue
<1>5. PICK more : more = <<tx>> \o txs
  OBVIOUS
<1>6. /\ more \in Seq(Tx)
      /\ \A n \in DOMAIN more : more[n] = tx \/ \E k \in DOMAIN txs : more[n] = txs[k]
  <2>1. <<tx>> \in Seq(Tx) /\ Len(<<tx>>) = 1 /\ <<tx>>[1] = tx
    BY <1>2
  <2>2. more \in Seq(Tx) /\ Len(more) = 1 + Len(txs) /\ Len(txs) \in Nat
    BY <1>5, <2>1
  <2>3. ASSUME NEW n \in DOMAIN more
        PROVE  more[n] = tx \/ \E k \in DOMAIN txs : more[n] = txs[k]
    <3>1. n \in 1 .. 1 + Len(txs)
      BY <2>2
    <3>2. CASE n = 1
      BY <1>5, <2>1, <3>2
    <3>3. CASE n # 1
      <4>1. more[n] = txs[n - 1] /\ n - 1 \in DOMAIN txs
        BY <1>5, <2>1, <2>2, <3>1, <3>3
      <4> QED BY <4>1
    <3> QED BY <3>2, <3>3
  <2> QED BY <2>2, <2>3
<1>7. TxsOK(more, d)
  BY <1>2, <1>4, <1>6 DEF TxsOK
<1>8. AddTransaction(txs, Len(ch) + 1) = Kept(more)
  BY <1>1, <1>5 DEF AddTransaction
<1> QED BY <1>3, <1>6, <1>7, <1>8, KeptIsOK

(* The wallet has signed what a modal asked for. *)
LEMMA SentStep ==
    ASSUME TabsInv, NEW t \in Tabs, Sent(t) PROVE TabsInv'
<1>1. PICK m : m = modals[t]
  OBVIOUS
<1>2. PICK tx : tx = Len(chain) + 1
  OBVIOUS
<1>3. PICK x : x = [key |-> m.key, step |-> m.sending, mined |-> FALSE,
                    old |-> FALSE]
  OBVIOUS
<1>4. PICK id : id = IF m.sending = "approval" THEN ResolveFlowId(m) ELSE m.my
  OBVIOUS
<1>5. PICK txs : txs = AddTransaction(tabs[t].txs, tx)
  OBVIOUS
<1>6. PICK tab : tab = [tabs[t] EXCEPT !.txs = txs]
  OBVIOUS
<1>7. /\ m.sending # "none" /\ chain' = Append(chain, x) /\ claims' = claims
      /\ IF id = None THEN Commit(t, tab, {"txs"})
         ELSE Commit(t, [tab EXCEPT !.flows = Updated(@, id, m.sending, tx)],
                     {"flows", "txs"})
      /\ modals' = [modals EXCEPT ![t] = IdleModal]
  BY <1>1, <1>2, <1>3, <1>4, <1>5, <1>6 DEF Sent
<1>8. /\ chain \in Seq(Signed) /\ claims \in Nat /\ FlowsOK(Lists, chain, claims)
      /\ ModalOK(m, Lists, claims)
  BY <1>1 DEF TabsInv, FlowsInv, ModalsOK
<1>9. m.key \in Keys /\ m.sending \in {"approval", "action"} /\ m.my \in Nat
      /\ m.claimed \in Nat
  BY <1>7, <1>8 DEF ModalOK, ModalType
<1>10. x \in Signed /\ x.key = m.key /\ x.step = m.sending
  BY <1>3, <1>9 DEF Signed
<1>11. /\ Continues(chain, chain') /\ chain' \in Seq(Signed)
  BY <1>7, <1>8, <1>10, SignedOne
<1>12. /\ tabs[t] \in TabType /\ TabOK(tabs[t], chain) /\ tabs[t].flows \in Lists
       /\ Drawn(tabs[t].flows, tabs[t].flows) /\ tabs[t].txs \in Seq(Tx)
       /\ TxsOK(tabs[t].txs, chain)
  BY TabFacts
<1>13. txs \in Seq(Tx) /\ TxsOK(txs, chain')
  BY <1>2, <1>5, <1>7, <1>8, <1>10, <1>12, AddedIsOK
<1>14. /\ tab \in TabType /\ tab.flows = tabs[t].flows /\ tab.txs = txs
       /\ tab.open = tabs[t].open /\ tab.inbox = tabs[t].inbox
       /\ tab.poll = tabs[t].poll /\ tab.timers = tabs[t].timers
  BY <1>6, <1>12, <1>13 DEF TabType
<1>15. TabOK(tab, chain')
  <2>1. TabOK(tabs[t], chain')
    BY <1>11, <1>12, StaysTrue
  <2> QED BY <1>13, <1>14, <2>1 DEF TabOK
<1>16. ModalsOK(modals', Lists, claims)
  BY <1>7, IdleIsOK
<1>17. CASE id = None
  <2>1. Commit(t, tab, {"txs"})
    BY <1>7, <1>17
  <2> QED BY <1>7, <1>11, <1>12, <1>14, <1>15, <1>16, <2>1, DrawnStep
<1>18. CASE id # None
  <2>1. PICK flows : flows = Updated(tabs[t].flows, id, m.sending, tx)
    OBVIOUS
  <2>2. id \in Nat /\ \A b \in Lists : \A n \in DOMAIN b :
                         b[n].id = id => b[n].key = m.key
    BY <1>4, <1>8, <1>9 DEF ResolveFlowId, ModalOK
  <2>3. /\ flows \in Seq(Flow)
        /\ FlowsOK(Lists \cup {flows}, chain', claims)
        /\ ModalsOK(modals', Lists \cup {flows}, claims)
    <3>1. PICK a \in Lists : a = tabs[t].flows
      BY <1>12
    <3>2. PICK key \in Keys, step \in {"approval", "action"} :
             key = m.key /\ step = m.sending
      BY <1>9
    <3>3. x.key = key /\ x.step = step
      BY <1>10, <3>2
    <3>4. \A b \in Lists : \A n \in DOMAIN b : b[n].id = id => b[n].key = key
      BY <2>2, <3>2
    <3>5. flows = Updated(a, id, step, Len(chain) + 1)
      BY <1>2, <2>1, <3>1, <3>2
    <3>6. chain' = Append(chain, x)
      BY <1>7
    <3> QED BY <1>8, <1>10, <1>16, <2>2, <3>3, <3>4, <3>5, <3>6, UpdatedIsOK
  <2>4. PICK tab2 : tab2 = [tab EXCEPT !.flows = flows]
    OBVIOUS
  <2>5. /\ tab2 \in TabType /\ tab2.flows = flows /\ tab2.txs = tab.txs
        /\ tab2.poll = tab.poll /\ tab2.timers = tab.timers
    BY <1>14, <2>3, <2>4 DEF TabType
  <2>6. Commit(t, tab2, {"flows", "txs"})
    BY <1>7, <1>14, <1>18, <2>1, <2>4
  <2>7. TabOK(tab2, chain')
    BY <1>15, <2>5 DEF TabOK
  <2> QED BY <1>7, <1>8, <1>11, <2>3, <2>5, <2>6, <2>7, TabCommits
<1> QED BY <1>17, <1>18

(* A call of one step is signed. *)
LEMMA SingleCallSentStep ==
    ASSUME TabsInv, NEW t \in Tabs, SingleCallSent(t) PROVE TabsInv'
<1>1. PICK x : x = [key |-> None, step |-> "single", mined |-> FALSE,
                    old |-> FALSE]
  OBVIOUS
<1>2. PICK txs : txs = AddTransaction(tabs[t].txs, Len(chain) + 1)
  OBVIOUS
<1>3. PICK tab : tab = [tabs[t] EXCEPT !.txs = txs]
  OBVIOUS
<1>4. /\ chain' = Append(chain, x) /\ claims' = claims /\ modals' = modals
      /\ Commit(t, tab, {"txs"})
  BY <1>1, <1>2, <1>3 DEF SingleCallSent
<1>5. chain \in Seq(Signed) /\ x \in Signed
  BY <1>1 DEF TabsInv, FlowsInv, Signed
<1>6. /\ tabs[t] \in TabType /\ TabOK(tabs[t], chain) /\ tabs[t].flows \in Lists
      /\ Drawn(tabs[t].flows, tabs[t].flows) /\ tabs[t].txs \in Seq(Tx)
      /\ TxsOK(tabs[t].txs, chain)
  BY TabFacts
<1>7. Continues(chain, chain') /\ txs \in Seq(Tx) /\ TxsOK(txs, chain')
  BY <1>2, <1>4, <1>5, <1>6, SignedOne, AddedIsOK
<1>8. /\ tab \in TabType /\ tab.flows = tabs[t].flows /\ tab.txs = txs
      /\ tab.open = tabs[t].open /\ tab.inbox = tabs[t].inbox
      /\ tab.poll = tabs[t].poll /\ tab.timers = tabs[t].timers
  BY <1>3, <1>6, <1>7 DEF TabType
<1>9. TabOK(tab, chain')
  <2>1. TabOK(tabs[t], chain')
    BY <1>6, <1>7, StaysTrue
  <2> QED BY <1>7, <1>8, <2>1 DEF TabOK
<1>10. ModalsOK(modals', Lists, claims)
  BY <1>4, IdleIsOK
<1> QED BY <1>4, <1>6, <1>7, <1>8, <1>9, <1>10, DrawnStep

(* The wallet refuses, or the modal was closed. *)
LEMMA SendFailsStep ==
    ASSUME TabsInv, NEW t \in Tabs, SendFails(t) PROVE TabsInv'
<1>1. /\ modals' = [modals EXCEPT ![t] = IdleModal]
      /\ UNCHANGED <<chain, storedFlows, storedTxs, tabs, claims>>
  BY DEF SendFails
<1>2. Lists' = Lists
  BY <1>1 DEF Lists
<1>3. ModalsOK(modals', Lists, claims)
  BY <1>1, IdleIsOK
<1>4. FlowsInv'
  BY <1>1, <1>2, <1>3 DEF TabsInv, FlowsInv
<1> QED BY <1>1, <1>4 DEF TabsInv, StatusInv, AgreeInv

(* The tracked transactions change, the flows do not. *)
LEMMA TxsStep ==
    ASSUME TabsInv, NEW t \in Tabs, NEW txs \in Seq(Tx), TxsOK(txs, chain),
           NEW poll \in Seq(Nat),
           \A n \in DOMAIN poll : poll[n] \in 1 .. Len(chain),
           NEW set, Commit(t, [tabs[t] EXCEPT !.txs = txs, !.poll = poll], set),
           UNCHANGED <<chain, modals, claims>>
    PROVE  TabsInv'
<1>1. /\ tabs[t] \in TabType /\ TabOK(tabs[t], chain) /\ tabs[t].flows \in Lists
      /\ Drawn(tabs[t].flows, tabs[t].flows)
  BY TabFacts
<1>2. PICK tab : tab = [tabs[t] EXCEPT !.txs = txs, !.poll = poll]
  OBVIOUS
<1>3. /\ tab \in TabType /\ tab.flows = tabs[t].flows /\ tab.txs = txs
      /\ tab.open = tabs[t].open /\ tab.inbox = tabs[t].inbox
      /\ tab.poll = poll /\ tab.timers = tabs[t].timers
  BY <1>1, <1>2 DEF TabType
<1>4. TabOK(tab, chain)
  BY <1>1, <1>3 DEF TabOK
<1>5. Commit(t, tab, set)
  BY <1>2
<1>6. Drawn(tab.flows, tabs[t].flows)
  BY <1>1, <1>3
<1> QED BY <1>1, <1>3, <1>4, <1>5, <1>6, QuietStep

(* Confirmed transactions are cleared away. *)
LEMMA ClearConfirmedStep ==
    ASSUME TabsInv, NEW t \in Tabs, ClearConfirmed(t) PROVE TabsInv'
<1>1. PICK I : I = DOMAIN tabs[t].txs
                   \ {n \in DOMAIN tabs[t].txs : tabs[t].txs[n].status = "confirmed"}
  OBVIOUS
<1>2. PICK txs : txs = Filtered(tabs[t].txs, I)
  OBVIOUS
<1>3. /\ tabs[t] \in TabType /\ TabOK(tabs[t], chain) /\ tabs[t].txs \in Seq(Tx)
      /\ TxsOK(tabs[t].txs, chain) /\ tabs[t].poll \in Seq(Nat)
  BY TabFacts
<1>4. txs \in Seq(Tx) /\ Drawn(txs, tabs[t].txs)
  BY <1>2, <1>3, FilteredIsDrawn
<1>5. TxsOK(txs, chain)
  <2>1. DOMAIN tabs[t].txs = 1 .. Len(tabs[t].txs)
    BY <1>3
  <2>2. \A n \in DOMAIN txs : \E k \in DOMAIN tabs[t].txs : txs[n] = tabs[t].txs[k]
    BY <1>4, <2>1 DEF Drawn, DrawnUpTo
  <2> QED BY <1>3, <2>2 DEF TxsOK
<1>6. PICK poll : poll = tabs[t].poll
  OBVIOUS
<1>7. [tabs[t] EXCEPT !.txs = txs] = [tabs[t] EXCEPT !.txs = txs, !.poll = poll]
  BY <1>3, <1>6 DEF TabType
<1>8. Commit(t, [tabs[t] EXCEPT !.txs = txs], {"txs"})
  BY <1>1, <1>2 DEF ClearConfirmed
<1>9. Commit(t, [tabs[t] EXCEPT !.txs = txs, !.poll = poll], {"txs"})
  BY <1>7, <1>8
<1>10. poll \in Seq(Nat) /\ \A n \in DOMAIN poll : poll[n] \in 1 .. Len(chain)
  BY <1>3, <1>6 DEF TabOK
<1> QED BY <1>4, <1>5, <1>9, <1>10, TxsStep DEF ClearConfirmed

(* Nothing the user sees changes: the lists stay. *)
LEMMA SameListsStep ==
    ASSUME TabsInv, tabs' \in [Tabs -> TabType],
           \A u \in Tabs : /\ tabs'[u].flows = tabs[u].flows
                           /\ tabs'[u].open = tabs[u].open
                           /\ tabs'[u].inbox = tabs[u].inbox
                           /\ TabOK(tabs'[u], chain'),
           Continues(chain, chain'),
           UNCHANGED <<storedFlows, storedTxs, modals, claims>>
    PROVE  TabsInv'
<1>1. Lists' = Lists
  BY DEF Lists
<1>2. chain \in Seq(Signed) /\ chain' \in Seq(Signed)
  BY DEF Continues
<1>3. FlowsOK(Lists, chain', claims)
  BY <1>2, SignedMore DEF TabsInv, FlowsInv, Continues
<1>4. FlowsInv'
  BY <1>1, <1>2, <1>3 DEF TabsInv, FlowsInv
<1>5. StatusInv'
  BY StaysTrue DEF TabsInv, StatusInv
<1>6. AgreeInv'
  BY DEF TabsInv, AgreeInv
<1> QED BY <1>4, <1>5, <1>6 DEF TabsInv

(* A poll takes up the newest pending transactions. *)
LEMMA PollStartStep ==
    ASSUME TabsInv, NEW t \in Tabs, PollStart(t) PROVE TabsInv'
<1>1. /\ tabs[t] \in TabType /\ TabOK(tabs[t], chain) /\ tabs[t].txs \in Seq(Tx)
      /\ TxsOK(tabs[t].txs, chain)
  BY TabFacts
<1>2. PICK left : left = Filtered(tabs[t].txs,
                           {n \in DOMAIN tabs[t].txs : IsPending(tabs[t].txs[n])})
  OBVIOUS
<1>3. left \in Seq(Tx) /\ Drawn(left, tabs[t].txs)
  BY <1>1, <1>2, FilteredIsDrawn
<1>4. PICK batch : batch = Newest(MaxTxsPerCycle, left)
  OBVIOUS
<1>5. MaxTxsPerCycle \in Nat
  BY FlowsAssumption
<1>6. /\ batch \in Seq(Tx)
      /\ \A n \in DOMAIN batch : \E k \in DOMAIN tabs[t].txs :
            batch[n] = tabs[t].txs[k]
  <2>1. /\ batch \in Seq(Tx)
        /\ \A k \in DOMAIN batch : k \in DOMAIN left /\ batch[k] = left[k]
    BY <1>3, <1>4, <1>5, NewestFacts
  <2>2. DOMAIN tabs[t].txs = 1 .. Len(tabs[t].txs)
    BY <1>1
  <2> QED BY <1>3, <2>1, <2>2 DEF Drawn, DrawnUpTo
<1>7. PICK poll : poll = [n \in DOMAIN batch |-> batch[n].id]
  OBVIOUS
<1>8. poll \in Seq(Nat) /\ \A n \in DOMAIN poll : poll[n] \in 1 .. Len(chain)
  <2>1. \A n \in DOMAIN batch : batch[n].id \in 1 .. Len(chain)
    BY <1>1, <1>6 DEF TxsOK
  <2>2. DOMAIN batch = 1 .. Len(batch) /\ Len(batch) \in Nat
    BY <1>6
  <2>3. chain \in Seq(Signed) /\ Len(chain) \in Nat
    BY DEF TabsInv, FlowsInv
  <2>4. poll \in [1 .. Len(batch) -> Nat]
    BY <1>7, <2>1, <2>2, <2>3
  <2> QED BY <1>7, <2>1, <2>2, <2>4
<1>9. /\ tabs' = [tabs EXCEPT ![t].poll = poll]
      /\ UNCHANGED <<chain, storedFlows, storedTxs, modals, claims>>
  BY <1>2, <1>4, <1>7 DEF PollStart
<1>10. PICK tab : tab = [tabs[t] EXCEPT !.poll = poll]
  OBVIOUS
<1>11. /\ tab \in TabType /\ tab.flows = tabs[t].flows /\ tab.txs = tabs[t].txs
       /\ tab.open = tabs[t].open /\ tab.inbox = tabs[t].inbox
       /\ tab.poll = poll /\ tab.timers = tabs[t].timers
  BY <1>1, <1>8, <1>10 DEF TabType
<1>12. TabOK(tab, chain)
  BY <1>1, <1>8, <1>11 DEF TabOK
<1>13. tabs' = [tabs EXCEPT ![t] = tab] /\ tabs \in [Tabs -> TabType]
  BY <1>9, <1>10 DEF TabsInv, FlowsInv
<1>14. ASSUME NEW u \in Tabs
       PROVE  /\ tabs'[u].flows = tabs[u].flows /\ tabs'[u].open = tabs[u].open
              /\ tabs'[u].inbox = tabs[u].inbox /\ TabOK(tabs'[u], chain')
  BY <1>9, <1>11, <1>12, <1>13, TabFacts
<1>15. tabs' \in [Tabs -> TabType] /\ Continues(chain, chain')
  BY <1>9, <1>11, <1>13 DEF Continues, TabsInv, FlowsInv
<1> QED BY <1>9, <1>14, <1>15, SameListsStep

(* What a poll makes of the transactions is true of the chain. *)
LEMMA PolledIsOK ==
    ASSUME NEW txs \in Seq(Tx), TxsOK(txs, chain), NEW id \in 1 .. Len(chain),
           NEW answer \in Answers(id)
    PROVE  /\ Pruned(txs) \in Seq(Tx) /\ TxsOK(Pruned(txs), chain)
           /\ WithStatus(txs, id, answer) \in Seq(Tx)
           /\ TxsOK(WithStatus(txs, id, answer), chain)
<1>1. DOMAIN txs = 1 .. Len(txs) /\ Len(txs) \in Nat
  OBVIOUS
<1>2. /\ answer \in {"broadcast", "confirmed", "failed"}
      /\ answer = "confirmed" => chain[id].mined
  BY DEF Answers
<1>3. ASSUME NEW new, DOMAIN new = DOMAIN txs, new = [n \in DOMAIN txs |-> new[n]],
             \A n \in DOMAIN txs :
                /\ new[n] \in Tx /\ new[n].id = txs[n].id
                /\ new[n].status = "confirmed" => chain[txs[n].id].mined
      PROVE  new \in Seq(Tx) /\ TxsOK(new, chain)
  <2>1. new \in [1 .. Len(txs) -> Tx]
    BY <1>1, <1>3
  <2>2. new \in Seq(Tx)
    BY <1>1, <2>1
  <2> QED BY <1>3, <2>2 DEF TxsOK
<1>4. ASSUME NEW n \in DOMAIN txs
      PROVE  /\ txs[n] \in Tx
             /\ txs[n].status = "confirmed" => chain[txs[n].id].mined
  BY <1>1 DEF TxsOK
<1>5. Pruned(txs) \in Seq(Tx) /\ TxsOK(Pruned(txs), chain)
  <2>1. PICK new : new = Pruned(txs)
    OBVIOUS
  <2>2. /\ DOMAIN new = DOMAIN txs /\ new = [n \in DOMAIN txs |-> new[n]]
        /\ \A n \in DOMAIN txs :
              new[n] = txs[n] \/ new[n] = [txs[n] EXCEPT !.status = "failed"]
    BY <2>1 DEF Pruned
  <2>3. ASSUME NEW n \in DOMAIN txs
        PROVE  /\ new[n] \in Tx /\ new[n].id = txs[n].id
               /\ new[n].status = "confirmed" => chain[txs[n].id].mined
    BY <1>4, <2>2 DEF Tx
  <2> QED BY <1>3, <2>1, <2>2, <2>3
<1>6. WithStatus(txs, id, answer) \in Seq(Tx)
      /\ TxsOK(WithStatus(txs, id, answer), chain)
  <2>1. PICK new : new = WithStatus(txs, id, answer)
    OBVIOUS
  <2>2. /\ DOMAIN new = DOMAIN txs /\ new = [n \in DOMAIN txs |-> new[n]]
        /\ \A n \in DOMAIN txs :
              IF txs[n].id = id THEN new[n] = [txs[n] EXCEPT !.status = answer]
              ELSE new[n] = txs[n]
    BY <2>1 DEF WithStatus
  <2>3. ASSUME NEW n \in DOMAIN txs
        PROVE  /\ new[n] \in Tx /\ new[n].id = txs[n].id
               /\ new[n].status = "confirmed" => chain[txs[n].id].mined
    BY <1>2, <1>4, <2>2 DEF Tx
  <2> QED BY <1>3, <2>1, <2>2, <2>3
<1> QED BY <1>5, <1>6

(* The node, or the time-out, answers a poll. *)
LEMMA PollTxStep ==
    ASSUME TabsInv, NEW t \in Tabs, PollTx(t) PROVE TabsInv'
<1>1. /\ tabs[t] \in TabType /\ TabOK(tabs[t], chain) /\ tabs[t].txs \in Seq(Tx)
      /\ TxsOK(tabs[t].txs, chain) /\ tabs[t].poll \in Seq(Nat)
      /\ tabs[t].poll # <<>>
  BY TabFacts DEF PollTx
<1>2. PICK id : id = Head(tabs[t].poll)
  OBVIOUS
<1>3. PICK poll : poll = Tail(tabs[t].poll)
  OBVIOUS
<1>4. /\ poll \in Seq(Nat) /\ \A n \in DOMAIN poll : poll[n] \in 1 .. Len(chain)
      /\ id \in 1 .. Len(chain)
  BY <1>1, <1>2, <1>3, TailFacts DEF TabOK
<1>5. PICK rest : rest = [tabs[t] EXCEPT !.poll = poll]
  OBVIOUS
<1>6. rest.poll = poll /\ rest.txs = tabs[t].txs
  BY <1>1, <1>5 DEF TabType
<1>7. PICK answer \in Answers(id), day \in BOOLEAN :
         LET kept == IF rest.poll = <<>> /\ day THEN Pruned(rest.txs) ELSE rest.txs
             set == IF answer = "broadcast" /\ kept = rest.txs THEN {} ELSE {"txs"}
         IN Commit(t, [rest EXCEPT !.txs = IF answer = "broadcast" THEN kept
                                           ELSE WithStatus(kept, id, answer)], set)
  BY <1>2, <1>3, <1>5 DEF PollTx
<1>8. PICK kept : kept = IF rest.poll = <<>> /\ day THEN Pruned(rest.txs)
                         ELSE rest.txs
  OBVIOUS
<1>9. PICK txs : txs = IF answer = "broadcast" THEN kept
                       ELSE WithStatus(kept, id, answer)
  OBVIOUS
<1>10. PICK set : /\ set = IF answer = "broadcast" /\ kept = rest.txs THEN {}
                           ELSE {"txs"}
                  /\ Commit(t, [rest EXCEPT !.txs = txs], set)
  BY <1>7, <1>8, <1>9
<1>11. kept \in Seq(Tx) /\ TxsOK(kept, chain)
  BY <1>1, <1>4, <1>6, <1>8, PolledIsOK
<1>12. txs \in Seq(Tx) /\ TxsOK(txs, chain)
  BY <1>4, <1>9, <1>11, PolledIsOK
<1>13. [rest EXCEPT !.txs = txs] = [tabs[t] EXCEPT !.txs = txs, !.poll = poll]
  BY <1>1, <1>5 DEF TabType
<1>14. Commit(t, [tabs[t] EXCEPT !.txs = txs, !.poll = poll], set)
  BY <1>10, <1>13
<1> QED BY <1>4, <1>12, <1>14, TxsStep DEF PollTx

(* The chain goes on, and the tabs know nothing of it. *)
LEMMA ChainStep ==
    ASSUME TabsInv, Continues(chain, chain'),
           UNCHANGED <<storedFlows, storedTxs, tabs, modals, claims>>
    PROVE  TabsInv'
<1>1. tabs' = tabs /\ tabs' \in [Tabs -> TabType]
  BY DEF TabsInv, FlowsInv
<1>2. \A u \in Tabs : TabOK(tabs[u], chain')
  BY StaysTrue DEF TabsInv, StatusInv
<1> QED BY <1>1, <1>2, SameListsStep

(* A transaction is mined. *)
LEMMA MinedStep ==
    ASSUME TabsInv, NEW tx \in DOMAIN chain, Mined(tx) PROVE TabsInv'
<1>1. chain \in Seq(Signed) /\ chain[tx] \in Signed /\ DOMAIN chain = 1 .. Len(chain)
      /\ Len(chain) \in Nat
  BY DEF TabsInv, FlowsInv
<1>2. PICK x : x = [chain[tx] EXCEPT !.mined = TRUE]
  OBVIOUS
<1>3. x \in Signed /\ x.key = chain[tx].key /\ x.step = chain[tx].step /\ x.mined
  BY <1>1, <1>2 DEF Signed
<1>4. chain' = [chain EXCEPT ![tx] = x]
  BY <1>2 DEF Mined
<1>5. chain' \in Seq(Signed) /\ Len(chain') = Len(chain)
      /\ chain'[tx] = x /\ \A i \in 1 .. Len(chain) : i # tx => chain'[i] = chain[i]
  BY <1>1, <1>3, <1>4
<1>6. Continues(chain, chain')
  <2>1. \A i \in 1 .. Len(chain) :
           /\ chain'[i].key = chain[i].key /\ chain'[i].step = chain[i].step
           /\ chain[i].mined => chain'[i].mined
    BY <1>3, <1>5
  <2> QED BY <1>1, <1>5, <2>1 DEF Continues
<1> QED BY <1>6, ChainStep DEF Mined

(* Hours pass. *)
LEMMA HoursPassStep ==
    ASSUME TabsInv, HoursPass PROVE TabsInv'
<1>1. chain \in Seq(Signed) /\ DOMAIN chain = 1 .. Len(chain) /\ Len(chain) \in Nat
  BY DEF TabsInv, FlowsInv
<1>2. chain' = [i \in 1 .. Len(chain) |-> [chain[i] EXCEPT !.old = TRUE]]
  BY <1>1 DEF HoursPass
<1>3. \A i \in 1 .. Len(chain) :
         /\ chain'[i] \in Signed
         /\ chain'[i].key = chain[i].key /\ chain'[i].step = chain[i].step
         /\ chain'[i].mined = chain[i].mined
  <2>1. ASSUME NEW i \in 1 .. Len(chain)
        PROVE  /\ chain'[i] \in Signed
               /\ chain'[i].key = chain[i].key /\ chain'[i].step = chain[i].step
               /\ chain'[i].mined = chain[i].mined
    <3>1. chain[i] \in Signed /\ chain'[i] = [chain[i] EXCEPT !.old = TRUE]
      BY <1>1, <1>2
    <3> QED BY <3>1 DEF Signed
  <2> QED BY <2>1
<1>4. chain' \in [1 .. Len(chain) -> Signed]
  <2>1. DOMAIN chain' = 1 .. Len(chain)
    BY <1>2
  <2>2. chain' = [i \in 1 .. Len(chain) |-> chain'[i]]
    BY <1>2, <2>1
  <2> QED BY <1>3, <2>2
<1>5. chain' \in Seq(Signed) /\ Len(chain') = Len(chain)
  BY <1>1, <1>4
<1>6. Continues(chain, chain')
  BY <1>1, <1>3, <1>5 DEF Continues
<1> QED BY <1>6, ChainStep DEF HoursPass

-----------------------------------------------------------------------------
(* The theorems. *)

(* No tab is open, nothing is stored and nothing was signed. *)
LEMMA TabsInit == FlowsInit => TabsInv
<1> SUFFICES ASSUME FlowsInit PROVE TabsInv
  OBVIOUS
<1>1. /\ chain = <<>> /\ storedFlows = <<>> /\ storedTxs = <<>> /\ claims = 0
      /\ tabs = [t \in Tabs |-> NoTab] /\ modals = [t \in Tabs |-> IdleModal]
  BY DEF FlowsInit
<1>2. NoTab \in TabType /\ NoTab.flows = <<>> /\ ~NoTab.open /\ TabOK(NoTab, chain)
  BY DEF NoTab, TabType, TabOK, TxsOK
<1>3. Lists = {<<>>}
  BY <1>1, <1>2 DEF Lists
<1>4. FlowsOK(Lists, chain, claims)
  BY <1>3 DEF FlowsOK, ListOK
<1>5. IdleModal \in ModalType /\ IdleModal.my = 0 /\ IdleModal.claimed = 0
      /\ IdleModal.sending = "none"
  BY DEF IdleModal, ModalType, None
<1>6. ModalsOK(modals, Lists, claims)
  BY <1>1, <1>3, <1>5 DEF ModalsOK, ModalOK
<1>7. FlowsInv
  BY <1>1, <1>2, <1>4, <1>6 DEF FlowsInv
<1>8. StatusInv
  BY <1>1, <1>2 DEF StatusInv, TxsOK
<1>9. AgreeInv
  BY <1>1, <1>2 DEF AgreeInv
<1> QED BY <1>7, <1>8, <1>9 DEF TabsInv

(* A step that changes nothing. *)
LEMMA StutterKeepsTabs ==
    ASSUME TabsInv, UNCHANGED flowVars PROVE TabsInv'
<1>1. UNCHANGED <<chain, storedFlows, storedTxs, tabs, modals, claims>>
  BY DEF flowVars
<1>2. Continues(chain, chain')
  BY <1>1 DEF TabsInv, FlowsInv, Continues
<1> QED BY <1>1, <1>2, ChainStep

(* One step of any tab, of the chain or of the clock. *)
LEMMA TabsStep == TabsInv /\ [FlowsNext]_flowVars => TabsInv'
<1> SUFFICES ASSUME TabsInv, [FlowsNext]_flowVars PROVE TabsInv'
  OBVIOUS
<1>1. ASSUME NEW t \in Tabs, OpenTab(t) PROVE TabsInv'
  BY <1>1, OpenTabStep
<1>2. ASSUME NEW t \in Tabs, CloseTab(t) PROVE TabsInv'
  BY <1>2, CloseTabStep
<1>3. ASSUME NEW t \in Tabs, OnStorage(t) PROVE TabsInv'
  BY <1>3, OnStorageStep
<1>4. ASSUME NEW t \in Tabs, NEW id \in 1 .. MaxEffort, AutoRelease(t, id)
      PROVE  TabsInv'
  BY <1>4, AutoReleaseStep
<1>5. ASSUME NEW t \in Tabs, NEW key \in Keys, ClickApprove(t, key)
      PROVE  TabsInv'
  BY <1>5, ClickApproveStep
<1>6. ASSUME NEW t \in Tabs, NEW key \in Keys, ClickAction(t, key)
      PROVE  TabsInv'
  BY <1>6, ClickActionStep
<1>7. ASSUME NEW t \in Tabs, SingleCallSent(t) PROVE TabsInv'
  BY <1>7, SingleCallSentStep
<1>8. ASSUME NEW t \in Tabs, Sent(t) PROVE TabsInv'
  BY <1>8, SentStep
<1>9. ASSUME NEW t \in Tabs, SendFails(t) PROVE TabsInv'
  BY <1>9, SendFailsStep
<1>10. ASSUME NEW t \in Tabs, NEW id \in 1 .. MaxEffort, AbandonFlow(t, id)
       PROVE  TabsInv'
  BY <1>10, AbandonFlowStep
<1>11. ASSUME NEW t \in Tabs, ClearConfirmed(t) PROVE TabsInv'
  BY <1>11, ClearConfirmedStep
<1>12. ASSUME NEW t \in Tabs, PollStart(t) PROVE TabsInv'
  BY <1>12, PollStartStep
<1>13. ASSUME NEW t \in Tabs, PollTx(t) PROVE TabsInv'
  BY <1>13, PollTxStep
<1>14. ASSUME NEW tx \in DOMAIN chain, Mined(tx) PROVE TabsInv'
  BY <1>14, MinedStep
<1>15. CASE HoursPass
  BY <1>15, HoursPassStep
<1>16. CASE UNCHANGED flowVars
  BY <1>16, StutterKeepsTabs
<1> QED BY <1>1, <1>2, <1>3, <1>4, <1>5, <1>6, <1>7, <1>8, <1>9, <1>10, <1>11,
           <1>12, <1>13, <1>14, <1>15, <1>16 DEF FlowsNext

(* The invariant is one. *)
LEMMA TabsInvariant == FlowsSpec => []TabsInv
<1> QED BY TabsInit, TabsStep, PTL DEF FlowsSpec

(* For any number of tabs, options and flows: whichever tab wrote a list   *)
(* last, a flow names only transactions signed for its own action and      *)
(* option (updateFlow, resolveFlowId), and no two flows share one.         *)
THEOREM FlowsAreTheirOwn == FlowsSpec => []FlowsNameTheirOwn
<1>1. TabsInv => FlowsNameTheirOwn
  <2>1. SUFFICES ASSUME TabsInv, NEW flows \in Lists, NEW n \in DOMAIN flows
                 PROVE  LET f == flows[n] IN
                  /\ f.approval # None =>
                        /\ chain[f.approval].key = f.key
                        /\ chain[f.approval].step = "approval"
                  /\ f.action # None =>
                        /\ chain[f.action].key = f.key
                        /\ chain[f.action].step = "action"
                  /\ \A k \in DOMAIN flows :
                        /\ flows[k].approval = f.approval /\ f.approval # None
                              => k = n
                        /\ flows[k].action = f.action /\ f.action # None => k = n
    BY <2>1 DEF FlowsNameTheirOwn
  <2>2. FlowsOK(Lists, chain, claims)
    BY <2>1 DEF TabsInv, FlowsInv
  <2>3. ListOK(flows, chain, claims) /\ Named(flows[n], chain, claims)
    BY <2>2 DEF FlowsOK, ListOK
  <2>4. \A k \in DOMAIN flows : SameFlow(flows[k], flows[n])
    BY <2>2 DEF FlowsOK
  <2>5. \A k \in DOMAIN flows : flows[k].id = flows[n].id => k = n
    BY <2>3 DEF ListOK
  <2>6. \A k \in DOMAIN flows :
           /\ flows[k].approval = flows[n].approval /\ flows[n].approval # None
                 => k = n
           /\ flows[k].action = flows[n].action /\ flows[n].action # None => k = n
    BY <2>4, <2>5 DEF SameFlow
  <2> QED BY <2>3, <2>6 DEF Named
<1> QED BY <1>1, TabsInvariant, PTL

(* Derived status never runs ahead of the chain (deriveFlowStatus and the  *)
(* auto-release): approved or done means mined, in every tab.              *)
THEOREM StatusFollowsChain == FlowsSpec => []StatusIsTrue
<1>1. TabsInv => StatusIsTrue
  <2>1. SUFFICES ASSUME TabsInv, NEW t \in Tabs
                 PROVE
        /\ \A n \in DOMAIN tabs[t].flows :
              LET f == ActiveFlows(tabs[t])[n] IN
              /\ f.status = <<"approval", "confirmed">> => chain[f.approval].mined
              /\ f.status = <<"action", "confirmed">> => chain[f.action].mined
        /\ \A id \in tabs[t].timers :
              \E tx \in DOMAIN chain : chain[tx].step = "action" /\ chain[tx].mined
    BY <2>1 DEF StatusIsTrue
  <2>2. tabs[t].txs \in Seq(Tx) /\ TxsOK(tabs[t].txs, chain) /\ TabOK(tabs[t], chain)
    BY <2>1, TabFacts
  <2>3. ASSUME NEW n \in DOMAIN tabs[t].flows
        PROVE  LET f == ActiveFlows(tabs[t])[n] IN
          /\ f.status = <<"approval", "confirmed">> => chain[f.approval].mined
          /\ f.status = <<"action", "confirmed">> => chain[f.action].mined
    <3>1. PICK g : g = tabs[t].flows[n]
      OBVIOUS
    <3>2. PICK f : f = ActiveFlows(tabs[t])[n]
      OBVIOUS
    <3>3. /\ f.status = DeriveFlowStatus(g, tabs[t].txs)
          /\ f.approval = g.approval /\ f.action = g.action
      BY <3>1, <3>2 DEF ActiveFlows
    <3>4. /\ f.status = <<"approval", "confirmed">> => chain[f.approval].mined
          /\ f.status = <<"action", "confirmed">> => chain[f.action].mined
      BY <2>2, <3>3, DerivedIsTrue
    <3> QED BY <3>2, <3>4
  <2>4. chain \in Seq(Signed) /\ DOMAIN chain = 1 .. Len(chain)
    BY <2>1 DEF TabsInv, FlowsInv
  <2>5. \A id \in tabs[t].timers :
           \E tx \in DOMAIN chain : chain[tx].step = "action" /\ chain[tx].mined
    BY <2>2, <2>4 DEF TabOK, ActionMined
  <2> QED BY <2>3, <2>5
<1> QED BY <1>1, TabsInvariant, PTL

(* Once no storage event is on its way, the open tabs show the same flows, *)
(* those in the storage (persist effects and the storage listener).        *)
THEOREM TabsComeToAgree == FlowsSpec => []QuietTabsAgree
<1>1. TabsInv => QuietTabsAgree
  BY DEF TabsInv, AgreeInv, QuietTabsAgree, Quiet
<1> QED BY <1>1, TabsInvariant, PTL
=============================================================================
