-------------------------- MODULE BtcCustodyProofs --------------------------
(***************************************************************************)
(* Proofs about what leaves custody.                                       *)
(*                                                                         *)
(* Sums: what the folds of BtcPlan compute.  The induction is over finite  *)
(* sets: a set of parts of a finite set has a smallest member (Smallest).  *)
(* Plans: the daemon accepts every payout planPayout shapes.               *)
(* Counts: no address is paid more often than it is owed (CountInv).       *)
(* Custody: it loses no more than was burned, up to the dust (FitInv).     *)
(***************************************************************************)
EXTENDS BtcPayoutProofs, FiniteSetTheorems

(* Sums over finite sets. *)
\* Among sets of parts of a finite set there is a smallest one.
LEMMA Smallest ==
  ASSUME NEW S, IsFiniteSet(S), NEW B, B \subseteq SUBSET S, B # {}
  PROVE  \E U \in B : \A V \in B : V \subseteq U => V = U
<1>1. IsWellFoundedOn(StrictSubsetOrdering(S), SUBSET S)
  BY FS_StrictSubsetOrderingWellFounded, FS_FiniteSubsetsOfFinite, Zenon
<1>2. PICK U \in B : \A V \in B : <<V, U>> \notin StrictSubsetOrdering(S)
  BY <1>1, WFMin, Zenon
<1>3. \A V \in B : V \subseteq U /\ V # U => <<V, U>> \in StrictSubsetOrdering(S)
  BY SMT DEF StrictSubsetOrdering
<1>4. ASSUME NEW V \in B, V \subseteq U PROVE V = U
  BY <1>2, <1>3, <1>4, Zenon
<1> QED
  BY <1>2, <1>4, Zenon

Pick(s) == CHOOSE x \in s : TRUE

\* g adds up f over the parts of S, in the order in which the folds of the library take elements.
Adds(g, f, S) ==
  g = [s \in SUBSET S |-> IF s = {} THEN 0 ELSE f[Pick(s)] + g[s \ {Pick(s)}]]

LEMMA AddsStep ==
  ASSUME NEW g, NEW f, NEW S, Adds(g, f, S), NEW s \in SUBSET S
  PROVE  /\ s = {} => g[s] = 0
         /\ s # {} => /\ Pick(s) \in s /\ s \ {Pick(s)} \in SUBSET S
                      /\ g[s] = f[Pick(s)] + g[s \ {Pick(s)}]
<1>1. s # {} => Pick(s) \in s /\ s \ {Pick(s)} \in SUBSET S
  BY Zenon DEF Pick
<1>2. g[s] = IF s = {} THEN 0 ELSE f[Pick(s)] + g[s \ {Pick(s)}]
  BY Zenon DEF Adds
<1> QED
  BY <1>1, <1>2, Zenon

\* Two such functions agree where both are defined and add the same.
LEMMA AddsAgree ==
  ASSUME NEW g, NEW f, NEW S, Adds(g, f, S), IsFiniteSet(S),
         NEW h, NEW e, NEW T, Adds(h, e, T),
         NEW s, s \subseteq S, s \subseteq T, \A x \in s : f[x] = e[x]
  PROVE  g[s] = h[s]
<1> DEFINE B == {u \in SUBSET s : g[u] # h[u]}
<1>1. SUFFICES ASSUME B # {} PROVE FALSE
  BY Zenon
<1>2. B \subseteq SUBSET S
  BY Zenon
<1>3. PICK u \in B : \A v \in B : v \subseteq u => v = u
  <2> HIDE DEF B
  <2> QED
    BY <1>1, <1>2, Smallest
<1>4. /\ u \in SUBSET S /\ u \in SUBSET T /\ u \in SUBSET s /\ g[u] # h[u]
  BY <1>3, Zenon
<1>5. CASE u = {}
  BY <1>4, <1>5, AddsStep, Zenon
<1>6. CASE u # {}
  <2> DEFINE v == u \ {Pick(u)}
  <2>1. Pick(u) \in u /\ g[u] = f[Pick(u)] + g[v]
    BY <1>4, <1>6, AddsStep
  <2>1a. h[u] = e[Pick(u)] + h[v]
    BY <1>4, <1>6, AddsStep
  <2>2. v \in SUBSET s /\ v \subseteq u /\ v # u
    BY <1>4, <2>1, Zenon
  <2>3. g[v] = h[v]
    BY <1>3, <2>2, Zenon
  <2>4. f[Pick(u)] = e[Pick(u)]
    BY <1>4, <2>1, Zenon
  <2> QED
    BY <1>4, <2>1, <2>1a, <2>3, <2>4, Zenon
<1> QED
  BY <1>5, <1>6, Zenon

LEMMA AddsExists ==
  ASSUME NEW f, NEW S, IsFiniteSet(S)
  PROVE  \E g : Adds(g, f, S)
<1> DEFINE B == {u \in SUBSET S : ~\E g : Adds(g, f, u)}
<1>1. SUFFICES ASSUME B # {} PROVE FALSE
  BY Zenon
<1>2. PICK U \in B : \A v \in B : v \subseteq U => v = U
  <2>1. B \subseteq SUBSET S
    BY Zenon
  <2> HIDE DEF B
  <2> QED
    BY <1>1, <2>1, Smallest
<1> DEFINE H(u) == CHOOSE g : Adds(g, f, u)
           g == [s \in SUBSET U |-> IF s = {} THEN 0 ELSE f[Pick(s)] + H(s \ {Pick(s)})[s \ {Pick(s)}]]
<1>3. ASSUME NEW u, u \subseteq U, u # U PROVE Adds(H(u), f, u) /\ IsFiniteSet(u)
  <2>1. \E h : Adds(h, f, u)
    BY <1>2, <1>3, Zenon
  <2>2. IsFiniteSet(u)
    BY <1>2, <1>3, FS_Subset, Zenon
  <2> QED
    BY <2>1, <2>2, Zenon
<1>4. ASSUME NEW u, u \subseteq U, u # U PROVE g[u] = H(u)[u]
  <2>1. Adds(H(u), f, u) /\ IsFiniteSet(u)
    BY <1>3, <1>4, Zenon
  <2>2. u \in SUBSET u /\ u \in SUBSET U
    BY <1>4, Zenon
  <2>3. CASE u = {}
    <3>1. H(u)[u] = 0
      <4> HIDE DEF H
      <4> QED
        BY <2>1, <2>2, <2>3, AddsStep, Zenon
    <3>2. g[u] = 0
      BY <2>2, <2>3, Zenon
    <3> QED
      BY <3>1, <3>2, Zenon
  <2>4. CASE u # {}
    <3> DEFINE v == u \ {Pick(u)}
    <3>1. g[u] = f[Pick(u)] + H(v)[v]
      BY <2>2, <2>4, Zenon
    <3> HIDE DEF H, g
    <3>2. H(u)[u] = f[Pick(u)] + H(u)[v] /\ Pick(u) \in u
      BY <2>1, <2>2, <2>4, AddsStep
    <3>3. v \subseteq u /\ v \subseteq U /\ v # U
      BY <3>2, <2>2, Zenon
    <3>4. Adds(H(v), f, v)
      BY <3>3, <1>3, Zenon
    <3> HIDE DEF v
    <3>5. H(v)[v] = H(u)[v]
      BY <3>4, <2>1, <3>3, <1>3, AddsAgree
    <3> QED
      BY <3>1, <3>2, <3>5, Zenon
  <2> QED
    BY <2>3, <2>4, Zenon
<1>5. \A s \in SUBSET U : s # {} => H(s \ {Pick(s)})[s \ {Pick(s)}] = g[s \ {Pick(s)}]
  <2> HIDE DEF H, g
  <2>1. SUFFICES ASSUME NEW s \in SUBSET U, s # {} PROVE H(s \ {Pick(s)})[s \ {Pick(s)}] = g[s \ {Pick(s)}]
    BY Zenon
  <2>2. Pick(s) \in s
    BY <2>1, Zenon DEF Pick
  <2>3. s \ {Pick(s)} \subseteq U /\ s \ {Pick(s)} # U
    BY <2>1, <2>2, Zenon
  <2> QED
    BY <2>3, <1>4, Zenon
<1>6. Adds(g, f, U)
  <2>1. \A s \in SUBSET U : (IF s = {} THEN 0 ELSE f[Pick(s)] + H(s \ {Pick(s)})[s \ {Pick(s)}])
                          = (IF s = {} THEN 0 ELSE f[Pick(s)] + g[s \ {Pick(s)}])
    <3> HIDE DEF H, g
    <3> QED
      BY <1>5, Zenon
  <2>2. g = [s \in SUBSET U |-> IF s = {} THEN 0 ELSE f[Pick(s)] + g[s \ {Pick(s)}]]
    <3> DEFINE a(s) == IF s = {} THEN 0 ELSE f[Pick(s)] + H(s \ {Pick(s)})[s \ {Pick(s)}]
               b(s) == IF s = {} THEN 0 ELSE f[Pick(s)] + g[s \ {Pick(s)}]
    <3>1. g = [s \in SUBSET U |-> a(s)]
      BY Zenon
    <3>2. \A s \in SUBSET U : a(s) = b(s)
      BY <2>1, Zenon
    <3>3. g = [s \in SUBSET U |-> b(s)]
      <4> HIDE DEF a, b, g
      <4> QED
        BY <3>1, <3>2, Zenon
    <3> QED
      BY <3>3, Zenon
  <2> HIDE DEF g
  <2> QED
    BY <2>2, Zenon DEF Adds
<1> HIDE DEF g
<1> QED
  BY <1>2, <1>6, Zenon

\* The sum of f over S.
Total(f, S) == (CHOOSE g : Adds(g, f, S))[S]

LEMMA TotalAdds ==
  ASSUME NEW f, NEW S, IsFiniteSet(S)
  PROVE  \E g : Adds(g, f, S) /\ Total(f, S) = g[S]
<1> DEFINE h == CHOOSE g : Adds(g, f, S)
<1>1. Adds(h, f, S)
  BY AddsExists, Zenon
<1>2. Total(f, S) = h[S]
  BY Zenon DEF Total
<1> HIDE DEF h
<1> QED
  BY <1>1, <1>2, Zenon

LEMMA TotalFirst ==
  ASSUME NEW f, NEW S, IsFiniteSet(S)
  PROVE  /\ S = {} => Total(f, S) = 0
         /\ S # {} => Pick(S) \in S /\ Total(f, S) = f[Pick(S)] + Total(f, S \ {Pick(S)})
<1>1. PICK g : Adds(g, f, S) /\ Total(f, S) = g[S]
  BY TotalAdds, Zenon
<1>2. S \in SUBSET S
  BY Zenon
<1>3. S = {} => Total(f, S) = 0
  BY <1>1, <1>2, AddsStep, Zenon
<1>4. ASSUME S # {} PROVE Pick(S) \in S /\ Total(f, S) = f[Pick(S)] + Total(f, S \ {Pick(S)})
  <2> DEFINE T == S \ {Pick(S)}
  <2>1. Pick(S) \in S /\ T \in SUBSET S /\ g[S] = f[Pick(S)] + g[T]
    BY <1>1, <1>2, <1>4, AddsStep, Zenon
  <2>2. IsFiniteSet(T) /\ T \subseteq S /\ T \subseteq T
    BY <2>1, FS_Subset, Zenon
  <2> HIDE DEF T
  <2>3. PICK h : Adds(h, f, T) /\ Total(f, T) = h[T]
    BY <2>2, TotalAdds, Zenon
  <2>4. g[T] = h[T]
    BY <1>1, <2>2, <2>3, AddsAgree
  <2> QED
    BY <1>1, <2>1, <2>3, <2>4, Zenon DEF T
<1> QED
  BY <1>3, <1>4, Zenon

LEMMA TotalNat ==
  ASSUME NEW f, NEW S, IsFiniteSet(S), \A x \in S : f[x] \in Nat
  PROVE  Total(f, S) \in Nat
<1> DEFINE B == {u \in SUBSET S : Total(f, u) \notin Nat}
<1>1. SUFFICES ASSUME B # {} PROVE FALSE
  BY Zenon
<1>2. PICK u \in B : \A v \in B : v \subseteq u => v = u
  <2>1. B \subseteq SUBSET S
    BY Zenon
  <2> HIDE DEF B
  <2> QED
    BY <1>1, <2>1, Smallest
<1>3. u \in SUBSET S /\ Total(f, u) \notin Nat /\ IsFiniteSet(u)
  BY <1>2, FS_Subset, Zenon
<1>4. u # {}
  <2>1. SUFFICES ASSUME u = {} PROVE Total(f, u) \in Nat
    BY <1>3, Zenon
  <2>2. Total(f, u) = 0
    BY <1>3, <2>1, TotalFirst, Zenon
  <2> QED
    BY <2>2
<1> DEFINE v == u \ {Pick(u)}
<1>5. Pick(u) \in u /\ Total(f, u) = f[Pick(u)] + Total(f, v)
  BY <1>3, <1>4, TotalFirst, Zenon
<1>6. v \in SUBSET S /\ v \subseteq u /\ v # u
  BY <1>3, <1>5, Zenon
<1>7. Total(f, v) \in Nat
  BY <1>2, <1>6, Zenon
<1>8. f[Pick(u)] \in Nat
  BY <1>3, <1>5, Zenon
<1> HIDE DEF B, v
<1> QED
  BY <1>3, <1>5, <1>7, <1>8

Value(S) == [t \in S |-> t.chg]

LEMMA CoinsTotal ==
  ASSUME NEW S, IsFiniteSet(S)
  PROVE  Coins(S) = Total(Value(S), S)
<1> DEFINE F(g) == [s \in SUBSET S |-> IF s = {} THEN 0 ELSE Pick(s).chg + g[s \ {Pick(s)}]]
           c == CHOOSE g : g = F(g)
<1>1. Coins(S) = c[S]
  BY Zenon DEF Coins, MapThenSumSet, MapThenFoldSet, Pick
<1>2. ASSUME NEW g PROVE Adds(g, Value(S), S) <=> g = F(g)
  <2>1. \A s \in SUBSET S : s # {} => Value(S)[Pick(s)] = Pick(s).chg
    BY Zenon DEF Value, Pick
  <2> DEFINE G == [s \in SUBSET S |-> IF s = {} THEN 0 ELSE Value(S)[Pick(s)] + g[s \ {Pick(s)}]]
             a(s) == IF s = {} THEN 0 ELSE Pick(s).chg + g[s \ {Pick(s)}]
             b(s) == IF s = {} THEN 0 ELSE Value(S)[Pick(s)] + g[s \ {Pick(s)}]
  <2>2. \A s \in SUBSET S : a(s) = b(s)
    <3>2. \A s \in SUBSET S : s # {} => a(s) = b(s)
      BY <2>1, Zenon
    <3>3. \A s \in SUBSET S : s = {} => a(s) = b(s)
      BY Zenon
    <3> QED
      BY <3>2, <3>3, Zenon
  <2>3. F(g) = [s \in SUBSET S |-> a(s)] /\ G = [s \in SUBSET S |-> b(s)]
    BY Zenon
  <2>4. F(g) = G
    <3> HIDE DEF F, G, a, b
    <3> QED
      BY <2>2, <2>3, Zenon
  <2> HIDE DEF F
  <2> QED
    BY <2>4, Zenon DEF Adds
<1>3. PICK g : Adds(g, Value(S), S) /\ Total(Value(S), S) = g[S]
  BY TotalAdds, Zenon
<1>4. c = F(c)
  <2> HIDE DEF F
  <2>1. \E x : x = F(x)
    BY <1>2, <1>3, Zenon
  <2> QED
    BY <2>1, Zenon
<1>5. Adds(c, Value(S), S)
  BY <1>2, <1>4, Zenon
<1>6. S \subseteq S /\ \A x \in S : Value(S)[x] = Value(S)[x]
  BY Zenon
<1> HIDE DEF c
<1>7. c[S] = g[S]
  BY <1>3, <1>5, <1>6, AddsAgree
<1> QED
  BY <1>1, <1>3, <1>7, Zenon

LEMMA CoinsNat ==
  ASSUME NEW S, IsFiniteSet(S), \A t \in S : t.chg \in Nat
  PROVE  Coins(S) \in Nat
<1>1. \A t \in S : Value(S)[t] \in Nat
  BY Zenon DEF Value
<1>2. Total(Value(S), S) \in Nat
  BY <1>1, TotalNat, Zenon
<1> QED
  BY <1>2, CoinsTotal, Zenon

LEMMA VsizeNat ==
  ASSUME DestScriptLen \in Nat, NEW n \in Nat,
         NEW lens \in {<<DestScriptLen>>, <<DestScriptLen, P2wpkhScriptLen>>}
  PROVE  P2wpkhVsize(n, lens) \in Nat
<1> DEFINE D == DOMAIN lens
           F(g) == [s \in SUBSET D |->
                      IF s = {} THEN 0
                      ELSE g[s \ {Pick(s)}] + 8 + VarIntLen(lens[Pick(s)]) + lens[Pick(s)]]
           c == CHOOSE g : g = F(g)
           out == FoldFunction(LAMBDA l, a : a + 8 + VarIntLen(l) + l, 0, lens)
<1>1. out = c[D]
  BY Zenon DEF FoldFunction, FoldFunctionOnSet, MapThenFoldSet, Pick
<1>2. D = {1} \/ D = {1, 2}
  BY DEF P2wpkhScriptLen
<1>3. IsFiniteSet(D)
  BY <1>2, FS_Singleton, FS_AddElement, FS_EmptySet, SMT
<1>4. \A i \in D : lens[i] \in Nat
  BY <1>2 DEF P2wpkhScriptLen
<1> DEFINE size(i) == 8 + VarIntLen(lens[i]) + lens[i]
           f == [i \in D |-> size(i)]
<1>5. \A i \in D : f[i] = size(i) /\ VarIntLen(lens[i]) \in Nat /\ f[i] \in Nat
  <2> HIDE DEF D
  <2>1. \A i \in D : VarIntLen(lens[i]) \in Nat /\ size(i) \in Nat
    BY <1>4 DEF VarIntLen
  <2> HIDE DEF size
  <2> QED
    BY <2>1, Zenon
<1> HIDE DEF D
<1>6. PICK g : Adds(g, f, D)
  BY <1>3, AddsExists, Zenon
<1> HIDE DEF f
<1>7. \A s \in SUBSET D : g[s] \in Nat
  <2>1. SUFFICES ASSUME NEW s \in SUBSET D PROVE g[s] \in Nat
    BY Zenon
  <2>2. IsFiniteSet(s) /\ s \subseteq D /\ s \subseteq s /\ \A i \in s : f[i] \in Nat
    BY <1>3, <1>5, FS_Subset, Zenon
  <2>3. PICK h : Adds(h, f, s) /\ Total(f, s) = h[s]
    BY <2>2, TotalAdds, Zenon
  <2>4. g[s] = h[s]
    BY <1>3, <1>6, <2>2, <2>3, AddsAgree
  <2>5. Total(f, s) \in Nat
    BY <2>2, TotalNat, Zenon
  <2> QED
    BY <2>3, <2>4, <2>5, Zenon
<1>8. g = F(g)
  <2> DEFINE a(s) == IF s = {} THEN 0 ELSE f[Pick(s)] + g[s \ {Pick(s)}]
             b(s) == IF s = {} THEN 0 ELSE g[s \ {Pick(s)}] + 8 + VarIntLen(lens[Pick(s)]) + lens[Pick(s)]
  <2>1. ASSUME NEW s \in SUBSET D PROVE a(s) = b(s)
    <3>1. CASE s # {}
      <4> DEFINE i == Pick(s)
                 v == s \ {i}
      <4>1. i \in D /\ v \in SUBSET D
        BY <3>1, Zenon DEF Pick
      <4>2. /\ g[v] \in Nat /\ VarIntLen(lens[i]) \in Nat /\ lens[i] \in Nat
            /\ f[i] = 8 + VarIntLen(lens[i]) + lens[i]
        BY <1>4, <1>5, <1>7, <4>1, Zenon
      <4> HIDE DEF v, i
      <4>3. f[i] + g[v] = g[v] + 8 + VarIntLen(lens[i]) + lens[i]
        BY <4>2
      <4> QED
        BY <3>1, <4>3, Zenon DEF v, i
    <3> QED
      BY <3>1, Zenon
  <2>2. g = [s \in SUBSET D |-> a(s)]
    BY <1>6, Zenon DEF Adds
  <2>3. F(g) = [s \in SUBSET D |-> b(s)]
    BY Zenon
  <2> HIDE DEF F, a, b
  <2> QED
    BY <2>1, <2>2, <2>3, Zenon
<1>9. c = F(c)
  <2> HIDE DEF F
  <2> QED
    BY <1>8, Zenon
<1> HIDE DEF c
<1>10. \A s \in SUBSET D : c[s] \in Nat
  <2> DEFINE B == {u \in SUBSET D : c[u] \notin Nat}
  <2>1. SUFFICES ASSUME B # {} PROVE FALSE
    BY Zenon
  <2>2. PICK u \in B : \A v \in B : v \subseteq u => v = u
    <3>1. B \subseteq SUBSET D
      BY Zenon
    <3> HIDE DEF B
    <3> QED
      BY <1>3, <2>1, <3>1, Smallest
  <2>3. u \in SUBSET D /\ c[u] \notin Nat
    BY <2>2, Zenon
  <2> DEFINE i == Pick(u)
             v == u \ {i}
  <2>4. c[u] = IF u = {} THEN 0 ELSE c[v] + 8 + VarIntLen(lens[i]) + lens[i]
    BY <1>9, <2>3, Zenon
  <2>5. CASE u = {}
    BY <2>3, <2>4, <2>5
  <2>6. CASE u # {}
    <3>1. i \in u
      BY <2>6, Zenon DEF Pick
    <3>2. v \in SUBSET D /\ v \subseteq u /\ v # u
      BY <2>3, <3>1, Zenon
    <3>3. c[v] \in Nat
      BY <2>2, <3>2, Zenon
    <3>4. VarIntLen(lens[i]) \in Nat /\ lens[i] \in Nat
      BY <1>4, <1>5, <2>3, <3>1, Zenon
    <3> HIDE DEF i, v, B
    <3> QED
      BY <2>3, <2>4, <2>6, <3>3, <3>4
  <2> QED
    BY <2>5, <2>6, Zenon
<1>11. out \in Nat
  BY <1>1, <1>10, Zenon
<1>12. VarIntLen(n) \in Nat /\ VarIntLen(Len(lens)) \in Nat /\ Len(lens) \in Nat
  BY DEF VarIntLen, P2wpkhScriptLen
<1> DEFINE base == 8 + VarIntLen(n) + VarIntLen(Len(lens)) + 41 * n + out
<1>13. P2wpkhVsize(n, lens) = (base * 4 + 2 + 108 * n + 3) \div 4
  BY Zenon DEF P2wpkhVsize
<1> HIDE DEF out
<1>14. base \in Nat
  BY <1>11, <1>12
<1> HIDE DEF base
<1>15. base * 4 + 2 + 108 * n + 3 \in Nat
  BY <1>14
<1> QED
  BY <1>13, <1>15

-----------------------------------------------------------------------------
(* Plans. *)
\* What planPayout computes.
LEMMA PlannedAmounts ==
  ASSUME NEW sats \in Nat, NEW rate \in Nat, NEW coins, IsFiniteSet(coins), \A t \in coins : t.chg \in Nat,
         NEW plan \in PlanPayout(coins, sats, rate), plan.kind = "ok"
  PROVE  /\ plan.ins # {} /\ plan.chg \in Nat /\ plan.pay \in Nat /\ plan.pay > 0
         /\ Coins(plan.ins) - plan.pay - plan.chg <= MaxFee
         /\ plan.pay + (Coins(plan.ins) - plan.pay - plan.chg) >= sats
         /\ Coins(plan.ins) - plan.chg <= sats + Dust
<1>1. PICK P \in SUBSET coins :
        plan = IF P = {} \/ Coins(P) < sats THEN Insufficient
               ELSE Shape(P, sats, rate, IF Coins(P) - sats <= Dust THEN 0 ELSE Coins(P) - sats)
  BY Zenon DEF PlanPayout, Selections
<1>2. P # {} /\ ~(Coins(P) < sats)
  BY <1>1, Zenon DEF Insufficient
<1> DEFINE c == IF Coins(P) - sats <= Dust THEN 0 ELSE Coins(P) - sats
           l == IF c > 0 THEN <<DestScriptLen, P2wpkhScriptLen>> ELSE <<DestScriptLen>>
           size == P2wpkhVsize(Cardinality(P), l)
           fee == FeeForVsize(size, rate)
<1>3. plan = Shape(P, sats, rate, c)
  BY <1>1, <1>2, Zenon
<1>4. /\ plan.ins = P /\ plan.chg = c /\ plan.pay = Coins(P) - c - fee
      /\ ~(fee > MaxFee) /\ ~(Coins(P) - c - fee <= Dust)
  BY <1>3, Zenon DEF Shape
<1>5. Coins(P) \in Nat /\ fee \in Nat /\ c \in Nat /\ Coins(P) - c >= sats /\ Coins(P) - c <= sats + Dust
  <2>1. IsFiniteSet(P) /\ (\A t \in P : t.chg \in Nat) /\ Cardinality(P) \in Nat
    BY FS_Subset, FS_CardinalityType, Zenon
  <2>2. Coins(P) \in Nat
    BY <2>1, CoinsNat, Zenon
  <2>3. l \in {<<DestScriptLen>>, <<DestScriptLen, P2wpkhScriptLen>>}
    BY Zenon
  <2> HIDE DEF l
  <2>4. size \in Nat
    BY <2>1, <2>3, BtcAssumption, VsizeNat, Zenon
  <2> HIDE DEF size
  <2>5. fee \in Nat
    BY <2>4 DEF FeeForVsize
  <2> HIDE DEF fee
  <2> QED
    BY <2>2, <2>5, <1>2, BtcAssumption
<1> HIDE DEF c, fee, l
<1>6. Dust \in Nat /\ MaxFee \in Nat
  BY BtcAssumption, Zenon
<1> QED
  BY <1>2, <1>4, <1>5, <1>6

(* The arithmetic of a payout the relayer plans (planPayout) is what the daemon asks for when
   it decides whether the withdrawal is paid (evaluate_payout), for every debt, fee rate and
   choice of coins: no payout is sent that can never be booked. *)
THEOREM PlannedPayoutIsAccepted ==
  ASSUME NEW sats \in Nat, NEW rate \in Nat, NEW dest,
         NEW coins, IsFiniteSet(coins), \A t \in coins : t.chg \in Nat,
         NEW plan \in PlanPayout(coins, sats, rate), plan.kind = "ok"
  PROVE  EvaluatePayout([ins |-> plan.ins, to |-> dest, pay |-> plan.pay, chg |-> plan.chg], dest, sats)
<1>1. /\ plan.ins # {} /\ plan.pay \in Nat /\ plan.pay > 0
      /\ Coins(plan.ins) - plan.pay - plan.chg <= MaxFee
      /\ plan.pay + (Coins(plan.ins) - plan.pay - plan.chg) >= sats
  BY PlannedAmounts, Zenon
<1> QED
  BY <1>1 DEF EvaluatePayout, TxFee

-----------------------------------------------------------------------------
(* No address is paid more often than it is owed. *)
\* The payouts to an address that are made or may still be, and the debts to it.
Paying(d) == {t \in Net \cup Hopes : t.ins # {} /\ t.to = d}
Debts(d)  == {w \in Burned : Dest[w] = d}

\* What every transaction is worth, and when it can be adopted.
Sound(t) ==
  /\ t.chg \in Nat
  /\ Alike /\ t.ins # {} => \A w \in Withdrawal : t.to = Dest[w] => PayoutSettles(t, Dest[w], Owed[w])

SoundInv ==
  /\ IsFiniteSet(Net \cup Hopes \cup Saved)
  /\ \A t \in Net \cup Hopes \cup Saved : Sound(t)
  /\ at = "plan" => /\ IsFiniteSet(answer.coins) /\ \A t \in answer.coins : t.chg \in Nat
                    /\ answer.rate \in HighRate \cup {Rate}

(* No more payouts than debts; and when the relayer is about to sign, there is a debt to the
   address without one. *)
CountInv ==
  \A d : /\ IsFiniteSet(Paying(d)) /\ Cardinality(Paying(d)) <= Cardinality(Debts(d))
         /\ at \in {"build", "plan"} /\ d = Dest[cur] => Cardinality(Paying(d)) < Cardinality(Debts(d))

LEMMA DebtsGrow ==
  ASSUME Shapes, DaemonTypes, [Next]_vars, NEW d
  PROVE  /\ IsFiniteSet(Debts(d)) /\ IsFiniteSet(Debts(d)')
         /\ Cardinality(Debts(d)) \in Nat /\ Cardinality(Debts(d)') \in Nat
         /\ Cardinality(Debts(d)) <= Cardinality(Debts(d)')
<1>1. Debts(d) \subseteq Debts(d)' /\ Debts(d)' \subseteq Withdrawal
  BY BurnedGrows, Zenon DEF Debts, Burned
<1>2. IsFiniteSet(Debts(d)')
  BY <1>1, BtcAssumption, FS_Subset, Zenon
<1> HIDE DEF Debts
<1> QED
  BY <1>1, <1>2, FS_Subset, FS_CardinalityType, Zenon

\* What the network has, sends and the entries of a step have.

\* A payout the relayer signs can be adopted by any withdrawal that it could have been for.
LEMMA SignedIsSound ==
  ASSUME SoundInv, at = "plan", cur \in Withdrawal,
         NEW plan \in PlanPayout(answer.coins, Owed[cur], answer.rate), plan.kind = "ok",
         NEW tx, tx = [ins |-> plan.ins, to |-> Dest[cur], pay |-> plan.pay, chg |-> plan.chg]
  PROVE  Sound(tx)
<1>1. /\ IsFiniteSet(answer.coins) /\ (\A t \in answer.coins : t.chg \in Nat)
      /\ answer.rate \in HighRate \cup {Rate}
  BY Zenon DEF SoundInv
<1>4. Owed[cur] \in Nat /\ answer.rate \in Nat
  BY <1>1, BtcAssumption, Zenon
<1>5. /\ plan.ins # {} /\ plan.chg \in Nat /\ plan.pay \in Nat /\ plan.pay > 0
      /\ Coins(plan.ins) - plan.pay - plan.chg <= MaxFee
      /\ plan.pay + (Coins(plan.ins) - plan.pay - plan.chg) >= Owed[cur]
  BY <1>1, <1>4, PlannedAmounts, Zenon
<1>6. tx.ins = plan.ins /\ tx.to = Dest[cur] /\ tx.pay = plan.pay /\ tx.chg = plan.chg
  BY Zenon
<1>7. PayoutSettles(tx, Dest[cur], Owed[cur])
  BY <1>5, <1>6, Zenon DEF PayoutSettles, TxFee
<1>8. ASSUME Alike, NEW w \in Withdrawal, tx.to = Dest[w] PROVE PayoutSettles(tx, Dest[w], Owed[w])
  <2>1. Dest[w] = Dest[cur] /\ Owed[w] = Owed[cur]
    BY <1>6, <1>8, Zenon DEF Alike
  <2> QED
    BY <1>7, <2>1, Zenon
<1> QED
  BY <1>5, <1>6, <1>8, Zenon DEF Sound

LEMMA SoundKept ==
  ASSUME NoneIsNoTx, Shapes, Located, RelayerTypes, SoundInv, [Next]_vars
  PROVE  SoundInv'
<1> DEFINE All == Net \cup Hopes \cup Saved
<1>1. \A t \in Deposit : Sound(t)
  BY BtcAssumption, Zenon DEF Sound
<1>2. ASSUME NEW X, IsFiniteSet(X), \A t \in X : Sound(t), All' \subseteq All \cup X,
             at' = "plan" => /\ IsFiniteSet(answer'.coins) /\ \A t \in answer'.coins : t.chg \in Nat
                             /\ answer'.rate \in HighRate \cup {Rate}
      PROVE  SoundInv'
  <2>1. IsFiniteSet(All) /\ \A t \in All : Sound(t)
    BY Zenon DEF SoundInv
  <2>2. IsFiniteSet(All \cup X)
    BY <1>2, <2>1, FS_Union, Zenon
  <2>3. IsFiniteSet(All') /\ \A t \in All' : Sound(t)
    BY <1>2, <2>1, <2>2, FS_Subset, Zenon
  <2> QED
    BY <1>2, <2>3, Zenon DEF SoundInv, Sound
<1>3. ASSUME UNCHANGED <<mem, file>> PROVE Hopes' = Hopes /\ Saved' = Saved
  BY <1>3, Zenon DEF Hopes, Saved
<1>4. ASSUME UNCHANGED bitcoin PROVE Net' = Net
  BY <1>4, Zenon DEF bitcoin, Net, Seen, Mined
<1>5. IsFiniteSet({})
  BY FS_EmptySet, Zenon
<1>6. CASE Outside
  <2>1. UNCHANGED <<mem, file, at, answer>>
    BY <1>6, Zenon DEF Outside, relayer
  <2>2. Hopes' = Hopes /\ Saved' = Saved
    BY <1>3, <2>1, Zenon
  <2>3. All' \subseteq All \cup Deposit
    BY <1>6, <2>2, Zenon DEF Outside
  <2> QED
    BY <1>1, <1>2, <2>1, <2>3, BtcAssumption, Zenon DEF SoundInv
<1>7. CASE Quiet \/ GoesOn
  <2>1. UNCHANGED <<bitcoin, mem, file>> /\ at' # "plan"
    BY <1>7, Zenon DEF Quiet, GoesOn
  <2>2. All' \subseteq All \cup {}
    BY <1>3, <1>4, <2>1, Zenon
  <2> QED
    BY <1>2, <1>5, <2>1, <2>2, Zenon
<1>8. ASSUME NEW r \in HighRate \cup {Rate}, ReadCoins(r) PROVE SoundInv'
  <2>1. UNCHANGED <<bitcoin, mem, file>> /\ answer' = [coins |-> Utxos \ ReservedInputs, rate |-> r]
    BY <1>8, Zenon DEF ReadCoins
  <2>2. answer'.coins \subseteq Net /\ answer'.rate = r
    BY <2>1, Zenon DEF Utxos, Net, Seen
  <2>3. IsFiniteSet(All) /\ \A t \in All : Sound(t)
    BY Zenon DEF SoundInv
  <2>4. IsFiniteSet(answer'.coins) /\ \A t \in answer'.coins : t.chg \in Nat
    <3>1. answer'.coins \subseteq All
      BY <2>2, Zenon
    <3>2. IsFiniteSet(answer'.coins)
      BY <2>3, <3>1, FS_Subset, Zenon
    <3> QED
      BY <2>3, <3>1, <3>2, Zenon DEF Sound
  <2>5. All' \subseteq All \cup {}
    BY <1>3, <1>4, <2>1, Zenon
  <2> QED
    BY <1>2, <1>5, <2>2, <2>4, <2>5, Zenon
<1>9. CASE Send
  <2>1. UNCHANGED <<mem, file>> /\ at' = "settle" /\ Net' \subseteq Net \cup Hopes
    BY <1>9, SendNet, Zenon DEF Hopes
  <2>2. at' # "plan"
    BY <2>1, Zenon
  <2>3. All' \subseteq All \cup {}
    BY <1>3, <2>1, Zenon
  <2> QED
    BY <1>2, <1>5, <2>2, <2>3, Zenon
<1>10. CASE Crash
  <2>1. Net' = Net /\ at' = "next"
    BY <1>4, <1>10, CrashEntries, Zenon
  <2>2. \A w \in Withdrawal : Payouts(mem'[w]) \cup Payouts(file'[w]) \subseteq Payouts(file[w])
    BY <1>10, CrashEntries, Zenon
  <2>3. Hopes' \subseteq Saved /\ Saved' \subseteq Saved
    BY <2>2 DEF Hopes, Saved, Payouts
  <2>4. All' \subseteq All \cup {}
    BY <2>1, <2>3, Zenon
  <2>5. at' # "plan"
    BY <2>1, Zenon
  <2> QED
    BY <1>2, <1>5, <2>4, <2>5, Zenon
<1>11. ASSUME NEW e, Writes(e) PROVE SoundInv'
  <2>1. cur \in Withdrawal /\ UNCHANGED bitcoin /\ (file' = mem' \/ file' = file)
    BY <1>11, Zenon DEF Writes
  <2>2. at' # "plan"
    BY <1>11, Zenon DEF Writes
  <2>3. \A w \in Withdrawal : Payouts(mem'[w]) \subseteq Payouts(mem[w]) \cup Payouts(e)
    BY <1>11, WritesEntries, Zenon
  <2>4. Hopes' \subseteq Hopes \cup Payouts(e) /\ (Saved' = Saved \/ Saved' = Hopes')
    BY <2>1, <2>3 DEF Hopes, Saved, Payouts
  <2>5. All' \subseteq All \cup Payouts(e)
    BY <1>4, <2>1, <2>4, Zenon
  <2>6. CASE Adopts(e) \/ Keeps(e)
    <3>1. Payouts(e) \subseteq All
      BY <2>1, <2>6, Zenon DEF Adopts, Keeps, FindExistingPayout, Net, Hopes
    <3>2. All' \subseteq All \cup {}
      BY <2>5, <3>1, Zenon
    <3> QED
      BY <1>2, <1>5, <2>2, <3>2, Zenon
  <2>7. CASE Signs(e)
    <3>1. PICK plan \in PlanPayout(answer.coins, Owed[cur], answer.rate) :
            /\ plan.kind = "ok" /\ at = "plan"
            /\ Payouts(e) = {[ins |-> plan.ins, to |-> Dest[cur], pay |-> plan.pay, chg |-> plan.chg]}
      BY <2>7, Zenon DEF Signs
    <3> DEFINE tx == [ins |-> plan.ins, to |-> Dest[cur], pay |-> plan.pay, chg |-> plan.chg]
    <3>2. Sound(tx)
      BY <2>1, <3>1, SignedIsSound, Zenon
    <3>3. Payouts(e) = {tx}
      BY <3>1, Zenon
    <3> HIDE DEF tx
    <3>4. IsFiniteSet(Payouts(e)) /\ \A t \in Payouts(e) : Sound(t)
      BY <3>2, <3>3, FS_Singleton, Zenon
    <3> QED
      BY <1>2, <2>2, <2>5, <3>4, Zenon
  <2> QED
    BY <1>11, <2>6, <2>7, Zenon DEF Writes
<1> QED
  BY <1>6, <1>7, <1>8, <1>9, <1>10, <1>11, Moves, Zenon

LEMMA InitSound ==
  ASSUME Init PROVE SoundInv
<1>1. PICK old \in SUBSET Withdrawal :
        /\ mem = [w \in Withdrawal |-> [NoEntry EXCEPT !.legacy = w \in old]]
        /\ mempool = {} \/ \E t \in LegacyTx : mempool = {t}
  BY Zenon DEF Init
<1>2. limbo = {} /\ Mined = Funded /\ file = mem /\ at = "next"
  BY Zenon DEF Init, Mined
<1>3. \A w \in Withdrawal : Payouts(mem[w]) = {} /\ Payouts(file[w]) = {}
  BY <1>1, <1>2, Zenon DEF NoEntry, Payouts
<1>4. Hopes = {} /\ Saved = {}
  BY <1>3 DEF Hopes, Saved
<1>5. IsFiniteSet(mempool) /\ IsFiniteSet(Funded)
  BY <1>1, BtcAssumption, FS_EmptySet, FS_Singleton, FS_Subset, Zenon
<1>6. IsFiniteSet(mempool \cup Funded)
  BY <1>5, FS_Union, Zenon
<1>7. Net \cup Hopes \cup Saved = mempool \cup Funded
  BY <1>2, <1>4, Zenon DEF Net, Seen
<1>8. \A t \in Deposit \cup LegacyTx : Sound(t)
  BY BtcAssumption, Zenon DEF Sound, Alike
<1>9. mempool \cup Funded \subseteq Deposit \cup LegacyTx
  BY <1>1, BtcAssumption, Zenon
<1>10. at # "plan"
  BY <1>2, Zenon
<1> QED
  BY <1>6, <1>7, <1>8, <1>9, <1>10, Zenon DEF SoundInv

LEMMA InitLegacy ==
  ASSUME Init PROVE LegacyInv
<1>1. PICK old \in SUBSET Withdrawal :
        /\ Cardinality(old) <= 1
        /\ mem = [w \in Withdrawal |-> [NoEntry EXCEPT !.legacy = w \in old]]
        /\ status = [w \in Withdrawal |-> IF w \in old THEN "pending" ELSE "none"]
        /\ mempool = {} \/ \E w \in old, t \in LegacyTx : t.to = Dest[w] /\ mempool = {t}
  BY Zenon DEF Init
<1>2. limbo = {} /\ Mined = Funded /\ at = "next"
  BY Zenon DEF Init, Mined
<1>3. \A w \in Withdrawal : (mem[w].legacy <=> w \in old) /\ Payouts(mem[w]) = {}
  BY <1>1, Zenon DEF NoEntry, Payouts
<1>4. old \subseteq Burned
  BY <1>1, Zenon DEF Burned
<1>5. \A v, w \in old : v = w
  <2> SUFFICES ASSUME NEW v \in old, NEW w \in old, v # w PROVE FALSE
    BY Zenon
  <2>1. IsFiniteSet(old) /\ {v, w} \subseteq old
    BY BtcAssumption, FS_Subset, Zenon
  <2>2. IsFiniteSet({v}) /\ Cardinality({v}) = 1
    BY FS_Singleton, Zenon
  <2>3. Cardinality({v} \cup {w}) = 2
    BY <2>2, FS_AddElement
  <2>4. Cardinality({v} \cup {w}) <= Cardinality(old) /\ Cardinality(old) \in Nat
    BY <2>1, FS_Subset, FS_CardinalityType, Zenon
  <2> QED
    BY <1>1, <2>3, <2>4
<1>6. Strays \subseteq mempool
  BY <1>2, BtcAssumption, Zenon DEF Strays, Net, Seen
<1>7. at # "settle" /\ at \notin {"build", "plan"}
  BY <1>2, Zenon
<1>8. \A v, w \in Withdrawal : mem[v].legacy /\ mem[w].legacy => v = w
  BY <1>3, <1>5, Zenon
<1>9. \A w \in Withdrawal : mem[w].legacy => w \in Burned /\ Payouts(mem[w]) = {}
  BY <1>3, <1>4, Zenon
<1>10. /\ \A t, u \in Strays : t = u
       /\ \A t \in Strays : \E w \in Withdrawal : mem[w].legacy /\ t.to = Dest[w]
  BY <1>1, <1>3, <1>6, Zenon
<1> QED
  BY <1>2, <1>7, <1>8, <1>9, <1>10, Zenon DEF LegacyInv

\* Whose payout a transaction is.
Owns(t, v) == t \in Payouts(mem[v]) \/ (Kept /\ mem[v].legacy /\ t \in Strays)

(* What a scan that finds nothing has shown: every payout to the address belongs to another
   withdrawal, and no two to the same. *)
LEMMA ScanCounts ==
  ASSUME Shapes, Located, DaemonTypes, RelayerTypes, OwnInv,
         Kept => LegacyInv, Kept \/ (Alike /\ limbo = {} /\ SoundInv),
         at = "scan", FindExistingPayout(cur) = {}, ~mem[cur].legacy
  PROVE  LET d == Dest[cur] IN /\ IsFiniteSet(Paying(d)) /\ Cardinality(Paying(d)) \in Nat
                               /\ Cardinality(Paying(d)) < Cardinality(Debts(d))
<1> DEFINE d == Dest[cur]
           D == Debts(d) \ {cur}
<1>1. cur \in Withdrawal /\ cur \in Burned /\ mem[cur].txid = None /\ mem[cur].planned = None
  BY Zenon DEF Shapes, Located, RelayerTypes, DaemonTypes
<1>2. Payouts(mem[cur]) = {} /\ cur \in Debts(d) /\ Debts(d) \subseteq Withdrawal
  BY <1>1, Zenon DEF Payouts, Debts, Burned
<1>3. ASSUME NEW t \in Paying(d) PROVE \E v \in D : Owns(t, v)
  <2>1. t \in Net \cup Hopes /\ t.ins # {} /\ t.to = d
    BY Zenon DEF Paying
  <2>2. CASE t \in Hopes
    <3>1. PICK v \in Withdrawal : t \in Payouts(mem[v])
      BY <2>2, Zenon DEF Hopes
    <3>2. v # cur /\ v \in Burned /\ Dest[v] = d
      BY <1>2, <2>1, <3>1, Zenon DEF OwnInv
    <3> QED
      BY <3>1, <3>2, Zenon DEF Debts, Owns
  <2>3. CASE t \notin Hopes /\ Kept /\ LegacyInv
    <3>1. t \in Strays
      BY <2>1, <2>3, Zenon DEF Strays
    <3>2. PICK v \in Withdrawal : mem[v].legacy /\ t.to = Dest[v]
      BY <2>3, <3>1, Zenon DEF LegacyInv
    <3>3. v # cur /\ v \in Burned
      BY <2>3, <3>2, Zenon DEF LegacyInv
    <3> QED
      BY <2>1, <2>3, <3>1, <3>2, <3>3, Zenon DEF Debts, Owns
  <2>4. CASE t \notin Hopes /\ Alike /\ limbo = {} /\ SoundInv
    <3>1. t \in Seen /\ t # None
      BY <2>1, <2>4, Zenon DEF Net, OwnInv
    <3>2. PayoutSettles(t, Dest[cur], Owed[cur])
      BY <1>1, <2>1, <2>4, Zenon DEF SoundInv, Sound
    <3>3. t \in KnownPayoutTxids
      BY <3>1, <3>2, Zenon DEF FindExistingPayout
    <3>4. t \in Hopes
      BY <3>1, <3>3 DEF KnownPayoutTxids, Hopes, Payouts
    <3> QED
      BY <2>4, <3>4, Zenon
  <2> QED
    BY <2>2, <2>3, <2>4, Zenon
<1>4. ASSUME NEW v \in Withdrawal, NEW t, NEW u, Owns(t, v), Owns(u, v) PROVE t = u
  <2>1. Single(mem[v])
    BY Zenon DEF RelayerTypes
  <2>2. CASE t \in Payouts(mem[v]) /\ u \in Payouts(mem[v])
    BY <2>1, <2>2, Zenon DEF Single, Payouts
  <2>3. CASE Kept /\ LegacyInv /\ mem[v].legacy
    <3>1. Payouts(mem[v]) = {}
      BY <2>3, Zenon DEF LegacyInv
    <3>2. t \in Strays /\ u \in Strays
      BY <1>4, <3>1, Zenon DEF Owns
    <3> QED
      BY <2>3, <3>2, Zenon DEF LegacyInv
  <2> QED
    BY <1>4, <2>2, <2>3, Zenon DEF Owns
<1> DEFINE f == [t \in Paying(d) |-> CHOOSE v \in D : Owns(t, v)]
<1>5. \A t \in Paying(d) : f[t] \in D /\ Owns(t, f[t])
  BY <1>3, Zenon
<1>6. f \in [Paying(d) -> D]
  BY <1>5, Zenon
<1>7. \A t, u \in Paying(d) : f[t] = f[u] => t = u
  BY <1>2, <1>4, <1>5, Zenon
<1>8. IsFiniteSet(Debts(d))
  BY <1>2, BtcAssumption, FS_Subset, Zenon
<1>9. IsFiniteSet(D) /\ Cardinality(D) = Cardinality(Debts(d)) - 1 /\ Cardinality(Debts(d)) \in Nat
  BY <1>2, <1>8, FS_RemoveElement, FS_CardinalityType, Zenon
<1> HIDE DEF f, D
<1>10. f \in Injection(Paying(d), D)
  BY <1>6, <1>7, Zenon DEF Injection, IsInjective
<1>11. IsFiniteSet(Paying(d)) /\ Cardinality(Paying(d)) <= Cardinality(D)
  BY <1>9, <1>10, FS_Injection, Zenon
<1>12. Cardinality(Paying(d)) \in Nat
  BY <1>11, FS_CardinalityType, Zenon
<1> HIDE DEF d
<1>13. Cardinality(Paying(d)) < Cardinality(Debts(d))
  BY <1>9, <1>11, <1>12
<1> QED
  BY <1>11, <1>12, <1>13, Zenon DEF d

\* A step after which there are no new payouts.
LEMMA CountStep ==
  ASSUME Shapes, DaemonTypes, CountInv, [Next]_vars, \A d : Paying(d)' \subseteq Paying(d),
         at' \in {"build", "plan"} => cur' = cur /\ Cardinality(Paying(Dest[cur])) < Cardinality(Debts(Dest[cur]))
  PROVE  CountInv'
<1>1. ASSUME NEW d
      PROVE  /\ IsFiniteSet(Paying(d)') /\ Cardinality(Paying(d)') <= Cardinality(Debts(d)')
             /\ at' \in {"build", "plan"} /\ d = Dest[cur'] => Cardinality(Paying(d)') < Cardinality(Debts(d)')
  <2>1. IsFiniteSet(Paying(d)) /\ Cardinality(Paying(d)) <= Cardinality(Debts(d))
    BY Zenon DEF CountInv
  <2>2. IsFiniteSet(Paying(d)') /\ Cardinality(Paying(d)') <= Cardinality(Paying(d))
    BY <2>1, FS_Subset, Zenon
  <2>3. Cardinality(Paying(d)) \in Nat /\ Cardinality(Paying(d)') \in Nat
    BY <2>1, <2>2, FS_CardinalityType, Zenon
  <2>4. /\ Cardinality(Debts(d)) \in Nat /\ Cardinality(Debts(d)') \in Nat
        /\ Cardinality(Debts(d)) <= Cardinality(Debts(d)')
    BY DebtsGrow, Zenon
  <2>5. at' \in {"build", "plan"} /\ d = Dest[cur'] => Cardinality(Paying(d)) < Cardinality(Debts(d))
    BY Zenon
  <2> QED
    BY <2>1, <2>2, <2>3, <2>4, <2>5
<1> QED
  BY <1>1, Zenon DEF CountInv

\* The relayer signs: there was a debt to the address without a payout.
LEMMA SignCounts ==
  ASSUME Shapes, DaemonTypes, CountInv, [Next]_vars, NEW tx, at = "plan", tx.to = Dest[cur],
         Net' = Net, Hopes' \subseteq Hopes \cup {tx}, at' \notin {"build", "plan"}
  PROVE  CountInv'
<1>1. ASSUME NEW d PROVE IsFiniteSet(Paying(d)') /\ Cardinality(Paying(d)') <= Cardinality(Debts(d)')
  <2>1. IsFiniteSet(Paying(d)) /\ Cardinality(Paying(d)) <= Cardinality(Debts(d))
    BY Zenon DEF CountInv
  <2>2. /\ Cardinality(Debts(d)) \in Nat /\ Cardinality(Debts(d)') \in Nat
        /\ Cardinality(Debts(d)) <= Cardinality(Debts(d)')
    BY DebtsGrow, Zenon
  <2>3. Cardinality(Paying(d)) \in Nat
    BY <2>1, FS_CardinalityType, Zenon
  <2>4. CASE d # Dest[cur]
    <3>1. Paying(d)' \subseteq Paying(d)
      BY <2>4, Zenon DEF Paying
    <3>2. IsFiniteSet(Paying(d)') /\ Cardinality(Paying(d)') <= Cardinality(Paying(d))
      BY <2>1, <3>1, FS_Subset, Zenon
    <3>3. Cardinality(Paying(d)') \in Nat
      BY <3>2, FS_CardinalityType, Zenon
    <3> QED
      BY <2>1, <2>2, <2>3, <3>2, <3>3
  <2>5. CASE d = Dest[cur]
    <3>1. Paying(d)' \subseteq Paying(d) \cup {tx}
      BY Zenon DEF Paying
    <3>2. IsFiniteSet(Paying(d) \cup {tx}) /\ Cardinality(Paying(d) \cup {tx}) <= Cardinality(Paying(d)) + 1
      <4>1. /\ IsFiniteSet(Paying(d) \cup {tx})
            /\ Cardinality(Paying(d) \cup {tx}) = IF tx \in Paying(d) THEN Cardinality(Paying(d))
                                                  ELSE Cardinality(Paying(d)) + 1
        BY <2>1, FS_AddElement, Zenon
      <4> QED
        BY <2>3, <4>1
    <3>3. IsFiniteSet(Paying(d)') /\ Cardinality(Paying(d)') <= Cardinality(Paying(d) \cup {tx})
      BY <3>1, <3>2, FS_Subset, Zenon
    <3>4. Cardinality(Paying(d)') \in Nat /\ Cardinality(Paying(d) \cup {tx}) \in Nat
      BY <3>2, <3>3, FS_CardinalityType, Zenon
    <3>5. Cardinality(Paying(d)) < Cardinality(Debts(d))
      BY <2>5, Zenon DEF CountInv
    <3> QED
      BY <2>2, <2>3, <3>2, <3>3, <3>4, <3>5
  <2> QED
    BY <2>4, <2>5, Zenon
<1> QED
  BY <1>1, Zenon DEF CountInv

LEMMA CountKept ==
  ASSUME NoneIsNoTx, RecordInv, DaemonTypes, RelayerTypes, OwnInv, CountInv, [Next]_vars,
         Kept => LegacyInv, Kept \/ (Alike /\ Apart /\ SoundInv)
  PROVE  CountInv'
<1>0. Shapes /\ Located /\ (Kept => file = mem)
  BY Zenon DEF RecordInv
<1>1. ASSUME UNCHANGED mem PROVE Hopes' = Hopes
  BY <1>1, Zenon DEF Hopes
<1>2. ASSUME UNCHANGED bitcoin PROVE Net' = Net
  BY <1>2, Zenon DEF bitcoin, Net, Seen, Mined
<1>3. ASSUME Net' \cup Hopes' \subseteq Net \cup Hopes \cup Deposit,
             at' \in {"build", "plan"} => cur' = cur /\ Cardinality(Paying(Dest[cur])) < Cardinality(Debts(Dest[cur]))
      PROVE  CountInv'
  <2>1. \A d : Paying(d)' \subseteq Paying(d)
    BY <1>3, BtcAssumption, Zenon DEF Paying
  <2> QED
    BY <1>0, <1>3, <2>1, CountStep, Zenon
<1>4. at \in {"build", "plan"} => Cardinality(Paying(Dest[cur])) < Cardinality(Debts(Dest[cur]))
  BY Zenon DEF CountInv
<1>5. CASE Outside
  <2>1. UNCHANGED <<mem, at, cur>> /\ Net' \subseteq Net \cup Deposit
    BY <1>5, Zenon DEF Outside, relayer
  <2> QED
    BY <1>1, <1>3, <1>4, <2>1, Zenon
<1>6. CASE Quiet
  <2>1. UNCHANGED <<bitcoin, mem>> /\ at' \notin {"build", "plan"}
    BY <1>6, Zenon DEF Quiet
  <2> QED
    BY <1>1, <1>2, <1>3, <2>1, Zenon
<1>7. CASE GoesOn
  <2>1. /\ at = "scan" /\ FindExistingPayout(cur) = {} /\ ~mem[cur].legacy
        /\ UNCHANGED <<bitcoin, mem, cur>>
    BY <1>7, Zenon DEF GoesOn
  <2>2. Kept \/ (Alike /\ limbo = {} /\ SoundInv)
    BY Zenon DEF Apart
  <2>3. Cardinality(Paying(Dest[cur])) < Cardinality(Debts(Dest[cur]))
    BY <1>0, <2>1, <2>2, ScanCounts, Zenon
  <2> QED
    BY <1>1, <1>2, <1>3, <2>1, <2>3, Zenon
<1>8. ASSUME NEW r \in HighRate \cup {Rate}, ReadCoins(r) PROVE CountInv'
  <2>1. UNCHANGED <<bitcoin, mem, cur>> /\ at \in {"build", "plan"}
    BY <1>8, Zenon DEF ReadCoins
  <2> QED
    BY <1>1, <1>2, <1>3, <1>4, <2>1, Zenon
<1>9. CASE Send
  <2>1. UNCHANGED mem /\ at' = "settle" /\ Net' \subseteq Net \cup Hopes
    BY <1>0, <1>9, SendNet, Zenon DEF Hopes
  <2>2. at' \notin {"build", "plan"}
    BY <2>1, Zenon
  <2> QED
    BY <1>1, <1>3, <2>1, <2>2, Zenon
<1>10. CASE Crash
  <2>1. UNCHANGED bitcoin /\ at' \notin {"build", "plan"}
    BY <1>10, CrashEntries, Zenon
  <2>2. \A w \in Withdrawal : Payouts(mem'[w]) \subseteq Payouts(mem[w])
    <3>1. CASE Kept
      BY <1>0, <1>10, <3>1, CrashEntries, Zenon DEF Kept
    <3>2. CASE Apart
      BY <1>10, <3>2, CrashEntries, Zenon DEF Apart
    <3> QED
      BY <3>1, <3>2, Zenon
  <2>3. Hopes' \subseteq Hopes
    BY <2>2 DEF Hopes, Payouts
  <2> QED
    BY <1>2, <1>3, <2>1, <2>3, Zenon
<1>11. ASSUME NEW e, Writes(e) PROVE CountInv'
  <2>1. cur \in Withdrawal /\ UNCHANGED bitcoin /\ at' \notin {"build", "plan"}
    BY <1>11, Zenon DEF Writes
  <2>2. \A w \in Withdrawal : Payouts(mem'[w]) \subseteq Payouts(mem[w]) \cup Payouts(e)
    BY <1>0, <1>11, WritesEntries, Zenon
  <2>3. Hopes' \subseteq Hopes \cup Payouts(e)
    BY <2>2 DEF Hopes, Payouts
  <2>4. CASE Adopts(e) \/ Keeps(e)
    <3>1. Payouts(e) \subseteq Net \cup Hopes
      BY <2>1, <2>4, Zenon DEF Adopts, Keeps, FindExistingPayout, Net, Hopes
    <3> QED
      BY <1>2, <1>3, <2>1, <2>3, <3>1, Zenon
  <2>5. CASE Signs(e)
    <3>1. PICK tx : at = "plan" /\ Payouts(e) = {tx} /\ tx.to = Dest[cur]
      <4>1. PICK plan :
              /\ at = "plan"
              /\ Payouts(e) = {[ins |-> plan.ins, to |-> Dest[cur], pay |-> plan.pay, chg |-> plan.chg]}
        BY <2>5, Zenon DEF Signs
      <4>2. [ins |-> plan.ins, to |-> Dest[cur], pay |-> plan.pay, chg |-> plan.chg].to = Dest[cur]
        BY Zenon
      <4> QED
        BY <4>1, <4>2, Zenon
    <3> QED
      BY <1>0, <1>2, <2>1, <2>3, <3>1, SignCounts, Zenon
  <2> QED
    BY <1>11, <2>4, <2>5, Zenon DEF Writes
<1> QED
  BY <1>0, <1>5, <1>6, <1>7, <1>8, <1>9, <1>10, <1>11, Moves, Zenon

LEMMA InitCounts ==
  ASSUME Init PROVE CountInv
<1>1. LegacyInv /\ limbo = {} /\ at = "next"
  BY InitLegacy, Zenon DEF Init
<1>2. \A w \in Withdrawal : Payouts(mem[w]) = {}
  BY DEF Init, NoEntry, Payouts
<1>3. Hopes = {} /\ \A d : Paying(d) \subseteq Strays
  BY <1>2, Zenon DEF Hopes, Paying, Strays
<1>4. ASSUME NEW d PROVE IsFiniteSet(Paying(d)) /\ Cardinality(Paying(d)) <= Cardinality(Debts(d))
  <2>0. Debts(d) \subseteq Withdrawal
    BY Zenon DEF Debts, Burned
  <2>1. IsFiniteSet(Debts(d)) /\ Cardinality(Debts(d)) \in Nat
    BY <2>0, BtcAssumption, FS_Subset, FS_CardinalityType, Zenon
  <2>2. CASE Paying(d) = {}
    BY <2>1, <2>2, FS_EmptySet
  <2>3. ASSUME NEW t \in Paying(d) PROVE IsFiniteSet(Paying(d)) /\ Cardinality(Paying(d)) <= Cardinality(Debts(d))
    <3>1. Paying(d) = {t} /\ t.to = d
      BY <1>1, <1>3 DEF LegacyInv, Paying
    <3>2. PICK w \in Withdrawal : mem[w].legacy /\ t.to = Dest[w]
      BY <1>1, <1>3, Zenon DEF LegacyInv
    <3>3. w \in Debts(d)
      BY <1>1, <3>1, <3>2, Zenon DEF LegacyInv, Debts
    <3>4. Debts(d) # {} => Cardinality(Debts(d)) # 0
      BY <2>1, FS_EmptySet, Zenon
    <3>5. Cardinality({t}) = 1 /\ IsFiniteSet({t})
      BY FS_Singleton, Zenon
    <3> QED
      BY <2>1, <3>1, <3>3, <3>4, <3>5
  <2> QED
    BY <2>2, <2>3, Zenon
<1>5. at \notin {"build", "plan"}
  BY <1>1, Zenon
<1> QED
  BY <1>4, <1>5, Zenon DEF CountInv

\* Mined payouts are payouts.
LEMMA CountIsEnough ==
  ASSUME CountInv, DaemonTypes PROVE PaidOnce
<1> SUFFICES ASSUME NEW d
             PROVE  Cardinality({t \in Mined : t.ins # {} /\ t.to = d}) <= Cardinality({w \in Burned : Dest[w] = d})
  BY Zenon DEF PaidOnce
<1> DEFINE T == {t \in Mined : t.ins # {} /\ t.to = d}
<1>1. T \subseteq Paying(d)
  BY Zenon DEF Paying, Net, Seen
<1>2. IsFiniteSet(Paying(d)) /\ Cardinality(Paying(d)) <= Cardinality(Debts(d))
  BY Zenon DEF CountInv
<1>3. IsFiniteSet(T) /\ Cardinality(T) <= Cardinality(Paying(d))
  BY <1>1, <1>2, FS_Subset, Zenon
<1>4. Debts(d) \subseteq Withdrawal
  BY Zenon DEF Debts, Burned
<1>5. Cardinality(T) \in Nat /\ Cardinality(Paying(d)) \in Nat /\ Cardinality(Debts(d)) \in Nat
  BY <1>2, <1>3, <1>4, BtcAssumption, FS_Subset, FS_CardinalityType, Zenon
<1> HIDE DEF T
<1>6. Cardinality(T) <= Cardinality(Debts(d))
  BY <1>2, <1>3, <1>5
<1> QED
  BY <1>6, Zenon DEF T, Debts

-----------------------------------------------------------------------------
(* What custody loses. *)
\* A payout that takes no more out of custody than was burned for w, up to the dust.
Fits(t, w) == Coins(t.ins) - t.chg <= Owed[w] + Dust

(* Every payout fits the withdrawal it is for; and if withdrawals to an address are alike, every
   payout to it fits any of them. *)
FitInv ==
  /\ \A w \in Withdrawal : \A t \in Payouts(mem[w]) \cup Payouts(file[w]) : Fits(t, w)
  /\ Alike => \A t \in Net, w \in Withdrawal : t.ins # {} /\ t.to = Dest[w] => Fits(t, w)

LEMMA SignedFits ==
  ASSUME SoundInv, at = "plan", cur \in Withdrawal,
         NEW plan \in PlanPayout(answer.coins, Owed[cur], answer.rate), plan.kind = "ok",
         NEW tx, tx = [ins |-> plan.ins, to |-> Dest[cur], pay |-> plan.pay, chg |-> plan.chg]
  PROVE  Fits(tx, cur)
<1>1. /\ IsFiniteSet(answer.coins) /\ (\A t \in answer.coins : t.chg \in Nat)
      /\ answer.rate \in HighRate \cup {Rate}
  BY Zenon DEF SoundInv
<1>4. Owed[cur] \in Nat /\ answer.rate \in Nat
  BY <1>1, BtcAssumption, Zenon
<1>5. Coins(plan.ins) - plan.chg <= Owed[cur] + Dust
  BY <1>1, <1>4, PlannedAmounts, Zenon
<1>6. tx.ins = plan.ins /\ tx.chg = plan.chg
  BY Zenon
<1> QED
  BY <1>5, <1>6, Zenon DEF Fits

LEMMA FitKept ==
  ASSUME NoneIsNoTx, RecordInv, RelayerTypes, OwnInv, SoundInv, FitInv, Accounted, [Next]_vars
  PROVE  FitInv'
<1>0. Shapes /\ Located
  BY Zenon DEF RecordInv
<1>1. \A w \in Withdrawal : \A t \in Payouts(mem[w]) \cup Payouts(file[w]) : Fits(t, w)
  BY Zenon DEF FitInv
<1>2. ASSUME \A w \in Withdrawal : \A t \in Payouts(mem'[w]) \cup Payouts(file'[w]) : Fits(t, w),
             \A t \in Net' : t \in Net \/ t.ins = {} \/ \E v \in Withdrawal : t.to = Dest[v] /\ Fits(t, v)
      PROVE  FitInv'
  <2>1. ASSUME Alike, NEW t \in Net', NEW w \in Withdrawal, t.ins # {}, t.to = Dest[w] PROVE Fits(t, w)
    <3>1. CASE t \in Net
      BY <2>1, <3>1, Zenon DEF FitInv
    <3>2. ASSUME NEW v \in Withdrawal, t.to = Dest[v], Fits(t, v) PROVE Fits(t, w)
      <4>1. Owed[v] = Owed[w]
        BY <2>1, <3>2, Zenon DEF Alike
      <4> QED
        BY <3>2, <4>1, Zenon DEF Fits
    <3> QED
      BY <1>2, <2>1, <3>1, <3>2, Zenon
  <2>2. \A t, w : Fits(t, w)' <=> Fits(t, w)
    BY Zenon DEF Fits
  <2> QED
    BY <1>2, <2>1, <2>2, Zenon DEF FitInv, Fits, Alike
<1>3. ASSUME UNCHANGED bitcoin PROVE Net' = Net
  BY <1>3, Zenon DEF bitcoin, Net, Seen, Mined
<1>4. CASE Outside
  <2>1. UNCHANGED <<mem, file>> /\ Net' \subseteq Net \cup Deposit
    BY <1>4, Zenon DEF Outside, relayer
  <2>2. \A t \in Deposit : t.ins = {}
    BY BtcAssumption, Zenon
  <2> QED
    BY <1>1, <1>2, <2>1, <2>2, Zenon
<1>5. CASE Quiet \/ GoesOn \/ (\E r \in HighRate \cup {Rate} : ReadCoins(r))
  <2>1. UNCHANGED <<bitcoin, mem, file>>
    BY <1>5, Zenon DEF Quiet, GoesOn, ReadCoins
  <2> QED
    BY <1>1, <1>2, <1>3, <2>1, Zenon
<1>6. CASE Send
  <2>1. /\ UNCHANGED <<mem, file>> /\ cur \in Withdrawal /\ Net' \subseteq Net \cup {mem[cur].planned}
        /\ mem[cur].planned \in Payouts(mem[cur])
    BY <1>0, <1>6, SendNet, Zenon
  <2>2. mem[cur].planned.to = Dest[cur] /\ Fits(mem[cur].planned, cur)
    BY <1>1, <2>1, Zenon DEF OwnInv
  <2> QED
    BY <1>1, <1>2, <2>1, <2>2, Zenon
<1>7. CASE Crash
  <2>1. UNCHANGED bitcoin
    BY <1>7, CrashEntries, Zenon
  <2>2. \A w \in Withdrawal : Payouts(mem'[w]) \cup Payouts(file'[w]) \subseteq Payouts(file[w])
    BY <1>7, CrashEntries, Zenon
  <2> QED
    BY <1>1, <1>2, <1>3, <2>1, <2>2, Zenon
<1>8. ASSUME NEW e, Writes(e) PROVE FitInv'
  <2>1. cur \in Withdrawal /\ UNCHANGED bitcoin /\ (file' = mem' \/ file' = file)
    BY <1>8, Zenon DEF Writes
  <2>2. mem'[cur] = e /\ \A w \in Withdrawal \ {cur} : mem'[w] = mem[w]
    BY <1>0, <1>8, WritesEntries, Zenon
  <2>3. ASSUME \A t \in Payouts(e) : Fits(t, cur) PROVE FitInv'
    <3>1. \A w \in Withdrawal : \A t \in Payouts(mem'[w]) : Fits(t, w)
      BY <1>1, <2>2, <2>3, Zenon
    <3>2. \A w \in Withdrawal : \A t \in Payouts(file'[w]) : Fits(t, w)
      BY <1>1, <2>1, <3>1, Zenon
    <3> QED
      BY <1>2, <1>3, <2>1, <3>1, <3>2, Zenon
  <2>4. CASE Keeps(e)
    BY <1>1, <2>1, <2>3, <2>4, Zenon DEF Keeps
  <2>5. CASE Adopts(e)
    <3>1. PICK t \in FindExistingPayout(cur) : Payouts(e) = {t} \ {None}
      BY <2>5, Zenon DEF Adopts
    <3>2. t \in Net /\ t.ins # {} /\ t.to = Dest[cur] /\ t \notin KnownPayoutTxids
      BY <3>1, Zenon DEF FindExistingPayout, PayoutSettles, Net
    <3>3. Fits(t, cur)
      <4>1. CASE Alike
        BY <2>1, <3>2, <4>1, Zenon DEF FitInv
      <4>2. CASE Kept
        <5>1. ~Recorded(t)
          BY <3>2, Zenon DEF Recorded, KnownPayoutTxids
        <5>2. t \in LegacyTx
          BY <3>2, <4>2, <5>1, Zenon DEF RecordInv, Broadcast, Net
        <5> QED
          BY <2>1, <3>2, <5>2, LegacyAssumption, Zenon DEF Fits
      <4> QED
        BY <4>1, <4>2, Zenon DEF Accounted
    <3> QED
      BY <2>3, <3>1, <3>3, Zenon
  <2>6. CASE Signs(e)
    <3>1. PICK plan \in PlanPayout(answer.coins, Owed[cur], answer.rate) :
            /\ plan.kind = "ok" /\ at = "plan"
            /\ Payouts(e) = {[ins |-> plan.ins, to |-> Dest[cur], pay |-> plan.pay, chg |-> plan.chg]}
      BY <2>6, Zenon DEF Signs
    <3> DEFINE tx == [ins |-> plan.ins, to |-> Dest[cur], pay |-> plan.pay, chg |-> plan.chg]
    <3>2. Fits(tx, cur)
      BY <2>1, <3>1, SignedFits, Zenon
    <3>3. Payouts(e) = {tx}
      BY <3>1, Zenon
    <3> HIDE DEF tx
    <3> QED
      BY <2>3, <3>2, <3>3, Zenon
  <2> QED
    BY <1>8, <2>4, <2>5, <2>6, Zenon DEF Writes
<1> QED
  BY <1>0, <1>4, <1>5, <1>6, <1>7, <1>8, Moves, Zenon

LEMMA InitFits ==
  ASSUME Init PROVE FitInv
<1>1. PICK old \in SUBSET Withdrawal :
        /\ mem = [w \in Withdrawal |-> [NoEntry EXCEPT !.legacy = w \in old]]
        /\ mempool = {} \/ \E t \in LegacyTx : mempool = {t}
  BY Zenon DEF Init
<1>2. limbo = {} /\ Mined = Funded /\ file = mem
  BY Zenon DEF Init, Mined
<1>3. \A w \in Withdrawal : Payouts(mem[w]) = {} /\ Payouts(file[w]) = {}
  BY <1>1, <1>2, Zenon DEF NoEntry, Payouts
<1>4. Net \subseteq Deposit \cup LegacyTx
  BY <1>1, <1>2, BtcAssumption, Zenon DEF Net, Seen
<1>5. \A t \in Net, w \in Withdrawal : t.ins # {} /\ t.to = Dest[w] => Fits(t, w)
  BY <1>4, BtcAssumption, LegacyAssumption, Zenon DEF Fits
<1> QED
  BY <1>3, <1>5, Zenon DEF FitInv

\* The elements can be taken in any order.
LEMMA TotalSplit ==
  ASSUME NEW f, NEW S, IsFiniteSet(S), \A x \in S : f[x] \in Nat, NEW a \in S
  PROVE  Total(f, S) = f[a] + Total(f, S \ {a})
<1> DEFINE B == {u \in SUBSET S : \E x \in u : Total(f, u) # f[x] + Total(f, u \ {x})}
<1>1. SUFFICES ASSUME B # {} PROVE FALSE
  BY Zenon
<1>2. PICK u \in B : \A v \in B : v \subseteq u => v = u
  <2>1. B \subseteq SUBSET S
    BY Zenon
  <2> HIDE DEF B
  <2> QED
    BY <1>1, <2>1, Smallest
<1>3. PICK x \in u : Total(f, u) # f[x] + Total(f, u \ {x})
  BY <1>2, Zenon
<1>4. u \in SUBSET S /\ IsFiniteSet(u) /\ u # {}
  BY <1>2, <1>3, FS_Subset, Zenon
<1> DEFINE y == Pick(u)
           v == u \ {y}
           w == u \ {x}
           r == v \ {x}
<1>5. y \in u /\ Total(f, u) = f[y] + Total(f, v)
  BY <1>4, TotalFirst, Zenon
<1>6. x # y
  BY <1>3, <1>5, Zenon
<1>7. /\ v \in SUBSET S /\ v \subseteq u /\ v # u /\ x \in v
      /\ w \in SUBSET S /\ w \subseteq u /\ w # u /\ y \in w
      /\ w \ {y} = r
  BY <1>3, <1>4, <1>5, <1>6, Zenon
<1>8. v \notin B /\ w \notin B
  BY <1>2, <1>7, Zenon
<1>9. Total(f, v) = f[x] + Total(f, r)
  BY <1>7, <1>8, Zenon
<1>10. Total(f, w) = f[y] + Total(f, r)
  BY <1>7, <1>8, Zenon
<1>11. IsFiniteSet(r) /\ r \subseteq S
  BY <1>4, <1>7, FS_Subset, Zenon
<1>12. Total(f, r) \in Nat
  BY <1>11, TotalNat, Zenon
<1>13. f[x] \in Nat /\ f[y] \in Nat
  BY <1>4, <1>5, Zenon
<1>14. Total(f, u) # f[x] + Total(f, w)
  BY <1>3, Zenon
<1> HIDE DEF y, v, w, r, B
<1> QED
  BY <1>5, <1>9, <1>10, <1>12, <1>13, <1>14

LEMMA TotalAgree ==
  ASSUME NEW f, NEW e, NEW S, IsFiniteSet(S), \A x \in S : f[x] = e[x]
  PROVE  Total(f, S) = Total(e, S)
<1>1. PICK g : Adds(g, f, S) /\ Total(f, S) = g[S]
  BY TotalAdds, Zenon
<1>2. PICK h : Adds(h, e, S) /\ Total(e, S) = h[S]
  BY TotalAdds, Zenon
<1>3. g[S] = h[S]
  BY <1>1, <1>2, AddsAgree
<1> QED
  BY <1>1, <1>2, <1>3, Zenon

LEMMA TotalUnion ==
  ASSUME NEW f, NEW S, NEW T, IsFiniteSet(S), IsFiniteSet(T), S \cap T = {},
         \A x \in S \cup T : f[x] \in Nat
  PROVE  Total(f, S \cup T) = Total(f, S) + Total(f, T)
<1> DEFINE B == {u \in SUBSET T : Total(f, S \cup u) # Total(f, S) + Total(f, u)}
<1>1. SUFFICES ASSUME B # {} PROVE FALSE
  BY Zenon
<1>2. PICK u \in B : \A v \in B : v \subseteq u => v = u
  <2>1. B \subseteq SUBSET T
    BY Zenon
  <2> HIDE DEF B
  <2> QED
    BY <1>1, <2>1, Smallest
<1>3. u \in SUBSET T /\ IsFiniteSet(u) /\ Total(f, S \cup u) # Total(f, S) + Total(f, u)
  BY <1>2, FS_Subset, Zenon
<1>4. Total(f, S) \in Nat
  BY TotalNat, Zenon
<1>5. CASE u = {}
  <2>1. Total(f, u) = 0
    BY <1>3, <1>5, TotalFirst, Zenon
  <2>2. S \cup u = S
    BY <1>5, Zenon
  <2>3. Total(f, S \cup u) = Total(f, S)
    BY <2>2, Zenon
  <2> QED
    BY <1>3, <1>4, <2>1, <2>3
<1>6. ASSUME NEW x \in u PROVE FALSE
  <2> DEFINE v == u \ {x}
             Su == S \cup u
             Sv == S \cup v
  <2>1. v \in SUBSET T /\ v \subseteq u /\ v # u
    BY <1>3, <1>6, Zenon
  <2>2. Total(f, Sv) = Total(f, S) + Total(f, v)
    BY <1>2, <2>1, Zenon
  <2>3. IsFiniteSet(Su) /\ IsFiniteSet(v) /\ x \in Su /\ Su \ {x} = Sv
    <3>1. IsFiniteSet(Su)
      BY <1>3, FS_Union, Zenon
    <3>2. IsFiniteSet(v)
      BY <1>3, <2>1, FS_Subset, Zenon
    <3>3. x \notin S
      BY <1>3, <1>6, Zenon
    <3>4. x \in Su
      BY <1>6, Zenon
    <3>5. Su \ {x} = Sv
      BY <3>3, Zenon
    <3> QED
      BY <3>1, <3>2, <3>4, <3>5, Zenon
  <2>4. /\ \A y \in Su : f[y] \in Nat
        /\ \A y \in u : f[y] \in Nat
        /\ \A y \in v : f[y] \in Nat
    BY <1>3, Zenon
  <2>5. Total(f, u) = f[x] + Total(f, v)
    BY <1>3, <1>6, <2>4, TotalSplit
  <2>6. Su # {} /\ Total(f, Su) = f[x] + Total(f, Sv)
    <3> HIDE DEF Su, Sv
    <3> QED
      BY <2>3, <2>4, TotalSplit
  <2>7. Total(f, v) \in Nat /\ f[x] \in Nat
    <3> HIDE DEF v
    <3> QED
      BY <1>6, <2>3, <2>4, TotalNat, Zenon
  <2>8. Total(f, Su) # Total(f, S) + Total(f, u)
    BY <1>3, Zenon
  <2> HIDE DEF Su, Sv, v, B
  <2> QED
    BY <1>4, <2>2, <2>5, <2>6, <2>7, <2>8
<1> QED
  BY <1>5, <1>6, Zenon

LEMMA TotalPart ==
  ASSUME NEW f, NEW S, IsFiniteSet(S), \A x \in S : f[x] \in Nat, NEW T, T \subseteq S
  PROVE  /\ Total(f, S) = Total(f, T) + Total(f, S \ T)
         /\ Total(f, T) \in Nat /\ Total(f, S \ T) \in Nat
<1> DEFINE R == S \ T
<1>1. IsFiniteSet(T) /\ IsFiniteSet(R) /\ T \cap R = {}
  BY FS_Subset, Zenon
<1>2. T \cup R = S
  BY Zenon
<1>3. (\A x \in T \cup R : f[x] \in Nat) /\ (\A x \in T : f[x] \in Nat) /\ (\A x \in R : f[x] \in Nat)
  BY Zenon
<1> HIDE DEF R
<1>4. Total(f, T) \in Nat /\ Total(f, R) \in Nat
  BY <1>1, <1>3, TotalNat, Zenon
<1>5. Total(f, T \cup R) = Total(f, T) + Total(f, R)
  BY <1>1, <1>3, TotalUnion, Zenon
<1> QED
  BY <1>2, <1>4, <1>5, Zenon DEF R

\* Sums are compared element by element, each element of S with one of its own in T.
LEMMA TotalCompare ==
  ASSUME NEW f, NEW k, NEW e, NEW S, NEW T, IsFiniteSet(S), IsFiniteSet(T),
         NEW own \in [S -> T], \A a, b \in S : own[a] = own[b] => a = b,
         \A a \in S : f[a] \in Nat /\ k[a] \in Nat /\ f[a] <= k[a] + e[own[a]],
         \A b \in T : e[b] \in Nat
  PROVE  Total(f, S) <= Total(k, S) + Total(e, T)
<1> DEFINE img(u) == {own[a] : a \in u}
           B == {u \in SUBSET S : ~(Total(f, u) <= Total(k, u) + Total(e, img(u)))}
<1>1. ASSUME NEW u, u \subseteq S
      PROVE  /\ img(u) \subseteq T /\ IsFiniteSet(img(u)) /\ Total(e, img(u)) \in Nat
             /\ IsFiniteSet(u) /\ Total(f, u) \in Nat /\ Total(k, u) \in Nat
  <2>1. img(u) \subseteq T
    BY <1>1, SMT
  <2>2. IsFiniteSet(img(u)) /\ IsFiniteSet(u)
    <3> HIDE DEF img
    <3> QED
      BY <1>1, <2>1, FS_Subset, Zenon
  <2>3. Total(e, img(u)) \in Nat
    <3> HIDE DEF img
    <3>1. \A b \in img(u) : e[b] \in Nat
      BY <2>1, Zenon
    <3> QED
      BY <2>2, <3>1, TotalNat, Zenon
  <2>4. (\A a \in u : f[a] \in Nat) /\ (\A a \in u : k[a] \in Nat)
    BY <1>1, Zenon
  <2>5. Total(f, u) \in Nat /\ Total(k, u) \in Nat
    BY <2>2, <2>4, TotalNat, Zenon
  <2> QED
    BY <2>1, <2>2, <2>3, <2>5, Zenon
<1>2. ASSUME B # {} PROVE FALSE
  <2>1. PICK u \in B : \A v \in B : v \subseteq u => v = u
    <3>1. B \subseteq SUBSET S
      BY Zenon
    <3> HIDE DEF B
    <3> QED
      BY <1>2, <3>1, Smallest
  <2>2. u \in SUBSET S /\ ~(Total(f, u) <= Total(k, u) + Total(e, img(u)))
    BY <2>1, Zenon
  <2>3. CASE u = {}
    <3>1. Total(f, u) = 0
      BY <1>1, <2>2, <2>3, TotalFirst, Zenon
    <3> HIDE DEF img
    <3> QED
      BY <1>1, <2>2, <3>1
  <2>4. ASSUME NEW a \in u PROVE FALSE
    <3> DEFINE v == u \ {a}
    <3>1. v \in SUBSET S /\ v \subseteq u /\ v # u
      BY <2>2, <2>4, Zenon
    <3>2. Total(f, v) <= Total(k, v) + Total(e, img(v))
      BY <2>1, <3>1, Zenon
    <3>3. own[a] \in img(u) /\ img(u) \ {own[a]} = img(v)
      <4>1. \A b \in u : b # a => own[b] # own[a]
        BY <2>2, <2>4, Zenon
      <4> QED
        BY <4>1, <2>4, SMT
    <3>4. (\A b \in u : f[b] \in Nat) /\ (\A b \in u : k[b] \in Nat) /\ (\A b \in img(u) : e[b] \in Nat)
      BY <2>2, <1>1, Zenon
    <3> HIDE DEF v, img, B
    <3>5. Total(f, u) = f[a] + Total(f, v) /\ Total(k, u) = k[a] + Total(k, v)
      BY <1>1, <2>2, <2>4, <3>4, TotalSplit DEF v
    <3>6. Total(e, img(u)) = e[own[a]] + Total(e, img(v))
      <4>1. Total(e, img(u)) = e[own[a]] + Total(e, img(u) \ {own[a]})
        BY <1>1, <2>2, <3>3, <3>4, TotalSplit
      <4> QED
        BY <4>1, <3>3, Zenon
    <3>7. /\ Total(f, v) \in Nat /\ Total(k, v) \in Nat /\ Total(e, img(v)) \in Nat
          /\ f[a] \in Nat /\ k[a] \in Nat /\ e[own[a]] \in Nat /\ f[a] <= k[a] + e[own[a]]
      BY <1>1, <2>2, <3>1, <3>3, <3>4, Zenon
    <3> QED
      BY <2>2, <3>2, <3>5, <3>6, <3>7
  <2> QED
    BY <2>3, <2>4, Zenon
<1>3. Total(f, S) <= Total(k, S) + Total(e, img(S))
  BY <1>2, Zenon
<1>4. Total(e, T) = Total(e, img(S)) + Total(e, T \ img(S)) /\ Total(e, T \ img(S)) \in Nat
  <2>1. img(S) \subseteq T
    BY <1>1, Zenon
  <2> HIDE DEF img
  <2> DEFINE R == img(S)
  <2> HIDE DEF R
  <2>2. R \subseteq T
    BY <2>1, Zenon DEF R
  <2>3. Total(e, T) = Total(e, R) + Total(e, T \ R)
    BY <2>2, TotalPart
  <2>4. Total(e, T \ R) \in Nat
    BY <2>2, TotalPart, Zenon
  <2> QED
    BY <2>3, <2>4, Zenon DEF R
<1>5. S \subseteq S
  BY Zenon
<1> HIDE DEF img, B
<1>6. Total(e, img(S)) \in Nat /\ Total(f, S) \in Nat /\ Total(k, S) \in Nat
  BY <1>1, <1>5, Zenon
<1> QED
  BY <1>3, <1>4, <1>6

\* What transactions that share no coin spend, coin by coin or one after the other.
LEMMA TotalFlat ==
  ASSUME NEW f, NEW P, IsFiniteSet(P),
         \A t \in P : \A x \in t.ins : f[x] \in Nat,
         \A t, u \in P : t # u => t.ins \cap u.ins = {},
         IsFiniteSet(UNION {t.ins : t \in P})
  PROVE  Total(f, UNION {t.ins : t \in P}) = Total([t \in P |-> Total(f, t.ins)], P)
<1> DEFINE k == [t \in P |-> Total(f, t.ins)]
           flat(u) == UNION {t.ins : t \in u}
           B == {u \in SUBSET P : Total(f, flat(u)) # Total(k, u)}
<1>0. \A t \in P : k[t] = Total(f, t.ins) /\ k[t] \in Nat
  <2>1. ASSUME NEW t \in P PROVE Total(f, t.ins) \in Nat
    <3>1. t.ins \subseteq flat(P)
      BY Zenon
    <3>2. IsFiniteSet(t.ins)
      BY <3>1, FS_Subset, Zenon
    <3> QED
      BY <2>1, <3>2, TotalNat, Zenon
  <2> QED
    BY <2>1, Zenon
<1>1. SUFFICES ASSUME B # {} PROVE FALSE
  BY Zenon
<1>2. PICK u \in B : \A v \in B : v \subseteq u => v = u
  <2>1. B \subseteq SUBSET P
    BY Zenon
  <2> HIDE DEF B
  <2> QED
    BY <1>1, <2>1, Smallest
<1>3. u \in SUBSET P /\ Total(f, flat(u)) # Total(k, u) /\ IsFiniteSet(u)
  BY <1>2, FS_Subset, Zenon
<1> HIDE DEF k
<1>4. CASE u = {}
  <2>1. flat(u) = {}
    BY <1>4, Zenon
  <2>2. Total(f, {}) = 0 /\ Total(k, {}) = 0
    BY FS_EmptySet, TotalFirst, Zenon
  <2> HIDE DEF flat
  <2> QED
    BY <1>3, <1>4, <2>1, <2>2, Zenon
<1>5. ASSUME NEW t \in u PROVE FALSE
  <2> DEFINE v == u \ {t}
  <2>1. v \in SUBSET P /\ v \subseteq u /\ v # u /\ t \in P
    BY <1>3, <1>5, Zenon
  <2>2. Total(f, flat(v)) = Total(k, v)
    BY <1>2, <2>1, Zenon
  <2>3. flat(u) = flat(v) \cup t.ins /\ flat(v) \cap t.ins = {}
    <3>1. \A s \in v : s.ins \cap t.ins = {}
      BY <2>1, Zenon
    <3>2. flat(v) \cap t.ins = {}
      BY <3>1, Zenon
    <3>3. flat(u) = flat(v) \cup t.ins
      BY <1>5, Zenon
    <3> QED
      BY <3>2, <3>3, Zenon
  <2>4. IsFiniteSet(flat(v)) /\ IsFiniteSet(t.ins)
    <3>1. flat(v) \subseteq flat(P) /\ t.ins \subseteq flat(P)
      BY <2>1, Zenon
    <3> QED
      BY <3>1, FS_Subset, Zenon
  <2>5. /\ \A x \in flat(v) \cup t.ins : f[x] \in Nat
    BY <2>1, Zenon
  <2>6. \A s \in u : k[s] \in Nat
    BY <1>0, <1>3, Zenon
  <2> HIDE DEF flat, B
  <2>7. Total(f, flat(v) \cup t.ins) = Total(f, flat(v)) + Total(f, t.ins)
    BY <2>3, <2>4, <2>5, TotalUnion, Zenon
  <2>8. Total(k, u) = k[t] + Total(k, v)
    BY <1>3, <1>5, <2>6, TotalSplit
  <2>9. Total(k, v) \in Nat
    <3>1. IsFiniteSet(v) /\ \A s \in v : k[s] \in Nat
      BY <1>3, <2>6, FS_Subset, Zenon
    <3> HIDE DEF v
    <3> QED
      BY <3>1, TotalNat, Zenon
  <2>10. k[t] = Total(f, t.ins) /\ k[t] \in Nat
    BY <1>0, <2>1, Zenon
  <2>11. Total(f, flat(u)) = Total(k, v) + k[t]
    BY <2>2, <2>3, <2>7, <2>10, Zenon
  <2> HIDE DEF v
  <2> QED
    BY <1>3, <2>8, <2>9, <2>10, <2>11
<1> QED
  BY <1>4, <1>5, Zenon

\* The sum of a part of M.
LEMMA CoinsPart ==
  ASSUME NEW M, IsFiniteSet(M), NEW S, S \subseteq M
  PROVE  Coins(S) = Total(Value(M), S)
<1>1. IsFiniteSet(S) /\ \A t \in S : Value(S)[t] = Value(M)[t]
  BY FS_Subset, Zenon DEF Value
<1>2. Coins(S) = Total(Value(S), S)
  BY <1>1, CoinsTotal, Zenon
<1>3. Total(Value(S), S) = Total(Value(M), S)
  BY <1>1, TotalAgree, Zenon
<1> QED
  BY <1>2, <1>3, Zenon

DebtOf(S) == [w \in S |-> Owed[w] + Dust]

LEMMA DebtsTotal ==
  ASSUME NEW S, IsFiniteSet(S)
  PROVE  MapThenSumSet(LAMBDA w : Owed[w] + Dust, S) = Total(DebtOf(S), S)
<1> DEFINE F(g) == [s \in SUBSET S |-> IF s = {} THEN 0 ELSE (Owed[Pick(s)] + Dust) + g[s \ {Pick(s)}]]
           c == CHOOSE g : g = F(g)
<1>1. MapThenSumSet(LAMBDA w : Owed[w] + Dust, S) = c[S]
  BY Zenon DEF MapThenSumSet, MapThenFoldSet, Pick
<1>2. ASSUME NEW g PROVE Adds(g, DebtOf(S), S) <=> g = F(g)
  <2>1. \A s \in SUBSET S : s # {} => DebtOf(S)[Pick(s)] = Owed[Pick(s)] + Dust
    BY Zenon DEF DebtOf, Pick
  <2> DEFINE G == [s \in SUBSET S |-> IF s = {} THEN 0 ELSE DebtOf(S)[Pick(s)] + g[s \ {Pick(s)}]]
             a(s) == IF s = {} THEN 0 ELSE (Owed[Pick(s)] + Dust) + g[s \ {Pick(s)}]
             b(s) == IF s = {} THEN 0 ELSE DebtOf(S)[Pick(s)] + g[s \ {Pick(s)}]
  <2>2. \A s \in SUBSET S : a(s) = b(s)
    <3>1. \A s \in SUBSET S : s # {} => a(s) = b(s)
      BY <2>1, Zenon
    <3>2. \A s \in SUBSET S : s = {} => a(s) = b(s)
      BY Zenon
    <3> QED
      BY <3>1, <3>2, Zenon
  <2>3. F(g) = [s \in SUBSET S |-> a(s)] /\ G = [s \in SUBSET S |-> b(s)]
    BY Zenon
  <2>4. F(g) = G
    <3> HIDE DEF F, G, a, b
    <3> QED
      BY <2>2, <2>3, Zenon
  <2> HIDE DEF F
  <2> QED
    BY <2>4, Zenon DEF Adds
<1>3. PICK g : Adds(g, DebtOf(S), S) /\ Total(DebtOf(S), S) = g[S]
  BY TotalAdds, Zenon
<1>4. c = F(c)
  <2> HIDE DEF F
  <2>1. \E x : x = F(x)
    BY <1>2, <1>3, Zenon
  <2> QED
    BY <2>1, Zenon
<1>5. Adds(c, DebtOf(S), S)
  BY <1>2, <1>4, Zenon
<1>6. S \subseteq S /\ \A x \in S : DebtOf(S)[x] = DebtOf(S)[x]
  BY Zenon
<1> HIDE DEF c
<1>7. c[S] = g[S]
  BY <1>3, <1>5, <1>6, AddsAgree
<1> QED
  BY <1>1, <1>3, <1>7, Zenon

LEMMA FewerFitIn ==
  ASSUME NEW S, NEW T, IsFiniteSet(S), IsFiniteSet(T), Cardinality(S) <= Cardinality(T)
  PROVE  \E f \in [S -> T] : \A x, y \in S : f[x] = f[y] => x = y
<1> DEFINE m == Cardinality(S)
           n == Cardinality(T)
<1>1. m \in Nat /\ n \in Nat /\ ExistsBijection(1..m, S) /\ ExistsBijection(1..n, T)
  BY FS_CardinalityType, Zenon
<1>2. PICK a \in Bijection(1..m, S) : TRUE
  BY <1>1, Zenon DEF ExistsBijection
<1>3. PICK b \in Bijection(1..n, T) : TRUE
  BY <1>1, Zenon DEF ExistsBijection
<1>4. \A x \in S : \E i \in 1..m : a[i] = x
  BY <1>2, Zenon DEF Bijection, Surjection
<1>5. b \in [1..n -> T] /\ \A i, j \in 1..n : b[i] = b[j] => i = j
  BY <1>3, Zenon DEF Bijection, Injection, IsInjective
<1>6. 1..m \subseteq 1..n
  BY <1>1
<1> DEFINE p(x) == CHOOSE i \in 1..m : a[i] = x
           f == [x \in S |-> b[p(x)]]
<1>7. \A x \in S : p(x) \in 1..n /\ a[p(x)] = x
  BY <1>4, <1>6, Zenon
<1> HIDE DEF p
<1>8. f \in [S -> T]
  BY <1>5, <1>7, Zenon
<1>9. \A x, y \in S : f[x] = f[y] => x = y
  <2>1. SUFFICES ASSUME NEW x \in S, NEW y \in S, f[x] = f[y] PROVE x = y
    BY Zenon
  <2>2. b[p(x)] = b[p(y)]
    BY <2>1, Zenon
  <2>3. p(x) = p(y)
    BY <1>5, <1>7, <2>2, Zenon
  <2> QED
    BY <1>7, <2>3, Zenon
<1> HIDE DEF f
<1> QED
  BY <1>8, <1>9, Zenon

LEMMA OwnsOne ==
  ASSUME RelayerTypes, Kept => LegacyInv, NEW v \in Withdrawal, NEW t, NEW u, Owns(t, v), Owns(u, v)
  PROVE  t = u
<1>1. Single(mem[v])
  BY Zenon DEF RelayerTypes
<1>2. CASE t \in Payouts(mem[v]) /\ u \in Payouts(mem[v])
  BY <1>1, <1>2, Zenon DEF Single, Payouts
<1>3. CASE Kept /\ LegacyInv /\ mem[v].legacy
  <2>1. Payouts(mem[v]) = {}
    BY <1>3, Zenon DEF LegacyInv
  <2>2. t \in Strays /\ u \in Strays
    BY <2>1, Zenon DEF Owns
  <2> QED
    BY <1>3, <2>2, Zenon DEF LegacyInv
<1> QED
  BY <1>2, <1>3, Zenon DEF Owns

MinedPayouts == {t \in Mined : t.ins # {}}

\* Each payout that is mined can be charged to a withdrawal of its own, which it fits.
LEMMA PayoutsHaveOwners ==
  ASSUME RecordInv, RelayerTypes, OwnInv, Accounted, Kept => LegacyInv, CountInv, FitInv
  PROVE  \E own \in [MinedPayouts -> Burned] :
            /\ \A t, u \in MinedPayouts : own[t] = own[u] => t = u
            /\ \A t \in MinedPayouts : Fits(t, own[t])
<1>1. \A t \in MinedPayouts : t \in Net /\ t.ins # {}
  BY Zenon DEF MinedPayouts, Net, Seen
<1>2. Burned \subseteq Withdrawal
  BY Zenon DEF Burned
<1>3. CASE Kept
  <2>1. ASSUME NEW t \in MinedPayouts PROVE \E v \in Burned : Owns(t, v) /\ Fits(t, v)
    <3>1. t \in Net /\ t.ins # {}
      BY <1>1, Zenon
    <3>2. CASE t \in Hopes
      <4>1. PICK v \in Withdrawal : t \in Payouts(mem[v])
        BY <3>2, Zenon DEF Hopes
      <4>2. v \in Burned /\ Fits(t, v)
        BY <4>1, Zenon DEF OwnInv, FitInv
      <4> QED
        BY <4>1, <4>2, Zenon DEF Owns
    <3>3. CASE t \notin Hopes
      <4>1. t \in Strays
        BY <3>1, <3>3, Zenon DEF Strays
      <4>2. PICK v \in Withdrawal : mem[v].legacy /\ t.to = Dest[v]
        BY <1>3, <4>1, Zenon DEF LegacyInv
      <4>3. v \in Burned
        BY <1>3, <4>2, Zenon DEF LegacyInv
      <4>4. ~Recorded(t)
        <5>1. SUFFICES ASSUME NEW w \in Withdrawal, mem[w].planned = t \/ mem[w].txid = t PROVE FALSE
          BY Zenon DEF Recorded
        <5>2. t # None
          BY <3>1, Zenon DEF OwnInv
        <5>3. t \in Payouts(mem[w])
          BY <5>1, <5>2, Zenon DEF Payouts
        <5> QED
          BY <3>3, <5>3, Zenon DEF Hopes
      <4>5. t \in LegacyTx
        BY <1>3, <3>1, <4>4, Zenon DEF RecordInv, Broadcast, Net
      <4>6. Fits(t, v)
        BY <4>2, <4>5, LegacyAssumption, Zenon DEF Fits
      <4> QED
        BY <1>3, <4>1, <4>2, <4>3, <4>6, Zenon DEF Owns
    <3> QED
      BY <3>2, <3>3, Zenon
  <2> DEFINE own == [t \in MinedPayouts |-> CHOOSE v \in Burned : Owns(t, v) /\ Fits(t, v)]
  <2>2. \A t \in MinedPayouts : own[t] \in Burned /\ Owns(t, own[t]) /\ Fits(t, own[t])
    BY <2>1, Zenon
  <2>3. own \in [MinedPayouts -> Burned]
    BY <2>2, Zenon
  <2> HIDE DEF own
  <2>4. \A t, u \in MinedPayouts : own[t] = own[u] => t = u
    <3>1. SUFFICES ASSUME NEW t \in MinedPayouts, NEW u \in MinedPayouts, own[t] = own[u] PROVE t = u
      BY Zenon
    <3>2. own[t] \in Withdrawal /\ Owns(t, own[t]) /\ Owns(u, own[t])
      BY <1>2, <2>2, <3>1, Zenon
    <3> QED
      BY <3>2, OwnsOne, Zenon
  <2> QED
    BY <2>2, <2>3, <2>4, Zenon
<1>4. CASE Alike
  <2> DEFINE T(d) == {t \in MinedPayouts : t.to = d}
             G(d) == {f \in [T(d) -> Debts(d)] : \A x, y \in T(d) : f[x] = f[y] => x = y}
             g(d) == CHOOSE f \in G(d) : TRUE
             own == [t \in MinedPayouts |-> g(t.to)[t]]
  <2>1. ASSUME NEW d PROVE g(d) \in G(d)
    <3>1. T(d) \subseteq Paying(d)
      BY <1>1, Zenon DEF Paying
    <3>2. IsFiniteSet(Paying(d)) /\ Cardinality(Paying(d)) <= Cardinality(Debts(d))
      BY Zenon DEF CountInv
    <3>3. Debts(d) \subseteq Withdrawal
      BY Zenon DEF Debts, Burned
    <3> HIDE DEF T
    <3>4. IsFiniteSet(T(d)) /\ Cardinality(T(d)) <= Cardinality(Paying(d))
      BY <3>1, <3>2, FS_Subset, Zenon
    <3>5. IsFiniteSet(Debts(d))
      BY <3>3, BtcAssumption, FS_Subset, Zenon
    <3>6. Cardinality(T(d)) \in Nat /\ Cardinality(Paying(d)) \in Nat /\ Cardinality(Debts(d)) \in Nat
      BY <3>2, <3>4, <3>5, FS_CardinalityType, Zenon
    <3>7. Cardinality(T(d)) <= Cardinality(Debts(d))
      BY <3>2, <3>4, <3>6
    <3>8. \E f \in [T(d) -> Debts(d)] : \A x, y \in T(d) : f[x] = f[y] => x = y
      BY <3>4, <3>5, <3>7, FewerFitIn, Zenon
    <3>9. G(d) # {}
      BY <3>8, Zenon
    <3> HIDE DEF G
    <3> QED
      BY <3>9, Zenon
  <2> HIDE DEF g
  <2>2. ASSUME NEW t \in MinedPayouts PROVE own[t] \in Debts(t.to) /\ own[t] = g(t.to)[t] /\ t \in T(t.to)
    BY <2>1, Zenon
  <2>3. ASSUME NEW t \in MinedPayouts
        PROVE  own[t] \in Burned /\ Dest[own[t]] = t.to /\ Fits(t, own[t])
    <3>1. own[t] \in Burned /\ Dest[own[t]] = t.to
      BY <2>2, Zenon DEF Debts
    <3> HIDE DEF own
    <3>2. Fits(t, own[t])
      BY <1>1, <1>2, <1>4, <3>1, Zenon DEF FitInv
    <3> QED
      BY <3>1, <3>2, Zenon
  <2>4. own \in [MinedPayouts -> Burned]
    BY <2>3, Zenon
  <2>5. ASSUME NEW t \in MinedPayouts, NEW u \in MinedPayouts, own[t] = own[u] PROVE t = u
    <3>1. t.to = u.to
      BY <2>3, <2>5, Zenon
    <3>2. g(t.to)[t] = g(t.to)[u] /\ t \in T(t.to) /\ u \in T(t.to)
      BY <2>2, <2>5, <3>1, Zenon
    <3> QED
      BY <2>1, <3>2, Zenon
  <2> HIDE DEF own
  <2> QED
    BY <2>3, <2>4, <2>5, Zenon
<1> QED
  BY <1>3, <1>4, Zenon DEF Accounted

LEMMA PayoutsAreBacked ==
  ASSUME RecordInv, RelayerTypes, DaemonTypes, OwnInv, SoundInv, Accounted, Kept => LegacyInv,
         CountInv, FitInv, DepthInv
  PROVE  Backed
<1> DEFINE M == Mined
           P == MinedPayouts
           D == Mined \cap Deposit
           S == UNION {t.ins : t \in Mined}
           c == Value(Mined)
           k == [t \in P |-> Total(c, t.ins)]
           o == DebtOf(Burned)
<1>1. IsFiniteSet(M) /\ \A t \in M : t.chg \in Nat
  <2>1. M \subseteq Net \cup Hopes \cup Saved
    BY Zenon DEF Net, Seen
  <2> QED
    BY <2>1, FS_Subset, Zenon DEF SoundInv, Sound
<1>2. P \subseteq M /\ M \ P = D
  <2>1. \A t \in M : t.ins = {} <=> t \in Deposit
    BY BtcAssumption, Zenon DEF DepthInv, Net, Seen
  <2> QED
    BY <2>1, Zenon DEF MinedPayouts
<1>3. S \subseteq M /\ S = UNION {t.ins : t \in P}
  <2>1. S \subseteq M
    BY Zenon DEF DepthInv
  <2>2. S = UNION {t.ins : t \in P}
    BY Zenon DEF MinedPayouts
  <2> QED
    BY <2>1, <2>2, Zenon
<1>4. \A t \in M : c[t] = t.chg /\ c[t] \in Nat
  BY <1>1, Zenon DEF Value
<1>5. IsFiniteSet(Burned) /\ \A w \in Burned : o[w] = Owed[w] + Dust /\ o[w] \in Nat
  <2>1. Burned \subseteq Withdrawal
    BY Zenon DEF Burned
  <2>2. IsFiniteSet(Burned)
    BY <2>1, BtcAssumption, FS_Subset, Zenon
  <2>3. \A w \in Burned : Owed[w] + Dust \in Nat
    BY <2>1, BtcAssumption
  <2> QED
    BY <2>2, <2>3, Zenon DEF DebtOf
<1>6. PICK own \in [P -> Burned] :
         /\ \A t, u \in P : own[t] = own[u] => t = u
         /\ \A t \in P : Fits(t, own[t])
  BY PayoutsHaveOwners, Zenon
<1>7. \A t \in P : t.ins \subseteq M /\ k[t] = Coins(t.ins) /\ k[t] \in Nat
  <2>1. SUFFICES ASSUME NEW t \in P PROVE t.ins \subseteq M /\ k[t] = Coins(t.ins) /\ k[t] \in Nat
    BY Zenon
  <2>2. t.ins \subseteq M
    BY <1>2, Zenon DEF DepthInv
  <2>3. IsFiniteSet(t.ins) /\ \A x \in t.ins : c[x] \in Nat
    BY <1>1, <1>4, <2>2, FS_Subset, Zenon
  <2> HIDE DEF P
  <2>4. k[t] = Total(c, t.ins)
    BY Zenon
  <2> HIDE DEF k
  <2>5. Total(c, t.ins) = Coins(t.ins)
    BY <1>1, <2>2, CoinsPart, Zenon
  <2> HIDE DEF c
  <2>6. Total(c, t.ins) \in Nat
    BY <2>3, TotalNat, Zenon
  <2> QED
    BY <2>2, <2>4, <2>5, <2>6, Zenon
<1>8. /\ Coins(D) = Total(c, D)
      /\ Coins(M \ S) = Total(c, M \ S)
      /\ MapThenSumSet(LAMBDA w : Owed[w] + Dust, Burned) = Total(o, Burned)
  <2>1. D \subseteq M /\ M \ S \subseteq M
    BY Zenon
  <2>2. Coins(D) = Total(c, D)
    BY <1>1, <2>1, CoinsPart, Zenon
  <2>3. Coins(M \ S) = Total(c, M \ S)
    BY <1>1, <2>1, CoinsPart, Zenon
  <2>4. MapThenSumSet(LAMBDA w : Owed[w] + Dust, Burned) = Total(o, Burned)
    BY <1>5, DebtsTotal, Zenon
  <2> QED
    BY <2>2, <2>3, <2>4, Zenon
<1>9. Backed <=> (Coins(D) - Coins(M \ S) <= MapThenSumSet(LAMBDA w : Owed[w] + Dust, Burned))
  BY Zenon DEF Backed
<1>10. IsFiniteSet(P) /\ IsFiniteSet(S)
  BY <1>1, <1>2, <1>3, FS_Subset, Zenon
<1>11. \A t, u \in P : t # u => t.ins \cap u.ins = {}
  BY <1>2, Zenon DEF DepthInv
<1>12. Total(c, S) = Total(k, P)
  <2>1. \A t \in P : \A x \in t.ins : c[x] \in Nat
    BY <1>4, <1>7, Zenon
  <2>2. Total(c, UNION {t.ins : t \in P}) = Total([t \in P |-> Total(c, t.ins)], P)
    <3>1. IsFiniteSet(UNION {t.ins : t \in P})
      BY <1>3, <1>10, Zenon
    <3> HIDE DEF P, c
    <3> QED
      BY <1>10, <1>11, <2>1, <3>1, TotalFlat, Zenon
  <2> QED
    BY <1>3, <2>2, Zenon
<1> HIDE DEF M, P, D, S, c, k, o
<1>13. Total(c, M) = Total(c, P) + Total(c, D) /\ Total(c, P) \in Nat /\ Total(c, D) \in Nat
  <2>0. P \subseteq M /\ \A x \in M : c[x] \in Nat
    BY <1>2, <1>4, Zenon
  <2>1. Total(c, M) = Total(c, P) + Total(c, M \ P)
    BY <1>1, <2>0, TotalPart
  <2>2. Total(c, M \ P) \in Nat
    BY <1>1, <2>0, TotalPart, Zenon
  <2>3. Total(c, P) \in Nat
    BY <1>1, <2>0, TotalPart, Zenon
  <2> QED
    BY <1>2, <2>1, <2>2, <2>3, Zenon
<1>14. Total(c, M) = Total(c, S) + Total(c, M \ S) /\ Total(c, S) \in Nat /\ Total(c, M \ S) \in Nat
  <2>0. S \subseteq M /\ \A x \in M : c[x] \in Nat
    BY <1>3, <1>4, Zenon
  <2>1. Total(c, M) = Total(c, S) + Total(c, M \ S)
    BY <1>1, <2>0, TotalPart
  <2>2. Total(c, M \ S) \in Nat
    BY <1>1, <2>0, TotalPart, Zenon
  <2>3. Total(c, S) \in Nat
    BY <1>1, <2>0, TotalPart, Zenon
  <2> QED
    BY <2>1, <2>2, <2>3, Zenon
<1>15. \A t \in P : k[t] \in Nat /\ c[t] \in Nat /\ k[t] <= c[t] + o[own[t]]
  <2>1. SUFFICES ASSUME NEW t \in P PROVE k[t] \in Nat /\ c[t] \in Nat /\ k[t] <= c[t] + o[own[t]]
    BY Zenon
  <2>2. own[t] \in Burned
    BY <1>6, Zenon
  <2>3. k[t] - c[t] <= o[own[t]]
    BY <1>2, <1>4, <1>5, <1>6, <1>7, <2>2, Zenon DEF Fits
  <2>4. k[t] \in Nat /\ c[t] \in Nat /\ o[own[t]] \in Nat
    BY <1>2, <1>4, <1>5, <1>7, <2>2, Zenon
  <2> QED
    BY <2>3, <2>4
<1>16. Total(k, P) <= Total(c, P) + Total(o, Burned)
  <2>1. \A w \in Burned : o[w] \in Nat
    BY <1>5, Zenon
  <2> QED
    BY <1>5, <1>6, <1>10, <1>15, <2>1, TotalCompare
<1>17. Total(o, Burned) \in Nat
  BY <1>5, TotalNat, Zenon
<1>18. Total(c, D) - Total(c, M \ S) <= Total(o, Burned)
  BY <1>12, <1>13, <1>14, <1>16, <1>17
<1> QED
  BY <1>8, <1>9, <1>18, Zenon

-----------------------------------------------------------------------------
(* The inductive invariant of the custody. *)
CustodyInv ==
  /\ BitcoinTypes /\ DaemonTypes /\ RelayerTypes
  /\ OwnInv /\ SoundInv /\ ApartInv /\ DepthInv
  /\ Kept => LegacyInv
  /\ Accounted => CountInv /\ FitInv

LEMMA CustodyInvHolds ==
  ASSUME NoneIsNoTx PROVE Spec => []CustodyInv
<1>1. Init => CustodyInv
  BY TypesInit, InitOwn, InitSound, InitApart, InitDepth, InitLegacy, InitCounts, InitFits, Zenon
     DEF CustodyInv, ApartInv
<1>2. ASSUME RecordInv, CustodyInv, [Next]_vars PROVE CustodyInv'
  <2>1. Shapes /\ Located
    BY <1>2, Zenon DEF RecordInv
  <2>2. BitcoinTypes /\ DaemonTypes /\ RelayerTypes /\ OwnInv /\ SoundInv /\ ApartInv /\ DepthInv
    BY <1>2, Zenon DEF CustodyInv
  <2>3. BitcoinTypes' /\ DaemonTypes' /\ RelayerTypes'
    BY <1>2, <2>1, <2>2, BitcoinTypesKept, DaemonTypesKept, RelayerTypesKept, Zenon
  <2>4. OwnInv' /\ SoundInv' /\ ApartInv' /\ DepthInv'
    BY <1>2, <2>1, <2>2, OwnKept, SoundKept, NextKeepsApart, DepthKept, Zenon
  <2>5. (Kept' <=> Kept) /\ (Accounted' <=> Accounted)
    BY <1>2, <2>1, KindsAreFixed, Zenon DEF Kept, Accounted, Resurrects, Alike
  <2>6. ASSUME Kept PROVE LegacyInv'
    BY <1>2, <2>2, <2>6, LegacyKept, Zenon DEF CustodyInv
  <2>7. ASSUME Accounted PROVE CountInv' /\ FitInv'
    <3>1. Kept \/ (Alike /\ Apart /\ SoundInv)
      BY <2>2, <2>7, Zenon DEF Accounted, ApartInv, Steady
    <3>2. CountInv /\ FitInv /\ (Kept => LegacyInv)
      BY <1>2, <2>7, Zenon DEF CustodyInv
    <3>3. CountInv'
      BY <1>2, <2>2, <2>7, <3>1, <3>2, CountKept, Zenon
    <3>4. FitInv'
      BY <1>2, <2>2, <2>7, <3>2, FitKept, Zenon
    <3> QED
      BY <3>3, <3>4, Zenon
  <2> QED
    BY <2>3, <2>4, <2>5, <2>6, <2>7, Zenon DEF CustodyInv
<1> QED
  BY <1>1, <1>2, RecordInvHolds, PTL DEF Spec

(* No address is ever paid by more custody transactions than withdrawals were burned for it,
   even when the state file is lost or cannot be written, if any withdrawal to an address can
   adopt any payout to it (PaidOnce): "a lost response or crash cannot produce a second,
   different payment" (btc-bridge-relayer.ts). *)
THEOREM NoAddressIsPaidTwice ==
  ASSUME NoneIsNoTx PROVE Spec => []PaidOnce
<1>1. CustodyInv => PaidOnce
  <2>1. ASSUME CustodyInv, Accounted PROVE PaidOnce
    BY <2>1, CountIsEnough, Zenon DEF CustodyInv
  <2>2. ~Accounted => PaidOnce
    BY Zenon DEF PaidOnce
  <2> QED
    BY <2>1, <2>2, Zenon
<1> QED
  BY <1>1, CustodyInvHolds, PTL

(* Custody never falls by more than was burned and the dust a payout may add to it, whatever is
   retried, adopted, reorganised or rebuilt in between (Backed): the fee comes out of what the
   withdrawer is owed (planPayout), and every mined payout has a burned withdrawal of its own. *)
THEOREM CustodyFallsByTheBurn ==
  ASSUME NoneIsNoTx PROVE Spec => []Backed
<1>1. RecordInv /\ CustodyInv => Backed
  <2>1. ASSUME RecordInv, CustodyInv, Accounted PROVE Backed
    BY <2>1, PayoutsAreBacked, Zenon DEF CustodyInv
  <2>2. ~Accounted => Backed
    BY Zenon DEF Backed
  <2> QED
    BY <2>1, <2>2, Zenon
<1> QED
  BY <1>1, RecordInvHolds, CustodyInvHolds, PTL
=============================================================================
