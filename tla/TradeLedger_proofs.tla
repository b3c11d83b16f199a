------------------------ MODULE TradeLedger_proofs ------------------------
(***************************************************************************)
(* Proofs about TradeLedger, for any keys, quantities, prices, fees and    *)
(* bounds: for any number of scripts at a time where nothing else is said, *)
(* and for one script at a time where OneProcess is assumed.               *)
(*                                                                         *)
(* Books are sums, so the module begins with what SumOver does. It is a    *)
(* fold of the community modules, a recursive function that takes the      *)
(* elements of the set away in an order of CHOOSE's own; LeastSubset is    *)
(* the induction over finite sets that shows the order does not matter.    *)
(***************************************************************************)
EXTENDS TradeLedger, FiniteSetTheorems, TLAPS

(* g sums f over every subset of S, taking the elements away one by one.   *)
Any(s) == CHOOSE x \in s : TRUE
Sums(g, f, S) ==
  g = [s \in SUBSET S |-> IF s = {} THEN 0 ELSE f[Any(s)] + g[s \ {Any(s)}]]

(* Every finite set has a least one of the subsets with a property ...     *)
LEMMA LeastSubset ==
  ASSUME NEW S, IsFiniteSet(S), NEW B \in SUBSET SUBSET S, B # {}
  PROVE  \E T \in B : \A U \in SUBSET T : U # T => U \notin B
<1>1. B \subseteq FiniteSubsetsOf(S)
  BY FS_FiniteSubsetsOfFinite
<1>2. PICK T \in B : \A U \in B : ~ (<<U, T>> \in StrictSubsetOrdering(S))
  BY <1>1, FS_StrictSubsetOrderingWellFounded, WFMin
<1>3. ASSUME NEW U \in SUBSET T, U # T, U \in B PROVE FALSE
  <2>1. <<U, T>> \in (SUBSET S) \X (SUBSET S)
    BY <1>3
  <2>2. <<U, T>>[1] = U /\ <<U, T>>[2] = T
    OBVIOUS
  <2>3. <<U, T>> \in StrictSubsetOrdering(S)
    BY <2>1, <2>2, <1>3 DEF StrictSubsetOrdering
  <2> QED BY <1>2, <1>3, <2>3
<1> QED BY <1>3

LEMMA AnyIsIn == \A s : s # {} => Any(s) \in s
BY DEF Any

LEMMA SumsAgree ==
  ASSUME NEW S, IsFiniteSet(S), NEW T \in SUBSET S, NEW f, NEW g, NEW h,
         Sums(g, f, S), Sums(h, f, T)
  PROVE  \A s \in SUBSET T : g[s] = h[s]
<1> SUFFICES ASSUME NEW s0 \in SUBSET T, g[s0] # h[s0] PROVE FALSE
  OBVIOUS
<1> PICK B \in SUBSET SUBSET S : B = {s \in SUBSET T : g[s] # h[s]}
  OBVIOUS
<1>1. PICK s \in B : \A u \in SUBSET s : u # s => u \notin B
  BY LeastSubset
<1>2. s \in SUBSET T /\ s \in SUBSET S /\ g[s] # h[s]
  OBVIOUS
<1>3. CASE s = {}
  BY <1>2, <1>3 DEF Sums
<1>4. CASE s # {}
  <2> PICK c \in s : c = Any(s)  BY <1>4, AnyIsIn
  <2>1. g[s \ {c}] = h[s \ {c}]
    BY <1>1, <1>2
  <2> QED BY <1>2, <1>4, <2>1 DEF Sums
<1> QED BY <1>3, <1>4

LEMMA SumsExist ==
  ASSUME NEW S, IsFiniteSet(S), NEW f
  PROVE  \E g : Sums(g, f, S)
<1> SUFFICES ASSUME ~ \E g : Sums(g, f, S) PROVE FALSE
  OBVIOUS
<1>1. PICK B : B = {s \in SUBSET S : ~ \E g : Sums(g, f, s)}
  OBVIOUS
<1>2. B \in SUBSET SUBSET S /\ S \in B
  BY <1>1
<1>3. PICK T \in B : \A u \in SUBSET T : u # T => u \notin B
  <2>1. IsFiniteSet(S) /\ B \in SUBSET SUBSET S /\ B # {}
    BY <1>2
  <2> QED BY ONLY <2>1, LeastSubset
<1>4. T \in SUBSET S /\ IsFiniteSet(T) /\ ~ \E g : Sums(g, f, T)
  BY <1>1, <1>2, FS_Subset
<1> DEFINE H(s) == CHOOSE g : Sums(g, f, s)
           F(s) == IF s = {} THEN 0 ELSE f[Any(s)] + H(s \ {Any(s)})[s \ {Any(s)}]
<1>5. ASSUME NEW s \in SUBSET T, s # T PROVE Sums(H(s), f, s)
  <2>1. s \in SUBSET S /\ s \notin B
    BY <1>3, <1>4, <1>5
  <2> QED BY <1>1, <2>1
<1> HIDE DEF H
<1>6. ASSUME NEW s \in SUBSET T, s # T PROVE H(s)[s] = F(s)
  <2> PICK h : h = H(s)  OBVIOUS
  <2>1. Sums(h, f, s) /\ IsFiniteSet(s)
    BY <1>4, <1>5, <1>6, FS_Subset
  <2>2. CASE s = {}
    BY <2>1, <2>2 DEF Sums
  <2>3. CASE s # {}
    <3> PICK c \in s : c = Any(s)  BY <2>3, AnyIsIn
    <3>1. Sums(H(s \ {c}), f, s \ {c})
      BY <1>5
    <3>2. h[s \ {c}] = H(s \ {c})[s \ {c}]
      BY <2>1, <3>1, SumsAgree
    <3>3. h[s] = f[c] + h[s \ {c}]
      BY <2>1, <2>3 DEF Sums
    <3> QED BY <2>3, <3>2, <3>3
  <2> QED BY <2>2, <2>3
<1> PICK g : g = [s \in SUBSET T |-> F(s)]  OBVIOUS
<1>7. ASSUME NEW s \in SUBSET T, s # {}
      PROVE  g[s \ {Any(s)}] = H(s \ {Any(s)})[s \ {Any(s)}]
  <2> PICK c \in s : c = Any(s)  BY <1>7, AnyIsIn
  <2> HIDE DEF F
  <2>1. s \ {c} \in SUBSET T /\ s \ {c} # T
    OBVIOUS
  <2>2. g[s \ {c}] = H(s \ {c})[s \ {c}]
    BY <1>6, <2>1
  <2> QED BY <2>2
<1>8. \A s \in SUBSET T : F(s) = IF s = {} THEN 0 ELSE f[Any(s)] + g[s \ {Any(s)}]
  BY <1>7
<1>9. Sums(g, f, T)
  <2> HIDE DEF F
  <2> QED BY <1>8 DEF Sums
<1> QED BY <1>4, <1>9

LEMMA SumOverSums ==
  ASSUME NEW S, IsFiniteSet(S), NEW f
  PROVE  \E g : Sums(g, f, S) /\ SumOver(f, S) = g[S]
<1> PICK g : g = CHOOSE h : Sums(h, f, S)  OBVIOUS
<1>1. Sums(g, f, S)
  BY SumsExist
<1>2. SumOver(f, S) = (CHOOSE h : Sums(h, f, S))[S]
  BY DEF SumOver, MapThenSumSet, MapThenFoldSet, Sums, Any
<1> QED BY <1>1, <1>2

LEMMA SumEmpty == \A f : SumOver(f, {}) = 0
<1> SUFFICES ASSUME NEW f PROVE SumOver(f, {}) = 0
  OBVIOUS
<1>1. IsFiniteSet({})
  BY FS_EmptySet
<1>2. PICK g : Sums(g, f, {}) /\ SumOver(f, {}) = g[{}]
  BY <1>1, SumOverSums
<1> QED BY <1>2 DEF Sums

LEMMA SumOfInts ==
  ASSUME NEW S, IsFiniteSet(S), NEW f, \A x \in S : f[x] \in Int
  PROVE  SumOver(f, S) \in Int
<1>1. PICK g : Sums(g, f, S) /\ SumOver(f, S) = g[S]
  BY SumOverSums
<1>2. PICK B : B = {s \in SUBSET S : g[s] \notin Int}
  OBVIOUS
<1>3. ASSUME B # {} PROVE FALSE
  <2>1. IsFiniteSet(S) /\ B \in SUBSET SUBSET S /\ B # {}
    BY <1>2, <1>3
  <2>2. PICK s \in B : \A u \in SUBSET s : u # s => u \notin B
    BY ONLY <2>1, LeastSubset
  <2>3. s \in SUBSET S /\ g[s] \notin Int
    BY <1>2
  <2>4. CASE s = {}
    BY <1>1, <2>3, <2>4 DEF Sums
  <2>5. CASE s # {}
    <3> PICK c \in s : c = Any(s)  BY <2>5, AnyIsIn
    <3>1. g[s \ {c}] \in Int
      BY <1>2, <2>2, <2>3
    <3>2. f[c] \in Int
      BY <2>3
    <3>3. g[s] = f[c] + g[s \ {c}]
      BY <1>1, <2>3, <2>5 DEF Sums
    <3> QED BY <2>3, <3>1, <3>2, <3>3
  <2> QED BY <2>4, <2>5
<1>4. S \notin B
  BY <1>3
<1> QED BY <1>1, <1>2, <1>4

(* Any element may be taken away first.                                    *)
LEMMA SumRemove ==
  ASSUME NEW S, IsFiniteSet(S), NEW f, \A x \in S : f[x] \in Int, NEW x \in S
  PROVE  SumOver(f, S) = f[x] + SumOver(f, S \ {x})
<1>1. PICK g : Sums(g, f, S) /\ SumOver(f, S) = g[S]
  BY SumOverSums
<1>2. ASSUME NEW s \in SUBSET S PROVE g[s] = SumOver(f, s) /\ g[s] \in Int
  <2>1. IsFiniteSet(s)
    BY FS_Subset
  <2>2. PICK h : Sums(h, f, s) /\ SumOver(f, s) = h[s]
    BY <2>1, SumOverSums
  <2>3. g[s] = h[s]
    BY <1>1, <2>2, SumsAgree
  <2>4. SumOver(f, s) \in Int
    BY <2>1, SumOfInts
  <2> QED BY <2>2, <2>3, <2>4
<1>3. PICK B : B = {s \in SUBSET S : \E y \in s : g[s] # f[y] + g[s \ {y}]}
  OBVIOUS
<1>4. ASSUME B # {} PROVE FALSE
  <2>1. IsFiniteSet(S) /\ B \in SUBSET SUBSET S /\ B # {}
    BY <1>3, <1>4
  <2>2. PICK s \in B : \A u \in SUBSET s : u # s => u \notin B
    BY ONLY <2>1, LeastSubset
  <2>3. s \in SUBSET S
    BY <1>3
  <2>4. PICK y \in s : g[s] # f[y] + g[s \ {y}]
    BY <1>3
  <2> PICK c \in s : c = Any(s)  BY AnyIsIn
  <2>5. g[s] = f[c] + g[s \ {c}]
    BY <1>1, <2>3, <2>4 DEF Sums
  <2>6. c # y
    BY <2>4, <2>5
  <2>7. s \ {c} \notin B /\ s \ {y} \notin B
    BY <2>2
  <2>8. g[s \ {c}] = f[y] + g[(s \ {c}) \ {y}]
    BY <1>3, <2>3, <2>6, <2>7
  <2>9. g[s \ {y}] = f[c] + g[(s \ {y}) \ {c}]
    BY <1>3, <2>3, <2>6, <2>7
  <2>10. (s \ {y}) \ {c} = (s \ {c}) \ {y}
    OBVIOUS
  <2>11. PICK z : z = g[(s \ {c}) \ {y}]
    OBVIOUS
  <2>12. z \in Int /\ f[y] \in Int /\ f[c] \in Int
    <3>1. (s \ {c}) \ {y} \in SUBSET S
      BY <2>3
    <3> QED BY <1>2, <2>3, <2>11, <3>1
  <2>13. f[c] + (f[y] + z) = f[y] + (f[c] + z)
    BY <2>12
  <2> QED BY <2>4, <2>5, <2>8, <2>9, <2>10, <2>11, <2>13
<1>5. g[S] = f[x] + g[S \ {x}]
  BY <1>3, <1>4
<1> QED BY <1>1, <1>2, <1>5

LEMMA SumSame ==
  ASSUME NEW S, IsFiniteSet(S), NEW f, NEW g, \A x \in S : f[x] = g[x]
  PROVE  SumOver(f, S) = SumOver(g, S)
<1>1. PICK u : Sums(u, f, S) /\ SumOver(f, S) = u[S]
  BY SumOverSums
<1>2. PICK v : Sums(v, g, S) /\ SumOver(g, S) = v[S]
  BY SumOverSums
<1>3. PICK B : B = {s \in SUBSET S : u[s] # v[s]}
  OBVIOUS
<1>4. ASSUME B # {} PROVE FALSE
  <2>1. IsFiniteSet(S) /\ B \in SUBSET SUBSET S /\ B # {}
    BY <1>3, <1>4
  <2>2. PICK s \in B : \A t \in SUBSET s : t # s => t \notin B
    BY ONLY <2>1, LeastSubset
  <2>3. s \in SUBSET S /\ u[s] # v[s]
    BY <1>3
  <2>4. CASE s = {}
    BY <1>1, <1>2, <2>3, <2>4 DEF Sums
  <2>5. CASE s # {}
    <3> PICK c \in s : c = Any(s)  BY <2>5, AnyIsIn
    <3>1. u[s \ {c}] = v[s \ {c}] /\ f[c] = g[c]
      BY <1>3, <2>2, <2>3
    <3>2. u[s] = f[c] + u[s \ {c}]
      BY <1>1, <2>3, <2>5 DEF Sums
    <3>3. v[s] = g[c] + v[s \ {c}]
      BY <1>2, <2>3, <2>5 DEF Sums
    <3> QED BY <2>3, <3>1, <3>2, <3>3
  <2> QED BY <2>4, <2>5
<1> QED BY <1>1, <1>2, <1>3, <1>4

(* One term changes.                                                       *)
LEMMA SumChange ==
  ASSUME NEW S, IsFiniteSet(S), NEW f, NEW g, NEW x \in S,
         \A y \in S : f[y] \in Int /\ g[y] \in Int,
         \A y \in S \ {x} : f[y] = g[y]
  PROVE  SumOver(g, S) = SumOver(f, S) + (g[x] - f[x])
<1>1. IsFiniteSet(S \ {x})
  BY FS_Subset
<1>2. SumOver(f, S \ {x}) = SumOver(g, S \ {x}) /\ SumOver(f, S \ {x}) \in Int
  BY <1>1, SumSame, SumOfInts
<1>3. SumOver(f, S) = f[x] + SumOver(f, S \ {x})
  BY SumRemove
<1>4. SumOver(g, S) = g[x] + SumOver(g, S \ {x})
  BY SumRemove
<1>5. f[x] \in Int /\ g[x] \in Int
  OBVIOUS
<1> QED BY <1>2, <1>3, <1>4, <1>5

(* Sums over disjoint sets.                                                *)
LEMMA SumUnion ==
  ASSUME NEW S, IsFiniteSet(S), NEW T, IsFiniteSet(T), S \cap T = {}, NEW f,
         \A x \in S \cup T : f[x] \in Int
  PROVE  SumOver(f, S \cup T) = SumOver(f, S) + SumOver(f, T)
<1>1. SumOver(f, S) \in Int
  BY SumOfInts
<1>2. PICK B : B = {t \in SUBSET T : SumOver(f, S \cup t) # SumOver(f, S) + SumOver(f, t)}
  OBVIOUS
<1>3. ASSUME B # {} PROVE FALSE
  <2>1. IsFiniteSet(T) /\ B \in SUBSET SUBSET T /\ B # {}
    BY <1>2, <1>3
  <2>2. PICK t \in B : \A u \in SUBSET t : u # t => u \notin B
    BY ONLY <2>1, LeastSubset
  <2>3. t \in SUBSET T /\ SumOver(f, S \cup t) # SumOver(f, S) + SumOver(f, t)
    BY <1>2
  <2>4. IsFiniteSet(t) /\ IsFiniteSet(S \cup t)
    <3>1. IsFiniteSet(t)
      BY <2>3, FS_Subset
    <3> QED BY <3>1, FS_Union
  <2>5. CASE t = {}
    <3>1. S \cup t = S
      BY <2>5
    <3> QED BY <1>1, <2>3, <2>5, <3>1, SumEmpty
  <2>6. CASE t # {}
    <3> PICK c \in t : TRUE  BY <2>6
    <3>1. t \ {c} \notin B /\ t \ {c} \in SUBSET T
      BY <2>2, <2>3
    <3>2. SumOver(f, S \cup (t \ {c})) = SumOver(f, S) + SumOver(f, t \ {c})
      BY <1>2, <3>1
    <3>3. (S \cup t) \ {c} = S \cup (t \ {c})
      BY <2>3
    <3>4. \A x \in S \cup t : f[x] \in Int
      BY <2>3
    <3>5. SumOver(f, S \cup t) = f[c] + SumOver(f, (S \cup t) \ {c})
      <4>1. c \in S \cup t
        OBVIOUS
      <4> QED BY <2>4, <3>4, <4>1, SumRemove
    <3>6. SumOver(f, t) = f[c] + SumOver(f, t \ {c})
      BY <2>4, <3>4, SumRemove
    <3>7. SumOver(f, t \ {c}) \in Int /\ f[c] \in Int
      <4>1. IsFiniteSet(t \ {c})
        BY <2>4, FS_Subset
      <4> QED BY <3>4, <4>1, SumOfInts
    <3>8. SumOver(f, S \cup t) = f[c] + (SumOver(f, S) + SumOver(f, t \ {c}))
      BY <3>2, <3>3, <3>5
    <3> QED BY <1>1, <2>3, <3>6, <3>7, <3>8
  <2> QED BY <2>5, <2>6
<1>4. T \notin B
  BY <1>3
<1> QED BY <1>2, <1>4

(* Sums of sums.                                                           *)
LEMMA SumAdd ==
  ASSUME NEW S, IsFiniteSet(S), NEW f, NEW g, NEW h,
         \A x \in S : f[x] \in Int /\ g[x] \in Int /\ h[x] = f[x] + g[x]
  PROVE  SumOver(h, S) = SumOver(f, S) + SumOver(g, S)
<1>1. PICK B : B = {s \in SUBSET S : SumOver(h, s) # SumOver(f, s) + SumOver(g, s)}
  OBVIOUS
<1>2. ASSUME B # {} PROVE FALSE
  <2>1. IsFiniteSet(S) /\ B \in SUBSET SUBSET S /\ B # {}
    BY <1>1, <1>2
  <2>2. PICK s \in B : \A t \in SUBSET s : t # s => t \notin B
    BY ONLY <2>1, LeastSubset
  <2>3. s \in SUBSET S /\ SumOver(h, s) # SumOver(f, s) + SumOver(g, s)
    BY <1>1
  <2>4. CASE s = {}
    BY <2>3, <2>4, SumEmpty
  <2>5. CASE s # {}
    <3> PICK c \in s : TRUE  BY <2>5
    <3> PICK t : t = s \ {c}  OBVIOUS
    <3>1. IsFiniteSet(s) /\ IsFiniteSet(t)
      BY <2>3, FS_Subset
    <3>2. SumOver(h, t) = SumOver(f, t) + SumOver(g, t)
      BY <1>1, <2>2, <2>3
    <3>3. f[c] \in Int /\ g[c] \in Int /\ h[c] = f[c] + g[c]
      BY <2>3
    <3>4. SumOver(f, t) \in Int /\ SumOver(g, t) \in Int
      BY <2>3, <3>1, SumOfInts
    <3>5. \A x \in s : h[x] \in Int /\ f[x] \in Int /\ g[x] \in Int
      BY <2>3
    <3>6. SumOver(h, s) = h[c] + SumOver(h, t)
      BY <3>1, <3>5, SumRemove
    <3>7. SumOver(f, s) = f[c] + SumOver(f, t)
      BY <3>1, <3>5, SumRemove
    <3>8. SumOver(g, s) = g[c] + SumOver(g, t)
      BY <3>1, <3>5, SumRemove
    <3> QED BY <2>3, <3>2, <3>3, <3>4, <3>6, <3>7, <3>8
  <2> QED BY <2>4, <2>5
<1>3. S \notin B
  BY <1>2
<1> QED BY <1>1, <1>3

-----------------------------------------------------------------------------
(* The columns of the tables have their types ...                          *)
TablesTyped ==
  /\ ledgerQty \in [Keys -> Int]
  /\ ledgerCash \in Int
  /\ nTrades \in Nat
  /\ qty \in [Keys -> Nat]
  /\ avg \in [Keys -> Nat]
  /\ price \in [Keys -> Nat]
  /\ value \in [Keys -> Nat]
  /\ realized \in Int
  /\ buyFees \in Nat
  /\ nav \in [Dates -> Int \cup {Null}]
  /\ pnl \in [Dates -> Int]
  /\ inOrder \in BOOLEAN

(* ... and the locals of the scripts: what a snapshot has read and marked  *)
(* is a set of long positions.                                             *)
LocalsTyped ==
  /\ pc \in [Processes -> Steps]
  /\ order \in [Processes -> Order \cup {NoOrder}]
  /\ \A p \in Processes : order[p] \in IF pc[p] = "trading" THEN Order ELSE {NoOrder}
  /\ seen \in [Processes -> Position]
  /\ cash \in [Processes -> Int]
  /\ DOMAIN book = Processes /\ DOMAIN marks = Processes
  /\ \A p \in Processes : pc[p] \in {"reading", "marked"} =>
       /\ DOMAIN book[p] \subseteq LongKeys
       /\ \A k \in DOMAIN book[p] : book[p][k].quantity \in Nat /\ book[p][k].price \in Nat
  /\ \A p \in Processes : pc[p] = "marked" =>
       /\ DOMAIN marks[p] = DOMAIN book[p]
       /\ \A k \in DOMAIN marks[p] : marks[p][k] \in Nat

TypeInv == TablesTyped /\ LocalsTyped

LEMMA Products == \A a, b \in Nat : a * b \in Nat
OBVIOUS

LEMMA KeysAreFinite ==
  /\ IsFiniteSet(Keys) /\ LongKeys \subseteq Keys /\ HedgeKeys \subseteq Keys
  /\ \A f : (\A k \in Keys : f[k] \in Int) =>
       /\ SumOver(f, Keys) = SumOver(f, LongKeys) + SumOver(f, HedgeKeys)
       /\ SumOver(f, Keys) \in Int
<1>1. IsFiniteSet(Keys)
  BY SleevesAssumption, FS_Union DEF Keys
<1>2. ASSUME NEW f, \A k \in Keys : f[k] \in Int
      PROVE  /\ SumOver(f, Keys) = SumOver(f, LongKeys) + SumOver(f, HedgeKeys)
             /\ SumOver(f, Keys) \in Int
  <2>1. SumOver(f, Keys) \in Int
    BY <1>1, <1>2, SumOfInts
  <2> QED BY <1>2, <2>1, SleevesAssumption, SumUnion DEF Keys
<1> QED BY <1>1, <1>2 DEF Keys

LEMMA OrderTyped ==
  \A o \in Order : /\ o.key \in Keys /\ o.side \in {"buy", "sell"}
                   /\ o.quantity \in Nat \ {0} /\ o.price \in Nat /\ o.fee \in Nat
BY AmountsAssumption DEF Order

LEMMA InitTypeInv == Init => TypeInv
<1> SUFFICES ASSUME Init PROVE TypeInv
  OBVIOUS
<1>1. TablesTyped
  BY DEF Init, TablesTyped
<1>2. LocalsTyped
  BY DEF Init, LocalsTyped, Steps, Position, NoRow
<1> QED BY <1>1, <1>2 DEF TypeInv

(* The end of a script.                                                    *)
LEMMA EndTyped ==
  ASSUME LocalsTyped, NEW p \in Processes, End(p) PROVE LocalsTyped'
<1>1. pc' \in [Processes -> Steps] /\ pc'[p] = "idle" /\ order'[p] = NoOrder
      /\ order' \in [Processes -> Order \cup {NoOrder}]
      /\ DOMAIN book' = Processes /\ DOMAIN marks' = Processes
  BY DEF End, LocalsTyped, Steps
<1>2. seen' \in [Processes -> Position] /\ cash' \in [Processes -> Int]
  BY DEF End, LocalsTyped, Position, NoRow
<1>3. \A q \in Processes \ {p} :
        pc'[q] = pc[q] /\ order'[q] = order[q] /\ book'[q] = book[q] /\ marks'[q] = marks[q]
  BY DEF End, LocalsTyped
<1> QED BY <1>1, <1>2, <1>3 DEF LocalsTyped

LEMMA StartTradeTyped ==
  ASSUME TypeInv, NEW p \in Processes, NEW o \in Order, StartTrade(p, o) PROVE TypeInv'
<1>1. TablesTyped'
  BY DEF StartTrade, ledgerVars, positionVars, snapshotVars, TypeInv, TablesTyped
<1>2. o.key \in Keys
  BY OrderTyped
<1>3. [quantity |-> qty[o.key], avg |-> avg[o.key]] \in Position
  BY <1>2 DEF TypeInv, TablesTyped, Position
<1>4. /\ pc' = [pc EXCEPT ![p] = "trading"] /\ order' = [order EXCEPT ![p] = o]
      /\ seen' = [seen EXCEPT ![p] = [quantity |-> qty[o.key], avg |-> avg[o.key]]]
      /\ UNCHANGED <<book, marks, cash>>
  BY DEF StartTrade
<1>5. pc' \in [Processes -> Steps] /\ order' \in [Processes -> Order \cup {NoOrder}]
      /\ seen' \in [Processes -> Position]
  BY <1>3, <1>4 DEF TypeInv, LocalsTyped, Steps
<1>6. /\ pc'[p] = "trading" /\ order'[p] = o
      /\ \A q \in Processes \ {p} : pc'[q] = pc[q] /\ order'[q] = order[q]
  BY <1>4 DEF TypeInv, LocalsTyped
<1>7. LocalsTyped'
  BY <1>4, <1>5, <1>6 DEF TypeInv, LocalsTyped
<1> QED BY <1>1, <1>7 DEF TypeInv

(* The order of a trade, and what it has read of its position.             *)
LEMMA TradeTyped ==
  ASSUME TypeInv, NEW p \in Processes, pc[p] = "trading"
  PROVE  /\ order[p] \in Order /\ order[p].key \in Keys
         /\ order[p].quantity \in Nat \ {0} /\ order[p].price \in Nat /\ order[p].fee \in Nat
         /\ seen[p].quantity \in Nat /\ seen[p].avg \in Nat
<1>1. order[p] \in Order
  BY DEF TypeInv, LocalsTyped
<1>2. seen[p] \in Position
  BY DEF TypeInv, LocalsTyped
<1> QED BY <1>1, <1>2, OrderTyped DEF Position

LEMMA BuyAmounts ==
  ASSUME TypeInv, NEW p \in Processes, pc[p] = "trading"
  PROVE  /\ NewQuantity(p) \in Nat \ {0} /\ NewCost(p) \in Nat /\ NewAverage(p) \in Nat
         /\ NewQuantity(p) * order[p].price \in Nat
         /\ order[p].quantity * order[p].price \in Nat
<1>1. NewQuantity(p) \in Nat \ {0}
  BY TradeTyped DEF NewQuantity
<1>2. NewCost(p) \in Nat /\ order[p].quantity * order[p].price \in Nat
  BY TradeTyped, Products DEF NewCost
<1>3. \A a \in Nat, b \in Nat \ {0} : a \div b \in Nat
  OBVIOUS
<1>4. NewAverage(p) \in Nat
  BY <1>1, <1>2, <1>3 DEF NewAverage
<1>5. NewQuantity(p) * order[p].price \in Nat
  BY <1>1, TradeTyped, Products
<1> QED BY <1>1, <1>2, <1>4, <1>5

LEMMA BuyTyped == ASSUME TypeInv, NEW p \in Processes, Buy(p) PROVE TypeInv'
<1>1. LocalsTyped'
  BY EndTyped DEF Buy, TypeInv
<1>2. pc[p] = "trading"
  BY DEF Buy
<1> PICK k, n, x, c : k = order[p].key /\ n = order[p].quantity /\ x = order[p].fee
                      /\ c = n * order[p].price
  OBVIOUS
<1>3. k \in Keys /\ n \in Nat /\ x \in Nat /\ c \in Nat /\ order[p].price \in Nat
  BY <1>2, TradeTyped, BuyAmounts
<1>4. /\ ledgerQty' = [ledgerQty EXCEPT ![k] = @ + n]
      /\ ledgerCash' = ledgerCash - (c + x)
      /\ nTrades' = nTrades + 1 /\ buyFees' = buyFees + x
      /\ UNCHANGED <<realized, nav, pnl, inOrder>>
  BY DEF Buy, snapshotVars
<1>5. /\ qty' = [qty EXCEPT ![k] = NewQuantity(p)]
      /\ avg' = [avg EXCEPT ![k] = NewAverage(p)]
      /\ price' = [price EXCEPT ![k] = order[p].price]
      /\ value' = [value EXCEPT ![k] = NewQuantity(p) * order[p].price]
  BY DEF Buy
<1>6. /\ qty' \in [Keys -> Nat] /\ avg' \in [Keys -> Nat]
      /\ price' \in [Keys -> Nat] /\ value' \in [Keys -> Nat]
  BY <1>2, <1>3, <1>5, BuyAmounts DEF TypeInv, TablesTyped
<1>7. ledgerQty' \in [Keys -> Int] /\ ledgerCash' \in Int /\ nTrades' \in Nat /\ buyFees' \in Nat
  BY <1>3, <1>4 DEF TypeInv, TablesTyped
<1>8. TablesTyped'
  BY <1>4, <1>6, <1>7 DEF TypeInv, TablesTyped
<1> QED BY <1>1, <1>8 DEF TypeInv

(* What a sell leaves of a column of positions.                            *)
LEMMA PutTyped ==
  ASSUME NEW f \in [Keys -> Nat], NEW k \in Keys, NEW x \in Nat, NEW g,
         \/ g = [f EXCEPT ![k] = 0] \/ g = f \/ g = [f EXCEPT ![k] = x]
  PROVE  g \in [Keys -> Nat]
OBVIOUS

LEMMA SellAmounts ==
  ASSUME TypeInv, NEW p \in Processes, pc[p] = "trading", Covers(p)
  PROVE  /\ seen[p].quantity - order[p].quantity \in Nat
         /\ (seen[p].quantity - order[p].quantity) * order[p].price \in Nat
         /\ order[p].quantity * order[p].price \in Nat
         /\ RealizedGain(p) \in Int
<1>1. seen[p].quantity - order[p].quantity \in Nat
  BY TradeTyped DEF Covers
<1>2. (seen[p].quantity - order[p].quantity) * order[p].price \in Nat
      /\ order[p].quantity * order[p].price \in Nat
  BY <1>1, TradeTyped, Products
<1>3. RealizedGain(p) \in Int
  <2>1. \A a, b \in Int : a * b \in Int
    OBVIOUS
  <2>2. order[p].quantity * (order[p].price - seen[p].avg) \in Int
    BY <2>1, TradeTyped
  <2> QED BY <2>2, TradeTyped DEF RealizedGain
<1> QED BY <1>1, <1>2, <1>3

LEMMA SellTyped == ASSUME TypeInv, NEW p \in Processes, Sell(p) PROVE TypeInv'
<1>1. LocalsTyped'
  BY EndTyped DEF Sell, TypeInv
<1>2. pc[p] = "trading" /\ Covers(p)
  BY DEF Sell
<1> PICK k, n, x, c, left : k = order[p].key /\ n = order[p].quantity /\ x = order[p].fee
                            /\ c = n * order[p].price /\ left = seen[p].quantity - n
  OBVIOUS
<1>3. k \in Keys /\ n \in Nat /\ x \in Nat /\ c \in Nat /\ left \in Nat
      /\ order[p].price \in Nat /\ left * order[p].price \in Nat /\ RealizedGain(p) \in Int
  BY <1>2, TradeTyped, SellAmounts
<1>4. /\ ledgerQty' = [ledgerQty EXCEPT ![k] = @ - n]
      /\ ledgerCash' = ledgerCash + (c - x)
      /\ nTrades' = nTrades + 1 /\ realized' = realized + RealizedGain(p)
      /\ UNCHANGED <<buyFees, nav, pnl, inOrder>>
  BY DEF Sell, snapshotVars
<1>5. \/ qty' = [qty EXCEPT ![k] = 0] \/ qty' = qty \/ qty' = [qty EXCEPT ![k] = left]
  BY DEF Sell
<1>6. \/ avg' = [avg EXCEPT ![k] = 0] \/ avg' = avg \/ avg' = [avg EXCEPT ![k] = avg[k]]
  BY DEF Sell
<1>7. \/ price' = [price EXCEPT ![k] = 0] \/ price' = price
      \/ price' = [price EXCEPT ![k] = order[p].price]
  BY DEF Sell
<1>8. \/ value' = [value EXCEPT ![k] = 0] \/ value' = value
      \/ value' = [value EXCEPT ![k] = left * order[p].price]
  BY DEF Sell
<1>9. qty \in [Keys -> Nat] /\ avg \in [Keys -> Nat] /\ price \in [Keys -> Nat]
      /\ value \in [Keys -> Nat] /\ avg[k] \in Nat
  BY <1>3 DEF TypeInv, TablesTyped
<1>10. qty' \in [Keys -> Nat]
  BY <1>3, <1>5, <1>9, PutTyped
<1>11. avg' \in [Keys -> Nat]
  BY <1>3, <1>6, <1>9, PutTyped
<1>12. price' \in [Keys -> Nat]
  BY <1>3, <1>7, <1>9, PutTyped
<1>13. value' \in [Keys -> Nat]
  BY <1>3, <1>8, <1>9, PutTyped
<1>14. ledgerQty' \in [Keys -> Int] /\ ledgerCash' \in Int /\ nTrades' \in Nat /\ realized' \in Int
  BY <1>3, <1>4 DEF TypeInv, TablesTyped
<1>15. TablesTyped'
  BY <1>4, <1>10, <1>11, <1>12, <1>13, <1>14 DEF TypeInv, TablesTyped
<1> QED BY <1>1, <1>15 DEF TypeInv

LEMMA EndOnlyTyped ==
  ASSUME TypeInv, NEW p \in Processes, Reject(p) \/ Abort(p) PROVE TypeInv'
<1>1. LocalsTyped'
  BY EndTyped DEF Reject, Abort, TypeInv
<1>2. TablesTyped'
  BY DEF Reject, Abort, ledgerVars, positionVars, snapshotVars, TypeInv, TablesTyped
<1> QED BY <1>1, <1>2 DEF TypeInv

LEMMA StartSnapshotTyped ==
  ASSUME TypeInv, NEW p \in Processes, StartSnapshot(p) PROVE TypeInv'
<1>1. TablesTyped'
  BY DEF StartSnapshot, ledgerVars, positionVars, snapshotVars, TypeInv, TablesTyped
<1> PICK held : held = {k \in LongKeys : qty[k] > 0}
  OBVIOUS
<1> PICK b : b = [k \in held |-> [quantity |-> qty[k], price |-> price[k]]]
  OBVIOUS
<1>2. /\ pc[p] = "idle" /\ book' = [book EXCEPT ![p] = b]
      /\ pc' = [pc EXCEPT ![p] = "reading"] /\ UNCHANGED <<order, seen, marks, cash>>
  BY DEF StartSnapshot
<1>3. DOMAIN b \subseteq LongKeys /\ \A k \in DOMAIN b : b[k].quantity \in Nat /\ b[k].price \in Nat
  BY KeysAreFinite DEF TypeInv, TablesTyped
<1>4. /\ pc' \in [Processes -> Steps] /\ pc'[p] = "reading" /\ book'[p] = b
      /\ DOMAIN book' = Processes /\ DOMAIN marks' = Processes
      /\ \A q \in Processes \ {p} : pc'[q] = pc[q] /\ book'[q] = book[q]
  BY <1>2 DEF TypeInv, LocalsTyped, Steps
<1>5. order[p] = NoOrder
  BY <1>2 DEF TypeInv, LocalsTyped
<1>6. LocalsTyped'
  BY <1>2, <1>3, <1>4, <1>5 DEF TypeInv, LocalsTyped
<1> QED BY <1>1, <1>6 DEF TypeInv

LEMMA MarkTyped ==
  ASSUME TypeInv, NEW p \in Processes, Mark(p) PROVE TypeInv'
<1>1. TablesTyped'
  BY DEF Mark, ledgerVars, positionVars, snapshotVars, TypeInv, TablesTyped
<1>2. /\ pc[p] = "reading" /\ cash' = [cash EXCEPT ![p] = InitialCapital + ledgerCash]
      /\ pc' = [pc EXCEPT ![p] = "marked"] /\ UNCHANGED <<order, seen, book>>
  BY DEF Mark
<1>3. PICK close \in [DOMAIN book[p] -> Prices \cup {Null}] :
        marks' = [marks EXCEPT ![p] =
          [k \in DOMAIN close |-> IF close[k] = Null THEN book[p][k].price ELSE close[k]]]
  BY DEF Mark
<1> PICK m : m = [k \in DOMAIN close |-> IF close[k] = Null THEN book[p][k].price ELSE close[k]]
  OBVIOUS
<1>4. DOMAIN m = DOMAIN book[p] /\ \A k \in DOMAIN m : m[k] \in Nat
  BY <1>2, AmountsAssumption DEF TypeInv, LocalsTyped
<1>5. /\ pc' \in [Processes -> Steps] /\ pc'[p] = "marked" /\ marks'[p] = m
      /\ DOMAIN marks' = Processes /\ order[p] = NoOrder
      /\ \A q \in Processes \ {p} : pc'[q] = pc[q] /\ marks'[q] = marks[q]
  BY <1>2, <1>3 DEF TypeInv, LocalsTyped, Steps
<1>6. cash' \in [Processes -> Int]
  BY <1>2, AmountsAssumption DEF TypeInv, TablesTyped, LocalsTyped
<1>7. LocalsTyped'
  BY <1>2, <1>4, <1>5, <1>6 DEF TypeInv, LocalsTyped
<1> QED BY <1>1, <1>7 DEF TypeInv

LEMMA FiniteMax ==
  ASSUME NEW S \in SUBSET Int, IsFiniteSet(S), S # {}
  PROVE  \E m \in S : \A x \in S : x <= m
<1>1. PICK B : B = {s \in SUBSET S : s # {} /\ ~ \E m \in s : \A x \in s : x <= m}
  OBVIOUS
<1>2. ASSUME B # {} PROVE FALSE
  <2>1. IsFiniteSet(S) /\ B \in SUBSET SUBSET S /\ B # {}
    BY <1>1, <1>2
  <2>2. PICK s \in B : \A u \in SUBSET s : u # s => u \notin B
    BY ONLY <2>1, LeastSubset
  <2>3. s \in SUBSET S /\ s # {} /\ ~ \E m \in s : \A x \in s : x <= m
    BY <1>1
  <2> PICK c \in s : TRUE  BY <2>3
  <2>4. c \in Int /\ s \ {c} \in SUBSET S
    BY <2>3
  <2>5. CASE s \ {c} = {}
    <3>1. \A x \in s : x <= c
      BY <2>4, <2>5
    <3> QED BY <2>3, <3>1
  <2>6. CASE s \ {c} # {}
    <3>1. PICK m \in s \ {c} : \A x \in s \ {c} : x <= m
      BY <1>1, <2>2, <2>4, <2>6
    <3>2. m \in Int /\ \A x \in s : x \in Int
      BY <2>3
    <3>3. CASE c <= m
      <4>1. \A x \in s : x <= m
        BY <3>1, <3>3
      <4> QED BY <2>3, <4>1
    <3>4. CASE ~ (c <= m)
      <4>1. \A x \in s : x <= c
        BY <2>4, <3>1, <3>2, <3>4
      <4> QED BY <2>3, <4>1
    <3> QED BY <3>3, <3>4
  <2> QED BY <2>5, <2>6
<1> QED BY <1>1, <1>2

(* The dates up to d that have a snapshot.                                 *)
Recorded(d) == {e \in 1 .. d : nav[e] # Null}

LEMMA DatesUpTo ==
  ASSUME NEW d \in Dates
  PROVE  d \in Nat \ {0} /\ 1 .. d \subseteq Dates /\ IsFiniteSet(1 .. d) /\ IsFiniteSet(Recorded(d))
<1>1. d \in Nat \ {0} /\ 1 .. d \subseteq Dates
  BY AmountsAssumption DEF Dates
<1>2. IsFiniteSet(1 .. d)
  BY <1>1, FS_Interval
<1> QED BY <1>1, <1>2, FS_Subset DEF Recorded

LEMMA UpTo ==
  ASSUME NEW d \in Dates
  PROVE  /\ \A e : e \in 1 .. d <=> e \in Dates /\ e <= d
         /\ \A e : e \in Recorded(d) <=> e \in Dates /\ e <= d /\ nav[e] # Null
         /\ Dates \subseteq Nat
<1>1. \A e : e \in 1 .. d <=> e \in Dates /\ e <= d
  BY AmountsAssumption DEF Dates
<1>2. Dates \subseteq Nat
  BY AmountsAssumption DEF Dates
<1> QED BY <1>1, <1>2 DEF Recorded

(* prev_nav is the capital or the NAV of the last date before.             *)
LEMMA PreviousNavIsLast ==
  ASSUME TypeInv, NEW d \in Dates
  PROVE  /\ \/ Recorded(d) \ {d} = {} /\ PreviousNav(d) = InitialCapital
            \/ \E m \in Dates : /\ nav[m] # Null /\ Recorded(d) \ {d} = Recorded(m)
                                /\ PreviousNav(d) = nav[m] /\ nav[m] \in Int
         /\ PreviousNav(d) \in Int
<1> PICK before : before = {e \in Dates : e < d /\ nav[e] # Null}
  OBVIOUS
<1>1. before = Recorded(d) \ {d}
  <2>1. \A e \in Dates : e < d <=> e <= d /\ e # d
    BY UpTo
  <2> QED BY <2>1, UpTo
<1>2. CASE before = {}
  BY <1>1, <1>2, AmountsAssumption DEF PreviousNav
<1>3. CASE before # {}
  <2>1. before \in SUBSET Int /\ IsFiniteSet(before)
    <3>1. before \subseteq Int /\ before \in SUBSET Recorded(d)
      BY <1>1, UpTo
    <3> QED BY <3>1, DatesUpTo, FS_Subset
  <2>2. \E m \in before : \A f \in before : f <= m
    BY <1>3, <2>1, FiniteMax
  <2> PICK m : m = CHOOSE e \in before : \A f \in before : f <= e
    OBVIOUS
  <2>3. m \in before /\ \A f \in before : f <= m
    BY <2>2
  <2>4. PreviousNav(d) = nav[m]
    BY <1>3 DEF PreviousNav
  <2>5. m \in Dates /\ m < d /\ nav[m] # Null
    BY <2>3
  <2>6. nav[m] \in Int
    BY <2>5 DEF TypeInv, TablesTyped
  <2>7. before = Recorded(m)
    <3>1. \A e \in Dates : e < d /\ nav[e] # Null => e <= m
      BY <2>3
    <3>2. \A e \in Dates : e <= m => e < d
      BY <2>5, UpTo
    <3> QED BY <2>5, <3>1, <3>2, UpTo
  <2> QED BY <1>1, <2>4, <2>5, <2>6, <2>7
<1> QED BY <1>2, <1>3

LEMMA WriteSnapshotTyped ==
  ASSUME TypeInv, NEW p \in Processes, NEW d \in Dates, WriteSnapshot(p, d)
  PROVE  /\ TypeInv'
         /\ \E total \in Int : nav' = [nav EXCEPT ![d] = total]
                               /\ pnl' = [pnl EXCEPT ![d] = total - PreviousNav(d)]
<1>1. pc[p] = "marked" /\ End(p) /\ UNCHANGED <<ledgerVars, qty, avg>>
  BY DEF WriteSnapshot
<1>2. LocalsTyped'
  BY <1>1, EndTyped DEF TypeInv
<1>3. \A k \in Marked(p) : marks[p][k] \in Nat /\ book[p][k].quantity \in Nat
  BY <1>1 DEF TypeInv, LocalsTyped, Marked
<1>4. price' = [k \in Keys |-> IF k \in Marked(p) THEN marks[p][k] ELSE price[k]]
      /\ value' = [k \in Keys |-> IF k \in Marked(p) THEN book[p][k].quantity * marks[p][k]
                                  ELSE value[k]]
  BY DEF WriteSnapshot
<1>5. price' \in [Keys -> Nat]
  BY <1>3, <1>4 DEF TypeInv, TablesTyped
<1>6. value' \in [Keys -> Nat]
  <2>1. \A k \in Marked(p) : book[p][k].quantity * marks[p][k] \in Nat
    BY <1>3, Products
  <2> QED BY <1>4, <2>1 DEF TypeInv, TablesTyped
<1> PICK v : v = value'
  OBVIOUS
<1>7. Sleeves(v) \in Int
  <2>1. \A k \in Keys : v[k] \in Int
    BY <1>6
  <2>2. SumOver(v, LongKeys) + SumOver(v, HedgeKeys) \in Int
    BY <2>1, KeysAreFinite
  <2> QED BY <2>2 DEF Sleeves
<1> PICK total : total = cash[p] + Sleeves(v)
  OBVIOUS
<1>8. total \in Int
  BY <1>7 DEF TypeInv, LocalsTyped
<1>9. nav' = [nav EXCEPT ![d] = total] /\ pnl' = [pnl EXCEPT ![d] = total - PreviousNav(d)]
  BY DEF WriteSnapshot
<1>10. nav' \in [Dates -> Int \cup {Null}] /\ pnl' \in [Dates -> Int]
  BY <1>8, <1>9, PreviousNavIsLast DEF TypeInv, TablesTyped
<1>11. inOrder' \in BOOLEAN
  <2>1. inOrder' = (inOrder /\ \A e \in Dates : e > d => nav[e] = Null)
    BY DEF WriteSnapshot
  <2> QED BY <2>1
<1>12. TablesTyped'
  BY <1>1, <1>5, <1>6, <1>10, <1>11 DEF ledgerVars, TypeInv, TablesTyped
<1> QED BY <1>2, <1>8, <1>9, <1>12 DEF TypeInv

LEMMA NextTypeInv == TypeInv /\ [Next]_vars => TypeInv'
<1> SUFFICES ASSUME TypeInv, [Next]_vars PROVE TypeInv'
  OBVIOUS
<1>1. CASE UNCHANGED vars
  BY <1>1 DEF vars, ledgerVars, positionVars, snapshotVars, localVars, TypeInv, TablesTyped, LocalsTyped
<1>2. ASSUME NEW p \in Processes, Step(p) PROVE TypeInv'
  BY <1>2, StartTradeTyped, BuyTyped, SellTyped, EndOnlyTyped, StartSnapshotTyped, MarkTyped,
     WriteSnapshotTyped DEF Step
<1> QED BY <1>1, <1>2 DEF Next

(* Every column and local keeps its type, however many scripts run at once *)
(* and whatever they overwrite: no position's quantity, cost or price ever *)
(* falls below zero.                                                       *)
THEOREM TypeCorrect == Spec => []TypeOK
<1>1. TypeInv => TypeOK
  BY DEF TypeInv, TablesTyped, LocalsTyped, TypeOK
<1> QED BY InitTypeInv, NextTypeInv, <1>1, PTL DEF Spec
-----------------------------------------------------------------------------
(* DailyPnlAddsUp is inductive with the types: the row written is the last *)
(* one, and the sum up to the date before is the NAV its pnl starts from.  *)
LEMMA SnapshotAddsUp ==
  ASSUME TypeInv, DailyPnlAddsUp, NEW p \in Processes, NEW d \in Dates, WriteSnapshot(p, d)
  PROVE  DailyPnlAddsUp'
<1>1. PICK total \in Int : nav' = [nav EXCEPT ![d] = total]
                           /\ pnl' = [pnl EXCEPT ![d] = total - PreviousNav(d)]
  BY WriteSnapshotTyped
<1>2. inOrder' = (inOrder /\ \A e \in Dates : e > d => nav[e] = Null)
  BY DEF WriteSnapshot
<1>3. SUFFICES ASSUME inOrder, \A e \in Dates : e > d => nav[e] = Null,
                      NEW x \in Dates, nav'[x] # Null
               PROVE  SumOver(pnl', {e \in 1 .. x : nav'[e] # Null}) = nav'[x] - InitialCapital
  BY <1>2 DEF DailyPnlAddsUp
<1>4. nav \in [Dates -> Int \cup {Null}] /\ pnl \in [Dates -> Int] /\ pnl' \in [Dates -> Int]
  BY WriteSnapshotTyped DEF TypeInv, TablesTyped
<1>5. x <= d /\ x \in Nat /\ d \in Nat
  BY <1>1, <1>3, <1>4, DatesUpTo
<1> PICK q, S : q = pnl' /\ S = {e \in 1 .. x : nav'[e] # Null}
  OBVIOUS
<1>6. /\ IsFiniteSet(S) /\ S \subseteq Dates
      /\ \A e : e \in S <=> e \in Dates /\ e <= x /\ nav'[e] # Null
  BY DatesUpTo, FS_Subset, UpTo
<1>7. CASE x < d
  <2>1. S = Recorded(x)
    <3>1. \A e \in Dates : e <= x => nav'[e] = nav[e]
      BY <1>1, <1>4, <1>7, UpTo
    <3> QED BY <1>6, <3>1, UpTo
  <2>2. nav'[x] = nav[x] /\ \A e \in S : q[e] = pnl[e]
    BY <1>1, <1>4, <1>5, <1>7, DatesUpTo
  <2>3. SumOver(q, S) = SumOver(pnl, S)
    BY <1>6, <2>2, SumSame
  <2>4. SumOver(pnl, Recorded(x)) = nav[x] - InitialCapital
    BY <1>3, <2>2 DEF DailyPnlAddsUp, Recorded
  <2> QED BY <2>1, <2>2, <2>3, <2>4
<1>8. CASE x = d
  <2>1. d \in S /\ S \ {d} = Recorded(d) \ {d}
    <3>1. \A e \in Dates \ {d} : nav'[e] = nav[e]
      BY <1>1, <1>4
    <3>2. d \in S
      BY <1>3, <1>5, <1>6, <1>8
    <3>3. \A e : e \in S \ {d} <=> e \in Recorded(d) \ {d}
      BY <1>6, <1>8, <3>1, UpTo
    <3> QED BY <3>2, <3>3
  <2>2. \A e \in S : q[e] \in Int
    BY <1>4, <1>6
  <2>3. SumOver(q, S) = q[d] + SumOver(q, S \ {d})
    BY <1>6, <2>1, <2>2, SumRemove
  <2>4. SumOver(q, S \ {d}) = SumOver(pnl, S \ {d})
    <3>1. IsFiniteSet(S \ {d})
      BY <1>6, FS_Subset
    <3>2. \A e \in S \ {d} : q[e] = pnl[e]
      BY <1>1, <1>4, <1>6
    <3> QED BY <3>1, <3>2, SumSame
  <2>5. q[d] = total - PreviousNav(d) /\ nav'[d] = total
    BY <1>1, <1>4
  <2>6. SumOver(pnl, Recorded(d) \ {d}) = PreviousNav(d) - InitialCapital
    <3>1. CASE Recorded(d) \ {d} = {} /\ PreviousNav(d) = InitialCapital
      BY <3>1, SumEmpty, AmountsAssumption
    <3>2. ASSUME NEW m \in Dates, nav[m] # Null, Recorded(d) \ {d} = Recorded(m),
                 PreviousNav(d) = nav[m]
          PROVE  SumOver(pnl, Recorded(d) \ {d}) = PreviousNav(d) - InitialCapital
      BY <1>3, <3>2 DEF DailyPnlAddsUp, Recorded
    <3> QED BY <3>1, <3>2, PreviousNavIsLast
  <2>7. SumOver(q, S) = (total - PreviousNav(d)) + (PreviousNav(d) - InitialCapital)
    BY <2>1, <2>3, <2>4, <2>5, <2>6
  <2>8. PreviousNav(d) \in Int /\ InitialCapital \in Int
    BY PreviousNavIsLast, AmountsAssumption
  <2> QED BY <1>1, <1>8, <2>5, <2>7, <2>8
<1> QED BY <1>5, <1>7, <1>8

(* However many scripts run at once, whatever they trade and whatever days *)
(* are skipped or taken again, the daily pnls add up to the NAV's gain     *)
(* while snapshots are taken in the order of their dates.                  *)
THEOREM DailyPnlAddsUpTheorem == Spec => []DailyPnlAddsUp
<1>1. Init => DailyPnlAddsUp
  BY DEF Init, DailyPnlAddsUp
<1>2. TypeInv /\ DailyPnlAddsUp /\ [Next]_vars => DailyPnlAddsUp'
  <2> SUFFICES ASSUME TypeInv, DailyPnlAddsUp, [Next]_vars PROVE DailyPnlAddsUp'
    OBVIOUS
  <2>1. CASE UNCHANGED snapshotVars
    BY <2>1 DEF snapshotVars, DailyPnlAddsUp
  <2>2. UNCHANGED snapshotVars \/ \E p \in Processes, d \in Dates : WriteSnapshot(p, d)
    BY DEF Next, Step, StartTrade, Buy, Sell, Reject, Abort, StartSnapshot, Mark, vars
  <2>3. snapshotVars = <<nav, pnl, inOrder>>
    BY DEF snapshotVars
  <2> QED BY <2>1, <2>2, SnapshotAddsUp
<1> QED BY InitTypeInv, NextTypeInv, <1>1, <1>2, PTL DEF Spec
-----------------------------------------------------------------------------
(* From here on, one operator runs the scripts one after the other.        *)
OneProcess == \A p, q \in Processes : p = q

(* Then what a script has read still holds when it writes ...              *)
ReadsAreFresh ==
  \A p \in Processes :
    /\ pc[p] = "trading" =>
         seen[p].quantity = qty[order[p].key] /\ seen[p].avg = avg[order[p].key]
    /\ pc[p] \in {"reading", "marked"} =>
         \A k \in Keys : /\ k \in DOMAIN book[p] <=> k \in LongKeys /\ qty[k] > 0
                         /\ k \in DOMAIN book[p] => book[p][k].quantity = qty[k]
    /\ pc[p] = "marked" => cash[p] = InitialCapital + ledgerCash

(* ... and every position is worth its shares at its last price.           *)
ValuesAreMarked == \A k \in Keys : value[k] = qty[k] * price[k]

BooksInv == ReadsAreFresh /\ ValuesAreMarked /\ PositionsMatchLedger /\ BooksBalance

(* The open positions at cost.                                             *)
Cost == [k \in Keys |-> qty[k] * avg[k]]

LEMMA BooksBalanceAtCost == BooksBalance <=> ledgerCash + SumOver(Cost, Keys) = realized - buyFees
BY DEF BooksBalance, Cost

LEMMA CostTyped ==
  ASSUME TypeInv
  PROVE  /\ \A k \in Keys : Cost[k] = qty[k] * avg[k] /\ Cost[k] \in Nat
         /\ SumOver(Cost, Keys) \in Int
<1>1. \A k \in Keys : Cost[k] = qty[k] * avg[k] /\ Cost[k] \in Nat
  BY Products DEF Cost, TypeInv, TablesTyped
<1> QED BY <1>1, KeysAreFinite

LEMMA InitBooksInv == Init => BooksInv
<1> SUFFICES ASSUME Init PROVE BooksInv
  OBVIOUS
<1>1. ReadsAreFresh /\ ValuesAreMarked /\ PositionsMatchLedger
  BY DEF Init, ReadsAreFresh, ValuesAreMarked, PositionsMatchLedger
<1>2. SumOver(Cost, Keys) = 0
  <2>1. \A S \in SUBSET Keys : \A k \in S : Cost[k] = 0
    BY DEF Init, Cost
  <2>2. PICK B : B = {S \in SUBSET Keys : SumOver(Cost, S) # 0}
    OBVIOUS
  <2>3. ASSUME B # {} PROVE FALSE
    <3>1. IsFiniteSet(Keys) /\ B \in SUBSET SUBSET Keys /\ B # {}
      BY <2>2, <2>3, KeysAreFinite
    <3>2. PICK S \in B : \A u \in SUBSET S : u # S => u \notin B
      BY ONLY <3>1, LeastSubset
    <3>3. S \in SUBSET Keys /\ SumOver(Cost, S) # 0 /\ IsFiniteSet(S)
      BY <2>2, <3>1, FS_Subset
    <3>4. PICK k : k \in S
      BY <3>3, SumEmpty
    <3>5. SumOver(Cost, S \ {k}) = 0 /\ Cost[k] = 0
      BY <2>1, <2>2, <3>2, <3>3, <3>4
    <3>6. SumOver(Cost, S) = Cost[k] + SumOver(Cost, S \ {k})
      BY <2>1, <3>3, <3>4, SumRemove
    <3> QED BY <3>3, <3>5, <3>6
  <2> QED BY <2>2, <2>3
<1>3. BooksBalance
  BY <1>2, BooksBalanceAtCost DEF Init
<1> QED BY <1>1, <1>3 DEF BooksInv

(* When a script has ended none is at work.                                *)
LEMMA EndFresh ==
  ASSUME OneProcess, TypeInv, NEW p \in Processes, End(p) PROVE ReadsAreFresh'
<1>1. \A q \in Processes : pc'[q] = "idle"
  BY DEF OneProcess, End, TypeInv, LocalsTyped
<1> QED BY <1>1 DEF ReadsAreFresh

(* A trade of one key keeps the books in balance if the change of its cost *)
(* and of the cash come to that of the accounts.                           *)
LEMMA CostChange ==
  ASSUME TypeInv, TypeInv', BooksBalance, NEW k \in Keys, NEW m \in Int,
         \A j \in Keys \ {k} : qty'[j] = qty[j] /\ avg'[j] = avg[j],
         qty'[k] * avg'[k] = qty[k] * avg[k] + m,
         ledgerCash' + m - realized' + buyFees' = ledgerCash - realized + buyFees
  PROVE  BooksBalance'
<1> PICK C : C = Cost
  OBVIOUS
<1> PICK D : D = Cost'
  OBVIOUS
<1>1. \A j \in Keys : C[j] = qty[j] * avg[j] /\ C[j] \in Int
  BY CostTyped
<1>2. \A j \in Keys : D[j] = qty'[j] * avg'[j]
  BY DEF Cost
<1>3. D[k] = C[k] + m /\ \A j \in Keys \ {k} : D[j] = C[j]
  BY <1>1, <1>2
<1>4. \A j \in Keys : C[j] \in Int /\ D[j] \in Int
  BY <1>1, <1>3
<1>5. k \in Keys /\ IsFiniteSet(Keys) /\ \A j \in Keys \ {k} : C[j] = D[j]
  BY <1>3, KeysAreFinite
<1>6. SumOver(D, Keys) = SumOver(C, Keys) + (D[k] - C[k])
  BY ONLY <1>4, <1>5, SumChange
<1> PICK s, t : s = SumOver(C, Keys) /\ t = SumOver(D, Keys)
  OBVIOUS
<1>7. s \in Int /\ t = s + m
  <2>1. s \in Int
    BY CostTyped
  <2>2. C[k] \in Int /\ D[k] = C[k] + m /\ t = s + (D[k] - C[k])
    BY <1>3, <1>4, <1>6
  <2> QED BY <2>1, <2>2
<1>8. ledgerCash + s = realized - buyFees
  BY BooksBalanceAtCost
<1>9. ledgerCash \in Int /\ realized \in Int /\ buyFees \in Nat
  BY DEF TypeInv, TablesTyped
<1>10. ledgerCash' \in Int /\ realized' \in Int /\ buyFees' \in Nat
  BY DEF TypeInv, TablesTyped
<1> PICK l \in Int, r \in Int, b \in Int : l = ledgerCash /\ r = realized /\ b = buyFees
  BY <1>9
<1> PICK u \in Int, v \in Int, w \in Int : u = ledgerCash' /\ v = realized' /\ w = buyFees'
  BY <1>10
<1> PICK z \in Int : z = s
  BY <1>7
<1>11. l + z = r - b /\ u + m - v + w = l - r + b
  BY <1>8
<1>12. u + (z + m) = v - w
  BY ONLY <1>11
<1>13. ledgerCash' + t = realized' - buyFees'
  BY <1>7, <1>12
<1> QED BY <1>13 DEF BooksBalance, Cost

LEMMA Quotient ==
  ASSUME NEW a \in Nat, NEW b \in Nat \ {0}, a % b = 0 PROVE b * (a \div b) = a
OBVIOUS

(* The shares left carry their cost away from the shares sold, at any gain.*)
LEMMA SaleAtCost ==
  ASSUME NEW q \in Nat, NEW n \in Nat, NEW a \in Nat, NEW y \in Nat
  PROVE  /\ (q - n) * a = q * a - n * a
         /\ n * (y - a) = n * y - n * a
         /\ q * a \in Nat /\ n * a \in Nat /\ n * y \in Nat
OBVIOUS

LEMMA BuyBooks ==
  ASSUME OneProcess, TypeInv, BooksInv, NEW p \in Processes, Buy(p) PROVE BooksInv'
<1>1. pc[p] = "trading" /\ WholeAverage(p) /\ End(p)
  BY DEF Buy
<1> PICK k, n, x, y : k = order[p].key /\ n = order[p].quantity /\ x = order[p].fee
                      /\ y = order[p].price
  OBVIOUS
<1> PICK Q, A : Q = NewQuantity(p) /\ A = NewAverage(p)
  OBVIOUS
<1>2. k \in Keys /\ n \in Nat \ {0} /\ x \in Nat /\ y \in Nat /\ Q \in Nat \ {0} /\ A \in Nat
  BY <1>1, TradeTyped, BuyAmounts
<1>3. /\ ledgerQty' = [ledgerQty EXCEPT ![k] = @ + n]
      /\ ledgerCash' = ledgerCash - (n * y + x)
      /\ buyFees' = buyFees + x /\ realized' = realized
  BY DEF Buy
<1>4. /\ qty' = [qty EXCEPT ![k] = Q] /\ avg' = [avg EXCEPT ![k] = A]
      /\ price' = [price EXCEPT ![k] = y] /\ value' = [value EXCEPT ![k] = Q * y]
  BY DEF Buy
<1>5. seen[p].quantity = qty[k] /\ seen[p].avg = avg[k]
  BY <1>1 DEF BooksInv, ReadsAreFresh
<1>6. Q = qty[k] + n
  BY <1>5 DEF NewQuantity
<1> PICK c, m : c = NewCost(p) /\ m = n * y
  OBVIOUS
<1>7. Q * A = qty[k] * avg[k] + m /\ m \in Nat
  <2>1. c = qty[k] * avg[k] + m
    BY <1>5 DEF NewCost
  <2>2. c \in Nat /\ m \in Nat
    BY <1>1, BuyAmounts
  <2>3. c % Q = 0 /\ A = c \div Q
    BY <1>1 DEF WholeAverage, NewAverage
  <2>4. Q * (c \div Q) = c
    BY <1>2, <2>2, <2>3, Quotient
  <2> QED BY <2>1, <2>2, <2>3, <2>4
<1>8. qty \in [Keys -> Nat] /\ avg \in [Keys -> Nat] /\ price \in [Keys -> Nat]
      /\ value \in [Keys -> Nat] /\ ledgerQty \in [Keys -> Int]
  BY DEF TypeInv, TablesTyped
<1>9. ValuesAreMarked' /\ PositionsMatchLedger'
  BY <1>2, <1>3, <1>4, <1>6, <1>8 DEF BooksInv, ValuesAreMarked, PositionsMatchLedger
<1>10. qty'[k] * avg'[k] = qty[k] * avg[k] + m
       /\ \A j \in Keys \ {k} : qty'[j] = qty[j] /\ avg'[j] = avg[j]
  BY <1>2, <1>4, <1>7, <1>8
<1>11. ledgerCash' + m - realized' + buyFees' = ledgerCash - realized + buyFees
  BY <1>2, <1>3, <1>7 DEF TypeInv, TablesTyped
<1>12. TypeInv' /\ BooksBalance /\ m \in Int
  BY <1>7, BuyTyped DEF BooksInv
<1>13. BooksBalance'
  BY <1>2, <1>10, <1>11, <1>12, CostChange
<1> QED BY <1>1, <1>9, <1>13, EndFresh DEF BooksInv

LEMMA SellBooks ==
  ASSUME OneProcess, TypeInv, BooksInv, NEW p \in Processes, Sell(p) PROVE BooksInv'
<1>1. pc[p] = "trading" /\ Covers(p) /\ End(p)
  BY DEF Sell
<1> PICK k, n, x, y : k = order[p].key /\ n = order[p].quantity /\ x = order[p].fee
                      /\ y = order[p].price
  OBVIOUS
<1> PICK a, left : a = avg[k] /\ left = seen[p].quantity - n
  OBVIOUS
<1>2. k \in Keys /\ n \in Nat \ {0} /\ x \in Nat /\ y \in Nat /\ left \in Nat
  BY <1>1, TradeTyped, SellAmounts
<1>3. seen[p].quantity = qty[k] /\ seen[p].avg = a
  BY <1>1 DEF BooksInv, ReadsAreFresh
<1>4. /\ ledgerQty' = [ledgerQty EXCEPT ![k] = @ - n]
      /\ ledgerCash' = ledgerCash + (n * y - x)
      /\ realized' = realized + (n * (y - a) - x) /\ buyFees' = buyFees
  BY <1>3 DEF Sell, RealizedGain
<1>5. qty \in [Keys -> Nat] /\ avg \in [Keys -> Nat] /\ price \in [Keys -> Nat]
      /\ value \in [Keys -> Nat] /\ ledgerQty \in [Keys -> Int]
  BY DEF TypeInv, TablesTyped
<1>6. left = qty[k] - n /\ qty[k] # 0 /\ qty[k] \in Nat /\ a \in Nat
  BY <1>2, <1>3, <1>5
<1>7. \/ /\ left = 0
         /\ qty' = [qty EXCEPT ![k] = 0] /\ avg' = [avg EXCEPT ![k] = 0]
         /\ price' = [price EXCEPT ![k] = 0] /\ value' = [value EXCEPT ![k] = 0]
      \/ /\ qty' = [qty EXCEPT ![k] = left] /\ avg' = [avg EXCEPT ![k] = a]
         /\ price' = [price EXCEPT ![k] = y] /\ value' = [value EXCEPT ![k] = left * y]
  <2>1. CASE left = 0
    BY <2>1 DEF Sell
  <2>2. CASE left # 0
    BY <1>6, <2>2 DEF Sell
  <2> QED BY <2>1, <2>2
<1>8. ValuesAreMarked'
  BY <1>2, <1>5, <1>7 DEF BooksInv, ValuesAreMarked
<1>9. PositionsMatchLedger'
  BY <1>2, <1>4, <1>5, <1>6, <1>7 DEF BooksInv, PositionsMatchLedger
<1> PICK m, g : m = n * a /\ g = n * y
  OBVIOUS
<1>10. left * a = qty[k] * a - m /\ n * (y - a) = g - m /\ m \in Nat /\ g \in Nat
       /\ qty[k] * a \in Nat
  BY <1>2, <1>6, SaleAtCost
<1>11. qty'[k] * avg'[k] = left * a
  BY <1>2, <1>5, <1>6, <1>7
<1>12. qty'[k] * avg'[k] = qty[k] * avg[k] + (0 - m)
  BY <1>10, <1>11
<1>13. \A j \in Keys \ {k} : qty'[j] = qty[j] /\ avg'[j] = avg[j]
  BY <1>5, <1>7
<1>14. ledgerCash' + (0 - m) - realized' + buyFees' = ledgerCash - realized + buyFees
  <2>1. ledgerCash \in Int /\ realized \in Int /\ buyFees \in Nat
    BY DEF TypeInv, TablesTyped
  <2>2. ledgerCash' = ledgerCash + (g - x) /\ realized' = realized + (g - m - x)
    BY <1>4, <1>10
  <2> QED BY <1>2, <1>4, <1>10, <2>1, <2>2
<1>15. TypeInv' /\ BooksBalance /\ 0 - m \in Int
  BY <1>10, SellTyped DEF BooksInv
<1>16. BooksBalance'
  BY <1>2, <1>12, <1>13, <1>14, <1>15, CostChange
<1> QED BY <1>1, <1>8, <1>9, <1>16, EndFresh DEF BooksInv

(* A step that enters no trade and no price.                               *)
LEMMA SameBooks ==
  ASSUME BooksInv, UNCHANGED <<ledgerVars, positionVars>>, ReadsAreFresh' PROVE BooksInv'
BY DEF ledgerVars, positionVars, BooksInv, ValuesAreMarked, PositionsMatchLedger, BooksBalance

LEMMA StartTradeBooks ==
  ASSUME OneProcess, TypeInv, BooksInv, NEW p \in Processes, NEW o \in Order, StartTrade(p, o)
  PROVE  BooksInv'
<1>1. pc' = [pc EXCEPT ![p] = "trading"] /\ order' = [order EXCEPT ![p] = o]
      /\ seen' = [seen EXCEPT ![p] = [quantity |-> qty[o.key], avg |-> avg[o.key]]]
      /\ UNCHANGED <<ledgerVars, positionVars>>
  BY DEF StartTrade
<1>2. pc'[p] = "trading" /\ order'[p] = o /\ seen'[p].quantity = qty[o.key]
      /\ seen'[p].avg = avg[o.key] /\ qty' = qty /\ avg' = avg
  BY <1>1 DEF TypeInv, LocalsTyped, positionVars
<1>3. ReadsAreFresh'
  BY <1>2 DEF OneProcess, ReadsAreFresh
<1> QED BY <1>1, <1>3, SameBooks

LEMMA StartSnapshotBooks ==
  ASSUME OneProcess, TypeInv, BooksInv, NEW p \in Processes, StartSnapshot(p)
  PROVE  BooksInv'
<1> PICK held : held = {k \in LongKeys : qty[k] > 0}
  OBVIOUS
<1> PICK b : b = [k \in held |-> [quantity |-> qty[k], price |-> price[k]]]
  OBVIOUS
<1>1. pc' = [pc EXCEPT ![p] = "reading"] /\ book' = [book EXCEPT ![p] = b]
      /\ UNCHANGED <<ledgerVars, positionVars>>
  BY DEF StartSnapshot
<1>2. pc'[p] = "reading" /\ book'[p] = b /\ qty' = qty
  BY <1>1 DEF TypeInv, LocalsTyped, positionVars
<1>3. ReadsAreFresh'
  <2>1. \A k \in Keys : /\ k \in DOMAIN b <=> k \in LongKeys /\ qty[k] > 0
                        /\ k \in DOMAIN b => b[k].quantity = qty[k]
    OBVIOUS
  <2> QED BY <1>2, <2>1 DEF OneProcess, ReadsAreFresh
<1> QED BY <1>1, <1>3, SameBooks

LEMMA MarkBooks ==
  ASSUME OneProcess, TypeInv, BooksInv, NEW p \in Processes, Mark(p)
  PROVE  BooksInv'
<1>1. pc[p] = "reading" /\ pc' = [pc EXCEPT ![p] = "marked"]
      /\ cash' = [cash EXCEPT ![p] = InitialCapital + ledgerCash]
      /\ UNCHANGED <<ledgerVars, positionVars, book>>
  BY DEF Mark
<1>2. pc'[p] = "marked" /\ cash'[p] = InitialCapital + ledgerCash'
      /\ book' = book /\ qty' = qty
  BY <1>1 DEF TypeInv, LocalsTyped, ledgerVars, positionVars
<1>3. ReadsAreFresh'
  BY <1>1, <1>2 DEF OneProcess, BooksInv, ReadsAreFresh
<1> QED BY <1>1, <1>3, SameBooks

LEMMA WriteSnapshotBooks ==
  ASSUME OneProcess, TypeInv, BooksInv, NEW p \in Processes, NEW d \in Dates, WriteSnapshot(p, d)
  PROVE  BooksInv'
<1>1. pc[p] = "marked" /\ End(p) /\ UNCHANGED <<ledgerVars, qty, avg>>
  BY DEF WriteSnapshot
<1>2. \A k \in Marked(p) : book[p][k].quantity = qty[k]
  BY <1>1, KeysAreFinite DEF BooksInv, ReadsAreFresh, TypeInv, LocalsTyped, Marked
<1>3. price' = [k \in Keys |-> IF k \in Marked(p) THEN marks[p][k] ELSE price[k]]
      /\ value' = [k \in Keys |-> IF k \in Marked(p) THEN book[p][k].quantity * marks[p][k]
                                  ELSE value[k]]
  BY DEF WriteSnapshot
<1>4. \A k \in Keys : value'[k] = qty[k] * price'[k]
  BY <1>2, <1>3 DEF BooksInv, ValuesAreMarked
<1>5. ValuesAreMarked'
  BY <1>1, <1>4 DEF ValuesAreMarked
<1>6. PositionsMatchLedger' /\ BooksBalance'
  BY <1>1 DEF ledgerVars, BooksInv, PositionsMatchLedger, BooksBalance
<1> QED BY <1>1, <1>5, <1>6, EndFresh DEF BooksInv

LEMMA NextBooksInv ==
  ASSUME OneProcess PROVE TypeInv /\ BooksInv /\ [Next]_vars => BooksInv'
<1> SUFFICES ASSUME TypeInv, BooksInv, [Next]_vars PROVE BooksInv'
  OBVIOUS
<1>1. CASE UNCHANGED vars
  BY <1>1 DEF vars, ledgerVars, positionVars, localVars, BooksInv, ReadsAreFresh, ValuesAreMarked,
     PositionsMatchLedger, BooksBalance
<1>2. ASSUME NEW p \in Processes, Step(p) PROVE BooksInv'
  <2>1. CASE Reject(p) \/ Abort(p)
    <3>1. End(p) /\ UNCHANGED <<ledgerVars, positionVars>>
      BY <2>1 DEF Reject, Abort
    <3> QED BY <3>1, EndFresh, SameBooks
  <2> QED BY <1>2, <2>1, StartTradeBooks, BuyBooks, SellBooks, StartSnapshotBooks, MarkBooks,
          WriteSnapshotBooks DEF Step
<1> QED BY <1>1, <1>2 DEF Next
-----------------------------------------------------------------------------
(* With one script at a time every position is exactly what the trades add *)
(* up to.                                                                  *)
THEOREM PositionsMatchLedgerTheorem ==
  ASSUME OneProcess PROVE Spec => []PositionsMatchLedger
<1>1. BooksInv => PositionsMatchLedger
  BY DEF BooksInv
<1> QED BY <1>1, InitTypeInv, NextTypeInv, InitBooksInv, NextBooksInv, PTL DEF Spec

(* With one script at a time the cash the trades replay to, with all open  *)
(* positions at cost, is the capital with what the accounts have realised. *)
THEOREM BooksBalanceTheorem == ASSUME OneProcess PROVE Spec => []BooksBalance
<1>1. BooksInv => BooksBalance
  BY DEF BooksInv
<1> QED BY <1>1, InitTypeInv, NextTypeInv, InitBooksInv, NextBooksInv, PTL DEF Spec

LEMMA Split == \A q, u, a \in Nat : q * u = q * (u - a) + q * a /\ q * (u - a) \in Int
OBVIOUS

LEMMA SnapshotReconciles ==
  ASSUME OneProcess, TypeInv, BooksInv, NEW p \in Processes, NEW d \in Dates, WriteSnapshot(p, d)
  PROVE  /\ \A e \in Dates \ {d} : nav'[e] = nav[e]
         /\ nav'[d] = InitialCapital + realized' - buyFees'
                      + SumOver([k \in Keys |-> qty'[k] * (price'[k] - avg'[k])], Keys)
<1>1. BooksInv' /\ TypeInv'
  BY WriteSnapshotBooks, WriteSnapshotTyped
<1> PICK v, C, g : v = value' /\ C = Cost'
                   /\ g = [k \in Keys |-> qty'[k] * (price'[k] - avg'[k])]
  OBVIOUS
<1>2. nav' = [nav EXCEPT ![d] = cash[p] + Sleeves(v)] /\ UNCHANGED ledgerVars /\ pc[p] = "marked"
  BY DEF WriteSnapshot
<1>3. nav'[d] = cash[p] + Sleeves(v) /\ \A e \in Dates \ {d} : nav'[e] = nav[e]
  BY <1>2 DEF TypeInv, TablesTyped
<1>4. cash[p] = InitialCapital + ledgerCash'
  BY <1>2 DEF BooksInv, ReadsAreFresh, ledgerVars
<1>5. \A k \in Keys : qty'[k] \in Nat /\ price'[k] \in Nat /\ avg'[k] \in Nat
  BY <1>1 DEF TypeInv, TablesTyped
<1>6. \A k \in Keys : v[k] = qty'[k] * price'[k] /\ C[k] = qty'[k] * avg'[k]
                      /\ g[k] = qty'[k] * (price'[k] - avg'[k])
  BY <1>1 DEF BooksInv, ValuesAreMarked, Cost
<1>7. \A k \in Keys : v[k] = g[k] + C[k] /\ g[k] \in Int /\ C[k] \in Int /\ v[k] \in Int
  <2> SUFFICES ASSUME NEW k \in Keys
               PROVE  v[k] = g[k] + C[k] /\ g[k] \in Int /\ C[k] \in Int /\ v[k] \in Int
    OBVIOUS
  <2>1. v[k] = g[k] + C[k] /\ g[k] \in Int
    BY <1>5, <1>6, Split
  <2>2. C[k] \in Nat /\ v[k] \in Nat
    BY <1>5, <1>6, Products
  <2> QED BY <2>1, <2>2
<1>8. SumOver(v, Keys) = SumOver(g, Keys) + SumOver(C, Keys)
  BY <1>7, KeysAreFinite, SumAdd
<1>9. Sleeves(v) = SumOver(v, Keys) /\ SumOver(g, Keys) \in Int /\ SumOver(C, Keys) \in Int
  BY <1>7, KeysAreFinite DEF Sleeves
<1>10. ledgerCash' + SumOver(C, Keys) = realized' - buyFees'
  BY <1>1 DEF BooksInv, BooksBalance, Cost
<1>11. ledgerCash' \in Int /\ realized' \in Int /\ buyFees' \in Nat /\ InitialCapital \in Nat
  BY <1>1, AmountsAssumption DEF TypeInv, TablesTyped
<1> PICK s, t : s = SumOver(g, Keys) /\ t = SumOver(C, Keys)
  OBVIOUS
<1>12. nav'[d] = InitialCapital + ledgerCash' + (s + t) /\ s \in Int /\ t \in Int
       /\ ledgerCash' + t = realized' - buyFees'
  BY <1>3, <1>4, <1>8, <1>9, <1>10
<1>13. nav'[d] = InitialCapital + realized' - buyFees' + s
  BY <1>11, <1>12
<1> QED BY <1>3, <1>13

(* With one script at a time the NAV of every snapshot is the one the      *)
(* profit and loss accounts give.                                          *)
THEOREM NavReconcilesTheorem == ASSUME OneProcess PROVE Spec => NavReconciles
<1>1. TypeInv /\ BooksInv /\ [Next]_vars =>
        [\A d \in Dates : nav'[d] # nav[d] =>
           nav'[d] = InitialCapital + realized' - buyFees'
                     + SumOver([k \in Keys |-> qty'[k] * (price'[k] - avg'[k])], Keys)]_vars
  <2> SUFFICES ASSUME TypeInv, BooksInv, Next, NEW d \in Dates, nav'[d] # nav[d]
               PROVE  nav'[d] = InitialCapital + realized' - buyFees'
                        + SumOver([k \in Keys |-> qty'[k] * (price'[k] - avg'[k])], Keys)
    OBVIOUS
  <2>1. UNCHANGED snapshotVars \/ \E p \in Processes, e \in Dates : WriteSnapshot(p, e)
    BY DEF Next, Step, StartTrade, Buy, Sell, Reject, Abort, StartSnapshot, Mark
  <2>2. nav' # nav
    OBVIOUS
  <2>3. PICK p \in Processes : \E e \in Dates : WriteSnapshot(p, e)
    BY <2>1, <2>2 DEF snapshotVars
  <2>4. PICK e \in Dates : WriteSnapshot(p, e)
    BY <2>3
  <2> QED BY <2>4, SnapshotReconciles
<1> QED BY <1>1, InitTypeInv, NextTypeInv, InitBooksInv, NextBooksInv, PTL DEF Spec, NavReconciles
=============================================================================
