-------------------------- MODULE CatalogStockProofs --------------------------
(***************************************************************************)
(* The stock of a site is accounted for, for any sets of skus, warehouses, *)
(* purchase orders and carts: no piece is lost but by a checkout that      *)
(* throws at a low stock alert, every checkout is covered, and no order is *)
(* checked out or charged more often than it was approved.                 *)
(*                                                                         *)
(* Stock and balance are sums over sets, and a sum is a recursive function *)
(* over the subsets of its set.  What holds of it is shown by induction    *)
(* over these subsets, with the property given as a set of them            *)
(* (SubsetInduction).                                                      *)
(***************************************************************************)
EXTENDS CatalogStock, FiniteSetTheorems, FunctionTheorems, WellFoundedInduction, TLAPS

-----------------------------------------------------------------------------
(***************************************************************************)
(* Sums                                                                    *)
(***************************************************************************)

\* Induction over the subsets of a finite set, for a property given as a set.
LEMMA SubsetInduction ==
    ASSUME NEW S, IsFiniteSet(S), NEW G,
           \A T \in SUBSET S : (\A U \in SUBSET T : U # T => U \in G) => T \in G
    PROVE  \A T \in SUBSET S : T \in G
  <1>1. IsWellFoundedOn(StrictSubsetOrdering(S), SUBSET S)
    BY FS_StrictSubsetOrderingWellFounded, FS_FiniteSubsetsOfFinite
  <1> DEFINE Bad == {T \in SUBSET S : T \notin G}
  <1>2. SUFFICES ASSUME Bad # {} PROVE FALSE
    OBVIOUS
  <1>3. PICK T \in Bad : \A U \in Bad : <<U, T>> \notin StrictSubsetOrdering(S)
    <2>1. Bad \subseteq SUBSET S
      OBVIOUS
    <2> HIDE DEF Bad
    <2> QED
      BY <1>1, <1>2, <2>1, WFMin
  <1>4. \A U \in SUBSET T : U # T => U \in G
    BY <1>3 DEF StrictSubsetOrdering
  <1> QED
    BY <1>3, <1>4

\* Induction over the numbers up to n, for a property given as a set.
LEMMA UptoInduction ==
    ASSUME NEW n \in Nat, NEW G, 0 \in G, \A m \in 0 .. n - 1 : m \in G => m + 1 \in G
    PROVE  \A m \in 0 .. n : m \in G
  <1> DEFINE H == {T \in SUBSET (1 .. n) : \A m \in 0 .. n : T = 1 .. m => m \in G}
  <1>1. IsFiniteSet(1 .. n)
    BY FS_Interval
  <1>2. ASSUME NEW T \in SUBSET (1 .. n), \A U \in SUBSET T : U # T => U \in H
        PROVE  T \in H
    <2> SUFFICES ASSUME NEW m \in 0 .. n, T = 1 .. m PROVE m \in G
      OBVIOUS
    <2>1. CASE m = 0
      BY <2>1
    <2>2. CASE m # 0
      <3>1. 1 .. m - 1 \in SUBSET T /\ m \in T /\ m \notin 1 .. m - 1
        BY <2>2
      <3>2. 1 .. m - 1 \in H
        BY <1>2, <3>1
      <3>3. m - 1 \in G
        BY <2>2, <3>2
      <3> QED
        BY <2>2, <3>3
    <2> QED
      BY <2>1, <2>2
  <1> HIDE DEF H
  <1>3. \A T \in SUBSET (1 .. n) : T \in H
    BY <1>1, <1>2, SubsetInduction
  <1>4. ASSUME NEW m \in 0 .. n PROVE m \in G
    <2>1. 1 .. m \in SUBSET (1 .. n)
      OBVIOUS
    <2>2. 1 .. m \in H
      BY <1>3, <2>1
    <2> QED
      BY <2>2 DEF H
  <1> QED
    BY <1>4

Chosen(D) == CHOOSE x \in D : TRUE

\* What the fold says the sum of g over D is, given its sums over smaller sets.
SumStep(g, sums, D) == IF D = {} THEN 0 ELSE g[Chosen(D)] + sums[D \ {Chosen(D)}]

LEMMA ChosenIn == \A D : D # {} => Chosen(D) \in D
  BY DEF Chosen

IsSum(g, S, sums) == sums = [D \in SUBSET S |-> SumStep(g, sums, D)]

LEMMA StepType ==
    ASSUME NEW S, NEW g, \A x \in S : g[x] \in Int, NEW sums \in [SUBSET S -> Int], NEW D \in SUBSET S
    PROVE  SumStep(g, sums, D) \in Int
  BY ChosenIn DEF SumStep

\* There is such a function: it is built up from the small sets to the large ones.
LEMMA SumExists ==
    ASSUME NEW S, IsFiniteSet(S), NEW g, \A x \in S : g[x] \in Int
    PROVE  \E sums \in [SUBSET S -> Int] : IsSum(g, S, sums)
  <1> DEFINE Upto(n, sums) == \A D \in SUBSET S : Cardinality(D) <= n => sums[D] = SumStep(g, sums, D)
             G == {T \in SUBSET S : \E sums \in [SUBSET S -> Int] : Upto(Cardinality(T), sums)}
  <1>0. \A D \in SUBSET S : IsFiniteSet(D) /\ Cardinality(D) \in Nat /\ Cardinality(D) <= Cardinality(S)
    BY FS_Subset, FS_CardinalityType
  <1>1. ASSUME NEW T \in SUBSET S, \A U \in SUBSET T : U # T => U \in G
        PROVE  T \in G
    <2>1. CASE T = {}
      <3> DEFINE zero == [D \in SUBSET S |-> 0]
      <3>1. zero \in [SUBSET S -> Int]
        OBVIOUS
      <3>2. ASSUME NEW D \in SUBSET S, Cardinality(D) <= 0
            PROVE  D = {}
        BY <1>0, <3>2, FS_EmptySet
      <3>3. Upto(0, zero)
        BY <3>2 DEF SumStep
      <3> QED
        BY <2>1, <3>1, <3>3, FS_EmptySet
    <2>2. CASE T # {}
      <3>1. PICK U \in SUBSET T : U # T /\ Cardinality(T) = Cardinality(U) + 1
        <4>1. Chosen(T) \in T
          BY <2>2, ChosenIn
        <4>2. Cardinality(T \ {Chosen(T)}) = Cardinality(T) - 1
          BY <1>0, <4>1, FS_RemoveElement
        <4> QED
          BY <1>0, <4>1, <4>2
      <3>2. PICK sums \in [SUBSET S -> Int] : Upto(Cardinality(U), sums)
        BY <1>1, <3>1
      <3> DEFINE next == [D \in SUBSET S |-> SumStep(g, sums, D)]
      <3>3. next \in [SUBSET S -> Int]
        BY StepType
      <3>4. ASSUME NEW D \in SUBSET S, Cardinality(D) <= Cardinality(T)
            PROVE  next[D] = SumStep(g, next, D)
        <4>1. CASE D = {}
          BY <4>1 DEF SumStep
        <4>2. CASE D # {}
          <5>1. Chosen(D) \in D
            BY <4>2, ChosenIn
          <5>2. Cardinality(D \ {Chosen(D)}) = Cardinality(D) - 1
            BY <1>0, <5>1, FS_RemoveElement
          <5>3. Cardinality(D \ {Chosen(D)}) <= Cardinality(U)
            BY <1>0, <3>1, <3>4, <5>2
          <5>4. next[D \ {Chosen(D)}] = sums[D \ {Chosen(D)}]
            BY <3>2, <5>3
          <5> QED
            BY <4>2, <5>4 DEF SumStep
        <4> QED
          BY <4>1, <4>2
      <3> QED
        BY <3>3, <3>4
    <2> QED
      BY <2>1, <2>2
  <1>2. S \in G
    <2> HIDE DEF G
    <2> QED
      BY <1>1, SubsetInduction
  <1>3. PICK sums \in [SUBSET S -> Int] : Upto(Cardinality(S), sums)
    BY <1>2
  <1>4. \A D \in SUBSET S : sums[D] = SumStep(g, sums, D)
    BY <1>0, <1>3
  <1>5. sums = [D \in SUBSET S |-> SumStep(g, sums, D)]
    BY <1>4
  <1> QED
    BY <1>5 DEF IsSum

\* and only one, whatever the set it is restricted to.
LEMMA SumUnique ==
    ASSUME NEW S, IsFiniteSet(S), NEW g, NEW a, NEW b, NEW R, S \subseteq R, IsSum(g, S, a), IsSum(g, R, b)
    PROVE  a[S] = b[S]
  <1> DEFINE G == {T \in SUBSET S : a[T] = b[T]}
  <1>1. ASSUME NEW T \in SUBSET S, \A U \in SUBSET T : U # T => U \in G
        PROVE  T \in G
    <2>1. a[T] = SumStep(g, a, T) /\ b[T] = SumStep(g, b, T)
      BY DEF IsSum
    <2>2. CASE T = {}
      BY <2>1, <2>2 DEF SumStep
    <2>3. CASE T # {}
      <3>1. Chosen(T) \in T
        BY <2>3, ChosenIn
      <3>2. T \ {Chosen(T)} \in G
        BY <1>1, <3>1
      <3> QED
        BY <2>1, <2>3, <3>2 DEF SumStep
    <2> QED
      BY <2>2, <2>3
  <1> HIDE DEF G
  <1>2. S \in G
    BY <1>1, SubsetInduction
  <1> QED
    BY <1>2 DEF G

\* The sum of the community modules is that function at S.
LEMMA TotalIsSum ==
    ASSUME NEW S, IsFiniteSet(S), NEW g, \A x \in S : g[x] \in Int
    PROVE  \E sums : IsSum(g, S, sums) /\ Total(g, S) = sums[S]
  <1>1. \E sums : IsSum(g, S, sums)
    BY SumExists
  <1> QED
    BY <1>1 DEF Total, MapThenSumSet, MapThenFoldSet, IsSum, SumStep, Chosen


\* The sums over the subsets of one set are the values of one such function.
SumsOf(g, S, sums) ==
    /\ sums \in [SUBSET S -> Int]
    /\ \A T \in SUBSET S : Total(g, T) = sums[T] /\ sums[T] = SumStep(g, sums, T)

LEMMA TotalsOf ==
    ASSUME NEW S, IsFiniteSet(S), NEW g, \A x \in S : g[x] \in Int
    PROVE  \E sums : SumsOf(g, S, sums)
  <1>1. PICK sums \in [SUBSET S -> Int] : IsSum(g, S, sums)
    BY SumExists
  <1>2. ASSUME NEW T \in SUBSET S PROVE Total(g, T) = sums[T]
    <2>1. IsFiniteSet(T)
      BY FS_Subset
    <2>2. PICK part : IsSum(g, T, part) /\ Total(g, T) = part[T]
      BY <2>1, TotalIsSum
    <2> QED
      BY <1>1, <2>1, <2>2, SumUnique
  <1> QED
    BY <1>1, <1>2 DEF IsSum, SumsOf

LEMMA TotalEmpty == \A g : Total(g, {}) = 0
  <1> SUFFICES ASSUME NEW g PROVE Total(g, {}) = 0
    OBVIOUS
  <1>1. PICK sums : IsSum(g, {}, sums) /\ Total(g, {}) = sums[{}]
    BY FS_EmptySet, TotalIsSum
  <1> QED
    BY <1>1 DEF IsSum, SumStep

LEMMA TotalInt ==
    ASSUME NEW S, IsFiniteSet(S), NEW g, \A x \in S : g[x] \in Int
    PROVE  Total(g, S) \in Int
  <1>1. PICK sums : SumsOf(g, S, sums)
    BY TotalsOf
  <1> QED
    BY <1>1 DEF SumsOf

\* A member counts once, whichever is chosen first.
LEMMA TotalLess ==
    ASSUME NEW S, IsFiniteSet(S), NEW g, \A x \in S : g[x] \in Int, NEW x \in S
    PROVE  Total(g, S) = Total(g, S \ {x}) + g[x]
  <1>0. PICK sums : SumsOf(g, S, sums)
    BY TotalsOf
  <1>1. /\ sums \in [SUBSET S -> Int]
        /\ \A T \in SUBSET S : Total(g, T) = sums[T] /\ sums[T] = SumStep(g, sums, T)
    BY <1>0 DEF SumsOf
  <1> DEFINE G == {T \in SUBSET S : \A y \in T : sums[T] = sums[T \ {y}] + g[y]}
  <1>2. ASSUME NEW T \in SUBSET S, \A U \in SUBSET T : U # T => U \in G
        PROVE  T \in G
    <2> SUFFICES ASSUME NEW y \in T PROVE sums[T] = sums[T \ {y}] + g[y]
      OBVIOUS
    <2> DEFINE c == Chosen(T)
    <2>1. c \in T
      BY ChosenIn
    <2>2. sums[T] = g[c] + sums[T \ {c}]
      BY <1>1, <2>1 DEF SumStep
    <2> HIDE DEF c
    <2>0. g[c] \in Int /\ g[y] \in Int /\ \A D \in SUBSET S : sums[D] \in Int
      BY <1>1, <2>1
    <2>3. CASE c = y
      BY <2>0, <2>1, <2>2, <2>3
    <2>4. CASE c # y
      <3>1. T \ {c} \in G /\ T \ {y} \in G
        BY <1>2, <2>1
      <3>2. sums[T \ {c}] = sums[(T \ {c}) \ {y}] + g[y]
        BY <2>4, <3>1
      <3>3. sums[T \ {y}] = sums[(T \ {y}) \ {c}] + g[c]
        BY <2>1, <2>4, <3>1
      <3>4. (T \ {c}) \ {y} = (T \ {y}) \ {c} /\ (T \ {c}) \ {y} \in SUBSET S
        OBVIOUS
      <3>5. /\ sums[(T \ {c}) \ {y}] \in Int
            /\ sums[T \ {c}] \in Int /\ sums[T \ {y}] \in Int
        BY <2>0, <3>4
      <3>6. sums[T \ {y}] = sums[(T \ {c}) \ {y}] + g[c]
        BY <3>3, <3>4
      <3> HIDE DEF G
      <3> QED
        BY <2>0, <2>2, <3>2, <3>5, <3>6
    <2> QED
      BY <2>3, <2>4
  <1> HIDE DEF G
  <1>3. S \in G
    BY <1>2, SubsetInduction
  <1> QED
    BY <1>1, <1>3 DEF G

LEMMA TotalMore ==
    ASSUME NEW S, IsFiniteSet(S), NEW x, x \notin S,
           NEW g, \A y \in S \cup {x} : g[y] \in Int
    PROVE  Total(g, S \cup {x}) = Total(g, S) + g[x]
  <1>1. IsFiniteSet(S \cup {x})
    BY FS_AddElement
  <1>2. Total(g, S \cup {x}) = Total(g, (S \cup {x}) \ {x}) + g[x]
    BY <1>1, TotalLess
  <1>3. (S \cup {x}) \ {x} = S
    OBVIOUS
  <1> QED
    BY <1>2, <1>3

\* The sum depends on the summands only.
LEMMA TotalSame ==
    ASSUME NEW S, IsFiniteSet(S), NEW g, NEW h, \A x \in S : g[x] \in Int /\ h[x] = g[x]
    PROVE  Total(h, S) = Total(g, S)
  <1> DEFINE G == {T \in SUBSET S : Total(h, T) = Total(g, T)}
  <1>1. ASSUME NEW T \in SUBSET S, \A U \in SUBSET T : U # T => U \in G
        PROVE  T \in G
    <2>1. CASE T = {}
      BY <2>1, TotalEmpty
    <2>2. CASE T # {}
      <3>1. PICK x \in T : TRUE
        BY <2>2
      <3>2. IsFiniteSet(T)
        BY FS_Subset
      <3>3. Total(g, T) = Total(g, T \ {x}) + g[x] /\ Total(h, T) = Total(h, T \ {x}) + h[x]
        BY <3>2, TotalLess
      <3>4. T \ {x} \in G
        BY <1>1
      <3> QED
        BY <3>3, <3>4
    <2> QED
      BY <2>1, <2>2
  <1> HIDE DEF G
  <1>2. S \in G
    BY <1>1, SubsetInduction
  <1> QED
    BY <1>2 DEF G

\* A sum of natural numbers is one.
LEMMA TotalNat ==
    ASSUME NEW S, IsFiniteSet(S), NEW g, \A x \in S : g[x] \in Nat
    PROVE  Total(g, S) \in Nat
  <1> DEFINE G == {T \in SUBSET S : Total(g, T) \in Nat}
  <1>1. ASSUME NEW T \in SUBSET S, \A U \in SUBSET T : U # T => U \in G
        PROVE  T \in G
    <2>1. CASE T = {}
      BY <2>1, TotalEmpty
    <2>2. CASE T # {}
      <3>1. PICK x \in T : TRUE
        BY <2>2
      <3>2. IsFiniteSet(T)
        BY FS_Subset
      <3>3. Total(g, T) = Total(g, T \ {x}) + g[x]
        BY <3>2, TotalLess
      <3>4. T \ {x} \in G
        BY <1>1
      <3> QED
        BY <3>3, <3>4
    <2> QED
      BY <2>1, <2>2
  <1> HIDE DEF G
  <1>2. S \in G
    BY <1>1, SubsetInduction
  <1> QED
    BY <1>2 DEF G

-----------------------------------------------------------------------------
(***************************************************************************)
(* The inductive invariant                                                 *)
(***************************************************************************)

Reservation == [items : Carts, released : BOOLEAN, shipped : Nat]
Note == [sku : Skus, qty : Nat, source : {"reserve", "po"}, ref : Checkouts \cup {None}]

Shapes ==
    /\ stock \in Shelf
    /\ policies \in [Skus -> [allow_backorder : BOOLEAN, low_stock_threshold : Nat]]
    /\ pos \in [POs -> PurchaseOrder \cup {None}]
    /\ terms \in Terms \cup {None}
    /\ checkouts \in [Checkouts -> Checkout \cup {None}]
    /\ backorders \subseteq Note /\ cleared \subseteq Note
    /\ reservations \in [Orders -> Reservation \cup {None}]
    /\ returns \in [Returns -> [items : Carts, status : ReturnStatuses \cup
                                   {"requested", "refunded"}] \cup {None}]
    /\ supply \in [Skus -> [Warehouses -> Int]]
    /\ leaked \subseteq Skus
    /\ lowered \in BOOLEAN
    /\ IsFiniteSet(Made)

\* The pieces on the shelves and in the checkouts are those that were brought in.
Balanced ==
    \A s \in Skus \ leaked, w \in Warehouses :
        stock[s][w] + InCheckouts(s, w) = supply[s][w]

\* A reservation that is not released has not been shipped.
ShippedOnce ==
    \A o \in Orders : reservations[o] # None =>
        reservations[o].shipped = IF reservations[o].released THEN 1 ELSE 0

NotesOf(c, s) == {n \in backorders \cup cleared : n.ref = c /\ n.sku = s}

Due(c, s, owed) ==
    IF owed = 0 THEN {} ELSE {[sku |-> s, qty |-> owed, source |-> "po", ref |-> c]}

\* A checkout covers its cart, the notes made for it are those it is due, and no
\* note names a checkout that was not made.
Covered ==
    /\ \A c \in Made, s \in Skus :
          /\ Sum(checkouts[c].reserve[s]) + checkouts[c].backorders[s] = checkouts[c].items[s]
          /\ NotesOf(c, s) = Due(c, s, checkouts[c].backorders[s])
    /\ \A b \in backorders \cup cleared : b.ref # None => b.ref \in Made

MadeFor(o) == {c \in Made : checkouts[c].poId = o}

\* Every checkout has used up an approval; an order that may be checked out has one left.
Approved ==
    \A o \in POs :
        /\ pos[o] = None => MadeFor(o) = {}
        /\ pos[o] # None =>
              /\ Cardinality(MadeFor(o)) <= pos[o].approved
              /\ pos[o].status = "approved" => Cardinality(MadeFor(o)) < pos[o].approved

OnCredit == {c \in Made : checkouts[c].charged}

\* The balance is what was charged, and nothing is charged without terms.
Owed ==
    /\ terms = None => OnCredit = {}
    /\ terms # None =>
          /\ terms.balance = Total([c \in Made |-> Pieces(checkouts[c].items)], OnCredit)
          /\ terms.balance <= terms.limit \/ lowered

StockInv == Shapes /\ Balanced /\ ShippedOnce /\ Covered /\ Approved /\ Owed

-----------------------------------------------------------------------------
(***************************************************************************)
(* Plans and carts                                                         *)
(***************************************************************************)

LEMMA SumNat == \A f \in [Warehouses -> Nat] : Sum(f) \in Nat
  BY TotalNat, StockAssumption DEF Sum

LEMMA PiecesNat == \A cart \in [Skus -> Nat] : Pieces(cart) \in Nat
  BY TotalNat, StockAssumption DEF Pieces

Seen(place, k) == {w \in Warehouses : place[w] <= k}

\* What the loop over the warehouses has found after k of them is what is no longer
\* needed.
LEMMA WalkFinds ==
    ASSUME NEW qty \in Nat, NEW s \in Skus, stock \in Shelf,
           NEW place \in Bijection(Warehouses, 1 .. N), NEW needed \in Walks(s, qty, place),
           NEW take, take = [w \in Warehouses |-> needed[place[w] - 1] - needed[place[w]]]
    PROVE  /\ needed[N] \in Nat /\ Sum(take) + needed[N] = qty
           /\ take \in [Warehouses -> Nat] /\ \A w \in Warehouses : take[w] <= stock[s][w]
  <1>1. /\ N \in Nat /\ place \in [Warehouses -> 1 .. N]
        /\ \A v, w \in Warehouses : place[v] = place[w] => v = w
        /\ \A i \in 1 .. N : \E w \in Warehouses : place[w] = i
    BY FS_CardinalityType, StockAssumption DEF N, Bijection, Injection, Surjection, IsInjective
  <1>2. /\ needed \in [0 .. N -> 0 .. qty] /\ needed[0] = qty
        /\ \A w \in Warehouses : needed[place[w]]
              = needed[place[w] - 1] - Smaller(stock[s][w], needed[place[w] - 1])
    BY DEF Walks
  <1>3. ASSUME NEW w \in Warehouses
        PROVE  take[w] \in Nat /\ take[w] <= stock[s][w]
    <2>1. place[w] \in 0 .. N /\ place[w] - 1 \in 0 .. N
      BY <1>1
    <2>2. needed[place[w]] \in Nat /\ needed[place[w] - 1] \in Nat /\ stock[s][w] \in Nat
      BY <1>2, <2>1 DEF Shelf
    <2>3. take[w] = Smaller(stock[s][w], needed[place[w] - 1])
      BY <1>2, <2>2 DEF Smaller
    <2> QED
      BY <2>2, <2>3 DEF Smaller
  <1> DEFINE G == {k \in 0 .. N : Total(take, Seen(place, k)) + needed[k] = qty}
  <1>4. 0 \in G
    <2>1. Seen(place, 0) = {}
      BY <1>1 DEF Seen
    <2>2. Total(take, Seen(place, 0)) = 0
      BY <2>1, TotalEmpty
    <2>3. 0 \in 0 .. N /\ 0 + needed[0] = qty
      BY <1>1, <1>2
    <2> QED
      BY <2>2, <2>3
  <1>5. ASSUME NEW k \in 0 .. N - 1, k \in G
        PROVE  k + 1 \in G
    <2>0. k \in 0 .. N /\ k + 1 \in 0 .. N
      BY <1>1
    <2>1. PICK w \in Warehouses : place[w] = k + 1
      BY <1>1
    <2>2. w \notin Seen(place, k) /\ Seen(place, k + 1) = Seen(place, k) \cup {w}
      BY <1>1, <2>0, <2>1 DEF Seen
    <2>3. PICK T : T = Seen(place, k)
      OBVIOUS
    <2>4. IsFiniteSet(T) /\ \A v \in T \cup {w} : take[v] \in Int
      BY <1>3, <2>3, FS_Subset, StockAssumption DEF Seen
    <2>5. Total(take, T \cup {w}) = Total(take, T) + take[w] /\ Total(take, T) \in Int
      BY <2>2, <2>3, <2>4, TotalMore, TotalInt
    <2>6. take[w] = needed[k] - needed[k + 1] /\ needed[k] \in Nat /\ needed[k + 1] \in Nat
      <3>1. needed[k] \in 0 .. qty /\ needed[k + 1] \in 0 .. qty
        BY <1>2, <2>0
      <3>2. place[w] - 1 = k
        BY <2>0, <2>1
      <3> QED
        BY <2>1, <3>1, <3>2
    <2>7. Total(take, T) + needed[k] = qty
      BY <1>5, <2>3
    <2>8. Total(take, T \cup {w}) + needed[k + 1] = qty
      BY <2>5, <2>6, <2>7
    <2> QED
      BY <2>0, <2>2, <2>3, <2>8
  <1>6. N \in G
    <2> HIDE DEF G
    <2>1. PICK n \in Nat : n = N
      BY <1>1
    <2>2. \A k \in 0 .. n - 1 : k \in G => k + 1 \in G
      BY <1>5, <2>1
    <2>3. \A k \in 0 .. n : k \in G
      BY <1>4, <2>2, UptoInduction
    <2> QED
      BY <2>1, <2>3
  <1>7. Seen(place, N) = Warehouses
    BY <1>1 DEF Seen
  <1>8. Sum(take) + needed[N] = qty
    BY <1>6, <1>7 DEF Sum
  <1>9. needed[N] \in Nat
    BY <1>1, <1>2
  <1>10. take \in [Warehouses -> Nat]
    BY <1>3
  <1> QED
    BY <1>3, <1>8, <1>9, <1>10

Takes(plan) == [s \in Skus |-> plan[s].take]
Shorts(plan) == [s \in Skus |-> plan[s].short]

\* A plan takes pieces that are on the shelves, and what is short of the cart is
\* what it does not find there.
LEMMA PlanFits ==
    ASSUME Shapes, NEW cart \in Carts, NEW plan \in Plans(cart)
    PROVE  /\ Takes(plan) \in Shelf /\ Shorts(plan) \in [Skus -> Nat]
           /\ \A s \in Skus :
                 /\ plan[s].take \in [Warehouses -> Nat] /\ plan[s].short \in Nat
                 /\ \A w \in Warehouses : plan[s].take[w] <= stock[s][w]
                 /\ Sum(plan[s].take) + plan[s].short = cart[s]
  <1>1. cart \in [Skus -> Nat] /\ stock \in Shelf
    BY StockAssumption DEF Shapes
  <1>2. PICK place \in Bijection(Warehouses, 1 .. N) :
           \A s \in Skus : plan[s] \in Takings(s, cart[s], place)
    BY DEF Plans
  <1>3. ASSUME NEW s \in Skus
        PROVE  /\ plan[s].take \in [Warehouses -> Nat] /\ plan[s].short \in Nat
               /\ \A w \in Warehouses : plan[s].take[w] <= stock[s][w]
               /\ Sum(plan[s].take) + plan[s].short = cart[s]
    <2>1. PICK needed \in Walks(s, cart[s], place) :
             /\ plan[s].take = [w \in Warehouses |-> needed[place[w] - 1] - needed[place[w]]]
             /\ plan[s].short = needed[N]
      <3>1. plan[s] \in Takings(s, cart[s], place)
        BY <1>2
      <3>2. PICK needed \in Walks(s, cart[s], place) :
               plan[s] = [take |-> [w \in Warehouses |-> needed[place[w] - 1] - needed[place[w]]],
                          short |-> needed[N]]
        BY <3>1 DEF Takings
      <3> QED
        BY <3>2
    <2>2. PICK take : take = plan[s].take
      OBVIOUS
    <2>3. cart[s] \in Nat
      BY <1>1
    <2>4. PICK qty \in Nat : qty = cart[s]
      BY <2>3
    <2>5. /\ needed[N] \in Nat /\ Sum(take) + needed[N] = qty
          /\ take \in [Warehouses -> Nat] /\ \A w \in Warehouses : take[w] <= stock[s][w]
      BY <1>1, <2>1, <2>2, <2>4, WalkFinds
    <2> QED
      BY <2>1, <2>2, <2>4, <2>5
  <1> QED
    BY <1>3 DEF Takes, Shorts, Shelf

\* What a plan leaves on the shelves is no less than nothing.
LEMMA WithoutFits ==
    ASSUME Shapes, NEW cart \in Carts, NEW plan \in Plans(cart), NEW skus
    PROVE  Without(plan, skus) \in Shelf
  <1>1. ASSUME NEW s \in Skus, NEW w \in Warehouses
        PROVE  stock[s][w] \in Nat /\ stock[s][w] - plan[s].take[w] \in Nat
    <2>1. plan[s].take[w] \in Nat /\ plan[s].take[w] <= stock[s][w] /\ stock[s][w] \in Nat
      BY PlanFits DEF Shapes, Shelf
    <2> QED
      BY <2>1
  <1> QED
    BY <1>1 DEF Without, Shelf

\* The notes about what is short.
LEMMA RecordedFits ==
    ASSUME Shapes, NEW cart \in Carts, NEW plan \in Plans(cart), NEW skus \in SUBSET Skus,
           NEW source \in {"reserve", "po"}, NEW ref \in Checkouts \cup {None}
    PROVE  Recorded(cart, plan, skus, source, ref) \subseteq Note
  <1>1. \A s \in Skus : plan[s].short \in Nat
    BY PlanFits
  <1> QED
    BY <1>1 DEF Recorded, Short, Note

\* Of each sku that is short one note is made, and none of the others.
LEMMA RecordedDue ==
    ASSUME Shapes, NEW cart \in Carts, NEW plan \in Plans(cart), NEW s \in Skus, NEW c
    PROVE  {n \in Recorded(cart, plan, Skus, "po", c) : n.ref = c /\ n.sku = s}
              = Due(c, s, plan[s].short)
  <1>1. \A t \in Skus : plan[t].short \in Nat
    BY PlanFits
  <1>2. CASE plan[s].short = 0
    <2>1. \A n \in Recorded(cart, plan, Skus, "po", c) : n.sku # s
      BY <1>2 DEF Recorded, Short
    <2> QED
      BY <1>2, <2>1 DEF Due
  <1>3. CASE plan[s].short # 0
    <2> DEFINE note == [sku |-> s, qty |-> plan[s].short, source |-> "po", ref |-> c]
    <2>1. note \in Recorded(cart, plan, Skus, "po", c) /\ note.ref = c /\ note.sku = s
      BY <1>1, <1>3 DEF Recorded, Short
    <2>2. \A n \in Recorded(cart, plan, Skus, "po", c) : n.sku = s => n = note
      BY DEF Recorded
    <2>3. Due(c, s, plan[s].short) = {note}
      BY <1>3 DEF Due
    <2> HIDE DEF note
    <2> QED
      BY <2>1, <2>2, <2>3
  <1> QED
    BY <1>2, <1>3

\* Carts moved onto the shelves and off them.
LEMMA AdjustedFits ==
    ASSUME Shapes, NEW cart \in Carts, NEW sign \in {1, -1}
    PROVE  Adjusted(cart, sign) \in Shelf
  <1>1. cart \in [Skus -> Nat]
    BY StockAssumption
  <1>2. ASSUME NEW s \in Skus
        PROVE  Adjusted(cart, sign)[s] \in [Warehouses -> Nat]
    <2>1. stock[s] \in [Warehouses -> Nat] /\ cart[s] \in Nat /\ Default \in Warehouses
      BY <1>1, StockAssumption DEF Shapes, Shelf
    <2>2. sign * cart[s] \in Int
      BY <2>1
    <2> QED
      BY <2>1, <2>2 DEF Adjusted
  <1> QED
    BY <1>2 DEF Adjusted, Shelf

-----------------------------------------------------------------------------
(***************************************************************************)
(* What an action leaves alone                                             *)
(***************************************************************************)

LEMMA SameMade ==
    ASSUME checkouts' = checkouts
    PROVE  /\ Made' = Made /\ OnCredit' = OnCredit
           /\ \A o \in POs : MadeFor(o)' = MadeFor(o)
           /\ \A s \in Skus, w \in Warehouses : InCheckouts(s, w)' = InCheckouts(s, w)
  BY DEF Made, MadeFor, OnCredit, InCheckouts

LEMMA BalancedKept ==
    ASSUME Balanced, UNCHANGED <<stock, checkouts, supply, leaked>>
    PROVE  Balanced'
  BY SameMade DEF Balanced

LEMMA ShippedKept ==
    ASSUME ShippedOnce, UNCHANGED reservations
    PROVE  ShippedOnce'
  BY DEF ShippedOnce

LEMMA CoveredKept ==
    ASSUME Covered, UNCHANGED checkouts, None \notin Checkouts,
           \A b \in backorders \cup cleared : b \in backorders' \cup cleared',
           \A b \in backorders' \cup cleared' : b \in backorders \cup cleared \/ b.ref = None
    PROVE  Covered'
  <1>1. \A c \in Made, s \in Skus : NotesOf(c, s)' = NotesOf(c, s)
    <2>1. \A c \in Made : c # None
      BY DEF Made
    <2> QED
      BY <2>1 DEF NotesOf
  <1> QED
    BY <1>1, SameMade DEF Covered, Due

LEMMA CoveredSame ==
    ASSUME Covered, UNCHANGED <<checkouts, noteVars>>
    PROVE  Covered'
  BY SameMade DEF Covered, NotesOf, Due, noteVars

LEMMA ApprovedKept ==
    ASSUME Approved, UNCHANGED <<pos, checkouts>>
    PROVE  Approved'
  BY SameMade DEF Approved

LEMMA OwedKept ==
    ASSUME Owed, UNCHANGED <<terms, checkouts, lowered>>
    PROVE  Owed'
  BY SameMade DEF Owed

LEMMA InCheckoutsNat ==
    ASSUME Shapes, NEW s \in Skus, NEW w \in Warehouses
    PROVE  InCheckouts(s, w) \in Nat
  <1> DEFINE held == [c \in Made |-> checkouts[c].reserve[s][w]]
  <1>1. \A c \in Made : held[c] \in Nat
    BY DEF Shapes, Made, Checkout, Shelf
  <1> HIDE DEF held
  <1>2. Total(held, Made) \in Nat
    BY <1>1, TotalNat DEF Shapes
  <1> QED
    BY <1>2 DEF InCheckouts, held

\* Pieces that come in or go out change the supply by as many.
LEMMA MovesBalance ==
    ASSUME Shapes, Balanced, NEW after \in Shelf, Moves(after), UNCHANGED <<checkouts, leaked>>
    PROVE  Balanced' /\ stock' \in Shelf /\ supply' \in [Skus -> [Warehouses -> Int]]
  <1>1. ASSUME NEW s \in Skus, NEW w \in Warehouses
        PROVE  /\ stock[s][w] \in Nat /\ after[s][w] \in Nat /\ supply[s][w] \in Int
               /\ s \notin leaked => supply'[s][w] = supply[s][w] + after[s][w] - stock[s][w]
               /\ supply'[s][w] \in Int
    BY DEF Shapes, Shelf, Moves
  <1>2. supply' \in [Skus -> [Warehouses -> Int]]
    BY <1>1 DEF Moves
  <1>3. Balanced'
    <2> SUFFICES ASSUME NEW s \in Skus \ leaked, NEW w \in Warehouses
                 PROVE  stock'[s][w] + InCheckouts(s, w) = supply'[s][w]
      BY SameMade DEF Balanced
    <2>1. stock[s][w] + InCheckouts(s, w) = supply[s][w]
      BY DEF Balanced
    <2>2. InCheckouts(s, w) \in Int
      BY InCheckoutsNat
    <2> QED
      BY <1>1, <2>1, <2>2 DEF Moves
  <1> QED
    BY <1>2, <1>3 DEF Moves

-----------------------------------------------------------------------------
(***************************************************************************)
(* Inventory and policies                                                  *)
(***************************************************************************)

LEMMA SetInventoryInv ==
    ASSUME StockInv, NEW s \in Skus, NEW w \in Warehouses, NEW qty \in Counts,
           SetInventory(s, w, qty)
    PROVE  StockInv'
  <1> USE DEF StockInv
  <1>1. [stock EXCEPT ![s][w] = qty] \in Shelf
    BY StockAssumption DEF Shapes, Shelf
  <1>2. Balanced' /\ stock' \in Shelf /\ supply' \in [Skus -> [Warehouses -> Int]]
    BY <1>1, MovesBalance DEF SetInventory, poVars, noteVars
  <1>3. Shapes'
    BY <1>2, SameMade DEF SetInventory, Shapes, poVars, goodsVars, noteVars
  <1> QED
    BY <1>2, <1>3, ShippedKept, CoveredSame, ApprovedKept, OwedKept
       DEF SetInventory, poVars, goodsVars, noteVars

LEMMA SetStockPolicyInv ==
    ASSUME StockInv, NEW s \in Skus, NEW allow \in BOOLEAN, NEW low \in Thresholds,
           SetStockPolicy(s, allow, low)
    PROVE  StockInv'
  <1> USE DEF StockInv
  <1>1. Shapes'
    BY SameMade, StockAssumption DEF SetStockPolicy, Shapes, poVars, goodsVars, noteVars
  <1> QED
    BY <1>1, BalancedKept, ShippedKept, CoveredSame, ApprovedKept, OwedKept
       DEF SetStockPolicy, poVars, goodsVars, noteVars

LEMMA ListedInv ==
    ASSUME StockInv, NEW left \in SUBSET backorders, Listed(left),
           UNCHANGED <<stock, policies, supply, leaked, lowered, poVars, goodsVars>>
    PROVE  StockInv'
  <1> USE DEF StockInv
  <1>1. backorders' = left /\ cleared' = cleared \cup (backorders \ left)
    BY DEF Listed
  <1>2. UNCHANGED <<stock, policies, supply, leaked, lowered, pos, terms, checkouts,
                    reservations, returns>>
    BY DEF poVars, goodsVars
  <1>3. Shapes'
    BY <1>1, <1>2, SameMade DEF Shapes
  <1>4. Covered'
    BY <1>1, <1>2, CoveredKept, StockAssumption
  <1> QED
    BY <1>2, <1>3, <1>4, BalancedKept, ShippedKept, ApprovedKept, OwedKept

LEMMA ListBackordersInv ==
    ASSUME StockInv, ListBackordersClear
    PROVE  StockInv'
  BY ListedInv DEF ListBackordersClear

LEMMA CleanupRetentionInv ==
    ASSUME StockInv, NEW old \in SUBSET backorders, CleanupRetention(old)
    PROVE  StockInv'
  <1>1. backorders \ old \in SUBSET backorders
    OBVIOUS
  <1> QED
    BY <1>1, ListedInv DEF CleanupRetention

-----------------------------------------------------------------------------
(***************************************************************************)
(* Reservations, shipments and returns                                     *)
(***************************************************************************)

LEMMA SetReservationInv ==
    ASSUME StockInv, NEW o \in Orders, NEW cart \in Carts, SetInventoryReservation(o, cart)
    PROVE  StockInv'
  <1> USE DEF StockInv
  <1>1. Reserved(cart) \in Reservation /\ Reserved(cart).shipped = 0 /\ ~Reserved(cart).released
    BY DEF Reserved, Reservation
  <1>2. Shapes'
    BY <1>1, SameMade DEF SetInventoryReservation, Shapes, poVars, noteVars
  <1>3. ShippedOnce'
    BY <1>1 DEF SetInventoryReservation, ShippedOnce, Shapes
  <1> QED
    BY <1>2, <1>3, BalancedKept, CoveredSame, ApprovedKept, OwedKept
       DEF SetInventoryReservation, poVars, noteVars

LEMMA SyncShipmentInv ==
    ASSUME StockInv, NEW o \in Orders, SyncShipment(o)
    PROVE  StockInv'
  <1> USE DEF StockInv
  <1>1. reservations[o] \in Reservation /\ reservations[o].shipped = 0
    BY DEF SyncShipment, Shapes, ShippedOnce, Reservation
  <1>2. Adjusted(reservations[o].items, -1) \in Shelf
    BY <1>1, AdjustedFits DEF Reservation
  <1>3. Balanced' /\ stock' \in Shelf /\ supply' \in [Skus -> [Warehouses -> Int]]
    BY <1>2, MovesBalance DEF SyncShipment, poVars, noteVars
  <1> DEFINE shipped == [reservations[o] EXCEPT !.released = TRUE, !.shipped = @ + 1]
  <1>4. shipped \in Reservation /\ shipped.released /\ shipped.shipped = 1
    <2> DEFINE released == [reservations[o] EXCEPT !.released = TRUE]
    <2>1. released \in Reservation /\ released.released /\ released.shipped = 0
      BY <1>1 DEF Reservation
    <2>2. shipped = [released EXCEPT !.shipped = @ + 1]
      BY <1>1 DEF Reservation
    <2> HIDE DEF released, shipped
    <2> QED
      BY <2>1, <2>2 DEF Reservation
  <1>5. reservations' = [reservations EXCEPT ![o] = shipped]
    BY DEF SyncShipment, Released, Shapes
  <1> HIDE DEF shipped
  <1>6. Shapes'
    BY <1>3, <1>4, <1>5, SameMade DEF SyncShipment, Shapes, poVars, noteVars
  <1>7. ShippedOnce'
    BY <1>4, <1>5 DEF ShippedOnce, Shapes
  <1> QED
    BY <1>3, <1>6, <1>7, CoveredSame, ApprovedKept, OwedKept DEF SyncShipment, poVars, noteVars

LEMMA SyncReturnInv ==
    ASSUME StockInv, NEW o \in Orders, SyncReturn(o)
    PROVE  StockInv'
  <1> USE DEF StockInv
  <1>1. Adjusted(reservations[o].items, 1) \in Shelf
    BY AdjustedFits DEF SyncReturn, Shapes, Reservation
  <1>2. Balanced' /\ stock' \in Shelf /\ supply' \in [Skus -> [Warehouses -> Int]]
    BY <1>1, MovesBalance DEF SyncReturn, poVars, noteVars
  <1>3. Shapes'
    BY <1>2, SameMade DEF SyncReturn, Shapes, poVars, goodsVars, noteVars
  <1> QED
    BY <1>2, <1>3, ShippedKept, CoveredSame, ApprovedKept, OwedKept
       DEF SyncReturn, poVars, goodsVars, noteVars

LEMMA RequestReturnInv ==
    ASSUME StockInv, NEW r \in Returns, NEW cart \in Carts, RequestReturn(r, cart)
    PROVE  StockInv'
  <1> USE DEF StockInv
  <1>1. Shapes'
    BY SameMade DEF RequestReturn, Shapes, poVars, noteVars
  <1> QED
    BY <1>1, BalancedKept, ShippedKept, CoveredSame, ApprovedKept, OwedKept
       DEF RequestReturn, poVars, noteVars

LEMMA UpdateReturnInv ==
    ASSUME StockInv, NEW r \in Returns, NEW status \in ReturnStatuses, UpdateReturn(r, status)
    PROVE  StockInv'
  <1> USE DEF StockInv
  <1>1. Shapes'
    BY SameMade DEF UpdateReturn, Shapes, poVars, noteVars
  <1> QED
    BY <1>1, BalancedKept, ShippedKept, CoveredSame, ApprovedKept, OwedKept
       DEF UpdateReturn, poVars, noteVars

LEMMA RefundReturnInv ==
    ASSUME StockInv, NEW r \in Returns, NEW restock \in BOOLEAN, RefundReturn(r, restock)
    PROVE  StockInv'
  <1> USE DEF StockInv
  <1>1. Balanced' /\ stock' \in Shelf /\ supply' \in [Skus -> [Warehouses -> Int]]
    <2>1. CASE restock
      <3>1. Adjusted(returns[r].items, 1) \in Shelf
        BY AdjustedFits DEF RefundReturn, Shapes
      <3> QED
        BY <2>1, <3>1, MovesBalance DEF RefundReturn, poVars, noteVars
    <2>2. CASE ~restock
      BY <2>2, BalancedKept DEF RefundReturn, poVars, noteVars, Shapes
    <2> QED
      BY <2>1, <2>2
  <1>2. Shapes'
    BY <1>1, SameMade DEF RefundReturn, Shapes, poVars, noteVars
  <1> QED
    BY <1>1, <1>2, ShippedKept, CoveredSame, ApprovedKept, OwedKept
       DEF RefundReturn, poVars, noteVars

-----------------------------------------------------------------------------
(***************************************************************************)
(* Purchase orders                                                         *)
(***************************************************************************)

LEMMA SetCompanyTermsInv ==
    ASSUME StockInv, NEW limit \in Limits, SetCompanyTerms(limit)
    PROVE  StockInv'
  <1> USE DEF StockInv
  <1>1. limit \in Nat
    BY StockAssumption
  <1>2. /\ terms' \in Terms /\ terms'.limit = limit
        /\ terms = None => terms'.balance = 0
        /\ terms # None => terms'.balance = terms.balance
    BY <1>1 DEF SetCompanyTerms, Shapes, Terms
  <1>3. Shapes'
    BY <1>2, SameMade DEF SetCompanyTerms, Shapes, goodsVars, noteVars
  <1>4. Owed'
    <2>1. terms' # None
      BY <1>2, StockAssumption
    <2>2. terms'.balance = Total([c \in Made |-> Pieces(checkouts[c].items)], OnCredit)
      BY <1>2, TotalEmpty DEF Owed
    <2>3. terms'.balance <= terms'.limit \/ lowered'
      <3>1. terms'.balance \in Nat
        BY <1>2 DEF Terms
      <3>2. limit < terms'.balance => lowered'
        BY DEF SetCompanyTerms
      <3> QED
        BY <1>1, <1>2, <3>1, <3>2
    <2>4. UNCHANGED checkouts
      BY DEF SetCompanyTerms
    <2> QED
      BY <2>1, <2>2, <2>3, <2>4, SameMade DEF Owed
  <1> QED
    BY <1>3, <1>4, BalancedKept, ShippedKept, CoveredSame, ApprovedKept
       DEF SetCompanyTerms, goodsVars, noteVars

LEMMA CreatePurchaseOrderInv ==
    ASSUME StockInv, NEW o \in POs, NEW cart \in Carts, CreatePurchaseOrder(o, cart)
    PROVE  StockInv'
  <1> USE DEF StockInv
  <1> DEFINE order == [items |-> cart, status |-> "pending_approval", approved |-> 0]
  <1>1. order \in PurchaseOrder /\ order.approved = 0 /\ order.status # "approved"
    BY DEF PurchaseOrder
  <1>2. pos[o] = None /\ pos' = [pos EXCEPT ![o] = order]
    BY DEF CreatePurchaseOrder
  <1> HIDE DEF order
  <1>3. Shapes'
    BY <1>1, <1>2, SameMade DEF CreatePurchaseOrder, Shapes, goodsVars, noteVars
  <1>4. Approved'
    <2>1. MadeFor(o) = {}
      BY <1>2 DEF Approved
    <2>7. Cardinality(MadeFor(o)) = 0
      BY <2>1, FS_EmptySet
    <2>2. UNCHANGED checkouts
      BY DEF CreatePurchaseOrder
    <2>3. \A p \in POs : MadeFor(p)' = MadeFor(p)
      BY <2>2, SameMade
    <2>4. order # None
      BY <1>1, StockAssumption
    <2> SUFFICES ASSUME NEW p \in POs
                 PROVE  /\ pos'[p] = None => MadeFor(p) = {}
                        /\ pos'[p] # None =>
                              /\ Cardinality(MadeFor(p)) <= pos'[p].approved
                              /\ pos'[p].status = "approved" =>
                                    Cardinality(MadeFor(p)) < pos'[p].approved
      BY <2>3 DEF Approved
    <2>5. CASE p = o
      <3>1. pos'[p] = order
        BY <1>2, <2>5 DEF Shapes
      <3> QED
        BY <1>1, <2>4, <2>5, <2>7, <3>1
    <2>6. CASE p # o
      BY <1>2, <2>6 DEF Approved, Shapes
    <2> QED
      BY <2>5, <2>6
  <1> QED
    BY <1>3, <1>4, BalancedKept, ShippedKept, CoveredSame, OwedKept
       DEF CreatePurchaseOrder, goodsVars, noteVars

LEMMA MadeForFinite ==
    ASSUME Shapes, NEW o
    PROVE  IsFiniteSet(MadeFor(o)) /\ Cardinality(MadeFor(o)) \in Nat
  BY FS_Subset, FS_CardinalityType DEF Shapes, MadeFor

\* An order that is approved, rejected or checked out, with room for its checkouts.
LEMMA OrderMove ==
    ASSUME Shapes, Approved, NEW o \in POs, NEW order \in PurchaseOrder,
           pos' = [pos EXCEPT ![o] = order], UNCHANGED checkouts,
           Cardinality(MadeFor(o)) <= order.approved,
           order.status = "approved" => Cardinality(MadeFor(o)) < order.approved
    PROVE  Approved'
  <1>1. order # None
    BY StockAssumption
  <1> QED
    BY <1>1, SameMade DEF Approved, Shapes

LEMMA ApproveInv ==
    ASSUME StockInv, NEW o \in POs, ApprovePurchaseOrder(o)
    PROVE  StockInv'
  <1> USE DEF StockInv
  <1> DEFINE order == [pos[o] EXCEPT !.status = "approved", !.approved = @ + 1]
  <1>1. pos[o] \in PurchaseOrder
    BY DEF ApprovePurchaseOrder, Shapes
  <1>2. order \in PurchaseOrder /\ order.approved = pos[o].approved + 1
    <2> DEFINE approved == [pos[o] EXCEPT !.status = "approved"]
    <2>1. approved \in PurchaseOrder /\ approved.approved = pos[o].approved
      BY <1>1 DEF PurchaseOrder
    <2>2. order = [approved EXCEPT !.approved = @ + 1]
      BY <1>1 DEF PurchaseOrder
    <2> HIDE DEF approved, order
    <2> QED
      BY <2>1, <2>2 DEF PurchaseOrder
  <1>3. pos' = [pos EXCEPT ![o] = order]
    BY DEF ApprovePurchaseOrder, Shapes
  <1> HIDE DEF order
  <1>4. Shapes'
    BY <1>2, <1>3, SameMade DEF ApprovePurchaseOrder, Shapes, goodsVars, noteVars
  <1>5. Approved'
    <2>1. Cardinality(MadeFor(o)) <= pos[o].approved /\ pos[o].approved \in Nat
      BY <1>1 DEF ApprovePurchaseOrder, Approved, PurchaseOrder
    <2>2. Cardinality(MadeFor(o)) \in Nat
      BY MadeForFinite
    <2>3. Cardinality(MadeFor(o)) < order.approved
      BY <1>2, <2>1, <2>2
    <2>4. Cardinality(MadeFor(o)) <= order.approved
      BY <1>2, <2>1, <2>2
    <2>5. UNCHANGED checkouts
      BY DEF ApprovePurchaseOrder
    <2> QED
      BY <1>2, <1>3, <2>3, <2>4, <2>5, OrderMove
  <1> QED
    BY <1>4, <1>5, BalancedKept, ShippedKept, CoveredSame, OwedKept
       DEF ApprovePurchaseOrder, goodsVars, noteVars

LEMMA RejectInv ==
    ASSUME StockInv, NEW o \in POs, RejectPurchaseOrder(o)
    PROVE  StockInv'
  <1> USE DEF StockInv
  <1> DEFINE order == [pos[o] EXCEPT !.status = "rejected"]
  <1>1. pos[o] \in PurchaseOrder
    BY DEF RejectPurchaseOrder, Shapes
  <1>2. /\ order \in PurchaseOrder /\ order.approved = pos[o].approved
        /\ order.status = "rejected"
    BY <1>1 DEF PurchaseOrder
  <1>3. pos' = [pos EXCEPT ![o] = order]
    BY DEF RejectPurchaseOrder
  <1> HIDE DEF order
  <1>4. Shapes'
    BY <1>2, <1>3, SameMade DEF RejectPurchaseOrder, Shapes, goodsVars, noteVars
  <1>5. Approved'
    <2>1. Cardinality(MadeFor(o)) <= pos[o].approved
      BY DEF RejectPurchaseOrder, Approved
    <2> QED
      BY <1>2, <1>3, <2>1, OrderMove DEF RejectPurchaseOrder
  <1> QED
    BY <1>4, <1>5, BalancedKept, ShippedKept, CoveredSame, OwedKept
       DEF RejectPurchaseOrder, goodsVars, noteVars

\* A cart that is refused changes nothing but the backorders, one that throws loses
\* its pieces, and they are counted among the lost.
LEMMA CheckoutBrokenInv ==
    ASSUME StockInv, NEW o \in POs, CheckoutBroken(o)
    PROVE  StockInv'
  <1> USE DEF StockInv
  <1>1. pos[o] \in PurchaseOrder /\ pos[o].items \in Carts
    BY DEF CheckoutBroken, Ready, Shapes, PurchaseOrder
  <1> DEFINE cart == pos[o].items
  <1>2. PICK plan \in Plans(cart), before \in SUBSET Skus, s \in Skus :
           \/ ReserveRefused(cart, plan, before, s)
           \/ ReserveThrows(cart, plan, before, s)
    BY DEF CheckoutBroken
  <1>3. UNCHANGED <<policies, lowered, pos, terms, checkouts, reservations, returns>>
    BY DEF CheckoutBroken, poVars, goodsVars, noteVars
  <1> DEFINE notes == Recorded(cart, plan, before, "reserve", None)
  <1>4. notes \subseteq Note /\ \A b \in notes : b.ref = None
    <2> HIDE DEF cart
    <2>1. cart \in Carts
      BY <1>1 DEF cart
    <2>2. before \in SUBSET Skus /\ "reserve" \in {"reserve", "po"} /\ Shapes
      OBVIOUS
    <2>3. None \in Checkouts \cup {None}
      OBVIOUS
    <2>4. plan \in Plans(cart)
      OBVIOUS
    <2>5. PICK items \in Carts : items = cart
      BY <2>1
    <2> HIDE DEF StockInv
    <2>6. Recorded(items, plan, before, "reserve", None) \subseteq Note
      BY <2>2, <2>3, <2>4, <2>5, RecordedFits
    <2>7. \A b \in notes : b.ref = None
      BY DEF Recorded
    <2> QED
      BY <2>5, <2>6, <2>7
  <1>5. backorders' = backorders \cup notes /\ cleared' = cleared
    BY <1>2 DEF ReserveRefused, ReserveThrows
  <1>6. Without(plan, before \cup {s}) \in Shelf
    BY <1>1, WithoutFits
  <1> HIDE DEF cart, notes
  <1>7. /\ Balanced' /\ stock' \in Shelf /\ supply' \in [Skus -> [Warehouses -> Int]]
        /\ leaked' \subseteq Skus
    <2>1. CASE ReserveRefused(cart, plan, before, s)
      BY <1>3, <2>1, BalancedKept DEF ReserveRefused, Shapes
    <2>2. CASE ReserveThrows(cart, plan, before, s)
      <3>1. /\ stock' = Without(plan, before \cup {s})
            /\ leaked' = leaked \cup before \cup {s}
            /\ supply' = [t \in Skus |-> IF t \in leaked' THEN Empty[t] ELSE supply[t]]
        BY <2>2 DEF ReserveThrows
      <3>2. supply' \in [Skus -> [Warehouses -> Int]]
        BY <3>1 DEF Shapes, Empty
      <3>3. \A t \in Skus \ leaked', w \in Warehouses :
               stock'[t][w] = stock[t][w] /\ supply'[t][w] = supply[t][w]
        BY <3>1 DEF Without
      <3>4. \A t \in Skus, w \in Warehouses : InCheckouts(t, w)' = InCheckouts(t, w)
        BY <1>3, SameMade
      <3> QED
        <4>1. stock' \in Shelf /\ leaked' \subseteq Skus
          BY <1>6, <3>1 DEF Shapes
        <4>2. Balanced'
          <5> SUFFICES ASSUME NEW t \in Skus \ leaked', NEW w \in Warehouses
                       PROVE  stock'[t][w] + InCheckouts(t, w) = supply'[t][w]
            BY <3>4 DEF Balanced
          <5>1. t \notin leaked
            BY <3>1
          <5> QED
            BY <3>3, <5>1 DEF Balanced
        <4> QED
          BY <3>2, <4>1, <4>2
    <2> QED
      BY <1>2, <2>1, <2>2
  <1>8. Shapes'
    BY <1>3, <1>4, <1>5, <1>7, SameMade DEF Shapes
  <1>9. Covered'
    BY <1>3, <1>4, <1>5, CoveredKept, StockAssumption
  <1> QED
    BY <1>3, <1>7, <1>8, <1>9, ShippedKept, ApprovedKept, OwedKept

\* A member more, the summands of the others as they were.
LEMMA TotalGrows ==
    ASSUME NEW S, IsFiniteSet(S), NEW x, x \notin S, NEW f, NEW g,
           \A y \in S : f[y] \in Int /\ g[y] = f[y], g[x] \in Int
    PROVE  Total(g, S \cup {x}) = Total(f, S) + g[x]
  <1>1. Total(g, S \cup {x}) = Total(g, S) + g[x]
    BY TotalMore
  <1>2. Total(g, S) = Total(f, S)
    BY TotalSame
  <1> QED
    BY <1>1, <1>2

\* A checkout that is made takes its pieces off the shelves, and one approval.
LEMMA CheckoutInv ==
    ASSUME StockInv, NEW o \in POs, NEW c \in Checkouts, CheckoutPurchaseOrder(o, c)
    PROVE  StockInv'
  <1> USE DEF StockInv
  <1>1. pos[o] \in PurchaseOrder /\ pos[o].items \in Carts /\ pos[o].status = "approved"
    BY DEF CheckoutPurchaseOrder, Ready, Shapes, PurchaseOrder
  <1>2. PICK cart \in Carts : cart = pos[o].items
    BY <1>1
  <1>3. PICK plan \in Plans(cart) :
          /\ stock' = Without(plan, Skus)
          /\ checkouts' = [checkouts EXCEPT ![c] =
               [poId |-> o, items |-> cart, reserve |-> Takes(plan),
                backorders |-> Shorts(plan), charged |-> terms # None]]
          /\ backorders' = backorders \cup Recorded(cart, plan, Skus, "reserve", None)
                               \cup Recorded(cart, plan, Skus, "po", c)
    BY <1>2 DEF CheckoutPurchaseOrder, Takes, Shorts
  <1>4. /\ checkouts[c] = None /\ Ready(o) /\ pos' = CheckedOut(o)
        /\ terms' = IF terms # None THEN Charged(Pieces(cart)) ELSE None
        /\ UNCHANGED <<policies, cleared, supply, leaked, lowered, reservations, returns>>
    BY <1>2 DEF CheckoutPurchaseOrder, goodsVars, noteVars
  <1>5. /\ Takes(plan) \in Shelf /\ Shorts(plan) \in [Skus -> Nat]
        /\ \A s \in Skus :
              /\ plan[s].take \in [Warehouses -> Nat] /\ plan[s].short \in Nat
              /\ \A w \in Warehouses : plan[s].take[w] <= stock[s][w]
              /\ Sum(plan[s].take) + plan[s].short = cart[s]
    BY PlanFits
  <1>6. cart \in [Skus -> Nat] /\ Pieces(cart) \in Nat
    BY PiecesNat, StockAssumption
  <1> DEFINE new == [poId |-> o, items |-> cart, reserve |-> Takes(plan),
                     backorders |-> Shorts(plan), charged |-> terms # None]
  <1>7. /\ new.poId = o /\ new.items = cart /\ new.reserve = Takes(plan)
        /\ new.backorders = Shorts(plan) /\ (new.charged <=> terms # None)
        /\ new \in Checkout /\ new # None
    <2>1. new \in Checkout
      BY <1>5 DEF Checkout
    <2> QED
      BY <2>1, StockAssumption
  <1>8. checkouts' = [checkouts EXCEPT ![c] = new]
    BY <1>3
  <1> HIDE DEF new
  <1>9. /\ c \notin Made /\ Made' = Made \cup {c} /\ IsFiniteSet(Made)
        /\ checkouts'[c] = new /\ \A d \in Made : checkouts'[d] = checkouts[d]
    BY <1>4, <1>7, <1>8 DEF Made, Shapes
  <1>10. Balanced' /\ stock' \in Shelf
    <2>1. stock' \in Shelf
      BY <1>3, WithoutFits
    <2> SUFFICES ASSUME NEW s \in Skus \ leaked, NEW w \in Warehouses
                 PROVE  stock'[s][w] + InCheckouts(s, w)' = supply[s][w]
      BY <1>4, <2>1 DEF Balanced
    <2> DEFINE held == [d \in Made |-> checkouts[d].reserve[s][w]]
               holds == [d \in Made' |-> checkouts'[d].reserve[s][w]]
    <2>2. \A d \in Made : held[d] \in Int /\ holds[d] = held[d]
      <3>1. \A d \in Made : held[d] \in Int
        BY DEF Shapes, Made, Checkout, Shelf
      <3>2. \A d \in Made : holds[d] = held[d]
        BY <1>9
      <3> QED
        BY <3>1, <3>2
    <2>3. holds[c] = plan[s].take[w] /\ plan[s].take[w] \in Nat
      BY <1>5, <1>7, <1>9 DEF Takes
    <2> HIDE DEF held, holds
    <2>4. Total(holds, Made \cup {c}) = Total(held, Made) + holds[c]
      <3>1. PICK M, f, g : M = Made /\ f = held /\ g = holds
        OBVIOUS
      <3>2. /\ IsFiniteSet(M) /\ c \notin M /\ g[c] \in Int
            /\ \A y \in M : f[y] \in Int /\ g[y] = f[y]
        BY <1>9, <2>2, <2>3, <3>1
      <3>3. Total(g, M \cup {c}) = Total(f, M) + g[c]
        BY <3>2, TotalGrows
      <3> QED
        BY <3>1, <3>3
    <2>5. InCheckouts(s, w) = Total(held, Made) /\ InCheckouts(s, w)' = Total(holds, Made')
      BY DEF InCheckouts, held, holds
    <2>6. InCheckouts(s, w)' = InCheckouts(s, w) + plan[s].take[w]
      BY <1>9, <2>3, <2>4, <2>5
    <2>7. stock'[s][w] = stock[s][w] - plan[s].take[w]
      BY <1>3 DEF Without
    <2>8. stock[s][w] + InCheckouts(s, w) = supply[s][w]
      BY DEF Balanced
    <2>9. stock[s][w] \in Nat /\ InCheckouts(s, w) \in Nat
      BY InCheckoutsNat DEF Shapes, Shelf
    <2> QED
      BY <2>3, <2>6, <2>7, <2>8, <2>9
  <1>11. Covered' /\ backorders' \subseteq Note
    <2> DEFINE early == Recorded(cart, plan, Skus, "reserve", None)
               late == Recorded(cart, plan, Skus, "po", c)
    <2>1. /\ early \subseteq Note /\ \A b \in early : b.ref = None
      <3>1. Skus \in SUBSET Skus /\ None \in Checkouts \cup {None} /\ Shapes
        OBVIOUS
      <3>2. Recorded(cart, plan, Skus, "reserve", None) \subseteq Note
        BY <3>1, RecordedFits
      <3>3. \A b \in Recorded(cart, plan, Skus, "reserve", None) : b.ref = None
        BY DEF Recorded
      <3> QED
        BY <3>2, <3>3
    <2>2. late \subseteq Note /\ \A b \in late : b.ref = c
      <3>1. Skus \in SUBSET Skus /\ c \in Checkouts \cup {None} /\ Shapes
        OBVIOUS
      <3>2. Recorded(cart, plan, Skus, "po", c) \subseteq Note
        BY <3>1, RecordedFits
      <3>3. \A b \in Recorded(cart, plan, Skus, "po", c) : b.ref = c
        BY DEF Recorded
      <3> QED
        BY <3>2, <3>3
    <2>3. \A s \in Skus : {n \in late : n.ref = c /\ n.sku = s} = Due(c, s, plan[s].short)
      BY RecordedDue
    <2>4. backorders' = backorders \cup early \cup late /\ cleared' = cleared
      BY <1>3, <1>4
    <2> HIDE DEF early, late
    <2>5. /\ None \notin Checkouts /\ Made \subseteq Checkouts
          /\ \A b \in backorders \cup cleared : b.ref # c
      BY <1>9, StockAssumption DEF Covered, Made
    <2>6. ASSUME NEW d \in Made', NEW s \in Skus
          PROVE  /\ Sum(checkouts'[d].reserve[s]) + checkouts'[d].backorders[s]
                       = checkouts'[d].items[s]
                 /\ NotesOf(d, s)' = Due(d, s, checkouts'[d].backorders[s])
      <3>1. CASE d = c
        <4>1. new.reserve[s] = plan[s].take /\ new.backorders[s] = plan[s].short
          BY <1>7 DEF Takes, Shorts
        <4>2. NotesOf(c, s)' = {n \in late : n.ref = c /\ n.sku = s}
          BY <2>1, <2>4, <2>5 DEF NotesOf
        <4>3. /\ Sum(new.reserve[s]) + new.backorders[s] = new.items[s]
              /\ NotesOf(c, s)' = Due(c, s, new.backorders[s])
          BY <1>5, <1>7, <2>3, <4>1, <4>2
        <4> QED
          BY <1>9, <3>1, <4>3
      <3>2. CASE d # c
        <4>1. d \in Made /\ checkouts'[d] = checkouts[d] /\ d # None
          BY <1>9, <2>5, <3>2
        <4>2. NotesOf(d, s)' = NotesOf(d, s)
          BY <2>1, <2>2, <2>4, <3>2, <4>1 DEF NotesOf
        <4> QED
          BY <4>1, <4>2 DEF Covered
      <3> QED
        BY <3>1, <3>2
    <2>7. \A b \in backorders' \cup cleared' : b.ref # None => b.ref \in Made'
      BY <1>9, <2>1, <2>2, <2>4 DEF Covered
    <2>8. Covered'
      BY <2>6, <2>7 DEF Covered, Due
    <2> QED
      BY <2>1, <2>2, <2>4, <2>8 DEF Shapes
  <1>12. Approved' /\ pos' \in [POs -> PurchaseOrder \cup {None}]
    <2> DEFINE order == [pos[o] EXCEPT !.status = "in_checkout"]
    <2>1. /\ order \in PurchaseOrder /\ order.approved = pos[o].approved
          /\ order.status = "in_checkout"
      BY <1>1 DEF PurchaseOrder
    <2>2. pos' = [pos EXCEPT ![o] = order]
      BY <1>4 DEF CheckedOut
    <2> HIDE DEF order
    <2>3. order # None
      BY <2>1, StockAssumption
    <2>4. MadeFor(o)' = MadeFor(o) \cup {c} /\ \A p \in POs : p # o => MadeFor(p)' = MadeFor(p)
      BY <1>7, <1>9 DEF MadeFor
    <2>5. Cardinality(MadeFor(o) \cup {c}) = Cardinality(MadeFor(o)) + 1
      <3>1. c \notin MadeFor(o) /\ IsFiniteSet(MadeFor(o))
        BY <1>9, MadeForFinite DEF MadeFor
      <3> QED
        BY <3>1, FS_AddElement
    <2>6. /\ Cardinality(MadeFor(o)) < pos[o].approved
          /\ Cardinality(MadeFor(o)) \in Nat /\ pos[o].approved \in Nat
      <3>1. pos[o] # None
        BY <1>4 DEF Ready
      <3> QED
        BY <1>1, <3>1, MadeForFinite DEF Approved, PurchaseOrder
    <2>7. pos' \in [POs -> PurchaseOrder \cup {None}]
      BY <2>1, <2>2 DEF Shapes
    <2>8. ASSUME NEW p \in POs
          PROVE  /\ pos'[p] = None => MadeFor(p)' = {}
                 /\ pos'[p] # None =>
                       /\ Cardinality(MadeFor(p)') <= pos'[p].approved
                       /\ pos'[p].status = "approved" =>
                             Cardinality(MadeFor(p)') < pos'[p].approved
      <3>1. CASE p = o
        <4>1. pos'[p] = order
          BY <2>2, <3>1 DEF Shapes
        <4>2. Cardinality(MadeFor(o)') <= order.approved
          BY <2>1, <2>4, <2>5, <2>6
        <4> QED
          BY <2>1, <2>3, <3>1, <4>1, <4>2
      <3>2. CASE p # o
        BY <2>2, <2>4, <3>2 DEF Approved, Shapes
      <3> QED
        BY <3>1, <3>2
    <2> QED
      BY <2>7, <2>8 DEF Approved
  <1>13. Owed' /\ terms' \in Terms \cup {None}
    <2>1. CASE terms = None
      <3>1. terms' = None
        BY <1>4, <2>1
      <3>2. OnCredit' = {}
        BY <1>7, <1>9, <2>1 DEF Owed, OnCredit
      <3> QED
        BY <3>1, <3>2 DEF Owed
    <2>2. CASE terms # None
      <3>1. terms \in Terms /\ terms' = [terms EXCEPT !.balance = @ + Pieces(cart)]
        BY <1>4, <2>2 DEF Shapes, Charged
      <3>2. /\ terms' \in Terms /\ terms'.limit = terms.limit
            /\ terms'.balance = terms.balance + Pieces(cart)
        BY <1>6, <3>1 DEF Terms
      <3>3. terms' # None
        BY <3>2, StockAssumption
      <3>4. OnCredit' = OnCredit \cup {c} /\ c \notin OnCredit /\ IsFiniteSet(OnCredit)
        BY <1>7, <1>9, <2>2, FS_Subset DEF OnCredit
      <3> DEFINE prices == [d \in Made |-> Pieces(checkouts[d].items)]
                 pricesNow == [d \in Made' |-> Pieces(checkouts'[d].items)]
      <3>5. \A d \in OnCredit : prices[d] \in Int /\ pricesNow[d] = prices[d]
        <4>1. \A d \in OnCredit : d \in Made /\ checkouts[d].items \in [Skus -> Nat]
          BY StockAssumption DEF OnCredit, Shapes, Made, Checkout
        <4>2. \A d \in OnCredit : prices[d] \in Int
          BY <4>1, PiecesNat
        <4>3. \A d \in OnCredit : pricesNow[d] = prices[d]
          BY <1>9, <4>1
        <4> QED
          BY <4>2, <4>3
      <3>6. pricesNow[c] = Pieces(cart)
        BY <1>7, <1>9
      <3>7. /\ terms.balance = Total(prices, OnCredit)
            /\ terms.balance <= terms.limit \/ lowered
        BY <2>2 DEF Owed
      <3> HIDE DEF prices, pricesNow
      <3>8. Total(pricesNow, OnCredit \cup {c}) = Total(prices, OnCredit) + pricesNow[c]
        <4>1. PICK M, f, g : M = OnCredit /\ f = prices /\ g = pricesNow
          OBVIOUS
        <4>2. /\ IsFiniteSet(M) /\ c \notin M /\ g[c] \in Int
              /\ \A y \in M : f[y] \in Int /\ g[y] = f[y]
          BY <1>6, <3>4, <3>5, <3>6, <4>1
        <4>3. Total(g, M \cup {c}) = Total(f, M) + g[c]
          BY <4>2, TotalGrows
        <4> QED
          BY <4>1, <4>3
      <3>9. terms'.balance = Total(pricesNow, OnCredit')
        BY <3>2, <3>4, <3>6, <3>7, <3>8
      <3>10. terms'.balance <= terms'.limit
        BY <1>2, <1>4, <2>2, <3>2 DEF Ready, WithinCredit
      <3> QED
        BY <3>2, <3>3, <3>9, <3>10 DEF Owed, pricesNow
    <2> QED
      BY <2>1, <2>2
  <1>14. checkouts' \in [Checkouts -> Checkout \cup {None}] /\ IsFiniteSet(Made')
    BY <1>7, <1>8, <1>9, FS_AddElement DEF Shapes
  <1>15. Shapes'
    BY <1>4, <1>10, <1>11, <1>12, <1>13, <1>14 DEF Shapes
  <1> QED
    BY <1>4, <1>10, <1>11, <1>12, <1>13, <1>15, ShippedKept

-----------------------------------------------------------------------------
(***************************************************************************)
(* The theorems                                                            *)
(***************************************************************************)

LEMMA InitInv == Init => StockInv
  <1> SUFFICES ASSUME Init PROVE StockInv
    OBVIOUS
  <1>1. Made = {} /\ IsFiniteSet(Made)
    BY FS_EmptySet DEF Init, Made
  <1>2. Shapes
    <2>1. stock \in Shelf /\ supply \in [Skus -> [Warehouses -> Int]]
      BY DEF Init, Shelf, Empty
    <2>2. policies \in [Skus -> [allow_backorder : BOOLEAN, low_stock_threshold : Nat]]
      BY DEF Init
    <2>3. /\ terms = None /\ backorders = {} /\ cleared = {} /\ leaked = {} /\ lowered = FALSE
          /\ pos \in [POs -> {None}] /\ checkouts \in [Checkouts -> {None}]
          /\ reservations \in [Orders -> {None}] /\ returns \in [Returns -> {None}]
      BY DEF Init
    <2> QED
      BY <1>1, <2>1, <2>2, <2>3 DEF Shapes
  <1>3. Balanced
    BY <1>1, TotalEmpty DEF Init, Balanced, InCheckouts, Empty
  <1>4. ShippedOnce /\ Covered
    BY <1>1 DEF Init, ShippedOnce, Covered
  <1>5. Approved
    BY <1>1 DEF Init, Approved, MadeFor
  <1>6. Owed
    BY <1>1 DEF Init, Owed, OnCredit
  <1> QED
    BY <1>2, <1>3, <1>4, <1>5, <1>6 DEF StockInv

LEMMA NextInv == StockInv /\ [Next]_vars => StockInv'
  <1> SUFFICES ASSUME StockInv, [Next]_vars PROVE StockInv'
    OBVIOUS
  <1>1. CASE StockNext
    BY <1>1, SetInventoryInv, SetStockPolicyInv, ListBackordersInv,
       CleanupRetentionInv DEF StockNext
  <1>2. CASE PurchaseNext
    BY <1>2, SetCompanyTermsInv, CreatePurchaseOrderInv, ApproveInv, RejectInv,
       CheckoutBrokenInv, CheckoutInv DEF PurchaseNext
  <1>3. CASE GoodsNext
    BY <1>3, SetReservationInv, SyncShipmentInv, SyncReturnInv, RequestReturnInv,
       UpdateReturnInv, RefundReturnInv DEF GoodsNext
  <1>4. CASE UNCHANGED vars
    <2>1. UNCHANGED <<stock, policies, pos, terms, checkouts, backorders, cleared,
                      reservations, returns, supply, leaked, lowered, noteVars>>
      BY <1>4 DEF vars, poVars, goodsVars, noteVars
    <2>2. Shapes'
      BY <2>1, SameMade DEF StockInv, Shapes
    <2> QED
      BY <2>1, <2>2, BalancedKept, ShippedKept, CoveredSame, ApprovedKept, OwedKept
         DEF StockInv
  <1> QED
    BY <1>1, <1>2, <1>3, <1>4 DEF Next

\* Shelves, orders, terms, checkouts and histories keep their shapes, and the parts
\* of the invariant hold together.
THEOREM StockInvariant == Spec => []StockInv
  BY InitInv, NextInv, PTL DEF Spec

\* For any skus, warehouses and carts, whatever is refused, thrown or repeated: every
\* piece is on its shelf or in a checkout, except those of a checkout that threw; no
\* shelf goes below 0 and nothing is shipped twice.
THEOREM StockAccountedCorrect == Spec => []StockAccounted
  <1>1. StockInv => StockAccounted
    <2> SUFFICES ASSUME StockInv PROVE StockAccounted
      OBVIOUS
    <2>1. \A s \in Skus, w \in Warehouses : stock[s][w] >= 0
      BY DEF StockInv, Shapes, Shelf
    <2>2. \A o \in Orders : reservations[o] # None => reservations[o].shipped <= 1
      BY DEF StockInv, ShippedOnce
    <2> QED
      BY <2>1, <2>2 DEF StockInv, Balanced, StockAccounted
  <1> QED
    BY <1>1, StockInvariant, PTL

\* For any carts, stock and order of the shelves, what the loop leaves to find of a
\* checkout is what was ordered less what came off the shelves, and exactly that was
\* noted for it.
THEOREM ReserveCoversCorrect == Spec => []ReserveCovers
  <1>1. ASSUME StockInv, NEW c \in Made, NEW s \in Skus
        PROVE  LET owed == checkouts[c].items[s] - Sum(checkouts[c].reserve[s]) IN
               /\ owed >= 0 /\ checkouts[c].backorders[s] = owed
               /\ NotesOf(c, s) = Due(c, s, owed)
    <2>1. checkouts[c] \in Checkout
      BY <1>1 DEF StockInv, Shapes, Made
    <2>2. /\ checkouts[c].items[s] \in Nat /\ checkouts[c].backorders[s] \in Nat
          /\ checkouts[c].reserve[s] \in [Warehouses -> Nat]
      BY <2>1, StockAssumption DEF Checkout, Shelf
    <2>3. PICK sum \in Nat : sum = Sum(checkouts[c].reserve[s])
      BY <2>2, SumNat
    <2>4. /\ sum + checkouts[c].backorders[s] = checkouts[c].items[s]
          /\ NotesOf(c, s) = Due(c, s, checkouts[c].backorders[s])
      BY <1>1, <2>3 DEF StockInv, Covered
    <2>5. checkouts[c].backorders[s] = checkouts[c].items[s] - sum
      BY <2>2, <2>3, <2>4
    <2> QED
      BY <2>2, <2>3, <2>4, <2>5
  <1>2. StockInv => ReserveCovers
    BY <1>1 DEF ReserveCovers, NotesOf, Due
  <1> QED
    BY <1>2, StockInvariant, PTL

\* For any number of orders, approvals and checkouts: an order is checked out at most
\* once for each approval, and the company owes what was charged, within its limit
\* unless that was put below the balance.
THEOREM ChargedAsApprovedCorrect == Spec => []ChargedAsApproved
  <1>1. StockInv => ChargedAsApproved
    BY DEF StockInv, Approved, MadeFor, Owed, OnCredit, ChargedAsApproved
  <1> QED
    BY <1>1, StockInvariant, PTL

=============================================================================
