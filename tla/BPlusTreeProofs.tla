-------------------------- MODULE BPlusTreeProofs --------------------------
(***************************************************************************)
(* Theorems about the index.                                               *)
(*                                                                         *)
(* BaseInv gives the pages their shape: a leaf stays a leaf with at most   *)
(* leaf_max_size keys, whatever its words hold, and a descent from any     *)
(* page leads to a page.  PinInv, CountInv and AscendingInv build on it.   *)
(*                                                                         *)
(* What BinarySearch, the copying loops and SumFunction compute is found   *)
(* by induction over the least number that a claim fails for (Induction);  *)
(* a recursive definition is first shown to have the function that it      *)
(* chooses (StepsExist, SearchExists, TotalsExist).                        *)
(***************************************************************************)
EXTENDS BPlusTree, FiniteSetTheorems, TLAPS

-----------------------------------------------------------------------------
(* The inductive invariant *)

Data == [Words -> Int]
OpNames == {"none", "GetValue", "Insert", "Remove", "Begin"}

TypeOK ==
    /\ data \in [PageIds -> Data]
    /\ next_page_id \in Nat
    /\ pins \in [PageIds -> Int]
    /\ root_page_id \in PageIds \cup {-1}
    /\ op \in [name : OpNames, key : Int, rid : Int \X Int, page : Int]
    /\ pc \in {"idle", "fetch", "at"}
    /\ iter \in [page : Int, page_id : Int, key_index : Int, is_end : BOOLEAN]
    /\ scans \in Nat /\ entries \in Int
    /\ ascending \in BOOLEAN /\ present \in SUBSET Int

\* Every page is a leaf, the parent of two leaves, the table's or not yet used.
PageShape(d) ==
    \/ IsLeaf(d) \/ d = ZeroPage \/ d = TablePage
    \/ \E key \in Int, left, right \in PageIds : d = NewRoot(key, left, right)

ShapeInv ==
    /\ \A p \in PageIds : PageShape(data[p])
    /\ \A p \in PageIds : p >= next_page_id => data[p] = ZeroPage
    /\ \A p \in PageIds : IsLeaf(data[p]) => SizeOf(data[p]) \in 0 .. leaf_max_size

RootIsLeaf == root_page_id # -1 /\ IsLeaf(data[root_page_id])

\* The descent is on a page of the database, and a tree of one leaf has no other.
OpInv ==
    /\ root_page_id < next_page_id
    /\ pc # "idle" => op.page \in PageIds /\ root_page_id # -1
    /\ pc # "idle" /\ RootIsLeaf => op.page = root_page_id

\* The page of an iterator stays a leaf.
IterInv == iter # NoIter => iter.page \in PageIds /\ IsLeaf(data[iter.page])

BaseInv == TypeOK /\ ShapeInv /\ OpInv /\ IterInv

OpPins(p) == IF pc = "at" /\ op.page = p THEN 1 ELSE 0
IterPins(p) == IF iter # NoIter /\ iter.page = p THEN 1 ELSE 0

PinInv ==
    /\ SumFunction(pins) = scans + (IF pc = "at" THEN 1 ELSE 0)
    /\ \A p \in PageIds : pins[p] >= OpPins(p) + IterPins(p)

KeysOf(d) == {d[KeyAt(i)] : i \in 0 .. (SizeOf(d) - 1)}
Sorted(d) == \A i, j \in 0 .. (SizeOf(d) - 1) : i < j => d[KeyAt(i)] < d[KeyAt(j)]

\* Where the RID that came last is in a leaf to which no entry was lost: its
\* slot_num is the last word that is not zero, once there are two entries.
NewestLast(d, rid) ==
    /\ SizeOf(d) = 1 => <<d[3], d[4]>> = rid
    /\ SizeOf(d) > 1 => d[3 * SizeOf(d)] = rid[2]
    /\ \A w \in Words : w > 5 /\ w > 3 * SizeOf(d) => d[w] = 0

\* One leaf that has all the entries has them in order.
AscendingInv ==
    /\ inserts \in Int /\ entries <= inserts
    /\ root_page_id = -1 => entries >= 0 /\ (ascending /\ entries = 0 => present = {})
    /\ RootIsLeaf =>
         /\ SizeOf(data[root_page_id]) \in 1 .. entries
         /\ ascending /\ SizeOf(data[root_page_id]) = entries =>
              /\ Sorted(data[root_page_id]) /\ present = KeysOf(data[root_page_id])
              /\ inserts = entries => NewestLast(data[root_page_id], newest)

-----------------------------------------------------------------------------
(* Induction and recursion *)

\* A set of numbers that is not empty has a least one.
LEMMA LeastExists ==
  ASSUME NEW X \in SUBSET Nat, X # {}
  PROVE  \E least \in X : \A x \in X : least <= x
<1> DEFINE Initial == {0 .. x : x \in X}
<1>1. Initial \subseteq FiniteSubsetsOf(Nat)
  <2> SUFFICES ASSUME NEW x \in X
               PROVE  0 .. x \in SUBSET Nat /\ IsFiniteSet(0 .. x)
    BY DEF FiniteSubsetsOf
  <2> QED BY FS_Interval
<1>2. PICK lowest \in Initial : \A other \in Initial : ~ (<<other, lowest>> \in StrictSubsetOrdering(Nat))
  <2>1. Initial # {}
    OBVIOUS
  <2> HIDE DEF Initial
  <2> QED BY <1>1, <2>1, WFMin, FS_StrictSubsetOrderingWellFounded, Zenon
<1>3. PICK least \in X : lowest = 0 .. least
  OBVIOUS
<1>4. ASSUME NEW x \in X, x < least
      PROVE  FALSE
  <2>1. 0 .. x \subseteq 0 .. least /\ 0 .. x # 0 .. least
    BY <1>4
  <2>2. <<0 .. x, lowest>> \in StrictSubsetOrdering(Nat)
    BY <1>3, <2>1 DEF StrictSubsetOrdering
  <2> QED BY <1>2, <2>2
<1> QED BY <1>4

\* Induction, for a property given as the set of the numbers that have it.
LEMMA Induction ==
  ASSUME NEW Good \in SUBSET Nat, 0 \in Good, \A m \in Good : m + 1 \in Good
  PROVE  \A m \in Nat : m \in Good
<1> SUFFICES ASSUME Nat \ Good # {} PROVE FALSE
  OBVIOUS
<1>1. PICK m \in Nat \ Good : \A other \in Nat \ Good : m <= other
  BY LeastExists
<1>2. m - 1 \in Nat /\ m = (m - 1) + 1
  BY <1>1
<1>3. m - 1 \in Good
  BY <1>1, <1>2
<1> QED BY <1>1, <1>2, <1>3

\* F lists what n steps from first lead to, within X.
Iterates(F, n, X, first, step) ==
    /\ F \in [0 .. n -> X]
    /\ F[0] = first
    /\ \A i \in 0 .. (n - 1) : F[i + 1] = step[<<i, F[i]>>]

\* Such a function exists for every n.  Each recursive definition of the model
\* is what a sequence of this kind ends in.
LEMMA StepsExist ==
  ASSUME NEW X, NEW first \in X, NEW step \in [Nat \X X -> X]
  PROVE  \A n \in Nat : \E F : Iterates(F, n, X, first, step)
<1> DEFINE Steps(m, F) == F[0] = first /\ \A i \in 0 .. (m - 1) : F[i + 1] = step[<<i, F[i]>>]
           Good == {m \in Nat : \E F \in [0 .. m -> X] : Steps(m, F)}
<1>1. 0 \in Good
  <2>1. [i \in 0 .. 0 |-> first] \in [0 .. 0 -> X] /\ Steps(0, [i \in 0 .. 0 |-> first])
    OBVIOUS
  <2> QED BY <2>1
<1>2. ASSUME NEW k \in Good PROVE k + 1 \in Good
  <2>1. PICK F \in [0 .. k -> X] : Steps(k, F)
    OBVIOUS
  <2> DEFINE G == [i \in 0 .. (k + 1) |-> IF i = k + 1 THEN step[<<k, F[k]>>] ELSE F[i]]
  <2>2. <<k, F[k]>> \in Nat \X X /\ step[<<k, F[k]>>] \in X
    OBVIOUS
  <2>3. G \in [0 .. (k + 1) -> X]
    BY <2>2
  <2>4. Steps(k + 1, G)
    <3>1. G[0] = first
      BY <2>1
    <3>2. ASSUME NEW i \in 0 .. (k + 1 - 1) PROVE G[i + 1] = step[<<i, G[i]>>]
      <4>1. CASE i = k
        <5>1. G[k] = F[k] /\ G[k + 1] = step[<<k, F[k]>>]
          OBVIOUS
        <5> QED BY <4>1, <5>1
      <4>2. CASE i # k
        <5>1. i \in 0 .. (k - 1) /\ G[i] = F[i] /\ G[i + 1] = F[i + 1]
          BY <4>2
        <5> QED BY <5>1, <2>1
      <4> QED BY <4>1, <4>2
    <3> HIDE DEF G
    <3> QED BY <3>1, <3>2
  <2>5. k + 1 \in Nat
    OBVIOUS
  <2> HIDE DEF G, Steps
  <2> QED BY <2>3, <2>4, <2>5
<1>3. \A m \in Nat : m \in Good
  <2> Good \in SUBSET Nat
    OBVIOUS
  <2> HIDE DEF Good
  <2> QED BY <1>1, <1>2, Induction
<1> QED BY <1>3 DEF Iterates

-----------------------------------------------------------------------------
(* Sums *)

Pick(s) == CHOOSE x \in s : TRUE

\* What SumFunction adds up over the subsets of S, one element after the other.
Adds(g, f, S) ==
    g = [s \in SUBSET S |-> IF s = {} THEN 0 ELSE f[Pick(s)] + g[s \ {Pick(s)}]]
Totals(f, S) == CHOOSE g : Adds(g, f, S)

LEMMA SumIsTotal ==
  ASSUME NEW S, NEW f \in [S -> Int]
  PROVE  SumFunction(f) = Totals(f, S)[S]
<1>1. DOMAIN f = S
  OBVIOUS
<1> QED BY <1>1, Zenon DEF SumFunction, SumFunctionOnSet, FoldFunctionOnSet, MapThenFoldSet, Totals, Adds, Pick

LEMMA PickRemoved ==
  ASSUME NEW S, IsFiniteSet(S), NEW s \in SUBSET S, s # {}
  PROVE  /\ Pick(s) \in s /\ Pick(s) \in S
         /\ s \ {Pick(s)} \in SUBSET S
         /\ IsFiniteSet(s) /\ Cardinality(s) \in Nat
         /\ Cardinality(s \ {Pick(s)}) = Cardinality(s) - 1
         /\ Cardinality(s) <= Cardinality(S)
<1>1. Pick(s) \in s
  BY DEF Pick
<1>2. IsFiniteSet(s) /\ Cardinality(s) <= Cardinality(S)
  BY FS_Subset
<1>3. Cardinality(s) \in Nat /\ Cardinality(s \ {Pick(s)}) = Cardinality(s) - 1
  BY <1>1, <1>2, FS_CardinalityType, FS_RemoveElement
<1> QED BY <1>1, <1>2, <1>3

\* The recursion is defined, over a finite set.
LEMMA TotalsExist ==
  ASSUME NEW S, IsFiniteSet(S), NEW f \in [S -> Int]
  PROVE  Adds(Totals(f, S), f, S)
<1> DEFINE X == [SUBSET S -> Int]
           Body(g) == [s \in SUBSET S |-> IF s = {} THEN 0 ELSE f[Pick(s)] + g[s \ {Pick(s)}]]
           step == [a \in Nat \X X |-> Body(a[2])]
           first == [s \in SUBSET S |-> 0]
           n == Cardinality(S)
<1>1. n \in Nat
  BY FS_CardinalityType
<1>2. ASSUME NEW g \in X PROVE Body(g) \in X
  <2> SUFFICES ASSUME NEW s \in SUBSET S, s # {} PROVE f[Pick(s)] + g[s \ {Pick(s)}] \in Int
    OBVIOUS
  <2>1. Pick(s) \in S /\ s \ {Pick(s)} \in SUBSET S
    BY PickRemoved
  <2> QED BY <2>1
<1>3. step \in [Nat \X X -> X]
  <2> SUFFICES ASSUME NEW a \in Nat \X X PROVE Body(a[2]) \in X
    OBVIOUS
  <2> HIDE DEF Body, X
  <2> QED BY <1>2
<1>4. first \in X
  OBVIOUS
<1>5. PICK F \in [0 .. (n + 1) -> X] : F[0] = first /\ \A i \in 0 .. n : F[i + 1] = step[<<i, F[i]>>]
  <2> HIDE DEF X, step, first, n
  <2>1. n + 1 \in Nat /\ (n + 1) - 1 = n
    BY <1>1
  <2>2. \E F : Iterates(F, n + 1, X, first, step)
    BY <1>3, <1>4, <2>1, StepsExist
  <2> QED BY <2>1, <2>2 DEF Iterates
<1>6. \A i \in 0 .. n : F[i + 1] = Body(F[i]) /\ F[i] \in X
  <2> SUFFICES ASSUME NEW i \in 0 .. n PROVE F[i + 1] = Body(F[i]) /\ F[i] \in X
    OBVIOUS
  <2> HIDE DEF X, Body, n
  <2>1. i \in Nat /\ i \in 0 .. (n + 1)
    BY <1>1
  <2>2. F[i] \in X /\ <<i, F[i]>> \in Nat \X X
    BY <2>1
  <2> QED BY <1>5, <2>2
<1> DEFINE Good == {m \in Nat : m <= n => \A s \in SUBSET S : Cardinality(s) <= m => F[m + 1][s] = F[m][s]}
<1>7. 0 \in Good
  <2> SUFFICES ASSUME NEW s \in SUBSET S, Cardinality(s) <= 0 PROVE F[0 + 1][s] = F[0][s]
    BY DEF Good
  <2>1. s = {}
    BY FS_EmptySet, FS_Subset, FS_CardinalityType
  <2>2. F[0] = first /\ F[0 + 1] = Body(F[0])
    <3> HIDE DEF n, Body, first
    <3>1. 0 \in 0 .. n
      BY <1>1
    <3> QED BY <1>5, <1>6, <3>1
  <2>3. F[0 + 1][s] = 0 /\ F[0][s] = 0
    BY <2>1, <2>2
  <2> QED BY <2>3
<1>8. ASSUME NEW m \in Good PROVE m + 1 \in Good
  <2> SUFFICES ASSUME m + 1 <= n, NEW s \in SUBSET S, Cardinality(s) <= m + 1
               PROVE  F[m + 2][s] = F[m + 1][s]
    OBVIOUS
  <2>1. m \in 0 .. n /\ m + 1 \in 0 .. n /\ (m + 1) + 1 = m + 2
    BY <1>1
  <2>2. F[m + 1] = Body(F[m]) /\ F[m + 2] = Body(F[m + 1])
    BY <1>6, <2>1
  <2>3. CASE s = {}
    BY <2>2, <2>3
  <2>4. CASE s # {}
    <3>1. Cardinality(s \ {Pick(s)}) <= m /\ s \ {Pick(s)} \in SUBSET S
      BY <2>4, PickRemoved
    <3>2. F[m + 1][s \ {Pick(s)}] = F[m][s \ {Pick(s)}]
      BY <2>1, <3>1
    <3> QED BY <2>2, <2>4, <3>2
  <2> QED BY <2>3, <2>4
<1>9. n \in Good
  <2> Good \in SUBSET Nat
    OBVIOUS
  <2> HIDE DEF Good, n
  <2> QED BY <1>1, <1>7, <1>8, Induction
<1>10. \A s \in SUBSET S : Body(F[n])[s] = F[n][s]
  <2> SUFFICES ASSUME NEW s \in SUBSET S PROVE Body(F[n])[s] = F[n][s]
    OBVIOUS
  <2>1. Cardinality(s) <= n
    BY FS_Subset
  <2>2. F[n + 1] = Body(F[n])
    <3> HIDE DEF n, Body
    <3>1. n \in 0 .. n
      BY <1>1
    <3> QED BY <1>6, <3>1
  <2>3. F[n + 1][s] = F[n][s]
    <3> HIDE DEF n
    <3> QED BY <1>1, <1>9, <2>1
  <2> HIDE DEF Body
  <2> QED BY <2>2, <2>3
<1>11. F[n] = Body(F[n])
  <2>1. F[n] \in X /\ Body(F[n]) \in X
    <3> HIDE DEF n, Body, X
    <3>1. n \in 0 .. n
      BY <1>1
    <3> QED BY <1>2, <1>6, <3>1
  <2> HIDE DEF n, Body
  <2> QED BY <1>10, <2>1
<1>12. Adds(F[n], f, S)
  BY <1>11 DEF Adds
<1> QED BY <1>12 DEF Totals

LEMMA TotalsEquation ==
  ASSUME NEW S, IsFiniteSet(S), NEW f \in [S -> Int]
  PROVE  /\ Totals(f, S)[{}] = 0
         /\ \A s \in SUBSET S : s # {} =>
               Totals(f, S)[s] = f[Pick(s)] + Totals(f, S)[s \ {Pick(s)}]
<1>1. Adds(Totals(f, S), f, S)
  BY TotalsExist
<1> DEFINE g == Totals(f, S)
<1>2. g = [s \in SUBSET S |-> IF s = {} THEN 0 ELSE f[Pick(s)] + g[s \ {Pick(s)}]]
  BY <1>1 DEF Adds
<1> HIDE DEF g
<1>3. \A s \in SUBSET S : g[s] = IF s = {} THEN 0 ELSE f[Pick(s)] + g[s \ {Pick(s)}]
  BY <1>2
<1>4. {} \in SUBSET S
  OBVIOUS
<1>5. g[{}] = 0 /\ \A s \in SUBSET S : s # {} => g[s] = f[Pick(s)] + g[s \ {Pick(s)}]
  BY <1>3, <1>4
<1> QED BY <1>5 DEF g

\* The order does not matter: any element can be taken out of a sum.
LEMMA TotalsWithout ==
  ASSUME NEW S, IsFiniteSet(S), NEW f \in [S -> Int]
  PROVE  \A s \in SUBSET S : /\ Totals(f, S)[s] \in Int
                             /\ \A x \in s : Totals(f, S)[s] = f[x] + Totals(f, S)[s \ {x}]
<1> DEFINE g == Totals(f, S)
           Splits(s) == g[s] \in Int /\ \A x \in s : g[s] = f[x] + g[s \ {x}]
           Good == {m \in Nat : \A s \in SUBSET S : Cardinality(s) <= m => Splits(s)}
<1>1. g[{}] = 0 /\ \A s \in SUBSET S : s # {} => g[s] = f[Pick(s)] + g[s \ {Pick(s)}]
  BY TotalsEquation
<1> HIDE DEF g
<1>2. 0 \in Good
  <2> SUFFICES ASSUME NEW s \in SUBSET S, Cardinality(s) <= 0 PROVE Splits(s)
    OBVIOUS
  <2>1. s = {}
    BY FS_EmptySet, FS_Subset, FS_CardinalityType
  <2> QED BY <1>1, <2>1
<1>3. ASSUME NEW m \in Good PROVE m + 1 \in Good
  <2> SUFFICES ASSUME NEW s \in SUBSET S, Cardinality(s) <= m + 1, s # {} PROVE Splits(s)
    <3>1. m + 1 \in Nat /\ Splits({})
      BY <1>1
    <3> HIDE DEF Splits
    <3> QED BY <3>1
  <2> DEFINE p == Pick(s)
  <2>1. p \in s /\ p \in S /\ IsFiniteSet(s) /\ Cardinality(s) \in Nat
    BY PickRemoved
  <2>2. g[s] = f[p] + g[s \ {p}]
    BY <1>1
  <2> HIDE DEF p
  <2>3. \A y \in s : s \ {y} \in SUBSET S /\ IsFiniteSet(s \ {y}) /\ Cardinality(s \ {y}) <= m
    <3> SUFFICES ASSUME NEW y \in s
                 PROVE  s \ {y} \in SUBSET S /\ IsFiniteSet(s \ {y}) /\ Cardinality(s \ {y}) <= m
      OBVIOUS
    <3>1. IsFiniteSet(s \ {y}) /\ Cardinality(s \ {y}) = Cardinality(s) - 1
      BY <2>1, FS_RemoveElement
    <3> QED BY <2>1, <3>1
  <2>4. \A y \in s : Splits(s \ {y})
    <3> HIDE DEF Splits
    <3> QED BY <2>3
  <2>5. g[s] \in Int
    <3>1. g[s \ {p}] \in Int /\ f[p] \in Int
      BY <2>1, <2>4
    <3> QED BY <2>2, <3>1
  <2>6. ASSUME NEW x \in s PROVE g[s] = f[x] + g[s \ {x}]
    <3>1. CASE x = p
      BY <2>2, <3>1
    <3>2. CASE x # p
      <4> DEFINE both == (s \ {p}) \ {x}
      <4>1. both = (s \ {x}) \ {p} /\ x \in s \ {p} /\ p \in s \ {x}
        BY <2>1, <3>2
      <4>2. g[s \ {p}] = f[x] + g[both]
        BY <2>1, <2>4, <4>1
      <4>3. g[s \ {x}] = f[p] + g[both]
        <5>1. Splits(s \ {x})
          <6> HIDE DEF Splits
          <6> QED BY <2>4
        <5>2. g[s \ {x}] = f[p] + g[(s \ {x}) \ {p}]
          BY <4>1, <5>1
        <5> HIDE DEF both
        <5> QED BY <4>1, <5>2
      <4>4. both \in SUBSET S /\ g[both] \in Int
        <5>1. IsFiniteSet(both) /\ Cardinality(both) <= Cardinality(s \ {p})
          BY <2>1, <2>3, FS_Subset
        <5>2. both \in SUBSET S /\ Cardinality(both) \in Nat /\ Cardinality(s \ {p}) \in Nat
          BY <5>1, <2>1, <2>3, FS_CardinalityType
        <5>3. Cardinality(both) <= m
          BY <2>1, <2>3, <5>1, <5>2
        <5> HIDE DEF both
        <5> QED BY <5>2, <5>3
      <4> HIDE DEF both
      <4>5. f[x] \in Int /\ f[p] \in Int
        BY <2>1
      <4> QED BY <2>2, <4>2, <4>3, <4>4, <4>5
    <3> QED BY <3>1, <3>2
  <2> QED BY <2>5, <2>6
<1>4. Cardinality(S) \in Good
  <2> Good \in SUBSET Nat
    OBVIOUS
  <2>1. Cardinality(S) \in Nat
    BY FS_CardinalityType
  <2> HIDE DEF Good
  <2> QED BY <1>2, <1>3, <2>1, Induction
<1>5. \A s \in SUBSET S : Splits(s)
  <2> SUFFICES ASSUME NEW s \in SUBSET S PROVE Splits(s)
    OBVIOUS
  <2>1. Cardinality(s) <= Cardinality(S)
    BY FS_Subset
  <2> HIDE DEF Splits
  <2> QED BY <1>4, <2>1
<1> QED BY <1>5 DEF g

\* A sum depends only on the values at what is added up.
LEMMA TotalsAgree ==
  ASSUME NEW S, IsFiniteSet(S), NEW f \in [S -> Int], NEW h \in [S -> Int]
  PROVE  \A s \in SUBSET S : (\A y \in s : f[y] = h[y]) => Totals(f, S)[s] = Totals(h, S)[s]
<1> DEFINE a == Totals(f, S)
           b == Totals(h, S)
           Same(s) == (\A y \in s : f[y] = h[y]) => a[s] = b[s]
           Good == {m \in Nat : \A s \in SUBSET S : Cardinality(s) <= m => Same(s)}
<1>1. /\ a[{}] = 0 /\ \A s \in SUBSET S : s # {} => a[s] = f[Pick(s)] + a[s \ {Pick(s)}]
      /\ b[{}] = 0 /\ \A s \in SUBSET S : s # {} => b[s] = h[Pick(s)] + b[s \ {Pick(s)}]
  BY TotalsEquation
<1> HIDE DEF a, b
<1>2. 0 \in Good
  <2> SUFFICES ASSUME NEW s \in SUBSET S, Cardinality(s) <= 0 PROVE Same(s)
    OBVIOUS
  <2>1. s = {}
    BY FS_EmptySet, FS_Subset, FS_CardinalityType
  <2> QED BY <1>1, <2>1
<1>3. ASSUME NEW m \in Good PROVE m + 1 \in Good
  <2> SUFFICES ASSUME NEW s \in SUBSET S, Cardinality(s) <= m + 1, s # {} PROVE Same(s)
    <3>1. m + 1 \in Nat /\ Same({})
      BY <1>1
    <3> HIDE DEF Same
    <3> QED BY <3>1
  <2> DEFINE p == Pick(s)
  <2>1. p \in s /\ s \ {p} \in SUBSET S /\ Cardinality(s) \in Nat /\ Cardinality(s \ {p}) = Cardinality(s) - 1
    BY PickRemoved
  <2>2. a[s] = f[p] + a[s \ {p}] /\ b[s] = h[p] + b[s \ {p}]
    BY <1>1
  <2> HIDE DEF p
  <2>3. Same(s \ {p})
    <3>1. Cardinality(s \ {p}) <= m
      BY <2>1
    <3> HIDE DEF Same
    <3> QED BY <2>1, <3>1
  <2> QED BY <2>1, <2>2, <2>3
<1>4. Cardinality(S) \in Good
  <2> Good \in SUBSET Nat
    OBVIOUS
  <2>1. Cardinality(S) \in Nat
    BY FS_CardinalityType
  <2> HIDE DEF Good
  <2> QED BY <1>2, <1>3, <2>1, Induction
<1>5. \A s \in SUBSET S : Same(s)
  <2> SUFFICES ASSUME NEW s \in SUBSET S PROVE Same(s)
    OBVIOUS
  <2>1. Cardinality(s) <= Cardinality(S)
    BY FS_Subset
  <2> HIDE DEF Same
  <2> QED BY <1>4, <2>1
<1> QED BY <1>5 DEF a, b

\* Changing one value changes the sum by as much.
LEMMA SumChange ==
  ASSUME NEW S, IsFiniteSet(S), NEW f \in [S -> Int], NEW h \in [S -> Int], NEW x \in S,
         \A y \in S \ {x} : h[y] = f[y]
  PROVE  /\ SumFunction(f) \in Int /\ SumFunction(h) \in Int
         /\ SumFunction(h) = SumFunction(f) - f[x] + h[x]
<1>1. S \in SUBSET S /\ S \ {x} \in SUBSET S
  OBVIOUS
<1>2. Totals(f, S)[S \ {x}] = Totals(h, S)[S \ {x}]
  BY <1>1, TotalsAgree
<1>3. \A s \in SUBSET S : /\ Totals(f, S)[s] \in Int
                          /\ \A y \in s : Totals(f, S)[s] = f[y] + Totals(f, S)[s \ {y}]
  BY TotalsWithout
<1>4. \A s \in SUBSET S : /\ Totals(h, S)[s] \in Int
                          /\ \A y \in s : Totals(h, S)[s] = h[y] + Totals(h, S)[s \ {y}]
  BY TotalsWithout
<1>5. f[x] \in Int /\ h[x] \in Int
  OBVIOUS
<1>6. /\ Totals(f, S)[S] = f[x] + Totals(f, S)[S \ {x}]
      /\ Totals(h, S)[S] = h[x] + Totals(h, S)[S \ {x}]
      /\ Totals(f, S)[S] \in Int /\ Totals(h, S)[S] \in Int
      /\ Totals(f, S)[S \ {x}] \in Int
  BY <1>1, <1>3, <1>4
<1>7. SumFunction(f) = Totals(f, S)[S] /\ SumFunction(h) = Totals(h, S)[S]
  BY SumIsTotal
<1> QED BY <1>2, <1>5, <1>6, <1>7

LEMMA SumZero ==
  ASSUME NEW S, IsFiniteSet(S), NEW f \in [S -> Int], \A y \in S : f[y] = 0
  PROVE  SumFunction(f) = 0
<1> DEFINE g == Totals(f, S)
           Good == {m \in Nat : \A s \in SUBSET S : Cardinality(s) <= m => g[s] = 0}
<1>1. g[{}] = 0 /\ \A s \in SUBSET S : s # {} => g[s] = f[Pick(s)] + g[s \ {Pick(s)}]
  BY TotalsEquation
<1> HIDE DEF g
<1>2. 0 \in Good
  <2> SUFFICES ASSUME NEW s \in SUBSET S, Cardinality(s) <= 0 PROVE g[s] = 0
    OBVIOUS
  <2>1. s = {}
    BY FS_EmptySet, FS_Subset, FS_CardinalityType
  <2> QED BY <1>1, <2>1
<1>3. ASSUME NEW m \in Good PROVE m + 1 \in Good
  <2> SUFFICES ASSUME NEW s \in SUBSET S, Cardinality(s) <= m + 1, s # {} PROVE g[s] = 0
    BY <1>1
  <2>1. Pick(s) \in S /\ s \ {Pick(s)} \in SUBSET S /\ Cardinality(s) \in Nat /\ Cardinality(s \ {Pick(s)}) = Cardinality(s) - 1
    BY PickRemoved
  <2>2. g[s \ {Pick(s)}] = 0
    BY <2>1
  <2> QED BY <1>1, <2>1, <2>2
<1>4. Cardinality(S) \in Good
  <2> Good \in SUBSET Nat
    OBVIOUS
  <2>1. Cardinality(S) \in Nat
    BY FS_CardinalityType
  <2> HIDE DEF Good
  <2> QED BY <1>2, <1>3, <2>1, Induction
<1>5. g[S] = 0
  BY <1>4
<1> QED BY <1>5, SumIsTotal DEF g

-----------------------------------------------------------------------------
(* BinarySearch *)

Ranges(n) == (0 .. n) \X (0 .. n)

\* The range that one round of the loop leaves.
Half(d, key, range) ==
    LET mid == (range[1] + range[2]) \div 2
    IN  IF key >= WordOf(d, KeyAt(mid)) THEN <<mid + 1, range[2]>> ELSE <<range[1], mid>>

Searches(g, d, key) ==
    g = [range \in Ranges(SizeOf(d)) |->
            IF range[1] >= range[2] THEN range[1] ELSE g[Half(d, key, range)]]

LEMMA HalfIsSmaller ==
  ASSUME NEW n \in Nat, NEW d, NEW key, NEW range \in Ranges(n), range[1] < range[2]
  PROVE  LET half == Half(d, key, range)
             mid == (range[1] + range[2]) \div 2
         IN  /\ half \in Ranges(n) /\ mid \in range[1] .. (range[2] - 1)
             /\ half[2] - half[1] < range[2] - range[1]
             /\ half[1] <= half[2] /\ range[1] <= half[1] /\ half[2] <= range[2]
<1> DEFINE mid == (range[1] + range[2]) \div 2
<1>1. range[1] \in 0 .. n /\ range[2] \in 0 .. n
  BY DEF Ranges
<1>2. mid \in range[1] .. (range[2] - 1)
  BY <1>1
<1> HIDE DEF mid
<1>3. Half(d, key, range) \in {<<mid + 1, range[2]>>, <<range[1], mid>>}
  BY DEF Half, mid
<1>4. CASE Half(d, key, range) = <<mid + 1, range[2]>>
  BY <1>1, <1>2, <1>4 DEF Ranges, mid
<1>5. CASE Half(d, key, range) = <<range[1], mid>>
  BY <1>1, <1>2, <1>5 DEF Ranges, mid
<1> QED BY <1>3, <1>4, <1>5

\* The loop ends: the recursion is defined on every range.
LEMMA SearchExists ==
  ASSUME NEW d, SizeOf(d) \in Nat, NEW key
  PROVE  \E g : Searches(g, d, key) /\ BinarySearch(d, key) = g[<<0, SizeOf(d)>>]
<1> DEFINE n == SizeOf(d)
           X == [Ranges(n) -> Int]
           Body(g) == [range \in Ranges(n) |->
                          IF range[1] >= range[2] THEN range[1] ELSE g[Half(d, key, range)]]
           step == [a \in Nat \X X |-> Body(a[2])]
           first == [range \in Ranges(n) |-> range[1]]
<1>1. ASSUME NEW g \in X PROVE Body(g) \in X
  <2> SUFFICES ASSUME NEW range \in Ranges(n)
               PROVE  (IF range[1] >= range[2] THEN range[1] ELSE g[Half(d, key, range)]) \in Int
    OBVIOUS
  <2>1. range[1] \in Int /\ range[2] \in Int
    BY DEF Ranges
  <2>2. CASE range[1] >= range[2]
    BY <2>1, <2>2
  <2>3. CASE range[1] < range[2]
    <3>1. Half(d, key, range) \in Ranges(n)
      BY <2>3, HalfIsSmaller
    <3> QED BY <2>1, <2>3, <3>1
  <2> QED BY <2>1, <2>2, <2>3
<1>2. step \in [Nat \X X -> X]
  <2> SUFFICES ASSUME NEW a \in Nat \X X PROVE Body(a[2]) \in X
    OBVIOUS
  <2> HIDE DEF Body, X
  <2> QED BY <1>1
<1>3. first \in X
  BY DEF Ranges
<1>4. PICK F \in [0 .. (n + 1) -> X] : F[0] = first /\ \A i \in 0 .. n : F[i + 1] = step[<<i, F[i]>>]
  <2> HIDE DEF X, step, first, n
  <2>1. n + 1 \in Nat /\ (n + 1) - 1 = n
    BY DEF n
  <2>2. \E F : Iterates(F, n + 1, X, first, step)
    BY <1>2, <1>3, <2>1, StepsExist
  <2> QED BY <2>1, <2>2 DEF Iterates
<1>5. \A i \in 0 .. n : F[i + 1] = Body(F[i]) /\ F[i] \in X
  <2> SUFFICES ASSUME NEW i \in 0 .. n PROVE F[i + 1] = Body(F[i]) /\ F[i] \in X
    OBVIOUS
  <2>1. i \in Nat /\ i \in 0 .. (n + 1)
    OBVIOUS
  <2> HIDE DEF X, Body, n
  <2>2. F[i] \in X /\ <<i, F[i]>> \in Nat \X X
    BY <2>1
  <2> QED BY <1>4, <2>2
<1> DEFINE Good == {m \in Nat : m <= n => \A range \in Ranges(n) :
                                  range[2] - range[1] <= m => F[m + 1][range] = F[m][range]}
<1>6. 0 \in Good
  <2> SUFFICES ASSUME NEW range \in Ranges(n), range[2] - range[1] <= 0
               PROVE  F[0 + 1][range] = F[0][range]
    OBVIOUS
  <2>1. F[0 + 1] = Body(F[0]) /\ F[0] = first
    <3>1. 0 \in 0 .. n
      OBVIOUS
    <3> HIDE DEF Body, n, first
    <3> QED BY <1>4, <1>5, <3>1
  <2>2. range[1] >= range[2]
    BY DEF Ranges
  <2> QED BY <2>1, <2>2
<1>7. ASSUME NEW m \in Good PROVE m + 1 \in Good
  <2> SUFFICES ASSUME m + 1 <= n, NEW range \in Ranges(n), range[2] - range[1] <= m + 1
               PROVE  F[(m + 1) + 1][range] = F[m + 1][range]
    OBVIOUS
  <2>1. m \in 0 .. n /\ m + 1 \in 0 .. n
    OBVIOUS
  <2>2. F[m + 1] = Body(F[m]) /\ F[(m + 1) + 1] = Body(F[m + 1])
    BY <1>5, <2>1
  <2>3. range[1] \in Int /\ range[2] \in Int
    BY DEF Ranges
  <2>4. CASE range[1] >= range[2]
    BY <2>2, <2>4
  <2>5. CASE range[1] < range[2]
    <3> DEFINE half == Half(d, key, range)
    <3>1. half \in Ranges(n) /\ half[2] - half[1] < range[2] - range[1]
      BY <2>5, HalfIsSmaller
    <3>2. half[1] \in Int /\ half[2] \in Int
      BY <3>1 DEF Ranges
    <3>3. half[2] - half[1] <= m
      BY <2>3, <3>1, <3>2
    <3>4. F[m + 1][half] = F[m][half]
      <4> HIDE DEF half
      <4> QED BY <2>1, <3>1, <3>3
    <3> QED BY <2>2, <2>3, <2>5, <3>4
  <2> QED BY <2>3, <2>4, <2>5
<1>8. n \in Good
  <2> Good \in SUBSET Nat
    OBVIOUS
  <2> HIDE DEF Good
  <2> QED BY <1>6, <1>7, Induction
<1>9. F[n] = Body(F[n])
  <2>1. n \in 0 .. n
    OBVIOUS
  <2>2. F[n] \in X /\ F[n + 1] = Body(F[n])
    <3> HIDE DEF X, Body, n
    <3> QED BY <1>5, <2>1
  <2>3. Body(F[n]) \in X
    <3> HIDE DEF X, Body, n
    <3> QED BY <1>1, <2>2
  <2>4. \A range \in Ranges(n) : F[n + 1][range] = F[n][range]
    <3>1. \A range \in Ranges(n) : range[2] - range[1] <= n
      BY DEF Ranges
    <3> HIDE DEF n
    <3> QED BY <1>8, <3>1
  <2> HIDE DEF Body, n
  <2> QED BY <2>2, <2>3, <2>4
<1>10. Searches(F[n], d, key)
  BY <1>9 DEF Searches
<1> DEFINE chosen == CHOOSE g : Searches(g, d, key)
<1>11. Searches(chosen, d, key)
  <2> HIDE DEF n
  <2> QED BY <1>10, Zenon
<1>12. BinarySearch(d, key) = chosen[<<0, SizeOf(d)>>]
  BY Zenon DEF BinarySearch, Searches, Half, Ranges
<1> HIDE DEF chosen
<1> QED BY <1>11, <1>12

\* The keys of a page are in order, as BinarySearch reads them.
InOrder(d) ==
    \A i, j \in 0 .. (SizeOf(d) - 1) : i < j => WordOf(d, KeyAt(i)) < WordOf(d, KeyAt(j))

\* The search stays within the entries, whatever the keys are; if they are in
\* order, it ends behind the last one that is not above key.
LEMMA SearchResult ==
  ASSUME NEW d \in Data, SizeOf(d) \in Nat, NEW key \in Int
  PROVE  /\ BinarySearch(d, key) \in 0 .. SizeOf(d)
         /\ InOrder(d) =>
              /\ \A i \in 0 .. (BinarySearch(d, key) - 1) : WordOf(d, KeyAt(i)) <= key
              /\ \A i \in BinarySearch(d, key) .. (SizeOf(d) - 1) : WordOf(d, KeyAt(i)) > key
<1> DEFINE n == SizeOf(d)
           W(i) == WordOf(d, KeyAt(i))
           Half_(range) == Half(d, key, range)
           Width(range) == range[2] - range[1]
<1>1. PICK g : Searches(g, d, key) /\ BinarySearch(d, key) = g[<<0, n>>]
  BY SearchExists
<1>2. \A range \in Ranges(n) :
         g[range] = IF range[1] >= range[2] THEN range[1] ELSE g[Half_(range)]
  <2> HIDE DEF Half_
  <2> QED BY <1>1 DEF Searches, Half_
<1>3. \A i \in Nat : W(i) \in Int
  BY DEF WordOf, Data, KeyAt
<1> DEFINE Found(range) ==
             /\ g[range] \in range[1] .. range[2]
             /\ InOrder(d) => /\ \A i \in range[1] .. (g[range] - 1) : W(i) <= key
                              /\ \A i \in g[range] .. (range[2] - 1) : W(i) > key
           Good == {m \in Nat : \A range \in Ranges(n) :
                       range[1] <= range[2] /\ Width(range) <= m => Found(range)}
<1> HIDE DEF W, n
<1>4. \A range \in Ranges(n) : range[1] \in 0 .. n /\ range[2] \in 0 .. n
  BY DEF Ranges
<1>n. n \in Nat
  BY DEF n
<1>5. ASSUME NEW range \in Ranges(n), range[1] = range[2] PROVE Found(range)
  <2>1. g[range] = range[1]
    BY <1>2, <1>4, <1>5
  <2> QED BY <1>4, <1>5, <1>n, <2>1
<1>6. 0 \in Good
  <2> SUFFICES ASSUME NEW range \in Ranges(n), range[1] <= range[2] /\ Width(range) <= 0
               PROVE  Found(range)
    OBVIOUS
  <2>1. range[1] = range[2]
    BY <1>4
  <2> QED BY <1>5, <2>1
<1>7. ASSUME NEW m \in Good PROVE m + 1 \in Good
  <2> SUFFICES ASSUME NEW range \in Ranges(n), range[1] < range[2], Width(range) <= m + 1
               PROVE  Found(range)
    <3>1. m + 1 \in Nat
      OBVIOUS
    <3>2. \A range \in Ranges(n) : range[1] <= range[2] => range[1] < range[2] \/ range[1] = range[2]
      BY <1>4
    <3> HIDE DEF Found, Width
    <3> QED BY <1>5, <3>1, <3>2
  <2> DEFINE half == Half_(range)
             mid == (range[1] + range[2]) \div 2
             left == range[1]
             right == range[2]
  <2>1. left \in 0 .. n /\ right \in 0 .. n
    BY <1>4
  <2>2. /\ half \in Ranges(n) /\ mid \in left .. (right - 1)
        /\ half[2] - half[1] < right - left
        /\ half[1] <= half[2] /\ left <= half[1] /\ half[2] <= right
    BY <1>n, HalfIsSmaller
  <2>3. half = IF key >= W(mid) THEN <<mid + 1, right>> ELSE <<left, mid>>
    BY DEF Half, W
  <2>4. g[range] = g[half]
    BY <1>2, <2>1
  <2> HIDE DEF half, mid, Half_
  <2>5. Found(half)
    <3>1. half[1] \in Int /\ half[2] \in Int
      BY <1>4, <2>2
    <3>2. Width(half) <= m
      BY <2>1, <2>2, <3>1
    <3> HIDE DEF Found, Width
    <3> QED BY <2>2, <3>2
  <2>6. mid \in 0 .. (n - 1) /\ W(mid) \in Int
    BY <1>3, <1>n, <2>1, <2>2
  <2>7. InOrder(d) => \A i, j \in 0 .. (n - 1) : i < j => W(i) < W(j)
    BY DEF InOrder, n, W
  <2>8. CASE key >= W(mid)
    <3>1. half[1] = mid + 1 /\ half[2] = right
      BY <2>3, <2>8
    <3>2. g[range] \in (mid + 1) .. right
      BY <2>4, <2>5, <3>1
    <3>3. ASSUME InOrder(d), NEW i \in left .. (g[range] - 1) PROVE W(i) <= key
      <4>1. CASE i = mid
        BY <2>6, <2>8, <4>1
      <4>2. CASE i < mid
        <5>1. i \in 0 .. (n - 1) /\ W(i) \in Int
          BY <1>3, <1>n, <2>1, <2>6, <4>2
        <5>2. W(i) < W(mid)
          BY <2>6, <2>7, <3>3, <4>2, <5>1
        <5> QED BY <2>6, <2>8, <5>1, <5>2
      <4>3. CASE i > mid
        <5>1. i \in half[1] .. (g[half] - 1)
          BY <2>1, <2>4, <2>6, <3>1, <3>2, <4>3
        <5> QED BY <2>5, <3>3, <5>1
      <4> QED BY <2>1, <2>6, <3>2, <4>1, <4>2, <4>3
    <3>4. ASSUME InOrder(d), NEW i \in g[range] .. (right - 1) PROVE W(i) > key
      BY <2>4, <2>5, <3>1, <3>4
    <3>5. g[range] \in left .. right
      BY <2>1, <2>6, <2>2, <3>2
    <3> QED BY <3>3, <3>4, <3>5
  <2>9. CASE ~(key >= W(mid))
    <3>1. half[1] = left /\ half[2] = mid
      BY <2>3, <2>9
    <3>2. g[range] \in left .. mid
      BY <2>4, <2>5, <3>1
    <3>3. ASSUME InOrder(d), NEW i \in left .. (g[range] - 1) PROVE W(i) <= key
      BY <2>4, <2>5, <3>1, <3>3
    <3>4. ASSUME InOrder(d), NEW i \in g[range] .. (right - 1) PROVE W(i) > key
      <4>1. CASE i = mid
        BY <2>6, <2>9, <4>1
      <4>2. CASE i > mid
        <5>1. i \in 0 .. (n - 1) /\ W(i) \in Int
          BY <1>3, <1>n, <2>1, <2>6, <3>2, <4>2
        <5>2. W(mid) < W(i)
          BY <2>6, <2>7, <3>4, <4>2, <5>1
        <5> QED BY <2>6, <2>9, <5>1, <5>2
      <4>3. CASE i < mid
        <5>1. i \in g[half] .. (half[2] - 1)
          BY <2>1, <2>4, <2>6, <3>1, <3>2, <4>3
        <5> QED BY <2>5, <3>4, <5>1
      <4> QED BY <2>1, <2>6, <3>2, <4>1, <4>2, <4>3
    <3>5. g[range] \in left .. right
      BY <2>1, <2>6, <2>2, <3>2
    <3> QED BY <3>3, <3>4, <3>5
  <2> QED BY <2>8, <2>9
<1>8. n \in Good
  <2> Good \in SUBSET Nat
    OBVIOUS
  <2> HIDE DEF Good
  <2> QED BY <1>6, <1>7, <1>n, Induction
<1>9. Found(<<0, n>>)
  <2>1. <<0, n>> \in Ranges(n) /\ <<0, n>>[1] <= <<0, n>>[2] /\ Width(<<0, n>>) <= n
    BY <1>n DEF Ranges
  <2> HIDE DEF Found, Width
  <2> QED BY <1>8, <2>1
<1> QED BY <1>1, <1>9 DEF n, W

-----------------------------------------------------------------------------
(* The copying loops of InsertIntoLeaf and Remove *)

LEMMA CopiedData ==
  ASSUME NEW d \in Data, NEW to \in Words, NEW from \in Words
  PROVE  /\ Copied(d, to, from) \in Data
         /\ \A w \in Words : Copied(d, to, from)[w] = IF w = to THEN d[from] ELSE d[w]
BY DEF Copied, Data

\* Moving an entry keeps the words in front of the keys; of the keys it changes
\* one, because the RIDs lie behind all of them.
LEMMA MovedEntryData ==
  ASSUME NEW d \in Data, NEW size \in 1 .. leaf_max_size, NEW to \in 0 .. size, NEW from \in 0 .. size,
         RidSlotAt(size, to) < PAGE_WORDS, RidSlotAt(size, from) < PAGE_WORDS
  PROVE  /\ MovedEntry(d, size, to, from) \in Data
         /\ \A w \in 0 .. (1 + size) : /\ w \in Words
                                       /\ MovedEntry(d, size, to, from)[w] =
                                             IF w = KeyAt(to) THEN d[KeyAt(from)] ELSE d[w]
<1>1. /\ KeyAt(to) \in Words /\ KeyAt(from) \in Words
      /\ RidPageAt(size, to) \in Words /\ RidPageAt(size, from) \in Words
      /\ RidSlotAt(size, to) \in Words /\ RidSlotAt(size, from) \in Words
  BY LeafSizeAssumption, WordsAssumption DEF KeyAt, RidPageAt, RidSlotAt, Words
<1>2. \A w \in 0 .. (1 + size) : w \in Words /\ w # RidPageAt(size, to) /\ w # RidSlotAt(size, to)
  BY LeafSizeAssumption, WordsAssumption DEF RidPageAt, RidSlotAt, Words
<1> DEFINE a == Copied(d, KeyAt(to), KeyAt(from))
           b == Copied(a, RidPageAt(size, to), RidPageAt(size, from))
           c == Copied(b, RidSlotAt(size, to), RidSlotAt(size, from))
<1>3. /\ a \in Data
      /\ \A w \in Words : a[w] = IF w = KeyAt(to) THEN d[KeyAt(from)] ELSE d[w]
  BY <1>1, CopiedData
<1> HIDE DEF a
<1>4. /\ b \in Data
      /\ \A w \in Words : b[w] = IF w = RidPageAt(size, to) THEN a[RidPageAt(size, from)] ELSE a[w]
  BY <1>1, <1>3, CopiedData
<1> HIDE DEF b
<1>5. /\ c \in Data
      /\ \A w \in Words : c[w] = IF w = RidSlotAt(size, to) THEN b[RidSlotAt(size, from)] ELSE b[w]
  BY <1>1, <1>4, CopiedData
<1>6. MovedEntry(d, size, to, from) = c
  BY DEF MovedEntry, c, b, a
<1> HIDE DEF c
<1>7. \A w \in 0 .. (1 + size) : c[w] = IF w = KeyAt(to) THEN d[KeyAt(from)] ELSE d[w]
  BY <1>2, <1>3, <1>4, <1>5
<1> QED BY <1>2, <1>5, <1>6, <1>7

Shifts(g, d, size, pos) ==
    g = [i \in pos .. size |-> IF i = size THEN d ELSE MovedEntry(g[i + 1], size, i + 1, i)]

LEMMA ShiftExists ==
  ASSUME NEW d \in Data, NEW size \in 0 .. (leaf_max_size - 1), NEW pos \in 0 .. size
  PROVE  \E g : /\ g \in [pos .. size -> Data]
                /\ g[size] = d
                /\ \A i \in pos .. (size - 1) : g[i] = MovedEntry(g[i + 1], size, i + 1, i)
                /\ ShiftedUp(d, size, pos) = g[pos]
<1> DEFINE n == size - pos
           step == [a \in Nat \X Data |->
                      IF a[1] < n THEN MovedEntry(a[2], size, size - a[1], size - a[1] - 1) ELSE a[2]]
<1>1. n \in Nat /\ size \in Nat /\ pos \in Nat
  BY LeafSizeAssumption
<1>2. ASSUME NEW i \in pos .. (size - 1), NEW e \in Data
      PROVE  MovedEntry(e, size, i + 1, i) \in Data
  <2>1. /\ size \in 1 .. leaf_max_size /\ i \in 0 .. size /\ i + 1 \in 0 .. size
        /\ RidSlotAt(size, i) < PAGE_WORDS /\ RidSlotAt(size, i + 1) < PAGE_WORDS
    BY LeafSizeAssumption, WordsAssumption DEF RidSlotAt, RidPageAt
  <2> QED BY <2>1, MovedEntryData
<1>3. step \in [Nat \X Data -> Data]
  <2> SUFFICES ASSUME NEW k \in Nat, NEW e \in Data, k < n
               PROVE  MovedEntry(e, size, size - k, size - k - 1) \in Data
    OBVIOUS
  <2>1. size - k - 1 \in pos .. (size - 1) /\ size - k = (size - k - 1) + 1
    BY <1>1
  <2> QED BY <1>2, <2>1
<1>4. PICK F : Iterates(F, n, Data, d, step)
  <2> HIDE DEF step, n
  <2> QED BY <1>1, <1>3, StepsExist
<1>5. /\ F \in [0 .. n -> Data] /\ F[0] = d
      /\ \A k \in 0 .. (n - 1) : F[k + 1] = MovedEntry(F[k], size, size - k, size - k - 1)
  <2>1. F \in [0 .. n -> Data] /\ F[0] = d /\ \A k \in 0 .. (n - 1) : F[k + 1] = step[<<k, F[k]>>]
    BY <1>4 DEF Iterates
  <2>2. \A k \in 0 .. (n - 1) : <<k, F[k]>> \in Nat \X Data /\ k < n
    BY <1>1, <2>1
  <2> HIDE DEF n
  <2> QED BY <2>1, <2>2
<1> HIDE DEF step
<1> DEFINE G == [i \in pos .. size |-> F[size - i]]
<1>6. G \in [pos .. size -> Data] /\ G[size] = d
  BY <1>1, <1>5
<1>7. \A i \in pos .. (size - 1) : G[i] = MovedEntry(G[i + 1], size, i + 1, i)
  <2> SUFFICES ASSUME NEW i \in pos .. (size - 1) PROVE G[i] = MovedEntry(G[i + 1], size, i + 1, i)
    OBVIOUS
  <2>1. /\ size - i - 1 \in 0 .. (n - 1) /\ size - (size - i - 1) = i + 1
        /\ size - (size - i - 1) - 1 = i /\ (size - i - 1) + 1 = size - i /\ size - (i + 1) = size - i - 1
    BY <1>1
  <2>2. F[size - i] = MovedEntry(F[size - i - 1], size, i + 1, i)
    <3> HIDE DEF n
    <3>1. F[(size - i - 1) + 1] = MovedEntry(F[size - i - 1], size, size - (size - i - 1), size - (size - i - 1) - 1)
      BY <1>5, <2>1
    <3> QED BY <2>1, <3>1
  <2>3. G[i] = F[size - i] /\ G[i + 1] = F[size - i - 1]
    BY <1>1, <2>1
  <2> QED BY <2>2, <2>3
<1> HIDE DEF G
<1>8. Shifts(G, d, size, pos)
  <2>1. \A i \in pos .. size : i # size => i \in pos .. (size - 1)
    BY <1>1
  <2> QED BY <1>6, <1>7, <2>1 DEF Shifts
<1> DEFINE chosen == CHOOSE g : Shifts(g, d, size, pos)
<1>9. Shifts(chosen, d, size, pos)
  BY <1>8, Zenon
<1>10. ShiftedUp(d, size, pos) = chosen[pos]
  BY Zenon DEF ShiftedUp, Shifts
<1> HIDE DEF chosen
<1>11. /\ chosen[size] = d
       /\ \A i \in pos .. (size - 1) : chosen[i] = MovedEntry(chosen[i + 1], size, i + 1, i)
  <2>1. \A i \in pos .. size :
           chosen[i] = IF i = size THEN d ELSE MovedEntry(chosen[i + 1], size, i + 1, i)
    BY <1>9 DEF Shifts
  <2>2. size \in pos .. size /\ \A i \in pos .. (size - 1) : i \in pos .. size /\ i # size
    BY <1>1
  <2> QED BY <2>1, <2>2
<1>12. \A k \in Nat : k <= n => chosen[size - k] \in Data
  <2> DEFINE Good == {k \in Nat : k <= n => chosen[size - k] \in Data}
  <2>1. 0 \in Good
    BY <1>1, <1>11
  <2>2. ASSUME NEW k \in Good PROVE k + 1 \in Good
    <3> SUFFICES ASSUME k + 1 <= n PROVE chosen[size - (k + 1)] \in Data
      OBVIOUS
    <3>1. size - (k + 1) \in pos .. (size - 1) /\ (size - (k + 1)) + 1 = size - k
      BY <1>1
    <3>2. chosen[size - k] \in Data
      BY <1>1
    <3> HIDE DEF n
    <3> QED BY <1>2, <1>11, <3>1, <3>2
  <2> Good \in SUBSET Nat
    OBVIOUS
  <2>3. \A k \in Nat : k \in Good
    <3> HIDE DEF Good
    <3> QED BY <2>1, <2>2, Induction
  <2> QED BY <2>3
<1>13. chosen \in [pos .. size -> Data]
  <2>1. \A i \in pos .. size : size - i \in Nat /\ size - i <= n /\ size - (size - i) = i
    BY <1>1
  <2>2. \A i \in pos .. size : chosen[i] \in Data
    BY <1>12, <2>1
  <2>3. chosen = [i \in pos .. size |-> chosen[i]]
    BY <1>9 DEF Shifts
  <2> QED BY <2>2, <2>3
<1> QED BY <1>10, <1>11, <1>13

LEMMA ShiftedUpData ==
  ASSUME NEW d \in Data, NEW size \in 0 .. (leaf_max_size - 1), NEW pos \in 0 .. size
  PROVE  /\ ShiftedUp(d, size, pos) \in Data
         /\ ShiftedUp(d, size, pos)[0] = d[0]
         /\ pos = size => ShiftedUp(d, size, pos) = d
<1>1. PICK g : /\ g \in [pos .. size -> Data]
               /\ g[size] = d
               /\ \A i \in pos .. (size - 1) : g[i] = MovedEntry(g[i + 1], size, i + 1, i)
               /\ ShiftedUp(d, size, pos) = g[pos]
  BY ShiftExists
<1> DEFINE n == size - pos
           Good == {k \in Nat : k <= n => g[size - k][0] = d[0]}
<1>2. n \in Nat /\ size \in Nat /\ pos \in Nat
  BY LeafSizeAssumption
<1>3. 0 \in Good
  BY <1>1, <1>2
<1>4. ASSUME NEW k \in Good PROVE k + 1 \in Good
  <2> SUFFICES ASSUME k + 1 <= n PROVE g[size - (k + 1)][0] = d[0]
    OBVIOUS
  <2> DEFINE i == size - (k + 1)
  <2>1. i \in pos .. (size - 1) /\ i + 1 = size - k /\ i + 1 \in pos .. size
    BY <1>2
  <2>2. g[i + 1][0] = d[0] /\ g[i + 1] \in Data
    BY <1>1, <1>2, <2>1
  <2>3. g[i] = MovedEntry(g[i + 1], size, i + 1, i)
    BY <1>1, <2>1
  <2> HIDE DEF i
  <2>4. /\ size \in 1 .. leaf_max_size /\ i \in 0 .. size /\ i + 1 \in 0 .. size
        /\ RidSlotAt(size, i) < PAGE_WORDS /\ RidSlotAt(size, i + 1) < PAGE_WORDS
    BY <1>2, <2>1, LeafSizeAssumption, WordsAssumption DEF RidSlotAt, RidPageAt
  <2>5. \A w \in 0 .. (1 + size) :
            g[i][w] = IF w = KeyAt(i + 1) THEN g[i + 1][KeyAt(i)] ELSE g[i + 1][w]
    BY <2>2, <2>3, <2>4, MovedEntryData
  <2>6. 0 \in 0 .. (1 + size) /\ 0 # KeyAt(i + 1)
    BY <2>4 DEF KeyAt
  <2>7. g[i][0] = d[0]
    BY <2>2, <2>5, <2>6
  <2> QED BY <2>7 DEF i
<1>5. n \in Good
  <2> Good \in SUBSET Nat
    OBVIOUS
  <2> HIDE DEF Good, n
  <2> QED BY <1>2, <1>3, <1>4, Induction
<1>6. g[pos][0] = d[0] /\ g[pos] \in Data
  <2>1. size - n = pos /\ pos \in pos .. size
    BY <1>2
  <2> QED BY <1>1, <1>2, <1>5, <2>1
<1> QED BY <1>1, <1>6

\* InsertIntoLeaf counts the entry and leaves the page a leaf; behind the last
\* entry of a leaf that has one, it leaves the other keys alone.
LEMMA InsertIntoLeafData ==
  ASSUME NEW d \in Data, IsLeaf(d), SizeOf(d) \in 0 .. (leaf_max_size - 1),
         NEW key \in Int, NEW rid \in Int \X Int
  PROVE  /\ InsertIntoLeaf(d, key, rid) \in Data
         /\ IsLeaf(InsertIntoLeaf(d, key, rid))
         /\ SizeOf(InsertIntoLeaf(d, key, rid)) = SizeOf(d) + 1
         /\ BinarySearch(d, key) = SizeOf(d) /\ SizeOf(d) > 0 =>
              \A i \in 0 .. SizeOf(d) : InsertIntoLeaf(d, key, rid)[KeyAt(i)] =
                                          IF i = SizeOf(d) THEN key ELSE d[KeyAt(i)]
         /\ BinarySearch(d, key) = SizeOf(d) /\ SizeOf(d) > 0 =>
              /\ InsertIntoLeaf(d, key, rid)[3 * SizeOf(d) + 3] = rid[2]
              /\ \A w \in Words : w > 3 * SizeOf(d) + 3 => InsertIntoLeaf(d, key, rid)[w] = d[w]
<1> DEFINE size == SizeOf(d)
           pos == BinarySearch(d, key)
           e == ShiftedUp(d, size, pos)
           r == InsertIntoLeaf(d, key, rid)
<1>1. size \in Nat /\ size \in 0 .. (leaf_max_size - 1)
  BY LeafSizeAssumption
<1>2. pos \in 0 .. size
  BY <1>1, SearchResult
<1>3. e \in Data /\ e[0] = 1 /\ (pos = size => e = d)
  BY <1>1, <1>2, ShiftedUpData DEF IsLeaf
<1>4. r = [e EXCEPT ![KeyAt(pos)] = key, ![RidPageAt(size, pos)] = rid[1],
                    ![RidSlotAt(size, pos)] = rid[2], ![1] = size + 1]
  BY DEF InsertIntoLeaf
<1> HIDE DEF r, e, pos, size
<1>5. /\ KeyAt(pos) \in Words \ {0, 1} /\ RidPageAt(size, pos) \in Words \ {0, 1}
      /\ RidSlotAt(size, pos) \in Words \ {0, 1} /\ 0 \in Words /\ 1 \in Words
  BY <1>1, <1>2, LeafSizeAssumption, WordsAssumption DEF KeyAt, RidPageAt, RidSlotAt, Words
<1>6. r \in Data
  BY <1>1, <1>3, <1>4, <1>5 DEF Data
<1>7. r[0] = 1 /\ r[1] = size + 1
  BY <1>3, <1>4, <1>5 DEF Data
<1>8. ASSUME pos = size, size > 0, NEW i \in 0 .. size
      PROVE  r[KeyAt(i)] = IF i = size THEN key ELSE d[KeyAt(i)]
  <2>1. KeyAt(i) \in Words \ {1} /\ KeyAt(i) # RidPageAt(size, pos) /\ KeyAt(i) # RidSlotAt(size, pos)
    BY <1>1, <1>8, LeafSizeAssumption, WordsAssumption DEF KeyAt, RidPageAt, RidSlotAt, Words
  <2>2. KeyAt(i) = KeyAt(pos) <=> i = size
    BY <1>1, <1>8 DEF KeyAt
  <2>3. r[KeyAt(i)] = IF KeyAt(i) = KeyAt(pos) THEN key ELSE e[KeyAt(i)]
    BY <1>3, <1>4, <1>5, <2>1 DEF Data
  <2> QED BY <1>3, <1>8, <2>2, <2>3
<1>9. ASSUME pos = size, size > 0
      PROVE  /\ r[3 * size + 3] = rid[2]
             /\ \A w \in Words : w > 3 * size + 3 => r[w] = d[w]
  <2>1. /\ KeyAt(pos) < 3 * size + 3 /\ RidPageAt(size, pos) < 3 * size + 3
        /\ RidSlotAt(size, pos) = 3 * size + 3 /\ 3 * size + 3 # 1
        /\ KeyAt(pos) \in Int /\ RidPageAt(size, pos) \in Int
    BY <1>1, <1>9 DEF KeyAt, RidPageAt, RidSlotAt
  <2>2. r[RidSlotAt(size, pos)] = rid[2]
    BY <1>3, <1>4, <1>5 DEF Data
  <2>3. ASSUME NEW w \in Words, w > 3 * size + 3 PROVE r[w] = d[w]
    <3>1. w \in Int /\ 3 * size + 3 \in Int
      BY <1>1, WordsAssumption DEF Words
    <3>2. w # KeyAt(pos) /\ w # RidPageAt(size, pos) /\ w # RidSlotAt(size, pos) /\ w # 1
      BY <1>1, <2>1, <2>3, <3>1
    <3>3. r[w] = e[w]
      BY <1>3, <1>4, <1>5, <3>2 DEF Data
    <3> QED BY <1>3, <1>9, <3>3
  <2> QED BY <2>1, <2>2, <2>3
<1>10. SizeOf(d) = size /\ BinarySearch(d, key) = pos /\ r = InsertIntoLeaf(d, key, rid)
  BY DEF r, pos, size
<1>11. IsLeaf(r) /\ SizeOf(r) = size + 1
  BY <1>7 DEF IsLeaf, SizeOf
<1> QED BY <1>6, <1>8, <1>9, <1>10, <1>11

Drops(g, d, size, pos) ==
    g = [i \in pos .. (size - 1) |-> IF i = pos THEN d ELSE MovedEntry(g[i - 1], size, i - 1, i)]

LEMMA DropExists ==
  ASSUME NEW d \in Data, NEW size \in 1 .. leaf_max_size, NEW pos \in 0 .. (size - 1), SizeOf(d) = size
  PROVE  \E g : /\ g[pos] = d
                /\ \A i \in (pos + 1) .. (size - 1) : g[i] = MovedEntry(g[i - 1], size, i - 1, i)
                /\ RemovedFrom(d, pos) = [g[size - 1] EXCEPT ![1] = size - 1]
<1> DEFINE n == size - 1 - pos
           step == [a \in Nat \X Data |->
                      IF a[1] < n THEN MovedEntry(a[2], size, pos + a[1], pos + a[1] + 1) ELSE a[2]]
<1>1. n \in Nat /\ size \in Nat /\ pos \in Nat
  BY LeafSizeAssumption
<1>2. ASSUME NEW i \in (pos + 1) .. (size - 1), NEW e \in Data
      PROVE  MovedEntry(e, size, i - 1, i) \in Data
  <2>1. /\ i \in 0 .. size /\ i - 1 \in 0 .. size
        /\ RidSlotAt(size, i) < PAGE_WORDS /\ RidSlotAt(size, i - 1) < PAGE_WORDS
    BY <1>1, LeafSizeAssumption, WordsAssumption DEF RidSlotAt, RidPageAt
  <2> QED BY <2>1, MovedEntryData
<1>3. step \in [Nat \X Data -> Data]
  <2> SUFFICES ASSUME NEW k \in Nat, NEW e \in Data, k < n
               PROVE  MovedEntry(e, size, pos + k, pos + k + 1) \in Data
    OBVIOUS
  <2>1. pos + k + 1 \in (pos + 1) .. (size - 1) /\ pos + k = (pos + k + 1) - 1
    BY <1>1
  <2> QED BY <1>2, <2>1
<1>4. PICK F : Iterates(F, n, Data, d, step)
  <2> HIDE DEF step, n
  <2> QED BY <1>1, <1>3, StepsExist
<1>5. /\ F \in [0 .. n -> Data] /\ F[0] = d
      /\ \A k \in 0 .. (n - 1) : F[k + 1] = MovedEntry(F[k], size, pos + k, pos + k + 1)
  <2>1. F \in [0 .. n -> Data] /\ F[0] = d /\ \A k \in 0 .. (n - 1) : F[k + 1] = step[<<k, F[k]>>]
    BY <1>4 DEF Iterates
  <2>2. \A k \in 0 .. (n - 1) : <<k, F[k]>> \in Nat \X Data /\ k < n
    BY <1>1, <2>1
  <2> HIDE DEF n
  <2> QED BY <2>1, <2>2
<1> HIDE DEF step
<1> DEFINE G == [i \in pos .. (size - 1) |-> F[i - pos]]
<1>6. G[pos] = d
  BY <1>1, <1>5
<1>7. \A i \in (pos + 1) .. (size - 1) : G[i] = MovedEntry(G[i - 1], size, i - 1, i)
  <2> SUFFICES ASSUME NEW i \in (pos + 1) .. (size - 1) PROVE G[i] = MovedEntry(G[i - 1], size, i - 1, i)
    OBVIOUS
  <2> DEFINE k == i - 1 - pos
  <2>1. k \in 0 .. (n - 1) /\ pos + k = i - 1 /\ pos + k + 1 = i /\ k + 1 = i - pos /\ k = (i - 1) - pos
    BY <1>1
  <2>2. F[i - pos] = MovedEntry(F[k], size, i - 1, i)
    <3> HIDE DEF n, k
    <3>1. F[k + 1] = MovedEntry(F[k], size, pos + k, pos + k + 1)
      BY <1>5, <2>1
    <3> QED BY <2>1, <3>1
  <2>3. G[i] = F[i - pos] /\ G[i - 1] = F[k]
    BY <1>1, <2>1
  <2> QED BY <2>2, <2>3
<1> HIDE DEF G
<1>8. Drops(G, d, size, pos)
  <2>1. \A i \in pos .. (size - 1) : i # pos => i \in (pos + 1) .. (size - 1)
    BY <1>1
  <2>2. G = [i \in pos .. (size - 1) |-> G[i]]
    BY DEF G
  <2>3. \A i \in pos .. (size - 1) : G[i] = IF i = pos THEN d ELSE MovedEntry(G[i - 1], size, i - 1, i)
    BY <1>6, <1>7, <2>1
  <2> QED BY <2>2, <2>3 DEF Drops
<1> DEFINE chosen == CHOOSE g : Drops(g, d, size, pos)
<1>9. Drops(chosen, d, size, pos)
  BY <1>8, Zenon
<1>10. RemovedFrom(d, pos) = [chosen[size - 1] EXCEPT ![1] = size - 1]
  BY Zenon DEF RemovedFrom, Drops
<1> HIDE DEF chosen
<1>11. /\ chosen[pos] = d
       /\ \A i \in (pos + 1) .. (size - 1) : chosen[i] = MovedEntry(chosen[i - 1], size, i - 1, i)
  <2>1. \A i \in pos .. (size - 1) :
           chosen[i] = IF i = pos THEN d ELSE MovedEntry(chosen[i - 1], size, i - 1, i)
    BY <1>9 DEF Drops
  <2>2. pos \in pos .. (size - 1) /\ \A i \in (pos + 1) .. (size - 1) : i \in pos .. (size - 1) /\ i # pos
    BY <1>1
  <2> QED BY <2>1, <2>2
<1> QED BY <1>10, <1>11

\* Remove takes out the key at pos and moves the later ones down by one.
LEMMA RemovedFromData ==
  ASSUME NEW d \in Data, IsLeaf(d), SizeOf(d) \in 1 .. leaf_max_size, NEW pos \in 0 .. (SizeOf(d) - 1)
  PROVE  /\ RemovedFrom(d, pos) \in Data
         /\ IsLeaf(RemovedFrom(d, pos))
         /\ SizeOf(RemovedFrom(d, pos)) = SizeOf(d) - 1
         /\ \A i \in 0 .. (SizeOf(d) - 2) :
               RemovedFrom(d, pos)[KeyAt(i)] = IF i < pos THEN d[KeyAt(i)] ELSE d[KeyAt(i + 1)]
<1> DEFINE size == SizeOf(d)
           r == RemovedFrom(d, pos)
<1>1. size \in Nat /\ size \in 1 .. leaf_max_size /\ pos \in 0 .. (size - 1) /\ pos \in Nat
  BY LeafSizeAssumption
<1>2. PICK g : /\ g[pos] = d
               /\ \A i \in (pos + 1) .. (size - 1) : g[i] = MovedEntry(g[i - 1], size, i - 1, i)
               /\ r = [g[size - 1] EXCEPT ![1] = size - 1]
  BY <1>1, DropExists
<1> HIDE DEF r
<1>3. d[0] = 1
  BY DEF IsLeaf
<1> DEFINE Moved(k) ==
             /\ g[pos + k] \in Data
             /\ g[pos + k][0] = 1
             /\ \A i \in 0 .. (size - 1) : g[pos + k][KeyAt(i)] =
                   IF i \in pos .. (pos + k - 1) THEN d[KeyAt(i + 1)] ELSE d[KeyAt(i)]
           Good == {k \in Nat : pos + k <= size - 1 => Moved(k)}
<1> HIDE DEF size
<1>4. 0 \in Good
  <2>1. pos + 0 = pos /\ \A i \in 0 .. (size - 1) : ~(i \in pos .. (pos + 0 - 1))
    BY <1>1
  <2> QED BY <1>2, <1>3, <2>1
<1>5. ASSUME NEW k \in Good PROVE k + 1 \in Good
  <2> SUFFICES ASSUME pos + (k + 1) <= size - 1 PROVE Moved(k + 1)
    <3>1. k + 1 \in Nat
      OBVIOUS
    <3> HIDE DEF Moved
    <3> QED BY <3>1
  <2> DEFINE to == pos + k
             from == pos + (k + 1)
  <2>1. to \in 0 .. size /\ from \in (pos + 1) .. (size - 1) /\ from \in 0 .. size /\ from - 1 = to /\ from = to + 1
    BY <1>1
  <2>2. Moved(k)
    <3>1. pos + k <= size - 1
      BY <1>1
    <3> HIDE DEF Moved
    <3> QED BY <3>1
  <2>3. g[from] = MovedEntry(g[to], size, to, from)
    BY <1>2, <2>1
  <2>4. RidSlotAt(size, to) < PAGE_WORDS /\ RidSlotAt(size, from) < PAGE_WORDS
    BY <1>1, <2>1, LeafSizeAssumption, WordsAssumption DEF RidSlotAt, RidPageAt
  <2>5. g[to] \in Data
    BY <2>2
  <2> HIDE DEF to, from
  <2>6. /\ g[from] \in Data
        /\ \A w \in 0 .. (1 + size) : g[from][w] = IF w = KeyAt(to) THEN g[to][KeyAt(from)] ELSE g[to][w]
    BY <1>1, <2>1, <2>3, <2>4, <2>5, MovedEntryData
  <2>7. g[from][0] = 1
    <3>1. 0 \in 0 .. (1 + size) /\ 0 # KeyAt(to) /\ g[to][0] = 1
      BY <1>1, <2>1, <2>2 DEF KeyAt, to
    <3> QED BY <2>6, <3>1
  <2>8. ASSUME NEW i \in 0 .. (size - 1)
        PROVE  g[from][KeyAt(i)] = IF i \in pos .. (pos + (k + 1) - 1) THEN d[KeyAt(i + 1)] ELSE d[KeyAt(i)]
    <3>1. KeyAt(i) \in 0 .. (1 + size) /\ (KeyAt(i) = KeyAt(to) <=> i = to)
      BY <1>1, <2>1 DEF KeyAt
    <3>2. g[to][KeyAt(i)] = IF i \in pos .. (pos + k - 1) THEN d[KeyAt(i + 1)] ELSE d[KeyAt(i)]
      BY <2>2 DEF to
    <3>3. g[to][KeyAt(from)] = d[KeyAt(from)]
      <4>1. from \in 0 .. (size - 1) /\ ~(from \in pos .. (pos + k - 1))
        BY <1>1, <2>1 DEF from
      <4> QED BY <2>2, <4>1 DEF to
    <3>4. CASE i = to
      <4>1. i \in pos .. (pos + (k + 1) - 1) /\ i + 1 = from
        BY <1>1, <2>1, <3>4 DEF to
      <4> QED BY <2>6, <3>1, <3>3, <3>4, <4>1
    <3>5. CASE i # to
      <4>1. i \in pos .. (pos + (k + 1) - 1) <=> i \in pos .. (pos + k - 1)
        BY <1>1, <3>5 DEF to
      <4> QED BY <2>6, <3>1, <3>2, <3>5, <4>1
    <3> QED BY <3>4, <3>5
  <2> QED BY <2>6, <2>7, <2>8 DEF from
<1>6. size - 1 - pos \in Good
  <2> Good \in SUBSET Nat
    OBVIOUS
  <2>1. size - 1 - pos \in Nat
    BY <1>1
  <2> HIDE DEF Good
  <2> QED BY <1>4, <1>5, <2>1, Induction
<1> DEFINE e == g[size - 1]
<1>7. /\ e \in Data /\ e[0] = 1
      /\ \A i \in 0 .. (size - 1) : e[KeyAt(i)] =
            IF i \in pos .. (size - 2) THEN d[KeyAt(i + 1)] ELSE d[KeyAt(i)]
  <2>1. pos + (size - 1 - pos) = size - 1 /\ size - 1 - pos \in Nat /\ (size - 1) - 1 = size - 2
    BY <1>1
  <2>2. Moved(size - 1 - pos)
    <3> HIDE DEF Moved
    <3> QED BY <1>1, <1>6, <2>1
  <2> QED BY <2>1, <2>2
<1> HIDE DEF e
<1>8. r = [e EXCEPT ![1] = size - 1]
  BY <1>2 DEF e
<1>9. 0 \in Words /\ 1 \in Words /\ \A i \in 0 .. (size - 1) : KeyAt(i) \in Words \ {0, 1}
  BY <1>1, LeafSizeAssumption, WordsAssumption DEF KeyAt, Words
<1>10. r \in Data /\ r[0] = 1 /\ r[1] = size - 1
  BY <1>1, <1>7, <1>8, <1>9 DEF Data
<1>11. ASSUME NEW i \in 0 .. (size - 2)
       PROVE  r[KeyAt(i)] = IF i < pos THEN d[KeyAt(i)] ELSE d[KeyAt(i + 1)]
  <2>1. i \in 0 .. (size - 1) /\ (i \in pos .. (size - 2) <=> ~(i < pos))
    BY <1>1
  <2>2. r[KeyAt(i)] = e[KeyAt(i)]
    BY <1>7, <1>8, <1>9, <2>1 DEF Data
  <2> QED BY <1>7, <2>1, <2>2
<1> QED BY <1>10, <1>11 DEF r, size, IsLeaf, SizeOf

-----------------------------------------------------------------------------
(* Pages that are written as a whole *)

LEMMA SmallWords == 0 .. 8 \subseteq Words /\ PAGE_WORDS \in Nat
BY LeafSizeAssumption, WordsAssumption DEF Words

FirstLeaf(key, rid) ==
    [ZeroPage EXCEPT ![0] = 1, ![1] = 1, ![2] = key, ![3] = rid[1], ![4] = rid[2], ![5] = -1]

LEMMA FirstLeafData ==
  ASSUME NEW key \in Int, NEW rid \in Int \X Int
  PROVE  /\ FirstLeaf(key, rid) \in Data /\ IsLeaf(FirstLeaf(key, rid))
         /\ SizeOf(FirstLeaf(key, rid)) = 1 /\ FirstLeaf(key, rid)[KeyAt(0)] = key
         /\ <<FirstLeaf(key, rid)[3], FirstLeaf(key, rid)[4]>> = rid
         /\ \A w \in Words : w > 5 => FirstLeaf(key, rid)[w] = 0
BY SmallWords DEF FirstLeaf, ZeroPage, Data, IsLeaf, SizeOf, KeyAt

LEMMA NoLeafData ==
  /\ ZeroPage \in Data /\ ~IsLeaf(ZeroPage) /\ SizeOf(ZeroPage) = 0
  /\ TablePage \in Data /\ ~IsLeaf(TablePage) /\ SizeOf(TablePage) = 12
  /\ \A w \in Words : ZeroPage[w] = 0 /\ TablePage[w] = IF w = 1 THEN 12 ELSE 0
BY SmallWords DEF ZeroPage, TablePage, Data, IsLeaf, SizeOf

LEMMA NewRootData ==
  ASSUME NEW key \in Int, NEW left \in Int, NEW right \in Int
  PROVE  /\ NewRoot(key, left, right) \in Data /\ ~IsLeaf(NewRoot(key, left, right))
         /\ SizeOf(NewRoot(key, left, right)) = 1
         /\ NewRoot(key, left, right)[4] = right /\ NewRoot(key, left, right)[5] = 0
BY SmallWords DEF NewRoot, ZeroPage, Data, IsLeaf, SizeOf

\* Whatever FindLeafPage reads as a child of a page that is no leaf is a page.
LEMMA ChildIsPage ==
  ASSUME NEW d \in Data, PageShape(d), ~IsLeaf(d), 0 \in PageIds, NEW key \in Int,
         NEW index, index = 0 \/ index = BinarySearch(d, key)
  PROVE  WordOf(d, ChildAt(SizeOf(d), index)) \in PageIds
<1>1. ASSUME SizeOf(d) \in Nat PROVE index \in 0 .. SizeOf(d)
  <2>1. BinarySearch(d, key) \in 0 .. SizeOf(d)
    BY <1>1, SearchResult
  <2> QED BY <1>1, <2>1
<1>2. CASE d = ZeroPage
  <2>1. SizeOf(d) = 0 /\ index = 0
    BY <1>1, <1>2, NoLeafData
  <2>2. ChildAt(SizeOf(d), index) = 3
    BY <2>1 DEF ChildAt
  <2> QED BY <1>2, <2>2, NoLeafData DEF WordOf
<1>3. CASE d = TablePage
  <2>1. SizeOf(d) = 12 /\ index \in 0 .. 12
    BY <1>1, <1>3, NoLeafData
  <2>2. ChildAt(SizeOf(d), index) # 1
    BY <2>1 DEF ChildAt
  <2> QED BY <1>3, <2>2, NoLeafData DEF WordOf
<1>4. CASE \E k \in Int, left, right \in PageIds : d = NewRoot(k, left, right)
  <2>1. PICK k \in Int, left \in PageIds, right \in PageIds : d = NewRoot(k, left, right)
    BY <1>4
  <2>2. SizeOf(d) = 1 /\ d[4] = right /\ d[5] = 0
    <3>1. left \in Int /\ right \in Int
      BY MaxPagesAssumption DEF PageIds
    <3> QED BY <2>1, <3>1, NewRootData
  <2>3. index \in 0 .. 1
    BY <1>1, <2>2
  <2>4. ChildAt(SizeOf(d), index) \in {4, 5}
    BY <2>2, <2>3 DEF ChildAt
  <2> QED BY <2>2, <2>4, SmallWords DEF WordOf
<1> QED BY <1>2, <1>3, <1>4 DEF PageShape

\* A split leaves two leaves that are not full, with all the entries.
LEMMA SplitData ==
  ASSUME NEW d \in Data, IsLeaf(d), SizeOf(d) = leaf_max_size, NEW id \in Int
  PROVE  /\ SplitOld(d, id) \in Data /\ SplitNew(d) \in Data
         /\ IsLeaf(SplitOld(d, id)) /\ IsLeaf(SplitNew(d))
         /\ SizeOf(SplitOld(d, id)) \in 1 .. (leaf_max_size - 1)
         /\ SizeOf(SplitNew(d)) \in 1 .. (leaf_max_size - 1)
         /\ SizeOf(SplitOld(d, id)) + SizeOf(SplitNew(d)) = leaf_max_size
<1> DEFINE from == SplitPoint(d)
           size == SplitSize(d)
           new == SplitNew(d)
           old == SplitOld(d, id)
           lm == leaf_max_size
<1>1. lm \in Nat /\ lm >= 2
  BY LeafSizeAssumption
<1>2. from \in 1 .. (lm - 1) /\ size \in 1 .. (lm - 1) /\ from + size = lm
  BY <1>1 DEF SplitPoint, SplitSize
<1> HIDE DEF from, size
<1>3. old = [d EXCEPT ![1] = from, ![NextLeafAt(SizeOf(d))] = id]
  BY DEF SplitOld, from
<1>4. NextLeafAt(SizeOf(d)) \in Words \ {0, 1} /\ 0 \in Words /\ 1 \in Words
  BY <1>1, WordsAssumption DEF NextLeafAt, Words
<1>5. old \in Data /\ old[0] = 1 /\ old[1] = from
  BY <1>2, <1>3, <1>4 DEF Data, IsLeaf
<1>6. new = [w \in Words |->
               CASE w = 0 -> 1
                 [] w = 1 -> size
                 [] w \in KeyAt(0) .. (KeyAt(size) - 1) -> d[w + from]
                 [] w \in RidPageAt(size, 0) .. (RidPageAt(size, size) - 1) ->
                        d[w - RidPageAt(size, 0) + RidPageAt(SizeOf(d), from)]
                 [] w = NextLeafAt(size) -> d[NextLeafAt(SizeOf(d))]
                 [] OTHER -> 0]
  BY DEF SplitNew, from, size
<1> HIDE DEF new, old
<1>7. new[0] = 1 /\ new[1] = size
  <2>1. ~(1 \in KeyAt(0) .. (KeyAt(size) - 1)) /\ ~(1 \in RidPageAt(size, 0) .. (RidPageAt(size, size) - 1)) /\ 1 # NextLeafAt(size)
    BY <1>2 DEF KeyAt, RidPageAt, NextLeafAt
  <2>2. ~(0 \in KeyAt(0) .. (KeyAt(size) - 1)) /\ ~(0 \in RidPageAt(size, 0) .. (RidPageAt(size, size) - 1)) /\ 0 # NextLeafAt(size)
    BY <1>2 DEF KeyAt, RidPageAt, NextLeafAt
  <2> QED BY <1>4, <1>6, <2>1, <2>2
<1>8. ASSUME NEW w \in Words PROVE new[w] \in Int
  <2>1. w \in KeyAt(0) .. (KeyAt(size) - 1) => w + from \in Words
    BY <1>1, <1>2, WordsAssumption DEF KeyAt, Words
  <2>2. w \in RidPageAt(size, 0) .. (RidPageAt(size, size) - 1) =>
           w - RidPageAt(size, 0) + RidPageAt(SizeOf(d), from) \in Words
    BY <1>1, <1>2, WordsAssumption DEF RidPageAt, Words
  <2>3. \A v \in Words : d[v] \in Int
    BY DEF Data
  <2>4. size \in Int
    BY <1>2
  <2>5. CASE w = 0 \/ w = 1
    BY <1>7, <2>4, <2>5
  <2>6. CASE w # 0 /\ w # 1 /\ w \in KeyAt(0) .. (KeyAt(size) - 1)
    <3>1. ~(w \in RidPageAt(size, 0) .. (RidPageAt(size, size) - 1)) /\ w # NextLeafAt(size)
      BY <1>2, <2>6 DEF KeyAt, RidPageAt, NextLeafAt
    <3>2. new[w] = d[w + from]
      BY <1>6, <2>6, <3>1
    <3> QED BY <2>1, <2>3, <2>6, <3>2
  <2>7. CASE w # 0 /\ w # 1 /\ w \in RidPageAt(size, 0) .. (RidPageAt(size, size) - 1)
    <3>1. ~(w \in KeyAt(0) .. (KeyAt(size) - 1)) /\ w # NextLeafAt(size)
      BY <1>2, <2>7 DEF KeyAt, RidPageAt, NextLeafAt
    <3>2. new[w] = d[w - RidPageAt(size, 0) + RidPageAt(SizeOf(d), from)]
      BY <1>6, <2>7, <3>1
    <3> QED BY <2>2, <2>3, <2>7, <3>2
  <2>8. CASE w # 0 /\ w # 1 /\ w = NextLeafAt(size)
    <3>1. ~(w \in KeyAt(0) .. (KeyAt(size) - 1)) /\ ~(w \in RidPageAt(size, 0) .. (RidPageAt(size, size) - 1))
      BY <1>2, <2>8 DEF KeyAt, RidPageAt, NextLeafAt
    <3>2. new[w] = d[NextLeafAt(SizeOf(d))]
      BY <1>6, <2>8, <3>1
    <3> QED BY <1>4, <2>3, <3>2
  <2>9. CASE /\ w # 0 /\ w # 1 /\ w # NextLeafAt(size)
             /\ ~(w \in KeyAt(0) .. (KeyAt(size) - 1))
             /\ ~(w \in RidPageAt(size, 0) .. (RidPageAt(size, size) - 1))
    <3>1. new[w] = 0
      BY <1>6, <2>9
    <3> QED BY <3>1
  <2> QED BY <2>5, <2>6, <2>7, <2>8, <2>9
<1>9. new \in Data
  <2>1. new = [w \in Words |-> new[w]]
    BY <1>6
  <2> QED BY <1>8, <2>1 DEF Data
<1> QED BY <1>2, <1>5, <1>7, <1>9 DEF IsLeaf, SizeOf, new, old

-----------------------------------------------------------------------------
(* Pages, descents and iterators keep their form *)

LEMMA OpRecord ==
  ASSUME NEW name \in OpNames, NEW key \in Int, NEW rid \in Int \X Int, NEW page \in Int
  PROVE  [name |-> name, key |-> key, rid |-> rid, page |-> page]
            \in [name : OpNames, key : Int, rid : Int \X Int, page : Int]
OBVIOUS

LEMMA NothingRuns ==
  /\ NoOp \in [name : OpNames, key : Int, rid : Int \X Int, page : Int]
  /\ NoIter \in [page : Int, page_id : Int, key_index : Int, is_end : BOOLEAN]
<1>1. <<0, 0>> \in Int \X Int /\ -1 \in Int
  OBVIOUS
<1>2. NoOp \in [name : OpNames, key : Int, rid : Int \X Int, page : Int]
  BY <1>1 DEF NoOp, OpNames
<1>3. NoIter \in [page : Int, page_id : Int, key_index : Int, is_end : BOOLEAN]
  BY <1>1 DEF NoIter
<1> QED BY <1>2, <1>3

LEMMA BaseInit == Init => BaseInv
<1> SUFFICES ASSUME Init PROVE BaseInv
  OBVIOUS
<1>1. TypeOK
  <2>1. data \in [PageIds -> Data] /\ pins \in [PageIds -> Int] /\ next_page_id \in Nat
    BY NoLeafData DEF Init
  <2>2. /\ op \in [name : OpNames, key : Int, rid : Int \X Int, page : Int]
        /\ iter \in [page : Int, page_id : Int, key_index : Int, is_end : BOOLEAN]
    BY NothingRuns DEF Init
  <2> QED BY <2>1, <2>2 DEF Init, TypeOK
<1>2. ShapeInv
  <2> SUFFICES ASSUME NEW p \in PageIds
               PROVE  /\ PageShape(data[p]) /\ ~IsLeaf(data[p])
                      /\ p >= next_page_id => data[p] = ZeroPage
    BY DEF ShapeInv
  <2>1. /\ p \in Int /\ next_page_id \in Int
        /\ data[p] = IF p < next_page_id THEN TablePage ELSE ZeroPage
    BY MaxPagesAssumption DEF Init, PageIds
  <2>2. p >= next_page_id => data[p] = ZeroPage
    BY <2>1
  <2> QED BY <2>1, <2>2, NoLeafData DEF PageShape
<1>3. OpInv /\ IterInv
  BY DEF Init, OpInv, IterInv, RootIsLeaf
<1> QED BY <1>1, <1>2, <1>3 DEF BaseInv

\* What an operation finds when it has reached a leaf.
LEMMA AtLeafFacts ==
  ASSUME BaseInv, pc = "at", IsLeaf(data[op.page])
  PROVE  /\ op.page \in PageIds /\ op.page \in Nat /\ op.page < next_page_id
         /\ data[op.page] \in Data
         /\ SizeOf(data[op.page]) \in 0 .. leaf_max_size
         /\ op.key \in Int /\ op.rid \in Int \X Int
         /\ root_page_id \in PageIds /\ (RootIsLeaf => op.page = root_page_id)
<1>1. op.page \in PageIds /\ root_page_id # -1 /\ (RootIsLeaf => op.page = root_page_id)
  BY DEF BaseInv, OpInv
<1>2. op.page \in Nat /\ next_page_id \in Nat
  BY <1>1, MaxPagesAssumption DEF BaseInv, TypeOK, PageIds
<1>3. op.page < next_page_id
  <2>1. data[op.page] # ZeroPage
    BY NoLeafData
  <2> QED BY <1>1, <1>2, <2>1 DEF BaseInv, ShapeInv
<1> QED BY <1>1, <1>2, <1>3 DEF BaseInv, TypeOK, ShapeInv

LeavesStay == \A p \in PageIds : IsLeaf(data[p]) => IsLeaf(data'[p])

\* A leaf is written to a page in use, or to the next one.
LEMMA LeafWritten ==
  ASSUME BaseInv, NEW p \in PageIds, NEW d \in Data, IsLeaf(d), SizeOf(d) \in 0 .. leaf_max_size,
         data' = [data EXCEPT ![p] = d],
         next_page_id' \in Nat, next_page_id' >= next_page_id, p < next_page_id'
  PROVE  data' \in [PageIds -> Data] /\ ShapeInv' /\ LeavesStay
<1>1. data \in [PageIds -> Data] /\ next_page_id \in Nat
  BY DEF BaseInv, TypeOK
<1>2. \A q \in PageIds : q \in Nat /\ data'[q] = IF q = p THEN d ELSE data[q]
  BY <1>1, MaxPagesAssumption DEF PageIds
<1>3. \A q \in PageIds : PageShape(data'[q])
  BY <1>2 DEF BaseInv, ShapeInv, PageShape
<1>4. \A q \in PageIds : q >= next_page_id' => data'[q] = ZeroPage
  BY <1>1, <1>2 DEF BaseInv, ShapeInv
<1>5. \A q \in PageIds : IsLeaf(data'[q]) => SizeOf(data'[q]) \in 0 .. leaf_max_size
  BY <1>2 DEF BaseInv, ShapeInv
<1>6. LeavesStay
  BY <1>2 DEF LeavesStay
<1> QED BY <1>1, <1>3, <1>4, <1>5, <1>6 DEF ShapeInv

LEMMA InsertFirstEffect ==
  ASSUME BaseInv, NEW key \in Int, NEW rid \in Int \X Int, InsertFirst(key, rid)
  PROVE  /\ next_page_id \in PageIds
         /\ data' = [data EXCEPT ![next_page_id] = FirstLeaf(key, rid)]
         /\ data[next_page_id] = ZeroPage
         /\ data' \in [PageIds -> Data] /\ ShapeInv' /\ LeavesStay
<1>1. next_page_id \in Nat
  BY DEF BaseInv, TypeOK
<1>2. next_page_id \in PageIds
  BY <1>1, MaxPagesAssumption DEF InsertFirst, CanAlloc, PageIds
<1>3. data' = [data EXCEPT ![next_page_id] = FirstLeaf(key, rid)] /\ next_page_id' = next_page_id + 1
  BY DEF InsertFirst, FirstLeaf
<1>4. data[next_page_id] = ZeroPage
  BY <1>1, <1>2 DEF BaseInv, ShapeInv
<1>5. /\ FirstLeaf(key, rid) \in Data /\ IsLeaf(FirstLeaf(key, rid))
      /\ SizeOf(FirstLeaf(key, rid)) \in 0 .. leaf_max_size
  BY FirstLeafData, LeafSizeAssumption
<1>6. next_page_id' \in Nat /\ next_page_id' >= next_page_id /\ next_page_id < next_page_id'
  BY <1>1, <1>3
<1> HIDE DEF FirstLeaf
<1>7. data' \in [PageIds -> Data] /\ ShapeInv' /\ LeavesStay
  <2>1. PICK p \in PageIds : p = next_page_id
    BY <1>2
  <2> QED BY <1>3, <1>5, <1>6, <2>1, LeafWritten
<1> QED BY <1>2, <1>3, <1>4, <1>7

LEMMA InsertWithRoomEffect ==
  ASSUME BaseInv, InsertWithRoom
  PROVE  \E d \in Data :
            /\ d = InsertIntoLeaf(data[op.page], op.key, op.rid)
            /\ IsLeaf(d) /\ SizeOf(d) = SizeOf(data[op.page]) + 1
            /\ data' = [data EXCEPT ![op.page] = d]
            /\ data' \in [PageIds -> Data] /\ ShapeInv' /\ LeavesStay
<1>1. pc = "at" /\ IsLeaf(data[op.page]) /\ SizeOf(data[op.page]) < leaf_max_size
  BY DEF InsertWithRoom, AtLeaf
<1>2. /\ op.page \in PageIds /\ op.page \in Nat /\ op.page < next_page_id
      /\ data[op.page] \in Data
      /\ SizeOf(data[op.page]) \in 0 .. leaf_max_size
      /\ op.key \in Int /\ op.rid \in Int \X Int
  BY <1>1, AtLeafFacts
<1>3. PICK d : d = InsertIntoLeaf(data[op.page], op.key, op.rid)
  OBVIOUS
<1>4. SizeOf(data[op.page]) \in 0 .. (leaf_max_size - 1)
  BY <1>1, <1>2, LeafSizeAssumption
<1>5. d \in Data /\ IsLeaf(d) /\ SizeOf(d) = SizeOf(data[op.page]) + 1
  BY <1>1, <1>2, <1>3, <1>4, InsertIntoLeafData
<1>6. data' = [data EXCEPT ![op.page] = d] /\ next_page_id' = next_page_id
  <2>1. data' = [data EXCEPT ![op.page] = InsertIntoLeaf(data[op.page], op.key, op.rid)]
    BY DEF InsertWithRoom
  <2> QED BY <1>3, <2>1 DEF InsertWithRoom
<1>7. data' \in [PageIds -> Data] /\ ShapeInv' /\ LeavesStay
  <2>1. PICK p \in PageIds : p = op.page
    BY <1>2
  <2>2. SizeOf(d) \in 0 .. leaf_max_size /\ next_page_id \in Nat
    BY <1>4, <1>5, LeafSizeAssumption DEF BaseInv, TypeOK
  <2>3. next_page_id' \in Nat /\ next_page_id' >= next_page_id /\ p < next_page_id'
    BY <1>2, <1>6, <2>1, <2>2
  <2> QED BY <1>5, <1>6, <2>1, <2>2, <2>3, LeafWritten
<1> QED BY <1>3, <1>5, <1>6, <1>7

LEMMA RemoveEffect ==
  ASSUME BaseInv, Remove
  PROVE  \E d \in Data, pos \in 0 .. (SizeOf(data[op.page]) - 1) :
            /\ pos = FoundAt(data[op.page], op.key) /\ data[op.page][KeyAt(pos)] = op.key
            /\ d = RemovedFrom(data[op.page], pos)
            /\ IsLeaf(d) /\ SizeOf(d) = SizeOf(data[op.page]) - 1
            /\ data' = [data EXCEPT ![op.page] = d]
            /\ root_page_id' = IF op.page = root_page_id /\ SizeOf(d) = 0 THEN -1 ELSE root_page_id
            /\ data' \in [PageIds -> Data] /\ ShapeInv' /\ LeavesStay
<1>1. pc = "at" /\ IsLeaf(data[op.page]) /\ Removable(data[op.page], op.key)
  BY DEF Remove, AtLeaf
<1>2. /\ op.page \in PageIds /\ op.page \in Nat /\ op.page < next_page_id
      /\ data[op.page] \in Data
      /\ SizeOf(data[op.page]) \in 0 .. leaf_max_size
      /\ op.key \in Int
  BY <1>1, AtLeafFacts
<1>3. PICK pos : pos = FoundAt(data[op.page], op.key)
  OBVIOUS
<1>4. PICK d : d = RemovedFrom(data[op.page], pos)
  OBVIOUS
<1>5. BinarySearch(data[op.page], op.key) \in 0 .. SizeOf(data[op.page])
  BY <1>2, SearchResult
<1>6. /\ pos \in 0 .. (SizeOf(data[op.page]) - 1) /\ data[op.page][KeyAt(pos)] = op.key
      /\ SizeOf(data[op.page]) \in 1 .. leaf_max_size
  BY <1>1, <1>2, <1>3, <1>5, LeafSizeAssumption DEF Removable, FoundAt
<1>7. d \in Data /\ IsLeaf(d) /\ SizeOf(d) = SizeOf(data[op.page]) - 1
  BY <1>1, <1>2, <1>4, <1>6, RemovedFromData
<1>8. /\ data' = [data EXCEPT ![op.page] = d] /\ next_page_id' = next_page_id
      /\ root_page_id' = IF op.page = root_page_id /\ SizeOf(d) = 0 THEN -1 ELSE root_page_id
  BY <1>3, <1>4 DEF Remove
<1>9. data' \in [PageIds -> Data] /\ ShapeInv' /\ LeavesStay
  <2>1. PICK p \in PageIds : p = op.page
    BY <1>2
  <2>2. SizeOf(d) \in 0 .. leaf_max_size /\ next_page_id \in Nat
    BY <1>6, <1>7, LeafSizeAssumption DEF BaseInv, TypeOK
  <2>3. next_page_id' \in Nat /\ next_page_id' >= next_page_id /\ p < next_page_id'
    BY <1>2, <1>8, <2>1, <2>2
  <2> QED BY <1>7, <1>8, <2>1, <2>2, <2>3, LeafWritten
<1> QED BY <1>3, <1>4, <1>6, <1>7, <1>8, <1>9

\* The two halves of a full leaf hold its entries and the new one.
LEMMA HalvesData ==
  ASSUME BaseInv, pc = "at", IsLeaf(data[op.page]), SizeOf(data[op.page]) >= leaf_max_size
  PROVE  \E a, b \in Data :
            /\ WithHalves(next_page_id) = [data EXCEPT ![op.page] = a, ![next_page_id] = b]
            /\ IsLeaf(a) /\ SizeOf(a) \in 1 .. leaf_max_size
            /\ IsLeaf(b) /\ SizeOf(b) \in 1 .. leaf_max_size
            /\ SizeOf(a) + SizeOf(b) = leaf_max_size + 1
<1>1. /\ op.page \in Nat /\ op.page < next_page_id /\ data[op.page] \in Data
      /\ SizeOf(data[op.page]) = leaf_max_size
      /\ op.key \in Int /\ op.rid \in Int \X Int /\ next_page_id \in Int
  <2>1. next_page_id \in Nat
    BY DEF BaseInv, TypeOK
  <2>2. SizeOf(data[op.page]) \in 0 .. leaf_max_size
    BY AtLeafFacts
  <2>3. SizeOf(data[op.page]) = leaf_max_size
    BY <2>2, LeafSizeAssumption
  <2> QED BY <2>1, <2>3, AtLeafFacts
<1> DEFINE old == SplitOld(data[op.page], next_page_id)
           new == SplitNew(data[op.page])
           lm == leaf_max_size
<1>2. /\ old \in Data /\ new \in Data /\ IsLeaf(old) /\ IsLeaf(new)
      /\ SizeOf(old) \in 1 .. (lm - 1) /\ SizeOf(new) \in 1 .. (lm - 1)
      /\ SizeOf(old) + SizeOf(new) = lm
  BY <1>1, SplitData
<1>3. lm \in Nat /\ op.page # next_page_id
  BY <1>1, LeafSizeAssumption
<1> DEFINE oldPlus == InsertIntoLeaf(old, op.key, op.rid)
           newPlus == InsertIntoLeaf(new, op.key, op.rid)
           into == IF op.key < new[2] THEN op.page ELSE next_page_id
<1>4. WithHalves(next_page_id) =
         [data EXCEPT ![op.page] = IF into = op.page THEN oldPlus ELSE old,
                      ![next_page_id] = IF into = op.page THEN new ELSE newPlus]
  BY DEF WithHalves
<1> HIDE DEF old, new
<1>5. SizeOf(old) \in 0 .. (lm - 1) /\ SizeOf(new) \in 0 .. (lm - 1)
  BY <1>2, <1>3
<1>6. /\ oldPlus \in Data /\ IsLeaf(oldPlus) /\ SizeOf(oldPlus) = SizeOf(old) + 1
      /\ newPlus \in Data /\ IsLeaf(newPlus) /\ SizeOf(newPlus) = SizeOf(new) + 1
  BY <1>1, <1>2, <1>5, InsertIntoLeafData
<1> HIDE DEF oldPlus, newPlus, into
<1>7. CASE into = op.page
  <2>1. WithHalves(next_page_id) = [data EXCEPT ![op.page] = oldPlus, ![next_page_id] = new]
    BY <1>4, <1>7
  <2>2. /\ SizeOf(oldPlus) \in 1 .. lm /\ SizeOf(new) \in 1 .. lm
        /\ SizeOf(oldPlus) + SizeOf(new) = lm + 1
    BY <1>2, <1>3, <1>6
  <2> QED BY <1>2, <1>6, <2>1, <2>2
<1>8. CASE into # op.page
  <2>1. WithHalves(next_page_id) = [data EXCEPT ![op.page] = old, ![next_page_id] = newPlus]
    BY <1>4, <1>8
  <2>2. /\ SizeOf(old) \in 1 .. lm /\ SizeOf(newPlus) \in 1 .. lm
        /\ SizeOf(old) + SizeOf(newPlus) = lm + 1
    BY <1>2, <1>3, <1>6
  <2> QED BY <1>2, <1>6, <2>1, <2>2
<1> QED BY <1>7, <1>8

\* A page of the tree keeps its place, a page of another kind is never written.
LEMMA InsertSplitEffect ==
  ASSUME BaseInv, InsertSplit
  PROVE  \E a, b \in Data :
            /\ next_page_id \in PageIds /\ next_page_id # op.page
            /\ data[next_page_id] = ZeroPage /\ SizeOf(data[op.page]) = leaf_max_size
            /\ IsLeaf(a) /\ SizeOf(a) \in 1 .. leaf_max_size
            /\ IsLeaf(b) /\ SizeOf(b) \in 1 .. leaf_max_size
            /\ SizeOf(a) + SizeOf(b) = leaf_max_size + 1
            /\ data'[op.page] = a /\ data'[next_page_id] = b
            /\ \/ /\ op.page = root_page_id
                  /\ next_page_id + 1 \in PageIds /\ data[next_page_id + 1] = ZeroPage
                  /\ root_page_id' = next_page_id + 1 /\ next_page_id' = next_page_id + 2
                  /\ ~IsLeaf(data'[next_page_id + 1])
                  /\ \A p \in PageIds \ {op.page, next_page_id, next_page_id + 1} : data'[p] = data[p]
               \/ /\ root_page_id' = root_page_id /\ next_page_id' = next_page_id + 1
                  /\ \A p \in PageIds \ {op.page, next_page_id} : data'[p] = data[p]
            /\ data' \in [PageIds -> Data] /\ ShapeInv' /\ LeavesStay
<1>1. pc = "at" /\ IsLeaf(data[op.page]) /\ SizeOf(data[op.page]) >= leaf_max_size /\ CanAlloc(1)
  BY DEF InsertSplit, AtLeaf
<1>2. /\ op.page \in PageIds /\ op.page \in Nat /\ op.page < next_page_id
      /\ SizeOf(data[op.page]) \in 0 .. leaf_max_size /\ data[op.page] \in Data
  BY <1>1, AtLeafFacts
<1>3. SizeOf(data[op.page]) = leaf_max_size
  BY <1>1, <1>2, LeafSizeAssumption
<1>4. PICK a \in Data, b \in Data :
            /\ WithHalves(next_page_id) = [data EXCEPT ![op.page] = a, ![next_page_id] = b]
            /\ IsLeaf(a) /\ SizeOf(a) \in 1 .. leaf_max_size
            /\ IsLeaf(b) /\ SizeOf(b) \in 1 .. leaf_max_size
            /\ SizeOf(a) + SizeOf(b) = leaf_max_size + 1
  BY <1>1, HalvesData
<1>5. data \in [PageIds -> Data] /\ next_page_id \in Nat
  BY DEF BaseInv, TypeOK
<1>6. next_page_id \in PageIds /\ next_page_id # op.page /\ data[next_page_id] = ZeroPage
  <2>1. next_page_id \in PageIds
    BY <1>1, <1>5, MaxPagesAssumption DEF CanAlloc, PageIds
  <2> QED BY <1>2, <1>5, <2>1 DEF BaseInv, ShapeInv
<1>7. \A p \in PageIds : p \in Nat /\ PageShape(data[p]) /\ (p >= next_page_id => data[p] = ZeroPage)
                         /\ (IsLeaf(data[p]) => SizeOf(data[p]) \in 0 .. leaf_max_size)
  BY MaxPagesAssumption DEF PageIds, BaseInv, ShapeInv
<1>8. SizeOf(a) \in 0 .. leaf_max_size /\ SizeOf(b) \in 0 .. leaf_max_size
  BY <1>4, LeafSizeAssumption
<1>9. ~IsLeaf(ZeroPage)
  BY NoLeafData
<1>10. CASE /\ data' = WithHalves(next_page_id) /\ next_page_id' = next_page_id + 1
            /\ root_page_id' = root_page_id
  <2>1. /\ data' = [data EXCEPT ![op.page] = a, ![next_page_id] = b]
        /\ next_page_id' = next_page_id + 1 /\ root_page_id' = root_page_id
    BY <1>4, <1>10
  <2>2. data' \in [PageIds -> Data]
    BY <1>2, <1>5, <1>6, <2>1
  <2>3. data'[op.page] = a /\ data'[next_page_id] = b
    BY <1>2, <1>5, <1>6, <2>1
  <2>4. \A p \in PageIds \ {op.page, next_page_id} : data'[p] = data[p]
    BY <1>5, <2>1
  <2>5. \A p \in PageIds : PageShape(data'[p]) /\ (p >= next_page_id' => data'[p] = ZeroPage)
                           /\ (IsLeaf(data'[p]) => SizeOf(data'[p]) \in 0 .. leaf_max_size)
    <3> SUFFICES ASSUME NEW p \in PageIds
                 PROVE  PageShape(data'[p]) /\ (p >= next_page_id' => data'[p] = ZeroPage)
                        /\ (IsLeaf(data'[p]) => SizeOf(data'[p]) \in 0 .. leaf_max_size)
      OBVIOUS
    <3>1. CASE p = op.page
      BY <1>2, <1>4, <1>5, <1>8, <2>1, <2>3, <3>1 DEF PageShape
    <3>2. CASE p = next_page_id
      BY <1>4, <1>5, <1>8, <2>1, <2>3, <3>2 DEF PageShape
    <3>3. CASE p # op.page /\ p # next_page_id
      BY <1>5, <1>7, <2>1, <2>4, <3>3
    <3> QED BY <3>1, <3>2, <3>3
  <2>6. LeavesStay
    BY <1>4, <1>6, <1>9, <2>3, <2>4 DEF LeavesStay
  <2>7. ShapeInv'
    BY <2>5 DEF ShapeInv
  <2> QED BY <1>3, <1>4, <1>6, <2>1, <2>2, <2>3, <2>4, <2>6, <2>7
<1>11. CASE /\ op.page = root_page_id /\ CanAlloc(2)
            /\ data' = [WithHalves(next_page_id) EXCEPT ![next_page_id + 1] =
                          NewRoot(SplitNew(data[op.page])[2], op.page, next_page_id)]
            /\ next_page_id' = next_page_id + 2 /\ root_page_id' = next_page_id + 1
  <2> DEFINE id == next_page_id + 1
             key == SplitNew(data[op.page])[2]
             parent == NewRoot(key, op.page, next_page_id)
  <2>1. id \in PageIds /\ id # op.page /\ id # next_page_id /\ data[id] = ZeroPage
    <3>1. id \in PageIds
      BY <1>5, <1>11, MaxPagesAssumption DEF CanAlloc, PageIds
    <3> QED BY <1>2, <1>5, <3>1, <1>7
  <2>2. key \in Int
    <3>1. SplitNew(data[op.page]) \in Data
      BY <1>1, <1>2, <1>3, SplitData
    <3> QED BY <3>1, SmallWords DEF Data
  <2> HIDE DEF key
  <2>3. parent \in Data /\ ~IsLeaf(parent) /\ PageShape(parent)
    <3>1. op.page \in Int /\ next_page_id \in Int
      BY <1>2, <1>5
    <3>2. parent \in Data /\ ~IsLeaf(parent)
      BY <2>2, <3>1, NewRootData
    <3> QED BY <1>2, <1>6, <2>2, <3>2 DEF PageShape
  <2> HIDE DEF parent
  <2>4. /\ data' = [[data EXCEPT ![op.page] = a, ![next_page_id] = b] EXCEPT ![id] = parent]
        /\ next_page_id' = next_page_id + 2 /\ root_page_id' = id
    BY <1>4, <1>11 DEF parent, key
  <2> HIDE DEF id
  <2>5. data' \in [PageIds -> Data]
    BY <1>2, <1>5, <1>6, <2>1, <2>3, <2>4
  <2>6. data'[op.page] = a /\ data'[next_page_id] = b /\ data'[id] = parent
    BY <1>2, <1>5, <1>6, <2>1, <2>4
  <2>7. \A p \in PageIds \ {op.page, next_page_id, id} : data'[p] = data[p]
    BY <1>5, <2>4
  <2>8. \A p \in PageIds : PageShape(data'[p]) /\ (p >= next_page_id' => data'[p] = ZeroPage)
                           /\ (IsLeaf(data'[p]) => SizeOf(data'[p]) \in 0 .. leaf_max_size)
    <3> SUFFICES ASSUME NEW p \in PageIds
                 PROVE  PageShape(data'[p]) /\ (p >= next_page_id' => data'[p] = ZeroPage)
                        /\ (IsLeaf(data'[p]) => SizeOf(data'[p]) \in 0 .. leaf_max_size)
      OBVIOUS
    <3>1. CASE p = op.page
      BY <1>2, <1>4, <1>5, <1>8, <2>4, <2>6, <3>1 DEF PageShape
    <3>2. CASE p = next_page_id
      BY <1>4, <1>5, <1>8, <2>4, <2>6, <3>2 DEF PageShape
    <3>3. CASE p = id
      BY <1>5, <2>3, <2>4, <2>6, <3>3 DEF id
    <3>4. CASE p # op.page /\ p # next_page_id /\ p # id
      BY <1>5, <1>7, <2>4, <2>7, <3>4
    <3> QED BY <3>1, <3>2, <3>3, <3>4
  <2>9. LeavesStay
    BY <1>4, <1>6, <1>9, <2>1, <2>6, <2>7 DEF LeavesStay
  <2>10. ShapeInv'
    BY <2>8 DEF ShapeInv
  <2>11. ~IsLeaf(data'[id])
    BY <2>3, <2>6
  <2> QED BY <1>3, <1>4, <1>6, <1>11, <2>1, <2>4, <2>5, <2>6, <2>7, <2>9, <2>10, <2>11 DEF id
<1> QED BY <1>10, <1>11 DEF InsertSplit

Iterators == [page : Int, page_id : Int, key_index : Int, is_end : BOOLEAN]

\* A step after which nobody holds the latch.
LEMMA IdleBase ==
  ASSUME BaseInv,
         data' \in [PageIds -> Data], ShapeInv', LeavesStay, next_page_id' \in Nat,
         root_page_id' \in PageIds \cup {-1}, root_page_id' < next_page_id',
         pins' \in [PageIds -> Int], op' \in {op, NoOp}, pc' = "idle",
         \/ iter' \in {iter, NoIter}
         \/ iter' \in Iterators /\ iter'.page \in PageIds /\ IsLeaf(data'[iter'.page]),
         scans' \in Nat, entries' \in Int, ascending' \in BOOLEAN, present' \in SUBSET Int
  PROVE  BaseInv'
<1>1. op' \in [name : OpNames, key : Int, rid : Int \X Int, page : Int]
  BY NothingRuns DEF BaseInv, TypeOK
<1>2. iter' \in Iterators
  BY NothingRuns DEF BaseInv, TypeOK, Iterators
<1>3. TypeOK'
  BY <1>1, <1>2 DEF TypeOK, Iterators
<1>4. OpInv'
  BY DEF OpInv
<1>5. IterInv'
  BY DEF IterInv, BaseInv, LeavesStay
<1> QED BY <1>3, <1>4, <1>5 DEF BaseInv

LEMMA SameTree ==
  ASSUME BaseInv, UNCHANGED treeVars
  PROVE  /\ data' \in [PageIds -> Data] /\ ShapeInv' /\ LeavesStay /\ next_page_id' \in Nat
         /\ root_page_id' \in PageIds \cup {-1} /\ root_page_id' < next_page_id'
BY DEF BaseInv, TypeOK, ShapeInv, OpInv, LeavesStay, treeVars

LEMMA CountedTypes ==
  ASSUME BaseInv, NEW key \in Int, NEW rid, Counted(key, rid)
  PROVE  entries' \in Int /\ ascending' \in BOOLEAN /\ present' \in SUBSET Int
BY DEF BaseInv, TypeOK, Counted

LEMMA UnpinType ==
  ASSUME BaseInv, NEW p, Unpin(p)
  PROVE  pins' \in [PageIds -> Int]
<1>1. pins \in [PageIds -> Int] /\ pins' = [pins EXCEPT ![p] = pins[p] - 1]
  BY DEF BaseInv, TypeOK, Unpin
<1>2. \A q \in PageIds : pins'[q] \in Int
  BY <1>1
<1> QED BY <1>1, <1>2

LEMMA CallBase ==
  ASSUME BaseInv, NEW name \in OpNames, NEW key \in Int, NEW rid \in Int \X Int,
         root_page_id # -1, Begins(name, key, rid)
  PROVE  BaseInv'
<1>1. /\ op' = [name |-> name, key |-> key, rid |-> rid, page |-> root_page_id] /\ pc' = "fetch"
      /\ UNCHANGED <<treeVars, pins, iter, ghostVars, scans>>
  BY DEF Begins
<1>2. root_page_id \in PageIds /\ root_page_id \in Int
  BY MaxPagesAssumption DEF BaseInv, TypeOK, PageIds
<1>3. op' \in [name : OpNames, key : Int, rid : Int \X Int, page : Int] /\ op'.page = root_page_id
  BY <1>1, <1>2, OpRecord
<1>4. TypeOK'
  BY <1>1, <1>3 DEF BaseInv, TypeOK, treeVars, ghostVars
<1>5. ShapeInv' /\ IterInv'
  BY <1>1 DEF BaseInv, ShapeInv, IterInv, treeVars
<1>6. OpInv'
  BY <1>1, <1>2, <1>3 DEF BaseInv, OpInv, RootIsLeaf, treeVars
<1> QED BY <1>4, <1>5, <1>6 DEF BaseInv

LEMMA DescendBase ==
  ASSUME BaseInv, Fetch \/ Descend
  PROVE  BaseInv'
<1>1. UNCHANGED <<treeVars, iter, result, ghostVars, scans>>
  BY DEF Fetch, Descend
<1>2. ShapeInv' /\ IterInv'
  BY <1>1 DEF BaseInv, ShapeInv, IterInv, treeVars
<1>3. CASE Fetch
  <2>1. pc = "fetch" /\ pc' = "at" /\ op' = op /\ pins' = [pins EXCEPT ![op.page] = pins[op.page] + 1]
    BY <1>3 DEF Fetch
  <2>2. pins' \in [PageIds -> Int]
    <3>1. pins \in [PageIds -> Int]
      BY DEF BaseInv, TypeOK
    <3>2. \A q \in PageIds : pins'[q] \in Int
      BY <2>1, <3>1
    <3> QED BY <2>1, <3>1, <3>2
  <2>3. TypeOK'
    BY <1>1, <2>1, <2>2 DEF BaseInv, TypeOK, treeVars, ghostVars
  <2>4. OpInv'
    BY <1>1, <2>1 DEF BaseInv, OpInv, RootIsLeaf, treeVars
  <2> QED BY <1>2, <2>3, <2>4 DEF BaseInv
<1>4. CASE Descend
  <2> DEFINE d == data[op.page]
             index == IF op.name = "Begin" THEN 0 ELSE BinarySearch(d, op.key)
             child == WordOf(d, ChildAt(SizeOf(d), index))
  <2>1. /\ pc = "at" /\ ~IsLeaf(d) /\ pc' = "fetch" /\ Unpin(op.page)
        /\ op' = [op EXCEPT !.page = child]
    BY <1>4 DEF Descend
  <2>2. op.page \in PageIds /\ d \in Data /\ PageShape(d) /\ op.key \in Int
    BY <2>1 DEF BaseInv, OpInv, TypeOK, ShapeInv
  <2>3. 0 \in PageIds
    BY <2>2, MaxPagesAssumption DEF PageIds
  <2>4. child \in PageIds /\ child \in Int
    <3>1. index = 0 \/ index = BinarySearch(d, op.key)
      OBVIOUS
    <3> HIDE DEF d, index
    <3>2. child \in PageIds
      BY <2>1, <2>2, <2>3, <3>1, ChildIsPage
    <3> HIDE DEF child
    <3> QED BY <3>2, MaxPagesAssumption DEF PageIds
  <2>5. pins' \in [PageIds -> Int]
    BY <2>1, UnpinType
  <2> HIDE DEF child
  <2>6. op' \in [name : OpNames, key : Int, rid : Int \X Int, page : Int] /\ op'.page = child
    BY <2>1, <2>4 DEF BaseInv, TypeOK
  <2>7. TypeOK'
    BY <1>1, <2>1, <2>5, <2>6 DEF BaseInv, TypeOK, treeVars, ghostVars
  <2>8. root_page_id # -1 /\ ~RootIsLeaf
    BY <2>1 DEF BaseInv, OpInv, RootIsLeaf
  <2>9. OpInv'
    BY <1>1, <2>4, <2>6, <2>8 DEF BaseInv, OpInv, RootIsLeaf, treeVars
  <2> QED BY <1>2, <2>7, <2>9 DEF BaseInv
<1> QED BY <1>3, <1>4

\* The iterator moves within its page.
LEMMA ScanBase ==
  ASSUME BaseInv, ScanNext
  PROVE  BaseInv' /\ iter' # NoIter /\ iter'.page = iter.page
<1> DEFINE d == data[iter.page]
           next == d[NextLeafAt(SizeOf(d))]
<1>1. /\ iter # NoIter /\ iter' = Advanced
      /\ UNCHANGED <<treeVars, pins, op, pc, result, ghostVars, scans>>
  BY DEF ScanNext
<1>2. iter.page \in PageIds /\ d \in Data /\ IsLeaf(d) /\ SizeOf(d) \in 0 .. leaf_max_size
  BY <1>1 DEF BaseInv, IterInv, TypeOK, ShapeInv
<1>3. next \in Int
  <2>1. NextLeafAt(SizeOf(d)) \in Words
    BY <1>2, LeafSizeAssumption, WordsAssumption DEF NextLeafAt, Words
  <2> QED BY <1>2, <2>1 DEF Data
<1>4. iter \in Iterators
  BY DEF BaseInv, TypeOK, Iterators
<1>5. /\ iter' = CASE iter.key_index + 1 < SizeOf(d) -> [iter EXCEPT !.key_index = iter.key_index + 1]
                   [] iter.key_index + 1 >= SizeOf(d) /\ next >= 0 ->
                        [iter EXCEPT !.page_id = next, !.key_index = 0]
                   [] OTHER -> [iter EXCEPT !.key_index = iter.key_index + 1, !.is_end = TRUE]
  BY <1>1 DEF Advanced
<1> HIDE DEF d, next
<1>6. iter.key_index \in Int /\ SizeOf(d) \in Int
  BY <1>2, <1>4, LeafSizeAssumption DEF Iterators
<1>7. \/ iter' = [iter EXCEPT !.key_index = iter.key_index + 1]
      \/ iter' = [iter EXCEPT !.page_id = next, !.key_index = 0]
      \/ iter' = [iter EXCEPT !.key_index = iter.key_index + 1, !.is_end = TRUE]
  <2>1. CASE iter.key_index + 1 < SizeOf(d)
    BY <1>5, <1>6, <2>1
  <2>2. CASE iter.key_index + 1 >= SizeOf(d) /\ next >= 0
    BY <1>5, <1>6, <2>2
  <2>3. CASE ~(iter.key_index + 1 < SizeOf(d)) /\ ~(iter.key_index + 1 >= SizeOf(d) /\ next >= 0)
    BY <1>5, <2>3
  <2> QED BY <2>1, <2>2, <2>3
<1>8. iter' \in Iterators /\ iter'.page = iter.page
  <2>1. CASE iter' = [iter EXCEPT !.key_index = iter.key_index + 1]
    BY <1>4, <1>6, <2>1 DEF Iterators
  <2>2. CASE iter' = [iter EXCEPT !.page_id = next, !.key_index = 0]
    <3> DEFINE moved == [iter EXCEPT !.page_id = next]
    <3>1. moved \in Iterators /\ moved.page = iter.page
      BY <1>3, <1>4 DEF Iterators
    <3>2. iter' = [moved EXCEPT !.key_index = 0]
      BY <2>2
    <3> HIDE DEF moved
    <3> QED BY <3>1, <3>2 DEF Iterators
  <2>3. CASE iter' = [iter EXCEPT !.key_index = iter.key_index + 1, !.is_end = TRUE]
    <3> DEFINE moved == [iter EXCEPT !.key_index = iter.key_index + 1]
    <3>1. moved \in Iterators /\ moved.page = iter.page
      BY <1>4, <1>6 DEF Iterators
    <3>2. iter' = [moved EXCEPT !.is_end = TRUE]
      BY <2>3
    <3> HIDE DEF moved
    <3> QED BY <3>1, <3>2 DEF Iterators
  <2> QED BY <1>7, <2>1, <2>2, <2>3
<1>9. iter' # NoIter
  <2>1. NoIter.page = -1 /\ iter.page # -1
    BY <1>2, MaxPagesAssumption DEF NoIter, PageIds
  <2> QED BY <1>8, <2>1
<1>10. TypeOK'
  BY <1>1, <1>8 DEF BaseInv, TypeOK, Iterators, treeVars, ghostVars
<1>11. ShapeInv' /\ OpInv' /\ IterInv'
  BY <1>1, <1>8 DEF BaseInv, ShapeInv, OpInv, IterInv, RootIsLeaf, treeVars
<1> QED BY <1>8, <1>9, <1>10, <1>11 DEF BaseInv

\* An operation returns and has not changed the tree.
LEMMA ReturnBase ==
  ASSUME BaseInv,
         FetchFails \/ GetValue \/ InsertWithoutPage \/ RemoveNothing \/ BeginEmptyLeaf \/ Begin
  PROVE  BaseInv'
<1>1. UNCHANGED <<treeVars, ghostVars>> /\ op' = NoOp /\ pc' = "idle"
  BY DEF FetchFails, GetValue, InsertWithoutPage, RemoveNothing, BeginEmptyLeaf, Begin, Return
<1>2. /\ data' \in [PageIds -> Data] /\ ShapeInv' /\ LeavesStay /\ next_page_id' \in Nat
      /\ root_page_id' \in PageIds \cup {-1} /\ root_page_id' < next_page_id'
  BY <1>1, SameTree
<1>3. pins' \in [PageIds -> Int]
  <2>1. CASE FetchFails \/ Begin
    BY <2>1 DEF FetchFails, Begin, BaseInv, TypeOK
  <2>2. CASE GetValue \/ InsertWithoutPage \/ RemoveNothing \/ BeginEmptyLeaf
    BY <2>2, UnpinType DEF GetValue, InsertWithoutPage, RemoveNothing, BeginEmptyLeaf
  <2> QED BY <2>1, <2>2
<1>4. scans' \in Nat
  <2>1. scans \in Nat
    BY DEF BaseInv, TypeOK
  <2>2. scans' = scans \/ scans' = scans + 1
    BY DEF FetchFails, GetValue, InsertWithoutPage, RemoveNothing, BeginEmptyLeaf, Begin
  <2> QED BY <2>1, <2>2
<1>5. entries' \in Int /\ ascending' \in BOOLEAN /\ present' \in SUBSET Int
  BY <1>1 DEF BaseInv, TypeOK, ghostVars
<1>6. \/ iter' \in {iter, NoIter}
      \/ iter' \in Iterators /\ iter'.page \in PageIds /\ IsLeaf(data'[iter'.page])
  <2>1. CASE FetchFails \/ GetValue \/ InsertWithoutPage \/ RemoveNothing \/ BeginEmptyLeaf
    BY <2>1 DEF FetchFails, GetValue, InsertWithoutPage, RemoveNothing, BeginEmptyLeaf
  <2>2. CASE Begin
    <3>1. /\ pc = "at" /\ IsLeaf(data[op.page]) /\ data' = data
          /\ iter' = [page |-> op.page, page_id |-> op.page, key_index |-> 0, is_end |-> FALSE]
      BY <2>2 DEF Begin, AtLeaf, treeVars
    <3>2. op.page \in PageIds /\ op.page \in Nat
      BY <3>1, AtLeafFacts
    <3> QED BY <3>1, <3>2 DEF Iterators
  <2> QED BY <2>1, <2>2
<1> QED BY <1>1, <1>2, <1>3, <1>4, <1>5, <1>6, IdleBase

\* An operation returns and has changed the tree.
LEMMA ChangeBase ==
  ASSUME BaseInv,
         \/ InsertWithRoom \/ InsertSplit \/ Remove
         \/ \E key \in Int, rid \in Int \X Int : InsertFirst(key, rid)
  PROVE  BaseInv'
<1>1. next_page_id \in Nat /\ root_page_id \in PageIds \cup {-1} /\ root_page_id < next_page_id
  BY DEF BaseInv, TypeOK, OpInv
<1>2. root_page_id \in Int /\ \A p \in PageIds : p \in Nat
  BY <1>1, MaxPagesAssumption DEF PageIds
<1>3. CASE InsertWithRoom
  <2>1. /\ UNCHANGED <<next_page_id, root_page_id, iter, scans>> /\ Unpin(op.page) /\ Counted(op.key, op.rid)
        /\ op' = NoOp /\ pc' = "idle"
    BY <1>3 DEF InsertWithRoom, Return
  <2>2. data' \in [PageIds -> Data] /\ ShapeInv' /\ LeavesStay
    BY <1>3, InsertWithRoomEffect
  <2>3. op.key \in Int /\ scans \in Nat
    BY DEF BaseInv, TypeOK
  <2>4. entries' \in Int /\ ascending' \in BOOLEAN /\ present' \in SUBSET Int
    BY <2>1, <2>3, CountedTypes
  <2>5. pins' \in [PageIds -> Int]
    BY <2>1, UnpinType
  <2> QED BY <1>1, <2>1, <2>2, <2>3, <2>4, <2>5, IdleBase
<1>4. CASE InsertSplit
  <2>1. /\ UNCHANGED <<iter, scans>> /\ Unpin(op.page) /\ Counted(op.key, op.rid)
        /\ op' = NoOp /\ pc' = "idle"
    BY <1>4 DEF InsertSplit, Return
  <2>2. data' \in [PageIds -> Data] /\ ShapeInv' /\ LeavesStay
    BY <1>4, InsertSplitEffect
  <2>3. op.key \in Int /\ scans \in Nat
    BY DEF BaseInv, TypeOK
  <2>4. entries' \in Int /\ ascending' \in BOOLEAN /\ present' \in SUBSET Int
    BY <2>1, <2>3, CountedTypes
  <2>5. pins' \in [PageIds -> Int]
    BY <2>1, UnpinType
  <2>6. \/ next_page_id + 1 \in PageIds /\ root_page_id' = next_page_id + 1 /\ next_page_id' = next_page_id + 2
        \/ root_page_id' = root_page_id /\ next_page_id' = next_page_id + 1
    BY <1>4, InsertSplitEffect
  <2>7. next_page_id' \in Nat /\ root_page_id' \in PageIds \cup {-1} /\ root_page_id' < next_page_id'
    BY <1>1, <1>2, <2>6
  <2> QED BY <2>1, <2>2, <2>3, <2>4, <2>5, <2>7, IdleBase
<1>5. CASE Remove
  <2>1. /\ UNCHANGED <<next_page_id, iter, scans, ascending>> /\ Unpin(op.page)
        /\ entries' = entries - 1 /\ present' = present \ {op.key}
        /\ op' = NoOp /\ pc' = "idle"
    BY <1>5 DEF Remove, Return
  <2>2. /\ data' \in [PageIds -> Data] /\ ShapeInv' /\ LeavesStay
        /\ root_page_id' \in {root_page_id, -1}
    BY <1>5, RemoveEffect
  <2>3. /\ scans \in Nat /\ entries \in Int /\ ascending \in BOOLEAN /\ present \in SUBSET Int
    BY DEF BaseInv, TypeOK
  <2>4. entries' \in Int /\ ascending' \in BOOLEAN /\ present' \in SUBSET Int
    <3>1. entries' = entries - 1 /\ entries \in Int
      BY <2>1, <2>3
    <3>2. present' = present \ {op.key} /\ present \in SUBSET Int
      BY <2>1, <2>3
    <3>3. entries' \in Int
      BY <3>1
    <3>4. present' \in SUBSET Int
      BY <3>2
    <3>5. ascending' \in BOOLEAN
      BY <2>1, <2>3, Zenon
    <3> QED BY <3>3, <3>4, <3>5
  <2>5. pins' \in [PageIds -> Int]
    BY <2>1, UnpinType
  <2>6. next_page_id' \in Nat /\ root_page_id' \in PageIds \cup {-1} /\ root_page_id' < next_page_id'
    BY <1>1, <1>2, <2>1, <2>2
  <2> QED BY <2>1, <2>2, <2>3, <2>4, <2>5, <2>6, IdleBase
<1>6. CASE \E key \in Int, rid \in Int \X Int : InsertFirst(key, rid)
  <2>1. PICK key \in Int, rid \in Int \X Int : InsertFirst(key, rid)
    BY <1>6
  <2>2. /\ UNCHANGED <<pins, op, pc, iter, scans>> /\ Counted(key, rid) /\ pc = "idle"
        /\ next_page_id' = next_page_id + 1 /\ root_page_id' = next_page_id
    BY <2>1 DEF InsertFirst
  <2>3. data' \in [PageIds -> Data] /\ ShapeInv' /\ LeavesStay /\ next_page_id \in PageIds
    BY <2>1, InsertFirstEffect
  <2>4. entries' \in Int /\ ascending' \in BOOLEAN /\ present' \in SUBSET Int
    BY <2>2, CountedTypes
  <2>5. pins \in [PageIds -> Int] /\ scans \in Nat
    BY DEF BaseInv, TypeOK
  <2>6. next_page_id' \in Nat /\ root_page_id' \in PageIds \cup {-1} /\ root_page_id' < next_page_id'
    BY <1>1, <2>2, <2>3
  <2> QED BY <2>2, <2>3, <2>4, <2>5, <2>6, IdleBase
<1> QED BY <1>3, <1>4, <1>5, <1>6

\* The steps of the system, sorted by what they do.
CallStep == \/ \E k \in Keys : CallGetValue(k) \/ CallRemove(k)
            \/ \E k \in Keys, r \in RIDs : CallInsert(k, r)
            \/ CallBegin
ReturnStep == FetchFails \/ GetValue \/ InsertWithoutPage \/ RemoveNothing \/ BeginEmptyLeaf \/ Begin
ChangeStep == \/ InsertWithRoom \/ InsertSplit \/ Remove
              \/ \E key \in Int, rid \in Int \X Int : InsertFirst(key, rid)

LEMMA StepKinds ==
  ASSUME [Next]_vars
  PROVE  \/ CallStep \/ CallOnEmpty \/ Fetch \/ Descend
         \/ ReturnStep \/ ChangeStep \/ ScanNext \/ UNCHANGED vars
<1>1. \A k \in Keys : k \in Int
  BY KeysAssumption
<1>2. \A r \in RIDs : r \in Int \X Int
  BY KeysAssumption DEF RIDs
<1> QED BY <1>1, <1>2 DEF Next, TreeStep, CallStep, ReturnStep, ChangeStep

LEMMA CallStepBegins ==
  ASSUME CallStep
  PROVE  /\ pc = "idle" /\ root_page_id # -1
         /\ \E name \in OpNames, key \in Int, rid \in Int \X Int : Begins(name, key, rid)
<1>1. \A k \in Keys : k \in Int
  BY KeysAssumption
<1>2. \A r \in RIDs : r \in Int \X Int
  BY KeysAssumption DEF RIDs
<1>3. <<0, 0>> \in Int \X Int /\ 0 \in Int
  OBVIOUS
<1>4. "GetValue" \in OpNames /\ "Insert" \in OpNames /\ "Remove" \in OpNames /\ "Begin" \in OpNames
  BY DEF OpNames
<1>5. CASE \E k \in Keys : CallGetValue(k)
  BY <1>1, <1>3, <1>4, <1>5, Zenon DEF CallGetValue
<1>6. CASE \E k \in Keys : CallRemove(k)
  BY <1>1, <1>3, <1>4, <1>6, Zenon DEF CallRemove
<1>7. CASE \E k \in Keys, r \in RIDs : CallInsert(k, r)
  BY <1>1, <1>2, <1>4, <1>7, Zenon DEF CallInsert
<1>8. CASE CallBegin
  BY <1>3, <1>4, <1>8, Zenon DEF CallBegin
<1> QED BY <1>5, <1>6, <1>7, <1>8, Zenon DEF CallStep

LEMMA BaseStep == BaseInv /\ [Next]_vars => BaseInv'
<1> SUFFICES ASSUME BaseInv, [Next]_vars PROVE BaseInv'
  OBVIOUS
<1>1. CASE CallStep
  BY <1>1, CallStepBegins, CallBase
<1>2. CASE CallOnEmpty
  <2>1. pc' = "idle" /\ op' = op /\ iter' \in {iter, NoIter} /\ UNCHANGED <<treeVars, pins, ghostVars, scans>>
    BY <1>2 DEF CallOnEmpty
  <2>2. /\ data' \in [PageIds -> Data] /\ ShapeInv' /\ LeavesStay /\ next_page_id' \in Nat
        /\ root_page_id' \in PageIds \cup {-1} /\ root_page_id' < next_page_id'
    BY <2>1, SameTree
  <2>3. /\ pins' \in [PageIds -> Int] /\ scans' \in Nat
        /\ entries' \in Int /\ ascending' \in BOOLEAN /\ present' \in SUBSET Int
    BY <2>1 DEF BaseInv, TypeOK, ghostVars
  <2> QED BY <2>1, <2>2, <2>3, IdleBase
<1>3. CASE Fetch \/ Descend
  BY <1>3, DescendBase
<1>4. CASE ReturnStep
  BY <1>4, ReturnBase DEF ReturnStep
<1>5. CASE ChangeStep
  BY <1>5, ChangeBase DEF ChangeStep
<1>6. CASE ScanNext
  BY <1>6, ScanBase
<1>7. CASE UNCHANGED vars
  <2>1. TypeOK'
    BY <1>7 DEF BaseInv, TypeOK, vars, treeVars, ghostVars
  <2>2. ShapeInv' /\ OpInv' /\ IterInv'
    BY <1>7 DEF BaseInv, ShapeInv, OpInv, IterInv, RootIsLeaf, vars, treeVars
  <2> QED BY <2>1, <2>2 DEF BaseInv
<1> QED BY <1>1, <1>2, <1>3, <1>4, <1>5, <1>6, <1>7, StepKinds

-----------------------------------------------------------------------------
(* Pins *)

LEMMA FinitePages == IsFiniteSet(PageIds)
BY FS_Interval, MaxPagesAssumption DEF PageIds

LEMMA PinsChanged ==
  ASSUME BaseInv, NEW p \in PageIds, NEW v \in Int, pins' = [pins EXCEPT ![p] = v]
  PROVE  /\ \A q \in PageIds : pins'[q] = IF q = p THEN v ELSE pins[q]
         /\ SumFunction(pins') = SumFunction(pins) - pins[p] + v
         /\ SumFunction(pins) \in Int /\ \A q \in PageIds : pins[q] \in Int
<1>1. PICK f \in [PageIds -> Int] : f = pins
  BY DEF BaseInv, TypeOK
<1>2. PICK h \in [PageIds -> Int] : h = pins'
  BY <1>1
<1>3. \A q \in PageIds : h[q] = IF q = p THEN v ELSE f[q]
  BY <1>1, <1>2
<1>4. SumFunction(f) \in Int /\ SumFunction(h) = SumFunction(f) - f[p] + h[p]
  BY <1>3, FinitePages, SumChange
<1> QED BY <1>1, <1>2, <1>3, <1>4

\* An operation gives its pin back.
LEMMA UnpinPins ==
  ASSUME BaseInv, PinInv, pc = "at", Unpin(op.page), pc' # "at", iter' \in {iter, NoIter}, scans' = scans
  PROVE  PinInv'
<1>1. op.page \in PageIds
  BY DEF BaseInv, OpInv
<1>2. PICK p \in PageIds : p = op.page
  BY <1>1
<1>3. pins[p] \in Int /\ scans \in Int
  BY DEF BaseInv, TypeOK
<1>4. PICK v \in Int : v = pins[p] - 1
  BY <1>3
<1>5. pins' = [pins EXCEPT ![p] = v]
  BY <1>2, <1>4 DEF Unpin
<1>6. /\ \A q \in PageIds : pins'[q] = IF q = p THEN v ELSE pins[q]
      /\ SumFunction(pins') = SumFunction(pins) - pins[p] + v
      /\ SumFunction(pins) \in Int /\ \A q \in PageIds : pins[q] \in Int
  BY <1>5, PinsChanged
<1>7. SumFunction(pins') = scans'
  <2>1. SumFunction(pins) = scans + 1
    BY DEF PinInv
  <2> QED BY <1>3, <1>4, <1>6, <2>1
<1>8. ASSUME NEW q \in PageIds PROVE pins'[q] >= OpPins(q)' + IterPins(q)'
  <2>1. OpPins(q) = (IF q = p THEN 1 ELSE 0) /\ OpPins(q)' = 0
    BY <1>2 DEF OpPins
  <2>2. IterPins(q) \in {0, 1} /\ IterPins(q)' \in {0, IterPins(q)}
    BY DEF IterPins
  <2>3. pins[q] >= OpPins(q) + IterPins(q)
    BY DEF PinInv
  <2> QED BY <1>4, <1>6, <2>1, <2>2, <2>3
<1>9. SumFunction(pins') = scans' + (IF pc' = "at" THEN 1 ELSE 0)
  <2>1. scans' \in Int /\ pc' # "at"
    BY <1>3
  <2> QED BY <1>7, <2>1
<1> QED BY <1>8, <1>9 DEF PinInv

\* A step without a pin.
LEMMA KeepPins ==
  ASSUME BaseInv, PinInv, pc # "at", pc' # "at", pins' = pins, iter' \in {iter, NoIter}, scans' = scans
  PROVE  PinInv'
<1>1. SumFunction(pins') = scans' + (IF pc' = "at" THEN 1 ELSE 0)
  BY DEF PinInv
<1>2. ASSUME NEW q \in PageIds PROVE pins'[q] >= OpPins(q)' + IterPins(q)'
  <2>1. pins[q] \in Int /\ OpPins(q) = 0 /\ OpPins(q)' = 0
    BY DEF OpPins, BaseInv, TypeOK
  <2>2. IterPins(q) \in {0, 1} /\ IterPins(q)' \in {0, IterPins(q)}
    BY DEF IterPins
  <2>3. pins[q] >= OpPins(q) + IterPins(q)
    BY DEF PinInv
  <2> QED BY <2>1, <2>2, <2>3
<1> QED BY <1>1, <1>2 DEF PinInv

LEMMA PinInit == Init => PinInv
<1> SUFFICES ASSUME Init PROVE PinInv
  OBVIOUS
<1>1. PICK f \in [PageIds -> Int] : f = pins
  BY DEF Init
<1>2. SumFunction(f) = 0
  BY <1>1, FinitePages, SumZero DEF Init
<1>3. \A p \in PageIds : pins[p] = 0 /\ OpPins(p) = 0 /\ IterPins(p) = 0
  BY DEF Init, OpPins, IterPins
<1> QED BY <1>1, <1>2, <1>3 DEF Init, PinInv

LEMMA PinStep == BaseInv /\ PinInv /\ [Next]_vars => PinInv'
<1> SUFFICES ASSUME BaseInv, PinInv, [Next]_vars PROVE PinInv'
  OBVIOUS
<1>1. CASE CallStep
  <2>1. pc = "idle" /\ pc' = "fetch" /\ UNCHANGED <<pins, iter, scans>>
    BY <1>1, CallStepBegins DEF Begins
  <2> QED BY <2>1, KeepPins
<1>2. CASE CallOnEmpty
  BY <1>2, KeepPins DEF CallOnEmpty
<1>3. CASE Fetch
  <2>1. /\ pc = "fetch" /\ pc' = "at" /\ UNCHANGED <<op, iter, scans>>
        /\ pins' = [pins EXCEPT ![op.page] = pins[op.page] + 1]
    BY <1>3 DEF Fetch
  <2>2. PICK p \in PageIds : p = op.page
    BY <2>1 DEF BaseInv, OpInv
  <2>3. pins[p] \in Int /\ scans \in Int
    BY DEF BaseInv, TypeOK
  <2>4. PICK v \in Int : v = pins[p] + 1
    BY <2>3
  <2>5. /\ \A q \in PageIds : pins'[q] = IF q = p THEN v ELSE pins[q]
        /\ SumFunction(pins') = SumFunction(pins) - pins[p] + v
        /\ SumFunction(pins) \in Int /\ \A q \in PageIds : pins[q] \in Int
    BY <2>1, <2>2, <2>4, PinsChanged
  <2>6. SumFunction(pins') = scans' + 1
    <3>1. SumFunction(pins) = scans
      BY <2>1, <2>3 DEF PinInv
    <3> QED BY <2>1, <2>3, <2>4, <2>5, <3>1
  <2>7. ASSUME NEW q \in PageIds PROVE pins'[q] >= OpPins(q)' + IterPins(q)'
    <3>1. OpPins(q) = 0 /\ OpPins(q)' = (IF q = p THEN 1 ELSE 0)
      BY <2>1, <2>2 DEF OpPins
    <3>2. IterPins(q) \in {0, 1} /\ IterPins(q)' = IterPins(q)
      BY <2>1 DEF IterPins
    <3>3. pins[q] >= OpPins(q) + IterPins(q)
      BY DEF PinInv
    <3> QED BY <2>4, <2>5, <3>1, <3>2, <3>3
  <2> QED BY <2>1, <2>6, <2>7 DEF PinInv
<1>4. CASE Descend
  BY <1>4, UnpinPins DEF Descend
<1>5. CASE ReturnStep
  <2>1. CASE FetchFails
    <3>1. pc = "fetch" /\ pc' = "idle" /\ UNCHANGED <<pins, scans>> /\ iter' \in {iter, NoIter}
      BY <2>1 DEF FetchFails, Return
    <3> QED BY <3>1, KeepPins
  <2>2. CASE GetValue \/ InsertWithoutPage \/ RemoveNothing \/ BeginEmptyLeaf
    <3>1. pc = "at" /\ pc' = "idle" /\ Unpin(op.page) /\ scans' = scans /\ iter' \in {iter, NoIter}
      BY <2>2 DEF GetValue, InsertWithoutPage, RemoveNothing, BeginEmptyLeaf, Return, AtLeaf
    <3> QED BY <3>1, UnpinPins
  <2>3. CASE Begin
    <3>1. /\ pc = "at" /\ pc' = "idle" /\ pins' = pins /\ scans' = scans + 1
          /\ iter' = [page |-> op.page, page_id |-> op.page, key_index |-> 0, is_end |-> FALSE]
      BY <2>3 DEF Begin, Return, AtLeaf
    <3>2. scans \in Int
      BY DEF BaseInv, TypeOK
    <3>3. SumFunction(pins') = scans' + (IF pc' = "at" THEN 1 ELSE 0)
      BY <3>1, <3>2 DEF PinInv
    <3>4. ASSUME NEW q \in PageIds PROVE pins'[q] >= OpPins(q)' + IterPins(q)'
      <4>1. OpPins(q)' = 0 /\ OpPins(q) = (IF op.page = q THEN 1 ELSE 0)
        BY <3>1 DEF OpPins
      <4>2. IterPins(q)' \in {0, IF op.page = q THEN 1 ELSE 0} /\ IterPins(q) \in {0, 1}
        BY <3>1 DEF IterPins
      <4>3. pins[q] >= OpPins(q) + IterPins(q) /\ pins[q] \in Int
        BY DEF PinInv, BaseInv, TypeOK
      <4> QED BY <3>1, <4>1, <4>2, <4>3
    <3> QED BY <3>3, <3>4 DEF PinInv
  <2> QED BY <1>5, <2>1, <2>2, <2>3 DEF ReturnStep
<1>6. CASE ChangeStep
  <2>1. CASE InsertWithRoom \/ InsertSplit \/ Remove
    <3>1. pc = "at" /\ pc' = "idle" /\ Unpin(op.page) /\ scans' = scans /\ iter' = iter
      BY <2>1 DEF InsertWithRoom, InsertSplit, Remove, Return, AtLeaf
    <3> QED BY <3>1, UnpinPins
  <2>2. CASE \E key \in Int, rid \in Int \X Int : InsertFirst(key, rid)
    BY <2>2, KeepPins DEF InsertFirst
  <2> QED BY <1>6, <2>1, <2>2 DEF ChangeStep
<1>7. CASE ScanNext
  <2>1. iter # NoIter /\ UNCHANGED <<pins, op, pc, scans>>
    BY <1>7 DEF ScanNext
  <2>2. iter' # NoIter /\ iter'.page = iter.page
    BY <1>7, ScanBase
  <2>3. \A q \in PageIds : OpPins(q)' = OpPins(q) /\ IterPins(q)' = IterPins(q)
    BY <2>1, <2>2 DEF OpPins, IterPins
  <2> QED BY <2>1, <2>3 DEF PinInv
<1>8. CASE UNCHANGED vars
  BY <1>8 DEF PinInv, OpPins, IterPins, vars
<1> QED BY <1>1, <1>2, <1>3, <1>4, <1>5, <1>6, <1>7, <1>8, StepKinds

\* In every state the pages have their shape, the descent is on a page of the
\* database, in a tree of one leaf on that leaf, and iterators are on leaves
\* (BPlusTree.cpp:62-97, 265-341; index_iterator.h:71-92).
THEOREM TreeIsWellFormed == Spec => []BaseInv
BY BaseInit, BaseStep, PTL DEF Spec

\* For any pages, leaf size and callers, every operation takes its pins back on
\* every path, failures included: between operations the pins are those of the
\* iterators that Begin returned (BPlusTree.cpp:62-97, 142, 216-242, 372-391).
THEOREM PinsAreReturned == Spec => []PinsAreIterators
<1>1. Init => BaseInv /\ PinInv
  BY BaseInit, PinInit
<1>2. BaseInv /\ PinInv /\ [Next]_vars => BaseInv' /\ PinInv'
  BY BaseStep, PinStep
<1>3. BaseInv /\ PinInv => PinsAreIterators
  <2> SUFFICES ASSUME BaseInv, PinInv, pc = "idle"
               PROVE  SumFunction(pins) = scans /\ (iter # NoIter => pins[iter.page] > 0)
    BY DEF PinsAreIterators
  <2>1. scans \in Nat
    BY DEF BaseInv, TypeOK
  <2>2. SumFunction(pins) = scans
    BY <2>1 DEF PinInv
  <2>3. ASSUME iter # NoIter PROVE pins[iter.page] > 0
    <3>1. iter.page \in PageIds /\ pins[iter.page] \in Int
      BY <2>3 DEF BaseInv, IterInv, TypeOK
    <3>2. OpPins(iter.page) = 0 /\ IterPins(iter.page) = 1
      BY <2>3 DEF OpPins, IterPins
    <3>3. pins[iter.page] >= OpPins(iter.page) + IterPins(iter.page)
      BY <3>1 DEF PinInv
    <3> QED BY <3>1, <3>2, <3>3
  <2> QED BY <2>2, <2>3
<1> QED BY <1>1, <1>2, <1>3, PTL DEF Spec

-----------------------------------------------------------------------------
(* Entries *)

LeafSize(d) == IF IsLeaf(d) THEN SizeOf(d) ELSE 0
LeafSizes == [p \in PageIds |-> IF IsLeaf(data[p]) THEN SizeOf(data[p]) ELSE 0]

CountInv == SumFunction(LeafSizes) = entries

LeafSizesKnown ==
    LeafSizes \in [PageIds -> Int] /\ \A q \in PageIds : LeafSizes[q] = LeafSize(data[q])

LEMMA LeafSizesType == ShapeInv => LeafSizesKnown
<1> SUFFICES ASSUME ShapeInv
             PROVE  LeafSizes \in [PageIds -> Int] /\ \A q \in PageIds : LeafSizes[q] = LeafSize(data[q])
  BY DEF LeafSizesKnown
<1>1. \A q \in PageIds : LeafSize(data[q]) \in Int
  BY LeafSizeAssumption DEF ShapeInv, LeafSize
<1>2. LeafSizes = [q \in PageIds |-> LeafSize(data[q])]
  BY Zenon DEF LeafSizes, LeafSize
<1> HIDE DEF LeafSizes, LeafSize
<1> QED BY <1>1, <1>2

LEMMA LeafSizesTypeNext == ShapeInv' => LeafSizesKnown'
BY LeafSizesType, PTL

\* The numbers of entries before and after a step that changes one leaf.
LEMMA CountChange ==
  ASSUME BaseInv, CountInv, ShapeInv', NEW p \in PageIds,
         \A q \in PageIds \ {p} : LeafSize(data'[q]) = LeafSize(data[q]),
         entries' = entries - LeafSize(data[p]) + LeafSize(data'[p])
  PROVE  CountInv'
<1>1. \A q \in PageIds : LeafSize(data[q]) \in Int
  BY LeafSizeAssumption DEF BaseInv, ShapeInv, LeafSize
<1>2. \A q \in PageIds : LeafSize(data'[q]) \in Int
  BY LeafSizeAssumption DEF ShapeInv, LeafSize
<1>3. PICK f \in [PageIds -> Int] : f = LeafSizes /\ \A q \in PageIds : f[q] = LeafSize(data[q])
  BY LeafSizesType DEF BaseInv, LeafSizesKnown
<1>4. PICK h \in [PageIds -> Int] : h = LeafSizes' /\ \A q \in PageIds : h[q] = LeafSize(data'[q])
  BY LeafSizesTypeNext DEF LeafSizesKnown
<1>5. SumFunction(h) = SumFunction(f) - f[p] + h[p]
  <2>1. \A q \in PageIds \ {p} : h[q] = f[q]
    BY <1>3, <1>4
  <2> QED BY <2>1, FinitePages, SumChange
<1>6. SumFunction(f) = entries
  BY <1>3 DEF CountInv
<1>7. SumFunction(h) = entries'
  BY <1>3, <1>4, <1>5, <1>6
<1> QED BY <1>4, <1>7 DEF CountInv

\* The same for a split, which shares the entries of one leaf between two.
LEMMA CountSplit ==
  ASSUME BaseInv, CountInv, ShapeInv', NEW p \in PageIds, NEW n \in PageIds, p # n,
         \A q \in PageIds \ {p, n} : LeafSize(data'[q]) = LeafSize(data[q]),
         entries' = entries - LeafSize(data[p]) - LeafSize(data[n]) + LeafSize(data'[p]) + LeafSize(data'[n])
  PROVE  CountInv'
<1>1. \A q \in PageIds : LeafSize(data[q]) \in Int
  BY LeafSizeAssumption DEF BaseInv, ShapeInv, LeafSize
<1>2. \A q \in PageIds : LeafSize(data'[q]) \in Int
  BY LeafSizeAssumption DEF ShapeInv, LeafSize
<1>3. PICK f \in [PageIds -> Int] : f = LeafSizes /\ \A q \in PageIds : f[q] = LeafSize(data[q])
  BY LeafSizesType DEF BaseInv, LeafSizesKnown
<1>4. PICK h \in [PageIds -> Int] : h = LeafSizes' /\ \A q \in PageIds : h[q] = LeafSize(data'[q])
  BY LeafSizesTypeNext DEF LeafSizesKnown
<1>5. PICK g \in [PageIds -> Int] : \A q \in PageIds : g[q] = IF q = p THEN h[q] ELSE f[q]
  <2>1. [q \in PageIds |-> IF q = p THEN h[q] ELSE f[q]] \in [PageIds -> Int]
    OBVIOUS
  <2> QED BY <2>1
<1>6. SumFunction(g) \in Int /\ SumFunction(g) = SumFunction(f) - f[p] + g[p]
  <2>1. \A q \in PageIds \ {p} : g[q] = f[q]
    BY <1>5
  <2> QED BY <2>1, FinitePages, SumChange
<1>7. SumFunction(h) = SumFunction(g) - g[n] + h[n]
  <2>1. \A q \in PageIds \ {n} : h[q] = g[q]
    BY <1>3, <1>4, <1>5
  <2> QED BY <2>1, FinitePages, SumChange
<1>8. SumFunction(f) = entries /\ entries \in Int
  BY <1>3 DEF CountInv, BaseInv, TypeOK
<1>9. g[p] = LeafSize(data'[p]) /\ g[n] = LeafSize(data[n])
  BY <1>3, <1>4, <1>5
<1>10. SumFunction(h) = entries'
  BY <1>1, <1>2, <1>3, <1>4, <1>6, <1>7, <1>8, <1>9
<1> QED BY <1>4, <1>10 DEF CountInv

LEMMA CountInit == Init => CountInv
<1> SUFFICES ASSUME Init PROVE CountInv
  OBVIOUS
<1>1. \A p \in PageIds : ~IsLeaf(data[p])
  BY NoLeafData DEF Init
<1>2. PICK f \in [PageIds -> Int] : f = LeafSizes /\ \A q \in PageIds : f[q] = 0
  <2>1. ShapeInv
    BY BaseInit DEF BaseInv
  <2>2. \A q \in PageIds : LeafSize(data[q]) = 0
    BY <1>1 DEF LeafSize
  <2> QED BY <2>1, <2>2, LeafSizesType DEF LeafSizesKnown
<1>3. SumFunction(f) = 0
  BY <1>2, FinitePages, SumZero
<1> QED BY <1>2, <1>3 DEF Init, CountInv

LEMMA CountStep == BaseInv /\ CountInv /\ [Next]_vars => CountInv'
<1> SUFFICES ASSUME BaseInv, CountInv, [Next]_vars PROVE CountInv'
  OBVIOUS
<1>1. CASE data' = data /\ entries' = entries
  BY <1>1 DEF CountInv, LeafSizes
<1>2. CASE InsertWithRoom
  <2>1. PICK d \in Data :
          /\ IsLeaf(d) /\ SizeOf(d) = SizeOf(data[op.page]) + 1
          /\ data' = [data EXCEPT ![op.page] = d] /\ ShapeInv'
    BY <1>2, InsertWithRoomEffect
  <2>2. IsLeaf(data[op.page]) /\ op.page \in PageIds /\ SizeOf(data[op.page]) \in Int
    BY <1>2, AtLeafFacts, LeafSizeAssumption DEF InsertWithRoom, AtLeaf
  <2>3. LeafSize(data'[op.page]) = LeafSize(data[op.page]) + 1 /\ LeafSize(data[op.page]) \in Int
    BY <2>1, <2>2 DEF LeafSize, BaseInv, TypeOK
  <2>4. \A q \in PageIds \ {op.page} : LeafSize(data'[q]) = LeafSize(data[q])
    BY <2>1, <2>2 DEF LeafSize, BaseInv, TypeOK
  <2>5. entries' = entries + 1 /\ entries \in Int
    BY <1>2 DEF InsertWithRoom, Counted, BaseInv, TypeOK
  <2>6. entries' = entries - LeafSize(data[op.page]) + LeafSize(data'[op.page])
    BY <2>3, <2>5
  <2> QED BY <2>1, <2>2, <2>4, <2>6, CountChange
<1>3. CASE Remove
  <2>1. PICK d \in Data :
          /\ IsLeaf(d) /\ SizeOf(d) = SizeOf(data[op.page]) - 1
          /\ data' = [data EXCEPT ![op.page] = d] /\ ShapeInv'
    BY <1>3, RemoveEffect
  <2>2. IsLeaf(data[op.page]) /\ op.page \in PageIds /\ SizeOf(data[op.page]) \in Int
    BY <1>3, AtLeafFacts, LeafSizeAssumption DEF Remove, AtLeaf
  <2>3. LeafSize(data'[op.page]) = LeafSize(data[op.page]) - 1 /\ LeafSize(data[op.page]) \in Int
    BY <2>1, <2>2 DEF LeafSize, BaseInv, TypeOK
  <2>4. \A q \in PageIds \ {op.page} : LeafSize(data'[q]) = LeafSize(data[q])
    BY <2>1, <2>2 DEF LeafSize, BaseInv, TypeOK
  <2>5. entries' = entries - 1 /\ entries \in Int
    BY <1>3 DEF Remove, BaseInv, TypeOK
  <2>6. entries' = entries - LeafSize(data[op.page]) + LeafSize(data'[op.page])
    BY <2>3, <2>5
  <2> QED BY <2>1, <2>2, <2>4, <2>6, CountChange
<1>4. CASE \E key \in Int, rid \in Int \X Int : InsertFirst(key, rid)
  <2>1. PICK key \in Int, rid \in Int \X Int : InsertFirst(key, rid)
    BY <1>4
  <2>2. /\ next_page_id \in PageIds
        /\ data' = [data EXCEPT ![next_page_id] = FirstLeaf(key, rid)]
        /\ data[next_page_id] = ZeroPage /\ ShapeInv'
    BY <2>1, InsertFirstEffect
  <2>3. LeafSize(FirstLeaf(key, rid)) = 1 /\ LeafSize(ZeroPage) = 0
    BY FirstLeafData, NoLeafData DEF LeafSize
  <2>4. LeafSize(data'[next_page_id]) = 1 /\ LeafSize(data[next_page_id]) = 0
    BY <2>2, <2>3 DEF BaseInv, TypeOK
  <2>5. \A q \in PageIds \ {next_page_id} : LeafSize(data'[q]) = LeafSize(data[q])
    BY <2>2 DEF LeafSize, BaseInv, TypeOK
  <2>6. entries' = entries + 1 /\ entries \in Int
    BY <2>1 DEF InsertFirst, Counted, BaseInv, TypeOK
  <2>7. entries' = entries - LeafSize(data[next_page_id]) + LeafSize(data'[next_page_id])
    BY <2>4, <2>6
  <2> QED BY <2>2, <2>5, <2>7, CountChange
<1>5. CASE InsertSplit
  <2>1. PICK a, b \in Data :
          /\ next_page_id \in PageIds /\ next_page_id # op.page
          /\ data[next_page_id] = ZeroPage /\ SizeOf(data[op.page]) = leaf_max_size
          /\ IsLeaf(a) /\ SizeOf(a) \in 1 .. leaf_max_size
          /\ IsLeaf(b) /\ SizeOf(b) \in 1 .. leaf_max_size
          /\ SizeOf(a) + SizeOf(b) = leaf_max_size + 1
          /\ data'[op.page] = a /\ data'[next_page_id] = b
          /\ \/ /\ next_page_id + 1 \in PageIds /\ data[next_page_id + 1] = ZeroPage
                /\ ~IsLeaf(data'[next_page_id + 1])
                /\ \A p \in PageIds \ {op.page, next_page_id, next_page_id + 1} : data'[p] = data[p]
             \/ \A p \in PageIds \ {op.page, next_page_id} : data'[p] = data[p]
          /\ ShapeInv'
    BY <1>5, InsertSplitEffect
  <2>2. IsLeaf(data[op.page]) /\ op.page \in PageIds
    BY <1>5, AtLeafFacts DEF InsertSplit, AtLeaf
  <2>3. \A q \in PageIds \ {op.page, next_page_id} : LeafSize(data'[q]) = LeafSize(data[q])
    <3>1. LeafSize(ZeroPage) = 0
      BY NoLeafData DEF LeafSize
    <3> QED BY <2>1, <3>1 DEF LeafSize
  <2>4. LeafSize(data[op.page]) = leaf_max_size /\ LeafSize(data[next_page_id]) = 0
    BY <2>1, <2>2, NoLeafData DEF LeafSize
  <2>5. LeafSize(data'[op.page]) = SizeOf(a) /\ LeafSize(data'[next_page_id]) = SizeOf(b)
    BY <2>1 DEF LeafSize
  <2>6. entries' = entries + 1 /\ entries \in Int
    BY <1>5 DEF InsertSplit, Counted, BaseInv, TypeOK
  <2>7. /\ LeafSize(data'[op.page]) \in Int /\ LeafSize(data'[next_page_id]) \in Int
        /\ LeafSize(data'[op.page]) + LeafSize(data'[next_page_id]) = leaf_max_size + 1
    BY <2>1, <2>5, LeafSizeAssumption
  <2>8. entries' = entries - LeafSize(data[op.page]) - LeafSize(data[next_page_id])
                     + LeafSize(data'[op.page]) + LeafSize(data'[next_page_id])
    BY <2>4, <2>6, <2>7, LeafSizeAssumption
  <2> QED BY <2>1, <2>2, <2>3, <2>8, CountSplit
<1>6. ASSUME CallStep \/ CallOnEmpty \/ Fetch \/ Descend \/ ReturnStep \/ ScanNext \/ UNCHANGED vars
      PROVE  data' = data /\ entries' = entries
  <2>1. CASE CallStep
    BY <2>1, CallStepBegins DEF Begins, treeVars, ghostVars
  <2>2. CASE CallOnEmpty \/ Fetch \/ Descend
    BY <2>2 DEF CallOnEmpty, Fetch, Descend, treeVars, ghostVars
  <2>3. CASE ReturnStep
    BY <2>3 DEF ReturnStep, FetchFails, GetValue, InsertWithoutPage, RemoveNothing,
                BeginEmptyLeaf, Begin, treeVars, ghostVars
  <2>4. CASE ScanNext \/ UNCHANGED vars
    BY <2>4 DEF ScanNext, vars, treeVars, ghostVars
  <2> QED BY <1>6, <2>1, <2>2, <2>3, <2>4
<1> QED BY <1>1, <1>2, <1>3, <1>4, <1>5, <1>6, StepKinds DEF ChangeStep

\* For any pages, leaf size and callers, the sizes that the leaves record add up
\* to the inserts that returned true minus the removes that did, and no leaf is
\* over leaf_max_size (BPlusTree.cpp:262, 274, 284, 384).
THEOREM EntriesAreCounted == Spec => []EntriesCounted
<1>1. Init => BaseInv /\ CountInv
  BY BaseInit, CountInit
<1>2. BaseInv /\ CountInv /\ [Next]_vars => BaseInv' /\ CountInv'
  BY BaseStep, CountStep
<1>3. BaseInv /\ CountInv => EntriesCounted
  BY DEF BaseInv, ShapeInv, CountInv, LeafSizes, EntriesCounted
<1> QED BY <1>1, <1>2, <1>3, PTL DEF Spec

-----------------------------------------------------------------------------
(* Lookups *)

\* The keys of a leaf are words of its page.
LEMMA KeyWords ==
  ASSUME NEW d \in Data, SizeOf(d) \in 0 .. leaf_max_size
  PROVE  /\ \A i \in 0 .. (SizeOf(d) - 1) : d[KeyAt(i)] \in Int /\ WordOf(d, KeyAt(i)) = d[KeyAt(i)]
         /\ Sorted(d) => InOrder(d)
<1>1. \A i \in 0 .. (SizeOf(d) - 1) : KeyAt(i) \in Words
  BY LeafSizeAssumption, WordsAssumption DEF KeyAt, Words
<1>2. \A i \in 0 .. (SizeOf(d) - 1) : d[KeyAt(i)] \in Int /\ WordOf(d, KeyAt(i)) = d[KeyAt(i)]
  BY <1>1 DEF WordOf, Data
<1> QED BY <1>2 DEF Sorted, InOrder

\* The two loops of GetValue find the one entry of the key, if the keys are in order.
LEMMA MatchesExact ==
  ASSUME NEW d \in Data, SizeOf(d) \in 0 .. leaf_max_size, Sorted(d), NEW key \in Int
  PROVE  /\ key \notin KeysOf(d) => Matches(d, key) = {}
         /\ key \in KeysOf(d) =>
              \E i \in 0 .. (SizeOf(d) - 1) : d[KeyAt(i)] = key /\ Matches(d, key) = {i}
<1>1. SizeOf(d) \in Nat
  BY LeafSizeAssumption
<1>2. PICK pos \in 0 .. SizeOf(d) : pos = BinarySearch(d, key)
  BY <1>1, SearchResult
<1>3. \A i \in 0 .. (SizeOf(d) - 1) : d[KeyAt(i)] \in Int /\ WordOf(d, KeyAt(i)) = d[KeyAt(i)]
  BY KeyWords
<1>4. InOrder(d)
  BY KeyWords
<1>5. /\ \A i \in 0 .. (pos - 1) : WordOf(d, KeyAt(i)) <= key
      /\ \A i \in pos .. (SizeOf(d) - 1) : WordOf(d, KeyAt(i)) > key
  BY <1>1, <1>2, <1>4, SearchResult
<1>6. Matches(d, key) = {i \in 0 .. (SizeOf(d) - 1) :
         \A j \in IF i < pos THEN i .. (pos - 1) ELSE pos .. i : d[KeyAt(j)] = key}
  BY <1>2 DEF Matches
<1>7. ASSUME NEW i \in Matches(d, key)
      PROVE  i \in 0 .. (SizeOf(d) - 1) /\ d[KeyAt(i)] = key
  <2>1. i \in 0 .. (SizeOf(d) - 1) /\ \A j \in IF i < pos THEN i .. (pos - 1) ELSE pos .. i : d[KeyAt(j)] = key
    BY <1>6
  <2>2. i \in IF i < pos THEN i .. (pos - 1) ELSE pos .. i
    BY <1>1, <2>1
  <2> QED BY <2>1, <2>2
<1>8. ASSUME NEW i \in 0 .. (SizeOf(d) - 1), d[KeyAt(i)] = key
      PROVE  i = pos - 1 /\ i \in Matches(d, key)
  <2>1. i < pos
    <3>1. ASSUME i >= pos PROVE FALSE
      <4>1. i \in pos .. (SizeOf(d) - 1)
        BY <1>1, <3>1
      <4>2. WordOf(d, KeyAt(i)) > key
        BY <1>5, <4>1
      <4> QED BY <1>3, <1>8, <4>2
    <3> QED BY <1>1, <3>1
  <2>2. i = pos - 1
    <3>1. ASSUME i < pos - 1 PROVE FALSE
      <4>1. pos - 1 \in 0 .. (SizeOf(d) - 1) /\ pos - 1 \in 0 .. (pos - 1)
        BY <1>1, <3>1
      <4>2. d[KeyAt(i)] < d[KeyAt(pos - 1)]
        BY <3>1, <4>1 DEF Sorted
      <4>3. d[KeyAt(pos - 1)] <= key /\ d[KeyAt(pos - 1)] \in Int
        BY <1>3, <1>5, <4>1
      <4> QED BY <1>8, <4>2, <4>3
    <3> QED BY <1>1, <2>1, <3>1
  <2>3. \A j \in i .. (pos - 1) : j = i
    BY <1>1, <2>2
  <2>4. \A j \in IF i < pos THEN i .. (pos - 1) ELSE pos .. i : d[KeyAt(j)] = key
    BY <1>8, <2>1, <2>3
  <2> QED BY <1>6, <2>2, <2>4
<1>9. CASE key \notin KeysOf(d)
  BY <1>7, <1>9 DEF KeysOf
<1>10. CASE key \in KeysOf(d)
  <2>1. PICK i \in 0 .. (SizeOf(d) - 1) : d[KeyAt(i)] = key
    BY <1>10 DEF KeysOf
  <2>2. i = pos - 1 /\ i \in Matches(d, key)
    BY <1>8, <2>1
  <2>3. \A j \in Matches(d, key) : j = pos - 1
    BY <1>7, <1>8
  <2>4. Matches(d, key) = {i}
    BY <2>2, <2>3
  <2> QED BY <1>10, <2>1, <2>4
<1> QED BY <1>9, <1>10

\* An insert above all keys of a leaf in order adds the key behind them.
LEMMA InsertAbove ==
  ASSUME NEW d \in Data, IsLeaf(d), SizeOf(d) \in 1 .. (leaf_max_size - 1), Sorted(d),
         NEW key \in Int, NEW rid \in Int \X Int, \A k \in KeysOf(d) : k < key
  PROVE  /\ Sorted(InsertIntoLeaf(d, key, rid))
         /\ KeysOf(InsertIntoLeaf(d, key, rid)) = KeysOf(d) \cup {key}
         /\ InsertIntoLeaf(d, key, rid)[3 * SizeOf(d) + 3] = rid[2]
         /\ \A w \in Words : w > 3 * SizeOf(d) + 3 => InsertIntoLeaf(d, key, rid)[w] = d[w]
<1>1. SizeOf(d) \in Nat /\ SizeOf(d) \in 0 .. leaf_max_size /\ SizeOf(d) \in 0 .. (leaf_max_size - 1)
  BY LeafSizeAssumption
<1>2. \A i \in 0 .. (SizeOf(d) - 1) : d[KeyAt(i)] \in Int /\ WordOf(d, KeyAt(i)) = d[KeyAt(i)] /\ d[KeyAt(i)] < key
  BY <1>1, KeyWords DEF KeysOf
<1>3. BinarySearch(d, key) = SizeOf(d)
  <2>1. PICK pos \in 0 .. SizeOf(d) : pos = BinarySearch(d, key)
    BY <1>1, SearchResult
  <2>2. \A i \in pos .. (SizeOf(d) - 1) : WordOf(d, KeyAt(i)) > key
    BY <1>1, <2>1, SearchResult, KeyWords
  <2>3. ASSUME pos < SizeOf(d) PROVE FALSE
    <3>1. pos \in 0 .. (SizeOf(d) - 1) /\ pos \in pos .. (SizeOf(d) - 1)
      BY <1>1, <2>3
    <3> QED BY <1>2, <2>2, <3>1
  <2> QED BY <1>1, <2>1, <2>3
<1>4. PICK e : e = InsertIntoLeaf(d, key, rid)
  OBVIOUS
<1>5. SizeOf(e) = SizeOf(d) + 1
  BY <1>1, <1>4, InsertIntoLeafData
<1>6. \A i \in 0 .. SizeOf(d) : e[KeyAt(i)] = IF i = SizeOf(d) THEN key ELSE d[KeyAt(i)]
  BY <1>1, <1>3, <1>4, InsertIntoLeafData
<1>7. 0 .. (SizeOf(e) - 1) = 0 .. SizeOf(d)
  BY <1>1, <1>5
<1>8. Sorted(e)
  <2> SUFFICES ASSUME NEW i \in 0 .. SizeOf(d), NEW j \in 0 .. SizeOf(d), i < j
               PROVE  e[KeyAt(i)] < e[KeyAt(j)]
    BY <1>7 DEF Sorted
  <2>1. i \in 0 .. (SizeOf(d) - 1) /\ i # SizeOf(d)
    BY <1>1
  <2>2. CASE j = SizeOf(d)
    BY <1>2, <1>6, <2>1, <2>2
  <2>3. CASE j # SizeOf(d)
    <3>1. j \in 0 .. (SizeOf(d) - 1)
      BY <1>1, <2>3
    <3> QED BY <1>6, <2>1, <2>3, <3>1 DEF Sorted
  <2> QED BY <2>2, <2>3
<1>9. KeysOf(e) = KeysOf(d) \cup {key}
  <2>1. ASSUME NEW k \in KeysOf(e) PROVE k \in KeysOf(d) \cup {key}
    <3>1. PICK i \in 0 .. SizeOf(d) : k = e[KeyAt(i)]
      BY <1>7 DEF KeysOf
    <3>2. CASE i = SizeOf(d)
      BY <1>6, <3>1, <3>2
    <3>3. CASE i # SizeOf(d)
      <4>1. i \in 0 .. (SizeOf(d) - 1)
        BY <1>1, <3>3
      <4> QED BY <1>6, <3>1, <3>3, <4>1 DEF KeysOf
    <3> QED BY <3>2, <3>3
  <2>2. ASSUME NEW k \in KeysOf(d) PROVE k \in KeysOf(e)
    <3>1. PICK i \in 0 .. (SizeOf(d) - 1) : k = d[KeyAt(i)]
      BY DEF KeysOf
    <3>2. i \in 0 .. SizeOf(d) /\ i # SizeOf(d)
      BY <1>1
    <3> QED BY <1>6, <1>7, <3>1, <3>2 DEF KeysOf
  <2>3. key \in KeysOf(e)
    <3>1. SizeOf(d) \in 0 .. SizeOf(d)
      BY <1>1
    <3> QED BY <1>6, <1>7, <3>1 DEF KeysOf
  <2> QED BY <2>1, <2>2, <2>3
<1>10. e[3 * SizeOf(d) + 3] = rid[2] /\ \A w \in Words : w > 3 * SizeOf(d) + 3 => e[w] = d[w]
  BY <1>1, <1>3, <1>4, InsertIntoLeafData
<1> QED BY <1>4, <1>8, <1>9, <1>10

\* An insert above all keys has its slot_num behind everything else.
LEMMA InsertIsNewest ==
  ASSUME NEW d \in Data, NEW e \in Data, NEW old, NEW rid, SizeOf(d) \in 1 .. (leaf_max_size - 1),
         NewestLast(d, old), SizeOf(e) = SizeOf(d) + 1, e[3 * SizeOf(d) + 3] = rid[2],
         \A w \in Words : w > 3 * SizeOf(d) + 3 => e[w] = d[w]
  PROVE  NewestLast(e, rid)
<1>1. SizeOf(d) \in Int /\ SizeOf(d) >= 1
  BY LeafSizeAssumption
<1>2. SizeOf(e) > 1 /\ SizeOf(e) # 1 /\ 3 * SizeOf(e) = 3 * SizeOf(d) + 3
  BY <1>1
<1>3. ASSUME NEW w \in Words, w > 5, w > 3 * SizeOf(e) PROVE e[w] = 0
  <2>1. w \in Int /\ w > 3 * SizeOf(d) + 3 /\ w > 3 * SizeOf(d)
    BY <1>1, <1>2, <1>3, WordsAssumption DEF Words
  <2> QED BY <1>3, <2>1 DEF NewestLast
<1> QED BY <1>2, <1>3 DEF NewestLast

\* A remove from a leaf in order takes out one key and keeps the order.
LEMMA RemoveKeeps ==
  ASSUME NEW d \in Data, IsLeaf(d), SizeOf(d) \in 1 .. leaf_max_size, Sorted(d),
         NEW pos \in 0 .. (SizeOf(d) - 1), NEW key, key = d[KeyAt(pos)]
  PROVE  /\ Sorted(RemovedFrom(d, pos))
         /\ KeysOf(RemovedFrom(d, pos)) = KeysOf(d) \ {key}
<1>1. SizeOf(d) \in Nat /\ SizeOf(d) \in 0 .. leaf_max_size
  BY LeafSizeAssumption
<1>2. \A i \in 0 .. (SizeOf(d) - 1) : d[KeyAt(i)] \in Int
  BY <1>1, KeyWords
<1>3. PICK e : e = RemovedFrom(d, pos)
  OBVIOUS
<1>4. SizeOf(e) = SizeOf(d) - 1
  BY <1>3, RemovedFromData
<1>5. \A i \in 0 .. (SizeOf(d) - 2) : e[KeyAt(i)] = IF i < pos THEN d[KeyAt(i)] ELSE d[KeyAt(i + 1)]
  BY <1>3, RemovedFromData
<1>6. 0 .. (SizeOf(e) - 1) = 0 .. (SizeOf(d) - 2)
  BY <1>1, <1>4
<1>7. \A i \in 0 .. (SizeOf(d) - 2) : i \in 0 .. (SizeOf(d) - 1) /\ i + 1 \in 0 .. (SizeOf(d) - 1)
  BY <1>1
<1>8. Sorted(e)
  <2> SUFFICES ASSUME NEW i \in 0 .. (SizeOf(d) - 2), NEW j \in 0 .. (SizeOf(d) - 2), i < j
               PROVE  e[KeyAt(i)] < e[KeyAt(j)]
    BY <1>6 DEF Sorted
  <2>1. CASE j < pos
    BY <1>5, <1>7, <2>1 DEF Sorted
  <2>2. CASE i >= pos
    <3>1. e[KeyAt(i)] = d[KeyAt(i + 1)] /\ e[KeyAt(j)] = d[KeyAt(j + 1)] /\ i + 1 < j + 1
      BY <1>5, <2>2
    <3> QED BY <1>7, <3>1 DEF Sorted
  <2>3. CASE i < pos /\ j >= pos
    <3>1. e[KeyAt(i)] = d[KeyAt(i)] /\ e[KeyAt(j)] = d[KeyAt(j + 1)] /\ i < j + 1
      BY <1>5, <2>3
    <3> QED BY <1>7, <3>1 DEF Sorted
  <2> QED BY <2>1, <2>2, <2>3
<1>9. KeysOf(e) = KeysOf(d) \ {key}
  <2>1. ASSUME NEW k \in KeysOf(e) PROVE k \in KeysOf(d) \ {key}
    <3>1. PICK i \in 0 .. (SizeOf(d) - 2) : k = e[KeyAt(i)]
      BY <1>6 DEF KeysOf
    <3>2. PICK j \in 0 .. (SizeOf(d) - 1) : j # pos /\ k = d[KeyAt(j)]
      <4>1. CASE i < pos
        BY <1>5, <1>7, <3>1, <4>1
      <4>2. CASE i >= pos
        <5>1. i + 1 # pos /\ k = d[KeyAt(i + 1)]
          BY <1>5, <3>1, <4>2
        <5> QED BY <1>7, <5>1
      <4> QED BY <4>1, <4>2
    <3>3. d[KeyAt(j)] # d[KeyAt(pos)]
      <4>1. d[KeyAt(j)] < d[KeyAt(pos)] \/ d[KeyAt(pos)] < d[KeyAt(j)]
        BY <3>2 DEF Sorted
      <4> QED BY <1>2, <4>1
    <3> QED BY <3>2, <3>3 DEF KeysOf
  <2>2. ASSUME NEW k \in KeysOf(d), k # key PROVE k \in KeysOf(e)
    <3>1. PICK i \in 0 .. (SizeOf(d) - 1) : k = d[KeyAt(i)]
      BY DEF KeysOf
    <3>2. i # pos
      BY <2>2, <3>1
    <3>3. PICK j \in 0 .. (SizeOf(d) - 2) : k = e[KeyAt(j)]
      <4>1. CASE i < pos
        <5>1. i \in 0 .. (SizeOf(d) - 2)
          BY <1>1, <4>1
        <5> QED BY <1>5, <3>1, <4>1, <5>1
      <4>2. CASE i > pos
        <5>1. PICK j \in 0 .. (SizeOf(d) - 2) : j + 1 = i /\ ~(j < pos)
          <6>1. i - 1 \in 0 .. (SizeOf(d) - 2) /\ (i - 1) + 1 = i /\ ~(i - 1 < pos)
            BY <1>1, <4>2
          <6> QED BY <6>1
        <5> QED BY <1>5, <3>1, <5>1
      <4> QED BY <3>2, <4>1, <4>2
    <3> QED BY <1>6, <3>3 DEF KeysOf
  <2> QED BY <2>1, <2>2
<1> QED BY <1>3, <1>8, <1>9

LEMMA AscendingInit == Init => AscendingInv
BY DEF Init, AscendingInv, RootIsLeaf

\* A root that is an inner page is not touched by a step at a leaf.
LEMMA InnerRootStays ==
  ASSUME BaseInv, AscendingInv, root_page_id # -1, ~RootIsLeaf,
         root_page_id' = root_page_id, data'[root_page_id] = data[root_page_id],
         inserts' \in Int, entries' <= inserts'
  PROVE  AscendingInv'
BY DEF AscendingInv, RootIsLeaf

\* The root leaf after a step: what AscendingInv asks of it.
LEMMA RootLeafWritten ==
  ASSUME root_page_id' # -1, SizeOf(data'[root_page_id']) \in 1 .. entries',
         inserts' \in Int, entries' <= inserts',
         ascending' /\ SizeOf(data'[root_page_id']) = entries' =>
            /\ Sorted(data'[root_page_id']) /\ present' = KeysOf(data'[root_page_id'])
            /\ inserts' = entries' => NewestLast(data'[root_page_id'], newest')
  PROVE  AscendingInv'
BY DEF AscendingInv

\* What an insert does to the counts.
LEMMA InsertCounts ==
  ASSUME BaseInv, AscendingInv, NEW key, NEW rid, Counted(key, rid)
  PROVE  /\ inserts \in Int /\ entries \in Int /\ inserts' \in Int
         /\ inserts' = inserts + 1 /\ entries' = entries + 1 /\ entries' <= inserts'
         /\ ascending' => newest' = rid
<1>1. inserts \in Int /\ entries \in Int /\ entries <= inserts
  BY DEF BaseInv, TypeOK, AscendingInv
<1>2. inserts' = inserts + 1 /\ entries' = entries + 1
  BY DEF Counted
<1>3. ascending' => newest' = rid
  BY DEF Counted
<1> QED BY <1>1, <1>2, <1>3

LEMMA AscendingFirst ==
  ASSUME BaseInv, AscendingInv, NEW key \in Int, NEW rid \in Int \X Int, InsertFirst(key, rid)
  PROVE  AscendingInv'
<1>1. /\ next_page_id \in PageIds
      /\ data' = [data EXCEPT ![next_page_id] = FirstLeaf(key, rid)]
  BY InsertFirstEffect
<1>2. PICK d \in Data : /\ d = FirstLeaf(key, rid) /\ SizeOf(d) = 1 /\ d[KeyAt(0)] = key
                       /\ <<d[3], d[4]>> = rid /\ \A w \in Words : w > 5 => d[w] = 0
  BY FirstLeafData
<1>3. root_page_id' = next_page_id /\ root_page_id = -1 /\ next_page_id # -1
  BY <1>1, MaxPagesAssumption DEF InsertFirst, PageIds
<1>4. data'[root_page_id'] = d
  BY <1>1, <1>2, <1>3 DEF BaseInv, TypeOK
<1>5. entries \in Int /\ entries >= 0 /\ entries' = entries + 1
  BY <1>3 DEF BaseInv, TypeOK, AscendingInv, InsertFirst, Counted
<1>6. Sorted(d) /\ KeysOf(d) = {key}
  <2>1. 0 .. (SizeOf(d) - 1) = {0}
    BY <1>2
  <2> QED BY <1>2, <2>1 DEF Sorted, KeysOf
<1>7. ASSUME ascending', 1 = entries' PROVE present' = {key}
  <2>1. ascending /\ present' = present \cup {key}
    BY <1>7 DEF InsertFirst, Counted
  <2>2. entries = 0
    BY <1>5, <1>7
  <2>3. present = {}
    BY <1>3, <2>1, <2>2 DEF AscendingInv
  <2> QED BY <2>1, <2>3
<1>8. 1 \in 1 .. entries'
  BY <1>5
<1>9. inserts' \in Int /\ entries' <= inserts' /\ (ascending' => newest' = rid)
  BY InsertCounts DEF InsertFirst
<1>10. NewestLast(d, rid)
  BY <1>2 DEF NewestLast
<1> QED BY <1>2, <1>3, <1>4, <1>6, <1>7, <1>8, <1>9, <1>10, RootLeafWritten

LEMMA AscendingRoom ==
  ASSUME BaseInv, AscendingInv, InsertWithRoom
  PROVE  AscendingInv'
<1>1. PICK d \in Data :
        /\ d = InsertIntoLeaf(data[op.page], op.key, op.rid)
        /\ SizeOf(d) = SizeOf(data[op.page]) + 1
        /\ data' = [data EXCEPT ![op.page] = d]
  BY InsertWithRoomEffect
<1>2. /\ op.page \in PageIds /\ data[op.page] \in Data /\ IsLeaf(data[op.page])
      /\ op.key \in Int /\ op.rid \in Int \X Int
      /\ SizeOf(data[op.page]) \in 0 .. leaf_max_size
      /\ root_page_id \in PageIds /\ (RootIsLeaf => op.page = root_page_id)
  BY AtLeafFacts DEF InsertWithRoom, AtLeaf
<1>3. root_page_id # -1 /\ root_page_id' = root_page_id
  BY <1>2, MaxPagesAssumption DEF InsertWithRoom, PageIds
<1>4. /\ inserts \in Int /\ entries \in Int /\ inserts' \in Int
      /\ inserts' = inserts + 1 /\ entries' = entries + 1 /\ entries' <= inserts'
      /\ ascending' => newest' = op.rid
  BY InsertCounts DEF InsertWithRoom
<1>5. CASE ~RootIsLeaf
  <2>1. op.page # root_page_id
    BY <1>2, <1>3, <1>5 DEF RootIsLeaf
  <2>2. data'[root_page_id] = data[root_page_id]
    BY <1>1, <1>2, <2>1 DEF BaseInv, TypeOK
  <2> QED BY <1>3, <1>5, <1>4, <2>2, InnerRootStays
<1>6. CASE RootIsLeaf
  <2>1. PICK old \in Data : old = data[op.page]
    BY <1>2
  <2>2. op.page = root_page_id /\ data'[root_page_id'] = d
    BY <1>1, <1>2, <1>3, <1>6 DEF BaseInv, TypeOK
  <2>3. SizeOf(old) \in 1 .. entries /\ entries \in Int /\ entries' = entries + 1
    BY <1>6, <2>1, <2>2 DEF AscendingInv, BaseInv, TypeOK, InsertWithRoom, Counted
  <2>4. SizeOf(d) \in 1 .. entries' /\ (SizeOf(d) = entries' => SizeOf(old) = entries)
    BY <1>1, <2>1, <2>3
  <2>5. ASSUME ascending', SizeOf(d) = entries'
        PROVE  /\ Sorted(d) /\ present' = KeysOf(d)
               /\ inserts' = entries' => NewestLast(d, newest')
    <3>1. ascending /\ (\A k \in present : k < op.key) /\ present' = present \cup {op.key}
      BY <2>5 DEF InsertWithRoom, Counted
    <3>2. Sorted(old) /\ present = KeysOf(old)
      BY <1>6, <2>1, <2>2, <2>4, <2>5, <3>1 DEF AscendingInv
    <3>3. IsLeaf(old) /\ SizeOf(old) \in 1 .. (leaf_max_size - 1)
      BY <1>2, <2>1, <2>3, LeafSizeAssumption DEF InsertWithRoom
    <3>4. /\ Sorted(d) /\ KeysOf(d) = KeysOf(old) \cup {op.key}
          /\ d[3 * SizeOf(old) + 3] = op.rid[2]
          /\ \A w \in Words : w > 3 * SizeOf(old) + 3 => d[w] = old[w]
      BY <1>1, <1>2, <2>1, <3>1, <3>2, <3>3, InsertAbove
    <3>5. ASSUME inserts' = entries' PROVE NewestLast(d, newest')
      <4>1. inserts = entries
        BY <1>4, <3>5
      <4>2. NewestLast(old, newest)
        BY <1>6, <2>1, <2>2, <2>4, <2>5, <3>1, <4>1 DEF AscendingInv
      <4>3. SizeOf(d) = SizeOf(old) + 1
        BY <1>1, <2>1
      <4>4. NewestLast(d, op.rid)
        BY <3>3, <3>4, <4>2, <4>3, InsertIsNewest
      <4> QED BY <1>4, <2>5, <4>4
    <3> QED BY <3>1, <3>2, <3>4, <3>5
  <2> QED BY <1>3, <1>4, <2>2, <2>4, <2>5, RootLeafWritten
<1> QED BY <1>5, <1>6

LEMMA AscendingRemove ==
  ASSUME BaseInv, AscendingInv, Remove
  PROVE  AscendingInv'
<1>1. PICK d \in Data, pos \in 0 .. (SizeOf(data[op.page]) - 1) :
        /\ data[op.page][KeyAt(pos)] = op.key
        /\ d = RemovedFrom(data[op.page], pos)
        /\ SizeOf(d) = SizeOf(data[op.page]) - 1
        /\ data' = [data EXCEPT ![op.page] = d]
        /\ root_page_id' = IF op.page = root_page_id /\ SizeOf(d) = 0 THEN -1 ELSE root_page_id
  BY RemoveEffect
<1>2. /\ op.page \in PageIds /\ data[op.page] \in Data /\ IsLeaf(data[op.page])
      /\ SizeOf(data[op.page]) \in 0 .. leaf_max_size
      /\ root_page_id \in PageIds /\ (RootIsLeaf => op.page = root_page_id)
  BY AtLeafFacts DEF Remove, AtLeaf
<1>3. root_page_id # -1
  BY <1>2, MaxPagesAssumption DEF PageIds
<1>4. inserts' \in Int /\ entries' \in Int /\ entries' <= inserts' /\ entries' # inserts'
  <2>1. inserts \in Int /\ entries \in Int /\ entries <= inserts
    BY DEF BaseInv, TypeOK, AscendingInv
  <2>2. inserts' = inserts /\ entries' = entries - 1
    BY DEF Remove
  <2> QED BY <2>1, <2>2
<1>5. CASE ~RootIsLeaf
  <2>1. op.page # root_page_id
    BY <1>2, <1>3, <1>5 DEF RootIsLeaf
  <2>2. data'[root_page_id] = data[root_page_id] /\ root_page_id' = root_page_id
    BY <1>1, <1>2, <2>1 DEF BaseInv, TypeOK
  <2> QED BY <1>3, <1>5, <1>4, <2>2, InnerRootStays
<1>6. CASE RootIsLeaf
  <2>1. PICK old \in Data : old = data[op.page]
    BY <1>2
  <2>2. op.page = root_page_id /\ data'[root_page_id] = d
    BY <1>1, <1>2, <1>6 DEF BaseInv, TypeOK
  <2>3. /\ SizeOf(old) \in 1 .. entries /\ entries \in Int /\ entries' = entries - 1
        /\ SizeOf(old) \in 1 .. leaf_max_size
    <3>1. SizeOf(old) \in 1 .. entries /\ entries \in Int
      BY <1>6, <2>1, <2>2 DEF AscendingInv, BaseInv, TypeOK
    <3>2. entries' = entries - 1
      BY DEF Remove
    <3> QED BY <1>2, <2>1, <3>1, <3>2, LeafSizeAssumption
  <2>4. ascending' = ascending /\ present' = present \ {op.key}
    BY DEF Remove
  <2>5. ASSUME ascending, SizeOf(old) = entries
        PROVE  Sorted(d) /\ present' = KeysOf(d)
    <3>1. Sorted(old) /\ present = KeysOf(old)
      BY <1>6, <2>1, <2>2, <2>5 DEF AscendingInv
    <3>2. Sorted(d) /\ KeysOf(d) = KeysOf(old) \ {op.key}
      BY <1>1, <1>2, <2>1, <2>3, <3>1, RemoveKeeps
    <3> QED BY <2>4, <3>1, <3>2
  <2>6. SizeOf(d) \in 0 .. entries' /\ (SizeOf(d) = entries' => SizeOf(old) = entries)
    BY <1>1, <2>1, <2>3
  <2>7. CASE SizeOf(d) = 0
    <3>1. root_page_id' = -1 /\ entries' >= 0
      <4>1. root_page_id' = -1
        BY <1>1, <2>2, <2>7
      <4>2. entries' >= 0
        BY <2>3
      <4> QED BY <4>1, <4>2
    <3>2. ASSUME ascending', entries' = 0 PROVE present' = {}
      <4>1. present' = KeysOf(d)
        BY <2>4, <2>5, <2>6, <2>7, <3>2
      <4>2. 0 .. (SizeOf(d) - 1) = {}
        BY <2>7
      <4> QED BY <4>1, <4>2 DEF KeysOf
    <3> QED BY <1>4, <3>1, <3>2 DEF AscendingInv, RootIsLeaf
  <2>8. CASE SizeOf(d) # 0
    <3>1. root_page_id' = root_page_id
      BY <1>1, <2>8
    <3>2. SizeOf(d) \in 1 .. entries'
      BY <2>3, <2>6, <2>8
    <3>3. ASSUME ascending', SizeOf(d) = entries' PROVE Sorted(d) /\ present' = KeysOf(d)
      BY <2>4, <2>5, <2>6, <3>3
    <3>4. root_page_id' # -1 /\ data'[root_page_id'] = d
      BY <1>3, <2>2, <3>1
    <3> QED BY <1>4, <3>2, <3>3, <3>4, RootLeafWritten
  <2> QED BY <2>7, <2>8
<1> QED BY <1>5, <1>6

\* A root leaf that splits is no root any more, or has lost entries for good.
LEMMA AscendingSplit ==
  ASSUME BaseInv, AscendingInv, InsertSplit
  PROVE  AscendingInv'
<1>1. PICK a, b \in Data :
        /\ next_page_id \in PageIds
        /\ SizeOf(data[op.page]) = leaf_max_size
        /\ SizeOf(a) \in 1 .. leaf_max_size
        /\ data'[op.page] = a
        /\ \/ /\ root_page_id' = next_page_id + 1
              /\ ~IsLeaf(data'[next_page_id + 1])
           \/ /\ root_page_id' = root_page_id
              /\ \A p \in PageIds \ {op.page, next_page_id} : data'[p] = data[p]
  BY InsertSplitEffect
<1>2. /\ op.page \in PageIds /\ IsLeaf(data[op.page])
      /\ root_page_id \in PageIds /\ (RootIsLeaf => op.page = root_page_id)
  BY AtLeafFacts DEF InsertSplit, AtLeaf
<1>3. root_page_id # -1 /\ next_page_id # -2
  BY <1>1, <1>2, MaxPagesAssumption DEF PageIds
<1>4. root_page_id # next_page_id
  BY <1>1, <1>2, MaxPagesAssumption DEF BaseInv, OpInv, PageIds
<1>5. inserts' \in Int /\ entries' <= inserts'
  BY InsertCounts DEF InsertSplit
<1>6. CASE root_page_id' = next_page_id + 1 /\ ~IsLeaf(data'[next_page_id + 1])
  <2>1. root_page_id' # -1 /\ ~RootIsLeaf'
    BY <1>1, <1>3, <1>6, MaxPagesAssumption DEF RootIsLeaf, PageIds
  <2> QED BY <1>5, <2>1 DEF AscendingInv
<1>7. CASE /\ root_page_id' = root_page_id
           /\ \A p \in PageIds \ {op.page, next_page_id} : data'[p] = data[p]
  <2>1. CASE ~RootIsLeaf
    <3>1. op.page # root_page_id
      BY <1>2, <1>3, <2>1 DEF RootIsLeaf
    <3>2. data'[root_page_id] = data[root_page_id]
      BY <1>2, <1>4, <1>7, <3>1
    <3> QED BY <1>3, <1>5, <1>7, <2>1, <3>2, InnerRootStays
  <2>2. CASE RootIsLeaf
    <3>1. op.page = root_page_id /\ data'[root_page_id'] = a
      BY <1>1, <1>2, <1>7, <2>2
    <3>2. leaf_max_size \in 1 .. entries /\ entries \in Int /\ entries' = entries + 1
      BY <1>1, <2>2, <3>1 DEF AscendingInv, BaseInv, TypeOK, InsertSplit, Counted
    <3>3. SizeOf(a) \in 1 .. entries' /\ SizeOf(a) # entries'
      BY <1>1, <3>2, LeafSizeAssumption
    <3> QED BY <1>3, <1>5, <1>7, <3>1, <3>3, RootLeafWritten
  <2> QED BY <2>1, <2>2
<1> QED BY <1>1, <1>6, <1>7

LEMMA AscendingStep == BaseInv /\ AscendingInv /\ [Next]_vars => AscendingInv'
<1> SUFFICES ASSUME BaseInv, AscendingInv, [Next]_vars PROVE AscendingInv'
  OBVIOUS
<1>1. ASSUME CallStep \/ CallOnEmpty \/ Fetch \/ Descend \/ ReturnStep \/ ScanNext \/ UNCHANGED vars
      PROVE  UNCHANGED <<data, root_page_id, entries, inserts, ascending, present, newest>>
  <2>1. CASE CallStep
    BY <2>1, CallStepBegins DEF Begins, treeVars, ghostVars
  <2>2. CASE CallOnEmpty \/ Fetch \/ Descend
    BY <2>2 DEF CallOnEmpty, Fetch, Descend, treeVars, ghostVars
  <2>3. CASE ReturnStep
    BY <2>3 DEF ReturnStep, FetchFails, GetValue, InsertWithoutPage, RemoveNothing,
                BeginEmptyLeaf, Begin, treeVars, ghostVars
  <2>4. CASE ScanNext \/ UNCHANGED vars
    BY <2>4 DEF ScanNext, vars, treeVars, ghostVars
  <2> QED BY <1>1, <2>1, <2>2, <2>3, <2>4
<1>2. CASE UNCHANGED <<data, root_page_id, entries, inserts, ascending, present, newest>>
  BY <1>2 DEF AscendingInv, RootIsLeaf
<1>3. CASE ChangeStep
  BY <1>3, AscendingFirst, AscendingRoom, AscendingRemove, AscendingSplit DEF ChangeStep
<1> QED BY <1>1, <1>2, <1>3, StepKinds

\* What GetValue finds for the largest key of a leaf in order.
LEMMA NewestIsFound ==
  ASSUME NEW d \in Data, SizeOf(d) \in 1 .. leaf_max_size, Sorted(d), NEW rid, NewestLast(d, rid),
         NEW i \in 0 .. (SizeOf(d) - 1), \A k \in KeysOf(d) : k <= d[KeyAt(i)]
  PROVE  RidAt(d, i) = IF SizeOf(d) = 1 THEN rid ELSE <<rid[2], 0>>
<1>1. SizeOf(d) \in Int /\ SizeOf(d) >= 1 /\ SizeOf(d) \in 0 .. leaf_max_size
  BY LeafSizeAssumption
<1>2. i = SizeOf(d) - 1
  <2>1. ASSUME i < SizeOf(d) - 1 PROVE FALSE
    <3>1. SizeOf(d) - 1 \in 0 .. (SizeOf(d) - 1)
      BY <1>1
    <3>2. d[KeyAt(i)] < d[KeyAt(SizeOf(d) - 1)]
      BY <2>1, <3>1 DEF Sorted
    <3>3. d[KeyAt(SizeOf(d) - 1)] <= d[KeyAt(i)]
      BY <3>1 DEF KeysOf
    <3>4. d[KeyAt(i)] \in Int /\ d[KeyAt(SizeOf(d) - 1)] \in Int
      BY <1>1, <3>1, KeyWords
    <3> QED BY <3>2, <3>3, <3>4
  <2> QED BY <1>1, <2>1
<1>3. d[1] = SizeOf(d)
  BY DEF SizeOf
<1>4. RidPageAt(d[1], i) = 3 * SizeOf(d) /\ RidSlotAt(d[1], i) = 3 * SizeOf(d) + 1
  BY <1>1, <1>2, <1>3 DEF RidPageAt, RidSlotAt
<1>5. RidAt(d, i) = <<d[3 * SizeOf(d)], d[3 * SizeOf(d) + 1]>>
  BY <1>4 DEF RidAt
<1>6. CASE SizeOf(d) = 1
  <2>1. 3 * SizeOf(d) = 3 /\ 3 * SizeOf(d) + 1 = 4
    BY <1>6
  <2> QED BY <1>5, <1>6, <2>1 DEF NewestLast
<1>7. CASE SizeOf(d) # 1
  <2>1. /\ SizeOf(d) > 1 /\ 3 * SizeOf(d) + 1 \in Words
        /\ 3 * SizeOf(d) + 1 > 5 /\ 3 * SizeOf(d) + 1 > 3 * SizeOf(d)
    BY <1>1, <1>7, LeafSizeAssumption, WordsAssumption DEF Words
  <2>2. d[3 * SizeOf(d)] = rid[2] /\ d[3 * SizeOf(d) + 1] = 0
    BY <2>1 DEF NewestLast
  <2> QED BY <1>5, <1>7, <2>2
<1> QED BY <1>6, <1>7

\* For any pages, leaf size, RIDs and callers: while keys are inserted in ascending
\* order and one leaf has them all, GetValue finds one entry for each key that was
\* inserted and not removed and none for another key (BPlusTree.cpp:99-143,
\* 246-263, 379-384); the RID inserted last is found as it was given only by a tree
\* that got one insert, and as (slot_num, 0) by every other (:122-123 against :260-261).
THEOREM LookupFindsEntries == Spec => AscendingLookup
<1>1. Init => BaseInv /\ AscendingInv
  BY BaseInit, AscendingInit
<1>2. BaseInv /\ AscendingInv /\ [Next]_vars => BaseInv' /\ AscendingInv'
  BY BaseStep, AscendingStep
<1>3. ASSUME BaseInv, AscendingInv, GetValue, ascending, op.page = root_page_id,
             SizeOf(data[op.page]) = entries
      PROVE  /\ result'.ok = (op.key \in present)
             /\ op.key \in present => Cardinality(DOMAIN result'.rids) = 1
             /\ op.key \in present /\ inserts = entries /\ (\A k \in present : k <= op.key) =>
                   Range(result'.rids) = {IF inserts = 1 THEN newest ELSE <<newest[2], 0>>}
  <2>1. /\ data[op.page] \in Data /\ op.key \in Int /\ IsLeaf(data[op.page])
        /\ SizeOf(data[op.page]) \in 0 .. leaf_max_size /\ root_page_id \in PageIds
    BY <1>3, AtLeafFacts DEF GetValue, AtLeaf
  <2>2. PICK d \in Data, key \in Int : d = data[op.page] /\ key = op.key
    BY <2>1
  <2>3. RootIsLeaf
    BY <1>3, <2>1, MaxPagesAssumption DEF RootIsLeaf, PageIds
  <2>4. /\ Sorted(d) /\ present = KeysOf(d) /\ SizeOf(d) = entries
        /\ SizeOf(d) \in 1 .. entries /\ (inserts = entries => NewestLast(d, newest))
    BY <1>3, <2>2, <2>3 DEF AscendingInv
  <2>5. SizeOf(d) \in 0 .. leaf_max_size
    BY <2>1, <2>2
  <2>6. SizeOf(d) \in 1 .. leaf_max_size
    BY <2>4, <2>5, LeafSizeAssumption
  <2>7. PICK found : found = Matches(d, key)
    OBVIOUS
  <2>8. /\ key \notin present => found = {}
        /\ key \in present => \E i \in 0 .. (SizeOf(d) - 1) : d[KeyAt(i)] = key /\ found = {i}
    BY <2>4, <2>5, <2>7, MatchesExact
  <2>9. result' = Answer(found # {}, [i \in found |-> RidAt(d, i)])
    BY <1>3, <2>2, <2>7 DEF GetValue, Return
  <2>10. result'.ok = (found # {}) /\ result'.rids = [i \in found |-> RidAt(d, i)]
    BY <2>9 DEF Answer
  <2>11. CASE key \notin present
    BY <2>2, <2>8, <2>10, <2>11
  <2>12. CASE key \in present
    <3>1. PICK i \in 0 .. (SizeOf(d) - 1) : d[KeyAt(i)] = key /\ found = {i}
      BY <2>8, <2>12
    <3>2. result'.ok = (op.key \in present)
      BY <2>2, <2>10, <2>12, <3>1
    <3>3. PICK rids : rids = result'.rids /\ rids = [j \in {i} |-> RidAt(d, j)]
      BY <2>10, <3>1
    <3>4. Cardinality(DOMAIN rids) = 1
      BY <3>3, FS_Singleton
    <3>5. ASSUME inserts = entries, \A k \in present : k <= op.key
          PROVE  Range(rids) = {IF inserts = 1 THEN newest ELSE <<newest[2], 0>>}
      <4>1. RidAt(d, i) = IF SizeOf(d) = 1 THEN newest ELSE <<newest[2], 0>>
        BY <2>2, <2>4, <2>6, <3>1, <3>5, NewestIsFound
      <4>2. Range(rids) = {RidAt(d, i)}
        BY <3>3 DEF Range
      <4> QED BY <2>4, <3>5, <4>1, <4>2
    <3> QED BY <3>2, <3>3, <3>4, <3>5
  <2> QED BY <2>11, <2>12
<1>4. BaseInv /\ AscendingInv =>
        [GetValue /\ ascending /\ op.page = root_page_id /\ SizeOf(data[op.page]) = entries =>
           /\ result'.ok = (op.key \in present)
           /\ op.key \in present => Cardinality(DOMAIN result'.rids) = 1
           /\ op.key \in present /\ inserts = entries /\ (\A k \in present : k <= op.key) =>
                 Range(result'.rids) = {IF inserts = 1 THEN newest ELSE <<newest[2], 0>>}]_vars
  BY <1>3
<1> QED BY <1>1, <1>2, <1>4, PTL DEF Spec, AscendingLookup
=============================================================================
