----------------------------- MODULE Paper_proofs -----------------------------
(***************************************************************************)
(* The paper broker (PaperBroker.tla, PaperLedger.tla) for any accounts,   *)
(* requests, quotes and any number of orders, and the totals of sequences  *)
(* (Sums.tla) that the ledgers are stated with.                            *)
(*                                                                         *)
(* What is shown is shown of the broker's methods, with any well-typed     *)
(* request and quote, so that it holds of the broker alone and of the      *)
(* agent's calls (Agent_proofs.tla).  A key creates one order because it   *)
(* is kept with it; a walk leaves no crossing limit because it settles the *)
(* order it is at and no other order changes; the trade log agrees with    *)
(* the orders and with the positions because a fill is the only step that  *)
(* touches any of the three.                                               *)
(***************************************************************************)
EXTENDS PaperLedger, SequenceTheorems, FiniteSetTheorems, NaturalsInduction, WellFoundedInduction, TLAPS

-----------------------------------------------------------------------------
(* Folds over finite sets *)

\* A set of naturals has a least element.
LEMMA LeastNatural ==
  ASSUME NEW Bad, Bad \subseteq Nat, Bad # {}
  PROVE  \E n \in Bad : \A l \in Bad : n <= l
<1>1. PICK n \in Bad : \A l \in Bad : <<l, n>> \notin OpToRel(<, Nat)
  BY NatLessThanWellFounded, WFMin
<1>2. \A l \in Bad : ~(l < n)
  BY <1>1 DEF OpToRel
<1>3. \A l \in Bad : n <= l
  <2> SUFFICES ASSUME NEW l \in Bad
               PROVE  n <= l
    OBVIOUS
  <2>1. l \in Nat /\ n \in Nat
    OBVIOUS
  <2> QED
    BY <1>2, <2>1
<1> QED
  BY <1>3

\* Good holds the empty set and, with a set less the element picked from it, the set.
Grows(D, pick, Good) ==
  /\ {} \in Good
  /\ \A S \in SUBSET D : S # {} => pick[S] \in S /\ (S \ {pick[S]} \in Good => S \in Good)

\* What grows to the subsets of a finite set holds them all.
LEMMA SubsetsAll ==
  ASSUME NEW D, IsFiniteSet(D), NEW Good, NEW pick, Grows(D, pick, Good)
  PROVE  SUBSET D \subseteq Good
<1> DEFINE Bad == {n \in Nat : \E S \in SUBSET D : Cardinality(S) = n /\ S \notin Good}
<1>1. ASSUME NEW m \in Bad
      PROVE  FALSE
  <2>1. Bad \subseteq Nat
    OBVIOUS
  <2> HIDE DEF Bad
  <2>2. PICK n \in Bad : \A l \in Bad : n <= l
    BY <1>1, <2>1, LeastNatural
  <2> USE DEF Bad
  <2>3. PICK S \in SUBSET D : Cardinality(S) = n /\ S \notin Good
    OBVIOUS
  <2>4. PICK x \in S : S \ {x} \in Good => S \in Good
    BY <2>3 DEF Grows
  <2>5. IsFiniteSet(S) /\ IsFiniteSet(S \ {x}) /\ Cardinality(S \ {x}) = n - 1
    BY <2>3, FS_Subset, FS_RemoveElement
  <2>6. n - 1 \in Nat
    BY <2>5, FS_CardinalityType
  <2>7. n - 1 \in Bad
    BY <2>3, <2>4, <2>5, <2>6
  <2>8. n - 1 < n
    BY <2>6
  <2> QED
    BY <2>2, <2>7, <2>8
<1> QED
  BY <1>1, FS_Subset, FS_CardinalityType

\* f holds the values of a fold on the subsets of D with at most n elements.
Folded(D, base, pick, step, n, f) ==
  \A S \in SUBSET D : Cardinality(S) <= n =>
    f[S] = IF S = {} THEN base ELSE step[<<f[S \ {pick[S]}], pick[S]>>]

\* pick takes an element of every set that has one.
Picks(D, pick) == \A S \in SUBSET D : S # {} => pick[S] \in S

\* f holds the values of a fold on all the subsets of D.
IsFold(D, base, pick, step, f) ==
  \A S \in SUBSET D : f[S] = IF S = {} THEN base ELSE step[<<f[S \ {pick[S]}], pick[S]>>]

\* A fold over a finite set exists, whatever order the elements are picked in.
LEMMA FoldsExist ==
  ASSUME NEW D, IsFiniteSet(D), NEW A, NEW base \in A, NEW pick, NEW step \in [A \X D -> A],
         Picks(D, pick)
  PROVE  \E f \in [SUBSET D -> A] : IsFold(D, base, pick, step, f)
<1> DEFINE Bad == {n \in Nat : ~\E f \in [SUBSET D -> A] : Folded(D, base, pick, step, n, f)}
<1>1. /\ Cardinality(D) \in Nat
      /\ \A S \in SUBSET D : Cardinality(S) \in Nat /\ Cardinality(S) <= Cardinality(D)
      /\ \A S \in SUBSET D : Cardinality(S) = 0 => S = {}
      /\ \A S \in SUBSET D : \A x \in S : Cardinality(S \ {x}) = Cardinality(S) - 1
  BY FS_CardinalityType, FS_Subset, FS_EmptySet, FS_RemoveElement
<1>2. ASSUME NEW m \in Bad
      PROVE  FALSE
  <2>1. Bad \subseteq Nat
    OBVIOUS
  <2> HIDE DEF Bad
  <2>2. PICK n \in Bad : \A l \in Bad : n <= l
    BY <1>2, <2>1, LeastNatural
  <2> USE DEF Bad
  <2>3. CASE n = 0
    <3>1. [S \in SUBSET D |-> base] \in [SUBSET D -> A]
      OBVIOUS
    <3>2. Folded(D, base, pick, step, n, [S \in SUBSET D |-> base])
      BY <1>1, <2>3 DEF Folded
    <3> QED
      BY <3>1, <3>2
  <2>4. CASE n # 0
    <3>1. PICK k \in Nat : n = k + 1
      BY <2>4
    <3>2. PICK f \in [SUBSET D -> A] : Folded(D, base, pick, step, k, f)
      <4>1. ~(n <= k)
        BY <3>1
      <4>2. k \notin Bad
        BY <2>2, <4>1
      <4> QED
        BY <4>2
    <3> DEFINE g == [S \in SUBSET D |-> IF S = {} THEN base ELSE step[<<f[S \ {pick[S]}], pick[S]>>]]
    <3>3. g \in [SUBSET D -> A]
      <4> SUFFICES ASSUME NEW S \in SUBSET D, S # {}
                   PROVE  step[<<f[S \ {pick[S]}], pick[S]>>] \in A
        OBVIOUS
      <4>1. f[S \ {pick[S]}] \in A /\ pick[S] \in D
        BY DEF Picks
      <4> QED
        BY <4>1
    <3>4. \A S \in SUBSET D : Cardinality(S) <= k => g[S] = f[S]
      BY <3>2 DEF Folded
    <3>5. ASSUME NEW S \in SUBSET D, Cardinality(S) <= n, S # {}
          PROVE  g[S] = step[<<g[S \ {pick[S]}], pick[S]>>]
      <4>1. /\ S \ {pick[S]} \in SUBSET D /\ Cardinality(S \ {pick[S]}) = Cardinality(S) - 1
            /\ Cardinality(S) \in Nat
        BY <1>1, <3>5 DEF Picks
      <4>2. Cardinality(S \ {pick[S]}) <= k
        BY <3>1, <3>5, <4>1
      <4>3. g[S \ {pick[S]}] = f[S \ {pick[S]}]
        BY <3>4, <4>1, <4>2
      <4> QED
        BY <3>5, <4>3
    <3>6. g[{}] = base
      OBVIOUS
    <3> HIDE DEF g
    <3>7. Folded(D, base, pick, step, n, g)
      BY <3>5, <3>6 DEF Folded
    <3> QED
      BY <3>3, <3>7
  <2> QED
    BY <2>3, <2>4
<1>3. PICK f \in [SUBSET D -> A] : Folded(D, base, pick, step, Cardinality(D), f)
  BY <1>1, <1>2
<1> QED
  BY <1>1, <1>3 DEF Folded, IsFold

-----------------------------------------------------------------------------
(* Totals *)

\* f holds the running sums of the first n elements of s.
Running(s, n, f) == f[0] = 0 /\ \A k \in 1..n : f[k] = f[k - 1] + s[k]

\* There are running sums.
LEMMA SumsExist ==
  ASSUME NEW s \in Seq(Int), NEW m \in 0..Len(s)
  PROVE  \E f \in [0..m -> Int] : Running(s, m, f)
<1> DEFINE Bad == {n \in Nat : n <= Len(s) /\ ~\E f \in [0..n -> Int] : Running(s, n, f)}
<1>1. PICK len \in Nat : len = Len(s)
  BY LenProperties
<1>2. SUFFICES ASSUME m \in Bad
               PROVE  FALSE
  BY <1>1
<1>3. PICK n \in Bad : \A k \in Bad : ~(k < n)
  <2>1. PICK n \in Bad : \A k \in Bad : <<k, n>> \notin OpToRel(<, Nat)
    BY <1>2, NatLessThanWellFounded, WFMin
  <2> QED
    BY <2>1 DEF OpToRel
<1>4. n # 0
  <2>1. [k \in 0..0 |-> 0] \in [0..0 -> Int] /\ Running(s, 0, [k \in 0..0 |-> 0])
    BY DEF Running
  <2> QED
    BY <2>1, <1>3
<1>5. n - 1 \in Nat /\ n - 1 <= Len(s) /\ n - 1 \notin Bad
  <2>1. n \in Nat \ {0} /\ n <= len
    BY <1>1, <1>3, <1>4
  <2>2. n - 1 \in Nat /\ n - 1 <= len /\ n - 1 < n
    BY <2>1
  <2> QED
    BY <1>1, <1>3, <2>2
<1>6. PICK f \in [0..(n - 1) -> Int] : Running(s, n - 1, f)
  BY <1>5
<1> DEFINE g == [k \in 0..n |-> IF k = n THEN f[n - 1] + s[n] ELSE f[k]]
<1>7. s[n] \in Int
  BY <1>1, <1>3, <1>4
<1>8. g \in [0..n -> Int]
  BY <1>3, <1>4, <1>6, <1>7
<1>9. Running(s, n, g)
  BY <1>3, <1>4, <1>6, <1>7 DEF Running
<1> QED
  BY <1>3, <1>8, <1>9

\* Running sums are integers, and each adds one element.
LEMMA SumsDef ==
  ASSUME NEW s \in Seq(Int)
  PROVE  /\ Sums(s) \in [0..Len(s) -> Int] /\ Sums(s)[0] = 0
         /\ \A k \in 1..Len(s) : Sums(s)[k] = Sums(s)[k - 1] + s[k]
<1>1. PICK len \in Nat : len = Len(s)
  BY LenProperties
<1>2. PICK f \in [0..len -> Int] : Running(s, len, f)
  BY <1>1, SumsExist
<1>3. f = [k \in 0..Len(s) |-> IF k = 0 THEN 0 ELSE f[k - 1] + s[k]]
  BY <1>1, <1>2 DEF Running
<1> DEFINE g == Sums(s)
           Bad == {n \in Nat : n <= Len(s) /\ g[n] \notin Int}
<1>4. g = [k \in 0..len |-> IF k = 0 THEN 0 ELSE g[k - 1] + s[k]]
  BY <1>1, <1>3 DEF Sums
<1> HIDE DEF g
<1>5. /\ g[0] = 0 /\ \A k \in 1..len : g[k] = g[k - 1] + s[k]
      /\ g = [k \in 0..len |-> g[k]]
  <2> DEFINE e(k) == IF k = 0 THEN 0 ELSE g[k - 1] + s[k]
  <2>1. g = [k \in 0..len |-> e(k)]
    BY <1>4
  <2>2. e(0) = 0 /\ \A k \in 1..len : e(k) = g[k - 1] + s[k]
    OBVIOUS
  <2> HIDE DEF e
  <2>3. /\ \A k \in 0..len : g[k] = e(k)
        /\ 0 \in 0..len /\ \A k \in 1..len : k \in 0..len
    BY <2>1
  <2> QED
    BY <2>1, <2>2, <2>3
<1>6. Bad = {}
  <2>1. SUFFICES ASSUME NEW m \in Bad
                 PROVE  FALSE
    OBVIOUS
  <2>2. PICK n \in Bad : \A k \in Bad : ~(k < n)
    <3>1. PICK n \in Bad : \A k \in Bad : <<k, n>> \notin OpToRel(<, Nat)
      BY <2>1, NatLessThanWellFounded, WFMin
    <3> QED
      BY <3>1 DEF OpToRel
  <2>3. n \in Nat /\ n <= len /\ g[n] \notin Int /\ n # 0
    BY <1>1, <1>5, <2>2
  <2>4. n \in 1..len /\ n - 1 \in Nat /\ n - 1 <= len /\ n - 1 < n
    BY <2>3
  <2>5. g[n - 1] \in Int
    BY <1>1, <2>2, <2>4
  <2>6. s[n] \in Int
    BY <1>1, <2>4
  <2>7. g[n] = g[n - 1] + s[n]
    BY <1>5, <2>4
  <2> QED
    BY <2>3, <2>5, <2>6, <2>7
<1>7. \A k \in 0..len : g[k] \in Int
  BY <1>1, <1>6
<1>8. g \in [0..len -> Int]
  BY <1>5, <1>7
<1> QED
  BY <1>1, <1>5, <1>8 DEF g

\* f and g are a distance d apart at lo, and add the same from there to hi.
Abreast(f, g, lo, hi, d) ==
  /\ \A k \in lo..hi : f[k] \in Int /\ g[k] \in Int
  /\ f[lo] = g[lo] + d
  /\ \A k \in lo..hi : k # lo => f[k] - f[k - 1] = g[k] - g[k - 1]

\* They keep their distance.
LEMMA SameSums ==
  ASSUME NEW lo \in Nat, NEW hi \in Nat, NEW d \in Int, NEW f, NEW g, Abreast(f, g, lo, hi, d)
  PROVE  \A k \in lo..hi : f[k] = g[k] + d
<1> DEFINE Bad == {n \in Nat : n \in lo..hi /\ f[n] # g[n] + d}
<1>1. SUFFICES ASSUME NEW m \in Bad
               PROVE  FALSE
  OBVIOUS
<1>2. PICK n \in Bad : \A k \in Bad : ~(k < n)
  <2>1. PICK n \in Bad : \A k \in Bad : <<k, n>> \notin OpToRel(<, Nat)
    BY <1>1, NatLessThanWellFounded, WFMin
  <2> QED
    BY <2>1 DEF OpToRel
<1>3. n \in Nat /\ n \in lo..hi /\ f[n] # g[n] + d /\ n # lo
  BY <1>2 DEF Abreast
<1>4. n \in lo..hi /\ n - 1 \in lo..hi /\ n - 1 \in Nat /\ n - 1 < n
  BY <1>3
<1>5. f[n - 1] = g[n - 1] + d
  BY <1>2, <1>4
<1>6. f[n] - f[n - 1] = g[n] - g[n - 1]
  BY <1>3 DEF Abreast
<1>7. PICK a \in Int, b \in Int, x \in Int, y \in Int :
        a = f[n] /\ b = f[n - 1] /\ x = g[n] /\ y = g[n - 1]
  BY <1>3, <1>4 DEF Abreast
<1> QED
  BY <1>3, <1>5, <1>6, <1>7

\* Nothing adds up to zero.
LEMMA TotalEmpty == Total(<<>>) = 0
<1>1. <<>> \in Seq(Int) /\ Len(<<>>) = 0
  BY EmptySeq
<1> QED
  BY <1>1, SumsDef DEF Total

\* A total is an integer.
LEMMA TotalInt ==
  ASSUME NEW s \in Seq(Int)
  PROVE  Total(s) \in Int
<1>1. PICK n \in Nat : n = Len(s)
  BY LenProperties
<1> QED
  BY <1>1, SumsDef DEF Total

\* One element more adds that element.
LEMMA TotalAppend ==
  ASSUME NEW s \in Seq(Int), NEW t \in Seq(Int), Len(t) = Len(s) + 1,
         \A k \in 1..Len(s) : t[k] = s[k]
  PROVE  Total(t) = Total(s) + t[Len(s) + 1]
<1>1. PICK n \in Nat : n = Len(s)
  BY LenProperties
<1> DEFINE f == Sums(t)
           g == Sums(s)
<1>2. /\ f \in [0..n + 1 -> Int] /\ f[0] = 0 /\ \A k \in 1..n + 1 : f[k] = f[k - 1] + t[k]
      /\ g \in [0..n -> Int] /\ g[0] = 0 /\ \A k \in 1..n : g[k] = g[k - 1] + s[k]
      /\ Total(t) = f[n + 1] /\ Total(s) = g[n]
  BY <1>1, SumsDef DEF Total
<1>3. t[n + 1] \in Int /\ \A k \in 1..n : s[k] \in Int /\ t[k] = s[k]
  BY <1>1
<1> HIDE DEF f, g
<1>4. \A k \in 0..n : f[k] \in Int /\ g[k] \in Int
  BY <1>2
<1>5. ASSUME NEW k \in 1..n
      PROVE  f[k] - f[k - 1] = g[k] - g[k - 1]
  <2>1. k - 1 \in 0..n /\ k \in 1..n + 1
    OBVIOUS
  <2>2. f[k - 1] \in Int /\ g[k - 1] \in Int /\ s[k] \in Int
    BY <1>3, <1>4, <2>1
  <2>3. f[k] = f[k - 1] + s[k] /\ g[k] = g[k - 1] + s[k]
    BY <1>2, <1>3, <2>1
  <2> QED
    BY <2>2, <2>3
<1>6. Abreast(f, g, 0, n, 0)
  BY <1>2, <1>4, <1>5 DEF Abreast
<1>7. \A k \in 0..n : f[k] = g[k] + 0
  BY <1>6, SameSums
<1>8. f[n] = g[n] /\ f[n + 1] = f[n] + t[n + 1]
  <2>1. n \in 0..n /\ n + 1 \in 1..n + 1 /\ (n + 1) - 1 = n
    OBVIOUS
  <2>2. f[n] = g[n] + 0 /\ g[n] \in Int
    BY <1>4, <1>7, <2>1
  <2>3. f[n + 1] = f[(n + 1) - 1] + t[n + 1]
    BY <1>2, <2>1
  <2> QED
    BY <2>1, <2>2, <2>3
<1> QED
  BY <1>1, <1>2, <1>8

\* The total after one element changed.
LEMMA TotalExcept ==
  ASSUME NEW s \in Seq(Int), NEW i \in 1..Len(s), NEW x \in Int
  PROVE  Total([s EXCEPT ![i] = x]) = Total(s) + (x - s[i])
<1>1. PICK n \in Nat : n = Len(s)
  BY LenProperties
<1> DEFINE t == [s EXCEPT ![i] = x]
           f == Sums(t)
           g == Sums(s)
<1>2. /\ t \in Seq(Int) /\ Len(t) = n /\ t[i] = x
      /\ \A k \in 1..n : k # i => t[k] = s[k]
  BY <1>1, ExceptSeq
<1> HIDE DEF t
<1>3. /\ f \in [0..n -> Int] /\ f[0] = 0 /\ \A k \in 1..n : f[k] = f[k - 1] + t[k]
      /\ g \in [0..n -> Int] /\ g[0] = 0 /\ \A k \in 1..n : g[k] = g[k - 1] + s[k]
      /\ Total(t) = f[n] /\ Total(s) = g[n]
  BY <1>1, <1>2, SumsDef DEF Total
<1>4. \A k \in 1..n : s[k] \in Int
  BY <1>1
<1> HIDE DEF f, g
<1>5. \A k \in 0..n : f[k] \in Int /\ g[k] \in Int
  BY <1>3
<1>6. ASSUME NEW k \in 1..n, k # i
      PROVE  f[k] - f[k - 1] = g[k] - g[k - 1]
  <2>1. k - 1 \in 0..n
    OBVIOUS
  <2>2. f[k - 1] \in Int /\ g[k - 1] \in Int /\ s[k] \in Int
    BY <1>4, <1>5, <2>1
  <2>3. f[k] = f[k - 1] + s[k] /\ g[k] = g[k - 1] + s[k]
    BY <1>2, <1>3, <1>6
  <2> QED
    BY <2>2, <2>3
<1>7. PICK j \in Nat : j = i - 1 /\ i \in 1..n /\ j \in 0..n
  BY <1>1
<1>8. \A k \in 0..j : f[k] = g[k] + 0
  <2>1. \A k \in 0..j : k # 0 => k \in 1..n /\ k # i
    BY <1>7
  <2>2. \A k \in 0..j : f[k] \in Int /\ g[k] \in Int
    BY <1>5, <1>7
  <2>3. f[0] = g[0] + 0
    BY <1>3
  <2>4. Abreast(f, g, 0, j, 0)
    BY <1>6, <2>1, <2>2, <2>3 DEF Abreast
  <2> QED
    BY <1>7, <2>4, SameSums
<1>9. f[j] = g[j]
  BY <1>5, <1>7, <1>8
<1>10. PICK d \in Int : d = x - s[i]
  BY <1>4, <1>7
<1>11. f[i] = g[i] + d
  <2>1. f[i] = f[j] + x /\ g[i] = g[j] + s[i]
    BY <1>2, <1>3, <1>7
  <2>2. g[j] \in Int /\ s[i] \in Int
    BY <1>4, <1>5, <1>7
  <2> QED
    BY <1>9, <1>10, <2>1, <2>2
<1>12. \A k \in i..n : f[k] = g[k] + d
  <2>1. \A k \in i..n : k \in 1..n
    BY <1>7
  <2>2. \A k \in i..n : f[k] \in Int /\ g[k] \in Int
    BY <1>5, <1>7
  <2>3. Abreast(f, g, i, n, d)
    BY <1>6, <1>11, <2>1, <2>2 DEF Abreast
  <2>4. i \in Nat
    BY <1>7
  <2> QED
    BY <2>3, <2>4, SameSums
<1>13. f[n] = g[n] + d
  BY <1>7, <1>12
<1> QED
  BY <1>3, <1>10, <1>13 DEF t

-----------------------------------------------------------------------------
(* The accounts *)

OrderRequest == [symbol : Symbol, side : Side, type : Type, qty : Int, price : Int,
                 cid : ClientId \cup {NoId}]
View == [symbol : Symbol, last : Nat, bid : Nat, ask : Nat]

\* What rests or fills is a well-formed order.
Proper(o) == o.side \in {"buy", "sell"} /\ o.qty > 0

\* A product of naturals is one: money, quantities and rates multiply.
LEMMA Products ==
  ASSUME NEW x \in Nat, NEW y \in Nat
  PROVE  x * y \in Nat
OBVIOUS

\* The operations on average prices stay among the fractions.
LEMMA Fractions ==
  /\ \A x, y \in Fraction : Add(x, y) \in Fraction
  /\ \A x \in Fraction, n \in Int : Times(n, x) \in Fraction
  /\ \A x \in Fraction, n \in Nat \ {0} : Over(x, n) \in Fraction
  /\ \A n \in Int : <<n, 1>> \in Fraction
<1>1. \A a, b \in Nat \ {0} : a * b \in Nat \ {0}
  OBVIOUS
<1>2. \A x \in Fraction : x[1] \in Int /\ x[2] \in Nat \ {0}
  BY DEF Fraction
<1>3. \A a \in Int, b \in Nat \ {0} : <<a, b>> \in Fraction
  BY DEF Fraction
<1>4. ASSUME NEW x \in Fraction, NEW y \in Fraction
      PROVE  Add(x, y) \in Fraction
  <2>1. PICK a \in Int, b \in Nat \ {0} : a = x[1] /\ b = x[2]
    BY <1>2
  <2>2. PICK c \in Int, d \in Nat \ {0} : c = y[1] /\ d = y[2]
    BY <1>2
  <2>3. a * d + c * b \in Int /\ b * d \in Nat \ {0}
    BY <1>1
  <2> QED
    BY <1>3, <2>1, <2>2, <2>3 DEF Add
<1>5. ASSUME NEW x \in Fraction, NEW n \in Int
      PROVE  Times(n, x) \in Fraction
  <2>1. PICK a \in Int, b \in Nat \ {0} : a = x[1] /\ b = x[2]
    BY <1>2
  <2>2. n * a \in Int
    OBVIOUS
  <2> QED
    BY <1>3, <2>1, <2>2 DEF Times
<1>6. ASSUME NEW x \in Fraction, NEW n \in Nat \ {0}
      PROVE  Over(x, n) \in Fraction
  <2>1. PICK a \in Int, b \in Nat \ {0} : a = x[1] /\ b = x[2]
    BY <1>2
  <2>2. b * n \in Nat \ {0}
    BY <1>1
  <2> QED
    BY <1>3, <2>1, <2>2 DEF Over
<1>7. \A n \in Int : <<n, 1>> \in Fraction
  BY <1>3
<1> QED
  BY <1>4, <1>5, <1>6, <1>7

\* executeLocked keeps an account well typed and moves one position by the order's quantity.
LEMMA Filling ==
  ASSUME NEW acc \in AccountState, NEW o \in Order, Proper(o), NEW price \in Nat \ {0},
         ~Refuses(acc, o, price)
  PROVE  /\ Filled(acc, o, price) \in AccountState
         /\ \A s \in Symbol : s # o.symbol =>
              Filled(acc, o, price).positions[s] = acc.positions[s]
         /\ Filled(acc, o, price).positions[o.symbol].qty =
              IF o.side = "buy" THEN acc.positions[o.symbol].qty + o.qty
              ELSE acc.positions[o.symbol].qty - o.qty
<1>1. /\ acc.cash \in Int /\ acc.fees \in Nat /\ acc.realized \in Fraction
      /\ acc.positions \in [Symbol -> Position] /\ acc.posOrder \in Seq(Symbol)
  BY DEF AccountState
<1>2. PICK s \in Symbol : s = o.symbol
  BY DEF Order
<1>3. PICK n \in Nat \ {0} : n = o.qty
  BY DEF Order, Proper
<1>4. PICK pos \in Position : pos = acc.positions[s]
  BY <1>1
<1>5. PICK held \in Nat, avg \in Fraction : held = pos.qty /\ avg = pos.avg
  BY DEF Position
<1>6. /\ Fee(o, price) \in Nat /\ Turnover(o, price) \in Nat /\ price * n \in Nat
  <2>1. price * n \in Nat
    OBVIOUS
  <2>2. PICK m \in Nat : m = price * n
    BY <2>1
  <2>3. m * FeeBps \in Nat /\ m * Unit \in Nat
    BY FeeAssumption, Products DEF Unit
  <2> QED
    BY <1>3, <2>2, <2>3 DEF Fee, Turnover
<1>7. CASE o.side = "buy"
  <2> DEFINE lot == [qty |-> held + n, avg |-> AvgPrice(pos, o, price)]
  <2>1. AvgPrice(pos, o, price) \in Fraction
    <3>1. Times(held, avg) \in Fraction /\ <<price * n, 1>> \in Fraction
      BY <1>6, Fractions
    <3>2. Add(Times(held, avg), <<price * n, 1>>) \in Fraction
      BY <3>1, Fractions
    <3>3. held + n \in Nat \ {0}
      OBVIOUS
    <3>4. Over(Add(Times(held, avg), <<price * n, 1>>), held + n) \in Fraction
      BY <3>2, <3>3, Fractions
    <3> QED
      BY <1>3, <1>5, <3>4 DEF AvgPrice
  <2>2. lot \in Position
    BY <2>1 DEF Position
  <2>3. PosOrder(acc, s) \in Seq(Symbol)
    BY <1>1, AppendProperties DEF PosOrder
  <2>4. PICK c \in Int, f \in Nat : c = acc.cash - (Turnover(o, price) + Fee(o, price))
                                    /\ f = acc.fees + Fee(o, price)
    BY <1>1, <1>6
  <2>5. [acc.positions EXCEPT ![s] = lot] \in [Symbol -> Position]
    BY <1>1, <2>2
  <2>6. Filled(acc, o, price) = [acc EXCEPT !.cash = c, !.fees = f,
                                            !.positions = [acc.positions EXCEPT ![s] = lot],
                                            !.posOrder = PosOrder(acc, s)]
    BY <1>2, <1>3, <1>4, <1>5, <1>7, <2>4 DEF Filled, Bought
  <2> HIDE DEF lot
  <2>7. /\ Filled(acc, o, price) \in AccountState
        /\ Filled(acc, o, price).positions = [acc.positions EXCEPT ![s] = lot]
    BY <2>3, <2>4, <2>5, <2>6 DEF AccountState
  <2>8. lot.qty = held + n
    BY DEF lot
  <2> QED
    BY <1>1, <1>2, <1>3, <1>4, <1>5, <1>7, <2>7, <2>8
<1>8. CASE o.side = "sell"
  <2> DEFINE rest == IF held - n = 0 THEN NoPosition ELSE [qty |-> held - n, avg |-> avg]
             pnl == Times(n, Add(<<price, 1>>, Times(-1, avg)))
  <2>1. held - n \in Nat
    BY <1>2, <1>3, <1>4, <1>5, <1>8 DEF Refuses
  <2>2. pnl \in Fraction
    <3>1. <<price, 1>> \in Fraction /\ Times(-1, avg) \in Fraction
      BY Fractions
    <3>2. Add(<<price, 1>>, Times(-1, avg)) \in Fraction
      BY <3>1, Fractions
    <3> QED
      BY <3>2, Fractions
  <2>3. rest \in Position /\ rest.qty = held - n
    <3>1. <<0, 1>> \in Fraction
      BY Fractions
    <3> QED
      BY <2>1, <3>1 DEF Position, NoPosition
  <2> HIDE DEF pnl
  <2>4. PICK c \in Int, f \in Nat, p \in Fraction :
          /\ c = acc.cash + (Turnover(o, price) - Fee(o, price)) /\ f = acc.fees + Fee(o, price)
          /\ p = Add(acc.realized, pnl)
    <3>1. acc.cash + (Turnover(o, price) - Fee(o, price)) \in Int /\ acc.fees + Fee(o, price) \in Nat
      BY <1>1, <1>6
    <3>2. Add(acc.realized, pnl) \in Fraction
      BY <1>1, <2>2, Fractions
    <3> QED
      BY <3>1, <3>2
  <2>5. [acc.positions EXCEPT ![s] = rest] \in [Symbol -> Position]
    BY <1>1, <2>3
  <2>6. Filled(acc, o, price) = [acc EXCEPT !.cash = c, !.fees = f, !.realized = p,
                                            !.positions = [acc.positions EXCEPT ![s] = rest]]
    BY <1>2, <1>3, <1>4, <1>5, <1>8, <2>4 DEF Filled, Sold, pnl
  <2> HIDE DEF rest
  <2>7. /\ Filled(acc, o, price) \in AccountState
        /\ Filled(acc, o, price).positions = [acc.positions EXCEPT ![s] = rest]
    BY <1>1, <2>4, <2>5, <2>6 DEF AccountState
  <2> QED
    BY <1>1, <1>2, <1>3, <1>4, <1>5, <1>8, <2>3, <2>7
<1> QED
  BY <1>7, <1>8 DEF Proper

\* executeLocked, and the rejection of a failure: one order leaves `new`, one account moves, and a
\* trade is logged for a fill.
LEMMA Executed ==
  ASSUME NEW book \in Seq(Order), NEW i \in 1..Len(book), NEW price \in Nat, Proper(book[i]),
         accounts \in [Account -> AccountState], trades \in Seq(Trade),
         Execute(book, i, price)
  PROVE  /\ accounts' \in [Account -> AccountState] /\ trades' \in Seq(Trade)
         /\ orders' \in Seq(Order) /\ Len(orders') = Len(book)
         /\ \A j \in 1..Len(book) : j # i => orders'[j] = book[j]
         /\ orders'[i].status \in {"filled", "rejected"}
         /\ orders'[i].cid = book[i].cid /\ orders'[i].account = book[i].account
         /\ \/ orders'[i].status = "rejected" /\ trades' = trades /\ accounts' = accounts
            \/ /\ orders'[i].status = "filled"
               /\ trades' = Append(trades, TradeOf(i, book[i], price))
               /\ TradeOf(i, orders'[i], price) = TradeOf(i, book[i], price)
         /\ \A a \in Account : a # book[i].account => accounts'[a] = accounts[a]
<1> DEFINE o == book[i]
           a == o.account
<1>1. o \in Order /\ a \in Account
  <2>1. o \in Order
    OBVIOUS
  <2> QED
    BY <2>1 DEF Order
<1>2. CASE Refuses(accounts[a], o, price)
  <2>1. /\ orders' = [book EXCEPT ![i].status = "rejected"]
        /\ accounts' = accounts /\ trades' = trades
    BY <1>2 DEF Execute
  <2>2. [o EXCEPT !.status = "rejected"] \in Order
    BY <1>1 DEF Order, Status
  <2>3. /\ [o EXCEPT !.status = "rejected"].status = "rejected"
        /\ [o EXCEPT !.status = "rejected"].cid = o.cid
        /\ [o EXCEPT !.status = "rejected"].account = o.account
    BY <1>1 DEF Order
  <2>4. orders' = [book EXCEPT ![i] = [o EXCEPT !.status = "rejected"]]
    BY <2>1
  <2> HIDE DEF o, a
  <2> DEFINE p == [o EXCEPT !.status = "rejected"]
  <2> HIDE DEF p
  <2>5. /\ orders' \in Seq(Order) /\ Len(orders') = Len(book) /\ orders'[i] = p
        /\ \A j \in 1..Len(book) : j # i => orders'[j] = book[j]
    BY <2>2, <2>4, ExceptSeq DEF p
  <2> QED
    BY <2>1, <2>3, <2>5 DEF o, a, p
<1>3. CASE ~Refuses(accounts[a], o, price)
  <2> DEFINE p == [o EXCEPT !.status = "filled", !.filled = o.qty]
  <2>1. /\ orders' = [book EXCEPT ![i] = p]
        /\ accounts' = [accounts EXCEPT ![a] = Filled(@, o, price)]
        /\ trades' = Append(trades, TradeOf(i, o, price))
    BY <1>3 DEF Execute
  <2>2. p \in Order
    BY <1>1 DEF Order, Status
  <2>3. /\ p.status = "filled" /\ p.cid = o.cid /\ p.account = o.account
        /\ p.symbol = o.symbol /\ p.side = o.side /\ p.qty = o.qty
    BY <1>1 DEF Order
  <2>4. TradeOf(i, o, price) \in Trade
    BY <1>1 DEF TradeOf, Trade, Order, Proper
  <2>5. Filled(accounts[a], o, price) \in AccountState
    <3>1. price # 0
      BY <1>3 DEF Refuses
    <3> QED
      BY <1>1, <1>3, <3>1, Filling
  <2>6. TradeOf(i, p, price) = TradeOf(i, o, price)
    BY <2>3 DEF TradeOf
  <2> HIDE DEF p, o, a
  <2>7. /\ orders' \in Seq(Order) /\ Len(orders') = Len(book) /\ orders'[i] = p
        /\ \A j \in 1..Len(book) : j # i => orders'[j] = book[j]
    BY <2>1, <2>2, ExceptSeq
  <2>8. /\ accounts' \in [Account -> AccountState]
        /\ \A b \in Account : b # a => accounts'[b] = accounts[b]
    BY <1>1, <2>1, <2>5
  <2>9. trades' \in Seq(Trade)
    BY <2>1, <2>4, AppendProperties
  <2> QED
    BY <2>1, <2>3, <2>6, <2>7, <2>8, <2>9 DEF o, a
<1> QED
  BY <1>2, <1>3

-----------------------------------------------------------------------------
(* The broker *)

\* What rests is a limit order that may fill.
Rests == \A i \in 1..Len(orders) :
             orders[i].status = "new" => Proper(orders[i]) /\ orders[i].type = "limit"

\* A key in an order is a key the broker remembers.
Keys == \A i \in 1..Len(orders) : orders[i].cid # NoId => orders[i].cid \in clientOrderIDs

\* The trade log and the order book agree from either side.
TradesFilled ==
  /\ \A t \in 1..Len(trades) :
       /\ trades[t].order \in 1..Len(orders)
       /\ orders[trades[t].order].status = "filled"
       /\ trades[t] = TradeOf(trades[t].order, orders[trades[t].order], trades[t].price)
  /\ \A t, u \in 1..Len(trades) : trades[t].order = trades[u].order => t = u
FilledTraded ==
  \A i \in 1..Len(orders) :
    orders[i].status = "filled" => \E t \in 1..Len(trades) : trades[t].order = i

\* The inductive invariant of the broker.
PaperInv ==
  /\ TypeOK /\ cursor # 0
  /\ Rests /\ Keys /\ ClientIdOnce /\ QuoteExhausts /\ TradesFilled /\ FilledTraded

\* A step that moves one order out of, or past, `new` and logs a trade exactly for a fill keeps the
\* trade log and the order book in agreement.
LEMMA Logged ==
  ASSUME orders \in Seq(Order), trades \in Seq(Trade), TradesFilled, FilledTraded,
         NEW i \in 1..Len(orders'), 1..Len(orders') = 1..Len(orders) \cup {i},
         \A j \in 1..Len(orders) : j # i => orders'[j] = orders[j],
         i \in 1..Len(orders) => orders[i].status # "filled",
         \/ orders'[i].status # "filled" /\ trades' = trades
         \/ /\ orders'[i].status = "filled"
            /\ \E price \in Nat : trades' = Append(trades, TradeOf(i, orders'[i], price))
  PROVE  (TradesFilled /\ FilledTraded)'
<1>1. \A t \in 1..Len(trades) :
        /\ trades[t].order \in 1..Len(orders) /\ trades[t].order # i
        /\ orders'[trades[t].order] = orders[trades[t].order]
  BY DEF TradesFilled
<1>2. CASE orders'[i].status # "filled" /\ trades' = trades
  <2>1. TradesFilled'
    BY <1>1, <1>2 DEF TradesFilled
  <2>2. FilledTraded'
    BY <1>2 DEF FilledTraded
  <2> QED
    BY <2>1, <2>2
<1>3. ASSUME orders'[i].status = "filled", NEW price \in Nat,
             trades' = Append(trades, TradeOf(i, orders'[i], price))
      PROVE  (TradesFilled /\ FilledTraded)'
  <2>1. PICK n \in Nat : n = Len(trades)
    BY LenProperties
  <2>2. /\ Len(trades') = n + 1
        /\ \A t \in 1..n : trades'[t] = trades[t]
        /\ trades'[n + 1] = TradeOf(i, orders'[i], price)
    BY <1>3, <2>1
  <2>3. /\ trades'[n + 1].order = i /\ trades'[n + 1].price = price
    BY <2>2 DEF TradeOf
  <2>4. \A t \in 1..n + 1 : t \in 1..n \/ t = n + 1
    BY <2>1
  <2>5. ASSUME NEW t \in 1..n + 1
        PROVE  /\ trades'[t].order \in 1..Len(orders')
               /\ orders'[trades'[t].order].status = "filled"
               /\ trades'[t] = TradeOf(trades'[t].order, orders'[trades'[t].order], trades'[t].price)
    <3>1. CASE t = n + 1
      BY <1>3, <2>2, <2>3, <3>1
    <3>2. CASE t \in 1..n
      BY <1>1, <2>1, <2>2, <3>2 DEF TradesFilled
    <3> QED
      BY <2>4, <3>1, <3>2
  <2>6. ASSUME NEW t \in 1..n + 1, NEW u \in 1..n + 1, trades'[t].order = trades'[u].order
        PROVE  t = u
    <3>1. CASE t = n + 1
      BY <1>1, <2>1, <2>2, <2>3, <2>4, <2>6, <3>1
    <3>2. CASE u = n + 1
      BY <1>1, <2>1, <2>2, <2>3, <2>4, <2>6, <3>2
    <3>3. CASE t \in 1..n /\ u \in 1..n
      BY <2>1, <2>2, <2>6, <3>3 DEF TradesFilled
    <3> QED
      BY <2>4, <3>1, <3>2, <3>3
  <2>7. TradesFilled'
    BY <2>2, <2>5, <2>6 DEF TradesFilled
  <2>8. ASSUME NEW j \in 1..Len(orders'), orders'[j].status = "filled"
        PROVE  \E t \in 1..n + 1 : trades'[t].order = j
    <3>1. CASE j = i
      BY <2>1, <2>3, <3>1
    <3>2. CASE j # i
      <4>1. PICK t \in 1..n : trades[t].order = j
        BY <2>1, <2>8, <3>2 DEF FilledTraded
      <4>2. t \in 1..n + 1 /\ trades'[t].order = j
        BY <2>1, <2>2, <4>1
      <4> QED
        BY <4>2
    <3> QED
      BY <3>1, <3>2
  <2>9. FilledTraded'
    BY <2>2, <2>8 DEF FilledTraded
  <2> QED
    BY <2>7, <2>9
<1> QED
  BY <1>2, <1>3

\* placeLocked: the new order is the last one, on the account and with the key of the request; it
\* rests only as a limit, and nothing but its account moves.
LEMMA Placed ==
  ASSUME TypeOK, NEW a \in Account, NEW req \in OrderRequest, NEW q \in View, Place(a, req, q)
  PROVE  LET i == Len(orders) + 1
         IN  /\ accounts' \in [Account -> AccountState] /\ trades' \in Seq(Trade)
             /\ orders' \in Seq(Order) /\ Len(orders') = i
             /\ \A j \in 1..Len(orders) : orders'[j] = orders[j]
             /\ orders'[i].cid = req.cid /\ orders'[i].account = a
             /\ \/ orders'[i].status # "filled" /\ trades' = trades
                \/ /\ orders'[i].status = "filled"
                   /\ \E price \in Nat : trades' = Append(trades, TradeOf(i, orders'[i], price))
             /\ orders'[i].status = "new" => Proper(orders'[i]) /\ orders'[i].type = "limit"
             /\ \A b \in Account : b # a => accounts'[b] = accounts[b]
<1> DEFINE new == NewOrder(a, req)
           book == Append(orders, new)
<1>1. PICK n \in Nat : n = Len(orders)
  BY LenProperties DEF TypeOK
<1>2. /\ orders \in Seq(Order) /\ trades \in Seq(Trade) /\ accounts \in [Account -> AccountState]
  BY DEF TypeOK
<1>3. new \in Order
  BY DEF NewOrder, OrderRequest, Order, Status
<1>4. /\ new.cid = req.cid /\ new.account = a /\ new.status = "new" /\ new.type = req.type
      /\ new.side = req.side /\ new.qty = req.qty
  BY DEF NewOrder
<1>5. /\ req.qty \in Int /\ req.side \in Side /\ req.type \in Type
      /\ q.ask \in Nat /\ q.bid \in Nat /\ q.last \in Nat
  BY DEF OrderRequest, View
<1> HIDE DEF new
<1>6. /\ book \in Seq(Order) /\ Len(book) = n + 1 /\ book[n + 1] = new
      /\ \A j \in 1..n : book[j] = orders[j] /\ j # n + 1
  BY <1>1, <1>2, <1>3, AppendProperties
<1> DEFINE price == IF req.type = "limit" THEN TouchPrice(req.side, q) ELSE MarketPrice(req.side, q)
<1>7. /\ req.cid \notin clientOrderIDs
      /\ IF Invalid(req)
           THEN /\ orders' = [book EXCEPT ![n + 1].status = "rejected"]
                /\ UNCHANGED <<accounts, trades>>
         ELSE IF req.type = "limit" /\ ~Crosses(req, q)
           THEN /\ orders' = book
                /\ UNCHANGED <<accounts, trades>>
         ELSE Execute(book, n + 1, price)
  BY <1>1 DEF Place, PlaceRemembering, new
<1>8. price \in Nat
  BY <1>5 DEF TouchPrice, MarketPrice
<1>9. ~Invalid(req) => Proper(new)
  BY <1>4, <1>5 DEF Invalid, Proper, Side
<1> HIDE DEF book, price
<1> DEFINE Outcome ==
             /\ accounts' \in [Account -> AccountState] /\ trades' \in Seq(Trade)
             /\ orders' \in Seq(Order) /\ Len(orders') = n + 1
             /\ \A j \in 1..n : orders'[j] = orders[j]
             /\ orders'[n + 1].cid = req.cid /\ orders'[n + 1].account = a
             /\ \/ orders'[n + 1].status # "filled" /\ trades' = trades
                \/ /\ orders'[n + 1].status = "filled"
                   /\ \E p \in Nat : trades' = Append(trades, TradeOf(n + 1, orders'[n + 1], p))
             /\ orders'[n + 1].status = "new" =>
                  Proper(orders'[n + 1]) /\ orders'[n + 1].type = "limit"
             /\ \A b \in Account : b # a => accounts'[b] = accounts[b]
<1>10. ASSUME Invalid(req)
       PROVE  Outcome
  <2> DEFINE p == [new EXCEPT !.status = "rejected"]
  <2>1. p \in Order /\ p.status = "rejected" /\ p.cid = req.cid /\ p.account = a
    BY <1>3, <1>4 DEF Order, Status
  <2>2. orders' = [book EXCEPT ![n + 1] = p] /\ accounts' = accounts /\ trades' = trades
    BY <1>6, <1>7, <1>10
  <2> HIDE DEF p
  <2>3. /\ orders' \in Seq(Order) /\ Len(orders') = n + 1 /\ orders'[n + 1] = p
        /\ \A j \in 1..n : orders'[j] = orders[j]
    BY <1>6, <2>1, <2>2, ExceptSeq
  <2> QED
    BY <1>2, <2>1, <2>2, <2>3
<1>11. ASSUME ~Invalid(req), req.type = "limit", ~Crosses(req, q)
       PROVE  Outcome
  BY <1>2, <1>4, <1>6, <1>7, <1>9, <1>11
<1>12. ASSUME ~Invalid(req), ~(req.type = "limit" /\ ~Crosses(req, q))
       PROVE  Outcome
  <2>1. Execute(book, n + 1, price)
    BY <1>7, <1>12
  <2>2. n + 1 \in 1..Len(book) /\ Proper(book[n + 1])
    BY <1>6, <1>9, <1>12
  <2>3. /\ accounts' \in [Account -> AccountState] /\ trades' \in Seq(Trade)
        /\ orders' \in Seq(Order) /\ Len(orders') = Len(book)
        /\ \A j \in 1..Len(book) : j # n + 1 => orders'[j] = book[j]
        /\ orders'[n + 1].status \in {"filled", "rejected"}
        /\ orders'[n + 1].cid = book[n + 1].cid /\ orders'[n + 1].account = book[n + 1].account
        /\ \/ orders'[n + 1].status = "rejected" /\ trades' = trades /\ accounts' = accounts
           \/ /\ orders'[n + 1].status = "filled"
              /\ trades' = Append(trades, TradeOf(n + 1, book[n + 1], price))
              /\ TradeOf(n + 1, orders'[n + 1], price) = TradeOf(n + 1, book[n + 1], price)
        /\ \A b \in Account : b # book[n + 1].account => accounts'[b] = accounts[b]
    BY <1>2, <1>6, <1>8, <2>1, <2>2, Executed
  <2>4. \A j \in 1..n : orders'[j] = orders[j]
    BY <1>6, <2>3
  <2>5. \/ orders'[n + 1].status # "filled" /\ trades' = trades
        \/ /\ orders'[n + 1].status = "filled"
           /\ \E p \in Nat : trades' = Append(trades, TradeOf(n + 1, orders'[n + 1], p))
    BY <1>8, <2>3
  <2> QED
    BY <1>4, <1>6, <2>3, <2>4, <2>5
<1>13. Outcome
  BY <1>10, <1>11, <1>12
<1> QED
  BY <1>1, <1>13

\* A method that places an order keeps the invariant of the broker.
LEMMA PlaceKeeps ==
  ASSUME PaperInv, NEW a \in Account, NEW req \in OrderRequest, NEW q \in View, Place(a, req, q)
  PROVE  PaperInv'
<1>1. PICK n \in Nat : n = Len(orders)
  BY LenProperties DEF PaperInv, TypeOK
<1>2. TypeOK /\ Rests /\ Keys /\ ClientIdOnce /\ TradesFilled /\ FilledTraded
  BY DEF PaperInv
<1>3. /\ accounts' \in [Account -> AccountState] /\ trades' \in Seq(Trade)
      /\ orders' \in Seq(Order) /\ Len(orders') = n + 1
      /\ \A j \in 1..n : orders'[j] = orders[j]
      /\ orders'[n + 1].cid = req.cid
      /\ \/ orders'[n + 1].status # "filled" /\ trades' = trades
         \/ /\ orders'[n + 1].status = "filled"
            /\ \E price \in Nat : trades' = Append(trades, TradeOf(n + 1, orders'[n + 1], price))
      /\ orders'[n + 1].status = "new" => Proper(orders'[n + 1]) /\ orders'[n + 1].type = "limit"
  BY <1>1, <1>2, Placed
<1>4. /\ quote = NoQuote /\ quote' = quote /\ cursor' = cursor /\ allocated' = allocated
      /\ opened' = opened \cup {a}
      /\ req.cid \notin clientOrderIDs
      /\ clientOrderIDs' = clientOrderIDs \cup ({req.cid} \ {NoId})
  BY DEF Place, PlaceRemembering, Unlocked
<1>5. req.cid \in ClientId \cup {NoId}
  BY DEF OrderRequest
<1>6. \A j \in 1..n + 1 : j \in 1..n \/ j = n + 1
  BY <1>1
<1>7. TypeOK' /\ cursor' # 0
  BY <1>2, <1>3, <1>4, <1>5 DEF TypeOK, PaperInv
<1>8. Rests'
  BY <1>1, <1>2, <1>3, <1>6 DEF Rests
<1>9. Keys'
  BY <1>1, <1>2, <1>3, <1>4, <1>6 DEF Keys
<1>10. ClientIdOnce'
  <2>1. \A j \in 1..n : orders[j].cid # req.cid \/ req.cid = NoId
    BY <1>1, <1>2, <1>4 DEF Keys
  <2>2. ASSUME NEW j \in 1..n + 1, NEW k \in 1..n + 1,
               orders'[j].cid = orders'[k].cid, orders'[j].cid # NoId
        PROVE  j = k
    <3>1. CASE j \in 1..n /\ k \in 1..n
      BY <1>1, <1>2, <1>3, <2>2, <3>1 DEF ClientIdOnce
    <3>2. CASE ~(j \in 1..n /\ k \in 1..n)
      BY <1>3, <1>6, <2>1, <2>2, <3>2
    <3> QED
      BY <3>1, <3>2
  <2> QED
    BY <1>3, <2>2 DEF ClientIdOnce
<1>11. QuoteExhausts'
  BY <1>4 DEF QuoteExhausts, Unlocked
<1>12. (TradesFilled /\ FilledTraded)'
  <2>1. /\ n + 1 \in 1..Len(orders') /\ 1..Len(orders') = 1..Len(orders) \cup {n + 1}
        /\ n + 1 \notin 1..Len(orders)
    BY <1>1, <1>3
  <2>2. /\ orders \in Seq(Order) /\ trades \in Seq(Trade)
        /\ \A j \in 1..Len(orders) : j # n + 1 => orders'[j] = orders[j]
    BY <1>1, <1>2, <1>3 DEF TypeOK
  <2> QED
    BY <1>2, <1>3, <2>1, <2>2, Logged
<1> QED
  BY <1>7, <1>8, <1>9, <1>10, <1>11, <1>12 DEF PaperInv

\* A turn of OnQuote's loop keeps the invariant, opens no order, and moves at most the account of an
\* order that rested.
LEMMA VisitKeeps ==
  ASSUME PaperInv, VisitOrder
  PROVE  /\ PaperInv'
         /\ Len(orders') = Len(orders)
         /\ \A j \in 1..Len(orders) :
              /\ orders'[j].account = orders[j].account
              /\ orders'[j].status = "new" => orders[j].status = "new"
         /\ \A b \in Account :
              \/ accounts'[b] = accounts[b]
              \/ \E j \in 1..Len(orders) : orders[j].account = b /\ orders[j].status = "new"
<1>1. PICK n \in Nat : n = Len(orders)
  BY LenProperties DEF PaperInv, TypeOK
<1>2. TypeOK /\ Rests /\ Keys /\ ClientIdOnce /\ QuoteExhausts /\ TradesFilled /\ FilledTraded
  BY DEF PaperInv
<1>3. /\ orders \in Seq(Order) /\ trades \in Seq(Trade) /\ accounts \in [Account -> AccountState]
      /\ cursor \in Nat \ {0} /\ quote \in Quote \cup {NoQuote}
  BY DEF PaperInv, TypeOK
<1>4. /\ quote # NoQuote /\ cursor <= n /\ cursor' = cursor + 1
      /\ opened' = opened /\ clientOrderIDs' = clientOrderIDs /\ quote' = quote
      /\ allocated' = allocated
  BY <1>1 DEF VisitOrder, Unlocked
<1>5. PICK c \in 1..n : c = cursor
  BY <1>3, <1>4
<1>6. \A j \in 1..n : j < c + 1 => j < c \/ j = c
  BY <1>5
<1>7. CASE ~Touched(orders[c])
  <2>1. accounts' = accounts /\ orders' = orders /\ trades' = trades
    BY <1>5, <1>7 DEF VisitOrder
  <2>2. TypeOK' /\ cursor' # 0
    BY <1>2, <1>3, <1>4, <2>1 DEF TypeOK
  <2>3. QuoteExhausts'
    BY <1>1, <1>2, <1>4, <1>5, <1>6, <1>7, <2>1 DEF QuoteExhausts, Unlocked, Touched, Rests
  <2>4. (Rests /\ Keys /\ ClientIdOnce /\ TradesFilled /\ FilledTraded)'
    BY <1>2, <1>4, <2>1 DEF Rests, Keys, ClientIdOnce, TradesFilled, FilledTraded
  <2> QED
    BY <2>1, <2>2, <2>3, <2>4 DEF PaperInv
<1>8. CASE Touched(orders[c])
  <2> DEFINE price == TouchPrice(orders[c].side, quote)
  <2>1. Execute(orders, c, price)
    BY <1>5, <1>8 DEF VisitOrder
  <2>2. orders[c].status = "new"
    BY <1>8 DEF Touched
  <2>3. Proper(orders[c]) /\ c \in 1..Len(orders)
    BY <1>1, <1>2, <2>2 DEF Rests
  <2>4. price \in Nat
    <3>1. quote.ask \in Nat /\ quote.bid \in Nat
      BY <1>3, QuoteAssumption DEF NoQuote
    <3> QED
      BY <3>1 DEF TouchPrice
  <2> HIDE DEF price
  <2>5. /\ accounts' \in [Account -> AccountState] /\ trades' \in Seq(Trade)
        /\ orders' \in Seq(Order) /\ Len(orders') = n
        /\ \A j \in 1..n : j # c => orders'[j] = orders[j]
        /\ orders'[c].status \in {"filled", "rejected"}
        /\ orders'[c].cid = orders[c].cid /\ orders'[c].account = orders[c].account
        /\ \/ orders'[c].status = "rejected" /\ trades' = trades /\ accounts' = accounts
           \/ /\ orders'[c].status = "filled"
              /\ trades' = Append(trades, TradeOf(c, orders[c], price))
              /\ TradeOf(c, orders'[c], price) = TradeOf(c, orders[c], price)
        /\ \A a \in Account : a # orders[c].account => accounts'[a] = accounts[a]
    BY <1>1, <1>3, <2>1, <2>3, <2>4, Executed
  <2>6. \A j \in 1..n : orders'[j].cid = orders[j].cid /\ orders'[j].account = orders[j].account
    BY <2>5
  <2>7. \A j \in 1..n : orders'[j].status = "new" => j # c /\ orders'[j] = orders[j]
    BY <2>5
  <2>8. TypeOK' /\ cursor' # 0
    BY <1>2, <1>3, <1>4, <2>5 DEF TypeOK
  <2>9. Rests'
    BY <1>1, <1>2, <2>5, <2>7 DEF Rests
  <2>10. Keys' /\ ClientIdOnce'
    BY <1>1, <1>2, <1>4, <2>5, <2>6 DEF Keys, ClientIdOnce
  <2>11. QuoteExhausts'
    BY <1>1, <1>2, <1>4, <1>5, <1>6, <2>5, <2>7 DEF QuoteExhausts, Unlocked
  <2>12. (TradesFilled /\ FilledTraded)'
    <3>1. /\ c \in 1..Len(orders') /\ 1..Len(orders') = 1..Len(orders) \cup {c}
          /\ \A j \in 1..Len(orders) : j # c => orders'[j] = orders[j]
          /\ orders[c].status # "filled"
      BY <1>1, <2>2, <2>5
    <3>2. \/ orders'[c].status # "filled" /\ trades' = trades
          \/ /\ orders'[c].status = "filled"
             /\ \E p \in Nat : trades' = Append(trades, TradeOf(c, orders'[c], p))
      BY <2>4, <2>5
    <3> QED
      BY <1>2, <1>3, <3>1, <3>2, Logged
  <2>13. PaperInv'
    BY <2>8, <2>9, <2>10, <2>11, <2>12 DEF PaperInv
  <2>14. \A b \in Account :
           \/ accounts'[b] = accounts[b]
           \/ \E j \in 1..Len(orders) : orders[j].account = b /\ orders[j].status = "new"
    BY <2>2, <2>3, <2>5
  <2> QED
    BY <1>1, <2>2, <2>5, <2>6, <2>7, <2>13, <2>14
<1> QED
  BY <1>7, <1>8

\* Allocate moves cash only.
LEMMA AllocateKeeps ==
  ASSUME PaperInv, NEW a \in SubAccount, NEW amount \in Int, Allocate(a, amount)
  PROVE  /\ PaperInv'
         /\ \A b \in Account : accounts'[b].positions = accounts[b].positions
<1>1. /\ TypeOK /\ cursor # 0
      /\ Rests /\ Keys /\ ClientIdOnce /\ QuoteExhausts /\ TradesFilled /\ FilledTraded
  BY DEF PaperInv
<1>2. /\ accounts \in [Account -> AccountState] /\ a \in Account /\ Main \in Account
      /\ allocated \in [Account -> Int] /\ a # Main
  BY <1>1, AccountAssumption DEF TypeOK, Account
<1>3. /\ accounts[Main].cash \in Int /\ accounts[a].cash \in Int
      /\ accounts[Main] \in AccountState /\ accounts[a] \in AccountState
  <2>1. \A acc \in AccountState : acc.cash \in Int
    BY DEF AccountState
  <2> QED
    BY <1>2, <2>1
<1>4. \A acc \in AccountState, c \in Int :
        /\ [acc EXCEPT !.cash = c] \in AccountState
        /\ [acc EXCEPT !.cash = c].positions = acc.positions
  BY DEF AccountState
<1>5. PICK c \in Int, d \in Int : c = accounts[Main].cash - amount /\ d = accounts[a].cash + amount
  BY <1>3
<1>6. accounts' = [accounts EXCEPT ![Main] = [accounts[Main] EXCEPT !.cash = c],
                                   ![a] = [accounts[a] EXCEPT !.cash = d]]
  BY <1>2, <1>5 DEF Allocate
<1>7. /\ accounts' \in [Account -> AccountState]
      /\ \A b \in Account : accounts'[b].positions = accounts[b].positions
  BY <1>2, <1>3, <1>4, <1>5, <1>6
<1>8. /\ opened' = opened \cup {a}
      /\ orders' = orders /\ trades' = trades /\ clientOrderIDs' = clientOrderIDs
      /\ quote' = quote /\ cursor' = cursor
  BY DEF Allocate
<1>9. allocated' \in [Account -> Int]
  BY <1>2 DEF Allocate
<1>10. TypeOK' /\ cursor' # 0
  BY <1>1, <1>2, <1>7, <1>8, <1>9 DEF TypeOK
<1>11. (Rests /\ Keys /\ ClientIdOnce /\ QuoteExhausts /\ TradesFilled /\ FilledTraded)'
  BY <1>1, <1>8
     DEF Rests, Keys, ClientIdOnce, QuoteExhausts, TradesFilled, FilledTraded, Unlocked
<1> QED
  BY <1>7, <1>10, <1>11 DEF PaperInv

\* Cancel takes one resting order out of `new`.
LEMMA CancelKeeps ==
  ASSUME PaperInv, NEW i \in 1..Len(orders), Cancel(i)
  PROVE  PaperInv'
<1>1. PICK n \in Nat : n = Len(orders)
  BY LenProperties DEF PaperInv, TypeOK
<1>2. /\ TypeOK /\ cursor # 0
      /\ Rests /\ Keys /\ ClientIdOnce /\ QuoteExhausts /\ TradesFilled /\ FilledTraded
  BY DEF PaperInv
<1>3. orders \in Seq(Order) /\ trades \in Seq(Trade) /\ i \in 1..n
  BY <1>1, <1>2 DEF TypeOK
<1>4. /\ quote = NoQuote /\ orders[i].status = "new"
      /\ opened' = opened /\ accounts' = accounts /\ trades' = trades
      /\ clientOrderIDs' = clientOrderIDs /\ quote' = quote /\ cursor' = cursor
      /\ allocated' = allocated
  BY DEF Cancel, Unlocked
<1> DEFINE p == [orders[i] EXCEPT !.status = "cancelled"]
<1>5. orders[i] \in Order
  BY <1>1, <1>3
<1>6. p \in Order /\ p.status = "cancelled" /\ p.cid = orders[i].cid
  BY <1>5 DEF Order, Status
<1>7. orders' = [orders EXCEPT ![i] = p]
  BY DEF Cancel
<1> HIDE DEF p
<1>8. /\ orders' \in Seq(Order) /\ Len(orders') = n /\ orders'[i] = p
      /\ \A j \in 1..n : j # i => orders'[j] = orders[j]
  BY <1>1, <1>3, <1>6, <1>7, ExceptSeq
<1>9. \A j \in 1..n : orders'[j].cid = orders[j].cid
  BY <1>6, <1>8
<1>10. TypeOK' /\ cursor' # 0
  BY <1>2, <1>4, <1>8 DEF TypeOK
<1>11. Rests'
  BY <1>1, <1>2, <1>6, <1>8 DEF Rests
<1>12. Keys' /\ ClientIdOnce'
  BY <1>1, <1>2, <1>4, <1>8, <1>9 DEF Keys, ClientIdOnce
<1>13. QuoteExhausts'
  BY <1>4 DEF QuoteExhausts, Unlocked
<1>14. (TradesFilled /\ FilledTraded)'
  <2>1. /\ i \in 1..Len(orders') /\ 1..Len(orders') = 1..Len(orders) \cup {i}
        /\ \A j \in 1..Len(orders) : j # i => orders'[j] = orders[j]
        /\ orders[i].status # "filled" /\ orders'[i].status # "filled"
    BY <1>1, <1>3, <1>4, <1>6, <1>8
  <2> QED
    BY <1>2, <1>3, <1>4, <2>1, Logged
<1> QED
  BY <1>10, <1>11, <1>12, <1>13, <1>14 DEF PaperInv

\* OnQuote takes and releases the lock, or nothing happens.
LEMMA QuoteKeeps ==
  ASSUME PaperInv,
         UNCHANGED <<opened, accounts, orders, trades, clientOrderIDs, allocated>>,
         \/ \E q \in Quote : quote' = q /\ cursor' = 1
         \/ quote' = NoQuote /\ cursor' = 1
         \/ quote' = quote /\ cursor' = cursor
  PROVE  PaperInv'
<1>1. /\ TypeOK /\ cursor # 0
      /\ Rests /\ Keys /\ ClientIdOnce /\ QuoteExhausts /\ TradesFilled /\ FilledTraded
  BY DEF PaperInv
<1>2. /\ accounts' = accounts /\ orders' = orders /\ trades' = trades
      /\ clientOrderIDs' = clientOrderIDs /\ allocated' = allocated /\ opened' = opened
  OBVIOUS
<1>3. TypeOK' /\ cursor' # 0
  BY <1>1, <1>2 DEF TypeOK
<1>4. (Rests /\ Keys /\ ClientIdOnce /\ TradesFilled /\ FilledTraded)'
  BY <1>1, <1>2 DEF Rests, Keys, ClientIdOnce, TradesFilled, FilledTraded
<1>5. QuoteExhausts'
  <2>1. CASE cursor' = 1
    BY <2>1 DEF QuoteExhausts
  <2>2. CASE quote' = quote /\ cursor' = cursor
    BY <1>1, <1>2, <2>2 DEF QuoteExhausts, Unlocked
  <2> QED
    BY <2>1, <2>2
<1> QED
  BY <1>3, <1>4, <1>5 DEF PaperInv

\* New.
LEMMA PaperStarts ==
  ASSUME Init
  PROVE  PaperInv
<1>1. /\ opened = {Main} /\ orders = <<>> /\ trades = <<>> /\ clientOrderIDs = {}
      /\ quote = NoQuote /\ cursor = 1
      /\ accounts = [a \in Account |->
                       [EmptyAccount EXCEPT !.cash = IF a = Main THEN InitialCash ELSE 0]]
      /\ allocated = [a \in Account |-> 0]
  BY DEF Init
<1>2. EmptyAccount \in AccountState
  <2>1. <<0, 1>> \in Fraction
    BY Fractions
  <2>2. <<>> \in Seq(Symbol)
    BY EmptySeq
  <2>3. [s \in Symbol |-> NoPosition] \in [Symbol -> Position]
    BY <2>1 DEF NoPosition, Position
  <2> QED
    BY <2>1, <2>2, <2>3 DEF EmptyAccount, AccountState
<1>3. \A c \in Int : [EmptyAccount EXCEPT !.cash = c] \in AccountState
  BY <1>2 DEF AccountState
<1>4. accounts \in [Account -> AccountState]
  <2> DEFINE c(a) == IF a = Main THEN InitialCash ELSE 0
  <2>1. \A a \in Account : c(a) \in Int
    BY CashAssumption
  <2> HIDE DEF c
  <2>2. \A a \in Account : [EmptyAccount EXCEPT !.cash = c(a)] \in AccountState
    BY <1>3, <2>1
  <2>3. accounts = [a \in Account |-> [EmptyAccount EXCEPT !.cash = c(a)]]
    BY <1>1 DEF c
  <2> QED
    BY <2>2, <2>3
<1>5. /\ <<>> \in Seq(Order) /\ <<>> \in Seq(Trade) /\ Len(orders) = 0 /\ Len(trades) = 0
  BY <1>1, EmptySeq
<1>6. TypeOK
  <2>1. opened \subseteq Account /\ clientOrderIDs \subseteq ClientId
    BY <1>1 DEF Account
  <2>2. orders \in Seq(Order) /\ trades \in Seq(Trade)
    BY <1>1, <1>5
  <2>3. quote \in Quote \cup {NoQuote} /\ cursor \in Nat
    BY <1>1
  <2>4. allocated \in [Account -> Int]
    BY <1>1
  <2> QED
    BY <1>4, <2>1, <2>2, <2>3, <2>4 DEF TypeOK
<1>7. Rests /\ Keys /\ ClientIdOnce /\ QuoteExhausts /\ TradesFilled /\ FilledTraded
  BY <1>5 DEF Rests, Keys, ClientIdOnce, QuoteExhausts, TradesFilled, FilledTraded
<1> QED
  BY <1>1, <1>6, <1>7 DEF PaperInv

\* The invariant of the broker, for any accounts, requests, quotes and number of orders.
THEOREM PaperInvariance == Spec => []PaperInv
<1>1. Init => PaperInv
  BY PaperStarts
<1>2. PaperInv /\ [Next]_vars => PaperInv'
  <2> SUFFICES ASSUME PaperInv, [Next]_vars
               PROVE  PaperInv'
    OBVIOUS
  <2>1. ASSUME NEW a \in SubAccount, NEW amount \in Amount, Allocate(a, amount)
        PROVE  PaperInv'
    BY <2>1, AmountAssumption, AllocateKeeps
  <2>2. ASSUME NEW a \in Account, NEW req \in Request, NEW q \in Quote, Place(a, req, q)
        PROVE  PaperInv'
    <3>1. req \in OrderRequest /\ q \in View
      BY RequestAssumption, QuoteAssumption DEF OrderRequest, View
    <3> QED
      BY <2>2, <3>1, PlaceKeeps
  <2>3. ASSUME NEW i \in 1..Len(orders), Cancel(i)
        PROVE  PaperInv'
    BY <2>3, CancelKeeps
  <2>4. ASSUME NEW q \in Quote, BeginQuote(q)
        PROVE  PaperInv'
    BY <2>4, QuoteKeeps DEF BeginQuote
  <2>5. ASSUME VisitOrder
        PROVE  PaperInv'
    BY <2>5, VisitKeeps
  <2>6. ASSUME EndQuote
        PROVE  PaperInv'
    BY <2>6, QuoteKeeps DEF EndQuote
  <2>7. ASSUME UNCHANGED vars
        PROVE  PaperInv'
    BY <2>7, QuoteKeeps DEF vars
  <2> QED
    BY <2>1, <2>2, <2>3, <2>4, <2>5, <2>6, <2>7 DEF Next
<1> QED
  BY <1>1, <1>2, PTL DEF Spec

\* Every reachable state of the broker is well typed.
THEOREM PaperTypeCorrect == Spec => []TypeOK
<1>1. PaperInv => TypeOK
  BY DEF PaperInv
<1> QED
  BY <1>1, PaperInvariance, PTL

\* placeLocked: an idempotency key creates at most one order.
THEOREM OneOrderPerKey == Spec => []ClientIdOnce
<1>1. PaperInv => ClientIdOnce
  BY DEF PaperInv
<1> QED
  BY <1>1, PaperInvariance, PTL

\* OnQuote: behind the walk no resting limit crosses its quote.
THEOREM WalkIsComplete == Spec => []QuoteExhausts
<1>1. PaperInv => QuoteExhausts
  BY DEF PaperInv
<1> QED
  BY <1>1, PaperInvariance, PTL

\* Place and OnQuote: an order is filled exactly once, and the trade log says so.
THEOREM FillsOnce == Spec => []FilledOnce
<1>1. PaperInv => FilledOnce
  BY DEF PaperInv, TradesFilled, FilledTraded, FilledOnce
<1> QED
  BY <1>1, PaperInvariance, PTL

\* A fill leaves no debt, as long as the commission is not more than the turnover.
LEMMA FillSolvent ==
  ASSUME FeeBps <= Unit,
         NEW acc \in AccountState, NEW o \in Order, Proper(o), NEW price \in Nat,
         ~Refuses(acc, o, price), acc.cash >= 0
  PROVE  Filled(acc, o, price).cash >= 0
<1>1. PICK m \in Nat : m = price * o.qty
  <2>1. o.qty \in Nat
    BY DEF Order, Proper
  <2> QED
    BY <2>1, Products
<1>2. PICK cash \in Nat : cash = acc.cash
  BY DEF AccountState
<1>3. /\ m * Unit \in Nat /\ m * FeeBps \in Nat /\ m * FeeBps <= m * Unit
  <2>1. PICK d \in Nat : d = Unit - FeeBps
    BY FeeAssumption DEF Unit
  <2>2. Unit = FeeBps + d /\ m * d \in Nat /\ m * FeeBps \in Nat
    BY <2>1, FeeAssumption, Products DEF Unit
  <2>3. m * Unit = m * FeeBps + m * d
    BY <2>1, <2>2, FeeAssumption
  <2> QED
    BY <2>2, <2>3
<1>4. PICK turnover \in Nat, fee \in Nat :
        /\ turnover = Turnover(o, price) /\ fee = Fee(o, price) /\ fee <= turnover
  BY <1>1, <1>3 DEF Turnover, Fee
<1>5. CASE o.side = "buy"
  <2>1. Filled(acc, o, price).cash = cash - (turnover + fee)
    BY <1>2, <1>4, <1>5 DEF Filled, Bought, AccountState
  <2>2. ~(cash < turnover + fee)
    BY <1>2, <1>4, <1>5 DEF Refuses
  <2> QED
    BY <2>1, <2>2
<1>6. CASE o.side # "buy"
  <2>1. Filled(acc, o, price).cash = cash + (turnover - fee)
    BY <1>2, <1>4, <1>6 DEF Filled, Sold, AccountState
  <2> QED
    BY <1>4, <2>1
<1> QED
  BY <1>5, <1>6

\* Place and a turn of OnQuote's loop fill at most one order, with its funds checked.
LEMMA FillsOnlyFunded ==
  ASSUME TypeOK, cursor # 0, Rests,
         \/ \E a \in Account, req \in OrderRequest, q \in View : Place(a, req, q)
         \/ VisitOrder
  PROVE  \/ UNCHANGED <<accounts, trades>>
         \/ \E o \in Order, price \in Nat, i \in Nat :
              /\ Proper(o) /\ ~Refuses(accounts[o.account], o, price)
              /\ accounts' = [accounts EXCEPT ![o.account] = Filled(@, o, price)]
              /\ trades' = Append(trades, TradeOf(i, o, price))
<1>1. ASSUME NEW book \in Seq(Order), NEW i \in 1..Len(book), NEW price \in Nat, Proper(book[i]),
             Execute(book, i, price)
      PROVE  \/ UNCHANGED <<accounts, trades>>
             \/ \E o \in Order, p \in Nat, k \in Nat :
                  /\ Proper(o) /\ ~Refuses(accounts[o.account], o, p)
                  /\ accounts' = [accounts EXCEPT ![o.account] = Filled(@, o, p)]
                  /\ trades' = Append(trades, TradeOf(k, o, p))
  <2>1. book[i] \in Order /\ i \in Nat
    OBVIOUS
  <2> QED
    BY <1>1, <2>1 DEF Execute
<1>2. ASSUME NEW a \in Account, NEW req \in OrderRequest, NEW q \in View, Place(a, req, q),
             ~UNCHANGED <<accounts, trades>>
      PROVE  \E book \in Seq(Order), p \in Nat : \E i \in 1..Len(book) :
               Proper(book[i]) /\ Execute(book, i, p)
  <2> DEFINE new == NewOrder(a, req)
             book == Append(orders, new)
             price == IF req.type = "limit" THEN TouchPrice(req.side, q)
                      ELSE MarketPrice(req.side, q)
  <2>1. PICK n \in Nat : n = Len(orders)
    BY LenProperties DEF TypeOK
  <2>2. new \in Order /\ new.side = req.side /\ new.qty = req.qty
    BY DEF NewOrder, OrderRequest, Order, Status
  <2>3. ~Invalid(req) /\ Execute(book, n + 1, price)
    BY <1>2, <2>1 DEF Place, PlaceRemembering
  <2>4. Proper(new)
    BY <2>2, <2>3 DEF Proper, Invalid, OrderRequest, Side
  <2>5. price \in Nat
    BY DEF TouchPrice, MarketPrice, View
  <2> HIDE DEF new, price
  <2>6. orders \in Seq(Order)
    BY DEF TypeOK
  <2>7. book \in Seq(Order) /\ Len(book) = n + 1 /\ book[n + 1] = new
    BY <2>1, <2>2, <2>6, AppendProperties
  <2> HIDE DEF book
  <2>8. n + 1 \in 1..Len(book) /\ Proper(book[n + 1])
    BY <2>1, <2>4, <2>7
  <2> QED
    BY <2>3, <2>5, <2>7, <2>8
<1>3. ASSUME VisitOrder, ~UNCHANGED <<accounts, trades>>
      PROVE  \E book \in Seq(Order), p \in Nat : \E i \in 1..Len(book) :
               Proper(book[i]) /\ Execute(book, i, p)
  <2>1. PICK n \in Nat : n = Len(orders)
    BY LenProperties DEF TypeOK
  <2>2. /\ cursor \in Nat /\ cursor <= n /\ Touched(orders[cursor])
        /\ Execute(orders, cursor, TouchPrice(orders[cursor].side, quote))
    BY <1>3, <2>1 DEF VisitOrder, TypeOK
  <2>3. cursor \in 1..Len(orders)
    BY <2>1, <2>2
  <2>4. Proper(orders[cursor])
    BY <2>2, <2>3 DEF Rests, Touched
  <2>5. quote.ask \in Nat /\ quote.bid \in Nat
    BY QuoteAssumption DEF NoQuote, TypeOK
  <2>6. TouchPrice(orders[cursor].side, quote) \in Nat
    BY <2>5 DEF TouchPrice
  <2> QED
    BY <2>2, <2>3, <2>4, <2>6 DEF TypeOK
<1> QED
  BY <1>1, <1>2, <1>3

\* No account is overdrawn, whatever fills in between, if the commission is at most the turnover
\* (with a larger one a sale costs money, and the code checks the cash of a buy only).
THEOREM NeverOverdrawn ==
  ASSUME FeeBps <= Unit
  PROVE  Spec => []Solvent
<1>1. Init => Solvent
  <2> SUFFICES ASSUME Init, NEW a \in Account
               PROVE  accounts[a].cash >= 0
    BY DEF Solvent
  <2>1. accounts[a].cash = IF a = Main THEN InitialCash ELSE 0
    BY DEF Init, EmptyAccount
  <2> QED
    BY <2>1, CashAssumption
<1>2. PaperInv /\ Solvent /\ [Next]_vars => Solvent'
  <2> SUFFICES ASSUME PaperInv, Solvent, [Next]_vars, NEW a \in Account
               PROVE  accounts'[a].cash >= 0
    BY DEF Solvent
  <2>1. TypeOK /\ cursor # 0 /\ Rests /\ accounts \in [Account -> AccountState]
    BY DEF PaperInv, TypeOK
  <2>2. accounts[a].cash >= 0
    BY DEF Solvent
  <2>3. ASSUME NEW b \in SubAccount, NEW amount \in Amount, Allocate(b, amount)
        PROVE  accounts'[a].cash >= 0
    <3>1. /\ b \in Account /\ Main \in Account /\ b # Main /\ amount \in Int /\ amount > 0
          /\ accounts[Main].cash >= amount
      BY <2>3, AmountAssumption DEF Allocate, Account
    <3>2. accounts[Main].cash \in Int /\ accounts[b].cash \in Int /\ accounts[b].cash >= 0
      BY <2>1, <3>1 DEF AccountState, Solvent
    <3>3. /\ accounts'[Main].cash = accounts[Main].cash - amount
          /\ accounts'[b].cash = accounts[b].cash + amount
          /\ a # Main /\ a # b => accounts'[a] = accounts[a]
      <4>1. accounts' = [accounts EXCEPT
              ![Main] = [accounts[Main] EXCEPT !.cash = accounts[Main].cash - amount],
              ![b] = [accounts[b] EXCEPT !.cash = accounts[b].cash + amount]]
        BY <2>1, <2>3, <3>1 DEF Allocate
      <4>2. accounts[Main] \in AccountState /\ accounts[b] \in AccountState
        BY <2>1, <3>1
      <4>3. /\ accounts'[Main] = [accounts[Main] EXCEPT !.cash = accounts[Main].cash - amount]
            /\ accounts'[b] = [accounts[b] EXCEPT !.cash = accounts[b].cash + amount]
        BY <2>1, <3>1, <4>1
      <4> QED
        BY <2>1, <4>1, <4>2, <4>3 DEF AccountState
    <3> QED
      BY <2>2, <3>1, <3>2, <3>3
  <2>4. ASSUME \/ \E b \in Account, req \in Request, q \in Quote : Place(b, req, q)
               \/ VisitOrder
        PROVE  accounts'[a].cash >= 0
    <3>1. Request \subseteq OrderRequest /\ Quote \subseteq View
      BY RequestAssumption, QuoteAssumption DEF OrderRequest, View
    <3>2. \/ \E b \in Account, req \in OrderRequest, q \in View : Place(b, req, q)
          \/ VisitOrder
      BY <2>4, <3>1
    <3>3. CASE accounts' = accounts
      BY <2>2, <3>3
    <3>4. ASSUME NEW o \in Order, NEW price \in Nat, Proper(o),
                 ~Refuses(accounts[o.account], o, price),
                 accounts' = [accounts EXCEPT ![o.account] = Filled(@, o, price)]
          PROVE  accounts'[a].cash >= 0
      <4>1. o.account \in Account
        BY DEF Order
      <4>2. accounts[o.account] \in AccountState /\ accounts[o.account].cash >= 0
        BY <2>1, <4>1 DEF Solvent
      <4>3. Filled(accounts[o.account], o, price).cash >= 0
        BY <3>4, <4>2, FillSolvent
      <4> QED
        BY <2>1, <2>2, <3>4, <4>1, <4>3
    <3> QED
      BY <2>1, <3>2, <3>3, <3>4, FillsOnlyFunded
  <2>5. CASE UNCHANGED accounts
    BY <2>2, <2>5
  <2>6. ASSUME \/ \E i \in 1..Len(orders) : Cancel(i)
               \/ \E q \in Quote : BeginQuote(q)
               \/ EndQuote \/ UNCHANGED vars
        PROVE  UNCHANGED accounts
    BY <2>6 DEF Cancel, BeginQuote, EndQuote, vars
  <2> QED
    BY <2>3, <2>4, <2>5, <2>6 DEF Next
<1> QED
  BY <1>1, <1>2, PaperInvariance, PTL DEF Spec

-----------------------------------------------------------------------------
(* The ledger *)

\* The quantities that account a traded of s on one side, trade by trade.
Traded(log, a, s, side) ==
  [t \in 1..Len(log) |->
     IF log[t].account = a /\ log[t].symbol = s /\ log[t].side = side THEN log[t].qty ELSE 0]

\* One more trade adds its quantity to its own account, symbol and side.
LEMMA TradedAppend ==
  ASSUME NEW log \in Seq(Trade), NEW e \in Trade, NEW a, NEW s, NEW side
  PROVE  /\ Total(Traded(log, a, s, side)) \in Int
         /\ Total(Traded(Append(log, e), a, s, side)) =
              Total(Traded(log, a, s, side)) +
                (IF e.account = a /\ e.symbol = s /\ e.side = side THEN e.qty ELSE 0)
<1>1. PICK n \in Nat : n = Len(log)
  BY LenProperties
<1> DEFINE b == Append(log, e)
<1>2. b \in Seq(Trade) /\ Len(b) = n + 1 /\ b[n + 1] = e /\ \A t \in 1..n : b[t] = log[t]
  BY <1>1, AppendProperties
<1>3. \A x \in Trade : x.qty \in Int
  BY DEF Trade
<1>4. ASSUME NEW l \in Seq(Trade)
      PROVE  Traded(l, a, s, side) \in Seq(Int) /\ Len(Traded(l, a, s, side)) = Len(l)
  <2>1. PICK m \in Nat : m = Len(l)
    BY LenProperties
  <2>2. \A t \in 1..m : l[t].qty \in Int
    BY <1>3, <2>1
  <2>3. Traded(l, a, s, side) \in [1..m -> Int]
    BY <2>1, <2>2 DEF Traded
  <2> QED
    BY <2>1, <2>3
<1> HIDE DEF b
<1>5. \A t \in 1..n : Traded(b, a, s, side)[t] = Traded(log, a, s, side)[t]
  BY <1>1, <1>2 DEF Traded
<1>6. Traded(b, a, s, side)[n + 1] =
        IF e.account = a /\ e.symbol = s /\ e.side = side THEN e.qty ELSE 0
  BY <1>1, <1>2 DEF Traded
<1>7. /\ Traded(log, a, s, side) \in Seq(Int) /\ Len(Traded(log, a, s, side)) = n
      /\ Traded(b, a, s, side) \in Seq(Int) /\ Len(Traded(b, a, s, side)) = n + 1
  BY <1>1, <1>2, <1>4
<1>8. Total(Traded(b, a, s, side)) = Total(Traded(log, a, s, side)) + Traded(b, a, s, side)[n + 1]
  BY <1>5, <1>7, TotalAppend
<1> QED
  BY <1>6, <1>7, <1>8, TotalInt DEF b

\* Place and OnQuote: a position is what was bought less what was sold.
THEOREM QuantitiesMatch == Spec => []PositionsMatchTrades
<1>1. \A a, s, side : TradedQty(a, s, side) = Total(Traded(trades, a, s, side))
  BY DEF TradedQty, Traded
<1>2. Init => PositionsMatchTrades
  <2> SUFFICES ASSUME Init, NEW a \in Account, NEW s \in Symbol
               PROVE  accounts[a].positions[s].qty = TradedQty(a, s, "buy") - TradedQty(a, s, "sell")
    BY DEF PositionsMatchTrades
  <2>1. accounts[a].positions[s].qty = 0
    BY DEF Init, EmptyAccount, NoPosition
  <2>2. \A side : Traded(trades, a, s, side) = <<>>
    BY DEF Init, Traded
  <2>3. TradedQty(a, s, "buy") = 0 /\ TradedQty(a, s, "sell") = 0
    BY <1>1, <2>2, TotalEmpty
  <2> QED
    BY <2>1, <2>3
<1>3. PaperInv /\ PositionsMatchTrades /\ [Next]_vars => PositionsMatchTrades'
  <2> SUFFICES ASSUME PaperInv, PositionsMatchTrades, [Next]_vars, NEW a \in Account, NEW s \in Symbol
               PROVE  accounts'[a].positions[s].qty =
                        TradedQty(a, s, "buy")' - TradedQty(a, s, "sell")'
    BY DEF PositionsMatchTrades
  <2> DEFINE bought == TradedQty(a, s, "buy")
             sold == TradedQty(a, s, "sell")
             Goal == accounts'[a].positions[s].qty = bought' - sold'
  <2>1. /\ TypeOK /\ cursor # 0 /\ Rests
        /\ accounts \in [Account -> AccountState] /\ trades \in Seq(Trade)
    BY DEF PaperInv, TypeOK
  <2>2. accounts[a].positions[s].qty = bought - sold
    BY DEF PositionsMatchTrades
  <2>3. ASSUME trades' = trades, accounts'[a].positions = accounts[a].positions
        PROVE  Goal
    BY <2>2, <2>3 DEF TradedQty
  <2>4. ASSUME NEW b \in SubAccount, NEW amount \in Amount, Allocate(b, amount)
        PROVE  Goal
    <3>1. accounts'[a].positions = accounts[a].positions
      BY <2>4, AmountAssumption, AllocateKeeps
    <3>2. trades' = trades
      BY <2>4 DEF Allocate
    <3> QED
      BY <2>3, <3>1, <3>2
  <2>5. ASSUME \/ \E b \in Account, req \in Request, q \in Quote : Place(b, req, q)
               \/ VisitOrder
        PROVE  Goal
    <3>1. Request \subseteq OrderRequest /\ Quote \subseteq View
      BY RequestAssumption, QuoteAssumption DEF OrderRequest, View
    <3>2. \/ \E b \in Account, req \in OrderRequest, q \in View : Place(b, req, q)
          \/ VisitOrder
      BY <2>5, <3>1
    <3>3. CASE UNCHANGED <<accounts, trades>>
      BY <2>3, <3>3
    <3>4. ASSUME NEW o \in Order, NEW price \in Nat, NEW i \in Nat, Proper(o),
                 ~Refuses(accounts[o.account], o, price),
                 accounts' = [accounts EXCEPT ![o.account] = Filled(@, o, price)],
                 trades' = Append(trades, TradeOf(i, o, price))
          PROVE  Goal
      <4> DEFINE e == TradeOf(i, o, price)
      <4>1. /\ o.account \in Account /\ o.symbol \in Symbol /\ o.side \in {"buy", "sell"}
            /\ o.qty \in Nat \ {0}
        BY <3>4 DEF Order, Proper
      <4>2. /\ e \in Trade /\ e.account = o.account /\ e.symbol = o.symbol /\ e.side = o.side
            /\ e.qty = o.qty
        BY <4>1 DEF TradeOf, Trade, Side
      <4> HIDE DEF e
      <4>3. price \in Nat \ {0} /\ accounts[o.account] \in AccountState
        BY <2>1, <3>4, <4>1 DEF Refuses
      <4>4. /\ \A z \in Symbol : z # o.symbol =>
                 accounts'[o.account].positions[z] = accounts[o.account].positions[z]
            /\ accounts'[o.account].positions[o.symbol].qty =
                 IF o.side = "buy" THEN accounts[o.account].positions[o.symbol].qty + o.qty
                 ELSE accounts[o.account].positions[o.symbol].qty - o.qty
        BY <2>1, <3>4, <4>1, <4>3, Filling
      <4>5. /\ bought \in Int /\ sold \in Int
            /\ bought' = bought + (IF o.account = a /\ o.symbol = s /\ o.side = "buy" THEN o.qty ELSE 0)
            /\ sold' = sold + (IF o.account = a /\ o.symbol = s /\ o.side = "sell" THEN o.qty ELSE 0)
        <5>1. trades' = Append(trades, e)
          BY <3>4 DEF e
        <5>2. \A side : TradedQty(a, s, side)' = Total(Traded(Append(trades, e), a, s, side))
          BY <5>1 DEF TradedQty, Traded
        <5> QED
          BY <1>1, <2>1, <4>2, <5>2, TradedAppend
      <4> HIDE DEF bought, sold
      <4>6. CASE o.account # a
        <5>1. accounts'[a] = accounts[a]
          BY <2>1, <3>4, <4>6
        <5> QED
          BY <2>2, <4>5, <4>6, <5>1
      <4>7. CASE o.account = a /\ o.symbol # s
        <5>1. accounts'[a].positions[s] = accounts[a].positions[s]
          BY <4>4, <4>7
        <5> QED
          BY <2>2, <4>5, <4>7, <5>1
      <4>8. CASE o.account = a /\ o.symbol = s
        <5>1. accounts[a].positions[s].qty \in Int
          BY <2>2, <4>5
        <5>2. CASE o.side = "buy"
          BY <2>2, <4>1, <4>4, <4>5, <4>8, <5>1, <5>2
        <5>3. CASE o.side = "sell"
          BY <2>2, <4>1, <4>4, <4>5, <4>8, <5>1, <5>3
        <5> QED
          BY <4>1, <5>2, <5>3
      <4> QED
        BY <4>6, <4>7, <4>8
    <3> QED
      BY <2>1, <3>2, <3>3, <3>4, FillsOnlyFunded
  <2>6. CASE UNCHANGED <<accounts, trades>>
    BY <2>3, <2>6
  <2>7. ASSUME \/ \E i \in 1..Len(orders) : Cancel(i)
               \/ \E q \in Quote : BeginQuote(q)
               \/ EndQuote \/ UNCHANGED vars
        PROVE  UNCHANGED <<accounts, trades>>
    BY <2>7 DEF Cancel, BeginQuote, EndQuote, vars
  <2> QED
    BY <2>4, <2>5, <2>6, <2>7 DEF Next
<1> QED
  BY <1>2, <1>3, PaperInvariance, PTL DEF Spec

\* The summands of a cost basis.
Holding(acc, s) == Times(acc.positions[s].qty, acc.positions[s].avg)

\* An average price times a quantity is a fraction.
LEMMA HoldingFraction ==
  ASSUME NEW acc \in AccountState, NEW s \in Symbol
  PROVE  Holding(acc, s) \in Fraction
<1>1. acc.positions[s].qty \in Int /\ acc.positions[s].avg \in Fraction
  BY DEF AccountState, Position
<1> QED
  BY <1>1, Fractions DEF Holding

\* The element FoldSet takes out of S.
Picked(S) == CHOOSE x \in S : TRUE

\* The cost of the positions in every set of symbols, summed in the order FoldSet picks them.
Costs(acc, f) ==
  f = [S \in SUBSET Symbol |-> IF S = {} THEN <<0, 1>> ELSE Add(f[S \ {Picked(S)}], Holding(acc, Picked(S)))]

\* CostBasis: such a sum exists and is a fraction.
LEMMA CostsExist ==
  ASSUME NEW acc \in AccountState
  PROVE  \E f \in [SUBSET Symbol -> Fraction] : Costs(acc, f) /\ CostBasis(acc) = f[Symbol]
<1> DEFINE pick == [S \in SUBSET Symbol |-> Picked(S)]
           step == [p \in Fraction \X Symbol |-> Add(p[1], Holding(acc, p[2]))]
           iter == CHOOSE f : Costs(acc, f)
<1>1. \A s \in Symbol : Holding(acc, s) \in Fraction
  BY HoldingFraction
<1>2. step \in [Fraction \X Symbol -> Fraction]
  BY <1>1, Fractions
<1>3. Picks(Symbol, pick)
  BY DEF Picked, Picks
<1>4. <<0, 1>> \in Fraction
  BY Fractions
<1> HIDE DEF step
<1>5. PICK f \in [SUBSET Symbol -> Fraction] : IsFold(Symbol, <<0, 1>>, pick, step, f)
  <2> HIDE DEF pick
  <2> QED
    BY <1>2, <1>3, <1>4, FoldsExist, SymbolAssumption
<1>6. Costs(acc, f)
  <2> SUFFICES ASSUME NEW S \in SUBSET Symbol, S # {}
               PROVE  f[S] = Add(f[S \ {Picked(S)}], Holding(acc, Picked(S)))
    BY <1>5 DEF Costs, IsFold
  <2>1. pick[S] = Picked(S) /\ Picked(S) \in Symbol /\ f[S \ {Picked(S)}] \in Fraction
    BY DEF Picked
  <2> QED
    BY <1>5, <2>1 DEF step, IsFold
<1>7. Costs(acc, iter)
  BY <1>6
<1>8. CostBasis(acc) = iter[Symbol]
  BY DEF CostBasis, FoldSet, MapThenFoldSet, Costs, Holding, Picked
<1>9. iter \in [SUBSET Symbol -> Fraction]
  <2> DEFINE Good == {S \in SUBSET Symbol : iter[S] \in Fraction}
  <2>1. {} \in Good
    BY <1>4, <1>7 DEF Costs
  <2>2. ASSUME NEW S \in SUBSET Symbol, S # {}, S \ {Picked(S)} \in Good
        PROVE  S \in Good
    <3>1. Picked(S) \in Symbol /\ iter[S] = Add(iter[S \ {Picked(S)}], Holding(acc, Picked(S)))
      BY <1>7, <2>2 DEF Costs, Picked
    <3> QED
      BY <1>1, <2>2, <3>1, Fractions
  <2>3. Grows(Symbol, pick, Good)
    BY <2>1, <2>2 DEF Grows, Picked
  <2> HIDE DEF Good, pick
  <2>4. SUBSET Symbol \subseteq Good
    BY <2>3, SubsetsAll, SymbolAssumption
  <2> QED
    BY <1>7, <2>4 DEF Good, Costs
<1> HIDE DEF iter
<1> QED
  BY <1>7, <1>8, <1>9

\* Equal differences stay equal when the same fraction is added, or when it is
\* what they are added to.
LEMMA EqualAdds ==
  ASSUME NEW x \in Fraction, NEW y \in Fraction, NEW z \in Fraction, NEW delta \in Fraction
  PROVE  /\ Equal(y, Add(x, delta)) => Equal(Add(z, y), Add(Add(z, x), delta))
         /\ Equal(y, Add(x, delta)) => Equal(Add(y, z), Add(Add(x, z), delta))
<1>1. \A w \in Fraction : \E n \in Int, d \in Nat \ {0} : w = <<n, d>>
  BY DEF Fraction
<1>2. PICK a \in Int, b \in Nat \ {0} : x = <<a, b>>
  BY <1>1
<1>3. PICK c \in Int, d \in Nat \ {0} : y = <<c, d>>
  BY <1>1
<1>4. PICK e \in Int, f \in Nat \ {0} : z = <<e, f>>
  BY <1>1
<1>5. PICK u \in Int, v \in Nat \ {0} : delta = <<u, v>>
  BY <1>1
<1>6. SUFFICES ASSUME Equal(y, Add(x, delta))
               PROVE  /\ Equal(Add(z, y), Add(Add(z, x), delta))
                      /\ Equal(Add(y, z), Add(Add(x, z), delta))
  OBVIOUS
<1>7. c * (b * v) = (a * v + u * b) * d
  BY <1>2, <1>3, <1>5, <1>6 DEF Equal, Add
<1>8. /\ (e * d + c * f) * (f * b * v) = f * d * (e * b * v) + f * f * (c * (b * v))
      /\ ((e * b + a * f) * v + u * (f * b)) * (f * d) = f * d * (e * b * v) + f * f * ((a * v + u * b) * d)
  OBVIOUS
<1>9. (e * d + c * f) * (f * b * v) = ((e * b + a * f) * v + u * (f * b)) * (f * d)
  BY <1>7, <1>8
<1>10. Equal(Add(z, y), Add(Add(z, x), delta))
  BY <1>2, <1>3, <1>4, <1>5, <1>9 DEF Equal, Add
<1>11. /\ (c * f + e * d) * (b * f * v) = f * d * (e * b * v) + f * f * (c * (b * v))
       /\ ((a * f + e * b) * v + u * (b * f)) * (d * f) = f * d * (e * b * v) + f * f * ((a * v + u * b) * d)
  OBVIOUS
<1>12. Equal(Add(y, z), Add(Add(x, z), delta))
  BY <1>2, <1>3, <1>4, <1>5, <1>7, <1>11 DEF Equal, Add
<1> QED
  BY <1>10, <1>12

\* CostBasis: one position that costs delta more makes the account cost delta more.
LEMMA CostChanges ==
  ASSUME NEW acc \in AccountState, NEW new \in AccountState, NEW s \in Symbol,
         NEW delta \in Fraction,
         \A z \in Symbol : z # s => new.positions[z] = acc.positions[z],
         Equal(Holding(new, s), Add(Holding(acc, s), delta))
  PROVE  Equal(CostBasis(new), Add(CostBasis(acc), delta))
<1>1. PICK f \in [SUBSET Symbol -> Fraction] : Costs(acc, f) /\ CostBasis(acc) = f[Symbol]
  BY CostsExist
<1>2. PICK g \in [SUBSET Symbol -> Fraction] : Costs(new, g) /\ CostBasis(new) = g[Symbol]
  BY CostsExist
<1>3. \A z \in Symbol : Holding(acc, z) \in Fraction /\ Holding(new, z) \in Fraction
  BY HoldingFraction
<1> DEFINE pick == [S \in SUBSET Symbol |-> Picked(S)]
           Good == {S \in SUBSET Symbol :
                      IF s \in S THEN Equal(g[S], Add(f[S], delta)) ELSE g[S] = f[S]}
<1>4. {} \in Good
  BY <1>1, <1>2 DEF Costs
<1>5. ASSUME NEW S \in SUBSET Symbol, S # {}, S \ {Picked(S)} \in Good
      PROVE  S \in Good
  <2> DEFINE x == Picked(S)
             T == S \ {x}
  <2>1. /\ x \in S /\ x \in Symbol /\ T \in SUBSET Symbol
        /\ f[S] = Add(f[T], Holding(acc, x)) /\ g[S] = Add(g[T], Holding(new, x))
    BY <1>1, <1>2, <1>5 DEF Costs, Picked
  <2>2. /\ f[T] \in Fraction /\ g[T] \in Fraction
        /\ Holding(acc, x) \in Fraction /\ Holding(new, x) \in Fraction
    BY <1>3, <2>1
  <2>3. IF s \in T THEN Equal(g[T], Add(f[T], delta)) ELSE g[T] = f[T]
    BY <1>5
  <2>4. s \in T <=> s \in S /\ x # s
    OBVIOUS
  <2>5. x # s => Holding(new, x) = Holding(acc, x)
    BY <2>1 DEF Holding
  <2> HIDE DEF x, T
  <2>6. CASE s \notin S
    <3>1. g[S] = f[S]
      BY <2>1, <2>3, <2>4, <2>5, <2>6
    <3> QED
      BY <2>6, <3>1
  <2>7. CASE s \in S /\ x # s
    <3>1. Equal(g[S], Add(f[S], delta))
      BY <2>1, <2>2, <2>3, <2>4, <2>5, <2>7, EqualAdds
    <3> QED
      BY <2>7, <3>1
  <2>8. CASE x = s
    <3>1. Equal(g[S], Add(f[S], delta))
      BY <2>1, <2>2, <2>3, <2>4, <2>8, EqualAdds
    <3> QED
      BY <2>1, <2>8, <3>1
  <2> QED
    BY <2>6, <2>7, <2>8
<1>6. Grows(Symbol, pick, Good)
  BY <1>4, <1>5 DEF Grows, Picked
<1> HIDE DEF pick, Good
<1>7. Symbol \in Good
  BY <1>6, SubsetsAll, SymbolAssumption
<1> QED
  BY <1>1, <1>2, <1>7 DEF Good

\* What an account was funded with and earned is its cash, its fees and the cost of what it holds.
Balanced(acc, funded) ==
  Equal(Add(<<acc.cash + acc.fees - funded, 1>>, Times(Unit, CostBasis(acc))), Times(Unit, acc.realized))

\* When the cost of the holdings and the realized profit move, the money that balances them.
LEMMA BalanceMoves ==
  ASSUME NEW cost \in Fraction, NEW cost2 \in Fraction, NEW realized \in Fraction,
         NEW dcost \in Fraction, NEW gain \in Fraction,
         NEW k \in Int, NEW m \in Int,
         Equal(Add(<<k, 1>>, Times(Unit, cost)), Times(Unit, realized)),
         Equal(cost2, Add(cost, dcost)),
         Equal(Add(<<m, 1>>, Times(Unit, dcost)), Times(Unit, gain))
  PROVE  Equal(Add(<<k + m, 1>>, Times(Unit, cost2)), Times(Unit, Add(realized, gain)))
<1>1. \A w \in Fraction : \E n \in Int, d \in Nat \ {0} : w = <<n, d>>
  BY DEF Fraction
<1>2. PICK c \in Int, d \in Nat \ {0} : cost = <<c, d>>
  BY <1>1
<1>3. PICK c2 \in Int, d2 \in Nat \ {0} : cost2 = <<c2, d2>>
  BY <1>1
<1>4. PICK r \in Int, e \in Nat \ {0} : realized = <<r, e>>
  BY <1>1
<1>5. PICK u \in Int, v \in Nat \ {0} : dcost = <<u, v>>
  BY <1>1
<1>6. PICK g \in Int, h \in Nat \ {0} : gain = <<g, h>>
  BY <1>1
<1>7. PICK U \in Int : U = Unit
  BY DEF Unit
<1>8. (k * d + (U * c) * 1) * e = (U * r) * (1 * d)
  BY <1>2, <1>4, <1>7 DEF Equal, Add, Times
<1>9. c2 * (d * v) = (c * v + u * d) * d2
  BY <1>2, <1>3, <1>5 DEF Equal, Add
<1>10. (m * v + (U * u) * 1) * h = (U * g) * (1 * v)
  BY <1>5, <1>6, <1>7 DEF Equal, Add, Times
<1> DEFINE lhs == ((k + m) * d2 + (U * c2) * 1) * (e * h)
           rhs == (U * (r * h + g * e)) * (1 * d2)
<1>11. lhs \in Int /\ rhs \in Int /\ d * v \in Nat \ {0}
  OBVIOUS
<1>12. (d * v) * lhs = (d * v) * rhs
  <2>1. (d * v) * lhs = e * h * (d2 * (d * v * k) + d2 * (d * v * m) + U * (c2 * (d * v)))
    OBVIOUS
  <2>2. (d * v) * lhs = e * h * (d2 * (d * v * k) + d2 * (d * v * m) + U * ((c * v + u * d) * d2))
    BY <1>9, <2>1
  <2>3. e * h * (d2 * (d * v * k) + d2 * (d * v * m) + U * ((c * v + u * d) * d2))
          = d2 * v * h * ((k * d + (U * c) * 1) * e) + d2 * d * e * ((m * v + (U * u) * 1) * h)
    OBVIOUS
  <2>4. (d * v) * rhs = d2 * v * h * ((U * r) * (1 * d)) + d2 * d * e * ((U * g) * (1 * v))
    OBVIOUS
  <2> HIDE DEF lhs, rhs
  <2>5. d2 * v * h * ((k * d + (U * c) * 1) * e) + d2 * d * e * ((m * v + (U * u) * 1) * h)
          = d2 * v * h * ((U * r) * (1 * d)) + d2 * d * e * ((U * g) * (1 * v))
    BY <1>8, <1>10
  <2> QED
    BY <2>2, <2>3, <2>4, <2>5
<1> HIDE DEF lhs, rhs
<1>13. \A a, b \in Int, n \in Nat \ {0} : n * a = n * b => a = b
  OBVIOUS
<1>14. lhs = rhs
  BY <1>11, <1>12, <1>13
<1> QED
  BY <1>3, <1>4, <1>6, <1>7, <1>14 DEF lhs, rhs, Equal, Add, Times

\* executeLocked on a buy: the cash paid besides the fee is what the new lot costs.
LEMMA BuyBalances ==
  ASSUME NEW acc \in AccountState, NEW o \in Order, Proper(o), o.side = "buy",
         NEW price \in Nat \ {0}, ~Refuses(acc, o, price), NEW funded \in Int, Balanced(acc, funded)
  PROVE  Balanced(Filled(acc, o, price), funded)
<1> DEFINE new == Filled(acc, o, price)
           s == o.symbol
<1>1. /\ new \in AccountState /\ s \in Symbol
      /\ \A z \in Symbol : z # s => new.positions[z] = acc.positions[z]
  BY Filling DEF Order
<1>2. PICK q \in Nat \ {0} : q = o.qty
  BY DEF Order, Proper
<1>3. PICK held \in Nat : held = acc.positions[s].qty
  BY <1>1 DEF AccountState, Position
<1>4. PICK n \in Int, d \in Nat \ {0} : acc.positions[s].avg = <<n, d>>
  <2>1. acc.positions[s].avg \in Fraction
    BY <1>1 DEF AccountState, Position
  <2> QED
    BY <2>1 DEF Fraction
<1>5. PICK w \in Int : w = price * q
  OBVIOUS
<1>6. /\ new.cash + new.fees = acc.cash + acc.fees - w * Unit
      /\ new.realized = acc.realized
      /\ new.positions[s] = [qty |-> held + q, avg |-> AvgPrice(acc.positions[s], o, price)]
  <2>1. new = Bought(acc, o, price)
    BY DEF Filled
  <2>2. /\ new.cash = acc.cash - (Turnover(o, price) + Fee(o, price))
        /\ new.fees = acc.fees + Fee(o, price)
        /\ new.realized = acc.realized
        /\ new.positions[s] = [qty |-> held + q, avg |-> AvgPrice(acc.positions[s], o, price)]
    BY <1>1, <1>2, <1>3, <2>1 DEF Bought, AccountState
  <2>3. PICK fee \in Int : fee = Fee(o, price)
    BY <1>2, FeeAssumption DEF Fee
  <2>4. Turnover(o, price) = w * Unit /\ w * Unit \in Int
    BY <1>2, <1>5 DEF Turnover, Unit
  <2>5. acc.cash \in Int /\ acc.fees \in Int
    BY DEF AccountState
  <2> HIDE DEF new
  <2> QED
    BY <2>2, <2>3, <2>4, <2>5
<1> HIDE DEF new, s
<1>7. Holding(acc, s) = <<held * n, d>> /\ Holding(acc, s) \in Fraction
  BY <1>1, <1>3, <1>4, HoldingFraction DEF Holding, Times
<1>8. Holding(new, s) = <<(held + q) * ((held * n) * 1 + w * d), (d * 1) * (held + q)>>
  BY <1>2, <1>3, <1>4, <1>5, <1>6 DEF Holding, Times, AvgPrice, Over, Add
<1>9. Equal(Holding(new, s), Add(Holding(acc, s), <<w, 1>>))
  <2>1. ((held + q) * ((held * n) * 1 + w * d)) * (d * 1)
          = ((held * n) * 1 + w * d) * ((d * 1) * (held + q))
    OBVIOUS
  <2> QED
    BY <1>7, <1>8, <2>1 DEF Equal, Add
<1>10. <<w, 1>> \in Fraction /\ <<0, 1>> \in Fraction
  BY Fractions
<1>11. Equal(CostBasis(new), Add(CostBasis(acc), <<w, 1>>))
  BY <1>1, <1>9, <1>10, CostChanges
<1>12. CostBasis(acc) \in Fraction /\ CostBasis(new) \in Fraction
  BY <1>1, CostsExist
<1>13. acc.realized \in Fraction /\ Add(acc.realized, <<0, 1>>) = acc.realized
  <2>1. PICK r \in Int, e \in Nat \ {0} : acc.realized = <<r, e>>
    BY DEF AccountState, Fraction
  <2> QED
    BY <2>1 DEF Add, AccountState
<1>14. Equal(Add(<<-(w * Unit), 1>>, Times(Unit, <<w, 1>>)), Times(Unit, <<0, 1>>))
  BY DEF Equal, Add, Times, Unit
<1>15. PICK k \in Int : k = acc.cash + acc.fees - funded
  BY DEF AccountState
<1>16. new.cash + new.fees - funded = k + (-(w * Unit)) /\ -(w * Unit) \in Int
  <2>1. Unit \in Int /\ w * Unit \in Int
    BY DEF Unit
  <2>2. acc.cash \in Int /\ acc.fees \in Int /\ new.cash \in Int /\ new.fees \in Int
    BY <1>1 DEF AccountState
  <2> QED
    BY <1>6, <1>15, <2>1, <2>2
<1>17. Equal(Add(<<k, 1>>, Times(Unit, CostBasis(acc))), Times(Unit, acc.realized))
  BY <1>15 DEF Balanced
<1>18. Equal(Add(<<k + (-(w * Unit)), 1>>, Times(Unit, CostBasis(new))),
             Times(Unit, Add(acc.realized, <<0, 1>>)))
  BY <1>10, <1>11, <1>12, <1>13, <1>14, <1>16, <1>17, BalanceMoves
<1> QED
  BY <1>6, <1>13, <1>16, <1>18 DEF Balanced, new

\* executeLocked on a sell: what comes in besides the fee is the cost of the lot and the profit on it.
LEMMA SellBalances ==
  ASSUME NEW acc \in AccountState, NEW o \in Order, Proper(o), o.side = "sell",
         NEW price \in Nat \ {0}, ~Refuses(acc, o, price), NEW funded \in Int, Balanced(acc, funded)
  PROVE  Balanced(Filled(acc, o, price), funded)
<1> DEFINE new == Filled(acc, o, price)
           s == o.symbol
<1>1. /\ new \in AccountState /\ s \in Symbol
      /\ \A z \in Symbol : z # s => new.positions[z] = acc.positions[z]
  BY Filling DEF Order
<1>2. PICK q \in Nat \ {0} : q = o.qty
  BY DEF Order, Proper
<1>3. PICK held \in Nat : held = acc.positions[s].qty
  BY <1>1 DEF AccountState, Position
<1>4. PICK n \in Int, d \in Nat \ {0} : acc.positions[s].avg = <<n, d>>
  <2>1. acc.positions[s].avg \in Fraction
    BY <1>1 DEF AccountState, Position
  <2> QED
    BY <2>1 DEF Fraction
<1>5. PICK w \in Int : w = price * q
  OBVIOUS
<1> DEFINE gain == Times(q, Add(<<price, 1>>, Times(-1, <<n, d>>)))
<1>6. /\ new.cash + new.fees = acc.cash + acc.fees + w * Unit
      /\ new.realized = Add(acc.realized, gain)
      /\ new.positions[s] = IF held - q = 0 THEN NoPosition ELSE [qty |-> held - q, avg |-> <<n, d>>]
  <2>1. new = Sold(acc, o, price)
    BY DEF Filled
  <2>2. /\ new.cash = acc.cash + (Turnover(o, price) - Fee(o, price))
        /\ new.fees = acc.fees + Fee(o, price)
        /\ new.realized = Add(acc.realized, gain)
        /\ new.positions[s] = IF held - q = 0 THEN NoPosition ELSE [qty |-> held - q, avg |-> <<n, d>>]
    BY <1>1, <1>2, <1>3, <1>4, <2>1 DEF Sold, AccountState
  <2>3. PICK fee \in Int : fee = Fee(o, price)
    BY <1>2, FeeAssumption DEF Fee
  <2>4. Turnover(o, price) = w * Unit /\ w * Unit \in Int
    BY <1>2, <1>5 DEF Turnover, Unit
  <2>5. acc.cash \in Int /\ acc.fees \in Int
    BY DEF AccountState
  <2> HIDE DEF new, gain
  <2> QED
    BY <2>2, <2>3, <2>4, <2>5
<1> HIDE DEF new, s
<1>7. Holding(acc, s) = <<held * n, d>> /\ Holding(acc, s) \in Fraction
  BY <1>1, <1>3, <1>4, HoldingFraction DEF Holding, Times
<1>8. Holding(new, s) = IF held - q = 0 THEN <<0, 1>> ELSE <<(held - q) * n, d>>
  BY <1>6 DEF Holding, Times, NoPosition
<1>9. Equal(Holding(new, s), Add(Holding(acc, s), <<-(q * n), d>>))
  <2>1. CASE held - q = 0
    <3>1. held = q
      BY <2>1
    <3>2. 0 * (d * d) = ((held * n) * d + (-(q * n)) * d) * 1
      BY <3>1
    <3> QED
      BY <1>7, <1>8, <2>1, <3>2 DEF Equal, Add
  <2>2. CASE held - q # 0
    <3>1. ((held - q) * n) * (d * d) = ((held * n) * d + (-(q * n)) * d) * d
      OBVIOUS
    <3> QED
      BY <1>7, <1>8, <2>2, <3>1 DEF Equal, Add
  <2> QED
    BY <2>1, <2>2
<1>10. <<-(q * n), d>> \in Fraction /\ gain \in Fraction
  <2>1. -(q * n) \in Int /\ -1 \in Int /\ q \in Int /\ price \in Int
    OBVIOUS
  <2>2. <<-(q * n), d>> \in Fraction /\ <<n, d>> \in Fraction
    BY <2>1 DEF Fraction
  <2> QED
    BY <2>1, <2>2, Fractions
<1>11. Equal(CostBasis(new), Add(CostBasis(acc), <<-(q * n), d>>))
  BY <1>1, <1>9, <1>10, CostChanges
<1>12. CostBasis(acc) \in Fraction /\ CostBasis(new) \in Fraction /\ acc.realized \in Fraction
  <2>1. acc.realized \in Fraction
    BY DEF AccountState
  <2> QED
    BY <1>1, <2>1, CostsExist
<1>13. Equal(Add(<<w * Unit, 1>>, Times(Unit, <<-(q * n), d>>)), Times(Unit, gain))
  <2>1. gain = <<q * (price * d + (-1 * n) * 1), 1 * d>>
    BY DEF Times, Add
  <2>2. \A U \in Int : ((w * U) * d + (U * (-(q * n))) * 1) * (1 * d)
                      = (U * (q * (price * d + (-1 * n) * 1))) * (1 * d)
    BY <1>5
  <2> QED
    BY <2>1, <2>2 DEF Equal, Add, Times, Unit
<1>14. PICK k \in Int : k = acc.cash + acc.fees - funded
  BY DEF AccountState
<1>15. new.cash + new.fees - funded = k + w * Unit /\ w * Unit \in Int
  <2>1. Unit \in Int /\ w * Unit \in Int
    BY DEF Unit
  <2>2. acc.cash \in Int /\ acc.fees \in Int /\ new.cash \in Int /\ new.fees \in Int
    BY <1>1 DEF AccountState
  <2> QED
    BY <1>6, <1>14, <2>1, <2>2
<1>16. Equal(Add(<<k, 1>>, Times(Unit, CostBasis(acc))), Times(Unit, acc.realized))
  BY <1>14 DEF Balanced
<1> HIDE DEF gain
<1>17. Equal(Add(<<k + w * Unit, 1>>, Times(Unit, CostBasis(new))), Times(Unit, Add(acc.realized, gain)))
  BY <1>10, <1>11, <1>12, <1>13, <1>15, <1>16, BalanceMoves
<1> QED
  BY <1>6, <1>15, <1>17 DEF Balanced, new

\* CostBasis: the same positions cost the same, and none cost nothing.
LEMMA SameCosts ==
  ASSUME NEW acc \in AccountState, NEW new \in AccountState
  PROVE  /\ new.positions = acc.positions => CostBasis(new) = CostBasis(acc)
         /\ (\A z \in Symbol : acc.positions[z] = NoPosition) => CostBasis(acc) = <<0, 1>>
<1>1. PICK f \in [SUBSET Symbol -> Fraction] : Costs(acc, f) /\ CostBasis(acc) = f[Symbol]
  BY CostsExist
<1>2. PICK g \in [SUBSET Symbol -> Fraction] : Costs(new, g) /\ CostBasis(new) = g[Symbol]
  BY CostsExist
<1> DEFINE pick == [S \in SUBSET Symbol |-> Picked(S)]
<1>3. ASSUME new.positions = acc.positions
      PROVE  g[Symbol] = f[Symbol]
  <2> DEFINE Good == {S \in SUBSET Symbol : g[S] = f[S]}
  <2>1. \A z : Holding(new, z) = Holding(acc, z)
    BY <1>3 DEF Holding
  <2>2. Grows(Symbol, pick, Good)
    <3>1. {} \in Good
      BY <1>1, <1>2 DEF Costs
    <3>2. ASSUME NEW S \in SUBSET Symbol, S # {}
          PROVE  pick[S] \in S /\ (S \ {pick[S]} \in Good => S \in Good)
      <4>1. /\ pick[S] = Picked(S) /\ Picked(S) \in S /\ Picked(S) \in Symbol
            /\ f[S] = Add(f[S \ {Picked(S)}], Holding(acc, Picked(S)))
            /\ g[S] = Add(g[S \ {Picked(S)}], Holding(new, Picked(S)))
        BY <1>1, <1>2, <3>2 DEF Picked, Costs
      <4> QED
        BY <2>1, <4>1
    <3> QED
      BY <3>1, <3>2 DEF Grows
  <2> HIDE DEF Good, pick
  <2>3. Symbol \in Good
    BY <2>2, SubsetsAll, SymbolAssumption
  <2> QED
    BY <2>3 DEF Good
<1>4. ASSUME \A z \in Symbol : acc.positions[z] = NoPosition
      PROVE  f[Symbol] = <<0, 1>>
  <2> DEFINE Good == {S \in SUBSET Symbol : f[S] = <<0, 1>>}
  <2>1. \A z \in Symbol : Holding(acc, z) = <<0, 1>>
    BY <1>4 DEF Holding, NoPosition, Times
  <2>2. Add(<<0, 1>>, <<0, 1>>) = <<0, 1>>
    BY DEF Add
  <2>3. Grows(Symbol, pick, Good)
    <3>1. {} \in Good
      BY <1>1 DEF Costs
    <3>2. ASSUME NEW S \in SUBSET Symbol, S # {}
          PROVE  pick[S] \in S /\ (S \ {pick[S]} \in Good => S \in Good)
      <4>1. /\ pick[S] = Picked(S) /\ Picked(S) \in S /\ Picked(S) \in Symbol
            /\ f[S] = Add(f[S \ {Picked(S)}], Holding(acc, Picked(S)))
        BY <1>1, <3>2 DEF Picked, Costs
      <4> QED
        BY <2>1, <2>2, <4>1
    <3> QED
      BY <3>1, <3>2 DEF Grows
  <2> HIDE DEF Good, pick
  <2>4. Symbol \in Good
    BY <2>3, SubsetsAll, SymbolAssumption
  <2> QED
    BY <2>4 DEF Good
<1> QED
  BY <1>1, <1>2, <1>3, <1>4

\* Allocate: cash that moves with the funding leaves the balance.
LEMMA CashBalances ==
  ASSUME NEW acc \in AccountState, NEW funded \in Int, NEW x \in Int, NEW cash,
         cash = acc.cash + x, Balanced(acc, funded)
  PROVE  Balanced([acc EXCEPT !.cash = cash], funded + x)
<1> DEFINE new == [acc EXCEPT !.cash = cash]
<1>1. acc.cash \in Int /\ acc.fees \in Int
  BY DEF AccountState
<1>2. new \in AccountState
  BY <1>1 DEF AccountState
<1>3. /\ new.cash = acc.cash + x /\ new.fees = acc.fees /\ new.positions = acc.positions
      /\ new.realized = acc.realized
  BY DEF AccountState
<1> HIDE DEF new
<1>4. new.cash + new.fees - (funded + x) = acc.cash + acc.fees - funded
  BY <1>1, <1>3
<1>5. CostBasis(new) = CostBasis(acc)
  BY <1>2, <1>3, SameCosts
<1>6. Balanced(new, funded + x)
  BY <1>3, <1>4, <1>5 DEF Balanced
<1> QED
  BY <1>6 DEF new

\* What an account was funded with.
Funded(a) == (IF a = Main THEN InitialCash ELSE 0) + allocated[a]

\* Allocate, Place and OnQuote: money is conserved on every account, to the last fraction.
THEOREM MoneyConserved == Spec => []AccountsBalance
<1>1. AccountsBalance <=> \A a \in Account : Balanced(accounts[a], Funded(a))
  BY DEF AccountsBalance, Balanced, Funded
<1>2. Init => AccountsBalance
  <2> SUFFICES ASSUME Init, NEW a \in Account
               PROVE  Balanced(accounts[a], Funded(a))
    BY <1>1
  <2>1. PaperInv
    BY PaperStarts
  <2>2. accounts[a] \in AccountState
    BY <2>1 DEF PaperInv, TypeOK
  <2>3. /\ accounts[a].cash = IF a = Main THEN InitialCash ELSE 0
        /\ accounts[a].fees = 0 /\ accounts[a].realized = <<0, 1>>
        /\ \A z \in Symbol : accounts[a].positions[z] = NoPosition
    BY DEF Init, EmptyAccount
  <2>4. Funded(a) = accounts[a].cash
    BY <2>3, CashAssumption DEF Init, Funded
  <2>5. CostBasis(accounts[a]) = <<0, 1>>
    BY <2>2, <2>3, SameCosts
  <2>6. accounts[a].cash + accounts[a].fees - Funded(a) = 0
    BY <2>3, <2>4, CashAssumption
  <2> QED
    BY <2>3, <2>5, <2>6 DEF Balanced, Equal, Add, Times, Unit
<1>3. PaperInv /\ AccountsBalance /\ [Next]_vars => AccountsBalance'
  <2> SUFFICES ASSUME PaperInv, AccountsBalance, [Next]_vars, NEW a \in Account
               PROVE  Balanced(accounts'[a], Funded(a)')
    BY DEF AccountsBalance, Balanced, Funded
  <2>1. /\ TypeOK /\ cursor # 0 /\ Rests
        /\ accounts \in [Account -> AccountState] /\ allocated \in [Account -> Int]
    BY DEF PaperInv, TypeOK
  <2>2. Balanced(accounts[a], Funded(a)) /\ Funded(a) \in Int /\ accounts[a] \in AccountState
    BY <1>1, <2>1, CashAssumption DEF Funded
  <2>3. ASSUME accounts'[a] = accounts[a], allocated'[a] = allocated[a]
        PROVE  Balanced(accounts'[a], Funded(a)')
    BY <2>2, <2>3 DEF Funded
  <2>4. ASSUME NEW b \in SubAccount, NEW amount \in Amount, Allocate(b, amount)
        PROVE  Balanced(accounts'[a], Funded(a)')
    <3>1. b \in Account /\ Main \in Account /\ b # Main /\ amount \in Int
      BY <2>4, AmountAssumption DEF Allocate, Account
    <3>2. accounts[Main].cash \in Int /\ accounts[b].cash \in Int
      BY <2>1, <3>1 DEF AccountState
    <3>3. /\ accounts' = [accounts EXCEPT
                ![Main] = [accounts[Main] EXCEPT !.cash = accounts[Main].cash - amount],
                ![b] = [accounts[b] EXCEPT !.cash = accounts[b].cash + amount]]
          /\ allocated' = [allocated EXCEPT ![Main] = allocated[Main] - amount,
                                            ![b] = allocated[b] + amount]
      BY <2>1, <2>4, <3>1 DEF Allocate
    <3>4. CASE a # Main /\ a # b
      BY <2>1, <2>3, <3>1, <3>3, <3>4
    <3>5. CASE a = Main
      <4> DEFINE cash == accounts[Main].cash - amount
      <4>1. accounts'[a] = [accounts[a] EXCEPT !.cash = cash] /\ allocated'[a] = allocated[a] - amount
        BY <2>1, <3>1, <3>3, <3>5
      <4>2. cash = accounts[a].cash + (-amount) /\ -amount \in Int
        BY <3>1, <3>2, <3>5
      <4>3. Funded(a)' = Funded(a) + (-amount)
        BY <2>1, <3>1, <4>1, CashAssumption DEF Funded
      <4> HIDE DEF cash
      <4> QED
        BY <2>2, <4>1, <4>2, <4>3, CashBalances
    <3>6. CASE a = b
      <4> DEFINE cash == accounts[b].cash + amount
      <4>1. accounts'[a] = [accounts[a] EXCEPT !.cash = cash] /\ allocated'[a] = allocated[a] + amount
        BY <2>1, <3>1, <3>3, <3>6
      <4>2. cash = accounts[a].cash + amount
        BY <3>6
      <4>3. Funded(a)' = Funded(a) + amount
        BY <2>1, <3>1, <4>1, CashAssumption DEF Funded
      <4> HIDE DEF cash
      <4> QED
        BY <2>2, <3>1, <4>1, <4>2, <4>3, CashBalances
    <3> QED
      BY <3>4, <3>5, <3>6
  <2>5. ASSUME \/ \E b \in Account, req \in Request, q \in Quote : Place(b, req, q)
               \/ VisitOrder
        PROVE  Balanced(accounts'[a], Funded(a)')
    <3>1. Request \subseteq OrderRequest /\ Quote \subseteq View
      BY RequestAssumption, QuoteAssumption DEF OrderRequest, View
    <3>2. \/ \E b \in Account, req \in OrderRequest, q \in View : Place(b, req, q)
          \/ VisitOrder
      BY <2>5, <3>1
    <3>3. allocated' = allocated
      BY <2>5 DEF Place, PlaceRemembering, VisitOrder
    <3>4. CASE accounts' = accounts
      BY <2>3, <3>3, <3>4
    <3>5. ASSUME NEW o \in Order, NEW price \in Nat, Proper(o),
                 ~Refuses(accounts[o.account], o, price),
                 accounts' = [accounts EXCEPT ![o.account] = Filled(@, o, price)]
          PROVE  Balanced(accounts'[a], Funded(a)')
      <4>1. o.account \in Account /\ price \in Nat \ {0}
        BY <3>5 DEF Order, Refuses
      <4>2. CASE o.account # a
        BY <2>1, <2>3, <3>3, <3>5, <4>1, <4>2
      <4>3. CASE o.account = a
        <5>1. accounts'[a] = Filled(accounts[a], o, price) /\ ~Refuses(accounts[a], o, price)
          BY <2>1, <3>5, <4>1, <4>3
        <5>2. Balanced(Filled(accounts[a], o, price), Funded(a))
          BY <2>2, <3>5, <4>1, <5>1, BuyBalances, SellBalances DEF Proper
        <5>3. Funded(a)' = Funded(a)
          BY <3>3 DEF Funded
        <5> QED
          BY <5>1, <5>2, <5>3
      <4> QED
        BY <4>2, <4>3
    <3> QED
      BY <2>1, <3>2, <3>4, <3>5, FillsOnlyFunded
  <2>6. ASSUME UNCHANGED <<accounts, allocated>>
        PROVE  Balanced(accounts'[a], Funded(a)')
    BY <2>3, <2>6
  <2>7. ASSUME \/ \E i \in 1..Len(orders) : Cancel(i)
               \/ \E q \in Quote : BeginQuote(q)
               \/ EndQuote \/ UNCHANGED vars
        PROVE  UNCHANGED <<accounts, allocated>>
    BY <2>7 DEF Cancel, BeginQuote, EndQuote, vars
  <2> QED
    BY <2>4, <2>5, <2>6, <2>7 DEF Next
<1> QED
  BY <1>2, <1>3, PaperInvariance, PTL DEF Spec

\* The broker's books: quantities, money and orders agree, and no account is overdrawn, if the
\* commission is at most the turnover.
THEOREM BooksAgree ==
  ASSUME FeeBps <= Unit
  PROVE  Spec => []BooksBalance
<1>1. PositionsMatchTrades /\ AccountsBalance /\ FilledOnce /\ Solvent => BooksBalance
  BY DEF BooksBalance
<1> QED
  BY <1>1, QuantitiesMatch, MoneyConserved, FillsOnce, NeverOverdrawn, PTL

=============================================================================
