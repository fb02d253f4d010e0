---------------------------- MODULE TxnBookProofs ----------------------------
(***************************************************************************)
(* What the operators on the book of a transaction do, for books of any    *)
(* size: which groups a close order marks and with how many lots, how the  *)
(* lots that were closed are booked on them, and how they leave the slots. *)
(***************************************************************************)
EXTENDS TxnBook, SequenceTheorems, SumTheorems, TLAPS

Groups == [type : {"NORMAL", "LOCK"}, quantity : Nat, filled : Nat, close : Nat, closing : Nat,
           slot : Nat]

(* Lots of the groups of a set that are being closed.                      *)
ClosingIn(grp, S) == SumFunction([g \in S |-> grp[g].closing])

(* A group with n of its lots being closed; with n more of them closed.    *)
WithClosing(g, n) == [g EXCEPT !.closing = n]
MoreClosed(g, n)  == [g EXCEPT !.close = @ + n, !.closing = 0]

(* A group with its lots written anew.                                     *)
LEMMA WrittenGroup ==
    ASSUME NEW g \in Groups, NEW x \in Nat, NEW y \in Nat
    PROVE  /\ [g EXCEPT !.close = x, !.closing = y] \in Groups
           /\ [g EXCEPT !.close = x, !.closing = y].filled = g.filled
           /\ [g EXCEPT !.close = x, !.closing = y].close = x
           /\ [g EXCEPT !.close = x, !.closing = y].closing = y
  BY DEF Groups

(* A set of indices with every smaller one is an initial segment.          *)
LEMMA InitialSegment ==
    ASSUME NEW n \in Nat, NEW S \in SUBSET (1..n), \A i \in S : \A j \in 1..(i - 1) : j \in S
    PROVE  Cardinality(S) \in 0..n /\ S = 1..Cardinality(S)
  <1> DEFINE Bounds == {m \in Nat : S \subseteq 1..m}
  <1>1. PICK m \in Bounds : \A k \in Bounds : m <= k
    <2>1. n \in Bounds
      OBVIOUS
    <2>2. Bounds \subseteq Nat
      OBVIOUS
    <2> HIDE DEF Bounds
    <2> QED
      BY <2>1, <2>2, LeastNumber
  <1>2. m = 0 \/ m \in S
    <2> SUFFICES ASSUME m # 0, m \notin S PROVE FALSE
      OBVIOUS
    <2>1. m - 1 \in Bounds
      <3>1. S \subseteq 1..(m - 1)
        OBVIOUS
      <3> QED
        BY <3>1
    <2> QED
      BY <1>1, <2>1
  <1>3. S = 1..m
    <2>1. ASSUME NEW j \in 1..m PROVE j \in S
      <3>1. m \in S
        BY <1>2
      <3>2. CASE j = m
        BY <3>1, <3>2
      <3>3. CASE j # m
        BY <3>1, <3>3
      <3> QED
        BY <3>2, <3>3
    <2>2. S \subseteq 1..m
      BY <1>1
    <2> QED
      BY <2>1, <2>2
  <1>4. m <= n
    BY <1>1
  <1>5. Cardinality(1..m) = m
    BY FS_Interval
  <1> QED
    BY <1>3, <1>4, <1>5

(* Lots handed out first come first served: what the first n get together. *)
LEMMA FirstServed ==
    ASSUME NEW n \in Nat, NEW c, \A i \in 1..n : c[i] \in Nat, NEW lots \in Nat
    PROVE  SumFunctionOnSet([i \in 1..n |-> Clip(lots - SumFunctionOnSet(c, 1..(i - 1)), c[i])], 1..n)
             = Least(lots, SumFunctionOnSet(c, 1..n))
  <1> DEFINE given == [i \in 1..n |-> Clip(lots - SumFunctionOnSet(c, 1..(i - 1)), c[i])]
             Bad   == {k \in 0..n : SumFunctionOnSet(given, 1..k) # Least(lots, SumFunctionOnSet(c, 1..k))}
  <1>1. \A k \in 0..n : SumFunctionOnSet(c, 1..k) \in Nat
    <2> TAKE k \in 0..n
    <2>1. \A i \in 1..k : c[i] \in Nat
      OBVIOUS
    <2>2. IsFiniteSet(1..k)
      BY FS_Interval
    <2> QED
      BY <2>1, <2>2, SumIsNat
  <1>2. \A i \in 1..n : given[i] \in Int
    <2> TAKE i \in 1..n
    <2>1. i - 1 \in 0..n
      OBVIOUS
    <2>2. SumFunctionOnSet(c, 1..(i - 1)) \in Nat /\ c[i] \in Nat
      BY <1>1, <2>1
    <2> QED
      BY <2>2 DEF Clip, Least
  <1>3. Bad = {}
    <2> SUFFICES ASSUME Bad # {} PROVE FALSE
      OBVIOUS
    <2>1. PICK k \in Bad : \A j \in Bad : k <= j
      <3>1. Bad \subseteq Nat
        OBVIOUS
      <3> HIDE DEF Bad
      <3> QED
        BY <3>1, LeastNumber
    <2>2. k # 0
      <3>1. 1..0 = {}
        OBVIOUS
      <3>2. SumFunctionOnSet(given, {}) = 0 /\ SumFunctionOnSet(c, {}) = 0
        BY SumOfNone
      <3> QED
        BY <3>1, <3>2, <2>1 DEF Least
    <2> DEFINE p == k - 1
    <2>3. p \in 0..n /\ k = p + 1 /\ p \notin Bad /\ k \in 1..n
      BY <2>1, <2>2
    <2>4. SumFunctionOnSet(given, 1..p) = Least(lots, SumFunctionOnSet(c, 1..p))
      BY <2>3
    <2>5. given[k] = Clip(lots - SumFunctionOnSet(c, 1..p), c[k])
      BY <2>3
    <2>6. SumFunctionOnSet(given, 1..k) = SumFunctionOnSet(given, 1..p) + given[k]
      <3>1. \A i \in 1..(p + 1) : given[i] \in Int
        BY <1>2, <2>3
      <3> HIDE DEF given, p
      <3>2. p \in Nat
        BY <2>3
      <3> QED
        BY <3>1, <3>2, <2>3, SumOfNext
    <2>7. SumFunctionOnSet(c, 1..k) = SumFunctionOnSet(c, 1..p) + c[k]
      <3>1. \A i \in 1..(p + 1) : c[i] \in Int
        BY <2>3
      <3> HIDE DEF p
      <3>2. p \in Nat
        BY <2>3
      <3> QED
        BY <3>1, <3>2, <2>3, SumOfNext
    <2>8. SumFunctionOnSet(c, 1..p) \in Nat /\ c[k] \in Nat
      BY <1>1, <2>3
    <2>9. SumFunctionOnSet(given, 1..k) = Least(lots, SumFunctionOnSet(c, 1..k))
      <3> HIDE DEF given, p
      <3> QED
        BY <2>4, <2>5, <2>6, <2>7, <2>8 DEF Clip, Least
    <2> QED
      BY <2>1, <2>9
  <1>4. n \in 0..n
    OBVIOUS
  <1> QED
    BY <1>3, <1>4

(* The sum over the elements of a list is that over its places.            *)
LEMMA SumOfPlaces ==
    ASSUME NEW list \in Seq(Keys), IsInjective(list), NEW m \in 0..Len(list),
           NEW f, \A i \in 1..m : f[list[i]] \in Int,
           NEW h, \A i \in 1..m : h[i] = f[list[i]]
    PROVE  /\ SumFunctionOnSet(h, 1..m) = SumFunctionOnSet(f, {list[i] : i \in 1..m})
           /\ IsFiniteSet({list[i] : i \in 1..m})
  <1> DEFINE R == {list[i] : i \in 1..m}
             b == [i \in 1..m |-> list[i]]
  <1>1. b \in Bijection(1..m, R)
    <2>1. b \in [1..m -> R]
      OBVIOUS
    <2>2. \A i, j \in 1..m : b[i] = b[j] => i = j
      BY DEF IsInjective
    <2>3. \A y \in R : \E i \in 1..m : b[i] = y
      OBVIOUS
    <2> HIDE DEF b, R
    <2> QED
      BY <2>1, <2>2, <2>3 DEF Bijection, Injection, Surjection, IsInjective
  <1>2. IsFiniteSet(1..m)
    BY FS_Interval
  <1>3. \A y \in R : f[y] \in Int
    OBVIOUS
  <1>4. \A i \in 1..m : h[i] = f[b[i]]
    OBVIOUS
  <1> HIDE DEF b, R
  <1>5. IsFiniteSet(R)
    BY <1>1, <1>2, FS_Bijection DEF ExistsBijection
  <1>6. SumFunctionOnSet(h, 1..m) = SumFunctionOnSet(f, R)
    BY <1>1, <1>2, <1>3, <1>4, SumReindex
  <1> QED
    BY <1>5, <1>6 DEF R

(* The groups of a list a close order may take lots from.                  *)
Scannable(b, list) ==
    /\ list \in Seq(Keys) /\ IsInjective(list)
    /\ \A i \in 1..Len(list) : /\ b.grp[list[i]] \in Groups
                               /\ Remain(b.grp[list[i]]) > 0
                               /\ b.grp[list[i]].closing = 0

(* A scan looks at the first groups of the list, and takes lots from each. *)
LEMMA ScanTakes ==
    ASSUME NEW b, NEW list, Scannable(b, list), NEW volume \in Nat \ {0}
    PROVE  /\ Cardinality(Scanned(b, list, volume)) \in 0..Len(list)
           /\ Scanned(b, list, volume) = 1..Cardinality(Scanned(b, list, volume))
           /\ Len(list) > 0 => Cardinality(Scanned(b, list, volume)) > 0
           /\ \A i \in Scanned(b, list, volume) :
                 TakenAt(b, list, i, volume) \in 1..Remain(b.grp[list[i]])
  <1> DEFINE S == Scanned(b, list, volume)
             c == Remains(b, list)
  <1>0. Len(list) \in Nat /\ DOMAIN list = 1..Len(list)
    BY DEF Scannable
  <1>1. \A i \in 1..Len(list) : c[i] = Remain(b.grp[list[i]]) /\ c[i] \in Nat \ {0}
    <2> TAKE i \in 1..Len(list)
    <2>1. b.grp[list[i]] \in Groups /\ Remain(b.grp[list[i]]) > 0
      BY DEF Scannable
    <2>2. Remain(b.grp[list[i]]) \in Int
      BY <2>1 DEF Remain, Groups
    <2>3. c[i] = Remain(b.grp[list[i]])
      BY <1>0 DEF Remains
    <2> HIDE DEF c
    <2> QED
      BY <2>1, <2>2, <2>3
  <1>2. \A k \in 0..Len(list) : SumFunctionOnSet(c, 1..k) \in Nat
    <2> TAKE k \in 0..Len(list)
    <2>1. \A i \in 1..k : c[i] \in Nat
      BY <1>0, <1>1
    <2>2. IsFiniteSet(1..k)
      BY FS_Interval
    <2> HIDE DEF c
    <2> QED
      BY <2>1, <2>2, SumIsNat
  <1>3. SumFunctionOnSet(c, 1..0) = 0
    <2>1. 1..0 = {}
      OBVIOUS
    <2> QED
      BY <2>1, SumOfNone
  <1>4. \A i : i \in S <=> i \in 1..Len(list) /\ \A k \in 1..(i - 1) : SumFunctionOnSet(c, 1..k) < volume
    BY <1>0 DEF Scanned
  <1>5. \A i \in 1..Len(list) : TakenAt(b, list, i, volume) = Least(c[i], volume - SumFunctionOnSet(c, 1..(i - 1)))
    BY <1>1 DEF TakenAt
  <1> HIDE DEF S, c
  <1>6. S \in SUBSET (1..Len(list)) /\ \A i \in S : \A j \in 1..(i - 1) : j \in S
    BY <1>0, <1>4
  <1>7. Cardinality(S) \in 0..Len(list) /\ S = 1..Cardinality(S)
    BY <1>0, <1>6, InitialSegment
  <1>8. ASSUME Len(list) > 0 PROVE Cardinality(S) > 0
    <2>1. 1 \in S
      BY <1>0, <1>4, <1>8
    <2> QED
      BY <2>1, <1>7
  <1>9. ASSUME NEW i \in S PROVE Least(c[i], volume - SumFunctionOnSet(c, 1..(i - 1))) \in 1..c[i]
    <2>1. i \in 1..Len(list) /\ c[i] \in Nat \ {0}
      BY <1>1, <1>4
    <2>2. i - 1 \in 0..Len(list)
      BY <2>1, <1>0
    <2>3. SumFunctionOnSet(c, 1..(i - 1)) \in Nat
      BY <1>2, <2>2
    <2>4. SumFunctionOnSet(c, 1..(i - 1)) < volume
      <3>1. CASE i = 1
        <4>1. i - 1 = 0
          BY <3>1
        <4> QED
          BY <1>3, <4>1
      <3>2. CASE i # 1
        <4>1. i - 1 \in 1..(i - 1)
          BY <3>2, <2>1
        <4> QED
          BY <1>4, <4>1
      <3> QED
        BY <3>1, <3>2
    <2> QED
      BY <2>1, <2>3, <2>4 DEF Least
  <1>10. \A i \in S : TakenAt(b, list, i, volume) \in 1..Remain(b.grp[list[i]])
    BY <1>1, <1>4, <1>5, <1>9
  <1> QED
    BY <1>7, <1>8, <1>10 DEF S

(* The close order a scan makes, and the lots it marks on its groups: the  *)
(* order asks for as many lots as are marked, at least one if there is a   *)
(* group, and from no group more than it has.                              *)
LEMMA ScanMarks ==
    ASSUME NEW b, "grp" \in DOMAIN b, b.grp \in [Keys -> Groups \cup {NoGroup}],
           NEW list, Scannable(b, list), NEW volume \in Nat \ {0}, NEW cg, NEW marked,
           NEW type, NEW a, a.grp = b.grp,
           cg = CloseGroup(type, a, list, volume), marked = MarkClosing(b, list, volume).grp
    PROVE  /\ cg.groups \in Seq(Keys) /\ IsInjective(cg.groups) /\ ToSet(cg.groups) \subseteq ToSet(list)
           /\ cg.quantity \in Nat /\ (Len(list) > 0 => cg.quantity > 0)
           /\ marked \in [Keys -> Groups \cup {NoGroup}]
           /\ \A g \in Keys \ ToSet(cg.groups) : marked[g] = b.grp[g]
           /\ \A g \in ToSet(cg.groups) :
                 /\ marked[g] = WithClosing(b.grp[g], marked[g].closing)
                 /\ marked[g].closing \in 1..Remain(b.grp[g])
           /\ ClosingIn(marked, ToSet(cg.groups)) = cg.quantity
  <1> DEFINE S == Scanned(b, list, volume)
             n == Cardinality(S)
             taken == [i \in S |-> TakenAt(b, list, i, volume)]
             G == ToSet(cg.groups)
  <1>0. list \in Seq(Keys) /\ IsInjective(list) /\ Len(list) \in Nat /\ DOMAIN list = 1..Len(list)
        /\ \A i \in 1..Len(list) : b.grp[list[i]] \in Groups /\ Remain(b.grp[list[i]]) > 0
                                   /\ b.grp[list[i]].closing = 0 /\ list[i] \in Keys
    BY DEF Scannable
  <1>1. /\ n \in 0..Len(list) /\ S = 1..n /\ (Len(list) > 0 => n > 0)
        /\ \A i \in S : TakenAt(b, list, i, volume) \in 1..Remain(b.grp[list[i]])
    BY ScanTakes
  <1>2. /\ cg.groups = SubSeq(list, 1, n) /\ cg.quantity = SumFunctionOnSet(taken, S)
    <2>0. Remains(a, list) = Remains(b, list)
      BY DEF Remains
    <2>a. /\ Scanned(a, list, volume) = Scanned(b, list, volume)
          /\ \A i \in Scanned(b, list, volume) : TakenAt(a, list, i, volume) = TakenAt(b, list, i, volume)
      BY <2>0 DEF Scanned, TakenAt
    <2>b. ScannedLots(a, list, volume) = ScannedLots(b, list, volume)
      BY <2>a DEF ScannedLots
    <2>1. cg.groups = SubSeq(list, 1, n) /\ cg.quantity = ScannedLots(b, list, volume)
      BY <2>a, <2>b DEF CloseGroup
    <2>2. ScannedLots(b, list, volume) = SumFunctionOnSet(taken, S)
      BY DEF ScannedLots, SumFunction
    <2> QED
      BY <2>1, <2>2
  <1>3. \A g \in Keys : marked[g] = LET Mine == {i \in S : list[i] = g}
                                    IN  IF Mine = {} THEN b.grp[g]
                                        ELSE [b.grp[g] EXCEPT !.closing =
                                                @ + SumFunctionOnSet([i \in Mine |-> TakenAt(b, list, i, volume)], Mine)]
    BY DEF MarkClosing, SumFunction
  <1>4. marked = [g \in Keys |-> marked[g]]
    BY DEF MarkClosing
  <1>5. \A i \in S : taken[i] = TakenAt(b, list, i, volume)
    OBVIOUS
  <1> HIDE DEF S, n, taken
  <1>6. /\ cg.groups \in Seq(Keys) /\ Len(cg.groups) = n /\ \A i \in 1..n : cg.groups[i] = list[i]
    <2>1. \A i \in 1..n : list[i] \in Keys
      BY <1>0, <1>1
    <2>2. n \in Nat
      BY <1>0, <1>1
    <2> QED
      BY <1>2, <2>1, <2>2, SubSeqProperties
  <1>7. G = {list[i] : i \in S}
    <2>1. DOMAIN cg.groups = 1..n
      BY <1>6
    <2> QED
      BY <1>1, <1>6, <2>1 DEF ToSet
  <1>8. IsInjective(cg.groups)
    <2>1. DOMAIN cg.groups = 1..n /\ 1..n \subseteq DOMAIN list
      BY <1>0, <1>1, <1>6
    <2>2. \A i, j \in DOMAIN list : list[i] = list[j] => i = j
      BY <1>0 DEF IsInjective
    <2> QED
      BY <1>6, <2>1, <2>2 DEF IsInjective
  <1>9. ASSUME NEW i \in S
        PROVE  /\ marked[list[i]] = [b.grp[list[i]] EXCEPT !.closing = taken[i]]
               /\ marked[list[i]].closing = taken[i] /\ marked[list[i]] \in Groups
    <2> DEFINE Mine == {j \in S : list[j] = list[i]}
               one == [j \in Mine |-> TakenAt(b, list, j, volume)]
    <2>1. i \in 1..Len(list) /\ S \subseteq 1..Len(list)
      BY <1>0, <1>1
    <2>2. Mine = {i}
      BY <1>0, <2>1 DEF IsInjective
    <2>3. SumFunctionOnSet(one, {i}) = taken[i]
      <3>1. one[i] = taken[i] /\ taken[i] \in Int
        BY <1>0, <1>1, <1>5, <2>1, <2>2 
      <3>2. \A x \in {i} : one[x] \in Int
        BY <3>1
      <3>3. IsFiniteSet({i}) /\ {i} \ {i} = {}
        BY FS_Singleton
      <3> HIDE DEF one
      <3>4. SumFunctionOnSet(one, {i}) = one[i] + SumFunctionOnSet(one, {i} \ {i})
        BY <3>2, <3>3, SumTakeOut
      <3>5. SumFunctionOnSet(one, {}) = 0
        BY SumOfNone
      <3> QED
        BY <3>1, <3>3, <3>4, <3>5
    <2>4. list[i] \in Keys
      BY <1>0, <2>1
    <2>5. marked[list[i]] = [b.grp[list[i]] EXCEPT !.closing = @ + SumFunctionOnSet(one, Mine)]
      BY <1>3, <2>2, <2>4
    <2>6. marked[list[i]] = [b.grp[list[i]] EXCEPT !.closing = @ + taken[i]]
      BY <2>2, <2>3, <2>5
    <2>7. b.grp[list[i]].closing = 0 /\ b.grp[list[i]] \in Groups
      BY <1>0, <2>1
    <2>8. taken[i] \in Nat
      BY <1>0, <1>1, <1>5, <2>1
    <2> HIDE DEF Mine, one
    <2> QED
      BY <2>6, <2>7, <2>8 DEF Groups
  <1>10. ASSUME NEW g \in Keys \ G PROVE marked[g] = b.grp[g]
    BY <1>3, <1>7
  <1>11. marked \in [Keys -> Groups \cup {NoGroup}]
    <2>1. \A g \in Keys : marked[g] \in Groups \cup {NoGroup}
      BY <1>7, <1>9, <1>10
    <2> QED
      BY <1>4, <2>1
  <1>12. \A i \in S : taken[i] \in Nat \ {0}
    BY <1>0, <1>1, <1>5
  <1>13. IsFiniteSet(S)
    BY <1>1, <1>0, FS_Interval
  <1>14. cg.quantity \in Nat /\ (Len(list) > 0 => cg.quantity > 0)
    <2>1. cg.quantity \in Nat
      BY <1>2, <1>12, <1>13, SumIsNat
    <2>2. ASSUME Len(list) > 0 PROVE cg.quantity > 0
      <3>1. 1 \in S
        BY <1>1, <2>2
      <3>2. SumFunctionOnSet(taken, S) = taken[1] + SumFunctionOnSet(taken, S \ {1})
        BY <1>12, <1>13, <3>1, SumTakeOut
      <3>3. SumFunctionOnSet(taken, S \ {1}) \in Nat
        BY <1>12, <1>13, FS_RemoveElement, SumIsNat
      <3> QED
        BY <1>2, <1>12, <3>1, <3>2, <3>3
    <2> QED
      BY <2>1, <2>2
  <1>15. SumFunction([g \in G |-> marked[g].closing]) = cg.quantity
    <2> DEFINE f == [g \in G |-> marked[g].closing]
    <2>0. \A g \in G : f[g] = marked[g].closing
      OBVIOUS
    <2>1. \A i \in 1..n : f[list[i]] \in Int /\ taken[i] = f[list[i]]
      <3> TAKE i \in 1..n
      <3>1. i \in S /\ list[i] \in G
        BY <1>1, <1>7
      <3> HIDE DEF f, G
      <3>2. f[list[i]] = marked[list[i]].closing
        BY <2>0, <3>1
      <3>3. marked[list[i]].closing = taken[i]
        BY <1>9, <3>1
      <3>4. taken[i] \in Int
        BY <1>12, <3>1
      <3> QED
        BY <3>2, <3>3, <3>4
    <2>2. SumFunction(f) = SumFunctionOnSet(f, G)
      BY DEF SumFunction
    <2> HIDE DEF f, G
    <2>3. SumFunctionOnSet(taken, 1..n) = SumFunctionOnSet(f, {list[i] : i \in 1..n})
      <3>1. list \in Seq(Keys) /\ IsInjective(list) /\ n \in 0..Len(list)
        BY <1>0, <1>1
      <3> QED
        BY <2>1, <3>1, SumOfPlaces
    <2>4. G = {list[i] : i \in 1..n}
      BY <1>1, <1>7
    <2> QED
      BY <1>1, <1>2, <2>2, <2>3, <2>4 DEF f
  <1>16. G \subseteq ToSet(list)
    <2>1. S \subseteq DOMAIN list
      BY <1>0, <1>1
    <2>2. ToSet(list) = {list[i] : i \in DOMAIN list}
      BY DEF ToSet
    <2> HIDE DEF G
    <2> QED
      BY <1>7, <2>1, <2>2
  <1>17. \A g \in G : /\ marked[g] = WithClosing(b.grp[g], marked[g].closing)
                      /\ marked[g].closing \in 1..Remain(b.grp[g])
    <2> SUFFICES ASSUME NEW g \in G
                 PROVE  /\ marked[g] = WithClosing(b.grp[g], marked[g].closing)
                        /\ marked[g].closing \in 1..Remain(b.grp[g])
      OBVIOUS
    <2>1. PICK i \in S : g = list[i]
      BY <1>7
    <2>2. taken[i] \in 1..Remain(b.grp[g])
      BY <1>1, <1>5, <2>1
    <2> HIDE DEF G
    <2> QED
      BY <1>9, <2>1, <2>2 DEF WithClosing
  <1> QED
    BY <1>6, <1>8, <1>10, <1>11, <1>14, <1>15, <1>16, <1>17 DEF ClosingIn

(* n[g] lots of each group of a close order are booked as closed.          *)
LotsBooked(b, cg, n, booked) ==
    /\ \A g \in ToSet(cg.groups) : n[g] <= b.grp[g].closing /\ booked[g] = MoreClosed(b.grp[g], n[g])
    /\ SumFunctionOnSet(n, ToSet(cg.groups)) = Least(cg.filled, ClosingIn(b.grp, ToSet(cg.groups)))
    /\ \A g \in Keys \ ToSet(cg.groups) : booked[g] = b.grp[g]
    /\ booked \in [Keys -> Groups \cup {NoGroup}]

(* What is booked of a close order: every group gets no more than was      *)
(* marked on it, and all of them together what was closed.                 *)
LEMMA ClosedLots ==
    ASSUME NEW b, "grp" \in DOMAIN b, b.grp \in [Keys -> Groups \cup {NoGroup}],
           NEW cg, cg.groups \in Seq(Keys), IsInjective(cg.groups), cg.filled \in Nat,
           \A g \in ToSet(cg.groups) : b.grp[g] \in Groups
    PROVE  \E n \in [ToSet(cg.groups) -> Nat] : LotsBooked(b, cg, n, BookClosed(b, cg).grp)
  <1> DEFINE booked == BookClosed(b, cg).grp
  <1> DEFINE list == cg.groups
             G == ToSet(cg.groups)
             m == Len(list)
             f == [g \in G |-> b.grp[g].closing]
             c == [i \in 1..m |-> b.grp[list[i]].closing]
             given == [i \in 1..m |-> Clip(cg.filled - SumFunctionOnSet(c, 1..(i - 1)), c[i])]
             Ahead(g)  == {list[j] : j \in {j \in DOMAIN list : \A k \in 1..j : list[k] # g}}
             Booked(g) == Clip(cg.filled - SumFunction([h \in Ahead(g) |-> b.grp[h].closing]),
                               b.grp[g].closing)
             n == [g \in G |-> Booked(g)]
  <1>1. list \in Seq(Keys) /\ m \in Nat /\ DOMAIN list = 1..m
    OBVIOUS
  <1>2. G = {list[i] : i \in 1..m} /\ \A i \in 1..m : list[i] \in G /\ list[i] \in Keys
    <2>1. G = {list[i] : i \in 1..m}
      BY <1>1 DEF ToSet
    <2>2. \A i \in 1..m : list[i] \in Keys
      BY <1>1
    <2> QED
      BY <2>1, <2>2
  <1>3. \A g \in G : g \in Keys /\ b.grp[g] \in Groups /\ f[g] = b.grp[g].closing /\ f[g] \in Nat
    <2> SUFFICES ASSUME NEW g \in G
                 PROVE  g \in Keys /\ b.grp[g] \in Groups /\ f[g] = b.grp[g].closing /\ f[g] \in Nat
      OBVIOUS
    <2>1. g \in Keys
      BY <1>2
    <2>2. b.grp[g] \in Groups
      OBVIOUS
    <2>3. f[g] = b.grp[g].closing
      OBVIOUS
    <2>4. b.grp[g].closing \in Nat
      BY <2>2 DEF Groups
    <2> QED
      BY <2>1, <2>2, <2>3, <2>4
  <1>4. \A i \in 1..m : c[i] = f[list[i]] /\ c[i] \in Nat
    <2> TAKE i \in 1..m
    <2>1. list[i] \in G
      BY <1>2
    <2>2. c[i] = b.grp[list[i]].closing
      OBVIOUS
    <2> HIDE DEF c, f, G
    <2> QED
      BY <2>1, <2>2, <1>3
  <1>5. /\ booked = [g \in Keys |-> IF g \in G
                        THEN [b.grp[g] EXCEPT !.close = @ + Booked(g), !.closing = 0] ELSE b.grp[g]]
    BY DEF BookClosed
  <1> HIDE DEF booked
  <1>6. \A i \in 1..m : n[list[i]] = given[i]
    <2> TAKE i \in 1..m
    <2> DEFINE A == Ahead(list[i])
               r == [h \in A |-> b.grp[h].closing]
    <2>1. i - 1 \in 0..m
      BY <1>1
    <2>2. A = {list[j] : j \in 1..(i - 1)}
      <3>1. ASSUME NEW j \in DOMAIN list, \A k \in 1..j : list[k] # list[i] PROVE j \in 1..(i - 1)
        BY <3>1, <1>1
      <3>2. ASSUME NEW j \in 1..(i - 1), NEW k \in 1..j PROVE j \in DOMAIN list /\ list[k] # list[i]
        <4>1. j \in DOMAIN list /\ k \in DOMAIN list /\ i \in DOMAIN list /\ k # i
          BY <3>2, <1>1
        <4> QED
          BY <4>1 DEF IsInjective
      <3> DEFINE J == {j \in DOMAIN list : \A k \in 1..j : list[k] # list[i]}
      <3>3. J = 1..(i - 1)
        BY <3>1, <3>2
      <3>4. A = {list[j] : j \in J}
        OBVIOUS
      <3> HIDE DEF J, A
      <3> QED
        BY <3>3, <3>4
    <2>3. A \subseteq G
      BY <2>2, <1>2, <2>1
    <2>4. \A j \in 1..(i - 1) : list[j] \in A /\ j \in 1..m
      <3>1. 1..(i - 1) \subseteq 1..m
        BY <1>1
      <3> HIDE DEF A
      <3> QED
        BY <3>1, <2>2
    <2>5. \A h \in A : r[h] = b.grp[h].closing
      OBVIOUS
    <2> HIDE DEF A, G
    <2>6. \A j \in 1..(i - 1) : r[list[j]] = c[j] /\ r[list[j]] \in Int
      <3> TAKE j \in 1..(i - 1)
      <3>1. list[j] \in A /\ j \in 1..m /\ list[j] \in G
        BY <2>3, <2>4
      <3>2. r[list[j]] = b.grp[list[j]].closing
        BY <2>5, <3>1
      <3>3. c[j] = f[list[j]] /\ c[j] \in Nat /\ f[list[j]] = b.grp[list[j]].closing
        BY <1>3, <1>4, <3>1
      <3> HIDE DEF r, c, f
      <3> QED
        BY <3>2, <3>3
    <2>7. SumFunction(r) = SumFunctionOnSet(r, A)
      BY DEF SumFunction
    <2> HIDE DEF r, c, f
    <2>8. SumFunctionOnSet(c, 1..(i - 1)) = SumFunctionOnSet(r, {list[j] : j \in 1..(i - 1)})
      BY <1>1, <2>1, <2>6, SumOfPlaces
    <2>9. SumFunction(r) = SumFunctionOnSet(c, 1..(i - 1))
      BY <2>2, <2>7, <2>8
    <2>10. n[list[i]] = Clip(cg.filled - SumFunction(r), b.grp[list[i]].closing)
      BY <1>2 DEF r, A
    <2>11. b.grp[list[i]].closing = c[i]
      BY <1>2, <1>3, <1>4
    <2> QED
      BY <2>9, <2>10, <2>11
  <1>7. \A i \in 1..m : given[i] \in Nat /\ given[i] <= c[i]
    <2> TAKE i \in 1..m
    <2>1. \A j \in 1..(i - 1) : c[j] \in Nat
      <3>1. 1..(i - 1) \subseteq 1..m
        BY <1>1
      <3> HIDE DEF c
      <3> QED
        BY <3>1, <1>4
    <2>2. IsFiniteSet(1..(i - 1))
      BY FS_Interval
    <2>3. c[i] \in Nat
      BY <1>4
    <2>4. given[i] = Clip(cg.filled - SumFunctionOnSet(c, 1..(i - 1)), c[i])
      OBVIOUS
    <2> HIDE DEF c, given
    <2>5. SumFunctionOnSet(c, 1..(i - 1)) \in Nat
      BY <2>1, <2>2, SumIsNat
    <2> QED
      BY <2>3, <2>4, <2>5 DEF Clip, Least
  <1>8. SumFunctionOnSet(given, 1..m) = Least(cg.filled, SumFunctionOnSet(c, 1..m))
    <2>1. \A i \in 1..m : c[i] \in Nat
      BY <1>4
    <2> HIDE DEF c
    <2> QED
      BY <1>1, <2>1, FirstServed
  <1>9. \A g \in G : n[g] = Booked(g)
    OBVIOUS
  <1>10. SumFunction(f) = SumFunctionOnSet(f, G)
    BY DEF SumFunction
  <1>11. n = [g \in G |-> n[g]]
    OBVIOUS
  <1> HIDE DEF G, f, c, given, n, Ahead, Booked
  <1>12. \A i \in 1..m : n[list[i]] \in Int /\ f[list[i]] \in Int
    BY <1>4, <1>6, <1>7
  <1>13. m \in 0..Len(list)
    BY <1>1
  <1>14. SumFunctionOnSet(given, 1..m) = SumFunctionOnSet(n, G)
    BY <1>1, <1>2, <1>6, <1>12, <1>13, SumOfPlaces
  <1>15. SumFunctionOnSet(c, 1..m) = SumFunctionOnSet(f, G)
    BY <1>1, <1>2, <1>4, <1>12, <1>13, SumOfPlaces
  <1>16. ASSUME NEW g \in G PROVE n[g] \in Nat /\ n[g] <= b.grp[g].closing
    <2>1. PICK i \in 1..m : g = list[i]
      BY <1>2
    <2>2. n[g] = given[i] /\ given[i] \in Nat /\ given[i] <= c[i] /\ c[i] = b.grp[g].closing
      BY <1>3, <1>4, <1>6, <1>7, <2>1
    <2> QED
      BY <2>2
  <1>17. ASSUME NEW g \in G
         PROVE  booked[g] = MoreClosed(b.grp[g], n[g]) /\ booked[g] \in Groups
    <2>1. booked[g] = [b.grp[g] EXCEPT !.close = @ + n[g], !.closing = 0]
      BY <1>3, <1>5, <1>9
    <2>2. b.grp[g] \in Groups /\ n[g] \in Nat
      BY <1>3, <1>16
    <2>3. booked[g] \in Groups
      <3>1. b.grp[g].close + n[g] \in Nat
        BY <2>2 DEF Groups
      <3> DEFINE r == b.grp[g]
                 x == r.close + n[g]
      <3>2. r \in Groups /\ x \in Nat
        BY <2>2, <3>1
      <3>3. booked[g] = [r EXCEPT !.close = x, !.closing = 0]
        BY <2>1
      <3> HIDE DEF x, r
      <3>4. [r EXCEPT !.close = x, !.closing = 0] \in Groups
        BY <3>2, WrittenGroup
      <3> QED
        BY <3>3, <3>4
    <2> QED
      BY <2>1, <2>3 DEF MoreClosed
  <1>18. \A g \in Keys \ G : booked[g] = b.grp[g]
    BY <1>5
  <1>19. booked \in [Keys -> Groups \cup {NoGroup}]
    <2>1. \A g \in Keys : booked[g] \in Groups \cup {NoGroup}
      BY <1>17, <1>18
    <2>2. booked = [g \in Keys |-> booked[g]]
      BY <1>5
    <2> QED
      BY <2>1, <2>2
  <1>20. n \in [G -> Nat]
    BY <1>11, <1>16
  <1>21. SumFunctionOnSet(n, G) = Least(cg.filled, SumFunction(f))
    BY <1>8, <1>10, <1>14, <1>15
  <1> QED
    BY <1>16, <1>17, <1>18, <1>19, <1>20, <1>21 DEF G, f, booked, ClosingIn, LotsBooked

(* The places of a list that stay can be counted off in their order.       *)
LEMMA Ranks ==
    ASSUME NEW m \in Nat, NEW K \in SUBSET (1..m)
    PROVE  /\ Cardinality(K) \in 0..m
           /\ \A n \in 1..Cardinality(K) : \E i \in K : Cardinality({j \in K : j <= i}) = n
           /\ \A i \in K : Cardinality({j \in K : j <= i}) \in 1..Cardinality(K)
           /\ \A i, k \in K : Cardinality({j \in K : j <= i}) = Cardinality({j \in K : j <= k}) => i = k
  <1> DEFINE To(i) == {j \in K : j <= i}
             r == [i \in K |-> Cardinality(To(i))]
             N == Cardinality(K)
  <1>1. IsFiniteSet(K) /\ N \in Nat /\ N <= m
    <2>1. IsFiniteSet(1..m) /\ Cardinality(1..m) = m
      BY FS_Interval
    <2> QED
      BY <2>1, FS_Subset, FS_CardinalityType
  <1>2. ASSUME NEW i \in K PROVE IsFiniteSet(To(i)) /\ Cardinality(To(i)) \in 1..N /\ i \in To(i)
    <2>1. To(i) \in SUBSET K /\ i \in To(i)
      OBVIOUS
    <2>2. IsFiniteSet(To(i)) /\ Cardinality(To(i)) <= N
      BY <1>1, <2>1, FS_Subset
    <2>3. Cardinality(To(i)) \in Nat /\ Cardinality(To(i)) # 0
      BY <2>1, <2>2, FS_CardinalityType, FS_EmptySet
    <2> QED
      BY <1>1, <2>1, <2>2, <2>3
  <1>3. ASSUME NEW i \in K, NEW k \in K, Cardinality(To(i)) = Cardinality(To(k)) PROVE i = k
    <2>1. ASSUME NEW x \in K, NEW y \in K, x < y, Cardinality(To(x)) = Cardinality(To(y)) PROVE FALSE
      <3>1. To(x) \in SUBSET To(y)
        <4>1. \A j \in K : j \in Int
          OBVIOUS
        <4>2. \A j \in K : j <= x => j <= y
          BY <2>1, <4>1
        <4> QED
          BY <4>2
      <3>2. To(x) = To(y)
        <4> HIDE DEF To
        <4> QED
          BY <1>2, <2>1, <3>1, FS_Subset
      <3>3. y \in To(y) /\ y \notin To(x)
        BY <2>1
      <3> QED
        BY <3>2, <3>3
    <2>2. i \in Int /\ k \in Int
      OBVIOUS
    <2> HIDE DEF To
    <2> QED
      BY <1>3, <2>1, <2>2
  <1>4. r \in Injection(K, 1..N)
    <2>1. r \in [K -> 1..N]
      BY <1>2
    <2>2. \A i, k \in K : r[i] = r[k] => i = k
      BY <1>3
    <2> HIDE DEF r
    <2> QED
      BY <2>1, <2>2 DEF Injection, IsInjective
  <1>5. \A n \in 1..N : \E i \in K : r[i] = n
    <2>1. IsFiniteSet(1..N) /\ Cardinality(1..N) = N
      BY <1>1, FS_Interval
    <2> HIDE DEF r
    <2>2. r \in Surjection(K, 1..N)
      BY <1>4, <2>1, FS_Injection
    <2> QED
      BY <2>2 DEF Surjection
  <1> QED
    BY <1>1, <1>2, <1>3, <1>5

(* A list without some of its groups keeps the others, each of them once.  *)
LEMMA Without ==
    ASSUME NEW list \in Seq(Keys), IsInjective(list), NEW gone, NEW left, left = WithoutGroups(list, gone)
    PROVE  /\ left \in Seq(Keys) /\ IsInjective(left) /\ ToSet(left) = ToSet(list) \ gone
           /\ ToSet(list) \cap gone = {} => left = list
  <1> DEFINE m == Len(list)
             K == {i \in DOMAIN list : list[i] \notin gone}
             N == Cardinality(K)
             Rank(i) == Cardinality({j \in K : j <= i})
             Nth(n) == CHOOSE i \in K : Rank(i) = n
  <1>1. m \in Nat /\ DOMAIN list = 1..m /\ \A i \in 1..m : list[i] \in Keys
    OBVIOUS
  <1>2. K \in SUBSET (1..m)
    BY <1>1
  <1>3. left = [n \in 1..N |-> list[Nth(n)]]
    BY DEF WithoutGroups
  <1>4. \A i : i \in K <=> i \in 1..m /\ list[i] \notin gone
    BY <1>1
  <1> HIDE DEF K
  <1>5. /\ N \in 0..m /\ \A n \in 1..N : \E i \in K : Rank(i) = n
        /\ \A i \in K : Rank(i) \in 1..N
        /\ \A i, k \in K : Rank(i) = Rank(k) => i = k
    BY <1>1, <1>2, Ranks
  <1> HIDE DEF Rank, N
  <1>6. \A n \in 1..N : Nth(n) \in K /\ Rank(Nth(n)) = n
    BY <1>5
  <1>7. \A i \in K : Nth(Rank(i)) = i
    BY <1>5, <1>6
  <1> HIDE DEF Nth
  <1>8. left \in Seq(Keys) /\ Len(left) = N /\ DOMAIN left = 1..N
    <2>1. \A n \in 1..N : list[Nth(n)] \in Keys
      BY <1>1, <1>2, <1>6
    <2>2. N \in Nat
      BY <1>1, <1>5
    <2> QED
      BY <1>3, <2>1, <2>2
  <1>9. IsInjective(left)
    <2> SUFFICES ASSUME NEW n \in 1..N, NEW k \in 1..N, left[n] = left[k] PROVE n = k
      BY <1>8 DEF IsInjective
    <2>1. list[Nth(n)] = list[Nth(k)] /\ Nth(n) \in DOMAIN list /\ Nth(k) \in DOMAIN list
      BY <1>1, <1>2, <1>3, <1>6
    <2>2. Nth(n) = Nth(k)
      BY <2>1 DEF IsInjective
    <2> QED
      BY <1>6, <2>2
  <1>10. ToSet(left) = ToSet(list) \ gone
    <2>1. ToSet(left) = {list[Nth(n)] : n \in 1..N}
      BY <1>3, <1>8 DEF ToSet
    <2>2. ToSet(list) = {list[i] : i \in 1..m}
      BY <1>1 DEF ToSet
    <2>3. ASSUME NEW n \in 1..N PROVE Nth(n) \in 1..m /\ list[Nth(n)] \notin gone
      BY <1>4, <1>6
    <2>4. ASSUME NEW i \in 1..m, list[i] \notin gone PROVE \E n \in 1..N : list[Nth(n)] = list[i]
      <3>1. i \in K
        BY <1>4, <2>4
      <3> QED
        BY <1>5, <1>7, <3>1
    <2> QED
      BY <2>1, <2>2, <2>3, <2>4
  <1>11. ASSUME ToSet(list) \cap gone = {} PROVE left = list
    <2>1. K = 1..m
      <3>1. \A i \in 1..m : list[i] \in ToSet(list)
        BY <1>1 DEF ToSet
      <3> QED
        BY <1>4, <1>11, <3>1
    <2>2. N = m
      BY <1>1, <2>1, FS_Interval DEF N
    <2>3. ASSUME NEW n \in 1..m PROVE Nth(n) = n
      <3>1. {j \in K : j <= n} = 1..n
        BY <1>1, <2>1
      <3>2. Rank(n) = n
        <4>1. Cardinality(1..n) = n
          <5>1. n \in Int /\ 1 \in Int /\ ~(1 > n) /\ n - 1 + 1 = n
            BY <1>1
          <5> QED
            BY <5>1, FS_Interval
        <4>2. Rank(n) = Cardinality({j \in K : j <= n})
          BY DEF Rank
        <4> QED
          BY <3>1, <4>1, <4>2
      <3> QED
        BY <1>7, <2>1, <3>2
    <2>4. \A n \in 1..m : left[n] = list[n]
      BY <1>3, <2>2, <2>3
    <2> QED
      BY <1>1, <1>8, <2>2, <2>4
  <1> QED
    BY <1>8, <1>9, <1>10, <1>11

LotsIn(grp, S) == SumFunction([g \in S |-> Remain(grp[g])])

(* Lots of groups: the same groups have the same lots, and none has none.  *)
LEMMA SameLots ==
    ASSUME NEW S, IsFiniteSet(S), NEW grp, NEW new, \A g \in S : Remain(new[g]) = Remain(grp[g])
    PROVE  LotsIn(new, S) = LotsIn(grp, S)
  <1> DEFINE f == [g \in S |-> Remain(grp[g])]
             h == [g \in S |-> Remain(new[g])]
  <1>1. \A g \in S : h[g] = f[g]
    OBVIOUS
  <1>2. LotsIn(new, S) = SumFunctionOnSet(h, S) /\ LotsIn(grp, S) = SumFunctionOnSet(f, S)
    BY DEF LotsIn, SumFunction
  <1> HIDE DEF f, h
  <1> QED
    BY <1>1, <1>2, SameSum

(* A group more among those with lots.                                     *)
LEMMA OneGroup ==
    ASSUME NEW S, IsFiniteSet(S), NEW grp, NEW k, k \notin S,
           \A g \in S \cup {k} : grp[g] \in Groups
    PROVE  LotsIn(grp, S \cup {k}) = LotsIn(grp, S) + Remain(grp[k]) /\ LotsIn(grp, S) \in Int
  <1> DEFINE f == [g \in S \cup {k} |-> Remain(grp[g])]
             h == [g \in S |-> Remain(grp[g])]
  <1>1. \A g \in S \cup {k} : f[g] = Remain(grp[g]) /\ f[g] \in Int
    <2> TAKE g \in S \cup {k}
    <2>1. f[g] = Remain(grp[g])
      OBVIOUS
    <2>2. Remain(grp[g]) \in Int
      BY DEF Remain, Groups
    <2> HIDE DEF f
    <2> QED
      BY <2>1, <2>2
  <1>2. \A g \in S : h[g] = f[g] /\ h[g] \in Int
    BY <1>1
  <1>3. LotsIn(grp, S \cup {k}) = SumFunctionOnSet(f, S \cup {k}) /\ LotsIn(grp, S) = SumFunctionOnSet(h, S)
    BY DEF LotsIn, SumFunction
  <1> HIDE DEF f, h
  <1>4. IsFiniteSet(S \cup {k}) /\ k \in S \cup {k} /\ (S \cup {k}) \ {k} = S
    BY FS_AddElement
  <1>5. SumFunctionOnSet(f, S \cup {k}) = f[k] + SumFunctionOnSet(f, S)
    BY <1>1, <1>4, SumTakeOut
  <1>6. SumFunctionOnSet(f, S) = SumFunctionOnSet(h, S)
    BY <1>2, SameSum
  <1>7. SumFunctionOnSet(h, S) \in Int
    BY <1>2, SumIsInt
  <1> QED
    BY <1>1, <1>3, <1>5, <1>6, <1>7

(* n[g] lots of each group of G were closed, and the groups gone have no   *)
(* lots any more.                                                          *)
LeftBy(S, G, grp, new, n, gone) ==
    /\ G \subseteq S /\ gone \subseteq G /\ n \in [G -> Nat]
    /\ \A g \in S : grp[g] \in Groups
    /\ \A g \in G : Remain(new[g]) = Remain(grp[g]) - n[g]
    /\ \A g \in S \ G : Remain(new[g]) = Remain(grp[g])
    /\ \A g \in gone : Remain(new[g]) = 0

(* What is left of the lots then.                                          *)
LEMMA LotsLeft ==
    ASSUME NEW S, IsFiniteSet(S), NEW G, NEW grp, NEW new, NEW n, NEW gone,
           LeftBy(S, G, grp, new, n, gone)
    PROVE  LotsIn(new, S \ gone) = LotsIn(grp, S) - SumFunctionOnSet(n, G)
  <1>0. /\ G \subseteq S /\ gone \subseteq G /\ n \in [G -> Nat]
        /\ \A g \in S : grp[g] \in Groups
        /\ \A g \in G : Remain(new[g]) = Remain(grp[g]) - n[g]
        /\ \A g \in S \ G : Remain(new[g]) = Remain(grp[g])
        /\ \A g \in gone : Remain(new[g]) = 0
    BY DEF LeftBy
  <1> DEFINE f == [g \in S |-> Remain(grp[g])]
             h == [g \in S |-> Remain(new[g])]
             left == [g \in S \ gone |-> Remain(new[g])]
             R == S \ G
  <1>1. \A g \in S : Remain(grp[g]) \in Int
    BY <1>0 DEF Remain, Groups
  <1>2. \A g \in G : h[g] = f[g] - n[g] /\ f[g] \in Int /\ h[g] \in Int /\ n[g] \in Nat
    BY <1>0, <1>1
  <1>3. \A g \in R : h[g] = f[g] /\ f[g] \in Int /\ h[g] \in Int
    BY <1>0, <1>1
  <1>4. \A g \in S \ gone : left[g] = h[g]
    BY <1>0
  <1>5. \A g \in gone : h[g] = 0
    BY <1>0
  <1>6. LotsIn(new, S \ gone) = SumFunctionOnSet(left, S \ gone) /\ LotsIn(grp, S) = SumFunctionOnSet(f, S)
    BY DEF LotsIn, SumFunction
  <1>7. IsFiniteSet(G) /\ IsFiniteSet(R) /\ G \cap R = {} /\ G \cup R = S /\ IsFiniteSet(gone) /\ IsFiniteSet(S \ gone)
        /\ gone \cap (S \ gone) = {} /\ gone \cup (S \ gone) = S
    BY <1>0, FS_Subset
  <1> HIDE DEF f, h, left, R
  <1>8. SumFunctionOnSet(f, S) = SumFunctionOnSet(f, G) + SumFunctionOnSet(f, R)
    <2>1. \A g \in G \cup R : f[g] \in Int
      BY <1>2, <1>3
    <2> QED
      BY <1>7, <2>1, SumOfUnion
  <1>9. SumFunctionOnSet(h, S) = SumFunctionOnSet(h, G) + SumFunctionOnSet(h, R)
    <2>1. \A g \in G \cup R : h[g] \in Int
      BY <1>2, <1>3
    <2> QED
      BY <1>7, <2>1, SumOfUnion
  <1>10. SumFunctionOnSet(h, R) = SumFunctionOnSet(f, R) /\ SumFunctionOnSet(f, R) \in Int
    BY <1>3, <1>7, SameSum, SumIsInt
  <1>11. SumFunctionOnSet(h, G) = SumFunctionOnSet(f, G) - SumFunctionOnSet(n, G)
         /\ SumFunctionOnSet(f, G) \in Int /\ SumFunctionOnSet(n, G) \in Int
    <2>1. \A g \in G : f[g] \in Int /\ n[g] \in Int /\ h[g] = f[g] - n[g]
      BY <1>2
    <2> QED
      BY <1>7, <2>1, SumOfDifference, SumIsInt
  <1>12. SumFunctionOnSet(h, S) = SumFunctionOnSet(h, gone) + SumFunctionOnSet(h, S \ gone)
    <2>1. \A g \in gone \cup (S \ gone) : h[g] \in Int
      BY <1>2, <1>3, <1>7
    <2> HIDE DEF R
    <2> QED
      BY <1>7, <2>1, SumOfUnion
  <1>13. SumFunctionOnSet(h, gone) = 0
    BY <1>5, <1>7, SumOfZeros
  <1>14. SumFunctionOnSet(left, S \ gone) = SumFunctionOnSet(h, S \ gone)
    BY <1>4, <1>7, SameSum
  <1>15. SumFunctionOnSet(h, S \ gone) \in Int
    <2>1. \A g \in S \ gone : h[g] \in Int
      BY <1>2, <1>3, <1>7
    <2> QED
      BY <1>7, <2>1, SumIsInt
  <1> QED
    BY <1>6, <1>8, <1>9, <1>10, <1>11, <1>12, <1>13, <1>14, <1>15
-----------------------------------------------------------------------------
(* Frames: what the parts of the invariant look at.                        *)

(* The lots marked as being closed are the same.                           *)
LEMMA SameClosing ==
    ASSUME NEW S, IsFiniteSet(S), NEW grp, NEW new, \A g \in S : new[g].closing = grp[g].closing
    PROVE  ClosingIn(new, S) = ClosingIn(grp, S)
  <1> DEFINE f == [g \in S |-> grp[g].closing]
             h == [g \in S |-> new[g].closing]
  <1>1. \A g \in S : h[g] = f[g]
    OBVIOUS
  <1>2. ClosingIn(new, S) = SumFunctionOnSet(h, S) /\ ClosingIn(grp, S) = SumFunctionOnSet(f, S)
    BY DEF ClosingIn, SumFunction
  <1> HIDE DEF f, h
  <1> QED
    BY <1>1, <1>2, SameSum

(* add_txn_cost: the list gets the group, once.                            *)
LEMMA PlacedIn ==
    ASSUME NEW list \in Seq(Keys), IsInjective(list), NEW k \in Keys, k \notin ToSet(list),
           NEW at \in 0..Len(list), NEW new, new = Placed(list, at, k)
    PROVE  /\ new \in Seq(Keys) /\ IsInjective(new) /\ ToSet(new) = ToSet(list) \cup {k}
           /\ PlacedOnce(list, at, k) = new
  <1> DEFINE before == SubSeq(list, 1, at)
             after == SubSeq(list, at + 1, Len(list))
             m == Len(list)
  <1>1. at \in Nat /\ at <= m /\ m \in Nat /\ \A i \in 1..m : list[i] \in Keys
    OBVIOUS
  <1>2. /\ before \in Seq(Keys) /\ Len(before) = at /\ \A i \in 1..at : before[i] = list[i]
    BY <1>1
  <1>3. /\ after \in Seq(Keys) /\ Len(after) = m - at /\ \A i \in 1..(m - at) : after[i] = list[at + i]
    BY <1>1
  <1>4. \A i, j \in 1..m : list[i] = list[j] => i = j
    BY DEF IsInjective
  <1>5. \A i \in 1..m : list[i] \in ToSet(list) /\ list[i] # k
    BY DEF ToSet
  <1>6. \A x \in ToSet(list) : \E i \in 1..m : x = list[i]
    BY DEF ToSet
  <1>7. WithoutGroups(before, {k}) = before
    <2>1. IsInjective(before)
      <3>1. \A i, j \in 1..at : before[i] = before[j] => i = j
        BY <1>1, <1>2, <1>4
      <3> QED
        BY <1>2, <3>1 DEF IsInjective
    <2>2. ToSet(before) \cap {k} = {}
      <3>1. \A i \in 1..at : before[i] # k
        BY <1>1, <1>2, <1>5
      <3> QED
        BY <1>2, <3>1 DEF ToSet
    <2> HIDE DEF before
    <2> QED
      BY <1>2, <2>1, <2>2, Without
  <1>8. WithoutGroups(after, {k}) = after
    <2>1. IsInjective(after)
      <3>1. \A i, j \in 1..(m - at) : after[i] = after[j] => i = j
        <4>1. \A i \in 1..(m - at) : at + i \in 1..m
          BY <1>1
        <4> QED
          BY <1>1, <1>3, <1>4, <4>1
      <3> QED
        BY <1>3, <3>1 DEF IsInjective
    <2>2. ToSet(after) \cap {k} = {}
      <3>1. \A i \in 1..(m - at) : after[i] # k
        BY <1>1, <1>3, <1>5
      <3> QED
        BY <1>3, <3>1 DEF ToSet
    <2> HIDE DEF after
    <2> QED
      BY <1>3, <2>1, <2>2, Without
  <1>9. PlacedOnce(list, at, k) = new
    BY <1>7, <1>8 DEF Placed, PlacedOnce
  <1>10. new = before \o <<k>> \o after
    BY DEF Placed
  <1> HIDE DEF before, after
  <1>11. before \o <<k>> \in Seq(Keys) /\ Len(before \o <<k>>) = at + 1 /\ (before \o <<k>>)[at + 1] = k
         /\ \A i \in 1..at : (before \o <<k>>)[i] = list[i]
    BY <1>1, <1>2
  <1> DEFINE first == before \o <<k>>
  <1> HIDE DEF first
  <1>12. /\ new \in Seq(Keys) /\ Len(new) = m + 1
         /\ \A i \in 1..(at + 1) : new[i] = first[i]
         /\ \A i \in (at + 2)..(m + 1) : new[i] = after[i - (at + 1)]
    <2>1. first \in Seq(Keys) /\ Len(first) = at + 1 /\ new = first \o after
      BY <1>10, <1>11 DEF first
    <2> QED
      BY <1>1, <1>3, <2>1
  <1>13. /\ \A i \in 1..at : new[i] = list[i]
         /\ new[at + 1] = k
         /\ \A i \in (at + 2)..(m + 1) : new[i] = list[i - 1]
    <2>1. \A i \in (at + 2)..(m + 1) : i - (at + 1) \in 1..(m - at) /\ at + (i - (at + 1)) = i - 1
      BY <1>1
    <2>2. \A i \in (at + 2)..(m + 1) : new[i] = list[i - 1]
      BY <1>3, <1>12, <2>1
    <2>3. \A i \in 1..at : i \in 1..(at + 1) /\ first[i] = list[i]
      BY <1>1, <1>11 DEF first
    <2>4. at + 1 \in 1..(at + 1) /\ first[at + 1] = k
      BY <1>1, <1>11 DEF first
    <2> QED
      BY <1>12, <2>2, <2>3, <2>4
  <1>14. \A i \in 1..(m + 1) : \/ i \in 1..at /\ i \in 1..m /\ new[i] = list[i]
                               \/ i = at + 1 /\ new[i] = k
                               \/ i \in (at + 2)..(m + 1) /\ i - 1 \in 1..m /\ new[i] = list[i - 1]
    BY <1>1, <1>13
  <1>15. IsInjective(new)
    <2>1. ASSUME NEW i \in 1..(m + 1), NEW j \in 1..(m + 1), new[i] = new[j] PROVE i = j
      <3> HIDE DEF m
      <3>1. /\ \/ i \in 1..at /\ i \in 1..m /\ new[i] = list[i]
               \/ i = at + 1 /\ new[i] = k
               \/ i \in (at + 2)..(m + 1) /\ i - 1 \in 1..m /\ new[i] = list[i - 1]
            /\ \/ j \in 1..at /\ j \in 1..m /\ new[j] = list[j]
               \/ j = at + 1 /\ new[j] = k
               \/ j \in (at + 2)..(m + 1) /\ j - 1 \in 1..m /\ new[j] = list[j - 1]
        BY <1>14
      <3>2. \A x, y \in 1..m : list[x] = list[y] => x = y
        BY <1>4
      <3>3. \A x \in 1..m : list[x] # k
        BY <1>5
      <3>4. CASE i \in 1..at /\ i \in 1..m /\ new[i] = list[i]
        BY <1>1, <2>1, <3>1, <3>2, <3>3, <3>4
      <3>5. CASE i = at + 1 /\ new[i] = k
        BY <1>1, <2>1, <3>1, <3>3, <3>5
      <3>6. CASE i \in (at + 2)..(m + 1) /\ i - 1 \in 1..m /\ new[i] = list[i - 1]
        BY <1>1, <2>1, <3>1, <3>2, <3>3, <3>6
      <3> QED
        BY <3>1, <3>4, <3>5, <3>6
    <2> QED
      BY <1>12, <2>1 DEF IsInjective
  <1>16. ToSet(new) = ToSet(list) \cup {k}
    <2>1. \A i \in 1..(m + 1) : new[i] \in ToSet(list) \cup {k}
      BY <1>5, <1>14
    <2>2. \A i \in 1..m : \E j \in 1..(m + 1) : new[j] = list[i]
      <3> SUFFICES ASSUME NEW i \in 1..m PROVE \E j \in 1..(m + 1) : new[j] = list[i]
        OBVIOUS
      <3>1. CASE i <= at
        BY <1>1, <1>13, <3>1
      <3>2. CASE i > at
        <4>1. i + 1 \in (at + 2)..(m + 1) /\ i + 1 \in 1..(m + 1) /\ (i + 1) - 1 = i
          BY <1>1, <3>2
        <4> QED
          BY <1>13, <4>1
      <3> QED
        BY <1>1, <3>1, <3>2
    <2>3. at + 1 \in 1..(m + 1)
      BY <1>1
    <2>4. ToSet(new) = {new[i] : i \in 1..(m + 1)}
      BY <1>12 DEF ToSet
    <2> QED
      BY <1>6, <1>13, <2>1, <2>2, <2>3, <2>4
  <1> QED
    BY <1>9, <1>12, <1>15, <1>16
=============================================================================
