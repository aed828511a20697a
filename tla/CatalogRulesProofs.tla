------------------------- MODULE CatalogRulesProofs -------------------------
(***************************************************************************)
(* Proofs about CatalogRules, for lists of any length: what extractVersions*)
(* keeps of an index, and that the filter of each mode shows the versions  *)
(* its mode says, in the order of the index.                               *)
(***************************************************************************)
EXTENDS CatalogRules, FiniteSetTheorems, WellFoundedInduction, TLAPS

-----------------------------------------------------------------------------
(* Loops.  What holds before a loop and is kept by each turn holds after   *)
(* each turn; and what a loop computes exists.                             *)

LEMMA LeastPosition ==
    ASSUME NEW S \in SUBSET Nat, S # {}
    PROVE  \E i \in S : \A j \in S : i <= j
<1> DEFINE R == OpToRel(<, Nat)
<1>1. IsWellFoundedOn(R, Nat)
  BY NatLessThanWellFounded
<1>2. PICK i \in S : \A j \in S : ~ (<<j, i>> \in R)
  BY <1>1, WFMin
<1>3. \A j \in S : ~ (j < i)
  BY <1>2, Zenon DEF OpToRel
<1>4. \A j \in S : i \in Nat /\ j \in Nat
  OBVIOUS
<1>5. \A j \in S : i <= j
  BY <1>3, <1>4
<1> QED BY <1>5

LEMMA EachTurn ==
    ASSUME NEW n \in Nat, NEW P, 0 \in P,
           \A i \in 1 .. n : i - 1 \in P => i \in P
    PROVE  \A i \in 0 .. n : i \in P
<1> DEFINE Bad == {i \in 0 .. n : i \notin P}
<1> SUFFICES ASSUME Bad # {} PROVE FALSE
  OBVIOUS
<1>0. Bad \in SUBSET Nat
  OBVIOUS
<1>1. PICK m \in Bad : \A j \in Bad : m <= j
  <2> HIDE DEF Bad
  <2> QED BY <1>0, LeastPosition
<1>2. m # 0 /\ m \in 0 .. n /\ m \in 1 .. n
  BY <1>1
<1>3. m - 1 \in 0 .. n /\ ~(m <= m - 1)
  BY <1>2
<1>4. m - 1 \in P
  BY <1>1, <1>3
<1> QED BY <1>1, <1>2, <1>4

Turns(f, d, step, n) ==
    /\ f[0] = d
    /\ \A i \in 1 .. n : f[i] = step[i][f[i - 1]]

LEMMA LoopExists ==
    ASSUME NEW D, NEW d \in D, NEW n \in Nat, NEW step \in [1 .. n -> [D -> D]]
    PROVE  \E f \in [0 .. n -> D] : Turns(f, d, step, n)
<1> DEFINE P == {m \in 0 .. n : \E f \in [0 .. m -> D] : Turns(f, d, step, m)}
<1>1. 0 \in P
  <2>1. [i \in 0 .. 0 |-> d] \in [0 .. 0 -> D]
    OBVIOUS
  <2>2. Turns([i \in 0 .. 0 |-> d], d, step, 0)
    BY DEF Turns
  <2> QED BY <2>1, <2>2
<1>2. ASSUME NEW m \in 1 .. n, m - 1 \in P PROVE m \in P
  <2>1. PICK f \in [0 .. (m - 1) -> D] : Turns(f, d, step, m - 1)
    BY <1>2
  <2> DEFINE g == [i \in 0 .. m |-> IF i = m THEN step[m][f[m - 1]] ELSE f[i]]
  <2>2. step[m][f[m - 1]] \in D
    BY <1>2, <2>1
  <2>3. g \in [0 .. m -> D]
    BY <1>2, <2>1, <2>2
  <2>4. Turns(g, d, step, m)
    <3>1. g[0] = d
      BY <1>2, <2>1 DEF Turns
    <3>2. ASSUME NEW i \in 1 .. m PROVE g[i] = step[i][g[i - 1]]
      <4>1. CASE i = m
        BY <4>1, <1>2
      <4>2. CASE i # m
        <5>1. i \in 1 .. (m - 1) /\ g[i] = f[i] /\ g[i - 1] = f[i - 1]
          BY <4>2, <1>2
        <5> QED BY <5>1, <2>1 DEF Turns
      <4> QED BY <4>1, <4>2
    <3> QED BY <3>1, <3>2 DEF Turns
  <2> HIDE DEF g
  <2> QED BY <1>2, <2>3, <2>4
<1>3. \A m \in 1 .. n : m - 1 \in P => m \in P
  BY <1>2
<1>4. n \in P
  <2>1. n \in 0 .. n
    OBVIOUS
  <2> HIDE DEF P
  <2> QED BY <1>1, <1>3, <2>1, EachTurn
<1> HIDE DEF P
<1> QED BY <1>4 DEF P

-----------------------------------------------------------------------------
(* extractVersions.                                                        *)

LEMMA ExtractLoop ==
    ASSUME NEW S, NEW list \in Seq(S)
    PROVE  \E f \in [0 .. Len(list) -> Seq(S)] :
              /\ f[0] = <<>>
              /\ \A i \in 1 .. Len(list) : f[i] = keepVersion(f[i - 1], list[i])
              /\ extractVersions(list) = f[Len(list)]
<1> DEFINE n == Len(list)
           out == CHOOSE f : f = [i \in 0 .. n |->
                     IF i = 0 THEN <<>> ELSE keepVersion(f[i - 1], list[i])]
           step == [i \in 1 .. n |-> [kept \in Seq(S) |-> keepVersion(kept, list[i])]]
<1>1. extractVersions(list) = out[n]
  BY DEF extractVersions
<1>2. n \in Nat /\ step \in [1 .. n -> [Seq(S) -> Seq(S)]]
  BY DEF keepVersion
<1>3. \A i \in 1 .. n : \A kept \in Seq(S) : step[i][kept] = keepVersion(kept, list[i])
  OBVIOUS
<1>4. PICK f \in [0 .. n -> Seq(S)] : Turns(f, <<>>, step, n)
  <2> HIDE DEF step, n
  <2>1. <<>> \in Seq(S)
    OBVIOUS
  <2> QED BY <1>2, <2>1, LoopExists
<1>5. f[0] = <<>> /\ \A i \in 1 .. n : f[i] = keepVersion(f[i - 1], list[i])
  <2> HIDE DEF step
  <2> QED BY <1>3, <1>4 DEF Turns
<1>6. f = [i \in 0 .. n |-> IF i = 0 THEN <<>> ELSE keepVersion(f[i - 1], list[i])]
  BY <1>4, <1>5
<1>7. out = [i \in 0 .. n |-> IF i = 0 THEN <<>> ELSE keepVersion(out[i - 1], list[i])]
  BY <1>6
<1> HIDE DEF out
<1>8. out[0] = <<>> /\ \A i \in 1 .. n : out[i] = keepVersion(out[i - 1], list[i])
  <2>1. \A i \in 0 .. n : out[i] = IF i = 0 THEN <<>> ELSE keepVersion(out[i - 1], list[i])
    BY <1>7, Zenon
  <2>2. 0 \in 0 .. n /\ \A i \in 1 .. n : i \in 0 .. n /\ i # 0
    BY <1>2
  <2> QED BY <2>1, <2>2
<1>9. out \in [0 .. n -> Seq(S)]
  <2> DEFINE P == {i \in 0 .. n : out[i] \in Seq(S)}
  <2>1. 0 \in P
    <3>1. 0 \in 0 .. n
      BY <1>2
    <3>2. out[0] \in Seq(S)
      BY <1>8
    <3> QED BY <3>1, <3>2
  <2>2. ASSUME NEW i \in 1 .. n, i - 1 \in P PROVE i \in P
    <3>1. list[i] \in S /\ i \in 0 .. n
      BY <1>2
    <3>2. out[i - 1] \in Seq(S) /\ out[i] = keepVersion(out[i - 1], list[i])
      BY <1>8, <2>2
    <3>3. out[i] \in Seq(S)
      BY <3>1, <3>2 DEF keepVersion
    <3> QED BY <3>1, <3>3
  <2>3. \A i \in 0 .. n : i \in P
    <3>1. \A i \in 1 .. n : i - 1 \in P => i \in P
      BY <2>2
    <3> HIDE DEF P
    <3> QED BY <1>2, <2>1, <3>1, EachTurn
  <2> QED BY <1>7, <2>3
<1> QED BY <1>1, <1>8, <1>9

(* A version that extractVersions gives is in the index, and is a version. *)
LEMMA ExtractedAreListed ==
    ASSUME NEW list \in Seq({NoVersion} \cup Version)
    PROVE  /\ extractVersions(list) \in Seq(Version)
           /\ \A k \in DOMAIN extractVersions(list) :
                 \E j \in DOMAIN list : list[j] = extractVersions(list)[k]
<1>1. PICK f \in [0 .. Len(list) -> Seq({NoVersion} \cup Version)] :
          /\ f[0] = <<>>
          /\ \A i \in 1 .. Len(list) : f[i] = keepVersion(f[i - 1], list[i])
          /\ extractVersions(list) = f[Len(list)]
  BY ExtractLoop
<1> DEFINE Listed(q) ==
             /\ q \in Seq(Version)
             /\ \A k \in DOMAIN q : \E j \in DOMAIN list : list[j] = q[k]
           P == {i \in 0 .. Len(list) : Listed(f[i])}
<1>2. 0 \in P
  BY <1>1
<1>3. ASSUME NEW i \in 1 .. Len(list), i - 1 \in P PROVE i \in P
  <2>1. f[i] = keepVersion(f[i - 1], list[i]) /\ Listed(f[i - 1]) /\ i \in DOMAIN list
    BY <1>1, <1>3
  <2>2. CASE list[i] = NoVersion
    BY <2>1, <2>2 DEF keepVersion
  <2>3. CASE list[i] # NoVersion
    <3>1. f[i] = Append(f[i - 1], list[i]) /\ list[i] \in Version
      BY <2>1, <2>3 DEF keepVersion
    <3>2. f[i] \in Seq(Version)
      BY <2>1, <3>1
    <3>3. \A k \in DOMAIN f[i] : \E j \in DOMAIN list : list[j] = f[i][k]
      BY <2>1, <3>1
    <3> QED BY <3>2, <3>3
  <2> QED BY <2>2, <2>3
<1>4. Len(list) \in P
  <2>1. \A i \in 1 .. Len(list) : i - 1 \in P => i \in P
    BY <1>3
  <2>2. Len(list) \in Nat /\ Len(list) \in 0 .. Len(list)
    OBVIOUS
  <2> HIDE DEF P
  <2> QED BY <1>2, <2>1, <2>2, EachTurn
<1> QED BY <1>1, <1>4

-----------------------------------------------------------------------------
(* skipPatches.                                                            *)

LEMMA SkipLoop ==
    ASSUME NEW list \in Seq(Version)
    PROVE  \E f \in [0 .. Len(list) -> Seq(Version)] :
              /\ f[0] = <<>>
              /\ \A i \in 1 .. Len(list) : f[i] = skipPatch(f[i - 1], list[i])
              /\ skipPatches(list) = f[Len(list)]
<1> DEFINE n == Len(list)
           out == CHOOSE f : f = [i \in 0 .. n |->
                     IF i = 0 THEN <<>> ELSE skipPatch(f[i - 1], list[i])]
           step == [i \in 1 .. n |-> [kept \in Seq(Version) |-> skipPatch(kept, list[i])]]
<1>1. skipPatches(list) = out[n]
  BY DEF skipPatches
<1>2. n \in Nat /\ step \in [1 .. n -> [Seq(Version) -> Seq(Version)]]
  BY DEF skipPatch
<1>3. \A i \in 1 .. n : \A kept \in Seq(Version) : step[i][kept] = skipPatch(kept, list[i])
  OBVIOUS
<1>4. PICK f \in [0 .. n -> Seq(Version)] : Turns(f, <<>>, step, n)
  <2> HIDE DEF step, n
  <2>1. <<>> \in Seq(Version)
    OBVIOUS
  <2> QED BY <1>2, <2>1, LoopExists
<1>5. f[0] = <<>> /\ \A i \in 1 .. n : f[i] = skipPatch(f[i - 1], list[i])
  <2> HIDE DEF step
  <2> QED BY <1>3, <1>4 DEF Turns
<1>6. f = [i \in 0 .. n |-> IF i = 0 THEN <<>> ELSE skipPatch(f[i - 1], list[i])]
  BY <1>4, <1>5
<1>7. out = [i \in 0 .. n |-> IF i = 0 THEN <<>> ELSE skipPatch(out[i - 1], list[i])]
  BY <1>6
<1> HIDE DEF out
<1>8. out[0] = <<>> /\ \A i \in 1 .. n : out[i] = skipPatch(out[i - 1], list[i])
  <2>1. \A i \in 0 .. n : out[i] = IF i = 0 THEN <<>> ELSE skipPatch(out[i - 1], list[i])
    BY <1>7, Zenon
  <2>2. 0 \in 0 .. n /\ \A i \in 1 .. n : i \in 0 .. n /\ i # 0
    BY <1>2
  <2> QED BY <2>1, <2>2
<1>9. out \in [0 .. n -> Seq(Version)]
  <2> DEFINE P == {i \in 0 .. n : out[i] \in Seq(Version)}
  <2>1. 0 \in P
    <3>1. 0 \in 0 .. n
      BY <1>2
    <3>2. out[0] \in Seq(Version)
      BY <1>8
    <3> QED BY <3>1, <3>2
  <2>2. ASSUME NEW i \in 1 .. n, i - 1 \in P PROVE i \in P
    <3>1. list[i] \in Version /\ i \in 0 .. n
      BY <1>2
    <3>2. out[i - 1] \in Seq(Version) /\ out[i] = skipPatch(out[i - 1], list[i])
      BY <1>8, <2>2
    <3>3. out[i] \in Seq(Version)
      BY <3>1, <3>2 DEF skipPatch
    <3> QED BY <3>1, <3>3
  <2>3. \A i \in 0 .. n : i \in P
    <3>1. \A i \in 1 .. n : i - 1 \in P => i \in P
      BY <2>2
    <3> HIDE DEF P
    <3> QED BY <1>2, <2>1, <3>1, EachTurn
  <2> QED BY <1>7, <2>3
<1> QED BY <1>1, <1>8, <1>9

-----------------------------------------------------------------------------
(* Positions.  The rank of an element of a set of positions is at most     *)
(* their number, and a position behind all others comes last.              *)

LEMMA RankInRange ==
    ASSUME NEW n \in Nat, NEW S \in SUBSET (1 .. n), NEW i \in S
    PROVE  Rank(i, S) \in 1 .. Cardinality(S)
<1> DEFINE T == {j \in S : j <= i}
<1>1. IsFiniteSet(1 .. n)
  BY FS_Interval
<1>2. IsFiniteSet(S) /\ Cardinality(S) \in Nat
  BY <1>1, FS_Subset, FS_CardinalityType
<1>3. IsFiniteSet(T) /\ Cardinality(T) <= Cardinality(S) /\ Cardinality(T) \in Nat
  <2>1. T \in SUBSET S
    OBVIOUS
  <2> HIDE DEF T
  <2> QED BY <1>2, <2>1, FS_Subset, FS_CardinalityType
<1>4. Cardinality(T) # 0
  <2>1. i \in T
    OBVIOUS
  <2> HIDE DEF T
  <2> QED BY <1>3, <2>1, FS_EmptySet
<1> QED BY <1>2, <1>3, <1>4 DEF Rank

LEMMA RankOfLast ==
    ASSUME NEW n \in Nat, NEW S \in SUBSET (1 .. n), NEW k \in Nat, \A j \in S : j < k
    PROVE  /\ Cardinality(S) \in Nat
           /\ Cardinality(S \cup {k}) = Cardinality(S) + 1
           /\ Rank(k, S \cup {k}) = Cardinality(S) + 1
           /\ \A i \in S : Rank(i, S \cup {k}) = Rank(i, S)
<1>0. IsFiniteSet(1 .. n)
  BY FS_Interval
<1>1. IsFiniteSet(S) /\ Cardinality(S) \in Nat
  BY <1>0, FS_Subset, FS_CardinalityType
<1>2. k \notin S
  OBVIOUS
<1>3. Cardinality(S \cup {k}) = Cardinality(S) + 1
  BY <1>1, <1>2, FS_AddElement
<1>4. {j \in S \cup {k} : j <= k} = S \cup {k}
  <2>1. ASSUME NEW j \in S PROVE j <= k
    <3>1. j \in 1 .. n /\ j < k
      OBVIOUS
    <3> QED BY <3>1
  <2>2. k <= k
    OBVIOUS
  <2> QED BY <2>1, <2>2
<1>5. ASSUME NEW i \in S PROVE {j \in S \cup {k} : j <= i} = {j \in S : j <= i}
  <2>1. i \in Nat /\ i < k
    <3>1. i \in 1 .. n
      OBVIOUS
    <3> QED BY <3>1
  <2>2. ~(k <= i)
    BY <2>1
  <2> QED BY <2>2
<1> QED BY <1>1, <1>3, <1>4, <1>5 DEF Rank

(* What skipPatches is to keep of the first i versions.                    *)
Firsts(versions, i) ==
    {j \in 1 .. i : versions[j].minor = NoMinor \/
        \A k \in 1 .. (j - 1) : versions[k].minor # versions[j].minor}

KeptOf(versions, i, kept) ==
    /\ kept \in Seq(Version)
    /\ Len(kept) = Cardinality(Firsts(versions, i))
    /\ \A j \in Firsts(versions, i) : kept[Rank(j, Firsts(versions, i))] = versions[j]
    /\ \A k \in DOMAIN kept : \E j \in 1 .. i : kept[k] = versions[j]
    /\ \A j \in 1 .. i : versions[j].minor # NoMinor =>
          \E k \in DOMAIN kept : kept[k].minor = versions[j].minor

LEMMA SkipPatchKeeps ==
    ASSUME NEW versions \in Seq(Version), NEW i \in 1 .. Len(versions), NEW kept,
           KeptOf(versions, i - 1, kept)
    PROVE  KeptOf(versions, i, skipPatch(kept, versions[i]))
<1> DEFINE v == versions[i]
           F == Firsts(versions, i - 1)
           q == skipPatch(kept, v)
<1>0. i \in Nat \ {0} /\ i - 1 \in Nat /\ v \in Version
  OBVIOUS
<1>1. kept \in Seq(Version) /\ Len(kept) = Cardinality(F)
      /\ \A j \in F : kept[Rank(j, F)] = versions[j]
  BY DEF KeptOf
<1>2. F \in SUBSET (1 .. (i - 1)) /\ \A j \in F : j < i
  <2>1. F \in SUBSET (1 .. (i - 1))
    BY DEF Firsts
  <2> QED BY <1>0, <2>1
<1>3. (\E k \in DOMAIN kept : kept[k].minor = v.minor) =>
         \E j \in 1 .. (i - 1) : versions[j].minor = v.minor
  BY DEF KeptOf
<1>4. v.minor # NoMinor /\ (\E j \in 1 .. (i - 1) : versions[j].minor = v.minor) =>
         \E k \in DOMAIN kept : kept[k].minor = v.minor
  BY DEF KeptOf
<1>5. \A j : j \in 1 .. i <=> j \in 1 .. (i - 1) \/ j = i
  BY <1>0
<1>6. CASE v.minor # NoMinor /\ \E k \in DOMAIN kept : kept[k].minor = v.minor
  <2>1. q = kept
    BY <1>6 DEF skipPatch
  <2>2. Firsts(versions, i) = F
    BY <1>3, <1>5, <1>6 DEF Firsts
  <2>3. \A k \in DOMAIN kept : \E j \in 1 .. i : kept[k] = versions[j]
    BY <1>5 DEF KeptOf
  <2>4. \A j \in 1 .. i : versions[j].minor # NoMinor =>
           \E k \in DOMAIN kept : kept[k].minor = versions[j].minor
    BY <1>5, <1>6 DEF KeptOf
  <2> HIDE DEF F, q
  <2> QED BY <1>1, <2>1, <2>2, <2>3, <2>4 DEF KeptOf, q
<1>7. CASE ~(v.minor # NoMinor /\ \E k \in DOMAIN kept : kept[k].minor = v.minor)
  <2>1. q = Append(kept, v)
    BY <1>7 DEF skipPatch
  <2>2. Firsts(versions, i) = F \cup {i}
    BY <1>4, <1>5, <1>7 DEF Firsts
  <2> HIDE DEF F, q
  <2>3. /\ Cardinality(F) \in Nat /\ Cardinality(F \cup {i}) = Cardinality(F) + 1
        /\ Rank(i, F \cup {i}) = Cardinality(F) + 1
        /\ \A j \in F : Rank(j, F \cup {i}) = Rank(j, F)
    BY <1>0, <1>2, RankOfLast
  <2>4. q \in Seq(Version) /\ Len(q) = Cardinality(F \cup {i})
    BY <1>0, <1>1, <2>1, <2>3
  <2>5. \A k \in DOMAIN kept : k \in DOMAIN q /\ q[k] = kept[k]
    BY <1>0, <1>1, <2>1
  <2>6. Len(kept) + 1 \in DOMAIN q /\ q[Len(kept) + 1] = v
        /\ \A k \in DOMAIN q : k \in DOMAIN kept \/ k = Len(kept) + 1
    BY <1>0, <1>1, <2>1
  <2>7. ASSUME NEW j \in F \cup {i} PROVE q[Rank(j, F \cup {i})] = versions[j]
    <3>1. CASE j = i
      BY <1>1, <2>3, <2>6, <3>1
    <3>2. CASE j \in F
      <4>1. Rank(j, F) \in 1 .. Cardinality(F)
        BY <1>0, <1>2, <3>2, RankInRange
      <4>2. Rank(j, F) \in DOMAIN kept
        BY <1>1, <4>1
      <4> QED BY <1>1, <2>3, <2>5, <3>2, <4>2
    <3> QED BY <3>1, <3>2
  <2>8. ASSUME NEW k \in DOMAIN q PROVE \E j \in 1 .. i : q[k] = versions[j]
    <3>1. CASE k \in DOMAIN kept
      <4>1. PICK j \in 1 .. (i - 1) : kept[k] = versions[j]
        BY <3>1 DEF KeptOf
      <4> QED BY <1>5, <2>5, <3>1, <4>1
    <3>2. CASE k = Len(kept) + 1
      BY <1>5, <2>6, <3>2
    <3> QED BY <2>6, <3>1, <3>2
  <2>9. ASSUME NEW j \in 1 .. i, versions[j].minor # NoMinor
        PROVE  \E k \in DOMAIN q : q[k].minor = versions[j].minor
    <3>1. CASE j = i
      BY <2>6, <3>1
    <3>2. CASE j \in 1 .. (i - 1)
      BY <2>5, <2>9, <3>2 DEF KeptOf
    <3> QED BY <1>5, <3>1, <3>2
  <2> QED BY <2>2, <2>4, <2>7, <2>8, <2>9 DEF KeptOf, q
<1> QED BY <1>6, <1>7

(* skipPatches keeps the first version of each minor, and those without a  *)
(* minor, in the order of the index.                                       *)
LEMMA SkippedAre ==
    ASSUME NEW versions \in Seq(Version)
    PROVE  KeptOf(versions, Len(versions), skipPatches(versions))
<1>1. PICK f \in [0 .. Len(versions) -> Seq(Version)] :
          /\ f[0] = <<>>
          /\ \A i \in 1 .. Len(versions) : f[i] = skipPatch(f[i - 1], versions[i])
          /\ skipPatches(versions) = f[Len(versions)]
  BY SkipLoop
<1> DEFINE P == {i \in 0 .. Len(versions) : KeptOf(versions, i, f[i])}
<1>2. 0 \in P
  <2>1. Firsts(versions, 0) = {}
    BY DEF Firsts
  <2>2. Cardinality(Firsts(versions, 0)) = 0
    BY <2>1, FS_EmptySet
  <2>3. KeptOf(versions, 0, <<>>)
    BY <2>1, <2>2 DEF KeptOf
  <2>4. 0 \in 0 .. Len(versions)
    OBVIOUS
  <2> QED BY <1>1, <2>3, <2>4
<1>3. ASSUME NEW i \in 1 .. Len(versions), i - 1 \in P PROVE i \in P
  <2>1. i \in 0 .. Len(versions)
    OBVIOUS
  <2>2. KeptOf(versions, i, skipPatch(f[i - 1], versions[i]))
    BY <1>3, SkipPatchKeeps
  <2> QED BY <1>1, <2>1, <2>2
<1>4. Len(versions) \in P
  <2>1. \A i \in 1 .. Len(versions) : i - 1 \in P => i \in P
    BY <1>3
  <2>2. Len(versions) \in Nat /\ Len(versions) \in 0 .. Len(versions)
    OBVIOUS
  <2> HIDE DEF P
  <2> QED BY <1>2, <2>1, <2>2, EachTurn
<1> QED BY <1>1, <1>4

-----------------------------------------------------------------------------
(* The filter of a mode.                                                   *)

LEMMA Prefix ==
    ASSUME NEW m \in Nat
    PROVE  /\ Cardinality(1 .. m) = m
           /\ \A i \in 1 .. m : Rank(i, 1 .. m) = i
<1>1. \A i \in Nat : Cardinality(1 .. i) = i
  BY FS_Interval
<1>2. ASSUME NEW i \in 1 .. m PROVE Rank(i, 1 .. m) = i
  <2>1. {j \in 1 .. m : j <= i} = 1 .. i
    OBVIOUS
  <2>2. i \in Nat
    OBVIOUS
  <2> QED BY <1>1, <2>1, <2>2 DEF Rank
<1> QED BY <1>1, <1>2

LEMMA AppliedPrefix ==
    ASSUME NEW c \in CatalogConfig, validateCommon(c), NEW versions \in Seq(Version),
           c.mode # "skipPatches"
    PROVE  \E m \in 0 .. Len(versions) :
              /\ apply(c, versions) = SubSeq(versions, 1, m)
              /\ Shown(c, versions) = 1 .. m
<1>1. Len(versions) \in Nat /\ DOMAIN versions = 1 .. Len(versions)
      /\ versions = SubSeq(versions, 1, Len(versions))
  OBVIOUS
<1>2. CASE c.mode = "latest"
  <2>1. CASE versions = <<>>
    <3>1. Shown(c, versions) = 1 .. 0 /\ apply(c, versions) = SubSeq(versions, 1, 0)
      BY <1>1, <1>2, <2>1 DEF Shown, apply
    <3>2. 0 \in 0 .. Len(versions)
      BY <1>1
    <3> QED BY <3>1, <3>2
  <2>2. CASE versions # <<>>
    <3>1. 1 \in 0 .. Len(versions)
      BY <1>1, <2>2
    <3>2. Shown(c, versions) = 1 .. 1
      BY <1>1, <1>2, <3>1 DEF Shown
    <3>3. apply(c, versions) = SubSeq(versions, 1, 1)
      BY <1>2, <2>2 DEF apply
    <3> QED BY <3>1, <3>2, <3>3
  <2> QED BY <2>1, <2>2
<1>3. CASE c.mode = "maxNumber"
  <2>1. c.max \in Nat /\ c.max > 0
    <3>1. c.max \in {NoMax} \cup Int /\ c.max # NoMax /\ c.max > 0
      BY <1>3 DEF CatalogConfig, validateCommon
    <3> QED BY <3>1
  <2>2. CASE c.max >= Len(versions)
    <3>1. Shown(c, versions) = 1 .. Len(versions)
      BY <1>1, <1>3, <2>1, <2>2 DEF Shown
    <3>2. apply(c, versions) = SubSeq(versions, 1, Len(versions))
      BY <1>1, <1>3, <2>2 DEF apply
    <3>3. Len(versions) \in 0 .. Len(versions)
      BY <1>1
    <3> QED BY <3>1, <3>2, <3>3
  <2>3. CASE ~(c.max >= Len(versions))
    <3>1. Shown(c, versions) = 1 .. c.max
      BY <1>1, <1>3, <2>1, <2>3 DEF Shown
    <3>2. apply(c, versions) = SubSeq(versions, 1, c.max)
      BY <1>3, <2>3 DEF apply
    <3>3. c.max \in 0 .. Len(versions)
      BY <1>1, <2>1, <2>3
    <3> QED BY <3>1, <3>2, <3>3
  <2> QED BY <2>2, <2>3
<1>4. CASE c.mode \notin {"latest", "maxNumber"}
  <2>1. Shown(c, versions) = 1 .. Len(versions)
        /\ apply(c, versions) = SubSeq(versions, 1, Len(versions))
    BY <1>1, <1>4 DEF Shown, apply
  <2>2. Len(versions) \in 0 .. Len(versions)
    BY <1>1
  <2> QED BY <2>1, <2>2
<1> QED BY <1>2, <1>3, <1>4

(* The versions a valid catalog shows are those its mode says, in the order*)
(* of the index (versionfilter/filter.go), for an index of any length.     *)
THEOREM FilterShows ==
    ASSUME NEW c \in CatalogConfig, validateCommon(c), NEW versions \in Seq(Version)
    PROVE  /\ FollowsMode(c, versions, apply(c, versions))
           /\ \A k \in DOMAIN apply(c, versions) :
                 \E j \in DOMAIN versions : versions[j] = apply(c, versions)[k]
<1>1. CASE c.mode = "skipPatches"
  <2>1. apply(c, versions) = skipPatches(versions)
    BY <1>1 DEF apply
  <2>2. Shown(c, versions) = Firsts(versions, Len(versions))
    BY <1>1 DEF Shown, Firsts
  <2>3. KeptOf(versions, Len(versions), skipPatches(versions))
    BY SkippedAre
  <2>4. DOMAIN versions = 1 .. Len(versions)
    OBVIOUS
  <2> QED BY <2>1, <2>2, <2>3, <2>4 DEF KeptOf, FollowsMode
<1>2. CASE c.mode # "skipPatches"
  <2>1. PICK m \in 0 .. Len(versions) :
           apply(c, versions) = SubSeq(versions, 1, m) /\ Shown(c, versions) = 1 .. m
    BY <1>2, AppliedPrefix
  <2> DEFINE kept == SubSeq(versions, 1, m)
  <2>2. m \in Nat /\ Len(kept) = m /\ DOMAIN kept = 1 .. m
        /\ \A i \in 1 .. m : kept[i] = versions[i] /\ i \in DOMAIN versions
    OBVIOUS
  <2>3. Cardinality(1 .. m) = m /\ \A i \in 1 .. m : Rank(i, 1 .. m) = i
    BY <2>2, Prefix
  <2> HIDE DEF kept
  <2>4. \A i \in 1 .. m : kept[Rank(i, 1 .. m)] = versions[i]
    BY <2>2, <2>3
  <2> QED BY <2>1, <2>2, <2>3, <2>4 DEF kept, FollowsMode
<1> QED BY <1>1, <1>2
=============================================================================
