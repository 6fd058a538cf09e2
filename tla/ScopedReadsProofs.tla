-------------------------- MODULE ScopedReadsProofs --------------------------
(***************************************************************************)
(* Machine-checked proofs about ScopedReads, for any store, any page, any  *)
(* requests and any number of writers.                                     *)
(***************************************************************************)
EXTENDS ScopedReads, SequenceTheorems, FiniteSetTheorems, WellFoundedInduction, TLAPS

-----------------------------------------------------------------------------
\* Counting: the places of a finite set in a total order.

\* In a total order the number of those before tells the place, and every
\* place is taken.
LEMMA PlacesInOrder ==
  ASSUME NEW F, IsFiniteSet(F), NEW R,
         \A a \in F : <<a, a>> \notin R,
         \A a, b, c \in F : <<a, b>> \in R /\ <<b, c>> \in R => <<a, c>> \in R,
         \A a, b \in F : a # b => <<a, b>> \in R \/ <<b, a>> \in R,
         NEW before, before = [c \in F |-> {d \in F : <<d, c>> \in R}]
  PROVE  /\ Cardinality(F) \in Nat
         /\ \A c \in F : IsFiniteSet(before[c]) /\ Cardinality(before[c]) \in 0 .. (Cardinality(F) - 1)
         /\ \A a, b \in F : <<a, b>> \in R <=> Cardinality(before[a]) < Cardinality(before[b])
         /\ \A k \in 0 .. (Cardinality(F) - 1) : \E c \in F : Cardinality(before[c]) = k
<1> DEFINE n    == Cardinality(F)
           r(c) == Cardinality(before[c])
           f    == [c \in F |-> r(c)]
<1>0. \A c \in F : \A d : d \in before[c] <=> d \in F /\ <<d, c>> \in R
  OBVIOUS
<1>1. n \in Nat
  BY FS_CardinalityType
<1>2. ASSUME NEW c \in F
      PROVE  IsFiniteSet(before[c]) /\ r(c) \in 0 .. (n - 1)
  <2>1. before[c] \subseteq F /\ c \notin before[c]
    BY <1>0
  <2>2. IsFiniteSet(before[c]) /\ r(c) <= n /\ (n = r(c) => F = before[c])
    BY <2>1, FS_Subset
  <2>3. r(c) \in Nat
    BY <2>2, FS_CardinalityType
  <2>. HIDE DEF n, r
  <2>. QED BY <1>1, <2>1, <2>2, <2>3
<1>9. ASSUME NEW c \in F
      PROVE  r(c) \in Nat
  <2>1. r(c) \in 0 .. (n - 1)
    BY <1>2
  <2>. HIDE DEF r, n
  <2>. QED BY <1>1, <2>1
<1>3. ASSUME NEW a \in F, NEW b \in F, <<a, b>> \in R
      PROVE  r(a) < r(b)
  <2>1. before[a] \subseteq before[b] /\ a \in before[b] /\ a \notin before[a]
    BY <1>0, <1>3
  <2>2. IsFiniteSet(before[a]) /\ IsFiniteSet(before[b]) /\ r(a) \in Nat /\ r(b) \in Nat
    BY <1>2, <1>9
  <2>3. r(a) <= r(b) /\ (r(b) = r(a) => before[b] = before[a])
    BY <2>1, <2>2, FS_Subset
  <2>. HIDE DEF r
  <2>. QED BY <2>1, <2>2, <2>3
<1>4. ASSUME NEW a \in F, NEW b \in F, r(a) < r(b)
      PROVE  <<a, b>> \in R
  <2>1. a # b /\ <<b, a>> \notin R
    <3>0. <<b, a>> \in R => r(b) < r(a)
      BY <1>3
    <3>1. r(a) \in Nat /\ r(b) \in Nat
      BY <1>9
    <3>. HIDE DEF r
    <3>. QED BY <3>0, <3>1, <1>4
  <2>. QED BY <2>1
<1>5. \A a, b \in F : r(a) = r(b) => a = b
  <2> SUFFICES ASSUME NEW a \in F, NEW b \in F, r(a) = r(b), a # b
               PROVE  FALSE
    OBVIOUS
  <2>1. r(a) \in Nat /\ r(b) \in Nat
    BY <1>9
  <2>2. r(a) < r(b) \/ r(b) < r(a)
    BY <1>3
  <2>. HIDE DEF r
  <2>. QED BY <2>1, <2>2
<1>6. f \in Surjection(F, 0 .. (n - 1))
  <2>. HIDE DEF r, n
  <2>1. f \in [F -> 0 .. (n - 1)]
    BY <1>2
  <2>2. f \in Injection(F, 0 .. (n - 1))
    BY <2>1, <1>5 DEF Injection, IsInjective
  <2>3. IsFiniteSet(0 .. (n - 1)) /\ Cardinality(0 .. (n - 1)) = n
    BY <1>1, FS_Interval
  <2>. QED BY <2>2, <2>3, FS_Injection DEF n
<1>7. \A k \in 0 .. (n - 1) : \E c \in F : r(c) = k
  <2>. HIDE DEF r, n
  <2>. QED BY <1>6 DEF Surjection
<1>. QED BY <1>1, <1>2, <1>3, <1>4, <1>7

-----------------------------------------------------------------------------
\* The pages of a listing.

LEMMA Ranks ==
  ASSUME NEW ids \in SUBSET Nat, IsFiniteSet(ids)
  PROVE  /\ Cardinality(ids) \in Nat
         /\ \A i \in ids : Rank(i, ids) \in 1 .. Cardinality(ids)
         /\ \A i, j \in ids : i < j <=> Rank(i, ids) < Rank(j, ids)
         /\ \A i, j \in ids : Rank(i, ids) = Rank(j, ids) => i = j
         /\ \A k \in 1 .. Cardinality(ids) : \E i \in ids : Rank(i, ids) = k
<1> DEFINE R == {p \in Nat \X Nat : p[1] < p[2]}
           before == [c \in ids |-> {d \in ids : <<d, c>> \in R}]
<1>1. \A a, b \in ids : <<a, b>> \in R <=> a < b
  OBVIOUS
<1>2. /\ \A a \in ids : <<a, a>> \notin R
      /\ \A a, b, c \in ids : <<a, b>> \in R /\ <<b, c>> \in R => <<a, c>> \in R
      /\ \A a, b \in ids : a # b => <<a, b>> \in R \/ <<b, a>> \in R
  BY <1>1
<1>3. /\ Cardinality(ids) \in Nat
      /\ \A c \in ids : IsFiniteSet(before[c]) /\ Cardinality(before[c]) \in 0 .. (Cardinality(ids) - 1)
      /\ \A a, b \in ids : <<a, b>> \in R <=> Cardinality(before[a]) < Cardinality(before[b])
      /\ \A k \in 0 .. (Cardinality(ids) - 1) : \E c \in ids : Cardinality(before[c]) = k
  <2>. HIDE DEF R
  <2>. QED BY <1>2, PlacesInOrder
<1>4. ASSUME NEW i \in ids
      PROVE  Rank(i, ids) = Cardinality(before[i]) + 1
  <2>0. before[i] = {d \in ids : <<d, i>> \in R}
    BY DEF before
  <2>1. {j \in ids : j <= i} = before[i] \cup {i} /\ i \notin before[i]
    <3>1. \A d \in ids : d \in before[i] <=> d < i
      <4>. HIDE DEF before, R
      <4>. QED BY <2>0, <1>1
    <3>2. before[i] \subseteq ids
      BY <2>0
    <3>3. ASSUME NEW j
          PROVE  j \in {d \in ids : d <= i} <=> j \in before[i] \cup {i}
      <4>1. CASE j \in ids
        <5>. HIDE DEF before, R
        <5>. QED BY <4>1, <3>1
      <4>2. CASE j \notin ids
        <5>. HIDE DEF before, R
        <5>. QED BY <4>2, <3>2
      <4>. QED BY <4>1, <4>2
    <3>. HIDE DEF before, R
    <3>4. {d \in ids : d <= i} = before[i] \cup {i}
      BY <3>3
    <3>5. i \notin before[i]
      <4>1. i \in Nat /\ ~(i < i)
        OBVIOUS
      <4>. QED BY <3>1, <4>1
    <3>. QED BY <3>4, <3>5
  <2>2. IsFiniteSet(before[i])
    BY <1>3
  <2>. HIDE DEF before
  <2>. QED BY <2>1, <2>2, FS_AddElement DEF Rank
<1>. HIDE DEF before, R
<1>5. \A i \in ids : Rank(i, ids) \in 1 .. Cardinality(ids)
  BY <1>3, <1>4
<1>6. ASSUME NEW i \in ids, NEW j \in ids
      PROVE  i < j <=> Rank(i, ids) < Rank(j, ids)
  <2>1. i < j <=> Cardinality(before[i]) < Cardinality(before[j])
    BY <1>1, <1>3
  <2>2. /\ Rank(i, ids) = Cardinality(before[i]) + 1 /\ Rank(j, ids) = Cardinality(before[j]) + 1
        /\ Cardinality(before[i]) \in Nat /\ Cardinality(before[j]) \in Nat
    BY <1>3, <1>4
  <2>. QED BY <2>1, <2>2
<1>7. ASSUME NEW i \in ids, NEW j \in ids, Rank(i, ids) = Rank(j, ids)
      PROVE  i = j
  <2>1. ~(i < j) /\ ~(j < i)
    BY <1>5, <1>6, <1>7
  <2>. QED BY <2>1
<1>8. ASSUME NEW k \in 1 .. Cardinality(ids)
      PROVE  \E i \in ids : Rank(i, ids) = k
  <2>1. PICK i \in ids : Cardinality(before[i]) = k - 1
    BY <1>3
  <2>. QED BY <2>1, <1>4
<1>. QED BY <1>3, <1>5, <1>6, <1>7, <1>8

\* A listing, sorted by time, has each record at its rank.
LEMMA SortedByRank ==
  ASSUME NEW ids \in SUBSET Nat, IsFiniteSet(ids)
  PROVE  /\ Sorted(ids) \in Seq(ids) /\ Len(Sorted(ids)) = Cardinality(ids)
         /\ \A k \in 1 .. Cardinality(ids) : Rank(Sorted(ids)[k], ids) = k
         /\ \A i \in ids : Sorted(ids)[Rank(i, ids)] = i
<1>1. \A k \in 1 .. Cardinality(ids) : \E i \in ids : Rank(i, ids) = k
  BY Ranks
<1>2. \A k \in 1 .. Cardinality(ids) : Sorted(ids)[k] \in ids /\ Rank(Sorted(ids)[k], ids) = k
  BY <1>1 DEF Sorted
<1>3. Cardinality(ids) \in Nat
  BY Ranks
<1>4. Sorted(ids) \in Seq(ids) /\ Len(Sorted(ids)) = Cardinality(ids)
  <2>1. Sorted(ids) \in [1 .. Cardinality(ids) -> ids]
    BY <1>2 DEF Sorted
  <2>. QED BY <2>1, <1>3
<1>5. ASSUME NEW i \in ids
      PROVE  Sorted(ids)[Rank(i, ids)] = i
  <2>1. Rank(i, ids) \in 1 .. Cardinality(ids)
    BY Ranks
  <2>2. Sorted(ids)[Rank(i, ids)] \in ids /\ Rank(Sorted(ids)[Rank(i, ids)], ids) = Rank(i, ids)
    BY <1>2, <2>1
  <2>. QED BY <2>2, Ranks
<1>. QED BY <1>2, <1>4, <1>5

-----------------------------------------------------------------------------
\* What a listing has passed when it is at an offset; what it has missed of
\* the records selected all the time, and what it has seen and will see again.

Passed(o, ids)             == {i \in ids : Rank(i, ids) <= o}
Missed(steady, seen, o, S) == (steady \cap Passed(o, S)) \ seen
Ahead(seen, o, S)          == (seen \cap S) \ Passed(o, S)

\* One write changes a selection by one record at most.
OneChange(S, T) ==
  \/ T = S
  \/ \E x \in S : T = S \ {x}
  \/ \E x \in T : S = T \ {x}

LEMMA RankWithout ==
  ASSUME NEW ids \in SUBSET Nat, IsFiniteSet(ids), NEW x \in ids, NEW i \in ids \ {x}
  PROVE  Rank(i, ids \ {x}) = IF x < i THEN Rank(i, ids) - 1 ELSE Rank(i, ids)
<1> DEFINE upto == {j \in ids : j <= i}
<1>1. {j \in ids \ {x} : j <= i} = upto \ {x} /\ (x \in upto <=> x < i)
  OBVIOUS
<1>2. IsFiniteSet(upto)
  BY FS_Subset
<1>. HIDE DEF upto
<1>3. Cardinality(upto \ {x}) = IF x \in upto THEN Cardinality(upto) - 1 ELSE Cardinality(upto)
  BY <1>2, FS_RemoveElement
<1>. QED BY <1>1, <1>3 DEF Rank, upto

\* Without one record, those behind it move up by one place.
LEMMA OneLess ==
  ASSUME NEW ids \in SUBSET Nat, IsFiniteSet(ids), NEW x \in ids, NEW o \in Nat
  PROVE  /\ \E y \in Nat : Passed(o, ids \ {x}) \subseteq Passed(o, ids) \cup {y}
         /\ Passed(o, ids) \ {x} \subseteq Passed(o, ids \ {x})
         /\ x \notin Passed(o, ids) => Passed(o, ids \ {x}) \subseteq Passed(o, ids)
<1> DEFINE rest == ids \ {x}
<1>1. \A i \in ids : Rank(i, ids) \in Nat
  <2>1. Cardinality(ids) \in Nat /\ \A i \in ids : Rank(i, ids) \in 1 .. Cardinality(ids)
    BY Ranks
  <2>. QED BY <2>1
<1>2. \A i \in rest : Rank(i, rest) = IF x < i THEN Rank(i, ids) - 1 ELSE Rank(i, ids)
  BY RankWithout
<1>3. \E y \in Nat : Passed(o, rest) \subseteq Passed(o, ids) \cup {y}
  <2>1. \A i \in Passed(o, rest) \ Passed(o, ids) : i \in ids /\ Rank(i, ids) = o + 1
    BY <1>1, <1>2 DEF Passed
  <2>2. CASE Passed(o, rest) \subseteq Passed(o, ids)
    BY <2>2
  <2>3. ASSUME NEW y \in Passed(o, rest) \ Passed(o, ids)
        PROVE  Passed(o, rest) \subseteq Passed(o, ids) \cup {y}
    <3>1. \A i \in Passed(o, rest) \ Passed(o, ids) : i = y
      <4>1. \A i, j \in ids : Rank(i, ids) = Rank(j, ids) => i = j
        BY Ranks
      <4>. QED BY <2>1, <4>1
    <3>. QED BY <3>1
  <2>. QED BY <2>1, <2>2, <2>3
<1>4. Passed(o, ids) \ {x} \subseteq Passed(o, rest)
  <2> SUFFICES ASSUME NEW i \in ids, Rank(i, ids) <= o, i # x
               PROVE  Rank(i, rest) <= o
    BY DEF Passed
  <2>1. Rank(i, rest) = IF x < i THEN Rank(i, ids) - 1 ELSE Rank(i, ids)
    BY <1>2
  <2>. HIDE DEF rest
  <2>. QED BY <1>1, <2>1
<1>5. ASSUME x \notin Passed(o, ids)
      PROVE  Passed(o, rest) \subseteq Passed(o, ids)
  <2> SUFFICES ASSUME NEW i \in Passed(o, rest)
               PROVE  i \in Passed(o, ids)
    OBVIOUS
  <2>1. i \in rest /\ Rank(i, rest) <= o /\ ~(Rank(x, ids) <= o)
    BY <1>5 DEF Passed
  <2>2. x < i => Rank(x, ids) < Rank(i, ids)
    BY <2>1, Ranks
  <2>3. ~(x < i)
    BY <1>1, <1>2, <2>1, <2>2
  <2>. QED BY <1>2, <2>1, <2>3 DEF Passed
<1>. QED BY <1>3, <1>4, <1>5

LEMMA PassedIsFinite ==
  ASSUME NEW S, IsFiniteSet(S), NEW o
  PROVE  IsFiniteSet(Passed(o, S))
BY FS_Subset DEF Passed

\* A record that leaves makes a listing miss one record at most.
LEMMA MissedCount ==
  ASSUME NEW S \in SUBSET Nat, IsFiniteSet(S), NEW T \in SUBSET Nat, IsFiniteSet(T),
         OneChange(S, T), NEW steady \in SUBSET S, NEW seen, NEW o \in Nat
  PROVE  /\ Cardinality(Missed(steady, seen, o, S)) \in Nat /\ Cardinality(S \ T) \in Nat
         /\ Cardinality(Missed(steady \cap T, seen, o, T)) \in Nat
         /\ Cardinality(Missed(steady \cap T, seen, o, T))
              <= Cardinality(Missed(steady, seen, o, S)) + Cardinality(S \ T)
<1> DEFINE M == Missed(steady, seen, o, S)
           N == Missed(steady \cap T, seen, o, T)
<1>1. IsFiniteSet(M) /\ IsFiniteSet(N) /\ IsFiniteSet(S \ T)
  BY PassedIsFinite, FS_Subset DEF Missed
<1>2. Cardinality(M) \in Nat /\ Cardinality(N) \in Nat /\ Cardinality(S \ T) \in Nat
  BY <1>1, FS_CardinalityType
<1>3. ASSUME N \subseteq M
      PROVE  Cardinality(N) <= Cardinality(M) + Cardinality(S \ T)
  <2>1. Cardinality(N) <= Cardinality(M)
    BY <1>1, <1>3, FS_Subset
  <2>. QED BY <1>2, <2>1
<1>4. CASE T = S
  <2>1. N \subseteq M
    BY <1>4 DEF Missed
  <2>. QED BY <1>2, <1>3, <2>1
<1>5. ASSUME NEW x \in S, T = S \ {x}
      PROVE  Cardinality(N) <= Cardinality(M) + Cardinality(S \ T)
  <2>1. PICK y \in Nat : Passed(o, T) \subseteq Passed(o, S) \cup {y}
    BY <1>5, OneLess
  <2>2. N \subseteq M \cup {y}
    BY <2>1 DEF Missed
  <2>3. /\ IsFiniteSet(M \cup {y})
        /\ Cardinality(M \cup {y}) = IF y \in M THEN Cardinality(M) ELSE Cardinality(M) + 1
    BY <1>1, FS_AddElement
  <2>4. Cardinality(N) <= Cardinality(M \cup {y})
    BY <2>2, <2>3, FS_Subset
  <2>5. Cardinality(S \ T) = 1
    <3>1. S \ T = {x}
      BY <1>5
    <3>. QED BY <3>1, FS_Singleton
  <2>. HIDE DEF M, N
  <2>. QED BY <1>2, <2>3, <2>4, <2>5
<1>6. ASSUME NEW x \in T, S = T \ {x}
      PROVE  Cardinality(N) <= Cardinality(M) + Cardinality(S \ T)
  <2>1. Passed(o, T) \ {x} \subseteq Passed(o, S)
    BY <1>6, OneLess
  <2>2. N \subseteq M
    BY <1>6, <2>1 DEF Missed
  <2>. QED BY <1>3, <2>2
<1>. QED BY <1>2, <1>4, <1>5, <1>6 DEF OneChange

\* A record that joins makes a listing see one again at most.
LEMMA AheadCount ==
  ASSUME NEW S \in SUBSET Nat, IsFiniteSet(S), NEW T \in SUBSET Nat, IsFiniteSet(T),
         OneChange(S, T), NEW seen, NEW o \in Nat
  PROVE  /\ Cardinality(Ahead(seen, o, S)) \in Nat /\ Cardinality(T \ S) \in Nat
         /\ Cardinality(Ahead(seen, o, T)) \in Nat
         /\ Cardinality(Ahead(seen, o, T)) <= Cardinality(Ahead(seen, o, S)) + Cardinality(T \ S)
<1> DEFINE M == Ahead(seen, o, S)
           N == Ahead(seen, o, T)
<1>1. IsFiniteSet(M) /\ IsFiniteSet(N) /\ IsFiniteSet(T \ S)
  BY FS_Subset DEF Ahead
<1>2. Cardinality(M) \in Nat /\ Cardinality(N) \in Nat /\ Cardinality(T \ S) \in Nat
  BY <1>1, FS_CardinalityType
<1>3. ASSUME N \subseteq M
      PROVE  Cardinality(N) <= Cardinality(M) + Cardinality(T \ S)
  <2>1. Cardinality(N) <= Cardinality(M)
    BY <1>1, <1>3, FS_Subset
  <2>. QED BY <1>2, <2>1
<1>4. CASE T = S
  <2>1. N \subseteq M
    BY <1>4
  <2>. QED BY <1>2, <1>3, <2>1
<1>5. ASSUME NEW x \in S, T = S \ {x}
      PROVE  Cardinality(N) <= Cardinality(M) + Cardinality(T \ S)
  <2>1. Passed(o, S) \ {x} \subseteq Passed(o, T)
    BY <1>5, OneLess
  <2>2. N \subseteq M
    BY <1>5, <2>1 DEF Ahead
  <2>. QED BY <1>3, <2>2
<1>6. ASSUME NEW x \in T, S = T \ {x}
      PROVE  Cardinality(N) <= Cardinality(M) + Cardinality(T \ S)
  <2>1. \E y \in Nat : N \subseteq M \cup {y}
    <3>1. CASE x \in Passed(o, T)
      <4>1. PICK y \in Nat : Passed(o, S) \subseteq Passed(o, T) \cup {y}
        BY <1>6, OneLess
      <4>2. N \subseteq M \cup {y}
        BY <1>6, <3>1, <4>1 DEF Ahead
      <4>. QED BY <4>2
    <3>2. CASE x \notin Passed(o, T)
      <4>1. Passed(o, S) \subseteq Passed(o, T)
        BY <1>6, <3>2, OneLess
      <4>2. N \subseteq M \cup {x}
        BY <1>6, <4>1 DEF Ahead
      <4>. QED BY <4>2
    <3>. QED BY <3>1, <3>2
  <2>2. PICK y \in Nat : N \subseteq M \cup {y}
    BY <2>1
  <2>3. /\ IsFiniteSet(M \cup {y})
        /\ Cardinality(M \cup {y}) = IF y \in M THEN Cardinality(M) ELSE Cardinality(M) + 1
    BY <1>1, FS_AddElement
  <2>4. Cardinality(N) <= Cardinality(M \cup {y})
    BY <2>2, <2>3, FS_Subset
  <2>5. Cardinality(T \ S) = 1
    <3>1. T \ S = {x}
      BY <1>6
    <3>. QED BY <3>1, FS_Singleton
  <2>. HIDE DEF M, N
  <2>. QED BY <1>2, <2>3, <2>4, <2>5
<1>. QED BY <1>2, <1>4, <1>5, <1>6 DEF OneChange

-----------------------------------------------------------------------------
\* One page.

\* The records of a page are those whose rank is between its offset and its end.
OfPage(S, o, end) == {i \in S : o < Rank(i, S) /\ Rank(i, S) <= end}

IsPage(page, S, o, end) == page = SubSeq(Sorted(S), o + 1, end)

LEMMA PageHolds ==
  ASSUME NEW S \in SUBSET Nat, IsFiniteSet(S), NEW o \in Nat,
         NEW end \in 0 .. Cardinality(S), NEW page, IsPage(page, S, o, end)
  PROVE  /\ page \in Seq(S)
         /\ {page[k] : k \in DOMAIN page} = OfPage(S, o, end)
         /\ IsFiniteSet(OfPage(S, o, end)) /\ Len(page) = Cardinality(OfPage(S, o, end))
<1> DEFINE P == OfPage(S, o, end)
           n == IF end > o THEN end - o ELSE 0
<1>0. page = SubSeq(Sorted(S), o + 1, end)
  BY DEF IsPage
<1>1. /\ Cardinality(S) \in Nat
      /\ Sorted(S) \in Seq(S) /\ Len(Sorted(S)) = Cardinality(S)
      /\ \A k \in 1 .. Cardinality(S) : Rank(Sorted(S)[k], S) = k
      /\ \A i \in S : Rank(i, S) \in 1 .. Cardinality(S) /\ Sorted(S)[Rank(i, S)] = i
  BY SortedByRank, Ranks
<1>2. /\ n \in Nat /\ page \in Seq(S) /\ Len(page) = n
      /\ \A k \in 1 .. n : page[k] = Sorted(S)[o + k]
  <2>1. end \in Nat
    BY <1>1
  <2>2. CASE end > o
    <3>1. o + 1 \in 1 .. Len(Sorted(S)) + 1 /\ end \in (o + 1) - 1 .. Len(Sorted(S))
      BY <1>1, <2>2
    <3>. QED BY <1>0, <1>1, <2>2, <3>1, SubSeqProperties
  <2>3. CASE ~(end > o)
    BY <1>0, <1>1, <2>1, <2>3
  <2>. QED BY <2>2, <2>3
<1>3. /\ n \in Nat /\ end \in Nat /\ \A k \in 1 .. n : o + k \in 1 .. Cardinality(S) /\ o + k <= end
  BY <1>1
<1>. HIDE DEF n
<1>4. \A k \in 1 .. n : page[k] \in S /\ Rank(page[k], S) = o + k
  BY <1>1, <1>2, <1>3
<1>5. \A k \in 1 .. n : page[k] \in P
  BY <1>3, <1>4 DEF OfPage
<1>6. ASSUME NEW i \in P
      PROVE  Rank(i, S) - o \in 1 .. n /\ page[Rank(i, S) - o] = i
  <2>1. i \in S /\ o < Rank(i, S) /\ Rank(i, S) <= end /\ Rank(i, S) \in Nat
    BY <1>1 DEF OfPage
  <2>2. Rank(i, S) - o \in 1 .. n
    BY <1>3, <2>1 DEF n
  <2>. QED BY <1>1, <1>2, <2>1, <2>2
<1>7. DOMAIN page = 1 .. n
  BY <1>2
<1>8. page \in Surjection(1 .. n, P) /\ page \in Injection(1 .. n, P)
  <2>1. page \in [1 .. n -> P]
    <3>1. page \in [1 .. n -> S]
      BY <1>2, LenProperties
    <3>. HIDE DEF P
    <3>. QED BY <3>1, <1>5
  <2>2. \A i \in P : \E k \in 1 .. n : page[k] = i
    BY <1>6
  <2>3. \A j, k \in 1 .. n : page[j] = page[k] => j = k
    BY <1>3, <1>4
  <2>. HIDE DEF P
  <2>. QED BY <2>1, <2>2, <2>3 DEF Surjection, Injection, IsInjective
<1>9. IsFiniteSet(P) /\ n = Cardinality(P)
  <2>1. IsFiniteSet(1 .. n) /\ Cardinality(1 .. n) = n
    BY <1>3, FS_Interval
  <2>. QED BY <1>8, <2>1, FS_Surjection
<1>10. {page[k] : k \in DOMAIN page} = P
  <2>. HIDE DEF P
  <2>. QED BY <1>5, <1>6, <1>7
<1>. QED BY <1>2, <1>9, <1>10

\* A page that is not the last adds nothing to what is missed, and what it
\* repeats is no longer ahead; after the last one all that is left was missed.
LEMMA PageCounts ==
  ASSUME NEW S \in SUBSET Nat, IsFiniteSet(S), NEW o \in Nat,
         NEW end, end = Least(o + MaxPageSize, Cardinality(S)),
         NEW steady \in SUBSET S, NEW seen, IsFiniteSet(seen), NEW n \in Nat,
         NEW P, P = OfPage(S, o, end)
  PROVE  /\ end \in 0 .. Cardinality(S)
         /\ end < Cardinality(S) =>
              /\ Cardinality(Missed(steady, seen \cup P, o + MaxPageSize, S))
                   <= Cardinality(Missed(steady, seen, o, S))
              /\ Cardinality(Ahead(seen \cup P, o + MaxPageSize, S)) + (n + Cardinality(P)) - Cardinality(seen \cup P)
                   <= Cardinality(Ahead(seen, o, S)) + n - Cardinality(seen)
         /\ ~(end < Cardinality(S)) =>
              /\ Cardinality(steady \ (seen \cup P)) <= Cardinality(Missed(steady, seen, o, S))
              /\ (n + Cardinality(P)) - Cardinality(seen \cup P)
                   <= Cardinality(Ahead(seen, o, S)) + n - Cardinality(seen)
<1> DEFINE M == Missed(steady, seen, o, S)
           A == Ahead(seen, o, S)
           B == Ahead(seen \cup P, o + MaxPageSize, S)
<1>1. /\ Cardinality(S) \in Nat /\ MaxPageSize \in Nat \ {0}
      /\ \A i \in S : Rank(i, S) \in 1 .. Cardinality(S)
  BY Ranks, ReadsBoundAssumption
<1>2. end \in 0 .. Cardinality(S) /\ end <= o + MaxPageSize
  BY <1>1 DEF Least
<1>3. IsFiniteSet(P) /\ IsFiniteSet(M) /\ IsFiniteSet(A)
  BY FS_Subset DEF OfPage, Missed, Ahead
<1>4. /\ Cardinality(P) \in Nat /\ Cardinality(M) \in Nat /\ Cardinality(A) \in Nat
      /\ Cardinality(seen) \in Nat
  BY <1>3, FS_CardinalityType
<1>5. /\ IsFiniteSet(seen \cap P) /\ Cardinality(seen \cap P) \in Nat
      /\ Cardinality(seen \cup P) = Cardinality(seen) + Cardinality(P) - Cardinality(seen \cap P)
  BY <1>3, FS_Union, FS_Intersection, FS_CardinalityType
<1>6. P \subseteq S /\ \A i \in S : i \in P <=> o < Rank(i, S) /\ Rank(i, S) <= end
  BY DEF OfPage
<1>10. \A i \in S :
         /\ i \in Passed(o, S) <=> ~(o < Rank(i, S))
         /\ i \in Passed(o + MaxPageSize, S) <=> Rank(i, S) <= o + MaxPageSize
  BY <1>1 DEF Passed
<1>7. seen \cap P \subseteq A
  BY <1>6, <1>10 DEF Ahead
<1>8. ASSUME end < Cardinality(S)
      PROVE  /\ Cardinality(Missed(steady, seen \cup P, o + MaxPageSize, S)) <= Cardinality(M)
             /\ Cardinality(B) + (n + Cardinality(P)) - Cardinality(seen \cup P)
                  <= Cardinality(A) + n - Cardinality(seen)
  <2>1. end = o + MaxPageSize
    BY <1>1, <1>8 DEF Least
  <2>2. Missed(steady, seen \cup P, o + MaxPageSize, S) \subseteq M
    <3>1. \A i \in S : i \in Passed(o + MaxPageSize, S) => i \in P \/ i \in Passed(o, S)
      BY <1>6, <1>10, <2>1
    <3>. QED BY <3>1 DEF Missed
  <2>3. B \subseteq A /\ B \cap (seen \cap P) = {}
    <3>1. \A i \in P : i \in Passed(o + MaxPageSize, S)
      BY <1>6, <1>10, <2>1
    <3>2. Passed(o, S) \subseteq Passed(o + MaxPageSize, S)
      <4>1. \A i \in S : ~(o < Rank(i, S)) => Rank(i, S) <= o + MaxPageSize
        BY <1>1
      <4>. QED BY <1>10, <4>1 DEF Passed
    <3>. QED BY <3>1, <3>2 DEF Ahead
  <2>4. IsFiniteSet(B) /\ Cardinality(B) \in Nat
    BY <1>3, <2>3, FS_Subset, FS_CardinalityType
  <2>5. /\ IsFiniteSet(B \cup (seen \cap P))
        /\ Cardinality(B \cup (seen \cap P)) = Cardinality(B) + Cardinality(seen \cap P) - Cardinality({})
    <3>. HIDE DEF B
    <3>. QED BY <1>5, <2>3, <2>4, FS_Union
  <2>6. B \cup (seen \cap P) \subseteq A
    BY <1>7, <2>3
  <2>7. Cardinality(B \cup (seen \cap P)) <= Cardinality(A)
    BY <1>3, <2>6, FS_Subset
  <2>8. Cardinality({}) = 0
    BY FS_EmptySet
  <2>9. Cardinality(Missed(steady, seen \cup P, o + MaxPageSize, S)) <= Cardinality(M)
    BY <1>3, <2>2, FS_Subset
  <2>. HIDE DEF A, B, M
  <2>. QED BY <1>4, <1>5, <2>4, <2>5, <2>7, <2>8, <2>9
<1>9. ASSUME ~(end < Cardinality(S))
      PROVE  /\ Cardinality(steady \ (seen \cup P)) <= Cardinality(M)
             /\ (n + Cardinality(P)) - Cardinality(seen \cup P) <= Cardinality(A) + n - Cardinality(seen)
  <2>1. end = Cardinality(S)
    BY <1>1, <1>2, <1>9
  <2>2. steady \ (seen \cup P) \subseteq M
    <3>1. \A i \in S : i \in P \/ i \in Passed(o, S)
      BY <1>1, <1>6, <1>10, <2>1
    <3>. QED BY <3>1 DEF Missed
  <2>3. Cardinality(steady \ (seen \cup P)) <= Cardinality(M)
    BY <1>3, <2>2, FS_Subset
  <2>4. Cardinality(seen \cap P) <= Cardinality(A)
    BY <1>3, <1>7, FS_Subset
  <2>. HIDE DEF A, B, M
  <2>. QED BY <1>4, <1>5, <2>3, <2>4
<1>. QED BY <1>2, <1>8, <1>9

-----------------------------------------------------------------------------
\* The inductive invariant, in parts.

Texts    == {n.text : n \in Notes}
RecType  == [ns : Namespaces, class : Classes, text : Texts, status : Statuses,
             updated : Nat, stored : BOOLEAN]
SnapType == [cycle : Cycles \cup {""}, refs : SUBSET Nat, stored : BOOLEAN]

RecordCopy == [id : Nat, ns : Namespaces, text : Texts, status : Statuses, updated : Nat]
CopyType   == RecordCopy \cup [id : Nat]
QueryType  == [of : {"records", "snapshots"}, class : Classes \cup {""},
               cycle : Cycles \cup {""}, status : Statuses \cup {""}]
PartType   == (SUBSET Nat) \cup Seq(Texts)
Stages     == {"first", "page", "fetch", "stamp", "store", "done"}

ReadType == [at : Stages, kind : ReadKinds, ns : Namespaces, snap : Nat, todo : SUBSET Nat,
             queries : Seq(QueryType), offset : Nat, seen : Seq(CopyType), parts : Seq(PartType),
             steady : SUBSET Nat, leaves : Nat, entries : Nat, still : SUBSET Nat,
             saved : SUBSET Nat]

Types ==
  /\ recs \in Seq(RecType) /\ snaps \in Seq(SnapType)
  /\ writes \in Nat /\ reads \in Nat
  /\ read \in ReadType \cup {Idle}
  /\ \A i \in DOMAIN recs : recs[i].updated \in 1 .. Clock

RefsInv == \A k \in DOMAIN snaps : snaps[k].refs \subseteq StoredRecs \cup {0}

\* What has been listed and what is still to be listed are the queries of the
\* request.
QueriesInv ==
  read # Idle =>
    LET all == Queries(read.kind, read.ns)
    IN /\ Len(read.parts) + Len(read.queries) = Len(all)
       /\ \A k \in DOMAIN read.queries : read.queries[k] = all[Len(read.parts) + k]
       /\ read.at \in {"first", "page", "fetch"} <=> read.queries # <<>>
       /\ read.at = "fetch" => read.kind = "bundle"
       /\ read.at \in {"stamp", "store"} => read.kind = "checkpoint"

\* What the listing in progress selects now.
Hits == Selected(Head(read.queries), recs, snaps)

\* What was missed of the records passed, and what was repeated or will be;
\* nothing leaves a listing without a status.
PageInv ==
  read # Idle /\ read.at = "page" =>
    /\ read.steady \subseteq Hits
    /\ Cardinality(Missed(read.steady, Seen, read.offset, Hits)) <= read.leaves
    /\ Cardinality(Ahead(Seen, read.offset, Hits)) + Len(read.seen) - Cardinality(Seen) <= read.entries
    /\ Head(read.queries).status = "" => read.leaves = 0

ListedInv ==
  read # Idle =>
    /\ read.still \subseteq StoredRecs /\ IsFiniteSet(read.steady)
    /\ \A k \in DOMAIN read.seen : read.seen[k].id > 0
    /\ read.at # "page" => /\ Cardinality(read.steady \ Seen) <= read.leaves
                           /\ Len(read.seen) - Cardinality(Seen) <= read.entries

\* The export of a snapshot has got what it refers to and what is not to be
\* got any more.
BundleInv ==
  read # Idle /\ read.kind = "bundle" =>
    /\ read.snap \in DOMAIN snaps
    /\ LET known == snaps[read.snap].refs \ {0}
       IN /\ read.at = "fetch" =>
               /\ read.todo \subseteq snaps[read.snap].refs /\ read.steady = {}
               /\ Seen = known \ read.todo /\ Len(read.seen) = Cardinality(Seen)
          /\ read.at \in {"first", "page"} => known = {}
          /\ read.at = "done" => known = {} \/ read.parts[1] = known

\* What the snapshots that an export began with refer to is selected by its
\* first listing all the time.
RefsOf(k, cycle) == {i \in snaps[k].refs \ {0} : cycle # "" => recs[i].ns.cycle = cycle}

ExportInv ==
  read # Idle /\ read.kind = "export" =>
    /\ read.saved \subseteq DOMAIN snaps
    /\ \A k \in read.saved :
         /\ read.at = "page" /\ read.parts = <<>> => RefsOf(k, read.ns.cycle) \subseteq read.steady
         /\ read.parts # <<>> => RefsOf(k, read.ns.cycle) \subseteq read.parts[1]

CheckpointInv ==
  read # Idle /\ read.kind = "checkpoint" =>
    /\ read.at = "page"  => Seen \subseteq StoredRecs
    /\ read.at = "stamp" => read.parts[1] \subseteq StoredRecs
    /\ read.at = "store" => read.snap \in DOMAIN snaps

\* A part of a context shows what has not changed, hides what was archived and
\* puts open records first.
IsShownNow(i, p) == IsShown(AsCopy(i), read.ns, p = 1)

Shows(p, part) ==
  \A i \in read.still \cap OfClass(p) :
    IsShownNow(i, p) =>
      \/ \E x \in DOMAIN part : part[x] = recs[i].text
      \/ Len(part) = ClassCap(ContextOrder[p])

Hides(p, part) ==
  \A x \in DOMAIN part :
    \E i \in OfClass(p) : recs[i].text = part[x] /\ ~(i \in read.still /\ recs[i].status = "archived")

PutsOpenFirst(p, part) ==
  \A x, y \in DOMAIN part : x < y =>
    \A i \in read.still \cap OfClass(p) :
      recs[i].text = part[y] /\ recs[i].status = "open" /\ IsShownNow(i, p) =>
        \E j \in OfClass(p) :
          /\ recs[j].text = part[x]
          /\ LET near == ScopePriority(recs[j].ns, read.ns)
                 far  == ScopePriority(recs[i].ns, read.ns)
             IN near < far \/ (near = far /\ (j \in read.still => recs[j].status = "open"))

\* A copy that a context has listed says what the record said at some time,
\* and what it says now unless it has changed since the request.
CopyOf(c, p) ==
  /\ c \in RecordCopy /\ c.id \in OfClass(p)
  /\ c.ns = recs[c.id].ns /\ c.text = recs[c.id].text
  /\ c.id \in read.still => c = AsCopy(c.id)

ContextInv ==
  read # Idle /\ read.kind = "context" =>
    /\ read.at = "page" =>
         LET p == Len(read.parts) + 1
         IN /\ read.still \cap OfClass(p) \subseteq read.steady
            /\ \A k \in DOMAIN read.seen : CopyOf(read.seen[k], p)
    /\ \A p \in DOMAIN read.parts :
         /\ read.parts[p] \in Seq(Texts)
         /\ Shows(p, read.parts[p]) /\ Hides(p, read.parts[p]) /\ PutsOpenFirst(p, read.parts[p])

IInv ==
  /\ Types /\ RefsInv /\ QueriesInv /\ PageInv /\ ListedInv
  /\ BundleInv /\ ExportInv /\ CheckpointInv /\ ContextInv

-----------------------------------------------------------------------------
\* Facts about the state.

ListsClass(q, p)     == q = Query("records", ContextOrder[p], "", "")
ListsCycle(q, cycle) == q = Query("records", "", cycle, "")
ListsSnaps(q, cycle) == q = Query("snapshots", "", cycle, "")

\* all is what a request lists, one after another.
Shaped(all, kind, ns) ==
  /\ kind = "context" => Len(all) = 5 /\ \A p \in 1 .. 5 : ListsClass(all[p], p)
  /\ kind = "export"  => Len(all) = 2 /\ ListsCycle(all[1], ns.cycle) /\ ListsSnaps(all[2], ns.cycle)
  /\ kind \in {"checkpoint", "bundle"} => Len(all) = 1 /\ ListsCycle(all[1], ns.cycle)
  /\ kind = "matching" => Len(all) = 1

LEMMA FunctionIsSequence ==
  ASSUME NEW T, NEW n \in Nat, NEW f \in [1 .. n -> T]
  PROVE  f \in Seq(T) /\ Len(f) = n
OBVIOUS

LEMMA QueryShape ==
  ASSUME NEW kind \in ReadKinds, NEW ns \in Namespaces
  PROVE  /\ Queries(kind, ns) \in Seq(QueryType) /\ Len(Queries(kind, ns)) \in 1 .. 5
         /\ Shaped(Queries(kind, ns), kind, ns)
<1>1. ns.cycle \in Cycles \cup {""}
  BY DEF Namespaces
<1>2. /\ \A p \in 1 .. 5 : ContextOrder[p] \in Classes
      /\ "unresolved_gaps" \in Classes
  <2>1. \A k \in 1 .. 7 : ClassOrder[k] \in Classes
    BY DEF Classes
  <2>2. /\ ContextOrder[1] = ClassOrder[2] /\ ContextOrder[2] = ClassOrder[3]
        /\ ContextOrder[3] = ClassOrder[4] /\ ContextOrder[4] = ClassOrder[5]
        /\ ContextOrder[5] = ClassOrder[6] /\ ClassOrder[4] = "unresolved_gaps"
    BY DEF ContextOrder, ClassOrder
  <2>. QED BY <2>1, <2>2
<1>3. CASE kind = "context"
  <2>1. \A p \in 1 .. 5 : Query("records", ContextOrder[p], "", "") \in QueryType
    BY <1>2 DEF Query, QueryType
  <2>2. Queries(kind, ns) = [k \in 1 .. 5 |-> Query("records", ContextOrder[k], "", "")]
    BY <1>3 DEF Queries
  <2>3. Queries(kind, ns) \in [1 .. 5 -> QueryType]
    BY <2>1, <2>2, Zenon
  <2>4. Queries(kind, ns) \in Seq(QueryType) /\ Len(Queries(kind, ns)) = 5
    BY <2>3, FunctionIsSequence
  <2>5. \A p \in 1 .. 5 : ListsClass(Queries(kind, ns)[p], p)
    BY <2>2 DEF ListsClass
  <2>. QED BY <1>3, <2>4, <2>5 DEF Shaped
<1>4. CASE kind = "export"
  <2>1. /\ Query("records", "", ns.cycle, "") \in QueryType
        /\ Query("snapshots", "", ns.cycle, "") \in QueryType
    BY <1>1 DEF Query, QueryType
  <2>2. \E x, y \in QueryType :
           Queries(kind, ns) = <<x, y>> /\ ListsCycle(x, ns.cycle) /\ ListsSnaps(y, ns.cycle)
    BY <1>4, <2>1 DEF Queries, ListsCycle, ListsSnaps
  <2>3. /\ Queries(kind, ns) \in Seq(QueryType) /\ Len(Queries(kind, ns)) = 2
        /\ ListsCycle(Queries(kind, ns)[1], ns.cycle) /\ ListsSnaps(Queries(kind, ns)[2], ns.cycle)
    BY <2>2
  <2>. QED BY <1>4, <2>3 DEF Shaped
<1>5. CASE kind \in {"checkpoint", "bundle"}
  <2>1. Query("records", "", ns.cycle, "") \in QueryType
    BY <1>1 DEF Query, QueryType
  <2>2. \E x \in QueryType : Queries(kind, ns) = <<x>> /\ ListsCycle(x, ns.cycle)
    BY <1>5, <2>1 DEF Queries, ListsCycle
  <2>3. /\ Queries(kind, ns) \in Seq(QueryType) /\ Len(Queries(kind, ns)) = 1
        /\ ListsCycle(Queries(kind, ns)[1], ns.cycle)
    BY <2>2
  <2>. QED BY <1>5, <2>3 DEF Shaped
<1>6. CASE kind = "matching"
  <2>1. Query("records", "unresolved_gaps", "", "open") \in QueryType
    BY <1>2 DEF Query, QueryType, Statuses
  <2>2. \E x \in QueryType : Queries(kind, ns) = <<x>>
    BY <1>6, <2>1 DEF Queries
  <2>3. Queries(kind, ns) \in Seq(QueryType) /\ Len(Queries(kind, ns)) = 1
    BY <2>2
  <2>. QED BY <1>6, <2>3 DEF Shaped
<1>. QED BY <1>3, <1>4, <1>5, <1>6 DEF ReadKinds

LEMMA QueryFields ==
  ASSUME NEW q, NEW p, NEW cycle
  PROVE  /\ ListsClass(q, p) =>
              q.of = "records" /\ q.class = ContextOrder[p] /\ q.cycle = "" /\ q.status = ""
         /\ ListsCycle(q, cycle) =>
              q.of = "records" /\ q.class = "" /\ q.cycle = cycle /\ q.status = ""
         /\ ListsSnaps(q, cycle) => q.of = "snapshots" /\ q.cycle = cycle /\ q.status = ""
<1>1. ASSUME ListsClass(q, p)
      PROVE  q.of = "records" /\ q.class = ContextOrder[p] /\ q.cycle = "" /\ q.status = ""
  BY <1>1 DEF ListsClass, Query
<1>2. ASSUME ListsCycle(q, cycle)
      PROVE  q.of = "records" /\ q.class = "" /\ q.cycle = cycle /\ q.status = ""
  BY <1>2 DEF ListsCycle, Query
<1>3. ASSUME ListsSnaps(q, cycle)
      PROVE  q.of = "snapshots" /\ q.cycle = cycle /\ q.status = ""
  BY <1>3 DEF ListsSnaps, Query
<1>. QED BY <1>1, <1>2, <1>3

LEMMA NoStatus ==
  ASSUME NEW q, NEW p, NEW cycle, ListsClass(q, p) \/ ListsCycle(q, cycle) \/ ListsSnaps(q, cycle)
  PROVE  q.status = ""
BY QueryFields

LEMMA OnlyOne ==
  ASSUME NEW m \in Nat, NEW k \in Nat \ {0}, m + k = 1
  PROVE  m = 0 /\ k = 1
OBVIOUS

LEMMA NextPlace ==
  ASSUME NEW m \in Nat, NEW k \in Nat \ {0}, NEW n \in Nat, m + k = n
  PROVE  m + 1 \in 1 .. n
OBVIOUS

\* The listing that is to be made, or is being made.
LEMMA CurrentQuery ==
  ASSUME Types, QueriesInv, read # Idle, read.queries # <<>>
  PROVE  LET q == Head(read.queries)
             p == Len(read.parts) + 1
         IN /\ q \in QueryType /\ p \in Nat \ {0}
            /\ read.kind # "matching" => q.status = ""
            /\ read.kind = "context" => p \in 1 .. 5 /\ ListsClass(q, p)
            /\ read.kind = "export" => /\ p = 1 => ListsCycle(q, read.ns.cycle)
                                       /\ p # 1 => p = 2 /\ ListsSnaps(q, read.ns.cycle)
            /\ read.kind \in {"checkpoint", "bundle"} => p = 1 /\ ListsCycle(q, read.ns.cycle)
<1> DEFINE all == Queries(read.kind, read.ns)
           q   == Head(read.queries)
           p   == Len(read.parts) + 1
<1>1. /\ read.kind \in ReadKinds /\ read.ns \in Namespaces
      /\ read.queries \in Seq(QueryType) /\ Len(read.parts) \in Nat
  BY DEF Types, ReadType
<1>2. /\ Len(read.parts) + Len(read.queries) = Len(all)
      /\ \A k \in DOMAIN read.queries : read.queries[k] = all[Len(read.parts) + k]
  BY DEF QueriesInv
<1>3. Len(read.queries) \in Nat \ {0} /\ q = read.queries[1] /\ q \in QueryType
  BY <1>1
<1>4. Shaped(all, read.kind, read.ns)
  BY <1>1, QueryShape
<1>5. q = all[p]
  BY <1>1, <1>2, <1>3
<1>6. p \in 1 .. Len(all)
  <2>1. Len(all) \in 1 .. 5
    BY <1>1, QueryShape
  <2>2. Len(all) \in Nat
    BY <2>1
  <2>3. Len(read.parts) + Len(read.queries) = Len(all)
    BY <1>2
  <2>4. Len(read.queries) \in Nat \ {0}
    BY <1>3
  <2>. HIDE DEF all
  <2>. QED BY <1>1, <2>2, <2>3, <2>4, NextPlace
<1>. HIDE DEF all, q, p
<1>7. ASSUME read.kind = "context"
      PROVE  p \in 1 .. 5 /\ ListsClass(q, p)
  <2>1. Len(all) = 5 /\ \A k \in 1 .. 5 : ListsClass(all[k], k)
    BY <1>4, <1>7 DEF Shaped
  <2>2. p \in 1 .. 5
    BY <1>6, <2>1
  <2>3. ListsClass(all[p], p)
    BY <2>1, <2>2
  <2>. QED BY <1>5, <2>2, <2>3
<1>8. ASSUME read.kind = "export"
      PROVE  /\ p = 1 => ListsCycle(q, read.ns.cycle)
             /\ p # 1 => p = 2 /\ ListsSnaps(q, read.ns.cycle)
  <2>1. Len(all) = 2
    BY <1>4, <1>8 DEF Shaped
  <2>2. ListsCycle(all[1], read.ns.cycle) /\ ListsSnaps(all[2], read.ns.cycle)
    BY <1>4, <1>8 DEF Shaped
  <2>3. p = 1 \/ p = 2
    BY <1>6, <2>1
  <2>. QED BY <1>5, <2>2, <2>3
<1>9. read.kind \in {"checkpoint", "bundle"} => p = 1 /\ ListsCycle(q, read.ns.cycle)
  BY <1>4, <1>5, <1>6 DEF Shaped
<1>10. read.kind # "matching" => q.status = ""
  <2>1. ListsClass(q, p) \/ ListsCycle(q, read.ns.cycle) \/ ListsSnaps(q, read.ns.cycle) => q.status = ""
    BY NoStatus
  <2>. QED BY <1>1, <1>7, <1>8, <1>9, <2>1 DEF ReadKinds
<1>11. p \in Nat \ {0}
  BY <1>1 DEF p
<1>. QED BY <1>3, <1>7, <1>8, <1>9, <1>10, <1>11 DEF q, p

LEMMA SelectedIsFinite ==
  ASSUME NEW rs \in Seq(RecType), NEW ss \in Seq(SnapType), NEW q
  PROVE  /\ Selected(q, rs, ss) \in SUBSET (Nat \ {0}) /\ IsFiniteSet(Selected(q, rs, ss))
         /\ Selected(q, rs, ss) \in SUBSET Nat
<1>1. /\ Len(rs) \in Nat /\ Len(ss) \in Nat
      /\ DOMAIN rs = 1 .. Len(rs) /\ DOMAIN ss = 1 .. Len(ss)
  OBVIOUS
<1>2. Selected(q, rs, ss) \subseteq DOMAIN rs \/ Selected(q, rs, ss) \subseteq DOMAIN ss
  BY DEF Selected
<1>3. IsFiniteSet(1 .. Len(rs)) /\ IsFiniteSet(1 .. Len(ss))
  BY <1>1, FS_Interval
<1>4. IsFiniteSet(Selected(q, rs, ss))
  BY <1>1, <1>2, <1>3, FS_Subset
<1>. QED BY <1>1, <1>2, <1>4

LEMMA UpTo ==
  ASSUME NEW n \in Nat
  PROVE  IsFiniteSet(1 .. n) /\ Cardinality(1 .. n) = n
BY FS_Interval

\* The identifiers of what was seen.
IdsIn(s) == {s[k].id : k \in DOMAIN s}

LEMMA SeenIsFinite ==
  ASSUME NEW s \in Seq(CopyType)
  PROVE  /\ IdsIn(s) \in SUBSET Nat /\ IsFiniteSet(IdsIn(s))
         /\ Len(s) \in Nat /\ Cardinality(IdsIn(s)) \in Nat /\ Cardinality(IdsIn(s)) <= Len(s)
<1> DEFINE f == [k \in 1 .. Len(s) |-> s[k].id]
<1>1. Len(s) \in Nat /\ DOMAIN s = 1 .. Len(s)
  OBVIOUS
<1>2. \A k \in 1 .. Len(s) : s[k].id \in Nat
  BY DEF CopyType, RecordCopy
<1>3. f \in Surjection(1 .. Len(s), IdsIn(s))
  BY <1>1 DEF Surjection, IdsIn
<1>4. IsFiniteSet(1 .. Len(s)) /\ Cardinality(1 .. Len(s)) = Len(s)
  BY <1>1, UpTo
<1>. HIDE DEF f
<1>5. IsFiniteSet(IdsIn(s)) /\ Cardinality(IdsIn(s)) <= Len(s)
  BY <1>3, <1>4, FS_Surjection
<1>6. Cardinality(IdsIn(s)) \in Nat
  BY <1>5, FS_CardinalityType
<1>. QED BY <1>1, <1>2, <1>5, <1>6 DEF IdsIn

LEMMA SeenMore ==
  ASSUME NEW s \in Seq(CopyType), NEW t \in Seq(CopyType)
  PROVE  /\ s \o t \in Seq(CopyType) /\ Len(s \o t) = Len(s) + Len(t)
         /\ IdsIn(s \o t) = IdsIn(s) \cup IdsIn(t)
         /\ \A k \in DOMAIN (s \o t) : \/ k \in DOMAIN s /\ (s \o t)[k] = s[k]
                                       \/ \E j \in DOMAIN t : (s \o t)[k] = t[j]
<1>1. /\ Len(s) \in Nat /\ Len(t) \in Nat /\ Len(s \o t) = Len(s) + Len(t) /\ s \o t \in Seq(CopyType)
      /\ DOMAIN s = 1 .. Len(s) /\ DOMAIN t = 1 .. Len(t) /\ DOMAIN (s \o t) = 1 .. (Len(s) + Len(t))
  BY ConcatProperties, LenProperties
<1>2. /\ \A k \in DOMAIN s : k \in DOMAIN (s \o t) /\ (s \o t)[k] = s[k]
      /\ \A k \in DOMAIN t : Len(s) + k \in DOMAIN (s \o t) /\ (s \o t)[Len(s) + k] = t[k]
  BY <1>1
<1>3. ASSUME NEW k \in DOMAIN (s \o t)
      PROVE  \/ k \in DOMAIN s /\ (s \o t)[k] = s[k]
             \/ \E j \in DOMAIN t : (s \o t)[k] = t[j]
  <2>1. CASE k \in DOMAIN s
    BY <1>2, <2>1
  <2>2. CASE k \notin DOMAIN s
    <3>1. k - Len(s) \in DOMAIN t /\ Len(s) + (k - Len(s)) = k
      BY <1>1, <2>2
    <3>. QED BY <1>2, <3>1
  <2>. QED BY <2>1, <2>2
<1>4. IdsIn(s \o t) \subseteq IdsIn(s) \cup IdsIn(t)
  BY <1>3 DEF IdsIn
<1>5. IdsIn(s) \cup IdsIn(t) \subseteq IdsIn(s \o t)
  BY <1>2 DEF IdsIn
<1>. QED BY <1>1, <1>3, <1>4, <1>5

-----------------------------------------------------------------------------
\* What a writer does to the store and to the history of the read.

Grown ==
  /\ \A i \in DOMAIN recs :
       /\ i \in DOMAIN recs' /\ recs'[i].ns = recs[i].ns /\ recs'[i].class = recs[i].class
       /\ recs'[i].text = recs[i].text /\ (recs[i].stored => recs'[i].stored)
  /\ \A k \in DOMAIN snaps :
       k \in DOMAIN snaps' /\ snaps'[k].cycle = snaps[k].cycle /\ snaps'[k].refs = snaps[k].refs

SameRead(r, s) ==
  /\ s.at = r.at /\ s.kind = r.kind /\ s.ns = r.ns /\ s.snap = r.snap /\ s.todo = r.todo
  /\ s.queries = r.queries /\ s.offset = r.offset /\ s.seen = r.seen /\ s.parts = r.parts
  /\ s.saved = r.saved

Follows ==
  /\ read # Idle /\ read' # Idle /\ SameRead(read, read')
  /\ read'.still \subseteq read.still /\ \A i \in read'.still : recs'[i] = recs[i]
  /\ read.at # "page" =>
       read'.steady \subseteq read.steady /\ read'.leaves = read.leaves /\ read'.entries = read.entries
  /\ read.at = "page" =>
       /\ OneChange(Hits, Hits')
       /\ Head(read.queries).status = "" => Hits \subseteq Hits'
       /\ read'.steady  = read.steady \cap Hits'
       /\ read'.leaves  = read.leaves + Cardinality(Hits \ Hits')
       /\ read'.entries = read.entries + Cardinality(Hits' \ Hits)

\* One record, or one snapshot, is stored or written; all others are as they
\* were.
OnlyAt(x) ==
  /\ \A q, j : j # x => (j \in Selected(q, recs, snaps) <=> j \in Selected(q, recs', snaps'))
  /\ \A q : q.status = "" => Selected(q, recs, snaps) \subseteq Selected(q, recs', snaps')

LEMMA OneOther ==
  ASSUME NEW S, NEW T, NEW x, \A j : j # x => (j \in S <=> j \in T)
  PROVE  OneChange(S, T)
<1>1. CASE x \in S /\ x \notin T
  <2>1. T = S \ {x}
    BY <1>1
  <2>. QED BY <1>1, <2>1 DEF OneChange
<1>2. CASE x \notin S /\ x \in T
  <2>1. S = T \ {x}
    BY <1>2
  <2>. QED BY <1>2, <2>1 DEF OneChange
<1>3. CASE x \in S <=> x \in T
  <2>1. T = S
    BY <1>3
  <2>. QED BY <2>1 DEF OneChange
<1>. QED BY <1>1, <1>2, <1>3

LEMMA IdleOrRead ==
  ASSUME Types
  PROVE  read # Idle => read \in ReadType
BY DEF Types

LEMMA ReadIsNotIdle ==
  ASSUME NEW r \in ReadType
  PROVE  r # Idle
<1>1. r.at \in Stages
  BY DEF ReadType
<1>2. Idle.at = "idle"
  BY DEF Idle
<1>. QED BY <1>1, <1>2 DEF Stages

LEMMA WatchFollows ==
  ASSUME Types, read # Idle, recs' \in Seq(RecType), snaps' \in Seq(SnapType),
         NEW x, OnlyAt(x), Watch(recs', snaps')
  PROVE  read' \in ReadType /\ Follows
<1> DEFINE q   == Head(read.queries)
           was == IF read.at = "page" THEN Selected(q, recs, snaps) ELSE {}
           is  == IF read.at = "page" THEN Selected(q, recs', snaps') ELSE {}
<1>1. read \in ReadType
  BY IdleOrRead
<1>2. read' = [read EXCEPT !.still   = {i \in @ : recs'[i] = recs[i]},
                           !.steady  = @ \cap is,
                           !.leaves  = @ + Cardinality(was \ is),
                           !.entries = @ + Cardinality(is \ was)]
  BY DEF Watch
<1>3. /\ IsFiniteSet(was) /\ IsFiniteSet(is)
  BY SelectedIsFinite, FS_EmptySet DEF Types
<1>4. Cardinality(was \ is) \in Nat /\ Cardinality(is \ was) \in Nat
  BY <1>3, FS_Subset, FS_CardinalityType
<1>. HIDE DEF was, is
<1>5. /\ read'.still = {i \in read.still : recs'[i] = recs[i]}
      /\ read'.steady = read.steady \cap is
      /\ read'.leaves = read.leaves + Cardinality(was \ is)
      /\ read'.entries = read.entries + Cardinality(is \ was)
      /\ SameRead(read, read')
  BY <1>1, <1>2 DEF ReadType, SameRead
<1>6. read' \in ReadType
  <2>1. /\ {i \in read.still : recs'[i] = recs[i]} \in SUBSET Nat
        /\ read.steady \cap is \in SUBSET Nat
        /\ read.leaves + Cardinality(was \ is) \in Nat
        /\ read.entries + Cardinality(is \ was) \in Nat
    <3>1. read.still \in SUBSET Nat /\ read.steady \in SUBSET Nat /\ read.leaves \in Nat /\ read.entries \in Nat
      BY <1>1 DEF ReadType
    <3>. QED BY <1>4, <3>1
  <2>. QED BY <1>1, <1>2, <2>1 DEF ReadType
<1>7. read' # Idle
  BY <1>6, ReadIsNotIdle
<1>8. CASE read.at = "page"
  <2>1. was = Hits /\ is = Hits'
    BY <1>5, <1>8 DEF was, is, Hits, SameRead
  <2>2. OneChange(Hits, Hits') /\ (q.status = "" => Hits \subseteq Hits')
    <3>1. \A j : j # x => (j \in was <=> j \in is)
      BY <1>8 DEF was, is, OnlyAt
    <3>2. q.status = "" => was \subseteq is
      BY <1>8 DEF was, is, OnlyAt
    <3>. QED BY <2>1, <3>1, <3>2, OneOther
  <2>3. /\ read'.still \subseteq read.still /\ \A i \in read'.still : recs'[i] = recs[i]
        /\ read'.steady  = read.steady \cap Hits'
    BY <1>5, <2>1
  <2>4. /\ read'.leaves  = read.leaves + Cardinality(Hits \ Hits')
        /\ read'.entries = read.entries + Cardinality(Hits' \ Hits)
    BY <1>5, <2>1
  <2>. QED BY <1>5, <1>6, <1>7, <1>8, <2>2, <2>3, <2>4 DEF Follows
<1>9. CASE read.at # "page"
  <2>1. was = {} /\ is = {}
    BY <1>9 DEF was, is
  <2>2. Cardinality(was \ is) = 0 /\ Cardinality(is \ was) = 0
    BY <2>1, FS_EmptySet
  <2>3. read'.leaves = read.leaves /\ read'.entries = read.entries
    BY <1>1, <1>5, <2>2 DEF ReadType
  <2>4. /\ read'.still \subseteq read.still /\ \A i \in read'.still : recs'[i] = recs[i]
        /\ read'.steady \subseteq read.steady
    BY <1>5
  <2>. QED BY <1>5, <1>6, <1>7, <1>9, <2>3, <2>4 DEF Follows
<1>. QED BY <1>8, <1>9

LEMMA ChangedInPlace ==
  ASSUME NEW T, NEW s \in Seq(T), NEW x \in DOMAIN s, NEW v \in T, NEW t, t = [s EXCEPT ![x] = v]
  PROVE  /\ t \in Seq(T) /\ Len(t) = Len(s) /\ DOMAIN t = DOMAIN s
         /\ t[x] = v /\ \A i \in DOMAIN s : i # x => t[i] = s[i]
<1>1. Len(s) \in Nat /\ DOMAIN s = 1 .. Len(s) /\ s \in [1 .. Len(s) -> T]
  BY LenProperties
<1>2. t \in [1 .. Len(s) -> T]
  BY <1>1
<1>3. t \in Seq(T) /\ Len(t) = Len(s)
  BY <1>1, <1>2, FunctionIsSequence
<1>. QED BY <1>1, <1>2, <1>3

LEMMA Unwatched ==
  ASSUME Types, PageInv, ListedInv, read # Idle, read' = read,
         \A q : Selected(q, recs', snaps') = Selected(q, recs, snaps),
         \A i \in DOMAIN recs : recs'[i] = recs[i]
  PROVE  Follows
<1>1. read \in ReadType
  BY IdleOrRead
<1>2. Hits' = Hits
  BY DEF Hits
<1>3. Cardinality({}) = 0 /\ read.leaves + 0 = read.leaves /\ read.entries + 0 = read.entries
  BY <1>1, FS_EmptySet DEF ReadType
<1>4. /\ OneChange(Hits, Hits') /\ Hits \subseteq Hits'
      /\ Hits \ Hits' = {} /\ Hits' \ Hits = {}
  BY <1>2 DEF OneChange
<1>5. read.at = "page" => read.steady = read.steady \cap Hits'
  BY <1>2 DEF PageInv
<1>6. \A i \in read.still : recs'[i] = recs[i]
  BY DEF ListedInv, StoredRecs
<1>7. SameRead(read, read')
  BY DEF SameRead
<1>. QED BY <1>3, <1>4, <1>5, <1>6, <1>7 DEF Follows

\* What every step of a writer does.
Wrote ==
  /\ Types' /\ RefsInv' /\ Grown
  /\ \/ Follows
     \/ read = Idle /\ read' = Idle

LEMMA StampRecordWrites ==
  ASSUME Types, RefsInv, PageInv, ListedInv, NEW n \in Notes, StampRecord(n)
  PROVE  Wrote
<1> DEFINE rec == [ns |-> n.ns, class |-> n.class, text |-> n.text,
                   status |-> n.status, updated |-> Clock + 1, stored |-> FALSE]
<1>1. /\ recs \in Seq(RecType) /\ Len(recs) \in Nat /\ writes \in Nat /\ Clock \in Nat
      /\ Clock = Len(recs) + writes /\ DOMAIN recs = 1 .. Len(recs)
  BY DEF Types, Clock
<1>2. /\ recs' = Append(recs, rec) /\ snaps' = snaps /\ read' = read /\ writes' = writes /\ reads' = reads
  BY DEF StampRecord
<1>3. rec \in RecType /\ rec.stored = FALSE
  BY <1>1, NotesAssumption DEF RecType, Texts
<1>4. rec.updated = Clock + 1
  OBVIOUS
<1>. HIDE DEF rec
<1>5. /\ recs' \in Seq(RecType) /\ Len(recs') = Len(recs) + 1
      /\ DOMAIN recs' = 1 .. (Len(recs) + 1)
      /\ \A i \in DOMAIN recs : i \in DOMAIN recs' /\ recs'[i] = recs[i]
      /\ recs'[Len(recs) + 1] = rec
  BY <1>1, <1>2, <1>3, AppendProperties
<1>6. \A i \in DOMAIN recs' : i \in DOMAIN recs \/ recs'[i] = rec
  BY <1>1, <1>5
<1>7. Types'
  <2>1. Clock' = Clock + 1
    BY <1>1, <1>2, <1>5 DEF Clock
  <2>2. \A i \in DOMAIN recs' : recs'[i].updated \in 1 .. Clock'
    <3> SUFFICES ASSUME NEW i \in DOMAIN recs'
                 PROVE  recs'[i].updated \in 1 .. Clock'
      OBVIOUS
    <3>1. CASE i \in DOMAIN recs
      <4>1. recs'[i].updated = recs[i].updated /\ recs[i].updated \in 1 .. Clock
        BY <1>5, <3>1 DEF Types
      <4>. QED BY <1>1, <2>1, <4>1
    <3>2. CASE recs'[i] = rec
      BY <1>1, <1>4, <2>1, <3>2
    <3>. QED BY <1>6, <3>1, <3>2
  <2>. QED BY <1>2, <1>5, <2>2 DEF Types
<1>8. StoredRecs' = StoredRecs
  BY <1>3, <1>5, <1>6 DEF StoredRecs
<1>9. RefsInv'
  BY <1>2, <1>8 DEF RefsInv
<1>10. Grown
  BY <1>2, <1>5 DEF Grown
<1>11. \A q : Selected(q, recs', snaps') = Selected(q, recs, snaps)
  <2> SUFFICES ASSUME NEW q PROVE Selected(q, recs', snaps') = Selected(q, recs, snaps)
    OBVIOUS
  <2>1. CASE q.of = "snapshots"
    BY <1>2, <2>1 DEF Selected
  <2>2. CASE q.of # "snapshots"
    <3>1. \A i : i \in Selected(q, recs', snaps') <=> i \in Selected(q, recs, snaps)
      BY <1>3, <1>5, <1>6, <2>2 DEF Selected
    <3>. QED BY <3>1
  <2>. QED BY <2>1, <2>2
<1>12. ASSUME read # Idle
       PROVE  Follows
  BY <1>2, <1>5, <1>11, <1>12, Unwatched
<1>. QED BY <1>2, <1>7, <1>9, <1>10, <1>12 DEF Wrote

LEMMA StampSnapshotWrites ==
  ASSUME Types, RefsInv, PageInv, ListedInv, NEW cycle \in SnapshotCycles, NEW i \in StoredRecs \cup {0},
         StampSnapshot(cycle, i)
  PROVE  Wrote
<1> DEFINE snap == Snapshot(cycle, {i})
<1>1. snaps \in Seq(SnapType) /\ Len(snaps) \in Nat /\ DOMAIN snaps = 1 .. Len(snaps)
  BY DEF Types
<1>2. snaps' = Append(snaps, snap) /\ recs' = recs /\ read' = read /\ writes' = writes /\ reads' = reads
  BY DEF StampSnapshot
<1>3. i \in Nat
  BY DEF StoredRecs, Types
<1>4. snap \in SnapType /\ snap.stored = FALSE /\ snap.refs = {i}
  BY <1>3, RequestsAssumption DEF SnapType, Snapshot
<1>. HIDE DEF snap
<1>5. /\ snaps' \in Seq(SnapType) /\ Len(snaps') = Len(snaps) + 1
      /\ DOMAIN snaps' = 1 .. (Len(snaps) + 1)
      /\ \A k \in DOMAIN snaps : k \in DOMAIN snaps' /\ snaps'[k] = snaps[k]
      /\ snaps'[Len(snaps) + 1] = snap
  BY <1>1, <1>2, <1>4, AppendProperties
<1>6. \A k \in DOMAIN snaps' : k \in DOMAIN snaps \/ snaps'[k] = snap
  BY <1>1, <1>5
<1>7. Types'
  BY <1>2, <1>5 DEF Types, Clock
<1>8. RefsInv'
  BY <1>2, <1>4, <1>5, <1>6 DEF RefsInv, StoredRecs
<1>9. Grown
  BY <1>2, <1>5 DEF Grown
<1>10. \A q : Selected(q, recs', snaps') = Selected(q, recs, snaps)
  <2> SUFFICES ASSUME NEW q PROVE Selected(q, recs', snaps') = Selected(q, recs, snaps)
    OBVIOUS
  <2>1. CASE q.of # "snapshots"
    BY <1>2, <2>1 DEF Selected
  <2>2. CASE q.of = "snapshots"
    <3>1. \A k : k \in Selected(q, recs', snaps') <=> k \in Selected(q, recs, snaps)
      BY <1>4, <1>5, <1>6, <2>2 DEF Selected
    <3>. QED BY <3>1
  <2>. QED BY <2>1, <2>2
<1>11. ASSUME read # Idle
       PROVE  Follows
  BY <1>2, <1>10, <1>11, Unwatched
<1>. QED BY <1>2, <1>7, <1>8, <1>9, <1>11 DEF Wrote

\* A record, or a snapshot, that is changed in its place.
LEMMA StoreRecordWrites ==
  ASSUME Types, RefsInv, PageInv, ListedInv, NEW x \in DOMAIN recs, StoreRecord(x)
  PROVE  Wrote
<1> DEFINE new == [recs[x] EXCEPT !.stored = TRUE]
<1>1. /\ recs \in Seq(RecType) /\ snaps' = snaps /\ writes' = writes /\ reads' = reads
      /\ recs' = [recs EXCEPT ![x] = new]
  BY DEF Types, StoreRecord
<1>10. recs[x] \in RecType
  BY <1>1
<1>11. /\ new \in RecType /\ new.ns = recs[x].ns /\ new.class = recs[x].class
       /\ new.text = recs[x].text /\ new.status = recs[x].status /\ new.updated = recs[x].updated
       /\ new.stored
  BY <1>10 DEF RecType
<1>. HIDE DEF new
<1>2. /\ recs' \in Seq(RecType) /\ Len(recs') = Len(recs) /\ DOMAIN recs' = DOMAIN recs
      /\ recs'[x] = new /\ \A i \in DOMAIN recs : i # x => recs'[i] = recs[i]
  BY <1>1, <1>11, ChangedInPlace
<1>3. \A i \in DOMAIN recs :
        /\ recs'[i].ns = recs[i].ns /\ recs'[i].class = recs[i].class /\ recs'[i].text = recs[i].text
        /\ recs'[i].status = recs[i].status /\ recs'[i].updated = recs[i].updated
        /\ recs[i].stored => recs'[i].stored
  BY <1>2, <1>11
<1>4. Grown
  BY <1>1, <1>2, <1>3 DEF Grown
<1>5. RefsInv'
  BY <1>1, <1>2, <1>3 DEF RefsInv, StoredRecs
<1>6. OnlyAt(x)
  <2>1. snaps' = snaps /\ DOMAIN recs' = DOMAIN recs
    BY <1>1, <1>2
  <2>2. ASSUME NEW q, NEW j, j # x
        PROVE  j \in Selected(q, recs, snaps) <=> j \in Selected(q, recs', snaps')
    BY <2>1, <2>2, <1>2 DEF Selected
  <2>3. ASSUME NEW q, q.status = ""
        PROVE  Selected(q, recs, snaps) \subseteq Selected(q, recs', snaps')
    BY <2>1, <2>3, <1>3 DEF Selected
  <2>. QED BY <2>2, <2>3 DEF OnlyAt
<1>7. snaps' \in Seq(SnapType) /\ Watch(recs', snaps')
  BY <1>1 DEF Types, StoreRecord
<1>8. CASE read = Idle
  <2>1. read' = Idle
    BY <1>7, <1>8 DEF Watch
  <2>2. Types'
    BY <1>1, <1>2, <1>3, <2>1 DEF Types, Clock
  <2>. QED BY <1>4, <1>5, <1>8, <2>1, <2>2 DEF Wrote
<1>9. CASE read # Idle
  <2>1. read' \in ReadType /\ Follows
    BY <1>2, <1>6, <1>7, <1>9, WatchFollows
  <2>2. Types'
    BY <1>1, <1>2, <1>3, <2>1 DEF Types, Clock
  <2>. QED BY <1>4, <1>5, <2>1, <2>2 DEF Wrote
<1>. QED BY <1>8, <1>9

LEMMA StoreSnapshotWrites ==
  ASSUME Types, RefsInv, PageInv, ListedInv, NEW x \in DOMAIN snaps, StoreSnapshot(x)
  PROVE  Wrote
<1> DEFINE new == [snaps[x] EXCEPT !.stored = TRUE]
<1>1. /\ snaps \in Seq(SnapType) /\ recs' = recs /\ writes' = writes /\ reads' = reads
      /\ snaps' = [snaps EXCEPT ![x] = new]
  BY DEF Types, StoreSnapshot
<1>10. snaps[x] \in SnapType
  BY <1>1
<1>11. new \in SnapType /\ new.cycle = snaps[x].cycle /\ new.refs = snaps[x].refs /\ new.stored
  BY <1>10 DEF SnapType
<1>. HIDE DEF new
<1>2. /\ snaps' \in Seq(SnapType) /\ DOMAIN snaps' = DOMAIN snaps
      /\ snaps'[x] = new /\ \A k \in DOMAIN snaps : k # x => snaps'[k] = snaps[k]
  BY <1>1, <1>11, ChangedInPlace
<1>3. \A k \in DOMAIN snaps :
        /\ snaps'[k].cycle = snaps[k].cycle /\ snaps'[k].refs = snaps[k].refs
        /\ snaps[k].stored => snaps'[k].stored
  BY <1>2, <1>11
<1>4. Grown
  BY <1>1, <1>2, <1>3 DEF Grown
<1>5. RefsInv'
  BY <1>1, <1>2, <1>3 DEF RefsInv, StoredRecs
<1>6. OnlyAt(x)
  <2>1. recs' = recs /\ DOMAIN snaps' = DOMAIN snaps
    BY <1>1, <1>2
  <2>2. ASSUME NEW q, NEW j, j # x
        PROVE  j \in Selected(q, recs, snaps) <=> j \in Selected(q, recs', snaps')
    BY <2>1, <2>2, <1>2 DEF Selected
  <2>3. ASSUME NEW q
        PROVE  Selected(q, recs, snaps) \subseteq Selected(q, recs', snaps')
    BY <2>1, <1>3 DEF Selected
  <2>. QED BY <2>2, <2>3 DEF OnlyAt
<1>7. recs' \in Seq(RecType) /\ Watch(recs', snaps')
  BY <1>1 DEF Types, StoreSnapshot
<1>8. CASE read = Idle
  <2>1. read' = Idle
    BY <1>7, <1>8 DEF Watch
  <2>2. Types'
    BY <1>1, <1>2, <2>1 DEF Types, Clock
  <2>. QED BY <1>4, <1>5, <1>8, <2>1, <2>2 DEF Wrote
<1>9. CASE read # Idle
  <2>1. read' \in ReadType /\ Follows
    BY <1>2, <1>6, <1>7, <1>9, WatchFollows
  <2>2. Types'
    BY <1>1, <1>2, <2>1 DEF Types, Clock
  <2>. QED BY <1>4, <1>5, <2>1, <2>2 DEF Wrote
<1>. QED BY <1>8, <1>9

LEMMA WriteStatusWrites ==
  ASSUME Types, RefsInv, PageInv, ListedInv, NEW x \in StoredRecs, NEW status \in Targets,
         WriteStatus(x, status)
  PROVE  Wrote
<1> DEFINE new == [recs[x] EXCEPT !.status = status, !.updated = Clock + 1]
<1>1. /\ recs \in Seq(RecType) /\ snaps' = snaps /\ writes' = writes + 1 /\ reads' = reads
      /\ recs' = [[recs EXCEPT ![x].status = status] EXCEPT ![x].updated = Clock + 1]
      /\ x \in DOMAIN recs /\ Len(recs) \in Nat /\ writes \in Nat
  BY DEF Types, WriteStatus, StoredRecs
<1>13. recs' = [recs EXCEPT ![x] = new]
  BY <1>1
<1>2. Clock \in Nat /\ status \in Statuses
  <2>1. Clock \in Nat
    BY <1>1 DEF Clock
  <2>2. status \in Statuses
    BY RequestsAssumption
  <2>. QED BY <2>1, <2>2
<1>14. recs[x] \in RecType
  BY <1>1
<1>15. /\ new \in RecType /\ new.ns = recs[x].ns /\ new.class = recs[x].class
       /\ new.text = recs[x].text /\ new.updated = Clock + 1 /\ new.stored = recs[x].stored
  <2>1. Clock + 1 \in Nat
    BY <1>2
  <2>. QED BY <1>2, <1>14, <2>1 DEF RecType
<1>. HIDE DEF new
<1>3. /\ recs' \in Seq(RecType) /\ Len(recs') = Len(recs) /\ DOMAIN recs' = DOMAIN recs
      /\ recs'[x] = new /\ \A i \in DOMAIN recs : i # x => recs'[i] = recs[i]
  <2>1. recs \in Seq(RecType) /\ x \in DOMAIN recs
    BY <1>1
  <2>. QED BY <1>13, <1>15, <2>1, ChangedInPlace
<1>4. \A i \in DOMAIN recs :
        /\ recs'[i].ns = recs[i].ns /\ recs'[i].class = recs[i].class /\ recs'[i].text = recs[i].text
        /\ recs'[i].stored = recs[i].stored
  BY <1>3, <1>15
<1>5. Clock' = Clock + 1
  BY <1>1, <1>3 DEF Clock
<1>6. \A i \in DOMAIN recs' : recs'[i].updated \in 1 .. Clock'
  <2> SUFFICES ASSUME NEW i \in DOMAIN recs'
               PROVE  recs'[i].updated \in 1 .. Clock'
    OBVIOUS
  <2>1. CASE i = x
    BY <1>2, <1>3, <1>5, <1>15, <2>1
  <2>2. CASE i # x
    <3>1. recs'[i].updated = recs[i].updated /\ recs[i].updated \in 1 .. Clock
      BY <1>3, <2>2 DEF Types
    <3>. QED BY <1>2, <1>5, <3>1
  <2>. QED BY <2>1, <2>2
<1>7. Grown
  BY <1>1, <1>3, <1>4 DEF Grown
<1>8. RefsInv'
  BY <1>1, <1>3, <1>4 DEF RefsInv, StoredRecs
<1>9. OnlyAt(x)
  <2>1. snaps' = snaps /\ DOMAIN recs' = DOMAIN recs
    BY <1>1, <1>3
  <2>2. ASSUME NEW q, NEW j, j # x
        PROVE  j \in Selected(q, recs, snaps) <=> j \in Selected(q, recs', snaps')
    BY <2>1, <2>2, <1>3 DEF Selected
  <2>3. ASSUME NEW q, q.status = ""
        PROVE  Selected(q, recs, snaps) \subseteq Selected(q, recs', snaps')
    BY <2>1, <2>3, <1>4 DEF Selected
  <2>. QED BY <2>2, <2>3 DEF OnlyAt
<1>10. snaps' \in Seq(SnapType) /\ Watch(recs', snaps') /\ writes' \in Nat
  BY <1>1 DEF Types, WriteStatus
<1>11. CASE read = Idle
  <2>1. read' = Idle
    BY <1>10, <1>11 DEF Watch
  <2>2. Types'
    BY <1>1, <1>3, <1>6, <1>10, <2>1 DEF Types
  <2>. QED BY <1>7, <1>8, <1>11, <2>1, <2>2 DEF Wrote
<1>12. CASE read # Idle
  <2>1. read' \in ReadType /\ Follows
    BY <1>3, <1>9, <1>10, <1>12, WatchFollows
  <2>2. Types'
    BY <1>1, <1>3, <1>6, <1>10, <2>1 DEF Types
  <2>. QED BY <1>7, <1>8, <2>1, <2>2 DEF Wrote
<1>. QED BY <1>11, <1>12

\* What the listings of a read have counted holds through a write.
LEMMA QueriesThroughWrite ==
  ASSUME QueriesInv, Follows
  PROVE  QueriesInv'
<1>1. /\ read # Idle /\ read'.at = read.at /\ read'.kind = read.kind /\ read'.ns = read.ns
      /\ read'.queries = read.queries /\ read'.parts = read.parts
  BY DEF Follows, SameRead
<1>2. QueriesInv' <=> (read' # Idle =>
        LET all == Queries(read'.kind, read'.ns)
        IN /\ Len(read'.parts) + Len(read'.queries) = Len(all)
           /\ \A k \in DOMAIN read'.queries : read'.queries[k] = all[Len(read'.parts) + k]
           /\ read'.at \in {"first", "page", "fetch"} <=> read'.queries # <<>>
           /\ read'.at = "fetch" => read'.kind = "bundle"
           /\ read'.at \in {"stamp", "store"} => read'.kind = "checkpoint")
  BY DEF QueriesInv, Queries
<1>. QED BY <1>1, <1>2 DEF QueriesInv

LEMMA SeenThroughWrite ==
  ASSUME Follows
  PROVE  Seen' = Seen
<1>1. read'.seen = read.seen
  BY DEF Follows, SameRead
<1>. QED BY <1>1 DEF Seen, SeenBy

LEMMA HitsAreFinite ==
  ASSUME Types
  PROVE  Hits \in SUBSET Nat /\ IsFiniteSet(Hits)
BY SelectedIsFinite DEF Types, Hits

LEMMA AddedToBoth ==
  ASSUME NEW a \in Nat, NEW b \in Nat, NEW c \in Nat, NEW d \in Nat, NEW e \in Nat, NEW n \in Nat,
         a <= b + d, b + n - c <= e
  PROVE  a + n - c <= e + d
OBVIOUS

LEMMA PageThroughWrite ==
  ASSUME Types, Types', PageInv, Follows
  PROVE  PageInv'
<1> SUFFICES ASSUME read'.at = "page"
             PROVE  /\ read'.steady \subseteq Hits'
                    /\ Cardinality(Missed(read'.steady, Seen', read'.offset, Hits')) <= read'.leaves
                    /\ Cardinality(Ahead(Seen', read'.offset, Hits')) + Len(read'.seen) - Cardinality(Seen')
                         <= read'.entries
                    /\ Head(read'.queries).status = "" => read'.leaves = 0
  BY DEF PageInv, Missed, Ahead, Passed, Rank
<1>1. /\ read # Idle /\ read' # Idle /\ read.at = "page" /\ read'.offset = read.offset
      /\ read'.seen = read.seen /\ read'.queries = read.queries
  BY DEF Follows, SameRead
<1>2. /\ OneChange(Hits, Hits')
      /\ Head(read.queries).status = "" => Hits \subseteq Hits'
      /\ read'.steady  = read.steady \cap Hits'
      /\ read'.leaves  = read.leaves + Cardinality(Hits \ Hits')
      /\ read'.entries = read.entries + Cardinality(Hits' \ Hits)
  BY <1>1 DEF Follows
<1>3. /\ read.steady \subseteq Hits
      /\ Cardinality(Missed(read.steady, Seen, read.offset, Hits)) <= read.leaves
      /\ Cardinality(Ahead(Seen, read.offset, Hits)) + Len(read.seen) - Cardinality(Seen) <= read.entries
      /\ Head(read.queries).status = "" => read.leaves = 0
  BY <1>1 DEF PageInv
<1>4. /\ Hits \in SUBSET Nat /\ IsFiniteSet(Hits) /\ Hits' \in SUBSET Nat /\ IsFiniteSet(Hits')
      /\ Seen' = Seen
  BY HitsAreFinite, SelectedIsFinite, SeenThroughWrite DEF Types, Hits
<1>5. read.offset \in Nat /\ read.leaves \in Nat /\ read.entries \in Nat /\ read.seen \in Seq(CopyType)
  BY <1>1, IdleOrRead DEF ReadType
<1>6. Seen = IdsIn(read.seen)
  BY DEF Seen, SeenBy, IdsIn
<1>7. Len(read.seen) \in Nat /\ Cardinality(Seen) \in Nat
  BY <1>5, <1>6, SeenIsFinite
<1>8. /\ Cardinality(Missed(read.steady, Seen, read.offset, Hits)) \in Nat /\ Cardinality(Hits \ Hits') \in Nat
      /\ Cardinality(Missed(read.steady \cap Hits', Seen, read.offset, Hits')) \in Nat
      /\ Cardinality(Missed(read.steady \cap Hits', Seen, read.offset, Hits'))
           <= Cardinality(Missed(read.steady, Seen, read.offset, Hits)) + Cardinality(Hits \ Hits')
  BY <1>2, <1>3, <1>4, <1>5, MissedCount
<1>9. /\ Cardinality(Ahead(Seen, read.offset, Hits)) \in Nat /\ Cardinality(Hits' \ Hits) \in Nat
      /\ Cardinality(Ahead(Seen, read.offset, Hits')) \in Nat
      /\ Cardinality(Ahead(Seen, read.offset, Hits'))
           <= Cardinality(Ahead(Seen, read.offset, Hits)) + Cardinality(Hits' \ Hits)
  BY <1>2, <1>4, <1>5, AheadCount
<1>10. read'.steady \subseteq Hits'
  BY <1>2
<1>11. Cardinality(Missed(read'.steady, Seen', read'.offset, Hits')) <= read'.leaves
  <2>1. Missed(read'.steady, Seen', read'.offset, Hits')
          = Missed(read.steady \cap Hits', Seen, read.offset, Hits')
    BY <1>1, <1>2, <1>4
  <2>2. Cardinality(Missed(read.steady, Seen, read.offset, Hits)) <= read.leaves
    BY <1>3
  <2>3. read'.leaves = read.leaves + Cardinality(Hits \ Hits')
    BY <1>2
  <2>. QED BY <1>5, <1>8, <2>1, <2>2, <2>3
<1>12. Cardinality(Ahead(Seen', read'.offset, Hits')) + Len(read'.seen) - Cardinality(Seen') <= read'.entries
  <2>1. Ahead(Seen', read'.offset, Hits') = Ahead(Seen, read.offset, Hits')
    BY <1>1, <1>4
  <2>2. Cardinality(Ahead(Seen, read.offset, Hits)) + Len(read.seen) - Cardinality(Seen) <= read.entries
    BY <1>3
  <2>3. read'.entries = read.entries + Cardinality(Hits' \ Hits)
    BY <1>2
  <2>4. Len(read'.seen) = Len(read.seen) /\ Cardinality(Seen') = Cardinality(Seen)
    BY <1>1, <1>4
  <2>5. Cardinality(Ahead(Seen, read.offset, Hits')) + Len(read.seen) - Cardinality(Seen)
          <= read.entries + Cardinality(Hits' \ Hits)
    BY <1>5, <1>7, <1>9, <2>2, AddedToBoth
  <2>. QED BY <2>1, <2>3, <2>4, <2>5
<1>13. ASSUME Head(read'.queries).status = ""
       PROVE  read'.leaves = 0
  <2>1. Head(read.queries).status = ""
    BY <1>1, <1>13
  <2>2. Hits \ Hits' = {} /\ read.leaves = 0
    BY <1>2, <1>3, <2>1
  <2>3. Cardinality(Hits \ Hits') = 0
    BY <2>2, FS_EmptySet
  <2>4. read'.leaves = read.leaves + Cardinality(Hits \ Hits')
    BY <1>2
  <2>. QED BY <2>2, <2>3, <2>4
<1>. QED BY <1>10, <1>11, <1>12, <1>13

LEMMA ListedThroughWrite ==
  ASSUME Types, ListedInv, Grown, Follows
  PROVE  ListedInv'
<1>1. /\ read # Idle /\ read'.at = read.at /\ read'.seen = read.seen /\ Seen' = Seen
      /\ read'.still \subseteq read.still
  BY SeenThroughWrite DEF Follows, SameRead
<1>2. StoredRecs \subseteq StoredRecs'
  BY DEF Grown, StoredRecs
<1>3. read.still \subseteq StoredRecs /\ IsFiniteSet(read.steady)
      /\ \A k \in DOMAIN read.seen : read.seen[k].id > 0
  BY <1>1 DEF ListedInv
<1>4. read'.steady \subseteq read.steady
  BY DEF Follows
<1>5. IsFiniteSet(read'.steady)
  BY <1>3, <1>4, FS_Subset
<1>6. ASSUME read.at # "page"
      PROVE  /\ Cardinality(read'.steady \ Seen) <= read'.leaves
             /\ Len(read.seen) - Cardinality(Seen) <= read'.entries
  <2>1. read'.leaves = read.leaves /\ read'.entries = read.entries
    BY <1>6 DEF Follows
  <2>2. /\ Cardinality(read.steady \ Seen) <= read.leaves
        /\ Len(read.seen) - Cardinality(Seen) <= read.entries
    BY <1>1, <1>6 DEF ListedInv
  <2>3. IsFiniteSet(read.steady \ Seen) /\ read'.steady \ Seen \subseteq read.steady \ Seen
    BY <1>3, <1>4, FS_Subset
  <2>4. /\ Cardinality(read'.steady \ Seen) <= Cardinality(read.steady \ Seen)
        /\ IsFiniteSet(read'.steady \ Seen)
    BY <2>3, FS_Subset
  <2>5. Cardinality(read'.steady \ Seen) \in Nat /\ Cardinality(read.steady \ Seen) \in Nat
    BY <2>3, <2>4, FS_CardinalityType
  <2>6. read.leaves \in Nat
    BY <1>1, IdleOrRead DEF ReadType
  <2>. QED BY <2>1, <2>2, <2>4, <2>5, <2>6
<1>7. read'.still \subseteq StoredRecs' /\ \A k \in DOMAIN read'.seen : read'.seen[k].id > 0
  BY <1>1, <1>2, <1>3
<1>. QED BY <1>1, <1>5, <1>6, <1>7 DEF ListedInv

LEMMA BundleThroughWrite ==
  ASSUME Types, BundleInv, Grown, Follows
  PROVE  BundleInv'
<1> SUFFICES ASSUME read' # Idle, read'.kind = "bundle"
             PROVE  BundleInv'
  BY DEF BundleInv
<1>1. /\ read # Idle /\ read'.at = read.at /\ read'.kind = read.kind /\ read'.snap = read.snap
      /\ read'.todo = read.todo /\ read'.seen = read.seen /\ read'.parts = read.parts /\ Seen' = Seen
  BY SeenThroughWrite DEF Follows, SameRead
<1>2. read.snap \in DOMAIN snaps
  BY <1>1 DEF BundleInv
<1>3. read.snap \in DOMAIN snaps' /\ snaps'[read.snap].refs = snaps[read.snap].refs
  BY <1>2 DEF Grown
<1>4. ASSUME read'.at = "fetch"
      PROVE  /\ read'.todo \subseteq snaps'[read'.snap].refs /\ read'.steady = {}
             /\ Seen' = (snaps'[read'.snap].refs \ {0}) \ read'.todo /\ Len(read'.seen) = Cardinality(Seen')
  <2>1. read'.steady \subseteq read.steady
    BY <1>1, <1>4 DEF Follows
  <2>. QED BY <1>1, <1>3, <1>4, <2>1 DEF BundleInv
<1>5. ASSUME read'.at \in {"first", "page"}
      PROVE  snaps'[read'.snap].refs \ {0} = {}
  BY <1>1, <1>3, <1>5 DEF BundleInv
<1>6. ASSUME read'.at = "done"
      PROVE  \/ snaps'[read'.snap].refs \ {0} = {}
             \/ read'.parts[1] = snaps'[read'.snap].refs \ {0}
  BY <1>1, <1>3, <1>6 DEF BundleInv
<1>. QED BY <1>1, <1>3, <1>4, <1>5, <1>6 DEF BundleInv

LEMMA CheckpointThroughWrite ==
  ASSUME CheckpointInv, Grown, Follows
  PROVE  CheckpointInv'
<1>1. /\ read # Idle /\ read'.at = read.at /\ read'.kind = read.kind /\ read'.snap = read.snap
      /\ read'.parts = read.parts /\ Seen' = Seen
  BY SeenThroughWrite DEF Follows, SameRead
<1>2. StoredRecs \subseteq StoredRecs' /\ DOMAIN snaps \subseteq DOMAIN snaps'
  BY DEF Grown, StoredRecs
<1>. QED BY <1>1, <1>2 DEF CheckpointInv

\* Nothing leaves a listing without a status.
LEMMA NothingLeaves ==
  ASSUME Types, QueriesInv, Follows, read.at = "page", read.kind # "matching"
  PROVE  Hits \subseteq Hits'
<1>1. read # Idle /\ read.queries # <<>>
  BY DEF Follows, QueriesInv
<1>2. Head(read.queries).status = ""
  BY <1>1, CurrentQuery
<1>. QED BY <1>2 DEF Follows

LEMMA ExportThroughWrite ==
  ASSUME Types, RefsInv, QueriesInv, PageInv, ExportInv, Grown, Follows
  PROVE  ExportInv'
<1> SUFFICES ASSUME read' # Idle, read'.kind = "export"
             PROVE  ExportInv'
  BY DEF ExportInv
<1>1. /\ read # Idle /\ read'.at = read.at /\ read'.kind = read.kind /\ read'.ns = read.ns
      /\ read'.parts = read.parts /\ read'.saved = read.saved
  BY DEF Follows, SameRead
<1>2. read.saved \subseteq DOMAIN snaps /\ DOMAIN snaps \subseteq DOMAIN snaps'
  BY <1>1 DEF ExportInv, Grown
<1>3. ASSUME NEW k \in read.saved
      PROVE  RefsOf(k, read.ns.cycle)' = RefsOf(k, read.ns.cycle)
  <2>1. k \in DOMAIN snaps /\ snaps'[k].refs = snaps[k].refs
    BY <1>2 DEF Grown
  <2>2. \A i \in snaps[k].refs \ {0} : recs'[i].ns = recs[i].ns
    BY <2>1 DEF RefsInv, StoredRecs, Grown
  <2>3. read'.ns.cycle = read.ns.cycle
    BY <1>1
  <2>. QED BY <2>1, <2>2, <2>3 DEF RefsOf
<1>4. ASSUME NEW k \in read.saved, read.at = "page", read.parts = <<>>
      PROVE  RefsOf(k, read.ns.cycle) \subseteq read'.steady
  <2>1. RefsOf(k, read.ns.cycle) \subseteq read.steady
    BY <1>1, <1>4 DEF ExportInv
  <2>2. read.steady \subseteq Hits
    BY <1>1, <1>4 DEF PageInv
  <2>3. Hits \subseteq Hits'
    BY <1>1, <1>4, NothingLeaves
  <2>4. read'.steady = read.steady \cap Hits'
    BY <1>4 DEF Follows
  <2>. QED BY <2>1, <2>2, <2>3, <2>4
<1>5. ASSUME NEW k \in read.saved, read.parts # <<>>
      PROVE  RefsOf(k, read.ns.cycle) \subseteq read.parts[1]
  BY <1>1, <1>5 DEF ExportInv
<1>6. read'.saved \subseteq DOMAIN snaps'
  BY <1>1, <1>2
<1>7. ASSUME NEW k \in read'.saved
      PROVE  /\ read'.at = "page" /\ read'.parts = <<>> => RefsOf(k, read.ns.cycle)' \subseteq read'.steady
             /\ read'.parts # <<>> => RefsOf(k, read.ns.cycle)' \subseteq read'.parts[1]
  BY <1>1, <1>3, <1>4, <1>5
<1>. QED BY <1>6, <1>7 DEF ExportInv

LEMMA ContextThroughWrite ==
  ASSUME Types, QueriesInv, PageInv, ListedInv, ContextInv, Grown, Follows
  PROVE  ContextInv'
<1> SUFFICES ASSUME read' # Idle, read'.kind = "context"
             PROVE  ContextInv'
  BY DEF ContextInv
<1>1. /\ read # Idle /\ read'.at = read.at /\ read'.kind = read.kind /\ read'.ns = read.ns
      /\ read'.parts = read.parts /\ read'.seen = read.seen
  BY DEF Follows, SameRead
<1>2. /\ read'.still \subseteq read.still /\ read.still \subseteq DOMAIN recs
      /\ \A i \in read'.still : recs'[i] = recs[i]
  BY <1>1 DEF Follows, ListedInv, StoredRecs
<1>3. \A i \in DOMAIN recs :
        /\ i \in DOMAIN recs' /\ recs'[i].ns = recs[i].ns /\ recs'[i].class = recs[i].class
        /\ recs'[i].text = recs[i].text
  BY DEF Grown
<1>4. ASSUME NEW p
      PROVE  /\ OfClass(p) \subseteq OfClass(p)'
             /\ read'.still \cap OfClass(p)' \subseteq read.still \cap OfClass(p)
  BY <1>2, <1>3 DEF OfClass
<1>5. ASSUME NEW i \in read'.still
      PROVE  AsCopy(i)' = AsCopy(i)
  BY <1>2 DEF AsCopy
<1>6. ASSUME read'.at = "page"
      PROVE  /\ read'.still \cap OfClass(Len(read.parts) + 1)' \subseteq read'.steady
             /\ \A k \in DOMAIN read'.seen : CopyOf(read.seen[k], Len(read.parts) + 1)'
  <2> DEFINE p == Len(read.parts) + 1
  <2>1. /\ read.still \cap OfClass(p) \subseteq read.steady
        /\ \A k \in DOMAIN read.seen : CopyOf(read.seen[k], p)
    BY <1>1, <1>6 DEF ContextInv
  <2>2. read.steady \subseteq Hits /\ Hits \subseteq Hits' /\ read'.steady = read.steady \cap Hits'
    BY <1>1, <1>6, NothingLeaves DEF PageInv, Follows
  <2>3. read'.still \cap OfClass(p)' \subseteq read'.steady
    BY <1>1, <1>4, <2>1, <2>2
  <2>4. ASSUME NEW c, NEW m, CopyOf(c, m)
        PROVE  CopyOf(c, m)'
    <3>1. /\ c \in RecordCopy /\ c.id \in OfClass(m) /\ c.id \in OfClass(m)' /\ c.id \in DOMAIN recs
          /\ c.ns = recs'[c.id].ns /\ c.text = recs'[c.id].text
      BY <1>3, <1>4, <2>4 DEF CopyOf, OfClass
    <3>2. c.id \in read'.still => c = AsCopy(c.id)'
      BY <1>2, <1>5, <2>4 DEF CopyOf
    <3>. QED BY <3>1, <3>2 DEF CopyOf
  <2>5. \A k \in DOMAIN read'.seen : CopyOf(read.seen[k], p)'
    <3> SUFFICES ASSUME NEW k \in DOMAIN read'.seen
                 PROVE  CopyOf(read.seen[k], p)'
      OBVIOUS
    <3>1. PICK c : c = read.seen[k]
      OBVIOUS
    <3>2. PICK m : m = p
      OBVIOUS
    <3>3. CopyOf(c, m)'
      BY <1>1, <2>1, <2>4, <3>1, <3>2
    <3>4. c = read'.seen[k] /\ m = Len(read'.parts) + 1
      BY <1>1, <3>1, <3>2
    <3>. QED BY <3>3, <3>4
  <2>. QED BY <2>3, <2>5
<1>11. ASSUME NEW p, NEW i \in read'.still
       PROVE  IsShownNow(i, p)' <=> IsShownNow(i, p)
  BY <1>1, <1>5 DEF IsShownNow, IsShown
<1>7. ASSUME NEW p, NEW part, Shows(p, part)
      PROVE  Shows(p, part)'
  BY <1>1, <1>2, <1>4, <1>5, <1>7, <1>11 DEF Shows
<1>8. ASSUME NEW p, NEW part, Hides(p, part)
      PROVE  Hides(p, part)'
  <2> SUFFICES ASSUME NEW x \in DOMAIN part
               PROVE  \E i \in OfClass(p)' :
                        recs'[i].text = part[x] /\ ~(i \in read'.still /\ recs'[i].status = "archived")
    BY DEF Hides
  <2>1. PICK i \in OfClass(p) :
          recs[i].text = part[x] /\ ~(i \in read.still /\ recs[i].status = "archived")
    BY <1>8 DEF Hides
  <2>2. i \in DOMAIN recs /\ i \in OfClass(p)'
    BY <1>4 DEF OfClass
  <2>3. recs'[i].text = part[x]
    BY <1>3, <2>1, <2>2
  <2>4. ~(i \in read'.still /\ recs'[i].status = "archived")
    BY <1>2, <2>1
  <2>. QED BY <2>2, <2>3, <2>4
<1>9. ASSUME NEW p, NEW part, PutsOpenFirst(p, part)
      PROVE  PutsOpenFirst(p, part)'
  <2> SUFFICES ASSUME NEW x \in DOMAIN part, NEW y \in DOMAIN part, x < y,
                      NEW i \in read'.still \cap OfClass(p)',
                      recs'[i].text = part[y], recs'[i].status = "open", IsShownNow(i, p)'
               PROVE  \E j \in OfClass(p)' :
                        /\ recs'[j].text = part[x]
                        /\ LET near == ScopePriority(recs'[j].ns, read'.ns)
                               far  == ScopePriority(recs'[i].ns, read'.ns)
                           IN near < far \/ (near = far /\ (j \in read'.still => recs'[j].status = "open"))
    BY ZenonT(30) DEF PutsOpenFirst, ScopePriority
  <2>1. i \in read.still \cap OfClass(p) /\ recs'[i] = recs[i] /\ AsCopy(i)' = AsCopy(i)
    BY <1>2, <1>4, <1>5
  <2>2. PICK j \in OfClass(p) :
          /\ recs[j].text = part[x]
          /\ LET near == ScopePriority(recs[j].ns, read.ns)
                 far  == ScopePriority(recs[i].ns, read.ns)
             IN near < far \/ (near = far /\ (j \in read.still => recs[j].status = "open"))
    BY <1>1, <1>9, <1>11, <2>1 DEF PutsOpenFirst
  <2>3. j \in DOMAIN recs /\ j \in OfClass(p)'
    BY <1>4 DEF OfClass
  <2>4. recs'[j].text = part[x] /\ recs'[j].ns = recs[j].ns
    BY <1>3, <2>2, <2>3
  <2>5. j \in read'.still => j \in read.still /\ recs'[j] = recs[j]
    BY <1>2
  <2>. QED BY <1>1, <2>1, <2>2, <2>3, <2>4, <2>5
<1>10. ASSUME NEW p \in DOMAIN read'.parts
       PROVE  /\ read'.parts[p] \in Seq(Texts)
              /\ Shows(p, read.parts[p])' /\ Hides(p, read.parts[p])' /\ PutsOpenFirst(p, read.parts[p])'
  <2>1. /\ read.parts[p] \in Seq(Texts)
        /\ Shows(p, read.parts[p]) /\ Hides(p, read.parts[p]) /\ PutsOpenFirst(p, read.parts[p])
    BY <1>1 DEF ContextInv
  <2>2. read'.parts[p] = read.parts[p]
    BY <1>1
  <2>. QED BY <2>1, <2>2, <1>7, <1>8, <1>9
<1>. QED BY <1>6, <1>10 DEF ContextInv

LEMMA WriterKeeps ==
  ASSUME IInv, Wrote
  PROVE  IInv'
<1>1. CASE read' = Idle
  BY <1>1 DEF IInv, Wrote, QueriesInv, PageInv, ListedInv, BundleInv, ExportInv, CheckpointInv, ContextInv
<1>2. CASE Follows
  <2>1. Types' /\ RefsInv' /\ Grown
    BY DEF Wrote
  <2>2. QueriesInv' /\ PageInv' /\ ListedInv'
    BY <1>2, <2>1, QueriesThroughWrite, PageThroughWrite, ListedThroughWrite DEF IInv
  <2>3. BundleInv' /\ ExportInv' /\ CheckpointInv' /\ ContextInv'
    BY <1>2, <2>1, BundleThroughWrite, ExportThroughWrite, CheckpointThroughWrite, ContextThroughWrite
       DEF IInv
  <2>. QED BY <2>1, <2>2, <2>3 DEF IInv
<1>. QED BY <1>1, <1>2 DEF Wrote

-----------------------------------------------------------------------------
\* The order of the texts of a context.

LEMMA Priorities ==
  /\ \A own, ns : ScopePriority(own, ns) \in 0 .. 3
  /\ \A s \in Statuses : StatusPriority(s) \in 0 .. 3
  /\ \A s \in Statuses : StatusPriority(s) = 0 => s = "open"
  /\ \A s, t \in Statuses : StatusPriority(s) = StatusPriority(t) => s = t
  /\ StatusPriority("open") = 0
<1>1. \A own, ns : ScopePriority(own, ns) \in 0 .. 3
  BY DEF ScopePriority
<1>2. /\ StatusPriority("open") = 0 /\ StatusPriority("resolved") = 1
      /\ StatusPriority("superseded") = 2 /\ StatusPriority("archived") = 3
  BY DEF StatusPriority
<1>. QED BY <1>1, <1>2 DEF Statuses

LEMMA PrecedesByKeys ==
  ASSUME NEW a \in RecordCopy, NEW b \in RecordCopy, NEW ns
  PROVE  Precedes(a, b, ns) <=>
           \/ ScopePriority(a.ns, ns) < ScopePriority(b.ns, ns)
           \/ /\ ScopePriority(a.ns, ns) = ScopePriority(b.ns, ns)
              /\ \/ StatusPriority(a.status) < StatusPriority(b.status)
                 \/ /\ StatusPriority(a.status) = StatusPriority(b.status)
                    /\ \/ b.updated < a.updated
                       \/ b.updated = a.updated /\ b.id < a.id
<1> DEFINE x == <<ScopePriority(a.ns, ns), StatusPriority(a.status), - a.updated, - a.id>>
           y == <<ScopePriority(b.ns, ns), StatusPriority(b.status), - b.updated, - b.id>>
<1>1. /\ a.updated \in Nat /\ b.updated \in Nat /\ a.id \in Nat /\ b.id \in Nat
      /\ a.status \in Statuses /\ b.status \in Statuses
  BY DEF RecordCopy
<1>2. /\ ScopePriority(a.ns, ns) \in Int /\ ScopePriority(b.ns, ns) \in Int
      /\ StatusPriority(a.status) \in Int /\ StatusPriority(b.status) \in Int
  BY <1>1, Priorities
<1>3. Precedes(a, b, ns) <=> \E k \in 1 .. 4 : x[k] < y[k] /\ \A l \in 1 .. (k - 1) : x[l] = y[l]
  BY DEF Precedes
<1>4. /\ x[1] = ScopePriority(a.ns, ns) /\ x[2] = StatusPriority(a.status)
      /\ x[3] = - a.updated /\ x[4] = - a.id
      /\ y[1] = ScopePriority(b.ns, ns) /\ y[2] = StatusPriority(b.status)
      /\ y[3] = - b.updated /\ y[4] = - b.id
  OBVIOUS
<1>. HIDE DEF x, y
<1>5. Precedes(a, b, ns) <=>
         \/ x[1] < y[1]
         \/ x[2] < y[2] /\ x[1] = y[1]
         \/ x[3] < y[3] /\ x[1] = y[1] /\ x[2] = y[2]
         \/ x[4] < y[4] /\ x[1] = y[1] /\ x[2] = y[2] /\ x[3] = y[3]
  <2>1. \A k \in 1 .. 4 : k = 1 \/ k = 2 \/ k = 3 \/ k = 4
    OBVIOUS
  <2>2. /\ 1 .. (1 - 1) = {} /\ 1 .. (2 - 1) = {1} /\ 1 .. (3 - 1) = {1, 2} /\ 1 .. (4 - 1) = {1, 2, 3}
        /\ 1 \in 1 .. 4 /\ 2 \in 1 .. 4 /\ 3 \in 1 .. 4 /\ 4 \in 1 .. 4
    OBVIOUS
  <2>. QED BY <1>3, <2>1, <2>2
<1>6. (- a.updated < - b.updated <=> b.updated < a.updated) /\ (- a.id < - b.id <=> b.id < a.id)
      /\ (- a.updated = - b.updated <=> b.updated = a.updated)
  BY <1>1
<1>. QED BY <1>4, <1>5, <1>6

\* On copies of which two of the same record differ in what they say only, it
\* is a total order.
OneRecordEach(C) ==
  /\ C \subseteq RecordCopy /\ IsFiniteSet(C)
  /\ \A c, d \in C : c.id = d.id => c.ns = d.ns /\ c.text = d.text

LEMMA SameCopy ==
  ASSUME NEW c \in RecordCopy, NEW d \in RecordCopy, c.id = d.id, c.ns = d.ns, c.text = d.text,
         c.status = d.status, c.updated = d.updated
  PROVE  c = d
BY DEF RecordCopy

LEMMA PrecedesOrders ==
  ASSUME NEW C, OneRecordEach(C), NEW ns
  PROVE  /\ \A a \in C : ~Precedes(a, a, ns)
         /\ \A a, b, c \in C : Precedes(a, b, ns) /\ Precedes(b, c, ns) => Precedes(a, c, ns)
         /\ \A a, b \in C : a # b => Precedes(a, b, ns) \/ Precedes(b, a, ns)
<1> DEFINE s(c) == ScopePriority(c.ns, ns)
           t(c) == StatusPriority(c.status)
<1>1. \A c \in C : /\ c \in RecordCopy /\ s(c) \in Int /\ t(c) \in Int
                   /\ c.updated \in Int /\ c.id \in Int /\ c.status \in Statuses
  BY Priorities DEF OneRecordEach, RecordCopy
<1>2. \A a, b \in C : Precedes(a, b, ns) <=>
           \/ s(a) < s(b)
           \/ /\ s(a) = s(b)
              /\ \/ t(a) < t(b)
                 \/ /\ t(a) = t(b)
                    /\ \/ b.updated < a.updated
                       \/ b.updated = a.updated /\ b.id < a.id
  BY <1>1, PrecedesByKeys
<1>3. ASSUME NEW a \in C, NEW b \in C, a.updated = b.updated, a.id = b.id, t(a) = t(b)
      PROVE  a = b
  <2>1. a.status = b.status
    BY <1>1, <1>3, Priorities
  <2>. QED BY <1>1, <1>3, <2>1, SameCopy DEF OneRecordEach
<1>. HIDE DEF s, t
<1>4. \A a \in C : ~Precedes(a, a, ns)
  BY <1>1, <1>2
<1>5. \A a, b, c \in C : Precedes(a, b, ns) /\ Precedes(b, c, ns) => Precedes(a, c, ns)
  BY <1>1, <1>2
<1>6. \A a, b \in C : a # b => Precedes(a, b, ns) \/ Precedes(b, a, ns)
  BY <1>1, <1>2, <1>3
<1>. QED BY <1>4, <1>5, <1>6

\* The places of copies in that order.
Place(c, C, ns) == Cardinality({d \in C : Precedes(d, c, ns)})

LEMMA PlacesOfCopies ==
  ASSUME NEW C, OneRecordEach(C), NEW ns
  PROVE  /\ Cardinality(C) \in Nat
         /\ \A c \in C : Place(c, C, ns) \in 0 .. (Cardinality(C) - 1)
         /\ \A a, b \in C : Precedes(a, b, ns) <=> Place(a, C, ns) < Place(b, C, ns)
         /\ \A k \in 0 .. (Cardinality(C) - 1) : \E c \in C : Place(c, C, ns) = k
         /\ C # {} => \E c \in C : \A d \in C : ~Precedes(d, c, ns)
<1> DEFINE R == {p \in C \X C : Precedes(p[1], p[2], ns)}
           before == [c \in C |-> {d \in C : <<d, c>> \in R}]
<1>1. \A a, b \in C : <<a, b>> \in R <=> Precedes(a, b, ns)
  OBVIOUS
<1>2. IsFiniteSet(C)
  BY DEF OneRecordEach
<1>. HIDE DEF R
<1>3. /\ \A a \in C : <<a, a>> \notin R
      /\ \A a, b, c \in C : <<a, b>> \in R /\ <<b, c>> \in R => <<a, c>> \in R
      /\ \A a, b \in C : a # b => <<a, b>> \in R \/ <<b, a>> \in R
  BY <1>1, PrecedesOrders
<1>4. /\ Cardinality(C) \in Nat
      /\ \A c \in C : IsFiniteSet(before[c]) /\ Cardinality(before[c]) \in 0 .. (Cardinality(C) - 1)
      /\ \A a, b \in C : <<a, b>> \in R <=> Cardinality(before[a]) < Cardinality(before[b])
      /\ \A k \in 0 .. (Cardinality(C) - 1) : \E c \in C : Cardinality(before[c]) = k
  BY <1>2, <1>3, PlacesInOrder
<1>5. \A c \in C : before[c] = {d \in C : Precedes(d, c, ns)}
  BY <1>1
<1>. HIDE DEF before
<1>6. ASSUME C # {}
      PROVE  \E c \in C : \A d \in C : ~Precedes(d, c, ns)
  <2>1. Cardinality(C) # 0
    BY <1>2, <1>6, FS_EmptySet
  <2>2. PICK c \in C : Cardinality(before[c]) = 0
    BY <1>4, <2>1
  <2>3. before[c] = {}
    BY <1>4, <2>2, FS_EmptySet
  <2>. QED BY <1>5, <2>3
<1>7. \A c \in C : Place(c, C, ns) = Cardinality(before[c])
  BY <1>5 DEF Place
<1>8. \A c \in C : Place(c, C, ns) \in 0 .. (Cardinality(C) - 1)
  BY <1>4, <1>7
<1>9. \A a, b \in C : Precedes(a, b, ns) <=> Place(a, C, ns) < Place(b, C, ns)
  BY <1>1, <1>4, <1>7
<1>10. \A k \in 0 .. (Cardinality(C) - 1) : \E c \in C : Place(c, C, ns) = k
  BY <1>4, <1>7
<1>. QED BY <1>4, <1>6, <1>8, <1>9, <1>10

\* What a context shows of a class: the texts of copies that are shown; that
\* of every one, unless it is full; and a text before that of a copy is the
\* text of another that precedes it.
TextsOf(part, shown, ns, max) ==
  /\ part \in Seq({c.text : c \in shown})
  /\ \A c \in shown : (\E x \in DOMAIN part : part[x] = c.text) \/ Len(part) = max
  /\ \A x \in DOMAIN part : \E d \in shown : d.text = part[x]
  /\ \A x, y \in DOMAIN part : x < y =>
       \A c \in shown : c.text = part[y] => \E d \in shown : d.text = part[x] /\ Precedes(d, c, ns)

Compacts(part, shown, C, ns, max, ex) ==
  shown = {c \in C : IsShown(c, ns, ex)} /\ part = CompactTexts(C, ns, max, ex)

LEMMA CompactTextsAre ==
  ASSUME NEW C, OneRecordEach(C), NEW ns, NEW max, max \in Nat, NEW ex,
         NEW shown, NEW part, Compacts(part, shown, C, ns, max, ex)
  PROVE  TextsOf(part, shown, ns, max)
<1> DEFINE first(t) == CHOOSE c \in shown :
                         c.text = t /\ \A d \in shown : d.text = t => ~Precedes(d, c, ns)
           firsts   == {first(t) : t \in {c.text : c \in shown}}
           place(c) == Place(c, firsts, ns)
           n        == Cardinality(firsts)
<1>1. OneRecordEach(shown)
  <2>1. shown \subseteq C
    BY DEF Compacts
  <2>. QED BY <2>1, FS_Subset DEF OneRecordEach
<1>2. ASSUME NEW c \in shown
      PROVE  /\ first(c.text) \in shown /\ first(c.text).text = c.text
             /\ \A d \in shown : d.text = c.text => ~Precedes(d, first(c.text), ns)
  <2> DEFINE same == {d \in shown : d.text = c.text}
  <2>1. same \subseteq shown /\ same # {}
    OBVIOUS
  <2>2. OneRecordEach(same)
    BY <1>1, <2>1, FS_Subset DEF OneRecordEach
  <2>3. PICK m \in same : \A d \in same : ~Precedes(d, m, ns)
    BY <2>1, <2>2, PlacesOfCopies
  <2>4. m \in shown /\ m.text = c.text /\ \A d \in shown : d.text = c.text => ~Precedes(d, m, ns)
    BY <2>3
  <2>. QED BY <2>4
<1>. HIDE DEF first
<1>3. /\ firsts \subseteq shown
      /\ \A f \in firsts : f = first(f.text)
      /\ \A c \in shown : first(c.text) \in firsts
  BY <1>2
<1>4. OneRecordEach(firsts)
  BY <1>1, <1>3, FS_Subset DEF OneRecordEach
<1>5. part = [k \in 1 .. Least(n, max) |-> (CHOOSE c \in firsts : place(c) = k - 1).text]
  BY DEF CompactTexts, first, Place, Compacts
<1>. HIDE DEF firsts
<1>6. /\ n \in Nat
      /\ \A c \in firsts : place(c) \in 0 .. (n - 1)
      /\ \A a, b \in firsts : Precedes(a, b, ns) <=> place(a) < place(b)
      /\ \A k \in 0 .. (n - 1) : \E c \in firsts : place(c) = k
  BY <1>4, PlacesOfCopies
<1>7. \A a, b \in firsts : a # b => place(a) # place(b)
  <2>1. \A a, b \in firsts : a # b => Precedes(a, b, ns) \/ Precedes(b, a, ns)
    BY <1>4, PrecedesOrders
  <2>2. \A a \in firsts : place(a) \in Int
    BY <1>6
  <2>. HIDE DEF place, n
  <2>. QED BY <1>6, <2>1, <2>2
<1>. HIDE DEF place
<1> DEFINE m == Least(n, max)
           f == [k \in 1 .. m |-> CHOOSE c \in firsts : place(c) = k - 1]
<1>8. /\ m \in Nat /\ m <= n /\ m <= max /\ (m = n \/ m = max)
  BY <1>6 DEF Least
<1>. HIDE DEF m, n
<1>9. \A k \in 1 .. m : f[k] \in firsts /\ place(f[k]) = k - 1
  <2> SUFFICES ASSUME NEW k \in 1 .. m
               PROVE  f[k] \in firsts /\ place(f[k]) = k - 1
    OBVIOUS
  <2>1. k - 1 \in 0 .. (n - 1)
    BY <1>6, <1>8
  <2>2. \E c \in firsts : place(c) = k - 1
    BY <1>6, <2>1
  <2>. QED BY <2>2
<1>10. part = [k \in 1 .. m |-> f[k].text]
  BY <1>5 DEF m
<1>. HIDE DEF f
<1>11. part \in Seq({c.text : c \in shown}) /\ Len(part) = m /\ DOMAIN part = 1 .. m
  <2>1. part \in [1 .. m -> {c.text : c \in shown}]
    BY <1>3, <1>9, <1>10
  <2>. QED BY <1>8, <2>1, FunctionIsSequence
<1>12. ASSUME NEW c \in shown
       PROVE  (\E x \in DOMAIN part : part[x] = c.text) \/ Len(part) = max
  <2>1. CASE m = max
    BY <1>11, <2>1
  <2>2. CASE m = n
    <3>1. first(c.text) \in firsts /\ first(c.text).text = c.text
      BY <1>2, <1>3
    <3>2. place(first(c.text)) \in 0 .. (n - 1)
      BY <1>6, <3>1
    <3>3. PICK x \in 1 .. m : x = place(first(c.text)) + 1
      BY <1>6, <2>2, <3>2
    <3>4. f[x] = first(c.text)
      <4>1. place(f[x]) = place(first(c.text))
        BY <1>9, <3>2, <3>3
      <4>. QED BY <1>7, <1>9, <3>1, <4>1
    <3>. QED BY <1>10, <1>11, <3>1, <3>4
  <2>. QED BY <1>8, <2>1, <2>2
<1>13. ASSUME NEW x \in DOMAIN part
       PROVE  \E d \in shown : d.text = part[x]
  BY <1>3, <1>9, <1>10, <1>11
<1>14. ASSUME NEW x \in DOMAIN part, NEW y \in DOMAIN part, x < y, NEW c \in shown, c.text = part[y]
       PROVE  \E d \in shown : d.text = part[x] /\ Precedes(d, c, ns)
  <2>1. /\ f[x] \in firsts /\ f[x].text = part[x] /\ place(f[x]) = x - 1
        /\ f[y] \in firsts /\ f[y].text = part[y] /\ place(f[y]) = y - 1
    BY <1>9, <1>10, <1>11
  <2>2. Precedes(f[x], f[y], ns)
    <3>1. x - 1 < y - 1
      BY <1>11, <1>14
    <3>. QED BY <1>6, <2>1, <3>1
  <2>3. f[x] \in shown /\ f[y] \in shown /\ ~Precedes(c, f[y], ns)
    BY <1>2, <1>3, <1>14, <2>1
  <2>4. c = f[y] \/ Precedes(f[y], c, ns)
    BY <1>1, <2>3, PrecedesOrders
  <2>5. Precedes(f[x], c, ns)
    BY <1>1, <2>2, <2>3, <2>4, PrecedesOrders
  <2>. QED BY <2>1, <2>3, <2>5
<1>. QED BY <1>11, <1>12, <1>13, <1>14 DEF TextsOf

-----------------------------------------------------------------------------
\* The steps of a read.

\* A read that has listed nothing yet.
JustAsked(r, kind, ns) ==
  /\ r \in ReadType /\ r.kind = kind /\ r.ns = ns
  /\ r.queries = Queries(kind, ns) /\ r.seen = <<>> /\ r.parts = <<>>
  /\ r.steady = {} /\ r.leaves = 0 /\ r.entries = 0
  /\ r.still \subseteq StoredRecs /\ r.saved \subseteq StoredSnaps

LEMMA NewReadIs ==
  ASSUME Types, NEW kind \in ReadKinds, NEW ns \in Namespaces
  PROVE  JustAsked(NewRead(kind, ns), kind, ns) /\ NewRead(kind, ns).at = "first"
<1> DEFINE q  == Queries(kind, ns)
           st == IF kind = "context" THEN StoredRecs ELSE {}
           sv == IF kind = "export" THEN StoredSnaps ELSE {}
           r  == NewRead(kind, ns)
<1>1. q \in Seq(QueryType)
  BY QueryShape
<1>2. st \in SUBSET Nat /\ sv \in SUBSET Nat /\ st \subseteq StoredRecs /\ sv \subseteq StoredSnaps
  BY DEF StoredRecs, StoredSnaps, Types
<1>3. <<>> \in Seq(CopyType) /\ <<>> \in Seq(PartType) /\ "first" \in Stages
  BY DEF Stages
<1>4. r = [at |-> "first", kind |-> kind, ns |-> ns, snap |-> 0, todo |-> {}, queries |-> q,
           offset |-> 0, seen |-> <<>>, parts |-> <<>>, steady |-> {}, leaves |-> 0, entries |-> 0,
           still |-> st, saved |-> sv]
  BY DEF NewRead
<1>. HIDE DEF q, st, sv, r
<1>5. r \in ReadType
  BY <1>1, <1>2, <1>3, <1>4 DEF ReadType
<1>6. JustAsked(r, kind, ns) /\ r.at = "first"
  BY <1>2, <1>4, <1>5 DEF JustAsked, q
<1>. QED BY <1>6 DEF r

IsNewBundle(s, ns, k, refs) ==
  s = [NewRead("bundle", ns) EXCEPT !.at = "fetch", !.snap = k, !.todo = refs]

LEMMA NewBundleIs ==
  ASSUME Types, NEW ns \in Namespaces, NEW k \in DOMAIN snaps, NEW refs \in SUBSET Nat,
         NEW s, IsNewBundle(s, ns, k, refs)
  PROVE  JustAsked(s, "bundle", ns) /\ s.at = "fetch" /\ s.snap = k /\ s.todo = refs
<1> DEFINE r == NewRead("bundle", ns)
<1>1. JustAsked(r, "bundle", ns)
  BY NewReadIs DEF ReadKinds
<1>2. k \in Nat /\ "fetch" \in Stages
  BY DEF Types, Stages
<1>3. r \in ReadType
  BY <1>1 DEF JustAsked
<1>. HIDE DEF r
<1>4. s = [r EXCEPT !.at = "fetch", !.snap = k, !.todo = refs]
  BY DEF r, IsNewBundle
<1>5. /\ s \in ReadType /\ s.at = "fetch" /\ s.snap = k /\ s.todo = refs /\ s.kind = r.kind
      /\ s.ns = r.ns /\ s.queries = r.queries /\ s.seen = r.seen /\ s.parts = r.parts
      /\ s.steady = r.steady /\ s.leaves = r.leaves /\ s.entries = r.entries
      /\ s.still = r.still /\ s.saved = r.saved
  BY <1>2, <1>3, <1>4 DEF ReadType
<1>. QED BY <1>1, <1>5 DEF JustAsked

LEMMA FewQueries ==
  ASSUME NEW all \in Seq(QueryType), Len(all) \in 1 .. 5
  PROVE  Len(all) \in Nat /\ Len(all) # 0 /\ DOMAIN all = 1 .. Len(all)
<1>1. Len(all) \in Nat /\ DOMAIN all = 1 .. Len(all)
  BY LenProperties
<1>2. \A n \in 1 .. 5 : n # 0
  OBVIOUS
<1>. QED BY <1>1, <1>2

LEMMA RequestKeeps ==
  ASSUME IInv, NEW in \in Requests, Request(in)
  PROVE  IInv'
<1>1. /\ recs' = recs /\ snaps' = snaps /\ writes' = writes /\ reads' = reads + 1
      /\ in.kind \in ReadKinds /\ in.ns \in Namespaces /\ Types /\ RefsInv
  BY RequestsAssumption DEF Request, IInv
<1>2. \E ns \in Namespaces :
        /\ JustAsked(read', in.kind, ns)
        /\ \/ in.kind # "bundle" /\ read'.at = "first"
           \/ /\ in.kind = "bundle" /\ read'.at = "fetch" /\ read'.snap \in DOMAIN snaps
              /\ read'.todo = snaps[read'.snap].refs
  <2>1. CASE in.kind # "bundle" /\ read' = NewRead(in.kind, in.ns)
    <3>1. JustAsked(NewRead(in.kind, in.ns), in.kind, in.ns) /\ NewRead(in.kind, in.ns).at = "first"
      BY <1>1, NewReadIs
    <3>. QED BY <1>1, <2>1, <3>1
  <2>2. ASSUME in.kind = "bundle", NEW k \in StoredSnaps,
               read' = [NewRead("bundle", [in.ns EXCEPT !.cycle = snaps[k].cycle])
                         EXCEPT !.at = "fetch", !.snap = k, !.todo = snaps[k].refs]
        PROVE  \E ns \in Namespaces :
                 /\ JustAsked(read', "bundle", ns) /\ read'.at = "fetch" /\ read'.snap \in DOMAIN snaps
                 /\ read'.todo = snaps[read'.snap].refs
    <3>1. k \in DOMAIN snaps /\ snaps[k].cycle \in Cycles \cup {""} /\ snaps[k].refs \in SUBSET Nat
      <4>1. k \in DOMAIN snaps /\ snaps \in Seq(SnapType)
        BY <1>1 DEF StoredSnaps, Types
      <4>2. snaps[k] \in SnapType
        BY <4>1
      <4>. QED BY <4>1, <4>2 DEF SnapType
    <3>2. PICK ns : ns = [in.ns EXCEPT !.cycle = snaps[k].cycle]
      OBVIOUS
    <3>3. ns \in Namespaces
      BY <1>1, <3>1, <3>2 DEF Namespaces
    <3>5. PICK refs \in SUBSET Nat : refs = snaps[k].refs
      BY <3>1
    <3>6. read' = [NewRead("bundle", ns) EXCEPT !.at = "fetch", !.snap = k, !.todo = refs]
      BY <2>2, <3>2, <3>5
    <3>7. JustAsked(read', "bundle", ns) /\ read'.at = "fetch" /\ read'.snap = k /\ read'.todo = refs
      <4>1. PICK s : s = [NewRead("bundle", ns) EXCEPT !.at = "fetch", !.snap = k, !.todo = refs]
        OBVIOUS
      <4>5. IsNewBundle(s, ns, k, refs)
        BY <4>1 DEF IsNewBundle
      <4>2. Types /\ k \in DOMAIN snaps
        BY <1>1, <3>1
      <4>3. JustAsked(s, "bundle", ns) /\ s.at = "fetch" /\ s.snap = k /\ s.todo = refs
        BY <3>3, <4>2, <4>5, NewBundleIs
      <4>4. read' = s
        BY <3>6, <4>1
      <4>. QED BY <4>3, <4>4
    <3>. QED BY <3>1, <3>3, <3>5, <3>7
  <2>. QED BY <2>1, <2>2 DEF Request
<1>3. PICK ns \in Namespaces :
        /\ JustAsked(read', in.kind, ns)
        /\ \/ in.kind # "bundle" /\ read'.at = "first"
           \/ /\ in.kind = "bundle" /\ read'.at = "fetch" /\ read'.snap \in DOMAIN snaps
              /\ read'.todo = snaps[read'.snap].refs
  BY <1>2
<1>4. /\ read' \in ReadType /\ read' # Idle /\ read'.kind = in.kind /\ read'.ns = ns
      /\ read'.queries = Queries(in.kind, ns) /\ read'.seen = <<>> /\ read'.parts = <<>>
      /\ read'.steady = {} /\ read'.leaves = 0 /\ read'.entries = 0
      /\ read'.still \subseteq StoredRecs /\ read'.saved \subseteq StoredSnaps
  BY <1>3, ReadIsNotIdle DEF JustAsked
<1>5. read'.at = "first" \/ (read'.at = "fetch" /\ in.kind = "bundle")
  BY <1>3
<1>6. Types' /\ RefsInv'
  BY <1>1, <1>4 DEF Types, RefsInv, StoredRecs, Clock
<1>7. QueriesInv'
  <2> DEFINE all == Queries(in.kind, ns)
  <2>1. all \in Seq(QueryType) /\ Len(all) \in 1 .. 5
    BY <1>1, QueryShape
  <2>2. Len(<<>>) = 0 /\ 0 + Len(all) = Len(all) /\ all # <<>> /\ \A k \in DOMAIN all : 0 + k = k
    <3>. HIDE DEF all
    <3>1. Len(all) \in Nat /\ Len(all) # 0 /\ DOMAIN all = 1 .. Len(all)
      BY <2>1, FewQueries
    <3>2. Len(<<>>) = 0
      OBVIOUS
    <3>. QED BY <3>1, <3>2
  <2>3. Queries(in.kind, ns) = Queries(read'.kind, read'.ns)
    BY <1>4
  <2>. HIDE DEF all
  <2>4. /\ Len(read'.parts) + Len(read'.queries) = Len(all)
        /\ \A k \in DOMAIN read'.queries : read'.queries[k] = all[Len(read'.parts) + k]
        /\ read'.queries # <<>>
    BY <1>4, <2>2 DEF all
  <2>. QED BY <1>3, <1>4, <1>5, <2>3, <2>4 DEF QueriesInv, Queries, all
<1>8. Seen' = {}
  BY <1>4 DEF Seen, SeenBy
<1>9. PageInv'
  BY <1>5 DEF PageInv
<1>10. ListedInv'
  <2>1. Cardinality({}) = 0 /\ Len(<<>>) = 0 /\ 0 <= 0 /\ 0 - 0 <= 0 /\ IsFiniteSet({}) /\ {} \ {} = {}
    BY FS_EmptySet
  <2>2. StoredRecs' = StoredRecs
    BY <1>1 DEF StoredRecs
  <2>. QED BY <1>4, <1>8, <2>1, <2>2 DEF ListedInv
<1>11. BundleInv'
  <2>1. Cardinality({}) = 0 /\ Len(<<>>) = 0
    BY FS_EmptySet
  <2>. QED BY <1>1, <1>3, <1>4, <1>8, <2>1 DEF BundleInv
<1>12. ExportInv'
  <2>1. StoredSnaps \subseteq DOMAIN snaps
    BY DEF StoredSnaps
  <2>. QED BY <1>1, <1>4, <1>5, <2>1 DEF ExportInv
<1>13. CheckpointInv'
  BY <1>5 DEF CheckpointInv
<1>14. ContextInv'
  <2>1. DOMAIN read'.parts = {}
    BY <1>4
  <2>. QED BY <1>5, <2>1 DEF ContextInv
<1>. QED BY <1>6, <1>7, <1>9, <1>10, <1>11, <1>12, <1>13, <1>14 DEF IInv

LEMMA AnswerKeeps ==
  ASSUME IInv, Answer
  PROVE  IInv'
<1>1. read' = Idle /\ recs' = recs /\ snaps' = snaps /\ writes' = writes /\ reads' = reads
  BY DEF Answer
<1>2. Types' /\ RefsInv'
  BY <1>1 DEF IInv, Types, RefsInv, StoredRecs, Clock
<1>. QED BY <1>1, <1>2
         DEF IInv, QueriesInv, PageInv, ListedInv, BundleInv, ExportInv, CheckpointInv, ContextInv

\* What a context keeps of a listing of one class; the first excludes the
\* cycle that asks.
ExcludesFor(ex, p) == ex <=> p = 1

LEMMA ContextPart ==
  ASSUME Types, read # Idle, NEW p \in 1 .. 5, NEW s \in Seq(CopyType),
         \A k \in DOMAIN s : CopyOf(s[k], p), read.still \cap OfClass(p) \subseteq IdsIn(s),
         NEW C, C = {s[k] : k \in DOMAIN s}, NEW ex, ExcludesFor(ex, p),
         NEW shown, NEW part, Compacts(part, shown, C, read.ns, ClassCap(ContextOrder[p]), ex)
  PROVE  part \in Seq(Texts) /\ Shows(p, part) /\ Hides(p, part) /\ PutsOpenFirst(p, part)
<1>22. PICK ns : ns = read.ns
  OBVIOUS
<1>24. PICK max : max = ClassCap(ContextOrder[p])
  OBVIOUS
<1>1. max \in Nat
  BY <1>24, ReadsBoundAssumption DEF ClassCap
<1>2. IsFiniteSet(C)
  <2>1. Len(s) \in Nat /\ DOMAIN s = 1 .. Len(s)
    OBVIOUS
  <2>2. IsFiniteSet(1 .. Len(s))
    BY <2>1, FS_Interval
  <2>3. s \in Surjection(1 .. Len(s), C)
    BY <2>1 DEF Surjection
  <2>. QED BY <2>2, <2>3, FS_Surjection
<1>3. \A c \in C : CopyOf(c, p)
  OBVIOUS
<1>4. OneRecordEach(C)
  BY <1>2, <1>3 DEF OneRecordEach, CopyOf
<1>5. Compacts(part, shown, C, ns, max, ex)
  BY <1>22, <1>24
<1>20. shown = {c \in C : IsShown(c, ns, ex)}
  BY <1>5 DEF Compacts
<1>6. /\ part \in Seq({c.text : c \in shown})
      /\ \A c \in shown : (\E x \in DOMAIN part : part[x] = c.text) \/ Len(part) = max
      /\ \A x \in DOMAIN part : \E d \in shown : d.text = part[x]
      /\ \A x, y \in DOMAIN part : x < y =>
           \A c \in shown : c.text = part[y] => \E d \in shown : d.text = part[x] /\ Precedes(d, c, ns)
  <2>1. TextsOf(part, shown, ns, max)
    BY <1>1, <1>4, <1>5, CompactTextsAre
  <2>. QED BY <2>1 DEF TextsOf
<1>7. \A c \in shown : /\ c \in C /\ CopyOf(c, p) /\ c \in RecordCopy /\ c.text \in Texts
                       /\ c.status # "archived" /\ c.status \in Statuses
  BY <1>3, <1>20 DEF CopyOf, RecordCopy, IsShown
<1>8. part \in Seq(Texts)
  <2>1. Len(part) \in Nat /\ part \in [1 .. Len(part) -> {c.text : c \in shown}]
    BY <1>6, LenProperties
  <2>2. part \in [1 .. Len(part) -> Texts]
    BY <1>7, <2>1
  <2>. QED BY <2>1, <2>2, FunctionIsSequence
<1>9. ASSUME NEW i \in read.still \cap OfClass(p), IsShownNow(i, p)
      PROVE  AsCopy(i) \in shown /\ AsCopy(i).text = recs[i].text /\ AsCopy(i).ns = recs[i].ns
             /\ AsCopy(i).status = recs[i].status
  <2>1. PICK k \in DOMAIN s : s[k].id = i
    BY DEF IdsIn
  <2>2. s[k] = AsCopy(i) /\ s[k] \in C
    BY <2>1 DEF CopyOf
  <2>3. IsShown(AsCopy(i), read.ns, ex)
    BY <1>9 DEF IsShown, IsShownNow, ExcludesFor
  <2>. QED BY <1>20, <1>22, <2>2, <2>3 DEF AsCopy
<1>10. \A d \in shown : /\ d.id \in OfClass(p) /\ recs[d.id].text = d.text /\ recs[d.id].ns = d.ns
                        /\ d.id \in read.still => recs[d.id].status = d.status
  BY <1>7 DEF CopyOf, AsCopy
<1>11. Shows(p, part)
  <2> SUFFICES ASSUME NEW i \in read.still \cap OfClass(p), IsShownNow(i, p)
               PROVE  (\E x \in DOMAIN part : part[x] = recs[i].text) \/ Len(part) = max
    BY <1>24 DEF Shows
  <2>1. AsCopy(i) \in shown /\ AsCopy(i).text = recs[i].text
    BY <1>9
  <2>2. \A c \in shown : (\E x \in DOMAIN part : part[x] = c.text) \/ Len(part) = max
    BY <1>6
  <2>. QED BY <2>1, <2>2
<1>12. Hides(p, part)
  <2> SUFFICES ASSUME NEW x \in DOMAIN part
               PROVE  \E i \in OfClass(p) :
                        recs[i].text = part[x] /\ ~(i \in read.still /\ recs[i].status = "archived")
    BY DEF Hides
  <2>1. PICK d \in shown : d.text = part[x]
    BY <1>6
  <2>2. d.status # "archived"
    BY <1>7
  <2>3. d.id \in OfClass(p) /\ recs[d.id].text = part[x]
    BY <1>10, <2>1
  <2>4. d.id \in read.still => recs[d.id].status = d.status
    BY <1>10
  <2>. QED BY <2>2, <2>3, <2>4
<1>13. PutsOpenFirst(p, part)
  <2> SUFFICES ASSUME NEW x \in DOMAIN part, NEW y \in DOMAIN part, x < y,
                      NEW i \in read.still \cap OfClass(p),
                      recs[i].text = part[y], recs[i].status = "open", IsShownNow(i, p)
               PROVE  \E j \in OfClass(p) :
                        /\ recs[j].text = part[x]
                        /\ LET near == ScopePriority(recs[j].ns, read.ns)
                               far  == ScopePriority(recs[i].ns, read.ns)
                           IN near < far \/ (near = far /\ (j \in read.still => recs[j].status = "open"))
    BY DEF PutsOpenFirst
  <2> DEFINE c == AsCopy(i)
  <2>1. c \in shown /\ c.text = part[y] /\ c.ns = recs[i].ns /\ c.status = "open"
    BY <1>9
  <2>. HIDE DEF c
  <2>2. PICK d \in shown : d.text = part[x] /\ Precedes(d, c, ns)
    <3>1. \A u, v \in DOMAIN part : u < v =>
            \A e \in shown : e.text = part[v] => \E f \in shown : f.text = part[u] /\ Precedes(f, e, ns)
      BY <1>6
    <3>. QED BY <2>1, <3>1
  <2>3. c \in RecordCopy /\ d \in RecordCopy /\ d.status \in Statuses
    BY <1>7, <2>1
  <2>4. \/ ScopePriority(d.ns, ns) < ScopePriority(c.ns, ns)
        \/ /\ ScopePriority(d.ns, ns) = ScopePriority(c.ns, ns)
           /\ StatusPriority(d.status) <= StatusPriority(c.status)
    <3>1. StatusPriority(d.status) \in 0 .. 3 /\ StatusPriority(c.status) \in 0 .. 3
      BY <2>1, <2>3, Priorities
    <3>. QED BY <2>2, <2>3, <3>1, PrecedesByKeys
  <2>5. StatusPriority(d.status) <= StatusPriority(c.status) => d.status = "open"
    <3>1. StatusPriority(c.status) = 0 /\ StatusPriority(d.status) \in 0 .. 3
      BY <2>1, <2>3, Priorities
    <3>2. StatusPriority(d.status) = 0 => d.status = "open"
      BY <2>3, Priorities
    <3>. QED BY <3>1, <3>2
  <2>6. d.id \in OfClass(p) /\ recs[d.id].text = part[x] /\ recs[d.id].ns = d.ns
        /\ (d.id \in read.still => recs[d.id].status = d.status)
    BY <1>10, <2>2
  <2>. QED BY <1>22, <2>1, <2>4, <2>5, <2>6
<1>. QED BY <1>8, <1>11, <1>12, <1>13

LEMMA PartOfContext ==
  ASSUME NEW r, r.kind = "context", NEW p \in 1 .. 5, ListsClass(Head(r.queries), p),
         NEW C, C = {r.seen[k] : k \in DOMAIN r.seen}
  PROVE  \E shown, ex : /\ ExcludesFor(ex, p)
                        /\ Compacts(PartOf(r), shown, C, r.ns, ClassCap(ContextOrder[p]), ex)
<1>1. Head(r.queries).class = ContextOrder[p]
  BY QueryFields
<1>2. ContextOrder[p] = "prior_cycle_summaries" <=> p = 1
  BY DEF ContextOrder
<1>3. CASE p = 1
  <2>1. PartOf(r) = CompactTexts(C, r.ns, ClassCap(ContextOrder[p]), TRUE)
    BY <1>1, <1>2, <1>3 DEF PartOf
  <2>2. PICK shown : shown = {c \in C : IsShown(c, r.ns, TRUE)}
    OBVIOUS
  <2>3. ExcludesFor(TRUE, p)
    BY <1>3 DEF ExcludesFor
  <2>4. Compacts(PartOf(r), shown, C, r.ns, ClassCap(ContextOrder[p]), TRUE)
    BY <2>1, <2>2 DEF Compacts
  <2>. QED BY <2>3, <2>4
<1>4. CASE p # 1
  <2>1. PartOf(r) = CompactTexts(C, r.ns, ClassCap(ContextOrder[p]), FALSE)
    BY <1>1, <1>2, <1>4 DEF PartOf
  <2>2. PICK shown : shown = {c \in C : IsShown(c, r.ns, FALSE)}
    OBVIOUS
  <2>3. ExcludesFor(FALSE, p)
    BY <1>4 DEF ExcludesFor
  <2>4. Compacts(PartOf(r), shown, C, r.ns, ClassCap(ContextOrder[p]), FALSE)
    BY <2>1, <2>2 DEF Compacts
  <2>. QED BY <2>3, <2>4
<1>. QED BY <1>3, <1>4

LEMMA OneListing ==
  ASSUME Types, QueriesInv, read # Idle, read.kind \in {"checkpoint", "bundle"}, read.queries # <<>>
  PROVE  Len(read.parts) = 0 /\ Len(read.queries) = 1
<1>1. /\ read.kind \in ReadKinds /\ read.ns \in Namespaces
      /\ read.queries \in Seq(QueryType) /\ Len(read.parts) \in Nat
  BY DEF Types, ReadType
<1>2. Len(Queries(read.kind, read.ns)) = 1
  <2>1. Shaped(Queries(read.kind, read.ns), read.kind, read.ns)
    BY <1>1, QueryShape
  <2>. QED BY <2>1 DEF Shaped
<1>3. Len(read.parts) + Len(read.queries) = 1
  BY <1>2 DEF QueriesInv
<1>4. Len(read.queries) \in Nat \ {0}
  BY <1>1
<1>. QED BY <1>1, <1>3, <1>4, OnlyOne

\* r is the read in progress, its listing complete.
SameRequest(r) ==
  /\ r \in ReadType /\ r.kind = read.kind /\ r.ns = read.ns /\ r.snap = read.snap
  /\ r.queries = read.queries /\ r.parts = read.parts /\ r.still = read.still /\ r.saved = read.saved

Ended(r) ==
  /\ SameRequest(r)
  /\ IsFiniteSet(r.steady)
  /\ \A k \in DOMAIN r.seen : r.seen[k].id > 0
  /\ Cardinality(r.steady \ SeenBy(r)) <= r.leaves
  /\ Len(r.seen) - Cardinality(SeenBy(r)) <= r.entries
  /\ read.kind = "context" =>
       /\ read.still \cap OfClass(Len(read.parts) + 1) \subseteq SeenBy(r)
       /\ \A k \in DOMAIN r.seen : CopyOf(r.seen[k], Len(read.parts) + 1)
  /\ read.kind = "export" /\ read.parts = <<>> =>
       \A k \in read.saved : RefsOf(k, read.ns.cycle) \subseteq SeenBy(r)
  /\ read.kind = "checkpoint" => SeenBy(r) \subseteq StoredRecs
  /\ read.kind = "bundle" =>
       snaps[read.snap].refs \ {0} = {} \/ SeenBy(r) = snaps[read.snap].refs \ {0}

LEMMA SeenByIs ==
  ASSUME NEW r \in ReadType
  PROVE  SeenBy(r) = IdsIn(r.seen) /\ SeenBy(r) \in SUBSET Nat
<1>1. r.seen \in Seq(CopyType)
  BY DEF ReadType
<1>2. SeenBy(r) = IdsIn(r.seen)
  BY DEF SeenBy, IdsIn
<1>. QED BY <1>1, <1>2, SeenIsFinite

LEMMA PartTypes ==
  ASSUME NEW part
  PROVE  /\ part \in Seq(Texts)  => part \in PartType
         /\ part \in SUBSET Nat => part \in PartType
BY DEF PartType

LEMMA KeptPart ==
  ASSUME IInv, read # Idle, read.queries # <<>>, NEW r, Ended(r)
  PROVE  /\ PartOf(r) \in PartType
         /\ read.kind # "context" => PartOf(r) = SeenBy(r)
         /\ read.kind = "context" =>
              /\ PartOf(r) \in Seq(Texts) /\ Shows(Len(read.parts) + 1, PartOf(r))
              /\ Hides(Len(read.parts) + 1, PartOf(r)) /\ PutsOpenFirst(Len(read.parts) + 1, PartOf(r))
<1>1. Types /\ QueriesInv
  BY DEF IInv
<1>2. r \in ReadType /\ r.kind = read.kind /\ r.ns = read.ns /\ r.queries = read.queries
  BY DEF Ended, SameRequest
<1>3. CASE read.kind # "context"
  <2>1. PartOf(r) = SeenBy(r)
    BY <1>2, <1>3 DEF PartOf
  <2>2. SeenBy(r) \in SUBSET Nat
    BY <1>2, SeenByIs
  <2>. QED BY <1>3, <2>1, <2>2 DEF PartType
<1>4. CASE read.kind = "context"
  <2>1. PICK p : p = Len(read.parts) + 1
    OBVIOUS
  <2>2. p \in 1 .. 5 /\ ListsClass(Head(r.queries), p)
    BY <1>1, <1>2, <1>4, <2>1, CurrentQuery
  <2>3. PICK C : C = {r.seen[k] : k \in DOMAIN r.seen}
    OBVIOUS
  <2>4. PICK shown, ex : /\ ExcludesFor(ex, p)
                         /\ Compacts(PartOf(r), shown, C, read.ns, ClassCap(ContextOrder[p]), ex)
    BY <1>2, <1>4, <2>2, <2>3, PartOfContext
  <2>5. PICK part : part = PartOf(r)
    OBVIOUS
  <2>6. Compacts(part, shown, C, read.ns, ClassCap(ContextOrder[p]), ex)
    BY <2>4, <2>5
  <2>7. PICK s \in Seq(CopyType) : s = r.seen
    BY <1>2 DEF ReadType
  <2>8. C = {s[k] : k \in DOMAIN s}
    BY <2>3, <2>7
  <2>9. /\ \A k \in DOMAIN s : CopyOf(s[k], p)
        /\ read.still \cap OfClass(p) \subseteq IdsIn(s)
    BY <1>2, <1>4, <2>1, <2>7, SeenByIs DEF Ended
  <2>10. part \in Seq(Texts) /\ Shows(p, part) /\ Hides(p, part) /\ PutsOpenFirst(p, part)
    BY <1>1, <2>2, <2>4, <2>6, <2>8, <2>9, ContextPart
  <2>11. /\ PartOf(r) \in Seq(Texts) /\ Shows(Len(read.parts) + 1, PartOf(r))
         /\ Hides(Len(read.parts) + 1, PartOf(r)) /\ PutsOpenFirst(Len(read.parts) + 1, PartOf(r))
    BY <2>1, <2>5, <2>10, Zenon
  <2>12. PartOf(r) \in PartType
    <3>1. part \in PartType
      BY <2>10, PartTypes
    <3>. QED BY <2>5, <3>1
  <2>. QED BY <1>4, <2>11, <2>12
<1>. QED BY <1>3, <1>4

\* The parts of a read when one more listing is at its end.
LEMMA OnePartMore ==
  ASSUME NEW parts \in Seq(PartType), NEW part \in PartType, NEW more, more = Append(parts, part)
  PROVE  /\ more \in Seq(PartType) /\ Len(more) = Len(parts) + 1 /\ more # <<>>
         /\ \A p \in DOMAIN parts : p \in DOMAIN more /\ more[p] = parts[p]
         /\ \A p \in DOMAIN more : p \in DOMAIN parts \/ (p = Len(parts) + 1 /\ more[p] = part)
         /\ parts = <<>> => more[1] = part
         /\ parts # <<>> => more[1] = parts[1]
<1>1. /\ more \in Seq(PartType) /\ Len(more) = Len(parts) + 1
      /\ \A p \in 1 .. Len(parts) : more[p] = parts[p]
      /\ more[Len(parts) + 1] = part
  BY AppendProperties
<1>2. /\ Len(parts) \in Nat /\ DOMAIN parts = 1 .. Len(parts)
      /\ DOMAIN more = 1 .. (Len(parts) + 1)
  BY <1>1, LenProperties
<1>3. parts = <<>> <=> Len(parts) = 0
  BY EmptySeq
<1>. QED BY <1>1, <1>2, <1>3

LEMMA OneQueryLess ==
  ASSUME NEW qs \in Seq(QueryType), qs # <<>>
  PROVE  /\ Tail(qs) \in Seq(QueryType) /\ Len(qs) \in Nat \ {0} /\ Len(Tail(qs)) = Len(qs) - 1
         /\ \A k \in DOMAIN Tail(qs) : k \in Nat /\ k + 1 \in DOMAIN qs /\ Tail(qs)[k] = qs[k + 1]
         /\ Tail(qs) # <<>> <=> Len(qs) > 1
<1>1. Len(qs) \in Nat \ {0} /\ DOMAIN qs = 1 .. Len(qs)
  OBVIOUS
<1>2. /\ Tail(qs) \in Seq(QueryType) /\ Len(Tail(qs)) = Len(qs) - 1
      /\ \A k \in 1 .. Len(Tail(qs)) : Tail(qs)[k] = qs[k + 1]
  BY HeadTailProperties
<1>3. DOMAIN Tail(qs) = 1 .. (Len(qs) - 1)
  BY <1>2
<1>4. Tail(qs) = <<>> <=> Len(Tail(qs)) = 0
  BY <1>2, EmptySeq
<1>. QED BY <1>1, <1>2, <1>3, <1>4

LEMMA EndKeeps ==
  ASSUME IInv, read # Idle, read.queries # <<>>, NEW r, Ended(r), EndListing(r),
         recs' = recs, snaps' = snaps, writes' = writes, reads' = reads
  PROVE  IInv'
<1> DEFINE part == PartOf(r)
           now  == IF Len(r.queries) > 1 THEN "first"
                   ELSE IF r.kind = "checkpoint" THEN "stamp" ELSE "done"
<1>1. /\ Types /\ RefsInv /\ QueriesInv /\ ListedInv /\ BundleInv /\ ExportInv /\ ContextInv
      /\ read \in ReadType /\ r \in ReadType /\ r.kind = read.kind /\ r.ns = read.ns /\ r.snap = read.snap
      /\ r.queries = read.queries /\ r.parts = read.parts /\ r.still = read.still /\ r.saved = read.saved
  BY IdleOrRead DEF IInv, Ended, SameRequest
<1>2. read' = [r EXCEPT !.parts = Append(@, part), !.queries = Tail(@), !.at = now]
  BY DEF EndListing
<1>3. /\ part \in PartType
      /\ read.kind # "context" => part = SeenBy(r)
      /\ read.kind = "context" =>
           /\ part \in Seq(Texts) /\ Shows(Len(read.parts) + 1, part)
           /\ Hides(Len(read.parts) + 1, part) /\ PutsOpenFirst(Len(read.parts) + 1, part)
  BY KeptPart
<1>4. /\ r.parts \in Seq(PartType) /\ r.queries \in Seq(QueryType) /\ r.queries # <<>>
      /\ r.kind \in ReadKinds /\ r.ns \in Namespaces
  BY <1>1 DEF ReadType
<1>. HIDE DEF part
<1>5. now \in Stages /\ now \in {"first", "stamp", "done"}
      /\ (now = "first" <=> Len(r.queries) > 1) /\ (now = "stamp" => r.kind = "checkpoint")
  BY DEF Stages
<1>. HIDE DEF now
<1> DEFINE more == Append(r.parts, part)
           rest == Tail(r.queries)
<1>6. more \in Seq(PartType) /\ rest \in Seq(QueryType)
  BY <1>3, <1>4, OnePartMore, OneQueryLess
<1>. HIDE DEF more, rest
<1>7. read' = [r EXCEPT !.parts = more, !.queries = rest, !.at = now]
  BY <1>2 DEF more, rest
<1>8. /\ read'.at = now /\ read'.kind = read.kind /\ read'.ns = read.ns /\ read'.snap = read.snap
      /\ read'.queries = rest /\ read'.parts = more /\ read'.seen = r.seen /\ read'.steady = r.steady
      /\ read'.leaves = r.leaves /\ read'.entries = r.entries /\ read'.still = read.still
      /\ read'.saved = read.saved
  BY <1>1, <1>7 DEF ReadType
<1>9. read' \in ReadType /\ read' # Idle
  <2>1. read' \in ReadType
    BY <1>1, <1>5, <1>6, <1>7 DEF ReadType
  <2>. QED BY <2>1, ReadIsNotIdle
<1>10. Types' /\ RefsInv'
  BY <1>1, <1>9 DEF Types, RefsInv, StoredRecs, Clock
<1>11. Seen' = SeenBy(r) /\ StoredRecs' = StoredRecs
  BY <1>8 DEF Seen, SeenBy, StoredRecs
<1>12. /\ Len(more) = Len(read.parts) + 1 /\ more # <<>> /\ Len(read.parts) \in Nat
       /\ \A p \in DOMAIN read.parts : more[p] = read.parts[p]
       /\ \A p \in DOMAIN more : p \in DOMAIN read.parts \/ (p = Len(read.parts) + 1 /\ more[p] = part)
       /\ read.parts = <<>> => more[1] = part
       /\ read.parts # <<>> => more[1] = read.parts[1]
  <2>1. more = Append(r.parts, part) /\ r.parts = read.parts
    BY <1>1 DEF more
  <2>2. Len(read.parts) \in Nat
    BY <1>1, <1>4, LenProperties
  <2>. QED BY <1>3, <1>4, <2>1, <2>2, OnePartMore
<1>13. QueriesInv'
  <2> DEFINE all == Queries(read.kind, read.ns)
  <2>1. /\ Len(read.queries) \in Nat \ {0} /\ Len(rest) = Len(read.queries) - 1
        /\ \A k \in DOMAIN rest : k \in Nat /\ k + 1 \in DOMAIN read.queries /\ rest[k] = read.queries[k + 1]
        /\ rest # <<>> <=> Len(read.queries) > 1
    BY <1>1, <1>4, OneQueryLess DEF rest
  <2>2. /\ Len(read.parts) + Len(read.queries) = Len(all)
        /\ \A k \in DOMAIN read.queries : read.queries[k] = all[Len(read.parts) + k]
    BY <1>1 DEF QueriesInv
  <2>3. Queries(read'.kind, read'.ns) = all
    BY <1>8
  <2>. HIDE DEF all
  <2>4. Len(more) + Len(rest) = Len(all)
    <3>1. Len(more) + Len(rest) = (Len(read.parts) + 1) + (Len(read.queries) - 1)
      BY <1>12, <2>1
    <3>2. \A m \in Nat, k \in Nat \ {0} : (m + 1) + (k - 1) = m + k
      OBVIOUS
    <3>3. Len(more) + Len(rest) = Len(read.parts) + Len(read.queries)
      BY <1>12, <2>1, <3>1, <3>2
    <3>. QED BY <2>2, <3>3
  <2>5. \A k \in DOMAIN rest : rest[k] = all[Len(more) + k]
    <3> SUFFICES ASSUME NEW k \in DOMAIN rest
                 PROVE  rest[k] = all[Len(more) + k]
      OBVIOUS
    <3>1. rest[k] = all[Len(read.parts) + (k + 1)] /\ k \in Nat
      BY <2>1, <2>2
    <3>2. Len(read.parts) + (k + 1) = Len(more) + k
      BY <1>12, <3>1
    <3>. QED BY <3>1, <3>2
  <2>6. now = "first" <=> rest # <<>>
    BY <1>1, <1>5, <2>1
  <2>7. /\ read'.at \in {"first", "page", "fetch"} <=> rest # <<>>
        /\ read'.at = "fetch" => read'.kind = "bundle"
        /\ read'.at \in {"stamp", "store"} => read'.kind = "checkpoint"
    BY <1>1, <1>5, <1>8, <2>6
  <2>. QED BY <1>8, <2>3, <2>4, <2>5, <2>7 DEF QueriesInv, Queries, all
<1>14. PageInv'
  BY <1>5, <1>8 DEF PageInv
<1>15. ListedInv'
  <2>1. read.still \subseteq StoredRecs
    BY <1>1 DEF ListedInv
  <2>2. /\ IsFiniteSet(r.steady) /\ \A k \in DOMAIN r.seen : r.seen[k].id > 0
        /\ Cardinality(r.steady \ SeenBy(r)) <= r.leaves
        /\ Len(r.seen) - Cardinality(SeenBy(r)) <= r.entries
    BY DEF Ended
  <2>. QED BY <1>8, <1>11, <2>1, <2>2 DEF ListedInv
<1>16. BundleInv'
  <2> SUFFICES ASSUME read.kind = "bundle"
               PROVE  BundleInv'
    BY <1>8 DEF BundleInv
  <2>1. read.snap \in DOMAIN snaps
    BY <1>1 DEF BundleInv
  <2>2. Len(read.parts) = 0 /\ Len(read.queries) = 1
    BY <1>1, OneListing
  <2>3. read'.at = "done" /\ read.parts = <<>>
    BY <1>1, <1>4, <1>5, <1>8, <2>2, EmptySeq
  <2>4. \/ snaps[read.snap].refs \ {0} = {}
        \/ more[1] = snaps[read.snap].refs \ {0}
    BY <1>3, <1>12, <2>3 DEF Ended
  <2>. QED BY <1>8, <2>1, <2>3, <2>4 DEF BundleInv
<1>17. ExportInv'
  <2> SUFFICES ASSUME read.kind = "export"
               PROVE  ExportInv'
    BY <1>8 DEF ExportInv
  <2>1. read.saved \subseteq DOMAIN snaps
    BY <1>1 DEF ExportInv
  <2>2. ASSUME NEW k \in read.saved
        PROVE  RefsOf(k, read.ns.cycle) \subseteq more[1]
    <3>1. CASE read.parts = <<>>
      BY <1>3, <1>12, <3>1 DEF Ended
    <3>2. CASE read.parts # <<>>
      BY <1>1, <1>12, <3>2 DEF ExportInv
    <3>. QED BY <3>1, <3>2
  <2>3. \A k \in read'.saved : RefsOf(k, read.ns.cycle)' = RefsOf(k, read.ns.cycle)
    BY <1>8 DEF RefsOf
  <2>. QED BY <1>5, <1>8, <1>12, <2>1, <2>2, <2>3 DEF ExportInv
<1>18. CheckpointInv'
  <2> SUFFICES ASSUME read.kind = "checkpoint"
               PROVE  CheckpointInv'
    BY <1>8 DEF CheckpointInv
  <2>1. Len(read.parts) = 0
    BY <1>1, OneListing
  <2>2. read.parts = <<>>
    BY <1>1, <1>4, <2>1, EmptySeq
  <2>3. more[1] \subseteq StoredRecs
    BY <1>3, <1>12, <2>2 DEF Ended
  <2>. QED BY <1>5, <1>8, <1>11, <2>3 DEF CheckpointInv
<1>19. ContextInv'
  <2> SUFFICES ASSUME read.kind = "context"
               PROVE  ContextInv'
    BY <1>8 DEF ContextInv
  <2>1. ASSUME NEW p \in DOMAIN more
        PROVE  /\ more[p] \in Seq(Texts)
               /\ Shows(p, more[p]) /\ Hides(p, more[p]) /\ PutsOpenFirst(p, more[p])
    <3>1. CASE p \in DOMAIN read.parts
      BY <1>1, <1>12, <3>1 DEF ContextInv
    <3>2. CASE p = Len(read.parts) + 1 /\ more[p] = part
      BY <1>3, <3>2
    <3>. QED BY <1>12, <3>1, <3>2
  <2>2. ASSUME NEW p, NEW x
        PROVE  /\ Shows(p, x)' <=> Shows(p, x)
               /\ Hides(p, x)' <=> Hides(p, x)
               /\ PutsOpenFirst(p, x)' <=> PutsOpenFirst(p, x)
    BY <1>8 DEF Shows, Hides, PutsOpenFirst, OfClass, IsShownNow, IsShown, AsCopy
  <2>3. ASSUME NEW p \in DOMAIN read'.parts
        PROVE  /\ read'.parts[p] \in Seq(Texts)
               /\ Shows(p, read.parts[p])' /\ Hides(p, read.parts[p])' /\ PutsOpenFirst(p, read.parts[p])'
    BY <1>8, <2>1, <2>2
  <2>. QED BY <1>5, <1>8, <2>3 DEF ContextInv
<1>. QED BY <1>10, <1>13, <1>14, <1>15, <1>16, <1>17, <1>18, <1>19 DEF IInv

\* A read that goes on with its listing has its queries still to make.
LEMMA QueriesStay ==
  ASSUME QueriesInv, read # Idle, read.queries # <<>>,
         read'.kind = read.kind, read'.ns = read.ns, read'.queries = read.queries, read'.parts = read.parts,
         read'.at \in {"first", "page"} \/ (read'.at = "fetch" /\ read.kind = "bundle")
  PROVE  QueriesInv'
<1>1. /\ Len(read.parts) + Len(read.queries) = Len(Queries(read.kind, read.ns))
      /\ \A k \in DOMAIN read.queries : read.queries[k] = Queries(read.kind, read.ns)[Len(read.parts) + k]
  BY DEF QueriesInv
<1>2. PICK all : all = Queries(read.kind, read.ns)
  OBVIOUS
<1>3. all = Queries(read'.kind, read'.ns)
  BY <1>2
<1>4. all = Queries(read.kind, read.ns)'
  BY <1>3 DEF Queries
<1>5. /\ Len(read'.parts) + Len(read'.queries) = Len(all)
      /\ \A k \in DOMAIN read'.queries : read'.queries[k] = all[Len(read'.parts) + k]
  BY <1>1, <1>2
<1>6. /\ read'.at \in {"first", "page", "fetch"} /\ read'.queries # <<>>
      /\ read'.at \notin {"stamp", "store"} /\ (read'.at = "fetch" => read'.kind = "bundle")
  OBVIOUS
<1>. QED BY <1>4, <1>5, <1>6 DEF QueriesInv

\* The copies that a page adds.
LEMMA CopyTypes ==
  ASSUME Types, NEW q \in QueryType, NEW i \in Selected(q, recs, snaps)
  PROVE  /\ Copy(q, i) \in CopyType /\ Copy(q, i).id = i /\ i \in Nat \ {0}
         /\ q.of = "records" =>
              /\ Copy(q, i) = AsCopy(i) /\ AsCopy(i) \in RecordCopy /\ i \in StoredRecs
              /\ q.class # "" => recs[i].class = q.class
<1>0. recs \in Seq(RecType) /\ snaps \in Seq(SnapType)
  BY DEF Types
<1>1. i \in Nat \ {0}
  BY <1>0, SelectedIsFinite
<1>2. CASE q.of = "snapshots"
  <2>1. Copy(q, i) = [id |-> i]
    BY <1>2 DEF Copy
  <2>. QED BY <1>1, <1>2, <2>1 DEF CopyType
<1>3. CASE q.of = "records"
  <2>1. i \in DOMAIN recs /\ recs[i].stored /\ (q.class # "" => recs[i].class = q.class)
    BY <1>3 DEF Selected
  <2>2. recs[i] \in RecType
    <3>1. i \in DOMAIN recs
      BY <2>1
    <3>. QED BY <1>0, <3>1
  <2>3. Copy(q, i) = AsCopy(i) /\ AsCopy(i).id = i
    BY <1>3 DEF Copy, AsCopy
  <2>4. AsCopy(i) \in RecordCopy
    BY <1>1, <2>2 DEF AsCopy, RecType, RecordCopy
  <2>. QED BY <1>1, <2>1, <2>3, <2>4 DEF CopyType, StoredRecs
<1>. QED BY <1>2, <1>3 DEF QueryType

LEMMA PageCopies ==
  ASSUME Types, NEW q \in QueryType, NEW page \in Seq(Selected(q, recs, snaps)),
         NEW copies, copies = [k \in DOMAIN page |-> Copy(q, page[k])]
  PROVE  /\ copies \in Seq(CopyType) /\ Len(copies) = Len(page)
         /\ IdsIn(copies) = {page[k] : k \in DOMAIN page}
         /\ \A k \in DOMAIN copies : page[k] \in Selected(q, recs, snaps) /\ copies[k] = Copy(q, page[k])
<1>1. Len(page) \in Nat /\ DOMAIN page = 1 .. Len(page)
  OBVIOUS
<1>2. \A k \in 1 .. Len(page) : page[k] \in Selected(q, recs, snaps)
  OBVIOUS
<1>3. copies \in [1 .. Len(page) -> CopyType]
  BY <1>1, <1>2, CopyTypes
<1>4. copies \in Seq(CopyType) /\ Len(copies) = Len(page) /\ DOMAIN copies = 1 .. Len(page)
  BY <1>1, <1>3, FunctionIsSequence
<1>5. \A k \in 1 .. Len(page) : copies[k] = Copy(q, page[k]) /\ copies[k].id = page[k]
  BY <1>1, <1>2, CopyTypes
<1>6. IdsIn(copies) = {page[k] : k \in DOMAIN page}
  <2>1. \A i \in IdsIn(copies) : i \in {page[k] : k \in DOMAIN page}
    BY <1>1, <1>4, <1>5 DEF IdsIn
  <2>2. \A i \in {page[k] : k \in DOMAIN page} : i \in IdsIn(copies)
    BY <1>1, <1>4, <1>5 DEF IdsIn
  <2>. QED BY <2>1, <2>2
<1>. QED BY <1>2, <1>4, <1>5, <1>6

\* r is the read in progress, in the midst of a listing.
Listing(r) ==
  /\ SameRequest(r) /\ r.at = "page"
  /\ r.steady \subseteq Hits
  /\ \A k \in DOMAIN r.seen : r.seen[k].id > 0
  /\ Cardinality(Missed(r.steady, SeenBy(r), r.offset, Hits)) <= r.leaves
  /\ Cardinality(Ahead(SeenBy(r), r.offset, Hits)) + Len(r.seen) - Cardinality(SeenBy(r)) <= r.entries
  /\ Head(r.queries).status = "" => r.leaves = 0
  /\ read.kind = "context" =>
       /\ read.still \cap OfClass(Len(read.parts) + 1) \subseteq r.steady
       /\ \A k \in DOMAIN r.seen : CopyOf(r.seen[k], Len(read.parts) + 1)
  /\ read.kind = "export" /\ read.parts = <<>> =>
       \A k \in read.saved : RefsOf(k, read.ns.cycle) \subseteq r.steady
  /\ read.kind = "checkpoint" => SeenBy(r) \subseteq StoredRecs
  /\ read.kind = "bundle" => snaps[read.snap].refs \ {0} = {}

LEMMA MoreKeeps ==
  ASSUME IInv, read # Idle, read.queries # <<>>, NEW r, Listing(r), read' = r,
         recs' = recs, snaps' = snaps, writes' = writes, reads' = reads
  PROVE  IInv'
<1>1. /\ Types /\ RefsInv /\ QueriesInv /\ ListedInv /\ BundleInv /\ ExportInv /\ ContextInv
      /\ read' \in ReadType /\ read' # Idle /\ read'.at = "page"
      /\ read'.kind = read.kind /\ read'.ns = read.ns /\ read'.snap = read.snap
      /\ read'.queries = read.queries /\ read'.parts = read.parts /\ read'.still = read.still
      /\ read'.saved = read.saved
  BY ReadIsNotIdle DEF IInv, Listing, SameRequest
<1>2. Types' /\ RefsInv'
  BY <1>1 DEF Types, RefsInv, StoredRecs, Clock
<1>3. Seen' = SeenBy(r) /\ Hits' = Hits /\ StoredRecs' = StoredRecs
  BY <1>1 DEF Seen, SeenBy, Hits, StoredRecs
<1>4. QueriesInv'
  BY <1>1, QueriesStay
<1>5. PageInv'
  <2>1. /\ r.steady \subseteq Hits
        /\ Cardinality(Missed(r.steady, SeenBy(r), r.offset, Hits)) <= r.leaves
        /\ Cardinality(Ahead(SeenBy(r), r.offset, Hits)) + Len(r.seen) - Cardinality(SeenBy(r)) <= r.entries
        /\ Head(r.queries).status = "" => r.leaves = 0
    BY DEF Listing
  <2>2. /\ Missed(read.steady, Seen, read.offset, Hits)' = Missed(r.steady, SeenBy(r), r.offset, Hits)
        /\ Ahead(Seen, read.offset, Hits)' = Ahead(SeenBy(r), r.offset, Hits)
    BY <1>3 DEF Missed, Ahead, Passed, Rank
  <2>. QED BY <1>1, <1>3, <2>1, <2>2 DEF PageInv
<1>6. ListedInv'
  <2>1. read.still \subseteq StoredRecs
    BY <1>1 DEF ListedInv
  <2>2. IsFiniteSet(r.steady)
    BY <1>1, HitsAreFinite, FS_Subset DEF Listing
  <2>3. \A k \in DOMAIN r.seen : r.seen[k].id > 0
    BY DEF Listing
  <2>. QED BY <1>1, <1>3, <2>1, <2>2, <2>3 DEF ListedInv
<1>7. BundleInv'
  BY <1>1 DEF BundleInv, Listing
<1>8. ExportInv'
  <2>1. \A k \in read'.saved : RefsOf(k, read.ns.cycle)' = RefsOf(k, read.ns.cycle)
    BY <1>1 DEF RefsOf
  <2> SUFFICES ASSUME read.kind = "export"
               PROVE  ExportInv'
    BY <1>1 DEF ExportInv
  <2>2. read'.saved \subseteq DOMAIN snaps'
    BY <1>1 DEF ExportInv
  <2>3. ASSUME NEW k \in read'.saved
        PROVE  /\ read'.parts = <<>> => RefsOf(k, read.ns.cycle) \subseteq read'.steady
               /\ read'.parts # <<>> => RefsOf(k, read.ns.cycle) \subseteq read'.parts[1]
    BY <1>1 DEF ExportInv, Listing
  <2>. QED BY <1>1, <2>1, <2>2, <2>3 DEF ExportInv
<1>9. CheckpointInv'
  BY <1>1, <1>3 DEF CheckpointInv, Listing
<1>10. ContextInv'
  <2> SUFFICES ASSUME read.kind = "context"
               PROVE  ContextInv'
    BY <1>1 DEF ContextInv
  <2>1. ASSUME NEW p, NEW x
        PROVE  /\ Shows(p, x)' <=> Shows(p, x)
               /\ Hides(p, x)' <=> Hides(p, x)
               /\ PutsOpenFirst(p, x)' <=> PutsOpenFirst(p, x)
               /\ CopyOf(x, p)' <=> CopyOf(x, p)
               /\ OfClass(p)' = OfClass(p)
    BY <1>1 DEF Shows, Hides, PutsOpenFirst, OfClass, IsShownNow, IsShown, AsCopy, CopyOf
  <2>2. ASSUME NEW p \in DOMAIN read'.parts
        PROVE  /\ read'.parts[p] \in Seq(Texts)
               /\ Shows(p, read.parts[p])' /\ Hides(p, read.parts[p])' /\ PutsOpenFirst(p, read.parts[p])'
    BY <1>1, <2>1 DEF ContextInv
  <2>3. /\ read'.still \cap OfClass(Len(read.parts) + 1)' \subseteq read'.steady
        /\ \A k \in DOMAIN read'.seen : CopyOf(read.seen[k], Len(read.parts) + 1)'
    BY <1>1, <2>1 DEF Listing
  <2>. QED BY <1>1, <2>2, <2>3 DEF ContextInv
<1>. QED BY <1>2, <1>4, <1>5, <1>6, <1>7, <1>8, <1>9, <1>10 DEF IInv

\* What the listings of a request select, of the records.
LEMMA SelectsRecords ==
  ASSUME NEW q, q.of = "records", q.status = "", NEW i
  PROVE  i \in Selected(q, recs, snaps) <=>
           /\ i \in StoredRecs
           /\ q.class # "" => recs[i].class = q.class
           /\ q.cycle # "" => recs[i].ns.cycle = q.cycle
BY DEF Selected, StoredRecs

LEMMA FirstListing ==
  ASSUME IInv, read # Idle, read.at = "first", NEW r, r = Started(read)
  PROVE  Listing(r)
<1>1. /\ Types /\ RefsInv /\ QueriesInv /\ ListedInv /\ BundleInv /\ ExportInv
      /\ read \in ReadType /\ read.queries # <<>>
  BY IdleOrRead DEF IInv, QueriesInv
<1>2. r = [read EXCEPT !.at = "page", !.offset = 0, !.seen = <<>>,
                       !.steady = Hits, !.leaves = 0, !.entries = 0]
  BY DEF Started, Hits
<1>3. Hits \in SUBSET Nat /\ IsFiniteSet(Hits) /\ <<>> \in Seq(CopyType) /\ "page" \in Stages
  BY <1>1, HitsAreFinite DEF Stages
<1>4. /\ SameRequest(r) /\ r.at = "page" /\ r.offset = 0 /\ r.seen = <<>> /\ r.steady = Hits
      /\ r.leaves = 0 /\ r.entries = 0
  <2>1. r \in ReadType
    <3>1. PICK all \in SUBSET Nat : all = Hits
      BY <1>3
    <3>2. PICK a : a = [read EXCEPT !.at = "page", !.offset = 0, !.seen = <<>>]
      OBVIOUS
    <3>3. a \in ReadType
      <4>1. 0 \in Nat
        OBVIOUS
      <4>. QED BY <1>1, <1>3, <3>2, <4>1 DEF ReadType
    <3>4. PICK b : b = [a EXCEPT !.steady = all]
      OBVIOUS
    <3>5. b \in ReadType
      BY <3>1, <3>3, <3>4 DEF ReadType
    <3>6. r = [b EXCEPT !.leaves = 0, !.entries = 0]
      BY <1>1, <1>2, <3>1, <3>2, <3>4 DEF ReadType
    <3>7. PICK c : c = [b EXCEPT !.leaves = 0]
      OBVIOUS
    <3>8. 0 \in Nat
      OBVIOUS
    <3>9. c \in ReadType
      BY <3>5, <3>7, <3>8 DEF ReadType
    <3>10. r = [c EXCEPT !.entries = 0]
      BY <3>5, <3>6, <3>7 DEF ReadType
    <3>. QED BY <3>8, <3>9, <3>10 DEF ReadType
  <2>2. /\ r.at = "page" /\ r.offset = 0 /\ r.seen = <<>> /\ r.steady = Hits
        /\ r.leaves = 0 /\ r.entries = 0 /\ r.kind = read.kind /\ r.ns = read.ns
        /\ r.snap = read.snap /\ r.queries = read.queries /\ r.parts = read.parts
        /\ r.still = read.still /\ r.saved = read.saved
    BY <1>1, <1>2 DEF ReadType
  <2>. QED BY <2>1, <2>2 DEF SameRequest
<1>5. SeenBy(r) = {} /\ DOMAIN r.seen = {}
  BY <1>4 DEF SeenBy
<1>6. Missed(r.steady, SeenBy(r), r.offset, Hits) = {} /\ Ahead(SeenBy(r), r.offset, Hits) = {}
  <2>1. \A i \in Hits : ~(Rank(i, Hits) <= 0)
    <3>1. Cardinality(Hits) \in Nat /\ \A i \in Hits : Rank(i, Hits) \in 1 .. Cardinality(Hits)
      BY <1>3, Ranks
    <3>. QED BY <3>1
  <2>. QED BY <1>4, <1>5, <2>1 DEF Missed, Ahead, Passed
<1>7. Cardinality({}) = 0 /\ Len(<<>>) = 0 /\ 0 <= 0 /\ 0 + 0 - 0 <= 0
  BY FS_EmptySet
<1> DEFINE q == Head(read.queries)
           p == Len(read.parts) + 1
<1>8. /\ read.kind = "context" => p \in 1 .. 5 /\ ListsClass(q, p)
      /\ read.kind = "export" => (p = 1 => ListsCycle(q, read.ns.cycle))
  BY <1>1, CurrentQuery
<1>9. Hits = Selected(q, recs, snaps)
  BY DEF Hits
<1>. HIDE DEF q
<1>10. ASSUME read.kind = "context"
       PROVE  read.still \cap OfClass(p) \subseteq r.steady
  <2>1. q.of = "records" /\ q.status = "" /\ q.class = ContextOrder[p] /\ q.cycle = ""
    BY <1>8, <1>10, QueryFields
  <2>2. read.still \subseteq StoredRecs
    BY <1>1 DEF ListedInv
  <2>3. \A i \in OfClass(p) : recs[i].class = ContextOrder[p]
    BY DEF OfClass
  <2>. HIDE DEF p
  <2>4. \A i \in read.still \cap OfClass(p) : i \in Selected(q, recs, snaps)
    <3> SUFFICES ASSUME NEW i \in read.still, i \in OfClass(p)
                 PROVE  i \in Selected(q, recs, snaps)
      OBVIOUS
    <3>1. i \in StoredRecs /\ recs[i].class = q.class
      BY <2>1, <2>2, <2>3
    <3>. QED BY <2>1, <3>1, SelectsRecords
  <2>5. r.steady = Selected(q, recs, snaps)
    BY <1>4, <1>9
  <2>. QED BY <2>4, <2>5
<1>11. ASSUME read.kind = "export", read.parts = <<>>, NEW k \in read.saved
       PROVE  RefsOf(k, read.ns.cycle) \subseteq r.steady
  <2>1. p = 1
    BY <1>11
  <2>2. q.of = "records" /\ q.status = "" /\ q.class = "" /\ q.cycle = read.ns.cycle
    <3>1. ListsCycle(q, read.ns.cycle)
      BY <1>8, <1>11, <2>1
    <3>. QED BY <3>1, QueryFields
  <2>3. k \in DOMAIN snaps
    BY <1>1, <1>11 DEF ExportInv
  <2>4. snaps[k].refs \ {0} \subseteq StoredRecs
    BY <1>1, <2>3 DEF RefsInv
  <2>5. \A i \in RefsOf(k, read.ns.cycle) :
           i \in StoredRecs /\ (read.ns.cycle # "" => recs[i].ns.cycle = read.ns.cycle)
    BY <2>4 DEF RefsOf
  <2>6. \A i \in RefsOf(k, read.ns.cycle) : i \in Selected(q, recs, snaps)
    <3> SUFFICES ASSUME NEW i \in RefsOf(k, read.ns.cycle)
                 PROVE  i \in Selected(q, recs, snaps)
      OBVIOUS
    <3>1. i \in StoredRecs /\ (q.cycle # "" => recs[i].ns.cycle = q.cycle)
      BY <2>2, <2>5
    <3>. QED BY <2>2, <3>1, SelectsRecords
  <2>7. r.steady = Selected(q, recs, snaps)
    BY <1>4, <1>9
  <2>. QED BY <2>6, <2>7
<1>12. read.kind = "bundle" => snaps[read.snap].refs \ {0} = {}
  BY <1>1 DEF BundleInv
<1>. QED BY <1>4, <1>5, <1>6, <1>7, <1>10, <1>11, <1>12 DEF Listing

LEMMA NextListing ==
  ASSUME IInv, read # Idle, read.at = "page", NEW r, r = Started(read)
  PROVE  Listing(r)
<1>1. r = read
  BY DEF Started
<1>2. /\ Types /\ PageInv /\ ListedInv /\ BundleInv /\ ExportInv /\ CheckpointInv /\ ContextInv
      /\ read \in ReadType
  BY IdleOrRead DEF IInv
<1>3. SeenBy(r) = Seen
  BY <1>1 DEF Seen
<1>4. SameRequest(r) /\ r.at = "page"
  BY <1>1, <1>2 DEF SameRequest
<1>5. /\ r.steady \subseteq Hits
      /\ Cardinality(Missed(r.steady, SeenBy(r), r.offset, Hits)) <= r.leaves
      /\ Cardinality(Ahead(SeenBy(r), r.offset, Hits)) + Len(r.seen) - Cardinality(SeenBy(r)) <= r.entries
      /\ Head(r.queries).status = "" => r.leaves = 0
  BY <1>1, <1>2, <1>3 DEF PageInv
<1>6. \A k \in DOMAIN r.seen : r.seen[k].id > 0
  BY <1>1, <1>2 DEF ListedInv
<1>7. read.kind = "context" =>
        /\ read.still \cap OfClass(Len(read.parts) + 1) \subseteq r.steady
        /\ \A k \in DOMAIN r.seen : CopyOf(r.seen[k], Len(read.parts) + 1)
  BY <1>1, <1>2 DEF ContextInv
<1>8. read.kind = "export" /\ read.parts = <<>> =>
        \A k \in read.saved : RefsOf(k, read.ns.cycle) \subseteq r.steady
  BY <1>1, <1>2 DEF ExportInv
<1>9. read.kind = "checkpoint" => SeenBy(r) \subseteq StoredRecs
  BY <1>2, <1>3 DEF CheckpointInv
<1>10. read.kind = "bundle" => snaps[read.snap].refs \ {0} = {}
  BY <1>2 DEF BundleInv
<1>. QED BY <1>4, <1>5, <1>6, <1>7, <1>8, <1>9, <1>10 DEF Listing

LEMMA AtMostThrough ==
  ASSUME NEW a \in Nat, NEW b \in Nat, NEW c \in Nat, a <= b, b <= c
  PROVE  a <= c
OBVIOUS

LEMMA NoneThrough ==
  ASSUME NEW a \in Nat, NEW b \in Nat, a <= b, b <= 0
  PROVE  a = 0
OBVIOUS

LEMMA SumsThrough ==
  ASSUME NEW a \in Nat, NEW b \in Nat, NEW c \in Nat, NEW d \in Nat, NEW e \in Nat, NEW f \in Nat,
         NEW x \in Nat, a + b - c <= d + e - f, d + e - f <= x
  PROVE  a + b - c <= x
OBVIOUS

LEMMA DifferenceThrough ==
  ASSUME NEW b \in Nat, NEW c \in Nat, NEW d \in Nat, NEW e \in Nat, NEW f \in Nat,
         NEW x \in Nat, b - c <= d + e - f, d + e - f <= x
  PROVE  b - c <= x
OBVIOUS

\* A page of a listing is followed by another one, or ends it.
LEMMA PageKeeps ==
  ASSUME IInv, Page
  PROVE  IInv'
<1>1. /\ read.at \in {"first", "page"}
      /\ recs' = recs /\ snaps' = snaps /\ writes' = writes /\ reads' = reads
  BY DEF Page
<1>2. read # Idle
  BY <1>1 DEF Idle
<1>3. Types /\ QueriesInv /\ read.queries # <<>> /\ read \in ReadType
  BY <1>1, <1>2, IdleOrRead DEF IInv, QueriesInv
<1>4. PICK r \in {Started(read)} :
        \E hits \in {Sorted(Selected(Head(r.queries), recs, snaps))} :
          LET end  == Least(r.offset + MaxPageSize, Len(hits))
              page == SubSeq(hits, r.offset + 1, end)
              seen == r.seen \o [k \in DOMAIN page |-> Copy(Head(r.queries), page[k])]
          IN IF HasMore(end, Len(hits))
             THEN read' = [r EXCEPT !.seen = seen, !.offset = NextOffset(@)]
             ELSE \E all \in {[r EXCEPT !.seen = seen]} : EndListing(all)
  BY DEF Page
<1>5. Listing(r)
  BY <1>1, <1>2, <1>4, FirstListing, NextListing
<1>6. /\ r \in ReadType /\ r.queries = read.queries /\ r.offset \in Nat /\ r.seen \in Seq(CopyType)
      /\ r.at = "page" /\ r.steady \subseteq Hits /\ r.leaves \in Nat /\ r.entries \in Nat
  BY <1>5 DEF Listing, SameRequest, ReadType
<1>7. PICK q \in QueryType : q = Head(read.queries)
  BY <1>2, <1>3, CurrentQuery
<1>8. Hits = Selected(q, recs, snaps) /\ Hits \in SUBSET Nat /\ IsFiniteSet(Hits)
  BY <1>3, <1>7, HitsAreFinite DEF Hits
<1>29. PICK hits \in {Sorted(Selected(Head(r.queries), recs, snaps))} :
         LET end  == Least(r.offset + MaxPageSize, Len(hits))
             page == SubSeq(hits, r.offset + 1, end)
             seen == r.seen \o [k \in DOMAIN page |-> Copy(Head(r.queries), page[k])]
         IN IF HasMore(end, Len(hits))
            THEN read' = [r EXCEPT !.seen = seen, !.offset = NextOffset(@)]
            ELSE \E all \in {[r EXCEPT !.seen = seen]} : EndListing(all)
  BY <1>4
<1>30. hits = Sorted(Hits)
  BY <1>6, <1>7, <1>8, <1>29
<1>9. PICK end : end = Least(r.offset + MaxPageSize, Len(hits))
  OBVIOUS
<1>10. PICK page : page = SubSeq(hits, r.offset + 1, end)
  OBVIOUS
<1>11. PICK copies : copies = [k \in DOMAIN page |-> Copy(Head(r.queries), page[k])]
  OBVIOUS
<1>12. PICK seen : seen = r.seen \o copies
  OBVIOUS
<1>13. Len(Sorted(Hits)) = Cardinality(Hits)
  BY <1>8, SortedByRank
<1>31. IF HasMore(end, Len(hits))
       THEN read' = [r EXCEPT !.seen = seen, !.offset = NextOffset(@)]
       ELSE \E all \in {[r EXCEPT !.seen = seen]} : EndListing(all)
  BY <1>9, <1>10, <1>11, <1>12, <1>29
<1>32. Len(hits) = Cardinality(Hits)
  BY <1>13, <1>30
<1>14. /\ end < Cardinality(Hits) =>
             read' = [r EXCEPT !.seen = seen, !.offset = r.offset + MaxPageSize]
       /\ ~(end < Cardinality(Hits)) => \E all \in {[r EXCEPT !.seen = seen]} : EndListing(all)
  BY <1>6, <1>31, <1>32 DEF HasMore, NextOffset, ReadType
<1>33. end = Least(r.offset + MaxPageSize, Cardinality(Hits))
  BY <1>9, <1>32
<1>34. IsPage(page, Hits, r.offset, end)
  BY <1>10, <1>30 DEF IsPage
<1>35. copies = [k \in DOMAIN page |-> Copy(q, page[k])]
  BY <1>6, <1>7, <1>11
<1>15. PICK P : P = OfPage(Hits, r.offset, end)
  OBVIOUS
<1>16. end \in 0 .. Cardinality(Hits)
  <2>1. Cardinality(Hits) \in Nat /\ MaxPageSize \in Nat
    BY <1>8, FS_CardinalityType, ReadsBoundAssumption
  <2>. QED BY <1>6, <1>33, <2>1 DEF Least
<1>17. /\ page \in Seq(Hits) /\ {page[k] : k \in DOMAIN page} = P
       /\ IsFiniteSet(P) /\ Len(page) = Cardinality(P)
  BY <1>6, <1>8, <1>15, <1>16, <1>34, PageHolds
<1>18. /\ copies \in Seq(CopyType) /\ Len(copies) = Cardinality(P) /\ IdsIn(copies) = P
       /\ \A k \in DOMAIN copies : page[k] \in Selected(q, recs, snaps) /\ copies[k] = Copy(q, page[k])
  BY <1>3, <1>8, <1>17, <1>35, PageCopies
<1>19. /\ seen \in Seq(CopyType) /\ Len(seen) = Len(r.seen) + Cardinality(P)
       /\ IdsIn(seen) = SeenBy(r) \cup P
       /\ \A k \in DOMAIN seen : \/ k \in DOMAIN r.seen /\ seen[k] = r.seen[k]
                                 \/ \E j \in DOMAIN copies : seen[k] = copies[j]
  BY <1>6, <1>12, <1>18, SeenMore, SeenByIs
<1>20. \A j \in DOMAIN copies : copies[j].id > 0
  <2> SUFFICES ASSUME NEW j \in DOMAIN copies
               PROVE  copies[j].id > 0
    OBVIOUS
  <2>1. PICK i : i = page[j]
    OBVIOUS
  <2>2. i \in Selected(q, recs, snaps) /\ copies[j] = Copy(q, i)
    BY <1>18, <2>1
  <2>3. copies[j].id = i /\ i \in Nat \ {0}
    <3>1. Types
      BY <1>3
    <3>. QED BY <2>2, <3>1, CopyTypes
  <2>. QED BY <2>3
<1>21. \A k \in DOMAIN seen : seen[k].id > 0
  BY <1>5, <1>19, <1>20 DEF Listing
<1>22. ASSUME read.kind = "context"
       PROVE  \A k \in DOMAIN seen : CopyOf(seen[k], Len(read.parts) + 1)
  <2>1. PICK p : p = Len(read.parts) + 1
    OBVIOUS
  <2>2. p \in 1 .. 5 /\ ListsClass(q, p)
    BY <1>2, <1>3, <1>7, <1>22, <2>1, CurrentQuery
  <2>3. q.of = "records" /\ q.class = ContextOrder[p]
    BY <2>2, QueryFields
  <2>4. ContextOrder[p] # ""
    <3>1. p = 1 \/ p = 2 \/ p = 3 \/ p = 4 \/ p = 5
      BY <2>2
    <3>2. /\ ContextOrder[1] # "" /\ ContextOrder[2] # "" /\ ContextOrder[3] # ""
          /\ ContextOrder[4] # "" /\ ContextOrder[5] # ""
      BY DEF ContextOrder
    <3>. QED BY <3>1, <3>2
  <2>5. ASSUME NEW i \in Selected(q, recs, snaps)
        PROVE  CopyOf(Copy(q, i), p)
    <3>1. /\ Copy(q, i) = AsCopy(i) /\ AsCopy(i) \in RecordCopy /\ i \in StoredRecs
          /\ recs[i].class = ContextOrder[p] /\ AsCopy(i).id = i
      BY <1>3, <2>3, <2>4, <2>5, CopyTypes
    <3>2. i \in OfClass(p) /\ AsCopy(i).ns = recs[i].ns /\ AsCopy(i).text = recs[i].text
      BY <3>1 DEF OfClass, StoredRecs, AsCopy
    <3>. QED BY <3>1, <3>2 DEF CopyOf
  <2>6. \A j \in DOMAIN copies : CopyOf(copies[j], p)
    BY <1>18, <2>5
  <2>7. \A k \in DOMAIN r.seen : CopyOf(r.seen[k], p)
    BY <1>5, <1>22, <2>1 DEF Listing
  <2>8. \A k \in DOMAIN seen : CopyOf(seen[k], p)
    BY <1>19, <2>6, <2>7
  <2>. QED BY <2>1, <2>8
<1>23. read.kind = "checkpoint" => SeenBy(r) \cup P \subseteq StoredRecs
  <2> SUFFICES ASSUME read.kind = "checkpoint"
               PROVE  SeenBy(r) \cup P \subseteq StoredRecs
    OBVIOUS
  <2>1. q.of = "records"
    <3>1. ListsCycle(q, read.ns.cycle)
      BY <1>2, <1>3, <1>7, CurrentQuery
    <3>. QED BY <3>1, QueryFields
  <2>2. Hits \subseteq StoredRecs
    BY <1>8, <2>1 DEF Selected, StoredRecs
  <2>3. P \subseteq Hits
    BY <1>15 DEF OfPage
  <2>. QED BY <1>5, <2>2, <2>3 DEF Listing
<1>24. PICK n \in Nat : n = Len(r.seen)
  BY <1>6
<1>25. IsFiniteSet(SeenBy(r))
  BY <1>6, SeenByIs, SeenIsFinite
<1>26. /\ end < Cardinality(Hits) =>
            /\ Cardinality(Missed(r.steady, SeenBy(r) \cup P, r.offset + MaxPageSize, Hits))
                 <= Cardinality(Missed(r.steady, SeenBy(r), r.offset, Hits))
            /\ Cardinality(Ahead(SeenBy(r) \cup P, r.offset + MaxPageSize, Hits))
                 + (n + Cardinality(P)) - Cardinality(SeenBy(r) \cup P)
                 <= Cardinality(Ahead(SeenBy(r), r.offset, Hits)) + n - Cardinality(SeenBy(r))
       /\ ~(end < Cardinality(Hits)) =>
            /\ Cardinality(r.steady \ (SeenBy(r) \cup P)) <= Cardinality(Missed(r.steady, SeenBy(r), r.offset, Hits))
            /\ (n + Cardinality(P)) - Cardinality(SeenBy(r) \cup P)
                 <= Cardinality(Ahead(SeenBy(r), r.offset, Hits)) + n - Cardinality(SeenBy(r))
  <2>1. r.offset \in Nat /\ r.steady \in SUBSET Hits
    BY <1>6
  <2>. QED BY <1>8, <1>15, <1>24, <1>25, <1>33, <2>1, PageCounts
<1>36. /\ Cardinality(Missed(r.steady, SeenBy(r), r.offset, Hits)) <= r.leaves
       /\ Cardinality(Ahead(SeenBy(r), r.offset, Hits)) + n - Cardinality(SeenBy(r)) <= r.entries
       /\ Head(r.queries).status = "" => r.leaves = 0
  BY <1>5, <1>24 DEF Listing
<1>41. Cardinality(Missed(r.steady, SeenBy(r), r.offset, Hits)) <= r.leaves
  BY <1>36
<1>42. Cardinality(Ahead(SeenBy(r), r.offset, Hits)) + n - Cardinality(SeenBy(r)) <= r.entries
  BY <1>36
<1>43. n + Cardinality(P) \in Nat
  BY <1>17, FS_CardinalityType
<1>37. /\ Cardinality(Missed(r.steady, SeenBy(r), r.offset, Hits)) \in Nat
       /\ Cardinality(Ahead(SeenBy(r), r.offset, Hits)) \in Nat
       /\ Cardinality(SeenBy(r)) \in Nat /\ Cardinality(P) \in Nat /\ Cardinality(SeenBy(r) \cup P) \in Nat
  <2>1. /\ IsFiniteSet(Missed(r.steady, SeenBy(r), r.offset, Hits))
        /\ IsFiniteSet(Ahead(SeenBy(r), r.offset, Hits)) /\ IsFiniteSet(SeenBy(r) \cup P)
    BY <1>8, <1>17, <1>25, FS_Subset, FS_Union DEF Missed, Ahead, Passed
  <2>. QED BY <1>17, <1>25, <2>1, FS_CardinalityType
<1>38. PICK s \in ReadType : s = [r EXCEPT !.seen = seen]
  BY <1>6, <1>19 DEF ReadType
<1>39. /\ s.seen = seen /\ s.offset = r.offset /\ s.at = r.at /\ s.steady = r.steady
       /\ s.leaves = r.leaves /\ s.entries = r.entries /\ SameRequest(s)
  BY <1>5, <1>6, <1>38 DEF ReadType, Listing, SameRequest
<1>40. SeenBy(s) = SeenBy(r) \cup P /\ Len(seen) = n + Cardinality(P)
  BY <1>19, <1>24, <1>38, <1>39, SeenByIs
<1>27. CASE end < Cardinality(Hits)
  <2>1. PICK t \in ReadType : t = [s EXCEPT !.offset = r.offset + MaxPageSize]
    <3>1. r.offset + MaxPageSize \in Nat
      BY <1>6, ReadsBoundAssumption
    <3>. QED BY <1>38, <3>1 DEF ReadType
  <2>2. /\ t.seen = seen /\ t.offset = r.offset + MaxPageSize /\ t.at = "page" /\ t.steady = r.steady
        /\ t.leaves = r.leaves /\ t.entries = r.entries /\ SameRequest(t)
    BY <1>6, <1>38, <1>39, <2>1 DEF ReadType, SameRequest
  <2>3. SeenBy(t) = SeenBy(r) \cup P
    BY <1>19, <2>1, <2>2, SeenByIs
  <2>4. read' = t
    BY <1>6, <1>14, <1>27, <1>38, <2>1 DEF ReadType
  <2>5. Cardinality(Missed(t.steady, SeenBy(t), t.offset, Hits)) <= t.leaves
    <3>1. Cardinality(Missed(r.steady, SeenBy(r) \cup P, r.offset + MaxPageSize, Hits))
            <= Cardinality(Missed(r.steady, SeenBy(r), r.offset, Hits))
      BY <1>26, <1>27
    <3>2. IsFiniteSet(Missed(r.steady, SeenBy(r) \cup P, r.offset + MaxPageSize, Hits))
      BY <1>8, FS_Subset DEF Missed, Passed
    <3>3. Cardinality(Missed(r.steady, SeenBy(r) \cup P, r.offset + MaxPageSize, Hits)) \in Nat
      BY <3>2, FS_CardinalityType
    <3>4. Cardinality(Missed(r.steady, SeenBy(r) \cup P, r.offset + MaxPageSize, Hits)) <= r.leaves
      BY <1>6, <1>37, <1>41, <3>1, <3>3, AtMostThrough
    <3>. QED BY <2>2, <2>3, <3>4
  <2>6. Cardinality(Ahead(SeenBy(t), t.offset, Hits)) + Len(t.seen) - Cardinality(SeenBy(t)) <= t.entries
    <3>1. Cardinality(Ahead(SeenBy(r) \cup P, r.offset + MaxPageSize, Hits))
            + (n + Cardinality(P)) - Cardinality(SeenBy(r) \cup P)
            <= Cardinality(Ahead(SeenBy(r), r.offset, Hits)) + n - Cardinality(SeenBy(r))
      BY <1>26, <1>27
    <3>2. IsFiniteSet(Ahead(SeenBy(r) \cup P, r.offset + MaxPageSize, Hits))
      BY <1>8, FS_Subset DEF Ahead
    <3>3. Cardinality(Ahead(SeenBy(r) \cup P, r.offset + MaxPageSize, Hits)) \in Nat
      BY <3>2, FS_CardinalityType
    <3>4. Cardinality(Ahead(SeenBy(r) \cup P, r.offset + MaxPageSize, Hits))
            + (n + Cardinality(P)) - Cardinality(SeenBy(r) \cup P) <= r.entries
      BY <1>6, <1>37, <1>42, <1>43, <3>1, <3>3, SumsThrough
    <3>. QED BY <1>40, <2>2, <2>3, <3>4
  <2>7. /\ Head(t.queries).status = "" => t.leaves = 0
        /\ t.steady \subseteq Hits /\ \A k \in DOMAIN t.seen : t.seen[k].id > 0
    BY <1>6, <1>21, <1>36, <2>2 DEF SameRequest
  <2>8. Listing(t)
    BY <1>5, <1>22, <1>23, <2>2, <2>3, <2>5, <2>6, <2>7 DEF Listing
  <2>. QED BY <1>1, <1>2, <1>3, <2>4, <2>8, MoreKeeps
<1>28. CASE ~(end < Cardinality(Hits))
  <2>1. EndListing(s)
    BY <1>14, <1>28, <1>38
  <2>2. /\ Cardinality(r.steady \ (SeenBy(r) \cup P)) <= Cardinality(Missed(r.steady, SeenBy(r), r.offset, Hits))
        /\ (n + Cardinality(P)) - Cardinality(SeenBy(r) \cup P)
             <= Cardinality(Ahead(SeenBy(r), r.offset, Hits)) + n - Cardinality(SeenBy(r))
    BY <1>26, <1>28
  <2>3. IsFiniteSet(r.steady) /\ IsFiniteSet(r.steady \ (SeenBy(r) \cup P))
    BY <1>6, <1>8, FS_Subset
  <2>4. Cardinality(r.steady \ (SeenBy(r) \cup P)) \in Nat
    BY <2>3, FS_CardinalityType
  <2>5. Cardinality(s.steady \ SeenBy(s)) <= s.leaves
    <3>1. Cardinality(r.steady \ (SeenBy(r) \cup P)) <= r.leaves
      BY <1>6, <1>37, <1>41, <2>2, <2>4, AtMostThrough
    <3>. QED BY <1>39, <1>40, <3>1
  <2>6. Len(s.seen) - Cardinality(SeenBy(s)) <= s.entries
    <3>1. (n + Cardinality(P)) - Cardinality(SeenBy(r) \cup P) <= r.entries
      BY <1>6, <1>37, <1>42, <1>43, <2>2, DifferenceThrough
    <3>. QED BY <1>39, <1>40, <3>1
  <2>7. ASSUME read.kind # "matching"
        PROVE  r.steady \subseteq SeenBy(s)
    <3>1. Head(r.queries).status = ""
      BY <1>2, <1>3, <1>6, <2>7, CurrentQuery
    <3>2. Cardinality(r.steady \ (SeenBy(r) \cup P)) = 0
      <4>1. r.leaves = 0
        BY <1>36, <3>1
      <4>2. /\ Cardinality(r.steady \ (SeenBy(r) \cup P)) <= Cardinality(Missed(r.steady, SeenBy(r), r.offset, Hits))
            /\ Cardinality(Missed(r.steady, SeenBy(r), r.offset, Hits)) <= 0
        BY <1>41, <2>2, <4>1
      <4>. QED BY <1>37, <2>4, <4>2, NoneThrough
    <3>3. r.steady \ (SeenBy(r) \cup P) = {}
      BY <2>3, <3>2, FS_EmptySet
    <3>. QED BY <1>40, <3>3
  <2>8. /\ read.kind = "context" =>
             /\ read.still \cap OfClass(Len(read.parts) + 1) \subseteq SeenBy(s)
             /\ \A k \in DOMAIN s.seen : CopyOf(s.seen[k], Len(read.parts) + 1)
        /\ read.kind = "export" /\ read.parts = <<>> =>
             \A k \in read.saved : RefsOf(k, read.ns.cycle) \subseteq SeenBy(s)
        /\ read.kind = "checkpoint" => SeenBy(s) \subseteq StoredRecs
        /\ read.kind = "bundle" => snaps[read.snap].refs \ {0} = {}
    <3>1. ASSUME read.kind = "context"
          PROVE  /\ read.still \cap OfClass(Len(read.parts) + 1) \subseteq SeenBy(s)
                 /\ \A k \in DOMAIN s.seen : CopyOf(s.seen[k], Len(read.parts) + 1)
      BY <1>5, <1>22, <1>39, <2>7, <3>1 DEF Listing
    <3>2. ASSUME read.kind = "export", read.parts = <<>>
          PROVE  \A k \in read.saved : RefsOf(k, read.ns.cycle) \subseteq SeenBy(s)
      BY <1>5, <2>7, <3>2 DEF Listing
    <3>3. read.kind = "checkpoint" => SeenBy(s) \subseteq StoredRecs
      BY <1>23, <1>40
    <3>4. read.kind = "bundle" => snaps[read.snap].refs \ {0} = {}
      BY <1>5 DEF Listing
    <3>. QED BY <3>1, <3>2, <3>3, <3>4
  <2>9. /\ IsFiniteSet(s.steady) /\ \A k \in DOMAIN s.seen : s.seen[k].id > 0
    BY <1>21, <1>39, <2>3
  <2>10. Ended(s)
    BY <1>39, <2>5, <2>6, <2>8, <2>9 DEF Ended
  <2>. QED BY <1>1, <1>2, <1>3, <2>1, <2>10, EndKeeps
<1>. QED BY <1>27, <1>28

\* An export of a snapshot gets one record after another.  Only a reference to
\* nothing is passed over.
LEMMA FetchOneKeeps ==
  ASSUME IInv, read # Idle, read.at = "fetch", NEW i \in read.todo,
         NEW todo, todo = read.todo \ {i}, NEW seen,
         i \in StoredRecs => seen = Append(read.seen, Copy(Head(read.queries), i)),
         i \notin StoredRecs => seen = read.seen,
         read' = [read EXCEPT !.todo = todo, !.seen = seen],
         recs' = recs, snaps' = snaps, writes' = writes, reads' = reads
  PROVE  IInv'
<1>1. /\ Types /\ RefsInv /\ QueriesInv /\ ListedInv /\ BundleInv /\ read \in ReadType
      /\ read.kind = "bundle" /\ read.queries # <<>>
  BY IdleOrRead DEF IInv, QueriesInv
<1>2. PICK q \in QueryType : q = Head(read.queries) /\ q.of = "records"
  <2>1. ListsCycle(Head(read.queries), read.ns.cycle) /\ Head(read.queries) \in QueryType
    BY <1>1, CurrentQuery
  <2>. QED BY <2>1, QueryFields
<1> DEFINE known == snaps[read.snap].refs \ {0}
<1>3. /\ read.snap \in DOMAIN snaps /\ read.todo \subseteq snaps[read.snap].refs /\ read.steady = {}
      /\ Seen = known \ read.todo /\ Len(read.seen) = Cardinality(Seen)
  BY <1>1 DEF BundleInv
<1>4. i \in StoredRecs \/ i = 0
  BY <1>1, <1>3 DEF RefsInv
<1>5. read.seen \in Seq(CopyType) /\ todo \in SUBSET Nat /\ todo \subseteq read.todo
  BY <1>1 DEF ReadType
<1>6. Seen = IdsIn(read.seen)
  BY DEF Seen, SeenBy, IdsIn
<1>7. IsFiniteSet(Seen) /\ Cardinality(Seen) \in Nat
  BY <1>5, <1>6, SeenIsFinite
<1>8. /\ seen \in Seq(CopyType) /\ \A k \in DOMAIN seen : seen[k].id > 0
      /\ IdsIn(seen) = known \ todo /\ Len(seen) = Cardinality(IdsIn(seen))
  <2>1. CASE i \in StoredRecs
    <3>1. PICK c : c = Copy(q, i)
      OBVIOUS
    <3>2. c.id = i /\ c \in CopyType /\ i \in Nat \ {0}
      <4>1. recs \in Seq(RecType) /\ i \in DOMAIN recs
        BY <1>1, <2>1 DEF Types, StoredRecs
      <4>2. i \in Nat \ {0} /\ recs[i] \in RecType
        BY <4>1
      <4>3. c = AsCopy(i) /\ c.id = i
        BY <1>2, <3>1 DEF Copy, AsCopy
      <4>4. AsCopy(i) \in RecordCopy
        BY <4>2 DEF AsCopy, RecType, RecordCopy
      <4>. QED BY <4>2, <4>3, <4>4 DEF CopyType
    <3>3. seen = Append(read.seen, c)
      BY <1>2, <2>1, <3>1
    <3>4. /\ seen \in Seq(CopyType) /\ Len(seen) = Len(read.seen) + 1
          /\ Len(read.seen) \in Nat /\ DOMAIN read.seen = 1 .. Len(read.seen)
          /\ DOMAIN seen = 1 .. (Len(read.seen) + 1)
          /\ \A k \in DOMAIN read.seen : k \in DOMAIN seen /\ seen[k] = read.seen[k]
          /\ seen[Len(read.seen) + 1] = c
      BY <1>5, <3>2, <3>3, AppendProperties
    <3>5. \A k \in DOMAIN seen : k \in DOMAIN read.seen \/ k = Len(read.seen) + 1
      BY <3>4
    <3>6. Len(read.seen) + 1 \in DOMAIN seen
      BY <3>4
    <3>7. IdsIn(seen) = Seen \cup {i}
      BY <1>6, <3>2, <3>4, <3>5, <3>6 DEF IdsIn
    <3>8. i \notin Seen /\ IdsIn(seen) = known \ todo
      BY <1>3, <3>2, <3>7
    <3>9. Cardinality(IdsIn(seen)) = Cardinality(Seen) + 1
      BY <1>7, <3>7, <3>8, FS_AddElement
    <3>10. \A k \in DOMAIN read.seen : read.seen[k].id > 0
      BY <1>1 DEF ListedInv
    <3>11. c.id > 0
      BY <3>2
    <3>12. \A k \in DOMAIN seen : seen[k].id > 0
      BY <3>4, <3>5, <3>10, <3>11
    <3>13. Len(seen) = Cardinality(IdsIn(seen))
      BY <1>3, <3>4, <3>9
    <3>. QED BY <3>4, <3>8, <3>12, <3>13
  <2>2. CASE i \notin StoredRecs
    <3>1. seen = read.seen /\ i = 0
      BY <1>4, <2>2
    <3>2. \A k \in DOMAIN seen : seen[k].id > 0
      BY <1>1, <3>1 DEF ListedInv
    <3>3. IdsIn(seen) = known \ todo
      BY <1>3, <1>6, <3>1
    <3>. QED BY <1>3, <1>5, <1>6, <3>1, <3>2, <3>3
  <2>. QED BY <2>1, <2>2
<1>. HIDE DEF known
<1>9. /\ read' \in ReadType /\ read' # Idle /\ read'.at = "fetch" /\ read'.kind = "bundle"
      /\ read'.ns = read.ns /\ read'.snap = read.snap /\ read'.queries = read.queries
      /\ read'.parts = read.parts /\ read'.todo = todo /\ read'.seen = seen
      /\ read'.steady = read.steady /\ read'.leaves = read.leaves /\ read'.entries = read.entries
      /\ read'.still = read.still /\ read'.saved = read.saved
  <2>1. PICK s : s = [read EXCEPT !.todo = todo, !.seen = seen]
    OBVIOUS
  <2>2. s \in ReadType
    BY <1>1, <1>5, <1>8, <2>1 DEF ReadType
  <2>3. /\ s.at = "fetch" /\ s.kind = "bundle" /\ s.ns = read.ns /\ s.snap = read.snap
        /\ s.queries = read.queries /\ s.parts = read.parts /\ s.todo = todo /\ s.seen = seen
        /\ s.steady = read.steady /\ s.leaves = read.leaves /\ s.entries = read.entries
        /\ s.still = read.still /\ s.saved = read.saved
    BY <1>1, <2>1 DEF ReadType
  <2>. QED BY <2>1, <2>2, <2>3, ReadIsNotIdle
<1>10. Seen' = known \ todo /\ Len(seen) = Cardinality(Seen')
  BY <1>8, <1>9 DEF Seen, SeenBy, IdsIn
<1>11. Types' /\ RefsInv' /\ StoredRecs' = StoredRecs
  BY <1>1, <1>9 DEF Types, RefsInv, StoredRecs, Clock
<1>12. QueriesInv'
  BY <1>1, <1>9, QueriesStay
<1>13. PageInv'
  BY <1>9 DEF PageInv
<1>14. ListedInv'
  <2>1. read.still \subseteq StoredRecs
    BY <1>1 DEF ListedInv
  <2>2. IsFiniteSet({}) /\ Cardinality({}) = 0 /\ {} \ Seen' = {}
    BY FS_EmptySet
  <2>3. 0 <= read.leaves /\ 0 <= read.entries
    BY <1>1 DEF ReadType
  <2>4. Len(seen) - Len(seen) = 0
    <3>1. Len(seen) \in Nat
      BY <1>8, LenProperties
    <3>. QED BY <3>1
  <2>5. Len(read'.seen) - Cardinality(Seen') <= read'.entries
    BY <1>9, <1>10, <2>3, <2>4
  <2>6. read'.steady = {} /\ Cardinality(read'.steady \ Seen') <= read'.leaves
    BY <1>3, <1>9, <2>2, <2>3
  <2>7. \A k \in DOMAIN read'.seen : read'.seen[k].id > 0
    BY <1>8, <1>9
  <2>. QED BY <1>9, <1>11, <2>1, <2>2, <2>5, <2>6, <2>7 DEF ListedInv
<1>15. BundleInv'
  BY <1>3, <1>5, <1>9, <1>10 DEF BundleInv, known
<1>16. ExportInv' /\ CheckpointInv' /\ ContextInv'
  BY <1>9 DEF ExportInv, CheckpointInv, ContextInv
<1>. QED BY <1>11, <1>12, <1>13, <1>14, <1>15, <1>16 DEF IInv

\* Without any record it lists what its criteria select, and so it does only
\* when it refers to none.
LEMMA FetchNothingKeeps ==
  ASSUME IInv, read # Idle, read.at = "fetch", read.todo = {}, read.seen = <<>>,
         read' = [read EXCEPT !.at = "first"],
         recs' = recs, snaps' = snaps, writes' = writes, reads' = reads
  PROVE  IInv'
<1>1. /\ Types /\ RefsInv /\ QueriesInv /\ ListedInv /\ BundleInv /\ read \in ReadType
      /\ read.kind = "bundle" /\ read.queries # <<>>
  BY IdleOrRead DEF IInv, QueriesInv
<1>2. Seen = {}
  BY DEF Seen, SeenBy
<1>3. read.snap \in DOMAIN snaps /\ snaps[read.snap].refs \ {0} = {}
  BY <1>1, <1>2 DEF BundleInv
<1>4. /\ read' \in ReadType /\ read' # Idle /\ read'.at = "first" /\ read'.kind = "bundle"
      /\ read'.ns = read.ns /\ read'.snap = read.snap /\ read'.queries = read.queries
      /\ read'.parts = read.parts /\ read'.todo = read.todo /\ read'.seen = read.seen
      /\ read'.steady = read.steady /\ read'.leaves = read.leaves /\ read'.entries = read.entries
      /\ read'.still = read.still /\ read'.saved = read.saved
  <2>1. "first" \in Stages
    BY DEF Stages
  <2>2. PICK s : s = [read EXCEPT !.at = "first"]
    OBVIOUS
  <2>3. s \in ReadType
    BY <1>1, <2>1, <2>2 DEF ReadType
  <2>4. /\ s.at = "first" /\ s.kind = "bundle"
        /\ s.ns = read.ns /\ s.snap = read.snap /\ s.queries = read.queries
        /\ s.parts = read.parts /\ s.todo = read.todo /\ s.seen = read.seen
        /\ s.steady = read.steady /\ s.leaves = read.leaves /\ s.entries = read.entries
        /\ s.still = read.still /\ s.saved = read.saved
    BY <1>1, <2>2 DEF ReadType
  <2>. QED BY <2>2, <2>3, <2>4, ReadIsNotIdle
<1>5. Seen' = Seen
  BY <1>4 DEF Seen, SeenBy
<1>6. Types' /\ RefsInv' /\ StoredRecs' = StoredRecs
  BY <1>1, <1>4 DEF Types, RefsInv, StoredRecs, Clock
<1>7. QueriesInv'
  BY <1>1, <1>4, QueriesStay
<1>8. PageInv'
  BY <1>4 DEF PageInv
<1>9. ListedInv'
  BY <1>1, <1>4, <1>5, <1>6 DEF ListedInv
<1>10. BundleInv'
  BY <1>3, <1>4 DEF BundleInv
<1>11. ExportInv' /\ CheckpointInv' /\ ContextInv'
  BY <1>4 DEF ExportInv, CheckpointInv, ContextInv
<1>. QED BY <1>6, <1>7, <1>8, <1>9, <1>10, <1>11 DEF IInv

LEMMA FetchKeeps ==
  ASSUME IInv, Fetch
  PROVE  IInv'
<1>1. /\ read.at = "fetch" /\ recs' = recs /\ snaps' = snaps /\ writes' = writes /\ reads' = reads
  BY DEF Fetch
<1>2. read # Idle
  BY <1>1 DEF Idle
<1>3. ASSUME NEW i \in read.todo,
             read' = [read EXCEPT !.todo = @ \ {i},
                                  !.seen = IF i \in StoredRecs THEN Append(@, Copy(Head(read.queries), i))
                                           ELSE @]
      PROVE  IInv'
  <2>1. read \in ReadType
    BY <1>2, IdleOrRead DEF IInv
  <2>2. PICK todo : todo = read.todo \ {i}
    OBVIOUS
  <2>3. PICK seen : seen = IF i \in StoredRecs THEN Append(read.seen, Copy(Head(read.queries), i))
                           ELSE read.seen
    OBVIOUS
  <2>4. read' = [read EXCEPT !.todo = todo, !.seen = seen]
    BY <1>3, <2>1, <2>2, <2>3 DEF ReadType
  <2>5. /\ i \in StoredRecs => seen = Append(read.seen, Copy(Head(read.queries), i))
        /\ i \notin StoredRecs => seen = read.seen
    BY <2>3
  <2>. QED BY <1>1, <1>2, <2>2, <2>4, <2>5, FetchOneKeeps
<1>4. ASSUME read.todo = {}, read.seen = <<>>, read' = [read EXCEPT !.at = "first"]
      PROVE  IInv'
  BY <1>1, <1>2, <1>4, FetchNothingKeeps
<1>5. ASSUME read.todo = {}, EndListing(read)
      PROVE  IInv'
  <2>1. /\ Types /\ QueriesInv /\ ListedInv /\ BundleInv /\ read \in ReadType
        /\ read.kind = "bundle" /\ read.queries # <<>>
    BY <1>1, <1>2, IdleOrRead DEF IInv, QueriesInv
  <2>2. PICK r : r = read
    OBVIOUS
  <2>3. SeenBy(r) = Seen
    BY <2>2 DEF Seen
  <2>4. SeenBy(r) = snaps[read.snap].refs \ {0}
    BY <1>1, <1>2, <1>5, <2>1, <2>3 DEF BundleInv
  <2>5. SameRequest(r)
    BY <2>1, <2>2 DEF SameRequest
  <2>6. /\ IsFiniteSet(r.steady) /\ \A k \in DOMAIN r.seen : r.seen[k].id > 0
        /\ Cardinality(r.steady \ SeenBy(r)) <= r.leaves
        /\ Len(r.seen) - Cardinality(SeenBy(r)) <= r.entries
    BY <1>1, <1>2, <2>1, <2>2, <2>3 DEF ListedInv
  <2>7. Ended(r)
    BY <2>1, <2>4, <2>5, <2>6 DEF Ended
  <2>8. EndListing(r)
    BY <1>5, <2>2 DEF EndListing
  <2>. QED BY <1>1, <1>2, <2>1, <2>7, <2>8, EndKeeps
<1>. QED BY <1>3, <1>4, <1>5 DEF Fetch

\* What a checkpoint changes of its read.
Checkpointed(at, snap) ==
  /\ read' \in ReadType /\ read'.at = at /\ read'.kind = "checkpoint" /\ read'.ns = read.ns
  /\ read'.snap = snap /\ read'.queries = read.queries /\ read'.parts = read.parts
  /\ read'.seen = read.seen /\ read'.steady = read.steady /\ read'.leaves = read.leaves
  /\ read'.entries = read.entries /\ read'.still = read.still

LEMMA CheckpointKeeps ==
  ASSUME IInv, read # Idle, read.at \in {"stamp", "store"}, recs' = recs, writes' = writes, reads' = reads,
         snaps' \in Seq(SnapType), RefsInv', NEW at, at \in {"store", "done"}, NEW snap,
         Checkpointed(at, snap), at = "store" => snap \in DOMAIN snaps'
  PROVE  IInv'
<1>1. Types /\ QueriesInv /\ ListedInv /\ read \in ReadType /\ read.kind = "checkpoint"
  BY IdleOrRead DEF IInv, QueriesInv
<1>2. read' # Idle /\ read'.at \notin {"first", "page", "fetch", "stamp"}
  BY ReadIsNotIdle DEF Checkpointed
<1>3. Types' /\ StoredRecs' = StoredRecs
  BY <1>1 DEF Types, StoredRecs, Clock, Checkpointed
<1>4. QueriesInv'
  BY <1>1, <1>2 DEF QueriesInv, Queries, Checkpointed
<1>5. PageInv'
  BY <1>2 DEF PageInv
<1>6. Seen' = Seen
  BY DEF Seen, SeenBy, Checkpointed
<1>7. ListedInv'
  BY <1>1, <1>3, <1>6 DEF ListedInv, Checkpointed
<1>8. BundleInv' /\ ExportInv' /\ ContextInv'
  BY DEF BundleInv, ExportInv, ContextInv, Checkpointed
<1>9. CheckpointInv'
  BY <1>2 DEF CheckpointInv, Checkpointed
<1>. QED BY <1>3, <1>4, <1>5, <1>7, <1>8, <1>9 DEF IInv

LEMMA StampCheckpointKeeps ==
  ASSUME IInv, StampCheckpoint
  PROVE  IInv'
<1>1. read.at = "stamp" /\ recs' = recs /\ writes' = writes /\ reads' = reads
  BY DEF StampCheckpoint
<1>2. read # Idle
  BY <1>1 DEF Idle
<1>3. /\ Types /\ RefsInv /\ QueriesInv /\ CheckpointInv /\ read \in ReadType /\ read.kind = "checkpoint"
  BY <1>1, <1>2, IdleOrRead DEF IInv, QueriesInv
<1>4. PICK snap : snap = Snapshot(read.ns.cycle, read.parts[1])
  OBVIOUS
<1>5. snap \in SnapType /\ snap.refs \subseteq StoredRecs
  <2>1. read.ns.cycle \in Cycles \cup {""}
    <3>1. read.ns \in Namespaces
      BY <1>3 DEF ReadType
    <3>. QED BY <3>1 DEF Namespaces
  <2>2. read.parts[1] \subseteq StoredRecs
    BY <1>1, <1>2, <1>3 DEF CheckpointInv
  <2>3. StoredRecs \subseteq Nat
    BY <1>3 DEF StoredRecs, Types
  <2>4. read.parts[1] \in SUBSET Nat
    BY <2>2, <2>3
  <2>. QED BY <1>4, <2>1, <2>2, <2>4 DEF Snapshot, SnapType
<1>6. PICK n \in Nat : n = Len(snaps) + 1
  <2>1. Len(snaps) \in Nat
    BY <1>3 DEF Types
  <2>. QED BY <2>1
<1>7. snaps \in Seq(SnapType) /\ snaps' = Append(snaps, snap)
  BY <1>3, <1>4 DEF StampCheckpoint, Types
<1>8. /\ snaps' \in Seq(SnapType) /\ n \in DOMAIN snaps'
      /\ \A k \in DOMAIN snaps' : snaps'[k] = snap \/ (k \in DOMAIN snaps /\ snaps'[k] = snaps[k])
  <2>1. /\ snaps' \in Seq(SnapType) /\ Len(snaps) \in Nat /\ DOMAIN snaps = 1 .. Len(snaps)
        /\ DOMAIN snaps' = 1 .. (Len(snaps) + 1)
        /\ \A k \in DOMAIN snaps : snaps'[k] = snaps[k]
        /\ snaps'[Len(snaps) + 1] = snap
    BY <1>5, <1>7, AppendProperties
  <2>2. \A k \in DOMAIN snaps' : k \in DOMAIN snaps \/ k = Len(snaps) + 1
    BY <2>1
  <2>3. Len(snaps) + 1 \in DOMAIN snaps'
    BY <2>1
  <2>. QED BY <1>6, <2>1, <2>2, <2>3
<1>9. RefsInv'
  <2>1. StoredRecs' = StoredRecs
    BY <1>1 DEF StoredRecs
  <2>2. \A k \in DOMAIN snaps' : snaps'[k].refs \subseteq StoredRecs \cup {0}
    BY <1>3, <1>5, <1>8 DEF RefsInv
  <2>. QED BY <2>1, <2>2 DEF RefsInv
<1>10. Checkpointed("store", n)
  <2>1. read' = [read EXCEPT !.at = "store", !.snap = n]
    BY <1>6 DEF StampCheckpoint
  <2>2. "store" \in Stages
    BY DEF Stages
  <2>. QED BY <1>3, <2>1, <2>2 DEF ReadType, Checkpointed
<1>. QED BY <1>1, <1>2, <1>8, <1>9, <1>10, CheckpointKeeps

LEMMA StoreCheckpointKeeps ==
  ASSUME IInv, StoreCheckpoint
  PROVE  IInv'
<1>1. read.at = "store" /\ recs' = recs /\ writes' = writes /\ reads' = reads
  BY DEF StoreCheckpoint
<1>2. read # Idle
  BY <1>1 DEF Idle
<1>3. /\ Types /\ RefsInv /\ QueriesInv /\ CheckpointInv /\ read \in ReadType /\ read.kind = "checkpoint"
  BY <1>1, <1>2, IdleOrRead DEF IInv, QueriesInv
<1>4. PICK x \in DOMAIN snaps : x = read.snap
  BY <1>1, <1>2, <1>3 DEF CheckpointInv
<1>5. PICK new : new = [snaps[x] EXCEPT !.stored = TRUE]
  OBVIOUS
<1>6. snaps \in Seq(SnapType) /\ snaps' = [snaps EXCEPT ![x] = new]
  BY <1>3, <1>4, <1>5 DEF StoreCheckpoint, Types
<1>7. new \in SnapType /\ new.refs = snaps[x].refs
  <2>1. snaps[x] \in SnapType
    BY <1>6
  <2>. QED BY <1>5, <2>1 DEF SnapType
<1>8. /\ snaps' \in Seq(SnapType) /\ DOMAIN snaps' = DOMAIN snaps
      /\ snaps'[x] = new /\ \A k \in DOMAIN snaps : k # x => snaps'[k] = snaps[k]
  BY <1>6, <1>7, ChangedInPlace
<1>9. \A k \in DOMAIN snaps : snaps'[k].refs = snaps[k].refs
  BY <1>7, <1>8
<1>10. RefsInv'
  BY <1>1, <1>3, <1>8, <1>9 DEF RefsInv, StoredRecs
<1>11. Checkpointed("done", read.snap)
  <2>1. "done" \in Stages
    BY DEF Stages
  <2>2. read' = [read EXCEPT !.at = "done"]
    BY DEF StoreCheckpoint
  <2>. QED BY <1>3, <2>1, <2>2 DEF ReadType, Checkpointed
<1>. QED BY <1>1, <1>2, <1>8, <1>10, <1>11, CheckpointKeeps

-----------------------------------------------------------------------------
\* The theorems.

\* The invariant holds at the start: nothing is stored and nobody reads.
THEOREM InitIInv == Init => IInv
<1> SUFFICES ASSUME Init
             PROVE  IInv
  OBVIOUS
<1>1. recs = <<>> /\ snaps = <<>> /\ read = Idle /\ writes = 0 /\ reads = 0
  BY DEF Init
<1>2. Types /\ RefsInv
  BY <1>1 DEF Types, RefsInv
<1>. QED BY <1>1, <1>2
         DEF IInv, QueriesInv, PageInv, ListedInv, BundleInv, ExportInv, CheckpointInv, ContextInv

\* Every step of a read, of a request and of a writer keeps the invariant.
THEOREM StepIInv == IInv /\ [Next]_vars => IInv'
<1> SUFFICES ASSUME IInv, [Next]_vars
             PROVE  IInv'
  OBVIOUS
<1>1. Types /\ RefsInv /\ PageInv /\ ListedInv
  BY DEF IInv
<1>2. ASSUME NEW n \in Notes, StampRecord(n)
      PROVE  IInv'
  BY <1>1, <1>2, StampRecordWrites, WriterKeeps
<1>3. ASSUME NEW i \in DOMAIN recs, StoreRecord(i)
      PROVE  IInv'
  BY <1>1, <1>3, StoreRecordWrites, WriterKeeps
<1>4. ASSUME NEW cycle \in SnapshotCycles, NEW i \in StoredRecs \cup {0}, StampSnapshot(cycle, i)
      PROVE  IInv'
  BY <1>1, <1>4, StampSnapshotWrites, WriterKeeps
<1>5. ASSUME NEW k \in DOMAIN snaps, StoreSnapshot(k)
      PROVE  IInv'
  BY <1>1, <1>5, StoreSnapshotWrites, WriterKeeps
<1>6. ASSUME NEW i \in StoredRecs, NEW status \in Targets, WriteStatus(i, status)
      PROVE  IInv'
  BY <1>1, <1>6, WriteStatusWrites, WriterKeeps
<1>7. CASE Read
  BY <1>7, PageKeeps, FetchKeeps, StampCheckpointKeeps, StoreCheckpointKeeps, AnswerKeeps DEF Read
<1>8. ASSUME NEW in \in Requests, Request(in)
      PROVE  IInv'
  BY <1>8, RequestKeeps
<1>9. CASE UNCHANGED vars
  <2>1. recs' = recs /\ snaps' = snaps /\ read' = read /\ writes' = writes /\ reads' = reads
    BY <1>9 DEF vars
  <2>2. Types' /\ RefsInv' /\ QueriesInv' /\ Seen' = Seen /\ Hits' = Hits /\ StoredRecs' = StoredRecs
    BY <2>1 DEF IInv, Types, RefsInv, QueriesInv, Queries, Seen, SeenBy, Hits, Selected, StoredRecs, Clock
  <2>3. PageInv' /\ ListedInv' /\ BundleInv'
    BY <2>1, <2>2 DEF IInv, PageInv, ListedInv, BundleInv, Missed, Ahead, Passed, Rank
  <2>4. ExportInv' /\ CheckpointInv'
    BY <2>1, <2>2 DEF IInv, ExportInv, CheckpointInv, RefsOf
  <2>5. ContextInv'
    <3>1. ASSUME NEW p, NEW x
          PROVE  /\ Shows(p, x)' <=> Shows(p, x)
                 /\ Hides(p, x)' <=> Hides(p, x)
                 /\ PutsOpenFirst(p, x)' <=> PutsOpenFirst(p, x)
                 /\ CopyOf(x, p)' <=> CopyOf(x, p)
                 /\ OfClass(p)' = OfClass(p)
      BY <2>1 DEF Shows, Hides, PutsOpenFirst, OfClass, IsShownNow, IsShown, AsCopy, CopyOf
    <3> SUFFICES ASSUME read # Idle, read.kind = "context"
                 PROVE  ContextInv'
      BY <2>1 DEF ContextInv
    <3>2. ASSUME NEW p \in DOMAIN read'.parts
          PROVE  /\ read'.parts[p] \in Seq(Texts)
                 /\ Shows(p, read.parts[p])' /\ Hides(p, read.parts[p])' /\ PutsOpenFirst(p, read.parts[p])'
      BY <2>1, <3>1 DEF IInv, ContextInv
    <3>3. read'.at = "page" =>
            /\ read'.still \cap OfClass(Len(read.parts) + 1)' \subseteq read'.steady
            /\ \A k \in DOMAIN read'.seen : CopyOf(read.seen[k], Len(read.parts) + 1)'
      <4> SUFFICES ASSUME read'.at = "page"
                   PROVE  /\ read'.still \cap OfClass(Len(read.parts) + 1)' \subseteq read'.steady
                          /\ \A k \in DOMAIN read'.seen : CopyOf(read.seen[k], Len(read.parts) + 1)'
        OBVIOUS
      <4>1. PICK p : p = Len(read.parts) + 1
        OBVIOUS
      <4>2. /\ read.still \cap OfClass(p) \subseteq read.steady
            /\ \A k \in DOMAIN read.seen : CopyOf(read.seen[k], p)
        BY <2>1, <4>1 DEF IInv, ContextInv
      <4>3. p = Len(read'.parts) + 1
        BY <2>1, <4>1
      <4>4. ASSUME NEW k \in DOMAIN read'.seen
            PROVE  CopyOf(read.seen[k], Len(read.parts) + 1)'
        <5>1. PICK x : x = read.seen[k]
          OBVIOUS
        <5>2. x = read'.seen[k]
          BY <2>1, <5>1
        <5>3. CopyOf(x, p)'
          BY <2>1, <3>1, <4>2, <5>1
        <5>. QED BY <4>3, <5>2, <5>3
      <4>. QED BY <2>1, <3>1, <4>2, <4>3, <4>4
    <3>. QED BY <2>1, <3>2, <3>3 DEF ContextInv
  <2>. QED BY <2>2, <2>3, <2>4, <2>5 DEF IInv
<1>. QED BY <1>2, <1>3, <1>4, <1>5, <1>6, <1>7, <1>8, <1>9 DEF Next, Write

\* The invariant holds in every state of the specification.
THEOREM Invariance == Spec => []IInv
BY InitIInv, StepIInv, PTL DEF Spec

\* The types of what is stored and read hold for any number of writers, pages
\* and requests: what is listed, referred to or shown exists.
THEOREM Typing == Spec => []TypeOK
<1>1. IInv => TypeOK
  <2> SUFFICES ASSUME IInv
               PROVE  TypeOK
    OBVIOUS
  <2>1. Types /\ RefsInv /\ ListedInv
    BY DEF IInv
  <2>2. ASSUME NEW i \in DOMAIN recs
        PROVE  recs[i].ns \in Namespaces /\ recs[i].updated \in 1 .. Clock
    <3>1. recs[i] \in RecType /\ recs[i].updated \in 1 .. Clock
      BY <2>1 DEF Types
    <3>. QED BY <3>1 DEF RecType
  <2>. QED BY <2>1, <2>2 DEF TypeOK, RefsInv, ListedInv
<1>. QED BY <1>1, Invariance, PTL

LEMMA ListedIsNoPage ==
  ASSUME Listed
  PROVE  read # Idle /\ read.at # "page"
BY DEF Listed, Idle

\* A listing made page by page, by offset (ListScopedRecords), skips no more of
\* what it selected all the time than records have left it meanwhile.
THEOREM SkipsAreDepartures == Spec => []SkipsNeedDepartures
<1>1. IInv => SkipsNeedDepartures
  BY ListedIsNoPage DEF IInv, ListedInv, SkipsNeedDepartures
<1>. QED BY <1>1, Invariance, PTL

\* It repeats no more records than have joined it meanwhile.
THEOREM RepeatsAreArrivals == Spec => []RepeatsNeedArrivals
<1>1. IInv => RepeatsNeedArrivals
  BY ListedIsNoPage DEF IInv, ListedInv, RepeatsNeedArrivals
<1>. QED BY <1>1, Invariance, PTL

\* A context has five parts when it is answered, an export two, and all others
\* one.
LEMMA PartsWhenDone ==
  ASSUME IInv, NEW kind, Done(kind)
  PROVE  /\ read # Idle /\ read \in ReadType /\ read.kind = kind
         /\ kind = "context" => DOMAIN read.parts = 1 .. 5
         /\ kind \in {"export", "bundle"} => read.parts # <<>>
<1>1. read # Idle /\ read.at = "done" /\ read.kind = kind
  BY DEF Done, Idle
<1>2. Types /\ QueriesInv /\ read \in ReadType
  BY <1>1, IdleOrRead DEF IInv
<1>3. read.kind \in ReadKinds /\ read.ns \in Namespaces /\ Len(read.parts) \in Nat
      /\ DOMAIN read.parts = 1 .. Len(read.parts)
  BY <1>2 DEF ReadType
<1>4. read.queries = <<>>
  BY <1>1, <1>2 DEF QueriesInv
<1>5. Len(read.parts) + 0 = Len(Queries(read.kind, read.ns))
  <2>1. Len(<<>>) = 0
    OBVIOUS
  <2>. QED BY <1>1, <1>2, <1>4, <2>1 DEF QueriesInv
<1>6. Len(read.parts) = Len(Queries(read.kind, read.ns))
  BY <1>3, <1>5
<1>7. Shaped(Queries(read.kind, read.ns), read.kind, read.ns)
  BY <1>3, QueryShape
<1>8. kind = "context" => DOMAIN read.parts = 1 .. 5
  BY <1>1, <1>3, <1>6, <1>7 DEF Shaped
<1>9. ASSUME kind \in {"export", "bundle"}
      PROVE  read.parts # <<>>
  <2>1. Len(read.parts) \in {1, 2}
    BY <1>1, <1>6, <1>7, <1>9 DEF Shaped
  <2>2. Len(<<>>) = 0
    OBVIOUS
  <2>. QED BY <2>1, <2>2
<1>. QED BY <1>1, <1>2, <1>8, <1>9

LEMMA PartsOfContext ==
  ASSUME IInv, Done("context"), NEW p \in 1 .. 5
  PROVE  Shows(p, read.parts[p]) /\ Hides(p, read.parts[p]) /\ PutsOpenFirst(p, read.parts[p])
<1>1. read # Idle /\ read.kind = "context" /\ p \in DOMAIN read.parts
  BY PartsWhenDone
<1>. QED BY <1>1 DEF IInv, ContextInv

\* A context shows every record that has not changed since it was asked for,
\* is visible and not archived, unless its class is full: the five listings of
\* BuildCompactContext may be interleaved with any writes.
THEOREM ContextShowsAll == Spec => []ContextShowsWhatStays
<1>1. IInv => ContextShowsWhatStays
  <2> SUFFICES ASSUME IInv, Done("context"), NEW p \in 1 .. 5,
                      NEW i \in read.still \cap OfClass(p), IsShown(AsCopy(i), read.ns, p = 1)
               PROVE  \/ recs[i].text \in Range(read.parts[p])
                      \/ Len(read.parts[p]) = ClassCap(ContextOrder[p])
    BY DEF ContextShowsWhatStays
  <2>1. Shows(p, read.parts[p])
    BY PartsOfContext
  <2>2. IsShownNow(i, p)
    BY DEF IsShownNow
  <2>. QED BY <2>1, <2>2 DEF Shows, Range
<1>. QED BY <1>1, Invariance, PTL

\* No text of a context comes from a record that was archived all the time.
THEOREM ContextHidesAllArchived == Spec => []ContextHidesArchived
<1>1. IInv => ContextHidesArchived
  <2> SUFFICES ASSUME IInv, Done("context"), NEW p \in 1 .. 5, NEW t \in Range(read.parts[p])
               PROVE  \E i \in OfClass(p) :
                        recs[i].text = t /\ ~(i \in read.still /\ recs[i].status = "archived")
    BY DEF ContextHidesArchived
  <2>1. Hides(p, read.parts[p])
    BY PartsOfContext
  <2>2. PICK x \in DOMAIN read.parts[p] : t = read.parts[p][x]
    BY DEF Range
  <2>. QED BY <2>1, <2>2 DEF Hides
<1>. QED BY <1>1, Invariance, PTL

\* Nothing precedes an open record in a context but what is of a nearer scope,
\* of the same and open, or has changed since.
THEOREM ContextIsOrdered == Spec => []ContextPutsOpenFirst
<1>1. IInv => ContextPutsOpenFirst
  <2> SUFFICES ASSUME IInv, Done("context"), NEW p \in 1 .. 5,
                      NEW x \in DOMAIN read.parts[p], NEW y \in DOMAIN read.parts[p], x < y,
                      NEW i \in read.still \cap OfClass(p),
                      recs[i].text = read.parts[p][y], recs[i].status = "open",
                      IsShown(AsCopy(i), read.ns, p = 1)
               PROVE  \E j \in OfClass(p) :
                        /\ recs[j].text = read.parts[p][x]
                        /\ LET near == ScopePriority(recs[j].ns, read.ns)
                               far  == ScopePriority(recs[i].ns, read.ns)
                           IN near < far \/ (near = far /\ (j \in read.still => recs[j].status = "open"))
    BY DEF ContextPutsOpenFirst
  <2>1. PutsOpenFirst(p, read.parts[p])
    BY PartsOfContext
  <2>2. IsShownNow(i, p)
    BY DEF IsShownNow
  <2>. QED BY <2>1, <2>2 DEF PutsOpenFirst
<1>. QED BY <1>1, Invariance, PTL

\* The export of a run holds the records that the snapshots in it refer to
\* which were there when it began; the export of a snapshot holds just what
\* the snapshot refers to, unless that is nothing.
THEOREM ExportsAreClosed == Spec => []ExportIsClosed
<1>1. IInv => ExportIsClosed
  <2> SUFFICES ASSUME IInv
               PROVE  ExportIsClosed
    OBVIOUS
  <2>1. ASSUME Done("export"), NEW k \in read.saved \cap read.parts[2]
        PROVE  {i \in snaps[k].refs \ {0} : read.ns.cycle # "" => recs[i].ns.cycle = read.ns.cycle}
                 \subseteq read.parts[1]
    <3>1. read # Idle /\ read.kind = "export" /\ read.parts # <<>>
      BY <2>1, PartsWhenDone
    <3>. QED BY <2>1, <3>1 DEF IInv, ExportInv, RefsOf
  <2>2. ASSUME Done("bundle"), snaps[read.snap].refs \ {0} # {}
        PROVE  read.parts[1] = snaps[read.snap].refs \ {0}
    <3>1. read # Idle /\ read.kind = "bundle" /\ read.at = "done"
      BY <2>2, PartsWhenDone DEF Done
    <3>. QED BY <2>2, <3>1 DEF IInv, BundleInv
  <2>. QED BY <2>1, <2>2 DEF ExportIsClosed
<1>. QED BY <1>1, Invariance, PTL

=============================================================================
