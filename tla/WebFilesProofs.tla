--------------------------- MODULE WebFilesProofs ---------------------------
(***************************************************************************)
(* The cache of static files and the rate limiter, for any files, limits   *)
(* and clients: the accounted size is that of what is cached, through the  *)
(* loops that evict and clean up; the Map is in the order of use; exactly  *)
(* the limit is admitted.                                                  *)
(***************************************************************************)
EXTENDS WebUIServer, SequenceTheorems, WellFoundedInduction, TLAPS

(* Recursion over the natural numbers up to a bound: what is true of 0 and *)
(* goes from each number to the next is true of all, and a function is     *)
(* defined by its value at 0 and the step from each number to the next.    *)

LEMMA NatLeast ==
  ASSUME NEW T \in SUBSET Nat, T # {}
  PROVE  \E x \in T : \A y \in T : x <= y
<1>1. PICK x \in T : \A y \in T : ~ (<<y, x>> \in OpToRel(<, Nat))
  BY NatLessThanWellFounded, WFMin
<1>2. OpToRel(<, Nat) = {ss \in Nat \X Nat : ss[1] < ss[2]}
  BY DEF OpToRel
<1>3. ASSUME NEW y \in T PROVE x <= y
  <2>1. <<y, x>> \in Nat \X Nat
    OBVIOUS
  <2>2. ~ (y < x)
    BY <1>1, <1>2, <2>1
  <2> QED BY <2>2
<1> QED BY <1>3

LEMMA Inductive ==
  ASSUME NEW n \in Nat, NEW T \in SUBSET (0..n), 0 \in T,
         \A i \in 1..n : i - 1 \in T => i \in T
  PROVE  T = 0..n
<1> SUFFICES ASSUME (0..n) \ T # {} PROVE FALSE
  OBVIOUS
<1>1. PICK x \in (0..n) \ T : \A y \in (0..n) \ T : x <= y
  <2>1. (0..n) \ T \in SUBSET Nat
    OBVIOUS
  <2> QED BY <2>1, NatLeast
<1>2. x \in 1..n /\ x - 1 \in 0..n
  OBVIOUS
<1>3. x - 1 \in T
  BY <1>1, <1>2
<1> QED BY <1>2, <1>3

\* f begins with a, and step[i] takes its value at i - 1 to that at i.
Iterates(n, S, a, step, f) ==
  f \in [0..n -> S] /\ f[0] = a /\ \A i \in 1..n : f[i] = step[i][f[i - 1]]

LEMMA Recursion ==
  ASSUME NEW n \in Nat, NEW S, NEW a \in S, NEW step \in [1..n -> [S -> S]]
  PROVE  \E f : Iterates(n, S, a, step, f)
<1> DEFINE Upto(m, f) == f[0] = a /\ \A i \in 1..m : f[i] = step[i][f[i - 1]]
           done == {m \in 0..n : \E f \in [0..m -> S] : Upto(m, f)}
<1>1. 0 \in done
  <2> DEFINE g == [i \in 0..0 |-> a]
  <2>1. g \in [0..0 -> S] /\ Upto(0, g)
    OBVIOUS
  <2>2. 0 \in 0..n
    OBVIOUS
  <2> HIDE DEF g, Upto
  <2> QED BY <2>1, <2>2
<1>2. ASSUME NEW m \in 1..n, m - 1 \in done PROVE m \in done
  <2>1. PICK f \in [0..(m - 1) -> S] : Upto(m - 1, f)
    BY <1>2
  <2>2. PICK b \in S : b = step[m][f[m - 1]]
    <3>1. f[m - 1] \in S
      BY <2>1
    <3> QED BY <3>1
  <2> DEFINE g == [i \in 0..m |-> IF i = m THEN b ELSE f[i]]
  <2>3. g \in [0..m -> S]
    BY <2>1, <2>2
  <2>4. g[0] = a
    BY <2>1
  <2>5. ASSUME NEW i \in 1..m
        PROVE  g[i] = step[i][g[i - 1]]
    <3>1. g[i - 1] = f[i - 1]
      OBVIOUS
    <3>2. CASE i = m
      BY <2>2, <3>1, <3>2
    <3>3. CASE i # m
      BY <2>1, <3>1, <3>3
    <3> QED BY <3>2, <3>3
  <2>6. Upto(m, g)
    BY <2>4, <2>5
  <2>7. m \in 0..n
    OBVIOUS
  <2> HIDE DEF g, Upto
  <2> QED BY <2>3, <2>6, <2>7
<1>3. done = 0..n
  <2>1. done \in SUBSET (0..n)
    OBVIOUS
  <2> HIDE DEF done
  <2> QED BY <1>1, <1>2, <2>1, Inductive
<1>4. PICK f \in [0..n -> S] : Upto(n, f)
  BY SMTT(30), <1>3
<1> QED BY <1>4 DEF Iterates

-----------------------------------------------------------------------------
(* Sums of sizes.                                                          *)

LEMMA SizeIsNat ==
  ASSUME NEW e \in CacheEntry
  PROVE  SizeOf(e) \in Nat
<1>1. e.path \in Paths /\ e.version \in Versions
  BY DEF CacheEntry
<1>2. <<e.path, e.version>> \in Paths \X Versions
  BY <1>1
<1> QED BY <1>2, CacheAssumption DEF SizeOf

\* t[i] is the length of the first i entries of s.
Sums(s, t) ==
  /\ t \in [0..Len(s) -> Int] /\ t[0] = 0
  /\ \A i \in 1..Len(s) : t[i] = t[i - 1] + SizeOf(s[i])

LEMMA SumIsTotal ==
  ASSUME NEW c, c.entries \in Seq(CacheEntry)
  PROVE  \E t : Sums(c.entries, t) /\ TotalSize(c) = t[Len(c.entries)]
<1> DEFINE s == c.entries
           Eq(t) == t = [n \in 0..Len(c.entries) |->
                           IF n = 0 THEN 0 ELSE t[n - 1] + SizeOf(c.entries[n])]
           total == CHOOSE t : Eq(t)
<1>1. Len(s) \in Nat /\ \A i \in 1..Len(s) : SizeOf(s[i]) \in Nat
  BY LenProperties, ElementOfSeq, SizeIsNat
<1>2. \E t : Eq(t)
  <2> DEFINE step == [i \in 1..Len(s) |-> [x \in Int |-> x + SizeOf(s[i])]]
  <2>1. step \in [1..Len(s) -> [Int -> Int]]
    BY <1>1
  <2>2. PICK f : Iterates(Len(s), Int, 0, step, f)
    <3>1. 0 \in Int /\ Len(s) \in Nat
      BY <1>1
    <3> HIDE DEF step, s
    <3> QED BY <2>1, <3>1, Recursion, Zenon
  <2>3. ASSUME NEW i \in 1..Len(s) PROVE f[i] = f[i - 1] + SizeOf(s[i])
    <3>1. f[i] = step[i][f[i - 1]]
      BY <2>2 DEF Iterates
    <3>2. f[i - 1] \in Int
      BY <1>1, <2>2 DEF Iterates
    <3>3. step[i] = [x \in Int |-> x + SizeOf(s[i])]
      OBVIOUS
    <3> HIDE DEF step
    <3> QED BY <3>1, <3>2, <3>3
  <2>4. \A n \in 0..Len(s) : f[n] = IF n = 0 THEN 0 ELSE f[n - 1] + SizeOf(s[n])
    BY <1>1, <2>2, <2>3 DEF Iterates
  <2>5. Eq(f)
    BY <2>2, <2>4 DEF Iterates
  <2> QED BY <2>5
<1>3. Eq(total)
  <2> HIDE DEF Eq
  <2> QED BY <1>2
<1>4. TotalSize(c) = total[Len(c.entries)]
  BY DEF TotalSize
<1>5. total[0] = 0 /\ \A i \in 1..Len(s) : total[i] = total[i - 1] + SizeOf(s[i])
  <2>1. \A n \in 0..Len(s) : total[n] = IF n = 0 THEN 0 ELSE total[n - 1] + SizeOf(s[n])
    <3> HIDE DEF total
    <3> QED BY <1>3
  <2> HIDE DEF total
  <2> QED BY <1>1, <2>1
<1>6. \A i \in 0..Len(s) : total[i] \in Int
  <2> DEFINE T == {i \in 0..Len(s) : total[i] \in Int}
  <2> HIDE DEF total
  <2>1. 0 \in T
    BY <1>1, <1>5
  <2>2. ASSUME NEW i \in 1..Len(s), i - 1 \in T PROVE i \in T
    BY <1>1, <1>5, <2>2
  <2>3. T \in SUBSET (0..Len(s))
    OBVIOUS
  <2>4. T = 0..Len(s)
    <3> HIDE DEF T, s
    <3> QED BY <1>1, <2>1, <2>2, <2>3, Inductive
  <2> QED BY <2>4
<1>7. total \in [0..Len(s) -> Int]
  <2> HIDE DEF total
  <2> QED BY <1>3, <1>6
<1> QED
  <2> HIDE DEF total
  <2> QED BY <1>4, <1>5, <1>7 DEF Sums

LEMMA SumUnique ==
  ASSUME NEW s \in Seq(CacheEntry), NEW t, NEW u, Sums(s, t), Sums(s, u)
  PROVE  t[Len(s)] = u[Len(s)]
<1> DEFINE T == {i \in 0..Len(s) : t[i] = u[i]}
<1>1. Len(s) \in Nat
  BY LenProperties
<1>2. 0 \in T
  BY <1>1 DEF Sums
<1>3. ASSUME NEW i \in 1..Len(s), i - 1 \in T PROVE i \in T
  BY <1>1, <1>3 DEF Sums
<1>4. T \in SUBSET (0..Len(s))
  OBVIOUS
<1>5. T = 0..Len(s)
  <2> HIDE DEF T
  <2> QED BY <1>1, <1>2, <1>3, <1>4, Inductive
<1> QED BY <1>1, <1>5

LEMMA TotalIs ==
  ASSUME NEW c, c.entries \in Seq(CacheEntry), NEW t, Sums(c.entries, t)
  PROVE  TotalSize(c) = t[Len(c.entries)]
BY SumIsTotal, SumUnique

LEMMA RemoveAtIs ==
  ASSUME NEW S, NEW s \in Seq(S), NEW i \in 1..Len(s)
  PROVE  /\ RemoveAt(s, i) \in Seq(S) /\ Len(RemoveAt(s, i)) = Len(s) - 1
         /\ \A k \in 1..Len(s) - 1 : RemoveAt(s, i)[k] = IF k < i THEN s[k] ELSE s[k + 1]
<1>1. PICK n \in Nat : n = Len(s)
  BY LenProperties
<1>2. PICK front : front = SubSeq(s, 1, i - 1)
  OBVIOUS
<1>3. PICK back : back = SubSeq(s, i + 1, n)
  OBVIOUS
<1>4. \A k \in 1..n : s[k] \in S
  BY <1>1, ElementOfSeq
<1>5. /\ front \in Seq(S) /\ Len(front) = i - 1
      /\ \A k \in 1..i - 1 : front[k] = s[k]
  <2>1. \A k \in 1..i - 1 : s[k] \in S
    BY <1>1, <1>4
  <2>2. /\ SubSeq(s, 1, i - 1) \in Seq(S)
        /\ Len(SubSeq(s, 1, i - 1)) = IF 1 <= i - 1 THEN (i - 1) - 1 + 1 ELSE 0
        /\ \A k \in 1..(i - 1) - 1 + 1 : SubSeq(s, 1, i - 1)[k] = s[1 + k - 1]
    BY <1>1, <2>1, SubSeqProperties
  <2> QED BY <1>1, <1>2, <2>2
<1>6. /\ back \in Seq(S) /\ Len(back) = n - i
      /\ \A k \in 1..n - i : back[k] = s[i + k]
  <2>1. \A k \in i + 1..n : s[k] \in S
    BY <1>1, <1>4
  <2>2. /\ SubSeq(s, i + 1, n) \in Seq(S)
        /\ Len(SubSeq(s, i + 1, n)) = IF i + 1 <= n THEN n - (i + 1) + 1 ELSE 0
        /\ \A k \in 1..n - (i + 1) + 1 : SubSeq(s, i + 1, n)[k] = s[(i + 1) + k - 1]
    BY <1>1, <2>1, SubSeqProperties
  <2> QED BY <1>1, <1>3, <2>2, SMTT(30)
<1>7. /\ front \o back \in Seq(S) /\ Len(front \o back) = Len(front) + Len(back)
      /\ \A k \in 1..Len(front) + Len(back) :
           (front \o back)[k] = IF k <= Len(front) THEN front[k] ELSE back[k - Len(front)]
  BY <1>5, <1>6, ConcatProperties
<1>8. RemoveAt(s, i) = front \o back
  BY <1>1, <1>2, <1>3 DEF RemoveAt
<1>9. ASSUME NEW k \in 1..n - 1
      PROVE  (front \o back)[k] = IF k < i THEN s[k] ELSE s[k + 1]
  <2>1. (front \o back)[k] = IF k <= i - 1 THEN front[k] ELSE back[k - (i - 1)]
    BY <1>1, <1>5, <1>6, <1>7
  <2>2. CASE k < i
    BY <1>1, <1>5, <2>1, <2>2
  <2>3. CASE ~(k < i)
    <3>1. k - (i - 1) \in 1..n - i /\ i + (k - (i - 1)) = k + 1
      BY <1>1, <2>3
    <3> QED BY <1>1, <1>6, <2>1, <2>3, <3>1
  <2> QED BY <2>2, <2>3
<1> QED BY <1>1, <1>5, <1>6, <1>7, <1>8, <1>9

LEMMA SumWithout ==
  ASSUME NEW s \in Seq(CacheEntry), NEW i \in 1..Len(s), NEW t, Sums(s, t)
  PROVE  \E u : Sums(RemoveAt(s, i), u) /\ u[Len(s) - 1] = t[Len(s)] - SizeOf(s[i])
<1>1. PICK r : r = RemoveAt(s, i)
  OBVIOUS
<1>2. PICK n \in Nat : n = Len(s) /\ n > 0
  BY LenProperties
<1>3. /\ Len(r) = n - 1
      /\ \A k \in 1..n - 1 : r[k] = IF k < i THEN s[k] ELSE s[k + 1]
  BY <1>1, <1>2, RemoveAtIs
<1>4. PICK gone \in Int : gone = SizeOf(s[i])
  BY <1>2, ElementOfSeq, SizeIsNat
<1>5. t \in [0..n -> Int] /\ t[0] = 0 /\ \A k \in 1..n : t[k] = t[k - 1] + SizeOf(s[k])
  BY <1>2 DEF Sums
<1>6. PICK u : u = [k \in 0..n - 1 |-> IF k < i THEN t[k] ELSE t[k + 1] - gone]
  OBVIOUS
<1>7. \A k \in 1..n : SizeOf(s[k]) \in Int
  BY <1>2, ElementOfSeq, SizeIsNat
<1>8. u \in [0..n - 1 -> Int]
  BY <1>2, <1>5, <1>6
<1>9. u[0] = 0
  BY <1>2, <1>5, <1>6
<1>10. ASSUME NEW k \in 1..n - 1
       PROVE  u[k] = u[k - 1] + SizeOf(r[k])
  <2>1. CASE k < i
    <3>1. u[k] = t[k] /\ u[k - 1] = t[k - 1] /\ r[k] = s[k]
      BY <1>2, <1>3, <1>6, <2>1
    <3> QED BY <1>2, <1>5, <3>1
  <2>2. CASE k = i
    <3>1. u[k] = t[k + 1] - gone /\ u[k - 1] = t[k - 1] /\ r[k] = s[k + 1]
      BY <1>2, <1>3, <1>6, <2>2
    <3>2. t[k] = t[k - 1] + gone
      BY <1>2, <1>4, <1>5, <2>2
    <3>3. t[k + 1] = t[k] + SizeOf(s[k + 1])
      BY <1>2, <1>5
    <3>4. PICK x \in Int, y \in Int, z \in Int :
               x = t[k - 1] /\ y = t[k] /\ z = SizeOf(s[k + 1])
      <4>1. t[k - 1] \in Int /\ t[k] \in Int
        BY SMTT(30), <1>2, <1>5
      <4>2. SizeOf(s[k + 1]) \in Int
        BY <1>2, <1>7
      <4> QED BY <4>1, <4>2, Zenon
    <3>5. SizeOf(r[k]) = z
      BY <3>1, <3>4
    <3>6. u[k] = (y + z) - gone /\ u[k - 1] = x /\ y = x + gone
      BY <3>1, <3>2, <3>3, <3>4
    <3>7. u[k] = u[k - 1] + z
      BY <3>6
    <3> QED BY <3>5, <3>7, Zenon
  <2>3. CASE k > i
    <3>1. u[k] = t[k + 1] - gone /\ u[k - 1] = t[k] - gone /\ r[k] = s[k + 1]
      BY <1>2, <1>3, <1>6, <2>3
    <3>2. t[k + 1] = t[k] + SizeOf(s[k + 1])
      BY <1>2, <1>5
    <3>3. PICK y \in Int, z \in Int : y = t[k] /\ z = SizeOf(s[k + 1])
      <4>1. t[k] \in Int
        BY <1>2, <1>5
      <4>2. SizeOf(s[k + 1]) \in Int
        BY <1>2, <1>7
      <4> QED BY <4>1, <4>2, Zenon
    <3>4. SizeOf(r[k]) = z
      BY <3>1, <3>3
    <3>5. u[k] = (y + z) - gone /\ u[k - 1] = y - gone
      BY <3>1, <3>2, <3>3
    <3>6. u[k] = u[k - 1] + z
      BY <3>5
    <3> QED BY <3>4, <3>6, Zenon
  <2> QED BY <1>2, <2>1, <2>2, <2>3
<1>11. Sums(r, u)
  BY <1>3, <1>8, <1>9, <1>10 DEF Sums
<1>12. u[n - 1] = t[n] - gone
  <2>1. CASE i = n
    <3>1. u[n - 1] = t[n - 1]
      BY <1>2, <1>6, <2>1
    <3>2. t[n] = t[n - 1] + gone /\ t[n - 1] \in Int
      BY <1>2, <1>4, <1>5, <2>1
    <3> QED BY <3>1, <3>2
  <2>2. CASE i # n
    BY <1>2, <1>6, <2>2
  <2> QED BY <2>1, <2>2
<1> QED BY <1>1, <1>2, <1>4, <1>11, <1>12

LEMMA SumAppended ==
  ASSUME NEW s \in Seq(CacheEntry), NEW e \in CacheEntry, NEW t, Sums(s, t)
  PROVE  \E u : Sums(Append(s, e), u) /\ u[Len(s) + 1] = t[Len(s)] + SizeOf(e)
<1>1. PICK n \in Nat : n = Len(s)
  BY LenProperties
<1>2. PICK r : r = Append(s, e)
  OBVIOUS
<1>3. Len(r) = n + 1 /\ r[n + 1] = e /\ \A k \in 1..n : r[k] = s[k]
  BY <1>1, <1>2, AppendProperties
<1>4. PICK more \in Int : more = SizeOf(e)
  BY SizeIsNat
<1>5. t \in [0..n -> Int] /\ t[0] = 0 /\ \A k \in 1..n : t[k] = t[k - 1] + SizeOf(s[k])
  BY <1>1 DEF Sums
<1>6. PICK u : u = [k \in 0..n + 1 |-> IF k = n + 1 THEN t[n] + more ELSE t[k]]
  OBVIOUS
<1>7. u \in [0..n + 1 -> Int] /\ u[0] = 0
  BY SMTT(30), <1>1, <1>5, <1>6
<1>8. ASSUME NEW k \in 1..n + 1
      PROVE  u[k] = u[k - 1] + SizeOf(r[k])
  <2>1. CASE k = n + 1
    BY <1>1, <1>3, <1>4, <1>6, <2>1
  <2>2. CASE k # n + 1
    <3>1. u[k] = t[k] /\ u[k - 1] = t[k - 1] /\ r[k] = s[k]
      BY <1>1, <1>3, <1>6, <2>2
    <3> QED BY <1>1, <1>5, <2>2, <3>1
  <2> QED BY <2>1, <2>2
<1>9. u[n + 1] = t[n] + more
  BY <1>1, <1>6
<1>10. Sums(r, u)
  BY <1>3, <1>7, <1>8 DEF Sums
<1> QED BY <1>1, <1>2, <1>4, <1>9, <1>10

-----------------------------------------------------------------------------
(* The operations of the cache keep what must be true of it.               *)

Caches == [entries: Seq(CacheEntry), currentSize: Int]

\* No path has two entries.
OneEach(s) == \A i, j \in 1..Len(s) : s[i].path = s[j].path => i = j

\* The entries are in the order of their use.
InUseOrder(s) == \A i, j \in 1..Len(s) : i < j => s[i].accessed >= s[j].accessed

Accounted(c) == \E t : Sums(c.entries, t) /\ c.currentSize = t[Len(c.entries)]

Good(c) ==
  /\ c \in Caches /\ OneEach(c.entries) /\ InUseOrder(c.entries) /\ Accounted(c)
  /\ c.currentSize <= MaxSize /\ Len(c.entries) <= MaxFiles

\* Files whose entries were left out, in their order.
LEMMA LeftOut ==
  ASSUME NEW s \in Seq(CacheEntry), NEW i \in 1..Len(s), OneEach(s), InUseOrder(s)
  PROVE  /\ OneEach(RemoveAt(s, i)) /\ InUseOrder(RemoveAt(s, i))
         /\ \A k \in 1..Len(RemoveAt(s, i)) : RemoveAt(s, i)[k].path # s[i].path
         /\ \A k \in 1..Len(RemoveAt(s, i)) : \E j \in 1..Len(s) : RemoveAt(s, i)[k] = s[j]
<1>1. PICK r : r = RemoveAt(s, i)
  OBVIOUS
<1>2. PICK n \in Nat : n = Len(s) /\ i \in 1..n
  BY LenProperties
<1>3. /\ Len(r) = n - 1
      /\ \A k \in 1..n - 1 : r[k] = IF k < i THEN s[k] ELSE s[k + 1]
  BY <1>1, <1>2, RemoveAtIs
<1>4. OneEach(r)
  <2> SUFFICES ASSUME NEW k \in 1..n - 1, NEW m \in 1..n - 1, r[k].path = r[m].path
               PROVE  k = m
    BY <1>3 DEF OneEach
  <2>1. PICK x \in 1..n, y \in 1..n :
             /\ x = (IF k < i THEN k ELSE k + 1) /\ y = (IF m < i THEN m ELSE m + 1)
    BY <1>2
  <2>2. r[k] = s[x] /\ r[m] = s[y]
    BY <1>3, <2>1
  <2>3. x = y
    BY <1>2, <2>2 DEF OneEach
  <2> QED BY <1>2, <2>1, <2>3
<1>5. InUseOrder(r)
  <2> SUFFICES ASSUME NEW k \in 1..n - 1, NEW m \in 1..n - 1, k < m
               PROVE  r[k].accessed >= r[m].accessed
    BY <1>3 DEF InUseOrder
  <2>1. PICK x \in 1..n, y \in 1..n :
             /\ x = (IF k < i THEN k ELSE k + 1) /\ y = (IF m < i THEN m ELSE m + 1)
    BY <1>2
  <2>2. r[k] = s[x] /\ r[m] = s[y]
    BY <1>3, <2>1
  <2>3. x < y
    BY <1>2, <2>1
  <2>4. s[x].accessed >= s[y].accessed
    BY <1>2, <2>3 DEF InUseOrder
  <2> QED BY <2>2, <2>4
<1>6. ASSUME NEW k \in 1..n - 1 PROVE r[k].path # s[i].path
  <2>1. PICK x \in 1..n : x = (IF k < i THEN k ELSE k + 1)
    BY <1>2
  <2>2. r[k] = s[x] /\ x # i
    BY <1>2, <1>3, <2>1
  <2> QED BY <1>2, <2>2 DEF OneEach
<1>7. ASSUME NEW k \in 1..n - 1 PROVE \E j \in 1..n : r[k] = s[j]
  <2>1. PICK x \in 1..n : x = (IF k < i THEN k ELSE k + 1)
    BY <1>2
  <2>2. r[k] = s[x]
    BY <1>3, <2>1
  <2> QED BY <2>2
<1> QED BY <1>1, <1>2, <1>3, <1>4, <1>5, <1>6, <1>7

LEMMA PlaceIs ==
  ASSUME NEW c \in Caches, NEW path, Has(c, path)
  PROVE  Place(c, path) \in 1..Len(c.entries) /\ c.entries[Place(c, path)].path = path
<1>1. DOMAIN c.entries = 1..Len(c.entries)
  BY LenProperties DEF Caches
<1>2. \E i \in DOMAIN c.entries : c.entries[i].path = path
  BY DEF Has
<1> QED BY <1>1, <1>2 DEF Place

LEMMA Removed ==
  ASSUME NEW c, Good(c), NEW path
  PROVE  /\ Good(RemoveEntry(c, path)) /\ ~Has(RemoveEntry(c, path), path)
         /\ \A other : Has(RemoveEntry(c, path), other) => Has(c, other)
         /\ Has(c, path) => Len(RemoveEntry(c, path).entries) = Len(c.entries) - 1
<1>1. CASE ~Has(c, path)
  BY <1>1 DEF RemoveEntry
<1>2. CASE Has(c, path)
  <2>1. c \in Caches /\ c.entries \in Seq(CacheEntry) /\ c.currentSize \in Int
    BY DEF Good, Caches
  <2>2. PICK s, i :
             s \in Seq(CacheEntry) /\ s = c.entries /\ i \in 1..Len(s) /\ i = Place(c, path) /\ s[i].path = path
    BY <1>2, <2>1, PlaceIs
  <2>3. PICK size \in Nat : size = SizeOf(s[i])
    BY <2>2, ElementOfSeq, SizeIsNat
  <2>4. PICK r, d : r = RemoveAt(s, i) /\ d = [entries |-> r, currentSize |-> c.currentSize - size]
    OBVIOUS
  <2>5. RemoveEntry(c, path) = d
    BY <1>2, <2>2, <2>3, <2>4 DEF RemoveEntry, Without, EntryOf
  <2>6. PICK n \in Nat : n = Len(s) /\ n <= MaxFiles
    BY <2>2, LenProperties DEF Good
  <2>7. r \in Seq(CacheEntry) /\ Len(r) = n - 1 /\ d.entries = r /\ d.currentSize = c.currentSize - size
    <3>1. r \in Seq(CacheEntry) /\ Len(r) = n - 1
      BY <2>2, <2>4, <2>6, RemoveAtIs
    <3> QED BY <2>4, <3>1
  <2>8. /\ OneEach(r) /\ InUseOrder(r)
        /\ \A k \in 1..Len(r) : r[k].path # path
        /\ \A k \in 1..Len(r) : \E j \in 1..n : r[k] = s[j]
    BY <2>2, <2>4, <2>6, LeftOut DEF Good
  <2>9. Accounted(d)
    <3>1. PICK t : Sums(s, t) /\ c.currentSize = t[n]
      BY <2>2, <2>6 DEF Good, Accounted
    <3>2. PICK u : Sums(r, u) /\ u[n - 1] = t[n] - size
      BY SMTT(30), <2>2, <2>3, <2>4, <2>6, <3>1, SumWithout
    <3> QED BY <2>7, <3>1, <3>2 DEF Accounted
  <2>10. d \in Caches
    BY <2>1, <2>3, <2>4, <2>7 DEF Caches
  <2>11. d.currentSize <= MaxSize /\ Len(d.entries) <= MaxFiles
    BY <2>1, <2>3, <2>6, <2>7, CacheAssumption DEF Good
  <2>12. Good(d)
    BY <2>7, <2>8, <2>9, <2>10, <2>11 DEF Good
  <2>13. DOMAIN r = 1..Len(r) /\ DOMAIN s = 1..n
    BY <2>2, <2>6, <2>7, LenProperties
  <2>14. ~Has(d, path)
    BY <2>7, <2>8, <2>13 DEF Has
  <2>15. ASSUME NEW other, Has(d, other) PROVE Has(c, other)
    <3>1. PICK k \in 1..Len(r) : r[k].path = other
      BY <2>7, <2>13, <2>15 DEF Has
    <3>2. PICK j \in 1..n : r[k] = s[j]
      BY <2>8
    <3> QED BY <2>2, <2>13, <3>1, <3>2 DEF Has
  <2>16. Len(d.entries) = Len(c.entries) - 1
    BY <2>2, <2>6, <2>7
  <2> QED BY <2>5, <2>12, <2>14, <2>15, <2>16
<1> QED BY <1>1, <1>2

\* The newest entry is put at the end.
With(c, e) == [entries |-> Append(c.entries, e), currentSize |-> c.currentSize + SizeOf(e)]

LEMMA Added ==
  ASSUME NEW c, Good(c), NEW e \in CacheEntry, e.accessed = 0, ~Has(c, e.path),
         c.currentSize + SizeOf(e) <= MaxSize, Len(c.entries) < MaxFiles
  PROVE  Good(With(c, e))
<1>1. PICK s \in Seq(CacheEntry) : s = c.entries
  BY DEF Good, Caches
<1>2. PICK n \in Nat : n = Len(s) /\ n < MaxFiles /\ DOMAIN s = 1..n
  BY <1>1, LenProperties
<1>3. PICK size \in Nat : size = SizeOf(e)
  BY SizeIsNat
<1>4. PICK r, d : r = Append(s, e) /\ d = [entries |-> r, currentSize |-> c.currentSize + size]
  OBVIOUS
<1>5. With(c, e) = d
  BY <1>1, <1>3, <1>4 DEF With
<1>6. r \in Seq(CacheEntry) /\ Len(r) = n + 1 /\ r[n + 1] = e /\ \A k \in 1..n : r[k] = s[k]
  BY <1>2, <1>4, AppendProperties
<1>7. c.currentSize \in Int /\ OneEach(s) /\ InUseOrder(s)
  BY <1>1 DEF Good, Caches
<1>8. OneEach(r)
  <2>1. \A k \in 1..n : r[k].path # e.path
    BY <1>1, <1>2, <1>6 DEF Has
  <2>2. \A k, m \in 1..n : r[k].path = r[m].path => k = m
    BY <1>2, <1>6, <1>7 DEF OneEach
  <2> SUFFICES ASSUME NEW k \in 1..n + 1, NEW m \in 1..n + 1, r[k].path = r[m].path
               PROVE  k = m
    BY <1>6 DEF OneEach
  <2> QED BY <1>2, <1>6, <2>1, <2>2
<1>9. InUseOrder(r)
  <2> SUFFICES ASSUME NEW k \in 1..n + 1, NEW m \in 1..n + 1, k < m
               PROVE  r[k].accessed >= r[m].accessed
    BY <1>6 DEF InUseOrder
  <2>1. CASE m = n + 1
    <3>1. k \in 1..n /\ r[k] = s[k] /\ r[m].accessed = 0
      BY <1>2, <1>6, <2>1
    <3>2. s[k] \in CacheEntry
      BY <1>2, <3>1, ElementOfSeq
    <3>3. s[k].accessed \in 0..Old
      BY <3>2 DEF CacheEntry
    <3> QED BY <3>1, <3>3
  <2>2. CASE m # n + 1
    <3>1. k \in 1..n /\ m \in 1..n
      BY <1>2, <2>2
    <3>2. s[k].accessed >= s[m].accessed
      BY <1>2, <1>7, <3>1 DEF InUseOrder
    <3> QED BY <1>6, <3>1, <3>2
  <2> QED BY <2>1, <2>2
<1>10. d.entries = r /\ d.currentSize = c.currentSize + size
  BY <1>4
<1>11. Accounted(d)
  <2>1. PICK t : Sums(s, t) /\ c.currentSize = t[n]
    BY <1>1, <1>2 DEF Good, Accounted
  <2>2. PICK u : Sums(r, u) /\ u[n + 1] = t[n] + size
    BY <1>2, <1>3, <1>4, <2>1, SumAppended
  <2> QED BY <1>6, <1>10, <2>1, <2>2 DEF Accounted
<1>12. d \in Caches
  BY <1>4, <1>6, <1>7 DEF Caches
<1>13. d.currentSize <= MaxSize
  BY <1>3, <1>10
<1>14. Len(d.entries) <= MaxFiles
  BY <1>2, <1>6, <1>10, CacheAssumption
<1> QED BY <1>5, <1>8, <1>9, <1>10, <1>11, <1>12, <1>13, <1>14 DEF Good

LEMMA GetKeeps ==
  ASSUME NEW c, Good(c), NEW path
  PROVE  Good(Get(c, path))
<1>1. CASE ~Hit(c, path)
  BY <1>1, Removed DEF Get
<1>2. CASE Hit(c, path)
  <2>1. Has(c, path) /\ c \in Caches
    BY <1>2 DEF Hit, Good
  <2>2. PICK s, i :
             s \in Seq(CacheEntry) /\ s = c.entries /\ i \in 1..Len(s) /\ i = Place(c, path) /\ s[i].path = path
    BY <2>1, PlaceIs DEF Caches
  <2>3. PICK old \in CacheEntry : old = s[i] /\ old = EntryOf(c, path) /\ old.path = path
    BY <2>2, ElementOfSeq DEF EntryOf
  <2>4. PICK e \in CacheEntry : e = [old EXCEPT !.accessed = 0] /\ e.accessed = 0 /\ e.path = path
    <3>1. 0 \in 0..Old
      BY CacheAssumption DEF Old
    <3>2. PICK e : e = [old EXCEPT !.accessed = 0]
      OBVIOUS
    <3>3. e \in CacheEntry /\ e.accessed = 0 /\ e.path = old.path
      BY <3>1, <3>2 DEF CacheEntry
    <3> QED BY <2>3, <3>2, <3>3
  <2>5. SizeOf(e) = SizeOf(old)
    <3>1. e.path = old.path /\ e.version = old.version
      BY <2>3, <2>4 DEF CacheEntry
    <3> QED BY <3>1 DEF SizeOf
  <2>6. PICK size \in Nat : size = SizeOf(old)
    BY SizeIsNat
  <2>7. PICK d : d = RemoveEntry(c, path)
    OBVIOUS
  <2>8. d = [entries |-> Without(c, path), currentSize |-> c.currentSize - size]
    BY <2>1, <2>3, <2>6, <2>7 DEF RemoveEntry
  <2>9. Good(d) /\ ~Has(d, path) /\ Len(d.entries) = Len(c.entries) - 1
    BY <2>1, <2>7, Removed
  <2>10. c.currentSize \in Int /\ c.currentSize <= MaxSize /\ c = [entries |-> c.entries, currentSize |-> c.currentSize]
    BY <2>1 DEF Good, Caches
  <2>11. d.currentSize + size = c.currentSize
    BY <2>8, <2>10
  <2>12. Len(d.entries) < MaxFiles
    <3>1. Len(c.entries) \in Nat
      BY <2>2, LenProperties
    <3> QED BY <2>9, <3>1, CacheAssumption DEF Good
  <2>13. Good(With(d, e))
    BY <2>4, <2>5, <2>6, <2>9, <2>10, <2>11, <2>12, Added
  <2>14. Get(c, path) = [entries |-> Append(Without(c, path), e), currentSize |-> c.currentSize]
    <3>1. Get(c, path) = [c EXCEPT !.entries = Append(Without(c, path), e)]
      BY <1>2, <2>3, <2>4 DEF Get
    <3>2. c \in Caches
      BY <2>1
    <3> QED BY <3>1, <3>2 DEF Caches
  <2>15. With(d, e) = [entries |-> Append(Without(c, path), e), currentSize |-> c.currentSize]
    <3>1. d.entries = Without(c, path)
      BY <2>8
    <3> QED BY <2>5, <2>6, <2>11, <3>1 DEF With
  <2> QED BY <2>13, <2>14, <2>15
<1> QED BY <1>1, <1>2

LEMMA Evicted ==
  ASSUME NEW c, Good(c)
  PROVE  /\ Good(EvictLRU(c)) /\ \A path : Has(EvictLRU(c), path) => Has(c, path)
         /\ c.entries # <<>> => Len(EvictLRU(c).entries) = Len(c.entries) - 1
<1>1. /\ Good(EvictLRU(c)) /\ \A path : Has(EvictLRU(c), path) => Has(c, path)
      /\ Has(c, Head(c.entries).path) => Len(EvictLRU(c).entries) = Len(c.entries) - 1
  BY Removed DEF EvictLRU
<1>2. ASSUME c.entries # <<>> PROVE Has(c, Head(c.entries).path)
  <2>1. PICK s \in Seq(CacheEntry) : s = c.entries /\ s # <<>>
    BY <1>2 DEF Good, Caches
  <2>2. Head(s) = s[1] /\ 1 \in DOMAIN s
    BY <2>1, LenProperties, EmptySeq
  <2> QED BY <2>1, <2>2 DEF Has
<1> QED BY <1>1, <1>2

\* The loop of set makes the room that is asked for, or empties the cache.
LEMMA RoomMade ==
  ASSUME NEW c, Good(c), NEW path, ~Has(c, path), NEW size \in Nat
  PROVE  /\ Good(MakeRoom(c, size)) /\ ~Has(MakeRoom(c, size), path)
         /\ ~Full(MakeRoom(c, size), size) \/ MakeRoom(c, size).entries = <<>>
<1> DEFINE n == Len(c.entries)
           S == {d \in Caches : Good(d) /\ ~Has(d, path)}
           After(d) == IF Full(d, size) THEN EvictLRU(d) ELSE d
           Eq(f) == f = [i \in 0..Len(c.entries) |->
                           IF i = 0 THEN c
                           ELSE LET d == f[i - 1] IN IF Full(d, size) THEN EvictLRU(d) ELSE d]
           room == CHOOSE f : Eq(f)
           step == [i \in 1..n |-> [d \in S |-> After(d)]]
<1>1. n \in Nat /\ c \in S
  BY LenProperties DEF Good, Caches
<1>2. ASSUME NEW d \in S PROVE After(d) \in S
  <2>1. Good(EvictLRU(d)) /\ ~Has(EvictLRU(d), path)
    BY Evicted
  <2>2. EvictLRU(d) \in Caches
    BY <2>1 DEF Good
  <2> QED BY <2>1, <2>2
<1>3. \E f : Eq(f)
  <2>1. step \in [1..n -> [S -> S]]
    BY <1>2
  <2>2. PICK f : Iterates(n, S, c, step, f)
    <3> HIDE DEF step, S, n
    <3> QED BY <1>1, <2>1, Recursion, Zenon
  <2>3. ASSUME NEW i \in 1..n PROVE f[i] = After(f[i - 1])
    <3>1. f[i] = step[i][f[i - 1]] /\ f[i - 1] \in S
      <4> HIDE DEF step, S
      <4> QED BY <1>1, <2>2 DEF Iterates
    <3>2. step[i] = [d \in S |-> After(d)]
      OBVIOUS
    <3> HIDE DEF step, After, S
    <3> QED BY <3>1, <3>2
  <2>4. \A i \in 0..n : f[i] = IF i = 0 THEN c ELSE After(f[i - 1])
    <3> HIDE DEF After, S
    <3> QED BY <1>1, <2>2, <2>3 DEF Iterates
  <2>5. f = [i \in 0..n |-> IF i = 0 THEN c ELSE After(f[i - 1])]
    <3> HIDE DEF After, S
    <3> QED BY <2>2, <2>4 DEF Iterates
  <2> QED BY <2>5
<1>4. Eq(room)
  <2> HIDE DEF Eq
  <2> QED BY <1>3
<1>5. MakeRoom(c, size) = room[n]
  BY DEF MakeRoom
<1>6. room[0] = c /\ \A i \in 1..n : room[i] = After(room[i - 1])
  <2>1. \A i \in 0..n : room[i] = IF i = 0 THEN c ELSE After(room[i - 1])
    <3> HIDE DEF room
    <3> QED BY <1>4
  <2> HIDE DEF room, After, S
  <2> QED BY <1>1, <2>1
<1> HIDE DEF room
\* Each turn of the loop evicts one entry, until there is room.
<1> DEFINE Room(i) == /\ room[i] \in S
                      /\ Len(room[i].entries) <= n - i \/ ~Full(room[i], size)
           T == {i \in 0..n : Room(i)}
<1>7. 0 \in T
  BY <1>1, <1>6
<1>8. ASSUME NEW i \in 1..n, i - 1 \in T PROVE i \in T
  <2>1. PICK d : d = room[i - 1]
    OBVIOUS
  <2>2. d \in S /\ (Len(d.entries) <= n - (i - 1) \/ ~Full(d, size))
    BY <1>8, <2>1
  <2>3. room[i] = After(d) /\ room[i] \in S
    BY <1>2, <1>6, <2>1, <2>2
  <2>4. CASE ~Full(d, size)
    BY <2>2, <2>3, <2>4
  <2>5. CASE Full(d, size)
    <3>1. room[i] = EvictLRU(d) /\ Len(d.entries) <= n - (i - 1)
      BY <2>2, <2>3, <2>5
    <3>2. d.entries \in Seq(CacheEntry) /\ Len(d.entries) \in Nat
      BY <2>2, LenProperties DEF Caches
    <3>3. CASE d.entries = <<>>
      <4>1. ~Has(d, Head(d.entries).path)
        BY <3>3 DEF Has
      <4>2. EvictLRU(d) = d
        BY <4>1 DEF EvictLRU, RemoveEntry
      <4> QED BY <1>1, <2>3, <3>1, <3>2, <3>3, <4>2
    <3>4. CASE d.entries # <<>>
      <4>1. Len(EvictLRU(d).entries) = Len(d.entries) - 1
        BY <2>2, <3>4, Evicted
      <4> QED BY <1>1, <2>3, <3>1, <3>2, <4>1
    <3> QED BY <3>3, <3>4
  <2> QED BY <2>4, <2>5
<1>9. T = 0..n
  <2>1. T \in SUBSET (0..n)
    OBVIOUS
  <2> HIDE DEF T
  <2> QED BY <1>1, <1>7, <1>8, <2>1, Inductive
<1>10. PICK d : d = room[n] /\ d \in S /\ (Len(d.entries) <= 0 \/ ~Full(d, size))
  BY <1>1, <1>9
<1>11. Len(d.entries) <= 0 => d.entries = <<>>
  BY <1>10, EmptySeq DEF Caches
<1> QED BY <1>5, <1>10, <1>11

LEMMA SetKeeps ==
  ASSUME NEW c, Good(c), NEW path \in Paths, NEW version \in Versions
  PROVE  Good(SetEntry(c, path, version))
<1>1. PICK new \in CacheEntry :
           /\ new = [path |-> path, version |-> version, cached |-> 0, accessed |-> 0]
           /\ new.path = path /\ new.accessed = 0
  <2>1. 0 \in 0..Old
    BY CacheAssumption DEF Old
  <2>2. PICK e : e = [path |-> path, version |-> version, cached |-> 0, accessed |-> 0]
    OBVIOUS
  <2>3. e \in CacheEntry /\ e.path = path /\ e.accessed = 0
    BY <2>1, <2>2 DEF CacheEntry
  <2> QED BY <2>2, <2>3
<1>2. PICK size \in Nat : size = SizeOf(new)
  BY SizeIsNat
<1>3. CASE size > MaxSize
  BY <1>1, <1>2, <1>3 DEF SetEntry
<1>4. CASE ~(size > MaxSize)
  <2>1. Good(RemoveEntry(c, path)) /\ ~Has(RemoveEntry(c, path), path)
    BY Removed
  <2>2. PICK room : /\ room = MakeRoom(RemoveEntry(c, path), size)
                    /\ Good(room) /\ ~Has(room, path)
                    /\ ~Full(room, size) \/ room.entries = <<>>
    BY <2>1, RoomMade
  <2>3. room.currentSize \in Int /\ room.entries \in Seq(CacheEntry) /\ Len(room.entries) \in Nat
    BY <2>2, LenProperties DEF Good, Caches
  <2>4. room.currentSize + size <= MaxSize /\ Len(room.entries) < MaxFiles
    <3>1. CASE ~Full(room, size)
      BY <2>3, <3>1, CacheAssumption DEF Full
    <3>2. CASE room.entries = <<>>
      <4>1. Len(room.entries) = 0
        BY <3>2
      <4>2. room.currentSize = 0
        BY <2>2, <4>1 DEF Good, Accounted, Sums
      <4> QED BY <1>4, <4>1, <4>2, CacheAssumption
    <3> QED BY <2>2, <3>1, <3>2
  <2>5. Good(With(room, new))
    BY <1>1, <1>2, <2>2, <2>4, Added
  <2>6. SetEntry(c, path, version) = With(room, new)
    BY <1>1, <1>2, <1>4, <2>2 DEF SetEntry, With
  <2> QED BY <2>5, <2>6
<1> QED BY <1>3, <1>4, CacheAssumption

LEMMA CleanupKeeps ==
  ASSUME NEW c, Good(c)
  PROVE  Good(CleanupExpired(c))
<1> DEFINE n == Len(c.entries)
           S == {d \in Caches : Good(d)}
           After(i, d) == IF Expired(c.entries[i]) THEN RemoveEntry(d, c.entries[i].path) ELSE d
           Eq(f) == f = [i \in 0..Len(c.entries) |->
                           IF i = 0 THEN c
                           ELSE LET d == f[i - 1]
                                    e == c.entries[i]
                                IN IF Expired(e) THEN RemoveEntry(d, e.path) ELSE d]
           clean == CHOOSE f : Eq(f)
           step == [i \in 1..n |-> [d \in S |-> After(i, d)]]
<1>1. n \in Nat /\ c \in S
  BY LenProperties DEF Good, Caches
<1>2. ASSUME NEW i \in 1..n, NEW d \in S PROVE After(i, d) \in S
  <2>1. Good(RemoveEntry(d, c.entries[i].path))
    BY Removed
  <2>2. RemoveEntry(d, c.entries[i].path) \in Caches
    BY <2>1 DEF Good
  <2> QED BY <2>1, <2>2
<1>3. \E f : Eq(f)
  <2>1. step \in [1..n -> [S -> S]]
    BY <1>2
  <2>2. PICK f : Iterates(n, S, c, step, f)
    <3> HIDE DEF step, S, n
    <3> QED BY <1>1, <2>1, Recursion, Zenon
  <2>3. ASSUME NEW i \in 1..n PROVE f[i] = After(i, f[i - 1])
    <3>1. f[i] = step[i][f[i - 1]] /\ f[i - 1] \in S
      <4> HIDE DEF step, S
      <4> QED BY <1>1, <2>2 DEF Iterates
    <3>2. step[i] = [d \in S |-> After(i, d)]
      OBVIOUS
    <3> HIDE DEF step, After, S
    <3> QED BY <3>1, <3>2
  <2>4. \A i \in 0..n : f[i] = IF i = 0 THEN c ELSE After(i, f[i - 1])
    <3> HIDE DEF After, S
    <3> QED BY <1>1, <2>2, <2>3 DEF Iterates
  <2>5. f = [i \in 0..n |-> IF i = 0 THEN c ELSE After(i, f[i - 1])]
    <3> HIDE DEF After, S
    <3> QED BY <2>2, <2>4 DEF Iterates
  <2> QED BY <2>5
<1>4. Eq(clean)
  <2> HIDE DEF Eq
  <2> QED BY <1>3
<1>5. CleanupExpired(c) = clean[n]
  BY DEF CleanupExpired
<1>6. clean[0] = c /\ \A i \in 1..n : clean[i] = After(i, clean[i - 1])
  <2>1. \A i \in 0..n : clean[i] = IF i = 0 THEN c ELSE After(i, clean[i - 1])
    <3> HIDE DEF clean
    <3> QED BY <1>4
  <2> HIDE DEF clean, After, S
  <2> QED BY <1>1, <2>1
<1> HIDE DEF clean
<1> DEFINE T == {i \in 0..n : clean[i] \in S}
<1>7. 0 \in T
  BY <1>1, <1>6
<1>8. ASSUME NEW i \in 1..n, i - 1 \in T PROVE i \in T
  <2>1. clean[i - 1] \in S
    BY <1>8
  <2>2. clean[i] \in S
    <3> HIDE DEF After, S
    <3> QED BY <1>2, <1>6, <2>1
  <2> QED BY <2>2
<1>9. T = 0..n
  <2>1. T \in SUBSET (0..n)
    OBVIOUS
  <2> HIDE DEF T
  <2> QED BY <1>1, <1>7, <1>8, <2>1, Inductive
<1> QED BY <1>1, <1>5, <1>9

LEMMA AgedKeeps ==
  ASSUME NEW c, Good(c)
  PROVE  Good(Aged(c))
<1> DEFINE older(t) == IF t = Old THEN Old ELSE t + 1
<1>1. PICK s \in Seq(CacheEntry) : s = c.entries
  BY DEF Good, Caches
<1>2. PICK n \in Nat : n = Len(s) /\ n <= MaxFiles /\ DOMAIN s = 1..n
  BY <1>1, LenProperties DEF Good
<1>3. PICK r, d :
        /\ r = [i \in 1..n |-> [s[i] EXCEPT !.cached = older(@), !.accessed = older(@)]]
        /\ d = [entries |-> r, currentSize |-> c.currentSize]
  OBVIOUS
<1>4. \A t \in 0..Old : older(t) \in 0..Old
  BY CacheAssumption DEF Old
<1>5. ASSUME NEW k \in 1..n
      PROVE  /\ r[k] \in CacheEntry /\ r[k].path = s[k].path /\ r[k].version = s[k].version
             /\ r[k].accessed = older(s[k].accessed) /\ s[k].accessed \in 0..Old
  <2>1. s[k] \in CacheEntry
    BY <1>2, ElementOfSeq
  <2>2. r[k] = [s[k] EXCEPT !.cached = older(@), !.accessed = older(@)]
    BY <1>3
  <2>3. older(s[k].cached) \in 0..Old /\ older(s[k].accessed) \in 0..Old /\ s[k].accessed \in 0..Old
    BY <1>4, <2>1 DEF CacheEntry
  <2> HIDE DEF older
  <2> QED BY <2>1, <2>2, <2>3 DEF CacheEntry
<1>6. r \in Seq(CacheEntry) /\ Len(r) = n
  <2>1. DOMAIN r = 1..n /\ r = [i \in 1..n |-> r[i]]
    BY <1>3
  <2>2. \A i \in 1..n : r[i] \in CacheEntry
    BY <1>5
  <2>3. r \in [1..n -> CacheEntry]
    BY <2>1, <2>2
  <2> QED BY <2>1, <2>3
<1>7. OneEach(s) /\ InUseOrder(s)
  BY <1>1 DEF Good
<1>8. OneEach(r)
  <2> SUFFICES ASSUME NEW k \in 1..n, NEW m \in 1..n, r[k].path = r[m].path PROVE k = m
    BY <1>6 DEF OneEach
  <2>1. s[k].path = s[m].path
    BY <1>5
  <2> QED BY <1>2, <1>7, <2>1 DEF OneEach
<1>9. InUseOrder(r)
  <2> SUFFICES ASSUME NEW k \in 1..n, NEW m \in 1..n, k < m
               PROVE  r[k].accessed >= r[m].accessed
    BY <1>6 DEF InUseOrder
  <2>1. s[k].accessed >= s[m].accessed
    BY <1>2, <1>7 DEF InUseOrder
  <2>2. /\ r[k].accessed = older(s[k].accessed) /\ s[k].accessed \in 0..Old
        /\ r[m].accessed = older(s[m].accessed) /\ s[m].accessed \in 0..Old
    <3> HIDE DEF older
    <3> QED BY <1>5
  <2> QED BY <2>1, <2>2, CacheAssumption, SMTT(30) DEF Old
<1>10. d.entries = r /\ d.currentSize = c.currentSize /\ c.currentSize \in Int
  BY <1>3 DEF Good, Caches
<1>11. Accounted(d)
  <2>1. PICK t : Sums(s, t) /\ c.currentSize = t[n]
    BY <1>1, <1>2 DEF Good, Accounted
  <2>2. \A k \in 1..n : SizeOf(r[k]) = SizeOf(s[k])
    <3> HIDE DEF older
    <3> QED BY <1>5 DEF SizeOf
  <2>3. Sums(r, t)
    BY <1>2, <1>6, <2>1, <2>2 DEF Sums
  <2> QED BY <1>6, <1>10, <2>1, <2>3 DEF Accounted
<1>12. d \in Caches
  BY <1>3, <1>6, <1>10 DEF Caches
<1>13. Good(d)
  BY <1>2, <1>6, <1>8, <1>9, <1>10, <1>11, <1>12 DEF Good
<1>14. Aged(c) = d
  <2>1. Aged(c) = [c EXCEPT !.entries = r]
    BY <1>1, <1>2, <1>3 DEF Aged
  <2>2. c \in Caches
    BY DEF Good
  <2> QED BY <1>3, <2>1, <2>2 DEF Caches
<1> QED BY <1>13, <1>14

-----------------------------------------------------------------------------
(* The stamps of a client are in the order of their age, so that those     *)
(* outside the window come first and filter leaves the rest.               *)

Stamp == 0..Window

ByAge(s) == \A i, j \in 1..Len(s) : i < j => s[i] >= s[j]

\* The first k stamps are outside the window, the others in it.
Splits(s, k) ==
  /\ k \in 0..Len(s)
  /\ \A i \in 1..Len(s) : IF i <= k THEN s[i] = Window ELSE s[i] < Window

LEMMA SplitExists ==
  ASSUME NEW s \in Seq(Stamp), ByAge(s)
  PROVE  \E k : Splits(s, k)
<1>1. PICK n \in Nat : n = Len(s) /\ \A i \in 1..n : s[i] \in Stamp
  BY LenProperties, ElementOfSeq
<1> DEFINE T == {i \in 1..n : s[i] < Window}
<1>2. CASE T = {}
  <2>1. \A i \in 1..n : s[i] = Window
    BY <1>1, <1>2, LimiterAssumption, SMTT(30) DEF Stamp
  <2> QED BY <1>1, <2>1 DEF Splits
<1>3. CASE T # {}
  <2>1. PICK x \in T : \A y \in T : x <= y
    <3>1. T \in SUBSET Nat
      OBVIOUS
    <3> HIDE DEF T
    <3> QED BY <1>3, <3>1, NatLeast
  <2>2. \A i \in 1..n : i < x => s[i] = Window
    BY <1>1, <2>1, LimiterAssumption DEF Stamp
  <2>3. ASSUME NEW i \in 1..n, x < i PROVE s[i] < Window
    <3>1. s[x] >= s[i]
      BY <1>1, <2>3 DEF ByAge
    <3> QED BY <1>1, <3>1, LimiterAssumption DEF Stamp
  <2>4. Splits(s, x - 1)
    BY <1>1, <2>2, <2>3 DEF Splits
  <2> QED BY <2>4
<1> QED BY <1>2, <1>3

\* What filter leaves.
LEMMA ValidIs ==
  ASSUME NEW s \in Seq(Stamp), NEW k, Splits(s, k)
  PROVE  /\ Valid(s) \in Seq(Stamp) /\ Len(Valid(s)) = Len(s) - k
         /\ \A i \in 1..Len(s) - k : Valid(s)[i] = s[k + i]
<1> DEFINE Eq(f) == f = [n \in 0..Len(s) |->
                           IF n = 0 THEN <<>>
                           ELSE IF s[n] < Window THEN Append(f[n - 1], s[n]) ELSE f[n - 1]]
           kept == CHOOSE f : Eq(f)
           Filtered == [n \in 0..Len(s) |-> IF n <= k THEN <<>> ELSE SubSeq(s, k + 1, n)]
<1>1. PICK n \in Nat : n = Len(s) /\ k \in 0..n /\ \A i \in 1..n : s[i] \in Stamp
  BY LenProperties, ElementOfSeq DEF Splits
<1>2. ASSUME NEW i \in k + 1..n
      PROVE  SubSeq(s, k + 1, i) = Append(IF i - 1 <= k THEN <<>> ELSE SubSeq(s, k + 1, i - 1), s[i])
  <2>1. SubSeq(s, k + 1, i) = SubSeq(s, k + 1, i - 1) \o <<s[i]>>
    BY <1>1, SubSeqRecursiveSecond
  <2>2. i - 1 <= k => SubSeq(s, k + 1, i - 1) = <<>>
    BY <1>1, SubSeqEmpty
  <2>3. SubSeq(s, k + 1, i - 1) \in Seq(Stamp)
    BY <1>1, SubSeqProperties
  <2> QED BY <1>1, <2>1, <2>2, <2>3
<1>3. ASSUME NEW i \in 1..n
      PROVE  Filtered[i] = IF s[i] < Window THEN Append(Filtered[i - 1], s[i]) ELSE Filtered[i - 1]
  <2>1. /\ Filtered[i] = IF i <= k THEN <<>> ELSE SubSeq(s, k + 1, i)
        /\ Filtered[i - 1] = IF i - 1 <= k THEN <<>> ELSE SubSeq(s, k + 1, i - 1)
    BY <1>1
  <2> HIDE DEF Filtered
  <2>2. CASE i <= k
    <3>1. s[i] = Window
      BY <1>1, <2>2 DEF Splits
    <3> QED BY <1>1, <2>1, <2>2, <3>1, LimiterAssumption
  <2>3. CASE ~(i <= k)
    <3>1. s[i] < Window
      BY <1>1, <2>3 DEF Splits
    <3>2. i \in k + 1..n
      BY <1>1, <2>3
    <3>3. SubSeq(s, k + 1, i) = Append(IF i - 1 <= k THEN <<>> ELSE SubSeq(s, k + 1, i - 1), s[i])
      BY <1>2, <3>2
    <3>4. Filtered[i] = Append(Filtered[i - 1], s[i])
      BY <2>1, <2>3, <3>3
    <3> QED BY <3>1, <3>4
  <2> QED BY <2>2, <2>3
<1>4. Filtered[0] = <<>> /\ DOMAIN Filtered = 0..n
  BY <1>1
<1>5. Eq(Filtered)
  <2>1. ASSUME NEW i \in 0..n
        PROVE  Filtered[i] = IF i = 0 THEN <<>>
          ELSE IF s[i] < Window THEN Append(Filtered[i - 1], s[i]) ELSE Filtered[i - 1]
    <3> HIDE DEF Filtered
    <3>1. CASE i = 0
      BY <1>4, <3>1
    <3>2. CASE i # 0
      <4>1. i \in 1..n
        BY <3>2
      <4>2. Filtered[i] = IF s[i] < Window THEN Append(Filtered[i - 1], s[i]) ELSE Filtered[i - 1]
        BY <1>3, <4>1
      <4> QED BY <3>2, <4>2, Zenon
    <3> QED BY <3>1, <3>2
  <2>2. Filtered = [i \in 0..n |-> Filtered[i]]
    BY <1>1
  <2>3. Filtered = [i \in 0..n |-> IF i = 0 THEN <<>>
          ELSE IF s[i] < Window THEN Append(Filtered[i - 1], s[i]) ELSE Filtered[i - 1]]
    <3> HIDE DEF Filtered
    <3> QED BY <2>1, <2>2
  <2> HIDE DEF Filtered
  <2> QED BY <1>1, <2>3
<1>6. Eq(kept)
  <2> HIDE DEF Eq
  <2> QED BY <1>5
<1>7. Valid(s) = kept[n]
  BY <1>1 DEF Valid
<1>8. \A i \in 0..n : kept[i] = IF i = 0 THEN <<>>
        ELSE IF s[i] < Window THEN Append(kept[i - 1], s[i]) ELSE kept[i - 1]
  <2> HIDE DEF kept
  <2> QED BY <1>1, <1>6
<1> HIDE DEF kept, Filtered
<1> DEFINE T == {i \in 0..n : kept[i] = Filtered[i]}
<1>9. 0 \in T
  BY <1>4, <1>8
<1>10. ASSUME NEW i \in 1..n, i - 1 \in T PROVE i \in T
  BY <1>3, <1>8, <1>10
<1>11. T = 0..n
  <2>1. T \in SUBSET (0..n)
    OBVIOUS
  <2> HIDE DEF T
  <2> QED BY <1>9, <1>10, <2>1, Inductive
<1>12. Valid(s) = Filtered[n]
  BY <1>7, <1>11
<1>13. Filtered[n] = IF n <= k THEN <<>> ELSE SubSeq(s, k + 1, n)
  BY <1>1 DEF Filtered
<1>14. n <= k => SubSeq(s, k + 1, n) = <<>>
  BY <1>1, SubSeqEmpty
<1>15. Valid(s) = SubSeq(s, k + 1, n)
  BY <1>12, <1>13, <1>14
<1>16. /\ SubSeq(s, k + 1, n) \in Seq(Stamp)
       /\ Len(SubSeq(s, k + 1, n)) = IF k + 1 <= n THEN n - (k + 1) + 1 ELSE 0
       /\ \A i \in 1..n - (k + 1) + 1 : SubSeq(s, k + 1, n)[i] = s[(k + 1) + i - 1]
  BY SMTT(30), <1>1, SubSeqProperties
<1>17. Len(Valid(s)) = n - k
  BY <1>1, <1>15, <1>16
<1>18. ASSUME NEW i \in 1..n - k PROVE Valid(s)[i] = s[k + i]
  <2>1. (k + 1) + i - 1 = k + i /\ i \in 1..n - (k + 1) + 1
    BY <1>1
  <2> QED BY <1>15, <1>16, <2>1
<1> QED BY <1>1, <1>15, <1>16, <1>17, <1>18

InWindow(s) == \A i \in 1..Len(s) : s[i] < Window

LEMMA AllValid ==
  ASSUME NEW s \in Seq(Stamp), InWindow(s)
  PROVE  Valid(s) = s
<1>1. Len(s) \in Nat
  BY LenProperties
<1>2. Splits(s, 0)
  BY <1>1 DEF Splits, InWindow
<1>3. Valid(s) \in Seq(Stamp) /\ Len(Valid(s)) = Len(s) /\ \A i \in 1..Len(s) : Valid(s)[i] = s[i]
  BY <1>1, <1>2, ValidIs
<1> QED BY <1>3, SeqEqual

LEMMA ValidStamps ==
  ASSUME NEW s \in Seq(Stamp), ByAge(s)
  PROVE  /\ Valid(s) \in Seq(Stamp) /\ Len(Valid(s)) \in Nat
         /\ ByAge(Valid(s)) /\ InWindow(Valid(s)) /\ Valid(Valid(s)) = Valid(s)
<1>1. PICK k : Splits(s, k)
  BY SplitExists
<1>2. PICK v : v = Valid(s)
  OBVIOUS
<1>3. PICK n \in Nat : n = Len(s) /\ k \in 0..n
  BY <1>1, LenProperties DEF Splits
<1>4. v \in Seq(Stamp) /\ Len(v) = n - k /\ \A i \in 1..n - k : v[i] = s[k + i]
  BY <1>1, <1>2, <1>3, ValidIs
<1>5. InWindow(v)
  <2> SUFFICES ASSUME NEW i \in 1..n - k PROVE v[i] < Window
    BY <1>4 DEF InWindow
  <2>1. k + i \in 1..n /\ ~(k + i <= k)
    BY <1>3
  <2> QED BY <1>1, <1>3, <1>4, <2>1 DEF Splits
<1>6. ByAge(v)
  <2> SUFFICES ASSUME NEW i \in 1..n - k, NEW j \in 1..n - k, i < j PROVE v[i] >= v[j]
    BY <1>4 DEF ByAge
  <2>1. k + i \in 1..n /\ k + j \in 1..n /\ k + i < k + j
    BY <1>3
  <2>2. s[k + i] >= s[k + j]
    BY <1>3, <2>1 DEF ByAge
  <2> QED BY <1>4, <2>2
<1> QED BY <1>2, <1>3, <1>4, <1>5, <1>6, AllValid

LEMMA Appended ==
  ASSUME NEW s \in Seq(Stamp), ByAge(s), InWindow(s)
  PROVE  Append(s, 0) \in Seq(Stamp) /\ ByAge(Append(s, 0)) /\ InWindow(Append(s, 0))
<1>1. PICK n \in Nat : n = Len(s) /\ \A i \in 1..n : s[i] \in Stamp
  BY LenProperties, ElementOfSeq
<1>2. 0 \in Stamp
  BY LimiterAssumption DEF Stamp
<1>3. PICK r : r = Append(s, 0)
  OBVIOUS
<1>4. r \in Seq(Stamp) /\ Len(r) = n + 1 /\ r[n + 1] = 0 /\ \A i \in 1..n : r[i] = s[i]
  BY <1>1, <1>2, <1>3, AppendProperties
<1>5. ByAge(r)
  <2> SUFFICES ASSUME NEW i \in 1..n + 1, NEW j \in 1..n + 1, i < j PROVE r[i] >= r[j]
    BY <1>4 DEF ByAge
  <2>1. CASE j = n + 1
    BY <1>1, <1>4, <2>1 DEF Stamp
  <2>2. CASE j # n + 1
    <3>1. i \in 1..n /\ j \in 1..n
      BY <1>1, <2>2
    <3>2. s[i] >= s[j]
      BY <1>1, <3>1 DEF ByAge
    <3> QED BY <1>4, <3>1, <3>2
  <2> QED BY <2>1, <2>2
<1>6. InWindow(r)
  <2> SUFFICES ASSUME NEW i \in 1..n + 1 PROVE r[i] < Window
    BY <1>4 DEF InWindow
  <2>1. CASE i = n + 1
    BY <1>4, <2>1, LimiterAssumption
  <2>2. CASE i # n + 1
    BY <1>1, <1>4, <2>2 DEF InWindow
  <2> QED BY <2>1, <2>2
<1> QED BY <1>3, <1>4, <1>5, <1>6

\* One unit of time later.
Older(s) == [i \in DOMAIN s |-> IF s[i] < Window THEN s[i] + 1 ELSE Window]

LEMMA OlderIs ==
  ASSUME NEW s \in Seq(Stamp)
  PROVE  /\ Older(s) \in Seq(Stamp) /\ Len(Older(s)) = Len(s)
         /\ \A i \in 1..Len(s) : Older(s)[i] = IF s[i] < Window THEN s[i] + 1 ELSE Window
         /\ ByAge(s) => ByAge(Older(s))
<1>1. PICK n \in Nat : n = Len(s) /\ DOMAIN s = 1..n /\ \A i \in 1..n : s[i] \in Stamp
  BY LenProperties, ElementOfSeq
<1>2. PICK r : r = [i \in 1..n |-> IF s[i] < Window THEN s[i] + 1 ELSE Window]
  OBVIOUS
<1>3. \A i \in 1..n : r[i] = IF s[i] < Window THEN s[i] + 1 ELSE Window
  BY <1>2
<1>4. \A i \in 1..n : r[i] \in Stamp
  BY <1>1, <1>3, LimiterAssumption DEF Stamp
<1>5. r \in [1..n -> Stamp]
  BY <1>2, <1>4
<1>6. r \in Seq(Stamp) /\ Len(r) = n
  BY <1>5
<1>7. ASSUME ByAge(s) PROVE ByAge(r)
  <2> SUFFICES ASSUME NEW i \in 1..n, NEW j \in 1..n, i < j PROVE r[i] >= r[j]
    BY <1>6 DEF ByAge
  <2>1. s[i] >= s[j]
    BY <1>1, <1>7 DEF ByAge
  <2> QED BY <1>1, <1>3, <2>1, LimiterAssumption DEF Stamp
<1>8. Older(s) = r
  BY <1>1, <1>2 DEF Older
<1> QED BY <1>1, <1>3, <1>6, <1>7, <1>8

\* What leaves the window in this unit leaves the stamps that are kept and those
\* that count alike.
LEMMA ValidOlder ==
  ASSUME NEW s \in Seq(Stamp), ByAge(s)
  PROVE  /\ Valid(Older(Valid(s))) = Valid(Older(s))
         /\ Len(Valid(Older(s))) <= Len(Valid(s))
<1>1. PICK n \in Nat : n = Len(s) /\ \A i \in 1..n : s[i] \in Stamp
  BY LenProperties, ElementOfSeq
<1>2. PICK k : Splits(s, k)
  BY SplitExists
<1>3. PICK v \in Seq(Stamp) :
           v = Valid(s) /\ Len(v) = n - k /\ \A i \in 1..n - k : v[i] = s[k + i]
  BY <1>1, <1>2, ValidIs
<1>4. PICK r \in Seq(Stamp) :
        /\ r = Older(s) /\ Len(r) = n /\ ByAge(r)
        /\ \A i \in 1..n : r[i] = IF s[i] < Window THEN s[i] + 1 ELSE Window
  BY <1>1, OlderIs
<1>5. PICK w \in Seq(Stamp) :
        /\ w = Older(v) /\ Len(w) = n - k
        /\ \A i \in 1..n - k : w[i] = IF v[i] < Window THEN v[i] + 1 ELSE Window
  BY <1>3, OlderIs
<1>6. PICK m : Splits(r, m)
  BY <1>4, SplitExists
<1>7. k \in 0..n /\ m \in 0..n
  BY <1>1, <1>2, <1>4, <1>6 DEF Splits
<1>8. k <= m
  <2> SUFFICES ASSUME k > m PROVE FALSE
    BY <1>7
  <2>1. m + 1 \in 1..n /\ m + 1 <= k /\ ~(m + 1 <= m)
    BY <1>7
  <2>2. s[m + 1] = Window
    BY <1>1, <1>2, <2>1 DEF Splits
  <2>3. r[m + 1] < Window
    BY <1>4, <1>6, <2>1 DEF Splits
  <2> QED BY <1>4, <2>1, <2>2, <2>3, LimiterAssumption
<1>9. ASSUME NEW i \in 1..n - k PROVE w[i] = r[k + i]
  <2>1. k + i \in 1..n
    BY <1>7
  <2> QED BY <1>3, <1>4, <1>5, <2>1
<1>10. Splits(w, m - k)
  <2>1. m - k \in 0..Len(w)
    BY <1>5, <1>7, <1>8
  <2>2. ASSUME NEW i \in 1..n - k
        PROVE  IF i <= m - k THEN w[i] = Window ELSE w[i] < Window
    <3>1. k + i \in 1..n /\ (i <= m - k <=> k + i <= m)
      BY <1>7
    <3>2. IF k + i <= m THEN r[k + i] = Window ELSE r[k + i] < Window
      BY <1>4, <1>6, <3>1 DEF Splits
    <3> QED BY <1>9, <3>1, <3>2
  <2> QED BY <1>5, <2>1, <2>2 DEF Splits
<1>11. /\ Valid(r) \in Seq(Stamp) /\ Len(Valid(r)) = n - m
       /\ \A i \in 1..n - m : Valid(r)[i] = r[m + i]
  BY <1>4, <1>6, ValidIs
<1>12. /\ Valid(w) \in Seq(Stamp) /\ Len(Valid(w)) = (n - k) - (m - k)
       /\ \A i \in 1..(n - k) - (m - k) : Valid(w)[i] = w[(m - k) + i]
  BY <1>5, <1>10, ValidIs
<1>13. Len(Valid(w)) = n - m
  BY <1>7, <1>12
<1>14. ASSUME NEW i \in 1..n - m PROVE Valid(w)[i] = Valid(r)[i]
  <2>1. i \in 1..(n - k) - (m - k) /\ (m - k) + i \in 1..n - k /\ k + ((m - k) + i) = m + i
    BY <1>7, <1>8
  <2>2. Valid(w)[i] = r[m + i]
    BY <1>9, <1>12, <2>1
  <2> QED BY <1>11, <2>2
<1>15. Valid(w) = Valid(r)
  BY <1>11, <1>12, <1>13, <1>14, SeqEqual
<1>16. Len(Valid(r)) <= Len(v)
  BY <1>3, <1>7, <1>8, <1>11
<1> QED BY <1>3, <1>4, <1>5, <1>15, <1>16

-----------------------------------------------------------------------------
(* The server.                                                             *)

Awaited ==
  {Idle} \cup [stage: {"looking", "reading"}, path: Paths]
         \cup [stage: {"read"}, path: Paths, version: Versions]

\* What the handlers await, and what they may put into the cache.
ServingType == serving \in [Handlers -> Awaited] /\ disk \in [Paths -> Versions]

\* The requests kept and those that count are the same inside the window.
Tracked(kept, counted) ==
  /\ kept \in Seq(Stamp) /\ ByAge(kept)
  /\ counted = Valid(kept) /\ Len(counted) <= MaxRequests

LimiterInv ==
  /\ DOMAIN requests = Clients /\ DOMAIN admitted = Clients
  /\ \A c \in Clients : Tracked(requests[c], admitted[c])

FilesInv == Good(cache) /\ ServingType /\ LimiterInv

LEMMA NothingTracked == Tracked(<<>>, <<>>)
<1>1. <<>> \in Seq(Stamp) /\ Len(<<>>) = 0
  BY EmptySeq
<1>2. ByAge(<<>>) /\ InWindow(<<>>)
  BY <1>1 DEF ByAge, InWindow
<1>3. Valid(<<>>) = <<>>
  BY <1>1, <1>2, AllValid
<1> QED BY <1>1, <1>2, <1>3, LimiterAssumption DEF Tracked

LEMMA CheckKeeps ==
  ASSUME LimiterInv, NEW c \in Clients, CheckDetailed(c)
  PROVE  LimiterInv'
<1>1. CASE ~Allowed(c)
  <2>1. UNCHANGED <<requests, admitted>>
    BY <1>1 DEF CheckDetailed, limiterVars
  <2> QED BY <2>1 DEF LimiterInv
<1>2. CASE Allowed(c)
  <2>1. /\ requests' = [requests EXCEPT ![c] = Append(Valid(requests[c]), 0)]
        /\ admitted' = [admitted EXCEPT ![c] = Append(admitted[c], 0)]
    BY <1>2 DEF CheckDetailed
  <2>2. Tracked(requests[c], admitted[c])
    BY DEF LimiterInv
  <2>3. PICK v \in Seq(Stamp) :
             /\ v = Valid(requests[c]) /\ v = admitted[c]
             /\ Len(v) \in Nat /\ Len(v) < MaxRequests /\ ByAge(v) /\ InWindow(v)
    BY <1>2, <2>2, ValidStamps DEF Tracked, Allowed
  <2>4. PICK r : r = Append(v, 0)
    OBVIOUS
  <2>5. r \in Seq(Stamp) /\ ByAge(r) /\ InWindow(r)
    BY <2>3, <2>4, Appended
  <2>6. Len(r) = Len(v) + 1
    BY <2>3, <2>4
  <2>7. Tracked(r, r)
    BY <2>3, <2>5, <2>6, AllValid, LimiterAssumption DEF Tracked
  <2>8. DOMAIN requests' = Clients /\ DOMAIN admitted' = Clients
    BY <2>1 DEF LimiterInv
  <2>9. requests'[c] = r /\ admitted'[c] = r
    BY <2>1, <2>3, <2>4 DEF LimiterInv
  <2>10. ASSUME NEW d \in Clients PROVE Tracked(requests'[d], admitted'[d])
    <3>1. CASE d = c
      BY <2>7, <2>9, <3>1
    <3>2. CASE d # c
      <4>1. requests'[d] = requests[d] /\ admitted'[d] = admitted[d]
        BY <2>1, <3>2 DEF LimiterInv
      <4> QED BY <4>1 DEF LimiterInv
    <3> QED BY <3>1, <3>2
  <2> QED BY <2>8, <2>10 DEF LimiterInv
<1> QED BY <1>1, <1>2

LEMMA ClearKeeps ==
  ASSUME LimiterInv, Cleanup
  PROVE  LimiterInv'
<1>1. requests' = [c \in Clients |-> Valid(requests[c])] /\ admitted' = admitted
  BY DEF Cleanup
<1>2. ASSUME NEW c \in Clients PROVE Tracked(requests'[c], admitted'[c])
  <2>1. Tracked(requests[c], admitted[c])
    BY DEF LimiterInv
  <2>2. requests'[c] = Valid(requests[c]) /\ admitted'[c] = admitted[c]
    BY <1>1
  <2> QED BY <2>1, <2>2, ValidStamps DEF Tracked
<1> QED BY <1>1, <1>2 DEF LimiterInv

LEMMA ElapseKeeps ==
  ASSUME LimiterInv, Elapse
  PROVE  LimiterInv'
<1>1. /\ requests' = [c \in Clients |-> Older(requests[c])]
      /\ admitted' = [c \in Clients |-> Valid(Older(admitted[c]))]
  BY DEF Elapse, Older
<1>2. ASSUME NEW c \in Clients PROVE Tracked(requests'[c], admitted'[c])
  <2>1. PICK s \in Seq(Stamp) : s = requests[c] /\ ByAge(s) /\ admitted[c] = Valid(s) /\ Len(Valid(s)) <= MaxRequests
    BY DEF LimiterInv, Tracked
  <2>2. requests'[c] = Older(s) /\ admitted'[c] = Valid(Older(Valid(s)))
    BY <1>1, <2>1
  <2>3. Older(s) \in Seq(Stamp) /\ ByAge(Older(s))
    BY <2>1, OlderIs
  <2>4. Valid(Older(Valid(s))) = Valid(Older(s)) /\ Len(Valid(Older(s))) <= Len(Valid(s))
    BY <2>1, ValidOlder
  <2>5. Len(Valid(Older(s))) \in Nat /\ Len(Valid(s)) \in Nat
    BY <2>1, <2>3, ValidStamps
  <2>6. Len(Valid(Older(s))) <= MaxRequests
    BY <2>1, <2>4, <2>5, LimiterAssumption
  <2> QED BY <2>2, <2>3, <2>4, <2>6 DEF Tracked
<1> QED BY <1>1, <1>2 DEF LimiterInv

LEMMA EmptyIsGood == Good(EmptyCache)
<1>1. PICK s \in Seq(CacheEntry) : s = <<>> /\ Len(s) = 0
  BY EmptySeq
<1>2. PICK c : c = EmptyCache /\ c.entries = s /\ c.currentSize = 0
           /\ c = [entries |-> s, currentSize |-> 0]
  BY <1>1 DEF EmptyCache
<1>3. OneEach(s) /\ InUseOrder(s)
  BY <1>1 DEF OneEach, InUseOrder
<1>4. Sums(s, [i \in 0..0 |-> 0])
  BY <1>1 DEF Sums
<1>5. Accounted(c)
  <2>1. PICK t : t = [i \in 0..0 |-> 0]
    OBVIOUS
  <2>2. Sums(c.entries, t) /\ c.currentSize = t[Len(c.entries)]
    BY <1>1, <1>2, <1>4, <2>1
  <2> QED BY <2>2 DEF Accounted
<1>6. c \in Caches
  BY <1>2 DEF Caches
<1>7. 0 <= MaxSize /\ 0 <= MaxFiles
  BY CacheAssumption
<1> QED BY <1>1, <1>2, <1>3, <1>5, <1>6, <1>7 DEF Good

LEMMA InitHolds == Init => FilesInv
<1> SUFFICES ASSUME Init PROVE FilesInv
  OBVIOUS
<1>1. Good(cache)
  BY EmptyIsGood DEF Init
<1>2. First \in Versions
  <2>1. \E v \in Versions : \A w \in Versions : v <= w
    BY VersionsAssumption, NatLeast
  <2> QED BY <2>1 DEF First
<1>3. ServingType
  BY <1>2 DEF Init, ServingType, Awaited
<1>4. LimiterInv
  BY NothingTracked DEF Init, LimiterInit, LimiterInv
<1> QED BY <1>1, <1>3, <1>4 DEF FilesInv

LEMMA NextKeeps == FilesInv /\ [Next]_vars => FilesInv'
<1> SUFFICES ASSUME FilesInv, [Next]_vars PROVE FilesInv'
  OBVIOUS
<1> USE DEF FilesInv
<1>1. UNCHANGED cache => Good(cache)'
  OBVIOUS
<1>2. UNCHANGED <<serving, disk>> => ServingType'
  BY DEF ServingType
<1>3. UNCHANGED limiterVars => LimiterInv'
  BY DEF LimiterInv, limiterVars
<1>4. \A h \in Handlers, a \in Awaited : [serving EXCEPT ![h] = a] \in [Handlers -> Awaited]
  BY DEF ServingType
<1>5. ASSUME NEW h \in Handlers, NEW c \in Clients, HandleHttpRequest(h, c) PROVE FilesInv'
  <2>1. LimiterInv'
    BY <1>5, CheckKeeps DEF HandleHttpRequest
  <2>2. ServingType'
    <3>1. CASE UNCHANGED serving
      BY <1>2, <1>5, <3>1 DEF HandleHttpRequest
    <3>2. ASSUME NEW p \in Paths, serving' = [serving EXCEPT ![h] = [stage |-> "looking", path |-> p]]
          PROVE  ServingType'
      <4>1. [stage |-> "looking", path |-> p] \in Awaited
        BY DEF Awaited
      <4> QED BY <1>4, <1>5, <3>2, <4>1 DEF HandleHttpRequest, ServingType
    <3> QED BY <1>5, <3>1, <3>2 DEF HandleHttpRequest
  <2> QED BY <1>1, <1>5, <2>1, <2>2 DEF HandleHttpRequest
<1>6. ASSUME NEW h \in Handlers, LookUp(h) PROVE FilesInv'
  <2>1. PICK path : path = serving[h].path /\ path \in Paths
    BY <1>6 DEF LookUp, ServingType, Awaited, Idle
  <2>2. Idle \in Awaited /\ [stage |-> "reading", path |-> path] \in Awaited
    BY <2>1 DEF Awaited
  <2>3. /\ UNCHANGED cache \/ cache' = Get(cache, path)
        /\ \/ serving' = [serving EXCEPT ![h] = Idle]
           \/ serving' = [serving EXCEPT ![h] = [stage |-> "reading", path |-> path]]
        /\ UNCHANGED <<limiterVars, disk>>
    BY <1>6, <2>1 DEF LookUp
  <2>4. Good(cache)'
    BY <2>3, GetKeeps
  <2>5. ServingType'
    BY <1>4, <2>2, <2>3 DEF ServingType
  <2> QED BY <1>3, <2>3, <2>4, <2>5
<1>7. ASSUME NEW h \in Handlers, ReadFile(h) PROVE FilesInv'
  <2>1. PICK path : path = serving[h].path /\ path \in Paths
    BY <1>7 DEF ReadFile, ServingType, Awaited, Idle
  <2>2. Idle \in Awaited /\ [stage |-> "read", path |-> path, version |-> disk[path]] \in Awaited
    BY <2>1 DEF Awaited, ServingType
  <2>3. /\ \/ serving' = [serving EXCEPT ![h] = Idle]
           \/ serving' = [serving EXCEPT ![h] = [stage |-> "read", path |-> path, version |-> disk[path]]]
        /\ UNCHANGED <<limiterVars, cache, disk>>
    BY <1>7, <2>1 DEF ReadFile
  <2>4. ServingType'
    BY <1>4, <2>2, <2>3 DEF ServingType
  <2> QED BY <1>1, <1>3, <2>3, <2>4
<1>8. ASSUME NEW h \in Handlers, CacheFile(h) PROVE FilesInv'
  <2>1. serving[h].path \in Paths /\ serving[h].version \in Versions
    BY <1>8 DEF CacheFile, ServingType, Awaited, Idle
  <2>2. Good(cache)'
    BY <1>8, <2>1, SetKeeps DEF CacheFile
  <2>3. Idle \in Awaited
    BY DEF Awaited
  <2>4. ServingType'
    BY <1>4, <1>8, <2>3 DEF CacheFile, ServingType
  <2> QED BY <1>3, <1>8, <2>2, <2>4 DEF CacheFile
<1>9. ASSUME NEW p \in Edited, FileChanges(p) PROVE FilesInv'
  <2>1. PICK v \in Versions : disk' = [disk EXCEPT ![p] = v]
    BY <1>9 DEF FileChanges
  <2>2. ServingType'
    BY <1>9, <2>1 DEF FileChanges, ServingType
  <2> QED BY <1>1, <1>3, <1>9, <2>2 DEF FileChanges
<1>10. CASE CacheCleanup
  BY <1>2, <1>3, <1>10, CleanupKeeps DEF CacheCleanup
<1>11. CASE LimiterCleanup
  BY <1>1, <1>2, <1>11, ClearKeeps DEF LimiterCleanup
<1>12. CASE Stop
  <2>1. Good(cache)'
    BY <1>12, EmptyIsGood DEF Stop
  <2>2. LimiterInv'
    BY <1>12, NothingTracked DEF Stop, Destroy, LimiterInv
  <2> QED BY <1>2, <1>12, <2>1, <2>2 DEF Stop
<1>13. CASE TimePasses
  BY <1>2, <1>13, AgedKeeps, ElapseKeeps DEF TimePasses
<1>14. CASE UNCHANGED vars
  BY <1>1, <1>2, <1>3, <1>14 DEF vars
<1> QED BY <1>5, <1>6, <1>7, <1>8, <1>9, <1>10, <1>11, <1>12, <1>13, <1>14 DEF Next

LEMMA Invariance == Spec => []FilesInv
BY InitHolds, NextKeeps, PTL DEF Spec

\* The accounted size of the cache is the length of all that is in it, and both
\* limits hold, through replacements, hits, the loops that evict and clean up,
\* and files that come late (StaticFileCache).
THEOREM CacheStaysBounded == Spec => []CacheBounded
<1>1. Good(cache) => CacheBounded
  <2> SUFFICES ASSUME Good(cache) PROVE CacheBounded
    OBVIOUS
  <2>1. cache.entries \in Seq(CacheEntry)
    BY DEF Good, Caches
  <2>2. DOMAIN cache.entries = 1..Len(cache.entries)
    BY <2>1, LenProperties
  <2>3. cache.currentSize = TotalSize(cache)
    BY <2>1, TotalIs DEF Good, Accounted
  <2> QED BY <2>1, <2>2, <2>3 DEF CacheBounded, Good, OneEach
<1> QED BY <1>1, Invariance, PTL DEF FilesInv

\* The Map of the cache is in the order of use, so that the entry that evictLRU
\* takes is the least recently used one.
THEOREM EvictsLeastUsed == Spec => []LruOrder
<1>1. Good(cache) => LruOrder
  <2> SUFFICES ASSUME Good(cache) PROVE LruOrder
    OBVIOUS
  <2>1. DOMAIN cache.entries = 1..Len(cache.entries)
    BY LenProperties DEF Good, Caches
  <2> QED BY <2>1 DEF LruOrder, Good, InUseOrder
<1> QED BY <1>1, Invariance, PTL DEF FilesInv

\* In any window a client is admitted as often as the limit allows and no more,
\* whatever stamps checkDetailed and the clean-up have dropped or kept.
THEOREM AdmitsTheLimit == Spec => []LimitExact
<1>1. LimiterInv => LimitExact
  BY DEF LimiterInv, Tracked, LimitExact, Allowed
<1> QED BY <1>1, Invariance, PTL DEF FilesInv
=============================================================================
