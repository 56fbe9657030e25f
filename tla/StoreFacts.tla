----------------------------- MODULE StoreFacts -----------------------------
(***************************************************************************)
(* Facts about sequences, rings and keyed rows, for whatever they hold: what *)
(* the proofs about the stores and the tables of memtrace-lite rest on.    *)
(***************************************************************************)
EXTENDS Integers, Sequences, SequenceTheorems, FiniteSetTheorems, FunctionTheorems, TLAPS

-----------------------------------------------------------------------------
(* Sequences and sets.                                                     *)

\* An element is appended, and the others stay.
LEMMA AppendFacts ==
  ASSUME NEW X, NEW s \in Seq(X), NEW e \in X
  PROVE  /\ Append(s, e) \in Seq(X) /\ Len(s) \in Nat /\ Len(Append(s, e)) = Len(s) + 1
         /\ DOMAIN s = 1..Len(s) /\ DOMAIN Append(s, e) = 1..(Len(s) + 1)
         /\ Append(s, e)[Len(s) + 1] = e /\ Append(s, e) # <<>>
         /\ \A i \in 1..Len(s) : Append(s, e)[i] = s[i]
BY AppendProperties, LenProperties, EmptySeq

\* The elements of a sequence, by their positions.
LEMMA SeqFacts ==
  ASSUME NEW X, NEW s \in Seq(X)
  PROVE  /\ Len(s) \in Nat /\ DOMAIN s = 1..Len(s)
         /\ \A i \in 1..Len(s) : s[i] \in X
         /\ s = <<>> <=> Len(s) = 0
BY LenProperties, ElementOfSeq, EmptySeq

\* Positions in a sequence are finitely many.
LEMMA PositionsCount ==
  ASSUME NEW n \in Nat, NEW I \in SUBSET (1..n)
  PROVE  /\ IsFiniteSet(I) /\ Cardinality(I) \in 0..n
         /\ Cardinality(I) = n => I = 1..n
         /\ I # {} => Cardinality(I) > 0
         /\ \A J \in SUBSET I : IsFiniteSet(J) /\ Cardinality(J) <= Cardinality(I)
<1>1. IsFiniteSet(1..n) /\ Cardinality(1..n) = n
  BY FS_Interval
<1>2. IsFiniteSet(I) /\ Cardinality(I) <= n /\ (Cardinality(I) = n => I = 1..n)
  BY <1>1, FS_Subset
<1>3. Cardinality(I) \in Nat
  BY <1>2, FS_CardinalityType
<1>4. Cardinality(I) = 0 => I = {}
  BY <1>2, FS_EmptySet
<1>5. \A J \in SUBSET I : IsFiniteSet(J) /\ Cardinality(J) <= Cardinality(I)
  BY <1>2, FS_Subset
<1>6. Cardinality(I) \in 0..n /\ (I # {} => Cardinality(I) > 0)
  <2> DEFINE c == Cardinality(I)
  <2>1. c \in Nat /\ c <= n /\ (c = 0 => I = {})
    BY <1>2, <1>3, <1>4
  <2> HIDE DEF c
  <2>2. c \in 0..n
    BY <2>1
  <2>3. c # 0 => c > 0
    BY <2>1
  <2>4. I # {} => c > 0
    BY <2>1, <2>3, Zenon
  <2> QED  BY <2>2, <2>4, Zenon DEF c
<1> QED  BY <1>2, <1>5, <1>6, Zenon

-----------------------------------------------------------------------------
(* Rings.  What a ring of n slots d shows from slot t on, in c slots.      *)

\* Slot a of a ring of n, counted around it.
Pos(n, a) == a % n

Ring(n, X) == [0..(n - 1) -> X]

View(d, n, t, c) == [i \in 1..c |-> d[Pos(n, t + (i - 1))]]

\* A position moves at most once around the ring.
LEMMA Around ==
  ASSUME NEW n \in Nat \ {0}, NEW a \in 0..(2 * n - 1)
  PROVE  Pos(n, a) \in 0..(n - 1) /\ Pos(n, a) = IF a < n THEN a ELSE a - n
BY DEF Pos

\* What is shown is a sequence of what the slots hold.
LEMMA ViewIsSeq ==
  ASSUME NEW X, NEW n \in Nat \ {0}, NEW d \in Ring(n, X),
         NEW t \in 0..(n - 1), NEW c \in 0..n
  PROVE  View(d, n, t, c) \in Seq(X) /\ Len(View(d, n, t, c)) = c
<1>1. ASSUME NEW i \in 1..c PROVE Pos(n, t + (i - 1)) \in 0..(n - 1)
  <2>1. t + (i - 1) \in 0..(2 * n - 1)
    OBVIOUS
  <2> QED  BY <2>1, Around
<1>2. View(d, n, t, c) \in [1..c -> X]
  BY <1>1 DEF View, Ring
<1>3. c \in Nat
  OBVIOUS
<1>4. View(d, n, t, c) \in Seq(X)
  BY <1>2, <1>3, SeqDef
<1>5. Len(View(d, n, t, c)) = c
  BY <1>2, <1>3, <1>4, LenProperties
<1> QED  BY <1>4, <1>5

\* Each of them is in its slot.
LEMMA ViewAt ==
  ASSUME NEW n \in Nat \ {0}, NEW d, NEW t \in 0..(n - 1), NEW c \in 0..n, NEW i \in 1..c
  PROVE  Pos(n, t + (i - 1)) \in 0..(n - 1) /\ View(d, n, t, c)[i] = d[Pos(n, t + (i - 1))]
<1>1. t + (i - 1) \in 0..(2 * n - 1)
  OBVIOUS
<1> QED  BY <1>1, Around DEF View

\* A position that moves by at most the size of the ring.
LEMMA Moved ==
  ASSUME NEW n \in Nat \ {0}, NEW j \in 0..(n - 1), NEW i \in 0..n
  PROVE  Pos(n, j + i) \in 0..(n - 1) /\ Pos(n, j + i) = IF j + i < n THEN j + i ELSE j + i - n
<1> DEFINE a == j + i
<1>1. a \in 0..(2 * n - 1)
  OBVIOUS
<1> HIDE DEF a
<1>2. Pos(n, a) \in 0..(n - 1) /\ Pos(n, a) = IF a < n THEN a ELSE a - n
  BY <1>1, Around
<1> QED  BY <1>2 DEF a

\* The next slot.
LEMMA NextSlot ==
  ASSUME NEW n \in Nat \ {0}, NEW j \in 0..(n - 1)
  PROVE  Pos(n, j + 1) \in 0..(n - 1) /\ Pos(n, j + 1) = IF j + 1 < n THEN j + 1 ELSE 0
<1>1. 1 \in 0..n
  OBVIOUS
<1> QED  BY <1>1, Moved

\* While there is room, a push goes to a slot that is not shown.
LEMMA SlotsGrow ==
  ASSUME NEW n \in Nat \ {0}, NEW t \in 0..(n - 1), NEW c \in 0..(n - 1)
  PROVE  /\ Pos(n, Pos(n, t + c) + 1) = Pos(n, t + (c + 1))
         /\ \A i \in 1..c : Pos(n, t + (i - 1)) # Pos(n, t + c)
<1> DEFINE h == Pos(n, t + c)
<1>0. c \in 0..n /\ c + 1 \in 0..n
  OBVIOUS
<1>1. h \in 0..(n - 1) /\ h = IF t + c < n THEN t + c ELSE t + c - n
  BY <1>0, Moved
<1>2. Pos(n, t + (c + 1)) = IF t + (c + 1) < n THEN t + (c + 1) ELSE t + (c + 1) - n
  BY <1>0, Moved
<1> HIDE DEF h
<1>3. Pos(n, h + 1) = IF h + 1 < n THEN h + 1 ELSE 0
  BY <1>1, NextSlot
<1>4. Pos(n, h + 1) = Pos(n, t + (c + 1))
  BY <1>1, <1>2, <1>3
<1>5. ASSUME NEW i \in 1..c PROVE Pos(n, t + (i - 1)) # h
  <2>1. i - 1 \in 0..n
    OBVIOUS
  <2>2. Pos(n, t + (i - 1)) = IF t + (i - 1) < n THEN t + (i - 1) ELSE t + (i - 1) - n
    BY <2>1, Moved
  <2> QED  BY <1>1, <2>2
<1> QED  BY <1>4, <1>5 DEF h

\* In a full ring it goes to the first slot shown.
LEMMA SlotsSlide ==
  ASSUME NEW n \in Nat \ {0}, NEW t \in 0..(n - 1)
  PROVE  /\ Pos(n, t + n) = t
         /\ Pos(n, Pos(n, t + 1) + (n - 1)) = t
         /\ \A i \in 1..(n - 1) : Pos(n, t + i) # t
<1> DEFINE u == Pos(n, t + 1)
<1>0. n \in 0..n /\ n - 1 \in 0..n
  OBVIOUS
<1>1. u \in 0..(n - 1) /\ u = IF t + 1 < n THEN t + 1 ELSE 0
  BY NextSlot
<1> HIDE DEF u
<1>2. Pos(n, u + (n - 1)) = IF u + (n - 1) < n THEN u + (n - 1) ELSE u + (n - 1) - n
  BY <1>0, <1>1, Moved
<1>3. Pos(n, t + n) = IF t + n < n THEN t + n ELSE t + n - n
  BY <1>0, Moved
<1>4. ASSUME NEW i \in 1..(n - 1) PROVE Pos(n, t + i) # t
  <2>1. i \in 0..n
    OBVIOUS
  <2>2. Pos(n, t + i) = IF t + i < n THEN t + i ELSE t + i - n
    BY <2>1, Moved
  <2> QED  BY <2>2
<1>5. Pos(n, t + n) = t /\ Pos(n, u + (n - 1)) = t
  BY <1>1, <1>2, <1>3
<1> QED  BY <1>4, <1>5 DEF u

\* The slots behind the first.
LEMMA SlotsDrop ==
  ASSUME NEW n \in Nat \ {0}, NEW t \in 0..(n - 1), NEW i \in 1..n
  PROVE  Pos(n, Pos(n, t + 1) + (i - 1)) = Pos(n, t + i)
<1> DEFINE u == Pos(n, t + 1)
<1>0. i \in 0..n /\ i - 1 \in 0..n
  OBVIOUS
<1>1. u \in 0..(n - 1) /\ u = IF t + 1 < n THEN t + 1 ELSE 0
  BY NextSlot
<1> HIDE DEF u
<1>2. Pos(n, u + (i - 1)) = IF u + (i - 1) < n THEN u + (i - 1) ELSE u + (i - 1) - n
  BY <1>0, <1>1, Moved
<1>3. Pos(n, t + i) = IF t + i < n THEN t + i ELSE t + i - n
  BY <1>0, Moved
<1>4. Pos(n, u + (i - 1)) = Pos(n, t + i)
  BY <1>1, <1>2, <1>3
<1> QED  BY <1>4 DEF u

\* Ring f is ring d with e in slot h.
Put(f, d, n, h, e) == f[h] = e /\ \A j \in 0..(n - 1) : j # h => f[j] = d[j]

\* A sample put into a slot leaves the other slots alone.
LEMMA PutInRing ==
  ASSUME NEW X, NEW n \in Nat \ {0}, NEW d \in Ring(n, X), NEW h \in 0..(n - 1), NEW e \in X
  PROVE  [d EXCEPT ![h] = e] \in Ring(n, X) /\ Put([d EXCEPT ![h] = e], d, n, h, e)
BY DEF Put, Ring

\* A sample pushed while there is room comes last.
LEMMA ViewGrows ==
  ASSUME NEW X, NEW n \in Nat \ {0}, NEW d \in Ring(n, X),
         NEW t \in 0..(n - 1), NEW c \in 0..(n - 1), NEW e \in X,
         NEW f \in Ring(n, X), Put(f, d, n, Pos(n, t + c), e)
  PROVE  View(f, n, t, c + 1) = Append(View(d, n, t, c), e)
<1> DEFINE h == Pos(n, t + c)
           b == c + 1
           old == View(d, n, t, c)
           new == View(f, n, t, b)
<1>0. c \in 0..n /\ b \in 0..n
  OBVIOUS
<1>1. h \in 0..(n - 1) /\ \A i \in 1..c : Pos(n, t + (i - 1)) # h
  BY <1>0, Moved, SlotsGrow
<1>2. f[h] = e /\ \A j \in 0..(n - 1) : j # h => f[j] = d[j]
  BY DEF Put
<1>3. old \in Seq(X) /\ Len(old) = c
  BY <1>0, ViewIsSeq, SMT
<1>4. ASSUME NEW i \in 1..c
      PROVE  Pos(n, t + (i - 1)) \in 0..(n - 1) /\ old[i] = d[Pos(n, t + (i - 1))]
  <2>1. t + (i - 1) \in 0..(2 * n - 1)
    OBVIOUS
  <2>2. Pos(n, t + (i - 1)) \in 0..(n - 1)
    BY <2>1, Around
  <2> QED  BY <2>2 DEF View
<1>a. b = c + 1 /\ t + (b - 1) = t + c /\ b \in 1..b
  OBVIOUS
<1>b. Pos(n, t + (b - 1)) = h
  BY <1>a
<1> HIDE DEF b, h
<1>5. new \in Seq(X) /\ Len(new) = b
  BY <1>0, <1>2, ViewIsSeq, SMT
<1>6. ASSUME NEW i \in 1..b PROVE new[i] = f[Pos(n, t + (i - 1))]
  <2>1. View(f, n, t, b)[i] = f[Pos(n, t + (i - 1))]
    BY DEF View
  <2> QED  BY <2>1
<1> HIDE DEF old, new
<1> DEFINE app == Append(old, e)
<1>7. app \in Seq(X) /\ Len(app) = b /\ app[b] = e /\ \A i \in 1..c : app[i] = old[i]
  BY <1>3, <1>a, AppendProperties
<1> HIDE DEF app
<1>8. ASSUME NEW i \in 1..b PROVE new[i] = app[i]
  <2>1. CASE i = b
    BY <1>2, <1>6, <1>7, <1>a, <1>b, <2>1
  <2>2. CASE i # b
    <3>1. i \in 1..c
      BY <1>a, <2>2
    <3>2. Pos(n, t + (i - 1)) \in 0..(n - 1) /\ Pos(n, t + (i - 1)) # h
      BY <1>1, <1>4, <3>1
    <3>3. new[i] = d[Pos(n, t + (i - 1))]
      BY <1>2, <1>6, <3>2
    <3> QED  BY <1>4, <1>7, <3>1, <3>3
  <2> QED  BY <2>1, <2>2
<1>9. new = app
  BY <1>5, <1>7, <1>8, SeqEqual
<1> QED  BY <1>9 DEF new, app, old, b

\* What is taken out of a ring was the first.
LEMMA ViewTakes ==
  ASSUME NEW X, NEW n \in Nat \ {0}, NEW d \in Ring(n, X),
         NEW t \in 0..(n - 1), NEW c \in 1..n
  PROVE  /\ View(d, n, t, c) # <<>> /\ d[t] = Head(View(d, n, t, c))
         /\ View(d, n, Pos(n, t + 1), c - 1) = Tail(View(d, n, t, c))
<1> DEFINE u == Pos(n, t + 1)
           b == c - 1
           old == View(d, n, t, c)
           new == View(d, n, u, b)
<1>0. c \in 0..n /\ b \in 0..n
  OBVIOUS
<1>1. u \in 0..(n - 1)
  BY NextSlot
<1>2. old \in Seq(X) /\ Len(old) = c
  BY <1>0, ViewIsSeq, SMT
<1>3. \A i \in 1..c : old[i] = d[Pos(n, t + (i - 1))]
  BY <1>0, ViewAt
<1>4. \A i \in 1..b : Pos(n, u + (i - 1)) = Pos(n, t + i)
  BY SlotsDrop
<1>a. b = c - 1
  OBVIOUS
<1> HIDE DEF u, b
<1>5. new \in Seq(X) /\ Len(new) = b
  BY <1>0, <1>1, ViewIsSeq, SMT
<1>6. \A i \in 1..b : new[i] = d[Pos(n, u + (i - 1))]
  BY <1>0, <1>1, ViewAt
<1>7. d[t] = old[1]
  <2>1. Pos(n, t) = t
    <3>1. t \in 0..(2 * n - 1)
      OBVIOUS
    <3> QED  BY <3>1, Around
  <2>2. 1 \in 1..c /\ t + (1 - 1) = t
    OBVIOUS
  <2> QED  BY <1>3, <2>1, <2>2
<1> HIDE DEF old, new
<1>8. old # <<>>
  BY <1>2, EmptySeq
<1>9. /\ Tail(old) \in Seq(X) /\ Len(Tail(old)) = b
      /\ \A i \in 1..b : Tail(old)[i] = old[i + 1]
  BY <1>2, <1>8, <1>a, HeadTailProperties
<1>10. ASSUME NEW i \in 1..b PROVE new[i] = Tail(old)[i]
  <2>1. i + 1 \in 1..c /\ (i + 1) - 1 = i
    BY <1>a
  <2>2. old[i + 1] = d[Pos(n, t + i)]
    BY <1>3, <2>1
  <2> QED  BY <1>4, <1>6, <1>9, <2>2
<1>11. new = Tail(old)
  BY <1>5, <1>9, <1>10, SeqEqual
<1>12. Head(old) = old[1]
  OBVIOUS
<1> QED  BY <1>7, <1>8, <1>11, <1>12 DEF old, new, u, b

\* A sample pushed into a full ring takes the place of the first.
LEMMA ViewSlides ==
  ASSUME NEW X, NEW n \in Nat \ {0}, NEW d \in Ring(n, X), NEW t \in 0..(n - 1), NEW e \in X,
         NEW f \in Ring(n, X), Put(f, d, n, t, e)
  PROVE  View(f, n, Pos(n, t + 1), n) = Append(Tail(View(d, n, t, n)), e)
<1> DEFINE u == Pos(n, t + 1)
           b == n - 1
           rest == View(d, n, u, b)
           same == View(f, n, u, b)
           more == View(f, n, u, b + 1)
<1>1. u \in 0..(n - 1) /\ b \in 0..(n - 1) /\ b \in 0..n /\ b + 1 = n /\ n \in 1..n
  BY NextSlot
<1>2. f[t] = e /\ \A j \in 0..(n - 1) : j # t => f[j] = d[j]
  BY DEF Put
<1>3. Pos(n, u + b) = t /\ \A i \in 1..b : Pos(n, t + i) # t
  BY SlotsSlide
<1>4. rest = Tail(View(d, n, t, n))
  BY <1>1, ViewTakes
<1>5. \A i \in 1..b : Pos(n, u + (i - 1)) = Pos(n, t + i)
  BY SlotsDrop
<1>6. Put(f, f, n, t, e)
  BY <1>2 DEF Put
<1> HIDE DEF b, u
<1>7. more = View(f, n, u, n)
  BY <1>1
<1>8. more = Append(same, e)
  <2>1. Put(f, f, n, Pos(n, u + b), e)
    BY <1>3, <1>6
  <2> QED  BY <1>1, <1>2, <2>1, ViewGrows
<1>9. same = rest
  <2>1. ASSUME NEW i \in 1..b PROVE f[Pos(n, u + (i - 1))] = d[Pos(n, u + (i - 1))]
    <3>1. Pos(n, u + (i - 1)) \in 0..(n - 1)
      BY <1>1, ViewAt
    <3> QED  BY <1>2, <1>3, <1>5, <3>1
  <2> QED  BY <2>1 DEF View
<1> QED  BY <1>4, <1>7, <1>8, <1>9 DEF u

\* No slots show nothing.
LEMMA ViewNothing == ASSUME NEW d, NEW n, NEW t PROVE View(d, n, t, 0) = <<>>
BY DEF View

\* The oldest slot of a ring without an index of it, h being the next one.
First(n, h, c) == Pos(n, h + n - c)

\* It is slot 0 until the ring is full, and from then on the next one.
LEMMA Oldest ==
  ASSUME NEW n \in Nat \ {0}, NEW h \in 0..(n - 1), NEW c \in 0..n, c < n => h = c
  PROVE  /\ First(n, h, c) \in 0..(n - 1) /\ h = Pos(n, First(n, h, c) + c)
         /\ \A i \in 0..(n - 1) : c > i => Pos(n, h + n - c + i) = Pos(n, First(n, h, c) + i)
         /\ c < n => /\ Pos(n, h + 1) = c + 1 \/ c + 1 = n
                     /\ First(n, Pos(n, h + 1), c + 1) = First(n, h, c)
         /\ c = n => First(n, Pos(n, h + 1), c) = Pos(n, First(n, h, c) + 1)
<1>1. ASSUME NEW j \in Int, j >= 0, j < 2 * n
      PROVE  Pos(n, j) \in 0..(n - 1) /\ Pos(n, j) = IF j < n THEN j ELSE j - n
  <2>1. j \in 0..(2 * n - 1)
    BY <1>1
  <2> QED  BY <2>1, Around
<1> DEFINE h1 == Pos(n, h + 1)
           t == First(n, h, c)
<1>0. t = Pos(n, h + n - c)
  BY DEF First
<1> HIDE DEF t
<1>2. t = IF c < n THEN 0 ELSE h
  <2> DEFINE j == h + n - c
  <2>1. j \in Int /\ j >= 0 /\ j < 2 * n /\ j = IF c < n THEN n ELSE h
    OBVIOUS
  <2> HIDE DEF j
  <2>2. Pos(n, j) = IF j < n THEN j ELSE j - n
    BY <1>1, <2>1
  <2>3. t = Pos(n, j)
    BY <1>0 DEF j
  <2> QED  BY <2>1, <2>2, <2>3
<1>3. h = Pos(n, t + c)
  <2> DEFINE j == t + c
  <2>1. j \in Int /\ j >= 0 /\ j < 2 * n /\ h = IF j < n THEN j ELSE j - n
    BY <1>2
  <2> HIDE DEF j
  <2>2. Pos(n, j) = IF j < n THEN j ELSE j - n
    BY <1>1, <2>1
  <2>3. Pos(n, j) = h
    BY <2>1, <2>2
  <2> QED  BY <2>3 DEF j
<1>4. ASSUME NEW i \in 0..(n - 1), c > i PROVE Pos(n, h + n - c + i) = Pos(n, t + i)
  <2> DEFINE j == h + n - c + i
             k == t + i
  <2>1. /\ j \in Int /\ j >= 0 /\ j < 2 * n /\ k \in Int /\ k >= 0 /\ k < 2 * n
        /\ c < n => j = k + n /\ k < n
        /\ c = n => j = k
    BY <1>2, <1>4
  <2> HIDE DEF j, k
  <2>2. Pos(n, j) = (IF j < n THEN j ELSE j - n) /\ Pos(n, k) = IF k < n THEN k ELSE k - n
    BY <1>1, <2>1
  <2>3. c < n \/ c = n
    OBVIOUS
  <2>4. Pos(n, j) = Pos(n, k)
    BY <2>1, <2>2, <2>3
  <2> QED  BY <2>4 DEF j, k
<1>5. h1 \in 0..(n - 1) /\ h1 = IF h + 1 < n THEN h + 1 ELSE h + 1 - n
  BY <1>1
<1> HIDE DEF h1
<1>6. ASSUME c < n PROVE (h1 = c + 1 \/ c + 1 = n) /\ Pos(n, h1 + n - (c + 1)) = t
  <2> DEFINE j == h1 + n - (c + 1)
  <2>1. /\ h1 = c + 1 \/ c + 1 = n
        /\ j \in Int /\ j >= 0 /\ j < 2 * n
        /\ j = n \/ j = 0
    BY <1>5, <1>6
  <2> HIDE DEF j
  <2>2. Pos(n, j) = IF j < n THEN j ELSE j - n
    BY <1>1, <2>1
  <2>3. Pos(n, j) = t
    BY <1>2, <1>6, <2>1, <2>2
  <2> QED  BY <2>1, <2>3 DEF j
<1>7. ASSUME c = n PROVE Pos(n, h1 + n - c) = Pos(n, t + 1)
  <2>1. h1 + n - c = h1 /\ Pos(n, h1) = h1
    BY <1>1, <1>5, <1>7
  <2> QED  BY <1>2, <1>7, <2>1 DEF h1
<1> QED  BY <1>2, <1>3, <1>4, <1>6, <1>7 DEF h1, t, First

\* A ring that is filled from slot 0 on.
OpenRing(X, n, d, h, c) ==
  /\ n \in Nat \ {0} /\ d \in Ring(n, X) /\ h \in 0..(n - 1) /\ c \in 0..n
  /\ c < n => h = c

More(n, c) == IF c < n THEN c + 1 ELSE c

\* A push moves the indexes so that what is shown appends, and slides when
\* the ring is full.
LEMMA OpenPush ==
  ASSUME NEW X, NEW n, NEW d, NEW h, NEW c, OpenRing(X, n, d, h, c),
         NEW e \in X, NEW f \in Ring(n, X), Put(f, d, n, h, e)
  PROVE  /\ OpenRing(X, n, f, Pos(n, h + 1), More(n, c))
         /\ Len(View(d, n, First(n, h, c), c)) = c
         /\ View(f, n, First(n, Pos(n, h + 1), More(n, c)), More(n, c))
              = IF c < n THEN Append(View(d, n, First(n, h, c), c), e)
                         ELSE Append(Tail(View(d, n, First(n, h, c), c)), e)
<1>0. n \in Nat \ {0} /\ d \in Ring(n, X) /\ h \in 0..(n - 1) /\ c \in 0..n /\ (c < n => h = c)
  BY DEF OpenRing
<1> DEFINE b == More(n, c)
<1>b. b = IF c < n THEN c + 1 ELSE c
  BY DEF More
<1> HIDE DEF b
<1> DEFINE t == First(n, h, c)
           k == Pos(n, h + 1)
<1>1. /\ t \in 0..(n - 1) /\ h = Pos(n, t + c)
      /\ c < n => /\ k = c + 1 \/ c + 1 = n
                  /\ First(n, k, c + 1) = t
      /\ c = n => First(n, k, c) = Pos(n, t + 1)
  BY <1>0, Oldest, Zenon
<1>2. k \in 0..(n - 1)
  BY <1>0, NextSlot
<1> HIDE DEF t, k
<1>3. Len(View(d, n, t, c)) = c
  BY <1>0, <1>1, ViewIsSeq, SMT
<1>4. ASSUME c < n
      PROVE  /\ b \in 0..n /\ (b < n => k = b)
             /\ View(f, n, First(n, k, b), b) = Append(View(d, n, t, c), e)
  <2>1. c \in 0..(n - 1) /\ b = c + 1 /\ b \in 0..n /\ (b < n => k = b) /\ First(n, k, b) = t
    BY <1>0, <1>1, <1>4, <1>b
  <2>2. View(f, n, t, c + 1) = Append(View(d, n, t, c), e)
    <3>1. Put(f, d, n, Pos(n, t + c), e)
      BY <1>1
    <3>2. n \in Nat \ {0} /\ d \in Ring(n, X) /\ t \in 0..(n - 1) /\ c \in 0..(n - 1)
      BY <1>0, <1>1, <2>1
    <3> QED  BY <3>1, <3>2, ViewGrows
  <2> QED  BY <2>1, <2>2
<1>5. ASSUME ~(c < n)
      PROVE  b \in 0..n /\ (b < n => k = b)
             /\ View(f, n, First(n, k, b), b) = Append(Tail(View(d, n, t, c)), e)
  <2>1. c = n /\ b = n /\ b \in 0..n /\ (b < n => k = b) /\ First(n, k, b) = Pos(n, t + 1)
    BY <1>0, <1>1, <1>5, <1>b
  <2>2. h = t
    BY <1>0, <1>1, <2>1, SlotsSlide
  <2>3. View(f, n, Pos(n, t + 1), n) = Append(Tail(View(d, n, t, n)), e)
    BY <1>0, <1>1, <2>2, ViewSlides
  <2> QED  BY <2>1, <2>3
<1>6. OpenRing(X, n, f, k, b)
  BY <1>0, <1>2, <1>4, <1>5, Zenon DEF OpenRing
<1>7. View(f, n, First(n, k, b), b)
        = IF c < n THEN Append(View(d, n, t, c), e) ELSE Append(Tail(View(d, n, t, c)), e)
  BY <1>4, <1>5
<1> QED  BY <1>3, <1>6, <1>7 DEF t, k, b

\* What the window shows: its positions are counted from a full turn back.
Turned(d, n, h, c) == [i \in 1..c |-> d[(h + n - c + (i - 1)) % n]]

\* Counted from a full turn back, the positions of a window are those of a ring
\* seen from its oldest sample.
LEMMA WindowShows ==
  ASSUME NEW X, NEW n, NEW d, NEW h, NEW c, OpenRing(X, n, d, h, c)
  PROVE  Turned(d, n, h, c) = View(d, n, First(n, h, c), c)
<1> DEFINE t == First(n, h, c)
<1>0. n \in Nat \ {0} /\ h \in 0..(n - 1) /\ c \in 0..n /\ (c < n => h = c)
  BY DEF OpenRing
<1>1. \A i \in 0..(n - 1) : c > i => Pos(n, h + n - c + i) = Pos(n, t + i)
  BY <1>0, Oldest, Zenon
<1> HIDE DEF t
<1>2. ASSUME NEW i \in 1..c PROVE Pos(n, h + n - c + (i - 1)) = Pos(n, t + (i - 1))
  <2> DEFINE j == i - 1
  <2>1. j \in 0..(n - 1) /\ c > j
    BY <1>0
  <2> HIDE DEF j
  <2>2. Pos(n, h + n - c + j) = Pos(n, t + j)
    BY <1>1, <2>1
  <2> QED  BY <2>2 DEF j
<1>3. [i \in 1..c |-> d[Pos(n, h + n - c + (i - 1))]] = View(d, n, t, c)
  BY <1>2 DEF View
<1> QED  BY <1>3 DEF t, Pos, Turned

\* An empty window.
LEMMA EmptyRing ==
  ASSUME NEW X, NEW n \in Nat \ {0}, NEW x \in X
  PROVE  OpenRing(X, n, [i \in 0..(n - 1) |-> x], 0, 0)
BY DEF OpenRing, Ring

-----------------------------------------------------------------------------
(* Sequences of two.                                                       *)

\* Of one element and one more.
LEMMA OneMore ==
  ASSUME NEW X, NEW r \in Seq(X), NEW e \in X
  PROVE  Len(r) = 1 => /\ Append(r, e) \in Seq(X) /\ Len(Append(r, e)) = 2
                       /\ Append(r, e)[1] = r[1] /\ Append(r, e)[2] = e
<1> DEFINE t == Append(r, e)
           n == Len(r)
           m == Len(t)
<1>1. /\ t \in Seq(X) /\ m = n + 1 /\ t[n + 1] = e
      /\ \A i \in 1..n : t[i] = r[i]
  BY AppendFacts
<1> HIDE DEF t, n, m
<1>2. n = 1 => t \in Seq(X) /\ m = 2 /\ t[1] = r[1] /\ t[2] = e
  BY <1>1
<1> QED  BY <1>2, Zenon DEF t, n, m

\* Of two elements without the first.
LEMMA SecondLeft ==
  ASSUME NEW X, NEW s \in Seq(X)
  PROVE  Len(s) = 2 => Tail(s) \in Seq(X) /\ Len(Tail(s)) = 1 /\ Tail(s)[1] = s[2]
<1> DEFINE n == Len(s)
           r == Tail(s)
           m == Len(r)
<1>1. n \in Nat /\ (s = <<>> <=> n = 0)
  BY SeqFacts
<1>2. s # <<>> => /\ r \in Seq(X) /\ m = n - 1
                  /\ \A i \in 1..m : r[i] = s[i + 1]
  BY HeadTailProperties
<1> HIDE DEF n, r, m
<1>3. n = 2 => r \in Seq(X) /\ m = 1 /\ r[1] = s[2]
  BY <1>1, <1>2
<1> QED  BY <1>3, Zenon DEF n, r, m

\* The last two of a sequence of at most two and one more.
LEMMA LastTwo ==
  ASSUME NEW X, NEW s \in Seq(X), NEW e \in X, NEW t,
         t = Append(IF Len(s) = 2 THEN Tail(s) ELSE s, e)
  PROVE  /\ Len(s) = 0 => t \in Seq(X) /\ Len(t) = 1 /\ t[1] = e
         /\ Len(s) = 1 => t \in Seq(X) /\ Len(t) = 2 /\ t[1] = s[1] /\ t[2] = e
         /\ Len(s) = 2 => t \in Seq(X) /\ Len(t) = 2 /\ t[1] = s[2] /\ t[2] = e
<1> DEFINE n == Len(s)
<1>1. n = 2 => t = Append(Tail(s), e)
  OBVIOUS
<1>2. n # 2 => t = Append(s, e)
  OBVIOUS
<1>3. n = 2 => t \in Seq(X) /\ Len(t) = 2 /\ t[1] = s[2] /\ t[2] = e
  <2> DEFINE r == Tail(s)
             new == Append(r, e)
  <2>1. n = 2 => r \in Seq(X) /\ Len(r) = 1 /\ r[1] = s[2]
    BY SecondLeft
  <2> HIDE DEF r
  <2>2. r \in Seq(X) /\ Len(r) = 1 => new \in Seq(X) /\ Len(new) = 2 /\ new[1] = r[1] /\ new[2] = e
    BY OneMore
  <2> HIDE DEF n, new
  <2>3. n = 2 => t = new
    BY <1>1 DEF new, r
  <2> QED  BY <2>1, <2>2, <2>3
<1>4. n = 1 => t \in Seq(X) /\ Len(t) = 2 /\ t[1] = s[1] /\ t[2] = e
  <2> DEFINE new == Append(s, e)
  <2>1. n = 1 => new \in Seq(X) /\ Len(new) = 2 /\ new[1] = s[1] /\ new[2] = e
    BY OneMore
  <2> HIDE DEF n
  <2>2. n = 1 => t = new
    BY <1>2
  <2> QED  BY <2>1, <2>2, Zenon
<1>5. n = 0 => t \in Seq(X) /\ Len(t) = 1 /\ t[1] = e
  <2> DEFINE new == Append(s, e)
             m == Len(new)
  <2>1. new \in Seq(X) /\ m = n + 1 /\ new[n + 1] = e
    BY AppendFacts
  <2> HIDE DEF n, m
  <2>2. n = 0 => t = new
    BY <1>2
  <2> HIDE DEF new
  <2>3. n = 0 => new \in Seq(X) /\ m = 1 /\ new[1] = e
    BY <2>1
  <2> QED  BY <2>2, <2>3, Zenon DEF m
<1> QED  BY <1>3, <1>4, <1>5, Zenon

-----------------------------------------------------------------------------
(* Looking up.                                                             *)

\* A set of positions that is not empty has a first one.
LEMMA HasFirst ==
  ASSUME NEW I, I \subseteq Nat, I # {}
  PROVE  \E x \in I : \A y \in I : x <= y
<1> DEFINE Less == OpToRel(<, Nat)
<1>1. \A x, y \in Nat : x < y => <<x, y>> \in Less
  BY DEF OpToRel
<1>2. IsWellFoundedOn(Less, Nat)
  BY NatLessThanWellFounded
<1> HIDE DEF Less
<1>3. PICK x \in I : \A y \in I : ~(<<y, x>> \in Less)
  BY <1>2, WFMin
<1>4. \A y \in I : ~(y < x)
  BY <1>1, <1>3
<1>5. \A y \in I : x <= y
  BY <1>4
<1> QED  BY <1>5

\* What a search returns: the first position that will do, or 0.
FoundFirst(at, I) ==
  IF I = {} THEN at = 0 ELSE at \in I /\ \A j \in I : at <= j

\* The least of some positions, or 0, is what a search returns.
LEMMA LeastIsFirst ==
  ASSUME NEW I, I \subseteq Nat
  PROVE  FoundFirst(IF I # {} THEN CHOOSE x \in I : \A y \in I : x <= y ELSE 0, I)
<1>1. CASE I = {}
  BY <1>1 DEF FoundFirst
<1>2. CASE I # {}
  <2>1. \E x \in I : \A y \in I : x <= y
    BY <1>2, HasFirst
  <2> QED  BY <1>2, <2>1, Zenon DEF FoundFirst
<1> QED  BY <1>1, <1>2

\* An element is replaced, and the others stay.
LEMMA ExceptFacts ==
  ASSUME NEW X, NEW s \in Seq(X), NEW k \in 1..Len(s), NEW e \in X
  PROVE  /\ [s EXCEPT ![k] = e] \in Seq(X)
         /\ Len([s EXCEPT ![k] = e]) = Len(s)
         /\ [s EXCEPT ![k] = e][k] = e
         /\ \A i \in 1..Len(s) : i # k => [s EXCEPT ![k] = e][i] = s[i]
BY ExceptSeq

\* A function on the first n numbers is a sequence of that length.
LEMMA FunctionIsSeq ==
  ASSUME NEW X, NEW n \in Nat, NEW t \in [1..n -> X]
  PROVE  t \in Seq(X) /\ Len(t) = n
<1>1. t \in Seq(X)
  BY SeqDef
<1> DEFINE m == Len(t)
<1>2. m \in Nat /\ 1..m = 1..n
  BY <1>1, LenProperties
<1> HIDE DEF m
<1>3. m = n
  <2>1. ~(m < n)
    <3>1. m < n => n \in 1..n /\ ~(n \in 1..m)
      BY <1>2
    <3> QED  BY <1>2, <3>1
  <2>2. ~(n < m)
    <3>1. n < m => m \in 1..m /\ ~(m \in 1..n)
      BY <1>2
    <3> QED  BY <1>2, <3>1
  <2> QED  BY <1>2, <2>1, <2>2
<1> QED  BY <1>1, <1>3 DEF m

\* An entry balances what was recorded under its name.
Balanced(e, balances, tops) ==
  /\ e.total_allocated - e.total_freed = balances[e.name]
  /\ e.peak_balance = tops[e.name]

\* What an open ring shows is what its first slots hold.
LEMMA ShownIsHeld ==
  ASSUME NEW X, NEW n, NEW d, NEW h, NEW c, OpenRing(X, n, d, h, c)
  PROVE  \A x : (\E i \in 1..c : View(d, n, First(n, h, c), c)[i] = x)
                  <=> (\E j \in 0..(c - 1) : d[j] = x)
<1>0. n \in Nat \ {0} /\ h \in 0..(n - 1) /\ c \in 0..n /\ (c < n => h = c)
  BY DEF OpenRing
<1> DEFINE t == First(n, h, c)
<1>1. t \in 0..(n - 1) /\ h = Pos(n, t + c)
  BY <1>0, Oldest, Zenon
<1>2. t = IF c < n THEN 0 ELSE h
  <2> DEFINE m == h + n - c
  <2>1. m \in 0..(2 * n - 1) /\ m = IF c < n THEN n ELSE h
    BY <1>0
  <2> HIDE DEF m
  <2>2. Pos(n, m) = IF m < n THEN m ELSE m - n
    BY <1>0, <2>1, Around
  <2>3. t = Pos(n, m)
    BY DEF First, m
  <2> HIDE DEF t
  <2> QED  BY <1>0, <2>1, <2>2, <2>3
<1> HIDE DEF t
<1>3. ASSUME NEW i \in 1..c
      PROVE  /\ View(d, n, t, c)[i] = d[Pos(n, t + (i - 1))]
             /\ Pos(n, t + (i - 1)) = IF t + (i - 1) < n THEN t + (i - 1) ELSE t + (i - 1) - n
  <2>1. i - 1 \in 0..n
    BY <1>0
  <2> QED  BY <1>0, <1>1, <2>1, Moved DEF View
<1>4. ASSUME NEW i \in 1..c
      PROVE  Pos(n, t + (i - 1)) \in 0..(c - 1)
  BY <1>0, <1>1, <1>2, <1>3
<1>5. ASSUME NEW j \in 0..(c - 1)
      PROVE  \E i \in 1..c : Pos(n, t + (i - 1)) = j
  <2> DEFINE i == IF j < t THEN j - t + n + 1 ELSE j - t + 1
  <2>1. i \in 1..c /\ j = IF t + (i - 1) < n THEN t + (i - 1) ELSE t + (i - 1) - n
    BY <1>0, <1>1, <1>2
  <2> HIDE DEF i
  <2> QED  BY <1>3, <2>1
<1> QED  BY <1>3, <1>4, <1>5 DEF t

\* A sequence that is full of what it may hold moves on by one.
LEMMA TailOfMore ==
  ASSUME NEW X, NEW s \in Seq(X), s # <<>>, NEW e \in X
  PROVE  Tail(Append(s, e)) = Append(Tail(s), e)
<1> DEFINE n == Len(s)
           a == Append(s, e)
           u == Tail(s)
           v == Tail(a)
           w == Append(u, e)
<1>1. n \in Nat /\ (s = <<>> <=> n = 0)
  BY SeqFacts
<1>2. /\ a \in Seq(X) /\ Len(a) = n + 1 /\ a # <<>> /\ a[n + 1] = e
      /\ \A i \in 1..n : a[i] = s[i]
  BY AppendFacts
<1>3. u \in Seq(X) /\ Len(u) = n - 1 /\ \A i \in 1..Len(u) : u[i] = s[i + 1]
  BY HeadTailProperties
<1> HIDE DEF n, a, u
<1>4. v \in Seq(X) /\ Len(v) = Len(a) - 1 /\ \A i \in 1..Len(v) : v[i] = a[i + 1]
  BY <1>2, HeadTailProperties
<1>5. /\ w \in Seq(X) /\ Len(w) = Len(u) + 1 /\ w[Len(u) + 1] = e
      /\ \A i \in 1..Len(u) : w[i] = u[i]
  BY <1>3, AppendFacts
<1> HIDE DEF v, w
<1>6. Len(v) = n /\ Len(w) = n /\ n > 0
  BY <1>1, <1>2, <1>3, <1>4, <1>5
<1>7. ASSUME NEW i \in 1..n PROVE v[i] = w[i]
  <2>1. CASE i = n
    <3>1. v[i] = e
      BY <1>2, <1>4, <1>6, <2>1
    <3>2. Len(u) + 1 = n
      BY <1>1, <1>3
    <3> QED  BY <1>5, <2>1, <3>1, <3>2
  <2>2. CASE i # n
    <3>1. i \in 1..(n - 1) /\ i + 1 \in 1..n
      BY <1>1, <2>2
    <3>2. v[i] = s[i + 1]
      BY <1>2, <1>4, <1>6, <3>1
    <3>3. w[i] = s[i + 1]
      BY <1>3, <1>5, <3>1
    <3> QED  BY <3>2, <3>3
  <2> QED  BY <2>1, <2>2
<1>8. v = w
  BY <1>4, <1>5, <1>6, <1>7, SeqEqual
<1> QED  BY <1>8 DEF v, w, a, u

\* What the band is: twice the least and the greatest of some slots.
Band(d, c, hi, lo) ==
  \E i, j \in 0..(c - 1) :
    /\ hi = 2 * d[i] /\ lo = 2 * d[j]
    /\ \A k \in 0..(c - 1) : d[j] <= d[k] /\ d[k] <= d[i]

Stamped == [rss_kb : {0, 2}, timestamp_ms : Int]

\* The calls that set a flag, and what the last of them set it to.
Setting(cs, flag) == {i \in 1..Len(cs) : flag \in DOMAIN cs[i] /\ cs[i][flag] # -1}

LastSet(cs, flag, v) ==
  \E i \in Setting(cs, flag) : cs[i][flag] = v /\ \A j \in Setting(cs, flag) : j <= i

-----------------------------------------------------------------------------
(* Keyed rows, and the function that looks values up in them.              *)

\* The pairs of keys and values in n rows, and no key in two of them.
Pairs(n, ks, vs) == {<<ks[i], vs[i]>> : i \in 1..n}

OneEach(n, ks)   == \A i, j \in 1..n : ks[i] = ks[j] => i = j

\* A function from the keys of some pairs to the values.
Tells(T, b) == /\ b = [k \in {p[1] : p \in T} |-> b[k]]
               /\ \A p \in T : b[p[1]] = p[2]

Rest(T, k) == {p \in T : p[1] # k}

\* There is one such function.
LEMMA TellsOne ==
  ASSUME NEW T, NEW b, NEW c, Tells(T, b), Tells(T, c)
  PROVE  b = c
<1> DEFINE D == {p[1] : p \in T}
<1>1. b = [k \in D |-> b[k]] /\ c = [k \in D |-> c[k]]
  BY Zenon DEF Tells
<1>2. \A k \in D : b[k] = c[k]
  <2> TAKE k \in D
  <2>1. PICK p \in T : k = p[1]
    OBVIOUS
  <2>2. b[p[1]] = p[2] /\ c[p[1]] = p[2]
    BY Zenon DEF Tells
  <2> QED  BY <2>1, <2>2, Zenon
<1>3. [k \in D |-> b[k]] = [k \in D |-> c[k]]
  BY <1>2
<1> QED  BY <1>1, <1>3, Zenon

\* Its domain is the keys.
LEMMA TellsDomain ==
  ASSUME NEW T, NEW b, Tells(T, b)
  PROVE  DOMAIN b = {p[1] : p \in T}
<1> DEFINE D == {p[1] : p \in T}
<1>1. b = [k \in D |-> b[k]]
  BY Zenon DEF Tells
<1> HIDE DEF D
<1>2. DOMAIN [k \in D |-> b[k]] = D
  OBVIOUS
<1> QED  BY <1>1, <1>2, Zenon DEF D

\* A value is put under a key.
LEMMA TellsPut ==
  ASSUME NEW T, NEW b, Tells(T, b), NEW k, NEW v
  PROVE  Tells(Rest(T, k) \cup {<<k, v>>},
               [j \in DOMAIN b \cup {k} |-> IF j = k THEN v ELSE b[j]])
<1> DEFINE D == {p[1] : p \in T}
           U == Rest(T, k) \cup {<<k, v>>}
           E == {p[1] : p \in U}
           c == [j \in D \cup {k} |-> IF j = k THEN v ELSE b[j]]
<1>1. DOMAIN b = D
  BY TellsDomain, Zenon
<1>2. \A p : p \in U <=> (p \in T /\ p[1] # k) \/ p = <<k, v>>
  BY DEF Rest
<1>3. <<k, v>>[1] = k /\ <<k, v>>[2] = v
  OBVIOUS
<1>4. E = D \cup {k}
  <2> HIDE DEF U
  <2>1. ASSUME NEW j \in E PROVE j \in D \cup {k}
    <3>1. PICK p \in U : j = p[1]
      OBVIOUS
    <3> QED  BY <1>2, <1>3, <3>1
  <2>2. ASSUME NEW j \in D, j # k PROVE j \in E
    <3>1. PICK p \in T : j = p[1]
      OBVIOUS
    <3>2. p \in U
      BY <1>2, <2>2, <3>1
    <3> QED  BY <3>1, <3>2
  <2>3. k \in E
    <3>1. <<k, v>> \in U
      BY <1>2
    <3> QED  BY <1>3, <3>1
  <2> QED  BY <2>1, <2>2, <2>3
<1>5. \A p \in U : c[p[1]] = p[2]
  <2> SUFFICES ASSUME NEW p \in U PROVE c[p[1]] = p[2]
    OBVIOUS
  <2>1. CASE p = <<k, v>>
    BY <1>3, <2>1
  <2>2. CASE p \in T /\ p[1] # k
    <3>1. b[p[1]] = p[2]
      BY <2>2, Zenon DEF Tells
    <3>2. p[1] \in D
      BY <2>2
    <3> HIDE DEF D
    <3> QED  BY <2>2, <3>1, <3>2
  <2> QED  BY <1>2, <2>1, <2>2
<1> HIDE DEF D, U
<1>6. c = [j \in D \cup {k} |-> c[j]]
  OBVIOUS
<1>7. c = [j \in E |-> c[j]]
  BY <1>4, <1>6, Zenon
<1> HIDE DEF c
<1>8. Tells(U, c)
  BY <1>5, <1>7, Zenon DEF Tells
<1> QED  BY <1>1, <1>8, Zenon DEF U, c

\* What was under a key is taken away.
LEMMA TellsDrop ==
  ASSUME NEW T, NEW b, Tells(T, b), NEW k
  PROVE  Tells(Rest(T, k), [j \in DOMAIN b \ {k} |-> b[j]])
<1> DEFINE D == {p[1] : p \in T}
           U == Rest(T, k)
           E == {p[1] : p \in U}
           c == [j \in D \ {k} |-> b[j]]
<1>1. DOMAIN b = D
  BY TellsDomain, Zenon
<1>2. \A p : p \in U <=> p \in T /\ p[1] # k
  BY DEF Rest
<1>3. E = D \ {k}
  <2> HIDE DEF U
  <2>1. ASSUME NEW j \in E PROVE j \in D \ {k}
    <3>1. PICK p \in U : j = p[1]
      OBVIOUS
    <3> QED  BY <1>2, <3>1
  <2>2. ASSUME NEW j \in D, j # k PROVE j \in E
    <3>1. PICK p \in T : j = p[1]
      OBVIOUS
    <3>2. p \in U
      BY <1>2, <2>2, <3>1
    <3> QED  BY <3>1, <3>2
  <2> QED  BY <2>1, <2>2
<1>4. \A p \in U : c[p[1]] = p[2]
  <2> SUFFICES ASSUME NEW p \in U PROVE c[p[1]] = p[2]
    OBVIOUS
  <2>1. p \in T /\ p[1] # k /\ b[p[1]] = p[2]
    BY <1>2, Zenon DEF Tells
  <2>2. p[1] \in D
    BY <2>1
  <2> HIDE DEF D
  <2> QED  BY <2>1, <2>2
<1> HIDE DEF D, U
<1>5. c = [j \in D \ {k} |-> c[j]]
  OBVIOUS
<1>6. c = [j \in E |-> c[j]]
  BY <1>3, <1>5, Zenon
<1> HIDE DEF c
<1>7. Tells(U, c)
  BY <1>4, <1>6, Zenon DEF Tells
<1> QED  BY <1>1, <1>7, Zenon DEF U, c

\* The keys of a pair in a row.
LEMMA PairFacts ==
  ASSUME NEW n, NEW ks, NEW vs
  PROVE  /\ \A p : p \in Pairs(n, ks, vs) <=> \E i \in 1..n : p = <<ks[i], vs[i]>>
         /\ \A i \in 1..n : <<ks[i], vs[i]>>[1] = ks[i] /\ <<ks[i], vs[i]>>[2] = vs[i]
BY DEF Pairs

\* A value is changed in its row.
LEMMA PairsChange ==
  ASSUME NEW n, NEW ks, NEW vs, NEW us, NEW at \in 1..n, OneEach(n, ks),
         \A i \in 1..n : i # at => us[i] = vs[i]
  PROVE  Pairs(n, ks, us) = Rest(Pairs(n, ks, vs), ks[at]) \cup {<<ks[at], us[at]>>}
<1>1. \A p : p \in Pairs(n, ks, us) <=> \E i \in 1..n : p = <<ks[i], us[i]>>
  BY PairFacts
<1>2. \A p : p \in Pairs(n, ks, vs) <=> \E i \in 1..n : p = <<ks[i], vs[i]>>
  BY PairFacts
<1>3. \A p : p \in Rest(Pairs(n, ks, vs), ks[at])
               <=> \E i \in 1..n : p = <<ks[i], vs[i]>> /\ ks[i] # ks[at]
  <2>1. \A p : p \in Rest(Pairs(n, ks, vs), ks[at]) <=> p \in Pairs(n, ks, vs) /\ p[1] # ks[at]
    BY DEF Rest
  <2> QED  BY <1>2, <2>1
<1>4. \A i \in 1..n : ks[i] # ks[at] <=> i # at
  BY Zenon DEF OneEach
<1>5. ASSUME NEW p \in Pairs(n, ks, us)
      PROVE  p \in Rest(Pairs(n, ks, vs), ks[at]) \cup {<<ks[at], us[at]>>}
  <2>1. PICK i \in 1..n : p = <<ks[i], us[i]>>
    BY <1>1, Zenon
  <2>2. CASE i = at
    BY <2>1, <2>2
  <2>3. CASE i # at
    <3>1. us[i] = vs[i] /\ ks[i] # ks[at]
      BY <1>4, <2>3
    <3>2. p \in Rest(Pairs(n, ks, vs), ks[at])
      BY <1>3, <2>1, <3>1, Zenon
    <3> QED  BY <3>2
  <2> QED  BY <2>2, <2>3
<1>6. ASSUME NEW p \in Rest(Pairs(n, ks, vs), ks[at]) PROVE p \in Pairs(n, ks, us)
  <2>1. PICK i \in 1..n : p = <<ks[i], vs[i]>> /\ ks[i] # ks[at]
    BY <1>3, Zenon
  <2>2. us[i] = vs[i]
    BY <2>1
  <2> QED  BY <1>1, <2>1, <2>2, Zenon
<1>7. <<ks[at], us[at]>> \in Pairs(n, ks, us)
  BY <1>1, Zenon
<1> QED  BY <1>5, <1>6, <1>7

\* Rows that are kept before one with a new key.
Adds(n, ks, vs, js, us) ==
  \A i \in 1..n : js[i] = ks[i] /\ us[i] = vs[i] /\ ks[i] # js[n + 1]

\* A row with a new key is added.
LEMMA PairsAdd ==
  ASSUME NEW n \in Nat, NEW ks, NEW vs, NEW js, NEW us, OneEach(n, ks),
         Adds(n, ks, vs, js, us)
  PROVE  /\ OneEach(n + 1, js)
         /\ Pairs(n + 1, js, us)
              = Rest(Pairs(n, ks, vs), js[n + 1]) \cup {<<js[n + 1], us[n + 1]>>}
<1> DEFINE m == n + 1
<1>0. \A i \in 1..n : js[i] = ks[i] /\ us[i] = vs[i] /\ ks[i] # js[m]
  BY Zenon DEF Adds
<1>1. \A i : i \in 1..m <=> i \in 1..n \/ i = m
  OBVIOUS
<1> HIDE DEF m
<1>2. OneEach(m, js)
  <2> SUFFICES ASSUME NEW i \in 1..m, NEW j \in 1..m, js[i] = js[j] PROVE i = j
    BY Zenon DEF OneEach
  <2>1. CASE i \in 1..n /\ j \in 1..n
    <3>1. ks[i] = ks[j]
      BY <1>0, <2>1, Zenon
    <3> QED  BY <2>1, <3>1, Zenon DEF OneEach
  <2>2. CASE i = m /\ j \in 1..n
    BY <1>0, <2>2, Zenon
  <2>3. CASE i \in 1..n /\ j = m
    BY <1>0, <2>3, Zenon
  <2> QED  BY <1>1, <2>1, <2>2, <2>3, Zenon
<1>3. \A p : p \in Pairs(m, js, us) <=> \E i \in 1..m : p = <<js[i], us[i]>>
  BY PairFacts
<1>4. \A p : p \in Pairs(n, ks, vs) <=> \E i \in 1..n : p = <<ks[i], vs[i]>>
  BY PairFacts
<1>5. \A p \in Pairs(n, ks, vs) : p[1] # js[m]
  <2> SUFFICES ASSUME NEW p \in Pairs(n, ks, vs) PROVE p[1] # js[m]
    OBVIOUS
  <2>1. PICK i \in 1..n : p = <<ks[i], vs[i]>>
    BY <1>4, Zenon
  <2>2. p[1] = ks[i]
    BY <2>1
  <2>3. ks[i] # js[m]
    BY <1>0, Zenon
  <2> QED  BY <2>2, <2>3
<1>6. Rest(Pairs(n, ks, vs), js[m]) = Pairs(n, ks, vs)
  BY <1>5, Zenon DEF Rest
<1>7. ASSUME NEW p \in Pairs(m, js, us) PROVE p \in Pairs(n, ks, vs) \cup {<<js[m], us[m]>>}
  <2>1. PICK i \in 1..m : p = <<js[i], us[i]>>
    BY <1>3, Zenon
  <2>2. CASE i = m
    BY <2>1, <2>2
  <2>3. CASE i \in 1..n
    <3>1. p = <<ks[i], vs[i]>>
      BY <1>0, <2>1, <2>3, Zenon
    <3>2. p \in Pairs(n, ks, vs)
      BY <1>4, <2>3, <3>1, Zenon
    <3> QED  BY <3>2
  <2> QED  BY <1>1, <2>2, <2>3, Zenon
<1>8. ASSUME NEW p \in Pairs(n, ks, vs) PROVE p \in Pairs(m, js, us)
  <2>1. PICK i \in 1..n : p = <<ks[i], vs[i]>>
    BY <1>4, Zenon
  <2>2. i \in 1..m /\ p = <<js[i], us[i]>>
    BY <1>0, <1>1, <2>1, Zenon
  <2> QED  BY <1>3, <2>2, Zenon
<1>9. <<js[m], us[m]>> \in Pairs(m, js, us)
  <2>1. m \in 1..m
    BY <1>1, Zenon
  <2> QED  BY <1>3, <2>1, Zenon
<1>10. Pairs(m, js, us) = Pairs(n, ks, vs) \cup {<<js[m], us[m]>>}
  BY <1>7, <1>8, <1>9
<1> QED  BY <1>2, <1>6, <1>10, Zenon DEF m

\* Rows are moved, and some dropped: m of them stay, the ones at J, and f gives
\* their places before.
Moves(f, m, J, ks, vs, js, us) ==
  /\ \A i \in 1..m : f[i] \in J /\ js[i] = ks[f[i]] /\ us[i] = vs[f[i]]
  /\ \A i, j \in 1..m : f[i] = f[j] => i = j
  /\ \A j \in J : \E i \in 1..m : f[i] = j

Shows(m, js, us, J, ks, vs) ==
  \A p : p \in Pairs(m, js, us) <=> \E j \in J : p = <<ks[j], vs[j]>>

\* The rows that stay are there after the move.
LEMMA PairsMove ==
  ASSUME NEW n, NEW m, NEW ks, NEW vs, NEW js, NEW us, NEW f, OneEach(n, ks),
         NEW J \in SUBSET (1..n), Moves(f, m, J, ks, vs, js, us)
  PROVE  OneEach(m, js) /\ Shows(m, js, us, J, ks, vs)
<1>0. /\ \A i \in 1..m : f[i] \in J /\ js[i] = ks[f[i]] /\ us[i] = vs[f[i]]
      /\ \A i, j \in 1..m : f[i] = f[j] => i = j
      /\ \A j \in J : \E i \in 1..m : f[i] = j
  BY Zenon DEF Moves
<1>1. OneEach(m, js)
  <2> SUFFICES ASSUME NEW i \in 1..m, NEW j \in 1..m, js[i] = js[j] PROVE i = j
    BY Zenon DEF OneEach
  <2>1. ks[f[i]] = ks[f[j]] /\ f[i] \in 1..n /\ f[j] \in 1..n
    BY <1>0
  <2>2. f[i] = f[j]
    BY <2>1, Zenon DEF OneEach
  <2> QED  BY <1>0, <2>2, Zenon
<1>2. \A p : p \in Pairs(m, js, us) <=> \E i \in 1..m : p = <<js[i], us[i]>>
  BY PairFacts
<1>3. \A i \in 1..m : f[i] \in J /\ <<js[i], us[i]>> = <<ks[f[i]], vs[f[i]]>>
  BY <1>0, Zenon
<1>4. ASSUME NEW p \in Pairs(m, js, us) PROVE \E j \in J : p = <<ks[j], vs[j]>>
  <2>1. PICK i \in 1..m : p = <<js[i], us[i]>>
    BY <1>2, Zenon
  <2>2. f[i] \in J /\ p = <<ks[f[i]], vs[f[i]]>>
    BY <1>3, <2>1, Zenon
  <2> QED  BY <2>2, Zenon
<1>5. ASSUME NEW j \in J PROVE <<ks[j], vs[j]>> \in Pairs(m, js, us)
  <2>1. PICK i \in 1..m : f[i] = j
    BY <1>0, Zenon
  <2>2. <<ks[j], vs[j]>> = <<js[i], us[i]>>
    BY <1>3, <2>1, Zenon
  <2> QED  BY <1>2, <2>2, Zenon
<1> QED  BY <1>1, <1>4, <1>5, Zenon DEF Shows

\* All rows but one.
AllBut(J, n, at) == J = 1..n \ {at}

\* All rows but one stay.
LEMMA PairsDrop ==
  ASSUME NEW n, NEW m, NEW ks, NEW vs, NEW js, NEW us, NEW f, OneEach(n, ks),
         NEW at \in 1..n, NEW J, AllBut(J, n, at), Moves(f, m, J, ks, vs, js, us)
  PROVE  OneEach(m, js) /\ Pairs(m, js, us) = Rest(Pairs(n, ks, vs), ks[at])
<1>1. J \in SUBSET (1..n) /\ \A i : i \in J <=> i \in 1..n /\ i # at
  BY DEF AllBut
<1>2. Moves(f, m, J, ks, vs, js, us)
  OBVIOUS
<1>0. OneEach(m, js) /\ Shows(m, js, us, J, ks, vs)
  BY <1>1, <1>2, PairsMove
<1>3. /\ OneEach(m, js)
      /\ \A p : p \in Pairs(m, js, us) <=> \E j \in J : p = <<ks[j], vs[j]>>
  BY <1>0, Zenon DEF Shows
<1>4. \A p : p \in Pairs(n, ks, vs) <=> \E i \in 1..n : p = <<ks[i], vs[i]>>
  BY PairFacts
<1>5. \A i \in 1..n : ks[i] # ks[at] <=> i \in J
  BY <1>1, Zenon DEF OneEach
<1>6. \A p : p \in Rest(Pairs(n, ks, vs), ks[at]) <=> p \in Pairs(n, ks, vs) /\ p[1] # ks[at]
  BY DEF Rest
<1>7. ASSUME NEW p \in Pairs(m, js, us) PROVE p \in Rest(Pairs(n, ks, vs), ks[at])
  <2>1. PICK j \in J : p = <<ks[j], vs[j]>>
    BY <1>3, Zenon
  <2>2. j \in 1..n /\ p[1] = ks[j]
    BY <1>1, <2>1
  <2>3. ks[j] # ks[at]
    BY <1>5, <2>2, Zenon
  <2> QED  BY <1>4, <1>6, <2>1, <2>2, <2>3, Zenon
<1>8. ASSUME NEW p \in Rest(Pairs(n, ks, vs), ks[at]) PROVE p \in Pairs(m, js, us)
  <2>1. p \in Pairs(n, ks, vs) /\ p[1] # ks[at]
    BY <1>6, Zenon
  <2>2. PICK j \in 1..n : p = <<ks[j], vs[j]>>
    BY <1>4, <2>1, Zenon
  <2>3. j \in J
    <3>1. p[1] = ks[j]
      BY <2>2
    <3> QED  BY <1>5, <2>1, <3>1, Zenon
  <2> QED  BY <1>3, <2>2, <2>3, Zenon
<1> QED  BY <1>3, <1>7, <1>8

\* All rows stay.
LEMMA PairsShuffle ==
  ASSUME NEW n, NEW ks, NEW vs, NEW js, NEW us, NEW f, OneEach(n, ks),
         NEW J \in SUBSET (1..n), 1..n \subseteq J, Moves(f, n, J, ks, vs, js, us)
  PROVE  OneEach(n, js) /\ Pairs(n, js, us) = Pairs(n, ks, vs)
<1>1. J \in SUBSET (1..n)
  OBVIOUS
<1>2. Moves(f, n, J, ks, vs, js, us)
  OBVIOUS
<1>0. OneEach(n, js) /\ Shows(n, js, us, J, ks, vs)
  BY <1>1, <1>2, PairsMove
<1>3. /\ OneEach(n, js)
      /\ \A p : p \in Pairs(n, js, us) <=> \E j \in J : p = <<ks[j], vs[j]>>
  BY <1>0, Zenon DEF Shows
<1>4. \A p : p \in Pairs(n, ks, vs) <=> \E i \in 1..n : p = <<ks[i], vs[i]>>
  BY PairFacts
<1>5. \A p : p \in Pairs(n, js, us) <=> p \in Pairs(n, ks, vs)
  BY <1>1, <1>3, <1>4
<1> QED  BY <1>3, <1>5

\* There are as many keys as rows.
LEMMA KeysCount ==
  ASSUME NEW n \in Nat, NEW ks, NEW vs, OneEach(n, ks)
  PROVE  Cardinality({p[1] : p \in Pairs(n, ks, vs)}) = n
<1> DEFINE D == {p[1] : p \in Pairs(n, ks, vs)}
           g == [i \in 1..n |-> ks[i]]
<1>1. \A k : k \in D <=> \E i \in 1..n : k = ks[i]
  <2>1. \A p : p \in Pairs(n, ks, vs) <=> \E i \in 1..n : p = <<ks[i], vs[i]>>
    BY PairFacts
  <2>2. ASSUME NEW k \in D PROVE \E i \in 1..n : k = ks[i]
    <3>1. PICK p \in Pairs(n, ks, vs) : k = p[1]
      OBVIOUS
    <3>2. PICK i \in 1..n : p = <<ks[i], vs[i]>>
      BY <2>1, Zenon
    <3> QED  BY <3>1, <3>2
  <2>3. ASSUME NEW i \in 1..n PROVE ks[i] \in D
    <3>1. <<ks[i], vs[i]>> \in Pairs(n, ks, vs) /\ <<ks[i], vs[i]>>[1] = ks[i]
      BY PairFacts
    <3> QED  BY <3>1, Zenon
  <2> QED  BY <2>2, <2>3
<1> HIDE DEF D
<1>2. g \in [1..n -> D] /\ \A i \in 1..n : g[i] = ks[i]
  BY <1>1
<1>3. \A i, j \in 1..n : g[i] = g[j] => i = j
  BY <1>2, Zenon DEF OneEach
<1>4. \A k \in D : \E i \in 1..n : g[i] = k
  BY <1>1, <1>2
<1> HIDE DEF g
<1>5. g \in Bijection(1..n, D)
  BY <1>2, <1>3, <1>4, Fun_IsBij
<1>6. ExistsBijection(1..n, D)
  BY <1>5, Fun_ExistsBij
<1>7. IsFiniteSet(1..n) /\ Cardinality(1..n) = n
  BY FS_Interval
<1>8. Cardinality(D) = n
  BY <1>6, <1>7, FS_Bijection
<1> QED  BY <1>8 DEF D

SbKeys(s) == [i \in 1..Len(s) |-> s[i].pid]

SbVals(s) == [i \in 1..Len(s) |-> s[i].score]

Scored(s) == Pairs(Len(s), SbKeys(s), SbVals(s))

CpVals(s)      == [i \in 1..Len(s) |-> s[i].rss_kb]

Recorded(u, s) == Pairs(Len(s), u, CpVals(s))

\* Entry at of a store is given another size.
Resized(r, s, at, v) == r = [s EXCEPT ![at].rss_kb = v]

\* Store r has recorded what store s has, and size v for label l.
Records(u, r, s, l, v) == Recorded(u, r) = Rest(Recorded(u, s), l) \cup {<<l, v>>}
=============================================================================
