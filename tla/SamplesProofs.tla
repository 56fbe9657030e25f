--------------------------- MODULE SamplesProofs ----------------------------
(***************************************************************************)
(* The stores of recent samples, the estimates, the tracker, the criteria and *)
(* the latches of memtrace-lite, for every value of the constants: each keeps *)
(* what it promises, by an invariant that relates its slots or its counters to *)
(* a history of the samples, the values or the calls.                      *)
(***************************************************************************)
EXTENDS MCStores, StoreFacts

-----------------------------------------------------------------------------
(* The ring buffer is a sliding log.                                       *)

\* Every instance's Cardinality is the one that these lemmas are about.
LEMMA SameCardinality ==
  ASSUME NEW I
  PROVE  /\ G!Cardinality(I) = Cardinality(I) /\ A!Cardinality(I) = Cardinality(I)
         /\ S!Cardinality(I) = Cardinality(I)
         /\ S!Table!Cardinality(I) = Cardinality(I)
         /\ K!Table!Cardinality(I) = Cardinality(I)
BY DEF G!Cardinality, A!Cardinality, S!Cardinality, S!Table!Cardinality,
       K!Table!Cardinality, Cardinality

\* What it shows.
LEMMA RingShows ==
  /\ R!Contents = View(bufData, bufCapacity, bufTail, bufCount)
  /\ R!Contents' = View(bufData', bufCapacity', bufTail', bufCount')
BY DEF R!Contents, R!ringbuf_peek, View, Pos

\* Its types, with remainders as positions.
LEMMA RingTypes ==
  R!TypeOK <=> /\ bufCapacity \in Nat \ {0}
               /\ bufData \in Ring(bufCapacity, Sizes \cup {Nothing})
               /\ bufHead \in 0..(bufCapacity - 1) /\ bufTail \in 0..(bufCapacity - 1)
               /\ bufCount \in 0..bufCapacity
               /\ bufHead = Pos(bufCapacity, bufTail + bufCount)
               /\ out \in Sizes \cup {Nothing}
BY Zenon DEF R!TypeOK, R!Slots, Ring, Pos

\* A push appends, and slides when the buffer is full.
LEMMA RingPushes ==
  ASSUME R!TypeOK, R!ringbuf_push
  PROVE  R!TypeOK' /\ R!Log!Push
<1> DEFINE n == bufCapacity
           X == Sizes \cup {Nothing}
<1>1. /\ n \in Nat \ {0} /\ bufData \in Ring(n, X)
      /\ bufHead \in 0..(n - 1) /\ bufTail \in 0..(n - 1) /\ bufCount \in 0..n
      /\ bufHead = Pos(n, bufTail + bufCount) /\ bufCapacity' = n
  BY RingTypes DEF R!ringbuf_push
<1>2. PICK s \in Sizes : bufData' = [bufData EXCEPT ![bufHead] = s]
  BY DEF R!ringbuf_push
<1>3. s \in X
  OBVIOUS
<1>4. bufHead' = Pos(n, bufHead + 1) /\ out' = Nothing
  BY DEF R!ringbuf_push, R!After, Pos
<1>5. /\ bufCount' = IF bufCount < n THEN bufCount + 1 ELSE bufCount
      /\ bufTail' = IF bufCount < n THEN bufTail ELSE Pos(n, bufTail + 1)
  BY DEF R!ringbuf_push, R!TailAfterPush, R!After, Pos
<1> HIDE DEF n, X
<1>6. bufData' \in Ring(n, X) /\ Put(bufData', bufData, n, bufHead, s)
  BY <1>1, <1>2, <1>3, PutInRing, Zenon
<1>7. bufHead' \in 0..(n - 1)
  BY <1>1, <1>4, NextSlot
<1> DEFINE old == View(bufData, n, bufTail, bufCount)
           new == View(bufData', n, bufTail', bufCount')
<1>8. Len(old) = bufCount
  <2>1. Len(View(bufData, n, bufTail, bufCount)) = bufCount
    BY <1>1, ViewIsSeq, SMT
  <2> QED  BY <2>1
<1> DEFINE Slid == /\ bufTail' \in 0..(n - 1) /\ bufCount' \in 0..n
                   /\ bufHead' = Pos(n, bufTail' + bufCount')
                   /\ new = (IF Len(old) < n THEN Append(old, s) ELSE Append(Tail(old), s))
<1>9. ASSUME bufCount < n PROVE Slid
  <2>1. bufCount \in 0..(n - 1) /\ bufCount' = bufCount + 1 /\ bufTail' = bufTail
    BY <1>1, <1>5, <1>9
  <2>2. new = Append(old, s)
    <3>1. View(bufData', n, bufTail, bufCount + 1) = Append(old, s)
      BY <1>1, <1>3, <1>6, <2>1, ViewGrows
    <3> QED  BY <2>1, <3>1
  <2>3. bufHead' = Pos(n, bufTail' + bufCount')
    BY <1>1, <1>4, <2>1, SlotsGrow
  <2>4. bufTail' \in 0..(n - 1) /\ bufCount' \in 0..n
    BY <1>1, <2>1
  <2> HIDE DEF old, new
  <2>5. new = (IF Len(old) < n THEN Append(old, s) ELSE Append(Tail(old), s))
    BY <1>8, <1>9, <2>2
  <2> QED  BY <2>3, <2>4, <2>5, Zenon DEF Slid
<1>10. ASSUME ~(bufCount < n) PROVE Slid
  <2>1. bufCount = n /\ bufCount' = n /\ bufTail' = Pos(n, bufTail + 1)
    BY <1>1, <1>5, <1>10
  <2>2. bufHead = bufTail
    BY <1>1, <2>1, SlotsSlide
  <2>3. new = Append(Tail(old), s)
    <3>1. View(bufData', n, Pos(n, bufTail + 1), n) = Append(Tail(View(bufData, n, bufTail, n)), s)
      BY <1>1, <1>3, <1>6, <2>2, ViewSlides
    <3> QED  BY <2>1, <3>1
  <2>4. bufTail' \in 0..(n - 1) /\ bufCount' \in 0..n
    BY <1>1, <2>1, NextSlot
  <2>5. bufHead' = Pos(n, bufTail' + bufCount')
    <3> DEFINE u == bufTail'
    <3>1. u \in 0..(n - 1) /\ bufHead' = u
      BY <1>4, <2>1, <2>2, <2>4
    <3>2. Pos(n, u + n) = u
      BY <1>1, <3>1, SlotsSlide
    <3> QED  BY <2>1, <3>1, <3>2
  <2> HIDE DEF old, new
  <2>6. new = (IF Len(old) < n THEN Append(old, s) ELSE Append(Tail(old), s))
    BY <1>8, <1>10, <2>3
  <2> QED  BY <2>4, <2>5, <2>6, Zenon DEF Slid
<1>11. /\ bufTail' \in 0..(n - 1) /\ bufCount' \in 0..n
       /\ bufHead' = Pos(n, bufTail' + bufCount')
       /\ new = (IF Len(old) < n THEN Append(old, s) ELSE Append(Tail(old), s))
  BY <1>9, <1>10
<1>12. old = R!Contents /\ new = R!Contents'
  BY <1>1, RingShows DEF n
<1>13. R!TypeOK'
  <2>1. /\ bufCapacity' \in Nat \ {0}
        /\ bufData' \in Ring(bufCapacity', Sizes \cup {Nothing})
        /\ bufHead' \in 0..(bufCapacity' - 1) /\ bufTail' \in 0..(bufCapacity' - 1)
        /\ bufCount' \in 0..bufCapacity'
        /\ bufHead' = Pos(bufCapacity', bufTail' + bufCount')
    BY <1>1, <1>6, <1>7, <1>11, Zenon DEF X
  <2>2. out' \in Sizes \cup {Nothing}
    BY <1>4
  <2> QED  BY <2>1, <2>2, Zenon DEF R!TypeOK, R!Slots, Ring, Pos
<1>14. R!Log!Push
  <2> HIDE DEF old, new
  <2>1. n > 0 /\ n = bufCapacity /\ UNCHANGED bufCapacity
    BY <1>1 DEF n
  <2>2. R!Contents' = IF Len(R!Contents) < bufCapacity THEN Append(R!Contents, s)
                                                       ELSE Append(Tail(R!Contents), s)
    BY <1>11, <1>12, <2>1, Zenon
  <2> QED  BY <1>4, <2>1, <2>2, Zenon DEF R!Log!Push
<1> QED  BY <1>13, <1>14

\* A pop takes the oldest.
LEMMA RingPops ==
  ASSUME R!TypeOK, R!ringbuf_pop
  PROVE  R!TypeOK' /\ R!Log!Take
<1> DEFINE n == bufCapacity
           X == Sizes \cup {Nothing}
<1>1. /\ n \in Nat \ {0} /\ bufData \in Ring(n, X)
      /\ bufHead \in 0..(n - 1) /\ bufTail \in 0..(n - 1) /\ bufCount \in 1..n
      /\ bufHead = Pos(n, bufTail + bufCount)
  BY RingTypes DEF R!ringbuf_pop
<1>2. /\ UNCHANGED <<bufCapacity, bufData, bufHead>> /\ bufCount' = bufCount - 1
      /\ bufTail' = Pos(n, bufTail + 1) /\ out' = bufData[bufTail]
  BY DEF R!ringbuf_pop, R!After, Pos
<1>3. n = bufCapacity /\ X = Sizes \cup {Nothing}
  OBVIOUS
<1> HIDE DEF n, X
<1> DEFINE old == View(bufData, n, bufTail, bufCount)
           new == View(bufData, n, Pos(n, bufTail + 1), bufCount - 1)
<1>4. old # <<>> /\ bufData[bufTail] = Head(old) /\ new = Tail(old)
  BY <1>1, ViewTakes
<1>5. old = R!Contents /\ new = R!Contents'
  BY <1>2, <1>3, RingShows, Zenon
<1> HIDE DEF old, new
<1>6. R!Log!Take
  BY <1>2, <1>4, <1>5, Zenon DEF R!Log!Take
<1>7. R!TypeOK'
  <2>1. bufTail' \in 0..(n - 1) /\ bufCount' \in 0..n
    BY <1>1, <1>2, NextSlot
  <2>2. bufHead' = Pos(n, bufTail' + bufCount')
    <3> DEFINE u == Pos(n, bufTail + 1)
    <3>1. Pos(n, u + (bufCount - 1)) = Pos(n, bufTail + bufCount)
      BY <1>1, SlotsDrop
    <3> QED  BY <1>1, <1>2, <3>1
  <2>3. out' \in X
    BY <1>1, <1>2 DEF Ring
  <2> QED  BY <1>1, <1>2, <1>3, <2>1, <2>2, <2>3, Zenon DEF R!TypeOK, R!Slots, Ring, Pos
<1> QED  BY <1>6, <1>7

\* An empty buffer, new or cleared.
LEMMA RingEmpties ==
  ASSUME R!TypeOK, R!ringbuf_clear
  PROVE  R!TypeOK' /\ R!Log!Clear
<1>1. /\ bufCapacity \in Nat \ {0} /\ bufData \in Ring(bufCapacity, Sizes \cup {Nothing})
      /\ UNCHANGED <<bufCapacity, bufData>>
      /\ bufHead' = 0 /\ bufTail' = 0 /\ bufCount' = 0 /\ out' = Nothing
  BY RingTypes DEF R!ringbuf_clear
<1>2. 0 \in 0..(bufCapacity - 1) /\ 0 \in 0..bufCapacity /\ 0 = Pos(bufCapacity, 0 + 0)
  <2>1. 0 \in 0..(2 * bufCapacity - 1) /\ 0 + 0 = 0 /\ 0 < bufCapacity
    BY <1>1
  <2>2. Pos(bufCapacity, 0) = 0
    BY <1>1, <2>1, Around
  <2> QED  BY <1>1, <2>1, <2>2
<1>3. R!TypeOK'
  <2>1. Nothing \in Sizes \cup {Nothing}
    OBVIOUS
  <2> QED  BY <1>1, <1>2, <2>1, Zenon DEF R!TypeOK, R!Slots, Ring, Pos
<1>4. R!Contents' = <<>>
  BY <1>1, RingShows, ViewNothing
<1>5. R!Log!Clear
  <2>1. bufCapacity' \in Nat
    BY <1>1
  <2> QED  BY <1>1, <1>4, <2>1, Zenon DEF R!Log!Clear
<1> QED  BY <1>3, <1>5

\* Every step of the buffer is one of the log.
LEMMA RingStep ==
  R!TypeOK /\ [R!Next]_(R!vars) => R!TypeOK' /\ [R!Log!Next]_(R!Log!logVars)
<1> SUFFICES ASSUME R!TypeOK, [R!Next]_(R!vars)
             PROVE  R!TypeOK' /\ [R!Log!Next]_(R!Log!logVars)
  OBVIOUS
<1>1. CASE R!ringbuf_push
  BY <1>1, RingPushes, Zenon DEF R!Log!Next
<1>2. CASE R!ringbuf_pop
  BY <1>2, RingPops, Zenon DEF R!Log!Next
<1>3. CASE R!ringbuf_clear
  BY <1>3, RingEmpties, Zenon DEF R!Log!Next
<1>4. CASE UNCHANGED R!vars
  <2>1. UNCHANGED <<bufCapacity, bufData, bufHead, bufTail, bufCount, out>>
    BY <1>4, Zenon DEF R!vars
  <2>2. R!TypeOK'
    BY <2>1, Zenon DEF R!TypeOK, R!Slots
  <2>3. R!Contents' = R!Contents
    BY <2>1, RingShows, Zenon
  <2> QED  BY <2>1, <2>2, <2>3, Zenon DEF R!Log!logVars
<1> QED  BY <1>1, <1>2, <1>3, <1>4, Zenon DEF R!Next

\* A ring buffer starts out as an empty log (ringbuf_init).
LEMMA RingInit == R!Init => R!TypeOK /\ R!Log!Init
<1> SUFFICES ASSUME R!Init PROVE R!TypeOK /\ R!Log!Init
  OBVIOUS
<1>1. /\ bufCapacity \in Nat \ {0}
      /\ bufData = [i \in 0..(bufCapacity - 1) |-> Nothing]
      /\ bufHead = 0 /\ bufTail = 0 /\ bufCount = 0 /\ out = Nothing
  BY CapacitiesAssumption DEF R!Init, R!ringbuf_create, R!Slots
<1>2. 0 \in 0..(bufCapacity - 1) /\ 0 \in 0..bufCapacity /\ 0 = Pos(bufCapacity, 0 + 0)
  <2>1. 0 \in 0..(2 * bufCapacity - 1) /\ 0 + 0 = 0 /\ 0 < bufCapacity
    BY <1>1
  <2>2. Pos(bufCapacity, 0) = 0
    BY <1>1, <2>1, Around
  <2> QED  BY <1>1, <2>1, <2>2
<1>3. bufData \in Ring(bufCapacity, Sizes \cup {Nothing}) /\ Nothing \in Sizes \cup {Nothing}
  BY <1>1 DEF Ring
<1>4. R!Contents = <<>>
  BY <1>1, RingShows, ViewNothing
<1>5. bufCapacity \in Nat
  BY <1>1
<1> QED  BY <1>1, <1>2, <1>3, <1>4, <1>5, RingTypes, Zenon DEF R!Log!Init

\* Through wrapping, overwriting, popping and clearing, the ring buffer is a
\* sliding log (ringbuf_push, ringbuf_pop).
THEOREM RingBufferSlides == R!Spec => R!ImplementsSlidingLog
<1>1. R!Init => R!TypeOK /\ R!Log!Init
  BY RingInit
<1>2. R!TypeOK /\ [R!Next]_(R!vars) => R!TypeOK' /\ [R!Log!Next]_(R!Log!logVars)
  BY RingStep
<1> QED  BY <1>1, <1>2, PTL DEF R!Spec, R!ImplementsSlidingLog, R!Log!Spec

-----------------------------------------------------------------------------
(* History and window: rings without an index of the oldest sample.        *)

\* What the history shows.
LEMMA HistoryShows ==
  /\ H!Contents = View(hisEntries, hisCapacity, First(hisCapacity, hisHead, hisCount), hisCount)
  /\ H!Contents' = View(hisEntries', hisCapacity', First(hisCapacity', hisHead', hisCount'),
                        hisCount')
BY DEF H!Contents, H!history_get, View, First, Pos

\* A push goes behind the latest snapshot.
LEMMA HistoryPushes ==
  ASSUME H!TypeOK, H!history_push
  PROVE  H!TypeOK' /\ H!Log!Push
<1> DEFINE n == hisCapacity
           X == H!Snapshots
           k == Pos(n, hisHead + 1)
           b == More(n, hisCount)
           old == View(hisEntries, n, First(n, hisHead, hisCount), hisCount)
           new == View(hisEntries', n, First(n, k, b), b)
<1>1. n \in Capacities /\ n \in Nat \ {0}
  BY CapacitiesAssumption DEF H!TypeOK, H!history_push
<1>2. OpenRing(X, n, hisEntries, hisHead, hisCount)
  <2>1. hisEntries \in Ring(n, X) /\ hisHead \in 0..(n - 1)
    BY <1>1 DEF H!TypeOK, H!Slots, Ring
  <2>2. hisCount \in 0..n /\ (hisCount < n => hisHead = hisCount)
    BY DEF H!TypeOK
  <2> QED  BY <1>1, <2>1, <2>2, Zenon DEF OpenRing
<1>3. PICK s \in X : hisEntries' = [hisEntries EXCEPT ![hisHead] = s]
  BY DEF H!history_push
<1>4. hisHead' = k /\ hisCapacity' = n /\ hisCount' = b
  BY DEF H!history_push, Pos, More
<1> HIDE DEF X
<1>5. /\ OpenRing(X, n, hisEntries', k, b) /\ Len(old) = hisCount
      /\ new = IF hisCount < n THEN Append(old, s) ELSE Append(Tail(old), s)
  <2> HIDE DEF k, b, old, new, n
  <2>1. n \in Nat \ {0} /\ hisEntries \in Ring(n, X) /\ hisHead \in 0..(n - 1)
    BY <1>2, Zenon DEF OpenRing
  <2>2. hisEntries' \in Ring(n, X) /\ Put(hisEntries', hisEntries, n, hisHead, s)
    BY <1>3, <2>1, PutInRing, Zenon
  <2>3. /\ OpenRing(X, n, hisEntries', Pos(n, hisHead + 1), More(n, hisCount))
        /\ Len(View(hisEntries, n, First(n, hisHead, hisCount), hisCount)) = hisCount
        /\ View(hisEntries', n, First(n, Pos(n, hisHead + 1), More(n, hisCount)), More(n, hisCount))
              = IF hisCount < n
                  THEN Append(View(hisEntries, n, First(n, hisHead, hisCount), hisCount), s)
                  ELSE Append(Tail(View(hisEntries, n, First(n, hisHead, hisCount), hisCount)), s)
    BY <1>2, <2>2, OpenPush
  <2> QED  BY <2>3 DEF k, b, old, new
<1>6. old = H!Contents /\ new = H!Contents'
  BY <1>4, HistoryShows, Zenon
<1> HIDE DEF old, new, k, b
<1>7. H!Log!Push
  <2>1. H!Contents' = IF Len(H!Contents) < n THEN Append(H!Contents, s)
                                             ELSE Append(Tail(H!Contents), s)
    BY <1>5, <1>6, Zenon
  <2>2. n > 0
    BY <1>1
  <2> QED  BY <1>4, <2>1, <2>2, Zenon DEF H!Log!Push, X
<1>8. H!TypeOK'
  <2>1. hisEntries' \in [H!Slots' -> H!Snapshots]
    BY <1>4, <1>5, Zenon DEF H!Slots, Ring, OpenRing, X
  <2>2. hisHead' \in IF hisCapacity' = 0 THEN {0} ELSE H!Slots'
    BY <1>1, <1>4, <1>5 DEF H!Slots, OpenRing
  <2> QED  BY <1>1, <1>4, <1>5, <2>1, <2>2, Zenon DEF H!TypeOK, OpenRing
<1> QED  BY <1>7, <1>8

\* An empty history, set up, freed or cleared.
LEMMA HistoryEmpties ==
  ASSUME H!TypeOK, H!history_init \/ H!history_free \/ H!history_clear
  PROVE  H!TypeOK' /\ H!Log!Clear
<1>1. hisCount' = 0 /\ hisHead' = 0
  BY DEF H!history_init, H!history_free, H!history_clear
<1>2. hisCapacity' \in Capacities \cup {0} /\ hisCapacity' \in Nat
  <2>1. \A x \in Capacities \cup {0} : x \in Nat
    BY CapacitiesAssumption
  <2>2. hisCapacity' \in Capacities \cup {0}
    BY DEF H!TypeOK, H!history_init, H!history_free, H!history_clear
  <2> QED  BY <2>1, <2>2
<1>3. hisEntries' \in [0..(hisCapacity' - 1) -> H!Snapshots]
  <2>1. CASE H!history_init
    BY SizesAssumption, <2>1 DEF H!history_init, H!Zero, H!Snapshots
  <2>2. CASE H!history_free
    <3>1. 0..(0 - 1) = {} /\ hisCapacity' = 0 /\ hisEntries' = <<>>
      BY <2>2 DEF H!history_free
    <3>2. hisEntries' \in [{} -> H!Snapshots]
      BY <3>1
    <3> QED  BY <3>1, <3>2
  <2>3. CASE H!history_clear
    BY <2>3 DEF H!history_clear, H!TypeOK, H!Slots
  <2> QED  BY <2>1, <2>2, <2>3
<1>4. H!TypeOK'
  <2>1. /\ hisCount' \in 0..hisCapacity' /\ (hisCount' < hisCapacity' => hisHead' = hisCount')
        /\ hisHead' \in IF hisCapacity' = 0 THEN {0} ELSE 0..(hisCapacity' - 1)
    <3> DEFINE m == hisCapacity'
    <3>1. m \in Nat
      BY <1>2
    <3> HIDE DEF m
    <3>2. 0 \in 0..m /\ 0 \in IF m = 0 THEN {0} ELSE 0..(m - 1)
      BY <3>1
    <3> QED  BY <1>1, <3>2 DEF m
  <2> QED  BY <1>2, <1>3, <2>1, Zenon DEF H!TypeOK, H!Slots
<1>5. H!Contents' = <<>>
  BY <1>1, HistoryShows, ViewNothing
<1>6. H!Log!Clear
  BY <1>2, <1>5, Zenon DEF H!Log!Clear
<1> QED  BY <1>4, <1>6

\* Every step of the history is one of the log.
LEMMA HistoryStep ==
  H!TypeOK /\ [H!Next]_(H!vars) => H!TypeOK' /\ [H!Log!Next]_(H!Log!logVars)
<1> SUFFICES ASSUME H!TypeOK, [H!Next]_(H!vars)
             PROVE  H!TypeOK' /\ [H!Log!Next]_(H!Log!logVars)
  OBVIOUS
<1>1. CASE H!history_push
  BY <1>1, HistoryPushes, Zenon DEF H!Log!Next
<1>2. CASE H!history_init \/ H!history_free \/ H!history_clear
  BY <1>2, HistoryEmpties, Zenon DEF H!Log!Next
<1>3. CASE UNCHANGED H!vars
  <2>1. UNCHANGED <<hisCapacity, hisEntries, hisHead, hisCount>>
    BY <1>3, Zenon DEF H!vars
  <2>2. H!TypeOK'
    BY <2>1, Zenon DEF H!TypeOK, H!Slots
  <2>3. H!Contents' = H!Contents
    BY <2>1, HistoryShows, Zenon
  <2>4. H!Zero' = H!Zero
    BY Zenon DEF H!Zero
  <2> QED  BY <2>1, <2>2, <2>3, <2>4, Zenon DEF H!Log!logVars
<1> QED  BY <1>1, <1>2, <1>3, Zenon DEF H!Next

\* A history starts out as an empty log (history_init).
LEMMA HistoryInit == H!Init => H!TypeOK /\ H!Log!Init
<1> SUFFICES ASSUME H!Init PROVE H!TypeOK /\ H!Log!Init
  OBVIOUS
<1>1. hisCapacity = 0 /\ hisEntries = <<>> /\ hisHead = 0 /\ hisCount = 0
  BY DEF H!Init, H!Freed
<1>2. hisEntries \in [0..(hisCapacity - 1) -> H!Snapshots]
  <2>1. 0..(0 - 1) = {}
    OBVIOUS
  <2>2. hisEntries \in [{} -> H!Snapshots]
    BY <1>1
  <2> QED  BY <1>1, <2>1, <2>2
<1>3. H!TypeOK
  BY <1>1, <1>2 DEF H!TypeOK, H!Slots
<1>4. H!Contents = <<>>
  BY <1>1, HistoryShows, ViewNothing
<1> QED  BY <1>1, <1>3, <1>4 DEF H!Log!Init

\* Without an index of the oldest, the history finds it: it is a sliding log
\* (history_push, history_get).
THEOREM HistorySlides == H!Spec => H!ImplementsSlidingLog
<1>1. H!Init => H!TypeOK /\ H!Log!Init
  BY HistoryInit
<1>2. H!TypeOK /\ [H!Next]_(H!vars) => H!TypeOK' /\ [H!Log!Next]_(H!Log!logVars)
  BY HistoryStep
<1> QED  BY <1>1, <1>2, PTL DEF H!Spec, H!ImplementsSlidingLog, H!Log!Spec

\* A window keeps a ring that is filled from slot 0 on.
LEMMA WindowRing ==
  /\ W!TypeOK => OpenRing(W!WindowSamples \cup {W!Blank}, winCapacity, winSamples, winHead,
                          winCount)
  /\ W!TypeOK => W!Contents = View(winSamples, winCapacity,
                                   First(winCapacity, winHead, winCount), winCount)
<1> SUFFICES ASSUME W!TypeOK
             PROVE  /\ OpenRing(W!WindowSamples \cup {W!Blank}, winCapacity, winSamples, winHead,
                                winCount)
                    /\ W!Contents = View(winSamples, winCapacity,
                                         First(winCapacity, winHead, winCount), winCount)
  OBVIOUS
<1>1. winCapacity \in Nat \ {0}
  BY CapacitiesAssumption DEF W!TypeOK
<1>2. winHead \in 0..(winCapacity - 1) /\ winCount \in 0..winCapacity
      /\ (winCount < winCapacity => winHead = winCount)
  BY DEF W!TypeOK, W!Slots
<1>3. winSamples \in Ring(winCapacity, W!WindowSamples \cup {W!Blank})
  BY DEF W!TypeOK, W!Slots, Ring
<1>4. W!Contents = Turned(winSamples, winCapacity, winHead, winCount)
  BY DEF W!Contents, W!window_get, W!index, Turned
<1>5. OpenRing(W!WindowSamples \cup {W!Blank}, winCapacity, winSamples, winHead, winCount)
  BY <1>1, <1>2, <1>3, Zenon DEF OpenRing
<1> QED  BY <1>4, <1>5, WindowShows

\* Such a ring in the next state is a window of its type, and shows as much.
LEMMA WindowNext ==
  ASSUME winCapacity' = winCapacity, winCapacity \in Capacities,
         OpenRing(W!WindowSamples \cup {W!Blank}, winCapacity', winSamples', winHead', winCount')
  PROVE  W!TypeOK' /\ W!Contents' = View(winSamples', winCapacity',
                                         First(winCapacity', winHead', winCount'), winCount')
<1>1. W!TypeOK'
  <2>1. (W!WindowSamples \cup {W!Blank})' = W!WindowSamples \cup {W!Blank}
    BY Zenon DEF W!WindowSamples, W!Blank
  <2>2. winSamples' \in [W!Slots' -> (W!WindowSamples \cup {W!Blank})']
    BY <2>1, Zenon DEF OpenRing, Ring, W!Slots
  <2> QED  BY <2>2, Zenon DEF OpenRing, W!TypeOK, W!Slots
<1>2. W!Contents' = Turned(winSamples', winCapacity', winHead', winCount')
  BY DEF W!Contents, W!window_get, W!index, Turned
<1> QED  BY <1>1, <1>2, WindowShows

\* A push goes behind the latest value.
LEMMA WindowPushes ==
  ASSUME W!TypeOK, W!window_push
  PROVE  W!TypeOK' /\ W!Log!Push
<1> DEFINE n == winCapacity
           X == W!WindowSamples \cup {W!Blank}
           k == Pos(n, winHead + 1)
           b == More(n, winCount)
           old == View(winSamples, n, First(n, winHead, winCount), winCount)
           new == View(winSamples', n, First(n, k, b), b)
<1>1. OpenRing(X, n, winSamples, winHead, winCount) /\ old = W!Contents
  BY WindowRing, Zenon
<1>2. PICK s \in W!WindowSamples : winSamples' = [winSamples EXCEPT ![winHead] = s]
  BY DEF W!window_push
<1>3. winHead' = k /\ winCapacity' = n /\ winCount' = b
  BY DEF W!window_push, Pos, More
<1>4. s \in X
  OBVIOUS
<1>a. n = winCapacity /\ X = W!WindowSamples \cup {W!Blank}
  OBVIOUS
<1> HIDE DEF X
<1>5. /\ OpenRing(X, n, winSamples', k, b) /\ Len(old) = winCount
      /\ new = IF winCount < n THEN Append(old, s) ELSE Append(Tail(old), s)
  <2> HIDE DEF k, b, old, new, n
  <2>1. n \in Nat \ {0} /\ winSamples \in Ring(n, X) /\ winHead \in 0..(n - 1)
    BY <1>1, Zenon DEF OpenRing
  <2>2. winSamples' \in Ring(n, X) /\ Put(winSamples', winSamples, n, winHead, s)
    BY <1>2, <1>4, <2>1, PutInRing, Zenon
  <2>3. /\ OpenRing(X, n, winSamples', Pos(n, winHead + 1), More(n, winCount))
        /\ Len(View(winSamples, n, First(n, winHead, winCount), winCount)) = winCount
        /\ View(winSamples', n, First(n, Pos(n, winHead + 1), More(n, winCount)), More(n, winCount))
              = IF winCount < n
                  THEN Append(View(winSamples, n, First(n, winHead, winCount), winCount), s)
                  ELSE Append(Tail(View(winSamples, n, First(n, winHead, winCount), winCount)), s)
    BY <1>1, <1>4, <2>2, OpenPush
  <2> QED  BY <2>3 DEF k, b, old, new
<1> HIDE DEF old, k, b
<1>6. W!TypeOK' /\ new = W!Contents'
  <2>1. winCapacity \in Capacities
    BY DEF W!TypeOK
  <2> HIDE DEF new, n
  <2>2. OpenRing(W!WindowSamples \cup {W!Blank}, winCapacity', winSamples', winHead', winCount')
    BY <1>3, <1>5, <1>a, Zenon
  <2>3. W!TypeOK' /\ W!Contents' = View(winSamples', winCapacity',
                                        First(winCapacity', winHead', winCount'), winCount')
    BY <1>3, <1>a, <2>1, <2>2, WindowNext, Zenon
  <2> QED  BY <1>3, <2>3, Zenon DEF new
<1> HIDE DEF new
<1>7. W!Log!Push
  <2>1. W!Contents' = IF Len(W!Contents) < n THEN Append(W!Contents, s)
                                             ELSE Append(Tail(W!Contents), s)
    BY <1>1, <1>5, <1>6, Zenon
  <2>2. n > 0
    BY <1>1 DEF OpenRing
  <2>3. W!Blank' = W!Blank
    BY Zenon DEF W!Blank
  <2> QED  BY <1>3, <2>1, <2>2, <2>3, Zenon DEF W!Log!Push
<1> QED  BY <1>6, <1>7

\* A reset window is an empty log (window_reset).
LEMMA WindowResets ==
  ASSUME W!TypeOK, W!window_reset
  PROVE  W!TypeOK' /\ W!Log!Clear
<1>1. winCapacity \in Capacities /\ winCapacity \in Nat \ {0}
  BY CapacitiesAssumption DEF W!TypeOK
<1>2. /\ winSamples' = [i \in 0..(winCapacity - 1) |-> W!Blank]
      /\ winHead' = 0 /\ winCount' = 0 /\ winCapacity' = winCapacity
  BY DEF W!window_reset, W!Slots
<1>3. OpenRing(W!WindowSamples \cup {W!Blank}, winCapacity', winSamples', winHead', winCount')
  <2>1. W!Blank \in W!WindowSamples \cup {W!Blank}
    OBVIOUS
  <2> QED  BY <1>1, <1>2, <2>1, EmptyRing, Zenon
<1>4. W!TypeOK' /\ W!Contents' = <<>>
  BY <1>1, <1>2, <1>3, WindowNext, ViewNothing
<1>5. W!Log!Clear
  <2>1. winCapacity' \in Nat /\ W!Blank' = W!Blank
    BY <1>1, <1>2 DEF W!Blank
  <2> QED  BY <1>4, <2>1, Zenon DEF W!Log!Clear
<1> QED  BY <1>4, <1>5

\* Every step of the window is one of the log.
LEMMA WindowStep ==
  W!TypeOK /\ [W!Next]_(W!vars) => W!TypeOK' /\ [W!Log!Next]_(W!Log!logVars)
<1> SUFFICES ASSUME W!TypeOK, [W!Next]_(W!vars)
             PROVE  W!TypeOK' /\ [W!Log!Next]_(W!Log!logVars)
  OBVIOUS
<1>1. CASE W!window_push
  BY <1>1, WindowPushes, Zenon DEF W!Log!Next
<1>2. CASE W!window_reset
  BY <1>2, WindowResets, Zenon DEF W!Log!Next
<1>3. CASE UNCHANGED W!vars
  <2>1. UNCHANGED <<winCapacity, winSamples, winHead, winCount>>
    BY <1>3, Zenon DEF W!vars
  <2>2. W!Blank' = W!Blank /\ W!WindowSamples' = W!WindowSamples
    BY Zenon DEF W!Blank, W!WindowSamples
  <2>3. W!TypeOK'
    BY <2>1, <2>2, Zenon DEF W!TypeOK, W!Slots
  <2>4. W!Contents' = W!Contents
    BY <2>1 DEF W!Contents, W!window_get, W!index
  <2> QED  BY <2>1, <2>2, <2>3, <2>4, Zenon DEF W!Log!logVars
<1> QED  BY <1>1, <1>2, <1>3, Zenon DEF W!Next

\* A window starts out as an empty log (window_init).
LEMMA WindowInit == W!Init => W!TypeOK /\ W!Log!Init
<1> SUFFICES ASSUME W!Init PROVE W!TypeOK /\ W!Log!Init
  OBVIOUS
<1>1. /\ winCapacity \in Capacities /\ winCapacity \in Nat \ {0}
      /\ winSamples = [i \in 0..(winCapacity - 1) |-> W!Blank]
      /\ winHead = 0 /\ winCount = 0
  BY CapacitiesAssumption DEF W!Init, W!window_init, W!Slots
<1>2. W!TypeOK
  <2>1. 0 \in 0..(winCapacity - 1) /\ 0 \in 0..winCapacity
    BY <1>1
  <2>2. winSamples \in [W!Slots -> W!WindowSamples \cup {W!Blank}]
    BY <1>1 DEF W!Slots
  <2> QED  BY <1>1, <2>1, <2>2, Zenon DEF W!TypeOK, W!Slots
<1>3. W!Contents = <<>>
  BY <1>1, <1>2, WindowRing, ViewNothing
<1>4. winCapacity \in Nat
  BY <1>1
<1> QED  BY <1>2, <1>3, <1>4, Zenon DEF W!Log!Init

\* A window is a sliding log of the values pushed (window_push, window_get).
THEOREM WindowSlides == W!Spec => W!ImplementsSlidingLog
<1>1. W!Init => W!TypeOK /\ W!Log!Init
  BY WindowInit
<1>2. W!TypeOK /\ [W!Next]_(W!vars) => W!TypeOK' /\ [W!Log!Next]_(W!Log!logVars)
  BY WindowStep
<1> QED  BY <1>1, <1>2, PTL DEF W!Spec, W!ImplementsSlidingLog, W!Log!Spec

-----------------------------------------------------------------------------
(* Latches and their group.                                                *)

LatchStates == [state : {"ARMED", "TRIGGERED", "DISARMED"}, value : {0, 1, 2}, count : Nat]

Offers      == [value : {1, 2}, taken : BOOLEAN]

\* A value is taken only by the first offer since the latch was armed; an armed
\* latch was offered none, and a triggered one shows that first value.
LatchInv ==
  /\ latch \in [Latches -> LatchStates] /\ heard \in [Latches -> Seq(Offers)]
  /\ \A l \in Latches :
       /\ \A i \in DOMAIN heard[l] : heard[l][i].taken => i = 1
       /\ latch[l].state = "ARMED" => heard[l] = <<>>
       /\ latch[l].state = "TRIGGERED" =>
            /\ heard[l] # <<>> /\ heard[l][1].taken
            /\ heard[l][1].value = latch[l].value

\* What the group counted are some of its latches.
GroupInv ==
  /\ group \in Seq(Latches) /\ Len(group) <= MaxEntries
  /\ any_triggered \in BOOLEAN /\ all_triggered \in BOOLEAN
  /\ triggered_count \in 0..Len(group)
  /\ G!FlagsNeverLead

\* The positions of triggered latches in the group.
Up == {i \in DOMAIN group : latch[group[i]].state = "TRIGGERED"}

\* What the group counts is how many of its latches are triggered.
LEMMA UpCounts ==
  ASSUME group \in Seq(Latches)
  PROVE  /\ Len(group) \in Nat /\ DOMAIN group = 1..Len(group)
         /\ Up \in SUBSET (1..Len(group)) /\ G!TriggeredInGroup = Cardinality(Up)
         /\ G!TriggeredInGroup \in 0..Len(group)
<1>1. Len(group) \in Nat /\ DOMAIN group = 1..Len(group)
  BY SeqFacts
<1>2. Up \in SUBSET (1..Len(group))
  BY <1>1 DEF Up
<1>3. G!TriggeredInGroup = Cardinality(Up)
  BY SameCardinality DEF G!TriggeredInGroup, G!Triggered, Up
<1> QED  BY <1>1, <1>2, <1>3, PositionsCount

\* One latch changes.
LEMMA LatchChanges ==
  ASSUME LatchInv, NEW l \in Latches,
         latch'[l] \in LatchStates, heard'[l] \in Seq(Offers),
         latch' \in [Latches -> LatchStates], heard' \in [Latches -> Seq(Offers)],
         \A k \in Latches : k # l => latch'[k] = latch[k] /\ heard'[k] = heard[k],
         \A i \in DOMAIN heard'[l] : heard'[l][i].taken => i = 1,
         latch'[l].state = "ARMED" => heard'[l] = <<>>,
         latch'[l].state = "TRIGGERED" =>
            /\ heard'[l] # <<>> /\ heard'[l][1].taken
            /\ heard'[l][1].value = latch'[l].value
  PROVE  LatchInv'
BY DEF LatchInv

\* A value offered to a latch is taken by an armed one only (latch_trigger).
LEMMA LatchTriggers == LatchInv /\ G!latch_trigger => LatchInv'
<1> SUFFICES ASSUME LatchInv, G!latch_trigger PROVE LatchInv'
  OBVIOUS
<1>1. PICK l \in Latches, v \in {1, 2} :
        /\ latch' = IF G!Takes(l)
                    THEN [latch EXCEPT ![l] = [state |-> "TRIGGERED", value |-> v,
                                               count |-> @.count + 1]]
                    ELSE latch
        /\ heard' = [heard EXCEPT ![l] = Append(@, [value |-> v, taken |-> G!Takes(l)])]
  BY DEF G!latch_trigger
<1> DEFINE e == [value |-> v, taken |-> G!Takes(l)]
           old == heard[l]
           new == Append(old, e)
<1>2. /\ latch \in [Latches -> LatchStates] /\ heard \in [Latches -> Seq(Offers)]
      /\ old \in Seq(Offers)
  BY DEF LatchInv
<1>3. e \in Offers /\ e.value = v /\ e.taken = G!Takes(l)
  BY DEF Offers, G!Takes
<1> HIDE DEF e
<1>4. /\ new \in Seq(Offers) /\ Len(old) \in Nat /\ DOMAIN new = 1..(Len(old) + 1)
      /\ DOMAIN old = 1..Len(old) /\ new[Len(old) + 1] = e /\ new # <<>>
      /\ \A i \in 1..Len(old) : new[i] = old[i]
  BY <1>2, <1>3, AppendFacts
<1>5. heard' = [heard EXCEPT ![l] = new]
  BY <1>1 DEF e
<1>6. heard' \in [Latches -> Seq(Offers)] /\ heard'[l] = new
      /\ \A k \in Latches : k # l => heard'[k] = heard[k]
  BY <1>2, <1>4, <1>5
<1>7. G!Takes(l) => old = <<>> /\ Len(old) = 0
  BY <1>2, SeqFacts DEF LatchInv, G!Takes
<1>a. /\ \A i \in DOMAIN old : old[i].taken => i = 1
      /\ latch[l].state = "TRIGGERED" => /\ old # <<>> /\ old[1].taken
                                         /\ old[1].value = latch[l].value
  BY DEF LatchInv
<1>b. old # <<>> => 1 \in 1..Len(old)
  BY <1>2, <1>4, SeqFacts
<1> HIDE DEF new, old
<1>8. CASE G!Takes(l)
  <2>1. /\ latch' \in [Latches -> LatchStates]
        /\ latch'[l].state = "TRIGGERED" /\ latch'[l].value = v
        /\ \A k \in Latches : k # l => latch'[k] = latch[k]
    BY <1>1, <1>2, <1>8 DEF LatchStates
  <2>2. new[1] = e /\ DOMAIN new = 1..1
    BY <1>4, <1>7, <1>8
  <2>3. \A i \in DOMAIN new : new[i].taken => i = 1
    BY <2>2
  <2>4. new[1].taken /\ new[1].value = v
    BY <1>3, <1>8, <2>2
  <2> QED  BY <1>4, <1>6, <2>1, <2>3, <2>4, LatchChanges
<1>9. CASE ~G!Takes(l)
  <2>1. latch' = latch /\ latch[l].state # "ARMED" /\ ~e.taken
    BY <1>1, <1>3, <1>9 DEF G!Takes
  <2>2. \A i \in DOMAIN new : new[i].taken => i = 1
    <3> SUFFICES ASSUME NEW i \in DOMAIN new, new[i].taken PROVE i = 1
      OBVIOUS
    <3>1. i \in 1..Len(old)
      BY <1>4, <2>1
    <3> QED  BY <1>4, <1>a, <3>1
  <2>3. latch[l].state = "TRIGGERED" => new[1].taken /\ new[1].value = latch[l].value
    BY <1>4, <1>a, <1>b
  <2> QED  BY <1>2, <1>4, <1>6, <2>1, <2>2, <2>3, LatchChanges DEF LatchInv
<1> QED  BY <1>8, <1>9

\* Arming some latches, and forgetting what they were offered.
LEMMA LatchesArmed ==
  ASSUME LatchInv, NEW L \in SUBSET Latches,
         latch' = [l \in Latches |-> IF l \in L THEN G!Armed(latch[l]) ELSE latch[l]],
         heard' = [l \in Latches |-> IF l \in L THEN <<>> ELSE heard[l]]
  PROVE  LatchInv'
<1>1. latch \in [Latches -> LatchStates] /\ heard \in [Latches -> Seq(Offers)]
  BY DEF LatchInv
<1>2. ASSUME NEW l \in Latches
      PROVE  G!Armed(latch[l]) \in LatchStates /\ G!Armed(latch[l]).state = "ARMED"
  BY <1>1 DEF G!Armed, LatchStates
<1>3. latch' \in [Latches -> LatchStates]
  BY <1>1, <1>2
<1>4. <<>> \in Seq(Offers) /\ DOMAIN (<<>>) = {}
  BY EmptySeq
<1>5. heard' \in [Latches -> Seq(Offers)]
  BY <1>1, <1>4
<1>6. ASSUME NEW l \in Latches
      PROVE  /\ \A i \in DOMAIN heard'[l] : heard'[l][i].taken => i = 1
             /\ latch'[l].state = "ARMED" => heard'[l] = <<>>
             /\ latch'[l].state = "TRIGGERED" =>
                  /\ heard'[l] # <<>> /\ heard'[l][1].taken
                  /\ heard'[l][1].value = latch'[l].value
  <2>1. CASE l \in L
    <3>1. latch'[l].state = "ARMED" /\ heard'[l] = <<>>
      BY <1>2, <2>1
    <3> QED  BY <1>4, <3>1
  <2>2. CASE l \notin L
    <3>1. latch'[l] = latch[l] /\ heard'[l] = heard[l]
      BY <2>2
    <3> QED  BY <3>1 DEF LatchInv
  <2> QED  BY <2>1, <2>2
<1> QED  BY <1>3, <1>5, <1>6 DEF LatchInv

\* A latch that is not armed keeps the first value offered to it.
LEMMA LatchStep == LatchInv /\ [G!Next]_(G!vars) /\ group \in Seq(Latches) => LatchInv'
<1> SUFFICES ASSUME LatchInv, [G!Next]_(G!vars), group \in Seq(Latches) PROVE LatchInv'
  OBVIOUS
<1>0. latch \in [Latches -> LatchStates] /\ heard \in [Latches -> Seq(Offers)]
  BY DEF LatchInv
<1>1. CASE G!latch_trigger
  BY <1>1, LatchTriggers
<1>2. CASE G!latch_arm
  <2>1. PICK l \in Latches : /\ latch' = [latch EXCEPT ![l] = G!Armed(@)]
                             /\ heard' = [heard EXCEPT ![l] = <<>>]
    BY <1>2 DEF G!latch_arm
  <2>2. {l} \in SUBSET Latches
    OBVIOUS
  <2>3. latch' = [k \in Latches |-> IF k \in {l} THEN G!Armed(latch[k]) ELSE latch[k]]
    BY <1>0, <2>1
  <2>4. heard' = [k \in Latches |-> IF k \in {l} THEN <<>> ELSE heard[k]]
    BY <1>0, <2>1
  <2> QED  BY <2>2, <2>3, <2>4, LatchesArmed
<1>3. CASE G!latch_disarm
  <2>1. PICK l \in Latches : latch' = [latch EXCEPT ![l].state = "DISARMED"] /\ heard' = heard
    BY <1>3 DEF G!latch_disarm
  <2>2. /\ latch' \in [Latches -> LatchStates] /\ latch'[l].state = "DISARMED"
        /\ \A k \in Latches : k # l => latch'[k] = latch[k]
    BY <1>0, <2>1 DEF LatchStates
  <2> QED  BY <2>1, <2>2 DEF LatchInv
<1>4. CASE G!latch_group_add \/ G!latch_group_evaluate \/ UNCHANGED G!vars
  <2>1. latch' = latch /\ heard' = heard
    BY <1>4 DEF G!latch_group_add, G!latch_group_evaluate, G!vars
  <2> QED  BY <2>1 DEF LatchInv
<1>5. CASE G!latch_group_reset_all
  <2> DEFINE L == {group[i] : i \in DOMAIN group}
  <2>1. /\ latch' = [l \in Latches |-> IF l \in L THEN G!Armed(latch[l]) ELSE latch[l]]
        /\ heard' = [l \in Latches |-> IF l \in L THEN <<>> ELSE heard[l]]
    BY <1>5 DEF G!latch_group_reset_all
  <2>2. L \in SUBSET Latches
    BY SeqFacts
  <2> HIDE DEF L
  <2> QED  BY <2>1, <2>2, LatchesArmed
<1> QED  BY <1>1, <1>2, <1>3, <1>4, <1>5, Zenon DEF G!Next

\* While latches are only triggered, and the group stays, its flags stay true.
LEMMA FlagsFollow ==
  ASSUME GroupInv, LatchInv, LatchInv', UNCHANGED G!groupVars, steady' => steady,
         steady' => \A l \in Latches :
                       latch[l].state = "TRIGGERED" => latch'[l].state = "TRIGGERED"
  PROVE  GroupInv'
<1>0. /\ group' = group /\ any_triggered' = any_triggered /\ all_triggered' = all_triggered
      /\ triggered_count' = triggered_count
  BY DEF G!groupVars
<1>1. group \in Seq(Latches)
  BY DEF GroupInv
<1>2. /\ Len(group) \in Nat /\ DOMAIN group = 1..Len(group)
      /\ Up \in SUBSET (1..Len(group)) /\ G!TriggeredInGroup = Cardinality(Up)
  BY <1>1, UpCounts
<1>3. Up' \in SUBSET (1..Len(group)) /\ G!TriggeredInGroup' = Cardinality(Up')
  <2>1. Up' \in SUBSET (1..Len(group))
    BY <1>0, <1>2 DEF Up
  <2>2. G!TriggeredInGroup' = G!Cardinality(Up')
    BY DEF G!TriggeredInGroup, G!Triggered, Up
  <2> QED  BY <2>1, <2>2, SameCardinality
<1>4. ASSUME steady' PROVE G!FlagsNeverLead'
  <2>1. \A i \in DOMAIN group : group[i] \in Latches
    BY <1>1, SeqFacts
  <2>2. Up \subseteq Up'
    BY <1>0, <1>4, <2>1 DEF Up
  <2>3. Cardinality(Up) <= Cardinality(Up') /\ Cardinality(Up) \in Nat /\ Cardinality(Up') \in Nat
    BY <1>2, <1>3, <2>2, PositionsCount
  <2>4. /\ any_triggered => \E i \in DOMAIN group : i \in Up
        /\ all_triggered => group # <<>> /\ \A i \in DOMAIN group : i \in Up
        /\ triggered_count <= Cardinality(Up)
    BY <1>2, <1>4 DEF GroupInv, G!FlagsNeverLead, G!Triggered, Up
  <2>5. triggered_count <= Cardinality(Up')
    BY <2>3, <2>4 DEF GroupInv
  <2>6. \A i \in DOMAIN group : i \in Up' <=> latch'[group[i]].state = "TRIGGERED"
    BY <1>0 DEF Up
  <2> QED  BY <1>0, <1>3, <2>2, <2>4, <2>5, <2>6 DEF G!FlagsNeverLead, G!Triggered
<1>5. G!FlagsNeverLead'
  <2>1. CASE ~steady'
    BY <2>1 DEF G!FlagsNeverLead
  <2> QED  BY <1>4, <2>1
<1> QED  BY <1>0, <1>5 DEF GroupInv

\* An evaluation tells what is so.
LEMMA GroupEvaluates ==
  ASSUME GroupInv, G!latch_group_evaluate
  PROVE  GroupInv'
<1>1. /\ group \in Seq(Latches) /\ Len(group) <= MaxEntries /\ triggered_count \in 0..Len(group)
      /\ group' = group /\ latch' = latch
  BY DEF GroupInv, G!latch_group_evaluate
<1>2. /\ Len(group) \in Nat /\ DOMAIN group = 1..Len(group)
      /\ Up \in SUBSET (1..Len(group)) /\ G!TriggeredInGroup = Cardinality(Up)
      /\ G!TriggeredInGroup \in 0..Len(group)
  BY <1>1, UpCounts
<1>3. G!TriggeredInGroup' = G!TriggeredInGroup
  BY <1>1 DEF G!TriggeredInGroup, G!Triggered
<1>4. \A i \in DOMAIN group : i \in Up <=> latch'[group'[i]].state = "TRIGGERED"
  BY <1>1 DEF Up
<1>5. CASE group = <<>>
  <2>1. any_triggered' = FALSE /\ all_triggered' = FALSE /\ triggered_count' = triggered_count
    BY <1>5 DEF G!latch_group_evaluate
  <2>2. Len(group) = 0
    BY <1>1, <1>5, SeqFacts
  <2>3. triggered_count' <= G!TriggeredInGroup' /\ triggered_count' \in 0..Len(group)
    BY <1>1, <1>2, <1>3, <2>1, <2>2
  <2> QED  BY <1>1, <2>1, <2>3 DEF GroupInv, G!FlagsNeverLead
<1>6. CASE group # <<>>
  <2>1. /\ any_triggered' = (G!TriggeredInGroup > 0)
        /\ all_triggered' = (G!TriggeredInGroup = Len(group))
        /\ triggered_count' = G!TriggeredInGroup
    BY <1>6 DEF G!latch_group_evaluate, G!All
  <2>2. any_triggered' => \E i \in DOMAIN group : i \in Up
    <3>1. Cardinality({}) = 0
      BY FS_EmptySet
    <3>2. any_triggered' => G!TriggeredInGroup > 0
      BY <2>1, Zenon
    <3>3. Up # {} => \E i \in DOMAIN group : i \in Up
      BY <1>2
    <3>4. G!TriggeredInGroup > 0 => Up # {}
      <4>1. Up = {} => G!TriggeredInGroup = 0
        BY <1>2, <3>1, Zenon
      <4> QED  BY <4>1
    <3> QED  BY <3>2, <3>3, <3>4, Zenon
  <2>3. all_triggered' => \A i \in DOMAIN group : i \in Up
    <3>1. all_triggered' => G!TriggeredInGroup = Len(group)
      BY <2>1, Zenon
    <3>2. Cardinality(Up) = Len(group) => Up = DOMAIN group
      BY <1>2, PositionsCount
    <3> QED  BY <1>2, <3>1, <3>2, Zenon
  <2>4. G!FlagsNeverLead'
    <3>1. triggered_count' <= G!TriggeredInGroup'
      BY <1>2, <1>3, <2>1
    <3>2. any_triggered' => \E i \in DOMAIN group' : latch'[group'[i]].state = "TRIGGERED"
      BY <1>1, <1>4, <2>2, Zenon
    <3>3. all_triggered' => \A i \in DOMAIN group' : latch'[group'[i]].state = "TRIGGERED"
      BY <1>1, <1>4, <2>3, Zenon
    <3> QED  BY <1>1, <1>6, <3>1, <3>2, <3>3, Zenon DEF G!FlagsNeverLead, G!Triggered
  <2>5. any_triggered' \in BOOLEAN /\ all_triggered' \in BOOLEAN
    BY <1>2, <2>1
  <2>6. triggered_count' \in 0..Len(group)
    BY <1>2, <2>1
  <2> QED  BY <1>1, <2>4, <2>5, <2>6, Zenon DEF GroupInv
<1> QED  BY <1>5, <1>6

\* No step makes a group claim what is not so, or not so any more without new
\* arming (latch_group_evaluate).
LEMMA GroupStep == GroupInv /\ LatchInv /\ [G!Next]_(G!vars) => GroupInv'
<1> SUFFICES ASSUME GroupInv, LatchInv, [G!Next]_(G!vars) PROVE GroupInv'
  OBVIOUS
<1>0. group \in Seq(Latches) /\ Len(group) <= MaxEntries
  BY DEF GroupInv
<1>a. LatchInv'
  BY <1>0, LatchStep
<1>1. CASE G!latch_trigger
  <2>1. UNCHANGED G!groupVars /\ steady' = steady
    BY <1>1 DEF G!latch_trigger
  <2>2. \A l \in Latches : latch[l].state = "TRIGGERED" => latch'[l].state = "TRIGGERED"
    BY <1>1 DEF G!latch_trigger, G!Takes, LatchInv
  <2> QED  BY <1>a, <2>1, <2>2, FlagsFollow
<1>2. CASE G!latch_arm \/ G!latch_disarm
  <2>1. UNCHANGED G!groupVars /\ steady' = FALSE
    BY <1>2 DEF G!latch_arm, G!latch_disarm
  <2> QED  BY <1>a, <2>1, FlagsFollow
<1>3. CASE UNCHANGED G!vars
  <2>1. UNCHANGED G!groupVars /\ steady' = steady /\ latch' = latch
    BY <1>3 DEF G!vars, G!groupVars
  <2> QED  BY <1>a, <2>1, FlagsFollow
<1>4. CASE G!latch_group_add /\ ~UNCHANGED G!vars
  <2>1. /\ Len(group) < MaxEntries /\ steady' = FALSE
        /\ any_triggered' = any_triggered /\ all_triggered' = all_triggered
        /\ triggered_count' = triggered_count
    BY <1>4 DEF G!latch_group_add
  <2>2. PICK l \in Latches : group' = Append(group, l)
    BY <1>4 DEF G!latch_group_add
  <2>3. group' \in Seq(Latches) /\ Len(group) \in Nat /\ Len(group') = Len(group) + 1
    BY <1>0, <2>2, AppendFacts
  <2>4. G!FlagsNeverLead'
    BY <2>1 DEF G!FlagsNeverLead
  <2>5. triggered_count' \in 0..Len(group') /\ Len(group') <= MaxEntries
    BY <2>1, <2>3, MaxEntriesAssumption DEF GroupInv
  <2>6. any_triggered' \in BOOLEAN /\ all_triggered' \in BOOLEAN
    BY <2>1, Zenon DEF GroupInv
  <2> QED  BY <2>3, <2>4, <2>5, <2>6, Zenon DEF GroupInv
<1>5. CASE G!latch_group_evaluate
  BY <1>5, GroupEvaluates
<1>6. CASE G!latch_group_reset_all
  <2>1. /\ any_triggered' = FALSE /\ all_triggered' = FALSE /\ triggered_count' = 0
        /\ group' = group
    BY <1>6 DEF G!latch_group_reset_all
  <2>2. Len(group) \in Nat
    BY <1>0, SeqFacts
  <2>3. 0 <= G!TriggeredInGroup'
    <3>1. Up' \in SUBSET (1..Len(group))
      BY <1>0, <2>1, UpCounts DEF Up
    <3>2. G!TriggeredInGroup' = G!Cardinality(Up')
      BY DEF G!TriggeredInGroup, G!Triggered, Up
    <3>3. G!TriggeredInGroup' = Cardinality(Up')
      BY <3>2, SameCardinality
    <3> QED  BY <2>2, <3>1, <3>3, PositionsCount
  <2>4. G!FlagsNeverLead'
    BY <2>1, <2>3 DEF G!FlagsNeverLead
  <2>5. triggered_count' \in 0..Len(group')
    BY <2>1, <2>2
  <2> QED  BY <1>0, <2>1, <2>4, <2>5, Zenon DEF GroupInv
<1> QED  BY <1>1, <1>2, <1>3, <1>4, <1>5, <1>6, Zenon DEF G!Next

\* No latch has heard of a value at first, and the group is empty.
LEMMA LatchInit == G!Init => LatchInv /\ GroupInv
<1> SUFFICES ASSUME G!Init PROVE LatchInv /\ GroupInv
  OBVIOUS
<1>1. /\ latch = [l \in Latches |-> [state |-> "ARMED", value |-> 0, count |-> 0]]
      /\ group = <<>> /\ heard = [l \in Latches |-> <<>>]
      /\ any_triggered = FALSE /\ all_triggered = FALSE /\ triggered_count = 0
  BY DEF G!Init
<1>2. <<>> \in Seq(Offers) /\ <<>> \in Seq(Latches) /\ DOMAIN (<<>>) = {} /\ Len(<<>>) = 0
  BY EmptySeq
<1>3. latch \in [Latches -> LatchStates] /\ heard \in [Latches -> Seq(Offers)]
  BY <1>1, <1>2 DEF LatchStates
<1>4. LatchInv
  BY <1>1, <1>2, <1>3 DEF LatchInv
<1>5. G!TriggeredInGroup \in 0..Len(group)
  BY <1>1, <1>2, UpCounts
<1>6. G!FlagsNeverLead /\ triggered_count \in 0..Len(group) /\ Len(group) <= MaxEntries
  BY <1>1, <1>2, <1>5, MaxEntriesAssumption DEF G!FlagsNeverLead
<1>7. GroupInv
  BY <1>1, <1>2, <1>6, Zenon DEF GroupInv
<1> QED  BY <1>4, <1>7

\* At most the first offer was taken.
LEMMA LatchesTakeFirst == LatchInv => G!FirstValueOnly
<1> SUFFICES ASSUME LatchInv, NEW l \in Latches
             PROVE  LET T == {i \in DOMAIN heard[l] : heard[l][i].taken} IN
                    /\ G!Cardinality(T) <= 1
                    /\ G!Triggered(l) => \E i \in T : heard[l][i].value = latch[l].value
                    /\ latch[l].state = "ARMED" => heard[l] = <<>>
  BY DEF G!FirstValueOnly
<1> DEFINE T == {i \in DOMAIN heard[l] : heard[l][i].taken}
<1>1. T \in SUBSET (1..1)
  BY DEF LatchInv
<1>2. G!Cardinality(T) <= 1
  BY <1>1, PositionsCount, SameCardinality
<1>3. G!Triggered(l) => \E i \in T : heard[l][i].value = latch[l].value
  <2>1. heard[l] \in Seq(Offers)
    BY DEF LatchInv
  <2>2. heard[l] # <<>> => 1 \in DOMAIN heard[l]
    BY <2>1, SeqFacts
  <2> QED  BY <2>2 DEF LatchInv, G!Triggered
<1>4. latch[l].state = "ARMED" => heard[l] = <<>>
  BY DEF LatchInv
<1> QED  BY <1>2, <1>3, <1>4

\* A latch takes one value between armings, the first (latch_trigger, latch_arm).
THEOREM LatchesTakeOneValue == G!Spec => []G!FirstValueOnly
<1>1. G!Init => LatchInv /\ GroupInv
  BY LatchInit
<1>2. LatchInv /\ GroupInv /\ [G!Next]_(G!vars) => (LatchInv /\ GroupInv)'
  BY LatchStep, GroupStep DEF GroupInv
<1> QED  BY <1>1, <1>2, LatchesTakeFirst, PTL DEF G!Spec

\* The flags of a group never lead (latch_group_evaluate).
THEOREM GroupsNeverLead == G!Spec => []G!FlagsNeverLead
<1>1. G!Init => LatchInv /\ GroupInv
  BY LatchInit
<1>2. LatchInv /\ GroupInv /\ [G!Next]_(G!vars) => (LatchInv /\ GroupInv)'
  BY LatchStep, GroupStep DEF GroupInv
<1>3. GroupInv => G!FlagsNeverLead
  BY DEF GroupInv
<1> QED  BY <1>1, <1>2, <1>3, PTL DEF G!Spec

-----------------------------------------------------------------------------
(* The rate and the clamp.                                                 *)

Points == [kb : Sizes, time : Nat]

\* The latest samples are the two that the rate was taken from.
RateInv ==
  /\ moment \in Nat /\ latest \in Seq(Points)
  /\ \/ valid = 0 /\ latest = <<>>
     \/ valid = -1 /\ Len(latest) = 1 /\ prev = latest[1] /\ curr = latest[1]
     \/ /\ valid = 1 /\ Len(latest) = 2 /\ curr = latest[2]
        /\ rate = M!Slope(latest[1], latest[2])

\* A rate_update keeps the last two samples (rate_update).
LEMMA RateUpdates == RateInv /\ M!rate_update => RateInv'
<1> SUFFICES ASSUME RateInv, M!rate_update PROVE RateInv'
  OBVIOUS
<1>0. PICK kb \in Sizes :
        LET s == [kb |-> kb, time |-> moment] IN
        /\ M!UpdateFirst(s) \/ M!UpdateSecond(s) \/ M!UpdateNext(s)
        /\ latest' = Append(IF Len(latest) = 2 THEN Tail(latest) ELSE latest, s)
        /\ UNCHANGED moment
  BY DEF M!rate_update
<1> DEFINE s == [kb |-> kb, time |-> moment]
<1>1. /\ M!UpdateFirst(s) \/ M!UpdateSecond(s) \/ M!UpdateNext(s)
      /\ latest' = Append(IF Len(latest) = 2 THEN Tail(latest) ELSE latest, s)
      /\ moment' = moment
  BY <1>0
<1>2. s \in Points /\ latest \in Seq(Points) /\ moment \in Nat
  BY DEF RateInv, Points
<1> HIDE DEF s
<1>3. Len(latest) \in Nat /\ (latest = <<>> => Len(latest) = 0)
  BY <1>2, SeqFacts
<1>5. /\ latest' \in Seq(Points)
      /\ Len(latest) = 0 => Len(latest') = 1 /\ latest'[1] = s
      /\ Len(latest) = 1 => Len(latest') = 2 /\ latest'[1] = latest[1] /\ latest'[2] = s
      /\ Len(latest) = 2 => Len(latest') = 2 /\ latest'[1] = latest[2] /\ latest'[2] = s
  <2>1. Len(latest) = 0 \/ Len(latest) = 1 \/ Len(latest) = 2
    BY <1>3 DEF RateInv
  <2> QED  BY <1>1, <1>2, <2>1, LastTwo
<1>6. CASE M!UpdateFirst(s)
  <2>1. valid = 0 /\ prev' = s /\ curr' = s /\ valid' = -1
    BY <1>6 DEF M!UpdateFirst
  <2>2. Len(latest) = 0
    BY <1>3, <2>1 DEF RateInv
  <2> QED  BY <1>1, <1>2, <1>5, <2>1, <2>2 DEF RateInv
<1>7. CASE M!UpdateSecond(s)
  <2>1. valid = -1 /\ curr' = s /\ rate' = M!Slope(prev, s) /\ valid' = 1
    BY <1>7 DEF M!UpdateSecond
  <2>2. Len(latest) = 1 /\ prev = latest[1]
    BY <2>1 DEF RateInv
  <2>3. rate' = M!Slope(latest'[1], latest'[2])
    BY <1>5, <2>1, <2>2
  <2>4. rate' = M!Slope(latest[1], latest[2])'
    BY <2>3 DEF M!Slope, M!Flat
  <2> QED  BY <1>1, <1>2, <1>5, <2>1, <2>2, <2>4 DEF RateInv
<1>8. CASE M!UpdateNext(s)
  <2>1. valid = 1 /\ curr' = s /\ rate' = M!Slope(curr, s) /\ valid' = 1
    BY <1>8 DEF M!UpdateNext
  <2>2. Len(latest) = 2 /\ curr = latest[2]
    BY <2>1 DEF RateInv
  <2>3. rate' = M!Slope(latest'[1], latest'[2])
    BY <1>5, <2>1, <2>2
  <2>4. rate' = M!Slope(latest[1], latest[2])'
    BY <2>3 DEF M!Slope, M!Flat
  <2> QED  BY <1>1, <1>2, <1>5, <2>1, <2>2, <2>4 DEF RateInv
<1> QED  BY <1>1, <1>6, <1>7, <1>8

\* A rate that exceeds a limit was taken over some time, in which more was used.
LEMMA RateIsOfTwo == RateInv => M!RateOfLastTwo
<1> SUFFICES ASSUME RateInv PROVE M!RateOfLastTwo
  OBVIOUS
<1>0. latest \in Seq(Points)
  BY DEF RateInv
<1>1. Len(latest) \in Nat /\ (latest = <<>> => Len(latest) = 0)
  BY <1>0, SeqFacts
<1>2. M!rate_get = IF Len(latest) < 2 THEN M!Flat ELSE M!Slope(latest[1], latest[2])
  BY <1>1 DEF RateInv, M!rate_get
<1>3. ASSUME NEW limit \in Sizes, M!rate_exceeds(limit)
      PROVE  Len(latest) = 2 /\ latest[2].kb > latest[1].kb /\ latest[2].time > latest[1].time
  <2>0. limit \in Int /\ limit >= 0
    BY SizesAssumption
  <2>1. M!rate_get[1] > limit * M!rate_get[2]
    BY <1>3 DEF M!rate_exceeds
  <2>2. ~(M!Flat[1] > limit * M!Flat[2])
    BY <2>0 DEF M!Flat
  <2>3. ~(Len(latest) < 2) /\ M!rate_get = M!Slope(latest[1], latest[2])
    BY <1>2, <2>1, <2>2
  <2>4. Len(latest) = 2
    BY <1>1, <2>3 DEF RateInv
  <2> DEFINE p == latest[1]
             q == latest[2]
  <2>5. p \in Points /\ q \in Points
    <3> DEFINE n == Len(latest)
    <3>1. \A i \in 1..n : latest[i] \in Points
      BY <1>0, SeqFacts
    <3>2. n = 2
      BY <2>4
    <3> HIDE DEF n
    <3>3. 1 \in 1..n /\ 2 \in 1..n
      BY <3>2
    <3> QED  BY <3>1, <3>3
  <2> HIDE DEF p, q
  <2>6. p.kb \in Int /\ q.kb \in Int /\ p.time \in Int /\ q.time \in Int
    <3>1. p.kb \in Sizes /\ q.kb \in Sizes /\ p.time \in Nat /\ q.time \in Nat
      BY <2>5, Zenon DEF Points
    <3>2. \A x \in Sizes : x \in Int
      BY SizesAssumption
    <3>3. \A x \in Nat : x \in Int
      OBVIOUS
    <3> QED  BY <3>1, <3>2, <3>3, Zenon
  <2>7. q.time > p.time
    <3>1. ~(q.time > p.time) => M!Slope(p, q) = M!Flat
      BY DEF M!Slope
    <3> QED  BY <2>1, <2>2, <2>3, <3>1 DEF p, q
  <2>8. M!rate_get = <<q.kb - p.kb, q.time - p.time>>
    BY <2>3, <2>7 DEF M!Slope, p, q
  <2> DEFINE x == q.kb - p.kb
             y == q.time - p.time
  <2>9. x \in Int /\ y \in Int /\ y > 0 /\ x > limit * y
    BY <2>1, <2>6, <2>7, <2>8
  <2>10. limit * y >= 0
    <3> HIDE DEF x, y
    <3> QED  BY <2>0, <2>9
  <2>11. q.kb > p.kb
    <3> DEFINE z == limit * y
    <3>1. z \in Int /\ z >= 0 /\ x > z /\ x \in Int
      BY <2>0, <2>9, <2>10
    <3> HIDE DEF z
    <3> QED  BY <2>6, <3>1
  <2> QED  BY <2>4, <2>7, <2>11 DEF p, q
<1> QED  BY <1>2, <1>3, Zenon DEF M!RateOfLastTwo

\* The rate goes on being that of the last two samples.
LEMMA RateStep == RateInv /\ (M!RateNext \/ UNCHANGED M!rateVars) => RateInv'
<1> SUFFICES ASSUME RateInv, M!RateNext \/ UNCHANGED M!rateVars PROVE RateInv'
  OBVIOUS
<1>1. CASE M!rate_update
  BY <1>1, RateUpdates
<1>2. CASE M!Tick \/ UNCHANGED M!rateVars
  <2>1. UNCHANGED <<prev, curr, rate, valid, latest>> /\ moment' \in Nat
    BY <1>2 DEF M!Tick, M!rateVars, RateInv
  <2>2. M!Slope(latest[1], latest[2])' = M!Slope(latest[1], latest[2])
    BY <2>1 DEF M!Slope, M!Flat
  <2> QED  BY <2>1, <2>2 DEF RateInv
<1> QED  BY <1>1, <1>2 DEF M!RateNext

\* Between bounds in order, what comes out is within them.
ClampInv ==
  /\ min \in Sizes /\ max \in Sizes
  /\ clamped \in Nat /\ total \in Nat
  /\ M!ClampTrue

\* A clamped value is counted exactly if it is changed (clamp_apply).
LEMMA ClampApplies == ClampInv /\ M!clamp_apply => ClampInv'
<1> SUFFICES ASSUME ClampInv, M!clamp_apply PROVE ClampInv'
  OBVIOUS
<1>0. PICK v \in Sizes :
        LET o == IF v < min THEN min ELSE IF v > max THEN max ELSE v IN
        /\ total' = total + 1
        /\ clamped' = IF M!Outside(v) THEN clamped + 1 ELSE clamped
        /\ cut' = [value |-> v, result |-> o, min |-> min, max |-> max]
        /\ changed' = IF o # v THEN changed + 1 ELSE changed
        /\ UNCHANGED <<min, max>>
  BY DEF M!clamp_apply
<1> DEFINE o == IF v < min THEN min ELSE IF v > max THEN max ELSE v
<1>1. /\ v \in Int /\ min \in Int /\ max \in Int
      /\ clamped \in Nat /\ total \in Nat /\ clamped = changed
  BY SizesAssumption DEF ClampInv, M!ClampTrue
<1>2. /\ total' = total + 1 /\ min' = min /\ max' = max
      /\ clamped' = IF M!Outside(v) THEN clamped + 1 ELSE clamped
      /\ cut' = [value |-> v, result |-> o, min |-> min, max |-> max]
      /\ changed' = IF o # v THEN changed + 1 ELSE changed
  BY <1>0
<1>3. M!Outside(v) <=> o # v
  BY <1>1 DEF M!Outside
<1>4. min <= max => o \in min..max /\ (v \in min..max => o = v)
  BY <1>1
<1> HIDE DEF o
<1>5. cut'.value = v /\ cut'.result = o /\ cut'.min = min /\ cut'.max = max
  BY <1>2
<1>6. M!ClampTrue'
  BY <1>1, <1>2, <1>3, <1>4, <1>5 DEF M!ClampTrue
<1>7. clamped' \in Nat /\ total' \in Nat
  BY <1>1, <1>2
<1> QED  BY <1>2, <1>6, <1>7 DEF ClampInv

\* The smaller and the greater of two.
LEMMA OfTwo ==
  ASSUME NEW a \in Int, NEW b \in Int
  PROVE  M!Min({a, b}) \in {a, b} /\ M!Max({a, b}) \in {a, b}
<1>1. \E x \in {a, b} : \A y \in {a, b} : x <= y
  <2>1. CASE a <= b
    BY <2>1
  <2>2. CASE ~(a <= b)
    BY <2>2
  <2> QED  BY <2>1, <2>2
<1>2. \E x \in {a, b} : \A y \in {a, b} : x >= y
  <2>1. CASE a >= b
    BY <2>1
  <2>2. CASE ~(a >= b)
    BY <2>2
  <2> QED  BY <2>1, <2>2
<1>3. M!Min({a, b}) \in {a, b}
  BY <1>1, Zenon DEF M!Min
<1>4. M!Max({a, b}) \in {a, b}
  BY <1>2, Zenon DEF M!Max
<1> QED  BY <1>3, <1>4

\* The count of a clamp goes on being that of the values it changed.
LEMMA ClampStep == ClampInv /\ (M!ClampNext \/ UNCHANGED M!clampVars) => ClampInv'
<1> SUFFICES ASSUME ClampInv, M!ClampNext \/ UNCHANGED M!clampVars PROVE ClampInv'
  OBVIOUS
<1>1. CASE M!clamp_apply
  BY <1>1, ClampApplies
<1>2. CASE M!clamp_reset
  BY <1>2 DEF M!clamp_reset, ClampInv, M!ClampTrue
<1>3. CASE M!clamp_set_bounds
  <2>1. PICK a \in Sizes, b \in Sizes : min' = M!Min({a, b}) /\ max' = M!Max({a, b})
    BY <1>3 DEF M!clamp_set_bounds
  <2>2. a \in Int /\ b \in Int
    BY SizesAssumption
  <2>3. min' \in Sizes /\ max' \in Sizes
    BY <2>1, <2>2, OfTwo
  <2>4. UNCHANGED <<clamped, total, cut, changed>>
    BY <1>3 DEF M!clamp_set_bounds
  <2> QED  BY <2>3, <2>4 DEF ClampInv, M!ClampTrue
<1>4. CASE UNCHANGED M!clampVars
  BY <1>4 DEF M!clampVars, ClampInv, M!ClampTrue
<1> QED  BY <1>1, <1>2, <1>3, <1>4 DEF M!ClampNext

\* What is known of the meters.
MetersInv == RateInv /\ ClampInv

\* Rate and clamp start out with nothing (rate_init, clamp_init).
LEMMA MetersInit == M!Init => MetersInv
<1> SUFFICES ASSUME M!Init PROVE MetersInv
  OBVIOUS
<1>1. RateInv
  <2>1. <<>> \in Seq(Points)
    BY EmptySeq
  <2> QED  BY <2>1 DEF M!Init, M!rate_init, RateInv
<1>2. ClampInv
  BY DEF M!Init, M!clamp_init, M!NoCut, ClampInv, M!ClampTrue
<1> QED  BY <1>1, <1>2 DEF MetersInv

\* The other meters leave the rate and the clamp alone.
LEMMA MetersStep == MetersInv /\ [M!Next]_(M!vars) => MetersInv'
<1> SUFFICES ASSUME MetersInv, [M!Next]_(M!vars) PROVE MetersInv'
  OBVIOUS
<1>1. M!RateNext \/ UNCHANGED M!rateVars
  BY Zenon DEF M!Next, M!vars
<1>2. M!ClampNext \/ UNCHANGED M!clampVars
  BY Zenon DEF M!Next, M!vars
<1> QED  BY <1>1, <1>2, RateStep, ClampStep, Zenon DEF MetersInv

\* The rate is that of the last two samples (rate_update).
THEOREM RateIsRecent == M!Spec => []M!RateOfLastTwo
<1>1. MetersInv => M!RateOfLastTwo
  BY RateIsOfTwo DEF MetersInv
<1> QED  BY <1>1, MetersInit, MetersStep, PTL DEF M!Spec

\* A clamp counts what it changes, and cuts to its bounds (clamp_apply).
THEOREM ClampIsTrue == M!Spec => []M!ClampTrue
<1>1. MetersInv => M!ClampTrue
  BY DEF MetersInv, ClampInv
<1> QED  BY <1>1, MetersInit, MetersStep, PTL DEF M!Spec

-----------------------------------------------------------------------------
(* The pivot.                                                              *)

\* Among finitely many numbers one is the greatest: else take the least number
\* of numbers of which none is.
LEMMA HasLast ==
  ASSUME NEW n \in Nat \ {0}, NEW f \in [0..(n - 1) -> Nat]
  PROVE  \E i \in 0..(n - 1) : \A j \in 0..(n - 1) : f[j] <= f[i]
<1> DEFINE Bad(c, g) == \A i \in 0..(c - 1) : \E j \in 0..(c - 1) : ~(g[j] <= g[i])
           T == {c \in Nat : c > 0 /\ \E g \in [0..(c - 1) -> Nat] : Bad(c, g)}
<1> SUFFICES ASSUME Bad(n, f) PROVE FALSE
  OBVIOUS
<1>1. n \in T
  <2> HIDE DEF Bad
  <2>1. \E g \in [0..(n - 1) -> Nat] : Bad(n, g)
    OBVIOUS
  <2>2. n > 0
    OBVIOUS
  <2> QED  BY <2>1, <2>2
<1>2. T \subseteq Nat
  OBVIOUS
<1>3. PICK c \in T : \A b \in T : c <= b
  <2> HIDE DEF T
  <2> QED  BY <1>1, <1>2, HasFirst
<1>4. PICK g \in [0..(c - 1) -> Nat] : Bad(c, g)
  OBVIOUS
<1>5. c \in Nat /\ c > 0
  OBVIOUS
<1>6. CASE c = 1
  <2>1. 0..(c - 1) = {0} /\ g[0] <= g[0]
    BY <1>6
  <2> QED  BY <1>4, <2>1
<1>7. CASE c > 1
  <2> DEFINE b == c - 1
             h == [i \in 0..(b - 1) |-> g[i]]
  <2>1. b \in Nat /\ b > 0 /\ ~(c <= b) /\ b \in 0..(c - 1)
    BY <1>5, <1>7
  <2>2. b \notin T
    <3> HIDE DEF T, b
    <3> QED  BY <1>3, <2>1
  <2>3. \A i \in 0..(b - 1) : i \in 0..(c - 1)
    BY <1>5
  <2>4. h \in [0..(b - 1) -> Nat]
    BY <2>3
  <2>5. ~Bad(b, h)
    BY <2>1, <2>2, <2>4
  <2>6. PICK i \in 0..(b - 1) : \A j \in 0..(b - 1) : g[j] <= g[i]
    <3>1. PICK i \in 0..(b - 1) : \A j \in 0..(b - 1) : h[j] <= h[i]
      BY <2>5
    <3> QED  BY <3>1
  <2>7. /\ \A j \in 0..(c - 1) : j \in 0..(b - 1) \/ j = b
        /\ i \in 0..(c - 1)
    BY <1>5
  <2>8. g[i] \in Nat /\ g[b] \in Nat
    BY <2>1, <2>7
  <2> HIDE DEF b
  <2>9. CASE g[b] <= g[i]
    <3>1. \A j \in 0..(c - 1) : g[j] <= g[i]
      BY <2>6, <2>7, <2>9
    <3> QED  BY <1>4, <2>7, <3>1
  <2>10. CASE ~(g[b] <= g[i])
    <3>1. \A j \in 0..(c - 1) : g[j] <= g[b]
      <4> SUFFICES ASSUME NEW j \in 0..(c - 1) PROVE g[j] <= g[b]
        OBVIOUS
      <4>1. g[j] \in Nat
        OBVIOUS
      <4>2. CASE j = b
        BY <2>8, <4>2
      <4>3. CASE j \in 0..(b - 1)
        <5>1. g[j] <= g[i]
          BY <2>6, <4>3
        <5>2. \A x, y, z \in Nat : x <= y /\ ~(z <= y) => x <= z
          OBVIOUS
        <5> QED  BY <2>8, <2>10, <4>1, <5>1, <5>2
      <4> QED  BY <2>7, <4>2, <4>3
    <3> QED  BY <1>4, <2>1, <3>1
  <2> QED  BY <2>9, <2>10
<1> QED  BY <1>5, <1>6, <1>7

\* The least and the greatest of what some slots hold.
LEMMA LeastAndGreatest ==
  ASSUME NEW c \in Nat \ {0}, NEW d, \A i \in 0..(c - 1) : d[i] \in Nat,
         NEW D, D = {d[i] : i \in 0..(c - 1)}
  PROVE  /\ P!Min(D) \in D /\ P!Max(D) \in D
         /\ \A x \in D : P!Min(D) <= x /\ x <= P!Max(D)
<1> DEFINE f == [i \in 0..(c - 1) |-> d[i]]
<1>1. f \in [0..(c - 1) -> Nat] /\ \A i \in 0..(c - 1) : f[i] = d[i]
  OBVIOUS
<1> HIDE DEF f
<1>2. D \subseteq Nat
  OBVIOUS
<1>3. D # {}
  <2>1. 0 \in 0..(c - 1)
    OBVIOUS
  <2> QED  BY <2>1
<1>4. \E x \in D : \A y \in D : x <= y
  <2> HIDE DEF f
  <2> QED  BY <1>2, <1>3, HasFirst
<1>5. PICK k \in 0..(c - 1) : \A j \in 0..(c - 1) : d[j] <= d[k]
  BY <1>1, HasLast
<1>6. \E x \in D : \A y \in D : x >= y
  <2>1. d[k] \in D /\ \A y \in D : y <= d[k]
    BY <1>5
  <2>2. \A y \in D : d[k] >= y
    BY <1>2, <2>1
  <2> QED  BY <2>1, <2>2
<1>7. P!Min(D) \in D /\ \A x \in D : P!Min(D) <= x
  BY <1>4, Zenon DEF P!Min
<1>8. P!Max(D) \in D /\ \A x \in D : P!Max(D) >= x
  BY <1>6, Zenon DEF P!Max
<1>9. \A x \in D : x <= P!Max(D)
  BY <1>2, <1>8
<1> QED  BY <1>7, <1>8, <1>9

\* The pivot is freed, or keeps an open ring that shows the recent samples; the
\* band is of what the ring holds.
PivotInv ==
  /\ pivRecent \in Seq(Sizes)
  /\ \/ P!Freed /\ pivRecent = <<>>
     \/ /\ OpenRing(Sizes, pivCapacity, pivSamples, pivHead, pivCount)
        /\ pivRecent = View(pivSamples, pivCapacity,
                            First(pivCapacity, pivHead, pivCount), pivCount)
  /\ pivCount > 0 => Band(pivSamples, pivCount, upper, lower)

\* A sample is taken in (pivot_update).
LEMMA PivotUpdates == PivotInv /\ P!pivot_update => PivotInv'
<1> SUFFICES ASSUME PivotInv, P!pivot_update PROVE PivotInv'
  OBVIOUS
<1> DEFINE n == pivCapacity
           h == pivHead
           c == pivCount
           k == Pos(n, h + 1)
           b == More(n, c)
           d == pivSamples
           f == pivSamples'
           old == View(d, n, First(n, h, c), c)
           new == View(f, n, First(n, k, b), b)
<1>1. OpenRing(Sizes, n, d, h, c) /\ pivRecent = old /\ pivRecent \in Seq(Sizes)
  BY Zenon DEF PivotInv, P!pivot_update
<1>2. PICK v \in Sizes : f = [d EXCEPT ![h] = v] /\ pivRecent' = P!Kept(Append(pivRecent, v))
  BY DEF P!pivot_update
<1>3. pivHead' = k /\ pivCapacity' = n /\ pivCount' = b
  BY DEF P!pivot_update, Pos, More
<1>4. /\ OpenRing(Sizes, n, f, k, b) /\ Len(old) = c
      /\ new = IF c < n THEN Append(old, v) ELSE Append(Tail(old), v)
  <2> HIDE DEF k, b, old, new, n, h, c, d, f
  <2>1. n \in Nat \ {0} /\ d \in Ring(n, Sizes) /\ h \in 0..(n - 1)
    BY <1>1, Zenon DEF OpenRing
  <2>2. f \in Ring(n, Sizes) /\ Put(f, d, n, h, v)
    BY <1>2, <2>1, PutInRing, Zenon
  <2>3. /\ OpenRing(Sizes, n, f, Pos(n, h + 1), More(n, c))
        /\ Len(View(d, n, First(n, h, c), c)) = c
        /\ View(f, n, First(n, Pos(n, h + 1), More(n, c)), More(n, c))
              = IF c < n THEN Append(View(d, n, First(n, h, c), c), v)
                         ELSE Append(Tail(View(d, n, First(n, h, c), c)), v)
    BY <1>1, <2>2, OpenPush
  <2> QED  BY <2>3 DEF k, b, old, new
<1>5. b \in Nat \ {0} /\ b \in 1..n /\ \A i \in 0..(b - 1) : f[i] \in Nat
  <2> HIDE DEF k, old, new, d, f
  <2>1. n \in Nat \ {0} /\ c \in 0..n /\ b = IF c < n THEN c + 1 ELSE c
    BY <1>1 DEF OpenRing, More
  <2>2. f \in [0..(n - 1) -> Sizes] /\ b \in 0..n
    BY <1>4, Zenon DEF OpenRing, Ring
  <2> HIDE DEF b, n, c
  <2>3. b \in Nat \ {0} /\ b \in 1..n
    BY <2>1, <2>2
  <2>4. \A i \in 0..(b - 1) : i \in 0..(n - 1)
    BY <2>1, <2>3
  <2>5. \A i \in 0..(b - 1) : f[i] \in Sizes
    BY <2>2, <2>4
  <2> QED  BY <2>3, <2>5, SizesAssumption
<1>a. n = pivCapacity /\ f = pivSamples'
  OBVIOUS
<1> HIDE DEF old, new, k, b
<1>6. pivRecent' = new
  <2> DEFINE app == Append(pivRecent, v)
  <2>1. app \in Seq(Sizes) /\ Len(app) = c + 1
    BY <1>1, <1>4, AppendFacts
  <2>2. n \in Nat \ {0} /\ c \in 0..n
    BY <1>1, Zenon DEF OpenRing
  <2>3. P!Kept(app) = IF Len(app) > n THEN Tail(app) ELSE app
    BY DEF P!Kept
  <2> HIDE DEF app
  <2>4. CASE c < n
    <3>1. ~(Len(app) > n)
      BY <2>1, <2>2, <2>4
    <3>2. P!Kept(app) = app
      BY <2>3, <3>1, Zenon
    <3> QED  BY <1>1, <1>2, <1>4, <2>4, <3>2 DEF app
  <2>5. CASE ~(c < n)
    <3>1. Len(app) > n /\ c # 0
      BY <2>1, <2>2, <2>5
    <3>2. P!Kept(app) = Tail(app)
      BY <2>3, <3>1, Zenon
    <3>3. pivRecent # <<>>
      BY <1>1, <1>4, <3>1, EmptySeq
    <3>4. Tail(app) = Append(Tail(pivRecent), v)
      BY <1>1, <3>3, TailOfMore DEF app
    <3> QED  BY <1>1, <1>2, <1>4, <2>5, <3>2, <3>4 DEF app
  <2> QED  BY <2>4, <2>5
<1>7. pivRecent' \in Seq(Sizes)
  <2>1. First(n, k, b) \in 0..(n - 1) /\ b \in 0..n /\ n \in Nat \ {0} /\ f \in Ring(n, Sizes)
    BY <1>4, Oldest, Zenon DEF OpenRing
  <2> HIDE DEF n, f
  <2> QED  BY <1>6, <2>1, ViewIsSeq DEF new
<1>8. Band(f, b, upper', lower')
  <2> DEFINE Sc == {f[i] : i \in 0..(b - 1)}
             mn == P!Min(Sc)
             mx == P!Max(Sc)
  <2>1. upper' = (mn + mx) + (mx - mn) /\ lower' = (mn + mx) - (mx - mn)
    <3>1. P!Scanned = Sc
      BY <1>3 DEF P!Scanned
    <3> QED  BY <3>1 DEF P!pivot_update
  <2> HIDE DEF f
  <2>2. mn \in Sc /\ mx \in Sc /\ \A x \in Sc : mn <= x /\ x <= mx
    BY <1>5, LeastAndGreatest
  <2> HIDE DEF mn, mx
  <2>3. PICK i \in 0..(b - 1) : mx = f[i]
    BY <2>2
  <2>4. PICK j \in 0..(b - 1) : mn = f[j]
    BY <2>2
  <2>5. mn \in Int /\ mx \in Int
    <3>1. f[i] \in Nat /\ f[j] \in Nat
      BY <1>5
    <3> QED  BY <2>3, <2>4, <3>1
  <2>6. upper' = 2 * mx /\ lower' = 2 * mn
    BY <2>1, <2>5
  <2>7. \A q \in 0..(b - 1) : f[j] <= f[q] /\ f[q] <= f[i]
    BY <2>2, <2>3, <2>4
  <2> QED  BY <2>3, <2>4, <2>6, <2>7 DEF Band
<1>9. PivotInv'
  <2> HIDE DEF n, f
  <2>1. OpenRing(Sizes, pivCapacity', pivSamples', pivHead', pivCount')
        /\ pivRecent' = View(pivSamples', pivCapacity',
                             First(pivCapacity', pivHead', pivCount'), pivCount')
    BY <1>3, <1>4, <1>6, <1>a DEF new
  <2>2. Band(pivSamples', pivCount', upper', lower')
    BY <1>3, <1>8, <1>a
  <2> QED  BY <1>7, <2>1, <2>2, Zenon DEF PivotInv
<1> QED  BY <1>9

\* The pivot is emptied, or freed.
LEMMA PivotEmpties ==
  ASSUME pivRecent' = <<>>, pivCount' = 0,
         P!Freed' \/ OpenRing(Sizes, pivCapacity', pivSamples', pivHead', 0)
  PROVE  PivotInv'
<1>1. pivRecent' \in Seq(Sizes)
  BY EmptySeq
<1>2. ~(pivCount' > 0)
  OBVIOUS
<1>3. pivRecent' = View(pivSamples', pivCapacity',
                        First(pivCapacity', pivHead', pivCount'), pivCount')
  BY ViewNothing
<1> QED  BY <1>1, <1>2, <1>3, Zenon DEF PivotInv

\* Slots set to 0 are an open ring.
LEMMA ZeroRing ==
  ASSUME NEW n \in Nat \ {0}
  PROVE  OpenRing(Sizes, n, [i \in 0..(n - 1) |-> 0], 0, 0)
<1>1. 0 \in Sizes
  BY SizesAssumption
<1>2. 0 \in 0..(n - 1) /\ 0 \in 0..n
  OBVIOUS
<1>3. [i \in 0..(n - 1) |-> 0] \in Ring(n, Sizes)
  BY <1>1 DEF Ring
<1> QED  BY <1>2, <1>3, Zenon DEF OpenRing

\* The pivot goes on being the midpoint of the band of its last samples.
LEMMA PivotStep == PivotInv /\ [P!Next]_(P!vars) => PivotInv'
<1> SUFFICES ASSUME PivotInv, [P!Next]_(P!vars) PROVE PivotInv'
  OBVIOUS
<1>1. CASE P!pivot_update
  BY <1>1, PivotUpdates
<1>2. CASE P!pivot_reset
  <2>1. /\ pivSamples' = [i \in 0..(pivCapacity - 1) |-> 0] /\ pivCount' = 0 /\ pivHead' = 0
        /\ pivRecent' = <<>> /\ pivCapacity' = pivCapacity
    BY <1>2 DEF P!pivot_reset, P!Slots
  <2>2. pivCapacity \in Nat \ {0}
    BY <1>2, Zenon DEF P!pivot_reset, PivotInv, OpenRing
  <2> QED  BY <2>1, <2>2, ZeroRing, PivotEmpties
<1>3. CASE P!pivot_init
  <2>1. /\ pivSamples' = [i \in 0..(pivCapacity' - 1) |-> 0] /\ pivCount' = 0 /\ pivHead' = 0
        /\ pivRecent' = <<>>
    BY <1>3 DEF P!pivot_init
  <2>2. pivCapacity' \in Nat \ {0}
    BY <1>3, CapacitiesAssumption DEF P!pivot_init, P!Accepted
  <2> QED  BY <2>1, <2>2, ZeroRing, PivotEmpties
<1>4. CASE P!pivot_free
  BY <1>4, PivotEmpties DEF P!pivot_free, P!Freed
<1>5. CASE UNCHANGED P!vars
  BY <1>5 DEF P!vars, PivotInv, P!Freed
<1> QED  BY <1>1, <1>2, <1>3, <1>4, <1>5, Zenon DEF P!Next

\* A pivot starts out with no samples and no band (pivot_init).
LEMMA PivotInit == P!Init => PivotInv
<1> SUFFICES ASSUME P!Init PROVE PivotInv
  OBVIOUS
<1>1. /\ pivSamples = [i \in 0..(pivCapacity - 1) |-> 0] /\ pivCount = 0 /\ pivHead = 0
      /\ pivRecent = <<>>
  BY DEF P!Init, P!Slots
<1>2. pivCapacity \in Nat \ {0}
  BY CapacitiesAssumption DEF P!Init, P!Accepted
<1>3. OpenRing(Sizes, pivCapacity, pivSamples, pivHead, pivCount)
  BY <1>1, <1>2, ZeroRing, Zenon
<1>4. pivRecent \in Seq(Sizes) /\ ~(pivCount > 0)
  BY <1>1, EmptySeq
<1>5. pivRecent = View(pivSamples, pivCapacity, First(pivCapacity, pivHead, pivCount), pivCount)
  BY <1>1, ViewNothing
<1> QED  BY <1>3, <1>4, <1>5, Zenon DEF PivotInv

\* A value is above the band exactly when it is above all recent samples, and
\* below it when below all of them (pivot_classify).
LEMMA PivotClassifies == PivotInv => P!BandIsRange
<1> SUFFICES ASSUME PivotInv, NEW v \in Sizes
             PROVE  LET class == P!pivot_classify(v)
                        Rc    == {pivRecent[i] : i \in DOMAIN pivRecent}
                    IN /\ class = 1  <=> Len(pivRecent) >= 2 /\ \A r \in Rc : v > r
                       /\ class = -1 <=> Len(pivRecent) >= 2 /\ \A r \in Rc : v < r
  BY Zenon DEF P!BandIsRange
<1> DEFINE n == pivCapacity
           c == pivCount
           Rc == {pivRecent[i] : i \in DOMAIN pivRecent}
           t == First(n, pivHead, c)
<1>1. CASE P!Freed
  <2>1. c = 0 /\ (pivRecent = <<>> \/ (n \in Nat \ {0}))
    BY <1>1, Zenon DEF PivotInv, P!Freed, OpenRing
  <2>2. pivRecent = <<>>
    <3>1. n = 0
      BY <1>1 DEF P!Freed
    <3> QED  BY <2>1, <3>1
  <2>3. Len(pivRecent) = 0
    BY <2>2, EmptySeq
  <2>4. P!pivot_classify(v) = 0
    BY <2>1 DEF P!pivot_classify
  <2> QED  BY <2>3, <2>4
<1>2. CASE ~P!Freed
  <2>1. OpenRing(Sizes, n, pivSamples, pivHead, c) /\ pivRecent = View(pivSamples, n, t, c)
    BY <1>2, Zenon DEF PivotInv
  <2>2. n \in Nat \ {0} /\ c \in 0..n /\ pivSamples \in [0..(n - 1) -> Sizes]
    BY <2>1, Zenon DEF OpenRing, Ring
  <2>3. \A x : (\E i \in 1..c : pivRecent[i] = x) <=> (\E j \in 0..(c - 1) : pivSamples[j] = x)
    <3>1. \A x : (\E i \in 1..c : View(pivSamples, n, t, c)[i] = x)
                    <=> (\E j \in 0..(c - 1) : pivSamples[j] = x)
      <4> HIDE DEF n, c
      <4>1. \A x : (\E i \in 1..c : View(pivSamples, n, First(n, pivHead, c), c)[i] = x)
                      <=> (\E j \in 0..(c - 1) : pivSamples[j] = x)
        BY <2>1, ShownIsHeld
      <4> QED  BY <4>1
    <3> HIDE DEF t
    <3> QED  BY <2>1, <3>1
  <2>4. Len(pivRecent) = c /\ DOMAIN pivRecent = 1..c
    <3>1. t \in 0..(n - 1) /\ pivSamples \in Ring(n, Sizes)
      BY <2>1, Oldest, Zenon DEF OpenRing
    <3> HIDE DEF t, n, c
    <3>2. Len(View(pivSamples, n, t, c)) = c
      BY <2>2, <3>1, ViewIsSeq
    <3>3. DOMAIN View(pivSamples, n, t, c) = 1..c
      BY DEF View
    <3> QED  BY <2>1, <3>2, <3>3
  <2>5. \A x : x \in Rc <=> \E j \in 0..(c - 1) : pivSamples[j] = x
    <3>1. \A x : x \in Rc <=> \E i \in 1..c : pivRecent[i] = x
      BY <2>4
    <3> HIDE DEF Rc
    <3> QED  BY <2>3, <3>1
  <2> HIDE DEF Rc
  <2>6. CASE c < 2
    <3>1. P!pivot_classify(v) = 0
      BY <2>6 DEF P!pivot_classify
    <3>2. ~(c >= 2)
      BY <2>2, <2>6
    <3> QED  BY <2>4, <3>1, <3>2 DEF Rc
  <2>7. CASE ~(c < 2)
    <3>1. c >= 2 /\ c > 0
      BY <2>2, <2>7
    <3>2. PICK i, j \in 0..(c - 1) :
            /\ upper = 2 * pivSamples[i] /\ lower = 2 * pivSamples[j]
            /\ \A k \in 0..(c - 1) : pivSamples[j] <= pivSamples[k]
                                     /\ pivSamples[k] <= pivSamples[i]
      BY <3>1, Zenon DEF PivotInv, Band
    <3>3. \A k \in 0..(c - 1) : pivSamples[k] \in Nat
      <4>1. \A k \in 0..(c - 1) : k \in 0..(n - 1)
        BY <2>2
      <4> HIDE DEF n, c
      <4> QED  BY <2>2, <4>1, SizesAssumption
    <3> DEFINE hi == pivSamples[i]
               lo == pivSamples[j]
    <3>4. hi \in Nat /\ lo \in Nat /\ lo <= hi /\ v \in Nat
      BY <3>2, <3>3, SizesAssumption
    <3>5. hi \in Rc /\ lo \in Rc /\ \A x \in Rc : x \in Nat /\ lo <= x /\ x <= hi
      BY <2>5, <3>2, <3>3
    <3>6. P!pivot_classify(v) = IF 2 * v > upper THEN 1 ELSE IF 2 * v < lower THEN -1 ELSE 0
      BY <2>7 DEF P!pivot_classify
    <3>7. upper = 2 * hi /\ lower = 2 * lo
      BY <3>2
    <3> HIDE DEF hi, lo
    <3>8. P!pivot_classify(v) = IF v > hi THEN 1 ELSE IF v < lo THEN -1 ELSE 0
      BY <3>4, <3>6, <3>7
    <3>9. v > hi <=> \A r \in Rc : v > r
      BY <3>4, <3>5
    <3>10. v < lo <=> \A r \in Rc : v < r
      BY <3>4, <3>5
    <3>11. ~(v > hi /\ v < lo)
      BY <3>4
    <3>12. /\ P!pivot_classify(v) = 1 <=> v > hi
           /\ P!pivot_classify(v) = -1 <=> v < lo
      BY <3>8, <3>11
    <3> QED  BY <2>4, <3>1, <3>9, <3>10, <3>12 DEF Rc
  <2> QED  BY <2>6, <2>7
<1> QED  BY <1>1, <1>2

\* A value is classified against the recent samples and no others.
THEOREM PivotIsRecent == P!Spec => []P!BandIsRange
BY PivotInit, PivotStep, PivotClassifies, PTL DEF P!Spec

-----------------------------------------------------------------------------
(* The tracker and the epoch.                                              *)

\* A time is its seconds and the fraction.
LEMMA SecAndNsec ==
  ASSUME NEW a \in Nat
  PROVE  /\ Y!Sec(a) \in Nat /\ Y!Nsec(a) \in 0..3
         /\ a = 4 * Y!Sec(a) + Y!Nsec(a)
<1>1. Y!TicksPerMs * Y!MsPerSec = 4
  BY DEF Y!TicksPerMs, Y!MsPerSec
<1>2. a \div 4 \in Nat /\ a % 4 \in 0..3 /\ a = 4 * (a \div 4) + (a % 4)
  OBVIOUS
<1> QED  BY <1>1, <1>2 DEF Y!Sec, Y!Nsec

\* Halves of small numbers, towards 0.
LEMMA Halves ==
  ASSUME NEW d \in -3..3
  PROVE  /\ Y!Quotient(d, 2) \in -1..1
         /\ Y!Quotient(d, 2) = IF d >= 2 THEN 1 ELSE IF d <= -2 THEN -1 ELSE 0
<1>1. d \in {-3, -2, -1, 0, 1, 2, 3}
  OBVIOUS
<1>2. 0 \div 2 = 0 /\ 1 \div 2 = 0 /\ 2 \div 2 = 1 /\ 3 \div 2 = 1
  OBVIOUS
<1> QED  BY <1>1, <1>2 DEF Y!Quotient

\* A stamp is within a millisecond of the truth, and later ones are no less.
LEMMA StampFacts ==
  ASSUME NEW a \in Nat, NEW b \in Nat
  PROVE  /\ Y!timestamp_ms(a, b) \in Int
         /\ b - a - 2 < 2 * Y!timestamp_ms(a, b) /\ 2 * Y!timestamp_ms(a, b) < b - a + 2
         /\ \A c \in Nat : b <= c => Y!timestamp_ms(a, b) <= Y!timestamp_ms(a, c)
<1> DEFINE ts(x) == (Y!Sec(x) - Y!Sec(a)) * 2 + Y!Quotient(Y!Nsec(x) - Y!Nsec(a), 2)
<1>1. \A x \in Nat : Y!timestamp_ms(a, x) = ts(x)
  BY DEF Y!timestamp_ms, Y!MsPerSec, Y!TicksPerMs
<1> DEFINE q(x) == Y!Quotient(Y!Nsec(x) - Y!Nsec(a), 2)
           n(x) == Y!Nsec(x)
           s(x) == Y!Sec(x)
<1>2. ASSUME NEW x \in Nat
      PROVE  /\ q(x) \in -1..1
             /\ q(x) = IF n(x) - n(a) >= 2 THEN 1 ELSE IF n(x) - n(a) <= -2 THEN -1 ELSE 0
  <2>1. Y!Nsec(x) \in 0..3 /\ Y!Nsec(a) \in 0..3
    BY SecAndNsec
  <2>2. Y!Nsec(x) - Y!Nsec(a) \in -3..3
    BY <2>1
  <2> QED  BY <2>2, Halves
<1>3. \A x \in Nat : s(x) \in Nat /\ n(x) \in 0..3 /\ x = 4 * s(x) + n(x)
  BY SecAndNsec
<1>4. \A x \in Nat : ts(x) = (s(x) - s(a)) * 2 + q(x)
  OBVIOUS
<1> DEFINE secs == s(a)
           nsecs == n(a)
<1>a. secs \in Nat /\ nsecs \in 0..3 /\ a = 4 * secs + nsecs
  BY <1>3
<1>b. ASSUME NEW x \in Nat
      PROVE  \E k \in Nat, r \in 0..3, h \in -1..1 :
               /\ x = 4 * k + r /\ ts(x) = (k - secs) * 2 + h
               /\ h = IF r - nsecs >= 2 THEN 1 ELSE IF r - nsecs <= -2 THEN -1 ELSE 0
  BY <1>2, <1>3, <1>4
<1> HIDE DEF ts, secs, nsecs
<1>5. ts(b) \in Int /\ b - a - 2 < 2 * ts(b) /\ 2 * ts(b) < b - a + 2
  <2>1. PICK k \in Nat, r \in 0..3, h \in -1..1 :
               /\ b = 4 * k + r /\ ts(b) = (k - secs) * 2 + h
               /\ h = IF r - nsecs >= 2 THEN 1 ELSE IF r - nsecs <= -2 THEN -1 ELSE 0
    BY <1>b
  <2> QED  BY <1>a, <2>1
<1>6. ASSUME NEW c \in Nat, b <= c PROVE ts(b) <= ts(c)
  <2>1. PICK k \in Nat, r \in 0..3, h \in -1..1 :
               /\ b = 4 * k + r /\ ts(b) = (k - secs) * 2 + h
               /\ h = IF r - nsecs >= 2 THEN 1 ELSE IF r - nsecs <= -2 THEN -1 ELSE 0
    BY <1>b
  <2>2. PICK m \in Nat, p \in 0..3, g \in -1..1 :
               /\ c = 4 * m + p /\ ts(c) = (m - secs) * 2 + g
               /\ g = IF p - nsecs >= 2 THEN 1 ELSE IF p - nsecs <= -2 THEN -1 ELSE 0
    BY <1>b
  <2>3. k < m \/ (k = m /\ r <= p)
    BY <1>6, <2>1, <2>2
  <2> QED  BY <1>a, <2>1, <2>2, <2>3
<1> QED  BY <1>1, <1>5, <1>6

Lines   == {0, 2} \cup {Nothing}

Reads   == [line : Lines, time : Nat]

\* Every snapshot is stamped with the time at which it was read, and they were
\* read one after the other.
TrackerInv ==
  /\ clock \in Nat /\ start_time \in Nat /\ start_time <= clock
  /\ snapshots \in Seq(Stamped) /\ found \in Seq(Reads) /\ Len(found) = Len(snapshots)
  /\ \A i \in 1..Len(snapshots) :
       /\ found[i].time <= clock
       /\ snapshots[i].timestamp_ms = Y!timestamp_ms(start_time, found[i].time)
  /\ \A i, j \in 1..Len(snapshots) : i <= j => found[i].time <= found[j].time

\* Such stamps are close, and never decrease.
LEMMA TrackerStamps == TrackerInv => Y!StampsAreClose
<1> SUFFICES ASSUME TrackerInv, NEW i \in DOMAIN snapshots
             PROVE  LET true_ticks == found[i].time - start_time
                        ticks      == Y!TicksPerMs * snapshots[i].timestamp_ms
                    IN  /\ true_ticks - Y!TicksPerMs < ticks
                        /\ ticks < true_ticks + Y!TicksPerMs
                        /\ i > 1 => snapshots[i - 1].timestamp_ms <= snapshots[i].timestamp_ms
  BY Zenon DEF Y!StampsAreClose
<1> DEFINE l == Len(snapshots)
<1>1. l \in Nat /\ DOMAIN snapshots = 1..l /\ Len(found) = l /\ found \in Seq(Reads)
  BY SeqFacts DEF TrackerInv
<1>2. \A k \in 1..l : found[k] \in Reads
  BY <1>1, SeqFacts
<1>3. \A k \in 1..l : found[k].time \in Nat
  BY <1>2 DEF Reads
<1>4. /\ \A k \in 1..l : snapshots[k].timestamp_ms = Y!timestamp_ms(start_time, found[k].time)
      /\ \A k, j \in 1..l : k <= j => found[k].time <= found[j].time
      /\ start_time \in Nat
  BY DEF TrackerInv
<1> HIDE DEF l
<1>5. i \in 1..l
  BY <1>1
<1> DEFINE now == found[i].time
           ts == snapshots[i].timestamp_ms
<1>6. now \in Nat /\ ts = Y!timestamp_ms(start_time, now)
  BY <1>3, <1>4, <1>5
<1>7. now - start_time - 2 < 2 * ts /\ 2 * ts < now - start_time + 2
  BY <1>4, <1>6, StampFacts
<1>8. i > 1 => snapshots[i - 1].timestamp_ms <= ts
  <2> SUFFICES ASSUME i > 1 PROVE snapshots[i - 1].timestamp_ms <= ts
    OBVIOUS
  <2> DEFINE j == i - 1
             past == found[j].time
  <2>1. j \in 1..l /\ j <= i
    BY <1>1, <1>5
  <2> HIDE DEF j
  <2>2. past \in Nat /\ past <= now /\ snapshots[j].timestamp_ms = Y!timestamp_ms(start_time, past)
    BY <1>3, <1>4, <1>5, <2>1
  <2> HIDE DEF past, now, ts
  <2>3. snapshots[j].timestamp_ms <= ts
    BY <1>4, <1>6, <2>2, StampFacts
  <2> QED  BY <2>3 DEF j
<1>9. Y!TicksPerMs = 2
  BY DEF Y!TicksPerMs
<1> QED  BY <1>7, <1>8, <1>9

\* A process is read (tracker_collect).
LEMMA TrackerCollects == TrackerInv /\ Y!tracker_collect => TrackerInv'
<1> SUFFICES ASSUME TrackerInv, Y!tracker_collect PROVE TrackerInv'
  OBVIOUS
<1>1. PICK status \in Y!Statuses :
        /\ Y!procmem_succeeds(status)
        /\ snapshots' = Append(snapshots, [rss_kb |-> Y!procmem_read(status)["vm_rss_kb"],
                                           timestamp_ms |-> Y!timestamp_ms(start_time, clock)])
        /\ found' = Append(found, [line |-> status["vm_rss_kb"], time |-> clock])
  BY DEF Y!tracker_collect
<1> DEFINE kb == Y!procmem_read(status)["vm_rss_kb"]
           ln == status["vm_rss_kb"]
           ts == Y!timestamp_ms(start_time, clock)
           s  == [rss_kb |-> kb, timestamp_ms |-> ts]
           f  == [line |-> ln, time |-> clock]
           l  == Len(snapshots)
<1>2. /\ clock' = clock /\ start_time' = start_time /\ clock \in Nat /\ start_time \in Nat
      /\ start_time <= clock
  BY DEF Y!tracker_collect, TrackerInv
<1>3. status \in [Y!Fields -> {0, 2} \cup {Nothing}]
  BY <1>1 DEF Y!Statuses, Y!procmem_succeeds
<1>4. "vm_rss_kb" \in Y!Fields
  BY DEF Y!Fields
<1>5. kb \in {0, 2} /\ ln \in Lines
  BY <1>3, <1>4 DEF Y!procmem_read, Lines
<1>6. ts \in Int
  BY <1>2, StampFacts
<1> HIDE DEF kb, ln, ts
<1>7. s \in Stamped /\ f \in Reads /\ s.timestamp_ms = ts /\ f.time = clock
  BY <1>2, <1>5, <1>6 DEF Stamped, Reads
<1>8. snapshots' = Append(snapshots, s) /\ found' = Append(found, f)
  BY <1>1 DEF kb, ln, ts
<1>9. snapshots \in Seq(Stamped) /\ found \in Seq(Reads) /\ Len(found) = l
  BY DEF TrackerInv
<1>a. \A i \in 1..l : found[i].time <= clock
                      /\ snapshots[i].timestamp_ms = Y!timestamp_ms(start_time, found[i].time)
  BY DEF TrackerInv
<1>b. \A i, j \in 1..l : i <= j => found[i].time <= found[j].time
  BY DEF TrackerInv
<1> HIDE DEF s, f
<1>10. /\ snapshots' \in Seq(Stamped) /\ Len(snapshots') = l + 1 /\ snapshots'[l + 1] = s
       /\ l \in Nat /\ \A i \in 1..l : snapshots'[i] = snapshots[i]
  BY <1>7, <1>8, <1>9, AppendFacts
<1>11. /\ found' \in Seq(Reads) /\ Len(found') = l + 1 /\ found'[l + 1] = f
       /\ \A i \in 1..l : found'[i] = found[i]
  <2> DEFINE m == Len(found)
  <2>1. /\ found' \in Seq(Reads) /\ Len(found') = m + 1 /\ found'[m + 1] = f
        /\ \A i \in 1..m : found'[i] = found[i]
    BY <1>7, <1>8, <1>9, AppendFacts
  <2> QED  BY <1>9, <2>1
<1> HIDE DEF l
<1>12. \A i \in 1..(l + 1) : i \in 1..l \/ i = l + 1
  BY <1>10
<1>13. ASSUME NEW i \in 1..(l + 1)
       PROVE  /\ found'[i].time <= clock
              /\ snapshots'[i].timestamp_ms = Y!timestamp_ms(start_time, found'[i].time)
  <2>1. CASE i \in 1..l
    BY <1>10, <1>11, <1>a, <2>1
  <2>2. CASE i = l + 1
    <3>1. found'[i].time = clock /\ snapshots'[i].timestamp_ms = ts
      BY <1>7, <1>10, <1>11, <2>2
    <3> QED  BY <1>2, <3>1 DEF ts
  <2> QED  BY <1>12, <2>1, <2>2
<1>14. ASSUME NEW i \in 1..(l + 1), NEW j \in 1..(l + 1), i <= j
       PROVE  found'[i].time <= found'[j].time
  <2>1. CASE j \in 1..l
    <3>1. i \in 1..l
      BY <1>10, <1>14, <2>1
    <3> QED  BY <1>11, <1>14, <1>b, <2>1, <3>1
  <2>2. CASE j = l + 1
    <3>1. found'[j].time = clock
      BY <1>7, <1>11, <2>2
    <3> QED  BY <1>13, <3>1
  <2> QED  BY <1>12, <2>1, <2>2
<1> QED  BY <1>2, <1>10, <1>11, <1>13, <1>14 DEF TrackerInv

\* The tracker starts over, or is freed.
LEMMA TrackerEmpties ==
  ASSUME snapshots' = <<>>, found' = <<>>, clock' \in Nat, start_time' \in Nat,
         start_time' <= clock'
  PROVE  TrackerInv'
<1>1. snapshots' \in Seq(Stamped) /\ found' \in Seq(Reads) /\ Len(snapshots') = 0 /\ Len(found') = 0
  BY EmptySeq
<1>2. \A i \in 1..Len(snapshots') : FALSE
  BY <1>1
<1> QED  BY <1>1, <1>2 DEF TrackerInv

\* Every step keeps the stamps those of the times of reading.
LEMMA TrackerStep == TrackerInv /\ [Y!Next]_(Y!vars) => TrackerInv'
<1> SUFFICES ASSUME TrackerInv, [Y!Next]_(Y!vars) PROVE TrackerInv'
  OBVIOUS
<1>1. CASE Y!tracker_collect
  BY <1>1, TrackerCollects
<1>2. CASE Y!tracker_init
  BY <1>2, TrackerEmpties DEF Y!tracker_init, TrackerInv
<1>3. CASE Y!tracker_free
  BY <1>3, TrackerEmpties DEF Y!tracker_free, TrackerInv
<1>4. CASE UNCHANGED <<snapshots, start_time, found>> /\ (clock' = clock \/ clock' = clock + 1)
  <2>1. clock' \in Nat /\ clock <= clock' /\ clock \in Nat
    BY <1>4 DEF TrackerInv
  <2>2. start_time' <= clock'
    BY <1>4, <2>1 DEF TrackerInv
  <2>3. \A i \in 1..Len(snapshots) : found[i].time <= clock'
    <3> SUFFICES ASSUME NEW i \in 1..Len(snapshots) PROVE found[i].time <= clock'
      OBVIOUS
    <3>1. found[i] \in Reads /\ found[i].time <= clock
      BY SeqFacts DEF TrackerInv
    <3>2. found[i].time \in Nat
      BY <3>1 DEF Reads
    <3> QED  BY <2>1, <3>1, <3>2
  <2>4. snapshots' = snapshots /\ start_time' = start_time /\ found' = found
    BY <1>4
  <2>5. \A i \in 1..Len(snapshots) :
          snapshots[i].timestamp_ms = Y!timestamp_ms(start_time', found'[i].time)
    BY <2>4 DEF TrackerInv
  <2> QED  BY <2>1, <2>2, <2>3, <2>4, <2>5 DEF TrackerInv
<1>5. CASE Y!EpochNext
  <2>1. UNCHANGED <<snapshots, start_time, found>> /\ (clock' = clock \/ clock' = clock + 1)
    BY <1>5 DEF Y!EpochNext, Y!epoch_open, Y!epoch_close, Y!epoch_record, Y!epoch_reset, Y!Elapse,
                Y!trackerVars
  <2> QED  BY <1>4, <2>1
<1>6. CASE Y!Elapse \/ UNCHANGED Y!vars
  <2>1. UNCHANGED <<snapshots, start_time, found>> /\ (clock' = clock \/ clock' = clock + 1)
    BY <1>6 DEF Y!Elapse, Y!trackerVars, Y!vars
  <2> QED  BY <1>4, <2>1
<1> QED  BY <1>1, <1>2, <1>3, <1>5, <1>6 DEF Y!Next, Y!TrackerNext

\* A tracker starts out with no snapshots (tracker_init).
LEMMA TrackerInit == Y!Init => TrackerInv
<1> SUFFICES ASSUME Y!Init PROVE TrackerInv
  OBVIOUS
<1>1. clock \in Nat /\ start_time = clock /\ snapshots = <<>> /\ found = <<>>
  BY DEF Y!Init, Y!TicksPerMs, Y!MsPerSec
<1>2. snapshots \in Seq(Stamped) /\ found \in Seq(Reads) /\ Len(snapshots) = 0 /\ Len(found) = 0
  BY <1>1, EmptySeq
<1>3. \A i \in 1..Len(snapshots) : FALSE
  BY <1>2
<1> QED  BY <1>1, <1>2, <1>3 DEF TrackerInv

\* The difference of two times, in milliseconds (timespec_diff_ms).
LEMMA DiffIsElapsed ==
  ASSUME NEW a \in Nat, NEW b \in Nat, a <= b
  PROVE  Y!timespec_diff_ms(a, b) = (b - a) \div 2
<1> DEFINE borrow == IF Y!Nsec(b) < Y!Nsec(a) THEN 1 ELSE 0
           sec    == Y!Sec(b) - Y!Sec(a) - borrow
           nsec   == Y!Nsec(b) - Y!Nsec(a) + borrow * Y!TicksPerMs * Y!MsPerSec
           sa == Y!Sec(a)
           na == Y!Nsec(a)
           sb == Y!Sec(b)
           nb == Y!Nsec(b)
<1>1. Y!timespec_diff_ms(a, b) = IF sec < 0 THEN 0 ELSE sec * Y!MsPerSec + nsec \div Y!TicksPerMs
  BY DEF Y!timespec_diff_ms
<1>2. Y!MsPerSec = 2 /\ Y!TicksPerMs = 2
  BY DEF Y!MsPerSec, Y!TicksPerMs
<1>3. /\ sa \in Nat /\ na \in 0..3 /\ a = 4 * sa + na
      /\ sb \in Nat /\ nb \in 0..3 /\ b = 4 * sb + nb
  BY SecAndNsec
<1>4. /\ borrow = IF nb < na THEN 1 ELSE 0
      /\ nsec = nb - na + 4 * borrow /\ sec = sb - sa - borrow
  <2>1. borrow \in {0, 1}
    OBVIOUS
  <2> HIDE DEF borrow
  <2>2. borrow * Y!TicksPerMs * Y!MsPerSec = 4 * borrow
    BY <1>2, <2>1
  <2>3. nsec = nb - na + 4 * borrow /\ sec = sb - sa - borrow
    BY <2>2
  <2> QED  BY <2>3 DEF borrow
<1>5. sec \in Int /\ nsec \in 0..3 /\ b - a = 4 * sec + nsec /\ sec >= 0
  <2> HIDE DEF sec, nsec, borrow, sa, na, sb, nb
  <2>1. CASE nb < na
    <3>1. borrow = 1
      BY <1>4, <2>1
    <3> QED  BY <1>3, <1>4, <2>1, <3>1
  <2>2. CASE ~(nb < na)
    <3>1. borrow = 0
      BY <1>4, <2>2
    <3> QED  BY <1>3, <1>4, <2>2, <3>1
  <2> QED  BY <2>1, <2>2
<1>6. Y!timespec_diff_ms(a, b) = sec * 2 + nsec \div 2
  BY <1>1, <1>2, <1>5
<1> HIDE DEF sec, nsec
<1>7. (4 * sec + nsec) \div 2 = sec * 2 + nsec \div 2
  BY <1>5
<1> QED  BY <1>5, <1>6, <1>7

\* The epoch's times are those of its last opening and closing.
EpochInv ==
  /\ clock \in Nat /\ opened \in Nat /\ closed \in Nat
  /\ opened = began /\ closed = ended
  /\ began <= clock /\ (ended # 0 => began <= ended)

\* What an epoch says has elapsed is true to less than a millisecond.
LEMMA EpochElapses == EpochInv => Y!ElapsedIsTrue
<1> SUFFICES ASSUME EpochInv PROVE Y!ElapsedIsTrue
  OBVIOUS
<1> DEFINE to == IF ended = 0 THEN clock ELSE ended
<1>1. Y!epoch_is_open <=> ended = 0
  BY DEF Y!epoch_is_open, EpochInv
<1>2. Y!epoch_elapsed_ms = Y!timespec_diff_ms(opened, IF Y!epoch_is_open THEN clock ELSE closed)
  BY DEF Y!epoch_elapsed_ms
<1>3. to = IF Y!epoch_is_open THEN clock ELSE closed
  BY <1>1 DEF EpochInv
<1>4. to \in Nat /\ began <= to /\ began \in Nat
  BY DEF EpochInv
<1>5. opened = began
  BY DEF EpochInv
<1> HIDE DEF to
<1>6. Y!epoch_elapsed_ms = (to - began) \div 2
  BY <1>2, <1>3, <1>4, <1>5, DiffIsElapsed
<1>7. Y!TicksPerMs = 2
  BY DEF Y!TicksPerMs
<1> QED  BY <1>1, <1>6, <1>7 DEF Y!ElapsedIsTrue, to

\* An epoch goes on knowing when it began and ended.
LEMMA EpochStep == EpochInv /\ [Y!Next]_(Y!vars) => EpochInv'
<1> SUFFICES ASSUME EpochInv, [Y!Next]_(Y!vars) PROVE EpochInv'
  OBVIOUS
<1>1. CASE Y!epoch_open
  BY <1>1 DEF Y!epoch_open, EpochInv
<1>2. CASE Y!epoch_close
  BY <1>2 DEF Y!epoch_close, EpochInv
<1>3. CASE Y!epoch_reset
  BY <1>3 DEF Y!epoch_reset, EpochInv
<1>4. CASE UNCHANGED <<opened, closed, began, ended>> /\ (clock' = clock \/ clock' = clock + 1)
  BY <1>4 DEF EpochInv
<1>5. CASE Y!epoch_record \/ Y!Elapse \/ UNCHANGED Y!vars
  BY <1>4, <1>5 DEF Y!epoch_record, Y!Elapse, Y!epochVars, Y!vars
<1>6. CASE Y!tracker_init \/ Y!tracker_collect \/ Y!tracker_free
  BY <1>4, <1>6 DEF Y!tracker_init, Y!tracker_collect, Y!tracker_free, Y!epochVars
<1> QED  BY <1>1, <1>2, <1>3, <1>5, <1>6 DEF Y!Next, Y!TrackerNext, Y!EpochNext

\* No epoch has begun at first.
LEMMA EpochInit == Y!Init => EpochInv
BY DEF Y!Init, Y!TicksPerMs, Y!MsPerSec, EpochInv

\* Stamps are close to the truth, and epochs as long as they lasted.
THEOREM TimesAreTrue == Y!Spec => []Y!StampsAreClose /\ []Y!ElapsedIsTrue
BY TrackerInit, TrackerStep, TrackerStamps, EpochInit, EpochStep, EpochElapses, PTL DEF Y!Spec

-----------------------------------------------------------------------------
(* The filter and chains of filters.                                       *)

Flags    == F!BoundFlags \cup {F!NAME_SUBSTR}

SubNames == Substrings \cup {Empty}

Filters == [flags : SUBSET Flags, bound : [F!BoundFlags -> Int], name_substr : SubNames]

Calls == UNION {[D -> Bounds \cup SubNames] : D \in SUBSET Flags}

Bounded(f, flag) == IF flag = F!NAME_SUBSTR THEN f.name_substr ELSE f.bound[flag]

\* A flag is not set, and no call has set it, or it is as the last call set it.
FlagInv(f, cs, flag) ==
  \/ flag \notin f.flags /\ Setting(cs, flag) = {}
  \/ flag \in f.flags /\ LastSet(cs, flag, Bounded(f, flag))

FilterInv ==
  /\ filter \in Filters /\ calls \in Seq(Calls)
  /\ \A flag \in Flags : FlagInv(filter, calls, flag)

\* A call is the last that sets what it sets, and lets alone the rest.
LEMMA CallSets ==
  ASSUME NEW cs \in Seq(Calls), NEW e \in Calls, NEW flag \in Flags
  PROVE  /\ flag \in DOMAIN e /\ e[flag] # -1 => LastSet(Append(cs, e), flag, e[flag])
         /\ ~(flag \in DOMAIN e /\ e[flag] # -1) =>
              /\ Setting(cs, flag) = {} => Setting(Append(cs, e), flag) = {}
              /\ \A v : LastSet(cs, flag, v) => LastSet(Append(cs, e), flag, v)
<1> DEFINE l  == Len(cs)
           ds == Append(cs, e)
<1>1. /\ l \in Nat /\ Len(ds) = l + 1 /\ ds[l + 1] = e
      /\ \A i \in 1..l : ds[i] = cs[i]
  BY AppendFacts
<1> HIDE DEF ds
<1>2. Setting(cs, flag) = {i \in 1..l : flag \in DOMAIN cs[i] /\ cs[i][flag] # -1}
  BY DEF Setting
<1>3. Setting(ds, flag) = {i \in 1..(l + 1) : flag \in DOMAIN ds[i] /\ ds[i][flag] # -1}
  BY <1>1 DEF Setting
<1> HIDE DEF l
<1>4. \A i : i \in 1..(l + 1) <=> i \in 1..l \/ i = l + 1
  BY <1>1
<1>5. ASSUME flag \in DOMAIN e, e[flag] # -1 PROVE LastSet(ds, flag, e[flag])
  <2>1. l + 1 \in Setting(ds, flag) /\ ds[l + 1][flag] = e[flag]
    BY <1>1, <1>3, <1>4, <1>5
  <2>2. \A j \in Setting(ds, flag) : j <= l + 1
    BY <1>1, <1>3
  <2> QED  BY <2>1, <2>2, Zenon DEF LastSet
<1>6. ASSUME ~(flag \in DOMAIN e /\ e[flag] # -1)
      PROVE  /\ Setting(ds, flag) = Setting(cs, flag)
             /\ \A i \in Setting(cs, flag) : ds[i] = cs[i]
  <2>1. \A i \in Setting(cs, flag) : i \in 1..l /\ ds[i] = cs[i]
    BY <1>1, <1>2
  <2>2. l + 1 \notin Setting(ds, flag)
    BY <1>1, <1>3, <1>6
  <2>3. \A i : i \in Setting(ds, flag) <=> i \in Setting(cs, flag)
    BY <1>1, <1>2, <1>3, <1>4, <2>2
  <2> QED  BY <2>1, <2>3
<1>7. ASSUME ~(flag \in DOMAIN e /\ e[flag] # -1), NEW v, LastSet(cs, flag, v)
      PROVE  LastSet(ds, flag, v)
  BY <1>6, <1>7, Zenon DEF LastSet
<1> QED  BY <1>5, <1>6, <1>7, Zenon DEF ds

\* One bound, given to a filter (filter_set_rss, filter_set_vsz).
LEMMA BoundFacts ==
  ASSUME NEW f \in Filters, NEW flag \in F!BoundFlags, NEW kb \in Bounds
  PROVE  /\ F!Bound(f, flag, kb) \in Filters
         /\ kb # -1 => flag \in F!Bound(f, flag, kb).flags
                       /\ Bounded(F!Bound(f, flag, kb), flag) = kb
         /\ kb = -1 => F!Bound(f, flag, kb) = f
         /\ \A other \in Flags : other # flag =>
              /\ other \in F!Bound(f, flag, kb).flags <=> other \in f.flags
              /\ Bounded(F!Bound(f, flag, kb), other) = Bounded(f, other)
<1>1. kb \in Int /\ (kb >= 0 <=> kb # -1)
  BY BoundsAssumption
<1>2. CASE kb = -1
  <2>1. F!Bound(f, flag, kb) = f
    BY <1>1, <1>2 DEF F!Bound
  <2> QED  BY <1>2, <2>1, Zenon
<1>3. CASE kb # -1
  <2> DEFINE g == F!Bound(f, flag, kb)
  <2>1. g = [f EXCEPT !.flags = f.flags \cup {flag}, !.bound = [f.bound EXCEPT ![flag] = kb]]
    BY <1>1, <1>3 DEF F!Bound
  <2>2. f.flags \in SUBSET Flags /\ f.bound \in [F!BoundFlags -> Int] /\ f.name_substr \in SubNames
    BY DEF Filters
  <2> DEFINE fs == f.flags \cup {flag}
             bs == [f.bound EXCEPT ![flag] = kb]
  <2>3. /\ fs \in SUBSET Flags /\ bs \in [F!BoundFlags -> Int] /\ bs[flag] = kb
        /\ \A other \in F!BoundFlags : other # flag => bs[other] = f.bound[other]
    BY <1>1, <2>2 DEF Flags
  <2> HIDE DEF fs, bs, g
  <2>4. g \in Filters /\ g.flags = fs /\ g.bound = bs /\ g.name_substr = f.name_substr
    BY <2>1, <2>2, <2>3 DEF Filters, fs, bs
  <2>5. flag # F!NAME_SUBSTR
    BY DEF F!BoundFlags, F!NAME_SUBSTR, F!MIN_RSS, F!MAX_RSS, F!MIN_VSZ, F!MAX_VSZ
  <2>6. Bounded(g, flag) = kb
    BY <2>3, <2>4, <2>5 DEF Bounded
  <2>7. ASSUME NEW other \in Flags, other # flag
        PROVE  (other \in g.flags <=> other \in f.flags) /\ Bounded(g, other) = Bounded(f, other)
    <3>1. other \in F!BoundFlags \/ other = F!NAME_SUBSTR
      BY DEF Flags
    <3> QED  BY <2>3, <2>4, <2>7, <3>1 DEF Bounded, fs
  <2> QED  BY <1>3, <2>4, <2>6, <2>7 DEF fs, g
<1> QED  BY <1>2, <1>3

\* A range is given: two bounds in one call (filter_set_rss, filter_set_vsz).
LEMMA RangeSets ==
  ASSUME FilterInv, NEW a \in F!BoundFlags, NEW b \in F!BoundFlags, a # b, F!SetRange(a, b)
  PROVE  FilterInv'
<1>1. PICK x \in Bounds, y \in Bounds :
        /\ filter' = F!Bound(F!Bound(filter, a, x), b, y)
        /\ calls' = Append(calls, [flag \in {a, b} |-> IF flag = a THEN x ELSE y])
  BY DEF F!SetRange
<1> DEFINE e == [flag \in {a, b} |-> IF flag = a THEN x ELSE y]
           f == F!Bound(filter, a, x)
           g == F!Bound(f, b, y)
<1>2. filter \in Filters /\ calls \in Seq(Calls)
  BY DEF FilterInv
<1>3. e \in Calls /\ DOMAIN e = {a, b} /\ e[a] = x /\ e[b] = y
  <2>1. {a, b} \in SUBSET Flags
    BY DEF Flags
  <2>2. e \in [{a, b} -> Bounds \cup SubNames]
    OBVIOUS
  <2> QED  BY <2>1, <2>2 DEF Calls
<1>4. /\ f \in Filters
      /\ x # -1 => a \in f.flags /\ Bounded(f, a) = x
      /\ x = -1 => f = filter
      /\ \A other \in Flags : other # a =>
           /\ other \in f.flags <=> other \in filter.flags
           /\ Bounded(f, other) = Bounded(filter, other)
  BY <1>2, BoundFacts
<1> HIDE DEF f
<1>5. /\ g \in Filters
      /\ y # -1 => b \in g.flags /\ Bounded(g, b) = y
      /\ y = -1 => g = f
      /\ \A other \in Flags : other # b =>
           /\ other \in g.flags <=> other \in f.flags
           /\ Bounded(g, other) = Bounded(f, other)
  BY <1>4, BoundFacts
<1> HIDE DEF g, e
<1>6. filter' = g /\ calls' = Append(calls, e)
  BY <1>1 DEF e, f, g
<1>7. a \in Flags /\ b \in Flags
  BY DEF Flags
<1>8. ASSUME NEW flag \in Flags PROVE FlagInv(g, Append(calls, e), flag)
  <2>1. /\ flag \in DOMAIN e /\ e[flag] # -1 => LastSet(Append(calls, e), flag, e[flag])
        /\ ~(flag \in DOMAIN e /\ e[flag] # -1) =>
             /\ Setting(calls, flag) = {} => Setting(Append(calls, e), flag) = {}
             /\ \A v : LastSet(calls, flag, v) => LastSet(Append(calls, e), flag, v)
    BY <1>2, <1>3, CallSets, Zenon
  <2>2. FlagInv(filter, calls, flag)
    BY DEF FilterInv
  <2>3. CASE flag \in DOMAIN e /\ e[flag] # -1
    <3>1. flag \in g.flags /\ Bounded(g, flag) = e[flag]
      <4>1. CASE flag = b
        BY <1>3, <1>5, <2>3, <4>1
      <4>2. CASE flag # b
        <5>1. flag = a /\ x # -1
          BY <1>3, <2>3, <4>2
        <5>2. a \in f.flags /\ Bounded(f, a) = x
          BY <1>4, <5>1
        <5> QED  BY <1>3, <1>5, <1>7, <4>2, <5>1, <5>2
      <4> QED  BY <4>1, <4>2
    <3> QED  BY <2>1, <2>3, <3>1 DEF FlagInv
  <2>4. CASE ~(flag \in DOMAIN e /\ e[flag] # -1)
    <3>1. (flag \in g.flags <=> flag \in filter.flags) /\ Bounded(g, flag) = Bounded(filter, flag)
      <4>1. (flag \in f.flags <=> flag \in filter.flags) /\ Bounded(f, flag) = Bounded(filter, flag)
        <5>1. CASE flag = a
          BY <1>3, <1>4, <2>4, <5>1
        <5>2. CASE flag # a
          BY <1>4, <5>2
        <5> QED  BY <5>1, <5>2
      <4>2. (flag \in g.flags <=> flag \in f.flags) /\ Bounded(g, flag) = Bounded(f, flag)
        <5>1. CASE flag = b
          BY <1>3, <1>5, <2>4, <5>1
        <5>2. CASE flag # b
          BY <1>5, <5>2
        <5> QED  BY <5>1, <5>2
      <4> QED  BY <4>1, <4>2
    <3> QED  BY <2>1, <2>2, <2>4, <3>1 DEF FlagInv
  <2> QED  BY <2>3, <2>4
<1>9. Append(calls, e) \in Seq(Calls)
  BY <1>2, <1>3, AppendFacts
<1> QED  BY <1>5, <1>6, <1>8, <1>9 DEF FilterInv

\* A name is given (filter_set_name).
LEMMA NameSets == FilterInv /\ F!filter_set_name => FilterInv'
<1> SUFFICES ASSUME FilterInv, F!filter_set_name PROVE FilterInv'
  OBVIOUS
<1>1. PICK name \in SubNames :
        /\ filter' = [filter EXCEPT !.name_substr = name, !.flags = @ \cup {F!NAME_SUBSTR}]
        /\ calls' = Append(calls, [flag \in {F!NAME_SUBSTR} |-> name])
  BY DEF F!filter_set_name, SubNames
<1> DEFINE e == [flag \in {F!NAME_SUBSTR} |-> name]
           n == F!NAME_SUBSTR
           fs == filter.flags \cup {n}
<1>2. filter \in Filters /\ calls \in Seq(Calls)
  BY DEF FilterInv
<1>3. e \in Calls /\ DOMAIN e = {n} /\ e[n] = name /\ name # -1 /\ n \in Flags
  <2>1. {n} \in SUBSET Flags
    BY DEF Flags
  <2>2. e \in [{n} -> Bounds \cup SubNames]
    OBVIOUS
  <2>3. name # -1
    BY SubstringsAssumption DEF SubNames
  <2> QED  BY <2>1, <2>2, <2>3 DEF Calls
<1>4. /\ filter' \in Filters /\ filter'.flags = fs /\ filter'.name_substr = name
      /\ filter'.bound = filter.bound
  <2>1. fs \in SUBSET Flags
    BY <1>2, <1>3 DEF Filters
  <2>2. filter' = [filter EXCEPT !.name_substr = name, !.flags = fs]
    BY <1>1
  <2> HIDE DEF fs
  <2> QED  BY <1>2, <2>1, <2>2 DEF Filters
<1> HIDE DEF e, n
<1>5. calls' = Append(calls, e)
  BY <1>1 DEF e
<1>6. ASSUME NEW flag \in Flags PROVE FlagInv(filter', Append(calls, e), flag)
  <2>1. /\ flag \in DOMAIN e /\ e[flag] # -1 => LastSet(Append(calls, e), flag, e[flag])
        /\ ~(flag \in DOMAIN e /\ e[flag] # -1) =>
             /\ Setting(calls, flag) = {} => Setting(Append(calls, e), flag) = {}
             /\ \A v : LastSet(calls, flag, v) => LastSet(Append(calls, e), flag, v)
    BY <1>2, <1>3, CallSets, Zenon
  <2>2. FlagInv(filter, calls, flag)
    BY DEF FilterInv
  <2>3. CASE flag = n
    <3>1. flag \in filter'.flags /\ Bounded(filter', flag) = name
      BY <1>4, <2>3 DEF Bounded, n
    <3> QED  BY <1>3, <2>1, <2>3, <3>1 DEF FlagInv
  <2>4. CASE flag # n
    <3>1. (flag \in filter'.flags <=> flag \in filter.flags)
          /\ Bounded(filter', flag) = Bounded(filter, flag)
      BY <1>4, <2>4 DEF Bounded, n
    <3> QED  BY <1>3, <2>1, <2>2, <2>4, <3>1 DEF FlagInv
  <2> QED  BY <2>3, <2>4
<1>7. Append(calls, e) \in Seq(Calls)
  BY <1>2, <1>3, AppendFacts
<1> QED  BY <1>4, <1>5, <1>6, <1>7 DEF FilterInv

\* A filter that no call has set.
LEMMA Unset ==
  /\ F!Unfiltered \in Filters /\ <<>> \in Seq(Calls)
  /\ \A flag \in Flags : FlagInv(F!Unfiltered, <<>>, flag)
<1>1. F!Unfiltered \in Filters
  BY DEF F!Unfiltered, Filters, SubNames
<1>2. <<>> \in Seq(Calls) /\ Len(<<>>) = 0
  BY EmptySeq
<1>3. \A flag : Setting(<<>>, flag) = {}
  BY <1>2 DEF Setting
<1>4. \A flag : flag \notin F!Unfiltered.flags
  BY DEF F!Unfiltered
<1> QED  BY <1>1, <1>2, <1>3, <1>4 DEF FlagInv

\* No call has set the filter at first.
LEMMA FilterInit == F!Init => FilterInv
<1> SUFFICES ASSUME F!Init PROVE FilterInv
  OBVIOUS
<1>1. filter = F!Unfiltered /\ calls = <<>>
  BY DEF F!Init
<1> QED  BY <1>1, Unset DEF FilterInv

\* The filter goes on being what the last calls made of it.
LEMMA FilterStep == FilterInv /\ [F!Next]_(F!vars) => FilterInv'
<1> SUFFICES ASSUME FilterInv, [F!Next]_(F!vars) PROVE FilterInv'
  OBVIOUS
<1>1. CASE F!filter_set_rss
  <2>1. F!MIN_RSS \in F!BoundFlags /\ F!MAX_RSS \in F!BoundFlags /\ F!MIN_RSS # F!MAX_RSS
    BY DEF F!BoundFlags, F!MIN_RSS, F!MAX_RSS
  <2> QED  BY <1>1, <2>1, RangeSets DEF F!filter_set_rss
<1>2. CASE F!filter_set_vsz
  <2>1. F!MIN_VSZ \in F!BoundFlags /\ F!MAX_VSZ \in F!BoundFlags /\ F!MIN_VSZ # F!MAX_VSZ
    BY DEF F!BoundFlags, F!MIN_VSZ, F!MAX_VSZ
  <2> QED  BY <1>2, <2>1, RangeSets DEF F!filter_set_vsz
<1>3. CASE F!filter_set_name
  BY <1>3, NameSets
<1>4. CASE F!filter_init
  <2>1. filter' = F!Unfiltered /\ calls' = <<>>
    BY <1>4 DEF F!filter_init
  <2> QED  BY <2>1, Unset DEF FilterInv
<1>5. CASE F!filter_chain_add \/ F!filter_chain_init \/ UNCHANGED F!filterVars
  <2>1. filter' = filter /\ calls' = calls
    BY <1>5 DEF F!filter_chain_add, F!filter_chain_init, F!filterVars
  <2> QED  BY <2>1 DEF FilterInv
<1>6. F!FilterNext \/ UNCHANGED F!filterVars
  BY Zenon DEF F!Next, F!vars
<1> QED  BY <1>1, <1>2, <1>3, <1>4, <1>5, <1>6, Zenon DEF F!FilterNext, F!Set

-----------------------------------------------------------------------------
(* What filters and chains let through.                                    *)

\* What a bound, or a name, asks of a snapshot.
Passes(flag, s, v) == CASE flag = F!MIN_RSS -> s.rss_kb >= v
                        [] flag = F!MAX_RSS -> s.rss_kb <= v
                        [] flag = F!MIN_VSZ -> s.vsz_kb >= v
                        [] flag = F!MAX_VSZ -> s.vsz_kb <= v
                        [] OTHER            -> v = Empty \/ v \in s.label

\* The last call that set a flag is the one that the filter remembers.
LEMMA LastIsBounded ==
  ASSUME FilterInv, NEW flag \in Flags
  PROVE  /\ Setting(calls, flag) # {} <=> flag \in filter.flags
         /\ flag \in filter.flags =>
              calls[F!Max(Setting(calls, flag))][flag] = Bounded(filter, flag)
<1> DEFINE I == Setting(calls, flag)
           v == Bounded(filter, flag)
<1>1. \/ flag \notin filter.flags /\ I = {}
      \/ flag \in filter.flags /\ LastSet(calls, flag, v)
  BY Zenon DEF FilterInv, FlagInv
<1>2. calls \in Seq(Calls) /\ I \subseteq Nat
  <2>1. calls \in Seq(Calls)
    BY DEF FilterInv
  <2> QED  BY <2>1, SeqFacts DEF Setting
<1>3. ASSUME LastSet(calls, flag, v) PROVE I # {} /\ calls[F!Max(I)][flag] = v
  <2>1. PICK i \in I : calls[i][flag] = v /\ \A j \in I : j <= i
    BY <1>3, Zenon DEF LastSet
  <2> HIDE DEF I, v
  <2>2. \A j \in I : i >= j
    BY <1>2, <2>1
  <2>3. F!Max(I) \in I /\ \A j \in I : F!Max(I) >= j
    BY <2>2, Zenon DEF F!Max
  <2>4. F!Max(I) >= i /\ i >= F!Max(I) /\ F!Max(I) \in Nat /\ i \in Nat
    BY <1>2, <2>2, <2>3
  <2> DEFINE m == F!Max(I)
  <2> HIDE DEF m
  <2>5. m = i
    BY <2>4 DEF m
  <2> QED  BY <2>1, <2>5, Zenon DEF m
<1> QED  BY <1>1, <1>3, Zenon

\* The calls ask of a snapshot what the filter does.
LEMMA DemandFacts ==
  ASSUME FilterInv, NEW flag \in Flags, NEW s
  PROVE  F!Demands(flag, s) <=> (flag \in filter.flags => Passes(flag, s, Bounded(filter, flag)))
<1> DEFINE I == {i \in DOMAIN calls : flag \in DOMAIN calls[i] /\ calls[i][flag] # -1}
<1>1. I = Setting(calls, flag)
  <2>1. calls \in Seq(Calls)
    BY DEF FilterInv
  <2> QED  BY <2>1, SeqFacts DEF Setting
<1>2. F!Demands(flag, s) <=> (I # {} => Passes(flag, s, calls[F!Max(I)][flag]))
  BY Zenon DEF F!Demands, Passes
<1> HIDE DEF I
<1> QED  BY <1>1, <1>2, LastIsBounded, Zenon

\* A filter asks of a snapshot what its flags do.
LEMMA MatchFacts ==
  ASSUME NEW f, NEW s
  PROVE  F!filter_match(f, s) <=>
           \A flag \in Flags : flag \in f.flags => Passes(flag, s, Bounded(f, flag))
<1> DEFINE T(flag) == flag \in f.flags => Passes(flag, s, Bounded(f, flag))
<1>1. (\A flag \in Flags : T(flag)) <=>
        /\ T(F!MIN_RSS) /\ T(F!MAX_RSS) /\ T(F!MIN_VSZ) /\ T(F!MAX_VSZ) /\ T(F!NAME_SUBSTR)
  <2> HIDE DEF T
  <2> QED  BY DEF Flags, F!BoundFlags
<1> DEFINE a == F!MIN_RSS
           b == F!MAX_RSS
           c == F!MIN_VSZ
           d == F!MAX_VSZ
           n == F!NAME_SUBSTR
<1>2. a # b /\ a # c /\ a # d /\ a # n /\ b # c /\ b # d /\ b # n /\ c # d /\ c # n /\ d # n
  BY DEF F!MIN_RSS, F!MAX_RSS, F!MIN_VSZ, F!MAX_VSZ, F!NAME_SUBSTR
<1> HIDE DEF a, b, c, d, n
<1>3. /\ \A v : Passes(a, s, v) <=> s.rss_kb >= v
      /\ \A v : Passes(b, s, v) <=> s.rss_kb <= v
      /\ \A v : Passes(c, s, v) <=> s.vsz_kb >= v
      /\ \A v : Passes(d, s, v) <=> s.vsz_kb <= v
      /\ \A v : Passes(n, s, v) <=> v = Empty \/ v \in s.label
  BY <1>2, Zenon DEF Passes, a, b, c, d, n
<1>4. /\ Bounded(f, a) = f.bound[a] /\ Bounded(f, b) = f.bound[b]
      /\ Bounded(f, c) = f.bound[c] /\ Bounded(f, d) = f.bound[d]
      /\ Bounded(f, n) = f.name_substr
  BY <1>2, Zenon DEF Bounded, n
<1>5. F!strstr(s.label, f.name_substr) <=> Passes(n, s, f.name_substr)
  BY <1>3, Zenon DEF F!strstr
<1>6. /\ T(a) <=> (a \in f.flags => s.rss_kb >= f.bound[a])
      /\ T(b) <=> (b \in f.flags => s.rss_kb <= f.bound[b])
      /\ T(c) <=> (c \in f.flags => s.vsz_kb >= f.bound[c])
      /\ T(d) <=> (d \in f.flags => s.vsz_kb <= f.bound[d])
      /\ T(n) <=> (n \in f.flags => F!strstr(s.label, f.name_substr))
  BY <1>3, <1>4, <1>5, Zenon
<1> HIDE DEF T
<1>7. F!filter_match(f, s) <=>
        /\ T(F!MIN_RSS) /\ T(F!MAX_RSS) /\ T(F!MIN_VSZ) /\ T(F!MAX_VSZ) /\ T(F!NAME_SUBSTR)
  BY <1>6, Zenon DEF F!filter_match, a, b, c, d, n
<1> QED  BY <1>1, <1>7, Zenon DEF T

\* A filter means the last calls on it.
LEMMA FilterMeansCalls == FilterInv => F!MatchMeansCalls
<1> SUFFICES ASSUME FilterInv, NEW s \in F!MemSnapshots
             PROVE  F!filter_match(filter, s) <=> \A flag \in Flags : F!Demands(flag, s)
  BY Zenon DEF F!MatchMeansCalls, Flags
<1>1. F!filter_match(filter, s) <=>
        \A flag \in Flags : flag \in filter.flags => Passes(flag, s, Bounded(filter, flag))
  BY MatchFacts, Zenon
<1>2. \A flag \in Flags :
        F!Demands(flag, s) <=> (flag \in filter.flags => Passes(flag, s, Bounded(filter, flag)))
  BY DemandFacts, Zenon
<1> QED  BY <1>1, <1>2, Zenon

\* What was accepted is what all the copies in the chain let through.
ChainInv ==
  /\ chain \in Seq(Filters)
  /\ \A s \in F!MemSnapshots :
       s \in accepted <=> \A i \in 1..Len(chain) : F!filter_match(chain[i], s)

\* An empty chain lets everything through.
LEMMA ChainEmpty ==
  /\ <<>> \in Seq(Filters)
  /\ \A s \in F!MemSnapshots : \A i \in 1..Len(<<>>) : F!filter_match(<<>>[i], s)
<1>1. <<>> \in Seq(Filters) /\ Len(<<>>) = 0
  BY EmptySeq
<1> QED  BY <1>1

\* The chain is empty at first.
LEMMA ChainInit == F!Init => ChainInv
<1> SUFFICES ASSUME F!Init PROVE ChainInv
  OBVIOUS
<1>1. chain = <<>> /\ accepted = F!MemSnapshots
  BY DEF F!Init
<1> QED  BY <1>1, ChainEmpty, Zenon DEF ChainInv

\* Filters are added to the chain by copying them, and taken from it all at once.
LEMMA ChainStep == FilterInv /\ ChainInv /\ [F!Next]_(F!vars) => ChainInv'
<1> SUFFICES ASSUME FilterInv, ChainInv, [F!Next]_(F!vars) PROVE ChainInv'
  OBVIOUS
<1>1. CASE F!filter_chain_add
  <2> DEFINE l == Len(chain)
             c == Append(chain, filter)
  <2>1. chain' = c /\ accepted' = accepted \cap F!Wanted
    BY <1>1 DEF F!filter_chain_add
  <2>2. chain \in Seq(Filters) /\ filter \in Filters
    BY DEF ChainInv, FilterInv
  <2>3. /\ c \in Seq(Filters) /\ l \in Nat /\ Len(c) = l + 1 /\ c[l + 1] = filter
        /\ \A i \in 1..l : c[i] = chain[i]
    BY <2>2, AppendFacts
  <2>4. \A s \in F!MemSnapshots : s \in F!Wanted <=> F!filter_match(filter, s)
    BY Zenon DEF F!Wanted
  <2>5. \A s \in F!MemSnapshots :
          s \in accepted <=> \A i \in 1..l : F!filter_match(chain[i], s)
    BY Zenon DEF ChainInv
  <2> HIDE DEF c, l
  <2>6. \A i : i \in 1..(l + 1) <=> i \in 1..l \/ i = l + 1
    BY <2>3
  <2>7. ASSUME NEW s \in F!MemSnapshots
        PROVE  s \in accepted' <=> \A i \in 1..(l + 1) : F!filter_match(c[i], s)
    <3>1. s \in accepted' <=> s \in accepted /\ F!filter_match(filter, s)
      BY <2>1, <2>4
    <3>2. (\A i \in 1..(l + 1) : F!filter_match(c[i], s)) <=>
             (\A i \in 1..l : F!filter_match(c[i], s)) /\ F!filter_match(c[l + 1], s)
      BY <2>6, Zenon
    <3>3. \A i \in 1..l : F!filter_match(c[i], s) <=> F!filter_match(chain[i], s)
      BY <2>3, Zenon
    <3> QED  BY <2>3, <2>5, <3>1, <3>2, <3>3, Zenon
  <2> QED  BY <2>1, <2>3, <2>7, Zenon DEF ChainInv
<1>2. CASE F!filter_chain_init
  <2>1. chain' = <<>> /\ accepted' = F!MemSnapshots
    BY <1>2 DEF F!filter_chain_init
  <2> QED  BY <2>1, ChainEmpty, Zenon DEF ChainInv
<1>3. CASE F!Set \/ F!filter_init \/ UNCHANGED F!filterVars
  <2>1. chain' = chain /\ accepted' = accepted
    BY <1>3 DEF F!Set, F!filter_init, F!filterVars
  <2> QED  BY <2>1, Zenon DEF ChainInv
<1>4. F!FilterNext \/ UNCHANGED F!filterVars
  BY Zenon DEF F!Next, F!vars
<1> QED  BY <1>1, <1>2, <1>3, <1>4, Zenon DEF F!FilterNext

\* A chain lets through what it accepted.
LEMMA ChainMeansAll == ChainInv => F!ChainIsConjunction
<1> SUFFICES ASSUME ChainInv PROVE F!ChainIsConjunction
  OBVIOUS
<1>1. DOMAIN chain = 1..Len(chain)
  BY SeqFacts DEF ChainInv
<1> QED  BY <1>1, Zenon DEF ChainInv, F!ChainIsConjunction, F!filter_chain_match

\* A filter lets through what the last calls on it ask for, and a chain what
\* each of its filters did when it was added (filter.c, filter_chain.c).
THEOREM FiltersTell ==
  F!Spec => [](F!MatchMeansCalls /\ F!ChainIsConjunction)
<1> DEFINE Inv == FilterInv /\ ChainInv
<1>1. F!Init => Inv
  BY FilterInit, ChainInit
<1>2. Inv /\ [F!Next]_(F!vars) => Inv'
  BY FilterStep, ChainStep
<1>3. Inv => F!MatchMeansCalls /\ F!ChainIsConjunction
  BY FilterMeansCalls, ChainMeansAll
<1> HIDE DEF Inv
<1> QED  BY <1>1, <1>2, <1>3, PTL DEF F!Spec
=============================================================================
