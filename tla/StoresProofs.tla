---------------------------- MODULE StoresProofs ----------------------------
(***************************************************************************)
(* The tables and the accounts of memtrace-lite, for every value of the    *)
(* constants, and all the stores side by side: none disturbs another, so that *)
(* what is proved of each holds of them all.                               *)
(***************************************************************************)
EXTENDS SamplesProofs

-----------------------------------------------------------------------------
(* The ledger.                                                             *)

LedgerEntry == [name : Categories, total_allocated : Nat, total_freed : Nat,
                peak_balance : Nat, event_count : Nat]

\* Where the ledger has the category.
LedgerAt(c) == {i \in 1..Len(ledgerEntries) : ledgerEntries[i].name = c}

\* Names are unique, every entry balances, and what has none never moved.
LedgerInv ==
  /\ ledgerEntries \in Seq(LedgerEntry)
  /\ net \in [Categories -> Int] /\ top \in [Categories -> Nat]
  /\ \A i, j \in 1..Len(ledgerEntries) :
       ledgerEntries[i].name = ledgerEntries[j].name => i = j
  /\ \A i \in 1..Len(ledgerEntries) : Balanced(ledgerEntries[i], net, top)
  /\ \A c \in Categories : LedgerAt(c) = {} => net[c] = 0 /\ top[c] = 0

\* The category is looked up among the entries of the ledger (ledger_find).
LEMMA FindEntryFirst ==
  ASSUME NEW c, Len(ledgerEntries) \in Nat
  PROVE  FoundFirst(A!FindEntry(c), LedgerAt(c))
<1> DEFINE I == LedgerAt(c)
<1>1. A!FindEntry(c) = IF I # {} THEN CHOOSE x \in I : \A y \in I : x <= y ELSE 0
  BY DEF A!FindEntry, A!SelectInSeq, A!Min, LedgerAt
<1>2. I \subseteq Nat
  BY DEF LedgerAt
<1> QED  BY <1>1, <1>2, LeastIsFirst, Zenon

\* It is found where it is, or nowhere.
LEMMA EntryFound ==
  ASSUME LedgerInv, NEW c \in Categories
  PROVE  /\ A!FindEntry(c) > 0 =>
              /\ A!FindEntry(c) \in 1..Len(ledgerEntries)
              /\ ledgerEntries[A!FindEntry(c)].name = c
         /\ A!FindEntry(c) = 0 <=> LedgerAt(c) = {}
         /\ A!FindEntry(c) \in Nat
<1>1. Len(ledgerEntries) \in Nat
  BY SeqFacts DEF LedgerInv
<1>2. FoundFirst(A!FindEntry(c), LedgerAt(c))
  BY <1>1, FindEntryFirst
<1> DEFINE k == A!FindEntry(c)
           n == Len(ledgerEntries)
<1> HIDE DEF k, n
<1>3. CASE LedgerAt(c) = {}
  BY <1>2, <1>3 DEF FoundFirst, k
<1>4. CASE LedgerAt(c) # {}
  <2>1. k \in 1..n /\ ledgerEntries[k].name = c
    BY <1>2, <1>4 DEF FoundFirst, LedgerAt, k, n
  <2>2. k > 0 /\ k # 0 /\ k \in Nat
    BY <1>1, <2>1 DEF n
  <2> QED  BY <1>4, <2>1, <2>2 DEF k, n
<1> QED  BY <1>3, <1>4

\* The ledger's invariant says what is true of balances.
LEMMA LedgerBalances ==
  LedgerInv => \A c \in Categories :
    /\ A!ledger_balance(c) = net[c]
    /\ A!FindEntry(c) > 0 => ledgerEntries[A!FindEntry(c)].peak_balance = top[c]
    /\ A!FindEntry(c) = 0 => top[c] = 0
<1> SUFFICES ASSUME LedgerInv, NEW c \in Categories
             PROVE  /\ A!ledger_balance(c) = net[c]
                    /\ A!FindEntry(c) > 0 => ledgerEntries[A!FindEntry(c)].peak_balance = top[c]
                    /\ A!FindEntry(c) = 0 => top[c] = 0
  OBVIOUS
<1> DEFINE k == A!FindEntry(c)
<1>1. /\ k > 0 => k \in 1..Len(ledgerEntries) /\ ledgerEntries[k].name = c
      /\ k = 0 => LedgerAt(c) = {}
      /\ k \in Nat
  BY EntryFound
<1>2. A!ledger_balance(c) =
        IF k = 0 THEN 0 ELSE ledgerEntries[k].total_allocated - ledgerEntries[k].total_freed
  BY DEF A!ledger_balance
<1> HIDE DEF k
<1>3. k > 0 => Balanced(ledgerEntries[k], net, top)
  BY <1>1 DEF LedgerInv
<1>4. CASE k = 0
  <2>1. net[c] = 0 /\ top[c] = 0
    BY <1>1, <1>4 DEF LedgerInv
  <2> QED  BY <1>2, <1>4, <2>1 DEF k
<1>5. CASE k # 0
  <2>1. k > 0
    BY <1>1, <1>5
  <2> QED  BY <1>1, <1>2, <1>3, <1>5, <2>1 DEF Balanced, k
<1> QED  BY <1>4, <1>5

\* What recording does to one entry (ledger_record).
LEMMA RecordedFacts ==
  ASSUME NEW e \in LedgerEntry, NEW bytes \in Int
  PROVE  LET now  == A!Recorded(e, bytes)
             left == e.total_allocated - e.total_freed + bytes
         IN /\ now \in LedgerEntry /\ now.name = e.name
            /\ now.total_allocated - now.total_freed = left
            /\ now.peak_balance = IF left > e.peak_balance THEN left ELSE e.peak_balance
<1> DEFINE a == IF bytes > 0 THEN e.total_allocated + bytes ELSE e.total_allocated
           f == IF bytes < 0 THEN e.total_freed - bytes ELSE e.total_freed
           x == [e EXCEPT !.total_allocated = a, !.total_freed = f,
                          !.event_count = e.event_count + 1]
           y == [x EXCEPT !.peak_balance = IF A!Balance(x) > x.peak_balance
                                           THEN A!Balance(x) ELSE x.peak_balance]
           left == e.total_allocated - e.total_freed + bytes
<1>1. A!Recorded(e, bytes) = y
  BY DEF A!Recorded
<1>2. e.total_allocated \in Nat /\ e.total_freed \in Nat /\ e.peak_balance \in Nat
      /\ e.event_count \in Nat /\ e.name \in Categories
  BY DEF LedgerEntry
<1>3. a \in Nat /\ f \in Nat /\ e.event_count + 1 \in Nat /\ a - f = left
  BY <1>2
<1> HIDE DEF a, f, left
<1>4. /\ x \in LedgerEntry /\ x.name = e.name /\ x.total_allocated = a /\ x.total_freed = f
      /\ x.peak_balance = e.peak_balance
  BY <1>3 DEF LedgerEntry
<1> HIDE DEF x
<1> DEFINE b == A!Balance(x)
           p == IF b > x.peak_balance THEN b ELSE x.peak_balance
<1>5. b = IF a > f THEN a - f ELSE 0
  BY <1>4 DEF A!Balance
<1>6. b \in Nat /\ p \in Nat /\ p = IF left > e.peak_balance THEN left ELSE e.peak_balance
  <2> HIDE DEF b
  <2> QED  BY <1>2, <1>3, <1>4, <1>5
<1>7. y = [x EXCEPT !.peak_balance = p]
  OBVIOUS
<1> HIDE DEF p, y, b
<1>8. /\ y \in LedgerEntry /\ y.name = x.name /\ y.peak_balance = p
      /\ y.total_allocated = x.total_allocated /\ y.total_freed = x.total_freed
  BY <1>4, <1>6, <1>7 DEF LedgerEntry
<1>9. /\ y \in LedgerEntry /\ y.name = e.name /\ y.total_allocated - y.total_freed = left
      /\ y.peak_balance = IF left > e.peak_balance THEN left ELSE e.peak_balance
  BY <1>3, <1>4, <1>6, <1>8
<1> QED  BY <1>1, <1>9, Zenon DEF left

\* Bytes are recorded for a category that the ledger has (ledger_record).
LEMMA LedgerKnown == LedgerInv /\ A!RecordKnown => LedgerInv'
<1> SUFFICES ASSUME LedgerInv, A!RecordKnown PROVE LedgerInv'
  OBVIOUS
<1>1. PICK c \in Categories, bytes \in Bytes :
        /\ A!FindEntry(c) > 0
        /\ ledgerEntries' = [ledgerEntries EXCEPT ![A!FindEntry(c)] =
                               A!Recorded(ledgerEntries[A!FindEntry(c)], bytes)]
        /\ A!Note(c, bytes)
  BY DEF A!RecordKnown
<1> DEFINE k == A!FindEntry(c)
           n == Len(ledgerEntries)
           old == ledgerEntries[k]
           new == A!Recorded(old, bytes)
<1>2. k \in 1..n /\ old.name = c
  BY <1>1, EntryFound
<1>3. ledgerEntries \in Seq(LedgerEntry) /\ old \in LedgerEntry /\ bytes \in Int
      /\ net[c] \in Int /\ top[c] \in Nat
  BY <1>2, SeqFacts, BytesAssumption DEF LedgerInv
<1>4. old.total_allocated - old.total_freed = net[c] /\ old.peak_balance = top[c]
  BY <1>2 DEF LedgerInv, Balanced
<1>5. /\ new \in LedgerEntry /\ new.name = c
      /\ new.total_allocated - new.total_freed = net[c] + bytes
      /\ new.peak_balance = IF net[c] + bytes > top[c] THEN net[c] + bytes ELSE top[c]
  <2>1. LET left == old.total_allocated - old.total_freed + bytes IN
        /\ new \in LedgerEntry /\ new.name = old.name
        /\ new.total_allocated - new.total_freed = left
        /\ new.peak_balance = IF left > old.peak_balance THEN left ELSE old.peak_balance
    BY <1>3, RecordedFacts, Zenon
  <2> HIDE DEF new, old, k
  <2> QED  BY <1>2, <1>4, <2>1
<1> HIDE DEF new, old
<1>6. /\ ledgerEntries' \in Seq(LedgerEntry) /\ Len(ledgerEntries') = n
      /\ ledgerEntries'[k] = new
      /\ \A i \in 1..n : i # k => ledgerEntries'[i] = ledgerEntries[i]
  BY <1>1, <1>2, <1>3, <1>5, ExceptFacts DEF new, old
<1> HIDE DEF k, n
<1>7. \A i \in 1..n : ledgerEntries'[i].name = ledgerEntries[i].name
  BY <1>2, <1>5, <1>6 DEF old
<1>8. /\ net' \in [Categories -> Int] /\ top' \in [Categories -> Nat]
      /\ net'[c] = net[c] + bytes
      /\ top'[c] = IF net[c] + bytes > top[c] THEN net[c] + bytes ELSE top[c]
      /\ \A d \in Categories : d # c => net'[d] = net[d] /\ top'[d] = top[d]
  <2>1. net' = [net EXCEPT ![c] = net[c] + bytes]
        /\ top' = [top EXCEPT ![c] = IF net'[c] > top[c] THEN net'[c] ELSE top[c]]
    BY <1>1 DEF A!Note
  <2>2. net \in [Categories -> Int] /\ top \in [Categories -> Nat]
    BY DEF LedgerInv
  <2>3. net' \in [Categories -> Int] /\ net'[c] = net[c] + bytes
        /\ \A d \in Categories : d # c => net'[d] = net[d]
    BY <1>3, <2>1, <2>2
  <2> DEFINE t == IF net'[c] > top[c] THEN net'[c] ELSE top[c]
  <2>4. t \in Nat /\ t = IF net[c] + bytes > top[c] THEN net[c] + bytes ELSE top[c]
    BY <1>3, <2>3
  <2> HIDE DEF t
  <2>5. top' = [top EXCEPT ![c] = t]
    BY <2>1 DEF t
  <2>6. top' \in [Categories -> Nat] /\ top'[c] = t
        /\ \A d \in Categories : d # c => top'[d] = top[d]
    BY <2>2, <2>4, <2>5
  <2> QED  BY <2>3, <2>4, <2>6
<1>9. \A i, j \in 1..n : ledgerEntries'[i].name = ledgerEntries'[j].name => i = j
  BY <1>7 DEF LedgerInv, n
<1>10. ASSUME NEW i \in 1..n PROVE Balanced(ledgerEntries'[i], net', top')
  <2>1. CASE i = k
    BY <1>5, <1>6, <1>8, <2>1 DEF Balanced
  <2>2. CASE i # k
    <3>1. ledgerEntries'[i] = ledgerEntries[i] /\ Balanced(ledgerEntries[i], net, top)
      BY <1>6, <2>2 DEF LedgerInv, n
    <3>2. ledgerEntries[i].name # c
      BY <1>2, <2>2 DEF LedgerInv, n, old
    <3>3. ledgerEntries[i].name \in Categories
      <4>1. ledgerEntries[i] \in LedgerEntry
        BY <1>3, SeqFacts DEF n
      <4> QED  BY <4>1 DEF LedgerEntry
    <3> QED  BY <1>8, <3>1, <3>2, <3>3 DEF Balanced
  <2> QED  BY <2>1, <2>2
<1>11. ASSUME NEW d \in Categories, LedgerAt(d)' = {} PROVE net'[d] = 0 /\ top'[d] = 0
  <2>1. LedgerAt(d) = {}
    BY <1>6, <1>7, <1>11 DEF LedgerAt, n
  <2>2. k \in LedgerAt(c)
    BY <1>2 DEF LedgerAt, n, old
  <2>3. d # c
    BY <2>1, <2>2
  <2> QED  BY <1>8, <2>1, <2>3 DEF LedgerInv
<1> QED  BY <1>6, <1>8, <1>9, <1>10, <1>11 DEF LedgerInv

\* Bytes are recorded for a category that it gets now (ledger_record).
LEMMA LedgerNew == LedgerInv /\ A!RecordNew => LedgerInv'
<1> SUFFICES ASSUME LedgerInv, A!RecordNew PROVE LedgerInv'
  OBVIOUS
<1>1. PICK c \in Categories, bytes \in Bytes :
        /\ A!FindEntry(c) = 0
        /\ ledgerEntries' = Append(ledgerEntries, A!Recorded(A!Fresh(c), bytes))
        /\ A!Note(c, bytes)
  BY DEF A!RecordNew
<1> DEFINE n == Len(ledgerEntries)
           old == A!Fresh(c)
           new == A!Recorded(old, bytes)
<1>2. LedgerAt(c) = {}
  BY <1>1, EntryFound
<1>3. ledgerEntries \in Seq(LedgerEntry) /\ old \in LedgerEntry /\ bytes \in Int
      /\ net[c] = 0 /\ top[c] = 0 /\ old.name = c
      /\ old.total_allocated - old.total_freed = 0 /\ old.peak_balance = 0
  BY <1>2, BytesAssumption DEF LedgerInv, A!Fresh, LedgerEntry
<1>5. /\ new \in LedgerEntry /\ new.name = c
      /\ new.total_allocated - new.total_freed = bytes
      /\ new.peak_balance = IF bytes > 0 THEN bytes ELSE 0
  <2>1. LET left == old.total_allocated - old.total_freed + bytes IN
        /\ new \in LedgerEntry /\ new.name = old.name
        /\ new.total_allocated - new.total_freed = left
        /\ new.peak_balance = IF left > old.peak_balance THEN left ELSE old.peak_balance
    BY <1>3, RecordedFacts, Zenon
  <2> HIDE DEF new, old
  <2> QED  BY <1>3, <2>1
<1> HIDE DEF new, old
<1>6. /\ ledgerEntries' \in Seq(LedgerEntry) /\ Len(ledgerEntries') = n + 1 /\ n \in Nat
      /\ ledgerEntries'[n + 1] = new
      /\ \A i \in 1..n : ledgerEntries'[i] = ledgerEntries[i]
  BY <1>1, <1>3, <1>5, AppendFacts DEF new, old
<1>7. \A i \in 1..n : ledgerEntries[i].name # c /\ ledgerEntries[i].name \in Categories
  <2> SUFFICES ASSUME NEW i \in 1..n
               PROVE  ledgerEntries[i].name # c /\ ledgerEntries[i].name \in Categories
    OBVIOUS
  <2>1. ledgerEntries[i] \in LedgerEntry
    BY <1>3, SeqFacts
  <2>2. ledgerEntries[i].name # c
    BY <1>2 DEF LedgerAt
  <2> QED  BY <2>1, <2>2 DEF LedgerEntry
<1>n. /\ \A i \in 1..n : Balanced(ledgerEntries[i], net, top)
      /\ \A i, j \in 1..n : ledgerEntries[i].name = ledgerEntries[j].name => i = j
  BY DEF LedgerInv
<1>a. \A d \in Categories : LedgerAt(d) = {} <=> \A i \in 1..n : ledgerEntries[i].name # d
  BY DEF LedgerAt
<1>b. \A d \in Categories : LedgerAt(d)' = {} => \A i \in 1..(n + 1) : ledgerEntries'[i].name # d
  BY <1>6 DEF LedgerAt
<1> HIDE DEF n
<1>8. /\ net' \in [Categories -> Int] /\ top' \in [Categories -> Nat]
      /\ net'[c] = bytes
      /\ top'[c] = IF bytes > 0 THEN bytes ELSE 0
      /\ \A d \in Categories : d # c => net'[d] = net[d] /\ top'[d] = top[d]
  <2>1. net' = [net EXCEPT ![c] = net[c] + bytes]
        /\ top' = [top EXCEPT ![c] = IF net'[c] > top[c] THEN net'[c] ELSE top[c]]
    BY <1>1 DEF A!Note
  <2>2. net \in [Categories -> Int] /\ top \in [Categories -> Nat]
    BY DEF LedgerInv
  <2>3. net' \in [Categories -> Int] /\ net'[c] = bytes
        /\ \A d \in Categories : d # c => net'[d] = net[d]
    BY <1>3, <2>1, <2>2
  <2> DEFINE t == IF net'[c] > top[c] THEN net'[c] ELSE top[c]
  <2>4. t \in Nat /\ t = IF bytes > 0 THEN bytes ELSE 0
    BY <1>3, <2>3
  <2> HIDE DEF t
  <2>5. top' = [top EXCEPT ![c] = t]
    BY <2>1 DEF t
  <2>6. top' \in [Categories -> Nat] /\ top'[c] = t
        /\ \A d \in Categories : d # c => top'[d] = top[d]
    BY <2>2, <2>4, <2>5
  <2> QED  BY <2>3, <2>4, <2>6
<1>9. ASSUME NEW i \in 1..(n + 1), NEW j \in 1..(n + 1),
             ledgerEntries'[i].name = ledgerEntries'[j].name
      PROVE  i = j
  <2>1. (i \in 1..n \/ i = n + 1) /\ (j \in 1..n \/ j = n + 1)
    BY <1>6
  <2>2. CASE i \in 1..n /\ j \in 1..n
    BY <1>6, <1>9, <1>n, <2>2
  <2>3. CASE i = n + 1 /\ j = n + 1
    BY <2>3
  <2>4. CASE i \in 1..n /\ j = n + 1
    BY <1>5, <1>6, <1>7, <1>9, <2>4
  <2>5. CASE i = n + 1 /\ j \in 1..n
    BY <1>5, <1>6, <1>7, <1>9, <2>5
  <2> QED  BY <2>1, <2>2, <2>3, <2>4, <2>5, Zenon
<1>10. ASSUME NEW i \in 1..(n + 1) PROVE Balanced(ledgerEntries'[i], net', top')
  <2>1. CASE i = n + 1
    BY <1>5, <1>6, <1>8, <2>1 DEF Balanced
  <2>2. CASE i # n + 1
    <3>0. i \in 1..n
      BY <1>6, <2>2
    <3>1. ledgerEntries'[i] = ledgerEntries[i] /\ Balanced(ledgerEntries[i], net, top)
      BY <1>6, <1>n, <3>0
    <3> QED  BY <1>7, <1>8, <3>0, <3>1 DEF Balanced
  <2> QED  BY <2>1, <2>2
<1>11. ASSUME NEW d \in Categories, LedgerAt(d)' = {} PROVE net'[d] = 0 /\ top'[d] = 0
  <2>1. \A i \in 1..(n + 1) : ledgerEntries'[i].name # d
    BY <1>b, <1>11
  <2>2. d # c
    <3>1. n + 1 \in 1..(n + 1)
      BY <1>6
    <3> QED  BY <1>5, <1>6, <2>1, <3>1
  <2>3. \A i \in 1..n : ledgerEntries[i].name # d
    <3>1. \A i \in 1..n : i \in 1..(n + 1)
      BY <1>6
    <3> QED  BY <1>6, <2>1, <3>1
  <2>4. LedgerAt(d) = {}
    BY <1>a, <2>3
  <2> QED  BY <1>8, <2>2, <2>4 DEF LedgerInv
<1> QED  BY <1>6, <1>8, <1>9, <1>10, <1>11 DEF LedgerInv

\* A reset keeps the names (ledger_reset).
LEMMA LedgerResets == LedgerInv /\ A!ledger_reset => LedgerInv'
<1> SUFFICES ASSUME LedgerInv, A!ledger_reset PROVE LedgerInv'
  OBVIOUS
<1> DEFINE n == Len(ledgerEntries)
<1>1. n \in Nat /\ DOMAIN ledgerEntries = 1..n /\ \A i \in 1..n : ledgerEntries[i] \in LedgerEntry
  BY SeqFacts DEF LedgerInv
<1>2. ledgerEntries' = [i \in 1..n |-> A!Fresh(ledgerEntries[i].name)]
  BY <1>1 DEF A!ledger_reset
<1> HIDE DEF n
<1>3. ledgerEntries' \in [1..n -> LedgerEntry]
  BY <1>1, <1>2 DEF A!Fresh, LedgerEntry
<1>4. ledgerEntries' \in Seq(LedgerEntry) /\ Len(ledgerEntries') = n
  BY <1>1, <1>3, FunctionIsSeq
<1>5. \A i \in 1..n : ledgerEntries'[i].name = ledgerEntries[i].name /\ ledgerEntries[i].name \in Categories
  BY <1>1, <1>2 DEF A!Fresh, LedgerEntry
<1>6. net' = [c \in Categories |-> 0] /\ top' = [c \in Categories |-> 0]
  BY DEF A!ledger_reset
<1>7. net' \in [Categories -> Int] /\ top' \in [Categories -> Nat]
  BY <1>6
<1>8. \A i, j \in 1..n : ledgerEntries'[i].name = ledgerEntries'[j].name => i = j
  BY <1>5 DEF LedgerInv, n
<1>9. \A i \in 1..n : Balanced(ledgerEntries'[i], net', top')
  BY <1>2, <1>5, <1>6 DEF Balanced, A!Fresh
<1>10. \A c \in Categories : net'[c] = 0 /\ top'[c] = 0
  BY <1>6
<1> QED  BY <1>4, <1>7, <1>8, <1>9, <1>10 DEF LedgerInv

\* The ledger starts in its invariant and stays in it.
LEMMA LedgerInit == A!ledger_init => LedgerInv
<1> SUFFICES ASSUME A!ledger_init PROVE LedgerInv
  OBVIOUS
<1>1. ledgerEntries = <<>> /\ ledgerEntries \in Seq(LedgerEntry) /\ Len(ledgerEntries) = 0
  BY EmptySeq DEF A!ledger_init
<1>2. net = [c \in Categories |-> 0] /\ top = [c \in Categories |-> 0]
  BY DEF A!ledger_init
<1>3. \A i \in 1..Len(ledgerEntries) : FALSE
  BY <1>1
<1> QED  BY <1>1, <1>2, <1>3 DEF LedgerInv

\* Every step of a ledger keeps its categories in order.
LEMMA LedgerStep == LedgerInv /\ [A!LedgerNext]_(A!ledgerVars) => LedgerInv'
<1> SUFFICES ASSUME LedgerInv, [A!LedgerNext]_(A!ledgerVars) PROVE LedgerInv'
  OBVIOUS
<1>1. CASE UNCHANGED A!ledgerVars
  BY <1>1 DEF A!ledgerVars, LedgerInv, LedgerAt, Balanced
<1>2. CASE A!RecordRefused
  BY <1>1, <1>2 DEF A!RecordRefused
<1> QED  BY <1>1, <1>2, LedgerKnown, LedgerNew, LedgerResets DEF A!LedgerNext, A!ledger_record

-----------------------------------------------------------------------------
(* The tally.                                                              *)

Stems == {n.stem : n \in Names}

TallyCategory == [name : Stems, count : Nat, total : Nat]

\* Where the tally finds the name.
TallyAt(n) == {i \in 1..Len(categories) : categories[i].name = n.stem /\ ~n.long}

\* What is in a category, seen from a short name that has it.
Accounted(n, i) ==
  /\ \A j \in 1..Len(categories) : categories[j].name = n.stem => i <= j
  /\ categories[i].total >= sums[n]
  /\ (\A m \in Names : m # n => i \notin handles[m]) => categories[i].total = sums[n]

\* A name's handles are of categories with its stem, and a short name's of the
\* first of them; some name has a handle of every category; and what was
\* counted for a name is in the category it has a handle of.
TallyInv ==
  /\ categories \in Seq(TallyCategory)
  /\ handles \in [Names -> SUBSET (1..Len(categories))] /\ sums \in [Names -> Nat]
  /\ \A n \in Names, i \in 1..Len(categories) :
       i \in handles[n] => categories[i].name = n.stem
  /\ \A i \in 1..Len(categories) : \E n \in Names : i \in handles[n]
  /\ \A n \in Names : handles[n] = {} => sums[n] = 0
  /\ \A n \in Names, i \in 1..Len(categories) :
       ~n.long /\ i \in handles[n] => Accounted(n, i)

\* The name is looked up among the categories of the tally (find_category).
LEMMA FindCategoryFirst ==
  ASSUME NEW n, Len(categories) \in Nat
  PROVE  FoundFirst(A!FindCategory(n), TallyAt(n))
<1> DEFINE I == TallyAt(n)
<1>1. A!FindCategory(n) = IF I # {} THEN CHOOSE x \in I : \A y \in I : x <= y ELSE 0
  BY DEF A!FindCategory, A!Matches, A!SelectInSeq, A!Min, TallyAt
<1>2. I \subseteq Nat
  BY DEF TallyAt
<1> QED  BY <1>1, <1>2, LeastIsFirst, Zenon

\* The categories, one by one.
LEMMA CategoryFacts ==
  ASSUME TallyInv
  PROVE  /\ Len(categories) \in Nat /\ DOMAIN categories = 1..Len(categories)
         /\ \A i \in 1..Len(categories) :
              /\ categories[i] \in TallyCategory /\ categories[i].name \in Stems
              /\ categories[i].count \in Nat /\ categories[i].total \in Nat
         /\ \A n \in Names : handles[n] \subseteq 1..Len(categories) /\ sums[n] \in Nat
<1>1. categories \in Seq(TallyCategory)
  BY DEF TallyInv
<1>2. /\ Len(categories) \in Nat /\ DOMAIN categories = 1..Len(categories)
      /\ \A i \in 1..Len(categories) : categories[i] \in TallyCategory
  BY <1>1, SeqFacts
<1>3. \A c \in TallyCategory : c.name \in Stems /\ c.count \in Nat /\ c.total \in Nat
  BY DEF TallyCategory
<1>4. \A n \in Names : handles[n] \subseteq 1..Len(categories) /\ sums[n] \in Nat
  BY DEF TallyInv
<1> QED  BY <1>2, <1>3, <1>4

\* A short name that is found is found first, and a long one is not found.
LEMMA CategoryFound ==
  ASSUME TallyInv, NEW n \in Names
  PROVE  /\ A!FindCategory(n) \in Nat
         /\ A!FindCategory(n) > 0 =>
              /\ A!FindCategory(n) \in 1..Len(categories) /\ ~n.long
              /\ categories[A!FindCategory(n)].name = n.stem
              /\ \A j \in 1..Len(categories) :
                   categories[j].name = n.stem => A!FindCategory(n) <= j
         /\ A!FindCategory(n) = 0 /\ ~n.long =>
              \A j \in 1..Len(categories) : categories[j].name # n.stem
<1>1. Len(categories) \in Nat
  BY CategoryFacts
<1>2. FoundFirst(A!FindCategory(n), TallyAt(n))
  BY <1>1, FindCategoryFirst
<1> DEFINE k == A!FindCategory(n)
           l == Len(categories)
<1> HIDE DEF k, l
<1>3. CASE TallyAt(n) = {}
  BY <1>2, <1>3 DEF FoundFirst, TallyAt, k, l
<1>4. CASE TallyAt(n) # {}
  <2>1. k \in 1..l /\ categories[k].name = n.stem /\ ~n.long
    BY <1>2, <1>4 DEF FoundFirst, TallyAt, k, l
  <2>2. \A j \in 1..l : categories[j].name = n.stem => k <= j
    BY <1>2, <1>4, <2>1 DEF FoundFirst, TallyAt, k, l
  <2>3. k > 0 /\ k # 0 /\ k \in Nat
    BY <1>1, <2>1 DEF l
  <2> QED  BY <2>1, <2>2, <2>3 DEF k, l
<1> QED  BY <1>3, <1>4

\* A short name's handle, when it has one, is where it is found.
LEMMA ShortHandle ==
  ASSUME TallyInv, NEW n \in Names, ~n.long, NEW i \in handles[n]
  PROVE  /\ i \in 1..Len(categories) /\ categories[i].name = n.stem
         /\ i = A!FindCategory(n) /\ Accounted(n, i)
<1>1. i \in 1..Len(categories) /\ categories[i].name = n.stem /\ Accounted(n, i)
  BY CategoryFacts DEF TallyInv
<1> DEFINE k == A!FindCategory(n)
           l == Len(categories)
<1>2. /\ k \in Nat /\ l \in Nat
      /\ k > 0 => k \in 1..l /\ categories[k].name = n.stem
                  /\ \A j \in 1..l : categories[j].name = n.stem => k <= j
      /\ k = 0 => \A j \in 1..l : categories[j].name # n.stem
  BY CategoryFound, CategoryFacts
<1>3. \A j \in 1..l : categories[j].name = n.stem => i <= j
  BY <1>1 DEF Accounted
<1> HIDE DEF k, l
<1>4. i \in 1..l
  BY <1>1 DEF l
<1>5. k > 0
  BY <1>1, <1>2, <1>4
<1>6. k <= i /\ i <= k
  BY <1>1, <1>2, <1>3, <1>4, <1>5
<1>7. i = k
  BY <1>2, <1>4, <1>6
<1> QED  BY <1>1, <1>7 DEF k

\* The tally's invariant says that everything is counted once.
LEMMA TallyCounts == TallyInv => A!CountedOnce
<1> SUFFICES ASSUME TallyInv, NEW n \in Names, ~n.long
             PROVE  LET sharing == {m \in Names : m # n /\ handles[m] \cap handles[n] # {}} IN
                    /\ A!Cardinality(handles[n]) <= 1
                    /\ \A m \in sharing : m.long /\ m.stem = n.stem
                    /\ \A i \in handles[n] :
                         /\ i = A!FindCategory(n)
                         /\ categories[i].total >= sums[n]
                         /\ sharing = {} => categories[i].total = sums[n]
  BY Zenon DEF A!CountedOnce
<1> DEFINE sharing == {m \in Names : m # n /\ handles[m] \cap handles[n] # {}}
<1>1. A!Cardinality(handles[n]) <= 1
  <2>1. CASE handles[n] = {}
    <3>1. Cardinality(handles[n]) = 0
      BY <2>1, FS_EmptySet
    <3> QED  BY <3>1, SameCardinality
  <2>2. CASE handles[n] # {}
    <3>1. handles[n] = {A!FindCategory(n)}
      BY <2>2, ShortHandle
    <3>2. Cardinality(handles[n]) = 1
      BY <3>1, FS_Singleton
    <3> QED  BY <3>2, SameCardinality
  <2> QED  BY <2>1, <2>2
<1>2. ASSUME NEW m \in sharing PROVE m.long /\ m.stem = n.stem
  <2>1. PICK i : i \in handles[m] /\ i \in handles[n]
    BY <1>2
  <2>2. categories[i].name = n.stem /\ categories[i].name = m.stem
    BY <2>1, CategoryFacts DEF TallyInv
  <2>3. m # n
    BY <1>2
  <2> QED  BY <2>2, <2>3, NamesAssumption
<1>3. ASSUME NEW i \in handles[n]
      PROVE  /\ i = A!FindCategory(n)
             /\ categories[i].total >= sums[n]
             /\ sharing = {} => categories[i].total = sums[n]
  <2>1. i = A!FindCategory(n) /\ Accounted(n, i)
    BY ShortHandle
  <2>2. sharing = {} => \A m \in Names : m # n => i \notin handles[m]
    OBVIOUS
  <2> QED  BY <2>1, <2>2 DEF Accounted
<1> QED  BY <1>1, <1>2, <1>3, Zenon

\* A known name gets the handle of its category (tally_register).
LEMMA TallyKnown == TallyInv /\ A!RegisterKnown => TallyInv'
<1> SUFFICES ASSUME TallyInv, A!RegisterKnown PROVE TallyInv'
  OBVIOUS
<1>1. PICK n \in Names :
        A!FindCategory(n) > 0 /\ handles' = [handles EXCEPT ![n] = @ \cup {A!FindCategory(n)}]
  BY DEF A!RegisterKnown
<1> DEFINE k == A!FindCategory(n)
           l == Len(categories)
<1>2. categories' = categories /\ sums' = sums
  BY DEF A!RegisterKnown
<1>3. /\ k \in 1..l /\ ~n.long /\ categories[k].name = n.stem
      /\ \A j \in 1..l : categories[j].name = n.stem => k <= j
  BY <1>1, CategoryFound
<1>4. \A i \in handles[n] : i = k
  BY <1>3, ShortHandle
<1>5. categories[k].total \in Nat /\ l \in Nat
  BY <1>3, CategoryFacts
<1> HIDE DEF k, l
<1>6. /\ handles' \in [Names -> SUBSET (1..l)] /\ handles'[n] = handles[n] \cup {k}
      /\ \A m \in Names : m # n => handles'[m] = handles[m]
  BY <1>1, <1>3 DEF TallyInv, k, l
<1>7. \A m \in Names, i \in 1..l : i \in handles[m] => i \in handles'[m]
  BY <1>6
<1>8. ASSUME NEW m \in Names, NEW i \in 1..l, i \in handles'[m]
      PROVE  categories[i].name = m.stem
  <2>1. i \in handles[m] => categories[i].name = m.stem
    BY Zenon DEF TallyInv, l
  <2>2. i \in handles[m] \/ (m = n /\ i = k)
    BY <1>6, <1>8
  <2> QED  BY <1>3, <2>1, <2>2, Zenon
<1>9. \A i \in 1..l : \E m \in Names : i \in handles'[m]
  BY <1>7 DEF TallyInv, l
<1>10. \A m \in Names : handles'[m] = {} => sums[m] = 0
  BY <1>6 DEF TallyInv
<1>11. ASSUME NEW m \in Names, NEW i \in 1..l, Accounted(m, i) PROVE Accounted(m, i)'
  BY <1>2, <1>7, <1>11 DEF Accounted
<1>12. ASSUME NEW m \in Names, NEW i \in 1..l, ~m.long, i \in handles'[m]
       PROVE  Accounted(m, i)'
  <2>1. CASE i \in handles[m]
    BY <1>11, <1>12, <2>1 DEF TallyInv, l
  <2>2. CASE i \notin handles[m]
    <3>1. m = n /\ i = k
      BY <1>6, <1>12, <2>2
    <3>2. handles[n] = {}
      BY <1>4, <2>2, <3>1
    <3>3. sums[n] = 0
      BY <3>2 DEF TallyInv
    <3>4. PICK o \in Names : k \in handles[o]
      BY <1>3 DEF TallyInv, l
    <3>5. o # n /\ k \in handles'[o]
      BY <1>3, <1>7, <3>2, <3>4
    <3> QED  BY <1>2, <1>3, <1>5, <3>1, <3>3, <3>5 DEF Accounted, l
  <2> QED  BY <2>1, <2>2
<1> QED  BY <1>2, <1>6, <1>8, <1>9, <1>10, <1>12 DEF TallyInv, l

\* A name gets a category of its own (tally_register).
LEMMA TallyNew == TallyInv /\ A!RegisterNew => TallyInv'
<1> SUFFICES ASSUME TallyInv, A!RegisterNew PROVE TallyInv'
  OBVIOUS
<1>1. PICK n \in Names :
        /\ A!FindCategory(n) = 0
        /\ categories' = Append(categories, [name |-> n.stem, count |-> 0, total |-> 0])
        /\ handles' = [handles EXCEPT ![n] = @ \cup {Len(categories')}]
  BY DEF A!RegisterNew
<1> DEFINE l == Len(categories)
           new == [name |-> n.stem, count |-> 0, total |-> 0]
<1>2. sums' = sums
  BY DEF A!RegisterNew
<1>3. new \in TallyCategory /\ categories \in Seq(TallyCategory)
  BY DEF TallyCategory, Stems, TallyInv
<1>4. new.name = n.stem /\ new.total = 0
  OBVIOUS
<1> HIDE DEF new
<1>5. /\ categories' \in Seq(TallyCategory) /\ Len(categories') = l + 1 /\ l \in Nat
      /\ categories'[l + 1] = new /\ \A i \in 1..l : categories'[i] = categories[i]
  BY <1>1, <1>3, AppendFacts DEF new
<1>6. ~n.long => \A j \in 1..l : categories[j].name # n.stem
  BY <1>1, CategoryFound
<1> HIDE DEF l
<1>7. \A i \in 1..l : i \in 1..(l + 1) /\ i # l + 1
  BY <1>5
<1>8. \A i \in 1..(l + 1) : i \in 1..l \/ i = l + 1
  BY <1>5
<1>9. l + 1 \in 1..(l + 1) /\ l + 1 \notin 1..l
  BY <1>5
<1>10. /\ handles' \in [Names -> SUBSET (1..(l + 1))] /\ handles'[n] = handles[n] \cup {l + 1}
       /\ \A m \in Names : m # n => handles'[m] = handles[m]
  <2>1. handles \in [Names -> SUBSET (1..l)]
    BY DEF TallyInv, l
  <2>2. handles' = [handles EXCEPT ![n] = handles[n] \cup {l + 1}]
    BY <1>1, <1>5
  <2>3. \A m \in Names : handles[m] \in SUBSET (1..(l + 1))
    BY <1>7, <2>1
  <2> QED  BY <1>9, <2>1, <2>2, <2>3
<1>11. \A m \in Names : handles[m] \subseteq 1..l /\ sums[m] \in Nat
  BY CategoryFacts DEF l
<1>12. \A m \in Names, i \in 1..(l + 1) :
         i \in handles'[m] => i \in handles[m] \/ (m = n /\ i = l + 1)
  BY <1>10
<1>13. \A m \in Names, i \in 1..(l + 1) : i \in handles'[m] => categories'[i].name = m.stem
  <2> SUFFICES ASSUME NEW m \in Names, NEW i \in 1..(l + 1), i \in handles'[m]
               PROVE  categories'[i].name = m.stem
    OBVIOUS
  <2>1. CASE i \in handles[m]
    <3>1. i \in 1..l /\ categories[i].name = m.stem
      BY <1>11, <2>1 DEF TallyInv, l
    <3> QED  BY <1>5, <3>1
  <2>2. CASE m = n /\ i = l + 1
    BY <1>4, <1>5, <2>2
  <2> QED  BY <1>12, <2>1, <2>2
<1>14. \A i \in 1..(l + 1) : \E m \in Names : i \in handles'[m]
  <2> SUFFICES ASSUME NEW i \in 1..(l + 1) PROVE \E m \in Names : i \in handles'[m]
    OBVIOUS
  <2>1. CASE i \in 1..l
    <3>1. PICK m \in Names : i \in handles[m]
      BY <2>1 DEF TallyInv, l
    <3> QED  BY <1>10, <3>1
  <2>2. CASE i = l + 1
    BY <1>10, <2>2
  <2> QED  BY <1>8, <2>1, <2>2
<1>15. \A m \in Names : handles'[m] = {} => sums'[m] = 0
  <2>1. \A m \in Names : handles'[m] = {} => handles[m] = {}
    BY <1>10
  <2> QED  BY <1>2, <2>1 DEF TallyInv
<1>16. ASSUME NEW m \in Names, NEW i \in 1..(l + 1), ~m.long, i \in handles'[m]
       PROVE  Accounted(m, i)'
  <2>1. CASE i \in handles[m]
    <3>1. i \in 1..l /\ Accounted(m, i) /\ categories[i].name = m.stem
      BY <1>11, <1>16, <2>1 DEF TallyInv, l
    <3>2. categories'[i] = categories[i]
      BY <1>5, <3>1
    <3>3. \A j \in 1..(l + 1) : categories'[j].name = m.stem => i <= j
      <4> SUFFICES ASSUME NEW j \in 1..(l + 1), categories'[j].name = m.stem PROVE i <= j
        OBVIOUS
      <4>1. CASE j \in 1..l
        BY <1>5, <3>1, <4>1 DEF Accounted, l
      <4>2. CASE j = l + 1
        BY <1>5, <3>1, <4>2
      <4> QED  BY <1>8, <4>1, <4>2
    <3>4. categories'[i].total >= sums'[m]
      BY <1>2, <3>1, <3>2 DEF Accounted
    <3>5. (\A o \in Names : o # m => i \notin handles'[o]) => categories'[i].total = sums'[m]
      <4>1. \A o \in Names : i \in handles[o] => i \in handles'[o]
        BY <1>10
      <4> QED  BY <1>2, <3>1, <3>2, <4>1 DEF Accounted
    <3> QED  BY <1>5, <3>3, <3>4, <3>5 DEF Accounted
  <2>2. CASE m = n /\ i = l + 1
    <3>1. \A j \in 1..l : categories[j].name # n.stem
      BY <1>6, <1>16, <2>2
    <3>2. handles[n] = {}
      <4>1. \A j \in 1..l : j \notin handles[n]
        BY <3>1 DEF TallyInv, l
      <4> QED  BY <1>11, <4>1
    <3>3. sums'[n] = 0
      BY <1>2, <3>2 DEF TallyInv
    <3>4. categories'[i].total = 0
      BY <1>4, <1>5, <2>2
    <3>5. \A j \in 1..(l + 1) : categories'[j].name = m.stem => i <= j
      <4> SUFFICES ASSUME NEW j \in 1..(l + 1), categories'[j].name = m.stem PROVE i <= j
        OBVIOUS
      <4>1. j \notin 1..l
        BY <1>5, <2>2, <3>1
      <4> QED  BY <1>5, <1>8, <2>2, <4>1
    <3>6. categories'[i].total >= sums'[m] /\ categories'[i].total = sums'[m]
      BY <2>2, <3>3, <3>4
    <3> QED  BY <1>5, <3>5, <3>6 DEF Accounted
  <2> QED  BY <1>12, <1>16, <2>1, <2>2
<1> QED  BY <1>2, <1>5, <1>10, <1>11, <1>13, <1>14, <1>15, <1>16 DEF TallyInv

\* Something is counted (tally_add, tally_inc).
LEMMA TallyAdds == TallyInv /\ A!tally_add => TallyInv'
<1> SUFFICES ASSUME TallyInv, A!tally_add PROVE TallyInv'
  OBVIOUS
<1>0. PICK n \in Names, amount \in Sizes : \E i \in handles[n] :
        /\ categories' = [categories EXCEPT ![i].count = @ + 1, ![i].total = @ + amount]
        /\ sums' = [sums EXCEPT ![n] = @ + amount]
  BY DEF A!tally_add
<1>1. PICK k \in handles[n] :
        /\ categories' = [categories EXCEPT ![k].count = @ + 1, ![k].total = @ + amount]
        /\ sums' = [sums EXCEPT ![n] = @ + amount]
  BY <1>0
<1> DEFINE l == Len(categories)
           old == categories[k]
           new == [old EXCEPT !.count = old.count + 1, !.total = old.total + amount]
<1>2. handles' = handles
  BY DEF A!tally_add
<1>3. k \in 1..l /\ old \in TallyCategory /\ l \in Nat /\ old.count \in Nat /\ old.total \in Nat
      /\ sums[n] \in Nat /\ amount \in Nat
  BY CategoryFacts, SizesAssumption
<1>5. categories' = [categories EXCEPT ![k] = new]
  BY <1>1
<1>4. new \in TallyCategory /\ new.name = old.name /\ new.total = old.total + amount
  <2> HIDE DEF old, l
  <2>1. old.count + 1 \in Nat /\ old.total + amount \in Nat
    BY <1>3
  <2> QED  BY <1>3, <2>1 DEF TallyCategory
<1> HIDE DEF new
<1>6. /\ categories' \in Seq(TallyCategory) /\ Len(categories') = l /\ categories'[k] = new
      /\ \A i \in 1..l : i # k => categories'[i] = categories[i]
  BY <1>3, <1>4, <1>5, ExceptFacts DEF TallyInv
<1> HIDE DEF l, old
<1>7. \A i \in 1..l : categories'[i].name = categories[i].name
  BY <1>3, <1>4, <1>6 DEF old
<1>8. /\ sums' \in [Names -> Nat] /\ sums'[n] = sums[n] + amount
      /\ \A m \in Names : m # n => sums'[m] = sums[m]
  BY <1>1, <1>3 DEF TallyInv
<1>9. \A m \in Names : handles[m] = {} => sums'[m] = 0
  BY <1>8 DEF TallyInv
<1>10. ASSUME NEW m \in Names, NEW i \in 1..l, ~m.long, i \in handles[m]
       PROVE  Accounted(m, i)'
  <2>1. Accounted(m, i) /\ sums[m] \in Nat /\ categories[i].total \in Nat
    BY <1>10, CategoryFacts DEF TallyInv, l
  <2>2. \A j \in 1..l : categories'[j].name = m.stem => i <= j
    BY <1>7, <2>1 DEF Accounted, l
  <2>3. CASE i # k
    <3>1. m # n
      <4>1. CASE m = n
        <5>1. i = A!FindCategory(n) /\ k = A!FindCategory(n)
          BY <1>10, <4>1, ShortHandle
        <5> QED  BY <2>3, <5>1
      <4> QED  BY <4>1
    <3>2. categories'[i] = categories[i] /\ sums'[m] = sums[m]
      BY <1>6, <1>8, <2>3, <3>1
    <3> QED  BY <1>2, <1>6, <2>1, <2>2, <3>2 DEF Accounted
  <2>4. CASE i = k
    <3>1. categories'[i].total = categories[i].total + amount
      BY <1>4, <1>6, <2>4 DEF old
    <3>2. CASE m = n
      <4>1. sums'[m] = sums[m] + amount
        BY <1>8, <3>2
      <4>2. /\ categories'[i].total >= sums'[m]
            /\ categories[i].total = sums[m] => categories'[i].total = sums'[m]
        BY <1>3, <2>1, <3>1, <4>1 DEF Accounted
      <4> QED  BY <1>2, <1>6, <2>1, <2>2, <4>2 DEF Accounted
    <3>3. CASE m # n
      <4>1. sums'[m] = sums[m]
        BY <1>8, <3>3
      <4>2. categories'[i].total >= sums'[m]
        BY <1>3, <2>1, <3>1, <4>1 DEF Accounted
      <4> QED  BY <1>2, <1>6, <2>2, <2>4, <3>3, <4>2 DEF Accounted
    <3> QED  BY <3>2, <3>3
  <2> QED  BY <2>3, <2>4
<1> QED  BY <1>2, <1>6, <1>7, <1>8, <1>9, <1>10 DEF TallyInv, l

\* A reset keeps names and handles (tally_reset).
LEMMA TallyResets == TallyInv /\ A!tally_reset => TallyInv'
<1> SUFFICES ASSUME TallyInv, A!tally_reset PROVE TallyInv'
  OBVIOUS
<1> DEFINE l == Len(categories)
<1>1. /\ l \in Nat /\ DOMAIN categories = 1..l
      /\ \A i \in 1..l : categories[i] \in TallyCategory
  BY CategoryFacts
<1>2. /\ categories' = [i \in 1..l |-> [categories[i] EXCEPT !.count = 0, !.total = 0]]
      /\ handles' = handles /\ sums' = [n \in Names |-> 0]
  BY <1>1 DEF A!tally_reset
<1> HIDE DEF l
<1>3. ASSUME NEW c \in TallyCategory
      PROVE  /\ [c EXCEPT !.count = 0, !.total = 0] \in TallyCategory
             /\ [c EXCEPT !.count = 0, !.total = 0].name = c.name
             /\ [c EXCEPT !.count = 0, !.total = 0].total = 0
  BY DEF TallyCategory
<1>4. /\ categories' \in [1..l -> TallyCategory]
      /\ \A i \in 1..l : categories'[i].name = categories[i].name /\ categories'[i].total = 0
  BY <1>1, <1>2, <1>3
<1>5. categories' \in Seq(TallyCategory) /\ Len(categories') = l
  BY <1>1, <1>4, FunctionIsSeq
<1>6. sums' \in [Names -> Nat] /\ \A n \in Names : sums'[n] = 0
  BY <1>2
<1>7. ASSUME NEW n \in Names, NEW i \in 1..l, ~n.long, i \in handles[n]
      PROVE  Accounted(n, i)'
  <2>1. \A j \in 1..l : categories[j].name = n.stem => i <= j
    BY <1>7 DEF TallyInv, Accounted, l
  <2>2. categories'[i].total = 0 /\ sums'[n] = 0
    BY <1>4, <1>6
  <2> QED  BY <1>4, <1>5, <2>1, <2>2 DEF Accounted
<1> QED  BY <1>2, <1>4, <1>5, <1>6, <1>7 DEF TallyInv, l

\* The tally starts in its invariant and stays in it.
LEMMA TallyInit == A!tally_init => TallyInv
<1> SUFFICES ASSUME A!tally_init PROVE TallyInv
  OBVIOUS
<1>1. categories = <<>> /\ categories \in Seq(TallyCategory) /\ Len(categories) = 0
  BY EmptySeq DEF A!tally_init
<1>2. handles = [n \in Names |-> {}] /\ sums = [n \in Names |-> 0]
  BY DEF A!tally_init
<1>3. \A i \in 1..Len(categories) : FALSE
  BY <1>1
<1>4. handles \in [Names -> SUBSET (1..Len(categories))] /\ sums \in [Names -> Nat]
  BY <1>2
<1> QED  BY <1>1, <1>2, <1>3, <1>4 DEF TallyInv

\* Every step of a tally keeps its sums those of the handles.
LEMMA TallyStep == TallyInv /\ [A!TallyNext]_(A!tallyVars) => TallyInv'
<1> SUFFICES ASSUME TallyInv, [A!TallyNext]_(A!tallyVars) PROVE TallyInv'
  OBVIOUS
<1>1. CASE UNCHANGED A!tallyVars
  BY <1>1 DEF A!tallyVars, TallyInv, Accounted
<1>2. CASE A!RegisterRefused
  BY <1>1, <1>2 DEF A!RegisterRefused
<1> QED  BY <1>1, <1>2, TallyKnown, TallyNew, TallyAdds, TallyResets
         DEF A!TallyNext, A!tally_register

\* Balances and peaks of the ledger are true.
THEOREM LedgerIsTrue == A!Spec => []A!BalancesTrue
<1>1. LedgerInv => A!BalancesTrue
  BY LedgerBalances DEF A!BalancesTrue
<1>2. A!Init => LedgerInv
  BY LedgerInit DEF A!Init
<1>3. LedgerInv /\ [A!Next]_(A!vars) => LedgerInv'
  BY LedgerStep DEF A!Next, A!vars
<1> QED  BY <1>1, <1>2, <1>3, PTL DEF A!Spec

\* What is tallied is counted once, under its name.
THEOREM TallyIsTrue == A!Spec => []A!CountedOnce
<1>1. A!Init => TallyInv
  BY TallyInit DEF A!Init
<1>2. TallyInv /\ [A!Next]_(A!vars) => TallyInv'
  BY TallyStep DEF A!Next, A!vars
<1> QED  BY <1>1, <1>2, TallyCounts, PTL DEF A!Spec

-----------------------------------------------------------------------------
(* The scoreboard.                                                         *)

\* Where a process has its score, and what the entries tell of processes.
FirstPid(s, p) == S!SelectInSeq(s, LAMBDA e : e.pid = p)

BoardAt(s)     == [p \in {s[i].pid : i \in DOMAIN s} |-> s[FirstPid(s, p)].score]

ScoreInv(s) == s \in Seq(S!Entries) /\ Len(s) <= Room /\ OneEach(Len(s), SbKeys(s))

\* The keys and values of the entries.
LEMMA ScoreFacts ==
  ASSUME NEW s \in Seq(S!Entries)
  PROVE  /\ Len(s) \in Nat /\ DOMAIN s = 1..Len(s)
         /\ \A i \in 1..Len(s) : /\ SbKeys(s)[i] = s[i].pid /\ SbVals(s)[i] = s[i].score
                                 /\ s[i] \in S!Entries
BY SeqFacts DEF SbKeys, SbVals

\* A process is found where it is, or nowhere.
LEMMA PidFound ==
  ASSUME NEW s \in Seq(S!Entries), NEW p
  PROVE  /\ FirstPid(s, p) \in Nat
         /\ FirstPid(s, p) > 0 => FirstPid(s, p) \in 1..Len(s) /\ s[FirstPid(s, p)].pid = p
         /\ FirstPid(s, p) = 0 => \A i \in 1..Len(s) : s[i].pid # p
<1> DEFINE I == {i \in 1..Len(s) : s[i].pid = p}
           k == FirstPid(s, p)
           n == Len(s)
<1>1. k = IF I # {} THEN CHOOSE x \in I : \A y \in I : x <= y ELSE 0
  BY DEF FirstPid, S!SelectInSeq, S!Min
<1>2. n \in Nat /\ I \subseteq Nat
  BY SeqFacts
<1>3. FoundFirst(k, I)
  BY <1>1, <1>2, LeastIsFirst, Zenon
<1>4. \A i : i \in I <=> i \in 1..n /\ s[i].pid = p
  OBVIOUS
<1> HIDE DEF I, k, n
<1>5. CASE I = {}
  <2>1. k = 0
    BY <1>3, <1>5 DEF FoundFirst
  <2>2. k \in Nat /\ ~(k > 0)
    BY <2>1
  <2> QED  BY <1>4, <1>5, <2>2 DEF k, n
<1>6. CASE I # {}
  <2>1. k \in 1..n /\ s[k].pid = p
    BY <1>3, <1>4, <1>6 DEF FoundFirst
  <2>2. k > 0 /\ k # 0 /\ k \in Nat
    BY <1>2, <2>1
  <2> QED  BY <2>1, <2>2 DEF k, n
<1> QED  BY <1>5, <1>6

\* The entries tell what they pair.
LEMMA BoardTells ==
  ASSUME NEW s, ScoreInv(s)
  PROVE  /\ Tells(Scored(s), BoardAt(s))
         /\ \A p : p \in DOMAIN BoardAt(s) <=> \E i \in 1..Len(s) : s[i].pid = p
         /\ Cardinality(DOMAIN BoardAt(s)) = Len(s)
<1> DEFINE n == Len(s)
           D == {s[i].pid : i \in DOMAIN s}
           E == {p[1] : p \in Scored(s)}
           b == BoardAt(s)
<1>1. s \in Seq(S!Entries) /\ OneEach(n, SbKeys(s))
  BY DEF ScoreInv
<1>2. /\ n \in Nat /\ DOMAIN s = 1..n
      /\ \A i \in 1..n : SbKeys(s)[i] = s[i].pid /\ SbVals(s)[i] = s[i].score
  BY <1>1, ScoreFacts
<1>3. \A p : p \in D <=> \E i \in 1..n : s[i].pid = p
  BY <1>2
<1>4. \A p : p \in Scored(s) <=> \E i \in 1..n : p = <<SbKeys(s)[i], SbVals(s)[i]>>
  BY PairFacts DEF Scored
<1> HIDE DEF n
<1>5. E = D
  <2>1. ASSUME NEW k \in E PROVE k \in D
    <3>1. PICK p \in Scored(s) : k = p[1]
      OBVIOUS
    <3>2. PICK i \in 1..n : p = <<SbKeys(s)[i], SbVals(s)[i]>>
      BY <1>4, Zenon
    <3>3. k = s[i].pid
      BY <1>2, <3>1, <3>2
    <3> QED  BY <1>3, <3>3, Zenon
  <2>2. ASSUME NEW i \in 1..n PROVE s[i].pid \in E
    <3>1. <<SbKeys(s)[i], SbVals(s)[i]>> \in Scored(s)
      BY <1>4, Zenon
    <3>2. <<SbKeys(s)[i], SbVals(s)[i]>>[1] = s[i].pid
      BY <1>2
    <3> QED  BY <3>1, <3>2, Zenon
  <2> QED  BY <1>3, <2>1, <2>2
<1>6. ASSUME NEW p \in Scored(s) PROVE b[p[1]] = p[2]
  <2>1. PICK i \in 1..n : p = <<SbKeys(s)[i], SbVals(s)[i]>>
    BY <1>4, Zenon
  <2>2. p[1] = s[i].pid /\ p[2] = s[i].score
    BY <1>2, <2>1
  <2> DEFINE j == FirstPid(s, p[1])
  <2>3. /\ j \in Nat
        /\ j > 0 => j \in 1..n /\ s[j].pid = p[1]
        /\ j = 0 => \A x \in 1..n : s[x].pid # p[1]
    BY <1>1, PidFound DEF n
  <2>4. b[p[1]] = s[j].score
    <3>1. p[1] \in D
      BY <1>3, <2>2, Zenon
    <3> QED  BY <3>1 DEF BoardAt
  <2> HIDE DEF j
  <2>5. j \in 1..n /\ s[j].pid = s[i].pid
    <3>1. j # 0
      BY <2>2, <2>3, Zenon
    <3> QED  BY <2>2, <2>3, <3>1
  <2>6. j = i
    <3>1. SbKeys(s)[j] = SbKeys(s)[i]
      BY <1>2, <2>5, Zenon
    <3> QED  BY <1>1, <2>5, <3>1, Zenon DEF OneEach
  <2> QED  BY <2>2, <2>4, <2>6, Zenon
<1>7. b = [k \in D |-> b[k]] /\ DOMAIN b = D
  BY DEF BoardAt
<1> HIDE DEF b, D
<1>8. Tells(Scored(s), b)
  <2>1. b = [k \in E |-> b[k]]
    BY <1>5, <1>7, Zenon
  <2> QED  BY <1>6, <2>1, Zenon DEF Tells
<1>9. Cardinality(E) = n
  BY <1>1, <1>2, KeysCount DEF Scored, n
<1> QED  BY <1>3, <1>5, <1>7, <1>8, <1>9, Zenon DEF b, n

\* An entry is updated in place (scoreboard_upsert).
LEMMA ScoreUpdated ==
  ASSUME NEW s, ScoreInv(s), NEW at \in 1..Len(s), NEW v \in Sizes
  PROVE  /\ ScoreInv([s EXCEPT ![at].score = v])
         /\ Scored([s EXCEPT ![at].score = v])
              = Rest(Scored(s), s[at].pid) \cup {<<s[at].pid, v>>}
<1> DEFINE n == Len(s)
           e == [s[at] EXCEPT !.score = v]
           t == [s EXCEPT ![at] = e]
<1>1. s \in Seq(S!Entries) /\ n <= Room /\ OneEach(n, SbKeys(s))
  BY DEF ScoreInv
<1>2. e \in S!Entries /\ e.pid = s[at].pid /\ e.score = v
  <2>1. s[at] \in S!Entries
    BY <1>1, ScoreFacts
  <2> QED  BY <2>1 DEF S!Entries
<1> HIDE DEF e
<1>3. /\ t \in Seq(S!Entries) /\ Len(t) = n /\ t[at] = e
      /\ \A i \in 1..n : i # at => t[i] = s[i]
  BY <1>1, <1>2, ExceptFacts
<1> HIDE DEF t
<1>4. /\ \A i \in 1..n : SbKeys(t)[i] = t[i].pid /\ SbVals(t)[i] = t[i].score
      /\ \A i \in 1..n : SbKeys(s)[i] = s[i].pid /\ SbVals(s)[i] = s[i].score
  <2>1. \A i \in 1..Len(t) : SbKeys(t)[i] = t[i].pid /\ SbVals(t)[i] = t[i].score
    BY <1>3, ScoreFacts
  <2>2. \A i \in 1..n : SbKeys(s)[i] = s[i].pid /\ SbVals(s)[i] = s[i].score
    BY <1>1, ScoreFacts
  <2> QED  BY <1>3, <2>1, <2>2, Zenon
<1>5. SbKeys(t) = SbKeys(s)
  <2>1. SbKeys(t) = [i \in 1..n |-> t[i].pid] /\ SbKeys(s) = [i \in 1..n |-> s[i].pid]
    BY <1>3, Zenon DEF SbKeys
  <2>2. \A i \in 1..n : t[i].pid = s[i].pid
    BY <1>2, <1>3, Zenon
  <2> HIDE DEF n
  <2> QED  BY <2>1, <2>2
<1>6. \A i \in 1..n : i # at => SbVals(t)[i] = SbVals(s)[i]
  BY <1>3, <1>4, Zenon
<1>7. SbKeys(s)[at] = s[at].pid /\ SbVals(t)[at] = v
  BY <1>2, <1>3, <1>4, Zenon
<1>8. Pairs(n, SbKeys(s), SbVals(t))
        = Rest(Pairs(n, SbKeys(s), SbVals(s)), s[at].pid) \cup {<<s[at].pid, v>>}
  <2> HIDE DEF n
  <2>1. at \in 1..n
    BY DEF n
  <2>2. Pairs(n, SbKeys(s), SbVals(t))
          = Rest(Pairs(n, SbKeys(s), SbVals(s)), SbKeys(s)[at])
              \cup {<<SbKeys(s)[at], SbVals(t)[at]>>}
    BY <1>1, <1>6, <2>1, PairsChange
  <2> QED  BY <1>7, <2>2, Zenon
<1>9. ScoreInv(t)
  BY <1>1, <1>3, <1>5, Zenon DEF ScoreInv
<1>10. Scored(t) = Rest(Scored(s), s[at].pid) \cup {<<s[at].pid, v>>}
  BY <1>3, <1>5, <1>8, Zenon DEF Scored
<1>11. [s EXCEPT ![at].score = v] = t
  BY DEF t, e
<1> QED  BY <1>9, <1>10, <1>11, Zenon

\* An entry is appended (scoreboard_upsert).
LEMMA ScoreInserted ==
  ASSUME NEW s, ScoreInv(s), Len(s) < Room, NEW p \in Pids, NEW v \in Sizes,
         \A i \in 1..Len(s) : s[i].pid # p
  PROVE  /\ ScoreInv(Append(s, [pid |-> p, score |-> v]))
         /\ Scored(Append(s, [pid |-> p, score |-> v])) = Rest(Scored(s), p) \cup {<<p, v>>}
<1> DEFINE n == Len(s)
           e == [pid |-> p, score |-> v]
           t == Append(s, e)
           ks == SbKeys(s)
           vs == SbVals(s)
           js == SbKeys(t)
           us == SbVals(t)
<1>1. s \in Seq(S!Entries) /\ OneEach(n, ks)
  BY DEF ScoreInv
<1>2. e \in S!Entries /\ e.pid = p /\ e.score = v
  BY DEF S!Entries
<1> HIDE DEF e
<1>3. /\ t \in Seq(S!Entries) /\ n \in Nat /\ Len(t) = n + 1 /\ t[n + 1] = e
      /\ \A i \in 1..n : t[i] = s[i]
  BY <1>1, <1>2, AppendFacts
<1>4. \A i \in 1..n : ks[i] = s[i].pid /\ vs[i] = s[i].score
  BY <1>1, ScoreFacts
<1>5. \A i \in 1..(n + 1) : js[i] = t[i].pid /\ us[i] = t[i].score
  BY <1>3, ScoreFacts
<1>6. n + 1 <= Room
  BY <1>3, RoomAssumption
<1>7. \A i \in 1..n : s[i].pid # p
  OBVIOUS
<1> HIDE DEF n, t, ks, vs, js, us
<1>8. \A i : i \in 1..n => i \in 1..(n + 1)
  BY <1>3
<1>9. js[n + 1] = p /\ us[n + 1] = v
  <2>1. n + 1 \in 1..(n + 1)
    BY <1>3
  <2> QED  BY <1>2, <1>3, <1>5, <2>1, Zenon
<1>10. \A i \in 1..n : js[i] = ks[i] /\ us[i] = vs[i]
  BY <1>3, <1>4, <1>5, <1>8, Zenon
<1>11. \A i \in 1..n : ks[i] # js[n + 1]
  BY <1>4, <1>7, <1>9, Zenon
<1>a. Adds(n, ks, vs, js, us)
  BY <1>10, <1>11, Zenon DEF Adds
<1>12. /\ OneEach(n + 1, js)
       /\ Pairs(n + 1, js, us) = Rest(Pairs(n, ks, vs), js[n + 1]) \cup {<<js[n + 1], us[n + 1]>>}
  BY <1>1, <1>3, <1>a, PairsAdd
<1>13. ScoreInv(t)
  BY <1>3, <1>6, <1>12, Zenon DEF ScoreInv, js
<1>14. Scored(t) = Rest(Scored(s), p) \cup {<<p, v>>}
  BY <1>3, <1>9, <1>12, Zenon DEF Scored, js, us, ks, vs, n
<1> QED  BY <1>13, <1>14, Zenon DEF t, e

\* The gap of a removed entry is filled with the last one (scoreboard_remove).
LEMMA ScoreRemoved ==
  ASSUME NEW s, ScoreInv(s), NEW at \in 1..Len(s)
  PROVE  LET t == SubSeq([s EXCEPT ![at] = s[Len(s)]], 1, Len(s) - 1)
         IN  ScoreInv(t) /\ Scored(t) = Rest(Scored(s), s[at].pid)
<1> DEFINE n == Len(s)
           r == [s EXCEPT ![at] = s[n]]
           m == n - 1
           t == SubSeq(r, 1, m)
           f == [i \in 1..m |-> IF i = at THEN n ELSE i]
           ks == SbKeys(s)
           vs == SbVals(s)
           js == SbKeys(t)
           us == SbVals(t)
<1>1. s \in Seq(S!Entries) /\ OneEach(n, ks) /\ n <= Room
  BY DEF ScoreInv
<1>2. n \in Nat /\ at \in 1..n /\ n \in 1..n
  <2>1. Len(s) \in Nat
    BY <1>1, ScoreFacts
  <2> QED  BY <2>1
<1>3. s[n] \in S!Entries
  BY <1>1, <1>2, ScoreFacts
<1>4. /\ r \in Seq(S!Entries) /\ Len(r) = n /\ r[at] = s[n]
      /\ \A i \in 1..n : i # at => r[i] = s[i]
  BY <1>1, <1>3, ExceptFacts
<1>5. \A i \in 1..n : ks[i] = s[i].pid /\ vs[i] = s[i].score
  BY <1>1, ScoreFacts
<1> HIDE DEF r
<1>6. \A i \in 1..n : r[i] \in S!Entries
  <2>1. \A i \in 1..Len(r) : r[i] \in S!Entries
    BY <1>4, SeqFacts
  <2> QED  BY <1>4, <2>1, Zenon
<1> HIDE DEF n
<1>7. m \in Nat /\ m <= n /\ n = m + 1 /\ \A i \in 1..m : i \in 1..n
  BY <1>2
<1>8. t \in Seq(S!Entries) /\ Len(t) = m /\ \A i \in 1..m : t[i] = r[i]
  <2> HIDE DEF m, t
  <2>1. m \in Int /\ 1 \in Int /\ \A i \in 1..m : r[i] \in S!Entries
    BY <1>6, <1>7
  <2>2. /\ SubSeq(r, 1, m) \in Seq(S!Entries)
        /\ Len(SubSeq(r, 1, m)) = IF 1 <= m THEN m - 1 + 1 ELSE 0
        /\ \A i \in 1..(m - 1 + 1) : SubSeq(r, 1, m)[i] = r[1 + i - 1]
    BY <2>1, SubSeqProperties
  <2>3. Len(SubSeq(r, 1, m)) = m
    BY <1>7, <2>2
  <2>4. \A i \in 1..m : SubSeq(r, 1, m)[i] = r[i]
    <3> SUFFICES ASSUME NEW i \in 1..m PROVE SubSeq(r, 1, m)[i] = r[i]
      OBVIOUS
    <3>1. i \in 1..(m - 1 + 1) /\ 1 + i - 1 = i
      BY <1>7
    <3>2. SubSeq(r, 1, m)[i] = r[1 + i - 1]
      BY <2>2, <3>1
    <3> QED  BY <3>1, <3>2, Zenon
  <2> QED  BY <2>2, <2>3, <2>4, Zenon DEF t
<1>9. \A i \in 1..m : js[i] = t[i].pid /\ us[i] = t[i].score
  <2>1. \A i \in 1..Len(t) : js[i] = t[i].pid /\ us[i] = t[i].score
    BY <1>8, ScoreFacts
  <2> QED  BY <1>8, <2>1, Zenon
<1> HIDE DEF t, ks, vs, js, us
<1>10. Moves(f, m, 1..n \ {at}, ks, vs, js, us)
  <2>1. ASSUME NEW i \in 1..m
        PROVE  f[i] \in 1..n \ {at} /\ js[i] = ks[f[i]] /\ us[i] = vs[f[i]]
    <3>1. f[i] = IF i = at THEN n ELSE i
      OBVIOUS
    <3> HIDE DEF f, m
    <3>2. CASE i = at
      <4>1. f[i] = n /\ n # at
        BY <1>2, <1>7, <3>1, <3>2
      <4>2. t[i] = s[n]
        BY <1>4, <1>8, <3>2, Zenon
      <4> QED  BY <1>2, <1>5, <1>9, <4>1, <4>2
    <3>3. CASE i # at
      <4>1. f[i] = i /\ i \in 1..n
        BY <1>7, <3>1, <3>3
      <4>2. t[i] = s[i]
        BY <1>4, <1>8, <3>3, <4>1, Zenon
      <4> QED  BY <1>5, <1>9, <3>3, <4>1, <4>2
    <3> QED  BY <3>2, <3>3
  <2>2. ASSUME NEW i \in 1..m, NEW j \in 1..m, f[i] = f[j] PROVE i = j
    BY <1>2, <2>2
  <2>3. ASSUME NEW j \in 1..n \ {at} PROVE \E i \in 1..m : f[i] = j
    <3>1. CASE j = n
      <4>1. at \in 1..m /\ f[at] = n
        BY <1>2, <2>3, <3>1
      <4> QED  BY <3>1, <4>1, Zenon
    <3>2. CASE j # n
      <4>1. j \in 1..m /\ f[j] = j
        BY <1>2, <2>3, <3>2
      <4> QED  BY <4>1, Zenon
    <3> QED  BY <3>1, <3>2
  <2> HIDE DEF f, m
  <2> QED  BY <2>1, <2>2, <2>3, Zenon DEF Moves
<1> HIDE DEF f
<1>11. OneEach(m, js) /\ Pairs(m, js, us) = Rest(Pairs(n, ks, vs), ks[at])
  <2> DEFINE J == 1..n \ {at}
  <2> HIDE DEF m
  <2>1. at \in 1..n /\ AllBut(J, n, at)
    BY <1>2 DEF AllBut
  <2>2. Moves(f, m, J, ks, vs, js, us)
    BY <1>10
  <2>3. OneEach(n, ks)
    BY <1>1
  <2> HIDE DEF J
  <2> QED  BY <2>1, <2>2, <2>3, PairsDrop
<1>12. m <= Room
  BY <1>1, <1>2, RoomAssumption
<1>13. ScoreInv(t)
  BY <1>8, <1>11, <1>12, Zenon DEF ScoreInv, js
<1>14. ks[at] = s[at].pid
  BY <1>2, <1>5, Zenon
<1>15. Scored(t) = Rest(Scored(s), s[at].pid)
  BY <1>8, <1>11, <1>14, Zenon DEF Scored, js, us, ks, vs, n
<1> QED  BY <1>13, <1>15, Zenon DEF t, r, n

\* The entries are sorted: each is somewhere, once (scoreboard_sort).
LEMMA ScoreSorted ==
  ASSUME NEW s, ScoreInv(s), NEW t \in S!SetToSeqs(S!ToSet(s))
  PROVE  ScoreInv(t) /\ Scored(t) = Scored(s)
<1> DEFINE n == Len(s)
           T == S!ToSet(s)
           g == [i \in 1..n |-> s[i]]
           ks == SbKeys(s)
           vs == SbVals(s)
           js == SbKeys(t)
           us == SbVals(t)
<1>1. s \in Seq(S!Entries) /\ OneEach(n, ks) /\ n <= Room
  BY DEF ScoreInv
<1>2. /\ n \in Nat /\ DOMAIN s = 1..n
      /\ \A i \in 1..n : ks[i] = s[i].pid /\ vs[i] = s[i].score /\ s[i] \in S!Entries
  BY <1>1, ScoreFacts
<1>3. \A x : x \in T <=> \E i \in 1..n : s[i] = x
  BY <1>2 DEF S!ToSet
<1> HIDE DEF n, ks, vs
<1>4. \A i, j \in 1..n : s[i] = s[j] => i = j
  <2> SUFFICES ASSUME NEW i \in 1..n, NEW j \in 1..n, s[i] = s[j] PROVE i = j
    OBVIOUS
  <2>1. ks[i] = ks[j]
    BY <1>2
  <2> QED  BY <1>1, <2>1, Zenon DEF OneEach
<1>5. Cardinality(T) = n
  <2> HIDE DEF T
  <2>1. g \in [1..n -> T] /\ \A i \in 1..n : g[i] = s[i]
    BY <1>3
  <2> HIDE DEF g
  <2>2. \A i, j \in 1..n : g[i] = g[j] => i = j
    BY <1>4, <2>1, Zenon
  <2>3. \A x \in T : \E i \in 1..n : g[i] = x
    BY <1>3, <2>1, Zenon
  <2>4. g \in Bijection(1..n, T)
    BY <2>1, <2>2, <2>3, Fun_IsBij
  <2>5. ExistsBijection(1..n, T)
    BY <2>4, Fun_ExistsBij
  <2>6. IsFiniteSet(1..n) /\ Cardinality(1..n) = n
    BY <1>2, FS_Interval
  <2> QED  BY <2>5, <2>6, FS_Bijection
<1>6. t \in [1..n -> T] /\ \A i, j \in 1..n : i # j => t[i] # t[j]
  <2>1. S!Cardinality(T) = n
    BY <1>5, SameCardinality
  <2> HIDE DEF T
  <2>2. t \in S!SetToSeqs(T)
    BY DEF T
  <2> QED  BY <2>1, <2>2 DEF S!SetToSeqs
<1>7. T \subseteq S!Entries
  BY <1>2, <1>3
<1> HIDE DEF T
<1>8. t \in Seq(S!Entries) /\ Len(t) = n
  <2>1. t \in [1..n -> S!Entries]
    BY <1>6, <1>7
  <2> QED  BY <1>2, <2>1, FunctionIsSeq
<1>9. \A i \in 1..n : js[i] = t[i].pid /\ us[i] = t[i].score
  <2>1. \A i \in 1..Len(t) : js[i] = t[i].pid /\ us[i] = t[i].score
    BY <1>8, ScoreFacts
  <2> QED  BY <1>8, <2>1, Zenon
<1> HIDE DEF js, us
<1> DEFINE f == [i \in 1..n |-> CHOOSE j \in 1..n : s[j] = t[i]]
<1>10. \A i \in 1..n : f[i] \in 1..n /\ s[f[i]] = t[i]
  <2> SUFFICES ASSUME NEW i \in 1..n PROVE f[i] \in 1..n /\ s[f[i]] = t[i]
    OBVIOUS
  <2>1. t[i] \in T
    BY <1>6
  <2>2. \E j \in 1..n : s[j] = t[i]
    BY <1>3, <2>1, Zenon
  <2>3. f[i] = CHOOSE j \in 1..n : s[j] = t[i]
    OBVIOUS
  <2> HIDE DEF f
  <2> QED  BY <2>2, <2>3, Zenon
<1>11. f \in [1..n -> 1..n]
  <2>1. \A i \in 1..n : (CHOOSE j \in 1..n : s[j] = t[i]) \in 1..n
    BY <1>10
  <2> QED  BY <2>1
<1> HIDE DEF f
<1>12. \A i, j \in 1..n : f[i] = f[j] => i = j
  BY <1>6, <1>10, Zenon
<1>13. \A j \in 1..n : \E i \in 1..n : f[i] = j
  <2>1. IsFiniteSet(1..n)
    BY <1>2, FS_Interval
  <2>2. f \in Injection(1..n, 1..n)
    BY <1>11, <1>12, Fun_IsInj
  <2>3. f \in Surjection(1..n, 1..n)
    BY <2>1, <2>2, FS_Injection
  <2> QED  BY <2>3 DEF Surjection
<1>14. Moves(f, n, 1..n, ks, vs, js, us)
  <2>1. ASSUME NEW i \in 1..n PROVE f[i] \in 1..n /\ js[i] = ks[f[i]] /\ us[i] = vs[f[i]]
    <3>1. f[i] \in 1..n /\ s[f[i]] = t[i]
      BY <1>10
    <3> QED  BY <1>2, <1>9, <3>1, Zenon
  <2> QED  BY <1>12, <1>13, <2>1, Zenon DEF Moves
<1>15. OneEach(n, js) /\ Pairs(n, js, us) = Pairs(n, ks, vs)
  <2> DEFINE J == 1..n
  <2>1. J \in SUBSET (1..n) /\ 1..n \subseteq J /\ Moves(f, n, J, ks, vs, js, us)
    BY <1>14
  <2> HIDE DEF J
  <2> QED  BY <1>1, <2>1, PairsShuffle
<1>16. ScoreInv(t)
  BY <1>1, <1>8, <1>15, Zenon DEF ScoreInv, js
<1>17. Scored(t) = Scored(s)
  BY <1>8, <1>15, Zenon DEF Scored, js, us, ks, vs, n
<1> QED  BY <1>16, <1>17

\* The scoreboard's functions are those of its entries.
LEMMA BoardIs ==
  /\ S!Board = BoardAt(sbEntries) /\ S!Board' = BoardAt(sbEntries')
  /\ \A p : S!Find(p) = FirstPid(sbEntries, p)
  /\ \A p : FirstPid(sbEntries, p) > 0 <=> S!Find(p) > 0
<1>1. \A p : S!Find(p) = FirstPid(sbEntries, p)
  BY DEF S!Find, FirstPid
<1>2. S!Board = BoardAt(sbEntries)
  BY <1>1, Zenon DEF S!Board, BoardAt
<1>3. \A p : S!Find(p)' = FirstPid(sbEntries', p)
  BY DEF S!Find, FirstPid, S!SelectInSeq
<1>4. S!Board' = BoardAt(sbEntries')
  BY <1>3, Zenon DEF S!Board, BoardAt
<1> QED  BY <1>1, <1>2, <1>4, Zenon

\* The scores that were put are those that are found (scoreboard_upsert).
LEMMA ScorePuts ==
  ASSUME ScoreInv(sbEntries), S!Update \/ S!Insert
  PROVE  ScoreInv(sbEntries') /\ S!Table!Put
<1> DEFINE s == sbEntries
           b == BoardAt(s)
<1>1. /\ Tells(Scored(s), b)
      /\ \A p : p \in DOMAIN b <=> \E i \in 1..Len(s) : s[i].pid = p
      /\ Cardinality(DOMAIN b) = Len(s)
  BY BoardTells
<1>2. s \in Seq(S!Entries)
  BY DEF ScoreInv
<1>3. S!Board = b /\ S!Board' = BoardAt(s')
  BY BoardIs, Zenon
<1>4. ASSUME NEW p \in Pids, NEW v \in Sizes, p \in DOMAIN b \/ Len(s) < Room,
             ScoreInv(s'), Scored(s') = Rest(Scored(s), p) \cup {<<p, v>>}, sbResult' = "ok"
      PROVE  S!Table!Put
  <2> DEFINE c == [j \in DOMAIN b \cup {p} |-> IF j = p THEN v ELSE b[j]]
  <2>1. Tells(Scored(s'), c)
    <3>1. Tells(Scored(s), b)
      BY <1>1
    <3> HIDE DEF b, s
    <3>2. Tells(Rest(Scored(s), p) \cup {<<p, v>>}, c)
      BY <3>1, TellsPut
    <3> HIDE DEF c
    <3> QED  BY <1>4, <3>2, Zenon
  <2>2. Tells(Scored(s'), BoardAt(s'))
    BY <1>4, BoardTells
  <2>3. BoardAt(s') = c
    BY <2>1, <2>2, TellsOne, Zenon
  <2>4. p \in S!Table!Known \/ ~S!Table!Full
    <3>1. CASE p \in DOMAIN b
      BY <1>3, <3>1, Zenon DEF S!Table!Known
    <3>2. CASE Len(s) < Room
      <4>1. S!Table!Full <=> Len(s) = Room
        BY <1>1, <1>3, SameCardinality, Zenon DEF S!Table!Full, S!Table!Known
      <4>2. Len(s) \in Nat
        BY <1>2, ScoreFacts
      <4> DEFINE n == Len(s)
      <4> HIDE DEF n, s, b
      <4>3. n # Room
        BY <3>2, <4>2, RoomAssumption DEF n
      <4> QED  BY <4>1, <4>3, Zenon DEF n
    <3> QED  BY <1>4, <3>1, <3>2
  <2>5. S!Board' = [j \in S!Table!Known \cup {p} |-> IF j = p THEN v ELSE S!Board[j]]
    BY <1>3, <2>3, Zenon DEF S!Table!Known
  <2> QED  BY <1>4, <2>4, <2>5, Zenon DEF S!Table!Put
<1>5. CASE S!Update
  <2>1. PICK p \in Pids, v \in Sizes :
          /\ S!Find(p) > 0
          /\ s' = [s EXCEPT ![S!Find(p)].score = v]
          /\ sbResult' = "ok"
    BY <1>5 DEF S!Update
  <2> DEFINE k == FirstPid(s, p)
  <2>2. k > 0 /\ s' = [s EXCEPT ![k].score = v]
    <3>1. S!Find(p) = k
      BY BoardIs, Zenon
    <3> QED  BY <2>1, <3>1, Zenon
  <2>3. k \in 1..Len(s) /\ s[k].pid = p
    BY <1>2, <2>2, PidFound
  <2> HIDE DEF k
  <2>4. ScoreInv(s') /\ Scored(s') = Rest(Scored(s), p) \cup {<<p, v>>}
    <3>1. /\ ScoreInv([s EXCEPT ![k].score = v])
          /\ Scored([s EXCEPT ![k].score = v]) = Rest(Scored(s), s[k].pid) \cup {<<s[k].pid, v>>}
      BY <2>3, ScoreUpdated
    <3> QED  BY <2>2, <2>3, <3>1, Zenon
  <2>5. p \in DOMAIN b
    BY <1>1, <2>3, Zenon
  <2> QED  BY <1>4, <2>1, <2>4, <2>5, Zenon
<1>6. CASE S!Insert
  <2>1. PICK p \in Pids, v \in Sizes :
          /\ S!Find(p) = 0
          /\ s' = Append(s, [pid |-> p, score |-> v])
          /\ sbResult' = "ok" /\ Len(s) < Room
    BY <1>6 DEF S!Insert
  <2>2. FirstPid(s, p) = 0
    BY <2>1, BoardIs, Zenon
  <2>3. \A i \in 1..Len(s) : s[i].pid # p
    BY <1>2, <2>2, PidFound
  <2>4. ScoreInv(s') /\ Scored(s') = Rest(Scored(s), p) \cup {<<p, v>>}
    <3>1. /\ ScoreInv(Append(s, [pid |-> p, score |-> v]))
          /\ Scored(Append(s, [pid |-> p, score |-> v])) = Rest(Scored(s), p) \cup {<<p, v>>}
      BY <2>1, <2>3, ScoreInserted
    <3> QED  BY <2>1, <3>1, Zenon
  <2> QED  BY <1>4, <2>1, <2>4, Zenon
<1> QED  BY <1>5, <1>6

\* What is not known is not found, and is in nobody's way.
LEMMA PidUnknown ==
  ASSUME ScoreInv(sbEntries), NEW p \in Pids, S!Find(p) = 0
  PROVE  p \in Pids \ S!Table!Known
<1>1. FirstPid(sbEntries, p) = 0
  BY BoardIs, Zenon
<1>2. sbEntries \in Seq(S!Entries)
  BY DEF ScoreInv
<1>3. \A i \in 1..Len(sbEntries) : sbEntries[i].pid # p
  BY <1>1, <1>2, PidFound
<1>4. p \notin DOMAIN BoardAt(sbEntries)
  BY <1>3, BoardTells, Zenon
<1> QED  BY <1>4, BoardIs, Zenon DEF S!Table!Known

\* Every step of the scoreboard is one of the table.
LEMMA ScoreStep ==
  ASSUME ScoreInv(sbEntries), [S!Next]_(S!vars)
  PROVE  ScoreInv(sbEntries') /\ [S!Table!Next]_(S!Table!tableVars)
<1> DEFINE s == sbEntries
           b == BoardAt(s)
<1>1. /\ Tells(Scored(s), b)
      /\ \A p : p \in DOMAIN b <=> \E i \in 1..Len(s) : s[i].pid = p
      /\ Cardinality(DOMAIN b) = Len(s)
  BY BoardTells
<1>2. s \in Seq(S!Entries) /\ Len(s) \in Nat /\ Len(s) <= Room
  BY ScoreFacts DEF ScoreInv
<1>3. S!Board = b /\ S!Board' = BoardAt(s')
  BY BoardIs, Zenon
<1>4. CASE S!Update \/ S!Insert
  BY <1>4, ScorePuts, Zenon DEF S!Table!Next
<1>5. CASE S!RefuseInsert
  <2>1. Len(s) >= Room /\ sbResult' = "full" /\ s' = s
    BY <1>5 DEF S!RefuseInsert
  <2>2. PICK p \in Pids : S!Find(p) = 0
    BY <1>5 DEF S!RefuseInsert
  <2>3. S!Table!Full
    <3>1. S!Table!Full <=> Len(s) = Room
      BY <1>1, <1>3, SameCardinality, Zenon DEF S!Table!Full, S!Table!Known
    <3> DEFINE n == Len(s)
    <3>2. n \in Nat /\ n <= Room /\ n >= Room
      BY <1>2, <2>1
    <3> HIDE DEF n
    <3>3. n = Room
      BY <3>2, RoomAssumption
    <3> QED  BY <3>1, <3>3, Zenon DEF n
  <2>4. Pids \ S!Table!Known # {}
    BY <2>2, PidUnknown, Zenon
  <2>5. S!Board' = S!Board
    BY <1>3, <2>1, Zenon
  <2> QED  BY <2>1, <2>3, <2>4, <2>5, Zenon DEF S!Table!Refuse, S!Table!Next
<1>6. CASE S!scoreboard_remove
  <2>1. CASE sbResult' = "ok" /\ \E p \in Pids : S!Find(p) > 0 /\ s' = S!FillGap(S!Find(p))
    <3>1. PICK p \in Pids : S!Find(p) > 0 /\ s' = S!FillGap(S!Find(p))
      BY <2>1
    <3> DEFINE k == FirstPid(s, p)
               t == SubSeq([s EXCEPT ![k] = s[Len(s)]], 1, Len(s) - 1)
    <3>2. k > 0 /\ s' = t
      <4>1. S!Find(p) = k
        BY BoardIs, Zenon
      <4>2. S!FillGap(k) = t
        BY DEF S!FillGap
      <4> QED  BY <3>1, <4>1, <4>2, Zenon
    <3>3. k \in 1..Len(s) /\ s[k].pid = p
      BY <1>2, <3>2, PidFound
    <3>4. ScoreInv(s') /\ Scored(s') = Rest(Scored(s), p)
      <4> HIDE DEF k
      <4>1. ScoreInv(t) /\ Scored(t) = Rest(Scored(s), s[k].pid)
        BY <3>3, ScoreRemoved, Zenon
      <4> QED  BY <3>2, <3>3, <4>1, Zenon
    <3> HIDE DEF t
    <3> DEFINE c == [j \in DOMAIN b \ {p} |-> b[j]]
    <3>5. Tells(Scored(s'), c)
      <4>1. Tells(Scored(s), b)
        BY <1>1
      <4> HIDE DEF b, s
      <4>2. Tells(Rest(Scored(s), p), c)
        BY <4>1, TellsDrop
      <4> HIDE DEF c
      <4> QED  BY <3>4, <4>2, Zenon
    <3>6. Tells(Scored(s'), BoardAt(s'))
      BY <3>4, BoardTells
    <3>7. BoardAt(s') = c
      BY <3>5, <3>6, TellsOne, Zenon
    <3>8. p \in DOMAIN b
      BY <1>1, <3>3, Zenon
    <3>9. p \in S!Table!Known /\ S!Board' = [j \in S!Table!Known \ {p} |-> S!Board[j]]
      BY <1>3, <3>7, <3>8, Zenon DEF S!Table!Known
    <3>10. S!Table!Remove
      BY <2>1, <3>9, Zenon DEF S!Table!Remove
    <3> QED  BY <3>4, <3>10, Zenon DEF S!Table!Next
  <2>2. CASE sbResult' = "missing" /\ s' = s /\ \E p \in Pids : S!Find(p) = 0
    <3>1. Pids \ S!Table!Known # {}
      BY <2>2, PidUnknown, Zenon
    <3>2. S!Board' = S!Board
      BY <1>3, <2>2, Zenon
    <3> QED  BY <2>2, <3>1, <3>2, Zenon DEF S!Table!Miss, S!Table!Next
  <2> QED  BY <1>6, <2>1, <2>2, Zenon DEF S!scoreboard_remove
<1>7. CASE S!scoreboard_sort
  <2>1. s' \in S!SetToSeqs(S!ToSet(s)) /\ sbResult' = "ok"
    BY <1>7 DEF S!scoreboard_sort
  <2>2. ScoreInv(s') /\ Scored(s') = Scored(s)
    BY <2>1, ScoreSorted
  <2>3. Tells(Scored(s), BoardAt(s'))
    <3>1. Tells(Scored(s'), BoardAt(s'))
      BY <2>2, BoardTells
    <3> QED  BY <2>2, <3>1, Zenon
  <2>4. S!Board' = S!Board
    BY <1>1, <1>3, <2>3, TellsOne, Zenon
  <2> QED  BY <2>1, <2>2, <2>4, Zenon DEF S!Table!Reorder, S!Table!Next
<1>8. CASE UNCHANGED S!vars
  <2>1. s' = s /\ sbResult' = sbResult
    BY <1>8 DEF S!vars
  <2>2. S!Board' = S!Board
    BY <1>3, <2>1, Zenon
  <2> QED  BY <2>1, <2>2, Zenon DEF S!Table!tableVars
<1> QED  BY <1>4, <1>5, <1>6, <1>7, <1>8, Zenon DEF S!Next, S!scoreboard_upsert

\* A board without entries.
LEMMA ScoreInit == S!Init => ScoreInv(sbEntries) /\ S!Table!Init
<1> SUFFICES ASSUME S!Init PROVE ScoreInv(sbEntries) /\ S!Table!Init
  OBVIOUS
<1>1. sbEntries = <<>> /\ sbResult = "ok"
  BY DEF S!Init
<1>2. ScoreInv(<<>>)
  <2>1. <<>> \in Seq(S!Entries) /\ Len(<<>>) = 0
    BY EmptySeq
  <2> QED  BY <2>1, RoomAssumption DEF ScoreInv, OneEach
<1>3. BoardAt(<<>>) = [k \in {} |-> 0]
  BY DEF BoardAt
<1>4. S!Board = [k \in {} |-> 0]
  BY <1>1, <1>3, BoardIs, Zenon
<1> QED  BY <1>1, <1>2, <1>4, Zenon DEF S!Table!Init

\* The scoreboard is a table, however its array is moved and sorted
\* (scoreboard_upsert, scoreboard_remove, scoreboard_sort, scoreboard_get).
THEOREM ScoreboardIsTable == S!Spec => S!ImplementsTable
<1> DEFINE I == ScoreInv(sbEntries)
<1>1. S!Init => I /\ S!Table!Init
  BY ScoreInit
<1>2. I /\ [S!Next]_(S!vars) => I' /\ [S!Table!Next]_(S!Table!tableVars)
  BY ScoreStep
<1> HIDE DEF I
<1> QED  BY <1>1, <1>2, PTL DEF S!Spec, S!ImplementsTable, S!Table!Spec

-----------------------------------------------------------------------------
(* The checkpoint store.                                                   *)

CpEntries == [label : {l.stem : l \in Labels}, rss_kb : Sizes]

NoneLong  == \A l \in Labels : ~l.long

\* Where a label has its entry, and what the entries tell of labels.
FirstLabel(s, l) == K!SelectInSeq(s, LAMBDA e : K!Matches(e.label, l))

StoreAt(s)       == [l \in {k \in Labels : FirstLabel(s, k) > 0} |-> s[FirstLabel(s, l)].rss_kb]

\* Each entry has the stem of the label that it was recorded under.
CpInv(u, s) ==
  /\ s \in Seq(CpEntries) /\ u \in Seq(Labels)
  /\ Len(s) = Len(u) /\ Len(s) <= Room
  /\ OneEach(Len(s), u)
  /\ \A i \in 1..Len(s) : s[i].label = u[i].stem

\* The values of the entries.
LEMMA CpFacts ==
  ASSUME NEW u, NEW s, CpInv(u, s)
  PROVE  /\ Len(s) \in Nat /\ DOMAIN s = 1..Len(s)
         /\ \A i \in 1..Len(s) : /\ CpVals(s)[i] = s[i].rss_kb /\ s[i] \in CpEntries
                                 /\ u[i] \in Labels
<1>1. s \in Seq(CpEntries) /\ u \in Seq(Labels) /\ Len(s) = Len(u)
  BY DEF CpInv
<1>2. Len(s) \in Nat /\ DOMAIN s = 1..Len(s) /\ \A i \in 1..Len(s) : s[i] \in CpEntries
  BY <1>1, SeqFacts
<1>3. \A i \in 1..Len(s) : u[i] \in Labels
  <2>1. \A i \in 1..Len(u) : u[i] \in Labels
    BY <1>1, SeqFacts
  <2> QED  BY <1>1, <2>1, Zenon
<1>4. \A i \in 1..Len(s) : CpVals(s)[i] = s[i].rss_kb
  BY DEF CpVals
<1> QED  BY <1>2, <1>3, <1>4, Zenon

\* Without long labels, a label is found where it was recorded, or nowhere.
LEMMA LabelFound ==
  ASSUME NoneLong, NEW u, NEW s, CpInv(u, s), NEW l \in Labels
  PROVE  /\ FirstLabel(s, l) \in Nat
         /\ FirstLabel(s, l) > 0 => FirstLabel(s, l) \in 1..Len(s) /\ u[FirstLabel(s, l)] = l
         /\ FirstLabel(s, l) = 0 => \A i \in 1..Len(s) : u[i] # l
         /\ FirstLabel(s, l) > 0 <=> \E i \in 1..Len(s) : u[i] = l
<1> DEFINE I == {i \in 1..Len(s) : K!Matches(s[i].label, l)}
           k == FirstLabel(s, l)
           n == Len(s)
<1>1. k = IF I # {} THEN CHOOSE x \in I : \A y \in I : x <= y ELSE 0
  BY DEF FirstLabel, K!SelectInSeq, K!Min
<1>2. n \in Nat /\ I \subseteq Nat
  BY CpFacts
<1>3. FoundFirst(k, I)
  BY <1>1, <1>2, LeastIsFirst, Zenon
<1>4. \A i : i \in I <=> i \in 1..n /\ u[i] = l
  <2>1. ASSUME NEW i \in 1..n PROVE K!Matches(s[i].label, l) <=> u[i] = l
    <3>1. u[i] \in Labels /\ s[i].label = u[i].stem
      BY CpFacts DEF CpInv
    <3>2. ~u[i].long /\ ~l.long
      BY <3>1 DEF NoneLong
    <3>3. u[i].stem = l.stem => u[i] = l
      BY <3>1, <3>2, LabelsAssumption
    <3> QED  BY <3>1, <3>2, <3>3 DEF K!Matches
  <2> QED  BY <2>1
<1> HIDE DEF I, k, n
<1>5. CASE I = {}
  <2>1. k = 0
    BY <1>3, <1>5 DEF FoundFirst
  <2>2. k \in Nat /\ ~(k > 0)
    BY <2>1
  <2>3. \A i \in 1..n : u[i] # l
    BY <1>4, <1>5
  <2> QED  BY <2>2, <2>3, Zenon DEF k, n
<1>6. CASE I # {}
  <2>1. k \in 1..n /\ u[k] = l
    BY <1>3, <1>4, <1>6 DEF FoundFirst
  <2>2. k > 0 /\ k # 0 /\ k \in Nat
    BY <1>2, <2>1
  <2> QED  BY <2>1, <2>2, Zenon DEF k, n
<1> QED  BY <1>5, <1>6

\* The entries tell what was recorded under each label.
LEMMA StoreTells ==
  ASSUME NoneLong, NEW u, NEW s, CpInv(u, s)
  PROVE  /\ Tells(Recorded(u, s), StoreAt(s))
         /\ \A l : l \in DOMAIN StoreAt(s) <=> \E i \in 1..Len(s) : u[i] = l
         /\ Cardinality(DOMAIN StoreAt(s)) = Len(s)
<1> DEFINE n == Len(s)
           D == {k \in Labels : FirstLabel(s, k) > 0}
           E == {p[1] : p \in Recorded(u, s)}
           b == StoreAt(s)
<1>1. OneEach(n, u)
  BY DEF CpInv
<1>2. n \in Nat /\ \A i \in 1..n : CpVals(s)[i] = s[i].rss_kb /\ u[i] \in Labels
  BY CpFacts
<1>3. \A l : l \in D <=> \E i \in 1..n : u[i] = l
  <2>1. \A l \in Labels : FirstLabel(s, l) > 0 <=> \E i \in 1..n : u[i] = l
    BY LabelFound
  <2> QED  BY <1>2, <2>1
<1>4. \A p : p \in Recorded(u, s) <=> \E i \in 1..n : p = <<u[i], CpVals(s)[i]>>
  BY PairFacts DEF Recorded
<1>5. ASSUME NEW l \in Labels
      PROVE  /\ FirstLabel(s, l) \in Nat
             /\ FirstLabel(s, l) > 0 => FirstLabel(s, l) \in 1..n /\ u[FirstLabel(s, l)] = l
  BY LabelFound
<1> HIDE DEF n
<1>6. E = D
  <2> HIDE DEF D
  <2>1. ASSUME NEW k \in E PROVE k \in D
    <3>1. PICK p \in Recorded(u, s) : k = p[1]
      OBVIOUS
    <3>2. PICK i \in 1..n : p = <<u[i], CpVals(s)[i]>>
      BY <1>4, Zenon
    <3>3. k = u[i]
      BY <3>1, <3>2
    <3> QED  BY <1>3, <3>3, Zenon
  <2>2. ASSUME NEW i \in 1..n PROVE u[i] \in E
    <3>1. <<u[i], CpVals(s)[i]>> \in Recorded(u, s)
      BY <1>4, Zenon
    <3>2. <<u[i], CpVals(s)[i]>>[1] = u[i]
      OBVIOUS
    <3> QED  BY <3>1, <3>2, Zenon
  <2> QED  BY <1>3, <2>1, <2>2
<1>7. ASSUME NEW p \in Recorded(u, s) PROVE b[p[1]] = p[2]
  <2>1. PICK i \in 1..n : p = <<u[i], CpVals(s)[i]>>
    BY <1>4, Zenon
  <2>2. p[1] = u[i] /\ p[2] = s[i].rss_kb
    BY <1>2, <2>1
  <2> DEFINE j == FirstLabel(s, p[1])
  <2>3. p[1] \in Labels /\ p[1] \in D
    BY <1>2, <1>3, <2>2, Zenon
  <2>4. b[p[1]] = s[j].rss_kb
    BY <2>3 DEF StoreAt
  <2>5. j \in 1..n /\ u[j] = p[1]
    <3>1. j > 0
      BY <2>3
    <3> QED  BY <1>5, <2>3, <3>1
  <2> HIDE DEF j
  <2>6. j = i
    BY <1>1, <2>2, <2>5, Zenon DEF OneEach
  <2> QED  BY <2>2, <2>4, <2>6, Zenon
<1>8. b = [k \in D |-> b[k]] /\ DOMAIN b = D
  BY DEF StoreAt
<1> HIDE DEF b, D
<1>9. Tells(Recorded(u, s), b)
  <2>1. b = [k \in E |-> b[k]]
    BY <1>6, <1>8, Zenon
  <2> QED  BY <1>7, <2>1, Zenon DEF Tells
<1>10. Cardinality(E) = n
  BY <1>1, <1>2, KeysCount DEF Recorded, n
<1> QED  BY <1>3, <1>6, <1>8, <1>9, <1>10, Zenon DEF b, n

\* A known label is given another size (checkpoint_record).
LEMMA CpUpdated ==
  ASSUME NEW u, NEW s, CpInv(u, s), NEW at \in 1..Len(s), NEW v \in Sizes,
         NEW r, Resized(r, s, at, v)
  PROVE  CpInv(u, r) /\ Records(u, r, s, u[at], v)
<1> DEFINE n == Len(s)
           e == [s[at] EXCEPT !.rss_kb = v]
           t == [s EXCEPT ![at] = e]
<1>1. /\ s \in Seq(CpEntries) /\ u \in Seq(Labels) /\ n <= Room /\ n = Len(u)
      /\ OneEach(n, u) /\ \A i \in 1..n : s[i].label = u[i].stem
  BY DEF CpInv
<1>2. e \in CpEntries /\ e.label = s[at].label /\ e.rss_kb = v
  <2>1. s[at] \in CpEntries
    BY CpFacts
  <2> QED  BY <2>1 DEF CpEntries
<1> HIDE DEF e
<1>3. /\ t \in Seq(CpEntries) /\ Len(t) = n /\ t[at] = e
      /\ \A i \in 1..n : i # at => t[i] = s[i]
  BY <1>1, <1>2, ExceptFacts
<1> HIDE DEF t
<1>4. \A i \in 1..n : t[i].label = u[i].stem
  BY <1>1, <1>2, <1>3, Zenon
<1>5. CpInv(u, t)
  BY <1>1, <1>3, <1>4, Zenon DEF CpInv
<1>6. \A i \in 1..n : CpVals(t)[i] = t[i].rss_kb /\ CpVals(s)[i] = s[i].rss_kb
  <2>1. \A i \in 1..Len(t) : CpVals(t)[i] = t[i].rss_kb
    BY <1>5, CpFacts
  <2>2. \A i \in 1..Len(s) : CpVals(s)[i] = s[i].rss_kb
    BY CpFacts
  <2> QED  BY <1>3, <2>1, <2>2, Zenon
<1>7. \A i \in 1..n : i # at => CpVals(t)[i] = CpVals(s)[i]
  BY <1>3, <1>6, Zenon
<1>8. CpVals(t)[at] = v
  BY <1>2, <1>3, <1>6, Zenon
<1>9. Pairs(n, u, CpVals(t)) = Rest(Pairs(n, u, CpVals(s)), u[at]) \cup {<<u[at], v>>}
  <2> HIDE DEF n
  <2>1. at \in 1..n
    BY DEF n
  <2>2. Pairs(n, u, CpVals(t))
          = Rest(Pairs(n, u, CpVals(s)), u[at]) \cup {<<u[at], CpVals(t)[at]>>}
    BY <1>1, <1>7, <2>1, PairsChange
  <2> QED  BY <1>8, <2>2, Zenon
<1>10. Recorded(u, t) = Rest(Recorded(u, s), u[at]) \cup {<<u[at], v>>}
  BY <1>3, <1>9, Zenon DEF Recorded
<1>11. r = t
  BY DEF t, e, Resized
<1> QED  BY <1>5, <1>10, <1>11, Zenon DEF Records

\* A new label gets an entry (checkpoint_record).
LEMMA CpInserted ==
  ASSUME NEW u, NEW s, CpInv(u, s), Len(s) < Room, NEW l \in Labels, NEW v \in Sizes,
         \A i \in 1..Len(s) : u[i] # l
  PROVE  /\ CpInv(Append(u, l), Append(s, [label |-> l.stem, rss_kb |-> v]))
         /\ Recorded(Append(u, l), Append(s, [label |-> l.stem, rss_kb |-> v]))
              = Rest(Recorded(u, s), l) \cup {<<l, v>>}
<1> DEFINE n == Len(s)
           e == [label |-> l.stem, rss_kb |-> v]
           t == Append(s, e)
           w == Append(u, l)
           vs == CpVals(s)
           us == CpVals(t)
<1>1. /\ s \in Seq(CpEntries) /\ u \in Seq(Labels) /\ n = Len(u) /\ OneEach(n, u)
      /\ \A i \in 1..n : s[i].label = u[i].stem
  BY DEF CpInv
<1>2. e \in CpEntries /\ e.label = l.stem /\ e.rss_kb = v
  BY DEF CpEntries
<1> HIDE DEF e
<1>3. /\ t \in Seq(CpEntries) /\ n \in Nat /\ Len(t) = n + 1 /\ t[n + 1] = e
      /\ \A i \in 1..n : t[i] = s[i]
  BY <1>1, <1>2, AppendFacts
<1>4. /\ w \in Seq(Labels) /\ Len(w) = n + 1 /\ w[n + 1] = l
      /\ \A i \in 1..n : w[i] = u[i]
  <2>1. /\ w \in Seq(Labels) /\ Len(w) = Len(u) + 1 /\ w[Len(u) + 1] = l
        /\ \A i \in 1..Len(u) : w[i] = u[i]
    BY <1>1, AppendFacts
  <2> QED  BY <1>1, <2>1, Zenon
<1>5. \A i \in 1..n : vs[i] = s[i].rss_kb
  BY DEF CpVals
<1>6. \A i \in 1..(n + 1) : us[i] = t[i].rss_kb
  BY <1>3 DEF CpVals
<1>7. n + 1 <= Room
  BY <1>3, RoomAssumption
<1>8. \A i \in 1..n : u[i] # l
  OBVIOUS
<1> HIDE DEF n, t, w, vs, us
<1>9. /\ \A i : i \in 1..n => i \in 1..(n + 1)
      /\ \A i : i \in 1..(n + 1) => i \in 1..n \/ i = n + 1
      /\ n + 1 \in 1..(n + 1)
  BY <1>3
<1>10. us[n + 1] = v
  BY <1>2, <1>3, <1>6, <1>9, Zenon
<1>11. Adds(n, u, vs, w, us)
  <2>1. \A i \in 1..n : w[i] = u[i] /\ us[i] = vs[i] /\ u[i] # w[n + 1]
    BY <1>3, <1>4, <1>5, <1>6, <1>8, <1>9, Zenon
  <2> QED  BY <2>1, Zenon DEF Adds
<1>12. /\ OneEach(n + 1, w)
       /\ Pairs(n + 1, w, us) = Rest(Pairs(n, u, vs), w[n + 1]) \cup {<<w[n + 1], us[n + 1]>>}
  BY <1>1, <1>3, <1>11, PairsAdd
<1>13. \A i \in 1..(n + 1) : t[i].label = w[i].stem
  BY <1>1, <1>2, <1>3, <1>4, <1>9, Zenon
<1>14. CpInv(w, t)
  BY <1>3, <1>4, <1>7, <1>12, <1>13, Zenon DEF CpInv
<1>15. Recorded(w, t) = Rest(Recorded(u, s), l) \cup {<<l, v>>}
  BY <1>3, <1>4, <1>10, <1>12, Zenon DEF Recorded, us, vs, n
<1> QED  BY <1>14, <1>15, Zenon DEF t, w, e

\* The elements behind a removed one move up.
LEMMA ShiftFacts ==
  ASSUME NEW X, NEW s \in Seq(X), NEW at \in 1..Len(s)
  PROVE  /\ K!RemoveAt(s, at) \in Seq(X) /\ Len(K!RemoveAt(s, at)) = Len(s) - 1
         /\ \A i \in 1..(Len(s) - 1) :
              K!RemoveAt(s, at)[i] = s[IF i < at THEN i ELSE i + 1]
<1> DEFINE n == Len(s)
           a == SubSeq(s, 1, at - 1)
           b == SubSeq(s, at + 1, n)
<1>1. n \in Nat /\ \A i \in 1..n : s[i] \in X
  BY SeqFacts
<1>2. at \in 1..n
  OBVIOUS
<1> HIDE DEF n
<1>3. a \in Seq(X) /\ Len(a) = at - 1 /\ \A i \in 1..(at - 1) : a[i] = s[i]
  <2> HIDE DEF a
  <2>1. 1 \in Int /\ at - 1 \in Int /\ \A i \in 1..(at - 1) : s[i] \in X
    BY <1>1, <1>2
  <2>2. /\ SubSeq(s, 1, at - 1) \in Seq(X)
        /\ Len(SubSeq(s, 1, at - 1)) = IF 1 <= at - 1 THEN at - 1 - 1 + 1 ELSE 0
        /\ \A i \in 1..(at - 1 - 1 + 1) : SubSeq(s, 1, at - 1)[i] = s[1 + i - 1]
    BY <2>1, SubSeqProperties
  <2>3. Len(SubSeq(s, 1, at - 1)) = at - 1
    BY <1>1, <1>2, <2>2
  <2>4. \A i \in 1..(at - 1) : SubSeq(s, 1, at - 1)[i] = s[i]
    <3> SUFFICES ASSUME NEW i \in 1..(at - 1) PROVE SubSeq(s, 1, at - 1)[i] = s[i]
      OBVIOUS
    <3>1. i \in 1..(at - 1 - 1 + 1) /\ 1 + i - 1 = i
      BY <1>1, <1>2
    <3>2. SubSeq(s, 1, at - 1)[i] = s[1 + i - 1]
      BY <2>2, <3>1
    <3> QED  BY <3>1, <3>2, Zenon
  <2> QED  BY <2>2, <2>3, <2>4, Zenon DEF a
<1>4. b \in Seq(X) /\ Len(b) = n - at /\ \A i \in 1..(n - at) : b[i] = s[at + i]
  <2> HIDE DEF b
  <2>1. at + 1 \in Int /\ n \in Int /\ \A i \in (at + 1)..n : s[i] \in X
    BY <1>1, <1>2
  <2>2. /\ SubSeq(s, at + 1, n) \in Seq(X)
        /\ Len(SubSeq(s, at + 1, n)) = IF at + 1 <= n THEN n - (at + 1) + 1 ELSE 0
        /\ \A i \in 1..(n - (at + 1) + 1) : SubSeq(s, at + 1, n)[i] = s[at + 1 + i - 1]
    BY <2>1, SubSeqProperties
  <2>3. Len(SubSeq(s, at + 1, n)) = n - at
    BY <1>1, <1>2, <2>2
  <2>4. \A i \in 1..(n - at) : SubSeq(s, at + 1, n)[i] = s[at + i]
    <3> SUFFICES ASSUME NEW i \in 1..(n - at) PROVE SubSeq(s, at + 1, n)[i] = s[at + i]
      OBVIOUS
    <3>1. i \in 1..(n - (at + 1) + 1) /\ at + 1 + i - 1 = at + i
      BY <1>1, <1>2
    <3>2. SubSeq(s, at + 1, n)[i] = s[at + 1 + i - 1]
      BY <2>2, <3>1
    <3> QED  BY <3>1, <3>2, Zenon
  <2> QED  BY <2>2, <2>3, <2>4, Zenon DEF b
<1>5. K!RemoveAt(s, at) = a \o b
  BY DEF K!RemoveAt, n
<1> HIDE DEF a, b
<1>6. /\ a \o b \in Seq(X) /\ Len(a \o b) = Len(a) + Len(b)
      /\ \A i \in 1..(Len(a) + Len(b)) :
           (a \o b)[i] = IF i <= Len(a) THEN a[i] ELSE b[i - Len(a)]
  BY <1>3, <1>4, ConcatProperties
<1>7. Len(a) + Len(b) = n - 1
  BY <1>1, <1>2, <1>3, <1>4
<1>8. ASSUME NEW i \in 1..(n - 1) PROVE (a \o b)[i] = s[IF i < at THEN i ELSE i + 1]
  <2>1. (a \o b)[i] = IF i <= Len(a) THEN a[i] ELSE b[i - Len(a)]
    BY <1>6, <1>7, Zenon
  <2>2. CASE i < at
    <3>1. i <= at - 1 /\ i \in 1..(at - 1)
      BY <1>1, <1>2, <2>2
    <3>2. a[i] = s[i] /\ i <= Len(a)
      BY <1>3, <3>1
    <3> QED  BY <2>1, <2>2, <3>2
  <2>3. CASE ~(i < at)
    <3> DEFINE j == i - (at - 1)
    <3>1. ~(i <= at - 1) /\ j \in 1..(n - at) /\ at + j = i + 1
      BY <1>1, <1>2, <2>3
    <3> HIDE DEF j
    <3>2. b[j] = s[i + 1]
      BY <1>4, <3>1
    <3>3. i - Len(a) = j /\ ~(i <= Len(a))
      BY <1>3, <3>1 DEF j
    <3> QED  BY <2>1, <2>3, <3>2, <3>3
  <2> QED  BY <2>2, <2>3
<1> QED  BY <1>5, <1>6, <1>7, <1>8, Zenon DEF n

\* A label's entry is removed (checkpoint_remove).
LEMMA CpRemoved ==
  ASSUME NEW u, NEW s, CpInv(u, s), NEW at \in 1..Len(s)
  PROVE  /\ CpInv(K!RemoveAt(u, at), K!RemoveAt(s, at))
         /\ Recorded(K!RemoveAt(u, at), K!RemoveAt(s, at)) = Rest(Recorded(u, s), u[at])
<1> DEFINE n == Len(s)
           m == n - 1
           t == K!RemoveAt(s, at)
           w == K!RemoveAt(u, at)
           f == [i \in 1..m |-> IF i < at THEN i ELSE i + 1]
           vs == CpVals(s)
           us == CpVals(t)
<1>1. /\ s \in Seq(CpEntries) /\ u \in Seq(Labels) /\ n = Len(u) /\ OneEach(n, u)
      /\ n <= Room /\ \A i \in 1..n : s[i].label = u[i].stem
  BY DEF CpInv
<1>2. at \in 1..n /\ n \in Nat
  BY CpFacts
<1>3. /\ t \in Seq(CpEntries) /\ Len(t) = m
      /\ \A i \in 1..m : t[i] = s[IF i < at THEN i ELSE i + 1]
  BY <1>1, ShiftFacts
<1>4. /\ w \in Seq(Labels) /\ Len(w) = m
      /\ \A i \in 1..m : w[i] = u[IF i < at THEN i ELSE i + 1]
  <2>1. at \in 1..Len(u)
    BY <1>1, <1>2, Zenon
  <2>2. /\ w \in Seq(Labels) /\ Len(w) = Len(u) - 1
        /\ \A i \in 1..(Len(u) - 1) : w[i] = u[IF i < at THEN i ELSE i + 1]
    BY <1>1, <2>1, ShiftFacts
  <2> QED  BY <1>1, <2>2, Zenon
<1>5. \A i \in 1..n : vs[i] = s[i].rss_kb
  BY DEF CpVals
<1>6. \A i \in 1..m : us[i] = t[i].rss_kb
  BY <1>3 DEF CpVals
<1> HIDE DEF t, w, vs, us, n
<1>7. ASSUME NEW i \in 1..m
      PROVE  /\ f[i] = (IF i < at THEN i ELSE i + 1) /\ f[i] \in 1..n \ {at}
             /\ t[i] = s[f[i]] /\ w[i] = u[f[i]]
  <2>1. f[i] = IF i < at THEN i ELSE i + 1
    OBVIOUS
  <2>2. t[i] = s[f[i]] /\ w[i] = u[f[i]]
    BY <1>3, <1>4, <2>1
  <2> HIDE DEF f
  <2>3. f[i] \in 1..n \ {at}
    BY <1>2, <2>1
  <2> QED  BY <2>1, <2>2, <2>3
<1>8. \A i, j \in 1..m : f[i] = f[j] => i = j
  <2> SUFFICES ASSUME NEW i \in 1..m, NEW j \in 1..m, f[i] = f[j] PROVE i = j
    OBVIOUS
  <2> QED  BY <1>2
<1>9. ASSUME NEW j \in 1..n \ {at} PROVE \E i \in 1..m : f[i] = j
  <2>1. CASE j < at
    <3>1. j \in 1..m /\ f[j] = j
      BY <1>2, <2>1
    <3> QED  BY <3>1, Zenon
  <2>2. CASE ~(j < at)
    <3>1. j - 1 \in 1..m /\ ~(j - 1 < at) /\ j - 1 + 1 = j
      BY <1>2, <1>9, <2>2
    <3>2. f[j - 1] = j
      BY <3>1
    <3> QED  BY <3>1, <3>2, Zenon
  <2> QED  BY <2>1, <2>2
<1> HIDE DEF f
<1>10. Moves(f, m, 1..n \ {at}, u, vs, w, us)
  <2>1. ASSUME NEW i \in 1..m
        PROVE  f[i] \in 1..n \ {at} /\ w[i] = u[f[i]] /\ us[i] = vs[f[i]]
    <3>1. f[i] \in 1..n \ {at} /\ t[i] = s[f[i]] /\ w[i] = u[f[i]]
      BY <1>7
    <3>2. f[i] \in 1..n
      BY <3>1
    <3> QED  BY <1>5, <1>6, <3>1, <3>2, Zenon
  <2> HIDE DEF m
  <2> QED  BY <1>8, <1>9, <2>1, Zenon DEF Moves
<1>11. OneEach(m, w) /\ Pairs(m, w, us) = Rest(Pairs(n, u, vs), u[at])
  <2> DEFINE J == 1..n \ {at}
  <2> HIDE DEF m
  <2>1. at \in 1..n /\ AllBut(J, n, at)
    BY <1>2 DEF AllBut
  <2>2. Moves(f, m, J, u, vs, w, us)
    BY <1>10
  <2>3. OneEach(n, u)
    BY <1>1
  <2> HIDE DEF J
  <2> QED  BY <2>1, <2>2, <2>3, PairsDrop
<1>12. m <= Room
  BY <1>1, <1>2, RoomAssumption
<1>13. \A i \in 1..m : t[i].label = w[i].stem
  <2> SUFFICES ASSUME NEW i \in 1..m PROVE t[i].label = w[i].stem
    OBVIOUS
  <2>1. f[i] \in 1..n /\ t[i] = s[f[i]] /\ w[i] = u[f[i]]
    BY <1>7
  <2> QED  BY <1>1, <2>1, Zenon
<1>14. CpInv(w, t)
  BY <1>3, <1>4, <1>11, <1>12, <1>13, Zenon DEF CpInv
<1>15. Recorded(w, t) = Rest(Recorded(u, s), u[at])
  BY <1>3, <1>11, Zenon DEF Recorded, us, vs, n
<1> QED  BY <1>14, <1>15, Zenon DEF t, w

\* The store's functions are those of its entries.
LEMMA StoreIs ==
  /\ K!Board = StoreAt(entries) /\ K!Board' = StoreAt(entries')
  /\ \A l : K!Find(l) = FirstLabel(entries, l)
<1>1. \A l : K!Find(l) = FirstLabel(entries, l)
  BY DEF K!Find, FirstLabel
<1>2. K!Board = StoreAt(entries)
  BY <1>1, Zenon DEF K!Board, StoreAt
<1>3. \A l : K!Find(l)' = FirstLabel(entries', l)
  BY DEF K!Find, FirstLabel, K!SelectInSeq, K!Matches
<1>4. K!Board' = StoreAt(entries')
  BY <1>3, Zenon DEF K!Board, StoreAt
<1> QED  BY <1>1, <1>2, <1>4, Zenon

\* The sizes that were recorded are those that are found (checkpoint_record).
LEMMA CpPuts ==
  ASSUME NoneLong, CpInv(under, entries),
         K!Update \/ K!Insert
  PROVE  CpInv(under', entries') /\ K!Table!Put
<1> DEFINE s == entries
           u == under
           b == StoreAt(s)
<1>1. /\ Tells(Recorded(u, s), b)
      /\ \A l : l \in DOMAIN b <=> \E i \in 1..Len(s) : u[i] = l
      /\ Cardinality(DOMAIN b) = Len(s)
  BY StoreTells
<1>3. K!Board = b /\ K!Board' = StoreAt(s')
  BY StoreIs, Zenon
<1>4. ASSUME NEW l \in Labels, NEW v \in Sizes, l \in DOMAIN b \/ Len(s) < Room,
             CpInv(u', s'), Recorded(u', s') = Rest(Recorded(u, s), l) \cup {<<l, v>>},
             result' = "ok"
      PROVE  K!Table!Put
  <2> DEFINE c == [j \in DOMAIN b \cup {l} |-> IF j = l THEN v ELSE b[j]]
  <2>1. Tells(Recorded(u', s'), c)
    <3>1. Tells(Recorded(u, s), b)
      BY <1>1
    <3> HIDE DEF b, s, u
    <3>2. Tells(Rest(Recorded(u, s), l) \cup {<<l, v>>}, c)
      BY <3>1, TellsPut
    <3> HIDE DEF c
    <3> QED  BY <1>4, <3>2, Zenon
  <2>2. Tells(Recorded(u', s'), StoreAt(s'))
    BY <1>4, StoreTells, Zenon
  <2>3. StoreAt(s') = c
    BY <2>1, <2>2, TellsOne, Zenon
  <2>4. l \in K!Table!Known \/ ~K!Table!Full
    <3>1. CASE l \in DOMAIN b
      BY <1>3, <3>1, Zenon DEF K!Table!Known
    <3>2. CASE Len(s) < Room
      <4>1. K!Table!Full <=> Len(s) = Room
        BY <1>1, <1>3, SameCardinality, Zenon DEF K!Table!Full, K!Table!Known
      <4>2. Len(s) \in Nat
        BY CpFacts
      <4> DEFINE n == Len(s)
      <4> HIDE DEF n, s, b
      <4>3. n # Room
        BY <3>2, <4>2, RoomAssumption DEF n
      <4> QED  BY <4>1, <4>3, Zenon DEF n
    <3> QED  BY <1>4, <3>1, <3>2
  <2>5. K!Board' = [j \in K!Table!Known \cup {l} |-> IF j = l THEN v ELSE K!Board[j]]
    BY <1>3, <2>3, Zenon DEF K!Table!Known
  <2> QED  BY <1>4, <2>4, <2>5, Zenon DEF K!Table!Put
<1>5. CASE K!Update
  <2>1. PICK l \in Labels, v \in Sizes :
          /\ K!Find(l) > 0
          /\ s' = [s EXCEPT ![K!Find(l)].rss_kb = v]
          /\ result' = "ok" /\ u' = u
    BY <1>5 DEF K!Update
  <2> DEFINE k == FirstLabel(s, l)
  <2>2. k > 0 /\ s' = [s EXCEPT ![k].rss_kb = v]
    <3>1. K!Find(l) = k
      BY StoreIs, Zenon
    <3> QED  BY <2>1, <3>1, Zenon
  <2>3. k \in 1..Len(s) /\ u[k] = l
    BY <2>2, LabelFound
  <2> HIDE DEF k
  <2>4. CpInv(u', s') /\ Recorded(u', s') = Rest(Recorded(u, s), l) \cup {<<l, v>>}
    <3>1. CpInv(u, s) /\ v \in Sizes
      BY <2>1
    <3>2. Resized(s', s, k, v)
      BY <2>2, Zenon DEF Resized
    <3> HIDE DEF s, u, b
    <3>3. k \in 1..Len(s)
      BY <2>3
    <3>4. CpInv(u, s') /\ Records(u, s', s, u[k], v)
      BY <3>1, <3>2, <3>3, CpUpdated, Zenon
    <3> QED  BY <2>1, <2>3, <3>4, Zenon DEF Records
  <2>5. l \in DOMAIN b
    BY <1>1, <2>3, Zenon
  <2> QED  BY <1>4, <2>1, <2>4, <2>5, Zenon
<1>6. CASE K!Insert
  <2>1. PICK l \in Labels, v \in Sizes :
          /\ K!Find(l) = 0
          /\ s' = Append(s, [label |-> l.stem, rss_kb |-> v])
          /\ u' = Append(u, l)
          /\ result' = "ok" /\ Len(s) < Room
    BY <1>6 DEF K!Insert
  <2>2. FirstLabel(s, l) = 0
    BY <2>1, StoreIs, Zenon
  <2>3. \A i \in 1..Len(s) : u[i] # l
    BY <2>2, LabelFound
  <2>4. CpInv(u', s') /\ Recorded(u', s') = Rest(Recorded(u, s), l) \cup {<<l, v>>}
    <3>1. /\ CpInv(Append(u, l), Append(s, [label |-> l.stem, rss_kb |-> v]))
          /\ Recorded(Append(u, l), Append(s, [label |-> l.stem, rss_kb |-> v]))
               = Rest(Recorded(u, s), l) \cup {<<l, v>>}
      BY <2>1, <2>3, CpInserted
    <3> QED  BY <2>1, <3>1, Zenon
  <2> QED  BY <1>4, <2>1, <2>4, Zenon
<1> QED  BY <1>5, <1>6

\* A label that is not found is not known.
LEMMA LabelUnknown ==
  ASSUME NoneLong, CpInv(under, entries), NEW l \in Labels, K!Find(l) = 0
  PROVE  l \in Labels \ K!Table!Known
<1>1. FirstLabel(entries, l) = 0
  BY StoreIs, Zenon
<1>2. \A i \in 1..Len(entries) : under[i] # l
  BY <1>1, LabelFound
<1>3. l \notin DOMAIN StoreAt(entries)
  <2>1. \A k : k \in DOMAIN StoreAt(entries) <=> \E i \in 1..Len(entries) : under[i] = k
    BY StoreTells
  <2> QED  BY <1>2, <2>1, Zenon
<1> QED  BY <1>3, StoreIs, Zenon DEF K!Table!Known

\* A store without entries is an empty table.
LEMMA CpEmpty == CpInv(<<>>, <<>>) /\ StoreAt(<<>>) = [k \in {} |-> 0]
<1>1. /\ <<>> \in Seq(CpEntries) /\ <<>> \in Seq(Labels) /\ Len(<<>>) = 0
  BY EmptySeq
<1>2. CpInv(<<>>, <<>>)
  BY <1>1, RoomAssumption DEF CpInv, OneEach
<1>3. \A l : FirstLabel(<<>>, l) = 0
  BY <1>1 DEF FirstLabel, K!SelectInSeq
<1>4. {k \in Labels : FirstLabel(<<>>, k) > 0} = {}
  BY <1>3
<1>5. StoreAt(<<>>) = [l \in {} |-> <<>>[FirstLabel(<<>>, l)].rss_kb]
  BY <1>4, Zenon DEF StoreAt
<1>6. [l \in {} |-> <<>>[FirstLabel(<<>>, l)].rss_kb] = [k \in {} |-> 0]
  OBVIOUS
<1> QED  BY <1>2, <1>5, <1>6, Zenon

\* Every step of the store is one of the table, without long labels.
LEMMA CpStep ==
  ASSUME NoneLong, CpInv(under, entries), [K!Next]_(K!vars)
  PROVE  CpInv(under', entries') /\ [K!Table!Next]_(K!Table!tableVars)
<1> DEFINE s == entries
           u == under
           b == StoreAt(s)
<1>1. /\ Tells(Recorded(u, s), b)
      /\ \A l : l \in DOMAIN b <=> \E i \in 1..Len(s) : u[i] = l
      /\ Cardinality(DOMAIN b) = Len(s)
  BY StoreTells
<1>2. Len(s) \in Nat /\ Len(s) <= Room
  BY CpFacts DEF CpInv
<1>3. K!Board = b /\ K!Board' = StoreAt(s')
  BY StoreIs, Zenon
<1>4. CASE K!Update \/ K!Insert
  BY <1>4, CpPuts, Zenon DEF K!Table!Next
<1>5. CASE K!RefuseInsert
  <2>1. Len(s) >= Room /\ result' = "full" /\ s' = s /\ u' = u
    BY <1>5 DEF K!RefuseInsert
  <2>2. PICK l \in Labels : K!Find(l) = 0
    BY <1>5 DEF K!RefuseInsert
  <2>3. K!Table!Full
    <3>1. K!Table!Full <=> Len(s) = Room
      BY <1>1, <1>3, SameCardinality, Zenon DEF K!Table!Full, K!Table!Known
    <3> DEFINE n == Len(s)
    <3>2. n \in Nat /\ n <= Room /\ n >= Room
      BY <1>2, <2>1
    <3> HIDE DEF n
    <3>3. n = Room
      BY <3>2, RoomAssumption
    <3> QED  BY <3>1, <3>3, Zenon DEF n
  <2>4. Labels \ K!Table!Known # {}
    BY <2>2, LabelUnknown, Zenon
  <2>5. K!Board' = K!Board
    BY <1>3, <2>1, Zenon
  <2> QED  BY <2>1, <2>3, <2>4, <2>5, Zenon DEF K!Table!Refuse, K!Table!Next
<1>6. CASE K!checkpoint_remove
  <2>1. CASE /\ result' = "ok"
             /\ \E l \in Labels : /\ K!Find(l) > 0
                                  /\ s' = K!RemoveAt(s, K!Find(l))
                                  /\ u' = K!RemoveAt(u, K!Find(l))
    <3>1. PICK l \in Labels : /\ K!Find(l) > 0
                              /\ s' = K!RemoveAt(s, K!Find(l))
                              /\ u' = K!RemoveAt(u, K!Find(l))
      BY <2>1, Zenon
    <3> DEFINE k == FirstLabel(s, l)
    <3>2. k > 0 /\ s' = K!RemoveAt(s, k) /\ u' = K!RemoveAt(u, k)
      <4>1. K!Find(l) = k
        BY StoreIs, Zenon
      <4> QED  BY <3>1, <4>1, Zenon
    <3>3. k \in 1..Len(s) /\ u[k] = l
      BY <3>2, LabelFound
    <3>4. CpInv(u', s') /\ Recorded(u', s') = Rest(Recorded(u, s), l)
      <4> HIDE DEF k
      <4>1. /\ CpInv(K!RemoveAt(u, k), K!RemoveAt(s, k))
            /\ Recorded(K!RemoveAt(u, k), K!RemoveAt(s, k)) = Rest(Recorded(u, s), u[k])
        BY <3>3, CpRemoved, Zenon
      <4> QED  BY <3>2, <3>3, <4>1, Zenon
    <3> DEFINE c == [j \in DOMAIN b \ {l} |-> b[j]]
    <3>5. Tells(Recorded(u', s'), c)
      <4>1. Tells(Recorded(u, s), b)
        BY <1>1
      <4> HIDE DEF b, s, u
      <4>2. Tells(Rest(Recorded(u, s), l), c)
        BY <4>1, TellsDrop
      <4> HIDE DEF c
      <4> QED  BY <3>4, <4>2, Zenon
    <3>6. Tells(Recorded(u', s'), StoreAt(s'))
      BY <3>4, StoreTells, Zenon
    <3>7. StoreAt(s') = c
      BY <3>5, <3>6, TellsOne, Zenon
    <3>8. l \in DOMAIN b
      BY <1>1, <3>3, Zenon
    <3>9. l \in K!Table!Known /\ K!Board' = [j \in K!Table!Known \ {l} |-> K!Board[j]]
      BY <1>3, <3>7, <3>8, Zenon DEF K!Table!Known
    <3>10. K!Table!Remove
      BY <2>1, <3>9, Zenon DEF K!Table!Remove
    <3> QED  BY <3>4, <3>10, Zenon DEF K!Table!Next
  <2>2. CASE result' = "missing" /\ s' = s /\ u' = u /\ \E l \in Labels : K!Find(l) = 0
    <3>1. Labels \ K!Table!Known # {}
      BY <2>2, LabelUnknown, Zenon
    <3>2. K!Board' = K!Board
      BY <1>3, <2>2, Zenon
    <3> QED  BY <2>2, <3>1, <3>2, Zenon DEF K!Table!Miss, K!Table!Next
  <2> QED  BY <1>6, <2>1, <2>2, Zenon DEF K!checkpoint_remove
<1>7. CASE K!checkpoint_reset
  <2>1. s' = <<>> /\ u' = <<>> /\ result' = "ok"
    BY <1>7 DEF K!checkpoint_reset
  <2>2. CpInv(u', s') /\ K!Board' = [k \in {} |-> 0]
    BY <1>3, <2>1, CpEmpty, Zenon
  <2> QED  BY <2>1, <2>2, Zenon DEF K!Table!Clear, K!Table!Next
<1>8. CASE UNCHANGED K!vars
  <2>1. s' = s /\ u' = u /\ result' = result
    BY <1>8 DEF K!vars
  <2>2. K!Board' = K!Board
    BY <1>3, <2>1, Zenon
  <2> QED  BY <2>1, <2>2, Zenon DEF K!Table!tableVars
<1> QED  BY <1>4, <1>5, <1>6, <1>7, <1>8, Zenon DEF K!Next, K!checkpoint_record

\* A store starts out empty.
LEMMA CpInit == K!Init => CpInv(under, entries) /\ K!Table!Init
<1> SUFFICES ASSUME K!Init PROVE CpInv(under, entries) /\ K!Table!Init
  OBVIOUS
<1>1. entries = <<>> /\ under = <<>> /\ result = "ok"
  BY DEF K!Init
<1>2. K!Board = [k \in {} |-> 0]
  BY <1>1, CpEmpty, StoreIs, Zenon
<1> QED  BY <1>1, <1>2, CpEmpty, Zenon DEF K!Table!Init

\* When no label is longer than the field it is stored in, the checkpoint store
\* is a table (checkpoint_record, checkpoint_remove, checkpoint_find).
THEOREM CheckpointsAreTable == NoneLong => (K!Spec => K!ImplementsTable)
<1> SUFFICES ASSUME NoneLong PROVE K!Spec => K!ImplementsTable
  OBVIOUS
<1> DEFINE I == CpInv(under, entries)
<1>1. K!Init => I /\ K!Table!Init
  BY CpInit
<1>2. I /\ [K!Next]_(K!vars) => I' /\ [K!Table!Next]_(K!Table!tableVars)
  BY CpStep
<1> HIDE DEF I
<1> QED  BY <1>1, <1>2, PTL DEF K!Spec, K!ImplementsTable, K!Table!Spec

-----------------------------------------------------------------------------
(* The components side by side: each of them behaves as it does alone.     *)

\* All are set up.
LEMMA AllInit ==
  Init => /\ R!Init /\ H!Init /\ W!Init /\ P!Init
          /\ S!Init /\ K!Init /\ A!Init /\ G!Init
          /\ M!Init /\ Y!Init /\ F!Init
BY Zenon DEF Init

\* The variables of a store are those that its uses leave alone or not.
LEMMA StoreVars ==
  /\ UNCHANGED R!vars <=> UNCHANGED bufVars
  /\ UNCHANGED H!vars <=> UNCHANGED hisVars
  /\ UNCHANGED W!vars <=> UNCHANGED winVars
  /\ UNCHANGED P!vars <=> UNCHANGED pivVars
<1>1. UNCHANGED R!vars <=> UNCHANGED bufVars
  BY Zenon DEF R!vars, bufVars
<1>2. UNCHANGED H!vars <=> UNCHANGED hisVars
  BY Zenon DEF H!vars, hisVars
<1>3. UNCHANGED W!vars <=> UNCHANGED winVars
  BY Zenon DEF W!vars, winVars
<1>4. UNCHANGED P!vars <=> UNCHANGED pivVars
  BY Zenon DEF P!vars, pivVars
<1> QED  BY <1>1, <1>2, <1>3, <1>4, Zenon

\* So are the variables of a table.
LEMMA TableVars ==
  /\ UNCHANGED S!vars <=> UNCHANGED sbVars
  /\ UNCHANGED K!vars <=> UNCHANGED cpVars
  /\ UNCHANGED A!vars <=> UNCHANGED <<leVars, taVars>>
  /\ UNCHANGED A!ledgerVars <=> UNCHANGED leVars
  /\ UNCHANGED A!tallyVars <=> UNCHANGED taVars
  /\ UNCHANGED G!vars <=> UNCHANGED lgVars
<1>1. UNCHANGED S!vars <=> UNCHANGED sbVars
  BY Zenon DEF S!vars, sbVars
<1>2. UNCHANGED K!vars <=> UNCHANGED cpVars
  BY Zenon DEF K!vars, cpVars
<1>3. UNCHANGED A!ledgerVars <=> UNCHANGED leVars
  BY Zenon DEF A!ledgerVars, leVars
<1>4. UNCHANGED A!tallyVars <=> UNCHANGED taVars
  BY Zenon DEF A!tallyVars, taVars
<1>5. UNCHANGED A!vars <=> UNCHANGED <<leVars, taVars>>
  BY Zenon DEF A!vars, A!ledgerVars, A!tallyVars, leVars, taVars
<1>6. UNCHANGED G!vars <=> UNCHANGED lgVars
  BY Zenon DEF G!vars, lgVars
<1> QED  BY <1>1, <1>2, <1>3, <1>4, <1>5, <1>6, Zenon

\* So are those of a meter, the tracker and the epoch, and the filters.
LEMMA MeterVars ==
  /\ UNCHANGED M!vars <=> UNCHANGED <<staVars, ratVars, decVars, claVars, basVars>>
  /\ UNCHANGED M!statsVars <=> UNCHANGED staVars
  /\ UNCHANGED M!rateVars  <=> UNCHANGED ratVars
  /\ UNCHANGED M!decayVars <=> UNCHANGED decVars
  /\ UNCHANGED M!clampVars <=> UNCHANGED claVars
  /\ UNCHANGED M!baselineVars <=> UNCHANGED basVars
  /\ UNCHANGED Y!vars <=> UNCHANGED trkVars
  /\ UNCHANGED F!vars <=> UNCHANGED <<filVars, thrVars>>
  /\ UNCHANGED F!filterVars    <=> UNCHANGED filVars
  /\ UNCHANGED F!thresholdVars <=> UNCHANGED thrVars
<1>1. UNCHANGED M!statsVars <=> UNCHANGED staVars
  BY Zenon DEF M!statsVars, staVars
<1>2. UNCHANGED M!rateVars <=> UNCHANGED ratVars
  BY Zenon DEF M!rateVars, ratVars
<1>3. UNCHANGED M!decayVars <=> UNCHANGED decVars
  BY Zenon DEF M!decayVars, decVars
<1>4. UNCHANGED M!clampVars <=> UNCHANGED claVars
  BY Zenon DEF M!clampVars, claVars
<1>5. UNCHANGED M!baselineVars <=> UNCHANGED basVars
  BY Zenon DEF M!baselineVars, basVars
<1>6. UNCHANGED M!vars <=> UNCHANGED <<staVars, ratVars, decVars, claVars, basVars>>
  <2>1. UNCHANGED M!vars <=> /\ UNCHANGED M!statsVars /\ UNCHANGED M!rateVars
                             /\ UNCHANGED M!decayVars /\ UNCHANGED M!clampVars
                             /\ UNCHANGED M!baselineVars
    BY Zenon DEF M!vars
  <2> QED  BY <1>1, <1>2, <1>3, <1>4, <1>5, <2>1, Zenon
<1>7. UNCHANGED Y!vars <=> UNCHANGED trkVars
  BY Zenon DEF Y!vars, Y!trackerVars, Y!epochVars, trkVars
<1>8. UNCHANGED F!filterVars <=> UNCHANGED filVars
  BY Zenon DEF F!filterVars, filVars
<1>9. UNCHANGED F!thresholdVars <=> UNCHANGED thrVars
  BY Zenon DEF F!thresholdVars, thrVars
<1>10. UNCHANGED F!vars <=> UNCHANGED <<filVars, thrVars>>
  <2>1. UNCHANGED F!vars <=> UNCHANGED F!filterVars /\ UNCHANGED F!thresholdVars
    BY Zenon DEF F!vars
  <2> QED  BY <1>8, <1>9, <2>1, Zenon
<1> QED  BY <1>1, <1>2, <1>3, <1>4, <1>5, <1>6, <1>7, <1>8, <1>9, <1>10, Zenon

\* A store is used, and the other components stay as they are.
LEMMA StoreUse ==
  ASSUME UseStore
  PROVE  /\ [R!Next]_(R!vars) /\ [H!Next]_(H!vars) /\ [W!Next]_(W!vars)
         /\ [P!Next]_(P!vars)
         /\ UNCHANGED tableVars /\ UNCHANGED meterVars
<1>1. UNCHANGED tableVars /\ UNCHANGED meterVars
  BY Zenon DEF UseStore
<1>2. /\ R!Next \/ UNCHANGED bufVars
      /\ H!Next \/ UNCHANGED hisVars
      /\ W!Next \/ UNCHANGED winVars
      /\ P!Next \/ UNCHANGED pivVars
  BY Zenon DEF UseStore
<1> QED  BY <1>1, <1>2, StoreVars, Zenon

\* A table is used, and the other components stay as they are.
LEMMA TableUse ==
  ASSUME UseTable
  PROVE  /\ [S!Next]_(S!vars) /\ [K!Next]_(K!vars) /\ [A!Next]_(A!vars)
         /\ [G!Next]_(G!vars)
         /\ UNCHANGED storeVars /\ UNCHANGED meterVars
<1>1. UNCHANGED storeVars /\ UNCHANGED meterVars
  BY Zenon DEF UseTable
<1>2. /\ S!Next \/ UNCHANGED sbVars
      /\ K!Next \/ UNCHANGED cpVars
      /\ G!Next \/ UNCHANGED lgVars
  BY Zenon DEF UseTable
<1>3. \/ A!LedgerNext /\ UNCHANGED taVars
      \/ A!TallyNext /\ UNCHANGED leVars
      \/ UNCHANGED <<leVars, taVars>>
  BY Zenon DEF UseTable
<1>4. A!Next \/ UNCHANGED A!vars
  BY <1>3, TableVars, Zenon DEF A!Next
<1> QED  BY <1>1, <1>2, <1>4, TableVars, Zenon

\* One of the others is used, and the stores and tables stay as they are.
LEMMA OtherUse ==
  ASSUME UseOther
  PROVE  /\ [M!Next]_(M!vars) /\ [Y!Next]_(Y!vars) /\ [F!Next]_(F!vars)
         /\ UNCHANGED storeVars /\ UNCHANGED tableVars
<1>1. UNCHANGED storeVars /\ UNCHANGED tableVars
  BY Zenon DEF UseOther
<1>2. Y!TrackerNext \/ Y!EpochNext \/ UNCHANGED trkVars
  BY Zenon DEF UseOther
<1>3. \/ M!StatsNext    /\ UNCHANGED <<ratVars, decVars, claVars, basVars>>
      \/ M!RateNext     /\ UNCHANGED <<staVars, decVars, claVars, basVars>>
      \/ M!DecayNext    /\ UNCHANGED <<staVars, ratVars, claVars, basVars>>
      \/ M!ClampNext    /\ UNCHANGED <<staVars, ratVars, decVars, basVars>>
      \/ M!BaselineNext /\ UNCHANGED <<staVars, ratVars, decVars, claVars>>
      \/ UNCHANGED <<staVars, ratVars, decVars, claVars, basVars>>
  BY Zenon DEF UseOther
<1>4. \/ F!FilterNext    /\ UNCHANGED thrVars
      \/ F!ThresholdNext /\ UNCHANGED filVars
      \/ UNCHANGED <<filVars, thrVars>>
  BY Zenon DEF UseOther
<1>5. M!Next \/ UNCHANGED M!vars
  BY <1>3, MeterVars, Zenon DEF M!Next
<1>6. Y!Next \/ UNCHANGED Y!vars
  BY <1>2, MeterVars, Zenon DEF Y!Next
<1>7. F!Next \/ UNCHANGED F!vars
  BY <1>4, MeterVars, Zenon DEF F!Next
<1> QED  BY <1>1, <1>5, <1>6, <1>7, Zenon

\* What is left alone as a group is left alone.
LEMMA GroupsStay ==
  /\ UNCHANGED storeVars => /\ UNCHANGED R!vars /\ UNCHANGED H!vars /\ UNCHANGED W!vars
                            /\ UNCHANGED P!vars
  /\ UNCHANGED tableVars => /\ UNCHANGED S!vars /\ UNCHANGED K!vars /\ UNCHANGED A!vars
                            /\ UNCHANGED G!vars
  /\ UNCHANGED meterVars => UNCHANGED M!vars /\ UNCHANGED Y!vars /\ UNCHANGED F!vars
<1>1. UNCHANGED storeVars => /\ UNCHANGED bufVars /\ UNCHANGED hisVars /\ UNCHANGED winVars
                             /\ UNCHANGED pivVars
  BY Zenon DEF storeVars
<1>2. UNCHANGED tableVars => /\ UNCHANGED sbVars /\ UNCHANGED cpVars
                             /\ UNCHANGED <<leVars, taVars>>
                             /\ UNCHANGED lgVars
  BY Zenon DEF tableVars
<1>3. UNCHANGED meterVars => /\ UNCHANGED <<staVars, ratVars, decVars, claVars, basVars>>
                             /\ UNCHANGED trkVars /\ UNCHANGED <<filVars, thrVars>>
  BY Zenon DEF meterVars
<1> QED  BY <1>1, <1>2, <1>3, StoreVars, TableVars, MeterVars, Zenon

\* In a step of them all, each takes a step of its own or none.
LEMMA AllSteps ==
  [Next]_<<subject, storeVars, tableVars, meterVars>> =>
    /\ [R!Next]_(R!vars) /\ [H!Next]_(H!vars) /\ [W!Next]_(W!vars)
    /\ [P!Next]_(P!vars)
    /\ [S!Next]_(S!vars) /\ [K!Next]_(K!vars) /\ [A!Next]_(A!vars)
    /\ [G!Next]_(G!vars)
    /\ [M!Next]_(M!vars) /\ [Y!Next]_(Y!vars) /\ [F!Next]_(F!vars)
<1>1. CASE UseStore
  BY <1>1, StoreUse, GroupsStay, Zenon
<1>2. CASE UseTable
  BY <1>2, TableUse, GroupsStay, Zenon
<1>3. CASE UseOther
  BY <1>3, OtherUse, GroupsStay, Zenon
<1>4. CASE UNCHANGED <<subject, storeVars, tableVars, meterVars>>
  <2>1. UNCHANGED storeVars /\ UNCHANGED tableVars /\ UNCHANGED meterVars
    BY <1>4, Zenon
  <2> QED  BY <2>1, GroupsStay, Zenon
<1> QED  BY <1>1, <1>2, <1>3, <1>4, Zenon DEF Next

\* A behaviour of all of them is one of each: none disturbs another.
THEOREM StoresAreIndependent ==
  Spec => /\ R!Spec /\ H!Spec /\ W!Spec /\ P!Spec
          /\ S!Spec /\ K!Spec /\ A!Spec /\ G!Spec
          /\ M!Spec /\ Y!Spec /\ F!Spec
BY AllInit, AllSteps, PTL DEF Spec, R!Spec, H!Spec, W!Spec, P!Spec, S!Spec,
   K!Spec, A!Spec, G!Spec, M!Spec, Y!Spec, F!Spec

\* The ring buffer, the history and the window hold the last samples pushed, in
\* order, and the oldest is the one that makes room (ringbuf.c, history.c,
\* window.c).
THEOREM RingsSlide == Spec => StoresSlide
BY StoresAreIndependent, RingBufferSlides, HistorySlides, WindowSlides, PTL DEF StoresSlide

\* The band of a pivot and a rate are those of the last samples, and no others
\* (pivot_update, pivot_classify, rate_update).
THEOREM RecentAreRecent == Spec => []EstimatesAreRecent
<1>1. P!BandIsRange /\ M!RateOfLastTwo => EstimatesAreRecent
  BY Zenon DEF EstimatesAreRecent
<1> QED  BY <1>1, StoresAreIndependent, PivotIsRecent, RateIsRecent, PTL

\* Balances, peaks, tallies and clamp counts are those of the events recorded
\* (ledger_record, tally_add, clamp_apply).
THEOREM AccountsAreTrue == Spec => []TotalsTrue
<1>1. A!BalancesTrue /\ A!CountedOnce /\ M!ClampTrue => TotalsTrue
  BY Zenon DEF TotalsTrue
<1> QED  BY <1>1, StoresAreIndependent, LedgerIsTrue, TallyIsTrue, ClampIsTrue, PTL

\* The stamps of a tracker and the length of an epoch are true to less than a
\* millisecond (tracker_collect, epoch_elapsed_ms).
THEOREM StampsAreTrue == Spec => []TrackersTell
<1>1. Y!StampsAreClose /\ Y!ElapsedIsTrue => TrackersTell
  BY Zenon DEF TrackersTell
<1> QED  BY <1>1, StoresAreIndependent, TimesAreTrue, PTL

\* Filters and chains let through what they were told to (filter_match,
\* filter_chain_match).
THEOREM SelectionsAreTrue == Spec => []FiltersSelect
<1>1. F!MatchMeansCalls /\ F!ChainIsConjunction => FiltersSelect
  BY Zenon DEF FiltersSelect
<1> QED  BY <1>1, StoresAreIndependent, FiltersTell, PTL

\* A latch takes one value between armings, and a group never claims what is
\* not so (latch_trigger, latch_group_evaluate).
THEOREM LatchesAreTrue == Spec => []LatchesHold
<1>1. G!FirstValueOnly /\ G!FlagsNeverLead => LatchesHold
  BY Zenon DEF LatchesHold
<1> QED  BY <1>1, StoresAreIndependent, LatchesTakeOneValue, GroupsNeverLead, PTL

\* The scoreboard and the checkpoint store are bounded tables, which keep what
\* was last put under each key, when no label is longer than the field that it
\* is stored in (scoreboard_upsert, scoreboard_remove, checkpoint_record,
\* checkpoint_remove).
THEOREM TablesKeep == NoneLong => (Spec => TablesKeepEntries)
BY StoresAreIndependent, ScoreboardIsTable, CheckpointsAreTable, PTL DEF TablesKeepEntries
=============================================================================
