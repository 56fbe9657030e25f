------------------------------ MODULE Accounts ------------------------------
(***************************************************************************)
(* The two components of memtrace-lite that add up by name, independent of *)
(* each other: the ledger of allocations and frees by category             *)
(* (src/src/ledger.c), and the tally, whose counters are used through the  *)
(* index that tally_register returned for their name (src/src/tally.c).    *)
(* The ledger stores and compares categories by their first 47 characters, *)
(* so that a category is a stem here.  The tally stores a name cut to 31   *)
(* characters but compares it over 32: its stem is what is stored of it,   *)
(* and a name is long if there is more of it than that.                    *)
(***************************************************************************)
EXTENDS Integers, Sequences, SequencesExt, FiniteSets

CONSTANTS Categories,    \* stems of category names
          Bytes,         \* positive for allocations, negative for frees
          MaxEntries,    \* LEDGER_MAX_ENTRIES
          MaxEvents,     \* bound: events recorded for one category
          Names,           \* names of the tally, with the fields stem and long
          Amounts,         \* values added
          MaxCategories,   \* TALLY_MAX_CATEGORIES
          MaxCount,        \* bound: additions to one category between resets
          MaxGeneration    \* bound: resets

-----------------------------------------------------------------------------
(* ledger.c                                                                *)

VARIABLES entries,       \* the first count entries
          net, top       \* history: bytes in use by category since the last
                         \* reset, and the most that ever were

ledgerVars == <<entries, net, top>>

Fresh(name) == [name |-> name, total_allocated |-> 0, total_freed |-> 0,
                peak_balance |-> 0, event_count |-> 0]

ledger_init ==
  /\ entries = <<>>
  /\ net = [c \in Categories |-> 0] /\ top = [c \in Categories |-> 0]

ledger_reset ==
  /\ entries' = [i \in DOMAIN entries |-> Fresh(entries[i].name)]
  /\ net' = [c \in Categories |-> 0] /\ top' = [c \in Categories |-> 0]

FindEntry(category) == SelectInSeq(entries, LAMBDA e : e.name = category)

\* Mutant: what was freed in excess is still taken for in use.
Balance_Absolute(e) == IF e.total_allocated > e.total_freed
                       THEN e.total_allocated - e.total_freed
                       ELSE e.total_freed - e.total_allocated

\* What counts towards the peak: never less than 0.
Balance(e) == IF e.total_allocated > e.total_freed
              THEN e.total_allocated - e.total_freed ELSE 0

\* The entry after bytes more were recorded in it.
Recorded(e, bytes) ==
  LET counted == [e EXCEPT !.total_allocated = IF bytes > 0 THEN @ + bytes ELSE @,
                           !.total_freed = IF bytes < 0 THEN @ - bytes ELSE @,
                           !.event_count = @ + 1]
  IN [counted EXCEPT !.peak_balance =
        IF Balance(counted) > @ THEN Balance(counted) ELSE @]

Note(category, bytes) ==
  /\ net' = [net EXCEPT ![category] = @ + bytes]
  /\ top' = [top EXCEPT ![category] = IF net'[category] > @ THEN net'[category] ELSE @]

RecordKnown ==
  \E c \in Categories, bytes \in Bytes :
    /\ FindEntry(c) > 0
    /\ entries[FindEntry(c)].event_count < MaxEvents
    /\ entries' = [entries EXCEPT ![FindEntry(c)] = Recorded(@, bytes)]
    /\ Note(c, bytes)

RecordNew ==
  /\ Len(entries) < MaxEntries
  /\ \E c \in Categories, bytes \in Bytes :
       /\ FindEntry(c) = 0
       /\ entries' = Append(entries, Recorded(Fresh(c), bytes))
       /\ Note(c, bytes)

\* A full ledger returns -1 for a new category.
RecordRefused ==
  /\ Len(entries) >= MaxEntries
  /\ \E c \in Categories : FindEntry(c) = 0
  /\ UNCHANGED ledgerVars

ledger_record == RecordKnown \/ RecordNew \/ RecordRefused

LedgerNext == ledger_record \/ ledger_reset

ledger_balance(category) ==
  IF FindEntry(category) = 0 THEN 0
  ELSE entries[FindEntry(category)].total_allocated - entries[FindEntry(category)].total_freed

-----------------------------------------------------------------------------
(* tally.c                                                                 *)

VARIABLES categories, generation,
          handles,         \* history: indexes that were returned for a name
          sums             \* history: what was added for a name since reset

tallyVars == <<categories, generation, handles, sums>>

tally_init ==
  /\ categories = <<>> /\ generation = 0
  /\ handles = [n \in Names |-> {}] /\ sums = [n \in Names |-> 0]

\* strncmp over one character more than is stored.
Matches(stored, name) == stored = name.stem /\ ~name.long

\* Mutant: the last category is not looked at.
FindCategory_SkipsLast(name) ==
  LET i == SelectInSeq(categories, LAMBDA c : Matches(c.name, name))
  IN IF i = Len(categories) THEN 0 ELSE i

\* The first index that the name matches, or 0.
FindCategory(name) == SelectInSeq(categories, LAMBDA c : Matches(c.name, name))

RegisterKnown ==
  /\ Len(categories) < MaxCategories
  /\ \E n \in Names :
       /\ FindCategory(n) > 0
       /\ handles' = [handles EXCEPT ![n] = @ \cup {FindCategory(n)}]
  /\ UNCHANGED <<categories, generation, sums>>

RegisterNew ==
  /\ Len(categories) < MaxCategories
  /\ \E n \in Names :
       /\ FindCategory(n) = 0
       /\ categories' = Append(categories, [name |-> n.stem, count |-> 0, total |-> 0])
       /\ handles' = [handles EXCEPT ![n] = @ \cup {Len(categories')}]
  /\ UNCHANGED <<generation, sums>>

\* A full tally returns -1 for every name, also for a known one.
RegisterRefused == Len(categories) >= MaxCategories /\ UNCHANGED tallyVars

tally_register == RegisterKnown \/ RegisterNew \/ RegisterRefused

\* Something is counted for a name, with an index that was returned for it;
\* tally_inc adds 0.
tally_add ==
  /\ \E n \in Names, amount \in Amounts : \E i \in handles[n] :
       /\ categories[i].count < MaxCount
       /\ categories' = [categories EXCEPT ![i].count = @ + 1, ![i].total = @ + amount]
       /\ sums' = [sums EXCEPT ![n] = @ + amount]
  /\ UNCHANGED <<generation, handles>>

tally_reset ==
  /\ generation < MaxGeneration
  /\ categories' = [i \in DOMAIN categories |->
                      [categories[i] EXCEPT !.count = 0, !.total = 0]]
  /\ generation' = generation + 1
  /\ sums' = [n \in Names |-> 0]
  /\ UNCHANGED handles

TallyNext == tally_register \/ tally_add \/ tally_reset

-----------------------------------------------------------------------------
vars == <<ledgerVars, tallyVars>>

Init == ledger_init /\ tally_init

Next == \/ LedgerNext /\ UNCHANGED tallyVars
        \/ TallyNext  /\ UNCHANGED ledgerVars

Spec == Init /\ [][Next]_vars

-----------------------------------------------------------------------------
\* Entries and categories are well-formed and within bounds, and no category
\* of the ledger has two entries.
TypeOK ==
  /\ entries \in Seq([name : Categories, total_allocated : Nat, total_freed : Nat,
                      peak_balance : Nat, event_count : 0..MaxEvents])
  /\ Len(entries) <= MaxEntries
  /\ \A i, j \in DOMAIN entries : entries[i].name = entries[j].name => i = j
  /\ categories \in Seq([name : {n.stem : n \in Names}, count : Nat, total : Nat])
  /\ Len(categories) <= MaxCategories
  /\ generation \in Nat
  /\ \A n \in Names : handles[n] \subseteq DOMAIN categories

\* The balance of a category is what was allocated less what was freed in any
\* order, also below 0, and its peak is the most that ever was in use, not
\* less than the balance now (ledger_record, ledger_balance).
BalancesTrue ==
  \A c \in Categories :
    /\ ledger_balance(c) = net[c]
    /\ FindEntry(c) > 0 => entries[FindEntry(c)].peak_balance = top[c]
    /\ FindEntry(c) = 0 => top[c] = 0

\* A short name has one category, through whatever index it was counted, and
\* shares it with no other name but, at most, one long name it is the stem of:
\* its total is what was added for it and for that one (tally_register,
\* tally_add, tally_get).  Nothing counted is lost in another name's total.
CountedOnce ==
  \A n \in {m \in Names : ~m.long} :
    LET sharing == {m \in Names : m # n /\ handles[m] \cap handles[n] # {}} IN
    /\ Cardinality(handles[n]) <= 1
    /\ \A m \in sharing : m.long /\ m.stem = n.stem
    /\ \A i \in handles[n] :
         /\ i = FindCategory(n)
         /\ categories[i].total >= sums[n]
         /\ sharing = {} => categories[i].total = sums[n]
=============================================================================
