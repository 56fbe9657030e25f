---------------------------- MODULE SnapshotLog ----------------------------
(***************************************************************************)
(* The growable array of snapshots of src/src/snapshot.c (snapshot_log_t). *)
(* A log is a record; the operators below are the library's functions on   *)
(* it, as functions from the log before a call to the log after it.        *)
(***************************************************************************)
EXTENDS Integers

CONSTANT Junk   \* what heap memory holds before it is written

\* The log after snapshot_log_free: no buffer, no capacity.
NoLog ==
  [live |-> FALSE, capacity |-> 0, count |-> 0, entries |-> [i \in {} |-> Junk]]

\* snapshot_log_init with a capacity other than 0 and a malloc that succeeds.
NewLog(cap) ==
  [live |-> TRUE, capacity |-> cap, count |-> 0,
   entries |-> [i \in 0..(cap - 1) |-> Junk]]

\* Mutant: off by one.
Full_Overfull(log) == log.count > log.capacity

Full(log) == log.count >= log.capacity

\* Mutant: the capacity is doubled, the buffer is not.
Grown_CapacityOnly(log) == [log EXCEPT !.capacity = @ * 2]

\* realloc to twice the capacity keeps the old slots and adds unwritten ones.
Grown(log) ==
  LET cap == log.capacity * 2
  IN  [log EXCEPT
        !.capacity = cap,
        !.entries  = [i \in 0..(cap - 1) |->
                        IF i < log.capacity THEN log.entries[i] ELSE Junk]]

Room(log) == IF Full(log) THEN Grown(log) ELSE log

\* snapshot_log_append when no realloc fails.
Appended(log, snap) ==
  LET room == Room(log)
  IN  [live     |-> room.live,
       capacity |-> room.capacity,
       count    |-> room.count + 1,
       entries  |-> [room.entries EXCEPT ![room.count] = snap]]

\* What a reader of the log sees, oldest first (snapshot_log_print_all).
Contents(log) == [i \in 1..log.count |-> log.entries[i - 1]]

\* log is a log record, of any fill, whose snapshots come from the set S.
IsLog(log, S) ==
  /\ log.capacity \in Nat
  /\ log \in [live : BOOLEAN, capacity : {log.capacity}, count : Nat,
              entries : [0..(log.capacity - 1) -> S \cup {Junk}]]
=============================================================================
