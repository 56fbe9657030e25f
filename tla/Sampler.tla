------------------------------ MODULE Sampler ------------------------------
(***************************************************************************)
(* The sampling loop of memtrace-lite: sampler_run (src/src/sampler.c), a  *)
(* blocking call, run by each thread of Callers on a snapshot log of its   *)
(* own; sampler_stop, called from a signal handler between any two steps   *)
(* of any thread; the log it fills (snapshot.c); and the target process it *)
(* reads through /proc (procmem.c).  The stop flag is one global for all   *)
(* calls.  A thread's step is one access to shared state: the flag, the    *)
(* target, or its log.                                                     *)
(*                                                                         *)
(* A snapshot is represented by the rank of its timestamp among those      *)
(* taken since the log was initialised; sleeping and printing take no      *)
(* modelled time.                                                          *)
(***************************************************************************)
EXTENDS SnapshotLog, Sequences, TLC

CONSTANTS
  Callers,     \* threads that call sampler_run, each with its own log
  InitCaps,    \* capacities given to snapshot_log_init
  Limits,      \* values of cfg->max_samples; 0 means unlimited
  MaxReads     \* bound: successful reads of the target per initialised log

\* The threads are interchangeable: a symmetry for runs that check safety only.
CallerSymmetry == Permutations(Callers)

ASSUME InitCapsAssumption == InitCaps \subseteq Nat \ {0}
ASSUME LimitsAssumption   == Limits \subseteq Nat
ASSUME MaxReadsAssumption == MaxReads \in Nat
ASSUME JunkAssumption     == Junk \notin Nat

VARIABLES
  stop,         \* g_stop_flag
  target,       \* the traced process: "alive" or "exited"
  pc,           \* pc[c]: where c is in sampler_run; "idle" outside a call
  log,          \* log[c]: the log cfg->log of c
  max_samples,  \* max_samples[c]: cfg->max_samples of the call in progress
  collected,    \* collected[c]: the local counter of the call, 0 outside
  snap,         \* snap[c]: the local snapshot of the call
  result        \* result[c]: what the last call of c returned

(* History variables: they record the past and constrain nothing.          *)
VARIABLES
  taken,        \* taken[c]: successful reads since log[c] was initialised
  base,         \* base[c]: log[c].count when the last call was made
  heard,        \* heard[c]: sampler_stop was called during c's current call
  late          \* late[c]: samples c appended since the flag was last raised

vars == <<stop, target, pc, log, max_samples, collected, snap, result,
          taken, base, heard, late>>

cfgVars  == <<log, max_samples, taken, base>>

\* Inside the call, after the stop flag was cleared.
Loop == {"test", "take", "append", "limit", "sleep"}

Init ==
  /\ stop = 0
  /\ target = "alive"
  /\ pc          = [c \in Callers |-> "idle"]
  /\ log         = [c \in Callers |-> NoLog]
  /\ max_samples = [c \in Callers |-> 0]
  /\ collected   = [c \in Callers |-> 0]
  /\ snap        = [c \in Callers |-> 0]
  /\ result      = [c \in Callers |-> 0]
  /\ taken       = [c \in Callers |-> 0]
  /\ base        = [c \in Callers |-> 0]
  /\ heard       = [c \in Callers |-> FALSE]
  /\ late        = [c \in Callers |-> 0]

-----------------------------------------------------------------------------
(* What a caller does between calls.                                       *)

InitLog(c) ==
  /\ pc[c] = "idle" /\ ~log[c].live
  /\ \E cap \in InitCaps : log' = [log EXCEPT ![c] = NewLog(cap)]
  /\ taken'  = [taken EXCEPT ![c] = 0]
  /\ result' = [result EXCEPT ![c] = 0]
  /\ UNCHANGED <<stop, target, pc, max_samples, collected, snap, base,
                 heard, late>>

FreeLog(c) ==
  /\ pc[c] = "idle" /\ log[c].live
  /\ log'    = [log EXCEPT ![c] = NoLog]
  /\ taken'  = [taken EXCEPT ![c] = 0]
  /\ result' = [result EXCEPT ![c] = 0]
  /\ UNCHANGED <<stop, target, pc, max_samples, collected, snap, base,
                 heard, late>>

\* cfg is NULL, has no log, or has interval_ms = 0: refused, flag untouched.
RefuseCall(c) ==
  /\ pc[c] = "idle"
  /\ result' = [result EXCEPT ![c] = -1]
  /\ UNCHANGED <<stop, target, pc, log, max_samples, collected, snap,
                 taken, base, heard, late>>

\* A call with a valid configuration, up to the store that clears the flag.
CallRun(c) ==
  /\ pc[c] = "idle" /\ log[c].live
  /\ \E m \in Limits :
       /\ taken[c] + m <= MaxReads      \* bound: reads left for the whole run
       /\ max_samples' = [max_samples EXCEPT ![c] = m]
  /\ pc'   = [pc EXCEPT ![c] = "entry"]
  /\ base' = [base EXCEPT ![c] = log[c].count]
  /\ UNCHANGED <<stop, target, log, collected, snap, result, taken, heard, late>>

-----------------------------------------------------------------------------
(* The steps of sampler_run.                                               *)

\* The call ends, and its locals and what was recorded of it with it.
Return(c, r) ==
  /\ pc'          = [pc EXCEPT ![c] = "idle"]
  /\ result'      = [result EXCEPT ![c] = r]
  /\ max_samples' = [max_samples EXCEPT ![c] = 0]
  /\ collected'   = [collected EXCEPT ![c] = 0]
  /\ snap'        = [snap EXCEPT ![c] = 0]
  /\ base'        = [base EXCEPT ![c] = 0]
  /\ heard'       = [heard EXCEPT ![c] = FALSE]
  /\ late'        = [late EXCEPT ![c] = 0]
  /\ UNCHANGED <<stop, target, log, taken>>

\* Mutant: a run starts with an empty log.
ClearFlag_EmptiesLog(c) ==
  /\ pc[c] = "entry"
  /\ stop' = 0
  /\ log' = [log EXCEPT ![c].count = 0]
  /\ pc'  = [pc EXCEPT ![c] = "test"]
  /\ UNCHANGED <<target, max_samples, taken, base, collected, snap, result,
                 heard, late>>

ClearFlag(c) ==
  /\ pc[c] = "entry"
  /\ stop'      = 0
  /\ collected' = [collected EXCEPT ![c] = 0]
  /\ pc'        = [pc EXCEPT ![c] = "test"]
  /\ UNCHANGED <<target, cfgVars, snap, result, heard, late>>

\* Mutant: the body is entered whatever the flag.
EnterBody_NoTest(c) ==
  /\ pc[c] = "test"
  /\ pc' = [pc EXCEPT ![c] = "take"]
  /\ UNCHANGED <<stop, target, cfgVars, collected, snap, result, heard, late>>

\* while (!g_stop_flag)
EnterBody(c) ==
  /\ pc[c] = "test" /\ stop = 0
  /\ pc' = [pc EXCEPT ![c] = "take"]
  /\ UNCHANGED <<stop, target, cfgVars, collected, snap, result, heard, late>>

ExitLoop(c) ==
  /\ pc[c] = "test" /\ stop # 0
  /\ Return(c, collected[c])

\* snapshot_take succeeds: /proc/<pid>/status opens and has memory fields.
TakeSnapshot(c) ==
  /\ pc[c] = "take"
  /\ target = "alive" /\ taken[c] < MaxReads
  /\ taken' = [taken EXCEPT ![c] = @ + 1]
  /\ snap'  = [snap EXCEPT ![c] = taken[c] + 1]
  /\ pc'    = [pc EXCEPT ![c] = "append"]
  /\ UNCHANGED <<stop, target, log, max_samples, base, collected, result,
                 heard, late>>

\* It fails: the target has exited, or the read of a living one fails.
FailSnapshot(c) ==
  /\ pc[c] = "take"
  /\ pc' = [pc EXCEPT ![c] = "limit"]
  /\ UNCHANGED <<stop, target, cfgVars, collected, snap, result, heard, late>>

AppendSnapshot(c) ==
  /\ pc[c] = "append"
  /\ log'       = [log EXCEPT ![c] = Appended(@, snap[c])]
  /\ collected' = [collected EXCEPT ![c] = @ + 1]
  /\ late'      = [late EXCEPT ![c] = IF stop = 0 THEN @ ELSE @ + 1]
  /\ pc'        = [pc EXCEPT ![c] = "limit"]
  /\ UNCHANGED <<stop, target, max_samples, snap, result, taken, base, heard>>

\* The log is full and realloc fails: the run ends with -1.
FailAppend(c) ==
  /\ pc[c] = "append" /\ Full(log[c])
  /\ Return(c, -1)

\* Mutant: off by one.
AtLimit_Beyond(c) == max_samples[c] > 0 /\ collected[c] > max_samples[c]

AtLimit(c) == max_samples[c] > 0 /\ collected[c] >= max_samples[c]

ReachLimit(c) ==
  /\ pc[c] = "limit" /\ AtLimit(c)
  /\ Return(c, collected[c])

GoToSleep(c) ==
  /\ pc[c] = "limit" /\ ~AtLimit(c)
  /\ pc' = [pc EXCEPT ![c] = "sleep"]
  /\ UNCHANGED <<stop, target, cfgVars, collected, snap, result, heard, late>>

\* Mutant: the loop goes round without testing the flag.
WakeUp_NoTest(c) ==
  /\ pc[c] = "sleep"
  /\ pc' = [pc EXCEPT ![c] = "take"]
  /\ UNCHANGED <<stop, target, cfgVars, collected, snap, result, heard, late>>

\* nanosleep ends, after its time or early because of a signal.
WakeUp(c) ==
  /\ pc[c] = "sleep"
  /\ pc' = [pc EXCEPT ![c] = "test"]
  /\ UNCHANGED <<stop, target, cfgVars, collected, snap, result, heard, late>>

RunStep(c) ==
  \/ ClearFlag(c) \/ EnterBody(c) \/ ExitLoop(c)
  \/ TakeSnapshot(c) \/ FailSnapshot(c)
  \/ AppendSnapshot(c) \/ FailAppend(c)
  \/ ReachLimit(c) \/ GoToSleep(c) \/ WakeUp(c)

-----------------------------------------------------------------------------
(* The environment: the signal handler and the traced process.             *)

sampler_stop ==
  /\ stop'  = 1
  /\ heard' = [c \in Callers |-> heard[c] \/ pc[c] # "idle"]
  /\ late'  = [c \in Callers |-> IF stop = 0 THEN 0 ELSE late[c]]
  /\ UNCHANGED <<target, pc, cfgVars, collected, snap, result>>

\* From then on it is a zombie, without memory fields, or has no /proc entry.
TargetExits ==
  /\ target = "alive" /\ target' = "exited"
  /\ UNCHANGED <<stop, pc, cfgVars, collected, snap, result, heard, late>>

Next ==
  \/ \E c \in Callers : InitLog(c) \/ FreeLog(c) \/ RefuseCall(c) \/ CallRun(c)
  \/ \E c \in Callers : RunStep(c)
  \/ sampler_stop
  \/ TargetExits

Spec == Init /\ [][Next]_vars

\* A thread inside sampler_run keeps running; nobody has to call it, to call
\* sampler_stop or to end the target.
FairSpec == Spec /\ \A c \in Callers : WF_vars(RunStep(c))

\* Also: a read of a living target does not fail for ever.
ReadableSpec == FairSpec /\ \A c \in Callers : SF_vars(TakeSnapshot(c))

-----------------------------------------------------------------------------
(* Correctness.                                                            *)

\* Every variable has its type.
TypeOK ==
  /\ stop \in 0..1
  /\ target \in {"alive", "exited"}
  /\ pc \in [Callers -> {"idle", "entry"} \cup Loop]
  /\ log = [c \in Callers |-> log[c]]
  /\ \A c \in Callers : IsLog(log[c], Nat)
  /\ max_samples \in [Callers -> Nat]
  /\ collected \in [Callers -> Nat]
  /\ snap \in [Callers -> Nat]
  /\ result \in [Callers -> Int]
  /\ taken \in [Callers -> 0..MaxReads]
  /\ base \in [Callers -> Nat]
  /\ heard \in [Callers -> BOOLEAN]
  /\ late \in [Callers -> Nat]

\* A reader of a log never runs past its buffer nor sees a slot that was not
\* written, and the snapshots are in the order they were taken, none twice:
\* appending across a realloc loses and reorders nothing (snapshot_log_append).
LogSound ==
  \A c \in Callers :
    LET lg == log[c]
    IN  /\ lg.count <= lg.capacity
        /\ \A i \in 0..(lg.count - 1) :
             /\ lg.entries[i] # Junk
             /\ \A j \in 0..(i - 1) : lg.entries[j] < lg.entries[i]

\* A run that returns n >= 0 has left exactly n more snapshots in the log than
\* it found there, even if other threads run, the flag is raised or the target
\* dies meanwhile, and n is at most a limit other than 0 (sampler_run).
ReturnsWhatItAppended ==
  [][\A c \in Callers :
       pc[c] \in Loop /\ pc'[c] = "idle" =>
         \/ result'[c] = -1
         \/ /\ result'[c] = log'[c].count - base[c]
            /\ max_samples[c] > 0 => result'[c] <= max_samples[c]]_vars

\* Once sampler_stop was called and no call has cleared the flag since, a
\* thread appends at most one more snapshot: the flag is tested every round.
StopLatency == stop = 1 => \A c \in Callers : pc[c] \in Loop => late[c] <= 1

\* A run is a session of the interface: snapshots are appended one at a time,
\* newest last, only while a call is in progress, and the call returns how
\* many it appended, or -1 (sampler.h, snapshot.h).
Session == INSTANCE SamplingSession WITH
  Sample  <- 1..MaxReads,
  samples <- [c \in Callers |-> Contents(log[c])],
  running <- [c \in Callers |-> pc[c] # "idle"],
  got     <- collected,
  outcome <- result

ImplementsSession == Session!Spec

\* A stop that arrives after the call cleared the flag ends it, whatever the
\* target does, if no other call clears the flag first (sampler_run).
StopEndsRun ==
  \A c \in Callers :
    (stop = 1 /\ pc[c] \in Loop) ~> (stop = 0 \/ pc[c] = "idle")

\* A run with a limit ends without a stop, as long as the target can be read.
LimitEndsRun ==
  \A c \in Callers :
    (pc[c] # "idle" /\ max_samples[c] > 0)
      ~> (pc[c] = "idle" \/ target # "alive")

\* sampler.h:16-17 says of the call: "Stops when max_samples reached (if
\* non-zero) or sampler_stop() is called from a signal handler".
StopHeard == \A c \in Callers : heard[c] ~> pc[c] = "idle"
=============================================================================
