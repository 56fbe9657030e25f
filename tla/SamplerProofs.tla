--------------------------- MODULE SamplerProofs ---------------------------
(***************************************************************************)
(* Proofs about Sampler, for every set of threads, of capacities and of    *)
(* limits.  IInv is the inductive invariant: LogInv gives LogSound,        *)
(* CallInv gives ReturnsWhatItAppended, FlagInv gives StopLatency.         *)
(***************************************************************************)
EXTENDS Sampler, SequenceTheorems, TLAPS

\* The log is written up to count with ranks of past reads, in order; the
\* snapshot about to be appended is the newest of all.
LogInv ==
  \A c \in Callers :
    /\ log[c].count <= log[c].capacity
    /\ log[c].live => log[c].capacity > 0
    /\ \A i \in 0..(log[c].count - 1) :
         /\ log[c].entries[i] \in 1..taken[c]
         /\ pc[c] = "append" => log[c].entries[i] < snap[c]
         /\ \A j \in 0..(i - 1) : log[c].entries[j] < log[c].entries[i]
    /\ pc[c] = "append" => snap[c] \in 1..taken[c]

\* What a call has counted is what it has appended; a limit was not reached
\* yet, except just before it is tested.
CallInv ==
  \A c \in Callers :
    /\ pc[c] # "idle" => log[c].live
    /\ pc[c] \in {"idle", "entry"} => collected[c] = 0
    /\ pc[c] # "idle" => log[c].count = base[c] + collected[c]
    /\ pc[c] # "idle" /\ max_samples[c] > 0 =>
         /\ collected[c] <= max_samples[c]
         /\ pc[c] # "limit" => collected[c] < max_samples[c]

\* A thread that appended since the flag was raised meets the test before the
\* next read.
FlagInv ==
  stop = 1 => \A c \in Callers :
    pc[c] \in Loop => late[c] = 0 \/ (late[c] = 1 /\ pc[c] \notin {"take", "append"})

IInv == TypeOK /\ LogInv /\ CallInv /\ FlagInv

-----------------------------------------------------------------------------
(* What the operations of a log do to it.                                  *)

\* A new log is an empty log.
LEMMA NewLogIsLog ==
  ASSUME NEW cap \in Nat
  PROVE  IsLog(NewLog(cap), Nat) /\ IsLog(NoLog, Nat)
BY DEF IsLog, NewLog, NoLog

\* Making room keeps the log's snapshots and leaves a free slot.
LEMMA RoomLemma ==
  ASSUME NEW lg, IsLog(lg, Nat), lg.count <= lg.capacity, lg.capacity > 0
  PROVE  /\ IsLog(Room(lg), Nat)
         /\ Room(lg).live = lg.live
         /\ Room(lg).count = lg.count
         /\ lg.count < Room(lg).capacity
         /\ \A i \in 0..(lg.count - 1) : Room(lg).entries[i] = lg.entries[i]
<1>1. CASE ~Full(lg)
  BY <1>1 DEF Room, Full, IsLog
<1>2. CASE Full(lg)
  <2>1. Room(lg) = Grown(lg)
    BY <1>2 DEF Room
  <2>2. lg.capacity * 2 \in Nat /\ lg.count < lg.capacity * 2
    BY DEF IsLog
  <2>3. /\ Grown(lg).live = lg.live
        /\ Grown(lg).count = lg.count
        /\ Grown(lg).capacity = lg.capacity * 2
        /\ Grown(lg).entries =
             [i \in 0..(lg.capacity * 2 - 1) |->
                IF i < lg.capacity THEN lg.entries[i] ELSE Junk]
    BY DEF Grown, IsLog
  <2>4. IsLog(Grown(lg), Nat)
    <3>1. Grown(lg).entries \in [0..(lg.capacity * 2 - 1) -> Nat \cup {Junk}]
      BY <2>2, <2>3 DEF IsLog
    <3>2. Grown(lg) \in [live : BOOLEAN, capacity : {lg.capacity * 2}, count : Nat,
                         entries : [0..(lg.capacity * 2 - 1) -> Nat \cup {Junk}]]
      BY <2>2, <2>3, <3>1 DEF IsLog, Grown
    <3> QED  BY <2>2, <2>3, <3>2 DEF IsLog
  <2>5. \A i \in 0..(lg.count - 1) : Grown(lg).entries[i] = lg.entries[i]
    BY <2>2, <2>3 DEF IsLog
  <2> QED  BY <2>1, <2>2, <2>3, <2>4, <2>5
<1> QED  BY <1>1, <1>2

\* Appending keeps the log's snapshots and adds one behind them.
LEMMA AppendedLemma ==
  ASSUME NEW lg, IsLog(lg, Nat), lg.count <= lg.capacity, lg.capacity > 0,
         NEW s \in Nat
  PROVE  /\ IsLog(Appended(lg, s), Nat)
         /\ Appended(lg, s).live = lg.live
         /\ Appended(lg, s).count = lg.count + 1
         /\ Appended(lg, s).count <= Appended(lg, s).capacity
         /\ Appended(lg, s).capacity > 0
         /\ Appended(lg, s).entries[lg.count] = s
         /\ \A i \in 0..(lg.count - 1) :
              Appended(lg, s).entries[i] = lg.entries[i]
<1> DEFINE rm == Room(lg)
<1>1. /\ IsLog(rm, Nat) /\ rm.live = lg.live /\ rm.count = lg.count
      /\ lg.count < rm.capacity
      /\ \A i \in 0..(lg.count - 1) : rm.entries[i] = lg.entries[i]
  BY RoomLemma
<1>2. /\ Appended(lg, s).live = rm.live
      /\ Appended(lg, s).capacity = rm.capacity
      /\ Appended(lg, s).count = rm.count + 1
      /\ Appended(lg, s).entries = [rm.entries EXCEPT ![rm.count] = s]
  BY <1>1 DEF Appended, IsLog
<1>3. rm.count \in 0..(rm.capacity - 1)
  BY <1>1 DEF IsLog
<1>4. IsLog(Appended(lg, s), Nat)
  <2>1. Appended(lg, s).entries \in [0..(rm.capacity - 1) -> Nat \cup {Junk}]
    BY <1>1, <1>2, <1>3 DEF IsLog
  <2>2. Appended(lg, s) \in
          [live : BOOLEAN, capacity : {rm.capacity}, count : Nat,
           entries : [0..(rm.capacity - 1) -> Nat \cup {Junk}]]
    BY <1>1, <1>2, <2>1 DEF IsLog, Appended
  <2> QED  BY <1>1, <1>2, <2>2 DEF IsLog
<1> HIDE DEF rm
<1> QED  BY <1>1, <1>2, <1>3, <1>4 DEF IsLog

-----------------------------------------------------------------------------
(* The invariant holds initially and is preserved by every step.           *)

LEMMA InitIInv == Init => IInv
<1> SUFFICES ASSUME Init PROVE IInv
  OBVIOUS
<1> USE MaxReadsAssumption DEF Init
<1>1. TypeOK
  BY NewLogIsLog DEF TypeOK
<1>2. LogInv /\ CallInv /\ FlagInv
  BY DEF LogInv, CallInv, FlagInv, NoLog
<1> QED  BY <1>1, <1>2 DEF IInv

\* The log of a thread that is about to append.
LEMMA AppendingLog ==
  ASSUME IInv, NEW c \in Callers, pc[c] = "append"
  PROVE  /\ IsLog(log[c], Nat) /\ log[c].count <= log[c].capacity
         /\ log[c].capacity > 0
         /\ snap[c] \in Nat
BY DEF IInv, TypeOK, LogInv, CallInv

LEMMA NextTypeOK == IInv /\ [Next]_vars => TypeOK'
<1> SUFFICES ASSUME IInv, [Next]_vars PROVE TypeOK'
  OBVIOUS
<1> USE MaxReadsAssumption, LimitsAssumption, InitCapsAssumption
<1>0. TypeOK
  BY DEF IInv
<1>1. ASSUME NEW c \in Callers, InitLog(c) PROVE TypeOK'
  <2>1. PICK cap \in InitCaps : log' = [log EXCEPT ![c] = NewLog(cap)]
    BY <1>1 DEF InitLog
  <2>2. IsLog(NewLog(cap), Nat)
    BY NewLogIsLog
  <2> QED  BY <1>0, <1>1, <2>1, <2>2 DEF TypeOK, InitLog
<1>2. ASSUME NEW c \in Callers, FreeLog(c) PROVE TypeOK'
  BY <1>0, <1>2, NewLogIsLog DEF TypeOK, FreeLog
<1>3. ASSUME NEW c \in Callers, RefuseCall(c) PROVE TypeOK'
  BY <1>0, <1>3 DEF TypeOK, RefuseCall
<1>4. ASSUME NEW c \in Callers, CallRun(c) PROVE TypeOK'
  <2>1. log[c].count \in Nat
    BY <1>0 DEF TypeOK, IsLog
  <2> QED  BY <1>0, <1>4, <2>1 DEF TypeOK, CallRun
<1>5. ASSUME NEW c \in Callers, RunStep(c) PROVE TypeOK'
  <2>1. CASE ClearFlag(c)
    BY <1>0, <2>1 DEF TypeOK, ClearFlag, cfgVars, Loop
  <2>2. CASE EnterBody(c)
    BY <1>0, <2>2 DEF TypeOK, EnterBody, cfgVars, Loop
  <2>3. CASE ExitLoop(c)
    BY <1>0, <2>3 DEF TypeOK, ExitLoop, Return
  <2>4. CASE TakeSnapshot(c)
    BY <1>0, <2>4 DEF TypeOK, TakeSnapshot, Loop
  <2>5. CASE FailSnapshot(c)
    BY <1>0, <2>5 DEF TypeOK, FailSnapshot, cfgVars, Loop
  <2>6. CASE AppendSnapshot(c)
    <3>1. IsLog(Appended(log[c], snap[c]), Nat)
      BY <2>6, AppendingLog, AppendedLemma DEF AppendSnapshot
    <3> QED  BY <1>0, <2>6, <3>1 DEF TypeOK, AppendSnapshot, Loop
  <2>7. CASE FailAppend(c)
    BY <1>0, <2>7 DEF TypeOK, FailAppend, Return
  <2>8. CASE ReachLimit(c)
    BY <1>0, <2>8 DEF TypeOK, ReachLimit, Return
  <2>9. CASE GoToSleep(c)
    BY <1>0, <2>9 DEF TypeOK, GoToSleep, cfgVars, Loop
  <2>10. CASE WakeUp(c)
    BY <1>0, <2>10 DEF TypeOK, WakeUp, cfgVars, Loop
  <2> QED  BY <1>5, <2>1, <2>2, <2>3, <2>4, <2>5, <2>6, <2>7, <2>8, <2>9, <2>10
           DEF RunStep
<1>6. CASE sampler_stop
  BY <1>0, <1>6 DEF TypeOK, sampler_stop, cfgVars
<1>7. CASE TargetExits
  BY <1>0, <1>7 DEF TypeOK, TargetExits, cfgVars
<1>8. CASE UNCHANGED vars
  BY <1>0, <1>8 DEF TypeOK, vars
<1> QED  BY <1>1, <1>2, <1>3, <1>4, <1>5, <1>6, <1>7, <1>8 DEF Next

\* A log that is replaced by an empty one between two calls.
LEMMA EmptiedLog ==
  ASSUME TypeOK, LogInv, NEW c \in Callers, pc[c] = "idle", UNCHANGED <<pc, snap>>,
         NEW lg, lg.count = 0, lg.capacity \in Nat, lg.live => lg.capacity > 0,
         log' = [log EXCEPT ![c] = lg], taken' = [taken EXCEPT ![c] = 0]
  PROVE  LogInv'
<1>1. log'[c] = lg /\ pc'[c] = "idle"
  BY DEF TypeOK
<1>2. \A d \in Callers \ {c} : log'[d] = log[d] /\ taken'[d] = taken[d]
  BY DEF TypeOK
<1>3. ASSUME NEW i \in 0..(lg.count - 1) PROVE FALSE
  OBVIOUS
<1> QED  BY <1>1, <1>2, <1>3 DEF LogInv

LEMMA NextLogInv == IInv /\ TypeOK' /\ [Next]_vars => LogInv'
<1> SUFFICES ASSUME IInv, TypeOK', [Next]_vars PROVE LogInv'
  OBVIOUS
<1> USE MaxReadsAssumption, InitCapsAssumption
<1>0. TypeOK /\ LogInv
  BY DEF IInv
<1>1. ASSUME NEW c \in Callers, InitLog(c) PROVE LogInv'
  <2>1. PICK cap \in InitCaps : log' = [log EXCEPT ![c] = NewLog(cap)]
    BY <1>1 DEF InitLog
  <2>2. /\ NewLog(cap).count = 0 /\ NewLog(cap).capacity = cap
        /\ cap \in Nat /\ cap > 0
    BY DEF NewLog
  <2>3. /\ pc[c] = "idle" /\ UNCHANGED <<pc, snap>>
        /\ taken' = [taken EXCEPT ![c] = 0]
    BY <1>1 DEF InitLog
  <2> QED  BY <1>0, <2>1, <2>2, <2>3, EmptiedLog
<1>2. ASSUME NEW c \in Callers, FreeLog(c) PROVE LogInv'
  BY <1>0, <1>2, EmptiedLog DEF FreeLog, NoLog
<1>3. ASSUME NEW c \in Callers, RefuseCall(c) PROVE LogInv'
  BY <1>0, <1>3 DEF TypeOK, LogInv, RefuseCall
<1>4. ASSUME NEW c \in Callers, CallRun(c) PROVE LogInv'
  BY <1>0, <1>4 DEF TypeOK, LogInv, CallRun
<1>5. ASSUME NEW c \in Callers, RunStep(c) PROVE LogInv'
  <2>1. CASE ClearFlag(c)
    BY <1>0, <2>1 DEF TypeOK, LogInv, ClearFlag, cfgVars
  <2>2. CASE EnterBody(c)
    BY <1>0, <2>2 DEF TypeOK, LogInv, EnterBody, cfgVars
  <2>3. CASE ExitLoop(c)
    BY <1>0, <2>3 DEF TypeOK, LogInv, ExitLoop, Return
  <2>4. CASE TakeSnapshot(c)
    BY <1>0, <2>4 DEF TypeOK, LogInv, TakeSnapshot
  <2>5. CASE FailSnapshot(c)
    BY <1>0, <2>5 DEF TypeOK, LogInv, FailSnapshot, cfgVars
  <2>6. CASE AppendSnapshot(c)
    <3> DEFINE old == log[c]
               new == Appended(log[c], snap[c])
    <3>1. /\ new.count = old.count + 1 /\ new.count <= new.capacity
          /\ new.capacity > 0
          /\ new.entries[old.count] = snap[c]
          /\ \A i \in 0..(old.count - 1) : new.entries[i] = old.entries[i]
      BY <2>6, AppendingLog, AppendedLemma DEF AppendSnapshot
    <3>2. old.count \in Nat
      BY <1>0 DEF TypeOK, IsLog
    <3>3. /\ snap[c] \in 1..taken[c]
          /\ \A i \in 0..(old.count - 1) :
               /\ old.entries[i] \in 1..taken[c] /\ old.entries[i] < snap[c]
               /\ \A j \in 0..(i - 1) : old.entries[j] < old.entries[i]
      BY <1>0, <2>6 DEF LogInv, AppendSnapshot
    <3>4. \A i \in 0..(new.count - 1) :
            /\ new.entries[i] \in 1..taken[c]
            /\ \A j \in 0..(i - 1) : new.entries[j] < new.entries[i]
      <4> TAKE i \in 0..(new.count - 1)
      <4>1. CASE i = old.count
        BY <3>1, <3>2, <3>3, <4>1
      <4>2. CASE i # old.count
        <5>1. i \in 0..(old.count - 1)
          BY <3>1, <3>2, <4>2
        <5>2. \A j \in 0..(i - 1) : j \in 0..(old.count - 1)
          BY <3>2, <5>1
        <5> QED  BY <3>1, <3>3, <5>1, <5>2
      <4> QED  BY <4>1, <4>2
    <3>5. log'[c] = new /\ pc'[c] = "limit" /\ taken' = taken
      BY <1>0, <2>6 DEF TypeOK, AppendSnapshot
    <3>6. \A d \in Callers \ {c} :
            log'[d] = log[d] /\ pc'[d] = pc[d] /\ snap'[d] = snap[d]
      BY <1>0, <2>6 DEF TypeOK, AppendSnapshot
    <3> HIDE DEF new
    <3> QED  BY <1>0, <3>1, <3>4, <3>5, <3>6 DEF LogInv
  <2>7. CASE FailAppend(c)
    BY <1>0, <2>7 DEF TypeOK, LogInv, FailAppend, Return
  <2>8. CASE ReachLimit(c)
    BY <1>0, <2>8 DEF TypeOK, LogInv, ReachLimit, Return
  <2>9. CASE GoToSleep(c)
    BY <1>0, <2>9 DEF TypeOK, LogInv, GoToSleep, cfgVars
  <2>10. CASE WakeUp(c)
    BY <1>0, <2>10 DEF TypeOK, LogInv, WakeUp, cfgVars
  <2> QED  BY <1>5, <2>1, <2>2, <2>3, <2>4, <2>5, <2>6, <2>7, <2>8, <2>9, <2>10
           DEF RunStep
<1>6. CASE sampler_stop
  BY <1>0, <1>6 DEF LogInv, sampler_stop, cfgVars
<1>7. CASE TargetExits
  BY <1>0, <1>7 DEF LogInv, TargetExits, cfgVars
<1>8. CASE UNCHANGED vars
  BY <1>0, <1>8 DEF LogInv, vars
<1> QED  BY <1>1, <1>2, <1>3, <1>4, <1>5, <1>6, <1>7, <1>8 DEF Next

LEMMA NextCallInv == IInv /\ [Next]_vars => CallInv'
<1> SUFFICES ASSUME IInv, [Next]_vars PROVE CallInv'
  OBVIOUS
<1> USE LimitsAssumption
<1>0. TypeOK /\ CallInv
  BY DEF IInv
<1>1. ASSUME NEW c \in Callers, InitLog(c) PROVE CallInv'
  BY <1>0, <1>1 DEF TypeOK, CallInv, InitLog
<1>2. ASSUME NEW c \in Callers, FreeLog(c) PROVE CallInv'
  BY <1>0, <1>2 DEF TypeOK, CallInv, FreeLog
<1>3. ASSUME NEW c \in Callers, RefuseCall(c) PROVE CallInv'
  BY <1>0, <1>3 DEF TypeOK, CallInv, RefuseCall
<1>4. ASSUME NEW c \in Callers, CallRun(c) PROVE CallInv'
  <2>1. log[c].count \in Nat
    BY <1>0 DEF TypeOK, IsLog
  <2> QED  BY <1>0, <1>4, <2>1 DEF TypeOK, CallInv, CallRun
<1>5. ASSUME NEW c \in Callers, RunStep(c) PROVE CallInv'
  <2>1. CASE ClearFlag(c)
    BY <1>0, <2>1 DEF TypeOK, CallInv, ClearFlag, cfgVars
  <2>2. CASE EnterBody(c)
    BY <1>0, <2>2 DEF TypeOK, CallInv, EnterBody, cfgVars
  <2>3. CASE ExitLoop(c)
    BY <1>0, <2>3 DEF TypeOK, CallInv, ExitLoop, Return
  <2>4. CASE TakeSnapshot(c)
    BY <1>0, <2>4 DEF TypeOK, CallInv, TakeSnapshot
  <2>5. CASE FailSnapshot(c)
    BY <1>0, <2>5 DEF TypeOK, CallInv, FailSnapshot, cfgVars
  <2>6. CASE AppendSnapshot(c)
    <3>1. /\ Appended(log[c], snap[c]).count = log[c].count + 1
          /\ Appended(log[c], snap[c]).live = log[c].live
      BY <2>6, AppendingLog, AppendedLemma DEF AppendSnapshot
    <3>2. log[c].count \in Nat
      BY <1>0 DEF TypeOK, IsLog
    <3>3. /\ log'[c].count = log[c].count + 1 /\ log'[c].live = log[c].live
          /\ collected'[c] = collected[c] + 1 /\ pc'[c] = "limit"
      BY <1>0, <2>6, <3>1 DEF TypeOK, AppendSnapshot
    <3>4. \A d \in Callers \ {c} :
            log'[d] = log[d] /\ collected'[d] = collected[d] /\ pc'[d] = pc[d]
      BY <1>0, <2>6 DEF TypeOK, AppendSnapshot
    <3>5. UNCHANGED <<base, max_samples>> /\ pc[c] = "append"
      BY <2>6 DEF AppendSnapshot
    <3>6. /\ base[c] \in Nat /\ collected[c] \in Nat /\ max_samples[c] \in Nat
          /\ log[c].live /\ log[c].count = base[c] + collected[c]
          /\ max_samples[c] > 0 => collected[c] < max_samples[c]
      BY <1>0, <3>5 DEF TypeOK, CallInv
    <3>7. /\ log'[c].live /\ log'[c].count = base[c] + collected'[c]
          /\ max_samples[c] > 0 => collected'[c] <= max_samples[c]
      BY <3>2, <3>3, <3>6
    <3> QED  BY <1>0, <3>3, <3>4, <3>5, <3>7 DEF CallInv
  <2>7. CASE FailAppend(c)
    BY <1>0, <2>7 DEF TypeOK, CallInv, FailAppend, Return
  <2>8. CASE ReachLimit(c)
    BY <1>0, <2>8 DEF TypeOK, CallInv, ReachLimit, Return
  <2>9. CASE GoToSleep(c)
    BY <1>0, <2>9 DEF TypeOK, CallInv, GoToSleep, AtLimit, cfgVars
  <2>10. CASE WakeUp(c)
    BY <1>0, <2>10 DEF TypeOK, CallInv, WakeUp, cfgVars
  <2> QED  BY <1>5, <2>1, <2>2, <2>3, <2>4, <2>5, <2>6, <2>7, <2>8, <2>9, <2>10
           DEF RunStep
<1>6. CASE sampler_stop
  BY <1>0, <1>6 DEF CallInv, sampler_stop, cfgVars
<1>7. CASE TargetExits
  BY <1>0, <1>7 DEF CallInv, TargetExits, cfgVars
<1>8. CASE UNCHANGED vars
  BY <1>0, <1>8 DEF CallInv, vars
<1> QED  BY <1>1, <1>2, <1>3, <1>4, <1>5, <1>6, <1>7, <1>8 DEF Next

LEMMA NextFlagInv == IInv /\ [Next]_vars => FlagInv'
<1> SUFFICES ASSUME IInv, [Next]_vars PROVE FlagInv'
  OBVIOUS
<1> USE DEF Loop
<1>0. TypeOK /\ FlagInv
  BY DEF IInv
<1>1. ASSUME NEW c \in Callers, InitLog(c) PROVE FlagInv'
  BY <1>0, <1>1 DEF FlagInv, InitLog
<1>2. ASSUME NEW c \in Callers, FreeLog(c) PROVE FlagInv'
  BY <1>0, <1>2 DEF FlagInv, FreeLog
<1>3. ASSUME NEW c \in Callers, RefuseCall(c) PROVE FlagInv'
  BY <1>0, <1>3 DEF FlagInv, RefuseCall
<1>4. ASSUME NEW c \in Callers, CallRun(c) PROVE FlagInv'
  BY <1>0, <1>4 DEF TypeOK, FlagInv, CallRun
<1>5. ASSUME NEW c \in Callers, RunStep(c) PROVE FlagInv'
  <2>1. CASE ClearFlag(c)
    BY <2>1 DEF FlagInv, ClearFlag
  <2>2. CASE EnterBody(c)
    BY <2>2 DEF FlagInv, EnterBody
  <2>3. CASE ExitLoop(c)
    BY <1>0, <2>3 DEF TypeOK, FlagInv, ExitLoop, Return
  <2>4. CASE TakeSnapshot(c)
    BY <1>0, <2>4 DEF TypeOK, FlagInv, TakeSnapshot
  <2>5. CASE FailSnapshot(c)
    BY <1>0, <2>5 DEF TypeOK, FlagInv, FailSnapshot, cfgVars
  <2>6. CASE AppendSnapshot(c)
    BY <1>0, <2>6 DEF TypeOK, FlagInv, AppendSnapshot
  <2>7. CASE FailAppend(c)
    BY <1>0, <2>7 DEF TypeOK, FlagInv, FailAppend, Return
  <2>8. CASE ReachLimit(c)
    BY <1>0, <2>8 DEF TypeOK, FlagInv, ReachLimit, Return
  <2>9. CASE GoToSleep(c)
    BY <1>0, <2>9 DEF TypeOK, FlagInv, GoToSleep, cfgVars
  <2>10. CASE WakeUp(c)
    BY <1>0, <2>10 DEF TypeOK, FlagInv, WakeUp, cfgVars
  <2> QED  BY <1>5, <2>1, <2>2, <2>3, <2>4, <2>5, <2>6, <2>7, <2>8, <2>9, <2>10
           DEF RunStep
<1>6. CASE sampler_stop
  BY <1>0, <1>6 DEF TypeOK, FlagInv, sampler_stop
<1>7. CASE TargetExits
  BY <1>0, <1>7 DEF FlagInv, TargetExits
<1>8. CASE UNCHANGED vars
  BY <1>0, <1>8 DEF FlagInv, vars
<1> QED  BY <1>1, <1>2, <1>3, <1>4, <1>5, <1>6, <1>7, <1>8 DEF Next

THEOREM Invariance == Spec => []IInv
<1>1. IInv /\ [Next]_vars => IInv'
  BY NextTypeOK, NextLogInv, NextCallInv, NextFlagInv DEF IInv
<1> QED  BY InitIInv, <1>1, PTL DEF Spec

-----------------------------------------------------------------------------
(* The properties of Sampler.                                              *)

\* Every variable of sampler_run and its log keeps its type.
THEOREM TypeCorrect == Spec => []TypeOK
BY Invariance, PTL DEF IInv

\* Whatever the threads do, a log never overflows, shows no unwritten slot and
\* keeps its snapshots in the order they were taken (snapshot_log_append).
THEOREM LogsAreSound == Spec => []LogSound
<1>1. IInv => LogSound
  BY MaxReadsAssumption, JunkAssumption DEF IInv, TypeOK, LogInv, LogSound
<1> QED  BY <1>1, Invariance, PTL

\* After sampler_stop a run appends at most one more snapshot (sampler_run).
THEOREM StopsSoon == Spec => []StopLatency
<1>1. IInv => StopLatency
  BY DEF IInv, FlagInv, StopLatency
<1> QED  BY <1>1, Invariance, PTL

\* What a run returns is what it appended, within the limit (sampler_run).
THEOREM CountsAreTrue == Spec => ReturnsWhatItAppended
<1> DEFINE Answer(c) ==
      pc[c] \in Loop /\ pc'[c] = "idle" =>
        \/ result'[c] = -1
        \/ /\ result'[c] = log'[c].count - base[c]
           /\ max_samples[c] > 0 => result'[c] <= max_samples[c]
<1>1. ASSUME IInv, [Next]_vars, NEW c \in Callers PROVE Answer(c)
  <2> SUFFICES ASSUME pc[c] \in Loop, pc'[c] = "idle" PROVE Answer(c)
    OBVIOUS
  <2>1. TypeOK /\ log[c].count = base[c] + collected[c]
        /\ (max_samples[c] > 0 => collected[c] <= max_samples[c])
    BY <1>1 DEF IInv, CallInv, Loop
  <2>2. ASSUME NEW d \in Callers,
               InitLog(d) \/ FreeLog(d) \/ RefuseCall(d) \/ CallRun(d)
        PROVE  FALSE
    BY <2>1, <2>2 DEF TypeOK, Loop, InitLog, FreeLog, RefuseCall, CallRun
  <2>3. ASSUME NEW d \in Callers, RunStep(d) PROVE Answer(c)
    <3>1. CASE ExitLoop(d) \/ ReachLimit(d)
      BY <2>1, <3>1 DEF TypeOK, Loop, ExitLoop, ReachLimit, Return
    <3>2. CASE FailAppend(d)
      BY <2>1, <3>2 DEF TypeOK, Loop, FailAppend, Return
    <3>3. CASE \/ ClearFlag(d) \/ EnterBody(d) \/ TakeSnapshot(d)
               \/ FailSnapshot(d) \/ AppendSnapshot(d)
               \/ GoToSleep(d) \/ WakeUp(d)
      BY <2>1, <3>3 DEF TypeOK, Loop, ClearFlag, EnterBody, TakeSnapshot,
         FailSnapshot, AppendSnapshot, GoToSleep, WakeUp
    <3> QED  BY <2>3, <3>1, <3>2, <3>3 DEF RunStep
  <2>4. CASE sampler_stop \/ TargetExits \/ UNCHANGED vars
    BY <2>4 DEF Loop, sampler_stop, TargetExits, vars
  <2> QED  BY <1>1, <2>2, <2>3, <2>4 DEF Next
<1>2. IInv /\ [Next]_vars => [\A c \in Callers : Answer(c)]_vars
  BY <1>1
<1> QED  BY <1>2, Invariance, PTL DEF Spec, ReturnsWhatItAppended

-----------------------------------------------------------------------------
(* A run implements the session of the interface.                          *)

LEMMA EmptyContents ==
  ASSUME NEW lg, lg.count = 0 PROVE Contents(lg) = << >>
BY DEF Contents

LEMMA ContentsType ==
  ASSUME NEW lg, IsLog(lg, Nat), lg.count <= lg.capacity
  PROVE  Contents(lg) \in [1..lg.count -> Nat \cup {Junk}]
<1>1. \A i \in 1..lg.count : i - 1 \in 0..(lg.capacity - 1)
  BY DEF IsLog
<1>2. lg.entries \in [0..(lg.capacity - 1) -> Nat \cup {Junk}]
  BY DEF IsLog
<1> QED  BY <1>1, <1>2 DEF Contents

\* Appending to a log appends to what its reader sees.
LEMMA AppendedContents ==
  ASSUME NEW lg, IsLog(lg, Nat), lg.count <= lg.capacity, lg.capacity > 0,
         NEW s \in Nat
  PROVE  Contents(Appended(lg, s)) = Append(Contents(lg), s)
<1> DEFINE new == Appended(lg, s)
<1>1. /\ new.count = lg.count + 1 /\ new.entries[lg.count] = s
      /\ \A i \in 0..(lg.count - 1) : new.entries[i] = lg.entries[i]
      /\ lg.count \in Nat
  BY AppendedLemma DEF IsLog
<1>2. /\ Contents(lg) \in [1..lg.count -> Nat \cup {Junk}]
      /\ Contents(new) \in [1..(lg.count + 1) -> Nat \cup {Junk}]
  BY <1>1, AppendedLemma, ContentsType
<1> HIDE DEF new
<1>3. /\ Contents(lg) \in Seq(Nat \cup {Junk}) /\ Len(Contents(lg)) = lg.count
      /\ Contents(new) \in Seq(Nat \cup {Junk})
      /\ Len(Contents(new)) = lg.count + 1
  BY <1>1, <1>2, SeqDef, SMTT(30)
<1>4. /\ Append(Contents(lg), s) \in Seq(Nat \cup {Junk})
      /\ Len(Append(Contents(lg), s)) = lg.count + 1
      /\ \A i \in 1..(lg.count + 1) :
           Append(Contents(lg), s)[i]
             = IF i = lg.count + 1 THEN s ELSE Contents(lg)[i]
  BY <1>1, <1>3
<1>5. \A i \in 1..(lg.count + 1) :
        Contents(new)[i] = IF i = lg.count + 1 THEN s ELSE Contents(lg)[i]
  BY <1>1 DEF Contents
<1>6. Contents(new) = Append(Contents(lg), s)
  BY <1>3, <1>4, <1>5, SeqEqual
<1> QED  BY <1>6 DEF new

LEMMA InitRefines == Init => Session!Init
<1> SUFFICES ASSUME Init PROVE Session!Init
  OBVIOUS
<1>1. \A c \in Callers : Contents(log[c]) = << >>
  BY EmptyContents DEF Init, NoLog
<1> QED  BY <1>1 DEF Init, Session!Init

LEMMA NextRefines == IInv /\ IInv' /\ [Next]_vars => [Session!Next]_(Session!sessionVars)
<1> SUFFICES ASSUME IInv, IInv', [Next]_vars
             PROVE  [Session!Next]_(Session!sessionVars)
  OBVIOUS
<1> USE DEF Session!Next, Session!sessionVars
<1> DEFINE samples == [c \in Callers |-> Contents(log[c])]
           running == [c \in Callers |-> pc[c] # "idle"]
<1>0. TypeOK /\ LogInv /\ CallInv /\ TypeOK' /\ CallInv'
  BY DEF IInv
<1>1. ASSUME NEW c \in Callers, InitLog(c) \/ FreeLog(c)
      PROVE  Session!Discard(c)
  <2>1. PICK lg : lg.count = 0 /\ log' = [log EXCEPT ![c] = lg]
    BY <1>1 DEF InitLog, FreeLog, NewLog, NoLog
  <2>2. samples' = [samples EXCEPT ![c] = << >>]
    BY <1>0, <2>1, EmptyContents DEF TypeOK
  <2>3. pc[c] = "idle" /\ UNCHANGED <<pc, collected>>
        /\ result' = [result EXCEPT ![c] = 0]
    BY <1>1 DEF InitLog, FreeLog
  <2> QED  BY <2>2, <2>3 DEF Session!Discard
<1>2. ASSUME NEW c \in Callers, RefuseCall(c) PROVE Session!Refuse(c)
  BY <1>2 DEF RefuseCall, Session!Refuse
<1>3. ASSUME NEW c \in Callers, CallRun(c) PROVE Session!Start(c)
  <2>1. running' = [running EXCEPT ![c] = TRUE] /\ ~running[c]
    BY <1>0, <1>3 DEF TypeOK, CallRun
  <2>2. UNCHANGED <<log, collected, result>>
    BY <1>3 DEF CallRun
  <2> QED  BY <2>1, <2>2 DEF Session!Start
<1>4. ASSUME NEW c \in Callers, AppendSnapshot(c) PROVE Session!Collect(c)
  <2>1. samples' = [samples EXCEPT ![c] = Append(@, snap[c])]
    <3>1. Contents(Appended(log[c], snap[c])) = Append(Contents(log[c]), snap[c])
      BY <1>4, AppendingLog, AppendedContents DEF AppendSnapshot
    <3> QED  BY <1>0, <1>4, <3>1 DEF TypeOK, AppendSnapshot
  <2>2. running' = running /\ running[c] /\ UNCHANGED result
        /\ collected' = [collected EXCEPT ![c] = @ + 1]
    BY <1>0, <1>4 DEF TypeOK, AppendSnapshot
  <2>3. snap[c] \in 1..MaxReads
    BY <1>0, <1>4, MaxReadsAssumption DEF TypeOK, LogInv, AppendSnapshot
  <2>4. \A i \in 1..Len(samples[c]) : samples[c][i] < snap[c]
    <3>1. log[c].count \in Nat
      BY <1>0 DEF TypeOK, IsLog
    <3>2. Len(Contents(log[c])) = log[c].count
      BY <3>1 DEF Contents
    <3> QED  BY <1>0, <1>4, <3>1, <3>2 DEF LogInv, Contents, AppendSnapshot
  <2> QED  BY <2>1, <2>2, <2>3, <2>4 DEF Session!Collect
<1>5. ASSUME NEW c \in Callers, ExitLoop(c) \/ ReachLimit(c) \/ FailAppend(c)
      PROVE  Session!Finish(c)
  <2>0. pc' = [pc EXCEPT ![c] = "idle"] /\ pc[c] # "idle"
    BY <1>5 DEF ExitLoop, ReachLimit, FailAppend, Return
  <2>1. running' = [running EXCEPT ![c] = FALSE] /\ running[c]
    BY <1>0, <2>0 DEF TypeOK
  <2>2. /\ UNCHANGED log
        /\ collected' = [collected EXCEPT ![c] = 0]
        /\ \E r \in {collected[c], -1} : result' = [result EXCEPT ![c] = r]
    BY <1>5 DEF ExitLoop, ReachLimit, FailAppend, Return
  <2> QED  BY <2>1, <2>2 DEF Session!Finish
<1>6. ASSUME NEW c \in Callers,
             \/ ClearFlag(c) \/ EnterBody(c) \/ TakeSnapshot(c)
             \/ FailSnapshot(c) \/ GoToSleep(c) \/ WakeUp(c)
      PROVE  UNCHANGED Session!sessionVars
  <2>1. UNCHANGED <<log, result>>
    BY <1>6 DEF ClearFlag, EnterBody, TakeSnapshot, FailSnapshot, GoToSleep,
       WakeUp, cfgVars
  <2>2. running' = running
    BY <1>0, <1>6 DEF TypeOK, ClearFlag, EnterBody, TakeSnapshot, FailSnapshot,
       GoToSleep, WakeUp
  <2>3. collected' = collected
    BY <1>0, <1>6 DEF TypeOK, CallInv, ClearFlag, EnterBody, TakeSnapshot,
       FailSnapshot, GoToSleep, WakeUp
  <2> QED  BY <2>1, <2>2, <2>3
<1>7. CASE sampler_stop \/ TargetExits \/ UNCHANGED vars
  BY <1>7 DEF sampler_stop, TargetExits, vars, cfgVars
<1> QED  BY <1>1, <1>2, <1>3, <1>4, <1>5, <1>6, <1>7 DEF Next, RunStep

\* sampler_run, its flag, its log and its signal handler implement what
\* sampler.h and snapshot.h promise.
THEOREM SamplerImplementsSession == Spec => ImplementsSession
<1>1. IInv /\ IInv' /\ [Next]_vars => [Session!Next]_(Session!sessionVars)
  BY NextRefines
<1> QED  BY InitRefines, <1>1, Invariance, PTL
         DEF Spec, ImplementsSession, Session!Spec
=============================================================================
