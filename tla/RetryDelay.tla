----------------------------- MODULE RetryDelay ----------------------------
(***************************************************************************)
(* The delays between retries of memtrace-lite: an exponential backoff     *)
(* (src/src/backoff.c) and the jitter that spreads delays                  *)
(* (src/src/jitter.c).  Neither calls the other; a caller asks the first   *)
(* for a delay and gives it to the second.  Both compute in unsigned words *)
(* of 32 bits, here modulo WordMod, and so does the linear congruential    *)
(* generator, whose low bits do not depend on its high ones.               *)
(***************************************************************************)
EXTENDS Integers

CONSTANTS WordMod,                          \* 2^32
          Initials, Multipliers, Maxima,    \* cfg of backoff_init
          AttemptLimits,                    \* cfg.max_attempts, 0 for none
          Bases, Caps                       \* base_ms and cap_ms of jitter_init

Word    == 0..(WordMod - 1)
Word32(n) == n % WordMod

VARIABLES initial_ms, multiplier, max_ms, max_attempts,  \* fixed by backoff_init
          current_ms, attempt, backing_off,              \* the rest of backoff_t
          handed,                    \* what backoff_next returned last, or Nobody
          calls,                     \* history: calls since the reset, to WordMod
          ideal                      \* history: what current_ms would be, had
                                     \* nothing wrapped since the reset

VARIABLES mode, base_ms, cap_ms,     \* fixed by jitter_init
          seed,
          asked, given               \* the last call of jitter_apply, and its answer

backoffCfg  == <<initial_ms, multiplier, max_ms, max_attempts>>
backoffVars == <<initial_ms, multiplier, max_ms, max_attempts, current_ms, attempt,
                 backing_off, handed, calls, ideal>>
jitterVars  == <<mode, base_ms, cap_ms, seed, asked, given>>
vars        == <<backoffVars, jitterVars>>

Nobody == -1

Least(a, b) == IF a < b THEN a ELSE b

-----------------------------------------------------------------------------
(* backoff.c                                                               *)

backoff_init ==
  /\ initial_ms \in Initials /\ multiplier \in Multipliers
  /\ max_ms \in Maxima /\ max_attempts \in AttemptLimits
  /\ current_ms = initial_ms
  /\ attempt = 0 /\ backing_off = FALSE
  /\ handed = Nobody /\ calls = 0 /\ ideal = initial_ms

backoff_reset ==
  /\ current_ms' = initial_ms
  /\ attempt' = 0 /\ backing_off' = FALSE
  /\ handed' = Nobody /\ calls' = 0 /\ ideal' = initial_ms
  /\ UNCHANGED backoffCfg

\* Mutant: a product that wrapped is not noticed.
Following_Wraps(ms) == Least(Word32(ms * multiplier), max_ms)

\* The delay after ms: a product beyond max_ms, or one that wrapped to less
\* than ms, gives max_ms.
Following(ms) ==
  LET next == Word32(ms * multiplier)
  IN  IF next > max_ms \/ next < ms THEN max_ms ELSE next

\* The delay that was current is returned, not the one computed, which is what
\* backoff.h:26 promises.
backoff_next ==
  /\ backing_off' = TRUE
  /\ handed' = current_ms
  /\ attempt' = Word32(attempt + 1)
  /\ current_ms' = Following(current_ms)
  /\ calls' = Least(calls + 1, WordMod)
  /\ ideal' = Least(ideal * multiplier, max_ms)
  /\ UNCHANGED backoffCfg

backoff_exceeded == max_attempts > 0 /\ attempt >= max_attempts

BackoffNext == backoff_reset \/ backoff_next

-----------------------------------------------------------------------------
(* jitter.c                                                                *)

Modes == {"NONE", "FULL", "EQUAL", "DECORR"}

DefaultSeed == Word32(48879)       \* 0xdeadbeef, of which 16 bits are enough

lcg_next(state) == Word32(state * Word32(1664525) + Word32(1013904223))

jitter_init ==
  /\ mode \in Modes /\ base_ms \in Bases /\ cap_ms \in Caps
  /\ \E s \in Word : seed = IF s = 0 THEN DefaultSeed ELSE s
  /\ asked = Nobody /\ given = Nobody

\* The number of lo..(hi - 1) that the generator picks; lo if there is none.
rand_range(lo, hi) == IF lo >= hi THEN lo ELSE lo + (lcg_next(seed) % (hi - lo))

\* rand_range draws from the generator.
Draws(lo, hi) == seed' = IF lo >= hi THEN seed ELSE lcg_next(seed)

\* Mode FULL computes modulo delay + 1: for the greatest word that is a
\* division by 0, on which the program stops, and no step is modelled.
ApplyFull(delay) ==
  /\ mode = "FULL"
  /\ Word32(delay + 1) # 0
  /\ seed' = IF delay = 0 THEN seed ELSE lcg_next(seed)
  /\ given' = IF delay = 0 THEN 0 ELSE lcg_next(seed) % (delay + 1)

ApplyEqual(delay) ==
  /\ mode = "EQUAL"
  /\ LET lo == delay \div 2
         hi == IF delay = 0 THEN 1 ELSE delay
     IN  Draws(lo, hi) /\ given' = rand_range(lo, hi)

DecorrEnd(delay) ==
  IF Word32(delay * 3) < base_ms THEN Word32(base_ms + 1) ELSE Word32(delay * 3)

\* Mutant: the cap is forgotten.
Capped_Not(ms) == ms

Capped(ms) == Least(ms, cap_ms)

ApplyDecorr(delay) ==
  /\ mode = "DECORR"
  /\ Draws(base_ms, DecorrEnd(delay))
  /\ given' = Capped(rand_range(base_ms, DecorrEnd(delay)))

ApplyNone(delay) == mode = "NONE" /\ given' = delay /\ UNCHANGED seed

jitter_apply ==
  \E delay \in Word :
    /\ ApplyNone(delay) \/ ApplyFull(delay) \/ ApplyEqual(delay) \/ ApplyDecorr(delay)
    /\ asked' = delay
    /\ UNCHANGED <<mode, base_ms, cap_ms>>

\* Not the seed that jitter_init was given.
jitter_reset ==
  /\ seed' = DefaultSeed
  /\ UNCHANGED <<mode, base_ms, cap_ms, asked, given>>

JitterNext == jitter_apply \/ jitter_reset

-----------------------------------------------------------------------------
Init == backoff_init /\ jitter_init

Next == \/ BackoffNext /\ UNCHANGED jitterVars
        \/ JitterNext /\ UNCHANGED backoffVars

Spec == Init /\ [][Next]_vars

-----------------------------------------------------------------------------
\* Every variable has its type.
TypeOK ==
  /\ {initial_ms, multiplier, max_ms, max_attempts, current_ms, attempt} \subseteq Word
  /\ backing_off \in BOOLEAN
  /\ handed \in Word \cup {Nobody} /\ calls \in 0..WordMod /\ ideal \in Word
  /\ {base_ms, cap_ms, seed} \subseteq Word
  /\ mode \in Modes /\ {asked, given} \subseteq Word \cup {Nobody}

\* From the first call on the current delay is within max_ms, and it never
\* shrinks.  It is the exponential law's, as if nothing wrapped, whatever the
\* multiplier, except that one beyond 2 may wrap past current_ms unnoticed: then,
\* and only then, it lags behind a law that has reached max_ms.  The caller is
\* told to give up exactly after max_attempts, until attempt wraps (backoff_next,
\* backoff_exceeded).  backoff.h:26 says that backoff_next "returns new delay ms"
\* and test_backoff.c:32 expects 20 of the first call after an initial 10; the
\* code returns the delay before the doubling, backoff.c:22 and 28.  Of the delay
\* handed out the property says what both have in common.
BackoffKeepsLaw ==
  /\ calls > 0 => current_ms <= max_ms
  /\ calls > 1 \/ (calls = 1 /\ initial_ms <= max_ms) => handed <= current_ms
  /\ initial_ms <= max_ms /\ multiplier >= 1 =>
       \/ current_ms = ideal
       \/ multiplier > 2 /\ ideal = max_ms /\ max_ms * multiplier >= WordMod
  /\ calls < WordMod =>
       (backoff_exceeded <=> max_attempts > 0 /\ calls >= max_attempts)

\* Each mode keeps the delay within its band, for every state of the
\* generator, for delays of 0 and 1 and where three times the delay wraps
\* (jitter_apply).
JitterKeepsBand ==
  given # Nobody =>
    CASE mode = "NONE"   -> given = asked
      [] mode = "FULL"   -> given \in 0..asked
      [] mode = "EQUAL"  -> given \in (asked \div 2)..asked
      [] mode = "DECORR" -> /\ Least(base_ms, cap_ms) <= given /\ given <= cap_ms
                            /\ given <= base_ms \/ given <= asked * 3
=============================================================================
