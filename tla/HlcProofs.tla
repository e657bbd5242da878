----------------------------- MODULE HlcProofs -----------------------------
(* For any number of threads, any clock, any received timestamps and any   *)
(* width, timestamps increase as long as overflow is not silent.           *)
EXTENDS Hlc, TLAPS

\* What COUNTER.load, the addition and compare_exchange keep in range.  The
\* masked clock is at most the clock, so the sum fits unless it is Modulus.
LEMMA MaskInRange ==
  ASSUME NEW now \in U64
  PROVE  mask(now) \in U64
<1>1. /\ now % Window \in Nat /\ now % Window <= now
  BY HlcWindowAssumption, ModulusAssumption DEF U64
<1> QED
  BY <1>1, ModulusAssumption DEF U64, mask

\* What every step keeps: the types, that no thread has loaded more than the
\* counter holds, and that the counter is the greatest timestamp known and is
\* exceeded by what a thread at its compare_exchange will store.  The second
\* part needs the third: a successful exchange stores more than was loaded.
LEMMA HlcStep ==
  TypeOK /\ KnownIsBounded /\ [Next]_vars => TypeOK' /\ KnownIsBounded'
<1> SUFFICES ASSUME TypeOK, KnownIsBounded, [Next]_vars
             PROVE  TypeOK' /\ KnownIsBounded'
  OBVIOUS
<1> USE DEF TypeOK, KnownIsBounded
<1>1. ASSUME NEW t \in Thread, Call(t) PROVE TypeOK' /\ KnownIsBounded'
  BY <1>1 DEF Call
<1>2. ASSUME NEW t \in Thread, LoadCounter(t) PROVE TypeOK' /\ KnownIsBounded'
  BY <1>2 DEF LoadCounter, U64
<1>3. ASSUME NEW t \in Thread, NEW now \in Clock, Add(t, now)
      PROVE  TypeOK' /\ KnownIsBounded'
  <2> DEFINE sum == Larger(mask(now), latest[t]) + 1
  <2>1. sum \in 1..Modulus /\ sum > latest[t]
    BY MaskInRange, ClockAssumption, ModulusAssumption DEF U64, Larger
  <2>2. sum % Modulus \in U64 /\ (sum # Modulus => sum % Modulus = sum)
    BY <2>1, ModulusAssumption DEF U64
  <2> QED
    BY <1>3, <2>1, <2>2 DEF Add
<1>4. ASSUME NEW t \in Thread, CompareExchange(t) PROVE TypeOK' /\ KnownIsBounded'
  <2>1. /\ counter' \in U64 /\ greatest' \in U64
        /\ pc' \in [Thread -> {"idle", "load", "add", "swap", "panicked"}]
    BY <1>4 DEF CompareExchange, Larger
  <2>2. OverflowChecks => counter' >= counter /\ greatest' = counter'
    BY <1>4 DEF CompareExchange, Larger, U64
  <2>3. OverflowChecks => \A u \in Thread : latest[u] <= counter'
    BY <2>1, <2>2 DEF U64
  <2>4. latest' = latest /\ max' = max /\ \A u \in Thread : pc'[u] = "swap" => pc[u] = "swap"
    BY <1>4 DEF CompareExchange
  <2> QED
    BY <2>1, <2>2, <2>3, <2>4
<1>5. ASSUME NEW t \in Thread, NEW timestamp \in Remote, sync(t, timestamp)
      PROVE  TypeOK' /\ KnownIsBounded'
  <2>1. /\ counter' \in U64 /\ greatest' \in U64 /\ counter' >= counter
        /\ OverflowChecks => greatest' = counter'
    BY <1>5, RemoteAssumption DEF sync, Larger, U64
  <2>2. OverflowChecks => \A u \in Thread : latest[u] <= counter'
    BY <2>1 DEF U64
  <2> QED
    BY <1>5, <2>1, <2>2 DEF sync
<1>6. CASE UNCHANGED vars
  BY <1>6 DEF vars
<1> QED
  BY <1>1, <1>2, <1>3, <1>4, <1>5, <1>6 DEF Next

\* ... in every reachable state
LEMMA HlcInductive == Spec => [](TypeOK /\ KnownIsBounded)
<1>1. Init => TypeOK /\ KnownIsBounded
  BY ModulusAssumption DEF Init, TypeOK, KnownIsBounded, U64
<1> QED
  BY <1>1, HlcStep, PTL DEF Spec

\* Type correctness of the counter and of the locals of now(); with overflow
\* checks no thread ever holds a loaded value above the counter, so that a stale
\* load is one that is too low
THEOREM HlcTypeCorrect == Spec => []TypeOK
  BY HlcInductive, PTL

\* The invariant of the compare-and-swap loop holds for every number of threads
THEOREM HlcKnownIsBounded == Spec => []KnownIsBounded
  BY HlcInductive, PTL

\* Timestamp::now never returns a timestamp that is not greater than every
\* one returned or synchronised before, in any thread
THEOREM HlcTimestampsIncrease == Spec => TimestampsIncrease
<1>1. TypeOK /\ KnownIsBounded /\ [Next]_vars
        => [OverflowChecks => \A t \in Thread : Returns(t) => max[t] > greatest]_vars
  <2> SUFFICES ASSUME TypeOK, KnownIsBounded, Next, OverflowChecks,
                      NEW t \in Thread, Returns(t)
               PROVE  max[t] > greatest
    OBVIOUS
  <2>1. CompareExchange(t)
    BY DEF Next, Returns, TypeOK, Call, LoadCounter, Add, CompareExchange, sync
  <2> QED
    BY <2>1 DEF CompareExchange, Returns, KnownIsBounded, TypeOK, U64
<1> QED
  BY <1>1, HlcTypeCorrect, HlcKnownIsBounded, PTL DEF Spec, TimestampsIncrease

\* COUNTER never drops down
THEOREM HlcCounterNeverDrops == Spec => CounterNeverDrops
<1>1. TypeOK /\ KnownIsBounded /\ [Next]_vars
        => [OverflowChecks => counter' >= counter]_vars
  <2> SUFFICES ASSUME TypeOK, KnownIsBounded, Next, OverflowChecks
               PROVE  counter' >= counter
    OBVIOUS
  <2> QED
    BY RemoteAssumption DEF Next, TypeOK, KnownIsBounded, Call, LoadCounter, Add,
       CompareExchange, sync, Larger, U64
<1> QED
  BY <1>1, HlcTypeCorrect, HlcKnownIsBounded, PTL DEF Spec, CounterNeverDrops

=============================================================================
