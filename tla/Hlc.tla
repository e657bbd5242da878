-------------------------------- MODULE Hlc --------------------------------
(***************************************************************************)
(* Hybrid logical timestamps (src/hlc.rs): the compare-and-swap loop of    *)
(* Timestamp::now run by several threads on the static COUNTER, and        *)
(* Timestamp::sync, which deserialising a timestamp calls.                 *)
(*                                                                         *)
(* The system clock is not a variable: skew and leap seconds may make it   *)
(* return anything, so each reading is any member of Clock.                *)
(***************************************************************************)
EXTENDS Naturals

CONSTANTS Thread,
          Clock,           \* what SystemTime::now may return, in milliseconds
          Remote,          \* timestamps received from other peers
          Window,          \* timestamps the mask maps to one: 256
          Modulus,         \* number of u64 values
          OverflowChecks   \* TRUE: + panics on overflow (debug), FALSE: it wraps

ASSUME ModulusAssumption == Modulus \in Nat \ {0}
ASSUME HlcWindowAssumption == Window \in Nat \ {0}
ASSUME ClockAssumption == Clock \subseteq 0..(Modulus - 1)
ASSUME RemoteAssumption == Remote \subseteq 0..(Modulus - 1)
ASSUME OverflowAssumption == OverflowChecks \in BOOLEAN

VARIABLES
  counter,   \* COUNTER
  pc,        \* where each thread is in now()
  latest,    \* its locals: the value loaded,
  max,       \* and the one to be stored
  greatest   \* history: the greatest timestamp returned or synchronised so far

vars == <<counter, pc, latest, max, greatest>>

U64 == 0..(Modulus - 1)

\* What a thread has loaded is no more than COUNTER holds now, unless that wrapped
TypeOK ==
  /\ counter \in U64
  /\ pc \in [Thread -> {"idle", "load", "add", "swap", "panicked"}]
  /\ latest \in [Thread -> U64]
  /\ max \in [Thread -> U64]
  /\ greatest \in U64
  /\ OverflowChecks => \A t \in Thread : latest[t] <= counter

Init ==
  /\ counter = 0
  /\ pc = [t \in Thread |-> "idle"]
  /\ latest = [t \in Thread |-> 0]
  /\ max = [t \in Thread |-> 0]
  /\ greatest = 0

Larger(a, b) == IF a > b THEN a ELSE b

\* `& MASK`
mask(millis) == millis - (millis % Window)

\* Timestamp::now is called
Call(t) ==
  /\ pc[t] = "idle"
  /\ pc' = [pc EXCEPT ![t] = "load"]
  /\ UNCHANGED <<counter, latest, max, greatest>>

\* COUNTER.load
LoadCounter(t) ==
  /\ pc[t] = "load"
  /\ latest' = [latest EXCEPT ![t] = counter]
  /\ pc' = [pc EXCEPT ![t] = "add"]
  /\ UNCHANGED <<counter, max, greatest>>

\* A clock that ignores the counter
MutantClockOnly(t, now) ==
  /\ pc[t] = "add"
  /\ pc' = [pc EXCEPT ![t] = "swap"]
  /\ max' = [max EXCEPT ![t] = mask(now) + 1]
  /\ UNCHANGED <<counter, latest, greatest>>

\* The clock is read; masked.max(latest) + 1
Add(t, now) ==
  LET sum == Larger(mask(now), latest[t]) + 1
  IN  /\ pc[t] = "add"
      /\ IF sum = Modulus /\ OverflowChecks
         THEN /\ pc' = [pc EXCEPT ![t] = "panicked"]
              /\ UNCHANGED max
         ELSE /\ pc' = [pc EXCEPT ![t] = "swap"]
              /\ max' = [max EXCEPT ![t] = sum % Modulus]
      /\ UNCHANGED <<counter, latest, greatest>>

\* A plain store
MutantStores(t) ==
  /\ pc[t] = "swap"
  /\ counter' = max[t]
  /\ greatest' = Larger(greatest, max[t])
  /\ pc' = [pc EXCEPT ![t] = "idle"]
  /\ UNCHANGED <<latest, max>>

\* compare_exchange: return max, or start over
CompareExchange(t) ==
  /\ pc[t] = "swap"
  /\ IF counter = latest[t]
     THEN /\ counter' = max[t]
          /\ greatest' = Larger(greatest, max[t])
          /\ pc' = [pc EXCEPT ![t] = "idle"]
     ELSE /\ pc' = [pc EXCEPT ![t] = "load"]
          /\ UNCHANGED <<counter, greatest>>
  /\ UNCHANGED <<latest, max>>

\* A synchronisation that stores whatever it is given
MutantSyncStores(t, timestamp) ==
  /\ pc[t] = "idle"
  /\ counter' = timestamp
  /\ greatest' = Larger(greatest, timestamp)
  /\ UNCHANGED <<pc, latest, max>>

\* Timestamp::sync, called by deserialize: fetch_max
sync(t, timestamp) ==
  /\ pc[t] = "idle"
  /\ counter' = Larger(counter, timestamp)
  /\ greatest' = Larger(greatest, timestamp)
  /\ UNCHANGED <<pc, latest, max>>

Next ==
  \E t \in Thread :
    \/ Call(t) \/ LoadCounter(t) \/ CompareExchange(t)
    \/ \E now \in Clock : Add(t, now)
    \/ \E timestamp \in Remote : sync(t, timestamp)

Spec == Init /\ [][Next]_vars

-----------------------------------------------------------------------------
\* now() returns to t in this step
Returns(t) == pc[t] = "swap" /\ pc'[t] = "idle"

\* hlc.rs, tests: "timestamp generated after sync must exceed the remote value",
\* "global timestamps must be unique".  As long as arithmetic is checked for
\* overflow, a timestamp returned by now() exceeds every timestamp that any
\* thread was given or synchronised with before it returns; in particular no
\* timestamp is given twice
TimestampsIncrease ==
  [][OverflowChecks => \A t \in Thread : Returns(t) => max[t] > greatest]_vars

\* hlc.md: the counter makes sure that the latest timestamp "won't drop down",
\* whatever the clock does and however load, add and swap of the threads mix
CounterNeverDrops == [][OverflowChecks => counter' >= counter]_vars

\* Every timestamp known to this process is at most the counter, and what a
\* thread is about to store exceeds what it loaded
KnownIsBounded ==
  OverflowChecks =>
    /\ greatest = counter
    /\ \A t \in Thread : pc[t] = "swap" => latest[t] < max[t]

=============================================================================
