------------------------------ MODULE ClockCheck ------------------------------
(***************************************************************************)
(* Client::get_time_checked (client/src/client/high_level.rs 332-358).    *)
(*                                                                         *)
(* The call reads the system clock in seconds and casts it to u32, awaits *)
(* get_info, and if the node reports the timestamp of its latest           *)
(* milestone checks that the local time lies in the range                  *)
(*   latest - FIVE_MINUTES_IN_SECONDS .. latest + FIVE_MINUTES_IN_SECONDS  *)
(* computed on u32.  The two bounds overflow near 0 and near 2^32: a build *)
(* with overflow checks panics, a release build wraps.                     *)
(*                                                                         *)
(* The system clock and the node's milestones are the environment; the    *)
(* caller (find_inputs) may call again after a call returns.               *)
(***************************************************************************)
EXTENDS Integers

CONSTANTS
  U32Modulus,   \* 2^32
  FiveMinutes,  \* FIVE_MINUTES_IN_SECONDS
  MaxSeconds,   \* bound of the system clock (seconds since the epoch)
  NoTimestamp   \* model value: latest_milestone.timestamp is None

ASSUME ClockAssumption ==
  /\ U32Modulus \in Nat \ {0}
  /\ FiveMinutes \in Nat
  /\ 2 * FiveMinutes < U32Modulus
  /\ MaxSeconds \in Nat
  /\ NoTimestamp \notin Nat

U32 == 0 .. U32Modulus - 1
\* What a u32 addition or subtraction gives: a value, or a panic.
Panic == -1
Results == {"none", "ok", "timeNotSynced", "nodeError", "panic"}

VARIABLES
  sysTime,      \* SystemTime::now() in whole seconds since the epoch
  milestone,    \* the node's latest_milestone.timestamp
  pc,           \* "idle", "info" (awaiting get_info), "done"
  currentTime,  \* current_time, the u32 the call read
  checkedTs,    \* the timestamp the returned call compared against
  result        \* how the call returned

vars == <<sysTime, milestone, pc, currentTime, checkedTs, result>>

-----------------------------------------------------------------------------
(* u32 arithmetic                                                          *)

\* `as u32`: truncation to the low 32 bits.
AsU32(x) == x % U32Modulus

\* a - b and a + b on u32: the exact value when it fits; otherwise a panic
\* (overflow checks) or the wrapped value (release build).
U32Sub(a, b) == IF a >= b THEN {a - b} ELSE {Panic, (a - b) % U32Modulus}
U32Add(a, b) == IF a + b < U32Modulus THEN {a + b}
                ELSE {Panic, (a + b) % U32Modulus}

\* Range::contains of a half-open range: empty when lo >= hi.
InRange(x, lo, hi) == lo <= x /\ x < hi

-----------------------------------------------------------------------------
(* The environment                                                         *)

Init ==
  /\ sysTime \in 0 .. MaxSeconds
  /\ milestone \in U32 \cup {NoTimestamp}
  /\ pc = "idle"
  /\ currentTime = 0
  /\ checkedTs = NoTimestamp
  /\ result = "none"

Tick ==
  /\ sysTime < MaxSeconds
  /\ sysTime' = sysTime + 1
  /\ UNCHANGED <<milestone, pc, currentTime, checkedTs, result>>

\* A new milestone; its timestamp comes from the node's clock, which may be
\* anything.
NewMilestone ==
  /\ milestone' \in U32
  /\ UNCHANGED <<sysTime, pc, currentTime, checkedTs, result>>

-----------------------------------------------------------------------------
(* get_time_checked                                                        *)

\* The call starts: the clock is read before get_info is awaited.
ReadClock ==
  /\ pc \in {"idle", "done"}
  /\ pc' = "info"
  /\ currentTime' = AsU32(sysTime)
  /\ result' = "none"
  /\ checkedTs' = NoTimestamp
  /\ UNCHANGED <<sysTime, milestone>>

\* get_info().await? fails.
InfoError ==
  /\ pc = "info"
  /\ pc' = "done"
  /\ result' = "nodeError"
  /\ UNCHANGED <<sysTime, milestone, currentTime, checkedTs>>

\* The outcome of the check against timestamp ts with the bounds lo, hi.
Outcome(lo, hi) ==
  IF lo = Panic \/ hi = Panic THEN "panic"
  ELSE IF InRange(currentTime, lo, hi) THEN "ok" ELSE "timeNotSynced"

\* Mutant: the window is widened by one second on both sides.
CheckWideWindow ==
  /\ pc = "info"
  /\ pc' = "done"
  /\ checkedTs' = milestone
  /\ IF milestone = NoTimestamp
     THEN result' = "ok"
     ELSE \E lo \in U32Sub(milestone, FiveMinutes + 1),
             hi \in U32Add(milestone, FiveMinutes + 1) :
            result' = Outcome(lo, hi)
  /\ UNCHANGED <<sysTime, milestone, currentTime>>

\* get_info answers; without a milestone timestamp the time is returned
\* unchecked, otherwise it is checked against the window.
Check ==
  /\ pc = "info"
  /\ pc' = "done"
  /\ checkedTs' = milestone
  /\ IF milestone = NoTimestamp
     THEN result' = "ok"
     ELSE \E lo \in U32Sub(milestone, FiveMinutes),
             hi \in U32Add(milestone, FiveMinutes) :
            result' = Outcome(lo, hi)
  /\ UNCHANGED <<sysTime, milestone, currentTime>>

Next ==
  \/ Tick
  \/ NewMilestone
  \/ ReadClock
  \/ InfoError
  \/ Check

Spec == Init /\ [][Next]_vars

-----------------------------------------------------------------------------
(* Properties                                                              *)

TypeOK ==
  /\ sysTime \in 0 .. MaxSeconds
  /\ milestone \in U32 \cup {NoTimestamp}
  /\ pc \in {"idle", "info", "done"}
  /\ currentTime \in U32
  /\ checkedTs \in U32 \cup {NoTimestamp}
  /\ result \in Results

\* Distance between two u32 values as integers.
Dist(a, b) == IF a >= b THEN a - b ELSE b - a

\* The purpose of the check (the doc comment of get_time_checked): a call
\* that compared against a milestone never returns a local time more than
\* FIVE_MINUTES_IN_SECONDS away from it, whatever the bounds' overflow
\* does near 0 and 2^32.
NeverAcceptsFarClock ==
  result = "ok" /\ checkedTs # NoTimestamp
    => Dist(currentTime, checkedTs) <= FiveMinutes

\* A timestamp for which neither bound of the window overflows (every
\* milestone between 1970-01-01 00:05 and 2106).
BoundsFit(ts) == ts \in FiveMinutes .. U32Modulus - 1 - FiveMinutes

\* The spec (section 4.4): the time is returned exactly when
\* |now - latest| < FIVE_MINUTES_IN_SECONDS, and TimeNotSynced otherwise;
\* stated for the timestamps where no bound overflows (NoPanic is about
\* the others).
MatchesSpecWindow ==
  result \in {"ok", "timeNotSynced"} /\ checkedTs # NoTimestamp
    /\ BoundsFit(checkedTs)
    => (result = "ok" <=> Dist(currentTime, checkedTs) < FiveMinutes)

\* The spec (sections 4.4 and 7): get_time_checked returns the time or
\* fails with TimeNotSynced or a node error; it does not panic, whatever
\* timestamp the node reports.
NoPanic == result # "panic"

=============================================================================
