-------------------------- MODULE ClockCheckProofs --------------------------
(***************************************************************************)
(* Proofs about ClockCheck for every width of the integers and every      *)
(* window below half their range.                                          *)
(***************************************************************************)
EXTENDS ClockCheck, TLAPS

USE ClockAssumption

(* A negative difference of two u32 values wraps to itself plus 2^32.      *)
LEMMA WrapBelow ==
  ASSUME NEW a \in Int, -U32Modulus <= a, a < 0
  PROVE  a % U32Modulus = a + U32Modulus
OBVIOUS

(* A sum of two u32 values that overflows wraps to itself minus 2^32.      *)
LEMMA WrapAbove ==
  ASSUME NEW a \in Int, U32Modulus <= a, a < 2 * U32Modulus
  PROVE  a % U32Modulus = a - U32Modulus
OBVIOUS

(* The window check accepts only clocks at most FIVE_MINUTES away: the     *)
(* wrapped bounds near 0 and near 2^32 give an empty range, since          *)
(* 2 * FIVE_MINUTES < 2^32.                                                *)
LEMMA AcceptedIsClose ==
  ASSUME NEW now \in U32, NEW ts \in U32,
         NEW lo \in U32Sub(ts, FiveMinutes), NEW hi \in U32Add(ts, FiveMinutes),
         lo # Panic, hi # Panic, InRange(now, lo, hi)
  PROVE  Dist(now, ts) <= FiveMinutes
<1>1. CASE ts < FiveMinutes
  <2>1. lo = ts - FiveMinutes + U32Modulus
    BY <1>1, WrapBelow DEF U32Sub, U32, Panic
  <2>2. hi = ts + FiveMinutes
    BY <1>1 DEF U32Add, U32
  <2> QED
    BY <2>1, <2>2 DEF InRange, U32
<1>2. CASE ts + FiveMinutes >= U32Modulus
  <2>1. lo = ts - FiveMinutes
    BY <1>2 DEF U32Sub, U32
  <2>2. hi = ts + FiveMinutes - U32Modulus
    BY <1>2, WrapAbove DEF U32Add, U32, Panic
  <2> QED
    BY <2>1, <2>2 DEF InRange, U32
<1>3. CASE FiveMinutes <= ts /\ ts + FiveMinutes < U32Modulus
  <2>1. lo = ts - FiveMinutes /\ hi = ts + FiveMinutes
    BY <1>3 DEF U32Sub, U32Add, U32
  <2> QED
    BY <2>1 DEF InRange, Dist, U32
<1> QED
  BY <1>1, <1>2, <1>3 DEF U32

\* Where no bound overflows, the code accepts exactly the clocks in the
\* half-open window [ts - FIVE_MINUTES, ts + FIVE_MINUTES): one second more
\* below than the spec's |now - ts| < FIVE_MINUTES, for every width.
THEOREM AcceptedWindow ==
  ASSUME NEW ts \in U32, BoundsFit(ts), currentTime \in U32
  PROVE  /\ U32Sub(ts, FiveMinutes) = {ts - FiveMinutes}
         /\ U32Add(ts, FiveMinutes) = {ts + FiveMinutes}
         /\ Outcome(ts - FiveMinutes, ts + FiveMinutes) = "ok"
              <=> ts - FiveMinutes <= currentTime
                  /\ currentTime < ts + FiveMinutes
<1>1. ts - FiveMinutes # Panic /\ ts + FiveMinutes # Panic
  BY DEF BoundsFit, Panic
<1> QED
  BY <1>1 DEF BoundsFit, U32Sub, U32Add, Outcome, InRange, U32

\* For every width: a milestone timestamp the node reports below
\* FIVE_MINUTES makes latest_ms_timestamp - FIVE_MINUTES_IN_SECONDS
\* overflow, so a build with overflow checks may panic, and a wrapping
\* build gets an empty range and answers TimeNotSynced whatever the local
\* clock.
THEOREM LowTimestampFails ==
  ASSUME NEW ts \in U32, ts < FiveMinutes, currentTime \in U32,
         NEW lo \in U32Sub(ts, FiveMinutes), NEW hi \in U32Add(ts, FiveMinutes)
  PROVE  /\ Panic \in U32Sub(ts, FiveMinutes)
         /\ Outcome(lo, hi) \in {"panic", "timeNotSynced"}
<1>1. Panic \in U32Sub(ts, FiveMinutes)
  BY DEF U32Sub, U32
<1>2. Outcome(lo, hi) \in {"panic", "timeNotSynced"}
  <2>1. CASE lo = Panic \/ hi = Panic
    BY <2>1 DEF Outcome
  <2>2. CASE lo # Panic /\ hi # Panic
    <3>1. lo = (ts - FiveMinutes) % U32Modulus /\ hi = ts + FiveMinutes
      BY <2>2 DEF U32Sub, U32Add, U32, Panic
    <3>2. (ts - FiveMinutes) % U32Modulus = ts - FiveMinutes + U32Modulus
      BY WrapBelow DEF U32
    <3>3. ~InRange(currentTime, lo, hi)
      BY <3>1, <3>2 DEF InRange, U32
    <3> QED
      BY <2>2, <3>3 DEF Outcome
  <2> QED
    BY <2>1, <2>2
<1> QED
  BY <1>1, <1>2

\* The invariant: the types and the property itself, which is inductive.
IInv == TypeOK /\ NeverAcceptsFarClock

LEMMA InitIInv == Init => IInv
BY DEF Init, IInv, TypeOK, NeverAcceptsFarClock, U32, Results

LEMMA NextIInv == IInv /\ [Next]_vars => IInv'
<1> SUFFICES ASSUME IInv, [Next]_vars PROVE IInv'
  OBVIOUS
<1>1. CASE Tick
  BY <1>1 DEF Tick, IInv, TypeOK, NeverAcceptsFarClock
<1>2. CASE NewMilestone
  BY <1>2 DEF NewMilestone, IInv, TypeOK, NeverAcceptsFarClock
<1>3. CASE ReadClock
  BY <1>3 DEF ReadClock, AsU32, IInv, TypeOK, NeverAcceptsFarClock, U32,
     Results
<1>4. CASE InfoError
  BY <1>4 DEF InfoError, IInv, TypeOK, NeverAcceptsFarClock, Results
<1>5. CASE Check
  <2>1. CASE milestone = NoTimestamp
    BY <1>5, <2>1 DEF Check, IInv, TypeOK, NeverAcceptsFarClock, Results
  <2>2. CASE milestone # NoTimestamp
    <3>1. PICK lo \in U32Sub(milestone, FiveMinutes),
               hi \in U32Add(milestone, FiveMinutes) :
            result' = Outcome(lo, hi)
      BY <1>5, <2>2 DEF Check
    <3>2. milestone \in U32 /\ currentTime \in U32
      BY <2>2 DEF IInv, TypeOK
    <3>3. result' = "ok" => Dist(currentTime, milestone) <= FiveMinutes
      BY <3>1, <3>2, AcceptedIsClose DEF Outcome
    <3>4. result' \in Results
      BY <3>1 DEF Outcome, Results
    <3> QED
      BY <1>5, <3>2, <3>3, <3>4 DEF Check, IInv, TypeOK, NeverAcceptsFarClock
  <2> QED
    BY <2>1, <2>2
<1>6. CASE UNCHANGED vars
  BY <1>6 DEF vars, IInv, TypeOK, NeverAcceptsFarClock
<1> QED
  BY <1>1, <1>2, <1>3, <1>4, <1>5, <1>6 DEF Next

LEMMA IInvInvariant == Spec => []IInv
BY InitIInv, NextIInv, PTL DEF Spec

\* The values get_time_checked keeps stay in their types for every width.
THEOREM TypeCorrect == Spec => []TypeOK
BY IInvInvariant, PTL DEF IInv

\* get_time_checked never returns a local time more than
\* FIVE_MINUTES_IN_SECONDS away from the milestone it compared against,
\* for every integer width, in builds that wrap and in builds that panic.
THEOREM NeverAcceptsFarClockHolds == Spec => []NeverAcceptsFarClock
BY IInvInvariant, PTL DEF IInv

=============================================================================
