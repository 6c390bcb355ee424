---------------------------- MODULE PolicyProofs ----------------------------
(***************************************************************************)
(* Proofs about Policy: durations for every width.                         *)
(***************************************************************************)
EXTENDS Policy, TLAPS

\* The guard on the hours is the guard on the days.
LEMMA DayGuard ==
    ASSUME NEW max \in Nat, NEW hours \in Nat
    PROVE  hours > max \div 24 <=> 24 * hours > max
OBVIOUS

\* What fits stays as it is.
LEMMA WrapFits ==
    ASSUME NEW max \in Nat, NEW n \in (0 - max - 1)..max
    PROVE  Wrap(max, n) = n
<1>1. n + max + 1 \in 0..(2 * (max + 1) - 1)
  OBVIOUS
<1>2. ASSUME NEW a \in Nat, NEW b \in Nat, a < b PROVE a % b = a
  BY <1>2
<1>3. (n + max + 1) % (2 * (max + 1)) = n + max + 1
  BY <1>1, <1>2
<1>4. QED
  BY <1>3 DEF Wrap

\* Every day count that fits in a Duration is read exactly, and every other one is refused
\* (parseDuration's two overflow guards), whatever the width.
THEOREM DurationsAreExact ==
    ASSUME NEW max \in Nat, NEW negative \in BOOLEAN, NEW hours \in 0..max,
           NEW rest \in (0 - max - 1)..max
    PROVE  DaysAreExact(max, negative, hours, rest)
<1>1. CASE hours > max \div 24 \/ rest < 0
  <2>1. rest < 0 \/ 24 * hours + rest > max
    BY <1>1, DayGuard
  <2>2. QED
    BY <1>1, <2>1 DEF DaysAreExact, ParseDays
<1>2. CASE ~(hours > max \div 24) /\ ~(rest < 0)
  <2>1. 24 * hours \in 0..max
    BY <1>2, DayGuard
  <2>2. Wrap(max, 24 * hours) = 24 * hours
    BY <2>1, WrapFits
  <2>3. Wrap(max, max - 24 * hours) = max - 24 * hours
    BY <2>1, WrapFits
  <2>4. CASE rest > max - 24 * hours
    BY <1>2, <2>1, <2>2, <2>3, <2>4 DEF DaysAreExact, ParseDays
  <2>5. CASE ~(rest > max - 24 * hours)
    <3>1. 24 * hours + rest \in 0..max
      BY <1>2, <2>1, <2>5
    <3>2. Wrap(max, 24 * hours + rest) = 24 * hours + rest
      BY <3>1, WrapFits
    <3>3. Wrap(max, 0 - (24 * hours + rest)) = 0 - (24 * hours + rest)
      BY <3>1, WrapFits
    <3>4. QED
      BY <1>2, <2>1, <2>2, <2>3, <2>5, <3>1, <3>2, <3>3 DEF DaysAreExact, ParseDays
  <2>6. QED
    BY <2>4, <2>5
<1>3. QED
  BY <1>1, <1>2
=============================================================================
