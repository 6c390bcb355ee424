---------------------------- MODULE DecideProofs ----------------------------
(***************************************************************************)
(* What the decider promises for every policy, memory, object and           *)
(* observation: a well-formed decision, and never an action on a version of *)
(* the object that does not allow it.                                       *)
(***************************************************************************)
EXTENDS Decide, WellFoundedInduction, TLAPS

\* What a tick gives the decider, as far as types matter.
TypedInput(memory, live, obs, now) ==
    /\ memory \in Memory
    /\ now \in Nat
    /\ live.generation \in Nat
    /\ live.restartNonce \in Int
    /\ obs.snapshot \in Int

----------------------------------------------------------------------------
(* The backoff of restart.go grows *)

\* A set of naturals has a least one.
LEMMA Least ==
    ASSUME NEW S \in SUBSET Nat, S # {}
    PROVE  \E m \in S : \A n \in S : m <= n
<1> DEFINE R == {ss \in Nat \X Nat : ss[1] < ss[2]}
<1>1. IsWellFoundedOn(R, Nat)
  BY NatLessThanWellFounded DEF OpToRel
<1> HIDE DEF R
<1>2. PICK x \in S : \A y \in S : ~(<<y, x>> \in R)
  BY <1>1, WFMin
<1>3. \A y \in S : ~(y < x)
  BY <1>2 DEF R
<1>4. QED
  BY <1>3

\* A set of naturals with 0 and the successor of each of its members has them all.
LEMMA Induction ==
    ASSUME NEW S, 0 \in S, \A n \in Nat : n \in S => n + 1 \in S
    PROVE  Nat \subseteq S
<1> DEFINE T == Nat \ S
<1>1. SUFFICES ASSUME T # {} PROVE FALSE
  OBVIOUS
<1>2. PICK m \in T : \A n \in T : m <= n
  BY <1>1, Least
<1>3. m \in Nat /\ m # 0 /\ m - 1 \in Nat /\ m - 1 \notin T
  BY <1>2
<1>4. (m - 1) + 1 = m /\ m - 1 \in S
  BY <1>3
<1>5. m \in S
  BY <1>3, <1>4
<1>6. QED
  BY <1>5

\* The powers up to the n-th.
Powers(n) == {f \in [0..n -> Nat] : f[0] = 1 /\ \A k \in 1..n : f[k] = Multiplier * f[k - 1]}

\* There are such powers for every n.
LEMMA PowersExist == \A n \in Nat : Powers(n) # {}
<1> DEFINE S == {n \in Nat : Powers(n) # {}}
<1>1. 0 \in S
  <2>1. [k \in 0..0 |-> 1] \in Powers(0)
    BY DEF Powers
  <2>2. QED
    BY <2>1
<1>2. ASSUME NEW n \in Nat, n \in S PROVE n + 1 \in S
  <2>1. PICK f : f \in Powers(n)
    BY <1>2
  <2>2. f \in [0..n -> Nat] /\ f[0] = 1 /\ \A k \in 1..n : f[k] = Multiplier * f[k - 1]
    BY <2>1 DEF Powers
  <2> DEFINE g == [k \in 0..(n + 1) |-> IF k = n + 1 THEN Multiplier * f[n] ELSE f[k]]
  <2>3. Multiplier * f[n] \in Nat
    BY <2>2, BudgetAssumption
  <2>4. \A k \in 0..n : g[k] = f[k]
    OBVIOUS
  <2>4a. g[n + 1] = Multiplier * f[n]
    OBVIOUS
  <2>5. g \in [0..(n + 1) -> Nat]
    BY <2>2, <2>3
  <2> HIDE DEF g
  <2>6. g[0] = 1
    BY <2>2, <2>4
  <2>7. ASSUME NEW k \in 1..(n + 1) PROVE g[k] = Multiplier * g[k - 1]
    <3>1. CASE k = n + 1
      BY <3>1, <2>4, <2>4a
    <3>2. CASE k \in 1..n
      BY <3>2, <2>2, <2>4
    <3>3. QED
      BY <3>1, <3>2
  <2>8. g \in Powers(n + 1)
    BY <2>5, <2>6, <2>7 DEF Powers
  <2>9. QED
    BY <2>8
<1> HIDE DEF S
<1>3. Nat \subseteq S
  BY <1>1, <1>2, Induction
<1>4. QED
  BY <1>3 DEF S

\* Two lists of powers agree where both go.
LEMMA PowersAgree ==
    ASSUME NEW m \in Nat, NEW n \in Nat, NEW f \in Powers(m), NEW g \in Powers(n)
    PROVE  \A k \in Nat : k <= m /\ k <= n => f[k] = g[k]
<1> DEFINE S == {k \in Nat : k <= m /\ k <= n => f[k] = g[k]}
<1>1. 0 \in S
  BY DEF Powers
<1>2. ASSUME NEW k \in Nat, k \in S PROVE k + 1 \in S
  BY <1>2 DEF Powers
<1> HIDE DEF S
<1>3. Nat \subseteq S
  BY <1>1, <1>2, Induction
<1>4. QED
  BY <1>3 DEF S

\* Pow is what its definition says.
LEMMA PowDef ==
    /\ Pow[0] = 1
    /\ \A n \in Nat : Pow[n + 1] = Multiplier * Pow[n]
<1> DEFINE P(n) == CHOOSE f : f \in Powers(n)
           F == [n \in Nat |-> P(n)[n]]
           Rule(f) == f = [n \in Nat |-> IF n = 0 THEN 1 ELSE Multiplier * f[n - 1]]
<1>1. \A n \in Nat : P(n) \in Powers(n)
  BY PowersExist
<1> HIDE DEF P
<1>2. Rule(F)
  <2>1. ASSUME NEW n \in Nat PROVE F[n] = IF n = 0 THEN 1 ELSE Multiplier * F[n - 1]
    <3>1. CASE n = 0
      BY <1>1, <3>1 DEF Powers
    <3>2. CASE n # 0
      <4>1. n - 1 \in Nat /\ n \in 1..n
        BY <3>2
      <4>2. P(n)[n] = Multiplier * P(n)[n - 1]
        BY <1>1, <4>1 DEF Powers
      <4>3. P(n)[n - 1] = P(n - 1)[n - 1]
        BY <1>1, <4>1, PowersAgree
      <4>4. QED
        BY <3>2, <4>1, <4>2, <4>3
    <3>3. QED
      BY <3>1, <3>2
  <2>2. QED
    BY <2>1
<1> HIDE DEF F
<1>3. Rule(Pow)
  <2>1. Pow = CHOOSE f : Rule(f)
    BY DEF Pow
  <2> HIDE DEF Rule
  <2>2. QED
    BY <1>2, <2>1
<1>4. Pow[0] = 1
  BY <1>3
<1>5. ASSUME NEW n \in Nat PROVE Pow[n + 1] = Multiplier * Pow[n]
  BY <1>3
<1>6. QED
  BY <1>4, <1>5

\* The wait is never shorter than the base backoff.
LEMMA BackoffGrows == \A n \in Nat : Backoff(n) \in Nat /\ BaseBackoff <= Backoff(n)
<1> DEFINE S == {n \in Nat : Pow[n] \in Nat \ {0}}
<1>1. 0 \in S
  BY PowDef
<1>2. ASSUME NEW n \in Nat, n \in S PROVE n + 1 \in S
  <2>1. \A a, b \in Nat \ {0} : a * b \in Nat \ {0}
    OBVIOUS
  <2>2. QED
    BY <1>2, <2>1, PowDef, BudgetAssumption
<1> HIDE DEF S
<1>3. Nat \subseteq S
  BY <1>1, <1>2, Induction
<1>4. \A a \in Nat, b \in Nat \ {0} : a * b \in Nat /\ a <= a * b
  OBVIOUS
<1>5. \A n \in Nat : Pow[n] \in Nat \ {0}
  BY <1>3 DEF S
<1>6. QED
  BY <1>4, <1>5, BudgetAssumption DEF Backoff

----------------------------------------------------------------------------
\* The budget operators of restart.go map budgets to budgets.
LEMMA BudgetOperators ==
    ASSUME NEW b \in Budget, NEW now \in Nat, NEW nonce \in Int
    PROVE  /\ FreshBudget(nonce) \in Budget
           /\ Rolled(b, now) \in Budget
           /\ Consume(b, now) \in Budget
           /\ [Consume(b, now) EXCEPT !.lastNonce = nonce] \in Budget
<1>1. FreshBudget(nonce) \in Budget
  BY DEF FreshBudget, Budget, ZeroTime
<1>2. Rolled(b, now) \in Budget
  BY DEF Rolled, FreshBudget, Budget, ZeroTime
<1>3. Backoff(Rolled(b, now).count) \in Nat
  BY <1>2, BackoffGrows DEF Budget
<1>4. Consume(b, now) \in Budget
  BY <1>2, <1>3 DEF Consume, Budget, ZeroTime
<1>5. QED
  BY <1>1, <1>2, <1>4 DEF Budget

\* The memory of a deployment never seen before.
LEMMA InitialType ==
    ASSUME NEW now \in Nat, NEW nonce \in Int
    PROVE  Initial(now, nonce) \in Memory
<1>1. FreshBudget(nonce) \in Budget
  BY DEF FreshBudget, Budget, ZeroTime
<1>2. "active" \in Phases /\ "first observation" \in Reasons
      /\ ZeroTime \in Nat /\ NoSnapshot \in Int /\ 0 \in Nat
  BY DEF Phases, Reasons, ZeroTime, NoSnapshot
<1>3. QED
  BY <1>1, <1>2 DEF Initial, Memory

\* The helpers every branch is built from return memory.
LEMMA MemoryOperators ==
    ASSUME NEW m \in Memory, NEW now \in Nat, NEW reason \in Reasons,
           NEW live, live.generation \in Nat, live.restartNonce \in Int,
           NEW obs, obs.snapshot \in Int
    PROVE  /\ Because(m, reason) \in Memory
           /\ Wake(m, now, reason) \in Memory
           /\ Observed(m, obs, now) \in Memory
           /\ Acknowledged(m, live, now) \in Memory
           /\ CountMissedRestart(m, live, now) \in Memory
           /\ TimeRestarting(m, live, now) \in Memory
<1>1. m.restarts \in Budget /\ m.restarts.lastNonce \in Int
  BY DEF Memory, Budget
<1>2. Because(m, reason) \in Memory
  BY DEF Because, Memory
<1>3. \A r \in Reasons : Wake(m, now, r) \in Memory
  BY DEF Wake, Memory, Phases, ZeroTime
<1>4. Observed(m, obs, now) \in Memory
  BY DEF Observed, Memory
<1>5. Acknowledged(m, live, now) \in Memory
  <2> DEFINE again == Wake(m, now, "spec changed")
             retry == [again EXCEPT !.restarts = FreshBudget(m.restarts.lastNonce)]
  <2>1. again \in Memory
    BY <1>3 DEF Reasons
  <2>2. FreshBudget(m.restarts.lastNonce) \in Budget
    BY <1>1, BudgetOperators
  <2> HIDE DEF again
  <2>3. retry \in Memory
    BY <2>1, <2>2 DEF Memory
  <2> HIDE DEF retry
  <2>4. \A x \in Memory : [x EXCEPT !.generation = live.generation] \in Memory
    BY DEF Memory
  <2>5. QED
    BY <2>3, <2>4 DEF Acknowledged, again, retry
<1>6. CountMissedRestart(m, live, now) \in Memory
  <2>1. [Consume(m.restarts, now) EXCEPT !.lastNonce = live.restartNonce] \in Budget
    BY <1>1, BudgetOperators
  <2>2. QED
    BY <2>1 DEF CountMissedRestart, Memory
<1>7. TimeRestarting(m, live, now) \in Memory
  BY DEF TimeRestarting, Memory, ZeroTime
<1>8. QED
  BY <1>2, <1>3, <1>4, <1>5, <1>6, <1>7
----------------------------------------------------------------------------
(* Each branch: the decision is well formed, a resume is decided only on a   *)
(* deployment the operator has finished suspending, a suspend only on one    *)
(* that runs.                                                                *)

\* What a decision may be, given the version of the object it was made on.
Sound(d, live) ==
    /\ d \in Decision
    /\ d.action = "resume" => live.specJobState = "suspended" /\ SuspendDone(live)
    /\ d.action = "suspend" => live.specJobState = "running"

LEMMA StaySound ==
    ASSUME NEW m \in Memory, NEW live
    PROVE  Sound(Stay(m), live)
BY DEF Sound, Stay, Decision, Actions

LEMMA AsleepSound ==
    ASSUME NEW p, NEW prev \in Memory, NEW live, NEW obs, NEW now \in Nat,
           TypedInput(prev, live, obs, now), live.specJobState \in {"running", "suspended"}
    PROVE  Sound(DecideAsleep(p, prev, live, obs, now), live)
<1> DEFINE cur == Observed(prev, obs, now)
           pending == Held(cur, prev)
           refreshed == [cur EXCEPT !.phase = "active", !.suspendedAt = ZeroTime,
                                    !.awakeSince = now, !.refreshWake = TRUE,
                                    !.reason = "woken to refresh offsets"]
           woken(r) == Wake(cur, now, r)
<1>1. cur \in Memory
  BY MemoryOperators DEF TypedInput, Reasons
<1> HIDE DEF cur
<1>2. pending \in Memory
  BY <1>1 DEF Held, Memory
<1>3. refreshed \in Memory
  BY <1>1 DEF Memory, Phases, Reasons, ZeroTime
<1>4. \A r \in Reasons : woken(r) \in Memory
  BY <1>1, MemoryOperators DEF TypedInput
<1> HIDE DEF pending, refreshed, woken
<1>5. \A r \in Reasons : Because(pending, r) \in Memory
  BY <1>2 DEF Because, Memory
<1>6. "resumed outside siesta" \in Reasons /\ "input observed" \in Reasons
      /\ "offsets missing" \in Reasons /\ "lag unknown" \in Reasons
  BY DEF Reasons
<1>7. QED
  BY <1>1, <1>2, <1>3, <1>4, <1>5, <1>6
     DEF DecideAsleep, Sound, Stay, Do, Decision, Actions, cur, pending, refreshed, woken

LEMMA FailingSound ==
    ASSUME NEW m \in Memory, NEW live, NEW now \in Nat
    PROVE  Sound(DecideFailing(m, live, now), live)
<1> DEFINE restarted == [m EXCEPT !.restarts = [Consume(@, now) EXCEPT !.lastNonce = now],
                                  !.awakeSince = now, !.reason = "restart"]
           marked == [m EXCEPT !.phase = "unrecoverable", !.reason = "restart budget exhausted"]
<1>1. m.restarts \in Budget /\ now \in Int
  BY DEF Memory
<1>2. [Consume(m.restarts, now) EXCEPT !.lastNonce = now] \in Budget
  BY <1>1, BudgetOperators
<1>3. restarted \in Memory
  BY <1>2 DEF Memory, Reasons
<1>4. marked \in Memory
  BY DEF Memory, Reasons, Phases
<1> HIDE DEF restarted, marked
<1>5. QED
  BY <1>3, <1>4 DEF DecideFailing, Sound, Stay, Do, Decision, Actions, restarted, marked

LEMMA IdleSound ==
    ASSUME NEW p, NEW m \in Memory, NEW live, NEW obs, NEW now \in Nat,
           live.specJobState = "running"
    PROVE  Sound(DecideIdle(p, m, live, obs, now), live)
<1> DEFINE asleep == [m EXCEPT !.phase = "suspended", !.suspendedAt = now, !.refreshWake = FALSE,
                               !.reason = IF m.refreshWake THEN "refreshed" ELSE "no input"]
<1>1. asleep \in Memory
  BY DEF Memory, Phases, Reasons
<1> HIDE DEF asleep
<1>2. \A r \in Reasons : Because(m, r) \in Memory
  BY DEF Because, Memory
<1>3. "suspend refused" \in Reasons /\ "lag unknown" \in Reasons /\ "records pending" \in Reasons
      /\ "job busy" \in Reasons /\ "job unknown" \in Reasons
  BY DEF Reasons
<1>4. QED
  BY <1>1, <1>2, <1>3 DEF DecideIdle, Sound, Stay, Do, Decision, Actions, asleep

LEMMA AwakeSound ==
    ASSUME NEW p, NEW prev \in Memory, NEW live, NEW obs, NEW now \in Nat,
           TypedInput(prev, live, obs, now), live.specJobState \in {"running", "suspended"}
    PROVE  Sound(DecideAwake(p, prev, live, obs, now), live)
<1> DEFINE cur == Observed(prev, obs, now)
           counted == CountMissedRestart(cur, live, now)
           m == TimeRestarting(counted, live, now)
           marked == [m EXCEPT !.phase = "unrecoverable", !.reason = "unrecoverable error"]
<1>1. cur \in Memory
  BY MemoryOperators DEF TypedInput, Reasons
<1> HIDE DEF cur
<1>2. counted \in Memory
  BY <1>1, MemoryOperators DEF TypedInput, Reasons
<1> HIDE DEF counted
<1>3. m \in Memory
  BY <1>2, MemoryOperators DEF TypedInput, Reasons
<1> HIDE DEF m
<1>4. marked \in Memory
  BY <1>3 DEF Memory, Phases, Reasons
<1> HIDE DEF marked
<1>5. CASE live.specJobState = "suspended"
  <2>1. Because(cur, "suspended outside siesta") \in Memory
    BY <1>1 DEF Because, Memory, Reasons
  <2>2. QED
    BY <1>5, <2>1, StaySound DEF DecideAwake, cur
<1>6. CASE live.specJobState = "running"
  <2>1. Sound(DecideFailing(m, live, now), live)
    BY <1>3, FailingSound
  <2>2. Sound(DecideIdle(p, m, live, obs, now), live)
    BY <1>3, <1>6, IdleSound
  <2>3. Sound(Stay(m), live)
    BY <1>3, StaySound
  <2>4. Sound(Do("mark-unrecoverable", marked), live)
    BY <1>4 DEF Sound, Do, Decision, Actions
  <2>5. QED
    BY <1>6, <2>1, <2>2, <2>3, <2>4 DEF DecideAwake, m, cur, counted, marked
<1>7. QED
  BY <1>5, <1>6

LEMMA UnlearnedSound ==
    ASSUME NEW p, NEW prev \in Memory, NEW live, NEW now \in Nat,
           live.specJobState = "suspended"
    PROVE  Sound(DecideUnlearned(p, prev, live, now), live)
<1>1. Because(prev, "relearn held") \in Memory
  BY DEF Because, Memory, Reasons
<1>2. Wake(prev, now, "relearn") \in Memory
  BY DEF Wake, Memory, Phases, Reasons, ZeroTime
<1>3. QED
  BY <1>1, <1>2 DEF DecideUnlearned, Sound, Stay, Do, Decision, Actions

----------------------------------------------------------------------------
\* Decider.Decide: on every input the decision is well formed; a job is resumed only when
\* the version decided on is suspended and the operator is done with it, and suspended
\* only when that version runs.
THEOREM DecideSound ==
    ASSUME NEW p, NEW memory, NEW live, NEW obs, NEW now,
           TypedInput(memory, live, obs, now), live.specJobState \in {"running", "suspended"}
    PROVE  Sound(Decide(p, memory, live, obs, now), live)
<1> DEFINE prev == Acknowledged(memory, live, now)
<1>1. memory \in Memory /\ now \in Nat
  BY DEF TypedInput
<1>2. prev \in Memory
  BY <1>1, MemoryOperators DEF TypedInput, Reasons
<1> HIDE DEF prev
<1>3. Sound(Stay(memory), live) /\ Sound(Stay(prev), live)
  BY <1>1, <1>2, StaySound
<1>4. Sound(Stay(Because(prev, "waiting to learn sources")), live)
  <2>1. Because(prev, "waiting to learn sources") \in Memory
    BY <1>2 DEF Because, Memory, Reasons
  <2>2. QED
    BY <2>1, StaySound
<1>5. live.specJobState = "suspended" /\ SuspendDone(live)
      => Sound(Do("resume", Wake(memory, now, "suspension disabled")), live)
  <2>1. Wake(memory, now, "suspension disabled") \in Memory
    BY <1>1 DEF Wake, Memory, Phases, Reasons, ZeroTime
  <2>2. QED
    BY <2>1 DEF Sound, Do, Decision, Actions
<1>6. live.specJobState = "suspended" => Sound(DecideUnlearned(p, prev, live, now), live)
  BY <1>1, <1>2, UnlearnedSound
<1>7. Sound(DecideKnown(p, prev, live, obs, now), live)
  <2>1. TypedInput(prev, live, obs, now)
    BY <1>1, <1>2 DEF TypedInput
  <2>2. prev.phase \in {"active", "suspended", "unrecoverable"}
    BY <1>2 DEF Memory, Phases
  <2>3. Sound(DecideAsleep(p, prev, live, obs, now), live)
    BY <1>1, <1>2, <2>1, AsleepSound
  <2>4. Sound(DecideAwake(p, prev, live, obs, now), live)
    BY <1>1, <1>2, <2>1, AwakeSound
  <2>5. Observed(prev, obs, now) \in Memory
    BY <1>1, <1>2, <2>1, MemoryOperators DEF TypedInput, Reasons
  <2>6. Sound(Wait(Observed(prev, obs, now)), live)
    <3>1. \A m \in Memory : Because(m, "unrecoverable; edit the spec to retry") \in Memory
      BY DEF Because, Memory, Reasons
    <3>2. QED
      BY <2>5, <3>1, StaySound DEF Wait
  <2>7. QED
    BY <2>2, <2>3, <2>4, <2>6 DEF DecideKnown
<1>8. QED
  BY <1>3, <1>4, <1>5, <1>6, <1>7 DEF Decide, prev
----------------------------------------------------------------------------
(* What a decision does to the phase in memory. *)

\* From memory m on the version live: a suspend needs an active memory that is older than
\* MinAwake, a deployment is given up only if it is restarted by us and runs, and one that
\* sleeps goes on sleeping unless it is resumed.
Phased(d, p, m, live, now) ==
    /\ d.action = "suspend" => /\ m.phase = "active" /\ now > m.awakeSince + MinAwake
                               /\ d.next.phase = "suspended"
    /\ d.next.phase = "unrecoverable" =>
          m.phase = "unrecoverable" \/ (p.restart /\ live.specJobState = "running")
    /\ live.specJobState = "suspended" /\ m.phase = "suspended" /\ d.action # "resume"
          => d.next.phase = "suspended"

\* The branch for a memory that says suspended.
LEMMA AsleepPhased ==
    ASSUME NEW p, NEW prev \in Memory, NEW live, NEW obs, NEW now \in Nat,
           TypedInput(prev, live, obs, now), prev.phase = "suspended",
           live.specJobState \in {"running", "suspended"}
    PROVE  Phased(DecideAsleep(p, prev, live, obs, now), p, prev, live, now)
<1> DEFINE cur == Observed(prev, obs, now)
           pending == Held(cur, prev)
           refreshed == [cur EXCEPT !.phase = "active", !.suspendedAt = ZeroTime,
                                    !.awakeSince = now, !.refreshWake = TRUE,
                                    !.reason = "woken to refresh offsets"]
           woken(r) == Wake(cur, now, r)
<1>a. cur \in Memory
  BY MemoryOperators DEF TypedInput, Reasons
<1>b. cur.phase = "suspended"
  BY DEF Observed, Memory
<1> HIDE DEF cur
<1>1. cur \in Memory /\ cur.phase = "suspended"
  BY <1>a, <1>b
<1>2. pending \in Memory /\ pending.phase = "suspended"
  BY <1>1 DEF Held, Memory
<1>3. refreshed.phase = "active"
  BY <1>1 DEF Memory
<1>4. \A r : woken(r).phase = "active"
  BY <1>1 DEF Wake, Memory
<1> HIDE DEF pending, refreshed, woken
<1>5. \A r : Because(pending, r).phase = "suspended"
  BY <1>2 DEF Because, Memory
<1>6. QED
  BY <1>1, <1>2, <1>3, <1>4, <1>5
     DEF DecideAsleep, Phased, Stay, Do, cur, pending, refreshed, woken

\* The branch for an active memory; a restart it missed makes the job awake from now on.
LEMMA AwakePhased ==
    ASSUME NEW p, NEW prev \in Memory, NEW live, NEW obs, NEW now \in Nat,
           TypedInput(prev, live, obs, now), prev.phase = "active",
           live.specJobState \in {"running", "suspended"}
    PROVE  Phased(DecideAwake(p, prev, live, obs, now), p, prev, live, now)
<1> DEFINE cur == Observed(prev, obs, now)
           counted == CountMissedRestart(cur, live, now)
           m == TimeRestarting(counted, live, now)
           marked == [m EXCEPT !.phase = "unrecoverable", !.reason = "unrecoverable error"]
<1>1. cur \in Memory /\ cur.phase = "active" /\ cur.awakeSince = prev.awakeSince
  <2>1. cur \in Memory
    BY MemoryOperators DEF TypedInput, Reasons
  <2>2. cur.phase = prev.phase /\ cur.awakeSince = prev.awakeSince
    BY DEF Observed, Memory
  <2>3. QED
    BY <2>1, <2>2
<1> HIDE DEF cur
<1>2. counted \in Memory /\ counted.phase = "active" /\ counted.awakeSince \in {prev.awakeSince, now}
  <2>1. counted \in Memory
    BY <1>1, MemoryOperators DEF TypedInput, Reasons
  <2>2. counted.phase = cur.phase /\ counted.awakeSince \in {cur.awakeSince, now}
    BY <1>1 DEF CountMissedRestart, Memory
  <2>3. QED
    BY <1>1, <2>1, <2>2
<1> HIDE DEF counted
<1>3. m \in Memory /\ m.phase = "active" /\ m.awakeSince \in {prev.awakeSince, now}
  <2>1. m \in Memory
    BY <1>2, MemoryOperators DEF TypedInput, Reasons
  <2>2. m.phase = counted.phase /\ m.awakeSince = counted.awakeSince
    BY <1>2 DEF TimeRestarting, Memory
  <2>3. QED
    BY <1>2, <2>1, <2>2
<1> HIDE DEF m
<1>4. CASE live.specJobState = "suspended"
  <2>1. Because(cur, "suspended outside siesta").phase = "active"
    BY <1>1 DEF Because, Memory
  <2>2. QED
    BY <1>4, <2>1 DEF DecideAwake, Phased, Stay, cur
<1>5. CASE live.specJobState = "running"
  <2>1. p.restart => Phased(DecideFailing(m, live, now), p, prev, live, now)
    BY <1>3, <1>5 DEF DecideFailing, Phased, Stay, Do
  <2>2. Phased(DecideIdle(p, m, live, obs, now), p, prev, live, now)
    <3> DEFINE asleep == [m EXCEPT !.phase = "suspended", !.suspendedAt = now, !.refreshWake = FALSE,
                                   !.reason = IF m.refreshWake THEN "refreshed" ELSE "no input"]
    <3>1. asleep.phase = "suspended"
      BY <1>3 DEF Memory
    <3> HIDE DEF asleep
    <3>2. \A r : Because(m, r).phase = "active"
      BY <1>3 DEF Because, Memory
    <3>3. now > m.awakeSince + MinAwake => now > prev.awakeSince + MinAwake
      BY <1>3, DecideAssumption
    <3>4. QED
      BY <1>3, <1>5, <3>1, <3>2, <3>3 DEF DecideIdle, Phased, Stay, Do, asleep
  <2>3. Phased(Stay(m), p, prev, live, now)
    BY <1>3, <1>5 DEF Phased, Stay
  <2>4. p.restart => Phased(Do("mark-unrecoverable", marked), p, prev, live, now)
    BY <1>5 DEF Phased, Do
  <2>5. QED
    BY <1>5, <2>1, <2>2, <2>3, <2>4 DEF DecideAwake, m, cur, counted, marked
<1>6. QED
  BY <1>4, <1>5

\* Decider.Decide: a job is suspended only from an active memory that has been awake for
\* MinAwake, never right after a human's edit took an unrecoverable one back; only a running
\* deployment whose policy restarts is given up; and what sleeps stays asleep unless resumed.
THEOREM DecidePhased ==
    ASSUME NEW p, NEW memory, NEW live, NEW obs, NEW now,
           TypedInput(memory, live, obs, now), live.specJobState \in {"running", "suspended"}
    PROVE  Phased(Decide(p, memory, live, obs, now), p, memory, live, now)
<1> DEFINE prev == Acknowledged(memory, live, now)
           Goal(d) == Phased(d, p, memory, live, now)
<1>1. memory \in Memory /\ now \in Nat /\ MinAwake \in Nat
      /\ memory.phase \in {"active", "suspended", "unrecoverable"}
  BY DecideAssumption DEF TypedInput, Memory, Phases
<1>2. prev \in Memory
  BY <1>1, MemoryOperators DEF TypedInput, Reasons
<1>3. \/ prev.phase = memory.phase /\ prev.awakeSince = memory.awakeSince
      \/ memory.phase = "unrecoverable" /\ prev.phase = "active" /\ prev.awakeSince = now
  BY <1>1 DEF Acknowledged, Wake, Memory
<1> HIDE DEF prev
\* What holds of the acknowledged memory holds of the memory that was loaded.
<1>4. ASSUME NEW d, Phased(d, p, prev, live, now) PROVE Goal(d)
  BY <1>1, <1>2, <1>3, <1>4 DEF Phased
<1>5. Goal(Stay(memory)) /\ Goal(Stay(prev))
  BY <1>1, <1>3 DEF Phased, Stay
<1>6. Goal(Stay(Because(prev, "waiting to learn sources")))
  BY <1>1, <1>2, <1>3 DEF Phased, Stay, Because, Memory
<1>7. Goal(Do("resume", Wake(memory, now, "suspension disabled")))
  BY <1>1 DEF Phased, Do, Wake, Memory
<1>8. Goal(DecideUnlearned(p, prev, live, now))
  <2>1. Because(prev, "relearn held").phase = prev.phase /\ Wake(prev, now, "relearn").phase = "active"
    BY <1>1, <1>2 DEF Because, Wake, Memory
  <2>2. QED
    BY <1>1, <1>3, <2>1 DEF DecideUnlearned, Phased, Stay, Do
<1>9. Phased(DecideKnown(p, prev, live, obs, now), p, prev, live, now)
  <2>1. TypedInput(prev, live, obs, now)
    BY <1>1, <1>2 DEF TypedInput
  <2>2. CASE prev.phase = "suspended"
    BY <1>1, <1>2, <2>1, <2>2, AsleepPhased DEF DecideKnown
  <2>3. CASE prev.phase = "active"
    BY <1>1, <1>2, <2>1, <2>3, AwakePhased DEF DecideKnown
  <2>4. CASE prev.phase = "unrecoverable"
    <3> DEFINE m == Observed(prev, obs, now)
    <3>a. m \in Memory
      BY <1>1, <1>2, <2>1, MemoryOperators DEF TypedInput, Reasons
    <3>b. m.phase = prev.phase
      BY <1>1, <1>2 DEF Observed, Memory
    <3> HIDE DEF m
    <3>1. m \in Memory /\ m.phase = "unrecoverable"
      BY <2>4, <3>a, <3>b
    <3>2. Because(m, "unrecoverable; edit the spec to retry").phase = "unrecoverable"
      BY <3>1 DEF Because, Memory
    <3>3. Phased(Wait(m), p, prev, live, now)
      BY <2>4, <3>1, <3>2 DEF Wait, Phased, Stay
    <3>4. QED
      BY <2>4, <3>3 DEF DecideKnown, m
  <2>5. prev.phase \in {"active", "suspended", "unrecoverable"}
    BY <1>2 DEF Memory, Phases
  <2>6. QED
    BY <2>2, <2>3, <2>4, <2>5
<1>10. Goal(DecideKnown(p, prev, live, obs, now))
  BY <1>4, <1>9
<1>11. QED
  BY <1>5, <1>6, <1>7, <1>8, <1>10 DEF Decide, prev
----------------------------------------------------------------------------
(* What a decision does to the restart budget. *)

\* A budget that has counted one more restart.
Charge(b, nonce, now) == [Consume(b, now) EXCEPT !.lastNonce = nonce]

\* From budget b: nothing happens to it, or a restart it has missed is counted and none made, or
\* one is made that has a slot, is due, and is not a second one after a restart that was missed.
Budgeted(d, b, live, now) ==
    \/ d.action # "restart" /\ d.next.restarts = b
    \/ /\ d.action # "restart" /\ live.restartNonce > b.lastNonce
       /\ d.next.restarts = Charge(b, live.restartNonce, now)
    \/ /\ d.action = "restart" /\ live.restartNonce <= b.lastNonce
       /\ ~Exhausted(b, now) /\ ~InBackoff(b, now)
       /\ d.next.restarts = Charge(b, now, now)

\* A restart just counted is in its backoff.
LEMMA ChargeWaits ==
    ASSUME NEW b \in Budget, NEW now \in Nat \ {0}, NEW nonce \in Int, BaseBackoff > 0
    PROVE  InBackoff(Charge(b, nonce, now), now)
<1> DEFINE r == Rolled(b, now)
           c == Charge(b, nonce, now)
           w == Backoff(r.count)
<1>1. r \in Budget /\ r.count \in Nat
  BY BudgetOperators DEF Budget
<1>2. w \in Nat /\ w > 0
  BY <1>1, BackoffGrows, BudgetAssumption
<1>3. /\ c.nextAfter = now + w
      /\ c.windowStart = IF r.windowStart = ZeroTime THEN now ELSE r.windowStart
  BY DEF Charge, Consume
<1>4. r.windowStart # ZeroTime => ~(now > r.windowStart + Window)
  BY DEF Rolled, FreshBudget
<1> HIDE DEF w, r, c
<1>5. c.windowStart # ZeroTime /\ ~(now > c.windowStart + Window)
  BY <1>3, <1>4, BudgetAssumption DEF ZeroTime
<1>6. Rolled(c, now) = c
  BY <1>5 DEF Rolled
<1>7. QED
  BY <1>2, <1>3, <1>6 DEF InBackoff, ZeroTime, c

\* The branch for an active memory.
LEMMA AwakeBudgeted ==
    ASSUME NEW p, NEW prev \in Memory, NEW live, NEW obs, NEW now \in Nat \ {0},
           TypedInput(prev, live, obs, now), BaseBackoff > 0
    PROVE  Budgeted(DecideAwake(p, prev, live, obs, now), prev.restarts, live, now)
<1> DEFINE b == prev.restarts
           cur == Observed(prev, obs, now)
           counted == CountMissedRestart(cur, live, now)
           m == TimeRestarting(counted, live, now)
           missed == live.restartNonce > b.lastNonce
           Goal(d) == Budgeted(d, b, live, now)
<1>1. b \in Budget /\ b.lastNonce \in Int /\ live.restartNonce \in Int /\ now \in Nat
  BY DEF Memory, Budget, TypedInput
<1>2. cur \in Memory /\ cur.restarts = b
  <2>1. cur \in Memory
    BY MemoryOperators DEF TypedInput, Reasons
  <2>2. cur.restarts = b
    BY DEF Observed, Memory
  <2>3. QED
    BY <2>1, <2>2
<1> HIDE DEF cur
<1>3. counted \in Memory
      /\ counted.restarts = IF missed THEN Charge(b, live.restartNonce, now) ELSE b
  <2>1. counted \in Memory
    BY <1>1, <1>2, MemoryOperators DEF TypedInput, Reasons
  <2>2. counted.restarts = IF missed THEN Charge(b, live.restartNonce, now) ELSE b
    BY <1>2 DEF CountMissedRestart, Charge, Memory
  <2>3. QED
    BY <2>1, <2>2
<1> HIDE DEF counted
<1>4. m \in Memory /\ m.restarts = IF missed THEN Charge(b, live.restartNonce, now) ELSE b
  <2>1. m \in Memory
    BY <1>1, <1>3, MemoryOperators DEF TypedInput, Reasons
  <2>2. m.restarts = counted.restarts
    BY <1>3 DEF TimeRestarting, Memory
  <2>3. QED
    BY <1>3, <2>1, <2>2
<1> HIDE DEF m
<1>5. ASSUME NEW d, d.action # "restart", d.next.restarts = m.restarts PROVE Goal(d)
  BY <1>4, <1>5 DEF Budgeted
<1>6. Goal(Stay(Because(cur, "suspended outside siesta")))
  <2>1. Because(cur, "suspended outside siesta").restarts = b
    BY <1>2 DEF Because, Memory
  <2>2. QED
    BY <2>1 DEF Budgeted, Stay
<1>7. ASSUME NEW reason PROVE Goal(Do("mark-unrecoverable",
          [m EXCEPT !.phase = "unrecoverable", !.reason = reason]))
  <2> DEFINE n == [m EXCEPT !.phase = "unrecoverable", !.reason = reason]
  <2>1. n.restarts = m.restarts
    BY <1>4 DEF Memory
  <2> HIDE DEF n
  <2>2. Goal(Do("mark-unrecoverable", n))
    BY <2>1, <1>5 DEF Do
  <2>3. QED
    BY <2>2 DEF n
<1>8. Goal(Stay(m))
  BY <1>5 DEF Stay
<1>9. Goal(DecideFailing(m, live, now))
  <2> DEFINE n == [m EXCEPT !.restarts = [Consume(@, now) EXCEPT !.lastNonce = now],
                            !.awakeSince = now, !.reason = "restart"]
  <2>1. CASE InBackoff(m.restarts, now)
    BY <2>1, <1>8 DEF DecideFailing
  <2>2. CASE ~InBackoff(m.restarts, now)
    <3>1. ~missed /\ m.restarts = b
      BY <1>1, <1>4, <2>2, ChargeWaits
    <3>2. n.restarts = Charge(b, now, now)
      BY <1>4, <3>1 DEF Charge, Memory
    <3> HIDE DEF n
    <3>3. ~Exhausted(b, now) => Goal(Do("restart", n))
      BY <1>1, <2>2, <3>1, <3>2 DEF Budgeted, Do
    <3>4. QED
      BY <1>7, <1>8, <3>1, <3>3 DEF DecideFailing, n
  <2>3. QED
    BY <2>1, <2>2
<1>10. Goal(DecideIdle(p, m, live, obs, now))
  <2> DEFINE n == [m EXCEPT !.phase = "suspended", !.suspendedAt = now, !.refreshWake = FALSE,
                            !.reason = IF m.refreshWake THEN "refreshed" ELSE "no input"]
  <2>1. n.restarts = m.restarts
    BY <1>4 DEF Memory
  <2> HIDE DEF n
  <2>2. Goal(Do("suspend", n))
    BY <2>1, <1>5 DEF Do
  <2>3. \A r : Because(m, r).restarts = m.restarts
    BY <1>4 DEF Because, Memory
  <2>4. \A r : Goal(Stay(Because(m, r))) /\ Goal(Do("refuse", Because(m, r)))
    BY <2>3, <1>5 DEF Stay, Do
  <2>5. QED
    BY <1>8, <2>2, <2>4 DEF DecideIdle, n
<1>11. QED
  BY <1>6, <1>7, <1>8, <1>9, <1>10 DEF DecideAwake, m, cur, counted

\* Decider.Decide: the budget changes only by counting a restart, unless a human's edit gives a new
\* one; a restart is made only with a slot left, after the backoff, and never in the tick that
\* finds another one missed.
THEOREM DecideBudgeted ==
    ASSUME NEW p, NEW memory, NEW live, NEW obs, NEW now,
           TypedInput(memory, live, obs, now), now > 0, BaseBackoff > 0
    PROVE  \E b \in {memory.restarts, FreshBudget(memory.restarts.lastNonce)} :
               Budgeted(Decide(p, memory, live, obs, now), b, live, now)
<1> DEFINE prev == Acknowledged(memory, live, now)
           fresh == FreshBudget(memory.restarts.lastNonce)
           Goal(d) == \E b \in {memory.restarts, fresh} : Budgeted(d, b, live, now)
<1>1. memory \in Memory /\ now \in Nat \ {0}
  BY DEF TypedInput
<1>2. prev \in Memory
  BY <1>1, MemoryOperators DEF TypedInput, Reasons
<1>3. prev.restarts \in {memory.restarts, fresh}
  BY <1>1 DEF Acknowledged, Wake, Memory
<1> HIDE DEF prev, fresh
<1>4. ASSUME NEW m, m.restarts \in {memory.restarts, fresh}
      PROVE  Goal(Do("resume", m)) /\ Goal(Stay(m))
  BY <1>4 DEF Budgeted, Do, Stay
<1> HIDE DEF Goal
<1>5. ASSUME NEW m \in Memory, m.restarts \in {memory.restarts, fresh}
      PROVE  /\ \A r : Goal(Stay(Because(m, r)))
             /\ \A r : Goal(Do("resume", Wake(m, now, r))) /\ Goal(Stay(Wake(m, now, r)))
  <2>1. \A r : Because(m, r).restarts = m.restarts /\ Wake(m, now, r).restarts = m.restarts
    BY DEF Because, Wake, Memory
  <2>2. \A r : Because(m, r).restarts \in {memory.restarts, fresh}
               /\ Wake(m, now, r).restarts \in {memory.restarts, fresh}
    BY <1>5, <2>1
  <2>3. QED
    BY <1>4, <2>2
<1>6. Goal(Stay(memory)) /\ Goal(Stay(prev))
  BY <1>3, <1>4
<1>7. Goal(Do("resume", Wake(memory, now, "suspension disabled")))
  BY <1>1, <1>5
<1>8. Goal(Stay(Because(prev, "waiting to learn sources")))
  BY <1>2, <1>3, <1>5
<1>9. Goal(DecideUnlearned(p, prev, live, now))
  <2>1. Goal(Stay(Because(prev, "relearn held"))) /\ Goal(Do("resume", Wake(prev, now, "relearn")))
    BY <1>2, <1>3, <1>5
  <2>2. QED
    BY <1>6, <2>1 DEF DecideUnlearned
<1>10. Goal(DecideKnown(p, prev, live, obs, now))
  <2>1. TypedInput(prev, live, obs, now)
    BY <1>2 DEF TypedInput
  <2> DEFINE cur == Observed(prev, obs, now)
  <2>2. cur \in Memory
    BY <1>1, <1>2, MemoryOperators DEF TypedInput, Reasons
  <2>3. cur.restarts \in {memory.restarts, fresh}
    BY <1>2, <1>3 DEF Observed, Memory
  <2> HIDE DEF cur
  <2>4. CASE prev.phase = "suspended"
    <3> DEFINE pending == Held(cur, prev)
               refreshed == [cur EXCEPT !.phase = "active", !.suspendedAt = ZeroTime,
                                        !.awakeSince = now, !.refreshWake = TRUE,
                                        !.reason = "woken to refresh offsets"]
    <3>1. pending \in Memory /\ pending.restarts = cur.restarts
      BY <1>2, <2>2 DEF Held, Memory
    <3>2. refreshed.restarts = cur.restarts
      BY <2>2 DEF Memory
    <3> HIDE DEF pending, refreshed
    <3>3. /\ Goal(Stay(pending)) /\ Goal(Stay(cur)) /\ Goal(Do("resume", refreshed))
          /\ \A r : Goal(Stay(Because(pending, r)))
          /\ \A r : Goal(Stay(Wake(cur, now, r))) /\ Goal(Do("resume", Wake(cur, now, r)))
      BY <1>4, <1>5, <2>2, <2>3, <3>1, <3>2
    <3>4. Goal(DecideAsleep(p, prev, live, obs, now))
      BY <3>3 DEF DecideAsleep, cur, pending, refreshed
    <3>5. QED
      BY <2>4, <3>4 DEF DecideKnown
  <2>5. CASE prev.phase = "active"
    <3>1. Budgeted(DecideAwake(p, prev, live, obs, now), prev.restarts, live, now)
      BY <1>1, <1>2, <2>1, AwakeBudgeted
    <3>2. QED
      BY <1>3, <2>5, <3>1 DEF DecideKnown, Goal
  <2>6. CASE prev.phase = "unrecoverable"
    <3>1. Goal(Stay(cur)) /\ \A r : Goal(Stay(Because(cur, r)))
      BY <1>4, <1>5, <2>2, <2>3
    <3>2. Goal(Wait(cur))
      BY <3>1 DEF Wait
    <3>3. QED
      BY <2>6, <3>2 DEF DecideKnown, cur
  <2>7. QED
    BY <1>2, <2>4, <2>5, <2>6 DEF Memory, Phases
<1>11. QED
  BY <1>6, <1>7, <1>8, <1>9, <1>10 DEF Decide, prev, fresh, Goal
=============================================================================
