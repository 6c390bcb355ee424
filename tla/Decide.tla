------------------------------- MODULE Decide -------------------------------
(***************************************************************************)
(* internal/decide/decide.go: the pure function from a policy, the memory   *)
(* of earlier ticks, the live object and this tick's observation to one     *)
(* action and the memory to keep.                                           *)
(*                                                                          *)
(* Abstractions.  A snapshot is the number of records in the source, -1 the *)
(* empty snapshot of a deployment never observed.  A reason is its kind,    *)
(* without the durations, groups and counts it is printed with.  The        *)
(* fields of memory that feed no decision (ResumedAt, Pending, Outage,      *)
(* Reported) are left out; learned stands for a non-empty Sources.          *)
(***************************************************************************)
EXTENDS RestartBudget

CONSTANTS
    IdleAfter,      \* policy.IdleAfter: no input for this long before a suspend
    MinAwake,       \* policy.MinAwake: no suspend sooner after a resume or restart
    MaxSleep,       \* policy.MaxSleep: 0 is unbounded
    FailingAfter    \* RestartPolicy.FailingAfter: RESTARTING for longer is failing

ASSUME DecideAssumption ==
    /\ IdleAfter \in Nat \ {0}
    /\ MinAwake \in Nat
    /\ MaxSleep \in Nat
    /\ FailingAfter \in Nat

NoSnapshot == -1

Phases == {"active", "suspended", "unrecoverable"}

\* decide/reasons.go, and the reasons the reconciler writes by itself.
Reasons == {"", "first observation", "memory repaired", "invalid policy", "spec changed",
            "suspension disabled", "relearn", "relearn held", "waiting to learn sources",
            "resumed outside siesta", "suspended outside siesta", "input observed",
            "woken to refresh offsets", "refreshed", "no input", "offsets missing",
            "lag unknown", "records pending", "job busy", "job unknown", "suspend refused",
            "restart", "restart budget exhausted", "unrecoverable error",
            "unrecoverable; edit the spec to retry",
            "would suspend", "would resume", "would restart", "would refuse",
            "would mark unrecoverable"}

\* state.State
Memory == [phase: Phases, snapshot: Int, lastActivityAt: Nat, suspendedAt: Nat,
           awakeSince: Nat, restarts: Budget, reason: Reasons, generation: Nat,
           refreshWake: BOOLEAN, restartingSince: Nat, learned: BOOLEAN]

\* state.Initial, with the object's nonce as the budget's baseline (reconciler.load).
Initial(now, nonce) ==
    [phase |-> "active", snapshot |-> NoSnapshot, lastActivityAt |-> now,
     suspendedAt |-> ZeroTime, awakeSince |-> now, restarts |-> FreshBudget(nonce),
     reason |-> "first observation", generation |-> 0, refreshWake |-> FALSE,
     restartingSince |-> ZeroTime, learned |-> FALSE]

----------------------------------------------------------------------------
(* decide.Live *)

OperatorBusy(live) == live.lifecycle \in {"UPGRADING", "ROLLING_BACK"}

Stable(live) == live.lifecycle = "STABLE" /\ live.job = "RUNNING"

\* Mutant of SuspendDone: the spec we wrote is taken for the operator's report.
SuspendRequested(live) == live.specJobState = "suspended"

SuspendDone(live) == live.lifecycle = "SUSPENDED"

KeepsPosition(live) == live.upgradeMode \in {"savepoint", "last-state"}

\* unrecoverable: whether the operator's error contains one of the configured patterns. The
\* object carries the answer instead of the text.
Hopeless(live) == live.unrecoverable

ResumesFromGroup(live, p) == p.resumeFromGroup /\ live.upgradeMode = "stateless"

----------------------------------------------------------------------------
(* Building blocks of a decision *)

Actions == {"none", "suspend", "resume", "restart", "mark-unrecoverable", "refuse"}

Decision == [action: Actions, next: Memory]

Stay(m) == [action |-> "none", next |-> m]

Do(action, m) == [action |-> action, next |-> m]

Because(m, reason) == [m EXCEPT !.reason = reason]

Wake(m, now, reason) ==
    [m EXCEPT !.phase = "active", !.suspendedAt = ZeroTime, !.awakeSince = now,
              !.lastActivityAt = now, !.reason = reason, !.refreshWake = FALSE]

\* FAILED, or RESTARTING for too long, counted from the later of the first sight of
\* RESTARTING and the last start.
Failing(live, m, now) ==
    LET since == IF m.awakeSince > m.restartingSince THEN m.awakeSince ELSE m.restartingSince
    IN  \/ live.job = "FAILED" \/ live.lifecycle = "FAILED"
        \/ live.job = "RESTARTING" /\ now > since + FailingAfter

\* Memory after a human edited the spec of an unrecoverable deployment, and the
\* generation it has now seen.
Acknowledged(m, live, now) ==
    LET again == Wake(m, now, "spec changed")
        retry == [again EXCEPT !.restarts = FreshBudget(m.restarts.lastNonce)]
    IN  [(IF m.phase = "unrecoverable" /\ live.generation > m.generation THEN retry ELSE m)
            EXCEPT !.generation = live.generation]

\* Memory with the snapshot just taken; movement is activity and ends a refresh.
Observed(m, obs, now) ==
    IF obs.snapshot = m.snapshot THEN m
    ELSE [m EXCEPT !.snapshot = obs.snapshot, !.lastActivityAt = now, !.refreshWake = FALSE]

----------------------------------------------------------------------------
(* The Suspended branch *)

\* Mutant of Held: the input that asked for the resume is absorbed.
HeldForgetting(cur, prev) == cur

\* A resume that has to wait keeps the old snapshot: what asked for it still reads as movement.
Held(cur, prev) == [cur EXCEPT !.snapshot = prev.snapshot]

\* Mutant of Overslept: asked of the one instant instead of from then on.
OversleptJustNow(m, now) == MaxSleep > 0 /\ now = m.suspendedAt + MaxSleep

Overslept(m, now) == MaxSleep > 0 /\ now > m.suspendedAt + MaxSleep

DecideAsleep(p, prev, live, obs, now) ==
    LET cur       == Observed(prev, obs, now)
        moved     == obs.snapshot # prev.snapshot
        pending   == Held(cur, prev)
        fromGroup == ResumesFromGroup(live, p)
        refresh   == ~moved /\ fromGroup /\ Overslept(prev, now)
    IN  IF live.specJobState = "running" THEN Stay(Wake(cur, now, "resumed outside siesta"))
        ELSE IF ~SuspendDone(live) THEN Stay(pending)
        ELSE IF ~moved /\ ~refresh THEN Stay(cur)
        ELSE IF fromGroup /\ obs.uncommitted THEN Stay(Because(pending, "offsets missing"))
        ELSE IF fromGroup /\ ~obs.lagKnown THEN Stay(Because(pending, "lag unknown"))
        ELSE IF refresh
             THEN Do("resume", [cur EXCEPT !.phase = "active", !.suspendedAt = ZeroTime,
                                           !.awakeSince = now, !.refreshWake = TRUE,
                                           !.reason = "woken to refresh offsets"])
        ELSE Do("resume", Wake(cur, now, "input observed"))

----------------------------------------------------------------------------
(* The Active branch *)

\* Mutant of CountMissedRestart: a restart whose save was lost is not counted.
IgnoreMissedRestart(m, live, now) == m

\* A nonce newer than memory is a restart memory did not record: it takes a slot.
CountMissedRestart(m, live, now) ==
    IF live.restartNonce > m.restarts.lastNonce
    THEN [m EXCEPT !.restarts = [Consume(m.restarts, now) EXCEPT !.lastNonce = live.restartNonce],
                   !.awakeSince = now]
    ELSE m

TimeRestarting(m, live, now) ==
    [m EXCEPT !.restartingSince =
        IF live.job # "RESTARTING" THEN ZeroTime ELSE IF @ = ZeroTime THEN now ELSE @]

DecideFailing(m, live, now) ==
    IF live.operatorRestarts \/ InBackoff(m.restarts, now) THEN Stay(m)
    ELSE IF Exhausted(m.restarts, now)
         THEN Do("mark-unrecoverable", [m EXCEPT !.phase = "unrecoverable",
                                                 !.reason = "restart budget exhausted"])
    ELSE Do("restart", [m EXCEPT !.restarts = [Consume(@, now) EXCEPT !.lastNonce = now],
                                 !.awakeSince = now, !.reason = "restart"])

\* The gates between an idle job and its suspend, in the order they are asked.
DecideIdle(p, m, live, obs, now) ==
    IF ~(now > m.awakeSince + MinAwake) THEN Stay(m)
    ELSE IF ~KeepsPosition(live) /\ ~ResumesFromGroup(live, p)
         THEN Do("refuse", Because(m, "suspend refused"))
    ELSE IF p.consumerGroup /\ ~obs.lagKnown THEN Stay(Because(m, "lag unknown"))
    ELSE IF p.consumerGroup /\ obs.pending THEN Stay(Because(m, "records pending"))
    ELSE IF p.idleFromJob /\ obs.jobGate = "busy" THEN Stay(Because(m, "job busy"))
    ELSE IF p.idleFromJob /\ obs.jobGate # "idle" THEN Stay(Because(m, "job unknown"))
    ELSE Do("suspend", [m EXCEPT !.phase = "suspended", !.suspendedAt = now,
                                 !.refreshWake = FALSE,
                                 !.reason = IF m.refreshWake THEN "refreshed" ELSE "no input"])

DecideAwake(p, prev, live, obs, now) ==
    LET cur    == Observed(prev, obs, now)
        m      == TimeRestarting(CountMissedRestart(cur, live, now), live, now)
        idle   == \/ now > m.lastActivityAt + IdleAfter
                  \/ m.refreshWake /\ ResumesFromGroup(live, p)
    IN  IF live.specJobState = "suspended" THEN Stay(Because(cur, "suspended outside siesta"))
        ELSE IF p.restart /\ Hopeless(live) /\ ~Stable(live)
             THEN Do("mark-unrecoverable", [m EXCEPT !.phase = "unrecoverable",
                                                     !.reason = "unrecoverable error"])
        ELSE IF p.restart /\ Failing(live, m, now) THEN DecideFailing(m, live, now)
        ELSE IF p.mode = "auto" /\ Stable(live) /\ idle THEN DecideIdle(p, m, live, obs, now)
        ELSE Stay(m)

----------------------------------------------------------------------------
(* Decider.Decide *)

\* sources: auto with nothing learned on a job we put to sleep.
DecideUnlearned(p, prev, live, now) ==
    IF ~SuspendDone(live) THEN Stay(prev)
    ELSE IF ResumesFromGroup(live, p) THEN Stay(Because(prev, "relearn held"))
    ELSE Do("resume", Wake(prev, now, "relearn"))

\* An unrecoverable deployment waits for a human, and always says so.
Wait(m) == Stay(IF m.reason = "" THEN Because(m, "unrecoverable; edit the spec to retry") ELSE m)

DecideKnown(p, prev, live, obs, now) ==
    CASE prev.phase = "suspended"     -> DecideAsleep(p, prev, live, obs, now)
      [] prev.phase = "unrecoverable" -> Wait(Observed(prev, obs, now))
      [] prev.phase = "active"        -> DecideAwake(p, prev, live, obs, now)

Decide(p, memory, live, obs, now) ==
    LET asleep == memory.phase = "suspended" /\ live.specJobState = "suspended"
        prev   == Acknowledged(memory, live, now)
    IN  IF OperatorBusy(live) THEN Stay(memory)
        ELSE IF p.mode = "off" /\ asleep
             THEN IF SuspendDone(live) THEN Do("resume", Wake(memory, now, "suspension disabled"))
                  ELSE Stay(memory)
        ELSE IF obs.unlearned /\ asleep /\ p.mode = "auto" THEN DecideUnlearned(p, prev, live, now)
        ELSE IF obs.unlearned THEN Stay(Because(prev, "waiting to learn sources"))
        ELSE IF ~obs.known THEN Stay(prev)
        ELSE DecideKnown(p, prev, live, obs, now)
=============================================================================
