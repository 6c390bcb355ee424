-------------------------- MODULE SiestaProperties --------------------------
(***************************************************************************)
(* What makes the controller correct: nothing is lost by putting a job to  *)
(* sleep, what others decide is respected, and the restart budget holds,   *)
(* whatever is stale, lost, retried or edited between the steps of a tick. *)
(***************************************************************************)
EXTENDS Siesta, FiniteSets

\* The values of the variables; a tick that writes a nonce has a memory to take it from.
TypeOK ==
    /\ now \in 1..MaxTime
    /\ obj \in Object
    /\ stale \in Seq(Object) /\ Len(stale) <= MaxLag
    /\ cm \in Memory \cup {NoMemory}
    /\ tick \in Tick /\ (tick.write = "restart" => tick.next # NoMemory)
    /\ ends \in 0..MaxEnd /\ consumed \in 0..ends /\ committed \in BOOLEAN
    /\ used \in [faults: 0..MaxFaults, edits: 0..MaxEdits, failures: 0..MaxFailures]
    /\ setBy \in {"siesta", "human"} /\ startedAt \in Nat
    /\ restarted \subseteq [nonce: Int, window: Nat]

SiestaResumes  == obj.specJobState = "suspended" /\ obj'.specJobState = "running" /\ setBy' = "siesta"
SiestaSuspends == obj.specJobState = "running" /\ obj'.specJobState = "suspended" /\ setBy' = "siesta"
----------------------------------------------------------------------------
(* Sleeping *)

\* The controller never sets a job running before the operator has reported the suspend as
\* done: "a savepoint may be in flight. Writing running now would race it" (decide.go, release).
\* The decision may be made on an old version and reach the object through a retry.
SavepointSafe == [][SiestaResumes => obj.lifecycle = "SUSPENDED"]_vars

\* The job sleeps because the controller suspended it.
Ours == obj.specJobState = "suspended" /\ setBy = "siesta"

\* A job the controller suspended says so: the state annotation is written in the same patch as
\* spec.job.state, and no later write, from a stale read or a retry, says active over it. Without
\* the mark the job would be taken for one suspended by a human and sleep for ever.
OursIsMarked == Ours => obj.mark = "suspended"

Writing == tick.pc \in {"patch", "conflict", "retry"}

\* The versions not yet delivered are at most one flip of spec.job.state apart, and a tick that
\* read the present state has no other state left to be shown: what patcher.merge's comparison of
\* spec.job.state is worth.
FlipInv ==
    /\ \A i, j \in 1..Len(stale) :
          i <= j /\ stale[i].specJobState = obj.specJobState => stale[j].specJobState = obj.specJobState
    /\ Writing /\ tick.was = obj.specJobState =>
          \A i \in 1..Len(stale) : stale[i].specJobState = obj.specJobState
    /\ Writing /\ tick.write = "suspend" => tick.was = "running"
    /\ Writing /\ tick.write = "resume" => tick.was = "suspended"

\* A suspend reported as done in an old version of a job that is still suspended is done, also
\* for a resume already decided on that version.
DoneInv ==
    /\ \A i \in 1..Len(stale) :
          /\ obj.specJobState = "suspended"
          /\ stale[i].specJobState = "suspended"
          /\ stale[i].lifecycle = "SUSPENDED"
          => obj.lifecycle = "SUSPENDED"
    /\ Writing /\ tick.write = "resume" /\ obj.specJobState = "suspended"
          => obj.lifecycle = "SUSPENDED"

\* The inductive invariant behind SavepointSafe: what stale reads (the informer) and retries
\* (patcher.merge) can still do to the object.
SavepointInv == FlipInv /\ DoneInv

NoRestarts == \A p \in Policies : ~p.restart

Unrecoverable(m) == m # NoMemory /\ m.phase = "unrecoverable"

\* A patch that will get through unless somebody writes first is for the state the object has: the
\* version read is the object, or patcher.merge has just compared spec.job.state.
MatchInv == tick.pc \in {"patch", "retry"} /\ tick.current => tick.was = obj.specJobState

\* What a tick may still write over the mark of a job we put to sleep, and what could mislead the next
\* tick (reconciler.go repair): no version of it in the informer lacks the mark, and no memory, mark
\* or tick calls it unrecoverable, since repair prefers that to the mark.
AsleepInv ==
    Ours =>
        /\ obj.mark = "suspended"
        /\ ~DryRun
        /\ ~Unrecoverable(cm)
        /\ \A i \in 1..Len(stale) :
              /\ stale[i].mark # "unrecoverable"
              /\ stale[i].specJobState = "suspended" => stale[i].mark = "suspended"
        /\ tick.pc # "idle" => ~Unrecoverable(tick.next)
        /\ Writing /\ tick.was = "suspended" /\ tick.write # "resume" => Mark(tick.next) = "suspended"

\* Where nobody else sets spec.job.state every sleep is ours, in the versions of an earlier one too.
AloneInv ==
    "state" \notin Humans =>
        /\ obj.specJobState = "suspended" => Ours
        /\ \A i \in 1..Len(stale) : stale[i].specJobState = "suspended" => stale[i].mark = "suspended"

\* A suspend on its way was decided on a job, a memory and marks that do not say unrecoverable.
FallingAsleepInv ==
    Writing /\ tick.write = "suspend" =>
        /\ tick.was = "running"
        /\ Mark(tick.next) = "suspended"
        /\ ~DryRun
        /\ obj.mark # "unrecoverable"
        /\ ~Unrecoverable(cm)
        /\ \A i \in 1..Len(stale) : stale[i].mark # "unrecoverable"

\* Nothing is ever called unrecoverable where no policy restarts (decide.go, the restart branch).
HopeInv ==
    NoRestarts =>
        /\ obj.mark # "unrecoverable"
        /\ ~Unrecoverable(cm)
        /\ ~Unrecoverable(tick.next)
        /\ \A i \in 1..Len(stale) : stale[i].mark # "unrecoverable"

\* The inductive invariant behind OursIsMarked.
MarkInv == MatchInv /\ AsleepInv /\ AloneInv /\ FallingAsleepInv /\ HopeInv

\* The controller suspends a job only MinAwake after the tick that last resumed or restarted it,
\* also when the save of that tick was lost and memory was repaired or the restart found again in
\* the nonce (AwakeSince in decide.go and repair).
MinAwakeHonoured ==
    [][SiestaSuspends /\ startedAt # ZeroTime => now > startedAt + MinAwake]_vars

\* The upgrade mode of a job the controller suspends keeps the job's position (ADR 6).
SuspendKeepsPosition == [][SiestaSuspends => KeepsPosition(obj)]_vars
----------------------------------------------------------------------------
(* Waking *)

\* Every record is read: input that comes before, during or after a suspend wakes the job, also
\* past lost saves, failed probes and lost memory (the snapshot kept in decide.go's pending).  A
\* stateless job that resumes from its group's offsets (ADR 15) is held for no other reason than
\* that the broker has lost them.
EveryRecordIsRead ==
    \A n \in 1..MaxEnd :
        ends >= n ~> (consumed >= n \/ (obj.upgradeMode = "stateless" /\ ~committed))

\* A job resuming from group offsets that has slept for MaxSleep is woken to refresh them, before
\* the broker expires them, also when ticks come late or fail (the refresh branch of decide.go).
RefreshedInTime ==
    (/\ obj.upgradeMode = "stateless" /\ obj.specJobState = "suspended" /\ setBy = "siesta"
     /\ cm # NoMemory /\ cm.phase = "suspended" /\ now > cm.suspendedAt + MaxSleep)
        ~> (obj.specJobState = "running" \/ ~committed)
----------------------------------------------------------------------------
(* Restarting *)

\* A restart comes at least the base backoff after every earlier one, unless it opens a budget
\* window: one whose save was lost is found again in the object's nonce and starts its backoff
\* (decide.go; a retry after a lost save "cannot restart again for free", decide_test.go).
RestartsSpaced ==
    \A r, s \in restarted :
        r.nonce < s.nonce /\ s.window < s.nonce => s.nonce - r.nonce >= BaseBackoff

\* A window has no more than MaxRestarts restarts, lost saves included (restart.go).
RestartsLimited ==
    \A w \in {r.window : r \in restarted} : Cardinality({r \in restarted : r.window = w}) <= MaxRestarts

\* A nonce is the instant of a tick: every restart has one of its own, none is newer than the object's.
NonceInv ==
    /\ IsFiniteSet(restarted)
    /\ \A r \in restarted : 0 < r.window /\ r.window <= r.nonce /\ r.nonce <= obj.restartNonce
    /\ \A r, s \in restarted : r.nonce = s.nonce => r = s
    /\ obj.restartNonce <= now
    /\ tick.pc # "idle" => obj.restartNonce <= tick.at /\ tick.at <= now

\* The restarts a budget has counted in its window.
Slots(b) == {r \in restarted : r.nonce <= b.lastNonce /\ r.window = b.windowStart}

\* What a budget accounts for: every restart but the last, if the nonce says that it has missed it.
Covers(b) ==
    /\ \A r \in restarted : r.nonce <= b.lastNonce \/ r.nonce = obj.restartNonce
    /\ b.windowStart <= now
    /\ b.windowStart # ZeroTime =>
          /\ Cardinality(Slots(b)) <= b.count
          /\ \A r \in restarted : r.nonce <= b.lastNonce => r.nonce + BaseBackoff <= b.nextAfter

\* A restart on its way has taken a slot nobody else has, is due, and was decided on a memory that
\* had missed nothing: a lost save loses one restart and never two.
Due(t) ==
    LET b == t.next.restarts
    IN  /\ b.lastNonce = t.at /\ b.windowStart \in 1..t.at /\ t.at + BaseBackoff <= b.nextAfter
        /\ obj.restartNonce # t.at =>
              /\ Cardinality({r \in restarted : r.window = b.windowStart}) < b.count
              /\ b.count <= MaxRestarts
              /\ b.windowStart < t.at => \A r \in restarted : r.nonce + BaseBackoff <= t.at
              /\ cm # NoMemory => obj.restartNonce <= cm.restarts.lastNonce

\* Memory, and what a tick will save, cover the restarts; no nonce but that of a restart on its way
\* is newer than the object's.
CoverInv ==
    /\ cm # NoMemory => Covers(cm.restarts) /\ cm.restarts.lastNonce <= obj.restartNonce
    /\ tick.pc # "idle" /\ tick.next # NoMemory =>
          /\ Covers(tick.next.restarts)
          /\ (Writing /\ tick.write = "restart") \/ tick.next.restarts.lastNonce <= obj.restartNonce

DueInv == Writing /\ tick.write = "restart" => Due(tick)

\* The inductive invariant behind RestartsSpaced and RestartsLimited.
BudgetInv == NonceInv /\ CoverInv /\ DueInv /\ RestartsSpaced /\ RestartsLimited
=============================================================================
