------------------------------- MODULE Siesta -------------------------------
(***************************************************************************)
(* The controller and everything it shares state with, for one deployment: *)
(*                                                                          *)
(*   obj    the FlinkDeployment in the API server: written by the           *)
(*          controller, the Flink operator and humans                       *)
(*   stale  the earlier versions of obj the informer still has to deliver;  *)
(*          a tick reads the oldest of them                                 *)
(*   cm     the ConfigMap with the controller's memory                      *)
(*   tick   the reconcile in progress; one deployment is never reconciled   *)
(*          twice at once                                                   *)
(*   now    the clock                                                       *)
(*   ends, consumed, committed                                              *)
(*          the source: records produced, records the job has read, whether *)
(*          the consumer group has committed offsets                        *)
(*                                                                          *)
(* A tick reads, decides, patches the object and then saves memory          *)
(* (internal/controller/reconciler.go, patcher.go); anything may happen     *)
(* between two of its steps, and it may be cut short at each.               *)
(***************************************************************************)
EXTENDS Decide, Sequences

CONSTANTS
    Policies,       \* the policies a human may annotate the deployment with
    NoPolicy,       \* no <prefix>/mode annotation: not ours
    NoMemory,       \* no ConfigMap; also the zero State{} a release writes
    UpgradeModes,   \* the upgrade modes a human may choose from
    HealthCheck,    \* the operator's own health-check restart is enabled
    DryRun,         \* the process runs with --dry-run
    Humans,         \* what humans do: "state", "spec", "nonce", "policy", "memory"
    HumanNonces,    \* restart nonces a human may write
    Outcomes,       \* how a start may end: [lifecycle, job, unrecoverable]
    MaxLag,         \* bound: versions the informer may be behind
    MaxTime,        \* bound: last instant of the clock
    MaxEnd,         \* bound: records produced
    MaxFaults,      \* bound: failed calls, crashes and unreachable probes
    MaxEdits,       \* bound: edits by humans
    MaxFailures     \* bound: job failures

SpecStates == {"running", "suspended"}
Lifecycles == {"STABLE", "SUSPENDED", "UPGRADING", "FAILED"}
JobStates  == {"RUNNING", "FAILED", "RESTARTING", "RECONCILING", "FINISHED"}
Marks      == Phases \cup {"none"}
Writes     == {"annotate", "suspend", "resume", "restart"}

PolicyType == [mode: {"auto", "off"}, restart: BOOLEAN, consumerGroup: BOOLEAN,
               idleFromJob: BOOLEAN, resumeFromGroup: BOOLEAN, sourcesAuto: BOOLEAN,
               dryRun: BOOLEAN, valid: BOOLEAN]

OutcomeType == [lifecycle: Lifecycles, job: JobStates, unrecoverable: BOOLEAN]

ASSUME SiestaAssumption ==
    /\ Policies \subseteq PolicyType
    /\ NoPolicy \notin Policies
    /\ NoMemory \notin Memory
    /\ UpgradeModes \subseteq {"savepoint", "last-state", "stateless"}
    /\ HealthCheck \in BOOLEAN
    /\ DryRun \in BOOLEAN
    /\ HumanNonces \subseteq Int
    /\ Outcomes \subseteq OutcomeType
    /\ {MaxLag, MaxTime, MaxEnd, MaxFaults, MaxEdits, MaxFailures} \subseteq Nat
    /\ MaxTime > 0

VARIABLES now, obj, stale, cm, tick, ends, consumed, committed,
          used,      \* how much of MaxFaults, MaxEdits and MaxFailures is used
          setBy,     \* history: who set spec.job.state last, "siesta" or "human"
          restarted, \* history: the restarts the controller wrote
          startedAt  \* history: the instant of the tick that last resumed or restarted the job

source  == <<ends, consumed, committed>>
history == <<setBy, restarted, startedAt>>
vars    == <<now, obj, stale, cm, tick, source, used, history>>
----------------------------------------------------------------------------
(* The FlinkDeployment.  lastNonce is the operator's: the nonce of the last *)
(* spec it reconciled.  mark and reason are our two annotations.            *)

Object == [specJobState: SpecStates, upgradeMode: {"savepoint", "last-state", "stateless"},
           restartNonce: Int, generation: Nat, policy: Policies \cup {NoPolicy},
           mark: Marks, reason: Reasons, lifecycle: Lifecycles, job: JobStates,
           unrecoverable: BOOLEAN, lastNonce: Int]

\* flink.Live: what the decider sees of the object.
Live(o) ==
    [specJobState |-> o.specJobState, upgradeMode |-> o.upgradeMode,
     operatorRestarts |-> HealthCheck, generation |-> o.generation,
     restartNonce |-> o.restartNonce, job |-> o.job, lifecycle |-> o.lifecycle,
     unrecoverable |-> o.unrecoverable]

\* What the informer has delivered: the version a tick gets.
Cached == IF stale = <<>> THEN obj ELSE Head(stale)

\* A write that changes the object makes a new version, for which a tick that read an
\* earlier one has the wrong resourceVersion.
Update(o) ==
    /\ obj' = o
    /\ stale' = LET s == Append(stale, obj) IN IF Len(s) > MaxLag THEN Tail(s) ELSE s

\* What a write by anybody but the controller does to the tick in progress.
Overtaken == tick' = [tick EXCEPT !.current = FALSE]
----------------------------------------------------------------------------
(* The tick in progress.  was and current are what the patch's conditions    *)
(* compare: spec.job.state and resourceVersion of the version read.  at is   *)
(* the instant the tick goes by: the clock is read once, at its start.       *)

Tick == [pc: {"idle", "patch", "conflict", "retry", "save"}, write: Writes,
         was: SpecStates, current: BOOLEAN, at: Nat, next: Memory \cup {NoMemory}]

Idle == [pc |-> "idle", write |-> "annotate", was |-> "running", current |-> FALSE,
         at |-> ZeroTime, next |-> NoMemory]

ToPatch(fd, write, next) ==
    [pc |-> "patch", write |-> write, was |-> fd.specJobState,
     current |-> stale = <<>>, at |-> now, next |-> next]

ToSave(fd, next) == [ToPatch(fd, "annotate", next) EXCEPT !.pc = "save"]

\* State.Annotations: the two annotations, removed for the zero State.
Mark(m)   == IF m = NoMemory THEN "none" ELSE m.phase
Reason(m) == IF m = NoMemory THEN "" ELSE m.reason

\* patcher.annotate: no patch when the version read already says so.
ToAnnotate(fd, next) ==
    IF fd.mark = Mark(next) /\ fd.reason = Reason(next) THEN ToSave(fd, next)
    ELSE ToPatch(fd, "annotate", next)

\* The object after the merge patch of suspend, resume, restart or annotate.
Merged(o, write, next) ==
    LET state == CASE write = "suspend" -> "suspended" [] write = "resume" -> "running"
                   [] OTHER -> o.specJobState
        nonce == IF write = "restart" THEN next.restarts.lastNonce ELSE o.restartNonce
        edit  == state # o.specJobState \/ nonce # o.restartNonce
    IN  [o EXCEPT !.specJobState = state, !.restartNonce = nonce,
                  !.generation = IF edit THEN @ + 1 ELSE @,
                  !.mark = Mark(next), !.reason = Reason(next)]
----------------------------------------------------------------------------
(* Reconcile: load, observe, decide *)

\* Mutant of RepairedAwake: when the job was woken is not kept.
RepairedUntimed(m) ==
    [m EXCEPT !.phase = "active", !.suspendedAt = ZeroTime, !.reason = "memory repaired"]

\* repair of a resume whose save was lost: memory as if the job woke up now.
RepairedAwake(m) ==
    [m EXCEPT !.phase = "active", !.suspendedAt = ZeroTime, !.awakeSince = now,
              !.reason = "memory repaired"]

\* Mutant of Repair: the mark decides only between awake and asleep.
RepairHopeful(m, o) ==
    CASE o.mark = "suspended" /\ m.phase = "active" ->
             [m EXCEPT !.phase = "suspended", !.suspendedAt = now, !.reason = "memory repaired"]
      [] o.mark = "active" /\ m.phase = "suspended" -> RepairedAwake(m)
      [] OTHER -> m

\* repair: where the two stores disagree the object is the truth.
Repair(m, o) ==
    IF o.mark = "suspended" /\ m.phase = "active"
    THEN [m EXCEPT !.phase = "suspended", !.suspendedAt = now, !.reason = "memory repaired"]
    ELSE IF o.mark = "active" /\ m.phase = "suspended"
    THEN RepairedAwake(m)
    ELSE IF o.mark = "unrecoverable" /\ m.phase # "unrecoverable"
    THEN [m EXCEPT !.phase = "unrecoverable", !.reason = o.reason]
    ELSE m

Load(o) == Repair(IF cm = NoMemory THEN Initial(now, o.restartNonce) ELSE cm, o)

\* The answers the probes can give. Every question that is asked and not answered is a
\* fault; the job's own view may also object for no reason we model.
Observations(p, m) ==
    IF p.sourcesAuto /\ ~m.learned
    THEN {[known |-> FALSE, unlearned |-> TRUE, snapshot |-> NoSnapshot, lagKnown |-> FALSE,
           uncommitted |-> FALSE, pending |-> FALSE, jobGate |-> "unknown"]}
    ELSE [known: BOOLEAN, unlearned: {FALSE}, snapshot: {ends},
          lagKnown: IF p.consumerGroup /\ committed THEN BOOLEAN ELSE {FALSE},
          uncommitted: IF p.consumerGroup THEN {~committed} ELSE {FALSE},
          pending: {consumed < ends},
          jobGate: IF ~p.idleFromJob THEN {"unknown"}
                   ELSE {"unknown", "busy"} \cup (IF consumed < ends THEN {} ELSE {"idle"})]

Faulty(p, obs) ==
    ~obs.unlearned /\ (~obs.known \/ (p.consumerGroup /\ committed /\ ~obs.lagKnown))

\* observe with sources: auto: a running job may have shown its topics for long enough.
Learned(p, o, m) ==
    {[m EXCEPT !.learned = l] :
        l \in IF p.sourcesAuto /\ o.job = "RUNNING" THEN {m.learned, TRUE} ELSE {m.learned}}

\* shadow: what a dry run keeps of a decision it does not carry out.
DryRunReason(action) ==
    CASE action = "suspend" -> "would suspend"
      [] action = "resume"  -> "would resume"
      [] action = "restart" -> "would restart"
      [] action = "refuse"  -> "would refuse"
      [] action = "mark-unrecoverable" -> "would mark unrecoverable"

Shadow(prev, d) ==
    IF d.action = "none" THEN d
    ELSE Stay([d.next EXCEPT !.phase = prev.phase, !.suspendedAt = prev.suspendedAt,
                             !.awakeSince = prev.awakeSince, !.restarts = prev.restarts,
                             !.refreshWake = prev.refreshWake,
                             !.reason = DryRunReason(d.action)])

\* act: the object first, memory second, and nothing on the object when nothing a human
\* could see has changed.
Act(fd, prev, d) ==
    LET acted   == d.action # "none" /\ ~(d.action = "refuse" /\ prev.reason = d.next.reason)
        visible == \/ cm = NoMemory
                   \/ acted
                   \/ prev.phase # d.next.phase
                   \/ prev.reason # d.next.reason
    IN  IF ~visible THEN ToSave(fd, d.next)
        ELSE IF d.action \in {"suspend", "resume", "restart"} THEN ToPatch(fd, d.action, d.next)
        ELSE ToAnnotate(fd, d.next)
----------------------------------------------------------------------------
(* The controller *)

\* Reconcile up to its first write, for a deployment with a valid policy.
Reconcile ==
    LET fd == Cached
        p  == fd.policy
    IN  /\ tick.pc = "idle"
        /\ p # NoPolicy
        /\ p.valid
        /\ \E prev \in Learned(p, fd, Load(fd)) : \E obs \in Observations(p, prev) :
              LET d == Decide(p, prev, Live(fd), obs, now)
              IN  /\ Faulty(p, obs) => used.faults < MaxFaults
                  /\ used' = [used EXCEPT !.faults = IF Faulty(p, obs) THEN @ + 1 ELSE @]
                  /\ tick' = Act(fd, prev, IF DryRun \/ p.dryRun THEN Shadow(prev, d) ELSE d)
        /\ UNCHANGED <<now, obj, stale, cm, source, history>>

\* refuseInvalidPolicy: says why, once.
RefuseInvalidPolicy ==
    LET fd   == Cached
        prev == Load(fd)
    IN  /\ tick.pc = "idle"
        /\ fd.policy # NoPolicy
        /\ ~fd.policy.valid
        /\ prev.reason # "invalid policy"
        /\ tick' = ToAnnotate(fd, Because(prev, "invalid policy"))
        /\ UNCHANGED <<now, obj, stale, cm, source, used, history>>

\* Mutant of Release: does not wait for the savepoint.
ReleaseEager ==
    LET fd   == Cached
        ours == fd.mark = "suspended" /\ fd.specJobState = "suspended" /\ ~DryRun
    IN  /\ tick.pc = "idle"
        /\ fd.policy = NoPolicy
        /\ fd.mark # "none"
        /\ tick' = ToPatch(fd, IF ours THEN "resume" ELSE "annotate", NoMemory)
        /\ UNCHANGED <<now, obj, stale, cm, source, used, history>>

\* release: the policy is gone. What we suspended is resumed once the operator is done
\* with it, and our traces are removed.
Release ==
    LET fd   == Cached
        ours == fd.mark = "suspended" /\ fd.specJobState = "suspended" /\ ~DryRun
    IN  /\ tick.pc = "idle"
        /\ fd.policy = NoPolicy
        /\ fd.mark # "none"
        /\ ours => fd.lifecycle = "SUSPENDED"
        /\ tick' = ToPatch(fd, IF ours THEN "resume" ELSE "annotate", NoMemory)
        /\ UNCHANGED <<now, obj, stale, cm, source, used, history>>

\* History of what the controller wrote; no part of the program reads it.
Record(o) ==
    LET flips    == o.specJobState # obj.specJobState
        restarts == o.restartNonce # obj.restartNonce
    IN  /\ setBy' = IF flips THEN "siesta" ELSE setBy
        /\ startedAt' = IF restarts \/ (flips /\ o.specJobState = "running") THEN tick.at ELSE startedAt
        /\ restarted' = IF restarts
                        THEN restarted \cup {[nonce |-> o.restartNonce,
                                              window |-> tick.next.restarts.windowStart]}
                        ELSE restarted

\* The merge patch reaches the API server with the resourceVersion of the version read.
\* Writing what is already there makes no new version.
Apply ==
    LET o == Merged(obj, tick.write, tick.next)
    IN  /\ IF o = obj THEN UNCHANGED <<obj, stale>> ELSE Update(o)
        /\ tick' = [tick EXCEPT !.pc = "save"]
        /\ Record(o)

\* Mutant of Patch: no resourceVersion in the patch.
PatchUnconditional ==
    /\ tick.pc = "patch"
    /\ Apply
    /\ UNCHANGED <<now, cm, source, used>>

Patch ==
    /\ tick.pc = "patch"
    /\ \/ tick.current /\ Apply
       \/ ~tick.current /\ tick' = [tick EXCEPT !.pc = "conflict"]
                        /\ UNCHANGED <<obj, stale, history>>
    /\ UNCHANGED <<now, cm, source, used>>

\* Mutant of ReadFresh: the retry does not ask whether spec.job.state is still the same.
ReadFreshUnchecked ==
    /\ tick.pc = "conflict"
    /\ tick' = [tick EXCEPT !.pc = "retry", !.current = TRUE]
    /\ UNCHANGED <<now, obj, stale, cm, source, used, history>>

\* After a conflict: read the object itself and try once more, unless spec.job.state is
\* not what the decision was made on.
ReadFresh ==
    /\ tick.pc = "conflict"
    /\ tick' = IF obj.specJobState = tick.was
               THEN [tick EXCEPT !.pc = "retry", !.current = TRUE]
               ELSE Idle
    /\ UNCHANGED <<now, obj, stale, cm, source, used, history>>

RetryPatch ==
    /\ tick.pc = "retry"
    /\ \/ tick.current /\ Apply
       \/ ~tick.current /\ tick' = Idle /\ UNCHANGED <<obj, stale, history>>
    /\ UNCHANGED <<now, cm, source, used>>

\* Store.Save, or Store.Delete at the end of a release.
Save ==
    /\ tick.pc = "save"
    /\ cm' = tick.next
    /\ tick' = Idle
    /\ UNCHANGED <<now, obj, stale, source, used, history>>

\* A call fails or the process dies: the tick ends where it is.
Abort ==
    /\ tick.pc # "idle"
    /\ used.faults < MaxFaults
    /\ used' = [used EXCEPT !.faults = @ + 1]
    /\ tick' = Idle
    /\ UNCHANGED <<now, obj, stale, cm, source, history>>

Controller == Reconcile \/ RefuseInvalidPolicy \/ Release \/ Patch \/ ReadFresh
              \/ RetryPatch \/ Save
----------------------------------------------------------------------------
(* The informer and the clock *)

Deliver ==
    /\ stale # <<>>
    /\ stale' = Tail(stale)
    /\ UNCHANGED <<now, obj, cm, tick, source, used, history>>

TimePasses ==
    /\ now < MaxTime
    /\ now' = now + 1
    /\ UNCHANGED <<obj, stale, cm, tick, source, used, history>>
----------------------------------------------------------------------------
(* The Flink operator and the job it runs *)

Report(o) == Update(o) /\ Overtaken /\ UNCHANGED <<now, cm, source, history>>

\* spec.job.state suspended: the savepoint is taken and the pods are gone.
OperatorSuspends ==
    /\ obj.specJobState = "suspended"
    /\ obj.lifecycle # "SUSPENDED"
    /\ Report([obj EXCEPT !.lifecycle = "SUSPENDED", !.job = "FINISHED", !.unrecoverable = FALSE])
    /\ UNCHANGED used

\* A resumed job, or a new restartNonce.
OperatorStarts ==
    /\ obj.specJobState = "running"
    /\ obj.lifecycle # "UPGRADING"
    /\ obj.lifecycle = "SUSPENDED" \/ obj.restartNonce # obj.lastNonce
    /\ Report([obj EXCEPT !.lifecycle = "UPGRADING", !.job = "RECONCILING",
                          !.unrecoverable = FALSE, !.lastNonce = obj.restartNonce])
    /\ UNCHANGED used

OperatorSettles ==
    /\ obj.specJobState = "running"
    /\ obj.lifecycle = "UPGRADING"
    /\ Report([obj EXCEPT !.lifecycle = "STABLE", !.job = "RUNNING"])
    /\ UNCHANGED used

\* A job that runs, restarts by itself or starts may fail.
JobFails ==
    /\ obj.specJobState = "running"
    /\ obj.lifecycle \in {"STABLE", "UPGRADING"}
    /\ used.failures < MaxFailures
    /\ used' = [used EXCEPT !.failures = @ + 1]
    /\ \E out \in Outcomes :
          Report([obj EXCEPT !.lifecycle = out.lifecycle, !.job = out.job,
                             !.unrecoverable = out.unrecoverable])

\* Flink's own restart strategy brings the job back.
JobRecovers ==
    /\ obj.specJobState = "running"
    /\ obj.lifecycle = "STABLE"
    /\ obj.job = "RESTARTING"
    /\ Report([obj EXCEPT !.job = "RUNNING"])
    /\ UNCHANGED used

Operator == OperatorSuspends \/ OperatorStarts \/ OperatorSettles \/ JobRecovers
----------------------------------------------------------------------------
(* The source *)

Produce ==
    /\ ends < MaxEnd
    /\ ends' = ends + 1
    /\ UNCHANGED <<now, obj, stale, cm, tick, consumed, committed, used, history>>

JobReads ==
    /\ obj.job = "RUNNING"
    /\ consumed < ends \/ ~committed
    /\ consumed' = ends
    /\ committed' = TRUE
    /\ UNCHANGED <<now, obj, stale, cm, tick, ends, used, history>>

\* The broker expires the offsets of a group nobody is a member of.
OffsetsExpire ==
    /\ obj.job # "RUNNING"
    /\ committed
    /\ used.faults < MaxFaults
    /\ used' = [used EXCEPT !.faults = @ + 1]
    /\ committed' = FALSE
    /\ UNCHANGED <<now, obj, stale, cm, tick, ends, consumed, history>>
----------------------------------------------------------------------------
(* Humans *)

Edit(kind, o) ==
    /\ kind \in Humans
    /\ used.edits < MaxEdits
    /\ used' = [used EXCEPT !.edits = @ + 1]
    /\ Update(o)
    /\ Overtaken
    /\ UNCHANGED <<now, cm, source>>

HumanSetsState ==
    /\ \E s \in SpecStates \ {obj.specJobState} :
          Edit("state", [obj EXCEPT !.specJobState = s, !.generation = @ + 1])
    /\ setBy' = "human"
    /\ UNCHANGED <<restarted, startedAt>>

\* A new image, or another upgrade mode.
HumanEditsSpec ==
    /\ \E u \in UpgradeModes :
          Edit("spec", [obj EXCEPT !.upgradeMode = u, !.generation = @ + 1])
    /\ UNCHANGED history

HumanRestarts ==
    /\ \E n \in HumanNonces \ {obj.restartNonce} :
          Edit("nonce", [obj EXCEPT !.restartNonce = n, !.generation = @ + 1])
    /\ UNCHANGED history

HumanSetsPolicy ==
    /\ \E p \in (Policies \cup {NoPolicy}) \ {obj.policy} : Edit("policy", [obj EXCEPT !.policy = p])
    /\ UNCHANGED history

\* The ConfigMap is deleted, or edited so that it no longer parses.
HumanLosesMemory ==
    /\ "memory" \in Humans
    /\ used.edits < MaxEdits
    /\ used' = [used EXCEPT !.edits = @ + 1]
    /\ cm # NoMemory
    /\ cm' = NoMemory
    /\ UNCHANGED <<now, obj, stale, tick, source, history>>

Human == HumanSetsState \/ HumanEditsSpec \/ HumanRestarts \/ HumanSetsPolicy \/ HumanLosesMemory
----------------------------------------------------------------------------
\* A running deployment that has just been annotated and was never seen before.
Init ==
    /\ now = 1
    /\ \E p \in Policies, u \in UpgradeModes :
          obj = [specJobState |-> "running", upgradeMode |-> u, restartNonce |-> 0,
                 generation |-> 1, policy |-> p, mark |-> "none", reason |-> "",
                 lifecycle |-> "STABLE", job |-> "RUNNING", unrecoverable |-> FALSE,
                 lastNonce |-> 0]
    /\ stale = <<>>
    /\ cm = NoMemory
    /\ tick = Idle
    /\ ends = 0 /\ consumed = 0 /\ committed = TRUE
    /\ used = [faults |-> 0, edits |-> 0, failures |-> 0]
    /\ setBy = "human" /\ restarted = {} /\ startedAt = ZeroTime

Next == \/ Controller \/ Abort
        \/ Deliver \/ TimePasses
        \/ Operator \/ JobFails
        \/ Produce \/ JobReads \/ OffsetsExpire
        \/ Human

Spec == Init /\ [][Next]_vars

\* Every deployment is requeued, the informer catches up, and the operator does its work.
Fairness == WF_vars(Controller) /\ WF_vars(Deliver) /\ WF_vars(Operator) /\ WF_vars(JobReads)

FairSpec == Spec /\ Fairness
=============================================================================
