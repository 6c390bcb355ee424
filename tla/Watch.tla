------------------------------- MODULE Watch -------------------------------
(***************************************************************************)
(* What starts a tick, for one deployment name: the informer's events and   *)
(* their predicates (SetupWithManager, predicate.go), the work queue, the    *)
(* requeue at the end of a tick, the retry after an error, and the list of   *)
(* a process that starts.  A tick is what it reads, which of its writes it   *)
(* gets done and how it ends; what it decides is left open (Decide and       *)
(* Siesta are about that), except for a release, which is modelled whole.    *)
(***************************************************************************)
EXTENDS Integers, Sequences

CONSTANTS
    Absent,         \* no deployment of that name
    OptIns,         \* how a mode annotation gets onto an existing deployment: "apply", "annotate"
    MaxLag,         \* bound: versions the informer may be behind
    MaxEdits,       \* bound: edits by humans
    MaxFaults,      \* bound: failed calls, broken watches and process restarts
    MaxGeneration   \* bound: generations the controller adds to

Marks == {"none", "active", "suspended"}

\* mode and mark are the annotations <prefix>/mode and <prefix>/state, asleep is spec.job.state,
\* done the operator's report of it.  foreign stands for the annotations outside our prefix,
\* such as the one kubectl apply keeps; rev counts the edits by humans.
Deployment == [uid: Nat, mode: BOOLEAN, mark: Marks, asleep: BOOLEAN, done: BOOLEAN,
               generation: Nat, foreign: Nat, rev: Nat]

ASSUME WatchAssumption ==
    /\ Absent \notin Deployment
    /\ OptIns \subseteq {"apply", "annotate"}
    /\ {MaxLag, MaxEdits, MaxFaults, MaxGeneration} \subseteq Nat
    /\ MaxLag > 0

VARIABLES obj,      \* the deployment in the API server
          pending,  \* the versions the informer still has to deliver, the last one obj
          cache,    \* the version it delivered last: what r.Get returns
          queue,    \* the work queue's view of the deployment
          tick,     \* the reconcile in progress
          held,     \* the process holds something for the deployment: memo, Seen, metrics
          memory,   \* the UID that owns the ConfigMap, 0 when there is none
          read,     \* history: the latest edit a tick has read
          used

vars == <<obj, pending, cache, queue, tick, held, memory, read, used>>

IdleTick == [pc |-> "idle", fd |-> Absent, spec |-> "keep", mark |-> "none"]

TickType == [pc: {"idle", "patch", "save", "delete"}, fd: Deployment \cup {Absent},
             spec: {"keep", "running", "suspended"}, mark: Marks]
----------------------------------------------------------------------------
(* Predicates *)

\* Mutant of Ours: a release that is not finished is left.
OursByMode(o) == o.mode

\* ours in SetupWithManager: a policy, or a release that is not finished.
Ours(o) == o.mode \/ o.mark # "none"

\* flink.Live as far as it can change here.  A recreated deployment runs another job.
Live(o) == <<o.asleep, o.done, o.uid, o.generation>>

\* Mutant of ChangedOutside: a changed spec is all that counts.
ChangedSpec(old, new) == old.generation # new.generation

\* changedOutside: the generation, the fields the decider reads, or annotations that are not ours.
ChangedOutside(old, new) == Live(old) # Live(new) \/ old.foreign # new.foreign

\* Mutant of Passes: a deletion needs no tick.
PassesLiving(old, new) ==
    /\ new # Absent
    /\ IF old = Absent THEN Ours(new) ELSE (Ours(old) \/ Ours(new)) /\ ChangedOutside(old, new)

\* hasPolicy and relevantChange together, for the create, delete and update events.
Passes(old, new) ==
    IF new = Absent THEN old # Absent /\ Ours(old)
    ELSE IF old = Absent THEN Ours(new)
    ELSE (Ours(old) \/ Ours(new)) /\ ChangedOutside(old, new)
----------------------------------------------------------------------------
(* API server and informer *)

\* A write makes a version for the informer to deliver.
Write(o) ==
    /\ Len(pending) < MaxLag
    /\ obj' = o
    /\ pending' = Append(pending, o)

Notify(old, new) == queue' = [queue EXCEPT !.dirty = @ \/ Passes(old, new)]

Deliver ==
    /\ pending # <<>>
    /\ cache' = Head(pending)
    /\ pending' = Tail(pending)
    /\ Notify(cache, Head(pending))
    /\ UNCHANGED <<obj, tick, held, memory, read, used>>

Fault ==
    /\ used.faults < MaxFaults
    /\ used' = [used EXCEPT !.faults = @ + 1]

\* The watch breaks and the list that follows shows only the last of several versions.
Relist ==
    /\ Len(pending) > 1
    /\ Fault
    /\ cache' = obj
    /\ pending' = <<>>
    /\ Notify(cache, obj)
    /\ UNCHANGED <<obj, tick, held, memory, read>>

\* The process dies; the one that follows lists every deployment it finds.
ProcessRestarts ==
    /\ Fault
    /\ cache' = obj
    /\ pending' = <<>>
    /\ queue' = [dirty |-> obj # Absent /\ Passes(Absent, obj), timer |-> FALSE, retry |-> FALSE]
    /\ tick' = IdleTick
    /\ held' = FALSE
    /\ UNCHANGED <<obj, memory, read>>

\* RequeueAfter is over: a poll interval, in which the informer has caught up.
TimerFires ==
    /\ queue.timer
    /\ pending = <<>>
    /\ queue' = [queue EXCEPT !.timer = FALSE, !.dirty = TRUE]
    /\ UNCHANGED <<obj, pending, cache, tick, held, memory, read, used>>

\* The rate limiter's delay is over, which may be a few milliseconds.
RetryFires ==
    /\ queue.retry
    /\ queue' = [queue EXCEPT !.retry = FALSE, !.dirty = TRUE]
    /\ UNCHANGED <<obj, pending, cache, tick, held, memory, read, used>>
----------------------------------------------------------------------------
(* One tick: Reconcile *)

Later(n, rev) == IF rev > n THEN rev ELSE n

Start ==
    /\ tick.pc = "idle"
    /\ queue.dirty

\* The deployment is gone: forget drops what the process holds for it.
Forget ==
    /\ Start
    /\ cache = Absent
    /\ queue' = [queue EXCEPT !.dirty = FALSE]
    /\ held' = FALSE
    /\ UNCHANGED <<obj, pending, cache, tick, memory, read, used>>

\* Mutant of Phase: the mark is left as it is.
PhaseUnmarked(fd) == fd.mark

\* The phase a decision that changes nothing writes.
Phase(fd) == IF fd.asleep /\ fd.mark = "suspended" THEN "suspended" ELSE "active"

\* What a decision may write: a suspend of a running job, a resume of one we suspended and the
\* operator has reported as done, or the annotations, which are not written twice.
Decisions(fd) ==
    {[pc |-> IF fd.mark = Phase(fd) THEN "save" ELSE "patch", fd |-> fd, spec |-> "keep",
      mark |-> Phase(fd)]}
    \cup (IF ~fd.asleep /\ fd.generation < MaxGeneration
          THEN {[pc |-> "patch", fd |-> fd, spec |-> "suspended", mark |-> "suspended"]} ELSE {})
    \cup (IF fd.asleep /\ fd.mark = "suspended" /\ fd.done /\ fd.generation < MaxGeneration
          THEN {[pc |-> "patch", fd |-> fd, spec |-> "running", mark |-> "active"]} ELSE {})

\* Load, observe and decide, for a deployment with a policy.
Reconcile ==
    /\ Start
    /\ cache # Absent
    /\ cache.mode
    /\ queue' = [queue EXCEPT !.dirty = FALSE]
    /\ tick' \in Decisions(cache)
    /\ held' = TRUE
    /\ read' = Later(read, cache.rev)
    /\ UNCHANGED <<obj, pending, cache, memory, used>>

ReleaseTick(fd, spec) == [pc |-> "patch", fd |-> fd, spec |-> spec, mark |-> "none"]

\* release: nothing to do without our mark; a suspend in flight is waited for, a poll at a time;
\* else the job is woken, or the annotations are cleared.
Release ==
    LET ours == cache.mark = "suspended" /\ cache.asleep
    IN  /\ Start
        /\ cache # Absent
        /\ ~cache.mode
        /\ queue' = [queue EXCEPT !.dirty = FALSE, !.timer = @ \/ (ours /\ ~cache.done)]
        /\ tick' = IF cache.mark = "none" \/ (ours /\ ~cache.done) THEN IdleTick
                   ELSE ReleaseTick(cache, IF ours THEN "running" ELSE "keep")
        /\ read' = Later(read, cache.rev)
        /\ UNCHANGED <<obj, pending, cache, held, memory, used>>

\* The object after the patch.
Patched(o) ==
    LET asleep == IF tick.spec = "keep" THEN o.asleep ELSE tick.spec = "suspended"
    IN  [o EXCEPT !.asleep = asleep, !.mark = tick.mark,
                  !.generation = IF asleep # o.asleep THEN @ + 1 ELSE @]

\* An error: controller-runtime tries again, rate limited.
Retry ==
    /\ queue' = [queue EXCEPT !.retry = TRUE]
    /\ tick' = IdleTick

\* patcher.merge, its retry after a conflict included: the patch lands, also on a version the
\* tick has not read, unless spec.job.state is another or the deployment is gone.
Patch ==
    /\ tick.pc = "patch"
    /\ IF obj # Absent /\ obj.asleep = tick.fd.asleep
       THEN /\ IF Patched(obj) = obj THEN UNCHANGED <<obj, pending>> ELSE Write(Patched(obj))
            /\ tick' = [tick EXCEPT !.pc = IF tick.mark = "none" THEN "delete" ELSE "save"]
            /\ UNCHANGED queue
       ELSE Retry /\ UNCHANGED <<obj, pending>>
    /\ UNCHANGED <<cache, held, memory, read, used>>

\* Mutant of Save: the tick ends without a requeue.
SaveAndRest ==
    /\ tick.pc = "save"
    /\ memory' = tick.fd.uid
    /\ tick' = IdleTick
    /\ UNCHANGED <<obj, pending, cache, queue, held, read, used>>

\* Store.Save, and the requeue that keeps the deployment polled.
Save ==
    /\ tick.pc = "save"
    /\ memory' = tick.fd.uid
    /\ queue' = [queue EXCEPT !.timer = TRUE]
    /\ tick' = IdleTick
    /\ UNCHANGED <<obj, pending, cache, held, read, used>>

\* Mutant of Delete: the ConfigMap stays.
ForgetOnly ==
    /\ tick.pc = "delete"
    /\ held' = FALSE
    /\ tick' = IdleTick
    /\ UNCHANGED <<obj, pending, cache, queue, memory, read, used>>

\* The end of a release: Store.Delete and forget.  The deployment is not requeued.
Delete ==
    /\ tick.pc = "delete"
    /\ memory' = 0
    /\ held' = FALSE
    /\ tick' = IdleTick
    /\ UNCHANGED <<obj, pending, cache, queue, read, used>>

CallFails ==
    /\ tick.pc # "idle"
    /\ Fault
    /\ Retry
    /\ UNCHANGED <<obj, pending, cache, held, memory, read>>

Tick == Forget \/ Reconcile \/ Release \/ Patch \/ Save \/ Delete
----------------------------------------------------------------------------
(* The operator, the garbage collector and humans *)

OperatorReports ==
    /\ obj # Absent
    /\ obj.done # obj.asleep
    /\ Write([obj EXCEPT !.done = obj.asleep])
    /\ UNCHANGED <<cache, queue, tick, held, memory, read, used>>

CollectGarbage ==
    /\ memory # 0
    /\ obj # Absent => obj.uid # memory
    /\ memory' = 0
    /\ UNCHANGED <<obj, pending, cache, queue, tick, held, read, used>>

Edit(o) ==
    /\ used.edits < MaxEdits
    /\ used' = [used EXCEPT !.edits = @ + 1]
    /\ Write(IF o = Absent THEN o ELSE [o EXCEPT !.rev = used.edits + 1])
    /\ UNCHANGED <<cache, queue, tick, held, memory, read>>

\* kubectl annotate changes keys under our prefix only: another idle-after, or no mode any more.
EditPolicy == obj # Absent /\ obj.mode /\ \E m \in BOOLEAN : Edit([obj EXCEPT !.mode = m])

OptIn ==
    /\ obj # Absent
    /\ ~obj.mode
    /\ \E way \in OptIns :
          Edit([obj EXCEPT !.mode = TRUE, !.foreign = IF way = "apply" THEN @ + 1 ELSE @])

\* An upgrade.  spec.job.state set by hand is a subject of Siesta.
EditSpec == obj # Absent /\ Edit([obj EXCEPT !.generation = @ + 1])

DeleteDeployment == obj # Absent /\ Edit(Absent)

Created(uid, mode) ==
    [uid |-> uid, mode |-> mode, mark |-> "none", asleep |-> FALSE, done |-> FALSE,
     generation |-> 1, foreign |-> 0, rev |-> 0]

CreateDeployment ==
    /\ obj = Absent
    /\ \E m \in BOOLEAN : Edit(Created(used.edits + 2, m))

Human == EditPolicy \/ OptIn \/ EditSpec \/ DeleteDeployment \/ CreateDeployment
----------------------------------------------------------------------------
\* A process that has just listed one deployment.
Init ==
    /\ \E m \in BOOLEAN : obj = Created(1, m)
    /\ pending = <<>>
    /\ cache = obj
    /\ queue = [dirty |-> obj.mode, timer |-> FALSE, retry |-> FALSE]
    /\ tick = IdleTick
    /\ held = FALSE /\ memory = 0 /\ read = 0
    /\ used = [edits |-> 0, faults |-> 0]

Next == \/ Deliver \/ Relist \/ ProcessRestarts \/ TimerFires \/ RetryFires
        \/ Tick \/ CallFails
        \/ OperatorReports \/ CollectGarbage
        \/ Human

Spec == Init /\ [][Next]_vars

\* The queue hands out what is in it, timers run out, the informer catches up, the operator
\* reports, and the garbage collector collects.
FairSpec ==
    /\ Spec
    /\ WF_vars(Tick) /\ WF_vars(TimerFires) /\ WF_vars(RetryFires) /\ WF_vars(Deliver)
    /\ WF_vars(OperatorReports) /\ WF_vars(CollectGarbage)
----------------------------------------------------------------------------
\* Every edit of a deployment with a policy is read by a tick in the end, edits of the policy
\* annotations included, for which no event comes (predicate.go; "the periodic requeue already
\* drives the poll"), past broken watches, failed calls and restarts of the process.
EditIsRead ==
    \A n \in 1..MaxEdits :
        (obj # Absent /\ obj.mode /\ obj.rev >= n)
            ~> (read >= n \/ obj = Absent \/ ~obj.mode)

\* The versions the informer has delivered last and has still to deliver, oldest first.
Version(i) == IF i = 0 THEN cache ELSE pending[i]

TypeOK ==
    /\ obj \in Deployment \cup {Absent} /\ cache \in Deployment \cup {Absent}
    /\ pending \in Seq(Deployment \cup {Absent})
    /\ queue \in [dirty: BOOLEAN, timer: BOOLEAN, retry: BOOLEAN]
    /\ tick \in TickType
    /\ held \in BOOLEAN /\ memory \in Nat /\ read \in Nat
    /\ used \in [edits: Nat, faults: Nat]

\* Foreign annotations only grow, and a mode that comes back has changed them.
Before(old, new) ==
    old # Absent /\ new # Absent /\ old.uid = new.uid =>
        /\ old.foreign <= new.foreign
        /\ ~old.mode /\ new.mode => old.foreign < new.foreign

VersionInv ==
    /\ Version(Len(pending)) = obj
    /\ \A i \in 0..Len(pending) : Version(i) # Absent => Version(i).uid <= used.edits + 1
    /\ \A i, j \in 0..Len(pending) : i < j => Before(Version(i), Version(j))

TickInv ==
    tick.pc # "idle" =>
        /\ tick.fd # Absent
        /\ tick.fd.mode <=> tick.mark # "none"
        /\ tick.pc = "delete" => tick.mark = "none"

\* The invariant behind Scheduled: what the predicates (changedOutside) are worth depends on the
\* order of the versions the informer still has to deliver, and a tick for a deployment with a
\* policy never ends the way a release does.
WatchInv == TypeOK /\ VersionInv /\ TickInv

\* A deployment with a policy that the informer has delivered will be visited again: it is in the
\* queue, a timer runs for it, or a tick is on its way that ends in a requeue (Reconcile, act).
Scheduled ==
    cache # Absent /\ cache.mode =>
        queue.dirty \/ queue.timer \/ queue.retry \/ (tick.pc # "idle" /\ tick.fd.mode)

\* A job asleep by our doing whose policy is removed is handed back awake (release): "once our
\* annotations are gone, nothing would ever wake it".  No event announces the removal.
ReleasedAwake ==
    (obj # Absent /\ ~obj.mode /\ obj.asleep /\ obj.mark = "suspended")
        ~> (obj = Absent \/ obj.mode \/ ~obj.asleep)

\* Our annotations and the ConfigMap go with the policy (release) where no call failed; the
\* ConfigMap only if the mode has not been applied anew meanwhile, since a release that finds the
\* annotation gone already returns early.
ReleaseCleans ==
    (obj # Absent /\ ~obj.mode)
        ~> (\/ obj = Absent \/ obj.mode \/ used.faults > 0
            \/ obj.mark = "none" /\ (memory # obj.uid \/ obj.foreign > 0))

\* The deployment was deleted, the informer has yet to deliver that, and in every version it may
\* show last before the deletion (a relist leaves versions out) the deployment is ours.
DeletedOurs ==
    /\ obj = Absent
    /\ pending # <<>>
    /\ \A i \in 0..(Len(pending) - 1) : Version(i) # Absent /\ Ours(Version(i))

\* What the process holds for a deployment that is deleted while it is ours is dropped (forget),
\* also when a tick that still reads the deployment is on its way.
GoneIsForgotten == DeletedOurs ~> (obj # Absent \/ (~held /\ cache = Absent))
=============================================================================
