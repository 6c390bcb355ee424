---------------------------- MODULE SiestaProofs ----------------------------
EXTENDS SiestaProperties, DecideProofs, FiniteSetTheorems

----------------------------------------------------------------------------
(* Types *)

\* The bounds are numbers.
LEMMA Bounds ==
    /\ MaxLag \in Nat /\ MaxTime \in Nat \ {0} /\ MaxEnd \in Nat
    /\ MaxFaults \in Nat /\ MaxEdits \in Nat /\ MaxFailures \in Nat
BY SiestaAssumption

\* The version a tick reads is an object.
LEMMA CachedType == TypeOK => Cached \in Object
BY DEF TypeOK, Cached

\* A new version keeps the versions still to deliver within MaxLag.
LEMMA UpdateType ==
    ASSUME TypeOK, NEW o \in Object, Update(o)
    PROVE  obj' \in Object /\ stale' \in Seq(Object) /\ Len(stale') <= MaxLag
<1> DEFINE s == Append(stale, obj)
<1>1. s \in Seq(Object) /\ Len(s) = Len(stale) + 1 /\ s # <<>>
  BY DEF TypeOK
<1>2. Tail(s) \in Seq(Object) /\ Len(Tail(s)) = Len(stale)
  BY <1>1
<1>3. Len(stale) <= MaxLag /\ Len(stale) \in Nat /\ MaxLag \in Nat
  BY SiestaAssumption DEF TypeOK
<1>4. QED
  BY <1>1, <1>2, <1>3 DEF Update

\* The merge patch maps objects to objects.
LEMMA MergedType ==
    ASSUME NEW o \in Object, NEW write \in Writes, NEW next \in Memory \cup {NoMemory},
           write = "restart" => next # NoMemory
    PROVE  Merged(o, write, next) \in Object
<1>1. Mark(next) \in Marks /\ Reason(next) \in Reasons
  BY DEF Mark, Reason, Marks, Phases, Reasons, Memory
<1>2. write = "restart" => next.restarts.lastNonce \in Int
  BY DEF Memory, Budget
<1> DEFINE state == CASE write = "suspend" -> "suspended" [] write = "resume" -> "running"
                      [] OTHER -> o.specJobState
           nonce == IF write = "restart" THEN next.restarts.lastNonce ELSE o.restartNonce
           edit == state # o.specJobState \/ nonce # o.restartNonce
           generation == IF edit THEN o.generation + 1 ELSE o.generation
<1>3. state \in SpecStates
  BY DEF Object, SpecStates
<1>4. nonce \in Int
  BY <1>2 DEF Object
<1> HIDE DEF state, nonce
<1>5. generation \in Nat
  BY DEF Object
<1> HIDE DEF generation
<1>6. [o EXCEPT !.specJobState = state, !.restartNonce = nonce, !.generation = generation,
                !.mark = Mark(next), !.reason = Reason(next)] \in Object
  BY <1>1, <1>3, <1>4, <1>5 DEF Object
<1>7. QED
  BY <1>6 DEF Merged, state, nonce, generation

\* Loading and repairing memory gives memory.
LEMMA LoadType ==
    ASSUME TypeOK, NEW o \in Object
    PROVE  Load(o) \in Memory
<1> DEFINE m == IF cm = NoMemory THEN Initial(now, o.restartNonce) ELSE cm
<1>1. now \in Nat /\ cm \in Memory \cup {NoMemory} /\ o.restartNonce \in Int /\ o.reason \in Reasons
  BY DEF TypeOK, Object
<1>2. Initial(now, o.restartNonce) \in Memory
  BY <1>1, InitialType
<1>3. m \in Memory
  BY <1>1, <1>2
<1> HIDE DEF m
<1>4. Repair(m, o) \in Memory
  <2>1. Phases = {"active", "suspended", "unrecoverable"} /\ ZeroTime \in Nat
        /\ "memory repaired" \in Reasons
    BY DEF Phases, Reasons, ZeroTime
  <2>2. QED
    BY <1>1, <1>3, <2>1 DEF Repair, RepairedAwake, Memory
<1>5. QED
  BY <1>4 DEF Load, m

\* A dry run keeps a well-formed decision, and never acts.
LEMMA ShadowType ==
    ASSUME NEW prev \in Memory, NEW d \in Decision
    PROVE  /\ Shadow(prev, d) \in Decision
           /\ Shadow(prev, d).action = "none"
<1>1. d.next \in Memory /\ d.action \in Actions
  BY DEF Decision
<1>2. CASE d.action = "none"
  BY <1>2 DEF Shadow
<1>3. CASE d.action # "none"
  <2>1. DryRunReason(d.action) \in Reasons
    BY <1>1, <1>3 DEF DryRunReason, Actions, Reasons
  <2>2. [d.next EXCEPT !.phase = prev.phase, !.suspendedAt = prev.suspendedAt,
                       !.awakeSince = prev.awakeSince, !.restarts = prev.restarts,
                       !.refreshWake = prev.refreshWake,
                       !.reason = DryRunReason(d.action)] \in Memory
    BY <1>1, <2>1 DEF Memory
  <2>3. QED
    BY <1>3, <2>2 DEF Shadow, Stay, Decision, Actions
<1>4. QED
  BY <1>2, <1>3

\* The tick a decision leads to is a tick that writes what the decision says.
LEMMA ActType ==
    ASSUME now \in Nat, NEW fd \in Object, NEW prev \in Memory, NEW d \in Decision
    PROVE  /\ Act(fd, prev, d) \in Tick
           /\ Act(fd, prev, d).was = fd.specJobState
           /\ Act(fd, prev, d).next = d.next
           /\ Act(fd, prev, d).pc \in {"patch", "save"}
           /\ Act(fd, prev, d).write \in {"annotate", d.action}
<1>1. d.next \in Memory /\ d.action \in Actions /\ fd.specJobState \in SpecStates
  BY DEF Decision, Object
<1>2. \A w \in Writes : ToPatch(fd, w, d.next) \in Tick
  BY <1>1 DEF ToPatch, Tick, Writes
<1>3. ToSave(fd, d.next) \in Tick
  BY <1>1 DEF ToSave, ToPatch, Tick, Writes
<1>4. QED
  BY <1>1, <1>2, <1>3 DEF Act, ToAnnotate, ToPatch, ToSave, Writes

\* What the probes answer is an observation of the source.
LEMMA ObservationType ==
    ASSUME TypeOK, NEW p, NEW m, NEW obs \in Observations(p, m)
    PROVE  obs.snapshot \in Int
<1>1. ends \in Int
  BY DEF TypeOK
<1>2. CASE p.sourcesAuto /\ ~m.learned
  BY <1>2 DEF Observations, NoSnapshot
<1>3. CASE ~(p.sourcesAuto /\ ~m.learned)
  <2>1. obs.snapshot = ends
    BY <1>3 DEF Observations
  <2>2. QED
    BY <1>1, <2>1
<1>4. QED
  BY <1>2, <1>3

\* A reconcile leaves a tick that resumes only what the version read says is suspended, done
\* by the operator, and suspends only what it says runs.
Prepared(t, fd) ==
    /\ t \in Tick
    /\ t.write = "restart" => t.next # NoMemory
    /\ t.was = fd.specJobState
    /\ t.write = "resume" => fd.specJobState = "suspended" /\ fd.lifecycle = "SUSPENDED"
    /\ t.write = "suspend" => fd.specJobState = "running"

LEMMA ReconcilePrepares ==
    ASSUME TypeOK, Reconcile
    PROVE  /\ Prepared(tick', Cached)
           /\ used' \in [faults: 0..MaxFaults, edits: 0..MaxEdits, failures: 0..MaxFailures]
<1> DEFINE fd == Cached
           p == fd.policy
<1>1. fd \in Object
  BY CachedType
<1> HIDE DEF fd
<1>2. PICK prev \in Learned(p, fd, Load(fd)) : \E obs \in Observations(p, prev) :
          LET d == Decide(p, prev, Live(fd), obs, now)
          IN  /\ Faulty(p, obs) => used.faults < MaxFaults
              /\ used' = [used EXCEPT !.faults = IF Faulty(p, obs) THEN @ + 1 ELSE @]
              /\ tick' = Act(fd, prev, IF DryRun \/ p.dryRun THEN Shadow(prev, d) ELSE d)
  BY DEF Reconcile, fd
<1>3. PICK obs \in Observations(p, prev) :
          LET d == Decide(p, prev, Live(fd), obs, now)
          IN  /\ Faulty(p, obs) => used.faults < MaxFaults
              /\ used' = [used EXCEPT !.faults = IF Faulty(p, obs) THEN @ + 1 ELSE @]
              /\ tick' = Act(fd, prev, IF DryRun \/ p.dryRun THEN Shadow(prev, d) ELSE d)
  BY <1>2
<1> DEFINE d == Decide(p, prev, Live(fd), obs, now)
           carried == IF DryRun \/ p.dryRun THEN Shadow(prev, d) ELSE d
<1>4. prev \in Memory
  <2>1. Load(fd) \in Memory
    BY <1>1, LoadType
  <2>2. QED
    BY <2>1 DEF Learned, Memory
<1>5. Sound(d, Live(fd))
  <2>1. TypedInput(prev, Live(fd), obs, now)
    BY <1>1, <1>4, ObservationType DEF TypedInput, Live, Object, TypeOK
  <2>2. Live(fd).specJobState \in {"running", "suspended"}
    BY <1>1 DEF Live, Object, SpecStates
  <2>3. QED
    BY <2>1, <2>2, DecideSound
<1> HIDE DEF d
<1>6. carried \in Decision /\ carried.action \in {"none", d.action}
  BY <1>4, <1>5, ShadowType DEF Sound
<1>7. tick' = Act(fd, prev, carried)
  BY <1>3 DEF d
<1> HIDE DEF carried
<1>8. Prepared(tick', fd)
  <2>1. /\ tick' \in Tick /\ tick'.was = fd.specJobState /\ tick'.next = carried.next
        /\ tick'.write \in {"annotate", carried.action}
    BY <1>1, <1>4, <1>6, <1>7, ActType DEF TypeOK
  <2>2. carried.next # NoMemory
    BY <1>6, SiestaAssumption DEF Decision
  <2>3. /\ d.action = "resume" => fd.specJobState = "suspended" /\ fd.lifecycle = "SUSPENDED"
        /\ d.action = "suspend" => fd.specJobState = "running"
    BY <1>5 DEF Sound, Live, SuspendDone
  <2>4. QED
    BY <1>6, <2>1, <2>2, <2>3 DEF Prepared
<1>9. used' \in [faults: 0..MaxFaults, edits: 0..MaxEdits, failures: 0..MaxFailures]
  <2>1. used \in [faults: 0..MaxFaults, edits: 0..MaxEdits, failures: 0..MaxFailures]
    BY DEF TypeOK
  <2>2. MaxFaults \in Nat
    BY SiestaAssumption
  <2> DEFINE faults == IF Faulty(p, obs) THEN used.faults + 1 ELSE used.faults
  <2>3. faults \in 0..MaxFaults
    BY <1>3, <2>1, <2>2
  <2>4. used' = [used EXCEPT !.faults = faults]
    BY <1>3
  <2> HIDE DEF faults
  <2>5. QED
    BY <2>1, <2>3, <2>4
<1>10. QED
  BY <1>8, <1>9 DEF fd

\* The same for a tick that refuses the policy, and for one that lets the deployment go.
LEMMA RefusePrepares ==
    ASSUME TypeOK, RefuseInvalidPolicy
    PROVE  Prepared(tick', Cached)
<1>1. Cached \in Object /\ Load(Cached) \in Memory
  BY CachedType, LoadType
<1>2. Because(Load(Cached), "invalid policy") \in Memory
  BY <1>1 DEF Because, Memory, Reasons
<1>3. ASSUME NEW fd \in Object, NEW m \in Memory
      PROVE  Prepared(ToAnnotate(fd, m), fd)
  <2>1. fd.specJobState \in SpecStates /\ now \in Nat
    BY DEF Object, TypeOK
  <2>2. ToPatch(fd, "annotate", m) \in Tick
    BY <2>1 DEF ToPatch, Tick, Writes
  <2>3. ToSave(fd, m) \in Tick
    BY <2>1 DEF ToSave, ToPatch, Tick, Writes
  <2>4. QED
    BY <2>2, <2>3 DEF Prepared, ToAnnotate, ToSave, ToPatch
<1>4. QED
  BY <1>1, <1>2, <1>3 DEF RefuseInvalidPolicy

LEMMA ReleasePrepares ==
    ASSUME TypeOK, Release
    PROVE  Prepared(tick', Cached)
<1>1. Cached \in Object /\ now \in Nat
  BY CachedType DEF TypeOK
<1>2. QED
  BY <1>1 DEF Release, Prepared, ToPatch, Tick, Writes, Object

\* The patch that gets through: the object, the tick and the history stay well typed.
LEMMA ApplyType ==
    ASSUME TypeOK, Apply
    PROVE  /\ obj' \in Object /\ stale' \in Seq(Object) /\ Len(stale') <= MaxLag
           /\ tick' \in Tick /\ (tick'.write = "restart" => tick'.next # NoMemory)
           /\ setBy' \in {"siesta", "human"} /\ startedAt' \in Nat
           /\ restarted' \subseteq [nonce: Int, window: Nat]
<1> DEFINE o == Merged(obj, tick.write, tick.next)
<1>1. tick \in Tick /\ (tick.write = "restart" => tick.next # NoMemory) /\ obj \in Object
  BY DEF TypeOK
<1>2. tick.write \in Writes /\ tick.next \in Memory \cup {NoMemory}
  BY <1>1 DEF Tick
<1>3. o \in Object
  BY <1>1, <1>2, MergedType
<1>4. o.restartNonce # obj.restartNonce => tick.write = "restart"
  BY <1>1 DEF Merged, Object
<1>5. tick.write = "restart" => tick.next.restarts.windowStart \in Nat
  BY <1>1, <1>2 DEF Memory, Budget
<1> HIDE DEF o
<1>6. obj' \in Object /\ stale' \in Seq(Object) /\ Len(stale') <= MaxLag
  BY <1>3, UpdateType DEF Apply, o, TypeOK
<1>7. tick' \in Tick /\ (tick'.write = "restart" => tick'.next # NoMemory)
  BY <1>1 DEF Apply, Tick
<1>8. Record(o)
  BY DEF Apply, o
<1>9. setBy' \in {"siesta", "human"} /\ startedAt' \in Nat
  BY <1>1, <1>8 DEF Record, TypeOK, Tick
<1>10. restarted' \subseteq [nonce: Int, window: Nat]
  <2>1. o.restartNonce \in Int
    BY <1>3 DEF Object
  <2>2. restarted \subseteq [nonce: Int, window: Nat]
    BY DEF TypeOK
  <2>3. CASE o.restartNonce = obj.restartNonce
    BY <1>8, <2>2, <2>3 DEF Record
  <2>4. CASE o.restartNonce # obj.restartNonce
    <3> DEFINE r == [nonce |-> o.restartNonce, window |-> tick.next.restarts.windowStart]
    <3>1. r \in [nonce: Int, window: Nat]
      BY <1>4, <1>5, <2>1, <2>4
    <3>2. restarted' = restarted \cup {r}
      BY <1>8, <2>4 DEF Record
    <3> HIDE DEF r
    <3>3. QED
      BY <2>2, <3>1, <3>2
  <2>5. QED
    BY <2>3, <2>4
<1>11. QED
  BY <1>6, <1>7, <1>9, <1>10

\* A write by the operator or by a human that leaves a well-typed object.
LEMMA ForeignType ==
    ASSUME TypeOK, NEW o \in Object, Update(o), Overtaken
    PROVE  /\ obj' \in Object /\ stale' \in Seq(Object) /\ Len(stale') <= MaxLag
           /\ tick' \in Tick /\ (tick'.write = "restart" => tick'.next # NoMemory)
<1>1. obj' \in Object /\ stale' \in Seq(Object) /\ Len(stale') <= MaxLag
  BY UpdateType
<1>2. tick' \in Tick /\ (tick'.write = "restart" => tick'.next # NoMemory)
  BY DEF TypeOK, Overtaken, Tick
<1>3. QED
  BY <1>1, <1>2

\* The tick between two reconciles.
LEMMA IdleType == Idle \in Tick /\ Idle.write # "restart"
BY DEF Idle, Tick, Writes, SpecStates, ZeroTime

\* Initially everything has its type.
LEMMA TypeInit == Init => TypeOK
<1> SUFFICES ASSUME Init PROVE TypeOK
  OBVIOUS
<1>1. PICK p \in Policies, u \in UpgradeModes :
          obj = [specJobState |-> "running", upgradeMode |-> u, restartNonce |-> 0,
                 generation |-> 1, policy |-> p, mark |-> "none", reason |-> "",
                 lifecycle |-> "STABLE", job |-> "RUNNING", unrecoverable |-> FALSE,
                 lastNonce |-> 0]
  BY DEF Init
<1>2. obj \in Object
  <2>1. u \in {"savepoint", "last-state", "stateless"}
    BY SiestaAssumption
  <2>2. "running" \in SpecStates /\ "none" \in Marks /\ "" \in Reasons
        /\ "STABLE" \in Lifecycles /\ "RUNNING" \in JobStates
    BY DEF SpecStates, Marks, Reasons, Lifecycles, JobStates
  <2>3. p \in Policies \cup {NoPolicy} /\ 0 \in Int /\ 1 \in Nat /\ FALSE \in BOOLEAN
    OBVIOUS
  <2>4. QED
    BY <1>1, <2>1, <2>2, <2>3 DEF Object
<1>3. /\ now = 1 /\ stale = <<>> /\ cm = NoMemory /\ tick = Idle
      /\ ends = 0 /\ consumed = 0 /\ committed = TRUE
      /\ used = [faults |-> 0, edits |-> 0, failures |-> 0]
      /\ setBy = "human" /\ restarted = {} /\ startedAt = 0
  BY DEF Init, ZeroTime
<1>4. now \in 1..MaxTime /\ ends \in 0..MaxEnd /\ consumed \in 0..ends /\ committed \in BOOLEAN
  BY <1>3, Bounds
<1>5. stale \in Seq(Object) /\ Len(stale) <= MaxLag
  BY <1>3, Bounds
<1>6. tick \in Tick /\ tick.write # "restart"
  BY <1>3, IdleType
<1>7. used \in [faults: 0..MaxFaults, edits: 0..MaxEdits, failures: 0..MaxFailures]
  BY <1>3, Bounds
<1>8. /\ cm \in Memory \cup {NoMemory} /\ setBy \in {"siesta", "human"}
      /\ startedAt \in Nat
      /\ restarted \subseteq [nonce: Int, window: Nat]
  BY <1>3
<1>9. QED
  BY <1>2, <1>4, <1>5, <1>6, <1>7, <1>8 DEF TypeOK

\* A human's edit of the spec leaves an object.
LEMMA EditedType ==
    ASSUME NEW o \in Object
    PROVE  /\ \A s \in SpecStates : [o EXCEPT !.specJobState = s, !.generation = @ + 1] \in Object
           /\ \A u \in UpgradeModes : [o EXCEPT !.upgradeMode = u, !.generation = @ + 1] \in Object
           /\ \A n \in HumanNonces : [o EXCEPT !.restartNonce = n, !.generation = @ + 1] \in Object
<1> DEFINE next == o.generation + 1
<1>1. next \in Nat
  BY DEF Object
<1> HIDE DEF next
<1>2. /\ \A u \in UpgradeModes : u \in {"savepoint", "last-state", "stateless"}
      /\ \A n \in HumanNonces : n \in Int
  BY SiestaAssumption
<1>3. \A s \in SpecStates : [o EXCEPT !.specJobState = s, !.generation = next] \in Object
  BY <1>1 DEF Object
<1>4. \A u \in UpgradeModes : [o EXCEPT !.upgradeMode = u, !.generation = next] \in Object
  BY <1>1, <1>2 DEF Object
<1>5. \A n \in HumanNonces : [o EXCEPT !.restartNonce = n, !.generation = next] \in Object
  BY <1>1, <1>2 DEF Object
<1>6. QED
  BY <1>3, <1>4, <1>5 DEF next

\* Every step keeps the types.
LEMMA TypeNext == TypeOK /\ [Next]_vars => TypeOK'
<1> SUFFICES ASSUME TypeOK, [Next]_vars PROVE TypeOK'
  OBVIOUS
<1> DEFINE UsedType == [faults: 0..MaxFaults, edits: 0..MaxEdits, failures: 0..MaxFailures]
<1>t. used \in UsedType /\ obj \in Object /\ tick \in Tick
  BY DEF TypeOK
\* The tick of the object's own writers, once their object is known to be one.
<1>f. ASSUME NEW o \in Object, Update(o), Overtaken, UNCHANGED <<now, cm, source>>,
             used' \in UsedType, setBy' \in {"siesta", "human"},
             UNCHANGED <<restarted, startedAt>>
      PROVE  TypeOK'
  BY <1>f, ForeignType DEF TypeOK, source
<1>r. ASSUME NEW o \in Object, Report(o), used' \in UsedType PROVE TypeOK'
  BY <1>r, <1>f DEF Report, history, TypeOK
<1>e. ASSUME used.edits < MaxEdits, used' = [used EXCEPT !.edits = @ + 1] PROVE used' \in UsedType
  BY <1>t, <1>e, Bounds
<1>1. CASE Reconcile
  BY <1>1, ReconcilePrepares DEF Reconcile, Prepared, TypeOK, source, history
<1>2. CASE RefuseInvalidPolicy
  BY <1>2, RefusePrepares DEF RefuseInvalidPolicy, Prepared, TypeOK, source, history
<1>3. CASE Release
  BY <1>3, ReleasePrepares DEF Release, Prepared, TypeOK, source, history
<1>4. CASE Patch
  <2>1. CASE Apply
    BY <1>4, <2>1, ApplyType DEF Patch, TypeOK, source
  <2>2. CASE tick' = [tick EXCEPT !.pc = "conflict"] /\ UNCHANGED <<obj, stale, history>>
    BY <1>4, <2>2 DEF Patch, TypeOK, Tick, source, history
  <2>3. QED
    BY <1>4, <2>1, <2>2 DEF Patch
<1>5. CASE ReadFresh
  <2>1. tick' \in Tick /\ (tick'.write = "restart" => tick'.next # NoMemory)
    BY <1>5, IdleType DEF ReadFresh, TypeOK, Tick
  <2>2. QED
    BY <1>5, <2>1 DEF ReadFresh, TypeOK, source, history
<1>6. CASE RetryPatch
  <2>1. CASE Apply
    BY <1>6, <2>1, ApplyType DEF RetryPatch, TypeOK, source
  <2>2. CASE tick' = Idle /\ UNCHANGED <<obj, stale, history>>
    BY <1>6, <2>2, IdleType DEF RetryPatch, TypeOK, source, history
  <2>3. QED
    BY <1>6, <2>1, <2>2 DEF RetryPatch
<1>7. CASE Save
  <2>1. tick.next \in Memory \cup {NoMemory}
    BY <1>t DEF Tick
  <2>2. QED
    BY <1>7, <2>1, IdleType DEF Save, TypeOK, source, history
<1>8. CASE Abort
  <2>1. used' \in UsedType
    BY <1>8, <1>t, Bounds DEF Abort
  <2>2. QED
    BY <1>8, <2>1, IdleType DEF Abort, TypeOK, source, history
<1>9. CASE Deliver
  <2>1. Tail(stale) \in Seq(Object) /\ Len(Tail(stale)) <= MaxLag
    BY <1>9, Bounds DEF Deliver, TypeOK
  <2>2. QED
    BY <1>9, <2>1 DEF Deliver, TypeOK, source, history
<1>10. CASE TimePasses
  <2>1. now' \in 1..MaxTime
    BY <1>10, Bounds DEF TimePasses, TypeOK
  <2>2. QED
    BY <1>10, <2>1 DEF TimePasses, TypeOK, source, history
<1>11. CASE OperatorSuspends
  <2>1. [obj EXCEPT !.lifecycle = "SUSPENDED", !.job = "FINISHED", !.unrecoverable = FALSE] \in Object
    BY <1>t DEF Object, Lifecycles, JobStates
  <2>2. QED
    BY <1>11, <2>1, <1>r, <1>t DEF OperatorSuspends
<1>12. CASE OperatorStarts
  <2>1. [obj EXCEPT !.lifecycle = "UPGRADING", !.job = "RECONCILING",
                    !.unrecoverable = FALSE, !.lastNonce = obj.restartNonce] \in Object
    BY <1>t DEF Object, Lifecycles, JobStates
  <2>2. QED
    BY <1>12, <2>1, <1>r, <1>t DEF OperatorStarts
<1>13. CASE OperatorSettles
  <2>1. [obj EXCEPT !.lifecycle = "STABLE", !.job = "RUNNING"] \in Object
    BY <1>t DEF Object, Lifecycles, JobStates
  <2>2. QED
    BY <1>13, <2>1, <1>r, <1>t DEF OperatorSettles
<1>14. CASE JobRecovers
  <2>1. [obj EXCEPT !.job = "RUNNING"] \in Object
    BY <1>t DEF Object, JobStates
  <2>2. QED
    BY <1>14, <2>1, <1>r, <1>t DEF JobRecovers
<1>15. CASE JobFails
  <2>1. used' \in UsedType
    BY <1>15, <1>t, Bounds DEF JobFails
  <2>2. PICK out \in Outcomes :
            Report([obj EXCEPT !.lifecycle = out.lifecycle, !.job = out.job,
                               !.unrecoverable = out.unrecoverable])
    BY <1>15 DEF JobFails
  <2>3. out \in OutcomeType
    BY SiestaAssumption
  <2>4. [obj EXCEPT !.lifecycle = out.lifecycle, !.job = out.job,
                    !.unrecoverable = out.unrecoverable] \in Object
    BY <1>t, <2>3 DEF Object, OutcomeType
  <2>5. QED
    BY <2>1, <2>2, <2>4, <1>r
<1>16. CASE Produce
  <2>1. ends' \in 0..MaxEnd /\ consumed' \in 0..ends'
    BY <1>16, Bounds DEF Produce, TypeOK
  <2>2. QED
    BY <1>16, <2>1 DEF Produce, TypeOK, history
<1>17. CASE JobReads
  <2>1. consumed' \in 0..ends' /\ ends' = ends /\ committed' = TRUE
    BY <1>17 DEF JobReads, TypeOK
  <2>2. QED
    BY <1>17, <2>1 DEF JobReads, TypeOK, history
<1>18. CASE OffsetsExpire
  <2>1. used' \in UsedType
    BY <1>18, <1>t, Bounds DEF OffsetsExpire
  <2>2. QED
    BY <1>18, <2>1 DEF OffsetsExpire, TypeOK, history
<1>19. CASE HumanSetsState
  <2>1. PICK st \in SpecStates :
            Edit("state", [obj EXCEPT !.specJobState = st, !.generation = @ + 1])
    BY <1>19 DEF HumanSetsState
  <2>2. setBy' \in {"siesta", "human"} /\ UNCHANGED <<restarted, startedAt>>
    BY <1>19 DEF HumanSetsState, TypeOK
  <2>3. QED
    BY <2>1, <2>2, <1>e, <1>f, <1>t, EditedType DEF Edit
<1>20. CASE HumanEditsSpec
  <2>1. PICK u \in UpgradeModes :
            Edit("spec", [obj EXCEPT !.upgradeMode = u, !.generation = @ + 1])
    BY <1>20 DEF HumanEditsSpec
  <2>2. setBy' \in {"siesta", "human"} /\ UNCHANGED <<restarted, startedAt>>
    BY <1>20 DEF HumanEditsSpec, history, TypeOK
  <2>3. QED
    BY <2>1, <2>2, <1>e, <1>f, <1>t, EditedType DEF Edit
<1>21. CASE HumanRestarts
  <2>1. PICK n \in HumanNonces :
            Edit("nonce", [obj EXCEPT !.restartNonce = n, !.generation = @ + 1])
    BY <1>21 DEF HumanRestarts
  <2>2. setBy' \in {"siesta", "human"} /\ UNCHANGED <<restarted, startedAt>>
    BY <1>21 DEF HumanRestarts, history, TypeOK
  <2>3. QED
    BY <2>1, <2>2, <1>e, <1>f, <1>t, EditedType DEF Edit
<1>22. CASE HumanSetsPolicy
  <2>1. PICK p \in Policies \cup {NoPolicy} : Edit("policy", [obj EXCEPT !.policy = p])
    BY <1>22 DEF HumanSetsPolicy
  <2>2. [obj EXCEPT !.policy = p] \in Object
    BY <1>t DEF Object
  <2>3. setBy' \in {"siesta", "human"} /\ UNCHANGED <<restarted, startedAt>>
    BY <1>22 DEF HumanSetsPolicy, Edit, history, TypeOK
  <2>4. QED
    BY <2>1, <2>2, <2>3, <1>e, <1>f DEF Edit
<1>23. CASE HumanLosesMemory
  <2>1. used' \in UsedType
    BY <1>23, <1>e DEF HumanLosesMemory
  <2>2. QED
    BY <1>23, <2>1 DEF HumanLosesMemory, TypeOK, source, history
<1>24. CASE UNCHANGED vars
  BY <1>24 DEF vars, source, history, TypeOK
<1>25. QED
  BY <1>1, <1>2, <1>3, <1>4, <1>5, <1>6, <1>7, <1>8, <1>9, <1>10, <1>11, <1>12, <1>13, <1>14,
     <1>15, <1>16, <1>17, <1>18, <1>19, <1>20, <1>21, <1>22, <1>23, <1>24
     DEF Next, Controller, Operator, Human

\* The types of every variable, whatever the policies, the bounds and what humans do.
THEOREM TypeCorrect == Spec => []TypeOK
BY TypeInit, TypeNext, PTL DEF Spec

----------------------------------------------------------------------------
(* SavepointSafe.  Nobody but the controller sets spec.job.state: then the   *)
(* versions still to deliver differ from the current one by at most one      *)
(* flip, and a tick whose patch could still flip the object read it after    *)
(* the last one.                                                             *)

\* The versions to deliver after a write: the ones before it, the object it replaced, and
\* when the bound is hit one less at the front.
LEMMA UpdateShifts ==
    ASSUME TypeOK, NEW o \in Object, Update(o)
    PROVE  \E k \in {0, 1} :
              /\ Len(stale') = Len(stale) + 1 - k
              /\ \A i \in 1..Len(stale') :
                    stale'[i] = IF i + k <= Len(stale) THEN stale[i + k] ELSE obj
<1> DEFINE s == Append(stale, obj)
<1>1. stale \in Seq(Object) /\ obj \in Object /\ Len(stale) \in Nat
  BY DEF TypeOK
<1>2. s \in Seq(Object) /\ Len(s) = Len(stale) + 1
      /\ \A i \in 1..Len(s) : s[i] = IF i <= Len(stale) THEN stale[i] ELSE obj
  BY <1>1
<1>3. CASE stale' = s
  <2>1. /\ Len(stale') = Len(stale) + 1 - 0
        /\ \A i \in 1..Len(stale') :
              stale'[i] = IF i + 0 <= Len(stale) THEN stale[i + 0] ELSE obj
    BY <1>1, <1>2, <1>3
  <2>2. QED
    BY <2>1
<1>4. CASE stale' = Tail(s)
  <2>1. Len(Tail(s)) = Len(stale) /\ \A i \in 1..Len(stale) : Tail(s)[i] = s[i + 1]
    BY <1>1, <1>2
  <2>2. /\ Len(stale') = Len(stale) + 1 - 1
        /\ \A i \in 1..Len(stale') :
              stale'[i] = IF i + 1 <= Len(stale) THEN stale[i + 1] ELSE obj
    BY <1>1, <1>2, <1>4, <2>1
  <2>3. QED
    BY <2>2
<1>5. QED
  BY <1>3, <1>4 DEF Update

\* What a step may do to the tick without being the start of a new one.
Continues == Writing' => Writing /\ tick'.was = tick.was /\ tick'.write = tick.write

\* A step that leaves the object and its versions alone.
LEMMA UnmovedInv ==
    ASSUME SavepointInv, UNCHANGED <<obj, stale>>, Continues
    PROVE  SavepointInv'
BY DEF SavepointInv, FlipInv, DoneInv, Continues

\* A write that keeps spec.job.state and does not take back a finished suspend.
LEMMA KeptInv ==
    ASSUME TypeOK, SavepointInv, NEW o \in Object, Update(o), Continues,
           o.specJobState = obj.specJobState,
           obj.specJobState = "suspended" /\ obj.lifecycle = "SUSPENDED" => o.lifecycle = "SUSPENDED"
    PROVE  SavepointInv'
<1>1. Len(stale) \in Nat /\ obj' = o
  BY DEF TypeOK, Update
<1>2. PICK k \in {0, 1} :
              /\ Len(stale') = Len(stale) + 1 - k
              /\ \A i \in 1..Len(stale') :
                    stale'[i] = IF i + k <= Len(stale) THEN stale[i + k] ELSE obj
  BY UpdateShifts
<1>3. \A i \in 1..Len(stale') :
          \/ i + k \in 1..Len(stale) /\ stale'[i] = stale[i + k]
          \/ i + k > Len(stale) /\ stale'[i] = obj
  <2> SUFFICES ASSUME NEW i \in 1..Len(stale')
               PROVE  \/ i + k \in 1..Len(stale) /\ stale'[i] = stale[i + k]
                      \/ i + k > Len(stale) /\ stale'[i] = obj
    OBVIOUS
  <2>1. i \in Nat /\ i >= 1 /\ k \in Nat
    BY <1>1, <1>2
  <2>2. stale'[i] = IF i + k <= Len(stale) THEN stale[i + k] ELSE obj
    BY <1>2
  <2>3. QED
    BY <1>1, <2>1, <2>2
<1>4. ASSUME NEW i \in 1..Len(stale'), NEW j \in 1..Len(stale'), i <= j,
             stale'[i].specJobState = obj'.specJobState
      PROVE  stale'[j].specJobState = obj'.specJobState
  <2>1. CASE j + k > Len(stale)
    BY <1>1, <1>3, <2>1
  <2>2. CASE j + k <= Len(stale)
    <3>1. i + k \in 1..Len(stale) /\ j + k \in 1..Len(stale) /\ i + k <= j + k
      BY <1>1, <1>2, <1>4, <2>2
    <3>2. stale'[i] = stale[i + k] /\ stale'[j] = stale[j + k]
      BY <1>1, <1>2, <3>1
    <3>3. QED
      BY <1>1, <1>4, <3>1, <3>2 DEF SavepointInv, FlipInv
  <2>3. QED
    BY <1>1, <1>2, <2>1, <2>2
<1>5. Writing' /\ tick'.was = obj'.specJobState =>
          \A i \in 1..Len(stale') : stale'[i].specJobState = obj'.specJobState
  BY <1>1, <1>3 DEF SavepointInv, FlipInv, Continues
<1>6. ASSUME NEW i \in 1..Len(stale'), obj'.specJobState = "suspended",
             stale'[i].specJobState = "suspended", stale'[i].lifecycle = "SUSPENDED"
      PROVE  obj'.lifecycle = "SUSPENDED"
  BY <1>1, <1>3, <1>6 DEF SavepointInv, DoneInv
<1>7. Writing' /\ tick'.write = "resume" /\ obj'.specJobState = "suspended"
          => obj'.lifecycle = "SUSPENDED"
  BY <1>1 DEF SavepointInv, DoneInv, Continues
<1>8. /\ Writing' /\ tick'.write = "suspend" => tick'.was = "running"
      /\ Writing' /\ tick'.write = "resume" => tick'.was = "suspended"
  BY DEF SavepointInv, FlipInv, Continues
<1>9. QED
  BY <1>4, <1>5, <1>6, <1>7, <1>8 DEF SavepointInv, FlipInv, DoneInv

\* The start of a tick.
LEMMA PreparedInv ==
    ASSUME TypeOK, SavepointInv, UNCHANGED <<obj, stale>>, Prepared(tick', Cached)
    PROVE  SavepointInv'
<1>1. stale \in Seq(Object) /\ Len(stale) \in Nat
  BY DEF TypeOK
<1>2. CASE stale = <<>>
  BY <1>2 DEF SavepointInv, FlipInv, DoneInv, Prepared, Cached
<1>3. CASE stale # <<>>
  <2>1. 1 \in 1..Len(stale) /\ Cached = stale[1]
    BY <1>1, <1>3 DEF Cached
  <2>2. tick'.was = obj.specJobState =>
            \A i \in 1..Len(stale) : stale[i].specJobState = obj.specJobState
    BY <1>1, <2>1 DEF SavepointInv, FlipInv, Prepared
  <2>3. tick'.write = "resume" /\ obj.specJobState = "suspended" => obj.lifecycle = "SUSPENDED"
    BY <2>1 DEF SavepointInv, DoneInv, Prepared
  <2>4. /\ tick'.write = "suspend" => tick'.was = "running"
        /\ tick'.write = "resume" => tick'.was = "suspended"
    BY DEF Prepared
  <2>5. QED
    BY <2>2, <2>3, <2>4 DEF SavepointInv, FlipInv, DoneInv
<1>4. QED
  BY <1>2, <1>3

\* A patch that gets through.
LEMMA ApplyInv ==
    ASSUME TypeOK, SavepointInv, Writing, Apply
    PROVE  /\ SavepointInv'
           /\ obj.specJobState = "suspended" /\ obj'.specJobState = "running"
                 => obj.lifecycle = "SUSPENDED"
<1> DEFINE o == Merged(obj, tick.write, tick.next)
<1>1. tick \in Tick /\ obj \in Object /\ (tick.write = "restart" => tick.next # NoMemory)
  BY DEF TypeOK
<1>2. o \in Object
  BY <1>1, MergedType DEF Tick
<1>3. o.lifecycle = obj.lifecycle
      /\ o.specJobState = CASE tick.write = "suspend" -> "suspended"
                            [] tick.write = "resume" -> "running"
                            [] OTHER -> obj.specJobState
  BY <1>1 DEF Merged, Object
<1> HIDE DEF o
<1>4. tick' = [tick EXCEPT !.pc = "save"] /\ ((o = obj /\ UNCHANGED <<obj, stale>>) \/ Update(o))
  BY DEF Apply, o
<1>5. ~Writing'
  BY <1>1, <1>4 DEF Writing, Tick
<1>6. CASE o.specJobState = obj.specJobState
  <2>1. SavepointInv'
    BY <1>2, <1>3, <1>4, <1>5, <1>6, KeptInv, UnmovedInv DEF Continues
  <2>2. QED
    BY <1>4, <1>6, <2>1 DEF Update
<1>7. CASE o.specJobState # obj.specJobState
  <2>1. Update(o) /\ obj' = o
    BY <1>4, <1>7 DEF Update
  <2>2. tick.write \in {"suspend", "resume"} /\ tick.was = obj.specJobState
    BY <1>1, <1>3, <1>7 DEF SavepointInv, FlipInv, Object, SpecStates
  <2>3. \A i \in 1..Len(stale) : stale[i].specJobState = obj.specJobState
    BY <2>2 DEF SavepointInv, FlipInv
  <2>4. \A i \in 1..Len(stale') : stale'[i].specJobState = obj.specJobState
    <3>1. PICK k \in {0, 1} :
              /\ Len(stale') = Len(stale) + 1 - k
              /\ \A i \in 1..Len(stale') :
                    stale'[i] = IF i + k <= Len(stale) THEN stale[i + k] ELSE obj
      BY <1>2, <2>1, UpdateShifts
    <3>2. Len(stale) \in Nat
      BY DEF TypeOK
    <3>3. QED
      BY <2>3, <3>1, <3>2
  <2>5. SavepointInv'
    BY <1>5, <1>7, <2>1, <2>4 DEF SavepointInv, FlipInv, DoneInv
  <2>6. obj.specJobState = "suspended" /\ obj'.specJobState = "running" => obj.lifecycle = "SUSPENDED"
    BY <1>3, <2>1, <2>2 DEF SavepointInv, DoneInv
  <2>7. QED
    BY <2>5, <2>6
<1>8. QED
  BY <1>6, <1>7

\* The informer delivers a version.
LEMMA DeliverInv ==
    ASSUME TypeOK, SavepointInv, stale # <<>>, stale' = Tail(stale), UNCHANGED <<obj, tick>>
    PROVE  SavepointInv'
<1>1. stale \in Seq(Object) /\ Len(stale) \in Nat /\ Len(stale) > 0
  BY DEF TypeOK
<1>2. Len(stale') = Len(stale) - 1 /\ \A i \in 1..Len(stale') : stale'[i] = stale[i + 1]
  BY <1>1
<1>3. \A i \in 1..Len(stale') : i + 1 \in 1..Len(stale)
  BY <1>1, <1>2
<1>4. Writing' = Writing
  BY DEF Writing
<1>5. QED
  BY <1>1, <1>2, <1>3, <1>4 DEF SavepointInv, FlipInv, DoneInv

\* Every step keeps SavepointInv, and a step that resumes the job resumes one the operator has
\* finished suspending.
LEMMA SavepointNext ==
    ASSUME "state" \notin Humans, TypeOK, SavepointInv, [Next]_vars
    PROVE  SavepointInv' /\ (SiestaResumes => obj.lifecycle = "SUSPENDED")
<1> DEFINE Goal == SavepointInv' /\ (SiestaResumes => obj.lifecycle = "SUSPENDED")
<1>t. obj \in Object /\ tick \in Tick
  BY DEF TypeOK
\* Steps that do not write the object cannot resume.
<1>u. ASSUME UNCHANGED <<obj, stale>>, Continues PROVE Goal
  BY <1>u, UnmovedInv DEF SiestaResumes
<1>s. ASSUME UNCHANGED <<obj, stale>>, Prepared(tick', Cached) PROVE Goal
  BY <1>s, PreparedInv DEF SiestaResumes
\* Writes of the operator and of humans keep spec.job.state.
<1>k. ASSUME NEW o \in Object, Update(o), Overtaken, o.specJobState = obj.specJobState,
             obj.specJobState = "suspended" /\ obj.lifecycle = "SUSPENDED" => o.lifecycle = "SUSPENDED"
      PROVE  Goal
  <2>1. Continues
    BY <1>k, <1>t DEF Overtaken, Continues, Writing, Tick
  <2>2. SavepointInv'
    BY <1>k, <2>1, KeptInv
  <2>3. obj' = o
    BY <1>k DEF Update
  <2>4. QED
    BY <1>k, <2>2, <2>3 DEF SiestaResumes
<1>1. CASE Reconcile
  BY <1>1, <1>s, ReconcilePrepares DEF Reconcile
<1>2. CASE RefuseInvalidPolicy
  BY <1>2, <1>s, RefusePrepares DEF RefuseInvalidPolicy
<1>3. CASE Release
  BY <1>3, <1>s, ReleasePrepares DEF Release
<1>4. CASE Patch
  <2>1. Writing
    BY <1>4 DEF Patch, Writing
  <2>2. CASE Apply
    BY <2>1, <2>2, ApplyInv DEF SiestaResumes
  <2>3. CASE tick' = [tick EXCEPT !.pc = "conflict"] /\ UNCHANGED <<obj, stale>>
    BY <1>t, <1>u, <2>1, <2>3 DEF Continues, Tick
  <2>4. QED
    BY <1>4, <2>2, <2>3 DEF Patch
<1>5. CASE ReadFresh
  <2>1. Writing
    BY <1>5 DEF ReadFresh, Writing
  <2>2. Continues
    BY <1>5, <1>t, <2>1 DEF ReadFresh, Continues, Writing, Idle, Tick
  <2>3. QED
    BY <1>5, <1>u, <2>2 DEF ReadFresh
<1>6. CASE RetryPatch
  <2>1. Writing
    BY <1>6 DEF RetryPatch, Writing
  <2>2. CASE Apply
    BY <2>1, <2>2, ApplyInv DEF SiestaResumes
  <2>3. CASE tick' = Idle /\ UNCHANGED <<obj, stale>>
    BY <1>u, <2>3 DEF Continues, Writing, Idle
  <2>4. QED
    BY <1>6, <2>2, <2>3 DEF RetryPatch
<1>7. CASE Save
  BY <1>7, <1>u DEF Save, Continues, Writing, Idle
<1>8. CASE Abort
  BY <1>8, <1>u DEF Abort, Continues, Writing, Idle
<1>9. CASE Deliver
  BY <1>9, DeliverInv DEF Deliver, SiestaResumes
<1>10. CASE UNCHANGED <<obj, stale, tick>>
  BY <1>10, <1>u DEF Continues, Writing
<1>11. CASE OperatorSuspends
  <2>1. [obj EXCEPT !.lifecycle = "SUSPENDED", !.job = "FINISHED", !.unrecoverable = FALSE] \in Object
    BY <1>t DEF Object, Lifecycles, JobStates
  <2>2. QED
    BY <1>11, <1>k, <1>t, <2>1 DEF OperatorSuspends, Report, Object
<1>12. CASE OperatorStarts
  <2>1. [obj EXCEPT !.lifecycle = "UPGRADING", !.job = "RECONCILING",
                    !.unrecoverable = FALSE, !.lastNonce = obj.restartNonce] \in Object
    BY <1>t DEF Object, Lifecycles, JobStates
  <2>2. QED
    BY <1>12, <1>k, <1>t, <2>1 DEF OperatorStarts, Report, Object
<1>13. CASE OperatorSettles
  <2>1. [obj EXCEPT !.lifecycle = "STABLE", !.job = "RUNNING"] \in Object
    BY <1>t DEF Object, Lifecycles, JobStates
  <2>2. QED
    BY <1>13, <1>k, <1>t, <2>1 DEF OperatorSettles, Report, Object
<1>14. CASE JobRecovers
  <2>1. [obj EXCEPT !.job = "RUNNING"] \in Object
    BY <1>t DEF Object, JobStates
  <2>2. QED
    BY <1>14, <1>k, <1>t, <2>1 DEF JobRecovers, Report, Object
<1>15. CASE JobFails
  <2>1. PICK out \in Outcomes :
            Report([obj EXCEPT !.lifecycle = out.lifecycle, !.job = out.job,
                               !.unrecoverable = out.unrecoverable])
    BY <1>15 DEF JobFails
  <2>2. out \in OutcomeType
    BY SiestaAssumption
  <2>3. [obj EXCEPT !.lifecycle = out.lifecycle, !.job = out.job,
                    !.unrecoverable = out.unrecoverable] \in Object
    BY <1>t, <2>2 DEF Object, OutcomeType
  <2>4. obj.specJobState = "running"
    BY <1>15 DEF JobFails
  <2>5. QED
    BY <1>k, <1>t, <2>1, <2>3, <2>4 DEF Report, Object
<1>16. CASE HumanEditsSpec
  <2>1. PICK u \in UpgradeModes :
            Edit("spec", [obj EXCEPT !.upgradeMode = u, !.generation = @ + 1])
    BY <1>16 DEF HumanEditsSpec
  <2>2. QED
    BY <1>k, <1>t, <2>1, EditedType DEF Edit, Object
<1>17. CASE HumanRestarts
  <2>1. PICK n \in HumanNonces :
            Edit("nonce", [obj EXCEPT !.restartNonce = n, !.generation = @ + 1])
    BY <1>17 DEF HumanRestarts
  <2>2. QED
    BY <1>k, <1>t, <2>1, EditedType DEF Edit, Object
<1>18. CASE HumanSetsPolicy
  <2>1. PICK p \in Policies \cup {NoPolicy} : Edit("policy", [obj EXCEPT !.policy = p])
    BY <1>18 DEF HumanSetsPolicy
  <2>2. [obj EXCEPT !.policy = p] \in Object
    BY <1>t DEF Object
  <2>3. QED
    BY <1>k, <1>t, <2>1, <2>2 DEF Edit, Object
<1>19. CASE HumanSetsState
  BY <1>19 DEF HumanSetsState, Edit
<1>20. QED
  <2>1. TimePasses \/ Produce \/ JobReads \/ OffsetsExpire \/ HumanLosesMemory \/ UNCHANGED vars
           => UNCHANGED <<obj, stale, tick>>
    BY DEF TimePasses, Produce, JobReads, OffsetsExpire, HumanLosesMemory, vars
  <2>2. QED
    BY <1>1, <1>2, <1>3, <1>4, <1>5, <1>6, <1>7, <1>8, <1>9, <1>10, <1>11, <1>12, <1>13,
       <1>14, <1>15, <1>16, <1>17, <1>18, <1>19, <2>1
       DEF Next, Controller, Operator, Human

\* Where only the controller sets spec.job.state, the versions the informer still has to deliver
\* and the tick in progress are at most one flip away from the object, and a suspend that an old
\* version reports as done is done.
THEOREM SavepointInvariant ==
    ASSUME "state" \notin Humans
    PROVE  Spec => []SavepointInv
<1>1. Init => SavepointInv
  <2> SUFFICES ASSUME Init PROVE SavepointInv
    OBVIOUS
  <2>1. stale = <<>> /\ tick = Idle
    BY DEF Init
  <2>2. Len(stale) = 0 /\ ~Writing
    BY <2>1 DEF Writing, Idle
  <2>3. QED
    BY <2>2 DEF SavepointInv, FlipInv, DoneInv
<1>2. TypeOK /\ SavepointInv /\ [Next]_vars => SavepointInv'
  BY SavepointNext
<1>3. QED
  BY <1>1, <1>2, TypeCorrect, PTL DEF Spec

\* Where only the controller sets spec.job.state, a job is never resumed before the operator
\* has finished suspending it, whatever is stale, lost, retried or edited meanwhile.
THEOREM SavepointIsSafe ==
    ASSUME "state" \notin Humans
    PROVE  Spec => SavepointSafe
<1>1. TypeOK /\ SavepointInv /\ [Next]_vars => [SiestaResumes => obj.lifecycle = "SUSPENDED"]_vars
  BY SavepointNext
<1>2. QED
  BY <1>1, SavepointInvariant, TypeCorrect, PTL DEF Spec, SavepointSafe
----------------------------------------------------------------------------
(* The restart budget.  A save that is lost loses the count of a restart,    *)
(* and the object's nonce tells the next tick, as long as that one reads the *)
(* object itself.  The backoff then keeps it from a second restart that a    *)
(* lost save could hide.                                                     *)

\* At most one more.
LEMMA OneMore ==
    ASSUME NEW A, IsFiniteSet(A), NEW B, \A x, y \in B \ A : x = y
    PROVE  IsFiniteSet(B) /\ Cardinality(B) \in Nat /\ Cardinality(B) <= Cardinality(A) + 1
<1>1. Cardinality(A) \in Nat
  BY FS_CardinalityType
<1>2. CASE B \subseteq A
  BY <1>1, <1>2, FS_Subset, FS_CardinalityType
<1>3. CASE ~(B \subseteq A)
  <2>1. PICK x \in B : x \notin A
    BY <1>3
  <2> DEFINE C == A \cup {x}
  <2>2. IsFiniteSet(C) /\ Cardinality(C) = Cardinality(A) + 1
    BY <2>1, FS_AddElement
  <2>3. B \subseteq C
    BY <2>1
  <2> HIDE DEF C
  <2>4. IsFiniteSet(B) /\ Cardinality(B) <= Cardinality(C)
    BY <2>2, <2>3, FS_Subset
  <2>5. QED
    BY <2>2, <2>4, FS_CardinalityType
<1>4. QED
  BY <1>2, <1>3

\* The values BudgetInv is about.
LEMMA BudgetValues ==
    ASSUME TypeOK
    PROVE  /\ now \in Nat /\ now > 0 /\ obj.restartNonce \in Int
           /\ \A r \in restarted : r.nonce \in Int /\ r.window \in Nat
           /\ cm # NoMemory => cm \in Memory /\ cm.restarts \in Budget
           /\ tick.at \in Nat
           /\ tick.next # NoMemory => tick.next \in Memory /\ tick.next.restarts \in Budget
BY DEF TypeOK, Object, Memory, Tick

\* A new budget covers what the one before it did, or the object's nonce.
LEMMA FreshCovers ==
    ASSUME TypeOK, NonceInv
    PROVE  /\ Covers(FreshBudget(obj.restartNonce))
           /\ \A b \in Budget : Covers(b) => Covers(FreshBudget(b.lastNonce))
BY BudgetValues DEF Covers, FreshBudget, ZeroTime, NonceInv

\* A budget rolls over to a new one, or stays; what it charges next.
LEMMA ChargeFields ==
    ASSUME NEW b \in Budget, NEW nonce \in Int, NEW t \in Nat \ {0}
    PROVE  LET c == Charge(b, nonce, t)
               fresh == b.windowStart = ZeroTime \/ t > b.windowStart + Window
           IN  /\ c \in Budget /\ c.lastNonce = nonce
               /\ c.windowStart = IF fresh THEN t ELSE b.windowStart
               /\ c.count = IF fresh THEN 1 ELSE b.count + 1
               /\ t + BaseBackoff <= c.nextAfter
<1> DEFINE r == Rolled(b, t)
           w == Backoff(r.count)
           fresh == b.windowStart = ZeroTime \/ t > b.windowStart + Window
<1>1. r \in Budget /\ r.count \in Nat
  BY BudgetOperators DEF Budget
<1>2. w \in Nat /\ BaseBackoff <= w /\ BaseBackoff \in Nat
  BY <1>1, BackoffGrows, BudgetAssumption
<1>3. /\ r.count = IF fresh THEN 0 ELSE b.count
      /\ r.windowStart = IF fresh THEN ZeroTime ELSE b.windowStart
  BY DEF Rolled, FreshBudget
<1> HIDE DEF r
<1>4. Charge(b, nonce, t) =
        [count |-> r.count + 1,
         windowStart |-> IF r.windowStart = ZeroTime THEN t ELSE r.windowStart,
         nextAfter |-> t + w, lastNonce |-> nonce]
  BY DEF Charge, Consume, r
<1> HIDE DEF w
<1>5. QED
  BY <1>1, <1>2, <1>3, <1>4 DEF Budget, ZeroTime

\* Charging the restart that was missed, or the one about to be made, keeps a budget covering.
LEMMA ChargeCovers ==
    ASSUME TypeOK, NonceInv, NEW b \in Budget, Covers(b), NEW nonce \in Int,
           obj.restartNonce <= nonce, nonce <= now
    PROVE  Covers(Charge(b, nonce, now))
<1> DEFINE c == Charge(b, nonce, now)
           fresh == b.windowStart = ZeroTime \/ now > b.windowStart + Window
<1>v. /\ now \in Nat \ {0} /\ obj.restartNonce \in Int /\ BaseBackoff \in Nat
      /\ \A r \in restarted : r.nonce \in Int /\ r.window \in Nat
      /\ b.lastNonce \in Int /\ b.windowStart \in Nat /\ b.count \in Nat
  BY BudgetValues, BudgetAssumption DEF Budget
<1>1. /\ c \in Budget /\ c.lastNonce = nonce
      /\ c.windowStart = IF fresh THEN now ELSE b.windowStart
      /\ c.count = IF fresh THEN 1 ELSE b.count + 1
      /\ now + BaseBackoff <= c.nextAfter /\ c.nextAfter \in Nat
  <2>1. c.nextAfter \in Nat
    BY <1>v, ChargeFields DEF Budget
  <2>2. QED
    BY <1>v, <2>1, ChargeFields
<1> HIDE DEF c
<1>2. \A r \in restarted : r.nonce <= nonce /\ r.nonce <= now
  BY <1>v DEF NonceInv
<1>3. IsFiniteSet(restarted) /\ IsFiniteSet(Slots(b)) /\ Cardinality(Slots(b)) \in Nat
  <2>1. IsFiniteSet(restarted) /\ Slots(b) \subseteq restarted
    BY DEF NonceInv, Slots
  <2>2. QED
    BY <2>1, FS_Subset, FS_CardinalityType
<1>4. Cardinality(Slots(c)) <= c.count
  <2>1. CASE fresh
    <3>1. \A x, y \in Slots(c) \ {} : x = y
      <4>1. \A x \in Slots(c) : x \in restarted /\ x.nonce = now
        BY <1>v, <1>1, <1>2, <2>1 DEF Slots, NonceInv
      <4>2. QED
        BY <4>1 DEF NonceInv
    <3>2. Cardinality(Slots(c)) <= Cardinality({}) + 1
      BY <3>1, OneMore, FS_EmptySet
    <3>3. QED
      BY <1>1, <2>1, <3>2, FS_EmptySet
  <2>2. CASE ~fresh
    <3>1. \A x \in Slots(c) \ Slots(b) : x \in restarted /\ x.nonce = obj.restartNonce
      BY <1>v, <1>1, <2>2 DEF Slots, Covers
    <3>2. \A x, y \in Slots(c) \ Slots(b) : x = y
      BY <3>1 DEF NonceInv
    <3>3. Cardinality(Slots(c)) \in Nat /\ Cardinality(Slots(c)) <= Cardinality(Slots(b)) + 1
      BY <1>3, <3>2, OneMore
    <3>4. Cardinality(Slots(b)) <= b.count
      BY <2>2 DEF Covers
    <3>5. QED
      BY <1>v, <1>1, <1>3, <2>2, <3>3, <3>4
  <2>3. QED
    BY <2>1, <2>2
<1>5. c.windowStart <= now
  BY <1>v, <1>1 DEF Covers
<1>6. Covers(c)
  BY <1>v, <1>1, <1>2, <1>4, <1>5 DEF Covers
<1>7. QED
  BY <1>6 DEF c

\* A tick that restarts, as act leaves it.
LEMMA RestartIsDue ==
    ASSUME TypeOK, NonceInv, NEW b \in Budget, Covers(b),
           cm # NoMemory => cm.restarts.lastNonce = b.lastNonce,
           obj.restartNonce <= b.lastNonce, ~Exhausted(b, now), ~InBackoff(b, now),
           NEW t, t.at = now, t.next.restarts = Charge(b, now, now)
    PROVE  Due(t)
<1> DEFINE c == Charge(b, now, now)
           fresh == b.windowStart = ZeroTime \/ now > b.windowStart + Window
           mine == {r \in restarted : r.window = c.windowStart}
<1>v. /\ now \in Nat \ {0} /\ now \in Int /\ obj.restartNonce \in Int /\ BaseBackoff \in Nat
      /\ \A r \in restarted : r.nonce \in Int /\ r.window \in Nat
      /\ b.lastNonce \in Int /\ b.windowStart \in Nat /\ b.count \in Nat /\ b.nextAfter \in Nat
      /\ MaxRestarts \in Nat
  BY BudgetValues, BudgetAssumption DEF Budget
<1>1. /\ c.lastNonce = now
      /\ c.windowStart = IF fresh THEN now ELSE b.windowStart
      /\ c.count = IF fresh THEN 1 ELSE b.count + 1
      /\ now + BaseBackoff <= c.nextAfter
  BY <1>v, ChargeFields
<1> HIDE DEF c
<1>2. c.windowStart \in 1..now
  BY <1>v, <1>1 DEF Covers, ZeroTime
<1>3. c.count <= MaxRestarts
  BY <1>v, <1>1 DEF Exhausted, Rolled, FreshBudget
<1>4. ~fresh => \A r \in restarted : r.nonce + BaseBackoff <= now
  <2>1. ~fresh => b.nextAfter <= now
    BY <1>v DEF InBackoff, Rolled, ZeroTime
  <2>2. \A r \in restarted : r.nonce <= b.lastNonce
    BY <1>v DEF NonceInv
  <2>3. QED
    BY <1>v, <2>1, <2>2 DEF Covers
<1>5. ASSUME obj.restartNonce # now PROVE Cardinality(mine) < c.count
  <2>1. CASE fresh
    <3>1. mine = {}
      BY <1>v, <1>1, <1>5, <2>1 DEF NonceInv
    <3> HIDE DEF mine
    <3>2. Cardinality(mine) = 0
      BY <3>1, FS_EmptySet
    <3>3. QED
      BY <1>1, <2>1, <3>2
  <2>2. CASE ~fresh
    <3>1. mine = Slots(b)
      BY <1>v, <1>1, <2>2 DEF Slots, NonceInv
    <3>2. Cardinality(Slots(b)) <= b.count
      BY <2>2 DEF Covers
    <3>3. Cardinality(Slots(b)) \in Nat
      <4>1. IsFiniteSet(restarted) /\ Slots(b) \subseteq restarted
        BY DEF NonceInv, Slots
      <4>2. QED
        BY <4>1, FS_Subset, FS_CardinalityType
    <3> HIDE DEF mine
    <3>4. QED
      BY <1>v, <1>1, <2>2, <3>1, <3>2, <3>3
  <2>3. QED
    BY <2>1, <2>2
<1>6. c.windowStart < now => ~fresh
  BY <1>v, <1>1
<1>7. t.next.restarts = c
  BY DEF c
<1>8. QED
  BY <1>1, <1>2, <1>3, <1>4, <1>5, <1>6, <1>7 DEF Due

\* What a tick that has just started may write and save.
Opened(t) ==
    /\ t.at = now /\ t.pc # "idle"
    /\ t.next # NoMemory =>
          /\ Covers(t.next.restarts)
          /\ t.write = "restart" \/ t.next.restarts.lastNonce <= obj.restartNonce
    /\ t.write = "restart" => t.pc = "patch" /\ Due(t)

\* The budget a tick loads covers the restarts.
LEMMA LoadCovers ==
    ASSUME TypeOK, BudgetInv
    PROVE  LET b == Load(obj).restarts
           IN  /\ b \in Budget /\ Covers(b) /\ b.lastNonce <= obj.restartNonce
               /\ cm # NoMemory => b = cm.restarts
<1> DEFINE m == IF cm = NoMemory THEN Initial(now, obj.restartNonce) ELSE cm
<1>1. obj \in Object /\ obj.restartNonce \in Int /\ now \in Nat /\ cm \in Memory \cup {NoMemory}
  BY DEF TypeOK, Object
<1>2. m \in Memory
  BY <1>1, InitialType
<1>3. m.restarts = IF cm = NoMemory THEN FreshBudget(obj.restartNonce) ELSE cm.restarts
  BY DEF Initial
<1> HIDE DEF m
<1>4. Repair(m, obj).restarts = m.restarts
  BY <1>2 DEF Repair, RepairedAwake, Memory
<1>5. Load(obj).restarts = m.restarts
  BY <1>4 DEF Load, m
<1>6. m.restarts \in Budget
  BY <1>2 DEF Memory
<1>7. Covers(m.restarts) /\ m.restarts.lastNonce <= obj.restartNonce
  <2>1. CASE cm = NoMemory
    BY <1>1, <1>3, <2>1, FreshCovers DEF BudgetInv, FreshBudget
  <2>2. CASE cm # NoMemory
    BY <1>3, <2>2 DEF BudgetInv, CoverInv
  <2>3. QED
    BY <2>1, <2>2
<1>8. QED
  BY <1>3, <1>5, <1>6, <1>7

\* act, annotate and patch leave a tick of this instant.
LEMMA ActOpens ==
    ASSUME NEW fd, NEW prev, NEW d
    PROVE  LET t == Act(fd, prev, d)
           IN  /\ t.at = now /\ t.pc \in {"patch", "save"} /\ t.next = d.next
               /\ t.write = "restart" => t.pc = "patch" /\ d.action = "restart"
<1>1. \A w, m : /\ ToPatch(fd, w, m).at = now /\ ToPatch(fd, w, m).pc = "patch"
                /\ ToPatch(fd, w, m).next = m /\ ToPatch(fd, w, m).write = w
  BY DEF ToPatch
<1>2. \A m : /\ ToSave(fd, m).at = now /\ ToSave(fd, m).pc = "save"
             /\ ToSave(fd, m).next = m /\ ToSave(fd, m).write = "annotate"
  BY DEF ToSave, ToPatch
<1>3. QED
  BY <1>1, <1>2 DEF Act, ToAnnotate

\* Reconcile on the object itself: the decision charges what it restarts.
LEMMA ReconcileOpens ==
    ASSUME TypeOK, BudgetInv, Reconcile, stale = <<>>, BaseBackoff > 0
    PROVE  Opened(tick')
<1> DEFINE p == obj.policy
<1>1. Cached = obj /\ obj \in Object
  BY DEF Cached, TypeOK
<1>2. PICK prev \in Learned(p, obj, Load(obj)) : \E obs \in Observations(p, prev) :
          LET d == Decide(p, prev, Live(obj), obs, now)
          IN  tick' = Act(obj, prev, IF DryRun \/ p.dryRun THEN Shadow(prev, d) ELSE d)
  BY <1>1 DEF Reconcile
<1>3. PICK obs \in Observations(p, prev) :
          LET d == Decide(p, prev, Live(obj), obs, now)
          IN  tick' = Act(obj, prev, IF DryRun \/ p.dryRun THEN Shadow(prev, d) ELSE d)
  BY <1>2
<1> DEFINE d == Decide(p, prev, Live(obj), obs, now)
           carried == IF DryRun \/ p.dryRun THEN Shadow(prev, d) ELSE d
           b == prev.restarts
<1>4. prev \in Memory /\ prev.restarts = Load(obj).restarts
  <2>1. Load(obj) \in Memory
    BY <1>1, LoadType
  <2>2. QED
    BY <2>1 DEF Learned, Memory
<1>5. /\ b \in Budget /\ Covers(b) /\ b.lastNonce <= obj.restartNonce
      /\ cm # NoMemory => b = cm.restarts
  BY <1>4, LoadCovers
<1>6. NonceInv
  BY DEF BudgetInv
<1>v. now \in Nat /\ now > 0 /\ obj.restartNonce \in Int /\ obj.restartNonce <= now
  BY <1>6, BudgetValues DEF NonceInv
<1>7. TypedInput(prev, Live(obj), obs, now) /\ Live(obj).specJobState \in {"running", "suspended"}
      /\ Live(obj).restartNonce = obj.restartNonce
  BY <1>1, <1>4, ObservationType DEF TypedInput, Live, Object, TypeOK, SpecStates
<1>8. d \in Decision
  BY <1>7, DecideSound DEF Sound
<1>9. PICK c \in {b, FreshBudget(b.lastNonce)} : Budgeted(d, c, Live(obj), now)
  BY <1>7, <1>v, DecideBudgeted
<1> HIDE DEF d
<1>10. c \in Budget /\ Covers(c) /\ c.lastNonce = b.lastNonce
  <2>1. b.lastNonce \in Int
    BY <1>5 DEF Budget
  <2>2. FreshBudget(b.lastNonce) \in Budget /\ FreshBudget(b.lastNonce).lastNonce = b.lastNonce
    BY <2>1 DEF FreshBudget, Budget, ZeroTime
  <2>3. Covers(FreshBudget(b.lastNonce))
    BY <1>5, <1>6, FreshCovers
  <2>4. QED
    BY <1>5, <1>9, <2>2, <2>3
<1> DEFINE Fine(e) == /\ Covers(e.next.restarts)
                      /\ e.action = "restart" \/ e.next.restarts.lastNonce <= obj.restartNonce
                      /\ e.action = "restart" =>
                            \A t : t.at = now /\ t.next = e.next => Due(t)
<1>11. Fine(d)
  <2>1. CASE d.action # "restart" /\ d.next.restarts = c
    BY <1>5, <1>10, <2>1
  <2>2. CASE /\ d.action # "restart" /\ Live(obj).restartNonce > c.lastNonce
             /\ d.next.restarts = Charge(c, Live(obj).restartNonce, now)
    <3>1. Covers(Charge(c, obj.restartNonce, now))
      BY <1>6, <1>v, <1>10, ChargeCovers
    <3>2. Charge(c, obj.restartNonce, now).lastNonce = obj.restartNonce
      BY <1>v, <1>10, ChargeFields
    <3>3. QED
      BY <1>7, <1>v, <2>2, <3>1, <3>2
  <2>3. CASE /\ d.action = "restart" /\ Live(obj).restartNonce <= c.lastNonce
             /\ ~Exhausted(c, now) /\ ~InBackoff(c, now)
             /\ d.next.restarts = Charge(c, now, now)
    <3>1. Covers(Charge(c, now, now))
      BY <1>6, <1>v, <1>10, ChargeCovers
    <3>2. ASSUME NEW t, t.at = now, t.next = d.next PROVE Due(t)
      <4>1. t.next.restarts = Charge(c, now, now)
        BY <2>3, <3>2
      <4>2. cm # NoMemory => cm.restarts.lastNonce = c.lastNonce
        BY <1>5, <1>10
      <4>3. QED
        BY <1>6, <1>7, <1>10, <2>3, <3>2, <4>1, <4>2, RestartIsDue
    <3>3. QED
      BY <2>3, <3>1, <3>2
  <2>4. QED
    BY <1>9, <2>1, <2>2, <2>3 DEF Budgeted
<1>12. Fine(carried)
  <2>1. CASE d.action # "none" /\ (DryRun \/ p.dryRun)
    <3>1. d.next \in Memory
      BY <1>8 DEF Decision
    <3>2. carried.action = "none" /\ carried.next.restarts = b
      BY <1>4, <2>1, <3>1 DEF Shadow, Stay, Memory
    <3> HIDE DEF carried
    <3>3. QED
      BY <1>5, <3>2
  <2>2. CASE ~(d.action # "none" /\ (DryRun \/ p.dryRun))
    BY <1>11, <2>2 DEF Shadow
  <2>3. QED
    BY <2>1, <2>2
<1>13. tick' = Act(obj, prev, carried)
  BY <1>3 DEF d
<1> HIDE DEF carried
<1>14. /\ tick'.at = now /\ tick'.pc \in {"patch", "save"} /\ tick'.next = carried.next
       /\ tick'.write = "restart" => tick'.pc = "patch" /\ carried.action = "restart"
  BY <1>13, ActOpens
<1>15. carried.action = "restart" => tick'.write = "restart"
  BY <1>13 DEF Act, ToPatch
<1>16. QED
  BY <1>12, <1>14, <1>15 DEF Opened

\* The other two ways a tick starts charge nothing.
LEMMA OthersOpen ==
    ASSUME TypeOK, BudgetInv, RefuseInvalidPolicy \/ Release, stale = <<>>
    PROVE  Opened(tick')
<1>1. Cached = obj /\ obj \in Object
  BY DEF Cached, TypeOK
<1>2. CASE RefuseInvalidPolicy
  <2> DEFINE m == Because(Load(obj), "invalid policy")
  <2>1. tick' = ToAnnotate(obj, m)
    BY <1>1, <1>2 DEF RefuseInvalidPolicy
  <2>2. m.restarts = Load(obj).restarts
    BY <1>1, LoadType DEF Because, Memory
  <2> HIDE DEF m
  <2>3. Covers(m.restarts) /\ m.restarts.lastNonce <= obj.restartNonce
    BY <2>2, LoadCovers
  <2>4. tick'.at = now /\ tick'.pc # "idle" /\ tick'.next = m /\ tick'.write = "annotate"
    BY <2>1 DEF ToAnnotate, ToSave, ToPatch
  <2>5. QED
    BY <2>3, <2>4 DEF Opened
<1>3. CASE Release
  BY <1>3 DEF Release, Opened, ToPatch
<1>4. QED
  BY <1>2, <1>3

\* A tick that starts on the object itself.
LEMMA OpenedInv ==
    ASSUME TypeOK, BudgetInv, Opened(tick'), UNCHANGED <<now, obj, cm, restarted>>
    PROVE  BudgetInv'
<1>2. NonceInv'
  BY BudgetValues DEF BudgetInv, NonceInv, Opened
<1>3. tick'.write = "restart" => Writing'
  BY DEF Opened, Writing
<1>4. CoverInv'
  BY <1>3 DEF BudgetInv, CoverInv, Covers, Slots, Opened
<1>5. DueInv'
  BY DEF DueInv, Due, Opened
<1>6. RestartsSpaced' /\ RestartsLimited'
  BY DEF BudgetInv, RestartsSpaced, RestartsLimited
<1>7. QED
  BY <1>2, <1>4, <1>5, <1>6 DEF BudgetInv

\* The tick goes on with what it has, or ends.
TickGoesOn ==
    \/ tick'.pc = "idle"
    \/ /\ tick.pc # "idle" /\ tick'.at = tick.at /\ tick'.write = tick.write /\ tick'.next = tick.next
       /\ tick'.pc = tick.pc \/ (Writing /\ Writing')

\* Steps that write no nonce and save nothing.
LEMMA UnchargedInv ==
    ASSUME TypeOK, BudgetInv, UNCHANGED restarted, obj'.restartNonce = obj.restartNonce,
           now' \in Nat, now <= now', cm' \in {cm, NoMemory}, TickGoesOn
    PROVE  BudgetInv'
<1>v. /\ now \in Nat /\ obj.restartNonce \in Int /\ tick.at \in Nat
      /\ cm # NoMemory => cm.restarts.windowStart \in Nat
      /\ tick.next # NoMemory => tick.next.restarts.windowStart \in Nat
  BY BudgetValues DEF Budget
<1>1. NonceInv'
  BY <1>v DEF BudgetInv, NonceInv, TickGoesOn
<1>2. ASSUME NEW b, Covers(b), b.windowStart \in Nat
      PROVE  /\ \A r \in restarted' : r.nonce <= b.lastNonce \/ r.nonce = obj'.restartNonce
             /\ b.windowStart <= now'
             /\ b.windowStart # ZeroTime =>
                   /\ Cardinality({r \in restarted' : r.nonce <= b.lastNonce /\ r.window = b.windowStart}) <= b.count
                   /\ \A r \in restarted' : r.nonce <= b.lastNonce => r.nonce + BaseBackoff <= b.nextAfter
  BY <1>v, <1>2 DEF Covers, Slots
<1>3. (Writing /\ tick.write = "restart") /\ tick'.pc # "idle" => (Writing /\ tick.write = "restart")'
  BY DEF TickGoesOn, Writing
<1>4. CoverInv'
  <2>1. cm' # NoMemory => (Covers(cm.restarts) /\ cm.restarts.lastNonce <= obj.restartNonce)'
    BY <1>v, <1>2 DEF BudgetInv, CoverInv, Covers, Slots
  <2>2. tick'.pc # "idle" /\ tick'.next # NoMemory => (Covers(tick.next.restarts))'
    BY <1>v, <1>2 DEF BudgetInv, CoverInv, Covers, Slots, TickGoesOn
  <2>3. tick'.pc # "idle" /\ tick'.next # NoMemory =>
            \/ (Writing /\ tick.write = "restart")'
            \/ tick'.next.restarts.lastNonce <= obj'.restartNonce
    BY <1>3 DEF BudgetInv, CoverInv, TickGoesOn
  <2>4. QED
    BY <2>1, <2>2, <2>3 DEF CoverInv
<1>5. DueInv'
  <2>1. Writing' => Writing /\ UNCHANGED <<tick.at, tick.write, tick.next>>
    BY DEF TickGoesOn, Writing
  <2>2. QED
    BY <2>1 DEF BudgetInv, DueInv, Due
<1>6. RestartsSpaced' /\ RestartsLimited'
  BY DEF BudgetInv, RestartsSpaced, RestartsLimited
<1>7. QED
  BY <1>1, <1>4, <1>5, <1>6 DEF BudgetInv

\* Save: what the tick has decided becomes memory.
LEMMA SaveInv ==
    ASSUME TypeOK, BudgetInv, Save
    PROVE  BudgetInv'
<1>1. UNCHANGED <<now, obj, restarted>> /\ cm' = tick.next /\ tick'.pc = "idle"
      /\ tick.pc # "idle" /\ ~Writing /\ ~Writing'
  BY DEF Save, history, Idle, Writing
<1>2. NonceInv'
  BY <1>1 DEF BudgetInv, NonceInv
<1>3. CoverInv'
  BY <1>1 DEF BudgetInv, CoverInv, Covers, Slots
<1>4. DueInv'
  BY <1>1 DEF DueInv
<1>5. RestartsSpaced' /\ RestartsLimited'
  BY <1>1 DEF BudgetInv, RestartsSpaced, RestartsLimited
<1>6. QED
  BY <1>2, <1>3, <1>4, <1>5 DEF BudgetInv

\* The patch of a restart reaches the object: a new nonce, and one more restart made.
LEMMA RestartInv ==
    ASSUME TypeOK, BudgetInv, Writing, tick.write = "restart", obj.restartNonce # tick.at,
           UNCHANGED <<now, cm>>, obj'.restartNonce = tick.at,
           tick'.pc = "save", UNCHANGED <<tick.at, tick.write, tick.next>>,
           restarted' = restarted \cup {[nonce |-> tick.at, window |-> tick.next.restarts.windowStart]}
    PROVE  BudgetInv'
<1> DEFINE b == tick.next.restarts
           x == [nonce |-> tick.at, window |-> b.windowStart]
           mine == {r \in restarted : r.window = b.windowStart}
<1>v. /\ now \in Nat /\ obj.restartNonce \in Int /\ tick.at \in Nat /\ BaseBackoff \in Nat
      /\ \A r \in restarted : r.nonce \in Int /\ r.window \in Nat
      /\ tick.next # NoMemory /\ b.windowStart \in Nat /\ b.count \in Nat /\ b.nextAfter \in Nat
      /\ cm # NoMemory => /\ cm.restarts.windowStart \in Nat /\ cm.restarts.lastNonce \in Int
                          /\ cm.restarts.nextAfter \in Nat
      /\ MaxRestarts \in Nat
  <2>1. tick.next # NoMemory
    BY DEF TypeOK
  <2>2. QED
    BY <2>1, BudgetValues, BudgetAssumption DEF Budget
<1>1. Due(tick) /\ NonceInv /\ CoverInv /\ tick.pc # "idle"
  BY DEF BudgetInv, DueInv, Writing
<1>2. /\ b.lastNonce = tick.at /\ b.windowStart \in 1..tick.at /\ tick.at + BaseBackoff <= b.nextAfter
      /\ Cardinality(mine) < b.count /\ b.count <= MaxRestarts
      /\ b.windowStart < tick.at => \A r \in restarted : r.nonce + BaseBackoff <= tick.at
      /\ cm # NoMemory => obj.restartNonce <= cm.restarts.lastNonce
  BY <1>1 DEF Due
<1>3. /\ obj.restartNonce < tick.at /\ tick.at <= now
      /\ \A r \in restarted : r.nonce <= obj.restartNonce /\ r.nonce < tick.at
  BY <1>v, <1>1 DEF NonceInv
<1>4. x.nonce = tick.at /\ x.window = b.windowStart /\ x \notin restarted /\ restarted' = restarted \cup {x}
  BY <1>v, <1>3
<1>5. b' = b
  OBVIOUS
<1> HIDE DEF x, b, mine
<1>6. IsFiniteSet(restarted) /\ IsFiniteSet(restarted') /\ IsFiniteSet(mine) /\ Cardinality(mine) \in Nat
  <2>1. IsFiniteSet(restarted) /\ mine \subseteq restarted
    BY <1>1 DEF NonceInv, mine
  <2>2. IsFiniteSet(restarted')
    BY <1>4, <2>1, FS_AddElement
  <2>3. QED
    BY <2>1, <2>2, FS_Subset, FS_CardinalityType
<1>7. NonceInv'
  <2>1. \A r \in restarted' : 0 < r.window /\ r.window <= r.nonce /\ r.nonce <= obj'.restartNonce
    BY <1>v, <1>1, <1>2, <1>3, <1>4 DEF NonceInv
  <2>2. \A r, s \in restarted' : r.nonce = s.nonce => r = s
    BY <1>v, <1>1, <1>3, <1>4 DEF NonceInv
  <2>3. QED
    BY <1>v, <1>3, <1>6, <2>1, <2>2 DEF NonceInv
\* The window of the new restart, before and after.
<1>8. /\ {r \in restarted' : r.window = b.windowStart} = mine \cup {x}
      /\ Cardinality(mine \cup {x}) = Cardinality(mine) + 1
  <2>1. {r \in restarted' : r.window = b.windowStart} = mine \cup {x} /\ x \notin mine
    BY <1>4 DEF mine
  <2>2. QED
    BY <1>6, <2>1, FS_AddElement
<1>9. Cardinality(mine \cup {x}) <= b.count
  BY <1>v, <1>2, <1>6, <1>8
<1>10. (Covers(tick.next.restarts))'
  <2>1. \A r \in restarted' : r.nonce <= b.lastNonce /\ r.nonce + BaseBackoff <= b.nextAfter
    BY <1>v, <1>2, <1>3, <1>4
  <2>2. (Slots(tick.next.restarts))' = mine \cup {x}
    BY <1>5, <1>8, <2>1 DEF Slots, b
  <2>3. b.windowStart <= now'
    BY <1>v, <1>2, <1>3
  <2>4. tick'.next.restarts = b
    BY <1>5 DEF b
  <2>5. QED
    BY <1>9, <2>1, <2>2, <2>3, <2>4 DEF Covers
<1>11. cm # NoMemory => (Covers(cm.restarts))' /\ cm'.restarts.lastNonce <= obj'.restartNonce
  <2> SUFFICES ASSUME cm # NoMemory
               PROVE  (Covers(cm.restarts))' /\ cm'.restarts.lastNonce <= obj'.restartNonce
    OBVIOUS
  <2>1. Covers(cm.restarts) /\ cm.restarts.lastNonce <= obj.restartNonce
    BY <1>1 DEF CoverInv
  <2>2. cm.restarts.lastNonce < tick.at /\ \A r \in restarted : r.nonce <= cm.restarts.lastNonce
    BY <1>v, <1>2, <1>3, <2>1
  <2>3. (Slots(cm.restarts))' = Slots(cm.restarts)
    BY <1>v, <1>4, <2>2 DEF Slots
  <2>4. QED
    BY <1>v, <1>4, <2>1, <2>2, <2>3 DEF Covers
<1>12. CoverInv'
  <2>1. tick'.next.restarts.lastNonce = tick.at
    BY <1>2, <1>5 DEF b
  <2>2. QED
    BY <1>v, <1>10, <1>11, <2>1 DEF CoverInv
<1>13. DueInv'
  BY DEF DueInv, Writing
<1>14. RestartsSpaced'
  BY <1>v, <1>2, <1>3, <1>4 DEF BudgetInv, RestartsSpaced
<1>15. RestartsLimited'
  <2> SUFFICES ASSUME NEW y \in restarted'
               PROVE  Cardinality({r \in restarted' : r.window = y.window}) <= MaxRestarts
    BY DEF RestartsLimited
  <2>1. CASE y.window = b.windowStart
    <3>1. Cardinality(mine \cup {x}) <= MaxRestarts
      BY <1>v, <1>2, <1>6, <1>8
    <3>2. {r \in restarted' : r.window = y.window} = mine \cup {x}
      BY <1>8, <2>1
    <3>3. QED
      BY <3>1, <3>2
  <2>2. CASE y.window # b.windowStart
    <3>1. y \in restarted /\ {r \in restarted' : r.window = y.window} = {r \in restarted : r.window = y.window}
      BY <1>4, <2>2
    <3>2. QED
      BY <3>1 DEF BudgetInv, RestartsLimited
  <2>3. QED
    BY <2>1, <2>2
<1>16. QED
  BY <1>7, <1>12, <1>13, <1>14, <1>15 DEF BudgetInv

\* Every patch that gets through.
LEMMA ApplyBudget ==
    ASSUME TypeOK, BudgetInv, Writing, Apply, UNCHANGED <<now, cm>>
    PROVE  BudgetInv'
<1> DEFINE o == Merged(obj, tick.write, tick.next)
           b == tick.next.restarts
<1>1. obj \in Object /\ tick \in Tick /\ now \in Nat
  BY DEF TypeOK
<1>2. o.restartNonce = IF tick.write = "restart" THEN b.lastNonce ELSE obj.restartNonce
  BY <1>1 DEF Merged, Object
<1>3. /\ obj' = o /\ tick' = [tick EXCEPT !.pc = "save"]
      /\ restarted' = IF o.restartNonce # obj.restartNonce
                      THEN restarted \cup {[nonce |-> o.restartNonce, window |-> b.windowStart]}
                      ELSE restarted
  BY DEF Apply, Record, Update
<1>4. tick'.pc = "save" /\ UNCHANGED <<tick.at, tick.write, tick.next>>
  BY <1>1, <1>3 DEF Tick
<1>5. tick.write = "restart" => b.lastNonce = tick.at
  BY DEF BudgetInv, DueInv, Due
<1> HIDE DEF o
<1>6. CASE tick.write = "restart" /\ obj.restartNonce # tick.at
  BY <1>2, <1>3, <1>4, <1>5, <1>6, RestartInv
<1>7. CASE ~(tick.write = "restart" /\ obj.restartNonce # tick.at)
  <2>1. obj'.restartNonce = obj.restartNonce /\ restarted' = restarted
    BY <1>2, <1>3, <1>5, <1>7
  <2>2. NonceInv'
    BY <1>4, <2>1 DEF BudgetInv, NonceInv, Writing
  <2>3. tick.next # NoMemory => b.lastNonce <= obj.restartNonce
    <3>1. obj.restartNonce \in Int
      BY <1>1 DEF Object
    <3>2. QED
      BY <1>5, <1>7, <3>1 DEF BudgetInv, CoverInv, Writing
  <2>4. CoverInv'
    BY <1>4, <2>1, <2>3 DEF BudgetInv, CoverInv, Covers, Slots, Writing
  <2>5. DueInv'
    BY <1>4 DEF DueInv, Writing
  <2>6. RestartsSpaced' /\ RestartsLimited'
    BY <2>1 DEF BudgetInv, RestartsSpaced, RestartsLimited
  <2>7. QED
    BY <2>2, <2>4, <2>5, <2>6 DEF BudgetInv
<1>8. QED
  BY <1>6, <1>7

\* Every step keeps BudgetInv, where ticks read the object itself and nobody else writes a nonce.
LEMMA BudgetNext ==
    ASSUME MaxLag = 0, BaseBackoff > 0, "nonce" \notin Humans, TypeOK, BudgetInv, [Next]_vars
    PROVE  BudgetInv'
<1>t. obj \in Object /\ tick \in Tick /\ now \in Nat
  BY DEF TypeOK
<1>l. stale = <<>>
  BY DEF TypeOK
\* Steps that leave the nonce, the clock and the memory alone.
<1>u. ASSUME UNCHANGED <<now, cm, restarted>>, obj'.restartNonce = obj.restartNonce, TickGoesOn
      PROVE  BudgetInv'
  BY <1>t, <1>u, UnchargedInv
\* Writes of the operator and of humans.
<1>k. ASSUME NEW o, Update(o), Overtaken, o.restartNonce = obj.restartNonce,
             UNCHANGED <<now, cm, restarted>>
      PROVE  BudgetInv'
  <2>1. TickGoesOn
    BY <1>t, <1>k DEF Overtaken, TickGoesOn, Tick
  <2>2. QED
    BY <1>k, <1>u, <2>1 DEF Update
<1>r. ASSUME NEW o, Report(o), o.restartNonce = obj.restartNonce PROVE BudgetInv'
  BY <1>k, <1>r DEF Report, history
<1>e. ASSUME NEW kind, NEW o, Edit(kind, o), UNCHANGED restarted, o.restartNonce = obj.restartNonce
      PROVE  BudgetInv'
  BY <1>e, <1>k DEF Edit
<1>1. CASE Reconcile
  BY <1>1, <1>l, ReconcileOpens, OpenedInv DEF Reconcile, history
<1>2. CASE RefuseInvalidPolicy \/ Release
  <2>1. UNCHANGED <<now, obj, cm, restarted>>
    BY <1>2 DEF RefuseInvalidPolicy, Release, history
  <2>2. QED
    BY <1>2, <1>l, <2>1, OthersOpen, OpenedInv
<1>3. CASE Patch
  <2>1. Writing /\ UNCHANGED <<now, cm>>
    BY <1>3 DEF Patch, Writing
  <2>2. CASE Apply
    BY <2>1, <2>2, ApplyBudget
  <2>3. CASE tick' = [tick EXCEPT !.pc = "conflict"] /\ UNCHANGED <<obj, stale, history>>
    BY <1>t, <1>u, <2>1, <2>3 DEF TickGoesOn, Writing, Tick, history
  <2>4. QED
    BY <1>3, <2>2, <2>3 DEF Patch
<1>4. CASE ReadFresh
  <2>1. TickGoesOn
    BY <1>4, <1>t DEF ReadFresh, TickGoesOn, Writing, Idle, Tick
  <2>2. QED
    BY <1>4, <1>u, <2>1 DEF ReadFresh, history
<1>5. CASE RetryPatch
  <2>1. Writing /\ UNCHANGED <<now, cm>>
    BY <1>5 DEF RetryPatch, Writing
  <2>2. CASE Apply
    BY <2>1, <2>2, ApplyBudget
  <2>3. CASE tick' = Idle /\ UNCHANGED <<obj, stale, history>>
    BY <1>u, <2>1, <2>3 DEF TickGoesOn, Idle, history
  <2>4. QED
    BY <1>5, <2>2, <2>3 DEF RetryPatch
<1>6. CASE Save
  BY <1>6, SaveInv
<1>7. CASE Abort
  BY <1>7, <1>u DEF Abort, TickGoesOn, Idle, history
<1>8. CASE Deliver \/ Produce \/ JobReads \/ OffsetsExpire \/ UNCHANGED vars
  <2>1. UNCHANGED <<now, obj, cm, tick, restarted>>
    BY <1>8 DEF Deliver, Produce, JobReads, OffsetsExpire, vars, history
  <2>2. TickGoesOn
    BY <2>1 DEF TickGoesOn
  <2>3. QED
    BY <1>u, <2>1, <2>2
<1>9. CASE TimePasses
  <2>1. UNCHANGED <<obj, cm, tick, restarted>> /\ now' = now + 1
    BY <1>9 DEF TimePasses, history
  <2>2. TickGoesOn
    BY <2>1 DEF TickGoesOn
  <2>3. QED
    BY <1>t, <2>1, <2>2, UnchargedInv
<1>10. CASE HumanLosesMemory
  <2>1. UNCHANGED <<obj, now, tick, restarted>> /\ cm' = NoMemory
    BY <1>10 DEF HumanLosesMemory, history
  <2>2. TickGoesOn
    BY <2>1 DEF TickGoesOn
  <2>3. QED
    BY <1>t, <2>1, <2>2, UnchargedInv
<1>11. CASE OperatorSuspends
  BY <1>11, <1>r, <1>t DEF OperatorSuspends, Object
<1>12. CASE OperatorStarts
  BY <1>12, <1>r, <1>t DEF OperatorStarts, Object
<1>13. CASE OperatorSettles
  BY <1>13, <1>r, <1>t DEF OperatorSettles, Object
<1>14. CASE JobRecovers
  BY <1>14, <1>r, <1>t DEF JobRecovers, Object
<1>15. CASE JobFails
  <2>1. PICK out \in Outcomes :
            Report([obj EXCEPT !.lifecycle = out.lifecycle, !.job = out.job,
                               !.unrecoverable = out.unrecoverable])
    BY <1>15 DEF JobFails
  <2>2. QED
    BY <1>r, <1>t, <2>1 DEF Object
<1>16. CASE HumanSetsState
  <2>1. PICK s : Edit("state", [obj EXCEPT !.specJobState = s, !.generation = @ + 1])
    BY <1>16 DEF HumanSetsState
  <2>2. UNCHANGED restarted
    BY <1>16 DEF HumanSetsState
  <2>3. QED
    BY <1>e, <1>t, <2>1, <2>2 DEF Object
<1>17. CASE HumanEditsSpec
  <2>1. PICK u : Edit("spec", [obj EXCEPT !.upgradeMode = u, !.generation = @ + 1])
    BY <1>17 DEF HumanEditsSpec
  <2>2. UNCHANGED restarted
    BY <1>17 DEF HumanEditsSpec, history
  <2>3. QED
    BY <1>e, <1>t, <2>1, <2>2 DEF Object
<1>18. CASE HumanRestarts
  BY <1>18 DEF HumanRestarts, Edit
<1>19. CASE HumanSetsPolicy
  <2>1. PICK p : Edit("policy", [obj EXCEPT !.policy = p])
    BY <1>19 DEF HumanSetsPolicy
  <2>2. UNCHANGED restarted
    BY <1>19 DEF HumanSetsPolicy, history
  <2>3. QED
    BY <1>e, <1>t, <2>1, <2>2 DEF Object
<1>20. QED
  BY <1>1, <1>2, <1>3, <1>4, <1>5, <1>6, <1>7, <1>8, <1>9, <1>10, <1>11, <1>12, <1>13, <1>14,
     <1>15, <1>16, <1>17, <1>18, <1>19 DEF Next, Controller, Operator, Human

\* Memory and every tick account for all restarts but the last, which the object's nonce tells: with
\* ticks that read the object itself, a backoff, and nobody else writing spec.restartNonce, for any
\* number of lost saves, failures and edits.
THEOREM BudgetInvariant ==
    ASSUME MaxLag = 0, BaseBackoff > 0, "nonce" \notin Humans
    PROVE  Spec => []BudgetInv
<1>1. Init => BudgetInv
  <2> SUFFICES ASSUME Init PROVE BudgetInv
    OBVIOUS
  <2>a. restarted = {} /\ cm = NoMemory /\ tick.pc = "idle" /\ now = 1
    BY DEF Init, Idle
  <2>b. obj.restartNonce = 0
    <3>1. PICK p, u :
              obj = [specJobState |-> "running", upgradeMode |-> u, restartNonce |-> 0,
                     generation |-> 1, policy |-> p, mark |-> "none", reason |-> "",
                     lifecycle |-> "STABLE", job |-> "RUNNING", unrecoverable |-> FALSE,
                     lastNonce |-> 0]
      BY DEF Init
    <3>2. QED
      BY <3>1
  <2>1. restarted = {} /\ cm = NoMemory /\ tick.pc = "idle" /\ now = 1 /\ obj.restartNonce = 0
    BY <2>a, <2>b
  <2>2. QED
    BY <2>1, FS_EmptySet
       DEF BudgetInv, NonceInv, CoverInv, DueInv, Writing, RestartsSpaced, RestartsLimited
<1>2. TypeOK /\ BudgetInv /\ [Next]_vars => BudgetInv'
  BY BudgetNext
<1>3. QED
  BY <1>1, <1>2, TypeCorrect, PTL DEF Spec

\* A restart that opens no window of its own waits for the backoff after every restart before it,
\* the ones whose save was lost included (InBackoff and the nonce check of decide.go).
THEOREM RestartsAreSpaced ==
    ASSUME MaxLag = 0, BaseBackoff > 0, "nonce" \notin Humans
    PROVE  Spec => []RestartsSpaced
<1>1. BudgetInv => RestartsSpaced
  BY DEF BudgetInv
<1>2. QED
  BY <1>1, BudgetInvariant, PTL

\* No window has more than MaxRestarts restarts, the ones whose save was lost included (Exhausted).
THEOREM RestartsAreLimited ==
    ASSUME MaxLag = 0, BaseBackoff > 0, "nonce" \notin Humans
    PROVE  Spec => []RestartsLimited
<1>1. BudgetInv => RestartsLimited
  BY DEF BudgetInv
<1>2. QED
  BY <1>1, BudgetInvariant, PTL
=============================================================================
