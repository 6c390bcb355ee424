---------------------------- MODULE WatchProofs ----------------------------
(***************************************************************************)
(* A deployment with a policy stays scheduled (Watch), as long as a mode   *)
(* annotation reaches an existing deployment together with an annotation   *)
(* outside our prefix.                                                     *)
(***************************************************************************)
EXTENDS Watch, TLAPS

\* A created deployment is one.
LEMMA CreatedType ==
    ASSUME NEW uid \in Nat, NEW mode \in BOOLEAN
    PROVE  /\ Created(uid, mode) \in Deployment
           /\ Created(uid, mode).uid = uid
           /\ Created(uid, mode).mode = mode
           /\ Created(uid, mode).mark = "none"
BY DEF Created, Deployment, Marks

\* The tick of an idle worker is well formed.
LEMMA IdleTickType == IdleTick \in TickType
BY DEF IdleTick, TickType, Marks

\* The invariant and the schedule hold in the first state.
LEMMA WatchInit == Init => WatchInv /\ Scheduled
<1> SUFFICES ASSUME Init PROVE WatchInv /\ Scheduled
  OBVIOUS
<1>1. PICK m \in BOOLEAN : obj = Created(1, m)
  BY DEF Init
<1>2. obj \in Deployment /\ obj.uid = 1 /\ obj.mode = m
  BY <1>1, CreatedType
<1>3. obj # Absent
  BY <1>2, WatchAssumption
<1>4. TypeOK
  <2>1. tick \in TickType
    BY IdleTickType DEF Init
  <2>2. queue \in [dirty: BOOLEAN, timer: BOOLEAN, retry: BOOLEAN]
    <3>1. queue = [dirty |-> m, timer |-> FALSE, retry |-> FALSE]
      BY <1>2 DEF Init
    <3>2. QED
      BY <3>1
  <2>3. pending \in Seq(Deployment \cup {Absent}) /\ used \in [edits: Nat, faults: Nat]
    BY DEF Init
  <2>4. held \in BOOLEAN /\ memory \in Nat /\ read \in Nat
    BY DEF Init
  <2>5. QED
    BY <1>2, <2>1, <2>2, <2>3, <2>4 DEF Init, TypeOK
<1>5. VersionInv
  BY <1>2, <1>3 DEF Init, VersionInv, Version
<1>6. TickInv
  BY DEF Init, TickInv, IdleTick
<1>7. Scheduled
  BY <1>2 DEF Init, Scheduled
<1>8. QED
  BY <1>4, <1>5, <1>6, <1>7 DEF WatchInv
----------------------------------------------------------------------------
(* Versions *)

\* A version that is appended is ordered after the ones before it if it is ordered after the
\* present object and carries no older UID.
LEMMA WriteInv ==
    ASSUME WatchInv, NEW o \in Deployment \cup {Absent}, Write(o), cache' = cache,
           used' \in [edits: Nat, faults: Nat], used'.edits >= used.edits,
           o # Absent => o.uid <= used'.edits + 1,
           \A v \in Deployment \cup {Absent} :
               /\ v # Absent => v.uid <= used.edits + 1
               /\ v = obj \/ Before(v, obj)
               => Before(v, o)
    PROVE  VersionInv' /\ pending' \in Seq(Deployment \cup {Absent}) /\ obj' = o
<1> DEFINE n == Len(pending)
<1>1. pending \in Seq(Deployment \cup {Absent}) /\ n \in Nat
  BY DEF WatchInv, TypeOK
<1>2. obj' = o /\ pending' = Append(pending, o)
  BY DEF Write
<1>3. pending' \in Seq(Deployment \cup {Absent}) /\ Len(pending') = n + 1
  BY <1>1, <1>2
<1>4. \A i \in 0..n : Version(i)' = Version(i) /\ Version(i) \in Deployment \cup {Absent}
  BY <1>1, <1>2 DEF Version, WatchInv, TypeOK
<1>5. \A i \in 0..(n + 1) : i = n + 1 => Version(i)' = o
  BY <1>1, <1>2 DEF Version
<1>6. used.edits \in Nat /\ used'.edits \in Nat
  BY DEF WatchInv, TypeOK
<1>7. \A i \in 0..n : Version(i) # Absent => Version(i).uid <= used.edits + 1
  BY DEF WatchInv, VersionInv
<1>8. \A i \in 0..n : Before(Version(i), o)
  <2> TAKE i \in 0..n
  <2>1. Version(i) = obj \/ Before(Version(i), obj)
    BY <1>1 DEF WatchInv, VersionInv
  <2>2. QED
    BY <1>4, <1>7, <2>1
<1>9. \A i \in 0..(n + 1) : Version(i)' # Absent => Version(i)'.uid <= used'.edits + 1
  <2> SUFFICES ASSUME NEW i \in 0..(n + 1), Version(i)' # Absent
               PROVE  Version(i)'.uid <= used'.edits + 1
    OBVIOUS
  <2>1. CASE i \in 0..n
    <3>1. Version(i) \in Deployment /\ Version(i).uid <= used.edits + 1
      BY <1>4, <1>7, <2>1
    <3>2. Version(i).uid \in Nat
      BY <3>1 DEF Deployment
    <3>3. QED
      BY <1>4, <1>6, <2>1, <3>1, <3>2
  <2>2. CASE i = n + 1
    BY <1>5, <2>2
  <2>3. QED
    BY <1>1, <2>1, <2>2
<1>10. \A i, j \in 0..(n + 1) : i < j => Before(Version(i)', Version(j)')
  <2> SUFFICES ASSUME NEW i \in 0..(n + 1), NEW j \in 0..(n + 1), i < j
               PROVE  Before(Version(i)', Version(j)')
    OBVIOUS
  <2>1. i \in 0..n
    BY <1>1
  <2>2. CASE j = n + 1
    BY <1>4, <1>5, <1>8, <2>1, <2>2
  <2>3. CASE j \in 0..n
    <3>1. Before(Version(i), Version(j))
      BY <2>1, <2>3 DEF WatchInv, VersionInv
    <3>2. QED
      BY <1>4, <2>1, <2>3, <3>1
  <2>4. QED
    BY <1>1, <2>2, <2>3
<1>11. Version(Len(pending))' = obj'
  BY <1>1, <1>2, <1>3 DEF Version
<1>12. VersionInv'
  BY <1>3, <1>9, <1>10, <1>11 DEF VersionInv, Before
<1>13. QED
  BY <1>2, <1>3, <1>12

\* Writes that leave UID, mode and foreign annotations alone keep the order.
LEMMA SameMode ==
    ASSUME NEW o \in Deployment, NEW p \in Deployment,
           p.uid = o.uid, p.mode = o.mode, p.foreign = o.foreign,
           NEW v \in Deployment \cup {Absent}, v = o \/ Before(v, o)
    PROVE  Before(v, p)
BY WatchAssumption DEF Before, Deployment

\* Steps that leave the object and the informer alone keep the versions.
LEMMA QuietInv ==
    ASSUME VersionInv, UNCHANGED <<obj, pending, cache>>,
           used \in [edits: Nat, faults: Nat], used' \in [edits: Nat, faults: Nat],
           used'.edits = used.edits
    PROVE  VersionInv'
BY DEF VersionInv, Version, Before

\* Delivery moves every version one place forward.
LEMMA DeliverInv ==
    ASSUME WatchInv, Deliver
    PROVE  VersionInv' /\ cache' \in Deployment \cup {Absent}
           /\ pending' \in Seq(Deployment \cup {Absent})
<1> DEFINE n == Len(pending)
<1>1. pending \in Seq(Deployment \cup {Absent}) /\ pending # <<>> /\ n \in Nat \ {0}
  BY DEF WatchInv, TypeOK, Deliver
<1>2. cache' = pending[1] /\ pending' = Tail(pending) /\ obj' = obj /\ used' = used
  BY <1>1 DEF Deliver
<1>3. pending' \in Seq(Deployment \cup {Absent}) /\ Len(pending') = n - 1
  BY <1>1, <1>2
<1>4. \A i \in 0..(n - 1) : Version(i)' = Version(i + 1)
  BY <1>1, <1>2, <1>3 DEF Version
<1>5. Version(Len(pending))' = obj'
  <2>1. Version(n) = obj
    BY DEF WatchInv, VersionInv
  <2>2. CASE n = 1
    BY <1>1, <1>2, <1>3, <2>1, <2>2 DEF Version
  <2>3. CASE n > 1
    BY <1>1, <1>2, <1>3, <2>1, <2>3 DEF Version
  <2>4. n = 1 \/ n > 1
    BY <1>1
  <2>5. QED
    BY <2>2, <2>3, <2>4
<1>6. \A i \in 0..(n - 1) : Version(i)' # Absent => Version(i)'.uid <= used'.edits + 1
  BY <1>1, <1>2, <1>4 DEF WatchInv, VersionInv
<1>7. \A i, j \in 0..(n - 1) : i < j => Before(Version(i)', Version(j)')
  <2> SUFFICES ASSUME NEW i \in 0..(n - 1), NEW j \in 0..(n - 1), i < j
               PROVE  Before(Version(i)', Version(j)')
    OBVIOUS
  <2>1. Before(Version(i + 1), Version(j + 1))
    BY <1>1 DEF WatchInv, VersionInv
  <2>2. QED
    BY <1>4, <2>1
<1>8. VersionInv'
  BY <1>3, <1>5, <1>6, <1>7 DEF VersionInv, Before
<1>9. QED
  BY <1>1, <1>2, <1>3, <1>8

\* A list shows the present version and leaves nothing to deliver.
LEMMA ListInv ==
    ASSUME WatchInv, cache' = obj, pending' = <<>>, obj' = obj,
           used' \in [edits: Nat, faults: Nat], used'.edits = used.edits
    PROVE  VersionInv'
<1>1. pending \in Seq(Deployment \cup {Absent}) /\ Len(pending) \in Nat
  BY DEF WatchInv, TypeOK
<1>2. obj # Absent => obj.uid <= used.edits + 1
  BY <1>1 DEF WatchInv, VersionInv
<1>3. Len(pending') = 0 /\ \A i \in 0..0 : Version(i)' = obj
  BY DEF Version
<1>4. Version(Len(pending))' = obj'
  BY <1>3 DEF Version
<1>5. QED
  BY <1>2, <1>3, <1>4 DEF VersionInv, Before

\* The write an edit makes keeps the order, if the edited version is in order.
LEMMA EditInv ==
    ASSUME WatchInv, NEW o \in Deployment \cup {Absent}, Edit(o),
           o # Absent => o.uid <= used.edits + 2,
           \A v \in Deployment \cup {Absent} :
               /\ v # Absent => v.uid <= used.edits + 1
               /\ v = obj \/ Before(v, obj)
               => Before(v, o)
    PROVE  VersionInv' /\ TypeOK' /\ UNCHANGED <<cache, queue, tick>>
<1> DEFINE p == IF o = Absent THEN o ELSE [o EXCEPT !.rev = used.edits + 1]
<1>1. used \in [edits: Nat, faults: Nat] /\ used' = [used EXCEPT !.edits = @ + 1]
  BY DEF WatchInv, TypeOK, Edit
<1>2. used' \in [edits: Nat, faults: Nat] /\ used'.edits = used.edits + 1 /\ used.edits \in Nat
  BY <1>1
<1>3. p \in Deployment \cup {Absent}
  BY <1>2 DEF Deployment
<1>4. p # Absent => o # Absent /\ p.uid = o.uid /\ p.mode = o.mode /\ p.foreign = o.foreign
  BY DEF Deployment
<1>5. Write(p) /\ UNCHANGED <<cache, queue, tick, held, memory, read>>
  BY DEF Edit
<1>6. p # Absent => p.uid <= used'.edits + 1
  BY <1>2, <1>4
<1> HIDE DEF p
<1>7. \A v \in Deployment \cup {Absent} :
          /\ v # Absent => v.uid <= used.edits + 1
          /\ v = obj \/ Before(v, obj)
          => Before(v, p)
  <2> SUFFICES ASSUME NEW v \in Deployment \cup {Absent},
                      v # Absent => v.uid <= used.edits + 1,
                      v = obj \/ Before(v, obj)
               PROVE  Before(v, p)
    OBVIOUS
  <2>1. Before(v, o)
    OBVIOUS
  <2>2. QED
    BY <1>4, <2>1 DEF Before
<1>8. used'.edits >= used.edits
  BY <1>2
<1>9. VersionInv' /\ pending' \in Seq(Deployment \cup {Absent}) /\ obj' = p
  BY <1>2, <1>3, <1>5, <1>6, <1>7, <1>8, WriteInv
<1>10. QED
  BY <1>2, <1>3, <1>5, <1>9 DEF WatchInv, TypeOK
----------------------------------------------------------------------------
(* Steps *)

\* What an update event that does not pass tells of a deployment with a policy: it had one before.
LEMMA NotPassed ==
    ASSUME NEW old \in Deployment \cup {Absent}, NEW new \in Deployment,
           Before(old, new), new.mode, ~Passes(old, new)
    PROVE  old # Absent /\ old.mode
BY WatchAssumption DEF Passes, Ours, ChangedOutside, Live, Before, Deployment

\* The queue keeps its shape, and what is in it, when the informer reports.
LEMMA NotifyType ==
    ASSUME queue \in [dirty: BOOLEAN, timer: BOOLEAN, retry: BOOLEAN],
           NEW b \in BOOLEAN, queue' = [queue EXCEPT !.dirty = @ \/ b]
    PROVE  /\ queue' \in [dirty: BOOLEAN, timer: BOOLEAN, retry: BOOLEAN]
           /\ queue'.timer = queue.timer /\ queue'.retry = queue.retry
           /\ queue'.dirty = (queue.dirty \/ b)
OBVIOUS

\* Passes is a Boolean.
LEMMA PassesType ==
    ASSUME NEW old \in Deployment \cup {Absent}, NEW new \in Deployment \cup {Absent}
    PROVE  Passes(old, new) \in BOOLEAN
BY DEF Passes, Ours, ChangedOutside, Deployment

\* A deployment stays scheduled when the informer shows a version ordered after the one before.
LEMMA NotifyScheduled ==
    ASSUME WatchInv, Scheduled, Notify(cache, cache'), tick' = tick,
           cache' \in Deployment \cup {Absent}, Before(cache, cache')
    PROVE  Scheduled' /\ queue' \in [dirty: BOOLEAN, timer: BOOLEAN, retry: BOOLEAN]
<1> DEFINE b == Passes(cache, cache')
<1>1. queue \in [dirty: BOOLEAN, timer: BOOLEAN, retry: BOOLEAN] /\ cache \in Deployment \cup {Absent}
  BY DEF WatchInv, TypeOK
<1>2. b \in BOOLEAN
  BY <1>1, PassesType
<1>3. queue' = [queue EXCEPT !.dirty = @ \/ b]
  BY DEF Notify
<1> HIDE DEF b
<1>4. /\ queue' \in [dirty: BOOLEAN, timer: BOOLEAN, retry: BOOLEAN]
      /\ queue'.timer = queue.timer /\ queue'.retry = queue.retry
      /\ queue'.dirty = (queue.dirty \/ b)
  BY <1>1, <1>2, <1>3, NotifyType
<1>5. ASSUME cache' # Absent, cache'.mode
      PROVE  queue'.dirty \/ queue'.timer \/ queue'.retry \/ (tick'.pc # "idle" /\ tick'.fd.mode)
  <2>1. CASE b
    BY <1>4, <2>1
  <2>2. CASE ~b
    <3>1. cache # Absent /\ cache.mode
      BY <1>1, <1>5, <2>2, NotPassed DEF b
    <3>2. QED
      BY <1>4, <3>1 DEF Scheduled
  <2>3. QED
    BY <2>1, <2>2
<1>6. QED
  BY <1>4, <1>5 DEF Scheduled

\* The steps of the informer and of a process that starts.
LEMMA InformerStep ==
    ASSUME WatchInv, Scheduled, Deliver \/ Relist \/ ProcessRestarts
    PROVE  WatchInv' /\ Scheduled'
<1> DEFINE D == Deployment \cup {Absent}
<1>1. CASE Deliver
  <2>1. VersionInv' /\ cache' \in D /\ pending' \in Seq(D)
    BY <1>1, DeliverInv
  <2>2. Before(cache, cache') /\ Notify(cache, cache')
    <3>1. pending \in Seq(D) /\ pending # <<>> /\ Len(pending) \in Nat \ {0}
      BY <1>1 DEF Deliver, WatchInv, TypeOK
    <3>2. Version(0) = cache /\ Version(1) = pending[1] /\ cache' = pending[1]
      BY <1>1, <3>1 DEF Version, Deliver
    <3>3. Before(Version(0), Version(1))
      BY <3>1 DEF WatchInv, VersionInv
    <3>4. Before(cache, cache')
      BY <3>2, <3>3
    <3>5. QED
      BY <1>1, <3>4 DEF Deliver
  <2>3. UNCHANGED <<obj, tick, held, memory, read, used>>
    BY <1>1 DEF Deliver
  <2>4. Scheduled' /\ queue' \in [dirty: BOOLEAN, timer: BOOLEAN, retry: BOOLEAN]
    BY <2>1, <2>2, <2>3, NotifyScheduled
  <2>5. TypeOK'
    BY <2>1, <2>3, <2>4 DEF WatchInv, TypeOK
  <2>6. TickInv'
    BY <2>3 DEF WatchInv, TickInv
  <2>7. QED
    BY <2>1, <2>4, <2>5, <2>6 DEF WatchInv
<1>2. CASE Relist
  <2>1. cache' = obj /\ pending' = <<>> /\ UNCHANGED <<obj, tick, held, memory, read>>
        /\ Notify(cache, cache')
    BY <1>2 DEF Relist
  <2>2. used' \in [edits: Nat, faults: Nat] /\ used'.edits = used.edits
    BY <1>2 DEF Relist, Fault, WatchInv, TypeOK
  <2>3. VersionInv'
    BY <2>1, <2>2, ListInv
  <2>4. Before(cache, cache')
    <3>1. pending \in Seq(D) /\ Len(pending) \in Nat /\ Len(pending) > 1
      BY <1>2 DEF Relist, WatchInv, TypeOK
    <3>2. Version(0) = cache /\ Version(Len(pending)) = obj
      BY DEF Version, WatchInv, VersionInv
    <3>3. Before(Version(0), Version(Len(pending)))
      BY <3>1 DEF WatchInv, VersionInv
    <3>4. QED
      BY <2>1, <3>2, <3>3
  <2>5. cache' \in D
    BY <2>1 DEF WatchInv, TypeOK
  <2>6. Scheduled' /\ queue' \in [dirty: BOOLEAN, timer: BOOLEAN, retry: BOOLEAN]
    BY <2>1, <2>4, <2>5, NotifyScheduled
  <2>7. TypeOK'
    BY <2>1, <2>2, <2>5, <2>6 DEF WatchInv, TypeOK
  <2>8. TickInv'
    BY <2>1 DEF WatchInv, TickInv
  <2>9. QED
    BY <2>3, <2>6, <2>7, <2>8 DEF WatchInv
<1>3. CASE ProcessRestarts
  <2> DEFINE b == obj # Absent /\ Passes(Absent, obj)
  <2>1. cache' = obj /\ pending' = <<>> /\ UNCHANGED <<obj, memory, read>>
        /\ tick' = IdleTick /\ held' = FALSE
        /\ queue' = [dirty |-> b, timer |-> FALSE, retry |-> FALSE]
    BY <1>3 DEF ProcessRestarts
  <2>2. used' \in [edits: Nat, faults: Nat] /\ used'.edits = used.edits
    BY <1>3 DEF ProcessRestarts, Fault, WatchInv, TypeOK
  <2>3. VersionInv'
    BY <2>1, <2>2, ListInv
  <2>4. b \in BOOLEAN
    BY PassesType DEF WatchInv, TypeOK
  <2>5. obj # Absent /\ obj.mode => b
    BY DEF Passes, Ours
  <2> HIDE DEF b
  <2>6. queue' \in [dirty: BOOLEAN, timer: BOOLEAN, retry: BOOLEAN] /\ queue'.dirty = b
    BY <2>1, <2>4
  <2>7. Scheduled'
    BY <2>1, <2>5, <2>6 DEF Scheduled
  <2>8. TypeOK'
    <3>1. pending' \in Seq(D)
      BY <2>1
    <3>2. held' \in BOOLEAN
      BY <2>1
    <3>3. QED
      BY <2>1, <2>2, <2>6, <3>1, <3>2, IdleTickType DEF WatchInv, TypeOK
  <2>9. TickInv'
    BY <2>1 DEF TickInv, IdleTick
  <2>10. QED
    BY <2>3, <2>7, <2>8, <2>9 DEF WatchInv
<1>4. QED
  BY <1>1, <1>2, <1>3

\* The timers put the deployment into the queue.
LEMMA TimerStep ==
    ASSUME WatchInv, Scheduled, TimerFires \/ RetryFires
    PROVE  WatchInv' /\ Scheduled'
<1>1. UNCHANGED <<obj, pending, cache, tick, held, memory, read, used>>
  BY DEF TimerFires, RetryFires
<1>2. queue' \in [dirty: BOOLEAN, timer: BOOLEAN, retry: BOOLEAN] /\ queue'.dirty
  BY DEF TimerFires, RetryFires, WatchInv, TypeOK
<1>3. TypeOK' /\ TickInv'
  BY <1>1, <1>2 DEF WatchInv, TypeOK, TickInv
<1>4. VersionInv'
  BY <1>1, QuietInv DEF WatchInv, TypeOK
<1>5. Scheduled'
  BY <1>2 DEF Scheduled
<1>6. QED
  BY <1>3, <1>4, <1>5 DEF WatchInv

\* A decision is a tick for the deployment it was made for, and it marks the deployment.
LEMMA DecisionsType ==
    ASSUME NEW fd \in Deployment, fd.mode, NEW t \in Decisions(fd)
    PROVE  t \in TickType /\ t.pc \in {"save", "patch"} /\ t.fd = fd /\ t.mark # "none"
<1>1. Phase(fd) \in {"active", "suspended"}
  BY DEF Phase
<1>2. QED
  BY <1>1 DEF Decisions, TickType, Marks

\* The beginning of a tick.
LEMMA StartStep ==
    ASSUME WatchInv, Scheduled, Forget \/ Reconcile \/ Release
    PROVE  WatchInv' /\ Scheduled'
<1> DEFINE Q == [dirty: BOOLEAN, timer: BOOLEAN, retry: BOOLEAN]
<1>1. UNCHANGED <<obj, pending, cache, memory, used>>
  BY DEF Forget, Reconcile, Release
<1>2. VersionInv'
  BY <1>1, QuietInv DEF WatchInv, TypeOK
<1>3. cache \in Deployment \cup {Absent} /\ read \in Nat /\ queue \in Q /\ tick \in TickType
  BY DEF WatchInv, TypeOK
<1>4. cache # Absent => Later(read, cache.rev) \in Nat
  BY <1>3 DEF Later, Deployment
<1>5. CASE Forget
  <2>1. queue' \in Q /\ held' = FALSE /\ UNCHANGED <<tick, read>> /\ cache' = Absent
    BY <1>3, <1>5 DEF Forget
  <2>2. QED
    BY <1>1, <1>2, <2>1 DEF WatchInv, TypeOK, TickInv, Scheduled
<1>6. CASE Reconcile
  <2>1. cache \in Deployment /\ cache.mode /\ tick' \in Decisions(cache) /\ held' = TRUE
        /\ read' \in Nat
    BY <1>3, <1>4, <1>6 DEF Reconcile
  <2>2. queue' \in Q
    BY <1>3, <1>6 DEF Reconcile
  <2>3. tick' \in TickType /\ tick'.pc \in {"save", "patch"} /\ tick'.fd = cache /\ tick'.mark # "none"
    BY <2>1, DecisionsType
  <2>4. TickInv'
    BY <2>1, <2>3, WatchAssumption DEF TickInv
  <2>5. TypeOK'
    BY <1>1, <2>1, <2>2, <2>3 DEF WatchInv, TypeOK
  <2>6. Scheduled'
    BY <1>1, <2>1, <2>3 DEF Scheduled
  <2>7. QED
    BY <1>2, <2>4, <2>5, <2>6 DEF WatchInv
<1>7. CASE Release
  <2> DEFINE ours == cache.mark = "suspended" /\ cache.asleep
             wait == ours /\ ~cache.done
             work == ReleaseTick(cache, IF ours THEN "running" ELSE "keep")
  <2>1. cache \in Deployment /\ ~cache.mode /\ held' = held /\ read' \in Nat
    BY <1>3, <1>4, <1>7 DEF Release
  <2>2. queue' = [queue EXCEPT !.dirty = FALSE, !.timer = @ \/ wait]
    BY <1>7 DEF Release
  <2>3. wait \in BOOLEAN
    OBVIOUS
  <2>4. tick' = IdleTick \/ tick' = work
    BY <1>7 DEF Release
  <2>5. work \in TickType /\ work.pc = "patch" /\ work.fd = cache /\ work.mark = "none"
    BY <2>1 DEF ReleaseTick, TickType, Marks
  <2> HIDE DEF wait, work
  <2>6. queue' \in Q
    BY <1>3, <2>2, <2>3
  <2>7. tick' \in TickType
    BY <2>4, <2>5, IdleTickType
  <2>8. TickInv'
    BY <2>1, <2>4, <2>5, WatchAssumption DEF TickInv, IdleTick
  <2>9. TypeOK'
    BY <1>1, <2>1, <2>6, <2>7 DEF WatchInv, TypeOK
  <2>10. Scheduled'
    BY <1>1, <2>1 DEF Scheduled
  <2>11. QED
    BY <1>2, <2>8, <2>9, <2>10 DEF WatchInv
<1>8. QED
  BY <1>5, <1>6, <1>7

\* A tick that ends in an error is tried again.
LEMMA RetryStep ==
    ASSUME WatchInv, Retry
    PROVE  /\ queue' \in [dirty: BOOLEAN, timer: BOOLEAN, retry: BOOLEAN] /\ queue'.retry
           /\ tick' \in TickType /\ TickInv' /\ Scheduled'
<1>1. queue' \in [dirty: BOOLEAN, timer: BOOLEAN, retry: BOOLEAN] /\ queue'.retry
  BY DEF WatchInv, TypeOK, Retry
<1>2. tick' = IdleTick
  BY DEF Retry
<1>3. QED
  BY <1>1, <1>2, IdleTickType DEF TickInv, Scheduled, IdleTick

\* The patch keeps UID, mode and foreign annotations.
LEMMA PatchedType ==
    ASSUME NEW o \in Deployment, tick \in TickType
    PROVE  /\ Patched(o) \in Deployment
           /\ Patched(o).uid = o.uid /\ Patched(o).mode = o.mode /\ Patched(o).foreign = o.foreign
<1> DEFINE asleep == IF tick.spec = "keep" THEN o.asleep ELSE tick.spec = "suspended"
           generation == IF asleep # o.asleep THEN o.generation + 1 ELSE o.generation
<1>1. asleep \in BOOLEAN
  BY DEF Deployment
<1>2. generation \in Nat
  BY DEF Deployment
<1>3. tick.mark \in Marks
  BY DEF TickType
<1>4. Patched(o) = [o EXCEPT !.asleep = asleep, !.mark = tick.mark, !.generation = generation]
  BY DEF Patched, Deployment
<1> HIDE DEF asleep, generation
<1>5. QED
  BY <1>1, <1>2, <1>3, <1>4 DEF Deployment

\* The writes of a tick.
LEMMA WritesStep ==
    ASSUME WatchInv, Scheduled, Patch \/ Save \/ Delete \/ CallFails
    PROVE  WatchInv' /\ Scheduled'
<1> DEFINE Q == [dirty: BOOLEAN, timer: BOOLEAN, retry: BOOLEAN]
           D == Deployment \cup {Absent}
<1>1. obj \in D /\ tick \in TickType /\ queue \in Q /\ used \in [edits: Nat, faults: Nat] /\ memory \in Nat
  BY DEF WatchInv, TypeOK
<1>2. CASE Patch
  <2>1. tick.pc = "patch" /\ UNCHANGED <<cache, held, memory, read, used>>
    BY <1>2 DEF Patch
  <2>2. CASE obj # Absent /\ obj.asleep = tick.fd.asleep
    <3>1. obj \in Deployment
      BY <1>1, <2>2
    <3>2. queue' = queue
          /\ tick' = [tick EXCEPT !.pc = IF tick.mark = "none" THEN "delete" ELSE "save"]
      BY <1>2, <2>2 DEF Patch
    <3>3. tick' \in TickType /\ TickInv' /\ tick'.pc # "idle" /\ tick'.fd = tick.fd
      BY <1>1, <2>1, <3>2 DEF TickType, WatchInv, TickInv
    <3>4. Scheduled'
      BY <2>1, <3>2, <3>3 DEF Scheduled
    <3>5. VersionInv' /\ pending' \in Seq(D) /\ obj' \in D
      <4>1. CASE UNCHANGED <<obj, pending>>
        BY <1>1, <2>1, <4>1, QuietInv DEF WatchInv, TypeOK
      <4>2. CASE Write(Patched(obj))
        <5>1. /\ Patched(obj) \in Deployment /\ Patched(obj).uid = obj.uid
              /\ Patched(obj).mode = obj.mode /\ Patched(obj).foreign = obj.foreign
          BY <1>1, <3>1, PatchedType
        <5>2. obj.uid <= used.edits + 1
          BY <2>2 DEF WatchInv, VersionInv, TypeOK
        <5>3. \A v \in D : v = obj \/ Before(v, obj) => Before(v, Patched(obj))
          BY <3>1, <5>1, SameMode
        <5>4. used' \in [edits: Nat, faults: Nat] /\ used'.edits >= used.edits /\ used' = used
          BY <1>1, <2>1
        <5>5. cache' = cache
          BY <2>1
        <5> HIDE DEF D
        <5>6. QED
          BY <4>2, <5>1, <5>2, <5>3, <5>4, <5>5, WriteInv DEF D
      <4>3. QED
        BY <1>2, <2>2, <4>1, <4>2 DEF Patch
    <3>6. TypeOK'
      BY <2>1, <3>2, <3>3, <3>5 DEF WatchInv, TypeOK
    <3>7. QED
      BY <3>3, <3>4, <3>5, <3>6 DEF WatchInv
  <2>3. CASE ~(obj # Absent /\ obj.asleep = tick.fd.asleep)
    <3>1. Retry /\ UNCHANGED <<obj, pending>>
      BY <1>2, <2>3 DEF Patch
    <3>2. VersionInv'
      BY <1>1, <2>1, <3>1, QuietInv DEF WatchInv
    <3>3. TypeOK' /\ TickInv' /\ Scheduled'
      BY <2>1, <3>1, RetryStep DEF WatchInv, TypeOK
    <3>4. QED
      BY <3>2, <3>3 DEF WatchInv
  <2>4. QED
    BY <2>2, <2>3
<1>3. CASE Save
  <2>1. UNCHANGED <<obj, pending, cache, held, read, used>> /\ tick' = IdleTick
        /\ memory' = tick.fd.uid /\ tick.pc = "save"
    BY <1>3 DEF Save
  <2>2. queue' \in Q /\ queue'.timer
    BY <1>1, <1>3 DEF Save
  <2>3. memory' \in Nat
    BY <1>1, <2>1 DEF WatchInv, TickInv, TickType, Deployment
  <2>4. VersionInv'
    BY <1>1, <2>1, QuietInv DEF WatchInv
  <2>5. TypeOK'
    BY <2>1, <2>2, <2>3, IdleTickType DEF WatchInv, TypeOK
  <2>6. TickInv' /\ Scheduled'
    BY <2>1, <2>2 DEF TickInv, IdleTick, Scheduled
  <2>7. QED
    BY <2>4, <2>5, <2>6 DEF WatchInv
<1>4. CASE Delete
  <2>1. UNCHANGED <<obj, pending, cache, queue, read, used>> /\ tick' = IdleTick
        /\ memory' = 0 /\ held' = FALSE /\ tick.pc = "delete"
    BY <1>4 DEF Delete
  <2>2. ~tick.fd.mode
    BY <2>1 DEF WatchInv, TickInv
  <2>3. VersionInv'
    BY <1>1, <2>1, QuietInv DEF WatchInv
  <2>4. TypeOK'
    BY <2>1, IdleTickType DEF WatchInv, TypeOK
  <2>5. TickInv' /\ Scheduled'
    BY <2>1, <2>2 DEF TickInv, IdleTick, Scheduled
  <2>6. QED
    BY <2>3, <2>4, <2>5 DEF WatchInv
<1>5. CASE CallFails
  <2>1. Retry /\ UNCHANGED <<obj, pending, cache, held, memory, read>>
    BY <1>5 DEF CallFails
  <2>2. used' \in [edits: Nat, faults: Nat] /\ used'.edits = used.edits
    BY <1>1, <1>5 DEF CallFails, Fault
  <2>3. VersionInv'
    BY <1>1, <2>1, <2>2, QuietInv DEF WatchInv
  <2>4. TypeOK' /\ TickInv' /\ Scheduled'
    BY <2>1, <2>2, RetryStep DEF WatchInv, TypeOK
  <2>5. QED
    BY <2>3, <2>4 DEF WatchInv
<1>6. QED
  BY <1>2, <1>3, <1>4, <1>5

\* The operator's report and the garbage collector.
LEMMA ClusterStep ==
    ASSUME WatchInv, Scheduled, OperatorReports \/ CollectGarbage
    PROVE  WatchInv' /\ Scheduled'
<1> DEFINE D == Deployment \cup {Absent}
<1>1. UNCHANGED <<cache, queue, tick, held, read, used>>
  BY DEF OperatorReports, CollectGarbage
<1>2. used \in [edits: Nat, faults: Nat] /\ obj \in D
  BY DEF WatchInv, TypeOK
<1>3. TickInv' /\ Scheduled'
  BY <1>1 DEF WatchInv, TickInv, Scheduled
<1>4. CASE OperatorReports
  <2> DEFINE o == [obj EXCEPT !.done = obj.asleep]
  <2>1. obj \in Deployment /\ memory' = memory /\ Write(o)
    BY <1>2, <1>4 DEF OperatorReports
  <2>2. o \in Deployment /\ o.uid = obj.uid /\ o.mode = obj.mode /\ o.foreign = obj.foreign
    BY <2>1 DEF Deployment
  <2> HIDE DEF o
  <2>3. obj.uid <= used.edits + 1
    BY <2>1, WatchAssumption DEF WatchInv, VersionInv, TypeOK
  <2>4. \A v \in Deployment \cup {Absent} : v = obj \/ Before(v, obj) => Before(v, o)
    BY <2>1, <2>2, SameMode
  <2>5. used'.edits >= used.edits /\ used' \in [edits: Nat, faults: Nat] /\ cache' = cache /\ used' = used
    BY <1>1, <1>2
  <2>6. VersionInv' /\ pending' \in Seq(Deployment \cup {Absent}) /\ obj' = o
    BY <2>1, <2>2, <2>3, <2>4, <2>5, WriteInv
  <2>7. TypeOK'
    BY <1>1, <2>1, <2>2, <2>6 DEF WatchInv, TypeOK
  <2>8. QED
    BY <1>3, <2>6, <2>7 DEF WatchInv
<1>5. CASE CollectGarbage
  <2>1. UNCHANGED <<obj, pending>> /\ memory' = 0
    BY <1>5 DEF CollectGarbage
  <2>2. VersionInv'
    BY <1>1, <1>2, <2>1, QuietInv DEF WatchInv
  <2>3. TypeOK'
    BY <1>1, <2>1 DEF WatchInv, TypeOK
  <2>4. QED
    BY <1>3, <2>2, <2>3 DEF WatchInv
<1>6. QED
  BY <1>4, <1>5

\* Humans: the policy's annotations, the mode, the spec, and the deployment itself.
LEMMA HumanStep ==
    ASSUME WatchInv, Scheduled, OptIns \subseteq {"apply"}, Human
    PROVE  WatchInv' /\ Scheduled'
<1> DEFINE D == Deployment \cup {Absent}
           InOrder(o) == \A v \in D : /\ v # Absent => v.uid <= used.edits + 1
                                      /\ v = obj \/ Before(v, obj)
                                      => Before(v, o)
<1>1. used \in [edits: Nat, faults: Nat] /\ used.edits \in Nat /\ obj \in D
  BY DEF WatchInv, TypeOK
<1>2. obj # Absent => obj \in Deployment /\ obj.uid \in Nat /\ obj.uid <= used.edits + 1
  BY <1>1 DEF WatchInv, VersionInv, TypeOK, Deployment
<1>3. ASSUME NEW o \in D, Edit(o), o # Absent => o.uid <= used.edits + 2, InOrder(o)
      PROVE  WatchInv' /\ Scheduled'
  <2>1. VersionInv' /\ TypeOK' /\ UNCHANGED <<cache, queue, tick>>
    BY <1>3, EditInv
  <2>2. QED
    BY <2>1 DEF WatchInv, TickInv, Scheduled
<1>4. CASE EditPolicy
  <2>1. PICK m \in BOOLEAN : Edit([obj EXCEPT !.mode = m])
    BY <1>4 DEF EditPolicy
  <2> DEFINE o == [obj EXCEPT !.mode = m]
  <2>2. obj # Absent /\ obj \in Deployment /\ obj.mode
    BY <1>2, <1>4 DEF EditPolicy
  <2>3. o \in Deployment /\ o.uid = obj.uid /\ o.foreign = obj.foreign
    BY <2>2 DEF Deployment
  <2>4. InOrder(o)
    BY <2>2, <2>3, WatchAssumption DEF Before, Deployment
  <2>5. o.uid <= used.edits + 2
    BY <1>1, <1>2, <2>2, <2>3
  <2> HIDE DEF o
  <2>6. QED
    BY <1>3, <2>1, <2>3, <2>4, <2>5 DEF o
<1>5. CASE OptIn
  <2>1. PICK way \in OptIns :
            Edit([obj EXCEPT !.mode = TRUE, !.foreign = IF way = "apply" THEN @ + 1 ELSE @])
    BY <1>5 DEF OptIn
  <2> DEFINE o == [obj EXCEPT !.mode = TRUE, !.foreign = @ + 1]
  <2>2. way = "apply"
    OBVIOUS
  <2>3. Edit(o)
    BY <2>1, <2>2
  <2>4. obj # Absent /\ obj \in Deployment
    BY <1>2, <1>5 DEF OptIn
  <2>5. o \in Deployment /\ o.uid = obj.uid /\ o.foreign = obj.foreign + 1 /\ obj.foreign \in Nat
    <3>1. obj.foreign \in Nat
      BY <2>4 DEF Deployment
    <3>2. PICK t \in BOOLEAN : t = TRUE
      OBVIOUS
    <3>3. PICK f \in Nat : f = obj.foreign + 1
      BY <3>1
    <3>4. [obj EXCEPT !.mode = t, !.foreign = f] \in Deployment
      BY <2>4 DEF Deployment
    <3>5. o = [obj EXCEPT !.mode = t, !.foreign = f]
      BY <3>2, <3>3
    <3>6. o.uid = obj.uid /\ o.foreign = f
      BY <2>4, <3>5 DEF Deployment
    <3>7. QED
      BY <3>1, <3>3, <3>4, <3>5, <3>6
  <2>6. InOrder(o)
    BY <2>4, <2>5, WatchAssumption DEF Before, Deployment
  <2>7. o.uid <= used.edits + 2
    BY <1>1, <1>2, <2>4, <2>5
  <2> HIDE DEF o
  <2>8. QED
    BY <1>3, <2>3, <2>5, <2>6, <2>7
<1>6. CASE EditSpec
  <2> DEFINE o == [obj EXCEPT !.generation = @ + 1]
  <2>1. obj # Absent /\ obj \in Deployment /\ Edit(o)
    BY <1>2, <1>6 DEF EditSpec
  <2>2. o \in Deployment /\ o.uid = obj.uid /\ o.mode = obj.mode /\ o.foreign = obj.foreign
    BY <2>1 DEF Deployment
  <2> HIDE DEF o
  <2>3. InOrder(o)
    BY <2>1, <2>2, SameMode
  <2>4. o.uid <= used.edits + 2
    BY <1>1, <1>2, <2>1, <2>2
  <2>5. QED
    BY <1>3, <2>1, <2>2, <2>3, <2>4
<1>7. CASE DeleteDeployment
  <2>1. Edit(Absent)
    BY <1>7 DEF DeleteDeployment
  <2>2. InOrder(Absent)
    BY DEF Before
  <2>3. QED
    BY <1>3, <2>1, <2>2
<1>8. CASE CreateDeployment
  <2>1. PICK m \in BOOLEAN : Edit(Created(used.edits + 2, m))
    BY <1>8 DEF CreateDeployment
  <2> DEFINE o == Created(used.edits + 2, m)
  <2>2. o \in Deployment /\ o.uid = used.edits + 2
    BY <1>1, CreatedType
  <2> HIDE DEF o
  <2>3. InOrder(o)
    BY <1>1, <2>2 DEF Before, Deployment
  <2>4. QED
    BY <1>1, <1>3, <2>1, <2>2, <2>3 DEF o
<1>9. QED
  BY <1>4, <1>5, <1>6, <1>7, <1>8 DEF Human
----------------------------------------------------------------------------
\* Every step keeps the invariant and the schedule.
LEMMA WatchNext ==
    ASSUME OptIns \subseteq {"apply"}, WatchInv /\ Scheduled, [Next]_vars
    PROVE  (WatchInv /\ Scheduled)'
<1>1. CASE UNCHANGED vars
  <2>1. VersionInv'
    BY <1>1, QuietInv DEF vars, WatchInv, TypeOK
  <2>2. QED
    BY <1>1, <2>1 DEF vars, WatchInv, TypeOK, TickInv, Scheduled
<1>2. CASE Next
  BY <1>2, InformerStep, TimerStep, StartStep, WritesStep, ClusterStep, HumanStep DEF Next, Tick
<1>3. QED
  BY <1>1, <1>2

\* What the schedule rests on is invariant: versions stay in order between the API server, the
\* informer's cache and the tick, and a tick that has returned left a timer (Reconcile, events).
THEOREM WatchInvariant ==
    ASSUME OptIns \subseteq {"apply"}
    PROVE  Spec => [](WatchInv /\ Scheduled)
<1>1. Init => WatchInv /\ Scheduled
  BY WatchInit
<1>2. WatchInv /\ Scheduled /\ [Next]_vars => (WatchInv /\ Scheduled)'
  BY WatchNext
<1>3. QED
  BY <1>1, <1>2, PTL DEF Spec

\* A deployment with a policy that the informer has delivered is never left without a tick to come
\* (Reconcile, the predicates), however far the informer is behind and whatever fails or is edited,
\* as long as a mode annotation comes to an existing deployment together with a foreign one.
THEOREM AlwaysScheduled ==
    ASSUME OptIns \subseteq {"apply"}
    PROVE  Spec => []Scheduled
BY WatchInvariant, PTL
=============================================================================
