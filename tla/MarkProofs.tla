----------------------------- MODULE MarkProofs -----------------------------
(***************************************************************************)
(* A job the controller suspended says so.  The mark on the object is all  *)
(* that tells its sleep from one a human asked for, and every tick writes  *)
(* the mark, from a version that may be old.                               *)
(***************************************************************************)
EXTENDS SiestaProofs

\* Nobody reads a version from before the controller's own last writes, or no deployment is
\* ever restarted by the controller.
FreshOrNoRestarts == MaxLag = 0 \/ NoRestarts

\* Nobody else sets spec.job.state, or the informer is at most one version behind.
AloneOrClose == "state" \notin Humans \/ MaxLag <= 1

----------------------------------------------------------------------------
(* The start of a tick *)

\* What memory is after repair, by the mark on the version read and the memory stored.
LEMMA LoadPhase ==
    ASSUME TypeOK, NEW o \in Object
    PROVE  /\ Load(o).phase = "active" => o.mark # "unrecoverable" /\ ~Unrecoverable(cm)
           /\ Load(o).phase = "unrecoverable" => o.mark = "unrecoverable" \/ Unrecoverable(cm)
           /\ o.mark = "suspended" /\ ~Unrecoverable(cm) => Load(o).phase = "suspended"
<1> DEFINE m == IF cm = NoMemory THEN Initial(now, o.restartNonce) ELSE cm
<1>1. m.phase \in Phases /\ (m.phase = "unrecoverable" <=> Unrecoverable(cm))
  BY DEF TypeOK, Memory, Phases, Unrecoverable, Initial
<1>2. m \in Memory
  <2>1. now \in Nat /\ cm \in Memory \cup {NoMemory} /\ o.restartNonce \in Int
    BY DEF TypeOK, Object
  <2>2. QED
    BY <2>1, InitialType
<1> HIDE DEF m
<1>3. /\ Repair(m, o).phase = "active" => o.mark # "unrecoverable" /\ m.phase # "unrecoverable"
      /\ Repair(m, o).phase = "unrecoverable" => o.mark = "unrecoverable" \/ m.phase = "unrecoverable"
      /\ o.mark = "suspended" /\ m.phase # "unrecoverable" => Repair(m, o).phase = "suspended"
  BY <1>1, <1>2 DEF Repair, RepairedAwake, Memory, Phases
<1>4. QED
  BY <1>1, <1>3 DEF Load, m

\* What a tick that has just read version fd may go on to write.
Started(t, fd) ==
    /\ t \in Tick
    /\ t.pc \in {"patch", "save"}
    /\ t.was = fd.specJobState
    /\ t.current => stale = <<>>
    /\ t.write = "suspend" => /\ fd.specJobState = "running"
                              /\ Mark(t.next) = "suspended" /\ ~DryRun
                              /\ fd.mark # "unrecoverable" /\ ~Unrecoverable(cm)
    /\ Unrecoverable(t.next) => \/ fd.mark = "unrecoverable" \/ Unrecoverable(cm)
                                \/ fd.specJobState = "running" /\ ~NoRestarts
    /\ /\ fd.specJobState = "suspended" /\ fd.mark = "suspended"
       /\ ~Unrecoverable(cm) /\ ~DryRun /\ t.write # "resume"
       => Mark(t.next) = "suspended"

\* act leaves a tick that writes the decision, with the freshness of the version read.
LEMMA ActWrites ==
    ASSUME now \in Nat, NEW fd \in Object, NEW prev \in Memory, NEW d \in Decision
    PROVE  /\ Act(fd, prev, d).current => stale = <<>>
           /\ d.action = "resume" => Act(fd, prev, d).write = "resume"
<1>1. \A w, m : ToPatch(fd, w, m).current => stale = <<>>
  BY DEF ToPatch
<1>2. \A m : ToSave(fd, m).current => stale = <<>>
  BY DEF ToSave, ToPatch
<1>3. Act(fd, prev, d).current => stale = <<>>
  BY <1>1, <1>2 DEF Act, ToAnnotate
<1>4. d.action = "resume" => Act(fd, prev, d) = ToPatch(fd, "resume", d.next)
  BY DEF Act
<1>5. QED
  BY <1>3, <1>4 DEF ToPatch

LEMMA ReconcileStarts ==
    ASSUME TypeOK, Reconcile
    PROVE  Started(tick', Cached)
<1> DEFINE fd == Cached
           p == fd.policy
<1>1. fd \in Object /\ now \in Nat
  BY CachedType DEF TypeOK
<1>2. p \in Policies
  <2>1. p \in Policies \cup {NoPolicy}
    BY <1>1 DEF Object
  <2>2. QED
    BY <2>1 DEF Reconcile
<1> HIDE DEF fd
<1>a. PICK prev \in Learned(p, fd, Load(fd)) : \E obs \in Observations(p, prev) :
          tick' = Act(fd, prev, IF DryRun \/ p.dryRun
                                THEN Shadow(prev, Decide(p, prev, Live(fd), obs, now))
                                ELSE Decide(p, prev, Live(fd), obs, now))
  BY DEF Reconcile, fd
<1>3. PICK obs \in Observations(p, prev) :
          tick' = Act(fd, prev, IF DryRun \/ p.dryRun
                                THEN Shadow(prev, Decide(p, prev, Live(fd), obs, now))
                                ELSE Decide(p, prev, Live(fd), obs, now))
  BY <1>a
<1> DEFINE d == Decide(p, prev, Live(fd), obs, now)
           carried == IF DryRun \/ p.dryRun THEN Shadow(prev, d) ELSE d
<1>4. Load(fd) \in Memory
  BY <1>1, LoadType
<1>5. prev \in Memory /\ prev.phase = Load(fd).phase
  BY <1>4 DEF Learned, Memory
<1>6. TypedInput(prev, Live(fd), obs, now) /\ Live(fd).specJobState \in {"running", "suspended"}
      /\ Live(fd).specJobState = fd.specJobState
  <2>1. obs.snapshot \in Int
    BY ObservationType
  <2>2. QED
    BY <1>1, <1>5, <2>1 DEF TypedInput, Live, Object, SpecStates
<1>7. Sound(d, Live(fd)) /\ Phased(d, p, prev, Live(fd), now)
  BY <1>6, DecideSound, DecidePhased
<1> HIDE DEF d
<1>8. /\ carried \in Decision
      /\ carried.action = "suspend" => /\ ~DryRun /\ prev.phase = "active"
                                       /\ fd.specJobState = "running"
                                       /\ carried.next.phase = "suspended"
      /\ carried.next.phase = "unrecoverable" =>
            prev.phase = "unrecoverable" \/ (p.restart /\ fd.specJobState = "running")
      /\ fd.specJobState = "suspended" /\ prev.phase = "suspended" /\ carried.action # "resume"
            => carried.next.phase = "suspended"
  <2>1. CASE ~(DryRun \/ p.dryRun)
    BY <1>6, <1>7, <2>1 DEF Sound, Phased
  <2>2. CASE DryRun \/ p.dryRun
    <3>1. Shadow(prev, d) \in Decision /\ Shadow(prev, d).action = "none"
      BY <1>5, <1>7, ShadowType DEF Sound
    <3>2. CASE d.action = "none"
      BY <1>6, <1>7, <2>2, <3>1, <3>2 DEF Shadow, Phased
    <3>3. CASE d.action # "none"
      <4>1. d.next \in Memory
        BY <1>7 DEF Sound, Decision
      <4>2. Shadow(prev, d).next.phase = prev.phase
        BY <3>3, <4>1 DEF Shadow, Stay, Memory
      <4>3. QED
        BY <2>2, <3>1, <4>2
    <3>4. QED
      BY <3>2, <3>3
  <2>3. QED
    BY <2>1, <2>2
<1> HIDE DEF carried
<1>9. tick' = Act(fd, prev, carried)
  BY <1>3 DEF carried, d
<1>10. /\ tick' \in Tick /\ tick'.pc \in {"patch", "save"} /\ tick'.was = fd.specJobState
       /\ tick'.next = carried.next /\ tick'.write \in {"annotate", carried.action}
       /\ tick'.current => stale = <<>>
       /\ carried.action = "resume" => tick'.write = "resume"
  BY <1>1, <1>5, <1>8, <1>9, ActType, ActWrites
<1>11. carried.next # NoMemory /\ carried.next \in Memory
  BY <1>8, SiestaAssumption DEF Decision
<1>12. Mark(tick'.next) = carried.next.phase
       /\ (Unrecoverable(tick'.next) <=> carried.next.phase = "unrecoverable")
  BY <1>10, <1>11 DEF Mark, Unrecoverable
<1>13. p.restart => ~NoRestarts
  BY <1>2 DEF NoRestarts
<1>14. Started(tick', fd)
  <2>1. tick'.write = "suspend" => /\ fd.specJobState = "running"
                                   /\ Mark(tick'.next) = "suspended" /\ ~DryRun
                                   /\ fd.mark # "unrecoverable" /\ ~Unrecoverable(cm)
    BY <1>1, <1>5, <1>8, <1>10, <1>12, LoadPhase
  <2>2. Unrecoverable(tick'.next) => \/ fd.mark = "unrecoverable" \/ Unrecoverable(cm)
                                     \/ fd.specJobState = "running" /\ ~NoRestarts
    BY <1>1, <1>5, <1>8, <1>12, <1>13, LoadPhase
  <2>3. /\ fd.specJobState = "suspended" /\ fd.mark = "suspended"
        /\ ~Unrecoverable(cm) /\ ~DryRun /\ tick'.write # "resume"
        => Mark(tick'.next) = "suspended"
    BY <1>1, <1>5, <1>8, <1>10, <1>12, LoadPhase
  <2>4. QED
    BY <1>10, <2>1, <2>2, <2>3 DEF Started
<1>15. QED
  BY <1>14 DEF fd

LEMMA RefuseStarts ==
    ASSUME TypeOK, RefuseInvalidPolicy
    PROVE  Started(tick', Cached)
<1> DEFINE fd == Cached
           m == Because(Load(fd), "invalid policy")
<1>1. fd \in Object /\ now \in Nat /\ fd.specJobState \in SpecStates
  BY CachedType DEF TypeOK, Object
<1>2. Load(fd) \in Memory
  BY <1>1, LoadType
<1>3. m \in Memory /\ m.phase = Load(fd).phase
  BY <1>2 DEF Because, Memory, Reasons
<1>4. tick' \in {ToPatch(fd, "annotate", m), ToSave(fd, m)}
  BY DEF RefuseInvalidPolicy, ToAnnotate
<1> HIDE DEF fd, m
<1>5. ToPatch(fd, "annotate", m) \in Tick
  BY <1>1, <1>3 DEF ToPatch, Tick, Writes
<1>6. ToSave(fd, m) \in Tick
  BY <1>1, <1>3 DEF ToSave, ToPatch, Tick, Writes
<1>7. /\ tick' \in Tick /\ tick'.pc \in {"patch", "save"} /\ tick'.was = fd.specJobState
      /\ tick'.next = m /\ tick'.write = "annotate" /\ (tick'.current => stale = <<>>)
  <2>1. CASE tick' = ToPatch(fd, "annotate", m)
    BY <1>5, <2>1 DEF ToPatch
  <2>2. CASE tick' = ToSave(fd, m)
    BY <1>6, <2>2 DEF ToSave, ToPatch
  <2>3. QED
    BY <1>4, <2>1, <2>2
<1>8. Mark(tick'.next) = m.phase /\ (Unrecoverable(tick'.next) <=> m.phase = "unrecoverable")
  BY <1>3, <1>7, SiestaAssumption DEF Mark, Unrecoverable
<1>9. Started(tick', fd)
  BY <1>1, <1>3, <1>7, <1>8, LoadPhase DEF Started
<1>10. QED
  BY <1>9 DEF fd

LEMMA ReleaseStarts ==
    ASSUME TypeOK, Release
    PROVE  Started(tick', Cached)
<1>1. Cached \in Object /\ now \in Nat
  BY CachedType DEF TypeOK
<1>2. Prepared(tick', Cached)
  BY ReleasePrepares
<1>3. /\ tick'.pc = "patch" /\ tick'.next = NoMemory /\ (tick'.current => stale = <<>>)
      /\ tick'.write \in {"resume", "annotate"}
      /\ Cached.mark = "suspended" /\ Cached.specJobState = "suspended" /\ ~DryRun
            => tick'.write = "resume"
  BY DEF Release, ToPatch
<1>4. ~Unrecoverable(tick'.next)
  BY <1>3 DEF Unrecoverable
<1>5. QED
  BY <1>2, <1>3, <1>4 DEF Started, Prepared

----------------------------------------------------------------------------
(* The invariant, step by step *)

\* The version a tick reads is the object or the oldest version still to be delivered.
LEMMA CachedIs ==
    ASSUME TypeOK
    PROVE  /\ stale = <<>> => Cached = obj
           /\ stale # <<>> => 1 \in 1..Len(stale) /\ Cached = stale[1]
           /\ MaxLag = 0 => stale = <<>>
<1>1. stale \in Seq(Object) /\ Len(stale) \in Nat /\ Len(stale) <= MaxLag /\ MaxLag \in Nat
  BY Bounds DEF TypeOK
<1>2. QED
  BY <1>1 DEF Cached

\* The start of a tick.
LEMMA StartedInv ==
    ASSUME FreshOrNoRestarts, TypeOK, MarkInv, UNCHANGED <<obj, stale, cm, setBy>>,
           Started(tick', Cached)
    PROVE  MarkInv'
<1>1. Cached.mark = "unrecoverable" => obj.mark = "unrecoverable"
                                       \/ \E i \in 1..Len(stale) : stale[i].mark = "unrecoverable"
  BY CachedIs
<1>2. MatchInv'
  BY CachedIs DEF MatchInv, Started
<1>3. HopeInv'
  BY <1>1 DEF HopeInv, MarkInv, Started
<1>4. FallingAsleepInv'
  <2>1. CASE NoRestarts
    BY <2>1 DEF HopeInv, MarkInv, FallingAsleepInv, Started
  <2>2. CASE MaxLag = 0
    <3>1. stale = <<>> /\ Cached = obj
      BY <2>2, CachedIs
    <3>2. Len(stale) = 0
      BY <3>1
    <3>3. QED
      BY <3>1, <3>2 DEF FallingAsleepInv, Started
  <2>3. QED
    BY <2>1, <2>2 DEF FreshOrNoRestarts
<1>5. AsleepInv'
  <2>1. CASE ~Ours
    BY <2>1 DEF AsleepInv, Ours
  <2>2. CASE Ours
    <3>1. /\ obj.specJobState = "suspended" /\ obj.mark = "suspended" /\ ~DryRun /\ ~Unrecoverable(cm)
          /\ \A i \in 1..Len(stale) : stale[i].mark # "unrecoverable"
          /\ \A i \in 1..Len(stale) : stale[i].specJobState = "suspended" => stale[i].mark = "suspended"
      BY <2>2 DEF AsleepInv, MarkInv, Ours
    <3>2. ~Unrecoverable(tick'.next)
      <4>1. ~(Cached.specJobState = "running" /\ ~NoRestarts)
        BY <3>1, CachedIs DEF FreshOrNoRestarts
      <4>2. QED
        BY <1>1, <3>1, <4>1 DEF Started
    <3>3. Cached.specJobState = "suspended" => Cached.mark = "suspended"
      BY <3>1, CachedIs
    <3>4. tick'.was = "suspended" /\ tick'.write # "resume" => Mark(tick'.next) = "suspended"
      BY <3>1, <3>3 DEF Started
    <3>5. QED
      BY <2>2, <3>1, <3>2, <3>4 DEF AsleepInv
  <2>3. QED
    BY <2>1, <2>2
<1>6. AloneInv'
  BY DEF AloneInv, MarkInv, Ours
<1>7. QED
  BY <1>2, <1>3, <1>4, <1>5, <1>6 DEF MarkInv

\* What a step may do to the tick without being the start of a new one.
Goes == /\ Writing' => Writing /\ tick'.was = tick.was /\ tick'.write = tick.write
        /\ tick'.pc # "idle" => tick.pc # "idle" /\ tick'.next = tick.next
        /\ tick'.next \in {tick.next, NoMemory}

\* Writing is what a tick does before it saves.
LEMMA WritingIsBusy == Writing => tick.pc # "idle"
BY DEF Writing

\* A step that leaves the object and its versions alone; memory is kept or lost.
LEMMA UnmovedMark ==
    ASSUME MarkInv, UNCHANGED <<obj, stale, setBy>>, Goes, MatchInv', cm' \in {cm, NoMemory}
    PROVE  MarkInv'
<1>1. /\ Unrecoverable(cm') => Unrecoverable(cm)
      /\ Unrecoverable(tick'.next) => Unrecoverable(tick.next)
      /\ Writing' => tick'.next = tick.next
  BY DEF Unrecoverable, Goes, Writing
<1>2. HopeInv'
  BY <1>1 DEF HopeInv, MarkInv
<1>3. FallingAsleepInv'
  BY <1>1 DEF FallingAsleepInv, MarkInv, Goes
<1>4. AsleepInv'
  BY <1>1 DEF AsleepInv, MarkInv, Goes, Ours
<1>5. AloneInv'
  BY DEF AloneInv, MarkInv, Ours
<1>6. QED
  BY <1>2, <1>3, <1>4, <1>5 DEF MarkInv

\* Where the versions after a write come from.
LEMMA VersionsAfter ==
    ASSUME TypeOK, NEW o \in Object, Update(o)
    PROVE  /\ obj' = o
           /\ \A i \in 1..Len(stale') :
                 stale'[i] = obj \/ \E j \in 1..Len(stale) : stale'[i] = stale[j]
           /\ Len(stale') <= 1 => \A i \in 1..Len(stale') : stale'[i] = obj
<1>1. Len(stale) \in Nat /\ obj' = o
  BY DEF TypeOK, Update
<1>2. PICK k \in {0, 1} :
              /\ Len(stale') = Len(stale) + 1 - k
              /\ \A i \in 1..Len(stale') :
                    stale'[i] = IF i + k <= Len(stale) THEN stale[i + k] ELSE obj
  BY UpdateShifts
<1>3. ASSUME NEW i \in 1..Len(stale')
      PROVE  stale'[i] = obj \/ \E j \in 1..Len(stale) : stale'[i] = stale[j]
  <2>1. CASE i + k <= Len(stale)
    <3>1. i + k \in 1..Len(stale)
      BY <1>1, <1>2, <2>1
    <3>2. QED
      BY <1>2, <2>1, <3>1
  <2>2. CASE ~(i + k <= Len(stale))
    BY <1>2, <2>2
  <2>3. QED
    BY <2>1, <2>2
<1>4. Len(stale') <= 1 => \A i \in 1..Len(stale') : stale'[i] = obj
  BY <1>1, <1>2
<1>5. QED
  BY <1>1, <1>3, <1>4

\* A write by somebody else, who keeps spec.job.state and our annotations.
LEMMA KeptMark ==
    ASSUME TypeOK, MarkInv, NEW o \in Object, Update(o), Overtaken, UNCHANGED <<cm, setBy>>,
           o.specJobState = obj.specJobState, o.mark = obj.mark
    PROVE  MarkInv'
<1>1. /\ obj' = o
      /\ \A i \in 1..Len(stale') :
            stale'[i] = obj \/ \E j \in 1..Len(stale) : stale'[i] = stale[j]
  BY VersionsAfter
<1>2. /\ tick'.pc = tick.pc /\ tick'.was = tick.was /\ tick'.write = tick.write
      /\ tick'.next = tick.next /\ ~tick'.current
  BY DEF Overtaken, TypeOK, Tick
<1>3. Writing' = Writing
  BY <1>2 DEF Writing
<1>4. MatchInv'
  BY <1>1, <1>2 DEF MatchInv, MarkInv
<1>5. HopeInv'
  BY <1>1, <1>2 DEF HopeInv, MarkInv
<1>6. FallingAsleepInv'
  BY <1>1, <1>2, <1>3 DEF FallingAsleepInv, MarkInv
<1>7. AsleepInv'
  <2>1. CASE Ours
    <3>1. \A i \in 1..Len(stale') :
              /\ stale'[i].mark # "unrecoverable"
              /\ stale'[i].specJobState = "suspended" => stale'[i].mark = "suspended"
      BY <1>1, <2>1 DEF AsleepInv, MarkInv
    <3>2. QED
      BY <1>1, <1>2, <1>3, <2>1, <3>1 DEF AsleepInv, MarkInv
  <2>2. CASE ~Ours
    BY <1>1, <2>2 DEF AsleepInv, Ours
  <2>3. QED
    BY <2>1, <2>2
<1>8. AloneInv'
  BY <1>1 DEF AloneInv, AsleepInv, MarkInv, Ours
<1>9. QED
  BY <1>4, <1>5, <1>6, <1>7, <1>8 DEF MarkInv

\* A human sets spec.job.state: the job is not ours any more, and the tick in progress, if any, has
\* to read the object again.
LEMMA HumanMark ==
    ASSUME TypeOK, MarkInv, NEW o \in Object, Update(o), Overtaken, UNCHANGED cm,
           o.mark = obj.mark, setBy' = "human", "state" \in Humans
    PROVE  MarkInv'
<1>1. /\ obj' = o
      /\ \A i \in 1..Len(stale') :
            stale'[i] = obj \/ \E j \in 1..Len(stale) : stale'[i] = stale[j]
  BY VersionsAfter
<1>2. /\ tick'.pc = tick.pc /\ tick'.was = tick.was /\ tick'.write = tick.write
      /\ tick'.next = tick.next /\ ~tick'.current
  BY DEF Overtaken, TypeOK, Tick
<1>3. Writing' = Writing
  BY <1>2 DEF Writing
<1>4. MatchInv'
  BY <1>2 DEF MatchInv
<1>5. HopeInv'
  BY <1>1, <1>2 DEF HopeInv, MarkInv
<1>6. FallingAsleepInv'
  BY <1>1, <1>2, <1>3 DEF FallingAsleepInv, MarkInv
<1>7. AsleepInv' /\ AloneInv'
  BY DEF AsleepInv, AloneInv, Ours
<1>8. QED
  BY <1>4, <1>5, <1>6, <1>7 DEF MarkInv

\* The informer delivers a version.
LEMMA DeliverMark ==
    ASSUME TypeOK, MarkInv, stale # <<>>, stale' = Tail(stale), UNCHANGED <<obj, tick, cm, setBy>>
    PROVE  MarkInv'
<1>1. stale \in Seq(Object) /\ Len(stale) \in Nat /\ Len(stale) > 0
  BY DEF TypeOK
<1>2. Len(stale') = Len(stale) - 1 /\ \A i \in 1..Len(stale') : stale'[i] = stale[i + 1]
  BY <1>1
<1>3. \A i \in 1..Len(stale') : i + 1 \in 1..Len(stale)
  BY <1>1, <1>2
<1>4. \A i \in 1..Len(stale') : \E j \in 1..Len(stale) : stale'[i] = stale[j]
  BY <1>2, <1>3
<1>5. Writing' = Writing
  BY DEF Writing
<1>6. QED
  BY <1>4, <1>5 DEF MarkInv, MatchInv, AsleepInv, AloneInv, FallingAsleepInv, HopeInv, Ours

\* A patch that gets through: for a job asleep it is a resume or writes the mark again, and the
\* one that suspends a job writes the mark with it.
LEMMA ApplyMark ==
    ASSUME AloneOrClose, TypeOK, TypeOK', MarkInv, Writing, tick.was = obj.specJobState, Apply,
           UNCHANGED cm
    PROVE  MarkInv'
<1> DEFINE o == Merged(obj, tick.write, tick.next)
<1>1. /\ tick \in Tick /\ obj \in Object /\ (tick.write = "restart" => tick.next # NoMemory)
      /\ tick.write \in Writes /\ obj.specJobState \in SpecStates
  BY DEF TypeOK, Tick, Object
<1>2. o \in Object
  BY <1>1, MergedType DEF Tick
<1>3. /\ o.mark = Mark(tick.next)
      /\ o.specJobState = CASE tick.write = "suspend" -> "suspended"
                            [] tick.write = "resume" -> "running"
                            [] OTHER -> obj.specJobState
  BY <1>1 DEF Merged, Object
<1> HIDE DEF o
<1>4. tick' = [tick EXCEPT !.pc = "save"] /\ ((o = obj /\ UNCHANGED <<obj, stale>>) \/ Update(o))
  BY DEF Apply, o
<1>5. tick'.pc = "save" /\ tick'.next = tick.next /\ ~Writing'
  BY <1>1, <1>4 DEF Writing, Tick
<1>6. obj' = o /\ \A i \in 1..Len(stale') :
                      stale'[i] = obj \/ \E j \in 1..Len(stale) : stale'[i] = stale[j]
  BY <1>2, <1>4, VersionsAfter
<1>7. MatchInv' /\ FallingAsleepInv'
  BY <1>5 DEF MatchInv, FallingAsleepInv
<1>8. Mark(tick.next) = "unrecoverable" => Unrecoverable(tick.next)
  BY DEF Mark, Unrecoverable
<1>9. HopeInv'
  BY <1>3, <1>5, <1>6, <1>8 DEF HopeInv, MarkInv
<1>10. setBy' = IF o.specJobState # obj.specJobState THEN "siesta" ELSE setBy
  BY DEF Apply, Record, o
<1>11. AloneInv'
  BY <1>6, <1>10 DEF AloneInv, AsleepInv, MarkInv, Ours
<1>12. CASE Ours
  <2>1. /\ obj.specJobState = "suspended" /\ obj.mark = "suspended"
        /\ ~DryRun /\ ~Unrecoverable(cm) /\ ~Unrecoverable(tick.next)
        /\ \A i \in 1..Len(stale) :
              /\ stale[i].mark # "unrecoverable"
              /\ stale[i].specJobState = "suspended" => stale[i].mark = "suspended"
        /\ tick.write # "resume" => Mark(tick.next) = "suspended"
    BY <1>12, WritingIsBusy DEF AsleepInv, MarkInv, Ours
  <2>2. tick.write # "suspend"
    BY <2>1 DEF FallingAsleepInv, MarkInv
  <2>3. o.specJobState = "suspended" => o.mark = "suspended"
    BY <1>3, <2>1, <2>2
  <2>4. \A i \in 1..Len(stale') :
            /\ stale'[i].mark # "unrecoverable"
            /\ stale'[i].specJobState = "suspended" => stale'[i].mark = "suspended"
    BY <1>6, <2>1
  <2>5. AsleepInv'
    BY <1>5, <1>6, <2>1, <2>3, <2>4 DEF AsleepInv, Ours
  <2>6. QED
    BY <1>7, <1>9, <1>11, <2>5 DEF MarkInv
<1>13. CASE ~Ours /\ tick.write = "suspend"
  <2>1. /\ Mark(tick.next) = "suspended" /\ ~DryRun /\ ~Unrecoverable(cm)
        /\ obj.specJobState = "running" /\ obj.mark # "unrecoverable"
        /\ \A i \in 1..Len(stale) : stale[i].mark # "unrecoverable"
    BY <1>13 DEF FallingAsleepInv, MarkInv
  <2>2. \A i \in 1..Len(stale') : stale'[i].mark # "unrecoverable"
    BY <1>6, <2>1
  <2>3. ~Unrecoverable(tick.next)
    BY <2>1 DEF Mark, Unrecoverable
  \* The version that the suspend replaces says running, and behind it there is room for none
  \* or only for versions of sleeps that were ours.
  <2>4. \A i \in 1..Len(stale') : stale'[i].specJobState = "suspended" => stale'[i].mark = "suspended"
    <3>1. CASE "state" \notin Humans
      BY <1>6, <2>1, <3>1 DEF AloneInv, MarkInv
    <3>2. CASE MaxLag <= 1
      <4>1. o # obj
        BY <1>3, <1>13, <2>1
      <4>2. Len(stale') \in Nat /\ Len(stale') <= MaxLag /\ MaxLag \in Nat
        BY Bounds DEF TypeOK
      <4>3. Len(stale') <= 1
        BY <3>2, <4>2
      <4>4. \A i \in 1..Len(stale') : stale'[i] = obj
        BY <1>2, <1>4, <4>1, <4>3, VersionsAfter
      <4>5. QED
        BY <2>1, <4>4
    <3>3. QED
      BY <3>1, <3>2 DEF AloneOrClose
  <2>5. AsleepInv'
    BY <1>3, <1>5, <1>6, <1>13, <2>1, <2>2, <2>3, <2>4 DEF AsleepInv
  <2>6. QED
    BY <1>7, <1>9, <1>11, <2>5 DEF MarkInv
<1>14. CASE ~Ours /\ tick.write # "suspend"
  <2>1. o.specJobState = "running" \/ o.specJobState = obj.specJobState
    BY <1>3, <1>14
  <2>2. ~Ours'
    BY <1>6, <1>10, <1>14, <2>1 DEF Ours
  <2>3. AsleepInv'
    BY <2>2 DEF AsleepInv
  <2>4. QED
    BY <1>7, <1>9, <1>11, <2>3 DEF MarkInv
<1>15. QED
  BY <1>12, <1>13, <1>14

\* Every step keeps MarkInv.
LEMMA MarkNext ==
    ASSUME FreshOrNoRestarts, AloneOrClose, TypeOK, MarkInv, [Next]_vars
    PROVE  MarkInv'
<1>t. obj \in Object /\ tick \in Tick /\ TypeOK'
  BY TypeNext DEF TypeOK
\* Writes of the operator and most of those of humans keep spec.job.state and our annotations.
<1>k. ASSUME NEW o \in Object, Update(o), Overtaken, UNCHANGED <<cm, setBy>>,
             o.specJobState = obj.specJobState, o.mark = obj.mark
      PROVE  MarkInv'
  BY <1>k, KeptMark
\* A tick that is over.
<1>i. ASSUME tick' = Idle, UNCHANGED <<obj, stale, cm, setBy>> PROVE MarkInv'
  <2>1. Goes /\ MatchInv'
    BY <1>i DEF Goes, MatchInv, Writing, Idle
  <2>2. QED
    BY <1>i, <2>1, UnmovedMark
<1>1. CASE Reconcile
  BY <1>1, ReconcileStarts, StartedInv DEF Reconcile, history
<1>2. CASE RefuseInvalidPolicy
  BY <1>2, RefuseStarts, StartedInv DEF RefuseInvalidPolicy, history
<1>3. CASE Release
  BY <1>3, ReleaseStarts, StartedInv DEF Release, history
<1>4. CASE Patch
  <2>1. Writing /\ UNCHANGED cm /\ tick.pc = "patch"
    BY <1>4 DEF Patch, Writing
  <2>2. CASE tick.current /\ Apply
    <3>1. tick.was = obj.specJobState
      BY <2>1, <2>2 DEF MarkInv, MatchInv
    <3>2. QED
      BY <1>t, <2>1, <2>2, <3>1, ApplyMark
  <2>3. CASE tick' = [tick EXCEPT !.pc = "conflict"] /\ UNCHANGED <<obj, stale, setBy>>
    <3>1. Goes /\ MatchInv'
      BY <1>t, <2>1, <2>3 DEF Goes, MatchInv, Writing, Tick
    <3>2. QED
      BY <2>1, <2>3, <3>1, UnmovedMark
  <2>4. QED
    BY <1>4, <2>2, <2>3 DEF Patch, history
<1>5. CASE ReadFresh
  <2>1. CASE obj.specJobState = tick.was
    <3>1. tick' = [tick EXCEPT !.pc = "retry", !.current = TRUE] /\ tick.pc = "conflict"
          /\ UNCHANGED <<obj, stale, cm, setBy>>
      BY <1>5, <2>1 DEF ReadFresh, history
    <3>2. Goes /\ MatchInv'
      BY <1>t, <2>1, <3>1 DEF Goes, MatchInv, Writing, Tick
    <3>3. QED
      BY <3>1, <3>2, UnmovedMark
  <2>2. CASE obj.specJobState # tick.was
    BY <1>5, <1>i, <2>2 DEF ReadFresh, history
  <2>3. QED
    BY <2>1, <2>2
<1>6. CASE RetryPatch
  <2>1. Writing /\ UNCHANGED cm /\ tick.pc = "retry"
    BY <1>6 DEF RetryPatch, Writing
  <2>2. CASE tick.current /\ Apply
    <3>1. tick.was = obj.specJobState
      BY <2>1, <2>2 DEF MarkInv, MatchInv
    <3>2. QED
      BY <1>t, <2>1, <2>2, <3>1, ApplyMark
  <2>3. CASE tick' = Idle /\ UNCHANGED <<obj, stale, setBy>>
    BY <1>i, <2>1, <2>3
  <2>4. QED
    BY <1>6, <2>2, <2>3 DEF RetryPatch, history
<1>7. CASE Save
  <2>1. /\ tick.pc = "save" /\ cm' = tick.next /\ tick' = Idle /\ UNCHANGED <<obj, stale, setBy>>
    BY <1>7 DEF Save, history
  <2>2. ~Writing' /\ tick'.pc = "idle" /\ ~Unrecoverable(tick'.next)
    BY <2>1 DEF Writing, Idle, Unrecoverable
  <2>3. MatchInv' /\ FallingAsleepInv' /\ HopeInv'
    BY <2>1, <2>2 DEF MatchInv, FallingAsleepInv, HopeInv, MarkInv
  <2>4. AsleepInv' /\ AloneInv'
    BY <2>1, <2>2 DEF AsleepInv, AloneInv, MarkInv, Ours
  <2>5. QED
    BY <2>3, <2>4 DEF MarkInv
<1>8. CASE Abort
  BY <1>8, <1>i DEF Abort, history
<1>9. CASE Deliver
  BY <1>9, DeliverMark DEF Deliver, history
<1>10. CASE UNCHANGED <<obj, stale, tick, setBy>> /\ cm' \in {cm, NoMemory}
  <2>1. Goes /\ MatchInv'
    BY <1>10 DEF Goes, Writing, MatchInv, MarkInv
  <2>2. QED
    BY <1>10, <2>1, UnmovedMark
<1>11. CASE OperatorSuspends
  <2>1. [obj EXCEPT !.lifecycle = "SUSPENDED", !.job = "FINISHED", !.unrecoverable = FALSE] \in Object
    BY <1>t DEF Object, Lifecycles, JobStates
  <2>2. QED
    BY <1>11, <1>k, <1>t, <2>1 DEF OperatorSuspends, Report, Object, history
<1>12. CASE OperatorStarts
  <2>1. [obj EXCEPT !.lifecycle = "UPGRADING", !.job = "RECONCILING",
                    !.unrecoverable = FALSE, !.lastNonce = obj.restartNonce] \in Object
    BY <1>t DEF Object, Lifecycles, JobStates
  <2>2. QED
    BY <1>12, <1>k, <1>t, <2>1 DEF OperatorStarts, Report, Object, history
<1>13. CASE OperatorSettles
  <2>1. [obj EXCEPT !.lifecycle = "STABLE", !.job = "RUNNING"] \in Object
    BY <1>t DEF Object, Lifecycles, JobStates
  <2>2. QED
    BY <1>13, <1>k, <1>t, <2>1 DEF OperatorSettles, Report, Object, history
<1>14. CASE JobRecovers
  <2>1. [obj EXCEPT !.job = "RUNNING"] \in Object
    BY <1>t DEF Object, JobStates
  <2>2. QED
    BY <1>14, <1>k, <1>t, <2>1 DEF JobRecovers, Report, Object, history
<1>15. CASE JobFails
  <2>1. PICK out \in Outcomes :
            Report([obj EXCEPT !.lifecycle = out.lifecycle, !.job = out.job,
                               !.unrecoverable = out.unrecoverable])
    BY <1>15 DEF JobFails
  <2>2. out \in OutcomeType
    BY SiestaAssumption
  <2>3. [obj EXCEPT !.lifecycle = out.lifecycle, !.job = out.job,
                    !.unrecoverable = out.unrecoverable] \in Object
    BY <1>t, <2>2 DEF Object, OutcomeType
  <2>4. QED
    BY <1>k, <1>t, <2>1, <2>3 DEF Report, Object, history
<1>16. CASE HumanEditsSpec
  <2>1. PICK u \in UpgradeModes :
            Edit("spec", [obj EXCEPT !.upgradeMode = u, !.generation = @ + 1])
    BY <1>16 DEF HumanEditsSpec
  <2>2. UNCHANGED setBy
    BY <1>16 DEF HumanEditsSpec, history
  <2>3. QED
    BY <1>k, <1>t, <2>1, <2>2, EditedType DEF Edit, Object
<1>17. CASE HumanRestarts
  <2>1. PICK n \in HumanNonces :
            Edit("nonce", [obj EXCEPT !.restartNonce = n, !.generation = @ + 1])
    BY <1>17 DEF HumanRestarts
  <2>2. UNCHANGED setBy
    BY <1>17 DEF HumanRestarts, history
  <2>3. QED
    BY <1>k, <1>t, <2>1, <2>2, EditedType DEF Edit, Object
<1>18. CASE HumanSetsPolicy
  <2>1. PICK p \in Policies \cup {NoPolicy} : Edit("policy", [obj EXCEPT !.policy = p])
    BY <1>18 DEF HumanSetsPolicy
  <2>2. [obj EXCEPT !.policy = p] \in Object
    BY <1>t DEF Object
  <2>3. UNCHANGED setBy
    BY <1>18 DEF HumanSetsPolicy, history
  <2>4. QED
    BY <1>k, <1>t, <2>1, <2>2, <2>3 DEF Edit, Object
<1>19. CASE HumanSetsState
  <2>1. PICK s \in SpecStates :
            Edit("state", [obj EXCEPT !.specJobState = s, !.generation = @ + 1])
    BY <1>19 DEF HumanSetsState
  <2>2. setBy' = "human"
    BY <1>19 DEF HumanSetsState
  <2>3. QED
    BY <1>t, <2>1, <2>2, EditedType, HumanMark DEF Edit, Object
<1>20. QED
  <2>1. TimePasses \/ Produce \/ JobReads \/ OffsetsExpire \/ HumanLosesMemory \/ UNCHANGED vars
           => UNCHANGED <<obj, stale, tick, setBy>> /\ cm' \in {cm, NoMemory}
    BY DEF TimePasses, Produce, JobReads, OffsetsExpire, HumanLosesMemory, vars, history
  <2>2. QED
    BY <1>1, <1>2, <1>3, <1>4, <1>5, <1>6, <1>7, <1>8, <1>9, <1>10, <1>11, <1>12, <1>13,
       <1>14, <1>15, <1>16, <1>17, <1>18, <1>19, <2>1
       DEF Next, Controller, Operator, Human

\* Where only the controller sets spec.job.state or the informer is at most one version behind, and
\* either reads are fresh or the controller restarts nothing, MarkInv holds throughout: no tick calls
\* a job we put to sleep unrecoverable or takes its mark away, through stale versions, retries, lost
\* saves, deleted memory, changes of policy and humans who suspend and resume the job themselves.
THEOREM MarkInvariant ==
    ASSUME FreshOrNoRestarts, AloneOrClose
    PROVE  Spec => []MarkInv
<1>1. Init => MarkInv
  <2> SUFFICES ASSUME Init PROVE MarkInv
    OBVIOUS
  <2>1. /\ stale = <<>> /\ tick = Idle /\ cm = NoMemory
        /\ obj.specJobState = "running" /\ obj.mark = "none"
    <3>1. stale = <<>> /\ tick = Idle /\ cm = NoMemory
      BY DEF Init
    <3>2. PICK p \in Policies, u \in UpgradeModes :
              obj = [specJobState |-> "running", upgradeMode |-> u, restartNonce |-> 0,
                     generation |-> 1, policy |-> p, mark |-> "none", reason |-> "",
                     lifecycle |-> "STABLE", job |-> "RUNNING", unrecoverable |-> FALSE,
                     lastNonce |-> 0]
      BY DEF Init
    <3>3. QED
      BY <3>1, <3>2
  <2>2. Len(stale) = 0 /\ ~Writing /\ tick.pc = "idle" /\ tick.next = NoMemory
    BY <2>1 DEF Writing, Idle
  <2>3. QED
    BY <2>1, <2>2 DEF MarkInv, MatchInv, AsleepInv, AloneInv, FallingAsleepInv, HopeInv, Unrecoverable, Ours
<1>2. TypeOK /\ MarkInv /\ [Next]_vars => MarkInv'
  BY MarkNext
<1>3. QED
  BY <1>1, <1>2, TypeCorrect, PTL DEF Spec

\* Under the same conditions a job the controller suspended always says so.
THEOREM SleepersAreMarked ==
    ASSUME FreshOrNoRestarts, AloneOrClose
    PROVE  Spec => []OursIsMarked
<1>1. MarkInv => OursIsMarked
  BY DEF MarkInv, AsleepInv, OursIsMarked
<1>2. QED
  BY <1>1, MarkInvariant, PTL
=============================================================================
