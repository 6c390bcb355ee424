-------------------------- MODULE JobSourcesProofs --------------------------
(***************************************************************************)
(* Proofs about JobSources: a settled answer is the whole list, for every  *)
(* number of topics, ticks, faults and job instances, as long as a job     *)
(* shows its topics within SourceSettle - ProbeTimeout of its start.       *)
(***************************************************************************)
EXTENDS JobSources, TLAPS

JobType  == [id: Id, running: BOOLEAN, shown: SUBSET Topics, age: 0..Discovery]
MemoType == [id: Id, topics: SUBSET Topics, attempts: 0..SourceAttempts,
             age: 0..SourceSettle, held: 0..SourceSettle, failed: BOOLEAN]
TickType == [pc: {"idle", "asking", "save"}, id: Id, answer: SUBSET Topics,
             waited: 0..ProbeTimeout, next: Memory]

\* What the proofs use of the constants.
LEMMA Numbers ==
    /\ SourceSettle \in Nat /\ SourceSettle > 0 /\ Discovery \in Nat /\ Discovery > 0
    /\ SourceAttempts \in Nat /\ ProbeTimeout \in Nat /\ MaxJobs \in Nat
    /\ Discovery + ProbeTimeout <= SourceSettle
    /\ Programs \subseteq SUBSET Topics
BY JobSourcesAssumption

\* A capped age stays below its bound and never goes back.
LEMMA CappedAge ==
    ASSUME NEW bound \in Nat, NEW age \in 0..bound
    PROVE  /\ Capped(age, bound) \in 0..bound
           /\ Capped(age, bound) >= age
           /\ Capped(age, bound) <= age + 1
           /\ age < bound => Capped(age, bound) = age + 1
           /\ age = bound => Capped(age, bound) = bound
BY DEF Capped

LEMMA Constants == NoMemory \in Memory /\ NoTick \in TickType /\ NoMemo \in MemoType
<1>1. 0 \in Id /\ 0 \in 0..SourceAttempts /\ 0 \in 0..SourceSettle /\ 0 \in 0..ProbeTimeout
  BY Numbers DEF Id
<1>2. NoMemory \in Memory
  BY <1>1 DEF NoMemory, Memory
<1>3. PICK f \in BOOLEAN : f = FALSE
  OBVIOUS
<1>4. NoMemo = [id |-> 0, topics |-> {}, attempts |-> 0, age |-> 0, held |-> 0, failed |-> f]
  BY <1>3, Zenon DEF NoMemo
<1>5. NoMemo \in MemoType
  BY <1>1, <1>4 DEF MemoType
<1>6. NoTick \in TickType
  BY <1>1, <1>2 DEF NoTick, TickType
<1>7. QED
  BY <1>2, <1>5, <1>6

\* The entry of an instance: the one there is, or an empty one.
LEMMA CachedType ==
    ASSUME memo \in MemoType, NEW id \in Id
    PROVE  /\ CachedJob(id) \in MemoType /\ CachedJob(id).id = id
           /\ memo.id = id => CachedJob(id) = memo
           /\ memo.id # id => CachedJob(id).attempts = 0 /\ CachedJob(id).topics = {}
<1>1. [NoMemo EXCEPT !.id = id] \in MemoType
  BY Constants DEF MemoType
<1>2. /\ [NoMemo EXCEPT !.id = id].id = id
      /\ [NoMemo EXCEPT !.id = id].attempts = 0
      /\ [NoMemo EXCEPT !.id = id].topics = {}
  BY DEF NoMemo
<1>3. QED
  BY <1>1, <1>2 DEF CachedJob, MemoType

\* The entry after an answer, field by field.
LEMMA ToldFields ==
    ASSUME NEW c \in MemoType, NEW topics \in SUBSET Topics
    PROVE  /\ Told(c, topics) \in MemoType
           /\ Told(c, topics).id = c.id
           /\ Told(c, topics).topics = topics
           /\ \/ Told(c, topics).age = 0 /\ Told(c, topics).held = 0
              \/ /\ topics = c.topics /\ c.attempts > 0
                 /\ Told(c, topics).age = c.age /\ Told(c, topics).held = c.age
                 /\ Told(c, topics).failed = c.failed
<1> DEFINE anew == c.attempts = 0 \/ topics # c.topics
           n == Capped(c.attempts, SourceAttempts)
           a == IF anew THEN 0 ELSE c.age
           h == IF anew THEN 0 ELSE c.age
<1>1. PICK f \in BOOLEAN : f = (c.failed /\ ~anew)
  OBVIOUS
<1>2. Told(c, topics) = [id |-> c.id, topics |-> topics, attempts |-> n, age |-> a, held |-> h,
                         failed |-> f]
  BY <1>1 DEF Told
<1>3. n \in 0..SourceAttempts /\ a \in 0..SourceSettle /\ h \in 0..SourceSettle
  BY Numbers, CappedAge DEF MemoType
<1>4. c.id \in Id /\ c.failed \in BOOLEAN /\ c.attempts \in Nat
  BY Numbers DEF MemoType
<1> HIDE DEF n
<1>5. Told(c, topics) \in MemoType
  BY <1>2, <1>3, <1>4 DEF MemoType
<1>6. ~anew => f = c.failed
  BY <1>1, <1>4
<1>7. QED
  BY <1>2, <1>4, <1>5, <1>6
----------------------------------------------------------------------------
(* Steps that leave the job and what was told alone *)

\* What a tick comes to, and the step to it.
LEMMA ObserveType ==
    ASSUME TypeOK, NEW c \in MemoType, NEW m \in Memory, Observe(c, m)
    PROVE  /\ tick' \in TickType /\ spent' \subseteq Id
           /\ tick'.pc = "save" /\ tick'.id \in {0, c.id}
           /\ tick'.answer # {} => Stable(c) /\ tick'.answer = c.topics /\ tick'.id = c.id
<1>1. c.id \in Id /\ c.topics \in SUBSET Topics /\ spent \subseteq Id
  BY DEF MemoType, TypeOK
<1>2. CASE Settled(c) /\ m.checked # c.id
  <2>1. PICK k \in Memory : tick' = [NoTick EXCEPT !.pc = "save", !.id = c.id,
                                                   !.answer = c.topics, !.next = k]
    <3> DEFINE k == [sources |-> IF auto /\ c.topics # {} THEN c.topics ELSE m.sources,
                     checked |-> c.id]
    <3>1. k \in Memory
      BY <1>1 DEF Memory
    <3>2. QED
      BY <1>2, <3>1, Zenon DEF Observe
  <2>2. tick' = [pc |-> "save", id |-> c.id, answer |-> c.topics, waited |-> 0, next |-> k]
    BY <2>1 DEF NoTick
  <2>3. tick' \in TickType
    BY <1>1, <2>2, Numbers DEF TickType
  <2>4. spent' \subseteq Id
    BY <1>1, <1>2 DEF Observe
  <2>5. QED
    BY <1>2, <2>2, <2>3, <2>4 DEF Settled
<1>3. CASE ~(Settled(c) /\ m.checked # c.id)
  <2>1. tick' = [NoTick EXCEPT !.pc = "save", !.next = m] /\ spent' = spent
    BY <1>3 DEF Observe
  <2>2. tick' = [pc |-> "save", id |-> 0, answer |-> {}, waited |-> 0, next |-> m]
    BY <2>1 DEF NoTick
  <2>3. tick' \in TickType
    BY <2>2, Numbers DEF TickType, Id
  <2>4. tick'.pc = "save" /\ tick'.id = 0 /\ tick'.answer = {}
    BY <2>2
  <2>5. spent' \subseteq Id
    BY <1>1, <2>1
  <2>6. QED
    BY <2>3, <2>4, <2>5
<1>4. QED
  BY <1>2, <1>3

\* The state of the controller and of the job after a step, as far as TypeOK is concerned.
LEMMA TypeSplit ==
    TypeOK <=> /\ job \in JobType /\ memo \in MemoType /\ tick \in TickType
               /\ reads \in [Id -> SUBSET Topics] /\ live \in [id: Id, running: BOOLEAN]
               /\ auto \in BOOLEAN /\ saved \in Memory /\ spent \subseteq Id
               /\ used \in [edits: Nat, faults: Nat]
BY Zenon DEF TypeOK, JobType, MemoType, TickType

LEMMA TypeSplitNext ==
    ASSUME job' \in JobType, memo' \in MemoType, tick' \in TickType,
           reads' \in [Id -> SUBSET Topics], live' \in [id: Id, running: BOOLEAN],
           auto' \in BOOLEAN, saved' \in Memory, spent' \subseteq Id,
           used' \in [edits: Nat, faults: Nat]
    PROVE  TypeOK'
BY Zenon DEF TypeOK, JobType, MemoType, TickType

\* A tick that only asks or saves, and the end of one.
LEMMA TickEnds ==
    ASSUME NEW m \in Memory
    PROVE  /\ [NoTick EXCEPT !.pc = "save", !.next = m] \in TickType
           /\ [NoTick EXCEPT !.pc = "save", !.next = m].pc = "save"
           /\ [NoTick EXCEPT !.pc = "save", !.next = m].id = 0
           /\ [NoTick EXCEPT !.pc = "save", !.next = m].answer = {}
           /\ NoTick.pc = "idle" /\ NoTick.id = 0
<1> DEFINE t == [NoTick EXCEPT !.pc = "save"]
<1>1. t = [pc |-> "save", id |-> 0, answer |-> {}, waited |-> 0, next |-> NoMemory]
  BY DEF NoTick
<1>2. [t EXCEPT !.next = m] = [pc |-> "save", id |-> 0, answer |-> {}, waited |-> 0, next |-> m]
  <2> HIDE DEF t
  <2> QED
    BY <1>1
<1>3. [pc |-> "save", id |-> 0, answer |-> {}, waited |-> 0, next |-> m] \in TickType
  BY Numbers DEF TickType, Id
<1>4. NoTick.pc = "idle" /\ NoTick.id = 0
  BY DEF NoTick
<1>5. [NoTick EXCEPT !.pc = "save", !.next = m] = [t EXCEPT !.next = m]
  BY Zenon
<1>6. QED
  BY <1>2, <1>3, <1>4, <1>5
-----------------------------------------------------------------------------
(* The invariant, action by action *)

LEMMA AskNobody == ASSUME SourcesInv, TickAsksNobody PROVE SourcesInv'
<1>1. /\ job \in JobType /\ memo \in MemoType /\ tick \in TickType
      /\ live \in [id: Id, running: BOOLEAN] /\ saved \in Memory /\ spent \subseteq Id
  BY TypeSplit DEF SourcesInv
<1>2. UNCHANGED <<job, reads, live, auto, memo, saved, used>>
  BY DEF TickAsksNobody
<1>3. live.id \in Id /\ memo.id \in Id /\ job.id \in Nat /\ live.id <= job.id
  BY <1>1 DEF Id, JobType, MemoType, SourcesInv, IdInv
<1>4. /\ tick' \in TickType /\ spent' \subseteq Id /\ tick'.pc = "save" /\ tick'.id \in {0, live.id}
      /\ tick'.answer # {} => Stable(memo) /\ tick'.answer = memo.topics /\ tick'.id = memo.id
  <2>1. CASE live.running
    <3> DEFINE c == CachedJob(live.id)
    <3>1. Observe(c, saved)
      BY <2>1 DEF TickAsksNobody
    <3>2. /\ c \in MemoType /\ c.id = live.id
          /\ memo.id = live.id => c = memo
          /\ memo.id # live.id => c.topics = {}
      BY <1>1, <1>3, CachedType
    <3> HIDE DEF c
    <3>3. QED
      BY <1>1, <3>1, <3>2, ObserveType DEF SourcesInv
  <2>2. CASE ~live.running
    BY <1>1, <2>2, TickEnds DEF TickAsksNobody
  <2>3. QED
    BY <2>1, <2>2
<1>5. TypeOK'
  BY <1>2, <1>4, TypeSplit, TypeSplitNext DEF SourcesInv
<1>6. IdInv' /\ AgeInv'
  BY <1>2, <1>3, <1>4 DEF SourcesInv, IdInv, AgeInv, Stable
<1>7. AskInv'
  BY <1>4 DEF AskInv
<1>8. MemoIsWhole' /\ AnswerIsWhole'
  BY <1>2, <1>4 DEF SourcesInv, MemoIsWhole, AnswerIsWhole, Stable
<1>9. QED
  BY <1>5, <1>6, <1>7, <1>8 DEF SourcesInv

LEMMA Ask == ASSUME SourcesInv, TickAsks PROVE SourcesInv'
<1>1. /\ job \in JobType /\ memo \in MemoType /\ tick \in TickType
      /\ live \in [id: Id, running: BOOLEAN] /\ saved \in Memory
  BY TypeSplit DEF SourcesInv
<1>2. UNCHANGED <<job, reads, live, auto, memo, saved, spent, used>>
  BY DEF TickAsks
<1>3. /\ live.id \in Id /\ memo.id \in Id /\ job.id \in Nat /\ live.id <= job.id
      /\ job.shown \in SUBSET Topics
  BY <1>1 DEF Id, JobType, MemoType, SourcesInv, IdInv
<1>4. CASE job.running /\ job.id = live.id
  <2>1. tick' = [pc |-> "asking", id |-> live.id, answer |-> job.shown, waited |-> 0,
                 next |-> saved]
    <3>1. tick' = [NoTick EXCEPT !.pc = "asking", !.id = live.id, !.answer = job.shown,
                                 !.next = saved]
      BY <1>4, Zenon DEF TickAsks
    <3>2. QED
      BY <3>1 DEF NoTick
  <2>2. tick' \in TickType
    BY <1>1, <1>3, <2>1, Numbers DEF TickType
  <2>3. TypeOK'
    BY <1>2, <2>2, TypeSplit, TypeSplitNext DEF SourcesInv
  <2>4. IdInv' /\ AgeInv' /\ MemoIsWhole' /\ AnswerIsWhole'
    BY <1>2, <1>3, <2>1 DEF SourcesInv, IdInv, AgeInv, MemoIsWhole, AnswerIsWhole, Stable
  <2>5. AskInv'
    <3>1. SUFFICES ASSUME live.id = memo.id, memo.attempts > 0, ~memo.failed,
                          memo.age >= Discovery
                   PROVE  job.shown = reads[live.id]
      BY <1>1, <1>2, <2>1, Numbers DEF AskInv, MemoType
    <3>2. ~Stable(memo)
      BY <1>1, <1>3, <3>1, CachedType DEF TickAsks, Settled
    <3>3. job.age = Discovery
      BY <1>1, <1>4, <3>1, <3>2, Numbers DEF SourcesInv, AgeInv, JobType, MemoType
    <3>4. QED
      BY <1>4, <3>3 DEF SourcesInv, AgeInv
  <2>6. QED
    BY <2>3, <2>4, <2>5 DEF SourcesInv
<1>5. CASE ~(job.running /\ job.id = live.id)
  <2>1. tick' \in TickType /\ tick'.pc = "save" /\ tick'.id = 0 /\ tick'.answer = {}
    BY <1>1, <1>5, TickEnds DEF TickAsks
  <2>2. TypeOK'
    BY <1>2, <2>1, TypeSplit, TypeSplitNext DEF SourcesInv
  <2>3. IdInv' /\ AgeInv' /\ AskInv' /\ MemoIsWhole' /\ AnswerIsWhole'
    BY <1>2, <1>3, <2>1 DEF SourcesInv, IdInv, AgeInv, AskInv, MemoIsWhole, AnswerIsWhole, Stable
  <2>4. QED
    BY <2>2, <2>3 DEF SourcesInv
<1>6. QED
  BY <1>4, <1>5

\* The answer arrives: an unchanged one that has held still for SourceSettle was asked for when
\* the job had shown everything.
LEMMA IsTold == ASSUME SourcesInv, TickIsTold PROVE SourcesInv'
<1> DEFINE c == CachedJob(tick.id)
<1>1. /\ job \in JobType /\ memo \in MemoType /\ tick \in TickType /\ tick.next \in Memory
      /\ tick.answer \in SUBSET Topics /\ tick.id \in Id /\ tick.pc = "asking"
      /\ tick.waited \in 0..ProbeTimeout
  BY TypeSplit DEF SourcesInv, TickIsTold, TickType
<1>2. UNCHANGED <<job, reads, live, auto, saved, used>> /\ memo' = Told(c, tick.answer)
      /\ Observe(memo', tick.next)
  BY DEF TickIsTold
<1>3. /\ c \in MemoType /\ c.id = tick.id
      /\ memo.id = tick.id => c = memo
      /\ memo.id # tick.id => c.attempts = 0
  BY <1>1, CachedType
<1> HIDE DEF c
<1>4. /\ memo' \in MemoType /\ memo'.id = tick.id /\ memo'.topics = tick.answer
      /\ \/ memo'.age = 0 /\ memo'.held = 0
         \/ /\ tick.answer = c.topics /\ c.attempts > 0
            /\ memo'.age = c.age /\ memo'.held = c.age /\ memo'.failed = c.failed
  BY <1>1, <1>2, <1>3, ToldFields
<1>5. /\ tick' \in TickType /\ spent' \subseteq Id
      /\ tick'.pc = "save" /\ tick'.id \in {0, memo'.id}
      /\ tick'.answer # {} => Stable(memo') /\ tick'.answer = memo'.topics /\ tick'.id = memo'.id
  BY <1>1, <1>2, <1>4, ObserveType DEF SourcesInv
<1>6. TypeOK'
  BY <1>2, <1>4, <1>5, TypeSplit, TypeSplitNext DEF SourcesInv
<1>7. IdInv'
  BY <1>1, <1>2, <1>4, <1>5 DEF SourcesInv, IdInv, Id, JobType
<1>8. CASE memo'.age = 0 /\ memo'.held = 0
  <2>1. ~Stable(memo)'
    BY <1>8, Numbers DEF Stable
  <2>2. AgeInv'
    BY <1>1, <1>2, <1>4, <1>8, Numbers DEF SourcesInv, AgeInv, JobType
  <2>3. AskInv' /\ MemoIsWhole' /\ AnswerIsWhole'
    BY <1>5, <2>1 DEF AskInv, MemoIsWhole, AnswerIsWhole, Stable
  <2>4. QED
    BY <1>6, <1>7, <2>2, <2>3 DEF SourcesInv
<1>9. CASE /\ tick.answer = c.topics /\ c.attempts > 0
           /\ memo'.age = c.age /\ memo'.held = c.age /\ memo'.failed = c.failed
  <2>1. c = memo /\ memo.id = tick.id /\ memo'.topics = memo.topics
    BY <1>3, <1>4, <1>9
  <2>2. /\ memo.age \in Int /\ memo.held \in Int /\ memo.held <= memo.age /\ memo.attempts > 0
        /\ memo'.age = memo.age /\ memo'.held = memo.age /\ memo'.failed = memo.failed
    BY <1>1, <1>9, <2>1, Numbers DEF SourcesInv, AgeInv, MemoType
  <2>3. Stable(memo) => Stable(memo)'
    BY <2>1, <2>2, Numbers DEF Stable
  <2>4. AgeInv'
    BY <1>1, <1>2, <1>4, <2>1, <2>2, <2>3 DEF SourcesInv, AgeInv
  <2>5. MemoIsWhole'
    <3>1. SUFFICES ASSUME Stable(memo)', ~memo.failed PROVE memo.topics = reads[memo.id]
      BY <1>2, <1>4, <2>1, <2>2 DEF MemoIsWhole
    <3>2. memo.age >= SourceSettle
      BY <2>2, <3>1 DEF Stable
    <3>3. ~(memo.age - tick.waited < Discovery)
      BY <1>1, <2>2, <3>2, Numbers
    <3>4. tick.answer = reads[tick.id]
      BY <1>1, <2>1, <2>2, <3>1, <3>3 DEF SourcesInv, AskInv
    <3>5. QED
      BY <1>9, <2>1, <3>4
  <2>6. AskInv' /\ AnswerIsWhole'
    BY <1>5, <2>5 DEF AskInv, AnswerIsWhole, MemoIsWhole, Stable
  <2>7. QED
    BY <1>6, <1>7, <2>4, <2>5, <2>6 DEF SourcesInv
<1>10. QED
  BY <1>4, <1>8, <1>9

\* Faults of the controller: what is lost makes nothing worse.
LEMMA Faults ==
    ASSUME SourcesInv, AskFails \/ TickSaves \/ SaveFails \/ ProcessRestarts \/ MemoryLost
    PROVE  SourcesInv'
<1>1. /\ job \in JobType /\ memo \in MemoType /\ tick \in TickType /\ saved \in Memory
      /\ tick.next \in Memory /\ job.id \in Nat /\ used \in [edits: Nat, faults: Nat]
  BY TypeSplit DEF SourcesInv, TickType, JobType, Id
<1>2. UNCHANGED <<job, reads, live, auto, spent>>
  BY DEF AskFails, TickSaves, SaveFails, ProcessRestarts, MemoryLost
<1>3. used' \in [edits: Nat, faults: Nat]
  BY <1>1 DEF AskFails, TickSaves, SaveFails, ProcessRestarts, MemoryLost, Fault
<1>4. saved' \in Memory
  BY <1>1, Constants DEF AskFails, TickSaves, SaveFails, ProcessRestarts, MemoryLost
<1>5. memo' = memo \/ memo' = NoMemo
  BY DEF AskFails, TickSaves, SaveFails, ProcessRestarts, MemoryLost
<1>6. \/ /\ tick' \in TickType /\ tick'.id = 0 /\ tick'.pc \in {"idle", "save"}
         /\ tick'.pc = "save" => tick'.answer = {}
      \/ (tick' = tick /\ memo' = memo)
  <2>1. CASE AskFails
    BY <1>1, <2>1, TickEnds DEF AskFails
  <2>2. CASE TickSaves \/ SaveFails \/ ProcessRestarts
    BY <1>1, <2>2, Constants, TickEnds DEF TickSaves, SaveFails, ProcessRestarts
  <2>3. CASE MemoryLost
    BY <2>3 DEF MemoryLost
  <2>4. QED
    BY <2>1, <2>2, <2>3
<1>7. NoMemo.id = 0 /\ NoMemo.age = 0 /\ NoMemo.held = 0 /\ NoMemo.attempts = 0
      /\ NoMemo.topics = {}
  BY DEF NoMemo
<1>8. TypeOK'
  BY <1>1, <1>2, <1>3, <1>4, <1>5, <1>6, Constants, TypeSplit, TypeSplitNext DEF SourcesInv
<1>9. IdInv' /\ AgeInv' /\ MemoIsWhole'
  BY <1>1, <1>2, <1>5, <1>6, <1>7 DEF SourcesInv, IdInv, AgeInv, MemoIsWhole, Stable
<1>10. AskInv' /\ AnswerIsWhole'
  BY <1>1, <1>2, <1>5, <1>6, <1>7 DEF SourcesInv, AskInv, AnswerIsWhole
<1>11. QED
  BY <1>8, <1>9, <1>10 DEF SourcesInv

\* The job shows more of what it reads.
LEMMA ShowMore == ASSUME SourcesInv, Shows PROVE SourcesInv'
<1>1. job \in JobType /\ reads \in [Id -> SUBSET Topics]
  BY TypeSplit DEF SourcesInv
<1>2. UNCHANGED <<reads, live, auto, memo, saved, tick, spent, used>>
  BY DEF Shows
<1>3. PICK t \in reads[job.id] \ job.shown : job' = [job EXCEPT !.shown = @ \cup {t}]
  BY DEF Shows
<1>4. /\ job' \in JobType /\ job'.id = job.id /\ job'.age = job.age /\ job'.running = job.running
  BY <1>1, <1>3 DEF JobType
<1>5. job.running /\ job.age # Discovery
  BY <1>3 DEF Shows, SourcesInv, AgeInv
<1>6. TypeOK'
  BY <1>2, <1>4, TypeSplit, TypeSplitNext DEF SourcesInv
<1>7. IdInv' /\ AgeInv' /\ AskInv' /\ MemoIsWhole' /\ AnswerIsWhole'
  BY <1>2, <1>4, <1>5 DEF SourcesInv, IdInv, AgeInv, AskInv, MemoIsWhole, AnswerIsWhole, Stable
<1>8. QED
  BY <1>6, <1>7 DEF SourcesInv

\* A new instance: nobody has asked it yet.
LEMMA Start == ASSUME SourcesInv, Starts PROVE SourcesInv'
<1>1. /\ job \in JobType /\ memo \in MemoType /\ tick \in TickType
      /\ reads \in [Id -> SUBSET Topics] /\ live \in [id: Id, running: BOOLEAN]
  BY TypeSplit DEF SourcesInv
<1>2. UNCHANGED <<live, auto, memo, saved, tick, spent, used>>
  BY DEF Starts
<1>3. job.id \in Nat /\ job.id < MaxJobs /\ job.id + 1 \in Id /\ memo.id \in Id /\ tick.id \in Id
      /\ live.id \in Id
  BY <1>1, Numbers DEF Starts, Id, JobType, MemoType, TickType
<1>4. job' = [id |-> job.id + 1, running |-> TRUE, shown |-> {}, age |-> 0]
  BY DEF Starts
<1>5. job' \in JobType
  <2>1. PICK r \in BOOLEAN : r = TRUE
    OBVIOUS
  <2>2. job' = [id |-> job.id + 1, running |-> r, shown |-> {}, age |-> 0]
    BY <1>4, <2>1, Zenon
  <2>3. QED
    BY <1>3, <2>2, Numbers DEF JobType
<1>6. PICK s \in Programs : reads' = [reads EXCEPT ![job.id + 1] = s]
  BY DEF Starts
<1>7. reads' \in [Id -> SUBSET Topics] /\ \A i \in Id : i <= job.id => reads'[i] = reads[i]
  BY <1>1, <1>3, <1>6, Numbers DEF Id
<1>8. job'.id = job.id + 1 /\ job'.age = 0
  BY <1>4
<1>9. /\ memo.id <= job.id /\ tick.id <= job.id /\ live.id <= job.id
      /\ reads'[memo.id] = reads[memo.id] /\ reads'[tick.id] = reads[tick.id]
  BY <1>3, <1>7 DEF SourcesInv, IdInv
<1>10. TypeOK'
  BY <1>2, <1>5, <1>7, TypeSplit, TypeSplitNext DEF SourcesInv
<1>11. IdInv'
  BY <1>2, <1>3, <1>8, <1>9 DEF IdInv, Id
<1>12. AgeInv'
  BY <1>2, <1>3, <1>8, <1>9, Numbers DEF SourcesInv, AgeInv, Id
<1>13. AskInv' /\ MemoIsWhole' /\ AnswerIsWhole'
  BY <1>2, <1>9 DEF SourcesInv, AskInv, MemoIsWhole, AnswerIsWhole, Stable
<1>14. QED
  BY <1>10, <1>11, <1>12, <1>13 DEF SourcesInv

LEMMA Stop == ASSUME SourcesInv, Stops PROVE SourcesInv'
<1>1. job \in JobType
  BY TypeSplit DEF SourcesInv
<1>2. UNCHANGED <<reads, live, auto, memo, saved, tick, spent, used>>
  BY DEF Stops
<1>3. PICK r \in BOOLEAN : r = FALSE
  OBVIOUS
<1>4. job' = [id |-> job.id, running |-> r, shown |-> {}, age |-> 0]
  <2>1. job' = [job EXCEPT !.running = r, !.shown = {}, !.age = 0]
    BY <1>3, Zenon DEF Stops
  <2>2. QED
    BY <1>1, <2>1 DEF JobType
<1>5. job' \in JobType
  BY <1>1, <1>4, Numbers DEF JobType
<1>6. ~job'.running /\ job'.id = job.id
  BY <1>3, <1>4
<1>7. TypeOK'
  BY <1>2, <1>5, TypeSplit, TypeSplitNext DEF SourcesInv
<1>8. IdInv' /\ AgeInv' /\ AskInv' /\ MemoIsWhole' /\ AnswerIsWhole'
  BY <1>2, <1>6 DEF SourcesInv, IdInv, AgeInv, AskInv, MemoIsWhole, AnswerIsWhole, Stable
<1>9. QED
  BY <1>7, <1>8 DEF SourcesInv

\* A failover starts the run over; an answer that was not settled is marked.
LEMMA FailOver == ASSUME SourcesInv, FailsOver PROVE SourcesInv'
<1>1. /\ job \in JobType /\ memo \in MemoType /\ tick \in TickType
      /\ used \in [edits: Nat, faults: Nat]
  BY TypeSplit DEF SourcesInv
<1>2. UNCHANGED <<reads, live, auto, saved, tick, spent>>
  BY DEF FailsOver
<1>3. used' \in [edits: Nat, faults: Nat]
  BY <1>1 DEF FailsOver, Fault
<1>4. job' = [id |-> job.id, running |-> job.running, shown |-> {}, age |-> 0]
  <2>1. job' = [job EXCEPT !.shown = {}, !.age = 0]
    BY DEF FailsOver
  <2>2. QED
    BY <1>1, <2>1 DEF JobType
<1>5. job' \in JobType /\ job'.id = job.id /\ job'.age = 0
  BY <1>1, <1>4, Numbers DEF JobType
<1>6. PICK f \in BOOLEAN : f = (memo.failed \/ (memo.id = job.id /\ ~Stable(memo)))
  OBVIOUS
<1>7. memo' = [memo EXCEPT !.failed = f]
  BY <1>6, Zenon DEF FailsOver
<1>8. /\ memo' \in MemoType /\ memo'.failed = f /\ memo'.id = memo.id
      /\ memo'.topics = memo.topics /\ memo'.attempts = memo.attempts
      /\ memo'.age = memo.age /\ memo'.held = memo.held
  BY <1>1, <1>7 DEF MemoType
<1>9. Stable(memo)' = Stable(memo)
  BY <1>8 DEF Stable
<1>10. TypeOK'
  BY <1>2, <1>3, <1>5, <1>8, TypeSplit, TypeSplitNext DEF SourcesInv
<1>11. IdInv' /\ AskInv' /\ MemoIsWhole' /\ AnswerIsWhole'
  BY <1>2, <1>5, <1>6, <1>8, <1>9 DEF SourcesInv, IdInv, AskInv, MemoIsWhole, AnswerIsWhole
<1>12. AgeInv'
  <2>1. ~(memo'.id = job'.id /\ ~memo'.failed /\ ~Stable(memo)')
    BY <1>5, <1>6, <1>8, <1>9
  <2>2. job'.age # Discovery /\ memo'.held <= memo'.age
    BY <1>5, <1>8, Numbers DEF SourcesInv, AgeInv
  <2>3. QED
    BY <2>1, <2>2 DEF AgeInv, Stable
<1>13. QED
  BY <1>10, <1>11, <1>12 DEF SourcesInv

LEMMA InformOrEdit == ASSUME SourcesInv, Inform \/ EditSources PROVE SourcesInv'
<1>1. job \in JobType /\ auto \in BOOLEAN /\ used \in [edits: Nat, faults: Nat]
      /\ live \in [id: Id, running: BOOLEAN]
  BY TypeSplit DEF SourcesInv
<1>2. UNCHANGED <<job, reads, memo, saved, tick, spent>>
  BY DEF Inform, EditSources
<1>3. used' \in [edits: Nat, faults: Nat] /\ auto' \in BOOLEAN
  <2>1. used' \in [edits: Nat, faults: Nat]
    BY <1>1 DEF Inform, EditSources
  <2>2. auto' \in BOOLEAN
    BY <1>1, Zenon DEF Inform, EditSources
  <2>3. QED
    BY <2>1, <2>2
<1>4. live' \in [id: Id, running: BOOLEAN] /\ (live' = live \/ live'.id = job.id)
  BY <1>1 DEF Inform, EditSources, JobType
<1>5. job.id \in Nat
  BY <1>1 DEF JobType, Id
<1>6. TypeOK'
  BY <1>2, <1>3, <1>4, TypeSplit, TypeSplitNext DEF SourcesInv
<1>7. IdInv' /\ AgeInv' /\ AskInv' /\ MemoIsWhole' /\ AnswerIsWhole'
  BY <1>2, <1>4, <1>5 DEF SourcesInv, IdInv, AgeInv, AskInv, MemoIsWhole, AnswerIsWhole, Stable
<1>8. QED
  BY <1>6, <1>7 DEF SourcesInv

\* Time passes for the job, for what was told and for the call on its way alike.
LEMMA TimePasses == ASSUME SourcesInv, Pass PROVE SourcesInv'
<1>1. job \in JobType /\ memo \in MemoType /\ tick \in TickType
  BY TypeSplit DEF SourcesInv
<1>2. UNCHANGED <<reads, live, auto, saved, spent, used>>
  BY DEF Pass
<1>3. /\ job.age \in 0..Discovery /\ memo.age \in 0..SourceSettle /\ memo.held \in 0..SourceSettle
      /\ tick.waited \in 0..ProbeTimeout /\ Discovery \in Nat /\ SourceSettle \in Nat
      /\ ProbeTimeout \in Nat /\ job.running \in BOOLEAN /\ memo.failed \in BOOLEAN
  BY <1>1, Numbers DEF JobType, MemoType, TickType
<1> DEFINE a == IF job.running THEN Capped(job.age, Discovery) ELSE job.age
           b == Capped(memo.age, SourceSettle)
<1>4. /\ a \in 0..Discovery /\ b \in 0..SourceSettle /\ b >= memo.age /\ b <= memo.age + 1
      /\ job.running => (job.age < Discovery => a = job.age + 1)
      /\ job.running => (job.age = Discovery => a = Discovery)
  BY <1>3, CappedAge
<1>5. job' = [job EXCEPT !.age = a] /\ memo' = [memo EXCEPT !.age = b]
  BY DEF Pass
<1> HIDE DEF a, b
<1>6. /\ job' \in JobType /\ job'.id = job.id /\ job'.running = job.running
      /\ job'.shown = job.shown /\ job'.age = a
  BY <1>1, <1>4, <1>5 DEF JobType
<1>7. /\ memo' \in MemoType /\ memo'.failed = memo.failed /\ memo'.id = memo.id
      /\ memo'.topics = memo.topics /\ memo'.attempts = memo.attempts
      /\ memo'.age = b /\ memo'.held = memo.held
  BY <1>1, <1>4, <1>5 DEF MemoType
<1>8. /\ tick' \in TickType /\ tick'.pc = tick.pc /\ tick'.id = tick.id
      /\ tick'.answer = tick.answer
      /\ tick.pc = "asking" => tick'.waited = tick.waited + 1
  <2>1. CASE tick.pc = "asking"
    <3>1. tick' = [tick EXCEPT !.waited = tick.waited + 1] /\ tick.waited + 1 \in 0..ProbeTimeout
      BY <1>3, <2>1 DEF Pass
    <3>2. QED
      BY <1>1, <3>1 DEF TickType
  <2>2. CASE tick.pc # "asking"
    BY <1>1, <2>2 DEF Pass
  <2>3. QED
    BY <2>1, <2>2
<1>9. Stable(memo)' = Stable(memo)
  BY <1>7 DEF Stable
<1>10. TypeOK'
  BY <1>2, <1>6, <1>7, <1>8, TypeSplit, TypeSplitNext DEF SourcesInv
<1>11. IdInv' /\ MemoIsWhole' /\ AnswerIsWhole'
  BY <1>2, <1>6, <1>7, <1>8, <1>9 DEF SourcesInv, IdInv, MemoIsWhole, AnswerIsWhole
<1>12. AskInv'
  BY <1>2, <1>3, <1>4, <1>7, <1>8 DEF SourcesInv, AskInv
<1>13. AgeInv'
  <2>1. job'.running /\ job'.age = Discovery => job'.shown = reads'[job'.id]
    BY <1>2, <1>3, <1>4, <1>6 DEF SourcesInv, AgeInv, Pass
  <2>2. memo'.held <= memo'.age
    BY <1>3, <1>4, <1>7 DEF SourcesInv, AgeInv
  <2>3. memo'.id = job'.id /\ job'.running /\ memo'.attempts > 0 /\ ~memo'.failed /\ ~Stable(memo)'
           => job'.age >= memo'.age \/ job'.age = Discovery
    BY <1>3, <1>4, <1>6, <1>7, <1>9 DEF SourcesInv, AgeInv
  <2>4. QED
    BY <2>1, <2>2, <2>3 DEF AgeInv, Stable
<1>14. QED
  BY <1>10, <1>11, <1>12, <1>13 DEF SourcesInv
-----------------------------------------------------------------------------
\* What the reconciler holds of a job's topics is invariant: which instance they are of, how long it
\* has shown them, and that a list it trusts is whole (jobSources, sources).
THEOREM SourcesInvariant == Spec => []SourcesInv
<1>1. Init => SourcesInv
  <2> SUFFICES ASSUME Init PROVE SourcesInv
    OBVIOUS
  <2>1. job = [id |-> 0, running |-> FALSE, shown |-> {}, age |-> 0] /\ live = [id |-> 0, running |-> FALSE]
    BY DEF Init
  <2>2. PICK f \in BOOLEAN : f = FALSE
    OBVIOUS
  <2>3. job = [id |-> 0, running |-> f, shown |-> {}, age |-> 0] /\ live = [id |-> 0, running |-> f]
    BY <2>1, <2>2, Zenon
  <2>4. job \in JobType /\ live \in [id: Id, running: BOOLEAN]
    BY <2>3, Numbers DEF JobType, Id
  <2>5. /\ reads \in [Id -> SUBSET Topics] /\ auto \in BOOLEAN /\ spent \subseteq Id
        /\ used \in [edits: Nat, faults: Nat]
    BY DEF Init
  <2>6. memo = NoMemo /\ saved = NoMemory /\ tick = NoTick
    BY DEF Init
  <2>7. TypeOK
    BY <2>4, <2>5, <2>6, Constants, TypeSplit
  <2>8. /\ memo.id = 0 /\ memo.age = 0 /\ memo.held = 0 /\ memo.attempts = 0 /\ memo.topics = {}
        /\ tick.pc = "idle" /\ tick.id = 0
    BY <2>6 DEF NoMemo, NoTick
  <2>9. job.id = 0 /\ live.id = 0 /\ ~job.running
    BY <2>2, <2>3
  <2>10. IdInv /\ AgeInv /\ AskInv /\ MemoIsWhole /\ AnswerIsWhole
    BY <2>8, <2>9 DEF IdInv, AgeInv, AskInv, MemoIsWhole, AnswerIsWhole, Stable
  <2>11. QED
    BY <2>7, <2>10 DEF SourcesInv
<1>2. SourcesInv /\ [Next]_vars => SourcesInv'
  <2>1. SourcesInv /\ UNCHANGED vars => SourcesInv'
    BY DEF vars, SourcesInv, TypeOK, IdInv, AgeInv, AskInv, MemoIsWhole, AnswerIsWhole, Stable
  <2>2. SourcesInv /\ Next => SourcesInv'
    BY AskNobody, Ask, IsTold, Faults, ShowMore, Start, Stop, FailOver, InformOrEdit, TimePasses
       DEF Next, Tick
  <2>3. QED
    BY <2>1, <2>2
<1>3. QED
  BY <1>1, <1>2, PTL DEF Spec

\* What is checked against the annotation or learned is the whole list of the job's topics, for any
\* number of topics, instances, ticks and faults (jobSources, observe).
THEOREM AnswersAreWhole == Spec => []AnswerIsWhole
<1>1. SourcesInv => AnswerIsWhole
  BY DEF SourcesInv
<1>2. QED
  BY <1>1, SourcesInvariant, PTL
=============================================================================
