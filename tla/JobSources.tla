----------------------------- MODULE JobSources -----------------------------
(***************************************************************************)
(* What does the running job read?  Asked over several ticks of a process  *)
(* that may restart, of a job that shows its topics one after the other,   *)
(* fails over and is replaced, and whose answer is then checked or learned *)
(* once per job instance (reconciler.go: observe, jobSources, learnSources,*)
(* verifySources, memo).                                                   *)
(*                                                                         *)
(* The job is external.  It shows a topic once the reader has a split of   *)
(* it and the metrics have reached the REST API, and all of them within    *)
(* Discovery of its start.  Instants are kept as ages: how long ago they   *)
(* were, as far as anything compares them.                                 *)
(***************************************************************************)
EXTENDS Integers

CONSTANTS
    Topics,
    Programs,        \* what an instance of the job may read: sets of topics
    SourceSettle,    \* sourceSettle: how long the topics must hold still
    SourceAttempts,  \* sourceAttempts: answers without topics that count as an answer
    ProbeTimeout,    \* probeTimeout: how long a REST call may take
    Discovery,       \* external: how long a job may take to show all its topics
    MaxJobs,         \* bound: instances of the job
    MaxEdits,        \* bound: edits of the sources annotation
    MaxFaults        \* bound: failed calls, lost saves and memory, process restarts, failovers

ASSUME JobSourcesAssumption ==
    /\ Programs \subseteq SUBSET Topics
    /\ {SourceAttempts, ProbeTimeout, MaxJobs, MaxEdits, MaxFaults} \subseteq Nat
    /\ SourceSettle \in Nat \ {0} /\ Discovery \in Nat \ {0}
    /\ Discovery + ProbeTimeout <= SourceSettle

VARIABLES job,    \* the job: its id, whether it runs, what it shows, how long since it started
          reads,  \* job id -> the topics it reads
          live,   \* the job as the informer shows it
          auto,   \* Policy.SourcesAuto; otherwise the annotation lists the topics
          memo,   \* memo.jobs: what this process was told
          saved,  \* the ConfigMap
          tick,   \* the tick in progress
          spent,  \* history: the instances that were checked and taught nothing, or not all
          used

vars == <<job, reads, live, auto, memo, saved, tick, spent, used>>

Id == 0..MaxJobs   \* 0: no job yet, JobID ""

Capped(age, bound) == IF age < bound THEN age + 1 ELSE age

\* cachedJob.  age is how long ago since was, held is last - since; failed is a history: the
\* job failed over before the answer that began at since was settled.
NoMemo == [id |-> 0, topics |-> {}, attempts |-> 0, age |-> 0, held |-> 0, failed |-> FALSE]

Memory == [sources: SUBSET Topics, checked: Id]

NoMemory == [sources |-> {}, checked |-> 0]

\* id and answer are the job asked and what it shows, and at the end what was checked or learned.
NoTick == [pc |-> "idle", id |-> 0, answer |-> {}, waited |-> 0, next |-> NoMemory]

Fault ==
    /\ used.faults < MaxFaults
    /\ used' = [used EXCEPT !.faults = @ + 1]
----------------------------------------------------------------------------
(* jobSources *)

\* Mutant of Stable: topics are an answer as soon as there are any.
StableAtOnce(c) == c.topics # {}

Stable(c) == c.topics # {} /\ c.held >= SourceSettle

Settled(c) == Stable(c) \/ (c.topics = {} /\ c.attempts >= SourceAttempts)

\* Mutant of CachedJob: the entry of another instance will do.
CachedAny(id) == [memo EXCEPT !.id = id]

\* The entry of this job instance; another instance's is not used.
CachedJob(id) == IF memo.id = id THEN memo ELSE [NoMemo EXCEPT !.id = id]

\* Mutant of Told: every answer starts over.
ToldAnew(c, topics) ==
    [c EXCEPT !.topics = topics, !.attempts = Capped(@, SourceAttempts),
              !.age = 0, !.held = 0, !.failed = FALSE]

\* The entry after an answer: a changed one starts over.
Told(c, topics) ==
    LET anew == c.attempts = 0 \/ topics # c.topics
    IN  [id |-> c.id, topics |-> topics, attempts |-> Capped(c.attempts, SourceAttempts),
         age |-> IF anew THEN 0 ELSE c.age, held |-> IF anew THEN 0 ELSE c.age,
         failed |-> c.failed /\ ~anew]
----------------------------------------------------------------------------
(* One tick *)

\* observe: a settled answer is checked or, with sources: auto, learned once per job instance.
\* A job without topics teaches nothing, a list is never changed.
Observe(c, m) ==
    IF Settled(c) /\ m.checked # c.id
    THEN /\ tick' = [NoTick EXCEPT !.pc = "save", !.id = c.id, !.answer = c.topics, !.next =
                        [sources |-> IF auto /\ c.topics # {} THEN c.topics ELSE m.sources,
                         checked |-> c.id]]
         /\ spent' = IF c.topics = {} \/ ~auto \/ c.failed THEN spent \cup {c.id} ELSE spent
    ELSE /\ tick' = [NoTick EXCEPT !.pc = "save", !.next = m]
         /\ UNCHANGED spent

\* The tick loads memory; the job is not asked when it is not RUNNING or has answered.
TickAsksNobody ==
    /\ tick.pc = "idle"
    /\ IF live.running
       THEN Settled(CachedJob(live.id)) /\ Observe(CachedJob(live.id), saved)
       ELSE tick' = [NoTick EXCEPT !.pc = "save", !.next = saved] /\ UNCHANGED spent
    /\ UNCHANGED <<job, reads, live, auto, memo, saved, used>>

\* REST.Sources, for the id the tick has read: what the job shows when it is asked. A job that
\* is not there any more is an error, and nothing is known.
TickAsks ==
    /\ tick.pc = "idle"
    /\ live.running
    /\ ~Settled(CachedJob(live.id))
    /\ tick' = IF job.running /\ job.id = live.id
               THEN [NoTick EXCEPT !.pc = "asking", !.id = live.id, !.answer = job.shown,
                                   !.next = saved]
               ELSE [NoTick EXCEPT !.pc = "save", !.next = saved]
    /\ UNCHANGED <<job, reads, live, auto, memo, saved, spent, used>>

TickIsTold ==
    /\ tick.pc = "asking"
    /\ memo' = Told(CachedJob(tick.id), tick.answer)
    /\ Observe(memo', tick.next)
    /\ UNCHANGED <<job, reads, live, auto, saved, used>>

AskFails ==
    /\ tick.pc = "asking"
    /\ Fault
    /\ tick' = [NoTick EXCEPT !.pc = "save", !.next = tick.next]
    /\ UNCHANGED <<job, reads, live, auto, memo, saved, spent>>

TickSaves ==
    /\ tick.pc = "save"
    /\ saved' = tick.next
    /\ tick' = NoTick
    /\ UNCHANGED <<job, reads, live, auto, memo, spent, used>>

\* A failed patch or save: what the tick came to is lost, memo is kept.
SaveFails ==
    /\ tick.pc = "save"
    /\ Fault
    /\ tick' = NoTick
    /\ UNCHANGED <<job, reads, live, auto, memo, saved, spent>>

ProcessRestarts ==
    /\ Fault
    /\ memo' = NoMemo
    /\ tick' = NoTick
    /\ UNCHANGED <<job, reads, live, auto, saved, spent>>

\* The ConfigMap is deleted between two ticks.
MemoryLost ==
    /\ tick.pc = "idle"
    /\ saved # NoMemory
    /\ Fault
    /\ saved' = NoMemory
    /\ UNCHANGED <<job, reads, live, auto, memo, tick, spent>>

Tick == TickAsksNobody \/ TickAsks \/ TickIsTold \/ TickSaves
----------------------------------------------------------------------------
(* The job, the informer, the annotation, time *)

Shows ==
    /\ job.running
    /\ \E t \in reads[job.id] \ job.shown : job' = [job EXCEPT !.shown = @ \cup {t}]
    /\ UNCHANGED <<reads, live, auto, memo, saved, tick, spent, used>>

\* A new instance, with the topics its program now reads.
Starts ==
    /\ ~job.running
    /\ job.id < MaxJobs
    /\ job' = [id |-> job.id + 1, running |-> TRUE, shown |-> {}, age |-> 0]
    /\ \E s \in Programs : reads' = [reads EXCEPT ![job.id + 1] = s]
    /\ UNCHANGED <<live, auto, memo, saved, tick, spent, used>>

Stops ==
    /\ job.running
    /\ job' = [job EXCEPT !.running = FALSE, !.shown = {}, !.age = 0]
    /\ UNCHANGED <<reads, live, auto, memo, saved, tick, spent, used>>

\* The instance starts over, and shows its topics anew.
FailsOver ==
    /\ job.running
    /\ Fault
    /\ job' = [job EXCEPT !.shown = {}, !.age = 0]
    /\ memo' = [memo EXCEPT !.failed = @ \/ (memo.id = job.id /\ ~Stable(memo))]
    /\ UNCHANGED <<reads, live, auto, saved, tick, spent>>

Inform ==
    /\ live # [id |-> job.id, running |-> job.running]
    /\ live' = [id |-> job.id, running |-> job.running]
    /\ UNCHANGED <<job, reads, auto, memo, saved, tick, spent, used>>

EditSources ==
    /\ used.edits < MaxEdits
    /\ used' = [used EXCEPT !.edits = @ + 1]
    /\ auto' = ~auto
    /\ tick.pc = "idle"   \* a tick goes on with the policy it has read
    /\ UNCHANGED <<job, reads, live, memo, saved, tick, spent>>

\* A call is over after ProbeTimeout, a running job shows all it reads after Discovery.
Pass ==
    /\ tick.pc = "asking" => tick.waited < ProbeTimeout
    /\ job.running /\ job.age + 1 = Discovery => job.shown = reads[job.id]
    /\ job' = [job EXCEPT !.age = IF job.running THEN Capped(@, Discovery) ELSE @]
    /\ memo' = [memo EXCEPT !.age = Capped(@, SourceSettle)]
    /\ tick' = IF tick.pc = "asking" THEN [tick EXCEPT !.waited = @ + 1] ELSE tick
    /\ UNCHANGED <<reads, live, auto, saved, spent, used>>
----------------------------------------------------------------------------
Init ==
    /\ job = [id |-> 0, running |-> FALSE, shown |-> {}, age |-> 0]
    /\ reads = [i \in Id |-> {}]
    /\ live = [id |-> 0, running |-> FALSE]
    /\ auto \in BOOLEAN
    /\ memo = NoMemo
    /\ saved = NoMemory
    /\ tick = NoTick
    /\ spent = {}
    /\ used = [edits |-> 0, faults |-> 0]

Next == Tick \/ AskFails \/ SaveFails \/ ProcessRestarts \/ MemoryLost
        \/ Shows \/ Starts \/ Stops \/ FailsOver \/ Inform \/ EditSources \/ Pass

Spec == Init /\ [][Next]_vars

\* Ticks come round and go on to their end, the informer catches up, and time passes.
FairSpec == Spec /\ WF_vars(Tick) /\ WF_vars(Inform) /\ WF_vars(Pass) /\ WF_vars(Shows)
----------------------------------------------------------------------------
TypeOK ==
    /\ job \in [id: Id, running: BOOLEAN, shown: SUBSET Topics, age: 0..Discovery]
    /\ reads \in [Id -> SUBSET Topics]
    /\ live \in [id: Id, running: BOOLEAN]
    /\ auto \in BOOLEAN
    /\ memo \in [id: Id, topics: SUBSET Topics, attempts: 0..SourceAttempts,
                 age: 0..SourceSettle, held: 0..SourceSettle, failed: BOOLEAN]
    /\ saved \in Memory
    /\ tick \in [pc: {"idle", "asking", "save"}, id: Id, answer: SUBSET Topics,
                 waited: 0..ProbeTimeout, next: Memory]
    /\ spent \subseteq Id
    /\ used \in [edits: Nat, faults: Nat]

\* The answer that is checked against the annotation or learned is the whole list of the topics the
\* job reads, or none at all, although every tick in between saw part of the graph; unless the
\* job failed over while its answer was settling (jobSources, sourceSettle).
AnswerIsWhole ==
    tick.pc = "save" /\ tick.answer # {} => tick.answer = reads[tick.id] \/ memo.failed

IdInv == memo.id <= job.id /\ live.id <= job.id /\ tick.id <= job.id

MemoIsWhole == Stable(memo) => memo.topics = reads[memo.id] \/ memo.failed

\* What the job shows is all it reads once Discovery has passed, and the topics a process was told
\* are no older than the run of the job that showed them.
AgeInv ==
    /\ job.running /\ job.age = Discovery => job.shown = reads[job.id]
    /\ memo.held <= memo.age
    /\ memo.id = job.id /\ job.running /\ memo.attempts > 0 /\ ~memo.failed /\ ~Stable(memo)
          => job.age >= memo.age \/ job.age = Discovery

\* An answer on its way was asked for waited ago.
AskInv ==
    tick.pc = "asking" /\ tick.id = memo.id /\ memo.attempts > 0 /\ ~memo.failed
        => memo.age - tick.waited < Discovery \/ tick.answer = reads[tick.id]

\* Topics that held still for SourceSettle are the topics the job reads, at every step of the ticks
\* that ask and of the job that shows them (jobSources): the inductive form of AnswerIsWhole.
SourcesInv ==
    /\ TypeOK
    /\ IdInv
    /\ AgeInv
    /\ AskInv
    /\ MemoIsWhole
    /\ AnswerIsWhole

\* With sources: auto a running job's topics are learned in the end, whatever was learned from earlier
\* instances and however often saves, calls and processes fail; unless this instance has shown nothing for
\* SourceAttempts answers, or was checked while the annotation was a list (observe, learnSources).
TopicsAreLearned ==
    \A i \in Id \ {0} :
        (job.id = i /\ job.running /\ auto)
            ~> (\/ saved = [sources |-> reads[i], checked |-> i]
                \/ job.id # i \/ ~job.running \/ ~auto \/ i \in spent)
=============================================================================
