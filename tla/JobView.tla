------------------------------ MODULE JobView ------------------------------
(***************************************************************************)
(* May this job sleep?  What a tick asks the broker, the consumer group and *)
(* the running job (reconciler.observe, drained; kafka.go Observe and Lag;  *)
(* flink/rest.go Read) and the job gate's answer (decide/jobgate.go).       *)
(*                                                                          *)
(* The job's reader is external: emitted is its currentOffset gauge, -1     *)
(* until it has emitted a record, and idle is its sourceIdleTime, which     *)
(* counts from the moment the reader finds nothing to read.  The reader is  *)
(* read_committed, and it may be as slow as it likes.                       *)
(***************************************************************************)
EXTENDS Gap

CONSTANTS
    Quiet,          \* Decider.Quiet: one poll interval
    DrainedChecks,  \* drainedChecks: questions one tick asks about gaps
    MaxJobRestarts     \* bound: restarts of the job

ASSUME JobViewAssumption ==
    /\ Quiet \in Nat \ {0}
    /\ {DrainedChecks, MaxJobRestarts} \subseteq Nat

VARIABLES position,  \* partition -> the next offset the reader looks at
          emitted,   \* partition -> the last offset it emitted in this run of the job
          idle,      \* how long it has had nothing to emit
          restarts,
          tick       \* the tick in progress

reader == <<position, emitted, idle, restarts>>
vars   == <<broker, faults, q, empty, reader, tick>>

InitialOffset == -1
Unknown       == -1   \* an end offset, a gauge or a lag that could not be asked
----------------------------------------------------------------------------
(* The reader *)

\* The offsets below the last stable one that the reader is still to be given.
Unread(p, from, to) ==
    {o \in from..(to - 1) : \E b \in Committed(log[p]) : b.first <= o /\ o <= b.last}

Emit ==
    /\ \E p \in Partitions : \E o \in Unread(p, position[p], LastStable(p)) :
          /\ \A x \in Unread(p, position[p], LastStable(p)) : o <= x
          /\ position' = [position EXCEPT ![p] = o + 1]
          /\ emitted' = [emitted EXCEPT ![p] = o]
    /\ idle' = 0
    /\ UNCHANGED <<broker, faults, q, empty, restarts, tick>>

\* Time passes for a reader that had nothing when it last looked.
Idle ==
    /\ idle < Quiet
    /\ idle > 0 \/ \A p \in Partitions : Unread(p, position[p], LastStable(p)) = {}
    /\ idle' = idle + 1
    /\ UNCHANGED <<broker, faults, q, empty, position, emitted, restarts, tick>>

\* A new run of the job goes on from its position, with gauges that start over.
JobRestarts ==
    /\ restarts < MaxJobRestarts
    /\ restarts' = restarts + 1
    /\ emitted' = [p \in Partitions |-> InitialOffset]
    /\ idle' = 0
    /\ UNCHANGED <<broker, faults, q, empty, position, tick>>
----------------------------------------------------------------------------
(* One tick *)

\* ends, offsets and drained are Observation.Ends and JobReading.Offsets and Drained, with offsets
\* for the partitions P that the job shows; left are those whose gap is still to be looked at.
TickType(P) ==
    [pc: {"idle", "lag", "read", "drain", "gate", "done"}, ends: [Partitions -> Int], lag: Int,
     offsets: [P -> Int], idleFor: Nat, drained: SUBSET Partitions, left: SUBSET Partitions,
     asked: Nat, gate: {"unknown", "busy", "idle"}]

NoTick == [pc |-> "idle", ends |-> [p \in Partitions |-> 0], lag |-> Unknown,
           offsets |-> [p \in {} |-> 0], idleFor |-> 0, drained |-> {}, left |-> {},
           asked |-> 0, gate |-> "unknown"]

\* Kafka.Observe: the end offsets, Unknown for a partition that was not listed.
Observe ==
    /\ tick.pc \in {"idle", "done"}
    /\ \E missing \in SUBSET Partitions :
          /\ Cardinality(missing) + faults <= MaxFaults
          /\ faults' = faults + Cardinality(missing)
          /\ tick' = [NoTick EXCEPT !.pc = "lag", !.ends = [p \in Partitions |->
                                       IF p \in missing THEN Unknown ELSE end[p]]]
    /\ UNCHANGED <<broker, q, empty, reader>>

\* Mutant of Lag: a partition without a commit counts as nothing pending.
LagForgiving(ends, at) ==
    Cardinality(UNION {{<<p, o>> : o \in at[p]..(ends[p] - 1)} : p \in {r \in Partitions : at[r] >= 0}})

\* Kafka.Lag: the offsets between the group's commit and the end, over all partitions; Unknown
\* when one partition has no end offset or no commit.
Lag(ends, at) ==
    IF \E p \in Partitions : ends[p] < 0 \/ at[p] < 0 THEN Unknown
    ELSE Cardinality(UNION {{<<p, o>> : o \in at[p]..(ends[p] - 1)} : p \in Partitions})

\* The group has committed the reader's present position or an earlier one, or nothing.
Commits ==
    {at \in [Partitions -> UNION {-1..position[p] : p \in Partitions}] :
        \A p \in Partitions : at[p] <= position[p]}

MeasureLag ==
    /\ tick.pc = "lag"
    /\ \E at \in Commits :
          tick' = [tick EXCEPT !.pc = "read", !.lag = Lag(tick.ends, at)]
    /\ UNCHANGED <<broker, faults, q, empty, reader>>

\* REST.Read: the gauges of the job. A reader that got its splits late has not shown them all.
ReadJob ==
    /\ tick.pc = "read"
    /\ \E hidden \in SUBSET Partitions :
          /\ Cardinality(hidden) + faults <= MaxFaults
          /\ faults' = faults + Cardinality(hidden)
          /\ tick' = [tick EXCEPT !.pc = IF idle < Quiet THEN "gate" ELSE "drain",
                                  !.offsets = [p \in Partitions \ hidden |-> emitted[p]],
                                  !.idleFor = idle, !.left = Partitions, !.lag = Unknown]
    /\ UNCHANGED <<broker, q, empty, reader>>

\* Whether the partition was read short of its end, so that the gap is worth a question.
Short(p) ==
    /\ p \in DOMAIN tick.offsets
    /\ tick.offsets[p] >= 0
    /\ tick.offsets[p] + 1 < tick.ends[p]

NextLeft == CHOOSE p \in tick.left : \A r \in tick.left : p <= r

\* drained: the next partition, in order; past DrainedChecks questions the rest stay pending.
Drain ==
    /\ tick.pc = "drain"
    /\ q.pc = "none"
    /\ \/ /\ tick.left # {} => tick.asked = DrainedChecks /\ Short(NextLeft)
          /\ tick' = [tick EXCEPT !.pc = "gate"]
          /\ UNCHANGED q
       \/ /\ tick.left # {}
          /\ ~Short(NextLeft)
          /\ tick' = [tick EXCEPT !.left = @ \ {NextLeft}]
          /\ UNCHANGED q
       \/ /\ tick.left # {}
          /\ Short(NextLeft)
          /\ tick.asked < DrainedChecks
          /\ tick' = [tick EXCEPT !.left = @ \ {NextLeft}, !.asked = @ + 1]
          /\ q' = Ask(NextLeft, tick.offsets[NextLeft] + 1, tick.ends[NextLeft])
    /\ UNCHANGED <<broker, faults, empty, reader>>

\* The answer to the question; what could not be asked stays pending.
Answered ==
    /\ tick.pc = "drain"
    /\ q.pc \in {"records", "drained", "unknown"}
    /\ tick' = [tick EXCEPT !.drained = IF q.pc = "drained" THEN @ \cup {q.key.p} ELSE @]
    /\ q' = NoQuestion
    /\ UNCHANGED <<broker, faults, empty, reader>>

\* jobGate: what is pending in a partition. A reader that never emitted is caught up if it is idle.
Pending(ends, t, p) ==
    IF t.offsets[p] = InitialOffset THEN (IF t.idleFor = 0 THEN ends[p] ELSE 0)
    ELSE IF p \in t.drained THEN 0
    ELSE IF ends[p] > t.offsets[p] + 1 THEN ends[p] - (t.offsets[p] + 1) ELSE 0

JobGate(ends, t) ==
    IF \E p \in Partitions : ends[p] < 0 \/ p \notin DOMAIN t.offsets THEN "unknown"
    ELSE IF (\E p \in Partitions : Pending(ends, t, p) > 0) \/ t.idleFor < Quiet THEN "busy"
    ELSE "idle"

\* The tick is over; what the gate was told is kept for the properties when it said idle.
Gate ==
    LET gate == JobGate(tick.ends, tick)
        kept == [NoTick EXCEPT !.ends = tick.ends, !.offsets = tick.offsets]
    IN  /\ tick.pc = "gate"
        /\ tick' = [(IF gate = "idle" THEN kept ELSE NoTick) EXCEPT !.pc = "done", !.gate = gate]
        /\ UNCHANGED <<broker, faults, q, empty, reader>>
----------------------------------------------------------------------------
\* A job that has read the one record of each partition.
Init ==
    /\ log = [p \in Partitions |-> {[first |-> 0, last |-> 0, kind |-> "plain", pid |-> NoProducer]}]
    /\ end = [p \in Partitions |-> 1]
    /\ wrote = 0 /\ compacted = 0 /\ faults = 0 /\ restarts = 0
    /\ q = NoQuestion /\ empty = {}
    /\ position = [p \in Partitions |-> 1]
    /\ emitted = [p \in Partitions |-> 0]
    /\ idle = 0
    /\ tick = NoTick

Broker == (Produce \/ EndTransaction \/ Compact) /\ UNCHANGED <<faults, q, empty, reader, tick>>

AskBroker == Records /\ UNCHANGED <<reader, tick>>

Probe == Observe \/ MeasureLag \/ ReadJob \/ Drain \/ Answered \/ Gate

Next == Broker \/ Emit \/ Idle \/ JobRestarts \/ AskBroker \/ Probe

Spec == Init /\ [][Next]_vars

\* Ticks come round, the job reads what there is, and time passes.
FairSpec == Spec /\ WF_vars(Probe) /\ WF_vars(AskBroker) /\ WF_vars(Emit) /\ WF_vars(Idle)
----------------------------------------------------------------------------
\* When the job gate lets a job sleep, nothing is pending: below the end offsets of this tick there
\* is no record, committed or in an open transaction, after the last one the job had emitted, with
\* markers, aborted transactions and compaction in between (jobGate, drained, gap.go Records).
IdleMeansRead ==
    tick.pc = "done" /\ tick.gate = "idle" =>
        \A p \in Partitions : tick.offsets[p] >= 0 =>
            /\ Unread(p, tick.offsets[p] + 1, tick.ends[p]) = {}
            /\ \A b \in Open(log[p]) : b.first >= tick.ends[p]

\* A range remembered as empty never gets a record: "a log only grows at its end" (gap.go, gaps).
RememberedStaysEmpty ==
    \A k \in empty : /\ Unread(k.p, k.from, k.to) = {}
                     /\ \A b \in Open(log[k.p]) : b.first >= k.to

\* With no lag the group has read every record below the end offsets of the tick (kafka.go, Lag).
NoLagMeansRead ==
    tick.pc = "read" /\ tick.lag = 0 =>
        \A p \in Partitions : Unread(p, 0, tick.ends[p]) \subseteq 0..(position[p] - 1)

TypeOK ==
    /\ log \in [Partitions -> SUBSET Batch] /\ end \in [Partitions -> Nat]
    /\ q \in Question /\ empty \subseteq GapKey
    /\ position \in [Partitions -> Nat] /\ emitted \in [Partitions -> Int] /\ idle \in Nat
    /\ \E P \in SUBSET Partitions : tick \in TickType(P)
    /\ {wrote, compacted, faults, restarts} \subseteq Nat

Apart(b, c) == b = c \/ b.last < c.first \/ c.last < b.first

\* The batches of a log do not overlap and lie below its end; a marker is one offset.
Sound(l, e) ==
    \A b \in l : /\ b.first <= b.last /\ b.last < e
                 /\ IsMarker(b) => b.first = b.last
                 /\ b.kind # "plain" => b.pid \in Producers
                 /\ \A c \in l : Apart(b, c)

LogInv == \A p \in Partitions : Sound(log[p], end[p])

\* No transaction that begins below an offset is still open.
Decided(l, to) == \A b \in Open(l) : b.first >= to

\* Nothing in a range is, or can become, a record for a reader: what the answer "drained" says.
Clear(l, from, to) ==
    /\ Decided(l, to)
    /\ from < to => \A b \in Committed(l) : b.last < from \/ b.first >= to

\* The first marker of a producer from an offset on, and it aborts.
Aborts(l, m, pid, from) ==
    /\ m.kind = "abort" /\ m.pid = pid /\ from <= m.first
    /\ \A n \in l : IsMarker(n) /\ n.pid = pid /\ from <= n.first => m.first <= n.first

Asking == q.pc \in {"fetch", "batch"}

\* How far a question has come: what lies before next holds no record, once a fetch has shown that
\* the range is decided.
AskInv ==
    Asking =>
        /\ q.key.from <= q.next /\ q.next < q.key.to
        /\ q.pc = "batch" \/ q.next > q.key.from => q.fetches > 0
        /\ q.fetches > 0 => Decided(log[q.key.p], q.key.to)
        /\ \A b \in Committed(log[q.key.p]) : b.last < q.key.from \/ b.last >= q.next

\* The answer being read: compaction may have dropped some of its batches from the log, but there
\* is none in the log, between next and the last of the answer, that the answer lacks.
RawInv ==
    q.pc = "batch" =>
        \A b \in q.raw :
            /\ b.first <= b.last /\ q.next <= b.last /\ b.last < end[q.key.p]
            /\ \A c \in q.raw \cup log[q.key.p] : Apart(b, c)
            /\ \A c \in log[q.key.p] : q.next <= c.last /\ c.first <= b.first => c \in q.raw

\* A producer is taken for aborting only up to the marker that aborts its transaction.
AbortInv ==
    Asking =>
        /\ \A pid \in q.aborting : \E m \in log[q.key.p] : Aborts(log[q.key.p], m, pid, q.next)
        /\ \A a \in q.aborted :
              /\ a.last >= q.next
              /\ \E m \in log[q.key.p] : Aborts(log[q.key.p], m, a.pid, a.first) /\ m.last = a.last

\* The question is about the tick's own reading, and its answer is right.
QuestionInv ==
    q.pc # "none" =>
        /\ tick.pc = "drain" /\ q.key \in GapKey /\ q.key.p \in DOMAIN tick.offsets
        /\ q.key.from = tick.offsets[q.key.p] + 1 /\ q.key.to = tick.ends[q.key.p]
        /\ q.key.from < q.key.to
        /\ q.pc = "drained" => Clear(log[q.key.p], q.key.from, q.key.to)

\* What the tick has learned stays true while the log grows and the job reads on.
TickInv ==
    /\ \A p \in Partitions : /\ tick.ends[p] <= end[p]
                             /\ emitted[p] < end[p] /\ Decided(log[p], emitted[p] + 1)
    /\ \A p \in DOMAIN tick.offsets : tick.offsets[p] < end[p] /\ Decided(log[p], tick.offsets[p] + 1)
    /\ \A p \in tick.drained : /\ p \in DOMAIN tick.offsets
                               /\ Clear(log[p], tick.offsets[p] + 1, tick.ends[p])
    /\ tick.pc \notin {"drain", "gate"} => tick.drained = {}
    /\ tick.pc = "read" /\ tick.lag = 0 => \A p \in Partitions : tick.ends[p] <= position[p]
    /\ tick.pc = "done" /\ tick.gate = "idle" =>
          \A p \in Partitions :
              /\ p \in DOMAIN tick.offsets
              /\ tick.offsets[p] >= 0 => Clear(log[p], tick.offsets[p] + 1, tick.ends[p])

\* A remembered range was decided and empty, and stays so.
EmptyInv == \A k \in empty : k.from < k.to /\ k.to <= end[k.p] /\ Clear(log[k.p], k.from, k.to)

\* The invariant behind the three properties of the gate: what gap.go concludes from its answers
\* holds of the log they were read from, and of the log as it is now.
GateInv == TypeOK /\ LogInv /\ AskInv /\ RawInv /\ AbortInv /\ QuestionInv /\ TickInv /\ EmptyInv

\* A quiet job that has read everything reads as idle in the end, whatever markers, aborted
\* transactions and compacted records lie behind its last record (ADR 13, amendment).
QuietJobSleeps ==
    (\A p \in Partitions : Open(log[p]) = {})
        ~> (tick.gate = "idle" \/ \E p \in Partitions : Open(log[p]) # {})
=============================================================================
