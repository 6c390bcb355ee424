-------------------------------- MODULE Gap --------------------------------
(***************************************************************************)
(* internal/probe/gap.go: does a partition hold a record that a             *)
(* read_committed consumer would be given at an offset in [from, to)?       *)
(*                                                                          *)
(* The partition's log belongs to producers and the broker: a set of        *)
(* batches, each a range of offsets.  A transaction's batches are of its    *)
(* producer, and a marker of the same producer ends it.  One question is    *)
(* asked at a time; it takes several fetches, and between two of its steps  *)
(* the log grows and is compacted.                                          *)
(***************************************************************************)
EXTENDS Integers, FiniteSets

CONSTANTS
    Partitions,     \* the partitions of the declared sources, in the order they are read
    Producers,      \* the producers that write transactions
    NoProducer,     \* the producer of a batch outside any transaction
    Sizes,          \* how many records a batch may hold
    GapFetches,     \* gapFetches: fetches one question may take
    MaxGaps,        \* ranges remembered before all of them are dropped (10000)
    MaxBatches,     \* bound: batches written to all partitions
    MaxCompactions, \* bound: batches compacted away
    MaxFaults       \* bound: calls that fail and metrics that are missing

ASSUME GapAssumption ==
    /\ Partitions \subseteq Nat /\ IsFiniteSet(Partitions)
    /\ NoProducer \notin Producers
    /\ Sizes \subseteq Nat \ {0}
    /\ {GapFetches, MaxGaps, MaxBatches, MaxCompactions, MaxFaults} \subseteq Nat

VARIABLES log,      \* partition -> set of batches
          end,      \* partition -> end offset
          q,        \* the question being asked
          empty,    \* gaps.empty: the ranges found to hold no record
          wrote, compacted, faults

Batch == [first: Nat, last: Nat, kind: {"plain", "txn", "commit", "abort"},
          pid: Producers \cup {NoProducer}]

GapKey == [p: Partitions, from: Nat, to: Nat]

NoKey == [p |-> 0, from |-> 0, to |-> 0]

broker == <<log, end, wrote, compacted>>
----------------------------------------------------------------------------
(* What the broker knows of the log l of a partition *)

IsMarker(b) == b.kind \in {"commit", "abort"}

\* The marker that ends the transaction of b, as a set of at most one.
EndOf(l, b) ==
    {m \in l : /\ IsMarker(m) /\ m.pid = b.pid /\ m.first > b.last
               /\ \A n \in l : IsMarker(n) /\ n.pid = b.pid /\ n.first > b.last => m.first <= n.first}

Open(l) == {b \in l : b.kind = "txn" /\ EndOf(l, b) = {}}

\* The records a read_committed consumer is given.
Committed(l) ==
    {b \in l : \/ b.kind = "plain"
               \/ b.kind = "txn" /\ \E m \in EndOf(l, b) : m.kind = "commit"}

\* The last stable offset: what comes before it is decided.
LastStable(p) ==
    IF Open(log[p]) = {} THEN end[p]
    ELSE CHOOSE o \in {b.first : b \in Open(log[p])} : \A b \in Open(log[p]) : o <= b.first

\* The aborted transactions: producer, first record, marker.
Aborted(l) ==
    {[pid |-> x[1].pid, first |-> x[1].first, last |-> x[2].last] :
        x \in {y \in l \X l :
                  /\ y[1].kind = "txn" /\ y[2].kind = "abort" /\ y[2] \in EndOf(l, y[1])
                  /\ \A b \in l : b.kind = "txn" /\ EndOf(l, b) = {y[2]} /\ b.pid = y[1].pid
                                     => y[1].first <= b.first}}

Write(p, kind, pid, size) ==
    /\ wrote < MaxBatches
    /\ wrote' = wrote + 1
    /\ log' = [log EXCEPT ![p] = @ \cup {[first |-> end[p], last |-> end[p] + size - 1,
                                          kind |-> kind, pid |-> pid]}]
    /\ end' = [end EXCEPT ![p] = @ + size]
    /\ UNCHANGED compacted

Produce ==
    \E p \in Partitions, size \in Sizes :
        \/ Write(p, "plain", NoProducer, size)
        \/ \E pid \in Producers : Write(p, "txn", pid, size)

EndTransaction ==
    \E p \in Partitions : \E b \in Open(log[p]), kind \in {"commit", "abort"} : Write(p, kind, b.pid, 1)

\* Compaction drops a decided record, never the last batch of the log.
Compact ==
    /\ compacted < MaxCompactions
    /\ compacted' = compacted + 1
    /\ \E p \in Partitions : \E b \in log[p] :
          /\ ~IsMarker(b) /\ b \notin Open(log[p]) /\ b.last < end[p] - 1
          /\ log' = [log EXCEPT ![p] = @ \ {b}]
    /\ UNCHANGED <<end, wrote>>
----------------------------------------------------------------------------
(* Kafka.Records *)

\* pc: fetch and batch while asking, then the answer: records, drained, or unknown for an error.
Question == [pc: {"none", "fetch", "batch", "records", "drained", "unknown"},
             key: GapKey \cup {NoKey}, next: Nat, raw: SUBSET Batch, aborting: SUBSET Producers,
             aborted: SUBSET [pid: Producers, first: Nat, last: Nat], fetches: Nat]

NoQuestion == [pc |-> "none", key |-> NoKey, next |-> 0, raw |-> {}, aborting |-> {},
               aborted |-> {}, fetches |-> 0]

Answer(pc) == [NoQuestion EXCEPT !.pc = pc, !.key = q.key]

\* Up to the first fetch: an empty or a remembered range needs none.
Ask(p, from, to) ==
    LET key == [p |-> p, from |-> from, to |-> to]
    IN  IF from >= to \/ key \in empty
        THEN [NoQuestion EXCEPT !.pc = "drained", !.key = key]
        ELSE [NoQuestion EXCEPT !.pc = "fetch", !.key = key, !.next = from]

\* gaps.remember, which starts over at its limit.
Remember(key) == IF Cardinality(empty) >= MaxGaps THEN {key} ELSE empty \cup {key}

\* One fetch: the broker returns the batches from next on, up to the last stable offset or to the
\* byte limit, and at least one if there is one; with them the aborted transactions among them. The
\* broker reports a last stable offset, as all that know transactions do; without one gap.go asks no further.
Fetch ==
    LET p     == q.key.p
        given == {b \in log[p] : b.last >= q.next /\ b.last < LastStable(p)}
    IN  /\ q.pc = "fetch"
        /\ \/ /\ q.fetches = GapFetches
              /\ q' = Answer("unknown")
           \/ /\ q.fetches < GapFetches
              /\ LastStable(p) < q.key.to
              /\ q' = Answer("records")
           \/ /\ q.fetches < GapFetches
              /\ LastStable(p) >= q.key.to
              /\ given = {}
              /\ q' = Answer("unknown")
           \/ /\ q.fetches < GapFetches
              /\ LastStable(p) >= q.key.to
              /\ \E cut \in given :
                    q' = [q EXCEPT !.pc = "batch", !.fetches = @ + 1,
                                   !.raw = {b \in given : b.first <= cut.first},
                                   !.aborted = @ \cup {a \in Aborted(log[p]) : a.last >= q.next
                                                                          /\ a.first <= cut.last}]
        /\ UNCHANGED <<broker, empty, faults>>

\* Metadata, leader or fetch fail, or a batch does not decode.
FetchFails ==
    /\ q.pc \in {"fetch", "batch"}
    /\ faults < MaxFaults
    /\ faults' = faults + 1
    /\ q' = Answer("unknown")
    /\ UNCHANGED <<broker, empty>>

\* Mutant of Begun: the transactions that abort, wherever they begin.
BegunAnywhere(b) == q.aborted

\* The aborted transactions that have begun when batch b is reached.
Begun(b) == {a \in q.aborted : a.first <= b.first}

\* Mutant of Aborting: a marker ends nothing.
AbortingForever(b) == q.aborting \cup {a.pid : a \in Begun(b)}

\* The producers in the middle of an aborted transaction after batch b; a marker ends it.
Aborting(b) ==
    (q.aborting \cup {a.pid : a \in Begun(b)}) \ (IF IsMarker(b) THEN {b.pid} ELSE {})

\* Mutant of Skipped: a marker is taken for a record.
SkippedTxnOnly(b) == b.kind = "txn" /\ b.pid \in Aborting(b)

\* What no consumer is given: markers, and records of a transaction that aborts.
Skipped(b) == IsMarker(b) \/ (b.kind = "txn" /\ b.pid \in Aborting(b))

\* One batch of the answer, the next in offset order.
NextBatch ==
    /\ q.pc = "batch"
    /\ \E b \in q.raw :
          /\ \A c \in q.raw : b.first <= c.first
          /\ \/ /\ b.first >= q.key.to
                /\ q' = Answer("drained")
                /\ empty' = Remember(q.key)
             \/ /\ b.first < q.key.to
                /\ ~Skipped(b)
                /\ q' = Answer("records")
                /\ UNCHANGED empty
             \/ /\ b.first < q.key.to
                /\ Skipped(b)
                /\ b.last + 1 >= q.key.to
                /\ q' = Answer("drained")
                /\ empty' = Remember(q.key)
             \/ /\ b.first < q.key.to
                /\ Skipped(b)
                /\ b.last + 1 < q.key.to
                /\ q' = [q EXCEPT !.raw = @ \ {b}, !.next = b.last + 1,
                                  !.aborting = Aborting(b), !.aborted = @ \ Begun(b)]
                /\ UNCHANGED empty
    /\ UNCHANGED <<broker, faults>>

\* The answer is read to its end: fetch again. The broker's answer holds no batch below next, so
\* every answer with a batch has made progress.
Refetch ==
    /\ q.pc = "batch"
    /\ q.raw = {}
    /\ q' = [q EXCEPT !.pc = "fetch"]
    /\ UNCHANGED <<broker, empty, faults>>

Records == Fetch \/ FetchFails \/ NextBatch \/ Refetch
=============================================================================
