--------------------------- MODULE JobViewProofs ---------------------------
(***************************************************************************)
(* The three safety properties of JobView, for any number of partitions,    *)
(* producers, batches, compactions, faults and restarts of the job.         *)
(*                                                                          *)
(* A log only grows at its end and keeps its markers (Grown): what is       *)
(* decided or clear in it stays so.  The rest is one lemma per action.      *)
(***************************************************************************)
EXTENDS JobView, FiniteSetTheorems, WellFoundedInduction, TLAPS

\* A set of naturals has a least one.
LEMMA Least ==
    ASSUME NEW S \in SUBSET Nat, S # {}
    PROVE  \E m \in S : \A n \in S : m <= n
<1> DEFINE R == {ss \in Nat \X Nat : ss[1] < ss[2]}
<1>1. IsWellFoundedOn(R, Nat)
  BY NatLessThanWellFounded DEF OpToRel
<1> HIDE DEF R
<1>2. PICK x \in S : \A y \in S : ~(<<y, x>> \in R)
  BY <1>1, WFMin
<1>3. \A y \in S : ~(y < x)
  BY <1>2 DEF R
<1>4. QED
  BY <1>3
----------------------------------------------------------------------------
(* Logs that grow *)

\* Log g comes after log l, whose end is e: what is new lies behind the end, markers stay.
Grown(l, e, g) ==
    /\ \A b \in g : b \in l \/ b.first >= e
    /\ \A m \in l : IsMarker(m) => m \in g

\* The end of a transaction, once it has one, never changes.
LEMMA EndKept ==
    ASSUME NEW l \in SUBSET Batch, NEW e \in Nat, NEW g \in SUBSET Batch, NEW h \in Nat,
           Sound(l, e), Sound(g, h), Grown(l, e, g),
           NEW b \in l, EndOf(l, b) # {}
    PROVE  EndOf(g, b) = EndOf(l, b)
<1>1. PICK m \in EndOf(l, b) : TRUE
  OBVIOUS
<1>2. /\ m \in l /\ m \in Batch /\ IsMarker(m) /\ m.pid = b.pid /\ m.first > b.last
      /\ \A n \in l : IsMarker(n) /\ n.pid = b.pid /\ n.first > b.last => m.first <= n.first
  BY <1>1 DEF EndOf
<1>3. m.first \in Nat /\ m.last \in Nat /\ m.first <= m.last /\ m.last < e /\ b.last \in Nat
  BY <1>2 DEF Sound, Batch
<1>4. m \in g
  BY <1>2 DEF Grown
<1>5. \A n \in g : IsMarker(n) /\ n.pid = b.pid /\ n.first > b.last => m.first <= n.first
  BY <1>2, <1>3 DEF Grown, Batch
<1>6. ASSUME NEW n \in l, n.first = m.first PROVE n = m
  BY <1>2, <1>3, <1>6 DEF Sound, Apart, Batch
<1>7. ASSUME NEW n \in g, n.first = m.first PROVE n = m
  BY <1>3, <1>4, <1>7 DEF Sound, Apart, Batch
<1>8. EndOf(l, b) = {m}
  BY <1>2, <1>6 DEF EndOf, Batch
<1>9. EndOf(g, b) = {m}
  BY <1>2, <1>4, <1>5, <1>7 DEF EndOf, Batch
<1>10. QED
  BY <1>8, <1>9

\* What is open later was open before or is new; so is what is committed, if the rest is decided.
LEMMA FateKept ==
    ASSUME NEW l \in SUBSET Batch, NEW e \in Nat, NEW g \in SUBSET Batch, NEW h \in Nat,
           Sound(l, e), Sound(g, h), Grown(l, e, g), NEW b \in g
    PROVE  /\ b \in Open(g) => b \in Open(l) \/ b.first >= e
           /\ b \in Committed(g) => b \in Committed(l) \/ b \in Open(l) \/ b.first >= e
<1>1. CASE b \notin l
  BY <1>1 DEF Grown
<1>2. CASE b \in l
  <2>1. EndOf(l, b) # {} => EndOf(g, b) = EndOf(l, b)
    BY <1>2, EndKept
  <2>2. QED
    BY <1>2, <2>1 DEF Open, Committed
<1>3. QED
  BY <1>1, <1>2

\* A range that is decided stays decided, and one that is clear stays clear.
LEMMA ClearKept ==
    ASSUME NEW l \in SUBSET Batch, NEW e \in Nat, NEW g \in SUBSET Batch, NEW h \in Nat,
           Sound(l, e), Sound(g, h), Grown(l, e, g), NEW to \in Int, to <= e
    PROVE  /\ Decided(l, to) => Decided(g, to)
           /\ \A from \in Int : Clear(l, from, to) => Clear(g, from, to)
<1>1. \A b \in g : b \in Batch /\ b.first \in Nat
  BY DEF Batch
<1>2. \A b \in g : b \in Open(g) => b \in Open(l) \/ b.first >= e
  BY FateKept
<1>3. \A b \in g : b \in Committed(g) => b \in Committed(l) \/ b \in Open(l) \/ b.first >= e
  BY FateKept
<1>4. Open(g) \subseteq g /\ Committed(g) \subseteq g
  BY DEF Open, Committed
<1>5. Decided(l, to) => Decided(g, to)
  BY <1>1, <1>2, <1>4 DEF Decided
<1>6. ASSUME NEW from \in Int, Clear(l, from, to) PROVE Clear(g, from, to)
  BY <1>1, <1>3, <1>4, <1>5, <1>6 DEF Clear, Decided
<1>7. QED
  BY <1>5, <1>6

\* The marker that aborts a transaction stays the first.
LEMMA AbortsKept ==
    ASSUME NEW l \in SUBSET Batch, NEW e \in Nat, NEW g \in SUBSET Batch,
           Sound(l, e), Grown(l, e, g),
           NEW m \in l, NEW pid, NEW from \in Nat, Aborts(l, m, pid, from)
    PROVE  m \in g /\ Aborts(g, m, pid, from)
<1>1. m.first \in Nat /\ m.first < e
  BY DEF Sound, Batch
<1>2. QED
  BY <1>1 DEF Aborts, Grown, IsMarker, Batch

\* A log grows when a batch is written at its end.
LEMMA WriteGrows ==
    ASSUME NEW l \in SUBSET Batch, NEW e \in Nat, Sound(l, e), NEW b \in Batch,
           b.first = e, b.first <= b.last, IsMarker(b) => b.first = b.last,
           b.kind # "plain" => b.pid \in Producers
    PROVE  Sound(l \cup {b}, b.last + 1) /\ Grown(l, e, l \cup {b})
BY DEF Sound, Grown, Apart, Batch

\* And when a batch that is no marker is dropped.
LEMMA CompactionGrows ==
    ASSUME NEW l \in SUBSET Batch, NEW e \in Nat, Sound(l, e), NEW b \in l, ~IsMarker(b)
    PROVE  Sound(l \ {b}, e) /\ Grown(l, e, l \ {b})
BY DEF Sound, Grown
----------------------------------------------------------------------------
(* The invariant when the log changes, or only the log *)

\* What the type of the state says of the values the other invariants compare.
LEMMA Typed ==
    ASSUME TypeOK
    PROVE  /\ \A p \in Partitions : /\ log[p] \in SUBSET Batch /\ end[p] \in Nat
                                    /\ emitted[p] \in Int /\ position[p] \in Nat /\ tick.ends[p] \in Int
           /\ DOMAIN tick.offsets \subseteq Partitions /\ tick.drained \subseteq Partitions
           /\ \A p \in DOMAIN tick.offsets : tick.offsets[p] \in Int
           /\ \A k \in empty : k.p \in Partitions /\ k.from \in Nat /\ k.to \in Nat
<1>1. PICK P \in SUBSET Partitions : tick \in TickType(P)
  BY DEF TypeOK
<1>2. /\ tick.ends \in [Partitions -> Int] /\ tick.offsets \in [P -> Int]
      /\ tick.drained \in SUBSET Partitions
  BY <1>1 DEF TickType
<1>3. QED
  BY <1>2 DEF TypeOK, GapKey

\* While a question is asked, its key is one and its parts have their types.
LEMMA KeyTyped ==
    ASSUME TypeOK, QuestionInv, TickInv, q.pc # "none"
    PROVE  /\ q.key.p \in Partitions /\ q.key.from \in Nat /\ q.key.to \in Nat /\ q.next \in Nat
           /\ q.raw \in SUBSET Batch /\ q.fetches \in Nat /\ q.aborting \in SUBSET Producers
           /\ q.aborted \in SUBSET [pid: Producers, first: Nat, last: Nat]
           /\ q.key.from < q.key.to /\ q.key.to <= end[q.key.p]
<1>1. q \in Question /\ q.key \in GapKey
  BY DEF TypeOK, QuestionInv
<1>2. q.key.p \in Partitions /\ q.key.from \in Nat /\ q.key.to \in Nat
  BY <1>1 DEF GapKey
<1>3. q.key.from < q.key.to /\ q.key.to <= end[q.key.p]
  BY <1>2 DEF QuestionInv, TickInv
<1>4. QED
  BY <1>1, <1>2, <1>3 DEF Question

\* The broker's steps keep the invariant: every log grows, and nothing else changes.
LEMMA GrowthKeeps ==
    ASSUME GateInv, TypeOK', LogInv', UNCHANGED <<q, empty, position, emitted, tick>>,
           \A p \in Partitions : end[p] <= end'[p] /\ Grown(log[p], end[p], log'[p])
    PROVE  GateInv'
<1>1. /\ \A p \in Partitions : /\ log[p] \in SUBSET Batch /\ end[p] \in Nat /\ emitted[p] \in Int
                               /\ tick.ends[p] \in Int
                               /\ log'[p] \in SUBSET Batch /\ end'[p] \in Nat
      /\ DOMAIN tick.offsets \subseteq Partitions /\ tick.drained \subseteq Partitions
      /\ \A p \in DOMAIN tick.offsets : tick.offsets[p] \in Int
      /\ \A k \in empty : k.p \in Partitions /\ k.from \in Nat /\ k.to \in Nat
  BY Typed DEF GateInv, TypeOK
<1>2. \A p \in Partitions : Sound(log[p], end[p]) /\ Sound(log'[p], end'[p])
  BY DEF GateInv, LogInv
<1>3. \A p \in Partitions : \A to \in Int : to <= end[p] /\ Decided(log[p], to) => Decided(log'[p], to)
  BY <1>1, <1>2, ClearKept
<1>4. \A p \in Partitions : \A from, to \in Int :
          to <= end[p] /\ Clear(log[p], from, to) => Clear(log'[p], from, to)
  BY <1>1, <1>2, ClearKept
<1>5. EmptyInv'
  <2>1. \A k \in empty : k.from < k.to /\ k.to <= end[k.p] /\ Clear(log[k.p], k.from, k.to)
    BY DEF GateInv, EmptyInv
  <2>2. QED
    BY <1>1, <1>4, <2>1 DEF EmptyInv
<1>6. TickInv'
  <2>1. \A p \in Partitions : /\ tick.ends[p] <= end[p] /\ emitted[p] < end[p]
                              /\ Decided(log[p], emitted[p] + 1)
    BY DEF GateInv, TickInv
  <2>2. \A p \in Partitions : /\ tick.ends[p] <= end'[p] /\ emitted[p] < end'[p]
                              /\ Decided(log'[p], emitted[p] + 1)
    BY <1>1, <1>3, <2>1
  <2>3. \A p \in DOMAIN tick.offsets : tick.offsets[p] < end[p] /\ Decided(log[p], tick.offsets[p] + 1)
    BY DEF GateInv, TickInv
  <2>4. \A p \in DOMAIN tick.offsets : tick.offsets[p] < end'[p] /\ Decided(log'[p], tick.offsets[p] + 1)
    BY <1>1, <1>3, <2>3
  <2>5. \A p \in DOMAIN tick.offsets :
           Clear(log[p], tick.offsets[p] + 1, tick.ends[p]) => Clear(log'[p], tick.offsets[p] + 1, tick.ends[p])
    BY <1>1, <1>4, <2>1
  <2>6. QED
    BY <1>1, <2>2, <2>4, <2>5 DEF GateInv, TickInv
<1>7. QuestionInv'
  BY <1>4, KeyTyped DEF GateInv, QuestionInv
<1>8. ASSUME q.pc \in {"fetch", "batch"} PROVE AskInv' /\ RawInv' /\ AbortInv'
  <2> DEFINE p == q.key.p
             l == log[p]
             g == log'[p]
             e == end[p]
             h == end'[p]
  <2>1. /\ p \in Partitions /\ q.key.from \in Nat /\ q.key.to \in Nat /\ q.next \in Nat
        /\ q.raw \in SUBSET Batch /\ q.fetches \in Nat
        /\ q.aborted \in SUBSET [pid: Producers, first: Nat, last: Nat]
        /\ q.key.from < q.key.to /\ q.key.to <= e
    BY <1>8, KeyTyped DEF GateInv
  <2>2. /\ l \in SUBSET Batch /\ g \in SUBSET Batch /\ e \in Nat /\ h \in Nat /\ e <= h
        /\ Sound(l, e) /\ Sound(g, h) /\ Grown(l, e, g)
    BY <1>1, <1>2, <2>1
  <2> HIDE DEF p, l, g, e, h
  <2>3. AskInv'
    <3>1. /\ q.key.from <= q.next /\ q.next < q.key.to
          /\ q.pc = "batch" \/ q.next > q.key.from => q.fetches > 0
          /\ q.fetches > 0 => Decided(l, q.key.to)
          /\ \A b \in Committed(l) : b.last < q.key.from \/ b.last >= q.next
      BY <1>8 DEF GateInv, AskInv, Asking, l, p
    <3>2. q.fetches > 0 => Decided(g, q.key.to)
      BY <1>3, <2>1, <3>1 DEF l, g, e
    <3>3. ASSUME NEW b \in Committed(g) PROVE b.last < q.key.from \/ b.last >= q.next
      <4>1. b \in g /\ b \in Batch /\ b.first \in Nat /\ b.last \in Nat /\ b.first <= b.last
        BY <2>2 DEF Committed, Sound, Batch
      <4>2. b \in Committed(l) \/ b \in Open(l) \/ b.first >= e
        BY <2>2, <4>1, FateKept
      <4>3. CASE q.fetches > 0
        BY <2>1, <2>2, <3>1, <4>1, <4>2, <4>3 DEF Decided
      <4>4. CASE ~(q.fetches > 0)
        BY <2>1, <3>1, <4>1, <4>4
      <4>5. QED
        BY <4>3, <4>4
    <3>4. QED
      BY <3>1, <3>2, <3>3 DEF AskInv, g, p
  <2>4. RawInv'
    <3> SUFFICES ASSUME q.pc = "batch", NEW b \in q.raw
                 PROVE  /\ b.first <= b.last /\ q.next <= b.last /\ b.last < h
                        /\ \A c \in q.raw \cup g : Apart(b, c)
                        /\ \A c \in g : q.next <= c.last /\ c.first <= b.first => c \in q.raw
      BY DEF RawInv, h, g, p
    <3>1. /\ b.first <= b.last /\ q.next <= b.last /\ b.last < e
          /\ \A c \in q.raw \cup l : Apart(b, c)
          /\ \A c \in l : q.next <= c.last /\ c.first <= b.first => c \in q.raw
      BY DEF GateInv, RawInv, e, l, p
    <3>2. \A c \in g : c \in l \/ c.first >= e
      BY <2>2 DEF Grown
    <3>3. b \in Batch /\ b.first \in Nat /\ b.last \in Nat /\ \A c \in g : c.first \in Nat
      BY <2>1, <2>2 DEF Batch
    <3>4. QED
      BY <2>2, <3>1, <3>2, <3>3 DEF Apart
  <2>5. AbortInv'
    <3>1. \A pid \in q.aborting : \E m \in l : Aborts(l, m, pid, q.next)
      BY <1>8 DEF GateInv, AbortInv, Asking, l, p
    <3>2. \A a \in q.aborted : a.last >= q.next /\ \E m \in l : Aborts(l, m, a.pid, a.first) /\ m.last = a.last
      BY <1>8 DEF GateInv, AbortInv, Asking, l, p
    <3>3. \A pid \in q.aborting : \E m \in g : Aborts(g, m, pid, q.next)
      BY <2>1, <2>2, <3>1, AbortsKept
    <3>4. \A a \in q.aborted : a.first \in Nat
      BY <2>1
    <3>5. ASSUME NEW a \in q.aborted
          PROVE  \E m \in g : Aborts(g, m, a.pid, a.first) /\ m.last = a.last
      <4>1. PICK m \in l : Aborts(l, m, a.pid, a.first) /\ m.last = a.last
        BY <3>2
      <4>2. m \in g /\ Aborts(g, m, a.pid, a.first)
        BY <2>2, <3>4, <4>1, AbortsKept
      <4>3. QED
        BY <4>1, <4>2
    <3>6. QED
      BY <3>2, <3>3, <3>5 DEF AbortInv, g, p
  <2>6. QED
    BY <2>3, <2>4, <2>5
<1>9. AskInv' /\ RawInv' /\ AbortInv'
  BY <1>8 DEF AskInv, RawInv, AbortInv, Asking
<1>10. QED
  BY <1>5, <1>6, <1>7, <1>9 DEF GateInv
----------------------------------------------------------------------------
(* The broker *)

\* One write to a partition keeps the invariant.
LEMMA WriteKeeps ==
    ASSUME GateInv, NEW p \in Partitions, NEW kind \in {"plain", "txn", "commit", "abort"},
           NEW pid \in Producers \cup {NoProducer}, NEW size \in Nat \ {0},
           kind \in {"commit", "abort"} => size = 1, kind # "plain" => pid \in Producers,
           Write(p, kind, pid, size), UNCHANGED <<faults, q, empty, reader, tick>>
    PROVE  GateInv'
<1> DEFINE b == [first |-> end[p], last |-> end[p] + size - 1, kind |-> kind, pid |-> pid]
<1>1. TypeOK /\ LogInv
  BY DEF GateInv
<1>2. log[p] \in SUBSET Batch /\ end[p] \in Nat /\ Sound(log[p], end[p])
  BY <1>1, Typed DEF LogInv
<1>3. b \in Batch /\ b.first = end[p] /\ b.last = end[p] + size - 1 /\ b.kind = kind /\ b.pid = pid
  BY <1>2 DEF Batch
<1>4. log' = [log EXCEPT ![p] = @ \cup {b}] /\ end' = [end EXCEPT ![p] = @ + size]
  BY DEF Write
<1> HIDE DEF b
<1>5. /\ b.first <= b.last /\ b.last + 1 \in Nat /\ end[p] <= b.last + 1 /\ end[p] + size = b.last + 1
      /\ IsMarker(b) => b.first = b.last
  BY <1>2, <1>3 DEF IsMarker
<1>6. Sound(log[p] \cup {b}, b.last + 1) /\ Grown(log[p], end[p], log[p] \cup {b})
  <2>1. b.kind # "plain" => b.pid \in Producers
    BY <1>3
  <2>2. QED
    BY <1>2, <1>3, <1>5, <2>1, WriteGrows
<1>7. log' \in [Partitions -> SUBSET Batch] /\ end' \in [Partitions -> Nat] /\ wrote' \in Nat
  BY <1>1, <1>3, <1>4, <1>5 DEF TypeOK, Write
<1>8. TypeOK'
  BY <1>1, <1>7 DEF TypeOK, reader, Write
<1>9. ASSUME NEW r \in Partitions
      PROVE  Sound(log'[r], end'[r]) /\ Grown(log[r], end[r], log'[r]) /\ end[r] <= end'[r]
  <2>1. CASE r = p
    BY <1>1, <1>4, <1>5, <1>6, <2>1 DEF TypeOK
  <2>2. CASE r # p
    <3>1. log'[r] = log[r] /\ end'[r] = end[r] /\ end[r] \in Nat
      BY <1>1, <1>4, <2>2 DEF TypeOK
    <3>2. QED
      BY <1>1, <3>1 DEF LogInv, Grown
  <2>3. QED
    BY <2>1, <2>2
<1>10. LogInv'
  BY <1>9 DEF LogInv
<1>11. QED
  BY <1>8, <1>9, <1>10, GrowthKeeps DEF reader

\* Producers write, transactions end and the cleaner compacts: the invariant is kept.
LEMMA BrokerStep ==
    ASSUME GateInv, Broker
    PROVE  GateInv'
<1>1. TypeOK /\ LogInv /\ UNCHANGED <<faults, q, empty, reader, tick>>
  BY DEF GateInv, Broker
<1>2. CASE Produce
  <2>1. PICK p \in Partitions, size \in Sizes :
            \/ Write(p, "plain", NoProducer, size)
            \/ \E pid \in Producers : Write(p, "txn", pid, size)
    BY <1>2 DEF Produce
  <2>2. size \in Nat \ {0}
    BY GapAssumption
  <2>3. QED
    BY <1>1, <2>1, <2>2, WriteKeeps
<1>3. CASE EndTransaction
  <2>1. PICK p \in Partitions : \E b \in Open(log[p]), kind \in {"commit", "abort"} : Write(p, kind, b.pid, 1)
    BY <1>3 DEF EndTransaction
  <2>2. PICK b \in Open(log[p]), kind \in {"commit", "abort"} : Write(p, kind, b.pid, 1)
    BY <2>1
  <2>3. b.pid \in Producers
    BY <1>1 DEF Open, LogInv, Sound
  <2>4. QED
    BY <1>1, <2>2, <2>3, WriteKeeps
<1>4. CASE Compact
  <2>1. PICK p \in Partitions : \E b \in log[p] : ~IsMarker(b) /\ log' = [log EXCEPT ![p] = @ \ {b}]
    BY <1>4 DEF Compact
  <2>2. PICK b \in log[p] : ~IsMarker(b) /\ log' = [log EXCEPT ![p] = @ \ {b}]
    BY <2>1
  <2>3. end' = end /\ wrote' = wrote /\ compacted' \in Nat
    BY <1>1, <1>4 DEF Compact, TypeOK
  <2>4. TypeOK'
    BY <1>1, <2>2, <2>3 DEF TypeOK, reader
  <2>5. ASSUME NEW r \in Partitions
        PROVE  Sound(log'[r], end'[r]) /\ Grown(log[r], end[r], log'[r]) /\ end[r] <= end'[r]
    <3>1. log[r] \in SUBSET Batch /\ end[r] \in Nat /\ Sound(log[r], end[r]) /\ end'[r] = end[r]
      BY <1>1, <2>3, Typed DEF LogInv
    <3>2. CASE r = p
      <4>1. log'[r] = log[r] \ {b}
        BY <1>1, <2>2, <3>2 DEF TypeOK
      <4>2. QED
        BY <2>2, <3>1, <3>2, <4>1, CompactionGrows
    <3>3. CASE r # p
      <4>1. log'[r] = log[r]
        BY <1>1, <2>2, <3>3 DEF TypeOK
      <4>2. QED
        BY <3>1, <4>1 DEF Grown
    <3>4. QED
      BY <3>2, <3>3
  <2>6. QED
    BY <1>1, <2>4, <2>5, GrowthKeeps DEF LogInv, reader
<1>5. QED
  BY <1>2, <1>3, <1>4 DEF Broker
----------------------------------------------------------------------------
(* The question *)

\* The last stable offset is at most the end, and what lies below it is decided.
LEMMA StableIsDecided ==
    ASSUME TypeOK, LogInv, NEW p \in Partitions
    PROVE  LastStable(p) \in Nat /\ LastStable(p) <= end[p] /\ Decided(log[p], LastStable(p))
<1> DEFINE F == {b.first : b \in Open(log[p])}
<1>1. log[p] \in SUBSET Batch /\ end[p] \in Nat /\ Sound(log[p], end[p])
  BY Typed DEF LogInv
<1>2. \A b \in Open(log[p]) : b.first \in Nat /\ b.first < end[p]
  BY <1>1 DEF Open, Sound, Batch
<1>3. CASE Open(log[p]) = {}
  BY <1>1, <1>3 DEF LastStable, Decided
<1>4. CASE Open(log[p]) # {}
  <2>1. F \in SUBSET Nat /\ F # {}
    BY <1>2, <1>4
  <2>2. \E o \in F : \A n \in F : o <= n
    BY <2>1, Least
  <2>3. \E o \in F : \A b \in Open(log[p]) : o <= b.first
    BY <2>2
  <2>4. LastStable(p) \in F /\ \A b \in Open(log[p]) : LastStable(p) <= b.first
    BY <1>4, <2>3 DEF LastStable
  <2>5. QED
    BY <1>1, <1>2, <2>4 DEF Decided
<1>5. QED
  BY <1>3, <1>4

\* An aborted transaction of the broker's answer: its marker is the first from its first record on.
LEMMA AbortedSound ==
    ASSUME NEW l \in SUBSET Batch, NEW e \in Nat, Sound(l, e), NEW a \in Aborted(l)
    PROVE  /\ a \in [pid: Producers, first: Nat, last: Nat]
           /\ \E m \in l : Aborts(l, m, a.pid, a.first) /\ m.last = a.last
<1>1. PICK y \in l \X l :
        /\ y[1].kind = "txn" /\ y[2].kind = "abort" /\ y[2] \in EndOf(l, y[1])
        /\ a = [pid |-> y[1].pid, first |-> y[1].first, last |-> y[2].last]
  BY DEF Aborted
<1> DEFINE b == y[1]
           m == y[2]
<1>2. b \in l /\ m \in l /\ b \in Batch /\ m \in Batch
  BY <1>1
<1>3. /\ b.kind = "txn" /\ m.kind = "abort" /\ m \in EndOf(l, b)
      /\ a = [pid |-> b.pid, first |-> b.first, last |-> m.last]
  BY <1>1
<1> HIDE DEF b, m
<1>4. /\ m.pid = b.pid /\ m.first > b.last
      /\ \A n \in l : IsMarker(n) /\ n.pid = b.pid /\ n.first > b.last => m.first <= n.first
  BY <1>3 DEF EndOf
<1>5. b.first \in Nat /\ b.last \in Nat /\ m.first \in Nat /\ m.last \in Nat /\ b.first <= b.last
      /\ b.pid \in Producers
  BY <1>2, <1>3 DEF Batch, Sound
<1>6. ASSUME NEW n \in l, IsMarker(n), b.first <= n.first PROVE n.first > b.last
  BY <1>2, <1>3, <1>5, <1>6 DEF Sound, Apart, Batch, IsMarker
<1>7. Aborts(l, m, b.pid, b.first)
  BY <1>3, <1>4, <1>5, <1>6 DEF Aborts
<1>8. QED
  BY <1>2, <1>3, <1>5, <1>7

\* An answer keeps the invariant if it is right.
LEMMA AnswerKeeps ==
    ASSUME GateInv, q.pc # "none", NEW pc \in {"records", "drained", "unknown"}, q' = Answer(pc),
           UNCHANGED <<broker, reader, tick>>, faults' \in Nat,
           pc = "drained" => Clear(log[q.key.p], q.key.from, q.key.to),
           empty' = empty \/ (pc = "drained" /\ empty' = Remember(q.key))
    PROVE  GateInv'
<1>1. TypeOK /\ QuestionInv /\ TickInv /\ EmptyInv
  BY DEF GateInv
<1>2. q.key \in GapKey /\ q.key.from < q.key.to /\ q.key.to <= end[q.key.p]
  BY <1>1, KeyTyped DEF QuestionInv
<1>3. q' \in Question /\ q'.pc = pc /\ q'.key = q.key
  BY <1>2 DEF Answer, NoQuestion, Question
<1>4. UNCHANGED <<log, end, wrote, compacted, position, emitted, idle, restarts, tick>>
  BY DEF broker, reader
<1>5. empty' \subseteq empty \cup {q.key} /\ (empty' # empty => pc = "drained")
  BY DEF Remember
<1>6. EmptyInv'
  BY <1>1, <1>2, <1>4, <1>5 DEF EmptyInv
<1>7. TypeOK'
  BY <1>1, <1>2, <1>3, <1>4, <1>5 DEF TypeOK
<1>8. QuestionInv'
  BY <1>1, <1>2, <1>3, <1>4 DEF QuestionInv
<1>9. LogInv' /\ TickInv'
  BY <1>4 DEF GateInv, LogInv, TickInv
<1>10. AskInv' /\ RawInv' /\ AbortInv'
  BY <1>3 DEF AskInv, RawInv, AbortInv, Asking
<1>11. QED
  BY <1>6, <1>7, <1>8, <1>9, <1>10 DEF GateInv

\* What the invariant says of a question that is being asked, about the log it is asked of.
LEMMA AskedOf ==
    ASSUME GateInv, Asking
    PROVE  LET l == log[q.key.p]
           IN  /\ l \in SUBSET Batch /\ end[q.key.p] \in Nat /\ Sound(l, end[q.key.p])
               /\ q \in Question /\ q.pc # "none" /\ q.key.p \in Partitions
               /\ q.key.from \in Nat /\ q.key.to \in Nat /\ q.next \in Nat
               /\ q.key.from <= q.next /\ q.next < q.key.to /\ q.fetches \in Nat
               /\ \A b \in q.raw : b \in Batch /\ b.first \in Nat /\ b.last \in Nat
               /\ \A a \in q.aborted : a.first \in Nat /\ a.last \in Nat
               /\ \A b \in l : b \in Batch /\ b.first \in Nat /\ b.last \in Nat /\ b.first <= b.last
               /\ \A b \in Committed(l) : b \in l /\ (b.last < q.key.from \/ b.last >= q.next)
<1>1. TypeOK /\ QuestionInv /\ TickInv /\ LogInv /\ AskInv /\ q.pc # "none"
  BY DEF GateInv, Asking
<1>2. q.key.p \in Partitions /\ q.raw \in SUBSET Batch
      /\ q.aborted \in SUBSET [pid: Producers, first: Nat, last: Nat]
      /\ q.key.from \in Nat /\ q.key.to \in Nat /\ q.next \in Nat /\ q.fetches \in Nat
  BY <1>1, KeyTyped
<1>3. log[q.key.p] \in SUBSET Batch /\ end[q.key.p] \in Nat /\ Sound(log[q.key.p], end[q.key.p])
  BY <1>1, <1>2, Typed DEF LogInv
<1>4. /\ \A b \in log[q.key.p] : b \in Batch /\ b.first \in Nat /\ b.last \in Nat /\ b.first <= b.last
      /\ \A b \in q.raw : b \in Batch /\ b.first \in Nat /\ b.last \in Nat
  BY <1>2, <1>3 DEF Batch, Sound
<1>5. q \in Question
  BY <1>1 DEF TypeOK
<1>6. QED
  BY <1>1, <1>2, <1>3, <1>4, <1>5 DEF AskInv, Committed

\* A fetch that returns batches: they are all there is from next on up to the last of them.
LEMMA FetchStep ==
    ASSUME GateInv, Fetch, UNCHANGED <<reader, tick>>
    PROVE  GateInv'
<1> DEFINE p == q.key.p
           l == log[p]
           given == {b \in l : b.last >= q.next /\ b.last < LastStable(p)}
<1>1. Asking /\ q.pc = "fetch" /\ UNCHANGED <<broker, empty, faults>> /\ TypeOK
  BY DEF Fetch, Asking, GateInv
<1>2. faults \in Nat /\ q.pc # "none"
  BY <1>1 DEF TypeOK
<1>3. CASE q' = Answer("unknown") \/ q' = Answer("records")
  <2>1. PICK pc \in {"unknown", "records"} : q' = Answer(pc)
    BY <1>3
  <2>2. pc \in {"records", "drained", "unknown"} /\ pc # "drained" /\ faults' \in Nat
    BY <1>1, <1>2
  <2>3. QED
    BY <1>1, <1>2, <2>1, <2>2, AnswerKeeps
<1>4. ASSUME LastStable(p) >= q.key.to, NEW cut \in given,
             q' = [q EXCEPT !.pc = "batch", !.fetches = @ + 1,
                            !.raw = {b \in given : b.first <= cut.first},
                            !.aborted = @ \cup {a \in Aborted(l) : a.last >= q.next
                                                                   /\ a.first <= cut.last}]
      PROVE  GateInv'
  <2>1. /\ l \in SUBSET Batch /\ end[p] \in Nat /\ Sound(l, end[p]) /\ q \in Question /\ p \in Partitions
        /\ q.key.from \in Nat /\ q.key.to \in Nat /\ q.next \in Nat
        /\ q.key.from <= q.next /\ q.next < q.key.to /\ q.fetches \in Nat
        /\ \A b \in l : b \in Batch /\ b.first \in Nat /\ b.last \in Nat /\ b.first <= b.last
        /\ \A b \in Committed(l) : b.last < q.key.from \/ b.last >= q.next
    BY <1>1, AskedOf
  <2>2. LastStable(p) \in Nat /\ Decided(l, LastStable(p))
    BY <1>1, <2>1, StableIsDecided DEF GateInv
  <2>3. /\ \A pid \in q.aborting : \E m \in l : Aborts(l, m, pid, q.next)
        /\ \A a \in q.aborted : a.last >= q.next /\ \E m \in l : Aborts(l, m, a.pid, a.first) /\ m.last = a.last
    BY <1>1 DEF GateInv, AbortInv
  <2>4. UNCHANGED <<log, end, wrote, compacted, empty, faults, position, emitted, idle, restarts, tick>>
    BY <1>1 DEF broker, reader
  <2> DEFINE raw == {b \in given : b.first <= cut.first}
             more == {a \in Aborted(l) : a.last >= q.next /\ a.first <= cut.last}
  <2>5. \A a \in more : /\ a \in [pid: Producers, first: Nat, last: Nat] /\ a.last >= q.next
                        /\ \E m \in l : Aborts(l, m, a.pid, a.first) /\ m.last = a.last
    BY <2>1, AbortedSound
  <2>6. raw \in SUBSET Batch /\ raw \subseteq l
    BY <2>1
  <2>7. cut \in l /\ cut.last < LastStable(p) /\ cut.first \in Nat /\ cut.last \in Nat /\ cut.first <= cut.last
    BY <2>1
  <2>8. ASSUME NEW c \in l, q.next <= c.last, c.first <= cut.first PROVE c \in raw
    <3>1. Apart(c, cut)
      BY <2>1, <2>7 DEF Sound
    <3>2. c.last <= cut.last
      BY <2>1, <2>7, <2>8, <3>1 DEF Apart
    <3>3. QED
      BY <2>1, <2>2, <2>7, <2>8, <3>2
  <2>9. \A b \in raw : b \in l /\ q.next <= b.last /\ b.first <= cut.first
    OBVIOUS
  <2> HIDE DEF p, l, given, raw, more
  <2>10. q' = [q EXCEPT !.pc = "batch", !.fetches = @ + 1, !.raw = raw, !.aborted = @ \cup more]
    BY <1>4 DEF raw, more
  <2>11. /\ q' \in Question /\ q'.pc = "batch" /\ q'.key = q.key /\ q'.next = q.next /\ q'.raw = raw
         /\ q'.fetches > 0 /\ q'.aborting = q.aborting /\ q'.aborted = q.aborted \cup more
    <3>1. PICK f \in Nat : f = q.fetches + 1
      BY <2>1
    <3>2. q.aborted \in SUBSET [pid: Producers, first: Nat, last: Nat]
      BY <2>1 DEF Question
    <3>3. PICK x \in SUBSET [pid: Producers, first: Nat, last: Nat] : x = q.aborted \cup more
      BY <2>5, <3>2
    <3>4. q' = [q EXCEPT !.pc = "batch", !.fetches = f, !.raw = raw, !.aborted = x]
      BY <2>10, <3>1, <3>3
    <3>5. q' \in Question
      BY <2>1, <2>6, <3>4 DEF Question
    <3>6. /\ q'.pc = "batch" /\ q'.key = q.key /\ q'.next = q.next /\ q'.raw = raw
          /\ q'.fetches = f /\ q'.aborting = q.aborting /\ q'.aborted = x
      BY <2>1, <3>4 DEF Question
    <3>7. QED
      BY <2>1, <3>1, <3>3, <3>5, <3>6
  <2>12. TypeOK'
    BY <1>1, <2>4, <2>11 DEF TypeOK
  <2>13. QuestionInv'
    BY <1>1, <2>4, <2>11 DEF GateInv, QuestionInv, Asking
  <2>14. AskInv'
    <3>1. Decided(l, q.key.to)
      BY <1>4, <2>1, <2>2 DEF Decided, Open
    <3>2. QED
      BY <2>1, <2>4, <2>11, <3>1 DEF AskInv, l, p
  <2>15. RawInv'
    <3>1. ASSUME NEW b \in raw
          PROVE  /\ b.first <= b.last /\ q.next <= b.last /\ b.last < end[p]
                 /\ \A c \in raw \cup l : Apart(b, c)
                 /\ \A c \in l : q.next <= c.last /\ c.first <= b.first => c \in raw
      BY <2>1, <2>6, <2>7, <2>8, <2>9 DEF Sound
    <3>2. QED
      BY <2>4, <2>11, <3>1 DEF RawInv, l, p
  <2>16. AbortInv'
    BY <2>3, <2>4, <2>5, <2>11 DEF AbortInv, l, p
  <2>17. LogInv' /\ TickInv' /\ EmptyInv'
    BY <2>4 DEF GateInv, LogInv, TickInv, EmptyInv
  <2>18. QED
    BY <2>12, <2>13, <2>14, <2>15, <2>16, <2>17 DEF GateInv
<1>5. QED
  BY <1>3, <1>4 DEF Fetch

\* The log holds nothing else between next and the end of the first batch of the answer.
LEMMA OnlyNext ==
    ASSUME GateInv, q.pc = "batch", NEW b \in q.raw, \A c \in q.raw : b.first <= c.first,
           NEW c \in log[q.key.p], q.next <= c.last, c.first <= b.last
    PROVE  c = b
<1>1. /\ b.first \in Nat /\ b.last \in Nat /\ c.first \in Nat /\ c.last \in Nat /\ c.first <= c.last
      /\ q.next \in Nat
  BY AskedOf DEF Asking
<1>2. Apart(b, c) /\ (c.first <= b.first => c \in q.raw)
  BY DEF GateInv, RawInv
<1>3. QED
  BY <1>1, <1>2 DEF Apart

\* A producer still aborting after the first batch of the answer has its abort marker behind it.
LEMMA AbortingSound ==
    ASSUME GateInv, q.pc = "batch", NEW b \in q.raw, \A c \in q.raw : b.first <= c.first,
           NEW pid \in Aborting(b)
    PROVE  \E m \in log[q.key.p] : Aborts(log[q.key.p], m, pid, b.last + 1)
<1> DEFINE l == log[q.key.p]
<1>1. /\ b.first \in Nat /\ b.last \in Nat /\ q.next \in Nat /\ Sound(l, end[q.key.p])
      /\ \A c \in l : c.first \in Nat /\ c.last \in Nat /\ c.first <= c.last
      /\ \A a \in q.aborted : a.first \in Nat /\ a.last \in Nat
  BY AskedOf DEF Asking
<1>2. b.first <= b.last /\ q.next <= b.last
  BY DEF GateInv, RawInv
<1>3. IsMarker(b) => pid # b.pid
  BY DEF Aborting
<1>4. ASSUME NEW m \in l, m.kind = "abort", m.pid = pid, q.next <= m.first PROVE b.last + 1 <= m.first
  <2>1. CASE m.first <= b.last
    <3>1. q.next <= m.last
      BY <1>1, <1>4
    <3>2. m = b
      BY <2>1, <3>1, OnlyNext
    <3>3. QED
      BY <1>3, <1>4, <3>2 DEF IsMarker
  <2>2. QED
    BY <1>1, <2>1
<1>5. CASE pid \in q.aborting
  <2>1. PICK m \in l : Aborts(l, m, pid, q.next)
    BY <1>5 DEF GateInv, AbortInv, Asking
  <2>2. b.last + 1 <= m.first
    BY <1>4, <2>1 DEF Aborts
  <2>3. Aborts(l, m, pid, b.last + 1)
    BY <1>1, <1>2, <2>1, <2>2 DEF Aborts
  <2>4. QED
    BY <2>3
<1>6. CASE pid \notin q.aborting
  <2>1. PICK a \in Begun(b) : a.pid = pid
    BY <1>6 DEF Aborting
  <2>2. a \in q.aborted /\ a.first <= b.first /\ a.first \in Nat
    BY <1>1, <2>1 DEF Begun
  <2>3. a.last >= q.next /\ \E m \in l : Aborts(l, m, a.pid, a.first) /\ m.last = a.last
    BY <2>2 DEF GateInv, AbortInv, Asking
  <2>4. PICK m \in l : Aborts(l, m, pid, a.first) /\ m.last = a.last
    BY <2>1, <2>3
  <2>5. m.first = m.last /\ m.kind = "abort" /\ m.pid = pid
    BY <1>1, <2>4 DEF Aborts, Sound, IsMarker
  <2>6. b.last + 1 <= m.first
    BY <1>1, <1>4, <2>3, <2>4, <2>5
  <2>7. Aborts(l, m, pid, b.last + 1)
    BY <1>1, <1>2, <2>2, <2>4, <2>6 DEF Aborts
  <2>8. QED
    BY <2>7
<1>7. QED
  BY <1>5, <1>6

\* A batch that is skipped is no record for a consumer.
LEMMA SkippedSound ==
    ASSUME GateInv, q.pc = "batch", NEW b \in q.raw, \A c \in q.raw : b.first <= c.first, Skipped(b)
    PROVE  b \notin Committed(log[q.key.p])
<1> DEFINE l == log[q.key.p]
<1>1. /\ b.first \in Nat /\ b.last \in Nat /\ Sound(l, end[q.key.p])
      /\ \A c \in l : c.first \in Nat /\ c.last \in Nat /\ c.first <= c.last
  BY AskedOf DEF Asking
<1>2. CASE IsMarker(b)
  BY <1>2 DEF IsMarker, Committed
<1>3. CASE ~IsMarker(b)
  <2>1. b.kind = "txn" /\ b.pid \in Aborting(b)
    BY <1>3 DEF Skipped
  <2>2. PICK m \in l : Aborts(l, m, b.pid, b.last + 1)
    BY <2>1, AbortingSound
  <2>3. ASSUME NEW n \in EndOf(l, b) PROVE n.kind # "commit"
    <3>1. /\ n \in l /\ IsMarker(n) /\ n.pid = b.pid /\ n.first > b.last
          /\ \A k \in l : IsMarker(k) /\ k.pid = b.pid /\ k.first > b.last => n.first <= k.first
      BY DEF EndOf
    <3>2. n.first = m.first
      BY <1>1, <2>2, <3>1 DEF Aborts, IsMarker
    <3>3. n = m
      BY <1>1, <3>1, <3>2 DEF Sound, Apart
    <3>4. QED
      BY <2>2, <3>3 DEF Aborts
  <2>4. QED
    BY <2>1, <2>3 DEF Committed
<1>4. QED
  BY <1>2, <1>3

\* The next batch of the answer: the range is clear, has a record, or is read further.
LEMMA NextBatchStep ==
    ASSUME GateInv, NextBatch, UNCHANGED <<reader, tick>>
    PROVE  GateInv'
<1> DEFINE p == q.key.p
           l == log[p]
<1>1. Asking /\ q.pc = "batch" /\ UNCHANGED <<broker, faults>> /\ TypeOK /\ faults' \in Nat /\ q.pc # "none"
  BY DEF NextBatch, Asking, GateInv, TypeOK
<1>2. PICK b \in q.raw :
          /\ \A c \in q.raw : b.first <= c.first
          /\ \/ /\ b.first >= q.key.to
                /\ q' = Answer("drained")
                /\ empty' = Remember(q.key)
             \/ /\ b.first < q.key.to
                /\ ~Skipped(b)
                /\ q' = Answer("records")
                /\ UNCHANGED empty
             \/ /\ b.first < q.key.to
                /\ Skipped(b)
                /\ b.last + 1 >= q.key.to
                /\ q' = Answer("drained")
                /\ empty' = Remember(q.key)
             \/ /\ b.first < q.key.to
                /\ Skipped(b)
                /\ b.last + 1 < q.key.to
                /\ q' = [q EXCEPT !.raw = @ \ {b}, !.next = b.last + 1,
                                  !.aborting = Aborting(b), !.aborted = @ \ Begun(b)]
                /\ UNCHANGED empty
  BY DEF NextBatch
<1>3. /\ Sound(l, end[p]) /\ q \in Question /\ p \in Partitions
      /\ q.key.from \in Nat /\ q.key.to \in Nat /\ q.next \in Nat
      /\ q.key.from <= q.next /\ q.next < q.key.to /\ q.fetches \in Nat
      /\ \A c \in q.raw : c \in Batch /\ c.first \in Nat /\ c.last \in Nat
      /\ \A a \in q.aborted : a.first \in Nat /\ a.last \in Nat
      /\ \A c \in l : c \in Batch /\ c.first \in Nat /\ c.last \in Nat /\ c.first <= c.last
      /\ \A c \in Committed(l) : c \in l /\ (c.last < q.key.from \/ c.last >= q.next)
  BY <1>1, AskedOf
<1>4. Decided(l, q.key.to) /\ q.fetches > 0
  BY <1>1, <1>3 DEF GateInv, AskInv
<1>5. \A c \in q.raw : /\ c.first <= c.last /\ q.next <= c.last /\ c.last < end[p]
                       /\ \A d \in q.raw \cup l : Apart(c, d)
                       /\ \A d \in l : q.next <= d.last /\ d.first <= c.first => d \in q.raw
  BY <1>1 DEF GateInv, RawInv
<1>6. \A c \in l : q.next <= c.last /\ c.first <= b.last => c = b
  BY <1>1, <1>2, OnlyNext
<1>7. Skipped(b) => b \notin Committed(l)
  BY <1>1, <1>2, SkippedSound
<1>8. b.first \in Nat /\ b.last \in Nat /\ b.first <= b.last /\ q.next <= b.last
  BY <1>3, <1>5
<1> HIDE DEF p, l
<1>9. CASE q' = Answer("drained") /\ b.first >= q.key.to /\ empty' = Remember(q.key)
  <2>1. Clear(l, q.key.from, q.key.to)
    BY <1>2, <1>3, <1>4, <1>5, <1>8, <1>9 DEF Clear
  <2>2. QED
    BY <1>1, <1>9, <2>1, AnswerKeeps DEF l, p
<1>10. CASE q' = Answer("records") /\ UNCHANGED empty
  BY <1>1, <1>10, AnswerKeeps
<1>11. CASE q' = Answer("drained") /\ Skipped(b) /\ b.last + 1 >= q.key.to /\ empty' = Remember(q.key)
  <2>1. Clear(l, q.key.from, q.key.to)
    BY <1>3, <1>4, <1>6, <1>7, <1>8, <1>11 DEF Clear
  <2>2. QED
    BY <1>1, <1>11, <2>1, AnswerKeeps DEF l, p
<1>12. CASE /\ Skipped(b) /\ b.last + 1 < q.key.to /\ UNCHANGED empty
            /\ q' = [q EXCEPT !.raw = @ \ {b}, !.next = b.last + 1,
                              !.aborting = Aborting(b), !.aborted = @ \ Begun(b)]
  <2>1. UNCHANGED <<log, end, wrote, compacted, empty, faults, position, emitted, idle, restarts, tick>>
    BY <1>1, <1>12 DEF broker, reader
  <2>2. PICK n \in Nat : n = b.last + 1
    BY <1>8
  <2>3. PICK x \in SUBSET Producers : x = Aborting(b)
    BY <1>3 DEF Aborting, Begun, Question
  <2>4. PICK y \in SUBSET [pid: Producers, first: Nat, last: Nat] : y = q.aborted \ Begun(b)
    BY <1>3 DEF Question
  <2>5. PICK r \in SUBSET Batch : r = q.raw \ {b}
    BY <1>3
  <2>6. q' = [q EXCEPT !.raw = r, !.next = n, !.aborting = x, !.aborted = y]
    BY <1>12, <2>2, <2>3, <2>4, <2>5
  <2>7. q' \in Question
    BY <1>3, <2>6 DEF Question
  <2>8. /\ q'.pc = "batch" /\ q'.key = q.key /\ q'.next = n /\ q'.raw = r
        /\ q'.fetches = q.fetches /\ q'.aborting = x /\ q'.aborted = y
    BY <1>1, <1>3, <2>6 DEF Question
  <2>9. TypeOK' /\ QuestionInv'
    BY <1>1, <2>1, <2>7, <2>8 DEF TypeOK, GateInv, QuestionInv
  <2>10. AskInv'
    <3>1. ASSUME NEW c \in Committed(l) PROVE c.last < q.key.from \/ c.last >= n
      BY <1>3, <1>6, <1>7, <1>8, <1>12, <2>2
    <3>2. q.key.from <= n /\ n < q.key.to
      BY <1>3, <1>8, <1>12, <2>2
    <3>3. QED
      BY <1>4, <2>1, <2>8, <3>1, <3>2 DEF AskInv, l, p
  <2>11. RawInv'
    <3>1. ASSUME NEW c \in r
          PROVE  /\ c.first <= c.last /\ n <= c.last /\ c.last < end[p]
                 /\ \A d \in r \cup l : Apart(c, d)
                 /\ \A d \in l : n <= d.last /\ d.first <= c.first => d \in r
      <4>1. c \in q.raw /\ c # b /\ c.first \in Nat /\ c.last \in Nat /\ Apart(b, c) /\ b.first <= c.first
        BY <1>2, <1>3, <1>5, <2>5
      <4>2. n <= c.last
        BY <1>5, <1>8, <2>2, <4>1 DEF Apart
      <4>3. ASSUME NEW d \in l, n <= d.last, d.first <= c.first PROVE d \in r
        BY <1>3, <1>5, <1>8, <2>2, <2>5, <4>1, <4>3
      <4>4. QED
        BY <1>5, <2>5, <4>1, <4>2, <4>3
    <3>2. QED
      BY <2>1, <2>8, <3>1 DEF RawInv, l, p
  <2>12. AbortInv'
    <3>1. \A pid \in x : \E m \in l : Aborts(l, m, pid, n)
      BY <1>1, <1>2, <2>2, <2>3, AbortingSound DEF l, p
    <3>2. ASSUME NEW a \in y
          PROVE  a.last >= n /\ \E m \in l : Aborts(l, m, a.pid, a.first) /\ m.last = a.last
      <4>1. a \in q.aborted /\ a.first \in Nat /\ a.last \in Nat /\ a.first > b.first
        BY <1>3, <1>8, <2>4 DEF Begun
      <4>2. a.last >= q.next /\ \E m \in l : Aborts(l, m, a.pid, a.first) /\ m.last = a.last
        BY <1>1, <4>1 DEF GateInv, AbortInv, l, p
      <4>3. PICK m \in l : Aborts(l, m, a.pid, a.first) /\ m.last = a.last
        BY <4>2
      <4>4. m.first = m.last /\ a.first <= m.first
        BY <1>3, <4>3 DEF Aborts, Sound, IsMarker
      <4>5. m.first > b.last
        BY <1>3, <1>6, <1>8, <4>1, <4>2, <4>3, <4>4
      <4>6. QED
        BY <1>3, <1>8, <2>2, <4>2, <4>3, <4>4, <4>5
    <3>3. QED
      BY <2>1, <2>8, <3>1, <3>2 DEF AbortInv, l, p
  <2>13. LogInv' /\ TickInv' /\ EmptyInv'
    BY <2>1 DEF GateInv, LogInv, TickInv, EmptyInv
  <2>14. QED
    BY <2>9, <2>10, <2>11, <2>12, <2>13 DEF GateInv
<1>13. QED
  BY <1>2, <1>9, <1>10, <1>11, <1>12

\* The steps of Kafka.Records keep the invariant.
LEMMA RecordsStep ==
    ASSUME GateInv, Records, UNCHANGED <<reader, tick>>
    PROVE  GateInv'
<1>1. TypeOK
  BY DEF GateInv
<1>2. CASE Fetch
  BY <1>2, FetchStep
<1>3. CASE FetchFails
  <2>1. q.pc # "none" /\ q' = Answer("unknown") /\ faults' \in Nat /\ UNCHANGED <<broker, empty>>
    BY <1>1, <1>3 DEF FetchFails, TypeOK
  <2>2. QED
    BY <2>1, AnswerKeeps
<1>4. CASE NextBatch
  BY <1>4, NextBatchStep
<1>5. CASE Refetch
  <2>1. /\ q.pc = "batch" /\ q' = [q EXCEPT !.pc = "fetch"]
        /\ UNCHANGED <<log, end, wrote, compacted, empty, faults, position, emitted, idle, restarts, tick>>
    BY <1>5 DEF Refetch, broker, reader
  <2>2. q \in Question
    BY <1>1 DEF TypeOK
  <2>3. /\ q' \in Question /\ q'.pc = "fetch" /\ q'.key = q.key /\ q'.next = q.next
        /\ q'.fetches = q.fetches /\ q'.aborting = q.aborting /\ q'.aborted = q.aborted
    BY <2>1, <2>2 DEF Question
  <2>4. TypeOK' /\ LogInv' /\ TickInv' /\ EmptyInv'
    BY <1>1, <2>1, <2>3 DEF GateInv, TypeOK, LogInv, TickInv, EmptyInv
  <2>5. AskInv' /\ AbortInv' /\ QuestionInv' /\ RawInv'
    BY <2>1, <2>3 DEF GateInv, AskInv, AbortInv, QuestionInv, RawInv, Asking
  <2>6. QED
    BY <2>4, <2>5 DEF GateInv
<1>6. QED
  BY <1>2, <1>3, <1>4, <1>5 DEF Records
----------------------------------------------------------------------------
(* The reader *)

\* The reader's steps keep the invariant if its position only grows and it emits what is decided.
LEMMA ReaderKeeps ==
    ASSUME GateInv, UNCHANGED <<broker, faults, q, empty, tick>>,
           position' \in [Partitions -> Nat], emitted' \in [Partitions -> Int],
           idle' \in Nat, restarts' \in Nat,
           \A p \in Partitions : /\ position[p] <= position'[p]
                                 /\ emitted'[p] < end[p] /\ Decided(log[p], emitted'[p] + 1)
    PROVE  GateInv'
<1>1. UNCHANGED <<log, end, wrote, compacted, faults, q, empty, tick>>
  BY DEF broker
<1>2. TypeOK'
  BY <1>1 DEF GateInv, TypeOK
<1>3. LogInv' /\ AskInv' /\ RawInv' /\ AbortInv' /\ QuestionInv' /\ EmptyInv'
  BY <1>1 DEF GateInv, LogInv, AskInv, RawInv, AbortInv, QuestionInv, EmptyInv, Asking
<1>4. \A p \in Partitions : tick.ends[p] <= position[p] => tick.ends[p] <= position'[p]
  BY Typed DEF GateInv
<1>5. TickInv'
  BY <1>1, <1>4 DEF GateInv, TickInv
<1>6. QED
  BY <1>2, <1>3, <1>5 DEF GateInv

\* What the reader emits lies below the last stable offset.
LEMMA ReaderStep ==
    ASSUME GateInv, Emit \/ Idle \/ JobRestarts
    PROVE  GateInv'
<1>1. TypeOK /\ LogInv /\ TickInv
  BY DEF GateInv
<1>2. \A p \in Partitions : /\ log[p] \in SUBSET Batch /\ end[p] \in Nat
                            /\ position[p] \in Nat /\ emitted[p] \in Int
  BY <1>1, Typed
<1>3. \A p \in Partitions : emitted[p] < end[p] /\ Decided(log[p], emitted[p] + 1)
  BY <1>1 DEF TickInv
<1>4. CASE Emit
  <2>1. PICK p \in Partitions : \E o \in Unread(p, position[p], LastStable(p)) :
            position' = [position EXCEPT ![p] = o + 1] /\ emitted' = [emitted EXCEPT ![p] = o]
    BY <1>4 DEF Emit
  <2>2. PICK o \in Unread(p, position[p], LastStable(p)) :
            position' = [position EXCEPT ![p] = o + 1] /\ emitted' = [emitted EXCEPT ![p] = o]
    BY <2>1
  <2>3. LastStable(p) \in Nat /\ LastStable(p) <= end[p] /\ Decided(log[p], LastStable(p))
    BY <1>1, StableIsDecided
  <2>4. o \in Int /\ position[p] <= o /\ o < LastStable(p)
    BY <1>2, <2>3 DEF Unread
  <2>5. o + 1 \in Nat /\ o < end[p]
    BY <1>2, <2>3, <2>4
  <2>6. Decided(log[p], o + 1)
    <3>1. \A b \in Open(log[p]) : b.first \in Nat
      BY <1>2 DEF Open, Batch
    <3>2. QED
      BY <2>3, <2>4, <3>1 DEF Decided
  <2>7. position' \in [Partitions -> Nat] /\ emitted' \in [Partitions -> Int]
    BY <1>1, <2>2, <2>4, <2>5 DEF TypeOK
  <2>8. ASSUME NEW r \in Partitions
        PROVE  position[r] <= position'[r] /\ emitted'[r] < end[r] /\ Decided(log[r], emitted'[r] + 1)
    <3>1. CASE r = p
      <4>1. position'[r] = o + 1 /\ emitted'[r] = o
        BY <1>1, <2>2, <3>1 DEF TypeOK
      <4>2. QED
        BY <1>2, <2>4, <2>5, <2>6, <3>1, <4>1
    <3>2. CASE r # p
      <4>1. position'[r] = position[r] /\ emitted'[r] = emitted[r]
        BY <1>1, <2>2, <3>2 DEF TypeOK
      <4>2. QED
        BY <1>2, <1>3, <4>1
    <3>3. QED
      BY <3>1, <3>2
  <2>9. UNCHANGED <<broker, faults, q, empty, tick>> /\ idle' \in Nat /\ restarts' \in Nat
    BY <1>1, <1>4 DEF Emit, TypeOK
  <2>10. QED
    BY <2>7, <2>8, <2>9, ReaderKeeps
<1>5. CASE Idle
  <2>1. /\ UNCHANGED <<broker, faults, q, empty, tick>> /\ idle' \in Nat /\ restarts' \in Nat
        /\ position' = position /\ emitted' = emitted
    BY <1>1, <1>5 DEF Idle, TypeOK
  <2>2. position' \in [Partitions -> Nat] /\ emitted' \in [Partitions -> Int]
    BY <1>1, <2>1 DEF TypeOK
  <2>3. QED
    BY <1>2, <1>3, <2>1, <2>2, ReaderKeeps
<1>6. CASE JobRestarts
  <2>1. /\ UNCHANGED <<broker, faults, q, empty, tick>> /\ idle' \in Nat /\ restarts' \in Nat
        /\ position' = position /\ emitted' = [p \in Partitions |-> -1]
    BY <1>1, <1>6 DEF JobRestarts, TypeOK, InitialOffset
  <2>2. position' \in [Partitions -> Nat] /\ emitted' \in [Partitions -> Int]
    BY <1>1, <2>1 DEF TypeOK
  <2>3. ASSUME NEW p \in Partitions
        PROVE  position[p] <= position'[p] /\ emitted'[p] < end[p] /\ Decided(log[p], emitted'[p] + 1)
    <3>1. \A b \in Open(log[p]) : b.first \in Nat
      BY <1>2 DEF Open, Batch
    <3>2. QED
      BY <1>2, <2>1, <3>1 DEF Decided
  <2>4. QED
    BY <2>1, <2>2, <2>3, ReaderKeeps
<1>7. QED
  BY <1>4, <1>5, <1>6
----------------------------------------------------------------------------
(* The tick *)

\* Between questions a step of the tick has only the tick's own invariant to keep.
LEMMA TickKeeps ==
    ASSUME GateInv, q.pc = "none", UNCHANGED <<broker, reader, q, empty>>, TypeOK', TickInv'
    PROVE  GateInv'
<1>1. UNCHANGED <<log, end, q, empty>>
  BY DEF broker
<1>2. LogInv' /\ AskInv' /\ RawInv' /\ AbortInv' /\ QuestionInv' /\ EmptyInv'
  BY <1>1 DEF GateInv, LogInv, AskInv, RawInv, AbortInv, QuestionInv, EmptyInv, Asking
<1>3. QED
  BY <1>2 DEF GateInv

\* The empty tick, and how many partitions a call may miss.
LEMMA NoTickType ==
    /\ NoTick \in TickType({}) /\ NoTick.ends = [p \in Partitions |-> 0] /\ NoTick.drained = {}
    /\ DOMAIN NoTick.offsets = {} /\ NoTick.pc = "idle" /\ NoTick.gate = "unknown"
<1> DEFINE f == [p \in {} |-> 0]
<1>1. f \in [{} -> Int] /\ DOMAIN f = {}
  OBVIOUS
<1>2. NoTick = [pc |-> "idle", ends |-> [p \in Partitions |-> 0], lag |-> -1, offsets |-> f,
                idleFor |-> 0, drained |-> {}, left |-> {}, asked |-> 0, gate |-> "unknown"]
  BY DEF NoTick, Unknown
<1> HIDE DEF f
<1>3. QED
  BY <1>1, <1>2 DEF TickType

LEMMA MissingType ==
    ASSUME NEW P \in SUBSET Partitions
    PROVE  Cardinality(P) \in Nat
BY GapAssumption, FS_Subset, FS_CardinalityType

\* The tick begins with the end offsets.
LEMMA ObserveStep ==
    ASSUME GateInv, Observe
    PROVE  GateInv'
<1>1. TypeOK /\ TickInv /\ UNCHANGED <<broker, q, empty, reader>> /\ q.pc = "none"
  BY DEF GateInv, QuestionInv, Observe
<1>2. PICK missing \in SUBSET Partitions :
          /\ faults' = faults + Cardinality(missing)
          /\ tick' = [NoTick EXCEPT !.pc = "lag", !.ends = [p \in Partitions |->
                                       IF p \in missing THEN Unknown ELSE end[p]]]
  BY DEF Observe
<1> DEFINE ends == [p \in Partitions |-> IF p \in missing THEN Unknown ELSE end[p]]
<1>3. faults' \in Nat
  BY <1>1, <1>2, MissingType DEF TypeOK
<1>4. \A p \in Partitions : end[p] \in Nat
  BY <1>1, Typed
<1>5. ends \in [Partitions -> Int] /\ \A p \in Partitions : ends[p] <= end[p]
  BY <1>4 DEF Unknown
<1>6. tick' = [NoTick EXCEPT !.pc = "lag", !.ends = ends]
  BY <1>2
<1> HIDE DEF ends
<1>7. /\ tick' \in TickType({}) /\ tick'.ends = ends /\ tick'.drained = {} /\ DOMAIN tick'.offsets = {}
      /\ tick'.pc = "lag"
  BY <1>5, <1>6, NoTickType DEF TickType
<1>8. TypeOK'
  <2>1. \E P \in SUBSET Partitions : tick' \in TickType(P)
    BY <1>7
  <2>2. QED
    BY <1>1, <1>3, <2>1 DEF TypeOK, broker, reader, TickType
<1>9. TickInv'
  BY <1>1, <1>5, <1>7 DEF TickInv, broker, reader
<1>10. QED
  BY <1>1, <1>8, <1>9, TickKeeps

\* The image of a finite set is finite.
LEMMA ImageFinite ==
    ASSUME NEW S, IsFiniteSet(S), NEW f
    PROVE  IsFiniteSet({f[x] : x \in S})
<1> DEFINE g == [x \in S |-> f[x]]
<1>1. g \in Surjection(S, {f[x] : x \in S})
  BY DEF Surjection
<1>2. QED
  BY <1>1, FS_Surjection

\* The offsets a lag counts are finitely many.
LEMMA LagFinite ==
    ASSUME NEW ends \in [Partitions -> Int], NEW at \in [Partitions -> Int]
    PROVE  IsFiniteSet(UNION {{<<p, o>> : o \in at[p]..(ends[p] - 1)} : p \in Partitions})
<1> DEFINE Part(p) == {<<p, o>> : o \in at[p]..(ends[p] - 1)}
           All == {Part(p) : p \in Partitions}
<1>1. ASSUME NEW p \in Partitions PROVE IsFiniteSet(Part(p))
  <2> DEFINE S == at[p]..(ends[p] - 1)
             f == [o \in S |-> <<p, o>>]
  <2>1. IsFiniteSet(S)
    BY FS_Interval
  <2>2. Part(p) = {f[o] : o \in S}
    OBVIOUS
  <2> HIDE DEF S, f
  <2>3. IsFiniteSet({f[o] : o \in S})
    BY <2>1, ImageFinite
  <2>4. QED
    BY <2>2, <2>3
<1>2. IsFiniteSet(All)
  <2> DEFINE f == [p \in Partitions |-> Part(p)]
  <2>1. All = {f[p] : p \in Partitions}
    OBVIOUS
  <2> HIDE DEF f, All
  <2>2. IsFiniteSet({f[p] : p \in Partitions})
    BY GapAssumption, ImageFinite
  <2>3. QED
    BY <2>1, <2>2
<1>3. IsFiniteSet(UNION All)
  BY <1>1, <1>2, FS_UNION
<1>4. QED
  BY <1>3

\* No lag means that the group has committed, and so read, all there was at the observation.
LEMMA NoLag ==
    ASSUME NEW ends \in [Partitions -> Int], NEW at \in [Partitions -> Int], Lag(ends, at) = 0
    PROVE  \A p \in Partitions : ends[p] <= at[p]
<1> DEFINE Part(p) == {<<p, o>> : o \in at[p]..(ends[p] - 1)}
           All == {Part(p) : p \in Partitions}
<1>1. Cardinality(UNION All) = 0
  BY DEF Lag, Unknown
<1>2. IsFiniteSet(UNION All)
  BY LagFinite
<1>3. UNION All = {}
  BY <1>1, <1>2, FS_EmptySet
<1>4. ASSUME NEW p \in Partitions, ~(ends[p] <= at[p]) PROVE FALSE
  <2>1. <<p, at[p]>> \in Part(p)
    BY <1>4
  <2>2. Part(p) \in All
    OBVIOUS
  <2> HIDE DEF All, Part
  <2>3. QED
    BY <1>3, <2>1, <2>2
<1>5. QED
  BY <1>4

\* The lag is measured: without any, the reader is past the end offsets of the tick.
LEMMA MeasureLagStep ==
    ASSUME GateInv, MeasureLag
    PROVE  GateInv'
<1>1. /\ TypeOK /\ TickInv /\ UNCHANGED <<broker, faults, q, empty, reader>> /\ q.pc = "none"
      /\ tick.pc = "lag"
  BY DEF GateInv, QuestionInv, MeasureLag
<1>2. PICK at \in Commits : tick' = [tick EXCEPT !.pc = "read", !.lag = Lag(tick.ends, at)]
  BY DEF MeasureLag
<1>3. PICK P \in SUBSET Partitions : tick \in TickType(P)
  BY <1>1 DEF TypeOK
<1>4. \A p \in Partitions : position[p] \in Nat
  BY <1>1, Typed
<1>5. at \in [Partitions -> Int] /\ \A p \in Partitions : at[p] <= position[p]
  BY <1>4 DEF Commits
<1>6. tick.ends \in [Partitions -> Int]
  BY <1>3 DEF TickType
<1>7. Lag(tick.ends, at) \in Int
  <2>1. CASE \E p \in Partitions : tick.ends[p] < 0 \/ at[p] < 0
    BY <2>1 DEF Lag, Unknown
  <2>2. CASE ~\E p \in Partitions : tick.ends[p] < 0 \/ at[p] < 0
    <3>1. Lag(tick.ends, at) = Cardinality(UNION {{<<p, o>> : o \in at[p]..(tick.ends[p] - 1)} : p \in Partitions})
      BY <2>2 DEF Lag
    <3>2. QED
      BY <1>5, <1>6, <3>1, LagFinite, FS_CardinalityType
  <2>3. QED
    BY <2>1, <2>2
<1>8. PICK lag \in Int : lag = Lag(tick.ends, at)
  BY <1>7
<1>9. lag = 0 => \A p \in Partitions : tick.ends[p] <= position[p]
  <2>1. Lag(tick.ends, at) = 0 => \A p \in Partitions : tick.ends[p] <= at[p]
    BY <1>5, <1>6, NoLag
  <2>2. QED
    BY <1>4, <1>5, <1>6, <1>8, <2>1
<1>10. tick' = [tick EXCEPT !.pc = "read", !.lag = lag]
  BY <1>2, <1>8
<1>11. /\ tick' \in TickType(P) /\ tick'.pc = "read" /\ tick'.lag = lag /\ tick'.ends = tick.ends
       /\ tick'.offsets = tick.offsets /\ tick'.drained = tick.drained
  BY <1>3, <1>10 DEF TickType
<1>12. TypeOK'
  BY <1>1, <1>11 DEF TypeOK, broker, reader
<1>13. TickInv'
  BY <1>1, <1>9, <1>11 DEF TickInv, broker, reader
<1>14. QED
  BY <1>1, <1>12, <1>13, TickKeeps

\* The job's gauges are read.
LEMMA ReadJobStep ==
    ASSUME GateInv, ReadJob
    PROVE  GateInv'
<1>1. /\ TypeOK /\ TickInv /\ UNCHANGED <<broker, q, empty, reader>> /\ q.pc = "none"
      /\ tick.pc = "read"
  BY DEF GateInv, QuestionInv, ReadJob
<1>2. PICK hidden \in SUBSET Partitions :
          /\ faults' = faults + Cardinality(hidden)
          /\ tick' = [tick EXCEPT !.pc = IF idle < Quiet THEN "gate" ELSE "drain",
                                  !.offsets = [p \in Partitions \ hidden |-> emitted[p]],
                                  !.idleFor = idle, !.left = Partitions, !.lag = Unknown]
  BY DEF ReadJob
<1> DEFINE S == Partitions \ hidden
           f == [p \in S |-> emitted[p]]
<1>3. PICK P \in SUBSET Partitions : tick \in TickType(P)
  BY <1>1 DEF TypeOK
<1>4. faults' \in Nat /\ idle \in Nat /\ emitted \in [Partitions -> Int]
  BY <1>1, <1>2, MissingType DEF TypeOK
<1>5. f \in [S -> Int] /\ S \in SUBSET Partitions /\ \A p \in S : f[p] = emitted[p]
  BY <1>4
<1>6. PICK pc \in {"gate", "drain"} : pc = IF idle < Quiet THEN "gate" ELSE "drain"
  OBVIOUS
<1>7. tick' = [tick EXCEPT !.pc = pc, !.offsets = f, !.idleFor = idle, !.left = Partitions, !.lag = -1]
  BY <1>2, <1>6 DEF Unknown
<1> HIDE DEF S, f
<1>8. /\ tick' \in TickType(S) /\ tick'.pc = pc /\ tick'.ends = tick.ends
      /\ tick'.offsets = f /\ tick'.drained = tick.drained
  <2>1. /\ tick'.pc = pc /\ tick'.ends = tick.ends /\ tick'.offsets = f /\ tick'.drained = tick.drained
    BY <1>3, <1>7 DEF TickType
  <2>2. tick' = [pc |-> pc, ends |-> tick.ends, lag |-> -1, offsets |-> f, idleFor |-> idle,
                 drained |-> tick.drained, left |-> Partitions, asked |-> tick.asked, gate |-> tick.gate]
    BY <1>3, <1>7 DEF TickType
  <2>3. tick' \in TickType(S)
    BY <1>3, <1>4, <1>5, <2>2 DEF TickType
  <2>4. QED
    BY <2>1, <2>3
<1>9. TypeOK'
  BY <1>1, <1>4, <1>5, <1>8 DEF TypeOK, broker, reader
<1>10. tick'.drained = {} /\ DOMAIN tick'.offsets = S
  BY <1>1, <1>5, <1>8 DEF TickInv
<1>11. TickInv'
  BY <1>1, <1>5, <1>8, <1>10 DEF TickInv, broker, reader
<1>12. QED
  BY <1>1, <1>9, <1>11, TickKeeps

\* A partition that was read short of its end is asked about; the others are passed over.
LEMMA DrainStep ==
    ASSUME GateInv, Drain
    PROVE  GateInv'
<1>1. /\ TypeOK /\ TickInv /\ EmptyInv /\ UNCHANGED <<broker, faults, empty, reader>>
      /\ q.pc = "none" /\ tick.pc = "drain" /\ q \in Question
  BY DEF GateInv, Drain, TypeOK
<1>2. PICK P \in SUBSET Partitions : tick \in TickType(P)
  BY <1>1 DEF TypeOK
<1>3. UNCHANGED <<log, end, wrote, compacted, empty, faults, position, emitted, idle, restarts>>
  BY <1>1 DEF broker, reader
<1>4. ASSUME tick' \in TickType(P), tick'.ends = tick.ends, tick'.offsets = tick.offsets,
             tick'.drained = tick.drained, tick'.pc \in {"drain", "gate"}, q' \in Question
      PROVE  TypeOK' /\ TickInv' /\ LogInv' /\ EmptyInv'
  <2>1. TypeOK'
    BY <1>1, <1>3, <1>4 DEF TypeOK
  <2>2. TickInv'
    BY <1>1, <1>3, <1>4 DEF TickInv
  <2>3. LogInv' /\ EmptyInv'
    BY <1>3 DEF GateInv, LogInv, EmptyInv
  <2>4. QED
    BY <2>1, <2>2, <2>3
<1>5. CASE UNCHANGED q /\ (\/ tick' = [tick EXCEPT !.pc = "gate"]
                           \/ tick' = [tick EXCEPT !.left = @ \ {NextLeft}])
  <2>1. /\ tick' \in TickType(P) /\ tick'.ends = tick.ends /\ tick'.offsets = tick.offsets
        /\ tick'.drained = tick.drained /\ tick'.pc \in {"drain", "gate"}
    <3>1. CASE tick' = [tick EXCEPT !.pc = "gate"]
      BY <1>2, <3>1 DEF TickType
    <3>2. CASE tick' = [tick EXCEPT !.left = @ \ {NextLeft}]
      <4>1. PICK s \in SUBSET Partitions : s = tick.left \ {NextLeft}
        BY <1>2 DEF TickType
      <4>2. tick' = [tick EXCEPT !.left = s]
        BY <3>2, <4>1
      <4>3. QED
        BY <1>1, <1>2, <4>2 DEF TickType
    <3>3. QED
      BY <1>5, <3>1, <3>2
  <2>2. TypeOK' /\ TickInv'
    BY <1>1, <1>4, <1>5, <2>1
  <2>3. QED
    BY <1>1, <1>5, <2>2, TickKeeps
<1>6. CASE /\ tick.left # {} /\ Short(NextLeft)
           /\ tick' = [tick EXCEPT !.left = @ \ {NextLeft}, !.asked = @ + 1]
           /\ q' = Ask(NextLeft, tick.offsets[NextLeft] + 1, tick.ends[NextLeft])
  <2> DEFINE p == NextLeft
             from == tick.offsets[p] + 1
             to == tick.ends[p]
             k == [p |-> p, from |-> from, to |-> to]
  <2>1. p \in DOMAIN tick.offsets /\ tick.offsets[p] >= 0 /\ from < to
    BY <1>6 DEF Short
  <2>2. p \in Partitions /\ from \in Nat /\ to \in Nat
    BY <1>1, <2>1, Typed
  <2>3. k \in GapKey /\ k.p = p /\ k.from = from /\ k.to = to
    BY <2>2 DEF GapKey
  <2>4. q' = IF k \in empty THEN [NoQuestion EXCEPT !.pc = "drained", !.key = k]
             ELSE [NoQuestion EXCEPT !.pc = "fetch", !.key = k, !.next = from]
    BY <1>6, <2>1, <2>2 DEF Ask
  <2>5. PICK a \in Nat : a = tick.asked + 1
    BY <1>2 DEF TickType
  <2>6. PICK s \in SUBSET Partitions : s = tick.left \ {NextLeft}
    BY <1>2 DEF TickType
  <2>7. tick' = [tick EXCEPT !.left = s, !.asked = a]
    BY <1>6, <2>5, <2>6
  <2>8. /\ tick' \in TickType(P) /\ tick'.ends = tick.ends /\ tick'.offsets = tick.offsets
        /\ tick'.drained = tick.drained /\ tick'.pc = "drain"
    BY <1>1, <1>2, <2>7 DEF TickType
  <2> HIDE DEF p, from, to, k
  <2>9. /\ q' \in Question /\ q'.key = k /\ q'.aborting = {} /\ q'.aborted = {}
        /\ \/ q'.pc = "drained" /\ k \in empty
           \/ q'.pc = "fetch" /\ q'.next = from /\ q'.fetches = 0
    BY <2>2, <2>3, <2>4 DEF NoQuestion, Question
  <2>10. TypeOK' /\ TickInv' /\ LogInv' /\ EmptyInv'
    BY <1>4, <2>8, <2>9
  <2>11. QuestionInv'
    <3>1. k \in empty => Clear(log[p], from, to)
      BY <1>1, <2>3 DEF EmptyInv
    <3>2. QED
      BY <1>3, <2>1, <2>3, <2>8, <2>9, <3>1 DEF QuestionInv, from, to
  <2>12. AskInv' /\ RawInv' /\ AbortInv'
    <3>1. \A b \in Committed(log[p]) : b.last < from \/ b.last >= from
      <4>1. \A b \in Committed(log[p]) : b.last \in Nat
        BY <1>1, <2>2, Typed DEF Committed, Batch
      <4>2. QED
        BY <2>2, <4>1
    <3>2. QED
      BY <1>3, <2>1, <2>2, <2>3, <2>9, <3>1 DEF AskInv, RawInv, AbortInv, Asking
  <2>13. QED
    BY <2>10, <2>11, <2>12 DEF GateInv
<1>7. QED
  BY <1>5, <1>6 DEF Drain

\* A drained answer is kept.
LEMMA AnsweredStep ==
    ASSUME GateInv, Answered
    PROVE  GateInv'
<1>1. /\ TypeOK /\ TickInv /\ QuestionInv /\ UNCHANGED <<broker, faults, empty, reader>>
      /\ q.pc # "none" /\ tick.pc = "drain" /\ q' = NoQuestion
      /\ tick' = [tick EXCEPT !.drained = IF q.pc = "drained" THEN @ \cup {q.key.p} ELSE @]
  BY DEF GateInv, Answered
<1>2. PICK P \in SUBSET Partitions : tick \in TickType(P)
  BY <1>1 DEF TypeOK
<1>3. UNCHANGED <<log, end, wrote, compacted, empty, faults, position, emitted, idle, restarts>>
  BY <1>1 DEF broker, reader
<1>4. q.key.p \in Partitions
  BY <1>1, KeyTyped
<1>5. PICK d \in SUBSET Partitions : d = IF q.pc = "drained" THEN tick.drained \cup {q.key.p} ELSE tick.drained
  BY <1>2, <1>4 DEF TickType
<1>6. tick' = [tick EXCEPT !.drained = d]
  BY <1>1, <1>5
<1>7. /\ tick' \in TickType(P) /\ tick'.drained = d /\ tick'.pc = "drain" /\ tick'.ends = tick.ends
      /\ tick'.offsets = tick.offsets
  BY <1>1, <1>2, <1>6 DEF TickType
<1>8. q' \in Question /\ q'.pc = "none"
  BY <1>1 DEF NoQuestion, NoKey, Question
<1>9. TypeOK'
  BY <1>1, <1>3, <1>7, <1>8 DEF TypeOK
<1>10. \A p \in d : p \in DOMAIN tick.offsets /\ Clear(log[p], tick.offsets[p] + 1, tick.ends[p])
  BY <1>1, <1>5 DEF TickInv, QuestionInv
<1>11. TickInv'
  BY <1>1, <1>3, <1>7, <1>10 DEF TickInv
<1>12. LogInv' /\ EmptyInv' /\ AskInv' /\ RawInv' /\ AbortInv' /\ QuestionInv'
  BY <1>3, <1>8 DEF GateInv, LogInv, EmptyInv, AskInv, RawInv, AbortInv, QuestionInv, Asking
<1>13. QED
  BY <1>9, <1>11, <1>12 DEF GateInv

\* The gate says idle only if every partition with a record emitted is clear up to its end offset.
LEMMA GateStep ==
    ASSUME GateInv, Gate
    PROVE  GateInv'
<1> DEFINE gate == JobGate(tick.ends, tick)
<1>1. /\ TypeOK /\ TickInv /\ UNCHANGED <<broker, faults, q, empty, reader>> /\ q.pc = "none"
      /\ tick.pc = "gate"
  BY DEF GateInv, QuestionInv, Gate
<1>2. PICK P \in SUBSET Partitions : tick \in TickType(P)
  BY <1>1 DEF TypeOK
<1>3. /\ \A p \in Partitions : tick.ends[p] \in Int /\ end[p] \in Nat /\ log[p] \in SUBSET Batch
      /\ DOMAIN tick.offsets \subseteq Partitions
      /\ \A p \in DOMAIN tick.offsets : tick.offsets[p] \in Int
  BY <1>1, Typed
<1>4. CASE gate = "idle"
  <2>1. tick' = [[NoTick EXCEPT !.ends = tick.ends, !.offsets = tick.offsets]
                    EXCEPT !.pc = "done", !.gate = "idle"]
    BY <1>4 DEF Gate
  <2>2. tick.ends \in [Partitions -> Int] /\ tick.offsets \in [P -> Int]
    BY <1>2 DEF TickType
  <2>3. /\ tick' \in TickType(P) /\ tick'.pc = "done" /\ tick'.ends = tick.ends
        /\ tick'.offsets = tick.offsets /\ tick'.drained = {}
    BY <2>1, <2>2, NoTickType DEF TickType
  <2>4. TypeOK'
    BY <1>1, <2>3 DEF TypeOK, broker, reader
  <2>5. \A p \in Partitions : p \in DOMAIN tick.offsets /\ ~(Pending(tick.ends, tick, p) > 0)
    BY <1>4 DEF JobGate
  <2>6. ASSUME NEW p \in Partitions, tick.offsets[p] >= 0
        PROVE  Clear(log[p], tick.offsets[p] + 1, tick.ends[p])
    <3>1. tick.offsets[p] \in Int /\ Decided(log[p], tick.offsets[p] + 1) /\ tick.offsets[p] # -1
      BY <1>1, <1>3, <2>5, <2>6 DEF TickInv
    <3>2. CASE p \in tick.drained
      BY <1>1, <3>2 DEF TickInv
    <3>3. CASE p \notin tick.drained
      <4>1. tick.ends[p] <= tick.offsets[p] + 1
        BY <1>3, <2>5, <3>1, <3>3 DEF Pending, InitialOffset
      <4>2. \A b \in Open(log[p]) : b.first \in Nat
        BY <1>3 DEF Open, Batch
      <4>3. QED
        BY <1>3, <3>1, <4>1, <4>2 DEF Clear, Decided
    <3>4. QED
      BY <3>2, <3>3
  <2>7. TickInv'
    BY <1>1, <2>3, <2>5, <2>6 DEF TickInv, broker, reader
  <2>8. QED
    BY <1>1, <2>4, <2>7, TickKeeps
<1>5. CASE gate # "idle"
  <2>1. tick' = [NoTick EXCEPT !.pc = "done", !.gate = gate] /\ gate \in {"unknown", "busy", "idle"}
    BY <1>5 DEF Gate, JobGate
  <2> HIDE DEF gate
  <2>2. /\ tick' \in TickType({}) /\ tick'.pc = "done" /\ tick'.ends = [p \in Partitions |-> 0]
        /\ DOMAIN tick'.offsets = {} /\ tick'.drained = {} /\ tick'.gate # "idle"
    BY <1>5, <2>1, NoTickType DEF TickType
  <2>3. \E S \in SUBSET Partitions : tick' \in TickType(S)
    BY <2>2
  <2>4. TypeOK'
    BY <1>1, <2>3 DEF TypeOK, broker, reader, TickType
  <2>5. TickInv'
    BY <1>1, <1>3, <2>2 DEF TickInv, broker, reader
  <2>6. QED
    BY <1>1, <2>4, <2>5, TickKeeps
<1>6. QED
  BY <1>4, <1>5
----------------------------------------------------------------------------
\* A job that has read the one record of each partition satisfies the invariant.
LEMMA GateInit ==
    ASSUME Init
    PROVE  GateInv
<1> DEFINE b == [first |-> 0, last |-> 0, kind |-> "plain", pid |-> NoProducer]
<1>1. /\ log = [p \in Partitions |-> {b}] /\ end = [p \in Partitions |-> 1]
      /\ q = NoQuestion /\ empty = {} /\ tick = NoTick /\ emitted = [p \in Partitions |-> 0]
      /\ position = [p \in Partitions |-> 1] /\ idle = 0
      /\ wrote = 0 /\ compacted = 0 /\ faults = 0 /\ restarts = 0
  BY DEF Init
<1>2. b \in Batch /\ b.first = 0 /\ b.last = 0 /\ b.kind = "plain"
  BY DEF Batch
<1> HIDE DEF b
<1>3. q \in Question /\ q.pc = "none"
  BY <1>1 DEF NoQuestion, NoKey, Question
<1>4. \E P \in SUBSET Partitions : tick \in TickType(P)
  BY <1>1, NoTickType
<1>5. TypeOK
  BY <1>1, <1>2, <1>3, <1>4 DEF TypeOK
<1>6. LogInv
  BY <1>1, <1>2 DEF LogInv, Sound, Apart, IsMarker
<1>7. \A p \in Partitions : Open(log[p]) = {}
  BY <1>1, <1>2 DEF Open
<1>8. TickInv
  <2>1. /\ tick.drained = {} /\ DOMAIN tick.offsets = {} /\ tick.pc = "idle"
        /\ tick.ends = [p \in Partitions |-> 0]
    BY <1>1, NoTickType
  <2>2. QED
    BY <1>1, <1>7, <2>1 DEF TickInv, Decided
<1>9. AskInv /\ RawInv /\ AbortInv /\ QuestionInv /\ EmptyInv
  BY <1>1, <1>3 DEF AskInv, RawInv, AbortInv, QuestionInv, EmptyInv, Asking
<1>10. QED
  BY <1>5, <1>6, <1>8, <1>9 DEF GateInv

\* Every step keeps the invariant.
LEMMA GateNext ==
    ASSUME GateInv, [Next]_vars
    PROVE  GateInv'
<1>1. CASE UNCHANGED vars
  BY <1>1 DEF vars, broker, reader, GateInv, TypeOK, LogInv, AskInv, RawInv, AbortInv, QuestionInv,
              TickInv, EmptyInv, Asking
<1>2. CASE AskBroker
  BY <1>2, RecordsStep DEF AskBroker
<1>3. CASE Probe
  BY <1>3, ObserveStep, MeasureLagStep, ReadJobStep, DrainStep, AnsweredStep, GateStep DEF Probe
<1>4. QED
  BY <1>1, <1>2, <1>3, BrokerStep, ReaderStep DEF Next

\* What gap.go concludes from its answers, what it remembers and what the tick has learned hold of
\* the log as it is, in every state, for any partitions, producers, batches and faults.
THEOREM GateInvariant == Spec => []GateInv
<1>1. Init => GateInv
  BY GateInit
<1>2. GateInv /\ [Next]_vars => GateInv'
  BY GateNext
<1>3. QED
  BY <1>1, <1>2, PTL DEF Spec

\* A clear range holds nothing to read and no transaction that could still give something.
LEMMA ClearIsRead ==
    ASSUME TypeOK, NEW p \in Partitions, NEW from \in Int, NEW to \in Int, Clear(log[p], from, to)
    PROVE  Unread(p, from, to) = {} /\ \A b \in Open(log[p]) : b.first >= to
<1>1. \A b \in Committed(log[p]) : b.first \in Nat /\ b.last \in Nat
  BY Typed DEF Committed, Batch
<1>2. ASSUME NEW o \in Unread(p, from, to) PROVE FALSE
  <2>1. PICK b \in Committed(log[p]) : b.first <= o /\ o <= b.last /\ o \in from..(to - 1)
    BY DEF Unread
  <2>2. QED
    BY <1>1, <2>1 DEF Clear
<1>3. QED
  BY <1>2 DEF Clear, Decided

\* The job gate lets a job sleep only when nothing is pending below the end offsets of the tick:
\* no record after the last one emitted and no open transaction (jobGate, drained, Records).
THEOREM IdleIsRead == Spec => []IdleMeansRead
<1>1. ASSUME GateInv PROVE IdleMeansRead
  <2> SUFFICES ASSUME tick.pc = "done", tick.gate = "idle", NEW p \in Partitions, tick.offsets[p] >= 0
               PROVE  /\ Unread(p, tick.offsets[p] + 1, tick.ends[p]) = {}
                      /\ \A b \in Open(log[p]) : b.first >= tick.ends[p]
    BY DEF IdleMeansRead
  <2>1. p \in DOMAIN tick.offsets /\ Clear(log[p], tick.offsets[p] + 1, tick.ends[p])
    BY <1>1 DEF GateInv, TickInv
  <2>2. TypeOK /\ tick.offsets[p] + 1 \in Int /\ tick.ends[p] \in Int
    BY <1>1, <2>1, Typed DEF GateInv
  <2>3. QED
    BY <2>1, <2>2, ClearIsRead
<1>2. QED
  BY <1>1, GateInvariant, PTL

\* A range remembered as empty never gets a record (gaps.remember): "a log only grows at its end".
THEOREM EmptyStaysEmpty == Spec => []RememberedStaysEmpty
<1>1. ASSUME GateInv PROVE RememberedStaysEmpty
  <2>1. TypeOK /\ EmptyInv
    BY <1>1 DEF GateInv
  <2>2. \A k \in empty : /\ k.p \in Partitions /\ k.from \in Int /\ k.to \in Int
                         /\ Clear(log[k.p], k.from, k.to)
    BY <2>1, Typed DEF EmptyInv
  <2>3. QED
    BY <2>1, <2>2, ClearIsRead DEF RememberedStaysEmpty
<1>2. QED
  BY <1>1, GateInvariant, PTL

\* Without lag the group has read every record below the end offsets of the tick (Lag).
THEOREM NoLagIsRead == Spec => []NoLagMeansRead
<1>1. ASSUME GateInv PROVE NoLagMeansRead
  <2> SUFFICES ASSUME tick.pc = "read", tick.lag = 0, NEW p \in Partitions
               PROVE  Unread(p, 0, tick.ends[p]) \subseteq 0..(position[p] - 1)
    BY DEF NoLagMeansRead
  <2>1. tick.ends[p] <= position[p] /\ tick.ends[p] \in Int /\ position[p] \in Nat
    BY <1>1, Typed DEF GateInv, TickInv
  <2>2. QED
    BY <2>1 DEF Unread
<1>2. QED
  BY <1>1, GateInvariant, PTL
=============================================================================
