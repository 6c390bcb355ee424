----------------------------- MODULE MemorySpec -----------------------------
(***************************************************************************)
(* What a tick may rely on when it loads and saves memory: each deployment *)
(* has a memory of its own, by UID; a load returns it; a save that reports *)
(* success has written it, and nothing else.  Memory may be discarded at   *)
(* any time, and somebody else may change it; then nothing more is         *)
(* promised to the tick in progress.                                       *)
(***************************************************************************)
EXTENDS Naturals

CONSTANTS Uid, Data, None

VARIABLES mem,   \* the memory of each deployment, None when there is none
          tick,  \* the last tick: where it is, whose, what it loaded, what it saves, and
                 \* whether that memory was discarded or changed since it loaded it
          hand   \* how often somebody else has changed a memory

Init ==
    /\ mem = [u \in Uid |-> None]
    /\ tick = [pc |-> "failed", uid |-> None, found |-> None, next |-> None, touched |-> FALSE]
    /\ hand = 0

Over == tick.pc \in {"saved", "failed"}

Load(u) ==
    /\ Over
    /\ tick' = [pc |-> "loaded", uid |-> u, found |-> mem[u], next |-> None, touched |-> FALSE]
    /\ UNCHANGED <<mem, hand>>

Decide(d) ==
    /\ tick.pc = "loaded"
    /\ tick' = [tick EXCEPT !.pc = "saving", !.next = d]
    /\ UNCHANGED <<mem, hand>>

Write(u, d) ==
    /\ tick.pc = "saving"
    /\ tick.touched \/ (u = tick.uid /\ d = tick.next)
    /\ mem' = [mem EXCEPT ![u] = d]
    /\ UNCHANGED <<tick, hand>>

Succeed ==
    /\ tick.pc = "saving"
    /\ mem[tick.uid] = tick.next \/ tick.touched
    /\ tick' = [tick EXCEPT !.pc = "saved"]
    /\ UNCHANGED <<mem, hand>>

Fail ==
    /\ ~Over
    /\ tick' = [tick EXCEPT !.pc = "failed"]
    /\ UNCHANGED <<mem, hand>>

Changed(u, d) ==
    /\ mem' = [mem EXCEPT ![u] = d]
    /\ tick' = [tick EXCEPT !.touched = @ \/ u = tick.uid]

Discard(u) == Changed(u, None) /\ UNCHANGED hand

Touch(u, d) == Changed(u, d) /\ hand' = hand + 1

Next == \/ Succeed \/ Fail
        \/ \E d \in Data : Decide(d)
        \/ \E u \in Uid : Load(u) \/ Discard(u)
        \/ \E u \in Uid, d \in Data : Write(u, d)
        \/ \E u \in Uid, d \in Data \cup {None} : Touch(u, d)

vars == <<mem, tick, hand>>

Spec == Init /\ [][Next]_vars

\* A save that succeeded is there until somebody else touches the memory.
Kept == tick.pc = "saved" => mem[tick.uid] = tick.next \/ tick.touched
=============================================================================
