------------------------------- MODULE Store -------------------------------
(***************************************************************************)
(* The ConfigMap that holds a deployment's memory, and Seen, the copy the  *)
(* process keeps of it, for one deployment name (store.go).  Deployments   *)
(* of that name come and go, and the informer tells the controller late;   *)
(* the garbage collector, humans, failing calls and a process that dies    *)
(* come between the calls of a Save.                                       *)
(***************************************************************************)
EXTENDS Integers

CONSTANTS
    Keys,       \* the keys of a ConfigMap's data
    Values,     \* what may stand under a key, the absence of it included
    None,       \* no ConfigMap, no data
    MaxUid,     \* bound: deployments of the name, one after the other
    MaxTouches, \* bound: what humans do to the ConfigMap
    MaxFaults   \* bound: failed calls and process restarts

Uid  == 1..MaxUid
Data == [Keys -> Values]
ConfigMap == [owner: Uid, data: Data]

ASSUME StoreAssumption ==
    /\ None \notin Data \cup ConfigMap \cup Nat
    /\ {MaxUid, MaxTouches, MaxFaults} \subseteq Nat

\* A deployment as far as the store is concerned; uid 0 when there is none.
Deployment == [uid: 0..MaxUid, policy: BOOLEAN]

VARIABLES live,     \* the deployment in the API server
          cached,   \* the deployment as the informer shows it
          cm,       \* the ConfigMap in the API server
          seen,     \* Seen: the ConfigMap last read or written by this process
          op,       \* the tick in progress, or the last one
          used

vars == <<live, cached, cm, seen, op, used>>

Saving == {"save", "get", "replace", "create", "patch", "written"}

\* got is the ConfigMap the tick holds: what Get or the response to a write returned.
\* found and touched are histories: what Load returned, and whether anybody else has deleted
\* or changed the deployment's ConfigMap since.
OpType == [pc: {"loaded", "saved", "failed"} \cup Saving, uid: Uid \cup {None},
           found: Data \cup {None}, next: Data \cup {None},
           got: ConfigMap \cup {None}, touched: BOOLEAN]

Over == op.pc \in {"saved", "failed"}
----------------------------------------------------------------------------
(* The API server *)

\* ownedBy: the owner reference points at this very deployment.
OwnedBy(c, uid) == c # None /\ c.owner = uid

\* client.MergeFrom: only the keys that differ from the base are written.
Merge(c, base, data) ==
    [c EXCEPT !.data = [k \in Keys |-> IF base.data[k] = data[k] THEN c.data[k] ELSE data[k]]]

Fault ==
    /\ used.faults < MaxFaults
    /\ used' = [used EXCEPT !.faults = @ + 1]

Fails == op' = [op EXCEPT !.pc = "failed", !.got = None]
----------------------------------------------------------------------------
(* One tick *)

\* Mutant of Load: a dead deployment's ConfigMap is taken for this one's.
LoadAny ==
    /\ Over
    /\ cached.policy
    /\ seen' = cm
    /\ op' = [pc |-> "loaded", uid |-> cached.uid,
              found |-> IF cm # None THEN cm.data ELSE None,
              next |-> None, got |-> None, touched |-> FALSE]
    /\ UNCHANGED <<live, cached, cm, used>>

\* Mutant of Load: Seen keeps a ConfigMap that is not there any more.
LoadKeepsSeen ==
    /\ Over
    /\ cached.policy
    /\ seen' = IF cm = None THEN seen ELSE cm
    /\ op' = [pc |-> "loaded", uid |-> cached.uid,
              found |-> IF OwnedBy(cm, cached.uid) THEN cm.data ELSE None,
              next |-> None, got |-> None, touched |-> FALSE]
    /\ UNCHANGED <<live, cached, cm, used>>

\* Load, at the start of a tick for the deployment the informer shows.
Load ==
    /\ Over
    /\ cached.policy
    /\ seen' = cm
    /\ op' = [pc |-> "loaded", uid |-> cached.uid,
              found |-> IF OwnedBy(cm, cached.uid) THEN cm.data ELSE None,
              next |-> None, got |-> None, touched |-> FALSE]
    /\ UNCHANGED <<live, cached, cm, used>>

\* The rest of the tick comes to what shall be saved.
Decide ==
    /\ op.pc = "loaded"
    /\ \E d \in Data : op' = [op EXCEPT !.pc = "save", !.next = d]
    /\ UNCHANGED <<live, cached, cm, seen, used>>

\* Save, nothing to write: the ConfigMap last seen has the data already.
SaveUnchanged ==
    /\ op.pc = "save"
    /\ OwnedBy(seen, op.uid)
    /\ seen.data = op.next
    /\ op' = [op EXCEPT !.pc = "saved"]
    /\ UNCHANGED <<live, cached, cm, seen, used>>

\* Save, a patch from the ConfigMap last seen: a ConfigMap that is gone is created below.
SaveSeen ==
    /\ op.pc = "save"
    /\ OwnedBy(seen, op.uid)
    /\ seen.data # op.next
    /\ IF cm = None
       THEN op' = [op EXCEPT !.pc = "get"] /\ seen' = None /\ UNCHANGED cm
       ELSE /\ cm' = Merge(cm, seen, op.next)
            /\ op' = [op EXCEPT !.pc = "written", !.got = cm']
            /\ UNCHANGED seen
    /\ UNCHANGED <<live, cached, used>>

SaveUnseen ==
    /\ op.pc = "save"
    /\ ~OwnedBy(seen, op.uid)
    /\ op' = [op EXCEPT !.pc = "get"]
    /\ UNCHANGED <<live, cached, cm, seen, used>>

\* Mutant of SaveReads: any ConfigMap of the name will do.
SaveReadsAny ==
    /\ op.pc = "get"
    /\ op' = [op EXCEPT !.got = cm,
                        !.pc = IF cm = None THEN "create"
                               ELSE IF cm.data = op.next THEN "saved"
                               ELSE "patch"]
    /\ UNCHANGED <<live, cached, cm, seen, used>>

\* Save, the Get and what follows from it.
SaveReads ==
    /\ op.pc = "get"
    /\ op' = [op EXCEPT !.got = cm,
                        !.pc = IF cm = None THEN "create"
                               ELSE IF ~OwnedBy(cm, op.uid) THEN "replace"
                               ELSE IF cm.data = op.next THEN "saved"
                               ELSE "patch"]
    /\ UNCHANGED <<live, cached, cm, seen, used>>

Created == [owner |-> op.uid, data |-> op.next]

\* Create; the name is taken only if somebody else took it.
SaveCreates ==
    /\ op.pc = "create"
    /\ IF cm = None
       THEN cm' = Created /\ op' = [op EXCEPT !.pc = "written", !.got = Created]
       ELSE Fails /\ UNCHANGED cm
    /\ UNCHANGED <<live, cached, seen, used>>

\* The dead deployment's ConfigMap is deleted, by name, and Save starts over.
SaveReplaces ==
    /\ op.pc = "replace"
    /\ cm' = None
    /\ op' = [op EXCEPT !.pc = "save", !.got = None, !.touched = @ \/ OwnedBy(cm, op.uid)]
    /\ UNCHANGED <<live, cached, seen, used>>

SavePatches ==
    /\ op.pc = "patch"
    /\ IF cm = None
       THEN Fails /\ UNCHANGED cm
       ELSE /\ cm' = Merge(cm, op.got, op.next)
            /\ op' = [op EXCEPT !.pc = "written", !.got = cm']
    /\ UNCHANGED <<live, cached, seen, used>>

\* The write's response: Seen holds what the API server returned.
SaveReturns ==
    /\ op.pc = "written"
    /\ seen' = op.got
    /\ op' = [op EXCEPT !.pc = "saved", !.got = None]
    /\ UNCHANGED <<live, cached, cm, used>>

Save == SaveUnchanged \/ SaveSeen \/ SaveUnseen \/ SaveReads \/ SaveCreates \/ SaveReplaces
        \/ SavePatches \/ SaveReturns

\* Delete, by name, at the end of a release; Seen forgets first.
Delete ==
    /\ Over
    /\ cached.uid # 0
    /\ ~cached.policy
    /\ seen' = None
    /\ cm' = None
    /\ op' = [op EXCEPT !.touched = @ \/ OwnedBy(cm, op.uid)]
    /\ UNCHANGED <<live, cached, used>>

DeleteFails ==
    /\ Over
    /\ cached.uid # 0
    /\ ~cached.policy
    /\ Fault
    /\ seen' = None
    /\ UNCHANGED <<live, cached, cm, op>>

\* Forget, for a deployment that is gone.
Forget ==
    /\ Over
    /\ cached.uid = 0
    /\ seen' = None
    /\ UNCHANGED <<live, cached, cm, op, used>>

\* A call fails before it has an effect, or after it: the response is lost.
CallFails ==
    /\ ~Over
    /\ Fault
    /\ Fails
    /\ UNCHANGED <<live, cached, cm, seen>>

ProcessRestarts ==
    /\ Fault
    /\ seen' = None
    /\ op' = IF Over THEN op ELSE [op EXCEPT !.pc = "failed", !.got = None]
    /\ UNCHANGED <<live, cached, cm>>

Tick == Load \/ Decide \/ Save \/ Delete \/ Forget
----------------------------------------------------------------------------
(* Deployments, the informer, the garbage collector, humans *)

CreateDeployment ==
    /\ live.uid = 0
    /\ used.uids < MaxUid
    /\ live' = [uid |-> used.uids + 1, policy |-> TRUE]
    /\ used' = [used EXCEPT !.uids = @ + 1]
    /\ UNCHANGED <<cached, cm, seen, op>>

DeleteDeployment ==
    /\ live.uid # 0
    /\ live' = [uid |-> 0, policy |-> FALSE]
    /\ UNCHANGED <<cached, cm, seen, op, used>>

RemovePolicy ==
    /\ live.policy
    /\ live' = [live EXCEPT !.policy = FALSE]
    /\ UNCHANGED <<cached, cm, seen, op, used>>

Inform ==
    /\ cached # live
    /\ cached' = live
    /\ UNCHANGED <<live, cm, seen, op, used>>

\* Somebody else writes the ConfigMap.
Becomes(c) ==
    /\ cm' = c
    /\ op' = [op EXCEPT !.touched = @ \/ OwnedBy(cm, op.uid) \/ OwnedBy(c, op.uid)]
    /\ UNCHANGED <<live, cached, seen>>

CollectGarbage ==
    /\ cm # None
    /\ cm.owner # live.uid
    /\ Becomes(None)
    /\ UNCHANGED used

Touch ==
    /\ used.touches < MaxTouches
    /\ used' = [used EXCEPT !.touches = @ + 1]

HumanDeletes == cm # None /\ Touch /\ Becomes(None)

HumanEdits == cm # None /\ Touch /\ \E d \in Data : Becomes([cm EXCEPT !.data = d])

\* A copy is put back in place (kubectl replace --force, a restored backup).
HumanRestores ==
    /\ cm = None
    /\ live.uid # 0
    /\ Touch
    /\ \E d \in Data : Becomes([owner |-> live.uid, data |-> d])

Others == CreateDeployment \/ DeleteDeployment \/ RemovePolicy \/ Inform \/ CollectGarbage
          \/ HumanDeletes \/ HumanEdits \/ HumanRestores
----------------------------------------------------------------------------
Init ==
    /\ live = [uid |-> 0, policy |-> FALSE]
    /\ cached = live
    /\ cm = None
    /\ seen = None
    /\ op = [pc |-> "failed", uid |-> None, found |-> None, next |-> None, got |-> None,
             touched |-> FALSE]
    /\ used = [uids |-> 0, touches |-> 0, faults |-> 0]

Next == Tick \/ DeleteFails \/ CallFails \/ ProcessRestarts \/ Others

Spec == Init /\ [][Next]_vars

\* Ticks come round and go on to their end, and the informer catches up.
FairSpec == Spec /\ WF_vars(Tick) /\ WF_vars(Inform)
----------------------------------------------------------------------------
\* A deployment's memory is the ConfigMap's data if it owns the ConfigMap.
MemoryOf == [u \in Uid |-> IF OwnedBy(cm, u) THEN cm.data ELSE None]

Progress == [pc |-> IF op.pc \in Saving THEN "saving" ELSE op.pc, uid |-> op.uid,
             found |-> op.found, next |-> op.next, touched |-> op.touched]

Abstract == INSTANCE MemorySpec WITH mem <- MemoryOf, tick <- Progress, hand <- used.touches

\* The store keeps a memory of its own for each deployment (ADR 10): a Load returns it and nothing of
\* a dead deployment of the same name; a Save that reports success has written it; and unless the
\* ConfigMap was collected, deleted or changed by somebody else since the tick loaded it, the Save writes
\* into no other deployment's memory, whatever Seen holds and however the calls fail (store.go).
Implements == Abstract!Spec

TypeOK ==
    /\ live \in Deployment /\ (live.policy => live.uid # 0)
    /\ cached \in Deployment /\ (cached.policy => cached.uid # 0)
    /\ cm \in ConfigMap \cup {None} /\ seen \in ConfigMap \cup {None}
    /\ op \in OpType
    /\ op.pc # "failed" => op.uid \in Uid
    /\ op.pc \in Saving \cup {"saved"} => op.next \in Data
    /\ op.pc \in {"patch", "written"} => op.got \in ConfigMap
    /\ used \in [uids: 0..MaxUid, touches: Nat, faults: Nat]

\* As long as nobody else touched the deployment's ConfigMap, the tick knows it.
Untouched ==
    /\ op.pc \in {"loaded", "save"} => (OwnedBy(cm, op.uid) \/ OwnedBy(seen, op.uid) => seen = cm)
    /\ op.pc \in {"get", "create", "replace"} => ~OwnedBy(cm, op.uid) /\ ~OwnedBy(seen, op.uid)
    /\ op.pc = "patch" => cm = op.got /\ OwnedBy(cm, op.uid)
    /\ op.pc \in {"written", "saved"} => cm = Created

\* What a tick in the middle of a Save may assume of the ConfigMap it holds, Seen or the result of
\* its Get (store.go): it is the one in the API server, unless somebody else touched that.
StoreInv == TypeOK /\ (~op.touched => Untouched)

\* A deployment with a policy has a memory of its own in the end: the ConfigMap of its dead
\* predecessor is replaced, and one that somebody deleted is created again, although Save skips
\* writes that would change nothing (store.go).
Remembered ==
    \A u \in Uid :
        (live.uid = u /\ live.policy) ~> (OwnedBy(cm, u) \/ live.uid # u \/ ~live.policy)
=============================================================================
