---------------------------- MODULE StoreProofs ----------------------------
(***************************************************************************)
(* The store implements MemorySpec, for any number of deployments, keys,   *)
(* values, faults and touches.                                             *)
(***************************************************************************)
EXTENDS Store, TLAPS

CM == ConfigMap \cup {None}

\* None is neither data nor a ConfigMap nor a UID.
LEMMA NoneIsNothing == None \notin Data /\ None \notin ConfigMap /\ None \notin Uid /\ 0 \notin Uid
BY StoreAssumption DEF Uid

\* A merge patch keeps the owner, and writes the data when it is made against the data in place.
LEMMA MergeType ==
    ASSUME NEW c \in ConfigMap, NEW base \in ConfigMap, NEW d \in Data
    PROVE  /\ Merge(c, base, d) \in ConfigMap
           /\ Merge(c, base, d).owner = c.owner
           /\ c = base => Merge(c, base, d).data = d
<1> DEFINE m == [k \in Keys |-> IF base.data[k] = d[k] THEN c.data[k] ELSE d[k]]
<1>1. c.data \in Data /\ base.data \in Data /\ c.owner \in Uid
  BY DEF ConfigMap
<1>2. m \in Data
  BY <1>1 DEF Data
<1>3. c = base => m = d
  BY <1>1 DEF Data
<1> HIDE DEF m
<1>4. [c EXCEPT !.data = m] \in ConfigMap
      /\ [c EXCEPT !.data = m].owner = c.owner /\ [c EXCEPT !.data = m].data = m
  BY <1>1, <1>2 DEF ConfigMap
<1>5. QED
  BY <1>3, <1>4 DEF Merge, m
----------------------------------------------------------------------------
(* The invariant *)

\* The invariant holds in the first state.
LEMMA StoreInit == Init => StoreInv
<1> SUFFICES ASSUME Init PROVE StoreInv
  OBVIOUS
<1>1. MaxUid \in Nat
  BY StoreAssumption
<1>2. live \in Deployment /\ cached \in Deployment /\ ~live.policy /\ ~cached.policy
  BY <1>1 DEF Init, Deployment
<1>3. op \in OpType /\ op.pc = "failed"
  BY DEF Init, OpType
<1>4. used \in [uids: 0..MaxUid, touches: Nat, faults: Nat]
  BY <1>1 DEF Init
<1>5. TypeOK
  BY <1>2, <1>3, <1>4 DEF Init, TypeOK, Saving
<1>6. Untouched
  BY <1>3 DEF Untouched
<1>7. QED
  BY <1>5, <1>6 DEF StoreInv

\* Load and Decide.
LEMMA LoadStep ==
    ASSUME StoreInv, Load \/ Decide
    PROVE  StoreInv'
<1>1. CASE Load
  <2>1. cached.uid \in Uid /\ cm \in CM
    BY <1>1 DEF Load, StoreInv, TypeOK, Deployment, Uid, CM
  <2> DEFINE f == IF OwnedBy(cm, cached.uid) THEN cm.data ELSE None
  <2>2. f \in Data \cup {None}
    BY <2>1 DEF OwnedBy, ConfigMap, CM
  <2> HIDE DEF f
  <2>3. op' = [pc |-> "loaded", uid |-> cached.uid, found |-> f, next |-> None, got |-> None,
               touched |-> FALSE]
        /\ seen' = cm /\ UNCHANGED <<live, cached, cm, used>>
    BY <1>1 DEF Load, f
  <2>4. op' \in OpType /\ op'.pc = "loaded" /\ op'.uid = cached.uid
    BY <2>1, <2>2, <2>3 DEF OpType
  <2>5. TypeOK'
    BY <2>1, <2>3, <2>4 DEF StoreInv, TypeOK, Saving, CM
  <2>6. Untouched'
    BY <2>3, <2>4 DEF Untouched
  <2>7. QED
    BY <2>5, <2>6 DEF StoreInv
<1>2. CASE Decide
  <2>1. PICK d \in Data : op' = [op EXCEPT !.pc = "save", !.next = d]
    BY <1>2 DEF Decide
  <2>2. op \in OpType /\ op.pc = "loaded" /\ UNCHANGED <<live, cached, cm, seen, used>>
    BY <1>2 DEF Decide, StoreInv, TypeOK
  <2>3. op' \in OpType /\ op'.pc = "save" /\ op'.uid = op.uid /\ op'.next = d
        /\ op'.touched = op.touched
    BY <2>1, <2>2 DEF OpType, Saving
  <2>4. TypeOK'
    BY <2>2, <2>3 DEF StoreInv, TypeOK, Saving
  <2>5. ~op'.touched => Untouched'
    BY <2>2, <2>3 DEF StoreInv, Untouched, OwnedBy
  <2>6. QED
    BY <2>4, <2>5 DEF StoreInv
<1>3. QED
  BY <1>1, <1>2

\* The steps of a Save.
LEMMA SaveStep ==
    ASSUME StoreInv, Save
    PROVE  StoreInv'
<1>1. op \in OpType /\ op.pc \in Saving /\ op.uid \in Uid /\ op.next \in Data /\ cm \in CM /\ seen \in CM
      /\ UNCHANGED <<live, cached, used>>
  BY DEF Save, SaveUnchanged, SaveSeen, SaveUnseen, SaveReads, SaveCreates, SaveReplaces,
         SavePatches, SaveReturns, StoreInv, TypeOK, Saving, CM
<1>2. Created \in ConfigMap /\ Created.owner = op.uid /\ Created.data = op.next
  BY <1>1 DEF Created, ConfigMap
<1>3. \A c \in ConfigMap : c.owner = op.uid /\ c.data = op.next => c = Created
  BY <1>1 DEF Created, ConfigMap
<1>4. None \notin ConfigMap
  BY NoneIsNothing
<1>5. CASE SaveUnchanged
  <2>1. op' \in OpType /\ op'.pc = "saved" /\ op'.uid = op.uid /\ op'.next = op.next
        /\ op'.touched = op.touched /\ UNCHANGED <<cm, seen>> /\ op.pc = "save"
    BY <1>1, <1>5 DEF SaveUnchanged, OpType
  <2>2. TypeOK'
    BY <1>1, <2>1 DEF StoreInv, TypeOK, Saving
  <2>3. ~op'.touched => cm' = Created'
    <3>1. SUFFICES ASSUME ~op.touched PROVE cm = Created
      BY <2>1 DEF Created
    <3>2. seen = cm /\ OwnedBy(seen, op.uid) /\ seen.data = op.next
      BY <1>5, <2>1, <3>1 DEF StoreInv, Untouched, SaveUnchanged
    <3>3. QED
      BY <1>1, <1>3, <3>2 DEF OwnedBy, CM
  <2>4. ~op'.touched => Untouched'
    BY <2>1, <2>3 DEF Untouched
  <2>5. QED
    BY <2>2, <2>4 DEF StoreInv
<1>6. CASE SaveSeen
  <2>1. op.pc = "save" /\ OwnedBy(seen, op.uid) /\ seen \in ConfigMap /\ seen.owner = op.uid
    BY <1>1, <1>6 DEF SaveSeen, OwnedBy, CM
  <2>2. CASE cm = None
    <3>1. op' \in OpType /\ op'.pc = "get" /\ op'.uid = op.uid /\ op'.next = op.next
          /\ op'.touched = op.touched /\ seen' = None /\ cm' = cm
      BY <1>1, <1>6, <2>2 DEF SaveSeen, OpType, Saving
    <3>2. TypeOK'
      BY <1>1, <3>1 DEF StoreInv, TypeOK, Saving
    <3>3. Untouched'
      BY <2>2, <3>1 DEF Untouched, OwnedBy
    <3>4. QED
      BY <3>2, <3>3 DEF StoreInv
  <2>3. CASE cm # None
    <3> DEFINE m == Merge(cm, seen, op.next)
    <3>1. cm \in ConfigMap /\ cm' = m /\ seen' = seen /\ op' = [op EXCEPT !.pc = "written", !.got = m]
      BY <1>1, <1>6, <2>3 DEF SaveSeen, CM
    <3>2. m \in ConfigMap /\ m.owner = cm.owner /\ (cm = seen => m.data = op.next)
      BY <1>1, <2>1, <3>1, MergeType
    <3> HIDE DEF m
    <3>3. op' \in OpType /\ op'.pc = "written" /\ op'.uid = op.uid /\ op'.next = op.next
          /\ op'.touched = op.touched /\ op'.got = m
      BY <1>1, <3>1, <3>2 DEF OpType, Saving
    <3>4. TypeOK'
      BY <1>1, <3>1, <3>2, <3>3 DEF StoreInv, TypeOK, Saving
    <3>5. ~op'.touched => cm' = Created'
      <4>1. SUFFICES ASSUME ~op.touched PROVE m = Created
        BY <3>1, <3>3 DEF Created
      <4>2. seen = cm
        BY <2>1, <4>1 DEF StoreInv, Untouched
      <4>3. QED
        BY <1>3, <2>1, <3>2, <4>2
    <3>6. ~op'.touched => Untouched'
      BY <3>3, <3>5 DEF Untouched
    <3>7. QED
      BY <3>4, <3>6 DEF StoreInv
  <2>4. QED
    BY <2>2, <2>3
<1>7. CASE SaveUnseen
  <2>1. op' \in OpType /\ op'.pc = "get" /\ op'.uid = op.uid /\ op'.next = op.next
        /\ op'.touched = op.touched /\ UNCHANGED <<cm, seen>>
    BY <1>1, <1>7 DEF SaveUnseen, OpType, Saving
  <2>2. op.pc = "save" /\ ~OwnedBy(seen, op.uid)
    BY <1>7 DEF SaveUnseen
  <2>3. TypeOK'
    BY <1>1, <2>1 DEF StoreInv, TypeOK, Saving
  <2>4. ~op'.touched => Untouched'
    BY <2>1, <2>2 DEF StoreInv, Untouched, OwnedBy
  <2>5. QED
    BY <2>3, <2>4 DEF StoreInv
<1>8. CASE SaveReads
  <2> DEFINE pc == IF cm = None THEN "create"
                   ELSE IF ~OwnedBy(cm, op.uid) THEN "replace"
                   ELSE IF cm.data = op.next THEN "saved"
                   ELSE "patch"
  <2>1. op.pc = "get" /\ op' = [op EXCEPT !.got = cm, !.pc = pc] /\ UNCHANGED <<cm, seen>>
    BY <1>8 DEF SaveReads
  <2>2. /\ pc \in {"create", "replace", "saved", "patch"}
        /\ pc = "create" => cm = None
        /\ pc = "replace" => ~OwnedBy(cm, op.uid)
        /\ pc \in {"saved", "patch"} => OwnedBy(cm, op.uid) /\ cm \in ConfigMap
    BY <1>1 DEF CM
  <2> HIDE DEF pc
  <2>3. op' \in OpType /\ op'.pc = pc /\ op'.got = cm /\ op'.uid = op.uid /\ op'.next = op.next
        /\ op'.touched = op.touched
    BY <1>1, <2>1, <2>2 DEF OpType, Saving, CM
  <2>4. TypeOK'
    BY <1>1, <2>1, <2>2, <2>3 DEF StoreInv, TypeOK, Saving
  <2>5. ~op'.touched => Untouched'
    <3>1. SUFFICES ASSUME ~op.touched PROVE Untouched'
      BY <2>3
    <3>2. ~OwnedBy(cm, op.uid) /\ ~OwnedBy(seen, op.uid)
      BY <2>1, <3>1 DEF StoreInv, Untouched
    <3>3. pc \in {"create", "replace"}
      BY <2>2, <3>2
    <3>4. QED
      BY <2>1, <2>3, <3>2, <3>3 DEF Untouched, OwnedBy
  <2>6. QED
    BY <2>4, <2>5 DEF StoreInv
<1>9. CASE SaveCreates
  <2>1. CASE cm = None
    <3>1. op' \in OpType /\ op'.pc = "written" /\ op'.uid = op.uid /\ op'.next = op.next
          /\ op'.touched = op.touched /\ op'.got = Created /\ cm' = Created /\ seen' = seen
      BY <1>1, <1>2, <1>9, <2>1 DEF SaveCreates, OpType, Saving
    <3>2. TypeOK'
      BY <1>1, <1>2, <3>1 DEF StoreInv, TypeOK, Saving
    <3>3. cm' = Created'
      BY <3>1 DEF Created
    <3>4. Untouched'
      BY <3>1, <3>3 DEF Untouched
    <3>5. QED
      BY <3>2, <3>4 DEF StoreInv
  <2>2. CASE cm # None
    <3>1. op' \in OpType /\ op'.pc = "failed" /\ UNCHANGED <<cm, seen>>
      BY <1>1, <1>9, <2>2 DEF SaveCreates, Fails, OpType
    <3>2. QED
      BY <1>1, <3>1 DEF StoreInv, TypeOK, Saving, Untouched
  <2>3. QED
    BY <2>1, <2>2
<1>10. CASE SaveReplaces
  <2> DEFINE t == op.touched \/ OwnedBy(cm, op.uid)
  <2>1. op.pc = "replace" /\ cm' = None /\ seen' = seen
        /\ op' = [op EXCEPT !.pc = "save", !.got = None, !.touched = t]
    BY <1>10 DEF SaveReplaces
  <2>2. t \in BOOLEAN
    BY <1>1 DEF OpType, OwnedBy
  <2>3. ~t => ~op.touched
    OBVIOUS
  <2> HIDE DEF t
  <2>4. op' \in OpType /\ op'.pc = "save" /\ op'.uid = op.uid /\ op'.next = op.next /\ op'.touched = t
    BY <1>1, <2>1, <2>2 DEF OpType, Saving
  <2>5. TypeOK'
    BY <1>1, <2>1, <2>4 DEF StoreInv, TypeOK, Saving
  <2>6. ~op'.touched => Untouched'
    <3>1. SUFFICES ASSUME ~op.touched PROVE Untouched'
      BY <2>3, <2>4
    <3>2. ~OwnedBy(seen, op.uid)
      BY <2>1, <3>1 DEF StoreInv, Untouched
    <3>3. QED
      BY <2>1, <2>4, <3>2 DEF Untouched, OwnedBy
  <2>7. QED
    BY <2>5, <2>6 DEF StoreInv
<1>11. CASE SavePatches
  <2>1. op.pc = "patch" /\ op.got \in ConfigMap /\ seen' = seen
    BY <1>11 DEF SavePatches, StoreInv, TypeOK
  <2>2. CASE cm = None
    <3>1. op' \in OpType /\ op'.pc = "failed" /\ cm' = cm
      BY <1>1, <1>11, <2>2 DEF SavePatches, Fails, OpType
    <3>2. QED
      BY <1>1, <2>1, <3>1 DEF StoreInv, TypeOK, Saving, Untouched
  <2>3. CASE cm # None
    <3> DEFINE m == Merge(cm, op.got, op.next)
    <3>1. cm \in ConfigMap /\ cm' = m /\ op' = [op EXCEPT !.pc = "written", !.got = m]
      BY <1>1, <1>11, <2>3 DEF SavePatches, CM
    <3>2. m \in ConfigMap /\ m.owner = cm.owner /\ (cm = op.got => m.data = op.next)
      BY <1>1, <2>1, <3>1, MergeType
    <3> HIDE DEF m
    <3>3. op' \in OpType /\ op'.pc = "written" /\ op'.uid = op.uid /\ op'.next = op.next
          /\ op'.touched = op.touched /\ op'.got = m
      BY <1>1, <3>1, <3>2 DEF OpType, Saving
    <3>4. TypeOK'
      BY <1>1, <2>1, <3>1, <3>2, <3>3 DEF StoreInv, TypeOK, Saving
    <3>5. ~op'.touched => cm' = Created'
      <4>1. SUFFICES ASSUME ~op.touched PROVE m = Created
        BY <3>1, <3>3 DEF Created
      <4>2. cm = op.got /\ OwnedBy(cm, op.uid)
        BY <2>1, <4>1 DEF StoreInv, Untouched
      <4>3. QED
        BY <1>3, <3>2, <4>2 DEF OwnedBy
    <3>6. ~op'.touched => Untouched'
      BY <3>3, <3>5 DEF Untouched
    <3>7. QED
      BY <3>4, <3>6 DEF StoreInv
  <2>4. QED
    BY <2>2, <2>3
<1>12. CASE SaveReturns
  <2>1. op.pc = "written" /\ op.got \in ConfigMap /\ seen' = op.got /\ cm' = cm
    BY <1>12 DEF SaveReturns, StoreInv, TypeOK
  <2>2. op' \in OpType /\ op'.pc = "saved" /\ op'.uid = op.uid /\ op'.next = op.next
        /\ op'.touched = op.touched
    BY <1>1, <1>12 DEF SaveReturns, OpType
  <2>3. TypeOK'
    BY <1>1, <2>1, <2>2 DEF StoreInv, TypeOK, Saving
  <2>4. ~op'.touched => cm' = Created'
    BY <2>1, <2>2 DEF StoreInv, Untouched, Created
  <2>5. ~op'.touched => Untouched'
    BY <2>2, <2>4 DEF Untouched
  <2>6. QED
    BY <2>3, <2>5 DEF StoreInv
<1>13. QED
  BY <1>5, <1>6, <1>7, <1>8, <1>9, <1>10, <1>11, <1>12 DEF Save

\* Delete and Forget, and the ticks that fail.
LEMMA EndStep ==
    ASSUME StoreInv, Delete \/ DeleteFails \/ Forget \/ CallFails \/ ProcessRestarts
    PROVE  StoreInv'
<1> DEFINE U == [uids: 0..MaxUid, touches: Nat, faults: Nat]
<1>1. op \in OpType /\ cm \in CM /\ seen \in CM /\ used \in U /\ UNCHANGED <<live, cached>>
  BY DEF StoreInv, TypeOK, CM, Delete, DeleteFails, Forget, CallFails, ProcessRestarts
<1>2. Fault => used' \in U
  BY <1>1 DEF Fault
<1>3. CASE Delete
  <2> DEFINE t == op.touched \/ OwnedBy(cm, op.uid)
  <2>1. op.pc \in {"saved", "failed"} /\ seen' = None /\ cm' = None /\ used' = used
        /\ op' = [op EXCEPT !.touched = t]
    BY <1>3 DEF Delete, Over
  <2>2. t \in BOOLEAN
    BY <1>1 DEF OpType, OwnedBy
  <2>3. ~t /\ op.pc = "saved" => ~op.touched /\ ~OwnedBy(cm, op.uid)
    OBVIOUS
  <2> HIDE DEF t
  <2>4. op' \in OpType /\ op'.pc = op.pc /\ op'.uid = op.uid /\ op'.next = op.next /\ op'.touched = t
    BY <1>1, <2>1, <2>2 DEF OpType
  <2>5. TypeOK'
    BY <1>1, <2>1, <2>4 DEF StoreInv, TypeOK, Saving
  <2>6. ~op'.touched => op'.pc # "saved"
    <3>1. SUFFICES ASSUME ~t, op.pc = "saved" PROVE FALSE
      BY <2>4
    <3>2. cm = Created /\ op.uid \in Uid /\ op.next \in Data
      BY <2>3, <3>1 DEF StoreInv, Untouched, TypeOK
    <3>3. OwnedBy(cm, op.uid)
      BY <3>2, NoneIsNothing DEF Created, ConfigMap, OwnedBy
    <3>4. QED
      BY <2>3, <3>1, <3>3
  <2>7. ~op'.touched => Untouched'
    BY <2>1, <2>4, <2>6 DEF Untouched
  <2>8. QED
    BY <2>5, <2>7 DEF StoreInv
<1>4. CASE DeleteFails \/ Forget
  <2>1. op.pc \in {"saved", "failed"} /\ seen' = None /\ used' \in U /\ UNCHANGED <<cm, op>>
    BY <1>1, <1>2, <1>4 DEF DeleteFails, Forget, Over
  <2>2. TypeOK'
    BY <1>1, <2>1 DEF StoreInv, TypeOK, Saving
  <2>3. ~op'.touched => Untouched'
    BY <2>1 DEF StoreInv, Untouched, Created
  <2>4. QED
    BY <2>2, <2>3 DEF StoreInv
<1>5. CASE CallFails
  <2>1. op' \in OpType /\ op'.pc = "failed" /\ used' \in U /\ UNCHANGED <<cm, seen>>
    BY <1>1, <1>2, <1>5 DEF CallFails, Fails, OpType
  <2>2. QED
    BY <1>1, <2>1 DEF StoreInv, TypeOK, Saving, Untouched
<1>6. CASE ProcessRestarts
  <2>1. used' \in U /\ seen' = None /\ cm' = cm
    BY <1>2, <1>6 DEF ProcessRestarts
  <2>2. CASE Over
    <3>1. op' = op /\ op.pc \in {"saved", "failed"}
      BY <1>6, <2>2 DEF ProcessRestarts, Over
    <3>2. TypeOK'
      BY <1>1, <2>1, <3>1 DEF StoreInv, TypeOK, Saving
    <3>3. ~op'.touched => Untouched'
      BY <2>1, <3>1 DEF StoreInv, Untouched, Created
    <3>4. QED
      BY <3>2, <3>3 DEF StoreInv
  <2>3. CASE ~Over
    <3>1. op' \in OpType /\ op'.pc = "failed"
      BY <1>1, <1>6, <2>3 DEF ProcessRestarts, OpType
    <3>2. QED
      BY <1>1, <2>1, <3>1 DEF StoreInv, TypeOK, Saving, Untouched
  <2>4. QED
    BY <2>2, <2>3
<1>7. QED
  BY <1>3, <1>4, <1>5, <1>6

\* Deployments and the informer leave ConfigMap and tick alone.
LEMMA DeploymentStep ==
    ASSUME StoreInv, CreateDeployment \/ DeleteDeployment \/ RemovePolicy \/ Inform
    PROVE  StoreInv'
<1>1. UNCHANGED <<cm, seen, op>>
  BY DEF CreateDeployment, DeleteDeployment, RemovePolicy, Inform
<1>2. MaxUid \in Nat /\ used.uids \in 0..MaxUid
  BY StoreAssumption DEF StoreInv, TypeOK
<1>3. /\ live' \in Deployment /\ (live'.policy => live'.uid # 0)
      /\ cached' \in Deployment /\ (cached'.policy => cached'.uid # 0)
  <2>1. live \in Deployment /\ cached \in Deployment
        /\ (live.policy => live.uid # 0) /\ (cached.policy => cached.uid # 0)
    BY DEF StoreInv, TypeOK
  <2>2. CASE CreateDeployment
    <3>1. PICK n \in 0..MaxUid, t \in BOOLEAN : n = used.uids + 1 /\ t = TRUE /\ n # 0
      <4>1. used.uids + 1 \in 0..MaxUid /\ used.uids + 1 # 0
        BY <1>2, <2>2 DEF CreateDeployment
      <4>2. TRUE \in BOOLEAN
        OBVIOUS
      <4>3. QED
        BY <4>1, <4>2
    <3>2. live' = [uid |-> n, policy |-> t] /\ cached' = cached
      BY <2>2, <3>1 DEF CreateDeployment
    <3>3. live' \in Deployment /\ live'.uid # 0
      BY <3>1, <3>2 DEF Deployment
    <3>4. QED
      BY <2>1, <3>2, <3>3
  <2>3. CASE DeleteDeployment
    BY <1>2, <2>1, <2>3 DEF DeleteDeployment, Deployment
  <2>4. CASE RemovePolicy
    BY <2>1, <2>4 DEF RemovePolicy, Deployment
  <2>5. CASE Inform
    BY <2>1, <2>5 DEF Inform
  <2>6. QED
    BY <2>2, <2>3, <2>4, <2>5
<1>4. used' \in [uids: 0..MaxUid, touches: Nat, faults: Nat]
  BY <1>2 DEF CreateDeployment, DeleteDeployment, RemovePolicy, Inform, StoreInv, TypeOK
<1>5. TypeOK'
  BY <1>1, <1>3, <1>4 DEF StoreInv, TypeOK
<1>6. ~op'.touched => Untouched'
  BY <1>1 DEF StoreInv, Untouched, Created, OwnedBy
<1>7. QED
  BY <1>5, <1>6 DEF StoreInv

\* What somebody else may make of the ConfigMap.
LEMMA TouchBecomes ==
    ASSUME StoreInv, CollectGarbage \/ HumanDeletes \/ HumanEdits \/ HumanRestores
    PROVE  /\ \E c \in CM : Becomes(c) /\ (c # None /\ cm # None => c.owner = cm.owner)
           /\ used' \in [uids: 0..MaxUid, touches: Nat, faults: Nat]
<1>1. cm \in CM /\ used \in [uids: 0..MaxUid, touches: Nat, faults: Nat] /\ live.uid \in 0..MaxUid
  BY DEF StoreInv, TypeOK, CM, Deployment
<1>2. used' \in [uids: 0..MaxUid, touches: Nat, faults: Nat]
  BY <1>1 DEF CollectGarbage, HumanDeletes, HumanEdits, HumanRestores, Touch
<1>3. CASE CollectGarbage \/ HumanDeletes
  BY <1>2, <1>3 DEF CollectGarbage, HumanDeletes, CM
<1>4. CASE HumanEdits
  <2>1. PICK d \in Data : Becomes([cm EXCEPT !.data = d])
    BY <1>4 DEF HumanEdits
  <2>2. cm \in ConfigMap
    BY <1>1, <1>4 DEF HumanEdits, CM
  <2>3. [cm EXCEPT !.data = d] \in ConfigMap /\ [cm EXCEPT !.data = d].owner = cm.owner
    BY <2>2 DEF ConfigMap
  <2>4. QED
    BY <1>2, <2>1, <2>3 DEF CM
<1>5. CASE HumanRestores
  <2>1. PICK d \in Data : Becomes([owner |-> live.uid, data |-> d])
    BY <1>5 DEF HumanRestores
  <2>2. [owner |-> live.uid, data |-> d] \in ConfigMap /\ cm = None
    BY <1>1, <1>5 DEF HumanRestores, ConfigMap, Uid
  <2>3. QED
    BY <1>2, <2>1, <2>2 DEF CM
<1>6. QED
  BY <1>3, <1>4, <1>5

\* Somebody else's write of the ConfigMap is noted or concerns another deployment.
LEMMA TouchStep ==
    ASSUME StoreInv, CollectGarbage \/ HumanDeletes \/ HumanEdits \/ HumanRestores
    PROVE  StoreInv'
<1>1. used' \in [uids: 0..MaxUid, touches: Nat, faults: Nat]
  BY TouchBecomes
<1>2. PICK c \in CM : Becomes(c)
  BY TouchBecomes
<1> DEFINE t == op.touched \/ OwnedBy(cm, op.uid) \/ OwnedBy(c, op.uid)
<1>3. op \in OpType /\ op' = [op EXCEPT !.touched = t] /\ cm' = c /\ UNCHANGED <<live, cached, seen>>
  BY <1>2 DEF Becomes, StoreInv, TypeOK
<1>4. t \in BOOLEAN
  BY <1>3 DEF OpType, OwnedBy
<1>5. ~t => ~op.touched /\ ~OwnedBy(cm, op.uid) /\ ~OwnedBy(c, op.uid)
  OBVIOUS
<1> HIDE DEF t
<1>6. op' \in OpType /\ op'.pc = op.pc /\ op'.uid = op.uid /\ op'.next = op.next /\ op'.got = op.got
      /\ op'.touched = t
  BY <1>3, <1>4 DEF OpType
<1>7. TypeOK'
  BY <1>1, <1>3, <1>6 DEF StoreInv, TypeOK, CM
<1>8. ~op'.touched => Untouched'
  <2>1. SUFFICES ASSUME ~t PROVE Untouched'
    BY <1>6
  <2>2. Untouched /\ ~OwnedBy(cm, op.uid) /\ ~OwnedBy(c, op.uid)
    BY <1>5, <2>1 DEF StoreInv
  <2>3. op.pc \notin {"written", "saved"}
    <3>1. SUFFICES ASSUME op.pc \in {"written", "saved"} PROVE FALSE
      OBVIOUS
    <3>2. cm = Created /\ op.uid \in Uid /\ op.next \in Data
      BY <2>2, <3>1 DEF StoreInv, Untouched, TypeOK, Saving
    <3>3. OwnedBy(cm, op.uid)
      BY <3>2, NoneIsNothing DEF Created, ConfigMap, OwnedBy
    <3>4. QED
      BY <2>2, <3>3
  <2>4. op.pc # "patch"
    BY <2>2 DEF Untouched
  <2>5. op.pc \in {"loaded", "save"} => ~OwnedBy(seen, op.uid)
    BY <2>2 DEF Untouched
  <2>6. QED
    BY <1>3, <1>6, <2>2, <2>3, <2>4, <2>5 DEF Untouched, OwnedBy
<1>9. QED
  BY <1>7, <1>8 DEF StoreInv

\* The store's invariant: what a tick holds is what is in the API server, unless somebody else
\* touched it (Seen, store.go).
THEOREM StoreInvariant == Spec => []StoreInv
<1>1. StoreInv /\ [Next]_vars => StoreInv'
  <2> SUFFICES ASSUME StoreInv, [Next]_vars PROVE StoreInv'
    OBVIOUS
  <2>1. CASE UNCHANGED vars
    BY <2>1 DEF vars, StoreInv, TypeOK, Untouched, Created, OwnedBy
  <2>2. CASE Next
    BY <2>2, LoadStep, SaveStep, EndStep, DeploymentStep, TouchStep DEF Next, Tick, Others
  <2>3. QED
    BY <2>1, <2>2
<1>2. QED
  BY <1>1, StoreInit, PTL DEF Spec
----------------------------------------------------------------------------
(* Refinement *)

\* A ConfigMap that does not change changes no memory.
LEMMA MemorySame == ASSUME UNCHANGED cm PROVE UNCHANGED MemoryOf
BY DEF MemoryOf, OwnedBy

\* A ConfigMap written, or created where there was none, changes its owner's memory.
LEMMA MemoryWritten ==
    ASSUME cm \in CM, cm' \in ConfigMap, cm # None => cm.owner = cm'.owner
    PROVE  /\ cm'.owner \in Uid /\ cm'.data \in Data
           /\ MemoryOf' = [MemoryOf EXCEPT ![cm'.owner] = cm'.data]
<1>1. cm'.owner \in Uid /\ cm'.data \in Data
  BY DEF ConfigMap
<1>2. cm' # None
  BY NoneIsNothing
<1>3. \A u \in Uid : MemoryOf'[u] = IF u = cm'.owner THEN cm'.data ELSE MemoryOf[u]
  BY <1>2 DEF MemoryOf, OwnedBy
<1>4. QED
  BY <1>1, <1>3 DEF MemoryOf

\* A ConfigMap that goes takes its owner's memory with it.
LEMMA MemoryGone ==
    ASSUME cm \in ConfigMap, cm' = None
    PROVE  cm.owner \in Uid /\ MemoryOf' = [MemoryOf EXCEPT ![cm.owner] = None]
<1>1. cm.owner \in Uid
  BY DEF ConfigMap
<1>2. cm # None
  BY NoneIsNothing
<1>3. \A u \in Uid : MemoryOf'[u] = IF u = cm.owner THEN None ELSE MemoryOf[u]
  BY <1>2 DEF MemoryOf, OwnedBy
<1>4. QED
  BY <1>1, <1>3 DEF MemoryOf

\* The first state of the store is one of the contract.
LEMMA RefineInit == Init => Abstract!Init
<1> SUFFICES ASSUME Init PROVE Abstract!Init
  OBVIOUS
<1>1. MemoryOf = [u \in Uid |-> None]
  BY DEF Init, MemoryOf, OwnedBy
<1>2. Progress = [pc |-> "failed", uid |-> None, found |-> None, next |-> None, touched |-> FALSE]
  BY DEF Init, Progress, Saving
<1>3. QED
  BY <1>1, <1>2 DEF Abstract!Init, Init

\* The fields of the tick the contract speaks of.
LEMMA ProgressFields ==
    /\ Progress.pc = IF op.pc \in Saving THEN "saving" ELSE op.pc
    /\ Progress.uid = op.uid /\ Progress.found = op.found /\ Progress.next = op.next
    /\ Progress.touched = op.touched
BY DEF Progress

\* A touch is all the contract sees of a step that keeps the tick where it is.
LEMMA ProgressTouched ==
    ASSUME NEW b \in BOOLEAN, op.touched \in BOOLEAN, op'.touched = (op.touched \/ b),
           op'.uid = op.uid, op'.found = op.found, op'.next = op.next,
           op'.pc = op.pc \/ (op.pc \in Saving /\ op'.pc \in Saving)
    PROVE  Progress' = [Progress EXCEPT !.touched = @ \/ b]
<1>1. PICK t \in BOOLEAN : t = (op.touched \/ b)
  OBVIOUS
<1>2. op'.touched = t
  BY <1>1
<1>3. Progress' = [Progress EXCEPT !.touched = t]
  BY <1>2 DEF Progress
<1>4. Progress.touched = op.touched
  BY ProgressFields
<1>5. QED
  BY <1>1, <1>3, <1>4

\* Load and Decide are steps of the contract.
LEMMA RefineLoad ==
    ASSUME StoreInv, Load \/ Decide
    PROVE  Abstract!Next
<1>1. CASE Load
  <2>1. cached.uid \in Uid
    BY <1>1 DEF Load, StoreInv, TypeOK, Deployment, Uid
  <2>2. MemoryOf[cached.uid] = IF OwnedBy(cm, cached.uid) THEN cm.data ELSE None
    BY <2>1 DEF MemoryOf
  <2>3. Progress.pc \in {"saved", "failed"}
    BY <1>1, ProgressFields DEF Load, Over, Saving
  <2>4. Progress' = [pc |-> "loaded", uid |-> cached.uid, found |-> MemoryOf[cached.uid],
                     next |-> None, touched |-> FALSE]
    BY <1>1, <2>2 DEF Load, Progress, Saving
  <2>5. UNCHANGED <<MemoryOf, used>>
    BY <1>1, MemorySame DEF Load
  <2>6. Abstract!Load(cached.uid)
    BY <2>3, <2>4, <2>5 DEF Abstract!Load, Abstract!Over
  <2>7. QED
    BY <2>1, <2>6 DEF Abstract!Next
<1>2. CASE Decide
  <2>1. PICK d \in Data : op' = [op EXCEPT !.pc = "save", !.next = d]
    BY <1>2 DEF Decide
  <2>2. op \in OpType /\ op.pc = "loaded" /\ UNCHANGED <<cm, used>>
    BY <1>2 DEF Decide, StoreInv, TypeOK
  <2>3. Progress.pc = "loaded"
    BY <2>2, ProgressFields DEF Saving
  <2>4. Progress' = [Progress EXCEPT !.pc = "saving", !.next = d]
    <3>1. op'.pc = "save" /\ op'.uid = op.uid /\ op'.found = op.found /\ op'.next = d
          /\ op'.touched = op.touched
      BY <2>1, <2>2 DEF OpType
    <3>2. Progress' = [pc |-> "saving", uid |-> op.uid, found |-> op.found, next |-> d,
                       touched |-> op.touched]
      BY <3>1 DEF Progress, Saving
    <3>3. Progress = [pc |-> "loaded", uid |-> op.uid, found |-> op.found, next |-> op.next,
                      touched |-> op.touched]
      BY <2>2 DEF Progress, Saving
    <3> DEFINE sav == [Progress EXCEPT !.pc = "saving"]
    <3>4. sav = [pc |-> "saving", uid |-> op.uid, found |-> op.found, next |-> op.next,
                 touched |-> op.touched]
      BY <3>3
    <3>5. [sav EXCEPT !.next = d] = Progress'
      <4> HIDE DEF sav
      <4> QED
        BY ONLY <3>2, <3>4
    <3>6. QED
      BY ONLY <3>5, Zenon
  <2>5. Abstract!Decide(d)
    BY <2>2, <2>3, <2>4, MemorySame DEF Abstract!Decide
  <2>6. QED
    BY <2>5 DEF Abstract!Next
<1>3. QED
  BY <1>1, <1>2

\* The steps inside a Save leave the tick saving; a step that ends it well has written.
LEMMA RefineSave ==
    ASSUME StoreInv, Save
    PROVE  Abstract!Next \/ UNCHANGED Abstract!vars
<1>1. op \in OpType /\ op.pc \in Saving /\ op.uid \in Uid /\ op.next \in Data /\ cm \in CM /\ seen \in CM
      /\ used' = used
  BY DEF Save, SaveUnchanged, SaveSeen, SaveUnseen, SaveReads, SaveCreates, SaveReplaces,
         SavePatches, SaveReturns, StoreInv, TypeOK, Saving, CM
<1>2. Progress.pc = "saving" /\ Progress.uid = op.uid /\ Progress.next = op.next
      /\ Progress.touched = op.touched
  BY <1>1, ProgressFields
<1>3. ASSUME op'.pc \in Saving, op'.uid = op.uid, op'.found = op.found, op'.next = op.next,
             op'.touched = op.touched
      PROVE  Progress' = Progress
  BY <1>1, <1>3 DEF Progress
<1>4. ASSUME op'.pc \in Saving, op'.uid = op.uid, op'.found = op.found, op'.next = op.next,
             op'.touched = op.touched, cm' = cm
      PROVE  UNCHANGED Abstract!vars
  BY <1>1, <1>3, <1>4, MemorySame DEF Abstract!vars
<1>5. ASSUME op'.pc = "saved", op'.uid = op.uid, op'.found = op.found, op'.next = op.next,
             op'.touched = op.touched, cm' = cm,
             ~op.touched => OwnedBy(cm, op.uid) /\ cm.data = op.next
      PROVE  Abstract!Next
  <2>1. Progress' = [Progress EXCEPT !.pc = "saved"]
    BY <1>1, <1>5 DEF Progress, Saving
  <2>2. MemoryOf[op.uid] = op.next \/ op.touched
    BY <1>1, <1>5 DEF MemoryOf
  <2>3. Abstract!Succeed
    BY <1>1, <1>2, <1>5, <2>1, <2>2, MemorySame DEF Abstract!Succeed
  <2>4. QED
    BY <2>3 DEF Abstract!Next
<1>6. ASSUME op'.pc = "failed", op'.uid = op.uid, op'.found = op.found, op'.next = op.next,
             op'.touched = op.touched, cm' = cm
      PROVE  Abstract!Next
  <2>1. Progress' = [Progress EXCEPT !.pc = "failed"]
    BY <1>1, <1>6 DEF Progress, Saving
  <2>2. Abstract!Fail
    BY <1>1, <1>2, <1>6, <2>1, MemorySame DEF Abstract!Fail, Abstract!Over
  <2>3. QED
    BY <2>2 DEF Abstract!Next
<1>7. ASSUME op'.pc = "written", op'.uid = op.uid, op'.found = op.found, op'.next = op.next,
             op'.touched = op.touched, cm' \in ConfigMap, cm # None => cm.owner = cm'.owner,
             ~op.touched => cm' = Created
      PROVE  Abstract!Next
  <2>1. Progress' = Progress
    BY <1>3, <1>7 DEF Saving
  <2>2. cm'.owner \in Uid /\ cm'.data \in Data /\ MemoryOf' = [MemoryOf EXCEPT ![cm'.owner] = cm'.data]
    BY <1>1, <1>7, MemoryWritten
  <2>3. op.touched \/ (cm'.owner = op.uid /\ cm'.data = op.next)
    BY <1>7 DEF Created
  <2>4. Abstract!Write(cm'.owner, cm'.data)
    BY <1>1, <1>2, <2>1, <2>2, <2>3 DEF Abstract!Write
  <2>5. QED
    BY <2>2, <2>4 DEF Abstract!Next
<1>8. StoreInv'
  BY SaveStep
<1>9. CASE SaveUnchanged
  <2>1. op' = [op EXCEPT !.pc = "saved"] /\ cm' = cm /\ op.pc = "save"
        /\ OwnedBy(seen, op.uid) /\ seen.data = op.next
    BY <1>9 DEF SaveUnchanged
  <2>2. ~op.touched => seen = cm
    BY <2>1 DEF StoreInv, Untouched
  <2>3. op'.pc = "saved" /\ op'.uid = op.uid /\ op'.found = op.found /\ op'.next = op.next
        /\ op'.touched = op.touched
    BY <1>1, <2>1 DEF OpType
  <2>4. QED
    BY <1>5, <2>1, <2>2, <2>3
<1>10. CASE SaveSeen
  <2>1. CASE cm = None
    <3>1. op' = [op EXCEPT !.pc = "get"] /\ cm' = cm
      BY <1>10, <2>1 DEF SaveSeen
    <3>2. QED
      BY <1>1, <1>4, <3>1 DEF OpType, Saving
  <2>2. CASE cm # None
    <3>1. cm \in ConfigMap /\ seen \in ConfigMap /\ cm' = Merge(cm, seen, op.next)
          /\ op' = [op EXCEPT !.pc = "written", !.got = cm']
      BY <1>1, <1>10, <2>2 DEF SaveSeen, CM, OwnedBy
    <3>2. cm' \in ConfigMap /\ cm'.owner = cm.owner
      BY <1>1, <3>1, MergeType
    <3>3. op'.pc = "written" /\ op'.uid = op.uid /\ op'.found = op.found /\ op'.next = op.next
          /\ op'.touched = op.touched
      BY <1>1, <3>1 DEF OpType
    <3>4. ~op.touched => cm' = Created
      BY <1>8, <3>3 DEF StoreInv, Untouched, Created
    <3>5. QED
      BY <1>7, <3>2, <3>3, <3>4
  <2>3. QED
    BY <2>1, <2>2
<1>11. CASE SaveUnseen
  <2>1. op' = [op EXCEPT !.pc = "get"] /\ cm' = cm
    BY <1>11 DEF SaveUnseen
  <2>2. QED
    BY <1>1, <1>4, <2>1 DEF OpType, Saving
<1>12. CASE SaveReads
  <2> DEFINE pc == IF cm = None THEN "create"
                   ELSE IF ~OwnedBy(cm, op.uid) THEN "replace"
                   ELSE IF cm.data = op.next THEN "saved"
                   ELSE "patch"
  <2>1. op' = [op EXCEPT !.got = cm, !.pc = pc] /\ cm' = cm
    BY <1>12 DEF SaveReads
  <2>2. pc \in Saving \/ (pc = "saved" /\ OwnedBy(cm, op.uid) /\ cm.data = op.next)
    BY DEF Saving
  <2> HIDE DEF pc
  <2>3. op'.pc = pc /\ op'.uid = op.uid /\ op'.found = op.found /\ op'.next = op.next
        /\ op'.touched = op.touched
    BY <1>1, <2>1 DEF OpType
  <2>4. QED
    BY <1>4, <1>5, <2>1, <2>2, <2>3
<1>13. CASE SaveCreates
  <2>1. CASE cm = None
    <3>1. op' = [op EXCEPT !.pc = "written", !.got = Created] /\ cm' = Created
      BY <1>13, <2>1 DEF SaveCreates
    <3>2. Created \in ConfigMap
      BY <1>1 DEF Created, ConfigMap
    <3>3. op'.pc = "written" /\ op'.uid = op.uid /\ op'.found = op.found /\ op'.next = op.next
          /\ op'.touched = op.touched
      BY <1>1, <3>1 DEF OpType
    <3>4. QED
      BY <1>7, <2>1, <3>1, <3>2, <3>3
  <2>2. CASE cm # None
    <3>1. op' = [op EXCEPT !.pc = "failed", !.got = None] /\ cm' = cm
      BY <1>13, <2>2 DEF SaveCreates, Fails
    <3>2. QED
      BY <1>1, <1>6, <3>1 DEF OpType
  <2>3. QED
    BY <2>1, <2>2
<1>14. CASE SaveReplaces
  <2>1. op' = [op EXCEPT !.pc = "save", !.got = None, !.touched = op.touched \/ OwnedBy(cm, op.uid)]
        /\ cm' = None
    BY <1>14 DEF SaveReplaces
  <2>2. CASE cm = None
    <3>1. op'.touched = op.touched
      BY <1>1, <2>1, <2>2 DEF OpType, OwnedBy
    <3>2. QED
      BY <1>1, <1>4, <2>1, <2>2, <3>1 DEF OpType, Saving
  <2>3. CASE cm # None
    <3>1. cm \in ConfigMap
      BY <1>1, <2>3 DEF CM
    <3>2. OwnedBy(cm, op.uid) = (cm.owner = op.uid)
      BY <2>3 DEF OwnedBy
    <3>3. Progress' = [Progress EXCEPT !.touched = @ \/ cm.owner = op.uid]
      <4>1. op' = [op EXCEPT !.pc = "save", !.got = None, !.touched = op.touched \/ cm.owner = op.uid]
        BY <2>1, <3>2
      <4>2. op.touched \in BOOLEAN /\ op'.touched = (op.touched \/ cm.owner = op.uid)
            /\ op'.uid = op.uid /\ op'.found = op.found /\ op'.next = op.next /\ op'.pc \in Saving
        BY <1>1, <4>1 DEF OpType, Saving
      <4>3. QED
        BY <1>1, <4>2, ProgressTouched
    <3>4. cm.owner \in Uid /\ MemoryOf' = [MemoryOf EXCEPT ![cm.owner] = None]
      BY <2>1, <3>1, MemoryGone
    <3>5. Abstract!Discard(cm.owner)
      BY <1>1, <1>2, <3>3, <3>4 DEF Abstract!Discard, Abstract!Changed
    <3>6. QED
      BY <3>4, <3>5 DEF Abstract!Next
  <2>4. QED
    BY <2>2, <2>3
<1>15. CASE SavePatches
  <2>1. CASE cm = None
    <3>1. op' = [op EXCEPT !.pc = "failed", !.got = None] /\ cm' = cm
      BY <1>15, <2>1 DEF SavePatches, Fails
    <3>2. QED
      BY <1>1, <1>6, <3>1 DEF OpType
  <2>2. CASE cm # None
    <3>1. cm \in ConfigMap /\ op.got \in ConfigMap /\ cm' = Merge(cm, op.got, op.next)
          /\ op' = [op EXCEPT !.pc = "written", !.got = cm']
      BY <1>1, <1>15, <2>2 DEF SavePatches, CM, StoreInv, TypeOK
    <3>2. cm' \in ConfigMap /\ cm'.owner = cm.owner
      BY <1>1, <3>1, MergeType
    <3>3. op'.pc = "written" /\ op'.uid = op.uid /\ op'.found = op.found /\ op'.next = op.next
          /\ op'.touched = op.touched
      BY <1>1, <3>1 DEF OpType
    <3>4. ~op.touched => cm' = Created
      BY <1>8, <3>3 DEF StoreInv, Untouched, Created
    <3>5. QED
      BY <1>7, <3>2, <3>3, <3>4
  <2>3. QED
    BY <2>1, <2>2
<1>16. CASE SaveReturns
  <2>1. op' = [op EXCEPT !.pc = "saved", !.got = None] /\ cm' = cm /\ op.pc = "written"
    BY <1>16 DEF SaveReturns
  <2>2. op'.pc = "saved" /\ op'.uid = op.uid /\ op'.found = op.found /\ op'.next = op.next
        /\ op'.touched = op.touched
    BY <1>1, <2>1 DEF OpType
  <2>3. ~op.touched => cm = Created
    BY <2>1 DEF StoreInv, Untouched
  <2>4. Created \in ConfigMap /\ Created.owner = op.uid /\ Created.data = op.next /\ Created # None
    BY <1>1, NoneIsNothing DEF Created, ConfigMap
  <2>5. QED
    BY <1>5, <2>1, <2>2, <2>3, <2>4 DEF OwnedBy
<1>17. QED
  BY <1>9, <1>10, <1>11, <1>12, <1>13, <1>14, <1>15, <1>16 DEF Save

\* A deletion by name, of whoever's ConfigMap it is, discards that memory.
LEMMA RefineDelete ==
    ASSUME StoreInv, Delete
    PROVE  Abstract!Next \/ UNCHANGED Abstract!vars
<1>1. op \in OpType /\ cm \in CM /\ cm' = None /\ used' = used
      /\ op' = [op EXCEPT !.touched = @ \/ OwnedBy(cm, op.uid)]
  BY DEF StoreInv, TypeOK, CM, Delete
<1>2. OwnedBy(cm, op.uid) \in BOOLEAN
  BY DEF OwnedBy
<1>3. op.touched \in BOOLEAN /\ op'.touched = (op.touched \/ OwnedBy(cm, op.uid))
      /\ op'.uid = op.uid /\ op'.found = op.found /\ op'.next = op.next /\ op'.pc = op.pc
  BY <1>1 DEF OpType
<1>4. CASE cm = None
  <2>1. op'.touched = op.touched
    BY <1>3, <1>4 DEF OwnedBy
  <2>2. UNCHANGED Progress
    BY <1>3, <2>1 DEF Progress
  <2>3. QED
    BY <1>1, <1>4, <2>2, MemorySame DEF Abstract!vars
<1>5. CASE cm # None
  <2>1. cm \in ConfigMap /\ OwnedBy(cm, op.uid) = (cm.owner = op.uid)
    BY <1>1, <1>5 DEF CM, OwnedBy
  <2>2. Progress' = [Progress EXCEPT !.touched = @ \/ cm.owner = op.uid]
    BY <1>3, <2>1, ProgressTouched
  <2>3. cm.owner \in Uid /\ MemoryOf' = [MemoryOf EXCEPT ![cm.owner] = None]
    BY <1>1, <2>1, MemoryGone
  <2>4. Abstract!Discard(cm.owner)
    BY <1>1, <2>2, <2>3, ProgressFields DEF Abstract!Discard, Abstract!Changed
  <2>5. QED
    BY <2>3, <2>4 DEF Abstract!Next
<1>6. QED
  BY <1>4, <1>5

\* Failing calls and restarts of the process at most end the tick.
LEMMA RefineFaults ==
    ASSUME StoreInv, DeleteFails \/ Forget \/ CallFails \/ ProcessRestarts
    PROVE  Abstract!Next \/ UNCHANGED Abstract!vars
<1>1. op \in OpType /\ cm' = cm
  BY DEF StoreInv, TypeOK, DeleteFails, Forget, CallFails, ProcessRestarts
<1>2. used'.touches = used.touches
  BY DEF StoreInv, TypeOK, DeleteFails, Forget, CallFails, ProcessRestarts, Fault
<1>3. UNCHANGED MemoryOf
  BY <1>1, MemorySame
<1>4. CASE op' = op
  BY <1>2, <1>3, <1>4 DEF Abstract!vars, Progress
<1>5. CASE ~Over /\ op' = [op EXCEPT !.pc = "failed", !.got = None]
  <2>1. op'.pc = "failed" /\ op'.uid = op.uid /\ op'.found = op.found /\ op'.next = op.next
        /\ op'.touched = op.touched
    BY <1>1, <1>5 DEF OpType
  <2>2. Progress' = [Progress EXCEPT !.pc = "failed"]
    BY <2>1 DEF Progress, Saving
  <2>3. Progress.pc \notin {"saved", "failed"}
    BY <1>5, ProgressFields DEF Over
  <2>4. Abstract!Fail
    BY <1>2, <1>3, <2>2, <2>3 DEF Abstract!Fail, Abstract!Over
  <2>5. QED
    BY <2>4 DEF Abstract!Next
<1>6. QED
  BY <1>4, <1>5 DEF DeleteFails, Forget, CallFails, ProcessRestarts, Fails

\* What others do to the ConfigMap is a touch, or a discard by the garbage collector.
LEMMA RefineTouch ==
    ASSUME StoreInv, CollectGarbage \/ HumanDeletes \/ HumanEdits \/ HumanRestores
    PROVE  Abstract!Next
<1>1. op \in OpType /\ cm \in CM /\ used \in [uids: 0..MaxUid, touches: Nat, faults: Nat]
  BY DEF StoreInv, TypeOK, CM
<1>2. PICK c \in CM : Becomes(c) /\ (c # None /\ cm # None => c.owner = cm.owner)
  BY TouchBecomes
<1>3. cm' = c
  BY <1>2 DEF Becomes
<1>4. CollectGarbage => cm # None /\ cm' = None /\ used' = used
  BY DEF CollectGarbage, Becomes
<1>5. ~CollectGarbage => used'.touches = used.touches + 1 /\ (cm # None \/ cm' # None)
  <2>1. CASE HumanDeletes \/ HumanEdits
    BY <1>1, <2>1 DEF HumanDeletes, HumanEdits, Touch
  <2>2. CASE HumanRestores
    <3>1. PICK d \in Data : Becomes([owner |-> live.uid, data |-> d])
      BY <2>2 DEF HumanRestores
    <3>2. live.uid \in Uid
      BY <2>2 DEF HumanRestores, StoreInv, TypeOK, Deployment, Uid
    <3>3. cm' \in ConfigMap
      BY <3>1, <3>2 DEF Becomes, ConfigMap
    <3>4. QED
      BY <1>1, <2>2, <3>3, NoneIsNothing DEF HumanRestores, Touch
  <2>3. QED
    BY <2>1, <2>2
<1> DEFINE u == IF c # None THEN c.owner ELSE cm.owner
           d == IF c # None THEN c.data ELSE None
<1>6. cm # None \/ c # None
  BY <1>3, <1>4, <1>5
<1>7. (OwnedBy(cm, op.uid) \/ OwnedBy(c, op.uid)) = (u = op.uid)
  BY <1>2, <1>6 DEF OwnedBy
<1>8. u \in Uid /\ d \in Data \cup {None} /\ MemoryOf' = [MemoryOf EXCEPT ![u] = d]
  <2>1. CASE c # None
    <3>1. cm' \in ConfigMap /\ (cm # None => cm.owner = cm'.owner)
      BY <1>2, <1>3, <2>1 DEF CM
    <3>2. QED
      BY <1>1, <1>3, <2>1, <3>1, MemoryWritten
  <2>2. CASE c = None
    <3>1. cm \in ConfigMap /\ cm' = None
      BY <1>1, <1>3, <1>6, <2>2 DEF CM
    <3>2. QED
      BY <2>2, <3>1, MemoryGone
  <2>3. QED
    BY <2>1, <2>2
<1>9. c = None => d = None
  OBVIOUS
<1> HIDE DEF u, d
<1>10. Progress' = [Progress EXCEPT !.touched = @ \/ u = op.uid]
  <2>1. op' = [op EXCEPT !.touched = @ \/ u = op.uid]
    <3>1. op' = [op EXCEPT !.touched = @ \/ (OwnedBy(cm, op.uid) \/ OwnedBy(c, op.uid))]
      BY <1>2 DEF Becomes
    <3>2. QED
      BY <1>7, <3>1
  <2>2. op.touched \in BOOLEAN /\ op'.touched = (op.touched \/ u = op.uid)
        /\ op'.uid = op.uid /\ op'.found = op.found /\ op'.next = op.next /\ op'.pc = op.pc
    BY <1>1, <2>1 DEF OpType
  <2>3. QED
    BY <2>2, ProgressTouched
<1>11. Abstract!Changed(u, d)
  BY <1>8, <1>10, ProgressFields DEF Abstract!Changed
<1>12. CASE CollectGarbage
  <2>1. d = None /\ used' = used
    BY <1>3, <1>4, <1>9, <1>12
  <2>2. Abstract!Discard(u)
    BY <1>11, <2>1 DEF Abstract!Discard
  <2>3. QED
    BY <1>8, <2>2 DEF Abstract!Next
<1>13. CASE ~CollectGarbage
  <2>1. Abstract!Touch(u, d)
    BY <1>5, <1>11, <1>13 DEF Abstract!Touch
  <2>2. QED
    BY <1>8, <2>1 DEF Abstract!Next
<1>14. QED
  BY <1>12, <1>13

\* Every step of the store is a step of the contract or changes nothing the contract speaks of.
LEMMA RefineNext ==
    ASSUME StoreInv, [Next]_vars
    PROVE  [Abstract!Next]_(Abstract!vars)
<1>1. CASE UNCHANGED vars
  BY <1>1, MemorySame DEF vars, Abstract!vars, Progress
<1>2. CASE CreateDeployment \/ DeleteDeployment \/ RemovePolicy \/ Inform
  <2>1. UNCHANGED <<cm, op>> /\ used'.touches = used.touches
    BY <1>2 DEF CreateDeployment, DeleteDeployment, RemovePolicy, Inform, StoreInv, TypeOK
  <2>2. QED
    BY <2>1, MemorySame DEF Abstract!vars, Progress
<1>3. CASE Load \/ Decide
  BY <1>3, RefineLoad
<1>4. CASE Save
  BY <1>4, RefineSave
<1>5. CASE Delete
  BY <1>5, RefineDelete
<1>6. CASE DeleteFails \/ Forget \/ CallFails \/ ProcessRestarts
  BY <1>6, RefineFaults
<1>7. CASE CollectGarbage \/ HumanDeletes \/ HumanEdits \/ HumanRestores
  BY <1>7, RefineTouch
<1>8. QED
  BY <1>1, <1>2, <1>3, <1>4, <1>5, <1>6, <1>7 DEF Next, Tick, Others

\* The store (store.go, with Seen, ownership by UID and the replacement of a dead deployment's
\* ConfigMap) keeps the contract of MemorySpec.
THEOREM StoreImplements == Spec => Implements
<1>1. Init => Abstract!Init
  BY RefineInit
<1>2. StoreInv /\ [Next]_vars => [Abstract!Next]_(Abstract!vars)
  BY RefineNext
<1>3. Spec => []StoreInv
  BY StoreInvariant
<1>4. QED
  BY <1>1, <1>2, <1>3, PTL DEF Spec, Implements, Abstract!Spec
=============================================================================
