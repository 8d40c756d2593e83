---------------------------- MODULE VaultSyncProofs ----------------------------
(***************************************************************************)
(* Proofs about VaultSync, for any number of devices, changes and vaults.   *)
(***************************************************************************)
EXTENDS VaultSync, ChangeLogProofs

--------------------------------------------------------------------------------
(* Type correctness *)

LEMMA SetCall ==
  ASSUME call \in [Devices -> [Slots -> Call]],
         NEW d \in Devices, NEW s \in Slots, NEW c \in Call, Set(d, s, c)
  PROVE  /\ call' \in [Devices -> [Slots -> Call]]
         /\ call'[d][s] = c
         /\ \A e \in Devices, t \in Slots :
              <<e, t>> # <<d, s>> => call'[e][t] = call[e][t]
BY DEF Set

LEMMA NoCallType == NoCall \in Call
BY DEF NoCall, Call, Pcs, Rets

LEMMA CreatesVaults ==
  ASSUME TypeOK, NEW S \in SUBSET Ids
  PROVE  VaultsOf(Creates(S)) \subseteq Vaults
<1> SUFFICES ASSUME NEW x \in Creates(S)  PROVE made[x].vault \in Vaults
  BY DEF VaultsOf
<1>1. made[x] \in Change \cup {NoChange} /\ made[x].op = "create"
  BY DEF TypeOK, Creates
<1>2. made[x] \in Change  BY <1>1 DEF NoChange
<1> QED  BY <1>2 DEF Change

LEMMA EditType ==
  ASSUME TypeOK, NEW d \in Devices, NEW s \in Slots, NEW c \in Ids, NEW v \in Vaults,
         NEW op \in Ops, Edit(d, s, c, op, v), files' \in [Devices -> SUBSET Vaults]
  PROVE  TypeOK'
<1>1. made' \in [Ids -> Change \cup {NoChange}]  BY DEF TypeOK, Edit, Change
<1>2. replica' \in [Devices -> Log]
  <2>1. EmptyLog \in Log  BY DEF EmptyLog, Log
  <2>2. replica[d] \in Log  BY DEF TypeOK
  <2>3. Extend(replica[d], {c}, EmptyLog) \in Log  BY <2>1, <2>2, ExtendInLog
  <2> QED  BY <2>3 DEF TypeOK, Edit
<1>3. call' \in [Devices -> [Slots -> Call]]
  <2>1. CASE Mode[d] = "auto"
    <3> DEFINE r == [NoCall EXCEPT !.pc = "cursor", !.kind = "sync", !.edit = c]
    <3>1. r \in Call  BY DEF NoCall, Call, Pcs, Rets
    <3>2. Set(d, s, r)  BY <2>1 DEF Edit, Begin
    <3> QED  BY <3>1, <3>2, SetCall DEF TypeOK
  <2>2. CASE Mode[d] # "auto"
    <3> DEFINE r == [NoCall EXCEPT !.ret = "ok"]
    <3>1. r \in Call  BY DEF NoCall, Call, Pcs, Rets
    <3>2. Set(d, s, r)  BY <2>2 DEF Edit
    <3> QED  BY <3>1, <3>2, SetCall DEF TypeOK
  <2> QED  BY <2>1, <2>2
<1>4. raced' \subseteq Ids  BY DEF TypeOK, Edit
<1> QED  BY <1>1, <1>2, <1>3, <1>4 DEF TypeOK, Edit

LEMMA BeginType ==
  ASSUME TypeOK, NEW d \in Devices, NEW s \in Slots, NEW kind \in {"sync", "check"},
         Begin(d, s, kind, None)
  PROVE  call' \in [Devices -> [Slots -> Call]]
<1> DEFINE r == [NoCall EXCEPT !.pc = "cursor", !.kind = kind, !.edit = None]
<1>1. r \in Call  BY DEF NoCall, Call, Pcs, Rets
<1> QED  BY <1>1, SetCall DEF TypeOK, Begin

LEMMA ReturnType ==
  ASSUME TypeOK, NEW d \in Devices, NEW s \in Slots, NEW ret \in Rets, Return(d, s, ret)
  PROVE  call' \in [Devices -> [Slots -> Call]]
<1> DEFINE r == [NoCall EXCEPT !.ret = ret,
                   !.edit = IF ret = "ok" THEN call[d][s].edit ELSE None]
<1>1. call[d][s].edit \in Ids \cup {None}  BY DEF TypeOK, Call
<1>2. r \in Call  BY <1>1 DEF NoCall, Call, Pcs, Rets
<1> QED  BY <1>2, SetCall DEF TypeOK, Return

LEMMA TypeStep == TypeOK /\ [Next]_vars => TypeOK'
<1> SUFFICES ASSUME TypeOK, [Next]_vars  PROVE TypeOK'
  OBVIOUS
<1>1. CASE UNCHANGED vars  BY <1>1 DEF vars, TypeOK
<1>2. ASSUME NEW d \in Devices, NEW s \in Slots, StartSync(d, s) \/ List(d, s)
      PROVE  TypeOK'
  <2>1. call' \in [Devices -> [Slots -> Call]]
    BY <1>2, BeginType DEF StartSync, List
  <2> QED  BY <1>2, <2>1 DEF StartSync, List, TypeOK
<1>3. ASSUME NEW d \in Devices, NEW s \in Slots, EditStep(d, s)
      PROVE  TypeOK'
  <2>1. PICK c \in Ids, v \in Vaults :
          CreateVault(d, s, c, v) \/ UpdateVault(d, s, c, v) \/ DeleteVault(d, s, c, v)
    BY <1>3 DEF EditStep
  <2>2. \E op \in Ops : Edit(d, s, c, op, v)
    BY <2>1 DEF CreateVault, UpdateVault, DeleteVault, Ops
  <2>3. files' \in [Devices -> SUBSET Vaults]
    BY <2>1 DEF CreateVault, UpdateVault, DeleteVault, TypeOK
  <2> QED  BY <2>2, <2>3, EditType
<1>4. ASSUME NEW d \in Devices, NEW s \in Slots, SyncStep(d, s) \/ FaultStep(d, s)
      PROVE  TypeOK'
  <2> DEFINE c == call[d][s]
  <2>0. c \in Call  BY DEF TypeOK
  <2>1. CASE ReadCursor(d, s)
    <3> DEFINE r == [c EXCEPT !.pc = "local", !.start = cursor[d]]
    <3>1. cursor[d] \in Ids \cup {None}  BY DEF TypeOK
    <3>2. r \in Call  BY <2>0, <3>1 DEF Call, Pcs
    <3>3. Set(d, s, r)  BY <2>1 DEF ReadCursor
    <3> QED  BY <2>1, <3>2, <3>3, SetCall DEF ReadCursor, TypeOK
  <2>2. CASE ReadLocal(d, s)
    <3> DEFINE r == [c EXCEPT !.pc = "count", !.local = After(replica[d], c.start)]
    <3>1. After(replica[d], c.start) \in SUBSET Ids  BY AfterIds
    <3>2. r \in Call  BY <2>0, <3>1 DEF Call, Pcs
    <3>3. Set(d, s, r)  BY <2>2 DEF ReadLocal
    <3> QED  BY <2>2, <3>2, <3>3, SetCall DEF ReadLocal, TypeOK
  <2>3. CASE CountRemote(d, s)
    <3> DEFINE n == Cardinality(After(sotLog, c.start))
               r == [c EXCEPT !.count = n,
                       !.pc = IF n = 0 THEN AfterFetch(c.local) ELSE "fetch"]
    <3>1. n \in Nat  BY AfterIds, IdSets
    <3>2. r \in Call  BY <2>0, <3>1 DEF Call, Pcs, AfterFetch
    <3>3. CASE c.kind = "check"
      <4>1. \E ret \in Rets : Return(d, s, ret)  BY <2>3, <3>3 DEF CountRemote, Rets
      <4> QED  BY <2>3, <4>1, ReturnType DEF CountRemote, TypeOK
    <3>4. CASE c.kind # "check"
      <4>1. Set(d, s, r)  BY <2>3, <3>4 DEF CountRemote
      <4> QED  BY <2>3, <3>2, <4>1, SetCall DEF CountRemote, TypeOK
    <3> QED  BY <3>3, <3>4
  <2>4. CASE FetchRemote(d, s)
    <3> DEFINE r == [c EXCEPT !.pc = AfterFetch(c.local),
                       !.remote = FirstAfter(sotLog, c.start, c.count)]
    <3>1. FirstAfter(sotLog, c.start, c.count) \in SUBSET Ids  BY AfterIds
    <3>2. r \in Call  BY <2>0, <3>1 DEF Call, Pcs, AfterFetch
    <3>3. Set(d, s, r)  BY <2>4 DEF FetchRemote
    <3> QED  BY <2>4, <3>2, <3>3, SetCall DEF FetchRemote, TypeOK
  <2>5. CASE SealKeys(d, s)
    <3> DEFINE r == [c EXCEPT !.pc = "push"]
    <3>1. r \in Call  BY <2>0 DEF Call, Pcs
    <3>2. Set(d, s, r)  BY <2>5 DEF SealKeys
    <3> QED  BY <2>5, <3>1, <3>2, SetCall DEF SealKeys, TypeOK
  <2>6. CASE Push(d, s)
    <3>1. PICK applied \in Applicable(c.local) :
            LET todo == VaultsOf(Creates(Answer(applied)))
            IN  /\ sotLog' = Extend(sotLog, applied, replica[d])
                /\ Set(d, s, [c EXCEPT !.todo = todo,
                                !.pc = IF todo = {} THEN "merge" ELSE "blobs"])
      BY <2>6 DEF Push
    <3> DEFINE todo == VaultsOf(Creates(Answer(applied)))
               r == [c EXCEPT !.todo = todo,
                       !.pc = IF todo = {} THEN "merge" ELSE "blobs"]
    <3>2. applied \in SUBSET Ids  BY <2>0, <3>1 DEF Applicable, Call
    <3>3. Answer(applied) \in SUBSET Ids  BY <3>2 DEF Answer
    <3>4. todo \in SUBSET Vaults  BY <3>3, CreatesVaults
    <3>5. r \in Call  BY <2>0, <3>4 DEF Call, Pcs
    <3>6. sotLog' \in Log  BY <3>1, <3>2, ExtendInLog DEF TypeOK
    <3>7. Set(d, s, r)  BY <3>1
    <3>8. call' \in [Devices -> [Slots -> Call]]  BY <3>5, <3>7, SetCall DEF TypeOK
    <3> QED  BY <2>6, <3>6, <3>8 DEF Push, TypeOK
  <2>7. CASE PushAnswerLost(d, s)
    <3>1. PICK applied \in Applicable(c.local) :
            sotLog' = Extend(sotLog, applied, replica[d])
      BY <2>7 DEF PushAnswerLost
    <3>2. applied \in SUBSET Ids  BY <2>0, <3>1 DEF Applicable, Call
    <3>3. sotLog' \in Log  BY <3>1, <3>2, ExtendInLog DEF TypeOK
    <3>4. call' \in [Devices -> [Slots -> Call]]
      BY <2>7, ReturnType DEF PushAnswerLost, Rets
    <3> QED  BY <2>7, <3>3, <3>4 DEF PushAnswerLost, TypeOK
  <2>8. CASE \E v \in Vaults : UploadBlob(d, s, v)
    <3>1. PICK v \in Vaults : UploadBlob(d, s, v)  BY <2>8
    <3> DEFINE rest == c.todo \ {v}
               r == [c EXCEPT !.todo = rest,
                       !.pc = IF rest = {} THEN "merge" ELSE "blobs"]
    <3>2. rest \in SUBSET Vaults  BY <2>0 DEF Call
    <3>3. r \in Call  BY <2>0, <3>2 DEF Call, Pcs
    <3>4. Set(d, s, r)  BY <3>1 DEF UploadBlob
    <3> QED  BY <3>1, <3>3, <3>4, SetCall DEF UploadBlob, TypeOK
  <2>9. CASE PushRefused(d, s) \/ BlobMissing(d, s)
    <3>1. call' \in [Devices -> [Slots -> Call]]
      BY <2>9, ReturnType DEF PushRefused, BlobMissing, Rets
    <3> QED  BY <2>9, <3>1 DEF PushRefused, BlobMissing, TypeOK
  <2>10. CASE UploadAnswerLost(d, s)
    <3>1. call' \in [Devices -> [Slots -> Call]]
      BY <2>10, ReturnType DEF UploadAnswerLost, Rets
    <3>2. sotBlobs' \subseteq Vaults  BY <2>10 DEF UploadAnswerLost, TypeOK
    <3> QED  BY <2>10, <3>1, <3>2 DEF UploadAnswerLost, TypeOK
  <2>11. CASE Merge(d, s)
    <3> DEFINE r == [c EXCEPT !.pc = "advance"]
    <3>1. r \in Call  BY <2>0 DEF Call, Pcs
    <3>2. Set(d, s, r)  BY <2>11 DEF Merge
    <3>3. PICK log \in {Appended(replica[d], c, sotLog), Rebased(replica[d], c, sotLog)} :
            replica' = [replica EXCEPT ![d] = log]
      BY <2>11 DEF Merge
    <3>4. replica[d] \in Log /\ sotLog \in Log /\ c.remote \in SUBSET Ids
            /\ c.local \in SUBSET Ids /\ Ids \ c.local \in SUBSET Ids
      BY <2>0 DEF TypeOK, Call
    <3>5. Appended(replica[d], c, sotLog) \in Log  BY <3>4, ExtendInLog DEF Appended
    <3>6. Rebased(replica[d], c, sotLog) \in Log
      <4>1. Only(replica[d], Ids \ c.local) \in Log  BY <3>4, OnlyInLog
      <4>2. Extend(Only(replica[d], Ids \ c.local), c.remote, sotLog) \in Log
        BY <3>4, <4>1, ExtendInLog
      <4> QED  BY <3>4, <4>2, ExtendInLog DEF Rebased
    <3>7. replica' \in [Devices -> Log]  BY <3>3, <3>5, <3>6 DEF TypeOK
    <3>8. call' \in [Devices -> [Slots -> Call]]  BY <3>1, <3>2, SetCall DEF TypeOK
    <3> QED  BY <2>11, <3>7, <3>8 DEF Merge, TypeOK
  <2>12. CASE Advance(d, s)
    <3>1. call' \in [Devices -> [Slots -> Call]]
      BY <2>12, ReturnType DEF Advance, Rets
    <3>2. cursor' \in [Devices -> Ids \cup {None}]
      BY <2>12 DEF Advance, TypeOK, InLog
    <3>3. torn' \in [Devices -> BOOLEAN]  BY <2>12 DEF Advance, TypeOK
    <3> QED  BY <2>12, <3>1, <3>2, <3>3 DEF Advance, TypeOK
  <2>13. CASE Fail(d, s)
    <3>1. call' \in [Devices -> [Slots -> Call]]
      BY <2>13, ReturnType DEF Fail, Rets
    <3>2. torn' \in [Devices -> BOOLEAN]
      <4>1. Halted(d, s) \in BOOLEAN  BY DEF Halted, TypeOK
      <4> QED  BY <2>13, <4>1 DEF Fail, TypeOK
    <3> QED  BY <2>13, <3>1, <3>2 DEF Fail, TypeOK
  <2> QED
    BY <1>4, <2>1, <2>2, <2>3, <2>4, <2>5, <2>6, <2>7, <2>8, <2>9, <2>10, <2>11,
       <2>12, <2>13 DEF SyncStep, FaultStep
<1>5. ASSUME NEW d \in Devices, Crash(d)  PROVE TypeOK'
  <2>1. call' \in [Devices -> [Slots -> Call]]
    BY <1>5, NoCallType DEF Crash, TypeOK
  <2>2. torn' \in [Devices -> BOOLEAN]  BY <1>5 DEF Crash, TypeOK
  <2> QED  BY <1>5, <2>1, <2>2 DEF Crash, TypeOK
<1>6. ASSUME NEW d \in Devices, NEW v \in Vaults, DownloadBlob(d, v)  PROVE TypeOK'
  BY <1>6 DEF DownloadBlob, TypeOK
<1> QED  BY <1>1, <1>2, <1>3, <1>4, <1>5, <1>6 DEF Next

LEMMA TypeInit == Init => TypeOK
<1> SUFFICES ASSUME Init  PROVE TypeOK
  OBVIOUS
<1>1. EmptyLog \in Log  BY DEF EmptyLog, Log
<1> QED  BY <1>1, NoCallType DEF Init, TypeOK

\* Every reachable state has the shape TypeOK gives it, whatever the callers, the
\* daemon and the failures do.
THEOREM TypeCorrect == Spec => []TypeOK
<1> QED  BY TypeInit, TypeStep, PTL DEF Spec

--------------------------------------------------------------------------------
(* The invariant is inductive *)

\* What the steps of VaultSync rest on: one call at a time on each device, and a
\* daemon that applies batches whole and only on the log the client has seen.
Assumed == SerialCalls /\ {"all", "window"} \subseteq Promises

LEMMA OnlyCall ==
  ASSUME Assumed, call \in [Devices -> [Slots -> Call]],
         NEW d \in Devices, NEW s \in Slots, NEW c \in Call, Set(d, s, c),
         NEW e \in Devices, NEW t \in Slots
  PROVE  call'[e][t] = IF e = d THEN c ELSE call[e][t]
<1>1. t = s  BY DEF Assumed, SerialCalls
<1> QED  BY <1>1 DEF Set

\* Another device's post disturbs no call.
LEMMA GrowHeld ==
  ASSUME NEW rep \in Log, NEW sot \in Log, NEW cur \in Ids \cup {None},
         NEW ord \in Log, NEW S \in SUBSET Ids, Dense(sot), DeviceOK(rep, cur, sot),
         NEW c \in Call, CallOK(c, rep, cur, sot)
  PROVE  CallOK(c, rep, cur, Extend(sot, S, ord))
<1>1. c.count \in Nat  BY DEF Call
<1>2. CallFresh(c, rep, cur, Extend(sot, S, ord))  BY <1>1, GrowCall DEF CallOK
<1>3. InLog(Extend(sot, S, ord)) = InLog(sot) \cup S  BY ExtendInLog
<1> QED  BY <1>2, <1>3 DEF CallOK, EditHeld

\* A step that changes nothing but the call it belongs to, and keeps that one right.
LEMMA QuietStep ==
  ASSUME Assumed, SyncInv, TypeOK', NEW d \in Devices, NEW s \in Slots,
         NEW c \in Call, Set(d, s, c), UNCHANGED <<sotLog, replica, cursor>>,
         CallOK(c, replica[d], cursor[d], sotLog)
  PROVE  SyncInv'
<1>1. call \in [Devices -> [Slots -> Call]]  BY DEF SyncInv, TypeOK
<1>2. \A e \in Devices, t \in Slots :
        call'[e][t] = IF e = d THEN c ELSE call[e][t]
  BY <1>1, OnlyCall
<1>3. \A e \in Devices, t \in Slots :
        CallOK(call'[e][t], replica[e], cursor[e], sotLog)
  BY <1>2 DEF SyncInv
<1> QED  BY <1>3 DEF SyncInv

\* A call that has returned, or has not read the cursor yet, knows nothing.
LEMMA FreshCall ==
  ASSUME NEW c \in Call, NEW rep, NEW cur, NEW sot, c.pc \in {"idle", "cursor"},
         c.remote = {}, EditHeld(c, rep, sot)
  PROVE  CallOK(c, rep, cur, sot)
BY DEF CallOK, CallFresh, LocalFresh, RemoteFresh

LEMMA ReturnStep ==
  ASSUME Assumed, SyncInv, TypeOK', NEW d \in Devices, NEW s \in Slots,
         NEW ret \in Rets \ {"ok"}, Return(d, s, ret),
         UNCHANGED <<sotLog, replica, cursor>>
  PROVE  SyncInv'
<1> DEFINE c == [NoCall EXCEPT !.ret = ret, !.edit = None]
<1>1. Set(d, s, c)  BY DEF Return
<1>2. c \in Call /\ c.pc = "idle" /\ c.remote = {} /\ c.edit = None
  BY DEF NoCall, Call, Pcs, Rets
<1> HIDE DEF c
<1>3. CallOK(c, replica[d], cursor[d], sotLog)  BY <1>2, FreshCall DEF EditHeld
<1> QED  BY <1>1, <1>2, <1>3, QuietStep

LEMMA BeginStep ==
  ASSUME Assumed, SyncInv, TypeOK', NEW d \in Devices, NEW s \in Slots,
         NEW kind \in {"sync", "check"}, Begin(d, s, kind, None),
         UNCHANGED <<sotLog, replica, cursor>>
  PROVE  SyncInv'
<1> DEFINE c == [NoCall EXCEPT !.pc = "cursor", !.kind = kind, !.edit = None]
<1>1. Set(d, s, c)  BY DEF Begin
<1>2. c \in Call /\ c.pc = "cursor" /\ c.remote = {} /\ c.edit = None
  BY DEF NoCall, Call, Pcs, Rets
<1> HIDE DEF c
<1>3. CallOK(c, replica[d], cursor[d], sotLog)  BY <1>2, FreshCall DEF EditHeld
<1> QED  BY <1>1, <1>2, <1>3, QuietStep

\* An edit appends one row to a replica no call of the device is working on.
LEMMA EditInv ==
  ASSUME Assumed, SyncInv, TypeOK', NEW d \in Devices, NEW s \in Slots,
         NEW x \in Ids, NEW v \in Vaults, NEW op \in Ops, Edit(d, s, x, op, v)
  PROVE  SyncInv'
<1> DEFINE rep == Extend(replica[d], {x}, EmptyLog)
           c == IF Mode[d] = "auto"
                THEN [NoCall EXCEPT !.pc = "cursor", !.kind = "sync", !.edit = x]
                ELSE [NoCall EXCEPT !.ret = "ok"]
<1>1. Set(d, s, c)  BY DEF Edit, Begin
<1>2. /\ c \in Call /\ c.pc \in {"idle", "cursor"} /\ c.remote = {}
      /\ c.edit \in {x, None} /\ (c.ret = "ok" => c.edit = None)
  BY DEF NoCall, Call, Pcs, Rets
<1>3. /\ sotLog \in Log /\ cursor[d] \in Ids \cup {None} /\ replica[d] \in Log
      /\ replica \in [Devices -> Log]
      /\ DeviceOK(replica[d], cursor[d], sotLog)
  BY DEF SyncInv, TypeOK
<1>4. InLog(rep) = InLog(replica[d]) \cup {x} /\ DeviceOK(rep, cursor[d], sotLog)
  BY <1>3, EditDevice
<1> HIDE DEF rep, c
<1>9. CallOK(c, rep, cursor[d], sotLog)
  <2>1. EditHeld(c, rep, sotLog)  BY <1>2, <1>4 DEF EditHeld
  <2> QED  BY <1>2, <2>1, FreshCall
<1>10. /\ replica' = [replica EXCEPT ![d] = rep]
       /\ UNCHANGED <<sotLog, cursor>>
  BY DEF Edit, rep
<1>11. \A e \in Devices, t \in Slots :
         call'[e][t] = IF e = d THEN c ELSE call[e][t]
  BY <1>1, <1>2, OnlyCall DEF SyncInv, TypeOK
<1>12. \A e \in Devices : DeviceOK(replica'[e], cursor'[e], sotLog')
  BY <1>3, <1>4, <1>10 DEF SyncInv
<1>13. \A e \in Devices, t \in Slots :
         CallOK(call'[e][t], replica'[e], cursor'[e], sotLog')
  BY <1>3, <1>9, <1>10, <1>11 DEF SyncInv
<1>14. Dense(sotLog')  BY <1>10 DEF SyncInv
<1> QED  BY <1>12, <1>13, <1>14 DEF SyncInv

\* A batch applied by the daemon disturbs no device and no call but the poster's.
LEMMA PostInv ==
  ASSUME Assumed, SyncInv, TypeOK', NEW d \in Devices, NEW s \in Slots,
         NEW S \in SUBSET Ids, sotLog' = Extend(sotLog, S, replica[d]),
         NEW c \in Call, Set(d, s, c), UNCHANGED <<replica, cursor>>,
         CallOK(c, replica[d], cursor[d], sotLog')
  PROVE  SyncInv'
<1>1. /\ sotLog \in Log /\ Dense(sotLog) /\ replica[d] \in Log
      /\ \A e \in Devices : /\ replica[e] \in Log
                            /\ cursor[e] \in Ids \cup {None}
                            /\ DeviceOK(replica[e], cursor[e], sotLog)
      /\ \A e \in Devices, t \in Slots :
           /\ call[e][t] \in Call
           /\ CallOK(call[e][t], replica[e], cursor[e], sotLog)
  BY DEF SyncInv, TypeOK
<1>2. \A e \in Devices : DeviceOK(replica[e], cursor[e], sotLog')  BY <1>1, GrowDevice
<1>3. \A e \in Devices, t \in Slots :
        CallOK(call[e][t], replica[e], cursor[e], sotLog')
  BY <1>1, GrowHeld
<1>4. Dense(sotLog')  BY <1>1, ExtendDense
<1>5. \A e \in Devices, t \in Slots :
        call'[e][t] = IF e = d THEN c ELSE call[e][t]
  BY OnlyCall DEF SyncInv, TypeOK
<1>6. \A e \in Devices, t \in Slots :
        CallOK(call'[e][t], replica[e], cursor[e], sotLog')
  BY <1>3, <1>5
<1> QED  BY <1>2, <1>4, <1>6 DEF SyncInv

LEMMA CountInv ==
  ASSUME Assumed, SyncInv, TypeOK', NEW d \in Devices, NEW s \in Slots,
         CountRemote(d, s)
  PROVE  SyncInv'
<1> DEFINE c == call[d][s]
           rep == replica[d]
           cur == cursor[d]
           ahead == After(sotLog, cur)
           n == Cardinality(ahead)
<1>1. /\ rep \in Log /\ sotLog \in Log /\ cur \in Ids \cup {None} /\ c \in Call
      /\ DeviceOK(rep, cur, sotLog) /\ CallOK(c, rep, cur, sotLog)
  BY DEF SyncInv, TypeOK
<1>2. c.pc = "count" /\ UNCHANGED <<sotLog, replica, cursor>>  BY DEF CountRemote
<1>3. c.start = cur /\ c.local = After(rep, cur) /\ c.remote = {}
  BY <1>1, <1>2 DEF CallOK, CallFresh, LocalFresh, RemoteFresh
<1>4. CASE c.kind = "check"
  <2>1. \E ret \in Rets \ {"ok"} : Return(d, s, ret)
    BY <1>4 DEF CountRemote, Rets
  <2> QED  BY <1>2, <2>1, ReturnStep
<1>5. CASE c.kind # "check"
  <2> DEFINE r == [c EXCEPT !.count = n,
                     !.pc = IF n = 0 THEN AfterFetch(c.local) ELSE "fetch"]
  <2>1. Set(d, s, r)  BY <1>3, <1>5 DEF CountRemote
  <2>2. ahead \in SUBSET Ids /\ n \in Nat /\ (n = 0 => ahead = {})
    BY AfterIds, IdSets
  <2>3. r \in Call  BY <1>1, <2>2 DEF Call, Pcs, AfterFetch
  <2>4. /\ r.pc = IF n = 0 THEN AfterFetch(c.local) ELSE "fetch"
        /\ r.count = n /\ r.start = cur /\ r.local = c.local /\ r.remote = {}
        /\ r.edit = c.edit /\ r.ret = c.ret
    BY <1>1, <1>3 DEF Call
  <2>5. \A x \in Behind(rep, cur) \cap ahead : Rank(sotLog, ahead, x) <= n
    <3>1. \A x \in ahead : Rank(sotLog, ahead, x) \in 1..n  BY <1>1, <2>2, RankRange
    <3> QED  BY <2>2, <3>1
  <2>6. RemoteFresh(r, rep, cur, sotLog)
    <3> HIDE DEF r, n
    <3>1. n <= n  BY <2>2
    <3>2. r.pc \in {"merge", "keys", "fetch"}  BY <2>4 DEF AfterFetch
    <3>3. r.pc # "fetch" => ahead = {}  BY <2>2, <2>4
    <3> QED  BY <2>4, <2>5, <3>1, <3>2, <3>3 DEF RemoteFresh, n
  <2>7. LocalFresh(r, rep, cur)
    <3> HIDE DEF r
    <3> QED  BY <1>3, <2>4 DEF LocalFresh
  <2>8. r.pc = "merge" => Settled(InLog(rep) \cup r.remote, sotLog)
    <3> SUFFICES ASSUME r.pc = "merge"  PROVE Settled(InLog(rep) \cup r.remote, sotLog)
      OBVIOUS
    <3>1. n = 0 /\ c.local = {}  BY <2>4 DEF AfterFetch
    <3>2. InLog(rep) = InLog(sotLog)  BY <1>1, <1>3, <2>2, <3>1, NothingToFetch
    <3> HIDE DEF r
    <3> QED  BY <2>4, <3>2 DEF Settled, DownClosed
  <2>9. r.pc \notin {"blobs", "advance"}  BY <2>4 DEF AfterFetch
  <2>10. EditHeld(r, rep, sotLog)
    <3> HIDE DEF r
    <3> QED  BY <1>1, <2>4 DEF CallOK, EditHeld
  <2> HIDE DEF r
  <2>11. Settled(Behind(sotLog, cur) \cup r.remote, sotLog)
    <3>1. Settled(Behind(sotLog, cur), sotLog)  BY <1>1, BehindSettled
    <3> QED  BY <2>4, <3>1
  <2>12. CallOK(r, rep, cur, sotLog)
    BY <2>6, <2>7, <2>8, <2>9, <2>10, <2>11 DEF CallOK, CallFresh
  <2> QED  BY <1>2, <2>1, <2>3, <2>12, QuietStep
<1> QED  BY <1>4, <1>5

LEMMA FetchInv ==
  ASSUME Assumed, SyncInv, TypeOK', NEW d \in Devices, NEW s \in Slots,
         FetchRemote(d, s)
  PROVE  SyncInv'
<1> DEFINE c == call[d][s]
           rep == replica[d]
           cur == cursor[d]
           ahead == After(sotLog, cur)
           fetched == FirstAfter(sotLog, cur, c.count)
           r == [c EXCEPT !.pc = AfterFetch(c.local), !.remote = fetched]
<1>1. /\ rep \in Log /\ sotLog \in Log /\ cur \in Ids \cup {None} /\ c \in Call
      /\ DeviceOK(rep, cur, sotLog) /\ CallOK(c, rep, cur, sotLog)
  BY DEF SyncInv, TypeOK
<1>2. c.pc = "fetch" /\ UNCHANGED <<sotLog, replica, cursor>>  BY DEF FetchRemote
<1>3. /\ c.start = cur /\ c.local = After(rep, cur) /\ c.count \in Nat
      /\ c.count <= Cardinality(ahead)
      /\ \A x \in Behind(rep, cur) \cap ahead : Rank(sotLog, ahead, x) <= c.count
  BY <1>1, <1>2 DEF CallOK, CallFresh, LocalFresh, RemoteFresh, Call
<1>4. Set(d, s, r)  BY <1>3 DEF FetchRemote
<1>5. fetched \in SUBSET Ids  BY AfterIds
<1>6. r \in Call  BY <1>1, <1>5 DEF Call, Pcs, AfterFetch
<1>7. /\ r.pc = AfterFetch(c.local) /\ r.count = c.count /\ r.start = cur
      /\ r.local = c.local /\ r.remote = fetched /\ r.edit = c.edit /\ r.ret = c.ret
  BY <1>1, <1>3 DEF Call
<1>8. fetched \subseteq ahead /\ (Cardinality(ahead) = c.count => fetched = ahead)
  BY <1>1, <1>3, FirstAfterFetches
<1>9. r.pc = "merge" => Settled(InLog(rep) \cup r.remote, sotLog)
  <2>1. c.local = {} => Settled(InLog(rep) \cup fetched, sotLog)
    BY <1>1, <1>3, FetchSettles
  <2> QED  BY <1>7, <2>1 DEF AfterFetch
<1> HIDE DEF r, fetched
<1>10. r.pc \in {"merge", "keys"}  BY <1>7 DEF AfterFetch
<1>11. RemoteFresh(r, rep, cur, sotLog)  BY <1>3, <1>7, <1>8, <1>10 DEF RemoteFresh
<1>12. LocalFresh(r, rep, cur)  BY <1>3, <1>7 DEF LocalFresh
<1>13. EditHeld(r, rep, sotLog)  BY <1>1, <1>7 DEF CallOK, EditHeld
<1>14. Settled(Behind(sotLog, cur) \cup r.remote, sotLog)
  BY <1>1, <1>3, <1>7, BehindSettled DEF fetched
<1>15. CallOK(r, rep, cur, sotLog)
  BY <1>9, <1>10, <1>11, <1>12, <1>13, <1>14 DEF CallOK, CallFresh
<1> QED  BY <1>2, <1>4, <1>6, <1>15, QuietStep

LEMMA PushInv ==
  ASSUME Assumed, SyncInv, TypeOK', NEW d \in Devices, NEW s \in Slots, Push(d, s)
  PROVE  SyncInv'
<1> DEFINE c == call[d][s]
           rep == replica[d]
           cur == cursor[d]
           todo == VaultsOf(Creates(Answer(c.local)))
           r == [c EXCEPT !.todo = todo, !.pc = IF todo = {} THEN "merge" ELSE "blobs"]
<1>1. /\ rep \in Log /\ sotLog \in Log /\ cur \in Ids \cup {None} /\ c \in Call
      /\ Dense(sotLog)
      /\ DeviceOK(rep, cur, sotLog) /\ CallOK(c, rep, cur, sotLog)
  BY DEF SyncInv, TypeOK
<1>2. /\ c.pc = "push" /\ Cardinality(After(sotLog, c.start)) = c.count
      /\ UNCHANGED <<replica, cursor>>
  BY DEF Push, Admits, Assumed
<1>3. sotLog' = Extend(sotLog, c.local, rep) /\ Set(d, s, r)
  BY DEF Push, Applicable, Assumed
<1>4. c.local \in SUBSET Ids /\ Answer(c.local) \in SUBSET Ids
  BY <1>1 DEF Call, Answer
<1>5. todo \in SUBSET Vaults  BY <1>4, CreatesVaults DEF SyncInv
<1>6. r \in Call  BY <1>1, <1>5 DEF Call, Pcs
<1>7. /\ r.pc \in {"merge", "blobs"} /\ r.start = c.start /\ r.local = c.local
      /\ r.remote = c.remote /\ r.edit = c.edit /\ r.ret = c.ret
  BY <1>1 DEF Call
<1>8. Settled(InLog(rep) \cup c.remote, sotLog')
  BY <1>1, <1>2, <1>3, <1>4, PushSettles DEF CallOK
<1>9. CallOK(c, rep, cur, sotLog')
  <2> DEFINE L == c.local
  <2>1. L \in SUBSET Ids  BY <1>4
  <2> HIDE DEF L
  <2>2. CallOK(c, rep, cur, Extend(sotLog, L, rep))  BY <1>1, <2>1, GrowHeld
  <2> QED  BY <1>3, <2>2 DEF L
<1> HIDE DEF r
<1>10. LocalFresh(r, rep, cur)  BY <1>2, <1>7, <1>9 DEF CallOK, CallFresh, LocalFresh
<1>11. RemoteFresh(r, rep, cur, sotLog')  BY <1>7 DEF RemoteFresh
<1>12. EditHeld(r, rep, sotLog')  BY <1>7, <1>9 DEF CallOK, EditHeld
<1>13. CallOK(r, rep, cur, sotLog')
  BY <1>2, <1>7, <1>8, <1>9, <1>10, <1>11, <1>12 DEF CallOK, CallFresh
<1>14. \E S \in SUBSET Ids : sotLog' = Extend(sotLog, S, rep)  BY <1>3, <1>4
<1> QED  BY <1>2, <1>3, <1>6, <1>13, <1>14, PostInv

LEMMA PushLostInv ==
  ASSUME Assumed, SyncInv, TypeOK', NEW d \in Devices, NEW s \in Slots,
         PushAnswerLost(d, s)
  PROVE  SyncInv'
<1> DEFINE c == [NoCall EXCEPT !.ret = "err", !.edit = None]
<1>1. PICK S \in SUBSET Ids : sotLog' = Extend(sotLog, S, replica[d])
  <2>1. PICK S \in Applicable(call[d][s].local) : sotLog' = Extend(sotLog, S, replica[d])
    BY DEF PushAnswerLost
  <2>2. call[d][s].local \in SUBSET Ids  BY DEF SyncInv, TypeOK, Call
  <2>3. S \in SUBSET Ids  BY <2>1, <2>2 DEF Applicable
  <2> QED  BY <2>1, <2>3
<1>2. Set(d, s, c) /\ UNCHANGED <<replica, cursor>>  BY DEF PushAnswerLost, Return
<1>3. c \in Call /\ c.pc = "idle" /\ c.remote = {} /\ c.edit = None
  BY DEF NoCall, Call, Pcs, Rets
<1> HIDE DEF c
<1>4. CallOK(c, replica[d], cursor[d], sotLog')  BY <1>3, FreshCall DEF EditHeld
<1> QED  BY <1>1, <1>2, <1>3, <1>4, PostInv

LEMMA MergeInv ==
  ASSUME Assumed, SyncInv, TypeOK', NEW d \in Devices, NEW s \in Slots, Merge(d, s)
  PROVE  SyncInv'
<1> DEFINE c == call[d][s]
           old == replica[d]
           rep == replica'[d]
           cur == cursor[d]
           R == c.remote
           r == [c EXCEPT !.pc = "advance"]
<1>1. /\ old \in Log /\ sotLog \in Log /\ cur \in Ids \cup {None} /\ c \in Call
      /\ R \in SUBSET Ids
      /\ DeviceOK(old, cur, sotLog) /\ CallOK(c, old, cur, sotLog)
      /\ replica \in [Devices -> Log]
  BY DEF SyncInv, TypeOK, Call
<1>2. /\ c.pc = "merge" /\ Set(d, s, r) /\ UNCHANGED <<sotLog, cursor>>
  BY DEF Merge
<1>3. PICK log \in {Appended(old, c, sotLog), Rebased(old, c, sotLog)} :
        replica' = [replica EXCEPT ![d] = log]
  BY DEF Merge
<1>4. rep = log  BY <1>1, <1>3
<1>5. Settled(InLog(old) \cup R, sotLog)  BY <1>1, <1>2 DEF CallOK, CallFresh
<1>6. LocalFresh(c, old, cur)  BY <1>1 DEF CallOK, CallFresh
<1>7. \/ log = Extend(old, c.remote, sotLog)
      \/ log = Extend(Extend(Only(old, Ids \ c.local), c.remote, sotLog), c.local, old)
  BY <1>3 DEF Appended, Rebased
<1>8. InLog(log) = InLog(old) \cup R /\ DeviceOK(log, cur, sotLog)
  <2> HIDE DEF c, old, cur
  <2>1. c.remote \in SUBSET Ids /\ c.pc = "merge"  BY <1>1, <1>2 DEF R
  <2>2. InLog(log) = InLog(old) \cup c.remote /\ DeviceOK(log, cur, sotLog)
    BY <1>1, <1>6, <1>7, <2>1, MergeDevice
  <2> QED  BY <2>2 DEF R
<1>9. InLog(rep) = InLog(old) \cup R /\ DeviceOK(rep, cur, sotLog)  BY <1>4, <1>8
<1>10. r \in Call  BY <1>1 DEF Call, Pcs
<1>11. /\ r.pc = "advance" /\ r.start = c.start /\ r.local = c.local
       /\ r.edit = c.edit /\ r.ret = c.ret
  BY <1>1 DEF Call
<1>12. CallOK(r, rep, cur, sotLog)
  <2> HIDE DEF r
  <2>1. LocalFresh(r, rep, cur)  BY <1>1, <1>2, <1>11 DEF CallOK, CallFresh, LocalFresh
  <2>2. RemoteFresh(r, rep, cur, sotLog)  BY <1>11 DEF RemoteFresh
  <2>3. Settled(InLog(rep), sotLog)  BY <1>5, <1>9
  <2>4. EditHeld(r, rep, sotLog)  BY <1>1, <1>9, <1>11 DEF CallOK, EditHeld
  <2> QED  BY <1>11, <2>1, <2>2, <2>3, <2>4 DEF CallOK, CallFresh
<1>13. \A e \in Devices : e # d => replica'[e] = replica[e]  BY <1>1, <1>3
<1>14. \A e \in Devices, t \in Slots :
         call'[e][t] = IF e = d THEN r ELSE call[e][t]
  BY <1>2, <1>10, OnlyCall DEF SyncInv, TypeOK
<1> HIDE DEF c, r, old, rep, cur
<1>15. \A e \in Devices : DeviceOK(replica'[e], cursor'[e], sotLog')
  BY <1>2, <1>9, <1>13 DEF SyncInv, rep, cur
<1>16. \A e \in Devices, t \in Slots :
         CallOK(call'[e][t], replica'[e], cursor'[e], sotLog')
  BY <1>2, <1>12, <1>13, <1>14 DEF SyncInv, rep, cur
<1>17. Dense(sotLog')  BY <1>2 DEF SyncInv
<1> QED  BY <1>15, <1>16, <1>17 DEF SyncInv

LEMMA AdvanceInv ==
  ASSUME Assumed, SyncInv, TypeOK', NEW d \in Devices, NEW s \in Slots, Advance(d, s)
  PROVE  SyncInv'
<1> DEFINE c == call[d][s]
           rep == replica[d]
           cur == cursor'[d]
           r == [NoCall EXCEPT !.ret = "ok", !.edit = c.edit]
<1>1. /\ rep \in Log /\ sotLog \in Log /\ c \in Call /\ cursor[d] \in Ids \cup {None}
      /\ cursor \in [Devices -> Ids \cup {None}]
      /\ DeviceOK(rep, cursor[d], sotLog) /\ CallOK(c, rep, cursor[d], sotLog)
  BY DEF SyncInv, TypeOK
<1>2. c.pc = "advance" /\ Set(d, s, r) /\ UNCHANGED <<sotLog, replica>>
  BY DEF Advance, Return
<1>3. Settled(InLog(rep), sotLog)  BY <1>1, <1>2 DEF CallOK, CallFresh
<1>4. DeviceOK(rep, cur, sotLog)
  <2>1. CASE UNCHANGED cursor  BY <1>1, <2>1
  <2>2. CASE \E last \in InLog(rep) :
               After(rep, last) = {} /\ cursor' = [cursor EXCEPT ![d] = last]
    <3>1. PICK last \in InLog(rep) :
            After(rep, last) = {} /\ cursor' = [cursor EXCEPT ![d] = last]
      BY <2>2
    <3>2. cur = last  BY <1>1, <3>1
    <3>3. DeviceOK(rep, last, sotLog)
      BY <1>1, <1>3, <3>1, AdvanceDevice DEF DeviceOK
    <3> HIDE DEF cur
    <3> QED  BY <3>2, <3>3
  <2> QED  BY <2>1, <2>2 DEF Advance
<1>5. r \in Call  BY <1>1 DEF NoCall, Call, Pcs, Rets
<1>6. r.pc = "idle" /\ r.remote = {} /\ r.edit = c.edit  BY DEF NoCall
<1>7. CallOK(r, rep, cur, sotLog)
  <2> HIDE DEF r
  <2>1. c.edit # None => c.edit \in InLog(rep)  BY <1>1 DEF CallOK, EditHeld
  <2>2. EditHeld(r, rep, sotLog)  BY <1>3, <1>6, <2>1 DEF EditHeld, Settled
  <2> QED  BY <1>5, <1>6, <2>2, FreshCall
<1>8. \A e \in Devices : e # d => cursor'[e] = cursor[e]  BY <1>1 DEF Advance
<1>9. \A e \in Devices, t \in Slots :
        call'[e][t] = IF e = d THEN r ELSE call[e][t]
  BY <1>2, <1>5, OnlyCall DEF SyncInv, TypeOK
<1> HIDE DEF c, r, rep, cur
<1>10. \A e \in Devices : DeviceOK(replica'[e], cursor'[e], sotLog')
  BY <1>2, <1>4, <1>8 DEF SyncInv, rep, cur
<1>11. \A e \in Devices, t \in Slots :
         CallOK(call'[e][t], replica'[e], cursor'[e], sotLog')
  BY <1>2, <1>7, <1>8, <1>9 DEF SyncInv, rep, cur
<1>12. Dense(sotLog')  BY <1>2 DEF SyncInv
<1> QED  BY <1>10, <1>11, <1>12 DEF SyncInv

\* The steps of a call that move its place, and nothing the invariant relates.
LEMMA MoveInv ==
  ASSUME Assumed, SyncInv, TypeOK', NEW d \in Devices, NEW s \in Slots,
         \/ ReadCursor(d, s) \/ ReadLocal(d, s) \/ SealKeys(d, s)
         \/ \E v \in Vaults : UploadBlob(d, s, v)
  PROVE  SyncInv'
<1> DEFINE c == call[d][s]
           rep == replica[d]
           cur == cursor[d]
<1>1. /\ rep \in Log /\ sotLog \in Log /\ cur \in Ids \cup {None} /\ c \in Call
      /\ CallOK(c, rep, cur, sotLog)
  BY DEF SyncInv, TypeOK
<1>2. CASE ReadCursor(d, s)
  <2> DEFINE r == [c EXCEPT !.pc = "local", !.start = cur]
  <2>1. Set(d, s, r) /\ UNCHANGED <<sotLog, replica, cursor>> /\ c.pc = "cursor"
    BY <1>2 DEF ReadCursor
  <2>2. /\ r \in Call /\ r.pc = "local" /\ r.start = cur /\ r.remote = c.remote
        /\ r.edit = c.edit /\ r.ret = c.ret
    BY <1>1 DEF Call, Pcs
  <2> HIDE DEF r
  <2>3. CallOK(r, rep, cur, sotLog)
    BY <1>1, <2>1, <2>2 DEF CallOK, CallFresh, LocalFresh, RemoteFresh, EditHeld
  <2> QED  BY <2>1, <2>2, <2>3, QuietStep
<1>3. CASE ReadLocal(d, s)
  <2> DEFINE r == [c EXCEPT !.pc = "count", !.local = After(rep, c.start)]
  <2>1. Set(d, s, r) /\ UNCHANGED <<sotLog, replica, cursor>> /\ c.pc = "local"
    BY <1>3 DEF ReadLocal
  <2>2. After(rep, c.start) \in SUBSET Ids  BY AfterIds
  <2>3. /\ r \in Call /\ r.pc = "count" /\ r.start = c.start /\ r.remote = c.remote
        /\ r.edit = c.edit /\ r.ret = c.ret /\ r.local = After(rep, c.start)
    BY <1>1, <2>2 DEF Call, Pcs
  <2> HIDE DEF r
  <2>4. c.start = cur  BY <1>1, <2>1 DEF CallOK, CallFresh, LocalFresh
  <2>5. CallOK(r, rep, cur, sotLog)
    BY <1>1, <2>1, <2>3, <2>4 DEF CallOK, CallFresh, LocalFresh, RemoteFresh, EditHeld
  <2> QED  BY <2>1, <2>3, <2>5, QuietStep
<1>4. CASE SealKeys(d, s)
  <2> DEFINE r == [c EXCEPT !.pc = "push"]
  <2>1. Set(d, s, r) /\ UNCHANGED <<sotLog, replica, cursor>> /\ c.pc = "keys"
    BY <1>4 DEF SealKeys
  <2>2. /\ r \in Call /\ r.pc = "push" /\ r.start = c.start /\ r.remote = c.remote
        /\ r.edit = c.edit /\ r.ret = c.ret /\ r.local = c.local /\ r.count = c.count
    BY <1>1 DEF Call, Pcs
  <2> HIDE DEF r
  <2>3. CallOK(r, rep, cur, sotLog)
    BY <1>1, <2>1, <2>2 DEF CallOK, CallFresh, LocalFresh, RemoteFresh, EditHeld
  <2> QED  BY <2>1, <2>2, <2>3, QuietStep
<1>5. CASE \E v \in Vaults : UploadBlob(d, s, v)
  <2>0. PICK v \in Vaults : UploadBlob(d, s, v)  BY <1>5
  <2> DEFINE rest == c.todo \ {v}
             r == [c EXCEPT !.todo = rest,
                     !.pc = IF rest = {} THEN "merge" ELSE "blobs"]
  <2>1. Set(d, s, r) /\ UNCHANGED <<sotLog, replica, cursor>> /\ c.pc = "blobs"
    BY <2>0 DEF UploadBlob
  <2>2. rest \in SUBSET Vaults  BY <1>1 DEF Call
  <2>3. /\ r \in Call /\ r.pc \in {"merge", "blobs"} /\ r.start = c.start
        /\ r.remote = c.remote /\ r.edit = c.edit /\ r.ret = c.ret
        /\ r.local = c.local /\ r.count = c.count
    BY <1>1, <2>2 DEF Call, Pcs
  <2> HIDE DEF r
  <2>4. CallOK(r, rep, cur, sotLog)
    BY <1>1, <2>1, <2>3 DEF CallOK, CallFresh, LocalFresh, RemoteFresh, EditHeld
  <2> QED  BY <2>1, <2>3, <2>4, QuietStep
<1> QED  BY <1>2, <1>3, <1>4, <1>5

LEMMA CrashInv ==
  ASSUME Assumed, SyncInv, TypeOK', NEW d \in Devices, Crash(d)
  PROVE  SyncInv'
<1>1. UNCHANGED <<sotLog, replica, cursor>>  BY DEF Crash
<1>2. NoCall \in Call /\ NoCall.pc = "idle" /\ NoCall.remote = {} /\ NoCall.edit = None
  BY NoCallType DEF NoCall
<1>3. CallOK(NoCall, replica[d], cursor[d], sotLog)  BY <1>2, FreshCall DEF EditHeld
<1>4. \A e \in Devices, t \in Slots :
        call'[e][t] = IF e = d THEN NoCall ELSE call[e][t]
  BY DEF Crash, SyncInv, TypeOK
<1>5. \A e \in Devices, t \in Slots :
        CallOK(call'[e][t], replica[e], cursor[e], sotLog)
  BY <1>3, <1>4 DEF SyncInv
<1> QED  BY <1>1, <1>5 DEF SyncInv

LEMMA SyncInvStep == Assumed /\ SyncInv /\ [Next]_vars => SyncInv'
<1> SUFFICES ASSUME Assumed, SyncInv, [Next]_vars  PROVE SyncInv'
  OBVIOUS
<1>0. TypeOK'  BY TypeStep DEF SyncInv
<1>1. CASE UNCHANGED vars
  <2>1. UNCHANGED <<sotLog, replica, cursor, call>>  BY <1>1 DEF vars
  <2> QED  BY <1>0, <2>1 DEF SyncInv
<1>2. ASSUME NEW d \in Devices, NEW s \in Slots, StartSync(d, s) \/ List(d, s)
      PROVE  SyncInv'
  <2>1. UNCHANGED <<sotLog, replica, cursor>>  BY <1>2 DEF StartSync, List
  <2>2. \E kind \in {"sync", "check"} : Begin(d, s, kind, None)
    BY <1>2 DEF StartSync, List
  <2> QED  BY <1>0, <2>1, <2>2, BeginStep
<1>3. ASSUME NEW d \in Devices, NEW s \in Slots, EditStep(d, s)
      PROVE  SyncInv'
  <2>1. \E c \in Ids, v \in Vaults, op \in Ops : Edit(d, s, c, op, v)
    BY <1>3 DEF EditStep, CreateVault, UpdateVault, DeleteVault, Ops
  <2> QED  BY <1>0, <2>1, EditInv
<1>4. ASSUME NEW d \in Devices, NEW s \in Slots, SyncStep(d, s)
      PROVE  SyncInv'
  <2>1. CASE PushRefused(d, s) \/ BlobMissing(d, s)
    <3>1. UNCHANGED <<sotLog, replica, cursor>> /\ Return(d, s, "err")
      BY <2>1 DEF PushRefused, BlobMissing
    <3> QED  BY <1>0, <3>1, ReturnStep DEF Rets
  <2> QED
    BY <1>0, <1>4, <2>1, CountInv, FetchInv, PushInv, MergeInv, AdvanceInv, MoveInv
    DEF SyncStep
<1>5. ASSUME NEW d \in Devices, NEW s \in Slots, FaultStep(d, s)
      PROVE  SyncInv'
  <2>1. CASE UploadAnswerLost(d, s) \/ Fail(d, s)
    <3>1. UNCHANGED <<sotLog, replica, cursor>> /\ Return(d, s, "err")
      BY <2>1 DEF UploadAnswerLost, Fail
    <3> QED  BY <1>0, <3>1, ReturnStep DEF Rets
  <2> QED  BY <1>0, <1>5, <2>1, PushLostInv DEF FaultStep
<1>6. ASSUME NEW d \in Devices, Crash(d)  PROVE SyncInv'
  BY <1>0, <1>6, CrashInv
<1>7. ASSUME NEW d \in Devices, NEW v \in Vaults, DownloadBlob(d, v)  PROVE SyncInv'
  <2>1. UNCHANGED <<sotLog, replica, cursor, call>>  BY <1>7 DEF DownloadBlob
  <2> QED  BY <1>0, <2>1 DEF SyncInv
<1> QED  BY <1>1, <1>2, <1>3, <1>4, <1>5, <1>6, <1>7 DEF Next

LEMMA SyncInvInit == Init => SyncInv
<1> SUFFICES ASSUME Init  PROVE SyncInv
  OBVIOUS
<1>4. NoCall.pc = "idle" /\ NoCall.remote = {} /\ NoCall.edit = None  BY DEF NoCall
<1>5. CallOK(NoCall, EmptyLog, None, EmptyLog)
  BY <1>4, NoCallType, FreshCall DEF EditHeld
<1> QED  BY <1>5, EmptyDevice, TypeInit DEF Init, SyncInv

\* With one call at a time on each device, and a daemon that applies batches whole
\* and refuses them on a log the client has not seen to its end, the invariant
\* holds whatever fails and whenever the program stops.
THEOREM SyncInvariant == ASSUME Assumed PROVE Spec => []SyncInv
<1>1. Init => SyncInv  BY SyncInvInit
<1>2. SyncInv /\ [Next]_vars => SyncInv'  BY SyncInvStep
<1> QED  BY <1>1, <1>2, PTL DEF Spec

\* When List in manual mode answers that no sync is needed, the replica and the
\* daemon hold the same changes.
THEOREM ManualCheck == ASSUME Assumed PROVE Spec => ManualCheckSound
<1> DEFINE Sound ==
      \A d \in Devices, s \in Slots :
        call[d][s].pc = "count" /\ call'[d][s].pc = "idle" /\ call'[d][s].ret = "clean"
          => InLog(replica[d]) = InLog(sotLog)
<1>1. SyncInv /\ [Next]_vars => Sound
  <2> SUFFICES ASSUME SyncInv, [Next]_vars, NEW d \in Devices, NEW s \in Slots,
                      call[d][s].pc = "count", call'[d][s].pc = "idle",
                      call'[d][s].ret = "clean"
               PROVE  InLog(replica[d]) = InLog(sotLog)
    OBVIOUS
  <2> DEFINE c == call[d][s]
             rep == replica[d]
             cur == cursor[d]
  <2>1. call'[d][s] # call[d][s] /\ call' # call  OBVIOUS
  <2>2. call \in [Devices -> [Slots -> Call]]  BY DEF SyncInv, TypeOK
  <2>3. ASSUME NEW e \in Devices, NEW t \in Slots, NEW r, Set(e, t, r)
        PROVE  e = d /\ t = s /\ call'[d][s] = r
    <3>1. t = s  BY DEF Assumed, SerialCalls
    <3> QED  BY <2>1, <2>2, <2>3, <3>1 DEF Set
  <2>4. ASSUME NEW e \in Devices, NEW t \in Slots,
               StartSync(e, t) \/ List(e, t) \/ EditStep(e, t)
        PROVE  FALSE
    <3>1. call[e][t].pc = "idle"
      BY <2>4 DEF StartSync, List, EditStep, CreateVault, UpdateVault, DeleteVault, Edit
    <3>2. \E r : Set(e, t, r)
      BY <2>4 DEF StartSync, List, EditStep, CreateVault, UpdateVault, DeleteVault,
                  Edit, Begin
    <3> QED  BY <2>3, <3>1, <3>2
  <2>5. ASSUME NEW e \in Devices, NEW t \in Slots, FaultStep(e, t)
        PROVE  FALSE
    <3>1. Return(e, t, "err")  BY <2>5 DEF FaultStep, PushAnswerLost, UploadAnswerLost, Fail
    <3>2. call'[d][s] = [NoCall EXCEPT !.ret = "err", !.edit = None]
      BY <2>3, <3>1 DEF Return
    <3> QED  BY <3>2 DEF NoCall
  <2>6. ASSUME NEW e \in Devices, Crash(e)  PROVE FALSE
    <3>1. e = d  BY <2>1, <2>2, <2>6 DEF Crash
    <3>2. call'[d][s] = NoCall  BY <2>2, <2>6, <3>1 DEF Crash
    <3> QED  BY <3>2 DEF NoCall
  <2>7. ASSUME NEW e \in Devices, NEW t \in Slots, SyncStep(e, t)
        PROVE  CountRemote(d, s)
    <3>1. \E r : Set(e, t, r)
      BY <2>7 DEF SyncStep, ReadCursor, ReadLocal, CountRemote, FetchRemote, SealKeys,
                  Push, PushRefused, UploadBlob, BlobMissing, Merge, Advance, Return
    <3>2. e = d /\ t = s  BY <2>3, <3>1
    <3> QED
      BY <2>7, <3>2 DEF SyncStep, ReadCursor, ReadLocal, FetchRemote, SealKeys,
                  Push, PushRefused, UploadBlob, BlobMissing, Merge, Advance
  <2>8. CountRemote(d, s)
    BY <2>1, <2>4, <2>5, <2>6, <2>7 DEF Next, vars, DownloadBlob
  <2>9. /\ rep \in Log /\ sotLog \in Log /\ cur \in Ids \cup {None}
        /\ DeviceOK(rep, cur, sotLog) /\ CallOK(c, rep, cur, sotLog)
    BY DEF SyncInv, TypeOK
  <2>10. c.start = cur /\ c.local = After(rep, cur)  BY <2>9 DEF CallOK, CallFresh, LocalFresh
  <2> DEFINE n == Cardinality(After(sotLog, c.start))
  <2>11. c.local = {} /\ n = 0
    <3>1. CASE c.kind = "check"
      <4>1. Return(d, s, IF c.local = {} /\ n = 0 THEN "clean" ELSE "dirty")
        BY <2>8, <3>1 DEF CountRemote
      <4> SUFFICES ASSUME ~(c.local = {} /\ n = 0)  PROVE FALSE
        OBVIOUS
      <4>2. Return(d, s, "dirty")  BY <4>1
      <4>3. Set(d, s, [NoCall EXCEPT !.ret = "dirty", !.edit = None])
        BY <4>2 DEF Return
      <4>4. call'[d][s] = [NoCall EXCEPT !.ret = "dirty", !.edit = None]
        BY <2>3, <4>3
      <4> QED  BY <4>4 DEF NoCall
    <3>2. CASE c.kind # "check"
      <4> DEFINE r == [c EXCEPT !.count = n,
                         !.pc = IF n = 0 THEN AfterFetch(c.local) ELSE "fetch"]
      <4>1. Set(d, s, r)  BY <2>8, <3>2 DEF CountRemote
      <4>2. c \in Call  BY <2>2
      <4>3. r.pc # "idle"  BY <4>2 DEF Call, AfterFetch
      <4> QED  BY <2>3, <4>1, <4>3
    <3> QED  BY <3>1, <3>2
  <2>12. After(sotLog, cur) = {}  BY <2>10, <2>11, AfterIds, IdSets
  <2> QED  BY <2>9, <2>10, <2>11, <2>12, NothingToFetch
<1> QED  BY <1>1, SyncInvariant, PTL DEF Spec, ManualCheckSound

--------------------------------------------------------------------------------
(* Calls that overlap *)

\* The inductive invariant behind OverlapLosesOnlyRaced.  lost are the raced edits of
\* the device, and bare its creations whose record blob the daemon does not hold.
Used == {x \in Ids : made[x] # NoChange}
RacedBy(d) == {x \in raced : made[x].by = d}
Blobless(d) == {x \in Creates(Used) : made[x].by = d /\ made[x].vault \notin sotBlobs}

\* Every log holds changes in use, and a device those it made itself.
UsedOnly ==
  /\ raced \cup InLog(sotLog) \subseteq Used
  /\ \A d \in Devices : InLog(replica[d]) \subseteq Used
  /\ \A x \in Used : x \in InLog(replica[made[x].by])

\* A device: only a raced edit can be skipped, and with none nothing is.
OverlapDevice(rep, cur, sot, lost, bare) ==
  /\ Dense(rep)
  /\ cur \in InLog(rep) \cup {None}
  /\ Behind(rep, cur) \subseteq InLog(sot) \cup lost
  /\ lost = {} => /\ Behind(sot, cur) \subseteq InLog(rep)
                  /\ Behind(rep, cur) \cap bare = {}

\* A call: what it has read may be out of date, but what it did not read as pending
\* is at the daemon, and so is everything once it has posted.
OverlapSent(c, rep, sot, lost) ==
  /\ c.kind = "check" => c.pc \in {"idle", "cursor", "local", "count"}
  /\ c.pc \in {"cursor", "local", "count", "fetch"} => c.remote = {}
  /\ c.remote \subseteq InLog(sot)
  /\ c.pc = "local" =>
       c.start \in InLog(rep) \cup {None} /\ Behind(rep, c.start) \subseteq InLog(sot) \cup lost
  /\ c.kind = "sync" /\ c.pc \in {"count", "fetch", "keys", "push"} =>
       c.local \subseteq InLog(rep) /\ InLog(rep) \ c.local \subseteq InLog(sot) \cup lost
  /\ c.pc \in {"blobs", "merge"} => c.local \subseteq InLog(rep)
  /\ c.pc \in {"blobs", "merge", "advance"} => InLog(rep) \subseteq InLog(sot) \cup lost

\* On a device without a raced edit: it has seen the daemon's log up to its start,
\* and with what it fetched it will hold an initial segment of it.
OverlapSeen(c, rep, sot) ==
  /\ c.pc \in {"local", "count", "fetch", "keys", "push"} =>
       c.start \in InLog(sot) \cup {None} /\ Behind(sot, c.start) \subseteq InLog(rep)
  /\ c.pc \in {"fetch", "keys", "push"} => c.count <= Cardinality(After(sot, c.start))
  /\ c.pc = "fetch" /\ c.local = {} =>
       Settled(InLog(rep) \cup FirstAfter(sot, c.start, c.count), sot)
  /\ c.pc \in {"keys", "push"} =>
       /\ c.remote \subseteq After(sot, c.start)
       /\ Cardinality(After(sot, c.start)) = c.count => c.remote = After(sot, c.start)
  /\ c.pc \in {"blobs", "merge"} => Settled(InLog(rep) \cup c.remote, sot)
  /\ c.pc = "advance" => Settled(InLog(rep), sot)

\* On such a device, too: the creations it did not read as pending have their blobs,
\* and after the uploads all have.
OverlapBlobs(c, rep, bare) ==
  /\ c.pc = "local" => Behind(rep, c.start) \cap bare = {}
  /\ c.kind = "sync" /\ c.pc \in {"count", "fetch", "keys", "push"} =>
       (InLog(rep) \ c.local) \cap bare = {}
  /\ c.pc = "blobs" => VaultsOf(InLog(rep) \cap bare) \subseteq c.todo
  /\ c.pc \in {"merge", "advance"} => InLog(rep) \cap bare = {}

OverlapEdit(d, c) ==
  c.edit # None =>
    /\ c.edit \in Used /\ made[c.edit].by = d
    /\ c.ret = "ok" => c.edit \in InLog(sotLog) \cup RacedBy(d)

OverlapCall(d, c) ==
  /\ OverlapSent(c, replica[d], sotLog, RacedBy(d))
  /\ RacedBy(d) = {} =>
       OverlapSeen(c, replica[d], sotLog) /\ OverlapBlobs(c, replica[d], Blobless(d))
  /\ OverlapEdit(d, c)

OverlapInv ==
  /\ TypeOK /\ Dense(sotLog) /\ UsedOnly
  /\ \A d \in Devices :
       OverlapDevice(replica[d], cursor[d], sotLog, RacedBy(d), Blobless(d))
  /\ \A d \in Devices, s \in Slots : OverlapCall(d, call[d][s])

\* What the daemon has to promise when the calls of a device overlap: its answer
\* must list the changes it held already, since the call that posted them first may
\* have been cut, or may be uploading still.
OverlapAssumed == {"all", "window", "known"} \subseteq Promises

\* Another call's post, a lost upload, an edit: the daemon's log grows by changes in
\* use, and nothing that was known of a change in use is taken back.
Growth ==
  /\ \E S \in SUBSET Used, ord \in Log : sotLog' = Extend(sotLog, S, ord)
  /\ \A x \in Used : made'[x] = made[x]
  /\ sotBlobs \subseteq sotBlobs'
  /\ raced \subseteq raced'

LEMMA GrowSent ==
  ASSUME NEW c, NEW rep, NEW sot, NEW ext, InLog(sot) \subseteq InLog(ext),
         NEW lost, NEW more, lost \subseteq more, OverlapSent(c, rep, sot, lost)
  PROVE  OverlapSent(c, rep, ext, more)
BY DEF OverlapSent

LEMMA GrowSeen ==
  ASSUME NEW c, c.count \in Nat, NEW rep \in Log, NEW sot \in Log, Dense(sot),
         NEW ord \in Log, NEW S \in SUBSET Ids, OverlapSeen(c, rep, sot)
  PROVE  OverlapSeen(c, rep, Extend(sot, S, ord))
<1> DEFINE ext == Extend(sot, S, ord)
<1>1. InLog(ext) = InLog(sot) \cup S  BY ExtendInLog
<1>2. \A held : Settled(held, sot) => Settled(held, ext)  BY GrowSettled
<1>3. ASSUME c.pc \in {"local", "count", "fetch", "keys", "push"}
      PROVE  /\ c.start \in InLog(sot) \cup {None}
             /\ c.start \in InLog(ext) \cup {None}
             /\ Behind(ext, c.start) \subseteq InLog(rep)
             /\ After(ext, c.start) = After(sot, c.start) \cup (S \ InLog(sot))
  <2>1. c.start \in InLog(sot) \cup {None} /\ Behind(sot, c.start) \subseteq InLog(rep)
    BY <1>3 DEF OverlapSeen
  <2>2. /\ Behind(ext, c.start) = Behind(sot, c.start)
        /\ After(ext, c.start) = After(sot, c.start) \cup (S \ InLog(sot))
    BY <2>1, ExtendBehind
  <2> QED  BY <1>1, <2>1, <2>2
<1>4. ASSUME c.pc \in {"fetch", "keys", "push"}
      PROVE  /\ c.count <= Cardinality(After(sot, c.start))
             /\ c.count <= Cardinality(After(ext, c.start))
             /\ Cardinality(After(ext, c.start)) = c.count
                  => /\ Cardinality(After(sot, c.start)) = c.count
                     /\ After(ext, c.start) = After(sot, c.start)
  <2> DEFINE old == After(sot, c.start)
             now == After(ext, c.start)
  <2>1. old \in SUBSET now  BY <1>3, <1>4
  <2>2. now \in SUBSET Ids /\ old \in SUBSET Ids /\ IsFiniteSet(now)  BY AfterIds, IdSets
  <2>3. /\ Cardinality(old) \in Nat /\ Cardinality(now) \in Nat
        /\ Cardinality(old) <= Cardinality(now)
        /\ Cardinality(old) = Cardinality(now) => old = now
    BY <2>1, <2>2, IdSets, FS_Subset
  <2>4. c.count <= Cardinality(old) /\ c.count \in Nat  BY <1>4 DEF OverlapSeen
  <2> HIDE DEF old, now
  <2>5. c.count <= Cardinality(now)  BY <2>3, <2>4
  <2>6. Cardinality(now) = c.count => Cardinality(old) = c.count /\ now = old
    BY <2>3, <2>4
  <2> QED  BY <2>4, <2>5, <2>6 DEF old, now
<1>5. ASSUME c.pc = "fetch", c.local = {}
      PROVE  Settled(InLog(rep) \cup FirstAfter(ext, c.start, c.count), ext)
  <2>1. FirstAfter(ext, c.start, c.count) = FirstAfter(sot, c.start, c.count)
    BY <1>3, <1>4, <1>5, ExtendFirst
  <2>2. Settled(InLog(rep) \cup FirstAfter(sot, c.start, c.count), sot)
    BY <1>5 DEF OverlapSeen
  <2> QED  BY <1>2, <2>1, <2>2
<1>6. ASSUME c.pc \in {"keys", "push"}
      PROVE  /\ c.remote \subseteq After(ext, c.start)
             /\ Cardinality(After(ext, c.start)) = c.count
                  => c.remote = After(ext, c.start)
  BY <1>3, <1>4, <1>6 DEF OverlapSeen
<1>7. /\ c.pc \in {"blobs", "merge"} => Settled(InLog(rep) \cup c.remote, ext)
      /\ c.pc = "advance" => Settled(InLog(rep), ext)
  BY <1>2 DEF OverlapSeen
<1> HIDE DEF ext
<1>8. c.pc \in {"local", "count", "fetch", "keys", "push"} =>
       c.start \in InLog(ext) \cup {None} /\ Behind(ext, c.start) \subseteq InLog(rep)
  BY <1>3
<1>9. c.pc \in {"fetch", "keys", "push"} => c.count <= Cardinality(After(ext, c.start))
  BY <1>4
<1> QED  BY <1>5, <1>6, <1>7, <1>8, <1>9 DEF OverlapSeen, ext

\* On a device whose replica stays as it is, no change becomes bare again.
LEMMA GrowBare ==
  ASSUME UsedOnly, Growth, NEW d \in Devices, NEW T \in SUBSET InLog(replica[d])
  PROVE  /\ RacedBy(d) \subseteq RacedBy(d)'
         /\ T \cap Blobless(d)' \subseteq Blobless(d)
         /\ Used \subseteq Used'
         /\ \A x \in T : x \in Used /\ made'[x] = made[x]
<1>1. raced \subseteq Used /\ InLog(replica[d]) \subseteq Used  BY DEF UsedOnly
<1>2. \A x \in Used : made'[x] = made[x]  BY DEF Growth
<1>3. RacedBy(d) \subseteq RacedBy(d)'  BY <1>1, <1>2 DEF RacedBy, Growth
<1>4. T \cap Blobless(d)' \subseteq Blobless(d)
  BY <1>1, <1>2 DEF Blobless, Creates, Growth
<1>5. Used \subseteq Used'  BY <1>2 DEF Used
<1> QED  BY <1>1, <1>2, <1>3, <1>4, <1>5

LEMMA GrowSot ==
  ASSUME OverlapInv, Growth
  PROVE  /\ Dense(sotLog') /\ InLog(sotLog) \subseteq InLog(sotLog')
         /\ InLog(sotLog') \subseteq Used
         /\ \A c \in InLog(sotLog) \cup {None} : Behind(sotLog', c) = Behind(sotLog, c)
<1>1. PICK S \in SUBSET Used, ord \in Log : sotLog' = Extend(sotLog, S, ord)
  BY DEF Growth
<1>2. S \in SUBSET Ids  BY DEF Used
<1>3. sotLog \in Log /\ Dense(sotLog) /\ InLog(sotLog) \subseteq Used
  BY DEF OverlapInv, TypeOK, UsedOnly
<1>4. InLog(sotLog') = InLog(sotLog) \cup S  BY <1>1, <1>2, <1>3, ExtendInLog
<1>5. Dense(sotLog')  BY <1>1, <1>2, <1>3, ExtendDense
<1>6. \A c \in InLog(sotLog) \cup {None} : Behind(sotLog', c) = Behind(sotLog, c)
  BY <1>1, <1>2, <1>3, ExtendBehind
<1> QED  BY <1>3, <1>4, <1>5, <1>6

LEMMA GrowOverlapDevice ==
  ASSUME OverlapInv, Growth, NEW d \in Devices,
         replica'[d] = replica[d], cursor'[d] = cursor[d]
  PROVE  OverlapDevice(replica[d], cursor[d], sotLog, RacedBy(d), Blobless(d))'
<1> DEFINE rep == replica[d]
           cur == cursor[d]
           B == Behind(rep, cur)
<1>1. /\ OverlapDevice(rep, cur, sotLog, RacedBy(d), Blobless(d))
      /\ UsedOnly /\ B \in SUBSET InLog(rep)
  BY Sides DEF OverlapInv
<1>2. RacedBy(d) \subseteq RacedBy(d)' /\ B \cap Blobless(d)' \subseteq Blobless(d)
  BY <1>1, GrowBare
<1>3. /\ InLog(sotLog) \subseteq InLog(sotLog')
      /\ \A c \in InLog(sotLog) \cup {None} : Behind(sotLog', c) = Behind(sotLog, c)
  BY GrowSot
<1>4. RacedBy(d) = {} => cur \in InLog(sotLog) \cup {None}
  <2> SUFFICES ASSUME RacedBy(d) = {}, cur # None  PROVE cur \in InLog(sotLog)
    OBVIOUS
  <2>1. cur \in InLog(rep) /\ B \subseteq InLog(sotLog)  BY <1>1 DEF OverlapDevice
  <2>2. rep \in Log  BY DEF OverlapInv, TypeOK
  <2>3. cur \in B  BY <2>1, <2>2 DEF Behind, Row, InLog, Log
  <2> QED  BY <2>1, <2>3
<1>5. OverlapDevice(rep, cur, sotLog', RacedBy(d)', Blobless(d)')
  BY <1>1, <1>2, <1>3, <1>4 DEF OverlapDevice
<1> QED  BY <1>5

LEMMA GrowOverlapCall ==
  ASSUME OverlapInv, Growth, NEW d \in Devices, NEW c \in Call, OverlapCall(d, c),
         replica'[d] = replica[d]
  PROVE  OverlapCall(d, c)'
<1> DEFINE rep == replica[d]
<1>1. /\ UsedOnly /\ rep \in Log /\ sotLog \in Log /\ Dense(sotLog) /\ c.count \in Nat
  BY DEF OverlapInv, TypeOK, Call
<1>2. PICK S \in SUBSET Used, ord \in Log : sotLog' = Extend(sotLog, S, ord)
  BY DEF Growth
<1>3. S \in SUBSET Ids  BY DEF Used
<1>4. /\ RacedBy(d) \subseteq RacedBy(d)'
      /\ \A T \in SUBSET InLog(rep) : T \cap Blobless(d)' \subseteq Blobless(d)
      /\ Used \subseteq Used'
      /\ \A x \in InLog(rep) : x \in Used /\ made'[x] = made[x]
  BY <1>1, GrowBare
<1>5. InLog(sotLog) \subseteq InLog(sotLog')  BY GrowSot
<1>6. OverlapSent(c, rep, sotLog', RacedBy(d)')  BY <1>4, <1>5, GrowSent DEF OverlapCall
<1>7. RacedBy(d)' = {} => OverlapSeen(c, rep, sotLog')
  <2> SUFFICES ASSUME RacedBy(d)' = {}  PROVE OverlapSeen(c, rep, sotLog')
    OBVIOUS
  <2>1. OverlapSeen(c, rep, sotLog)  BY <1>4 DEF OverlapCall
  <2>2. OverlapSeen(c, rep, Extend(sotLog, S, ord))  BY <1>1, <1>3, <2>1, GrowSeen
  <2> QED  BY <1>2, <2>2
<1>8. RacedBy(d)' = {} => OverlapBlobs(c, rep, Blobless(d))'
  <2> SUFFICES ASSUME RacedBy(d)' = {}  PROVE OverlapBlobs(c, rep, Blobless(d))'
    OBVIOUS
  <2>1. OverlapBlobs(c, rep, Blobless(d))  BY <1>4 DEF OverlapCall
  <2>2. rep' = rep /\ InLog(rep) \cap Blobless(d)' \subseteq Blobless(d)  BY <1>4
  <2>3. VaultsOf(InLog(rep) \cap Blobless(d))' \subseteq VaultsOf(InLog(rep) \cap Blobless(d))
    BY <1>4, <2>2 DEF VaultsOf
  <2>4. Behind(rep, c.start) \subseteq InLog(rep)  BY Sides
  <2>5. c.pc = "local" => Behind(rep, c.start) \cap Blobless(d)' = {}
    BY <2>1, <2>2, <2>4 DEF OverlapBlobs
  <2>6. c.kind = "sync" /\ c.pc \in {"count", "fetch", "keys", "push"} =>
          (InLog(rep) \ c.local) \cap Blobless(d)' = {}
    BY <2>1, <2>2 DEF OverlapBlobs
  <2>7. c.pc = "blobs" => VaultsOf(InLog(rep) \cap Blobless(d))' \subseteq c.todo
    BY <2>1, <2>3 DEF OverlapBlobs
  <2>8. c.pc \in {"merge", "advance"} => InLog(rep) \cap Blobless(d)' = {}
    BY <2>1, <2>2 DEF OverlapBlobs
  <2> QED  BY <2>2, <2>5, <2>6, <2>7, <2>8 DEF OverlapBlobs
<1>9. OverlapEdit(d, c)'
  <2>1. \A x \in Used : made'[x] = made[x]  BY DEF Growth
  <2> QED  BY <1>4, <1>5, <2>1 DEF OverlapEdit, OverlapCall
<1> QED  BY <1>6, <1>7, <1>8, <1>9 DEF OverlapCall

\* A step that leaves replicas, cursors and edits alone, but for its own call and
\* what the daemon holds.
LEMMA OverlapSet ==
  ASSUME OverlapInv, TypeOK', Growth, UNCHANGED <<made, raced, replica, cursor>>,
         NEW d \in Devices, NEW s \in Slots, NEW c \in Call, Set(d, s, c),
         OverlapCall(d, c)'
  PROVE  OverlapInv'
<1>1. /\ UsedOnly /\ call \in [Devices -> [Slots -> Call]]
      /\ \A e \in Devices, t \in Slots : OverlapCall(e, call[e][t])
  BY DEF OverlapInv, TypeOK
<1>2. Dense(sotLog') /\ InLog(sotLog') \subseteq Used  BY GrowSot
<1>3. UsedOnly'
  <2>1. Used' = Used  BY DEF Used
  <2> QED  BY <1>1, <1>2, <2>1 DEF UsedOnly
<1>4. \A e \in Devices :
        OverlapDevice(replica[e], cursor[e], sotLog, RacedBy(e), Blobless(e))'
  BY GrowOverlapDevice
<1>5. ASSUME NEW e \in Devices, NEW t \in Slots  PROVE OverlapCall(e, call[e][t])'
  <2>1. ASSUME NEW r \in Call, OverlapCall(e, r)  PROVE OverlapCall(e, r)'
    BY <2>1, GrowOverlapCall
  <2>2. call'[e][t] = c \/ call'[e][t] = call[e][t]  BY <1>1 DEF Set
  <2>3. CASE e = d /\ t = s
    <3>1. call'[e][t] = c  BY <1>1, <2>3 DEF Set
    <3> QED  BY <2>3, <3>1 DEF OverlapCall, OverlapEdit
  <2>4. CASE ~(e = d /\ t = s)
    <3>1. call'[e][t] = call[e][t]  BY <1>1, <2>4 DEF Set
    <3>2. call[e][t] \in Call /\ OverlapCall(e, call[e][t])  BY <1>1
    <3>3. PICK r \in Call : r = call[e][t] /\ OverlapCall(e, r)'  BY <2>1, <3>2
    <3> QED  BY <3>1, <3>3 DEF OverlapCall, OverlapEdit
  <2> QED  BY <2>3, <2>4
<1> QED  BY <1>2, <1>3, <1>4, <1>5 DEF OverlapInv

LEMMA NoGrowth ==
  ASSUME TypeOK, UNCHANGED <<made, raced, sotLog>>, sotBlobs \subseteq sotBlobs'
  PROVE  Growth
<1>1. {} \in SUBSET Used /\ sotLog \in Log  BY DEF TypeOK
<1>2. sotLog' = Extend(sotLog, {}, sotLog)  BY <1>1, ExtendNothing
<1> QED  BY <1>1, <1>2 DEF Growth

\* A step that changes nothing but its own call.
LEMMA OverlapQuiet ==
  ASSUME OverlapInv, TypeOK', UNCHANGED <<made, raced, sotLog, sotBlobs, replica, cursor>>,
         NEW d \in Devices, NEW s \in Slots, NEW c \in Call, Set(d, s, c),
         OverlapCall(d, c)
  PROVE  OverlapInv'
<1>1. Growth  BY NoGrowth DEF OverlapInv
<1>2. OverlapCall(d, c)'  BY <1>1, GrowOverlapCall
<1> QED  BY <1>1, <1>2, OverlapSet

\* A call that has returned with an error, or has read nothing, knows nothing.
LEMMA OverlapFresh ==
  ASSUME NEW d \in Devices, NEW c \in Call, c.pc \in {"idle", "cursor"}, c.remote = {},
         c.edit = None
  PROVE  OverlapCall(d, c)
BY DEF OverlapCall, OverlapSent, OverlapSeen, OverlapBlobs, OverlapEdit

\* A call that ends without success, whatever reached the daemon before it did.
LEMMA OverlapReturn ==
  ASSUME OverlapInv, TypeOK', Growth, UNCHANGED <<made, raced, replica, cursor>>,
         NEW d \in Devices, NEW s \in Slots, NEW ret \in Rets \ {"ok"}, Return(d, s, ret)
  PROVE  OverlapInv'
<1> DEFINE c == [NoCall EXCEPT !.ret = ret, !.edit = None]
<1>1. Set(d, s, c)  BY DEF Return
<1>2. c \in Call /\ c.pc = "idle" /\ c.remote = {} /\ c.edit = None
  BY DEF NoCall, Call, Pcs, Rets
<1>3. ASSUME NEW r \in Call, r.pc = "idle", r.remote = {}, r.edit = None
      PROVE  OverlapCall(d, r)'
  <2>1. OverlapCall(d, r)  BY <1>3, OverlapFresh
  <2> QED  BY <2>1, GrowOverlapCall
<1>4. \A r \in Call : r.pc = "idle" /\ r.remote = {} /\ r.edit = None /\ Set(d, s, r)
                        => OverlapInv'
  BY <1>3, OverlapSet
<1> QED  BY <1>1, <1>2, <1>4

LEMMA OverlapBegin ==
  ASSUME OverlapInv, TypeOK', UNCHANGED <<made, raced, sotLog, sotBlobs, replica, cursor>>,
         NEW d \in Devices, NEW s \in Slots, NEW kind \in {"sync", "check"},
         Begin(d, s, kind, None)
  PROVE  OverlapInv'
<1> DEFINE c == [NoCall EXCEPT !.pc = "cursor", !.kind = kind, !.edit = None]
<1>1. Set(d, s, c)  BY DEF Begin
<1>2. c \in Call /\ c.pc = "cursor" /\ c.remote = {} /\ c.edit = None
  BY DEF NoCall, Call, Pcs, Rets
<1> HIDE DEF c
<1> QED  BY <1>1, <1>2, OverlapFresh, OverlapQuiet

\* What a call has read of its own device may be out of date when it is used.
LEMMA OverlapRead ==
  ASSUME OverlapInv, TypeOK', NEW d \in Devices, NEW s \in Slots,
         ReadCursor(d, s) \/ ReadLocal(d, s) \/ SealKeys(d, s)
  PROVE  OverlapInv'
<1> DEFINE c == call[d][s]
           rep == replica[d]
           cur == cursor[d]
           lost == RacedBy(d)
           bare == Blobless(d)
<1>1. /\ rep \in Log /\ sotLog \in Log /\ cur \in Ids \cup {None} /\ c \in Call
      /\ OverlapDevice(rep, cur, sotLog, lost, bare) /\ OverlapCall(d, c)
  BY DEF OverlapInv, TypeOK
<1>2. UNCHANGED <<made, raced, sotLog, sotBlobs, replica, cursor>>
  BY DEF ReadCursor, ReadLocal, SealKeys
<1>3. CASE ReadCursor(d, s)
  <2> DEFINE r == [c EXCEPT !.pc = "local", !.start = cur]
  <2>1. Set(d, s, r) /\ c.pc = "cursor"  BY <1>3 DEF ReadCursor
  <2>2. /\ r \in Call /\ r.pc = "local" /\ r.start = cur /\ r.remote = c.remote
        /\ r.edit = c.edit /\ r.ret = c.ret /\ r.kind = c.kind
    BY <1>1 DEF Call, Pcs
  <2> HIDE DEF r
  <2>3. OverlapSent(r, rep, sotLog, lost)
    BY <1>1, <2>1, <2>2 DEF OverlapCall, OverlapSent, OverlapDevice
  <2>4. ASSUME lost = {}  PROVE OverlapSeen(r, rep, sotLog) /\ OverlapBlobs(r, rep, bare)
    <3>1. cur # None => cur \in Behind(rep, cur)
      BY <1>1 DEF OverlapDevice, Behind, Row, InLog, Log
    <3>2. cur \in InLog(sotLog) \cup {None}  BY <1>1, <2>4, <3>1 DEF OverlapDevice
    <3> QED  BY <1>1, <2>2, <2>4, <3>2 DEF OverlapSeen, OverlapBlobs, OverlapDevice
  <2>5. OverlapEdit(d, r)  BY <1>1, <2>2 DEF OverlapCall, OverlapEdit
  <2>6. OverlapCall(d, r)  BY <2>3, <2>4, <2>5 DEF OverlapCall
  <2> QED  BY <1>2, <2>1, <2>2, <2>6, OverlapQuiet
<1>4. CASE ReadLocal(d, s)
  <2> DEFINE r == [c EXCEPT !.pc = "count", !.local = After(rep, c.start)]
  <2>1. Set(d, s, r) /\ c.pc = "local"  BY <1>4 DEF ReadLocal
  <2>2. After(rep, c.start) \in SUBSET Ids  BY AfterIds
  <2>3. /\ r \in Call /\ r.pc = "count" /\ r.start = c.start /\ r.remote = c.remote
        /\ r.edit = c.edit /\ r.ret = c.ret /\ r.kind = c.kind
        /\ r.local = After(rep, c.start)
    BY <1>1, <2>2 DEF Call, Pcs
  <2> HIDE DEF r
  <2>4. c.start \in Ids \cup {None}  BY <1>1 DEF Call
  <2>5. InLog(rep) \ r.local = Behind(rep, c.start) /\ r.local \subseteq InLog(rep)
    BY <1>1, <2>3, <2>4, SidesCover, Sides
  <2>6. OverlapSent(r, rep, sotLog, lost)
    BY <1>1, <2>1, <2>3, <2>5 DEF OverlapCall, OverlapSent
  <2>7. lost = {} => OverlapSeen(r, rep, sotLog) /\ OverlapBlobs(r, rep, bare)
    BY <1>1, <2>1, <2>3, <2>5 DEF OverlapCall, OverlapSeen, OverlapBlobs
  <2>8. OverlapEdit(d, r)  BY <1>1, <2>3 DEF OverlapCall, OverlapEdit
  <2>9. OverlapCall(d, r)  BY <2>6, <2>7, <2>8 DEF OverlapCall
  <2> QED  BY <1>2, <2>1, <2>3, <2>9, OverlapQuiet
<1>5. CASE SealKeys(d, s)
  <2> DEFINE r == [c EXCEPT !.pc = "push"]
  <2>1. Set(d, s, r) /\ c.pc = "keys"  BY <1>5 DEF SealKeys
  <2>2. /\ r \in Call /\ r.pc = "push" /\ r.start = c.start /\ r.remote = c.remote
        /\ r.edit = c.edit /\ r.ret = c.ret /\ r.kind = c.kind
        /\ r.local = c.local /\ r.count = c.count
    BY <1>1 DEF Call, Pcs
  <2> HIDE DEF r
  <2>3. OverlapSent(r, rep, sotLog, lost)
    BY <1>1, <2>1, <2>2 DEF OverlapCall, OverlapSent
  <2>4. lost = {} => OverlapSeen(r, rep, sotLog) /\ OverlapBlobs(r, rep, bare)
    BY <1>1, <2>1, <2>2 DEF OverlapCall, OverlapSeen, OverlapBlobs
  <2>5. OverlapEdit(d, r)  BY <1>1, <2>2 DEF OverlapCall, OverlapEdit
  <2>6. OverlapCall(d, r)  BY <2>3, <2>4, <2>5 DEF OverlapCall
  <2> QED  BY <1>2, <2>1, <2>2, <2>6, OverlapQuiet
<1> QED  BY <1>3, <1>4, <1>5

LEMMA OverlapCount ==
  ASSUME OverlapInv, TypeOK', NEW d \in Devices, NEW s \in Slots, CountRemote(d, s)
  PROVE  OverlapInv'
<1> DEFINE c == call[d][s]
           rep == replica[d]
           lost == RacedBy(d)
           bare == Blobless(d)
           left == After(sotLog, c.start)
           n == Cardinality(left)
           r == [c EXCEPT !.count = n,
                   !.pc = IF n = 0 THEN AfterFetch(c.local) ELSE "fetch"]
<1>1. rep \in Log /\ sotLog \in Log /\ c \in Call /\ OverlapCall(d, c)
  BY DEF OverlapInv, TypeOK
<1>2. UNCHANGED <<made, raced, sotLog, sotBlobs, replica, cursor>> /\ c.pc = "count"
  BY DEF CountRemote
<1>3. CASE c.kind = "check"
  <2>1. \E ret \in Rets \ {"ok"} : Return(d, s, ret)  BY <1>3 DEF CountRemote, Rets
  <2>2. Growth  BY <1>2, NoGrowth DEF OverlapInv
  <2> QED  BY <1>2, <2>1, <2>2, OverlapReturn
<1>4. CASE c.kind # "check"
  <2>1. Set(d, s, r)  BY <1>4 DEF CountRemote
  <2>2. n \in Nat /\ (n = 0 <=> left = {})  BY AfterIds, IdSets
  <2>3. c.start \in Ids \cup {None} /\ c.kind = "sync"  BY <1>1, <1>4 DEF Call
  <2>4. InLog(sotLog) = Behind(sotLog, c.start) \cup left  BY <1>1, <2>3, SidesCover
  <2>5. /\ r \in Call /\ r.start = c.start /\ r.remote = c.remote
        /\ r.edit = c.edit /\ r.ret = c.ret /\ r.kind = c.kind
        /\ r.local = c.local /\ r.count = n
        /\ r.pc = IF n = 0 THEN AfterFetch(c.local) ELSE "fetch"
    BY <1>1, <2>2 DEF Call, Pcs, AfterFetch
  <2>6. n > 0 => FirstAfter(sotLog, c.start, n) = left
    BY <1>1, <2>2, <2>3, FirstAfterFetches
  <2> HIDE DEF r, n, left
  <2>7. OverlapSent(r, rep, sotLog, lost)
    BY <1>1, <1>2, <2>2, <2>3, <2>5 DEF OverlapCall, OverlapSent, AfterFetch
  <2>8. ASSUME lost = {}  PROVE OverlapSeen(r, rep, sotLog)
    <3>1. /\ c.start \in InLog(sotLog) \cup {None} /\ c.remote = {}
          /\ Behind(sotLog, c.start) \subseteq InLog(rep)
          /\ InLog(rep) \ c.local \subseteq InLog(sotLog)
      BY <1>1, <1>2, <2>3, <2>8 DEF OverlapCall, OverlapSeen, OverlapSent
    <3>2. c.local = {} => Settled(InLog(rep) \cup left, sotLog)
      BY <2>4, <3>1, SettledAll
    <3>3. CASE n > 0
      <4>1. r.pc = "fetch"  BY <2>5, <3>3
      <4>2. r.local = {} => Settled(InLog(rep) \cup FirstAfter(sotLog, r.start, r.count), sotLog)
        BY <2>5, <2>6, <3>2, <3>3
      <4>3. r.count <= Cardinality(After(sotLog, r.start))  BY <2>2, <2>5 DEF n, left
      <4> QED  BY <2>5, <3>1, <4>1, <4>2, <4>3 DEF OverlapSeen
    <3>4. CASE n = 0
      <4>1. left = {} /\ r.remote = left /\ r.count <= Cardinality(After(sotLog, r.start))
        BY <2>2, <2>5, <3>1, <3>4 DEF n, left
      <4>2. r.remote = After(sotLog, r.start)  BY <2>5, <4>1 DEF left
      <4>3. r.pc = "merge" => Settled(InLog(rep) \cup r.remote, sotLog)
        BY <2>5, <3>2, <3>4, <4>1 DEF AfterFetch
      <4>4. r.pc \in {"keys", "merge"}  BY <2>5, <3>4 DEF AfterFetch
      <4> QED  BY <2>5, <3>1, <4>1, <4>2, <4>3, <4>4 DEF OverlapSeen
    <3> QED  BY <2>2, <3>3, <3>4
  <2>9. lost = {} => OverlapBlobs(r, rep, bare)
    BY <1>1, <1>2, <2>2, <2>3, <2>5 DEF OverlapCall, OverlapBlobs, AfterFetch
  <2>10. OverlapEdit(d, r)  BY <1>1, <2>5 DEF OverlapCall, OverlapEdit
  <2>11. OverlapCall(d, r)  BY <2>7, <2>8, <2>9, <2>10 DEF OverlapCall
  <2> QED  BY <1>2, <2>1, <2>5, <2>11, OverlapQuiet
<1> QED  BY <1>3, <1>4

LEMMA OverlapFetch ==
  ASSUME OverlapInv, TypeOK', NEW d \in Devices, NEW s \in Slots, FetchRemote(d, s)
  PROVE  OverlapInv'
<1> DEFINE c == call[d][s]
           rep == replica[d]
           lost == RacedBy(d)
           bare == Blobless(d)
           F == FirstAfter(sotLog, c.start, c.count)
           r == [c EXCEPT !.pc = AfterFetch(c.local), !.remote = F]
<1>1. rep \in Log /\ sotLog \in Log /\ c \in Call /\ OverlapCall(d, c)
  BY DEF OverlapInv, TypeOK
<1>2. /\ UNCHANGED <<made, raced, sotLog, sotBlobs, replica, cursor>> /\ c.pc = "fetch"
      /\ Set(d, s, r)
  BY DEF FetchRemote
<1>3. c.start \in Ids \cup {None} /\ c.count \in Nat /\ c.kind = "sync"
  BY <1>1, <1>2 DEF Call, OverlapCall, OverlapSent
<1>4. /\ F \subseteq After(sotLog, c.start)
      /\ Cardinality(After(sotLog, c.start)) = c.count => F = After(sotLog, c.start)
  BY <1>1, <1>3, FirstAfterFetches
<1>5. F \in SUBSET Ids /\ F \subseteq InLog(sotLog)  BY <1>4, AfterIds, Sides
<1>6. /\ r \in Call /\ r.start = c.start /\ r.remote = F
      /\ r.edit = c.edit /\ r.ret = c.ret /\ r.kind = c.kind
      /\ r.local = c.local /\ r.count = c.count
      /\ r.pc = AfterFetch(c.local) /\ r.pc \in {"merge", "keys"}
  BY <1>1, <1>5 DEF Call, Pcs, AfterFetch
<1> HIDE DEF r
<1>7. OverlapSent(r, rep, sotLog, lost)
  BY <1>1, <1>2, <1>3, <1>5, <1>6 DEF OverlapCall, OverlapSent, AfterFetch
<1>8. lost = {} => OverlapSeen(r, rep, sotLog)
  BY <1>1, <1>2, <1>4, <1>6 DEF OverlapCall, OverlapSeen, AfterFetch
<1>9. lost = {} => OverlapBlobs(r, rep, bare)
  BY <1>1, <1>2, <1>3, <1>6 DEF OverlapCall, OverlapBlobs, AfterFetch
<1>10. OverlapEdit(d, r)  BY <1>1, <1>6 DEF OverlapCall, OverlapEdit
<1>11. OverlapCall(d, r)  BY <1>7, <1>8, <1>9, <1>10 DEF OverlapCall
<1> QED  BY <1>2, <1>6, <1>11, OverlapQuiet

\* What a call posts is in its replica, so in use.
LEMMA OverlapPosts ==
  ASSUME OverlapInv, NEW d \in Devices, NEW s \in Slots, call[d][s].pc = "push",
         NEW S \in SUBSET call[d][s].local, sotLog' = Extend(sotLog, S, replica[d]),
         UNCHANGED <<made, raced, sotBlobs>>
  PROVE  Growth
<1>1. call[d][s] \in Call /\ OverlapCall(d, call[d][s]) /\ replica[d] \in Log
  BY DEF OverlapInv, TypeOK
<1>2. call[d][s].kind = "sync"  BY <1>1 DEF Call, OverlapCall, OverlapSent
<1>3. S \subseteq InLog(replica[d])  BY <1>1, <1>2 DEF OverlapCall, OverlapSent
<1>4. S \in SUBSET Used  BY <1>3 DEF OverlapInv, UsedOnly
<1> QED  BY <1>1, <1>4 DEF Growth

\* The daemon takes the batch only on the log that the call counted; its answer lists
\* every creation of the batch, those posted before included, so that a blob another
\* call has not uploaded yet is uploaded by this one too.
LEMMA OverlapPush ==
  ASSUME OverlapAssumed, OverlapInv, TypeOK', NEW d \in Devices, NEW s \in Slots,
         Push(d, s)
  PROVE  OverlapInv'
<1> DEFINE c == call[d][s]
           rep == replica[d]
           todo == VaultsOf(Creates(c.local))
           r == [c EXCEPT !.todo = todo, !.pc = IF todo = {} THEN "merge" ELSE "blobs"]
<1>1. rep \in Log /\ sotLog \in Log /\ c \in Call /\ OverlapCall(d, c) /\ UsedOnly
  BY DEF OverlapInv, TypeOK
<1>2. /\ UNCHANGED <<made, raced, sotBlobs, replica, cursor>> /\ c.pc = "push"
      /\ Cardinality(After(sotLog, c.start)) = c.count
      /\ sotLog' = Extend(sotLog, c.local, rep) /\ Set(d, s, r)
  BY DEF Push, Admits, Applicable, Answer, OverlapAssumed
<1>3. c.local \in SUBSET Ids /\ c.start \in Ids \cup {None} /\ c.kind = "sync"
  BY <1>1, <1>2 DEF Call, OverlapCall, OverlapSent
<1>4. todo \in SUBSET Vaults  BY <1>3, CreatesVaults DEF OverlapInv
<1>5. /\ r \in Call /\ r.start = c.start /\ r.remote = c.remote
      /\ r.edit = c.edit /\ r.ret = c.ret /\ r.kind = c.kind
      /\ r.local = c.local /\ r.todo = todo
      /\ r.pc = IF todo = {} THEN "merge" ELSE "blobs"
  BY <1>1, <1>4 DEF Call, Pcs
<1>6. Growth
  <2>1. c.local \in SUBSET c.local  OBVIOUS
  <2> QED  BY <1>2, <2>1, OverlapPosts
<1>7. PICK k \in Call : k = c /\ OverlapCall(d, k)'
  <2>1. \A e \in Call : OverlapCall(d, e) => OverlapCall(d, e)'
    BY <1>2, <1>6, GrowOverlapCall
  <2> QED  BY <1>1, <2>1
<1>8. /\ RacedBy(d)' = RacedBy(d) /\ Blobless(d)' = Blobless(d) /\ rep' = rep
  <2>1. made' = made /\ raced' = raced /\ sotBlobs' = sotBlobs /\ replica' = replica
    BY <1>2
  <2>2. Used' = Used /\ RacedBy(d)' = RacedBy(d)  BY <2>1 DEF Used, RacedBy
  <2>3. Blobless(d)' = Blobless(d)  BY <2>1 DEF Used, Blobless, Creates
  <2> QED  BY <2>1, <2>2, <2>3
<1>9. InLog(sotLog') = InLog(sotLog) \cup c.local
  <2> DEFINE L == c.local
  <2>1. L \in SUBSET Ids /\ sotLog' = Extend(sotLog, L, rep)  BY <1>2, <1>3
  <2> HIDE DEF L
  <2>2. InLog(Extend(sotLog, L, rep)) = InLog(sotLog) \cup L
    BY <1>1, <2>1, ExtendInLog
  <2> QED  BY <2>1, <2>2 DEF L
<1>10. ASSUME NEW q \in Call, q.start = c.start, q.remote = c.remote,
              q.edit = c.edit, q.ret = c.ret, q.kind = c.kind,
              q.local = c.local, q.todo = todo,
              q.pc = IF todo = {} THEN "merge" ELSE "blobs"
       PROVE  OverlapCall(d, q)'
  <2>1. c.local \subseteq InLog(rep) /\ InLog(rep) \ c.local \subseteq InLog(sotLog) \cup RacedBy(d)
    BY <1>1, <1>2, <1>3 DEF OverlapCall, OverlapSent
  <2>2. OverlapSent(q, rep, sotLog', RacedBy(d))
    BY <1>1, <1>3, <1>9, <1>10, <2>1 DEF OverlapCall, OverlapSent
  <2>3. ASSUME RacedBy(d) = {}
        PROVE  OverlapSeen(q, rep, sotLog') /\ OverlapBlobs(q, rep, Blobless(d))
    <3>1. /\ Behind(sotLog, c.start) \subseteq InLog(rep)
          /\ c.remote = After(sotLog, c.start)
          /\ (InLog(rep) \ c.local) \cap Blobless(d) = {}
      BY <1>1, <1>2, <1>3, <2>3 DEF OverlapCall, OverlapSeen, OverlapBlobs
    <3>2. InLog(sotLog) = Behind(sotLog, c.start) \cup After(sotLog, c.start)
      BY <1>1, <1>3, SidesCover
    <3>3. InLog(rep) \cup c.remote = InLog(sotLog')
      BY <1>9, <2>1, <2>3, <3>1, <3>2
    <3>4. Settled(InLog(rep) \cup q.remote, sotLog')  BY <1>10, <3>3, SettledAll
    <3>5. InLog(rep) \cap Blobless(d) \subseteq Creates(c.local)
      BY <3>1 DEF Blobless, Creates
    <3>6. VaultsOf(InLog(rep) \cap Blobless(d)) \subseteq todo  BY <3>5 DEF VaultsOf
    <3>7. todo = {} => InLog(rep) \cap Blobless(d) = {}  BY <3>6 DEF VaultsOf
    <3> HIDE DEF todo
    <3>8. OverlapSeen(q, rep, sotLog')  BY <1>10, <3>4 DEF OverlapSeen
    <3>9. OverlapBlobs(q, rep, Blobless(d))  BY <1>10, <3>6, <3>7 DEF OverlapBlobs
    <3> QED  BY <3>8, <3>9
  <2>4. OverlapEdit(d, q)'  BY <1>7, <1>10 DEF OverlapCall, OverlapEdit
  <2>5. OverlapBlobs(q, rep, Blobless(d)) => OverlapBlobs(q, rep, Blobless(d))'
    BY <1>2, <1>8 DEF OverlapBlobs, VaultsOf
  <2> QED  BY <1>8, <2>2, <2>3, <2>4, <2>5 DEF OverlapCall
<1>11. PICK q \in Call :
         /\ q.start = c.start /\ q.remote = c.remote
         /\ q.edit = c.edit /\ q.ret = c.ret /\ q.kind = c.kind
         /\ q.local = c.local /\ q.todo = todo
         /\ q.pc = IF todo = {} THEN "merge" ELSE "blobs"
         /\ Set(d, s, q)
  BY <1>2, <1>5
<1>12. OverlapCall(d, q)'  BY <1>10, <1>11
<1> QED  BY <1>2, <1>6, <1>11, <1>12, OverlapSet

LEMMA OverlapPushLost ==
  ASSUME OverlapInv, TypeOK', NEW d \in Devices, NEW s \in Slots, PushAnswerLost(d, s)
  PROVE  OverlapInv'
<1>1. PICK S \in Applicable(call[d][s].local) : sotLog' = Extend(sotLog, S, replica[d])
  BY DEF PushAnswerLost
<1>2. S \in SUBSET call[d][s].local  BY DEF Applicable
<1>3. /\ call[d][s].pc = "push" /\ Return(d, s, "err")
      /\ UNCHANGED <<made, raced, sotBlobs, replica, cursor>>
  BY DEF PushAnswerLost
<1>4. Growth  BY <1>1, <1>2, <1>3, OverlapPosts
<1> QED  BY <1>3, <1>4, OverlapReturn DEF Rets

LEMMA OverlapUpload ==
  ASSUME OverlapInv, TypeOK', NEW d \in Devices, NEW s \in Slots, NEW v \in Vaults,
         UploadBlob(d, s, v)
  PROVE  OverlapInv'
<1> DEFINE c == call[d][s]
           rep == replica[d]
           rest == c.todo \ {v}
           r == [c EXCEPT !.todo = rest, !.pc = IF rest = {} THEN "merge" ELSE "blobs"]
<1>1. rep \in Log /\ sotLog \in Log /\ c \in Call /\ OverlapCall(d, c)
  BY DEF OverlapInv, TypeOK
<1>2. /\ UNCHANGED <<made, raced, sotLog, replica, cursor>> /\ c.pc = "blobs"
      /\ sotBlobs' = sotBlobs \cup {v} /\ Set(d, s, r)
  BY DEF UploadBlob
<1>3. Growth  BY <1>2, NoGrowth DEF OverlapInv
<1>4. rest \in SUBSET Vaults  BY <1>1 DEF Call
<1>5. PICK q \in Call :
        /\ q.start = c.start /\ q.remote = c.remote
        /\ q.edit = c.edit /\ q.ret = c.ret /\ q.kind = c.kind
        /\ q.local = c.local /\ q.todo = rest
        /\ q.pc = IF rest = {} THEN "merge" ELSE "blobs"
        /\ Set(d, s, q)
  BY <1>1, <1>2, <1>4 DEF Call, Pcs
<1>6. PICK k \in Call : k = c /\ OverlapCall(d, k)'
  <2>1. \A e \in Call : OverlapCall(d, e) => OverlapCall(d, e)'
    BY <1>2, <1>3, GrowOverlapCall
  <2> QED  BY <1>1, <2>1
<1>7. OverlapSent(q, rep, sotLog, RacedBy(d))'
  BY <1>2, <1>5, <1>6 DEF OverlapCall, OverlapSent
<1>8. OverlapSeen(k, rep, sotLog)' => OverlapSeen(q, rep, sotLog)'
  BY <1>2, <1>5, <1>6 DEF OverlapSeen
<1>9. OverlapBlobs(k, rep, Blobless(d))' => OverlapBlobs(q, rep, Blobless(d))'
  <2> SUFFICES ASSUME OverlapBlobs(k, rep, Blobless(d))'
               PROVE  OverlapBlobs(q, rep, Blobless(d))'
    OBVIOUS
  <2> DEFINE T == InLog(rep') \cap Blobless(d)'
  <2>1. VaultsOf(InLog(rep) \cap Blobless(d))' \subseteq c.todo
    BY <1>2, <1>6 DEF OverlapBlobs
  <2>2. v \notin VaultsOf(InLog(rep) \cap Blobless(d))'
    BY <1>2 DEF VaultsOf, Blobless
  <2>3. VaultsOf(InLog(rep) \cap Blobless(d))' \subseteq rest  BY <2>1, <2>2
  <2>4. rest = {} => T = {}  BY <2>3 DEF VaultsOf
  <2> QED  BY <1>5, <2>3, <2>4 DEF OverlapBlobs
<1>10. OverlapEdit(d, q)'  BY <1>5, <1>6 DEF OverlapCall, OverlapEdit
<1>11. OverlapCall(d, q)'  BY <1>6, <1>7, <1>8, <1>9, <1>10 DEF OverlapCall
<1> QED  BY <1>2, <1>3, <1>5, <1>11, OverlapSet

\* A merge by another call of the device.
LEMMA MergeBeside ==
  ASSUME NEW c, NEW rep, NEW new, NEW sot, NEW R, InLog(new) = InLog(rep) \cup R,
         InLog(new) \subseteq Ids, NEW lost, InLog(new) \subseteq InLog(sot) \cup lost,
         OverlapSent(c, rep, sot, lost)
  PROVE  /\ OverlapSent(c, new, sot, lost)
         /\ Settled(InLog(new), sot) /\ OverlapSeen(c, rep, sot) => OverlapSeen(c, new, sot)
<1>1. Behind(new, c.start) \subseteq InLog(new)  BY Sides
<1>2. OverlapSent(c, new, sot, lost)
  <2>1. c.pc = "local" => c.start \in InLog(new) \cup {None}  BY DEF OverlapSent
  <2> QED  BY <1>1, <2>1 DEF OverlapSent
<1>3. ASSUME Settled(InLog(new), sot), OverlapSeen(c, rep, sot)
      PROVE  OverlapSeen(c, new, sot)
  <2>1. \A A : Settled(InLog(rep) \cup A, sot) => Settled(InLog(new) \cup A, sot)
    <3> SUFFICES ASSUME NEW A, Settled(InLog(rep) \cup A, sot)
                 PROVE  Settled(InLog(new) \cup A, sot)
      OBVIOUS
    <3>1. Settled(InLog(new) \cup (InLog(rep) \cup A), sot)  BY <1>3, SettledUnion
    <3>2. InLog(new) \cup (InLog(rep) \cup A) = InLog(new) \cup A  OBVIOUS
    <3> QED  BY <3>1, <3>2
  <2> QED  BY <1>3, <2>1 DEF OverlapSeen
<1> QED  BY <1>2, <1>3

LEMMA OverlapMerge ==
  ASSUME OverlapInv, TypeOK', NEW d \in Devices, NEW s \in Slots, Merge(d, s)
  PROVE  OverlapInv'
<1> DEFINE c == call[d][s]
           rep == replica[d]
           cur == cursor[d]
           lost == RacedBy(d)
           bare == Blobless(d)
           r == [c EXCEPT !.pc = "advance"]
<1>1. /\ rep \in Log /\ sotLog \in Log /\ cur \in Ids \cup {None} /\ c \in Call
      /\ OverlapDevice(rep, cur, sotLog, lost, bare) /\ OverlapCall(d, c) /\ UsedOnly
      /\ call \in [Devices -> [Slots -> Call]] /\ replica \in [Devices -> Log]
  BY DEF OverlapInv, TypeOK
<1>2. /\ c.pc = "merge" /\ Set(d, s, r)
      /\ UNCHANGED <<made, raced, sotLog, sotBlobs, cursor>>
  BY DEF Merge
<1>3. PICK new \in {Appended(rep, c, sotLog), Rebased(rep, c, sotLog)} :
        replica' = [replica EXCEPT ![d] = new]
  BY DEF Merge
<1>4. /\ c.remote \subseteq InLog(sotLog) /\ c.local \subseteq InLog(rep)
      /\ InLog(rep) \subseteq InLog(sotLog) \cup lost /\ c.kind = "sync"
  BY <1>1, <1>2 DEF OverlapCall, OverlapSent, Call
<1>5. new \in Log /\ InLog(new) = InLog(rep) \cup c.remote /\ Dense(new)
  <2> DEFINE R == c.remote
             L == c.local
  <2>1. R \in SUBSET Ids /\ L \in SUBSET InLog(rep)  BY <1>1, <1>4 DEF Call
  <2>2. \/ new = Extend(rep, R, sotLog)
        \/ new = Extend(Extend(Only(rep, Ids \ L), R, sotLog), L, rep)
    BY <1>3 DEF Appended, Rebased
  <2>3. Dense(rep)  BY <1>1 DEF OverlapDevice
  <2> HIDE DEF R, L
  <2>4. new \in Log /\ InLog(new) = InLog(rep) \cup R /\ Dense(new)
    BY <1>1, <2>1, <2>2, <2>3, MergedSets
  <2> QED  BY <2>4 DEF R
<1>6. InLog(new) \subseteq InLog(sotLog) \cup lost  BY <1>4, <1>5
<1>7. InLog(new) \subseteq Ids /\ Behind(new, cur) \subseteq InLog(new)  BY Sides
<1>8. InLog(new) \cap bare \subseteq InLog(rep)
  BY <1>1, <1>5 DEF UsedOnly, Blobless, Creates, Used
<1>9. lost = {} => Settled(InLog(new), sotLog) /\ InLog(new) \cap bare = {}
  <2> SUFFICES ASSUME lost = {}
               PROVE  Settled(InLog(new), sotLog) /\ InLog(new) \cap bare = {}
    OBVIOUS
  <2>1. Settled(InLog(rep) \cup c.remote, sotLog) /\ InLog(rep) \cap bare = {}
    BY <1>1, <1>2 DEF OverlapCall, OverlapSeen, OverlapBlobs
  <2> QED  BY <1>5, <1>8, <2>1
<1>10. OverlapDevice(new, cur, sotLog, lost, bare)
  <2>1. cur \in InLog(new) \cup {None}  BY <1>1, <1>5 DEF OverlapDevice
  <2>2. Behind(new, cur) \subseteq InLog(sotLog) \cup lost  BY <1>6, <1>7
  <2>3. lost = {} => /\ Behind(sotLog, cur) \subseteq InLog(new)
                     /\ Behind(new, cur) \cap bare = {}
    BY <1>1, <1>5, <1>7, <1>9 DEF OverlapDevice
  <2> QED  BY <1>5, <2>1, <2>2, <2>3 DEF OverlapDevice
\* The other calls of the device.
<1>11. ASSUME NEW k \in Call, OverlapCall(d, k)
       PROVE  /\ OverlapSent(k, new, sotLog, lost) /\ OverlapEdit(d, k)
              /\ lost = {} => OverlapSeen(k, new, sotLog) /\ OverlapBlobs(k, new, bare)
  <2>1. OverlapSent(k, rep, sotLog, lost)  BY <1>11 DEF OverlapCall
  <2>2. /\ OverlapSent(k, new, sotLog, lost)
        /\ Settled(InLog(new), sotLog) /\ OverlapSeen(k, rep, sotLog)
             => OverlapSeen(k, new, sotLog)
    BY <1>5, <1>6, <1>7, <2>1, MergeBeside
  <2>3. lost = {} => OverlapSeen(k, rep, sotLog)  BY <1>11 DEF OverlapCall
  <2>4. ASSUME lost = {}  PROVE OverlapBlobs(k, new, bare)
    <3>1. InLog(new) \cap bare = {} /\ Behind(new, k.start) \cap bare = {}
      BY <1>9, <2>4, Sides
    <3>2. VaultsOf({}) = {}  BY DEF VaultsOf
    <3> QED  BY <3>1, <3>2 DEF OverlapBlobs
  <2> QED  BY <1>9, <1>11, <2>2, <2>3, <2>4 DEF OverlapCall
\* The call that merged.
<1>12. ASSUME NEW k \in Call, k.pc = "advance", k.remote = c.remote, k.edit = c.edit,
              k.ret = c.ret, k.kind = c.kind
       PROVE  /\ OverlapSent(k, new, sotLog, lost) /\ OverlapEdit(d, k)
              /\ lost = {} => OverlapSeen(k, new, sotLog) /\ OverlapBlobs(k, new, bare)
  <2>1. OverlapSent(k, new, sotLog, lost)  BY <1>4, <1>6, <1>12 DEF OverlapSent
  <2>2. OverlapEdit(d, k)  BY <1>1, <1>12 DEF OverlapCall, OverlapEdit
  <2>3. lost = {} => OverlapSeen(k, new, sotLog) /\ OverlapBlobs(k, new, bare)
    BY <1>9, <1>12 DEF OverlapSeen, OverlapBlobs
  <2> QED  BY <2>1, <2>2, <2>3
<1>13. PICK q \in Call :
         /\ q.pc = "advance" /\ q.remote = c.remote /\ q.edit = c.edit
         /\ q.ret = c.ret /\ q.kind = c.kind /\ Set(d, s, q)
  BY <1>1, <1>2 DEF Call, Pcs
\* Nothing else has moved.
<1>14. /\ made' = made /\ raced' = raced /\ sotBlobs' = sotBlobs /\ sotLog' = sotLog
       /\ cursor' = cursor
  BY <1>2
<1>15. /\ Used' = Used
       /\ \A e \in Devices : RacedBy(e)' = RacedBy(e) /\ Blobless(e)' = Blobless(e)
  BY <1>14 DEF Used, RacedBy, Blobless, Creates
<1>16. ASSUME NEW e \in Devices, NEW k \in Call,
              OverlapSent(k, replica'[e], sotLog, RacedBy(e)), OverlapEdit(e, k),
              RacedBy(e) = {} => /\ OverlapSeen(k, replica'[e], sotLog)
                                 /\ OverlapBlobs(k, replica'[e], Blobless(e))
       PROVE  OverlapCall(e, k)'
  <2>1. OverlapEdit(e, k)'  BY <1>14, <1>15, <1>16 DEF OverlapEdit
  <2>2. OverlapSent(k, replica[e], sotLog, RacedBy(e))'
    BY <1>14, <1>15, <1>16 DEF OverlapSent
  <2>3. RacedBy(e)' = {} => OverlapSeen(k, replica[e], sotLog)'
    BY <1>14, <1>15, <1>16 DEF OverlapSeen
  <2>4. RacedBy(e)' = {} => OverlapBlobs(k, replica[e], Blobless(e))'
    BY <1>14, <1>15, <1>16 DEF OverlapBlobs, VaultsOf
  <2> QED  BY <2>1, <2>2, <2>3, <2>4 DEF OverlapCall
<1>17. /\ replica'[d] = new
       /\ \A e \in Devices : e # d => replica'[e] = replica[e]
  BY <1>1, <1>3
<1>18. ASSUME NEW e \in Devices, NEW t \in Slots  PROVE OverlapCall(e, call[e][t])'
  <2>1. PICK k \in Call : k = call'[e][t]  BY DEF TypeOK
  <2>2. OverlapCall(e, call[e][t])  BY DEF OverlapInv
  <2>3. OverlapCall(e, k)'
    <3>1. CASE e = d /\ t = s
      <4>1. k = q  BY <1>1, <1>13, <2>1, <3>1 DEF Set
      <4> QED  BY <1>12, <1>13, <1>16, <1>17, <3>1, <4>1
    <3>2. CASE ~(e = d /\ t = s)
      <4>1. k = call[e][t]  BY <1>1, <1>13, <2>1, <3>2 DEF Set
      <4>2. OverlapCall(e, k)  BY <2>2, <4>1
      <4>3. CASE e = d  BY <1>11, <1>16, <1>17, <4>2, <4>3
      <4>4. CASE e # d  BY <1>16, <1>17, <4>2, <4>4 DEF OverlapCall
      <4> QED  BY <4>3, <4>4
    <3> QED  BY <3>1, <3>2
  <2> QED  BY <2>1, <2>3 DEF OverlapCall, OverlapEdit
<1>19. ASSUME NEW e \in Devices
       PROVE  OverlapDevice(replica[e], cursor[e], sotLog, RacedBy(e), Blobless(e))'
  <2>1. OverlapDevice(replica'[e], cursor[e], sotLog, RacedBy(e), Blobless(e))
    BY <1>10, <1>17 DEF OverlapInv
  <2> QED  BY <1>14, <1>15, <2>1 DEF OverlapDevice
<1>20. UsedOnly'
  <2>1. \A e \in Devices : InLog(replica[e]) \subseteq InLog(replica'[e])
    BY <1>5, <1>17
  <2>2. \A e \in Devices : InLog(replica'[e]) \subseteq Used
    BY <1>1, <1>4, <1>5, <1>17 DEF UsedOnly
  <2>3. \A x \in Used : made[x].by \in Devices
    BY DEF Used, OverlapInv, TypeOK, Change
  <2> QED  BY <1>1, <1>14, <1>15, <2>1, <2>2, <2>3 DEF UsedOnly
<1>21. Dense(sotLog')  BY <1>14 DEF OverlapInv
<1> QED  BY <1>18, <1>19, <1>20, <1>21 DEF OverlapInv

\* The cursor moves to the last row of what the call merged, or of what another
\* call of the device has merged or an edit appended since.
LEMMA OverlapAdvance ==
  ASSUME OverlapInv, TypeOK', NEW d \in Devices, NEW s \in Slots, Advance(d, s)
  PROVE  OverlapInv'
<1> DEFINE c == call[d][s]
           rep == replica[d]
           cur == cursor'[d]
           lost == RacedBy(d)
           bare == Blobless(d)
           r == [NoCall EXCEPT !.ret = "ok", !.edit = c.edit]
<1>1. /\ rep \in Log /\ sotLog \in Log /\ cursor \in [Devices -> Ids \cup {None}]
      /\ c \in Call /\ UsedOnly
      /\ OverlapDevice(rep, cursor[d], sotLog, lost, bare) /\ OverlapCall(d, c)
      /\ call \in [Devices -> [Slots -> Call]]
  BY DEF OverlapInv, TypeOK
<1>2. /\ c.pc = "advance" /\ Set(d, s, r)
      /\ UNCHANGED <<made, raced, sotLog, sotBlobs, replica>>
  BY DEF Advance, Return
<1>3. InLog(rep) \subseteq InLog(sotLog) \cup lost
  BY <1>1, <1>2 DEF OverlapCall, OverlapSent
<1>4. lost = {} => Settled(InLog(rep), sotLog) /\ InLog(rep) \cap bare = {}
  BY <1>1, <1>2 DEF OverlapCall, OverlapSeen, OverlapBlobs
<1>5. OverlapDevice(rep, cur, sotLog, lost, bare)
  <2>1. CASE UNCHANGED cursor  BY <1>1, <2>1
  <2>2. CASE \E last \in InLog(rep) :
               After(rep, last) = {} /\ cursor' = [cursor EXCEPT ![d] = last]
    <3>1. PICK last \in InLog(rep) :
            After(rep, last) = {} /\ cursor' = [cursor EXCEPT ![d] = last]
      BY <2>2
    <3>2. cur = last  BY <1>1, <3>1
    <3>3. Dense(rep) /\ Behind(rep, last) \subseteq InLog(rep)
      BY <1>1, Sides DEF OverlapDevice
    <3>4. lost = {} => Behind(sotLog, last) \subseteq InLog(rep)
      <4> SUFFICES ASSUME lost = {}  PROVE Behind(sotLog, last) \subseteq InLog(rep)
        OBVIOUS
      <4>1. DeviceOK(rep, last, sotLog)  BY <1>1, <1>4, <3>1, <3>3, AdvanceDevice
      <4> QED  BY <3>3, <4>1 DEF DeviceOK
    <3>5. OverlapDevice(rep, last, sotLog, lost, bare)
      BY <1>3, <1>4, <3>1, <3>3, <3>4 DEF OverlapDevice
    <3> HIDE DEF cur
    <3> QED  BY <3>2, <3>5
  <2> QED  BY <2>1, <2>2 DEF Advance
<1>6. PICK q \in Call :
        q.pc = "idle" /\ q.remote = {} /\ q.edit = c.edit /\ q.ret = "ok" /\ Set(d, s, q)
  BY <1>1, <1>2 DEF NoCall, Call, Pcs, Rets
<1>7. OverlapCall(d, q)
  <2>1. OverlapSent(q, rep, sotLog, lost)  BY <1>6 DEF OverlapSent
  <2>2. OverlapSeen(q, rep, sotLog) /\ OverlapBlobs(q, rep, bare)
    BY <1>6 DEF OverlapSeen, OverlapBlobs
  <2>3. OverlapEdit(d, q)
    BY <1>1, <1>3, <1>6 DEF OverlapEdit, OverlapCall, UsedOnly
  <2> QED  BY <2>1, <2>2, <2>3 DEF OverlapCall
<1>8. Growth  BY <1>2, NoGrowth DEF OverlapInv
<1>9. /\ made' = made /\ raced' = raced /\ sotBlobs' = sotBlobs /\ sotLog' = sotLog
      /\ replica' = replica
  BY <1>2
<1>10. /\ Used' = Used
       /\ \A e \in Devices : RacedBy(e)' = RacedBy(e) /\ Blobless(e)' = Blobless(e)
  BY <1>9 DEF Used, RacedBy, Blobless, Creates
<1>11. ASSUME NEW e \in Devices
       PROVE  OverlapDevice(replica[e], cursor[e], sotLog, RacedBy(e), Blobless(e))'
  <2>1. OverlapDevice(replica[e], cursor'[e], sotLog, RacedBy(e), Blobless(e))
    <3>1. e # d => cursor'[e] = cursor[e]  BY <1>1 DEF Advance
    <3> QED  BY <1>5, <3>1 DEF OverlapInv
  <2> QED  BY <1>9, <1>10, <2>1 DEF OverlapDevice
<1>12. ASSUME NEW e \in Devices, NEW t \in Slots  PROVE OverlapCall(e, call[e][t])'
  <2>1. PICK k \in Call : k = call'[e][t]  BY DEF TypeOK
  <2>2. k = IF e = d /\ t = s THEN q ELSE call[e][t]  BY <1>1, <1>6, <2>1 DEF Set
  <2>3. OverlapCall(e, k)  BY <1>7, <2>2 DEF OverlapInv
  <2>4. OverlapCall(e, k)'  BY <1>8, <1>9, <2>3, GrowOverlapCall
  <2> QED  BY <2>1, <2>4 DEF OverlapCall, OverlapEdit
<1>13. UsedOnly' /\ Dense(sotLog')  BY <1>9, <1>10 DEF OverlapInv, UsedOnly
<1> QED  BY <1>11, <1>12, <1>13 DEF OverlapInv

\* An edit is made while another call of its device is before its reading of the
\* local changes, or it is raced.
LEMMA EditBeside ==
  ASSUME NEW rep \in Log, Dense(rep), NEW x \in Ids, NEW new, InLog(new) = InLog(rep) \cup {x},
         \A cur \in InLog(rep) \cup {None} : Behind(new, cur) = Behind(rep, cur),
         NEW c \in Call, NEW sot, NEW lost, NEW more, lost \subseteq more,
         c.kind = "check" \/ c.pc \in {"idle", "cursor", "local"} \/ x \in more,
         OverlapSent(c, rep, sot, lost)
  PROVE  /\ OverlapSent(c, new, sot, more)
         /\ more = {} /\ OverlapSeen(c, rep, sot) => OverlapSeen(c, new, sot)
<1>1. c.kind \in {"sync", "check"}  BY DEF Call
<1>2. c.pc = "local" => Behind(new, c.start) = Behind(rep, c.start)  BY DEF OverlapSent
<1>3. OverlapSent(c, new, sot, more)
  <2>1. CASE c.kind = "check" \/ c.pc \in {"idle", "cursor", "local"}
    BY <1>1, <1>2, <2>1 DEF OverlapSent
  <2>2. CASE x \in more  BY <1>1, <1>2, <2>2 DEF OverlapSent
  <2> QED  BY <2>1, <2>2
<1>4. ASSUME more = {}, OverlapSeen(c, rep, sot)  PROVE OverlapSeen(c, new, sot)
  <2>1. c.pc \in {"idle", "cursor", "local", "count"}
    BY <1>1, <1>4 DEF OverlapSent
  <2> QED  BY <1>4, <2>1 DEF OverlapSeen
<1> QED  BY <1>3, <1>4

LEMMA OverlapEdits ==
  ASSUME OverlapInv, TypeOK', NEW d \in Devices, NEW s \in Slots, NEW x \in Ids,
         NEW v \in Vaults, NEW op \in Ops, Edit(d, s, x, op, v)
  PROVE  OverlapInv'
<1> DEFINE rep == replica[d]
           new == Extend(rep, {x}, EmptyLog)
           r == IF Mode[d] = "auto"
                THEN [NoCall EXCEPT !.pc = "cursor", !.kind = "sync", !.edit = x]
                ELSE [NoCall EXCEPT !.ret = "ok"]
<1>1. /\ rep \in Log /\ sotLog \in Log /\ Dense(sotLog) /\ UsedOnly
      /\ call \in [Devices -> [Slots -> Call]] /\ replica \in [Devices -> Log]
      /\ made \in [Ids -> Change \cup {NoChange}] /\ raced \subseteq Ids
      /\ \A e \in Devices :
           OverlapDevice(replica[e], cursor[e], sotLog, RacedBy(e), Blobless(e))
  BY DEF OverlapInv, TypeOK
<1>2. /\ made[x] = NoChange
      /\ made' = [made EXCEPT ![x] = [op |-> op, vault |-> v, by |-> d]]
      /\ replica' = [replica EXCEPT ![d] = new]
      /\ raced' = IF Syncing(d, s) THEN raced \cup {x} ELSE raced
      /\ Set(d, s, r) /\ sotLog' = sotLog /\ sotBlobs' = sotBlobs /\ cursor' = cursor
  BY DEF Edit, Begin
<1>3. /\ new \in Log /\ InLog(new) = InLog(rep) \cup {x} /\ Dense(new)
      /\ \A cur \in InLog(rep) \cup {None} : Behind(new, cur) = Behind(rep, cur)
  <2> DEFINE X == {x}
  <2>1. X \in SUBSET Ids /\ EmptyLog \in Log  BY EmptyDevice
  <2>2. Dense(rep)  BY <1>1 DEF OverlapDevice
  <2> HIDE DEF X
  <2>3. /\ Extend(rep, X, EmptyLog) \in Log
        /\ InLog(Extend(rep, X, EmptyLog)) = InLog(rep) \cup X
        /\ Dense(Extend(rep, X, EmptyLog))
    BY <1>1, <2>1, <2>2, ExtendInLog, ExtendDense
  <2>4. \A cur \in InLog(rep) \cup {None} :
          Behind(Extend(rep, X, EmptyLog), cur) = Behind(rep, cur)
    BY <1>1, <2>1, <2>2, ExtendBehind
  <2> QED  BY <2>3, <2>4 DEF X
<1> HIDE DEF new, r
<1>4. /\ x \notin Used /\ made'[x] = [op |-> op, vault |-> v, by |-> d]
      /\ \A y \in Used : made'[y] = made[y]
      /\ Used' = Used \cup {x} /\ x \notin InLog(rep)
  <2>1. made'[x] = [op |-> op, vault |-> v, by |-> d] /\ made'[x] # NoChange
    BY <1>1, <1>2 DEF NoChange, Ops
  <2>2. x \notin Used /\ \A y \in Ids \ {x} : made'[y] = made[y]
    BY <1>1, <1>2 DEF Used
  <2>3. Used' = Used \cup {x}  BY <2>1, <2>2 DEF Used
  <2>4. x \notin InLog(rep)  BY <1>1, <2>2 DEF UsedOnly
  <2>5. \A y \in Used : made'[y] = made[y]  BY <2>2 DEF Used
  <2> QED  BY <2>1, <2>2, <2>3, <2>4, <2>5
<1>5. Growth
  <2>1. {} \in SUBSET Used /\ sotLog' = Extend(sotLog, {}, sotLog)
    BY <1>1, <1>2, ExtendNothing
  <2>2. raced \subseteq raced'  BY <1>2
  <2> QED  BY <1>1, <1>2, <1>4, <2>1, <2>2 DEF Growth
<1>6. /\ RacedBy(d) \subseteq RacedBy(d)' /\ (Syncing(d, s) => x \in RacedBy(d)')
      /\ Blobless(d)' \subseteq Blobless(d) \cup {x}
  <2>1. raced \subseteq Used  BY <1>1 DEF UsedOnly
  <2>2. RacedBy(d) \subseteq RacedBy(d)'  BY <1>2, <1>4, <2>1 DEF RacedBy
  <2>3. Syncing(d, s) => x \in RacedBy(d)'  BY <1>2, <1>4 DEF RacedBy
  <2>4. Blobless(d)' \subseteq Blobless(d) \cup {x}
    BY <1>2, <1>4 DEF Blobless, Creates
  <2> QED  BY <2>2, <2>3, <2>4
<1>7. InLog(rep) \cap Blobless(d)' \subseteq Blobless(d)  BY <1>4, <1>6
<1>8. replica'[d] = new  BY <1>1, <1>2
\* The other calls of the device.
<1>9. ASSUME NEW k \in Call, OverlapCall(d, k),
             k.kind = "check" \/ k.pc \in {"idle", "cursor", "local"} \/ Syncing(d, s)
      PROVE  OverlapCall(d, k)'
  <2>1. OverlapSent(k, rep, sotLog, RacedBy(d)) /\ Dense(rep)
    BY <1>1, <1>9 DEF OverlapCall, OverlapDevice
  <2>2. /\ OverlapSent(k, new, sotLog, RacedBy(d)')
        /\ RacedBy(d)' = {} /\ OverlapSeen(k, rep, sotLog) => OverlapSeen(k, new, sotLog)
    <3> DEFINE more == RacedBy(d)'
               lost == RacedBy(d)
    <3>1. lost \subseteq more  BY <1>6
    <3>2. k.kind = "check" \/ k.pc \in {"idle", "cursor", "local"} \/ x \in more
      BY <1>6, <1>9
    <3>3. OverlapSent(k, rep, sotLog, lost)  BY <2>1
    <3> HIDE DEF more, lost
    <3>4. /\ OverlapSent(k, new, sotLog, more)
          /\ more = {} /\ OverlapSeen(k, rep, sotLog) => OverlapSeen(k, new, sotLog)
      BY <1>1, <1>3, <2>1, <3>1, <3>2, <3>3, EditBeside
    <3> QED  BY <3>4 DEF more
  <2>3. RacedBy(d)' = {} => OverlapSeen(k, new, sotLog) /\ OverlapBlobs(k, rep, Blobless(d))
    BY <1>6, <1>9, <2>2 DEF OverlapCall
  <2>4. ASSUME RacedBy(d)' = {}  PROVE OverlapBlobs(k, replica[d], Blobless(d))'
    <3>1. k.pc \in {"idle", "cursor", "local", "count"} /\ (k.pc = "count" => k.kind # "sync")
      BY <1>6, <1>9, <2>1, <2>4 DEF OverlapSent
    <3>2. k.pc = "local" => /\ Behind(new, k.start) = Behind(rep, k.start)
                            /\ Behind(rep, k.start) \subseteq InLog(rep)
                            /\ Behind(rep, k.start) \cap Blobless(d) = {}
      BY <1>3, <2>1, <2>3, <2>4, Sides DEF OverlapSent, OverlapBlobs
    <3>3. k.pc = "local" => Behind(new, k.start) \cap Blobless(d)' = {}  BY <1>7, <3>2
    <3> QED  BY <1>8, <3>1, <3>3 DEF OverlapBlobs
  <2>5. OverlapSent(k, replica[d], sotLog, RacedBy(d))'
    BY <1>2, <1>8, <2>2 DEF OverlapSent
  <2>6. RacedBy(d)' = {} => OverlapSeen(k, replica[d], sotLog)'
    BY <1>2, <1>8, <2>3 DEF OverlapSeen
  <2>7. OverlapEdit(d, k)'
    BY <1>2, <1>4, <1>6, <1>9 DEF OverlapCall, OverlapEdit
  <2> QED  BY <2>4, <2>5, <2>6, <2>7 DEF OverlapCall
\* The call that goes on from the edit, or has nothing more to do.
<1>10. PICK q \in Call :
         /\ q.pc \in {"idle", "cursor"} /\ q.kind = "sync" /\ q.remote = {}
         /\ \/ q.edit = None
            \/ q.edit = x /\ q.ret = "none"
         /\ Set(d, s, q)
  BY <1>2 DEF r, NoCall, Call, Pcs, Rets
<1>11. OverlapCall(d, q)'
  <2>1. OverlapSent(q, replica[d], sotLog, RacedBy(d))'  BY <1>10 DEF OverlapSent
  <2>2. OverlapSeen(q, replica[d], sotLog)'  BY <1>10 DEF OverlapSeen
  <2>3. OverlapBlobs(q, replica[d], Blobless(d))'  BY <1>10 DEF OverlapBlobs
  <2>4. OverlapEdit(d, q)'  BY <1>4, <1>10 DEF OverlapEdit
  <2> QED  BY <2>1, <2>2, <2>3, <2>4 DEF OverlapCall
<1>12. ASSUME NEW e \in Devices, NEW t \in Slots  PROVE OverlapCall(e, call[e][t])'
  <2>1. PICK k \in Call : k = call'[e][t]  BY DEF TypeOK
  <2>2. k = IF e = d /\ t = s THEN q ELSE call[e][t]  BY <1>1, <1>10, <2>1 DEF Set
  <2>3. OverlapCall(e, call[e][t])  BY DEF OverlapInv
  <2>4. OverlapCall(e, k)'
    <3>1. CASE e = d /\ t = s  BY <1>11, <2>2, <3>1
    <3>2. CASE e = d /\ t # s
      <4>1. k = call[d][t] /\ OverlapCall(d, k)  BY <2>2, <2>3, <3>2
      <4>2. k.kind = "check" \/ k.pc \in {"idle", "cursor", "local"} \/ Syncing(d, s)
        BY <3>2, <4>1 DEF Syncing, Call
      <4> QED  BY <1>9, <3>2, <4>1, <4>2
    <3>3. CASE e # d
      <4>1. replica'[e] = replica[e]  BY <1>1, <1>2, <3>3
      <4>2. OverlapCall(e, k)  BY <2>2, <2>3, <3>3
      <4> QED  BY <1>5, <4>1, <4>2, GrowOverlapCall
    <3> QED  BY <3>1, <3>2, <3>3
  <2> QED  BY <2>1, <2>4 DEF OverlapCall, OverlapEdit
<1>13. ASSUME NEW e \in Devices
       PROVE  OverlapDevice(replica[e], cursor[e], sotLog, RacedBy(e), Blobless(e))'
  <2>1. CASE e # d
    <3>1. replica'[e] = replica[e] /\ cursor'[e] = cursor[e]  BY <1>1, <1>2, <2>1
    <3> QED  BY <1>5, <3>1, GrowOverlapDevice
  <2>2. CASE e = d
    <3> DEFINE cur == cursor[d]
    <3>1. OverlapDevice(rep, cur, sotLog, RacedBy(d), Blobless(d))  BY <1>1
    <3>2. /\ cur \in InLog(rep) \cup {None} /\ Behind(rep, cur) \subseteq InLog(rep)
          /\ Behind(new, cur) = Behind(rep, cur)
      BY <1>3, <3>1, Sides DEF OverlapDevice
    <3>3. OverlapDevice(new, cur, sotLog, RacedBy(d)', Blobless(d)')
      BY <1>3, <1>6, <1>7, <3>1, <3>2 DEF OverlapDevice
    <3> QED  BY <1>2, <1>8, <2>2, <3>3 DEF OverlapDevice
  <2> QED  BY <2>1, <2>2
<1>14. UsedOnly'
  <2>1. InLog(sotLog') \cup raced' \subseteq Used'  BY <1>1, <1>2, <1>4 DEF UsedOnly
  <2>2. \A e \in Devices : InLog(replica[e]) \subseteq InLog(replica'[e])
                            /\ InLog(replica'[e]) \subseteq Used'
    BY <1>1, <1>2, <1>3, <1>4, <1>8 DEF UsedOnly
  <2>3. x \in InLog(replica'[d])  BY <1>3, <1>8
  <2>4. \A y \in Used : made[y].by \in Devices
    BY <1>1 DEF Used, Change
  <2>5. \A y \in Used' : y \in InLog(replica'[made'[y].by])
    BY <1>1, <1>4, <2>2, <2>3, <2>4 DEF UsedOnly
  <2> QED  BY <2>1, <2>2, <2>5 DEF UsedOnly
<1> QED  BY <1>1, <1>2, <1>12, <1>13, <1>14 DEF OverlapInv

LEMMA OverlapCrash ==
  ASSUME OverlapInv, TypeOK', NEW d \in Devices, Crash(d)
  PROVE  OverlapInv'
<1>1. UNCHANGED <<made, raced, sotLog, sotBlobs, replica, cursor>>  BY DEF Crash
<1>2. PICK k \in Call : k = NoCall  BY NoCallType
<1>3. Growth  BY <1>1, NoGrowth DEF OverlapInv
<1>4. OverlapCall(d, k)  BY <1>2, OverlapFresh DEF NoCall
<1>5. ASSUME NEW e \in Devices, NEW t \in Slots  PROVE OverlapCall(e, call[e][t])'
  <2>1. PICK q \in Call : q = call'[e][t]  BY DEF TypeOK
  <2>2. q = IF e = d THEN k ELSE call[e][t]
    BY <1>2, <2>1 DEF Crash, OverlapInv, TypeOK
  <2>3. OverlapCall(e, q)  BY <1>4, <2>2 DEF OverlapInv
  <2>4. OverlapCall(e, q)'  BY <1>1, <1>3, <2>3, GrowOverlapCall
  <2> QED  BY <2>1, <2>4 DEF OverlapCall, OverlapEdit
<1>6. \A e \in Devices :
        OverlapDevice(replica[e], cursor[e], sotLog, RacedBy(e), Blobless(e))'
  BY <1>1, <1>3, GrowOverlapDevice
<1>7. UsedOnly' /\ Dense(sotLog')  BY <1>1 DEF OverlapInv, UsedOnly, Used
<1> QED  BY <1>5, <1>6, <1>7 DEF OverlapInv

LEMMA OverlapStep ==
  ASSUME OverlapAssumed, OverlapInv, [Next]_vars
  PROVE  OverlapInv'
<1>0. TypeOK'  BY TypeStep DEF OverlapInv
<1>1. ASSUME UNCHANGED <<made, raced, sotLog, sotBlobs, replica, cursor, call>>
      PROVE  OverlapInv'
  <2>1. Growth  BY <1>1, NoGrowth DEF OverlapInv
  <2>2. ASSUME NEW e \in Devices, NEW t \in Slots  PROVE OverlapCall(e, call[e][t])'
    <3>1. PICK q \in Call : q = call[e][t]  BY DEF OverlapInv, TypeOK
    <3>2. OverlapCall(e, q) /\ q = call'[e][t]  BY <1>1, <3>1 DEF OverlapInv
    <3>3. OverlapCall(e, q)'  BY <1>1, <2>1, <3>2, GrowOverlapCall
    <3> QED  BY <3>2, <3>3 DEF OverlapCall, OverlapEdit
  <2>3. \A e \in Devices :
          OverlapDevice(replica[e], cursor[e], sotLog, RacedBy(e), Blobless(e))'
    BY <1>1, <2>1, GrowOverlapDevice
  <2>4. UsedOnly' /\ Dense(sotLog')  BY <1>1 DEF OverlapInv, UsedOnly, Used
  <2> QED  BY <1>0, <2>2, <2>3, <2>4 DEF OverlapInv
<1>2. ASSUME NEW d \in Devices, NEW s \in Slots, StartSync(d, s) \/ List(d, s)
      PROVE  OverlapInv'
  <2>1. UNCHANGED <<made, raced, sotLog, sotBlobs, replica, cursor>>
    BY <1>2 DEF StartSync, List
  <2>2. \E kind \in {"sync", "check"} : Begin(d, s, kind, None)
    BY <1>2 DEF StartSync, List
  <2> QED  BY <1>0, <2>1, <2>2, OverlapBegin
<1>3. ASSUME NEW d \in Devices, NEW s \in Slots, EditStep(d, s)
      PROVE  OverlapInv'
  <2>1. \E x \in Ids, v \in Vaults, op \in Ops : Edit(d, s, x, op, v)
    BY <1>3 DEF EditStep, CreateVault, UpdateVault, DeleteVault, Ops
  <2> QED  BY <1>0, <2>1, OverlapEdits
<1>4. ASSUME NEW d \in Devices, NEW s \in Slots, NEW ret \in Rets \ {"ok"},
             Return(d, s, ret), UNCHANGED <<made, raced, sotLog, replica, cursor>>,
             sotBlobs \subseteq sotBlobs'
      PROVE  OverlapInv'
  <2>1. Growth  BY <1>4, NoGrowth DEF OverlapInv
  <2> QED  BY <1>0, <1>4, <2>1, OverlapReturn
<1>5. ASSUME NEW d \in Devices, NEW s \in Slots, SyncStep(d, s)
      PROVE  OverlapInv'
  <2>1. CASE PushRefused(d, s) \/ BlobMissing(d, s)
    BY <1>4, <2>1 DEF PushRefused, BlobMissing, Rets
  <2> QED
    BY <1>0, <1>5, <2>1, OverlapRead, OverlapCount, OverlapFetch, OverlapPush,
       OverlapUpload, OverlapMerge, OverlapAdvance DEF SyncStep
<1>6. ASSUME NEW d \in Devices, NEW s \in Slots, FaultStep(d, s)
      PROVE  OverlapInv'
  <2>1. CASE UploadAnswerLost(d, s) \/ Fail(d, s)
    BY <1>4, <2>1 DEF UploadAnswerLost, Fail, Rets
  <2> QED  BY <1>0, <1>6, <2>1, OverlapPushLost DEF FaultStep
<1>7. ASSUME NEW d \in Devices, NEW v \in Vaults, DownloadBlob(d, v)  PROVE OverlapInv'
  BY <1>1, <1>7 DEF DownloadBlob
<1>8. CASE UNCHANGED vars  BY <1>1, <1>8 DEF vars
<1> QED  BY <1>0, <1>2, <1>3, <1>5, <1>6, <1>7, <1>8, OverlapCrash DEF Next

LEMMA OverlapInit == Init => OverlapInv
<1> SUFFICES ASSUME Init  PROVE OverlapInv
  OBVIOUS
<1>1. /\ InLog(EmptyLog) = {} /\ Dense(EmptyLog)  BY EmptyDevice
<1>2. Used = {} /\ \A d \in Devices : RacedBy(d) = {} /\ Blobless(d) = {}
  BY DEF Init, Used, RacedBy, Blobless, Creates
<1>3. UsedOnly  BY <1>1, <1>2 DEF Init, UsedOnly
<1>4. OverlapDevice(EmptyLog, None, EmptyLog, {}, {})
  BY <1>1, Sides DEF OverlapDevice
<1>5. \A d \in Devices : OverlapCall(d, NoCall)
  BY NoCallType, OverlapFresh DEF NoCall
<1> QED  BY <1>1, <1>2, <1>3, <1>4, <1>5, TypeInit DEF Init, OverlapInv

\* However many calls a device runs at a time, whatever fails and whenever the
\* program stops: if the daemon applies batches whole, refuses them on a log the
\* client has not seen to its end, and lists in its answer the changes it held
\* already, what an overlapping sync skips for ever is an edit made while another
\* call of the device was syncing, and a device that never made one loses nothing:
\* its cursor hides no change of the daemon, every creation behind it has its blob,
\* and each auto-mode edit that returned nil is at the daemon.
THEOREM OverlapLosesRaced ==
  ASSUME OverlapAssumed PROVE Spec => []OverlapLosesOnlyRaced
<1>1. OverlapInv => OverlapLosesOnlyRaced
  <2> SUFFICES ASSUME OverlapInv, NEW d \in Devices
               PROVE  /\ (Behind(replica[d], cursor[d]) \ InLog(sotLog)) \subseteq raced
                      /\ (\A x \in raced : made[x].by # d) =>
                           /\ Behind(sotLog, cursor[d]) \subseteq InLog(replica[d])
                           /\ \A x \in Creates(Behind(replica[d], cursor[d])) :
                                made[x].by = d => made[x].vault \in sotBlobs
                           /\ \A s \in Slots : call[d][s].ret = "ok" =>
                                call[d][s].edit \in InLog(sotLog) \cup {None}
    BY DEF OverlapLosesOnlyRaced
  <2> DEFINE B == Behind(replica[d], cursor[d])
  <2>1. OverlapDevice(replica[d], cursor[d], sotLog, RacedBy(d), Blobless(d))
    BY DEF OverlapInv
  <2>2. B \ InLog(sotLog) \subseteq raced  BY <2>1 DEF OverlapDevice, RacedBy
  <2>3. ASSUME \A x \in raced : made[x].by # d
        PROVE  /\ Behind(sotLog, cursor[d]) \subseteq InLog(replica[d])
               /\ \A x \in Creates(B) : made[x].by = d => made[x].vault \in sotBlobs
               /\ \A s \in Slots : call[d][s].ret = "ok" =>
                    call[d][s].edit \in InLog(sotLog) \cup {None}
    <3>1. RacedBy(d) = {}  BY <2>3 DEF RacedBy
    <3>2. B \subseteq Used  BY Sides DEF OverlapInv, UsedOnly
    <3>3. \A x \in Creates(B) : made[x].by = d => made[x].vault \in sotBlobs
      BY <2>1, <3>1, <3>2 DEF OverlapDevice, Blobless, Creates
    <3>4. \A s \in Slots : OverlapEdit(d, call[d][s])  BY DEF OverlapInv, OverlapCall
    <3> QED  BY <2>1, <3>1, <3>3, <3>4 DEF OverlapDevice, OverlapEdit
  <2> QED  BY <2>2, <2>3
<1>2. OverlapInv /\ [Next]_vars => OverlapInv'  BY OverlapStep
<1> QED  BY <1>1, <1>2, OverlapInit, PTL DEF Spec

--------------------------------------------------------------------------------
(* What needs no more of the daemon than batches applied whole *)

\* What OverlapInv says of the local changes, on whatever log the daemon takes a
\* batch and whatever its answer lists: what a call did not read as pending is at
\* the daemon or was edited under a call, and so is its edit when it returns nil.
SentEdit(c, rep, sot, lost) ==
  c.edit # None =>
    /\ c.edit \in InLog(rep)
    /\ c.ret = "ok" => c.edit \in InLog(sot) \cup lost

SentCall(c, rep, sot, lost) == OverlapSent(c, rep, sot, lost) /\ SentEdit(c, rep, sot, lost)

SentDevice(rep, cur, sot, lost) ==
  /\ Dense(rep)
  /\ cur \in InLog(rep) \cup {None}
  /\ Behind(rep, cur) \subseteq InLog(sot) \cup lost

SentInv ==
  /\ TypeOK
  /\ \A d \in Devices : SentDevice(replica[d], cursor[d], sotLog, raced)
  /\ \A d \in Devices, s \in Slots : SentCall(call[d][s], replica[d], sotLog, raced)

\* A step that leaves replicas and cursors alone: the daemon's log may have grown,
\* and one call has moved on.
LEMMA SentSet ==
  ASSUME SentInv, TypeOK', UNCHANGED <<raced, replica, cursor>>,
         InLog(sotLog) \subseteq InLog(sotLog'),
         NEW d \in Devices, NEW s \in Slots, NEW c \in Call, Set(d, s, c),
         SentCall(c, replica[d], sotLog', raced)
  PROVE  SentInv'
<1>1. call \in [Devices -> [Slots -> Call]]  BY DEF SentInv, TypeOK
<1>2. ASSUME NEW e \in Devices, NEW t \in Slots
      PROVE  SentCall(call'[e][t], replica[e], sotLog', raced)
  <2>1. call'[e][t] = IF e = d /\ t = s THEN c ELSE call[e][t]  BY <1>1 DEF Set
  <2>2. SentCall(call[e][t], replica[e], sotLog, raced)  BY DEF SentInv
  <2>3. SentCall(call[e][t], replica[e], sotLog', raced)
    <3>1. OverlapSent(call[e][t], replica[e], sotLog', raced)
      BY <2>2 DEF SentCall, OverlapSent
    <3>2. SentEdit(call[e][t], replica[e], sotLog', raced)
      BY <2>2 DEF SentCall, SentEdit
    <3> QED  BY <3>1, <3>2 DEF SentCall
  <2> QED  BY <2>1, <2>3
<1>3. \A e \in Devices : SentDevice(replica[e], cursor[e], sotLog', raced)
  BY DEF SentInv, SentDevice
<1> QED  BY <1>2, <1>3 DEF SentInv

LEMMA SentFresh ==
  ASSUME NEW c, c.pc \in {"idle", "cursor"}, c.remote = {}, c.edit = None,
         NEW rep, NEW sot, NEW lost
  PROVE  SentCall(c, rep, sot, lost)
BY DEF SentCall, OverlapSent, SentEdit

LEMMA SentReturn ==
  ASSUME SentInv, TypeOK', UNCHANGED <<raced, replica, cursor>>,
         InLog(sotLog) \subseteq InLog(sotLog'),
         NEW d \in Devices, NEW s \in Slots, NEW ret \in Rets \ {"ok"}, Return(d, s, ret)
  PROVE  SentInv'
<1> DEFINE c == [NoCall EXCEPT !.ret = ret, !.edit = None]
<1>1. Set(d, s, c)  BY DEF Return
<1>2. c \in Call /\ c.pc = "idle" /\ c.remote = {} /\ c.edit = None
  BY DEF NoCall, Call, Pcs, Rets
<1> HIDE DEF c
<1>3. SentCall(c, replica[d], sotLog', raced)  BY <1>2, SentFresh
<1> QED  BY <1>1, <1>2, <1>3, SentSet

LEMMA SentBegin ==
  ASSUME SentInv, TypeOK', UNCHANGED <<raced, sotLog, replica, cursor>>,
         NEW d \in Devices, NEW s \in Slots, NEW kind \in {"sync", "check"},
         Begin(d, s, kind, None)
  PROVE  SentInv'
<1> DEFINE c == [NoCall EXCEPT !.pc = "cursor", !.kind = kind, !.edit = None]
<1>1. Set(d, s, c)  BY DEF Begin
<1>2. c \in Call /\ c.pc = "cursor" /\ c.remote = {} /\ c.edit = None
  BY DEF NoCall, Call, Pcs, Rets
<1> HIDE DEF c
<1>3. SentCall(c, replica[d], sotLog', raced)  BY <1>2, SentFresh
<1> QED  BY <1>1, <1>2, <1>3, SentSet

\* The reading of the cursor and of the local changes, and the sealing of keys.
LEMMA SentRead ==
  ASSUME SentInv, TypeOK', NEW d \in Devices, NEW s \in Slots,
         ReadCursor(d, s) \/ ReadLocal(d, s) \/ SealKeys(d, s)
  PROVE  SentInv'
<1> DEFINE c == call[d][s]
           rep == replica[d]
           cur == cursor[d]
<1>1. /\ rep \in Log /\ cur \in Ids \cup {None} /\ c \in Call
      /\ SentDevice(rep, cur, sotLog, raced)
      /\ OverlapSent(c, rep, sotLog, raced) /\ SentEdit(c, rep, sotLog, raced)
  BY DEF SentInv, TypeOK, SentCall
<1>2. UNCHANGED <<raced, sotLog, replica, cursor>>
  BY DEF ReadCursor, ReadLocal, SealKeys
<1>3. CASE ReadCursor(d, s)
  <2> DEFINE r == [c EXCEPT !.pc = "local", !.start = cur]
  <2>1. Set(d, s, r) /\ c.pc = "cursor"  BY <1>3 DEF ReadCursor
  <2>2. /\ r \in Call /\ r.pc = "local" /\ r.start = cur /\ r.remote = c.remote
        /\ r.edit = c.edit /\ r.ret = c.ret /\ r.kind = c.kind
    BY <1>1 DEF Call, Pcs
  <2> HIDE DEF r
  <2>3. OverlapSent(r, rep, sotLog, raced)
    BY <1>1, <2>1, <2>2 DEF OverlapSent, SentDevice
  <2>4. SentCall(r, rep, sotLog', raced)  BY <1>1, <1>2, <2>2, <2>3 DEF SentCall, SentEdit
  <2> QED  BY <1>2, <2>1, <2>2, <2>4, SentSet
<1>4. CASE ReadLocal(d, s)
  <2> DEFINE r == [c EXCEPT !.pc = "count", !.local = After(rep, c.start)]
  <2>1. Set(d, s, r) /\ c.pc = "local"  BY <1>4 DEF ReadLocal
  <2>2. After(rep, c.start) \in SUBSET Ids  BY AfterIds
  <2>3. /\ r \in Call /\ r.pc = "count" /\ r.remote = c.remote
        /\ r.edit = c.edit /\ r.ret = c.ret /\ r.kind = c.kind
        /\ r.local = After(rep, c.start)
    BY <1>1, <2>2 DEF Call, Pcs
  <2> HIDE DEF r
  <2>4. c.start \in Ids \cup {None}  BY <1>1 DEF Call
  <2>5. InLog(rep) \ r.local = Behind(rep, c.start) /\ r.local \subseteq InLog(rep)
    BY <1>1, <2>3, <2>4, SidesCover, Sides
  <2>6. OverlapSent(r, rep, sotLog, raced)
    BY <1>1, <2>1, <2>3, <2>5 DEF OverlapSent
  <2>7. SentCall(r, rep, sotLog', raced)  BY <1>1, <1>2, <2>3, <2>6 DEF SentCall, SentEdit
  <2> QED  BY <1>2, <2>1, <2>3, <2>7, SentSet
<1>5. CASE SealKeys(d, s)
  <2> DEFINE r == [c EXCEPT !.pc = "push"]
  <2>1. Set(d, s, r) /\ c.pc = "keys"  BY <1>5 DEF SealKeys
  <2>2. /\ r \in Call /\ r.pc = "push" /\ r.remote = c.remote
        /\ r.edit = c.edit /\ r.ret = c.ret /\ r.kind = c.kind /\ r.local = c.local
    BY <1>1 DEF Call, Pcs
  <2> HIDE DEF r
  <2>3. OverlapSent(r, rep, sotLog, raced)  BY <1>1, <2>1, <2>2 DEF OverlapSent
  <2>4. SentCall(r, rep, sotLog', raced)  BY <1>1, <1>2, <2>2, <2>3 DEF SentCall, SentEdit
  <2> QED  BY <1>2, <2>1, <2>2, <2>4, SentSet
<1> QED  BY <1>3, <1>4, <1>5

\* A call with no local changes goes on to the merge at once: everything the replica
\* holds is at the daemon, or raced.
LEMMA SentAfterFetch ==
  ASSUME NEW c, c.kind = "sync", c.pc \in {"count", "fetch"}, NEW rep, NEW sot, NEW lost,
         OverlapSent(c, rep, sot, lost), SentEdit(c, rep, sot, lost),
         NEW q, q.kind = "sync", q.local = c.local, q.edit = c.edit, q.ret = c.ret,
         \/ q.pc = "fetch" /\ q.remote = {}
         \/ q.pc = AfterFetch(c.local) /\ q.remote \subseteq InLog(sot)
  PROVE  SentCall(q, rep, sot, lost)
<1>1. c.local \subseteq InLog(rep) /\ InLog(rep) \ c.local \subseteq InLog(sot) \cup lost
  BY DEF OverlapSent
<1>2. q.pc \in {"fetch", "keys"} \/ (q.pc = "merge" /\ c.local = {})  BY DEF AfterFetch
<1>3. q.remote \subseteq InLog(sot) /\ (q.pc = "fetch" => q.remote = {})
  BY DEF AfterFetch
<1>4. OverlapSent(q, rep, sot, lost)
  <2>1. CASE q.pc \in {"fetch", "keys"}  BY <1>1, <1>3, <2>1 DEF OverlapSent
  <2>2. CASE q.pc = "merge" /\ c.local = {}  BY <1>1, <1>3, <2>2 DEF OverlapSent
  <2> QED  BY <1>2, <2>1, <2>2
<1> QED  BY <1>4 DEF SentCall, SentEdit

LEMMA SentCount ==
  ASSUME SentInv, TypeOK', NEW d \in Devices, NEW s \in Slots, CountRemote(d, s)
  PROVE  SentInv'
<1> DEFINE c == call[d][s]
           n == Cardinality(After(sotLog, c.start))
           r == [c EXCEPT !.count = n,
                   !.pc = IF n = 0 THEN AfterFetch(c.local) ELSE "fetch"]
<1>1. c \in Call /\ SentCall(c, replica[d], sotLog, raced)  BY DEF SentInv, TypeOK
<1>2. UNCHANGED <<raced, sotLog, replica, cursor>> /\ c.pc = "count"
  BY DEF CountRemote
<1>3. CASE c.kind = "check"
  <2>1. \E ret \in Rets \ {"ok"} : Return(d, s, ret)  BY <1>3 DEF CountRemote, Rets
  <2> QED  BY <1>2, <2>1, SentReturn
<1>4. CASE c.kind # "check"
  <2>1. Set(d, s, r)  BY <1>4 DEF CountRemote
  <2>2. n \in Nat  BY AfterIds, IdSets
  <2>3. c.kind = "sync"  BY <1>1, <1>4 DEF Call
  <2>4. /\ r \in Call /\ r.remote = c.remote /\ r.local = c.local
        /\ r.edit = c.edit /\ r.ret = c.ret /\ r.kind = c.kind
        /\ r.pc = IF n = 0 THEN AfterFetch(c.local) ELSE "fetch"
    BY <1>1, <2>2 DEF Call, Pcs, AfterFetch
  <2> HIDE DEF r, n
  <2>5. c.remote = {}  BY <1>1, <1>2 DEF SentCall, OverlapSent
  <2>6. r.pc = "fetch" \/ r.pc = AfterFetch(c.local)  BY <2>4
  <2>7. OverlapSent(c, replica[d], sotLog, raced) /\ SentEdit(c, replica[d], sotLog, raced)
    BY <1>1 DEF SentCall
  <2> HIDE DEF c
  <2>8. SentCall(r, replica[d], sotLog, raced)
    BY <1>2, <2>3, <2>4, <2>5, <2>6, <2>7, SentAfterFetch
  <2>9. SentCall(r, replica[d], sotLog', raced)  BY <1>2, <2>8
  <2> QED  BY <1>2, <2>1, <2>4, <2>9, SentSet
<1> QED  BY <1>3, <1>4

LEMMA SentFetch ==
  ASSUME SentInv, TypeOK', NEW d \in Devices, NEW s \in Slots, FetchRemote(d, s)
  PROVE  SentInv'
<1> DEFINE c == call[d][s]
           got == FirstAfter(sotLog, c.start, c.count)
           r == [c EXCEPT !.pc = AfterFetch(c.local), !.remote = got]
<1>1. c \in Call /\ SentCall(c, replica[d], sotLog, raced)  BY DEF SentInv, TypeOK
<1>2. UNCHANGED <<raced, sotLog, replica, cursor>> /\ c.pc = "fetch" /\ Set(d, s, r)
  BY DEF FetchRemote
<1>3. got \in SUBSET Ids /\ got \subseteq InLog(sotLog)
  <2>1. got \subseteq After(sotLog, c.start)  BY DEF FirstAfter
  <2> QED  BY <2>1, AfterIds, Sides
<1>4. c.kind = "sync"  BY <1>1, <1>2 DEF Call, SentCall, OverlapSent
<1>5. /\ r \in Call /\ r.remote = got /\ r.local = c.local
      /\ r.edit = c.edit /\ r.ret = c.ret /\ r.kind = c.kind
      /\ r.pc = AfterFetch(c.local)
  BY <1>1, <1>3 DEF Call, Pcs, AfterFetch
<1> HIDE DEF r, got
<1>6. OverlapSent(c, replica[d], sotLog, raced) /\ SentEdit(c, replica[d], sotLog, raced)
  BY <1>1 DEF SentCall
<1> HIDE DEF c
<1>7. SentCall(r, replica[d], sotLog, raced)
  BY <1>2, <1>3, <1>4, <1>5, <1>6, SentAfterFetch
<1>8. SentCall(r, replica[d], sotLog', raced)  BY <1>2, <1>7
<1> QED  BY <1>2, <1>5, <1>8, SentSet

\* The daemon applies the batch as a whole: whatever it answers, the pending changes
\* the call read are in its log.
LEMMA SentPush ==
  ASSUME "all" \in Promises, SentInv, TypeOK', NEW d \in Devices, NEW s \in Slots,
         Push(d, s)
  PROVE  SentInv'
<1> DEFINE c == call[d][s]
           rep == replica[d]
           todo == VaultsOf(Creates(Answer(c.local)))
           r == [c EXCEPT !.todo = todo, !.pc = IF todo = {} THEN "merge" ELSE "blobs"]
<1>1. rep \in Log /\ sotLog \in Log /\ c \in Call /\ SentCall(c, rep, sotLog, raced)
  BY DEF SentInv, TypeOK
<1>2. /\ UNCHANGED <<raced, replica, cursor>> /\ c.pc = "push"
      /\ sotLog' = Extend(sotLog, c.local, rep) /\ Set(d, s, r)
  BY DEF Push, Applicable
<1>3. c.local \in SUBSET Ids /\ c.kind = "sync"
  BY <1>1, <1>2 DEF Call, SentCall, OverlapSent
<1>4. InLog(sotLog') = InLog(sotLog) \cup c.local
  <2> DEFINE L == c.local
  <2>1. L \in SUBSET Ids /\ sotLog' = Extend(sotLog, L, rep)  BY <1>2, <1>3
  <2> HIDE DEF L
  <2>2. InLog(Extend(sotLog, L, rep)) = InLog(sotLog) \cup L
    BY <1>1, <2>1, ExtendInLog
  <2> QED  BY <2>1, <2>2 DEF L
<1>5. todo \in SUBSET Vaults
  <2>1. Answer(c.local) \in SUBSET Ids  BY <1>3 DEF Answer
  <2> QED  BY <2>1, CreatesVaults DEF SentInv
<1>6. /\ r \in Call /\ r.remote = c.remote /\ r.local = c.local
      /\ r.edit = c.edit /\ r.ret = c.ret /\ r.kind = c.kind
      /\ r.pc \in {"blobs", "merge"}
  BY <1>1, <1>5 DEF Call, Pcs
<1> HIDE DEF r
<1>7. c.local \subseteq InLog(rep) /\ InLog(rep) \ c.local \subseteq InLog(sotLog) \cup raced
  BY <1>1, <1>2, <1>3 DEF SentCall, OverlapSent
<1>8. OverlapSent(r, rep, sotLog', raced)
  BY <1>1, <1>2, <1>3, <1>4, <1>6, <1>7 DEF SentCall, OverlapSent
<1>9. SentEdit(r, rep, sotLog', raced)  BY <1>1, <1>4, <1>6 DEF SentCall, SentEdit
<1> QED  BY <1>2, <1>4, <1>6, <1>8, <1>9, SentSet DEF SentCall

LEMMA SentPushLost ==
  ASSUME SentInv, TypeOK', NEW d \in Devices, NEW s \in Slots, PushAnswerLost(d, s)
  PROVE  SentInv'
<1>1. PICK S \in Applicable(call[d][s].local) : sotLog' = Extend(sotLog, S, replica[d])
  BY DEF PushAnswerLost
<1>2. replica[d] \in Log /\ sotLog \in Log /\ call[d][s] \in Call
  BY DEF SentInv, TypeOK
<1>3. S \in SUBSET Ids  BY <1>1, <1>2 DEF Applicable, Call
<1>4. InLog(sotLog') = InLog(sotLog) \cup S  BY <1>1, <1>2, <1>3, ExtendInLog
<1>5. Return(d, s, "err") /\ UNCHANGED <<raced, replica, cursor>>
  BY DEF PushAnswerLost
<1> QED  BY <1>4, <1>5, SentReturn DEF Rets

LEMMA SentUpload ==
  ASSUME SentInv, TypeOK', NEW d \in Devices, NEW s \in Slots, NEW v \in Vaults,
         UploadBlob(d, s, v)
  PROVE  SentInv'
<1> DEFINE c == call[d][s]
           rest == c.todo \ {v}
           r == [c EXCEPT !.todo = rest, !.pc = IF rest = {} THEN "merge" ELSE "blobs"]
<1>1. c \in Call /\ OverlapSent(c, replica[d], sotLog, raced)
        /\ SentEdit(c, replica[d], sotLog, raced)
  BY DEF SentInv, TypeOK, SentCall
<1>2. UNCHANGED <<raced, sotLog, replica, cursor>> /\ c.pc = "blobs" /\ Set(d, s, r)
  BY DEF UploadBlob
<1>3. /\ r \in Call /\ r.remote = c.remote /\ r.local = c.local
      /\ r.edit = c.edit /\ r.ret = c.ret /\ r.kind = c.kind
      /\ r.pc \in {"blobs", "merge"}
  BY <1>1 DEF Call, Pcs
<1> HIDE DEF r
<1>4. OverlapSent(r, replica[d], sotLog, raced)  BY <1>1, <1>2, <1>3 DEF OverlapSent
<1>5. SentCall(r, replica[d], sotLog', raced)
  BY <1>1, <1>2, <1>3, <1>4 DEF SentCall, SentEdit
<1> QED  BY <1>2, <1>3, <1>5, SentSet

\* What the merge adds to the replica is the daemon's, and the rest is there already.
LEMMA SentMerge ==
  ASSUME SentInv, TypeOK', NEW d \in Devices, NEW s \in Slots, Merge(d, s)
  PROVE  SentInv'
<1> DEFINE c == call[d][s]
           rep == replica[d]
           r == [c EXCEPT !.pc = "advance"]
<1>1. /\ rep \in Log /\ sotLog \in Log /\ c \in Call
      /\ call \in [Devices -> [Slots -> Call]] /\ replica \in [Devices -> Log]
      /\ OverlapSent(c, rep, sotLog, raced) /\ SentEdit(c, rep, sotLog, raced)
      /\ \A e \in Devices : SentDevice(replica[e], cursor[e], sotLog, raced)
  BY DEF SentInv, TypeOK, SentCall
<1>2. c.pc = "merge" /\ Set(d, s, r) /\ raced' = raced /\ sotLog' = sotLog /\ cursor' = cursor
  BY DEF Merge
<1>3. PICK new \in {Appended(rep, c, sotLog), Rebased(rep, c, sotLog)} :
        replica' = [replica EXCEPT ![d] = new]
  BY DEF Merge
<1>4. /\ c.remote \subseteq InLog(sotLog) /\ c.local \subseteq InLog(rep)
      /\ InLog(rep) \subseteq InLog(sotLog) \cup raced /\ c.kind = "sync"
  BY <1>1, <1>2 DEF OverlapSent, Call
<1>5. new \in Log /\ InLog(new) = InLog(rep) \cup c.remote /\ Dense(new)
  <2> DEFINE R == c.remote
             L == c.local
  <2>1. R \in SUBSET Ids /\ L \in SUBSET InLog(rep)  BY <1>1, <1>4 DEF Call
  <2>2. \/ new = Extend(rep, R, sotLog)
        \/ new = Extend(Extend(Only(rep, Ids \ L), R, sotLog), L, rep)
    BY <1>3 DEF Appended, Rebased
  <2>3. Dense(rep)  BY <1>1 DEF SentDevice
  <2> HIDE DEF R, L
  <2>4. new \in Log /\ InLog(new) = InLog(rep) \cup R /\ Dense(new)
    BY <1>1, <2>1, <2>2, <2>3, MergedSets
  <2> QED  BY <2>4 DEF R
<1>6. InLog(new) \subseteq InLog(sotLog) \cup raced  BY <1>4, <1>5
<1>7. InLog(new) \subseteq Ids /\ Behind(new, cursor[d]) \subseteq InLog(new)  BY Sides
<1>8. SentDevice(new, cursor[d], sotLog, raced)
  BY <1>1, <1>5, <1>6, <1>7 DEF SentDevice
<1>9. /\ replica'[d] = new
      /\ \A e \in Devices : e # d => replica'[e] = replica[e]
  BY <1>1, <1>3
<1>10. /\ r.pc = "advance" /\ r.remote = c.remote /\ r.edit = c.edit
       /\ r.ret = c.ret /\ r.kind = c.kind
       /\ \A e \in Devices, t \in Slots :
            call'[e][t] = IF e = d /\ t = s THEN r ELSE call[e][t]
  BY <1>1, <1>2 DEF Call, Set
<1> HIDE DEF r
<1>11. SentCall(r, new, sotLog, raced)
  <2>1. OverlapSent(r, new, sotLog, raced)  BY <1>4, <1>6, <1>10 DEF OverlapSent
  <2> QED  BY <1>1, <1>5, <1>10, <2>1 DEF SentCall, SentEdit
<1>12. ASSUME NEW t \in Slots  PROVE SentCall(call[d][t], new, sotLog, raced)
  <2> DEFINE k == call[d][t]
  <2>1. OverlapSent(k, rep, sotLog, raced) /\ SentEdit(k, rep, sotLog, raced)
    BY DEF SentInv, SentCall
  <2>2. OverlapSent(k, new, sotLog, raced)
    <3> DEFINE R == c.remote
    <3>1. InLog(new) = InLog(rep) \cup R  BY <1>5
    <3> HIDE DEF R, k, c, rep
    <3> QED  BY <1>6, <1>7, <2>1, <3>1, MergeBeside
  <2>3. SentEdit(k, new, sotLog, raced)  BY <1>5, <2>1 DEF SentEdit
  <2> QED  BY <2>2, <2>3 DEF SentCall
<1>13. ASSUME NEW e \in Devices, NEW t \in Slots
       PROVE  SentCall(call'[e][t], replica'[e], sotLog, raced)
  <2>1. CASE e = d  BY <1>9, <1>10, <1>11, <1>12, <2>1
  <2>2. CASE e # d  BY <1>9, <1>10, <2>2 DEF SentInv
  <2> QED  BY <2>1, <2>2
<1>14. \A e \in Devices : SentDevice(replica'[e], cursor[e], sotLog, raced)
  BY <1>1, <1>8, <1>9
<1> QED  BY <1>2, <1>13, <1>14 DEF SentInv

LEMMA SentAdvance ==
  ASSUME SentInv, TypeOK', NEW d \in Devices, NEW s \in Slots, Advance(d, s)
  PROVE  SentInv'
<1> DEFINE c == call[d][s]
           rep == replica[d]
           r == [NoCall EXCEPT !.ret = "ok", !.edit = c.edit]
<1>1. /\ cursor \in [Devices -> Ids \cup {None}] /\ c \in Call
      /\ call \in [Devices -> [Slots -> Call]]
      /\ OverlapSent(c, rep, sotLog, raced) /\ SentEdit(c, rep, sotLog, raced)
      /\ \A e \in Devices : SentDevice(replica[e], cursor[e], sotLog, raced)
  BY DEF SentInv, TypeOK, SentCall
<1>2. c.pc = "advance" /\ Set(d, s, r) /\ UNCHANGED <<raced, sotLog, replica>>
  BY DEF Advance, Return
<1>3. InLog(rep) \subseteq InLog(sotLog) \cup raced  BY <1>1, <1>2 DEF OverlapSent
<1>4. SentDevice(rep, cursor'[d], sotLog, raced)
  <2>1. CASE UNCHANGED cursor  BY <1>1, <2>1
  <2>2. CASE \E last \in InLog(rep) : cursor' = [cursor EXCEPT ![d] = last]
    <3>1. PICK last \in InLog(rep) : cursor' = [cursor EXCEPT ![d] = last]  BY <2>2
    <3>2. cursor'[d] = last  BY <1>1, <3>1
    <3>3. Dense(rep) /\ Behind(rep, last) \subseteq InLog(rep)
      BY <1>1, Sides DEF SentDevice
    <3> QED  BY <1>3, <3>1, <3>2, <3>3 DEF SentDevice
  <2> QED  BY <2>1, <2>2 DEF Advance
<1>5. \A e \in Devices : e # d => cursor'[e] = cursor[e]  BY <1>1 DEF Advance
<1>6. \A e \in Devices : SentDevice(replica[e], cursor'[e], sotLog, raced)
  BY <1>1, <1>4, <1>5
<1>7. r.pc = "idle" /\ r.remote = {} /\ r.edit = c.edit /\ r.ret = "ok"
  BY DEF NoCall
<1>8. \A e \in Devices, t \in Slots :
        call'[e][t] = IF e = d /\ t = s THEN r ELSE call[e][t]
  BY <1>1, <1>2 DEF Set
<1> HIDE DEF r
<1>9. SentCall(r, rep, sotLog, raced)
  <2>1. OverlapSent(r, rep, sotLog, raced)  BY <1>7 DEF OverlapSent
  <2>2. SentEdit(r, rep, sotLog, raced)  BY <1>1, <1>3, <1>7 DEF SentEdit
  <2> QED  BY <2>1, <2>2 DEF SentCall
<1>10. ASSUME NEW e \in Devices, NEW t \in Slots
       PROVE  SentCall(call'[e][t], replica[e], sotLog, raced)
  BY <1>8, <1>9 DEF SentInv
<1> QED  BY <1>2, <1>6, <1>10 DEF SentInv

\* An edit is raced when another call of its device may leave it out.
LEMMA SentEdits ==
  ASSUME SentInv, TypeOK', NEW d \in Devices, NEW s \in Slots, NEW x \in Ids,
         NEW v \in Vaults, NEW op \in Ops, Edit(d, s, x, op, v)
  PROVE  SentInv'
<1> DEFINE rep == replica[d]
           new == Extend(rep, {x}, EmptyLog)
           r == IF Mode[d] = "auto"
                THEN [NoCall EXCEPT !.pc = "cursor", !.kind = "sync", !.edit = x]
                ELSE [NoCall EXCEPT !.ret = "ok"]
<1>1. /\ rep \in Log /\ call \in [Devices -> [Slots -> Call]]
      /\ replica \in [Devices -> Log]
      /\ \A e \in Devices : SentDevice(replica[e], cursor[e], sotLog, raced)
  BY DEF SentInv, TypeOK
<1>2. /\ replica' = [replica EXCEPT ![d] = new]
      /\ raced \subseteq raced' /\ (Syncing(d, s) => x \in raced')
      /\ Set(d, s, r) /\ sotLog' = sotLog /\ cursor' = cursor
  BY DEF Edit, Begin
<1>3. /\ InLog(new) = InLog(rep) \cup {x} /\ Dense(new)
      /\ \A cur \in InLog(rep) \cup {None} : Behind(new, cur) = Behind(rep, cur)
  <2> DEFINE X == {x}
  <2>1. X \in SUBSET Ids /\ EmptyLog \in Log  BY EmptyDevice
  <2>2. Dense(rep)  BY <1>1 DEF SentDevice
  <2> HIDE DEF X
  <2>3. /\ InLog(Extend(rep, X, EmptyLog)) = InLog(rep) \cup X
        /\ Dense(Extend(rep, X, EmptyLog))
    BY <1>1, <2>1, <2>2, ExtendInLog, ExtendDense
  <2>4. \A cur \in InLog(rep) \cup {None} :
          Behind(Extend(rep, X, EmptyLog), cur) = Behind(rep, cur)
    BY <1>1, <2>1, <2>2, ExtendBehind
  <2> QED  BY <2>3, <2>4 DEF X
<1>4. /\ r.pc \in {"idle", "cursor"} /\ r.kind = "sync" /\ r.remote = {}
      /\ r.edit = None \/ (r.edit = x /\ r.ret = "none")
      /\ \A e \in Devices, t \in Slots :
           call'[e][t] = IF e = d /\ t = s THEN r ELSE call[e][t]
  BY <1>1, <1>2 DEF NoCall, Set
<1> HIDE DEF new, r
<1>5. SentCall(r, new, sotLog, raced')
  BY <1>3, <1>4 DEF SentCall, OverlapSent, SentEdit
<1>6. ASSUME NEW t \in Slots \ {s}  PROVE SentCall(call[d][t], new, sotLog, raced')
  <2> DEFINE k == call[d][t]
  <2>1. k \in Call /\ OverlapSent(k, rep, sotLog, raced) /\ SentEdit(k, rep, sotLog, raced)
    BY DEF SentInv, SentCall, TypeOK
  <2>2. k.kind = "check" \/ k.pc \in {"idle", "cursor", "local"} \/ x \in raced'
    BY <1>2, <2>1 DEF Syncing, Call
  <2>3. OverlapSent(k, new, sotLog, raced')
    <3> DEFINE more == raced'
    <3>1. Dense(rep)  BY <1>1 DEF SentDevice
    <3>2. raced \subseteq more  BY <1>2
    <3>3. k.kind = "check" \/ k.pc \in {"idle", "cursor", "local"} \/ x \in more  BY <2>2
    <3> HIDE DEF more, k
    <3>4. OverlapSent(k, new, sotLog, more)
      BY <1>1, <1>3, <2>1, <3>1, <3>2, <3>3, EditBeside
    <3> QED  BY <3>4 DEF more
  <2>4. SentEdit(k, new, sotLog, raced')  BY <1>2, <1>3, <2>1 DEF SentEdit
  <2> QED  BY <2>3, <2>4 DEF SentCall
<1>7. /\ replica'[d] = new
      /\ \A e \in Devices : e # d => replica'[e] = replica[e]
  BY <1>1, <1>2
<1>8. ASSUME NEW e \in Devices, NEW t \in Slots
      PROVE  SentCall(call'[e][t], replica'[e], sotLog, raced')
  <2>1. CASE e = d /\ t = s  BY <1>4, <1>5, <1>7, <2>1
  <2>2. CASE e = d /\ t # s  BY <1>4, <1>6, <1>7, <2>2
  <2>3. CASE e # d
    <3>1. SentCall(call[e][t], replica[e], sotLog, raced)  BY DEF SentInv
    <3>2. SentCall(call[e][t], replica[e], sotLog, raced')
      BY <1>2, <3>1 DEF SentCall, OverlapSent, SentEdit
    <3> QED  BY <1>4, <1>7, <2>3, <3>2
  <2> QED  BY <2>1, <2>2, <2>3
<1>9. ASSUME NEW e \in Devices  PROVE SentDevice(replica'[e], cursor[e], sotLog, raced')
  <2>1. SentDevice(replica[e], cursor[e], sotLog, raced)  BY <1>1
  <2>2. CASE e = d
    <3>1. cursor[d] \in InLog(rep) \cup {None}  BY <2>1, <2>2 DEF SentDevice
    <3>2. Behind(new, cursor[d]) = Behind(rep, cursor[d])  BY <1>3, <3>1
    <3> QED  BY <1>2, <1>3, <1>7, <2>1, <2>2, <3>1, <3>2 DEF SentDevice
  <2>3. CASE e # d  BY <1>2, <1>7, <2>1, <2>3 DEF SentDevice
  <2> QED  BY <2>2, <2>3
<1> QED  BY <1>2, <1>8, <1>9 DEF SentInv

LEMMA SentStep ==
  ASSUME "all" \in Promises, SentInv, [Next]_vars
  PROVE  SentInv'
<1>0. TypeOK'  BY TypeStep DEF SentInv
<1>1. CASE UNCHANGED <<raced, sotLog, replica, cursor, call>>  BY <1>0, <1>1 DEF SentInv
<1>2. ASSUME NEW d \in Devices, NEW s \in Slots, StartSync(d, s) \/ List(d, s)
      PROVE  SentInv'
  <2>1. UNCHANGED <<raced, sotLog, replica, cursor>>  BY <1>2 DEF StartSync, List
  <2>2. \E kind \in {"sync", "check"} : Begin(d, s, kind, None)
    BY <1>2 DEF StartSync, List
  <2> QED  BY <1>0, <2>1, <2>2, SentBegin
<1>3. ASSUME NEW d \in Devices, NEW s \in Slots, EditStep(d, s)
      PROVE  SentInv'
  <2>1. \E x \in Ids, v \in Vaults, op \in Ops : Edit(d, s, x, op, v)
    BY <1>3 DEF EditStep, CreateVault, UpdateVault, DeleteVault, Ops
  <2> QED  BY <1>0, <2>1, SentEdits
<1>4. ASSUME NEW d \in Devices, NEW s \in Slots, Return(d, s, "err"),
             UNCHANGED <<raced, sotLog, replica, cursor>>
      PROVE  SentInv'
  BY <1>0, <1>4, SentReturn DEF Rets
<1>5. ASSUME NEW d \in Devices, NEW s \in Slots, SyncStep(d, s)
      PROVE  SentInv'
  <2>1. CASE PushRefused(d, s) \/ BlobMissing(d, s)
    BY <1>4, <2>1 DEF PushRefused, BlobMissing
  <2> QED
    BY <1>0, <1>5, <2>1, SentRead, SentCount, SentFetch, SentPush, SentUpload,
       SentMerge, SentAdvance DEF SyncStep
<1>6. ASSUME NEW d \in Devices, NEW s \in Slots, FaultStep(d, s)
      PROVE  SentInv'
  <2>1. CASE UploadAnswerLost(d, s) \/ Fail(d, s)
    BY <1>4, <2>1 DEF UploadAnswerLost, Fail
  <2> QED  BY <1>0, <1>6, <2>1, SentPushLost DEF FaultStep
<1>7. ASSUME NEW d \in Devices, Crash(d)  PROVE SentInv'
  <2>1. UNCHANGED <<raced, sotLog, replica, cursor>>  BY <1>7 DEF Crash
  <2>2. NoCall.pc = "idle" /\ NoCall.remote = {} /\ NoCall.edit = None  BY DEF NoCall
  <2>3. SentCall(NoCall, replica[d], sotLog, raced)  BY <2>2, SentFresh
  <2>4. \A e \in Devices, t \in Slots :
          call'[e][t] = IF e = d THEN NoCall ELSE call[e][t]
    BY <1>7 DEF Crash, SentInv, TypeOK
  <2>5. ASSUME NEW e \in Devices, NEW t \in Slots
        PROVE  SentCall(call'[e][t], replica[e], sotLog, raced)
    BY <2>3, <2>4 DEF SentInv
  <2> QED  BY <1>0, <2>1, <2>5 DEF SentInv
<1>8. ASSUME NEW d \in Devices, NEW v \in Vaults, DownloadBlob(d, v)  PROVE SentInv'
  BY <1>1, <1>8 DEF DownloadBlob
<1>9. CASE UNCHANGED vars  BY <1>1, <1>9 DEF vars
<1> QED  BY <1>2, <1>3, <1>5, <1>6, <1>7, <1>8, <1>9 DEF Next

LEMMA SentInit == Init => SentInv
<1> SUFFICES ASSUME Init  PROVE SentInv
  OBVIOUS
<1>1. InLog(EmptyLog) = {} /\ Dense(EmptyLog) /\ Behind(EmptyLog, None) \subseteq {}
  BY EmptyDevice, Sides
<1>2. NoCall.pc = "idle" /\ NoCall.remote = {} /\ NoCall.edit = None  BY DEF NoCall
<1>3. SentCall(NoCall, EmptyLog, EmptyLog, {})  BY <1>2, SentFresh
<1>4. SentDevice(EmptyLog, None, EmptyLog, {})  BY <1>1 DEF SentDevice
<1> QED  BY <1>3, <1>4, TypeInit DEF Init, SentInv

\* The local half of a sync needs only a daemon that applies batches whole: however
\* many calls a device runs at a time, whatever log the daemon takes a batch on and
\* whatever its answer lists, a change that lies unsent behind the cursor was made
\* while another call of its device was syncing.
THEOREM SentOrRaced ==
  ASSUME "all" \in Promises
  PROVE  Spec => [](\A d \in Devices :
                      (Behind(replica[d], cursor[d]) \ InLog(sotLog)) \subseteq raced)
<1>1. SentInv => \A d \in Devices :
                   (Behind(replica[d], cursor[d]) \ InLog(sotLog)) \subseteq raced
  BY DEF SentInv, SentDevice
<1>2. SentInv /\ [Next]_vars => SentInv'  BY SentStep
<1> QED  BY <1>1, <1>2, SentInit, PTL DEF Spec

\* A device that makes one call at a time never races an edit.
LEMMA NeverRaced == ASSUME SerialCalls PROVE Spec => [](raced = {})
<1>1. Init => raced = {}  BY DEF Init
<1>2. raced = {} /\ [Next]_vars => (raced = {})'
  <2> SUFFICES ASSUME raced = {}, [Next]_vars  PROVE raced' = {}
    OBVIOUS
  <2>1. \A d \in Devices, s \in Slots : ~Syncing(d, s)  BY DEF Syncing, SerialCalls
  <2>2. ASSUME NEW d \in Devices, NEW s \in Slots, EditStep(d, s)  PROVE raced' = {}
    <3>1. \E c \in Ids, v \in Vaults, op \in Ops : Edit(d, s, c, op, v)
      BY <2>2 DEF EditStep, CreateVault, UpdateVault, DeleteVault, Ops
    <3> QED  BY <2>1, <3>1 DEF Edit
  <2>3. ASSUME NEW d \in Devices, NEW s \in Slots, SyncStep(d, s)  PROVE raced' = {}
    BY <2>3 DEF SyncStep, ReadCursor, ReadLocal, CountRemote, FetchRemote, SealKeys,
       Push, PushRefused, UploadBlob, BlobMissing, Merge, Advance
  <2>4. ASSUME NEW d \in Devices, NEW s \in Slots, FaultStep(d, s)  PROVE raced' = {}
    BY <2>4 DEF FaultStep, PushAnswerLost, UploadAnswerLost, Fail
  <2>5. ASSUME NEW d \in Devices, NEW s \in Slots, StartSync(d, s) \/ List(d, s)
        PROVE  raced' = {}
    BY <2>5 DEF StartSync, List
  <2>6. ASSUME NEW d \in Devices, NEW v \in Vaults, DownloadBlob(d, v)
        PROVE  raced' = {}
    BY <2>6 DEF DownloadBlob
  <2>7. \A d \in Devices : Crash(d) => raced' = {}  BY DEF Crash
  <2> QED  BY <2>2, <2>3, <2>4, <2>5, <2>6, <2>7 DEF Next, vars
<1> QED  BY <1>1, <1>2, PTL DEF Spec

\* So when the calls of a device do not overlap, no local change is ever left unsent
\* behind the cursor, whichever log the daemon takes a batch on,
THEOREM NothingUnsent ==
  ASSUME SerialCalls, "all" \in Promises
  PROVE  Spec => []NothingUnsentBehindCursor
<1>1. SentInv /\ raced = {} => NothingUnsentBehindCursor
  BY DEF SentInv, SentDevice, NothingUnsentBehindCursor
<1>2. SentInv /\ [Next]_vars => SentInv'  BY SentStep
<1> QED  BY <1>1, <1>2, SentInit, NeverRaced, PTL DEF Spec

\* and an auto-mode edit that returned nil is at the daemon.
THEOREM EditAcked ==
  ASSUME SerialCalls, "all" \in Promises
  PROVE  Spec => []AutoEditAcked
<1>1. SentInv /\ raced = {} => AutoEditAcked
  BY DEF SentInv, SentCall, SentEdit, AutoEditAcked
<1>2. SentInv /\ [Next]_vars => SentInv'  BY SentStep
<1> QED  BY <1>1, <1>2, SentInit, NeverRaced, PTL DEF Spec

--------------------------------------------------------------------------------
(* What needs no more of the daemon than that it refuses a batch on a log the   *)
(* client has not seen to its end                                               *)

\* What is held leaves no gap in the daemon's log, whatever of it is not there.
Seen(held, sot) == DownClosed(sot, held \cap InLog(sot))

\* A change the daemon does not hold is with the device that made it alone.
OwnUnsent ==
  /\ InLog(sotLog) \subseteq Used
  /\ \A d \in Devices :
       /\ InLog(replica[d]) \subseteq Used
       /\ \A x \in InLog(replica[d]) \ InLog(sotLog) : made[x].by = d

SeenDevice(rep, cur, sot) ==
  Dense(rep) /\ cur \in InLog(rep) \cup {None} /\ Behind(sot, cur) \subseteq InLog(rep)

\* The changes the replica shares with the daemon after the cursor are among the first
\* that were counted, and a call that has posted, or had nothing to post, will have
\* left no gap; the batch may have been applied in part.
SeenCall(c, rep, cur, sot) ==
  /\ c.remote \subseteq InLog(sot)
  /\ c.pc \in {"cursor", "local", "count", "fetch"} => c.remote = {}
  /\ c.pc \in {"local", "count", "fetch", "keys", "push"} => c.start = cur
  /\ c.pc \in {"count", "fetch", "keys", "push", "blobs", "merge"} =>
       c.local \subseteq InLog(rep) \ {cur}
  /\ c.pc \in {"fetch", "keys", "push"} =>
       /\ c.count <= Cardinality(After(sot, cur))
       /\ \A x \in InLog(rep) \cap After(sot, cur) : Rank(sot, After(sot, cur), x) <= c.count
  /\ c.pc \in {"keys", "push"} =>
       (Cardinality(After(sot, cur)) = c.count => c.remote = After(sot, cur))
  /\ c.pc \in {"blobs", "merge"} => Seen(InLog(rep) \cup c.remote, sot)
  /\ c.pc = "advance" => Seen(InLog(rep), sot)

SeenInv ==
  /\ TypeOK /\ Dense(sotLog) /\ OwnUnsent
  /\ \A d \in Devices : SeenDevice(replica[d], cursor[d], sotLog)
  /\ \A d \in Devices, s \in Slots : SeenCall(call[d][s], replica[d], cursor[d], sotLog)

LEMMA SeenAll == ASSUME NEW held, NEW sot, InLog(sot) \subseteq held PROVE Seen(held, sot)
BY DEF Seen, DownClosed

\* The daemon's log grows by changes other than the cursor: what was behind the cursor
\* stays there, and what is new comes after it.  The cursor itself may be missing in the
\* daemon's log: then all of the log is after it.
LEMMA BeyondCursor ==
  ASSUME NEW sot \in Log, Dense(sot), NEW ord \in Log, NEW S \in SUBSET Ids,
         NEW cur \in Ids \cup {None}, cur \notin S \ InLog(sot)
  PROVE  LET ext == Extend(sot, S, ord)
         IN  /\ Behind(ext, cur) = Behind(sot, cur)
             /\ After(ext, cur) = After(sot, cur) \cup (S \ InLog(sot))
             /\ \A x \in After(sot, cur) :
                  Rank(ext, After(ext, cur), x) = Rank(sot, After(sot, cur), x)
<1> DEFINE ext == Extend(sot, S, ord)
           at == IF cur \in InLog(sot) THEN cur ELSE None
<1>1. at \in InLog(sot) \cup {None}  OBVIOUS
<1>2. ext \in Log /\ InLog(ext) = InLog(sot) \cup S  BY ExtendInLog
<1>3. Row(sot, cur) = Row(sot, at) /\ Row(ext, cur) = Row(ext, at)
  <2>1. CASE cur \in InLog(sot) \cup {None}  BY <2>1
  <2>2. CASE cur \notin InLog(sot) \cup {None}
    <3>1. cur \in Ids /\ cur \notin InLog(sot) /\ cur \notin InLog(ext)  BY <1>2, <2>2
    <3>2. sot[cur] = 0 /\ ext[cur] = 0  BY <1>2, <3>1 DEF InLog, Log
    <3> QED  BY <2>2, <3>2 DEF Row
  <2> QED  BY <2>1, <2>2
<1> HIDE DEF ext, at
<1>4. /\ Behind(sot, cur) = Behind(sot, at) /\ After(sot, cur) = After(sot, at)
      /\ Behind(ext, cur) = Behind(ext, at) /\ After(ext, cur) = After(ext, at)
  BY <1>3 DEF Behind, After
<1>5. /\ Behind(ext, at) = Behind(sot, at)
      /\ After(ext, at) = After(sot, at) \cup (S \ InLog(sot))
  BY <1>1, ExtendBehind DEF ext
<1>6. \A x \in After(sot, at) :
        Rank(ext, After(ext, at), x) = Rank(sot, After(sot, at), x)
  BY <1>1, ExtendRank DEF ext
<1> QED  BY <1>4, <1>5, <1>6 DEF ext

\* Another device's post brings changes the replica cannot hold yet.
LEMMA GrowSeenCall ==
  ASSUME NEW rep, NEW sot \in Log, Dense(sot), NEW ord \in Log, NEW S \in SUBSET Ids,
         NEW cur \in Ids \cup {None}, cur \in InLog(rep) \cup {None},
         InLog(rep) \cap (S \ InLog(sot)) = {},
         NEW c \in Call, SeenCall(c, rep, cur, sot)
  PROVE  SeenCall(c, rep, cur, Extend(sot, S, ord))
<1> DEFINE ext == Extend(sot, S, ord)
           old == After(sot, cur)
           now == After(ext, cur)
<1>1. InLog(ext) = InLog(sot) \cup S  BY ExtendInLog
<1>2. cur \notin S \ InLog(sot)  BY ChangeLogAssumption
<1>3. /\ Behind(ext, cur) = Behind(sot, cur) /\ now = old \cup (S \ InLog(sot))
      /\ \A x \in old : Rank(ext, now, x) = Rank(sot, old, x)
  BY <1>2, BeyondCursor
<1>4. /\ Cardinality(old) \in Nat /\ Cardinality(now) \in Nat /\ c.count \in Nat
      /\ Cardinality(old) <= Cardinality(now)
      /\ Cardinality(old) = Cardinality(now) => old = now
  <2>1. old \in SUBSET now /\ now \in SUBSET Ids /\ old \in SUBSET Ids
    BY <1>3, AfterIds
  <2>2. IsFiniteSet(now)  BY <2>1, IdSets
  <2> HIDE DEF old, now
  <2> QED  BY <2>1, <2>2, IdSets, FS_Subset DEF Call
<1>5. ASSUME NEW held, held \cap (S \ InLog(sot)) = {}, Seen(held, sot)
      PROVE  Seen(held, ext)
  <2> DEFINE T == held \cap InLog(sot)
  <2>1. T \in SUBSET InLog(sot) /\ DownClosed(sot, T)  BY <1>5 DEF Seen
  <2> HIDE DEF T
  <2>2. DownClosed(ext, T)  BY <2>1, ExtendDownClosed
  <2>3. held \cap InLog(ext) = T  BY <1>1, <1>5 DEF T
  <2> QED  BY <2>2, <2>3 DEF Seen
<1>6. InLog(rep) \cap now = InLog(rep) \cap old  BY <1>3
<1>7. c.remote \subseteq InLog(sot)  BY DEF SeenCall
<1>8. c.pc \in {"blobs", "merge"} => Seen(InLog(rep) \cup c.remote, ext)
  BY <1>5, <1>7 DEF SeenCall
<1>9. c.pc = "advance" => Seen(InLog(rep), ext)  BY <1>5 DEF SeenCall
<1>10. c.pc \in {"fetch", "keys", "push"} =>
         /\ c.count <= Cardinality(now)
         /\ \A x \in InLog(rep) \cap now : Rank(ext, now, x) <= c.count
  <2> SUFFICES ASSUME c.pc \in {"fetch", "keys", "push"}
               PROVE  /\ c.count <= Cardinality(now)
                      /\ \A x \in InLog(rep) \cap now : Rank(ext, now, x) <= c.count
    OBVIOUS
  <2>1. /\ c.count <= Cardinality(old)
        /\ \A x \in InLog(rep) \cap old : Rank(sot, old, x) <= c.count
    BY DEF SeenCall
  <2> HIDE DEF old, now, ext
  <2>2. c.count <= Cardinality(now)  BY <1>4, <2>1
  <2> QED  BY <1>3, <1>6, <2>1, <2>2
<1>11. c.pc \in {"keys", "push"} => (Cardinality(now) = c.count => c.remote = now)
  <2> SUFFICES ASSUME c.pc \in {"keys", "push"}, Cardinality(now) = c.count
               PROVE  c.remote = now
    OBVIOUS
  <2>1. c.count <= Cardinality(old) /\ (Cardinality(old) = c.count => c.remote = old)
    BY DEF SeenCall
  <2> HIDE DEF old, now
  <2> QED  BY <1>4, <2>1
<1>12. c.remote \subseteq InLog(ext)  BY <1>1, <1>7
<1> HIDE DEF ext
<1> QED  BY <1>8, <1>9, <1>10, <1>11, <1>12 DEF SeenCall, ext

LEMMA OneCall ==
  ASSUME SerialCalls, call \in [Devices -> [Slots -> Call]],
         NEW d \in Devices, NEW s \in Slots, NEW c, Set(d, s, c),
         NEW e \in Devices, NEW t \in Slots
  PROVE  call'[e][t] = IF e = d THEN c ELSE call[e][t]
<1>1. t = s  BY DEF SerialCalls
<1> QED  BY <1>1 DEF Set

\* A device posts changes of its own, or nothing; replicas and cursors stay.
LEMMA SeenSet ==
  ASSUME SerialCalls, SeenInv, TypeOK', UNCHANGED <<made, replica, cursor>>,
         NEW d \in Devices, NEW s \in Slots, NEW c \in Call, Set(d, s, c),
         NEW S, S \subseteq InLog(replica[d]) \ {cursor[d]}, NEW ord \in Log,
         sotLog' = Extend(sotLog, S, ord),
         SeenCall(c, replica[d], cursor[d], sotLog')
  PROVE  SeenInv'
<1>1. /\ sotLog \in Log /\ Dense(sotLog) /\ OwnUnsent
      /\ cursor \in [Devices -> Ids \cup {None}] /\ call \in [Devices -> [Slots -> Call]]
      /\ \A e \in Devices : SeenDevice(replica[e], cursor[e], sotLog)
  BY DEF SeenInv, TypeOK
<1>2. S \in SUBSET Ids  BY Sides
<1>3. InLog(sotLog') = InLog(sotLog) \cup S /\ Dense(sotLog')
  BY <1>1, <1>2, ExtendInLog, ExtendDense
<1>4. OwnUnsent'
  <2>1. Used' = Used  BY DEF Used
  <2> QED  BY <1>1, <1>3, <2>1 DEF OwnUnsent
<1>5. \A e \in Devices : e # d => InLog(replica[e]) \cap (S \ InLog(sotLog)) = {}
  BY <1>1 DEF OwnUnsent
<1>6. ASSUME NEW e \in Devices  PROVE SeenDevice(replica[e], cursor[e], sotLog')
  <2>1. cursor[e] \notin S \ InLog(sotLog)
    BY <1>1, <1>2, <1>5, ChangeLogAssumption DEF SeenDevice
  <2>2. cursor[e] \in Ids \cup {None}  BY <1>1
  <2>3. Behind(sotLog', cursor[e]) = Behind(sotLog, cursor[e])
    BY <1>1, <1>2, <2>1, <2>2, BeyondCursor
  <2> QED  BY <1>1, <2>3 DEF SeenDevice
<1>7. ASSUME NEW e \in Devices, NEW t \in Slots
      PROVE  SeenCall(call'[e][t], replica[e], cursor[e], sotLog')
  <2>1. call'[e][t] = IF e = d THEN c ELSE call[e][t]  BY <1>1, OneCall
  <2>2. CASE e = d  BY <2>1, <2>2
  <2>3. CASE e # d
    <3>1. /\ call[e][t] \in Call /\ SeenCall(call[e][t], replica[e], cursor[e], sotLog)
          /\ cursor[e] \in Ids \cup {None} /\ cursor[e] \in InLog(replica[e]) \cup {None}
      BY <1>1 DEF SeenInv, SeenDevice
    <3>2. SeenCall(call[e][t], replica[e], cursor[e], Extend(sotLog, S, ord))
      BY <1>1, <1>2, <1>5, <2>3, <3>1, GrowSeenCall
    <3> QED  BY <2>1, <2>3, <3>2
  <2> QED  BY <2>2, <2>3
<1> QED  BY <1>3, <1>4, <1>6, <1>7 DEF SeenInv

LEMMA SeenQuiet ==
  ASSUME SerialCalls, SeenInv, TypeOK', UNCHANGED <<made, sotLog, replica, cursor>>,
         NEW d \in Devices, NEW s \in Slots, NEW c \in Call, Set(d, s, c),
         SeenCall(c, replica[d], cursor[d], sotLog)
  PROVE  SeenInv'
<1>1. sotLog \in Log  BY DEF SeenInv, TypeOK
<1>2. sotLog' = Extend(sotLog, {}, sotLog)  BY <1>1, ExtendNothing
<1>3. {} \subseteq InLog(replica[d]) \ {cursor[d]}  OBVIOUS
<1> QED  BY <1>1, <1>2, <1>3, SeenSet

LEMMA SeenFresh ==
  ASSUME NEW c, c.pc \in {"idle", "cursor"}, c.remote = {}, NEW rep, NEW cur, NEW sot
  PROVE  SeenCall(c, rep, cur, sot)
BY DEF SeenCall

LEMMA SeenReturn ==
  ASSUME SerialCalls, SeenInv, TypeOK', UNCHANGED <<made, sotLog, replica, cursor>>,
         NEW d \in Devices, NEW s \in Slots, NEW ret \in Rets \ {"ok"}, Return(d, s, ret)
  PROVE  SeenInv'
<1> DEFINE c == [NoCall EXCEPT !.ret = ret, !.edit = None]
<1>1. Set(d, s, c)  BY DEF Return
<1>2. c \in Call /\ c.pc = "idle" /\ c.remote = {}  BY DEF NoCall, Call, Pcs, Rets
<1> HIDE DEF c
<1>3. SeenCall(c, replica[d], cursor[d], sotLog)  BY <1>2, SeenFresh
<1> QED  BY <1>1, <1>2, <1>3, SeenQuiet

LEMMA SeenBegin ==
  ASSUME SerialCalls, SeenInv, TypeOK', UNCHANGED <<made, sotLog, replica, cursor>>,
         NEW d \in Devices, NEW s \in Slots, NEW kind \in {"sync", "check"},
         Begin(d, s, kind, None)
  PROVE  SeenInv'
<1> DEFINE c == [NoCall EXCEPT !.pc = "cursor", !.kind = kind, !.edit = None]
<1>1. Set(d, s, c)  BY DEF Begin
<1>2. c \in Call /\ c.pc = "cursor" /\ c.remote = {}  BY DEF NoCall, Call, Pcs, Rets
<1> HIDE DEF c
<1>3. SeenCall(c, replica[d], cursor[d], sotLog)  BY <1>2, SeenFresh
<1> QED  BY <1>1, <1>2, <1>3, SeenQuiet

\* Steps that only take the call on.
LEMMA SeenRead ==
  ASSUME SerialCalls, SeenInv, TypeOK', NEW d \in Devices, NEW s \in Slots,
         \/ ReadCursor(d, s) \/ ReadLocal(d, s) \/ SealKeys(d, s)
         \/ \E v \in Vaults : UploadBlob(d, s, v)
  PROVE  SeenInv'
<1> DEFINE c == call[d][s]
           rep == replica[d]
           cur == cursor[d]
<1>1. /\ rep \in Log /\ cur \in Ids \cup {None} /\ c \in Call
      /\ SeenCall(c, rep, cur, sotLog)
  BY DEF SeenInv, TypeOK
<1>2. UNCHANGED <<made, sotLog, replica, cursor>>
  BY DEF ReadCursor, ReadLocal, SealKeys, UploadBlob
<1>3. CASE ReadCursor(d, s)
  <2> DEFINE r == [c EXCEPT !.pc = "local", !.start = cur]
  <2>1. Set(d, s, r) /\ c.pc = "cursor"  BY <1>3 DEF ReadCursor
  <2>2. r \in Call /\ r.pc = "local" /\ r.start = cur /\ r.remote = c.remote
    BY <1>1 DEF Call, Pcs
  <2> HIDE DEF r
  <2>3. SeenCall(r, rep, cur, sotLog)  BY <1>1, <2>1, <2>2 DEF SeenCall
  <2> QED  BY <1>2, <2>1, <2>2, <2>3, SeenQuiet
<1>4. CASE ReadLocal(d, s)
  <2> DEFINE r == [c EXCEPT !.pc = "count", !.local = After(rep, c.start)]
  <2>1. Set(d, s, r) /\ c.pc = "local"  BY <1>4 DEF ReadLocal
  <2>2. After(rep, c.start) \in SUBSET Ids  BY AfterIds
  <2>3. /\ r \in Call /\ r.pc = "count" /\ r.remote = c.remote /\ r.start = c.start
        /\ r.local = After(rep, c.start)
    BY <1>1, <2>2 DEF Call, Pcs
  <2> HIDE DEF r
  <2>4. c.start = cur /\ c.remote = {}  BY <1>1, <2>1 DEF SeenCall
  <2>5. After(rep, cur) \subseteq InLog(rep) \ {cur}
    BY <1>1, ChangeLogAssumption DEF After, Row, InLog, Log
  <2>6. SeenCall(r, rep, cur, sotLog)  BY <2>3, <2>4, <2>5 DEF SeenCall
  <2> QED  BY <1>2, <2>1, <2>3, <2>6, SeenQuiet
<1>5. CASE SealKeys(d, s)
  <2> DEFINE r == [c EXCEPT !.pc = "push"]
  <2>1. Set(d, s, r) /\ c.pc = "keys"  BY <1>5 DEF SealKeys
  <2>2. /\ r \in Call /\ r.pc = "push" /\ r.remote = c.remote /\ r.start = c.start
        /\ r.local = c.local /\ r.count = c.count
    BY <1>1 DEF Call, Pcs
  <2> HIDE DEF r
  <2>3. SeenCall(r, rep, cur, sotLog)  BY <1>1, <2>1, <2>2 DEF SeenCall
  <2> QED  BY <1>2, <2>1, <2>2, <2>3, SeenQuiet
<1>6. CASE \E v \in Vaults : UploadBlob(d, s, v)
  <2>1. PICK v \in Vaults : UploadBlob(d, s, v)  BY <1>6
  <2> DEFINE rest == c.todo \ {v}
             r == [c EXCEPT !.todo = rest,
                     !.pc = IF rest = {} THEN "merge" ELSE "blobs"]
  <2>2. Set(d, s, r) /\ c.pc = "blobs"  BY <2>1 DEF UploadBlob
  <2>3. /\ r \in Call /\ r.pc \in {"blobs", "merge"} /\ r.remote = c.remote
        /\ r.local = c.local
    BY <1>1 DEF Call, Pcs
  <2> HIDE DEF r
  <2>4. SeenCall(r, rep, cur, sotLog)  BY <1>1, <2>2, <2>3 DEF SeenCall
  <2> QED  BY <1>2, <2>2, <2>3, <2>4, SeenQuiet
<1> QED  BY <1>3, <1>4, <1>5, <1>6

\* The changes a call has counted or fetched leave no gap.
LEMMA FetchSeen ==
  ASSUME NEW rep \in Log, NEW sot \in Log, NEW cur \in Ids \cup {None}, NEW n \in Nat,
         Behind(sot, cur) \subseteq InLog(rep),
         \A x \in InLog(rep) \cap After(sot, cur) : Rank(sot, After(sot, cur), x) <= n
  PROVE  Seen(InLog(rep) \cup FirstAfter(sot, cur, n), sot)
<1> DEFINE T == FirstAfter(sot, cur, n)
           A == After(sot, cur)
<1> SUFFICES ASSUME NEW x \in (InLog(rep) \cup T) \cap InLog(sot), NEW y \in InLog(sot),
                    sot[y] <= sot[x]
             PROVE  y \in InLog(rep) \cup T
  BY DEF Seen, DownClosed
<1>1. InLog(sot) = Behind(sot, cur) \cup A  BY SidesCover
<1>2. CASE y \in Behind(sot, cur)  BY <1>2
<1>3. CASE y \in A
  <2>1. x \in A
    <3>1. sot[x] \in Nat /\ sot[y] \in Nat /\ sot[y] > Row(sot, cur) /\ x \in InLog(sot)
      BY <1>3 DEF After, InLog, Log
    <3>2. Row(sot, cur) \in Nat  BY DEF Row, Log
    <3> QED  BY <3>1, <3>2 DEF After
  <2>2. Rank(sot, A, x) <= n  BY <2>1 DEF FirstAfter
  <2> QED  BY <1>3, <2>1, <2>2, FirstAfterFetches
<1> QED  BY <1>1, <1>2, <1>3

LEMMA SeenCount ==
  ASSUME SerialCalls, SeenInv, TypeOK', NEW d \in Devices, NEW s \in Slots,
         CountRemote(d, s)
  PROVE  SeenInv'
<1> DEFINE c == call[d][s]
           rep == replica[d]
           cur == cursor[d]
           left == After(sotLog, cur)
           n == Cardinality(left)
           r == [c EXCEPT !.count = n,
                   !.pc = IF n = 0 THEN AfterFetch(c.local) ELSE "fetch"]
<1>1. /\ sotLog \in Log /\ cur \in Ids \cup {None} /\ c \in Call
      /\ SeenCall(c, rep, cur, sotLog) /\ SeenDevice(rep, cur, sotLog)
  BY DEF SeenInv, TypeOK
<1>2. UNCHANGED <<made, sotLog, replica, cursor>> /\ c.pc = "count"
  BY DEF CountRemote
<1>3. CASE c.kind = "check"
  <2>1. \E ret \in Rets \ {"ok"} : Return(d, s, ret)  BY <1>3 DEF CountRemote, Rets
  <2> QED  BY <1>2, <2>1, SeenReturn
<1>4. CASE c.kind # "check"
  <2>1. c.start = cur /\ c.remote = {} /\ c.local \subseteq InLog(rep) \ {cur}
    BY <1>1, <1>2 DEF SeenCall
  <2>2. Set(d, s, r)  BY <1>4, <2>1 DEF CountRemote
  <2>3. n \in Nat /\ (n = 0 <=> left = {})  BY AfterIds, IdSets
  <2>4. /\ r \in Call /\ r.remote = c.remote /\ r.local = c.local /\ r.start = c.start
        /\ r.count = n /\ r.pc = IF n = 0 THEN AfterFetch(c.local) ELSE "fetch"
    BY <1>1, <2>3 DEF Call, Pcs, AfterFetch
  <2> HIDE DEF r
  <2>5. \A x \in left : Rank(sotLog, left, x) <= n
    <3>1. left \in SUBSET Ids  BY AfterIds
    <3> SUFFICES ASSUME NEW x \in left  PROVE Rank(sotLog, left, x) <= n
      OBVIOUS
    <3> HIDE DEF left
    <3>2. Rank(sotLog, left, x) \in 1..Cardinality(left)  BY <1>1, <3>1, RankRange
    <3> QED  BY <2>3, <3>2
  <2>6. n = 0 => Seen(InLog(rep), sotLog)
    <3>1. n = 0 => InLog(sotLog) \subseteq InLog(rep)
      BY <1>1, <2>3, SidesCover DEF SeenDevice
    <3> QED  BY <3>1, SeenAll
  <2> HIDE DEF left, n
  <2>7. CASE n # 0
    <3>1. r.pc = "fetch"  BY <2>4, <2>7
    <3>2. r.count <= Cardinality(left)  BY <2>3, <2>4 DEF n
    <3>3. SeenCall(r, rep, cur, sotLog)
      BY <1>1, <2>1, <2>4, <2>5, <3>1, <3>2 DEF SeenCall, left
    <3> QED  BY <1>2, <2>2, <2>4, <3>3, SeenQuiet
  <2>8. CASE n = 0
    <3>1. r.pc \in {"keys", "merge"}  BY <2>4, <2>8 DEF AfterFetch
    <3>2. r.count <= Cardinality(left) /\ left = {}  BY <2>3, <2>4, <2>8 DEF n
    <3>3. InLog(rep) \cup r.remote = InLog(rep)  BY <2>1, <2>4
    <3>4. SeenCall(r, rep, cur, sotLog)
      BY <1>1, <2>1, <2>4, <2>6, <2>8, <3>1, <3>2, <3>3 DEF SeenCall, left
    <3> QED  BY <1>2, <2>2, <2>4, <3>4, SeenQuiet
  <2> QED  BY <2>7, <2>8
<1> QED  BY <1>3, <1>4

LEMMA SeenFetch ==
  ASSUME SerialCalls, SeenInv, TypeOK', NEW d \in Devices, NEW s \in Slots,
         FetchRemote(d, s)
  PROVE  SeenInv'
<1> DEFINE c == call[d][s]
           rep == replica[d]
           cur == cursor[d]
           got == FirstAfter(sotLog, cur, c.count)
           r == [c EXCEPT !.pc = AfterFetch(c.local), !.remote = got]
<1>1. /\ sotLog \in Log /\ rep \in Log /\ cur \in Ids \cup {None} /\ c \in Call
      /\ SeenCall(c, rep, cur, sotLog) /\ SeenDevice(rep, cur, sotLog)
  BY DEF SeenInv, TypeOK
<1>2. UNCHANGED <<made, sotLog, replica, cursor>> /\ c.pc = "fetch"
  BY DEF FetchRemote
<1>3. /\ c.start = cur /\ c.local \subseteq InLog(rep) \ {cur}
      /\ c.count <= Cardinality(After(sotLog, cur))
      /\ \A x \in InLog(rep) \cap After(sotLog, cur) :
           Rank(sotLog, After(sotLog, cur), x) <= c.count
  BY <1>1, <1>2 DEF SeenCall
<1>4. Set(d, s, r)  BY <1>3 DEF FetchRemote
<1>5. c.count \in Nat  BY <1>1 DEF Call
<1>6. /\ got \in SUBSET Ids /\ got \subseteq InLog(sotLog)
      /\ Cardinality(After(sotLog, cur)) = c.count => got = After(sotLog, cur)
  <2>1. got \subseteq After(sotLog, cur) /\ After(sotLog, cur) \subseteq InLog(sotLog)
    BY Sides DEF FirstAfter
  <2>2. Cardinality(After(sotLog, cur)) = c.count => got = After(sotLog, cur)
    BY <1>1, <1>5, FirstAfterFetches
  <2> QED  BY <2>1, <2>2, AfterIds
<1>7. Seen(InLog(rep) \cup got, sotLog)
  BY <1>1, <1>3, <1>5, FetchSeen DEF SeenDevice
<1>8. /\ r \in Call /\ r.remote = got /\ r.local = c.local /\ r.start = c.start
      /\ r.count = c.count /\ r.pc \in {"keys", "merge"}
  BY <1>1, <1>6 DEF Call, Pcs, AfterFetch
<1> HIDE DEF r, got
<1>9. SeenCall(r, rep, cur, sotLog)  BY <1>1, <1>3, <1>6, <1>7, <1>8 DEF SeenCall
<1> QED  BY <1>2, <1>4, <1>8, <1>9, SeenQuiet

\* The daemon takes the batch only from a client that has fetched to the end of its
\* log, and what it applies of it the replica holds already.
LEMMA SeenPush ==
  ASSUME SerialCalls, "window" \in Promises, SeenInv, TypeOK',
         NEW d \in Devices, NEW s \in Slots, Push(d, s) \/ PushAnswerLost(d, s)
  PROVE  SeenInv'
<1> DEFINE c == call[d][s]
           rep == replica[d]
           cur == cursor[d]
<1>1. /\ sotLog \in Log /\ rep \in Log /\ cur \in Ids \cup {None} /\ c \in Call
      /\ SeenCall(c, rep, cur, sotLog) /\ SeenDevice(rep, cur, sotLog)
  BY DEF SeenInv, TypeOK
<1>2. /\ UNCHANGED <<made, replica, cursor>> /\ c.pc = "push"
      /\ Cardinality(After(sotLog, c.start)) = c.count
  BY DEF Push, PushAnswerLost, Admits
<1>3. /\ c.start = cur /\ c.local \subseteq InLog(rep) \ {cur}
      /\ c.remote = After(sotLog, cur)
  BY <1>1, <1>2 DEF SeenCall
<1>4. InLog(sotLog) \subseteq InLog(rep) \cup c.remote
  BY <1>1, <1>3, SidesCover DEF SeenDevice
<1>5. CASE Push(d, s)
  <2>1. PICK S \in Applicable(c.local) :
          LET todo == VaultsOf(Creates(Answer(S)))
          IN  /\ sotLog' = Extend(sotLog, S, rep)
              /\ Set(d, s, [c EXCEPT !.todo = todo,
                              !.pc = IF todo = {} THEN "merge" ELSE "blobs"])
    BY <1>5 DEF Push
  <2> DEFINE todo == VaultsOf(Creates(Answer(S)))
             r == [c EXCEPT !.todo = todo, !.pc = IF todo = {} THEN "merge" ELSE "blobs"]
  <2>2. S \subseteq c.local  BY <2>1 DEF Applicable
  <2>3. S \in SUBSET Ids  BY <1>1, <2>2 DEF Call
  <2>4. todo \in SUBSET Vaults
    <3>1. Answer(S) \in SUBSET Ids  BY <2>3 DEF Answer
    <3> QED  BY <3>1, CreatesVaults DEF SeenInv
  <2>5. /\ Set(d, s, r) /\ r \in Call /\ r.pc \in {"blobs", "merge"}
        /\ r.remote = c.remote /\ r.local = c.local
    BY <1>1, <2>1, <2>4 DEF Call, Pcs
  <2>6. sotLog' = Extend(sotLog, S, rep)  BY <2>1
  <2> HIDE DEF r
  <2>7. InLog(sotLog') = InLog(sotLog) \cup S  BY <1>1, <2>3, <2>6, ExtendInLog
  <2>8. InLog(sotLog') \subseteq InLog(rep) \cup r.remote  BY <1>3, <1>4, <2>2, <2>5, <2>7
  <2>9. Seen(InLog(rep) \cup r.remote, sotLog')
    <3> DEFINE held == InLog(rep) \cup r.remote
               sot == sotLog'
    <3>1. InLog(sot) \subseteq held  BY <2>8
    <3> HIDE DEF held, sot
    <3>2. Seen(held, sot)  BY <3>1, SeenAll
    <3> QED  BY <3>2 DEF held, sot
  <2>10. r.remote \subseteq InLog(sotLog')  BY <1>3, <2>5, <2>7, Sides
  <2>11. SeenCall(r, rep, cur, sotLog')  BY <1>3, <2>5, <2>9, <2>10 DEF SeenCall
  <2>12. S \subseteq InLog(rep) \ {cur}  BY <1>3, <2>2
  <2> QED  BY <1>1, <1>2, <2>5, <2>6, <2>11, <2>12, SeenSet
<1>6. CASE PushAnswerLost(d, s)
  <2>1. PICK S \in Applicable(c.local) : sotLog' = Extend(sotLog, S, rep)
    BY <1>6 DEF PushAnswerLost
  <2>2. S \subseteq InLog(rep) \ {cur}  BY <1>3, <2>1 DEF Applicable
  <2> DEFINE r == [NoCall EXCEPT !.ret = "err", !.edit = None]
  <2>3. Set(d, s, r)  BY <1>6 DEF PushAnswerLost, Return
  <2>4. r \in Call /\ r.pc = "idle" /\ r.remote = {}  BY DEF NoCall, Call, Pcs, Rets
  <2> HIDE DEF r
  <2>5. SeenCall(r, rep, cur, sotLog')  BY <2>4 DEF SeenCall
  <2> QED  BY <1>1, <1>2, <2>1, <2>2, <2>3, <2>4, <2>5, SeenSet
<1> QED  BY <1>5, <1>6

LEMMA SeenMerge ==
  ASSUME SerialCalls, SeenInv, TypeOK', NEW d \in Devices, NEW s \in Slots, Merge(d, s)
  PROVE  SeenInv'
<1> DEFINE c == call[d][s]
           rep == replica[d]
           cur == cursor[d]
           r == [c EXCEPT !.pc = "advance"]
<1>1. /\ rep \in Log /\ sotLog \in Log /\ c \in Call /\ OwnUnsent
      /\ call \in [Devices -> [Slots -> Call]] /\ replica \in [Devices -> Log]
      /\ SeenCall(c, rep, cur, sotLog) /\ SeenDevice(rep, cur, sotLog)
  BY DEF SeenInv, TypeOK
<1>2. c.pc = "merge" /\ Set(d, s, r) /\ UNCHANGED <<made, sotLog, cursor>>
  BY DEF Merge
<1>3. PICK new \in {Appended(rep, c, sotLog), Rebased(rep, c, sotLog)} :
        replica' = [replica EXCEPT ![d] = new]
  BY DEF Merge
<1>4. /\ c.remote \subseteq InLog(sotLog) /\ c.local \subseteq InLog(rep)
      /\ Seen(InLog(rep) \cup c.remote, sotLog)
  BY <1>1, <1>2 DEF SeenCall
<1>5. InLog(new) = InLog(rep) \cup c.remote /\ Dense(new)
  <2> DEFINE R == c.remote
             L == c.local
  <2>1. R \in SUBSET Ids /\ L \in SUBSET InLog(rep)  BY <1>1, <1>4 DEF Call
  <2>2. \/ new = Extend(rep, R, sotLog)
        \/ new = Extend(Extend(Only(rep, Ids \ L), R, sotLog), L, rep)
    BY <1>3 DEF Appended, Rebased
  <2>3. Dense(rep)  BY <1>1 DEF SeenDevice
  <2> HIDE DEF R, L
  <2>4. new \in Log /\ InLog(new) = InLog(rep) \cup R /\ Dense(new)
    BY <1>1, <2>1, <2>2, <2>3, MergedSets
  <2> QED  BY <2>4 DEF R
<1>6. SeenDevice(new, cur, sotLog)  BY <1>1, <1>5 DEF SeenDevice
<1>7. r.pc = "advance" /\ r.remote = c.remote  BY <1>1 DEF Call
<1> HIDE DEF r
<1>8. SeenCall(r, new, cur, sotLog)  BY <1>4, <1>5, <1>7 DEF SeenCall
<1>9. /\ replica'[d] = new
      /\ \A e \in Devices : e # d => replica'[e] = replica[e]
  BY <1>1, <1>3
<1>10. ASSUME NEW e \in Devices, NEW t \in Slots
       PROVE  SeenCall(call'[e][t], replica'[e], cursor[e], sotLog)
  <2>1. call'[e][t] = IF e = d THEN r ELSE call[e][t]  BY <1>1, <1>2, OneCall
  <2>2. CASE e = d  BY <1>8, <1>9, <2>1, <2>2
  <2>3. CASE e # d  BY <1>9, <2>1, <2>3 DEF SeenInv
  <2> QED  BY <2>2, <2>3
<1>11. \A e \in Devices : SeenDevice(replica'[e], cursor[e], sotLog)
  BY <1>6, <1>9 DEF SeenInv
<1>12. OwnUnsent'
  <2>1. Used' = Used  BY <1>2 DEF Used
  <2>2. ASSUME NEW e \in Devices
        PROVE  /\ InLog(replica'[e]) \subseteq Used
               /\ \A x \in InLog(replica'[e]) \ InLog(sotLog) : made[x].by = e
    BY <1>1, <1>4, <1>5, <1>9 DEF OwnUnsent
  <2> QED  BY <1>1, <1>2, <2>1, <2>2 DEF OwnUnsent
<1> QED  BY <1>2, <1>10, <1>11, <1>12 DEF SeenInv

\* The cursor moves to a change the daemon holds, with all before it in the replica, or
\* to one it does not hold, which hides nothing.
LEMMA SeenAdvance ==
  ASSUME SerialCalls, SeenInv, TypeOK', NEW d \in Devices, NEW s \in Slots, Advance(d, s)
  PROVE  SeenInv'
<1> DEFINE c == call[d][s]
           rep == replica[d]
           r == [NoCall EXCEPT !.ret = "ok", !.edit = c.edit]
<1>1. /\ rep \in Log /\ sotLog \in Log /\ cursor \in [Devices -> Ids \cup {None}]
      /\ call \in [Devices -> [Slots -> Call]]
      /\ SeenCall(c, rep, cursor[d], sotLog) /\ SeenDevice(rep, cursor[d], sotLog)
  BY DEF SeenInv, TypeOK
<1>2. c.pc = "advance" /\ Set(d, s, r) /\ UNCHANGED <<made, sotLog, replica>>
  BY DEF Advance, Return
<1>3. Seen(InLog(rep), sotLog)  BY <1>1, <1>2 DEF SeenCall
<1>4. SeenDevice(rep, cursor'[d], sotLog)
  <2>1. CASE UNCHANGED cursor  BY <1>1, <2>1
  <2>2. CASE \E last \in InLog(rep) : cursor' = [cursor EXCEPT ![d] = last]
    <3>1. PICK last \in InLog(rep) : cursor' = [cursor EXCEPT ![d] = last]  BY <2>2
    <3>2. cursor'[d] = last  BY <1>1, <3>1
    <3>3. ASSUME NEW y \in Behind(sotLog, last)  PROVE y \in InLog(rep)
      <4>1. last # None /\ last \in Ids  BY ChangeLogAssumption DEF InLog
      <4>2. y \in InLog(sotLog) /\ sotLog[y] <= sotLog[last]  BY <4>1 DEF Behind, Row
      <4>3. sotLog[y] \in Nat /\ sotLog[last] \in Nat /\ sotLog[y] > 0
        BY <1>1, <4>1, <4>2 DEF InLog, Log
      <4>4. last \in InLog(sotLog)  BY <4>1, <4>2, <4>3 DEF InLog
      <4> QED  BY <1>3, <4>2, <4>4 DEF Seen, DownClosed
    <3> QED  BY <1>1, <3>1, <3>2, <3>3 DEF SeenDevice
  <2> QED  BY <2>1, <2>2 DEF Advance
<1>5. \A e \in Devices : e # d => cursor'[e] = cursor[e]  BY <1>1 DEF Advance
<1>6. r.pc = "idle" /\ r.remote = {}  BY DEF NoCall
<1>7. \A e \in Devices, t \in Slots : call'[e][t] = IF e = d THEN r ELSE call[e][t]
  BY <1>1, <1>2, OneCall
<1> HIDE DEF r
<1>8. SeenCall(r, rep, cursor'[d], sotLog)  BY <1>6 DEF SeenCall
<1>9. ASSUME NEW e \in Devices, NEW t \in Slots
      PROVE  SeenCall(call'[e][t], replica[e], cursor'[e], sotLog)
  <2>1. CASE e = d  BY <1>7, <1>8, <2>1
  <2>2. CASE e # d  BY <1>5, <1>7, <2>2 DEF SeenInv
  <2> QED  BY <2>1, <2>2
<1>10. \A e \in Devices : SeenDevice(replica[e], cursor'[e], sotLog)
  BY <1>4, <1>5 DEF SeenInv
<1>11. OwnUnsent'
  <2>1. Used' = Used  BY <1>2 DEF Used
  <2> QED  BY <1>2, <2>1 DEF OwnUnsent, SeenInv
<1> QED  BY <1>2, <1>9, <1>10, <1>11 DEF SeenInv

LEMMA SeenEdits ==
  ASSUME SerialCalls, SeenInv, TypeOK', NEW d \in Devices, NEW s \in Slots,
         NEW x \in Ids, NEW v \in Vaults, NEW op \in Ops, Edit(d, s, x, op, v)
  PROVE  SeenInv'
<1> DEFINE rep == replica[d]
           new == Extend(rep, {x}, EmptyLog)
           r == IF Mode[d] = "auto"
                THEN [NoCall EXCEPT !.pc = "cursor", !.kind = "sync", !.edit = x]
                ELSE [NoCall EXCEPT !.ret = "ok"]
<1>1. /\ rep \in Log /\ call \in [Devices -> [Slots -> Call]]
      /\ replica \in [Devices -> Log] /\ OwnUnsent
      /\ made \in [Ids -> Change \cup {NoChange}]
      /\ \A e \in Devices : SeenDevice(replica[e], cursor[e], sotLog)
  BY DEF SeenInv, TypeOK
<1>2. /\ made[x] = NoChange
      /\ made' = [made EXCEPT ![x] = [op |-> op, vault |-> v, by |-> d]]
      /\ replica' = [replica EXCEPT ![d] = new]
      /\ Set(d, s, r) /\ sotLog' = sotLog /\ cursor' = cursor
  BY DEF Edit, Begin
<1>3. InLog(new) = InLog(rep) \cup {x} /\ Dense(new)
  <2> DEFINE X == {x}
  <2>1. X \in SUBSET Ids /\ EmptyLog \in Log  BY EmptyDevice
  <2>2. Dense(rep)  BY <1>1 DEF SeenDevice
  <2> HIDE DEF X
  <2>3. /\ InLog(Extend(rep, X, EmptyLog)) = InLog(rep) \cup X
        /\ Dense(Extend(rep, X, EmptyLog))
    BY <1>1, <2>1, <2>2, ExtendInLog, ExtendDense
  <2> QED  BY <2>3 DEF X
<1>4. r.pc \in {"idle", "cursor"} /\ r.remote = {}  BY DEF NoCall
<1>5. \A e \in Devices, t \in Slots : call'[e][t] = IF e = d THEN r ELSE call[e][t]
  BY <1>1, <1>2, OneCall
<1> HIDE DEF new, r
<1>6. /\ replica'[d] = new
      /\ \A e \in Devices : e # d => replica'[e] = replica[e]
  BY <1>1, <1>2
<1>7. /\ x \notin Used /\ made'[x].by = d /\ \A y \in Used : made'[y] = made[y]
      /\ Used' = Used \cup {x}
  <2>1. made'[x] = [op |-> op, vault |-> v, by |-> d] /\ made'[x] # NoChange
    BY <1>1, <1>2 DEF NoChange, Ops
  <2>2. x \notin Used /\ \A y \in Ids \ {x} : made'[y] = made[y]
    BY <1>1, <1>2 DEF Used
  <2>3. Used' = Used \cup {x}  BY <2>1, <2>2 DEF Used
  <2>4. \A y \in Used : made'[y] = made[y]  BY <2>2 DEF Used
  <2> QED  BY <2>1, <2>2, <2>3, <2>4
<1>8. OwnUnsent'
  <2>1. ASSUME NEW e \in Devices
        PROVE  /\ InLog(replica'[e]) \subseteq Used'
               /\ \A y \in InLog(replica'[e]) \ InLog(sotLog) : made'[y].by = e
    <3>1. /\ InLog(replica[e]) \subseteq Used
          /\ \A y \in InLog(replica[e]) \ InLog(sotLog) : made[y].by = e
      BY <1>1 DEF OwnUnsent
    <3>2. CASE e = d  BY <1>3, <1>6, <1>7, <3>1, <3>2
    <3>3. CASE e # d  BY <1>6, <1>7, <3>1, <3>3
    <3> QED  BY <3>2, <3>3
  <2>2. InLog(sotLog) \subseteq Used'  BY <1>1, <1>7 DEF OwnUnsent
  <2> QED  BY <1>2, <2>1, <2>2 DEF OwnUnsent
<1>9. ASSUME NEW e \in Devices  PROVE SeenDevice(replica'[e], cursor[e], sotLog)
  <2>1. CASE e = d  BY <1>1, <1>3, <1>6, <2>1 DEF SeenDevice
  <2>2. CASE e # d  BY <1>1, <1>6, <2>2
  <2> QED  BY <2>1, <2>2
<1>10. ASSUME NEW e \in Devices, NEW t \in Slots
       PROVE  SeenCall(call'[e][t], replica'[e], cursor[e], sotLog)
  <2>1. CASE e = d
    <3>1. SeenCall(r, replica'[e], cursor[e], sotLog)  BY <1>4 DEF SeenCall
    <3> QED  BY <1>5, <2>1, <3>1
  <2>2. CASE e # d  BY <1>5, <1>6, <2>2 DEF SeenInv
  <2> QED  BY <2>1, <2>2
<1> QED  BY <1>2, <1>8, <1>9, <1>10 DEF SeenInv

LEMMA SeenStep ==
  ASSUME SerialCalls, "window" \in Promises, SeenInv, [Next]_vars
  PROVE  SeenInv'
<1>0. TypeOK'  BY TypeStep DEF SeenInv
<1>1. CASE UNCHANGED <<made, sotLog, replica, cursor, call>>
  <2>1. Used' = Used  BY <1>1 DEF Used
  <2>2. OwnUnsent'  BY <1>1, <2>1 DEF OwnUnsent, SeenInv
  <2> QED  BY <1>0, <1>1, <2>2 DEF SeenInv
<1>2. ASSUME NEW d \in Devices, NEW s \in Slots, StartSync(d, s) \/ List(d, s)
      PROVE  SeenInv'
  <2>1. UNCHANGED <<made, sotLog, replica, cursor>>  BY <1>2 DEF StartSync, List
  <2>2. \E kind \in {"sync", "check"} : Begin(d, s, kind, None)
    BY <1>2 DEF StartSync, List
  <2> QED  BY <1>0, <2>1, <2>2, SeenBegin
<1>3. ASSUME NEW d \in Devices, NEW s \in Slots, EditStep(d, s)
      PROVE  SeenInv'
  <2>1. \E x \in Ids, v \in Vaults, op \in Ops : Edit(d, s, x, op, v)
    BY <1>3 DEF EditStep, CreateVault, UpdateVault, DeleteVault, Ops
  <2> QED  BY <1>0, <2>1, SeenEdits
<1>4. ASSUME NEW d \in Devices, NEW s \in Slots, Return(d, s, "err"),
             UNCHANGED <<made, sotLog, replica, cursor>>
      PROVE  SeenInv'
  BY <1>0, <1>4, SeenReturn DEF Rets
<1>5. ASSUME NEW d \in Devices, NEW s \in Slots, SyncStep(d, s)
      PROVE  SeenInv'
  <2>1. CASE PushRefused(d, s) \/ BlobMissing(d, s)
    BY <1>4, <2>1 DEF PushRefused, BlobMissing
  <2> QED
    BY <1>0, <1>5, <2>1, SeenRead, SeenCount, SeenFetch, SeenPush, SeenMerge,
       SeenAdvance DEF SyncStep
<1>6. ASSUME NEW d \in Devices, NEW s \in Slots, FaultStep(d, s)
      PROVE  SeenInv'
  <2>1. CASE UploadAnswerLost(d, s) \/ Fail(d, s)
    BY <1>4, <2>1 DEF UploadAnswerLost, Fail
  <2> QED  BY <1>0, <1>6, <2>1, SeenPush DEF FaultStep
<1>7. ASSUME NEW d \in Devices, Crash(d)  PROVE SeenInv'
  <2>1. UNCHANGED <<made, sotLog, replica, cursor>>  BY <1>7 DEF Crash
  <2>2. NoCall.pc = "idle" /\ NoCall.remote = {}  BY DEF NoCall
  <2>3. SeenCall(NoCall, replica[d], cursor[d], sotLog)  BY <2>2, SeenFresh
  <2>4. \A e \in Devices, t \in Slots :
          call'[e][t] = IF e = d THEN NoCall ELSE call[e][t]
    BY <1>7 DEF Crash, SeenInv, TypeOK
  <2>5. ASSUME NEW e \in Devices, NEW t \in Slots
        PROVE  SeenCall(call'[e][t], replica[e], cursor[e], sotLog)
    BY <2>3, <2>4 DEF SeenInv
  <2>6. Used' = Used  BY <2>1 DEF Used
  <2>7. OwnUnsent'  BY <2>1, <2>6 DEF OwnUnsent, SeenInv
  <2> QED  BY <1>0, <2>1, <2>5, <2>7 DEF SeenInv
<1>8. ASSUME NEW d \in Devices, NEW v \in Vaults, DownloadBlob(d, v)  PROVE SeenInv'
  BY <1>1, <1>8 DEF DownloadBlob
<1>9. CASE UNCHANGED vars  BY <1>1, <1>9 DEF vars
<1> QED  BY <1>2, <1>3, <1>5, <1>6, <1>7, <1>8, <1>9 DEF Next

LEMMA SeenInit == Init => SeenInv
<1> SUFFICES ASSUME Init  PROVE SeenInv
  OBVIOUS
<1>1. InLog(EmptyLog) = {} /\ Dense(EmptyLog) /\ Behind(EmptyLog, None) \subseteq {}
  BY EmptyDevice, Sides
<1>2. NoCall.pc = "idle" /\ NoCall.remote = {}  BY DEF NoCall
<1>3. SeenCall(NoCall, EmptyLog, None, EmptyLog)  BY <1>2, SeenFresh
<1>4. SeenDevice(EmptyLog, None, EmptyLog)  BY <1>1 DEF SeenDevice
<1>5. OwnUnsent  BY <1>1 DEF Init, OwnUnsent
<1> QED  BY <1>1, <1>3, <1>4, <1>5, TypeInit DEF Init, SeenInv

\* The remote half of a sync needs only a daemon that refuses a batch on a log the client
\* has not seen to its end: with one call at a time on each device, and even if batches
\* are applied in part and the rest never sent, no change of another device is left
\* unfetched behind the cursor.
THEOREM NothingUnseen ==
  ASSUME SerialCalls, "window" \in Promises
  PROVE  Spec => []NothingUnseenBehindCursor
<1>1. SeenInv => NothingUnseenBehindCursor
  BY DEF SeenInv, SeenDevice, NothingUnseenBehindCursor
<1>2. SeenInv /\ [Next]_vars => SeenInv'  BY SeenStep
<1> QED  BY <1>1, <1>2, SeenInit, PTL DEF Spec

================================================================================
