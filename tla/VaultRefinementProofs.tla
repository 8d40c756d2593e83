------------------------ MODULE VaultRefinementProofs ------------------------
(***************************************************************************)
(* VaultSync implements VaultReplication, for any number of devices,        *)
(* changes and vaults, under the assumptions of VaultSyncProofs; and what    *)
(* follows, from the same invariant, for the record files of the vaults.    *)
(***************************************************************************)
EXTENDS VaultSyncProofs

\* The log operators of the abstract module are those of ChangeLog.
LEMMA SameOperators ==
  /\ \A log : Abstract!InLog(log) = InLog(log)
  /\ \A log, S : Abstract!DownClosed(log, S) = DownClosed(log, S)
BY DEF Abstract!InLog, InLog, Abstract!DownClosed, DownClosed

--------------------------------------------------------------------------------
(* What is in a log was made by a device: a change an edit makes is new to all *)

MadeOnly ==
  /\ \A x \in InLog(sotLog) : made[x] # NoChange
  /\ \A d \in Devices : \A x \in InLog(replica[d]) : made[x] # NoChange

RefInv == SyncInv /\ MadeOnly

LEMMA MadeGrows ==
  ASSUME MadeOnly, NEW d \in Devices, UNCHANGED made,
         \A x \in InLog(sotLog') : x \in InLog(sotLog) \cup InLog(replica[d]),
         \A e \in Devices : \A x \in InLog(replica'[e]) :
           x \in InLog(sotLog) \cup InLog(replica[e])
  PROVE  MadeOnly'
BY DEF MadeOnly

LEMMA EditMade ==
  ASSUME RefInv, NEW d \in Devices, NEW s \in Slots, NEW c \in Ids, NEW v \in Vaults,
         NEW op \in Ops, Edit(d, s, c, op, v)
  PROVE  MadeOnly'
<1>1. /\ made' = [made EXCEPT ![c] = [op |-> op, vault |-> v, by |-> d]]
      /\ replica' = [replica EXCEPT ![d] = Extend(@, {c}, EmptyLog)]
      /\ sotLog' = sotLog
  BY DEF Edit
<1>2. /\ replica \in [Devices -> Log] /\ made \in [Ids -> Change \cup {NoChange}]
      /\ EmptyLog \in Log
  BY DEF RefInv, SyncInv, TypeOK, EmptyLog, Log
<1>3. \A x \in Ids : made[x] # NoChange \/ x = c => made'[x] # NoChange
  BY <1>1, <1>2 DEF NoChange, Ops
<1>4. \A e \in Devices : InLog(replica'[e]) \subseteq InLog(replica[e]) \cup {c}
  <2> SUFFICES ASSUME NEW e \in Devices
               PROVE  InLog(replica'[e]) \subseteq InLog(replica[e]) \cup {c}
    OBVIOUS
  <2>1. replica[d] \in Log /\ {c} \in SUBSET Ids  BY <1>2
  <2>2. InLog(Extend(replica[d], {c}, EmptyLog)) = InLog(replica[d]) \cup {c}
    BY ZenonT(60), <1>2, <2>1, ExtendInLog
  <2> QED  BY <1>1, <1>2, <2>2
<1>5. \A log : InLog(log) \subseteq Ids  BY Sides
<1> QED  BY <1>1, <1>3, <1>4, <1>5 DEF RefInv, MadeOnly

--------------------------------------------------------------------------------
(* One lemma for each step of the abstract specification *)

\* A log that grows at its end keeps what lies behind the cursor.
LEMMA ConfirmedKept ==
  ASSUME NEW d \in Devices, replica \in [Devices -> Log],
         UNCHANGED cursor, NEW log, replica' = [replica EXCEPT ![d] = log],
         Behind(log, cursor[d]) = Behind(replica[d], cursor[d])
  PROVE  Confirmed' = Confirmed
<1>1. \A e \in Devices : Behind(replica'[e], cursor'[e]) = Behind(replica[e], cursor[e])
  OBVIOUS
<1> QED  BY <1>1 DEF Confirmed

LEMMA EditMakes ==
  ASSUME RefInv, NEW d \in Devices, NEW s \in Slots, NEW c \in Ids, NEW v \in Vaults,
         NEW op \in Ops, Edit(d, s, c, op, v)
  PROVE  Abstract!Make(d, c)
<1> DEFINE ext == Extend(replica[d], {c}, EmptyLog)
<1>1. /\ replica' = [replica EXCEPT ![d] = ext]
      /\ UNCHANGED <<sotLog, cursor>> /\ made[c] = NoChange
  BY DEF Edit
<1>2. /\ replica \in [Devices -> Log] /\ EmptyLog \in Log /\ replica[d] \in Log
      /\ {c} \in SUBSET Ids /\ DeviceOK(replica[d], cursor[d], sotLog)
  BY DEF RefInv, SyncInv, TypeOK, EmptyLog, Log
<1>3. InLog(ext) = InLog(replica[d]) \cup {c}  BY ZenonT(60), <1>2, ExtendInLog
<1>4. Behind(ext, cursor[d]) = Behind(replica[d], cursor[d])
  BY <1>2, ExtendBehind DEF DeviceOK
<1> HIDE DEF ext
<1>5. Confirmed' = Confirmed  BY <1>1, <1>2, <1>4, ConfirmedKept
<1>6. Held' = [Held EXCEPT ![d] = @ \cup {c}]  BY <1>1, <1>2, <1>3 DEF Held
<1>7. c \notin InLog(sotLog) /\ \A e \in Devices : c \notin Held[e]
  BY <1>1 DEF RefInv, MadeOnly, Held
<1> QED  BY <1>1, <1>5, <1>6, <1>7, SameOperators DEF Abstract!Make

LEMMA PushPosts ==
  ASSUME Assumed, RefInv, NEW d \in Devices, NEW s \in Slots,
         Push(d, s) \/ PushAnswerLost(d, s)
  PROVE  Abstract!Post(d) /\ MadeOnly'
<1> DEFINE L == call[d][s].local
           rep == replica[d]
<1>1. /\ sotLog' = Extend(sotLog, L, rep) /\ UNCHANGED <<made, replica, cursor>>
      /\ call[d][s].pc = "push"
  BY DEF Push, PushAnswerLost, Applicable, Assumed
<1>2. /\ rep \in Log /\ sotLog \in Log /\ Dense(sotLog) /\ L \in SUBSET Ids
      /\ DeviceOK(rep, cursor[d], sotLog) /\ cursor[d] \in Ids \cup {None}
      /\ CallOK(call[d][s], rep, cursor[d], sotLog)
  BY DEF RefInv, SyncInv, TypeOK, Call
<1>3. L = After(rep, cursor[d])  BY <1>1, <1>2 DEF CallOK, CallFresh, LocalFresh
<1>4. InLog(sotLog) \cup L = InLog(sotLog) \cup InLog(rep)
  BY <1>2, <1>3, SidesCover DEF DeviceOK
<1> HIDE DEF L, rep
<1>5. /\ InLog(sotLog') = InLog(sotLog) \cup InLog(rep)
      /\ \A x \in InLog(sotLog) : sotLog'[x] = sotLog[x]
  BY ZenonT(60), <1>1, <1>2, <1>4, ExtendInLog
<1>6. DownClosed(sotLog', InLog(sotLog))
  <2>1. DownClosed(sotLog, InLog(sotLog))  BY DEF DownClosed
  <2> QED  BY <1>1, <1>2, <2>1, ExtendDownClosed
<1>7. Held' = Held /\ Confirmed' = Confirmed  BY <1>1 DEF Held, Confirmed
<1>8. Held[d] = InLog(rep)  BY DEF Held, rep
<1>9. MadeOnly'  BY <1>1, <1>5 DEF RefInv, MadeOnly, rep
<1> QED  BY <1>5, <1>6, <1>7, <1>8, <1>9, SameOperators DEF Abstract!Post

\* What a merge leaves in the replica, wherever the store puts the pending changes.
LEMMA MergeLog ==
  ASSUME RefInv, NEW d \in Devices, NEW s \in Slots, Merge(d, s)
  PROVE  \E log \in Log :
           /\ replica' = [replica EXCEPT ![d] = log]
           /\ InLog(log) = InLog(replica[d]) \cup call[d][s].remote
           /\ Behind(log, cursor[d]) = Behind(replica[d], cursor[d])
<1> DEFINE c == call[d][s]
           old == replica[d]
           cur == cursor[d]
<1>1. /\ old \in Log /\ sotLog \in Log /\ c.remote \in SUBSET Ids
      /\ cur \in Ids \cup {None}
      /\ DeviceOK(old, cur, sotLog) /\ LocalFresh(c, old, cur)
  <2>1. CallOK(c, old, cur, sotLog) /\ DeviceOK(old, cur, sotLog) /\ TypeOK
    BY DEF RefInv, SyncInv
  <2>2. LocalFresh(c, old, cur)  BY <2>1 DEF CallOK, CallFresh
  <2> QED  BY <2>1, <2>2 DEF TypeOK, Call
<1>2. c.pc = "merge"  BY DEF Merge
<1>3. PICK log \in {Appended(old, c, sotLog), Rebased(old, c, sotLog)} :
        replica' = [replica EXCEPT ![d] = log]
  BY DEF Merge
<1>4. \/ log = Extend(old, c.remote, sotLog)
      \/ log = Extend(Extend(Only(old, Ids \ c.local), c.remote, sotLog), c.local, old)
  BY <1>3 DEF Appended, Rebased
<1> HIDE DEF c, old, cur
<1>5. /\ log \in Log /\ InLog(log) = InLog(old) \cup c.remote
      /\ Behind(log, cur) = Behind(old, cur)
  BY <1>1, <1>2, <1>4, MergeDevice
<1> QED  BY <1>3, <1>5 DEF c, old, cur

LEMMA MergeReceives ==
  ASSUME RefInv, NEW d \in Devices, NEW s \in Slots, Merge(d, s)
  PROVE  Abstract!Receive(d) /\ MadeOnly'
<1> DEFINE c == call[d][s]
           old == replica[d]
           cur == cursor[d]
           R == c.remote
<1>1. /\ old \in Log /\ R \in SUBSET Ids /\ CallOK(c, old, cur, sotLog)
      /\ replica \in [Devices -> Log]
  BY DEF RefInv, SyncInv, TypeOK, Call
<1>2. c.pc = "merge" /\ UNCHANGED <<sotLog, cursor, made>>  BY DEF Merge
<1>3. PICK log \in Log : /\ replica' = [replica EXCEPT ![d] = log]
                         /\ InLog(log) = InLog(old) \cup R
                         /\ Behind(log, cur) = Behind(old, cur)
  BY MergeLog
<1>4. Settled(InLog(old) \cup R, sotLog)  BY <1>1, <1>2 DEF CallOK, CallFresh
<1>6. InLog(old) \subseteq Ids  BY Sides
<1> HIDE DEF R, old, cur
<1>7. InLog(log) = InLog(old) \cup R /\ Behind(log, cur) = Behind(old, cur)
  BY <1>3
<1>8. Confirmed' = Confirmed
  BY <1>1, <1>2, <1>3, <1>7, ConfirmedKept DEF old, cur
<1> DEFINE S == InLog(old) \cup R
<1>9. Held' = [Held EXCEPT ![d] = S]  BY <1>1, <1>3, <1>7 DEF Held
<1>10. Held[d] = InLog(old)  BY DEF Held, old
<1>11. S \in SUBSET Ids /\ Held[d] \subseteq S  BY <1>1, <1>6, <1>10
<1>12. Abstract!Segment(S)  BY <1>4, SameOperators DEF Abstract!Segment, Settled
<1>13. sotLog' = sotLog  BY <1>2
<1>14. Abstract!Receive(d)
  BY <1>8, <1>9, <1>11, <1>12, <1>13 DEF Abstract!Receive
<1>15. MadeOnly'
  <2>1. \A e \in Devices : \A x \in InLog(replica'[e]) :
          x \in InLog(sotLog) \cup InLog(replica[e])
    BY <1>1, <1>3, <1>4, <1>7 DEF Settled, old
  <2> QED  BY <1>2, <1>13, <2>1, MadeGrows DEF RefInv
<1> QED  BY <1>14, <1>15

LEMMA AdvanceConfirms ==
  ASSUME RefInv, NEW d \in Devices, NEW s \in Slots, Advance(d, s)
  PROVE  Abstract!Confirm(d) \/ UNCHANGED Abstract!vars
<1> DEFINE rep == replica[d]
<1>1. /\ rep \in Log /\ call[d][s].pc = "advance" /\ UNCHANGED <<sotLog, replica>>
      /\ CallOK(call[d][s], rep, cursor[d], sotLog)
      /\ cursor \in [Devices -> Ids \cup {None}]
  BY DEF RefInv, SyncInv, TypeOK, Advance
<1>2. Settled(InLog(rep), sotLog)  BY <1>1 DEF CallOK, CallFresh
<1>3. Held' = Held /\ Held[d] = InLog(rep)  BY <1>1 DEF Held
<1>4. CASE UNCHANGED cursor
  <2>1. Confirmed' = Confirmed  BY <1>1, <1>4 DEF Confirmed
  <2> QED  BY <1>1, <1>3, <2>1 DEF Abstract!vars
<1>5. CASE \E last \in InLog(rep) :
             After(rep, last) = {} /\ cursor' = [cursor EXCEPT ![d] = last]
  <2>1. PICK last \in InLog(rep) :
          After(rep, last) = {} /\ cursor' = [cursor EXCEPT ![d] = last]
    BY <1>5
  <2>2. last \in Ids \cup {None}  BY Sides
  <2>3. Behind(rep, last) = InLog(rep)  BY <1>1, <2>1, <2>2, SidesCover
  <2>4. Confirmed' = [Confirmed EXCEPT ![d] = InLog(rep)]
    BY <1>1, <2>1, <2>3 DEF Confirmed
  <2>5. Abstract!Segment(Held[d])
    BY <1>2, <1>3, SameOperators DEF Abstract!Segment, Settled
  <2> QED  BY <1>1, <1>3, <2>4, <2>5 DEF Abstract!Confirm
<1> QED  BY <1>4, <1>5 DEF Advance

LEMMA QuietMaps ==
  ASSUME MadeOnly, UNCHANGED <<made, sotLog, replica, cursor>>
  PROVE  UNCHANGED Abstract!vars /\ MadeOnly'
BY DEF Abstract!vars, Held, Confirmed, MadeOnly

--------------------------------------------------------------------------------
(* The refinement *)

LEMMA RefStep ==
  ASSUME Assumed, RefInv, [Next]_vars
  PROVE  [Abstract!Next]_(Abstract!vars) /\ MadeOnly'
<1>1. CASE UNCHANGED vars  BY <1>1, QuietMaps DEF RefInv, vars
<1>2. ASSUME NEW d \in Devices, NEW s \in Slots, EditStep(d, s)
      PROVE  Abstract!Next /\ MadeOnly'
  <2>1. PICK c \in Ids, v \in Vaults, op \in Ops : Edit(d, s, c, op, v)
    BY <1>2 DEF EditStep, CreateVault, UpdateVault, DeleteVault, Ops
  <2> QED  BY <2>1, EditMakes, EditMade DEF Abstract!Next
<1>3. ASSUME NEW d \in Devices, NEW s \in Slots, SyncStep(d, s) \/ FaultStep(d, s)
      PROVE  [Abstract!Next]_(Abstract!vars) /\ MadeOnly'
  <2>1. CASE Push(d, s) \/ PushAnswerLost(d, s)
    BY <2>1, PushPosts DEF Abstract!Next
  <2>2. CASE Merge(d, s)  BY <2>2, MergeReceives DEF Abstract!Next
  <2>3. CASE Advance(d, s)
    <3>1. MadeOnly'  BY <2>3 DEF Advance, RefInv, MadeOnly
    <3> QED  BY <2>3, <3>1, AdvanceConfirms DEF Abstract!Next
  <2>4. CASE \/ ReadCursor(d, s) \/ ReadLocal(d, s) \/ CountRemote(d, s)
             \/ FetchRemote(d, s) \/ SealKeys(d, s) \/ PushRefused(d, s)
             \/ \E v \in Vaults : UploadBlob(d, s, v)
             \/ BlobMissing(d, s) \/ UploadAnswerLost(d, s) \/ Fail(d, s)
    <3>1. UNCHANGED <<made, sotLog, replica, cursor>>
      BY <2>4 DEF ReadCursor, ReadLocal, CountRemote, FetchRemote, SealKeys,
                  PushRefused, UploadBlob, BlobMissing, UploadAnswerLost, Fail
    <3> QED  BY <3>1, QuietMaps DEF RefInv
  <2> QED  BY <1>3, <2>1, <2>2, <2>3, <2>4 DEF SyncStep, FaultStep
<1>4. ASSUME NEW d \in Devices,
             \/ \E s \in Slots : StartSync(d, s) \/ List(d, s)
             \/ Crash(d)
             \/ \E v \in Vaults : DownloadBlob(d, v)
      PROVE  UNCHANGED Abstract!vars /\ MadeOnly'
  <2>1. UNCHANGED <<made, sotLog, replica, cursor>>
    BY <1>4 DEF StartSync, List, Crash, DownloadBlob
  <2> QED  BY <2>1, QuietMaps DEF RefInv
<1> QED  BY <1>1, <1>2, <1>3, <1>4 DEF Next

LEMMA RefInit == Init => Abstract!Init /\ MadeOnly
<1> SUFFICES ASSUME Init  PROVE Abstract!Init /\ MadeOnly
  OBVIOUS
<1>1. InLog(EmptyLog) = {}  BY DEF InLog, EmptyLog
<1>2. \A d \in Devices : InLog(replica[d]) = {}  BY <1>1 DEF Init
<1>3. Held = [d \in Devices |-> {}]  BY <1>2 DEF Held
<1>4. Confirmed = [d \in Devices |-> {}]  BY <1>2, Sides DEF Confirmed
<1>5. sotLog = Abstract!EmptyLog  BY DEF Init, EmptyLog, Abstract!EmptyLog
<1>6. MadeOnly  BY <1>1, <1>2 DEF Init, MadeOnly
<1> QED  BY <1>3, <1>4, <1>5, <1>6 DEF Abstract!Init

\* The synchronisation of every vault list, step by step, in any interleaving of
\* devices and with any failure, is the atomic exchange of VaultReplication.
THEOREM Refinement == ASSUME Assumed PROVE Spec => Replicates
<1>1. Init => Abstract!Init /\ RefInv  BY RefInit, SyncInvInit DEF RefInv
<1>2. RefInv /\ [Next]_vars => [Abstract!Next]_(Abstract!vars) /\ RefInv'
  BY RefStep, SyncInvStep DEF RefInv
<1> QED  BY <1>1, <1>2, PTL DEF Spec, Replicates, Abstract!Spec

--------------------------------------------------------------------------------
(* What a device has synchronised is a state of the history, and never forks:   *)
(* a consequence of the abstract specification, which VaultSync inherits.        *)

\* What a device has synchronised is a state the daemon's log was in, with nothing
\* left out in between: what two devices have synchronised never forks, the one is
\* the other at an earlier time.
SyncedIsHistory == \A d \in Devices : Settled(Confirmed[d], sotLog)

LEMMA HistoryKept ==
  ASSUME SyncedIsHistory, [Abstract!Next]_(Abstract!vars)
  PROVE  SyncedIsHistory'
<1>1. \A d \in Devices :
        /\ \A x \in Confirmed[d] : x \in InLog(sotLog)
        /\ \A x \in Confirmed[d], y \in InLog(sotLog) :
             sotLog[y] <= sotLog[x] => y \in Confirmed[d]
  BY DEF SyncedIsHistory, Settled, DownClosed
<1>2. CASE UNCHANGED Abstract!vars
  BY <1>1, <1>2 DEF Abstract!vars, SyncedIsHistory, Settled, DownClosed
<1>3. ASSUME NEW d \in Devices, Abstract!Post(d)  PROVE SyncedIsHistory'
  <2>1. /\ \A x \in InLog(sotLog) : x \in InLog(sotLog') /\ sotLog'[x] = sotLog[x]
        /\ \A x \in InLog(sotLog), y \in InLog(sotLog') :
             sotLog'[y] <= sotLog'[x] => y \in InLog(sotLog)
        /\ Confirmed' = Confirmed
    BY <1>3, SameOperators DEF Abstract!Post, DownClosed
  <2> QED  BY <1>1, <2>1 DEF SyncedIsHistory, Settled, DownClosed
<1>4. ASSUME NEW d \in Devices, Abstract!Confirm(d)  PROVE SyncedIsHistory'
  <2>1. /\ Settled(Held[d], sotLog) /\ sotLog' = sotLog
        /\ Confirmed' = [Confirmed EXCEPT ![d] = Held[d]]
    BY <1>4, SameOperators DEF Abstract!Confirm, Abstract!Segment, Settled
  <2>2. \A e \in Devices : Confirmed'[e] = IF e = d THEN Held[d] ELSE Confirmed[e]
    BY <2>1 DEF Confirmed
  <2> QED  BY <2>1, <2>2 DEF SyncedIsHistory
<1>5. ASSUME NEW d \in Devices, Abstract!Receive(d) \/ \E c \in Ids : Abstract!Make(d, c)
      PROVE  SyncedIsHistory'
  <2>1. sotLog' = sotLog /\ Confirmed' = Confirmed
    BY <1>5 DEF Abstract!Receive, Abstract!Make
  <2> QED  BY <2>1 DEF SyncedIsHistory
<1> QED  BY <1>2, <1>3, <1>4, <1>5 DEF Abstract!Next

LEMMA HistoryInit == Init => SyncedIsHistory
<1> SUFFICES ASSUME Init  PROVE SyncedIsHistory
  OBVIOUS
<1>1. \A d \in Devices : Confirmed[d] = {}
  BY RefInit DEF Abstract!Init
<1> QED  BY <1>1 DEF SyncedIsHistory, Settled, DownClosed

\* What a device has synchronised is a state the daemon's log was in, whatever fails
\* and wherever the program stops.
THEOREM SyncedSnapshots == ASSUME Assumed PROVE Spec => []SyncedIsHistory
<1>1. Init => RefInv /\ SyncedIsHistory  BY RefInit, SyncInvInit, HistoryInit DEF RefInv
<1>2. RefInv /\ SyncedIsHistory /\ [Next]_vars => (RefInv /\ SyncedIsHistory)'
  BY RefStep, SyncInvStep, HistoryKept DEF RefInv
<1> QED  BY <1>1, <1>2, PTL DEF Spec

NeverFork ==
  \A d, e \in Devices :
    Confirmed[d] \subseteq Confirmed[e] \/ Confirmed[e] \subseteq Confirmed[d]

\* Of two devices, one has synchronised everything the other has: the vault lists
\* they show for it are one list at two times.
THEOREM SyncedNeverFork == ASSUME Assumed PROVE Spec => []NeverFork
<1>1. ASSUME TypeOK, SyncedIsHistory  PROVE NeverFork
  <2> SUFFICES ASSUME NEW d \in Devices, NEW e \in Devices,
                      NEW x \in Confirmed[d], x \notin Confirmed[e],
                      NEW y \in Confirmed[e], y \notin Confirmed[d]
               PROVE  FALSE
    BY DEF NeverFork
  <2>1. x \in InLog(sotLog) /\ y \in InLog(sotLog)
    BY <1>1 DEF SyncedIsHistory, Settled
  <2>2. sotLog[x] \in Nat /\ sotLog[y] \in Nat
    BY <1>1, <2>1 DEF TypeOK, Log, InLog
  <2>3. sotLog[y] <= sotLog[x] \/ sotLog[x] <= sotLog[y]  BY <2>2
  <2> QED  BY <1>1, <2>1, <2>3 DEF SyncedIsHistory, Settled, DownClosed
<1>2. Spec => []TypeOK  BY TypeCorrect
<1>3. Spec => []SyncedIsHistory  BY SyncedSnapshots
<1> QED  BY <1>1, <1>2, <1>3, PTL

--------------------------------------------------------------------------------
(* Record files: a creation behind the cursor of its maker has its file at the *)
(* daemon, if the daemon's answer lists the creations of an earlier attempt.    *)

\* A device keeps the changes it made.
OwnKept ==
  \A d \in Devices, x \in Ids :
    made[x] # NoChange /\ made[x].by = d => x \in InLog(replica[d])

\* The vaults that d created by the changes of S are in B; what they are says m.
SentTo(m, d, S, B) == \A x \in S : m[x].op = "create" /\ m[x].by = d => m[x].vault \in B

\* A call c of d that has posted its changes goes on to send what is missing.
CallSends(m, d, c, rep, B) ==
  /\ c.pc = "blobs" => SentTo(m, d, InLog(rep), B \cup c.todo)
  /\ c.pc \in {"merge", "advance"} => SentTo(m, d, InLog(rep), B)

BlobInv ==
  /\ OwnKept
  /\ BlobBeforeCursor
  /\ \A d \in Devices, s \in Slots :
       CallSends(made, d, call[d][s], replica[d], sotBlobs)

Answering == Assumed /\ "known" \in Promises

\* A step of a call that changes neither replica nor cursor.
LEMMA BlobQuiet ==
  ASSUME Assumed, RefInv, BlobInv, NEW d \in Devices, NEW s \in Slots, NEW c \in Call,
         Set(d, s, c), UNCHANGED <<made, replica, cursor>>, sotBlobs \subseteq sotBlobs',
         CallSends(made, d, c, replica[d], sotBlobs')
  PROVE  BlobInv'
<1>1. call \in [Devices -> [Slots -> Call]]  BY DEF RefInv, SyncInv, TypeOK
<1>2. \A e \in Devices, t \in Slots :
        call'[e][t] = IF e = d THEN c ELSE call[e][t]
  BY <1>1, OnlyCall
<1>3. ASSUME NEW e \in Devices, NEW t \in Slots  
      PROVE  CallSends(made, e, call'[e][t], replica[e], sotBlobs')
  <2>1. CASE e = d  BY <1>2, <2>1
  <2>2. CASE e # d
    <3>1. /\ call'[e][t] = call[e][t]
          /\ CallSends(made, e, call[e][t], replica[e], sotBlobs)
      BY <1>2, <2>2 DEF BlobInv
    <3> QED  BY <3>1 DEF CallSends, SentTo
  <2> QED  BY <2>1, <2>2
<1>4. OwnKept'  BY DEF BlobInv, OwnKept
<1>5. BlobBeforeCursor'
  BY DEF BlobInv, BlobBeforeCursor, Creates
<1> QED  BY <1>3, <1>4, <1>5 DEF BlobInv

\* What a call that returns or begins says of record files: nothing.
LEMMA BlobReturn ==
  ASSUME Assumed, RefInv, BlobInv, NEW d \in Devices, NEW s \in Slots, NEW ret \in Rets,
         Return(d, s, ret), UNCHANGED <<made, replica, cursor>>,
         sotBlobs \subseteq sotBlobs'
  PROVE  BlobInv'
<1> DEFINE k == IF ret = "ok" THEN call[d][s].edit ELSE None
           c == [NoCall EXCEPT !.ret = ret, !.edit = k]
<1>1. Set(d, s, c)  BY DEF Return
<1>2. k \in Ids \cup {None}  BY DEF RefInv, SyncInv, TypeOK, Call
<1> HIDE DEF k
<1>3. c \in Call /\ c.pc = "idle"  BY <1>2, NoCallType DEF NoCall, Call
<1> HIDE DEF c
<1>4. CallSends(made, d, c, replica[d], sotBlobs')  BY <1>3 DEF CallSends
<1> QED  BY <1>1, <1>3, <1>4, BlobQuiet

LEMMA BlobBegin ==
  ASSUME Assumed, RefInv, BlobInv, NEW d \in Devices, NEW s \in Slots,
         NEW kind \in {"sync", "check"}, Begin(d, s, kind, None),
         UNCHANGED <<made, replica, cursor, sotBlobs>>
  PROVE  BlobInv'
<1> DEFINE c == [NoCall EXCEPT !.pc = "cursor", !.kind = kind, !.edit = None]
<1>1. Set(d, s, c)  BY DEF Begin
<1>2. c \in Call /\ c.pc = "cursor"  BY DEF NoCall, Call, Pcs, Rets
<1> HIDE DEF c
<1>3. CallSends(made, d, c, replica[d], sotBlobs')  BY <1>2 DEF CallSends
<1> QED  BY <1>1, <1>2, <1>3, BlobQuiet

\* Without pending changes all there is in the replica lies behind the cursor.
LEMMA NothingPending ==
  ASSUME RefInv, BlobInv, NEW d \in Devices, NEW s \in Slots,
         call[d][s].pc \in {"count", "fetch"}, call[d][s].local = {}
  PROVE  SentTo(made, d, InLog(replica[d]), sotBlobs)
<1>1. /\ replica[d] \in Log /\ cursor[d] \in Ids \cup {None}
      /\ CallOK(call[d][s], replica[d], cursor[d], sotLog)
  BY DEF RefInv, SyncInv, TypeOK
<1>2. After(replica[d], cursor[d]) = {}  BY <1>1 DEF CallOK, CallFresh, LocalFresh
<1>3. InLog(replica[d]) = Behind(replica[d], cursor[d])  BY <1>1, <1>2, SidesCover
<1> QED  BY <1>3 DEF BlobInv, BlobBeforeCursor, SentTo, Creates

LEMMA BlobMoves ==
  ASSUME Assumed, RefInv, BlobInv, NEW d \in Devices, NEW s \in Slots,
         \/ ReadCursor(d, s) \/ ReadLocal(d, s) \/ SealKeys(d, s)
         \/ CountRemote(d, s) \/ FetchRemote(d, s)
  PROVE  BlobInv'
<1> DEFINE c == call[d][s]
<1>1. c \in Call /\ cursor[d] \in Ids \cup {None}  BY DEF RefInv, SyncInv, TypeOK
<1>2. UNCHANGED <<made, replica, cursor, sotBlobs>>
  BY DEF ReadCursor, ReadLocal, SealKeys, CountRemote, FetchRemote
<1>3. CASE ReadCursor(d, s)
  <2> DEFINE r == [c EXCEPT !.pc = "local", !.start = cursor[d]]
  <2>1. Set(d, s, r)  BY <1>3 DEF ReadCursor
  <2>2. r \in Call /\ r.pc = "local"  BY <1>1 DEF Call, Pcs
  <2> HIDE DEF r
  <2>3. CallSends(made, d, r, replica[d], sotBlobs')  BY <2>2 DEF CallSends
  <2> QED  BY <1>2, <2>1, <2>2, <2>3, BlobQuiet
<1>4. CASE ReadLocal(d, s)
  <2> DEFINE S == After(replica[d], c.start)
             r == [c EXCEPT !.pc = "count", !.local = S]
  <2>1. Set(d, s, r)  BY <1>4 DEF ReadLocal
  <2>2. S \in SUBSET Ids  BY AfterIds
  <2> HIDE DEF S
  <2>3. r \in Call /\ r.pc = "count"  BY <1>1, <2>2 DEF Call, Pcs
  <2> HIDE DEF r
  <2>4. CallSends(made, d, r, replica[d], sotBlobs')  BY <2>3 DEF CallSends
  <2> QED  BY <1>2, <2>1, <2>3, <2>4, BlobQuiet
<1>5. CASE SealKeys(d, s)
  <2> DEFINE r == [c EXCEPT !.pc = "push"]
  <2>1. Set(d, s, r)  BY <1>5 DEF SealKeys
  <2>2. r \in Call /\ r.pc = "push"  BY <1>1 DEF Call, Pcs
  <2> HIDE DEF r
  <2>3. CallSends(made, d, r, replica[d], sotBlobs')  BY <2>2 DEF CallSends
  <2> QED  BY <1>2, <2>1, <2>2, <2>3, BlobQuiet
<1>6. CASE CountRemote(d, s)
  <2> DEFINE n == Cardinality(After(sotLog, c.start))
             pc == IF n = 0 THEN AfterFetch(c.local) ELSE "fetch"
             r == [c EXCEPT !.count = n, !.pc = pc]
  <2>1. c.pc = "count"  BY <1>6 DEF CountRemote
  <2>2. CASE c.kind = "check"
    <3> DEFINE ret == IF c.local = {} /\ n = 0 THEN "clean" ELSE "dirty"
    <3>1. Return(d, s, ret)  BY <1>6, <2>2 DEF CountRemote
    <3>2. ret \in Rets  BY DEF Rets
    <3> HIDE DEF ret
    <3> QED  BY <1>2, <3>1, <3>2, BlobReturn
  <2>3. CASE c.kind # "check"
    <3>1. Set(d, s, r)  BY <1>6, <2>3 DEF CountRemote
    <3>2. n \in Nat  BY AfterIds, IdSets
    <3>3. pc \in {"merge", "keys", "fetch"} /\ (pc = "merge" => c.local = {})
      BY DEF AfterFetch
    <3> HIDE DEF n, pc
    <3>4. r \in Call /\ r.pc = pc  BY <1>1, <3>2, <3>3 DEF Call, Pcs
    <3> HIDE DEF r
    <3>5. CASE pc = "merge"
      <4>1. SentTo(made, d, InLog(replica[d]), sotBlobs)  BY <2>1, <3>3, <3>5, NothingPending
      <4>2. CallSends(made, d, r, replica[d], sotBlobs')
        BY <1>2, <3>4, <3>5, <4>1 DEF CallSends, SentTo
      <4> QED  BY <1>2, <3>1, <3>4, <4>2, BlobQuiet
    <3>6. CASE pc # "merge"
      <4>1. CallSends(made, d, r, replica[d], sotBlobs')  BY <3>3, <3>4, <3>6 DEF CallSends
      <4> QED  BY <1>2, <3>1, <3>4, <4>1, BlobQuiet
    <3> QED  BY <3>5, <3>6
  <2> QED  BY <2>2, <2>3
<1>7. CASE FetchRemote(d, s)
  <2> DEFINE S == FirstAfter(sotLog, c.start, c.count)
             pc == AfterFetch(c.local)
             r == [c EXCEPT !.pc = pc, !.remote = S]
  <2>1. Set(d, s, r) /\ c.pc = "fetch"  BY <1>7 DEF FetchRemote
  <2>2. S \in SUBSET Ids  BY DEF FirstAfter, After, InLog
  <2>3. pc \in {"merge", "keys"} /\ (pc = "merge" => c.local = {})  BY DEF AfterFetch
  <2> HIDE DEF S, pc
  <2>4. r \in Call /\ r.pc = pc  BY <1>1, <2>2, <2>3 DEF Call, Pcs
  <2> HIDE DEF r
  <2>5. CASE pc = "merge"
    <3>1. SentTo(made, d, InLog(replica[d]), sotBlobs)  BY <2>1, <2>3, <2>5, NothingPending
    <3>2. CallSends(made, d, r, replica[d], sotBlobs')  BY <1>2, <2>4, <2>5, <3>1 DEF CallSends, SentTo
    <3> QED  BY <1>2, <2>1, <2>4, <3>2, BlobQuiet
  <2>6. CASE pc # "merge"
    <3>1. CallSends(made, d, r, replica[d], sotBlobs')  BY <2>3, <2>4, <2>6 DEF CallSends
    <3> QED  BY <1>2, <2>1, <2>4, <3>1, BlobQuiet
  <2> QED  BY <2>5, <2>6
<1> QED  BY <1>3, <1>4, <1>5, <1>6, <1>7

\* Posting: what is not behind the cursor is posted, and the answer lists it.
LEMMA BlobPush ==
  ASSUME Answering, RefInv, BlobInv, NEW d \in Devices, NEW s \in Slots, Push(d, s)
  PROVE  BlobInv'
<1> DEFINE c == call[d][s]
           rep == replica[d]
           todo == VaultsOf(Creates(c.local))
           pc == IF todo = {} THEN "merge" ELSE "blobs"
           r == [c EXCEPT !.todo = todo, !.pc = pc]
<1>1. /\ c \in Call /\ c.local \in SUBSET Ids /\ rep \in Log /\ cursor[d] \in Ids \cup {None}
      /\ CallOK(c, rep, cursor[d], sotLog) /\ TypeOK
  BY DEF RefInv, SyncInv, TypeOK, Call
<1>2. c.pc = "push" /\ UNCHANGED <<made, replica, cursor, sotBlobs>>  BY DEF Push
<1>3. Set(d, s, r)  BY DEF Push, Answering, Assumed, Applicable, Answer
<1>4. todo \in SUBSET Vaults  BY <1>1, CreatesVaults
<1>5. InLog(rep) = Behind(rep, cursor[d]) \cup c.local
  BY <1>1, <1>2, SidesCover DEF CallOK, CallFresh, LocalFresh
<1>6. SentTo(made, d, InLog(rep), sotBlobs \cup todo)
  <2> SUFFICES ASSUME NEW x \in InLog(rep), made[x].op = "create", made[x].by = d
               PROVE  made[x].vault \in sotBlobs \cup todo
    BY DEF SentTo
  <2>1. CASE x \in Behind(rep, cursor[d])
    BY <2>1 DEF BlobInv, BlobBeforeCursor, Creates
  <2>2. CASE x \in c.local  BY <2>2 DEF VaultsOf, Creates
  <2> QED  BY <1>5, <2>1, <2>2
<1> HIDE DEF todo
<1>7. /\ r \in Call /\ r.todo = todo /\ r.pc = pc /\ pc \in {"merge", "blobs"}
      /\ pc = "merge" => todo = {}
  BY <1>1, <1>4 DEF Call, Pcs
<1> HIDE DEF r, pc
<1>8. CallSends(made, d, r, rep, sotBlobs')
  BY <1>2, <1>6, <1>7 DEF CallSends, SentTo
<1> QED  BY <1>2, <1>3, <1>7, <1>8, BlobQuiet DEF Answering

LEMMA BlobUpload ==
  ASSUME Assumed, RefInv, BlobInv, NEW d \in Devices, NEW s \in Slots, NEW v \in Vaults,
         UploadBlob(d, s, v)
  PROVE  BlobInv'
<1> DEFINE c == call[d][s]
           rest == c.todo \ {v}
           pc == IF rest = {} THEN "merge" ELSE "blobs"
           r == [c EXCEPT !.todo = rest, !.pc = pc]
<1>1. c \in Call /\ rest \in SUBSET Vaults  BY DEF RefInv, SyncInv, TypeOK, Call
<1>2. /\ c.pc = "blobs" /\ UNCHANGED <<made, replica, cursor>>
      /\ sotBlobs' = sotBlobs \cup {v} /\ Set(d, s, r)
  BY DEF UploadBlob
<1>3. SentTo(made, d, InLog(replica[d]), sotBlobs' \cup rest)
  <2>1. SentTo(made, d, InLog(replica[d]), sotBlobs \cup c.todo)
    BY <1>2 DEF BlobInv, CallSends
  <2> QED  BY <1>2, <2>1 DEF SentTo
<1> HIDE DEF rest
<1>4. /\ r \in Call /\ r.todo = rest /\ r.pc = pc /\ pc \in {"merge", "blobs"}
      /\ pc = "merge" => rest = {}
  BY <1>1 DEF Call, Pcs
<1> HIDE DEF r, pc
<1>5. CallSends(made, d, r, replica[d], sotBlobs')
  BY <1>3, <1>4 DEF CallSends, SentTo
<1> QED  BY <1>1, <1>2, <1>4, <1>5, BlobQuiet

\* A step of d that changes its replica or its cursor: a change that is new to
\* made is an edit of d, in its replica and nowhere else.
LEMMA BlobStep ==
  ASSUME Assumed, RefInv, BlobInv, NEW d \in Devices, NEW s \in Slots, NEW c \in Call,
         Set(d, s, c), UNCHANGED sotBlobs,
         \A e \in Devices \ {d} : replica'[e] = replica[e] /\ cursor'[e] = cursor[e],
         InLog(replica[d]) \subseteq InLog(replica'[d]),
         \A x \in Ids : \/ made'[x] = made[x]
                        \/ /\ made[x] = NoChange
                           /\ made'[x].by = d /\ x \in InLog(replica'[d]),
         SentTo(made', d, Behind(replica'[d], cursor'[d]), sotBlobs),
         CallSends(made', d, c, replica'[d], sotBlobs)
  PROVE  BlobInv'
<1>1. call \in [Devices -> [Slots -> Call]]  BY DEF RefInv, SyncInv, TypeOK
<1>2. \A e \in Devices, t \in Slots :
        call'[e][t] = IF e = d THEN c ELSE call[e][t]
  BY <1>1, OnlyCall
<1>3. \A e \in Devices \ {d} : \A x \in InLog(replica[e]) : made'[x] = made[x]
  BY Sides DEF RefInv, MadeOnly
<1>4. OwnKept'
  <2> SUFFICES ASSUME NEW e \in Devices, NEW x \in Ids,
                      made'[x] # NoChange, made'[x].by = e
               PROVE  x \in InLog(replica'[e])
    BY DEF OwnKept
  <2>1. CASE made'[x] = made[x]
    <3>1. x \in InLog(replica[e])  BY <2>1 DEF BlobInv, OwnKept
    <3> QED  BY <3>1 DEF InLog
  <2>2. CASE made'[x].by = d /\ x \in InLog(replica'[d])  BY <2>2
  <2> QED  BY <2>1, <2>2
<1>5. \A e \in Devices : SentTo(made', e, Behind(replica'[e], cursor'[e]), sotBlobs)
  <2> SUFFICES ASSUME NEW e \in Devices \ {d}
               PROVE  SentTo(made', e, Behind(replica[e], cursor[e]), sotBlobs)
    OBVIOUS
  <2>1. SentTo(made, e, Behind(replica[e], cursor[e]), sotBlobs)
    BY DEF BlobInv, BlobBeforeCursor, SentTo, Creates
  <2> QED  BY <1>3, <2>1, Sides DEF SentTo
<1>6. BlobBeforeCursor'  BY <1>5 DEF BlobBeforeCursor, SentTo, Creates
<1>7. ASSUME NEW e \in Devices, NEW t \in Slots
      PROVE  CallSends(made', e, call'[e][t], replica'[e], sotBlobs)
  <2>1. CASE e = d  BY <1>2, <2>1
  <2>2. CASE e # d
    <3>1. /\ call'[e][t] = call[e][t] /\ replica'[e] = replica[e]
          /\ CallSends(made, e, call[e][t], replica[e], sotBlobs)
      BY <1>2, <2>2 DEF BlobInv
    <3> QED  BY <1>3, <2>2, <3>1 DEF CallSends, SentTo
  <2> QED  BY <2>1, <2>2
<1> QED  BY <1>4, <1>6, <1>7 DEF BlobInv

LEMMA BlobEdit ==
  ASSUME Assumed, RefInv, BlobInv, NEW d \in Devices, NEW s \in Slots, NEW c \in Ids,
         NEW v \in Vaults, NEW op \in Ops, Edit(d, s, c, op, v), UNCHANGED sotBlobs
  PROVE  BlobInv'
<1> DEFINE rep == replica[d]
           ext == Extend(rep, {c}, EmptyLog)
           m == [op |-> op, vault |-> v, by |-> d]
<1>1. /\ made' = [made EXCEPT ![c] = m] /\ made[c] = NoChange
      /\ replica' = [replica EXCEPT ![d] = ext] /\ UNCHANGED cursor
  BY DEF Edit
<1>2. /\ replica \in [Devices -> Log] /\ rep \in Log /\ EmptyLog \in Log
      /\ {c} \in SUBSET Ids /\ DeviceOK(rep, cursor[d], sotLog)
      /\ made \in [Ids -> Change \cup {NoChange}]
  BY DEF RefInv, SyncInv, TypeOK, EmptyLog, Log
<1>3. InLog(ext) = InLog(rep) \cup {c}  BY ZenonT(60), <1>2, ExtendInLog
<1>4. Behind(ext, cursor[d]) = Behind(rep, cursor[d])  BY <1>2, ExtendBehind DEF DeviceOK
<1> HIDE DEF ext
<1>5. replica'[d] = ext /\ \A e \in Devices \ {d} : replica'[e] = replica[e]
  BY <1>1, <1>2
<1>6. \A x \in Ids : made'[x] = IF x = c THEN m ELSE made[x]  BY <1>1, <1>2
<1>7. \A x \in Ids : \/ made'[x] = made[x]
                     \/ made[x] = NoChange /\ made'[x].by = d /\ x \in InLog(replica'[d])
  BY <1>1, <1>3, <1>5, <1>6
<1>8. SentTo(made', d, Behind(replica'[d], cursor'[d]), sotBlobs)
  <2>1. SentTo(made, d, Behind(rep, cursor[d]), sotBlobs)
    BY DEF BlobInv, BlobBeforeCursor, SentTo, Creates
  <2>2. \A x \in Behind(rep, cursor[d]) : x \in Ids /\ made[x] # NoChange
    BY Sides DEF RefInv, MadeOnly
  <2>3. \A x \in Behind(rep, cursor[d]) : made'[x] = made[x]  BY <1>1, <1>6, <2>2
  <2> QED  BY <1>1, <1>4, <1>5, <2>1, <2>3 DEF SentTo
<1>9. \E k \in Call : Set(d, s, k) /\ k.pc \in {"idle", "cursor"}
  <2> DEFINE go == [NoCall EXCEPT !.pc = "cursor", !.kind = "sync", !.edit = c]
             ok == [NoCall EXCEPT !.ret = "ok"]
  <2>1. Set(d, s, go) \/ Set(d, s, ok)  BY DEF Edit, Begin
  <2>2. go \in Call /\ go.pc = "cursor"  BY DEF NoCall, Call, Pcs, Rets
  <2>3. ok \in Call /\ ok.pc = "idle"  BY DEF NoCall, Call, Pcs, Rets
  <2> HIDE DEF go, ok
  <2> QED  BY <2>1, <2>2, <2>3
<1>10. PICK k \in Call : Set(d, s, k) /\ k.pc \in {"idle", "cursor"}  BY <1>9
<1>11. CallSends(made', d, k, replica'[d], sotBlobs)  BY <1>10 DEF CallSends
<1>12. InLog(replica[d]) \subseteq InLog(replica'[d])  BY <1>3, <1>5
<1> QED  BY <1>1, <1>5, <1>7, <1>8, <1>10, <1>11, <1>12, BlobStep

LEMMA BlobMerge ==
  ASSUME Assumed, RefInv, BlobInv, NEW d \in Devices, NEW s \in Slots, Merge(d, s)
  PROVE  BlobInv'
<1> DEFINE c == call[d][s]
           r == [c EXCEPT !.pc = "advance"]
<1>1. c \in Call /\ c.remote \in SUBSET Ids /\ replica \in [Devices -> Log]
      /\ CallOK(c, replica[d], cursor[d], sotLog)
  BY DEF RefInv, SyncInv, TypeOK, Call
<1>2. c.pc = "merge" /\ UNCHANGED <<made, sotBlobs, cursor>> /\ Set(d, s, r)
  BY DEF Merge
<1>3. PICK log \in Log : /\ replica' = [replica EXCEPT ![d] = log]
                         /\ InLog(log) = InLog(replica[d]) \cup c.remote
                         /\ Behind(log, cursor[d]) = Behind(replica[d], cursor[d])
  BY MergeLog
<1>4. replica'[d] = log /\ \A e \in Devices \ {d} : replica'[e] = replica[e]
  BY <1>1, <1>3
<1>5. r \in Call /\ r.pc = "advance"  BY <1>1 DEF Call, Pcs
<1>6. c.remote \subseteq InLog(sotLog)  BY <1>1, <1>2 DEF CallOK, CallFresh, Settled
<1>7. \A x \in c.remote : made[x].by = d => x \in InLog(replica[d])
  BY <1>1, <1>6 DEF RefInv, MadeOnly, BlobInv, OwnKept
<1>8. SentTo(made, d, InLog(replica[d]), sotBlobs)  BY <1>2 DEF BlobInv, CallSends
<1>9. SentTo(made, d, InLog(log), sotBlobs)  BY <1>3, <1>7, <1>8 DEF SentTo
<1> HIDE DEF r
<1>10. CallSends(made', d, r, replica'[d], sotBlobs)
  BY <1>2, <1>4, <1>5, <1>9 DEF CallSends
<1>11. SentTo(made', d, Behind(replica'[d], cursor'[d]), sotBlobs)
  BY <1>2, <1>4, <1>9, Sides DEF SentTo
<1>12. InLog(replica[d]) \subseteq InLog(replica'[d])  BY <1>3, <1>4
<1> QED  BY <1>2, <1>4, <1>5, <1>10, <1>11, <1>12, BlobStep

LEMMA BlobAdvance ==
  ASSUME Assumed, RefInv, BlobInv, NEW d \in Devices, NEW s \in Slots, Advance(d, s)
  PROVE  BlobInv'
<1> DEFINE k == call[d][s].edit
           c == [NoCall EXCEPT !.ret = "ok", !.edit = k]
<1>1. /\ call[d][s].pc = "advance" /\ UNCHANGED <<made, sotBlobs, replica>>
      /\ Set(d, s, c)
  BY DEF Advance, Return
<1>2. k \in Ids \cup {None} /\ cursor \in [Devices -> Ids \cup {None}]
  BY DEF RefInv, SyncInv, TypeOK, Call
<1> HIDE DEF k
<1>3. c \in Call /\ c.pc = "idle"  BY <1>2 DEF NoCall, Call, Rets, Pcs
<1> HIDE DEF c
<1>4. SentTo(made, d, InLog(replica[d]), sotBlobs)  BY <1>1 DEF BlobInv, CallSends
<1>5. \A e \in Devices \ {d} : cursor'[e] = cursor[e]  BY <1>2 DEF Advance
<1>6. SentTo(made', d, Behind(replica'[d], cursor'[d]), sotBlobs)
  BY <1>1, <1>4, Sides DEF SentTo
<1>7. CallSends(made', d, c, replica'[d], sotBlobs)  BY <1>3 DEF CallSends
<1> QED  BY <1>1, <1>3, <1>5, <1>6, <1>7, BlobStep

LEMMA BlobCrash ==
  ASSUME RefInv, BlobInv, NEW d \in Devices, Crash(d)
  PROVE  BlobInv'
<1>1. UNCHANGED <<made, replica, cursor, sotBlobs>>  BY DEF Crash
<1>2. call \in [Devices -> [Slots -> Call]]  BY DEF RefInv, SyncInv, TypeOK
<1>3. \A e \in Devices, t \in Slots :
        call'[e][t] = call[e][t] \/ call'[e][t].pc = "idle"
  BY <1>2 DEF Crash, NoCall
<1>4. ASSUME NEW e \in Devices, NEW t \in Slots
      PROVE  CallSends(made, e, call'[e][t], replica[e], sotBlobs)
  <2>1. CallSends(made, e, call[e][t], replica[e], sotBlobs)  BY DEF BlobInv
  <2> QED  BY <1>3, <2>1 DEF CallSends
<1>5. OwnKept' /\ BlobBeforeCursor'
  BY <1>1 DEF BlobInv, OwnKept, BlobBeforeCursor, Creates
<1> QED  BY <1>1, <1>4, <1>5 DEF BlobInv

LEMMA BlobInvStep ==
  ASSUME Answering, RefInv, BlobInv, [Next]_vars
  PROVE  BlobInv'
<1>0. Assumed  BY DEF Answering
<1>1. CASE UNCHANGED <<made, replica, cursor, sotBlobs, call>>
  <2>1. OwnKept' /\ BlobBeforeCursor'
    BY <1>1 DEF BlobInv, OwnKept, BlobBeforeCursor, Creates
  <2> QED  BY <1>1, <2>1 DEF BlobInv
<1>2. ASSUME NEW d \in Devices, NEW s \in Slots, StartSync(d, s) \/ List(d, s)
      PROVE  BlobInv'
  <2>1. UNCHANGED <<made, replica, cursor, sotBlobs>>  BY <1>2 DEF StartSync, List
  <2>2. \E kind \in {"sync", "check"} : Begin(d, s, kind, None)
    BY <1>2 DEF StartSync, List
  <2> QED  BY <1>0, <2>1, <2>2, BlobBegin
<1>3. ASSUME NEW d \in Devices, NEW s \in Slots, EditStep(d, s)
      PROVE  BlobInv'
  <2>1. PICK c \in Ids, v \in Vaults, op \in Ops : Edit(d, s, c, op, v)
    BY <1>3 DEF EditStep, CreateVault, UpdateVault, DeleteVault, Ops
  <2>2. UNCHANGED sotBlobs  BY <2>1 DEF Edit
  <2> QED  BY <1>0, <2>1, <2>2, BlobEdit
<1>4. ASSUME NEW d \in Devices, NEW s \in Slots, SyncStep(d, s)
      PROVE  BlobInv'
  <2>1. CASE PushRefused(d, s) \/ BlobMissing(d, s)
    <3>1. Return(d, s, "err") /\ UNCHANGED <<made, replica, cursor, sotBlobs>>
      BY <2>1 DEF PushRefused, BlobMissing
    <3>2. "err" \in Rets  BY DEF Rets
    <3> QED  BY <1>0, <3>1, <3>2, BlobReturn
  <2> QED  BY <1>0, <1>4, <2>1, BlobMoves, BlobPush, BlobUpload, BlobMerge, BlobAdvance
           DEF SyncStep
<1>5. ASSUME NEW d \in Devices, NEW s \in Slots, FaultStep(d, s)
      PROVE  BlobInv'
  <2>1. /\ Return(d, s, "err") /\ UNCHANGED <<made, replica, cursor>>
        /\ sotBlobs \subseteq sotBlobs'
    BY <1>5 DEF FaultStep, PushAnswerLost, UploadAnswerLost, Fail
  <2>2. "err" \in Rets  BY DEF Rets
  <2> QED  BY <1>0, <2>1, <2>2, BlobReturn
<1>6. ASSUME NEW d \in Devices, NEW v \in Vaults, DownloadBlob(d, v)
      PROVE  BlobInv'
  BY <1>1, <1>6 DEF DownloadBlob
<1> QED  BY <1>1, <1>2, <1>3, <1>4, <1>5, <1>6, BlobCrash DEF Next, vars

LEMMA BlobInit == Init => BlobInv
<1> SUFFICES ASSUME Init  PROVE BlobInv
  OBVIOUS
<1>1. InLog(EmptyLog) = {}  BY DEF InLog, EmptyLog
<1>2. OwnKept  BY DEF Init, OwnKept
<1>3. \A d \in Devices : Behind(replica[d], cursor[d]) = {}
  BY <1>1, Sides DEF Init
<1>4. BlobBeforeCursor  BY <1>3 DEF BlobBeforeCursor, Creates
<1>5. \A d \in Devices, s \in Slots : call[d][s].pc = "idle"  BY DEF Init, NoCall
<1>6. \A d \in Devices, s \in Slots :
        CallSends(made, d, call[d][s], replica[d], sotBlobs)
  BY <1>5 DEF CallSends
<1> QED  BY <1>2, <1>4, <1>6 DEF BlobInv

\* A vault whose creation lies behind the cursor of the device that created it has
\* its record file at the daemon, whatever failed in between: the creation is
\* posted, its file sent, the change merged and the cursor moved in this order.
THEOREM BlobsFollow == ASSUME Answering PROVE Spec => []BlobBeforeCursor
<1>1. Init => RefInv /\ BlobInv  BY RefInit, SyncInvInit, BlobInit DEF RefInv
<1>2. RefInv /\ BlobInv /\ [Next]_vars => RefInv' /\ BlobInv'
  BY RefStep, SyncInvStep, BlobInvStep DEF RefInv, Answering
<1>3. RefInv /\ BlobInv => BlobBeforeCursor  BY DEF BlobInv
<1> QED  BY <1>1, <1>2, <1>3, PTL DEF Spec

--------------------------------------------------------------------------------
(* Record files a device can send: what it created itself, if deleting a vault *)
(* leaves its file.  Only a merged change that is not yet behind the cursor is  *)
(* another device's.                                                           *)

OwnFiles ==
  \A d \in Devices, x \in Ids :
    made[x].op = "create" /\ made[x].by = d => made[x].vault \in files[d]

\* d is between Replica.Sync and SetSyncStateToBeLatest, or was cut there.
Merged(d) == torn[d] \/ \E s \in Slots : call[d][s].pc = "advance"

OwnPending ==
  \A d \in Devices :
    Merged(d) \/ \A x \in After(replica[d], cursor[d]) : made[x].by = d

FileInv == OwnFiles /\ OwnPending

Keeping == Assumed /\ "keep" \in Promises

\* A step of a call that is not at "advance", and leaves logs and cursor alone.
LEMMA FileQuiet ==
  ASSUME Assumed, RefInv, FileInv, NEW d \in Devices, NEW s \in Slots,
         call[d][s].pc # "advance", NEW c, call' = [call EXCEPT ![d][s] = c],
         UNCHANGED <<made, replica, cursor, files, torn>>
  PROVE  FileInv'
<1>1. call \in [Devices -> [Slots -> Call]]  BY DEF RefInv, SyncInv, TypeOK
<1>2. torn' = torn  OBVIOUS
<1>3. \A t \in Slots : t = s  BY DEF Assumed, SerialCalls
<1>4. ASSUME NEW e \in Devices
      PROVE  Merged(e)' \/ \A x \in After(replica[e], cursor[e]) : made[x].by = e
  <2>1. CASE e = d
    <3>1. Merged(e) => torn[e]  BY <1>3, <2>1 DEF Merged
    <3> QED  BY <1>2, <3>1 DEF Merged, FileInv, OwnPending
  <2>2. CASE e # d
    <3>1. call'[e] = call[e]  BY <1>1, <2>2
    <3> QED  BY <1>2, <3>1 DEF Merged, FileInv, OwnPending
  <2> QED  BY <2>1, <2>2
<1>5. OwnFiles'  BY DEF FileInv, OwnFiles
<1> QED  BY <1>4, <1>5 DEF FileInv, OwnPending

LEMMA FileEdit ==
  ASSUME Keeping, RefInv, FileInv, NEW d \in Devices, NEW s \in Slots, EditStep(d, s)
  PROVE  FileInv'
<1>1. PICK c \in Ids, v \in Vaults, op \in Ops :
        /\ Edit(d, s, c, op, v)
        /\ \/ op = "create" /\ files' = [files EXCEPT ![d] = @ \cup {v}]
           \/ op # "create" /\ files' = files
  BY DEF EditStep, CreateVault, UpdateVault, DeleteVault, Ops, Keeping
<1> DEFINE rep == replica[d]
           m == [op |-> op, vault |-> v, by |-> d]
<1>2. /\ made' = [made EXCEPT ![c] = m] /\ made[c] = NoChange
      /\ replica' = [replica EXCEPT ![d] = Extend(rep, {c}, EmptyLog)]
      /\ UNCHANGED <<cursor, torn>> /\ call[d][s].pc = "idle"
  BY <1>1 DEF Edit
<1>3. /\ replica \in [Devices -> Log] /\ rep \in Log /\ EmptyLog \in Log
      /\ {c} \in SUBSET Ids /\ DeviceOK(rep, cursor[d], sotLog)
      /\ made \in [Ids -> Change \cup {NoChange}]
      /\ files \in [Devices -> SUBSET Vaults]
      /\ call \in [Devices -> [Slots -> Call]]
  BY DEF RefInv, SyncInv, TypeOK, EmptyLog, Log
<1>4. \A x \in Ids : made'[x] = IF x = c THEN m ELSE made[x]  BY <1>2, <1>3
<1>5. OwnFiles'
  <2> SUFFICES ASSUME NEW e \in Devices, NEW x \in Ids,
                      made'[x].op = "create", made'[x].by = e
               PROVE  made'[x].vault \in files'[e]
    BY DEF OwnFiles
  <2>1. files[e] \subseteq files'[e]  BY <1>1, <1>3
  <2>2. CASE x = c  BY <1>1, <1>3, <1>4, <2>2
  <2>3. CASE x # c  BY <1>4, <2>1, <2>3 DEF FileInv, OwnFiles
  <2> QED  BY <2>2, <2>3
<1>6. \A t \in Slots : t = s  BY DEF Keeping, Assumed, SerialCalls
<1>7. ASSUME NEW e \in Devices, NEW x \in After(replica'[e], cursor'[e]), ~Merged(e)'
      PROVE  made'[x].by = e
  <2>1. CASE e = d
    <3>1. After(replica'[d], cursor'[d]) \subseteq After(rep, cursor[d]) \cup {c}
      BY <1>2, <1>3, ExtendBehind DEF DeviceOK
    <3>2. ~Merged(d)  BY <1>2, <1>6, <1>7, <2>1 DEF Merged
    <3>3. CASE x = c  BY <1>3, <1>4, <2>1, <3>3
    <3>4. CASE x # c
      <4>1. x \in After(rep, cursor[d]) /\ x \in Ids  BY <2>1, <3>1, <3>4, Sides
      <4> QED  BY <1>4, <2>1, <3>2, <3>4, <4>1 DEF FileInv, OwnPending
    <3> QED  BY <3>3, <3>4
  <2>2. CASE e # d
    <3>1. replica'[e] = replica[e] /\ cursor'[e] = cursor[e]  BY <1>2, <1>3, <2>2
    <3>2. call'[e] = call[e]  BY <1>1, <1>3, <2>2 DEF Edit, Begin, Set
    <3>3. ~Merged(e)  BY <1>2, <1>7, <3>2 DEF Merged
    <3>4. x \in InLog(replica[e]) /\ x \in Ids  BY <3>1, Sides
    <3>5. x # c  BY <1>2, <3>4 DEF RefInv, MadeOnly
    <3> QED  BY <1>4, <3>1, <3>3, <3>4, <3>5 DEF FileInv, OwnPending
  <2> QED  BY <2>1, <2>2
<1> QED  BY <1>5, <1>7 DEF FileInv, OwnPending

\* Merging, moving the cursor, and being cut between the two.
LEMMA FileMerge ==
  ASSUME RefInv, FileInv, NEW d \in Devices, NEW s \in Slots,
         Merge(d, s) \/ Advance(d, s)
  PROVE  FileInv'
<1>1. UNCHANGED <<made, files>> /\ \A e \in Devices \ {d} :
        /\ replica'[e] = replica[e] /\ cursor'[e] = cursor[e] /\ torn'[e] = torn[e]
        /\ call'[e] = call[e]
  <2>1. /\ replica \in [Devices -> Log] /\ cursor \in [Devices -> Ids \cup {None}]
        /\ torn \in [Devices -> BOOLEAN] /\ call \in [Devices -> [Slots -> Call]]
    BY DEF RefInv, SyncInv, TypeOK
  <2>2. CASE Merge(d, s)
    <3>1. /\ UNCHANGED <<cursor, torn, made, files>>
          /\ \E log : replica' = [replica EXCEPT ![d] = log]
          /\ \E c : call' = [call EXCEPT ![d][s] = c]
      BY <2>2 DEF Merge, Set
    <3> QED  BY <2>1, <3>1
  <2>3. CASE Advance(d, s)
    <3>1. /\ UNCHANGED <<replica, made, files>>
          /\ cursor' = cursor \/ \E last : cursor' = [cursor EXCEPT ![d] = last]
          /\ torn' = [torn EXCEPT ![d] = FALSE]
          /\ \E c : call' = [call EXCEPT ![d][s] = c]
      BY <2>3 DEF Advance, Return, Set
    <3> QED  BY <2>1, <3>1
  <2> QED  BY <2>2, <2>3
<1>2. OwnFiles'  BY <1>1 DEF FileInv, OwnFiles
<1>3. Merged(d)' \/ After(replica'[d], cursor'[d]) = {}
  <2>1. CASE Merge(d, s)
    <3>1. call \in [Devices -> [Slots -> Call]]  BY DEF RefInv, SyncInv, TypeOK
    <3>2. call'[d][s] = [call[d][s] EXCEPT !.pc = "advance"]
      BY <2>1, <3>1 DEF Merge, Set
    <3>3. call'[d][s].pc = "advance"  BY <3>1, <3>2 DEF Call
    <3> QED  BY <3>3 DEF Merged
  <2>2. CASE Advance(d, s)
    <3>1. cursor \in [Devices -> Ids \cup {None}]  BY DEF RefInv, SyncInv, TypeOK
    <3> QED  BY <2>2, <3>1, Sides DEF Advance
  <2> QED  BY <2>1, <2>2
<1>4. ASSUME NEW e \in Devices, NEW x \in After(replica'[e], cursor'[e]), ~Merged(e)'
      PROVE  made'[x].by = e
  <2>1. e # d  BY <1>3, <1>4
  <2>2. ~Merged(e) /\ x \in After(replica[e], cursor[e])  BY <1>1, <1>4, <2>1 DEF Merged
  <2> QED  BY <1>1, <2>2 DEF FileInv, OwnPending
<1> QED  BY <1>2, <1>4 DEF FileInv, OwnPending

LEMMA FileCut ==
  ASSUME Assumed, RefInv, FileInv, NEW d \in Devices, NEW s \in Slots,
         Fail(d, s) \/ Crash(d)
  PROVE  FileInv'
<1>1. UNCHANGED <<made, replica, cursor, files>>  BY DEF Fail, Crash
<1>2. torn \in [Devices -> BOOLEAN] /\ call \in [Devices -> [Slots -> Call]]
  BY DEF RefInv, SyncInv, TypeOK
<1>3. \A t \in Slots : t = s  BY DEF Assumed, SerialCalls
<1>4. torn'[d] = Merged(d)  BY <1>2, <1>3 DEF Fail, Crash, Halted, Merged
<1>5. \A e \in Devices \ {d} : torn'[e] = torn[e] /\ call'[e] = call[e]
  BY <1>2 DEF Fail, Crash, Return, Set
<1>6. \A e \in Devices : Merged(e) => Merged(e)'  BY <1>4, <1>5 DEF Merged
<1>7. OwnFiles'  BY <1>1 DEF FileInv, OwnFiles
<1> QED  BY <1>1, <1>6, <1>7 DEF FileInv, OwnPending

LEMMA FileInvStep ==
  ASSUME Keeping, RefInv, FileInv, [Next]_vars
  PROVE  FileInv'
<1>0. Assumed  BY DEF Keeping
<1>1. CASE UNCHANGED <<made, replica, cursor, files, torn, call>>
  BY <1>1 DEF FileInv, OwnFiles, OwnPending, Merged
<1>2. ASSUME NEW d \in Devices, NEW s \in Slots,
             StartSync(d, s) \/ List(d, s) \/ SyncStep(d, s) \/ FaultStep(d, s)
      PROVE  FileInv'
  <2>1. CASE \/ StartSync(d, s) \/ List(d, s)
             \/ ReadCursor(d, s) \/ ReadLocal(d, s) \/ CountRemote(d, s)
             \/ FetchRemote(d, s) \/ SealKeys(d, s) \/ Push(d, s) \/ PushRefused(d, s)
             \/ \E v \in Vaults : UploadBlob(d, s, v)
             \/ BlobMissing(d, s) \/ PushAnswerLost(d, s) \/ UploadAnswerLost(d, s)
    <3>1. /\ UNCHANGED <<made, replica, cursor, files, torn>>
          /\ call[d][s].pc # "advance"
      BY <2>1 DEF StartSync, List, ReadCursor, ReadLocal, CountRemote, FetchRemote,
                  SealKeys, Push, PushRefused, UploadBlob, BlobMissing,
                  PushAnswerLost, UploadAnswerLost
    <3>2. \E c : call' = [call EXCEPT ![d][s] = c]
      BY <2>1 DEF StartSync, List, ReadCursor, ReadLocal, CountRemote, FetchRemote,
                  SealKeys, Push, PushRefused, UploadBlob, BlobMissing,
                  PushAnswerLost, UploadAnswerLost, Begin, Return, Set
    <3> QED  BY <1>0, <3>1, <3>2, FileQuiet
  <2> QED  BY <1>0, <1>2, <2>1, FileMerge, FileCut DEF SyncStep, FaultStep
<1>3. ASSUME NEW d \in Devices, Crash(d)  PROVE FileInv'
  <2>1. PICK s \in Slots : TRUE  BY <1>3 DEF Crash
  <2> QED  BY <1>0, <1>3, FileCut
<1>4. ASSUME NEW d \in Devices, NEW v \in Vaults, DownloadBlob(d, v)
      PROVE  FileInv'
  <2>1. files \in [Devices -> SUBSET Vaults]  BY DEF RefInv, SyncInv, TypeOK
  <2>2. \A e \in Devices : files[e] \subseteq files'[e]  BY <1>4, <2>1 DEF DownloadBlob
  <2>3. UNCHANGED <<made, replica, cursor, torn, call>>  BY <1>4 DEF DownloadBlob
  <2> QED  BY <2>2, <2>3 DEF FileInv, OwnFiles, OwnPending, Merged
<1> QED  BY <1>1, <1>2, <1>3, <1>4, FileEdit DEF Next, vars

LEMMA FileInit == Init => FileInv
<1> SUFFICES ASSUME Init  PROVE FileInv
  OBVIOUS
<1>1. InLog(EmptyLog) = {}  BY DEF InLog, EmptyLog
<1>2. \A d \in Devices : After(replica[d], cursor[d]) = {}  BY <1>1, Sides DEF Init
<1>3. OwnFiles  BY DEF Init, OwnFiles, NoChange
<1> QED  BY <1>2, <1>3 DEF FileInv, OwnPending

\* Unless a sync was cut between merging and moving the cursor, a device holds the
\* record file of every vault whose creation it has yet to post: it made them all.
THEOREM Uploadable == ASSUME Keeping PROVE Spec => []PendingCreatesUploadable
<1>1. Init => RefInv /\ FileInv  BY RefInit, SyncInvInit, FileInit DEF RefInv
<1>2. RefInv /\ FileInv /\ [Next]_vars => RefInv' /\ FileInv'
  BY RefStep, SyncInvStep, FileInvStep DEF RefInv, Keeping
<1>3. FileInv => PendingCreatesUploadable
  <2> SUFFICES ASSUME FileInv, NEW d \in Devices, ~Merged(d),
                      NEW x \in Creates(After(replica[d], cursor[d]))
               PROVE  made[x].vault \in files[d]
    BY DEF PendingCreatesUploadable, VaultsOf, Merged
  <2>1. x \in After(replica[d], cursor[d]) /\ made[x].op = "create" /\ x \in Ids
    BY Sides DEF Creates
  <2> QED  BY <2>1 DEF FileInv, OwnFiles, OwnPending
<1> QED  BY <1>1, <1>2, <1>3, PTL DEF Spec

================================================================================
