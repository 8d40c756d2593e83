------------------------------- MODULE VaultSync -------------------------------
(***************************************************************************)
(* Vault synchronisation with a remote source of truth (SoT):              *)
(* src/app/vault/service.go.  Every device keeps a replica of the vault    *)
(* list together with the log of changes that produced it and a cursor, the *)
(* change up to which the replica has been synchronised.  The daemon keeps  *)
(* the authoritative log and one record blob per vault.                    *)
(*                                                                         *)
(* SyncVault takes no lock and no transaction: each of its steps is an      *)
(* action here, and a step of another device, a step of another call on     *)
(* the same device, a failure or a crash may come between any two of them.  *)
(* Only remote sources are modelled: when IsRemote is false List, SyncVault *)
(* and the edits go to the local store at once and never reach this code.   *)
(*                                                                         *)
(* Logs are those of ChangeLog.  What a change does to a vault is not       *)
(* modelled beyond its kind, its vault and the device that made it.        *)
(***************************************************************************)
EXTENDS SyncCall

CONSTANTS
  Devices,   \* devices that replicate the same source of truth
  Slots,     \* service calls one device may run at a time (one: a serial caller)
  Vaults,    \* identifiers of vaults
  Mode,      \* SyncMode of the device's source: "auto" or "manual"
  Promises,  \* what the daemon and the vault store, not in this repository, promise
  Faults     \* failures that may happen

\* "all":    the daemon applies a posted batch entirely or not at all;
\* "window": it refuses a batch when the changes after the posted cursor are not
\*           as many as the posted limit, the total the client has just counted;
\* "known":  its answer lists every posted change it now holds, those of an
\*           earlier attempt included, and not only the newly inserted ones;
\* "keep":   deleting a vault leaves its record file on the device.
\* "net":    a request to the daemon fails, or is served and its answer lost;
\* "local":  an operation of the local store fails;
\* "crash":  the program stops between two steps.
ASSUME VaultSyncAssumption ==
  /\ Mode \in [Devices -> {"auto", "manual"}]
  /\ Promises \subseteq {"all", "window", "known", "keep"}
  /\ Faults \subseteq {"net", "local", "crash"}

VARIABLES
  made,      \* made[c]: the change c, or NoChange while c is unused
  sotLog,    \* the daemon's log
  sotBlobs,  \* the vaults whose record blob the daemon holds
  replica,   \* replica[d]: the change log of d's replica
  cursor,    \* cursor[d]: the latest change ID of d's sync state
  files,     \* files[d]: the vaults whose record file d holds
  call,      \* call[d][s]: the service call running in slot s of d
  torn,      \* history: the last sync of d merged, but did not move the cursor
  raced      \* history: edits made while another call of the device was syncing

vars == <<made, sotLog, sotBlobs, replica, cursor, files, call, torn, raced>>

--------------------------------------------------------------------------------
Ops == {"create", "update", "delete"}
Change == [op : Ops, vault : Vaults, by : Devices]
NoChange == [op |-> "none"]

Creates(S) == {x \in S : made[x].op = "create"}
VaultsOf(S) == {made[x].vault : x \in S}
DeletedIn(S) == VaultsOf({x \in S : made[x].op = "delete"})
\* The vaults that Replica.List shows.
Listed(d) == VaultsOf(Creates(InLog(replica[d]))) \ DeletedIn(InLog(replica[d]))

--------------------------------------------------------------------------------
(* Service calls *)

Pcs == {"idle", "cursor", "local", "count", "fetch", "keys", "push", "blobs",
        "merge", "advance"}
Rets == {"none", "ok", "err", "clean", "dirty"}
Call == [pc : Pcs, kind : {"sync", "check"}, start : Ids \cup {None},
         local : SUBSET Ids, count : Nat, remote : SUBSET Ids,
         todo : SUBSET Vaults, edit : Ids \cup {None}, ret : Rets]
NoCall == [pc |-> "idle", kind |-> "sync", start |-> None, local |-> {},
           count |-> 0, remote |-> {}, todo |-> {}, edit |-> None,
           ret |-> "none"]

Set(d, s, c) == call' = [call EXCEPT ![d][s] = c]
Begin(d, s, kind, edit) ==
  Set(d, s, [NoCall EXCEPT !.pc = "cursor", !.kind = kind, !.edit = edit])
Return(d, s, ret) ==
  Set(d, s, [NoCall EXCEPT !.ret = ret,
               !.edit = IF ret = "ok" THEN call[d][s].edit ELSE None])

Init ==
  /\ made = [c \in Ids |-> NoChange]
  /\ sotLog = EmptyLog
  /\ sotBlobs = {}
  /\ replica = [d \in Devices |-> EmptyLog]
  /\ cursor = [d \in Devices |-> None]
  /\ files = [d \in Devices |-> {}]
  /\ call = [d \in Devices |-> [s \in Slots |-> NoCall]]
  /\ torn = [d \in Devices |-> FALSE]
  /\ raced = {}

--------------------------------------------------------------------------------
(* Edits: CreateVault, UpdateVault and DeleteVault write the replica and, in   *)
(* auto mode, go on with SyncVault inside the same call.                       *)

\* Another call of d has read the local changes and not yet moved the cursor.
Syncing(d, s) ==
  \E t \in Slots \ {s} :
    call[d][t].kind = "sync" /\ call[d][t].pc \notin {"idle", "cursor", "local"}

Edit(d, s, c, op, v) ==
  /\ call[d][s].pc = "idle"
  /\ made[c] = NoChange
  /\ made' = [made EXCEPT ![c] = [op |-> op, vault |-> v, by |-> d]]
  /\ replica' = [replica EXCEPT ![d] = Extend(@, {c}, EmptyLog)]
  /\ raced' = IF Syncing(d, s) THEN raced \cup {c} ELSE raced
  /\ IF Mode[d] = "auto"
     THEN Begin(d, s, "sync", c)
     ELSE Set(d, s, [NoCall EXCEPT !.ret = "ok"])
  /\ UNCHANGED <<sotLog, sotBlobs, cursor, torn>>

CreateVault(d, s, c, v) ==
  /\ \A x \in Ids : made[x] # NoChange => made[x].vault # v
  /\ Edit(d, s, c, "create", v)
  /\ files' = [files EXCEPT ![d] = @ \cup {v}]

UpdateVault(d, s, c, v) ==
  /\ v \in Listed(d)
  /\ Edit(d, s, c, "update", v)
  /\ UNCHANGED files

DeleteVault(d, s, c, v) ==
  /\ v \in Listed(d)
  /\ Edit(d, s, c, "delete", v)
  /\ files' = IF "keep" \in Promises THEN files
              ELSE [files EXCEPT ![d] = @ \ {v}]

--------------------------------------------------------------------------------
(* List and SyncVault *)

\* SyncVault called by itself.
StartSync(d, s) ==
  /\ call[d][s].pc = "idle"
  /\ Begin(d, s, "sync", None)
  /\ UNCHANGED <<made, sotLog, sotBlobs, replica, cursor, files, torn, raced>>

\* List shows the replica, then syncs (auto) or counts what a sync would move
\* (manual).  When the client holds the daemon to be unreachable it does neither:
\* nothing changes, and there is no such step here.
List(d, s) ==
  /\ call[d][s].pc = "idle"
  /\ Begin(d, s, IF Mode[d] = "auto" THEN "sync" ELSE "check", None)
  /\ UNCHANGED <<made, sotLog, sotBlobs, replica, cursor, files, torn, raced>>

ReadCursor(d, s) ==
  /\ call[d][s].pc = "cursor"
  /\ Set(d, s, [call[d][s] EXCEPT !.pc = "local", !.start = cursor[d]])
  /\ UNCHANGED <<made, sotLog, sotBlobs, replica, cursor, files, torn, raced>>

ReadLocal(d, s) ==
  /\ call[d][s].pc = "local"
  /\ Set(d, s, [call[d][s] EXCEPT !.pc = "count",
                  !.local = After(replica[d], call[d][s].start)])
  /\ UNCHANGED <<made, sotLog, sotBlobs, replica, cursor, files, torn, raced>>

\* Where SyncVault goes once it knows the client changes.
AfterFetch(local) == IF local = {} THEN "merge" ELSE "keys"

\* Faulty CountRemote: the local changes are taken off the total.
CountRemoteNet(d, s) ==
  LET c == call[d][s]
      n == Cardinality(After(sotLog, c.start)) - Cardinality(c.local)
  IN  /\ c.pc = "count"
      /\ IF c.kind = "check"
         THEN Return(d, s, IF c.local = {} /\ n = 0 THEN "clean" ELSE "dirty")
         ELSE Set(d, s, [c EXCEPT !.count = n,
                          !.pc = IF n = 0 THEN AfterFetch(c.local) ELSE "fetch"])
      /\ UNCHANGED <<made, sotLog, sotBlobs, replica, cursor, files, torn, raced>>

\* Faulty CountRemote: the check forgets the local changes.
CountRemoteOnly(d, s) ==
  LET c == call[d][s]
      n == Cardinality(After(sotLog, c.start))
  IN  /\ c.pc = "count"
      /\ IF c.kind = "check"
         THEN Return(d, s, IF n = 0 THEN "clean" ELSE "dirty")
         ELSE Set(d, s, [c EXCEPT !.count = n,
                          !.pc = IF n = 0 THEN AfterFetch(c.local) ELSE "fetch"])
      /\ UNCHANGED <<made, sotLog, sotBlobs, replica, cursor, files, torn, raced>>

CountRemote(d, s) ==
  LET c == call[d][s]
      n == Cardinality(After(sotLog, c.start))
  IN  /\ c.pc = "count"
      /\ IF c.kind = "check"
         THEN Return(d, s, IF c.local = {} /\ n = 0 THEN "clean" ELSE "dirty")
         ELSE Set(d, s, [c EXCEPT !.count = n,
                          !.pc = IF n = 0 THEN AfterFetch(c.local) ELSE "fetch"])
      /\ UNCHANGED <<made, sotLog, sotBlobs, replica, cursor, files, torn, raced>>

\* Faulty FetchRemote: the limit is one short.
FetchRemoteShort(d, s) ==
  LET c == call[d][s]
  IN  /\ c.pc = "fetch"
      /\ Set(d, s, [c EXCEPT !.pc = AfterFetch(c.local),
                      !.remote = FirstAfter(sotLog, c.start, c.count - 1)])
      /\ UNCHANGED <<made, sotLog, sotBlobs, replica, cursor, files, torn, raced>>

FetchRemote(d, s) ==
  LET c == call[d][s]
  IN  /\ c.pc = "fetch"
      /\ Set(d, s, [c EXCEPT !.pc = AfterFetch(c.local),
                      !.remote = FirstAfter(sotLog, c.start, c.count)])
      /\ UNCHANGED <<made, sotLog, sotBlobs, replica, cursor, files, torn, raced>>

\* PublicKeyOfGroups, and the vault key opened and sealed anew for every group
\* of every vault of the batch.
SealKeys(d, s) ==
  /\ call[d][s].pc = "keys"
  /\ Set(d, s, [call[d][s] EXCEPT !.pc = "push"])
  /\ UNCHANGED <<made, sotLog, sotBlobs, replica, cursor, files, torn, raced>>

\* The daemon's side of the POST: which batches it takes, what it applies of one
\* and which changes its answer lists.
Admits(c) ==
  "window" \in Promises => Cardinality(After(sotLog, c.start)) = c.count
Applicable(batch) == IF "all" \in Promises THEN {batch} ELSE SUBSET batch
Answer(applied) ==
  IF "known" \in Promises THEN applied ELSE applied \ InLog(sotLog)

Push(d, s) ==
  LET c == call[d][s]
  IN  /\ c.pc = "push"
      /\ Admits(c)
      /\ \E applied \in Applicable(c.local) :
           LET todo == VaultsOf(Creates(Answer(applied)))
           IN  /\ sotLog' = Extend(sotLog, applied, replica[d])
               /\ Set(d, s, [c EXCEPT !.todo = todo,
                               !.pc = IF todo = {} THEN "merge" ELSE "blobs"])
      /\ UNCHANGED <<made, sotBlobs, replica, cursor, files, torn, raced>>

\* Faulty PushRefused: the error is dropped, and the sync goes on.
PushRefusedIgnored(d, s) ==
  /\ call[d][s].pc = "push"
  /\ ~Admits(call[d][s])
  /\ Set(d, s, [call[d][s] EXCEPT !.pc = "merge"])
  /\ UNCHANGED <<made, sotLog, sotBlobs, replica, cursor, files, torn, raced>>

\* Faulty PushRefused: the sync is left for later and nil returned.
PushRefusedSwallowed(d, s) ==
  /\ call[d][s].pc = "push"
  /\ ~Admits(call[d][s])
  /\ Return(d, s, "ok")
  /\ UNCHANGED <<made, sotLog, sotBlobs, replica, cursor, files, torn, raced>>

PushRefused(d, s) ==
  /\ call[d][s].pc = "push"
  /\ ~Admits(call[d][s])
  /\ Return(d, s, "err")
  /\ UNCHANGED <<made, sotLog, sotBlobs, replica, cursor, files, torn, raced>>

PushAnswerLost(d, s) ==
  /\ "net" \in Faults
  /\ call[d][s].pc = "push"
  /\ Admits(call[d][s])
  /\ \E applied \in Applicable(call[d][s].local) :
       sotLog' = Extend(sotLog, applied, replica[d])
  /\ Return(d, s, "err")
  /\ UNCHANGED <<made, sotBlobs, replica, cursor, files, torn, raced>>

\* The record file of each vault the answer lists as created is sent; a vault
\* whose file the device does not hold ends the call.
UploadBlob(d, s, v) ==
  LET c == call[d][s]
      rest == c.todo \ {v}
  IN  /\ c.pc = "blobs"
      /\ v \in c.todo
      /\ v \in files[d]
      /\ sotBlobs' = sotBlobs \cup {v}
      /\ Set(d, s, [c EXCEPT !.todo = rest,
                      !.pc = IF rest = {} THEN "merge" ELSE "blobs"])
      /\ UNCHANGED <<made, sotLog, replica, cursor, files, torn, raced>>

BlobMissing(d, s) ==
  /\ call[d][s].pc = "blobs"
  /\ ~(call[d][s].todo \subseteq files[d])
  /\ Return(d, s, "err")
  /\ UNCHANGED <<made, sotLog, sotBlobs, replica, cursor, files, torn, raced>>

UploadAnswerLost(d, s) ==
  /\ "net" \in Faults
  /\ call[d][s].pc = "blobs"
  /\ \E v \in (call[d][s].todo \cap files[d]) \ sotBlobs : sotBlobs' = sotBlobs \cup {v}
  /\ Return(d, s, "err")
  /\ UNCHANGED <<made, sotLog, replica, cursor, files, torn, raced>>

\* Replica.Sync.  The store is free to keep the pending changes where they are
\* and append the client's, or to put the client's before them.
Appended(log, c, ord) == Extend(log, c.remote, ord)
Rebased(log, c, ord) ==
  Extend(Extend(Only(log, Ids \ c.local), c.remote, ord), c.local, log)

\* Faulty Merge: with no local changes SyncVault returns before moving the cursor.
MergeKeepsCursor(d, s) ==
  LET c == call[d][s]
  IN  /\ c.pc = "merge"
      /\ \E log \in {Appended(replica[d], c, sotLog), Rebased(replica[d], c, sotLog)} :
           replica' = [replica EXCEPT ![d] = log]
      /\ IF c.local = {} THEN Return(d, s, "ok")
         ELSE Set(d, s, [c EXCEPT !.pc = "advance"])
      /\ UNCHANGED <<made, sotLog, sotBlobs, cursor, files, torn, raced>>

Merge(d, s) ==
  LET c == call[d][s]
  IN  /\ c.pc = "merge"
      /\ \E log \in {Appended(replica[d], c, sotLog), Rebased(replica[d], c, sotLog)} :
           replica' = [replica EXCEPT ![d] = log]
      /\ Set(d, s, [c EXCEPT !.pc = "advance"])
      /\ UNCHANGED <<made, sotLog, sotBlobs, cursor, files, torn, raced>>

\* SetSyncStateToBeLatest: the cursor becomes the last row of the replica.
Advance(d, s) ==
  /\ call[d][s].pc = "advance"
  /\ \/ InLog(replica[d]) = {} /\ UNCHANGED cursor
     \/ \E last \in InLog(replica[d]) :
          /\ After(replica[d], last) = {}
          /\ cursor' = [cursor EXCEPT ![d] = last]
  /\ torn' = [torn EXCEPT ![d] = FALSE]
  /\ Return(d, s, "ok")
  /\ UNCHANGED <<made, sotLog, sotBlobs, replica, files, raced>>

--------------------------------------------------------------------------------
(* Failures *)

FaultAt(pc) ==
  IF pc \in {"cursor", "local", "merge", "advance"} THEN "local" ELSE "net"

Halted(d, s) == torn[d] \/ call[d][s].pc = "advance"

\* Faulty Fail: a failed upload does not end the sync.
FailUploadIgnored(d, s) ==
  /\ call[d][s].pc # "idle"
  /\ FaultAt(call[d][s].pc) \in Faults
  /\ torn' = [torn EXCEPT ![d] = Halted(d, s)]
  /\ IF call[d][s].pc = "blobs" THEN Set(d, s, [call[d][s] EXCEPT !.pc = "merge"])
     ELSE Return(d, s, "err")
  /\ UNCHANGED <<made, sotLog, sotBlobs, replica, cursor, files, raced>>

\* The operation the call is about to make fails without effect, and every
\* function on the way returns its error.  A refused batch and a missing record
\* file end the call in the same way, but are no failures: they are left to
\* PushRefused and BlobMissing.
Fail(d, s) ==
  /\ call[d][s].pc # "idle"
  /\ FaultAt(call[d][s].pc) \in Faults
  /\ call[d][s].pc = "push" => Admits(call[d][s])
  /\ call[d][s].pc = "blobs" => call[d][s].todo \subseteq files[d]
  /\ torn' = [torn EXCEPT ![d] = Halted(d, s)]
  /\ Return(d, s, "err")
  /\ UNCHANGED <<made, sotLog, sotBlobs, replica, cursor, files, raced>>

\* The program stops and is started again: its calls are gone.
Crash(d) ==
  /\ "crash" \in Faults
  /\ \E s \in Slots : call[d][s].pc # "idle"
  /\ torn' = [torn EXCEPT ![d] = \E s \in Slots : Halted(d, s)]
  /\ call' = [call EXCEPT ![d] = [s \in Slots |-> NoCall]]
  /\ UNCHANGED <<made, sotLog, sotBlobs, replica, cursor, files, raced>>

\* SelectVault downloads the record file of a vault it does not hold yet.
DownloadBlob(d, v) ==
  /\ v \in Listed(d) \ files[d]
  /\ v \in sotBlobs
  /\ files' = [files EXCEPT ![d] = @ \cup {v}]
  /\ UNCHANGED <<made, sotLog, sotBlobs, replica, cursor, call, torn, raced>>

\* A step of a call whose requests and store operations succeed.
SyncStep(d, s) ==
  \/ ReadCursor(d, s) \/ ReadLocal(d, s)
  \/ CountRemote(d, s) \/ FetchRemote(d, s)
  \/ SealKeys(d, s)
  \/ Push(d, s) \/ PushRefused(d, s)
  \/ \E v \in Vaults : UploadBlob(d, s, v)
  \/ BlobMissing(d, s)
  \/ Merge(d, s) \/ Advance(d, s)

FaultStep(d, s) ==
  PushAnswerLost(d, s) \/ UploadAnswerLost(d, s) \/ Fail(d, s)

EditStep(d, s) ==
  \E c \in Ids, v \in Vaults :
    \/ CreateVault(d, s, c, v)
    \/ UpdateVault(d, s, c, v)
    \/ DeleteVault(d, s, c, v)

Next ==
  \E d \in Devices :
    \/ \E s \in Slots :
         \/ StartSync(d, s) \/ List(d, s) \/ EditStep(d, s)
         \/ SyncStep(d, s) \/ FaultStep(d, s)
    \/ Crash(d)
    \/ \E v \in Vaults : DownloadBlob(d, v)

Spec == Init /\ [][Next]_vars

\* A call that started goes on, the callers of a device start a sync again and
\* again (List is polled, and every auto-mode edit starts one), and from some
\* time on nothing fails.
Fairness ==
  /\ \A d \in Devices, s \in Slots :
       WF_vars(SyncStep(d, s)) /\ SF_vars(StartSync(d, s))
  /\ <>[][\A d \in Devices : ~Crash(d) /\ \A s \in Slots : ~FaultStep(d, s)]_vars

FairSpec == Spec /\ Fairness

--------------------------------------------------------------------------------
(* Properties *)

\* The state has its shape.
TypeOK ==
  /\ made \in [Ids -> Change \cup {NoChange}]
  /\ sotLog \in Log
  /\ sotBlobs \subseteq Vaults
  /\ replica \in [Devices -> Log]
  /\ cursor \in [Devices -> Ids \cup {None}]
  /\ files \in [Devices -> SUBSET Vaults]
  /\ call \in [Devices -> [Slots -> Call]]
  /\ torn \in [Devices -> BOOLEAN]
  /\ raced \subseteq Ids

\* A local change that lies behind the cursor will never be sent again, so the
\* daemon must hold it (SyncVault reads only the changes after the cursor).
NothingUnsentBehindCursor ==
  \A d \in Devices : Behind(replica[d], cursor[d]) \subseteq InLog(sotLog)

\* A change of another device that lies behind the cursor in the daemon's log
\* will never be fetched again, so the replica must hold it.
NothingUnseenBehindCursor ==
  \A d \in Devices : Behind(sotLog, cursor[d]) \subseteq InLog(replica[d])

\* A vault's records are uploaded by the sync that posts its creation and by no
\* other: once the creation is behind the cursor of the device that made it, the
\* daemon holds the blob.
BlobBeforeCursor ==
  \A d \in Devices :
    \A x \in Creates(Behind(replica[d], cursor[d])) :
      made[x].by = d => made[x].vault \in sotBlobs

\* An edit in auto mode returns nil only when its change is at the daemon.
AutoEditAcked ==
  \A d \in Devices, s \in Slots :
    call[d][s].ret = "ok" /\ call[d][s].edit # None => call[d][s].edit \in InLog(sotLog)

\* As long as no sync was cut between Replica.Sync and SetSyncStateToBeLatest,
\* every pending creation is of a vault whose record file the device holds: no
\* later sync stops at GetRecordBlob.
PendingCreatesUploadable ==
  \A d \in Devices :
    torn[d] \/ (\E s \in Slots : call[d][s].pc = "advance")
    \/ VaultsOf(Creates(After(replica[d], cursor[d]))) \subseteq files[d]

\* List in manual mode says that no sync is needed only when replica and daemon
\* hold the same changes at the moment the remote count is taken.
ManualCheckSound ==
  [][\A d \in Devices, s \in Slots :
       call[d][s].pc = "count" /\ call'[d][s].pc = "idle" /\ call'[d][s].ret = "clean"
         => InLog(replica[d]) = InLog(sotLog)]_vars

\* When the calls of a device overlap, a change is skipped for ever only if it
\* was made while another call of the device was between reading the local
\* changes and moving the cursor; a device on which that never happened keeps
\* everything a serial one does.
OverlapLosesOnlyRaced ==
  \A d \in Devices :
    /\ (Behind(replica[d], cursor[d]) \ InLog(sotLog)) \subseteq raced
    /\ (\A x \in raced : made[x].by # d) =>
         /\ Behind(sotLog, cursor[d]) \subseteq InLog(replica[d])
         /\ \A x \in Creates(Behind(replica[d], cursor[d])) :
              made[x].by = d => made[x].vault \in sotBlobs
         /\ \A s \in Slots : call[d][s].ret = "ok" =>
              call[d][s].edit \in InLog(sotLog) \cup {None}

\* When edits have ended, every replica comes to hold what the daemon holds, and
\* the daemon every change made.
Converges ==
  <>[](\A d \in Devices :
         /\ InLog(replica[d]) = InLog(sotLog)
         /\ InLog(sotLog) = {c \in Ids : made[c] # NoChange})

--------------------------------------------------------------------------------
(* What synchronisation promises: the daemon's log is the history, a device    *)
(* holds the changes of its replica, and has confirmed those behind its cursor. *)

Held == [d \in Devices |-> InLog(replica[d])]
Confirmed == [d \in Devices |-> Behind(replica[d], cursor[d])]

Abstract == INSTANCE VaultReplication
  WITH history <- sotLog, held <- Held, confirmed <- Confirmed

\* Every step of SyncVault, of an edit and of a failure is one atomic step of
\* VaultReplication or leaves its state alone: a replica only ever moves from one
\* state of the daemon to a later one, whatever the calls of other devices do
\* between the requests of a sync.
Replicates == Abstract!Spec

--------------------------------------------------------------------------------
(* The inductive invariant behind the safety properties, for callers that make *)
(* one call at a time (see SyncCall and VaultSyncProofs).                       *)

SerialCalls == \A s, t \in Slots : s = t

\* The edit a call belongs to is in the replica, and at the daemon once it returns.
EditHeld(c, rep, sot) ==
  c.edit # None =>
    /\ c.edit \in InLog(rep)
    /\ c.ret = "ok" => c.edit \in InLog(sot)

CallOK(c, rep, cur, sot) == CallFresh(c, rep, cur, sot) /\ EditHeld(c, rep, sot)

SyncInv ==
  /\ TypeOK
  /\ Dense(sotLog)
  /\ \A d \in Devices : DeviceOK(replica[d], cursor[d], sotLog)
  /\ \A d \in Devices, s \in Slots :
       CallOK(call[d][s], replica[d], cursor[d], sotLog)

================================================================================
