------------------------------ MODULE RecordSync ------------------------------
(***************************************************************************)
(* Synchronisation of the records of a vault with a remote source of truth: *)
(* src/app/vault/recordservice.go.  A record file keeps its records, a log  *)
(* of their changes and a cursor.  A device holds one file per vault, but   *)
(* has one of them open at a time: SelectVault opens it for the whole       *)
(* service, and every later operation reads and writes that file, whatever  *)
(* vault its caller names.  The name goes to the daemon only.  SelectVault   *)
(* itself works in steps that hand the vault on through the configuration   *)
(* of the local store, and one that fails leaves behind what it did so far. *)
(*                                                                         *)
(* Only remote sources are modelled, and a posted batch is applied as a     *)
(* whole: VaultSync shows what a daemon that applies part of one would do.  *)
(***************************************************************************)
EXTENDS SyncCall

CONSTANTS
  Devices,   \* devices that replicate the same source of truth
  Slots,     \* service calls one device may run at a time (one: a serial caller)
  Vaults,    \* vaults that exist on every device's list
  Creator,   \* Creator[v]: the device that created v, and its record file with it
  Mode,      \* SyncMode of the device's source: "auto" or "manual"
  Careful,   \* devices whose application, once SelectVault failed, calls nothing
             \* else of the service before a SelectVault succeeds
  Promises,  \* what the daemon, not in this repository, promises
  Faults     \* failures that may happen

\* "window": the daemon refuses a batch when the changes after the posted cursor
\*           are not as many as the posted limit;
\* "once":   it keeps the first record file it is given for a vault.
\* "net":    a request to the daemon fails, or is served and its answer lost;
\* "local":  an operation on the record file fails;
\* "crash":  the program stops between two steps.
ASSUME RecordSyncAssumption ==
  /\ None \notin Vaults
  /\ Creator \in [Vaults -> Devices]
  /\ Mode \in [Devices -> {"auto", "manual"}]
  /\ Careful \subseteq Devices
  /\ Promises \subseteq {"window", "once"}
  /\ Faults \subseteq {"net", "local", "crash"}

VARIABLES
  made,      \* made[c]: the change c, or NoChange while c is unused
  sotLog,    \* sotLog[v]: the log of the daemon's record file of v
  sotFiles,  \* the vaults whose record file the daemon holds
  unposted,  \* the vaults whose creation a vault sync of the creator may still post
  files,     \* files[d]: the vaults whose record file d holds
  replica,   \* replica[d][v]: the log of d's record file of v
  cursor,    \* cursor[d][v]: the latest change ID of its sync state
  config,    \* config[d]: the vault the local store is configured for
  open,      \* open[d]: the vault whose file the local store has open
  chosen,    \* chosen[d]: the vault the application last selected
  failed,    \* the devices whose last SelectVault returned an error
  call,      \* call[d][s]: the service call running in slot s of d
  switched,  \* history: devices on which SelectVault overlapped another call
  misled     \* history: devices on which a call began after a SelectVault that failed

vars == <<made, sotLog, sotFiles, unposted, files, replica, cursor, config, open,
          chosen, failed, call, switched, misled>>
shared == <<sotLog, sotFiles, unposted>>
stored == <<files, replica, cursor>>
selection == <<config, open, chosen, failed>>
marks == <<switched, misled>>

--------------------------------------------------------------------------------
Ops == {"append", "update", "delete"}
\* A record is named by the change that appended it.
Change == [op : Ops, record : Ids, vault : Vaults, by : Devices]
NoChange == [op |-> "none"]

\* The records that Local.List shows of a log.
Listed(log) ==
  {x \in InLog(log) :
     /\ made[x].op = "append"
     /\ \A y \in InLog(log) : made[y].op = "delete" => made[y].record # x}

\* The places of SelectVault, and those of the calls that use the open file.
Selecting == {"download", "store", "open", "config"}
Syncing == {"cursor", "local", "count", "fetch", "push", "merge", "advance"}
Pcs == {"idle"} \cup Selecting \cup Syncing
Call == [pc : Pcs, kind : {"sync", "check"}, vault : Vaults \cup {None}, blob : Log,
         start : Ids \cup {None}, from : Vaults \cup {None}, local : SUBSET Ids,
         count : Nat, remote : SUBSET Ids, edit : Ids \cup {None},
         ret : {"none", "ok", "err", "clean", "dirty"}]
NoCall == [pc |-> "idle", kind |-> "sync", vault |-> None, blob |-> EmptyLog,
           start |-> None, from |-> None, local |-> {}, count |-> 0, remote |-> {},
           edit |-> None, ret |-> "none"]

Set(d, s, c) == call' = [call EXCEPT ![d][s] = c]

\* Another call of the device is at one of the places.
Overlaps(d, s, places) == \E t \in Slots \ {s} : call[d][t].pc \in places
Mark(history, d, wrong) == history' = IF wrong THEN history \cup {d} ELSE history

\* The application calls the service for the vault it selected.
Calls(d, s) ==
  /\ call[d][s].pc = "idle"
  /\ chosen[d] # None /\ open[d] # None
  /\ d \in Careful => d \notin failed
  /\ Mark(switched, d, Overlaps(d, s, Selecting))
  /\ Mark(misled, d, d \in failed)
Begin(d, s, kind, edit) ==
  Set(d, s, [NoCall EXCEPT !.pc = "cursor", !.kind = kind, !.vault = chosen[d],
                           !.edit = edit])
Return(d, s, ret) ==
  Set(d, s, [NoCall EXCEPT !.ret = ret,
               !.edit = IF ret = "ok" THEN call[d][s].edit ELSE None])

Init ==
  /\ made = [c \in Ids |-> NoChange]
  /\ sotLog = [v \in Vaults |-> EmptyLog]
  /\ sotFiles = {}
  /\ unposted = Vaults
  /\ files = [d \in Devices |-> {v \in Vaults : Creator[v] = d}]
  /\ replica = [d \in Devices |-> [v \in Vaults |-> EmptyLog]]
  /\ cursor = [d \in Devices |-> [v \in Vaults |-> None]]
  /\ config = [d \in Devices |-> None]
  /\ open = [d \in Devices |-> None]
  /\ chosen = [d \in Devices |-> None]
  /\ failed = {}
  /\ call = [d \in Devices |-> [s \in Slots |-> NoCall]]
  /\ switched = {}
  /\ misled = {}

--------------------------------------------------------------------------------
(* SelectVault.  SetConfig names the vault; GetRecordBlob's answer is kept in the   *)
(* call; StoreBlob and OpenVaultDbFile take no vault, and act on the one the local  *)
(* store is configured for at that moment.                                        *)

\* SetConfig has found the file of v and opened it: SelectVault returns nil.
Selected(d, s, v) ==
  /\ config' = [config EXCEPT ![d] = v]
  /\ open' = [open EXCEPT ![d] = v]
  /\ chosen' = [chosen EXCEPT ![d] = v]
  /\ failed' = failed \ {d}
  /\ Set(d, s, [NoCall EXCEPT !.ret = "ok"])

\* SelectVault returns an error.  The local store stays configured for v, with the file
\* of o open, while the application keeps the vault it had.
Abandoned(d, s, v, o) ==
  /\ config' = [config EXCEPT ![d] = v]
  /\ open' = [open EXCEPT ![d] = o]
  /\ failed' = failed \cup {d}
  /\ Set(d, s, [NoCall EXCEPT !.ret = "err"])
  /\ UNCHANGED chosen

\* What an operation that fails on the file of v may leave open: the file that was
\* open, none, or that of v.
Left(d, v) == {open[d], None} \cup ({v} \cap files[d])

\* Faulty SelectVault: the file is downloaded whether the device holds it or not.
SelectVaultAfresh(d, s, v) ==
  /\ call[d][s].pc = "idle"
  /\ Mark(switched, d, Overlaps(d, s, Selecting \cup Syncing))
  /\ config' = [config EXCEPT ![d] = v]
  /\ Set(d, s, [NoCall EXCEPT !.pc = "download", !.vault = v])
  /\ UNCHANGED <<made, shared, stored, open, chosen, failed, misled>>

\* The first SetConfig opens the file, or finds that the device does not hold it.
SelectVault(d, s, v) ==
  /\ call[d][s].pc = "idle"
  /\ Mark(switched, d, Overlaps(d, s, Selecting \cup Syncing))
  /\ \/ v \in files[d] /\ Selected(d, s, v)
     \/ /\ v \notin files[d]
        /\ config' = [config EXCEPT ![d] = v]
        /\ \E o \in {open[d], None} : open' = [open EXCEPT ![d] = o]
        /\ Set(d, s, [NoCall EXCEPT !.pc = "download", !.vault = v])
        /\ UNCHANGED <<chosen, failed>>
  /\ UNCHANGED <<made, shared, stored, misled>>

\* Faulty SetConfigFails: SelectVault returns nil whatever error is not a missing file.
SetConfigFailsIgnored(d, s, v) ==
  /\ "local" \in Faults
  /\ call[d][s].pc = "idle"
  /\ Mark(switched, d, Overlaps(d, s, Selecting \cup Syncing))
  /\ \E o \in Left(d, v) : open' = [open EXCEPT ![d] = o]
  /\ chosen' = [chosen EXCEPT ![d] = v]
  /\ failed' = failed \ {d}
  /\ Set(d, s, [NoCall EXCEPT !.ret = "ok"])
  /\ UNCHANGED <<made, shared, stored, config, misled>>

\* The first SetConfig fails otherwise.
SetConfigFails(d, s, v) ==
  /\ "local" \in Faults
  /\ call[d][s].pc = "idle"
  /\ Mark(switched, d, Overlaps(d, s, Selecting \cup Syncing))
  /\ \E w \in {config[d], v}, o \in Left(d, v) : Abandoned(d, s, w, o)
  /\ UNCHANGED <<made, shared, stored, misled>>

GetRecordBlob(d, s) ==
  LET v == call[d][s].vault
  IN  /\ call[d][s].pc = "download"
      /\ v \in sotFiles
      /\ Set(d, s, [call[d][s] EXCEPT !.pc = "store", !.blob = sotLog[v]])
      /\ UNCHANGED <<made, shared, stored, selection, marks>>

\* Which of its changes the downloaded file holds to be synchronised depends on the
\* device that uploaded it.
StoreBlob(d, s) ==
  LET v == config[d]
      blob == call[d][s].blob
  IN  /\ call[d][s].pc = "store"
      /\ files' = [files EXCEPT ![d] = @ \cup {v}]
      /\ replica' = [replica EXCEPT ![d][v] = blob]
      /\ \E c \in InLog(blob) \cup {None} : cursor' = [cursor EXCEPT ![d][v] = c]
      /\ Set(d, s, [call[d][s] EXCEPT !.pc = "open", !.blob = EmptyLog])
      /\ UNCHANGED <<made, shared, selection, marks>>

OpenVaultDbFile(d, s) ==
  /\ call[d][s].pc = "open"
  /\ config[d] \in files[d]
  /\ open' = [open EXCEPT ![d] = config[d]]
  /\ Set(d, s, [call[d][s] EXCEPT !.pc = "config"])
  /\ UNCHANGED <<made, shared, stored, config, chosen, failed, marks>>

\* The second SetConfig.
SetConfigAgain(d, s) ==
  /\ call[d][s].pc = "config"
  /\ call[d][s].vault \in files[d]
  /\ Selected(d, s, call[d][s].vault)
  /\ UNCHANGED <<made, shared, stored, marks>>

\* The daemon has no record file of the vault, or the local store does not find the
\* file it is configured for.
SelectFails(d, s) ==
  LET v == call[d][s].vault
  IN  /\ \/ /\ call[d][s].pc = "download" /\ v \notin sotFiles
            /\ Abandoned(d, s, config[d], open[d])
         \/ /\ call[d][s].pc = "open" /\ config[d] \notin files[d]
            /\ \E o \in {open[d], None} : Abandoned(d, s, config[d], o)
         \/ /\ call[d][s].pc = "config" /\ v \notin files[d]
            /\ \E o \in {open[d], None} : Abandoned(d, s, v, o)
      /\ UNCHANGED <<made, shared, stored, marks>>

--------------------------------------------------------------------------------
(* Edits of the open file: in auto mode SyncRecord follows in the same call. *)

Edit(d, s, c, op, r) ==
  /\ Calls(d, s)
  /\ made[c] = NoChange
  /\ made' = [made EXCEPT ![c] = [op |-> op, record |-> r, vault |-> chosen[d],
                                  by |-> d]]
  /\ replica' = [replica EXCEPT ![d][open[d]] = Extend(@, {c}, EmptyLog)]
  /\ IF Mode[d] = "auto"
     THEN Begin(d, s, "sync", c)
     ELSE Set(d, s, [NoCall EXCEPT !.ret = "ok"])
  /\ UNCHANGED <<shared, files, cursor, selection>>

AppendRecord(d, s, c) == Edit(d, s, c, "append", c)

UpdateRecord(d, s, c) ==
  /\ open[d] # None
  /\ \E r \in Listed(replica[d][open[d]]) : Edit(d, s, c, "update", r)

DeleteRecord(d, s, c) ==
  /\ open[d] # None
  /\ \E r \in Listed(replica[d][open[d]]) : Edit(d, s, c, "delete", r)

--------------------------------------------------------------------------------
(* ListRecord and SyncRecord *)

StartSync(d, s) ==
  /\ Calls(d, s)
  /\ Begin(d, s, "sync", None)
  /\ UNCHANGED <<made, shared, stored, selection>>

\* When the client holds the daemon to be unreachable ListRecord only shows the
\* open file: there is no such step here.
ListRecord(d, s) ==
  /\ Calls(d, s)
  /\ Begin(d, s, IF Mode[d] = "auto" THEN "sync" ELSE "check", None)
  /\ UNCHANGED <<made, shared, stored, selection>>

ReadCursor(d, s) ==
  /\ call[d][s].pc = "cursor"
  /\ open[d] # None
  /\ Set(d, s, [call[d][s] EXCEPT !.pc = "local", !.start = cursor[d][open[d]]])
  /\ UNCHANGED <<made, shared, stored, selection, marks>>

\* Faulty ReadLocal: the limit is one short.
ReadLocalShort(d, s) ==
  LET pending == After(replica[d][open[d]], call[d][s].start)
  IN  /\ call[d][s].pc = "local" /\ open[d] # None
      /\ Set(d, s, [call[d][s] EXCEPT !.pc = "count", !.from = open[d],
                      !.local = FirstAfter(replica[d][open[d]], call[d][s].start,
                                           Cardinality(pending) - 1)])
      /\ UNCHANGED <<made, shared, stored, selection, marks>>

ReadLocal(d, s) ==
  /\ call[d][s].pc = "local"
  /\ open[d] # None
  /\ Set(d, s, [call[d][s] EXCEPT !.pc = "count", !.from = open[d],
                  !.local = After(replica[d][open[d]], call[d][s].start)])
  /\ UNCHANGED <<made, shared, stored, selection, marks>>

\* Faulty CountRemote: a check looks at the daemon only.
CountRemoteOnly(d, s) ==
  LET c == call[d][s]
      n == Cardinality(After(sotLog[c.vault], c.start))
  IN  /\ c.pc = "count"
      /\ c.vault \in sotFiles
      /\ IF c.kind = "check"
         THEN Return(d, s, IF n = 0 THEN "clean" ELSE "dirty")
         ELSE Set(d, s, [c EXCEPT !.count = n,
                                  !.pc = IF n = 0 THEN "push" ELSE "fetch"])
      /\ UNCHANGED <<made, shared, stored, selection, marks>>

\* Faulty CountRemote: the local changes are taken off the total.
CountRemoteNet(d, s) ==
  LET c == call[d][s]
      n == Cardinality(After(sotLog[c.vault], c.start)) - Cardinality(c.local)
  IN  /\ c.pc = "count"
      /\ c.vault \in sotFiles
      /\ IF c.kind = "check"
         THEN Return(d, s, IF c.local = {} /\ n = 0 THEN "clean" ELSE "dirty")
         ELSE Set(d, s, [c EXCEPT !.count = n,
                                  !.pc = IF n = 0 THEN "push" ELSE "fetch"])
      /\ UNCHANGED <<made, shared, stored, selection, marks>>

\* A check ends here, with the sum of the two counts.
CountRemote(d, s) ==
  LET c == call[d][s]
      n == Cardinality(After(sotLog[c.vault], c.start))
  IN  /\ c.pc = "count"
      /\ c.vault \in sotFiles
      /\ IF c.kind = "check"
         THEN Return(d, s, IF c.local = {} /\ n = 0 THEN "clean" ELSE "dirty")
         ELSE Set(d, s, [c EXCEPT !.count = n,
                                  !.pc = IF n = 0 THEN "push" ELSE "fetch"])
      /\ UNCHANGED <<made, shared, stored, selection, marks>>

FetchRemote(d, s) ==
  LET c == call[d][s]
  IN  /\ c.pc = "fetch"
      /\ Set(d, s, [c EXCEPT !.pc = "push",
                      !.remote = FirstAfter(sotLog[c.vault], c.start, c.count)])
      /\ UNCHANGED <<made, shared, stored, selection, marks>>

Admits(c) ==
  "window" \in Promises => Cardinality(After(sotLog[c.vault], c.start)) = c.count
Apply(d, c) ==
  sotLog' = [sotLog EXCEPT ![c.vault] = Extend(@, c.local, replica[d][c.from])]

\* SyncRecords posts even when there is nothing to send.
Push(d, s) ==
  LET c == call[d][s]
  IN  /\ c.pc = "push"
      /\ Admits(c)
      /\ Apply(d, c)
      /\ Set(d, s, [c EXCEPT !.pc = "merge"])
      /\ UNCHANGED <<made, sotFiles, unposted, stored, selection, marks>>

\* Faulty PushRefused: the error is dropped, and the sync goes on.
PushRefusedIgnored(d, s) ==
  /\ call[d][s].pc = "push"
  /\ ~Admits(call[d][s])
  /\ Set(d, s, [call[d][s] EXCEPT !.pc = "merge"])
  /\ UNCHANGED <<made, shared, stored, selection, marks>>

\* Faulty PushRefused: the same batch is posted again, with the same limit.
PushRefusedRetried(d, s) ==
  /\ call[d][s].pc = "push"
  /\ ~Admits(call[d][s])
  /\ UNCHANGED vars

PushRefused(d, s) ==
  /\ call[d][s].pc = "push"
  /\ ~Admits(call[d][s])
  /\ Return(d, s, "err")
  /\ UNCHANGED <<made, shared, stored, selection, marks>>

PushAnswerLost(d, s) ==
  /\ "net" \in Faults
  /\ call[d][s].pc = "push"
  /\ Admits(call[d][s])
  /\ Apply(d, call[d][s])
  /\ Return(d, s, "err")
  /\ UNCHANGED <<made, sotFiles, unposted, stored, selection, marks>>

\* SyncOnReplica, into the file that is open now.  The store may append the
\* client's changes to the pending ones or put them before.
Appended(log, c, ord) == Extend(log, c.remote, ord)
Rebased(log, c, ord) ==
  Extend(Extend(Only(log, Ids \ c.local), c.remote, ord), c.local, log)

Merge(d, s) ==
  LET c == call[d][s]
      log == replica[d][open[d]]
      ord == sotLog[c.vault]
  IN  /\ c.pc = "merge" /\ open[d] # None
      /\ \E new \in {Appended(log, c, ord), Rebased(log, c, ord)} :
           replica' = [replica EXCEPT ![d][open[d]] = new]
      /\ Set(d, s, [c EXCEPT !.pc = "advance"])
      /\ UNCHANGED <<made, shared, files, cursor, selection, marks>>

\* SetSyncStateToBeLatest: the cursor becomes the last row of the open file.
Advance(d, s) ==
  LET log == replica[d][open[d]]
  IN  /\ call[d][s].pc = "advance" /\ open[d] # None
      /\ \/ InLog(log) = {} /\ UNCHANGED cursor
         \/ \E last \in InLog(log) :
              /\ After(log, last) = {}
              /\ cursor' = [cursor EXCEPT ![d][open[d]] = last]
      /\ Return(d, s, "ok")
      /\ UNCHANGED <<made, shared, files, replica, selection, marks>>

--------------------------------------------------------------------------------
(* Failures *)

\* The daemon has no record file of the vault.
UnknownVault(d, s) ==
  /\ call[d][s].pc = "count"
  /\ call[d][s].vault \notin sotFiles
  /\ Return(d, s, "err")
  /\ UNCHANGED <<made, shared, stored, selection, marks>>

\* A SelectVault that failed under the call has left no file open.
NotOpen(d, s) ==
  /\ call[d][s].pc \in {"cursor", "local", "merge", "advance"}
  /\ open[d] = None
  /\ Return(d, s, "err")
  /\ UNCHANGED <<made, shared, stored, selection, marks>>

FaultAt(pc) ==
  IF pc \in {"download", "count", "fetch", "push"} THEN "net" ELSE "local"

\* Faulty Fail: an error of the POST does not end the sync.
FailPushIgnored(d, s) ==
  /\ call[d][s].pc \in Syncing
  /\ FaultAt(call[d][s].pc) \in Faults
  /\ IF call[d][s].pc = "push" THEN Set(d, s, [call[d][s] EXCEPT !.pc = "merge"])
     ELSE Return(d, s, "err")
  /\ UNCHANGED <<made, shared, stored, selection, marks>>

\* The operation the call is about to make fails without effect, and every
\* function on the way returns its error.
Fail(d, s) ==
  /\ call[d][s].pc \in Syncing
  /\ FaultAt(call[d][s].pc) \in Faults
  /\ Return(d, s, "err")
  /\ UNCHANGED <<made, shared, stored, selection, marks>>

\* An operation of SelectVault fails.  A failed request or StoreBlob has no effect on
\* the selection; OpenVaultDbFile and SetConfig may have done part of their work.
SelectFault(d, s) ==
  LET v == call[d][s].vault
      pc == call[d][s].pc
  IN  /\ pc \in Selecting
      /\ FaultAt(pc) \in Faults
      /\ \/ pc \in {"download", "store"} /\ Abandoned(d, s, config[d], open[d])
         \/ pc = "open" /\ \E o \in Left(d, config[d]) : Abandoned(d, s, config[d], o)
         \/ /\ pc = "config"
            /\ \E w \in {config[d], v}, o \in Left(d, v) : Abandoned(d, s, w, o)
      /\ UNCHANGED <<made, shared, stored, marks>>

\* The program stops and is started again: no file is open, no vault selected.
Crash(d) ==
  /\ "crash" \in Faults
  /\ \E s \in Slots : call[d][s].pc # "idle"
  /\ call' = [call EXCEPT ![d] = [s \in Slots |-> NoCall]]
  /\ config' = [config EXCEPT ![d] = None]
  /\ open' = [open EXCEPT ![d] = None]
  /\ chosen' = [chosen EXCEPT ![d] = None]
  /\ failed' = failed \ {d}
  /\ UNCHANGED <<made, shared, stored, marks>>

\* A vault sync of the creator uploads the record file (VaultSync!UploadBlob).  As
\* long as its answer is lost, or a later step of that sync fails, the next vault
\* sync posts the creation again and uploads the file as it then is.
PostBlob(d, v, lost) ==
  /\ Creator[v] = d
  /\ v \in unposted
  /\ lost => Faults # {}
  /\ sotFiles' = sotFiles \cup {v}
  /\ sotLog' = IF "once" \in Promises /\ v \in sotFiles THEN sotLog
               ELSE [sotLog EXCEPT ![v] = replica[d][v]]
  /\ unposted' = IF lost THEN unposted ELSE unposted \ {v}
  /\ UNCHANGED <<made, stored, selection, call, marks>>

--------------------------------------------------------------------------------
\* A step of a call whose requests and store operations succeed.
CallStep(d, s) ==
  \/ GetRecordBlob(d, s) \/ StoreBlob(d, s) \/ OpenVaultDbFile(d, s)
  \/ SetConfigAgain(d, s) \/ SelectFails(d, s)
  \/ UnknownVault(d, s) \/ NotOpen(d, s)
  \/ ReadCursor(d, s) \/ ReadLocal(d, s)
  \/ CountRemote(d, s) \/ FetchRemote(d, s)
  \/ Push(d, s) \/ PushRefused(d, s)
  \/ Merge(d, s) \/ Advance(d, s)

FaultStep(d, s) ==
  \/ PushAnswerLost(d, s) \/ Fail(d, s) \/ SelectFault(d, s)
  \/ \E v \in Vaults : SetConfigFails(d, s, v)

Next ==
  \E d \in Devices :
    \/ \E s \in Slots :
         \/ \E v \in Vaults : SelectVault(d, s, v)
         \/ \E c \in Ids :
              AppendRecord(d, s, c) \/ UpdateRecord(d, s, c) \/ DeleteRecord(d, s, c)
         \/ StartSync(d, s) \/ ListRecord(d, s)
         \/ CallStep(d, s) \/ FaultStep(d, s)
    \/ Crash(d)
    \/ \E v \in Vaults, lost \in BOOLEAN : PostBlob(d, v, lost)

Spec == Init /\ [][Next]_vars

\* A call that started goes on, the application syncs the selected vault again and
\* again, the creation of every vault reaches the daemon, and from some time on
\* nothing fails.
Fairness ==
  /\ \A d \in Devices, s \in Slots :
       /\ WF_vars(CallStep(d, s))
       /\ SF_vars(StartSync(d, s))
  /\ \A v \in Vaults : WF_vars(PostBlob(Creator[v], v, FALSE))
  /\ <>[][\A d \in Devices : ~Crash(d) /\ \A s \in Slots : ~FaultStep(d, s)]_vars

FairSpec == Spec /\ Fairness

--------------------------------------------------------------------------------
(* Properties *)

\* The state has its shape.
TypeOK ==
  /\ made \in [Ids -> Change \cup {NoChange}]
  /\ sotLog \in [Vaults -> Log]
  /\ sotFiles \subseteq Vaults
  /\ unposted \subseteq Vaults
  /\ files \in [Devices -> SUBSET Vaults]
  /\ replica \in [Devices -> [Vaults -> Log]]
  /\ cursor \in [Devices -> [Vaults -> Ids \cup {None}]]
  /\ config \in [Devices -> Vaults \cup {None}]
  /\ open \in [Devices -> Vaults \cup {None}]
  /\ chosen \in [Devices -> Vaults \cup {None}]
  /\ failed \subseteq Devices
  /\ call \in [Devices -> [Slots -> Call]]
  /\ switched \subseteq Devices
  /\ misled \subseteq Devices

\* A local change of a record that lies behind the cursor is never sent again, so
\* the daemon must hold it; a change of the daemon that lies behind it is never
\* fetched again, so the file must hold it (SyncRecord looks only after the cursor).
NothingSkipped ==
  \A d \in Devices :
    \A v \in files[d] :
      /\ Behind(replica[d][v], cursor[d][v]) \subseteq InLog(sotLog[v])
      /\ Behind(sotLog[v], cursor[d][v]) \subseteq InLog(replica[d][v])

\* The daemon never holds an update or a deletion before the record it is about,
\* and no file of a device shows one out of order.
Causal(log) ==
  \A x \in InLog(log) :
    LET r == made[x].record
    IN  r # x => log[r] > 0 /\ log[r] < log[x]
CausalOrder ==
  \A v \in Vaults :
    /\ Causal(sotLog[v])
    /\ \A d \in Devices : Causal(replica[d][v])

\* An edit in auto mode returns nil only when its change is at the daemon.
AutoEditAcked ==
  \A d \in Devices, s \in Slots :
    LET c == call[d][s]
    IN  c.ret = "ok" /\ c.edit # None => c.edit \in InLog(sotLog[made[c.edit].vault])

\* ListRecord in manual mode finds nothing to sync only when file and daemon hold
\* the same changes at the moment the daemon is asked.
ManualCheckSound ==
  [][\A d \in Devices, s \in Slots :
       call[d][s].pc = "count" /\ call'[d][s].pc = "idle" /\ call'[d][s].ret = "clean"
         => InLog(replica[d][open[d]]) = InLog(sotLog[call[d][s].vault])]_vars

\* Records reach another vault's file, on a device or at the daemon, only after on
\* some device SelectVault overlapped another call, or the application went on after
\* a SelectVault that failed: every call uses the file that is open and tells the
\* daemon the vault it was given, and SelectVault stores what it downloaded wherever
\* the local store is configured to at that moment.
RecordsStayInVault ==
  switched = {} /\ misled = {} =>
    \A v \in Vaults :
      /\ \A x \in InLog(sotLog[v]) : made[x].vault = v
      /\ \A d \in Devices : \A x \in InLog(replica[d][v]) : made[x].vault = v

\* When edits have ended, the file of a vault that was selected without an error comes
\* to hold what the daemon holds, and nothing is left to send.
Converges ==
  <>[](\A d \in Devices :
         LET v == chosen[d]
         IN  v # None /\ d \notin failed => InLog(replica[d][v]) = InLog(sotLog[v]))

\* Every step is one of RecordReplication or leaves its state alone: whatever the
\* calls and uploads of other devices do between its requests, a file only ever moves
\* from one state of the daemon's to a later one, a change stays in the vault it was
\* made in, and no download is put in the place of a file with changes of its own.
Held == [d \in Devices |-> [v \in Vaults |-> InLog(replica[d][v])]]
Confirmed ==
  [d \in Devices |-> [v \in Vaults |-> Behind(replica[d][v], cursor[d][v])]]
Abstract == INSTANCE RecordReplication
  WITH history <- sotLog, held <- Held, confirmed <- Confirmed
Replicates == Abstract!Spec

--------------------------------------------------------------------------------
(* The inductive invariants behind TypeOK and RecordsStayInVault (see            *)
(* RecordSyncProofs).                                                           *)

\* A call knows its vault, one of SelectVault has configured the local store, and one
\* that has read the local changes knows from which file.
CallInv ==
  \A d \in Devices, s \in Slots :
    /\ call[d][s].pc # "idle" => call[d][s].vault \in Vaults
    /\ call[d][s].pc \in Selecting => config[d] \in Vaults
    /\ call[d][s].pc \in Syncing \ {"cursor", "local"} => call[d][s].from \in Vaults

ShapeInv == TypeOK /\ CallInv

\* All changes of S are changes of vault v.
Within(S, v) == \A x \in S : made[x] \in Change /\ made[x].vault = v

LogsWithin ==
  \A v \in Vaults :
    /\ Within(InLog(sotLog[v]), v)
    /\ \A d \in Devices : Within(InLog(replica[d][v]), v)

\* A call that syncs works on the open file, and what it holds belongs to its vault;
\* so does what SelectVault has downloaded, and the local store is configured for it.
CallWithin(d, c) ==
  /\ c.pc \in Syncing => c.vault = open[d] /\ Within(c.local \cup c.remote, open[d])
  /\ c.pc \in {"download", "store"} => config[d] = c.vault
  /\ c.pc = "store" => Within(InLog(c.blob), c.vault)

\* SelectVault runs alone on its device, and when it is over without an error the
\* open file is that of the vault the application takes it to be.
SelectsAlone(d) ==
  \A s, t \in Slots : call[d][s].pc \in Selecting /\ t # s => call[d][t].pc = "idle"
OpenAsChosen(d) ==
  d \in failed \/ chosen[d] = open[d] \/ \E s \in Slots : call[d][s].pc \in Selecting

\* As long as SelectVault overlaps no other call, and no call follows one that failed.
VaultInv ==
  switched = {} /\ misled = {} =>
    /\ LogsWithin
    /\ \A d \in Devices :
         /\ SelectsAlone(d) /\ OpenAsChosen(d)
         /\ \A s \in Slots : CallWithin(d, call[d][s])

--------------------------------------------------------------------------------
(* The inductive invariant behind the other safety properties, for callers that *)
(* make one call at a time (see SyncCall and RecordSyncProofs) and select a     *)
(* vault anew when SelectVault fails.                                           *)

SerialCalls == \A s, t \in Slots : s = t

\* Every record file of a device is in order with the daemon's, the open one and
\* those that are closed; a file the daemon does not hold has no changes there.
LogsOK ==
  \A v \in Vaults :
    /\ Dense(sotLog[v])
    /\ v \notin sotFiles => InLog(sotLog[v]) = {}
    /\ \A d \in Devices : DeviceOK(replica[d][v], cursor[d][v], sotLog[v])

\* What was downloaded is a beginning of the daemon's log, whatever came after.
BlobOK(c) ==
  c.pc = "store" =>
    /\ c.vault \in sotFiles
    /\ Dense(c.blob) /\ Settled(InLog(c.blob), sotLog[c.vault])
    /\ \A x \in InLog(c.blob) : c.blob[x] = sotLog[c.vault][x]

\* A call that syncs works on the open file from first to last, and goes beyond the
\* count only when the daemon holds that file.
CallOK(d, c) ==
  c.pc \in Syncing =>
    /\ CallFresh(c, replica[d][open[d]], cursor[d][open[d]], sotLog[open[d]])
    /\ c.pc \notin {"cursor", "local"} => c.from = open[d]
    /\ c.pc \in {"fetch", "push", "merge", "advance"} => open[d] \in sotFiles

\* The edit a call belongs to is in the open file, and at the daemon once it returns.
EditHeld(d, c) ==
  /\ c.pc \in Syncing => c.ret = "none"
  /\ c.edit # None =>
       /\ made[c.edit] \in Change
       /\ IF c.pc \in Syncing
          THEN made[c.edit].vault = open[d] /\ c.edit \in InLog(replica[d][open[d]])
          ELSE c.edit \in InLog(sotLog[made[c.edit].vault])

CallsOK ==
  \A d \in Devices, s \in Slots : CallOK(d, call[d][s]) /\ EditHeld(d, call[d][s])
BlobsOK == \A d \in Devices, s \in Slots : BlobOK(call[d][s])

\* A device has changes only in files it holds.  The file that is open is one of
\* them; one a call is about to download or to store is not.
FilesOK ==
  /\ \A d \in Devices, v \in Vaults : v \notin files[d] => InLog(replica[d][v]) = {}
  /\ \A d \in Devices : open[d] # None => open[d] \in files[d]
  /\ \A d \in Devices, s \in Slots :
       call[d][s].pc \in {"download", "store"} => call[d][s].vault \notin files[d]

SyncInv ==
  /\ ShapeInv /\ VaultInv /\ switched = {} /\ misled = {}
  /\ LogsOK /\ CallsOK /\ BlobsOK

================================================================================
