# tacenva-services: TLA+ models, checks and proofs

tacenva-services is the Go library behind the clients of a tacpass daemon. It keeps
encrypted vaults of records on a device, copies of vaults whose *source of truth*
(SoT) is a remote daemon, the list of those sources, and the HTTPS client and the
network discovery that reach them. This directory holds TLA+ modules for the parts
of it that have states to get wrong, the TLC configurations that check them on
small instances, and TLAPS proofs of their main properties. Paths below are
relative to the repository.

## 1. The system

| Component | Source | State it keeps | Operations |
|---|---|---|---|
| Vault synchronisation | `app/vault/service.go` | replica of the vault list with its change log (file `vault` of a source), sync state (the *cursor*), one record file per vault | `List`, `SyncVault`, `CreateVault`, `UpdateVault`, `DeleteVault`, `GetWrappedVaultKey` |
| Record synchronisation | `app/vault/recordservice.go` | the one record file that `SelectVault` opened, its change log and cursor | `SelectVault`, `ListRecord`, `AppendRecord`, `UpdateRecord`, `DeleteRecord`, `SyncRecord` |
| HTTPS client | `api/client.go`, `doRaw` of `api/vault.go`, `app/health/service.go` | TLS configuration and cached `http.Client` per address, session token, reachability flag | `ConfigureTLS`, `ConfigureDialAddress`, `ClearTLS`, `SetToken`, `do`, `doPublic`, `doRaw`, `CheckReachability` |
| Source of truth registry | `app/sourceoftruth/service.go`, `entity/sourceoftruth.go` | the encrypted file of sources | `Access`, `Initialize`, `Create`, `Update`, `ResetTLSFingerprint`, `Delete`, `CheckStatus` |
| Password change | `app/sourceoftruth/service.go:120` | the password of that file and of each source's vault file | `ChangePassword` |
| Access control | `app/accesscontrol/service.go`, `api/accesscontrol.go` | none of its own: units and groups at the daemon, a copy in the local store | assignment, approval and key distribution |
| VPN discovery | `internal/discovery/vpn` | goroutines, a job channel per subnet, one result channel | `Discover` |
| mDNS discovery | `internal/discovery/mdns` | one result channel | `Discover` |
| Discovery merge | `app/server/service.go` | two goroutines, two result slots | `Discover` |
| Wiring | `app/setup.go`, `app/dependencies.go` | the configuration | `Setup` |

How they interact: the vault services ask the client for the daemon's changes and
post their own; the registry configures the client's trust and is called back by it
(`OnFirstTrust`) when a server shows a new key; `CheckStatus` copies what the daemon
says of this device into the registry and hands group members to access control;
the record service works on a vault the vault service listed, and reads its cursor
from that vault. The database, the keyring and the daemon are libraries outside the
repository (`tacenva/database`, `tacenva-core`, `tacpass-core`).

What is hard here:

* no service takes a lock or a transaction: `SyncVault` makes up to a dozen store
  operations and requests, and other devices, other calls and a crash come between
  any two of them;
* every error is returned at once and nothing is undone, so each prefix of each
  operation is a state the next call must cope with;
* a POST may be applied and its answer lost;
* the client is shared by every goroutine, guards its maps but not its token, and
  has one reachability flag for all servers;
* trust on first use depends on who keeps the key that was seen;
* discovery starts its collector after it has fed its workers.

The properties each component owes its users, before any model:

* **Vault synchronisation**: no change is lost on either side (what lies behind the
  cursor has been exchanged); records of a created vault reach the daemon; an edit
  that returned nil is at the daemon; syncs that fail can be repeated; when edits
  stop, replicas converge.
* **HTTPS client**: no request is served under a trust configuration the caller has
  replaced; no key answers that the caller has neither pinned nor seen; the
  reachability flag says the truth once things are quiet.
* **Registry**: a stored fingerprint is the one last trusted for its source; the group of a record,
  its key and its members belong together; a deleted source leaves nothing behind.
* **Password change**: the registry and the vault files carry one password, or a
  repeated call can bring them back to one.
* **Record synchronisation**: as for vaults, and records stay in their vault, in an
  order in which no change precedes the record it is about.
* **VPN discovery**: it ends by its deadline, asks every host it has time for, and
  lists every server whose answer came in time.

`PROJECT.json` lists the hazards line by line, each with the properties that would
show it going wrong or the reason why none does.

## 2. Modules

| Module | Contents |
|---|---|
| `ChangeLog` | change logs, cursors and what they cut off: a pure data type |
| `SyncCall` | what holds of a log and of the call that synchronises it, place by place: the parts both invariants are built from |
| `ChangeLogProofs` | lemmas about both |
| `VaultSync` | vault synchronisation: devices, the daemon, failures, crashes |
| `VaultReplication` | what vault synchronisation promises, without its calls: the abstract specification |
| `VaultSyncProofs` | theorems about `VaultSync` |
| `VaultRefinementProofs` | `VaultSync` implements `VaultReplication`; theorems about record files |
| `MCVaultSync` | instances for TLC |
| `RecordSync` | record synchronisation: the open file, two calls at a time, repeated uploads of a file |
| `RecordReplication` | what record synchronisation promises, without its calls: the abstract specification |
| `RecordSyncProofs` | theorems about `RecordSync`; it implements `RecordReplication` |
| `MCRecordSync` | instances for TLC |
| `ApiClient` | the HTTPS client, trust on first use, the reachability flag |
| `ApiClientProofs` | its theorems |
| `MCApiClient` | instances for TLC |
| `SotRegistry` | the registry of sources, the copies callers hold of its records, and the trust callbacks |
| `SotRegistryProofs` | its theorems |
| `MCSotRegistry` | an instance for TLC |
| `SotPassword` | the password of the registry's file and of the vault files |
| `SotPasswordProofs` | its theorems |
| `MCSotPassword` | an instance for TLC |
| `VpnDiscovery` | the worker pool of the VPN discovery, its channels and its deadline |
| `VpnDiscoveryProofs` | its theorems |
| `MCVpnDiscovery` | an instance for TLC |
| `SubnetHosts` | the hosts of a subnet, a pure function, and its definition; extended by `VpnDiscovery` |

`ChangeLog` and `SyncCall` are shared by `VaultSync` and `RecordSync`, `ChangeLogProofs`
by the proofs about them. The modules meet where the code does: `RecordSync!PostBlob` is
`VaultSync!UploadBlob` seen from the record file, `VaultSync!DownloadBlob` is
`RecordSync!GetRecordBlob` and `StoreBlob` seen from the list of vaults, and the `Hosts` of
`VpnDiscovery` are results of `SubnetHosts!HostsOf`. `SotRegistry` composes the
registry with the part of the client that matters to it: the configuration of an
address, its open connection, and the call back when one is opened (in `ApiClient`:
`tls`, `conn` of `built`, `reports`).

### 2.1 VaultSync

A change is an identifier; `made` says what it is (create, update or delete of a
vault, and the device that made it). A log maps every identifier to the number of
its row, 0 for none, so that a change keeps its identity wherever the logs put it.
Each device has a `replica` log, a `cursor` and the record `files` it holds; the
daemon has `sotLog` and `sotBlobs`. `call[d][s]` is a service call, its program
counter and its local variables.

| Code | Action |
|---|---|
| `CreateVault`, `UpdateVault`, `DeleteVault` | the action of the same name; in auto mode it goes on as a sync of the same call |
| `List` | `List`: a sync in auto mode, a check in manual mode |
| `GetSyncState` at the head of `SyncVault` | `ReadCursor` |
| `getLocalVaultChanges` | `ReadLocal` |
| `getClientVaultChanges`: the total with limit 0 (`GetVaultChanges`) | `CountRemote` |
| the same, with the total as the limit | `FetchRemote` |
| `PublicKeyOfGroups`, `Seal` | `SealKeys` |
| `PostVaultChanges` | `Push`, `PushRefused`, `PushAnswerLost` |
| `GetRecordBlob`, `PostVaultBlob` | `UploadBlob`, `BlobMissing`, `UploadAnswerLost` |
| `Replica.Sync` | `Merge` |
| `SetSyncStateToBeLatest` | `Advance` |
| any operation that returns an error | `Fail` |
| the process ends | `Crash` |
| `SelectVault` downloading a record file | `DownloadBlob` |

The daemon and the store are not in the repository. What the code relies on is made
explicit in the constant `Promises`, and each member is there because something
breaks without it:

| Promise | Without it |
|---|---|
| `"all"`: a batch is applied entirely or not at all | the unapplied rest moves behind the cursor unsent (`NothingUnsentBehindCursor`) |
| `"window"`: the daemon refuses a batch when more changes follow the posted cursor than the client counted | a change another device posts between fetch and POST falls behind the cursor unseen (`NothingUnseenBehindCursor`) |
| `"known"`: the answer lists the creations of an earlier attempt too | after a lost answer the retry uploads nothing and the vault stays without records at the daemon (`BlobBeforeCursor`) |
| `"keep"`: deleting a vault leaves its record file | a vault created and deleted before its first sync ends every later sync at `GetRecordBlob` (`PendingCreatesUploadable`) |

That the POST carries cursor and limit (`app/vault/service.go:363`) is the evidence
for `"window"`; nothing in this repository confirms or refutes the others, and the
runs and theorems name those they use.

Two limits of the protocol appeared while modelling, and are stated by the runs
rather than as findings:

* Overlapping calls of one device can lose a change: an edit made between
  `getLocalVaultChanges` and `SetSyncStateToBeLatest` of another call is put behind
  the cursor by that call, unsent. `OverlapLosesOnlyRaced` says this is the only way.
* A sync cut between `Replica.Sync` and `SetSyncStateToBeLatest` leaves merged
  changes of others pending. If the daemon lists them as created (`"known"`),
  `GetRecordBlob` fails for vaults whose file was never downloaded, and so does every
  later sync until `SelectVault` downloads it; if it does not list them, the retry
  converges, but creations retried after a lost answer are never uploaded. No single
  answer of the daemon makes both safe. `PendingCreatesUploadable` excludes such a
  device (`torn`), and `recover` checks convergence without `"known"`.

`VaultReplication` states what a reader of the interface may rely on: the source of
truth has one history that only grows; a device holds its own edits and an initial
segment of that history, never one with holes, and never loses a change; what it has
*confirmed* (the changes behind its cursor) is an initial segment and held. It has no
requests, counts, keys or failures. `VaultSync!Replicates` is `VaultReplication!Spec`
with `history <- sotLog`, `held[d]` the changes in the replica of `d` and `confirmed[d]`
those behind its cursor. `Push` is `Post`, `Merge` is `Receive`, `Advance` is `Confirm`,
`Edit` is `Make`; everything else, every failure and crash included, is a stutter.

### 2.2 RecordSync

The records of a vault live in a file of their own with a log and a cursor, and the
record service has one file open at a time (`open[d]`): `SelectVault` opens it, and
everything after reads and writes it. The vault a caller names (`call[d][s].vault`)
is only told to the daemon. `chosen[d]` is the vault the application last selected
without an error, `config[d]` the one the local store is configured for, and `failed`
the devices whose last `SelectVault` returned an error.

| Code | Action |
|---|---|
| `SelectVault`: the first `SetConfig` | `SelectVault`, which ends the call when the file is there and goes on when it is missing; `SetConfigFails` for any other error |
| ... `GetRecordBlob`, `StoreBlob`, `OpenVaultDbFile`, the second `SetConfig` | `GetRecordBlob`, `StoreBlob`, `OpenVaultDbFile`, `SetConfigAgain`; `SelectFails` (the daemon has no such file, the store does not find it), `SelectFault` (any other error) |
| `AppendRecord`, `UpdateRecord`, `DeleteRecord` | the action of the same name; in auto mode it goes on as a sync |
| `ListRecord` | `ListRecord`: a sync in auto mode, a check in manual mode |
| `GetSyncLatestChangeId` | `ReadCursor` |
| `getLocalRecordChanges` | `ReadLocal` |
| `GetRecordChangesCount`, `GetRecordChanges` | `CountRemote`, `FetchRemote`, or `UnknownVault` |
| any operation on the file when none is open | `NotOpen` |
| `Client.SyncRecords` | `Push`, `PushRefused`, `PushAnswerLost` |
| `SyncOnReplica`, `SetSyncStateToBeLatest` | `Merge`, `Advance` |
| `StoreRecordBlob` in `SyncVault` (`app/vault/service.go:373`) | `PostBlob` |
| any operation that returns an error; the process ends | `Fail`; `Crash` |

A vault sync whose POST or upload failed posts the creation again and uploads the
record file again, as it is then (`PostBlob` while `v \in unposted`). What the code
relies on at the daemon is again a constant:

| Promise | Without it |
|---|---|
| `"window"`: as in `VaultSync` | a record another device posts between count and POST falls behind the cursor unseen (`NothingSkipped`) |
| `"once"`: the daemon keeps the first record file it is given for a vault | an upload repeated after a lost answer replaces the daemon's file, and records other devices posted in between are lost while their cursors say they were sent (`NothingSkipped`) |

`StoreBlob` and `OpenVaultDbFile` (`app/vault/recordservice.go:464, 469`) take no vault:
they act on the one the local store is configured for at that moment, which is the one
of the last `SetConfig`, the failing one at line 431 included. What a failed `SelectVault`
did is not undone: the store stays configured for the new vault, with the old file open,
none, or the new one (`Left`: `OpenVaultDbFile` succeeds and the `SetConfig` at line 474
fails), while the application, which was told of an error, keeps the vault it had. From
this follow two limits of the service, each with a history variable:

* `switched`: `SelectVault` ran while another call of the device was under way. That
  call goes on in the file of one vault and talks to the daemon about another's; if it is
  a `SelectVault` too, one stores what it downloaded as the file of the other's vault.
* `misled`: the application made a call after a `SelectVault` that failed, for the vault
  it believes selected. The call works on whatever file is open.

`RecordsStayInVault` says that these are the only ways records of one vault reach
another's file; in `records_switch` both happen. The other properties are
about applications that do neither: `Careful` is the set of devices on which a failed
`SelectVault` is followed by nothing but another `SelectVault`, until one succeeds.

`RecordReplication` is to `RecordSync` what `VaultReplication` is to `VaultSync`, with a
history for every vault and devices that join one later: a change is made in one vault
and stays there, and a device takes a whole history at once (`Join`), never over changes
of its own. `RecordSync!Replicates` maps the daemon's record files to `history`, a
device's files to `held` and what is behind their cursors to `confirmed`. An edit is
`Make`; an admitted `Push`, and the first upload of a file (`PostBlob`), is `Post`;
`Merge` is `Receive`, `Advance` is `Confirm`, `StoreBlob` is `Join`; all else is a stutter.

A third limit follows from the steps of `SelectVault`: it finds the file missing at
`SetConfig` and stores the downloaded one after `GetRecordBlob`. Two calls at once for
one missing file both store it, and an edit made after the first has opened it is gone
after the second. `Replicates` says that this does not happen to a caller that makes one
call at a time (`FilesOK`: a file about to be downloaded or stored is not there).

Assumed of the local store, which is not in the repository: an operation that fails
leaves the file itself alone; one that does not find a file leaves open the one that
was, or none; the cursor of a downloaded file is the uploader's, hence any change in it
or none.

### 2.3 ApiClient

`tls`, `clients`, `reachable` and `token` are the fields of `Client`; `built` is the
history of every `http.Client` made, each with the configuration it captured and the
key of its open connection. A goroutine `th[t]` runs one request. A section under
the lock is one action, because the lock makes it one: `Lookup` (read lock), `Build`
(write lock, with the second look at the map), `ConfigureTLS`,
`ConfigureDialAddress`, `ClearTLS`. `do` reads `Token` twice without a lock
(`StartRequest`, `SetHeader`). Opening a connection (`Handshake`, with
`verifyTLSConnection` and `OnFirstTrust`) and the exchange over it (`Exchange`) are
separate, so a connection opened earlier may be reused. Errors are chains of
wrappers, because `isConnectionError` looks at the Go types they are wrapped in:
`IsConnectionError` works on that chain. A server may stop, start, or start again
with another certificate (`Restart`).

An address is assumed well-formed: the errors of `newTLSConfig` for a URL that does
not parse are left out. Redirects, bodies and status codes are data.

### 2.4 VpnDiscovery and SubnetHosts

`main` is the goroutine that called `Discover`: it stands at a subnet, hands out its
next host, collects, or is done. `worker[w]` is goroutine `w` of a subnet's pool. A
receive from the unbuffered `jobs` channel is one step of both (`HandOut`); the
`results` channel is a sequence of at most `Cap` answers; `wg` is the counter of the
WaitGroup. Which case a `select` takes when several are ready is free: `HandOut`
and `GiveUp`, `HandOut` and `Leave`, `Send` and `SendCancelled` are all possible
after the deadline. A query ends with an answer, or fails at once; a host in
`silent`, which is chosen at the start, does neither before the deadline.

Two limits follow from reading the results only after the last host is handed out,
and `EveryHostAsked` and `EndsEarly` name them as their conditions: a subnet in which
as many hosts are silent as there are workers, and more answers than `Cap` before
the last host is handed out, both leave the rest of the hosts unasked until the
deadline. With the values of the code (32 workers, 64 places) a subnet of a VPN in
which 32 addresses do not answer and do not refuse is enough.

`SubnetHosts` has the loop of `subnetHosts` and the modular addition of `ipv4Add`
over addresses of `Width` bits, and a definition to compare with (`Exact`): the
addresses of the subnet without the first, the last and the interface's own, each once
and in order. The loop and the shift are recursive functions (`Collected`, `Pow2`).
`HostsExact` of `VpnDiscovery` compares the two for every address and mask at the
moment a discovery turns to its first subnet.

### 2.5 SotRegistry

The service reads records into copies that its callers keep and pass back by
reference. `stored` is the file, `copy[c]` the copy goroutine `c` loaded last, and
`groups` the access groups whose members the local store has. `ResetTLSFingerprint`
leaves a function with the HTTPS client that refers to the caller's copy and writes
*all* of it when a connection is opened; `Create` leaves one that sets a variable of
the call, before its `Insert` and after, because it outlives the call. `conf[a]` says
which of them the client has for address `a` and, for one of `Create`, which source its
call has enrolled (`id`), or the fingerprint the client expects; `conn[a]` is the key of
the open connection. When the caller loads another copy, the function keeps the old one
(`copy[a]`). `pinned` is what a stored fingerprint is compared with: the one of the last
enrolment of the source, of its last reset, or of the last trust by either function left
for it. A trust by a function left for another source of the same address is not counted:
it is not about this one.

| Code | Action |
|---|---|
| `Get`, `Update` | the action of the same name; `List` followed by `CheckStatus`: `Poll` |
| `ResetTLSFingerprint` | `Reset`, `Arm`; or `ResetFails` (the fingerprint of the copy is gone, the record's is not) |
| `OnFirstTrust` on a new connection | `ConnectReset`, `ConnectCreate`, `ResetUnwritten`; with a fingerprint: `ConnectPinned`, `Refused` |
| `CheckStatus` | `CheckStatus`, `Status` or `StatusUnopened` (the group is in the copy, its key is not), `SyncGroups`, `Save` |
| `Create` | `Create`, `Enroll`, `Insert`, `Members` |
| `Delete` | `Delete` or `DeletePartly` (`Destroy` stopped at a group), `Drop` |
| any other operation that returns an error; the process ends | `Fail`; `Crash` |
| the application, the daemon | `Configure`; `Admit`, `Rekey`, `Disconnect` |

Writing whole records over each other is how this component can go wrong, and it
does: the code has no guard against it. The properties therefore say what is the case
*unless* something definite happened, which history variables record when it does
(`marks`, and `behind` and `touched` of a copy):

| Mark of a source | What happened |
|---|---|
| `old` | the record was written from a copy loaded before its last reset or first trust. It takes one goroutine that holds a copy and another that resets, or one `CheckStatus` whose own request triggers the first trust of another caller's reset: the fingerprint `OnFirstTrust` has just stored is written over (`service.go:611`) |
| `torn` | the record was written from a copy that a call had changed before it failed, or was still changing |
| `crossed` | the daemon answered the enrolment of one `Create` under the configuration of another call for the same address |
| `unkept` | the function `Create` left trusted another key after `Insert` had written the record (`service.go:334`), or after the call had ended, so that the record keeps the old one: a new connection to a daemon with a new key is enough, no failure is needed |
| `half`, `cleared` | `Create` has inserted the record and not synchronised its group; `Delete` has removed groups and not the record |
| `ghost` | groups were synchronised for a source that was being deleted, or already was |

`PinKept`, `GroupKeyWhole`, `GroupSynced` and `NoOrphans` each name those that can break
them. What a mark stands for is a hazard that this code does have, and a property that
names it does not exclude it: it says that nothing else breaks what it states. TLC finds
a violation of the property when any one of its marks is left out, so each names a way
the code really has; the theorems say there are no others, for any number of callers and
sources.

Assumed of libraries: the store refuses to update a record that is gone;
`SyncGroups` adds the members of a group in one step, `Destroy` removes groups one by
one and may stop between any two. `Create` keeps the error of `Insert` and synchronises
the members nevertheless (`service.go:334-347`): one way to `ghost`. A configuration that is
replaced takes effect at once; that a request which has already looked up its client goes
on under the old one is in `ApiClient`, whose `CurrentTrust` and `AnsweredKeyReported` are
about it.

### 2.6 SotPassword

`main` is the password of the registry's file, `file[i]` that of the vault file of
source `i`; `call` is `Access` or `ChangePassword` under way, with the two passwords it
was given and the files it has still to visit. `ChangePassword` changes the registry's
file first, then the others in the order of `FindAll`, and returns at the first error
without undoing anything.

| Code | Action |
|---|---|
| `Access` | `Access`; with an empty file it goes on as `Initialize` or `InitializeFails` |
| `ChangePassword` | `ChangePassword`, `FindAll`, and for each source `ChangeVault`, `VaultMissing` (`ErrFileNotFound`) or `VaultRefuses` (the file has another password); `Return` |
| an operation that returns an error; the process ends | `ChangeFails`; `Crash` |
| other goroutines | `AddSource` (`Create`), `RemoveDir`, `RemoveRecord` (`Delete`), `OpenVault` |

What modelling it showed. A change cut short cannot be repeated: the registry's file
already has the new password and a second attempt with the old one is refused there;
one from the new to the new reaches the first file left behind, and is refused there.
The way back is the opposite change, and it works because the loop runs in the same
order: it brings back exactly the files the first one reached, and stops at the first
it did not (`VaultRefuses`), when all have one password again. The call that repairs
everything thus *returns an error*, which a caller will read as a failure.
`OnePassword` is this statement; `behind` remembers the password of the files left
behind. `lost` is what it does not cover: a second, different change cut short on top
of the first, or a vault file created meanwhile with the password of the session.

`Access` sets `sotFile` before `Initialize` can fail. If it fails and a source is
added (which only asks whether `sotFile` is set), the file is no longer empty and the
local source is never put there; `LocalListed` says this is the only way.

Assumed: one `ChangePassword` at a time, called after `Access` (it uses `sotFile` without
the check other methods make); `FindAll` lists sources in an order that does
not change; the store changes the password of one file entirely or not at all.

## 3. Checks

Every property below holds on the instance given, except those of section 4. The
bound of each run is the smallest at which its hazard can occur and all actions
fire; TLC takes between one second and some five minutes a run.

| Run | Instance | Question |
|---|---|---|
| `vault_safety` | 2 devices (auto, manual), 1 call each, 2 vaults, 2 edits; requests and answers lost, local failures, crashes; `"all"`, `"window"`, `"known"`, `"keep"` | is anything lost on either side by failures, retries or a crash between two steps; is an acknowledged edit at the daemon, and every record file; is a manual check right; can every pending creation be uploaded; is every step one of `VaultReplication`? |
| `overlap` | 2 devices in auto mode, 2 calls at a time on one of them | what can overlapping calls lose? |
| `recover` | 2 devices in auto mode, crashes that end, without `"known"` | do the replicas converge, also after a torn sync? |
| `records` | 2 devices (auto, manual), 1 vault, 2 edits; failed and lost requests, crashes, repeated uploads; `"window"`, `"once"` | does anything fall behind a cursor on one side only, can an update or a deletion overtake its record, is an acknowledged edit at the daemon, is a manual check right, is every step one of `RecordReplication`, does the file of a selected vault come to hold what the daemon holds when nothing fails any more? |
| `records_switch` | 2 vaults, 1 edit, 2 calls at a time on one device, every failure and crashes, an application that goes on after a failed `SelectVault` (`Careful` empty) | how can records of one vault reach another's file? |
| `trust` | 2 goroutines, 2 endpoints, 2 keys, 2 configuration changes, public requests | cache, one client per configuration, trust of every answer |
| `settles` | 2 goroutines, requests with and without a file and health checks, every failure, a good and an invalid certificate | does a refused certificate leave the flag alone, and does the flag settle on the truth? |
| `alert`, `logout` | 1 goroutine | the findings of section 4 |
| `registry` | 2 goroutines, one of which polls, 1 source, 1 address, 2 keys, 1 group, every failure and crashes; `MaxAbuse` = 1 | when can a record, its fingerprint, its group, the key and the members of that come apart? |
| `password` | 3 sources, the local one in the middle of the order, 3 passwords, errors and crashes | after which attempts do all files have one password, and is the local source there? |
| `vpn` | subnets of 3, 0 and 1 hosts, one of them in two subnets, 2 workers, 2 places, 2 names, 1 host that may be silent; every address and mask of 6 bits, 4 bits scanned | is anything sent on a closed channel, is anything missing from a result before the deadline, is every host asked, when does `Discover` end, are the hosts the ones of the subnet? |

*Bounds.* Two devices are the fewest between which a change can be missed, and the
daemon is always a third party; two edits give a conflict, an edit behind another, and a
create followed by a delete. With two goroutines every race of the client on its two
maps and the flag occurs; two configurations are the fewest for a stale one.
`MaxConfigs` bounds configuration changes per address and `Ids` the edits; nothing else
is bounded. `overlap` uses the constraint `SerialPeer` (only one device overlaps its
calls, the other follows only the calls it edits with), `trust` the constraint
`PublicOnly` (no token and no health checks, which cannot influence trust).
`records_switch` follows only one device that overlaps its calls and, after `switched`
or `misled`, of which its property says nothing, only calls that find no file open
(`OneOverlaps`); one edit is enough, because its property is about each change by
itself. `records` leaves failures of the local store to `records_switch` and to the
proofs, which hold for every failure; a crash ends its calls at the same places.
`recover` has crashes and no lost requests: a crash after the POST is a lost answer that
also loses the call. In `vpn` a subnet has more hosts than workers and another fewer,
there are more hosts than places, so that the channel is full, and few enough answers
leave room; `MaySilent` bounds the choice of silent hosts. `registry` follows a
behaviour through one abuse (a mark of `old`, `torn`, `crossed`, `unkept`, `cleared` or
`ghost`, or a touched copy) and not past a second (`FewAbuses`, `MaxAbuse`); a second
group or source multiplies the states beyond use, and is what the proofs of section 5
are for: with one group, `group` and `key` differ when one of them is nil. In `password`
three files are the fewest with one before, at and after the place where a change is
cut, and three passwords the fewest for a second change to neither the old nor the new
one.

*Symmetry* is used only in runs without liveness, over edits, vaults and goroutines, all of
which the modules treat alike. `records`, which has liveness, makes its two edits in one order
(`InOrder`): the behaviours left out are the others with the edits exchanged, from beginning
to end, and no fairness condition is about edits.

*Fairness.* A call that started goes on: `WF(SyncStep)`, `WF(Step)`; the Go scheduler
and the time limits of the client (3 s, `api/client.go:478, 495`) and of the probe
guarantee it. `SF(StartSync)` stands for callers that come again and again: `List` is
polled by the application, and every edit in auto mode starts a sync; strong, because a
call may be running whenever the caller looks. `WF(PostBlob)` stands for the vault syncs
of the creator. `SF(HealthCheck)` stands for the polling of `health.Service`
(`AdaptiveInterval`). The liveness specifications of the protocols (`recover`,
`records`) assume that from some time on nothing fails; without that nothing can be
promised by a protocol that gives up at the first error. In `VpnDiscovery` every
goroutine that can go on does, and a host that is not silent answers or refuses. Nothing
is assumed of the timer: `Terminates` is about a deadline that has passed, the other two
liveness properties about one that has not come.

*Mutants.* Each property of a passing run has a definition of the module altered the
way a plausible bug would (`Faulty ...` in the modules), with which TLC finds the
property violated under the same configuration.

## 4. Disagreements found

1. `alert` — `api/client.go:619` says TLS errors leave the reachability flag
   unchanged. An alert sent by the server reaches `isConnectionError` as a
   `net.OpError` and clears it. `RefusalLeavesFlag` is the part that holds.
2. `logout` — `api/client.go:388` refuses authenticated requests without a token, but
   `do` reads the token again at line 391: a `ClearToken` between the two sends an
   empty bearer token.

A smaller one has no run: `api/client.go:25` says `OnFirstTrust` is "Called when the
server is trusted for the first time". The client does not store the fingerprint it
reports, so the same configuration calls it again for another key and accepts that too.
`AnsweredKeyReported` and, for the registry, `PinKept` say what holds nevertheless; the
mark `unkept` of the latter is what a second call of `Create`'s function leads to.

## 5. Proofs

Theorems hold for every value of the constants that satisfies the module's named
assumption, and are checked by TLAPS without any step taken on trust.

`VaultSyncProofs`:

* `TypeCorrect`: `TypeOK`, with no assumption on daemon or callers.
* `SyncInvariant`, and from it `ManualCheck`, for callers that make one call at a time
  (`SerialCalls`) and a daemon that keeps `"all"` and `"window"`; the other promises,
  the mode of the devices and the failures, crashes included, are arbitrary.
* `NothingUnsent` and `EditAcked` from `SerialCalls` and `"all"` alone, `NothingUnseen`
  from `SerialCalls` and `"window"` alone, `SentOrRaced` from `"all"` alone.
* `OverlapLosesRaced`, for calls that overlap.

The inductive invariant `SyncInv` is needed because the safety properties say
nothing of calls under way. It adds, for each program counter, what the call's local
variables still say of the logs: its start is the cursor, its local changes are the
pending ones, the changes it counted are an initial segment of what follows the
cursor at the daemon, and, if the daemon's log has not grown since, it has fetched
all of them. The crucial step is `Push`: the daemon admits the batch only if the
count is still right, therefore what the replica is about to hold is an initial
segment of the daemon's log (`Settled`). Other devices only append, which keeps it
one (`ChangeLogProofs`: what `Extend` does to `Behind`, `After` and `DownClosed`).

The places a call goes through and what it knows at each are the same for the vault list
and for the records of a vault, so the predicates (`DeviceOK`, `LocalFresh`,
`RemoteFresh`, `Settled`, `CallFresh`) are in `SyncCall`, and `ChangeLogProofs` proves
once for both what a post, a merge, a moved cursor and another device's post make of
them.

The module goes on with calls that overlap. `OverlapLosesRaced` proves
`OverlapLosesOnlyRaced` for any number of calls at a time, under `OverlapAssumed`: the
daemon keeps `"all"`, `"window"` and `"known"`; failures are arbitrary. `SyncInv` does
not hold there: a call may find the cursor moved, the replica merged into or the changes
it read posted by another call of its device. `OverlapInv`
therefore says less of each call: not that what it read is still so, but that
what it did *not* read as pending is at the daemon, apart from *raced* edits of the
device, those made while another of its calls was between its local read and its move of
the cursor (`OverlapSent`; `OverlapDevice` says the same of the cursor). Nothing holds of
what such a device has fetched or uploaded, because the cursor may stand behind an edit
the daemon does not know. Of a device without a raced edit the invariant says
that it holds the daemon's log up to the start of each call, and an initial segment of it
together with what the call fetched (`OverlapSeen`), and that the vaults whose creation
the call did not read as pending have their record files (`OverlapBlobs`; this is where
`"known"` is needed: a creation another call has just posted must be in the answer, or
this call moves the cursor over it while the other may still fail to upload). None of
it is taken back by another call's step, because logs only grow, what a change is stays,
and so does the mark of a race (`Growth`); the proof has one lemma for
what the steps of other calls leave alone and one for each step of the call itself.

The last two parts of the module ask which promise each half of a sync rests on, and
answer with one each; TLC finds the counterexample when that one is left out.

* *What a device sends* needs a daemon that applies a batch whole. `SentInv` keeps of
  `OverlapInv` what it says of local changes: it holds on whatever log the batch is
  taken, whatever the answer lists, and for any number of calls at a time.
  `SentOrRaced` is the result for overlapping calls: a change behind the cursor is at
  the daemon or raced. Without overlaps nothing is raced (`NeverRaced`), which is
  `NothingUnsent`, and an edit that returned nil is at the daemon (`EditAcked`).
* *What a device sees* needs a daemon that refuses a batch on a log whose end its sender
  has not seen. With a daemon that applies half a batch, changes do lie unsent behind the
  cursor, so that what a device has synchronised is no initial segment of the daemon's
  log any more and `SyncInv` fails. `SeenInv` keeps what survives: the device holds
  everything the daemon holds up to the cursor (`SeenDevice`); a call has fetched an
  initial segment of what follows (`SeenCall`); and a change the daemon does not hold is
  its maker's (`OwnUnsent`), so that a device that moves its cursor to such a change
  made it itself, and moves over nothing of others.

The manual check, the snapshots and the refinement below need both: with either promise
alone TLC finds them violated.

`VaultRefinementProofs`: `Refinement`, that `VaultSync` implements `VaultReplication`,
under the assumptions of `SyncInvariant`. The invariant of the refinement is `SyncInv`
and `MadeOnly` (what is in a log was made, so that an edit is new to everybody). One
lemma for each abstract step: an edit is `Make`; an admitted `Push` is `Post`, by the
argument above; `Merge` is `Receive` because the changes fetched and the pending ones
are a `Settled` replica; `Advance` is `Confirm` for the same reason.

From the refinement follows what a user of two devices sees. `SyncedSnapshots` proves
`SyncedIsHistory`: what a device has synchronised is what the daemon held at some moment,
without holes; it is inductive because an abstract step only adds to the history or
confirms a longer part of it (`HistoryKept`). `SyncedNeverFork` draws the conclusion:
of two devices one has synchronised everything the other has. `RecordSyncProofs` has
`SyncedSnapshots` for every record file, the downloaded ones included.

The module goes on with record files, on the same invariant. `BlobsFollow` proves
`BlobBeforeCursor` when the daemon also keeps `"known"`. Its strengthening `BlobInv` says
that a device keeps the changes it made (`OwnKept`: what it fetches of its own it
already has) and that a call past `Push` has sent, or has still in `todo`, the record
file of everything its device created (`CallSends`): what is behind the cursor was sent
before, the rest is in the answer. `Uploadable` proves `PendingCreatesUploadable` when the
store keeps `"keep"`: a device has the files of what it created (`OwnFiles`), and the
pending changes are its own unless it is between merging and moving the cursor
(`OwnPending`).

`ApiClientProofs`: `TypeCorrect`, and from `ClientInvariant` the theorems
`CacheCurrent`, `OneClient`, `CurrentTrust` and `KeyReported`, and, from the types
alone, `RefusalNeutral` for `RefusalLeavesFlag`, without further assumptions: for any
number of goroutines, addresses, keys and configurations. The strengthening `ClientInv`
says that the client in the map is the one built for the configuration in force and the
only one (`CacheInv`), that an open connection's key is accepted by the configuration
captured and known to the caller (`ConnInv`), and that a request's client is not older
than its start (`RequestInv`).

`RecordSyncProofs`, without further assumptions on daemon or callers: `TypeCorrect`,
and `StayInVault` for `RecordsStayInVault`. What has to be added (`VaultInv`) is that, as
long as no `SelectVault` overlapped another call and no call followed one that failed,
`SelectVault` runs alone on its device (`SelectsAlone`), hence the store is configured for
its vault from its first step to its last; when it has returned without an error the open
file is the one of the vault the application chose (`OpenAsChosen`); and every call that
syncs names that vault and has read and fetched changes of it only (`CallWithin`).

For callers that make one call at a time and select a vault anew when `SelectVault`
fails (`Careful = Devices`), and a daemon that keeps `"window"` and `"once"`
(`Assumed`), follow `SyncInvariant` and from it `NothingIsSkipped`, `EditsAcked` and
`ManualCheck`. The inductive invariant is `SyncInv`, of four parts. `VaultInv` (no mark
is ever set then, `NeverMarked`) makes the open file, the vault named to the daemon and
the vault of every change the same, so that a call is about one file. `LogsOK` says of
*every* file of a device, closed ones included, that it is in order with the daemon's,
because a file may be opened at any time and a creator's upload replaces a log of the
daemon: with `"once"` this happens only to a log without changes, and a device in order
with an empty log has nothing behind its cursor (`FirstUpload`). `CallsOK` says of a
call what `CallFresh` says, about the open file. `BlobsOK` says that what `SelectVault`
has downloaded and not stored yet is a beginning of the daemon's log, whatever other
devices have posted since; stored, it is in order with the daemon's wherever its cursor
stands.

`RecordsBeforeTheirChanges` proves `CausalOrder`, which is inductive with `SyncInv`. What a
sync adds to a log is ordered in itself and comes after all it is about: the pending
changes of a device are about changes it holds, and those are behind the cursor, hence at
the daemon, or pending too. A store that rebases takes the pending changes out and puts
them behind the fetched ones; the fetched ones are about changes that are behind
the cursor or fetched, never about a pending one, because what the daemon held is an
initial segment (`MergeOrdered`).

`Refinement` of the same module proves that `RecordSync` implements `RecordReplication`,
with one lemma for each abstract step as above. To `SyncInv` it adds `FilesOK`: a device
has changes only in files it holds, the open one is among them, and one it is about to
download or store is not, so that `StoreBlob` is a `Join`. That a change is new to every vault
when it is made comes from `VaultInv`.

`VpnDiscoveryProofs`, for any subnets, number of workers and capacity: `TypeCorrect`
(the WaitGroup never falls below zero), `NoLateSender`, `Complete` and
`HostsAreExact`. The inductive
invariant `ScanInv` counts: the WaitGroup equals the number of running workers, the
workers of the subnets to come have not started, before the deadline every host
before the next one is asked and every answer read is listed, in the channel or held
by a worker that sends it.

`HostsAreExact` proves `HostsExact` for addresses of any width, hence for the 32 bits of
the code. The prover has no induction over data and no theorem about recursive functions
that it can instantiate, so the module proves both for sets, which need no operator as a
parameter: a set of naturals with 0 and every successor is `Nat` (`SetInduction`), and a
function given by a start and a step exists and satisfies its recursion
(`NatRecursion`). From these, `Pow2` doubles and divides (`BlockFacts`: the addresses with
one quotient are a block of consecutive ones, so that adding an offset below its size
neither wraps around nor leaves the subnet), and the loop has an invariant: the list
after `n` rounds is ascending and holds the addresses 1 to `n` of the block but the
interface's own (`LoopHolds`).

`SotRegistryProofs`, for any callers, pollers, sources, addresses, keys and groups, and
any of the faults, without the constraint of the run: `TypeCorrect` and one theorem for
each invariant. `Base` says what the program counter of a call says of its variables and
its copy, whose copy a function left with the client refers to, and that one source
belongs to one enrolment. On it rest four strengthenings, each of which carries a
property of records over to the copies that may be written over them: `Whole` (a copy
nobody touched has a group and its key), `AllRooted` (its group is synchronised, or
`Create` is about to), `AllPinned` with `AllAgreed` (its fingerprint is the last one
left, unless it is behind; the variable of a `Create` call is the key of the connection
it was enrolled over, and the function the call left names the source it enrolled, so
that a trust after `Insert` is either in the record or marked `unkept`), and `Cleared`
(while a record is being dropped its source has no groups).

`SotPasswordProofs`, for any sources and passwords: `TypeCorrect`, `LocalSourceThere`
and `OnePasswordKept`. The invariant `Ordered` of the latter says that there is an
initial part `L` of the order of sources whose files have the password of the
registry, while the others have that of `behind` (`Split`), and where in `L` and beyond
the loop stands (`Visiting`). A change cut short makes `L` the files visited; the opposite
change visits exactly `L`.

Model-checked only are the liveness properties (`Converges` of both protocols,
`ReachabilitySettles`, `Terminates`, `EveryHostAsked`, `EndsEarly`), which need fairness
and ENABLED, out of the prover's reach. Every other property of a passing run is a
theorem, under the assumptions its theorem names.

## 6. Not modelled

* What a change does to a vault's fields, and encryption: `SyncVault` treats both as
  data. `Seal` failing for a group without a public key is in `VaultSync` as a failure
  at `SealKeys`; that it fails again and again depends on the group keys, which the
  daemon and `tacenva-core` keep.
* Local sources in the vault and record services: each operation is one write to the
  local store.
* The registry's choice of a hostname in `Create` (`service.go:249-303`),
  `normalizeAddress`, the sync mode, and the application's own changes to a copy:
  data no property is about. Two `Create` calls at a time can choose the same hostname.
* `app/accesscontrol` and `api/accesscontrol.go`: units and groups are the daemon's
  state, and their rules are its rules. The service's own state is the selected group,
  two fields that `CreateGroup` reads at three places
  (`app/accesscontrol/service.go:51, 72, 83`); a selection in between would give a group
  its parent from one group and its hierarchy key from another. What the daemon makes
  of such a request is not in the repository.
* mDNS discovery: the timer, the sends and what is dropped when the channel of entries
  is full are the library's. This code reads that channel in a goroutine and sends what
  it finds on another of 32 places, read only when the query is over, so that the reader
  stops at the thirty-third server and the library drops what follows. The merge
  of the two discoverers has one slot each and a WaitGroup; after it, everything is
  sequential.
* `api/auth.go` and the endpoint wrappers of `api/vault.go`: they build a path and call
  `do`, which `ApiClient` models.
* `app/setup.go`, `app/dependencies.go`: start-up, sequential and without state.

## 7. Plan

The plan began with the protocols in which two parties can lose data (`VaultSync`,
`RecordSync`), then the client they share (`ApiClient`), the scheduling of the discovery
(`VpnDiscovery`), and the registry with its passwords (`SotRegistry`, `SotPassword`); each
was model-checked first and then proved about, and the abstract specifications
`VaultReplication` and `RecordReplication` were stated when the concrete invariants were
there to prove them with. All of these exist. What would come next, in order of
importance:

1. The composition of `VaultSync` with the reachability flag: what `List` returns
   while the flag moves.
2. The refinement of `RecordSync` for devices that overlap `SelectVault` with other calls,
   in the vaults it does not touch: what is lost otherwise when they do.
3. Pure algorithms against reference definitions: the hostnames of `Create`,
   `deduplicate`.
