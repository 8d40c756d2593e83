------------------------------- MODULE SyncCall --------------------------------
(***************************************************************************)
(* What holds of one log that a device synchronises, and of the call that   *)
(* synchronises it, at every step of the call: rep is the device's log, cur *)
(* its cursor and sot the daemon's log.  A call c is a record with at least *)
(* its place pc, the cursor it started from, the local changes it read, the *)
(* number of remote changes it counted and those it fetched.                *)
(*                                                                         *)
(* The sync of the vault list (VaultSync) and the sync of the records of a  *)
(* vault (RecordSync) go through these places in the same order; their      *)
(* inductive invariants are built from the predicates below.               *)
(***************************************************************************)
EXTENDS ChangeLog

\* A device between calls.
DeviceOK(rep, cur, sot) ==
  /\ Dense(rep)
  /\ cur \in InLog(rep) \cup {None}
  /\ Behind(rep, cur) \subseteq InLog(sot)
  /\ Behind(sot, cur) \subseteq Behind(rep, cur)

\* What a call knows of its own log: its start is the cursor, and its local
\* changes are the pending ones.
LocalFresh(c, rep, cur) ==
  /\ c.pc \in {"local", "count", "fetch", "keys", "push", "blobs", "merge", "advance"}
       => c.start = cur
  /\ c.pc \in {"count", "fetch", "keys", "push", "blobs", "merge"} =>
       c.local = After(rep, cur)

\* What it knows of the daemon: the changes behind the cursor are no further than
\* its count, and if the daemon's log has not grown it has fetched all the rest.
RemoteFresh(c, rep, cur, sot) ==
  /\ c.pc \in {"cursor", "local", "count", "fetch"} => c.remote = {}
  /\ c.pc \in {"fetch", "keys", "push"} =>
       /\ c.count <= Cardinality(After(sot, cur))
       /\ \A x \in Behind(rep, cur) \cap After(sot, cur) :
            Rank(sot, After(sot, cur), x) <= c.count
  /\ c.pc \in {"keys", "push"} =>
       /\ c.remote \subseteq After(sot, cur)
       /\ Cardinality(After(sot, cur)) = c.count => c.remote = After(sot, cur)

\* held is an initial segment of the daemon's log.
Settled(held, sot) == held \subseteq InLog(sot) /\ DownClosed(sot, held)

\* With what lies behind the cursor, the fetched changes are an initial segment;
\* once the local changes are posted, what the device is about to hold is one too.
CallFresh(c, rep, cur, sot) ==
  /\ LocalFresh(c, rep, cur)
  /\ RemoteFresh(c, rep, cur, sot)
  /\ c.pc \in {"keys", "push", "blobs", "merge"} =>
       Settled(Behind(sot, cur) \cup c.remote, sot)
  /\ c.pc \in {"blobs", "merge"} => Settled(InLog(rep) \cup c.remote, sot)
  /\ c.pc = "advance" => Settled(InLog(rep), sot)

================================================================================
