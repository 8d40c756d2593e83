----------------------------- MODULE SotRegistry -----------------------------
(***************************************************************************)
(* The registry of sources of truth: src/app/sourceoftruth/service.go.      *)
(* It keeps one record per source and hands out copies.  A caller passes    *)
(* its copy back by reference; Update, ResetTLSFingerprint and CheckStatus  *)
(* change the copy and write all of it over the record.  The function that  *)
(* ResetTLSFingerprint leaves with the HTTPS client refers to the same copy *)
(* and writes it whenever a connection is opened.                           *)
(*                                                                          *)
(* A caller is a goroutine and the copy it loaded last, which it goes on    *)
(* using; a poller only checks the status of records it has just loaded.    *)
(* Requests carry the token of their source (ApiClient has the tokens and   *)
(* the connections in detail).  The application configures the client from  *)
(* a stored fingerprint (Configure), and passes a source without one to     *)
(* ResetTLSFingerprint.  The local source, whose status is never asked for  *)
(* and which Delete refuses, is left out, and so are the hostnames.         *)
(***************************************************************************)
EXTENDS Integers, FiniteSets

CONSTANTS
  Callers,  \* goroutines of the application
  Pollers,  \* those that load a copy, check its status and let go of it
  Sources,  \* identifiers that Insert may give to a record
  Addrs,    \* addresses of daemons
  Keys,     \* TLS keys of daemons, known by their fingerprints
  Groups,   \* access groups
  Faults,   \* failures that may happen
  None      \* nil: no group, no fingerprint, nobody

\* "store":  an operation on the registry's file, or on the node's directory, fails;
\* "groups": an operation of the access control service fails;
\* "net":    a request fails, or is served and its answer lost;
\* "open":   a group key cannot be opened with the key pair of the unit;
\* "crash":  the program stops between two steps.
ASSUME SotRegistryAssumption ==
  /\ Pollers \subseteq Callers
  /\ Faults \subseteq {"store", "groups", "net", "open", "crash"}
  /\ None \notin Callers \cup Sources \cup Addrs \cup Keys \cup Groups
  /\ Callers \cap Addrs = {}

VARIABLES
  daemonKey,  \* daemonKey[a]: the TLS key of the daemon at a
  member,     \* member[i]: what the daemon says of the unit enrolled for i
  stored,     \* stored[i]: the record of i in the file, or NoRecord
  groups,     \* groups[i]: the groups whose members are synchronised for i
  conf,       \* conf[a]: the TLS configuration of the client for a
  conn,       \* conn[a]: the key of the open connection to a, or None
  copy,       \* copy[h]: the copy h holds, or NoCopy
  call,       \* call[c]: the service call of c
  pinned,     \* history: the fingerprint that the last enrolment of i, reset of i, or
              \* trust by a function left for i had
  marks       \* history: marks[m]: the sources to which m has happened

vars == <<daemonKey, member, stored, groups, conf, conn, copy, call, pinned, marks>>
daemon == <<daemonKey, member>>

--------------------------------------------------------------------------------
\* Status and level of an access unit; "new" is an approved one whose level Create
\* has left out.
Auths == {"new", "waiting", "approved"}
Member == [auth : {"waiting", "approved"}, group : Groups \cup {None}]
NoMember == [auth |-> "none", group |-> None]

Record == [addr : Addrs, pin : Keys \cup {None}, auth : Auths,
           group : Groups \cup {None}, key : Groups \cup {None}]
NoRecord == [addr |-> None]
Held == {i \in Sources : stored[i] # NoRecord}

\* behind: the record has been given another fingerprint since;
\* touched: a call that failed has changed the copy.
Copy == [id : Sources, rec : Record, behind : BOOLEAN, touched : BOOLEAN]
NoCopy == [id |-> None]

\* A copy is held by a caller, or by the function of ResetTLSFingerprint left for an
\* address, once the caller that reset the fingerprint has loaded another copy.
Holders == Callers \cup Addrs

\* "pin":    the fingerprint the client expects;
\* "reset":  the function of ResetTLSFingerprint, referring to the copy of "owner";
\* "create": the function of a Create call of "owner", which may have ended, and "id"
\*           the source that call has enrolled.
Conf == [kind : {"none", "pin", "reset", "create"}, pin : Keys \cup {None},
         owner : Holders \cup {None}, id : Sources \cup {None}]
NoConf == [kind |-> "none", pin |-> None, owner |-> None, id |-> None]

Pcs == {"idle", "status", "sync", "save", "arm", "enroll", "insert", "members",
        "drop"}
Call == [pc : Pcs, id : Sources \cup {None}, addr : Addrs \cup {None},
         got : Member \cup {NoMember}, fp : Keys \cup {None}]
NoCall == [pc |-> "idle", id |-> None, addr |-> None, got |-> NoMember, fp |-> None]

\* old:     written over from a copy that was behind;
\* torn:    written from a copy that a failed or unfinished call had changed;
\* crossed: its enrolment was answered under the configuration of another call;
\* unkept:  the function of its Create has trusted another key when the record was
\*          written, or could not be any more;
\* half:    Create has inserted it and not (yet) synchronised its group;
\* cleared: Delete has removed groups of it, and not (yet) the record;
\* ghost:   groups were synchronised for it while its record was being deleted
\*          or was not there.
Marks == {"old", "torn", "crossed", "unkept", "half", "cleared", "ghost"}
Marked(i, S) == \E m \in S : i \in marks[m]
Mark(m, i, yes) == IF yes THEN [marks EXCEPT ![m] = @ \cup {i}] ELSE marks

Init ==
  /\ daemonKey \in [Addrs -> Keys]
  /\ member = [i \in Sources |-> NoMember]
  /\ stored = [i \in Sources |-> NoRecord]
  /\ groups = [i \in Sources |-> {}]
  /\ conf = [a \in Addrs |-> NoConf]
  /\ conn = [a \in Addrs |-> None]
  /\ copy = [h \in Holders |-> NoCopy]
  /\ call = [c \in Callers |-> NoCall]
  /\ pinned = [i \in Sources |-> None]
  /\ marks = [m \in Marks |-> {}]

Goto(c, pc) == call' = [call EXCEPT ![c].pc = pc]
\* The call of c ends; the function a Create left with the client outlives it.
Return(c) == call' = [call EXCEPT ![c] = NoCall]

\* h has the copy x, unless it lets go of it.
SetCopy(h, x) == [copy EXCEPT ![h] = IF h \in Pollers THEN NoCopy ELSE x]
LetGo(c) == copy' = SetCopy(c, copy[c])

Current(i, rec) == [id |-> i, rec |-> rec, behind |-> FALSE, touched |-> FALSE]

\* sotFile.Update: the copy x of h is written over the record, if there still is one.
Overwrite(h, x) ==
  /\ x.id \in Held
  /\ stored' = [stored EXCEPT ![x.id] = x.rec]
  /\ copy' = [e \in Holders |->
       IF e = h THEN (IF h \in Pollers THEN NoCopy ELSE Current(x.id, x.rec))
       ELSE IF copy[e].id = x.id /\ copy[e].rec.pin # x.rec.pin
            THEN [copy[e] EXCEPT !.behind = TRUE] ELSE copy[e]]
  /\ marks' = [marks EXCEPT !["old"] = IF x.behind THEN @ \cup {x.id} ELSE @,
                            !["torn"] = IF x.touched THEN @ \cup {x.id} ELSE @]

--------------------------------------------------------------------------------
(* Get, Update and ResetTLSFingerprint *)

ResetBy(c) == {a \in Addrs : conf[a].kind = "reset" /\ conf[a].owner = c}

Get(c, i) ==
  /\ call[c].pc = "idle" /\ c \notin Pollers
  /\ i \in Held
  /\ copy' = [h \in Holders |-> IF h = c THEN Current(i, stored[i])
                                ELSE IF h \in ResetBy(c) THEN copy[c] ELSE copy[h]]
  /\ conf' = [a \in Addrs |-> IF a \in ResetBy(c) THEN [conf[a] EXCEPT !.owner = a]
                              ELSE conf[a]]
  /\ UNCHANGED <<daemon, stored, groups, conn, call, pinned, marks>>

\* What the application changes in the copy (mode, hostname) is not modelled.
Update(c) ==
  /\ call[c].pc = "idle"
  /\ copy[c] # NoCopy
  /\ Overwrite(c, copy[c])
  /\ UNCHANGED <<daemon, groups, conf, conn, call, pinned>>

Reset(c) ==
  LET x == [copy[c] EXCEPT !.rec.pin = None, !.behind = FALSE]
  IN  /\ call[c].pc = "idle"
      /\ copy[c] # NoCopy
      /\ Overwrite(c, x)
      /\ pinned' = [pinned EXCEPT ![x.id] = None]
      /\ Goto(c, "arm")
      /\ UNCHANGED <<daemon, groups, conf, conn>>

ResetFails(c) ==
  /\ call[c].pc = "idle"
  /\ copy[c] # NoCopy
  /\ "store" \in Faults \/ copy[c].id \notin Held
  /\ copy' = [copy EXCEPT ![c].rec.pin = None, ![c].touched = TRUE]
  /\ UNCHANGED <<daemon, stored, groups, conf, conn, call, pinned, marks>>

\* ConfigureTLS forgets the configuration it replaces, with the connections made
\* under it.  A request that has looked its client up already goes on under the old
\* one (ApiClient has that); here it opens its connection under the new one.
SetConf(a, config) ==
  /\ copy' = [copy EXCEPT ![a] = NoCopy]
  /\ conf' = [conf EXCEPT ![a] = config]
  /\ conn' = [conn EXCEPT ![a] = None]

Arm(c) ==
  /\ call[c].pc = "arm"
  /\ SetConf(copy[c].rec.addr, [NoConf EXCEPT !.kind = "reset", !.owner = c])
  /\ Return(c)
  /\ UNCHANGED <<daemon, stored, groups, pinned, marks>>

\* The application, from the stored record.
Configure(i) ==
  /\ i \in Held
  /\ stored[i].pin # None
  /\ SetConf(stored[i].addr, [NoConf EXCEPT !.kind = "pin", !.pin = stored[i].pin])
  /\ UNCHANGED <<daemon, stored, groups, call, pinned, marks>>

--------------------------------------------------------------------------------
(* Connections *)

RequestTo(c) ==
  CASE call[c].pc = "status" -> copy[c].rec.addr
    [] call[c].pc = "enroll" -> call[c].addr
    [] OTHER -> None

\* The request of c opens a connection under the fingerprint the client expects,
ConnectPinned(c, a) ==
  /\ RequestTo(c) = a /\ conn[a] = None
  /\ conf[a].kind = "pin" /\ conf[a].pin = daemonKey[a]
  /\ conn' = [conn EXCEPT ![a] = daemonKey[a]]
  /\ UNCHANGED <<daemon, stored, groups, conf, copy, call, pinned, marks>>

\* or under the function of ResetTLSFingerprint, which puts the fingerprint in the
\* copy and writes the copy,
Trusting(a) ==
  LET h == conf[a].owner
      midway == h \in Callers /\ call[h].pc \in {"sync", "save"}
  IN  [copy[h] EXCEPT !.rec.pin = daemonKey[a], !.behind = FALSE,
                      !.touched = @ \/ midway]

\* Faulty ConnectReset: the fingerprint is put in the copy and not written.
ConnectResetUnsaved(c, a) ==
  /\ RequestTo(c) = a /\ conn[a] = None
  /\ conf[a].kind = "reset"
  /\ copy' = [copy EXCEPT ![conf[a].owner] = Trusting(a)]
  /\ conn' = [conn EXCEPT ![a] = daemonKey[a]]
  /\ pinned' = [pinned EXCEPT ![Trusting(a).id] = daemonKey[a]]
  /\ UNCHANGED <<daemon, stored, groups, conf, call, marks>>

ConnectReset(c, a) ==
  /\ RequestTo(c) = a /\ conn[a] = None
  /\ conf[a].kind = "reset"
  /\ Overwrite(conf[a].owner, Trusting(a))
  /\ conn' = [conn EXCEPT ![a] = daemonKey[a]]
  /\ pinned' = [pinned EXCEPT ![Trusting(a).id] = daemonKey[a]]
  /\ UNCHANGED <<daemon, groups, conf, call>>

\* or under that of Create, which puts it in a variable of the call.  The function goes
\* on doing so when the record has been written and the call is over.
KeptUntilInsert(a) ==
  LET k == call[conf[a].owner]
  IN  k.addr = a /\ k.pc \in {"enroll", "insert"}

\* Faulty ConnectCreate: the function assigns to a variable of its own (:= for =).
ConnectCreateLate(c, a) ==
  LET i == conf[a].id
  IN  /\ RequestTo(c) = a /\ conn[a] = None
      /\ conf[a].kind = "create"
      /\ conn' = [conn EXCEPT ![a] = daemonKey[a]]
      /\ pinned' = IF i = None THEN pinned ELSE [pinned EXCEPT ![i] = daemonKey[a]]
      /\ marks' = Mark("unkept", i, /\ i # None /\ ~KeptUntilInsert(a)
                                    /\ pinned[i] # daemonKey[a])
      /\ UNCHANGED <<daemon, stored, groups, conf, copy, call>>

ConnectCreate(c, a) ==
  LET owner == conf[a].owner
      i == conf[a].id
  IN  /\ RequestTo(c) = a /\ conn[a] = None
      /\ conf[a].kind = "create"
      /\ conn' = [conn EXCEPT ![a] = daemonKey[a]]
      /\ call' = IF call[owner].addr = a THEN [call EXCEPT ![owner].fp = daemonKey[a]]
                 ELSE call
      /\ pinned' = IF i = None THEN pinned ELSE [pinned EXCEPT ![i] = daemonKey[a]]
      /\ marks' = Mark("unkept", i, /\ i # None /\ ~KeptUntilInsert(a)
                                    /\ pinned[i] # daemonKey[a])
      /\ UNCHANGED <<daemon, stored, groups, conf, copy>>

\* The request fails: no configuration, another key than the expected one, or a
\* fingerprint that could not be written (it stays in the copy).
Refused(c, a) ==
  /\ RequestTo(c) = a /\ conn[a] = None
  /\ conf[a].kind \in {"none", "pin"} /\ conf[a].pin # daemonKey[a]
  /\ Return(c) /\ LetGo(c)
  /\ UNCHANGED <<daemon, stored, groups, conf, conn, pinned, marks>>

ResetUnwritten(c, a) ==
  LET h == conf[a].owner
  IN  /\ RequestTo(c) = a /\ conn[a] = None
      /\ conf[a].kind = "reset"
      /\ "store" \in Faults \/ Trusting(a).id \notin Held
      /\ copy' = [SetCopy(c, copy[c]) EXCEPT ![h] = [Trusting(a) EXCEPT !.touched = TRUE]]
      /\ Return(c)
      /\ UNCHANGED <<daemon, stored, groups, conf, conn, pinned, marks>>

--------------------------------------------------------------------------------
(* CheckStatus *)

CheckStatus(c) ==
  /\ call[c].pc = "idle"
  /\ copy[c] # NoCopy
  /\ Goto(c, "status")
  /\ UNCHANGED <<daemon, stored, groups, conf, conn, copy, pinned, marks>>

\* Get or List, and CheckStatus.
Poll(c, i) ==
  /\ call[c].pc = "idle" /\ c \in Pollers
  /\ i \in Held
  /\ copy' = [copy EXCEPT ![c] = Current(i, stored[i])]
  /\ Goto(c, "status")
  /\ UNCHANGED <<daemon, stored, groups, conf, conn, pinned, marks>>

\* The daemon assigns the unit to another group than that of the copy.
Joined(rec, m) == m.group # None /\ rec.group # m.group

\* Faulty Status: the record is saved without the members of the group.
StatusUnsynced(c) ==
  LET rec == copy[c].rec
      m == member[copy[c].id]
  IN  /\ call[c].pc = "status"
      /\ conn[rec.addr] # None
      /\ Joined(rec, m)
      /\ copy' = [copy EXCEPT ![c].rec = [rec EXCEPT !.auth = m.auth, !.group = m.group,
                                                     !.key = m.group]]
      /\ Goto(c, "save")
      /\ UNCHANGED <<daemon, stored, groups, conf, conn, pinned, marks>>

\* The answer of the daemon, put in the copy.  (GetLastSyncChange, made before the
\* request when the level allows writing, can only fail: see Fail.)
Status(c) ==
  LET rec == copy[c].rec
      m == member[copy[c].id]
      new == [rec EXCEPT !.auth = m.auth]
  IN  /\ call[c].pc = "status"
      /\ conn[rec.addr] # None
      /\ IF Joined(rec, m)
         THEN /\ copy' = [copy EXCEPT ![c].rec = [new EXCEPT !.group = m.group,
                                                             !.key = m.group]]
              /\ Goto(c, "sync")
         ELSE IF new = rec
              THEN Return(c) /\ LetGo(c)
              ELSE copy' = [copy EXCEPT ![c].rec = new] /\ Goto(c, "save")
      /\ UNCHANGED <<daemon, stored, groups, conf, conn, pinned, marks>>

\* Faulty StatusUnopened: the error is ignored.
StatusUnopenedIgnored(c) ==
  LET rec == copy[c].rec
      m == member[copy[c].id]
  IN  /\ "open" \in Faults
      /\ call[c].pc = "status"
      /\ conn[rec.addr] # None
      /\ Joined(rec, m)
      /\ copy' = [copy EXCEPT ![c].rec = [rec EXCEPT !.auth = m.auth, !.group = m.group]]
      /\ Goto(c, "sync")
      /\ UNCHANGED <<daemon, stored, groups, conf, conn, pinned, marks>>

\* The wrapped key cannot be opened: the copy has the new group and the old key.
StatusUnopened(c) ==
  LET rec == copy[c].rec
      m == member[copy[c].id]
  IN  /\ "open" \in Faults
      /\ call[c].pc = "status"
      /\ conn[rec.addr] # None
      /\ Joined(rec, m)
      /\ copy' = SetCopy(c, [copy[c] EXCEPT !.rec.auth = m.auth,
                                            !.rec.group = m.group, !.touched = TRUE])
      /\ Return(c)
      /\ UNCHANGED <<daemon, stored, groups, conf, conn, pinned, marks>>

\* SyncGroups for source i; the last step of the Create calls of "created".
Synced(i, g, created) ==
  /\ groups' = [groups EXCEPT ![i] = @ \cup {g}]
  /\ marks' = [marks EXCEPT
       !["ghost"] = IF i \in Held /\ \A e \in Callers : call[e].pc = "drop" => copy[e].id # i
                    THEN @ ELSE @ \cup {i},
       !["half"] = @ \ created]

SyncGroups(c) ==
  /\ call[c].pc = "sync"
  /\ Synced(copy[c].id, copy[c].rec.group, {})
  /\ Goto(c, "save")
  /\ UNCHANGED <<daemon, stored, conf, conn, copy, pinned>>

Save(c) ==
  /\ call[c].pc = "save"
  /\ Overwrite(c, copy[c])
  /\ Return(c)
  /\ UNCHANGED <<daemon, groups, conf, conn, pinned>>

--------------------------------------------------------------------------------
(* Create *)

Create(c, a) ==
  /\ call[c].pc = "idle"
  /\ call' = [call EXCEPT ![c] = [NoCall EXCEPT !.pc = "enroll", !.addr = a]]
  /\ SetConf(a, [NoConf EXCEPT !.kind = "create", !.owner = c])
  /\ UNCHANGED <<daemon, stored, groups, pinned, marks>>

\* The daemon enrols the unit, and may approve it at once; FindWhere follows.
Enroll(c, i) ==
  LET a == call[c].addr
      own == conf[a].kind = "create" /\ conf[a].owner = c
  IN  /\ call[c].pc = "enroll"
      /\ conn[a] # None
      /\ member[i] = NoMember
      /\ \E m \in Member :
           /\ m.auth = "waiting" <=> m.group = None
           /\ member' = [member EXCEPT ![i] = m]
           /\ call' = [call EXCEPT ![c].pc = "insert", ![c].id = i, ![c].got = m]
      /\ pinned' = [pinned EXCEPT ![i] = conn[a]]
      /\ conf' = IF own THEN [conf EXCEPT ![a].id = i] ELSE conf
      /\ marks' = Mark("crossed", i, ~own)
      /\ UNCHANGED <<daemonKey, stored, groups, conn, copy>>

\* The new record of a Create call.
Inserted(k) ==
  [addr |-> k.addr, pin |-> k.fp,
   auth |-> IF k.got.auth = "approved" THEN "new" ELSE k.got.auth,
   group |-> k.got.group, key |-> k.got.group]

\* Faulty Insert: the members are synchronised although no group was assigned.
InsertUnchecked(c) ==
  /\ call[c].pc = "insert"
  /\ stored' = [stored EXCEPT ![call[c].id] = Inserted(call[c])]
  /\ marks' = Mark("half", call[c].id, TRUE)
  /\ Goto(c, "members")
  /\ UNCHANGED <<daemon, groups, conf, conn, copy, pinned>>

\* Insert; its error is kept, and returned after SyncGroups.
Insert(c) ==
  LET i == call[c].id
      grouped == call[c].got.group # None
  IN  /\ call[c].pc = "insert"
      /\ \/ /\ stored' = [stored EXCEPT ![i] = Inserted(call[c])]
            /\ marks' = Mark("half", i, grouped)
         \/ "store" \in Faults /\ UNCHANGED <<stored, marks>>
      /\ IF grouped THEN Goto(c, "members") ELSE Return(c)
      /\ UNCHANGED <<daemon, groups, conf, conn, copy, pinned>>

Members(c) ==
  /\ call[c].pc = "members"
  /\ Synced(call[c].id, call[c].got.group, {call[c].id})
  /\ Return(c)
  /\ UNCHANGED <<daemon, stored, conf, conn, copy, pinned>>

--------------------------------------------------------------------------------
(* Delete *)

\* Find, and Destroy of every group of the source.
Delete(c) ==
  LET i == copy[c].id
  IN  /\ call[c].pc = "idle"
      /\ i \in Held
      /\ groups' = [groups EXCEPT ![i] = {}]
      /\ marks' = Mark("cleared", i, TRUE)
      /\ Goto(c, "drop")
      /\ UNCHANGED <<daemon, stored, conf, conn, copy, pinned>>

\* Faulty DeletePartly: the error of Destroy is ignored.
DeletePartlyIgnored(c) ==
  LET i == copy[c].id
  IN  /\ "groups" \in Faults
      /\ call[c].pc = "idle"
      /\ i \in Held
      /\ \E left \in SUBSET groups[i] : groups' = [groups EXCEPT ![i] = left]
      /\ marks' = Mark("cleared", i, TRUE)
      /\ Goto(c, "drop")
      /\ UNCHANGED <<daemon, stored, conf, conn, copy, pinned>>

\* Destroy stops at one of the groups.
DeletePartly(c) ==
  LET i == copy[c].id
  IN  /\ "groups" \in Faults
      /\ call[c].pc = "idle"
      /\ i \in Held
      /\ \E left \in SUBSET groups[i] : groups' = [groups EXCEPT ![i] = left]
      /\ marks' = Mark("cleared", i, TRUE)
      /\ UNCHANGED <<daemon, stored, conf, conn, copy, call, pinned>>

\* The node's directory, and the record.
Drop(c) ==
  /\ call[c].pc = "drop"
  /\ stored' = [stored EXCEPT ![copy[c].id] = NoRecord]
  /\ Return(c)
  /\ UNCHANGED <<daemon, groups, conf, conn, copy, pinned, marks>>

--------------------------------------------------------------------------------
(* Failures, the daemon *)

\* The operation at some place of a call fails, and the call returns its error.
\* CheckStatus has changed its copy by the time it synchronises and saves; a Save
\* also fails when the record is gone.  (FindWhere is "store" at "insert".)
FaultAt(pc) ==
  CASE pc \in {"status", "enroll"} -> {"net"}
    [] pc \in {"sync", "members"} -> {"groups"}
    [] pc \in {"save", "drop"} -> {"store"}
    [] pc = "insert" -> {"open", "store"}
    [] OTHER -> {}

Fail(c) ==
  LET pc == call[c].pc
  IN  /\ \/ FaultAt(pc) \cap Faults # {}
         \/ pc = "status" /\ copy[c].rec.auth = "approved" /\ "groups" \in Faults
         \/ pc = "save" /\ copy[c].id \notin Held
      /\ pc = "insert" /\ call[c].got.group = None => "store" \in Faults
      /\ copy' = SetCopy(c, IF pc \in {"sync", "save"}
                           THEN [copy[c] EXCEPT !.touched = TRUE] ELSE copy[c])
      /\ Return(c)
      /\ UNCHANGED <<daemon, stored, groups, conf, conn, pinned, marks>>

Crash ==
  /\ "crash" \in Faults
  /\ conf' = [a \in Addrs |-> NoConf]
  /\ conn' = [a \in Addrs |-> None]
  /\ copy' = [h \in Holders |-> NoCopy]
  /\ call' = [c \in Callers |-> NoCall]
  /\ UNCHANGED <<daemon, stored, groups, pinned, marks>>

\* The unit is approved, or moved to another group; the daemon gets a new key.
Admit(i) ==
  /\ member[i] # NoMember
  /\ \E g \in Groups \ {member[i].group} :
       member' = [member EXCEPT ![i] = [auth |-> "approved", group |-> g]]
  /\ UNCHANGED <<daemonKey, stored, groups, conf, conn, copy, call, pinned, marks>>

Rekey(a) ==
  /\ \E k \in Keys \ {daemonKey[a]} : daemonKey' = [daemonKey EXCEPT ![a] = k]
  /\ conn' = [conn EXCEPT ![a] = None]
  /\ UNCHANGED <<member, stored, groups, conf, copy, call, pinned, marks>>

Disconnect(a) ==
  /\ conn[a] # None
  /\ conn' = [conn EXCEPT ![a] = None]
  /\ UNCHANGED <<daemon, stored, groups, conf, copy, call, pinned, marks>>

--------------------------------------------------------------------------------
Connect(c, a) == ConnectPinned(c, a) \/ ConnectReset(c, a) \/ ConnectCreate(c, a)

CheckStep(c) ==
  \/ \E a \in Addrs : Connect(c, a) \/ Refused(c, a)
  \/ Status(c) \/ SyncGroups(c) \/ Save(c)

CreateStep(c) == (\E i \in Sources : Enroll(c, i)) \/ Insert(c) \/ Members(c)

Step(c) == CheckStep(c) \/ CreateStep(c) \/ Arm(c) \/ Drop(c)

Start(c) ==
  \/ Update(c) \/ Reset(c) \/ Delete(c) \/ CheckStatus(c)
  \/ \E i \in Sources : Get(c, i)
  \/ \E a \in Addrs : Create(c, a)

Fault(c) ==
  \/ ResetFails(c) \/ StatusUnopened(c) \/ DeletePartly(c) \/ Fail(c)
  \/ \E a \in Addrs : ResetUnwritten(c, a)

Environment ==
  \/ \E i \in Sources : Configure(i) \/ Admit(i)
  \/ \E a \in Addrs : Rekey(a) \/ Disconnect(a)

Next ==
  \/ \E c \in Callers :
       \/ Step(c) \/ Start(c) \/ Fault(c)
       \/ \E i \in Sources : Poll(c, i)
  \/ Environment
  \/ Crash

Spec == Init /\ [][Next]_vars

--------------------------------------------------------------------------------
(* Properties *)

\* The state has its shape.
TypeOK ==
  /\ daemonKey \in [Addrs -> Keys]
  /\ member \in [Sources -> Member \cup {NoMember}]
  /\ stored \in [Sources -> Record \cup {NoRecord}]
  /\ groups \in [Sources -> SUBSET Groups]
  /\ conf \in [Addrs -> Conf]
  /\ conn \in [Addrs -> Keys \cup {None}]
  /\ copy \in [Holders -> Copy \cup {NoCopy}]
  /\ call \in [Callers -> Call]
  /\ pinned \in [Sources -> Keys \cup {None}]
  /\ marks \in [Marks -> SUBSET Sources]

\* A record has the fingerprint that the last enrolment of its source, reset, or trust
\* by a function left for it had, unless it was written from a copy older than that, or
\* changed by a call that failed, or two calls configured the client for one daemon at
\* a time, or the function of its Create trusted another key once it was written.
PinKept ==
  \A i \in Held :
    Marked(i, {"old", "torn", "crossed", "unkept"}) \/ stored[i].pin = pinned[i]

\* A record never has the group of one assignment with the key of another, unless
\* a copy that a failed CheckStatus had changed was written.
GroupKeyWhole ==
  \A i \in Held : Marked(i, {"torn"}) \/ stored[i].key = stored[i].group

\* The group in a record has been synchronised (CheckStatus takes a group it finds
\* there for known, and never synchronises it again), unless Create or Delete was
\* cut short, or a copy that a failed call had changed was written.
GroupSynced ==
  \A i \in Held :
    \/ Marked(i, {"torn", "half", "cleared"})
    \/ stored[i].group \in groups[i] \cup {None}

\* No groups are left of a source without a record, however often Delete was cut
\* short, unless they were synchronised while it ran or after it.
NoOrphans ==
  \A i \in Sources : i \in Held \/ Marked(i, {"ghost"}) \/ groups[i] = {}

================================================================================
