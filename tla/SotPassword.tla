----------------------------- MODULE SotPassword -----------------------------
(***************************************************************************)
(* The password of the registry of sources and of the vault files:          *)
(* Access, Initialize and ChangePassword of                                 *)
(* src/app/sourceoftruth/service.go.                                        *)
(*                                                                          *)
(* The registry's file and the vault file of each source carry the same     *)
(* password.  ChangePassword changes them one after the other and returns   *)
(* at the first error; nothing is undone.  Sources are numbered in the      *)
(* order in which FindAll lists them, which is taken to stay the same.      *)
(* The store changes the password of one file entirely or not at all, and   *)
(* refuses another password than the file's.  The application calls         *)
(* ChangePassword from one goroutine, opens vaults and adds or deletes      *)
(* sources from others, and takes a new password for its own when the call  *)
(* returned nil.                                                            *)
(***************************************************************************)
EXTENDS Integers

CONSTANTS
  Sources,    \* sources of truth, in the order of FindAll
  Local,      \* Config.SotID, the source on this device
  Passwords,
  Faults,     \* "fail": an operation returns an error; "crash": the program stops
  None        \* no file, no password

ASSUME SotPasswordAssumption ==
  /\ Sources \subseteq Nat
  /\ Local \in Sources
  /\ Faults \subseteq {"fail", "crash"}
  /\ None \notin Passwords

VARIABLES
  main,      \* the password of the registry's file, None before the first Access
  listed,    \* the sources with a record
  file,      \* file[i]: the password of the vault file of i, or None
  dropping,  \* the sources whose directory Delete has removed, but not the record
  opened,    \* sotFile is set
  session,   \* the password the application works with, None before Access returned nil
  call,      \* Access or ChangePassword
  behind,    \* history: the password of the files a change cut short has not reached
  marks      \* history: "early", "lost", see below

vars == <<main, listed, file, dropping, opened, session, call, behind, marks>>

--------------------------------------------------------------------------------
Pcs == {"idle", "init", "list", "visit"}
Call == [pc : Pcs, from : Passwords \cup {None}, to : Passwords \cup {None},
         todo : SUBSET Sources]
NoCall == [pc |-> "idle", from |-> None, to |-> None, todo |-> {}]

\* early: a source was added although Access had not returned nil;
\* lost:  a vault file was created with the password of the session while that was
\*        being changed or was not the registry's, or a second change was cut short.
Marks == {"early", "lost"}
Mark(m, yes) == marks' = IF yes THEN marks \cup {m} ELSE marks

Init ==
  /\ main = None
  /\ listed = {}
  /\ file = [i \in Sources |-> None]
  /\ dropping = {}
  /\ opened = FALSE
  /\ session = None
  /\ call = NoCall
  /\ behind = None
  /\ marks = {}

--------------------------------------------------------------------------------
(* Access *)

\* Faulty Access: the file that was opened is not kept.
AccessForgotten(p) ==
  /\ call.pc = "idle"
  /\ main \in {None, p}
  /\ main' = p
  /\ IF listed = {}
     THEN call' = [NoCall EXCEPT !.pc = "init", !.to = p] /\ UNCHANGED session
     ELSE session' = p /\ UNCHANGED call
  /\ UNCHANGED <<listed, file, dropping, opened, behind, marks>>

\* The file is created, or opened if p is its password; the local source is put in
\* an empty one.
Access(p) ==
  /\ call.pc = "idle"
  /\ main \in {None, p}
  /\ main' = p
  /\ opened' = TRUE
  /\ IF listed = {}
     THEN call' = [NoCall EXCEPT !.pc = "init", !.to = p] /\ UNCHANGED session
     ELSE session' = p /\ UNCHANGED call
  /\ UNCHANGED <<listed, file, dropping, behind, marks>>

Initialize ==
  /\ call.pc = "init"
  /\ listed' = listed \cup {Local}
  /\ session' = call.to
  /\ call' = NoCall
  /\ UNCHANGED <<main, file, dropping, opened, behind, marks>>

\* Faulty InitializeFails: the error is not returned.
InitializeFailsIgnored ==
  /\ call.pc = "init"
  /\ "fail" \in Faults
  /\ session' = call.to
  /\ call' = NoCall
  /\ UNCHANGED <<main, listed, file, dropping, opened, behind, marks>>

InitializeFails ==
  /\ call.pc = "init"
  /\ "fail" \in Faults
  /\ call' = NoCall
  /\ UNCHANGED <<main, listed, file, dropping, opened, session, behind, marks>>

--------------------------------------------------------------------------------
(* ChangePassword *)

\* The registry's file comes first; it refuses another password than its own.
\* Unlike the other methods this one does not look whether Access was called (124): it
\* is taken to be called after it, as a call before it would stop on the nil file.
ChangePassword(p, q) ==
  /\ call.pc = "idle"
  /\ opened
  /\ main = p
  /\ main' = q
  /\ call' = [pc |-> "list", from |-> p, to |-> q, todo |-> {}]
  /\ UNCHANGED <<listed, file, dropping, opened, session, behind, marks>>

FindAll ==
  /\ call.pc = "list"
  /\ call' = [call EXCEPT !.pc = "visit", !.todo = listed]
  /\ UNCHANGED <<main, listed, file, dropping, opened, session, behind, marks>>

\* The loop is at i.
Turn(i) == i \in call.todo /\ \A j \in call.todo : i <= j

\* Faulty VaultMissing: a file that is not found ends the loop.
VaultMissingEnds(i) ==
  /\ call.pc = "visit" /\ Turn(i)
  /\ file[i] = None
  /\ call' = [call EXCEPT !.todo = {}]
  /\ UNCHANGED <<main, listed, file, dropping, opened, session, behind, marks>>

VaultMissing(i) ==
  /\ call.pc = "visit" /\ Turn(i)
  /\ file[i] = None
  /\ call' = [call EXCEPT !.todo = @ \ {i}]
  /\ UNCHANGED <<main, listed, file, dropping, opened, session, behind, marks>>

ChangeVault(i) ==
  /\ call.pc = "visit" /\ Turn(i)
  /\ file[i] = call.from
  /\ file' = [file EXCEPT ![i] = call.to]
  /\ call' = [call EXCEPT !.todo = @ \ {i}]
  /\ UNCHANGED <<main, listed, dropping, opened, session, behind, marks>>

\* The file has another password, and the call returns the error.  If an earlier
\* change was cut short here, the files from here on are still behind, unless this
\* call has brought the others back to their password.
VaultRefuses(i) ==
  /\ call.pc = "visit" /\ Turn(i)
  /\ file[i] \notin {None, call.from}
  /\ behind' = IF behind = call.to THEN None ELSE behind
  /\ call' = NoCall
  /\ UNCHANGED <<main, listed, file, dropping, opened, session, marks>>

Return ==
  /\ call.pc = "visit" /\ call.todo = {}
  /\ session' = IF session = None THEN None ELSE call.to
  /\ behind' = None
  /\ call' = NoCall
  /\ UNCHANGED <<main, listed, file, dropping, opened, marks>>

\* A change is cut short, by an error or by the end of the program.
CutShort ==
  /\ behind' = IF behind = None THEN call.from ELSE behind
  /\ Mark("lost", behind # None)

ChangeFails ==
  /\ call.pc = "list" \/ call.todo # {}
  /\ "fail" \in Faults
  /\ CutShort
  /\ call' = NoCall
  /\ UNCHANGED <<main, listed, file, dropping, opened, session>>

Crash ==
  /\ "crash" \in Faults
  /\ IF call.pc \in {"list", "visit"} THEN CutShort ELSE UNCHANGED <<behind, marks>>
  /\ dropping' = {}
  /\ opened' = FALSE
  /\ session' = None
  /\ call' = NoCall
  /\ UNCHANGED <<main, listed, file>>

--------------------------------------------------------------------------------
(* Meanwhile *)

\* Create; it only asks whether the registry's file is open.
AddSource(i) ==
  /\ opened
  /\ i \notin listed \cup {Local} /\ file[i] = None
  /\ listed' = listed \cup {i}
  /\ Mark("early", session = None)
  /\ UNCHANGED <<main, file, dropping, opened, session, call, behind>>

\* The application opens the vaults of a source for the first time.
OpenVault(i) ==
  /\ session # None
  /\ i \in listed /\ file[i] = None
  /\ file' = [file EXCEPT ![i] = session]
  /\ Mark("lost", call.pc \in {"list", "visit"} \/ behind # None \/ session # main)
  /\ UNCHANGED <<main, listed, dropping, opened, session, call, behind>>

\* Delete: the directory of the source, then its record.
RemoveDir(i) ==
  /\ opened
  /\ i \in listed \ {Local}
  /\ file' = [file EXCEPT ![i] = None]
  /\ dropping' = dropping \cup {i}
  /\ UNCHANGED <<main, listed, opened, session, call, behind, marks>>

RemoveRecord(i) ==
  /\ i \in dropping
  /\ listed' = listed \ {i}
  /\ dropping' = dropping \ {i}
  /\ UNCHANGED <<main, file, opened, session, call, behind, marks>>

--------------------------------------------------------------------------------
Change ==
  \/ \E p, q \in Passwords : ChangePassword(p, q)
  \/ FindAll \/ Return \/ ChangeFails
  \/ \E i \in Sources : VaultMissing(i) \/ ChangeVault(i) \/ VaultRefuses(i)

Meanwhile ==
  \E i \in Sources : AddSource(i) \/ OpenVault(i) \/ RemoveDir(i) \/ RemoveRecord(i)

Next ==
  \/ \E p \in Passwords : Access(p)
  \/ Initialize \/ InitializeFails
  \/ Change
  \/ Meanwhile
  \/ Crash

Spec == Init /\ [][Next]_vars

--------------------------------------------------------------------------------
(* Properties *)

\* The state has its shape, and an application that has a session has the registry
\* open.
TypeOK ==
  /\ main \in Passwords \cup {None}
  /\ listed \subseteq Sources
  /\ file \in [Sources -> Passwords \cup {None}]
  /\ dropping \subseteq Sources
  /\ opened \in BOOLEAN
  /\ session \in Passwords \cup {None}
  /\ call \in Call
  /\ behind \in Passwords \cup {None}
  /\ marks \subseteq Marks
  /\ session # None => opened

\* Every vault file has the password of the registry once ChangePassword returned
\* nil, and also once a change that was cut short has been followed by the opposite
\* one, which returns an error at the first file the former did not reach.
OnePassword ==
  call.pc = "idle" /\ behind = None /\ "lost" \notin marks =>
    \A i \in listed : file[i] \in {main, None}

\* After Access has returned nil the local source is there, however often Access
\* failed before, unless a source was added between: then the file is not empty and
\* Access does not initialise it again.
LocalListed == session # None => Local \in listed \/ "early" \in marks

================================================================================
