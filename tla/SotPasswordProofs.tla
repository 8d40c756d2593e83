-------------------------- MODULE SotPasswordProofs --------------------------
(***************************************************************************)
(* Proofs about SotPassword, for any sources and passwords.                  *)
(***************************************************************************)
EXTENDS SotPassword, TLAPS

--------------------------------------------------------------------------------
(* The inductive invariant *)

Base ==
  /\ TypeOK
  /\ call.pc \in {"list", "visit"} => /\ call.from \in Passwords /\ call.to \in Passwords
                                      /\ main = call.to /\ opened
  /\ call.pc = "init" => call.to \in Passwords /\ opened
  /\ call.pc # "visit" => call.todo = {}
  /\ opened => main # None
  /\ main = None => listed = {}
  /\ Local \notin dropping
  /\ Local \notin listed => file[Local] = None

LEMMA BaseInit == Init => Base
<1> SUFFICES ASSUME Init  PROVE Base
  OBVIOUS
<1>1. NoCall \in Call /\ NoCall.pc = "idle" /\ NoCall.todo = {}
  BY DEF NoCall, Call, Pcs
<1>2. TypeOK  BY <1>1 DEF Init, TypeOK, Marks
<1>3. file[Local] = None  BY SotPasswordAssumption DEF Init
<1> QED  BY <1>1, <1>2, <1>3 DEF Init, Base

LEMMA CallFacts ==
  /\ NoCall \in Call /\ NoCall.pc = "idle" /\ NoCall.todo = {}
  /\ \A p \in Passwords :
       LET k == [NoCall EXCEPT !.pc = "init", !.to = p]
       IN  k \in Call /\ k.pc = "init" /\ k.to = p /\ k.todo = {}
BY SotPasswordAssumption DEF NoCall, Call, Pcs

LEMMA BaseStep == Base /\ [Next]_vars => Base'
<1> SUFFICES ASSUME Base, [Next]_vars  PROVE Base'
  OBVIOUS
<1> USE SotPasswordAssumption
<1>1. TypeOK  BY DEF Base
<1>2. CASE UNCHANGED vars  BY <1>2 DEF Base, TypeOK, vars
<1>3. ASSUME NEW p \in Passwords, Access(p)  PROVE Base'
  <2>1. p # None  OBVIOUS
  <2>2. /\ main' = p /\ opened' = TRUE /\ main \in {None, p}
        /\ session' \in {session, p}
        /\ UNCHANGED <<listed, file, dropping, behind, marks>>
    BY <1>3 DEF Access
  <2>3. /\ call' \in Call /\ call'.todo = {}
        /\ call'.pc \in {"idle", "init"}
        /\ call'.pc = "init" => call'.to = p
    <3>1. CASE listed = {}
      <4>1. PICK k : k = [NoCall EXCEPT !.pc = "init", !.to = p]  OBVIOUS
      <4>2. call' = k  BY <1>3, <3>1, <4>1 DEF Access
      <4> QED  BY <4>1, <4>2, CallFacts
    <3>2. CASE listed # {}
      <4>1. call' = call /\ call.pc = "idle"  BY <1>3, <3>2 DEF Access
      <4> QED  BY <1>1, <4>1 DEF TypeOK, Base
    <3> QED  BY <3>1, <3>2
  <2> QED  BY <2>1, <2>2, <2>3 DEF Base, TypeOK
<1>4. CASE Initialize
  BY ZenonT(60), <1>4, CallFacts DEF Initialize, Base, TypeOK
<1>5. CASE InitializeFails
  BY <1>5, CallFacts DEF InitializeFails, Base, TypeOK
<1>6. ASSUME NEW p \in Passwords, NEW q \in Passwords, ChangePassword(p, q)
      PROVE  Base'
  <2>1. PICK k : k = [pc |-> "list", from |-> p, to |-> q, todo |-> {}]  OBVIOUS
  <2>2. k \in Call /\ k.pc = "list" /\ k.from = p /\ k.to = q /\ k.todo = {}
    BY <2>1 DEF Call, Pcs
  <2>3. call' = k  BY <1>6, <2>1 DEF ChangePassword
  <2>4. p # None /\ q # None  OBVIOUS
  <2> QED  BY <1>6, <2>2, <2>3, <2>4 DEF ChangePassword, Base, TypeOK
<1>7. CASE FindAll
  <2>1. PICK k : k = [call EXCEPT !.pc = "visit", !.todo = listed]  OBVIOUS
  <2>2. k \in Call /\ k.pc = "visit" /\ k.from = call.from /\ k.to = call.to
    BY <1>1, <2>1 DEF TypeOK, Call, Pcs
  <2>3. call' = k /\ call.pc = "list"  BY <1>7, <2>1 DEF FindAll
  <2> QED  BY <1>7, <2>2, <2>3 DEF FindAll, Base, TypeOK
<1>8. ASSUME NEW i \in Sources, VaultMissing(i) \/ ChangeVault(i)  PROVE Base'
  <2>1. PICK k : k = [call EXCEPT !.todo = @ \ {i}]  OBVIOUS
  <2>2. k \in Call /\ k.pc = call.pc /\ k.from = call.from /\ k.to = call.to
    BY <1>1, <2>1 DEF TypeOK, Call
  <2>3. call' = k /\ call.pc = "visit"  BY <1>8, <2>1 DEF VaultMissing, ChangeVault
  <2>4. call.from # None /\ call.to \in Passwords  BY <2>3 DEF Base
  <2> QED  BY <1>8, <2>2, <2>3, <2>4 DEF VaultMissing, ChangeVault, Base, TypeOK
<1>9. ASSUME NEW i \in Sources, VaultRefuses(i)  PROVE Base'
  BY <1>9, CallFacts DEF VaultRefuses, Base, TypeOK
<1>10. CASE Return
  BY <1>10, CallFacts DEF Return, Base, TypeOK
<1>11. CASE ChangeFails
  <2>1. call.pc \in {"list", "visit"} => call.from \in Passwords  BY DEF Base
  <2>2. call.from \in Passwords \cup {None}  BY <1>1 DEF TypeOK, Call
  <2> QED  BY <1>11, <2>2, CallFacts DEF ChangeFails, CutShort, Mark, Marks, Base, TypeOK
<1>12. CASE Crash
  <2>1. call.from \in Passwords \cup {None}  BY <1>1 DEF TypeOK, Call
  <2>2. behind' \in Passwords \cup {None} /\ marks' \subseteq Marks
    BY <1>1, <1>12, <2>1 DEF Crash, CutShort, Mark, Marks, TypeOK
  <2>3. /\ call' = NoCall /\ session' = None /\ opened' = FALSE /\ dropping' = {}
        /\ UNCHANGED <<main, listed, file>>
    BY <1>12 DEF Crash
  <2> QED  BY <2>2, <2>3, CallFacts DEF Base, TypeOK
<1>13. ASSUME NEW i \in Sources,
              AddSource(i) \/ OpenVault(i) \/ RemoveDir(i) \/ RemoveRecord(i)
       PROVE  Base'
  <2>1. CASE AddSource(i)
    BY <2>1 DEF AddSource, Mark, Marks, Base, TypeOK
  <2>2. CASE OpenVault(i)
    <3>1. i \in listed /\ marks' \subseteq Marks /\ file' = [file EXCEPT ![i] = session]
          /\ UNCHANGED <<main, listed, dropping, opened, session, call, behind>>
      BY <1>1, <2>2 DEF OpenVault, Mark, Marks, TypeOK
    <3>2. Local \notin listed => file'[Local] = file[Local]
      BY <1>1, <3>1 DEF TypeOK
    <3> QED  BY <3>1, <3>2 DEF Base, TypeOK
  <2>3. CASE RemoveDir(i)
    BY <2>3 DEF RemoveDir, Base, TypeOK
  <2>4. CASE RemoveRecord(i)
    <3>1. i # Local  BY <2>4 DEF RemoveRecord, Base
    <3> QED  BY <2>4, <3>1 DEF RemoveRecord, Base, TypeOK
  <2> QED  BY <1>13, <2>1, <2>2, <2>3, <2>4
<1> QED  BY <1>2, <1>3, <1>4, <1>5, <1>6, <1>7, <1>8, <1>9, <1>10, <1>11, <1>12, <1>13
      DEF Next, Change, Meanwhile

\* In every reachable state the files, the sources and the call have their shape, and
\* the application has a session only while the service has the registry open.
THEOREM TypeCorrect == Spec => []TypeOK
<1>1. Init => Base  BY BaseInit
<1>2. Base /\ [Next]_vars => Base'  BY BaseStep
<1>3. Base => TypeOK  BY DEF Base
<1> QED  BY <1>1, <1>2, <1>3, PTL DEF Spec

LEMMA BaseAlways == Spec => []Base
<1>1. Init => Base  BY BaseInit
<1>2. Base /\ [Next]_vars => Base'  BY BaseStep
<1> QED  BY <1>1, <1>2, PTL DEF Spec

--------------------------------------------------------------------------------
(* The local source *)

Rooted == listed # {} \/ session # None => Local \in listed \/ "early" \in marks

LEMMA RootedStep == Base /\ Rooted /\ [Next]_vars => Rooted'
<1> SUFFICES ASSUME Base, Rooted, [Next]_vars  PROVE Rooted'
  OBVIOUS
<1>1. CASE UNCHANGED vars  BY <1>1 DEF Rooted, vars
<1>2. CASE \E p \in Passwords : Access(p)  BY <1>2 DEF Access, Rooted
<1>3. CASE Initialize  BY <1>3 DEF Initialize, Rooted
<1>4. CASE InitializeFails  BY <1>4 DEF InitializeFails, Rooted
<1>5. CASE Change
  BY <1>5 DEF Change, ChangePassword, FindAll, Return, ChangeFails, CutShort, Mark,
      VaultMissing, ChangeVault, VaultRefuses, Rooted
<1>6. CASE Crash  BY <1>6 DEF Crash, CutShort, Mark, Rooted
<1>7. ASSUME NEW i \in Sources, RemoveRecord(i)  PROVE Rooted'
  BY <1>7 DEF RemoveRecord, Base, Rooted
<1>8. ASSUME NEW i \in Sources, AddSource(i) \/ OpenVault(i) \/ RemoveDir(i)
      PROVE  Rooted'
  BY <1>8 DEF AddSource, OpenVault, RemoveDir, Mark, Rooted
<1> QED  BY <1>1, <1>2, <1>3, <1>4, <1>5, <1>6, <1>7, <1>8 DEF Next, Meanwhile

\* Access (74-118) initialises an empty registry, also after an Access that failed
\* to, unless a source has been added to it between.
THEOREM LocalSourceThere == Spec => []LocalListed
<1>1. Init => Rooted  BY DEF Init, Rooted
<1>2. Base /\ Rooted /\ [Next]_vars => Rooted'  BY RootedStep
<1>3. Rooted => LocalListed  BY DEF Rooted, LocalListed
<1> QED  BY <1>1, <1>2, <1>3, BaseAlways, PTL DEF Spec

--------------------------------------------------------------------------------
(* One password *)

\* The sources up to some place in the order of FindAll.
Down(L) == \A i \in L, j \in Sources : j < i => j \in L

\* The files of L have the password a, the others b; None for no file.
Split(L, a, b) == \A i \in listed : file[i] \in {None, IF i \in L THEN a ELSE b}

\* The loop of ChangePassword has changed the files before "todo"; those of L had the
\* password that is being changed.
Visiting(L) ==
  /\ \A i \in listed \ call.todo :
       \/ file[i] = None
       \/ file[i] = call.to /\ i \in L /\ \A j \in call.todo : i < j
  /\ \A i \in call.todo : file[i] \in {None, IF i \in L THEN call.from ELSE behind}

Files(L) ==
  /\ call.pc \in {"idle", "init"} => Split(L, main, behind)
  /\ call.pc = "list" => Split(L, call.from, behind)
  /\ call.pc = "visit" => Visiting(L)

Ordered == "lost" \in marks \/ \E L \in SUBSET Sources : Down(L) /\ Files(L)

LEMMA SourceFacts == Down(Sources) /\ \A i \in Sources : i \in Int
BY SotPasswordAssumption DEF Down

LEMMA OrderedStep == Base /\ Ordered /\ [Next]_vars => Ordered'
<1> SUFFICES ASSUME Base, Ordered, [Next]_vars, "lost" \notin marks'  PROVE Ordered'
  BY DEF Ordered
<1> USE SotPasswordAssumption
<1>1. TypeOK  BY DEF Base
<1>2. "lost" \notin marks
  BY DEF Next, Change, Meanwhile, Access, Initialize, InitializeFails, ChangePassword,
     FindAll, Return, ChangeFails, CutShort, VaultMissing, ChangeVault, VaultRefuses,
     AddSource, OpenVault, RemoveDir, RemoveRecord, Crash, Mark, vars
<1>3. PICK L \in SUBSET Sources : Down(L) /\ Files(L)  BY <1>2 DEF Ordered
<1>4. ASSUME NEW M \in SUBSET Sources, Down(M), Files(M)'  PROVE Ordered'
  BY <1>4 DEF Ordered
<1>5. NoCall.pc = "idle"  BY CallFacts
<1>6. call.todo \subseteq Sources /\ listed \subseteq Sources  BY <1>1 DEF TypeOK, Call
<1>0. \A i \in call.todo : i \in Sources /\ i \in Int
  BY <1>6, SourceFacts
<1>7. CASE UNCHANGED vars
  <2>1. Files(L)'  BY <1>3, <1>7 DEF Files, Split, Visiting, vars
  <2> QED  BY <1>3, <1>4, <2>1
<1>8. ASSUME NEW p \in Passwords, Access(p)  PROVE Ordered'
  <2>1. call.pc = "idle" /\ call'.pc \in {"idle", "init"}
    <3>1. PICK k : k = [NoCall EXCEPT !.pc = "init", !.to = p]  OBVIOUS
    <3>2. call.pc = "idle" /\ call' \in {call, k}  BY <1>8, <3>1 DEF Access
    <3>3. k.pc = "init"  BY <3>1, CallFacts
    <3> QED  BY <3>2, <3>3
  <2>2. listed = {} \/ main' = main  BY <1>8 DEF Access, Base
  <2>3. Split(L, main, behind)'
    BY <1>3, <1>8, <2>1, <2>2 DEF Files, Split, Access
  <2>4. Files(L)'  BY <2>1, <2>3 DEF Files, Split
  <2> QED  BY <1>3, <1>4, <2>4
<1>9. CASE Initialize
  <2>1. file[Local] = None \/ Local \in listed  BY DEF Base
  <2>2. Files(L)'  BY <1>3, <1>5, <1>9, <2>1 DEF Files, Split, Initialize
  <2> QED  BY <1>3, <1>4, <2>2
<1>10. CASE InitializeFails
  <2>1. Files(L)'  BY <1>3, <1>5, <1>10 DEF Files, Split, InitializeFails
  <2> QED  BY <1>3, <1>4, <2>1
<1>11. ASSUME NEW p \in Passwords, NEW q \in Passwords, ChangePassword(p, q)
       PROVE  Ordered'
  <2>1. call'.pc = "list" /\ call'.from = main /\ call.pc = "idle"
    BY <1>11 DEF ChangePassword
  <2>2. Split(L, main, behind) /\ UNCHANGED <<listed, file, behind>>
    BY <1>3, <1>11, <2>1 DEF Files, ChangePassword
  <2>3. Files(L)'  BY <2>1, <2>2 DEF Files, Split
  <2> QED  BY <1>3, <1>4, <2>3
<1>12. CASE FindAll
  <2>1. /\ call'.pc = "visit" /\ call'.from = call.from /\ call'.to = call.to
        /\ call'.todo = listed /\ call.pc = "list"
        /\ UNCHANGED <<listed, file, behind>>
    BY <1>1, <1>12 DEF FindAll, TypeOK, Call
  <2>2. Split(L, call.from, behind)  BY <1>3, <2>1 DEF Files
  <2>3. Visiting(L)'  BY <2>1, <2>2 DEF Split, Visiting
  <2>4. Files(L)'  BY <2>1, <2>3 DEF Files, Visiting
  <2> QED  BY <1>3, <1>4, <2>4
<1>13. ASSUME NEW i \in Sources, VaultMissing(i)  PROVE Ordered'
  <2>1. /\ call'.pc = "visit" /\ call'.from = call.from /\ call'.to = call.to
        /\ call'.todo = call.todo \ {i} /\ call.pc = "visit" /\ file[i] = None
        /\ UNCHANGED <<listed, file, behind>>
    BY <1>1, <1>13 DEF VaultMissing, TypeOK, Call
  <2>2. Visiting(L)  BY <1>3, <2>1 DEF Files
  <2>3. Visiting(L)'  BY <2>1, <2>2 DEF Visiting
  <2>4. Files(L)'  BY <2>1, <2>3 DEF Files, Visiting
  <2> QED  BY <1>3, <1>4, <2>4
<1>14. ASSUME NEW i \in Sources, ChangeVault(i)  PROVE Ordered'
  <2>1. /\ call'.pc = "visit" /\ call'.from = call.from /\ call'.to = call.to
        /\ call'.todo = call.todo \ {i} /\ call.pc = "visit" /\ file[i] = call.from
        /\ i \in call.todo /\ \A j \in call.todo : i <= j
        /\ file'[i] = call.to /\ \A j \in Sources \ {i} : file'[j] = file[j]
        /\ UNCHANGED <<listed, behind>>
    BY <1>1, <1>14 DEF ChangeVault, Turn, TypeOK, Call
  <2>2. Visiting(L) /\ call.from # None  BY <1>3, <2>1 DEF Files, Base
  <2>3. \A j \in call.todo \ {i} : i < j
    <3>1. ASSUME NEW j \in call.todo \ {i}  PROVE i < j
      <4>1. i \in Int /\ j \in Int /\ i <= j /\ i # j  BY <1>0, <2>1
      <4> QED  BY <4>1
    <3> QED  BY <3>1
  <2>4. PICK M \in SUBSET Sources :
          /\ Down(M) /\ i \in M /\ L \subseteq M
          /\ \A j \in call.todo : file[j] \in {None, IF j \in M THEN call.from ELSE behind}
    <3>1. CASE i \in L  BY <1>3, <2>2, <3>1 DEF Visiting
    <3>2. CASE i \notin L
      <4>1. behind = call.from  BY <2>1, <2>2, <3>2 DEF Visiting
      <4>2. \A j \in call.todo : file[j] \in {None, call.from}
        BY <2>2, <4>1 DEF Visiting
      <4> QED  BY <1>6, <4>2, SourceFacts
    <3> QED  BY <3>1, <3>2
  <2>5. Visiting(M)'
    <3>1. ASSUME NEW j \in listed' \ call'.todo
          PROVE  \/ file'[j] = None
                 \/ file'[j] = call'.to /\ j \in M /\ \A k \in call'.todo : j < k
      <4>1. CASE j = i  BY <2>1, <2>3, <2>4, <4>1
      <4>2. CASE j # i
        <5>1. j \in listed \ call.todo /\ file'[j] = file[j]  BY <1>6, <2>1, <3>1, <4>2
        <5> QED  BY <2>1, <2>2, <2>4, <5>1 DEF Visiting
      <4> QED  BY <4>1, <4>2
    <3>2. ASSUME NEW j \in call'.todo
          PROVE  file'[j] \in {None, IF j \in M THEN call'.from ELSE behind'}
      BY <1>6, <2>1, <2>4, <3>2
    <3> QED  BY <3>1, <3>2 DEF Visiting
  <2>6. Files(M)'  BY <2>1, <2>5 DEF Files, Visiting
  <2> QED  BY <1>4, <2>4, <2>6
<1>15. ASSUME NEW i \in Sources, VaultRefuses(i)  PROVE Ordered'
  <2>1. /\ call' = NoCall /\ call.pc = "visit" /\ file[i] \notin {None, call.from}
        /\ i \in call.todo /\ \A j \in call.todo : i <= j
        /\ behind' = IF behind = call.to THEN None ELSE behind
        /\ UNCHANGED <<main, listed, file>>
    BY <1>15 DEF VaultRefuses, Turn
  <2>2. Visiting(L) /\ main = call.to  BY <1>3, <2>1 DEF Files, Base
  <2>3. i \notin L  BY <2>1, <2>2 DEF Visiting
  <2>4. ASSUME NEW j \in call.todo  PROVE j \notin L
    <3>1. i \in Int /\ j \in Int /\ i <= j  BY <1>0, <2>1
    <3>2. i = j \/ i < j  BY <3>1
    <3> QED  BY <1>3, <2>3, <3>2 DEF Down
  <2>5. \A j \in listed : \/ file[j] = None
                          \/ file[j] = main /\ j \in L
                          \/ file[j] = behind /\ j \notin L
    BY <2>2, <2>4 DEF Visiting
  <2>6. CASE behind = call.to
    <3>1. Split(Sources, main, behind)'  BY <1>6, <2>1, <2>2, <2>5, <2>6 DEF Split
    <3>2. Files(Sources)'  BY <1>5, <2>1, <3>1 DEF Files, Split
    <3> QED  BY <1>4, <3>2, SourceFacts
  <2>7. CASE behind # call.to
    <3>1. Split(L, main, behind)'  BY <2>1, <2>5, <2>7 DEF Split
    <3>2. Files(L)'  BY <1>5, <2>1, <3>1 DEF Files, Split
    <3> QED  BY <1>3, <1>4, <3>2
  <2> QED  BY <2>6, <2>7
<1>16. CASE Return
  <2>1. /\ call' = NoCall /\ call.pc = "visit" /\ call.todo = {} /\ behind' = None
        /\ UNCHANGED <<main, listed, file>>
    BY <1>16 DEF Return
  <2>2. Visiting(L) /\ main = call.to  BY <1>3, <2>1 DEF Files, Base
  <2>3. Split(Sources, main, behind)'  BY <1>6, <2>1, <2>2 DEF Split, Visiting
  <2>4. Files(Sources)'  BY <1>5, <2>1, <2>3 DEF Files, Split
  <2> QED  BY <1>4, <2>4, SourceFacts
<1>17. ASSUME call.pc \in {"list", "visit"}, CutShort, call' = NoCall,
              UNCHANGED <<main, listed, file>>
       PROVE  Ordered'
  <2>1. behind = None /\ behind' = call.from  BY <1>17 DEF CutShort, Mark
  <2>2. PICK M : M = {i \in Sources : call.pc = "visit" /\ \A j \in call.todo : i < j}
    OBVIOUS
  <2>3. Down(M)
    <3>1. ASSUME NEW i \in M, NEW k \in Sources, k < i  PROVE k \in M
      <4>1. ASSUME NEW j \in call.todo  PROVE k < j
        <5>1. i < j /\ i \in Int /\ j \in Int /\ k \in Int
          BY <1>0, <2>2, <3>1, SourceFacts
        <5> QED  BY <3>1, <5>1
      <4> QED  BY <2>2, <3>1, <4>1
    <3> QED  BY <3>1 DEF Down
  <2>4. Split(M, main, call.from)
    <3>1. CASE call.pc = "list"
      <4>1. Split(L, call.from, None)  BY <1>3, <2>1, <3>1 DEF Files
      <4> QED  BY <2>2, <3>1, <4>1 DEF Split
    <3>2. CASE call.pc = "visit"
      <4>1. Visiting(L) /\ main = call.to  BY <1>3, <3>2 DEF Files, Base
      <4>2. ASSUME NEW i \in listed \cap call.todo
            PROVE  i \notin M /\ file[i] \in {None, call.from}
        <5>1. i \in Int /\ ~(i < i)  BY <1>0, <4>2
        <5>2. i \notin M  BY <2>2, <3>2, <4>2, <5>1
        <5> QED  BY <2>1, <4>1, <4>2, <5>2 DEF Visiting
      <4>3. ASSUME NEW i \in listed \ call.todo, file[i] # None
            PROVE  i \in M /\ file[i] = main
        BY <1>6, <2>2, <3>2, <4>1, <4>3 DEF Visiting
      <4> QED  BY <4>2, <4>3 DEF Split
    <3> QED  BY <1>17, <3>1, <3>2
  <2>5. Files(M)'  BY <1>5, <1>17, <2>1, <2>4 DEF Files, Split
  <2>6. M \in SUBSET Sources  BY <2>2
  <2> QED  BY <1>4, <2>3, <2>5, <2>6
<1>18. CASE ChangeFails
  <2>1. call.pc \in {"list", "visit"}  BY <1>18 DEF ChangeFails, Base
  <2> QED  BY <1>17, <1>18, <2>1 DEF ChangeFails
<1>19. CASE Crash
  <2>1. CASE call.pc \in {"list", "visit"}  BY <1>17, <1>19, <2>1 DEF Crash
  <2>2. CASE call.pc \in {"idle", "init"}
    <3>1. Files(L)'  BY <1>3, <1>5, <1>19, <2>2 DEF Files, Split, Crash
    <3> QED  BY <1>3, <1>4, <3>1
  <2> QED  BY <1>1, <2>1, <2>2 DEF TypeOK, Call, Pcs
<1>20. ASSUME NEW i \in Sources, AddSource(i)  PROVE Ordered'
  <2>1. /\ file[i] = None /\ listed' = listed \cup {i}
        /\ UNCHANGED <<main, file, call, behind>>
    BY <1>20 DEF AddSource
  <2>2. Files(L)'  BY <1>3, <2>1 DEF Files, Split, Visiting
  <2> QED  BY <1>3, <1>4, <2>2
<1>21. ASSUME NEW i \in Sources, OpenVault(i)  PROVE Ordered'
  <2>1. /\ call.pc \notin {"list", "visit"} /\ behind = None
        /\ file' = [file EXCEPT ![i] = main]
        /\ UNCHANGED <<main, listed, call, behind>>
    BY <1>21 DEF OpenVault, Mark
  <2>2. \A j \in listed : file[j] \in {None, main}
    BY <1>1, <1>3, <2>1 DEF Files, Split, TypeOK, Call, Pcs
  <2>3. Split(Sources, main, behind)'  BY <1>1, <1>6, <2>1, <2>2 DEF Split, TypeOK
  <2>4. Files(Sources)'  BY <2>1, <2>3 DEF Files, Split
  <2> QED  BY <1>4, <2>4, SourceFacts
<1>22. ASSUME NEW i \in Sources, RemoveDir(i)  PROVE Ordered'
  <2>1. /\ file' = [file EXCEPT ![i] = None]
        /\ UNCHANGED <<main, listed, call, behind>>
    BY <1>22 DEF RemoveDir
  <2>2. \A j \in Sources : file'[j] \in {file[j], None}  BY <1>1, <2>1 DEF TypeOK
  <2>3. Files(L)'  BY <1>3, <1>6, <2>1, <2>2 DEF Files, Split, Visiting
  <2> QED  BY <1>3, <1>4, <2>3
<1>23. ASSUME NEW i \in Sources, RemoveRecord(i)  PROVE Ordered'
  <2>1. listed' \subseteq listed /\ UNCHANGED <<main, file, call, behind>>
    BY <1>23 DEF RemoveRecord
  <2>2. Files(L)'  BY <1>3, <2>1 DEF Files, Split, Visiting
  <2> QED  BY <1>3, <1>4, <2>2
<1> QED  BY <1>7, <1>8, <1>9, <1>10, <1>11, <1>12, <1>13, <1>14, <1>15, <1>16, <1>18,
        <1>19, <1>20, <1>21, <1>22, <1>23 DEF Next, Change, Meanwhile

\* ChangePassword (120-173): after it returned nil, and after a change that was cut
\* short and the opposite one, every vault file has the password of the registry.
THEOREM OnePasswordKept == Spec => []OnePassword
<1>1. Init => Ordered
  <2>1. ASSUME Init  PROVE Ordered
    <3>1. Files(Sources)  BY <2>1, CallFacts DEF Init, Files, Split
    <3> QED  BY <3>1, SourceFacts DEF Ordered
  <2> QED  BY <2>1
<1>2. Base /\ Ordered /\ [Next]_vars => Ordered'  BY OrderedStep
<1>3. Ordered => OnePassword
  <2>1. ASSUME Ordered, call.pc = "idle", behind = None, "lost" \notin marks
        PROVE  \A i \in listed : file[i] \in {main, None}
    <3>1. PICK L \in SUBSET Sources : Files(L)  BY <2>1 DEF Ordered
    <3> QED  BY <2>1, <3>1 DEF Files, Split
  <2> QED  BY <2>1 DEF OnePassword
<1> QED  BY <1>1, <1>2, <1>3, BaseAlways, PTL DEF Spec

================================================================================
