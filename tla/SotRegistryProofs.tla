-------------------------- MODULE SotRegistryProofs --------------------------
(***************************************************************************)
(* Proofs about SotRegistry, for any callers, sources and daemons.           *)
(***************************************************************************)
EXTENDS SotRegistry, TLAPS

--------------------------------------------------------------------------------
(* The inductive invariant *)

\* What the place of a call says of the call and of its caller's copy.
Stage(c) ==
  LET k == call[c]
  IN  /\ k.pc \in {"status", "sync", "save", "arm", "drop"} => copy[c] # NoCopy
      /\ c \in Pollers /\ copy[c] # NoCopy => k.pc \in {"status", "sync", "save"}
      /\ k.pc = "sync" => copy[c].rec.group # None
      /\ k.pc \in {"enroll", "insert", "members"} <=> k.addr # None
      /\ k.pc \in {"insert", "members"} <=> k.id # None
      /\ k.pc \in {"insert", "members"} => k.got \in Member
      /\ k.pc = "members" => k.got.group # None

\* The function left with the client for a refers to a copy, or to a call.
Left(a) ==
  /\ conf[a].kind = "reset" => /\ conf[a].owner \in (Callers \ Pollers) \cup {a}
                               /\ copy[conf[a].owner] # NoCopy
  /\ conf[a].kind = "create" => conf[a].owner \in Callers

\* Only a source the daemon has enrolled is known anywhere, by one Create call.
Known(i) ==
  /\ member[i] = NoMember => /\ i \notin Held
                             /\ \A h \in Holders : copy[h].id # i
                             /\ \A c \in Callers : call[c].id # i
  /\ \A c, d \in Callers : call[c].id = i /\ call[d].id = i => c = d
  /\ \A c \in Callers : call[c].id = i /\ call[c].pc = "insert" =>
       i \notin Held /\ \A h \in Holders : copy[h].id # i

Base ==
  /\ TypeOK
  /\ \A c \in Callers : Stage(c)
  /\ \A a \in Addrs : Left(a)
  /\ \A i \in Sources : Known(i)

--------------------------------------------------------------------------------
(* Facts about records and copies *)

LEMMA NoneFacts ==
  /\ None \notin Callers /\ None \notin Sources /\ None \notin Addrs
  /\ None \notin Keys /\ None \notin Groups
  /\ Pollers \subseteq Callers
  /\ \A h \in Callers : h \in Holders /\ h \notin Addrs
  /\ \A h \in Addrs : h \in Holders /\ h \notin Callers /\ h \notin Pollers
BY SotRegistryAssumption DEF Holders

LEMMA RecordFacts ==
  /\ \A r \in Record : r # NoRecord
  /\ \A x \in Copy : x # NoCopy /\ x.id \in Sources /\ x.id # None
  /\ NoCopy.id = None
  /\ NoMember \notin Member
<1>1. ASSUME NEW r \in Record  PROVE r # NoRecord
  <2>1. r.addr \in Addrs /\ NoRecord.addr = None  BY DEF Record, NoRecord
  <2> QED  BY <2>1, NoneFacts
<1>2. ASSUME NEW x \in Copy  PROVE x # NoCopy /\ x.id \in Sources /\ x.id # None
  <2>1. x.id \in Sources /\ NoCopy.id = None  BY DEF Copy, NoCopy
  <2> QED  BY <2>1, NoneFacts
<1>3. NoMember \notin Member
  <2>1. NoMember.auth = "none"  BY DEF NoMember
  <2>2. \A m \in Member : m.auth # "none"  BY DEF Member
  <2> QED  BY <2>1, <2>2
<1> QED  BY <1>1, <1>2, <1>3 DEF NoCopy

LEMMA CurrentFacts ==
  ASSUME NEW i \in Sources, NEW r \in Record
  PROVE  /\ Current(i, r) \in Copy
         /\ Current(i, r).id = i /\ Current(i, r).rec = r
         /\ Current(i, r).behind = FALSE /\ Current(i, r).touched = FALSE
BY DEF Current, Copy

LEMMA HeldFacts ==
  ASSUME TypeOK
  PROVE  /\ \A i \in Held : i \in Sources /\ stored[i] \in Record
         /\ \A h \in Holders : copy[h] # NoCopy =>
              /\ copy[h] \in Copy /\ copy[h].id \in Sources /\ copy[h].rec \in Record
              /\ copy[h].behind \in BOOLEAN /\ copy[h].touched \in BOOLEAN
         /\ \A h \in Holders : copy[h].id # None => copy[h] # NoCopy
BY RecordFacts, NoneFacts DEF TypeOK, Held, Copy

LEMMA TrustingFacts ==
  ASSUME TypeOK, NEW a \in Addrs, Left(a), conf[a].kind = "reset"
  PROVE  LET h == conf[a].owner
         IN  /\ h \in Holders /\ h \notin Pollers /\ copy[h] \in Copy
             /\ Trusting(a) \in Copy
             /\ Trusting(a).id = copy[h].id
             /\ Trusting(a).rec = [copy[h].rec EXCEPT !.pin = daemonKey[a]]
             /\ Trusting(a).behind = FALSE
             /\ (copy[h].touched => Trusting(a).touched)
             /\ (h \in Callers /\ call[h].pc = "sync" => Trusting(a).touched)
<1> DEFINE h == conf[a].owner
           midway == h \in Callers /\ call[h].pc \in {"sync", "save"}
           x == copy[h]
<1>1. h \in Holders /\ h \notin Pollers /\ x \in Copy
  BY HeldFacts, NoneFacts DEF Left, Holders
<1>2. x.rec \in Record /\ daemonKey[a] \in Keys /\ x.touched \in BOOLEAN
      /\ x.id \in Sources
  BY <1>1 DEF TypeOK, Copy
<1>3. [x.rec EXCEPT !.pin = daemonKey[a]] \in Record  BY <1>2 DEF Record
<1>4. Trusting(a) = [x EXCEPT !.rec.pin = daemonKey[a], !.behind = FALSE,
                              !.touched = @ \/ midway]
  BY DEF Trusting
<1>5. (x.touched \/ midway) \in BOOLEAN  OBVIOUS
<1> HIDE DEF h, midway, x
<1>6. Trusting(a) \in Copy  BY <1>1, <1>2, <1>3, <1>4, <1>5 DEF Copy
<1>7. /\ Trusting(a).id = x.id
      /\ Trusting(a).rec = [x.rec EXCEPT !.pin = daemonKey[a]]
      /\ Trusting(a).behind = FALSE
      /\ Trusting(a).touched = (x.touched \/ midway)
  BY <1>1, <1>4 DEF Copy
<1> QED  BY <1>1, <1>6, <1>7 DEF h, x, midway

\* What a write of the copy x of h leaves.
Overtaken(y, x) == y.id = x.id /\ y.rec.pin # x.rec.pin

LEMMA OverwriteFacts ==
  ASSUME TypeOK, NEW h \in Holders, NEW x \in Copy, Overwrite(h, x)
  PROVE  /\ x.id \in Held
         /\ stored' \in [Sources -> Record \cup {NoRecord}]
         /\ copy' \in [Holders -> Copy \cup {NoCopy}]
         /\ marks' \in [Marks -> SUBSET Sources]
         /\ Held' = Held
         /\ stored'[x.id] = x.rec
         /\ \A i \in Sources : i # x.id => stored'[i] = stored[i]
         /\ copy'[h] = IF h \in Pollers THEN NoCopy ELSE Current(x.id, x.rec)
         /\ \A e \in Holders \ {h} :
              /\ copy'[e] # NoCopy <=> copy[e] # NoCopy
              /\ copy[e] # NoCopy =>
                   /\ copy'[e].id = copy[e].id /\ copy'[e].rec = copy[e].rec
                   /\ copy'[e].touched = copy[e].touched
                   /\ copy'[e].behind = (copy[e].behind \/ Overtaken(copy[e], x))
         /\ \A m \in Marks \ {"old", "torn"} : marks'[m] = marks[m]
         /\ \A m \in Marks : marks[m] \subseteq marks'[m]
         /\ x.behind => x.id \in marks'["old"]
         /\ x.touched => x.id \in marks'["torn"]
<1>1. x.id \in Held /\ x.id \in Sources /\ x.rec \in Record
  BY DEF Overwrite, Copy
<1>2. stored' = [stored EXCEPT ![x.id] = x.rec]  BY DEF Overwrite
<1>3. stored' \in [Sources -> Record \cup {NoRecord}]  BY <1>1, <1>2 DEF TypeOK
<1>4. Held' = Held  BY <1>1, <1>2, RecordFacts DEF Held, TypeOK
<1>5. stored'[x.id] = x.rec /\ \A i \in Sources : i # x.id => stored'[i] = stored[i]
  BY <1>1, <1>2 DEF TypeOK
<1>6. copy'[h] = IF h \in Pollers THEN NoCopy ELSE Current(x.id, x.rec)
  BY DEF Overwrite
<1>7. copy'[h] \in Copy \cup {NoCopy}  BY <1>1, <1>6, CurrentFacts
<1>8. ASSUME NEW e \in Holders \ {h}
      PROVE  /\ copy'[e] \in Copy \cup {NoCopy}
             /\ copy'[e] # NoCopy <=> copy[e] # NoCopy
             /\ copy[e] # NoCopy =>
                   /\ copy'[e].id = copy[e].id /\ copy'[e].rec = copy[e].rec
                   /\ copy'[e].touched = copy[e].touched
                   /\ copy'[e].behind = (copy[e].behind \/ Overtaken(copy[e], x))
  <2> DEFINE y == copy[e]
             later == Overtaken(y, x)
  <2>1. copy'[e] = IF later THEN [y EXCEPT !.behind = TRUE] ELSE y
    BY <1>8 DEF Overwrite, Overtaken
  <2>2. y \in Copy \/ y = NoCopy  BY DEF TypeOK
  <2>3. CASE y = NoCopy
    <3>1. ~later  BY <1>1, <2>3, RecordFacts, NoneFacts DEF Overtaken
    <3> QED  BY <2>1, <2>3, <3>1
  <2>4. CASE y \in Copy
    <3>1. y # NoCopy  BY <2>4, RecordFacts
    <3> HIDE DEF y
    <3>2. [y EXCEPT !.behind = TRUE] \in Copy  BY <2>4 DEF Copy
    <3>3. [y EXCEPT !.behind = TRUE] # NoCopy  BY <3>2, RecordFacts
    <3>4. y.behind \in BOOLEAN  BY <2>4 DEF Copy
    <3>5. CASE later
      <4>1. copy'[e] = [y EXCEPT !.behind = TRUE]  BY <2>1, <3>5
      <4>2. /\ copy'[e].id = y.id /\ copy'[e].rec = y.rec
            /\ copy'[e].touched = y.touched /\ copy'[e].behind = TRUE
        BY <2>4, <4>1 DEF Copy
      <4> QED  BY <3>1, <3>2, <3>3, <3>4, <3>5, <4>1, <4>2 DEF y
    <3>6. CASE ~later
      <4>1. copy'[e] = y  BY <2>1, <3>6
      <4> QED  BY <2>4, <3>1, <3>4, <3>6, <4>1 DEF y
    <3> QED  BY <3>5, <3>6
  <2> QED  BY <2>2, <2>3, <2>4
<1>9. copy' \in [Holders -> Copy \cup {NoCopy}]
  <2>1. copy' = [e \in Holders |-> copy'[e]]  BY DEF Overwrite
  <2> QED  BY <1>7, <1>8, <2>1
<1>10. /\ marks' \in [Marks -> SUBSET Sources]
       /\ \A m \in Marks \ {"old", "torn"} : marks'[m] = marks[m]
       /\ \A m \in Marks : marks[m] \subseteq marks'[m]
       /\ x.behind => x.id \in marks'["old"]
       /\ x.touched => x.id \in marks'["torn"]
  BY <1>1 DEF Overwrite, TypeOK, Marks
<1> QED  BY <1>1, <1>3, <1>4, <1>5, <1>6, <1>8, <1>9, <1>10

LEMMA ResetCopy ==
  ASSUME NEW y \in Copy
  PROVE  LET x == [y EXCEPT !.rec.pin = None, !.behind = FALSE]
         IN  /\ x \in Copy /\ x.id = y.id /\ x.behind = FALSE /\ x.touched = y.touched
             /\ x.rec = [y.rec EXCEPT !.pin = None]
             /\ x.rec.group = y.rec.group /\ x.rec.key = y.rec.key /\ x.rec.pin = None
             /\ x.rec.addr = y.rec.addr
<1>1. y.rec \in Record  BY DEF Copy
<1>2. [y.rec EXCEPT !.pin = None] \in Record  BY <1>1 DEF Record
<1> QED  BY <1>1, <1>2 DEF Copy, Record

--------------------------------------------------------------------------------
(* Facts about calls *)

LEMMA GotoFacts ==
  ASSUME TypeOK, NEW c \in Callers, NEW pc \in Pcs, Goto(c, pc)
  PROVE  /\ call' \in [Callers -> Call]
         /\ call'[c] = [call[c] EXCEPT !.pc = pc]
         /\ call'[c].pc = pc /\ call'[c].id = call[c].id
         /\ call'[c].addr = call[c].addr /\ call'[c].got = call[c].got
         /\ call'[c].fp = call[c].fp
         /\ \A e \in Callers \ {c} : call'[e] = call[e]
<1>1. call[c] \in Call /\ call \in [Callers -> Call]  BY DEF TypeOK
<1>2. call'[c] = [call[c] EXCEPT !.pc = pc] /\ \A e \in Callers \ {c} : call'[e] = call[e]
  BY <1>1 DEF Goto
<1>3. [call[c] EXCEPT !.pc = pc] \in Call  BY <1>1 DEF Call
<1>4. call' \in [Callers -> Call]  BY <1>1, <1>3 DEF Goto
<1> QED  BY <1>1, <1>2, <1>4 DEF Call

LEMMA ReturnFacts ==
  ASSUME TypeOK, NEW c \in Callers, Return(c)
  PROVE  /\ call' \in [Callers -> Call]
         /\ call'[c] = NoCall
         /\ \A e \in Callers \ {c} : call'[e] = call[e]
<1>1. NoCall \in Call  BY DEF NoCall, Call, Pcs
<1> QED  BY <1>1 DEF TypeOK, Return

LEMMA SetCopyFacts ==
  ASSUME TypeOK, NEW h \in Holders, NEW x \in Copy \cup {NoCopy}
  PROVE  /\ SetCopy(h, x) \in [Holders -> Copy \cup {NoCopy}]
         /\ SetCopy(h, x)[h] = IF h \in Pollers THEN NoCopy ELSE x
         /\ \A e \in Holders \ {h} : SetCopy(h, x)[e] = copy[e]
BY DEF TypeOK, SetCopy

LEMMA SetConfFacts ==
  ASSUME TypeOK, NEW a \in Addrs, NEW f \in Conf, SetConf(a, f)
  PROVE  /\ conf' \in [Addrs -> Conf] /\ conf'[a] = f
         /\ conn' \in [Addrs -> Keys \cup {None}] /\ conn'[a] = None
         /\ copy' \in [Holders -> Copy \cup {NoCopy}] /\ copy'[a] = NoCopy
         /\ \A b \in Addrs \ {a} : conf'[b] = conf[b] /\ conn'[b] = conn[b]
         /\ \A h \in Holders \ {a} : copy'[h] = copy[h]
BY NoneFacts DEF TypeOK, SetConf

LEMMA CallFacts ==
  ASSUME TypeOK
  PROVE  \A c \in Callers : /\ call[c].pc \in Pcs
                            /\ call[c].id # None => call[c].id \in Sources
                            /\ call[c].addr # None => call[c].addr \in Addrs
                            /\ call[c].got \in Member \cup {NoMember}
                            /\ call[c].fp \in Keys \cup {None}
BY DEF TypeOK, Call

--------------------------------------------------------------------------------
(* The base of the invariant: the steps that change no configuration *)

\* The copy of h is about the same source and group as before.
CopyKept(h) ==
  /\ copy'[h] # NoCopy <=> copy[h] # NoCopy
  /\ copy[h] # NoCopy => /\ copy'[h].id = copy[h].id
                         /\ copy'[h].rec.group = copy[h].rec.group

LEMMA BaseFrame ==
  ASSUME Base, TypeOK', NEW c \in Callers, Stage(c)',
         member' = member, Held' \subseteq Held, conf' = conf,
         \A e \in Holders \ {c} : CopyKept(e),
         \A e \in Callers \ {c} : call'[e] = call[e],
         copy'[c].id \in {copy[c].id, None},
         c \notin Pollers => (copy'[c] # NoCopy <=> copy[c] # NoCopy),
         call'[c].id \in {call[c].id, None},
         call'[c].pc = "insert" => call[c].pc = "insert"
  PROVE  Base'
<1>1. ASSUME NEW e \in Callers \ {c}  PROVE Stage(e)'
  <2>1. Stage(e) /\ CopyKept(e) /\ call'[e] = call[e]  BY NoneFacts DEF Base
  <2> QED  BY <2>1 DEF Stage, CopyKept
<1>2. ASSUME NEW b \in Addrs  PROVE Left(b)'
  <2>1. Left(b) /\ conf'[b] = conf[b]  BY DEF Base
  <2>2. \A h \in Holders \ Pollers : copy'[h] # NoCopy <=> copy[h] # NoCopy
    BY NoneFacts DEF CopyKept
  <2> QED  BY <2>1, <2>2, NoneFacts DEF Left
<1>3. ASSUME NEW j \in Sources  PROVE Known(j)'
  <2>1. Known(j)  BY DEF Base
  <2>2. \A h \in Holders : copy'[h].id = j => copy[h].id = j
    <3>1. ASSUME NEW h \in Holders \ {c}, copy'[h].id = j  PROVE copy[h].id = j
      <4>1. copy'[h] # NoCopy  BY <3>1, NoneFacts DEF NoCopy
      <4> QED  BY <3>1, <4>1 DEF CopyKept
    <3>2. copy'[c].id = j => copy[c].id = j  BY NoneFacts
    <3> QED  BY <3>1, <3>2
  <2>3. \A e \in Callers : call'[e].id = j => call[e].id = j  BY NoneFacts
  <2>4. \A e \in Callers : call'[e].pc = "insert" => call[e].pc = "insert"  OBVIOUS
  <2> QED  BY <2>1, <2>2, <2>3, <2>4 DEF Known
<1> QED  BY <1>1, <1>2, <1>3 DEF Base

\* A write leaves every copy about the same source and group.
LEMMA OverwriteKeeps ==
  ASSUME TypeOK, NEW h \in Holders, NEW x \in Copy, Overwrite(h, x),
         copy[h] \in Copy, x.id = copy[h].id, x.rec.group = copy[h].rec.group
  PROVE  /\ \A e \in Holders \ {h} : CopyKept(e)
         /\ h \notin Pollers => CopyKept(h)
         /\ h \in Pollers => copy'[h] = NoCopy
<1>1. \A e \in Holders \ {h} : CopyKept(e)  BY OverwriteFacts DEF CopyKept
<1>2. ASSUME h \notin Pollers  PROVE CopyKept(h)
  <2>1. copy'[h] = Current(x.id, x.rec)  BY <1>2, OverwriteFacts
  <2>2. x.id \in Sources /\ x.rec \in Record  BY DEF Copy
  <2>3. /\ Current(x.id, x.rec) \in Copy /\ Current(x.id, x.rec).id = x.id
        /\ Current(x.id, x.rec).rec = x.rec
    BY <2>2, CurrentFacts
  <2> QED  BY <2>1, <2>3, RecordFacts DEF CopyKept
<1> QED  BY <1>1, <1>2, OverwriteFacts

LEMMA BaseUpdate ==
  ASSUME Base, NEW c \in Callers, Update(c)
  PROVE  Base'
<1>1. TypeOK /\ Stage(c) /\ c \in Holders  BY NoneFacts DEF Base
<1>2. c \notin Pollers /\ copy[c] \in Copy  BY <1>1, HeldFacts DEF Update, Stage
<1>3. Overwrite(c, copy[c])  BY DEF Update
<1>4. \A e \in Holders : CopyKept(e)  BY <1>1, <1>2, <1>3, OverwriteKeeps
<1>5. TypeOK' /\ Held' = Held
  <2>1. /\ stored' \in [Sources -> Record \cup {NoRecord}]
        /\ copy' \in [Holders -> Copy \cup {NoCopy}]
        /\ marks' \in [Marks -> SUBSET Sources] /\ Held' = Held
    BY <1>1, <1>2, <1>3, OverwriteFacts
  <2> QED  BY <1>1, <2>1 DEF TypeOK, Update, daemon
<1>6. call' = call /\ member' = member /\ conf' = conf  BY DEF Update, daemon
<1>7. Stage(c)'  BY <1>1, <1>2, <1>4, <1>6 DEF Stage, CopyKept
<1>8. copy'[c].id \in {copy[c].id, None}
  BY <1>1, <1>4, <1>2, RecordFacts DEF CopyKept
<1> QED  BY <1>1, <1>4, <1>5, <1>6, <1>7, <1>8, BaseFrame DEF CopyKept

LEMMA BaseReset ==
  ASSUME Base, NEW c \in Callers, Reset(c)
  PROVE  Base'
<1> DEFINE x == [copy[c] EXCEPT !.rec.pin = None, !.behind = FALSE]
<1>1. TypeOK /\ Stage(c) /\ c \in Holders  BY NoneFacts DEF Base
<1>2. c \notin Pollers /\ copy[c] \in Copy  BY <1>1, HeldFacts DEF Reset, Stage
<1>3. x \in Copy /\ x.id = copy[c].id /\ x.rec.group = copy[c].rec.group
  BY <1>2, ResetCopy
<1>4. Overwrite(c, x) /\ Goto(c, "arm")  BY DEF Reset
<1> HIDE DEF x
<1>5. \A e \in Holders : CopyKept(e)  BY <1>1, <1>2, <1>3, <1>4, OverwriteKeeps
<1>6. /\ call' \in [Callers -> Call] /\ call'[c].pc = "arm" /\ call'[c].id = call[c].id
      /\ call'[c].addr = call[c].addr
      /\ \A e \in Callers \ {c} : call'[e] = call[e]
  BY <1>1, <1>4, GotoFacts DEF Pcs
<1>7. TypeOK' /\ Held' = Held
  <2>1. /\ stored' \in [Sources -> Record \cup {NoRecord}]
        /\ copy' \in [Holders -> Copy \cup {NoCopy}]
        /\ marks' \in [Marks -> SUBSET Sources] /\ Held' = Held
    BY <1>1, <1>3, <1>4, OverwriteFacts
  <2>2. pinned' \in [Sources -> Keys \cup {None}]  BY <1>1 DEF Reset, TypeOK
  <2> QED  BY <1>1, <1>6, <2>1, <2>2 DEF TypeOK, Reset, daemon
<1>8. member' = member /\ conf' = conf  BY DEF Reset, daemon
<1>9. call[c].pc = "idle" /\ copy[c] # NoCopy  BY DEF Reset
<1>10. Stage(c)'  BY <1>1, <1>2, <1>5, <1>6, <1>9 DEF Stage, CopyKept
<1>11. copy'[c].id \in {copy[c].id, None}  BY <1>1, <1>5, <1>9 DEF CopyKept
<1> QED  BY <1>1, <1>5, <1>6, <1>7, <1>8, <1>10, <1>11, BaseFrame DEF CopyKept

LEMMA BaseSave ==
  ASSUME Base, NEW c \in Callers, Save(c)
  PROVE  Base'
<1>1. TypeOK /\ Stage(c) /\ c \in Holders  BY NoneFacts DEF Base
<1>2. copy[c] \in Copy  BY <1>1, HeldFacts DEF Save, Stage
<1>3. Overwrite(c, copy[c]) /\ Return(c)  BY DEF Save
<1>4. /\ \A e \in Holders \ {c} : CopyKept(e)
      /\ c \notin Pollers => CopyKept(c)
      /\ c \in Pollers => copy'[c] = NoCopy
  BY <1>1, <1>2, <1>3, OverwriteKeeps
<1>5. /\ call' \in [Callers -> Call] /\ call'[c] = NoCall
      /\ \A e \in Callers \ {c} : call'[e] = call[e]
  BY <1>1, <1>3, ReturnFacts
<1>6. TypeOK' /\ Held' = Held
  <2>1. /\ stored' \in [Sources -> Record \cup {NoRecord}]
        /\ copy' \in [Holders -> Copy \cup {NoCopy}]
        /\ marks' \in [Marks -> SUBSET Sources] /\ Held' = Held
    BY <1>1, <1>2, <1>3, OverwriteFacts
  <2> QED  BY <1>1, <1>5, <2>1 DEF TypeOK, Save, daemon
<1>7. member' = member /\ conf' = conf  BY DEF Save, daemon
<1>8. Stage(c)'  BY <1>4, <1>5 DEF Stage, NoCall
<1>9. copy'[c].id \in {copy[c].id, None}
  BY <1>2, <1>4, RecordFacts DEF CopyKept
<1>10. call'[c].id = None /\ call'[c].pc = "idle"  BY <1>5 DEF NoCall
<1> QED  BY <1>1, <1>4, <1>5, <1>6, <1>7, <1>8, <1>9, <1>10, BaseFrame DEF CopyKept

LEMMA BaseConnectReset ==
  ASSUME Base, NEW c \in Callers, NEW a \in Addrs, ConnectReset(c, a)
  PROVE  Base'
<1> DEFINE h == conf[a].owner
           x == Trusting(a)
<1>1. TypeOK /\ Left(a) /\ Stage(c) /\ c \in Holders  BY NoneFacts DEF Base
<1>2. conf[a].kind = "reset" /\ Overwrite(h, x)  BY DEF ConnectReset
<1>3. /\ h \in Holders /\ h \notin Pollers /\ copy[h] \in Copy /\ x \in Copy
      /\ x.id = copy[h].id /\ x.rec = [copy[h].rec EXCEPT !.pin = daemonKey[a]]
  BY <1>1, <1>2, TrustingFacts
<1> HIDE DEF x
<1>4. x.rec.group = copy[h].rec.group
  <2>1. copy[h].rec \in Record  BY <1>3 DEF Copy
  <2> QED  BY <1>3, <2>1 DEF Record
<1>5. \A e \in Holders : CopyKept(e)  BY <1>1, <1>2, <1>3, <1>4, OverwriteKeeps
<1>6. TypeOK' /\ Held' = Held
  <2>1. /\ stored' \in [Sources -> Record \cup {NoRecord}]
        /\ copy' \in [Holders -> Copy \cup {NoCopy}]
        /\ marks' \in [Marks -> SUBSET Sources] /\ Held' = Held
    BY <1>1, <1>2, <1>3, OverwriteFacts
  <2>2. pinned' \in [Sources -> Keys \cup {None}] /\ conn' \in [Addrs -> Keys \cup {None}]
    BY <1>1 DEF ConnectReset, TypeOK
  <2> QED  BY <1>1, <2>1, <2>2 DEF TypeOK, ConnectReset, daemon
<1>7. call' = call /\ member' = member /\ conf' = conf  BY DEF ConnectReset, daemon
<1>8. Stage(c)'  BY <1>1, <1>5, <1>7 DEF Stage, CopyKept
<1>9. copy'[c].id \in {copy[c].id, None}
  <2>1. CASE copy[c] = NoCopy
    BY <1>1, <1>5, <2>1 DEF CopyKept, NoCopy
  <2>2. CASE copy[c] # NoCopy  BY <1>1, <1>5, <2>2 DEF CopyKept
  <2> QED  BY <2>1, <2>2
<1> QED  BY <1>1, <1>5, <1>6, <1>7, <1>8, <1>9, BaseFrame DEF CopyKept

\* Steps that leave the copies, or let go of that of c.
LEMMA SameCopies ==
  ASSUME TypeOK, NEW c \in Callers,
         \A e \in Holders \ {c} : copy'[e] = copy[e],
         copy'[c] = copy[c] \/ (c \in Pollers /\ copy'[c] = NoCopy)
  PROVE  /\ \A e \in Holders \ {c} : CopyKept(e)
         /\ c \notin Pollers => CopyKept(c)
         /\ copy'[c].id \in {copy[c].id, None}
         /\ c \notin Pollers => (copy'[c] # NoCopy <=> copy[c] # NoCopy)
BY NoneFacts, RecordFacts DEF CopyKept

LEMMA BaseCheckStatus ==
  ASSUME Base, NEW c \in Callers, CheckStatus(c)
  PROVE  Base'
<1>1. TypeOK /\ Stage(c) /\ c \in Holders  BY NoneFacts DEF Base
<1>2. /\ call[c].pc = "idle" /\ copy[c] # NoCopy /\ Goto(c, "status")
      /\ UNCHANGED <<daemonKey, member, stored, groups, conf, conn, copy, pinned, marks>>
  BY DEF CheckStatus, daemon
<1>3. /\ call' \in [Callers -> Call] /\ call'[c].pc = "status" /\ call'[c].id = call[c].id
      /\ call'[c].addr = call[c].addr
      /\ \A e \in Callers \ {c} : call'[e] = call[e]
  BY <1>1, <1>2, GotoFacts DEF Pcs
<1>4. TypeOK' /\ Held' = Held  BY <1>1, <1>2, <1>3 DEF TypeOK, Held
<1>5. Stage(c)'  BY <1>1, <1>2, <1>3 DEF Stage
<1>6. /\ \A e \in Holders \ {c} : CopyKept(e)
      /\ copy'[c].id \in {copy[c].id, None}
      /\ c \notin Pollers => (copy'[c] # NoCopy <=> copy[c] # NoCopy)
  BY <1>1, <1>2, SameCopies
<1> QED  BY <1>2, <1>3, <1>4, <1>5, <1>6, BaseFrame

LEMMA BaseConnectPinned ==
  ASSUME Base, NEW c \in Callers, NEW a \in Addrs, ConnectPinned(c, a)
  PROVE  Base'
<1>1. TypeOK /\ Stage(c) /\ c \in Holders  BY NoneFacts DEF Base
<1>2. UNCHANGED <<daemonKey, member, stored, groups, conf, copy, call, pinned, marks>>
  BY DEF ConnectPinned, daemon
<1>3. TypeOK' /\ Held' = Held  BY <1>1, <1>2 DEF TypeOK, Held, ConnectPinned
<1>4. Stage(c)'  BY <1>1, <1>2 DEF Stage
<1>5. /\ \A e \in Holders \ {c} : CopyKept(e)
      /\ copy'[c].id \in {copy[c].id, None}
      /\ c \notin Pollers => (copy'[c] # NoCopy <=> copy[c] # NoCopy)
  BY <1>1, <1>2, SameCopies
<1> QED  BY <1>2, <1>3, <1>4, <1>5, BaseFrame

LEMMA ConnectCreateFacts ==
  ASSUME TypeOK, NEW c \in Callers, NEW a \in Addrs, ConnectCreate(c, a), Left(a)
  PROVE  LET w == conf[a].owner
         IN  /\ w \in Callers /\ call' \in [Callers -> Call]
             /\ \A e \in Callers \ {w} : call'[e] = call[e]
             /\ call'[w].pc = call[w].pc /\ call'[w].id = call[w].id
             /\ call'[w].addr = call[w].addr /\ call'[w].got = call[w].got
             /\ call[w].addr = a => call'[w].fp = daemonKey[a]
             /\ call[w].addr # a => call' = call
<1> DEFINE w == conf[a].owner
<1>1. w \in Callers /\ call[w] \in Call /\ daemonKey[a] \in Keys
  BY DEF ConnectCreate, Left, TypeOK
<1>2. [call[w] EXCEPT !.fp = daemonKey[a]] \in Call  BY <1>1 DEF Call
<1>3. call' = IF call[w].addr = a THEN [call EXCEPT ![w].fp = daemonKey[a]] ELSE call
  BY DEF ConnectCreate
<1> QED  BY <1>1, <1>2, <1>3 DEF TypeOK, Call

\* What it leaves of the fingerprints and the marks.
LEMMA CreateTrusts ==
  ASSUME TypeOK, NEW c \in Callers, NEW a \in Addrs, ConnectCreate(c, a)
  PROVE  /\ pinned' \in [Sources -> Keys \cup {None}]
         /\ \A i \in Sources : i # conf[a].id => pinned'[i] = pinned[i]
         /\ conf[a].id # None => /\ conf[a].id \in Sources
                                 /\ pinned'[conf[a].id] = daemonKey[a]
         /\ marks' \in [Marks -> SUBSET Sources]
         /\ \A n \in Marks : marks[n] \subseteq marks'[n]
         /\ \A n \in Marks \ {"unkept"} : marks'[n] = marks[n]
         /\ /\ conf[a].id # None /\ ~KeptUntilInsert(a)
            /\ pinned[conf[a].id] # daemonKey[a]
            => conf[a].id \in marks'["unkept"]
<1>1. PICK i, late : /\ i = conf[a].id
                     /\ late = (/\ i # None /\ ~KeptUntilInsert(a)
                               /\ pinned[i] # daemonKey[a])
  OBVIOUS
<1>2. /\ pinned' = IF i = None THEN pinned ELSE [pinned EXCEPT ![i] = daemonKey[a]]
      /\ marks' = Mark("unkept", i, late)
  BY <1>1 DEF ConnectCreate
<1>3. i \in Sources \cup {None} /\ daemonKey[a] \in Keys  BY <1>1 DEF TypeOK, Conf
<1>4. late => i \in Sources  BY <1>1, <1>3
<1>5. /\ pinned' \in [Sources -> Keys \cup {None}]
      /\ \A j \in Sources : j # i => pinned'[j] = pinned[j]
      /\ i # None => i \in Sources /\ pinned'[i] = daemonKey[a]
  BY <1>2, <1>3 DEF TypeOK
<1>6. /\ marks' \in [Marks -> SUBSET Sources]
      /\ \A n \in Marks : marks[n] \subseteq marks'[n]
      /\ \A n \in Marks \ {"unkept"} : marks'[n] = marks[n]
      /\ late => i \in marks'["unkept"]
  <2>1. CASE late
    <3>1. marks' = [marks EXCEPT !["unkept"] = @ \cup {i}]  BY <1>2, <2>1 DEF Mark
    <3> QED  BY <1>4, <2>1, <3>1 DEF TypeOK, Marks
  <2>2. CASE ~late  BY <1>2, <2>2 DEF Mark, TypeOK
  <2> QED  BY <2>1, <2>2
<1> QED  BY <1>1, <1>5, <1>6

LEMMA BaseConnectCreate ==
  ASSUME Base, NEW c \in Callers, NEW a \in Addrs, ConnectCreate(c, a)
  PROVE  Base'
<1>1. TypeOK /\ Left(a)  BY DEF Base
<1>2. PICK w \in Callers :
      /\ w = conf[a].owner /\ call' \in [Callers -> Call]
      /\ \A e \in Callers \ {w} : call'[e] = call[e]
      /\ call'[w].pc = call[w].pc /\ call'[w].id = call[w].id
      /\ call'[w].addr = call[w].addr /\ call'[w].got = call[w].got
  BY <1>1, ConnectCreateFacts
<1>3. UNCHANGED <<daemonKey, member, stored, groups, conf, copy>>
  BY DEF ConnectCreate, daemon
<1>4. conn' \in [Addrs -> Keys \cup {None}]  BY <1>1 DEF ConnectCreate, TypeOK
<1>5. /\ pinned' \in [Sources -> Keys \cup {None}]
      /\ marks' \in [Marks -> SUBSET Sources]
  BY <1>1, CreateTrusts
<1>6. TypeOK' /\ Held' = Held  BY <1>1, <1>2, <1>3, <1>4, <1>5 DEF TypeOK, Held
<1>7. Stage(w)'
  <2>1. Stage(w) /\ copy' = copy  BY <1>2, <1>3 DEF Base
  <2>2. copy'[w] = copy[w]  BY <2>1
  <2> QED  BY <1>2, <2>1, <2>2 DEF Stage
<1>8. /\ \A e \in Holders \ {w} : CopyKept(e)
      /\ copy'[w].id \in {copy[w].id, None}
      /\ w \notin Pollers => (copy'[w] # NoCopy <=> copy[w] # NoCopy)
  BY <1>1, <1>2, <1>3, SameCopies
<1> QED  BY <1>2, <1>3, <1>6, <1>7, <1>8, BaseFrame

\* Calls that end and change nothing else but the copy of c.
LEMMA BaseReturn ==
  ASSUME Base, NEW c \in Callers, Return(c),
         NEW x \in Copy \cup {NoCopy}, copy' = SetCopy(c, x),
         x.id = copy[c].id, x = NoCopy <=> copy[c] = NoCopy,
         UNCHANGED <<daemonKey, member, groups, conf, conn, pinned>>,
         marks' \in [Marks -> SUBSET Sources],
         stored' \in [Sources -> Record \cup {NoRecord}], Held' \subseteq Held
  PROVE  Base'
<1>1. TypeOK /\ c \in Holders  BY NoneFacts DEF Base
<1>2. /\ copy' \in [Holders -> Copy \cup {NoCopy}]
      /\ copy'[c] = IF c \in Pollers THEN NoCopy ELSE x
      /\ \A e \in Holders \ {c} : copy'[e] = copy[e]
  BY <1>1, SetCopyFacts
<1>3. /\ call' \in [Callers -> Call] /\ call'[c] = NoCall
      /\ \A e \in Callers \ {c} : call'[e] = call[e]
  BY <1>1, ReturnFacts
<1>4. TypeOK'  BY <1>1, <1>2, <1>3 DEF TypeOK
<1>5. Stage(c)'  BY <1>2, <1>3 DEF Stage, NoCall
<1>6. \A e \in Holders \ {c} : CopyKept(e)  BY <1>2 DEF CopyKept
<1>7. copy'[c].id \in {copy[c].id, None}  BY <1>2, RecordFacts
<1>8. c \notin Pollers => (copy'[c] # NoCopy <=> copy[c] # NoCopy)  BY <1>2
<1>9. call'[c].id = None /\ call'[c].pc = "idle"  BY <1>3 DEF NoCall
<1> QED  BY <1>3, <1>4, <1>5, <1>6, <1>7, <1>8, <1>9, BaseFrame

LEMMA BaseRefused ==
  ASSUME Base, NEW c \in Callers, NEW a \in Addrs, Refused(c, a)
  PROVE  Base'
<1>1. /\ Return(c) /\ copy' = SetCopy(c, copy[c])
      /\ UNCHANGED <<daemonKey, member, stored, groups, conf, conn, pinned, marks>>
  BY DEF Refused, LetGo, daemon
<1>2. TypeOK /\ copy[c] \in Copy \cup {NoCopy}  BY NoneFacts DEF Base, TypeOK
<1>3. Held' = Held  BY <1>1 DEF Held
<1>4. stored \in [Sources -> Record \cup {NoRecord}] /\ marks \in [Marks -> SUBSET Sources]
  BY <1>2 DEF TypeOK
<1> QED  BY <1>1, <1>2, <1>3, <1>4, BaseReturn

LEMMA BaseFail ==
  ASSUME Base, NEW c \in Callers, Fail(c)
  PROVE  Base'
<1> DEFINE x == IF call[c].pc \in {"sync", "save"}
                THEN [copy[c] EXCEPT !.touched = TRUE] ELSE copy[c]
<1>1. /\ Return(c) /\ copy' = SetCopy(c, x)
      /\ UNCHANGED <<daemonKey, member, stored, groups, conf, conn, pinned, marks>>
  BY DEF Fail, daemon
<1>2. TypeOK /\ copy[c] \in Copy \cup {NoCopy} /\ Stage(c)  BY NoneFacts DEF Base, TypeOK
<1>3. x \in Copy \cup {NoCopy} /\ x.id = copy[c].id /\ (x = NoCopy <=> copy[c] = NoCopy)
  <2>1. CASE call[c].pc \in {"sync", "save"}
    <3>1. copy[c] \in Copy  BY <1>2, <2>1 DEF Stage
    <3>2. x = [copy[c] EXCEPT !.touched = TRUE]  BY <2>1
    <3>3. x \in Copy /\ x.id = copy[c].id  BY <3>1, <3>2 DEF Copy
    <3> QED  BY <3>1, <3>3, RecordFacts
  <2>2. CASE call[c].pc \notin {"sync", "save"}  BY <1>2, <2>2
  <2> QED  BY <2>1, <2>2
<1>4. Held' = Held  BY <1>1 DEF Held
<1>5. stored \in [Sources -> Record \cup {NoRecord}] /\ marks \in [Marks -> SUBSET Sources]
  BY <1>2 DEF TypeOK
<1> HIDE DEF x
<1> QED  BY <1>1, <1>3, <1>4, <1>5, BaseReturn

LEMMA BaseDrop ==
  ASSUME Base, NEW c \in Callers, Drop(c)
  PROVE  Base'
<1>1. /\ Return(c) /\ call[c].pc = "drop" /\ copy' = copy
      /\ stored' = [stored EXCEPT ![copy[c].id] = NoRecord]
      /\ UNCHANGED <<daemonKey, member, groups, conf, conn, pinned, marks>>
  BY DEF Drop, daemon
<1>2. TypeOK /\ c \in Holders /\ Stage(c)  BY NoneFacts DEF Base
<1>3. copy[c] # NoCopy /\ copy[c] \in Copy /\ copy[c].id \in Sources /\ c \notin Pollers
  BY <1>1, <1>2, HeldFacts DEF Stage
<1>4. copy' = SetCopy(c, copy[c])  BY <1>1, <1>2, <1>3 DEF SetCopy, TypeOK
<1>5. Held' \subseteq Held  BY <1>1, <1>2 DEF Held, TypeOK
<1>6. stored' \in [Sources -> Record \cup {NoRecord}] /\ marks' \in [Marks -> SUBSET Sources]
  BY <1>1, <1>2 DEF TypeOK
<1> QED  BY <1>1, <1>3, <1>4, <1>5, <1>6, BaseReturn

LEMMA ResetFailsFacts ==
  ASSUME NEW y \in Copy
  PROVE  LET x == [y EXCEPT !.rec.pin = None, !.touched = TRUE]
         IN  x \in Copy /\ x.id = y.id /\ x.rec.group = y.rec.group /\ x.touched = TRUE
<1>1. y.rec \in Record  BY DEF Copy
<1>2. [y.rec EXCEPT !.pin = None] \in Record  BY <1>1 DEF Record
<1> QED  BY <1>1, <1>2 DEF Copy, Record

LEMMA BaseResetFails ==
  ASSUME Base, NEW c \in Callers, ResetFails(c)
  PROVE  Base'
<1> DEFINE x == [copy[c] EXCEPT !.rec.pin = None, !.touched = TRUE]
<1>1. TypeOK /\ Stage(c) /\ c \in Holders  BY NoneFacts DEF Base
<1>2. /\ call[c].pc = "idle" /\ copy[c] # NoCopy
      /\ copy' = [copy EXCEPT ![c].rec.pin = None, ![c].touched = TRUE]
      /\ UNCHANGED <<daemonKey, member, stored, groups, conf, conn, call, pinned, marks>>
  BY DEF ResetFails, daemon
<1>3. c \notin Pollers /\ copy[c] \in Copy  BY <1>1, <1>2, HeldFacts DEF Stage
<1>4. x \in Copy /\ x.id = copy[c].id /\ x.rec.group = copy[c].rec.group
  BY <1>3, ResetFailsFacts
<1>5. copy'[c] = x /\ \A e \in Holders \ {c} : copy'[e] = copy[e]
  BY <1>1, <1>2 DEF TypeOK
<1>6. copy' \in [Holders -> Copy \cup {NoCopy}]
  <2>1. copy' = [copy EXCEPT ![c] = x]  BY <1>1, <1>2 DEF TypeOK
  <2> HIDE DEF x
  <2> QED  BY <1>1, <1>4, <2>1 DEF TypeOK
<1> HIDE DEF x
<1>7. TypeOK' /\ Held' = Held  BY <1>1, <1>2, <1>6 DEF TypeOK, Held
<1>8. \A e \in Holders : CopyKept(e)  BY <1>3, <1>4, <1>5, RecordFacts DEF CopyKept
<1>9. Stage(c)'  BY <1>1, <1>2, <1>3, <1>8 DEF Stage, CopyKept
<1>10. copy'[c].id = copy[c].id  BY <1>4, <1>5
<1> QED  BY <1>1, <1>2, <1>7, <1>8, <1>9, <1>10, BaseFrame DEF CopyKept

\* The answer to CheckStatus, and the copies it leaves.
LEMMA AnswerFacts ==
  ASSUME Base, NEW c \in Callers, call[c].pc = "status"
  PROVE  LET y == copy[c]
             rec == y.rec
             m == member[y.id]
             new == [rec EXCEPT !.auth = m.auth]
             joined == [new EXCEPT !.group = m.group, !.key = m.group]
         IN  /\ y \in Copy /\ rec \in Record /\ y.id \in Sources /\ m \in Member
             /\ new \in Record /\ new.group = rec.group /\ new.key = rec.key
             /\ new.pin = rec.pin
             /\ joined \in Record /\ joined.group = m.group /\ joined.key = m.group
             /\ joined.pin = rec.pin
<1> DEFINE y == copy[c]
           rec == y.rec
           m == member[y.id]
<1>1. TypeOK /\ Stage(c) /\ c \in Holders  BY NoneFacts DEF Base
<1>2. y # NoCopy  BY <1>1 DEF Stage
<1>3. y \in Copy /\ rec \in Record /\ y.id \in Sources  BY <1>1, <1>2, HeldFacts
<1>4. m \in Member
  <2>1. m # NoMember  BY <1>1, <1>3 DEF Base, Known
  <2> QED  BY <1>1, <1>3, <2>1 DEF TypeOK
<1> HIDE DEF y, rec, m
<1>5. m.auth \in Auths /\ m.group \in Groups \cup {None}
  BY <1>4 DEF Member, Auths
<1>6. [rec EXCEPT !.auth = m.auth] \in Record  BY <1>3, <1>5 DEF Record
<1>7. [[rec EXCEPT !.auth = m.auth] EXCEPT !.group = m.group, !.key = m.group] \in Record
  BY <1>3, <1>5 DEF Record
<1> QED  BY <1>3, <1>4, <1>6, <1>7 DEF Record, y, rec, m

LEMMA BaseStatus ==
  ASSUME Base, NEW c \in Callers, Status(c)
  PROVE  Base'
<1> DEFINE y == copy[c]
           rec == y.rec
           m == member[y.id]
           new == [rec EXCEPT !.auth = m.auth]
           joined == [new EXCEPT !.group = m.group, !.key = m.group]
<1>1. TypeOK /\ Stage(c) /\ c \in Holders  BY NoneFacts DEF Base
<1>2. /\ call[c].pc = "status"
      /\ UNCHANGED <<daemonKey, member, stored, groups, conf, conn, pinned, marks>>
  BY DEF Status, daemon
<1>3. /\ y \in Copy /\ m \in Member /\ new \in Record /\ joined \in Record
      /\ joined.group = m.group
  BY <1>2, AnswerFacts
<1>4. Held' = Held /\ stored \in [Sources -> Record \cup {NoRecord}]
      /\ marks \in [Marks -> SUBSET Sources]
  BY <1>1, <1>2 DEF Held, TypeOK
<1>5. CASE ~Joined(rec, m) /\ new = rec
  <2>1. Return(c) /\ copy' = SetCopy(c, copy[c])  BY <1>5 DEF Status, LetGo
  <2> QED  BY <1>2, <1>3, <1>4, <2>1, BaseReturn
<1>6. ASSUME NEW r \in Record, NEW pc \in {"sync", "save"}, Goto(c, pc),
             copy' = [copy EXCEPT ![c].rec = r], pc = "sync" => r.group # None
      PROVE  Base'
  <2>1. /\ copy'[c] = [y EXCEPT !.rec = r] /\ \A e \in Holders \ {c} : copy'[e] = copy[e]
        /\ copy' = [copy EXCEPT ![c] = [y EXCEPT !.rec = r]]
    BY <1>1, <1>6 DEF TypeOK
  <2> HIDE DEF y
  <2>2. copy'[c] \in Copy /\ copy'[c].id = y.id /\ copy'[c].rec = r
    <3>1. PICK x : x = [y EXCEPT !.rec = r]  OBVIOUS
    <3>2. x \in Copy /\ x.id = y.id /\ x.rec = r  BY <1>3, <3>1 DEF Copy
    <3> QED  BY <2>1, <3>1, <3>2
  <2>3. copy' \in [Holders -> Copy \cup {NoCopy}]  BY <1>1, <2>1, <2>2 DEF TypeOK
  <2>4. /\ call' \in [Callers -> Call] /\ call'[c].pc = pc /\ call'[c].id = call[c].id
        /\ call'[c].addr = call[c].addr
        /\ \A e \in Callers \ {c} : call'[e] = call[e]
    BY <1>1, <1>6, GotoFacts DEF Pcs
  <2>5. TypeOK'  BY <1>1, <1>2, <2>3, <2>4 DEF TypeOK
  <2>6. Stage(c)'  BY <1>1, <1>2, <1>6, <2>2, <2>4, RecordFacts DEF Stage
  <2>7. \A e \in Holders \ {c} : CopyKept(e)  BY <2>1 DEF CopyKept
  <2>8. copy'[c] # NoCopy /\ copy[c] # NoCopy /\ copy'[c].id = copy[c].id
    BY <1>3, <2>2, RecordFacts DEF y
  <2>9. call'[c].pc # "insert"  BY <2>4
  <2> QED  BY <1>2, <1>4, <2>4, <2>5, <2>6, <2>7, <2>8, <2>9, BaseFrame
<1>7. CASE Joined(rec, m)
  <2>1. copy' = [copy EXCEPT ![c].rec = joined] /\ Goto(c, "sync")
    BY <1>7 DEF Status
  <2>2. joined.group # None  BY <1>3, <1>7 DEF Joined
  <2> HIDE DEF joined
  <2> QED  BY <1>3, <1>6, <2>1, <2>2
<1>8. CASE ~Joined(rec, m) /\ new # rec
  <2>1. copy' = [copy EXCEPT ![c].rec = new] /\ Goto(c, "save")
    BY <1>8 DEF Status
  <2> HIDE DEF new
  <2> QED  BY <1>3, <1>6, <2>1
<1> QED  BY <1>5, <1>7, <1>8

LEMMA UnopenedFacts ==
  ASSUME Base, NEW c \in Callers, StatusUnopened(c)
  PROVE  LET m == member[copy[c].id]
             x == [copy[c] EXCEPT !.rec.auth = m.auth, !.rec.group = m.group,
                                  !.touched = TRUE]
         IN  x \in Copy /\ x.id = copy[c].id /\ x.touched = TRUE
<1> DEFINE m == member[copy[c].id]
<1>1. call[c].pc = "status"  BY DEF StatusUnopened
<1>2. copy[c] \in Copy /\ copy[c].rec \in Record /\ m \in Member
  BY <1>1, AnswerFacts
<1> HIDE DEF m
<1>3. m.auth \in Auths /\ m.group \in Groups \cup {None}  BY <1>2 DEF Member, Auths
<1>4. [copy[c].rec EXCEPT !.auth = m.auth, !.group = m.group] \in Record
  BY <1>2, <1>3 DEF Record
<1> QED  BY <1>2, <1>4 DEF Copy, Record, m

LEMMA BaseStatusUnopened ==
  ASSUME Base, NEW c \in Callers, StatusUnopened(c)
  PROVE  Base'
<1> DEFINE m == member[copy[c].id]
           x == [copy[c] EXCEPT !.rec.auth = m.auth, !.rec.group = m.group,
                                !.touched = TRUE]
<1>1. /\ call[c].pc = "status" /\ Return(c) /\ copy' = SetCopy(c, x)
      /\ UNCHANGED <<daemonKey, member, stored, groups, conf, conn, pinned, marks>>
  BY DEF StatusUnopened, daemon
<1>2. x \in Copy /\ x.id = copy[c].id  BY UnopenedFacts
<1>3. copy[c] \in Copy  BY <1>1, AnswerFacts
<1>4. Held' = Held /\ stored \in [Sources -> Record \cup {NoRecord}]
      /\ marks \in [Marks -> SUBSET Sources]
  BY <1>1 DEF Held, Base, TypeOK
<1> HIDE DEF x
<1> QED  BY <1>1, <1>2, <1>3, <1>4, RecordFacts, BaseReturn

\* What SyncGroups leaves.
LEMMA SyncedFacts ==
  ASSUME TypeOK, NEW i \in Sources, NEW g \in Groups, NEW S \in SUBSET Sources,
         Synced(i, g, S)
  PROVE  /\ groups' \in [Sources -> SUBSET Groups]
         /\ groups'[i] = groups[i] \cup {g}
         /\ \A j \in Sources \ {i} : groups'[j] = groups[j]
         /\ marks' \in [Marks -> SUBSET Sources]
         /\ \A n \in Marks \ {"ghost", "half"} : marks'[n] = marks[n]
         /\ marks'["half"] = marks["half"] \ S
         /\ marks["ghost"] \subseteq marks'["ghost"]
         /\ \/ i \in marks'["ghost"]
            \/ i \in Held /\ \A e \in Callers : call[e].pc = "drop" => copy[e].id # i
BY DEF TypeOK, Synced, Marks

LEMMA BaseSyncGroups ==
  ASSUME Base, NEW c \in Callers, SyncGroups(c)
  PROVE  Base'
<1>1. TypeOK /\ Stage(c) /\ c \in Holders  BY NoneFacts DEF Base
<1>2. /\ call[c].pc = "sync" /\ Synced(copy[c].id, copy[c].rec.group, {}) /\ Goto(c, "save")
      /\ copy' = copy
      /\ UNCHANGED <<daemonKey, member, stored, conf, conn, pinned>>
  BY DEF SyncGroups, daemon
<1>3. copy[c] # NoCopy /\ copy[c].id \in Sources /\ copy[c].rec \in Record
  BY <1>1, <1>2, HeldFacts DEF Stage
<1>4. copy[c].rec.group \in Groups  BY <1>1, <1>2, <1>3 DEF Stage, Record
<1>5. groups' \in [Sources -> SUBSET Groups] /\ marks' \in [Marks -> SUBSET Sources]
  BY <1>1, <1>2, <1>3, <1>4, SyncedFacts
<1>6. /\ call' \in [Callers -> Call] /\ call'[c].pc = "save" /\ call'[c].id = call[c].id
      /\ call'[c].addr = call[c].addr
      /\ \A e \in Callers \ {c} : call'[e] = call[e]
  BY <1>1, <1>2, GotoFacts DEF Pcs
<1>7. TypeOK' /\ Held' = Held  BY <1>1, <1>2, <1>5, <1>6 DEF TypeOK, Held
<1>8. Stage(c)'  BY <1>1, <1>2, <1>6 DEF Stage
<1>9. /\ \A e \in Holders \ {c} : CopyKept(e)
      /\ copy'[c].id \in {copy[c].id, None}
      /\ c \notin Pollers => (copy'[c] # NoCopy <=> copy[c] # NoCopy)
  BY <1>1, <1>2, SameCopies
<1> QED  BY <1>2, <1>6, <1>7, <1>8, <1>9, BaseFrame

LEMMA BaseMembers ==
  ASSUME Base, NEW c \in Callers, Members(c)
  PROVE  Base'
<1>1. TypeOK /\ Stage(c) /\ c \in Holders  BY NoneFacts DEF Base
<1>2. /\ call[c].pc = "members" /\ Synced(call[c].id, call[c].got.group, {call[c].id})
      /\ Return(c) /\ copy' = copy
      /\ UNCHANGED <<daemonKey, member, stored, conf, conn, pinned>>
  BY DEF Members, daemon
<1>3. call[c].id \in Sources /\ call[c].got \in Member  BY <1>1, <1>2, CallFacts DEF Stage
<1>4. call[c].got.group \in Groups  BY <1>1, <1>2, <1>3 DEF Stage, Member
<1>5. groups' \in [Sources -> SUBSET Groups] /\ marks' \in [Marks -> SUBSET Sources]
  BY <1>1, <1>2, <1>3, <1>4, SyncedFacts
<1>6. /\ call' \in [Callers -> Call] /\ call'[c] = NoCall
      /\ \A e \in Callers \ {c} : call'[e] = call[e]
  BY <1>1, <1>2, ReturnFacts
<1>7. TypeOK' /\ Held' = Held  BY <1>1, <1>2, <1>5, <1>6 DEF TypeOK, Held
<1>8. Stage(c)'  BY <1>1, <1>2, <1>6 DEF Stage, NoCall
<1>9. /\ \A e \in Holders \ {c} : CopyKept(e)
      /\ copy'[c].id \in {copy[c].id, None}
      /\ c \notin Pollers => (copy'[c] # NoCopy <=> copy[c] # NoCopy)
  BY <1>1, <1>2, SameCopies
<1>10. call'[c].id = None /\ call'[c].pc = "idle"  BY <1>6 DEF NoCall
<1> QED  BY <1>2, <1>6, <1>7, <1>8, <1>9, <1>10, BaseFrame

\* What Delete leaves of the groups, at its end and when it stops before.
LEMMA MarkFacts ==
  ASSUME TypeOK, NEW n \in Marks, NEW i \in Sources, NEW yes \in BOOLEAN,
         marks' = Mark(n, i, yes)
  PROVE  /\ marks' \in [Marks -> SUBSET Sources]
         /\ yes => i \in marks'[n]
         /\ \A k \in Marks : marks[k] \subseteq marks'[k]
         /\ \A k \in Marks \ {n} : marks'[k] = marks[k]
BY DEF TypeOK, Mark

LEMMA BaseDelete ==
  ASSUME Base, NEW c \in Callers, Delete(c)
  PROVE  Base'
<1>1. TypeOK /\ Stage(c) /\ c \in Holders  BY NoneFacts DEF Base
<1>2. /\ call[c].pc = "idle" /\ copy[c].id \in Held /\ Goto(c, "drop") /\ copy' = copy
      /\ marks' = Mark("cleared", copy[c].id, TRUE)
      /\ groups' = [groups EXCEPT ![copy[c].id] = {}]
      /\ UNCHANGED <<daemonKey, member, stored, conf, conn, pinned>>
  BY DEF Delete, daemon
<1>3. copy[c].id \in Sources /\ copy[c] # NoCopy
  BY <1>1, <1>2, HeldFacts, NoneFacts DEF NoCopy
<1>4. groups' \in [Sources -> SUBSET Groups] /\ marks' \in [Marks -> SUBSET Sources]
  BY <1>1, <1>2, <1>3, MarkFacts DEF TypeOK, Marks
<1>5. /\ call' \in [Callers -> Call] /\ call'[c].pc = "drop" /\ call'[c].id = call[c].id
      /\ call'[c].addr = call[c].addr
      /\ \A e \in Callers \ {c} : call'[e] = call[e]
  BY <1>1, <1>2, GotoFacts DEF Pcs
<1>6. TypeOK' /\ Held' = Held  BY <1>1, <1>2, <1>4, <1>5 DEF TypeOK, Held
<1>7. Stage(c)'  BY <1>1, <1>2, <1>3, <1>5 DEF Stage
<1>8. /\ \A e \in Holders \ {c} : CopyKept(e)
      /\ copy'[c].id \in {copy[c].id, None}
      /\ c \notin Pollers => (copy'[c] # NoCopy <=> copy[c] # NoCopy)
  BY <1>1, <1>2, SameCopies
<1> QED  BY <1>2, <1>5, <1>6, <1>7, <1>8, BaseFrame

LEMMA BaseDeletePartly ==
  ASSUME Base, NEW c \in Callers, DeletePartly(c)
  PROVE  Base'
<1>1. TypeOK /\ Stage(c) /\ c \in Holders  BY NoneFacts DEF Base
<1>2. /\ copy[c].id \in Held /\ copy' = copy /\ call' = call
      /\ marks' = Mark("cleared", copy[c].id, TRUE)
      /\ UNCHANGED <<daemonKey, member, stored, conf, conn, pinned>>
  BY DEF DeletePartly, daemon
<1>3. copy[c].id \in Sources  BY <1>1, <1>2, HeldFacts
<1>4. groups' \in [Sources -> SUBSET Groups]  BY <1>1, <1>3 DEF DeletePartly, TypeOK
<1>5. marks' \in [Marks -> SUBSET Sources]
  BY <1>1, <1>2, <1>3, MarkFacts DEF Marks
<1>6. TypeOK' /\ Held' = Held  BY <1>1, <1>2, <1>4, <1>5 DEF TypeOK, Held
<1>7. Stage(c)'  BY <1>1, <1>2 DEF Stage
<1>8. /\ \A e \in Holders \ {c} : CopyKept(e)
      /\ copy'[c].id \in {copy[c].id, None}
      /\ c \notin Pollers => (copy'[c] # NoCopy <=> copy[c] # NoCopy)
  BY <1>1, <1>2, SameCopies
<1> QED  BY <1>2, <1>6, <1>7, <1>8, BaseFrame

LEMMA BaseResetUnwritten ==
  ASSUME Base, NEW c \in Callers, NEW a \in Addrs, ResetUnwritten(c, a)
  PROVE  Base'
<1>1. TypeOK /\ Left(a) /\ c \in Holders /\ copy[c] \in Copy \cup {NoCopy}
  BY NoneFacts DEF Base, TypeOK
<1>2. conf[a].kind = "reset" /\ Return(c)  BY DEF ResetUnwritten
<1>3. PICK h : /\ h = conf[a].owner
               /\ h \in Holders /\ h \notin Pollers /\ copy[h] \in Copy
               /\ Trusting(a) \in Copy /\ Trusting(a).id = copy[h].id
               /\ Trusting(a).rec = [copy[h].rec EXCEPT !.pin = daemonKey[a]]
  BY <1>1, <1>2, TrustingFacts
<1>4. PICK x : x = [Trusting(a) EXCEPT !.touched = TRUE]  OBVIOUS
<1>5. x \in Copy /\ x.id = copy[h].id /\ x.rec = Trusting(a).rec
  BY <1>3, <1>4 DEF Copy
<1>6. x.rec.group = copy[h].rec.group
  <2>1. copy[h].rec \in Record  BY <1>3 DEF Copy
  <2> QED  BY <1>3, <1>5, <2>1 DEF Record
<1>7. PICK s : s = SetCopy(c, copy[c])  OBVIOUS
<1>8. /\ s \in [Holders -> Copy \cup {NoCopy}]
      /\ s[c] = IF c \in Pollers THEN NoCopy ELSE copy[c]
      /\ \A e \in Holders \ {c} : s[e] = copy[e]
  BY <1>1, <1>7, SetCopyFacts
<1>9. copy' = [s EXCEPT ![h] = x]  BY <1>3, <1>4, <1>7 DEF ResetUnwritten
<1>10. copy' \in [Holders -> Copy \cup {NoCopy}]  BY <1>3, <1>5, <1>8, <1>9
<1>11. CopyKept(h)
  <2>1. copy'[h] = x  BY <1>3, <1>8, <1>9
  <2> QED  BY <1>3, <1>5, <1>6, <2>1, RecordFacts DEF CopyKept
<1>12. ASSUME NEW e \in Holders \ {c}  PROVE CopyKept(e)
  <2>1. CASE e # h
    <3>1. copy'[e] = copy[e]  BY <1>3, <1>8, <1>9, <2>1
    <3> QED  BY <3>1 DEF CopyKept
  <2> QED  BY <1>11, <2>1
<1>13. /\ call' \in [Callers -> Call] /\ call'[c] = NoCall
       /\ \A e \in Callers \ {c} : call'[e] = call[e]
  BY <1>1, <1>2, ReturnFacts
<1>14. UNCHANGED <<daemonKey, member, stored, groups, conf, conn, pinned, marks>>
  BY DEF ResetUnwritten, daemon
<1>15. TypeOK' /\ Held' = Held  BY <1>1, <1>10, <1>13, <1>14 DEF TypeOK, Held
<1>16. c # h => copy'[c] = s[c]  BY <1>3, <1>8, <1>9
<1>17. c \in Pollers => copy'[c] = NoCopy  BY <1>3, <1>8, <1>16
<1>18. Stage(c)'  BY <1>13, <1>17 DEF Stage, NoCall
<1>19. copy'[c].id \in {copy[c].id, None}
  <2>1. CASE c = h  BY <1>3, <1>11, <2>1, RecordFacts DEF CopyKept
  <2>2. CASE c # h  BY <1>8, <1>16, <2>2, RecordFacts
  <2> QED  BY <2>1, <2>2
<1>20. c \notin Pollers => (copy'[c] # NoCopy <=> copy[c] # NoCopy)
  BY <1>8, <1>11, <1>16 DEF CopyKept
<1>21. call'[c].id = None /\ call'[c].pc = "idle"  BY <1>13 DEF NoCall
<1> QED  BY <1>12, <1>13, <1>14, <1>15, <1>18, <1>19, <1>20, <1>21, BaseFrame

--------------------------------------------------------------------------------
(* The base of the invariant: the other steps *)

LEMMA BaseGet ==
  ASSUME Base, NEW c \in Callers, NEW i \in Sources, Get(c, i)
  PROVE  Base'
<1>1. TypeOK /\ Stage(c) /\ c \in Holders  BY NoneFacts DEF Base
<1>2. /\ call[c].pc = "idle" /\ c \notin Pollers /\ i \in Held
      /\ copy' = [h \in Holders |-> IF h = c THEN Current(i, stored[i])
                                    ELSE IF h \in ResetBy(c) THEN copy[c] ELSE copy[h]]
      /\ conf' = [a \in Addrs |-> IF a \in ResetBy(c) THEN [conf[a] EXCEPT !.owner = a]
                                  ELSE conf[a]]
      /\ UNCHANGED <<daemonKey, member, stored, groups, conn, call, pinned, marks>>
  BY DEF Get, daemon
<1>3. /\ Current(i, stored[i]) \in Copy /\ Current(i, stored[i]).id = i
      /\ Current(i, stored[i]) # NoCopy
  BY <1>1, <1>2, HeldFacts, CurrentFacts, RecordFacts
<1>4. /\ copy'[c] = Current(i, stored[i])
      /\ \A h \in Holders \ {c} : copy'[h] = IF h \in ResetBy(c) THEN copy[c] ELSE copy[h]
  BY <1>1, <1>2
<1>5. \A a \in ResetBy(c) : a \in Addrs /\ a # c /\ copy[c] # NoCopy
                            /\ conf[a].kind = "reset" /\ conf[a].owner = c
  BY <1>1, NoneFacts DEF ResetBy, Base, Left
<1>6. copy' \in [Holders -> Copy \cup {NoCopy}]  BY <1>1, <1>2, <1>3 DEF TypeOK
<1>7. conf' \in [Addrs -> Conf]
  <2>1. ASSUME NEW a \in Addrs  PROVE [conf[a] EXCEPT !.owner = a] \in Conf
    BY <1>1 DEF TypeOK, Conf, Holders
  <2> QED  BY <1>1, <1>2, <2>1 DEF TypeOK
<1>8. TypeOK' /\ Held' = Held  BY <1>1, <1>2, <1>6, <1>7 DEF TypeOK, Held
<1>9. ASSUME NEW e \in Callers  PROVE Stage(e)'
  <2>1. CASE e = c  BY <1>1, <1>2, <2>1 DEF Stage
  <2>2. CASE e # c
    <3>1. copy'[e] = copy[e]  BY <1>4, <1>5, <2>2, NoneFacts
    <3> QED  BY <1>2, <3>1 DEF Stage, Base
  <2> QED  BY <2>1, <2>2
<1>10. ASSUME NEW b \in Addrs  PROVE Left(b)'
  <2>1. CASE b \in ResetBy(c)
    <3>1. conf'[b] = [conf[b] EXCEPT !.owner = b]  BY <1>2, <2>1
    <3>2. conf'[b].kind = "reset" /\ conf'[b].owner = b
      BY <1>1, <1>5, <2>1, <3>1 DEF TypeOK, Conf
    <3>3. copy'[b] = copy[c]  BY <1>4, <1>5, <2>1, NoneFacts
    <3> QED  BY <1>5, <2>1, <3>2, <3>3 DEF Left
  <2>2. CASE b \notin ResetBy(c)
    <3>1. conf'[b] = conf[b] /\ copy'[b] = copy[b]
      BY <1>2, <1>4, <2>2, NoneFacts
    <3>2. Left(b) /\ (conf[b].kind = "reset" => conf[b].owner # c)
      BY <2>2 DEF Base, ResetBy
    <3>3. \A h \in Callers \ {c} : copy'[h] = copy[h]  BY <1>4, <1>5, NoneFacts
    <3> QED  BY <3>1, <3>2, <3>3 DEF Left
  <2> QED  BY <2>1, <2>2
<1>11. ASSUME NEW j \in Sources  PROVE Known(j)'
  <2>1. Known(j) /\ Known(i)  BY DEF Base
  <2>2. \A h \in Holders : copy'[h].id = j => j = i \/ copy[h].id = j \/ copy[c].id = j
    BY <1>3, <1>4
  <2> QED  BY <1>1, <1>2, <1>8, <2>1, <2>2 DEF Known
<1> QED  BY <1>8, <1>9, <1>10, <1>11 DEF Base

LEMMA BasePoll ==
  ASSUME Base, NEW c \in Callers, NEW i \in Sources, Poll(c, i)
  PROVE  Base'
<1>1. TypeOK /\ Stage(c) /\ c \in Holders  BY NoneFacts DEF Base
<1>2. /\ call[c].pc = "idle" /\ c \in Pollers /\ i \in Held /\ Goto(c, "status")
      /\ copy' = [copy EXCEPT ![c] = Current(i, stored[i])]
      /\ UNCHANGED <<daemonKey, member, stored, groups, conf, conn, pinned, marks>>
  BY DEF Poll, daemon
<1>3. /\ Current(i, stored[i]) \in Copy /\ Current(i, stored[i]).id = i
      /\ Current(i, stored[i]) # NoCopy
  BY <1>1, <1>2, HeldFacts, CurrentFacts, RecordFacts
<1>4. /\ copy'[c] = Current(i, stored[i])
      /\ \A h \in Holders \ {c} : copy'[h] = copy[h]
      /\ copy' \in [Holders -> Copy \cup {NoCopy}]
  BY <1>1, <1>2, <1>3 DEF TypeOK
<1>5. /\ call' \in [Callers -> Call] /\ call'[c].pc = "status" /\ call'[c].id = call[c].id
      /\ call'[c].addr = call[c].addr
      /\ \A e \in Callers \ {c} : call'[e] = call[e]
  BY <1>1, <1>2, GotoFacts DEF Pcs
<1>6. TypeOK' /\ Held' = Held  BY <1>1, <1>2, <1>4, <1>5 DEF TypeOK, Held
<1>7. ASSUME NEW e \in Callers  PROVE Stage(e)'
  <2>1. CASE e = c  BY <1>1, <1>2, <1>3, <1>4, <1>5, <2>1 DEF Stage
  <2>2. CASE e # c  BY <1>4, <1>5, <2>2, NoneFacts DEF Stage, Base
  <2> QED  BY <2>1, <2>2
<1>8. ASSUME NEW b \in Addrs  PROVE Left(b)'
  <2>1. \A h \in Holders \ Pollers : copy'[h] = copy[h]  BY <1>2, <1>4
  <2>2. Left(b) /\ conf'[b] = conf[b]  BY <1>2 DEF Base
  <2> QED  BY <2>1, <2>2, NoneFacts DEF Left
<1>9. ASSUME NEW j \in Sources  PROVE Known(j)'
  <2>1. Known(j) /\ Known(i)  BY DEF Base
  <2>2. \A h \in Holders : copy'[h].id = j => j = i \/ copy[h].id = j
    BY <1>3, <1>4
  <2>3. \A e \in Callers : call'[e].id = call[e].id
                            /\ (call'[e].pc = "insert" => call[e].pc = "insert")
    BY <1>5
  <2> QED  BY <1>2, <1>6, <2>1, <2>2, <2>3 DEF Known
<1> QED  BY <1>6, <1>7, <1>8, <1>9 DEF Base

\* A step that configures the client for a, and may end the call of a caller.
LEMMA BaseSetConf ==
  ASSUME Base, NEW a \in Addrs, NEW f \in Conf, SetConf(a, f),
         f.kind = "reset" => f.owner \in Callers \ Pollers /\ copy[f.owner] # NoCopy,
         f.kind = "create" => f.owner \in Callers,
         call' \in [Callers -> Call], \A e \in Callers : Stage(e)',
         \A e \in Callers : /\ call'[e].id # None => call'[e] = call[e]
                            /\ call'[e].pc = "insert" => call[e].pc = "insert",
         UNCHANGED <<daemonKey, member, stored, groups, pinned, marks>>
  PROVE  Base'
<1>1. TypeOK  BY DEF Base
<1>2. /\ conf' \in [Addrs -> Conf] /\ conf'[a] = f
      /\ conn' \in [Addrs -> Keys \cup {None}]
      /\ copy' \in [Holders -> Copy \cup {NoCopy}] /\ copy'[a] = NoCopy
      /\ \A b \in Addrs \ {a} : conf'[b] = conf[b]
      /\ \A h \in Holders \ {a} : copy'[h] = copy[h]
  BY <1>1, SetConfFacts
<1>3. TypeOK' /\ Held' = Held  BY <1>1, <1>2 DEF TypeOK, Held
<1>4. ASSUME NEW b \in Addrs  PROVE Left(b)'
  <2>1. CASE b = a  BY <1>2, <2>1, NoneFacts DEF Left
  <2>2. CASE b # a
    <3>1. Left(b) /\ conf'[b] = conf[b]  BY <1>2, <2>2 DEF Base
    <3>2. \A h \in Callers \cup {b} : copy'[h] = copy[h]  BY <1>2, <2>2, NoneFacts
    <3> QED  BY <3>1, <3>2 DEF Left
  <2> QED  BY <2>1, <2>2
<1>5. ASSUME NEW j \in Sources  PROVE Known(j)'
  <2>1. Known(j)  BY DEF Base
  <2>2. \A h \in Holders : copy'[h].id = j => copy[h].id = j
    BY <1>2, RecordFacts, NoneFacts
  <2>3. \A e \in Callers : call'[e].id = j => call[e].id = j  BY NoneFacts
  <2> QED  BY <1>3, <2>1, <2>2, <2>3 DEF Known
<1> QED  BY <1>3, <1>4, <1>5 DEF Base

LEMMA BaseCreate ==
  ASSUME Base, NEW c \in Callers, NEW a \in Addrs, Create(c, a)
  PROVE  Base'
<1> DEFINE k == [NoCall EXCEPT !.pc = "enroll", !.addr = a]
           f == [NoConf EXCEPT !.kind = "create", !.owner = c]
<1>1. TypeOK /\ Stage(c)  BY DEF Base
<1>2. /\ call[c].pc = "idle" /\ call' = [call EXCEPT ![c] = k] /\ SetConf(a, f)
      /\ UNCHANGED <<daemonKey, member, stored, groups, pinned, marks>>
  BY DEF Create, daemon
<1>3. /\ k \in Call /\ k.pc = "enroll" /\ k.addr = a /\ k.id = None
  BY DEF Call, NoCall, Pcs
<1>4. f \in Conf /\ f.kind = "create" /\ f.owner = c  BY NoneFacts DEF Conf, NoConf
<1> HIDE DEF k, f
<1>5. /\ call' \in [Callers -> Call] /\ call'[c] = k
      /\ \A e \in Callers \ {c} : call'[e] = call[e]
  BY <1>1, <1>2, <1>3 DEF TypeOK
<1>6. \A e \in Callers : copy'[e] = copy[e]
  BY <1>1, <1>2, <1>4, SetConfFacts, NoneFacts
<1>7. ASSUME NEW e \in Callers  PROVE Stage(e)'
  <2>1. CASE e = c  BY <1>1, <1>2, <1>3, <1>5, <1>6, <2>1, NoneFacts DEF Stage
  <2>2. CASE e # c  BY <1>5, <1>6, <2>2 DEF Stage, Base
  <2> QED  BY <2>1, <2>2
<1>8. \A e \in Callers : /\ call'[e].id # None => call'[e] = call[e]
                         /\ call'[e].pc = "insert" => call[e].pc = "insert"
  BY <1>3, <1>5
<1> QED  BY <1>2, <1>4, <1>5, <1>7, <1>8, BaseSetConf

LEMMA BaseArm ==
  ASSUME Base, NEW c \in Callers, Arm(c)
  PROVE  Base'
<1> DEFINE f == [NoConf EXCEPT !.kind = "reset", !.owner = c]
           a == copy[c].rec.addr
<1>1. TypeOK /\ Stage(c) /\ c \in Holders  BY NoneFacts DEF Base
<1>2. /\ call[c].pc = "arm" /\ SetConf(a, f) /\ Return(c)
      /\ UNCHANGED <<daemonKey, member, stored, groups, pinned, marks>>
  BY DEF Arm, daemon
<1>3. copy[c] # NoCopy /\ c \notin Pollers /\ a \in Addrs
  BY <1>1, <1>2, HeldFacts DEF Stage, Record
<1>4. f \in Conf /\ f.kind = "reset" /\ f.owner = c  BY NoneFacts DEF Conf, NoConf
<1> HIDE DEF f, a
<1>5. /\ call' \in [Callers -> Call] /\ call'[c] = NoCall
      /\ \A e \in Callers \ {c} : call'[e] = call[e]
  BY <1>1, <1>2, ReturnFacts
<1>6. \A e \in Callers : copy'[e] = copy[e]
  BY <1>1, <1>2, <1>3, <1>4, SetConfFacts, NoneFacts
<1>7. ASSUME NEW e \in Callers  PROVE Stage(e)'
  <2>1. CASE e = c  BY <1>3, <1>5, <2>1 DEF Stage, NoCall
  <2>2. CASE e # c  BY <1>5, <1>6, <2>2 DEF Stage, Base
  <2> QED  BY <2>1, <2>2
<1>8. \A e \in Callers : /\ call'[e].id # None => call'[e] = call[e]
                         /\ call'[e].pc = "insert" => call[e].pc = "insert"
  BY <1>5 DEF NoCall
<1> QED  BY <1>2, <1>3, <1>4, <1>5, <1>7, <1>8, BaseSetConf

LEMMA BaseConfigure ==
  ASSUME Base, NEW i \in Sources, Configure(i)
  PROVE  Base'
<1> DEFINE f == [NoConf EXCEPT !.kind = "pin", !.pin = stored[i].pin]
           a == stored[i].addr
<1>1. TypeOK  BY DEF Base
<1>2. /\ i \in Held /\ SetConf(a, f) /\ call' = call
      /\ UNCHANGED <<daemonKey, member, stored, groups, pinned, marks>>
  BY DEF Configure, daemon
<1>3. stored[i] \in Record  BY <1>1, <1>2, HeldFacts
<1>4. a \in Addrs /\ f \in Conf /\ f.kind = "pin"  BY <1>3 DEF Record, Conf, NoConf
<1> HIDE DEF f, a
<1>5. \A e \in Callers : copy'[e] = copy[e]
  BY <1>1, <1>2, <1>4, SetConfFacts, NoneFacts
<1>6. \A e \in Callers : Stage(e)'  BY <1>2, <1>5 DEF Stage, Base
<1>7. call' \in [Callers -> Call]  BY <1>1, <1>2 DEF TypeOK
<1> QED  BY <1>2, <1>4, <1>6, <1>7, BaseSetConf

LEMMA EnrollFacts ==
  ASSUME Base, NEW c \in Callers, NEW i \in Sources, Enroll(c, i)
  PROVE  \E m \in Member :
           /\ call[c].pc = "enroll" /\ call[c].addr \in Addrs /\ call[c].id = None
           /\ conn[call[c].addr] # None /\ member[i] = NoMember
           /\ member' = [member EXCEPT ![i] = m]
           /\ call' \in [Callers -> Call]
           /\ call'[c].pc = "insert" /\ call'[c].id = i /\ call'[c].got = m
           /\ call'[c].addr = call[c].addr /\ call'[c].fp = call[c].fp
           /\ \A e \in Callers \ {c} : call'[e] = call[e]
           /\ conf' \in [Addrs -> Conf]
           /\ \A a \in Addrs :
                /\ conf'[a].kind = conf[a].kind /\ conf'[a].owner = conf[a].owner
                /\ conf'[a].id = IF a = call[c].addr /\ conf[a].kind = "create"
                                                    /\ conf[a].owner = c
                                 THEN i ELSE conf[a].id
<1>1. TypeOK /\ Stage(c)  BY DEF Base
<1>2. PICK m \in Member :
        /\ member' = [member EXCEPT ![i] = m]
        /\ call' = [call EXCEPT ![c].pc = "insert", ![c].id = i, ![c].got = m]
  BY DEF Enroll
<1>3. call[c].pc = "enroll" /\ member[i] = NoMember /\ conn[call[c].addr] # None
  BY DEF Enroll
<1>4. call[c].addr \in Addrs /\ call[c].id = None
  BY <1>1, <1>3, CallFacts DEF Stage
<1>5. call[c] \in Call /\ call \in [Callers -> Call]  BY <1>1 DEF TypeOK
<1>6. PICK k : k = [call[c] EXCEPT !.pc = "insert", !.id = i, !.got = m]  OBVIOUS
<1>7. /\ k \in Call /\ k.pc = "insert" /\ k.id = i /\ k.got = m
      /\ k.addr = call[c].addr /\ k.fp = call[c].fp
  BY <1>5, <1>6 DEF Call, Pcs
<1>8. call' = [call EXCEPT ![c] = k]  BY <1>2, <1>5, <1>6
<1>9. call' \in [Callers -> Call] /\ call'[c] = k /\ \A e \in Callers \ {c} : call'[e] = call[e]
  BY <1>5, <1>7, <1>8
<1>10. PICK b : b = call[c].addr  OBVIOUS
<1>11. PICK own : own = (conf[b].kind = "create" /\ conf[b].owner = c)  OBVIOUS
<1>12. conf' = IF own THEN [conf EXCEPT ![b].id = i] ELSE conf
  BY <1>10, <1>11 DEF Enroll
<1>13. b \in Addrs /\ conf \in [Addrs -> Conf] /\ conf[b] \in Conf
  BY <1>1, <1>4, <1>10 DEF TypeOK
<1>14. PICK f : f = [conf[b] EXCEPT !.id = i]  OBVIOUS
<1>15. f \in Conf /\ f.kind = conf[b].kind /\ f.owner = conf[b].owner /\ f.id = i
  BY <1>13, <1>14 DEF Conf
<1>16. conf' = IF own THEN [conf EXCEPT ![b] = f] ELSE conf
  BY <1>12, <1>13, <1>14
<1>17. /\ conf' \in [Addrs -> Conf]
       /\ \A a \in Addrs :
            /\ conf'[a].kind = conf[a].kind /\ conf'[a].owner = conf[a].owner
            /\ conf'[a].id = IF a = b /\ own THEN i ELSE conf[a].id
  BY <1>13, <1>15, <1>16
<1>18. \A a \in Addrs :
         /\ conf'[a].kind = conf[a].kind /\ conf'[a].owner = conf[a].owner
         /\ conf'[a].id = IF a = call[c].addr /\ conf[a].kind = "create"
                                             /\ conf[a].owner = c
                          THEN i ELSE conf[a].id
  BY <1>10, <1>11, <1>17
<1> QED  BY <1>2, <1>3, <1>4, <1>7, <1>9, <1>17, <1>18

LEMMA BaseEnroll ==
  ASSUME Base, NEW c \in Callers, NEW i \in Sources, Enroll(c, i)
  PROVE  Base'
<1>1. TypeOK /\ Stage(c) /\ c \in Holders  BY NoneFacts DEF Base
<1>2. PICK m \in Member :
        /\ call[c].pc = "enroll" /\ call[c].addr \in Addrs /\ call[c].id = None
        /\ conn[call[c].addr] # None /\ member[i] = NoMember
        /\ member' = [member EXCEPT ![i] = m]
        /\ call' \in [Callers -> Call]
        /\ call'[c].pc = "insert" /\ call'[c].id = i /\ call'[c].got = m
        /\ call'[c].addr = call[c].addr
        /\ \A e \in Callers \ {c} : call'[e] = call[e]
        /\ conf' \in [Addrs -> Conf]
        /\ \A a \in Addrs : conf'[a].kind = conf[a].kind /\ conf'[a].owner = conf[a].owner
  BY EnrollFacts
<1>3. /\ UNCHANGED <<daemonKey, stored, groups, conn, copy>>
      /\ pinned' = [pinned EXCEPT ![i] = conn[call[c].addr]]
      /\ marks' = Mark("crossed", i, ~(/\ conf[call[c].addr].kind = "create"
                                       /\ conf[call[c].addr].owner = c))
  BY DEF Enroll
<1>4. member' \in [Sources -> Member \cup {NoMember}]  BY <1>1, <1>2 DEF TypeOK
<1>5. pinned' \in [Sources -> Keys \cup {None}]  BY <1>1, <1>2, <1>3 DEF TypeOK
<1>6. marks' \in [Marks -> SUBSET Sources]
  BY <1>1, <1>3, MarkFacts DEF Marks
<1>7. TypeOK' /\ Held' = Held
  BY <1>1, <1>2, <1>3, <1>4, <1>5, <1>6 DEF TypeOK, Held
<1>8. ASSUME NEW e \in Callers  PROVE Stage(e)'
  <2>1. CASE e = c  BY <1>1, <1>2, <1>3, <2>1, NoneFacts DEF Stage
  <2>2. CASE e # c  BY <1>2, <1>3, <2>2 DEF Stage, Base
  <2> QED  BY <2>1, <2>2
<1>9. \A b \in Addrs : Left(b)'  BY <1>2, <1>3 DEF Left, Base
<1>10. ASSUME NEW j \in Sources  PROVE Known(j)'
  <2>1. Known(j) /\ Known(i)  BY DEF Base
  <2>2. CASE j = i
    <3>1. member'[i] # NoMember  BY <1>1, <1>2, RecordFacts DEF TypeOK
    <3>2. i \notin Held /\ (\A h \in Holders : copy[h].id # i)
          /\ \A e \in Callers : call[e].id # i
      BY <1>2, <2>1 DEF Known
    <3> QED  BY <1>2, <1>3, <1>7, <2>2, <3>1, <3>2 DEF Known
  <2>3. CASE j # i
    <3>1. member'[j] = member[j]  BY <1>1, <1>2, <2>3 DEF TypeOK
    <3>2. \A e \in Callers : call'[e].id = j => e # c  BY <1>2, <2>3
    <3> QED  BY <1>2, <1>3, <1>7, <2>1, <3>1, <3>2 DEF Known
  <2> QED  BY <2>2, <2>3
<1> QED  BY <1>7, <1>8, <1>9, <1>10 DEF Base

LEMMA InsertFacts ==
  ASSUME Base, NEW c \in Callers, Insert(c)
  PROVE  /\ call[c].pc = "insert" /\ call[c].id \in Sources /\ call[c].got \in Member
         /\ Inserted(call[c]) \in Record
         /\ \/ /\ stored' = [stored EXCEPT ![call[c].id] = Inserted(call[c])]
               /\ marks' = Mark("half", call[c].id, call[c].got.group # None)
            \/ UNCHANGED <<stored, marks>>
         /\ stored' \in [Sources -> Record \cup {NoRecord}]
         /\ marks' \in [Marks -> SUBSET Sources]
         /\ call' \in [Callers -> Call]
         /\ call'[c].pc # "insert"
         /\ IF call[c].got.group = None THEN call'[c] = NoCall
            ELSE call'[c] = [call[c] EXCEPT !.pc = "members"]
         /\ \A e \in Callers \ {c} : call'[e] = call[e]
<1>1. TypeOK /\ Stage(c)  BY DEF Base
<1>2. call[c].pc = "insert"  BY DEF Insert
<1>3. call[c].id \in Sources /\ call[c].got \in Member /\ call[c].addr \in Addrs
      /\ call[c].fp \in Keys \cup {None}
  BY <1>1, <1>2, CallFacts DEF Stage
<1>4. Inserted(call[c]) \in Record
  <2>1. call[c].got.auth \in {"waiting", "approved"}
        /\ call[c].got.group \in Groups \cup {None}
    BY <1>3 DEF Member
  <2>2. (IF call[c].got.auth = "approved" THEN "new" ELSE call[c].got.auth) \in Auths
    BY <2>1 DEF Auths
  <2> QED  BY <1>3, <2>1, <2>2 DEF Inserted, Record
<1>5. \/ /\ stored' = [stored EXCEPT ![call[c].id] = Inserted(call[c])]
         /\ marks' = Mark("half", call[c].id, call[c].got.group # None)
      \/ UNCHANGED <<stored, marks>>
  BY DEF Insert
<1>6. stored' \in [Sources -> Record \cup {NoRecord}]
  BY <1>1, <1>3, <1>4, <1>5 DEF TypeOK
<1>7. marks' \in [Marks -> SUBSET Sources]
  BY <1>1, <1>3, <1>5, MarkFacts DEF Marks, TypeOK
<1>8. CASE call[c].got.group = None
  <2>1. Return(c)  BY <1>8 DEF Insert
  <2>2. NoCall.pc # "insert"  BY DEF NoCall
  <2> QED  BY <1>1, <1>2, <1>3, <1>4, <1>5, <1>6, <1>7, <1>8, <2>1, <2>2, ReturnFacts
<1>9. CASE call[c].got.group # None
  <2>1. Goto(c, "members")  BY <1>9 DEF Insert
  <2> QED  BY <1>1, <1>2, <1>3, <1>4, <1>5, <1>6, <1>7, <1>9, <2>1, GotoFacts DEF Pcs
<1> QED  BY <1>8, <1>9

LEMMA BaseInsert ==
  ASSUME Base, NEW c \in Callers, Insert(c)
  PROVE  Base'
<1>1. TypeOK /\ Stage(c) /\ c \in Holders  BY NoneFacts DEF Base
<1>2. UNCHANGED <<daemonKey, member, groups, conf, conn, copy, pinned>>
  BY DEF Insert, daemon
<1>3. /\ call[c].pc = "insert" /\ call[c].id \in Sources /\ call[c].got \in Member
      /\ Inserted(call[c]) \in Record
      /\ \/ stored' = [stored EXCEPT ![call[c].id] = Inserted(call[c])]
         \/ stored' = stored
      /\ stored' \in [Sources -> Record \cup {NoRecord}]
      /\ marks' \in [Marks -> SUBSET Sources]
      /\ call' \in [Callers -> Call]
      /\ call'[c].pc # "insert"
      /\ IF call[c].got.group = None THEN call'[c] = NoCall
         ELSE call'[c] = [call[c] EXCEPT !.pc = "members"]
      /\ \A e \in Callers \ {c} : call'[e] = call[e]
  BY InsertFacts
<1>4. TypeOK'  BY <1>1, <1>2, <1>3 DEF TypeOK
<1>5. \A j \in Held' : j \in Held \/ j = call[c].id  BY <1>1, <1>3 DEF Held, TypeOK
<1>6. Stage(c)'
  <2>1. CASE call[c].got.group = None
    <3>1. call'[c] = NoCall  BY <1>3, <2>1
    <3> QED  BY <1>1, <1>2, <1>3, <3>1 DEF Stage, NoCall
  <2>2. CASE call[c].got.group # None
    <3>1. call'[c] = [call[c] EXCEPT !.pc = "members"] /\ call[c] \in Call
      BY <1>1, <1>3, <2>2 DEF TypeOK
    <3>2. /\ call'[c].pc = "members" /\ call'[c].id = call[c].id
          /\ call'[c].addr = call[c].addr /\ call'[c].got = call[c].got
      BY <3>1 DEF Call
    <3> QED  BY <1>1, <1>2, <1>3, <2>2, <3>2 DEF Stage
  <2> QED  BY <2>1, <2>2
<1>7. ASSUME NEW e \in Callers  PROVE Stage(e)'
  <2>1. CASE e # c  BY <1>2, <1>3, <2>1 DEF Stage, Base
  <2> QED  BY <1>6, <2>1
<1>8. \A b \in Addrs : Left(b)'  BY <1>2 DEF Left, Base
<1>9. ASSUME NEW j \in Sources  PROVE Known(j)'
  <2>1. Known(j) /\ Known(call[c].id)  BY <1>3 DEF Base
  <2>2. call'[c].id = None \/ call'[c].id = call[c].id
    BY <1>1, <1>3 DEF NoCall, TypeOK, Call
  <2>3. \A e \in Callers : call'[e].id = j => call[e].id = j  BY <1>3, <2>2, NoneFacts
  <2>4. \A e \in Callers : call'[e].pc = "insert" /\ call'[e].id = j =>
          call[e].pc = "insert" /\ call[e].id = j /\ e # c
    BY <1>3
  <2>5. j = call[c].id => \A e \in Callers : call'[e].pc = "insert" => call'[e].id # j
    BY <1>3, <2>1, <2>4 DEF Known
  <2> QED  BY <1>2, <1>5, <1>3, <2>1, <2>3, <2>4, <2>5 DEF Known
<1> QED  BY <1>4, <1>7, <1>8, <1>9 DEF Base

LEMMA BaseCrash ==
  ASSUME Base, Crash
  PROVE  Base'
<1>1. TypeOK  BY DEF Base
<1>2. NoConf \in Conf /\ NoCall \in Call  BY DEF NoConf, Conf, NoCall, Call, Pcs
<1>3. TypeOK' /\ Held' = Held  BY <1>1, <1>2 DEF TypeOK, Crash, Held, daemon
<1>4. /\ \A c \in Callers : call'[c] = NoCall /\ copy'[c] = NoCopy
      /\ \A h \in Holders : copy'[h].id = None
      /\ \A a \in Addrs : conf'[a] = NoConf
  BY NoneFacts, RecordFacts DEF Crash
<1>5. \A c \in Callers : Stage(c)'  BY <1>4 DEF Stage, NoCall
<1>6. \A a \in Addrs : Left(a)'  BY <1>4 DEF Left, NoConf
<1>7. ASSUME NEW j \in Sources  PROVE Known(j)'
  <2>1. Known(j) /\ member' = member  BY DEF Base, Crash, daemon
  <2>2. \A c \in Callers : call'[c].id # j  BY <1>4, NoneFacts DEF NoCall
  <2> QED  BY <1>3, <1>4, <2>1, <2>2, NoneFacts DEF Known
<1> QED  BY <1>3, <1>5, <1>6, <1>7 DEF Base

LEMMA BaseDaemon ==
  ASSUME Base, \/ \E i \in Sources : Admit(i)
               \/ \E a \in Addrs : Rekey(a) \/ Disconnect(a)
  PROVE  Base'
<1>1. TypeOK  BY DEF Base
<1>2. UNCHANGED <<stored, groups, conf, copy, call, pinned, marks>>
  BY DEF Admit, Rekey, Disconnect, daemon
<1>3. \A i \in Sources : member'[i] = NoMember => member[i] = NoMember
  <2>1. ASSUME NEW i \in Sources, Admit(i), NEW j \in Sources, member'[j] = NoMember
        PROVE  member[j] = NoMember
    <3>1. CASE j = i  BY <2>1, <3>1, <1>1, RecordFacts DEF Admit, TypeOK, NoMember
    <3>2. CASE j # i  BY <2>1, <3>2, <1>1 DEF Admit, TypeOK
    <3> QED  BY <3>1, <3>2
  <2> QED  BY <2>1 DEF Rekey, Disconnect, daemon
<1>4. TypeOK'
  <2>1. ASSUME NEW i \in Sources, Admit(i)  PROVE TypeOK'
    <3>1. \A g \in Groups : [auth |-> "approved", group |-> g] \in Member  BY DEF Member
    <3> QED  BY <1>1, <1>2, <2>1, <3>1 DEF Admit, TypeOK
  <2>2. ASSUME NEW a \in Addrs, Rekey(a) \/ Disconnect(a)  PROVE TypeOK'
    BY <1>1, <1>2, <2>2 DEF Rekey, Disconnect, TypeOK, daemon
  <2> QED  BY <2>1, <2>2
<1>5. \A c \in Callers : Stage(c)'  BY <1>2 DEF Stage, Base
<1>6. \A a \in Addrs : Left(a)'  BY <1>2 DEF Left, Base
<1>7. ASSUME NEW j \in Sources  PROVE Known(j)'
  <2>1. Known(j) /\ Held' = Held  BY <1>2 DEF Base, Held
  <2> QED  BY <1>2, <1>3, <2>1 DEF Known
<1> QED  BY <1>4, <1>5, <1>6, <1>7 DEF Base

LEMMA BaseInit == Init => Base
<1> SUFFICES ASSUME Init  PROVE Base
  OBVIOUS
<1>1. NoConf \in Conf /\ NoCall \in Call  BY DEF NoConf, Conf, NoCall, Call, Pcs
<1>2. TypeOK  BY <1>1 DEF Init, TypeOK
<1>3. \A i \in Sources : i \notin Held  BY DEF Init, Held
<1>4. \A c \in Callers : Stage(c)  BY NoneFacts DEF Init, Stage, NoCall
<1>5. \A a \in Addrs : Left(a)  BY DEF Init, Left, NoConf
<1>6. \A i \in Sources : Known(i)
  BY <1>3, NoneFacts, RecordFacts DEF Init, Known, NoCall, Member
<1> QED  BY <1>2, <1>4, <1>5, <1>6 DEF Base

--------------------------------------------------------------------------------
(* The kinds of steps, by what they do to the records and the copies *)

\* Records and copies stay as they are, or are let go of.
Quiet ==
  \/ \E c \in Callers :
       \/ CheckStatus(c) \/ SyncGroups(c) \/ Members(c) \/ Delete(c) \/ DeletePartly(c)
       \/ Arm(c) \/ Drop(c)
       \/ \E a \in Addrs : ConnectPinned(c, a) \/ ConnectCreate(c, a) \/ Refused(c, a)
                           \/ Create(c, a)
       \/ \E i \in Sources : Enroll(c, i)
  \/ Environment
  \/ Crash

\* A copy is loaded; a copy is written over its record; a call that fails changes
\* a copy.
Load == \E c \in Callers, i \in Sources : Get(c, i) \/ Poll(c, i)
Write ==
  \E c \in Callers : \/ Update(c) \/ Reset(c) \/ Save(c)
                     \/ \E a \in Addrs : ConnectReset(c, a)
Touch ==
  \E c \in Callers : \/ ResetFails(c) \/ StatusUnopened(c) \/ Fail(c)
                     \/ \E a \in Addrs : ResetUnwritten(c, a)

LEMMA Kinds == Next => \/ Quiet \/ Load \/ Write \/ Touch
                       \/ \E c \in Callers : Status(c) \/ Insert(c)
BY DEF Next, Step, CheckStep, CreateStep, Start, Fault, Connect, Quiet, Load, Write, Touch

LEMMA BaseStep == Base /\ [Next]_vars => Base'
<1> SUFFICES ASSUME Base, [Next]_vars  PROVE Base'
  OBVIOUS
<1>1. CASE UNCHANGED vars
  <2>1. TypeOK' /\ Held' = Held  BY <1>1 DEF Base, TypeOK, Held, vars
  <2> QED  BY <1>1, <2>1 DEF Base, Stage, Left, Known, vars
<1>2. CASE Quiet
  BY <1>2, BaseCheckStatus, BaseSyncGroups, BaseMembers, BaseDelete, BaseDeletePartly,
     BaseArm, BaseDrop, BaseConnectPinned, BaseConnectCreate, BaseRefused, BaseCreate,
     BaseEnroll, BaseConfigure, BaseDaemon, BaseCrash
     DEF Quiet, Environment
<1>3. CASE Load  BY <1>3, BaseGet, BasePoll DEF Load
<1>4. CASE Write  BY <1>4, BaseUpdate, BaseReset, BaseSave, BaseConnectReset DEF Write
<1>5. CASE Touch
  BY <1>5, BaseResetFails, BaseStatusUnopened, BaseFail, BaseResetUnwritten DEF Touch
<1>6. CASE \E c \in Callers : Status(c) \/ Insert(c)  BY <1>6, BaseStatus, BaseInsert
<1> QED  BY <1>1, <1>2, <1>3, <1>4, <1>5, <1>6, Kinds

\* A stuttering step aside, the marks only grow, except that "half" is removed when
\* Create is done.
LEMMA MarksGrow ==
  ASSUME Base, [Next]_vars
  PROVE  \A n \in Marks \ {"half"} : marks[n] \subseteq marks'[n]
<1>1. TypeOK  BY DEF Base
<1>2. CASE UNCHANGED vars  BY <1>2 DEF vars
<1>3. CASE Next
  <2>1. ASSUME NEW h, NEW x, Overwrite(h, x)
        PROVE  \A n \in Marks : marks[n] \subseteq marks'[n]
    BY <1>1, <2>1 DEF Overwrite, TypeOK
  <2>2. ASSUME NEW i, NEW g, NEW S, Synced(i, g, S)
        PROVE  \A n \in Marks \ {"half"} : marks[n] \subseteq marks'[n]
    BY <1>1, <2>2 DEF Synced, TypeOK
  <2>3. ASSUME NEW n \in Marks, NEW i, NEW yes, marks' = Mark(n, i, yes)
        PROVE  \A k \in Marks : marks[k] \subseteq marks'[k]
    BY <1>1, <2>3 DEF Mark, TypeOK
  <2>4. CASE Quiet
    <3>1. ASSUME NEW c \in Callers, SyncGroups(c) \/ Members(c)
          PROVE  \A n \in Marks \ {"half"} : marks[n] \subseteq marks'[n]
      BY <2>2, <3>1 DEF SyncGroups, Members
    <3>2. ASSUME NEW c \in Callers, Delete(c) \/ DeletePartly(c)
          PROVE  \A n \in Marks : marks[n] \subseteq marks'[n]
      BY <2>3, <3>2 DEF Delete, DeletePartly, Marks
    <3>3. ASSUME NEW c \in Callers, NEW i \in Sources, Enroll(c, i)
          PROVE  \A n \in Marks : marks[n] \subseteq marks'[n]
      BY <2>3, <3>3 DEF Enroll, Marks
    <3>4. ASSUME NEW c \in Callers, NEW a \in Addrs, ConnectCreate(c, a)
          PROVE  \A n \in Marks : marks[n] \subseteq marks'[n]
      BY <1>1, <3>4, CreateTrusts
    <3> QED  BY ZenonT(60), <2>4, <3>1, <3>2, <3>3, <3>4
          DEF Quiet, CheckStatus, Arm, Drop, ConnectPinned, Refused, Create,
              Environment, Configure, Admit, Rekey, Disconnect, Crash
  <2>5. CASE Load  BY <2>5 DEF Load, Get, Poll
  <2>6. CASE Write  BY <2>1, <2>6 DEF Write, Update, Reset, Save, ConnectReset
  <2>7. CASE Touch
    BY <2>7 DEF Touch, ResetFails, StatusUnopened, Fail, ResetUnwritten
  <2>8. CASE \E c \in Callers : Status(c) \/ Insert(c)
    BY <2>3, <2>8 DEF Status, Insert, Marks
  <2> QED  BY <1>3, <2>4, <2>5, <2>6, <2>7, <2>8, Kinds
<1> QED  BY <1>2, <1>3

LEMMA QuietFacts ==
  ASSUME Base, Quiet
  PROVE  /\ \A h \in Holders : copy'[h] \in {copy[h], NoCopy}
         /\ \A i \in Held' : i \in Held /\ stored'[i] = stored[i]
<1>1. TypeOK  BY DEF Base
<1>2. ASSUME NEW c \in Callers, NEW a \in Addrs, Refused(c, a)
      PROVE  \A h \in Holders : copy'[h] \in {copy[h], NoCopy}
  <2>1. copy' = SetCopy(c, copy[c]) /\ c \in Holders /\ copy[c] \in Copy \cup {NoCopy}
    BY <1>1, <1>2, NoneFacts DEF Refused, LetGo, TypeOK
  <2> QED  BY <1>1, <2>1, SetCopyFacts
<1>3. ASSUME NEW a, NEW f, SetConf(a, f)
      PROVE  \A h \in Holders : copy'[h] \in {copy[h], NoCopy}
  BY <1>1, <1>3 DEF SetConf, TypeOK
<1>4. ASSUME NEW c \in Callers, Drop(c)
      PROVE  \A i \in Held' : i \in Held /\ stored'[i] = stored[i]
  BY <1>1, <1>4 DEF Drop, Held, TypeOK
<1>5. \A h \in Holders : copy'[h] \in {copy[h], NoCopy}
  BY ZenonT(60), <1>2, <1>3
     DEF Quiet, CheckStatus, SyncGroups, Members, Delete, DeletePartly, Arm, Drop,
         ConnectPinned, ConnectCreate, Create, Enroll, Environment, Configure,
         Admit, Rekey, Disconnect, Crash
<1>6. stored' = stored \/ \E c \in Callers : Drop(c)
  BY ZenonT(60) DEF Quiet, CheckStatus, SyncGroups, Members, Delete, DeletePartly, Arm,
         ConnectPinned, ConnectCreate, Refused, Create, Enroll, Environment, Configure,
         Admit, Rekey, Disconnect, Crash
<1>7. stored' = stored => Held' = Held  BY DEF Held
<1> QED  BY <1>4, <1>5, <1>6, <1>7

LEMMA LoadFacts ==
  ASSUME Base, Load
  PROVE  /\ UNCHANGED <<daemonKey, member, stored, groups, conn, pinned, marks>>
         /\ \E c \in Callers, i \in Held :
              /\ i \in Sources
              /\ copy'[c] = Current(i, stored[i])
              /\ copy[c] = NoCopy \/ c \notin Pollers
              /\ call[c].pc = "idle"
              /\ call'[c].pc \in {"idle", "status"}
              /\ \A e \in Callers : /\ call'[e].id = call[e].id
                                    /\ call'[e].addr = call[e].addr
                                    /\ call'[e].got = call[e].got
                                    /\ call'[e].fp = call[e].fp
                                    /\ e # c => call'[e].pc = call[e].pc
              /\ \A h \in Callers \ {c} : copy'[h] = copy[h]
              /\ \A h \in Holders \ {c} : copy'[h] = copy[h] \/ copy'[h] = copy[c]
<1>1. TypeOK  BY DEF Base
<1>2. PICK c \in Callers, i \in Sources : Get(c, i) \/ Poll(c, i)  BY DEF Load
<1>3. c \in Holders /\ Stage(c)  BY NoneFacts DEF Base
<1>4. CASE Get(c, i)
  <2>1. /\ i \in Held /\ call' = call /\ call[c].pc = "idle" /\ c \notin Pollers
        /\ copy' = [h \in Holders |-> IF h = c THEN Current(i, stored[i])
                                      ELSE IF h \in ResetBy(c) THEN copy[c] ELSE copy[h]]
        /\ UNCHANGED <<daemonKey, member, stored, groups, conn, pinned, marks>>
    BY <1>4 DEF Get, daemon
  <2>2. \A h \in ResetBy(c) : h \notin Callers  BY NoneFacts DEF ResetBy
  <2> QED  BY <1>3, <2>1, <2>2, NoneFacts
<1>5. CASE Poll(c, i)
  <2>1. /\ i \in Held /\ Goto(c, "status") /\ call[c].pc = "idle"
        /\ copy' = [copy EXCEPT ![c] = Current(i, stored[i])]
        /\ UNCHANGED <<daemonKey, member, stored, groups, conn, pinned, marks>>
    BY <1>5 DEF Poll, daemon
  <2>2. /\ copy'[c] = Current(i, stored[i])
        /\ \A h \in Holders \ {c} : copy'[h] = copy[h]
    BY <1>1, <1>3, <2>1 DEF TypeOK
  <2>3. /\ call'[c].pc = "status" /\ call'[c].id = call[c].id
        /\ call'[c].addr = call[c].addr /\ call'[c].got = call[c].got
        /\ call'[c].fp = call[c].fp
        /\ \A e \in Callers \ {c} : call'[e] = call[e]
    BY <1>1, <2>1, GotoFacts DEF Pcs
  <2>4. copy[c] = NoCopy \/ c \notin Pollers  BY <1>3, <2>1 DEF Stage
  <2> QED  BY <2>1, <2>2, <2>3, <2>4, NoneFacts
<1> QED  BY <1>2, <1>4, <1>5

LEMMA WriteFacts ==
  ASSUME Base, Write
  PROVE  \E h \in Holders, x \in Copy :
           /\ Overwrite(h, x) /\ copy[h] \in Copy /\ x.id = copy[h].id
           /\ x.rec.group = copy[h].rec.group /\ x.rec.key = copy[h].rec.key
           /\ copy[h].touched => x.touched
           /\ h \in Callers /\ call[h].pc = "sync" => x.touched
           /\ \/ x = copy[h] /\ pinned' = pinned
              \/ ~x.behind /\ pinned' = [pinned EXCEPT ![x.id] = x.rec.pin]
           /\ UNCHANGED <<daemonKey, member, groups, conf>>
           /\ call' \in [Callers -> Call]
           /\ \A e \in Callers : /\ call[e].pc = "sync" => call'[e] = call[e]
                                 /\ call'[e] # call[e] => /\ call[e].pc \in {"idle", "save"}
                                                          /\ call'[e].pc \in {"arm", "idle"}
                                                          /\ call'[e].addr = None
                                                          /\ call'[e].id = None
           /\ \A a \in Addrs : conn'[a] = conn[a] \/ conf[a].kind = "reset"
<1>1. TypeOK  BY DEF Base
<1>2. PICK c \in Callers : \/ Update(c) \/ Reset(c) \/ Save(c)
                           \/ \E a \in Addrs : ConnectReset(c, a)
  BY DEF Write
<1>3. c \in Holders /\ Stage(c) /\ call \in [Callers -> Call]
  BY <1>1, NoneFacts DEF Base, TypeOK
<1>4. CASE Update(c)
  <2>1. /\ Overwrite(c, copy[c]) /\ copy[c] # NoCopy /\ call[c].pc = "idle"
        /\ UNCHANGED <<daemonKey, member, groups, conf, conn, call, pinned>>
    BY <1>4 DEF Update, daemon
  <2>2. copy[c] \in Copy  BY <1>1, <1>3, <2>1, HeldFacts
  <2> QED  BY <1>3, <2>1, <2>2
<1>5. CASE Reset(c)
  <2>1. PICK x : x = [copy[c] EXCEPT !.rec.pin = None, !.behind = FALSE]  OBVIOUS
  <2>2. /\ Overwrite(c, x) /\ copy[c] # NoCopy /\ call[c].pc = "idle" /\ Goto(c, "arm")
        /\ pinned' = [pinned EXCEPT ![x.id] = None]
        /\ UNCHANGED <<daemonKey, member, groups, conf, conn>>
    BY <1>5, <2>1 DEF Reset, daemon
  <2>3. copy[c] \in Copy  BY <1>1, <1>3, <2>2, HeldFacts
  <2>4. /\ x \in Copy /\ x.id = copy[c].id /\ x.behind = FALSE
        /\ x.touched = copy[c].touched /\ x.rec.group = copy[c].rec.group
        /\ x.rec.key = copy[c].rec.key /\ x.rec.pin = None
    BY <2>1, <2>3, ResetCopy
  <2>5. /\ call' \in [Callers -> Call] /\ call'[c].pc = "arm" /\ call'[c].id = call[c].id
        /\ call'[c].addr = call[c].addr
        /\ \A e \in Callers \ {c} : call'[e] = call[e]
    BY <1>1, <2>2, GotoFacts DEF Pcs
  <2>6. call[c].id = None /\ call[c].addr = None  BY <1>3, <2>2 DEF Stage
  <2> QED  BY <1>3, <2>2, <2>3, <2>4, <2>5, <2>6
<1>6. CASE Save(c)
  <2>1. /\ Overwrite(c, copy[c]) /\ call[c].pc = "save" /\ Return(c)
        /\ UNCHANGED <<daemonKey, member, groups, conf, conn, pinned>>
    BY <1>6 DEF Save, daemon
  <2>2. copy[c] \in Copy  BY <1>1, <1>3, <2>1, HeldFacts DEF Stage
  <2>3. /\ call' \in [Callers -> Call] /\ call'[c] = NoCall
        /\ \A e \in Callers \ {c} : call'[e] = call[e]
    BY <1>1, <2>1, ReturnFacts
  <2>4. NoCall.pc = "idle" /\ NoCall.addr = None /\ NoCall.id = None  BY DEF NoCall
  <2> QED  BY <1>3, <2>1, <2>2, <2>3, <2>4
<1>7. CASE \E a \in Addrs : ConnectReset(c, a)
  <2>1. PICK a \in Addrs : ConnectReset(c, a)  BY <1>7
  <2>2. Left(a)  BY DEF Base
  <2>3. PICK h, x : h = conf[a].owner /\ x = Trusting(a)  OBVIOUS
  <2>4. /\ conf[a].kind = "reset" /\ Overwrite(h, x)
        /\ conn' = [conn EXCEPT ![a] = daemonKey[a]]
        /\ pinned' = [pinned EXCEPT ![x.id] = daemonKey[a]]
        /\ UNCHANGED <<daemonKey, member, groups, conf, call>>
    BY <2>1, <2>3 DEF ConnectReset, daemon
  <2>5. /\ h \in Holders /\ copy[h] \in Copy /\ x \in Copy
        /\ x.id = copy[h].id /\ x.rec = [copy[h].rec EXCEPT !.pin = daemonKey[a]]
        /\ x.behind = FALSE /\ (copy[h].touched => x.touched)
        /\ (h \in Callers /\ call[h].pc = "sync" => x.touched)
    BY <1>1, <2>2, <2>3, <2>4, TrustingFacts
  <2>6. x.rec.group = copy[h].rec.group /\ x.rec.key = copy[h].rec.key
        /\ x.rec.pin = daemonKey[a]
    <3>1. copy[h].rec \in Record  BY <2>5 DEF Copy
    <3> QED  BY <2>5, <3>1 DEF Record
  <2>7. \A b \in Addrs : conn'[b] = conn[b] \/ conf[b].kind = "reset"
    BY <1>1, <2>4 DEF TypeOK
  <2> QED  BY <1>3, <2>4, <2>5, <2>6, <2>7
<1> QED  BY <1>2, <1>4, <1>5, <1>6, <1>7

LEMMA TouchFacts ==
  ASSUME Base, Touch
  PROVE  /\ UNCHANGED <<daemonKey, member, stored, groups, conf, conn, pinned, marks>>
         /\ \A h \in Holders : \/ copy'[h] \in {copy[h], NoCopy}
                               \/ /\ copy'[h] \in Copy /\ copy'[h].touched
                                  /\ copy'[h].id = copy[h].id
         /\ \A e \in Callers : /\ call'[e] \in {call[e], NoCall}
                               /\ call'[e] # call[e] /\ call[e].pc = "sync" =>
                                    copy'[e] = NoCopy \/ copy'[e].touched
<1>1. TypeOK  BY DEF Base
<1>2. PICK c \in Callers : \/ ResetFails(c) \/ StatusUnopened(c) \/ Fail(c)
                           \/ \E a \in Addrs : ResetUnwritten(c, a)
  BY DEF Touch
<1>3. c \in Holders /\ Stage(c) /\ copy[c] \in Copy \cup {NoCopy}
  BY <1>1, NoneFacts DEF Base, TypeOK
<1>4. CASE ResetFails(c)
  <2>1. PICK x : x = [copy[c] EXCEPT !.rec.pin = None, !.touched = TRUE]  OBVIOUS
  <2>2. /\ copy[c] # NoCopy /\ call' = call
        /\ copy' = [copy EXCEPT ![c].rec.pin = None, ![c].touched = TRUE]
        /\ UNCHANGED <<daemonKey, member, stored, groups, conf, conn, pinned, marks>>
    BY <1>4 DEF ResetFails, daemon
  <2>3. x \in Copy /\ x.touched = TRUE /\ x.id = copy[c].id
    BY <1>3, <2>1, <2>2, ResetFailsFacts
  <2>4. copy'[c] = x /\ \A e \in Holders \ {c} : copy'[e] = copy[e]
    BY <1>1, <1>3, <2>1, <2>2 DEF TypeOK
  <2> QED  BY <2>2, <2>3, <2>4
<1>5. CASE StatusUnopened(c)
  <2>1. PICK x : x = [copy[c] EXCEPT !.rec.auth = member[copy[c].id].auth,
                                     !.rec.group = member[copy[c].id].group,
                                     !.touched = TRUE]
    OBVIOUS
  <2>2. /\ call[c].pc = "status" /\ Return(c) /\ copy' = SetCopy(c, x)
        /\ UNCHANGED <<daemonKey, member, stored, groups, conf, conn, pinned, marks>>
    BY <1>5, <2>1 DEF StatusUnopened, daemon
  <2>3. x \in Copy /\ x.touched = TRUE /\ x.id = copy[c].id
    BY <1>5, <2>1, UnopenedFacts
  <2>4. /\ copy'[c] = IF c \in Pollers THEN NoCopy ELSE x
        /\ \A e \in Holders \ {c} : copy'[e] = copy[e]
    BY <1>1, <1>3, <2>2, <2>3, SetCopyFacts
  <2>5. call'[c] = NoCall /\ \A e \in Callers \ {c} : call'[e] = call[e]
    BY <1>1, <2>2, ReturnFacts
  <2> QED  BY <2>2, <2>3, <2>4, <2>5
<1>6. CASE Fail(c)
  <2>1. PICK x : x = IF call[c].pc \in {"sync", "save"}
                     THEN [copy[c] EXCEPT !.touched = TRUE] ELSE copy[c]
    OBVIOUS
  <2>2. /\ Return(c) /\ copy' = SetCopy(c, x)
        /\ UNCHANGED <<daemonKey, member, stored, groups, conf, conn, pinned, marks>>
    BY <1>6, <2>1 DEF Fail, daemon
  <2>3. x = copy[c] \/ (x \in Copy /\ x.touched = TRUE /\ x.id = copy[c].id)
    <3>1. CASE call[c].pc \in {"sync", "save"}
      <4>1. copy[c] \in Copy  BY <1>3, <3>1 DEF Stage
      <4> QED  BY <2>1, <3>1, <4>1 DEF Copy
    <3> QED  BY <2>1, <3>1
  <2>4. call[c].pc = "sync" => x \in Copy /\ x.touched = TRUE
    <3>1. ASSUME call[c].pc = "sync"  PROVE x \in Copy /\ x.touched = TRUE
      <4>1. copy[c] \in Copy  BY <1>3, <3>1 DEF Stage
      <4> QED  BY <2>1, <3>1, <4>1 DEF Copy
    <3> QED  BY <3>1
  <2>5. /\ copy'[c] = IF c \in Pollers THEN NoCopy ELSE x
        /\ \A e \in Holders \ {c} : copy'[e] = copy[e]
    BY <1>1, <1>3, <2>2, <2>3, SetCopyFacts
  <2>6. call'[c] = NoCall /\ \A e \in Callers \ {c} : call'[e] = call[e]
    BY <1>1, <2>2, ReturnFacts
  <2> QED  BY <2>2, <2>3, <2>4, <2>5, <2>6
<1>7. CASE \E a \in Addrs : ResetUnwritten(c, a)
  <2>1. PICK a \in Addrs : ResetUnwritten(c, a)  BY <1>7
  <2>2. Left(a) /\ conf[a].kind = "reset" /\ Return(c)
    BY <2>1 DEF Base, ResetUnwritten
  <2>3. PICK h, x, s : /\ h = conf[a].owner /\ s = SetCopy(c, copy[c])
                       /\ x = [Trusting(a) EXCEPT !.touched = TRUE]
    OBVIOUS
  <2>4. h \in Holders /\ Trusting(a) \in Copy /\ Trusting(a).id = copy[h].id
    BY <1>1, <2>2, <2>3, TrustingFacts
  <2>5. x \in Copy /\ x.touched = TRUE /\ x.id = copy[h].id  BY <2>3, <2>4 DEF Copy
  <2>6. /\ copy' = [s EXCEPT ![h] = x]
        /\ UNCHANGED <<daemonKey, member, stored, groups, conf, conn, pinned, marks>>
    BY <2>1, <2>3 DEF ResetUnwritten, daemon
  <2>7. /\ s \in [Holders -> Copy \cup {NoCopy}]
        /\ s[c] = IF c \in Pollers THEN NoCopy ELSE copy[c]
        /\ \A e \in Holders \ {c} : s[e] = copy[e]
    BY <1>1, <1>3, <2>3, SetCopyFacts
  <2>8. copy'[h] = x /\ \A e \in Holders \ {h} : copy'[e] \in {copy[e], NoCopy}
    BY <2>4, <2>6, <2>7
  <2>9. call'[c] = NoCall /\ \A e \in Callers \ {c} : call'[e] = call[e]
    BY <1>1, <2>2, ReturnFacts
  <2>10. call[c].pc # "sync"
    <3>1. RequestTo(c) = a  BY <2>1 DEF ResetUnwritten
    <3> QED  BY <3>1, NoneFacts DEF RequestTo
  <2> QED  BY <2>5, <2>6, <2>8, <2>9, <2>10
<1> QED  BY <1>2, <1>4, <1>5, <1>6, <1>7

\* The copy of c after the answer of the daemon.
LEMMA StatusFacts ==
  ASSUME Base, NEW c \in Callers, Status(c)
  PROVE  /\ UNCHANGED <<daemonKey, member, stored, groups, conf, conn, pinned, marks>>
         /\ call[c].pc = "status" /\ copy[c] \in Copy
         /\ \A h \in Holders \ {c} : copy'[h] = copy[h]
         /\ \A e \in Callers \ {c} : call'[e] = call[e]
         /\ call'[c].id \in {call[c].id, None} /\ call'[c].addr \in {call[c].addr, None}
         /\ call'[c].got = call[c].got \/ call'[c].id = None
         /\ call'[c].fp = call[c].fp \/ call'[c].addr = None
         /\ call'[c].pc \in {"idle", "sync", "save"}
         /\ \/ copy'[c] \in {copy[c], NoCopy}
            \/ /\ copy'[c].id = copy[c].id
               /\ copy'[c].behind = copy[c].behind /\ copy'[c].touched = copy[c].touched
               /\ copy'[c].rec.pin = copy[c].rec.pin
               /\ \/ copy'[c].rec.key = copy'[c].rec.group /\ call'[c].pc = "sync"
                  \/ /\ copy'[c].rec.key = copy[c].rec.key
                     /\ copy'[c].rec.group = copy[c].rec.group
<1> DEFINE y == copy[c]
           rec == y.rec
           m == member[y.id]
           new == [rec EXCEPT !.auth = m.auth]
           joined == [new EXCEPT !.group = m.group, !.key = m.group]
<1>1. TypeOK /\ Stage(c) /\ c \in Holders  BY NoneFacts DEF Base
<1>2. /\ call[c].pc = "status"
      /\ UNCHANGED <<daemonKey, member, stored, groups, conf, conn, pinned, marks>>
  BY DEF Status, daemon
<1>3. /\ y \in Copy /\ new \in Record /\ joined \in Record
      /\ new.group = rec.group /\ new.key = rec.key /\ new.pin = rec.pin
      /\ joined.group = joined.key /\ joined.pin = rec.pin
  BY <1>2, AnswerFacts
<1>4. CASE ~Joined(rec, m) /\ new = rec
  <2>1. Return(c) /\ copy' = SetCopy(c, copy[c])  BY <1>4 DEF Status, LetGo
  <2>2. /\ copy'[c] \in {copy[c], NoCopy}
        /\ \A h \in Holders \ {c} : copy'[h] = copy[h]
    BY <1>1, <1>3, <2>1, SetCopyFacts
  <2>3. call'[c] = NoCall /\ \A e \in Callers \ {c} : call'[e] = call[e]
    BY <1>1, <2>1, ReturnFacts
  <2> QED  BY <1>2, <1>3, <2>2, <2>3 DEF NoCall
<1>5. ASSUME NEW r \in Record, NEW pc \in {"sync", "save"}, Goto(c, pc),
             copy' = [copy EXCEPT ![c].rec = r], r.pin = rec.pin,
             \/ r.key = r.group /\ pc = "sync"
             \/ r.key = rec.key /\ r.group = rec.group
      PROVE  /\ \A h \in Holders \ {c} : copy'[h] = copy[h]
             /\ \A e \in Callers \ {c} : call'[e] = call[e]
             /\ call'[c].id = call[c].id /\ call'[c].addr = call[c].addr
             /\ call'[c].got = call[c].got /\ call'[c].fp = call[c].fp
             /\ call'[c].pc = pc
             /\ copy'[c].id = copy[c].id
             /\ copy'[c].behind = copy[c].behind /\ copy'[c].touched = copy[c].touched
             /\ copy'[c].rec = r
  <2>1. copy'[c] = [y EXCEPT !.rec = r] /\ \A e \in Holders \ {c} : copy'[e] = copy[e]
    BY <1>1, <1>5 DEF TypeOK
  <2>2. /\ copy'[c].id = y.id /\ copy'[c].rec = r
        /\ copy'[c].behind = y.behind /\ copy'[c].touched = y.touched
    BY <1>3, <2>1 DEF Copy
  <2>3. /\ call'[c].pc = pc /\ call'[c].id = call[c].id
        /\ call'[c].addr = call[c].addr /\ call'[c].got = call[c].got
        /\ call'[c].fp = call[c].fp
        /\ \A e \in Callers \ {c} : call'[e] = call[e]
    BY <1>1, <1>5, GotoFacts DEF Pcs
  <2> QED  BY <2>1, <2>2, <2>3
<1>6. CASE Joined(rec, m)
  <2>1. copy' = [copy EXCEPT ![c].rec = joined] /\ Goto(c, "sync")
    BY <1>6 DEF Status
  <2> HIDE DEF joined, rec, y, new, m
  <2>2. /\ \A h \in Holders \ {c} : copy'[h] = copy[h]
        /\ \A e \in Callers \ {c} : call'[e] = call[e]
        /\ call'[c].id = call[c].id /\ call'[c].addr = call[c].addr
        /\ call'[c].got = call[c].got /\ call'[c].fp = call[c].fp
        /\ call'[c].pc = "sync"
        /\ copy'[c].id = copy[c].id
        /\ copy'[c].behind = copy[c].behind /\ copy'[c].touched = copy[c].touched
        /\ copy'[c].rec = joined
    BY <1>3, <1>5, <2>1
  <2> QED  BY <1>2, <1>3, <2>2 DEF rec, y
<1>7. CASE ~Joined(rec, m) /\ new # rec
  <2>1. copy' = [copy EXCEPT ![c].rec = new] /\ Goto(c, "save")
    BY <1>7 DEF Status
  <2> HIDE DEF joined, rec, y, new, m
  <2>2. /\ \A h \in Holders \ {c} : copy'[h] = copy[h]
        /\ \A e \in Callers \ {c} : call'[e] = call[e]
        /\ call'[c].id = call[c].id /\ call'[c].addr = call[c].addr
        /\ call'[c].got = call[c].got /\ call'[c].fp = call[c].fp
        /\ call'[c].pc = "save"
        /\ copy'[c].id = copy[c].id
        /\ copy'[c].behind = copy[c].behind /\ copy'[c].touched = copy[c].touched
        /\ copy'[c].rec = new
    BY <1>3, <1>5, <2>1
  <2> QED  BY <1>2, <1>3, <2>2 DEF rec, y
<1> QED  BY <1>4, <1>6, <1>7

--------------------------------------------------------------------------------
(* The state has its shape *)

\* In every reachable state the records, the copies, the calls and the connections
\* have the shape that service.go gives them.
THEOREM TypeCorrect == Spec => []TypeOK
<1>1. Init => Base  BY BaseInit
<1>2. Base /\ [Next]_vars => Base'  BY BaseStep
<1>3. Base => TypeOK  BY DEF Base
<1> QED  BY <1>1, <1>2, <1>3, PTL DEF Spec

LEMMA BaseAlways == Spec => []Base
<1>1. Init => Base  BY BaseInit
<1>2. Base /\ [Next]_vars => Base'  BY BaseStep
<1> QED  BY <1>1, <1>2, PTL DEF Spec

--------------------------------------------------------------------------------
(* A group and its key *)

WholeCopy(x) == x.touched \/ x.id \in marks["torn"] \/ x.rec.key = x.rec.group
Whole ==
  /\ \A i \in Held : i \in marks["torn"] \/ stored[i].key = stored[i].group
  /\ \A h \in Holders : copy[h] # NoCopy => WholeCopy(copy[h])

LEMMA WholeStep == Base /\ Whole /\ [Next]_vars => Whole'
<1> SUFFICES ASSUME Base, Whole, [Next]_vars  PROVE Whole'
  OBVIOUS
<1>1. TypeOK  BY DEF Base
<1>2. marks["torn"] \subseteq marks'["torn"]  BY MarksGrow DEF Marks
<1>3. CASE UNCHANGED vars  BY <1>3 DEF Whole, WholeCopy, Held, vars
<1>4. CASE Quiet  BY <1>2, <1>4, QuietFacts DEF Whole, WholeCopy
<1>5. CASE Load
  <2>1. UNCHANGED <<stored, marks>> /\ Held' = Held  BY <1>5, LoadFacts DEF Held
  <2>2. PICK c \in Callers, i \in Held :
          /\ copy'[c] = Current(i, stored[i])
          /\ \A h \in Holders \ {c} : copy'[h] = copy[h] \/ copy'[h] = copy[c]
    BY <1>5, LoadFacts
  <2>3. Current(i, stored[i]).id = i /\ Current(i, stored[i]).rec = stored[i]
    BY DEF Current
  <2>4. c \in Holders  BY NoneFacts
  <2>5. ASSUME NEW h \in Holders, copy'[h] # NoCopy  PROVE WholeCopy(copy[h])'
    <3>1. CASE h = c  BY <2>1, <2>2, <2>3, <3>1 DEF Whole, WholeCopy
    <3>2. CASE h # c
      <4>1. PICK e \in Holders : copy'[h] = copy[e]  BY <2>2, <2>4, <3>2
      <4> QED  BY <2>1, <2>5, <4>1 DEF Whole, WholeCopy
    <3> QED  BY <3>1, <3>2
  <2> QED  BY <2>1, <2>5 DEF Whole
<1>6. CASE Write
  <2>1. PICK h \in Holders, x \in Copy :
          /\ Overwrite(h, x) /\ copy[h] \in Copy /\ x.id = copy[h].id
          /\ x.rec.group = copy[h].rec.group /\ x.rec.key = copy[h].rec.key
          /\ copy[h].touched => x.touched
    BY <1>6, WriteFacts
  <2>2. /\ Held' = Held /\ x.id \in Sources /\ stored'[x.id] = x.rec
        /\ \A i \in Sources : i # x.id => stored'[i] = stored[i]
        /\ copy'[h] = IF h \in Pollers THEN NoCopy ELSE Current(x.id, x.rec)
        /\ \A e \in Holders \ {h} :
             /\ copy'[e] # NoCopy <=> copy[e] # NoCopy
             /\ copy[e] # NoCopy => /\ copy'[e].id = copy[e].id /\ copy'[e].rec = copy[e].rec
                                    /\ copy'[e].touched = copy[e].touched
        /\ x.touched => x.id \in marks'["torn"]
    BY <1>1, <2>1, OverwriteFacts DEF Copy
  <2>3. x.id \in marks'["torn"] \/ x.rec.key = x.rec.group
    <3>1. WholeCopy(copy[h])  BY <2>1, RecordFacts DEF Whole
    <3> QED  BY <1>2, <2>1, <2>2, <3>1 DEF WholeCopy
  <2>4. Current(x.id, x.rec).id = x.id /\ Current(x.id, x.rec).rec = x.rec
    BY DEF Current
  <2>5. ASSUME NEW i \in Held'  PROVE i \in marks'["torn"] \/ stored'[i].key = stored'[i].group
    BY <1>1, <1>2, <2>2, <2>3, <2>5, HeldFacts DEF Whole
  <2>6. ASSUME NEW e \in Holders, copy'[e] # NoCopy  PROVE WholeCopy(copy[e])'
    <3>1. CASE e = h  BY <2>2, <2>3, <2>4, <2>6, <3>1 DEF WholeCopy
    <3>2. CASE e # h  BY <1>2, <2>2, <2>6, <3>2 DEF Whole, WholeCopy
    <3> QED  BY <3>1, <3>2
  <2> QED  BY <2>5, <2>6 DEF Whole
<1>7. CASE Touch
  <2>1. UNCHANGED <<stored, marks>> /\ Held' = Held  BY <1>7, TouchFacts DEF Held
  <2>2. \A h \in Holders : copy'[h] \in {copy[h], NoCopy} \/ copy'[h].touched
    BY <1>7, TouchFacts
  <2> QED  BY <2>1, <2>2 DEF Whole, WholeCopy
<1>8. ASSUME NEW c \in Callers, Status(c)  PROVE Whole'
  <2>1. UNCHANGED <<stored, marks>> /\ Held' = Held  BY <1>8, StatusFacts DEF Held
  <2>2. /\ copy[c] # NoCopy /\ \A h \in Holders \ {c} : copy'[h] = copy[h]
        /\ \/ copy'[c] \in {copy[c], NoCopy}
           \/ /\ copy'[c].id = copy[c].id /\ copy'[c].touched = copy[c].touched
              /\ \/ copy'[c].rec.key = copy'[c].rec.group
                 \/ /\ copy'[c].rec.key = copy[c].rec.key
                    /\ copy'[c].rec.group = copy[c].rec.group
    BY <1>8, StatusFacts, RecordFacts
  <2> QED  BY <2>1, <2>2 DEF Whole, WholeCopy
<1>9. ASSUME NEW c \in Callers, Insert(c)  PROVE Whole'
  <2>1. copy' = copy  BY <1>9 DEF Insert
  <2>2. /\ call[c].id \in Sources
        /\ stored' = [stored EXCEPT ![call[c].id] = Inserted(call[c])] \/ stored' = stored
    BY <1>9, InsertFacts
  <2>3. Inserted(call[c]).key = Inserted(call[c]).group  BY DEF Inserted
  <2>4. ASSUME NEW i \in Held'  PROVE i \in marks'["torn"] \/ stored'[i].key = stored'[i].group
    <3>1. i \in Held \/ stored'[i] = Inserted(call[c])
      BY <1>1, <2>2, <2>4 DEF Held, TypeOK
    <3>2. stored'[i] = stored[i] \/ stored'[i] = Inserted(call[c])
      BY <1>1, <2>2, <2>4 DEF Held, TypeOK
    <3> QED  BY <1>2, <2>3, <3>1, <3>2 DEF Whole
  <2> QED  BY <1>2, <2>1, <2>4 DEF Whole, WholeCopy
<1> QED  BY <1>3, <1>4, <1>5, <1>6, <1>7, <1>8, <1>9, Kinds

\* A record never pairs one group with the key of another (CheckStatus 574-594),
\* unless a copy that a failed call had changed was written over it.
THEOREM GroupKeysWhole == Spec => []GroupKeyWhole
<1>1. Init => Whole
  BY DEF Init, Whole, Held
<1>2. Base /\ Whole /\ [Next]_vars => Whole'  BY WholeStep
<1>3. Whole => GroupKeyWhole  BY DEF Whole, GroupKeyWhole, Marked
<1> QED  BY <1>1, <1>2, <1>3, BaseAlways, PTL DEF Spec

--------------------------------------------------------------------------------
(* Groups of sources that were deleted *)

Cleared ==
  /\ \A i \in Sources : i \in Held \/ i \in marks["ghost"] \/ groups[i] = {}
  /\ \A c \in Callers : call[c].pc = "drop" =>
       copy[c].id \in marks["ghost"] \/ groups[copy[c].id] = {}

\* A call that is about to drop a record has the copy it had, unless it begins now.
LEMMA Dropping ==
  ASSUME Base, [Next]_vars, NEW c \in Callers, call'[c].pc = "drop", ~Delete(c)
  PROVE  call[c].pc = "drop" /\ copy'[c].id = copy[c].id
<1>1. TypeOK /\ c \in Holders /\ Stage(c) /\ Base'  BY NoneFacts, BaseStep DEF Base
<1>2. copy'[c] # NoCopy  BY <1>1 DEF Base, Stage
<1>3. NoCall.pc = "idle"  BY DEF NoCall
<1>4. CASE UNCHANGED vars  BY <1>4 DEF vars
<1>5. CASE Quiet
  <2>1. copy'[c] = copy[c]  BY <1>1, <1>2, <1>5, QuietFacts
  <2>2. ASSUME NEW e \in Callers, NEW pc \in Pcs \ {"drop"}, Goto(e, pc)
        PROVE  call[c].pc = "drop"
    BY ZenonT(60), <1>1, <2>2, GotoFacts
  <2>3. ASSUME NEW e \in Callers, Return(e)  PROVE call[c].pc = "drop"
    BY <1>1, <1>3, <2>3, ReturnFacts
  <2>4. ASSUME NEW e \in Callers, NEW a \in Addrs, ConnectCreate(e, a)
        PROVE  call[c].pc = "drop"
    <3>1. Left(a)  BY DEF Base
    <3> QED  BY <1>1, <2>4, <3>1, ConnectCreateFacts
  <2>5. ASSUME NEW e \in Callers, NEW a \in Addrs, Create(e, a)
        PROVE  call[c].pc = "drop"
    <3>1. call' = [call EXCEPT ![e] = [NoCall EXCEPT !.pc = "enroll", !.addr = a]]
      BY <2>5 DEF Create
    <3>2. [NoCall EXCEPT !.pc = "enroll", !.addr = a].pc = "enroll"  BY DEF NoCall
    <3> QED  BY <1>1, <3>1, <3>2 DEF TypeOK
  <2>6. ASSUME NEW e \in Callers, NEW i \in Sources, Enroll(e, i)
        PROVE  call[c].pc = "drop"
    BY <1>1, <2>6, EnrollFacts
  <2>7. ASSUME NEW e \in Callers \ {c}, Delete(e)  PROVE call[c].pc = "drop"
    BY <1>1, <2>7, GotoFacts DEF Delete, Pcs
  <2>8. ~Crash  BY <1>3 DEF Crash
  <2>9. call[c].pc = "drop" \/ call' = call
    BY <1>5, <2>2, <2>3, <2>4, <2>5, <2>6, <2>7, <2>8
       DEF Quiet, CheckStatus, SyncGroups, Members, DeletePartly, Arm, Drop,
           ConnectPinned, Refused, Environment, Configure, Admit, Rekey, Disconnect, Pcs
  <2> QED  BY <2>1, <2>9
<1>6. CASE Load
  <2>1. PICK e \in Callers :
          /\ call'[e].pc \in {"idle", "status"}
          /\ \A d \in Callers \ {e} : call'[d].pc = call[d].pc /\ copy'[d] = copy[d]
    BY <1>6, LoadFacts
  <2> QED  BY <2>1
<1>7. CASE Write
  <2>1. PICK h \in Holders, x \in Copy :
          /\ Overwrite(h, x) /\ x.id = copy[h].id
          /\ \A e \in Callers : call'[e] # call[e] => call'[e].pc \in {"arm", "idle"}
    BY <1>7, WriteFacts
  <2>2. call[c] = call'[c]  BY <2>1
  <2>3. c \notin Pollers  BY <1>1, <1>2 DEF Base, Stage
  <2>4. copy[c] # NoCopy  BY <1>1, <2>2 DEF Stage
  <2>5. copy'[c].id = copy[c].id
    <3>1. CASE c = h
      <4>1. copy'[h] = Current(x.id, x.rec)  BY <1>1, <2>1, <2>3, <3>1, OverwriteFacts
      <4>2. Current(x.id, x.rec).id = x.id  BY DEF Current
      <4> QED  BY <2>1, <3>1, <4>1, <4>2
    <3>2. CASE c # h  BY <1>1, <2>1, <2>4, <3>2, OverwriteFacts
    <3> QED  BY <3>1, <3>2
  <2> QED  BY <2>2, <2>5
<1>8. CASE Touch
  <2>1. call'[c] = call[c]  BY <1>3, <1>8, TouchFacts
  <2>2. copy'[c].id = copy[c].id  BY <1>1, <1>2, <1>8, TouchFacts
  <2> QED  BY <2>1, <2>2
<1>9. ASSUME NEW e \in Callers, Status(e)
      PROVE  call[c].pc = "drop" /\ copy'[c].id = copy[c].id
  <2>1. /\ \A h \in Holders \ {e} : copy'[h] = copy[h]
        /\ \A d \in Callers \ {e} : call'[d] = call[d]
        /\ call'[e].pc \in {"idle", "sync", "save"}
    BY <1>9, StatusFacts
  <2> QED  BY <1>1, <2>1
<1>10. ASSUME NEW e \in Callers, Insert(e)
       PROVE  call[c].pc = "drop" /\ copy'[c].id = copy[c].id
  <2>1. copy' = copy  BY <1>10 DEF Insert
  <2>2. call'[e].pc # "drop"
    <3>1. call[e] \in Call  BY <1>1 DEF TypeOK
    <3>2. [call[e] EXCEPT !.pc = "members"].pc = "members"  BY <3>1 DEF Call
    <3> QED  BY <1>3, <1>10, <3>2, InsertFacts
  <2>3. \A d \in Callers \ {e} : call'[d] = call[d]  BY <1>10, InsertFacts
  <2> QED  BY <2>1, <2>2, <2>3
<1> QED  BY <1>4, <1>5, <1>6, <1>7, <1>8, <1>9, <1>10, Kinds

\* The steps that change the groups.
LEMMA GroupSteps ==
  ASSUME Base, [Next]_vars
  PROVE  \/ groups' = groups
         \/ \E c \in Callers :
              \/ /\ SyncGroups(c) /\ copy[c].id \in Sources /\ copy[c].rec.group \in Groups
                 /\ Synced(copy[c].id, copy[c].rec.group, {})
              \/ /\ Members(c) /\ call[c].id \in Sources /\ call[c].got.group \in Groups
                 /\ Synced(call[c].id, call[c].got.group, {call[c].id})
              \/ /\ Delete(c) \/ DeletePartly(c)
                 /\ copy[c].id \in Held /\ copy[c].id \in Sources
                 /\ copy[c].id \in marks'["cleared"]
                 /\ groups'[copy[c].id] \subseteq groups[copy[c].id]
                 /\ \A j \in Sources \ {copy[c].id} : groups'[j] = groups[j]
                 /\ Delete(c) => groups'[copy[c].id] = {}
<1>1. TypeOK  BY DEF Base
<1>2. CASE UNCHANGED vars  BY <1>2 DEF vars
<1>3. ASSUME NEW c \in Callers, SyncGroups(c)
      PROVE  /\ copy[c].id \in Sources /\ copy[c].rec.group \in Groups
             /\ Synced(copy[c].id, copy[c].rec.group, {})
  <2>1. call[c].pc = "sync" /\ Stage(c) /\ c \in Holders
    BY <1>3, NoneFacts DEF SyncGroups, Base
  <2>2. copy[c] # NoCopy /\ copy[c].id \in Sources /\ copy[c].rec \in Record
    BY <1>1, <2>1, HeldFacts DEF Stage
  <2>3. copy[c].rec.group \in Groups  BY <2>1, <2>2 DEF Stage, Record
  <2> QED  BY <1>3, <2>2, <2>3 DEF SyncGroups
<1>4. ASSUME NEW c \in Callers, Members(c)
      PROVE  /\ call[c].id \in Sources /\ call[c].got.group \in Groups
             /\ Synced(call[c].id, call[c].got.group, {call[c].id})
  <2>1. call[c].pc = "members" /\ Stage(c)  BY <1>4 DEF Members, Base
  <2>2. call[c].id \in Sources /\ call[c].got \in Member
    BY <1>1, <2>1, CallFacts DEF Stage
  <2>3. call[c].got.group \in Groups  BY <2>1, <2>2 DEF Stage, Member
  <2> QED  BY <1>4, <2>2, <2>3 DEF Members
<1>5. ASSUME NEW c \in Callers, Delete(c) \/ DeletePartly(c)
      PROVE  /\ copy[c].id \in Held /\ copy[c].id \in Sources
             /\ copy[c].id \in marks'["cleared"]
             /\ groups'[copy[c].id] \subseteq groups[copy[c].id]
             /\ \A j \in Sources \ {copy[c].id} : groups'[j] = groups[j]
             /\ Delete(c) => groups'[copy[c].id] = {}
  <2>1. copy[c].id \in Held /\ marks' = Mark("cleared", copy[c].id, TRUE)
    BY <1>5 DEF Delete, DeletePartly
  <2>2. copy[c].id \in Sources  BY <1>1, <2>1, HeldFacts
  <2>3. copy[c].id \in marks'["cleared"]  BY <1>1, <2>1, <2>2, MarkFacts DEF Marks
  <2>4. PICK left \in SUBSET groups[copy[c].id] :
           /\ groups' = [groups EXCEPT ![copy[c].id] = left]
           /\ Delete(c) => left = {}
    <3>1. CASE Delete(c)  BY <3>1 DEF Delete
    <3>2. CASE DeletePartly(c) /\ ~Delete(c)  BY <3>2 DEF DeletePartly
    <3> QED  BY <1>5, <3>1, <3>2
  <2> QED  BY <1>1, <2>1, <2>2, <2>3, <2>4 DEF TypeOK
<1>6. CASE Quiet
  BY ZenonT(60), <1>3, <1>4, <1>5, <1>6
     DEF Quiet, CheckStatus, Arm, Drop, ConnectPinned, ConnectCreate, Refused, Create,
         Enroll, Environment, Configure, Admit, Rekey, Disconnect, Crash
<1>7. CASE Load  BY <1>7, LoadFacts
<1>8. CASE Write  BY <1>8, WriteFacts
<1>9. CASE Touch  BY <1>9, TouchFacts
<1>10. CASE \E c \in Callers : Status(c) \/ Insert(c)  BY <1>10 DEF Status, Insert
<1> QED  BY <1>2, <1>6, <1>7, <1>8, <1>9, <1>10, Kinds

LEMMA HeldSteps ==
  ASSUME Base, [Next]_vars, NEW i \in Held
  PROVE  i \in Held' \/ \E c \in Callers : Drop(c) /\ copy[c].id = i /\ call[c].pc = "drop"
<1>1. TypeOK  BY DEF Base
<1>2. stored' = stored => Held' = Held  BY DEF Held
<1>3. CASE UNCHANGED vars  BY <1>2, <1>3 DEF vars
<1>4. CASE Quiet
  <2>1. ASSUME NEW c \in Callers, Drop(c)
        PROVE  i \in Held' \/ (copy[c].id = i /\ call[c].pc = "drop")
    BY <1>1, <2>1 DEF Drop, Held, TypeOK
  <2> QED  BY ZenonT(60), <1>2, <1>4, <2>1
        DEF Quiet, CheckStatus, SyncGroups, Members, Delete, DeletePartly, Arm,
            ConnectPinned, ConnectCreate, Refused, Create, Enroll, Environment, Configure,
            Admit, Rekey, Disconnect, Crash
<1>5. CASE Load  BY <1>2, <1>5, LoadFacts
<1>6. CASE Write  BY <1>1, <1>6, WriteFacts, OverwriteFacts
<1>7. CASE Touch  BY <1>2, <1>7, TouchFacts
<1>8. ASSUME NEW c \in Callers, Status(c)  PROVE i \in Held'  BY <1>2, <1>8 DEF Status
<1>9. ASSUME NEW c \in Callers, Insert(c)  PROVE i \in Held'
  BY <1>1, <1>2, <1>9, InsertFacts, RecordFacts DEF Held, TypeOK
<1> QED  BY <1>3, <1>4, <1>5, <1>6, <1>7, <1>8, <1>9, Kinds

LEMMA ClearedStep == Base /\ Cleared /\ [Next]_vars => Cleared'
<1> SUFFICES ASSUME Base, Cleared, [Next]_vars  PROVE Cleared'
  OBVIOUS
<1>1. TypeOK  BY DEF Base
<1>2. marks["ghost"] \subseteq marks'["ghost"]  BY MarksGrow DEF Marks
\* Where groups appear: at a source that is marked, or held and not being deleted.
<1>3. ASSUME NEW i \in Sources, groups[i] = {}, groups'[i] # {}
      PROVE  \/ i \in marks'["ghost"]
             \/ i \in Held /\ \A e \in Callers : call[e].pc = "drop" => copy[e].id # i
  <2>1. ASSUME NEW j \in Sources, NEW g \in Groups, NEW S \in SUBSET Sources,
               Synced(j, g, S)
        PROVE  \/ i \in marks'["ghost"]
               \/ i \in Held /\ \A e \in Callers : call[e].pc = "drop" => copy[e].id # i
    BY <1>1, <1>3, <2>1, SyncedFacts
  <2>2. PICK c \in Callers :
          \/ /\ copy[c].id \in Sources /\ copy[c].rec.group \in Groups
             /\ Synced(copy[c].id, copy[c].rec.group, {})
          \/ /\ call[c].id \in Sources /\ call[c].got.group \in Groups
             /\ Synced(call[c].id, call[c].got.group, {call[c].id})
          \/ /\ groups'[copy[c].id] \subseteq groups[copy[c].id]
             /\ \A j \in Sources \ {copy[c].id} : groups'[j] = groups[j]
    BY <1>3, GroupSteps
  <2>3. CASE /\ groups'[copy[c].id] \subseteq groups[copy[c].id]
             /\ \A j \in Sources \ {copy[c].id} : groups'[j] = groups[j]
    BY <1>3, <2>3
  <2>4. CASE /\ copy[c].id \in Sources /\ copy[c].rec.group \in Groups
             /\ Synced(copy[c].id, copy[c].rec.group, {})
    BY <2>1, <2>4
  <2>5. CASE /\ call[c].id \in Sources /\ call[c].got.group \in Groups
             /\ Synced(call[c].id, call[c].got.group, {call[c].id})
    <3>1. {call[c].id} \in SUBSET Sources  BY <2>5
    <3> QED  BY <2>1, <2>5, <3>1
  <2> QED  BY <2>2, <2>3, <2>4, <2>5
<1>4. ASSUME NEW i \in Sources, i \notin Held', i \notin marks'["ghost"]
      PROVE  groups'[i] = {}
  <2>1. CASE i \in Held
    <3>1. PICK c \in Callers : Drop(c) /\ copy[c].id = i /\ call[c].pc = "drop"
      BY <1>4, <2>1, HeldSteps
    <3>2. groups' = groups  BY <3>1 DEF Drop
    <3> QED  BY <1>2, <1>4, <3>1, <3>2 DEF Cleared
  <2>2. CASE i \notin Held
    <3>1. groups[i] = {}  BY <1>2, <1>4, <2>2 DEF Cleared
    <3> QED  BY <1>3, <1>4, <2>2, <3>1
  <2> QED  BY <2>1, <2>2
<1>5. ASSUME NEW c \in Callers, call'[c].pc = "drop", copy'[c].id \notin marks'["ghost"]
      PROVE  groups'[copy'[c].id] = {}
  <2>1. CASE Delete(c)
    <3>1. copy' = copy  BY <2>1 DEF Delete
    <3>2. groups'[copy[c].id] = {}
      <4>1. copy[c].id \in Sources /\ groups' = [groups EXCEPT ![copy[c].id] = {}]
        BY <1>1, <2>1, HeldFacts DEF Delete
      <4> QED  BY <1>1, <4>1 DEF TypeOK
    <3> QED  BY <3>1, <3>2
  <2>2. CASE ~Delete(c)
    <3>1. call[c].pc = "drop" /\ copy'[c].id = copy[c].id  BY <1>5, <2>2, Dropping
    <3>2. copy[c].id \in Sources /\ groups[copy[c].id] = {}
      <4>1. Stage(c) /\ c \in Holders  BY NoneFacts DEF Base
      <4> QED  BY <1>1, <1>2, <1>5, <3>1, <4>1, HeldFacts DEF Stage, Cleared
    <3>3. groups'[copy[c].id] = {}
      BY <1>3, <1>5, <3>1, <3>2
    <3> QED  BY <3>1, <3>3
  <2> QED  BY <2>1, <2>2
<1> QED  BY <1>4, <1>5 DEF Cleared

\* Delete (482-537) leaves no groups of a source whose record is gone, however often
\* it was cut short before, unless they were synchronised while it ran or after it.
THEOREM DeletedLeavesNothing == Spec => []NoOrphans
<1>1. Init => Cleared
  <2>1. ASSUME Init  PROVE Cleared
    <3>1. \A c \in Callers : call[c].pc = "idle"  BY <2>1 DEF Init, NoCall
    <3> QED  BY <2>1, <3>1 DEF Init, Cleared
  <2> QED  BY <2>1
<1>2. Base /\ Cleared /\ [Next]_vars => Cleared'  BY ClearedStep
<1>3. Cleared => NoOrphans  BY DEF Cleared, NoOrphans, Marked
<1> QED  BY <1>1, <1>2, <1>3, BaseAlways, PTL DEF Spec

--------------------------------------------------------------------------------
(* The calls, step by step *)

\* The call of e goes on as it was, but for its place, or is over.
Ongoing(e) ==
  \/ call'[e] = NoCall
  \/ /\ call'[e].id = call[e].id /\ call'[e].addr = call[e].addr
     /\ call'[e].got = call[e].got /\ call'[e].fp = call[e].fp
     /\ call'[e].pc = "insert" => call[e].pc = "insert"

\* The steps that begin an enrolment, or put a key or an answer in one.
Enrolling ==
  \E c \in Callers : \/ \E a \in Addrs : Create(c, a) \/ ConnectCreate(c, a)
                     \/ \E i \in Sources : Enroll(c, i)

LEMMA OngoingCalls ==
  ASSUME Base, [Next]_vars, ~Enrolling, NEW e \in Callers
  PROVE  Ongoing(e)
<1>1. TypeOK /\ call[e] \in Call  BY DEF Base, TypeOK
<1>2. ASSUME NEW c \in Callers, NEW pc \in Pcs \ {"insert"}, Goto(c, pc)  PROVE Ongoing(e)
  BY ZenonT(60), <1>1, <1>2, GotoFacts DEF Ongoing
<1>3. ASSUME NEW c \in Callers, Return(c)  PROVE Ongoing(e)
  BY <1>1, <1>3, ReturnFacts DEF Ongoing
<1>4. ASSUME call' = call  PROVE Ongoing(e)
  BY <1>4 DEF Ongoing
<1>5. CASE UNCHANGED vars  BY <1>4, <1>5 DEF vars
<1>6. CASE Quiet
  <2>1. ASSUME Crash  PROVE Ongoing(e)
    BY <2>1 DEF Crash, Ongoing
  <2> QED  BY <1>2, <1>3, <1>4, <1>6, <2>1
        DEF Quiet, CheckStatus, SyncGroups, Members, Delete, DeletePartly, Arm, Drop,
            ConnectPinned, Refused, Environment, Configure, Admit, Rekey, Disconnect, Pcs,
            Enrolling
<1>7. CASE Load
  BY <1>2, <1>4, <1>7 DEF Load, Get, Poll, Pcs
<1>8. CASE Write
  BY <1>2, <1>3, <1>4, <1>8 DEF Write, Update, Reset, Save, ConnectReset, Pcs
<1>9. CASE Touch
  BY <1>3, <1>4, <1>9 DEF Touch, ResetFails, StatusUnopened, Fail, ResetUnwritten
<1>10. ASSUME NEW c \in Callers, Status(c)  PROVE Ongoing(e)
  BY <1>2, <1>3, <1>10 DEF Status, Pcs
<1>11. ASSUME NEW c \in Callers, Insert(c)  PROVE Ongoing(e)
  BY <1>2, <1>3, <1>11 DEF Insert, Pcs
<1> QED  BY <1>5, <1>6, <1>7, <1>8, <1>9, <1>10, <1>11, Kinds

\* A source that is known keeps its Create call, and what that was answered.
LEMMA SameAnswer ==
  ASSUME Base, [Next]_vars, NEW e \in Callers, NEW i \in Sources,
         member[i] # NoMember, call'[e].id = i
  PROVE  call[e].id = i /\ call'[e].got = call[e].got
<1>1. TypeOK  BY DEF Base
<1>2. NoCall.id = None /\ NoCall.id # i  BY NoneFacts DEF NoCall
<1>3. CASE ~Enrolling  BY <1>2, <1>3, OngoingCalls DEF Ongoing
<1>4. ASSUME NEW c \in Callers, NEW a \in Addrs, Create(c, a)
      PROVE  call[e].id = i /\ call'[e].got = call[e].got
  <2>1. call' = [call EXCEPT ![c] = [NoCall EXCEPT !.pc = "enroll", !.addr = a]]
    BY <1>4 DEF Create
  <2>2. [NoCall EXCEPT !.pc = "enroll", !.addr = a].id = None  BY DEF NoCall
  <2>3. e # c  BY <1>1, <2>1, <2>2, NoneFacts DEF TypeOK
  <2> QED  BY <1>1, <2>1, <2>3 DEF TypeOK
<1>5. ASSUME NEW c \in Callers, NEW a \in Addrs, ConnectCreate(c, a)
      PROVE  call[e].id = i /\ call'[e].got = call[e].got
  <2>1. Left(a)  BY DEF Base
  <2> QED  BY <1>1, <1>5, <2>1, ConnectCreateFacts
<1>6. ASSUME NEW c \in Callers, NEW j \in Sources, Enroll(c, j)
      PROVE  call[e].id = i /\ call'[e].got = call[e].got
  BY <1>1, <1>6, EnrollFacts
<1> QED  BY <1>3, <1>4, <1>5, <1>6 DEF Enrolling

\* A synchronisation that has begun goes on, is done, or fails.
LEMMA SyncEnds ==
  ASSUME Base, Quiet, NEW e \in Callers, call[e].pc = "sync", copy'[e] # NoCopy
  PROVE  call'[e].pc = "sync" \/ SyncGroups(e)
<1>1. TypeOK  BY DEF Base
<1>2. ASSUME NEW c \in Callers, NEW pc \in Pcs, Goto(c, pc), c # e  PROVE call'[e].pc = "sync"
  BY ZenonT(60), <1>1, <1>2, GotoFacts
<1>3. ASSUME NEW c \in Callers, Return(c), c # e  PROVE call'[e].pc = "sync"
  BY <1>1, <1>3, ReturnFacts
<1>4. ASSUME NEW c \in Callers, NEW a \in Addrs, ConnectCreate(c, a)
      PROVE  call'[e].pc = "sync"
  <2>1. Left(a)  BY DEF Base
  <2> QED  BY <1>1, <1>4, <2>1, ConnectCreateFacts
<1>5. ASSUME NEW c \in Callers, NEW a \in Addrs, Create(c, a)
      PROVE  call'[e].pc = "sync"
  BY <1>1, <1>5 DEF Create, TypeOK
<1>6. ASSUME NEW c \in Callers, NEW j \in Sources, Enroll(c, j)
      PROVE  call'[e].pc = "sync"
  BY <1>1, <1>6, EnrollFacts
<1>7. ASSUME NEW c \in Callers, NEW a \in Addrs, Refused(c, a)
      PROVE  call'[e].pc = "sync"
  <2>1. c # e  BY <1>7, NoneFacts DEF Refused, RequestTo
  <2> QED  BY <1>3, <1>7, <2>1 DEF Refused
<1>8. ~Crash  BY NoneFacts DEF Crash
<1> QED  BY ZenonT(60), <1>2, <1>3, <1>4, <1>5, <1>6, <1>7, <1>8
      DEF Quiet, CheckStatus, SyncGroups, Members, Delete, DeletePartly, Arm, Drop,
          ConnectPinned, Environment, Configure, Admit, Rekey, Disconnect, Pcs

--------------------------------------------------------------------------------
(* The groups of a record are synchronised *)

\* The members of group g, that of i, are there, or are being fetched by Create.
Rooted(i, g) ==
  \/ i \in marks["torn"] \cup marks["cleared"]
  \/ g \in groups[i] \cup {None}
  \/ i \in marks["half"] /\ \A c \in Callers : call[c].id = i => call[c].got.group = g
RootedCopy(h) ==
  \/ copy[h].touched
  \/ h \in Callers /\ call[h].pc = "sync"
  \/ Rooted(copy[h].id, copy[h].rec.group)
AllRooted ==
  /\ \A i \in Held : Rooted(i, stored[i].group)
  /\ \A h \in Holders : copy[h] # NoCopy => RootedCopy(h)

\* "half" is removed when Create has synchronised the group.
LEMMA HalfSteps ==
  ASSUME Base, [Next]_vars, NEW i \in marks["half"]
  PROVE  \/ i \in marks'["half"]
         \/ \E c \in Callers : /\ call[c].id = i
                               /\ call[c].got.group \in groups'[i]
<1>1. TypeOK /\ i \in Sources  BY DEF Base, TypeOK, Marks
<1>2. CASE UNCHANGED vars  BY <1>2 DEF vars
<1>3. ASSUME NEW c \in Callers, SyncGroups(c) \/ Members(c)
      PROVE  \/ i \in marks'["half"]
             \/ \E e \in Callers : call[e].id = i /\ call[e].got.group \in groups'[i]
  <2>1. CASE SyncGroups(c)
    <3>1. marks'["half"] = marks["half"] \ {}
      BY <1>1, <2>1 DEF SyncGroups, Synced, TypeOK, Marks
    <3> QED  BY <3>1
  <2>2. CASE Members(c)
    <3>1. Stage(c) /\ call[c].pc = "members"  BY <2>2 DEF Base, Members
    <3>2. call[c].id \in Sources /\ call[c].got \in Member
      BY <1>1, <3>1, CallFacts DEF Stage
    <3>3. call[c].got.group \in Groups  BY <3>1, <3>2 DEF Stage, Member
    <3>4. Synced(call[c].id, call[c].got.group, {call[c].id})  BY <2>2 DEF Members
    <3>5. {call[c].id} \in SUBSET Sources  BY <3>2
    <3>6. /\ marks'["half"] = marks["half"] \ {call[c].id}
          /\ groups'[call[c].id] = groups[call[c].id] \cup {call[c].got.group}
      BY <1>1, <3>2, <3>3, <3>4, <3>5, SyncedFacts
    <3> QED  BY <3>6
  <2> QED  BY <1>3, <2>1, <2>2
<1>4. ASSUME NEW n \in Marks, NEW j, NEW yes, marks' = Mark(n, j, yes)
      PROVE  i \in marks'["half"]
  BY <1>1, <1>4 DEF Mark, TypeOK, Marks
<1>5. CASE Quiet
  <2>1. ASSUME NEW c \in Callers, Delete(c) \/ DeletePartly(c)  PROVE i \in marks'["half"]
    BY <1>4, <2>1 DEF Delete, DeletePartly, Marks
  <2>2. ASSUME NEW c \in Callers, NEW j \in Sources, Enroll(c, j)
        PROVE  i \in marks'["half"]
    BY <1>4, <2>2 DEF Enroll, Marks
  <2>3. ASSUME marks' = marks  PROVE i \in marks'["half"]
    BY <2>3
  <2>4. ASSUME NEW c \in Callers, NEW a \in Addrs, ConnectCreate(c, a)
        PROVE  i \in marks'["half"]
    BY <1>1, <2>4, CreateTrusts DEF Marks
  <2> QED
    BY ZenonT(60), <1>3, <1>5, <2>1, <2>2, <2>3, <2>4
       DEF Quiet, CheckStatus, Arm, Drop, ConnectPinned, Refused, Create,
           Environment, Configure, Admit, Rekey, Disconnect, Crash
<1>6. CASE Load  BY <1>6, LoadFacts
<1>7. CASE Write  BY <1>1, <1>7, WriteFacts, OverwriteFacts DEF Marks
<1>8. CASE Touch  BY <1>8, TouchFacts
<1>9. CASE \E c \in Callers : Status(c) \/ Insert(c)
  BY <1>4, <1>9 DEF Status, Insert, Marks
<1> QED  BY <1>2, <1>5, <1>6, <1>7, <1>8, <1>9, Kinds

LEMMA RootedKept ==
  ASSUME Base, [Next]_vars, NEW i \in Sources, NEW g, member[i] # NoMember, Rooted(i, g)
  PROVE  Rooted(i, g)'
<1>1. TypeOK  BY DEF Base
<1>2. marks["torn"] \subseteq marks'["torn"] /\ marks["cleared"] \subseteq marks'["cleared"]
  BY MarksGrow DEF Marks
<1>3. i \in marks'["cleared"] \/ groups[i] \subseteq groups'[i]
  <2>1. ASSUME NEW j \in Sources, NEW f \in Groups, NEW S \in SUBSET Sources, Synced(j, f, S)
        PROVE  groups[i] \subseteq groups'[i]
    BY <1>1, <2>1, SyncedFacts
  <2>2. CASE groups' = groups  BY <2>2
  <2>3. ASSUME NEW c \in Callers, call[c].id \in Sources, call[c].got.group \in Groups,
               Synced(call[c].id, call[c].got.group, {call[c].id})
        PROVE  groups[i] \subseteq groups'[i]
    <3>1. {call[c].id} \in SUBSET Sources  BY <2>3
    <3> QED  BY <2>1, <2>3, <3>1
  <2>4. ASSUME NEW c \in Callers, copy[c].id \in Sources, copy[c].rec.group \in Groups,
               Synced(copy[c].id, copy[c].rec.group, {})
        PROVE  groups[i] \subseteq groups'[i]
    BY <2>1, <2>4
  <2> QED  BY <2>2, <2>3, <2>4, GroupSteps
<1>4. CASE i \in marks["torn"] \cup marks["cleared"]  BY <1>2, <1>4 DEF Rooted
<1>5. CASE g \in groups[i] \cup {None}  BY <1>3, <1>5 DEF Rooted
<1>6. CASE i \in marks["half"] /\ \A c \in Callers : call[c].id = i => call[c].got.group = g
  <2>1. CASE i \in marks'["half"]
    <3>1. \A c \in Callers : call'[c].id = i => call'[c].got.group = g
      BY <1>6, SameAnswer
    <3> QED  BY <2>1, <3>1 DEF Rooted
  <2>2. CASE i \notin marks'["half"]
    <3>1. g \in groups'[i]  BY <1>6, <2>2, HalfSteps
    <3> QED  BY <3>1 DEF Rooted
  <2> QED  BY <2>1, <2>2
<1> QED  BY <1>4, <1>5, <1>6 DEF Rooted

LEMMA RootedStep == Base /\ AllRooted /\ [Next]_vars => AllRooted'
<1> SUFFICES ASSUME Base, AllRooted, [Next]_vars  PROVE AllRooted'
  OBVIOUS
<1>1. TypeOK  BY DEF Base
<1>2. \A i \in Held : i \in Sources /\ member[i] # NoMember  BY DEF Base, Known, Held
<1>3. \A h \in Holders : copy[h] # NoCopy =>
        copy[h].id \in Sources /\ member[copy[h].id] # NoMember
  BY <1>1, HeldFacts DEF Base, Known
<1>4. ASSUME NEW i \in Held  PROVE Rooted(i, stored[i].group)'
             \/ stored'[i].group # stored[i].group
  <2>1. PICK g : g = stored[i].group  OBVIOUS
  <2>2. Rooted(i, g)  BY <2>1 DEF AllRooted
  <2>3. Rooted(i, g)'  BY <1>2, <2>2, RootedKept
  <2> QED  BY <2>1, <2>3 DEF Rooted
\* A copy that keeps its source and its group.
<1>5. ASSUME NEW h \in Holders, NEW e \in Holders, copy[e] # NoCopy, RootedCopy(e),
             copy'[h].id = copy[e].id, copy'[h].rec.group = copy[e].rec.group,
             ~copy[e].touched, ~(e \in Callers /\ call[e].pc = "sync")
      PROVE  RootedCopy(h)'
  <2>1. PICK i, g : i = copy[e].id /\ g = copy[e].rec.group  OBVIOUS
  <2>2. Rooted(i, g)  BY <1>5, <2>1 DEF RootedCopy
  <2>3. Rooted(i, g)'  BY <1>3, <1>5, <2>1, <2>2, RootedKept
  <2>4. copy'[h].id = i /\ copy'[h].rec.group = g  BY <1>5, <2>1
  <2> QED  BY <2>3, <2>4 DEF RootedCopy, Rooted
<1>6. CASE UNCHANGED vars
  BY <1>6 DEF AllRooted, RootedCopy, Rooted, Held, vars
<1>7. CASE Quiet
  <2>1. \A i \in Held' : Rooted(i, stored[i].group)'  BY <1>4, <1>7, QuietFacts
  <2>2. ASSUME NEW h \in Holders, copy'[h] # NoCopy  PROVE RootedCopy(h)'
    <3>1. copy'[h] = copy[h] /\ RootedCopy(h) /\ copy[h] # NoCopy
      BY <1>7, <2>2, QuietFacts DEF AllRooted
    <3>2. CASE copy[h].touched  BY <3>1, <3>2 DEF RootedCopy
    <3>3. CASE h \in Callers /\ call[h].pc = "sync"
      <4>1. call'[h].pc = "sync" \/ SyncGroups(h)  BY <1>7, <2>2, <3>3, SyncEnds
      <4>2. CASE SyncGroups(h)
        <5>1. copy[h].id \in Sources  BY <1>3, <3>1
        <5>2. groups' = [groups EXCEPT ![copy[h].id] = @ \cup {copy[h].rec.group}]
          BY <4>2 DEF SyncGroups, Synced
        <5>3. copy[h].rec.group \in groups'[copy[h].id]
          BY <1>1, <5>1, <5>2 DEF TypeOK
        <5> QED  BY <3>1, <5>3 DEF RootedCopy, Rooted
      <4> QED  BY <3>3, <4>1, <4>2 DEF RootedCopy
    <3>4. CASE ~copy[h].touched /\ ~(h \in Callers /\ call[h].pc = "sync")
      BY <1>5, <3>1, <3>4
    <3> QED  BY <3>2, <3>3, <3>4
  <2> QED  BY <2>1, <2>2 DEF AllRooted
<1>8. CASE Load
  <2>1. PICK c \in Callers, i \in Held :
          /\ i \in Sources /\ copy'[c] = Current(i, stored[i]) /\ call[c].pc = "idle"
          /\ \A e \in Callers \ {c} : call'[e].pc = call[e].pc /\ copy'[e] = copy[e]
          /\ \A h \in Holders \ {c} : copy'[h] = copy[h] \/ copy'[h] = copy[c]
    BY <1>8, LoadFacts
  <2>2. UNCHANGED <<stored, groups, marks>> /\ Held' = Held  BY <1>8, LoadFacts DEF Held
  <2>3. Current(i, stored[i]).id = i /\ Current(i, stored[i]).rec = stored[i]
    BY DEF Current
  <2>4. \A j \in Held' : Rooted(j, stored[j].group)'  BY <1>4, <2>2
  <2>5. ASSUME NEW h \in Holders, copy'[h] # NoCopy  PROVE RootedCopy(h)'
    <3>1. CASE h = c
      <4>1. Rooted(i, stored[i].group)'  BY <2>2, <2>4
      <4>2. copy'[h].id = i /\ copy'[h].rec.group = stored'[i].group
        BY <2>1, <2>2, <2>3, <3>1
      <4> QED  BY <4>1, <4>2 DEF RootedCopy, Rooted
    <3>2. CASE h # c
      <4>1. PICK e \in Holders : /\ copy'[h] = copy[e] /\ copy[e] # NoCopy
                                 /\ e = h \/ (e = c /\ h \notin Callers)
        <5>1. c \in Holders  BY NoneFacts
        <5>2. CASE copy'[h] = copy[h]  BY <2>5, <5>2
        <5>3. CASE copy'[h] # copy[h]
          <6>1. copy'[h] = copy[c] /\ h \notin Callers  BY <2>1, <3>2, <5>3
          <6> QED  BY <2>5, <5>1, <6>1
        <5> QED  BY <5>2, <5>3
      <4>2. RootedCopy(e)  BY <4>1 DEF AllRooted
      <4>3. CASE copy[e].touched  BY <4>1, <4>3 DEF RootedCopy
      <4>4. CASE e \in Callers /\ call[e].pc = "sync"
        <5>1. e = h /\ h \in Callers /\ call'[h].pc = "sync"  BY <2>1, <4>1, <4>4, <3>2
        <5> QED  BY <5>1 DEF RootedCopy
      <4>5. CASE ~copy[e].touched /\ ~(e \in Callers /\ call[e].pc = "sync")
        BY <1>5, <4>1, <4>2, <4>5
      <4> QED  BY <4>3, <4>4, <4>5
    <3> QED  BY <3>1, <3>2
  <2> QED  BY <2>4, <2>5 DEF AllRooted
<1>9. CASE Write
  <2>1. PICK h \in Holders, x \in Copy :
          /\ Overwrite(h, x) /\ copy[h] \in Copy /\ x.id = copy[h].id
          /\ x.rec.group = copy[h].rec.group
          /\ copy[h].touched => x.touched
          /\ h \in Callers /\ call[h].pc = "sync" => x.touched
          /\ \A e \in Callers : call[e].pc = "sync" => call'[e] = call[e]
    BY <1>9, WriteFacts
  <2>2. /\ Held' = Held /\ x.id \in Sources /\ stored'[x.id] = x.rec
        /\ \A i \in Sources : i # x.id => stored'[i] = stored[i]
        /\ copy'[h] = IF h \in Pollers THEN NoCopy ELSE Current(x.id, x.rec)
        /\ \A e \in Holders \ {h} :
             /\ copy'[e] # NoCopy <=> copy[e] # NoCopy
             /\ copy[e] # NoCopy => /\ copy'[e].id = copy[e].id /\ copy'[e].rec = copy[e].rec
                                    /\ copy'[e].touched = copy[e].touched
        /\ x.touched => x.id \in marks'["torn"]
    BY <1>1, <2>1, OverwriteFacts DEF Copy
  <2>3. PICK i, g : i = x.id /\ g = x.rec.group  OBVIOUS
  <2>4. Rooted(i, g)'
    <3>1. CASE x.touched  BY <2>2, <2>3, <3>1 DEF Rooted
    <3>2. CASE ~x.touched
      <4>1. RootedCopy(h) /\ copy[h] # NoCopy  BY <2>1, RecordFacts DEF AllRooted
      <4>2. Rooted(i, g)  BY <2>1, <2>3, <3>2, <4>1 DEF RootedCopy
      <4> QED  BY <1>3, <2>1, <2>3, <4>1, <4>2, RootedKept
    <3> QED  BY <3>1, <3>2
  <2>5. Current(x.id, x.rec).id = i /\ Current(x.id, x.rec).rec.group = g
    BY <2>3 DEF Current
  <2>6. ASSUME NEW j \in Held'  PROVE Rooted(j, stored[j].group)'
    <3>1. CASE j = i  BY <2>2, <2>3, <2>4, <3>1 DEF Rooted
    <3>2. CASE j # i  BY <1>2, <1>4, <2>2, <2>3, <2>6, <3>2
    <3> QED  BY <3>1, <3>2
  <2>7. ASSUME NEW e \in Holders, copy'[e] # NoCopy  PROVE RootedCopy(e)'
    <3>1. CASE e = h
      <4>1. copy'[e].id = i /\ copy'[e].rec.group = g  BY <2>2, <2>5, <2>7, <3>1
      <4> QED  BY <2>4, <4>1 DEF RootedCopy, Rooted
    <3>2. CASE e # h
      <4>1. /\ copy[e] # NoCopy /\ copy'[e].id = copy[e].id
            /\ copy'[e].rec = copy[e].rec /\ copy'[e].touched = copy[e].touched
        BY <2>2, <2>7, <3>2
      <4>2. RootedCopy(e)  BY <4>1 DEF AllRooted
      <4>3. CASE copy[e].touched  BY <4>1, <4>3 DEF RootedCopy
      <4>4. CASE e \in Callers /\ call[e].pc = "sync"  BY <2>1, <4>4 DEF RootedCopy
      <4>5. CASE ~copy[e].touched /\ ~(e \in Callers /\ call[e].pc = "sync")
        BY <1>5, <4>1, <4>2, <4>5
      <4> QED  BY <4>3, <4>4, <4>5
    <3> QED  BY <3>1, <3>2
  <2> QED  BY <2>6, <2>7 DEF AllRooted
<1>10. CASE Touch
  <2>1. UNCHANGED <<stored, groups, marks>> /\ Held' = Held  BY <1>10, TouchFacts DEF Held
  <2>2. \A j \in Held' : Rooted(j, stored[j].group)'  BY <1>4, <2>1
  <2>3. ASSUME NEW h \in Holders, copy'[h] # NoCopy  PROVE RootedCopy(h)'
    <3>1. CASE copy'[h].touched  BY <3>1 DEF RootedCopy
    <3>2. CASE ~copy'[h].touched
      <4>1. copy'[h] = copy[h] /\ RootedCopy(h)  BY <1>10, <2>3, <3>2, TouchFacts DEF AllRooted
      <4>2. CASE h \in Callers /\ call[h].pc = "sync"
        <5>1. call'[h] = call[h]  BY <1>10, <2>3, <3>2, <4>2, TouchFacts
        <5> QED  BY <4>2, <5>1 DEF RootedCopy
      <4>3. CASE ~(h \in Callers /\ call[h].pc = "sync")
        BY <1>5, <2>3, <3>2, <4>1, <4>3
      <4> QED  BY <4>2, <4>3
    <3> QED  BY <3>1, <3>2
  <2> QED  BY <2>2, <2>3 DEF AllRooted
<1>11. ASSUME NEW c \in Callers, Status(c)  PROVE AllRooted'
  <2>1. UNCHANGED <<stored, groups, marks>> /\ Held' = Held  BY <1>11, StatusFacts DEF Held
  <2>2. \A j \in Held' : Rooted(j, stored[j].group)'  BY <1>4, <2>1
  <2>3. /\ call[c].pc = "status" /\ copy[c] # NoCopy
        /\ \A h \in Holders \ {c} : copy'[h] = copy[h]
        /\ \A e \in Callers \ {c} : call'[e] = call[e]
        /\ \/ copy'[c] \in {copy[c], NoCopy}
           \/ /\ copy'[c].id = copy[c].id /\ copy'[c].touched = copy[c].touched
              /\ \/ call'[c].pc = "sync"
                 \/ copy'[c].rec.group = copy[c].rec.group
    BY <1>11, StatusFacts, RecordFacts
  <2>4. ASSUME NEW h \in Holders, copy'[h] # NoCopy  PROVE RootedCopy(h)'
    <3>1. CASE h = c
      <4>1. c \in Holders /\ RootedCopy(c)  BY <2>3, NoneFacts DEF AllRooted
      <4>2. CASE call'[c].pc = "sync"  BY <3>1, <4>2 DEF RootedCopy
      <4>3. CASE copy[c].touched  BY <2>3, <2>4, <3>1, <4>3 DEF RootedCopy
      <4>4. CASE ~copy[c].touched /\ call'[c].pc # "sync"
        <5>1. copy'[c].id = copy[c].id /\ copy'[c].rec.group = copy[c].rec.group
          BY <2>3, <2>4, <3>1, <4>4
        <5> QED  BY <1>5, <2>3, <3>1, <4>1, <4>4, <5>1
      <4> QED  BY <4>2, <4>3, <4>4
    <3>2. CASE h # c
      <4>1. copy'[h] = copy[h] /\ RootedCopy(h)  BY <2>3, <2>4, <3>2 DEF AllRooted
      <4>2. CASE copy[h].touched  BY <4>1, <4>2 DEF RootedCopy
      <4>3. CASE h \in Callers /\ call[h].pc = "sync"
        BY <2>3, <3>2, <4>3 DEF RootedCopy
      <4>4. CASE ~copy[h].touched /\ ~(h \in Callers /\ call[h].pc = "sync")
        BY <1>5, <2>4, <4>1, <4>4
      <4> QED  BY <4>2, <4>3, <4>4
    <3> QED  BY <3>1, <3>2
  <2> QED  BY <2>2, <2>4 DEF AllRooted
<1>12. ASSUME NEW c \in Callers, Insert(c)  PROVE AllRooted'
  <2>1. copy' = copy /\ groups' = groups  BY <1>12 DEF Insert
  <2>2. PICK i, g : i = call[c].id /\ g = call[c].got.group  OBVIOUS
  <2>3. /\ call[c].pc = "insert" /\ i \in Sources
        /\ \/ /\ stored' = [stored EXCEPT ![i] = Inserted(call[c])]
              /\ marks' = Mark("half", i, g # None)
           \/ UNCHANGED <<stored, marks>>
        /\ \A e \in Callers \ {c} : call'[e] = call[e]
    BY <1>12, <2>2, InsertFacts
  <2>4. Inserted(call[c]).group = g  BY <2>2 DEF Inserted
  <2>5. i \notin Held  BY <2>2, <2>3 DEF Base, Known
  <2>6. ASSUME NEW j \in Held'  PROVE Rooted(j, stored[j].group)'
    <3>1. CASE stored' = stored  BY <1>4, <2>6, <3>1 DEF Held
    <3>2. CASE /\ stored' = [stored EXCEPT ![i] = Inserted(call[c])]
               /\ marks' = Mark("half", i, g # None)
      <4>1. CASE j # i
        <5>1. j \in Held /\ stored'[j] = stored[j]  BY <1>1, <2>6, <3>2, <4>1 DEF Held, TypeOK
        <5> QED  BY <1>4, <5>1
      <4>2. CASE j = i
        <5>1. stored'[i].group = g  BY <1>1, <2>3, <2>4, <3>2 DEF TypeOK
        <5>2. g = None \/ i \in marks'["half"]
          BY <1>1, <2>3, <3>2, MarkFacts DEF Marks
        <5>3. ASSUME NEW e \in Callers, call'[e].id = i  PROVE call'[e].got.group = g
          <6>1. call[e].id = i /\ call'[e].got = call[e].got
            <7>1. member[i] # NoMember  BY <2>2, <2>3 DEF Base, Known
            <7> QED  BY <2>3, <5>3, <7>1, SameAnswer
          <6>2. e = c  BY <2>2, <2>3, <6>1 DEF Base, Known
          <6> QED  BY <2>2, <6>1, <6>2
        <5> QED  BY <4>2, <5>1, <5>2, <5>3 DEF Rooted
      <4> QED  BY <4>1, <4>2
    <3> QED  BY <2>3, <3>1, <3>2
  <2>7. ASSUME NEW h \in Holders, copy'[h] # NoCopy  PROVE RootedCopy(h)'
    <3>1. copy'[h] = copy[h] /\ RootedCopy(h) /\ copy[h] # NoCopy
      BY <2>1, <2>7 DEF AllRooted
    <3>2. CASE copy[h].touched  BY <3>1, <3>2 DEF RootedCopy
    <3>3. CASE h \in Callers /\ call[h].pc = "sync"
      BY <2>3, <3>3 DEF RootedCopy
    <3>4. CASE ~copy[h].touched /\ ~(h \in Callers /\ call[h].pc = "sync")
      BY <1>5, <3>1, <3>4
    <3> QED  BY <3>2, <3>3, <3>4
  <2> QED  BY <2>6, <2>7 DEF AllRooted
<1> QED  BY <1>6, <1>7, <1>8, <1>9, <1>10, <1>11, <1>12, Kinds

\* CheckStatus (574-605) takes a group that is in the record for known and does not
\* synchronise it again: it was, unless Create or Delete was cut short.
THEOREM GroupsSynced == Spec => []GroupSynced
<1>1. Init => AllRooted  BY DEF Init, AllRooted, Held
<1>2. Base /\ AllRooted /\ [Next]_vars => AllRooted'  BY RootedStep
<1>3. AllRooted => GroupSynced  BY DEF AllRooted, Rooted, GroupSynced, Marked
<1> QED  BY <1>1, <1>2, <1>3, BaseAlways, PTL DEF Spec

--------------------------------------------------------------------------------
(* A record keeps its fingerprint *)

PinnedCopy(h) ==
  \/ copy[h].behind \/ copy[h].touched
  \/ Marked(copy[h].id, {"old", "torn", "crossed", "unkept"})
  \/ copy[h].rec.pin = pinned[copy[h].id]
AllPinned == PinKept /\ \A h \in Holders : copy[h] # NoCopy => PinnedCopy(h)

\* A Create call that is about to insert its record has the fingerprint of the
\* connection over which it was enrolled, as has one that is yet to be enrolled.
CallPinned(c) ==
  call[c].pc = "insert" =>
    \/ call[c].id \in marks["crossed"] \cup marks["unkept"]
    \/ call[c].fp = pinned[call[c].id]
Agreed(a) ==
  conf[a].kind = "create" /\ call[conf[a].owner].addr = a =>
    /\ conf[a].id = call[conf[a].owner].id
    /\ conn[a] # None => call[conf[a].owner].fp = conn[a]
AllAgreed == (\A c \in Callers : CallPinned(c)) /\ \A a \in Addrs : Agreed(a)

\* What a Write, a connection of Create and an enrolment leave of "pinned".
LEMMA PinnedSteps ==
  ASSUME Base, [Next]_vars, ~Write, pinned' # pinned
  PROVE  \E c \in Callers : \/ \E a \in Addrs : ConnectCreate(c, a)
                            \/ \E i \in Sources : Enroll(c, i)
<1>1. Next  BY DEF vars
<1>2. CASE Quiet
  BY <1>2 DEF Quiet, CheckStatus, SyncGroups, Members, Delete, DeletePartly, Arm, Drop,
      ConnectPinned, Refused, Create, Environment, Configure, Admit, Rekey, Disconnect, Crash
<1>3. CASE Load  BY <1>3, LoadFacts
<1>4. CASE Touch  BY <1>4, TouchFacts
<1>5. CASE \E c \in Callers : Status(c) \/ Insert(c)
  BY <1>5 DEF Status, Insert
<1> QED  BY <1>1, <1>2, <1>3, <1>4, <1>5, Kinds

\* Only a Write changes the fingerprint of a source that has a record or a copy, and
\* the function of its Create, which marks it.
LEMMA PinnedHeld ==
  ASSUME Base, AllAgreed, [Next]_vars, ~Write, NEW i \in Sources,
         i \in Held \/ \E h \in Holders : copy[h].id = i
  PROVE  pinned'[i] = pinned[i] \/ i \in marks'["unkept"]
<1>1. TypeOK /\ Known(i)  BY DEF Base
<1>2. ASSUME NEW c \in Callers, NEW a \in Addrs, ConnectCreate(c, a)
      PROVE  pinned'[i] = pinned[i] \/ i \in marks'["unkept"]
  <2>1. PICK w : w = conf[a].owner  OBVIOUS
  <2>2. Left(a) /\ conf[a].kind = "create"  BY <1>2 DEF Base, ConnectCreate
  <2>3. w \in Callers /\ Agreed(a)  BY <2>1, <2>2 DEF Left, AllAgreed
  <2>4. CASE i # conf[a].id  BY <1>1, <1>2, <2>4, CreateTrusts
  <2>5. CASE i = conf[a].id /\ KeptUntilInsert(a)
    <3>1. call[w].addr = a /\ call[w].pc \in {"enroll", "insert"}
      BY <2>1, <2>5 DEF KeptUntilInsert
    <3>2. call[w].id = i  BY <2>1, <2>2, <2>3, <2>5, <3>1 DEF Agreed
    <3>3. Stage(w)  BY <2>3 DEF Base
    <3>4. call[w].pc = "insert"  BY <3>1, <3>2, <3>3, NoneFacts DEF Stage
    <3> QED  BY <1>1, <2>3, <3>2, <3>4 DEF Known
  <2>6. CASE i = conf[a].id /\ ~KeptUntilInsert(a)
    <3>1. /\ pinned'[i] = daemonKey[a]
          /\ pinned[i] # daemonKey[a] => i \in marks'["unkept"]
      BY <1>1, <1>2, <2>6, NoneFacts, CreateTrusts
    <3> QED  BY <3>1
  <2> QED  BY <2>4, <2>5, <2>6
<1>3. ASSUME NEW c \in Callers, NEW j \in Sources, Enroll(c, j)
      PROVE  pinned'[i] = pinned[i]
  <2>1. member[j] = NoMember /\ pinned' = [pinned EXCEPT ![j] = conn[call[c].addr]]
    BY <1>3 DEF Enroll
  <2>2. j # i  BY <1>1, <2>1 DEF Known
  <2> QED  BY <1>1, <2>1, <2>2 DEF TypeOK
<1> QED  BY <1>2, <1>3, PinnedSteps

\* A mark of a source with a wrong fingerprint stays.
LEMMA MarkedKept ==
  ASSUME Base, [Next]_vars, NEW i, Marked(i, {"old", "torn", "crossed", "unkept"})
  PROVE  Marked(i, {"old", "torn", "crossed", "unkept"})'
BY MarksGrow DEF Marked, Marks

LEMMA PinnedStep == Base /\ AllPinned /\ AllAgreed /\ [Next]_vars => AllPinned'
<1> SUFFICES ASSUME Base, AllPinned, AllAgreed, [Next]_vars  PROVE AllPinned'
  OBVIOUS
<1>1. TypeOK  BY DEF Base
\* A record, and a copy, that stays, while the fingerprint does.
<1>2. ASSUME NEW i \in Held, stored'[i] = stored[i],
             pinned'[i] = pinned[i] \/ i \in marks'["unkept"]
      PROVE  Marked(i, {"old", "torn", "crossed", "unkept"})' \/ stored'[i].pin = pinned'[i]
  <2>1. CASE i \in marks'["unkept"]  BY <2>1 DEF Marked
  <2>2. CASE pinned'[i] = pinned[i]  BY <1>2, <2>2, MarkedKept DEF AllPinned, PinKept
  <2> QED  BY <1>2, <2>1, <2>2
<1>3. ASSUME NEW h \in Holders, NEW e \in Holders, copy[e] # NoCopy,
             copy'[h].id = copy[e].id, copy'[h].rec.pin = copy[e].rec.pin,
             copy[e].behind => copy'[h].behind, copy[e].touched => copy'[h].touched,
             \/ pinned'[copy[e].id] = pinned[copy[e].id]
             \/ copy[e].id \in marks'["unkept"]
      PROVE  PinnedCopy(h)'
  <2>1. PICK i : i = copy[e].id  OBVIOUS
  <2>2. PinnedCopy(e)  BY <1>3 DEF AllPinned
  <2>3. CASE Marked(i, {"old", "torn", "crossed", "unkept"})
    <3>1. Marked(i, {"old", "torn", "crossed", "unkept"})'  BY <2>3, MarkedKept
    <3> QED  BY <1>3, <2>1, <3>1 DEF PinnedCopy, Marked
  <2>4. CASE i \in marks'["unkept"]  BY <1>3, <2>1, <2>4 DEF PinnedCopy, Marked
  <2> QED  BY <1>3, <2>1, <2>2, <2>3, <2>4 DEF PinnedCopy
<1>4. \A h \in Holders : copy[h] # NoCopy => copy[h].id \in Sources
  BY <1>1, HeldFacts
<1>5. ~Write => \A h \in Holders : copy[h] # NoCopy =>
        \/ pinned'[copy[h].id] = pinned[copy[h].id]
        \/ copy[h].id \in marks'["unkept"]
  BY <1>4, PinnedHeld
<1>6. ~Write => \A i \in Held : pinned'[i] = pinned[i] \/ i \in marks'["unkept"]
  BY PinnedHeld DEF Held
<1>7. CASE UNCHANGED vars
  BY <1>7 DEF AllPinned, PinKept, PinnedCopy, Marked, Held, vars
<1>8. CASE Quiet /\ ~Write
  <2>1. \A i \in Held' : i \in Held /\ stored'[i] = stored[i]  BY <1>8, QuietFacts
  <2>2. PinKept'  BY <1>2, <1>6, <1>8, <2>1 DEF PinKept, Marked
  <2>3. ASSUME NEW h \in Holders, copy'[h] # NoCopy  PROVE PinnedCopy(h)'
    BY <1>3, <1>5, <1>8, <2>3, QuietFacts
  <2> QED  BY <2>2, <2>3 DEF AllPinned
<1>9. CASE Load /\ ~Write
  <2>1. PICK c \in Callers, i \in Held :
          /\ i \in Sources /\ copy'[c] = Current(i, stored[i])
          /\ \A h \in Holders \ {c} : copy'[h] = copy[h] \/ copy'[h] = copy[c]
    BY <1>9, LoadFacts
  <2>2. UNCHANGED <<stored, pinned>> /\ Held' = Held  BY <1>9, LoadFacts DEF Held
  <2>3. PinKept'  BY <1>2, <2>2 DEF PinKept, Marked
  <2>4. Current(i, stored[i]).id = i /\ Current(i, stored[i]).rec = stored[i]
    BY DEF Current
  <2>5. ASSUME NEW h \in Holders, copy'[h] # NoCopy  PROVE PinnedCopy(h)'
    <3>1. CASE h = c
      <4>1. copy'[h].id = i /\ copy'[h].rec.pin = stored[i].pin  BY <2>1, <2>4, <3>1
      <4>2. Marked(i, {"old", "torn", "crossed", "unkept"})' \/ stored[i].pin = pinned'[i]
        BY <1>2, <2>2
      <4> QED  BY <4>1, <4>2 DEF PinnedCopy, Marked
    <3>2. CASE h # c
      <4>1. PICK e \in Holders : copy'[h] = copy[e] /\ copy[e] # NoCopy
        BY <2>1, <2>5, <3>2, NoneFacts
      <4> QED  BY <1>3, <1>5, <1>9, <4>1
    <3> QED  BY <3>1, <3>2
  <2> QED  BY <2>3, <2>5 DEF AllPinned
<1>10. CASE Touch /\ ~Write
  <2>1. UNCHANGED <<stored, pinned>> /\ Held' = Held  BY <1>10, TouchFacts DEF Held
  <2>2. PinKept'  BY <1>2, <2>1 DEF PinKept, Marked
  <2>3. ASSUME NEW h \in Holders, copy'[h] # NoCopy  PROVE PinnedCopy(h)'
    <3>1. CASE copy'[h].touched  BY <3>1 DEF PinnedCopy
    <3>2. CASE ~copy'[h].touched
      <4>1. copy'[h] = copy[h]  BY <1>10, <2>3, <3>2, TouchFacts
      <4> QED  BY <1>3, <1>5, <1>10, <2>3, <4>1
    <3> QED  BY <3>1, <3>2
  <2> QED  BY <2>2, <2>3 DEF AllPinned
<1>11. ASSUME NEW c \in Callers, Status(c), ~Write  PROVE AllPinned'
  <2>1. UNCHANGED <<stored, pinned>> /\ Held' = Held  BY <1>11, StatusFacts DEF Held
  <2>2. PinKept'  BY <1>2, <2>1 DEF PinKept, Marked
  <2>3. /\ copy[c] # NoCopy /\ \A h \in Holders \ {c} : copy'[h] = copy[h]
        /\ \/ copy'[c] \in {copy[c], NoCopy}
           \/ /\ copy'[c].id = copy[c].id /\ copy'[c].rec.pin = copy[c].rec.pin
              /\ copy'[c].behind = copy[c].behind /\ copy'[c].touched = copy[c].touched
    BY <1>11, StatusFacts, RecordFacts
  <2>4. ASSUME NEW h \in Holders, copy'[h] # NoCopy  PROVE PinnedCopy(h)'
    BY <1>3, <1>5, <1>11, <2>3, <2>4
  <2> QED  BY <2>2, <2>4 DEF AllPinned
<1>12. ASSUME NEW c \in Callers, Insert(c), ~Write  PROVE AllPinned'
  <2>1. copy' = copy /\ pinned' = pinned  BY <1>12 DEF Insert
  <2>2. PICK i : i = call[c].id  OBVIOUS
  <2>3. /\ call[c].pc = "insert" /\ i \in Sources
        /\ \/ stored' = [stored EXCEPT ![i] = Inserted(call[c])]
           \/ stored' = stored
    BY <1>12, <2>2, InsertFacts
  <2>4. Inserted(call[c]).pin = call[c].fp  BY DEF Inserted
  <2>5. i \in marks["crossed"] \cup marks["unkept"] \/ call[c].fp = pinned[i]
    BY <2>2, <2>3 DEF AllAgreed, CallPinned
  <2>6. ASSUME NEW j \in Held'
        PROVE  Marked(j, {"old", "torn", "crossed", "unkept"})' \/ stored'[j].pin = pinned'[j]
    <3>1. CASE stored' = stored  BY <1>2, <2>1, <2>6, <3>1 DEF Held
    <3>2. CASE stored' = [stored EXCEPT ![i] = Inserted(call[c])]
      <4>1. CASE j # i
        <5>1. j \in Held /\ stored'[j] = stored[j]
          BY <1>1, <2>6, <3>2, <4>1 DEF Held, TypeOK
        <5> QED  BY <1>2, <2>1, <5>1
      <4>2. CASE j = i
        <5>1. stored'[i].pin = call[c].fp  BY <1>1, <2>3, <2>4, <3>2 DEF TypeOK
        <5>2. /\ i \in marks["crossed"] => i \in marks'["crossed"]
              /\ i \in marks["unkept"] => i \in marks'["unkept"]
          BY MarksGrow DEF Marks
        <5> QED  BY <2>1, <2>5, <4>2, <5>1, <5>2 DEF Marked
      <4> QED  BY <4>1, <4>2
    <3> QED  BY <2>3, <3>1, <3>2
  <2>7. ASSUME NEW h \in Holders, copy'[h] # NoCopy  PROVE PinnedCopy(h)'
    BY <1>3, <2>1, <2>7
  <2> QED  BY <2>6, <2>7 DEF AllPinned, PinKept, Marked
<1>13. CASE Write
  <2>1. PICK h \in Holders, x \in Copy :
          /\ Overwrite(h, x) /\ copy[h] \in Copy /\ x.id = copy[h].id
          /\ \/ x = copy[h] /\ pinned' = pinned
             \/ ~x.behind /\ pinned' = [pinned EXCEPT ![x.id] = x.rec.pin]
    BY <1>13, WriteFacts
  <2>2. /\ Held' = Held /\ x.id \in Sources /\ stored'[x.id] = x.rec
        /\ \A i \in Sources : i # x.id => stored'[i] = stored[i]
        /\ copy'[h] = IF h \in Pollers THEN NoCopy ELSE Current(x.id, x.rec)
        /\ \A e \in Holders \ {h} :
             /\ copy'[e] # NoCopy <=> copy[e] # NoCopy
             /\ copy[e] # NoCopy =>
                  /\ copy'[e].id = copy[e].id /\ copy'[e].rec = copy[e].rec
                  /\ copy'[e].touched = copy[e].touched
                  /\ copy'[e].behind = (copy[e].behind \/ Overtaken(copy[e], x))
        /\ x.behind => x.id \in marks'["old"]
        /\ x.touched => x.id \in marks'["torn"]
    BY <1>1, <2>1, OverwriteFacts DEF Copy
  <2>3. PICK i, p : i = x.id /\ p = x.rec.pin  OBVIOUS
  <2>4. \A j \in Sources : j # i => pinned'[j] = pinned[j]
    BY <1>1, <2>1, <2>3 DEF TypeOK
  <2>5. Marked(i, {"old", "torn", "crossed", "unkept"})' \/ p = pinned'[i]
    <3>1. CASE pinned' = [pinned EXCEPT ![x.id] = x.rec.pin]
      BY <1>1, <2>2, <2>3, <3>1 DEF TypeOK
    <3>2. CASE x = copy[h] /\ pinned' = pinned
      <4>1. PinnedCopy(h)  BY <2>1, RecordFacts DEF AllPinned
      <4>2. CASE Marked(i, {"old", "torn", "crossed", "unkept"})  BY <4>2, MarkedKept
      <4>3. CASE x.behind \/ x.touched  BY <2>2, <2>3, <4>3 DEF Marked
      <4> QED  BY <2>3, <3>2, <4>1, <4>2, <4>3 DEF PinnedCopy
    <3> QED  BY <2>1, <3>1, <3>2
  <2>6. PinKept'
    <3>1. ASSUME NEW j \in Held'
          PROVE  Marked(j, {"old", "torn", "crossed", "unkept"})' \/ stored'[j].pin = pinned'[j]
      <4>1. CASE j = i  BY <2>2, <2>3, <2>5, <4>1
      <4>2. CASE j # i
        <5>1. j \in Held /\ j \in Sources  BY <2>2, <3>1 DEF Held
        <5> QED  BY <1>2, <2>2, <2>3, <2>4, <4>2, <5>1
      <4> QED  BY <4>1, <4>2
    <3> QED  BY <3>1 DEF PinKept, Marked
  <2>7. Current(x.id, x.rec).id = i /\ Current(x.id, x.rec).rec.pin = p
    BY <2>3 DEF Current
  <2>8. ASSUME NEW e \in Holders, copy'[e] # NoCopy  PROVE PinnedCopy(e)'
    <3>1. CASE e = h
      <4>1. copy'[e].id = i /\ copy'[e].rec.pin = p  BY <2>2, <2>7, <2>8, <3>1
      <4> QED  BY <2>5, <4>1 DEF PinnedCopy, Marked
    <3>2. CASE e # h
      <4>1. /\ copy[e] # NoCopy /\ copy[e].id \in Sources
            /\ copy'[e].id = copy[e].id /\ copy'[e].rec = copy[e].rec
            /\ copy'[e].touched = copy[e].touched
            /\ copy'[e].behind = (copy[e].behind \/ Overtaken(copy[e], x))
        BY <1>4, <2>2, <2>8, <3>2
      <4>2. CASE copy[e].id # i
        BY <1>3, <2>4, <4>1, <4>2
      <4>3. CASE copy[e].id = i /\ copy[e].rec.pin = p
        BY <2>5, <4>1, <4>3 DEF PinnedCopy, Marked
      <4>4. CASE copy[e].id = i /\ copy[e].rec.pin # p
        BY <2>3, <4>1, <4>4 DEF PinnedCopy, Overtaken
      <4> QED  BY <4>2, <4>3, <4>4
    <3> QED  BY <3>1, <3>2
  <2> QED  BY <2>6, <2>8 DEF AllPinned
<1> QED  BY <1>7, <1>8, <1>9, <1>10, <1>11, <1>12, <1>13, Kinds

\* But for a Create call, a connection under its function is closed or stays.
LEMMA ConnectionSteps ==
  ASSUME Base, [Next]_vars, ~Enrolling, NEW a \in Addrs, conf'[a].kind = "create"
  PROVE  conf'[a] = conf[a] /\ conn'[a] \in {conn[a], None}
<1>1. TypeOK  BY DEF Base
<1>2. CASE UNCHANGED vars  BY <1>2 DEF vars
<1>3. ASSUME NEW b \in Addrs, NEW f \in Conf, f.kind # "create", SetConf(b, f)
      PROVE  conf'[a] = conf[a] /\ conn'[a] \in {conn[a], None}
  BY <1>1, <1>3, SetConfFacts
<1>4. CASE Quiet
  <2>1. ASSUME NEW c \in Callers, Arm(c)
        PROVE  conf'[a] = conf[a] /\ conn'[a] \in {conn[a], None}
    <3>1. c \in Holders /\ Stage(c) /\ call[c].pc = "arm"
      BY <2>1, NoneFacts DEF Base, Arm
    <3>2. copy[c].rec.addr \in Addrs
      BY <1>1, <3>1, HeldFacts DEF Stage, Record
    <3>3. PICK f : f = [NoConf EXCEPT !.kind = "reset", !.owner = c]  OBVIOUS
    <3>4. f \in Conf /\ f.kind # "create"  BY <3>1, <3>3 DEF NoConf, Conf
    <3> QED  BY <1>3, <2>1, <3>2, <3>3, <3>4 DEF Arm
  <2>2. ASSUME NEW i \in Sources, Configure(i)
        PROVE  conf'[a] = conf[a] /\ conn'[a] \in {conn[a], None}
    <3>1. stored[i] \in Record  BY <1>1, <2>2, HeldFacts DEF Configure
    <3>2. stored[i].addr \in Addrs /\ stored[i].pin \in Keys \cup {None}
      BY <3>1 DEF Record
    <3>3. PICK f : f = [NoConf EXCEPT !.kind = "pin", !.pin = stored[i].pin]  OBVIOUS
    <3>4. f \in Conf /\ f.kind # "create"  BY <3>2, <3>3 DEF NoConf, Conf
    <3> QED  BY <1>3, <2>2, <3>2, <3>3, <3>4 DEF Configure
  <2>3. ASSUME NEW c \in Callers, NEW b \in Addrs, ConnectPinned(c, b)
        PROVE  conf'[a] = conf[a] /\ conn'[a] \in {conn[a], None}
    BY <1>1, <2>3 DEF ConnectPinned, TypeOK
  <2>4. ASSUME Crash  PROVE FALSE
    BY <2>4 DEF Crash, NoConf
  <2>5. ASSUME NEW b \in Addrs, Rekey(b) \/ Disconnect(b)
        PROVE  conf'[a] = conf[a] /\ conn'[a] \in {conn[a], None}
    BY <1>1, <2>5 DEF Rekey, Disconnect, TypeOK
  <2> QED  BY <1>4, <2>1, <2>2, <2>3, <2>4, <2>5
       DEF Quiet, CheckStatus, SyncGroups, Members, Delete, DeletePartly, Drop, Refused,
           Environment, Admit, Enrolling
<1>5. CASE Load
  <2>1. conn' = conn  BY <1>5, LoadFacts
  <2>2. ASSUME NEW c \in Callers, NEW i \in Sources, Get(c, i)  PROVE conf'[a] = conf[a]
    <3>1. ResetBy(c) \subseteq Addrs /\ a \notin ResetBy(c)
      <4>1. a \in ResetBy(c) => conf'[a] = [conf[a] EXCEPT !.owner = a]
        BY <2>2 DEF Get, ResetBy
      <4>2. a \in ResetBy(c) => conf[a].kind = "reset"  BY DEF ResetBy
      <4> QED  BY <1>1, <4>1, <4>2 DEF ResetBy, TypeOK, Conf
    <3> QED  BY <2>2, <3>1 DEF Get
  <2> QED  BY <1>5, <2>1, <2>2 DEF Load, Poll
<1>6. CASE Write
  <2>1. conf' = conf /\ (conn'[a] = conn[a] \/ conf[a].kind = "reset")
    BY <1>6, WriteFacts
  <2> QED  BY <2>1
<1>7. CASE Touch  BY <1>7, TouchFacts
<1>8. CASE \E c \in Callers : Status(c) \/ Insert(c)
  BY <1>8 DEF Status, Insert
<1> QED  BY <1>2, <1>4, <1>5, <1>6, <1>7, <1>8, Kinds

LEMMA AgreedStep == Base /\ AllAgreed /\ [Next]_vars => AllAgreed'
<1> SUFFICES ASSUME Base, AllAgreed, [Next]_vars  PROVE AllAgreed'
  OBVIOUS
<1>1. TypeOK  BY DEF Base
<1>2. marks["crossed"] \cup marks["unkept"] \subseteq marks'["crossed"] \cup marks'["unkept"]
  BY MarksGrow DEF Marks
<1>3. NoCall.pc = "idle" /\ NoCall.addr = None  BY DEF NoCall
<1>4. \A c, e \in Callers : call[c].pc = "insert" /\ call[e].id = call[c].id => c = e
  <2>1. \A c \in Callers : call[c].pc = "insert" => call[c].id \in Sources
    BY <1>1, CallFacts DEF Base, Stage
  <2> QED  BY <2>1 DEF Base, Known
<1>5. CASE ~Enrolling
  <2>1. ASSUME NEW e \in Callers, call'[e].pc = "insert"
        PROVE  \/ call'[e].id \in marks'["crossed"] \cup marks'["unkept"]
               \/ call'[e].fp = pinned'[call'[e].id]
    <3>1. /\ call[e].pc = "insert" /\ call'[e].id = call[e].id /\ call'[e].fp = call[e].fp
      BY <1>3, <1>5, <2>1, OngoingCalls DEF Ongoing
    <3>2. \/ call[e].id \in marks["crossed"] \cup marks["unkept"]
          \/ call[e].fp = pinned[call[e].id]
      BY <3>1 DEF AllAgreed, CallPinned
    <3>3. pinned'[call[e].id] = pinned[call[e].id]
      <4>1. CASE Write
        <5>1. PICK h \in Holders, x \in Copy :
                /\ x.id = copy[h].id /\ copy[h] \in Copy
                /\ pinned' = pinned \/ pinned' = [pinned EXCEPT ![x.id] = x.rec.pin]
          BY <4>1, WriteFacts
        <5>2. call[e].id \in Sources  BY <1>1, <3>1, CallFacts DEF Base, Stage
        <5>3. Known(call[e].id)  BY <5>2 DEF Base
        <5>4. x.id # call[e].id  BY <3>1, <5>1, <5>3 DEF Known
        <5> QED  BY <1>1, <5>1, <5>2, <5>4 DEF TypeOK
      <4>2. CASE ~Write  BY <1>5, <4>2, PinnedSteps DEF Enrolling
      <4> QED  BY <4>1, <4>2
    <3> QED  BY <1>2, <3>1, <3>2, <3>3
  <2>2. ASSUME NEW a \in Addrs  PROVE Agreed(a)'
    <3>1. SUFFICES ASSUME conf'[a].kind = "create", call'[conf'[a].owner].addr = a
                   PROVE  /\ conf'[a].id = call'[conf'[a].owner].id
                          /\ conn'[a] # None => call'[conf'[a].owner].fp = conn'[a]
      BY DEF Agreed
    <3>2. conf'[a] = conf[a] /\ conn'[a] \in {conn[a], None}
      BY <1>5, <3>1, ConnectionSteps
    <3>3. PICK w : w = conf[a].owner  OBVIOUS
    <3>4. w \in Callers  BY <3>1, <3>2, <3>3 DEF Base, Left
    <3>5. /\ call'[w].addr = call[w].addr /\ call'[w].fp = call[w].fp
          /\ call'[w].id = call[w].id
      BY <1>3, <1>5, <3>1, <3>2, <3>3, <3>4, NoneFacts, OngoingCalls DEF Ongoing
    <3>6. Agreed(a)  BY DEF AllAgreed
    <3> QED  BY <3>1, <3>2, <3>3, <3>5, <3>6 DEF Agreed
  <2> QED  BY <2>1, <2>2 DEF AllAgreed, CallPinned
<1>6. ASSUME NEW c \in Callers, NEW b \in Addrs, Create(c, b)  PROVE AllAgreed'
  <2>1. PICK k, f : /\ k = [NoCall EXCEPT !.pc = "enroll", !.addr = b]
                    /\ f = [NoConf EXCEPT !.kind = "create", !.owner = c]
    OBVIOUS
  <2>2. /\ call' = [call EXCEPT ![c] = k] /\ SetConf(b, f) /\ pinned' = pinned
    BY <1>6, <2>1 DEF Create
  <2>3. k.pc = "enroll" /\ k.addr = b /\ k.id = None /\ f \in Conf /\ f.id = None
        /\ f.owner = c
    BY <2>1, NoneFacts DEF NoCall, NoConf, Conf
  <2>4. call'[c] = k /\ \A e \in Callers \ {c} : call'[e] = call[e]
    BY <1>1, <2>2 DEF TypeOK
  <2>5. conn'[b] = None /\ conf'[b] = f /\ \A a \in Addrs \ {b} : conf'[a] = conf[a] /\ conn'[a] = conn[a]
    BY <1>1, <2>2, <2>3, SetConfFacts
  <2>6. ASSUME NEW e \in Callers  PROVE CallPinned(e)'
    BY <1>2, <2>2, <2>3, <2>4 DEF AllAgreed, CallPinned
  <2>7. ASSUME NEW a \in Addrs  PROVE Agreed(a)'
    <3>1. CASE a = b  BY <2>3, <2>4, <2>5, <3>1 DEF Agreed
    <3>2. CASE a # b /\ conf[a].kind = "create"
      <4>1. conf[a].owner \in Callers  BY <3>2 DEF Base, Left
      <4>2. Agreed(a)  BY DEF AllAgreed
      <4>3. conf'[a] = conf[a] /\ conn'[a] = conn[a]  BY <2>5, <3>2
      <4>4. CASE conf[a].owner = c  BY <2>3, <2>4, <3>2, <4>3, <4>4 DEF Agreed
      <4>5. CASE conf[a].owner # c  BY <2>4, <4>1, <4>2, <4>3, <4>5 DEF Agreed
      <4> QED  BY <4>4, <4>5
    <3>3. CASE a # b /\ conf[a].kind # "create"  BY <2>5, <3>3 DEF Agreed
    <3> QED  BY <3>1, <3>2, <3>3
  <2> QED  BY <2>6, <2>7 DEF AllAgreed
<1>7. ASSUME NEW c \in Callers, NEW b \in Addrs, ConnectCreate(c, b)  PROVE AllAgreed'
  <2>1. PICK w, key, i : w = conf[b].owner /\ key = daemonKey[b] /\ i = conf[b].id
    OBVIOUS
  <2>2. Left(b) /\ conf[b].kind = "create" /\ Agreed(b)
    BY <1>7 DEF Base, ConnectCreate, AllAgreed
  <2>3. /\ w \in Callers
        /\ \A e \in Callers \ {w} : call'[e] = call[e]
        /\ call'[w].pc = call[w].pc /\ call'[w].id = call[w].id
        /\ call'[w].addr = call[w].addr
        /\ call[w].addr = b => call'[w].fp = key
        /\ call[w].addr # b => call' = call
    BY <1>1, <1>7, <2>1, <2>2, ConnectCreateFacts
  <2>4. /\ conf' = conf /\ conn' = [conn EXCEPT ![b] = key]
        /\ \A j \in Sources : j # i => pinned'[j] = pinned[j]
        /\ i # None => pinned'[i] = key
        /\ i # None /\ ~KeptUntilInsert(b) /\ pinned[i] # key => i \in marks'["unkept"]
    <3>1. conf' = conf /\ conn' = [conn EXCEPT ![b] = key]
      BY <1>7, <2>1 DEF ConnectCreate
    <3> QED  BY <1>1, <1>7, <2>1, <3>1, CreateTrusts
  <2>5. call[w].addr = b => call[w].id = i  BY <2>1, <2>2 DEF Agreed
  <2>6. ASSUME NEW e \in Callers, call'[e].pc = "insert"  PROVE CallPinned(e)'
    <3>1. CallPinned(e)  BY DEF AllAgreed
    <3>2. PICK j : j = call[e].id  OBVIOUS
    <3>3. call[e].pc = "insert" /\ call'[e].id = j /\ j \in Sources /\ j # None
      <4>1. call[e].pc = "insert" /\ call'[e].id = j  BY <2>3, <2>6, <3>2
      <4> QED  BY <1>1, <3>2, <4>1, CallFacts, NoneFacts DEF Base, Stage
    <3>4. CASE e = w /\ call[w].addr = b
      <4>1. j = i /\ call'[e].fp = key  BY <2>3, <2>5, <3>2, <3>4
      <4>2. pinned'[j] = key  BY <2>4, <3>3, <4>1
      <4> QED  BY <3>3, <4>1, <4>2 DEF CallPinned
    <3>5. CASE ~(e = w /\ call[w].addr = b)
      <4>1. call'[e] = call[e]  BY <2>3, <3>5
      <4>2. CASE j # i
        <5>1. pinned'[j] = pinned[j]  BY <2>4, <3>3, <4>2
        <5> QED  BY <1>2, <3>1, <3>2, <3>3, <4>1, <5>1 DEF CallPinned
      <4>3. CASE j = i
        <5>1. call[w].addr # b
          <6>1. call[w].addr = b => call[w].id = call[e].id  BY <2>5, <3>2, <4>3
          <6>2. call[w].addr = b => e = w  BY <1>4, <2>3, <3>3, <6>1
          <6> QED  BY <3>5, <6>2
        <5>2. ~KeptUntilInsert(b)  BY <2>1, <5>1 DEF KeptUntilInsert
        <5>3. CASE pinned[j] # key
          <6>1. j \in marks'["unkept"]  BY <2>4, <3>3, <4>3, <5>2, <5>3
          <6> QED  BY <3>3, <6>1 DEF CallPinned
        <5>4. CASE pinned[j] = key
          <6>1. pinned'[j] = pinned[j]  BY <2>4, <3>3, <4>3, <5>4
          <6> QED  BY <1>2, <3>1, <3>2, <3>3, <4>1, <6>1 DEF CallPinned
        <5> QED  BY <5>3, <5>4
      <4> QED  BY <4>2, <4>3
    <3> QED  BY <3>4, <3>5
  <2>7. ASSUME NEW a \in Addrs, conf[a].kind = "create"  PROVE Agreed(a)'
    <3>1. conf[a].owner \in Callers /\ Agreed(a)  BY <2>7 DEF Base, Left, AllAgreed
    <3>2. PICK v : v = conf[a].owner  OBVIOUS
    <3>3. call'[v].id = call[v].id /\ call'[v].addr = call[v].addr
      BY <2>3, <3>1, <3>2
    <3>4. SUFFICES ASSUME call[v].addr = a
                   PROVE  conn'[a] # None => call'[v].fp = conn'[a]
      BY <2>4, <2>7, <3>1, <3>2, <3>3 DEF Agreed
    <3>5. CASE a = b
      <4>1. conn'[a] = key  BY <1>1, <2>4, <3>5 DEF TypeOK
      <4>2. v = w  BY <2>1, <3>2, <3>5
      <4> QED  BY <2>3, <3>4, <3>5, <4>1, <4>2
    <3>6. CASE a # b
      <4>1. conn'[a] = conn[a]  BY <1>1, <2>4, <3>6 DEF TypeOK
      <4>2. call'[v] = call[v]  BY <2>3, <3>1, <3>2, <3>4, <3>6
      <4> QED  BY <2>7, <3>1, <3>2, <3>4, <4>1, <4>2 DEF Agreed
    <3> QED  BY <3>5, <3>6
  <2>8. ASSUME NEW a \in Addrs, conf[a].kind # "create"  PROVE Agreed(a)'
    BY <2>4, <2>8 DEF Agreed
  <2>9. \A e \in Callers : CallPinned(e)'  BY <2>6 DEF CallPinned
  <2> QED  BY <2>7, <2>8, <2>9 DEF AllAgreed
<1>8. ASSUME NEW c \in Callers, NEW i \in Sources, Enroll(c, i)  PROVE AllAgreed'
  <2>1. PICK a0 : a0 = call[c].addr  OBVIOUS
  <2>2. /\ a0 \in Addrs /\ conn[a0] # None /\ member[i] = NoMember
        /\ call'[c].id = i /\ call'[c].addr = a0 /\ call'[c].fp = call[c].fp
        /\ \A e \in Callers \ {c} : call'[e] = call[e]
        /\ \A a \in Addrs :
             /\ conf'[a].kind = conf[a].kind /\ conf'[a].owner = conf[a].owner
             /\ conf'[a].id = IF a = a0 /\ conf[a].kind = "create" /\ conf[a].owner = c
                              THEN i ELSE conf[a].id
    BY <1>8, <2>1, EnrollFacts
  <2>3. /\ conn' = conn
        /\ pinned' = [pinned EXCEPT ![i] = conn[a0]]
        /\ marks' = Mark("crossed", i, ~(conf[a0].kind = "create" /\ conf[a0].owner = c))
    BY <1>8, <2>1 DEF Enroll
  <2>4. ASSUME NEW e \in Callers  PROVE CallPinned(e)'
    <3>1. CASE e = c
      <4>1. CASE conf[a0].kind = "create" /\ conf[a0].owner = c
        <5>1. Agreed(a0)  BY <2>2 DEF AllAgreed
        <5>2. call[c].fp = conn[a0]  BY <2>1, <2>2, <4>1, <5>1 DEF Agreed
        <5>3. pinned'[i] = conn[a0]  BY <1>1, <2>3 DEF TypeOK
        <5> QED  BY <2>2, <3>1, <5>2, <5>3 DEF CallPinned
      <4>2. CASE ~(conf[a0].kind = "create" /\ conf[a0].owner = c)
        <5>1. i \in marks'["crossed"]  BY <1>1, <2>3, <4>2, MarkFacts DEF Marks
        <5> QED  BY <2>2, <3>1, <5>1 DEF CallPinned
      <4> QED  BY <4>1, <4>2
    <3>2. CASE e # c
      <4>1. call'[e] = call[e] /\ call[e].id # i  BY <2>2, <3>2 DEF Base, Known
      <4>2. pinned'[call[e].id] = pinned[call[e].id]  BY <1>1, <2>3, <4>1 DEF TypeOK
      <4>3. CallPinned(e)  BY DEF AllAgreed
      <4> QED  BY <1>2, <4>1, <4>2, <4>3 DEF CallPinned
    <3> QED  BY <3>1, <3>2
  <2>5. ASSUME NEW a \in Addrs, conf[a].kind = "create"  PROVE Agreed(a)'
    <3>1. conf[a].owner \in Callers /\ Agreed(a)  BY <2>5 DEF Base, Left, AllAgreed
    <3>2. PICK v : v = conf[a].owner  OBVIOUS
    <3>3. call'[v].addr = call[v].addr /\ call'[v].fp = call[v].fp
      BY <2>1, <2>2, <3>1, <3>2
    <3>4. SUFFICES ASSUME call[v].addr = a  PROVE conf'[a].id = call'[v].id
      BY <2>2, <2>3, <2>5, <3>1, <3>2, <3>3 DEF Agreed
    <3>5. CASE v = c
      <4>1. a = a0  BY <2>1, <3>4, <3>5
      <4> QED  BY <2>2, <2>5, <3>2, <3>5, <4>1
    <3>6. CASE v # c
      <4>1. conf'[a].id = conf[a].id /\ call'[v] = call[v]
        BY <2>2, <3>1, <3>2, <3>6
      <4> QED  BY <2>5, <3>1, <3>2, <3>4, <4>1 DEF Agreed
    <3> QED  BY <3>5, <3>6
  <2>6. ASSUME NEW a \in Addrs, conf[a].kind # "create"  PROVE Agreed(a)'
    BY <2>2, <2>6 DEF Agreed
  <2> QED  BY <2>4, <2>5, <2>6 DEF AllAgreed
<1> QED  BY <1>5, <1>6, <1>7, <1>8 DEF Enrolling

\* The fingerprint in a record is the one that the last enrolment of its source, reset,
\* or trust by a function left for it had (223, 238-247, 405-418): Update, Save and
\* Create write that one back (264, 370, 393, 416, 607), except in the four cases that
\* PinKept names and the code does not rule out: a copy that is behind, a failed call,
\* two calls configuring one daemon, and the function of Create after its Insert.
THEOREM FingerprintsKept == Spec => []PinKept
<1>1. Init => AllPinned /\ AllAgreed
  <2>1. ASSUME Init  PROVE AllPinned /\ AllAgreed
    <3>1. \A c \in Callers : call[c].pc # "insert"  BY <2>1 DEF Init, NoCall
    <3>2. Held = {} /\ \A h \in Holders : copy[h] = NoCopy  BY <2>1 DEF Init, Held
    <3>3. \A a \in Addrs : conf[a].kind # "create"  BY <2>1 DEF Init, NoConf
    <3> QED  BY <3>1, <3>2, <3>3 DEF AllPinned, PinKept, AllAgreed, CallPinned, Agreed
  <2> QED  BY <2>1
<1>2. Base /\ AllPinned /\ AllAgreed /\ [Next]_vars => AllPinned' /\ AllAgreed'
  BY PinnedStep, AgreedStep
<1>3. AllPinned => PinKept  BY DEF AllPinned
<1> QED  BY <1>1, <1>2, <1>3, BaseAlways, PTL DEF Spec

================================================================================
