--------------------------- MODULE RecordSyncProofs ---------------------------
(***************************************************************************)
(* Proofs about RecordSync, for any number of devices, calls and vaults.    *)
(***************************************************************************)
EXTENDS RecordSync, ChangeLogProofs

--------------------------------------------------------------------------------
(* The shape of the state *)

LEMMA SetCall ==
  ASSUME call \in [Devices -> [Slots -> Call]],
         NEW d \in Devices, NEW s \in Slots, NEW c \in Call, Set(d, s, c)
  PROVE  /\ call' \in [Devices -> [Slots -> Call]]
         /\ call'[d][s] = c
         /\ \A e \in Devices, t \in Slots :
              <<e, t>> # <<d, s>> => call'[e][t] = call[e][t]
BY DEF Set

LEMMA NoCallType == EmptyLog \in Log /\ NoCall \in Call /\ NoCall.pc = "idle"
<1>1. EmptyLog \in Log  BY DEF EmptyLog, Log
<1> QED  BY <1>1 DEF NoCall, Call, Pcs, Syncing

LEMMA LogParts ==
  ASSUME NEW log, NEW c, NEW n
  PROVE  /\ After(log, c) \in SUBSET InLog(log)
         /\ FirstAfter(log, c, n) \in SUBSET InLog(log)
         /\ InLog(log) \in SUBSET Ids
BY DEF After, FirstAfter, InLog

\* What a call that is not one of SelectVault may become.
CallFits(r) ==
  /\ r \in Call
  /\ r.pc # "idle" => r.vault \in Vaults
  /\ r.pc \notin Selecting
  /\ r.pc \in Syncing \ {"cursor", "local"} => r.from \in Vaults

LEMMA KeepShape ==
  ASSUME ShapeInv, NEW d \in Devices, NEW s \in Slots, NEW r, CallFits(r),
         Set(d, s, r), UNCHANGED config
  PROVE  /\ call' \in [Devices -> [Slots -> Call]]
         /\ CallInv'
<1>1. /\ call' \in [Devices -> [Slots -> Call]]
      /\ call'[d][s] = r
      /\ \A e \in Devices, t \in Slots :
           <<e, t>> # <<d, s>> => call'[e][t] = call[e][t]
  BY SetCall DEF ShapeInv, TypeOK, CallFits
<1>2. ASSUME NEW e \in Devices, NEW t \in Slots
      PROVE  /\ call'[e][t].pc # "idle" => call'[e][t].vault \in Vaults
             /\ call'[e][t].pc \in Selecting => config[e] \in Vaults
             /\ call'[e][t].pc \in Syncing \ {"cursor", "local"} =>
                  call'[e][t].from \in Vaults
  <2>1. CASE <<e, t>> = <<d, s>>  BY <1>1, <2>1 DEF CallFits
  <2>2. CASE <<e, t>> # <<d, s>>  BY <1>1, <2>2 DEF ShapeInv, CallInv
  <2> QED  BY <2>1, <2>2
<1> QED  BY <1>1, <1>2 DEF CallInv

LEMMA ReturnFits ==
  ASSUME ShapeInv, NEW d \in Devices, NEW s \in Slots,
         NEW ret \in {"none", "ok", "err", "clean", "dirty"}, Return(d, s, ret)
  PROVE  \E r : CallFits(r) /\ r.pc = "idle" /\ Set(d, s, r)
<1> DEFINE e == IF ret = "ok" THEN call[d][s].edit ELSE None
           r == [NoCall EXCEPT !.ret = ret, !.edit = e]
<1>1. e \in Ids \cup {None} /\ Set(d, s, r)  BY DEF ShapeInv, TypeOK, Call, Return
<1> HIDE DEF e
<1>2. r \in Call /\ r.pc = "idle"  BY <1>1, NoCallType DEF NoCall, Call, Pcs, Syncing
<1>3. CallFits(r)  BY <1>2 DEF CallFits, Selecting, Syncing
<1> QED  BY <1>1, <1>2, <1>3

LEMMA BeginFits ==
  ASSUME ShapeInv, NEW d \in Devices, NEW s \in Slots, NEW kind \in {"sync", "check"},
         NEW edit \in Ids \cup {None}, chosen[d] # None, Begin(d, s, kind, edit)
  PROVE  \E r : /\ CallFits(r) /\ Set(d, s, r)
                /\ r.vault = chosen[d] /\ r.local = {} /\ r.remote = {}
<1> DEFINE r == [NoCall EXCEPT !.pc = "cursor", !.kind = kind, !.vault = chosen[d],
                               !.edit = edit]
<1>1. chosen[d] \in Vaults  BY DEF ShapeInv, TypeOK
<1>2. r \in Call  BY <1>1, NoCallType DEF NoCall, Call, Pcs, Syncing
<1>3. CallFits(r)  BY <1>1, <1>2 DEF CallFits, Selecting, Syncing, NoCall
<1>4. r.vault = chosen[d] /\ r.local = {} /\ r.remote = {}  BY <1>1 DEF NoCall
<1> QED  BY <1>3, <1>4 DEF Begin

\* The steps of a call that leave the selection alone.
PlainStep(d, s) ==
  \/ ReadCursor(d, s) \/ ReadLocal(d, s) \/ CountRemote(d, s) \/ FetchRemote(d, s)
  \/ Push(d, s) \/ PushRefused(d, s) \/ PushAnswerLost(d, s)
  \/ Merge(d, s) \/ Advance(d, s) \/ UnknownVault(d, s) \/ NotOpen(d, s) \/ Fail(d, s)

\* What such a step makes of its call: it goes on for the same vault, with changes
\* it had, of the open file, or of the daemon's file of that vault; or it ends.
Successor(d, c, r) ==
  r.pc \in Syncing =>
    /\ c.pc \in Syncing
    /\ r.vault = c.vault
    /\ r.local \subseteq c.local \cup InLog(replica[d][open[d]])
    /\ r.remote \subseteq c.remote \cup InLog(sotLog[c.vault])

LEMMA PlainFits ==
  ASSUME ShapeInv, NEW d \in Devices, NEW s \in Slots, PlainStep(d, s)
  PROVE  \E r : CallFits(r) /\ Set(d, s, r) /\ Successor(d, call[d][s], r)
<1> DEFINE c == call[d][s]
<1>0. /\ c \in Call
      /\ c.pc # "idle" => c.vault \in Vaults
      /\ open[d] # None => open[d] \in Vaults
      /\ c.pc \in Syncing \ {"cursor", "local"} => c.from \in Vaults
  BY DEF ShapeInv, TypeOK, CallInv
<1>1. CASE ReadCursor(d, s)
  <2> DEFINE r == [c EXCEPT !.pc = "local", !.start = cursor[d][open[d]]]
  <2>1. c.pc = "cursor" /\ open[d] \in Vaults  BY <1>0, <1>1 DEF ReadCursor, Syncing
  <2>2. cursor[d][open[d]] \in Ids \cup {None}  BY <2>1 DEF ShapeInv, TypeOK
  <2>3. r \in Call /\ r.pc = "local" /\ r.vault = c.vault
          /\ r.local = c.local /\ r.remote = c.remote
    BY <1>0, <2>2 DEF Call, Pcs, Syncing
  <2>4. CallFits(r) /\ Successor(d, c, r)
    BY <1>0, <2>1, <2>3 DEF CallFits, Successor, Selecting, Syncing
  <2> QED  BY <1>1, <2>4 DEF ReadCursor
<1>2. CASE ReadLocal(d, s)
  <2> DEFINE log == replica[d][open[d]]
             r == [c EXCEPT !.pc = "count", !.from = open[d],
                            !.local = After(log, c.start)]
  <2>1. c.pc = "local" /\ open[d] \in Vaults  BY <1>0, <1>2 DEF ReadLocal, Syncing
  <2>2. After(log, c.start) \in SUBSET InLog(log) /\ InLog(log) \in SUBSET Ids
    BY LogParts
  <2>3. r \in Call /\ r.pc = "count" /\ r.vault = c.vault /\ r.from = open[d]
          /\ r.local = After(log, c.start) /\ r.remote = c.remote
    BY <1>0, <2>1, <2>2 DEF Call, Pcs, Syncing
  <2>4. CallFits(r)  BY <1>0, <2>1, <2>3 DEF CallFits, Selecting, Syncing
  <2>5. Successor(d, c, r)  BY <2>1, <2>2, <2>3 DEF Successor, Syncing
  <2> QED  BY <1>2, <2>4, <2>5 DEF ReadLocal
<1>3. CASE CountRemote(d, s)
  <2> DEFINE n == Cardinality(After(sotLog[c.vault], c.start))
             r == [c EXCEPT !.count = n, !.pc = IF n = 0 THEN "push" ELSE "fetch"]
  <2>1. c.pc = "count"  BY <1>3 DEF CountRemote
  <2>2. CASE c.kind = "check"
    <3>1. \E ret \in {"none", "ok", "err", "clean", "dirty"} : Return(d, s, ret)
      BY <1>3, <2>2 DEF CountRemote
    <3> QED  BY <3>1, ReturnFits DEF Successor, Syncing
  <2>3. CASE c.kind # "check"
    <3>1. After(sotLog[c.vault], c.start) \in SUBSET Ids  BY LogParts
    <3>2. n \in Nat  BY <3>1, IdSets
    <3>3. r \in Call /\ r.pc \in {"push", "fetch"} /\ r.vault = c.vault
            /\ r.from = c.from /\ r.local = c.local /\ r.remote = c.remote
      BY ZenonT(60), <1>0, <3>2 DEF Call, Pcs, Syncing
    <3>4. CallFits(r) /\ Successor(d, c, r)
      BY <1>0, <2>1, <3>3 DEF CallFits, Successor, Selecting, Syncing
    <3> QED  BY <1>3, <2>3, <3>4 DEF CountRemote
  <2> QED  BY <2>2, <2>3
<1>4. CASE FetchRemote(d, s)
  <2> DEFINE log == sotLog[c.vault]
             r == [c EXCEPT !.pc = "push", !.remote = FirstAfter(log, c.start, c.count)]
  <2>1. c.pc = "fetch"  BY <1>4 DEF FetchRemote
  <2>2. FirstAfter(log, c.start, c.count) \in SUBSET InLog(log) /\ InLog(log) \in SUBSET Ids
    BY LogParts
  <2>3. r \in Call /\ r.pc = "push" /\ r.vault = c.vault /\ r.from = c.from
          /\ r.local = c.local /\ r.remote = FirstAfter(log, c.start, c.count)
    BY <1>0, <2>2 DEF Call, Pcs, Syncing
  <2>4. CallFits(r)  BY <1>0, <2>1, <2>3 DEF CallFits, Selecting, Syncing
  <2>5. Successor(d, c, r)  BY <2>1, <2>2, <2>3 DEF Successor, Syncing
  <2> QED  BY <1>4, <2>4, <2>5 DEF FetchRemote
<1>5. CASE Push(d, s) \/ Merge(d, s)
  <2>1. PICK pc \in {"merge", "advance"} : Set(d, s, [c EXCEPT !.pc = pc])
    BY <1>5 DEF Push, Merge
  <2> DEFINE r == [c EXCEPT !.pc = pc]
  <2>2. c.pc \in {"push", "merge"}  BY <1>5 DEF Push, Merge
  <2>3. r \in Call /\ r.pc = pc /\ r.vault = c.vault /\ r.from = c.from
          /\ r.local = c.local /\ r.remote = c.remote
    BY <1>0, <2>1 DEF Call, Pcs, Syncing
  <2>4. CallFits(r) /\ Successor(d, c, r)
    BY <1>0, <2>1, <2>2, <2>3 DEF CallFits, Successor, Selecting, Syncing
  <2> QED  BY <2>1, <2>4
<1>6. CASE \/ PushRefused(d, s) \/ PushAnswerLost(d, s) \/ Advance(d, s)
           \/ UnknownVault(d, s) \/ NotOpen(d, s) \/ Fail(d, s)
  <2>1. \E ret \in {"none", "ok", "err", "clean", "dirty"} : Return(d, s, ret)
    BY <1>6 DEF PushRefused, PushAnswerLost, Advance, UnknownVault, NotOpen, Fail
  <2> QED  BY <2>1, ReturnFits DEF Successor, Syncing
<1> QED  BY <1>1, <1>2, <1>3, <1>4, <1>5, <1>6 DEF PlainStep

\* The logs after a push and after a merge.
LEMMA ApplyLog ==
  ASSUME ShapeInv, NEW d \in Devices, NEW s \in Slots, call[d][s].pc = "push",
         Apply(d, call[d][s])
  PROVE  /\ sotLog' \in [Vaults -> Log]
         /\ \A v \in Vaults :
              InLog(sotLog'[v]) \subseteq
                InLog(sotLog[v])
                  \cup (IF v = call[d][s].vault THEN call[d][s].local ELSE {})
<1> DEFINE c == call[d][s]
           old == sotLog[c.vault]
           batch == c.local
           ord == replica[d][c.from]
           new == Extend(old, batch, ord)
<1>1. c \in Call /\ c.vault \in Vaults /\ c.from \in Vaults
  BY DEF ShapeInv, TypeOK, CallInv, Syncing
<1>2. old \in Log /\ ord \in Log /\ batch \in SUBSET Ids
  BY <1>1 DEF ShapeInv, TypeOK, Call
<1>3. new \in Log /\ InLog(new) = InLog(old) \cup batch
  <2> HIDE DEF old, ord, batch
  <2> QED  BY <1>2, ExtendInLog
<1>4. sotLog \in [Vaults -> Log]  BY DEF ShapeInv, TypeOK
<1>5. sotLog' = [sotLog EXCEPT ![c.vault] = new]  BY DEF Apply
<1> HIDE DEF new
<1>6. \A v \in Vaults : sotLog'[v] = IF v = c.vault THEN new ELSE sotLog[v]
  BY <1>4, <1>5
<1> QED  BY <1>3, <1>4, <1>5, <1>6

LEMMA MergedParts ==
  ASSUME NEW log \in Log, NEW ord \in Log, NEW S \in SUBSET Ids, NEW T \in SUBSET Ids
  PROVE  /\ Extend(log, T, ord) \in Log
         /\ InLog(Extend(log, T, ord)) = InLog(log) \cup T
         /\ Extend(Extend(Only(log, Ids \ S), T, ord), S, log) \in Log
         /\ InLog(Extend(Extend(Only(log, Ids \ S), T, ord), S, log))
              \subseteq InLog(log) \cup S \cup T
<1> DEFINE kept == Only(log, Ids \ S)
           mid == Extend(kept, T, ord)
           end == Extend(mid, S, log)
<1>1. kept \in Log /\ InLog(kept) \subseteq InLog(log)
  BY OnlyInLog
<1> HIDE DEF kept
<1>2. mid \in Log /\ InLog(mid) = InLog(kept) \cup T  BY <1>1, ExtendInLog
<1> HIDE DEF mid
<1>3. end \in Log /\ InLog(end) = InLog(mid) \cup S  BY ZenonT(60), <1>2, ExtendInLog
<1>4. end \in Log /\ InLog(end) \subseteq InLog(log) \cup S \cup T  BY <1>1, <1>2, <1>3
<1>5. Extend(log, T, ord) \in Log /\ InLog(Extend(log, T, ord)) = InLog(log) \cup T
  BY ExtendInLog
<1> QED  BY <1>4, <1>5 DEF kept, mid

LEMMA MergeLog ==
  ASSUME ShapeInv, NEW d \in Devices, NEW s \in Slots, Merge(d, s)
  PROVE  /\ replica' \in [Devices -> [Vaults -> Log]]
         /\ \A e \in Devices, v \in Vaults :
              InLog(replica'[e][v]) \subseteq
                InLog(replica[e][v])
                  \cup (IF e = d /\ v = open[d]
                        THEN call[d][s].local \cup call[d][s].remote ELSE {})
<1> DEFINE c == call[d][s]
           log == replica[d][open[d]]
           ord == sotLog[c.vault]
<1>0. c.pc = "merge"  BY DEF Merge
<1>1. c \in Call /\ c.vault \in Vaults /\ open[d] \in Vaults
  BY <1>0 DEF Merge, ShapeInv, TypeOK, CallInv
<1>2. log \in Log /\ ord \in Log  BY <1>1 DEF ShapeInv, TypeOK
<1>5. PICK new \in {Appended(log, c, ord), Rebased(log, c, ord)} :
        replica' = [replica EXCEPT ![d][open[d]] = new]
  BY DEF Merge
<1>6. new \in Log /\ InLog(new) \subseteq InLog(log) \cup c.local \cup c.remote
  <2> DEFINE S == c.local
             T == c.remote
  <2>1. S \in SUBSET Ids /\ T \in SUBSET Ids  BY <1>1 DEF Call
  <2>2. \/ new = Extend(log, T, ord)
        \/ new = Extend(Extend(Only(log, Ids \ S), T, ord), S, log)
    BY <1>5 DEF Appended, Rebased
  <2> HIDE DEF c, log, ord, S, T
  <2>3. /\ Extend(log, T, ord) \in Log
        /\ InLog(Extend(log, T, ord)) = InLog(log) \cup T
        /\ Extend(Extend(Only(log, Ids \ S), T, ord), S, log) \in Log
        /\ InLog(Extend(Extend(Only(log, Ids \ S), T, ord), S, log))
             \subseteq InLog(log) \cup S \cup T
    BY <1>2, <2>1, MergedParts
  <2>4. new \in Log /\ InLog(new) \subseteq InLog(log) \cup S \cup T
    BY <2>2, <2>3
  <2> QED  BY <2>4 DEF S, T
<1>7. replica \in [Devices -> [Vaults -> Log]]  BY DEF ShapeInv, TypeOK
<1>8. /\ replica' \in [Devices -> [Vaults -> Log]]
      /\ \A e \in Devices, v \in Vaults :
           replica'[e][v] = IF e = d /\ v = open[d] THEN new ELSE replica[e][v]
  BY <1>1, <1>5, <1>6, <1>7
<1> QED  BY <1>6, <1>8

\* The logs after an edit.
LEMMA EditLog ==
  ASSUME ShapeInv, NEW d \in Devices, NEW s \in Slots, NEW c \in Ids, NEW op \in Ops,
         NEW r \in Ids, Edit(d, s, c, op, r)
  PROVE  /\ open[d] \in Vaults /\ chosen[d] \in Vaults
         /\ replica' \in [Devices -> [Vaults -> Log]]
         /\ \A e \in Devices, v \in Vaults :
              InLog(replica'[e][v]) \subseteq
                InLog(replica[e][v]) \cup (IF e = d /\ v = open[d] THEN {c} ELSE {})
<1> DEFINE log == replica[d][open[d]]
           new == Extend(log, {c}, EmptyLog)
<1>1. open[d] \in Vaults /\ chosen[d] \in Vaults  BY DEF ShapeInv, TypeOK, Edit, Calls
<1>2. log \in Log /\ EmptyLog \in Log
  BY <1>1 DEF ShapeInv, TypeOK, EmptyLog, Log
<1>3. new \in Log /\ InLog(new) = InLog(log) \cup {c}
  <2> DEFINE S == {c}
             ord == EmptyLog
  <2>1. S \in SUBSET Ids /\ ord \in Log  BY <1>2
  <2> HIDE DEF log, S, ord
  <2>2. Extend(log, S, ord) \in Log /\ InLog(Extend(log, S, ord)) = InLog(log) \cup S
    BY <1>2, <2>1, ExtendInLog
  <2> QED  BY <2>2 DEF S, ord
<1>4. replica \in [Devices -> [Vaults -> Log]]  BY DEF ShapeInv, TypeOK
<1>5. replica' = [replica EXCEPT ![d][open[d]] = new]  BY DEF Edit
<1> HIDE DEF new
<1>6. /\ replica' \in [Devices -> [Vaults -> Log]]
      /\ \A e \in Devices, v \in Vaults :
           replica'[e][v] = IF e = d /\ v = open[d] THEN new ELSE replica[e][v]
  BY <1>1, <1>3, <1>4, <1>5
<1> QED  BY <1>1, <1>3, <1>6

LEMMA EditFits ==
  ASSUME ShapeInv, NEW d \in Devices, NEW s \in Slots, NEW c \in Ids, NEW op \in Ops,
         NEW r \in Ids, Edit(d, s, c, op, r)
  PROVE  \E q : /\ CallFits(q) /\ Set(d, s, q)
                /\ q.pc \in Syncing =>
                     q.vault = chosen[d] /\ q.local = {} /\ q.remote = {}
<1>1. CASE Mode[d] = "auto"
  <2>1. Begin(d, s, "sync", c) /\ chosen[d] # None  BY <1>1 DEF Edit, Calls
  <2> QED  BY <2>1, BeginFits
<1>2. CASE Mode[d] # "auto"
  <2> DEFINE q == [NoCall EXCEPT !.ret = "ok"]
  <2>1. q \in Call /\ q.pc = "idle"  BY NoCallType DEF NoCall, Call, Pcs, Syncing
  <2>2. Set(d, s, q)  BY <1>2 DEF Edit
  <2> QED  BY <2>1, <2>2 DEF CallFits, Selecting, Syncing
<1> QED  BY <1>1, <1>2

\* The three edits in one form.
EditStep(d, s) ==
  \E c \in Ids, op \in Ops, r \in Ids : Edit(d, s, c, op, r)

LEMMA EditForms ==
  ASSUME NEW d \in Devices, NEW s \in Slots, NEW c \in Ids,
         AppendRecord(d, s, c) \/ UpdateRecord(d, s, c) \/ DeleteRecord(d, s, c)
  PROVE  EditStep(d, s)
<1>1. \A log : Listed(log) \subseteq Ids  BY DEF Listed, InLog
<1> QED
  BY <1>1 DEF EditStep, AppendRecord, UpdateRecord, DeleteRecord, Ops

\* The steps of SelectVault, StoreBlob aside: they change the selection only.
SelectStep(d, s) ==
  \/ \E v \in Vaults : SelectVault(d, s, v) \/ SetConfigFails(d, s, v)
  \/ GetRecordBlob(d, s) \/ OpenVaultDbFile(d, s) \/ SetConfigAgain(d, s)
  \/ SelectFails(d, s) \/ SelectFault(d, s)

\* What such a step makes of its call and of the selection: it configures the local
\* store for w, leaves the file of o open, and p the vault the application takes it
\* to be, which is o when SelectVault is over without an error.
SelectTo(d, s, r, w, o, p) ==
  /\ r \in Call /\ r.pc \in {"idle"} \cup Selecting
  /\ w \in {config[d]} \cup Vaults /\ p \in Vaults \cup {None}
  /\ o \in {open[d], None} \cup files[d]
  /\ Set(d, s, r)
  /\ config' = [config EXCEPT ![d] = w]
  /\ open' = [open EXCEPT ![d] = o]
  /\ chosen' = [chosen EXCEPT ![d] = p]
  /\ failed' \in {failed, failed \cup {d}, failed \ {d}}
  /\ r.pc # "idle" => r.vault \in Vaults /\ w \in Vaults
  /\ r.pc = "idle" => d \in failed' \/ p = o
  /\ r.pc = "download" => w = r.vault /\ r.vault \notin files[d]
  /\ r.pc = "store" =>
       /\ call[d][s].pc = "download" /\ r.vault = call[d][s].vault /\ w = config[d]
       /\ r.vault \in sotFiles /\ r.blob = sotLog[r.vault]
  /\ r.edit \in {None, call[d][s].edit}

LEMMA AbandonFits ==
  ASSUME ShapeInv, NEW d \in Devices, NEW s \in Slots, NEW w \in {config[d]} \cup Vaults,
         NEW o \in {open[d], None} \cup files[d], Abandoned(d, s, w, o)
  PROVE  \E r, p : SelectTo(d, s, r, w, o, p)
<1> DEFINE r == [NoCall EXCEPT !.ret = "err"]
<1>1. r \in Call /\ r.pc = "idle" /\ r.edit = None
  BY NoCallType DEF NoCall, Call, Pcs, Syncing
<1>2. Set(d, s, r)  BY DEF Abandoned
<1> HIDE DEF r
<1>3. chosen' = [chosen EXCEPT ![d] = chosen[d]] /\ chosen[d] \in Vaults \cup {None}
  BY DEF Abandoned, ShapeInv, TypeOK
<1>4. SelectTo(d, s, r, w, o, chosen[d])
  BY <1>1, <1>2, <1>3 DEF SelectTo, Abandoned, Selecting
<1> QED  BY <1>4

LEMMA SelectedFits ==
  ASSUME ShapeInv, NEW d \in Devices, NEW s \in Slots, NEW v \in Vaults,
         v \in files[d], Selected(d, s, v)
  PROVE  \E r : SelectTo(d, s, r, v, v, v)
<1> DEFINE r == [NoCall EXCEPT !.ret = "ok"]
<1>1. r \in Call /\ r.pc = "idle" /\ r.edit = None
  BY NoCallType DEF NoCall, Call, Pcs, Syncing
<1>2. Set(d, s, r)  BY DEF Selected
<1> HIDE DEF r
<1>3. SelectTo(d, s, r, v, v, v)  BY <1>1, <1>2 DEF SelectTo, Selected, Selecting
<1> QED  BY <1>3

LEMMA SelectFits ==
  ASSUME ShapeInv, NEW d \in Devices, NEW s \in Slots, SelectStep(d, s)
  PROVE  \E r, w, o, p : SelectTo(d, s, r, w, o, p)
<1> DEFINE c == call[d][s]
<1>0. /\ c \in Call /\ config[d] \in Vaults \cup {None} /\ files[d] \subseteq Vaults
      /\ c.pc # "idle" => c.vault \in Vaults
      /\ c.pc \in Selecting => config[d] \in Vaults
      /\ config \in [Devices -> Vaults \cup {None}]
      /\ open \in [Devices -> Vaults \cup {None}]
      /\ chosen \in [Devices -> Vaults \cup {None}]
      /\ sotLog \in [Vaults -> Log]
  BY DEF ShapeInv, TypeOK, CallInv
<1>1. \A v : Left(d, v) \subseteq {open[d], None} \cup files[d]  BY DEF Left
<1>2. ASSUME NEW v \in Vaults, SelectVault(d, s, v)
      PROVE  \E r, w, o, p : SelectTo(d, s, r, w, o, p)
  <2>1. CASE v \in files[d]  BY <1>2, <2>1, SelectedFits DEF SelectVault
  <2>2. CASE v \notin files[d]
    <3> DEFINE r == [NoCall EXCEPT !.pc = "download", !.vault = v]
    <3>1. /\ r \in Call /\ r.pc = "download" /\ r.vault = v /\ r.edit = None
      BY NoCallType DEF NoCall, Call, Pcs, Selecting
    <3>2. /\ Set(d, s, r) /\ config' = [config EXCEPT ![d] = v]
          /\ UNCHANGED <<chosen, failed>>
      BY <1>2, <2>2 DEF SelectVault
    <3>3. PICK o \in {open[d], None} : open' = [open EXCEPT ![d] = o]
      BY <1>2, <2>2 DEF SelectVault
    <3> HIDE DEF r
    <3>4. chosen' = [chosen EXCEPT ![d] = chosen[d]] /\ chosen[d] \in Vaults \cup {None}
      BY <1>0, <3>2
    <3>5. SelectTo(d, s, r, v, o, chosen[d])
      BY <2>2, <3>1, <3>2, <3>3, <3>4 DEF SelectTo, Selecting
    <3> QED  BY <3>5
  <2> QED  BY <2>1, <2>2
<1>3. ASSUME NEW v \in Vaults, SetConfigFails(d, s, v)
      PROVE  \E r, w, o, p : SelectTo(d, s, r, w, o, p)
  <2>1. PICK w \in {config[d], v}, o \in Left(d, v) : Abandoned(d, s, w, o)
    BY <1>3 DEF SetConfigFails
  <2> QED  BY <1>0, <1>1, <2>1, AbandonFits
<1>4. ASSUME NEW r, r \in Call, r.pc \in {"store", "config"}, r.vault = c.vault,
             r.edit = c.edit, c.pc \in Selecting, Set(d, s, r),
             UNCHANGED <<config, chosen, failed>>,
             NEW o \in {open[d], None} \cup files[d], open' = [open EXCEPT ![d] = o],
             r.pc = "store" => /\ c.pc = "download" /\ r.vault \in sotFiles
                               /\ r.blob = sotLog[r.vault]
      PROVE  SelectTo(d, s, r, config[d], o, chosen[d])
  <2>1. /\ chosen' = [chosen EXCEPT ![d] = chosen[d]]
        /\ config' = [config EXCEPT ![d] = config[d]]
    BY <1>0, <1>4
  <2>2. chosen[d] \in Vaults \cup {None}  BY <1>0
  <2>3. r.vault \in Vaults /\ config[d] \in Vaults  BY <1>0, <1>4 DEF Selecting
  <2>4. r.pc \in Selecting /\ r.pc \notin {"idle", "download"}  BY <1>4 DEF Selecting
  <2> HIDE DEF c
  <2> QED  BY <1>4, <2>1, <2>2, <2>3, <2>4 DEF SelectTo, c
<1>5. CASE GetRecordBlob(d, s)
  <2> DEFINE r == [c EXCEPT !.pc = "store", !.blob = sotLog[c.vault]]
  <2>1. /\ c.pc = "download" /\ c.vault \in sotFiles /\ Set(d, s, r)
        /\ UNCHANGED <<config, open, chosen, failed>>
    BY <1>5 DEF GetRecordBlob, selection
  <2>2. sotLog[c.vault] \in Log /\ c.vault \in Vaults  BY <1>0, <2>1
  <2>3. /\ r \in Call /\ r.pc = "store" /\ r.vault = c.vault /\ r.edit = c.edit
        /\ r.blob = sotLog[c.vault]
    BY <1>0, <2>2 DEF Call, Pcs, Selecting
  <2> HIDE DEF r
  <2>4. open' = [open EXCEPT ![d] = open[d]]  BY <1>0, <2>1
  <2>5. SelectTo(d, s, r, config[d], open[d], chosen[d])
    BY <1>4, <2>1, <2>3, <2>4 DEF Selecting
  <2> QED  BY <2>5
<1>6. CASE OpenVaultDbFile(d, s)
  <2> DEFINE r == [c EXCEPT !.pc = "config"]
  <2>1. /\ c.pc = "open" /\ config[d] \in files[d] /\ Set(d, s, r)
        /\ open' = [open EXCEPT ![d] = config[d]]
        /\ UNCHANGED <<config, chosen, failed>>
    BY <1>6 DEF OpenVaultDbFile
  <2>2. r \in Call /\ r.pc = "config" /\ r.vault = c.vault /\ r.edit = c.edit
    BY <1>0 DEF Call, Pcs, Selecting
  <2> HIDE DEF r
  <2>3. SelectTo(d, s, r, config[d], config[d], chosen[d])
    BY <1>4, <2>1, <2>2 DEF Selecting
  <2> QED  BY <2>3
<1>7. CASE SetConfigAgain(d, s)
  BY <1>0, <1>7, SelectedFits DEF SetConfigAgain
<1>8. CASE SelectFails(d, s) \/ SelectFault(d, s)
  <2>1. c.pc \in Selecting  BY <1>8 DEF SelectFails, SelectFault, Selecting
  <2>2. PICK w \in {config[d], c.vault}, o \in {open[d], None} \cup files[d] :
          Abandoned(d, s, w, o)
    <3>1. CASE SelectFails(d, s)  BY <3>1 DEF SelectFails
    <3>2. CASE SelectFault(d, s)  BY <1>1, <3>2 DEF SelectFault
    <3> QED  BY <1>8, <3>1, <3>2
  <2>3. w \in {config[d]} \cup Vaults  BY <1>0, <2>1, <2>2 DEF Selecting
  <2> QED  BY <2>2, <2>3, AbandonFits
<1> QED  BY <1>2, <1>3, <1>5, <1>6, <1>7, <1>8 DEF SelectStep

\* What it leaves alone, and when the call may run beside others of its device.
LEMMA SelectMarks ==
  ASSUME NEW d \in Devices, NEW s \in Slots, SelectStep(d, s)
  PROVE  /\ UNCHANGED <<made, shared, stored, misled>>
         /\ call[d][s].pc \in {"idle"} \cup Selecting
         /\ \/ switched' = switched \cup {d}
            \/ /\ switched' = switched
               /\ call[d][s].pc = "idle" => ~Overlaps(d, s, Selecting \cup Syncing)
<1>1. ASSUME NEW v, SelectVault(d, s, v) \/ SetConfigFails(d, s, v)
      PROVE  /\ UNCHANGED <<made, shared, stored, misled>> /\ call[d][s].pc = "idle"
             /\ Mark(switched, d, Overlaps(d, s, Selecting \cup Syncing))
  BY <1>1 DEF SelectVault, SetConfigFails
<1>2. CASE \/ GetRecordBlob(d, s) \/ OpenVaultDbFile(d, s) \/ SetConfigAgain(d, s)
           \/ SelectFails(d, s) \/ SelectFault(d, s)
  <2>1. UNCHANGED <<made, shared, stored, marks>>
    BY <1>2 DEF GetRecordBlob, OpenVaultDbFile, SetConfigAgain, SelectFails, SelectFault
  <2>2. call[d][s].pc \in Selecting
    BY <1>2 DEF GetRecordBlob, OpenVaultDbFile, SetConfigAgain, SelectFails, SelectFault,
                Selecting
  <2> QED  BY <2>1, <2>2 DEF marks, Selecting
<1> QED  BY <1>1, <1>2 DEF SelectStep, Mark

\* StoreBlob writes the file the local store is configured for, and its cursor, and
\* SelectVault goes on.
CursorTo(d, s, cur) ==
  /\ cur \in InLog(call[d][s].blob) \cup {None}
  /\ cursor' \in [Devices -> [Vaults -> Ids \cup {None}]]
  /\ \A e \in Devices, v \in Vaults :
       cursor'[e][v] = IF e = d /\ v = config[d] THEN cur ELSE cursor[e][v]
StoreTo(d, s, r) ==
  /\ r \in Call /\ Set(d, s, r) /\ r.pc = "open"
  /\ r.edit = call[d][s].edit /\ r.vault = call[d][s].vault

LEMMA StoreFits ==
  ASSUME ShapeInv, NEW d \in Devices, NEW s \in Slots, StoreBlob(d, s)
  PROVE  /\ call[d][s].pc = "store" /\ config[d] \in Vaults /\ call[d][s].vault \in Vaults
         /\ UNCHANGED <<made, shared, selection, marks>>
         /\ files' \in [Devices -> SUBSET Vaults]
         /\ replica' \in [Devices -> [Vaults -> Log]]
         /\ \A e \in Devices :
              files'[e] = IF e = d THEN files[e] \cup {config[d]} ELSE files[e]
         /\ \A e \in Devices, v \in Vaults :
              replica'[e][v] = IF e = d /\ v = config[d] THEN call[d][s].blob
                               ELSE replica[e][v]
         /\ \E cur : CursorTo(d, s, cur)
         /\ \E r : StoreTo(d, s, r)
<1> DEFINE c == call[d][s]
           v == config[d]
           blob == c.blob
           r == [c EXCEPT !.pc = "open", !.blob = EmptyLog]
<1>1. /\ c.pc = "store" /\ UNCHANGED <<made, shared, selection, marks>>
      /\ files' = [files EXCEPT ![d] = @ \cup {v}]
      /\ replica' = [replica EXCEPT ![d][v] = blob]
      /\ Set(d, s, r)
  BY DEF StoreBlob
<1>2. PICK cur \in InLog(blob) \cup {None} : cursor' = [cursor EXCEPT ![d][v] = cur]
  BY DEF StoreBlob
<1>3. /\ c \in Call /\ c.vault \in Vaults /\ v \in Vaults
      /\ files \in [Devices -> SUBSET Vaults]
      /\ replica \in [Devices -> [Vaults -> Log]]
      /\ cursor \in [Devices -> [Vaults -> Ids \cup {None}]]
  BY <1>1 DEF ShapeInv, TypeOK, CallInv, Selecting
<1>4. blob \in Log  BY <1>3 DEF Call
<1>5. r \in Call /\ r.pc = "open" /\ r.edit = c.edit /\ r.vault = c.vault
  BY <1>3, NoCallType DEF Call, Pcs, Selecting
<1>6. cur \in Ids \cup {None}  BY <1>2 DEF InLog
<1> HIDE DEF r, blob, v
<1>7. /\ files' \in [Devices -> SUBSET Vaults]
      /\ \A e \in Devices : files'[e] = IF e = d THEN files[e] \cup {v} ELSE files[e]
  BY <1>1, <1>3
<1>8. /\ replica' \in [Devices -> [Vaults -> Log]]
      /\ \A e \in Devices, w \in Vaults :
           replica'[e][w] = IF e = d /\ w = v THEN blob ELSE replica[e][w]
  BY <1>1, <1>3, <1>4
<1>9. /\ cursor' \in [Devices -> [Vaults -> Ids \cup {None}]]
      /\ \A e \in Devices, w \in Vaults :
           cursor'[e][w] = IF e = d /\ w = v THEN cur ELSE cursor[e][w]
  BY <1>2, <1>3, <1>6
<1>10. CursorTo(d, s, cur)  BY <1>2, <1>9 DEF CursorTo, v, blob
<1>11. StoreTo(d, s, r)  BY <1>1, <1>5 DEF StoreTo
<1> QED  BY <1>1, <1>3, <1>7, <1>8, <1>10, <1>11 DEF v, blob

\* The steps of a call in three forms.
LEMMA CallForms ==
  ASSUME NEW d, NEW s,
         CallStep(d, s) \/ FaultStep(d, s) \/ \E v \in Vaults : SelectVault(d, s, v)
  PROVE  PlainStep(d, s) \/ SelectStep(d, s) \/ StoreBlob(d, s)
BY DEF CallStep, FaultStep, PlainStep, SelectStep

LEMMA ShapeInit == Init => ShapeInv
<1> SUFFICES ASSUME Init  PROVE ShapeInv
  OBVIOUS
<1>1. EmptyLog \in Log  BY DEF EmptyLog, Log
<1>2. TypeOK  BY <1>1, NoCallType DEF Init, TypeOK
<1>3. CallInv  BY NoCallType DEF Init, CallInv, Selecting, Syncing
<1> QED  BY <1>2, <1>3 DEF ShapeInv, Init

LEMMA ShapeStep == ShapeInv /\ [Next]_vars => ShapeInv'
<1> SUFFICES ASSUME ShapeInv, [Next]_vars  PROVE ShapeInv'
  OBVIOUS
<1> USE DEF shared, stored, selection, marks
<1>1. CASE UNCHANGED vars
  BY <1>1 DEF vars, ShapeInv, TypeOK, CallInv
<1>2. ASSUME NEW d \in Devices, NEW s \in Slots, PlainStep(d, s)  PROVE ShapeInv'
  <2>1. PICK r : CallFits(r) /\ Set(d, s, r)  BY <1>2, PlainFits
  <2>2. UNCHANGED <<made, sotFiles, unposted, files, selection, marks>>
    BY <1>2 DEF PlainStep, ReadCursor, ReadLocal, CountRemote, FetchRemote, Push,
                PushRefused, PushAnswerLost, Merge, Advance, UnknownVault, NotOpen, Fail
  <2>3. call' \in [Devices -> [Slots -> Call]] /\ CallInv'
    BY <2>1, <2>2, KeepShape
  <2>4. sotLog' \in [Vaults -> Log]
    <3>1. CASE Push(d, s) \/ PushAnswerLost(d, s)
      <4>1. call[d][s].pc = "push" /\ Apply(d, call[d][s])
        BY <3>1 DEF Push, PushAnswerLost
      <4> QED  BY <4>1, ApplyLog
    <3>2. CASE ~(Push(d, s) \/ PushAnswerLost(d, s))
      <4>1. sotLog' = sotLog
        BY <1>2, <3>2 DEF PlainStep, ReadCursor, ReadLocal, CountRemote, FetchRemote,
                          PushRefused, Merge, Advance, UnknownVault, NotOpen, Fail
      <4> QED  BY <4>1 DEF ShapeInv, TypeOK
    <3> QED  BY <3>1, <3>2
  <2>5. replica' \in [Devices -> [Vaults -> Log]]
    <3>1. CASE Merge(d, s)  BY <3>1, MergeLog
    <3>2. CASE ~Merge(d, s)
      <4>1. replica' = replica
        BY <1>2, <3>2 DEF PlainStep, ReadCursor, ReadLocal, CountRemote, FetchRemote,
                          Push, PushRefused, PushAnswerLost, Advance,
                          UnknownVault, NotOpen, Fail
      <4> QED  BY <4>1 DEF ShapeInv, TypeOK
    <3> QED  BY <3>1, <3>2
  <2>6. cursor' \in [Devices -> [Vaults -> Ids \cup {None}]]
    <3>1. CASE Advance(d, s)
      <4>1. PICK last \in Ids \cup {None} :
              \/ cursor' = cursor
              \/ cursor' = [cursor EXCEPT ![d][open[d]] = last]
        BY <3>1 DEF Advance, InLog
      <4>2. cursor \in [Devices -> [Vaults -> Ids \cup {None}]]  BY DEF ShapeInv, TypeOK
      <4> QED  BY <4>1, <4>2
    <3>2. CASE ~Advance(d, s)
      <4>1. cursor' = cursor
        BY <1>2, <3>2 DEF PlainStep, ReadCursor, ReadLocal, CountRemote, FetchRemote,
                          Push, PushRefused, PushAnswerLost, Merge,
                          UnknownVault, NotOpen, Fail
      <4> QED  BY <4>1 DEF ShapeInv, TypeOK
    <3> QED  BY <3>1, <3>2
  <2> QED  BY <2>2, <2>3, <2>4, <2>5, <2>6 DEF ShapeInv, TypeOK
<1>3. ASSUME NEW d \in Devices, NEW s \in Slots, EditStep(d, s)  PROVE ShapeInv'
  <2>1. PICK c \in Ids, op \in Ops, r \in Ids : Edit(d, s, c, op, r)
    BY <1>3 DEF EditStep
  <2>2. PICK q : CallFits(q) /\ Set(d, s, q)  BY <2>1, EditFits
  <2>3. /\ UNCHANGED <<sotLog, sotFiles, unposted, files, cursor, selection>>
        /\ switched' \subseteq Devices /\ misled' \subseteq Devices
    BY <2>1 DEF Edit, Calls, Mark, ShapeInv, TypeOK
  <2>4. call' \in [Devices -> [Slots -> Call]] /\ CallInv'
    BY <2>2, <2>3, KeepShape
  <2>5. open[d] \in Vaults /\ chosen[d] \in Vaults
          /\ replica' \in [Devices -> [Vaults -> Log]]
    BY <2>1, EditLog
  <2>6. made' \in [Ids -> Change \cup {NoChange}]
    BY <2>1, <2>5 DEF Edit, Change, ShapeInv, TypeOK
  <2> QED  BY <2>3, <2>4, <2>5, <2>6 DEF ShapeInv, TypeOK
<1>4. ASSUME NEW d \in Devices, NEW s \in Slots, StartSync(d, s) \/ ListRecord(d, s)
      PROVE  ShapeInv'
  <2>1. \E kind \in {"sync", "check"} : chosen[d] # None /\ Begin(d, s, kind, None)
    BY <1>4 DEF StartSync, ListRecord, Calls
  <2>2. PICK r : CallFits(r) /\ Set(d, s, r)  BY <2>1, BeginFits
  <2>3. /\ UNCHANGED <<made, sotLog, sotFiles, unposted, stored, selection>>
        /\ switched' \subseteq Devices /\ misled' \subseteq Devices
    BY <1>4 DEF StartSync, ListRecord, Calls, Mark, ShapeInv, TypeOK
  <2>4. call' \in [Devices -> [Slots -> Call]] /\ CallInv'
    BY <2>2, <2>3, KeepShape
  <2> QED  BY <2>3, <2>4 DEF ShapeInv, TypeOK
<1>5. ASSUME NEW d \in Devices, NEW s \in Slots, SelectStep(d, s)  PROVE ShapeInv'
  <2>1. PICK r, w, o, p : SelectTo(d, s, r, w, o, p)  BY <1>5, SelectFits
  <2>2. UNCHANGED <<made, sotLog, sotFiles, unposted, stored, misled>>
    BY <1>5, SelectMarks
  <2>3. switched' \subseteq Devices  BY <1>5, SelectMarks DEF ShapeInv, TypeOK
  <2>4. w \in Vaults \cup {None} /\ o \in Vaults \cup {None} /\ p \in Vaults \cup {None}
    BY <2>1 DEF SelectTo, ShapeInv, TypeOK
  <2>5. /\ config' \in [Devices -> Vaults \cup {None}]
        /\ open' \in [Devices -> Vaults \cup {None}]
        /\ chosen' \in [Devices -> Vaults \cup {None}]
        /\ failed' \subseteq Devices
        /\ config'[d] = w /\ \A e \in Devices : e # d => config'[e] = config[e]
    BY <2>1, <2>4 DEF SelectTo, ShapeInv, TypeOK
  <2>6. /\ call' \in [Devices -> [Slots -> Call]]
        /\ call'[d][s] = r
        /\ \A e \in Devices, t \in Slots :
             <<e, t>> # <<d, s>> => call'[e][t] = call[e][t]
    BY <2>1, SetCall DEF ShapeInv, TypeOK, SelectTo
  <2>7. ASSUME NEW e \in Devices, NEW t \in Slots
        PROVE  /\ call'[e][t].pc # "idle" => call'[e][t].vault \in Vaults
               /\ call'[e][t].pc \in Selecting => config'[e] \in Vaults
               /\ call'[e][t].pc \in Syncing \ {"cursor", "local"} =>
                    call'[e][t].from \in Vaults
    <3>1. CASE <<e, t>> = <<d, s>>
      BY <2>1, <2>5, <2>6, <3>1 DEF SelectTo, Selecting, Syncing
    <3>2. CASE <<e, t>> # <<d, s>>
      <4>1. call[e][t].pc \in Selecting => config'[e] \in Vaults
        BY <2>1, <2>5 DEF SelectTo, ShapeInv, CallInv
      <4> QED  BY <2>6, <3>2, <4>1 DEF ShapeInv, CallInv
    <3> QED  BY <3>1, <3>2
  <2>8. CallInv'  BY <2>7 DEF CallInv
  <2> QED  BY <2>2, <2>3, <2>5, <2>6, <2>8 DEF ShapeInv, TypeOK
<1>6. ASSUME NEW d \in Devices, NEW s \in Slots, StoreBlob(d, s)  PROVE ShapeInv'
  <2>1. PICK r \in Call :
          Set(d, s, r) /\ r.pc = "open" /\ r.vault = call[d][s].vault
    BY <1>6, StoreFits DEF StoreTo
  <2>2. /\ call[d][s].vault \in Vaults /\ config[d] \in Vaults
        /\ UNCHANGED <<made, shared, selection, marks>>
        /\ files' \in [Devices -> SUBSET Vaults]
        /\ replica' \in [Devices -> [Vaults -> Log]]
        /\ cursor' \in [Devices -> [Vaults -> Ids \cup {None}]]
    BY <1>6, StoreFits DEF CursorTo
  <2>3. /\ call' \in [Devices -> [Slots -> Call]]
        /\ call'[d][s] = r
        /\ \A e \in Devices, t \in Slots :
             <<e, t>> # <<d, s>> => call'[e][t] = call[e][t]
    BY <2>1, SetCall DEF ShapeInv, TypeOK
  <2>4. ASSUME NEW e \in Devices, NEW t \in Slots
        PROVE  /\ call'[e][t].pc # "idle" => call'[e][t].vault \in Vaults
               /\ call'[e][t].pc \in Selecting => config'[e] \in Vaults
               /\ call'[e][t].pc \in Syncing \ {"cursor", "local"} =>
                    call'[e][t].from \in Vaults
    <3>1. CASE <<e, t>> = <<d, s>>
      BY <2>1, <2>2, <2>3, <3>1 DEF Selecting, Syncing
    <3>2. CASE <<e, t>> # <<d, s>>  BY <2>2, <2>3, <3>2 DEF ShapeInv, CallInv
    <3> QED  BY <3>1, <3>2
  <2>5. CallInv'  BY <2>4 DEF CallInv
  <2> QED  BY <2>2, <2>3, <2>5 DEF ShapeInv, TypeOK
<1>7. ASSUME NEW d \in Devices, Crash(d)  PROVE ShapeInv'
  <2>1. call' = [call EXCEPT ![d] = [s \in Slots |-> NoCall]]  BY <1>7 DEF Crash
  <2>2. call \in [Devices -> [Slots -> Call]]  BY DEF ShapeInv, TypeOK
  <2>3. /\ call' \in [Devices -> [Slots -> Call]]
        /\ \A s \in Slots : call'[d][s].pc = "idle"
        /\ \A e \in Devices : e # d => call'[e] = call[e]
    BY <2>1, <2>2, NoCallType
  <2>4. /\ config' \in [Devices -> Vaults \cup {None}]
        /\ open' \in [Devices -> Vaults \cup {None}]
        /\ chosen' \in [Devices -> Vaults \cup {None}]
        /\ failed' \subseteq Devices
        /\ \A e \in Devices : e # d => config'[e] = config[e]
    BY <1>7 DEF Crash, ShapeInv, TypeOK
  <2>5. CallInv'  BY <2>3, <2>4 DEF ShapeInv, CallInv, Selecting, Syncing
  <2>6. UNCHANGED <<made, sotLog, sotFiles, unposted, stored, marks>>
    BY <1>7 DEF Crash
  <2> QED  BY <2>3, <2>4, <2>5, <2>6 DEF ShapeInv, TypeOK
<1>8. ASSUME NEW d \in Devices, NEW v \in Vaults, NEW lost \in BOOLEAN,
             PostBlob(d, v, lost)
      PROVE  ShapeInv'
  <2>1. sotLog' = sotLog \/ sotLog' = [sotLog EXCEPT ![v] = replica[d][v]]
    BY <1>8 DEF PostBlob
  <2>2. sotLog' \in [Vaults -> Log]
    <3>1. sotLog \in [Vaults -> Log] /\ replica[d][v] \in Log  BY DEF ShapeInv, TypeOK
    <3> QED  BY <2>1, <3>1
  <2>3. sotFiles' \subseteq Vaults /\ unposted' \subseteq Vaults
    BY <1>8 DEF PostBlob, ShapeInv, TypeOK
  <2>4. UNCHANGED <<made, stored, selection, call, marks>>  BY <1>8 DEF PostBlob
  <2> QED  BY <2>2, <2>3, <2>4 DEF ShapeInv, TypeOK, CallInv
<1> QED
  BY <1>1, <1>2, <1>3, <1>4, <1>5, <1>6, <1>7, <1>8, CallForms, EditForms DEF Next

\* In every reachable state every call knows its vault and from which file it read,
\* whatever calls overlap and whatever fails.
THEOREM ShapeInvariant == Spec => []ShapeInv
<1> QED  BY ShapeInit, ShapeStep, PTL DEF Spec

\* Every reachable state has the shape TypeOK gives it.
THEOREM TypeCorrect == Spec => []TypeOK
<1>1. ShapeInv => TypeOK  BY DEF ShapeInv
<1> QED  BY <1>1, ShapeInvariant, PTL

--------------------------------------------------------------------------------
(* Records stay in their vault *)

\* Changes that are in use keep what they are.
LEMMA KeepWithin ==
  ASSUME UNCHANGED made, NEW S, NEW T, NEW v, Within(S, v), T \subseteq S
  PROVE  \A x \in T : made'[x] \in Change /\ made'[x].vault = v
BY DEF Within

\* A mark that is still to come does not excuse the steps before it.
LEMMA MarksGrow == [Next]_vars => switched \subseteq switched' /\ misled \subseteq misled'
<1> SUFFICES ASSUME [Next]_vars
             PROVE  switched \subseteq switched' /\ misled \subseteq misled'
  OBVIOUS
<1> USE DEF selection, marks
<1>1. CASE UNCHANGED vars  BY <1>1 DEF vars
<1>2. ASSUME NEW d \in Devices, NEW s \in Slots, SelectStep(d, s)
      PROVE  switched \subseteq switched' /\ misled \subseteq misled'
  BY <1>2, SelectMarks
<1>3. ASSUME NEW d \in Devices, NEW s \in Slots,
             EditStep(d, s) \/ StartSync(d, s) \/ ListRecord(d, s)
      PROVE  switched \subseteq switched' /\ misled \subseteq misled'
  BY <1>3 DEF EditStep, Edit, StartSync, ListRecord, Calls, Mark
<1>4. ASSUME NEW d \in Devices, NEW s \in Slots, PlainStep(d, s) \/ StoreBlob(d, s)
      PROVE  UNCHANGED marks
  BY <1>4 DEF PlainStep, StoreBlob, ReadCursor, ReadLocal, CountRemote, FetchRemote,
              Push, PushRefused, PushAnswerLost, Merge, Advance, UnknownVault, NotOpen, Fail
<1>5. ASSUME NEW d \in Devices,
             Crash(d) \/ \E v \in Vaults, lost \in BOOLEAN : PostBlob(d, v, lost)
      PROVE  UNCHANGED marks
  BY <1>5 DEF Crash, PostBlob
<1> QED  BY <1>1, <1>2, <1>3, <1>4, <1>5, CallForms, EditForms DEF Next

\* Calls beside which no SelectVault runs, and whose vault is the one that is open.
Alone == \A d \in Devices : SelectsAlone(d) /\ OpenAsChosen(d)
AllWithin ==
  LogsWithin /\ \A d \in Devices, s \in Slots : CallWithin(d, call[d][s])

LEMMA VaultInit == Init => VaultInv
<1> SUFFICES ASSUME Init  PROVE VaultInv
  OBVIOUS
<1>1. InLog(EmptyLog) = {}  BY DEF InLog, EmptyLog
<1>2. LogsWithin  BY <1>1 DEF Init, LogsWithin, Within
<1>3. \A d \in Devices, s \in Slots : call[d][s].pc = "idle"  BY NoCallType DEF Init
<1>4. \A d \in Devices, s \in Slots : CallWithin(d, call[d][s])
  BY <1>3 DEF CallWithin, Syncing
<1>5. \A d \in Devices : SelectsAlone(d) /\ OpenAsChosen(d)
  BY <1>3 DEF Init, SelectsAlone, OpenAsChosen, Selecting
<1> QED  BY <1>2, <1>4, <1>5 DEF VaultInv

\* The same when a call that is not one of SelectVault moves, or begins while none runs.
LEMMA KeepAlone ==
  ASSUME ShapeInv, Alone, NEW d \in Devices, NEW s \in Slots, NEW r \in Call, Set(d, s, r),
         UNCHANGED <<open, chosen, failed>>, call[d][s].pc \notin Selecting,
         r.pc \notin Selecting,
         call[d][s].pc # "idle" \/ ~Overlaps(d, s, Selecting)
  PROVE  Alone'
<1>1. /\ call'[d][s] = r
      /\ \A e \in Devices, t \in Slots :
           <<e, t>> # <<d, s>> => call'[e][t] = call[e][t]
  BY SetCall DEF ShapeInv, TypeOK
<1>2. \A t \in Slots : call[d][t].pc \notin Selecting
  BY DEF Alone, SelectsAlone, Overlaps
<1>3. \A t \in Slots : call'[d][t].pc \notin Selecting
  BY <1>1, <1>2
<1> SUFFICES ASSUME NEW e \in Devices  PROVE SelectsAlone(e)' /\ OpenAsChosen(e)'
  BY DEF Alone
<1>4. CASE e = d  BY <1>2, <1>3, <1>4 DEF Alone, SelectsAlone, OpenAsChosen
<1>5. CASE e # d
  <2>1. \A t \in Slots : call'[e][t] = call[e][t]  BY <1>1, <1>5
  <2> QED  BY <2>1 DEF Alone, SelectsAlone, OpenAsChosen
<1> QED  BY <1>4, <1>5

LEMMA PlainCall ==
  ASSUME NEW d \in Devices, NEW s \in Slots, PlainStep(d, s)
  PROVE  /\ call[d][s].pc \in Syncing
         /\ UNCHANGED <<made, files, sotFiles, selection, marks>>
BY DEF PlainStep, ReadCursor, ReadLocal, CountRemote, FetchRemote, Push, PushRefused,
       PushAnswerLost, Merge, Advance, UnknownVault, NotOpen, Fail, Syncing, shared, stored

\* A call that begins without a mark uses the file of the vault it is for.
LEMMA ChosenIsOpen ==
  ASSUME NEW d \in Devices, NEW s \in Slots, Calls(d, s), OpenAsChosen(d),
         switched' = {}, misled' = {}
  PROVE  /\ chosen[d] = open[d] /\ call[d][s].pc = "idle"
         /\ ~Overlaps(d, s, Selecting)
BY DEF Calls, Mark, OpenAsChosen, Overlaps, Selecting

\* Calls keep to the open file when one call alone moves.
LEMMA KeepCallWithin ==
  ASSUME ShapeInv, \A d \in Devices, s \in Slots : CallWithin(d, call[d][s]),
         UNCHANGED <<made, config, open>>,
         NEW d \in Devices, NEW s \in Slots, NEW r \in Call,
         Set(d, s, r), CallWithin(d, r)
  PROVE  \A e \in Devices, t \in Slots : CallWithin(e, call[e][t])'
<1>1. /\ call'[d][s] = r
      /\ \A e \in Devices, t \in Slots :
           <<e, t>> # <<d, s>> => call'[e][t] = call[e][t]
  BY SetCall DEF ShapeInv, TypeOK
<1> SUFFICES ASSUME NEW e \in Devices, NEW t \in Slots
             PROVE  CallWithin(e, call[e][t])'
  OBVIOUS
<1>2. (call'[e][t] = r /\ e = d) \/ call'[e][t] = call[e][t]  BY <1>1
<1>3. CASE call'[e][t] = r /\ e = d  BY <1>3 DEF CallWithin, Within
<1>4. CASE call'[e][t] = call[e][t]
  <2>1. CallWithin(e, call[e][t])  OBVIOUS
  <2> QED  BY <1>4, <2>1 DEF CallWithin, Within
<1> QED  BY <1>2, <1>3, <1>4

LEMMA PlainWithin ==
  ASSUME ShapeInv, AllWithin, NEW d \in Devices, NEW s \in Slots, PlainStep(d, s)
  PROVE  AllWithin'
<1> DEFINE c == call[d][s]
<1>1. PICK r : CallFits(r) /\ Set(d, s, r) /\ Successor(d, c, r)  BY PlainFits
<1>2. UNCHANGED <<made, config, open>>  BY PlainCall DEF selection
<1>0. LogsWithin /\ \A e \in Devices, t \in Slots : CallWithin(e, call[e][t])
  BY DEF AllWithin
<1>3. CallWithin(d, r)
  <2> SUFFICES ASSUME r.pc \in Syncing
               PROVE  r.vault = open[d] /\ Within(r.local \cup r.remote, open[d])
    BY <1>1 DEF CallWithin, CallFits, Selecting
  <2>1. /\ c.pc \in Syncing /\ r.vault = c.vault
        /\ r.local \subseteq c.local \cup InLog(replica[d][open[d]])
        /\ r.remote \subseteq c.remote \cup InLog(sotLog[c.vault])
    BY <1>1 DEF Successor
  <2>2. c.vault = open[d] /\ Within(c.local \cup c.remote, open[d])
    BY <1>0, <2>1 DEF CallWithin
  <2>3. open[d] \in Vaults  BY <2>1, <2>2 DEF ShapeInv, CallInv, Syncing
  <2>4. /\ Within(InLog(sotLog[open[d]]), open[d])
        /\ Within(InLog(replica[d][open[d]]), open[d])
    BY <1>0, <2>3 DEF LogsWithin
  <2> QED  BY <2>1, <2>2, <2>4 DEF Within
<1>4. \A e \in Devices, t \in Slots : CallWithin(e, call[e][t])'
  BY <1>0, <1>1, <1>2, <1>3, KeepCallWithin DEF CallFits
<1>5. ASSUME NEW v \in Vaults  PROVE Within(InLog(sotLog[v]), v)'
  <2>0. Within(InLog(sotLog[v]), v)  BY <1>0 DEF LogsWithin
  <2>1. CASE Push(d, s) \/ PushAnswerLost(d, s)
    <3>1. c.pc = "push" /\ Apply(d, c)  BY <2>1 DEF Push, PushAnswerLost
    <3>2. InLog(sotLog'[v]) \subseteq
            InLog(sotLog[v]) \cup (IF v = c.vault THEN c.local ELSE {})
      BY <3>1, ApplyLog
    <3>3. c.vault = open[d] /\ Within(c.local \cup c.remote, open[d])
      BY <1>0, <3>1 DEF CallWithin, Syncing
    <3> QED  BY <1>2, <2>0, <3>2, <3>3 DEF Within, InLog
  <2>2. CASE ~(Push(d, s) \/ PushAnswerLost(d, s))
    <3>1. sotLog' = sotLog
      BY <2>2 DEF PlainStep, ReadCursor, ReadLocal, CountRemote, FetchRemote,
                  PushRefused, Merge, Advance, UnknownVault, NotOpen, Fail, shared
    <3> QED  BY <1>2, <2>0, <3>1 DEF Within, InLog
  <2> QED  BY <2>1, <2>2
<1>6. ASSUME NEW e \in Devices, NEW v \in Vaults
      PROVE  Within(InLog(replica[e][v]), v)'
  <2>0. Within(InLog(replica[e][v]), v)  BY <1>0 DEF LogsWithin
  <2>1. CASE Merge(d, s)
    <3>1. InLog(replica'[e][v]) \subseteq
            InLog(replica[e][v])
              \cup (IF e = d /\ v = open[d] THEN c.local \cup c.remote ELSE {})
      BY <2>1, MergeLog
    <3>2. Within(c.local \cup c.remote, open[d])
      BY <1>0, <2>1 DEF Merge, CallWithin, Syncing
    <3> QED  BY <1>2, <2>0, <3>1, <3>2 DEF Within, InLog
  <2>2. CASE ~Merge(d, s)
    <3>1. replica' = replica
      BY <2>2 DEF PlainStep, ReadCursor, ReadLocal, CountRemote, FetchRemote, Push,
                  PushRefused, PushAnswerLost, Advance, UnknownVault, NotOpen, Fail, stored
    <3> QED  BY <1>2, <2>0, <3>1 DEF Within, InLog
  <2> QED  BY <2>1, <2>2
<1> QED  BY <1>4, <1>5, <1>6 DEF AllWithin, LogsWithin

LEMMA EditWithin ==
  ASSUME ShapeInv, AllWithin, NEW d \in Devices, NEW s \in Slots, EditStep(d, s),
         chosen[d] = open[d]
  PROVE  AllWithin'
<1>0. LogsWithin /\ \A e \in Devices, t \in Slots : CallWithin(e, call[e][t])
  BY DEF AllWithin
<1>1. PICK c \in Ids, op \in Ops, x \in Ids : Edit(d, s, c, op, x)  BY DEF EditStep
<1>2. PICK q : /\ CallFits(q) /\ Set(d, s, q)
               /\ q.pc \in Syncing =>
                    q.vault = chosen[d] /\ q.local = {} /\ q.remote = {}
  BY <1>1, EditFits
<1>3. /\ open[d] \in Vaults /\ chosen[d] = open[d]
      /\ \A e \in Devices, v \in Vaults :
           InLog(replica'[e][v]) \subseteq
             InLog(replica[e][v]) \cup (IF e = d /\ v = open[d] THEN {c} ELSE {})
  BY <1>1, EditLog
<1>4. /\ made[c] = NoChange /\ made \in [Ids -> Change \cup {NoChange}]
      /\ made' = [made EXCEPT ![c] = [op |-> op, record |-> x, vault |-> chosen[d],
                                      by |-> d]]
      /\ UNCHANGED <<sotLog, config, open>>
  BY <1>1 DEF Edit, shared, selection, ShapeInv, TypeOK
<1>5. made'[c] \in Change /\ made'[c].vault = open[d]  BY <1>3, <1>4 DEF Change
<1>6. NoChange \notin Change  BY DEF NoChange, Change, Ops
<1>7. ASSUME NEW S \in SUBSET Ids, NEW v, Within(S, v)
      PROVE  \A y \in S : made'[y] \in Change /\ made'[y].vault = v
  <2> SUFFICES ASSUME NEW y \in S  PROVE made'[y] = made[y]
    BY <1>7 DEF Within
  <2>1. y # c  BY <1>4, <1>6, <1>7 DEF Within
  <2> QED  BY <1>4, <2>1
<1>8. ASSUME NEW v \in Vaults  PROVE Within(InLog(sotLog[v]), v)'
  <2>1. Within(InLog(sotLog[v]), v)  BY <1>0 DEF LogsWithin
  <2>2. InLog(sotLog[v]) \in SUBSET Ids  BY LogParts
  <2>3. \A y \in InLog(sotLog[v]) : made'[y] \in Change /\ made'[y].vault = v
    BY <1>7, <2>1, <2>2
  <2> QED  BY <1>4, <2>3 DEF Within, InLog
<1>9. ASSUME NEW e \in Devices, NEW v \in Vaults
      PROVE  Within(InLog(replica[e][v]), v)'
  <2>1. Within(InLog(replica[e][v]), v)  BY <1>0 DEF LogsWithin
  <2>2. InLog(replica[e][v]) \in SUBSET Ids  BY LogParts
  <2>3. \A y \in InLog(replica[e][v]) : made'[y] \in Change /\ made'[y].vault = v
    BY <1>7, <2>1, <2>2
  <2> QED  BY <1>3, <1>5, <2>3 DEF Within, InLog
<1>10. ASSUME NEW e \in Devices, NEW t \in Slots  PROVE CallWithin(e, call[e][t])'
  <2>1. /\ call'[d][s] = q
        /\ <<e, t>> # <<d, s>> => call'[e][t] = call[e][t]
    BY <1>2, SetCall DEF ShapeInv, TypeOK, CallFits
  <2>2. CASE <<e, t>> = <<d, s>>
    BY <1>2, <1>3, <1>4, <2>1, <2>2 DEF CallWithin, CallFits, Selecting, Within
  <2>3. CASE <<e, t>> # <<d, s>>
    <3> DEFINE b == call[e][t]
               S == b.local \cup b.remote
    <3>1. CallWithin(e, b) /\ b \in Call  BY <1>0 DEF ShapeInv, TypeOK
    <3>2. S \in SUBSET Ids /\ InLog(b.blob) \in SUBSET Ids  BY <3>1, LogParts DEF Call
    <3>3. call'[e][t] = b /\ config'[e] = config[e] /\ open'[e] = open[e]
      BY <1>4, <2>1, <2>3
    <3> HIDE DEF b
    <3>4. b.pc \in Syncing =>
            /\ b.vault = open[e]
            /\ \A y \in S : made'[y] \in Change /\ made'[y].vault = open[e]
      BY <1>7, <3>1, <3>2 DEF CallWithin
    <3>5. b.pc = "store" =>
            \A y \in InLog(b.blob) : made'[y] \in Change /\ made'[y].vault = b.vault
      BY <1>7, <3>1, <3>2 DEF CallWithin
    <3> QED  BY <3>1, <3>3, <3>4, <3>5 DEF CallWithin, Within, InLog
  <2> QED  BY <2>2, <2>3
<1> QED  BY <1>8, <1>9, <1>10 DEF AllWithin, LogsWithin

\* A step of SelectVault without a mark runs while no other call of the device does.
LEMMA SelectAlone ==
  ASSUME ShapeInv, Alone, NEW d \in Devices, NEW s \in Slots, SelectStep(d, s),
         switched' = {}
  PROVE  \A t \in Slots : t # s => call[d][t].pc = "idle"
<1>1. SUFFICES ASSUME NEW t \in Slots, t # s  PROVE call[d][t].pc = "idle"
  OBVIOUS
<1>2. call[d][t].pc \in Pcs  BY DEF ShapeInv, TypeOK, Call
<1>3. CASE call[d][s].pc = "idle"
  <2>1. ~Overlaps(d, s, Selecting \cup Syncing)  BY <1>3, SelectMarks
  <2> QED  BY <1>1, <1>2, <2>1 DEF Overlaps, Pcs
<1>4. CASE call[d][s].pc # "idle"
  <2>1. call[d][s].pc \in Selecting  BY <1>4, SelectMarks
  <2> QED  BY <1>1, <2>1 DEF Alone, SelectsAlone
<1> QED  BY <1>3, <1>4

LEMMA SelectWithin ==
  ASSUME ShapeInv, AllWithin, Alone, NEW d \in Devices, NEW s \in Slots, SelectStep(d, s),
         switched' = {}
  PROVE  AllWithin' /\ Alone'
<1>1. PICK r, w, o, p : SelectTo(d, s, r, w, o, p)  BY SelectFits
<1>2. UNCHANGED <<made, sotLog, replica>>  BY SelectMarks DEF shared, stored
<1>3. \A t \in Slots : t # s => call[d][t].pc = "idle"  BY SelectAlone
<1>4. /\ call'[d][s] = r
      /\ \A e \in Devices, t \in Slots :
           <<e, t>> # <<d, s>> => call'[e][t] = call[e][t]
  BY <1>1, SetCall DEF ShapeInv, TypeOK, SelectTo
<1>5. /\ config'[d] = w /\ open'[d] = o /\ chosen'[d] = p
      /\ \A e \in Devices :
           e # d => /\ config'[e] = config[e] /\ open'[e] = open[e]
                    /\ chosen'[e] = chosen[e] /\ (e \in failed' <=> e \in failed)
  BY <1>1 DEF SelectTo, ShapeInv, TypeOK
<1>6. LogsWithin'  BY <1>2 DEF AllWithin, LogsWithin, Within, InLog
<1>7. CallWithin(d, r)'
  <2>1. r.pc \notin Syncing  BY <1>1 DEF SelectTo, Selecting, Syncing
  <2>2. r.pc = "download" => w = r.vault  BY <1>1 DEF SelectTo
  <2>3. r.pc = "store" => w = r.vault /\ Within(InLog(r.blob), r.vault)
    <3>1. SUFFICES ASSUME r.pc = "store"
                   PROVE  w = r.vault /\ Within(InLog(r.blob), r.vault)
      OBVIOUS
    <3>2. /\ call[d][s].pc = "download" /\ r.vault = call[d][s].vault /\ w = config[d]
          /\ r.blob = sotLog[r.vault] /\ r.vault \in Vaults
      BY <1>1, <3>1 DEF SelectTo
    <3>3. config[d] = call[d][s].vault  BY <3>2 DEF AllWithin, CallWithin
    <3> QED  BY <3>2, <3>3 DEF AllWithin, LogsWithin
  <2> QED  BY <1>2, <1>5, <2>1, <2>2, <2>3 DEF CallWithin, Within
<1>8. ASSUME NEW e \in Devices, NEW t \in Slots  PROVE CallWithin(e, call[e][t])'
  <2>1. CASE e = d /\ t = s  BY <1>4, <1>7, <2>1 DEF CallWithin, Within
  <2>2. CASE e = d /\ t # s
    <3>1. call'[e][t].pc = "idle"  BY <1>3, <1>4, <2>2
    <3> QED  BY <3>1 DEF CallWithin, Syncing
  <2>3. CASE e # d
    <3>1. /\ call'[e][t] = call[e][t] /\ open'[e] = open[e] /\ config'[e] = config[e]
      BY <1>4, <1>5, <2>3
    <3>2. CallWithin(e, call[e][t])  BY DEF AllWithin
    <3> QED  BY <1>2, <3>1, <3>2 DEF CallWithin, Within
  <2> QED  BY <2>1, <2>2, <2>3
<1>9. ASSUME NEW e \in Devices  PROVE SelectsAlone(e)' /\ OpenAsChosen(e)'
  <2>1. CASE e = d
    <3>1. \A t \in Slots : t # s => call'[d][t].pc = "idle"  BY <1>3, <1>4
    <3>2. "idle" \notin Selecting  BY DEF Selecting
    <3>3. SelectsAlone(d)'  BY <3>1, <3>2 DEF SelectsAlone
    <3>4. OpenAsChosen(d)'  BY <1>1, <1>4, <1>5 DEF SelectTo, OpenAsChosen
    <3> QED  BY <2>1, <3>3, <3>4
  <2>2. CASE e # d
    <3>1. \A t \in Slots : call'[e][t] = call[e][t]  BY <1>4, <2>2
    <3> QED  BY <1>5, <2>2, <3>1 DEF Alone, SelectsAlone, OpenAsChosen
  <2> QED  BY <2>1, <2>2
<1> QED  BY <1>6, <1>8, <1>9 DEF AllWithin, Alone

\* What was downloaded goes to the file of its vault.
LEMMA StoreWithin ==
  ASSUME ShapeInv, AllWithin, Alone, NEW d \in Devices, NEW s \in Slots, StoreBlob(d, s)
  PROVE  AllWithin' /\ Alone'
<1> DEFINE c == call[d][s]
<1>1. /\ c.pc = "store" /\ config[d] \in Vaults
      /\ UNCHANGED <<made, shared, selection, marks>>
      /\ \A e \in Devices, v \in Vaults :
           replica'[e][v] = IF e = d /\ v = config[d] THEN c.blob ELSE replica[e][v]
  BY StoreFits
<1>2. PICK r \in Call : Set(d, s, r) /\ r.pc = "open"  BY StoreFits DEF StoreTo
<1>3. /\ call'[d][s] = r
      /\ \A e \in Devices, t \in Slots :
           <<e, t>> # <<d, s>> => call'[e][t] = call[e][t]
  BY <1>2, SetCall DEF ShapeInv, TypeOK
<1>4. config[d] = c.vault /\ Within(InLog(c.blob), c.vault)
  BY <1>1 DEF AllWithin, CallWithin
<1>5. LogsWithin'
  <2>1. ASSUME NEW e \in Devices, NEW v \in Vaults  PROVE Within(InLog(replica[e][v]), v)'
    <3>1. CASE e = d /\ v = config[d]
      BY <1>1, <1>4, <3>1 DEF Within, InLog
    <3>2. CASE ~(e = d /\ v = config[d])
      BY <1>1, <3>2 DEF AllWithin, LogsWithin, Within, InLog
    <3> QED  BY <3>1, <3>2
  <2>2. \A v \in Vaults : Within(InLog(sotLog[v]), v)'
    BY <1>1 DEF AllWithin, LogsWithin, Within, InLog, shared
  <2> QED  BY <2>1, <2>2 DEF LogsWithin
<1>6. ASSUME NEW e \in Devices, NEW t \in Slots  PROVE CallWithin(e, call[e][t])'
  <2>1. CASE e = d /\ t = s
    <3>1. call'[e][t].pc = "open"  BY <1>2, <1>3, <2>1
    <3> QED  BY <3>1 DEF CallWithin, Syncing
  <2>2. CASE ~(e = d /\ t = s)
    <3>1. call'[e][t] = call[e][t] /\ UNCHANGED <<made, open, config>>
      BY <1>1, <1>3, <2>2 DEF selection
    <3>2. CallWithin(e, call[e][t])  BY DEF AllWithin
    <3> QED  BY <3>1, <3>2 DEF CallWithin, Within
  <2> QED  BY <2>1, <2>2
<1>7. ASSUME NEW e \in Devices  PROVE SelectsAlone(e)' /\ OpenAsChosen(e)'
  <2>1. \A t \in Slots : /\ call'[e][t].pc \in Selecting <=> call[e][t].pc \in Selecting
                         /\ call'[e][t].pc = "idle" <=> call[e][t].pc = "idle"
    BY <1>1, <1>2, <1>3 DEF Selecting
  <2>2. SelectsAlone(e) /\ OpenAsChosen(e)  BY DEF Alone
  <2> QED  BY <1>1, <2>1, <2>2 DEF SelectsAlone, OpenAsChosen, selection
<1> QED  BY <1>5, <1>6, <1>7 DEF AllWithin, Alone

LEMMA VaultStep == ShapeInv /\ VaultInv /\ [Next]_vars => VaultInv'
<1> SUFFICES ASSUME ShapeInv, VaultInv, [Next]_vars, switched' = {}, misled' = {}
             PROVE  AllWithin' /\ Alone'
  BY DEF VaultInv, AllWithin, Alone
<1> USE DEF shared, stored, selection
<1>0. AllWithin /\ Alone  BY MarksGrow DEF VaultInv, AllWithin, Alone
<1>1. CASE UNCHANGED vars
  BY <1>0, <1>1 DEF vars, AllWithin, Alone, LogsWithin, CallWithin, SelectsAlone,
                    OpenAsChosen, Within, InLog
<1>2. ASSUME NEW d \in Devices, NEW s \in Slots, PlainStep(d, s)
      PROVE  AllWithin' /\ Alone'
  <2>1. AllWithin'  BY <1>0, <1>2, PlainWithin
  <2>2. PICK r : CallFits(r) /\ Set(d, s, r)  BY <1>2, PlainFits
  <2>3. call[d][s].pc \in Syncing /\ UNCHANGED <<open, chosen, failed>>
    BY <1>2, PlainCall
  <2>4. call[d][s].pc \notin Selecting /\ call[d][s].pc # "idle"
    BY <2>3 DEF Selecting, Syncing
  <2>5. Alone'  BY <1>0, <2>2, <2>3, <2>4, KeepAlone DEF CallFits
  <2> QED  BY <2>1, <2>5
<1>3. ASSUME NEW d \in Devices, NEW s \in Slots, EditStep(d, s)
      PROVE  AllWithin' /\ Alone'
  <2>1. Calls(d, s) /\ UNCHANGED <<open, chosen, failed>>  BY <1>3 DEF EditStep, Edit
  <2>2. /\ chosen[d] = open[d] /\ call[d][s].pc = "idle"
        /\ ~Overlaps(d, s, Selecting)
    BY <1>0, <2>1, ChosenIsOpen DEF Alone
  <2>3. AllWithin'  BY <1>0, <1>3, <2>2, EditWithin
  <2>4. PICK r : CallFits(r) /\ Set(d, s, r)  BY <1>3, EditFits DEF EditStep
  <2>5. Alone'  BY <1>0, <2>1, <2>2, <2>4, KeepAlone DEF CallFits, Selecting
  <2> QED  BY <2>3, <2>5
<1>4. ASSUME NEW d \in Devices, NEW s \in Slots, StartSync(d, s) \/ ListRecord(d, s)
      PROVE  AllWithin' /\ Alone'
  <2>1. /\ Calls(d, s)
        /\ \E kind \in {"sync", "check"} : chosen[d] # None /\ Begin(d, s, kind, None)
    BY <1>4 DEF StartSync, ListRecord, Calls
  <2>2. PICK r : /\ CallFits(r) /\ Set(d, s, r)
                 /\ r.vault = chosen[d] /\ r.local = {} /\ r.remote = {}
    BY <2>1, BeginFits
  <2>3. UNCHANGED <<made, sotLog, replica, config, open, chosen, failed>>
    BY <1>4 DEF StartSync, ListRecord
  <2>4. /\ chosen[d] = open[d] /\ call[d][s].pc = "idle"
        /\ ~Overlaps(d, s, Selecting)
    BY <1>0, <2>1, ChosenIsOpen DEF Alone
  <2>5. CallWithin(d, r)  BY <2>2, <2>4 DEF CallWithin, CallFits, Selecting, Within
  <2>6. LogsWithin'  BY <1>0, <2>3 DEF AllWithin, LogsWithin, Within, InLog
  <2>7. \A e \in Devices, t \in Slots : CallWithin(e, call[e][t])'
    BY <1>0, <2>2, <2>3, <2>5, KeepCallWithin DEF AllWithin, CallFits
  <2>8. Alone'  BY <1>0, <2>2, <2>3, <2>4, KeepAlone DEF CallFits, Selecting
  <2> QED  BY <2>6, <2>7, <2>8 DEF AllWithin
<1>5. ASSUME NEW d \in Devices, NEW s \in Slots, SelectStep(d, s) \/ StoreBlob(d, s)
      PROVE  AllWithin' /\ Alone'
  BY <1>0, <1>5, SelectWithin, StoreWithin
<1>6. ASSUME NEW d \in Devices, Crash(d)  PROVE AllWithin' /\ Alone'
  <2>1. /\ \A s \in Slots : call'[d][s].pc = "idle"
        /\ open'[d] = chosen'[d]
        /\ \A e \in Devices : e # d => /\ call'[e] = call[e] /\ config'[e] = config[e]
                                       /\ open'[e] = open[e] /\ chosen'[e] = chosen[e]
                                       /\ (e \in failed' <=> e \in failed)
        /\ UNCHANGED <<made, sotLog, replica>>
    BY <1>6, NoCallType DEF Crash, ShapeInv, TypeOK
  <2>2. LogsWithin'  BY <1>0, <2>1 DEF AllWithin, LogsWithin, Within, InLog
  <2>3. ASSUME NEW e \in Devices, NEW t \in Slots  PROVE CallWithin(e, call[e][t])'
    <3>1. CASE e = d  BY <2>1, <3>1 DEF CallWithin, Syncing
    <3>2. CASE e # d
      <4>1. CallWithin(e, call[e][t])  BY <1>0 DEF AllWithin
      <4> QED  BY <2>1, <3>2, <4>1 DEF CallWithin, Within
    <3> QED  BY <3>1, <3>2
  <2>4. ASSUME NEW e \in Devices  PROVE SelectsAlone(e)' /\ OpenAsChosen(e)'
    <3>1. CASE e = d  BY <2>1, <3>1 DEF SelectsAlone, OpenAsChosen, Selecting
    <3>2. CASE e # d
      <4>1. SelectsAlone(e) /\ OpenAsChosen(e)  BY <1>0 DEF Alone
      <4> QED  BY <2>1, <3>2, <4>1 DEF SelectsAlone, OpenAsChosen
    <3> QED  BY <3>1, <3>2
  <2> QED  BY <2>2, <2>3, <2>4 DEF AllWithin, Alone
<1>7. ASSUME NEW d \in Devices, NEW v \in Vaults, NEW lost \in BOOLEAN,
             PostBlob(d, v, lost)
      PROVE  AllWithin' /\ Alone'
  <2>1. sotLog' = sotLog \/ sotLog' = [sotLog EXCEPT ![v] = replica[d][v]]
    BY <1>7 DEF PostBlob
  <2>2. sotLog \in [Vaults -> Log]  BY DEF ShapeInv, TypeOK
  <2>3. \A w \in Vaults : sotLog'[w] = sotLog[w] \/ sotLog'[w] = replica[d][w]
    BY <2>1, <2>2
  <2>4. UNCHANGED <<made, replica, config, open, chosen, failed, call>>
    BY <1>7 DEF PostBlob
  <2>5. LogsWithin'  BY <1>0, <2>3, <2>4 DEF AllWithin, LogsWithin, Within, InLog
  <2>6. \A e \in Devices, t \in Slots : CallWithin(e, call[e][t])'
    BY <1>0, <2>4 DEF AllWithin, CallWithin, Within
  <2>7. Alone'  BY <1>0, <2>4 DEF Alone, SelectsAlone, OpenAsChosen
  <2> QED  BY <2>5, <2>6, <2>7 DEF AllWithin
<1> QED
  BY <1>1, <1>2, <1>3, <1>4, <1>5, <1>6, <1>7, CallForms, EditForms DEF Next

\* As long as SelectVault overlaps no other call of its device, and no call follows one
\* that failed, every record stays in the file of the vault it was written for, on every
\* device and at the daemon, whatever else overlaps and at whatever place it fails.
THEOREM StayInVault == Spec => []RecordsStayInVault
<1>1. VaultInv => RecordsStayInVault
  BY DEF VaultInv, LogsWithin, Within, RecordsStayInVault
<1> QED  BY <1>1, VaultInit, VaultStep, ShapeInvariant, PTL DEF Spec

--------------------------------------------------------------------------------
(* One call at a time: nothing is skipped *)

\* What the rest of this module rests on: one call at a time on each device, an
\* application that selects a vault anew when SelectVault fails, and a daemon that
\* refuses a batch on a log the client has not seen to its end and keeps the first
\* record file of a vault.
Assumed ==
  SerialCalls /\ Careful = Devices /\ {"window", "once"} \subseteq Promises

\* Then SelectVault overlaps no other call, and no call follows one that failed.
LEMMA NeverMarked ==
  ASSUME Assumed, switched = {}, misled = {}, [Next]_vars
  PROVE  switched' = {} /\ misled' = {}
<1> USE DEF marks
<1>1. \A d, places : \A s \in Slots : ~Overlaps(d, s, places)
  BY DEF Assumed, SerialCalls, Overlaps
<1>2. CASE UNCHANGED vars  BY <1>2 DEF vars
<1>3. ASSUME NEW d \in Devices, NEW s \in Slots, SelectStep(d, s)
      PROVE  UNCHANGED marks
  BY <1>1, <1>3
     DEF SelectStep, SelectVault, SetConfigFails, Mark, GetRecordBlob, OpenVaultDbFile,
         SetConfigAgain, SelectFails, SelectFault
<1>4. ASSUME NEW d \in Devices, NEW s \in Slots,
             EditStep(d, s) \/ StartSync(d, s) \/ ListRecord(d, s)
      PROVE  UNCHANGED marks
  <2>1. Calls(d, s)  BY <1>4 DEF EditStep, Edit, StartSync, ListRecord
  <2> QED  BY <1>1, <2>1 DEF Calls, Mark, Assumed
<1>5. ASSUME NEW d \in Devices, NEW s \in Slots, PlainStep(d, s) \/ StoreBlob(d, s)
      PROVE  UNCHANGED marks
  BY <1>5, PlainCall DEF StoreBlob
<1>6. ASSUME NEW d \in Devices,
             Crash(d) \/ \E v \in Vaults, lost \in BOOLEAN : PostBlob(d, v, lost)
      PROVE  UNCHANGED marks
  BY <1>6 DEF Crash, PostBlob
<1> QED  BY <1>2, <1>3, <1>4, <1>5, <1>6, CallForms, EditForms DEF Next

\* A call that begins uses the file of the vault it is for.
LEMMA CallsOpen ==
  ASSUME Assumed, SyncInv, NEW d \in Devices, NEW s \in Slots, Calls(d, s)
  PROVE  chosen[d] = open[d] /\ open[d] \in Vaults
<1>1. \A t \in Slots : call[d][t].pc \notin Selecting
  <2>1. \A t \in Slots : t = s  BY DEF Assumed, SerialCalls
  <2> QED  BY <2>1 DEF Calls, Selecting
<1>2. OpenAsChosen(d) /\ d \notin failed  BY DEF SyncInv, VaultInv, Calls, Assumed
<1>3. open[d] \in Vaults  BY DEF Calls, SyncInv, ShapeInv, TypeOK
<1> QED  BY <1>1, <1>2, <1>3 DEF OpenAsChosen

LEMMA OnlyCall ==
  ASSUME SerialCalls, ShapeInv, NEW d \in Devices, NEW s \in Slots, NEW r \in Call,
         Set(d, s, r), NEW e \in Devices, NEW t \in Slots
  PROVE  call'[e][t] = IF e = d THEN r ELSE call[e][t]
<1>1. t = s  BY DEF SerialCalls
<1>2. call \in [Devices -> [Slots -> Call]]  BY DEF ShapeInv, TypeOK
<1> QED  BY <1>1, <1>2 DEF Set

\* What the invariant says of a file, and of a call that syncs one.
LEMMA FileFacts ==
  ASSUME SyncInv, NEW d \in Devices, NEW v \in Vaults
  PROVE  /\ replica[d][v] \in Log /\ sotLog[v] \in Log
         /\ cursor[d][v] \in Ids \cup {None}
         /\ Dense(sotLog[v])
         /\ v \notin sotFiles => InLog(sotLog[v]) = {}
         /\ DeviceOK(replica[d][v], cursor[d][v], sotLog[v])
BY DEF SyncInv, ShapeInv, TypeOK, LogsOK

LEMMA CallFacts ==
  ASSUME SyncInv, NEW d \in Devices, NEW s \in Slots, call[d][s].pc \in Syncing
  PROVE  /\ open[d] \in Vaults /\ call[d][s] \in Call /\ call[d][s].vault = open[d]
         /\ CallFresh(call[d][s], replica[d][open[d]], cursor[d][open[d]],
                      sotLog[open[d]])
         /\ call[d][s].pc \notin {"cursor", "local"} => call[d][s].from = open[d]
         /\ call[d][s].pc \in {"fetch", "push", "merge", "advance"} =>
              open[d] \in sotFiles
         /\ call[d][s].ret = "none"
<1>1. call[d][s] \in Call /\ call[d][s].vault \in Vaults
  BY DEF SyncInv, ShapeInv, TypeOK, CallInv, Syncing
<1>2. CallWithin(d, call[d][s])  BY DEF SyncInv, VaultInv
<1>3. call[d][s].vault = open[d]  BY <1>2 DEF CallWithin
<1>4. CallOK(d, call[d][s]) /\ EditHeld(d, call[d][s])  BY DEF SyncInv, CallsOK
<1> QED  BY <1>1, <1>3, <1>4 DEF CallOK, EditHeld

LEMMA EditFacts ==
  ASSUME SyncInv, NEW d \in Devices, NEW s \in Slots, call[d][s].edit # None
  PROVE  /\ call[d][s].edit \in Ids /\ made[call[d][s].edit] \in Change
         /\ made[call[d][s].edit].vault \in Vaults
         /\ call[d][s].pc \notin Syncing =>
              call[d][s].edit \in InLog(sotLog[made[call[d][s].edit].vault])
         /\ call[d][s].pc \in Syncing =>
              /\ made[call[d][s].edit].vault = open[d]
              /\ call[d][s].edit \in InLog(replica[d][open[d]])
<1>1. call[d][s].edit \in Ids  BY DEF SyncInv, ShapeInv, TypeOK, Call
<1>2. EditHeld(d, call[d][s])  BY DEF SyncInv, CallsOK
<1> QED  BY <1>1, <1>2 DEF EditHeld, Change

\* The daemon's logs grow at their ends, or are uploaded to it for the first time;
\* the changes in use stay what they are.
Grows ==
  /\ \A v \in Vaults :
       \/ sotLog'[v] = sotLog[v]
       \/ \E S \in SUBSET Ids, ord \in Log : sotLog'[v] = Extend(sotLog[v], S, ord)
       \/ v \notin sotFiles /\ sotLog'[v] \in Log /\ Dense(sotLog'[v])
  /\ sotFiles \subseteq sotFiles'
  /\ \A x \in Ids : made[x] \in Change => made'[x] = made[x]

\* A device in order with a log that has no changes is in order with any other that
\* comes in its place.
LEMMA FirstUpload ==
  ASSUME NEW rep \in Log, NEW sot \in Log, NEW cur \in Ids \cup {None},
         DeviceOK(rep, cur, sot), InLog(sot) = {}, NEW new \in Log
  PROVE  DeviceOK(rep, cur, new)
<1>1. cur = None /\ Behind(rep, cur) = {}  BY CursorShared DEF DeviceOK
<1>2. Behind(new, cur) = {}
  <2>1. \A x \in InLog(new) : new[x] \in Nat /\ new[x] > 0  BY DEF InLog, Log
  <2> QED  BY <1>1, <2>1 DEF Behind, Row
<1> QED  BY <1>1, <1>2 DEF DeviceOK

LEMMA GrownLog ==
  ASSUME SyncInv, Grows, NEW d \in Devices, NEW v \in Vaults
  PROVE  /\ sotLog'[v] \in Log /\ Dense(sotLog'[v])
         /\ InLog(sotLog[v]) \subseteq InLog(sotLog'[v])
         /\ DeviceOK(replica[d][v], cursor[d][v], sotLog'[v])
<1> DEFINE rep == replica[d][v]
           cur == cursor[d][v]
           sot == sotLog[v]
<1>1. /\ rep \in Log /\ cur \in Ids \cup {None} /\ sot \in Log
      /\ Dense(sot) /\ DeviceOK(rep, cur, sot)
      /\ v \notin sotFiles => InLog(sot) = {}
  BY FileFacts
<1>2. CASE sotLog'[v] = sot  BY <1>1, <1>2
<1>3. CASE \E S \in SUBSET Ids, ord \in Log : sotLog'[v] = Extend(sot, S, ord)
  <2>1. PICK S \in SUBSET Ids, ord \in Log : sotLog'[v] = Extend(sot, S, ord)  BY <1>3
  <2> HIDE DEF rep, cur, sot
  <2>2. Extend(sot, S, ord) \in Log /\ InLog(Extend(sot, S, ord)) = InLog(sot) \cup S
    BY <1>1, ExtendInLog
  <2>3. Dense(Extend(sot, S, ord))  BY <1>1, ExtendDense
  <2>4. DeviceOK(rep, cur, Extend(sot, S, ord))  BY <1>1, GrowDevice
  <2> QED  BY <2>1, <2>2, <2>3, <2>4 DEF rep, cur, sot
<1>4. CASE v \notin sotFiles /\ sotLog'[v] \in Log /\ Dense(sotLog'[v])
  <2>1. InLog(sot) = {}  BY <1>1, <1>4
  <2>2. DeviceOK(rep, cur, sotLog'[v])
    <3> HIDE DEF rep, cur, sot
    <3> QED  BY <1>1, <1>4, <2>1, FirstUpload
  <2> QED  BY <1>4, <2>1, <2>2
<1> QED  BY <1>2, <1>3, <1>4 DEF Grows

\* A call of a device that makes no step itself stays in order.
LEMMA GrownCall ==
  ASSUME SyncInv, Grows, NEW e \in Devices, NEW t \in Slots, open'[e] = open[e],
         replica'[e] = replica[e], cursor'[e] = cursor[e], call'[e][t] = call[e][t]
  PROVE  CallOK(e, call[e][t])' /\ EditHeld(e, call[e][t])'
<1> DEFINE c == call[e][t]
           v == open[e]
<1>1. CallOK(e, call[e][t])'
  <2> SUFFICES ASSUME c.pc \in Syncing
               PROVE  /\ CallFresh(c, replica[e][v], cursor[e][v], sotLog'[v])
                      /\ c.pc \notin {"cursor", "local"} => c.from = v
                      /\ c.pc \in {"fetch", "push", "merge", "advance"} => v \in sotFiles
    BY DEF CallOK, Grows
  <2>1. /\ v \in Vaults /\ c \in Call
        /\ CallFresh(c, replica[e][v], cursor[e][v], sotLog[v])
        /\ c.pc \notin {"cursor", "local"} => c.from = v
        /\ c.pc \in {"fetch", "push", "merge", "advance"} => v \in sotFiles
    BY CallFacts
  <2>2. c.count \in Nat  BY <2>1 DEF Call
  <2>3. /\ replica[e][v] \in Log /\ sotLog[v] \in Log /\ cursor[e][v] \in Ids \cup {None}
        /\ Dense(sotLog[v]) /\ DeviceOK(replica[e][v], cursor[e][v], sotLog[v])
    BY <2>1, FileFacts
  <2>4. CASE sotLog'[v] = sotLog[v]  BY <2>1, <2>4
  <2>5. CASE \E S \in SUBSET Ids, ord \in Log : sotLog'[v] = Extend(sotLog[v], S, ord)
    BY <2>1, <2>2, <2>3, <2>5, GrowCall
  <2>6. CASE v \notin sotFiles
    <3>1. c.pc \in {"cursor", "local", "count"}  BY <2>1, <2>2, <2>6 DEF Call, Pcs, Syncing
    <3> QED  BY <2>1, <3>1 DEF CallFresh, LocalFresh, RemoteFresh
  <2> QED  BY <2>1, <2>4, <2>5, <2>6 DEF Grows
<1>2. EditHeld(e, call[e][t])'
  <2>1. c.pc \in Syncing => c.ret = "none"  BY CallFacts
  <2>2. ASSUME c.edit # None
        PROVE  /\ made'[c.edit] = made[c.edit] /\ made[c.edit] \in Change
               /\ c.pc \notin Syncing => c.edit \in InLog(sotLog'[made[c.edit].vault])
               /\ c.pc \in Syncing => made[c.edit].vault = v
                                             /\ c.edit \in InLog(replica[e][v])
    BY <2>2, EditFacts, GrownLog DEF Grows
  <2> HIDE DEF c, v
  <2>3. call'[e][t] = c /\ open'[e] = v  BY DEF c, v
  <2> QED  BY <2>1, <2>2, <2>3 DEF EditHeld
<1> QED  BY <1>1, <1>2

\* So a step of one device keeps the calls in order when it keeps its own.
LEMMA OwnCall ==
  ASSUME Assumed, SyncInv, Grows, NEW d \in Devices, NEW s \in Slots, NEW r \in Call,
         Set(d, s, r),
         \A e \in Devices \ {d} : /\ open'[e] = open[e]
                                  /\ replica'[e] = replica[e]
                                  /\ cursor'[e] = cursor[e],
         CallOK(d, r)', EditHeld(d, r)'
  PROVE  CallsOK'
<1>1. \A e \in Devices, t \in Slots : call'[e][t] = IF e = d THEN r ELSE call[e][t]
  BY OnlyCall DEF Assumed, SyncInv
<1> SUFFICES ASSUME NEW e \in Devices, NEW t \in Slots
             PROVE  CallOK(e, call[e][t])' /\ EditHeld(e, call[e][t])'
  BY DEF CallsOK
<1>2. CASE e = d
  <2>1. call'[e][t] = r  BY <1>1, <1>2
  <2> QED  BY <1>2, <2>1 DEF CallOK, EditHeld
<1>3. CASE e # d
  <2>1. call'[e][t] = call[e][t]  BY <1>1, <1>3
  <2> QED  BY <1>3, <2>1, GrownCall
<1> QED  BY <1>2, <1>3

\* A step that changes nothing but its call, and the selection of its device.
LEMMA QuietStep ==
  ASSUME Assumed, SyncInv, NEW d \in Devices, NEW s \in Slots, NEW r \in Call,
         Set(d, s, r), UNCHANGED <<made, sotLog, sotFiles, replica, cursor>>,
         \A e \in Devices \ {d} : open'[e] = open[e],
         CallOK(d, r)', EditHeld(d, r)'
  PROVE  LogsOK' /\ CallsOK'
<1>1. Grows  BY DEF Grows
<1>2. CallsOK'  BY <1>1, OwnCall
<1>3. LogsOK'  BY DEF SyncInv, LogsOK
<1> QED  BY <1>2, <1>3

\* A step that changes the log or the cursor of one file of one device.
LEMMA FileStep ==
  ASSUME SyncInv, UNCHANGED <<sotLog, sotFiles>>, NEW d \in Devices, NEW v \in Vaults,
         \A e \in Devices, w \in Vaults :
           <<e, w>> # <<d, v>> =>
             replica'[e][w] = replica[e][w] /\ cursor'[e][w] = cursor[e][w],
         DeviceOK(replica'[d][v], cursor'[d][v], sotLog[v])
  PROVE  LogsOK'
<1> SUFFICES ASSUME NEW w \in Vaults
             PROVE  /\ Dense(sotLog[w])
                    /\ w \notin sotFiles => InLog(sotLog[w]) = {}
                    /\ \A e \in Devices : DeviceOK(replica'[e][w], cursor'[e][w], sotLog[w])
  BY DEF LogsOK
<1>1. /\ Dense(sotLog[w])
      /\ w \notin sotFiles => InLog(sotLog[w]) = {}
      /\ \A e \in Devices : DeviceOK(replica[e][w], cursor[e][w], sotLog[w])
  BY DEF SyncInv, LogsOK
<1>2. ASSUME NEW e \in Devices  PROVE DeviceOK(replica'[e][w], cursor'[e][w], sotLog[w])
  <2>1. CASE e = d /\ w = v  BY <2>1
  <2>2. CASE ~(e = d /\ w = v)  BY <1>1, <2>2
  <2> QED  BY <2>1, <2>2
<1> QED  BY <1>1, <1>2

\* What a call that syncs the open file becomes at the end of a step.
LEMMA ReturnOK ==
  ASSUME NEW d \in Devices, NEW r \in Call, r.pc = "idle", r.edit = None
  PROVE  CallOK(d, r)' /\ EditHeld(d, r)'
BY DEF CallOK, EditHeld, Syncing

LEMMA ReturnStep ==
  ASSUME Assumed, SyncInv, NEW d \in Devices, NEW s \in Slots,
         NEW ret \in {"none", "err", "clean", "dirty"}, Return(d, s, ret),
         UNCHANGED <<made, sotLog, sotFiles, replica, cursor, open>>
  PROVE  LogsOK' /\ CallsOK'
<1> DEFINE r == [NoCall EXCEPT !.ret = ret, !.edit = None]
<1>1. Set(d, s, r)  BY DEF Return
<1>2. r \in Call /\ r.pc = "idle" /\ r.edit = None
  BY NoCallType DEF NoCall, Call, Pcs, Syncing
<1> HIDE DEF r
<1> QED  BY <1>1, <1>2, ReturnOK, QuietStep

LEMMA BeginInv ==
  ASSUME Assumed, SyncInv, NEW d \in Devices, NEW s \in Slots,
         NEW kind \in {"sync", "check"}, Begin(d, s, kind, None),
         UNCHANGED <<made, sotLog, sotFiles, replica, cursor, open>>
  PROVE  LogsOK' /\ CallsOK'
<1> DEFINE r == [NoCall EXCEPT !.pc = "cursor", !.kind = kind, !.vault = chosen[d],
                               !.edit = None]
<1>1. chosen[d] \in Vaults \cup {None}  BY DEF SyncInv, ShapeInv, TypeOK
<1>2. r \in Call  BY <1>1, NoCallType DEF NoCall, Call, Pcs, Syncing
<1>3. r.pc = "cursor" /\ r.remote = {} /\ r.ret = "none" /\ r.edit = None
  BY DEF NoCall
<1>4. Set(d, s, r)  BY DEF Begin
<1> HIDE DEF r
<1>5. ASSUME NEW q \in Call, Set(d, s, q), q.pc = "cursor", q.remote = {},
             q.ret = "none", q.edit = None
      PROVE  LogsOK' /\ CallsOK'
  <2>1. CallOK(d, q)'  BY <1>5 DEF CallOK, CallFresh, LocalFresh, RemoteFresh
  <2>2. EditHeld(d, q)'  BY <1>5 DEF EditHeld
  <2> QED  BY <1>5, <2>1, <2>2, QuietStep
<1> QED  BY <1>2, <1>3, <1>4, <1>5

\* A call that syncs goes on, and the state it synchronises stays as it is.
LEMMA GoesOn ==
  ASSUME Assumed, SyncInv, NEW d \in Devices, NEW s \in Slots, NEW r \in Call,
         Set(d, s, r), UNCHANGED <<made, sotLog, sotFiles, replica, cursor, open>>,
         call[d][s].pc \in Syncing, r.pc \in Syncing,
         r.edit = call[d][s].edit, r.ret = "none",
         CallFresh(r, replica[d][open[d]], cursor[d][open[d]], sotLog[open[d]]),
         r.pc \notin {"cursor", "local"} => r.from = open[d],
         r.pc \in {"fetch", "push", "merge", "advance"} => open[d] \in sotFiles
  PROVE  LogsOK' /\ CallsOK'
<1>1. CallOK(d, r)'  BY DEF CallOK
<1>2. EditHeld(d, r)'  BY EditFacts DEF EditHeld
<1> QED  BY <1>1, <1>2, QuietStep

\* The steps of a call that read the cursor, the local changes and the daemon.
LEMMA ReadInv ==
  ASSUME Assumed, SyncInv, NEW d \in Devices, NEW s \in Slots,
         ReadCursor(d, s) \/ ReadLocal(d, s)
  PROVE  LogsOK' /\ CallsOK'
<1> DEFINE c == call[d][s]
           v == open[d]
           rep == replica[d][v]
           cur == cursor[d][v]
<1>1. /\ c.pc \in {"cursor", "local"}
      /\ UNCHANGED <<made, sotLog, sotFiles, replica, cursor, open>>
  BY DEF ReadCursor, ReadLocal, shared, stored, selection
<1>2. /\ v \in Vaults /\ c \in Call /\ c.ret = "none"
      /\ CallFresh(c, rep, cur, sotLog[v])
  BY <1>1, CallFacts DEF Syncing
<1>3. cur \in Ids \cup {None} /\ rep \in Log  BY <1>2, FileFacts
<1>5. ASSUME NEW r \in Call, Set(d, s, r), r.edit = c.edit, r.ret = c.ret,
             r.pc \in {"local", "count"}, r.remote = c.remote, r.start = cur,
             r.pc = "count" => r.local = After(rep, cur) /\ r.from = v
      PROVE  LogsOK' /\ CallsOK'
  <2>1. c.remote = {}  BY <1>1, <1>2 DEF CallFresh, RemoteFresh
  <2>2. CallFresh(r, rep, cur, sotLog[v])
    BY <1>5, <2>1 DEF CallFresh, LocalFresh, RemoteFresh
  <2> QED  BY <1>1, <1>2, <1>5, <2>2, GoesOn DEF Syncing
<1>6. CASE ReadCursor(d, s)
  <2> DEFINE r == [c EXCEPT !.pc = "local", !.start = cur]
  <2>1. Set(d, s, r)  BY <1>6 DEF ReadCursor
  <2>2. /\ r \in Call /\ r.edit = c.edit /\ r.ret = c.ret /\ r.pc = "local"
        /\ r.remote = c.remote /\ r.start = cur
    BY <1>2, <1>3 DEF Call, Pcs, Syncing
  <2> HIDE DEF r
  <2> QED  BY <1>5, <2>1, <2>2
<1>7. CASE ReadLocal(d, s)
  <2> DEFINE r == [c EXCEPT !.pc = "count", !.from = v, !.local = After(rep, c.start)]
  <2>1. Set(d, s, r) /\ c.pc = "local"  BY <1>7 DEF ReadLocal
  <2>2. c.start = cur  BY <1>2, <2>1 DEF CallFresh, LocalFresh
  <2>3. After(rep, c.start) \in SUBSET Ids  BY AfterIds
  <2>4. /\ r \in Call /\ r.edit = c.edit /\ r.ret = c.ret /\ r.pc = "count"
        /\ r.remote = c.remote /\ r.start = c.start
        /\ r.local = After(rep, c.start) /\ r.from = v
    BY <1>2, <2>3 DEF Call, Pcs, Syncing
  <2> HIDE DEF r
  <2> QED  BY <1>5, <2>1, <2>2, <2>4
<1> QED  BY <1>6, <1>7

LEMMA CountInv ==
  ASSUME Assumed, SyncInv, NEW d \in Devices, NEW s \in Slots, CountRemote(d, s)
  PROVE  LogsOK' /\ CallsOK'
<1> DEFINE c == call[d][s]
           v == open[d]
           rep == replica[d][v]
           cur == cursor[d][v]
           sot == sotLog[v]
           ahead == After(sot, cur)
           n == Cardinality(ahead)
<1>1. /\ c.pc = "count"
      /\ UNCHANGED <<made, sotLog, sotFiles, replica, cursor, open>>
      /\ c.vault \in sotFiles
  BY DEF CountRemote, shared, stored, selection
<1>2. /\ v \in Vaults /\ c \in Call /\ c.ret = "none" /\ c.vault = v /\ c.from = v
      /\ CallFresh(c, rep, cur, sot)
  BY <1>1, CallFacts DEF Syncing
<1>3. cur \in Ids \cup {None} /\ rep \in Log /\ sot \in Log  BY <1>2, FileFacts
<1>4. c.start = cur /\ c.local = After(rep, cur) /\ c.remote = {}
  BY <1>1, <1>2 DEF CallFresh, LocalFresh, RemoteFresh
<1>5. CASE c.kind = "check"
  <2>1. \E ret \in {"none", "err", "clean", "dirty"} : Return(d, s, ret)
    BY <1>5 DEF CountRemote
  <2> QED  BY <1>1, <2>1, ReturnStep
<1>6. CASE c.kind # "check"
  <2> DEFINE r == [c EXCEPT !.count = n, !.pc = IF n = 0 THEN "push" ELSE "fetch"]
  <2>1. Set(d, s, r)  BY <1>2, <1>4, <1>6 DEF CountRemote
  <2>2. ahead \in SUBSET Ids /\ n \in Nat /\ (n = 0 => ahead = {})
    BY AfterIds, IdSets
  <2>3. r \in Call  BY ZenonT(60), <1>2, <2>2 DEF Call, Pcs, Syncing
  <2>4. /\ r.pc = IF n = 0 THEN "push" ELSE "fetch"
        /\ r.count = n /\ r.start = cur /\ r.local = c.local /\ r.remote = {}
        /\ r.edit = c.edit /\ r.ret = "none" /\ r.from = v
    BY <1>2, <1>4 DEF Call
  <2>5. \A x \in Behind(rep, cur) \cap ahead : Rank(sot, ahead, x) <= n
    <3>1. \A x \in ahead : Rank(sot, ahead, x) \in 1..n  BY <1>3, <2>2, RankRange
    <3> QED  BY <2>2, <3>1
  <2>6. Settled(Behind(sot, cur), sot)  BY <1>3, BehindSettled
  <2> HIDE DEF r, n
  <2>7. r.pc \in {"push", "fetch"} /\ (r.pc = "push" => ahead = {})  BY <2>2, <2>4
  <2>8. RemoteFresh(r, rep, cur, sot)
    <3>1. n <= n  BY <2>2
    <3> QED  BY <2>4, <2>5, <2>7, <3>1 DEF RemoteFresh, n
  <2>9. LocalFresh(r, rep, cur)  BY <1>4, <2>4 DEF LocalFresh
  <2>10. Behind(sot, cur) \cup r.remote = Behind(sot, cur)  BY <2>4
  <2>11. CallFresh(r, rep, cur, sot)
    BY <2>6, <2>7, <2>8, <2>9, <2>10 DEF CallFresh
  <2> QED  BY <1>1, <1>2, <2>1, <2>3, <2>4, <2>7, <2>11, GoesOn DEF Syncing
<1> QED  BY <1>5, <1>6

LEMMA FetchInv ==
  ASSUME Assumed, SyncInv, NEW d \in Devices, NEW s \in Slots, FetchRemote(d, s)
  PROVE  LogsOK' /\ CallsOK'
<1> DEFINE c == call[d][s]
           v == open[d]
           rep == replica[d][v]
           cur == cursor[d][v]
           sot == sotLog[v]
           ahead == After(sot, cur)
           fetched == FirstAfter(sot, cur, c.count)
           r == [c EXCEPT !.pc = "push", !.remote = fetched]
<1>1. /\ c.pc = "fetch"
      /\ UNCHANGED <<made, sotLog, sotFiles, replica, cursor, open>>
  BY DEF FetchRemote, shared, stored, selection
<1>2. /\ v \in Vaults /\ c \in Call /\ c.ret = "none" /\ c.vault = v /\ c.from = v
      /\ v \in sotFiles /\ CallFresh(c, rep, cur, sot)
  BY <1>1, CallFacts DEF Syncing
<1>3. cur \in Ids \cup {None} /\ rep \in Log /\ sot \in Log  BY <1>2, FileFacts
<1>4. /\ c.start = cur /\ c.local = After(rep, cur) /\ c.count \in Nat
      /\ c.count <= Cardinality(ahead)
      /\ \A x \in Behind(rep, cur) \cap ahead : Rank(sot, ahead, x) <= c.count
  BY <1>1, <1>2 DEF CallFresh, LocalFresh, RemoteFresh, Call
<1>5. Set(d, s, r)  BY <1>2, <1>4 DEF FetchRemote
<1>6. fetched \in SUBSET Ids  BY AfterIds
<1>7. r \in Call  BY <1>2, <1>6 DEF Call, Pcs, Syncing
<1>8. /\ r.pc = "push" /\ r.count = c.count /\ r.start = cur /\ r.local = c.local
      /\ r.remote = fetched /\ r.edit = c.edit /\ r.ret = "none" /\ r.from = v
  BY <1>2, <1>4 DEF Call
<1>9. fetched \subseteq ahead /\ (Cardinality(ahead) = c.count => fetched = ahead)
  BY <1>3, <1>4, FirstAfterFetches
<1>10. Settled(Behind(sot, cur) \cup r.remote, sot)
  BY <1>3, <1>4, <1>8, BehindSettled
<1> HIDE DEF r, fetched
<1>11. RemoteFresh(r, rep, cur, sot)  BY <1>4, <1>8, <1>9 DEF RemoteFresh
<1>12. LocalFresh(r, rep, cur)  BY <1>4, <1>8 DEF LocalFresh
<1>13. CallFresh(r, rep, cur, sot)  BY <1>8, <1>10, <1>11, <1>12 DEF CallFresh
<1> QED  BY <1>1, <1>2, <1>5, <1>7, <1>8, <1>13, GoesOn DEF Syncing

\* The batch goes to the daemon's log of the open file, which grows; the changes
\* of the file and the fetched ones are then an initial segment of it.
LEMMA PushLogs ==
  ASSUME Assumed, SyncInv, NEW d \in Devices, NEW s \in Slots, call[d][s].pc = "push",
         Admits(call[d][s]), Apply(d, call[d][s]),
         UNCHANGED <<made, sotFiles, replica, cursor>>
  PROVE  /\ Grows /\ LogsOK'
         /\ Settled(InLog(replica[d][open[d]]) \cup call[d][s].remote, sotLog'[open[d]])
<1> DEFINE c == call[d][s]
           v == open[d]
           rep == replica[d][v]
           cur == cursor[d][v]
           sot == sotLog[v]
           batch == c.local
           new == Extend(sot, batch, rep)
<1>1. /\ v \in Vaults /\ c \in Call /\ c.vault = v /\ c.from = v /\ v \in sotFiles
      /\ CallFresh(c, rep, cur, sot)
  BY CallFacts DEF Syncing
<1>2. /\ cur \in Ids \cup {None} /\ rep \in Log /\ sot \in Log /\ Dense(sot)
      /\ DeviceOK(rep, cur, sot) /\ batch \in SUBSET Ids
  BY <1>1, FileFacts DEF Call
<1>3. sotLog \in [Vaults -> Log] /\ sotLog' = [sotLog EXCEPT ![v] = new]
  BY <1>1 DEF SyncInv, ShapeInv, TypeOK, Apply
<1>4. Cardinality(After(sot, c.start)) = c.count  BY <1>1 DEF Admits, Assumed
<1>5. Settled(InLog(rep) \cup c.remote, new)
  <2> HIDE DEF c, rep, cur, sot
  <2>1. c.pc = "push"  BY DEF c
  <2> QED  BY <1>1, <1>2, <1>4, <2>1, PushSettles
<1> HIDE DEF new
<1>6. /\ sotLog'[v] = new
      /\ \A w \in Vaults : w # v => sotLog'[w] = sotLog[w]
  BY <1>1, <1>3
<1>7. Grows  BY <1>1, <1>2, <1>6 DEF Grows, new
<1>8. LogsOK'
  <2> SUFFICES ASSUME NEW w \in Vaults
               PROVE  /\ Dense(sotLog'[w])
                      /\ w \notin sotFiles => InLog(sotLog'[w]) = {}
                      /\ \A e \in Devices :
                           DeviceOK(replica[e][w], cursor[e][w], sotLog'[w])
    BY DEF LogsOK
  <2>1. \A e \in Devices :
          Dense(sotLog'[w]) /\ DeviceOK(replica[e][w], cursor[e][w], sotLog'[w])
    BY <1>7, GrownLog
  <2>2. w \notin sotFiles => InLog(sotLog'[w]) = {}  BY <1>1, <1>6, FileFacts
  <2> QED  BY <2>1, <2>2
<1> QED  BY <1>5, <1>6, <1>7, <1>8

LEMMA PushInv ==
  ASSUME Assumed, SyncInv, NEW d \in Devices, NEW s \in Slots, Push(d, s)
  PROVE  LogsOK' /\ CallsOK'
<1> DEFINE c == call[d][s]
           v == open[d]
           rep == replica[d][v]
           cur == cursor[d][v]
           sot == sotLog'[v]
<1>1. /\ c.pc = "push" /\ Admits(c) /\ Apply(d, c)
      /\ Set(d, s, [c EXCEPT !.pc = "merge"])
      /\ UNCHANGED <<made, sotFiles, replica, cursor, open>>
  BY DEF Push, stored, selection
<1>2. Grows /\ LogsOK' /\ Settled(InLog(rep) \cup c.remote, sot)  BY <1>1, PushLogs
<1>3. /\ v \in Vaults /\ c \in Call /\ c.ret = "none" /\ c.from = v /\ v \in sotFiles
      /\ CallFresh(c, rep, cur, sotLog[v])
  BY <1>1, CallFacts DEF Syncing
<1>4. /\ c.count \in Nat /\ c.start = cur /\ c.local = After(rep, cur)
      /\ CallFresh(c, rep, cur, sot)
  <2>1. c.count \in Nat  BY <1>3 DEF Call
  <2>2. CallFresh(c, rep, cur, sot)
    <3>1. /\ rep \in Log /\ sotLog[v] \in Log /\ cur \in Ids \cup {None}
          /\ Dense(sotLog[v]) /\ DeviceOK(rep, cur, sotLog[v])
      BY <1>3, FileFacts
    <3>2. CASE sot = sotLog[v]  BY <1>3, <3>2
    <3>3. CASE \E S \in SUBSET Ids, ord \in Log : sot = Extend(sotLog[v], S, ord)
      BY <1>3, <2>1, <3>1, <3>3, GrowCall
    <3> QED  BY <1>2, <1>3, <3>2, <3>3 DEF Grows
  <2> QED  BY <1>1, <2>1, <2>2 DEF CallFresh, LocalFresh
<1>5. Settled(Behind(sot, cur) \cup c.remote, sot)  BY <1>1, <1>4 DEF CallFresh
<1>6. ASSUME NEW r \in Call, Set(d, s, r), r.pc = "merge", r.start = c.start,
             r.local = c.local, r.remote = c.remote, r.from = v, r.edit = c.edit,
             r.ret = "none"
      PROVE  LogsOK' /\ CallsOK'
  <2>1. CallFresh(r, rep, cur, sot)
    BY <1>2, <1>4, <1>5, <1>6 DEF CallFresh, LocalFresh, RemoteFresh
  <2>2. CallOK(d, r)'  BY <1>1, <1>3, <1>6, <2>1 DEF CallOK
  <2>3. EditHeld(d, r)'  BY <1>1, <1>6, EditFacts DEF EditHeld, Syncing
  <2> QED  BY <1>1, <1>2, <1>6, <2>2, <2>3, OwnCall
<1>7. [c EXCEPT !.pc = "merge"] \in Call  BY <1>3 DEF Call, Pcs, Syncing
<1> DEFINE r == [c EXCEPT !.pc = "merge"]
<1>8. /\ r.pc = "merge" /\ r.start = c.start /\ r.local = c.local
      /\ r.remote = c.remote /\ r.from = v /\ r.edit = c.edit /\ r.ret = "none"
  BY <1>3 DEF Call
<1> QED  BY <1>1, <1>6, <1>7, <1>8

LEMMA PushAnswerLostInv ==
  ASSUME Assumed, SyncInv, NEW d \in Devices, NEW s \in Slots, PushAnswerLost(d, s)
  PROVE  LogsOK' /\ CallsOK'
<1>1. /\ call[d][s].pc = "push" /\ Admits(call[d][s]) /\ Apply(d, call[d][s])
      /\ Return(d, s, "err")
      /\ UNCHANGED <<made, sotFiles, replica, cursor, open>>
  BY DEF PushAnswerLost, stored, selection
<1>2. Grows /\ LogsOK'  BY <1>1, PushLogs
<1> DEFINE r == [NoCall EXCEPT !.ret = "err", !.edit = None]
<1>3. Set(d, s, r)  BY <1>1 DEF Return
<1>4. r \in Call /\ r.pc = "idle" /\ r.edit = None
  BY NoCallType DEF NoCall, Call, Pcs, Syncing
<1> HIDE DEF r
<1>5. CallsOK'  BY <1>1, <1>2, <1>3, <1>4, ReturnOK, OwnCall
<1> QED  BY <1>2, <1>5

LEMMA MergeInv ==
  ASSUME Assumed, SyncInv, NEW d \in Devices, NEW s \in Slots, Merge(d, s)
  PROVE  LogsOK' /\ CallsOK'
<1> DEFINE c == call[d][s]
           v == open[d]
           rep == replica[d][v]
           cur == cursor[d][v]
           sot == sotLog[v]
<1>1. /\ c.pc = "merge" /\ Set(d, s, [c EXCEPT !.pc = "advance"])
      /\ UNCHANGED <<made, sotLog, sotFiles, cursor, open>>
  BY DEF Merge, shared, selection
<1>2. /\ v \in Vaults /\ c \in Call /\ c.ret = "none" /\ c.from = v /\ v \in sotFiles
      /\ c.vault = v /\ CallFresh(c, rep, cur, sot)
  BY <1>1, CallFacts DEF Syncing
<1>3. /\ cur \in Ids \cup {None} /\ rep \in Log /\ sot \in Log
      /\ DeviceOK(rep, cur, sot) /\ c.remote \in SUBSET Ids
  BY <1>2, FileFacts DEF Call
<1>4. PICK new \in {Appended(rep, c, sot), Rebased(rep, c, sot)} :
        replica' = [replica EXCEPT ![d][v] = new]
  BY <1>2 DEF Merge
<1>5. LocalFresh(c, rep, cur) /\ Settled(InLog(rep) \cup c.remote, sot)
  BY <1>1, <1>2 DEF CallFresh
<1>6. \/ new = Extend(rep, c.remote, sot)
      \/ new = Extend(Extend(Only(rep, Ids \ c.local), c.remote, sot), c.local, rep)
  BY <1>4 DEF Appended, Rebased
<1>7. /\ new \in Log /\ InLog(new) = InLog(rep) \cup c.remote
      /\ DeviceOK(new, cur, sot)
  <2> HIDE DEF c, rep, cur, sot
  <2>1. c.pc = "merge"  BY <1>1 DEF c
  <2>2. rep \in Log /\ sot \in Log /\ cur \in Ids \cup {None}  BY <1>3
  <2>3. DeviceOK(rep, cur, sot) /\ c.remote \in SUBSET Ids  BY <1>3
  <2>4. LocalFresh(c, rep, cur)  BY <1>5
  <2>5. InLog(new) = InLog(rep) \cup c.remote
    BY <1>6, <2>1, <2>2, <2>3, <2>4, MergeDevice
  <2>6. new \in Log /\ DeviceOK(new, cur, sot)
    BY <1>6, <2>1, <2>2, <2>3, <2>4, MergeDevice
  <2> QED  BY <2>5, <2>6
<1>8. replica \in [Devices -> [Vaults -> Log]]  BY DEF SyncInv, ShapeInv, TypeOK
<1>9. \A e \in Devices, w \in Vaults :
        replica'[e][w] = IF e = d /\ w = v THEN new ELSE replica[e][w]
  BY <1>2, <1>4, <1>8
<1>10. LogsOK'
  <2>1. replica'[d][v] = new  BY <1>2, <1>9
  <2>2. \A e \in Devices, w \in Vaults :
          <<e, w>> # <<d, v>> =>
            replica'[e][w] = replica[e][w] /\ cursor'[e][w] = cursor[e][w]
    BY <1>1, <1>9
  <2> QED  BY <1>1, <1>2, <1>7, <2>1, <2>2, FileStep
<1>11. \A e \in Devices \ {d} : replica'[e] = replica[e]  BY <1>4, <1>8
<1>12. ASSUME NEW r \in Call, Set(d, s, r), r.pc = "advance", r.start = c.start,
              r.from = v, r.edit = c.edit, r.ret = "none"
       PROVE  CallsOK'
  <2>1. c.start = cur  BY <1>1, <1>5 DEF LocalFresh
  <2>2. CallFresh(r, new, cur, sot)
    BY <1>5, <1>7, <1>12, <2>1 DEF CallFresh, LocalFresh, RemoteFresh
  <2>3. CallOK(d, r)'  BY <1>1, <1>2, <1>9, <1>12, <2>2 DEF CallOK
  <2>4. EditHeld(d, r)'
    BY <1>1, <1>2, <1>7, <1>9, <1>12, EditFacts DEF EditHeld, Syncing
  <2>5. Grows  BY <1>1 DEF Grows
  <2> QED  BY <1>1, <1>11, <1>12, <2>3, <2>4, <2>5, OwnCall
<1> DEFINE r == [c EXCEPT !.pc = "advance"]
<1>13. r \in Call  BY <1>2 DEF Call, Pcs, Syncing
<1>14. /\ r.pc = "advance" /\ r.start = c.start /\ r.from = v /\ r.edit = c.edit
       /\ r.ret = "none"
  BY <1>2 DEF Call
<1> QED  BY <1>1, <1>10, <1>12, <1>13, <1>14

LEMMA AdvanceInv ==
  ASSUME Assumed, SyncInv, NEW d \in Devices, NEW s \in Slots, Advance(d, s)
  PROVE  LogsOK' /\ CallsOK'
<1> DEFINE c == call[d][s]
           v == open[d]
           rep == replica[d][v]
           cur == cursor[d][v]
           sot == sotLog[v]
<1>1. /\ c.pc = "advance" /\ Return(d, s, "ok")
      /\ UNCHANGED <<made, sotLog, sotFiles, replica, open>>
  BY DEF Advance, shared, selection
<1>2. v \in Vaults /\ c \in Call /\ CallFresh(c, rep, cur, sot)
  BY <1>1, CallFacts DEF Syncing
<1>3. /\ cur \in Ids \cup {None} /\ rep \in Log /\ sot \in Log
      /\ DeviceOK(rep, cur, sot) /\ Settled(InLog(rep), sot)
  BY <1>1, <1>2, FileFacts DEF CallFresh
<1>4. cursor \in [Devices -> [Vaults -> Ids \cup {None}]]
  BY DEF SyncInv, ShapeInv, TypeOK
<1>5. PICK now : cursor' = [cursor EXCEPT ![d][v] = now] /\ DeviceOK(rep, now, sot)
  <2>1. CASE UNCHANGED cursor
    <3>1. cursor' = [cursor EXCEPT ![d][v] = cur]  BY <1>2, <1>4, <2>1
    <3> QED  BY <1>3, <3>1
  <2>2. CASE \E last \in InLog(rep) :
               /\ After(rep, last) = {}
               /\ cursor' = [cursor EXCEPT ![d][v] = last]
    <3>1. Dense(rep)  BY <1>3 DEF DeviceOK
    <3> HIDE DEF rep, sot
    <3> QED  BY <1>3, <2>2, <3>1, AdvanceDevice
  <2> QED  BY <2>1, <2>2 DEF Advance
<1>6. \A e \in Devices, w \in Vaults :
        cursor'[e][w] = IF e = d /\ w = v THEN now ELSE cursor[e][w]
  BY <1>2, <1>4, <1>5
<1>7. LogsOK'
  <2>1. cursor'[d][v] = now  BY <1>2, <1>6
  <2>2. \A e \in Devices, w \in Vaults :
          <<e, w>> # <<d, v>> =>
            replica'[e][w] = replica[e][w] /\ cursor'[e][w] = cursor[e][w]
    BY <1>1, <1>6
  <2> QED  BY <1>1, <1>2, <1>5, <2>1, <2>2, FileStep
<1>8. \A e \in Devices \ {d} : cursor'[e] = cursor[e]  BY <1>4, <1>5
<1>9. c.edit # None =>
        made[c.edit] \in Change /\ c.edit \in InLog(sotLog[made[c.edit].vault])
  BY <1>1, <1>3, EditFacts DEF Settled, Syncing
<1>10. ASSUME NEW r \in Call, Set(d, s, r), r.pc = "idle", r.edit = c.edit
       PROVE  CallsOK'
  <2>1. CallOK(d, r)' /\ EditHeld(d, r)'
    BY <1>1, <1>9, <1>10 DEF CallOK, EditHeld, Syncing
  <2>2. Grows  BY <1>1 DEF Grows
  <2> QED  BY <1>1, <1>8, <1>10, <2>1, <2>2, OwnCall
<1> DEFINE r == [NoCall EXCEPT !.ret = "ok", !.edit = c.edit]
<1>11. Set(d, s, r)  BY <1>1 DEF Return
<1>12. r \in Call /\ r.pc = "idle" /\ r.edit = c.edit
  BY <1>2, NoCallType DEF NoCall, Call, Pcs, Syncing
<1> HIDE DEF r
<1> QED  BY <1>7, <1>10, <1>11, <1>12

\* An edit takes an unused identifier: the changes in use stay what they are.
LEMMA EditGrows ==
  ASSUME Assumed, SyncInv, NEW d \in Devices, NEW s \in Slots, EditStep(d, s)
  PROVE  Grows
<1>1. PICK x \in Ids, op \in Ops, q \in Ids : Edit(d, s, x, op, q)  BY DEF EditStep
<1>2. UNCHANGED <<sotLog, sotFiles>>  BY <1>1 DEF Edit, shared
<1>3. made[x] = NoChange /\ NoChange \notin Change
  BY <1>1 DEF Edit, NoChange, Change, Ops
<1>4. \A y \in Ids : y # x => made'[y] = made[y]
  BY <1>1 DEF Edit, SyncInv, ShapeInv, TypeOK
<1> QED  BY <1>2, <1>3, <1>4 DEF Grows

LEMMA EditInv ==
  ASSUME Assumed, SyncInv, NEW d \in Devices, NEW s \in Slots, EditStep(d, s)
  PROVE  LogsOK' /\ CallsOK'
<1> DEFINE v == open[d]
           rep == replica[d][v]
           cur == cursor[d][v]
<1>1. PICK x \in Ids, op \in Ops, q \in Ids : Edit(d, s, x, op, q)  BY DEF EditStep
<1>2. UNCHANGED <<sotLog, sotFiles, cursor, open>>  BY <1>1 DEF Edit, shared, selection
<1>3. v \in Vaults /\ chosen[d] = v  BY <1>1, CallsOpen DEF Edit
<1>4. /\ cur \in Ids \cup {None} /\ rep \in Log /\ sotLog[v] \in Log
      /\ DeviceOK(rep, cur, sotLog[v])
  BY <1>3, FileFacts
<1>5. made[x] = NoChange /\ NoChange \notin Change
  BY <1>1 DEF Edit, NoChange, Change, Ops
<1>6. made' = [made EXCEPT ![x] = [op |-> op, record |-> q, vault |-> v, by |-> d]]
  BY <1>1, <1>3 DEF Edit
<1>7. made'[x] \in Change /\ made'[x].vault = v
      /\ \A y \in Ids : y # x => made'[y] = made[y]
  BY <1>3, <1>6 DEF SyncInv, ShapeInv, TypeOK, Change
<1>8. Grows  BY EditGrows
<1> DEFINE new == Extend(rep, {x}, EmptyLog)
<1>9. new \in Log /\ InLog(new) = InLog(rep) \cup {x} /\ DeviceOK(new, cur, sotLog[v])
  <2> HIDE DEF rep, cur
  <2> QED  BY <1>4, EditDevice
<1>10. replica \in [Devices -> [Vaults -> Log]]  BY DEF SyncInv, ShapeInv, TypeOK
<1>11. replica' = [replica EXCEPT ![d][v] = new]  BY <1>1 DEF Edit
<1> HIDE DEF new
<1>12. \A e \in Devices, w \in Vaults :
         replica'[e][w] = IF e = d /\ w = v THEN new ELSE replica[e][w]
  BY <1>3, <1>10, <1>11
<1>13. LogsOK'
  <2>1. replica'[d][v] = new  BY <1>3, <1>12
  <2>2. \A e \in Devices, w \in Vaults :
          <<e, w>> # <<d, v>> =>
            replica'[e][w] = replica[e][w] /\ cursor'[e][w] = cursor[e][w]
    BY <1>2, <1>12
  <2> QED  BY <1>2, <1>3, <1>9, <2>1, <2>2, FileStep
<1>14. \A e \in Devices \ {d} : replica'[e] = replica[e]  BY <1>10, <1>11
<1>15. ASSUME NEW r \in Call, Set(d, s, r),
              \/ r.pc = "idle" /\ r.edit = None
              \/ r.pc = "cursor" /\ r.remote = {} /\ r.ret = "none" /\ r.edit = x
       PROVE  CallsOK'
  <2>1. CallOK(d, r)'
    BY <1>15 DEF CallOK, Syncing, CallFresh, LocalFresh, RemoteFresh
  <2>2. EditHeld(d, r)'
    <3>1. x \in InLog(replica'[d][v])  BY <1>3, <1>9, <1>12
    <3> QED  BY <1>2, <1>7, <1>15, <3>1 DEF EditHeld, Syncing
  <2> QED  BY <1>2, <1>8, <1>14, <1>15, <2>1, <2>2, OwnCall
<1>16. CASE Mode[d] = "auto"
  <2> DEFINE r == [NoCall EXCEPT !.pc = "cursor", !.kind = "sync", !.vault = chosen[d],
                                 !.edit = x]
  <2>1. Set(d, s, r)  BY <1>1, <1>16 DEF Edit, Begin
  <2>2. r \in Call  BY <1>3, NoCallType DEF NoCall, Call, Pcs, Syncing
  <2>3. r.pc = "cursor" /\ r.remote = {} /\ r.ret = "none" /\ r.edit = x
    BY DEF NoCall
  <2> HIDE DEF r
  <2> QED  BY <1>13, <1>15, <2>1, <2>2, <2>3
<1>17. CASE Mode[d] # "auto"
  <2> DEFINE r == [NoCall EXCEPT !.ret = "ok"]
  <2>1. Set(d, s, r)  BY <1>1, <1>17 DEF Edit
  <2>2. r \in Call /\ r.pc = "idle" /\ r.edit = None
    BY NoCallType DEF NoCall, Call, Pcs, Syncing
  <2> HIDE DEF r
  <2> QED  BY <1>13, <1>15, <2>1, <2>2
<1> QED  BY <1>16, <1>17

\* A step of SelectVault is not a sync: the call keeps an edit it had, which the daemon
\* holds.
LEMMA SelectInv ==
  ASSUME Assumed, SyncInv, NEW d \in Devices, NEW s \in Slots, SelectStep(d, s)
  PROVE  LogsOK' /\ CallsOK'
<1>1. UNCHANGED <<made, sotLog, sotFiles, replica, cursor>>
  BY SelectMarks DEF shared, stored
<1>2. call[d][s].pc \notin Syncing  BY SelectMarks DEF Selecting, Syncing
<1>3. PICK r, w, o, p : SelectTo(d, s, r, w, o, p)  BY SelectFits DEF SyncInv
<1>4. /\ r \in Call /\ Set(d, s, r) /\ r.edit \in {None, call[d][s].edit}
      /\ r.pc \notin Syncing
  BY <1>3 DEF SelectTo, Selecting, Syncing
<1>5. \A e \in Devices \ {d} : open'[e] = open[e]
  BY <1>3 DEF SelectTo, SyncInv, ShapeInv, TypeOK
<1>6. r.edit # None =>
        made[r.edit] \in Change /\ r.edit \in InLog(sotLog[made[r.edit].vault])
  BY <1>2, <1>4, EditFacts
<1>7. CallOK(d, r)' /\ EditHeld(d, r)'  BY <1>1, <1>4, <1>6 DEF CallOK, EditHeld
<1> QED  BY <1>1, <1>4, <1>5, <1>7, QuietStep

\* A beginning of a log is in order with it, wherever its cursor stands, and what lies
\* behind the cursor is a beginning of it too.
LEMMA BlobDevice ==
  ASSUME NEW blob \in Log, NEW sot \in Log, NEW cur \in InLog(blob) \cup {None},
         Dense(blob), Settled(InLog(blob), sot),
         \A x \in InLog(blob) : blob[x] = sot[x]
  PROVE  DeviceOK(blob, cur, sot) /\ Settled(Behind(blob, cur), sot)
<1>1. /\ InLog(blob) \subseteq InLog(sot)
      /\ \A x \in InLog(blob), y \in InLog(sot) : sot[y] <= sot[x] => y \in InLog(blob)
  BY DEF Settled, DownClosed
<1>2. \A x \in Ids : blob[x] \in Nat /\ sot[x] \in Nat  BY DEF Log
<1>3. Behind(blob, cur) \subseteq InLog(blob) /\ InLog(blob) \subseteq Ids
        /\ InLog(sot) \subseteq Ids
  BY Sides
<1>4. CASE cur = None
  <2>1. Behind(blob, cur) = {} /\ Behind(sot, cur) = {}
    BY <1>2, <1>4 DEF Behind, Row, InLog
  <2> QED  BY <2>1 DEF DeviceOK, Settled, DownClosed
<1>5. CASE cur # None
  <2>1. /\ cur \in InLog(blob) /\ cur \in Ids /\ cur \in InLog(sot)
        /\ blob[cur] = sot[cur]
    BY <1>1, <1>3, <1>5
  <2>2. Row(blob, cur) = blob[cur] /\ Row(sot, cur) = blob[cur]
    BY <1>5, <2>1 DEF Row
  <2>3. Behind(sot, cur) \subseteq Behind(blob, cur)
    <3> SUFFICES ASSUME NEW x \in Behind(sot, cur)  PROVE x \in Behind(blob, cur)
      OBVIOUS
    <3>1. x \in InLog(sot) /\ sot[x] <= sot[cur]  BY <2>1, <2>2 DEF Behind
    <3>2. x \in InLog(blob)  BY <1>1, <2>1, <3>1
    <3> QED  BY <2>1, <2>2, <3>1, <3>2 DEF Behind
  <2>4. ASSUME NEW x \in Behind(blob, cur), NEW y \in InLog(sot), sot[y] <= sot[x]
        PROVE  y \in Behind(blob, cur)
    <3>1. x \in InLog(blob) /\ blob[x] <= blob[cur]  BY <2>2 DEF Behind
    <3>2. y \in InLog(blob)  BY <1>1, <2>4, <3>1
    <3>3. blob[y] <= blob[x] /\ x \in Ids /\ y \in Ids  BY <1>3, <2>4, <3>1, <3>2
    <3>4. blob[y] <= blob[cur]  BY <1>2, <2>1, <3>1, <3>3
    <3> QED  BY <2>2, <3>2, <3>4 DEF Behind
  <2> QED  BY <1>1, <1>3, <1>5, <2>3, <2>4 DEF DeviceOK, Settled, DownClosed
<1> QED  BY <1>4, <1>5

\* What a call of SelectVault is about to store.
LEMMA BlobFacts ==
  ASSUME SyncInv, NEW d \in Devices, NEW s \in Slots, call[d][s].pc = "store"
  PROVE  /\ config[d] = call[d][s].vault /\ config[d] \in Vaults
         /\ config[d] \in sotFiles
         /\ call[d][s].blob \in Log /\ sotLog[config[d]] \in Log
         /\ Dense(call[d][s].blob)
         /\ Settled(InLog(call[d][s].blob), sotLog[config[d]])
         /\ \A x \in InLog(call[d][s].blob) :
              call[d][s].blob[x] = sotLog[config[d]][x]
<1>1. config[d] = call[d][s].vault  BY DEF SyncInv, VaultInv, CallWithin
<1>2. BlobOK(call[d][s])  BY DEF SyncInv, BlobsOK
<1>3. /\ config[d] \in Vaults /\ call[d][s].blob \in Log
      /\ sotLog[config[d]] \in Log
  BY DEF SyncInv, ShapeInv, TypeOK, CallInv, Selecting, Call
<1> QED  BY <1>1, <1>2, <1>3 DEF BlobOK

LEMMA StoreInv ==
  ASSUME Assumed, SyncInv, NEW d \in Devices, NEW s \in Slots, StoreBlob(d, s)
  PROVE  LogsOK' /\ CallsOK'
<1> DEFINE c == call[d][s]
           v == config[d]
           blob == c.blob
<1>1. /\ c.pc = "store" /\ v \in Vaults
      /\ UNCHANGED <<made, sotLog, sotFiles, open>>
      /\ \A e \in Devices, w \in Vaults :
           replica'[e][w] = IF e = d /\ w = v THEN blob ELSE replica[e][w]
      /\ replica' \in [Devices -> [Vaults -> Log]]
  BY StoreFits DEF SyncInv, shared, selection
<1>2. PICK cur : CursorTo(d, s, cur)  BY StoreFits DEF SyncInv
<1>3. PICK r : StoreTo(d, s, r)  BY StoreFits DEF SyncInv
<1>4. /\ r \in Call /\ Set(d, s, r) /\ r.pc = "open" /\ r.edit = c.edit
      /\ cur \in InLog(blob) \cup {None}
      /\ \A e \in Devices, w \in Vaults :
           cursor'[e][w] = IF e = d /\ w = v THEN cur ELSE cursor[e][w]
  BY <1>2, <1>3 DEF StoreTo, CursorTo
<1>5. DeviceOK(blob, cur, sotLog[v])
  <2> DEFINE sot == sotLog[v]
  <2>1. /\ blob \in Log /\ sot \in Log /\ Dense(blob) /\ Settled(InLog(blob), sot)
        /\ \A x \in InLog(blob) : blob[x] = sot[x]
    BY <1>1, BlobFacts
  <2>2. cur \in InLog(blob) \cup {None}  BY <1>4
  <2> HIDE DEF blob, sot
  <2> QED  BY <2>1, <2>2, BlobDevice DEF sot
<1>6. LogsOK'
  <2>1. DeviceOK(replica'[d][v], cursor'[d][v], sotLog[v])  BY <1>1, <1>4, <1>5
  <2>2. \A e \in Devices, w \in Vaults :
          <<e, w>> # <<d, v>> =>
            replica'[e][w] = replica[e][w] /\ cursor'[e][w] = cursor[e][w]
    BY <1>1, <1>4
  <2> QED  BY <1>1, <2>1, <2>2, FileStep
<1>7. \A e \in Devices \ {d} : replica'[e] = replica[e] /\ cursor'[e] = cursor[e]
  <2>1. cursor' \in [Devices -> [Vaults -> Ids \cup {None}]]  BY <1>2 DEF CursorTo
  <2> QED  BY <1>1, <1>4, <2>1 DEF SyncInv, ShapeInv, TypeOK
<1>8. c.edit # None =>
        made[c.edit] \in Change /\ c.edit \in InLog(sotLog[made[c.edit].vault])
  BY <1>1, EditFacts DEF Syncing
<1>9. CallOK(d, r)' /\ EditHeld(d, r)'
  BY <1>1, <1>4, <1>8 DEF CallOK, EditHeld, Syncing
<1>10. Grows  BY <1>1 DEF Grows
<1>11. CallsOK'  BY <1>1, <1>4, <1>7, <1>9, <1>10, OwnCall
<1> QED  BY <1>6, <1>11

LEMMA CrashInv ==
  ASSUME Assumed, SyncInv, NEW d \in Devices, Crash(d)
  PROVE  LogsOK' /\ CallsOK'
<1>1. /\ UNCHANGED <<made, sotLog, sotFiles, replica, cursor>>
      /\ call' = [call EXCEPT ![d] = [s \in Slots |-> NoCall]]
      /\ \A e \in Devices \ {d} : open'[e] = open[e]
  BY DEF Crash, shared, stored, SyncInv, ShapeInv, TypeOK
<1>2. PICK s \in Slots : TRUE  BY DEF Crash
<1>3. \A t \in Slots : t = s  BY DEF Assumed, SerialCalls
<1>4. call \in [Devices -> [Slots -> Call]]  BY DEF SyncInv, ShapeInv, TypeOK
<1>5. [t \in Slots |-> NoCall] = [call[d] EXCEPT ![s] = NoCall]  BY <1>3, <1>4
<1>6. Set(d, s, NoCall)  BY <1>1, <1>5 DEF Set
<1>7. NoCall \in Call /\ NoCall.pc = "idle" /\ NoCall.edit = None
  BY NoCallType DEF NoCall
<1>8. CallOK(d, NoCall)' /\ EditHeld(d, NoCall)'
  BY <1>7 DEF CallOK, EditHeld, Syncing
<1> QED  BY <1>1, <1>6, <1>7, <1>8, QuietStep

\* The creator's upload: the daemon keeps the first one, so nothing it holds goes.
LEMMA PostBlobGrows ==
  ASSUME Assumed, SyncInv, NEW d \in Devices, NEW v \in Vaults, NEW lost \in BOOLEAN,
         PostBlob(d, v, lost)
  PROVE  /\ Grows
         /\ \A w \in Vaults : \/ sotLog'[w] = sotLog[w]
                              \/ w = v /\ v \notin sotFiles
<1>1. UNCHANGED <<made, replica, cursor, open, call>> /\ sotFiles' = sotFiles \cup {v}
  BY DEF PostBlob, stored, selection
<1>2. /\ v \in sotFiles => sotLog' = sotLog
      /\ v \notin sotFiles => sotLog' = [sotLog EXCEPT ![v] = replica[d][v]]
  BY DEF PostBlob, Assumed
<1>3. ASSUME NEW w \in Vaults
      PROVE  \/ sotLog'[w] = sotLog[w]
             \/ w = v /\ v \notin sotFiles /\ sotLog'[w] = replica[d][v]
  <2>1. sotLog \in [Vaults -> Log]  BY DEF SyncInv, ShapeInv, TypeOK
  <2>2. CASE v \in sotFiles  BY <1>2, <2>2
  <2>3. CASE v \notin sotFiles  BY <1>2, <2>1, <2>3
  <2> QED  BY <2>2, <2>3
<1>4. replica[d][v] \in Log /\ Dense(replica[d][v])  BY FileFacts DEF DeviceOK
<1>5. Grows  BY <1>1, <1>3, <1>4 DEF Grows
<1> QED  BY <1>3, <1>5

LEMMA PostBlobInv ==
  ASSUME Assumed, SyncInv, NEW d \in Devices, NEW v \in Vaults, NEW lost \in BOOLEAN,
         PostBlob(d, v, lost)
  PROVE  LogsOK' /\ CallsOK'
<1>1. UNCHANGED <<made, replica, cursor, open, call>> /\ sotFiles' = sotFiles \cup {v}
  BY DEF PostBlob, stored, selection
<1>3. \A w \in Vaults : sotLog'[w] = sotLog[w] \/ (w = v /\ v \notin sotFiles)
  BY PostBlobGrows
<1>5. Grows  BY PostBlobGrows
<1>6. CallsOK'
  <2> SUFFICES ASSUME NEW e \in Devices, NEW t \in Slots
               PROVE  CallOK(e, call[e][t])' /\ EditHeld(e, call[e][t])'
    BY DEF CallsOK
  <2> QED  BY <1>1, <1>5, GrownCall
<1>7. LogsOK'
  <2> SUFFICES ASSUME NEW w \in Vaults
               PROVE  /\ Dense(sotLog'[w])
                      /\ w \notin sotFiles' => InLog(sotLog'[w]) = {}
                      /\ \A e \in Devices :
                           DeviceOK(replica[e][w], cursor[e][w], sotLog'[w])
    BY <1>1 DEF LogsOK
  <2>1. \A e \in Devices :
          Dense(sotLog'[w]) /\ DeviceOK(replica[e][w], cursor[e][w], sotLog'[w])
    BY <1>5, GrownLog
  <2>2. w \notin sotFiles' => InLog(sotLog'[w]) = {}  BY <1>1, <1>3, FileFacts
  <2> QED  BY <2>1, <2>2
<1> QED  BY <1>6, <1>7

\* Every step extends the daemon's logs at their ends, or uploads one for the first time.
LEMMA StepGrows ==
  ASSUME Assumed, SyncInv, [Next]_vars
  PROVE  Grows
<1> USE DEF shared, stored
<1>1. ASSUME UNCHANGED <<made, sotLog, sotFiles>>  PROVE Grows
  BY <1>1 DEF Grows
<1>2. CASE UNCHANGED vars  BY <1>1, <1>2 DEF vars
<1>3. ASSUME NEW d \in Devices, NEW s \in Slots, PlainStep(d, s)  PROVE Grows
  <2>1. CASE Push(d, s) \/ PushAnswerLost(d, s)
    BY <2>1, PushLogs DEF Push, PushAnswerLost
  <2>2. CASE ~(Push(d, s) \/ PushAnswerLost(d, s))
    <3>1. UNCHANGED <<made, sotLog, sotFiles>>
      BY <1>3, <2>2 DEF PlainStep, ReadCursor, ReadLocal, CountRemote, FetchRemote,
                        PushRefused, Merge, Advance, UnknownVault, NotOpen, Fail
    <3> QED  BY <1>1, <3>1
  <2> QED  BY <2>1, <2>2
<1>4. ASSUME NEW d \in Devices, NEW s \in Slots, SelectStep(d, s) \/ StoreBlob(d, s)
      PROVE  Grows
  BY <1>1, <1>4, SelectMarks DEF StoreBlob
<1>5. ASSUME NEW d \in Devices, NEW s \in Slots, StartSync(d, s) \/ ListRecord(d, s)
      PROVE  Grows
  BY <1>1, <1>5 DEF StartSync, ListRecord
<1>6. ASSUME NEW d \in Devices, Crash(d)  PROVE Grows
  BY <1>1, <1>6 DEF Crash
<1> QED
  BY <1>2, <1>3, <1>4, <1>5, <1>6, CallForms, EditForms, EditGrows, PostBlobGrows DEF Next

\* A call comes to store a blob by GetRecordBlob only.
LEMMA StoreFrom ==
  ASSUME SyncInv, [Next]_vars, NEW e \in Devices, NEW t \in Slots,
         call'[e][t].pc = "store"
  PROVE  \/ call'[e][t] = call[e][t]
         \/ /\ UNCHANGED <<sotLog, sotFiles>> /\ call[e][t].vault \in Vaults
            /\ call'[e][t].vault = call[e][t].vault
            /\ call'[e][t].vault \in sotFiles
            /\ call'[e][t].blob = sotLog[call'[e][t].vault]
<1> USE DEF shared
<1>1. CASE UNCHANGED call  BY <1>1
<1>2. ASSUME NEW d \in Devices, NEW s \in Slots, NEW r \in Call, Set(d, s, r),
             r.pc # "store"
      PROVE  call'[e][t] = call[e][t]
  <2>1. call'[d][s] = r /\ (<<e, t>> # <<d, s>> => call'[e][t] = call[e][t])
    BY <1>2, SetCall DEF SyncInv, ShapeInv, TypeOK
  <2> QED  BY <1>2, <2>1
<1>3. ASSUME NEW d \in Devices, NEW s \in Slots, PlainStep(d, s)
      PROVE  call'[e][t] = call[e][t]
  <2>1. PICK r : CallFits(r) /\ Set(d, s, r)  BY <1>3, PlainFits DEF SyncInv
  <2> QED  BY <1>2, <2>1 DEF CallFits, Selecting
<1>4. ASSUME NEW d \in Devices, NEW s \in Slots, EditStep(d, s)
      PROVE  call'[e][t] = call[e][t]
  <2>1. PICK r : CallFits(r) /\ Set(d, s, r)  BY <1>4, EditFits DEF SyncInv, EditStep
  <2> QED  BY <1>2, <2>1 DEF CallFits, Selecting
<1>5. ASSUME NEW d \in Devices, NEW s \in Slots, StartSync(d, s) \/ ListRecord(d, s)
      PROVE  call'[e][t] = call[e][t]
  <2>1. \E kind \in {"sync", "check"} : chosen[d] # None /\ Begin(d, s, kind, None)
    BY <1>5 DEF StartSync, ListRecord, Calls
  <2>2. PICK r : CallFits(r) /\ Set(d, s, r)  BY <2>1, BeginFits DEF SyncInv
  <2> QED  BY <1>2, <2>2 DEF CallFits, Selecting
<1>6. ASSUME NEW d \in Devices, NEW s \in Slots, StoreBlob(d, s)
      PROVE  call'[e][t] = call[e][t]
  BY <1>2, <1>6, StoreFits DEF SyncInv, StoreTo
<1>7. ASSUME NEW d \in Devices, NEW s \in Slots, SelectStep(d, s)
      PROVE  \/ call'[e][t] = call[e][t]
             \/ /\ UNCHANGED <<sotLog, sotFiles>> /\ call[e][t].vault \in Vaults
                /\ call'[e][t].vault = call[e][t].vault
                /\ call'[e][t].vault \in sotFiles
                /\ call'[e][t].blob = sotLog[call'[e][t].vault]
  <2>1. PICK r, w, o, p : SelectTo(d, s, r, w, o, p)  BY <1>7, SelectFits DEF SyncInv
  <2>2. UNCHANGED <<sotLog, sotFiles>>  BY <1>7, SelectMarks
  <2>3. call'[d][s] = r /\ (<<e, t>> # <<d, s>> => call'[e][t] = call[e][t])
    BY <2>1, SetCall DEF SyncInv, ShapeInv, TypeOK, SelectTo
  <2>4. CASE <<e, t>> = <<d, s>>  BY <2>1, <2>2, <2>3, <2>4 DEF SelectTo
  <2> QED  BY <2>3, <2>4
<1>8. ASSUME NEW d \in Devices, Crash(d)  PROVE call'[e][t] = call[e][t]
  <2>1. e # d  BY <1>8, NoCallType DEF Crash, SyncInv, ShapeInv, TypeOK
  <2> QED  BY <1>8, <2>1 DEF Crash, SyncInv, ShapeInv, TypeOK
<1>9. ASSUME NEW d \in Devices, NEW v \in Vaults, NEW lost \in BOOLEAN,
             PostBlob(d, v, lost)
      PROVE  UNCHANGED call
  BY <1>9 DEF PostBlob
<1> QED
  BY <1>1, <1>3, <1>4, <1>5, <1>6, <1>7, <1>8, <1>9, CallForms, EditForms DEF Next, vars

LEMMA BlobStep ==
  ASSUME Assumed, SyncInv, [Next]_vars
  PROVE  BlobsOK'
<1> SUFFICES ASSUME NEW e \in Devices, NEW t \in Slots, call'[e][t].pc = "store"
             PROVE  BlobOK(call[e][t])'
  BY DEF BlobsOK, BlobOK
<1>1. CASE call'[e][t] = call[e][t]
  <2> DEFINE v == config[e]
             blob == call[e][t].blob
             sot == sotLog[v]
  <2>1. /\ v = call[e][t].vault /\ v \in Vaults /\ v \in sotFiles
        /\ blob \in Log /\ sot \in Log /\ Dense(blob)
        /\ Settled(InLog(blob), sot)
        /\ \A x \in InLog(blob) : blob[x] = sot[x]
    BY <1>1, BlobFacts
  <2>2. Grows /\ Dense(sot)  BY <2>1, StepGrows, FileFacts
  <2>3. Settled(InLog(blob), sotLog'[v]) /\ \A x \in InLog(blob) : blob[x] = sotLog'[v][x]
    <3>1. CASE sotLog'[v] = sot  BY <2>1, <3>1
    <3>2. CASE \E S \in SUBSET Ids, ord \in Log : sotLog'[v] = Extend(sot, S, ord)
      <4>1. PICK S \in SUBSET Ids, ord \in Log : sotLog'[v] = Extend(sot, S, ord)
        BY <3>2
      <4> HIDE DEF sot, blob
      <4>2. Settled(InLog(blob), Extend(sot, S, ord))  BY <2>1, <2>2, GrowSettled
      <4>3. \A x \in InLog(sot) : Extend(sot, S, ord)[x] = sot[x]
        BY <2>1, ExtendInLog
      <4>4. InLog(blob) \subseteq InLog(sot)  BY <2>1 DEF Settled
      <4> QED  BY <2>1, <4>1, <4>2, <4>3, <4>4
    <3> QED  BY <2>1, <2>2, <3>1, <3>2 DEF Grows
  <2>4. v \in sotFiles'  BY <2>1, <2>2 DEF Grows
  <2> HIDE DEF v
  <2> QED  BY <1>1, <2>1, <2>3, <2>4 DEF BlobOK, InLog
<1>2. CASE call'[e][t] # call[e][t]
  <2> DEFINE v == call'[e][t].vault
  <2>1. /\ UNCHANGED <<sotLog, sotFiles>> /\ v \in Vaults /\ v \in sotFiles
        /\ call'[e][t].blob = sotLog[v]
    BY <1>2, StoreFrom
  <2>2. Dense(sotLog[v])  BY <2>1, FileFacts
  <2>3. Settled(InLog(sotLog[v]), sotLog[v])  BY DEF Settled, DownClosed
  <2> QED  BY <2>1, <2>2, <2>3 DEF BlobOK, InLog
<1> QED  BY <1>1, <1>2

LEMMA SyncInvInit == Init => SyncInv
<1> SUFFICES ASSUME Init  PROVE SyncInv
  OBVIOUS
<1>1. ShapeInv  BY ShapeInit
<1>2. VaultInv  BY VaultInit
<1>3. LogsOK  BY EmptyDevice DEF Init, LogsOK
<1>4. NoCall.pc = "idle" /\ NoCall.edit = None  BY DEF NoCall
<1>5. \A d \in Devices, s \in Slots : call[d][s] = NoCall  BY DEF Init
<1>6. CallsOK /\ BlobsOK
  BY <1>4, <1>5 DEF CallsOK, CallOK, EditHeld, Syncing, BlobsOK, BlobOK
<1> QED  BY <1>1, <1>2, <1>3, <1>6 DEF Init, SyncInv

LEMMA SyncInvStep == ASSUME Assumed PROVE SyncInv /\ [Next]_vars => SyncInv'
<1> SUFFICES ASSUME SyncInv, [Next]_vars  PROVE SyncInv'
  OBVIOUS
<1>1. ShapeInv' /\ VaultInv' /\ switched' = {} /\ misled' = {} /\ BlobsOK'
  BY ShapeStep, VaultStep, NeverMarked, BlobStep DEF SyncInv
<1> USE DEF shared, stored, selection
<1>2. ASSUME NEW d \in Devices, NEW s \in Slots, PlainStep(d, s)
      PROVE  LogsOK' /\ CallsOK'
  <2>1. CASE ReadCursor(d, s) \/ ReadLocal(d, s)  BY <2>1, ReadInv
  <2>2. CASE CountRemote(d, s)  BY <2>2, CountInv
  <2>3. CASE FetchRemote(d, s)  BY <2>3, FetchInv
  <2>4. CASE Push(d, s)  BY <2>4, PushInv
  <2>5. CASE PushAnswerLost(d, s)  BY <2>5, PushAnswerLostInv
  <2>6. CASE Merge(d, s)  BY <2>6, MergeInv
  <2>7. CASE Advance(d, s)  BY <2>7, AdvanceInv
  <2>8. CASE UnknownVault(d, s) \/ NotOpen(d, s) \/ PushRefused(d, s) \/ Fail(d, s)
    BY <2>8, ReturnStep DEF UnknownVault, NotOpen, PushRefused, Fail
  <2> QED
    BY <1>2, <2>1, <2>2, <2>3, <2>4, <2>5, <2>6, <2>7, <2>8 DEF PlainStep
<1>3. ASSUME NEW d \in Devices, NEW s \in Slots, StartSync(d, s) \/ ListRecord(d, s)
      PROVE  LogsOK' /\ CallsOK'
  <2>1. \E kind \in {"sync", "check"} : Begin(d, s, kind, None)
    BY <1>3 DEF StartSync, ListRecord
  <2>2. UNCHANGED <<made, sotLog, sotFiles, replica, cursor, open>>
    BY <1>3 DEF StartSync, ListRecord
  <2> QED  BY <2>1, <2>2, BeginInv
<1>4. ASSUME UNCHANGED vars  PROVE LogsOK' /\ CallsOK'
  <2>1. LogsOK'  BY <1>4 DEF vars, SyncInv, LogsOK
  <2>2. CallsOK'  BY <1>4 DEF vars, SyncInv, CallsOK, CallOK, EditHeld
  <2> QED  BY <2>1, <2>2
<1>5. ASSUME NEW d \in Devices, NEW s \in Slots, NEW c \in Ids,
             AppendRecord(d, s, c) \/ UpdateRecord(d, s, c) \/ DeleteRecord(d, s, c)
      PROVE  LogsOK' /\ CallsOK'
  BY <1>5, EditForms, EditInv
<1>6. LogsOK' /\ CallsOK'
  BY <1>2, <1>3, <1>4, <1>5, CallForms, SelectInv, StoreInv, CrashInv, PostBlobInv
  DEF Next
<1> QED  BY <1>1, <1>6 DEF SyncInv

\* SyncInv holds in every state, for an application that makes one call at a time and
\* selects a vault anew when SelectVault fails, and a daemon that keeps its promises: the
\* inductive invariant of the theorems below.
THEOREM SyncInvariant == ASSUME Assumed PROVE Spec => []SyncInv
<1>1. Init => SyncInv  BY SyncInvInit
<1>2. SyncInv /\ [Next]_vars => SyncInv'  BY SyncInvStep
<1> QED  BY <1>1, <1>2, PTL DEF Spec

\* Whatever requests fail and answers are lost, and wherever the program stops, no
\* change a file holds behind its cursor is missing at the daemon, and none the
\* daemon holds there is missing in the file.
THEOREM NothingIsSkipped == ASSUME Assumed PROVE Spec => []NothingSkipped
<1>1. SyncInv => NothingSkipped
  <2> SUFFICES ASSUME SyncInv, NEW d \in Devices, NEW v \in files[d]
               PROVE  /\ Behind(replica[d][v], cursor[d][v]) \subseteq InLog(sotLog[v])
                      /\ Behind(sotLog[v], cursor[d][v]) \subseteq InLog(replica[d][v])
    BY DEF NothingSkipped
  <2>1. v \in Vaults  BY DEF SyncInv, ShapeInv, TypeOK
  <2>2. Behind(replica[d][v], cursor[d][v]) \subseteq InLog(replica[d][v])  BY Sides
  <2> QED  BY <2>1, <2>2, FileFacts DEF DeviceOK
<1> QED  BY <1>1, SyncInvariant, PTL

\* An edit in auto mode that returned without an error is at the daemon.
THEOREM EditsAcked == ASSUME Assumed PROVE Spec => []AutoEditAcked
<1>1. SyncInv => AutoEditAcked
  <2> SUFFICES ASSUME SyncInv, NEW d \in Devices, NEW s \in Slots,
                      call[d][s].ret = "ok", call[d][s].edit # None
               PROVE  call[d][s].edit \in InLog(sotLog[made[call[d][s].edit].vault])
    BY DEF AutoEditAcked
  <2>1. EditHeld(d, call[d][s])  BY DEF SyncInv, CallsOK
  <2>2. call[d][s].pc \notin Syncing  BY <2>1 DEF EditHeld
  <2> QED  BY <2>2, EditFacts
<1> QED  BY <1>1, SyncInvariant, PTL

\* A check in manual mode that finds nothing to sync finds it of a file and a daemon
\* that hold the same changes, between whatever failures, for an application that
\* selects a vault anew when SelectVault fails.
THEOREM ManualCheck == ASSUME Assumed PROVE Spec => ManualCheckSound
<1> DEFINE Sound ==
      \A d \in Devices, s \in Slots :
        call[d][s].pc = "count" /\ call'[d][s].pc = "idle" /\ call'[d][s].ret = "clean"
          => InLog(replica[d][open[d]]) = InLog(sotLog[call[d][s].vault])
<1>1. SyncInv /\ [Next]_vars => Sound
  <2> SUFFICES ASSUME SyncInv, [Next]_vars, NEW d \in Devices, NEW s \in Slots,
                      call[d][s].pc = "count", call'[d][s].pc = "idle",
                      call'[d][s].ret = "clean"
               PROVE  InLog(replica[d][open[d]]) = InLog(sotLog[call[d][s].vault])
    OBVIOUS
  <2> DEFINE c == call[d][s]
             rep == replica[d][open[d]]
             cur == cursor[d][open[d]]
             sot == sotLog[open[d]]
  <2>1. call'[d][s] # call[d][s] /\ call' # call  OBVIOUS
  <2>2. call \in [Devices -> [Slots -> Call]]  BY DEF SyncInv, ShapeInv, TypeOK
  <2>3. ASSUME NEW e \in Devices, NEW t \in Slots, NEW r, Set(e, t, r)
        PROVE  e = d /\ t = s /\ call'[d][s] = r
    <3>1. t = s  BY DEF Assumed, SerialCalls
    <3> QED  BY <2>1, <2>2, <2>3, <3>1 DEF Set
  <2>4. ASSUME NEW e \in Devices, NEW t \in Slots,
               StartSync(e, t) \/ ListRecord(e, t) \/ EditStep(e, t)
        PROVE  FALSE
    <3>1. call[e][t].pc = "idle"
      BY <2>4 DEF StartSync, ListRecord, EditStep, Edit, Calls
    <3>2. \E r : Set(e, t, r)
      BY <2>4 DEF StartSync, ListRecord, EditStep, Edit, Begin
    <3> QED  BY <2>3, <3>1, <3>2
  <2>5. ASSUME NEW e \in Devices, NEW t \in Slots, SelectStep(e, t) \/ StoreBlob(e, t)
        PROVE  FALSE
    <3>1. call[e][t].pc # "count"  BY <2>5, SelectMarks DEF StoreBlob, Selecting
    <3>2. \E r : Set(e, t, r)
      BY <2>5, SelectFits DEF SyncInv, SelectTo, StoreBlob
    <3> QED  BY <2>3, <3>1, <3>2
  <2>6. ASSUME NEW e \in Devices, Crash(e)  PROVE FALSE
    <3>1. e = d  BY <2>1, <2>2, <2>6 DEF Crash
    <3>2. call'[d][s] = NoCall  BY <2>2, <2>6, <3>1 DEF Crash
    <3> QED  BY <3>2 DEF NoCall
  <2>7. ASSUME NEW e \in Devices, NEW t \in Slots, PlainStep(e, t)
        PROVE  CountRemote(d, s)
    <3>1. \E r : Set(e, t, r)  BY <2>7, PlainFits DEF SyncInv
    <3>2. e = d /\ t = s  BY <2>3, <3>1
    <3>3. ~Return(d, s, "err")
      <4> SUFFICES ASSUME Return(d, s, "err")  PROVE FALSE
        OBVIOUS
      <4>1. call'[d][s] = [NoCall EXCEPT !.ret = "err", !.edit = None]
        BY <2>3 DEF Return
      <4> QED  BY <4>1 DEF NoCall
    <3> QED
      BY <2>7, <3>2, <3>3 DEF PlainStep, UnknownVault, NotOpen, Fail, ReadCursor, ReadLocal,
                              FetchRemote, Push, PushRefused, PushAnswerLost, Merge, Advance
  <2>8. CountRemote(d, s)
    BY <2>1, <2>4, <2>5, <2>6, <2>7, EditForms, CallForms DEF Next, vars, PostBlob
  <2>9. /\ open[d] \in Vaults /\ c.vault = open[d] /\ CallFresh(c, rep, cur, sot)
    BY CallFacts DEF Syncing
  <2>10. /\ rep \in Log /\ sot \in Log /\ cur \in Ids \cup {None}
         /\ DeviceOK(rep, cur, sot)
    BY <2>9, FileFacts
  <2>11. c.start = cur /\ c.local = After(rep, cur)  BY <2>9 DEF CallFresh, LocalFresh
  <2> DEFINE n == Cardinality(After(sotLog[c.vault], c.start))
  <2>12. c.local = {} /\ n = 0
    <3>1. CASE c.kind = "check"
      <4>1. Return(d, s, IF c.local = {} /\ n = 0 THEN "clean" ELSE "dirty")
        BY <2>8, <3>1 DEF CountRemote
      <4> SUFFICES ASSUME ~(c.local = {} /\ n = 0)  PROVE FALSE
        OBVIOUS
      <4>2. Return(d, s, "dirty")  BY <4>1
      <4>3. Set(d, s, [NoCall EXCEPT !.ret = "dirty", !.edit = None])
        BY <4>2 DEF Return
      <4>4. call'[d][s] = [NoCall EXCEPT !.ret = "dirty", !.edit = None]
        BY <2>3, <4>3
      <4> QED  BY <4>4 DEF NoCall
    <3>2. CASE c.kind # "check"
      <4> DEFINE r == [c EXCEPT !.count = n, !.pc = IF n = 0 THEN "push" ELSE "fetch"]
      <4>1. Set(d, s, r)  BY <2>8, <3>2 DEF CountRemote
      <4>2. c \in Call  BY <2>2
      <4>3. r.pc # "idle"  BY <4>2 DEF Call
      <4> QED  BY <2>3, <4>1, <4>3
    <3> QED  BY <3>1, <3>2
  <2>13. After(sot, cur) = {}  BY <2>9, <2>11, <2>12, AfterIds, IdSets
  <2> QED  BY <2>9, <2>10, <2>11, <2>12, <2>13, NothingToFetch
<1> QED  BY <1>1, SyncInvariant, PTL DEF Spec, ManualCheckSound

--------------------------------------------------------------------------------
(* No update before its record *)

\* What each change is about, as a function of the change.
About == [x \in Ids |-> made[x].record]

LEMMA CausalOrdered ==
  ASSUME NEW log
  PROVE  Causal(log) <=> Ordered(log, About)
BY DEF Causal, Ordered, About, InLog

\* Every change of a log is in use, and is about a change.
LEMMA AboutIds ==
  ASSUME SyncInv, NEW v \in Vaults, NEW d \in Devices
  PROVE  \A x \in InLog(replica[d][v]) \cup InLog(sotLog[v]) :
           made[x] \in Change /\ About[x] \in Ids
<1>1. Within(InLog(sotLog[v]), v) /\ Within(InLog(replica[d][v]), v)
  BY DEF SyncInv, VaultInv, LogsWithin
<1>2. InLog(sotLog[v]) \subseteq Ids /\ InLog(replica[d][v]) \subseteq Ids  BY Sides
<1> QED  BY <1>1, <1>2 DEF Within, About, Change

LEMMA PushCausal ==
  ASSUME Assumed, SyncInv, CausalOrder, NEW d \in Devices, NEW s \in Slots,
         call[d][s].pc = "push", Apply(d, call[d][s]), UNCHANGED <<made, replica>>
  PROVE  CausalOrder'
<1> DEFINE c == call[d][s]
           v == open[d]
           rep == replica[d][v]
           cur == cursor[d][v]
           sot == sotLog[v]
           new == Extend(sot, After(rep, cur), rep)
<1>1. /\ v \in Vaults /\ c.vault = v /\ c.from = v /\ CallFresh(c, rep, cur, sot)
  BY CallFacts DEF Syncing
<1>2. /\ cur \in Ids \cup {None} /\ rep \in Log /\ sot \in Log /\ Dense(sot)
      /\ DeviceOK(rep, cur, sot)
  BY <1>1, FileFacts
<1>3. c.local = After(rep, cur)  BY <1>1 DEF CallFresh, LocalFresh
<1>4. \A x \in InLog(rep) \cup InLog(sot) : About[x] \in Ids  BY <1>1, AboutIds
<1>5. Ordered(rep, About) /\ Ordered(sot, About)
  BY <1>1, CausalOrdered DEF CausalOrder
<1>6. Ordered(new, About)
  <2> HIDE DEF rep, cur, sot
  <2> QED  BY <1>2, <1>4, <1>5, PushOrdered
<1> HIDE DEF new
<1>7. Causal(new)  BY <1>6, CausalOrdered
<1>8. \A w \in Vaults : sotLog'[w] = IF w = v THEN new ELSE sotLog[w]
  BY <1>1, <1>3 DEF Apply, SyncInv, ShapeInv, TypeOK, new
<1>9. ASSUME NEW w \in Vaults  PROVE Causal(sotLog'[w])
  BY <1>7, <1>8 DEF CausalOrder
<1> QED  BY <1>9 DEF CausalOrder, Causal

LEMMA MergeCausal ==
  ASSUME Assumed, SyncInv, CausalOrder, NEW d \in Devices, NEW s \in Slots, Merge(d, s)
  PROVE  CausalOrder'
<1> DEFINE c == call[d][s]
           v == open[d]
           rep == replica[d][v]
           cur == cursor[d][v]
           sot == sotLog[v]
<1>1. c.pc = "merge" /\ UNCHANGED <<made, sotLog>>  BY DEF Merge, shared
<1>2. /\ v \in Vaults /\ c.vault = v /\ CallFresh(c, rep, cur, sot)
  BY <1>1, CallFacts DEF Syncing
<1>3. /\ cur \in Ids \cup {None} /\ rep \in Log /\ sot \in Log /\ DeviceOK(rep, cur, sot)
  BY <1>2, FileFacts
<1>4. c.local = After(rep, cur) /\ Settled(Behind(sot, cur) \cup c.remote, sot)
  BY <1>1, <1>2 DEF CallFresh, LocalFresh
<1>5. \A x \in InLog(rep) \cup InLog(sot) : About[x] \in Ids  BY <1>2, AboutIds
<1>6. Ordered(rep, About) /\ Ordered(sot, About)
  BY <1>2, CausalOrdered DEF CausalOrder
<1>7. PICK new \in {Appended(rep, c, sot), Rebased(rep, c, sot)} :
        replica' = [replica EXCEPT ![d][v] = new]
  BY <1>2 DEF Merge
<1>8. Ordered(new, About)
  <2> DEFINE L == c.local
             R == c.remote
  <2>1. \/ new = Extend(rep, R, sot)
        \/ new = Extend(Extend(Only(rep, Ids \ L), R, sot), L, rep)
    BY <1>7 DEF Appended, Rebased
  <2>2. L = After(rep, cur) /\ Settled(Behind(sot, cur) \cup R, sot)  BY <1>4
  <2> HIDE DEF L, R, rep, cur, sot
  <2> QED  BY <1>3, <1>5, <1>6, <2>1, <2>2, MergeOrdered
<1>9. Causal(new)  BY <1>8, CausalOrdered
<1>10. \A e \in Devices, w \in Vaults :
         replica'[e][w] = IF e = d /\ w = v THEN new ELSE replica[e][w]
  BY <1>2, <1>7 DEF SyncInv, ShapeInv, TypeOK
<1>11. ASSUME NEW e \in Devices, NEW w \in Vaults  PROVE Causal(replica'[e][w])
  BY <1>9, <1>10 DEF CausalOrder
<1> QED  BY <1>1, <1>11 DEF CausalOrder, Causal

\* The new change is about itself or about a record the open file shows.
LEMMA EditAbout ==
  ASSUME NEW d \in Devices, NEW s \in Slots, NEW x \in Ids,
         AppendRecord(d, s, x) \/ UpdateRecord(d, s, x) \/ DeleteRecord(d, s, x)
  PROVE  \E op \in Ops, r \in Ids :
           /\ Edit(d, s, x, op, r)
           /\ r = x \/ r \in InLog(replica[d][open[d]])
<1>1. Listed(replica[d][open[d]]) \subseteq InLog(replica[d][open[d]])
  BY DEF Listed
<1>2. InLog(replica[d][open[d]]) \subseteq Ids  BY Sides
<1>3. {"append", "update", "delete"} \subseteq Ops  BY DEF Ops
<1>4. CASE AppendRecord(d, s, x)  BY <1>3, <1>4 DEF AppendRecord
<1>5. CASE UpdateRecord(d, s, x)  BY <1>1, <1>2, <1>3, <1>5 DEF UpdateRecord
<1>6. CASE DeleteRecord(d, s, x)  BY <1>1, <1>2, <1>3, <1>6 DEF DeleteRecord
<1> QED  BY <1>4, <1>5, <1>6

LEMMA EditCausal ==
  ASSUME Assumed, SyncInv, CausalOrder, NEW d \in Devices, NEW s \in Slots,
         NEW x \in Ids,
         AppendRecord(d, s, x) \/ UpdateRecord(d, s, x) \/ DeleteRecord(d, s, x)
  PROVE  CausalOrder'
<1> DEFINE v == open[d]
           rep == replica[d][v]
           X == {x}
           new == Extend(rep, X, EmptyLog)
           about == [y \in Ids |-> made'[y].record]
<1>1. PICK op \in Ops, r \in Ids :
        Edit(d, s, x, op, r) /\ (r = x \/ r \in InLog(rep))
  BY EditAbout
<1>2. v \in Vaults /\ chosen[d] = v  BY <1>1, CallsOpen DEF Edit
<1>3. rep \in Log /\ Dense(rep)  BY <1>2, FileFacts DEF DeviceOK
<1>4. made[x] = NoChange /\ NoChange \notin Change
  BY <1>1 DEF Edit, NoChange, Change, Ops
<1>5. made' = [made EXCEPT ![x] = [op |-> op, record |-> r, vault |-> v, by |-> d]]
  BY <1>1, <1>2 DEF Edit
<1>6. made'[x].record = r /\ \A y \in Ids : y # x => made'[y] = made[y]
  BY <1>5 DEF SyncInv, ShapeInv, TypeOK
<1>7. \A e \in Devices, w \in Vaults :
        \A y \in InLog(replica[e][w]) \cup InLog(sotLog[w]) :
          y \in Ids /\ y # x /\ About[y] \in Ids /\ made'[y] = made[y]
  <2>1. \A log : InLog(log) \subseteq Ids  BY Sides
  <2> QED  BY <1>4, <1>6, <2>1, AboutIds
<1>8. Ordered(new, about)
  <2>1. \A y \in InLog(rep) : about[y] = About[y] /\ about[y] \in Ids
    BY <1>2, <1>7 DEF About
  <2>2. about[x] = r  BY <1>6
  <2>3. Ordered(rep, about)
    <3>1. Ordered(rep, About)  BY <1>2, CausalOrdered DEF CausalOrder
    <3> QED  BY <2>1, <3>1 DEF Ordered
  <2>4. \A y \in InLog(rep) \cup X : about[y] \in Ids  BY <2>1, <2>2
  <2>5. \A y \in X \ InLog(rep) : about[y] # y => about[y] \in InLog(rep)
    BY <1>1, <2>2
  <2>6. X \in SUBSET Ids /\ EmptyLog \in Log  BY EmptyDevice
  <2> HIDE DEF X, rep, about
  <2> QED  BY <1>3, <2>3, <2>4, <2>5, <2>6, ExtendOrdered
<1>9. replica \in [Devices -> [Vaults -> Log]]  BY DEF SyncInv, ShapeInv, TypeOK
<1>10. replica' = [replica EXCEPT ![d][v] = new] /\ UNCHANGED sotLog
  BY <1>1 DEF Edit, shared
<1> HIDE DEF new
<1>11. \A e \in Devices, w \in Vaults :
         replica'[e][w] = IF e = d /\ w = v THEN new ELSE replica[e][w]
  BY <1>2, <1>9, <1>10
<1>12. ASSUME NEW log, Ordered(log, about)
       PROVE  \A y \in InLog(log) :
                made'[y].record # y =>
                  log[made'[y].record] > 0 /\ log[made'[y].record] < log[y]
  BY <1>12 DEF Ordered, InLog
<1>13. ASSUME NEW e \in Devices, NEW w \in Vaults
       PROVE  Causal(sotLog[w])' /\ Causal(replica[e][w])'
  <2>1. Causal(sotLog[w]) /\ Causal(replica[e][w])  BY DEF CausalOrder
  <2>2. Causal(sotLog[w])'  BY <1>7, <1>10, <2>1 DEF Causal
  <2>3. Causal(replica[e][w])'
    <3>1. CASE e = d /\ w = v  BY <1>8, <1>11, <1>12, <3>1 DEF Causal
    <3>2. CASE ~(e = d /\ w = v)  BY <1>7, <1>11, <2>1, <3>2 DEF Causal
    <3> QED  BY <3>1, <3>2
  <2> QED  BY <2>2, <2>3
<1> QED  BY <1>13 DEF CausalOrder

LEMMA StoreCausal ==
  ASSUME SyncInv, CausalOrder, NEW d \in Devices, NEW s \in Slots, StoreBlob(d, s)
  PROVE  CausalOrder'
<1> DEFINE v == config[d]
           blob == call[d][s].blob
           sot == sotLog[v]
<1>1. /\ UNCHANGED <<made, sotLog>>
      /\ \A e \in Devices, w \in Vaults :
           replica'[e][w] = IF e = d /\ w = v THEN blob ELSE replica[e][w]
      /\ call[d][s].pc = "store"
  BY StoreFits DEF SyncInv, shared
<1>2. /\ v \in Vaults /\ Settled(InLog(blob), sot)
      /\ \A x \in InLog(blob) : blob[x] = sot[x]
      /\ blob \in Log /\ sot \in Log
  BY <1>1, BlobFacts
<1>3. /\ InLog(blob) \subseteq InLog(sot)
      /\ \A x \in InLog(blob), y \in InLog(sot) : sot[y] <= sot[x] => y \in InLog(blob)
  BY <1>2 DEF Settled, DownClosed
<1>4. \A x \in InLog(sot) : made[x].record \in Ids /\ x \in Ids
  BY <1>2, AboutIds, Sides DEF About
<1>5. Causal(sot)  BY <1>2 DEF CausalOrder
<1>6. Causal(blob)
  <2> SUFFICES ASSUME NEW x \in InLog(blob), made[x].record # x
               PROVE  blob[made[x].record] > 0 /\ blob[made[x].record] < blob[x]
    BY DEF Causal
  <2> DEFINE r == made[x].record
  <2>1. x \in InLog(sot) /\ blob[x] = sot[x]  BY <1>2, <1>3
  <2>2. r \in Ids /\ x \in Ids  BY <1>4, <2>1
  <2>3. sot[r] > 0 /\ sot[r] < sot[x]  BY <1>5, <2>1 DEF Causal
  <2> HIDE DEF r, blob, sot
  <2>4. sot[r] \in Nat /\ sot[x] \in Nat  BY <1>2, <2>2 DEF Log
  <2>5. r \in InLog(sot)  BY <2>2, <2>3 DEF InLog
  <2>6. r \in InLog(blob)  BY <1>3, <2>3, <2>4, <2>5
  <2>7. blob[r] = sot[r]  BY <1>2, <2>6
  <2> QED  BY <2>1, <2>3, <2>7 DEF r
<1>7. ASSUME NEW e \in Devices, NEW w \in Vaults  PROVE Causal(replica'[e][w])
  BY <1>1, <1>6 DEF CausalOrder
<1> QED  BY <1>1, <1>7 DEF CausalOrder, Causal

LEMMA CausalStep ==
  ASSUME Assumed PROVE SyncInv /\ CausalOrder /\ [Next]_vars => CausalOrder'
<1> SUFFICES ASSUME SyncInv, CausalOrder, [Next]_vars  PROVE CausalOrder'
  OBVIOUS
<1> USE DEF shared, stored, selection
<1>1. ASSUME UNCHANGED <<made, sotLog, replica>>  PROVE CausalOrder'
  BY <1>1 DEF CausalOrder, Causal
<1>2. ASSUME NEW d \in Devices, NEW s \in Slots,
             PlainStep(d, s) \/ SelectStep(d, s) \/ StoreBlob(d, s)
      PROVE  CausalOrder'
  <2>1. CASE Push(d, s) \/ PushAnswerLost(d, s)
    BY <2>1, PushCausal DEF Push, PushAnswerLost
  <2>2. CASE Merge(d, s)  BY <2>2, MergeCausal
  <2>3. CASE StoreBlob(d, s)  BY <2>3, StoreCausal
  <2>4. CASE SelectStep(d, s)  BY <1>1, <2>4, SelectMarks
  <2>5. CASE PlainStep(d, s) /\ ~(Push(d, s) \/ PushAnswerLost(d, s) \/ Merge(d, s))
    <3>1. UNCHANGED <<made, sotLog, replica>>
      BY <2>5 DEF PlainStep, UnknownVault, NotOpen, ReadCursor, ReadLocal, CountRemote,
                  FetchRemote, PushRefused, Advance, Fail
    <3> QED  BY <1>1, <3>1
  <2> QED  BY <1>2, <2>1, <2>2, <2>3, <2>4, <2>5
<1>3. ASSUME NEW d \in Devices, NEW v \in Vaults, NEW lost \in BOOLEAN,
             PostBlob(d, v, lost)
      PROVE  CausalOrder'
  <2>1. UNCHANGED <<made, replica>>  BY <1>3 DEF PostBlob
  <2>2. ASSUME NEW w \in Vaults  PROVE Causal(sotLog'[w])
    <3>1. sotLog \in [Vaults -> Log]  BY DEF SyncInv, ShapeInv, TypeOK
    <3>2. sotLog'[w] = sotLog[w] \/ sotLog'[w] = replica[d][w]
      <4>1. CASE sotLog' = sotLog  BY <4>1
      <4>2. CASE sotLog' = [sotLog EXCEPT ![v] = replica[d][v]]  BY <3>1, <4>2
      <4> QED  BY <1>3, <4>1, <4>2 DEF PostBlob
    <3> QED  BY <3>2 DEF CausalOrder
  <2> QED  BY <2>1, <2>2 DEF CausalOrder, Causal
<1>4. ASSUME NEW d \in Devices, NEW s \in Slots, StartSync(d, s) \/ ListRecord(d, s)
      PROVE  CausalOrder'
  BY <1>1, <1>4 DEF StartSync, ListRecord
<1>5. ASSUME NEW d \in Devices, Crash(d)  PROVE CausalOrder'
  BY <1>1, <1>5 DEF Crash
<1>6. CASE UNCHANGED vars  BY <1>1, <1>6 DEF vars
<1> QED  BY <1>2, <1>3, <1>4, <1>5, <1>6, EditCausal, CallForms DEF Next

\* The daemon and every file hold a record before any change of it, in whichever way
\* the stores merge.
THEOREM RecordsBeforeTheirChanges == ASSUME Assumed PROVE Spec => []CausalOrder
<1>1. Init => CausalOrder
  BY EmptyDevice DEF Init, CausalOrder, Causal
<1>2. SyncInv /\ CausalOrder /\ [Next]_vars => CausalOrder'  BY CausalStep
<1> QED  BY <1>1, <1>2, SyncInvariant, PTL DEF Spec

--------------------------------------------------------------------------------
(* A device holds the files its changes are in: no download is put in the place *)
(* of changes, and no change is made in a file that is not there.               *)

\* A step that downloads nothing and writes only into files the device holds.
LEMMA FilesKept ==
  ASSUME FilesOK, UNCHANGED files,
         \A e \in Devices, v \in Vaults :
           v \notin files[e] => InLog(replica'[e][v]) \subseteq InLog(replica[e][v]),
         \A e \in Devices : open'[e] \in {open[e], None} \cup files[e],
         \A e \in Devices, t \in Slots :
           call'[e][t].pc \in {"download", "store"} => call'[e][t] = call[e][t]
  PROVE  FilesOK'
<1>1. \A e \in Devices, v \in Vaults : v \notin files'[e] => InLog(replica'[e][v]) = {}
  BY DEF FilesOK
<1>2. \A e \in Devices : open'[e] # None => open'[e] \in files'[e]
  BY DEF FilesOK
<1>3. \A e \in Devices, t \in Slots :
        call'[e][t].pc \in {"download", "store"} => call'[e][t].vault \notin files'[e]
  BY DEF FilesOK
<1> QED  BY <1>1, <1>2, <1>3 DEF FilesOK

\* The step of a call that does not go on to download or to store a file.
LEMMA FilesCall ==
  ASSUME ShapeInv, FilesOK, NEW d \in Devices, NEW s \in Slots, NEW r, Set(d, s, r),
         r.pc \notin {"download", "store"}, UNCHANGED files,
         \A e \in Devices, v \in Vaults :
           v \notin files[e] => InLog(replica'[e][v]) \subseteq InLog(replica[e][v]),
         \A e \in Devices : open'[e] \in {open[e], None} \cup files[e]
  PROVE  FilesOK'
<1>1. \A e \in Devices, t \in Slots :
        call'[e][t] = IF <<e, t>> = <<d, s>> THEN r ELSE call[e][t]
  BY DEF ShapeInv, TypeOK, Set
<1>2. \A e \in Devices, t \in Slots :
        call'[e][t].pc \in {"download", "store"} => call'[e][t] = call[e][t]
  BY <1>1
<1> QED  BY <1>2, FilesKept

LEMMA FilesReturn ==
  ASSUME ShapeInv, FilesOK, NEW d \in Devices, NEW s \in Slots, NEW ret,
         Return(d, s, ret), UNCHANGED <<files, replica>>,
         \A e \in Devices : open'[e] \in {open[e], None} \cup files[e]
  PROVE  FilesOK'
<1> DEFINE r == [NoCall EXCEPT !.ret = ret,
                   !.edit = IF ret = "ok" THEN call[d][s].edit ELSE None]
<1>1. Set(d, s, r) /\ r.pc = "idle"  BY DEF Return, NoCall
<1> HIDE DEF r
<1> QED  BY <1>1, FilesCall

\* A step of a call on the file that is open.
LEMMA FilesPlain ==
  ASSUME ShapeInv, FilesOK, NEW d \in Devices, NEW s \in Slots, PlainStep(d, s)
  PROVE  FilesOK'
<1> USE DEF shared, stored, selection
<1> DEFINE c == call[d][s]
<1>1. c \in Call  BY DEF ShapeInv, TypeOK
<1>2. CASE \E ret : Return(d, s, ret) /\ UNCHANGED <<files, replica, open>>
  BY <1>2, FilesReturn
<1>3. CASE \E r : Set(d, s, r) /\ r.pc \in Syncing
                    /\ UNCHANGED <<files, replica, open>>
  BY <1>3, FilesCall DEF Syncing
<1>4. CASE Merge(d, s)
  <2> DEFINE r == [c EXCEPT !.pc = "advance"]
  <2>1. Set(d, s, r) /\ r.pc = "advance"  BY <1>1, <1>4 DEF Merge, Call
  <2>2. c.pc = "merge" /\ UNCHANGED <<files, open>>  BY <1>4 DEF Merge
  <2>3. open[d] \in files[d]  BY <1>4 DEF Merge, FilesOK
  <2>4. \A e \in Devices, v \in Vaults :
          v \notin files[e] => InLog(replica'[e][v]) \subseteq InLog(replica[e][v])
    BY <1>4, <2>3, MergeLog
  <2> HIDE DEF r
  <2> QED  BY <2>1, <2>2, <2>4, FilesCall
<1>5. CASE ReadCursor(d, s)
  <2> DEFINE r == [c EXCEPT !.pc = "local", !.start = cursor[d][open[d]]]
  <2>1. r.pc = "local" /\ Set(d, s, r)  BY <1>1, <1>5 DEF ReadCursor, Call
  <2> QED  BY <1>3, <1>5, <2>1 DEF ReadCursor, Pcs, Syncing
<1>6. CASE ReadLocal(d, s)
  <2> DEFINE r == [c EXCEPT !.pc = "count", !.from = open[d],
                     !.local = After(replica[d][open[d]], c.start)]
  <2>1. r.pc = "count" /\ Set(d, s, r)  BY <1>1, <1>6 DEF ReadLocal, Call
  <2> QED  BY <1>3, <1>6, <2>1 DEF ReadLocal, Pcs, Syncing
<1>7. CASE CountRemote(d, s)
  <2> DEFINE n == Cardinality(After(sotLog[c.vault], c.start))
             r == [c EXCEPT !.count = n, !.pc = IF n = 0 THEN "push" ELSE "fetch"]
  <2>1. r.pc \in {"push", "fetch"}  BY <1>1 DEF Call
  <2>2. \/ Set(d, s, r)
        \/ \E ret : Return(d, s, ret)
    BY <1>7 DEF CountRemote
  <2>3. UNCHANGED <<files, replica, open>>  BY <1>7 DEF CountRemote
  <2> HIDE DEF r
  <2> QED  BY <1>2, <1>3, <2>1, <2>2, <2>3 DEF Pcs, Syncing
<1>8. CASE FetchRemote(d, s)
  <2> DEFINE r == [c EXCEPT !.pc = "push",
                     !.remote = FirstAfter(sotLog[c.vault], c.start, c.count)]
  <2>1. r.pc = "push" /\ Set(d, s, r)  BY <1>1, <1>8 DEF FetchRemote, Call
  <2> QED  BY <1>3, <1>8, <2>1 DEF FetchRemote, Pcs, Syncing
<1>9. CASE Push(d, s)
  <2> DEFINE r == [c EXCEPT !.pc = "merge"]
  <2>1. r.pc = "merge" /\ Set(d, s, r)  BY <1>1, <1>9 DEF Push, Call
  <2> QED  BY <1>3, <1>9, <2>1 DEF Push, Pcs, Syncing
<1>10. CASE PushRefused(d, s) \/ PushAnswerLost(d, s) \/ Advance(d, s)
            \/ UnknownVault(d, s) \/ NotOpen(d, s) \/ Fail(d, s)
  BY <1>2, <1>10 DEF PushRefused, PushAnswerLost, Advance, UnknownVault, NotOpen, Fail
<1> QED  BY <1>4, <1>5, <1>6, <1>7, <1>8, <1>9, <1>10 DEF PlainStep

LEMMA FilesBegin ==
  ASSUME NEW d, NEW s, NEW kind, NEW edit, Begin(d, s, kind, edit)
  PROVE  \E q : Set(d, s, q) /\ q.pc = "cursor"
<1> DEFINE q == [NoCall EXCEPT !.pc = "cursor", !.kind = kind, !.vault = chosen[d],
                                !.edit = edit]
<1>1. Set(d, s, q) /\ q.pc = "cursor"  BY DEF Begin, NoCall
<1> QED  BY <1>1

LEMMA FilesEdit ==
  ASSUME ShapeInv, FilesOK, NEW d \in Devices, NEW s \in Slots, EditStep(d, s)
  PROVE  FilesOK'
<1>1. PICK c \in Ids, op \in Ops, r \in Ids : Edit(d, s, c, op, r)  BY DEF EditStep
<1>2. UNCHANGED <<files, open>> /\ open[d] # None  BY <1>1 DEF Edit, Calls, selection
<1>3. open[d] \in files[d]  BY <1>2 DEF FilesOK
<1>4. \A e \in Devices, v \in Vaults :
        v \notin files[e] => InLog(replica'[e][v]) \subseteq InLog(replica[e][v])
  BY <1>1, <1>3, EditLog
<1>5. \E q : Set(d, s, q) /\ q.pc \in {"idle", "cursor"}
  <2>1. CASE Mode[d] = "auto"  BY <1>1, <2>1, FilesBegin DEF Edit
  <2>2. CASE Mode[d] # "auto"
    <3> DEFINE q == [NoCall EXCEPT !.ret = "ok"]
    <3>1. Set(d, s, q) /\ q.pc = "idle"  BY <1>1, <2>2 DEF Edit, NoCall
    <3> QED  BY <3>1
  <2> QED  BY <2>1, <2>2
<1> QED  BY <1>2, <1>4, <1>5, FilesCall

LEMMA FilesSelect ==
  ASSUME ShapeInv, FilesOK, NEW d \in Devices, NEW s \in Slots, SelectStep(d, s)
  PROVE  FilesOK'
<1>1. PICK r, w, o, p : SelectTo(d, s, r, w, o, p)  BY SelectFits
<1>2. UNCHANGED <<files, replica>>  BY SelectMarks DEF stored
<1>3. /\ o \in {open[d], None} \cup files[d] /\ Set(d, s, r)
      /\ open' = [open EXCEPT ![d] = o]
      /\ r.pc = "download" => r.vault \notin files[d]
      /\ r.pc = "store" => call[d][s].pc = "download" /\ r.vault = call[d][s].vault
  BY <1>1 DEF SelectTo
<1>4. r.pc \in {"download", "store"} => r.vault \notin files[d]  BY <1>3 DEF FilesOK
<1>5. \A e \in Devices, t \in Slots :
        call'[e][t] = IF <<e, t>> = <<d, s>> THEN r ELSE call[e][t]
  BY <1>3 DEF ShapeInv, TypeOK, Set
<1>6. \A e \in Devices : open'[e] = IF e = d THEN o ELSE open[e]
  BY <1>3 DEF ShapeInv, TypeOK
<1> QED  BY <1>2, <1>3, <1>4, <1>5, <1>6 DEF FilesOK

\* The file that comes is the one that was missing, and no other call of the device
\* waits for it.
LEMMA FilesStore ==
  ASSUME SerialCalls, ShapeInv, FilesOK, NEW d \in Devices, NEW s \in Slots,
         StoreBlob(d, s)
  PROVE  FilesOK'
<1>0. UNCHANGED <<made, shared, selection, marks>>  BY StoreFits
<1>1. /\ UNCHANGED open
      /\ \A e \in Devices :
           files'[e] = IF e = d THEN files[e] \cup {config[d]} ELSE files[e]
      /\ \A e \in Devices, v \in Vaults :
           replica'[e][v] = IF e = d /\ v = config[d] THEN call[d][s].blob
                            ELSE replica[e][v]
  BY <1>0, StoreFits DEF selection
<1>2. PICK r : StoreTo(d, s, r)  BY StoreFits
<1>2a. r \in Call /\ Set(d, s, r) /\ r.pc = "open"  BY <1>2 DEF StoreTo
<1>3. \A e \in Devices, t \in Slots : call'[e][t] = IF e = d THEN r ELSE call[e][t]
  BY <1>2a, OnlyCall
<1>4. \A e \in Devices, v \in Vaults : v \notin files'[e] => InLog(replica'[e][v]) = {}
  BY <1>1 DEF FilesOK
<1>5. \A e \in Devices : open'[e] # None => open'[e] \in files'[e]
  BY <1>1 DEF FilesOK
<1>6. \A e \in Devices, t \in Slots :
        call'[e][t].pc \in {"download", "store"} => call'[e][t].vault \notin files'[e]
  BY <1>1, <1>2a, <1>3 DEF FilesOK
<1> QED  BY <1>4, <1>5, <1>6 DEF FilesOK

LEMMA FilesInit == Init => FilesOK
<1> SUFFICES ASSUME Init  PROVE FilesOK
  OBVIOUS
<1>1. \A d \in Devices, v \in Vaults : InLog(replica[d][v]) = {}
  BY EmptyDevice DEF Init
<1>2. \A d \in Devices : open[d] = None  BY DEF Init
<1>3. \A d \in Devices, s \in Slots : call[d][s].pc = "idle"  BY NoCallType DEF Init
<1> QED  BY <1>1, <1>2, <1>3 DEF FilesOK

LEMMA FilesStep == SerialCalls /\ ShapeInv /\ FilesOK /\ [Next]_vars => FilesOK'
<1> SUFFICES ASSUME SerialCalls, ShapeInv, FilesOK, [Next]_vars  PROVE FilesOK'
  OBVIOUS
<1>1. ASSUME NEW d \in Devices, NEW s \in Slots,
             PlainStep(d, s) \/ SelectStep(d, s) \/ StoreBlob(d, s)
      PROVE  FilesOK'
  BY <1>1, FilesPlain, FilesSelect, FilesStore
<1>2. ASSUME NEW d \in Devices, NEW s \in Slots, StartSync(d, s) \/ ListRecord(d, s)
      PROVE  FilesOK'
  <2>1. UNCHANGED <<files, replica, open>>
    BY <1>2 DEF StartSync, ListRecord, stored, selection
  <2>2. \E r : Set(d, s, r) /\ r.pc = "cursor"
    BY <1>2, FilesBegin DEF StartSync, ListRecord
  <2> QED  BY <2>1, <2>2, FilesCall
<1>3. ASSUME NEW d \in Devices, Crash(d)  PROVE FilesOK'
  <2>1. /\ UNCHANGED <<files, replica>>
        /\ \A e \in Devices : open'[e] \in {open[e], None}
        /\ \A e \in Devices, t \in Slots : call'[e][t] \in {call[e][t], NoCall}
    BY <1>3 DEF Crash, stored, ShapeInv, TypeOK
  <2> QED  BY <2>1, NoCallType, FilesKept
<1>4. ASSUME NEW d \in Devices, NEW v \in Vaults, NEW lost \in BOOLEAN,
             PostBlob(d, v, lost)
      PROVE  FilesOK'
  BY <1>4, FilesKept DEF PostBlob, stored, selection
<1>5. ASSUME UNCHANGED vars  PROVE FilesOK'
  BY <1>5, FilesKept DEF vars, stored, selection
<1>6. ASSUME NEW d \in Devices, NEW s \in Slots, NEW c \in Ids,
             AppendRecord(d, s, c) \/ UpdateRecord(d, s, c) \/ DeleteRecord(d, s, c)
      PROVE  FilesOK'
  BY <1>6, EditForms, FilesEdit
<1> QED  BY <1>1, <1>2, <1>3, <1>4, <1>5, <1>6, CallForms DEF Next

--------------------------------------------------------------------------------
(* RecordSync implements RecordReplication: one lemma for each abstract step *)

\* The log operators of the abstract module are those of ChangeLog.
LEMMA SameOperators ==
  /\ \A log : Abstract!InLog(log) = InLog(log)
  /\ \A log, S : Abstract!DownClosed(log, S) = DownClosed(log, S)
BY DEF Abstract!InLog, InLog, Abstract!DownClosed, DownClosed

RefInv == SyncInv /\ FilesOK

LEMMA MapsAt ==
  \A d \in Devices, v \in Vaults :
    /\ Held[d][v] = InLog(replica[d][v])
    /\ Confirmed[d][v] = Behind(replica[d][v], cursor[d][v])
BY DEF Held, Confirmed

\* A step that moves one file, or its cursor.
LEMMA FileMoves ==
  ASSUME NEW d \in Devices, NEW v \in Vaults,
         \A e \in Devices, w \in Vaults :
           <<e, w>> # <<d, v>> =>
             replica'[e][w] = replica[e][w] /\ cursor'[e][w] = cursor[e][w]
  PROVE  /\ Held' = [Held EXCEPT ![d][v] = InLog(replica'[d][v])]
         /\ Confirmed' =
              [Confirmed EXCEPT ![d][v] = Behind(replica'[d][v], cursor'[d][v])]
<1> DEFINE h == InLog(replica'[d][v])
           b == Behind(replica'[d][v], cursor'[d][v])
<1>1. \A e \in Devices, w \in Vaults :
        /\ InLog(replica'[e][w]) = IF e = d /\ w = v THEN h ELSE InLog(replica[e][w])
        /\ Behind(replica'[e][w], cursor'[e][w]) =
             IF e = d /\ w = v THEN b ELSE Behind(replica[e][w], cursor[e][w])
  OBVIOUS
<1> HIDE DEF h, b
<1>2. Held' = [Held EXCEPT ![d][v] = h]
  <2>1. Held' = [e \in Devices |-> [w \in Vaults |->
                  IF e = d /\ w = v THEN h ELSE InLog(replica[e][w])]]
    BY <1>1 DEF Held
  <2>2. [Held EXCEPT ![d][v] = h] =
          [e \in Devices |-> [w \in Vaults |->
             IF e = d /\ w = v THEN h ELSE InLog(replica[e][w])]]
    BY DEF Held
  <2> QED  BY <2>1, <2>2
<1>3. Confirmed' = [Confirmed EXCEPT ![d][v] = b]
  <2>1. Confirmed' = [e \in Devices |-> [w \in Vaults |->
                       IF e = d /\ w = v THEN b ELSE Behind(replica[e][w], cursor[e][w])]]
    BY <1>1 DEF Confirmed
  <2>2. [Confirmed EXCEPT ![d][v] = b] =
          [e \in Devices |-> [w \in Vaults |->
             IF e = d /\ w = v THEN b ELSE Behind(replica[e][w], cursor[e][w])]]
    BY DEF Confirmed
  <2> QED  BY <2>1, <2>2
<1> QED  BY <1>2, <1>3 DEF h, b

\* The same when what lies behind the cursor stays.
LEMMA FileGrows ==
  ASSUME NEW d \in Devices, NEW v \in Vaults, NEW log,
         replica \in [Devices -> [Vaults -> Log]], UNCHANGED cursor,
         replica' = [replica EXCEPT ![d][v] = log],
         Behind(log, cursor[d][v]) = Behind(replica[d][v], cursor[d][v])
  PROVE  /\ Held' = [Held EXCEPT ![d][v] = InLog(log)]
         /\ Confirmed' = Confirmed
<1>1. \A e \in Devices, w \in Vaults :
        replica'[e][w] = IF e = d /\ w = v THEN log ELSE replica[e][w]
  OBVIOUS
<1>2. /\ Held' = [Held EXCEPT ![d][v] = InLog(replica'[d][v])]
      /\ Confirmed' =
           [Confirmed EXCEPT ![d][v] = Behind(replica'[d][v], cursor'[d][v])]
  BY <1>1, FileMoves
<1>3. Behind(replica'[d][v], cursor'[d][v]) = Confirmed[d][v]  BY <1>1, MapsAt
<1>4. Confirmed' = Confirmed  BY <1>2, <1>3 DEF Confirmed
<1> QED  BY <1>1, <1>2, <1>4

LEMMA EditMakes ==
  ASSUME Assumed, RefInv, NEW d \in Devices, NEW s \in Slots, EditStep(d, s)
  PROVE  Abstract!Next
<1>1. PICK c \in Ids, op \in Ops, r \in Ids : Edit(d, s, c, op, r)  BY DEF EditStep
<1> DEFINE v == open[d]
           rep == replica[d][v]
           ext == Extend(rep, {c}, EmptyLog)
<1>2. /\ replica' = [replica EXCEPT ![d][v] = ext]
      /\ UNCHANGED <<sotLog, cursor>> /\ made[c] = NoChange
  BY <1>1 DEF Edit, shared
<1>3. v \in Vaults  BY <1>1, CallsOpen DEF Edit, RefInv
<1>4. /\ rep \in Log /\ DeviceOK(rep, cursor[d][v], sotLog[v])
      /\ replica \in [Devices -> [Vaults -> Log]]
  BY <1>3, FileFacts DEF RefInv, SyncInv, ShapeInv, TypeOK
<1>5. /\ InLog(ext) = InLog(rep) \cup {c}
      /\ Behind(ext, cursor[d][v]) = Behind(rep, cursor[d][v])
  <2> DEFINE S == {c}
             cur == cursor[d][v]
             sot == sotLog[v]
  <2>1. S \in SUBSET Ids /\ EmptyLog \in Log  BY EmptyDevice
  <2>2. rep \in Log /\ DeviceOK(rep, cur, sot)  BY <1>4
  <2> HIDE DEF rep, S, cur, sot
  <2>3. Dense(rep) /\ cur \in InLog(rep) \cup {None}  BY <2>2 DEF DeviceOK
  <2>4. InLog(Extend(rep, S, EmptyLog)) = InLog(rep) \cup S
    BY ZenonT(60), <2>1, <2>2, ExtendInLog
  <2>5. Behind(Extend(rep, S, EmptyLog), cur) = Behind(rep, cur)
    BY ZenonT(60), <2>1, <2>2, <2>3, ExtendBehind
  <2> QED  BY <2>4, <2>5 DEF S, cur
<1> HIDE DEF ext
<1>6. Held' = [Held EXCEPT ![d][v] = InLog(ext)] /\ Confirmed' = Confirmed
  BY <1>2, <1>3, <1>4, <1>5, FileGrows
<1>7. InLog(ext) = Held[d][v] \cup {c}  BY <1>3, <1>5, MapsAt
<1>8. NoChange \notin Change  BY DEF NoChange, Change, Ops
<1>9. LogsWithin  BY DEF RefInv, SyncInv, VaultInv
<1>10. \A w \in Vaults : c \notin InLog(sotLog[w])
  BY <1>2, <1>8, <1>9 DEF LogsWithin, Within
<1>11. \A e \in Devices, w \in Vaults : c \notin Held[e][w]
  BY <1>2, <1>8, <1>9, MapsAt DEF LogsWithin, Within
<1>12. Abstract!Make(d, v, c)
  BY <1>2, <1>6, <1>7, <1>10, <1>11, SameOperators DEF Abstract!Make
<1> QED  BY <1>3, <1>12 DEF Abstract!Next

LEMMA PushPosts ==
  ASSUME Assumed, RefInv, NEW d \in Devices, NEW s \in Slots,
         Push(d, s) \/ PushAnswerLost(d, s)
  PROVE  Abstract!Next
<1> DEFINE c == call[d][s]
           v == open[d]
           rep == replica[d][v]
           cur == cursor[d][v]
           sot == sotLog[v]
           L == c.local
           new == Extend(sot, L, rep)
<1>1. c.pc = "push" /\ Apply(d, c) /\ UNCHANGED <<replica, cursor>>
  BY DEF Push, PushAnswerLost, stored
<1>2. /\ v \in Vaults /\ c \in Call /\ c.vault = v /\ c.from = v
      /\ CallFresh(c, rep, cur, sot)
  BY <1>1, CallFacts DEF RefInv, Syncing
<1>3. /\ cur \in Ids \cup {None} /\ rep \in Log /\ sot \in Log /\ Dense(sot)
      /\ DeviceOK(rep, cur, sot) /\ L \in SUBSET Ids
  BY <1>2, FileFacts DEF RefInv, Call
<1>4. sotLog \in [Vaults -> Log] /\ sotLog' = [sotLog EXCEPT ![v] = new]
  BY <1>1, <1>2 DEF RefInv, SyncInv, ShapeInv, TypeOK, Apply
<1>5. L = After(rep, cur)  BY <1>1, <1>2 DEF CallFresh, LocalFresh
<1>6. InLog(sot) \cup L = InLog(sot) \cup InLog(rep)
  <2> HIDE DEF L, rep, cur, sot
  <2> QED  BY <1>3, <1>5, SidesCover DEF DeviceOK
<1>7. /\ InLog(new) = InLog(sot) \cup InLog(rep)
      /\ \A x \in InLog(sot) : new[x] = sot[x]
      /\ DownClosed(new, InLog(sot))
  <2> HIDE DEF L, rep, cur, sot
  <2>1. /\ InLog(Extend(sot, L, rep)) = InLog(sot) \cup L
        /\ \A x \in InLog(sot) : Extend(sot, L, rep)[x] = sot[x]
    BY <1>3, ExtendInLog
  <2>2. DownClosed(sot, InLog(sot))  BY DEF DownClosed
  <2>3. DownClosed(Extend(sot, L, rep), InLog(sot))  BY <1>3, <2>2, ExtendDownClosed
  <2> QED  BY <1>6, <2>1, <2>3
<1> HIDE DEF new
<1>8. sotLog'[v] = new /\ Held' = Held /\ Confirmed' = Confirmed
  BY <1>1, <1>2, <1>4 DEF Held, Confirmed
<1>9. InLog(new) = InLog(sot) \cup Held[d][v]  BY <1>2, <1>7, MapsAt
<1>10. Abstract!Post(d, v)
  BY <1>4, <1>7, <1>8, <1>9, SameOperators DEF Abstract!Post
<1> QED  BY <1>2, <1>10 DEF Abstract!Next

\* The first upload of a file posts it to a history that has no changes; the ones
\* after it change nothing.
LEMMA UploadPosts ==
  ASSUME Assumed, RefInv, NEW d \in Devices, NEW v \in Vaults, NEW lost \in BOOLEAN,
         PostBlob(d, v, lost)
  PROVE  [Abstract!Next]_(Abstract!vars)
<1>1. Held' = Held /\ Confirmed' = Confirmed
  BY DEF PostBlob, stored, Held, Confirmed
<1>2. CASE v \in sotFiles
  <2>1. sotLog' = sotLog  BY <1>2 DEF PostBlob, Assumed
  <2> QED  BY <1>1, <2>1 DEF Abstract!vars
<1>3. CASE v \notin sotFiles
  <2> DEFINE rep == replica[d][v]
  <2>1. sotLog' = [sotLog EXCEPT ![v] = rep]  BY <1>3 DEF PostBlob
  <2>2. InLog(sotLog[v]) = {}  BY <1>3, FileFacts DEF RefInv
  <2>3. sotLog \in [Vaults -> Log]  BY DEF RefInv, SyncInv, ShapeInv, TypeOK
  <2>4. sotLog'[v] = rep /\ InLog(rep) = Held[d][v]  BY <2>1, <2>3, MapsAt
  <2>5. DownClosed(rep, {})  BY DEF DownClosed
  <2> HIDE DEF rep
  <2>6. Abstract!Post(d, v)
    BY <1>1, <2>1, <2>2, <2>4, <2>5, SameOperators DEF Abstract!Post
  <2> QED  BY <2>6 DEF Abstract!Next
<1> QED  BY <1>2, <1>3

LEMMA MergeReceives ==
  ASSUME RefInv, NEW d \in Devices, NEW s \in Slots, Merge(d, s)
  PROVE  Abstract!Next
<1> DEFINE c == call[d][s]
           v == open[d]
           rep == replica[d][v]
           cur == cursor[d][v]
           sot == sotLog[v]
           R == c.remote
<1>1. c.pc = "merge" /\ UNCHANGED <<sotLog, cursor>>  BY DEF Merge, shared
<1>2. v \in Vaults /\ c \in Call /\ c.vault = v /\ CallFresh(c, rep, cur, sot)
  BY <1>1, CallFacts DEF RefInv, Syncing
<1>3. /\ cur \in Ids \cup {None} /\ rep \in Log /\ sot \in Log
      /\ DeviceOK(rep, cur, sot) /\ R \in SUBSET Ids
      /\ replica \in [Devices -> [Vaults -> Log]]
  BY <1>2, FileFacts DEF RefInv, Call, SyncInv, ShapeInv, TypeOK
<1>4. PICK new \in {Appended(rep, c, sot), Rebased(rep, c, sot)} :
        replica' = [replica EXCEPT ![d][v] = new]
  BY <1>2 DEF Merge
<1>5. LocalFresh(c, rep, cur) /\ Settled(InLog(rep) \cup R, sot)
  BY <1>1, <1>2 DEF CallFresh
<1>6. \/ new = Extend(rep, c.remote, sot)
      \/ new = Extend(Extend(Only(rep, Ids \ c.local), c.remote, sot), c.local, rep)
  BY <1>4 DEF Appended, Rebased
<1>7. InLog(new) = InLog(rep) \cup R /\ Behind(new, cur) = Behind(rep, cur)
  <2> HIDE DEF c, rep, cur, sot, R
  <2>1. c.pc = "merge" /\ LocalFresh(c, rep, cur)  BY <1>1, <1>5
  <2>2. rep \in Log /\ sot \in Log /\ cur \in Ids \cup {None}  BY <1>3
  <2>3. DeviceOK(rep, cur, sot) /\ R \in SUBSET Ids /\ c.remote = R  BY <1>3 DEF R
  <2>4. CASE new = Extend(rep, R, sot)
    <3>1. Dense(rep) /\ cur \in InLog(rep) \cup {None}  BY <2>3 DEF DeviceOK
    <3>2. InLog(new) = InLog(rep) \cup R
      BY ZenonT(60), <2>2, <2>3, <2>4, ExtendInLog
    <3>3. Behind(new, cur) = Behind(rep, cur)
      BY <2>2, <2>3, <2>4, <3>1, ExtendBehind
    <3> QED  BY <3>2, <3>3
  <2>5. CASE new = Extend(Extend(Only(rep, Ids \ c.local), c.remote, sot), c.local, rep)
    BY <2>1, <2>2, <2>3, <2>5, MergeDevice
  <2> QED  BY <1>6, <2>3, <2>4, <2>5
<1>8. Held' = [Held EXCEPT ![d][v] = InLog(new)] /\ Confirmed' = Confirmed
  BY <1>1, <1>2, <1>3, <1>4, <1>7, FileGrows
<1> DEFINE S == InLog(rep) \cup R
<1>9. /\ Held[d][v] \subseteq S /\ S \in SUBSET Ids
      /\ Held' = [Held EXCEPT ![d][v] = S]
  BY <1>2, <1>3, <1>7, <1>8, MapsAt, Sides
<1>10. Abstract!Segment(v, S)
  BY <1>5, SameOperators DEF Abstract!Segment, Settled
<1> HIDE DEF S
<1>11. Abstract!Receive(d, v)
  BY <1>1, <1>8, <1>9, <1>10 DEF Abstract!Receive
<1> QED  BY <1>2, <1>11 DEF Abstract!Next

LEMMA AdvanceConfirms ==
  ASSUME RefInv, NEW d \in Devices, NEW s \in Slots, Advance(d, s)
  PROVE  [Abstract!Next]_(Abstract!vars)
<1> DEFINE v == open[d]
           rep == replica[d][v]
           cur == cursor[d][v]
           sot == sotLog[v]
<1>1. call[d][s].pc = "advance" /\ UNCHANGED <<sotLog, replica>>
  BY DEF Advance, shared
<1>2. v \in Vaults /\ CallFresh(call[d][s], rep, cur, sot)
  BY <1>1, CallFacts DEF RefInv, Syncing
<1>3. /\ rep \in Log /\ Settled(InLog(rep), sot)
      /\ cursor \in [Devices -> [Vaults -> Ids \cup {None}]]
  BY <1>1, <1>2, FileFacts DEF RefInv, CallFresh, SyncInv, ShapeInv, TypeOK
<1>4. CASE UNCHANGED cursor
  BY <1>1, <1>4 DEF Abstract!vars, Held, Confirmed
<1>5. CASE \E last \in InLog(rep) :
             After(rep, last) = {} /\ cursor' = [cursor EXCEPT ![d][v] = last]
  <2>1. PICK last \in InLog(rep) :
          After(rep, last) = {} /\ cursor' = [cursor EXCEPT ![d][v] = last]
    BY <1>5
  <2>2. last \in Ids \cup {None}  BY Sides
  <2>3. Behind(rep, last) = InLog(rep)  BY <1>3, <2>1, <2>2, SidesCover
  <2>4. \A e \in Devices, w \in Vaults :
          cursor'[e][w] = IF e = d /\ w = v THEN last ELSE cursor[e][w]
    BY <1>2, <1>3, <2>1
  <2>5. /\ cursor'[d][v] = last
        /\ \A e \in Devices, w \in Vaults :
             <<e, w>> # <<d, v>> => cursor'[e][w] = cursor[e][w]
    BY <1>2, <2>4
  <2>6. Confirmed' =
          [Confirmed EXCEPT ![d][v] = Behind(replica'[d][v], cursor'[d][v])]
    BY <1>1, <1>2, <2>5, FileMoves
  <2>7. Held' = Held /\ Held[d][v] = InLog(rep)  BY <1>1, <1>2, MapsAt DEF Held
  <2>8. Confirmed' = [Confirmed EXCEPT ![d][v] = Held[d][v]]
    BY <1>1, <2>3, <2>5, <2>6, <2>7
  <2>9. Abstract!Segment(v, Held[d][v])
    BY <1>3, <2>7, SameOperators DEF Abstract!Segment, Settled
  <2>10. Abstract!Confirm(d, v)  BY <1>1, <2>7, <2>8, <2>9 DEF Abstract!Confirm
  <2> QED  BY <1>2, <2>10 DEF Abstract!Next
<1> QED  BY <1>4, <1>5 DEF Advance

\* What was downloaded is what the daemon's file was at that time, and what lies behind
\* its cursor an initial segment of it.
LEMMA StoreJoins ==
  ASSUME RefInv, NEW d \in Devices, NEW s \in Slots, StoreBlob(d, s)
  PROVE  Abstract!Next
<1> DEFINE v == config[d]
           blob == call[d][s].blob
           sot == sotLog[v]
<1>1. ShapeInv /\ SyncInv /\ FilesOK  BY DEF RefInv, SyncInv
<1>2. /\ call[d][s].pc = "store" /\ UNCHANGED sotLog
      /\ \A e \in Devices, w \in Vaults :
           replica'[e][w] = IF e = d /\ w = v THEN blob ELSE replica[e][w]
  BY <1>1, StoreFits DEF shared
<1>2a. PICK cur : CursorTo(d, s, cur)  BY <1>1, StoreFits
<1>3. /\ cur \in InLog(blob) \cup {None}
      /\ \A e \in Devices, w \in Vaults :
           cursor'[e][w] = IF e = d /\ w = v THEN cur ELSE cursor[e][w]
  BY <1>2a DEF CursorTo
<1>4. /\ v \in Vaults /\ v = call[d][s].vault /\ blob \in Log /\ sot \in Log
      /\ Dense(blob) /\ Settled(InLog(blob), sot)
      /\ \A x \in InLog(blob) : blob[x] = sot[x]
  BY <1>1, <1>2, BlobFacts
<1>5. Held[d][v] = {}
  <2>1. v \notin files[d]  BY <1>1, <1>2, <1>4 DEF FilesOK
  <2>2. InLog(replica[d][v]) = {}  BY <1>1, <1>4, <2>1 DEF FilesOK
  <2> QED  BY <1>4, <2>2, MapsAt
<1>6. /\ replica'[d][v] = blob /\ cursor'[d][v] = cur
      /\ \A e \in Devices, w \in Vaults :
           <<e, w>> # <<d, v>> =>
             replica'[e][w] = replica[e][w] /\ cursor'[e][w] = cursor[e][w]
  BY <1>2, <1>3, <1>4
<1> DEFINE T == InLog(blob)
           S == Behind(blob, cur)
<1>7. /\ Held' = [Held EXCEPT ![d][v] = InLog(replica'[d][v])]
      /\ Confirmed' =
           [Confirmed EXCEPT ![d][v] = Behind(replica'[d][v], cursor'[d][v])]
  BY <1>4, <1>6, FileMoves
<1>8. /\ Held' = [Held EXCEPT ![d][v] = T]
      /\ Confirmed' = [Confirmed EXCEPT ![d][v] = S]
  BY <1>6, <1>7
<1>9. T \in SUBSET Ids /\ S \in SUBSET T  BY Sides
<1>10. Settled(T, sot) /\ Settled(S, sot)
  <2>1. cur \in InLog(blob) \cup {None}  BY <1>3
  <2> HIDE DEF blob, sot
  <2> QED  BY <1>4, <2>1, BlobDevice
<1>11. Abstract!Segment(v, T) /\ Abstract!Segment(v, S)
  BY <1>10, SameOperators DEF Abstract!Segment, Settled
<1> HIDE DEF T, S
<1>12. Abstract!Join(d, v)
  BY <1>2, <1>5, <1>8, <1>9, <1>11 DEF Abstract!Join
<1> QED  BY <1>4, <1>12 DEF Abstract!Next

LEMMA QuietMaps ==
  ASSUME UNCHANGED <<sotLog, replica, cursor>>
  PROVE  UNCHANGED Abstract!vars
BY DEF Abstract!vars, Held, Confirmed

LEMMA RefStep == ASSUME Assumed, RefInv, [Next]_vars PROVE [Abstract!Next]_(Abstract!vars)
<1> USE DEF shared, stored, selection
<1>1. CASE UNCHANGED vars  BY <1>1, QuietMaps DEF vars
<1>2. ASSUME NEW d \in Devices, NEW s \in Slots,
             PlainStep(d, s) \/ SelectStep(d, s) \/ StoreBlob(d, s)
      PROVE  [Abstract!Next]_(Abstract!vars)
  <2>1. CASE Push(d, s) \/ PushAnswerLost(d, s)  BY <2>1, PushPosts
  <2>2. CASE Merge(d, s)  BY <2>2, MergeReceives
  <2>3. CASE Advance(d, s)  BY <2>3, AdvanceConfirms
  <2>4. CASE StoreBlob(d, s)  BY <2>4, StoreJoins
  <2>5. CASE SelectStep(d, s)  BY <2>5, SelectMarks, QuietMaps
  <2>6. CASE \/ UnknownVault(d, s) \/ NotOpen(d, s) \/ ReadCursor(d, s)
             \/ ReadLocal(d, s) \/ CountRemote(d, s) \/ FetchRemote(d, s)
             \/ PushRefused(d, s) \/ Fail(d, s)
    <3>1. UNCHANGED <<sotLog, replica, cursor>>
      BY <2>6 DEF UnknownVault, NotOpen, ReadCursor, ReadLocal, CountRemote,
                  FetchRemote, PushRefused, Fail
    <3> QED  BY <3>1, QuietMaps
  <2> QED  BY <1>2, <2>1, <2>2, <2>3, <2>4, <2>5, <2>6 DEF PlainStep
<1>3. ASSUME NEW d \in Devices, NEW s \in Slots, StartSync(d, s) \/ ListRecord(d, s)
      PROVE  UNCHANGED Abstract!vars
  BY <1>3, QuietMaps DEF StartSync, ListRecord
<1>4. ASSUME NEW d \in Devices, Crash(d)  PROVE UNCHANGED Abstract!vars
  BY <1>4, QuietMaps DEF Crash
<1>5. ASSUME NEW d \in Devices, NEW s \in Slots, NEW c \in Ids,
             AppendRecord(d, s, c) \/ UpdateRecord(d, s, c) \/ DeleteRecord(d, s, c)
      PROVE  Abstract!Next
  BY <1>5, EditForms, EditMakes
<1> QED  BY <1>1, <1>2, <1>3, <1>4, <1>5, UploadPosts, CallForms DEF Next

LEMMA RefInit == Init => Abstract!Init
<1> SUFFICES ASSUME Init  PROVE Abstract!Init
  OBVIOUS
<1>1. \A d \in Devices, v \in Vaults : replica[d][v] = EmptyLog /\ InLog(EmptyLog) = {}
  BY EmptyDevice DEF Init
<1>2. Held = [d \in Devices |-> [v \in Vaults |-> {}]]  BY <1>1 DEF Held
<1>3. \A c : Behind(EmptyLog, c) = {}  BY EmptyDevice, Sides
<1>4. Confirmed = [d \in Devices |-> [v \in Vaults |-> {}]]
  BY <1>1, <1>3 DEF Confirmed
<1>5. Abstract!EmptyLog = EmptyLog  BY DEF Abstract!EmptyLog, EmptyLog
<1>6. sotLog = [v \in Vaults |-> Abstract!EmptyLog]  BY <1>5 DEF Init
<1> QED  BY <1>2, <1>4, <1>6 DEF Abstract!Init

\* For an application that makes one call at a time, and selects a vault anew when
\* SelectVault fails, the records of every vault, on every device, are exchanged as
\* RecordReplication says, whatever requests and operations fail, those of SelectVault
\* with what they leave half done among them, and wherever the program stops.
THEOREM Refinement == ASSUME Assumed PROVE Spec => Replicates
<1>1. Init => Abstract!Init /\ RefInv
  BY RefInit, SyncInvInit, FilesInit DEF RefInv
<1>2. RefInv /\ [Next]_vars => [Abstract!Next]_(Abstract!vars) /\ RefInv'
  <2> SUFFICES ASSUME RefInv, [Next]_vars
               PROVE  [Abstract!Next]_(Abstract!vars) /\ RefInv'
    OBVIOUS
  <2>1. SyncInv' /\ FilesOK'
    BY SyncInvStep, FilesStep DEF RefInv, SyncInv, Assumed
  <2> QED  BY <2>1, RefStep DEF RefInv
<1> QED  BY <1>1, <1>2, PTL DEF Spec, Replicates, Abstract!Spec

--------------------------------------------------------------------------------
(* What a device has synchronised is a state the daemon's file was in: a        *)
(* consequence of the abstract specification, which RecordSync inherits.         *)

\* What a device has synchronised of a vault is a state the daemon's file was in, with
\* nothing left out in between, downloads included: two devices never fork.
SyncedIsHistory ==
  \A d \in Devices, v \in Vaults : Settled(Confirmed[d][v], sotLog[v])

LEMMA HistoryKept ==
  ASSUME TypeOK, SyncedIsHistory, [Abstract!Next]_(Abstract!vars)
  PROVE  SyncedIsHistory'
<1>1. ASSUME NEW e \in Devices, NEW w \in Vaults
      PROVE  /\ \A x \in Confirmed[e][w] : x \in InLog(sotLog[w])
             /\ \A x \in Confirmed[e][w], y \in InLog(sotLog[w]) :
                  sotLog[w][y] <= sotLog[w][x] => y \in Confirmed[e][w]
  BY DEF SyncedIsHistory, Settled, DownClosed
<1>2. CASE UNCHANGED Abstract!vars
  BY <1>2 DEF Abstract!vars, SyncedIsHistory, Settled, DownClosed
<1>3. ASSUME NEW d \in Devices, NEW v \in Vaults, Abstract!Post(d, v)
      PROVE  SyncedIsHistory'
  <2>1. /\ \A x \in InLog(sotLog[v]) :
             x \in InLog(sotLog'[v]) /\ sotLog'[v][x] = sotLog[v][x]
        /\ \A x \in InLog(sotLog[v]), y \in InLog(sotLog'[v]) :
             sotLog'[v][y] <= sotLog'[v][x] => y \in InLog(sotLog[v])
        /\ Confirmed' = Confirmed
    BY <1>3, SameOperators DEF Abstract!Post, DownClosed
  <2>2. \A w \in Vaults : w # v => sotLog'[w] = sotLog[w]
    <3>1. sotLog \in [Vaults -> Log]  BY DEF TypeOK
    <3>2. sotLog' = [sotLog EXCEPT ![v] = sotLog'[v]]  BY <1>3 DEF Abstract!Post
    <3> QED  BY <3>1, <3>2
  <2> SUFFICES ASSUME NEW e \in Devices, NEW w \in Vaults
               PROVE  Settled(Confirmed[e][w], sotLog'[w])
    BY <2>1 DEF SyncedIsHistory
  <2>3. CASE w = v  BY <1>1, <2>1, <2>3 DEF Settled, DownClosed
  <2>4. CASE w # v  BY <2>2, <2>4 DEF SyncedIsHistory
  <2> QED  BY <2>3, <2>4
<1>4. ASSUME NEW d \in Devices, NEW v \in Vaults, NEW S,
             Settled(S, sotLog[v]), sotLog' = sotLog,
             Confirmed' = [Confirmed EXCEPT ![d][v] = S]
      PROVE  SyncedIsHistory'
  <2>1. Confirmed \in [Devices -> [Vaults -> SUBSET Ids]]  BY Sides DEF Confirmed
  <2>2. \A e \in Devices, w \in Vaults :
          Confirmed'[e][w] = IF e = d /\ w = v THEN S ELSE Confirmed[e][w]
    BY <1>4, <2>1
  <2> QED  BY <1>4, <2>2 DEF SyncedIsHistory
<1>5. ASSUME NEW d \in Devices, NEW v \in Vaults, Abstract!Confirm(d, v)
      PROVE  SyncedIsHistory'
  BY <1>4, <1>5, SameOperators DEF Abstract!Confirm, Abstract!Segment, Settled
<1>6. ASSUME NEW d \in Devices, NEW v \in Vaults, Abstract!Join(d, v)
      PROVE  SyncedIsHistory'
  <2>1. PICK T \in SUBSET Ids :
          \E S \in SUBSET T :
            /\ Settled(S, sotLog[v]) /\ sotLog' = sotLog
            /\ Confirmed' = [Confirmed EXCEPT ![d][v] = S]
    BY <1>6, SameOperators DEF Abstract!Join, Abstract!Segment, Settled
  <2> QED  BY <1>4, <2>1
<1>7. ASSUME NEW d \in Devices, NEW v \in Vaults,
             Abstract!Receive(d, v) \/ \E c \in Ids : Abstract!Make(d, v, c)
      PROVE  SyncedIsHistory'
  <2>1. sotLog' = sotLog /\ Confirmed' = Confirmed
    BY <1>7 DEF Abstract!Receive, Abstract!Make
  <2> QED  BY <2>1 DEF SyncedIsHistory
<1> QED  BY <1>2, <1>3, <1>5, <1>6, <1>7 DEF Abstract!Next

LEMMA HistoryInit == Init => SyncedIsHistory
<1> SUFFICES ASSUME Init  PROVE SyncedIsHistory
  OBVIOUS
<1>1. \A d \in Devices, v \in Vaults : Confirmed[d][v] = {}
  BY RefInit DEF Abstract!Init
<1> QED  BY <1>1 DEF SyncedIsHistory, Settled, DownClosed

\* What a device has synchronised of a vault is a state the daemon's file was in,
\* whatever the device downloaded, from whomever, and whenever it did.
THEOREM SyncedSnapshots == ASSUME Assumed PROVE Spec => []SyncedIsHistory
<1>1. Init => RefInv /\ SyncedIsHistory
  BY SyncInvInit, FilesInit, HistoryInit DEF RefInv
<1>2. RefInv /\ SyncedIsHistory /\ [Next]_vars => (RefInv /\ SyncedIsHistory)'
  <2> SUFFICES ASSUME RefInv, SyncedIsHistory, [Next]_vars
               PROVE  (RefInv /\ SyncedIsHistory)'
    OBVIOUS
  <2>1. RefInv'  BY SyncInvStep, FilesStep DEF RefInv, SyncInv, Assumed
  <2>2. TypeOK  BY DEF RefInv, SyncInv, ShapeInv
  <2>3. SyncedIsHistory'  BY <2>2, RefStep, HistoryKept
  <2> QED  BY <2>1, <2>3
<1> QED  BY <1>1, <1>2, PTL DEF Spec

================================================================================
