---------------------------- MODULE ChangeLogProofs ----------------------------
(***************************************************************************)
(* What the operators of ChangeLog return and preserve, for every finite    *)
(* set of identifiers: the facts about logs that the proofs about the       *)
(* services rest on.                                                       *)
(***************************************************************************)
EXTENDS SyncCall, FiniteSetTheorems, TLAPS

\* Every set of identifiers is finite and has a number of members.
LEMMA IdSets ==
  ASSUME NEW S \in SUBSET Ids
  PROVE  /\ IsFiniteSet(S)
         /\ Cardinality(S) \in Nat
         /\ Cardinality(S) = 0 <=> S = {}
<1>1. IsFiniteSet(S)  BY ChangeLogAssumption, FS_Subset
<1> QED  BY <1>1, FS_CardinalityType, FS_EmptySet

\* The members of a log, and the changes on either side of a cursor, are
\* identifiers; each member is on one side.
LEMMA Sides ==
  ASSUME NEW log, NEW c
  PROVE  /\ InLog(log) \subseteq Ids
         /\ Behind(log, c) \subseteq InLog(log)
         /\ After(log, c) \subseteq InLog(log)
BY DEF InLog, Behind, After

LEMMA SidesCover ==
  ASSUME NEW log \in Log, NEW c \in Ids \cup {None}
  PROVE  /\ InLog(log) = Behind(log, c) \cup After(log, c)
         /\ Behind(log, c) \cap After(log, c) = {}
<1>1. Row(log, c) \in Nat  BY DEF Row, Log
<1>2. \A x \in InLog(log) : log[x] \in Nat  BY DEF InLog, Log
<1> QED  BY <1>1, <1>2 DEF Behind, After

\* A rank is a number, positive for a member of the set and at most its size.
LEMMA RankRange ==
  ASSUME NEW log \in Log, NEW S \in SUBSET Ids, NEW x \in S
  PROVE  Rank(log, S, x) \in 1..Cardinality(S)
<1> DEFINE T == {y \in S : log[y] <= log[x]}
<1>1. T \in SUBSET S /\ IsFiniteSet(S) /\ IsFiniteSet(T)  BY IdSets
<1>2. Cardinality(T) <= Cardinality(S) /\ Cardinality(T) \in Nat /\ Cardinality(S) \in Nat
  BY <1>1, FS_Subset, FS_CardinalityType
<1>3. x \in T  BY DEF Log
<1>4. Cardinality(T) # 0  BY <1>1, <1>3, FS_EmptySet
<1>5. Rank(log, S, x) = Cardinality(T)  BY DEF Rank
<1> HIDE DEF T
<1> QED  BY <1>2, <1>4, <1>5

\* Extending a log keeps the rows it has and adds the changes it lacks.
LEMMA ExtendInLog ==
  ASSUME NEW log \in Log, NEW ord \in Log, NEW S \in SUBSET Ids
  PROVE  /\ Extend(log, S, ord) \in Log
         /\ InLog(Extend(log, S, ord)) = InLog(log) \cup S
         /\ \A x \in InLog(log) : Extend(log, S, ord)[x] = log[x]
         /\ \A x \in S \ InLog(log) :
              Extend(log, S, ord)[x] \in
                (Cardinality(InLog(log)) + 1)
                  ..(Cardinality(InLog(log)) + Cardinality(S \ InLog(log)))
<1> DEFINE new == S \ InLog(log)
           ext == Extend(log, S, ord)
           n == Cardinality(InLog(log))
           m == Cardinality(new)
<1>1. InLog(log) \in SUBSET Ids /\ new \in SUBSET Ids  BY DEF InLog
<1>2. n \in Nat /\ m \in Nat  BY <1>1, IdSets
<1>3. \A x \in new : Rank(ord, new, x) \in 1..m  BY <1>1, RankRange
<1>4. ext = [x \in Ids |-> IF x \in new THEN n + Rank(ord, new, x) ELSE log[x]]
  BY DEF Extend
<1> HIDE DEF new, ext, n, m
<1>5. \A x \in new : ext[x] \in (n + 1)..(n + m)  BY <1>1, <1>2, <1>3, <1>4
<1>6. \A x \in Ids \ new : ext[x] = log[x]  BY <1>4
<1>7. ext \in Log
  <2>1. \A x \in Ids : ext[x] \in Nat  BY <1>2, <1>5, <1>6 DEF Log
  <2> QED  BY <1>4, <2>1 DEF Log
<1>8. InLog(ext) = InLog(log) \cup new
  <2>1. \A x \in new : ext[x] > 0  BY <1>2, <1>5
  <2> QED  BY <1>1, <1>6, <2>1 DEF InLog
<1>9. \A x \in InLog(log) : ext[x] = log[x]  BY <1>1, <1>6 DEF new
<1> QED  BY <1>5, <1>7, <1>8, <1>9 DEF new, ext, n, m

\* In a dense log the added rows come after every other.
LEMMA ExtendDense ==
  ASSUME NEW log \in Log, NEW ord \in Log, NEW S \in SUBSET Ids, Dense(log)
  PROVE  /\ Dense(Extend(log, S, ord))
         /\ \A x \in InLog(log), y \in S \ InLog(log) :
              Extend(log, S, ord)[x] < Extend(log, S, ord)[y]
<1> DEFINE new == S \ InLog(log)
           ext == Extend(log, S, ord)
           n == Cardinality(InLog(log))
           m == Cardinality(new)
<1>1. InLog(log) \in SUBSET Ids /\ new \in SUBSET Ids  BY DEF InLog
<1>2. n \in Nat /\ m \in Nat /\ IsFiniteSet(new) /\ IsFiniteSet(InLog(log))
  BY <1>1, IdSets
<1>3. /\ ext \in Log
      /\ InLog(ext) = InLog(log) \cup S
      /\ \A x \in InLog(log) : ext[x] = log[x]
      /\ \A x \in new : ext[x] \in (n + 1)..(n + m)
  BY ExtendInLog
<1>4. \A x \in Ids : log[x] \in Nat /\ log[x] <= n  BY DEF Dense, Log
<1>5. Cardinality(InLog(ext)) = n + m
  <2>1. InLog(ext) = InLog(log) \cup new /\ InLog(log) \cap new = {}  BY <1>3
  <2>2. Cardinality(InLog(log) \cap new) = 0  BY <2>1, FS_EmptySet
  <2>3. Cardinality(InLog(log) \cup new)
          = n + m - Cardinality(InLog(log) \cap new)
    BY <1>2, FS_Union
  <2> HIDE DEF new, ext, n, m
  <2> QED  BY <1>2, <2>1, <2>2, <2>3
<1>6. Dense(ext)
  <2> SUFFICES ASSUME NEW x \in Ids  PROVE ext[x] <= n + m
    BY <1>5 DEF Dense
  <2>1. CASE x \in InLog(log)
    <3> HIDE DEF new, ext, n, m
    <3> QED  BY <1>2, <1>3, <1>4, <2>1
  <2>2. CASE x \in new
    <3> HIDE DEF new, ext, n, m
    <3> QED  BY <1>2, <1>3, <2>2
  <2>3. CASE x \notin InLog(log) \cup new
    <3>1. x \notin InLog(ext)  BY <1>3, <2>3
    <3>2. ~(ext[x] > 0) /\ ext[x] \in Nat  BY <1>3, <3>1 DEF InLog, Log
    <3> HIDE DEF new, ext, n, m
    <3> QED  BY <1>2, <3>2
  <2> QED  BY <2>1, <2>2, <2>3
<1>7. ASSUME NEW x \in InLog(log), NEW y \in new  PROVE ext[x] < ext[y]
  <2>1. log[x] \in Nat /\ log[x] <= n  BY <1>1, <1>4
  <2> HIDE DEF new, ext, n, m
  <2> QED  BY <1>2, <1>3, <2>1
<1> QED  BY <1>6, <1>7

\* So what lies behind a cursor the log holds stays what it was,
LEMMA ExtendBehind ==
  ASSUME NEW log \in Log, NEW ord \in Log, NEW S \in SUBSET Ids, Dense(log),
         NEW c \in InLog(log) \cup {None}
  PROVE  /\ Behind(Extend(log, S, ord), c) = Behind(log, c)
         /\ After(Extend(log, S, ord), c) = After(log, c) \cup (S \ InLog(log))
<1> DEFINE new == S \ InLog(log)
           ext == Extend(log, S, ord)
<1>1. /\ ext \in Log
      /\ InLog(ext) = InLog(log) \cup new
      /\ \A x \in InLog(log) : ext[x] = log[x]
  <2>1. ext \in Log /\ InLog(ext) = InLog(log) \cup S  BY ExtendInLog
  <2>2. \A x \in InLog(log) : ext[x] = log[x]  BY ExtendInLog
  <2> QED  BY <2>1, <2>2
<1>2. \A x \in InLog(log), y \in new : ext[x] < ext[y]  BY ExtendDense
<1>3. InLog(log) \subseteq Ids /\ InLog(ext) \subseteq Ids  BY DEF InLog
<1>4. Row(ext, c) = Row(log, c) /\ Row(log, c) \in Nat
  BY <1>1, <1>3 DEF Row, Log
<1>5. \A y \in new : ext[y] > Row(ext, c)
  <2> SUFFICES ASSUME NEW y \in new  PROVE ext[y] > Row(ext, c)
    OBVIOUS
  <2>1. y \in InLog(ext)  BY <1>1
  <2>2. ext[y] \in Nat /\ ext[y] > 0  BY <1>1, <2>1 DEF InLog, Log
  <2>3. CASE c = None  BY <2>2, <2>3 DEF Row
  <2>4. CASE c # None
    <3>1. c \in InLog(log) /\ Row(ext, c) = ext[c]  BY <2>4 DEF Row
    <3>2. ext[c] < ext[y]  BY <1>2, <3>1
    <3>3. ext[c] \in Nat  BY <1>1, <1>3, <3>1 DEF Log
    <3> HIDE DEF ext, new
    <3> QED  BY <2>2, <3>1, <3>2, <3>3
  <2> QED  BY <2>3, <2>4
<1>6. \A x \in Ids : ext[x] \in Nat /\ log[x] \in Nat  BY <1>1 DEF Log
<1> HIDE DEF ext, new
<1>7. Behind(ext, c) = Behind(log, c)  BY <1>1, <1>3, <1>4, <1>5, <1>6 DEF Behind
<1>8. After(ext, c) = After(log, c) \cup new  BY <1>1, <1>3, <1>4, <1>5, <1>6 DEF After
<1> QED  BY <1>7, <1>8 DEF ext, new

\* the place of a change after the cursor too,
LEMMA ExtendRank ==
  ASSUME NEW log \in Log, NEW ord \in Log, NEW S \in SUBSET Ids, Dense(log),
         NEW c \in InLog(log) \cup {None}, NEW x \in After(log, c)
  PROVE  Rank(Extend(log, S, ord), After(Extend(log, S, ord), c), x)
           = Rank(log, After(log, c), x)
<1> DEFINE new == S \ InLog(log)
           ext == Extend(log, S, ord)
<1>1. After(ext, c) = After(log, c) \cup new  BY ExtendBehind
<1>2. /\ \A y \in InLog(log) : ext[y] = log[y]
      /\ \A y \in InLog(log), z \in new : ext[y] < ext[z]
      /\ ext \in Log
      /\ InLog(ext) = InLog(log) \cup new
  <2>1. ext \in Log /\ InLog(ext) = InLog(log) \cup S  BY ExtendInLog
  <2>2. \A y \in InLog(log) : ext[y] = log[y]  BY ExtendInLog
  <2>3. \A y \in InLog(log), z \in new : ext[y] < ext[z]  BY ExtendDense
  <2> QED  BY <2>1, <2>2, <2>3
<1>3. After(log, c) \subseteq InLog(log) /\ InLog(log) \subseteq Ids /\ new \subseteq Ids
  BY DEF After, InLog
<1>4. \A y \in Ids : ext[y] \in Nat  BY <1>2 DEF Log
<1> HIDE DEF ext, new
<1>5. \A z \in new : ~(ext[z] <= ext[x])  BY <1>2, <1>3, <1>4
<1>6. {y \in After(ext, c) : ext[y] <= ext[x]} = {y \in After(log, c) : log[y] <= log[x]}
  BY <1>1, <1>2, <1>3, <1>5
<1> QED  BY <1>6 DEF Rank, ext, new

\* and an initial segment remains one.
LEMMA ExtendDownClosed ==
  ASSUME NEW log \in Log, NEW ord \in Log, NEW S \in SUBSET Ids, Dense(log),
         NEW T \in SUBSET InLog(log), DownClosed(log, T)
  PROVE  DownClosed(Extend(log, S, ord), T)
<1> DEFINE new == S \ InLog(log)
           ext == Extend(log, S, ord)
<1>1. /\ \A y \in InLog(log) : ext[y] = log[y]
      /\ \A y \in InLog(log), z \in new : ext[y] < ext[z]
      /\ ext \in Log
      /\ InLog(ext) = InLog(log) \cup new
  <2>1. ext \in Log /\ InLog(ext) = InLog(log) \cup S  BY ExtendInLog
  <2>2. \A y \in InLog(log) : ext[y] = log[y]  BY ExtendInLog
  <2>3. \A y \in InLog(log), z \in new : ext[y] < ext[z]  BY ExtendDense
  <2> QED  BY <2>1, <2>2, <2>3
<1>2. \A y \in Ids : ext[y] \in Nat  BY <1>1 DEF Log
<1>3. InLog(log) \subseteq Ids /\ new \subseteq Ids  BY DEF InLog
<1> HIDE DEF ext, new
<1> SUFFICES ASSUME NEW x \in T, NEW y \in InLog(ext), ext[y] <= ext[x]  PROVE y \in T
  BY DEF DownClosed, ext
<1>4. y \notin new  BY <1>1, <1>2, <1>3
<1>5. y \in InLog(log) /\ log[y] <= log[x]  BY <1>1, <1>4
<1> QED  BY <1>5 DEF DownClosed

\* Added changes stand in the order of the log they are taken from.
LEMMA ExtendOrder ==
  ASSUME NEW log \in Log, NEW ord \in Log, NEW S \in SUBSET Ids,
         NEW x \in S \ InLog(log), NEW y \in S \ InLog(log), ord[y] < ord[x]
  PROVE  Extend(log, S, ord)[y] < Extend(log, S, ord)[x]
<1> DEFINE new == S \ InLog(log)
           n == Cardinality(InLog(log))
           A == {z \in new : ord[z] <= ord[y]}
           B == {z \in new : ord[z] <= ord[x]}
<1>1. InLog(log) \in SUBSET Ids /\ new \in SUBSET Ids  BY DEF InLog
<1>2. \A z \in new : ord[z] \in Nat  BY <1>1 DEF Log
<1>3. A \subseteq B /\ x \in B /\ x \notin A  BY <1>2
<1>4. A \in SUBSET Ids /\ B \in SUBSET Ids  BY <1>1
<1>5. Extend(log, S, ord)[y] = n + Cardinality(A)
  BY <1>1 DEF Extend, Rank
<1>6. Extend(log, S, ord)[x] = n + Cardinality(B)
  BY <1>1 DEF Extend, Rank
<1> HIDE DEF n, new, A, B
<1>7. IsFiniteSet(B) /\ Cardinality(A) \in Nat /\ Cardinality(B) \in Nat
  BY <1>4, IdSets
<1>8. Cardinality(A) <= Cardinality(B) /\ (Cardinality(A) = Cardinality(B) => A = B)
  BY <1>3, <1>7, FS_Subset
<1>9. Cardinality(A) < Cardinality(B)  BY <1>3, <1>7, <1>8
<1>10. n \in Nat  BY <1>1, IdSets DEF n
<1> QED  BY <1>5, <1>6, <1>7, <1>9, <1>10

\* A part of a log is a log of just those changes.
LEMMA OnlyInLog ==
  ASSUME NEW log \in Log, NEW S \in SUBSET Ids
  PROVE  /\ Only(log, S) \in Log
         /\ InLog(Only(log, S)) = InLog(log) \cap S
         /\ Dense(Only(log, S))
<1>1. EmptyLog \in Log /\ InLog(EmptyLog) = {}  BY DEF EmptyLog, Log, InLog
<1>2. Dense(EmptyLog)
  <2>1. Cardinality(InLog(EmptyLog)) = 0  BY <1>1, FS_EmptySet
  <2> QED  BY <2>1 DEF Dense, EmptyLog
<1>3. InLog(log) \cap S \in SUBSET Ids  BY DEF InLog
<1> DEFINE kept == InLog(log) \cap S
<1>4. /\ Extend(EmptyLog, kept, log) \in Log
      /\ InLog(Extend(EmptyLog, kept, log)) = InLog(EmptyLog) \cup kept
  BY <1>1, <1>3, ExtendInLog
<1>5. Dense(Extend(EmptyLog, kept, log))  BY <1>1, <1>2, <1>3, ExtendDense
<1>6. InLog(EmptyLog) \cup kept = kept  BY <1>1
<1> QED  BY <1>4, <1>5, <1>6 DEF Only

\* Fetching as many changes as there are after the cursor fetches them all, and a
\* change is fetched with every earlier one after the cursor.
LEMMA FirstAfterFetches ==
  ASSUME NEW log \in Log, NEW c \in Ids \cup {None}, NEW n \in Nat
  PROVE  /\ FirstAfter(log, c, n) \subseteq After(log, c)
         /\ Cardinality(After(log, c)) = n => FirstAfter(log, c, n) = After(log, c)
         /\ \A x, y \in After(log, c) :
              Rank(log, After(log, c), x) <= n /\ log[y] <= log[x]
                => y \in FirstAfter(log, c, n)
<1> DEFINE A == After(log, c)
<1>1. A \in SUBSET Ids  BY DEF After, InLog
<1>2. \A x \in A : Rank(log, A, x) \in 1..Cardinality(A)  BY <1>1, RankRange
<1>3. Cardinality(A) \in Nat  BY <1>1, IdSets
<1>4. ASSUME NEW x \in A, NEW y \in A, Rank(log, A, x) <= n, log[y] <= log[x]
      PROVE  Rank(log, A, y) <= n
  <2> DEFINE R(z) == {w \in A : log[w] <= log[z]}
  <2>1. \A w \in A : log[w] \in Nat  BY <1>1 DEF Log
  <2>2. R(y) \in SUBSET R(x) /\ R(x) \in SUBSET Ids  BY <1>1, <1>4, <2>1
  <2>3. Cardinality(R(y)) <= Cardinality(R(x))  BY <2>2, IdSets, FS_Subset
  <2>4. Cardinality(R(y)) \in Nat /\ Cardinality(R(x)) \in Nat  BY <2>2, IdSets
  <2>5. Rank(log, A, x) = Cardinality(R(x)) /\ Rank(log, A, y) = Cardinality(R(y))
    BY DEF Rank
  <2> HIDE DEF R
  <2> QED  BY <1>4, <2>3, <2>4, <2>5
<1>5. FirstAfter(log, c, n) = {x \in A : Rank(log, A, x) <= n}  BY DEF FirstAfter
<1> HIDE DEF A
<1> QED  BY <1>2, <1>3, <1>4, <1>5 DEF A

\* Rebasing the pending changes leaves what lies behind the cursor where it was.
LEMMA OnlyBehind ==
  ASSUME NEW log \in Log, NEW c \in InLog(log) \cup {None}
  PROVE  LET kept == Only(log, Ids \ After(log, c))
         IN  c \in InLog(kept) \cup {None} /\ Behind(kept, c) = Behind(log, c)
<1> DEFINE S == InLog(log) \cap (Ids \ After(log, c))
           kept == Only(log, Ids \ After(log, c))
<1>1. EmptyLog \in Log /\ InLog(EmptyLog) = {}  BY DEF EmptyLog, Log, InLog
<1>2. /\ S \in SUBSET Ids /\ Ids \ After(log, c) \in SUBSET Ids
      /\ c \in Ids \cup {None} /\ InLog(log) \subseteq Ids
  BY DEF InLog
<1>3. S = Behind(log, c)  BY <1>2, SidesCover, Sides
<1>4. kept \in Log /\ InLog(kept) = S  BY <1>2, OnlyInLog
<1>5. CASE c = None
  <2>1. \A x \in InLog(log) : log[x] \in Nat /\ log[x] > 0  BY <1>2 DEF InLog, Log
  <2>2. \A x \in InLog(kept) : kept[x] \in Nat /\ kept[x] > 0
    BY <1>4 DEF InLog, Log
  <2>3. Behind(log, c) = {}  BY <1>5, <2>1 DEF Behind, Row
  <2>4. Behind(kept, c) = {}  BY <1>5, <2>2 DEF Behind, Row
  <2> QED  BY <1>5, <2>3, <2>4
<1>6. CASE c # None
  <2>1. c \in InLog(log) /\ c \in Ids /\ log[c] \in Nat /\ Row(log, c) = log[c]
    BY <1>2, <1>6 DEF Row, Log
  <2>2. c \in S  BY <1>3, <2>1 DEF Behind
  <2>3. \A x \in S : kept[x] = Cardinality(InLog(EmptyLog)) + Rank(log, S, x)
    BY <1>1, <1>2 DEF Only, Extend
  <2>4. \A x \in S : kept[x] = Rank(log, S, x)
    <3>1. Cardinality(InLog(EmptyLog)) = 0  BY <1>1, FS_EmptySet
    <3>2. \A x \in S : Rank(log, S, x) \in Nat  BY <1>2, RankRange, IdSets
    <3> QED  BY <2>3, <3>1, <3>2
  <2>5. \A x \in S : Rank(log, S, x) <= Rank(log, S, c)
    <3> SUFFICES ASSUME NEW x \in S  PROVE Rank(log, S, x) <= Rank(log, S, c)
      OBVIOUS
    <3> DEFINE A == {y \in S : log[y] <= log[x]}
               B == {y \in S : log[y] <= log[c]}
    <3>1. log[x] <= log[c]  BY <1>3, <2>1 DEF Behind
    <3>2. \A y \in Ids : log[y] \in Nat  BY DEF Log
    <3>3. A \subseteq B  BY <1>2, <2>1, <3>1, <3>2
    <3>4. A \in SUBSET Ids /\ B \in SUBSET Ids  BY <1>2
    <3> HIDE DEF A, B
    <3>5. Cardinality(A) <= Cardinality(B)  BY <3>3, <3>4, IdSets, FS_Subset
    <3> QED  BY <3>5 DEF Rank, A, B
  <2>6. Row(kept, c) = kept[c]  BY <1>6 DEF Row
  <2>7. Behind(kept, c) = S  BY <1>4, <2>2, <2>4, <2>5, <2>6 DEF Behind
  <2> QED  BY <1>3, <1>4, <2>2, <2>7
<1> QED  BY <1>5, <1>6

\* What a merge of the fetched changes T leaves of a log whose changes after cur
\* are pending, wherever the store puts the pending ones.
LEMMA MergedLog ==
  ASSUME NEW log \in Log, NEW ord \in Log, NEW T \in SUBSET Ids, Dense(log),
         NEW cur \in InLog(log) \cup {None}, NEW L, L = After(log, cur), NEW new,
         \/ new = Extend(log, T, ord)
         \/ new = Extend(Extend(Only(log, Ids \ L), T, ord), L, log)
  PROVE  /\ new \in Log
         /\ InLog(new) = InLog(log) \cup T
         /\ Dense(new)
         /\ Behind(new, cur) = Behind(log, cur)
<1>1. CASE new = Extend(log, T, ord)
  <2>1. new \in Log /\ InLog(new) = InLog(log) \cup T  BY <1>1, ExtendInLog
  <2>2. Dense(new)  BY <1>1, ExtendDense
  <2>3. Behind(new, cur) = Behind(log, cur)  BY <1>1, ExtendBehind
  <2> QED  BY <2>1, <2>2, <2>3
<1>2. CASE new = Extend(Extend(Only(log, Ids \ L), T, ord), L, log)
  <2> DEFINE kept == Only(log, Ids \ L)
             mid == Extend(kept, T, ord)
  <2>1. L \subseteq InLog(log) /\ InLog(log) \subseteq Ids  BY Sides
  <2>2. kept \in Log /\ InLog(kept) = InLog(log) \cap (Ids \ L) /\ Dense(kept)
    <3>1. Ids \ L \in SUBSET Ids  OBVIOUS
    <3> QED  BY <3>1, OnlyInLog
  <2>3. cur \in InLog(kept) \cup {None} /\ Behind(kept, cur) = Behind(log, cur)
    BY OnlyBehind
  <2> HIDE DEF kept
  <2>4. mid \in Log /\ InLog(mid) = InLog(kept) \cup T  BY <2>2, ExtendInLog
  <2>5. Dense(mid)  BY <2>2, ExtendDense
  <2>6. Behind(mid, cur) = Behind(kept, cur)  BY <2>2, <2>3, ExtendBehind
  <2>7. new = Extend(mid, L, log)  BY <1>2 DEF mid, kept
  <2>8. L \in SUBSET Ids  BY <2>1
  <2> HIDE DEF mid
  <2>9. new \in Log /\ InLog(new) = InLog(mid) \cup L
    BY ZenonT(60), <2>4, <2>7, <2>8, ExtendInLog
  <2>10. Dense(new)  BY <2>4, <2>5, <2>7, <2>8, ExtendDense
  <2>11. Behind(new, cur) = Behind(mid, cur)
    BY <2>3, <2>4, <2>5, <2>7, <2>8, ExtendBehind
  <2> QED  BY <2>1, <2>2, <2>3, <2>4, <2>6, <2>9, <2>10, <2>11
<1> QED  BY <1>1, <1>2

LEMMA AfterIds ==
  ASSUME NEW log, NEW c, NEW n
  PROVE  /\ After(log, c) \in SUBSET Ids
         /\ FirstAfter(log, c, n) \in SUBSET Ids
BY DEF After, FirstAfter, InLog

--------------------------------------------------------------------------------
(* What a step of the daemon's log does to the invariant of a device *)

LEMMA CursorShared ==
  ASSUME NEW rep \in Log, NEW sot \in Log, NEW cur \in Ids \cup {None},
         DeviceOK(rep, cur, sot)
  PROVE  cur \in InLog(sot) \cup {None}
<1> SUFFICES ASSUME cur # None  PROVE cur \in InLog(sot)
  OBVIOUS
<1>1. cur \in InLog(rep) /\ rep[cur] \in Nat  BY DEF DeviceOK, Log
<1>2. cur \in Behind(rep, cur)  BY <1>1 DEF Behind, Row
<1> QED  BY <1>2 DEF DeviceOK

LEMMA GrowDevice ==
  ASSUME NEW rep \in Log, NEW sot \in Log, NEW cur \in Ids \cup {None},
         NEW ord \in Log, NEW S \in SUBSET Ids, Dense(sot), DeviceOK(rep, cur, sot)
  PROVE  DeviceOK(rep, cur, Extend(sot, S, ord))
<1>1. cur \in InLog(sot) \cup {None}  BY CursorShared
<1>2. Behind(Extend(sot, S, ord), cur) = Behind(sot, cur)  BY <1>1, ExtendBehind
<1>3. InLog(Extend(sot, S, ord)) = InLog(sot) \cup S  BY ExtendInLog
<1> QED  BY <1>2, <1>3 DEF DeviceOK

\* A call that has not pushed yet still knows an initial part of the daemon's log.
LEMMA GrowRemote ==
  ASSUME NEW rep \in Log, NEW sot \in Log, NEW cur \in Ids \cup {None},
         NEW ord \in Log, NEW S \in SUBSET Ids, Dense(sot), DeviceOK(rep, cur, sot),
         NEW c, c.count \in Nat, RemoteFresh(c, rep, cur, sot)
  PROVE  RemoteFresh(c, rep, cur, Extend(sot, S, ord))
<1> DEFINE ext == Extend(sot, S, ord)
           old == After(sot, cur)
           now == After(ext, cur)
           new == S \ InLog(sot)
<1>1. cur \in InLog(sot) \cup {None}  BY CursorShared
<1>2. now = old \cup new  BY <1>1, ExtendBehind
<1>3. \A x \in old : Rank(ext, now, x) = Rank(sot, old, x)  BY <1>1, ExtendRank
<1>4. Behind(rep, cur) \cap now \subseteq old  BY <1>2 DEF DeviceOK
<1>5. old \in SUBSET now /\ now \in SUBSET Ids /\ IsFiniteSet(now)
  BY <1>2, AfterIds, IdSets
<1>6. /\ Cardinality(old) \in Nat /\ Cardinality(now) \in Nat
      /\ Cardinality(old) <= Cardinality(now)
      /\ Cardinality(old) = Cardinality(now) => old = now
  BY <1>5, IdSets, FS_Subset
<1>7. c.count \in Nat  OBVIOUS
<1>8. /\ c.pc \in {"cursor", "local", "count", "fetch"} => c.remote = {}
      /\ c.pc \in {"fetch", "keys", "push"} =>
           /\ c.count <= Cardinality(old)
           /\ \A x \in Behind(rep, cur) \cap old : Rank(sot, old, x) <= c.count
      /\ c.pc \in {"keys", "push"} =>
           /\ c.remote \subseteq old
           /\ Cardinality(old) = c.count => c.remote = old
  BY DEF RemoteFresh
<1> HIDE DEF ext, old, now, new
<1>9. c.pc \in {"fetch", "keys", "push"} =>
           /\ c.count <= Cardinality(now)
           /\ \A x \in Behind(rep, cur) \cap now : Rank(ext, now, x) <= c.count
  <2> SUFFICES ASSUME c.pc \in {"fetch", "keys", "push"}
               PROVE  /\ c.count <= Cardinality(now)
                      /\ \A x \in Behind(rep, cur) \cap now : Rank(ext, now, x) <= c.count
    OBVIOUS
  <2>1. c.count <= Cardinality(now)  BY <1>6, <1>7, <1>8
  <2>2. \A x \in Behind(rep, cur) \cap now : Rank(ext, now, x) <= c.count
    BY <1>3, <1>4, <1>8
  <2> QED  BY <2>1, <2>2
<1>10. c.pc \in {"keys", "push"} =>
           /\ c.remote \subseteq now
           /\ Cardinality(now) = c.count => c.remote = now
  <2> SUFFICES ASSUME c.pc \in {"keys", "push"}
               PROVE  /\ c.remote \subseteq now
                      /\ Cardinality(now) = c.count => c.remote = now
    OBVIOUS
  <2>1. c.remote \subseteq now  BY <1>5, <1>8
  <2>2. ASSUME Cardinality(now) = c.count  PROVE c.remote = now
    <3>1. Cardinality(old) = c.count  BY <1>6, <1>7, <1>8, <2>2
    <3> QED  BY <1>6, <1>8, <2>2, <3>1
  <2> QED  BY <2>1, <2>2
<1> QED  BY <1>8, <1>9, <1>10 DEF RemoteFresh, ext, now

LEMMA GrowSettled ==
  ASSUME NEW sot \in Log, NEW ord \in Log, NEW S \in SUBSET Ids, Dense(sot),
         NEW held, Settled(held, sot)
  PROVE  Settled(held, Extend(sot, S, ord))
<1>1. held \in SUBSET InLog(sot) /\ DownClosed(sot, held)  BY DEF Settled
<1>2. DownClosed(Extend(sot, S, ord), held)  BY <1>1, ExtendDownClosed
<1>3. InLog(Extend(sot, S, ord)) = InLog(sot) \cup S  BY ExtendInLog
<1> QED  BY <1>1, <1>2, <1>3 DEF Settled

\* Another device's post takes nothing from what a call knows.
LEMMA GrowCall ==
  ASSUME NEW rep \in Log, NEW sot \in Log, NEW cur \in Ids \cup {None},
         NEW ord \in Log, NEW S \in SUBSET Ids, Dense(sot), DeviceOK(rep, cur, sot),
         NEW c, c.count \in Nat, CallFresh(c, rep, cur, sot)
  PROVE  CallFresh(c, rep, cur, Extend(sot, S, ord))
<1> DEFINE ext == Extend(sot, S, ord)
<1>1. RemoteFresh(c, rep, cur, ext)  BY GrowRemote DEF CallFresh
<1>2. c.pc \in {"blobs", "merge"} => Settled(InLog(rep) \cup c.remote, ext)
  BY GrowSettled DEF CallFresh
<1>3. c.pc = "advance" => Settled(InLog(rep), ext)
  BY GrowSettled DEF CallFresh
<1>4. c.pc \in {"keys", "push", "blobs", "merge"} =>
        Settled(Behind(ext, cur) \cup c.remote, ext)
  <2>1. cur \in InLog(sot) \cup {None}  BY CursorShared
  <2>2. Behind(ext, cur) = Behind(sot, cur)  BY <2>1, ExtendBehind
  <2> QED  BY <2>2, GrowSettled DEF CallFresh
<1> QED  BY <1>1, <1>2, <1>3, <1>4 DEF CallFresh

--------------------------------------------------------------------------------
(* How a call comes to hold an initial part of the daemon's log *)

\* By posting its local changes when it has fetched everything else,
LEMMA PushSettles ==
  ASSUME NEW rep \in Log, NEW sot \in Log, NEW cur \in Ids \cup {None},
         DeviceOK(rep, cur, sot), NEW c, c.local \in SUBSET Ids,
         CallFresh(c, rep, cur, sot),
         c.pc = "push", Cardinality(After(sot, c.start)) = c.count
  PROVE  Settled(InLog(rep) \cup c.remote, Extend(sot, c.local, rep))
<1>1. c.start = cur /\ c.local = After(rep, cur)  BY DEF CallFresh, LocalFresh
<1>2. c.remote = After(sot, cur)  BY <1>1 DEF CallFresh, RemoteFresh
<1>3. /\ InLog(rep) = Behind(rep, cur) \cup After(rep, cur)
      /\ InLog(sot) = Behind(sot, cur) \cup After(sot, cur)
  BY SidesCover
<1>4. InLog(Extend(sot, c.local, rep)) = InLog(sot) \cup c.local
  <2> DEFINE L == c.local
  <2>1. L \in SUBSET Ids  OBVIOUS
  <2> HIDE DEF L
  <2>2. InLog(Extend(sot, L, rep)) = InLog(sot) \cup L  BY <2>1, ExtendInLog
  <2> QED  BY <2>2 DEF L
<1>5. InLog(rep) \cup c.remote = InLog(Extend(sot, c.local, rep))
  BY <1>1, <1>2, <1>3, <1>4, Sides DEF DeviceOK
<1> QED  BY <1>5 DEF Settled, DownClosed

\* and, with nothing to post, by fetching the first changes after the cursor,
LEMMA FetchSettles ==
  ASSUME NEW rep \in Log, NEW sot \in Log, NEW cur \in Ids \cup {None},
         DeviceOK(rep, cur, sot), NEW n \in Nat, After(rep, cur) = {},
         \A x \in Behind(rep, cur) \cap After(sot, cur) :
           Rank(sot, After(sot, cur), x) <= n
  PROVE  Settled(InLog(rep) \cup FirstAfter(sot, cur, n), sot)
<1> DEFINE A == After(sot, cur)
           F == FirstAfter(sot, cur, n)
<1>1. InLog(rep) = Behind(rep, cur)  BY SidesCover
<1>2. InLog(rep) \subseteq InLog(sot)  BY <1>1 DEF DeviceOK
<1>3. F \subseteq A /\ A \subseteq InLog(sot)  BY FirstAfterFetches, Sides
<1>4. ASSUME NEW x \in InLog(rep) \cup F, NEW y \in InLog(sot), sot[y] <= sot[x]
      PROVE  y \in InLog(rep) \cup F
  <2>1. InLog(sot) = Behind(sot, cur) \cup A  BY SidesCover
  <2>2. CASE y \in Behind(sot, cur)  BY <1>1, <2>2 DEF DeviceOK
  <2>3. CASE y \in A
    <3>1. x \in InLog(sot)  BY <1>2, <1>3
    <3>2. x \in A
      <4>1. Row(sot, cur) \in Nat  BY DEF Row, Log
      <4>2. sot[x] \in Nat /\ sot[y] \in Nat  BY <3>1 DEF InLog, Log
      <4> QED  BY <1>4, <2>3, <3>1, <4>1, <4>2 DEF After
    <3>3. Rank(sot, A, x) <= n  BY <1>1, <3>2 DEF FirstAfter
    <3> QED  BY <1>4, <2>3, <3>2, <3>3, FirstAfterFetches
  <2> QED  BY <2>1, <2>2, <2>3
<1>5. InLog(rep) \cup F \subseteq InLog(sot)  BY <1>2, <1>3
<1> QED  BY <1>4, <1>5 DEF Settled, DownClosed

\* or by finding that there are none.
LEMMA NothingToFetch ==
  ASSUME NEW rep \in Log, NEW sot \in Log, NEW cur \in Ids \cup {None},
         DeviceOK(rep, cur, sot), After(rep, cur) = {}, After(sot, cur) = {}
  PROVE  InLog(rep) = InLog(sot)
<1>1. /\ InLog(rep) = Behind(rep, cur) \cup After(rep, cur)
      /\ InLog(sot) = Behind(sot, cur) \cup After(sot, cur)
  BY SidesCover
<1> QED  BY <1>1 DEF DeviceOK

--------------------------------------------------------------------------------
(* How a device comes to be in order, and stays so *)

LEMMA EmptyDevice ==
  /\ EmptyLog \in Log /\ InLog(EmptyLog) = {} /\ Dense(EmptyLog)
  /\ DeviceOK(EmptyLog, None, EmptyLog)
<1>1. EmptyLog \in Log /\ InLog(EmptyLog) = {}  BY DEF EmptyLog, Log, InLog
<1>2. Cardinality(InLog(EmptyLog)) = 0  BY <1>1, FS_EmptySet
<1>3. Dense(EmptyLog)  BY <1>2 DEF Dense, EmptyLog
<1>4. Behind(EmptyLog, None) = {}  BY <1>1, Sides
<1> QED  BY <1>1, <1>3, <1>4 DEF DeviceOK

\* An edit is appended after every other change, and after the cursor.
LEMMA EditDevice ==
  ASSUME NEW rep \in Log, NEW sot \in Log, NEW cur \in Ids \cup {None},
         DeviceOK(rep, cur, sot), NEW x \in Ids
  PROVE  /\ Extend(rep, {x}, EmptyLog) \in Log
         /\ InLog(Extend(rep, {x}, EmptyLog)) = InLog(rep) \cup {x}
         /\ DeviceOK(Extend(rep, {x}, EmptyLog), cur, sot)
<1>1. EmptyLog \in Log /\ {x} \in SUBSET Ids  BY EmptyDevice
<1> DEFINE X == {x}
           new == Extend(rep, X, EmptyLog)
<1>2. X \in SUBSET Ids  BY <1>1
<1> HIDE DEF X
<1>3. new \in Log /\ InLog(new) = InLog(rep) \cup X  BY <1>1, <1>2, ExtendInLog
<1>4. Dense(new)  BY <1>1, <1>2, ExtendDense DEF DeviceOK
<1>5. Behind(new, cur) = Behind(rep, cur)  BY <1>1, <1>2, ExtendBehind DEF DeviceOK
<1>6. DeviceOK(new, cur, sot)  BY <1>3, <1>4, <1>5 DEF DeviceOK
<1> QED  BY <1>3, <1>6 DEF X

\* A merge leaves what lies behind the cursor where it was.
LEMMA MergeDevice ==
  ASSUME NEW rep \in Log, NEW sot \in Log, NEW cur \in Ids \cup {None},
         DeviceOK(rep, cur, sot), NEW c, c.pc = "merge", c.remote \in SUBSET Ids,
         LocalFresh(c, rep, cur),
         NEW new,
         \/ new = Extend(rep, c.remote, sot)
         \/ new = Extend(Extend(Only(rep, Ids \ c.local), c.remote, sot), c.local, rep)
  PROVE  /\ new \in Log
         /\ InLog(new) = InLog(rep) \cup c.remote
         /\ Behind(new, cur) = Behind(rep, cur)
         /\ DeviceOK(new, cur, sot)
<1> DEFINE R == c.remote
           L == c.local
<1>1. L = After(rep, cur) /\ R \in SUBSET Ids  BY DEF LocalFresh
<1>2. Dense(rep) /\ cur \in InLog(rep) \cup {None}  BY DEF DeviceOK
<1>3. \/ new = Extend(rep, R, sot)
      \/ new = Extend(Extend(Only(rep, Ids \ L), R, sot), L, rep)
  OBVIOUS
<1> HIDE DEF R, L
<1>4. /\ new \in Log /\ InLog(new) = InLog(rep) \cup R
      /\ Dense(new) /\ Behind(new, cur) = Behind(rep, cur)
  BY <1>1, <1>2, <1>3, MergedLog
<1>5. DeviceOK(new, cur, sot)  BY <1>2, <1>4 DEF DeviceOK
<1> QED  BY <1>4, <1>5 DEF R

\* The cursor moves to the last row of a log the daemon held as a whole.
LEMMA AdvanceDevice ==
  ASSUME NEW rep \in Log, NEW sot, Dense(rep), Settled(InLog(rep), sot),
         NEW last \in InLog(rep), After(rep, last) = {}
  PROVE  DeviceOK(rep, last, sot)
<1>1. last \in Ids /\ last # None  BY Sides, ChangeLogAssumption
<1>2. Behind(rep, last) = InLog(rep)  BY <1>1, SidesCover
<1>3. Behind(sot, last) \subseteq InLog(rep)
  BY <1>1 DEF Settled, DownClosed, Behind, Row
<1> QED  BY <1>2, <1>3 DEF DeviceOK, Settled

\* What lies behind the cursor is an initial segment, with or without the first
\* changes after it.
LEMMA BehindSettled ==
  ASSUME NEW sot \in Log, NEW cur \in Ids \cup {None}, NEW n \in Nat
  PROVE  /\ Settled(Behind(sot, cur), sot)
         /\ Settled(Behind(sot, cur) \cup FirstAfter(sot, cur, n), sot)
<1> DEFINE A == After(sot, cur)
           B == Behind(sot, cur)
           F == FirstAfter(sot, cur, n)
<1>1. A \subseteq InLog(sot) /\ B \subseteq InLog(sot) /\ InLog(sot) \subseteq Ids
  BY Sides
<1>2. InLog(sot) = B \cup A  BY SidesCover
<1>3. F \subseteq A  BY FirstAfterFetches
<1>4. \A x \in Ids : sot[x] \in Nat  BY DEF Log
<1>5. Row(sot, cur) \in Nat  BY DEF Row, Log
<1>6. ASSUME NEW x \in B, NEW y \in InLog(sot), sot[y] <= sot[x]  PROVE y \in B
  BY <1>1, <1>4, <1>5, <1>6 DEF Behind
<1>7. ASSUME NEW x \in F, NEW y \in InLog(sot), sot[y] <= sot[x]  PROVE y \in B \cup F
  <2>1. CASE y \in B  BY <2>1
  <2>2. CASE y \in A
    <3>1. x \in A /\ Rank(sot, A, x) <= n  BY <1>3 DEF FirstAfter
    <3> QED  BY <1>7, <2>2, <3>1, FirstAfterFetches
  <2> QED  BY <1>2, <2>1, <2>2
<1> HIDE DEF A, B, F
<1>8. B \subseteq InLog(sot) /\ B \cup F \subseteq InLog(sot)  BY <1>1, <1>3
<1>9. Settled(B, sot)  BY <1>6, <1>8 DEF Settled, DownClosed
<1>10. Settled(B \cup F, sot)  BY <1>6, <1>7, <1>8 DEF Settled, DownClosed
<1> QED  BY <1>9, <1>10 DEF B, F

--------------------------------------------------------------------------------
(* Changes in the order of what they are about *)

\* about[x] is the change that x is about, or x itself.  A log is ordered when it
\* holds what its changes are about, each before the changes about it.
Ordered(log, about) ==
  \A x \in InLog(log) :
    about[x] # x => log[about[x]] > 0 /\ log[about[x]] < log[x]

\* Extending an ordered log leaves it ordered when each new change follows what it
\* is about, in the log or in the order of the extension.
LEMMA ExtendOrdered ==
  ASSUME NEW log \in Log, NEW ord \in Log, NEW S \in SUBSET Ids, Dense(log),
         NEW about, \A x \in InLog(log) \cup S : about[x] \in Ids,
         Ordered(log, about),
         \A x \in S \ InLog(log) :
           about[x] # x =>
             about[x] \in InLog(log) \/ (about[x] \in S /\ ord[about[x]] < ord[x])
  PROVE  Ordered(Extend(log, S, ord), about)
<1> DEFINE ext == Extend(log, S, ord)
<1>1. ext \in Log /\ InLog(ext) = InLog(log) \cup S  BY ExtendInLog
<1>2. \A x \in InLog(log) : ext[x] = log[x]  BY ExtendInLog
<1>3. \A x \in InLog(log), y \in S \ InLog(log) : ext[x] < ext[y]  BY ExtendDense
<1>4. \A x, y \in S \ InLog(log) : ord[y] < ord[x] => ext[y] < ext[x]
  BY ExtendOrder
<1> HIDE DEF ext
<1>5. \A x \in InLog(ext) : ext[x] > 0  BY DEF InLog
<1> SUFFICES ASSUME NEW x \in InLog(ext), about[x] # x
             PROVE  ext[about[x]] > 0 /\ ext[about[x]] < ext[x]
  BY DEF Ordered, ext
<1>6. CASE x \in InLog(log)
  <2>1. log[about[x]] > 0 /\ log[about[x]] < log[x] /\ about[x] \in Ids
    BY <1>6 DEF Ordered
  <2>2. about[x] \in InLog(log)  BY <2>1 DEF InLog
  <2> QED  BY <1>2, <1>6, <2>1, <2>2
<1>7. CASE x \in S \ InLog(log)
  <2>1. CASE about[x] \in InLog(log)  BY <1>1, <1>3, <1>5, <1>7, <2>1
  <2>2. CASE about[x] \in S \ InLog(log) /\ ord[about[x]] < ord[x]
    BY <1>1, <1>4, <1>5, <1>7, <2>2
  <2> QED  BY <1>7, <2>1, <2>2
<1> QED  BY <1>1, <1>6, <1>7

\* The daemon's log after a post.
LEMMA PushOrdered ==
  ASSUME NEW rep \in Log, NEW sot \in Log, NEW cur \in Ids \cup {None}, Dense(sot),
         DeviceOK(rep, cur, sot), NEW about,
         \A x \in InLog(rep) \cup InLog(sot) : about[x] \in Ids,
         Ordered(rep, about), Ordered(sot, about)
  PROVE  Ordered(Extend(sot, After(rep, cur), rep), about)
<1> DEFINE L == After(rep, cur)
<1>1. L \in SUBSET Ids /\ L \subseteq InLog(rep)  BY Sides
<1>2. InLog(rep) = Behind(rep, cur) \cup L  BY SidesCover
<1>3. Behind(rep, cur) \subseteq InLog(sot)  BY DEF DeviceOK
<1>4. ASSUME NEW x \in L \ InLog(sot), about[x] # x
      PROVE  about[x] \in InLog(sot) \/ (about[x] \in L /\ rep[about[x]] < rep[x])
  <2>1. about[x] \in Ids /\ rep[about[x]] > 0 /\ rep[about[x]] < rep[x]
    BY <1>1, <1>4 DEF Ordered
  <2>2. about[x] \in InLog(rep)  BY <2>1 DEF InLog
  <2> QED  BY <1>2, <1>3, <2>1, <2>2
<1> HIDE DEF L
<1>5. Ordered(Extend(sot, L, rep), about)  BY <1>1, <1>4, ExtendOrdered
<1> QED  BY <1>5 DEF L

\* A device's log after a merge, whichever way the store merges.
LEMMA MergeOrdered ==
  ASSUME NEW rep \in Log, NEW sot \in Log, NEW cur \in Ids \cup {None},
         DeviceOK(rep, cur, sot), NEW about,
         \A x \in InLog(rep) \cup InLog(sot) : about[x] \in Ids,
         Ordered(rep, about), Ordered(sot, about),
         NEW L, L = After(rep, cur), NEW R, Settled(Behind(sot, cur) \cup R, sot),
         NEW new,
         \/ new = Extend(rep, R, sot)
         \/ new = Extend(Extend(Only(rep, Ids \ L), R, sot), L, rep)
  PROVE  Ordered(new, about)
<1>1. /\ L \subseteq InLog(rep) /\ InLog(rep) \subseteq Ids
      /\ R \subseteq InLog(sot) /\ InLog(sot) \subseteq Ids
  BY Sides DEF Settled
<1>2. L \in SUBSET Ids /\ R \in SUBSET Ids  BY <1>1
<1>3. /\ Dense(rep) /\ Behind(sot, cur) \subseteq Behind(rep, cur)
      /\ Behind(rep, cur) \subseteq InLog(rep)
  BY Sides DEF DeviceOK
<1>4. InLog(rep) = Behind(rep, cur) \cup L /\ Behind(rep, cur) \cap L = {}
  BY SidesCover
\* What a fetched change is about was fetched with it, or lies behind the cursor.
<1>5. ASSUME NEW x \in R, about[x] # x
      PROVE  about[x] \in Behind(rep, cur) \/ (about[x] \in R /\ sot[about[x]] < sot[x])
  <2>1. about[x] \in Ids /\ sot[about[x]] > 0 /\ sot[about[x]] < sot[x]
    BY <1>1, <1>5 DEF Ordered
  <2>2. about[x] \in InLog(sot) /\ sot[about[x]] <= sot[x]
    BY <1>1, <2>1 DEF InLog, Log
  <2>3. about[x] \in Behind(sot, cur) \cup R  BY <1>5, <2>2 DEF Settled, DownClosed
  <2> QED  BY <1>3, <2>1, <2>3
\* What a change of the file is about is in the file, before it.
<1>6. ASSUME NEW x \in InLog(rep), about[x] # x
      PROVE  about[x] \in InLog(rep) /\ rep[about[x]] < rep[x]
  <2>1. about[x] \in Ids /\ rep[about[x]] > 0 /\ rep[about[x]] < rep[x]
    BY <1>6 DEF Ordered
  <2> QED  BY <2>1 DEF InLog
<1>7. CASE new = Extend(rep, R, sot)
  <2>1. \A x \in InLog(rep) \cup R : about[x] \in Ids  BY <1>1
  <2> QED  BY <1>2, <1>3, <1>5, <1>7, <2>1, ExtendOrdered
<1>8. CASE new = Extend(Extend(Only(rep, Ids \ L), R, sot), L, rep)
  <2> DEFINE B == Behind(rep, cur)
             kept == Only(rep, Ids \ L)
             mid == Extend(kept, R, sot)
  <2>1. InLog(rep) \cap (Ids \ L) = B  BY <1>1, <1>4
  <2>2. kept \in Log /\ InLog(kept) = B /\ Dense(kept)  BY <1>2, <2>1, OnlyInLog
  <2>3. Ordered(kept, about)
    <3>1. EmptyLog \in Log /\ InLog(EmptyLog) = {} /\ Dense(EmptyLog)  BY EmptyDevice
    <3>2. Ordered(EmptyLog, about)  BY <3>1 DEF Ordered
    <3>3. ASSUME NEW x \in B, about[x] # x
          PROVE  about[x] \in B /\ rep[about[x]] < rep[x]
      <4>1. about[x] \in InLog(rep) /\ rep[about[x]] < rep[x]  BY <1>3, <1>6, <3>3
      <4>2. Row(rep, cur) \in Nat  BY DEF Row, Log
      <4>3. rep[x] \in Nat /\ rep[about[x]] \in Nat  BY <1>1, <1>3, <3>3, <4>1 DEF Log
      <4>4. rep[x] <= Row(rep, cur)  BY <3>3 DEF Behind
      <4>5. rep[about[x]] <= Row(rep, cur)  BY <4>1, <4>2, <4>3, <4>4
      <4> QED  BY <4>1, <4>5 DEF Behind
    <3>4. B \in SUBSET Ids /\ \A x \in InLog(EmptyLog) \cup B : about[x] \in Ids
      BY <1>1, <1>3, <3>1
    <3>5. kept = Extend(EmptyLog, B, rep)  BY <2>1 DEF Only
    <3> HIDE DEF B, kept
    <3>6. Ordered(Extend(EmptyLog, B, rep), about)
      BY <3>1, <3>2, <3>3, <3>4, ExtendOrdered
    <3> QED  BY <3>5, <3>6
  <2>4. \A x \in InLog(kept) \cup R \cup L : about[x] \in Ids  BY <1>1, <1>3, <2>2
  <2> HIDE DEF kept
  <2>5. /\ mid \in Log /\ InLog(mid) = B \cup R /\ Dense(mid)
    BY <1>2, <2>2, ExtendInLog, ExtendDense
  <2>6. Ordered(mid, about)
    <3>1. \A x \in R \ InLog(kept) :
            about[x] # x =>
              about[x] \in InLog(kept) \/ (about[x] \in R /\ sot[about[x]] < sot[x])
      BY <1>5, <2>2
    <3>2. \A x \in InLog(kept) \cup R : about[x] \in Ids  BY <2>4
    <3> QED  BY <1>2, <2>2, <2>3, <3>1, <3>2, ExtendOrdered
  <2> HIDE DEF mid
  <2>7. \A x \in L \ InLog(mid) :
          about[x] # x =>
            about[x] \in InLog(mid) \/ (about[x] \in L /\ rep[about[x]] < rep[x])
    BY <1>1, <1>4, <1>6, <2>5
  <2>8. \A x \in InLog(mid) \cup L : about[x] \in Ids  BY <2>2, <2>4, <2>5
  <2>9. Ordered(Extend(mid, L, rep), about)
    BY <1>2, <2>5, <2>6, <2>7, <2>8, ExtendOrdered
  <2> QED  BY <1>8, <2>9 DEF mid, kept
<1> QED  BY <1>7, <1>8

--------------------------------------------------------------------------------
(* What calls that overlap need besides *)

LEMMA ExtendNothing ==
  ASSUME NEW log \in Log, NEW ord
  PROVE  Extend(log, {}, ord) = log
BY DEF Extend, Log

\* Changes that a log gains are no part of the first ones of those it had.
LEMMA ExtendFirst ==
  ASSUME NEW log \in Log, NEW ord \in Log, NEW S \in SUBSET Ids, Dense(log),
         NEW c \in InLog(log) \cup {None}, NEW n \in Nat,
         n <= Cardinality(After(log, c))
  PROVE  FirstAfter(Extend(log, S, ord), c, n) = FirstAfter(log, c, n)
<1> DEFINE ext == Extend(log, S, ord)
           old == After(log, c)
           now == After(ext, c)
           new == S \ InLog(log)
<1>1. now = old \cup new  BY ExtendBehind
<1>2. \A x \in old : Rank(ext, now, x) = Rank(log, old, x)  BY ExtendRank
<1>3. \A x \in InLog(log), y \in new : ext[x] < ext[y]  BY ExtendDense
<1>4. ext \in Log  BY ExtendInLog
<1>5. /\ old \subseteq InLog(log) /\ old \in SUBSET Ids /\ new \in SUBSET Ids
      /\ old \cap new = {}
  BY Sides, AfterIds
<1>6. FirstAfter(ext, c, n) = {x \in now : Rank(ext, now, x) <= n}
      /\ FirstAfter(log, c, n) = {x \in old : Rank(log, old, x) <= n}
  BY DEF FirstAfter
<1>7. Cardinality(old) \in Nat /\ n <= Cardinality(old)  BY <1>5, IdSets
<1> HIDE DEF ext, old, now, new
<1>8. ASSUME NEW x \in new  PROVE ~(Rank(ext, now, x) <= n)
  <2> DEFINE T == {y \in now : ext[y] <= ext[x]}
  <2>1. \A y \in Ids : ext[y] \in Nat  BY <1>4 DEF Log
  <2>2. old \subseteq T
    <3> SUFFICES ASSUME NEW y \in old  PROVE y \in now /\ ext[y] <= ext[x]
      OBVIOUS
    <3>1. ext[y] < ext[x]  BY <1>3, <1>5
    <3>2. ext[y] \in Nat /\ ext[x] \in Nat  BY <1>5, <2>1
    <3> QED  BY <1>1, <3>1, <3>2
  <2>3. x \in T /\ x \notin old  BY <1>1, <1>5, <2>1
  <2>4. T \in SUBSET Ids /\ IsFiniteSet(T)  BY <1>1, <1>5, IdSets
  <2>5. Cardinality(T) \in Nat  BY <2>4, IdSets
  <2>6. Rank(ext, now, x) = Cardinality(T)  BY DEF Rank
  <2> HIDE DEF T
  <2>7. Cardinality(old) <= Cardinality(T)
        /\ (Cardinality(old) = Cardinality(T) => old = T)
    BY <2>2, <2>4, FS_Subset
  <2> QED  BY <1>7, <2>3, <2>5, <2>6, <2>7
<1> QED  BY <1>1, <1>2, <1>6, <1>8 DEF ext

\* Two initial segments make one, and the whole log is one.
LEMMA SettledUnion ==
  ASSUME NEW sot, NEW A, NEW B, Settled(A, sot), Settled(B, sot)
  PROVE  Settled(A \cup B, sot)
BY DEF Settled, DownClosed

LEMMA SettledAll ==
  ASSUME NEW sot, NEW A, A = InLog(sot)
  PROVE  Settled(A, sot)
BY DEF Settled, DownClosed

\* A merge keeps what the log held, whichever part of it is rebased.
LEMMA MergedSets ==
  ASSUME NEW log \in Log, NEW ord \in Log, NEW R \in SUBSET Ids, Dense(log),
         NEW L \in SUBSET InLog(log), NEW new,
         \/ new = Extend(log, R, ord)
         \/ new = Extend(Extend(Only(log, Ids \ L), R, ord), L, log)
  PROVE  new \in Log /\ InLog(new) = InLog(log) \cup R /\ Dense(new)
<1>1. CASE new = Extend(log, R, ord)  BY <1>1, ExtendInLog, ExtendDense
<1>2. CASE new = Extend(Extend(Only(log, Ids \ L), R, ord), L, log)
  <2> DEFINE kept == Only(log, Ids \ L)
             mid == Extend(kept, R, ord)
  <2>1. InLog(log) \subseteq Ids /\ L \in SUBSET Ids  BY Sides
  <2>2. kept \in Log /\ InLog(kept) = InLog(log) \ L /\ Dense(kept)
    <3>1. InLog(log) \cap (Ids \ L) = InLog(log) \ L  BY <2>1
    <3> QED  BY <3>1, OnlyInLog
  <2> HIDE DEF kept
  <2>3. mid \in Log /\ InLog(mid) = InLog(kept) \cup R /\ Dense(mid)
    BY <2>2, ExtendInLog, ExtendDense
  <2> HIDE DEF mid
  <2>4. /\ Extend(mid, L, log) \in Log
        /\ InLog(Extend(mid, L, log)) = InLog(mid) \cup L
        /\ Dense(Extend(mid, L, log))
    BY <2>1, <2>3, ExtendInLog, ExtendDense
  <2>5. (InLog(log) \ L) \cup R \cup L = InLog(log) \cup R  OBVIOUS
  <2> QED  BY <1>2, <2>2, <2>3, <2>4, <2>5 DEF mid, kept
<1> QED  BY <1>1, <1>2

================================================================================
