------------------------------- MODULE ChangeLog -------------------------------
(***************************************************************************)
(* The change logs of src/app/vault: every store of a source of truth keeps *)
(* the identifiers of its changes in rows, in the order in which it stored  *)
(* them, and a cursor is the identifier of one of them.  The stores are not *)
(* in this repository; the services read them through GetChangeCount,       *)
(* GetChangesAfter and their remote counterparts, which these operators     *)
(* model.                                                                  *)
(*                                                                         *)
(* A log is a function from identifiers to rows, 0 for a change it does not *)
(* hold.                                                                   *)
(***************************************************************************)
EXTENDS Integers, FiniteSets

CONSTANTS
  Ids,   \* identifiers of changes; bounds the edits of a behaviour
  None   \* no change, no cursor yet

ASSUME ChangeLogAssumption == IsFiniteSet(Ids) /\ None \notin Ids

Log == [Ids -> Nat]
EmptyLog == [x \in Ids |-> 0]
InLog(log) == {x \in Ids : log[x] > 0}

\* A cursor the log does not hold stands before its first row.
Row(log, c) == IF c = None THEN 0 ELSE log[c]
Behind(log, c) == {x \in InLog(log) : log[x] <= Row(log, c)}
After(log, c) == {x \in InLog(log) : log[x] > Row(log, c)}

\* The place of x among the changes of S, in the order of log.
Rank(log, S, x) == Cardinality({y \in S : log[y] <= log[x]})

\* The changes after c, oldest first, at most n of them.
FirstAfter(log, c, n) ==
  {x \in After(log, c) : Rank(log, After(log, c), x) <= n}

\* log with the changes of S it lacks appended in the order of ord.
Extend(log, S, ord) ==
  LET new == S \ InLog(log)
  IN  [x \in Ids |-> IF x \in new
                     THEN Cardinality(InLog(log)) + Rank(ord, new, x)
                     ELSE log[x]]

\* The log of the changes of log that are in S, in the same order.
Only(log, S) == Extend(EmptyLog, InLog(log) \cap S, log)

\* With a change of S, the log holds every earlier one in S.
DownClosed(log, S) ==
  \A x \in S, y \in InLog(log) : log[y] <= log[x] => y \in S

\* No row number exceeds the number of rows: a new row comes after every other.
Dense(log) == \A x \in Ids : log[x] <= Cardinality(InLog(log))

================================================================================
