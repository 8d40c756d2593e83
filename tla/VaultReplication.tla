--------------------------- MODULE VaultReplication ---------------------------
(***************************************************************************)
(* What vault synchronisation promises, without the calls that achieve it.  *)
(* The source of truth grows one history of changes.  A device holds a set  *)
(* of changes: its own edits, and whole initial segments of that history,   *)
(* never a history with holes.  It confirms what it holds once all of it is *)
(* in the history, and what it has confirmed it never has to send or to     *)
(* fetch again.                                                            *)
(*                                                                         *)
(* There are no requests, counts, limits, keys, blobs, cursors or rows of a *)
(* replica here, and no failures: a sync that is cut short, at whichever    *)
(* step, has done some of the steps below and not the others.  VaultSync is *)
(* the mechanism of src/app/vault/service.go, and implements this module.  *)
(***************************************************************************)
EXTENDS ChangeLog

CONSTANT Devices  \* devices that replicate the same source of truth

VARIABLES
  history,   \* the log of the source of truth
  held,      \* held[d]: the changes d holds
  confirmed  \* confirmed[d]: the changes d holds to be synchronised

vars == <<history, held, confirmed>>

\* S is what the source of truth held at some time.
Segment(S) == S \subseteq InLog(history) /\ DownClosed(history, S)

Init ==
  /\ history = EmptyLog
  /\ held = [d \in Devices |-> {}]
  /\ confirmed = [d \in Devices |-> {}]

\* The device makes a change nobody has made before.
Make(d, c) ==
  /\ c \notin InLog(history)
  /\ \A e \in Devices : c \notin held[e]
  /\ held' = [held EXCEPT ![d] = @ \cup {c}]
  /\ UNCHANGED <<history, confirmed>>

\* Everything the device holds enters the history at once, after what is there.
Post(d) ==
  /\ InLog(history') = InLog(history) \cup held[d]
  /\ \A c \in InLog(history) : history'[c] = history[c]
  /\ DownClosed(history', InLog(history))
  /\ UNCHANGED <<held, confirmed>>

\* The device comes to hold an initial segment of the history, and loses nothing.
Receive(d) ==
  \E S \in SUBSET Ids :
    /\ held[d] \subseteq S /\ Segment(S)
    /\ held' = [held EXCEPT ![d] = S]
    /\ UNCHANGED <<history, confirmed>>

\* What the device holds is an initial segment, and the device takes note of it.
Confirm(d) ==
  /\ Segment(held[d])
  /\ confirmed' = [confirmed EXCEPT ![d] = held[d]]
  /\ UNCHANGED <<history, held>>

Next ==
  \E d \in Devices :
    Post(d) \/ Receive(d) \/ Confirm(d) \/ \E c \in Ids : Make(d, c)

Spec == Init /\ [][Next]_vars

================================================================================
