--------------------------- MODULE RecordReplication ---------------------------
(***************************************************************************)
(* What record synchronisation promises, without the calls that achieve it: *)
(* VaultReplication for every vault, each with a file and a history of its  *)
(* own, and devices that join later.  A change is made in one vault and     *)
(* stays there.  A device that joins a vault takes a beginning of its       *)
(* history at once, and never takes it again over changes of its own.       *)
(*                                                                         *)
(* There is no open file here, no selection, no request, cursor or upload;  *)
(* RecordSync is the mechanism of src/app/vault/recordservice.go, and       *)
(* implements this module.                                                 *)
(***************************************************************************)
EXTENDS ChangeLog

CONSTANTS
  Devices,  \* devices that replicate the same source of truth
  Vaults    \* vaults of that source of truth

VARIABLES
  history,   \* history[v]: the log of v at the source of truth
  held,      \* held[d][v]: the changes of v that d holds
  confirmed  \* confirmed[d][v]: the changes of v that d holds to be synchronised

vars == <<history, held, confirmed>>

\* S is what the source of truth held of v at some time.
Segment(v, S) == S \subseteq InLog(history[v]) /\ DownClosed(history[v], S)

Init ==
  /\ history = [v \in Vaults |-> EmptyLog]
  /\ held = [d \in Devices |-> [v \in Vaults |-> {}]]
  /\ confirmed = [d \in Devices |-> [v \in Vaults |-> {}]]

\* The device makes a change nobody has made before, in any vault.
Make(d, v, c) ==
  /\ \A w \in Vaults : c \notin InLog(history[w])
  /\ \A e \in Devices, w \in Vaults : c \notin held[e][w]
  /\ held' = [held EXCEPT ![d][v] = @ \cup {c}]
  /\ UNCHANGED <<history, confirmed>>

\* Everything the device holds of the vault enters its history at once, after what
\* is there.
Post(d, v) ==
  /\ InLog(history'[v]) = InLog(history[v]) \cup held[d][v]
  /\ \A c \in InLog(history[v]) : history'[v][c] = history[v][c]
  /\ DownClosed(history'[v], InLog(history[v]))
  /\ history' = [history EXCEPT ![v] = history'[v]]
  /\ UNCHANGED <<held, confirmed>>

\* The device comes to hold an initial segment of the history, and loses nothing.
Receive(d, v) ==
  \E S \in SUBSET Ids :
    /\ held[d][v] \subseteq S /\ Segment(v, S)
    /\ held' = [held EXCEPT ![d][v] = S]
    /\ UNCHANGED <<history, confirmed>>

\* What the device holds is an initial segment, and the device takes note of it.
Confirm(d, v) ==
  /\ Segment(v, held[d][v])
  /\ confirmed' = [confirmed EXCEPT ![d][v] = held[d][v]]
  /\ UNCHANGED <<history, held>>

\* A device that holds nothing of the vault takes its history as it was at some time,
\* and with it what the device it comes from had confirmed.
Join(d, v) ==
  \E T \in SUBSET Ids : \E S \in SUBSET T :
    /\ held[d][v] = {} /\ Segment(v, T) /\ Segment(v, S)
    /\ held' = [held EXCEPT ![d][v] = T]
    /\ confirmed' = [confirmed EXCEPT ![d][v] = S]
    /\ UNCHANGED history

Next ==
  \E d \in Devices, v \in Vaults :
    \/ Post(d, v) \/ Receive(d, v) \/ Confirm(d, v) \/ Join(d, v)
    \/ \E c \in Ids : Make(d, v, c)

Spec == Init /\ [][Next]_vars

================================================================================
