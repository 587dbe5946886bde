--------------------------- MODULE SnapshotStore ---------------------------
(***************************************************************************)
(* What a snapshot promises to its user: changes are seen at once and no   *)
(* row is taken back, rows become durable together or not at all, and a    *)
(* crash returns to what was durable.  A row that is already durable may   *)
(* be changed in place, durably at once.                                   *)
(***************************************************************************)
EXTENDS Naturals, Sequences

CONSTANT Table

VARIABLES
    view,    \* the rows the user may read once everything is written
    durable  \* the rows that survive a crash

vars == <<view, durable>>

Init ==
    /\ view = [t \in Table |-> <<>>]
    /\ durable = view

Change ==
    /\ \A t \in Table : Len(view'[t]) >= Len(view[t])
    /\ UNCHANGED durable

(* one row becomes another in both, whatever else the user has added *)
Amend ==
    \E t \in Table : \E i \in DOMAIN durable[t] :
        /\ view[t][i] = durable[t][i]
        /\ durable' = [durable EXCEPT ![t][i] = view'[t][i]]
        /\ view' = [view EXCEPT ![t][i] = view'[t][i]]

Save ==
    /\ durable' = view
    /\ UNCHANGED view

Lose ==
    /\ view' = durable
    /\ UNCHANGED durable

Next == Change \/ Amend \/ Save \/ Lose

Spec == Init /\ [][Next]_vars
=============================================================================
