---------------------------- MODULE SpaceJournal ----------------------------
(***************************************************************************)
(* What a user space of the DAV cloud promises to the synchronising        *)
(* clients: a journal of file actions, cut into numbered anchors.  Nothing *)
(* is recorded but under the lock; an anchor carries the next number and   *)
(* covers the log up to its end; the announced anchor is one of the index. *)
(***************************************************************************)
EXTENDS Naturals, Sequences

CONSTANTS Users, Types

VARIABLES
    locked,    \* whether a request has the lock of the space
    acd,       \* the action log
    idx,       \* the anchors
    published  \* the anchor that clients are told of, 0 for none

jvars == <<locked, acd, idx, published>>

Init ==
    /\ locked = [u \in Users |-> FALSE]
    /\ acd = [u \in Users |-> <<>>]
    /\ idx = [u \in Users |-> <<>>]
    /\ published = [u \in Users |-> 0]

Lock(u) ==
    /\ ~locked[u]
    /\ locked' = [locked EXCEPT ![u] = TRUE]
    /\ UNCHANGED <<acd, idx, published>>

Record(u) ==
    /\ locked[u]
    /\ \E t \in Types : acd' = [acd EXCEPT ![u] = Append(@, t)]
    /\ UNCHANGED <<locked, idx, published>>

AddAnchor(u) ==
    /\ locked[u]
    /\ idx' = [idx EXCEPT ![u] = Append(@, [num |-> Len(@) + 1, oset |-> Len(acd[u])])]
    /\ UNCHANGED <<locked, acd, published>>

Unlock(u) ==
    /\ locked[u]
    /\ locked' = [locked EXCEPT ![u] = FALSE]
    /\ \E n \in 0 .. Len(idx[u]) : published' = [published EXCEPT ![u] = n]
    /\ UNCHANGED <<acd, idx>>

Next == \E u \in Users : Lock(u) \/ Record(u) \/ AddAnchor(u) \/ Unlock(u)

Spec == Init /\ [][Next]_jvars

=============================================================================
