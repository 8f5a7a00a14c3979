----------------------------- MODULE TxLifecycle -----------------------------
(***************************************************************************)
(* What a client of the transaction manager may rely on for each managed   *)
(* transaction: the life its stored status goes through, and that a reply  *)
(* only ever tells of a status that is stored.                             *)
(***************************************************************************)
EXTENDS Sequences

CONSTANT Txs

VARIABLES status, reported

vars == <<status, reported>>

Resolved == {"Succeeded", "Failed"}
Stored == Resolved \cup {"Pending", "Suspended"}

Init == /\ status = [t \in Txs |-> "New"]
        /\ reported = [t \in Txs |-> <<>>]

\* One step of a status; a resolved transaction can only be deleted.
Move(t, from, to) == /\ status[t] \in from
                     /\ status' = [status EXCEPT ![t] = to]
                     /\ UNCHANGED reported

Accept(t)  == Move(t, {"New"}, "Pending")
Suspend(t) == Move(t, {"Pending"}, "Suspended")
Resume(t)  == Move(t, {"Suspended"}, "Pending")
Resolve(t) == \E s \in Resolved : Move(t, {"Pending", "Suspended"}, s)
Delete(t)  == Move(t, Stored, "Gone")

\* A restart can lose several submissions that were still being stored.
Refuse(S) == /\ \A t \in S : status[t] = "New"
             /\ status' = [t \in Txs |-> IF t \in S THEN "Gone" ELSE status[t]]
             /\ UNCHANGED reported

Report(t) ==
    /\ status[t] \in Resolved \cup {"Gone"}
    /\ reported' = [reported EXCEPT ![t] =
                      Append(@, IF status[t] = "Gone" THEN "Deleted" ELSE status[t])]
    /\ UNCHANGED status

Next == \/ \E t \in Txs : \/ Accept(t) \/ Suspend(t) \/ Resume(t)
                          \/ Resolve(t) \/ Delete(t) \/ Report(t)
        \/ \E S \in SUBSET Txs : Refuse(S)

Spec == Init /\ [][Next]_vars
=============================================================================
