----------------------- MODULE MCConfirmationManager -----------------------
(* Small instances of ConfirmationManager for TLC. *)
EXTENDS ConfirmationManager

AllSetups == {"tx", "event"} \X {"full", "light"}
TxBoth == {<<"tx", "full">>, <<"tx", "light">>}
TxFull == {<<"tx", "full">>}
TxLight == {<<"tx", "light">>}
EventLight == {<<"event", "light">>}
EventsOnly == {<<"event", "full">>}

\* The receipt workers are alike.
WorkerSymmetry == Permutations(Workers)
=============================================================================
