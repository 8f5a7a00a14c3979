---------------------- MODULE MCConfirmedBlockListener ----------------------
(* Small instances of ConfirmedBlockListener for TLC. *)
EXTENDS ConfirmedBlockListener

\* A listener that starts at the latest block, and one that starts at the first.
LatestOrFirst == {Latest, 0}
OnlyLatest == {Latest}
OnlyFirst == {0}
=============================================================================
