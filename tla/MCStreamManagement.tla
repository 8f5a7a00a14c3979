------------------------ MODULE MCStreamManagement ------------------------
(* Small instances of StreamManagement for TLC. *)
EXTENDS StreamManagement, TLC

CONSTANTS s1, s2, l1, l2, a, b, q1, q2, q3

Running(n) == [name |-> n, suspended |-> FALSE]
OneStream ==
    [streams |-> (s1 :> Running(a) @@ s2 :> NoStream),
     listeners |-> (l1 :> [stream |-> s1, name |-> a] @@ l2 :> NoListener)]
TwoStreams ==
    [streams |-> (s1 :> Running(a) @@ s2 :> Running(b)),
     listeners |-> (l1 :> [stream |-> s1, name |-> a] @@ l2 :> [stream |-> s2, name |-> b])]
SomeStores == {OneStream, TwoStreams}

Symmetric == Permutations(Requests)
===========================================================================
