--------------------------- MODULE MCEventStream ---------------------------
(* Small instances of EventStream for TLC. *)
EXTENDS EventStream, TLC

CONSTANTS l1, l2

Setup(mode, onError, confirms, tracks, batch, trouble, listeners) ==
    [mode |-> mode, onError |-> onError, confirms |-> confirms, tracks |-> tracks,
     batch |-> batch, trouble |-> trouble,
     events |-> listeners[1], blocks |-> listeners[2], later |-> listeners[3], latest |-> {}]

LoadBalance == Setup("load_balance", "block", FALSE, TRUE, 1, 1, <<{l1}, {}, {}>>)
WebhookConfirm == Setup("webhook", "block", TRUE, TRUE, 1, 1, <<{l1}, {}, {}>>)
WebhookBlocks == Setup("webhook", "block", FALSE, TRUE, 1, 2, <<{}, {l1}, {}>>)
WebhookBoth == Setup("webhook", "block", FALSE, TRUE, 1, 0, <<{l1}, {l2}, {}>>)
WebhookScan == Setup("webhook", "block", FALSE, FALSE, 2, 1, <<{l1}, {}, {l2}>>)
WebhookSkip == Setup("webhook", "skip", FALSE, TRUE, 1, 1, <<{l1}, {}, {}>>)
BroadcastAll == Setup("broadcast", "skip", FALSE, TRUE, 1, 0, <<{l1}, {}, {}>>)

WebhookLatest == [Setup("webhook", "block", FALSE, TRUE, 1, 2, <<{l1}, {}, {}>>) EXCEPT !.latest = {l1}]

Mixed == {LoadBalance, WebhookConfirm, WebhookBlocks, WebhookBoth, WebhookScan, WebhookSkip, BroadcastAll,
          WebhookLatest}
JustBlocking == {WebhookConfirm}

\* A position without an event is scanned over.
SomeLogs == [l \in Listeners |-> IF l = l1 THEN {1, 3} ELSE {1}]
=============================================================================
