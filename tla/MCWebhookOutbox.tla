-------------------------- MODULE MCWebhookOutbox --------------------------
(* WebhookOutbox on small instances. *)
EXTENDS WebhookOutbox

CONSTANTS e1, e2, s1, s2

TwoEvents == {e1, e2}
TwoSenders == {s1, s2}
=============================================================================
