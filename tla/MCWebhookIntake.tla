--------------------------- MODULE MCWebhookIntake ---------------------------
(* Small instances of WebhookIntake for TLC. *)
EXTENDS WebhookIntake, TLC

\* Handlers are interchangeable.
HandlerSymmetry == Permutations(Handlers)
=============================================================================
