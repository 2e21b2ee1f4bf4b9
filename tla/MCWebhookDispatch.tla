------------------------- MODULE MCWebhookDispatch -------------------------
(***************************************************************************)
(* Small instances of WebhookDispatch.                                     *)
(***************************************************************************)
EXTENDS WebhookDispatch
=============================================================================
