---------------------------- MODULE MCJsThread ----------------------------
(***************************************************************************)
(* JsThread with a few pauses and requests.                                *)
(***************************************************************************)
EXTENDS JsThread

=============================================================================
