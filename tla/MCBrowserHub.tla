---------------------------- MODULE MCBrowserHub ----------------------------
(* BrowserHub for TLC. *)
EXTENDS BrowserHub
=============================================================================
