-------------------------- MODULE MCBrowserBridge --------------------------
(* Small instances of BrowserBridge for TLC. *)
EXTENDS BrowserBridge
=============================================================================
