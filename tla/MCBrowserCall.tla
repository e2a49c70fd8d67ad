--------------------------- MODULE MCBrowserCall ---------------------------
(* Two browsers hold the token of one call.                                *)
EXTENDS BrowserCall
=============================================================================
