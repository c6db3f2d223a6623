---------------------------- MODULE MCSessionFile ----------------------------
(* The instance of SessionFile that is model-checked.  A URL is text, which *)
(* the identifiers and the digits of a file are not.                        *)
EXTENDS SessionFile

TheURL == <<9, 8>>
=============================================================================
