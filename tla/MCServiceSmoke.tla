--------------------------- MODULE MCServiceSmoke ---------------------------
(* Two requests: a guard trip may fall before, between and after them.  Two  *)
(* signals: the second falls into the handling of the first.                 *)
EXTENDS ServiceSmoke
=============================================================================
