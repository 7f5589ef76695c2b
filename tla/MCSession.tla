----------------------------- MODULE MCSession -----------------------------
(* Session for TLC; its constants are plain values, given in the cfg.      *)
EXTENDS Session
=============================================================================
