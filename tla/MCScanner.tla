----------------------------- MODULE MCScanner -----------------------------
(* Model-checking instances of Scanner, one per MCScanner*.cfg.            *)
EXTENDS Scanner

GoodRadio == {}
BadRadio  == {"sync_lost"}
=============================================================================
