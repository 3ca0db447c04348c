------------------------------ MODULE MCUring ------------------------------
(* Small instances of Uring for TLC. *)
EXTENDS Uring

CONSTANTS t1, t2

OneCaller  == {t1}
TwoCallers == {t1, t2}
=============================================================================
