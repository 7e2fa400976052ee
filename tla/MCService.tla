----------------------------- MODULE MCService -----------------------------
(* An instance of Service for TLC. *)
EXTENDS Service

CONSTANTS r1, r2, w1, w2

Options == {[interval |-> 3, timeout |-> 11]}
=============================================================================
