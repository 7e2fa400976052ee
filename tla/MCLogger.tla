------------------------------- MODULE MCLogger -------------------------------
(* Instances of Logger for TLC: two threads that log. *)
EXTENDS LoggerLog

CONSTANTS t1, t2

\* The program keeps one rotated file, the tests two; a second line is too long.
OneOrTwo == {<<1, 1>>, <<1, 2>>}

\* The first message of one thread is of a level that may be too low.
FirstIsQuiet == {<<t1, 1>>}
=============================================================================
