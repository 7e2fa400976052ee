------------------------------ MODULE LoggerLog ------------------------------
(***************************************************************************)
(* The logger implements Log: what is pending is the writer's batch and    *)
(* then the queue, what is kept is what was written, and it is keeping     *)
(* while the file is open.                                                 *)
(***************************************************************************)
EXTENDS Logger

OnTheWay == batch \o queue

Abstract ==
  INSTANCE Log WITH Entries <- Messages, pending <- OnTheWay, kept <- written,
                    keeping <- open

\* The file receives what all the threads logged in the order in which it was
\* enqueued, each entry at most once; while a file is open none is passed over but
\* one whose level is too low then, and any other that is lost was taken, or thrown
\* away, while no file was open.
ImplementsLog == Abstract!LogSpec
=============================================================================
