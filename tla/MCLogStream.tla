------------------------------ MODULE MCLogStream ------------------------------
(***************************************************************************)
(* LogStream with a queue of two items, a history of two events and four    *)
(* events: enough to fill the queue and drop more than once.  A Compose     *)
(* follower is replaced once; two events in the middle share their time.    *)
(***************************************************************************)
EXTENDS LogStream

MCTime == <<1, 2, 2, 3>>
=============================================================================
