---------------------------- MODULE MCThreadPool ----------------------------
(* Three workers and four tasks, so that one waits, one is woken and one   *)
(* is busy while more than one task is queued; a pool started twice.       *)
EXTENDS ThreadPool
=============================================================================
