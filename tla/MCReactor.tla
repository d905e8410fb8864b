------------------------------ MODULE MCReactor ------------------------------
(* Two threads, one of which owns the loop thread, and three functors:     *)
(* enough for a push during each stage of the loop, for a push behind a    *)
(* batch that is running and for a functor queued by a functor.            *)
EXTENDS ReactorThread
=============================================================================
