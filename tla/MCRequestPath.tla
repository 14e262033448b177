---------------------------- MODULE MCRequestPath ----------------------------
(* The sets of labels and events for TLC, and the symmetry of goroutines. *)
EXTENDS RequestPath, TLC

AllStatuses == {"ok", "bad", "denied", "limited", "failed", "unavailable"}
KindEvents == Kinds \X {"ok", "failed"}

\* The limiter with cheap handlers and a moving clock; handlers that log, verify
\* and panic with a clock that stands still; and two requests of the other kinds.
SomeBounds ==
    {[clock |-> 2, requests |-> 4, kinds |-> {"verify"}],
     [clock |-> 0, requests |-> 3, kinds |-> {"reconstruct", "ready"}],
     [clock |-> 0, requests |-> 2, kinds |-> {"issue", "revoke", "split"}]}

Symmetry == Permutations(Goroutines)
=============================================================================
