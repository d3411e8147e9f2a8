---------------------------- MODULE MCZoomSync ----------------------------
(* ZoomSync on small instances for TLC.                                    *)
EXTENDS ZoomSyncPromise, TLC

Symmetry == Permutations(Procs) \cup Permutations(Videos)

\* Liveness of overlapping syncs, without the requests to link a recording.
UnlinkedSpec == Init /\ [][Next /\ links' = {}]_vars /\ Fairness

=============================================================================
