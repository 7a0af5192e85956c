--------------------------- MODULE MCSeenTracker ---------------------------
(* TLC instance of SeenTracker: one id more than the tracker holds. *)
EXTENDS SeenTracker

CONSTANTS a, b, c, d

\* Lists as the state file may hold them: longer than the tracker, with a repeated
\* id, or short.
Restarts == {<<a, b, c, d>>, <<b, a, b>>, <<d>>}
=============================================================================
