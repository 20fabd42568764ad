--------------------------- MODULE MCSlowLogFilter ---------------------------
(***************************************************************************)
(* Records of one index and two queries.  The passing run uses took_millis *)
(* values of one, two and three digits; the violation run a pair whose     *)
(* string order differs from their numeric order.                          *)
(***************************************************************************)
EXTENDS SlowLogFilter

MCIndices == {"i1"}
MCSources == {"q1", "q2", "q3"}
MCMillis  == {5, 12, 100}
MCMillisPair == {5, 12}

=============================================================================
