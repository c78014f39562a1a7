----------------------------- MODULE MCExpiries -----------------------------
(***************************************************************************)
(* Small instances of Expiries: three ticks to the second.                 *)
(***************************************************************************)
EXTENDS Expiries

\* Intervals that are and are not whole seconds, none at all, and NaN.
AccessIntervals  == {0, 4, 6, NaN}
RefreshIntervals == {None, 2, 5, 9}
CodeOptions      == {None, 4, NaN}
=============================================================================
