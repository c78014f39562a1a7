------------------------------- MODULE Absence -------------------------------
(***************************************************************************)
(* The absent value of the JavaScript code: undefined, null, or a row that *)
(* is not there.                                                           *)
(***************************************************************************)
CONSTANT None
=============================================================================
