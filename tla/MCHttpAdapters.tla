--------------------------- MODULE MCHttpAdapters ---------------------------
(***************************************************************************)
(* A small instance of HttpAdapters.                                       *)
(***************************************************************************)
EXTENDS HttpAdapters

CONSTANT callback
=============================================================================
