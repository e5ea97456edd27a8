--------------------------- MODULE MCSearchCache ----------------------------
(***************************************************************************)
(* The instance of SearchCache for TLC.                                    *)
(***************************************************************************)
EXTENDS SearchCache
=============================================================================
