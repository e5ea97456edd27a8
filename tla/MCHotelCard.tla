---------------------------- MODULE MCHotelCard -----------------------------
(***************************************************************************)
(* Instances of HotelCard for TLC; the hotels are of one bucket.           *)
(***************************************************************************)
EXTENDS HotelCard, TLC

Symmetry == Permutations(Reader) \cup Permutations(Writer)
=============================================================================
