-------------------------- MODULE MCGuestDirectory --------------------------
(***************************************************************************)
(* Instances of GuestDirectory for TLC: guest "ann" has a booking on the   *)
(* first shard, guest "bob" has none.                                      *)
(***************************************************************************)
EXTENDS GuestDirectory, TLC

TwoGuests == ("ann" :> "ann@") @@ ("bob" :> "bob@")

OneBooking == [b \in {"b1"} |-> [shard |-> "shard_a", guest |-> "ann"]]

Symmetry == Permutations(Remover) \cup Permutations(Writer)
=============================================================================
