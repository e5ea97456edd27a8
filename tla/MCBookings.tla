----------------------------- MODULE MCBookings -----------------------------
(***************************************************************************)
(* Instances of Bookings for TLC.  Rooms 101 and 102 share a bucket, 201   *)
(* and 301 are each in another one; with one shard every relocation is     *)
(* local, with more of them those between buckets are sagas.               *)
(***************************************************************************)
EXTENDS Bookings, TLC

TwoBuckets == {1, 2}
ThreeBuckets == {1, 2, 3}

OneShard == [bucket \in TwoBuckets |-> "shard_a"]
TwoShards == [bucket \in TwoBuckets |->
                 IF bucket = 1 THEN "shard_a" ELSE "shard_b"]
ThreeShards == [bucket \in ThreeBuckets |->
                   CASE bucket = 1 -> "shard_a"
                     [] bucket = 2 -> "shard_b"
                     [] bucket = 3 -> "shard_c"]

OneHotel == {<<1, 101>>, <<1, 102>>}
TwoHotels == {<<1, 101>>, <<2, 201>>}
ThreeRooms == {<<1, 101>>, <<1, 102>>, <<2, 201>>}
ThreeHotels == {<<1, 101>>, <<2, 201>>, <<3, 301>>}

NoRoom == {}
Missing == {<<1, 999>>}

\* A guest is in room 101 from day 1 to day 2.
OneSeed == [b \in {<<1, "s1">>} |->
               [room |-> <<1, 101>>, in |-> 1, out |-> 2, status |-> "PENDING"]]

Symmetry == Permutations(Request)
=============================================================================
