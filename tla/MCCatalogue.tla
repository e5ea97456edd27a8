---------------------------- MODULE MCCatalogue ----------------------------
(***************************************************************************)
(* Instances of Catalogue for TLC: two hotels with a room each, in cities  *)
(* of which one is spelled in two ways.                                    *)
(***************************************************************************)
EXTENDS Catalogue, TLC

Hashes == ("Kyiv" :> 6) @@ ("kyiv" :> 1) @@ ("Lviv" :> 7) @@ ("lviv" :> 2) @@ ("none" :> 3)

Spellings == ("Kyiv" :> "kyiv") @@ ("kyiv" :> "kyiv") @@ ("Lviv" :> "lviv")

TwoHotels == ("h1" :> "Kyiv") @@ ("h2" :> "Lviv")

TwoRooms == ("r1" :> [hotel |-> "h1", number |-> 101])
            @@ ("r2" :> [hotel |-> "h2", number |-> 101])

\* One shard, two shards by a map, and a map that is refused.
Maps == {[shards |-> 1, spec |-> <<>>],
         [shards |-> 2, spec |-> <<[from |-> 0, to |-> 3, shard |-> 1],
                                   [from |-> 0, to |-> 0, shard |-> 0]>>],
         [shards |-> 2, spec |-> <<[from |-> 0, to |-> 4, shard |-> 1]>>]}

Symmetry == Permutations(Request)
=============================================================================
