----------------------------- MODULE Catalogue -----------------------------
(***************************************************************************)
(* Hotels and rooms on the shards: the requests that create, change and    *)
(* delete them (hotels.service.ts, rooms.service.ts), the reports gathered *)
(* from all shards (sharding.service.ts), and the growth of the cluster.   *)
(*                                                                         *)
(* A request is a chain of actions, one per await.  The tables are         *)
(* functions from the stored ids to rows; a row names the shard it lies    *)
(* on.  The caches are in SearchCache and HotelCard, bookings in Bookings. *)
(***************************************************************************)
EXTENDS Resharding

CONSTANTS
    Request,       \* each is served once
    Number,        \* roomNumber
    SeededHotels,  \* hotels stored before the first request: name -> city
    SeededRooms,   \* their rooms: name -> [hotel, number]
    Booked,        \* the names of those that have bookings
    Layouts,       \* what SHARD_URLS and SHARD_BUCKET_MAP say: [shards, spec]
    MaxShards

VARIABLES
    strategy, shards, map,    \* the configuration, the same in every API
    hotel, room,              \* the tables of all shards
    pc, job,
    parts,    \* reports: what the queries to the shards have answered
    failed,   \* reports: the shards that did not answer
    touched,  \* history: another request has written since this one began
    kept,     \* history, reports: the rows that have been there throughout
    seen,     \* history, reports: the rows there have been at some time
    moved     \* history: hotels PATCHed into another city

config == <<strategy, shards, map>>
reports == <<parts, failed>>
history == <<touched, kept, seen, moved>>
vars == <<config, hotel, room, pc, job, reports, history>>

City == DOMAIN Normal

ASSUME CatalogueAssumption ==
    /\ SeededHotels \in [DOMAIN SeededHotels -> City]
    /\ SeededRooms \in [DOMAIN SeededRooms ->
                           [hotel : DOMAIN SeededHotels, number : Number]]
    /\ MaxShards \in Nat
    /\ \A layout \in Layouts :
          /\ layout.shards \in 1 .. MaxShards
          /\ layout.spec \in Seq([from : Nat, to : Nat, shard : Nat])
    /\ IsFiniteSet(DOMAIN SeededHotels) /\ IsFiniteSet(DOMAIN SeededRooms)
    /\ "rooms" \notin City   \* the label under which a report counts the rooms

HotelId == Bucket \X (Request \cup DOMAIN SeededHotels)
RoomId  == Bucket \X (Request \cup DOMAIN SeededRooms)

\* An id no row has, for instance the text "none" in a path.
NoId == <<Foreign, "none">>

Report == {"cities", "distribution"}

\* What a request was asked.
Job == [op : {"none"}]
       \cup [op : {"PATCH hotel"}, id : HotelId, city : City]
       \cup [op : {"DELETE hotel"}, id : HotelId]
       \cup [op : {"POST room"}, hotel : HotelId, number : Number]
       \cup [op : {"PATCH room"}, id : RoomId, hotel : HotelId \cup {NoId}, number : Number]
       \cup [op : {"DELETE room"}, id : RoomId]
       \cup [op : Report]

-----------------------------------------------------------------------------
(* ShardRouter.forKey, newHotelId, childId and shardForCity.                *)
forKey(id) == map[bucketOf(id)]

newHotelId(uuidHash, name, city) ==
    idInBucket(bucketForNewHotel(strategy, uuidHash, city), name)

childId(parentId, name) == idInBucket(bucketOf(parentId), name)

shardForCity(city) == map[fnv1a(normalizeCity(city)) % BUCKETS]

RoomsOf(h) == {r \in DOMAIN room : room[r].hotel = h /\ room[r].shard = hotel[h].shard}

(* The table with a row put in its place.                                   *)
With(table, id, row) ==
    [i \in DOMAIN table \cup {id} |-> IF i = id THEN row ELSE table[i]]

Without(table, id) == [i \in DOMAIN table \ {id} |-> table[i]]

(* The tables of a cluster in which the rows lie where map sends them.      *)
Placed(table) == [id \in DOMAIN table |-> [table[id] EXCEPT !.shard = map'[bucketOf(id)]]]

Init ==
    /\ strategy \in {"hash", "city"}
    /\ \E layout \in Layouts :
          /\ shards = layout.shards
          /\ map = buildBucketMap(layout.shards, layout.spec)
          /\ map # Refused
    /\ \E uuidHash \in [DOMAIN SeededHotels -> Bucket] :
          LET id(name) == newHotelId(uuidHash[name], name, SeededHotels[name])
              roomId(name) == childId(id(SeededRooms[name].hotel), name)
          IN  /\ hotel = [h \in {id(name) : name \in DOMAIN SeededHotels} |->
                             [shard |-> forKey(h), city |-> SeededHotels[h[2]]]]
              /\ room = [r \in {roomId(name) : name \in DOMAIN SeededRooms} |->
                            [shard |-> forKey(r), hotel |-> id(SeededRooms[r[2]].hotel),
                             number |-> SeededRooms[r[2]].number]]
    /\ pc = [q \in Request |-> "idle"]
    /\ job = [q \in Request |-> [op |-> "none"]]
    /\ parts = [q \in Request |-> <<>>]
    /\ failed = [q \in Request |-> {}]
    /\ touched = [q \in Request |-> FALSE]
    /\ kept = [q \in Request |-> {}]
    /\ seen = [q \in Request |-> {}]
    /\ moved = {}

-----------------------------------------------------------------------------
Waiting(q) == pc[q] \in {"number", "write", "gather"}

(* What a report counts: the hotels by city, and the rooms.                 *)
Entries(hotels, rooms) ==
    {<<hotels[h].city, h>> : h \in DOMAIN hotels} \cup {<<"rooms", r>> : r \in DOMAIN rooms}

Begin(q, what, next) ==
    /\ pc[q] = "idle"
    /\ job' = [job EXCEPT ![q] = what]
    /\ pc' = [pc EXCEPT ![q] = next]
    /\ UNCHANGED <<config, hotel, room, reports, history>>

(* The request is answered, and what was kept for it is dropped.            *)
Answer(q, code) ==
    /\ pc' = [pc EXCEPT ![q] = code]
    /\ job' = [job EXCEPT ![q] = [op |-> "none"]]
    /\ UNCHANGED <<config, reports>>

(* An answer that leaves the tables as they are.                            *)
Reject(q, code) ==
    /\ Answer(q, code)
    /\ touched' = [touched EXCEPT ![q] = FALSE]
    /\ UNCHANGED <<hotel, room, kept, seen, moved>>

(* The last statement of a request; the requests under way are told.        *)
Write(q, hotels, rooms) ==
    /\ Answer(q, "200")
    /\ hotel' = hotels
    /\ room' = rooms
    /\ touched' = [p \in Request |-> p # q /\ (touched[p] \/ Waiting(p))]
    /\ kept' = [p \in Request |-> kept[p] \cap Entries(hotels, rooms)]
    /\ seen' = [p \in Request |->
                   IF pc[p] = "gather" THEN seen[p] \cup Entries(hotels, rooms) ELSE {}]

Found(table, id, shard) == id \in DOMAIN table /\ table[id].shard = shard

\* The unique index on hotelId and roomNumber of one shard.
Taken(h, number, shard, except) ==
    \E r \in DOMAIN room \ {except} :
       room[r].hotel = h /\ room[r].number = number /\ room[r].shard = shard

-----------------------------------------------------------------------------
(* HotelsService.create: nothing is read before the insert.                 *)
CreateHotel(q, city) ==
    /\ pc[q] = "idle"
    /\ \E uuidHash \in Bucket :
          LET id == newHotelId(uuidHash, q, city)
          IN  Write(q, With(hotel, id, [shard |-> forKey(id), city |-> city]), room)
    /\ UNCHANGED moved

(* HotelsService.update and remove up to findOne, a read of the primary.    *)
FindHotel(q, what) ==
    /\ pc[q] = "idle"
    /\ \/ Found(hotel, what.id, forKey(what.id)) /\ Begin(q, what, "write")
       \/ ~Found(hotel, what.id, forKey(what.id)) /\ Reject(q, "404")

(* hotel.update; nothing ties the city to the bucket.  A row that is gone   *)
(* makes Prisma throw.                                                      *)
UpdateHotel(q) ==
    /\ pc[q] = "write"
    /\ job[q].op = "PATCH hotel"
    /\ LET id == job[q].id
       IN  IF Found(hotel, id, forKey(id))
           THEN /\ Write(q, With(hotel, id, [hotel[id] EXCEPT !.city = job[q].city]), room)
                /\ moved' = IF hotel[id].city = job[q].city THEN moved ELSE moved \cup {id}
           ELSE Reject(q, "500")

(* hotel.delete; the foreign key of the rooms refuses it.                   *)
RemoveHotel(q) ==
    /\ pc[q] = "write"
    /\ job[q].op = "DELETE hotel"
    /\ LET id == job[q].id
       IN  IF Found(hotel, id, forKey(id)) /\ RoomsOf(id) = {}
           THEN Write(q, Without(hotel, id), room) /\ moved' = moved \ {id}
           ELSE Reject(q, "500")

-----------------------------------------------------------------------------
(* RoomsService.create: the hotel is looked for, then the number, then the  *)
(* row is inserted.                                                         *)
CreateRoom(q, h, number) ==
    /\ pc[q] = "idle"
    /\ \/ /\ Found(hotel, h, forKey(h))
          /\ Begin(q, [op |-> "POST room", hotel |-> h, number |-> number], "number")
       \/ ~Found(hotel, h, forKey(h)) /\ Reject(q, "404")

\* Mutant: the number is not looked for.
CheckNothing(q) ==
    /\ pc[q] = "number"
    /\ pc' = [pc EXCEPT ![q] = "write"]
    /\ UNCHANGED <<config, hotel, room, job, reports, history>>

CheckNumber(q) ==
    /\ pc[q] = "number"
    /\ LET taken == Taken(job[q].hotel, job[q].number, forKey(job[q].hotel), NoId)
       IN  \/ taken /\ Reject(q, "409")
           \/ /\ ~taken
              /\ pc' = [pc EXCEPT ![q] = "write"]
              /\ UNCHANGED <<config, hotel, room, job, reports, history>>

(* A constraint of the database makes the insert fail.                      *)
InsertRoom(q) ==
    /\ pc[q] = "write"
    /\ job[q].op = "POST room"
    /\ LET h == job[q].hotel
           id == childId(h, q)
       IN  IF Found(hotel, h, forKey(h)) /\ ~Taken(h, job[q].number, forKey(h), id)
           THEN /\ Write(q, hotel, With(room, id, [shard |-> forKey(h), hotel |-> h,
                                                   number |-> job[q].number]))
                /\ UNCHANGED moved
           ELSE Reject(q, "500")

\* Mutant: a room may go to a hotel on the same shard, whatever its bucket.
MayJoinOnShard(r, h) == forKey(h) = forKey(r)

MayJoin(r, h) == bucketOf(h) = bucketOf(r)

(* RoomsService.update and remove up to findOne.                            *)
FindRoom(q, what) ==
    /\ pc[q] = "idle"
    /\ IF what.op = "PATCH room" /\ ~MayJoin(what.id, what.hotel) THEN Reject(q, "400")
       ELSE IF Found(room, what.id, forKey(what.id)) THEN Begin(q, what, "write")
       ELSE Reject(q, "404")

(* room.update; neither the number nor the hotel has been looked for.       *)
UpdateRoom(q) ==
    /\ pc[q] = "write"
    /\ job[q].op = "PATCH room"
    /\ LET id == job[q].id
           h == job[q].hotel
       IN  IF /\ Found(room, id, forKey(id))
              /\ Found(hotel, h, forKey(id))
              /\ ~Taken(h, job[q].number, forKey(id), id)
           THEN /\ Write(q, hotel, With(room, id, [shard |-> forKey(id), hotel |-> h,
                                                   number |-> job[q].number]))
                /\ UNCHANGED moved
           ELSE Reject(q, "500")

(* room.delete; the foreign key of the bookings refuses it.                 *)
RemoveRoom(q) ==
    /\ pc[q] = "write"
    /\ job[q].op = "DELETE room"
    /\ LET id == job[q].id
       IN  IF Found(room, id, forKey(id)) /\ id[2] \notin Booked
           THEN Write(q, hotel, Without(room, id)) /\ UNCHANGED moved
           ELSE Reject(q, "500")

(* The shard of the request does not answer.                                *)
Unavailable(q) ==
    /\ pc[q] \in {"idle", "number", "write"}
    /\ Reject(q, "503")

-----------------------------------------------------------------------------
(* The queries a report sends to every shard, by what they count:           *)
(* cityAnalytics sends one, distribution several at a time.                 *)
Queries(report) == IF report = "cities" THEN {City} ELSE {City, {"rooms"}}

(* cityAnalytics and distribution start their fan-out.                      *)
Gather(q, report) ==
    /\ pc[q] = "idle"
    /\ job' = [job EXCEPT ![q] = [op |-> report]]
    /\ pc' = [pc EXCEPT ![q] = "gather"]
    /\ kept' = [kept EXCEPT ![q] = Entries(hotel, room)]
    /\ seen' = [seen EXCEPT ![q] = Entries(hotel, room)]
    /\ UNCHANGED <<config, hotel, room, reports, touched, moved>>

On(table, shard) == {id \in DOMAIN table : table[id].shard = shard}

\* Mutant: a hotel is counted once for each row of the join with its rooms.
rowsOfJoin(city, shard) ==
    Cardinality({h \in On(hotel, shard) : hotel[h].city = city /\ RoomsOf(h) = {}})
    + Cardinality({r \in On(room, shard) : hotel[room[r].hotel].city = city})

hotelsIn(city, shard) == Cardinality({h \in On(hotel, shard) : hotel[h].city = city})

\* Mutant: the answers of a shard that has failed are still taken.
NotAnswered(q, shard, labels) == <<shard, labels>> \notin DOMAIN parts[q]

Awaited(q, shard, labels) ==
    shard \notin failed[q] /\ <<shard, labels>> \notin DOMAIN parts[q]

(* One query of one shard is answered.                                      *)
AnswerQuery(q, shard, labels) ==
    /\ pc[q] = "gather"
    /\ labels \in Queries(job[q].op)
    /\ Awaited(q, shard, labels)
    /\ parts' = [parts EXCEPT ![q] = With(@, <<shard, labels>>, [label \in labels |->
                    IF label = "rooms" THEN Cardinality(On(room, shard))
                    ELSE hotelsIn(label, shard)])]
    /\ UNCHANGED <<config, hotel, room, pc, job, failed, history>>

Answered(q, shard) == {shard} \X Queries(job[q].op) \subseteq DOMAIN parts[q]

(* A query of a shard fails, and with it the shard.                         *)
FailQuery(q, shard) ==
    /\ pc[q] = "gather"
    /\ ~Answered(q, shard)
    /\ failed' = [failed EXCEPT ![q] = @ \cup {shard}]
    /\ UNCHANGED <<config, hotel, room, pc, job, parts, history>>

Counted(q, shard, labels, label) ==
    IF shard \in failed[q] THEN 0 ELSE parts[q][<<shard, labels>>][label]

(* The sums over the shards that answered.                                  *)
Total(q, labels, label) ==
    LET sum[n \in 0 .. shards] ==
          IF n = 0 THEN 0 ELSE sum[n - 1] + Counted(q, n - 1, labels, label)
    IN  sum[shards]

(* Every shard has settled; allowPartial, so the report is given anyway.    *)
ReplyReport(q) ==
    /\ pc[q] = "gather"
    /\ \A shard \in 0 .. shards - 1 : shard \in failed[q] \/ Answered(q, shard)
    /\ pc' = [pc EXCEPT ![q] = "200"]
    /\ job' = [job EXCEPT ![q] = [op |-> "none"]]
    /\ parts' = [parts EXCEPT ![q] = <<>>]
    /\ failed' = [failed EXCEPT ![q] = {}]
    /\ touched' = [touched EXCEPT ![q] = FALSE]
    /\ kept' = [kept EXCEPT ![q] = {}]
    /\ seen' = [seen EXCEPT ![q] = {}]
    /\ UNCHANGED <<config, hotel, room, moved>>

-----------------------------------------------------------------------------
(* The cluster grows or is laid out anew: the rows of a bucket follow it    *)
(* (docs/LAB7.md:480-487), and all API instances are started again.         *)
Redeploy(count, to) ==
    /\ \A q \in Request : ~Waiting(q)
    /\ shards' = count
    /\ map' = to
    /\ hotel' = Placed(hotel)
    /\ room' = Placed(room)
    /\ UNCHANGED <<strategy, pc, job, reports, history>>

Grow ==
    \E count \in shards + 1 .. MaxShards : Redeploy(count, rebalanceBuckets(map, count))

LayOut ==
    \E layout \in Layouts :
       /\ buildBucketMap(layout.shards, layout.spec) # Refused
       /\ Redeploy(layout.shards, buildBucketMap(layout.shards, layout.spec))

-----------------------------------------------------------------------------
Next ==
    \/ \E q \in Request :
          \/ \E city \in City : CreateHotel(q, city)
          \/ \E id \in DOMAIN hotel \cup {NoId} :
                \/ \E city \in City : FindHotel(q, [op |-> "PATCH hotel", id |-> id, city |-> city])
                \/ FindHotel(q, [op |-> "DELETE hotel", id |-> id])
                \/ \E number \in Number : CreateRoom(q, id, number)
          \/ UpdateHotel(q) \/ RemoveHotel(q) \/ CheckNumber(q) \/ InsertRoom(q)
          \/ \E id \in DOMAIN room \cup {NoId} :
                \/ \E h \in DOMAIN hotel \cup {NoId}, number \in Number :
                      FindRoom(q, [op |-> "PATCH room", id |-> id, hotel |-> h, number |-> number])
                \/ FindRoom(q, [op |-> "DELETE room", id |-> id])
          \/ UpdateRoom(q) \/ RemoveRoom(q) \/ Unavailable(q)
          \/ \E report \in Report : Gather(q, report)
          \/ \E shard \in 0 .. shards - 1 :
                \/ \E labels \in {City, {"rooms"}} : AnswerQuery(q, shard, labels)
                \/ FailQuery(q, shard)
          \/ ReplyReport(q)
    \/ Grow \/ LayOut

Spec == Init /\ [][Next]_vars

-----------------------------------------------------------------------------
(* Type invariant.  A query of a shard is answered at most once, and what a *)
(* shard has answered is dropped with it when another of its queries fails. *)
TypeOK ==
    /\ strategy \in {"hash", "city"}
    /\ shards \in 1 .. MaxShards
    /\ map \in [Bucket -> 0 .. shards - 1]
    /\ DOMAIN hotel \subseteq HotelId
    /\ \A h \in DOMAIN hotel : hotel[h] \in [shard : 0 .. shards - 1, city : City]
    /\ DOMAIN room \subseteq RoomId
    /\ \A r \in DOMAIN room :
          room[r] \in [shard : 0 .. shards - 1, hotel : HotelId, number : Number]
    /\ pc \in [Request -> {"idle", "number", "write", "gather",
                           "200", "400", "404", "409", "500", "503"}]
    /\ job \in [Request -> Job]
    /\ \A q \in Request :
          /\ pc[q] # "gather" => parts[q] = <<>> /\ failed[q] = {}
          /\ failed[q] \subseteq 0 .. shards - 1
          /\ \A s \in failed[q] : ~Answered(q, s)
    /\ touched \in [Request -> BOOLEAN]
    /\ \A q \in Request : kept[q] \subseteq seen[q]
    /\ moved \subseteq DOMAIN hotel

(* A room lies where its hotel lies, and the statistics of the hotel, one   *)
(* JOIN on one shard, count it (sharding.service.ts:72-75): through PATCHes *)
(* that move rooms between hotels, buckets that move between shards, and    *)
(* requests that race with the removal of the hotel.                        *)
FamilyTogether ==
    \A r \in DOMAIN room :
       room[r].hotel \in DOMAIN hotel /\ r \in RoomsOf(room[r].hotel)

(* rooms.service.ts:104: with the strategy city all hotels of a city are on *)
(* one shard, which the search asks alone.  They are, however the city is   *)
(* spelled, but for the hotels a PATCH has moved into the city.             *)
CityIsLocal ==
    strategy = "city" =>
       \A h \in DOMAIN hotel \ moved : \A city \in City :
          normalizeCity(city) = normalizeCity(hotel[h].city)
             => hotel[h].shard = shardForCity(city)

(* The constraints of the tables that a write breaks and that nothing has   *)
(* looked for before it: the rooms of a hotel that is deleted, the bookings *)
(* of a room that is deleted (rooms.service.ts:151-156), and of a PATCHed   *)
(* room the hotel it goes to and the number it takes.                       *)
BreaksUnread(what) ==
    \/ what.op = "DELETE hotel" /\ RoomsOf(what.id) # {}
    \/ what.op = "DELETE room" /\ what.id[2] \in Booked
    \/ /\ what.op = "PATCH room"
       /\ \/ ~Found(hotel, what.hotel, forKey(what.id))
          \/ Taken(what.hotel, what.number, forKey(what.id), what.id)

(* No filter turns an error of the database into a 404 or a 409: the reads  *)
(* before a write must.  A write that answers 500 has either lost a race,   *)
(* another request has written since it read, or has met one of the         *)
(* constraints nothing looks for.  So a row that is gone and, for POST of a *)
(* room, a number that is taken are a 500 after a race only; but DELETE of  *)
(* a booked room or of a hotel with rooms is one whenever it is asked.      *)
ServerErrorHasCause ==
    [][\A q \in Request :
          /\ pc[q] = "write"
          /\ (pc[q])' = "500"
          => touched[q] \/ BreaksUnread(job[q])]_vars

\* The growth of a cluster is looked at while no request has come yet.
Quiet == \A q \in Request : pc[q] = "idle"

Growth == {to \in Sizes : to > shards}

(* Whatever the map before, no shard ends with two buckets more than        *)
(* another, and a bucket has moved only from a shard that had too many to   *)
(* one that had too few: no assignment of these sizes moves fewer           *)
(* ("minimal", resharding.ts:55-58).                                        *)
RebalanceMovesLeast ==
    Quiet => \A to \in Growth : \A before \in [Bucket -> 0 .. shards - 1] :
                MovesLeast(before, to)

(* The binary search finds the first virtual node at or after the key, and  *)
(* past the last one the first of the ring (resharding.ts:41), wherever the *)
(* nodes are and however many share a position.                             *)
RingIsClockwise ==
    Quiet => \A count \in Growth \cup {shards} : \A position \in Positions(count) :
                Clockwise(HashRing(count, position))

(* When the cluster grows, keys go to the new shards only, with buckets and *)
(* with the ring: no old shard takes a key from another (resharding.ts:10-13). *)
OnlyNewShardsGain ==
    Quiet => \A scheme \in Scheme \ {"modulo"}, to \in Growth :
                \A position \in Positions(to) :
                   NewShardsGain(simulateResharding(scheme, shards, to, position))

(* A report counts a hotel once for its city and a room once: nothing that  *)
(* was there all the time on a shard that answered is left out, and nothing *)
(* is counted that never was (sharding.service.ts:95-99).                   *)
ReportCountsOnce ==
    [][\A q \in Request : pc[q] = "gather" /\ (pc[q])' = "200" =>
          \A labels \in Queries(job[q].op) : \A label \in labels :
             LET silent == {e \in kept[q] : forKey(e[2]) \in failed[q]}
             IN  /\ Total(q, labels, label)
                       >= Cardinality({e \in kept[q] \ silent : e[1] = label})
                 /\ Total(q, labels, label)
                       <= Cardinality({e \in seen[q] : e[1] = label})]_vars
=============================================================================
