-------------------------- MODULE CatalogueProofs --------------------------
(***************************************************************************)
(* What holds of Catalogue for every number of buckets, shards, requests,  *)
(* hotels and rooms: rooms stay with their hotels, and the hotels of a     *)
(* city together, whatever rule lays the buckets out anew; that rule stays *)
(* in range and moves least; an error of a constraint means a race, but    *)
(* for constraints nothing looks for; and a report counts once what was    *)
(* there while its shards answered.                                        *)
(***************************************************************************)
EXTENDS Catalogue, ReshardingProofs

-----------------------------------------------------------------------------
(* The key.  An id made for a bucket is an id of that bucket.               *)

LEMMA HashIsInBucket ==
    ASSUME NEW n \in Nat
    PROVE  n % BUCKETS \in Bucket
BY KeyAssumption, SMT DEF Bucket

LEMMA BucketOfMadeId ==
    ASSUME NEW b \in Bucket, NEW name
    PROVE  bucketOf(idInBucket(b, name)) = b
BY KeyAssumption, SMT DEF Bucket, bucketOf, idInBucket, Foreign

(* The ids of the tables, whose digits say a bucket.                        *)
Made(id) == \E b \in Bucket : \E name : id = <<b, name>>

LEMMA BucketOfMade ==
    ASSUME NEW id, Made(id)
    PROVE  bucketOf(id) \in Bucket /\ bucketOf(id) = id[1]
<1>1. PICK b \in Bucket : \E name : id = <<b, name>>
  BY DEF Made
<1>2. PICK name : id = <<b, name>>
  BY <1>1
<1> QED
  BY <1>2, BucketOfMadeId DEF idInBucket

LEMMA ChildIsMade ==
    ASSUME NEW h, Made(h), NEW name
    PROVE  Made(childId(h, name)) /\ bucketOf(childId(h, name)) = bucketOf(h)
BY BucketOfMade, BucketOfMadeId DEF childId, idInBucket, Made

LEMMA NewHotelIsMade ==
    ASSUME NEW uuidHash \in Bucket, NEW name, NEW city \in City
    PROVE  /\ Made(newHotelId(uuidHash, name, city))
           /\ strategy = "city" =>
                bucketOf(newHotelId(uuidHash, name, city))
                  = fnv1a(normalizeCity(city)) % BUCKETS
<1>1. uuidHash \in Nat /\ fnv1a(normalizeCity(city)) \in Nat
  BY KeyAssumption DEF Bucket, City, fnv1a, normalizeCity
<1>2. bucketForNewHotel(strategy, uuidHash, city) \in Bucket
  BY <1>1, HashIsInBucket DEF bucketForNewHotel
<1>3. bucketOf(newHotelId(uuidHash, name, city)) = bucketForNewHotel(strategy, uuidHash, city)
  BY <1>2, BucketOfMadeId DEF newHotelId
<1> QED
  BY <1>2, <1>3 DEF newHotelId, idInBucket, Made, bucketForNewHotel

-----------------------------------------------------------------------------
(* The inductive invariant.  Every row lies where the map sends its id, a   *)
(* room has the bucket of its hotel, and a PATCH of a room that is under    *)
(* way names a hotel of the bucket of the room.  A hotel that no PATCH has  *)
(* moved has the bucket of its city.                                        *)

HotelRows ==
    \A h \in DOMAIN hotel :
       /\ Made(h)
       /\ hotel[h] = [shard |-> forKey(h), city |-> hotel[h].city]
       /\ hotel[h].city \in City

RoomRows ==
    \A r \in DOMAIN room :
       /\ Made(r)
       /\ room[r] = [shard |-> forKey(r), hotel |-> room[r].hotel, number |-> room[r].number]
       /\ room[r].hotel \in DOMAIN hotel
       /\ bucketOf(room[r].hotel) = bucketOf(r)

Requests ==
    /\ pc = [q \in Request |-> pc[q]]
    /\ job = [q \in Request |-> job[q]]
    /\ \A q \in Request : pc[q] = "number" => job[q].op = "POST room"
    /\ \A q \in Request : pc[q] = "write" =>
          /\ job[q].op = "PATCH room" => bucketOf(job[q].hotel) = bucketOf(job[q].id)
          /\ job[q].op = "PATCH hotel" => job[q].city \in City

CityKeys ==
    strategy = "city" =>
       \A h \in DOMAIN hotel \ moved :
          bucketOf(h) = fnv1a(normalizeCity(hotel[h].city)) % BUCKETS

IInv == HotelRows /\ RoomRows /\ Requests /\ CityKeys

LEMMA IInvImpliesFamilyTogether == IInv => FamilyTogether
<1> SUFFICES ASSUME IInv, NEW r \in DOMAIN room
             PROVE  room[r].hotel \in DOMAIN hotel /\ r \in RoomsOf(room[r].hotel)
  BY DEF FamilyTogether
<1>1. room[r].shard = map[bucketOf(r)]
  BY DEF IInv, RoomRows, forKey
<1>2. /\ room[r].hotel \in DOMAIN hotel
      /\ hotel[room[r].hotel].shard = map[bucketOf(r)]
  BY DEF IInv, RoomRows, HotelRows, forKey
<1> QED
  BY <1>1, <1>2 DEF RoomsOf

LEMMA IInvImpliesCityIsLocal == IInv => CityIsLocal
<1> SUFFICES ASSUME IInv, strategy = "city", NEW h \in DOMAIN hotel \ moved, NEW city \in City,
                    normalizeCity(city) = normalizeCity(hotel[h].city)
             PROVE  hotel[h].shard = shardForCity(city)
  BY DEF CityIsLocal
<1>1. hotel[h].shard = map[bucketOf(h)]
  BY DEF IInv, HotelRows, forKey
<1> QED
  BY <1>1 DEF IInv, CityKeys, shardForCity

-----------------------------------------------------------------------------
LEMMA InitImpliesIInv == Init => IInv
<1> SUFFICES ASSUME Init PROVE IInv
  OBVIOUS
<1>1. PICK uuidHash \in [DOMAIN SeededHotels -> Bucket] :
         LET id(name) == newHotelId(uuidHash[name], name, SeededHotels[name])
             roomId(name) == childId(id(SeededRooms[name].hotel), name)
         IN  /\ hotel = [h \in {id(name) : name \in DOMAIN SeededHotels} |->
                            [shard |-> forKey(h), city |-> SeededHotels[h[2]]]]
             /\ room = [r \in {roomId(name) : name \in DOMAIN SeededRooms} |->
                           [shard |-> forKey(r), hotel |-> id(SeededRooms[r[2]].hotel),
                            number |-> SeededRooms[r[2]].number]]
  BY Zenon DEF Init
<1> DEFINE id(name) == newHotelId(uuidHash[name], name, SeededHotels[name])
           roomId(name) == childId(id(SeededRooms[name].hotel), name)
<1>2. \A name \in DOMAIN SeededHotels :
         /\ Made(id(name)) /\ id(name)[2] = name
         /\ strategy = "city" =>
              bucketOf(id(name)) = fnv1a(normalizeCity(SeededHotels[name])) % BUCKETS
  <2> SUFFICES ASSUME NEW name \in DOMAIN SeededHotels
               PROVE  /\ Made(id(name)) /\ id(name)[2] = name
                      /\ strategy = "city" =>
                           bucketOf(id(name)) = fnv1a(normalizeCity(SeededHotels[name])) % BUCKETS
    OBVIOUS
  <2>1. uuidHash[name] \in Bucket /\ SeededHotels[name] \in City
    BY CatalogueAssumption
  <2>2. id(name)[2] = name
    BY DEF newHotelId, idInBucket
  <2> QED
    BY <2>1, <2>2, NewHotelIsMade
<1>3. \A name \in DOMAIN SeededRooms :
         /\ SeededRooms[name].hotel \in DOMAIN SeededHotels
         /\ Made(roomId(name)) /\ roomId(name)[2] = name
         /\ bucketOf(roomId(name)) = bucketOf(id(SeededRooms[name].hotel))
  <2> SUFFICES ASSUME NEW name \in DOMAIN SeededRooms
               PROVE  /\ SeededRooms[name].hotel \in DOMAIN SeededHotels
                      /\ Made(roomId(name)) /\ roomId(name)[2] = name
                      /\ bucketOf(roomId(name)) = bucketOf(id(SeededRooms[name].hotel))
    OBVIOUS
  <2>1. SeededRooms[name].hotel \in DOMAIN SeededHotels
    BY CatalogueAssumption
  <2>2. roomId(name)[2] = name
    BY DEF childId, idInBucket
  <2> HIDE DEF id
  <2> QED
    BY <2>1, <2>2, <1>2, ChildIsMade
<1>4. hotel = [h \in {id(name) : name \in DOMAIN SeededHotels} |->
                 [shard |-> forKey(h), city |-> SeededHotels[h[2]]]]
  BY <1>1
<1>5. room = [r \in {roomId(name) : name \in DOMAIN SeededRooms} |->
                [shard |-> forKey(r), hotel |-> id(SeededRooms[r[2]].hotel),
                 number |-> SeededRooms[r[2]].number]]
  BY <1>1
<1> HIDE DEF id, roomId
<1>6. \A h \in DOMAIN hotel : \E name \in DOMAIN SeededHotels :
         h = id(name) /\ hotel[h] = [shard |-> forKey(h), city |-> SeededHotels[name]]
  BY <1>2, <1>4
<1>7. \A r \in DOMAIN room : \E name \in DOMAIN SeededRooms :
         /\ r = roomId(name)
         /\ room[r] = [shard |-> forKey(r), hotel |-> id(SeededRooms[name].hotel),
                       number |-> SeededRooms[name].number]
  BY <1>3, <1>5
<1>8. HotelRows
  BY <1>2, <1>6, CatalogueAssumption DEF HotelRows
<1>9. RoomRows
  BY <1>3, <1>4, <1>7 DEF RoomRows
<1>10. Requests
  BY DEF Init, Requests
<1>11. CityKeys
  BY <1>2, <1>6 DEF CityKeys
<1> QED
  BY <1>8, <1>9, <1>10, <1>11 DEF IInv

-----------------------------------------------------------------------------
(* Steps that leave the tables as they are.                                 *)

LEMMA TablesUnchanged ==
    ASSUME IInv, UNCHANGED <<strategy, map, hotel, room, moved>>, Requests'
    PROVE  IInv'
BY DEF IInv, HotelRows, RoomRows, CityKeys, forKey

LEMMA AnswerKeepsRequests ==
    ASSUME Requests, NEW q \in Request, NEW code, code \notin {"number", "write"}, Answer(q, code)
    PROVE  Requests'
BY DEF Requests, Answer

LEMMA RejectKeepsIInv ==
    ASSUME IInv, NEW q \in Request, NEW code, code \notin {"number", "write"}, Reject(q, code)
    PROVE  IInv'
<1>1. Requests'
  BY AnswerKeepsRequests DEF IInv, Reject
<1> QED
  BY <1>1, TablesUnchanged DEF Reject, Answer, config

LEMMA BeginKeepsIInv ==
    ASSUME IInv, NEW q \in Request, NEW what, NEW next, Begin(q, what, next),
           next = "number" => what.op = "POST room",
           next = "write" => /\ what.op = "PATCH room" => bucketOf(what.hotel) = bucketOf(what.id)
                             /\ what.op = "PATCH hotel" => what.city \in City
    PROVE  IInv'
<1>1. Requests'
  BY DEF IInv, Requests, Begin
<1> QED
  BY <1>1, TablesUnchanged DEF Begin, config, history

(* Statements that change one table.                                        *)

LEMMA PutHotel ==
    ASSUME IInv, NEW q \in Request, NEW id, NEW city \in City, Made(id),
           Write(q, With(hotel, id, [shard |-> forKey(id), city |-> city]), room),
           \/ strategy = "city" => bucketOf(id) = fnv1a(normalizeCity(city)) % BUCKETS
           \/ id \in moved',
           moved \ {id} = moved' \ {id}
    PROVE  IInv'
<1>1. /\ hotel' = [h \in DOMAIN hotel \cup {id} |->
                     IF h = id THEN [shard |-> forKey(id), city |-> city] ELSE hotel[h]]
      /\ room' = room /\ map' = map /\ strategy' = strategy
  BY DEF Write, With, Answer, config
<1>2. HotelRows'
  BY <1>1 DEF IInv, HotelRows, forKey
<1>3. RoomRows'
  BY <1>1 DEF IInv, RoomRows, forKey
<1>4. Requests'
  BY AnswerKeepsRequests DEF IInv, Write
<1>5. CityKeys'
  BY <1>1 DEF IInv, CityKeys
<1> QED
  BY <1>2, <1>3, <1>4, <1>5 DEF IInv

LEMMA PutRoom ==
    ASSUME IInv, NEW q \in Request, NEW id, NEW h \in DOMAIN hotel, NEW number, Made(id),
           bucketOf(h) = bucketOf(id),
           Write(q, hotel, With(room, id, [shard |-> forKey(id), hotel |-> h, number |-> number])),
           moved' = moved
    PROVE  IInv'
<1>1. /\ room' = [r \in DOMAIN room \cup {id} |->
                    IF r = id THEN [shard |-> forKey(id), hotel |-> h, number |-> number]
                    ELSE room[r]]
      /\ hotel' = hotel /\ map' = map /\ strategy' = strategy
  BY DEF Write, With, Answer, config
<1>2. HotelRows'
  BY <1>1 DEF IInv, HotelRows, forKey
<1>3. RoomRows'
  BY <1>1 DEF IInv, RoomRows, forKey
<1>4. Requests'
  BY AnswerKeepsRequests DEF IInv, Write
<1>5. CityKeys'
  BY <1>1 DEF IInv, CityKeys
<1> QED
  BY <1>2, <1>3, <1>4, <1>5 DEF IInv

LEMMA FewerRows ==
    ASSUME IInv, NEW q \in Request, NEW hotels, NEW rooms, Write(q, hotels, rooms),
           DOMAIN hotels \subseteq DOMAIN hotel, \A h \in DOMAIN hotels : hotels[h] = hotel[h],
           DOMAIN rooms \subseteq DOMAIN room, \A r \in DOMAIN rooms : rooms[r] = room[r],
           \A r \in DOMAIN rooms : room[r].hotel \in DOMAIN hotels,
           DOMAIN hotels \ moved' \subseteq DOMAIN hotel \ moved
    PROVE  IInv'
<1>1. hotel' = hotels /\ room' = rooms /\ map' = map /\ strategy' = strategy
  BY DEF Write, Answer, config
<1>2. HotelRows'
  BY <1>1 DEF IInv, HotelRows, forKey
<1>3. RoomRows'
  BY <1>1 DEF IInv, RoomRows, forKey
<1>4. Requests'
  BY AnswerKeepsRequests DEF IInv, Write
<1>5. CityKeys'
  BY <1>1 DEF IInv, CityKeys
<1> QED
  BY <1>2, <1>3, <1>4, <1>5 DEF IInv

-----------------------------------------------------------------------------
LEMMA CreateHotelKeepsIInv ==
    ASSUME IInv, NEW q \in Request, NEW city \in City, CreateHotel(q, city)
    PROVE  IInv'
<1>1. PICK uuidHash \in Bucket :
         Write(q, With(hotel, newHotelId(uuidHash, q, city),
                       [shard |-> forKey(newHotelId(uuidHash, q, city)), city |-> city]), room)
  BY DEF CreateHotel
<1> QED
  BY <1>1, NewHotelIsMade, PutHotel DEF CreateHotel

LEMMA FindHotelKeepsIInv ==
    ASSUME IInv, NEW q \in Request, NEW what, FindHotel(q, what),
           what.op # "PATCH room", what.op = "PATCH hotel" => what.city \in City
    PROVE  IInv'
BY BeginKeepsIInv, RejectKeepsIInv DEF FindHotel

LEMMA UpdateHotelKeepsIInv ==
    ASSUME IInv, NEW q \in Request, UpdateHotel(q)
    PROVE  IInv'
<1> DEFINE id == job[q].id
<1>1. CASE Found(hotel, id, forKey(id))
  <2>1. /\ id \in DOMAIN hotel /\ Made(id) /\ hotel[id].city \in City
        /\ hotel[id] = [shard |-> forKey(id), city |-> hotel[id].city]
    BY <1>1 DEF Found, IInv, HotelRows
  <2>2. job[q].city \in City
    BY DEF UpdateHotel, IInv, Requests
  <2>3. [hotel[id] EXCEPT !.city = job[q].city] = [shard |-> forKey(id), city |-> job[q].city]
    BY <2>1
  <2>4. /\ Write(q, With(hotel, id, [shard |-> forKey(id), city |-> job[q].city]), room)
        /\ moved' = IF hotel[id].city = job[q].city THEN moved ELSE moved \cup {id}
    BY <1>1, <2>3 DEF UpdateHotel
  <2>5. CASE hotel[id].city = job[q].city /\ id \notin moved
    BY <2>1, <2>2, <2>4, <2>5, PutHotel DEF IInv, CityKeys
  <2>6. CASE ~(hotel[id].city = job[q].city /\ id \notin moved)
    BY <2>1, <2>2, <2>4, <2>6, PutHotel
  <2> QED
    BY <2>5, <2>6
<1>2. CASE ~Found(hotel, id, forKey(id))
  BY <1>2, RejectKeepsIInv DEF UpdateHotel
<1> QED
  BY <1>1, <1>2

LEMMA RemoveHotelKeepsIInv ==
    ASSUME IInv, NEW q \in Request, RemoveHotel(q)
    PROVE  IInv'
<1> DEFINE id == job[q].id
<1>1. CASE Found(hotel, id, forKey(id)) /\ RoomsOf(id) = {}
  <2>1. \A x \in DOMAIN room : room[x].hotel # id
    BY <1>1, IInvImpliesFamilyTogether DEF FamilyTogether
  <2>2. DOMAIN Without(hotel, id) = DOMAIN hotel \ {id}
    BY DEF Without
  <2>3. \A h \in DOMAIN Without(hotel, id) : Without(hotel, id)[h] = hotel[h]
    BY DEF Without
  <2>4. \A x \in DOMAIN room : room[x].hotel \in DOMAIN hotel \ {id}
    BY <2>1 DEF IInv, RoomRows
  <2>5. Write(q, Without(hotel, id), room) /\ moved' = moved \ {id}
    BY <1>1 DEF RemoveHotel
  <2> QED
    BY <2>2, <2>3, <2>4, <2>5, FewerRows
<1>2. CASE ~(Found(hotel, id, forKey(id)) /\ RoomsOf(id) = {})
  BY <1>2, RejectKeepsIInv DEF RemoveHotel
<1> QED
  BY <1>1, <1>2

LEMMA CreateRoomKeepsIInv ==
    ASSUME IInv, NEW q \in Request, NEW h, NEW number, CreateRoom(q, h, number)
    PROVE  IInv'
BY BeginKeepsIInv, RejectKeepsIInv DEF CreateRoom

LEMMA CheckNumberKeepsIInv ==
    ASSUME IInv, NEW q \in Request, CheckNumber(q)
    PROVE  IInv'
<1>1. CASE pc' = [pc EXCEPT ![q] = "write"] /\ UNCHANGED <<config, hotel, room, job, history>>
  <2>1. Requests'
    BY <1>1 DEF IInv, Requests, CheckNumber
  <2> QED
    BY <1>1, <2>1, TablesUnchanged DEF config, history
<1>2. CASE Reject(q, "409")
  BY <1>2, RejectKeepsIInv
<1> QED
  BY <1>1, <1>2 DEF CheckNumber

LEMMA InsertRoomKeepsIInv ==
    ASSUME IInv, NEW q \in Request, InsertRoom(q)
    PROVE  IInv'
<1> DEFINE h == job[q].hotel
           id == childId(h, q)
<1>1. CASE Found(hotel, h, forKey(h)) /\ ~Taken(h, job[q].number, forKey(h), id)
  <2>1. h \in DOMAIN hotel /\ Made(h)
    BY <1>1 DEF Found, IInv, HotelRows
  <2>2. Made(id) /\ bucketOf(h) = bucketOf(id) /\ forKey(h) = forKey(id)
    BY <2>1, ChildIsMade DEF forKey
  <2>3. /\ Write(q, hotel, With(room, id, [shard |-> forKey(id), hotel |-> h,
                                           number |-> job[q].number]))
        /\ moved' = moved
    BY <1>1, <2>2 DEF InsertRoom
  <2> QED
    BY <2>1, <2>2, <2>3, PutRoom
<1>2. CASE ~(Found(hotel, h, forKey(h)) /\ ~Taken(h, job[q].number, forKey(h), id))
  BY <1>2, RejectKeepsIInv DEF InsertRoom
<1> QED
  BY <1>1, <1>2

LEMMA FindRoomKeepsIInv ==
    ASSUME IInv, NEW q \in Request, NEW what, FindRoom(q, what), what.op # "PATCH hotel"
    PROVE  IInv'
BY BeginKeepsIInv, RejectKeepsIInv DEF FindRoom, MayJoin

LEMMA UpdateRoomKeepsIInv ==
    ASSUME IInv, NEW q \in Request, UpdateRoom(q)
    PROVE  IInv'
<1> DEFINE id == job[q].id
           h == job[q].hotel
           allowed == /\ Found(room, id, forKey(id))
                      /\ Found(hotel, h, forKey(id))
                      /\ ~Taken(h, job[q].number, forKey(id), id)
<1>1. CASE allowed
  <2>1. /\ id \in DOMAIN room /\ h \in DOMAIN hotel
        /\ Made(id)
    BY <1>1 DEF Found, IInv, RoomRows
  <2>2. bucketOf(h) = bucketOf(id)
    BY DEF UpdateRoom, IInv, Requests
  <2>3. /\ Write(q, hotel, With(room, id, [shard |-> forKey(id), hotel |-> h,
                                           number |-> job[q].number]))
        /\ moved' = moved
    BY <1>1 DEF UpdateRoom
  <2> QED
    BY <2>1, <2>2, <2>3, PutRoom
<1>2. CASE ~allowed
  BY <1>2, RejectKeepsIInv DEF UpdateRoom
<1> QED
  BY <1>1, <1>2

LEMMA RemoveRoomKeepsIInv ==
    ASSUME IInv, NEW q \in Request, RemoveRoom(q)
    PROVE  IInv'
<1> DEFINE id == job[q].id
<1>1. CASE Found(room, id, forKey(id)) /\ id[2] \notin Booked
  <2>1. DOMAIN Without(room, id) = DOMAIN room \ {id}
    BY DEF Without
  <2>2. \A r \in DOMAIN Without(room, id) : Without(room, id)[r] = room[r]
    BY DEF Without
  <2>3. \A r \in DOMAIN room : room[r].hotel \in DOMAIN hotel
    BY DEF IInv, RoomRows
  <2>4. Write(q, hotel, Without(room, id)) /\ moved' = moved
    BY <1>1 DEF RemoveRoom
  <2> QED
    BY <2>1, <2>2, <2>3, <2>4, FewerRows
<1>2. CASE ~(Found(room, id, forKey(id)) /\ id[2] \notin Booked)
  BY <1>2, RejectKeepsIInv DEF RemoveRoom
<1> QED
  BY <1>1, <1>2

(* The answers to a report.                                                 *)
LEMMA ReportsKeepIInv ==
    ASSUME IInv, NEW q \in Request,
           \/ \E report : Gather(q, report)
           \/ \E shard, labels : AnswerQuery(q, shard, labels)
           \/ \E shard : FailQuery(q, shard)
           \/ ReplyReport(q)
    PROVE  IInv'
<1>1. UNCHANGED <<strategy, map, hotel, room, moved>>
  BY DEF Gather, AnswerQuery, FailQuery, ReplyReport, config, history
<1>2. Requests'
  <2>1. CASE \E report : Gather(q, report)
    BY <2>1 DEF IInv, Requests, Gather
  <2>2. CASE \E shard, labels : AnswerQuery(q, shard, labels)
    BY <2>2 DEF IInv, Requests, AnswerQuery
  <2>3. CASE \E shard : FailQuery(q, shard)
    BY <2>3 DEF IInv, Requests, FailQuery
  <2>4. CASE ReplyReport(q)
    BY <2>4 DEF IInv, Requests, ReplyReport
  <2> QED
    BY <2>1, <2>2, <2>3, <2>4
<1> QED
  BY <1>1, <1>2, TablesUnchanged

(* Rows that follow their buckets, wherever these go.                       *)
LEMMA RedeployKeepsIInv ==
    ASSUME IInv, NEW count, NEW to, Redeploy(count, to)
    PROVE  IInv'
<1>1. /\ hotel' = [h \in DOMAIN hotel |-> [hotel[h] EXCEPT !.shard = map'[bucketOf(h)]]]
      /\ room' = [r \in DOMAIN room |-> [room[r] EXCEPT !.shard = map'[bucketOf(r)]]]
      /\ UNCHANGED <<strategy, pc, job, moved>>
  BY DEF Redeploy, Placed, history
<1>2. HotelRows'
  BY <1>1 DEF IInv, HotelRows, forKey
<1>3. RoomRows'
  BY <1>1 DEF IInv, RoomRows, forKey
<1>4. Requests'
  BY <1>1 DEF IInv, Requests
<1>5. CityKeys'
  BY <1>1 DEF IInv, CityKeys, HotelRows
<1> QED
  BY <1>2, <1>3, <1>4, <1>5 DEF IInv

-----------------------------------------------------------------------------
(* Rows lie where the map sends their ids, in every reachable state.        *)
THEOREM IInvInvariant == Spec => []IInv
<1>1. ASSUME IInv, [Next]_vars
      PROVE  IInv'
  <2>1. CASE UNCHANGED vars
    <3>1. Requests'
      BY <1>1, <2>1 DEF IInv, Requests, vars
    <3> QED
      BY <1>1, <2>1, <3>1, TablesUnchanged DEF vars, config, history
  <2>2. ASSUME NEW q \in Request, NEW city \in City, CreateHotel(q, city)
        PROVE  IInv'
    BY <1>1, <2>2, CreateHotelKeepsIInv
  <2>3. ASSUME NEW q \in Request, NEW id \in DOMAIN hotel \cup {NoId}, NEW city \in City,
               FindHotel(q, [op |-> "PATCH hotel", id |-> id, city |-> city])
        PROVE  IInv'
    BY <1>1, <2>3, FindHotelKeepsIInv
  <2>4. ASSUME NEW q \in Request, NEW id \in DOMAIN hotel \cup {NoId},
               FindHotel(q, [op |-> "DELETE hotel", id |-> id])
        PROVE  IInv'
    BY <1>1, <2>4, FindHotelKeepsIInv
  <2>5. ASSUME NEW q \in Request,
               \/ UpdateHotel(q) \/ RemoveHotel(q) \/ CheckNumber(q) \/ InsertRoom(q)
               \/ UpdateRoom(q) \/ RemoveRoom(q)
               \/ \E id \in DOMAIN hotel \cup {NoId} : \E number \in Number :
                     CreateRoom(q, id, number)
        PROVE  IInv'
    BY <1>1, <2>5, UpdateHotelKeepsIInv, RemoveHotelKeepsIInv, CheckNumberKeepsIInv,
       InsertRoomKeepsIInv, UpdateRoomKeepsIInv, RemoveRoomKeepsIInv, CreateRoomKeepsIInv
  <2>6. ASSUME NEW q \in Request, NEW id \in DOMAIN room \cup {NoId},
               NEW h \in DOMAIN hotel \cup {NoId}, NEW number \in Number,
               FindRoom(q, [op |-> "PATCH room", id |-> id, hotel |-> h, number |-> number])
        PROVE  IInv'
    BY <1>1, <2>6, FindRoomKeepsIInv
  <2>7. ASSUME NEW q \in Request, NEW id \in DOMAIN room \cup {NoId},
               FindRoom(q, [op |-> "DELETE room", id |-> id])
        PROVE  IInv'
    BY <1>1, <2>7, FindRoomKeepsIInv
  <2>8. ASSUME NEW q \in Request, Unavailable(q)
        PROVE  IInv'
    BY <1>1, <2>8, RejectKeepsIInv DEF Unavailable
  <2>9. ASSUME NEW q \in Request,
               \/ \E report \in Report : Gather(q, report)
               \/ \E shard \in 0 .. shards - 1 :
                     \/ \E labels \in {City, {"rooms"}} : AnswerQuery(q, shard, labels)
                     \/ FailQuery(q, shard)
               \/ ReplyReport(q)
        PROVE  IInv'
    BY <1>1, <2>9, ReportsKeepIInv
  <2>10. CASE Grow \/ LayOut
    BY <1>1, <2>10, RedeployKeepsIInv DEF Grow, LayOut
  <2> QED
    BY <1>1, <2>1, <2>2, <2>3, <2>4, <2>5, <2>6, <2>7, <2>8, <2>9, <2>10 DEF Next
<1> QED
  BY <1>1, InitImpliesIInv, PTL DEF Spec

(* A room lies where its hotel lies, whatever PATCHes move rooms, whatever  *)
(* assignment of the buckets is deployed, and whichever requests race.      *)
THEOREM RoomsStayWithHotels == Spec => []FamilyTogether
BY IInvInvariant, IInvImpliesFamilyTogether, PTL

(* With the strategy city the search may ask the shard of the city alone,   *)
(* but for the hotels a PATCH has moved, for every hash and every map.      *)
THEOREM HotelsOfCityStayTogether == Spec => []CityIsLocal
BY IInvInvariant, IInvImpliesCityIsLocal, PTL

-----------------------------------------------------------------------------
(* While no other request has written, what a request has read holds still. *)

StillSo(q) ==
    /\ pc[q] = "number" => Found(hotel, job[q].hotel, forKey(job[q].hotel))
    /\ pc[q] = "write" =>
          /\ job[q].op \in {"PATCH hotel", "DELETE hotel"} =>
                Found(hotel, job[q].id, forKey(job[q].id))
          /\ job[q].op \in {"PATCH room", "DELETE room"} =>
                Found(room, job[q].id, forKey(job[q].id))
          /\ job[q].op = "POST room" =>
                /\ Found(hotel, job[q].hotel, forKey(job[q].hotel))
                /\ ~Taken(job[q].hotel, job[q].number, forKey(job[q].hotel),
                          childId(job[q].hotel, q))

Unraced ==
    /\ touched = [q \in Request |-> touched[q]]
    /\ \A q \in Request : ~touched[q] => StillSo(q)

LEMMA StillSoUnchanged ==
    ASSUME NEW q \in Request, StillSo(q), UNCHANGED <<map, hotel, room>>,
           (pc[q])' = pc[q], (job[q])' = job[q]
    PROVE  StillSo(q)'
BY DEF StillSo, Found, Taken, forKey, childId

LEMMA StillSoElsewhere ==
    ASSUME NEW q \in Request, (pc[q])' \notin {"number", "write"}
    PROVE  StillSo(q)'
BY DEF StillSo

LEMMA BeginKeepsUnraced ==
    ASSUME IInv, Unraced, NEW q \in Request, NEW what, NEW next, Begin(q, what, next),
           next = "number" => Found(hotel, what.hotel, forKey(what.hotel)),
           next = "write" =>
              /\ what.op # "POST room"
              /\ what.op \in {"PATCH hotel", "DELETE hotel"} =>
                    Found(hotel, what.id, forKey(what.id))
              /\ what.op \in {"PATCH room", "DELETE room"} =>
                    Found(room, what.id, forKey(what.id))
    PROVE  Unraced'
<1>1. UNCHANGED <<map, hotel, room, touched>>
  BY DEF Begin, config, history
<1>2. /\ pc' = [pc EXCEPT ![q] = next]
      /\ job' = [job EXCEPT ![q] = what]
  BY DEF Begin
<1>3. StillSo(q)'
  BY <1>1, <1>2 DEF IInv, Requests, StillSo, Found, forKey
<1>4. ASSUME NEW p \in Request, p # q, ~(touched[p])' PROVE StillSo(p)'
  BY <1>1, <1>2, <1>4, StillSoUnchanged DEF IInv, Requests, Unraced
<1> QED
  BY <1>1, <1>3, <1>4 DEF Unraced

LEMMA RejectKeepsUnraced ==
    ASSUME IInv, Unraced, NEW q \in Request, NEW code, code \notin {"number", "write"},
           Reject(q, code)
    PROVE  Unraced'
<1>1. /\ UNCHANGED <<map, hotel, room>>
      /\ touched' = [touched EXCEPT ![q] = FALSE]
      /\ pc' = [pc EXCEPT ![q] = code]
      /\ job' = [job EXCEPT ![q] = [op |-> "none"]]
  BY DEF Reject, Answer, config
<1>2. StillSo(q)'
  BY <1>1, StillSoElsewhere DEF IInv, Requests
<1>3. ASSUME NEW p \in Request, p # q, ~(touched[p])' PROVE StillSo(p)'
  BY <1>1, <1>3, StillSoUnchanged DEF IInv, Requests, Unraced
<1> QED
  BY <1>1, <1>2, <1>3 DEF Unraced

LEMMA WriteKeepsUnraced ==
    ASSUME IInv, Unraced, NEW q \in Request, NEW hotels, NEW rooms, Write(q, hotels, rooms)
    PROVE  Unraced'
<1>1. /\ touched' = [p \in Request |-> p # q /\ (touched[p] \/ Waiting(p))]
      /\ pc' = [pc EXCEPT ![q] = "200"]
  BY DEF Write, Answer
<1>2. \A p \in Request : ~(touched[p])' => (pc[p])' \notin {"number", "write"}
  BY <1>1 DEF IInv, Requests, Waiting
<1> QED
  BY <1>1, <1>2, StillSoElsewhere DEF Unraced

LEMMA CheckNumberKeepsUnraced ==
    ASSUME IInv, Unraced, NEW q \in Request, CheckNumber(q)
    PROVE  Unraced'
<1> DEFINE taken == Taken(job[q].hotel, job[q].number, forKey(job[q].hotel), NoId)
<1>1. CASE ~taken /\ pc' = [pc EXCEPT ![q] = "write"]
           /\ UNCHANGED <<config, hotel, room, job, reports, history>>
  <2>1. UNCHANGED <<map, hotel, room, touched, job>> /\ job[q].op = "POST room"
    BY <1>1 DEF config, history, CheckNumber, IInv, Requests
  <2>2. NoId \notin DOMAIN room
    BY KeyAssumption, SMT DEF IInv, RoomRows, Made, NoId, Foreign, Bucket
  <2>3. ~touched[q] =>
           /\ Found(hotel, job[q].hotel, forKey(job[q].hotel))
           /\ ~Taken(job[q].hotel, job[q].number, forKey(job[q].hotel), childId(job[q].hotel, q))
    BY <1>1, <2>2 DEF CheckNumber, Unraced, StillSo, Taken
  <2>4. ~touched[q] => StillSo(q)'
    BY <1>1, <2>1, <2>3 DEF IInv, Requests, StillSo, Found, Taken, forKey, childId
  <2>5. ASSUME NEW p \in Request, p # q, ~touched[p] PROVE StillSo(p)'
    BY <1>1, <2>1, <2>5, StillSoUnchanged DEF IInv, Requests, Unraced
  <2> QED
    BY <2>1, <2>4, <2>5 DEF Unraced
<1>2. CASE Reject(q, "409")
  BY <1>2, RejectKeepsUnraced
<1> QED
  BY <1>1, <1>2 DEF CheckNumber

LEMMA ReportsKeepUnraced ==
    ASSUME IInv, Unraced, NEW q \in Request,
           \/ \E report : Gather(q, report)
           \/ \E shard, labels : AnswerQuery(q, shard, labels)
           \/ \E shard : FailQuery(q, shard)
           \/ ReplyReport(q)
    PROVE  Unraced'
<1>1. UNCHANGED <<map, hotel, room>>
  BY DEF Gather, AnswerQuery, FailQuery, ReplyReport, config
<1>2. /\ touched' \in {touched, [touched EXCEPT ![q] = FALSE]}
      /\ pc' \in {pc, [pc EXCEPT ![q] = "gather"], [pc EXCEPT ![q] = "200"]}
      /\ pc[q] \notin {"number", "write"}
      /\ \E what : job' \in {job, [job EXCEPT ![q] = what]}
  BY DEF Gather, AnswerQuery, FailQuery, ReplyReport, history
<1>3. /\ touched' = [p \in Request |-> (touched[p])']
      /\ \A p \in Request : ~(touched[p])' /\ (pc[p])' \in {"number", "write"} =>
            ~touched[p] /\ pc[p] = (pc[p])' /\ job[p] = (job[p])'
  BY <1>2 DEF IInv, Requests, Unraced
<1>4. ASSUME NEW p \in Request, ~(touched[p])' PROVE StillSo(p)'
  BY <1>1, <1>3, <1>4, StillSoUnchanged, StillSoElsewhere DEF Unraced
<1> QED
  BY <1>3, <1>4 DEF Unraced

LEMMA RedeployKeepsUnraced ==
    ASSUME Unraced, NEW count, NEW to, Redeploy(count, to)
    PROVE  Unraced'
<1>1. UNCHANGED <<pc, touched>> /\ \A q \in Request : pc[q] \notin {"number", "write"}
  BY DEF Redeploy, Waiting, history
<1> QED
  BY <1>1, StillSoElsewhere DEF Unraced

(* What a request has read is still so until another request writes.        *)
THEOREM UnracedInvariant == Spec => []Unraced
<1>1. Init => Unraced
  BY DEF Init, Unraced, StillSo
<1>2. ASSUME IInv, Unraced, [Next]_vars
      PROVE  Unraced'
  <2>1. CASE UNCHANGED vars
    BY <1>2, <2>1, StillSoUnchanged DEF Unraced, vars, config, history
  <2>2. ASSUME NEW q \in Request,
               \/ \E city \in City : CreateHotel(q, city)
               \/ UpdateHotel(q) \/ RemoveHotel(q) \/ InsertRoom(q)
               \/ UpdateRoom(q) \/ RemoveRoom(q) \/ Unavailable(q)
        PROVE  Unraced'
    BY <1>2, <2>2, RejectKeepsUnraced, WriteKeepsUnraced
       DEF CreateHotel, UpdateHotel, RemoveHotel, InsertRoom, UpdateRoom, RemoveRoom, Unavailable
  <2>3. ASSUME NEW q \in Request, NEW what, FindHotel(q, what),
               what.op \in {"PATCH hotel", "DELETE hotel"}
        PROVE  Unraced'
    BY <1>2, <2>3, BeginKeepsUnraced, RejectKeepsUnraced DEF FindHotel
  <2>4. ASSUME NEW q \in Request, NEW h, NEW number, CreateRoom(q, h, number)
        PROVE  Unraced'
    BY <1>2, <2>4, BeginKeepsUnraced, RejectKeepsUnraced DEF CreateRoom
  <2>5. ASSUME NEW q \in Request, NEW what, FindRoom(q, what),
               what.op \in {"PATCH room", "DELETE room"}
        PROVE  Unraced'
    BY <1>2, <2>5, BeginKeepsUnraced, RejectKeepsUnraced DEF FindRoom
  <2>6. ASSUME NEW q \in Request, CheckNumber(q)
        PROVE  Unraced'
    BY <1>2, <2>6, CheckNumberKeepsUnraced
  <2>7. ASSUME NEW q \in Request,
               \/ \E report \in Report : Gather(q, report)
               \/ \E shard \in 0 .. shards - 1 :
                     \/ \E labels \in {City, {"rooms"}} : AnswerQuery(q, shard, labels)
                     \/ FailQuery(q, shard)
               \/ ReplyReport(q)
        PROVE  Unraced'
    BY <1>2, <2>7, ReportsKeepUnraced
  <2>8. CASE Grow \/ LayOut
    BY <1>2, <2>8, RedeployKeepsUnraced DEF Grow, LayOut
  <2> QED
    BY <1>2, <2>1, <2>2, <2>3, <2>4, <2>5, <2>6, <2>7, <2>8 DEF Next
<1> QED
  BY <1>1, <1>2, IInvInvariant, PTL DEF Spec

(* A write answers 500 only when another request has written since it read, *)
(* or when it breaks a constraint nothing looks for: a hotel that is        *)
(* deleted has rooms, a room that is deleted has bookings, or a room is     *)
(* PATCHed to a hotel that is not there or to a number that is taken.       *)
THEOREM ServerErrorTheorem == Spec => ServerErrorHasCause
<1>1. ASSUME IInv, Unraced, [Next]_vars, NEW q \in Request, pc[q] = "write", (pc[q])' = "500"
      PROVE  touched[q] \/ BreaksUnread(job[q])
  <2>1. \/ UpdateHotel(q) \/ RemoveHotel(q) \/ InsertRoom(q)
        \/ UpdateRoom(q) \/ RemoveRoom(q)
    <3>1. ASSUME NEW p \in Request, NEW code, Answer(p, code) PROVE p = q /\ code = "500"
      BY <1>1, <3>1 DEF Answer, IInv, Requests
    <3>2. ASSUME NEW p \in Request, NEW what, NEW next PROVE ~Begin(p, what, next)
      BY <1>1, <3>2 DEF Begin, IInv, Requests
    <3>3. ~UNCHANGED pc
      BY <1>1
    <3>4. ASSUME NEW p \in Request
          PROVE  /\ \A city \in City : ~CreateHotel(p, city)
                 /\ \A what : ~FindHotel(p, what) /\ ~FindRoom(p, what)
                 /\ \A h, number : ~CreateRoom(p, h, number)
                 /\ ~CheckNumber(p) /\ ~Unavailable(p)
      <4>1. \A code : code # "500" => ~Reject(p, code)
        BY <3>1 DEF Reject
      <4>2. \A hotels, rooms : ~Write(p, hotels, rooms)
        BY <3>1 DEF Write
      <4>3. pc' # [pc EXCEPT ![p] = "write"]
        BY <1>1 DEF IInv, Requests
      <4> QED
        BY <3>2, <4>1, <4>2, <4>3
           DEF CreateHotel, FindHotel, FindRoom, CreateRoom, CheckNumber, Unavailable
    <3>5. \A p \in Request :
             /\ \A report : ~Gather(p, report)
             /\ \A shard, labels : ~AnswerQuery(p, shard, labels)
             /\ \A shard : ~FailQuery(p, shard)
             /\ ~ReplyReport(p)
      BY <1>1 DEF Gather, AnswerQuery, FailQuery, ReplyReport, IInv, Requests
    <3>6. ~Grow /\ ~LayOut
      BY <3>3 DEF Grow, LayOut, Redeploy
    <3>7. \A p \in Request : p # q =>
             ~UpdateHotel(p) /\ ~RemoveHotel(p) /\ ~InsertRoom(p) /\ ~UpdateRoom(p) /\ ~RemoveRoom(p)
      BY <3>1 DEF UpdateHotel, RemoveHotel, InsertRoom, UpdateRoom, RemoveRoom, Reject, Write
    <3> QED
      BY <1>1, <3>3, <3>4, <3>5, <3>6, <3>7 DEF Next, vars
  <2>2. ASSUME NEW hotels, NEW rooms PROVE ~Write(q, hotels, rooms)
    BY <1>1 DEF Write, Answer, IInv, Requests
  <2>3. CASE UpdateHotel(q)
    BY <1>1, <2>2, <2>3 DEF UpdateHotel, Unraced, StillSo
  <2>4. CASE InsertRoom(q)
    BY <1>1, <2>2, <2>4 DEF InsertRoom, Unraced, StillSo
  <2>5. CASE RemoveRoom(q)
    BY <1>1, <2>2, <2>5 DEF RemoveRoom, Unraced, StillSo, BreaksUnread
  <2>6. CASE RemoveHotel(q)
    BY <1>1, <2>2, <2>6 DEF RemoveHotel, Unraced, StillSo, BreaksUnread
  <2>7. CASE UpdateRoom(q)
    BY <1>1, <2>2, <2>7 DEF UpdateRoom, Unraced, StillSo, BreaksUnread
  <2> QED
    BY <2>1, <2>3, <2>4, <2>5, <2>6, <2>7
<1>2. ASSUME IInv, Unraced, [Next]_vars
      PROVE  \A q \in Request :
                /\ pc[q] = "write"
                /\ (pc[q])' = "500"
                => touched[q] \/ BreaksUnread(job[q])
  BY <1>1, <1>2
<1> QED
  BY <1>2, IInvInvariant, UnracedInvariant, PTL DEF Spec, ServerErrorHasCause

-----------------------------------------------------------------------------
(* Types.                                                                   *)

LEMMA GreatestNatural ==
    ASSUME NEW n \in Nat, NEW T \in SUBSET (0 .. n), T # {}
    PROVE  \E x \in T : \A y \in T : y <= x
<1> DEFINE U == {y \in 0 .. n : n - y \in T}
<1>1. U \in SUBSET Nat /\ U # {}
  <2>1. PICK x \in T : TRUE
    OBVIOUS
  <2>2. n - x \in 0 .. n /\ n - (n - x) = x
    OBVIOUS
  <2>3. n - x \in U
    BY <2>2
  <2>4. \A y \in U : y \in Nat
    OBVIOUS
  <2> HIDE DEF U
  <2> QED
    BY <2>3, <2>4
<1>2. PICK u \in U : \A v \in U : u <= v
  <2> HIDE DEF U
  <2> QED
    BY <1>1, LeastNatural
<1>3. n - u \in T /\ u \in 0 .. n
  OBVIOUS
<1>4. ASSUME NEW y \in T PROVE y <= n - u
  <2>1. y \in 0 .. n /\ n - y \in 0 .. n /\ n - (n - y) = y
    OBVIOUS
  <2>2. n - y \in U
    BY <2>1
  <2>3. u <= n - y
    BY <1>2, <2>2
  <2> QED
    BY <1>3, <2>1, <2>3
<1> QED
  BY <1>3, <1>4

LEMMA BucketMapTyped ==
    ASSUME NEW count \in Nat \ {0}, NEW spec \in Seq([from : Nat, to : Nat, shard : Nat]),
           buildBucketMap(count, spec) # Refused
    PROVE  buildBucketMap(count, spec) \in [Bucket -> 0 .. count - 1]
<1> DEFINE naming(bucket) ==
             {i \in DOMAIN spec : spec[i].from <= bucket /\ bucket <= spec[i].to}
           last(bucket) == CHOOSE i \in naming(bucket) : \A j \in naming(bucket) : j <= i
<1>1. /\ \A i \in DOMAIN spec : Accepted(spec[i], count)
      /\ buildBucketMap(count, spec) =
            [bucket \in Bucket |-> IF naming(bucket) = {} THEN bucket % count
                                   ELSE spec[last(bucket)].shard]
  BY DEF buildBucketMap
<1>2. Len(spec) \in Nat /\ DOMAIN spec = 1 .. Len(spec)
      /\ \A i \in DOMAIN spec : spec[i] \in [from : Nat, to : Nat, shard : Nat]
  <2> DEFINE Part == [from : Nat, to : Nat, shard : Nat]
  <2>1. spec \in Seq(Part)
    OBVIOUS
  <2> HIDE DEF Part
  <2>2. /\ Len(spec) \in Nat /\ DOMAIN spec = 1 .. Len(spec)
        /\ \A i \in DOMAIN spec : spec[i] \in Part
    BY <2>1, LenProperties
  <2> QED
    BY <2>2 DEF Part
<1>3. ASSUME NEW bucket \in Bucket, naming(bucket) # {}
      PROVE  last(bucket) \in DOMAIN spec
  <2>1. naming(bucket) \in SUBSET (0 .. Len(spec))
    BY <1>2
  <2>2. naming(bucket) \subseteq DOMAIN spec
    OBVIOUS
  <2> HIDE DEF naming
  <2>3. \E i \in naming(bucket) : \A j \in naming(bucket) : j <= i
    BY <1>2, <1>3, <2>1, GreatestNatural
  <2> QED
    BY <2>2, <2>3
<1>4. ASSUME NEW bucket \in Bucket, naming(bucket) # {}
      PROVE  spec[last(bucket)].shard \in 0 .. count - 1
  <2> DEFINE part == spec[last(bucket)]
  <2>1. part \in [from : Nat, to : Nat, shard : Nat] /\ Accepted(part, count)
    BY <1>1, <1>2, <1>3, <1>4
  <2> HIDE DEF part
  <2>2. part.shard \in Nat /\ part.shard < count
    BY <2>1 DEF Accepted
  <2>3. part.shard \in 0 .. count - 1
    BY <2>2
  <2> QED
    BY <2>3 DEF part
<1>5. \A bucket \in Bucket : bucket % count \in 0 .. count - 1
  <2> SUFFICES ASSUME NEW bucket \in Bucket PROVE bucket % count \in 0 .. count - 1
    OBVIOUS
  <2>1. bucket \in Nat
    BY KeyAssumption DEF Bucket
  <2> QED
    BY <2>1
<1> HIDE DEF naming, last
<1> QED
  BY <1>1, <1>4, <1>5

Setup ==
    /\ strategy \in {"hash", "city"}
    /\ shards \in 1 .. MaxShards
    /\ map \in [Bucket -> 0 .. shards - 1]

LEMMA LayoutTyped ==
    ASSUME NEW layout \in Layouts, buildBucketMap(layout.shards, layout.spec) # Refused
    PROVE  /\ layout.shards \in 1 .. MaxShards
           /\ buildBucketMap(layout.shards, layout.spec) \in [Bucket -> 0 .. layout.shards - 1]
<1>1. /\ layout.shards \in 1 .. MaxShards /\ layout.shards \in Nat \ {0}
      /\ layout.spec \in Seq([from : Nat, to : Nat, shard : Nat])
  BY CatalogueAssumption
<1> QED
  BY <1>1, BucketMapTyped

(* The map of the buckets names shards of the cluster, however often the    *)
(* cluster has grown (rebalanceBuckets) or been laid out (buildBucketMap).  *)
THEOREM SetupInvariant == Spec => []Setup
<1>1. Init => Setup
  BY LayoutTyped DEF Init, Setup
<1>2. ASSUME Setup, [Next]_vars PROVE Setup'
  <2>1. CASE Grow
    <3>1. PICK count \in shards + 1 .. MaxShards : Redeploy(count, rebalanceBuckets(map, count))
      BY <2>1 DEF Grow
    <3>2. /\ count \in 1 .. MaxShards /\ count \in Nat \ {0}
          /\ \A s \in 0 .. shards - 1 : s \in 0 .. count - 1
      BY <1>2, CatalogueAssumption DEF Setup
    <3>3. map \in Maps(count)
      BY <1>2, <3>2 DEF Setup, Maps
    <3>4. rebalanceBuckets(map, count) \in [Bucket -> 0 .. count - 1]
      BY <3>2, <3>3, Rebalanced DEF Maps
    <3> QED
      BY <1>2, <3>1, <3>2, <3>4 DEF Redeploy, Setup
  <2>2. CASE LayOut
    BY <1>2, <2>2, LayoutTyped DEF LayOut, Redeploy, Setup
  <2>3. CASE UNCHANGED vars
    BY <1>2, <2>3 DEF vars, config, Setup
  <2>4. CASE UNCHANGED config
    BY <1>2, <2>4 DEF config, Setup
  <2>5. ASSUME NEW q \in Request
        PROVE  /\ \A city \in City : CreateHotel(q, city) => UNCHANGED config
               /\ \A what : FindHotel(q, what) \/ FindRoom(q, what) => UNCHANGED config
               /\ \A h, number : CreateRoom(q, h, number) => UNCHANGED config
               /\ UpdateHotel(q) \/ RemoveHotel(q) \/ CheckNumber(q) => UNCHANGED config
               /\ InsertRoom(q) \/ UpdateRoom(q) \/ RemoveRoom(q) => UNCHANGED config
               /\ Unavailable(q) \/ ReplyReport(q) => UNCHANGED config
               /\ \A report : Gather(q, report) => UNCHANGED config
               /\ \A shard, labels : AnswerQuery(q, shard, labels) => UNCHANGED config
               /\ \A shard : FailQuery(q, shard) => UNCHANGED config
    <3>1. /\ \A code : Reject(q, code) => UNCHANGED config
          /\ \A hotels, rooms : Write(q, hotels, rooms) => UNCHANGED config
          /\ \A what, next : Begin(q, what, next) => UNCHANGED config
      BY DEF Reject, Write, Begin, Answer
    <3> QED
      BY <3>1 DEF CreateHotel, FindHotel, FindRoom, CreateRoom, UpdateHotel, RemoveHotel,
                  CheckNumber, InsertRoom, UpdateRoom, RemoveRoom, Unavailable, ReplyReport,
                  Gather, AnswerQuery, FailQuery
  <2> QED
    BY <1>2, <2>1, <2>2, <2>3, <2>4, <2>5 DEF Next
<1> QED
  BY <1>1, <1>2, PTL DEF Spec

(* From every assignment of the buckets to the shards there are, the growth *)
(* to any number of shards moves as few as it can.                          *)
THEOREM GrowthMovesLeast == Spec => []RebalanceMovesLeast
<1>1. Setup => RebalanceMovesLeast
  <2> SUFFICES ASSUME Setup, NEW to \in Growth, NEW before \in [Bucket -> 0 .. shards - 1]
               PROVE  MovesLeast(before, to)
    BY DEF RebalanceMovesLeast
  <2>1. shards \in Nat \ {0} /\ to \in Nat /\ to > shards
    BY ReshardingAssumption, CatalogueAssumption DEF Setup, Growth
  <2>2. \A s \in 0 .. shards - 1 : s \in 0 .. to - 1
    BY <2>1
  <2>3. before \in [Bucket -> 0 .. to - 1]
    BY <2>2
  <2> QED
    BY <2>1, <2>3, MovesLeastTheorem
<1> QED
  BY <1>1, SetupInvariant, PTL

(* The ring finds the next virtual node, however many shards there are and  *)
(* wherever their nodes are.                                                *)
THEOREM KeysGoClockwise == Spec => []RingIsClockwise
<1>1. Setup => RingIsClockwise
  <2> SUFFICES ASSUME Setup, NEW count \in Growth \cup {shards}, NEW position \in Positions(count)
               PROVE  Clockwise(HashRing(count, position))
    BY DEF RingIsClockwise
  <2>1. count \in Nat \ {0}
    BY ReshardingAssumption, CatalogueAssumption DEF Setup, Growth
  <2> QED
    BY <2>1, ClockwiseTheorem
<1> QED
  BY <1>1, SetupInvariant, PTL

(* However far the cluster grows, with buckets and with the ring only new   *)
(* shards gain keys.                                                        *)
THEOREM OldShardsGainNothing == Spec => []OnlyNewShardsGain
<1>1. Setup => OnlyNewShardsGain
  <2> SUFFICES ASSUME Setup, NEW scheme \in Scheme \ {"modulo"}, NEW to \in Growth,
                      NEW position \in Positions(to)
               PROVE  NewShardsGain(simulateResharding(scheme, shards, to, position))
    BY DEF OnlyNewShardsGain
  <2>1. to \in Nat \ {0} /\ shards \in 1 .. to
    BY ReshardingAssumption, CatalogueAssumption DEF Setup, Growth
  <2> QED
    BY <2>1, NewShardsGainTheorem
<1> QED
  BY <1>1, SetupInvariant, PTL

-----------------------------------------------------------------------------
(* The type invariant of the tables and of the requests under way.          *)

Codes == {"idle", "number", "write", "gather", "200", "400", "404", "409", "500", "503"}

Ids ==
    /\ DOMAIN hotel \subseteq HotelId
    /\ DOMAIN room \subseteq RoomId
    /\ \A r \in DOMAIN room : room[r].number \in Number
    /\ moved \subseteq DOMAIN hotel

Served ==
    /\ pc \in [Request -> Codes]
    /\ job \in [Request -> Job]
    /\ touched \in [Request -> BOOLEAN]

\* Outside its fan-out a report has gathered nothing.
Gathered(q) ==
    /\ pc[q] # "gather" => parts[q] = <<>> /\ failed[q] = {} /\ kept[q] = {}
    /\ failed[q] \subseteq 0 .. shards - 1
    /\ \A s \in failed[q] : ~Answered(q, s)
    /\ kept[q] \subseteq seen[q]

Gathering ==
    /\ parts = [q \in Request |-> parts[q]]
    /\ failed = [q \in Request |-> failed[q]]
    /\ kept = [q \in Request |-> kept[q]]
    /\ seen = [q \in Request |-> seen[q]]
    /\ \A q \in Request : Gathered(q)

TInv == Ids /\ Served /\ Gathering

LEMMA JobFields ==
    ASSUME NEW j \in Job
    PROVE  /\ j.op = "PATCH hotel" => j.id \in HotelId /\ j.city \in City
           /\ j.op = "DELETE hotel" => j.id \in HotelId
           /\ j.op = "POST room" => j.hotel \in HotelId /\ j.number \in Number
           /\ j.op = "PATCH room" => j.id \in RoomId /\ j.number \in Number
           /\ j.op = "DELETE room" => j.id \in RoomId
BY DEF Job, Report

LEMMA InvariantsImplyTypeOK == Setup /\ IInv /\ TInv => TypeOK
<1> SUFFICES ASSUME Setup, IInv, TInv PROVE TypeOK
  OBVIOUS
<1>1. ASSUME NEW id, Made(id) PROVE forKey(id) \in 0 .. shards - 1
  BY <1>1, BucketOfMade DEF Setup, forKey
<1>2. \A h \in DOMAIN hotel : hotel[h] \in [shard : 0 .. shards - 1, city : City]
  <2> SUFFICES ASSUME NEW h \in DOMAIN hotel
               PROVE  hotel[h] \in [shard : 0 .. shards - 1, city : City]
    OBVIOUS
  <2>1. /\ hotel[h] = [shard |-> forKey(h), city |-> hotel[h].city]
        /\ hotel[h].city \in City /\ Made(h)
    BY DEF IInv, HotelRows
  <2>2. forKey(h) \in 0 .. shards - 1
    BY <1>1, <2>1
  <2> QED
    BY <2>1, <2>2
<1>3. \A r \in DOMAIN room :
         room[r] \in [shard : 0 .. shards - 1, hotel : HotelId, number : Number]
  <2> SUFFICES ASSUME NEW r \in DOMAIN room
               PROVE  room[r] \in [shard : 0 .. shards - 1, hotel : HotelId, number : Number]
    OBVIOUS
  <2>1. /\ room[r] = [shard |-> forKey(r), hotel |-> room[r].hotel, number |-> room[r].number]
        /\ room[r].hotel \in DOMAIN hotel /\ Made(r)
    BY DEF IInv, RoomRows
  <2>2. forKey(r) \in 0 .. shards - 1
    BY <1>1, <2>1
  <2>3. room[r].hotel \in HotelId /\ room[r].number \in Number
    BY <2>1 DEF TInv, Ids
  <2> QED
    BY <2>1, <2>2, <2>3
<1> QED
  BY <1>2, <1>3 DEF TypeOK, Setup, TInv, Ids, Served, Codes, Gathering, Gathered

LEMMA InitImpliesTInv == Init => TInv
<1> SUFFICES ASSUME Init PROVE TInv
  OBVIOUS
<1>1. PICK uuidHash \in [DOMAIN SeededHotels -> Bucket] :
         LET id(name) == newHotelId(uuidHash[name], name, SeededHotels[name])
             roomId(name) == childId(id(SeededRooms[name].hotel), name)
         IN  /\ hotel = [h \in {id(name) : name \in DOMAIN SeededHotels} |->
                            [shard |-> forKey(h), city |-> SeededHotels[h[2]]]]
             /\ room = [r \in {roomId(name) : name \in DOMAIN SeededRooms} |->
                           [shard |-> forKey(r), hotel |-> id(SeededRooms[r[2]].hotel),
                            number |-> SeededRooms[r[2]].number]]
  BY Zenon DEF Init
<1> DEFINE id(name) == newHotelId(uuidHash[name], name, SeededHotels[name])
           roomId(name) == childId(id(SeededRooms[name].hotel), name)
<1>2. ASSUME NEW name \in DOMAIN SeededHotels
      PROVE  id(name) \in HotelId /\ bucketOf(id(name)) \in Bucket
  <2>1. uuidHash[name] \in Bucket /\ SeededHotels[name] \in City
    BY CatalogueAssumption
  <2>2. Made(id(name)) /\ id(name)[2] = name
    BY <2>1, NewHotelIsMade DEF newHotelId, idInBucket
  <2>3. id(name) = <<bucketOf(id(name)), name>> /\ bucketOf(id(name)) \in Bucket
    BY <2>2, BucketOfMade DEF Made
  <2> QED
    BY <2>3 DEF HotelId
<1>3. ASSUME NEW name \in DOMAIN SeededRooms
      PROVE  /\ roomId(name) \in RoomId /\ roomId(name)[2] = name
             /\ SeededRooms[name].number \in Number
  <2>1. SeededRooms[name].hotel \in DOMAIN SeededHotels /\ SeededRooms[name].number \in Number
    BY CatalogueAssumption
  <2>2. bucketOf(id(SeededRooms[name].hotel)) \in Bucket
    BY <1>2, <2>1
  <2> HIDE DEF id
  <2>3. roomId(name) = <<bucketOf(id(SeededRooms[name].hotel)), name>>
    BY DEF childId, idInBucket
  <2> QED
    BY <2>1, <2>2, <2>3 DEF RoomId
<1>4. /\ hotel = [h \in {id(name) : name \in DOMAIN SeededHotels} |->
                     [shard |-> forKey(h), city |-> SeededHotels[h[2]]]]
      /\ room = [r \in {roomId(name) : name \in DOMAIN SeededRooms} |->
                    [shard |-> forKey(r), hotel |-> id(SeededRooms[r[2]].hotel),
                     number |-> SeededRooms[r[2]].number]]
  BY <1>1
<1> HIDE DEF id, roomId
<1>5. Ids
  <2>1. DOMAIN hotel \subseteq HotelId /\ DOMAIN room \subseteq RoomId
    BY <1>2, <1>3, <1>4
  <2>2. \A r \in DOMAIN room : room[r].number \in Number
    BY <1>3, <1>4
  <2>3. moved = {}
    BY DEF Init
  <2> QED
    BY <2>1, <2>2, <2>3 DEF Ids
<1>6. Served
  BY DEF Init, Served, Codes, Job
<1>7. Gathering
  BY DEF Init, Gathering, Gathered
<1> QED
  BY <1>5, <1>6, <1>7 DEF TInv

\* What another request does to a report is to add to what there has been.
LEMMA GatheredElsewhere ==
    ASSUME NEW q \in Request, Gathered(q), UNCHANGED shards,
           (pc[q])' = pc[q], (job[q])' = job[q],
           (parts[q])' = parts[q], (failed[q])' = failed[q],
           (kept[q])' \subseteq kept[q], (kept[q])' \subseteq (seen[q])'
    PROVE  Gathered(q)'
BY DEF Gathered, Answered

LEMMA BeginKeepsTInv ==
    ASSUME TInv, NEW q \in Request, NEW what \in Job, NEW next \in {"number", "write"},
           Begin(q, what, next)
    PROVE  TInv'
<1>1. /\ pc[q] = "idle" /\ pc' = [pc EXCEPT ![q] = next] /\ job' = [job EXCEPT ![q] = what]
      /\ UNCHANGED <<shards, hotel, room, parts, failed, touched, kept, seen, moved>>
  BY DEF Begin, config, reports, history
<1>2. Ids'
  BY <1>1 DEF TInv, Ids
<1>3. Served'
  BY <1>1 DEF TInv, Served, Codes
<1>4. Gathered(q)'
  BY <1>1 DEF TInv, Gathering, Gathered, Served
<1>5. ASSUME NEW p \in Request, p # q PROVE Gathered(p)'
  BY <1>1, <1>5, GatheredElsewhere DEF TInv, Gathering, Gathered, Served
<1> QED
  BY <1>1, <1>2, <1>3, <1>4, <1>5 DEF TInv, Gathering

Final == {"200", "400", "404", "409", "500", "503"}

LEMMA RejectKeepsTInv ==
    ASSUME TInv, NEW q \in Request, NEW code \in Final, pc[q] # "gather", Reject(q, code)
    PROVE  TInv'
<1>1. /\ pc' = [pc EXCEPT ![q] = code] /\ job' = [job EXCEPT ![q] = [op |-> "none"]]
      /\ touched' = [touched EXCEPT ![q] = FALSE]
      /\ UNCHANGED <<shards, hotel, room, parts, failed, kept, seen, moved>>
  BY DEF Reject, Answer, config, reports
<1>2. Ids'
  BY <1>1 DEF TInv, Ids
<1>3. Served'
  BY <1>1 DEF TInv, Served, Codes, Final, Job
<1>4. Gathered(q)'
  BY <1>1 DEF TInv, Gathering, Gathered, Served, Final
<1>5. ASSUME NEW p \in Request, p # q PROVE Gathered(p)'
  BY <1>1, <1>5, GatheredElsewhere DEF TInv, Gathering, Gathered, Served
<1> QED
  BY <1>1, <1>2, <1>3, <1>4, <1>5 DEF TInv, Gathering

LEMMA WriteKeepsTInv ==
    ASSUME TInv, NEW q \in Request, NEW hotels, NEW rooms, pc[q] # "gather",
           Write(q, hotels, rooms),
           DOMAIN hotels \subseteq HotelId, DOMAIN rooms \subseteq RoomId,
           \A r \in DOMAIN rooms : rooms[r].number \in Number,
           moved' \subseteq DOMAIN hotels
    PROVE  TInv'
<1> DEFINE E == Entries(hotels, rooms)
<1>1. /\ pc' = [pc EXCEPT ![q] = "200"] /\ job' = [job EXCEPT ![q] = [op |-> "none"]]
      /\ touched' = [p \in Request |-> p # q /\ (touched[p] \/ Waiting(p))]
      /\ kept' = [p \in Request |-> kept[p] \cap E]
      /\ seen' = [p \in Request |-> IF pc[p] = "gather" THEN seen[p] \cup E ELSE {}]
      /\ hotel' = hotels /\ room' = rooms
      /\ UNCHANGED <<shards, parts, failed>>
  BY DEF Write, Answer, config, reports
<1> HIDE DEF E
<1>2. Ids'
  BY <1>1 DEF Ids
<1>3. Served'
  BY <1>1 DEF TInv, Served, Codes, Job
<1>4. Gathered(q)'
  BY <1>1 DEF TInv, Gathering, Gathered, Served
<1>5. ASSUME NEW p \in Request, p # q PROVE Gathered(p)'
  <2>1. (kept[p])' \subseteq kept[p] /\ (kept[p])' \subseteq (seen[p])'
    BY <1>1 DEF TInv, Gathering, Gathered
  <2> QED
    BY <1>1, <1>5, <2>1, GatheredElsewhere DEF TInv, Gathering, Served
<1> QED
  BY <1>1, <1>2, <1>3, <1>4, <1>5 DEF TInv, Gathering

LEMMA FindHotelKeepsTInv ==
    ASSUME TInv, NEW q \in Request, NEW what, FindHotel(q, what),
           what.id \in HotelId => what \in Job
    PROVE  TInv'
<1>1. CASE Found(hotel, what.id, forKey(what.id)) /\ Begin(q, what, "write")
  <2>1. what.id \in HotelId
    BY <1>1 DEF TInv, Ids, Found
  <2> QED
    BY <1>1, <2>1, BeginKeepsTInv
<1>2. CASE Reject(q, "404")
  BY <1>2, RejectKeepsTInv DEF FindHotel, Final
<1> QED
  BY <1>1, <1>2 DEF FindHotel

LEMMA CreateRoomKeepsTInv ==
    ASSUME TInv, NEW q \in Request, NEW h, NEW number \in Number, CreateRoom(q, h, number)
    PROVE  TInv'
<1> DEFINE what == [op |-> "POST room", hotel |-> h, number |-> number]
<1>1. CASE Found(hotel, h, forKey(h)) /\ Begin(q, what, "number")
  <2>1. h \in HotelId
    BY <1>1 DEF TInv, Ids, Found
  <2>2. what \in Job
    BY <2>1 DEF Job
  <2> HIDE DEF what
  <2> QED
    BY <1>1, <2>2, BeginKeepsTInv
<1>2. CASE Reject(q, "404")
  BY <1>2, RejectKeepsTInv DEF CreateRoom, Final
<1> QED
  BY <1>1, <1>2 DEF CreateRoom

LEMMA FindRoomKeepsTInv ==
    ASSUME TInv, NEW q \in Request, NEW what, FindRoom(q, what),
           what.id \in RoomId => what \in Job
    PROVE  TInv'
<1>1. CASE Found(room, what.id, forKey(what.id)) /\ Begin(q, what, "write")
  <2>1. what.id \in RoomId
    BY <1>1 DEF TInv, Ids, Found
  <2> QED
    BY <1>1, <2>1, BeginKeepsTInv
<1>2. CASE Reject(q, "400") \/ Reject(q, "404")
  BY <1>2, RejectKeepsTInv DEF FindRoom, Final
<1> QED
  BY <1>1, <1>2 DEF FindRoom

LEMMA CheckNumberKeepsTInv ==
    ASSUME TInv, NEW q \in Request, CheckNumber(q)
    PROVE  TInv'
<1>1. CASE Reject(q, "409")
  BY <1>1, RejectKeepsTInv DEF CheckNumber, Final
<1>2. CASE /\ pc' = [pc EXCEPT ![q] = "write"]
           /\ UNCHANGED <<config, hotel, room, job, reports, history>>
  <2>1. /\ UNCHANGED <<shards, hotel, room, job, parts, failed, touched, kept, seen, moved>>
        /\ pc[q] = "number" /\ pc' = [pc EXCEPT ![q] = "write"]
    BY <1>2 DEF config, reports, history, CheckNumber
  <2>2. Ids'
    BY <2>1 DEF TInv, Ids
  <2>3. Served'
    BY <2>1 DEF TInv, Served, Codes
  <2>4. Gathered(q)'
    BY <2>1 DEF TInv, Gathering, Gathered, Served
  <2>5. ASSUME NEW p \in Request, p # q PROVE Gathered(p)'
    BY <2>1, <2>5, GatheredElsewhere DEF TInv, Gathering, Gathered, Served
  <2> QED
    BY <2>1, <2>2, <2>3, <2>4, <2>5 DEF TInv, Gathering
<1> QED
  BY <1>1, <1>2 DEF CheckNumber

\* Rows put in place have ids of the right kind.
LEMMA PutKeepsTypes ==
    ASSUME TInv, NEW id, NEW row
    PROVE  /\ id \in HotelId => DOMAIN With(hotel, id, row) \subseteq HotelId
           /\ moved \subseteq DOMAIN With(hotel, id, row)
           /\ id \in RoomId => DOMAIN With(room, id, row) \subseteq RoomId
           /\ row.number \in Number =>
                 \A r \in DOMAIN With(room, id, row) : With(room, id, row)[r].number \in Number
           /\ DOMAIN Without(hotel, id) = DOMAIN hotel \ {id}
           /\ DOMAIN Without(room, id) = DOMAIN room \ {id}
           /\ \A r \in DOMAIN Without(room, id) : Without(room, id)[r] = room[r]
BY DEF With, Without, TInv, Ids

LEMMA TablesTyped ==
    ASSUME TInv
    PROVE  /\ DOMAIN hotel \subseteq HotelId /\ DOMAIN room \subseteq RoomId
           /\ \A r \in DOMAIN room : room[r].number \in Number
           /\ moved \subseteq DOMAIN hotel
BY DEF TInv, Ids

LEMMA CreateHotelKeepsTInv ==
    ASSUME TInv, NEW q \in Request, NEW city \in City, CreateHotel(q, city)
    PROVE  TInv'
<1>1. PICK uuidHash \in Bucket :
         Write(q, With(hotel, newHotelId(uuidHash, q, city),
                       [shard |-> forKey(newHotelId(uuidHash, q, city)), city |-> city]), room)
  BY DEF CreateHotel
<1> DEFINE id == newHotelId(uuidHash, q, city)
           hotels == With(hotel, id, [shard |-> forKey(id), city |-> city])
<1>2. id \in HotelId
  <2>1. Made(id) /\ id[2] = q
    BY NewHotelIsMade DEF newHotelId, idInBucket
  <2>2. \E b \in Bucket : id = <<b, q>>
    BY <2>1 DEF Made
  <2> HIDE DEF id
  <2> QED
    BY <2>2 DEF HotelId
<1>3. Write(q, hotels, room) /\ pc[q] # "gather" /\ moved' = moved
  BY <1>1 DEF CreateHotel
<1> HIDE DEF id
<1>4. DOMAIN hotels \subseteq HotelId /\ moved' \subseteq DOMAIN hotels
  BY <1>2, <1>3, PutKeepsTypes
<1> HIDE DEF hotels
<1> QED
  BY <1>3, <1>4, TablesTyped, WriteKeepsTInv

LEMMA UpdateHotelKeepsTInv ==
    ASSUME TInv, NEW q \in Request, UpdateHotel(q)
    PROVE  TInv'
<1> DEFINE id == job[q].id
           row == [hotel[id] EXCEPT !.city = job[q].city]
           hotels == With(hotel, id, row)
<1>1. pc[q] # "gather"
  BY DEF UpdateHotel
<1>2. CASE Found(hotel, id, forKey(id))
  <2>1. Write(q, hotels, room) /\ moved' \in {moved, moved \cup {id}}
    BY <1>2 DEF UpdateHotel
  <2>2. id \in DOMAIN hotel
    BY <1>2 DEF Found
  <2> HIDE DEF id, row
  <2>3. DOMAIN hotels = DOMAIN hotel
    BY <2>2 DEF With
  <2> HIDE DEF hotels
  <2>4. moved' \subseteq DOMAIN hotels /\ DOMAIN hotels \subseteq HotelId
    BY <2>1, <2>2, <2>3, TablesTyped
  <2> QED
    BY <1>1, <2>1, <2>4, TablesTyped, WriteKeepsTInv
<1>3. CASE ~Found(hotel, id, forKey(id))
  BY <1>1, <1>3, RejectKeepsTInv DEF UpdateHotel, Final
<1> QED
  BY <1>2, <1>3

LEMMA RemoveHotelKeepsTInv ==
    ASSUME TInv, NEW q \in Request, RemoveHotel(q)
    PROVE  TInv'
<1> DEFINE id == job[q].id
<1>1. pc[q] # "gather"
  BY DEF RemoveHotel
<1>2. CASE Write(q, Without(hotel, id), room) /\ moved' = moved \ {id}
  <2>1. DOMAIN Without(hotel, id) = DOMAIN hotel \ {id}
    BY DEF Without
  <2> HIDE DEF id
  <2>2. moved' \subseteq DOMAIN Without(hotel, id) /\ DOMAIN Without(hotel, id) \subseteq HotelId
    BY <1>2, <2>1, TablesTyped
  <2> QED
    BY <1>1, <1>2, <2>2, TablesTyped, WriteKeepsTInv
<1>3. CASE Reject(q, "500")
  BY <1>1, <1>3, RejectKeepsTInv DEF Final
<1> QED
  BY <1>2, <1>3 DEF RemoveHotel

LEMMA InsertRoomKeepsTInv ==
    ASSUME IInv, TInv, NEW q \in Request, InsertRoom(q)
    PROVE  TInv'
<1> DEFINE h == job[q].hotel
           id == childId(h, q)
           row == [shard |-> forKey(h), hotel |-> h, number |-> job[q].number]
           rooms == With(room, id, row)
<1>1. pc[q] # "gather"
  BY DEF InsertRoom
<1>2. CASE Found(hotel, h, forKey(h)) /\ ~Taken(h, job[q].number, forKey(h), id)
  <2>1. Write(q, hotel, rooms) /\ moved' = moved
    BY <1>2 DEF InsertRoom
  <2>2. h \in DOMAIN hotel /\ bucketOf(h) \in Bucket
    BY <1>2, BucketOfMade DEF Found, IInv, HotelRows
  <2>3. id = <<bucketOf(h), q>>
    BY DEF childId, idInBucket
  <2>4. id \in RoomId
    BY <2>2, <2>3 DEF RoomId
  <2>5. job[q] \in Job /\ job[q].op = "POST room"
    BY DEF InsertRoom, TInv, Served
  <2>6. row.number \in Number
    BY <2>5, JobFields
  <2> HIDE DEF id, row
  <2>7. /\ DOMAIN rooms \subseteq RoomId
        /\ \A r \in DOMAIN rooms : rooms[r].number \in Number
    BY <2>4, <2>6, PutKeepsTypes
  <2> HIDE DEF rooms
  <2> QED
    BY <1>1, <2>1, <2>7, TablesTyped, WriteKeepsTInv
<1>3. CASE Reject(q, "500")
  BY <1>1, <1>3, RejectKeepsTInv DEF Final
<1> QED
  BY <1>2, <1>3 DEF InsertRoom

LEMMA UpdateRoomKeepsTInv ==
    ASSUME TInv, NEW q \in Request, UpdateRoom(q)
    PROVE  TInv'
<1> DEFINE id == job[q].id
           h == job[q].hotel
           row == [shard |-> forKey(id), hotel |-> h, number |-> job[q].number]
           rooms == With(room, id, row)
<1>1. pc[q] # "gather"
  BY DEF UpdateRoom
<1>2. CASE Write(q, hotel, rooms) /\ moved' = moved
  <2>1. job[q] \in Job /\ job[q].op = "PATCH room"
    BY DEF UpdateRoom, TInv, Served
  <2>2. id \in RoomId /\ row.number \in Number
    BY <2>1, JobFields
  <2> HIDE DEF id, row
  <2>3. /\ DOMAIN rooms \subseteq RoomId
        /\ \A r \in DOMAIN rooms : rooms[r].number \in Number
    BY <2>2, PutKeepsTypes
  <2> HIDE DEF rooms
  <2> QED
    BY <1>1, <1>2, <2>3, TablesTyped, WriteKeepsTInv
<1>3. CASE Reject(q, "500")
  BY <1>1, <1>3, RejectKeepsTInv DEF Final
<1> QED
  BY <1>2, <1>3 DEF UpdateRoom

LEMMA RemoveRoomKeepsTInv ==
    ASSUME TInv, NEW q \in Request, RemoveRoom(q)
    PROVE  TInv'
<1> DEFINE id == job[q].id
           rooms == Without(room, id)
<1>1. pc[q] # "gather"
  BY DEF RemoveRoom
<1>2. CASE Write(q, hotel, rooms) /\ moved' = moved
  <2>1. DOMAIN rooms \subseteq DOMAIN room /\ \A r \in DOMAIN rooms : rooms[r] = room[r]
    BY DEF Without
  <2> HIDE DEF rooms
  <2>2. DOMAIN rooms \subseteq RoomId /\ \A r \in DOMAIN rooms : rooms[r].number \in Number
    BY <2>1, TablesTyped
  <2> QED
    BY <1>1, <1>2, <2>2, TablesTyped, WriteKeepsTInv
<1>3. CASE Reject(q, "500")
  BY <1>1, <1>3, RejectKeepsTInv DEF Final
<1> QED
  BY <1>2, <1>3 DEF RemoveRoom

LEMMA GatherKeepsTInv ==
    ASSUME TInv, NEW q \in Request, NEW report \in Report, Gather(q, report)
    PROVE  TInv'
<1> DEFINE E == Entries(hotel, room)
<1>1. /\ pc[q] = "idle" /\ pc' = [pc EXCEPT ![q] = "gather"]
      /\ job' = [job EXCEPT ![q] = [op |-> report]]
      /\ kept' = [kept EXCEPT ![q] = E] /\ seen' = [seen EXCEPT ![q] = E]
      /\ UNCHANGED <<shards, hotel, room, parts, failed, touched, moved>>
  BY DEF Gather, config, reports
<1> HIDE DEF E
<1>2. Ids'
  BY <1>1 DEF TInv, Ids
<1>3. Served'
  BY <1>1 DEF TInv, Served, Codes, Job
<1>4. Gathered(q)'
  BY <1>1 DEF TInv, Gathering, Gathered, Served
<1>5. ASSUME NEW p \in Request, p # q PROVE Gathered(p)'
  BY <1>1, <1>5, GatheredElsewhere DEF TInv, Gathering, Gathered, Served
<1> QED
  BY <1>1, <1>2, <1>3, <1>4, <1>5 DEF TInv, Gathering

LEMMA AnswerQueryKeepsTInv ==
    ASSUME TInv, NEW q \in Request, NEW shard, NEW labels, AnswerQuery(q, shard, labels)
    PROVE  TInv'
<1>1. PICK answer : parts' = [parts EXCEPT ![q] = With(@, <<shard, labels>>, answer)]
  BY DEF AnswerQuery
<1>2. /\ pc[q] = "gather" /\ shard \notin failed[q]
      /\ UNCHANGED <<shards, hotel, room, pc, job, failed, touched, kept, seen, moved>>
  BY DEF AnswerQuery, Awaited, config, history
<1>3. Ids' /\ Served'
  BY <1>2 DEF TInv, Ids, Served
<1>4. Gathered(q)'
  <2>1. (DOMAIN parts[q])' = DOMAIN parts[q] \cup {<<shard, labels>>}
    BY <1>1 DEF With, TInv, Gathering
  <2>2. ASSUME NEW s \in failed[q] PROVE ~Answered(q, s)'
    <3>1. s # shard /\ ~Answered(q, s)
      BY <1>2 DEF TInv, Gathering, Gathered
    <3> QED
      BY <1>2, <2>1, <3>1 DEF Answered
  <2> QED
    BY <1>2, <2>2 DEF TInv, Gathering, Gathered
<1>5. ASSUME NEW p \in Request, p # q PROVE Gathered(p)'
  BY <1>1, <1>2, <1>5, GatheredElsewhere DEF TInv, Gathering, Gathered
<1> QED
  BY <1>1, <1>2, <1>3, <1>4, <1>5 DEF TInv, Gathering

LEMMA FailQueryKeepsTInv ==
    ASSUME TInv, NEW q \in Request, NEW shard \in 0 .. shards - 1, FailQuery(q, shard)
    PROVE  TInv'
<1>1. /\ pc[q] = "gather" /\ ~Answered(q, shard)
      /\ failed' = [failed EXCEPT ![q] = @ \cup {shard}]
      /\ UNCHANGED <<shards, hotel, room, pc, job, parts, touched, kept, seen, moved>>
  BY DEF FailQuery, config, history
<1>2. Ids' /\ Served'
  BY <1>1 DEF TInv, Ids, Served
<1>3. Gathered(q)'
  BY <1>1 DEF TInv, Gathering, Gathered, Answered
<1>4. ASSUME NEW p \in Request, p # q PROVE Gathered(p)'
  BY <1>1, <1>4, GatheredElsewhere DEF TInv, Gathering, Gathered
<1> QED
  BY <1>1, <1>2, <1>3, <1>4 DEF TInv, Gathering

LEMMA ReplyReportKeepsTInv ==
    ASSUME TInv, NEW q \in Request, ReplyReport(q)
    PROVE  TInv'
<1>1. /\ pc[q] = "gather" /\ pc' = [pc EXCEPT ![q] = "200"]
      /\ job' = [job EXCEPT ![q] = [op |-> "none"]]
      /\ parts' = [parts EXCEPT ![q] = <<>>] /\ failed' = [failed EXCEPT ![q] = {}]
      /\ touched' = [touched EXCEPT ![q] = FALSE]
      /\ kept' = [kept EXCEPT ![q] = {}] /\ seen' = [seen EXCEPT ![q] = {}]
      /\ UNCHANGED <<shards, hotel, room, moved>>
  BY DEF ReplyReport, config
<1>2. Ids'
  BY <1>1 DEF TInv, Ids
<1>3. Served'
  BY <1>1 DEF TInv, Served, Codes, Job
<1>4. Gathered(q)'
  BY <1>1 DEF TInv, Gathering, Gathered
<1>5. ASSUME NEW p \in Request, p # q PROVE Gathered(p)'
  BY <1>1, <1>5, GatheredElsewhere DEF TInv, Gathering, Gathered, Served
<1> QED
  BY <1>1, <1>2, <1>3, <1>4, <1>5 DEF TInv, Gathering

LEMMA RedeployKeepsTInv ==
    ASSUME TInv, NEW count, NEW to, Redeploy(count, to)
    PROVE  TInv'
<1>1. /\ \A q \in Request : pc[q] # "gather"
      /\ hotel' = Placed(hotel) /\ room' = Placed(room)
      /\ UNCHANGED <<pc, job, parts, failed, touched, kept, seen, moved>>
  BY DEF Redeploy, Waiting, reports, history
<1>2. DOMAIN hotel' = DOMAIN hotel /\ DOMAIN room' = DOMAIN room
  BY <1>1 DEF Placed
<1>3. \A r \in DOMAIN room : (room[r].number)' = room[r].number
  <2> SUFFICES ASSUME NEW r \in DOMAIN room PROVE (room[r].number)' = room[r].number
    OBVIOUS
  <2>1. room'[r] = [room[r] EXCEPT !.shard = map'[bucketOf(r)]]
    BY <1>1 DEF Placed
  <2> QED
    BY <2>1
<1>4. Ids'
  BY <1>1, <1>2, <1>3 DEF TInv, Ids
<1>5. Served'
  BY <1>1 DEF TInv, Served
<1>6. ASSUME NEW q \in Request PROVE Gathered(q)'
  BY <1>1 DEF TInv, Gathering, Gathered
<1> QED
  BY <1>1, <1>4, <1>5, <1>6 DEF TInv, Gathering

(* The part of the type invariant that no other invariant implies.          *)
THEOREM TInvInvariant == Spec => []TInv
<1>1. ASSUME IInv, TInv, [Next]_vars PROVE TInv'
  <2>1. CASE UNCHANGED vars
    <3>1. UNCHANGED <<shards, hotel, room, pc, job, parts, failed, touched, kept, seen, moved>>
      BY <2>1 DEF vars, config, reports, history
    <3>2. Ids' /\ Served'
      BY <1>1, <3>1 DEF TInv, Ids, Served
    <3>3. ASSUME NEW q \in Request PROVE Gathered(q)'
      BY <1>1, <3>1, GatheredElsewhere DEF TInv, Gathering, Gathered
    <3> QED
      BY <1>1, <3>1, <3>2, <3>3 DEF TInv, Gathering
  <2>2. ASSUME NEW q \in Request, NEW city \in City, CreateHotel(q, city)
        PROVE  TInv'
    BY <1>1, <2>2, CreateHotelKeepsTInv
  <2>3. ASSUME NEW q \in Request, NEW id \in DOMAIN hotel \cup {NoId},
               \/ \E city \in City :
                     FindHotel(q, [op |-> "PATCH hotel", id |-> id, city |-> city])
               \/ FindHotel(q, [op |-> "DELETE hotel", id |-> id])
        PROVE  TInv'
    <3>1. \A city \in City :
             id \in HotelId => [op |-> "PATCH hotel", id |-> id, city |-> city] \in Job
      BY DEF Job
    <3>2. id \in HotelId => [op |-> "DELETE hotel", id |-> id] \in Job
      BY DEF Job
    <3>3. ASSUME NEW city \in City,
                 FindHotel(q, [op |-> "PATCH hotel", id |-> id, city |-> city])
          PROVE  TInv'
      BY <1>1, <3>1, <3>3, FindHotelKeepsTInv
    <3>4. CASE FindHotel(q, [op |-> "DELETE hotel", id |-> id])
      BY <1>1, <3>2, <3>4, FindHotelKeepsTInv
    <3> QED
      BY <2>3, <3>3, <3>4
  <2>4. ASSUME NEW q \in Request, NEW id, NEW number \in Number, CreateRoom(q, id, number)
        PROVE  TInv'
    BY <1>1, <2>4, CreateRoomKeepsTInv
  <2>5. ASSUME NEW q \in Request,
               \/ UpdateHotel(q) \/ RemoveHotel(q) \/ CheckNumber(q) \/ InsertRoom(q)
               \/ UpdateRoom(q) \/ RemoveRoom(q)
        PROVE  TInv'
    BY <1>1, <2>5, UpdateHotelKeepsTInv, RemoveHotelKeepsTInv, CheckNumberKeepsTInv,
       InsertRoomKeepsTInv, UpdateRoomKeepsTInv, RemoveRoomKeepsTInv
  <2>6. ASSUME NEW q \in Request, NEW id \in DOMAIN room \cup {NoId}, NEW h \in DOMAIN hotel \cup {NoId},
               NEW number \in Number,
               FindRoom(q, [op |-> "PATCH room", id |-> id, hotel |-> h, number |-> number])
        PROVE  TInv'
    <3>1. h \in HotelId \cup {NoId}
      BY <1>1, TablesTyped
    <3>2. id \in RoomId =>
             [op |-> "PATCH room", id |-> id, hotel |-> h, number |-> number] \in Job
      BY <3>1 DEF Job
    <3> QED
      BY <1>1, <2>6, <3>2, FindRoomKeepsTInv
  <2>7. ASSUME NEW q \in Request, NEW id \in DOMAIN room \cup {NoId},
               FindRoom(q, [op |-> "DELETE room", id |-> id])
        PROVE  TInv'
    <3>1. id \in RoomId => [op |-> "DELETE room", id |-> id] \in Job
      BY DEF Job
    <3> QED
      BY <1>1, <2>7, <3>1, FindRoomKeepsTInv
  <2>8. ASSUME NEW q \in Request, Unavailable(q)
        PROVE  TInv'
    BY <1>1, <2>8, RejectKeepsTInv DEF Unavailable, Final
  <2>9. ASSUME NEW q \in Request,
               \/ \E report \in Report : Gather(q, report)
               \/ \E shard \in 0 .. shards - 1 :
                     \/ \E labels \in {City, {"rooms"}} : AnswerQuery(q, shard, labels)
                     \/ FailQuery(q, shard)
               \/ ReplyReport(q)
        PROVE  TInv'
    BY <1>1, <2>9, GatherKeepsTInv, AnswerQueryKeepsTInv, FailQueryKeepsTInv, ReplyReportKeepsTInv
  <2>10. CASE Grow \/ LayOut
    BY <1>1, <2>10, RedeployKeepsTInv DEF Grow, LayOut
  <2> QED
    BY <1>1, <2>1, <2>2, <2>3, <2>4, <2>5, <2>6, <2>7, <2>8, <2>9, <2>10 DEF Next
<1> QED
  BY <1>1, InitImpliesTInv, IInvInvariant, PTL DEF Spec

(* Every row lies on a shard of the cluster and names a hotel there can be, *)
(* and no report counts a shard both as answered and as failed: whatever    *)
(* requests race, and however often the cluster is laid out anew.           *)
THEOREM CatalogueTyped == Spec => []TypeOK
BY SetupInvariant, IInvInvariant, TInvInvariant, InvariantsImplyTypeOK, PTL

-----------------------------------------------------------------------------
(* What a shard has answered lies between what has been there throughout    *)
(* and what there has been at some time.                                    *)

CountOf(entries, label, where) == {e \in entries : e[1] = label /\ forKey(e[2]) \in where}

Tallied(q, shard, labels) ==
    \A label \in labels :
       LET n == parts[q][<<shard, labels>>][label]
       IN  /\ n \in Nat
           /\ Cardinality(CountOf(kept[q], label, {shard})) <= n
           /\ n <= Cardinality(CountOf(seen[q], label, {shard}))

Watched(q) ==
    pc[q] = "gather" =>
       /\ kept[q] \subseteq Entries(hotel, room)
       /\ Entries(hotel, room) \subseteq seen[q]
       /\ IsFiniteSet(seen[q])
       /\ \A shard \in 0 .. shards - 1, labels \in {City, {"rooms"}} :
             <<shard, labels>> \in DOMAIN parts[q] => Tallied(q, shard, labels)

CInv ==
    /\ IsFiniteSet(DOMAIN hotel)
    /\ IsFiniteSet(DOMAIN room)
    /\ \A q \in Request : Watched(q)

LEMMA EntriesFinite ==
    ASSUME NEW hotels, NEW rooms, IsFiniteSet(DOMAIN hotels), IsFiniteSet(DOMAIN rooms)
    PROVE  IsFiniteSet(Entries(hotels, rooms))
<1> DEFINE ofHotel == [h \in DOMAIN hotels |-> <<hotels[h].city, h>>]
           ofRoom == [r \in DOMAIN rooms |-> <<"rooms", r>>]
           H == {<<hotels[h].city, h>> : h \in DOMAIN hotels}
           R == {<<"rooms", r>> : r \in DOMAIN rooms}
<1>1. IsFiniteSet(H)
  <2>1. ofHotel \in Surjection(DOMAIN hotels, H)
    BY DEF Surjection
  <2> HIDE DEF ofHotel, H
  <2> QED
    BY <2>1, FS_Surjection
<1>2. IsFiniteSet(R)
  <2>1. ofRoom \in Surjection(DOMAIN rooms, R)
    BY DEF Surjection
  <2> HIDE DEF ofRoom, R
  <2> QED
    BY <2>1, FS_Surjection
<1>3. Entries(hotels, rooms) = H \cup R
  BY DEF Entries
<1> HIDE DEF H, R
<1> QED
  BY <1>1, <1>2, <1>3, FS_Union

LEMMA CountsCompare ==
    ASSUME NEW big, IsFiniteSet(big), NEW small, small \subseteq big
    PROVE  /\ IsFiniteSet(small) /\ Cardinality(small) \in Nat /\ Cardinality(big) \in Nat
           /\ Cardinality(small) <= Cardinality(big)
BY FS_Subset, FS_CardinalityType

LEMMA HotelsCounted ==
    ASSUME IInv, IsFiniteSet(DOMAIN hotel), CatalogueAssumption, NEW shard, NEW label \in City
    PROVE  /\ hotelsIn(label, shard) \in Nat
           /\ hotelsIn(label, shard)
                = Cardinality(CountOf(Entries(hotel, room), label, {shard}))
<1> DEFINE S == {h \in On(hotel, shard) : hotel[h].city = label}
           T == CountOf(Entries(hotel, room), label, {shard})
           f == [h \in S |-> <<label, h>>]
<1>1. IsFiniteSet(S) /\ Cardinality(S) \in Nat
  <2>1. S \subseteq DOMAIN hotel
    BY DEF On
  <2> HIDE DEF S
  <2> QED
    BY <2>1, CountsCompare
<1>2. \A h \in DOMAIN hotel : hotel[h].shard = forKey(h)
  BY DEF IInv, HotelRows
<1>3. label # "rooms"
  BY CatalogueAssumption
<1>4. T = {<<label, h>> : h \in S}
  <2>1. ASSUME NEW e \in T PROVE e \in {<<label, h>> : h \in S}
    <3>1. e \in Entries(hotel, room) /\ e[1] = label /\ forKey(e[2]) = shard
      BY DEF CountOf
    <3>2. PICK h \in DOMAIN hotel : e = <<hotel[h].city, h>>
      BY <1>3, <3>1 DEF Entries
    <3>3. h \in S /\ e = <<label, h>>
      BY <1>2, <3>1, <3>2 DEF On
    <3> QED
      BY <3>3
  <2>2. ASSUME NEW h \in S PROVE <<label, h>> \in T
    <3>1. h \in DOMAIN hotel /\ hotel[h].city = label /\ forKey(h) = shard
      BY <1>2 DEF On
    <3>2. <<label, h>> \in Entries(hotel, room)
      BY <3>1 DEF Entries
    <3> QED
      BY <3>1, <3>2 DEF CountOf
  <2> QED
    BY <2>1, <2>2
<1>5. f \in Bijection(S, T)
  <2> HIDE DEF S, T
  <2> QED
    BY <1>4 DEF Bijection, Injection, Surjection, IsInjective
<1>6. hotelsIn(label, shard) = Cardinality(S)
  BY DEF hotelsIn
<1> HIDE DEF S, T, f
<1>7. Cardinality(T) = Cardinality(S)
  BY <1>1, <1>5, FS_Bijection DEF ExistsBijection
<1> QED
  BY <1>1, <1>6, <1>7 DEF T

LEMMA RoomsCounted ==
    ASSUME IInv, IsFiniteSet(DOMAIN room), CatalogueAssumption, NEW shard
    PROVE  /\ Cardinality(On(room, shard)) \in Nat
           /\ Cardinality(On(room, shard))
                = Cardinality(CountOf(Entries(hotel, room), "rooms", {shard}))
<1> DEFINE S == On(room, shard)
           T == CountOf(Entries(hotel, room), "rooms", {shard})
           f == [r \in S |-> <<"rooms", r>>]
<1>1. IsFiniteSet(S) /\ Cardinality(S) \in Nat
  <2>1. S \subseteq DOMAIN room
    BY DEF On
  <2> HIDE DEF S
  <2> QED
    BY <2>1, CountsCompare
<1>2. \A r \in DOMAIN room : room[r].shard = forKey(r)
  BY DEF IInv, RoomRows
<1>3. \A h \in DOMAIN hotel : hotel[h].city # "rooms"
  BY CatalogueAssumption DEF IInv, HotelRows
<1>4. T = {<<"rooms", r>> : r \in S}
  <2>1. ASSUME NEW e \in T PROVE e \in {<<"rooms", r>> : r \in S}
    <3>1. e \in Entries(hotel, room) /\ e[1] = "rooms" /\ forKey(e[2]) = shard
      BY DEF CountOf
    <3>2. PICK r \in DOMAIN room : e = <<"rooms", r>>
      BY <1>3, <3>1 DEF Entries
    <3>3. r \in S
      BY <1>2, <3>1, <3>2 DEF On
    <3> QED
      BY <3>2, <3>3
  <2>2. ASSUME NEW r \in S PROVE <<"rooms", r>> \in T
    <3>1. r \in DOMAIN room /\ forKey(r) = shard
      BY <1>2 DEF On
    <3>2. <<"rooms", r>> \in Entries(hotel, room)
      BY <3>1 DEF Entries
    <3> QED
      BY <3>1, <3>2 DEF CountOf
  <2> QED
    BY <2>1, <2>2
<1>5. f \in Bijection(S, T)
  <2> HIDE DEF S, T
  <2> QED
    BY <1>4 DEF Bijection, Injection, Surjection, IsInjective
<1> HIDE DEF S, T, f
<1>6. Cardinality(T) = Cardinality(S)
  BY <1>1, <1>5, FS_Bijection DEF ExistsBijection
<1> QED
  BY <1>1, <1>6 DEF S, T

LEMMA TallyStands ==
    ASSUME NEW q \in Request, NEW shard, NEW labels, Tallied(q, shard, labels),
           UNCHANGED map, (parts[q])' = parts[q],
           (kept[q])' \subseteq kept[q], seen[q] \subseteq (seen[q])',
           IsFiniteSet(kept[q]), IsFiniteSet((seen[q])')
    PROVE  Tallied(q, shard, labels)'
<1> SUFFICES ASSUME NEW label \in labels
             PROVE  LET n == parts[q][<<shard, labels>>][label]
                    IN  /\ n \in Nat
                        /\ Cardinality(CountOf(kept[q], label, {shard}))' <= n
                        /\ n <= Cardinality(CountOf(seen[q], label, {shard}))'
  BY DEF Tallied
<1> DEFINE n == parts[q][<<shard, labels>>][label]
           k == CountOf(kept[q], label, {shard})
           s == CountOf(seen[q], label, {shard})
<1>1. n \in Nat /\ Cardinality(k) <= n /\ n <= Cardinality(s)
  BY DEF Tallied
<1>2. k' \subseteq k /\ s \subseteq s'
  BY DEF CountOf, forKey
<1>3. IsFiniteSet(k) /\ IsFiniteSet(s')
  <2>1. k \subseteq kept[q] /\ s' \subseteq (seen[q])'
    BY DEF CountOf
  <2> HIDE DEF k, s
  <2> QED
    BY <2>1, FS_Subset
<1> HIDE DEF n, k, s
<1>4. /\ Cardinality(k') \in Nat /\ Cardinality(k) \in Nat /\ Cardinality(k') <= Cardinality(k)
      /\ Cardinality(s') \in Nat /\ Cardinality(s) \in Nat /\ Cardinality(s) <= Cardinality(s')
  BY <1>2, <1>3, CountsCompare
<1>5. Cardinality(k)' = Cardinality(k') /\ Cardinality(s)' = Cardinality(s')
  OBVIOUS
<1>6. n \in Nat /\ Cardinality(k') <= n /\ n <= Cardinality(s')
  BY <1>1, <1>4
<1> QED
  BY <1>6 DEF n, k, s

\* A report goes on while another request leaves the tables as they are.
LEMMA WatchedElsewhere ==
    ASSUME NEW q \in Request, Watched(q), UNCHANGED <<shards, map, hotel, room>>,
           (pc[q])' = pc[q], (parts[q])' = parts[q],
           (kept[q])' = kept[q], (seen[q])' = seen[q]
    PROVE  Watched(q)'
<1> SUFFICES ASSUME pc[q] = "gather" PROVE Watched(q)'
  BY DEF Watched
<1>1. /\ kept[q] \subseteq Entries(hotel, room) /\ Entries(hotel, room) \subseteq seen[q]
      /\ IsFiniteSet(seen[q])
      /\ \A shard \in 0 .. shards - 1, labels \in {City, {"rooms"}} :
            <<shard, labels>> \in DOMAIN parts[q] => Tallied(q, shard, labels)
  BY DEF Watched
<1>2. IsFiniteSet(kept[q]) /\ IsFiniteSet((seen[q])')
  <2>1. kept[q] \subseteq seen[q]
    BY <1>1
  <2> QED
    BY <1>1, <2>1, FS_Subset
<1>3. ASSUME NEW shard \in 0 .. shards - 1, NEW labels \in {City, {"rooms"}},
             <<shard, labels>> \in DOMAIN parts[q]
      PROVE  Tallied(q, shard, labels)'
  BY <1>1, <1>2, <1>3, TallyStands
<1>4. Entries(hotel, room)' = Entries(hotel, room)
  BY DEF Entries
<1> QED
  BY <1>1, <1>3, <1>4 DEF Watched

LEMMA WriteKeepsCInv ==
    ASSUME TInv, CInv, NEW q \in Request, NEW hotels, NEW rooms, pc[q] # "gather",
           Write(q, hotels, rooms), IsFiniteSet(DOMAIN hotels), IsFiniteSet(DOMAIN rooms)
    PROVE  CInv'
<1> DEFINE E == Entries(hotels, rooms)
<1>1. /\ pc' = [pc EXCEPT ![q] = "200"]
      /\ kept' = [p \in Request |-> kept[p] \cap E]
      /\ seen' = [p \in Request |-> IF pc[p] = "gather" THEN seen[p] \cup E ELSE {}]
      /\ hotel' = hotels /\ room' = rooms
      /\ UNCHANGED <<shards, map, parts>>
  BY DEF Write, Answer, config, reports
<1>2. IsFiniteSet(E) /\ Entries(hotel, room)' = E
  BY <1>1, EntriesFinite DEF Entries
<1> HIDE DEF E
<1>3. pc = [p \in Request |-> pc[p]]
  BY DEF TInv, Served
<1>4. ASSUME NEW p \in Request PROVE Watched(p)'
  <2> SUFFICES ASSUME pc'[p] = "gather" PROVE Watched(p)'
    BY DEF Watched
  <2>1. p # q /\ pc[p] = "gather"
    BY <1>1, <1>3
  <2>2. /\ kept[p] \subseteq Entries(hotel, room) /\ Entries(hotel, room) \subseteq seen[p]
        /\ IsFiniteSet(seen[p])
        /\ \A shard \in 0 .. shards - 1, labels \in {City, {"rooms"}} :
              <<shard, labels>> \in DOMAIN parts[p] => Tallied(p, shard, labels)
    BY <2>1 DEF CInv, Watched
  <2>3. (kept[p])' = kept[p] \cap E /\ (seen[p])' = seen[p] \cup E /\ (parts[p])' = parts[p]
    BY <1>1, <2>1
  <2>4. IsFiniteSet(kept[p])
    <3>1. kept[p] \subseteq seen[p]
      BY <2>2
    <3> QED
      BY <2>2, <3>1, FS_Subset
  <2>5. IsFiniteSet((seen[p])')
    <3>1. IsFiniteSet(seen[p] \cup E)
      BY <1>2, <2>2, FS_Union
    <3> QED
      BY <2>3, <3>1
  <2>6. ASSUME NEW shard \in 0 .. shards - 1, NEW labels \in {City, {"rooms"}},
               <<shard, labels>> \in DOMAIN parts[p]
        PROVE  Tallied(p, shard, labels)'
    <3>1. (kept[p])' \subseteq kept[p] /\ seen[p] \subseteq (seen[p])'
      BY <2>3
    <3>2. Tallied(p, shard, labels)
      BY <2>2, <2>6
    <3> QED
      BY <1>1, <2>3, <2>4, <2>5, <3>1, <3>2, TallyStands
  <2>7. (kept[p])' \subseteq Entries(hotel, room)' /\ Entries(hotel, room)' \subseteq (seen[p])'
    BY <1>2, <2>3
  <2> QED
    BY <1>1, <2>3, <2>5, <2>6, <2>7 DEF Watched
<1> QED
  BY <1>1, <1>4 DEF CInv

LEMMA QuietKeepsCInv ==
    ASSUME TInv, CInv, NEW q \in Request, (pc[q])' # "gather",
           UNCHANGED <<shards, map, hotel, room>>,
           \A p \in Request \ {q} : /\ (pc[p])' = pc[p] /\ (parts[p])' = parts[p]
                                    /\ (kept[p])' = kept[p] /\ (seen[p])' = seen[p]
    PROVE  CInv'
<1>1. Watched(q)'
  BY DEF Watched
<1>2. ASSUME NEW p \in Request \ {q} PROVE Watched(p)'
  BY <1>2, WatchedElsewhere DEF CInv
<1> QED
  BY <1>1, <1>2 DEF CInv

LEMMA RejectKeepsCInv ==
    ASSUME TInv, CInv, NEW q \in Request, NEW code, code # "gather", Reject(q, code)
    PROVE  CInv'
<1>1. /\ pc' = [pc EXCEPT ![q] = code]
      /\ UNCHANGED <<shards, map, hotel, room, parts, kept, seen>>
  BY DEF Reject, Answer, config, reports
<1> QED
  BY <1>1, QuietKeepsCInv DEF TInv, Served

LEMMA BeginKeepsCInv ==
    ASSUME TInv, CInv, NEW q \in Request, NEW what, NEW next, next # "gather",
           Begin(q, what, next)
    PROVE  CInv'
<1>1. /\ pc' = [pc EXCEPT ![q] = next]
      /\ UNCHANGED <<shards, map, hotel, room, parts, kept, seen>>
  BY DEF Begin, config, reports, history
<1> QED
  BY <1>1, QuietKeepsCInv DEF TInv, Served

LEMMA WithFinite ==
    ASSUME NEW table, NEW id, NEW row, IsFiniteSet(DOMAIN table)
    PROVE  IsFiniteSet(DOMAIN With(table, id, row)) /\ IsFiniteSet(DOMAIN Without(table, id))
<1>1. /\ DOMAIN With(table, id, row) = DOMAIN table \cup {id}
      /\ DOMAIN Without(table, id) = DOMAIN table \ {id}
  BY DEF With, Without
<1> QED
  BY <1>1, FS_AddElement, FS_RemoveElement

LEMMA WritesKeepCInv ==
    ASSUME TInv, CInv, NEW q \in Request,
           \/ \E city \in City : CreateHotel(q, city)
           \/ UpdateHotel(q) \/ RemoveHotel(q) \/ InsertRoom(q)
           \/ UpdateRoom(q) \/ RemoveRoom(q)
    PROVE  CInv'
<1>1. pc[q] # "gather"
  BY DEF CreateHotel, UpdateHotel, RemoveHotel, InsertRoom, UpdateRoom, RemoveRoom
<1>2. \/ \E code : code # "gather" /\ Reject(q, code)
      \/ \E id, row : Write(q, With(hotel, id, row), room) \/ Write(q, hotel, With(room, id, row))
      \/ \E id : Write(q, Without(hotel, id), room) \/ Write(q, hotel, Without(room, id))
  <2>1. "500" # "gather"
    OBVIOUS
  <2> QED
    BY <2>1 DEF CreateHotel, UpdateHotel, RemoveHotel, InsertRoom, UpdateRoom, RemoveRoom
<1>3. IsFiniteSet(DOMAIN hotel) /\ IsFiniteSet(DOMAIN room)
  BY DEF CInv
<1>4. ASSUME NEW code, code # "gather", Reject(q, code) PROVE CInv'
  BY <1>4, RejectKeepsCInv
<1>5. ASSUME NEW id, NEW row, Write(q, With(hotel, id, row), room) PROVE CInv'
  <2>1. IsFiniteSet(DOMAIN With(hotel, id, row))
    BY <1>3, WithFinite
  <2> QED
    BY <1>1, <1>3, <1>5, <2>1, WriteKeepsCInv
<1>6. ASSUME NEW id, NEW row, Write(q, hotel, With(room, id, row)) PROVE CInv'
  <2>1. IsFiniteSet(DOMAIN With(room, id, row))
    BY <1>3, WithFinite
  <2> QED
    BY <1>1, <1>3, <1>6, <2>1, WriteKeepsCInv
<1>7. ASSUME NEW id, Write(q, Without(hotel, id), room) PROVE CInv'
  <2>1. IsFiniteSet(DOMAIN Without(hotel, id))
    BY <1>3, WithFinite
  <2> QED
    BY <1>1, <1>3, <1>7, <2>1, WriteKeepsCInv
<1>8. ASSUME NEW id, Write(q, hotel, Without(room, id)) PROVE CInv'
  <2>1. IsFiniteSet(DOMAIN Without(room, id))
    BY <1>3, WithFinite
  <2> QED
    BY <1>1, <1>3, <1>8, <2>1, WriteKeepsCInv
<1> QED
  BY <1>2, <1>4, <1>5, <1>6, <1>7, <1>8

LEMMA GatherKeepsCInv ==
    ASSUME TInv, CInv, NEW q \in Request, NEW report \in Report, Gather(q, report)
    PROVE  CInv'
<1> DEFINE E == Entries(hotel, room)
<1>1. /\ pc[q] = "idle" /\ pc' = [pc EXCEPT ![q] = "gather"]
      /\ kept' = [kept EXCEPT ![q] = E] /\ seen' = [seen EXCEPT ![q] = E]
      /\ UNCHANGED <<shards, map, hotel, room, parts>>
  BY DEF Gather, config, reports
<1>2. IsFiniteSet(E) /\ E' = E
  BY <1>1, EntriesFinite DEF CInv, Entries
<1>3. /\ (kept[q])' = E /\ (seen[q])' = E /\ (parts[q])' = <<>>
      /\ \A p \in Request \ {q} : /\ (pc[p])' = pc[p] /\ (parts[p])' = parts[p]
                                   /\ (kept[p])' = kept[p] /\ (seen[p])' = seen[p]
  BY <1>1 DEF TInv, Served, Gathering, Gathered
<1>4. \A key : key \notin DOMAIN (parts[q])'
  BY <1>3
<1>5. Watched(q)'
  <2> HIDE DEF E
  <2>1. (kept[q])' \subseteq E' /\ E' \subseteq (seen[q])' /\ IsFiniteSet((seen[q])')
    BY <1>2, <1>3
  <2> QED
    BY <1>4, <2>1 DEF Watched, E
<1>6. ASSUME NEW p \in Request \ {q} PROVE Watched(p)'
  BY <1>1, <1>3, <1>6, WatchedElsewhere DEF CInv
<1> QED
  BY <1>1, <1>5, <1>6 DEF CInv

LEMMA AnswerQueryKeepsCInv ==
    ASSUME IInv, TInv, CInv, NEW q \in Request, NEW shard \in 0 .. shards - 1,
           NEW labels \in {City, {"rooms"}}, AnswerQuery(q, shard, labels)
    PROVE  CInv'
<1> DEFINE E == Entries(hotel, room)
           answer == [label \in labels |-> IF label = "rooms" THEN Cardinality(On(room, shard))
                                           ELSE hotelsIn(label, shard)]
<1>1. /\ pc[q] = "gather" /\ parts' = [parts EXCEPT ![q] = With(@, <<shard, labels>>, answer)]
      /\ <<shard, labels>> \notin DOMAIN parts[q]
      /\ UNCHANGED <<shards, map, hotel, room, pc, kept, seen>>
  BY DEF AnswerQuery, Awaited, config, history
<1>2. /\ (parts[q])' = With(parts[q], <<shard, labels>>, answer)
      /\ \A p \in Request \ {q} : (parts[p])' = parts[p]
  BY <1>1 DEF TInv, Gathering
<1>3. /\ kept[q] \subseteq E /\ E \subseteq seen[q] /\ IsFiniteSet(seen[q])
      /\ \A s \in 0 .. shards - 1, l \in {City, {"rooms"}} :
            <<s, l>> \in DOMAIN parts[q] => Tallied(q, s, l)
  BY <1>1 DEF CInv, Watched
<1>4. ASSUME NEW label \in labels
      PROVE  /\ answer[label] \in Nat
             /\ Cardinality(CountOf(kept[q], label, {shard})) <= answer[label]
             /\ answer[label] <= Cardinality(CountOf(seen[q], label, {shard}))
  <2> DEFINE k == CountOf(kept[q], label, {shard})
             c == CountOf(E, label, {shard})
             s == CountOf(seen[q], label, {shard})
  <2>1. answer[label] \in Nat /\ answer[label] = Cardinality(c)
    <3>1. IsFiniteSet(DOMAIN hotel) /\ IsFiniteSet(DOMAIN room)
      BY DEF CInv
    <3>2. CASE label = "rooms"
      BY <3>1, <3>2, CatalogueAssumption, RoomsCounted
    <3>3. CASE label # "rooms"
      <4>1. label \in City
        BY <3>3
      <4> QED
        BY <3>1, <3>3, <4>1, CatalogueAssumption, HotelsCounted
    <3> QED
      BY <3>2, <3>3
  <2>2. k \subseteq c /\ c \subseteq s /\ s \subseteq seen[q]
    BY <1>3 DEF CountOf
  <2> HIDE DEF k, c, s, answer
  <2>3. IsFiniteSet(s)
    BY <1>3, <2>2, FS_Subset
  <2>4. IsFiniteSet(c) /\ Cardinality(c) <= Cardinality(s)
    BY <2>2, <2>3, CountsCompare
  <2>5. Cardinality(k) <= Cardinality(c)
    BY <2>2, <2>4, CountsCompare
  <2> QED
    BY <2>1, <2>4, <2>5 DEF k, s
<1> HIDE DEF answer
<1>5. ASSUME NEW s \in 0 .. shards - 1, NEW l \in {City, {"rooms"}},
             <<s, l>> \in DOMAIN (parts[q])'
      PROVE  Tallied(q, s, l)'
  <2>1. CASE <<s, l>> = <<shard, labels>>
    <3>1. (parts[q])'[<<s, l>>] = answer /\ s = shard /\ l = labels
      BY <1>2, <2>1 DEF With
    <3>2. ASSUME NEW label \in labels
          PROVE  LET n == (parts[q])'[<<shard, labels>>][label]
                 IN  /\ n \in Nat
                     /\ Cardinality(CountOf(kept[q], label, {shard}))' <= n
                     /\ n <= Cardinality(CountOf(seen[q], label, {shard}))'
      <4>1. /\ CountOf(kept[q], label, {shard})' = CountOf(kept[q], label, {shard})
            /\ CountOf(seen[q], label, {shard})' = CountOf(seen[q], label, {shard})
        BY <1>1 DEF CountOf, forKey
      <4>2. (parts[q])'[<<shard, labels>>][label] = answer[label]
        BY <3>1
      <4> QED
        BY <1>4, <4>1, <4>2
    <3> QED
      BY <3>1, <3>2 DEF Tallied
  <2>2. CASE <<s, l>> # <<shard, labels>>
    <3>1. <<s, l>> \in DOMAIN parts[q] /\ (parts[q])'[<<s, l>>] = parts[q][<<s, l>>]
      BY <1>2, <1>5, <2>2 DEF With
    <3>2. Tallied(q, s, l)
      BY <1>3, <3>1
    <3> QED
      BY <1>1, <3>1, <3>2 DEF Tallied, CountOf, forKey
  <2> QED
    BY <2>1, <2>2
<1>6. Watched(q)'
  <2>1. E' = E
    BY <1>1 DEF Entries
  <2>2. (kept[q])' \subseteq E' /\ E' \subseteq (seen[q])' /\ IsFiniteSet((seen[q])')
    BY <1>1, <1>3, <2>1
  <2> QED
    BY <1>1, <1>5, <2>2 DEF Watched
<1>7. ASSUME NEW p \in Request \ {q} PROVE Watched(p)'
  BY <1>1, <1>2, <1>7, WatchedElsewhere DEF CInv
<1> QED
  BY <1>1, <1>6, <1>7 DEF CInv

LEMMA RedeployKeepsCInv ==
    ASSUME CInv, NEW count, NEW to, Redeploy(count, to)
    PROVE  CInv'
<1>1. /\ \A q \in Request : (pc[q])' # "gather"
      /\ hotel' = Placed(hotel) /\ room' = Placed(room)
  BY DEF Redeploy, Waiting, reports, history
<1>2. DOMAIN hotel' = DOMAIN hotel /\ DOMAIN room' = DOMAIN room
  BY <1>1 DEF Placed
<1> QED
  BY <1>1, <1>2 DEF CInv, Watched

LEMMA InitImpliesCInv == Init => CInv
<1> SUFFICES ASSUME Init PROVE CInv
  OBVIOUS
<1>1. PICK uuidHash \in [DOMAIN SeededHotels -> Bucket] :
         LET id(name) == newHotelId(uuidHash[name], name, SeededHotels[name])
             roomId(name) == childId(id(SeededRooms[name].hotel), name)
         IN  /\ hotel = [h \in {id(name) : name \in DOMAIN SeededHotels} |->
                            [shard |-> forKey(h), city |-> SeededHotels[h[2]]]]
             /\ room = [r \in {roomId(name) : name \in DOMAIN SeededRooms} |->
                           [shard |-> forKey(r), hotel |-> id(SeededRooms[r[2]].hotel),
                            number |-> SeededRooms[r[2]].number]]
  BY Zenon DEF Init
<1> DEFINE id(name) == newHotelId(uuidHash[name], name, SeededHotels[name])
           roomId(name) == childId(id(SeededRooms[name].hotel), name)
           ofHotel == [name \in DOMAIN SeededHotels |-> id(name)]
           ofRoom == [name \in DOMAIN SeededRooms |-> roomId(name)]
<1>2. /\ DOMAIN hotel = {id(name) : name \in DOMAIN SeededHotels}
      /\ DOMAIN room = {roomId(name) : name \in DOMAIN SeededRooms}
  BY <1>1
<1> HIDE DEF id, roomId
<1>3. /\ ofHotel \in Surjection(DOMAIN SeededHotels, DOMAIN hotel)
      /\ ofRoom \in Surjection(DOMAIN SeededRooms, DOMAIN room)
  BY <1>2 DEF Surjection
<1> HIDE DEF ofHotel, ofRoom
<1>4. IsFiniteSet(DOMAIN SeededHotels) /\ IsFiniteSet(DOMAIN SeededRooms)
  BY CatalogueAssumption
<1>5. IsFiniteSet(DOMAIN hotel) /\ IsFiniteSet(DOMAIN room)
  BY <1>3, <1>4, FS_Surjection
<1>6. \A q \in Request : pc[q] # "gather"
  BY DEF Init
<1> QED
  BY <1>5, <1>6 DEF CInv, Watched

(* What the shards have answered to a report stands until its reply.        *)
THEOREM CInvInvariant == Spec => []CInv
<1>1. ASSUME IInv, TInv, CInv, [Next]_vars PROVE CInv'
  <2>1. CASE UNCHANGED vars
    <3>1. UNCHANGED <<shards, map, hotel, room, pc, parts, kept, seen>>
      BY <2>1 DEF vars, config, reports, history
    <3>2. \A q \in Request : Watched(q)'
      BY <1>1, <3>1, WatchedElsewhere DEF CInv
    <3> QED
      BY <1>1, <3>1, <3>2 DEF CInv
  <2>2. ASSUME NEW q \in Request,
               \/ \E city \in City : CreateHotel(q, city)
               \/ UpdateHotel(q) \/ RemoveHotel(q) \/ InsertRoom(q)
               \/ UpdateRoom(q) \/ RemoveRoom(q)
        PROVE  CInv'
    BY <1>1, <2>2, WritesKeepCInv
  <2>3. ASSUME NEW q \in Request,
               \/ \E what : FindHotel(q, what) \/ FindRoom(q, what)
               \/ \E h, number : CreateRoom(q, h, number)
               \/ Unavailable(q)
        PROVE  CInv'
    <3>1. \A code : code # "gather" /\ Reject(q, code) => CInv'
      BY <1>1, RejectKeepsCInv
    <3>2. \A what, next : next # "gather" /\ Begin(q, what, next) => CInv'
      BY <1>1, BeginKeepsCInv
    <3> QED
      BY <2>3, <3>1, <3>2 DEF FindHotel, FindRoom, CreateRoom, Unavailable
  <2>4. ASSUME NEW q \in Request, CheckNumber(q)
        PROVE  CInv'
    <3>1. CASE Reject(q, "409")
      BY <1>1, <3>1, RejectKeepsCInv
    <3>2. CASE /\ pc' = [pc EXCEPT ![q] = "write"]
               /\ UNCHANGED <<config, hotel, room, job, reports, history>>
      <4>1. UNCHANGED <<shards, map, hotel, room, parts, kept, seen>>
        BY <3>2 DEF config, reports, history
      <4> QED
        BY <1>1, <3>2, <4>1, QuietKeepsCInv DEF TInv, Served
    <3> QED
      BY <2>4, <3>1, <3>2 DEF CheckNumber
  <2>5. ASSUME NEW q \in Request, NEW report \in Report, Gather(q, report)
        PROVE  CInv'
    BY <1>1, <2>5, GatherKeepsCInv
  <2>6. ASSUME NEW q \in Request, NEW shard \in 0 .. shards - 1,
               NEW labels \in {City, {"rooms"}}, AnswerQuery(q, shard, labels)
        PROVE  CInv'
    BY <1>1, <2>6, AnswerQueryKeepsCInv
  <2>7. ASSUME NEW q \in Request, NEW shard \in 0 .. shards - 1, FailQuery(q, shard)
        PROVE  CInv'
    <3>1. UNCHANGED <<shards, map, hotel, room, pc, parts, kept, seen>>
      BY <2>7 DEF FailQuery, config, history
    <3>2. \A p \in Request : Watched(p)'
      BY <1>1, <3>1, WatchedElsewhere DEF CInv
    <3> QED
      BY <1>1, <3>1, <3>2 DEF CInv
  <2>8. ASSUME NEW q \in Request, ReplyReport(q)
        PROVE  CInv'
    <3>1. /\ pc' = [pc EXCEPT ![q] = "200"] /\ parts' = [parts EXCEPT ![q] = <<>>]
          /\ kept' = [kept EXCEPT ![q] = {}] /\ seen' = [seen EXCEPT ![q] = {}]
          /\ UNCHANGED <<shards, map, hotel, room>>
      BY <2>8 DEF ReplyReport, config
    <3> QED
      BY <1>1, <3>1, QuietKeepsCInv DEF TInv, Served, Gathering
  <2>9. CASE Grow \/ LayOut
    BY <1>1, <2>9, RedeployKeepsCInv DEF Grow, LayOut
  <2> QED
    BY <1>1, <2>1, <2>2, <2>3, <2>4, <2>5, <2>6, <2>7, <2>8, <2>9 DEF Next
<1> QED
  BY <1>1, InitImpliesCInv, IInvInvariant, TInvInvariant, PTL DEF Spec

-----------------------------------------------------------------------------
(* The sum of a report, shard by shard.                                     *)
Sums(sum, q, labels, label) ==
    /\ sum \in [0 .. shards -> Nat]
    /\ sum[0] = 0
    /\ \A n \in 1 .. shards : sum[n] = sum[n - 1] + Counted(q, n - 1, labels, label)
    /\ Total(q, labels, label) = sum[shards]

LEMMA TotalAdds ==
    ASSUME NEW q, NEW labels, NEW label, shards \in Nat,
           \A s \in 0 .. shards - 1 : Counted(q, s, labels, label) \in Nat
    PROVE  \E sum : Sums(sum, q, labels, label)
<1> DEFINE of(s) == Counted(q, s, labels, label)
           step == [p \in (1 .. shards) \X Nat |-> p[2] + of(p[1] - 1)]
           rhs(g) == [n \in 0 .. shards |-> IF n = 0 THEN 0 ELSE g[n - 1] + of(n - 1)]
<1>1. Total(q, labels, label) = (CHOOSE g : g = rhs(g))[shards]
  BY DEF Total
<1>2. \A s \in 0 .. shards - 1 : of(s) \in Nat
  OBVIOUS
<1> HIDE DEF of
<1>3. step \in [(1 .. shards) \X Nat -> Nat]
  <2> SUFFICES ASSUME NEW n \in 1 .. shards, NEW m \in Nat
               PROVE  m + of(n - 1) \in Nat
    OBVIOUS
  <2>1. n - 1 \in 0 .. shards - 1
    OBVIOUS
  <2> QED
    BY <1>2, <2>1
<1>4. PICK f \in [0 .. shards -> Nat] :
         f[0] = 0 /\ \A n \in 1 .. shards : f[n] = step[<<n, f[n - 1]>>]
  <2> HIDE DEF step
  <2>1. \E f : Runs(f, shards, Nat, 0, step)
    BY <1>3, Recursion
  <2> QED
    BY <2>1 DEF Runs
<1>5. ASSUME NEW n \in 1 .. shards PROVE f[n] = f[n - 1] + of(n - 1)
  <2>1. f[n - 1] \in Nat
    OBVIOUS
  <2> QED
    BY <1>4, <2>1
<1> HIDE DEF step
<1>6. f = rhs(f)
  <2>1. ASSUME NEW n \in 0 .. shards PROVE f[n] = rhs(f)[n]
    <3>1. n = 0 \/ n \in 1 .. shards
      OBVIOUS
    <3>2. rhs(f)[n] = IF n = 0 THEN 0 ELSE f[n - 1] + of(n - 1)
      OBVIOUS
    <3> HIDE DEF rhs
    <3> QED
      BY <1>4, <1>5, <3>1, <3>2
  <2> QED
    BY <2>1
<1> DEFINE sum == CHOOSE g : g = rhs(g)
<1>7. sum = rhs(sum)
  <2> HIDE DEF rhs
  <2> QED
    BY <1>6
<1> HIDE DEF sum
<1>8. \A n \in 0 .. shards : sum[n] = IF n = 0 THEN 0 ELSE sum[n - 1] + of(n - 1)
  BY <1>7
<1> HIDE DEF rhs
<1> DEFINE Same == {n \in 0 .. shards : sum[n] = f[n]}
<1>9. \A n \in 0 .. shards : n \in Same
  <2>1. 0 \in Same
    BY <1>4, <1>8
  <2>2. ASSUME NEW n \in 1 .. shards, n - 1 \in Same PROVE n \in Same
    <3>1. n \in 0 .. shards /\ n # 0
      OBVIOUS
    <3> QED
      BY <1>5, <1>8, <2>2, <3>1
  <2> HIDE DEF Same
  <2> QED
    BY <2>1, <2>2, UpTo
<1>10. sum[shards] = f[shards]
  BY <1>9
<1>11. Total(q, labels, label) = f[shards]
  BY <1>1, <1>10 DEF sum, rhs
<1> QED
  BY <1>4, <1>5, <1>11 DEF of, Sums

LEMMA CountsAdd ==
    ASSUME NEW E, IsFiniteSet(E), NEW label, NEW n \in Nat \ {0}
    PROVE  /\ Cardinality(CountOf(E, label, 0 .. n - 1)) \in Nat
           /\ Cardinality(CountOf(E, label, 0 .. n - 2)) \in Nat
           /\ Cardinality(CountOf(E, label, {n - 1})) \in Nat
           /\ Cardinality(CountOf(E, label, 0 .. n - 1)) =
                Cardinality(CountOf(E, label, 0 .. n - 2)) + Cardinality(CountOf(E, label, {n - 1}))
<1> DEFINE a == CountOf(E, label, 0 .. n - 2)
           b == CountOf(E, label, {n - 1})
           c == CountOf(E, label, 0 .. n - 1)
<1>1. \A s : s \in 0 .. n - 1 <=> s \in 0 .. n - 2 \/ s = n - 1
  OBVIOUS
<1>2. n - 1 \notin 0 .. n - 2
  OBVIOUS
<1>3. a \cup b = c /\ a \cap b = {} /\ c \subseteq E
  BY <1>1, <1>2, Zenon DEF CountOf
<1> HIDE DEF a, b, c
<1>4. IsFiniteSet(a) /\ IsFiniteSet(b) /\ IsFiniteSet(c)
  <2>1. a \subseteq E /\ b \subseteq E
    BY <1>3
  <2> QED
    BY <1>3, <2>1, FS_Subset
<1>5. Cardinality(a) \in Nat /\ Cardinality(b) \in Nat /\ Cardinality(c) \in Nat
  BY <1>4, FS_CardinalityType
<1>6. Cardinality(a \cup b) = Cardinality(a) + Cardinality(b) - Cardinality(a \cap b)
  BY <1>4, FS_Union
<1>7. Cardinality(a \cap b) = 0
  BY <1>3, FS_EmptySet
<1>8. Cardinality(c) = Cardinality(a \cup b)
  BY <1>3
<1>9. Cardinality(c) = Cardinality(a) + Cardinality(b)
  BY <1>5, <1>6, <1>7, <1>8
<1> QED
  BY <1>5, <1>9 DEF a, b, c

LEMMA ShardCounts ==
    ASSUME IInv, CInv, NEW q \in Request, pc[q] = "gather",
           \A shard \in 0 .. shards - 1 : shard \in failed[q] \/ Answered(q, shard),
           NEW labels \in {City, {"rooms"}}, labels \in Queries(job[q].op), NEW label \in labels,
           NEW s \in 0 .. shards - 1
    PROVE  LET heard == {e \in kept[q] : forKey(e[2]) \notin failed[q]}
           IN  /\ Counted(q, s, labels, label) \in Nat
               /\ Cardinality(CountOf(heard, label, {s})) <= Counted(q, s, labels, label)
               /\ Counted(q, s, labels, label) <= Cardinality(CountOf(seen[q], label, {s}))
<1> DEFINE heard == {e \in kept[q] : forKey(e[2]) \notin failed[q]}
<1>1. IsFiniteSet(seen[q]) /\ kept[q] \subseteq seen[q]
  BY DEF CInv, Watched
<1>2. IsFiniteSet(CountOf(seen[q], label, {s})) /\ IsFiniteSet(CountOf(kept[q], label, {s}))
  <2>1. /\ CountOf(seen[q], label, {s}) \subseteq seen[q]
        /\ CountOf(kept[q], label, {s}) \subseteq seen[q]
    BY <1>1 DEF CountOf
  <2> QED
    BY <1>1, <2>1, FS_Subset
<1>3. CASE s \in failed[q]
  <2>1. Counted(q, s, labels, label) = 0
    BY <1>3 DEF Counted
  <2>2. CountOf(heard, label, {s}) = {}
    BY <1>3 DEF CountOf
  <2>3. Cardinality(CountOf(seen[q], label, {s})) \in Nat
    BY <1>2, FS_CardinalityType
  <2>4. Cardinality(CountOf(heard, label, {s})) = 0
    BY <2>2, FS_EmptySet
  <2> QED
    BY <2>1, <2>3, <2>4
<1>4. CASE s \notin failed[q]
  <2> DEFINE n == Counted(q, s, labels, label)
             k == Cardinality(CountOf(kept[q], label, {s}))
             h == Cardinality(CountOf(heard, label, {s}))
  <2>1. <<s, labels>> \in DOMAIN parts[q]
    BY <1>4 DEF Answered
  <2>2. Tallied(q, s, labels)
    BY <2>1 DEF CInv, Watched
  <2>3. n = parts[q][<<s, labels>>][label]
    BY <1>4 DEF Counted
  <2>4. n \in Nat /\ k <= n /\ n <= Cardinality(CountOf(seen[q], label, {s}))
    BY <2>2, <2>3 DEF Tallied
  <2>5. CountOf(heard, label, {s}) \subseteq CountOf(kept[q], label, {s})
    BY DEF CountOf
  <2>6. h \in Nat /\ k \in Nat /\ h <= k
    BY <1>2, <2>5, CountsCompare
  <2> HIDE DEF n, k, h
  <2>7. h <= n
    BY <2>4, <2>6
  <2> QED
    BY <2>4, <2>7 DEF n, h
<1> QED
  BY <1>3, <1>4

\* The counts of the shards, one after another, stay within the bounds.
LEMMA TotalBounds ==
    ASSUME IInv, CInv, shards \in Nat, NEW q \in Request, pc[q] = "gather",
           \A shard \in 0 .. shards - 1 : shard \in failed[q] \/ Answered(q, shard),
           NEW labels \in {City, {"rooms"}}, labels \in Queries(job[q].op), NEW label \in labels
    PROVE  LET heard == {e \in kept[q] : forKey(e[2]) \notin failed[q]}
           IN  /\ Total(q, labels, label) \in Nat
               /\ Cardinality(CountOf(heard, label, 0 .. shards - 1)) <= Total(q, labels, label)
               /\ Total(q, labels, label) <= Cardinality(CountOf(seen[q], label, 0 .. shards - 1))
<1> DEFINE heard == {e \in kept[q] : forKey(e[2]) \notin failed[q]}
           all == seen[q]
           of(s) == Counted(q, s, labels, label)
<1>1. ASSUME NEW s \in 0 .. shards - 1
      PROVE  /\ of(s) \in Nat
             /\ Cardinality(CountOf(heard, label, {s})) <= of(s)
             /\ of(s) <= Cardinality(CountOf(all, label, {s}))
  BY ShardCounts
<1>2. IsFiniteSet(heard) /\ IsFiniteSet(all)
  <2>1. IsFiniteSet(seen[q]) /\ kept[q] \subseteq seen[q]
    BY DEF CInv, Watched
  <2>2. heard \subseteq seen[q]
    BY <2>1
  <2> QED
    BY <2>1, <2>2, FS_Subset
<1>3. PICK sum \in [0 .. shards -> Nat] :
         /\ sum[0] = 0
         /\ \A n \in 1 .. shards : sum[n] = sum[n - 1] + of(n - 1)
         /\ Total(q, labels, label) = sum[shards]
  <2>1. \A s \in 0 .. shards - 1 : Counted(q, s, labels, label) \in Nat
    BY <1>1
  <2>2. \E sum : Sums(sum, q, labels, label)
    BY <2>1, TotalAdds
  <2> QED
    BY <2>2 DEF Sums
<1> HIDE DEF heard, all, of
<1> DEFINE low(n) == Cardinality(CountOf(heard, label, 0 .. n - 1))
           high(n) == Cardinality(CountOf(all, label, 0 .. n - 1))
           Within == {n \in 0 .. shards : low(n) <= sum[n] /\ sum[n] <= high(n)}
<1>4. 0 \in Within
  <2>1. 0 .. 0 - 1 = {}
    OBVIOUS
  <2>2. CountOf(heard, label, 0 .. 0 - 1) = {} /\ CountOf(all, label, 0 .. 0 - 1) = {}
    BY <2>1 DEF CountOf
  <2>3. low(0) = 0 /\ high(0) = 0
    BY <2>2, FS_EmptySet
  <2> HIDE DEF low, high
  <2> QED
    BY <1>3, <2>3
<1>5. ASSUME NEW n \in 1 .. shards, n - 1 \in Within PROVE n \in Within
  <2>1. n \in Nat \ {0} /\ n - 1 \in 0 .. shards - 1 /\ n \in 0 .. shards /\ (n - 1) - 1 = n - 2
    OBVIOUS
  <2> DEFINE l == Cardinality(CountOf(heard, label, {n - 1}))
             h == Cardinality(CountOf(all, label, {n - 1}))
  <2>2. /\ low(n) \in Nat /\ low(n - 1) \in Nat /\ l \in Nat
        /\ low(n) = low(n - 1) + l
    BY <1>2, <2>1, CountsAdd
  <2>3. /\ high(n) \in Nat /\ high(n - 1) \in Nat /\ h \in Nat
        /\ high(n) = high(n - 1) + h
    BY <1>2, <2>1, CountsAdd
  <2>4. l <= of(n - 1) /\ of(n - 1) <= h /\ of(n - 1) \in Nat
    BY <1>1, <2>1
  <2>5. low(n - 1) <= sum[n - 1] /\ sum[n - 1] <= high(n - 1)
    BY <1>5
  <2>6. sum[n] = sum[n - 1] + of(n - 1) /\ sum[n] \in Nat /\ sum[n - 1] \in Nat
    <3>1. n \in 0 .. shards /\ n - 1 \in 0 .. shards
      BY <2>1
    <3> HIDE DEF of
    <3>2. sum[n] \in Nat /\ sum[n - 1] \in Nat
      BY <1>3, <3>1
    <3> QED
      BY <1>3, <3>2
  <2> HIDE DEF low, high, l, h
  <2>7. low(n) <= sum[n] /\ sum[n] <= high(n)
    BY <2>2, <2>3, <2>4, <2>5, <2>6
  <2> QED
    BY <2>1, <2>7
<1>6. \A n \in 0 .. shards : n \in Within
  <2> HIDE DEF Within
  <2> QED
    BY <1>4, <1>5, UpTo
<1>7. low(shards) <= sum[shards] /\ sum[shards] <= high(shards)
  BY <1>6
<1> QED
  BY <1>3, <1>7 DEF heard, all

LEMMA ReportAnswered ==
    ASSUME IInv, TInv, [Next]_vars, NEW q \in Request, pc[q] = "gather", (pc[q])' = "200"
    PROVE  ReplyReport(q)
<1>1. pc = [p \in Request |-> pc[p]]
  BY DEF TInv, Served
<1>2. pc[q] # (pc[q])'
  OBVIOUS
<1>3. ASSUME NEW p, NEW code, Answer(p, code) PROVE p = q
  BY <1>1, <1>2, <1>3 DEF Answer
<1>4. ASSUME NEW p PROVE
        /\ \A code : Reject(p, code) => p = q
        /\ \A hotels, rooms : Write(p, hotels, rooms) => p = q
        /\ \A what, next : Begin(p, what, next) => p = q
  BY <1>1, <1>2, <1>3 DEF Reject, Write, Begin
<1>5. ASSUME NEW p \in Request
      PROVE  /\ \A city \in City : ~CreateHotel(p, city)
             /\ \A what : ~FindHotel(p, what) /\ ~FindRoom(p, what)
             /\ \A h, number : ~CreateRoom(p, h, number)
             /\ ~UpdateHotel(p) /\ ~RemoveHotel(p) /\ ~InsertRoom(p)
             /\ ~UpdateRoom(p) /\ ~RemoveRoom(p) /\ ~Unavailable(p)
  BY <1>4 DEF CreateHotel, FindHotel, FindRoom, CreateRoom, UpdateHotel, RemoveHotel,
              InsertRoom, UpdateRoom, RemoveRoom, Unavailable
<1>6. ASSUME NEW p \in Request
      PROVE  /\ ~CheckNumber(p)
             /\ \A report : ~Gather(p, report)
             /\ \A shard, labels : ~AnswerQuery(p, shard, labels)
             /\ \A shard : ~FailQuery(p, shard)
             /\ ReplyReport(p) => p = q
  BY <1>1, <1>2, <1>4 DEF CheckNumber, Gather, AnswerQuery, FailQuery, ReplyReport
<1>7. /\ ~Grow /\ ~LayOut
      /\ ~UNCHANGED vars
  BY <1>2 DEF Grow, LayOut, Redeploy, vars
<1> QED
  BY <1>5, <1>6, <1>7 DEF Next

(* Whatever is written while its fan-out runs, and whichever shards do not  *)
(* answer, a report leaves out nothing that was there all the time on a     *)
(* shard that answered, and counts nothing twice or that never was.         *)
THEOREM CountedOnce == Spec => ReportCountsOnce
<1>1. ASSUME Setup, IInv, TInv, CInv, [Next]_vars
      PROVE  \A q \in Request : pc[q] = "gather" /\ (pc[q])' = "200" =>
                \A labels \in Queries(job[q].op) : \A label \in labels :
                   LET silent == {e \in kept[q] : forKey(e[2]) \in failed[q]}
                   IN  /\ Total(q, labels, label)
                             >= Cardinality({e \in kept[q] \ silent : e[1] = label})
                       /\ Total(q, labels, label)
                             <= Cardinality({e \in seen[q] : e[1] = label})
  <2> SUFFICES ASSUME NEW q \in Request, pc[q] = "gather", (pc[q])' = "200",
                      NEW labels \in Queries(job[q].op), NEW label \in labels
               PROVE  LET silent == {e \in kept[q] : forKey(e[2]) \in failed[q]}
                      IN  /\ Total(q, labels, label)
                                >= Cardinality({e \in kept[q] \ silent : e[1] = label})
                          /\ Total(q, labels, label)
                                <= Cardinality({e \in seen[q] : e[1] = label})
    OBVIOUS
  <2> DEFINE heard == {e \in kept[q] : forKey(e[2]) \notin failed[q]}
             all == {e \in seen[q] : e[1] = label}
             within == CountOf(seen[q], label, 0 .. shards - 1)
             total == Total(q, labels, label)
  <2>1. ReplyReport(q)
    BY <1>1, ReportAnswered
  <2>2. \A shard \in 0 .. shards - 1 : shard \in failed[q] \/ Answered(q, shard)
    BY <2>1 DEF ReplyReport
  <2>3. labels \in {City, {"rooms"}}
    BY DEF Queries
  <2>4. shards \in Nat
    BY <1>1, CatalogueAssumption DEF Setup
  <2>5. /\ total \in Nat
        /\ Cardinality(CountOf(heard, label, 0 .. shards - 1)) <= total
        /\ total <= Cardinality(within)
    BY <1>1, <2>2, <2>3, <2>4, TotalBounds
  <2>6. \A e \in kept[q] : forKey(e[2]) \in 0 .. shards - 1
    <3>1. kept[q] \subseteq Entries(hotel, room)
      BY <1>1 DEF CInv, Watched
    <3>2. \A e \in Entries(hotel, room) : Made(e[2])
      BY <1>1 DEF IInv, HotelRows, RoomRows, Entries
    <3> QED
      BY <1>1, <3>1, <3>2, BucketOfMade DEF Setup, forKey
  <2>7. /\ CountOf(heard, label, 0 .. shards - 1) = {e \in heard : e[1] = label}
        /\ heard = kept[q] \ {e \in kept[q] : forKey(e[2]) \in failed[q]}
    BY <2>6 DEF CountOf
  <2>8. IsFiniteSet(all) /\ within \subseteq all
    <3>1. IsFiniteSet(seen[q]) /\ all \subseteq seen[q]
      BY <1>1 DEF CInv, Watched
    <3> QED
      BY <3>1, FS_Subset DEF CountOf
  <2> HIDE DEF heard, all, within, total
  <2>9. /\ Cardinality(within) <= Cardinality(all)
        /\ Cardinality(within) \in Nat /\ Cardinality(all) \in Nat
    BY <2>8, CountsCompare
  <2>10. Cardinality({e \in heard : e[1] = label}) <= total
    BY <2>5, <2>7
  <2>11. total <= Cardinality(all)
    BY <2>5, <2>9
  <2>12. /\ total >= Cardinality({e \in heard : e[1] = label})
         /\ total <= Cardinality(all)
    BY <2>10, <2>11
  <2> QED
    BY <2>7, <2>12 DEF total, all
<1> QED
  BY <1>1, SetupInvariant, IInvInvariant, TInvInvariant, CInvInvariant, PTL DEF Spec, ReportCountsOnce
=============================================================================
