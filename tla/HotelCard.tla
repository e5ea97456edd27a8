----------------------------- MODULE HotelCard ------------------------------
(***************************************************************************)
(* GET /hotels/:id through Redis: HotelsService.findOneCached() over       *)
(* CacheService.getOrSet(), against the mutations of hotels and rooms that *)
(* delete the cards they touch.  A card shows a hotel with its rooms; its  *)
(* contents are abstracted to a version number.                            *)
(*                                                                         *)
(* The database is the global node: a primary and an asynchronous replica  *)
(* (a shard is the same with a primary that is never replaced).            *)
(***************************************************************************)
EXTENDS Integers, FiniteSets

CONSTANTS
    Hotel,
    Home,      \* the hotel of the one room that moves between hotels
    Reader,    \* GET requests, each served once
    Writer,    \* mutations, each served once
    Offered,   \* kinds of mutation, a subset of Op
    Faults     \* see Fault

\* "update": PATCH of the hotel, POST, PATCH or DELETE of one of its rooms.
Op == {"update", "remove", "move"}

\* "get", "set", "del": the Redis command fails and is swallowed; "primary":
\* the primary goes down or comes back.
Fault == {"get", "set", "del", "primary"}

ASSUME CardAssumption ==
    /\ Home \in Hotel
    /\ Reader \cap Writer = {}
    /\ Offered \subseteq Op
    /\ Faults \subseteq Fault

VARIABLES
    version,    \* primary: version of what the card of each hotel shows
    home,       \* primary: the hotel of the room
    gone,       \* primary: hotels that were deleted
    replica,    \* the versions the replica has, and the hotels gone there
    up,         \* the primary answers
    entry,      \* Redis: the stored cards, hotel -> card
    pc, job,
    load,       \* readers: the card loaded and not yet stored
    settled,    \* history: newest version of a mutation that is through
    excused     \* history: hotels whose DEL was lost or never sent

vars == <<version, home, gone, replica, up, entry, pc, job, load, settled, excused>>

database == <<version, home, gone>>

Process == Reader \cup Writer

(***************************************************************************)
(* A card in Redis or on its way there:                                    *)
(* clean   no DEL of the card fell between its load and its SET            *)
(* from    the node that was read                                          *)
(***************************************************************************)
Card == [version : Nat, clean : BOOLEAN, from : {"primary", "replica"}]

NoCard == [version |-> 0, clean |-> TRUE, from |-> "primary"]

(***************************************************************************)
(* hotel    the hotel asked for; of a move, the one the room was read in   *)
(* to       the hotel the mutation leaves its rows in                      *)
(* wrote    history: the versions the mutation gave the cards it changed   *)
(***************************************************************************)
Job == [op : {"none"}] \cup [op : {"get"}, hotel : Hotel]
       \cup [op : Op, hotel : Hotel, to : Hotel, wrote : [Hotel -> Nat]]

\* No mutation writes version 0.
Unchanged == [h \in Hotel |-> 0]

Init ==
    /\ version = Unchanged
    /\ home = Home
    /\ gone = {}
    /\ replica = [version |-> version, gone |-> {}]
    /\ up = TRUE
    /\ entry = [h \in {} |-> NoCard]
    /\ pc = [p \in Process |-> "idle"]
    /\ job = [p \in Process |-> [op |-> "none"]]
    /\ load = [r \in Reader |-> NoCard]
    /\ settled = Unchanged
    /\ excused = {}

Go(p, step) == pc' = [pc EXCEPT ![p] = step]

-----------------------------------------------------------------------------
(* getOrSet(): the GET.  Without Redis the request reads the database and   *)
(* stores nothing.                                                          *)
Lookup(r, h) ==
    /\ pc[r] = "idle"
    /\ job' = [job EXCEPT ![r] = [op |-> "get", hotel |-> h]]
    /\ \/ h \in DOMAIN entry /\ Go(r, "hit")
       \/ h \notin DOMAIN entry /\ Go(r, "load")
       \/ "get" \in Faults /\ Go(r, "bypass")
    /\ UNCHANGED <<database, replica, up, entry, load, settled, excused>>

\* What one node has for the card: the card, or a 404 that is not stored.
Loaded(r, versions, missing, node) ==
    \/ /\ job[r].hotel \notin missing
       /\ load' = [load EXCEPT ![r] =
             [version |-> versions[job[r].hotel], clean |-> TRUE, from |-> node]]
       /\ Go(r, "store")
    \/ /\ job[r].hotel \in missing
       /\ Go(r, "404")
       /\ UNCHANGED load

(* findOne(id, PRIMARY_PREFERRED): the primary, or the replica when the     *)
(* primary cannot be reached.                                               *)
Load(r) ==
    /\ pc[r] = "load"
    /\ \/ up /\ Loaded(r, version, gone, "primary")
       \/ ~up /\ Loaded(r, replica.version, replica.gone, "replica")
    /\ UNCHANGED <<database, replica, up, entry, job, settled, excused>>

(* getOrSet(): the SET, whatever was deleted since the load.                *)
Store(r) ==
    LET h == job[r].hotel
    IN  /\ pc[r] = "store"
        /\ \/ entry' = [k \in DOMAIN entry \cup {h} |->
                           IF k = h THEN load[r] ELSE entry[k]]
           \/ "set" \in Faults /\ UNCHANGED entry
        /\ Go(r, "miss")
        /\ UNCHANGED <<database, replica, up, job, load, settled, excused>>
-----------------------------------------------------------------------------
(* update() and remove() up to findOne(id, STRONG).                         *)
Check(w, op, h) ==
    /\ pc[w] = "idle"
    /\ op \in Offered \ {"move"}
    /\ \/ /\ up /\ h \notin gone
          /\ job' = [job EXCEPT ![w] =
                [op |-> op, hotel |-> h, to |-> h, wrote |-> Unchanged]]
          /\ Go(w, "write")
       \/ up /\ h \in gone /\ Go(w, "404") /\ UNCHANGED job
       \/ ~up /\ Go(w, "503") /\ UNCHANGED job
    /\ UNCHANGED <<database, replica, up, entry, load, settled, excused>>

(* PATCH of a room with another hotelId (of the same bucket): findOne()     *)
(* tells which hotel the room is in before the write.                       *)
CheckMove(w, h) ==
    /\ pc[w] = "idle"
    /\ "move" \in Offered
    /\ \/ /\ up
          /\ job' = [job EXCEPT ![w] =
                [op |-> "move", hotel |-> home, to |-> h, wrote |-> Unchanged]]
          /\ Go(w, "write")
       \/ ~up /\ Go(w, "503") /\ UNCHANGED job
    /\ UNCHANGED <<database, replica, up, entry, load, settled, excused>>

\* Mutant: rooms without the foreign key to their hotel.
AllowedUnlinked(w) ==
    IF job[w].op = "remove" THEN job[w].to \notin gone ELSE TRUE

\* The row to write is there, and rooms keep their hotel (foreign key).
Allowed(w) ==
    /\ job[w].to \notin gone
    /\ job[w].op = "remove" => job[w].to # home

\* The hotels whose cards the write changes.
Touched(w) == IF job[w].op = "move" THEN {home, job[w].to} ELSE {job[w].to}

(* The write on the primary.                                                *)
Write(w) ==
    /\ pc[w] = "write"
    /\ \/ /\ up /\ Allowed(w)
          /\ version' = [h \in Hotel |->
                IF h \in Touched(w) THEN version[h] + 1 ELSE version[h]]
          /\ home' = IF job[w].op = "move" THEN job[w].to ELSE home
          /\ gone' = IF job[w].op = "remove" THEN gone \cup {job[w].to} ELSE gone
          /\ job' = [job EXCEPT ![w].wrote = [h \in Hotel |->
                IF h \in Touched(w) THEN version[h] + 1 ELSE 0]]
          /\ excused' = excused \cup (Touched(w) \ {job[w].hotel, job[w].to})
          /\ Go(w, "del")
       \/ up /\ ~Allowed(w) /\ Go(w, "500") /\ UNCHANGED <<database, job, excused>>
       \/ ~up /\ Go(w, "503") /\ UNCHANGED <<database, job, excused>>
    /\ UNCHANGED <<replica, up, entry, load, settled>>

\* Mutant: only the hotel the room is in now.
DroppedAfter(w) == {job[w].to}

\* The keys of invalidate(): before.hotelId and room.hotelId.
Dropped(w) == {job[w].hotel, job[w].to}

(* invalidate(): one DEL.  The search version is raised after it, that is   *)
(* the matter of SearchCache.                                               *)
Invalidate(w) ==
    /\ pc[w] = "del"
    /\ \/ /\ entry' = [h \in DOMAIN entry \ Dropped(w) |-> entry[h]]
          /\ load' = [r \in Reader |->
                IF pc[r] = "store" /\ job[r].hotel \in Dropped(w)
                THEN [load[r] EXCEPT !.clean = FALSE] ELSE load[r]]
          /\ excused' = excused \ Dropped(w)
       \/ /\ "del" \in Faults
          /\ excused' = excused \cup Dropped(w)
          /\ UNCHANGED <<entry, load>>
    /\ settled' = [h \in Hotel |->
          IF job[w].wrote[h] > settled[h] THEN job[w].wrote[h] ELSE settled[h]]
    /\ Go(w, "200")
    /\ UNCHANGED <<database, replica, up, job>>

-----------------------------------------------------------------------------
(* The TTL of a card ends, or Redis evicts or loses it.                     *)
Expire(h) ==
    /\ h \in DOMAIN entry
    /\ entry' = [k \in DOMAIN entry \ {h} |-> entry[k]]
    /\ UNCHANGED <<database, replica, up, pc, job, load, settled, excused>>

(* The replica replays what the primary has committed.                      *)
Replicate ==
    /\ replica' = [version |-> version, gone |-> gone]
    /\ UNCHANGED <<database, up, entry, pc, job, load, settled, excused>>

PrimaryChanges ==
    /\ "primary" \in Faults
    /\ up' = ~up
    /\ UNCHANGED <<database, replica, entry, pc, job, load, settled, excused>>

Rest ==
    /\ \A p \in Process : pc[p] \notin {"load", "store", "write", "del"}
    /\ UNCHANGED vars

Next ==
    \/ \E r \in Reader : (\E h \in Hotel : Lookup(r, h)) \/ Load(r) \/ Store(r)
    \/ \E w \in Writer :
          \/ \E op \in Op, h \in Hotel : Check(w, op, h)
          \/ \E h \in Hotel : CheckMove(w, h)
          \/ Write(w) \/ Invalidate(w)
    \/ \E h \in Hotel : Expire(h)
    \/ Replicate \/ PrimaryChanges \/ Rest

Spec == Init /\ [][Next]_vars

-----------------------------------------------------------------------------
(* Type invariant; the room is always in a hotel that exists.               *)
TypeOK ==
    /\ version \in [Hotel -> Nat]
    /\ gone \subseteq Hotel
    /\ home \in Hotel \ gone
    /\ replica \in [version : [Hotel -> Nat], gone : SUBSET Hotel]
    /\ up \in BOOLEAN
    /\ DOMAIN entry \subseteq Hotel /\ \A h \in DOMAIN entry : entry[h] \in Card
    /\ pc \in [Process -> {"idle", "load", "store", "write", "del", "hit", "miss",
                           "bypass", "200", "404", "500", "503"}]
    /\ job \in [Process -> Job]
    /\ load \in [Reader -> Card]
    /\ settled \in [Hotel -> Nat]
    /\ excused \subseteq Hotel

(* A card older than a mutation that is through is in Redis for one of four *)
(* reasons only: its load was crossed by a DEL, it was loaded from the      *)
(* replica, the DEL was lost, or a room had left a hotel its mutation did   *)
(* not know of.  Otherwise a read after a mutation shows the mutation.      *)
StaleCardHasCause ==
    \A h \in DOMAIN entry :
        entry[h].version < settled[h] =>
            ~entry[h].clean \/ entry[h].from = "replica" \/ h \in excused
=============================================================================
