------------------------------ MODULE Bookings ------------------------------
(***************************************************************************)
(* The booking requests of src/src/bookings/bookings.service.ts running    *)
(* concurrently, possibly in several API instances, against the booking    *)
(* tables of the shards.  Every action ends at an `await' of the service:  *)
(* what one request does between two awaits on a database or on Redis is   *)
(* one step, and the steps of different requests interleave.               *)
(*                                                                         *)
(* A request that only reads (GET) changes nothing and is left out; what   *)
(* such a request tells its client (which booking ids exist) is what lets  *)
(* another request name a row as soon as the row is committed.             *)
(***************************************************************************)
EXTENDS Integers, FiniteSets

CONSTANTS
    Request,      \* requests that may arrive; each is served once
    Offered,      \* the kinds of request of the workload, a subset of Op
    Bucket,       \* the hash buckets carried by every id
    ShardOf,      \* bucket map: the shard that stores a bucket
    Room,         \* the rooms, pairs <<bucket, name>>
    UnknownRoom,  \* room ids without a row, same form
    Day,          \* the dates requests use
    Seeded,       \* bookings stored before the first request, id -> row
    Retries,      \* SERIALIZATION_RETRIES
    Faults,       \* what may fail: see Fault
    Listed        \* clients learn booking ids from GET /bookings

Op == {"create", "update", "cancel", "remove", "relocate", "staff"}

(***************************************************************************)
(* "down": the database refuses a statement, nothing is written;           *)
(* "lost": a statement takes effect, but the connection breaks before the  *)
(* answer arrives and the service sees the same connection error;          *)
(* "redis": the INCR of the search version is lost; "crash": the API       *)
(* instance dies in the middle of a request; "inject": simulateFailure.    *)
(***************************************************************************)
Fault == {"down", "lost", "redis", "crash", "inject"}

Status == {"PENDING", "CONFIRMED", "CANCELLED", "COMPLETED"}

\* ACTIVE_STATUSES
Active == {"PENDING", "CONFIRMED"}

\* The bucket of an id is written in the id itself.
bucketOf(id) == id[1]

\* ShardRouter.forKey
forKey(id) == ShardOf[bucketOf(id)]

\* A row of the bookings table (price, guest and creation time left out).
Booking == [room : Room, in : Day, out : Day, status : Status]

\* What reserve() is asked to insert: the room need not exist.
Stay == [room : Room \cup UnknownRoom, in : Day, out : Day, status : Status]

Absent == [status |-> "ABSENT"]

\* idInBucket gives a fresh id in the bucket of the parent; each request
\* creates at most one row, so the request stands for the random part.
BookingId == DOMAIN Seeded \cup (Bucket \X Request)

ASSUME ParametersAssumption ==
    /\ Offered \subseteq Op
    /\ Faults \subseteq Fault
    /\ Listed \in BOOLEAN
    /\ Retries \in Nat \ {0}
    /\ Day \subseteq Int
    /\ Room \cap UnknownRoom = {}
    /\ \A room \in Room \cup UnknownRoom : bucketOf(room) \in Bucket
    /\ DOMAIN Seeded \cap (Bucket \X Request) = {}

\* Two stays of one room that share a night: the where clause of reserve().
Overlap(s, t) == s.room = t.room /\ s.in < t.out /\ s.out > t.in

\* The database the first request meets is one that earlier requests left
\* behind: rooms and bookings share a bucket, and no room is booked twice.
ASSUME SeededAssumption ==
    /\ Seeded \in [DOMAIN Seeded -> Booking]
    /\ \A b \in DOMAIN Seeded : bucketOf(Seeded[b].room) = bucketOf(b)
    /\ \A a, b \in DOMAIN Seeded :
          /\ a # b
          /\ Seeded[a].status \in Active
          /\ Seeded[b].status \in Active
          => ~Overlap(Seeded[a], Seeded[b])

-----------------------------------------------------------------------------
VARIABLES
    booking,    \* the bookings tables of all shards, one row per id or Absent
    pc,         \* where each request is in its handler
    job,        \* what each request was asked and has read so far
    attempt,    \* attempt number of serializable()
    doomed,     \* requests whose open transaction PostgreSQL will not commit
    reply,      \* HTTP status each request is going to be answered with
    stale,      \* a booking changed and the search version did not, since
    unchecked   \* history: ids made active, or moved, without an overlap check

vars == <<booking, pc, job, attempt, doomed, reply, stale, unchecked>>

NoJob == [op |-> "none"]

PatchField == {"room", "in", "out"}

(***************************************************************************)
(* op      "move" is a relocation inside one shard, "saga" one across      *)
(* id      the booking the request names (unused by create)                *)
(* stay    the row to insert, or the values of a PATCH                     *)
(* fields  the fields a PATCH carries                                      *)
(* status  the status findLocal() returned (what T3 writes)                *)
(***************************************************************************)
Job == [op : {"create", "update", "cancel", "remove", "move", "saga"},
        id : BookingId,
        stay : Stay,
        fields : SUBSET PatchField,
        status : Status]

Step == {"idle", "reserve", "commit", "write", "T2", "C1", "T3", "bump", "done"}

Code == {"none", "200", "400", "404", "409", "500", "503", "reset"}

Init ==
    /\ booking = [b \in BookingId |->
                     IF b \in DOMAIN Seeded THEN Seeded[b] ELSE Absent]
    /\ pc = [r \in Request |-> "idle"]
    /\ job = [r \in Request |-> NoJob]
    /\ attempt = [r \in Request |-> 1]
    /\ doomed = {}
    /\ reply = [r \in Request |-> "none"]
    /\ stale = FALSE
    /\ unchecked = {}

-----------------------------------------------------------------------------
Exists(b) == booking[b] # Absent

IsActive(b) == booking[b].status \in Active

\* The bookings a client can name: all rows GET /bookings lists, or else
\* those whose id an answer has carried.
Known(b) ==
    /\ Exists(b)
    /\ \/ Listed
       \/ b \in DOMAIN Seeded
       \/ \E r \in Request : r = b[2] /\ pc[r] = "done" /\ reply[r] = "200"

\* ShardRouter.childId(dto.roomId)
childId(r) == <<bucketOf(job[r].stay.room), r>>

\* excludeBookingId of reserve()
Excluded(r) == IF job[r].op = "move" THEN {job[r].id} ELSE {}

\* Mutant: a PENDING booking does not occupy the room.
ConflictsConfirmed(r) ==
    {b \in BookingId \ Excluded(r) :
        booking[b].status = "CONFIRMED" /\ Overlap(booking[b], job[r].stay)}

\* The rows reserve() finds in its snapshot.
Conflicts(r) ==
    {b \in BookingId \ Excluded(r) :
        IsActive(b) /\ Overlap(booking[b], job[r].stay)}

\* Open transactions that update row b: a serializable transaction cannot
\* update a row that anyone changed after its snapshot was taken.
Updating(b) == {q \in Request : pc[q] = "commit" /\ job[q].op = "move" /\ job[q].id = b}

\* Mutant: the default isolation level.
ReadingCommitted(r) == {}

\* Open transactions whose overlap query matches what r inserts.  Only
\* serializable transactions take part in these checks of PostgreSQL (SSI).
Reading(r) ==
    {q \in Request \ {r} :
        pc[q] = "commit" /\ Overlap(job[q].stay, job[r].stay)}

\* The request ends with an answer and without invalidateSearch().
Answer(r, code) ==
    /\ pc' = [pc EXCEPT ![r] = "done"]
    /\ reply' = [reply EXCEPT ![r] = code]

\* Go on, having settled what the answer will be.
Go(r, step, code) ==
    /\ pc' = [pc EXCEPT ![r] = step]
    /\ reply' = [reply EXCEPT ![r] = code]

\* Where the handler goes when the statement of its current step throws.
OnError(r, code) ==
    CASE pc[r] = "T2" -> Go(r, "C1", code)
      [] pc[r] = "C1" -> Go(r, "bump", reply[r])
      [] OTHER        -> Answer(r, code)

\* A statement that took effect: the service hears of it and goes on to
\* `next', or it gets a connection error instead of the result.
Heard(r, next, code) ==
    \/ Go(r, next, code)
    \/ "lost" \in Faults /\ OnError(r, "503")

Arrive(r, op, b, stay, fields, status, next) ==
    /\ job' = [job EXCEPT ![r] = [op |-> op, id |-> b, stay |-> stay,
                                  fields |-> fields, status |-> status]]
    /\ Go(r, next, "none")

-----------------------------------------------------------------------------
(* create() up to the transaction: assertGuestExists() is a read of another *)
(* database whose outcome is free here.                                     *)
Create(r) ==
    /\ pc[r] = "idle"
    /\ "create" \in Offered
    /\ \E room \in Room \cup UnknownRoom, in, out \in Day :
          \/ /\ in < out
             /\ LET stay == [room |-> room, in |-> in, out |-> out,
                             status |-> "PENDING"]
                IN  Arrive(r, "create", <<bucketOf(room), r>>, stay, {},
                           "PENDING", "reserve")
          \/ /\ out <= in
             /\ Answer(r, "400")
             /\ UNCHANGED job
    /\ UNCHANGED <<booking, attempt, doomed, stale, unchecked>>

\* Mutant: the bucket of the new room is not compared.
AnyBucket(b, fields, stay) == TRUE

\* The room a PATCH carries, if any, is in the bucket of the booking.
SameBucket(b, fields, stay) ==
    "room" \in fields => bucketOf(stay.room) = bucketOf(b)

(* update() up to findLocal(): a room of another bucket is refused; the     *)
(* fields the request leaves out keep the value just read, and are not      *)
(* written later.                                                           *)
Update(r, b) ==
    /\ pc[r] = "idle"
    /\ "update" \in Offered
    /\ Known(b)
    /\ \E fields \in SUBSET PatchField, stay \in Stay :
          /\ \A f \in (PatchField \ fields) \cup {"status"} :
                stay[f] = booking[b][f]
          /\ \/ /\ SameBucket(b, fields, stay)
                /\ Arrive(r, "update", b, stay, fields, stay.status, "write")
             \/ /\ ~SameBucket(b, fields, stay)
                /\ Answer(r, "400")
                /\ UNCHANGED job
    /\ UNCHANGED <<booking, attempt, doomed, stale, unchecked>>

(* remove() up to findLocal().                                              *)
Remove(r, b) ==
    /\ pc[r] = "idle"
    /\ "remove" \in Offered
    /\ Known(b)
    /\ Arrive(r, "remove", b, booking[b], {}, booking[b].status, "write")
    /\ UNCHANGED <<booking, attempt, doomed, stale, unchecked>>

(* cancel() up to findLocal() and the two checks of the status it returned. *)
Cancel(r, b) ==
    /\ pc[r] = "idle"
    /\ "cancel" \in Offered
    /\ Known(b)
    /\ \/ /\ IsActive(b)
          /\ Arrive(r, "cancel", b, booking[b], {}, booking[b].status, "write")
       \/ /\ ~IsActive(b)
          /\ Answer(r, "409")
          /\ UNCHANGED job
    /\ UNCHANGED <<booking, attempt, doomed, stale, unchecked>>

(* relocate() up to findLocal() and its checks; the dates and the status of *)
(* the new booking are fixed here.                                          *)
Relocate(r, b) ==
    /\ pc[r] = "idle"
    /\ "relocate" \in Offered
    /\ Known(b)
    /\ \E room \in Room \cup UnknownRoom :
          LET original == booking[b]
              local    == forKey(room) = forKey(b)
              stay     == [original EXCEPT !.room = room,
                             !.status = IF local THEN @ ELSE "PENDING"]
          IN  \/ /\ IsActive(b) /\ original.room # room
                 /\ Arrive(r, IF local THEN "move" ELSE "saga", b, stay, {},
                           original.status, "reserve")
              \/ /\ ~IsActive(b)
                 /\ Answer(r, "409")
                 /\ UNCHANGED job
              \/ /\ IsActive(b) /\ original.room = room
                 /\ Answer(r, "400")
                 /\ UNCHANGED job
    /\ UNCHANGED <<booking, attempt, doomed, stale, unchecked>>

-----------------------------------------------------------------------------
\* Mutant: the catch block of T1 does not rethrow.
ReserveGoOn(r) ==
    /\ pc[r] = "reserve"
    /\ IF job[r].stay.room \in Room /\ Conflicts(r) = {}
       THEN Go(r, "commit", "none") /\ doomed' = doomed \ {r}
       ELSE Go(r, "T2", "none") /\ UNCHANGED doomed
    /\ UNCHANGED <<booking, job, attempt, stale, unchecked>>

(* serializable(reserve): the transaction takes its snapshot, looks for the *)
(* room and for an overlapping active booking.                              *)
Reserve(r) ==
    /\ pc[r] = "reserve"
    /\ \/ /\ job[r].stay.room \notin Room
          /\ Answer(r, "404")
          /\ UNCHANGED doomed
       \/ /\ job[r].stay.room \in Room
          /\ Conflicts(r) # {}
          /\ Answer(r, "409")
          /\ UNCHANGED doomed
       \/ /\ job[r].stay.room \in Room
          /\ Conflicts(r) = {}
          /\ Go(r, "commit", "none")
          /\ doomed' = doomed \ {r}
    /\ UNCHANGED <<booking, job, attempt, stale, unchecked>>

(* The transaction commits: the insert and, for a relocation inside one     *)
(* shard, the cancellation of the old row become visible together.  The     *)
(* update of a row that is gone throws (P2025) and rolls everything back.   *)
Commit(r) ==
    /\ pc[r] = "commit"
    /\ r \notin doomed
    /\ \/ /\ job[r].op = "move" => Exists(job[r].id)
          /\ booking' = [b \in BookingId |->
                CASE b = childId(r) -> job[r].stay
                  [] b # childId(r) /\ b \in Excluded(r) ->
                        [booking[b] EXCEPT !.status = "CANCELLED"]
                  [] OTHER -> booking[b]]
          /\ doomed' = doomed \cup Reading(r)
                        \cup UNION {Updating(b) \ {r} : b \in Excluded(r)}
          /\ stale' = TRUE
          /\ Heard(r, IF job[r].op = "saga" THEN "T2" ELSE "bump",
                      IF job[r].op = "saga" THEN "none" ELSE "200")
       \/ /\ job[r].op = "move" /\ ~Exists(job[r].id)
          /\ Answer(r, "500")
          /\ UNCHANGED <<booking, doomed, stale>>
    /\ UNCHANGED <<job, attempt, unchecked>>

\* Mutant: one attempt too many.
AbortOnceMore(r) ==
    /\ pc[r] = "commit"
    /\ doomed' = doomed \ {r}
    /\ \/ /\ attempt[r] <= Retries
          /\ attempt' = [attempt EXCEPT ![r] = @ + 1]
          /\ Go(r, "reserve", "none")
       \/ /\ attempt[r] > Retries
          /\ Answer(r, "409")
          /\ UNCHANGED attempt
    /\ UNCHANGED <<booking, job, stale, unchecked>>

\* Mutant: the attempts are not counted.
AbortUncounted(r) ==
    /\ pc[r] = "commit"
    /\ doomed' = doomed \ {r}
    /\ Go(r, "reserve", "none")
    /\ UNCHANGED <<booking, job, attempt, stale, unchecked>>

(* P2034.  PostgreSQL must abort a doomed transaction and may abort any     *)
(* other one (predicate locks on whole pages); the service tries again.     *)
Abort(r) ==
    /\ pc[r] = "commit"
    /\ doomed' = doomed \ {r}
    /\ \/ /\ attempt[r] < Retries
          /\ attempt' = [attempt EXCEPT ![r] = @ + 1]
          /\ Go(r, "reserve", "none")
       \/ /\ attempt[r] >= Retries
          /\ Answer(r, "409")
          /\ UNCHANGED attempt
    /\ UNCHANGED <<booking, job, stale, unchecked>>

-----------------------------------------------------------------------------
\* A single-statement write of row b: Read Committed, it waits for no
\* check and is invisible to SSI, but it dooms transactions updating b.
Put(b, row) ==
    /\ booking' = [booking EXCEPT ![b] = row]
    /\ doomed' = doomed \cup Updating(b)

(* db.booking.update of PATCH: writes the fields it carries and nothing     *)
(* else is looked at; a missing row or room makes Prisma throw.             *)
UpdateWrite(r) ==
    LET b == job[r].id
        patched == [f \in {"room", "in", "out", "status"} |->
                       IF f \in job[r].fields THEN job[r].stay[f]
                                              ELSE booking[b][f]]
    IN  /\ pc[r] = "write" /\ job[r].op = "update"
        /\ \/ /\ Exists(b)
              /\ "room" \in job[r].fields => job[r].stay.room \in Room
              /\ Put(b, patched)
              /\ stale' = TRUE
              /\ unchecked' = IF job[r].fields = {} THEN unchecked
                                                    ELSE unchecked \cup {b}
              /\ Heard(r, "bump", "200")
           \/ /\ \/ ~Exists(b)
                 \/ "room" \in job[r].fields /\ job[r].stay.room \notin Room
              /\ Answer(r, "500")
              /\ UNCHANGED <<booking, doomed, stale, unchecked>>
        /\ UNCHANGED <<job, attempt>>

(* db.booking.delete of remove().                                           *)
RemoveWrite(r) ==
    LET b == job[r].id
    IN  /\ pc[r] = "write" /\ job[r].op = "remove"
        /\ \/ /\ Exists(b)
              /\ Put(b, Absent)
              /\ stale' = TRUE
              /\ Heard(r, "bump", "200")
           \/ /\ ~Exists(b)
              /\ Answer(r, "500")
              /\ UNCHANGED <<booking, doomed, stale>>
        /\ UNCHANGED <<job, attempt, unchecked>>

(* db.booking.update of cancel(): whatever the status is by now.            *)
CancelWrite(r) ==
    LET b == job[r].id
    IN  /\ pc[r] = "write" /\ job[r].op = "cancel"
        /\ \/ /\ Exists(b)
              /\ Put(b, [booking[b] EXCEPT !.status = "CANCELLED"])
              /\ stale' = TRUE
              /\ Heard(r, "bump", "200")
           \/ /\ ~Exists(b)
              /\ Answer(r, "500")
              /\ UNCHANGED <<booking, doomed, stale>>
        /\ UNCHANGED <<job, attempt, unchecked>>

-----------------------------------------------------------------------------
(* T2: cancel the old booking on its shard, only if it is still active.     *)
CancelOriginal(r) ==
    LET b == job[r].id
    IN  /\ pc[r] = "T2"
        /\ \/ /\ IsActive(b)
              /\ Put(b, [booking[b] EXCEPT !.status = "CANCELLED"])
              /\ stale' = TRUE
              /\ Heard(r, "T3", "none")
           \/ /\ ~IsActive(b)
              /\ Go(r, "C1", "409")
              /\ UNCHANGED <<booking, doomed, stale>>
        /\ UNCHANGED <<job, attempt, unchecked>>

\* Mutant: C1 looks for the status the booking will have after T3.
CompensateNothing(r) ==
    /\ pc[r] = "C1"
    /\ Go(r, "bump", reply[r])
    /\ UNCHANGED <<booking, job, attempt, doomed, stale, unchecked>>

\* Mutant: no invalidateSearch() on the way out of an aborted saga.
CompensateSilently(r) ==
    LET b == childId(r)
    IN  /\ pc[r] = "C1"
        /\ booking[b].status = "PENDING"
        /\ Put(b, [booking[b] EXCEPT !.status = "CANCELLED"])
        /\ stale' = TRUE
        /\ Answer(r, reply[r])
        /\ UNCHANGED <<job, attempt, unchecked>>

\* Mutant: nothing is thrown after C1.
CompensateGoOn(r) ==
    LET b == childId(r)
    IN  /\ pc[r] = "C1"
        /\ booking[b].status = "PENDING"
        /\ Put(b, [booking[b] EXCEPT !.status = "CANCELLED"])
        /\ stale' = TRUE
        /\ Go(r, "T3", "none")
        /\ UNCHANGED <<job, attempt, unchecked>>

(* C1: undo T1, only if the reservation is still PENDING.                   *)
Compensate(r) ==
    LET b == childId(r)
    IN  /\ pc[r] = "C1"
        /\ \/ /\ booking[b].status = "PENDING"
              /\ Put(b, [booking[b] EXCEPT !.status = "CANCELLED"])
              /\ stale' = TRUE
           \/ /\ booking[b].status # "PENDING"
              /\ UNCHANGED <<booking, doomed, stale>>
        /\ Go(r, "bump", reply[r])
        /\ UNCHANGED <<job, attempt, unchecked>>

(* T3: give the reservation the status the old booking was read with,       *)
(* whatever its status is by now.                                           *)
SetStatus(r) ==
    LET b == childId(r)
    IN  /\ pc[r] = "T3"
        /\ \/ /\ Exists(b)
              /\ Put(b, [booking[b] EXCEPT !.status = job[r].status])
              /\ stale' = TRUE
              /\ unchecked' = IF IsActive(b) THEN unchecked
                                             ELSE unchecked \cup {b}
              /\ Heard(r, "bump", "200")
           \/ /\ ~Exists(b)
              /\ Answer(r, "500")
              /\ UNCHANGED <<booking, doomed, stale, unchecked>>
        /\ UNCHANGED <<job, attempt>>

(* invalidateSearch(): an error of Redis is swallowed.                      *)
Bump(r) ==
    /\ pc[r] = "bump"
    /\ Answer(r, reply[r])
    /\ \/ stale' = FALSE
       \/ "redis" \in Faults /\ UNCHANGED stale
    /\ UNCHANGED <<booking, job, attempt, doomed, unchecked>>

-----------------------------------------------------------------------------
(* The database cannot be reached (or, before T2, simulateFailure): the     *)
(* statement has no effect and the service gets an error.                   *)
Unreachable(r) ==
    /\ \/ "down" \in Faults /\ pc[r] \in {"reserve", "commit", "write", "T2", "C1", "T3"}
       \/ "inject" \in Faults /\ pc[r] = "T2"
    /\ OnError(r, IF pc[r] = "T2" /\ "down" \notin Faults THEN "409" ELSE "503")
    /\ doomed' = doomed \ {r}
    /\ UNCHANGED <<booking, job, attempt, stale, unchecked>>

(* The API instance dies; an open transaction is rolled back, and nothing   *)
(* remembers where the request was.                                         *)
Crash(r) ==
    /\ "crash" \in Faults
    /\ pc[r] \notin {"idle", "done"}
    /\ Answer(r, "reset")
    /\ doomed' = doomed \ {r}
    /\ UNCHANGED <<booking, job, attempt, stale, unchecked>>

(* No request sets CONFIRMED or COMPLETED; the service reads both, so       *)
(* something outside it (the front desk) is allowed to.                     *)
FrontDesk(b) ==
    /\ "staff" \in Offered
    /\ IsActive(b)
    /\ Put(b, [booking[b] EXCEPT !.status =
                  IF @ = "PENDING" THEN "CONFIRMED" ELSE "COMPLETED"])
    /\ UNCHANGED <<pc, job, attempt, reply, stale, unchecked>>

Quiet == \A r \in Request : pc[r] \in {"idle", "done"}

\* Nothing left to do: the only state in which the model may stop.
Rest == Quiet /\ UNCHANGED vars

-----------------------------------------------------------------------------
Arrival(r) ==
    \/ Create(r)
    \/ \E b \in BookingId :
          Update(r, b) \/ Remove(r, b) \/ Cancel(r, b) \/ Relocate(r, b)

Progress(r) ==
    \/ Reserve(r) \/ Commit(r) \/ Abort(r)
    \/ UpdateWrite(r) \/ RemoveWrite(r) \/ CancelWrite(r)
    \/ CancelOriginal(r) \/ Compensate(r) \/ SetStatus(r)
    \/ Bump(r)

Next ==
    \/ \E r \in Request :
          Arrival(r) \/ Progress(r) \/ Unreachable(r) \/ Crash(r)
    \/ \E b \in BookingId : FrontDesk(b)
    \/ Rest

Spec == Init /\ [][Next]_vars

\* Node.js runs every continuation that is ready, and every statement sent
\* to a database or to Redis is answered or times out; clients owe nothing.
FairSpec == Spec /\ \A r \in Request : WF_vars(Progress(r))
-----------------------------------------------------------------------------
(* Type invariant: rows keep the columns and values of schema.prisma, every *)
(* request is at a step of its handler, and serializable() makes at most    *)
(* SERIALIZATION_RETRIES attempts.                                          *)
TypeOK ==
    /\ booking \in [BookingId -> Booking \cup {Absent}]
    /\ pc \in [Request -> Step]
    /\ job \in [Request -> Job \cup {NoJob}]
    /\ attempt \in [Request -> 1 .. Retries]
    /\ doomed \subseteq Request
    /\ reply \in [Request -> Code]
    /\ stale \in BOOLEAN
    /\ unchecked \subseteq BookingId

\* a and b are two active bookings of one room that share a night.
DoubleBooked(a, b) ==
    /\ a # b
    /\ IsActive(a)
    /\ IsActive(b)
    /\ Overlap(booking[a], booking[b])

(* However requests, retries, sagas, failures and crashes interleave, the   *)
(* serializable check-and-insert of reserve() never double-books a room:    *)
(* two active bookings that overlap involve one that PATCH moved, or that   *)
(* T3 of a saga brought back, without looking for an overlap.               *)
OverlapOnlyUnchecked ==
    \A a, b \in BookingId :
        DoubleBooked(a, b) => a \in unchecked \/ b \in unchecked

(* README.md:162: a room has no two overlapping active bookings.            *)
NoDoubleBooking == \A a, b \in BookingId : ~DoubleBooked(a, b)

(* A booking's id carries the bucket of its room, so that the room and all  *)
(* its bookings are rows of one shard and one local transaction sees them;  *)
(* PATCH and relocate() keep it so.                                         *)
Colocated ==
    \A b \in BookingId :
        Exists(b) => bucketOf(booking[b].room) = bucketOf(b)

(* A booking that is cancelled (or completed) never becomes active again:   *)
(* its nights have been offered to others.                                  *)
EndedStaysEnded ==
    [][\A b \in BookingId :
          Exists(b) /\ ~IsActive(b) => ~(IsActive(b))']_vars

\* An API instance has died while it served a request.
AnyDied == \E r \in Request : reply[r] = "reset"

(* When a booking has changed and the search version has not, some request  *)
(* is still on its way to invalidateSearch(), or died on it: no change of   *)
(* availability is left for the cached searches to show as it was.          *)
ChangeIsAnnounced ==
    stale /\ ~AnyDied => \E r \in Request : pc[r] \in {"bump", "T2", "C1", "T3"}

Stays == {b \in BookingId : IsActive(b)}

\* A seeded stay is one a guest held before the first request.
SeededStays == {b \in DOMAIN Seeded : Seeded[b].status \in Active}

(* In a workload of relocations a guest who holds a booking holds one at    *)
(* every moment: T2 gives the old room up only after T1 got the new one.    *)
StayNeverLost == Cardinality(Stays) >= Cardinality(SeededStays)

(* ... and holds exactly one when every relocation has been answered: of    *)
(* concurrent sagas for one booking the conditional T2 lets one through and *)
(* C1 takes back the reservations of the others.  (A saga that died may     *)
(* leave both bookings.)                                                    *)
StayConserved ==
    Quiet /\ ~AnyDied => Cardinality(Stays) = Cardinality(SeededStays)

(* Every request that arrives is answered: serializable() gives up after    *)
(* its attempts, and no request waits for another one.                      *)
RequestsAreAnswered ==
    \A r \in Request : pc[r] # "idle" ~> pc[r] = "done"

-----------------------------------------------------------------------------
(***************************************************************************)
(* The calendar the tables stand for: the active bookings.                 *)
(***************************************************************************)
CalendarEntry == [id : BookingId, room : Room, in : Day, out : Day]

InForce ==
    {[id |-> b, room |-> booking[b].room, in |-> booking[b].in,
      out |-> booking[b].out] : b \in {c \in BookingId : IsActive(c)}}

Calendar == INSTANCE RoomCalendar WITH Entry <- CalendarEntry, taken <- InForce

(* The tables, written by transactions, retries and sagas of many requests, *)
(* change as a calendar may: intervals are taken when free, released, or    *)
(* moved, one at a time, and never changed in place.                        *)
ImplementsCalendar == Calendar!Spec
=============================================================================
