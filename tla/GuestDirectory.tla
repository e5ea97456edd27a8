--------------------------- MODULE GuestDirectory ---------------------------
(***************************************************************************)
(* Guests, and the bookings that name them.  The guests are rows of the    *)
(* global database node, their bookings are rows of the shards, and no     *)
(* foreign key joins them: GuestsService.remove() asks every shard,        *)
(* BookingsService asks the global node before it writes.                  *)
(*                                                                         *)
(* Of a guest only the email is kept, of a booking its shard and its guest. *)
(* A cancelled one still counts: the queries of remove() and findBookings() *)
(* have no condition on the status.                                        *)
(***************************************************************************)
EXTENDS Integers, FiniteSets

CONSTANTS
    Email,
    Guest,     \* guests stored before the first request: id -> email
    Shard,
    Remover,   \* requests that ask every shard, each served once
    Writer,    \* the others, each served once, each adds at most one row
    Seeded,    \* bookings stored before the first request: id -> row
    Outages    \* shards that may stop and start answering

VARIABLES
    guest,     \* the guests table: stored ids -> email
    booking,   \* rows of the bookings tables, one per id or Absent
    up,        \* shards that answer
    pc, job,
    count,     \* fan-outs: how many bookings each shard has answered
    failed,    \* fan-outs: the shards that did not answer
    held,      \* history: bookings of the guest ever since the fan-out began
    touched    \* history: registrations since whose check guests have changed

vars == <<guest, booking, up, pc, job, count, failed, held, touched>>
history == <<held, touched>>

GuestId == DOMAIN Guest \cup Writer

Booking == [shard : Shard, guest : GuestId]

Absent == [shard |-> "none"]

BookingId == DOMAIN Seeded \cup Writer

ASSUME GuestAssumption ==
    /\ IsFiniteSet(BookingId)
    /\ Outages \subseteq Shard
    /\ Remover \cap Writer = {}
    /\ DOMAIN Seeded \cap Writer = {}
    /\ DOMAIN Guest \cap Writer = {}
    /\ Guest \in [DOMAIN Guest -> Email]
    /\ \A g, h \in DOMAIN Guest : Guest[g] = Guest[h] => g = h
    /\ Seeded \in [DOMAIN Seeded -> [shard : Shard, guest : DOMAIN Guest]]

\* What a request was asked, and what it has read of it.
Job == [op : {"none"}]
       \cup [op : {"remove", "list"}, guest : GuestId]
       \cup [op : {"register"}, email : Email]
       \cup [op : {"change"}, guest : GuestId, email : Email]
       \cup [op : {"create"}, guest : GuestId, shard : Shard]
       \cup [op : {"patch"}, id : BookingId, guest : GuestId]
       \cup [op : {"delete"}, id : BookingId]
       \cup [op : {"move", "saga"}, from : BookingId, guest : GuestId, shard : Shard]

Init ==
    /\ guest = Guest
    /\ booking = [b \in BookingId |->
                     IF b \in DOMAIN Seeded THEN Seeded[b] ELSE Absent]
    /\ up = Shard
    /\ pc = [q \in Remover \cup Writer |-> "idle"]
    /\ job = [q \in Remover \cup Writer |-> [op |-> "none"]]
    /\ count = [r \in Remover |-> [s \in {} |-> 0]]
    /\ failed = [r \in Remover |-> {}]
    /\ held = [r \in Remover |-> {}]
    /\ touched = {}

-----------------------------------------------------------------------------
Exists(b) == booking[b] # Absent

BookingsOf(g) == {b \in BookingId : Exists(b) /\ booking[b].guest = g}

Begin(q, what, next) ==
    /\ pc[q] = "idle"
    /\ job' = [job EXCEPT ![q] = what]
    /\ pc' = [pc EXCEPT ![q] = next]

End(q, code) == pc' = [pc EXCEPT ![q] = code]

\* A bookings table changes; a fan-out under way loses from sight what is gone.
Write(table) ==
    /\ booking' = table
    /\ held' = [r \in Remover |->
          {b \in held[r] : table[b] # Absent /\ table[b].guest = job[r].guest}]
    /\ UNCHANGED touched

\* The guests table changes.
WriteGuests(table) ==
    /\ guest' = table
    /\ touched' = touched \cup {q \in Writer : pc[q] = "insert"}
    /\ UNCHANGED held

With(table, id, email) ==
    [g \in DOMAIN table \cup {id} |-> IF g = id THEN email ELSE table[g]]

Taken(email, except) == \E g \in DOMAIN guest \ {except} : guest[g] = email

-----------------------------------------------------------------------------
\* Mutant: the email is not looked for.
RegisterUnseen(q, email) ==
    /\ Begin(q, [op |-> "register", email |-> email], "insert")
    /\ UNCHANGED <<guest, booking, up, count, failed, history>>

(* create() of a guest: the email is looked for on the primary.             *)
Register(q, email) ==
    /\ pc[q] = "idle"
    /\ \/ ~Taken(email, q) /\ Begin(q, [op |-> "register", email |-> email], "insert")
       \/ Taken(email, q) /\ End(q, "409") /\ UNCHANGED job
    /\ UNCHANGED <<guest, booking, up, count, failed, history>>

(* guest.create; the unique index refuses an email that is taken by now.    *)
InsertGuest(q) ==
    /\ pc[q] = "insert"
    /\ IF Taken(job[q].email, q) THEN End(q, "500") /\ UNCHANGED <<guest, history>>
       ELSE End(q, "200") /\ WriteGuests(With(guest, q, job[q].email))
    /\ UNCHANGED <<booking, up, job, count, failed>>

(* update() of a guest up to findOne(), a read of the primary.              *)
Change(q, g, email) ==
    /\ pc[q] = "idle"
    /\ \/ /\ g \in DOMAIN guest
          /\ Begin(q, [op |-> "change", guest |-> g, email |-> email], "update")
       \/ g \notin DOMAIN guest /\ End(q, "404") /\ UNCHANGED job
    /\ UNCHANGED <<guest, booking, up, count, failed, history>>

(* guest.update; nothing has looked for the email.                          *)
UpdateGuest(q) ==
    /\ pc[q] = "update"
    /\ LET g == job[q].guest
       IN  IF g \in DOMAIN guest /\ ~Taken(job[q].email, g)
           THEN End(q, "200") /\ WriteGuests(With(guest, g, job[q].email))
           ELSE End(q, "500") /\ UNCHANGED <<guest, history>>
    /\ UNCHANGED <<booking, up, job, count, failed>>

-----------------------------------------------------------------------------
FanOut(r, op, g) ==
    /\ Begin(r, [op |-> op, guest |-> g], "count")
    /\ held' = [held EXCEPT ![r] = BookingsOf(g)]

(* remove() up to findOne(), a read of the primary.                         *)
Remove(r, g) ==
    /\ pc[r] = "idle"
    /\ \/ g \in DOMAIN guest /\ FanOut(r, "remove", g)
       \/ g \notin DOMAIN guest /\ End(r, "404") /\ UNCHANGED <<job, held>>
    /\ UNCHANGED <<guest, booking, up, count, failed, touched>>

(* findBookings() up to findOne(), which the replica may answer: a guest    *)
(* who is new may be missing there, and one who is gone may be found.       *)
List(r, g) ==
    /\ pc[r] = "idle"
    /\ \/ FanOut(r, "list", g)
       \/ /\ ~(g \in DOMAIN guest /\ g \in DOMAIN Guest)
          /\ End(r, "404")
          /\ UNCHANGED <<job, held>>
    /\ UNCHANGED <<guest, booking, up, count, failed, touched>>

\* Mutant: a shard that failed is asked once more.
CountAgain(r, s) ==
    /\ pc[r] = "count"
    /\ s \notin DOMAIN count[r]
    /\ \/ /\ s \in up
          /\ count' = [count EXCEPT ![r] = [t \in DOMAIN @ \cup {s} |->
                IF t = s THEN Cardinality({b \in BookingsOf(job[r].guest) :
                                               booking[b].shard = s})
                         ELSE @[t]]]
          /\ UNCHANGED failed
       \/ /\ s \notin up
          /\ failed' = [failed EXCEPT ![r] = @ \cup {s}]
          /\ UNCHANGED count
    /\ UNCHANGED <<guest, booking, up, pc, job, history>>

(* The fan-out of booking.count or booking.findMany: the shards answer one  *)
(* by one.                                                                  *)
Count(r, s) ==
    /\ pc[r] = "count"
    /\ s \notin DOMAIN count[r] \cup failed[r]
    /\ \/ /\ s \in up
          /\ count' = [count EXCEPT ![r] = [t \in DOMAIN @ \cup {s} |->
                IF t = s THEN Cardinality({b \in BookingsOf(job[r].guest) :
                                               booking[b].shard = s})
                         ELSE @[t]]]
          /\ UNCHANGED failed
       \/ /\ s \notin up
          /\ failed' = [failed EXCEPT ![r] = @ \cup {s}]
          /\ UNCHANGED count
    /\ UNCHANGED <<guest, booking, up, pc, job, history>>

Settled(r) == DOMAIN count[r] \cup failed[r] = Shard

Counted(r) == \E s \in DOMAIN count[r] : count[r][s] > 0

\* Mutant: the fan-out is run with allowPartial.
DecideOnPart(r) ==
    /\ pc[r] = "count"
    /\ job[r].op = "remove"
    /\ Settled(r)
    /\ \/ Counted(r) /\ End(r, "409")
       \/ ~Counted(r) /\ End(r, "delete")
    /\ UNCHANGED <<guest, booking, up, job, count, failed, history>>

(* Every shard has answered or failed: one failure is a 503, one booking a  *)
(* 409, and otherwise the row is going to be deleted.                       *)
Decide(r) ==
    /\ pc[r] = "count"
    /\ job[r].op = "remove"
    /\ Settled(r)
    /\ \/ failed[r] # {} /\ End(r, "503")
       \/ failed[r] = {} /\ Counted(r) /\ End(r, "409")
       \/ failed[r] = {} /\ ~Counted(r) /\ End(r, "delete")
    /\ UNCHANGED <<guest, booking, up, job, count, failed, history>>

\* Mutant: the list is given as soon as one shard has answered.
ReplyFirst(r) ==
    /\ pc[r] = "count"
    /\ job[r].op = "list"
    /\ DOMAIN count[r] # {}
    /\ End(r, "200")
    /\ UNCHANGED <<guest, booking, up, job, count, failed, history>>

(* allowPartial: the list has what the shards that answered have.           *)
Reply(r) ==
    /\ pc[r] = "count"
    /\ job[r].op = "list"
    /\ Settled(r)
    /\ End(r, "200")
    /\ UNCHANGED <<guest, booking, up, job, count, failed, history>>

(* guest.delete on the primary; a row that is gone makes Prisma throw.      *)
Delete(r) ==
    /\ pc[r] = "delete"
    /\ LET g == job[r].guest
       IN  IF g \in DOMAIN guest
           THEN End(r, "200") /\ WriteGuests([h \in DOMAIN guest \ {g} |-> guest[h]])
           ELSE End(r, "500") /\ UNCHANGED <<guest, history>>
    /\ UNCHANGED <<booking, up, job, count, failed>>

-----------------------------------------------------------------------------
(* create() up to the transaction: assertGuestExists().                     *)
Create(q, g, s) ==
    /\ pc[q] = "idle"
    /\ \/ /\ g \in DOMAIN guest
          /\ Begin(q, [op |-> "create", guest |-> g, shard |-> s], "write")
       \/ g \notin DOMAIN guest /\ End(q, "404") /\ UNCHANGED job
    /\ UNCHANGED <<guest, booking, up, count, failed, history>>

(* update() with a guestId, up to the write.                                *)
Patch(q, b, g) ==
    /\ pc[q] = "idle"
    /\ Exists(b)
    /\ \/ g \in DOMAIN guest /\ Begin(q, [op |-> "patch", id |-> b, guest |-> g], "write")
       \/ g \notin DOMAIN guest /\ End(q, "404") /\ UNCHANGED job
    /\ UNCHANGED <<guest, booking, up, count, failed, history>>

(* remove() of a booking, up to the write.                                  *)
Withdraw(q, b) ==
    /\ Exists(b)
    /\ Begin(q, [op |-> "delete", id |-> b], "write")
    /\ UNCHANGED <<guest, booking, up, count, failed, history>>

(* relocate() up to the reservation: the guest of the old row is taken over *)
(* and not looked up.                                                       *)
Relocate(q, b, s) ==
    /\ Exists(b)
    /\ Begin(q, [op |-> IF s = booking[b].shard THEN "move" ELSE "saga",
                 from |-> b, guest |-> booking[b].guest, shard |-> s], "write")
    /\ UNCHANGED <<guest, booking, up, count, failed, history>>

(* The insert of create() and of T1.  Inside one shard the cancellation of  *)
(* the old row throws when the row is gone and takes the insert back.       *)
Insert(q) ==
    /\ pc[q] = "write"
    /\ job[q].op \in {"create", "move", "saga"}
    /\ job[q].op = "move" => Exists(job[q].from)
    /\ job[q].shard \in up
    /\ Write([booking EXCEPT ![q] = [shard |-> job[q].shard, guest |-> job[q].guest]])
    /\ End(q, "200")
    /\ UNCHANGED <<guest, up, job, count, failed>>

Reassign(q) ==
    /\ pc[q] = "write"
    /\ job[q].op = "patch"
    /\ Exists(job[q].id)
    /\ booking[job[q].id].shard \in up
    /\ Write([booking EXCEPT ![job[q].id].guest = job[q].guest])
    /\ End(q, "200")
    /\ UNCHANGED <<guest, up, job, count, failed>>

Erase(q) ==
    /\ pc[q] = "write"
    /\ job[q].op = "delete"
    /\ Exists(job[q].id)
    /\ booking[job[q].id].shard \in up
    /\ Write([booking EXCEPT ![job[q].id] = Absent])
    /\ End(q, "200")
    /\ UNCHANGED <<guest, up, job, count, failed>>

(* The room is taken, the row is gone, the shard is down or the global node *)
(* read-only: an error, and nothing is written.                             *)
Refuse(q) ==
    /\ pc[q] \in {"write", "insert", "update", "delete"}
    /\ End(q, "refused")
    /\ UNCHANGED <<guest, booking, up, job, count, failed, history>>

ShardChanges(s) ==
    /\ up' = IF s \in up THEN up \ {s} ELSE up \cup {s}
    /\ UNCHANGED <<guest, booking, pc, job, count, failed, history>>

Rest ==
    /\ \A q \in Remover \cup Writer : pc[q] \notin {"count", "delete", "write", "insert", "update"}
    /\ UNCHANGED vars

Next ==
    \/ \E r \in Remover :
          \/ \E g \in DOMAIN Guest \cup DOMAIN guest : Remove(r, g) \/ List(r, g)
          \/ \E s \in Shard : Count(r, s)
          \/ Decide(r) \/ Delete(r) \/ Reply(r)
    \/ \E q \in Writer :
          \/ \E email \in Email : Register(q, email)
          \/ \E g \in DOMAIN Guest \cup DOMAIN guest :
                \/ \E email \in Email : Change(q, g, email)
                \/ \E s \in Shard : Create(q, g, s)
                \/ \E b \in BookingId : Patch(q, b, g)
          \/ \E b \in BookingId : Withdraw(q, b) \/ \E s \in Shard : Relocate(q, b, s)
          \/ InsertGuest(q) \/ UpdateGuest(q)
          \/ Insert(q) \/ Reassign(q) \/ Erase(q)
    \/ \E q \in Remover \cup Writer : Refuse(q)
    \/ \E s \in Outages : ShardChanges(s)
    \/ Rest

Spec == Init /\ [][Next]_vars

-----------------------------------------------------------------------------
(* Type invariant.  A shard answers a fan-out or fails it, never both, and  *)
(* no two guests have one email.                                            *)
TypeOK ==
    /\ DOMAIN guest \subseteq GuestId
    /\ \A g \in DOMAIN guest : guest[g] \in Email /\ ~Taken(guest[g], g)
    /\ booking \in [BookingId -> Booking \cup {Absent}]
    /\ up \subseteq Shard
    /\ pc \in [Remover \cup Writer -> {"idle", "count", "delete", "write", "insert", "update",
                                       "200", "404", "409", "500", "503", "refused"}]
    /\ job \in [Remover \cup Writer -> Job]
    /\ \A r \in Remover :
          /\ failed[r] \subseteq Shard
          /\ DOMAIN count[r] \subseteq Shard \ failed[r]
          /\ \A s \in DOMAIN count[r] : count[r][s] \in Nat
    /\ held \in [Remover -> SUBSET BookingId]
    /\ touched \subseteq Writer

(* A removal never deletes a guest who has had one and the same booking     *)
(* from the moment the removal began, whichever shards were down, and while *)
(* other bookings of the guest were made, moved, handed over and deleted:   *)
(* the count of its shard, taken somewhere in between, includes it.         *)
BookedGuestIsKept ==
    [][\A r \in Remover :
          pc[r] = "delete" /\ (pc[r])' = "200" => held[r] = {}]_vars

(* The history of a guest shows every booking the guest has had from the    *)
(* beginning of the request to its answer on a shard that has answered,     *)
(* while sagas move others between the shards (guests.service.ts:77-80).    *)
HistoryIsWhole ==
    [][\A r \in Remover :
          pc[r] = "count" /\ job[r].op = "list" /\ (pc[r])' = "200" =>
             \A s \in {booking[b].shard : b \in held[r]} \ failed[r] :
                /\ s \in DOMAIN count[r]
                /\ count[r][s] >= Cardinality({b \in held[r] : booking[b].shard = s})]_vars

(* POST of a guest answers 500 only in a race: the email is looked for, and *)
(* the answer to one that is taken is 409 (guests.controller.ts:15).        *)
OnlyRacesAre500 ==
    [][\A q \in Writer :
          pc[q] = "insert" /\ (pc[q])' = "500" => q \in touched]_vars

(* docs/LAB7.md:142-144: the application checks the integrity the foreign   *)
(* key gave before; every booking's guest exists.                           *)
NoDanglingGuest ==
    \A b \in BookingId : Exists(b) => booking[b].guest \in DOMAIN guest
=============================================================================
