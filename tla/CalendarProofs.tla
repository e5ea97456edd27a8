--------------------------- MODULE CalendarProofs ---------------------------
(***************************************************************************)
(* Two workloads, for every number of requests, rooms, buckets and shards. *)
(* That of the run `calendar': bookings are made, cancelled, deleted and   *)
(* relocated, and nobody names a reservation before the request that makes *)
(* it is answered.  There the tables implement RoomCalendar.  That of the  *)
(* run `sagas': bookings are relocated, and as many guests have a booking  *)
(* afterwards as before.                                                   *)
(***************************************************************************)
EXTENDS BookingsProofs, FiniteSetTheorems

Private == {"update", "staff"} \cap Offered = {} /\ ~Listed

-----------------------------------------------------------------------------
(***************************************************************************)
(* Why T3 finds its reservation: the only row a request writes whose id no *)
(* answer has carried is the one it makes itself.                          *)
(***************************************************************************)
Own(r) == Bucket \X {r}

\* b was there before the first request, or its request is through.
Named(b) == b \in DOMAIN Seeded \/ \E q \in Request : b \in Own(q) /\ pc[q] = "done"

UnderWay(r) == pc[r] \notin {"idle", "done"}

InSaga(r) == pc[r] \in {"T2", "C1", "T3"}

Settled(r) ==
    /\ UnderWay(r) => job[r].op # "update" /\ (job[r].op = "create" \/ Named(job[r].id))
    /\ pc[r] \in {"reserve", "commit"} => job[r].stay.status \in Active
    /\ UnderWay(r) /\ job[r].op = "saga" =>
          job[r].stay.status = "PENDING" /\ job[r].status \in Active
    /\ pc[r] \in {"idle", "reserve", "commit"} => \A b \in Own(r) : booking[b] = Absent
    /\ InSaga(r) => job[r].op = "saga" /\ booking[childId(r)].status = "PENDING"

PInv == IInv /\ unchecked = {} /\ \A r \in Request : Settled(r)

\* What has been answered is not the row of a request under way.
LEMMA NamedApart ==
    ASSUME NEW b, Named(b), NEW q \in Request, pc[q] # "done"
    PROVE  b \notin Own(q)
BY ParametersAssumption DEF Named, Own

\* A client that knows only answers names what is through.
LEMMA KnownIsNamed ==
    ASSUME Private, NEW b \in BookingId, Known(b)
    PROVE  Named(b)
<1>1. b \in DOMAIN Seeded \/ b \in Bucket \X Request
  BY DEF BookingId
<1>2. CASE b \in DOMAIN Seeded
  BY <1>2 DEF Named
<1>3. CASE b \notin DOMAIN Seeded
  <2>1. PICK q \in Request : q = b[2] /\ pc[q] = "done"
    BY <1>3 DEF Known, Private
  <2>2. b \in Own(q)
    BY <1>1, <1>3, <2>1 DEF Own
  <2> QED
    BY <2>1, <2>2 DEF Named
<1> QED
  BY <1>2, <1>3

\* The id a request makes is its own.
LEMMA ChildIsOwn ==
    ASSUME NEW r \in Request, job[r] \in Job
    PROVE  childId(r) \in Own(r) /\ childId(r) \in BookingId
BY ParametersAssumption, ChildId DEF Job, Stay, childId, Own, bucketOf

\* A step of r writes answered rows or its own.
Touches(r) == \A b \in BookingId : booking'[b] = booking[b] \/ Named(b) \/ b \in Own(r)

\* It leaves what the other requests rely on.
LEMMA OthersSettled ==
    ASSUME PInv, NEW r \in Request, pc[r] # "done", Touches(r), Settled(r)',
           \A q \in Request \ {r} : pc'[q] = pc[q] /\ job'[q] = job[q]
    PROVE  \A q \in Request : Settled(q)'
<1> SUFFICES ASSUME NEW q \in Request \ {r} PROVE Settled(q)'
  OBVIOUS
<1>1. pc'[q] = pc[q] /\ job'[q] = job[q] /\ Settled(q)
  BY DEF PInv
<1>2. CASE pc[q] = "done"
  BY <1>1, <1>2 DEF Settled, UnderWay, InSaga
<1>3. CASE pc[q] # "done"
  <2>1. ASSUME NEW b \in Own(q) PROVE booking'[b] = booking[b]
    <3>1. b \in BookingId /\ b \notin Own(r)
      BY DEF Own, BookingId
    <3> QED
      BY <1>3, <2>1, <3>1, NamedApart DEF Touches
  <2>2. ASSUME NEW b, Named(b) PROVE Named(b)'
    BY <2>2 DEF Named
  <2>3. UnderWay(q) => job[q] \in Job
    BY DEF PInv, IInv, Typed, JobOK, JobFits, UnderWay
  <2>4. InSaga(q) => childId(q)' = childId(q) /\ booking'[childId(q)] = booking[childId(q)]
    BY <1>1, <2>1, <2>3, ChildIsOwn DEF InSaga, UnderWay, childId
  <2> QED
    BY <1>1, <2>1, <2>2, <2>4 DEF Settled, UnderWay, InSaga
<1> QED
  BY <1>2, <1>3

\* A request that is through relies on nothing.
LEMMA DoneSettled ==
    ASSUME NEW r \in Request, pc'[r] = "done"
    PROVE  Settled(r)'
BY DEF Settled, UnderWay, InSaga

\* The handlers up to their first write or transaction.
LEMMA ArrivalSettled ==
    ASSUME Private, PInv, NEW r \in Request, Arrival(r)
    PROVE  unchecked' = {} /\ \A q \in Request : Settled(q)'
<1>1. pc[r] = "idle" /\ UNCHANGED <<booking, unchecked>>
  BY DEF Arrival, Create, Update, Remove, Cancel, Relocate
<1>2. pc \in [Request -> Step] /\ job \in [Request -> Job \cup {NoJob}]
  BY DEF PInv, IInv, Typed, TypeOK
<1>3. Touches(r)
  BY <1>1 DEF Touches
<1>4. /\ \A q \in Request \ {r} : pc'[q] = pc[q] /\ job'[q] = job[q]
      /\ Settled(r)'
  <2>1. CASE \E code : Answer(r, code) /\ UNCHANGED job
    BY <1>2, <2>1, DoneSettled DEF Answer
  <2>2. ASSUME NEW op, NEW b, NEW stay, NEW status, NEW next \in {"reserve", "write"},
               Arrive(r, op, b, stay, {}, status, next),
               op # "update", op = "create" \/ Named(b),
               next = "reserve" => stay.status \in Active,
               op = "saga" => stay.status = "PENDING" /\ status \in Active
        PROVE  /\ \A q \in Request \ {r} : pc'[q] = pc[q] /\ job'[q] = job[q]
               /\ Settled(r)'
    <3> DEFINE j == [op |-> op, id |-> b, stay |-> stay, fields |-> {}, status |-> status]
    <3>1. pc' = [pc EXCEPT ![r] = next] /\ job' = [job EXCEPT ![r] = j]
      BY <2>2 DEF Arrive, Go
    <3>2. j.op = op /\ j.id = b /\ j.stay = stay /\ j.status = status
      OBVIOUS
    <3> HIDE DEF j
    <3>3. /\ pc'[r] = next /\ job'[r] = j
          /\ \A q \in Request \ {r} : pc'[q] = pc[q] /\ job'[q] = job[q]
      BY <1>2, <3>1
    <3>4. Named(b) => Named(b)'
      BY <1>1, <3>3 DEF Named
    <3>5. \A c \in Own(r) : booking'[c] = Absent
      BY <1>1 DEF PInv, Settled
    <3> QED
      BY <2>2, <3>2, <3>3, <3>4, <3>5 DEF Settled, UnderWay, InSaga
  <2>3. CASE Create(r)
    <3>1. PICK room, in, out :
             \/ Answer(r, "400") /\ UNCHANGED job
             \/ Arrive(r, "create", <<bucketOf(room), r>>,
                       [room |-> room, in |-> in, out |-> out, status |-> "PENDING"],
                       {}, "PENDING", "reserve")
      BY <2>3 DEF Create
    <3>2. [room |-> room, in |-> in, out |-> out, status |-> "PENDING"].status \in Active
      BY DEF Active
    <3> QED
      BY <2>1, <2>2, <3>1, <3>2
  <2>4. ASSUME NEW b \in BookingId, Remove(r, b) \/ Cancel(r, b)
        PROVE  /\ \A q \in Request \ {r} : pc'[q] = pc[q] /\ job'[q] = job[q]
               /\ Settled(r)'
    <3>1. Named(b)
      BY <2>4, KnownIsNamed DEF Remove, Cancel
    <3> QED
      BY <2>1, <2>2, <2>4, <3>1 DEF Remove, Cancel
  <2>5. ASSUME NEW b \in BookingId, Relocate(r, b)
        PROVE  /\ \A q \in Request \ {r} : pc'[q] = pc[q] /\ job'[q] = job[q]
               /\ Settled(r)'
    <3> DEFINE local(room) == forKey(room) = forKey(b)
               moved(room) == [booking[b] EXCEPT !.room = room,
                                 !.status = IF local(room) THEN @ ELSE "PENDING"]
    <3>1. Named(b)
      BY <2>5, KnownIsNamed DEF Relocate
    <3>2. PICK room : \/ \E code : Answer(r, code) /\ UNCHANGED job
                      \/ /\ IsActive(b)
                         /\ Arrive(r, IF local(room) THEN "move" ELSE "saga", b,
                                   moved(room), {}, booking[b].status, "reserve")
      BY <2>5 DEF Relocate
    <3>3. CASE /\ IsActive(b)
               /\ Arrive(r, IF local(room) THEN "move" ELSE "saga", b,
                         moved(room), {}, booking[b].status, "reserve")
      <4>1. booking[b] \in Booking /\ booking[b].status \in Active
        BY <3>3, RowOK DEF PInv, IInv, Typed, IsActive
      <4>2. moved(room).status = IF local(room) THEN booking[b].status ELSE "PENDING"
        BY <4>1 DEF Booking
      <4>3. moved(room).status \in Active
        BY <4>1, <4>2 DEF Active
      <4> HIDE DEF moved, local
      <4>4. CASE local(room)
        BY <2>2, <3>1, <3>3, <4>3, <4>4
      <4>5. CASE ~local(room)
        BY <2>2, <3>1, <3>3, <4>1, <4>2, <4>3, <4>5
      <4> QED
        BY <4>4, <4>5
    <3> QED
      BY <2>1, <3>2, <3>3
  <2>6. ~(\E b \in BookingId : Update(r, b))
    BY DEF Update, Private
  <2> QED
    BY <2>3, <2>4, <2>5, <2>6 DEF Arrival
<1> QED
  BY <1>1, <1>3, <1>4, OthersSettled DEF PInv

\* A step of r within its handler that goes on to pc'[r].
LEMMA StepSettled ==
    ASSUME PInv, Typed', NEW r \in Request, UnderWay(r), job' = job, Touches(r),
           unchecked' = {},
           \A q \in Request \ {r} : pc'[q] = pc[q],
           \/ pc'[r] \in {"done", "bump"}
           \/ pc[r] \in {"reserve", "commit"} /\ pc'[r] \in {"reserve", "commit"} /\ booking' = booking
           \/ /\ pc'[r] \in {"T2", "C1", "T3"} /\ job[r].op = "saga"
              /\ booking'[childId(r)].status = "PENDING"
    PROVE  unchecked' = {} /\ \A q \in Request : Settled(q)'
<1>1. Settled(r)
  BY DEF PInv
<1>2. ASSUME NEW b, Named(b) PROVE Named(b)'
  BY <1>2 DEF Named, UnderWay
<1>3. childId(r)' = childId(r)
  BY DEF childId
<1>4. Settled(r)'
  BY <1>1, <1>2, <1>3 DEF Settled, UnderWay, InSaga
<1> QED
  BY <1>4, OthersSettled DEF UnderWay

\* Steps that write nothing.
LEMMA QuietSettled ==
    ASSUME PInv, Typed', NEW r \in Request,
           Reserve(r) \/ Abort(r) \/ Bump(r) \/ Unreachable(r) \/ Crash(r)
    PROVE  unchecked' = {} /\ \A q \in Request : Settled(q)'
<1>1. UNCHANGED <<booking, job, unchecked>> /\ UnderWay(r)
  BY DEF Reserve, Abort, Bump, Unreachable, Crash, UnderWay
<1>2. Touches(r) /\ unchecked' = {}
  BY <1>1 DEF Touches, PInv
<1>3. pc \in [Request -> Step] /\ Settled(r)
  BY DEF PInv, IInv, Typed, TypeOK
<1>4. CASE Unreachable(r)
  <2>1. PICK code \in Code : OnError(r, code)
    BY <1>4 DEF Unreachable, Code
  <2>2. /\ \/ pc'[r] = "done"
           \/ pc[r] = "T2" /\ pc'[r] = "C1"
           \/ pc[r] = "C1" /\ pc'[r] = "bump"
        /\ \A q \in Request \ {r} : pc'[q] = pc[q]
    BY <2>1, OnErrorStep DEF PInv, IInv, Typed
  <2>3. pc[r] = "T2" => job[r].op = "saga" /\ booking'[childId(r)].status = "PENDING"
    BY <1>1, <1>3 DEF Settled, InSaga
  <2> QED
    BY <1>1, <1>2, <2>2, <2>3, StepSettled
<1>5. CASE Reserve(r) \/ Abort(r) \/ Bump(r) \/ Crash(r)
  <2>1. /\ \/ pc'[r] = "done"
           \/ pc[r] \in {"reserve", "commit"} /\ pc'[r] \in {"reserve", "commit"}
        /\ \A q \in Request \ {r} : pc'[q] = pc[q]
    BY <1>3, <1>5 DEF Reserve, Abort, Bump, Crash, Answer, Go
  <2> QED
    BY <1>1, <1>2, <2>1, StepSettled
<1> QED
  BY <1>4, <1>5

\* The transaction inserts the row of the request.
LEMMA CommitSettled ==
    ASSUME PInv, Typed', NEW r \in Request, Commit(r)
    PROVE  unchecked' = {} /\ \A q \in Request : Settled(q)'
<1>1. /\ job[r] \in Job /\ UnderWay(r) /\ Settled(r) /\ pc[r] = "commit"
      /\ job' = job /\ unchecked' = {}
  BY DEF Commit, PInv, IInv, Typed, JobOK, JobFits, UnderWay
<1>2. childId(r) \in Own(r) /\ childId(r) \in BookingId
  BY <1>1, ChildIsOwn
<1>3. CASE Answer(r, "500") /\ UNCHANGED booking
  <2>1. Touches(r)
    BY <1>3 DEF Touches
  <2>2. pc'[r] = "done" /\ \A q \in Request \ {r} : pc'[q] = pc[q]
    BY <1>3 DEF Answer, PInv, IInv, Typed, TypeOK
  <2> QED
    BY <1>1, <2>1, <2>2, StepSettled
<1>4. CASE ~(Answer(r, "500") /\ UNCHANGED booking)
  <2> DEFINE next == IF job[r].op = "saga" THEN "T2" ELSE "bump"
             code == IF job[r].op = "saga" THEN "none" ELSE "200"
  <2>1. /\ booking' = [b \in BookingId |->
              CASE b = childId(r) -> job[r].stay
                [] b # childId(r) /\ b \in Excluded(r) ->
                      [booking[b] EXCEPT !.status = "CANCELLED"]
                [] OTHER -> booking[b]]
        /\ Heard(r, next, code)
    BY <1>4 DEF Commit
  <2>2. Touches(r)
    <3>1. ASSUME NEW b \in Excluded(r) PROVE Named(b)
      BY <1>1, <3>1 DEF Excluded, Settled
    <3> QED
      BY <1>2, <2>1, <3>1 DEF Touches
  <2>3. next \in Step /\ code \in Code
    BY DEF Step, Code
  <2>4. pc'[r] \in {next, "done"} /\ \A q \in Request \ {r} : pc'[q] = pc[q]
    <3> HIDE DEF next, code
    <3> QED
      BY <1>1, <2>1, <2>3, HeardStep DEF PInv, IInv, Typed
  <2>5. job[r].op = "saga" => booking'[childId(r)].status = "PENDING"
    BY <1>1, <1>2, <2>1 DEF Settled
  <2> QED
    BY <1>1, <2>2, <2>4, <2>5, StepSettled
<1> QED
  BY <1>3, <1>4

\* Single statements: an answered row, or the request's own.
LEMMA WriteSettled ==
    ASSUME PInv, Typed', NEW r \in Request,
           \/ UpdateWrite(r) \/ RemoveWrite(r) \/ CancelWrite(r)
           \/ CancelOriginal(r) \/ Compensate(r) \/ SetStatus(r)
    PROVE  unchecked' = {} /\ \A q \in Request : Settled(q)'
<1>1. /\ job' = job /\ UnderWay(r) /\ pc[r] \in {"write", "T2", "C1", "T3"}
      /\ Settled(r) /\ unchecked = {} /\ TypeOK
      /\ job[r] \in Job
  BY DEF UpdateWrite, RemoveWrite, CancelWrite, CancelOriginal, Compensate, SetStatus,
         UnderWay, PInv, IInv, Typed, JobOK, JobFits
<1>2. /\ job[r].id \in BookingId /\ job[r].op # "update"
      /\ childId(r) \in Own(r) /\ childId(r) \in BookingId
  BY <1>1, ChildIsOwn DEF Settled, Job
<1>3. booking \in [BookingId -> Booking \cup {Absent}]
  BY <1>1 DEF TypeOK
<1>4. CASE RemoveWrite(r) \/ CancelWrite(r)
  <2>1. Named(job[r].id)
    BY <1>1, <1>4 DEF Settled, RemoveWrite, CancelWrite
  <2>2. Touches(r) /\ unchecked' = {}
    BY <1>1, <1>3, <1>4, <2>1 DEF RemoveWrite, CancelWrite, Put, Touches
  <2>3. Answer(r, "500") \/ Heard(r, "bump", "200")
    BY <1>4 DEF RemoveWrite, CancelWrite
  <2>4. pc'[r] \in {"done", "bump"} /\ \A q \in Request \ {r} : pc'[q] = pc[q]
    BY <1>1, <1>4, <2>3, AnswerStep, HeardStep DEF Step, Code, RemoveWrite, CancelWrite
  <2> QED
    BY <1>1, <2>2, <2>4, StepSettled
<1>5. CASE CancelOriginal(r)
  <2>1. Named(job[r].id) /\ job[r].op = "saga" /\ booking[childId(r)].status = "PENDING"
    BY <1>1, <1>5 DEF Settled, InSaga, CancelOriginal
  <2>2. job[r].id # childId(r)
    BY <1>1, <1>2, <2>1, NamedApart DEF UnderWay
  <2>3. Touches(r) /\ unchecked' = {} /\ booking'[childId(r)] = booking[childId(r)]
    BY <1>1, <1>2, <1>3, <1>5, <2>1, <2>2 DEF CancelOriginal, Put, Touches
  <2>4. Go(r, "C1", "409") \/ Heard(r, "T3", "none")
    BY <1>5 DEF CancelOriginal
  <2>5. pc'[r] \in {"done", "C1", "T3", "bump"} /\ \A q \in Request \ {r} : pc'[q] = pc[q]
    BY <1>1, <2>4, GoStep, HeardStep DEF Step, Code
  <2> QED
    BY <1>1, <2>1, <2>3, <2>5, StepSettled
<1>6. CASE Compensate(r)
  <2>1. Touches(r) /\ unchecked' = {}
    BY <1>1, <1>2, <1>3, <1>6 DEF Compensate, Put, Touches
  <2>2. pc'[r] = "bump" /\ \A q \in Request \ {r} : pc'[q] = pc[q]
    BY <1>1, <1>6 DEF Compensate, Go, TypeOK
  <2> QED
    BY <1>1, <2>1, <2>2, StepSettled
<1>7. CASE SetStatus(r)
  <2>1. booking[childId(r)].status = "PENDING"
    BY <1>1, <1>7 DEF Settled, InSaga, SetStatus
  <2>2. IsActive(childId(r))
    BY <2>1 DEF IsActive, Active
  <2>3. Touches(r) /\ unchecked' = {}
    BY <1>1, <1>2, <1>3, <1>7, <2>2 DEF SetStatus, Put, Touches
  <2>4. Answer(r, "500") \/ Heard(r, "bump", "200")
    BY <1>7 DEF SetStatus
  <2>5. pc'[r] \in {"done", "bump"} /\ \A q \in Request \ {r} : pc'[q] = pc[q]
    BY <1>1, <1>7, <2>4, AnswerStep, HeardStep DEF Step, Code, SetStatus
  <2> QED
    BY <1>1, <2>3, <2>5, StepSettled
<1> QED
  BY <1>2, <1>4, <1>5, <1>6, <1>7 DEF UpdateWrite

\* The tables the service is started with hold no row of a request to come.
LEMMA InitPInv == Init => PInv
<1> SUFFICES ASSUME Init PROVE PInv
  OBVIOUS
<1>1. ASSUME NEW r \in Request PROVE Settled(r)
  <2>1. pc[r] = "idle"
    BY DEF Init
  <2>2. \A b \in Own(r) : booking[b] = Absent
    BY ParametersAssumption DEF Init, Own, BookingId
  <2> QED
    BY <2>1, <2>2 DEF Settled, UnderWay, InSaga
<1> QED
  BY <1>1, InitInv DEF PInv, Init

\* Every step of a private workload keeps the invariant.
LEMMA StepPInv ==
    ASSUME Private
    PROVE  PInv /\ [Next]_vars => PInv'
<1> SUFFICES ASSUME PInv, [Next]_vars PROVE PInv'
  OBVIOUS
<1>1. IInv' /\ Typed'
  BY StepInv DEF PInv, IInv
<1>2. ASSUME NEW r \in Request, Arrival(r)
      PROVE  unchecked' = {} /\ \A q \in Request : Settled(q)'
  BY <1>2, ArrivalSettled
<1>3. ASSUME NEW r \in Request, Progress(r) \/ Unreachable(r) \/ Crash(r)
      PROVE  unchecked' = {} /\ \A q \in Request : Settled(q)'
  BY <1>1, <1>3, QuietSettled, CommitSettled, WriteSettled DEF Progress
<1>4. ~(\E b \in BookingId : FrontDesk(b))
  BY DEF FrontDesk, Private
<1>5. CASE UNCHANGED vars
  <2>1. UNCHANGED <<booking, pc, job, unchecked>>
    BY <1>5 DEF vars
  <2> QED
    BY <1>1, <2>1 DEF PInv, Settled, UnderWay, InSaga, Named, childId
<1> QED
  BY <1>1, <1>2, <1>3, <1>4, <1>5 DEF Next, Rest, PInv

\* So it holds throughout.
LEMMA PInvInvariant ==
    ASSUME Private
    PROVE  Spec => []PInv
BY InitPInv, StepPInv, PTL DEF Spec

(* README.md:162 holds of the workload: with reservations nobody else names *)
(* and without PATCH, no room has two overlapping active bookings, whatever *)
(* is retried, compensated, lost or dies.                                   *)
THEOREM NoDoubleBookingTheorem ==
    ASSUME Private
    PROVE  Spec => []NoDoubleBooking
<1>1. PInv => NoDoubleBooking
  BY DEF PInv, IInv, OverlapOnlyUnchecked, NoDoubleBooking
<1> QED
  BY <1>1, PInvInvariant, PTL

-----------------------------------------------------------------------------
(***************************************************************************)
(* What a step does to the calendar.                                       *)
(***************************************************************************)

\* What a COMMIT that succeeds writes.
Inserted(r) ==
    /\ job[r].op = "move" => Exists(job[r].id)
    /\ booking' = [b \in BookingId |->
          CASE b = childId(r) -> job[r].stay
            [] b # childId(r) /\ b \in Excluded(r) ->
                  [booking[b] EXCEPT !.status = "CANCELLED"]
            [] OTHER -> booking[b]]

\* The new row was not there, takes what is free, and an old one may end.
LEMMA InsertedRow ==
    ASSUME PInv, NEW r \in Request, Commit(r), Inserted(r)
    PROVE  /\ job[r] \in Job /\ job[r].stay \in Booking
           /\ childId(r) \in BookingId /\ booking[childId(r)] = Absent
           /\ booking'[childId(r)] = job[r].stay /\ job[r].stay.status \in Active
           /\ Conflicts(r) = {}
           /\ \A b \in BookingId \ {childId(r)} :
                 IF b \in Excluded(r) THEN ~(IsActive(b))' ELSE booking'[b] = booking[b]
<1>1. /\ job[r] \in Job /\ job[r].stay.room \in Room
      /\ Settled(r) /\ pc[r] = "commit" /\ r \notin doomed
  BY DEF Commit, PInv, IInv, Typed, JobOK, JobFits
<1>2. childId(r) \in Own(r) /\ childId(r) \in BookingId
  BY <1>1, ChildIsOwn
<1>3. job[r].stay \in Booking /\ job[r].stay.status \in Active
  BY <1>1 DEF Job, Stay, Booking, Settled
<1>4. booking'[childId(r)] = job[r].stay
  BY <1>2 DEF Inserted
<1>5. booking[childId(r)] = Absent
  BY <1>1, <1>2 DEF Settled
<1>6. Conflicts(r) = {}
  BY <1>1 DEF PInv, IInv, Guarded
<1>7. ASSUME NEW b \in BookingId \ {childId(r)}
      PROVE  IF b \in Excluded(r) THEN ~(IsActive(b))' ELSE booking'[b] = booking[b]
  <2>1. CASE b \in Excluded(r)
    <3>1. Exists(b) /\ booking[b] \in Booking
      BY <2>1, RowOK DEF Inserted, Excluded, PInv, IInv, Typed
    <3>2. booking'[b] = [booking[b] EXCEPT !.status = "CANCELLED"]
      BY <2>1 DEF Inserted
    <3> QED
      BY <2>1, <3>1, <3>2, RowFields DEF IsActive, Active
  <2>2. CASE b \notin Excluded(r)
    BY <2>2 DEF Inserted
  <2> QED
    BY <2>1, <2>2
<1> QED
  BY <1>1, <1>2, <1>3, <1>4, <1>5, <1>6, <1>7

\* A row is left as it is, or keeps its interval, or ends: one row at a time.
Shrinks(b) ==
    /\ \A c \in BookingId \ {b} : booking'[c] = booking[c]
    /\ (IsActive(b))' =>
          /\ IsActive(b)
          /\ booking'[b].room = booking[b].room
          /\ booking'[b].in = booking[b].in
          /\ booking'[b].out = booking[b].out

\* All steps but the insertion of a row.
LEMMA NextShrinks ==
    ASSUME PInv, PInv', [Next]_vars
    PROVE  \/ UNCHANGED booking
           \/ \E b \in BookingId : Shrinks(b)
           \/ \E r \in Request : Commit(r) /\ Inserted(r)
<1>1. Typed /\ Typed' /\ booking \in [BookingId -> Booking \cup {Absent}]
  BY DEF PInv, IInv, Typed, TypeOK
<1>2. ASSUME Harmless, NEW b \in BookingId, NEW row, Put(b, row)
      PROVE  Shrinks(b)
  BY <1>1, <1>2 DEF Put, Harmless, Shrinks, PInv
<1>3. ASSUME NEW r \in Request, Reserve(r) PROVE UNCHANGED booking
  BY <1>3 DEF Reserve
<1>4. ASSUME NEW r \in Request, Commit(r) PROVE UNCHANGED booking \/ Inserted(r)
  BY <1>4 DEF Commit, Inserted
<1>5. CASE Harmless
  <2>1. ASSUME NEW r \in Request, Arrival(r) PROVE UNCHANGED booking
    BY <2>1 DEF Arrival, Create, Update, Remove, Cancel, Relocate
  <2>2. ASSUME NEW r \in Request, Progress(r)
        PROVE  \/ UNCHANGED booking \/ Commit(r)
               \/ \E b \in BookingId : Shrinks(b)
    <3>1. pc[r] \in {"write", "T2", "C1", "T3"} =>
             job[r].id \in BookingId /\ childId(r) \in BookingId
      BY <1>1, ChildIsOwn DEF Typed, JobOK, JobFits, Job
    <3>2. CASE UpdateWrite(r) \/ RemoveWrite(r) \/ CancelWrite(r) \/ CancelOriginal(r)
      BY <1>2, <1>5, <3>1, <3>2 DEF UpdateWrite, RemoveWrite, CancelWrite, CancelOriginal
    <3>3. CASE Compensate(r) \/ SetStatus(r)
      BY <1>2, <1>5, <3>1, <3>3 DEF Compensate, SetStatus
    <3>4. CASE Reserve(r) \/ Abort(r) \/ Bump(r)
      BY <3>4 DEF Reserve, Abort, Bump
    <3> QED
      BY <2>2, <3>2, <3>3, <3>4 DEF Progress
  <2>3. ASSUME NEW r \in Request, Unreachable(r) \/ Crash(r) PROVE UNCHANGED booking
    BY <2>3 DEF Unreachable, Crash
  <2>4. ASSUME NEW b \in BookingId, FrontDesk(b) PROVE Shrinks(b)
    BY <1>2, <1>5, <2>4 DEF FrontDesk
  <2>5. CASE UNCHANGED vars
    BY <2>5 DEF vars
  <2> QED
    BY <1>4, <2>1, <2>2, <2>3, <2>4, <2>5 DEF Next, Rest
<1> QED
  BY <1>1, <1>3, <1>4, <1>5, NextHarmless

(* What was cancelled or completed never becomes active again: T3 finds its *)
(* reservation PENDING, and a transaction inserts under a new id.           *)
THEOREM EndedTheorem ==
    ASSUME Private
    PROVE  Spec => EndedStaysEnded
<1>1. ASSUME PInv, PInv', [Next]_vars
      PROVE  \A b \in BookingId : Exists(b) /\ ~IsActive(b) => ~(IsActive(b))'
  <2>1. CASE UNCHANGED booking
    BY <2>1 DEF IsActive
  <2>2. CASE \E b \in BookingId : Shrinks(b)
    BY <2>2 DEF Shrinks, IsActive
  <2>3. ASSUME NEW r \in Request, Commit(r), Inserted(r)
        PROVE  \A b \in BookingId : Exists(b) /\ ~IsActive(b) => ~(IsActive(b))'
    BY <1>1, <2>3, InsertedRow DEF IsActive, Exists
  <2> QED
    BY <1>1, <2>1, <2>2, <2>3, NextShrinks
<1> QED
  BY <1>1, PInvInvariant, StepPInv, PTL DEF Spec, EndedStaysEnded

-----------------------------------------------------------------------------
(***************************************************************************)
(* The tables implement RoomCalendar.                                      *)
(***************************************************************************)
EntryOf(b) == [id |-> b, room |-> booking[b].room, in |-> booking[b].in, out |-> booking[b].out]

\* What is in force, row by row.
LEMMA InForceRows ==
    /\ \A e \in InForce : \E b \in BookingId : IsActive(b) /\ e = EntryOf(b)
    /\ \A b \in BookingId : IsActive(b) => EntryOf(b) \in InForce
BY DEF InForce, EntryOf

\* Likewise after a step.
LEMMA InForceRowsNext ==
    /\ \A e \in InForce' : \E b \in BookingId : (IsActive(b))' /\ e = EntryOf(b)'
    /\ \A b \in BookingId : (IsActive(b))' => EntryOf(b)' \in InForce'
BY DEF InForce, EntryOf

\* A booking has one entry.
LEMMA EntryFields ==
    ASSUME NEW b
    PROVE  /\ EntryOf(b).id = b /\ EntryOf(b).room = booking[b].room
           /\ EntryOf(b).in = booking[b].in /\ EntryOf(b).out = booking[b].out
BY DEF EntryOf

\* An active booking is an entry of the calendar.
LEMMA EntryType ==
    ASSUME NEW b \in BookingId, booking[b] \in Booking
    PROVE  EntryOf(b) \in CalendarEntry
BY DEF EntryOf, CalendarEntry, Booking

\* The calendar starts with what is stored.
LEMMA InitCalendar == Init => Calendar!Init
<1> SUFFICES ASSUME Init PROVE Calendar!Init
  OBVIOUS
<1>1. PInv
  BY InitPInv
<1>2. InForce \subseteq CalendarEntry
  BY <1>1, InForceRows, EntryType, RowOK DEF PInv, IInv, Typed
<1>3. ASSUME NEW e \in InForce, NEW f \in InForce \ {e}
      PROVE  ~Calendar!Meets(e, f)
  <2>1. PICK a \in BookingId : IsActive(a) /\ e = EntryOf(a)
    BY InForceRows
  <2>2. PICK b \in BookingId : IsActive(b) /\ f = EntryOf(b)
    BY <1>3, InForceRows
  <2>3. a # b /\ ~DoubleBooked(a, b)
    BY <1>1, <1>3, <2>1, <2>2 DEF PInv, IInv, OverlapOnlyUnchecked
  <2> QED
    BY <2>1, <2>2, <2>3, EntryFields DEF Calendar!Meets, DoubleBooked, Overlap
<1> QED
  BY <1>2, <1>3 DEF Calendar!Init, Calendar!Free

\* A row that ends releases its interval; anything else leaves the calendar.
LEMMA ShrinksReleases ==
    ASSUME NEW b \in BookingId, Shrinks(b)
    PROVE  UNCHANGED InForce \/ Calendar!Next
<1>1. \A c \in BookingId \ {b} :
         (IsActive(c))' = IsActive(c) /\ EntryOf(c)' = EntryOf(c)
  BY DEF Shrinks, IsActive, EntryOf
<1>2. (IsActive(b))' => IsActive(b) /\ EntryOf(b)' = EntryOf(b)
  BY DEF Shrinks, EntryOf
<1>3. CASE ~IsActive(b) \/ (IsActive(b))'
  BY <1>1, <1>2, <1>3, InForceRows, InForceRowsNext
<1>4. CASE IsActive(b) /\ ~(IsActive(b))'
  <2>1. InForce' = InForce \ {EntryOf(b)}
    <3>1. \A c \in BookingId \ {b} : EntryOf(c) # EntryOf(b)
      BY EntryFields
    <3> QED
      BY <1>1, <1>4, <3>1, InForceRows, InForceRowsNext
  <2>2. EntryOf(b) \in InForce
    BY <1>4, InForceRows
  <2> QED
    BY <2>1, <2>2 DEF Calendar!Next, Calendar!Release
<1> QED
  BY <1>3, <1>4

\* An insertion takes an interval that is free, or exchanges one for it.
LEMMA InsertedTakes ==
    ASSUME PInv, NEW r \in Request, Commit(r), Inserted(r)
    PROVE  Calendar!Next
<1>1. PICK new \in BookingId :
         /\ job[r] \in Job /\ job[r].stay \in Booking
         /\ new = childId(r) /\ booking[new] = Absent
         /\ booking'[new] = job[r].stay /\ job[r].stay.status \in Active
         /\ Conflicts(r) = {}
         /\ \A b \in BookingId \ {new} :
               IF b \in Excluded(r) THEN ~(IsActive(b))' ELSE booking'[b] = booking[b]
  BY InsertedRow
<1> DEFINE e == [id |-> new, room |-> job[r].stay.room, in |-> job[r].stay.in,
                 out |-> job[r].stay.out]
<1>2. ~IsActive(new) /\ (IsActive(new))'
  BY <1>1 DEF IsActive, Active, Absent
<1>3. /\ e.id = new /\ e.room = job[r].stay.room
      /\ e.in = job[r].stay.in /\ e.out = job[r].stay.out
      /\ e \in CalendarEntry
  BY <1>1 DEF CalendarEntry, Booking
<1>4. ASSUME NEW b \in BookingId, IsActive(b), b \notin Excluded(r)
      PROVE  ~Calendar!Meets(e, EntryOf(b))
  <2>1. ~Overlap(booking[b], job[r].stay)
    BY <1>1, <1>4 DEF Conflicts
  <2>2. booking[b] \in Booking
    BY <1>4, RowOK DEF PInv, IInv, Typed
  <2>3. /\ booking[b].in \in Int /\ booking[b].out \in Int
        /\ job[r].stay.in \in Int /\ job[r].stay.out \in Int
    BY <1>1, <2>2, ParametersAssumption DEF Booking
  <2> HIDE DEF e
  <2> QED
    BY <1>3, <2>1, <2>3, EntryFields DEF Calendar!Meets, Overlap
<1>5. Calendar!New(e)
  <2>1. \A f \in InForce : f.id # new
    BY <1>2, InForceRows, EntryFields
  <2> HIDE DEF e
  <2> QED
    BY <1>3, <2>1 DEF Calendar!New
<1>6. \A b \in BookingId \ {new} :
         /\ (IsActive(b))' <=> IsActive(b) /\ b \notin Excluded(r)
         /\ (IsActive(b))' => EntryOf(b)' = EntryOf(b)
  BY <1>1 DEF IsActive, EntryOf
<1>7. e \in InForce' /\ EntryOf(new)' = e
  <2>1. EntryOf(new)' = e
    BY <1>1 DEF EntryOf
  <2> QED
    BY <1>2, <2>1, InForceRowsNext
<1>8. CASE \A b \in Excluded(r) : ~IsActive(b)
  <2>1. Calendar!Free(e, InForce)
    <3> HIDE DEF e
    <3> QED
      BY <1>4, <1>8, InForceRows DEF Calendar!Free
  <2>2. InForce' = InForce \cup {e}
    <3> HIDE DEF e
    <3>1. ASSUME NEW f \in InForce PROVE f \in InForce'
      BY <1>2, <1>6, <1>8, InForceRows, InForceRowsNext
    <3>2. ASSUME NEW f \in InForce' PROVE f \in InForce \cup {e}
      BY <1>6, <1>7, InForceRows, InForceRowsNext
    <3> QED
      BY <1>7, <3>1, <3>2
  <2> HIDE DEF e
  <2> QED
    BY <1>5, <1>7, <2>1, <2>2 DEF Calendar!Next, Calendar!Take
<1>9. ASSUME NEW a \in Excluded(r), IsActive(a)
      PROVE  Calendar!Next
  <2>1. Excluded(r) = {a} /\ a \in BookingId /\ a # new
    BY <1>1, <1>2, <1>9 DEF Excluded, Job
  <2>2. EntryOf(a) \in InForce /\ \A b \in BookingId \ {a} : EntryOf(b) # EntryOf(a)
    BY <1>9, <2>1, InForceRows, EntryFields
  <2>3. Calendar!Free(e, InForce \ {EntryOf(a)})
    <3> HIDE DEF e
    <3> QED
      BY <1>4, <2>1, InForceRows DEF Calendar!Free
  <2>4. InForce' = (InForce \ {EntryOf(a)}) \cup {e}
    <3> HIDE DEF e
    <3>1. ASSUME NEW f \in InForce \ {EntryOf(a)} PROVE f \in InForce'
      BY <1>2, <1>6, <2>1, InForceRows, InForceRowsNext
    <3>2. ASSUME NEW f \in InForce' PROVE f \in (InForce \ {EntryOf(a)}) \cup {e}
      <4>1. PICK b \in BookingId : (IsActive(b))' /\ f = EntryOf(b)'
        BY InForceRowsNext
      <4>2. CASE b = new
        BY <1>7, <4>1, <4>2
      <4>3. CASE b # new
        BY <1>6, <2>1, <2>2, <4>1, <4>3, InForceRows
      <4> QED
        BY <4>2, <4>3
    <3> QED
      BY <1>7, <3>1, <3>2
  <2> HIDE DEF e
  <2> QED
    BY <1>5, <1>7, <2>2, <2>3, <2>4 DEF Calendar!Next, Calendar!Move
<1> QED
  BY <1>8, <1>9

(* Under every interleaving of transactions, retries, sagas and their       *)
(* compensations the tables change as a calendar does: an interval is taken *)
(* when it is free, released, or exchanged, one at a time.                  *)
THEOREM RefinementTheorem ==
    ASSUME Private
    PROVE  Spec => ImplementsCalendar
<1>1. ASSUME PInv, PInv', [Next]_vars
      PROVE  [Calendar!Next]_InForce
  <2>1. UNCHANGED booking => UNCHANGED InForce
    BY DEF InForce, IsActive
  <2> QED
    BY <1>1, <2>1, NextShrinks, ShrinksReleases, InsertedTakes
<1> QED
  BY <1>1, InitCalendar, PInvInvariant, PTL DEF Spec, ImplementsCalendar, Calendar!Spec

-----------------------------------------------------------------------------
(***************************************************************************)
(* Announcements, as in the run `sagas': every statement is answered and   *)
(* Redis takes every INCR, but sagas are aborted and instances die.        *)
(***************************************************************************)
Answered == Private /\ Faults \cap {"down", "lost", "redis"} = {}

Telling == {"bump", "T2", "C1", "T3"}

AInv ==
    /\ PInv
    /\ \A r \in Request : reply[r] = "reset" => pc[r] = "done"
    /\ ChangeIsAnnounced

\* A step of r that changes a booking has still to tell of it.
Tells(r) ==
    /\ pc[r] # "done"
    /\ \A q \in Request \ {r} : pc'[q] = pc[q] /\ reply'[q] = reply[q]
    /\ reply'[r] = "reset" => pc'[r] = "done"
    /\ \/ stale' = FALSE
       \/ pc'[r] \in Telling
       \/ stale' = stale /\ pc[r] \notin Telling
       \/ reply'[r] = "reset"

\* Then nothing is forgotten.
LEMMA TellsKeeps ==
    ASSUME AInv, PInv', NEW r \in Request, Tells(r)
    PROVE  AInv'
<1>1. \A q \in Request : reply'[q] = "reset" => pc'[q] = "done"
  BY DEF AInv, Tells
<1>2. AnyDied => AnyDied'
  BY DEF AInv, Tells, AnyDied
<1>3. ChangeIsAnnounced'
  BY <1>2 DEF AInv, Tells, ChangeIsAnnounced, AnyDied, Telling
<1> QED
  BY <1>1, <1>3 DEF AInv

\* Where every statement is answered, the handler hears of it.
LEMMA HeardGoes ==
    ASSUME Answered, NEW r \in Request, NEW next, NEW code, Heard(r, next, code)
    PROVE  Go(r, next, code)
BY DEF Answered, Heard

\* The functions of pc and reply after Go and Answer.
LEMMA GoTells ==
    ASSUME Typed, NEW r \in Request, NEW next, NEW code, Go(r, next, code)
    PROVE  /\ pc'[r] = next /\ reply'[r] = code
           /\ \A q \in Request \ {r} : pc'[q] = pc[q] /\ reply'[q] = reply[q]
BY DEF Go, Typed, TypeOK

\* Requests that arrive, or end before they have written.
LEMMA ArrivalTells ==
    ASSUME Answered, AInv, NEW r \in Request, Arrival(r)
    PROVE  Tells(r)
<1>1. pc[r] = "idle" /\ UNCHANGED stale
  BY DEF Arrival, Create, Update, Remove, Cancel, Relocate
<1>2. \E next \in Step, code \in Code \ {"reset"} : Go(r, next, code)
  BY DEF Arrival, Create, Update, Remove, Cancel, Relocate, Arrive, Answer, Go, Step, Code
<1>3. PICK next \in Step, code \in Code \ {"reset"} : Go(r, next, code)
  BY <1>2
<1>4. /\ pc'[r] = next /\ reply'[r] = code
      /\ \A q \in Request \ {r} : pc'[q] = pc[q] /\ reply'[q] = reply[q]
  BY <1>3, GoTells DEF AInv, PInv, IInv
<1> QED
  BY <1>1, <1>4 DEF Tells, Telling

\* The transaction, and what ends it.
LEMMA TransactionTells ==
    ASSUME Answered, AInv, NEW r \in Request, Reserve(r) \/ Commit(r) \/ Abort(r)
    PROVE  Tells(r)
<1>1. pc[r] \in {"reserve", "commit"}
  BY DEF Reserve, Commit, Abort
<1>2. PICK next \in {"reserve", "commit", "T2", "bump", "done"}, code \in {"none", "200", "404", "409", "500"} :
         /\ Go(r, next, code)
         /\ stale' = stale \/ next \in {"T2", "bump"}
  <2>1. CASE Commit(r)
    BY <2>1, HeardGoes DEF Commit, Answer, Go
  <2> QED
    BY <2>1 DEF Reserve, Abort, Answer, Go
<1>3. /\ pc'[r] = next /\ reply'[r] = code
      /\ \A q \in Request \ {r} : pc'[q] = pc[q] /\ reply'[q] = reply[q]
  BY <1>2, GoTells DEF AInv, PInv, IInv
<1> QED
  BY <1>1, <1>2, <1>3 DEF Tells, Telling

\* Single statements: T3 finds its reservation.
LEMMA StatementTells ==
    ASSUME Answered, AInv, NEW r \in Request,
           \/ UpdateWrite(r) \/ RemoveWrite(r) \/ CancelWrite(r)
           \/ CancelOriginal(r) \/ Compensate(r) \/ SetStatus(r)
    PROVE  Tells(r)
<1>1. pc[r] \in {"write", "T2", "C1", "T3"} /\ Settled(r) /\ reply[r] # "reset"
  BY DEF UpdateWrite, RemoveWrite, CancelWrite, CancelOriginal, Compensate, SetStatus,
         AInv, PInv
<1>2. PICK next \in {"T3", "C1", "bump", "done"}, code \in {reply[r], "none", "200", "409", "500"} :
         /\ Go(r, next, code)
         /\ (stale' = stale /\ pc[r] = "write") \/ next # "done"
  <2>1. CASE UpdateWrite(r) \/ RemoveWrite(r) \/ CancelWrite(r)
    <3>1. \/ Go(r, "bump", "200")
          \/ Answer(r, "500") /\ UNCHANGED stale /\ pc[r] = "write"
      BY <2>1, HeardGoes DEF UpdateWrite, RemoveWrite, CancelWrite
    <3> QED
      BY <3>1 DEF Answer, Go
  <2>2. CASE CancelOriginal(r)
    BY <2>2, HeardGoes DEF CancelOriginal
  <2>3. CASE Compensate(r)
    BY <2>3 DEF Compensate
  <2>4. CASE SetStatus(r)
    <3>1. Exists(childId(r))
      BY <1>1, <2>4 DEF SetStatus, Settled, InSaga, Exists, Absent
    <3>2. Go(r, "bump", "200")
      BY <2>4, <3>1, HeardGoes DEF SetStatus
    <3> QED
      BY <3>2
  <2> QED
    BY <2>1, <2>2, <2>3, <2>4
<1>3. /\ pc'[r] = next /\ reply'[r] = code
      /\ \A q \in Request \ {r} : pc'[q] = pc[q] /\ reply'[q] = reply[q]
  BY <1>2, GoTells DEF AInv, PInv, IInv
<1> QED
  BY <1>1, <1>2, <1>3 DEF Tells, Telling

\* The announcement itself, simulateFailure before T2, and the end of an instance.
LEMMA EndTells ==
    ASSUME Answered, AInv, NEW r \in Request, Bump(r) \/ Unreachable(r) \/ Crash(r)
    PROVE  Tells(r)
<1>1. CASE Bump(r)
  <2>1. stale' = FALSE /\ pc[r] = "bump" /\ Go(r, "done", reply[r])
    BY <1>1 DEF Bump, Answered, Answer, Go
  <2> QED
    BY <2>1, GoTells DEF Tells, AInv, PInv, IInv
<1>2. CASE Unreachable(r)
  <2>1. pc[r] = "T2" /\ Go(r, "C1", "409")
    BY <1>2 DEF Unreachable, OnError, Answered
  <2> QED
    BY <2>1, GoTells DEF Tells, Telling, AInv, PInv, IInv
<1>3. CASE Crash(r)
  <2>1. pc[r] # "done" /\ Go(r, "done", "reset")
    BY <1>3 DEF Crash, Answer, Go
  <2> QED
    BY <2>1, GoTells DEF Tells, AInv, PInv, IInv
<1> QED
  BY <1>1, <1>2, <1>3

(* A change of availability never stays unannounced: a request that wrote   *)
(* is on its way to invalidateSearch(), on every path through the saga and  *)
(* its compensation, or its instance has died.                              *)
THEOREM AnnouncedTheorem ==
    ASSUME Answered
    PROVE  Spec => []ChangeIsAnnounced
<1>1. Private
  BY DEF Answered
<1>2. Init => AInv
  BY InitPInv DEF Init, AInv, ChangeIsAnnounced
<1>3. AInv /\ [Next]_vars => AInv'
  <2> SUFFICES ASSUME AInv, [Next]_vars PROVE AInv'
    OBVIOUS
  <2>1. PInv'
    BY <1>1, StepPInv DEF AInv
  <2>2. ASSUME NEW r \in Request, Arrival(r) \/ Progress(r) \/ Unreachable(r) \/ Crash(r)
        PROVE  Tells(r)
    BY <2>2, ArrivalTells, TransactionTells, StatementTells, EndTells DEF Progress
  <2>3. ~(\E b \in BookingId : FrontDesk(b))
    BY <1>1 DEF FrontDesk, Private
  <2>4. CASE UNCHANGED vars
    BY <2>1, <2>4 DEF vars, AInv, ChangeIsAnnounced, AnyDied
  <2> QED
    BY <2>1, <2>2, <2>3, <2>4, TellsKeeps DEF Next, Rest
<1>4. AInv => ChangeIsAnnounced
  BY DEF AInv
<1> QED
  BY <1>2, <1>3, <1>4, PTL DEF Spec

-----------------------------------------------------------------------------
(***************************************************************************)
(* Nobody's stay is lost.  A reservation counts for nothing until T2 has   *)
(* given the old booking up; so counted, the stays never get fewer.        *)
(***************************************************************************)
Moving ==
    /\ Private
    /\ Offered \subseteq {"relocate"} /\ "lost" \notin Faults
    /\ IsFiniteSet(BookingId)

Reserved == {b \in BookingId : \E r \in Request : pc[r] \in {"T2", "C1"} /\ b = childId(r)}

Held == Stays \ Reserved

SInv ==
    /\ PInv
    /\ \A r \in Request : UnderWay(r) => job[r].op \in {"move", "saga"}
    /\ Cardinality(Held) >= Cardinality(SeededStays)

\* A step that keeps every stay, or exchanges one for another.
Exchanges ==
    \/ Held \subseteq Held'
    \/ \E old, new \in BookingId : Held \ {old} \subseteq Held' /\ new \in Held' \ Held

\* Either keeps their number.
LEMMA ExchangeKeeps ==
    ASSUME Moving, SInv, Exchanges
    PROVE  Cardinality(Held') >= Cardinality(SeededStays)
<1>1. IsFiniteSet(Held) /\ IsFiniteSet(Held')
  BY FS_Subset DEF Held, Stays, Moving
<1>2. Cardinality(Held) \in Nat /\ Cardinality(Held') \in Nat
  BY <1>1, FS_CardinalityType
<1>3. Cardinality(SeededStays) \in Nat
  <2>1. SeededStays \subseteq BookingId
    BY DEF SeededStays, BookingId
  <2> QED
    BY <2>1, FS_Subset, FS_CardinalityType DEF Moving
<1>4. CASE Held \subseteq Held'
  BY <1>1, <1>2, <1>3, <1>4, FS_Subset DEF SInv
<1>5. ASSUME NEW old \in BookingId, NEW new \in BookingId,
             Held \ {old} \subseteq Held', new \in Held' \ Held
      PROVE  Cardinality(Held') >= Cardinality(SeededStays)
  <2> DEFINE rest == Held \ {old}
  <2>1. IsFiniteSet(rest) /\ Cardinality(rest) >= Cardinality(Held) - 1
    <3>1. /\ IsFiniteSet(rest)
          /\ Cardinality(rest) = IF old \in Held THEN Cardinality(Held) - 1 ELSE Cardinality(Held)
      BY <1>1, FS_RemoveElement
    <3> HIDE DEF rest
    <3> QED
      BY <1>2, <3>1
  <2>2. new \notin rest /\ rest \cup {new} \subseteq Held'
    BY <1>5
  <2>3. IsFiniteSet(rest \cup {new}) /\ Cardinality(rest \cup {new}) = Cardinality(rest) + 1
    BY <2>1, <2>2, FS_AddElement
  <2>4. Cardinality(rest \cup {new}) <= Cardinality(Held')
    BY <1>1, <2>2, FS_Subset
  <2>5. Cardinality(rest) \in Nat
    BY <2>1, FS_CardinalityType
  <2> HIDE DEF rest
  <2> QED
    BY <1>2, <1>3, <2>1, <2>3, <2>4, <2>5 DEF SInv
<1> QED
  BY <1>4, <1>5 DEF Exchanges

\* The reservations of two requests are different rows.
LEMMA ReservationsApart ==
    ASSUME PInv, NEW r \in Request, NEW q \in Request \ {r}, UnderWay(q), UnderWay(r)
    PROVE  childId(q) # childId(r)
<1>1. job[q] \in Job /\ job[r] \in Job
  BY DEF PInv, IInv, Typed, JobOK, JobFits, UnderWay
<1> QED
  BY <1>1 DEF childId

\* What r changes when it goes from pc[r] to pc'[r].
LEMMA ReservedStep ==
    ASSUME NEW r \in Request, job' = job, \A q \in Request \ {r} : pc'[q] = pc[q],
           pc'[r] \in {"T2", "C1"} => pc[r] \in {"T2", "C1"}
    PROVE  Reserved' \subseteq Reserved
BY DEF Reserved, childId

\* Steps that write nothing.
LEMMA QuietExchanges ==
    ASSUME SInv, NEW r \in Request,
           \/ Arrival(r) \/ Reserve(r) \/ Abort(r) \/ Bump(r) \/ Unreachable(r) \/ Crash(r)
    PROVE  Exchanges
<1>1. UNCHANGED booking
  BY DEF Arrival, Create, Update, Remove, Cancel, Relocate, Reserve, Abort, Bump, Unreachable,
         Crash
<1>2. pc \in [Request -> Step] /\ job \in [Request -> Job \cup {NoJob}]
  BY DEF SInv, PInv, IInv, Typed, TypeOK
<1>3. Reserved' \subseteq Reserved
  <2>1. CASE Arrival(r)
    <3>1. /\ pc'[r] \notin {"T2", "C1"} /\ pc[r] = "idle"
          /\ \A q \in Request \ {r} : pc'[q] = pc[q] /\ job'[q] = job[q]
      <4>1. CASE Create(r)
        BY <1>2, <4>1 DEF Create, Arrive, Go, Answer
      <4>2. CASE \E b \in BookingId : Update(r, b)
        BY <1>2, <4>2 DEF Update, Arrive, Go, Answer
      <4>3. CASE \E b \in BookingId : Remove(r, b) \/ Cancel(r, b)
        BY <1>2, <4>3 DEF Remove, Cancel, Arrive, Go, Answer
      <4>4. CASE \E b \in BookingId : Relocate(r, b)
        BY <1>2, <4>4 DEF Relocate, Arrive, Go, Answer
      <4> QED
        BY <2>1, <4>1, <4>2, <4>3, <4>4 DEF Arrival
    <3> QED
      BY <3>1 DEF Reserved, childId
  <2>2. CASE Unreachable(r)
    <3>1. PICK code \in Code : OnError(r, code)
      BY <2>2 DEF Unreachable, Code
    <3>2. /\ pc'[r] \in {"done", "bump"} \/ (pc[r] = "T2" /\ pc'[r] = "C1")
          /\ \A q \in Request \ {r} : pc'[q] = pc[q]
      BY <3>1, OnErrorStep DEF SInv, PInv, IInv, Typed
    <3> QED
      BY <2>2, <3>2, ReservedStep DEF Unreachable
  <2>3. CASE Reserve(r) \/ Abort(r) \/ Bump(r) \/ Crash(r)
    <3>1. /\ pc'[r] \notin {"T2", "C1"} /\ job' = job
          /\ \A q \in Request \ {r} : pc'[q] = pc[q]
      BY <1>2, <2>3 DEF Reserve, Abort, Bump, Crash, Answer, Go
    <3> QED
      BY <3>1, ReservedStep
  <2> QED
    BY <2>1, <2>2, <2>3
<1> QED
  BY <1>1, <1>3 DEF Exchanges, Held, Stays, IsActive

\* Inside a shard the new row is a stay at once, across shards a reservation.
LEMMA CommitExchanges ==
    ASSUME Moving, SInv, NEW r \in Request, Commit(r)
    PROVE  Exchanges
<1>1. /\ PInv /\ pc[r] = "commit" /\ UnderWay(r) /\ job' = job
      /\ job[r].op \in {"move", "saga"}
      /\ pc \in [Request -> Step]
  BY DEF Commit, SInv, UnderWay, PInv, IInv, Typed, TypeOK
<1>2. CASE Answer(r, "500") /\ UNCHANGED booking
  <2>1. pc'[r] = "done" /\ \A q \in Request \ {r} : pc'[q] = pc[q]
    BY <1>1, <1>2 DEF Answer
  <2>2. Reserved' \subseteq Reserved
    BY <1>1, <2>1, ReservedStep
  <2> QED
    BY <1>2, <2>2 DEF Exchanges, Held, Stays, IsActive
<1>3. CASE ~(Answer(r, "500") /\ UNCHANGED booking)
  <2>1. Inserted(r) /\ Heard(r, IF job[r].op = "saga" THEN "T2" ELSE "bump",
                                IF job[r].op = "saga" THEN "none" ELSE "200")
    BY <1>3 DEF Commit, Inserted
  <2>2. /\ pc'[r] = (IF job[r].op = "saga" THEN "T2" ELSE "bump")
        /\ \A q \in Request \ {r} : pc'[q] = pc[q]
    BY <1>1, <2>1 DEF Heard, Go, Moving
  <2>3. PICK new \in BookingId :
           /\ new = childId(r) /\ booking[new] = Absent
           /\ booking'[new] = job[r].stay /\ job[r].stay.status \in Active
           /\ \A b \in BookingId \ {new} :
                 IF b \in Excluded(r) THEN ~(IsActive(b))' ELSE booking'[b] = booking[b]
    BY <1>1, <2>1, InsertedRow
  <2>4. new \notin Held
    BY <2>3 DEF Held, Stays, IsActive, Active, Absent
  <2>5. ASSUME NEW b \in Reserved' PROVE b \in Reserved \/ (b = new /\ job[r].op = "saga")
    BY <1>1, <2>2, <2>3, <2>5 DEF Reserved, childId
  <2>6. \A b \in Held \ Excluded(r) : b \in Held'
    BY <2>3, <2>4, <2>5 DEF Held, Stays, IsActive
  <2>7. CASE job[r].op = "saga"
    BY <2>6, <2>7 DEF Excluded, Exchanges
  <2>8. CASE job[r].op = "move"
    <3>1. job[r].id \in BookingId /\ Excluded(r) = {job[r].id}
      BY <1>1, <2>8 DEF Excluded, PInv, IInv, Typed, JobOK, JobFits, Job
    <3>2. new \notin Reserved'
      <4> SUFFICES ASSUME NEW q \in Request, pc'[q] \in {"T2", "C1"}, new = childId(q)'
                   PROVE  FALSE
        BY DEF Reserved
      <4>1. q # r /\ UnderWay(q)
        BY <2>2, <2>8 DEF UnderWay
      <4>2. childId(q)' = childId(q)
        BY <1>1 DEF childId
      <4> QED
        BY <1>1, <2>3, <4>1, <4>2, ReservationsApart
    <3>3. new \in Held' \ Held
      BY <2>3, <2>4, <3>2 DEF Held, Stays, IsActive
    <3> QED
      BY <2>6, <3>1, <3>3 DEF Exchanges
  <2> QED
    BY <1>1, <2>7, <2>8
<1> QED
  BY <1>2, <1>3

\* T2 exchanges the old booking for the reservation, C1 takes back what did
\* not count yet, T3 leaves an active row active.
LEMMA SagaExchanges ==
    ASSUME Moving, SInv, NEW r \in Request, CancelOriginal(r) \/ Compensate(r) \/ SetStatus(r)
    PROVE  Exchanges
<1>1. /\ PInv /\ pc[r] \in {"T2", "C1", "T3"} /\ UnderWay(r) /\ job' = job /\ Settled(r)
      /\ pc \in [Request -> Step] /\ booking \in [BookingId -> Booking \cup {Absent}]
      /\ job[r] \in Job
  BY DEF CancelOriginal, Compensate, SetStatus, SInv, UnderWay, PInv, IInv, Typed, TypeOK,
         JobOK, JobFits
<1>2. PICK new \in BookingId : new = childId(r) /\ new \in Own(r)
  BY <1>1, ChildIsOwn
<1>3. IsActive(new) /\ booking[new] \in Booking /\ job[r].status \in Active
  <2>1. IsActive(new) /\ job[r].status \in Active
    BY <1>1, <1>2 DEF Settled, InSaga, IsActive, Active
  <2> QED
    BY <1>1, <1>2, <2>1, RowOK DEF PInv, IInv, Typed
<1>4. CASE CancelOriginal(r)
  <2>1. Named(job[r].id) /\ job[r].id \in BookingId
    BY <1>1, <1>4 DEF Settled, InSaga, CancelOriginal, Job
  <2>2. PICK old \in BookingId : old = job[r].id /\ old # new
    BY <1>1, <1>2, <2>1, NamedApart DEF UnderWay
  <2>3. CASE Go(r, "C1", "409") /\ UNCHANGED booking
    <3>1. pc'[r] = "C1" /\ pc[r] = "T2" /\ \A q \in Request \ {r} : pc'[q] = pc[q]
      BY <1>1, <1>4, <2>3 DEF Go, CancelOriginal
    <3>2. Reserved' \subseteq Reserved
      BY <1>1, <3>1, ReservedStep
    <3> QED
      BY <2>3, <3>2 DEF Exchanges, Held, Stays, IsActive
  <2>4. CASE Heard(r, "T3", "none")
    <3>1. pc'[r] = "T3" /\ pc[r] = "T2" /\ \A q \in Request \ {r} : pc'[q] = pc[q]
      BY <1>1, <1>4, <2>4 DEF Heard, Go, Moving, CancelOriginal
    <3>2. \A b \in BookingId \ {old} : booking'[b] = booking[b]
      BY <1>1, <1>4, <2>2 DEF CancelOriginal, Put
    <3>3. Reserved' \subseteq Reserved
      BY <1>1, <3>1, ReservedStep
    <3>4. new \in Reserved
      BY <1>2, <3>1 DEF Reserved
    <3>5. new \notin Reserved'
      <4> SUFFICES ASSUME NEW q \in Request, pc'[q] \in {"T2", "C1"}, new = childId(q)'
                   PROVE  FALSE
        BY DEF Reserved
      <4>1. q # r /\ UnderWay(q)
        BY <3>1 DEF UnderWay
      <4>2. childId(q)' = childId(q)
        BY <1>1 DEF childId
      <4> QED
        BY <1>1, <1>2, <4>1, <4>2, ReservationsApart
    <3>6. new \in Held' \ Held
      BY <1>3, <2>2, <3>2, <3>4, <3>5 DEF Held, Stays, IsActive
    <3>7. Held \ {old} \subseteq Held'
      BY <3>2, <3>3 DEF Held, Stays, IsActive
    <3> QED
      BY <3>6, <3>7 DEF Exchanges
  <2> QED
    BY <1>4, <2>3, <2>4 DEF CancelOriginal
<1>5. CASE Compensate(r)
  <2>1. pc[r] = "C1" /\ pc'[r] = "bump" /\ \A q \in Request \ {r} : pc'[q] = pc[q]
    BY <1>1, <1>5 DEF Compensate, Go
  <2>2. \A b \in BookingId \ {new} : booking'[b] = booking[b]
    BY <1>1, <1>2, <1>5 DEF Compensate, Put
  <2>3. new \in Reserved /\ Reserved' \subseteq Reserved
    BY <1>1, <1>2, <2>1, ReservedStep DEF Reserved
  <2> QED
    BY <2>2, <2>3 DEF Exchanges, Held, Stays, IsActive
<1>6. CASE SetStatus(r)
  <2>1. pc'[r] \notin {"T2", "C1"} /\ \A q \in Request \ {r} : pc'[q] = pc[q]
    BY <1>1, <1>6 DEF SetStatus, Heard, Go, OnError, Answer
  <2>2. \A b \in BookingId : IsActive(b) => (IsActive(b))'
    <3>1. booking' = booking \/ booking' = [booking EXCEPT ![new] =
                                   [booking[new] EXCEPT !.status = job[r].status]]
      BY <1>2, <1>6 DEF SetStatus, Put
    <3>2. [booking[new] EXCEPT !.status = job[r].status].status \in Active
      BY <1>3, RowFields
    <3>3. ASSUME NEW b \in BookingId, IsActive(b) PROVE (IsActive(b))'
      <4>1. CASE b = new
        BY <1>1, <3>1, <3>2, <3>3, <4>1 DEF IsActive
      <4>2. CASE b # new
        BY <1>1, <3>1, <3>3, <4>2 DEF IsActive
      <4> QED
        BY <4>1, <4>2
    <3> QED
      BY <3>3
  <2>3. Reserved' \subseteq Reserved
    BY <1>1, <2>1, ReservedStep
  <2> QED
    BY <2>2, <2>3 DEF Exchanges, Held, Stays
<1> QED
  BY <1>4, <1>5, <1>6

\* As many stays as were seeded.
LEMMA InitSInv ==
    ASSUME Moving
    PROVE  Init => SInv
<1> SUFFICES ASSUME Init PROVE SInv
  OBVIOUS
<1>1. Held = SeededStays
  <2>1. Reserved = {}
    BY DEF Init, Reserved
  <2>2. Stays = SeededStays
    BY DEF Init, Stays, SeededStays, IsActive, Absent, Active, BookingId
  <2> QED
    BY <2>1, <2>2 DEF Held
<1>2. IsFiniteSet(SeededStays)
  BY FS_Subset DEF Moving, SeededStays, BookingId
<1>3. Cardinality(SeededStays) \in Nat
  BY <1>2, FS_CardinalityType
<1>4. \A r \in Request : ~UnderWay(r)
  BY DEF Init, UnderWay
<1> QED
  BY <1>1, <1>3, <1>4, InitPInv DEF SInv

\* Every step of a workload of relocations keeps them.
LEMMA StepSInv ==
    ASSUME Moving
    PROVE  SInv /\ [Next]_vars => SInv'
<1> SUFFICES ASSUME SInv, [Next]_vars PROVE SInv'
  OBVIOUS
<1>1. PInv'
  BY StepPInv DEF SInv, Moving
<1>2. pc \in [Request -> Step] /\ job \in [Request -> Job \cup {NoJob}]
  BY DEF SInv, PInv, IInv, Typed, TypeOK
<1>3. ASSUME NEW r \in Request, Arrival(r)
      PROVE  \A q \in Request : UnderWay(q)' => job'[q].op \in {"move", "saga"}
  <2>1. PICK b \in BookingId : Relocate(r, b)
    BY <1>3 DEF Arrival, Create, Update, Remove, Cancel, Moving
  <2>2. \A q \in Request \ {r} : pc'[q] = pc[q] /\ job'[q] = job[q]
    BY <1>2, <2>1 DEF Relocate, Arrive, Go, Answer
  <2>3. UnderWay(r)' => job'[r].op \in {"move", "saga"}
    BY <1>2, <2>1 DEF Relocate, Arrive, Go, Answer, UnderWay
  <2> QED
    BY <2>2, <2>3 DEF SInv, UnderWay
<1>4. ASSUME NEW r \in Request, Progress(r) \/ Unreachable(r) \/ Crash(r)
      PROVE  \A q \in Request : UnderWay(q)' => job'[q].op \in {"move", "saga"}
  <2>1. job' = job /\ UnderWay(r)
    BY <1>4 DEF Progress, Reserve, Commit, Abort, UpdateWrite, RemoveWrite, CancelWrite,
                CancelOriginal, Compensate, SetStatus, Bump, Unreachable, Crash, UnderWay
  <2>2. \A q \in Request \ {r} : pc'[q] = pc[q]
    BY <1>2, <1>4 DEF Progress, Reserve, Commit, Abort, UpdateWrite, RemoveWrite,
                CancelWrite, CancelOriginal, Compensate, SetStatus, Bump, Unreachable,
                Crash, Heard, OnError, Go, Answer
  <2> QED
    BY <2>1, <2>2 DEF SInv, UnderWay
<1>5. ASSUME NEW r \in Request PROVE ~(UpdateWrite(r) \/ RemoveWrite(r) \/ CancelWrite(r))
  BY DEF UpdateWrite, RemoveWrite, CancelWrite, SInv, UnderWay
<1>6. ~(\E b \in BookingId : FrontDesk(b))
  BY DEF FrontDesk, Moving, Private
<1>7. CASE UNCHANGED vars
  <2>1. UNCHANGED <<booking, pc, job>>
    BY <1>7 DEF vars
  <2>2. Held' = Held
    BY <2>1 DEF Held, Stays, Reserved, IsActive, childId
  <2> QED
    BY <1>1, <2>1, <2>2 DEF SInv, UnderWay
<1>8. ASSUME NEW r \in Request, Arrival(r) \/ Progress(r) \/ Unreachable(r) \/ Crash(r)
      PROVE  Exchanges
  BY <1>5, <1>8, QuietExchanges, CommitExchanges, SagaExchanges DEF Progress
<1>9. ASSUME Exchanges PROVE Cardinality(Held') >= Cardinality(SeededStays)
  BY <1>9, ExchangeKeeps
<1> QED
  BY <1>1, <1>3, <1>4, <1>6, <1>7, <1>8, <1>9 DEF Next, Rest, SInv

(* In a workload of relocations, of one booking or of many, in a shard or   *)
(* across, no guest's stay is ever lost: there are always as many active    *)
(* bookings as stays before the first request, whatever refuses, aborts or  *)
(* dies.  (With a lost answer of T2 there need not be: run x_lost.)         *)
THEOREM StayTheorem ==
    ASSUME Moving
    PROVE  Spec => []StayNeverLost
<1>1. SInv => StayNeverLost
  <2> SUFFICES ASSUME SInv PROVE StayNeverLost
    OBVIOUS
  <2>1. IsFiniteSet(Stays) /\ Held \subseteq Stays
    BY FS_Subset DEF Moving, Stays, Held
  <2>2. Cardinality(Held) <= Cardinality(Stays) /\ IsFiniteSet(Held)
    BY <2>1, FS_Subset
  <2>3. Cardinality(Held) \in Nat /\ Cardinality(Stays) \in Nat
    BY <2>1, <2>2, FS_CardinalityType
  <2>4. SeededStays \subseteq BookingId
    BY DEF SeededStays, BookingId
  <2>5. Cardinality(SeededStays) \in Nat
    BY <2>4, FS_Subset, FS_CardinalityType DEF Moving
  <2> QED
    BY <2>2, <2>3, <2>5 DEF SInv, StayNeverLost
<1> QED
  BY <1>1, InitSInv, StepSInv, PTL DEF Spec

-----------------------------------------------------------------------------
(***************************************************************************)
(* Nor is one won, when every relocation is a saga (the rooms are on       *)
(* shards of their own), its statements are answered and nobody dies: T2   *)
(* lets one saga of a booking through.                                     *)
(***************************************************************************)
Across ==
    /\ Moving
    /\ "down" \notin Faults
    /\ \A room, other \in Room : forKey(room) = forKey(other) => room = other

CInv ==
    /\ SInv /\ Colocated
    /\ \A r \in Request : UnderWay(r) /\ job[r].op = "move" => job[r].stay.room \notin Room
    /\ \A r \in Request : reply[r] = "reset" => pc[r] = "done"
    /\ ~AnyDied => Cardinality(Held) <= Cardinality(SeededStays)

\* No stay is won without one that is given up.
Frugal ==
    \/ Held' \subseteq Held
    \/ \E old \in Held, new \in BookingId : Held' \subseteq (Held \ {old}) \cup {new}

\* The number of stays does not grow.
LEMMA FrugalKeeps ==
    ASSUME Moving, Frugal, Cardinality(Held) <= Cardinality(SeededStays)
    PROVE  Cardinality(Held') <= Cardinality(SeededStays)
<1>1. IsFiniteSet(Held) /\ IsFiniteSet(Held') /\ IsFiniteSet(SeededStays)
  <2>1. SeededStays \subseteq BookingId
    BY DEF SeededStays, BookingId
  <2> QED
    BY <2>1, FS_Subset DEF Held, Stays, Moving
<1>2. /\ Cardinality(Held) \in Nat /\ Cardinality(Held') \in Nat
      /\ Cardinality(SeededStays) \in Nat
  BY <1>1, FS_CardinalityType
<1>3. CASE Held' \subseteq Held
  <2>1. Cardinality(Held') <= Cardinality(Held)
    BY <1>1, <1>3, FS_Subset
  <2> QED
    BY <1>2, <2>1
<1>4. ASSUME NEW old \in Held, NEW new \in BookingId, Held' \subseteq (Held \ {old}) \cup {new}
      PROVE  Cardinality(Held') <= Cardinality(SeededStays)
  <2> DEFINE rest == Held \ {old}
  <2>1. IsFiniteSet(rest) /\ Cardinality(rest) = Cardinality(Held) - 1
    BY <1>1, FS_RemoveElement
  <2>2. /\ IsFiniteSet(rest \cup {new})
        /\ Cardinality(rest \cup {new}) =
              IF new \in rest THEN Cardinality(rest) ELSE Cardinality(rest) + 1
    BY <2>1, FS_AddElement
  <2>3. Cardinality(Held') <= Cardinality(rest \cup {new})
    BY <1>4, <2>2, FS_Subset
  <2> HIDE DEF rest
  <2> QED
    BY <1>2, <2>1, <2>2, <2>3
<1> QED
  BY <1>3, <1>4 DEF Frugal

\* Who stays in T2 or C1 keeps the reservation apart.
LEMMA ReservedKept ==
    ASSUME NEW r \in Request, job' = job, \A q \in Request \ {r} : pc'[q] = pc[q]
    PROVE  /\ Reserved \ {childId(r)} \subseteq Reserved'
           /\ pc'[r] \in {"T2", "C1"} \/ pc[r] \notin {"T2", "C1"} => Reserved \subseteq Reserved'
BY DEF Reserved, childId

\* Steps that write nothing, but for the death of an instance.
LEMMA QuietFrugal ==
    ASSUME Across, CInv, NEW r \in Request,
           Arrival(r) \/ Reserve(r) \/ Abort(r) \/ Bump(r) \/ Unreachable(r)
    PROVE  Frugal
<1>1. UNCHANGED booking
  BY DEF Arrival, Create, Update, Remove, Cancel, Relocate, Reserve, Abort, Bump, Unreachable
<1>2. pc \in [Request -> Step] /\ job \in [Request -> Job \cup {NoJob}]
  BY DEF CInv, SInv, PInv, IInv, Typed, TypeOK
<1>3. Reserved \subseteq Reserved'
  <2>1. CASE Arrival(r)
    <3>1. /\ pc[r] = "idle"
          /\ \A q \in Request \ {r} : pc'[q] = pc[q] /\ job'[q] = job[q]
      <4>1. CASE Create(r)
        BY <1>2, <4>1 DEF Create, Arrive, Go, Answer
      <4>2. CASE \E b \in BookingId : Update(r, b)
        BY <1>2, <4>2 DEF Update, Arrive, Go, Answer
      <4>3. CASE \E b \in BookingId : Remove(r, b) \/ Cancel(r, b)
        BY <1>2, <4>3 DEF Remove, Cancel, Arrive, Go, Answer
      <4>4. CASE \E b \in BookingId : Relocate(r, b)
        BY <1>2, <4>4 DEF Relocate, Arrive, Go, Answer
      <4> QED
        BY <2>1, <4>1, <4>2, <4>3, <4>4 DEF Arrival
    <3> QED
      BY <3>1 DEF Reserved, childId
  <2>2. CASE Unreachable(r)
    <3>1. pc[r] = "T2" /\ pc'[r] = "C1" /\ job' = job /\ \A q \in Request \ {r} : pc'[q] = pc[q]
      BY <1>2, <2>2 DEF Unreachable, OnError, Go, Across
    <3> QED
      BY <3>1, ReservedKept
  <2>3. CASE Reserve(r) \/ Abort(r) \/ Bump(r)
    <3>1. /\ pc[r] \notin {"T2", "C1"} /\ job' = job
          /\ \A q \in Request \ {r} : pc'[q] = pc[q]
      BY <1>2, <2>3 DEF Reserve, Abort, Bump, Answer, Go
    <3> QED
      BY <3>1, ReservedKept
  <2> QED
    BY <2>1, <2>2, <2>3
<1> QED
  BY <1>1, <1>3 DEF Frugal, Held, Stays, IsActive

\* T1 makes a reservation.
LEMMA CommitFrugal ==
    ASSUME Across, CInv, NEW r \in Request, Commit(r)
    PROVE  Frugal
<1>1. /\ PInv /\ pc[r] = "commit" /\ job' = job /\ job[r].op = "saga"
      /\ pc \in [Request -> Step]
  BY DEF Commit, CInv, SInv, UnderWay, PInv, IInv, Typed, TypeOK, JobOK, JobFits
<1>2. Inserted(r) /\ pc'[r] = "T2" /\ \A q \in Request \ {r} : pc'[q] = pc[q]
  BY <1>1 DEF Commit, Inserted, Heard, Go, Across, Moving
<1>3. PICK new \in BookingId :
         /\ new = childId(r)
         /\ \A b \in BookingId \ {new} :
               IF b \in Excluded(r) THEN ~(IsActive(b))' ELSE booking'[b] = booking[b]
  BY <1>1, <1>2, InsertedRow
<1>4. Reserved \subseteq Reserved'
  BY <1>1, <1>2, ReservedKept
<1>5. new \in Reserved'
  BY <1>1, <1>2, <1>3 DEF Reserved, childId
<1>6. \A b \in Held' : b \in Held
  BY <1>1, <1>3, <1>4, <1>5 DEF Held, Stays, IsActive, Excluded
<1> QED
  BY <1>6 DEF Frugal

\* T2 gives up a stay for the reservation; C1 and T3 win nothing.
LEMMA SagaFrugal ==
    ASSUME Across, CInv, NEW r \in Request, CancelOriginal(r) \/ Compensate(r) \/ SetStatus(r)
    PROVE  Frugal
<1>1. /\ PInv /\ pc[r] \in {"T2", "C1", "T3"} /\ UnderWay(r) /\ job' = job /\ Settled(r)
      /\ pc \in [Request -> Step] /\ booking \in [BookingId -> Booking \cup {Absent}]
      /\ job[r] \in Job
  BY DEF CancelOriginal, Compensate, SetStatus, CInv, SInv, UnderWay, PInv, IInv, Typed,
         TypeOK, JobOK, JobFits
<1>2. PICK new \in BookingId : new = childId(r) /\ new \in Own(r)
  BY <1>1, ChildIsOwn
<1>3. booking[new].status = "PENDING" /\ booking[new] \in Booking /\ IsActive(new)
  <2>1. booking[new].status = "PENDING" /\ IsActive(new)
    BY <1>1, <1>2 DEF Settled, InSaga, IsActive, Active
  <2> QED
    BY <1>1, <1>2, <2>1, RowOK DEF PInv, IInv, Typed
<1>4. \A q \in Request \ {r} : pc'[q] = pc[q]
  BY <1>1 DEF CancelOriginal, Compensate, SetStatus, Heard, OnError, Go, Answer
<1>5. Reserved \ {new} \subseteq Reserved'
  BY <1>1, <1>2, <1>4, ReservedKept
<1>6. CASE CancelOriginal(r)
  <2>1. Named(job[r].id) /\ job[r].id \in BookingId
    BY <1>1, <1>6 DEF Settled, InSaga, CancelOriginal, Job
  <2>2. PICK old \in BookingId : old = job[r].id
    BY <2>1
  <2>3. CASE Go(r, "C1", "409") /\ UNCHANGED booking
    <3>1. pc'[r] = "C1"
      BY <1>1, <2>3 DEF Go
    <3>2. Reserved \subseteq Reserved'
      BY <1>1, <1>4, <3>1, ReservedKept
    <3> QED
      BY <2>3, <3>2 DEF Frugal, Held, Stays, IsActive
  <2>4. CASE IsActive(old) /\ Put(old, [booking[old] EXCEPT !.status = "CANCELLED"])
    <3>1. old \notin Reserved
      <4> SUFFICES ASSUME NEW q \in Request, pc[q] \in {"T2", "C1"}, old = childId(q)
                   PROVE  FALSE
        BY DEF Reserved
      <4>1. job[q] \in Job
        BY DEF CInv, SInv, PInv, IInv, Typed, JobOK, JobFits
      <4> QED
        BY <2>1, <2>2, <4>1, ChildIsOwn, NamedApart
    <3>2. old \in Held
      BY <2>4, <3>1 DEF Held, Stays
    <3>3. booking[old] \in Booking
      BY <2>4, RowOK DEF CInv, SInv, PInv, IInv, Typed
    <3>4. ~(IsActive(old))' /\ \A b \in BookingId \ {old} : booking'[b] = booking[b]
      BY <1>1, <2>4, <3>3, RowFields DEF Put, IsActive, Active
    <3>5. \A b \in Held' : b \in (Held \ {old}) \cup {new}
      BY <1>5, <3>4 DEF Held, Stays, IsActive
    <3> QED
      BY <3>2, <3>5 DEF Frugal
  <2> QED
    BY <1>6, <2>2, <2>3, <2>4 DEF CancelOriginal
<1>7. CASE Compensate(r)
  <2>1. booking' = [booking EXCEPT ![new] = [booking[new] EXCEPT !.status = "CANCELLED"]]
    BY <1>2, <1>3, <1>7 DEF Compensate, Put
  <2>2. ~(IsActive(new))' /\ \A b \in BookingId \ {new} : booking'[b] = booking[b]
    BY <1>1, <1>3, <2>1, RowFields DEF IsActive, Active
  <2>3. \A b \in Held' : b \in Held
    BY <1>5, <2>2 DEF Held, Stays, IsActive
  <2> QED
    BY <2>3 DEF Frugal
<1>8. CASE SetStatus(r)
  <2>1. Reserved \subseteq Reserved'
    BY <1>1, <1>4, <1>8, ReservedKept DEF SetStatus
  <2>2. \A b \in BookingId \ {new} : booking'[b] = booking[b]
    BY <1>1, <1>2, <1>8 DEF SetStatus, Put
  <2>3. new \notin Reserved
    <3> SUFFICES ASSUME NEW q \in Request, pc[q] \in {"T2", "C1"}, new = childId(q)
                 PROVE  FALSE
      BY DEF Reserved
    <3>1. q # r /\ UnderWay(q)
      BY <1>8 DEF SetStatus, UnderWay
    <3> QED
      BY <1>1, <1>2, <3>1, ReservationsApart
  <2>4. \A b \in Held' : b \in Held
    BY <1>3, <2>1, <2>2, <2>3 DEF Held, Stays, IsActive
  <2> QED
    BY <2>4 DEF Frugal
<1> QED
  BY <1>6, <1>7, <1>8

\* A relocation inside a shard has no room to go to.
LEMMA MoveHasNoRoom ==
    ASSUME Across, CInv, NEW r \in Request, NEW b \in BookingId, Relocate(r, b)
    PROVE  /\ UnderWay(r)' /\ job'[r].op = "move" => job'[r].stay.room \notin Room
           /\ reply'[r] # "reset"
           /\ \A q \in Request \ {r} : pc'[q] = pc[q] /\ job'[q] = job[q] /\ reply'[q] = reply[q]
<1> DEFINE local(room) == forKey(room) = forKey(b)
           moved(room) == [booking[b] EXCEPT !.room = room,
                             !.status = IF local(room) THEN @ ELSE "PENDING"]
<1>1. /\ pc \in [Request -> Step] /\ job \in [Request -> Job \cup {NoJob}]
      /\ reply \in [Request -> Code]
      /\ Exists(b) /\ booking[b] \in Booking
  BY RowOK DEF Relocate, Known, CInv, SInv, PInv, IInv, Typed, TypeOK
<1>2. PICK room :
         \/ (Answer(r, "409") \/ Answer(r, "400")) /\ UNCHANGED job
         \/ /\ booking[b].room # room
            /\ Arrive(r, IF local(room) THEN "move" ELSE "saga", b, moved(room), {},
                      booking[b].status, "reserve")
  BY DEF Relocate
<1>3. CASE (Answer(r, "409") \/ Answer(r, "400")) /\ UNCHANGED job
  BY <1>1, <1>3 DEF Answer, UnderWay
<1>4. CASE /\ booking[b].room # room
           /\ Arrive(r, IF local(room) THEN "move" ELSE "saga", b, moved(room), {},
                     booking[b].status, "reserve")
  <2>1. moved(room).room = room
    BY <1>1 DEF Booking
  <2>2. local(room) => room \notin Room
    <3>1. bucketOf(booking[b].room) = bucketOf(b) /\ booking[b].room \in Room
      BY <1>1 DEF CInv, Colocated, Booking
    <3> QED
      BY <1>4, <3>1 DEF Across, forKey
  <2> HIDE DEF moved, local
  <2>3. /\ job'[r].op = (IF local(room) THEN "move" ELSE "saga")
        /\ job'[r].stay = moved(room) /\ reply'[r] = "none"
    BY <1>1, <1>4 DEF Arrive, Go
  <2>4. \A q \in Request \ {r} : pc'[q] = pc[q] /\ job'[q] = job[q] /\ reply'[q] = reply[q]
    BY <1>1, <1>4 DEF Arrive, Go
  <2> QED
    BY <2>1, <2>2, <2>3, <2>4
<1> QED
  BY <1>2, <1>3, <1>4

(* Of concurrent sagas for one booking the conditional T2 lets one through, *)
(* and C1 takes back what the others had reserved: when everything has been *)
(* answered each guest has one booking again.                               *)
THEOREM ConservedTheorem ==
    ASSUME Across
    PROVE  Spec => []StayConserved
<1>1. Moving /\ Private
  BY DEF Across, Moving
<1>2. Init => CInv
  <2> SUFFICES ASSUME Init PROVE CInv
    OBVIOUS
  <2>1. SInv
    BY <1>1, InitSInv
  <2>2. Colocated
    BY SeededAssumption DEF Init, Colocated, Exists
  <2>3. Cardinality(Held) <= Cardinality(SeededStays)
    <3>1. Reserved = {}
      BY DEF Init, Reserved
    <3>2. Stays = SeededStays
      BY DEF Init, Stays, SeededStays, IsActive, Absent, Active, BookingId
    <3>3. Held = SeededStays
      BY <3>1, <3>2 DEF Held
    <3>4. Cardinality(SeededStays) \in Nat
      BY <1>1, FS_Subset, FS_CardinalityType DEF Moving, SeededStays, BookingId
    <3> QED
      BY <3>3, <3>4
  <2> QED
    BY <2>1, <2>2, <2>3 DEF Init, CInv, UnderWay
<1>3. CInv /\ [Next]_vars => CInv'
  <2> SUFFICES ASSUME CInv, [Next]_vars PROVE CInv'
    OBVIOUS
  <2>1. SInv' /\ Colocated'
    BY <1>1, StepSInv, RoomsKeptStep DEF CInv, SInv, PInv, IInv, Colocated, RoomsKept
  <2>2. /\ pc \in [Request -> Step] /\ reply \in [Request -> Code]
        /\ job \in [Request -> Job \cup {NoJob}]
    BY DEF CInv, SInv, PInv, IInv, Typed, TypeOK
  <2> DEFINE Placed == /\ \A q \in Request : UnderWay(q)' /\ job'[q].op = "move" =>
                              job'[q].stay.room \notin Room
                       /\ \A q \in Request : reply'[q] = "reset" => pc'[q] = "done"
                       /\ AnyDied => AnyDied'
  <2>3. ASSUME NEW r \in Request, Arrival(r) PROVE Placed
    <3>1. PICK b \in BookingId : Relocate(r, b)
      BY <1>1, <2>3 DEF Arrival, Create, Update, Remove, Cancel, Moving
    <3>2. pc[r] = "idle"
      BY <3>1 DEF Relocate
    <3> QED
      BY <3>1, <3>2, MoveHasNoRoom DEF CInv, UnderWay, AnyDied
  <2>4. ASSUME NEW r \in Request, Progress(r) \/ Unreachable(r) \/ Crash(r) PROVE Placed
    <3>1. job' = job /\ UnderWay(r) /\ reply[r] # "reset"
      BY <2>4 DEF Progress, Reserve, Commit, Abort, UpdateWrite, RemoveWrite, CancelWrite,
                  CancelOriginal, Compensate, SetStatus, Bump, Unreachable, Crash, UnderWay,
                  CInv
    <3>2. \A q \in Request \ {r} : pc'[q] = pc[q] /\ reply'[q] = reply[q]
      BY <2>2, <2>4 DEF Progress, Reserve, Commit, Abort, UpdateWrite, RemoveWrite,
                  CancelWrite, CancelOriginal, Compensate, SetStatus, Bump, Unreachable,
                  Crash, Heard, OnError, Go, Answer
    <3>3. reply'[r] = "reset" => pc'[r] = "done"
      BY <2>2, <2>4, <3>1 DEF Progress, Reserve, Commit, Abort, UpdateWrite, RemoveWrite,
                  CancelWrite, CancelOriginal, Compensate, SetStatus, Bump, Unreachable,
                  Crash, Heard, OnError, Go, Answer
    <3> QED
      BY <3>1, <3>2, <3>3 DEF CInv, UnderWay, AnyDied
  <2>5. ASSUME NEW r \in Request PROVE ~(UpdateWrite(r) \/ RemoveWrite(r) \/ CancelWrite(r))
    BY DEF UpdateWrite, RemoveWrite, CancelWrite, CInv, SInv, UnderWay
  <2>6. ~(\E b \in BookingId : FrontDesk(b))
    BY <1>1 DEF FrontDesk, Private
  <2>7. ASSUME NEW r \in Request, Arrival(r) \/ Progress(r) \/ Unreachable(r) PROVE Frugal
    BY <2>5, <2>7, QuietFrugal, CommitFrugal, SagaFrugal DEF Progress
  <2>8. ASSUME NEW r \in Request, Crash(r) PROVE AnyDied'
    BY <2>2, <2>8 DEF Crash, Answer, AnyDied
  <2>9. CASE UNCHANGED vars
    <3>1. UNCHANGED <<booking, pc, job, reply>>
      BY <2>9 DEF vars
    <3>2. Held' = Held /\ (AnyDied' <=> AnyDied)
      BY <3>1 DEF Held, Stays, Reserved, IsActive, childId, AnyDied
    <3> QED
      BY <2>1, <3>1, <3>2 DEF CInv, UnderWay
  <2>10. ASSUME Placed, Frugal \/ AnyDied' PROVE CInv'
    BY <1>1, <2>1, <2>10, FrugalKeeps DEF CInv
  <2> HIDE DEF Placed
  <2> QED
    BY <2>3, <2>4, <2>6, <2>7, <2>8, <2>9, <2>10 DEF Next, Rest
<1>4. CInv => StayConserved
  <2> SUFFICES ASSUME CInv, Quiet, ~AnyDied
               PROVE  Cardinality(Stays) = Cardinality(SeededStays)
    BY DEF StayConserved
  <2>1. Reserved = {}
    BY DEF Reserved, Quiet
  <2>2. Stays = Held
    BY <2>1 DEF Held
  <2>3. Cardinality(Held) \in Nat /\ Cardinality(SeededStays) \in Nat
    BY <1>1, FS_Subset, FS_CardinalityType DEF Moving, Held, Stays, SeededStays, BookingId
  <2> QED
    BY <2>2, <2>3 DEF CInv, SInv
<1> QED
  BY <1>2, <1>3, <1>4, PTL DEF Spec
=============================================================================
