--------------------------- MODULE BookingsProofs ---------------------------
(***************************************************************************)
(* What holds of Bookings for every set of requests, rooms, buckets, dates *)
(* and failures.                                                           *)
(***************************************************************************)
EXTENDS Bookings, TLAPS

\* What the handler of a request has established when it is at a step.
JobFits(r) ==
    /\ pc[r] \notin {"idle", "done"} => job[r] \in Job
    /\ pc[r] = "write" => job[r].op \in {"update", "cancel", "remove"}
    /\ pc[r] \in {"reserve", "commit"} => job[r].op \in {"create", "move", "saga"}
    /\ pc[r] = "commit" => job[r].stay.room \in Room
    /\ pc[r] = "write" /\ job[r].op = "update" =>
          SameBucket(job[r].id, job[r].fields, job[r].stay)

JobOK == \A r \in Request : JobFits(r)

Typed == TypeOK /\ JobOK

\* A request that goes on is at the step it goes to, the others stay where they are.
LEMMA GoStep ==
    ASSUME TypeOK, NEW r \in Request, NEW next \in Step, NEW code \in Code, Go(r, next, code)
    PROVE  /\ pc' \in [Request -> Step]
           /\ reply' \in [Request -> Code]
           /\ pc'[r] = next
           /\ \A q \in Request \ {r} : pc'[q] = pc[q]
BY DEF Go, TypeOK

\* A request that is answered is done, the others stay where they are.
LEMMA AnswerStep ==
    ASSUME TypeOK, NEW r \in Request, NEW code \in Code, Answer(r, code)
    PROVE  /\ pc' \in [Request -> Step]
           /\ reply' \in [Request -> Code]
           /\ pc'[r] = "done"
           /\ \A q \in Request \ {r} : pc'[q] = pc[q]
BY DEF Answer, TypeOK, Step

\* An error ends a request, except in T2, which goes to C1, and in C1, whose
\* error is logged and swallowed.
LEMMA OnErrorStep ==
    ASSUME TypeOK, NEW r \in Request, NEW code \in Code, OnError(r, code)
    PROVE  /\ pc' \in [Request -> Step]
           /\ reply' \in [Request -> Code]
           /\ \/ pc'[r] = "done"
              \/ pc[r] = "T2" /\ pc'[r] = "C1"
              \/ pc[r] = "C1" /\ pc'[r] = "bump"
           /\ \A q \in Request \ {r} : pc'[q] = pc[q]
<1>1. reply[r] \in Code
  BY DEF TypeOK
<1>2. CASE pc[r] = "T2"
  BY <1>2, GoStep DEF OnError, Step
<1>3. CASE pc[r] = "C1"
  BY <1>1, <1>3, GoStep DEF OnError, Step
<1>4. CASE pc[r] \notin {"T2", "C1"}
  BY <1>4, AnswerStep DEF OnError
<1> QED
  BY <1>2, <1>3, <1>4

\* A statement whose answer may be lost: the request goes on, or treats it as an
\* error.
LEMMA HeardStep ==
    ASSUME TypeOK, NEW r \in Request, NEW next \in Step, NEW code \in Code, Heard(r, next, code)
    PROVE  /\ pc' \in [Request -> Step]
           /\ reply' \in [Request -> Code]
           /\ \/ pc'[r] = next
              \/ pc'[r] = "done"
              \/ pc[r] = "T2" /\ pc'[r] = "C1"
              \/ pc[r] = "C1" /\ pc'[r] = "bump"
           /\ \A q \in Request \ {r} : pc'[q] = pc[q]
<1>1. "503" \in Code
  BY DEF Code
<1>2. CASE Go(r, next, code)
  BY <1>2, GoStep
<1>3. CASE OnError(r, "503")
  BY <1>1, <1>3, OnErrorStep
<1> QED
  BY <1>2, <1>3 DEF Heard

\* A row that is there is a proper booking.
LEMMA RowOK ==
    ASSUME TypeOK, NEW b \in BookingId
    PROVE  /\ Exists(b) => booking[b] \in Booking
           /\ IsActive(b) => booking[b] \in Booking
BY DEF TypeOK, Exists, IsActive, Active, Absent

\* A booking whose status is overwritten is a booking.
LEMMA CancelledRow ==
    ASSUME NEW row \in Booking, NEW s \in Status
    PROVE  [row EXCEPT !.status = s] \in Booking
BY DEF Booking

\* A single-statement write of a proper row keeps the tables proper.
LEMMA PutType ==
    ASSUME TypeOK, NEW b \in BookingId, NEW row \in Booking \cup {Absent}, Put(b, row)
    PROVE  /\ booking' \in [BookingId -> Booking \cup {Absent}]
           /\ doomed' \subseteq Request
BY DEF TypeOK, Put, Updating

\* The service starts well typed, whatever proper tables it is started with.
LEMMA InitTyped == Init => Typed
<1> SUFFICES ASSUME Init PROVE Typed
  OBVIOUS
<1>1. booking \in [BookingId -> Booking \cup {Absent}]
  BY SeededAssumption DEF Init, BookingId
<1>2. attempt \in [Request -> 1 .. Retries]
  <2>1. 1 \in 1 .. Retries
    BY ParametersAssumption
  <2> QED
    BY <2>1 DEF Init
<1>3. /\ pc \in [Request -> Step]
      /\ job \in [Request -> Job \cup {NoJob}]
      /\ doomed \subseteq Request
      /\ reply \in [Request -> Code]
      /\ stale \in BOOLEAN
      /\ unchecked \subseteq BookingId
  BY DEF Init, Step, Code
<1>4. TypeOK
  BY <1>1, <1>2, <1>3 DEF TypeOK
<1>5. JobOK
  BY DEF Init, JobOK, JobFits
<1> QED
  BY <1>4, <1>5 DEF Typed

\* A step of r disturbs what the handler of r has established and no other's.
LEMMA OthersFit ==
    ASSUME JobOK, NEW r \in Request, JobFits(r)',
           \A q \in Request \ {r} : pc'[q] = pc[q] /\ job'[q] = job[q]
    PROVE  JobOK'
BY DEF JobOK, JobFits

\* childId() makes an id in the bucket of the room that is booked.
LEMMA ChildId ==
    ASSUME NEW r \in Request, job[r] \in Job
    PROVE  /\ childId(r) \in BookingId
           /\ bucketOf(childId(r)) = bucketOf(job[r].stay.room)
BY ParametersAssumption DEF Job, Stay, childId, BookingId, bucketOf

\* The common part of all handlers up to their first write or transaction.
LEMMA ArriveStep ==
    ASSUME Typed, NEW r \in Request,
           NEW op \in {"create", "update", "cancel", "remove", "move", "saga"},
           NEW b \in BookingId, NEW stay \in Stay, NEW fields \in SUBSET PatchField,
           NEW status \in Status, NEW next \in {"reserve", "write"},
           Arrive(r, op, b, stay, fields, status, next),
           next = "write" => op \in {"update", "cancel", "remove"},
           next = "reserve" => op \in {"create", "move", "saga"},
           op = "update" => SameBucket(b, fields, stay),
           UNCHANGED <<booking, attempt, doomed, stale, unchecked>>
    PROVE  Typed'
<1>1. Go(r, next, "none") /\ next \in Step /\ "none" \in Code
  BY DEF Arrive, Step, Code
<1>2. /\ pc' \in [Request -> Step]
      /\ reply' \in [Request -> Code]
      /\ pc'[r] = next
      /\ \A q \in Request \ {r} : pc'[q] = pc[q]
  BY <1>1, GoStep DEF Typed
<1>3. DEFINE j == [op |-> op, id |-> b, stay |-> stay, fields |-> fields, status |-> status]
<1>4. j \in Job
  BY DEF Job
<1>5. job' = [job EXCEPT ![r] = j]
  BY DEF Arrive
<1> HIDE DEF j
<1>6. job' \in [Request -> Job \cup {NoJob}] /\ job'[r] = j
  BY <1>4, <1>5 DEF Typed, TypeOK
<1>7. TypeOK'
  BY <1>2, <1>6 DEF Typed, TypeOK
<1>8. JobFits(r)'
  BY <1>2, <1>4, <1>6 DEF JobFits, j
<1>9. JobOK'
  BY <1>2, <1>5, <1>8, OthersFit DEF Typed, TypeOK
<1> QED
  BY <1>7, <1>9 DEF Typed

\* A request that ends without a write leaves everything well typed.
LEMMA RefusedTyped ==
    ASSUME Typed, NEW r \in Request, NEW code \in Code, Answer(r, code),
           doomed' \subseteq doomed,
           UNCHANGED <<booking, job, attempt, stale, unchecked>>
    PROVE  Typed'
<1>1. /\ pc' \in [Request -> Step]
      /\ reply' \in [Request -> Code]
      /\ pc'[r] = "done"
      /\ \A q \in Request \ {r} : pc'[q] = pc[q]
  BY AnswerStep DEF Typed
<1>2. TypeOK'
  BY <1>1 DEF Typed, TypeOK
<1>3. JobFits(r)'
  BY <1>1 DEF JobFits
<1>4. JobOK'
  BY <1>1, <1>3, OthersFit DEF Typed
<1> QED
  BY <1>2, <1>4 DEF Typed

\* A step of r that keeps what it was asked and leaves r at pc'[r].
LEMMA StepTyped ==
    ASSUME Typed, NEW r \in Request,
           booking' \in [BookingId -> Booking \cup {Absent}],
           doomed' \subseteq Request,
           stale' \in BOOLEAN,
           unchecked' \subseteq BookingId,
           attempt' \in [Request -> 1 .. Retries],
           job' = job,
           pc[r] \notin {"idle", "done"},
           pc' \in [Request -> Step],
           reply' \in [Request -> Code],
           \A q \in Request \ {r} : pc'[q] = pc[q],
           pc'[r] \in {"reserve", "commit"} => pc[r] \in {"reserve", "commit"},
           pc'[r] = "commit" => job[r].stay.room \in Room,
           pc'[r] # "write"
    PROVE  Typed'
<1>1. TypeOK'
  BY DEF Typed, TypeOK
<1>2. JobFits(r)'
  BY DEF Typed, JobOK, JobFits
<1>3. JobOK'
  BY <1>2, OthersFit DEF Typed
<1> QED
  BY <1>1, <1>3 DEF Typed

\* POST /bookings up to its transaction.
LEMMA CreateTyped ==
    ASSUME Typed, NEW r \in Request, Create(r)
    PROVE  Typed'
<1>1. PICK room \in Room \cup UnknownRoom, in \in Day, out \in Day :
          \/ /\ in < out
             /\ LET stay == [room |-> room, in |-> in, out |-> out,
                             status |-> "PENDING"]
                IN  Arrive(r, "create", <<bucketOf(room), r>>, stay, {},
                           "PENDING", "reserve")
          \/ /\ out <= in
             /\ Answer(r, "400")
             /\ UNCHANGED job
  BY DEF Create
<1>2. UNCHANGED <<booking, attempt, doomed, stale, unchecked>>
  BY DEF Create
<1>3. CASE Answer(r, "400") /\ UNCHANGED job
  BY <1>2, <1>3, RefusedTyped DEF Code
<1>4. CASE Arrive(r, "create", <<bucketOf(room), r>>,
                  [room |-> room, in |-> in, out |-> out, status |-> "PENDING"],
                  {}, "PENDING", "reserve")
  <2>1. /\ <<bucketOf(room), r>> \in BookingId
        /\ [room |-> room, in |-> in, out |-> out, status |-> "PENDING"] \in Stay
        /\ "PENDING" \in Status
    BY ParametersAssumption DEF BookingId, Stay, Status
  <2> QED
    BY <1>2, <1>4, <2>1, ArriveStep
<1> QED
  BY <1>1, <1>3, <1>4

\* PATCH up to its write: the bucket has been compared.
LEMMA UpdateTyped ==
    ASSUME Typed, NEW r \in Request, NEW b \in BookingId, Update(r, b)
    PROVE  Typed'
<1>1. PICK fields \in SUBSET PatchField, stay \in Stay :
          \/ /\ SameBucket(b, fields, stay)
             /\ Arrive(r, "update", b, stay, fields, stay.status, "write")
          \/ /\ Answer(r, "400")
             /\ UNCHANGED job
  BY DEF Update
<1>2. UNCHANGED <<booking, attempt, doomed, stale, unchecked>>
  BY DEF Update
<1>3. stay.status \in Status
  BY DEF Stay
<1>4. CASE Answer(r, "400") /\ UNCHANGED job
  BY <1>2, <1>4, RefusedTyped DEF Code
<1>5. CASE /\ SameBucket(b, fields, stay)
           /\ Arrive(r, "update", b, stay, fields, stay.status, "write")
  BY <1>2, <1>3, <1>5, ArriveStep
<1> QED
  BY <1>1, <1>4, <1>5

\* DELETE up to its write.
LEMMA RemoveTyped ==
    ASSUME Typed, NEW r \in Request, NEW b \in BookingId, Remove(r, b)
    PROVE  Typed'
<1>1. booking[b] \in Stay /\ booking[b].status \in Status
  BY RowOK DEF Typed, Remove, Known, Booking, Stay
<1> QED
  BY <1>1, ArriveStep DEF Remove

\* cancel() up to its write.
LEMMA CancelTyped ==
    ASSUME Typed, NEW r \in Request, NEW b \in BookingId, Cancel(r, b)
    PROVE  Typed'
<1>1. booking[b] \in Stay /\ booking[b].status \in Status
  BY RowOK DEF Typed, Cancel, Known, Booking, Stay
<1>2. CASE Answer(r, "409") /\ UNCHANGED job
  BY <1>2, RefusedTyped DEF Cancel, Code
<1>3. CASE Arrive(r, "cancel", b, booking[b], {}, booking[b].status, "write")
  BY <1>1, <1>3, ArriveStep DEF Cancel
<1> QED
  BY <1>2, <1>3 DEF Cancel

\* relocate() up to its transaction or to T1.
LEMMA RelocateTyped ==
    ASSUME Typed, NEW r \in Request, NEW b \in BookingId, Relocate(r, b)
    PROVE  Typed'
<1> DEFINE local(room) == forKey(room) = forKey(b)
           moved(room) == [booking[b] EXCEPT !.room = room,
                             !.status = IF local(room) THEN @ ELSE "PENDING"]
<1>1. PICK room \in Room \cup UnknownRoom :
          \/ Arrive(r, IF local(room) THEN "move" ELSE "saga", b, moved(room), {},
                    booking[b].status, "reserve")
          \/ Answer(r, "409") /\ UNCHANGED job
          \/ Answer(r, "400") /\ UNCHANGED job
  BY DEF Relocate
<1>2. UNCHANGED <<booking, attempt, doomed, stale, unchecked>>
  BY DEF Relocate
<1>3. booking[b] \in Booking
  BY RowOK DEF Typed, Relocate, Known
<1>4. moved(room) \in Stay /\ booking[b].status \in Status
  BY <1>3 DEF Booking, Stay, Status
<1>5. CASE Arrive(r, IF local(room) THEN "move" ELSE "saga", b, moved(room), {},
                  booking[b].status, "reserve")
  <2> HIDE DEF moved, local
  <2> QED
    BY <1>2, <1>4, <1>5, ArriveStep
<1>6. CASE \E code \in {"409", "400"} : Answer(r, code) /\ UNCHANGED job
  BY <1>2, <1>6, RefusedTyped DEF Code
<1> QED
  BY <1>1, <1>5, <1>6

\* The check of reserve(): a transaction that goes on has found its room.
LEMMA ReserveTyped ==
    ASSUME Typed, NEW r \in Request, Reserve(r)
    PROVE  Typed'
<1>1. CASE \E code \in {"404", "409"} : Answer(r, code) /\ UNCHANGED doomed
  BY <1>1, RefusedTyped DEF Reserve, Code
<1>2. CASE /\ job[r].stay.room \in Room
           /\ Go(r, "commit", "none")
           /\ doomed' = doomed \ {r}
  <2>1. "commit" \in Step /\ "none" \in Code
    BY DEF Step, Code
  <2> QED
    BY <1>2, <2>1, GoStep, StepTyped DEF Reserve, Typed, TypeOK
<1> QED
  BY <1>1, <1>2 DEF Reserve

\* The COMMIT writes a proper row: the room has been found before.
LEMMA CommitTyped ==
    ASSUME Typed, NEW r \in Request, Commit(r)
    PROVE  Typed'
<1>1. job[r] \in Job /\ job[r].op \in {"create", "move", "saga"} /\ job[r].stay.room \in Room
  BY DEF Typed, JobOK, JobFits, Commit
<1>2. CASE Answer(r, "500") /\ UNCHANGED <<booking, doomed, stale>>
  BY <1>2, RefusedTyped DEF Commit, Code
<1>3. CASE ~UNCHANGED <<booking, doomed, stale>> \/ ~Answer(r, "500")
  <2> DEFINE next == IF job[r].op = "saga" THEN "T2" ELSE "bump"
             code == IF job[r].op = "saga" THEN "none" ELSE "200"
  <2>1. /\ job[r].op = "move" => Exists(job[r].id)
        /\ booking' = [b \in BookingId |->
              CASE b = childId(r) -> job[r].stay
                [] b # childId(r) /\ b \in Excluded(r) ->
                      [booking[b] EXCEPT !.status = "CANCELLED"]
                [] OTHER -> booking[b]]
        /\ doomed' = doomed \cup Reading(r)
                      \cup UNION {Updating(b) \ {r} : b \in Excluded(r)}
        /\ stale' = TRUE
        /\ Heard(r, next, code)
    BY <1>3 DEF Commit
  <2>2. next \in Step /\ code \in Code
    BY DEF Step, Code
  <2> HIDE DEF next, code
  <2>3. job[r].stay \in Booking
    BY <1>1 DEF Job, Stay, Booking
  <2>4. \A b \in BookingId : b \in Excluded(r) =>
            [booking[b] EXCEPT !.status = "CANCELLED"] \in Booking
    <3> SUFFICES ASSUME NEW b \in BookingId, b \in Excluded(r)
                 PROVE  [booking[b] EXCEPT !.status = "CANCELLED"] \in Booking
      OBVIOUS
    <3>1. Exists(b)
      BY <2>1 DEF Excluded
    <3> QED
      BY <3>1, RowOK, CancelledRow DEF Typed, Status
  <2>5. booking' \in [BookingId -> Booking \cup {Absent}]
    BY <2>1, <2>3, <2>4 DEF Typed, TypeOK
  <2>6. doomed' \subseteq Request
    BY <2>1 DEF Typed, TypeOK, Reading, Updating
  <2>7. /\ pc' \in [Request -> Step]
        /\ reply' \in [Request -> Code]
        /\ pc'[r] \in {next, "done"}
        /\ \A q \in Request \ {r} : pc'[q] = pc[q]
    BY <2>1, <2>2, HeardStep DEF Typed, Commit
  <2>8. next \in {"T2", "bump"}
    BY DEF next
  <2> QED
    BY <2>1, <2>5, <2>6, <2>7, <2>8, StepTyped DEF Typed, TypeOK, Commit
<1> QED
  BY <1>2, <1>3

\* P2034: attempts are counted up to SERIALIZATION_RETRIES.
LEMMA AbortTyped ==
    ASSUME Typed, NEW r \in Request, Abort(r)
    PROVE  Typed'
<1>1. CASE attempt[r] < Retries
  <2>1. "reserve" \in Step /\ "none" \in Code
    BY DEF Step, Code
  <2>2. attempt' \in [Request -> 1 .. Retries]
    BY <1>1, ParametersAssumption DEF Abort, Typed, TypeOK
  <2>3. Go(r, "reserve", "none")
    BY <1>1, ParametersAssumption DEF Abort, Typed, TypeOK
  <2> QED
    BY <2>1, <2>2, <2>3, GoStep, StepTyped DEF Abort, Typed, TypeOK
<1>2. CASE ~(attempt[r] < Retries)
  BY <1>2, RefusedTyped DEF Abort, Code
<1> QED
  BY <1>1, <1>2

\* The single-statement writes: a row is put and the request goes on.
LEMMA WriteTyped ==
    ASSUME Typed, NEW r \in Request, NEW b \in BookingId,
           NEW row \in Booking \cup {Absent}, Put(b, row),
           pc[r] \in {"write", "T2", "T3"},
           NEW next \in {"bump", "T3"}, NEW code \in Code, Heard(r, next, code),
           stale' = TRUE, unchecked' \subseteq BookingId,
           UNCHANGED <<job, attempt>>
    PROVE  Typed'
<1>1. booking' \in [BookingId -> Booking \cup {Absent}] /\ doomed' \subseteq Request
  BY PutType DEF Typed
<1>2. next \in Step
  BY DEF Step
<1>3. /\ pc' \in [Request -> Step]
      /\ reply' \in [Request -> Code]
      /\ pc'[r] \in {next, "done", "C1", "bump"}
      /\ \A q \in Request \ {r} : pc'[q] = pc[q]
  BY <1>2, HeardStep DEF Typed
<1> QED
  BY <1>1, <1>3, StepTyped DEF Typed, TypeOK

\* The value PATCH gives a row.
Patched(r) ==
    [f \in {"room", "in", "out", "status"} |->
        IF f \in job[r].fields THEN job[r].stay[f] ELSE booking[job[r].id][f]]

\* A row with the fields of a PATCH is a booking of the same status, in its room
\* or in the room of the PATCH.
LEMMA PatchedOK ==
    ASSUME Typed, NEW r \in Request, job[r] \in Job, Exists(job[r].id),
           "room" \in job[r].fields => job[r].stay.room \in Room
    PROVE  /\ Patched(r) \in Booking
           /\ Patched(r).status = booking[job[r].id].status
           /\ job[r].fields = {} => Patched(r) = booking[job[r].id]
           /\ Patched(r).room = IF "room" \in job[r].fields THEN job[r].stay.room
                                                            ELSE booking[job[r].id].room
<1>1. job[r].id \in BookingId /\ job[r].stay \in Stay /\ job[r].fields \subseteq PatchField
  BY DEF Job
<1>2. booking[job[r].id] \in Booking
  BY <1>1, RowOK DEF Typed
<1>3. Patched(r) = [room |-> Patched(r).room, in |-> Patched(r).in,
                    out |-> Patched(r).out, status |-> Patched(r).status]
  BY DEF Patched
<1>4. /\ Patched(r).room \in Room
      /\ Patched(r).in \in Day
      /\ Patched(r).out \in Day
      /\ Patched(r).status \in Status
      /\ Patched(r).status = booking[job[r].id].status
  BY <1>1, <1>2 DEF Patched, Stay, Booking, PatchField
<1>5. Patched(r) \in Booking
  BY <1>3, <1>4 DEF Booking
<1>6. Patched(r).room = IF "room" \in job[r].fields THEN job[r].stay.room
                                                    ELSE booking[job[r].id].room
  BY DEF Patched
<1>7. ASSUME job[r].fields = {}
      PROVE  Patched(r) = booking[job[r].id]
  <2>1. booking[job[r].id] =
          [room |-> booking[job[r].id].room, in |-> booking[job[r].id].in,
           out |-> booking[job[r].id].out, status |-> booking[job[r].id].status]
    BY <1>2 DEF Booking
  <2> QED
    BY <1>3, <1>7, <2>1 DEF Patched
<1> QED
  BY <1>4, <1>5, <1>6, <1>7

\* The write of PATCH.
LEMMA UpdateWriteTyped ==
    ASSUME Typed, NEW r \in Request, UpdateWrite(r)
    PROVE  Typed'
<1>1. job[r] \in Job /\ job[r].id \in BookingId
  BY DEF Typed, JobOK, JobFits, UpdateWrite, Job
<1>2. CASE Answer(r, "500") /\ UNCHANGED <<booking, doomed, stale, unchecked>>
  BY <1>2, RefusedTyped DEF UpdateWrite, Code
<1>3. CASE ~(Answer(r, "500") /\ UNCHANGED <<booking, doomed, stale, unchecked>>)
  <2>1. /\ Exists(job[r].id)
        /\ "room" \in job[r].fields => job[r].stay.room \in Room
        /\ Put(job[r].id, Patched(r))
        /\ stale' = TRUE
        /\ unchecked' = IF job[r].fields = {} THEN unchecked
                                              ELSE unchecked \cup {job[r].id}
        /\ Heard(r, "bump", "200")
    BY <1>3 DEF UpdateWrite, Patched
  <2>2. Patched(r) \in Booking
    BY <1>1, <2>1, PatchedOK
  <2>3. unchecked' \subseteq BookingId
    BY <1>1, <2>1 DEF Typed, TypeOK
  <2>4. "200" \in Code
    BY DEF Code
  <2> QED
    BY <1>1, <2>1, <2>2, <2>3, <2>4, WriteTyped DEF UpdateWrite
<1> QED
  BY <1>2, <1>3

\* The write of DELETE.
LEMMA RemoveWriteTyped ==
    ASSUME Typed, NEW r \in Request, RemoveWrite(r)
    PROVE  Typed'
<1>1. job[r] \in Job /\ job[r].id \in BookingId
  BY DEF Typed, JobOK, JobFits, RemoveWrite, Job
<1>2. CASE Answer(r, "500") /\ UNCHANGED <<booking, doomed, stale>>
  BY <1>2, RefusedTyped DEF RemoveWrite, Code
<1>3. CASE Put(job[r].id, Absent) /\ stale' = TRUE /\ Heard(r, "bump", "200")
  BY <1>1, <1>3, WriteTyped DEF RemoveWrite, Code, Typed, TypeOK
<1> QED
  BY <1>2, <1>3 DEF RemoveWrite

\* The write of cancel().
LEMMA CancelWriteTyped ==
    ASSUME Typed, NEW r \in Request, CancelWrite(r)
    PROVE  Typed'
<1>1. job[r] \in Job /\ job[r].id \in BookingId
  BY DEF Typed, JobOK, JobFits, CancelWrite, Job
<1>2. CASE Answer(r, "500") /\ UNCHANGED <<booking, doomed, stale>>
  BY <1>2, RefusedTyped DEF CancelWrite, Code
<1>3. CASE /\ Exists(job[r].id)
           /\ Put(job[r].id, [booking[job[r].id] EXCEPT !.status = "CANCELLED"])
           /\ stale' = TRUE
           /\ Heard(r, "bump", "200")
  <2>1. [booking[job[r].id] EXCEPT !.status = "CANCELLED"] \in Booking
    BY <1>1, <1>3, RowOK, CancelledRow DEF Typed, Status
  <2> QED
    BY <1>1, <1>3, <2>1, WriteTyped DEF CancelWrite, Code, Typed, TypeOK
<1> QED
  BY <1>2, <1>3 DEF CancelWrite

\* T2 of the saga.
LEMMA CancelOriginalTyped ==
    ASSUME Typed, NEW r \in Request, CancelOriginal(r)
    PROVE  Typed'
<1>1. job[r] \in Job /\ job[r].id \in BookingId
  BY DEF Typed, JobOK, JobFits, CancelOriginal, Job
<1>2. CASE Go(r, "C1", "409") /\ UNCHANGED <<booking, doomed, stale>>
  <2>1. "C1" \in Step /\ "409" \in Code
    BY DEF Step, Code
  <2> QED
    BY <1>2, <2>1, GoStep, StepTyped DEF CancelOriginal, Typed, TypeOK
<1>3. CASE /\ IsActive(job[r].id)
           /\ Put(job[r].id, [booking[job[r].id] EXCEPT !.status = "CANCELLED"])
           /\ stale' = TRUE
           /\ Heard(r, "T3", "none")
  <2>1. [booking[job[r].id] EXCEPT !.status = "CANCELLED"] \in Booking
    BY <1>1, <1>3, RowOK, CancelledRow DEF Typed, Status
  <2> QED
    BY <1>1, <1>3, <2>1, WriteTyped DEF CancelOriginal, Code, Typed, TypeOK
<1> QED
  BY <1>2, <1>3 DEF CancelOriginal

\* C1 of the saga.
LEMMA CompensateTyped ==
    ASSUME Typed, NEW r \in Request, Compensate(r)
    PROVE  Typed'
<1>1. job[r] \in Job /\ childId(r) \in BookingId /\ reply[r] \in Code
  BY ChildId DEF Typed, TypeOK, JobOK, JobFits, Compensate
<1>2. Go(r, "bump", reply[r]) /\ "bump" \in Step
  BY DEF Compensate, Step
<1>3. /\ booking' \in [BookingId -> Booking \cup {Absent}]
      /\ doomed' \subseteq Request
      /\ stale' \in BOOLEAN
  <2>1. CASE UNCHANGED <<booking, doomed, stale>>
    BY <2>1 DEF Typed, TypeOK
  <2>2. CASE /\ booking[childId(r)].status = "PENDING"
             /\ Put(childId(r), [booking[childId(r)] EXCEPT !.status = "CANCELLED"])
             /\ stale' = TRUE
    <3>1. [booking[childId(r)] EXCEPT !.status = "CANCELLED"] \in Booking
      BY <1>1, <2>2, RowOK, CancelledRow DEF Typed, Status, IsActive, Active
    <3> QED
      BY <1>1, <2>2, <3>1, PutType DEF Typed
  <2> QED
    BY <2>1, <2>2 DEF Compensate
<1> QED
  BY <1>1, <1>2, <1>3, GoStep, StepTyped DEF Compensate, Typed, TypeOK

\* T3 of the saga.
LEMMA SetStatusTyped ==
    ASSUME Typed, NEW r \in Request, SetStatus(r)
    PROVE  Typed'
<1>1. job[r] \in Job /\ childId(r) \in BookingId /\ job[r].status \in Status
  BY ChildId DEF Typed, JobOK, JobFits, SetStatus, Job
<1>2. CASE Answer(r, "500") /\ UNCHANGED <<booking, doomed, stale, unchecked>>
  BY <1>2, RefusedTyped DEF SetStatus, Code
<1>3. CASE /\ Exists(childId(r))
           /\ Put(childId(r), [booking[childId(r)] EXCEPT !.status = job[r].status])
           /\ stale' = TRUE
           /\ unchecked' = IF IsActive(childId(r)) THEN unchecked
                                                   ELSE unchecked \cup {childId(r)}
           /\ Heard(r, "bump", "200")
  <2>1. [booking[childId(r)] EXCEPT !.status = job[r].status] \in Booking
    BY <1>1, <1>3, RowOK, CancelledRow DEF Typed
  <2>2. unchecked' \subseteq BookingId
    BY <1>1, <1>3 DEF Typed, TypeOK
  <2> QED
    BY <1>1, <1>3, <2>1, <2>2, WriteTyped DEF SetStatus, Code
<1> QED
  BY <1>2, <1>3 DEF SetStatus

\* The INCR of the search version.
LEMMA BumpTyped ==
    ASSUME Typed, NEW r \in Request, Bump(r)
    PROVE  Typed'
<1>1. reply[r] \in Code
  BY DEF Typed, TypeOK
<1> QED
  BY <1>1, AnswerStep, StepTyped DEF Bump, Typed, TypeOK

\* A statement that the database refuses.
LEMMA UnreachableTyped ==
    ASSUME Typed, NEW r \in Request, Unreachable(r)
    PROVE  Typed'
<1>1. \E code \in Code : OnError(r, code)
  BY DEF Unreachable, Code
<1> QED
  BY <1>1, OnErrorStep, StepTyped DEF Unreachable, Typed, TypeOK

\* The instance dies.
LEMMA CrashTyped ==
    ASSUME Typed, NEW r \in Request, Crash(r)
    PROVE  Typed'
BY RefusedTyped DEF Crash, Code

\* The front desk sets a status.
LEMMA FrontDeskTyped ==
    ASSUME Typed, NEW b \in BookingId, FrontDesk(b)
    PROVE  Typed'
<1>1. booking[b] \in Booking
  BY RowOK DEF Typed, FrontDesk
<1>2. PICK s \in Status : Put(b, [booking[b] EXCEPT !.status = s])
  BY DEF FrontDesk, Status
<1>3. [booking[b] EXCEPT !.status = s] \in Booking
  BY <1>1, CancelledRow
<1>4. booking' \in [BookingId -> Booking \cup {Absent}] /\ doomed' \subseteq Request
  BY <1>2, <1>3, PutType DEF Typed
<1> QED
  BY <1>4 DEF FrontDesk, Typed, TypeOK, JobOK, JobFits

\* Every step keeps the types and what the handlers have established.
LEMMA TypedStep == Typed /\ [Next]_vars => Typed'
<1> SUFFICES ASSUME Typed, [Next]_vars PROVE Typed'
  OBVIOUS
<1>1. ASSUME NEW r \in Request, Arrival(r) PROVE Typed'
  BY <1>1, CreateTyped, UpdateTyped, RemoveTyped, CancelTyped, RelocateTyped DEF Arrival
<1>2. ASSUME NEW r \in Request, Progress(r) PROVE Typed'
  BY <1>2, ReserveTyped, CommitTyped, AbortTyped, UpdateWriteTyped, RemoveWriteTyped,
     CancelWriteTyped, CancelOriginalTyped, CompensateTyped, SetStatusTyped, BumpTyped
     DEF Progress
<1>3. ASSUME NEW r \in Request, Unreachable(r) PROVE Typed'
  BY <1>3, UnreachableTyped
<1>4. ASSUME NEW r \in Request, Crash(r) PROVE Typed'
  BY <1>4, CrashTyped
<1>5. ASSUME NEW b \in BookingId, FrontDesk(b) PROVE Typed'
  BY <1>5, FrontDeskTyped
<1>6. CASE UNCHANGED vars
  BY <1>6 DEF vars, Typed, TypeOK, JobOK, JobFits
<1> QED
  BY <1>1, <1>2, <1>3, <1>4, <1>5, <1>6 DEF Next, Rest

(* Every variable keeps its type, and a request at a step of its handler    *)
(* has read what that step uses.                                            *)
THEOREM TypeCorrect == Spec => []TypeOK
<1>1. Typed => TypeOK
  BY DEF Typed
<1> QED
  BY <1>1, InitTyped, TypedStep, PTL DEF Spec

-----------------------------------------------------------------------------
(***************************************************************************)
(* Double booking.  OverlapOnlyUnchecked is not inductive by itself: an    *)
(* open transaction has decided on its snapshot that the room is free, and *)
(* what it inserts at commit overlaps nothing only if every booking that   *)
(* took the room since then doomed it.  Guarded says so.                   *)
(***************************************************************************)
Guarded ==
    \A r \in Request :
        pc[r] = "commit" /\ r \notin doomed => Conflicts(r) \subseteq unchecked

IInv == Typed /\ Guarded /\ OverlapOnlyUnchecked

\* A step that gives no booking a new place in the calendar of a room
\* without recording it, and opens no transaction.
Harmless ==
    /\ unchecked \subseteq unchecked'
    /\ \A b \in BookingId :
          (IsActive(b))' =>
              \/ b \in unchecked'
              \/ /\ IsActive(b)
                 /\ booking'[b].room = booking[b].room
                 /\ booking'[b].in = booking[b].in
                 /\ booking'[b].out = booking[b].out
    /\ \A q \in Request :
          pc'[q] = "commit" /\ q \notin doomed' =>
              pc[q] = "commit" /\ q \notin doomed /\ job'[q] = job[q]

\* A harmless step keeps the check of open transactions valid and books nothing
\* twice.
LEMMA HarmlessStep ==
    ASSUME IInv, Harmless
    PROVE  Guarded' /\ OverlapOnlyUnchecked'
<1>1. ASSUME NEW q \in Request, pc'[q] = "commit", q \notin doomed', NEW b \in (Conflicts(q))'
      PROVE  b \in unchecked'
  <2>1. pc[q] = "commit" /\ q \notin doomed /\ job'[q] = job[q]
    BY <1>1 DEF Harmless
  <2>2. /\ b \in BookingId
        /\ b \notin Excluded(q)
        /\ (IsActive(b))'
        /\ Overlap(booking'[b], job[q].stay)
    BY <1>1, <2>1 DEF Conflicts, Excluded
  <2>3. CASE b \in unchecked'
    BY <2>3
  <2>4. CASE /\ IsActive(b)
             /\ booking'[b].room = booking[b].room
             /\ booking'[b].in = booking[b].in
             /\ booking'[b].out = booking[b].out
    <3>1. b \in Conflicts(q)
      BY <2>2, <2>4 DEF Conflicts, Overlap
    <3> QED
      BY <2>1, <3>1 DEF IInv, Guarded, Harmless
  <2> QED
    BY <2>2, <2>3, <2>4 DEF Harmless
<1>2. ASSUME NEW a \in BookingId, NEW b \in BookingId, (DoubleBooked(a, b))',
             a \notin unchecked', b \notin unchecked'
      PROVE  FALSE
  <2>1. DoubleBooked(a, b)
    BY <1>2 DEF Harmless, DoubleBooked, Overlap
  <2> QED
    BY <1>2, <2>1 DEF IInv, OverlapOnlyUnchecked, Harmless
<1> QED
  BY <1>1, <1>2 DEF Guarded, OverlapOnlyUnchecked

\* A write that keeps the place of a row and leaves it inactive unless it
\* was active.
LEMMA PutHarmless ==
    ASSUME Typed, NEW b \in BookingId, NEW row, Put(b, row),
           unchecked \subseteq unchecked',
           \/ row.status \notin Active
           \/ b \in unchecked'
           \/ /\ IsActive(b)
              /\ row.room = booking[b].room
              /\ row.in = booking[b].in
              /\ row.out = booking[b].out,
           job' = job,
           \A q \in Request : pc'[q] = "commit" => pc[q] = "commit"
    PROVE  Harmless
<1>1. booking'[b] = row /\ \A a \in BookingId \ {b} : booking'[a] = booking[a]
  BY DEF Put, Typed, TypeOK
<1>2. doomed \subseteq doomed'
  BY DEF Put
<1> QED
  BY <1>1, <1>2 DEF Harmless, IsActive

\* A step that writes nothing and opens no transaction is harmless.
LEMMA StillHarmless ==
    ASSUME UNCHANGED <<booking, unchecked>>,
           \A q \in Request :
              pc'[q] = "commit" /\ q \notin doomed' =>
                  pc[q] = "commit" /\ q \notin doomed /\ job'[q] = job[q]
    PROVE  Harmless
BY DEF Harmless, IsActive

\* Overwriting the status leaves room and dates.
LEMMA RowFields ==
    ASSUME NEW row \in Booking, NEW s
    PROVE  /\ [row EXCEPT !.status = s].status = s
           /\ [row EXCEPT !.status = s].room = row.room
           /\ [row EXCEPT !.status = s].in = row.in
           /\ [row EXCEPT !.status = s].out = row.out
BY DEF Booking

\* Handlers write nothing before their first statement.
LEMMA ArrivalHarmless ==
    ASSUME Typed, NEW r \in Request, Arrival(r)
    PROVE  Harmless
<1>1. UNCHANGED <<booking, doomed, unchecked>>
  BY DEF Arrival, Create, Update, Remove, Cancel, Relocate
<1>2. pc[r] = "idle"
  BY DEF Arrival, Create, Update, Remove, Cancel, Relocate
<1>3. PICK next \in Step \ {"commit"} : pc' = [pc EXCEPT ![r] = next]
  BY DEF Arrival, Create, Update, Remove, Cancel, Relocate, Arrive, Go, Answer, Step
<1>4. \/ UNCHANGED job
      \/ \E j : job' = [job EXCEPT ![r] = j]
  BY DEF Arrival, Create, Update, Remove, Cancel, Relocate, Arrive
<1> QED
  BY <1>1, <1>2, <1>3, <1>4, StillHarmless DEF Typed, TypeOK

\* The pc of r goes to a step other than "commit", nobody else's changes.
LEMMA LeavesCommit ==
    ASSUME Typed, NEW r \in Request, NEW next \in Step \ {"commit"}, NEW code \in Code,
           Heard(r, next, code)
    PROVE  /\ \A q \in Request : pc'[q] = "commit" => pc[q] = "commit" /\ q # r
           /\ pc' \in [Request -> Step]
BY HeardStep DEF Typed

\* The writes of PATCH (recorded as unchecked), DELETE and cancel().
LEMMA WriteHarmless ==
    ASSUME Typed, NEW r \in Request,
           UpdateWrite(r) \/ RemoveWrite(r) \/ CancelWrite(r)
    PROVE  Harmless
<1> DEFINE b == job[r].id
<1>1. job[r] \in Job /\ b \in BookingId /\ pc[r] = "write" /\ job' = job
  BY DEF Typed, JobOK, JobFits, UpdateWrite, RemoveWrite, CancelWrite, Job
<1>2. CASE Answer(r, "500") /\ UNCHANGED <<booking, doomed, unchecked>>
  BY <1>1, <1>2, StillHarmless DEF Answer, Typed, TypeOK
<1>3. CASE Heard(r, "bump", "200")
  <2>1. \A q \in Request : pc'[q] = "commit" => pc[q] = "commit"
    BY <1>3, LeavesCommit DEF Step, Code
  <2>2. CASE UpdateWrite(r) /\ ~(Answer(r, "500") /\ UNCHANGED <<booking, doomed, unchecked>>)
    <3>1. /\ Exists(b)
          /\ "room" \in job[r].fields => job[r].stay.room \in Room
          /\ Put(b, Patched(r))
          /\ unchecked' = IF job[r].fields = {} THEN unchecked ELSE unchecked \cup {b}
      BY <2>2 DEF UpdateWrite, Patched
    <3>2. CASE job[r].fields # {}
      BY <1>1, <2>1, <3>1, <3>2, PutHarmless
    <3>3. CASE job[r].fields = {}
      <4>1. Patched(r) = booking[b]
        BY <1>1, <3>1, <3>3, PatchedOK
      <4> QED
        BY <1>1, <2>1, <3>1, <3>3, <4>1, PutHarmless DEF IsActive
    <3> QED
      BY <3>2, <3>3
  <2>3. CASE RemoveWrite(r) /\ ~(Answer(r, "500") /\ UNCHANGED <<booking, doomed, unchecked>>)
    <3>1. Put(b, Absent) /\ unchecked' = unchecked
      BY <2>3 DEF RemoveWrite
    <3>2. Absent.status \notin Active
      BY DEF Absent, Active
    <3> QED
      BY <1>1, <2>1, <3>1, <3>2, PutHarmless
  <2>4. CASE CancelWrite(r) /\ ~(Answer(r, "500") /\ UNCHANGED <<booking, doomed, unchecked>>)
    <3>1. /\ Exists(b)
          /\ Put(b, [booking[b] EXCEPT !.status = "CANCELLED"])
          /\ unchecked' = unchecked
      BY <2>4 DEF CancelWrite
    <3>2. [booking[b] EXCEPT !.status = "CANCELLED"].status \notin Active
      BY <1>1, <3>1, RowOK, RowFields DEF Typed, Active
    <3> QED
      BY <1>1, <2>1, <3>1, <3>2, PutHarmless
  <2> QED
    BY <1>2, <2>2, <2>3, <2>4
<1> QED
  BY <1>2, <1>3 DEF UpdateWrite, RemoveWrite, CancelWrite

\* T2 only cancels.
LEMMA CancelOriginalHarmless ==
    ASSUME Typed, NEW r \in Request, CancelOriginal(r)
    PROVE  Harmless
<1> DEFINE b == job[r].id
<1>1. job[r] \in Job /\ b \in BookingId /\ pc[r] = "T2" /\ job' = job /\ unchecked' = unchecked
  BY DEF Typed, JobOK, JobFits, CancelOriginal, Job
<1>2. CASE Go(r, "C1", "409") /\ UNCHANGED <<booking, doomed>>
  BY <1>1, <1>2, StillHarmless DEF Go, Typed, TypeOK
<1>3. CASE /\ IsActive(b)
           /\ Put(b, [booking[b] EXCEPT !.status = "CANCELLED"])
           /\ Heard(r, "T3", "none")
  <2>1. \A q \in Request : pc'[q] = "commit" => pc[q] = "commit"
    BY <1>3, LeavesCommit DEF Step, Code
  <2>2. [booking[b] EXCEPT !.status = "CANCELLED"].status \notin Active
    BY <1>1, <1>3, RowOK, RowFields DEF Typed, Active
  <2> QED
    BY <1>1, <1>3, <2>1, <2>2, PutHarmless
<1> QED
  BY <1>2, <1>3 DEF CancelOriginal

\* C1 only cancels.
LEMMA CompensateHarmless ==
    ASSUME Typed, NEW r \in Request, Compensate(r)
    PROVE  Harmless
<1> DEFINE b == childId(r)
<1>1. /\ job[r] \in Job /\ b \in BookingId /\ pc[r] = "C1"
      /\ job' = job /\ unchecked' = unchecked
      /\ Go(r, "bump", reply[r])
  BY ChildId DEF Typed, JobOK, JobFits, Compensate
<1>2. \A q \in Request : pc'[q] = "commit" => pc[q] = "commit"
  BY <1>1 DEF Go, Typed, TypeOK
<1>3. CASE UNCHANGED <<booking, doomed>>
  BY <1>1, <1>2, <1>3, StillHarmless
<1>4. CASE /\ booking[b].status = "PENDING"
           /\ Put(b, [booking[b] EXCEPT !.status = "CANCELLED"])
  <2>1. [booking[b] EXCEPT !.status = "CANCELLED"].status \notin Active
    BY <1>1, <1>4, RowOK, RowFields DEF Typed, Active, IsActive
  <2> QED
    BY <1>1, <1>2, <1>4, <2>1, PutHarmless
<1> QED
  BY <1>3, <1>4 DEF Compensate

\* T3 revives nothing without recording it as unchecked.
LEMMA SetStatusHarmless ==
    ASSUME Typed, NEW r \in Request, SetStatus(r)
    PROVE  Harmless
<1> DEFINE b == childId(r)
<1>1. /\ job[r] \in Job /\ b \in BookingId /\ pc[r] = "T3" /\ job' = job
  BY ChildId DEF Typed, JobOK, JobFits, SetStatus
<1>2. CASE Answer(r, "500") /\ UNCHANGED <<booking, doomed, unchecked>>
  BY <1>1, <1>2, StillHarmless DEF Answer, Typed, TypeOK
<1>3. CASE /\ Exists(b)
           /\ Put(b, [booking[b] EXCEPT !.status = job[r].status])
           /\ unchecked' = IF IsActive(b) THEN unchecked ELSE unchecked \cup {b}
           /\ Heard(r, "bump", "200")
  <2>1. \A q \in Request : pc'[q] = "commit" => pc[q] = "commit"
    BY <1>3, LeavesCommit DEF Step, Code
  <2>2. booking[b] \in Booking
    BY <1>1, <1>3, RowOK DEF Typed
  <2> DEFINE row == [booking[b] EXCEPT !.status = job[r].status]
  <2>3. /\ row.room = booking[b].room
        /\ row.in = booking[b].in
        /\ row.out = booking[b].out
    BY <2>2, RowFields
  <2>4. unchecked \subseteq unchecked' /\ (b \in unchecked' \/ IsActive(b))
    BY <1>3
  <2>5. Put(b, row)
    BY <1>3
  <2> HIDE DEF row
  <2> QED
    BY <1>1, <2>1, <2>3, <2>4, <2>5, PutHarmless
<1> QED
  BY <1>2, <1>3 DEF SetStatus

\* The front desk changes active bookings only.
LEMMA FrontDeskHarmless ==
    ASSUME Typed, NEW b \in BookingId, FrontDesk(b)
    PROVE  Harmless
<1>1. IsActive(b) /\ booking[b] \in Booking
  BY RowOK DEF Typed, FrontDesk
<1>2. PICK s : Put(b, [booking[b] EXCEPT !.status = s])
  BY DEF FrontDesk
<1> QED
  BY <1>1, <1>2, RowFields, PutHarmless DEF FrontDesk

\* Steps that end or repeat something and write nothing.
LEMMA QuitHarmless ==
    ASSUME Typed, NEW r \in Request, Abort(r) \/ Bump(r) \/ Unreachable(r) \/ Crash(r)
    PROVE  Harmless
<1>1. /\ UNCHANGED <<booking, job, unchecked>>
      /\ doomed \ {r} \subseteq doomed'
  BY DEF Abort, Bump, Unreachable, Crash
<1>2. pc'[r] # "commit" /\ \A q \in Request \ {r} : pc'[q] = pc[q]
  <2>1. CASE Abort(r)
    BY <2>1 DEF Abort, Go, Answer, Typed, TypeOK
  <2>2. CASE Bump(r)
    BY <2>2 DEF Bump, Answer, Typed, TypeOK
  <2>3. CASE Crash(r)
    BY <2>3 DEF Crash, Answer, Typed, TypeOK
  <2>4. CASE Unreachable(r)
    <3>1. PICK code \in Code : OnError(r, code)
      BY <2>4 DEF Unreachable, Code
    <3> QED
      BY <3>1, OnErrorStep DEF Typed
  <2> QED
    BY <2>1, <2>2, <2>3, <2>4
<1> QED
  BY <1>1, <1>2, StillHarmless

\* The check of reserve() establishes Guarded for its transaction.
LEMMA ReserveGuarded ==
    ASSUME IInv, NEW r \in Request, Reserve(r)
    PROVE  Guarded' /\ OverlapOnlyUnchecked'
<1>1. /\ UNCHANGED <<booking, job, unchecked>>
      /\ doomed \ {r} \subseteq doomed'
      /\ pc'[r] = "commit" => Conflicts(r) = {}
      /\ \A q \in Request \ {r} : pc'[q] = pc[q]
  BY DEF IInv, Typed, TypeOK, Reserve, Answer, Go
<1>2. Guarded'
  BY <1>1 DEF IInv, Guarded, Conflicts, Excluded, IsActive
<1>3. OverlapOnlyUnchecked'
  BY <1>1 DEF IInv, OverlapOnlyUnchecked, DoubleBooked, IsActive
<1> QED
  BY <1>2, <1>3

\* An insert overlaps no checked booking, and dooms every open transaction whose
\* check it invalidates.
LEMMA CommitGuarded ==
    ASSUME IInv, NEW r \in Request, Commit(r)
    PROVE  Guarded' /\ OverlapOnlyUnchecked'
<1> DEFINE new == childId(r)
<1>1. /\ job[r] \in Job /\ new \in BookingId
      /\ pc[r] = "commit" /\ r \notin doomed
      /\ job' = job /\ unchecked' = unchecked
  BY ChildId DEF IInv, Typed, JobOK, JobFits, Commit
<1>2. CASE Answer(r, "500") /\ UNCHANGED <<booking, doomed, stale>>
  <2>1. Harmless
    BY <1>1, <1>2, StillHarmless DEF Answer, IInv, Typed, TypeOK
  <2> QED
    BY <2>1, HarmlessStep
<1>3. CASE ~(Answer(r, "500") /\ UNCHANGED <<booking, doomed, stale>>)
  <2>1. /\ job[r].op = "move" => Exists(job[r].id)
        /\ booking' = [b \in BookingId |->
              CASE b = childId(r) -> job[r].stay
                [] b # childId(r) /\ b \in Excluded(r) ->
                      [booking[b] EXCEPT !.status = "CANCELLED"]
                [] OTHER -> booking[b]]
        /\ doomed' = doomed \cup Reading(r)
                      \cup UNION {Updating(b) \ {r} : b \in Excluded(r)}
        /\ Heard(r, IF job[r].op = "saga" THEN "T2" ELSE "bump",
                    IF job[r].op = "saga" THEN "none" ELSE "200")
    BY <1>3 DEF Commit
  <2>2. booking'[new] = job[r].stay
    BY <1>1, <2>1
  <2>3. ASSUME NEW b \in BookingId \ {new}, (IsActive(b))'
        PROVE  b \notin Excluded(r) /\ booking'[b] = booking[b] /\ IsActive(b)
    <3>1. CASE b \in Excluded(r)
      <4>1. booking'[b] = [booking[b] EXCEPT !.status = "CANCELLED"] /\ booking[b] \in Booking
        BY <2>1, <3>1, RowOK DEF Excluded, IInv, Typed
      <4> QED
        BY <2>3, <4>1, RowFields DEF IsActive, Active
    <3>2. CASE b \notin Excluded(r)
      BY <2>1, <2>3, <3>2 DEF IsActive
    <3> QED
      BY <3>1, <3>2
  <2>4. /\ \A q \in Request : pc'[q] = "commit" => pc[q] = "commit" /\ q # r
        /\ \A q \in Request : q \notin doomed' => q \notin doomed /\ q \notin Reading(r)
    <3>1. CASE job[r].op = "saga"
      BY <2>1, <3>1, LeavesCommit DEF Step, Code, IInv
    <3>2. CASE job[r].op # "saga"
      BY <2>1, <3>2, LeavesCommit DEF Step, Code, IInv
    <3> QED
      BY <3>1, <3>2
  <2>5. ASSUME NEW q \in Request, pc'[q] = "commit", q \notin doomed', NEW b \in (Conflicts(q))'
        PROVE  b \in unchecked'
    <3>1. /\ pc[q] = "commit" /\ q # r /\ q \notin doomed /\ q \notin Reading(r)
          /\ job'[q] = job[q] /\ job[q] \in Job
      BY <1>1, <2>4, <2>5 DEF IInv, Typed, JobOK, JobFits
    <3>2. /\ b \in BookingId /\ b \notin Excluded(q) /\ (IsActive(b))'
          /\ Overlap(booking'[b], job[q].stay)
      BY <2>5, <3>1 DEF Conflicts, Excluded
    <3>3. b # new
      <4>1. SUFFICES ASSUME b = new PROVE FALSE
        OBVIOUS
      <4>2. Overlap(job[r].stay, job[q].stay)
        BY <2>2, <3>2, <4>1
      <4>3. Overlap(job[q].stay, job[r].stay)
        BY <1>1, <3>1, <4>2, ParametersAssumption DEF Overlap, Job, Stay
      <4> QED
        BY <3>1, <4>3 DEF Reading
    <3>4. b \in Conflicts(q)
      BY <2>3, <3>2, <3>3 DEF Conflicts
    <3> QED
      BY <1>1, <3>1, <3>4 DEF IInv, Guarded
  <2>6. ASSUME NEW b \in BookingId \ {new}, (IsActive(b))', Overlap(booking'[b], job[r].stay)
        PROVE  b \in unchecked'
    BY <1>1, <2>3, <2>6 DEF Conflicts, IInv, Guarded
  <2>7. ASSUME NEW a \in BookingId, NEW b \in BookingId, (DoubleBooked(a, b))'
        PROVE  a \in unchecked' \/ b \in unchecked'
    <3>1. (IsActive(a))' /\ (IsActive(b))' /\ a # b /\ Overlap(booking'[a], booking'[b])
      BY <2>7 DEF DoubleBooked
    <3>2. CASE b = new
      BY <2>2, <2>6, <3>1, <3>2
    <3>3. CASE a = new
      <4>1. Overlap(job[r].stay, booking[b]) /\ booking'[b] = booking[b] /\ booking[b] \in Booking
        BY <2>2, <2>3, <3>1, <3>3, RowOK DEF IInv, Typed
      <4>2. Overlap(booking[b], job[r].stay)
        BY <1>1, <4>1, ParametersAssumption DEF Overlap, Booking, Job, Stay
      <4> QED
        BY <2>6, <3>1, <3>3, <4>1, <4>2
    <3>4. CASE a # new /\ b # new
      BY <1>1, <2>3, <3>1, <3>4 DEF IInv, OverlapOnlyUnchecked, DoubleBooked
    <3> QED
      BY <3>2, <3>3, <3>4
  <2> QED
    BY <2>5, <2>7 DEF Guarded, OverlapOnlyUnchecked
<1> QED
  BY <1>2, <1>3

\* The invariant holds at the start.
LEMMA InitInv == Init => IInv
<1> SUFFICES ASSUME Init PROVE IInv
  OBVIOUS
<1>1. Typed
  BY InitTyped
<1>2. Guarded
  BY DEF Init, Guarded
<1>3. OverlapOnlyUnchecked
  <2> SUFFICES ASSUME NEW a \in BookingId, NEW b \in BookingId, DoubleBooked(a, b)
               PROVE  FALSE
    BY DEF OverlapOnlyUnchecked
  <2>1. \A c \in {a, b} : c \in DOMAIN Seeded /\ booking[c] = Seeded[c]
    BY DEF Init, DoubleBooked, IsActive, Absent, Active
  <2> QED
    BY <2>1, SeededAssumption DEF DoubleBooked, IsActive
<1> QED
  BY <1>1, <1>2, <1>3 DEF IInv

\* Only a serializable transaction does more than a harmless step.
LEMMA NextHarmless ==
    ASSUME Typed, Typed', [Next]_vars
    PROVE  Harmless \/ \E r \in Request : Reserve(r) \/ Commit(r)
<1>1. ASSUME NEW r \in Request, Arrival(r) PROVE Harmless
  BY <1>1, ArrivalHarmless
<1>2. ASSUME NEW r \in Request, Progress(r), ~Reserve(r), ~Commit(r) PROVE Harmless
  BY <1>2, WriteHarmless, CancelOriginalHarmless, CompensateHarmless, SetStatusHarmless,
     QuitHarmless DEF Progress
<1>3. ASSUME NEW r \in Request, Unreachable(r) \/ Crash(r) PROVE Harmless
  BY <1>3, QuitHarmless
<1>4. ASSUME NEW b \in BookingId, FrontDesk(b) PROVE Harmless
  BY <1>4, FrontDeskHarmless
<1>5. UNCHANGED vars => Harmless
  <2>1. UNCHANGED vars => UNCHANGED <<booking, pc, job, doomed, unchecked>>
    BY DEF vars
  <2> QED
    BY <2>1, StillHarmless
<1> QED
  BY <1>1, <1>2, <1>3, <1>4, <1>5 DEF Next, Rest

\* The invariant is inductive.
LEMMA StepInv == IInv /\ [Next]_vars => IInv'
<1> SUFFICES ASSUME IInv, [Next]_vars PROVE IInv'
  OBVIOUS
<1>1. Typed /\ Typed'
  BY TypedStep DEF IInv
<1>2. ASSUME NEW r \in Request, Reserve(r) \/ Commit(r)
      PROVE  Guarded' /\ OverlapOnlyUnchecked'
  BY <1>2, ReserveGuarded, CommitGuarded
<1>3. Guarded' /\ OverlapOnlyUnchecked'
  BY <1>1, <1>2, NextHarmless, HarmlessStep
<1> QED
  BY <1>1, <1>3 DEF IInv

(* However the steps of create(), update(), cancel(), remove() and          *)
(* relocate() interleave, retry, fail and crash, two active bookings of one *)
(* room overlap only if PATCH moved one of them, or T3 revived it.          *)
THEOREM OverlapTheorem == Spec => []OverlapOnlyUnchecked
<1>1. IInv => OverlapOnlyUnchecked
  BY DEF IInv
<1> QED
  BY <1>1, InitInv, StepInv, PTL DEF Spec

-----------------------------------------------------------------------------
(***************************************************************************)
(* Co-location.  The only rows that get a room are the one a transaction   *)
(* inserts, whose id is made in the bucket of its room, and the one a      *)
(* PATCH moves, whose bucket update() compared.                            *)
(***************************************************************************)
RoomsKept ==
    \A b \in BookingId :
        (Exists(b))' =>
            \/ bucketOf(booking'[b].room) = bucketOf(b)
            \/ Exists(b) /\ booking'[b].room = booking[b].room

\* A write keeps the room of its row in the bucket of the row's id.
LEMMA PutRoom ==
    ASSUME Typed, NEW b \in BookingId, NEW row, Put(b, row),
           \/ row = Absent
           \/ bucketOf(row.room) = bucketOf(b)
           \/ Exists(b) /\ row.room = booking[b].room
    PROVE  RoomsKept
BY DEF RoomsKept, Put, Typed, TypeOK, Exists

\* A write of a status keeps the room.
LEMMA PutStatusRoom ==
    ASSUME Typed, NEW b \in BookingId, Exists(b), NEW s,
           Put(b, [booking[b] EXCEPT !.status = s])
    PROVE  RoomsKept
BY RowOK, RowFields, PutRoom DEF Typed

\* A step that writes nothing keeps the rooms.
LEMMA SameRooms ==
    ASSUME UNCHANGED booking
    PROVE  RoomsKept
BY DEF RoomsKept, Exists

\* Inserts: the id is in the bucket of the room, and a local relocation only
\* cancels the old row.
LEMMA CommitRoom ==
    ASSUME Typed, NEW r \in Request, Commit(r)
    PROVE  RoomsKept
<1>1. /\ job[r] \in Job /\ childId(r) \in BookingId
      /\ bucketOf(childId(r)) = bucketOf(job[r].stay.room)
  BY ChildId DEF Typed, JobOK, JobFits, Commit
<1>2. CASE UNCHANGED booking
  BY <1>2, SameRooms
<1>3. CASE /\ job[r].op = "move" => Exists(job[r].id)
           /\ booking' = [b \in BookingId |->
                 CASE b = childId(r) -> job[r].stay
                   [] b # childId(r) /\ b \in Excluded(r) ->
                         [booking[b] EXCEPT !.status = "CANCELLED"]
                   [] OTHER -> booking[b]]
  <2>1. ASSUME NEW b \in BookingId, b \in Excluded(r), b # childId(r)
        PROVE  Exists(b) /\ booking'[b].room = booking[b].room
    <3>1. Exists(b) /\ booking[b] \in Booking
      BY <1>3, <2>1, RowOK DEF Excluded, Typed
    <3> QED
      BY <1>3, <2>1, <3>1, RowFields
  <2> QED
    BY <1>1, <1>3, <2>1 DEF RoomsKept, Exists
<1> QED
  BY <1>2, <1>3 DEF Commit

\* PATCH, DELETE and cancel(): SameBucket was checked for PATCH.
LEMMA WriteRoom ==
    ASSUME Typed, NEW r \in Request,
           UpdateWrite(r) \/ RemoveWrite(r) \/ CancelWrite(r)
    PROVE  RoomsKept
<1>1. job[r] \in Job /\ job[r].id \in BookingId /\ pc[r] = "write"
  BY DEF Typed, JobOK, JobFits, UpdateWrite, RemoveWrite, CancelWrite, Job
<1>2. CASE UNCHANGED booking
  BY <1>2, SameRooms
<1>3. CASE /\ UpdateWrite(r)
           /\ Exists(job[r].id)
           /\ "room" \in job[r].fields => job[r].stay.room \in Room
           /\ Put(job[r].id, Patched(r))
  <2>1. Patched(r).room = IF "room" \in job[r].fields THEN job[r].stay.room
                                                      ELSE booking[job[r].id].room
    BY <1>1, <1>3, PatchedOK
  <2>2. SameBucket(job[r].id, job[r].fields, job[r].stay)
    BY <1>1, <1>3 DEF Typed, JobOK, JobFits, UpdateWrite
  <2> QED
    BY <1>1, <1>3, <2>1, <2>2, PutRoom DEF SameBucket
<1>4. CASE Put(job[r].id, Absent)
  BY <1>1, <1>4, PutRoom
<1>5. CASE /\ Exists(job[r].id)
           /\ Put(job[r].id, [booking[job[r].id] EXCEPT !.status = "CANCELLED"])
  BY <1>1, <1>5, PutStatusRoom
<1> QED
  BY <1>2, <1>3, <1>4, <1>5 DEF UpdateWrite, RemoveWrite, CancelWrite, Patched

\* T2, C1 and T3 write a status.
LEMMA SagaRoom ==
    ASSUME Typed, NEW r \in Request,
           CancelOriginal(r) \/ Compensate(r) \/ SetStatus(r)
    PROVE  RoomsKept
<1>1. job[r] \in Job /\ job[r].id \in BookingId /\ childId(r) \in BookingId
  BY ChildId DEF Typed, JobOK, JobFits, CancelOriginal, Compensate, SetStatus, Job
<1>2. CASE UNCHANGED booking
  BY <1>2, SameRooms
<1>3. CASE \E b \in BookingId, s \in Status :
              Exists(b) /\ Put(b, [booking[b] EXCEPT !.status = s])
  BY <1>3, PutStatusRoom
<1>4. \A b \in BookingId : IsActive(b) \/ booking[b].status = "PENDING" => Exists(b)
  BY DEF IsActive, Active, Exists, Absent
<1>5. job[r].status \in Status /\ "CANCELLED" \in Status
  BY <1>1 DEF Job, Status
<1>6. CASE CancelOriginal(r) /\ ~UNCHANGED booking
  BY <1>1, <1>3, <1>4, <1>5, <1>6 DEF CancelOriginal
<1>7. CASE Compensate(r) /\ ~UNCHANGED booking
  BY <1>1, <1>3, <1>4, <1>5, <1>7 DEF Compensate
<1>8. CASE SetStatus(r) /\ ~UNCHANGED booking
  BY <1>1, <1>3, <1>4, <1>5, <1>8 DEF SetStatus
<1> QED
  BY <1>2, <1>6, <1>7, <1>8

\* No step moves a booking to a room of another bucket.
LEMMA RoomsKeptStep == Typed /\ [Next]_vars => RoomsKept
<1> SUFFICES ASSUME Typed, [Next]_vars PROVE RoomsKept
  OBVIOUS
<1>1. ASSUME NEW r \in Request, Arrival(r) PROVE UNCHANGED booking
  BY <1>1 DEF Arrival, Create, Update, Remove, Cancel, Relocate
<1>2. ASSUME NEW r \in Request, Progress(r) PROVE RoomsKept
  <2>1. CASE Reserve(r) \/ Abort(r) \/ Bump(r)
    BY <2>1, SameRooms DEF Reserve, Abort, Bump
  <2> QED
    BY <1>2, <2>1, CommitRoom, WriteRoom, SagaRoom DEF Progress
<1>3. ASSUME NEW r \in Request, Unreachable(r) \/ Crash(r) PROVE UNCHANGED booking
  BY <1>3 DEF Unreachable, Crash
<1>4. ASSUME NEW b \in BookingId, FrontDesk(b) PROVE RoomsKept
  <2>1. Exists(b)
    BY <1>4 DEF FrontDesk, IsActive, Active, Exists, Absent
  <2> QED
    BY <1>4, <2>1, PutStatusRoom DEF FrontDesk
<1>5. CASE UNCHANGED vars
  <2>1. UNCHANGED booking
    BY <1>5 DEF vars
  <2> QED
    BY <2>1, SameRooms
<1> QED
  BY <1>1, <1>2, <1>3, <1>4, <1>5, SameRooms DEF Next, Rest

(* A booking is always a row of the shard, and of the bucket, of its room,  *)
(* so the overlap query of a local transaction sees every booking of the    *)
(* room.                                                                    *)
THEOREM ColocatedTheorem == Spec => []Colocated
<1>1. Init => Colocated
  BY SeededAssumption DEF Init, Colocated, Exists
<1>2. Typed /\ Colocated /\ [Next]_vars => Colocated'
  BY RoomsKeptStep DEF Colocated, RoomsKept
<1> QED
  BY <1>1, <1>2, InitTyped, TypedStep, PTL DEF Spec
=============================================================================
