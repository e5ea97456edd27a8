---------------------------- MODULE RoomCalendar ----------------------------
(***************************************************************************)
(* What the booking service promises about the calendar of the rooms: an   *)
(* interval is taken in one step that finds it free, it stays as it is     *)
(* until it is released, and a guest is moved to another interval, when    *)
(* both are in one shard, in one step.  Nothing is said of transactions,   *)
(* retries, sagas or failures.                                             *)
(***************************************************************************)
EXTENDS Integers

CONSTANT Entry   \* records [id, room, in, out]

VARIABLE taken   \* the entries in force

Meets(e, f) == e.room = f.room /\ e.in < f.out /\ e.out > f.in

Free(e, others) == \A f \in others : ~Meets(e, f)

\* An id has at most one entry: a booking is not changed in place.
New(e) == e \in Entry /\ \A f \in taken : f.id # e.id

Init ==
    /\ taken \subseteq Entry
    /\ \A e \in taken : Free(e, taken \ {e})

Take(e) ==
    /\ New(e)
    /\ Free(e, taken)
    /\ taken' = taken \cup {e}

Release(e) == taken' = taken \ {e}

Move(e, f) ==
    /\ New(f)
    /\ Free(f, taken \ {e})
    /\ taken' = (taken \ {e}) \cup {f}

\* The entry that is taken is one of those in force afterwards.
Next ==
    \/ \E e \in taken' : Take(e)
    \/ \E e \in taken : Release(e)
    \/ \E e \in taken, f \in taken' : Move(e, f)

Spec == Init /\ [][Next]_taken
=============================================================================
