------------------------ MODULE GuestDirectoryProofs ------------------------
(***************************************************************************)
(* What holds of GuestDirectory for every number of shards, guests,        *)
(* requests and stored bookings: a guest with a lasting booking is never   *)
(* deleted, a history shows what the shards that answered have, a          *)
(* registration answers 500 only in a race, and no two guests have one     *)
(* email.                                                                  *)
(***************************************************************************)
EXTENDS GuestDirectory, FiniteSetTheorems, TLAPS

-----------------------------------------------------------------------------
(* The inductive invariant.                                                 *)

(* The functions have their domains, requests only reach the steps of their *)
(* kind, and a row is made once, by the request whose id it has.            *)
Tables ==
    /\ DOMAIN pc = Remover \cup Writer
    /\ DOMAIN job = Remover \cup Writer
    /\ DOMAIN booking = BookingId
    /\ DOMAIN count = Remover
    /\ DOMAIN failed = Remover
    /\ DOMAIN held = Remover
    /\ up \subseteq Shard
    /\ \A q \in Writer : pc[q] \notin {"count", "delete"}
    /\ \A r \in Remover : pc[r] \notin {"write", "insert", "update"}

Row(x) == \E s \in Shard : \E g : x = [shard |-> s, guest |-> g]

Rows ==
    /\ \A q \in Writer : pc[q] \in {"idle", "write"} => booking[q] = Absent
    /\ \A b \in BookingId : Exists(b) => Row(booking[b])

HeldOn(r, s) == {b \in held[r] : booking[b].shard = s}

(* What a fan-out holds are rows of its guest; a shard that has answered    *)
(* counted those of them it has; and before a deletion there are none.      *)
Tally(r) ==
    /\ pc[r] = "idle" => DOMAIN count[r] = {}
    /\ pc[r] = "count" =>
          /\ held[r] \subseteq BookingsOf(job[r].guest)
          /\ DOMAIN count[r] \subseteq Shard
          /\ \A s \in DOMAIN count[r] :
                count[r][s] \in Nat /\ Cardinality(HeldOn(r, s)) <= count[r][s]
    /\ pc[r] = "delete" => held[r] = {}

IInv == Tables /\ Rows /\ \A r \in Remover : Tally(r)

-----------------------------------------------------------------------------
(* Finite sets of bookings.                                                 *)

\* A subset of the bookings has no more elements than the whole, and none if 0.
LEMMA FewerBookings ==
    ASSUME NEW S \in SUBSET BookingId, NEW T \in SUBSET S
    PROVE  /\ Cardinality(T) <= Cardinality(S)
           /\ Cardinality(S) \in Nat /\ Cardinality(T) \in Nat
           /\ Cardinality(S) = 0 => S = {}
<1>1. IsFiniteSet(S)
  BY GuestAssumption, FS_Subset
<1>2. IsFiniteSet(T) /\ Cardinality(T) <= Cardinality(S)
  BY <1>1, FS_Subset
<1> QED
  BY <1>1, <1>2, FS_CardinalityType, FS_EmptySet

\* What a fan-out holds on a shard are stored bookings, so they can be counted.
LEMMA HeldIsFinite ==
    ASSUME NEW r, Tally(r), pc[r] = "count", NEW s
    PROVE  HeldOn(r, s) \subseteq BookingId
BY DEF Tally, HeldOn, BookingsOf

-----------------------------------------------------------------------------
(* What the steps have in common.                                           *)

(* A request that has not begun is a booking that does not exist; who has   *)
(* begun or ended changes no row.                                           *)
LEMMA GoKeepsRows ==
    ASSUME IInv, UNCHANGED <<booking, up>>,
           \A q \in Writer : (pc[q])' \in {"idle", "write"} => pc[q] \in {"idle", "write"}
    PROVE  Rows'
BY DEF IInv, Rows, Exists

\* A step that leaves a fan-out and the bookings alone keeps its tally.
LEMMA StillKeepsTally ==
    ASSUME IInv, NEW r \in Remover, UNCHANGED booking,
           (count[r])' = count[r], (held[r])' = held[r],
           \/ (pc[r])' = pc[r] /\ (job[r])' = job[r]
           \/ (pc[r])' \notin {"idle", "count", "delete"}
    PROVE  Tally(r)'
<1>1. Tally(r)
  BY DEF IInv
<1>2. CASE (pc[r])' = pc[r] /\ (job[r])' = job[r]
  <2>1. BookingsOf(job[r].guest)' = BookingsOf(job[r].guest)
    BY <1>2 DEF BookingsOf, Exists
  <2>2. \A s : HeldOn(r, s)' = HeldOn(r, s)
    BY DEF HeldOn
  <2> QED
    BY <1>1, <1>2, <2>1, <2>2 DEF Tally
<1>3. CASE (pc[r])' \notin {"idle", "count", "delete"}
  BY <1>3 DEF Tally
<1> QED
  BY <1>2, <1>3

(* A change of the bookings only takes from what a fan-out holds, and a     *)
(* booking keeps its shard.                                                 *)
LEMMA WriteKeepsTally ==
    ASSUME IInv, NEW r \in Remover, NEW table, Write(table),
           UNCHANGED <<job, count>>, (pc[r])' = pc[r], DOMAIN table = BookingId,
           \A b \in BookingId : Exists(b) /\ table[b] # Absent =>
              table[b].shard = booking[b].shard
    PROVE  Tally(r)'
<1>1. Tally(r)
  BY DEF IInv
<1>2. (held[r])' = {b \in held[r] : table[b] # Absent /\ table[b].guest = job[r].guest}
  BY DEF Write
<1>3. booking' = table
  BY DEF Write
<1>4. CASE pc[r] = "count"
  <2>1. held[r] \subseteq BookingsOf(job[r].guest)
    BY <1>1, <1>4 DEF Tally
  <2>2. (held[r])' \subseteq BookingsOf(job[r].guest)'
    BY <1>2, <1>3, <2>1 DEF BookingsOf, Exists
  <2>3. \A s : HeldOn(r, s)' \subseteq HeldOn(r, s)
    BY <1>2, <1>3, <2>1 DEF HeldOn, BookingsOf
  <2>4. \A s : HeldOn(r, s) \in SUBSET BookingId
    BY <1>1, <1>4, HeldIsFinite
  <2>5. ASSUME NEW s \in DOMAIN count[r]
        PROVE  count[r][s] \in Nat /\ Cardinality(HeldOn(r, s)') <= count[r][s]
    <3>1. count[r][s] \in Nat /\ Cardinality(HeldOn(r, s)) <= count[r][s]
      BY <1>1, <1>4 DEF Tally
    <3>2. /\ Cardinality(HeldOn(r, s)') <= Cardinality(HeldOn(r, s))
          /\ Cardinality(HeldOn(r, s)) \in Nat
          /\ Cardinality(HeldOn(r, s)') \in Nat
      <4>1. HeldOn(r, s) \in SUBSET BookingId
        BY <2>4
      <4>2. HeldOn(r, s)' \in SUBSET HeldOn(r, s)
        BY <2>3
      <4> QED
        BY <4>1, <4>2, FewerBookings
    <3> QED
      BY <3>1, <3>2
  <2>6. DOMAIN count[r] \subseteq Shard
    BY <1>1, <1>4 DEF Tally
  <2> QED
    BY <1>4, <2>2, <2>5, <2>6 DEF Tally
<1>5. CASE pc[r] # "count"
  BY <1>1, <1>2, <1>5 DEF Tally
<1> QED
  BY <1>4, <1>5

-----------------------------------------------------------------------------
(* The steps that change no booking and end no fan-out: the guests, and the *)
(* requests about bookings up to their writes.                              *)
Quick(q) ==
    \/ \E email : Register(q, email)
    \/ InsertGuest(q) \/ UpdateGuest(q)
    \/ \E g : \E email : Change(q, g, email)
    \/ \E g : \E s : Create(q, g, s)
    \/ \E b : \E g : Patch(q, b, g)
    \/ \E b : Withdraw(q, b)
    \/ \E b : \E s : Relocate(q, b, s)

\* A quick step moves one writer on and touches no booking and no fan-out.
LEMMA QuickGoes ==
    ASSUME IInv, NEW q \in Writer, Quick(q)
    PROVE  /\ pc[q] \in {"idle", "insert", "update"}
           /\ \E next \in {"insert", "update", "write", "200", "404", "409", "500"} :
                 pc' = [pc EXCEPT ![q] = next]
           /\ \/ UNCHANGED job
              \/ \E what : job' = [job EXCEPT ![q] = what]
           /\ UNCHANGED <<booking, up, count, failed, held>>
<1>1. ASSUME Quick(q) PROVE pc[q] \in {"idle", "insert", "update"}
  BY <1>1 DEF Quick, Register, InsertGuest, UpdateGuest, Change, Create, Patch, Withdraw,
              Relocate, Begin
<1>2. ASSUME Quick(q) PROVE UNCHANGED <<booking, up, count, failed, held>>
  BY <1>2 DEF Quick, Register, InsertGuest, UpdateGuest, Change, Create, Patch, Withdraw,
              Relocate, Begin, WriteGuests, history
<1>3. UNCHANGED job \/ \E what : job' = [job EXCEPT ![q] = what]
  BY DEF Quick, Register, InsertGuest, UpdateGuest, Change, Create, Patch, Withdraw,
         Relocate, Begin
<1>4. \E next \in {"insert", "update", "write", "200", "404", "409", "500"} :
         pc' = [pc EXCEPT ![q] = next]
  BY DEF Quick, Register, InsertGuest, UpdateGuest, Change, Create, Patch, Withdraw,
         Relocate, Begin, End
<1> QED
  BY <1>1, <1>2, <1>3, <1>4

\* So it keeps the invariant.
LEMMA QuickKeepsIInv ==
    ASSUME IInv, NEW q \in Writer, Quick(q)
    PROVE  IInv'
<1>1. Tables'
  <2>1. PICK next \in {"insert", "update", "write", "200", "404", "409", "500"} :
           pc' = [pc EXCEPT ![q] = next]
    BY QuickGoes
  <2>2. UNCHANGED <<booking, up, count, failed, held>> /\ DOMAIN job' = DOMAIN job
    BY QuickGoes
  <2>3. q \notin Remover
    BY GuestAssumption
  <2> QED
    BY <2>1, <2>2, <2>3 DEF IInv, Tables
<1>2. Rows'
  <2>1. \A w \in Writer : (pc[w])' \in {"idle", "write"} => pc[w] \in {"idle", "write"}
    <3>1. PICK next \in {"insert", "update", "write", "200", "404", "409", "500"} :
             pc' = [pc EXCEPT ![q] = next]
      BY QuickGoes
    <3>2. pc[q] = "idle" \/ next # "write"
      BY <3>1 DEF IInv, Tables, Quick, Register, InsertGuest, UpdateGuest, Change, Create,
                  Patch, Withdraw, Relocate, Begin, End
    <3> QED
      BY <3>1, <3>2 DEF IInv, Tables
  <2> QED
    BY <2>1, QuickGoes, GoKeepsRows
<1>3. ASSUME NEW r \in Remover PROVE Tally(r)'
  <2>1. (pc[r])' = pc[r] /\ (job[r])' = job[r]
    BY QuickGoes, GuestAssumption DEF IInv, Tables
  <2> QED
    BY <2>1, QuickGoes, StillKeepsTally
<1> QED
  BY <1>1, <1>2, <1>3 DEF IInv

\* A refused request has written nothing.
LEMMA RefuseKeepsIInv ==
    ASSUME IInv, NEW q \in Remover \cup Writer, Refuse(q)
    PROVE  IInv'
<1>1. Tables'
  BY DEF IInv, Tables, Refuse, End, history
<1>2. Rows'
  BY GoKeepsRows DEF IInv, Tables, Refuse, End, history
<1>3. ASSUME NEW r \in Remover PROVE Tally(r)'
  BY StillKeepsTally DEF IInv, Tables, Refuse, End, history
<1> QED
  BY <1>1, <1>2, <1>3 DEF IInv

\* Shards that stop and start answering change no row.
LEMMA OutageKeepsIInv ==
    ASSUME IInv, NEW s \in Outages, ShardChanges(s)
    PROVE  IInv'
<1>1. Tables'
  BY GuestAssumption DEF IInv, Tables, ShardChanges, history
<1>2. Rows'
  BY DEF IInv, Rows, Exists, ShardChanges
<1>3. ASSUME NEW r \in Remover PROVE Tally(r)'
  BY StillKeepsTally DEF ShardChanges, history
<1> QED
  BY <1>1, <1>2, <1>3 DEF IInv

-----------------------------------------------------------------------------
(* The writes of bookings.                                                  *)

\* A new booking has an id no fan-out holds.
LEMMA InsertKeepsIInv ==
    ASSUME IInv, NEW q \in Writer, Insert(q)
    PROVE  IInv'
<1> DEFINE row == [shard |-> job[q].shard, guest |-> job[q].guest]
           table == [booking EXCEPT ![q] = row]
<1>1. /\ pc[q] = "write" /\ pc' = [pc EXCEPT ![q] = "200"]
      /\ Write(table)
      /\ job[q].shard \in Shard
      /\ UNCHANGED <<up, job, count, failed>>
  BY DEF Insert, End, IInv, Tables
<1>2. q \in BookingId /\ q \notin Remover
  BY GuestAssumption DEF BookingId
<1>3. booking[q] = Absent
  BY <1>1 DEF IInv, Rows
<1>4. Tables'
  BY <1>1, <1>2 DEF IInv, Tables, Write
<1>5. Rows'
  <2>1. booking' = table
    BY <1>1 DEF Write
  <2>2. table[q] = row /\ \A c \in BookingId \ {q} : table[c] = booking[c]
    BY <1>2 DEF IInv, Tables
  <2>3. \A w \in Writer : (pc[w])' \in {"idle", "write"} => w # q /\ pc[w] \in {"idle", "write"}
    BY <1>1 DEF IInv, Tables
  <2>4. \A w \in Writer : w \in BookingId
    BY DEF BookingId
  <2>5. \A w \in Writer : (pc[w])' \in {"idle", "write"} => table[w] = Absent
    BY <2>2, <2>3, <2>4 DEF IInv, Rows
  <2>6. Row(row)
    BY <1>1 DEF Row
  <2>7. \A c \in BookingId : table[c] # Absent => Row(table[c])
    BY <2>2, <2>6 DEF IInv, Rows, Exists
  <2> QED
    BY <2>1, <2>5, <2>7 DEF Rows, Exists
<1>6. ASSUME NEW r \in Remover PROVE Tally(r)'
  <2>1. DOMAIN table = BookingId
    BY DEF IInv, Tables
  <2>2. (pc[r])' = pc[r]
    BY <1>1, <1>2 DEF IInv, Tables
  <2>3. \A b \in BookingId : Exists(b) /\ table[b] # Absent =>
               table[b].shard = booking[b].shard
    BY <1>3 DEF IInv, Tables, Exists
  <2> QED
    BY <1>1, <2>1, <2>2, <2>3, WriteKeepsTally
<1> QED
  BY <1>4, <1>5, <1>6 DEF IInv

\* A booking given to another guest leaves the holds of its old one.
LEMMA ReassignKeepsIInv ==
    ASSUME IInv, NEW q \in Writer, Reassign(q)
    PROVE  IInv'
<1> DEFINE b == job[q].id
           table == [booking EXCEPT ![b].guest = job[q].guest]
<1>1. /\ pc' = [pc EXCEPT ![q] = "200"]
      /\ Exists(b)
      /\ Write(table)
      /\ UNCHANGED <<up, job, count, failed>>
  BY DEF Reassign, End
<1>2. q \notin Remover
  BY GuestAssumption
<1>3. b \in BookingId =>
         \E s \in Shard : /\ booking[b].shard = s
                        /\ table[b] = [shard |-> s, guest |-> job[q].guest]
  BY <1>1 DEF IInv, Tables, Rows, Row
<1>4. DOMAIN table = BookingId /\ \A c \in BookingId \ {b} : table[c] = booking[c]
  BY DEF IInv, Tables
<1>5. Tables'
  BY <1>1, <1>2, <1>4 DEF IInv, Tables, Write
<1>6. Rows'
  <2>1. booking' = table
    BY <1>1 DEF Write
  <2>2. \A w \in Writer : (pc[w])' \in {"idle", "write"} => pc[w] \in {"idle", "write"}
    BY <1>1 DEF IInv, Tables
  <2>3. \A w \in Writer : pc[w] \in {"idle", "write"} => w \in BookingId /\ w # b
    BY <1>1 DEF IInv, Rows, Exists, BookingId
  <2>4. \A w \in Writer : (pc[w])' \in {"idle", "write"} => table[w] = Absent
    BY <1>4, <2>2, <2>3 DEF IInv, Rows
  <2>5. b \in BookingId => Row(table[b])
    BY <1>3 DEF Row
  <2>6. \A c \in BookingId : table[c] # Absent => Row(table[c])
    BY <1>4, <2>5 DEF IInv, Rows, Exists
  <2> QED
    BY <2>1, <2>4, <2>6 DEF Rows, Exists
<1>7. ASSUME NEW r \in Remover PROVE Tally(r)'
  <2>1. (pc[r])' = pc[r]
    BY <1>1, <1>2 DEF IInv, Tables
  <2>2. \A c \in BookingId : Exists(c) /\ table[c] # Absent =>
               table[c].shard = booking[c].shard
    BY <1>3, <1>4
  <2> HIDE DEF table
  <2> QED
    BY <1>1, <1>4, <2>1, <2>2, WriteKeepsTally
<1> QED
  BY <1>5, <1>6, <1>7 DEF IInv

\* A deleted booking leaves the holds of its guest.
LEMMA EraseKeepsIInv ==
    ASSUME IInv, NEW q \in Writer, Erase(q)
    PROVE  IInv'
<1> DEFINE table == [booking EXCEPT ![job[q].id] = Absent]
<1>1. /\ pc' = [pc EXCEPT ![q] = "200"]
      /\ Write(table)
      /\ UNCHANGED <<up, job, count, failed>>
  BY DEF Erase, End
<1>2. q \notin Remover
  BY GuestAssumption
<1>3. DOMAIN table = BookingId
      /\ \A c \in BookingId : table[c] = booking[c] \/ table[c] = Absent
  BY DEF IInv, Tables
<1>4. Tables'
  BY <1>1, <1>2, <1>3 DEF IInv, Tables, Write
<1>5. Rows'
  <2>1. booking' = table
    BY <1>1 DEF Write
  <2>2. \A w \in Writer : (pc[w])' \in {"idle", "write"} => pc[w] \in {"idle", "write"}
    BY <1>1 DEF IInv, Tables
  <2>3. \A w \in Writer : w \in BookingId
    BY DEF BookingId
  <2> QED
    BY <1>3, <2>1, <2>2, <2>3 DEF IInv, Rows, Exists
<1>6. ASSUME NEW r \in Remover PROVE Tally(r)'
  <2>1. (pc[r])' = pc[r]
    BY <1>1, <1>2 DEF IInv, Tables
  <2>2. \A c \in BookingId : Exists(c) /\ table[c] # Absent =>
               table[c].shard = booking[c].shard
    BY <1>3
  <2> HIDE DEF table
  <2> QED
    BY <1>1, <1>3, <2>1, <2>2, WriteKeepsTally
<1> QED
  BY <1>4, <1>5, <1>6 DEF IInv

-----------------------------------------------------------------------------
(* The fan-outs.                                                            *)

\* A fan-out begins with all bookings of its guest and no count.
LEMMA FanOutKeepsIInv ==
    ASSUME IInv, NEW r \in Remover, NEW g, Remove(r, g) \/ List(r, g)
    PROVE  IInv'
<1>1. /\ \/ /\ pc' = [pc EXCEPT ![r] = "count"]
            /\ held' = [held EXCEPT ![r] = BookingsOf(g)]
            /\ \E op : job' = [job EXCEPT ![r] = [op |-> op, guest |-> g]]
         \/ pc' = [pc EXCEPT ![r] = "404"] /\ UNCHANGED <<job, held>>
      /\ pc[r] = "idle"
      /\ UNCHANGED <<booking, up, count, failed>>
  BY DEF Remove, List, FanOut, Begin, End
<1>2. r \notin Writer
  BY GuestAssumption
<1>3. Tables'
  BY <1>1, <1>2 DEF IInv, Tables
<1>4. Rows'
  BY <1>1, <1>2, GoKeepsRows DEF IInv, Tables
<1>5. Tally(r)'
  <2>1. DOMAIN count[r] = {}
    BY <1>1 DEF IInv, Tally
  <2>2. CASE pc' = [pc EXCEPT ![r] = "404"]
    BY <2>2 DEF IInv, Tables, Tally
  <2>3. CASE /\ pc' = [pc EXCEPT ![r] = "count"]
             /\ held' = [held EXCEPT ![r] = BookingsOf(g)]
             /\ \E op : job' = [job EXCEPT ![r] = [op |-> op, guest |-> g]]
    <3>1. (pc[r])' = "count" /\ (held[r])' = BookingsOf(g) /\ (job[r].guest)' = g
      BY <2>3 DEF IInv, Tables
    <3>2. BookingsOf(job[r].guest)' = BookingsOf(g)
      BY <1>1, <3>1 DEF BookingsOf, Exists
    <3> QED
      BY <1>1, <2>1, <3>1, <3>2 DEF Tally
  <2> QED
    BY <1>1, <2>2, <2>3
<1>6. ASSUME NEW o \in Remover \ {r} PROVE Tally(o)'
  <2>1. (pc[o])' = pc[o] /\ (job[o])' = job[o] /\ (held[o])' = held[o]
    BY <1>1 DEF IInv, Tables
  <2> QED
    BY <1>1, <2>1, StillKeepsTally
<1> QED
  BY <1>3, <1>4, <1>5, <1>6 DEF IInv

(* The count of a shard includes what is held on it.                        *)
LEMMA CountKeepsIInv ==
    ASSUME IInv, NEW r \in Remover, NEW s \in Shard, Count(r, s)
    PROVE  IInv'
<1> DEFINE seen == {b \in BookingsOf(job[r].guest) : booking[b].shard = s}
<1>1. /\ pc[r] = "count"
      /\ UNCHANGED <<booking, up, pc, job, held>>
      /\ \/ /\ count' = [count EXCEPT ![r] = [t \in DOMAIN count[r] \cup {s} |->
                  IF t = s THEN Cardinality(seen) ELSE count[r][t]]]
            /\ UNCHANGED failed
         \/ UNCHANGED count /\ DOMAIN failed' = DOMAIN failed
  BY DEF Count, history
<1>2. Tables'
  BY <1>1 DEF IInv, Tables
<1>3. Rows'
  BY <1>1, GoKeepsRows
<1>4. Tally(r)'
  <2>1. CASE UNCHANGED count
    BY <1>1, <2>1, StillKeepsTally
  <2>2. CASE count' = [count EXCEPT ![r] = [t \in DOMAIN count[r] \cup {s} |->
                  IF t = s THEN Cardinality(seen) ELSE count[r][t]]]
    <3>1. (count[r])' = [t \in DOMAIN count[r] \cup {s} |->
                  IF t = s THEN Cardinality(seen) ELSE count[r][t]]
      BY <2>2 DEF IInv, Tables
    <3>2. Tally(r)
      BY DEF IInv
    <3>3. BookingsOf(job[r].guest)' = BookingsOf(job[r].guest) /\ (held[r])' = held[r]
      BY <1>1 DEF BookingsOf, Exists
    <3>4. \A t : HeldOn(r, t)' = HeldOn(r, t)
      BY <1>1 DEF HeldOn
    <3>5. Cardinality(seen) \in Nat /\ Cardinality(HeldOn(r, s)) <= Cardinality(seen)
      <4>1. seen \in SUBSET BookingId
        BY DEF BookingsOf
      <4>2. HeldOn(r, s) \in SUBSET seen
        BY <1>1, <3>2 DEF Tally, HeldOn
      <4> QED
        BY <4>1, <4>2, FewerBookings
    <3>6. DOMAIN (count[r])' \subseteq Shard
      BY <1>1, <3>1, <3>2 DEF Tally
    <3>7. \A t \in DOMAIN (count[r])' :
             (count[r])'[t] \in Nat /\ Cardinality(HeldOn(r, t)') <= (count[r])'[t]
      <4> HIDE DEF seen
      <4> QED
        BY <1>1, <3>1, <3>2, <3>4, <3>5 DEF Tally
    <3> QED
      BY <1>1, <3>2, <3>3, <3>6, <3>7 DEF Tally
  <2> QED
    BY <1>1, <2>1, <2>2
<1>5. ASSUME NEW o \in Remover \ {r} PROVE Tally(o)'
  <2>1. (count[o])' = count[o]
    BY <1>1 DEF IInv, Tables
  <2> QED
    BY <1>1, <2>1, StillKeepsTally
<1> QED
  BY <1>2, <1>3, <1>4, <1>5 DEF IInv

(* When no shard has failed and none has counted a booking, none is held.   *)
LEMMA DecideKeepsIInv ==
    ASSUME IInv, NEW r \in Remover, Decide(r)
    PROVE  IInv'
<1>1. /\ pc[r] = "count"
      /\ Settled(r)
      /\ \/ pc' = [pc EXCEPT ![r] = "503"]
         \/ pc' = [pc EXCEPT ![r] = "409"]
         \/ /\ pc' = [pc EXCEPT ![r] = "delete"]
            /\ failed[r] = {} /\ ~Counted(r)
      /\ UNCHANGED <<booking, up, job, count, failed, held>>
  BY DEF Decide, End, history
<1>2. r \notin Writer
  BY GuestAssumption
<1>3. Tables'
  BY <1>1, <1>2 DEF IInv, Tables
<1>4. Rows'
  BY <1>1, <1>2, GoKeepsRows DEF IInv, Tables
<1>5. Tally(r)'
  <2>1. CASE (pc[r])' # "delete"
    BY <1>1, <2>1 DEF IInv, Tables, Tally
  <2>2. CASE (pc[r])' = "delete"
    <3>1. DOMAIN count[r] = Shard /\ \A s \in Shard : ~(count[r][s] > 0)
      BY <1>1, <2>2 DEF Settled, Counted, IInv, Tables
    <3>2. Tally(r)
      BY DEF IInv
    <3>3. ASSUME NEW s \in Shard PROVE HeldOn(r, s) = {}
      <4>1. HeldOn(r, s) \in SUBSET BookingId
        BY <1>1, <3>2, HeldIsFinite
      <4>2. Cardinality(HeldOn(r, s)) \in Nat
        BY <4>1, FewerBookings
      <4>3. count[r][s] \in Nat /\ Cardinality(HeldOn(r, s)) <= count[r][s]
        BY <1>1, <3>1, <3>2 DEF Tally
      <4>4. Cardinality(HeldOn(r, s)) = 0
        BY <3>1, <4>2, <4>3
      <4> QED
        BY <4>1, <4>4, FewerBookings
    <3>4. \A b \in held[r] : \E s \in Shard : b \in HeldOn(r, s)
      <4>1. held[r] \subseteq BookingsOf(job[r].guest)
        BY <1>1, <3>2 DEF Tally
      <4>2. SUFFICES ASSUME NEW b \in held[r] PROVE \E s \in Shard : b \in HeldOn(r, s)
        OBVIOUS
      <4>3. Row(booking[b])
        BY <4>1 DEF IInv, Rows, BookingsOf
      <4> QED
        BY <4>3 DEF Row, HeldOn
    <3> QED
      BY <1>1, <2>2, <3>3, <3>4 DEF Tally
  <2> QED
    BY <2>1, <2>2
<1>6. ASSUME NEW o \in Remover \ {r} PROVE Tally(o)'
  <2>1. (pc[o])' = pc[o]
    BY <1>1 DEF IInv, Tables
  <2> QED
    BY <1>1, <2>1, StillKeepsTally
<1> QED
  BY <1>3, <1>4, <1>5, <1>6 DEF IInv

\* The last step of a fan-out changes no booking.
LEMMA EndKeepsIInv ==
    ASSUME IInv, NEW r \in Remover, Delete(r) \/ Reply(r)
    PROVE  IInv'
<1>1. /\ \E code \in {"200", "500"} : pc' = [pc EXCEPT ![r] = code]
      /\ UNCHANGED <<booking, up, job, count, failed, held>>
  BY DEF Delete, Reply, End, WriteGuests, history
<1>2. r \notin Writer
  BY GuestAssumption
<1>3. Tables'
  BY <1>1, <1>2 DEF IInv, Tables
<1>4. Rows'
  BY <1>1, <1>2, GoKeepsRows DEF IInv, Tables
<1>5. ASSUME NEW o \in Remover PROVE Tally(o)'
  BY <1>1, StillKeepsTally DEF IInv, Tables
<1> QED
  BY <1>3, <1>4, <1>5 DEF IInv

-----------------------------------------------------------------------------
\* The stored bookings are rows on shards, and no fan-out has begun.
LEMMA InitIInv == Init => IInv
<1> SUFFICES ASSUME Init PROVE IInv
  OBVIOUS
<1>1. Tables
  BY DEF Init, Tables
<1>2. Rows
  <2>1. ASSUME NEW b \in BookingId, Exists(b) PROVE Row(booking[b])
    <3>1. b \in DOMAIN Seeded /\ booking[b] = Seeded[b]
      BY <2>1 DEF Init, Exists
    <3>2. booking[b] \in [shard : Shard, guest : DOMAIN Guest]
      BY <3>1, GuestAssumption
    <3> QED
      BY <3>2 DEF Row
  <2>2. ASSUME NEW q \in Writer PROVE booking[q] = Absent
    BY GuestAssumption DEF Init, BookingId
  <2> QED
    BY <2>1, <2>2 DEF Rows
<1>3. ASSUME NEW r \in Remover PROVE Tally(r)
  BY DEF Init, Tally
<1> QED
  BY <1>1, <1>2, <1>3 DEF IInv

\* Every step keeps the invariant: one step of the proof per kind of action.
LEMMA NextIInv == IInv /\ [Next]_vars => IInv'
<1> SUFFICES ASSUME IInv, [Next]_vars PROVE IInv'
  OBVIOUS
<1>1. ASSUME NEW q \in Writer, Quick(q) PROVE IInv'
  BY <1>1, QuickKeepsIInv
<1>2. ASSUME NEW q \in Writer, Insert(q) \/ Erase(q) PROVE IInv'
  BY <1>2, InsertKeepsIInv, EraseKeepsIInv
<1>3. ASSUME NEW q \in Writer, Reassign(q) PROVE IInv'
  BY <1>3, ReassignKeepsIInv
<1>4. ASSUME NEW q \in Remover \cup Writer, Refuse(q) PROVE IInv'
  BY <1>4, RefuseKeepsIInv
<1>5. ASSUME NEW s \in Outages, ShardChanges(s) PROVE IInv'
  BY <1>5, OutageKeepsIInv
<1>6. ASSUME NEW r \in Remover, NEW g, Remove(r, g) \/ List(r, g) PROVE IInv'
  BY <1>6, FanOutKeepsIInv
<1>7. ASSUME NEW r \in Remover, NEW s \in Shard, Count(r, s) PROVE IInv'
  BY <1>7, CountKeepsIInv
<1>8. ASSUME NEW r \in Remover, Decide(r) \/ Delete(r) \/ Reply(r) PROVE IInv'
  BY <1>8, DecideKeepsIInv, EndKeepsIInv
<1>9. CASE UNCHANGED vars \/ Rest
  <2>1. UNCHANGED vars
    BY <1>9 DEF Rest
  <2>2. Tables'
    BY <2>1 DEF IInv, Tables, vars
  <2>3. Rows'
    BY <2>1, GoKeepsRows DEF vars
  <2>4. ASSUME NEW r \in Remover PROVE Tally(r)'
    BY <2>1, StillKeepsTally DEF vars
  <2> QED
    BY <2>2, <2>3, <2>4 DEF IInv
<1> QED
  BY <1>1, <1>2, <1>3, <1>4, <1>5, <1>6, <1>7, <1>8, <1>9 DEF Next, Quick

\* Tables, Rows and Tally hold in every state.
THEOREM IInvInvariant == Spec => []IInv
BY InitIInv, NextIInv, PTL DEF Spec

(* A guest who has kept a booking since the removal began is not deleted,   *)
(* however many shards there are and whichever of them fail.                *)
THEOREM BookedGuestTheorem == Spec => BookedGuestIsKept
<1>1. ASSUME IInv, [Next]_vars
      PROVE  \A r \in Remover :
                pc[r] = "delete" /\ (pc[r])' = "200" => held[r] = {}
  BY <1>1 DEF IInv, Tally
<1> QED
  BY <1>1, IInvInvariant, PTL DEF Spec, BookedGuestIsKept

(* A history has all that a guest kept on the shards that answered.         *)
THEOREM HistoryTheorem == Spec => HistoryIsWhole
<1> DEFINE Whole(r) == \A s \in {booking[b].shard : b \in held[r]} \ failed[r] :
                          /\ s \in DOMAIN count[r]
                          /\ count[r][s] >= Cardinality({b \in held[r] : booking[b].shard = s})
<1>1. ASSUME IInv, [Next]_vars, NEW r \in Remover,
             pc[r] = "count", job[r].op = "list", (pc[r])' = "200"
      PROVE  Whole(r)
  <2>1. Tally(r)
    BY <1>1 DEF IInv
  <2>2. Settled(r)
    <3>1. ASSUME NEW q \in Writer PROVE ~Quick(q) /\ ~Insert(q) /\ ~Reassign(q) /\ ~Erase(q)
      <4>1. q # r
        BY GuestAssumption
      <4>2. \A step : pc' # [pc EXCEPT ![q] = step]
        BY <1>1, <4>1 DEF IInv, Tables
      <4> QED
        BY <1>1, <4>2, QuickGoes DEF Insert, Reassign, Erase, End
    <3>2. ASSUME NEW o \in Remover
          PROVE  ~Decide(o) /\ ~Delete(o) /\ \A g : ~Remove(o, g) /\ ~List(o, g)
      <4>1. CASE o = r
        BY <1>1, <4>1 DEF IInv, Tables, Decide, Delete, Remove, List, FanOut, Begin, End
      <4>2. CASE o # r
        <5>1. \A step : pc' # [pc EXCEPT ![o] = step]
          BY <1>1, <4>2 DEF IInv, Tables
        <5> QED
          BY <5>1 DEF Decide, Delete, Remove, List, FanOut, Begin, End
      <4> QED
        BY <4>1, <4>2
    <3>3. \A q \in Remover \cup Writer : ~Refuse(q)
      BY <1>1 DEF IInv, Tables, Refuse, End
    <3>4. ~UNCHANGED pc
      BY <1>1
    <3>5. \A o \in Remover : \A s : ~Count(o, s)
      BY <3>4 DEF Count
    <3>6. (\A s : ~ShardChanges(s)) /\ ~Rest /\ ~UNCHANGED vars
      BY <3>4 DEF ShardChanges, Rest, vars
    <3>7. PICK o \in Remover : Reply(o)
      BY <1>1, <3>1, <3>2, <3>3, <3>5, <3>6 DEF Next, Quick
    <3>8. o = r
      BY <1>1, <3>7 DEF Reply, End, IInv, Tables
    <3> QED
      BY <3>7, <3>8 DEF Reply
  <2>3. held[r] \subseteq BookingsOf(job[r].guest)
    BY <1>1, <2>1 DEF Tally
  <2>4. ASSUME NEW b \in held[r], booking[b].shard \notin failed[r]
        PROVE  booking[b].shard \in DOMAIN count[r]
    <3>1. Row(booking[b])
      BY <1>1, <2>3 DEF IInv, Rows, BookingsOf
    <3>2. booking[b].shard \in Shard
      BY <3>1 DEF Row
    <3> QED
      BY <2>2, <2>4, <3>2 DEF Settled
  <2>5. ASSUME NEW s \in DOMAIN count[r]
        PROVE  count[r][s] >= Cardinality({b \in held[r] : booking[b].shard = s})
    <3>1. count[r][s] \in Nat /\ Cardinality(HeldOn(r, s)) <= count[r][s]
      BY <1>1, <2>1 DEF Tally
    <3>2. Cardinality(HeldOn(r, s)) \in Nat
      BY <1>1, <2>1, HeldIsFinite, FewerBookings
    <3> QED
      BY <3>1, <3>2 DEF HeldOn
  <2> QED
    BY <2>4, <2>5
<1>2. ASSUME IInv, [Next]_vars
      PROVE  \A r \in Remover :
                pc[r] = "count" /\ job[r].op = "list" /\ (pc[r])' = "200" =>
                   \A s \in {booking[b].shard : b \in held[r]} \ failed[r] :
                      /\ s \in DOMAIN count[r]
                      /\ count[r][s] >= Cardinality({b \in held[r] : booking[b].shard = s})
  BY <1>1, <1>2
<1> QED
  BY <1>2, IInvInvariant, PTL DEF Spec, HistoryIsWhole

-----------------------------------------------------------------------------
(* A registration whose check is still good.                                *)
Unraced ==
    \A q \in Writer :
       pc[q] = "insert" /\ q \notin touched =>
          job[q].op = "register" /\ ~Taken(job[q].email, q)

\* A change of the guests marks the registrations under way as touched.
LEMMA NextUnraced == IInv /\ Unraced /\ [Next]_vars => Unraced'
<1> SUFFICES ASSUME IInv, Unraced, [Next]_vars,
                    NEW q \in Writer, (pc[q])' = "insert", q \notin touched'
             PROVE  (job[q].op = "register" /\ ~Taken(job[q].email, q))'
  BY DEF Unraced
<1> USE DEF IInv, Tables
<1>1. CASE \E email : Register(q, email)
  <2>1. PICK email : Register(q, email)
    BY <1>1
  <2>2. /\ (job[q])' = [op |-> "register", email |-> email]
        /\ ~Taken(email, q) /\ guest' = guest
    BY <2>1 DEF Register, Begin, End
  <2> QED
    BY <2>2 DEF Taken
<1>2. CASE /\ UNCHANGED guest /\ (pc[q])' = pc[q] /\ (job[q])' = job[q]
           /\ touched \subseteq touched'
  BY <1>2 DEF Unraced, Taken
<1>3. ASSUME NEW table, WriteGuests(table), pc[q] = "insert"
      PROVE  FALSE
  BY <1>3 DEF WriteGuests
<1>4. ASSUME NEW w \in Writer, Quick(w) \/ Insert(w) \/ Reassign(w) \/ Erase(w) \/ Refuse(w)
      PROVE  (job[q].op = "register" /\ ~Taken(job[q].email, q))'
  <2>1. CASE w = q
    <3>1. \E email : Register(q, email)
      BY <1>4, <2>1 DEF Quick, InsertGuest, UpdateGuest, Change, Create, Patch, Withdraw,
            Relocate, Begin, End, Insert, Reassign, Erase, Refuse
    <3> QED
      BY <1>1, <3>1
  <2>2. CASE w # q
    <3>1. (pc[q])' = pc[q] /\ (job[q])' = job[q]
      <4>1. CASE Quick(w)
        BY <2>2, <4>1, QuickGoes
      <4>2. CASE Insert(w) \/ Reassign(w) \/ Erase(w) \/ Refuse(w)
        BY <2>2, <4>2 DEF Insert, Reassign, Erase, Refuse, End
      <4> QED
        BY <1>4, <4>1, <4>2
    <3>2. UNCHANGED guest /\ touched' = touched
      <4>1. CASE InsertGuest(w) \/ UpdateGuest(w)
        BY <1>3, <3>1, <4>1 DEF InsertGuest, UpdateGuest, history
      <4>2. CASE Insert(w) \/ Reassign(w) \/ Erase(w) \/ Refuse(w)
        BY <4>2 DEF Insert, Reassign, Erase, Refuse, Write, history
      <4> QED
        BY <1>4, <4>1, <4>2 DEF Quick, Register, Change, Create, Patch, Withdraw, Relocate,
              history
    <3> QED
      BY <1>2, <3>1, <3>2
  <2> QED
    BY <2>1, <2>2
<1>5. ASSUME NEW r \in Remover, Delete(r) \/ Refuse(r)
      PROVE  (job[q].op = "register" /\ ~Taken(job[q].email, q))'
  <2>1. r # q
    BY GuestAssumption
  <2>2. (pc[q])' = pc[q] /\ (job[q])' = job[q]
    BY <1>5, <2>1 DEF Delete, Refuse, End
  <2>3. UNCHANGED guest /\ touched' = touched
    BY <1>3, <1>5, <2>2 DEF Delete, Refuse, history
  <2> QED
    BY <1>2, <2>2, <2>3
<1>6. ASSUME NEW r \in Remover, NEW g, NEW s,
             Remove(r, g) \/ List(r, g) \/ Count(r, s) \/ Decide(r) \/ Reply(r)
      PROVE  (job[q].op = "register" /\ ~Taken(job[q].email, q))'
  <2>1. r # q
    BY GuestAssumption
  <2>2. (pc[q])' = pc[q] /\ (job[q])' = job[q] /\ UNCHANGED <<guest, touched>>
    BY <1>6, <2>1 DEF Remove, List, FanOut, Begin, Count, Decide, Reply, End, history
  <2> QED
    BY <1>2, <2>2
<1>7. CASE UNCHANGED vars \/ Rest \/ \E s \in Outages : ShardChanges(s)
  BY <1>2, <1>7 DEF vars, Rest, ShardChanges, history
<1> QED
  BY <1>4, <1>5, <1>6, <1>7 DEF Next, Quick

(* A registration is answered 500 only if the guests have changed since its *)
(* check: the index refuses what the check has seen to be free otherwise    *)
(* never.                                                                   *)
THEOREM RegistrationTheorem == Spec => OnlyRacesAre500
<1>1. Init => Unraced
  BY DEF Init, Unraced
<1>2. ASSUME IInv, Unraced, [Next]_vars
      PROVE  \A q \in Writer :
                pc[q] = "insert" /\ (pc[q])' = "500" => q \in touched
  <2> SUFFICES ASSUME NEW q \in Writer, pc[q] = "insert", (pc[q])' = "500", q \notin touched
               PROVE  FALSE
    OBVIOUS
  <2> USE DEF IInv, Tables
  <2>1. ~Taken(job[q].email, q)
    BY <1>2 DEF Unraced
  <2>2. \A step : step # "500" => pc' # [pc EXCEPT ![q] = step]
    BY <1>2
  <2>3. \A w \in (Remover \cup Writer) \ {q} : \A step : pc' # [pc EXCEPT ![w] = step]
    BY <1>2
  <2>4. q \notin Remover
    BY GuestAssumption
  <2>5. \A w \in Writer :
           ~(\/ \E email : Register(w, email) \/ \E g : Change(w, g, email)
             \/ \E g : \E s : Create(w, g, s) \/ Relocate(w, g, s) \/ Patch(w, s, g)
             \/ \E b : Withdraw(w, b))
    BY <2>3 DEF Register, Change, Create, Relocate, Patch, Withdraw, Begin, End
  <2>6. \A w \in Writer :
           ~InsertGuest(w) /\ ~UpdateGuest(w) /\ ~Insert(w) /\ ~Reassign(w) /\ ~Erase(w)
    BY <2>1, <2>2, <2>3 DEF InsertGuest, UpdateGuest, Insert, Reassign, Erase, End
  <2>7. \A w \in Remover \cup Writer : ~Refuse(w)
    BY <2>2, <2>3 DEF Refuse, End
  <2>8. \A r \in Remover : /\ \A g : ~Remove(r, g) /\ ~List(r, g)
                           /\ ~Decide(r) /\ ~Delete(r) /\ ~Reply(r)
    BY <2>3, <2>4 DEF Remove, List, FanOut, Begin, Decide, Delete, Reply, End
  <2>9. pc' # pc
    OBVIOUS
  <2> QED
    BY <1>2, <2>5, <2>6, <2>7, <2>8, <2>9 DEF Next, Count, ShardChanges, Rest, vars
<1> QED
  BY <1>1, <1>2, NextUnraced, IInvInvariant, PTL DEF Spec, OnlyRacesAre500

-----------------------------------------------------------------------------
(* Types.  What a request does next goes with what it was asked.            *)
Asked ==
    /\ \A q \in Writer :
          /\ pc[q] = "insert" => job[q].op = "register"
          /\ pc[q] = "update" => job[q].op = "change"
          /\ pc[q] = "write" => job[q].op \in {"create", "move", "saga", "patch", "delete"}
    /\ \A r \in Remover :
          pc[r] \in {"count", "delete"} => job[r].op \in {"remove", "list"}

Typed == IInv /\ TypeOK /\ Asked

Guests(table) ==
    /\ DOMAIN table \subseteq GuestId
    /\ \A g \in DOMAIN table :
          /\ table[g] \in Email
          /\ \A h \in DOMAIN table \ {g} : table[h] # table[g]

\* What TypeOK says of the guests, without pronouncing Taken.
LEMMA GuestsTyped == TypeOK => Guests(guest)
BY DEF TypeOK, Guests, Taken

\* The index keeps emails apart, and a deletion cannot bring two together.
LEMMA GuestsTypedNext ==
    ASSUME Typed, NEW q \in Remover \cup Writer,
           \/ \E g : WriteGuests([h \in DOMAIN guest \ {g} |-> guest[h]])
           \/ \E g \in GuestId : \E email \in Email :
                 ~Taken(email, g) /\ WriteGuests(With(guest, g, email))
    PROVE  Guests(guest')
<1>1. Guests(guest)
  BY GuestsTyped DEF Typed
<1>2. CASE \E g : WriteGuests([h \in DOMAIN guest \ {g} |-> guest[h]])
  BY <1>1, <1>2 DEF Guests, WriteGuests
<1>3. ASSUME NEW g \in GuestId, NEW email \in Email,
             ~Taken(email, g), WriteGuests(With(guest, g, email))
      PROVE  Guests(guest')
  <2>1. guest' = With(guest, g, email)
    BY <1>3 DEF WriteGuests
  <2>2. /\ DOMAIN guest' = DOMAIN guest \cup {g}
        /\ guest'[g] = email
        /\ \A h \in DOMAIN guest \ {g} : guest'[h] = guest[h]
    BY <2>1 DEF With
  <2>3. \A h \in DOMAIN guest \ {g} : guest[h] # email
    BY <1>3 DEF Taken
  <2> QED
    BY <1>1, <2>2, <2>3 DEF Guests
<1> QED
  BY <1>2, <1>3

\* Registrations and changes of guests.
LEMMA GuestStepTyped ==
    ASSUME Typed, NEW q \in Writer, NEW g \in GuestId, NEW email \in Email,
           \/ Register(q, email) \/ Change(q, g, email)
           \/ InsertGuest(q) \/ UpdateGuest(q)
    PROVE  TypeOK' /\ Asked'
<1>1. q \in GuestId /\ q \notin Remover
  BY GuestAssumption DEF GuestId
<1>2. Guests(guest')
  <2>1. CASE Register(q, email) \/ Change(q, g, email)
    BY <2>1, GuestsTyped DEF Typed, Register, Change, Guests
  <2>2. CASE InsertGuest(q)
    <3>1. job[q] \in [op : {"register"}, email : Email]
      BY <2>2 DEF Typed, Asked, TypeOK, Job, InsertGuest
    <3> QED
      BY <1>1, <2>2, <3>1, GuestsTyped, GuestsTypedNext DEF InsertGuest, Typed
  <2>3. CASE UpdateGuest(q)
    <3>1. job[q] \in [op : {"change"}, guest : GuestId, email : Email]
      BY <2>3 DEF Typed, Asked, TypeOK, Job, UpdateGuest
    <3> QED
      BY <1>1, <2>3, <3>1, GuestsTyped, GuestsTypedNext DEF UpdateGuest, Typed
  <2> QED
    BY <2>1, <2>2, <2>3
<1>3. UNCHANGED <<booking, up, count, failed, held>> /\ touched' \subseteq Writer
  BY DEF Typed, TypeOK, Register, Change, InsertGuest, UpdateGuest, WriteGuests, history
<1>4. \/ UNCHANGED job
      \/ \E what \in Job : job' = [job EXCEPT ![q] = what]
  BY DEF Register, Change, InsertGuest, UpdateGuest, Begin, Job
<1>5. job' \in [Remover \cup Writer -> Job]
  BY <1>4 DEF Typed, TypeOK
<1>6. /\ pc' \in [Remover \cup Writer ->
                    {"idle", "count", "delete", "write", "insert", "update",
                     "200", "404", "409", "500", "503", "refused"}]
      /\ Asked'
  BY <1>1 DEF Typed, TypeOK, Asked, Register, Change, InsertGuest, UpdateGuest, Begin, End
<1> QED
  BY <1>2, <1>3, <1>5, <1>6 DEF Guests, Typed, TypeOK, Taken

\* Requests about bookings up to their writes.
LEMMA AskTyped ==
    ASSUME Typed, NEW q \in Writer, NEW g, NEW b, NEW s,
           \/ g \in GuestId /\ s \in Shard /\ Create(q, g, s)
           \/ b \in BookingId /\ g \in GuestId /\ Patch(q, b, g)
           \/ b \in BookingId /\ Withdraw(q, b)
           \/ b \in BookingId /\ s \in Shard /\ Relocate(q, b, s)
    PROVE  TypeOK' /\ Asked'
<1>1. q \notin Remover
  BY GuestAssumption
<1>2. UNCHANGED <<guest, booking, up, count, failed, held, touched>>
  BY DEF Create, Patch, Withdraw, Relocate, history
<1>3. b \in BookingId /\ Exists(b) => booking[b].guest \in GuestId /\ booking[b].shard \in Shard
  BY DEF Typed, TypeOK, Exists, Booking, Absent
<1>4. \/ UNCHANGED job
      \/ \E what \in Job : job' = [job EXCEPT ![q] = what]
  <2>1. CASE g \in GuestId /\ s \in Shard /\ Create(q, g, s)
    BY <2>1 DEF Create, Begin, Job
  <2>2. CASE b \in BookingId /\ g \in GuestId /\ Patch(q, b, g)
    BY <2>2 DEF Patch, Begin, Job
  <2>3. CASE b \in BookingId /\ Withdraw(q, b)
    BY <2>3 DEF Withdraw, Begin, Job
  <2>4. CASE b \in BookingId /\ s \in Shard /\ Relocate(q, b, s)
    <3> DEFINE what == [op |-> IF s = booking[b].shard THEN "move" ELSE "saga",
                        from |-> b, guest |-> booking[b].guest, shard |-> s]
    <3>1. what \in Job
      BY <1>3, <2>4 DEF Relocate, Job
    <3> QED
      BY <2>4, <3>1 DEF Relocate, Begin
  <2> QED
    BY <2>1, <2>2, <2>3, <2>4
<1>5. job' \in [Remover \cup Writer -> Job]
  BY <1>4 DEF Typed, TypeOK
<1>6. /\ pc' \in [Remover \cup Writer ->
                    {"idle", "count", "delete", "write", "insert", "update",
                     "200", "404", "409", "500", "503", "refused"}]
      /\ Asked'
  BY <1>1 DEF Typed, TypeOK, Asked, Create, Patch, Withdraw, Relocate, Begin, End
<1> QED
  BY <1>2, <1>5, <1>6 DEF Typed, TypeOK, Taken

\* The writes of bookings.
LEMMA WriteTyped ==
    ASSUME Typed, NEW q \in Writer, Insert(q) \/ Reassign(q) \/ Erase(q)
    PROVE  TypeOK' /\ Asked'
<1>1. q \in BookingId /\ q \notin Remover
  BY GuestAssumption DEF BookingId
<1>2. /\ pc' = [pc EXCEPT ![q] = "200"]
      /\ UNCHANGED <<guest, up, job, count, failed, touched>>
      /\ held' \in [Remover -> SUBSET BookingId]
  <2>1. \E table : Write(table)
    BY DEF Insert, Reassign, Erase
  <2>2. UNCHANGED touched /\ held' \in [Remover -> SUBSET BookingId]
    BY <2>1 DEF Write, Typed, TypeOK
  <2> QED
    BY <2>2 DEF Insert, Reassign, Erase, End
<1>3. booking' \in [BookingId -> Booking \cup {Absent}]
  <2>1. CASE Insert(q)
    <3>1. job[q].guest \in GuestId /\ job[q].shard \in Shard
      BY <2>1 DEF Insert, Typed, TypeOK, Job
    <3>2. [shard |-> job[q].shard, guest |-> job[q].guest] \in Booking
      BY <3>1 DEF Booking
    <3> QED
      BY <1>1, <2>1, <3>2 DEF Insert, Write, Typed, TypeOK
  <2>2. CASE Reassign(q)
    <3>1. job[q].id \in BookingId /\ job[q].guest \in GuestId
      BY <2>2 DEF Reassign, Typed, TypeOK, Job
    <3>2. booking[job[q].id] \in Booking
      BY <2>2, <3>1 DEF Reassign, Exists, Typed, TypeOK
    <3>3. [booking[job[q].id] EXCEPT !.guest = job[q].guest] \in Booking
      BY <3>1, <3>2 DEF Booking
    <3>4. booking' = [booking EXCEPT ![job[q].id] =
                         [booking[job[q].id] EXCEPT !.guest = job[q].guest]]
      BY <2>2 DEF Reassign, Write
    <3> HIDE DEF Booking
    <3> QED
      BY <3>3, <3>4 DEF Typed, TypeOK
  <2>3. CASE Erase(q)
    BY <2>3 DEF Erase, Write, Typed, TypeOK
  <2> QED
    BY <2>1, <2>2, <2>3
<1>4. /\ pc' \in [Remover \cup Writer ->
                    {"idle", "count", "delete", "write", "insert", "update",
                     "200", "404", "409", "500", "503", "refused"}]
      /\ Asked'
  BY <1>1, <1>2 DEF Typed, TypeOK, Asked
<1> QED
  BY <1>2, <1>3, <1>4 DEF Typed, TypeOK, Taken

\* The beginning of a fan-out.
LEMMA FanOutTyped ==
    ASSUME Typed, NEW r \in Remover, NEW g \in GuestId, Remove(r, g) \/ List(r, g)
    PROVE  TypeOK' /\ Asked'
<1>1. r \notin Writer
  BY GuestAssumption
<1>2. UNCHANGED <<guest, booking, up, count, failed, touched>>
  BY DEF Remove, List
<1>3. job' \in [Remover \cup Writer -> Job]
  BY DEF Remove, List, FanOut, Begin, Typed, TypeOK, Job
<1>4. held' \in [Remover -> SUBSET BookingId]
  BY DEF Remove, List, FanOut, BookingsOf, Typed, TypeOK
<1>5. /\ pc' \in [Remover \cup Writer ->
                    {"idle", "count", "delete", "write", "insert", "update",
                     "200", "404", "409", "500", "503", "refused"}]
      /\ Asked'
  BY <1>1 DEF Remove, List, FanOut, Begin, End, Typed, TypeOK, Asked
<1> QED
  BY <1>2, <1>3, <1>4, <1>5 DEF Typed, TypeOK, Taken

\* A shard answers or fails a fan-out, once.
LEMMA CountTyped ==
    ASSUME Typed, NEW r \in Remover, NEW s \in Shard, Count(r, s)
    PROVE  TypeOK' /\ Asked'
<1> DEFINE seen == {b \in BookingsOf(job[r].guest) : booking[b].shard = s}
<1>1. UNCHANGED <<guest, booking, up, pc, job, held, touched>>
  BY DEF Count, history
<1>2. Asked'
  BY <1>1 DEF Typed, Asked
<1>3. Cardinality(seen) \in Nat
  BY FewerBookings DEF BookingsOf
<1>4. ASSUME NEW o \in Remover
      PROVE  /\ (failed[o])' \subseteq Shard
             /\ DOMAIN (count[o])' \subseteq Shard \ (failed[o])'
             /\ \A t \in DOMAIN (count[o])' : (count[o])'[t] \in Nat
  <2>1. /\ failed[o] \subseteq Shard
        /\ DOMAIN count[o] \subseteq Shard \ failed[o]
        /\ \A t \in DOMAIN count[o] : count[o][t] \in Nat
    BY DEF Typed, TypeOK
  <2>2. s \notin DOMAIN count[r] \cup failed[r]
    BY DEF Count
  <2>3. \/ (count[o])' = count[o] /\ (failed[o])' = failed[o]
        \/ /\ o = r
           /\ (failed[o])' = failed[o]
           /\ (count[o])' = [t \in DOMAIN count[o] \cup {s} |->
                                IF t = s THEN Cardinality(seen) ELSE count[o][t]]
        \/ o = r /\ (count[o])' = count[o] /\ (failed[o])' = failed[o] \cup {s}
    BY DEF Count, Typed, IInv, Tables
  <2> HIDE DEF seen
  <2> QED
    BY <1>3, <2>1, <2>2, <2>3
<1> QED
  BY <1>1, <1>2, <1>4 DEF Typed, TypeOK, Taken

\* The end of a fan-out.
LEMMA AnswerTyped ==
    ASSUME Typed, NEW r \in Remover, Decide(r) \/ Reply(r) \/ Delete(r)
    PROVE  TypeOK' /\ Asked'
<1>1. r \notin Writer
  BY GuestAssumption
<1>2. UNCHANGED <<booking, up, job, count, failed, held>> /\ touched' \subseteq Writer
  BY DEF Decide, Reply, Delete, WriteGuests, history, Typed, TypeOK
<1>3. Guests(guest')
  <2>1. CASE UNCHANGED guest
    BY <2>1, GuestsTyped DEF Typed, Guests
  <2>2. CASE ~UNCHANGED guest
    BY <2>2, GuestsTypedNext DEF Decide, Reply, Delete
  <2> QED
    BY <2>1, <2>2
<1>4. /\ pc' \in [Remover \cup Writer ->
                    {"idle", "count", "delete", "write", "insert", "update",
                     "200", "404", "409", "500", "503", "refused"}]
      /\ Asked'
  BY <1>1, <1>2 DEF Decide, Reply, Delete, End, Typed, TypeOK, Asked
<1> QED
  BY <1>2, <1>3, <1>4 DEF Guests, Typed, TypeOK, Taken

\* Errors, outages and stuttering.
LEMMA OtherTyped ==
    ASSUME Typed,
           \/ \E q \in Remover \cup Writer : Refuse(q)
           \/ \E s \in Outages : ShardChanges(s)
           \/ Rest \/ UNCHANGED vars
    PROVE  TypeOK' /\ Asked'
<1>1. UNCHANGED <<guest, booking, job, count, failed, held, touched>>
  BY DEF Refuse, ShardChanges, Rest, vars, history
<1>2. up' \subseteq Shard
  BY GuestAssumption DEF Refuse, ShardChanges, Rest, vars, Typed, TypeOK
<1>3. /\ pc' \in [Remover \cup Writer ->
                    {"idle", "count", "delete", "write", "insert", "update",
                     "200", "404", "409", "500", "503", "refused"}]
      /\ Asked'
  BY <1>1 DEF Refuse, ShardChanges, Rest, vars, End, Typed, TypeOK, Asked
<1> QED
  BY <1>1, <1>2, <1>3 DEF Typed, TypeOK, Taken

\* The stored rows have their types.
LEMMA InitTyped == Init => Typed
<1> SUFFICES ASSUME Init PROVE Typed
  OBVIOUS
<1>1. Asked
  BY GuestAssumption DEF Init, Asked
<1>2. Guests(guest)
  BY GuestAssumption DEF Init, Guests, GuestId
<1>3. booking \in [BookingId -> Booking \cup {Absent}]
  <2>1. \A b \in DOMAIN Seeded : Seeded[b] \in Booking
    BY GuestAssumption DEF Booking, GuestId
  <2> QED
    BY <2>1 DEF Init
<1>4. job \in [Remover \cup Writer -> Job]
  BY DEF Init, Job
<1> QED
  BY <1>1, <1>2, <1>3, <1>4, InitIInv DEF Init, Guests, Typed, TypeOK, Taken

\* Every step keeps the types.
LEMMA NextTyped == Typed /\ [Next]_vars => Typed'
<1> SUFFICES ASSUME Typed, [Next]_vars PROVE Typed'
  OBVIOUS
<1>1. IInv'
  BY NextIInv DEF Typed
<1>2. DOMAIN Guest \cup DOMAIN guest \subseteq GuestId
  BY DEF Typed, TypeOK, GuestId
<1>3. CASE \E r \in Remover :
              \/ \E g \in DOMAIN Guest \cup DOMAIN guest : Remove(r, g) \/ List(r, g)
              \/ \E s \in Shard : Count(r, s)
              \/ Decide(r) \/ Delete(r) \/ Reply(r)
  BY <1>1, <1>2, <1>3, FanOutTyped, CountTyped, AnswerTyped DEF Typed
<1>4. CASE \E q \in Writer : \/ \E email \in Email : Register(q, email)
                             \/ \E g \in DOMAIN Guest \cup DOMAIN guest :
                                   \E email \in Email : Change(q, g, email)
                             \/ InsertGuest(q) \/ UpdateGuest(q)
  <2>1. PICK q \in Writer :
           \/ \E email \in Email : Register(q, email)
           \/ \E g \in GuestId : \E email \in Email : Change(q, g, email)
           \/ InsertGuest(q) \/ UpdateGuest(q)
    BY <1>2, <1>4
  <2>2. q \in GuestId
    BY DEF GuestId
  <2>3. CASE InsertGuest(q) \/ UpdateGuest(q)
    <3>1. job[q].email \in Email
      BY <2>3 DEF InsertGuest, UpdateGuest, Typed, TypeOK, Asked, Job
    <3> QED
      BY <1>1, <2>2, <2>3, <3>1, GuestStepTyped DEF Typed
  <2>4. ASSUME NEW email \in Email, NEW g \in GuestId,
             Register(q, email) \/ Change(q, g, email)
        PROVE  Typed'
    BY <1>1, <2>4, GuestStepTyped DEF Typed
  <2> QED
    BY <2>1, <2>2, <2>3, <2>4
<1>5. CASE \E q \in Writer :
              \/ \E g \in DOMAIN Guest \cup DOMAIN guest :
                    \/ \E s \in Shard : Create(q, g, s)
                    \/ \E b \in BookingId : Patch(q, b, g)
              \/ \E b \in BookingId : Withdraw(q, b) \/ \E s \in Shard : Relocate(q, b, s)
  BY <1>1, <1>2, <1>5, AskTyped DEF Typed
<1>6. CASE \E q \in Writer : Insert(q) \/ Reassign(q) \/ Erase(q)
  BY <1>1, <1>6, WriteTyped DEF Typed
<1>7. CASE \/ \E q \in Remover \cup Writer : Refuse(q)
           \/ \E s \in Outages : ShardChanges(s)
           \/ Rest \/ UNCHANGED vars
  BY <1>1, <1>7, OtherTyped DEF Typed
<1> QED
  BY <1>3, <1>4, <1>5, <1>6, <1>7 DEF Next

(* The types, and with them that no two guests have one email, whatever the *)
(* order of registrations, changes and removals.                            *)
THEOREM TypeTheorem == Spec => []TypeOK
<1>1. Typed => TypeOK
  BY DEF Typed
<1> QED
  BY <1>1, InitTyped, NextTyped, PTL DEF Spec
=============================================================================
