-------------------------- MODULE HotelCardProofs ---------------------------
(***************************************************************************)
(* What holds of HotelCard for every number of hotels, requests and every  *)
(* choice of faults: the types, with the room always in a hotel that       *)
(* exists, and that the causes StaleCardHasCause names are all there are.  *)
(***************************************************************************)
EXTENDS HotelCard, TLAPS

-----------------------------------------------------------------------------
(* Types.                                                                   *)

Step == {"idle", "load", "store", "write", "del", "hit", "miss", "bypass",
         "200", "404", "500", "503"}

Reads == [op : {"get"}, hotel : Hotel]
Mutates == [op : Op, hotel : Hotel, to : Hotel, wrote : [Hotel -> Nat]]

(* What a request does next goes with what it was asked.                    *)
Asked ==
    /\ \A r \in Reader :
          /\ pc[r] \notin {"write", "del"}
          /\ pc[r] \in {"load", "store"} => job[r] \in Reads
    /\ \A w \in Writer :
          /\ pc[w] \notin {"load", "store"}
          /\ pc[w] \in {"write", "del"} => job[w] \in Mutates

Typed == TypeOK /\ Asked

\* A step of one process keeps the types of all.
LEMMA ProcessStep ==
    ASSUME Typed, NEW p \in Process, NEW next \in Step, NEW what \in Job,
           pc' = [pc EXCEPT ![p] = next],
           (job' = [job EXCEPT ![p] = what]) \/ (UNCHANGED job /\ what = job[p]),
           p \in Reader => next \notin {"write", "del"},
           p \in Writer => next \notin {"load", "store"},
           next \in {"load", "store"} => what \in Reads,
           next \in {"write", "del"} => what \in Mutates
    PROVE  /\ pc' \in [Process -> Step] /\ job' \in [Process -> Job]
           /\ Asked'
           /\ pc'[p] = next /\ job'[p] = what
           /\ \A o \in Process \ {p} : pc'[o] = pc[o] /\ job'[o] = job[o]
<1>1. pc \in [Process -> Step] /\ job \in [Process -> Job]
  BY DEF Typed, TypeOK, Step
<1>2. pc' \in [Process -> Step] /\ job' \in [Process -> Job]
  BY <1>1
<1>3. /\ pc'[p] = next /\ job'[p] = what
      /\ \A o \in Process \ {p} : pc'[o] = pc[o] /\ job'[o] = job[o]
  BY <1>1
<1>4. Asked'
  BY <1>3 DEF Typed, Asked, Process
<1> QED
  BY <1>2, <1>3, <1>4

-----------------------------------------------------------------------------
(* The inductive invariant.                                                 *)

\* A card without a cause of its own to be stale.
Fresh(card, v) == card.clean /\ card.from = "primary" => card.version >= v

(* No card of h is older than v without a cause, in Redis or on its way.    *)
Covered(h, v) ==
    \/ h \in excused
    \/ /\ h \in DOMAIN entry => Fresh(entry[h], v)
       /\ \A r \in Reader : pc[r] = "store" /\ job[r].hotel = h => Fresh(load[r], v)

(* What is through is covered; what a mutation has written and not yet      *)
(* invalidated is covered unless its DEL is going to cover it.              *)
IInv ==
    /\ Typed
    /\ \A h \in Hotel : settled[h] <= version[h] /\ Covered(h, settled[h])
    /\ \A w \in Writer : pc[w] = "del" =>
          \A h \in Hotel : /\ job[w].wrote[h] <= version[h]
                           /\ h \in Dropped(w) \/ Covered(h, job[w].wrote[h])

\* What only takes cards away, or excuses, leaves covered what was.
LEMMA StillCovered ==
    ASSUME NEW h, NEW v, Covered(h, v),
           h \in excused => h \in excused',
           h \in DOMAIN entry' => h \in DOMAIN entry /\ entry'[h] = entry[h],
           \A r \in Reader : pc'[r] = "store" /\ job'[r].hotel = h =>
              \/ pc[r] = "store" /\ job'[r] = job[r] /\ load'[r] = load[r]
              \/ Fresh(load'[r], v)
    PROVE  Covered(h, v)'
BY DEF Covered, Fresh

\* A step that settles nothing, writes nothing and keeps what is covered.
LEMMA NothingSettled ==
    ASSUME IInv, Typed', UNCHANGED <<version, settled>>,
           \A w \in Writer : pc'[w] = "del" => pc[w] = "del" /\ job'[w] = job[w],
           \A h \in Hotel : \A v \in Nat : v <= version[h] /\ Covered(h, v) => Covered(h, v)'
    PROVE  IInv'
<1>1. ASSUME NEW h \in Hotel PROVE settled'[h] <= version'[h] /\ Covered(h, settled[h])'
  BY <1>1 DEF IInv, Typed, TypeOK
<1>2. ASSUME NEW w \in Writer, pc'[w] = "del", NEW h \in Hotel
      PROVE  /\ job'[w].wrote[h] <= version'[h]
             /\ h \in Dropped(w)' \/ Covered(h, job[w].wrote[h])'
  <2>1. pc[w] = "del" /\ job'[w] = job[w]
    BY <1>2
  <2>2. job[w].wrote[h] \in Nat
    BY <2>1 DEF IInv, Typed, Asked, Mutates
  <2>3. /\ job[w].wrote[h] <= version[h]
        /\ h \in Dropped(w) \/ Covered(h, job[w].wrote[h])
    BY <2>1 DEF IInv
  <2>4. Dropped(w)' = Dropped(w)
    BY <2>1 DEF Dropped
  <2>5. Covered(h, job[w].wrote[h]) => Covered(h, job[w].wrote[h])'
    <3> DEFINE v == job[w].wrote[h]
    <3>1. v' = v
      BY <2>1
    <3>2. v \in Nat /\ v <= version[h]
      BY <2>2, <2>3
    <3> QED
      BY <2>1, <2>2, <2>3 DEF Covered, Fresh
  <2> QED
    BY <2>1, <2>3, <2>4, <2>5
<1> QED
  BY <1>1, <1>2 DEF IInv

-----------------------------------------------------------------------------
(* Reads.                                                                   *)

\* The lookup of a card begins a read and changes nothing.
LEMMA LookupKeeps ==
    ASSUME IInv, NEW r \in Reader, NEW h \in Hotel, Lookup(r, h)
    PROVE  IInv'
<1> DEFINE what == [op |-> "get", hotel |-> h]
<1>1. PICK next \in {"hit", "load", "bypass"} : pc' = [pc EXCEPT ![r] = next]
  BY DEF Lookup, Go
<1>2. /\ job' = [job EXCEPT ![r] = what]
      /\ UNCHANGED <<version, home, gone, replica, up, entry, load, settled, excused>>
  BY DEF Lookup, database
<1>3. what \in Reads /\ what \in Job /\ next \in Step /\ r \in Process /\ r \notin Writer
  BY CardAssumption DEF Reads, Job, Step, Process
<1>4. /\ pc' \in [Process -> Step] /\ job' \in [Process -> Job] /\ Asked'
      /\ pc'[r] = next
      /\ \A o \in Process \ {r} : pc'[o] = pc[o] /\ job'[o] = job[o]
  <2>1. Typed /\ next \notin {"write", "del"} /\ pc' = [pc EXCEPT ![r] = next]
    BY <1>1 DEF IInv
  <2> HIDE DEF what
  <2> QED
    BY <1>2, <1>3, <2>1, ProcessStep
<1>5. Typed'
  BY <1>2, <1>4 DEF IInv, Typed, TypeOK, Step
<1>6. \A k \in Hotel : \A v \in Nat : Covered(k, v) => Covered(k, v)'
  BY <1>2, <1>4, StillCovered DEF Process
<1> QED
  BY <1>2, <1>3, <1>4, <1>5, <1>6, NothingSettled DEF Process

\* A card from the primary is of the version of now, newer than all settled.
LEMMA LoadKeeps ==
    ASSUME IInv, NEW r \in Reader, Load(r)
    PROVE  IInv'
<1>1. /\ pc[r] = "load" /\ job[r] \in Reads
      /\ UNCHANGED <<version, home, gone, replica, up, entry, job, settled, excused>>
  BY DEF Load, IInv, Typed, Asked, database
<1>2. r \in Process /\ r \notin Writer /\ job[r] \in Job
  BY <1>1, CardAssumption DEF Process, Job, Reads
<1>3. \/ /\ pc' = [pc EXCEPT ![r] = "store"]
         /\ \E versions \in {version, replica.version} : \E node \in {"primary", "replica"} :
               /\ node = "primary" => versions = version
               /\ load' = [load EXCEPT ![r] =
                     [version |-> versions[job[r].hotel], clean |-> TRUE, from |-> node]]
      \/ pc' = [pc EXCEPT ![r] = "404"] /\ UNCHANGED load
  BY DEF Load, Loaded, Go
<1>4. PICK next \in {"store", "404"} : pc' = [pc EXCEPT ![r] = next]
  BY <1>3
<1>5. /\ pc' \in [Process -> Step] /\ job' \in [Process -> Job] /\ Asked'
      /\ \A o \in Process \ {r} : pc'[o] = pc[o] /\ job'[o] = job[o]
  BY <1>1, <1>2, <1>4, ProcessStep DEF IInv, Step
<1>6. load' \in [Reader -> Card]
  <2>1. /\ load \in [Reader -> Card] /\ job[r].hotel \in Hotel
        /\ version \in [Hotel -> Nat] /\ replica.version \in [Hotel -> Nat]
    BY <1>1 DEF IInv, Typed, TypeOK, Reads
  <2>2. \A versions \in {version, replica.version} : \A node \in {"primary", "replica"} :
           [version |-> versions[job[r].hotel], clean |-> TRUE, from |-> node] \in Card
    BY <2>1 DEF Card
  <2> HIDE DEF Card
  <2>3. CASE UNCHANGED load
    BY <2>1, <2>3
  <2>4. CASE \E card \in Card : load' = [load EXCEPT ![r] = card]
    BY <2>1, <2>4
  <2> QED
    BY <1>3, <2>2, <2>3, <2>4
<1>7. Typed'
  BY <1>1, <1>5, <1>6 DEF IInv, Typed, TypeOK, Step
<1>8. ASSUME NEW h \in Hotel, NEW v \in Nat, v <= version[h], Covered(h, v)
      PROVE  Covered(h, v)'
  <2>1. ASSUME pc'[r] = "store", job[r].hotel = h PROVE Fresh(load'[r], v)
    BY <1>1, <1>3, <1>8, <2>1 DEF IInv, Typed, TypeOK, Fresh
  <2>2. \A o \in Reader \ {r} : load'[o] = load[o]
    BY <1>3 DEF IInv, Typed, TypeOK
  <2> QED
    BY <1>1, <1>5, <1>8, <2>1, <2>2, StillCovered DEF Process
<1> QED
  BY <1>1, <1>2, <1>5, <1>7, <1>8, NothingSettled DEF Process

\* What was covered on its way is covered in Redis.
LEMMA StoreKeeps ==
    ASSUME IInv, NEW r \in Reader, Store(r)
    PROVE  IInv'
<1> DEFINE hotel == job[r].hotel
<1>1. /\ pc[r] = "store" /\ job[r] \in Reads /\ pc' = [pc EXCEPT ![r] = "miss"]
      /\ \/ entry' = [k \in DOMAIN entry \cup {hotel} |->
                         IF k = hotel THEN load[r] ELSE entry[k]]
         \/ UNCHANGED entry
      /\ UNCHANGED <<version, home, gone, replica, up, job, load, settled, excused>>
  BY DEF Store, Go, IInv, Typed, Asked, database
<1>2. r \in Process /\ r \notin Writer /\ job[r] \in Job
  BY <1>1, CardAssumption DEF Process, Job, Reads
<1>3. /\ pc' \in [Process -> Step] /\ job' \in [Process -> Job] /\ Asked'
      /\ pc'[r] = "miss"
      /\ \A o \in Process \ {r} : pc'[o] = pc[o] /\ job'[o] = job[o]
  BY <1>1, <1>2, ProcessStep DEF IInv, Step
<1>4. hotel \in Hotel /\ load[r] \in Card
  BY <1>1 DEF IInv, Typed, TypeOK, Reads
<1>5. DOMAIN entry' \subseteq Hotel /\ \A h \in DOMAIN entry' : entry'[h] \in Card
  <2> HIDE DEF Card
  <2> QED
    BY <1>1, <1>4 DEF IInv, Typed, TypeOK
<1>6. Typed'
  BY <1>1, <1>3, <1>5 DEF IInv, Typed, TypeOK, Step
<1>7. ASSUME NEW h \in Hotel, NEW v \in Nat, Covered(h, v) PROVE Covered(h, v)'
  BY <1>1, <1>3, <1>7 DEF Covered, Fresh, Process
<1> QED
  BY <1>1, <1>2, <1>3, <1>6, <1>7, NothingSettled DEF Process

-----------------------------------------------------------------------------
(* Mutations.                                                               *)

\* A mutation is admitted, or ends at once.
LEMMA CheckKeeps ==
    ASSUME IInv, NEW w \in Writer, NEW h \in Hotel,
           (\E op \in Op : Check(w, op, h)) \/ CheckMove(w, h)
    PROVE  IInv'
<1>1. \/ /\ pc' = [pc EXCEPT ![w] = "write"]
         /\ \E what \in Mutates : job' = [job EXCEPT ![w] = what]
      \/ \E next \in {"404", "503"} : pc' = [pc EXCEPT ![w] = next] /\ UNCHANGED job
  <2>1. CASE \E op \in Op : Check(w, op, h)
    BY <2>1 DEF Check, Go, Mutates, Unchanged
  <2>2. CASE CheckMove(w, h)
    <3>1. home \in Hotel /\ "move" \in Op
      BY DEF IInv, Typed, TypeOK, Op
    <3> QED
      BY <2>2, <3>1 DEF CheckMove, Go, Mutates, Unchanged
  <2> QED
    BY <2>1, <2>2
<1>2. UNCHANGED <<version, home, gone, replica, up, entry, load, settled, excused>>
  BY DEF Check, CheckMove, database
<1>3. w \in Process /\ w \notin Reader /\ Mutates \subseteq Job /\ job[w] \in Job
  BY CardAssumption DEF Process, Mutates, Job, IInv, Typed, TypeOK
<1>4. /\ pc' \in [Process -> Step] /\ job' \in [Process -> Job] /\ Asked'
      /\ pc'[w] # "del"
      /\ \A o \in Process \ {w} : pc'[o] = pc[o] /\ job'[o] = job[o]
  <2>1. CASE /\ pc' = [pc EXCEPT ![w] = "write"]
             /\ \E what \in Mutates : job' = [job EXCEPT ![w] = what]
    <3>1. PICK what \in Mutates : job' = [job EXCEPT ![w] = what]
      BY <2>1
    <3>2. Typed /\ "write" \in Step /\ what \in Job /\ pc' = [pc EXCEPT ![w] = "write"]
      BY <1>3, <2>1 DEF Step, IInv
    <3> QED
      BY <1>3, <3>1, <3>2, ProcessStep
  <2>2. CASE \E next \in {"404", "503"} : pc' = [pc EXCEPT ![w] = next] /\ UNCHANGED job
    <3>1. PICK next \in {"404", "503"} : pc' = [pc EXCEPT ![w] = next] /\ UNCHANGED job
      BY <2>2
    <3>2. next \in Step
      BY DEF Step
    <3> QED
      BY <1>3, <3>1, <3>2, ProcessStep DEF IInv
  <2> QED
    BY <1>1, <2>1, <2>2
<1>5. Typed'
  BY <1>2, <1>4 DEF IInv, Typed, TypeOK, Step
<1>6. \A k \in Hotel : \A v \in Nat : Covered(k, v) => Covered(k, v)'
  BY <1>2, <1>3, <1>4, StillCovered DEF Process
<1> QED
  BY <1>2, <1>4, <1>5, <1>6, NothingSettled DEF Process

\* A mutation changes the cards it is going to delete, or excuses them.
LEMMA WriteKeeps ==
    ASSUME IInv, NEW w \in Writer, Write(w)
    PROVE  IInv'
<1>1. w \in Process /\ w \notin Reader /\ pc[w] = "write" /\ job[w] \in Mutates
      /\ job[w] \in Job
  BY CardAssumption DEF Write, IInv, Typed, Asked, Process, TypeOK
<1>2. CASE pc' = [pc EXCEPT ![w] = "500"] \/ pc' = [pc EXCEPT ![w] = "503"]
  <2>1. PICK next \in {"500", "503"} : pc' = [pc EXCEPT ![w] = next]
    BY <1>2
  <2>2. pc'[w] = next
    BY <1>1, <2>1 DEF IInv, Typed, TypeOK
  <2>3. UNCHANGED <<version, home, gone, replica, up, entry, job, load, settled, excused>>
    BY <1>1, <2>2 DEF Write, Go, database, IInv, Typed, TypeOK
  <2>4. /\ pc' \in [Process -> Step] /\ job' \in [Process -> Job] /\ Asked'
        /\ \A o \in Process \ {w} : pc'[o] = pc[o] /\ job'[o] = job[o]
    BY <1>1, <2>1, <2>3, ProcessStep DEF IInv, Step
  <2>5. Typed'
    BY <2>3, <2>4 DEF IInv, Typed, TypeOK, Step
  <2>6. \A k \in Hotel : \A v \in Nat : Covered(k, v) => Covered(k, v)'
    BY <1>1, <2>3, <2>4, StillCovered DEF Process
  <2> QED
    BY <2>2, <2>3, <2>4, <2>5, <2>6, NothingSettled DEF Process
<1>3. CASE pc' = [pc EXCEPT ![w] = "del"]
  <2> DEFINE wrote == [h \in Hotel |-> IF h \in Touched(w) THEN version[h] + 1 ELSE 0]
             what == [job[w] EXCEPT !.wrote = wrote]
  <2>1. pc'[w] = "del"
    BY <1>1, <1>3 DEF IInv, Typed, TypeOK
  <2>2. /\ Allowed(w)
        /\ version' = [h \in Hotel |-> IF h \in Touched(w) THEN version[h] + 1 ELSE version[h]]
        /\ home' = IF job[w].op = "move" THEN job[w].to ELSE home
        /\ gone' = IF job[w].op = "remove" THEN gone \cup {job[w].to} ELSE gone
        /\ job' = [job EXCEPT ![w] = what]
        /\ excused' = excused \cup (Touched(w) \ {job[w].hotel, job[w].to})
        /\ UNCHANGED <<replica, up, entry, load, settled>>
    BY <1>1, <2>1 DEF Write, Go, IInv, Typed, TypeOK
  <2>3. version \in [Hotel -> Nat]
    BY DEF IInv, Typed, TypeOK
  <2>4. wrote \in [Hotel -> Nat]
    BY <2>3
  <2>5. /\ job[w].op \in Op /\ job[w].hotel \in Hotel /\ job[w].to \in Hotel
        /\ what = [op |-> job[w].op, hotel |-> job[w].hotel, to |-> job[w].to,
                   wrote |-> wrote]
    BY <1>1 DEF Mutates
  <2>6. what \in Mutates /\ what \in Job
    <3> HIDE DEF wrote, what
    <3> QED
      BY <2>4, <2>5 DEF Mutates, Job
  <2>7. /\ pc' \in [Process -> Step] /\ job' \in [Process -> Job] /\ Asked'
        /\ job'[w] = what
        /\ \A o \in Process \ {w} : pc'[o] = pc[o] /\ job'[o] = job[o]
    <3>1. Typed /\ "del" \in Step /\ job' = [job EXCEPT ![w] = what]
      BY <2>2 DEF Step, IInv
    <3> HIDE DEF what
    <3> QED
      BY <1>1, <1>3, <2>6, <3>1, ProcessStep
  <2>8. Touched(w) \subseteq Hotel
    BY <2>5 DEF Touched, IInv, Typed, TypeOK
  <2>9. version' \in [Hotel -> Nat] /\ excused' \subseteq Hotel /\ gone' \subseteq Hotel
        /\ home' \in Hotel \ gone'
    BY <2>2, <2>3, <2>5, <2>8 DEF Allowed, IInv, Typed, TypeOK
  <2>10. Typed'
    BY <2>2, <2>7, <2>9 DEF IInv, Typed, TypeOK, Step
  <2>11. \A h \in Hotel : \A v \in Nat : Covered(h, v) => Covered(h, v)'
    BY <1>1, <2>2, <2>7, StillCovered DEF Process
  <2>12. \A h \in Hotel : version[h] <= version'[h] /\ wrote[h] <= version'[h]
    BY <2>2, <2>3
  <2>13. ASSUME NEW h \in Hotel PROVE settled'[h] <= version'[h] /\ Covered(h, settled[h])'
    <3>1. settled[h] \in Nat /\ version[h] \in Nat /\ version'[h] \in Nat
      BY <2>9 DEF IInv, Typed, TypeOK
    <3>2. settled[h] <= version[h] /\ Covered(h, settled[h])
      BY DEF IInv
    <3>3. Covered(h, settled[h])'
      BY <2>2, <2>11, <3>1, <3>2 DEF Covered
    <3> QED
      BY <2>2, <2>12, <3>1, <3>2, <3>3
  <2>14. ASSUME NEW h \in Hotel PROVE h \in Dropped(w)' \/ Covered(h, job[w].wrote[h])'
    <3>1. Dropped(w)' = {job[w].hotel, job[w].to} /\ job'[w].wrote = wrote
      BY <2>5, <2>7 DEF Dropped
    <3>2. CASE h \in Touched(w)
      BY <2>2, <3>1, <3>2 DEF Covered
    <3>3. CASE h \notin Touched(w)
      <4>1. job'[w].wrote[h] = 0
        BY <3>1, <3>3
      <4>2. Covered(h, 0)'
        BY <2>10 DEF Covered, Fresh, Typed, TypeOK, Card
      <4> QED
        BY <4>1, <4>2 DEF Covered
    <3> QED
      BY <3>2, <3>3
  <2>15. ASSUME NEW o \in Writer \ {w}, pc'[o] = "del", NEW h \in Hotel
         PROVE  /\ job'[o].wrote[h] <= version'[h]
                /\ h \in Dropped(o)' \/ Covered(h, job[o].wrote[h])'
    <3>1. pc[o] = "del" /\ job'[o] = job[o] /\ Dropped(o)' = Dropped(o)
      BY <2>7, <2>15 DEF Process, Dropped
    <3>2. /\ job[o].wrote[h] \in Nat /\ job[o].wrote[h] <= version[h]
          /\ h \in Dropped(o) \/ Covered(h, job[o].wrote[h])
      BY <3>1 DEF IInv, Typed, Asked, Mutates
    <3>3. version[h] \in Nat /\ version'[h] \in Nat
      BY <2>3, <2>9
    <3>4. Covered(h, job[o].wrote[h]) => Covered(h, job[o].wrote[h])'
      BY <2>11, <3>1, <3>2 DEF Covered
    <3> QED
      BY <2>12, <3>1, <3>2, <3>3, <3>4
  <2> HIDE DEF what, wrote
  <2>16. job'[w].wrote = wrote
    BY <2>5, <2>7
  <2> QED
    BY <2>10, <2>12, <2>13, <2>14, <2>15, <2>16 DEF IInv
<1> QED
  BY <1>2, <1>3 DEF Write, Go

\* The DEL covers the cards it takes; a lost one excuses them.
LEMMA InvalidateKeeps ==
    ASSUME IInv, NEW w \in Writer, Invalidate(w)
    PROVE  IInv'
<1>1. /\ w \in Process /\ w \notin Reader /\ pc[w] = "del"
      /\ job[w] \in Mutates /\ job[w] \in Job /\ Typed
  BY CardAssumption DEF Invalidate, IInv, Typed, Asked, Process, TypeOK
<1>2. /\ pc' = [pc EXCEPT ![w] = "200"]
      /\ UNCHANGED <<version, home, gone, replica, up, job>>
      /\ settled' = [h \in Hotel |-> IF job[w].wrote[h] > settled[h]
                                     THEN job[w].wrote[h] ELSE settled[h]]
  BY DEF Invalidate, Go, database
<1>3. "200" \in Step
  BY DEF Step
<1>4. /\ pc' \in [Process -> Step] /\ job' \in [Process -> Job] /\ Asked'
      /\ pc'[w] = "200"
      /\ \A o \in Process \ {w} : pc'[o] = pc[o] /\ job'[o] = job[o]
  BY <1>1, <1>2, <1>3, ProcessStep
<1>5. Dropped(w) \subseteq Hotel /\ job[w].wrote \in [Hotel -> Nat]
  BY <1>1 DEF Dropped, Mutates
<1>6. \/ /\ entry' = [h \in DOMAIN entry \ Dropped(w) |-> entry[h]]
         /\ load' = [r \in Reader |->
               IF pc[r] = "store" /\ job[r].hotel \in Dropped(w)
               THEN [load[r] EXCEPT !.clean = FALSE] ELSE load[r]]
         /\ excused' = excused \ Dropped(w)
      \/ /\ excused' = excused \cup Dropped(w)
         /\ UNCHANGED <<entry, load>>
  BY DEF Invalidate
<1>7. /\ load' \in [Reader -> Card] /\ excused' \subseteq Hotel
      /\ DOMAIN entry' \subseteq Hotel /\ \A h \in DOMAIN entry' : entry'[h] \in Card
  <2>1. /\ load \in [Reader -> Card] /\ excused \subseteq Hotel
        /\ DOMAIN entry \subseteq Hotel /\ \A h \in DOMAIN entry : entry[h] \in Card
    BY <1>1 DEF Typed, TypeOK
  <2>2. CASE excused' = excused \cup Dropped(w) /\ UNCHANGED <<entry, load>>
    BY <1>5, <2>1, <2>2
  <2>3. CASE /\ entry' = [h \in DOMAIN entry \ Dropped(w) |-> entry[h]]
             /\ load' = [r \in Reader |->
                   IF pc[r] = "store" /\ job[r].hotel \in Dropped(w)
                   THEN [load[r] EXCEPT !.clean = FALSE] ELSE load[r]]
             /\ excused' = excused \ Dropped(w)
    <3>1. \A r \in Reader : load[r] \in Card /\ [load[r] EXCEPT !.clean = FALSE] \in Card
      BY <2>1 DEF Card
    <3>2. load' \in [Reader -> Card]
      BY <2>3, <3>1
    <3>3. DOMAIN entry' \subseteq Hotel /\ \A h \in DOMAIN entry' : entry'[h] \in Card
      BY <2>1, <2>3
    <3> QED
      BY <2>1, <2>3, <3>2, <3>3
  <2> QED
    BY <1>6, <2>2, <2>3
<1>8. settled' \in [Hotel -> Nat]
  BY <1>1, <1>2, <1>5 DEF Typed, TypeOK
<1>9. Typed'
  BY <1>1, <1>2, <1>4, <1>7, <1>8 DEF Typed, TypeOK, Step
<1>10. ASSUME NEW h \in Dropped(w), NEW v PROVE Covered(h, v)'
  <2>1. ASSUME NEW r \in Reader, pc[r] = "store", job[r].hotel = h, excused' = excused \ Dropped(w)
        PROVE  ~load'[r].clean \/ h \in excused'
    <3>1. CASE UNCHANGED load /\ excused' = excused \cup Dropped(w)
      BY <3>1
    <3>2. CASE load' = [q \in Reader |->
                  IF pc[q] = "store" /\ job[q].hotel \in Dropped(w)
                  THEN [load[q] EXCEPT !.clean = FALSE] ELSE load[q]]
      <4>1. load'[r] = [load[r] EXCEPT !.clean = FALSE]
        BY <2>1, <3>2
      <4>2. load[r] \in Card
        BY <1>1 DEF Typed, TypeOK
      <4> QED
        BY <4>1, <4>2 DEF Card
    <3> QED
      BY <1>6, <3>1, <3>2
  <2>2. CASE h \in excused'
    BY <2>2 DEF Covered
  <2>3. CASE h \notin excused'
    <3>1. h \notin DOMAIN entry' /\ excused' = excused \ Dropped(w)
      BY <1>6, <2>3
    <3>2. \A r \in Reader : pc'[r] = "store" => pc[r] = "store" /\ job'[r] = job[r]
      BY <1>1, <1>4 DEF Process
    <3> QED
      BY <2>1, <2>3, <3>1, <3>2 DEF Covered, Fresh
  <2> QED
    BY <2>2, <2>3
<1>11. ASSUME NEW h \in Hotel \ Dropped(w), NEW v, Covered(h, v) PROVE Covered(h, v)'
  <2>1. h \in excused => h \in excused'
    BY <1>6
  <2>2. h \in DOMAIN entry' => h \in DOMAIN entry /\ entry'[h] = entry[h]
    BY <1>6
  <2>3. \A r \in Reader : pc'[r] = "store" /\ job'[r].hotel = h =>
           pc[r] = "store" /\ job'[r] = job[r] /\ load'[r] = load[r]
    BY <1>1, <1>4, <1>6 DEF Process
  <2> QED
    BY <1>11, <2>1, <2>2, <2>3, StillCovered
<1>12. ASSUME NEW h \in Hotel PROVE settled'[h] <= version'[h] /\ Covered(h, settled[h])'
  <2>1. /\ settled[h] <= version[h] /\ Covered(h, settled[h])
        /\ job[w].wrote[h] <= version[h]
        /\ h \in Dropped(w) \/ Covered(h, job[w].wrote[h])
    BY <1>1 DEF IInv
  <2>2. settled'[h] \in {settled[h], job[w].wrote[h]}
    BY <1>2
  <2>3. settled'[h] <= version'[h]
    BY <1>2, <2>1, <2>2
  <2>4. CASE h \in Dropped(w)
    BY <1>10, <2>3, <2>4 DEF Covered
  <2>5. CASE h \notin Dropped(w)
    <3>1. PICK v : v = settled'[h]
      OBVIOUS
    <3>2. Covered(h, v)
      BY <2>1, <2>2, <2>5, <3>1
    <3>3. Covered(h, v)'
      BY <1>11, <2>5, <3>2
    <3> QED
      BY <2>3, <3>1, <3>3 DEF Covered
  <2> QED
    BY <2>4, <2>5
<1>13. ASSUME NEW o \in Writer, pc'[o] = "del", NEW h \in Hotel
       PROVE  /\ job'[o].wrote[h] <= version'[h]
              /\ h \in Dropped(o)' \/ Covered(h, job[o].wrote[h])'
  <2>1. pc[o] = "del" /\ job'[o] = job[o]
    BY <1>4, <1>13 DEF Process
  <2>2. /\ job[o].wrote[h] <= version[h]
        /\ h \in Dropped(o) \/ Covered(h, job[o].wrote[h])
    BY <2>1 DEF IInv
  <2>3. Dropped(o)' = Dropped(o)
    BY <2>1 DEF Dropped
  <2>4. CASE h \in Dropped(w)
    BY <1>2, <1>10, <2>1, <2>2, <2>4 DEF Covered
  <2>5. CASE h \notin Dropped(w)
    BY <1>2, <1>11, <2>1, <2>2, <2>3, <2>5 DEF Covered
  <2> QED
    BY <2>4, <2>5
<1> QED
  BY <1>9, <1>12, <1>13 DEF IInv

-----------------------------------------------------------------------------
\* Expiry, replication and the primary take cards away or change none.
LEMMA RestKeeps ==
    ASSUME IInv,
           \/ \E h \in Hotel : Expire(h)
           \/ Replicate \/ PrimaryChanges \/ Rest \/ UNCHANGED vars
    PROVE  IInv'
<1>1. /\ UNCHANGED <<version, home, gone, pc, job, load, settled, excused>>
      /\ DOMAIN entry' \subseteq DOMAIN entry
      /\ \A h \in DOMAIN entry' : entry'[h] = entry[h]
  BY DEF Expire, Replicate, PrimaryChanges, Rest, vars, database
<1>2. replica' \in [version : [Hotel -> Nat], gone : SUBSET Hotel]
  <2>1. /\ replica \in [version : [Hotel -> Nat], gone : SUBSET Hotel]
        /\ version \in [Hotel -> Nat] /\ gone \in SUBSET Hotel
    BY DEF IInv, Typed, TypeOK
  <2>2. replica' = replica \/ replica' = [version |-> version, gone |-> gone]
    BY DEF Expire, Replicate, PrimaryChanges, Rest, vars
  <2> QED
    BY <2>1, <2>2
<1>3. up' \in BOOLEAN
  <2>1. up \in BOOLEAN
    BY DEF IInv, Typed, TypeOK
  <2>2. up' = up \/ up' = ~up
    BY Zenon DEF Expire, Replicate, PrimaryChanges, Rest, vars
  <2> QED
    BY <2>1, <2>2, Zenon
<1>4. \A h \in DOMAIN entry' : entry'[h] \in Card
  BY <1>1 DEF IInv, Typed, TypeOK
<1>5. Typed'
  <2> HIDE DEF Card, Job
  <2> QED
    BY <1>1, <1>2, <1>3, <1>4 DEF IInv, Typed, TypeOK, Asked
<1>6. \A h \in Hotel : \A v \in Nat : Covered(h, v) => Covered(h, v)'
  BY <1>1, StillCovered
<1> QED
  BY <1>1, <1>5, <1>6, NothingSettled

\* No card, and no mutation under way.
LEMMA InitIInv == Init => IInv
<1> SUFFICES ASSUME Init PROVE IInv
  OBVIOUS
<1>1. TypeOK
  BY CardAssumption DEF Init, TypeOK, Unchanged, NoCard, Card, Job
<1>2. Asked
  BY DEF Init, Asked, Process
<1>3. \A h \in Hotel : settled[h] <= version[h] /\ Covered(h, settled[h])
  BY DEF Init, Unchanged, Covered, Process
<1> QED
  BY <1>1, <1>2, <1>3 DEF IInv, Typed, Init, Process

\* Every step keeps the invariant.
LEMMA NextIInv == IInv /\ [Next]_vars => IInv'
BY LookupKeeps, LoadKeeps, StoreKeeps, CheckKeeps, WriteKeeps, InvalidateKeeps, RestKeeps
   DEF Next

\* IInv holds throughout.
THEOREM IInvInvariant == Spec => []IInv
BY InitIInv, NextIInv, PTL DEF Spec

(* The types; the room is always in a hotel that exists, whatever is moved  *)
(* and deleted at the same time.                                            *)
THEOREM TypeTheorem == Spec => []TypeOK
<1>1. IInv => TypeOK
  BY DEF IInv, Typed
<1> QED
  BY <1>1, IInvInvariant, PTL

(* A stale card has one of the four causes, for any number of hotels, reads *)
(* and mutations and any order of their steps.                              *)
THEOREM CauseTheorem == Spec => []StaleCardHasCause
<1>1. IInv => StaleCardHasCause
  <2> SUFFICES ASSUME IInv, NEW h \in DOMAIN entry, entry[h].version < settled[h]
               PROVE  ~entry[h].clean \/ entry[h].from = "replica" \/ h \in excused
    BY DEF StaleCardHasCause
  <2>1. h \in Hotel /\ entry[h] \in Card /\ settled[h] \in Nat
    BY DEF IInv, Typed, TypeOK
  <2>2. Covered(h, settled[h])
    BY <2>1 DEF IInv
  <2> QED
    BY <2>1, <2>2 DEF Covered, Fresh, Card
<1> QED
  BY <1>1, IInvInvariant, PTL
=============================================================================
