---------------------------- MODULE HealthProofs ----------------------------
(***************************************************************************)
(* What holds of DbRouter for every number of instances, sessions and      *)
(* requests and every choice of faults: what a read may miss, and why; and *)
(* of Health, which composes it with the shards and the reports, for every *)
(* number of these: what the API says of its databases.                    *)
(***************************************************************************)
EXTENDS Health, TLAPS

-----------------------------------------------------------------------------
(* Types.                                                                   *)

Step == {"idle", "commit", "committed", "flag", "ask", "primary", "replica", "degraded",
         "unreachable", "no replica"} \cup Finished

Upto(n) == [Session -> 0 .. n]

(* What a request does next goes with what it was asked: only writes commit *)
(* and leave flags, and a strong read has nothing to do with the replica.   *)
Fits(step, what) ==
    /\ what \in Job
    /\ step \in {"commit", "committed", "flag"} => what.op = "write"
    /\ step \in {"ask", "primary", "replica", "no replica", "degraded"} =>
          what.op \in Consistency
    /\ step = "degraded" => what.op # "strong"
    /\ step \in {"ask", "replica", "no replica"} => what.op = "eventual"
    /\ what.op = "strong" => what.route = "strong"

Fitting(q) == pc[q] # "idle" => Fits(pc[q], job[q])

Typed == TypeOK /\ \A q \in Request : Fitting(q)

-----------------------------------------------------------------------------
(* The inductive invariant.                                                 *)

(* Of what the replica has not replayed up to v, a flag is left: the one of *)
(* an instance that wrote, and the shared one unless it is missed.          *)
Flagged(s, v, instances) ==
    \/ v <= replica
    \/ \E i \in instances :
          local[i][s] >= v /\ (shared[s] >= v \/ <<s, i>> \in missing)

Owed(q) == need[q][job[q].session]

(* The request q on its way.                                                *)
Sound(q) ==
    /\ pc[q] = "flag" =>
          result[q] <= replica \/ local[job[q].at][job[q].session] >= result[q]
    /\ pc[q] = "ask" => Flagged(job[q].session, Owed(q), Instance \ {job[q].at})
    /\ pc[q] \in {"replica", "no replica"} => q \in blind \/ Owed(q) <= replica
    /\ pc[q] = "200" /\ job[q].op \in Consistency =>
          result[q] >= Owed(q) \/ q \in blind \/ job[q].route = "degraded"
    /\ pc[q] = "200" /\ job[q].op = "strong" => \A s \in Session : result[q] >= need[q][s]

IInv ==
    /\ Typed
    /\ \A s \in Session : Flagged(s, acked[s], Instance)
    /\ \A q \in Request : Sound(q)

-----------------------------------------------------------------------------
(* What the steps have in common.                                           *)

\* The numbers of TypeOK, one by one.
LEMMA Numbers ==
    ASSUME TypeOK
    PROVE  /\ primary \in Nat /\ replica \in Nat /\ replica <= primary
           /\ \A n \in 0 .. primary : n \in Nat
           /\ \A i \in Instance : \A s \in Session : local[i][s] \in 0 .. primary
           /\ \A s \in Session : shared[s] \in 0 .. primary /\ acked[s] \in 0 .. primary
           /\ \A q \in Request : result[q] \in 0 .. primary
           /\ \A q \in Request : \A s \in Session : need[q][s] \in 0 .. primary
<1> DEFINE Count == 0 .. primary
<1>1. primary \in Nat /\ replica \in Count
  BY DEF TypeOK
<1>2. \A n \in Count : n \in Nat
  BY <1>1
<1>3. /\ local \in [Instance -> [Session -> Count]] /\ shared \in [Session -> Count]
      /\ acked \in [Session -> Count] /\ result \in [Request -> Count]
      /\ need \in [Request -> [Session -> Count]]
  BY DEF TypeOK
<1>4. replica <= primary
  BY <1>1
<1> HIDE DEF Count
<1>5. /\ \A i \in Instance : \A s \in Session : local[i][s] \in Count
      /\ \A s \in Session : shared[s] \in Count /\ acked[s] \in Count
      /\ \A q \in Request : result[q] \in Count
      /\ \A q \in Request : \A s \in Session : need[q][s] \in Count
  BY <1>3
<1> QED
  BY <1>1, <1>2, <1>4, <1>5 DEF Count

\* Likewise after a step.
LEMMA NumbersNext ==
    ASSUME TypeOK'
    PROVE  /\ primary' \in Nat /\ replica' \in Nat
           /\ \A i \in Instance : \A s \in Session : local'[i][s] \in Nat
<1> DEFINE Count == 0 .. primary'
<1>1. primary' \in Nat /\ replica' \in Count /\ local' \in [Instance -> [Session -> Count]]
  BY DEF TypeOK
<1>2. \A n \in Count : n \in Nat
  BY <1>1
<1> HIDE DEF Count
<1> QED
  BY <1>1, <1>2

\* A step of one request is typed when what it leads to is.
LEMMA RequestStep ==
    ASSUME Typed, NEW q \in Request, NEW next \in Step, NEW what \in Job,
           pc' = [pc EXCEPT ![q] = next],
           (job' = [job EXCEPT ![q] = what]) \/ (UNCHANGED job /\ what = job[q]),
           Fits(next, what)
    PROVE  /\ pc' \in [Request -> Step] /\ job' \in [Request -> Job \cup {NoJob}]
           /\ \A o \in Request : Fitting(o)'
           /\ pc'[q] = next /\ job'[q] = what
           /\ \A o \in Request \ {q} : pc'[o] = pc[o] /\ job'[o] = job[o]
<1>1. pc \in [Request -> Step] /\ job \in [Request -> Job \cup {NoJob}]
  BY DEF Typed, TypeOK, Step
<1>2. pc' \in [Request -> Step] /\ job' \in [Request -> Job \cup {NoJob}]
  BY <1>1
<1>3. /\ pc'[q] = next /\ job'[q] = what
      /\ \A o \in Request \ {q} : pc'[o] = pc[o] /\ job'[o] = job[o]
  BY <1>1
<1>4. \A o \in Request : Fitting(o)'
  BY <1>3 DEF Typed, Fitting
<1> QED
  BY <1>2, <1>3, <1>4

\* A request that is under way has a job.
LEMMA UnderWay ==
    ASSUME Typed, NEW q \in Request, pc[q] # "idle"
    PROVE  /\ Fits(pc[q], job[q]) /\ job[q] \in Job
           /\ job[q].at \in Instance /\ job[q].session \in Session
BY DEF Typed, Fitting, Fits, Job

\* Larger numbers of writes have room for what smaller ones had.
LEMMA UptoGrows ==
    ASSUME NEW n \in Nat, NEW m \in Nat, n <= m
    PROVE  /\ \A f \in Upto(n) : f \in Upto(m)
           /\ \A S : \A f \in [S -> Upto(n)] : f \in [S -> Upto(m)]
BY DEF Upto

(* The nodes and the flags change in such a way that what was flagged       *)
(* remains flagged, and nothing is forgotten before it is replayed.         *)
Grows ==
    /\ replica <= replica'
    /\ \A i \in Instance : \A s \in Session :
          local'[i][s] >= local[i][s] \/ local[i][s] <= replica
    /\ \A s \in Session : \A v \in 0 .. primary : \A instances \in SUBSET Instance :
          Flagged(s, v, instances) => Flagged(s, v, instances)'
    /\ \A q \in blind : q \in blind'

\* It is enough to look at one value of the flags.
LEMMA FlaggedKeeps ==
    ASSUME NEW s \in Session, NEW v \in Nat, NEW instances \in SUBSET Instance,
           replica \in Nat, replica' \in Nat,
           Flagged(s, v, instances), replica <= replica',
           \A i \in instances : local[i][s] >= v => local'[i][s] >= v \/ v <= replica,
           shared[s] >= v => \/ shared'[s] >= v \/ v <= replica
                             \/ \A i \in instances : local[i][s] >= v => <<s, i>> \in missing',
           \A i \in instances : <<s, i>> \in missing => <<s, i>> \in missing' \/ shared'[s] >= v
    PROVE  Flagged(s, v, instances)'
<1>1. CASE v <= replica
  BY <1>1 DEF Flagged
<1>2. CASE ~(v <= replica)
  <2>1. PICK i \in instances : local[i][s] >= v /\ (shared[s] >= v \/ <<s, i>> \in missing)
    BY <1>2 DEF Flagged
  <2>2. local'[i][s] >= v
    BY <1>2, <2>1
  <2>3. shared'[s] >= v \/ <<s, i>> \in missing'
    BY <1>2, <2>1
  <2> QED
    BY <2>2, <2>3 DEF Flagged
<1> QED
  BY <1>1, <1>2

\* Without a change of the nodes and the flags nothing is forgotten.
LEMMA SteadyGrows ==
    ASSUME IInv, UNCHANGED <<replica, local, shared, missing>>, \A q \in blind : q \in blind'
    PROVE  Grows
<1>1. replica \in Nat /\ \A i \in Instance : \A s \in Session : local[i][s] \in Nat
  BY Numbers DEF IInv, Typed
<1> QED
  BY <1>1 DEF Grows, Flagged

\* Who does nothing remains sound.
LEMMA OtherSound ==
    ASSUME IInv, Typed', Grows, NEW q \in Request,
           pc'[q] = pc[q], job'[q] = job[q], need'[q] = need[q], result'[q] = result[q]
    PROVE  Sound(q)'
<1>1. Sound(q) /\ Fitting(q)
  BY DEF IInv, Typed
<1>2. Owed(q)' = Owed(q)
  BY DEF Owed
<1>3. CASE pc[q] = "idle"
  BY <1>3 DEF Sound
<1>4. CASE pc[q] # "idle"
  <2>1. job[q].at \in Instance /\ job[q].session \in Session
    BY <1>4, UnderWay DEF IInv
  <2>2. /\ result[q] \in Nat /\ replica \in Nat /\ replica' \in Nat
        /\ \A i \in Instance : \A s \in Session : local[i][s] \in Nat /\ local'[i][s] \in Nat
        /\ Owed(q) \in 0 .. primary
    BY <2>1, Numbers, NumbersNext DEF IInv, Typed, Owed
  <2>3. pc[q] = "flag" =>
          result[q] <= replica' \/ local'[job[q].at][job[q].session] >= result[q]
    <3> DEFINE i == job[q].at
               s == job[q].session
    <3>1. SUFFICES ASSUME pc[q] = "flag"
                   PROVE  result[q] <= replica' \/ local'[i][s] >= result[q]
      OBVIOUS
    <3>2. result[q] <= replica \/ local[i][s] >= result[q]
      BY <1>1, <3>1 DEF Sound
    <3>3. local'[i][s] >= local[i][s] \/ local[i][s] <= replica
      BY <2>1 DEF Grows
    <3>4. replica <= replica'
      BY DEF Grows
    <3>5. i \in Instance /\ s \in Session
      BY <2>1
    <3> HIDE DEF i, s
    <3> QED
      BY <2>2, <3>2, <3>3, <3>4, <3>5
  <2>4. pc[q] = "ask" => Flagged(job[q].session, Owed(q), Instance \ {job[q].at})'
    <3>1. SUFFICES ASSUME pc[q] = "ask"
                   PROVE  Flagged(job[q].session, Owed(q), Instance \ {job[q].at})'
      OBVIOUS
    <3>2. PICK s \in Session, v \in 0 .. primary, others \in SUBSET Instance :
             s = job[q].session /\ v = Owed(q) /\ others = Instance \ {job[q].at}
      BY <2>1, <2>2
    <3>3. Flagged(s, v, others)
      BY <1>1, <3>1, <3>2 DEF Sound
    <3>4. Flagged(s, v, others)'
      BY <3>3 DEF Grows
    <3> QED
      BY <1>2, <3>2, <3>4 DEF Flagged
  <2>5. pc[q] \in {"replica", "no replica"} => q \in blind' \/ Owed(q) <= replica'
    <3>1. Owed(q) \in Nat
      BY <2>2, Numbers DEF IInv, Typed
    <3>2. q \in blind => q \in blind'
      BY DEF Grows
    <3>3. Owed(q) <= replica => Owed(q) <= replica'
      BY <2>2, <3>1 DEF Grows
    <3> QED
      BY <1>1, <3>2, <3>3 DEF Sound
  <2>6. q \in blind => q \in blind'
    BY DEF Grows
  <2> QED
    BY <1>1, <1>2, <2>3, <2>4, <2>5, <2>6 DEF Sound
<1> QED
  BY <1>3, <1>4

\* Where no write is acknowledged, it is enough to look at the requests.
LEMMA QuietKeeps ==
    ASSUME IInv, Typed', Grows, UNCHANGED acked,
           \A q \in Request :
              \/ Sound(q)'
              \/ /\ pc'[q] = pc[q] /\ job'[q] = job[q]
                 /\ need'[q] = need[q] /\ result'[q] = result[q]
    PROVE  IInv'
<1>1. ASSUME NEW s \in Session PROVE Flagged(s, acked[s], Instance)'
  <2>1. PICK v \in 0 .. primary : v = acked[s]
    BY DEF IInv, Typed, TypeOK
  <2>2. Flagged(s, v, Instance)
    BY <2>1 DEF IInv
  <2>3. Flagged(s, v, Instance)'
    BY <2>2 DEF Grows
  <2> QED
    BY <2>1, <2>3 DEF Flagged
<1>2. \A q \in Request : Sound(q)'
  BY OtherSound
<1> QED
  BY <1>1, <1>2 DEF IInv

-----------------------------------------------------------------------------
(* Requests.                                                                *)

\* The replica is asked in place of the primary on two routes only.
LEMMA Routed ==
    ASSUME NEW q, NEW i, NEW route, readPrimary(q, i, route) \/ Degrade(q, i, route)
    PROVE  \E next \in {"primary", "degraded", "503"} :
              /\ pc' = [pc EXCEPT ![q] = next]
              /\ next = "degraded" => route \in {"sticky", "primary-preferred"}
BY DEF readPrimary, Degrade, Go

\* A request begins: it is owed what its session has been acknowledged.
LEMMA ArrivalKeeps ==
    ASSUME IInv, NEW q \in Request, NEW i \in Instance, NEW s \in Session,
           Write(q, i, s) \/ \E op \in Consistency : Read(q, i, s, op)
    PROVE  IInv'
<1>1. /\ pc[q] = "idle"
      /\ need' = [need EXCEPT ![q] = acked]
      /\ UNCHANGED <<situation, primary, replica, up, healthy, local, shared, probe, result,
                     acked, missing, blind>>
  BY DEF Write, Read, Begin, database
<1>2. PICK next \in {"commit", "ask", "primary", "degraded", "503"},
           op \in Consistency \cup {"write"}, route \in Route :
         /\ pc' = [pc EXCEPT ![q] = next]
         /\ job' = [job EXCEPT ![q] = [op |-> op, at |-> i, session |-> s, route |-> route]]
         /\ op = "strong" => route = "strong"
         /\ next = "commit" => op = "write"
         /\ next \in {"ask", "primary", "degraded"} => op \in Consistency
         /\ next = "ask" => op = "eventual" /\ ~(local[i][s] > 0)
         /\ next = "degraded" => op # "strong"
  <2>1. CASE Write(q, i, s)
    <3>1. "write" \in Route
      BY DEF Route
    <3> QED
      BY <2>1, <3>1 DEF Write, Begin, Go
  <2>2. ASSUME NEW op \in Consistency, Read(q, i, s, op)
        PROVE  \E next \in {"ask", "primary", "degraded", "503"}, route \in Route :
                  /\ pc' = [pc EXCEPT ![q] = next]
                  /\ job' = [job EXCEPT ![q] =
                        [op |-> op, at |-> i, session |-> s, route |-> route]]
                  /\ op = "strong" => route = "strong"
                  /\ next = "ask" => op = "eventual" /\ ~(local[i][s] > 0)
                  /\ next = "degraded" => op # "strong"
    <3> DEFINE route == IF op = "eventual" /\ local[i][s] > 0 THEN "sticky" ELSE op
    <3>1. /\ job' = [job EXCEPT ![q] = [op |-> op, at |-> i, session |-> s, route |-> route]]
          /\ \/ route = "eventual" /\ pc' = [pc EXCEPT ![q] = "ask"]
             \/ route # "eventual" /\ readPrimary(q, i, route)
      BY <2>2 DEF Read, Begin, Go
    <3>2. /\ route \in Route
          /\ op = "strong" => route = "strong"
          /\ route = "eventual" => op = "eventual" /\ ~(local[i][s] > 0)
          /\ route \in {"sticky", "primary-preferred"} => op # "strong"
      BY DEF Consistency, Route
    <3>3. CASE route = "eventual" /\ pc' = [pc EXCEPT ![q] = "ask"]
      <4> HIDE DEF route
      <4> QED
        BY <3>1, <3>2, <3>3
    <3>4. CASE readPrimary(q, i, route)
      <4> HIDE DEF route
      <4>1. PICK next \in {"primary", "degraded", "503"} :
               /\ pc' = [pc EXCEPT ![q] = next]
               /\ next = "degraded" => route \in {"sticky", "primary-preferred"}
        BY <3>4, Routed
      <4> QED
        BY <3>1, <3>2, <4>1
    <3> QED
      BY <3>1, <3>3, <3>4
  <2> QED
    BY <2>1, <2>2
<1> DEFINE what == [op |-> op, at |-> i, session |-> s, route |-> route]
<1>3. what \in Job /\ Fits(next, what) /\ next \in Step
  BY <1>2 DEF Job, Fits, Step, Finished, Consistency
<1>4. /\ pc' \in [Request -> Step] /\ job' \in [Request -> Job \cup {NoJob}]
      /\ \A o \in Request : Fitting(o)'
      /\ pc'[q] = next /\ job'[q] = what
      /\ \A o \in Request \ {q} : pc'[o] = pc[o] /\ job'[o] = job[o]
  <2>1. Typed /\ job' = [job EXCEPT ![q] = what] /\ pc' = [pc EXCEPT ![q] = next]
    BY <1>2 DEF IInv
  <2> HIDE DEF what
  <2> QED
    BY <1>3, <2>1, RequestStep
<1>5. need' \in [Request -> Upto(primary)]
  <2>1. need \in [Request -> Upto(primary)] /\ acked \in Upto(primary)
    BY DEF IInv, Typed, TypeOK, Upto
  <2> QED
    BY <1>1, <2>1
<1>6. Typed'
  BY <1>1, <1>4, <1>5 DEF IInv, Typed, TypeOK, Step, Upto
<1>7. Sound(q)'
  <2>1. need'[q] = acked
    BY <1>1 DEF IInv, Typed, TypeOK
  <2>2. next = "ask" => Flagged(s, acked[s], Instance \ {i})
    <3>1. acked[s] \in Nat /\ replica \in Nat /\ local[i][s] \in Nat
      BY Numbers DEF IInv, Typed
    <3>2. Flagged(s, acked[s], Instance)
      BY DEF IInv
    <3> QED
      BY <1>2, <3>1, <3>2 DEF Flagged
  <2>3. next = "ask" => Flagged(job[q].session, Owed(q), Instance \ {job[q].at})'
    BY <1>1, <1>4, <2>1, <2>2 DEF Flagged, Owed
  <2> QED
    BY <1>4, <2>3 DEF Sound
<1>8. \A o \in Request \ {q} : need'[o] = need[o]
  BY <1>1 DEF IInv, Typed, TypeOK
<1> QED
  BY <1>1, <1>4, <1>6, <1>7, <1>8, SteadyGrows, QuietKeeps

\* What a request does without a change of nodes and flags.
LEMMA StepKeeps ==
    ASSUME IInv, NEW q \in Request, NEW next \in Step, NEW what \in Job,
           pc[q] # "idle",
           pc' = [pc EXCEPT ![q] = next],
           (job' = [job EXCEPT ![q] = what]) \/ (UNCHANGED job /\ what = job[q]),
           Fits(next, what), what.session = job[q].session,
           UNCHANGED <<situation, database, local, shared, probe, acked, need, missing>>,
           healthy' \in [Instance -> SUBSET Node],
           \/ UNCHANGED result
           \/ \E n \in 0 .. primary : result' = [result EXCEPT ![q] = n],
           blind' \in {blind, blind \cup {q}},
           next \notin {"flag", "ask"},
           next \in {"replica", "no replica"} => q \in blind' \/ Owed(q) <= replica,
           next = "200" /\ what.op \in Consistency =>
              result'[q] >= Owed(q) \/ q \in blind' \/ what.route = "degraded",
           next = "200" /\ what.op = "strong" => \A s \in Session : result'[q] >= need[q][s]
    PROVE  IInv'
<1>1. /\ pc' \in [Request -> Step] /\ job' \in [Request -> Job \cup {NoJob}]
      /\ \A o \in Request : Fitting(o)'
      /\ pc'[q] = next /\ job'[q] = what
      /\ \A o \in Request \ {q} : pc'[o] = pc[o] /\ job'[o] = job[o]
  BY RequestStep DEF IInv
<1>2. result' \in [Request -> 0 .. primary]
  <2> DEFINE Count == 0 .. primary
  <2>1. result \in [Request -> Count]
    BY DEF IInv, Typed, TypeOK
  <2>2. \/ UNCHANGED result
        \/ \E n \in Count : result' = [result EXCEPT ![q] = n]
    OBVIOUS
  <2> HIDE DEF Count
  <2>3. result' \in [Request -> Count]
    BY <2>1, <2>2
  <2> QED
    BY <2>3 DEF Count
<1>3. blind' \subseteq Request
  BY DEF IInv, Typed, TypeOK
<1>4. Typed'
  BY <1>1, <1>2, <1>3 DEF IInv, Typed, TypeOK, Step, database
<1>5. Owed(q)' = Owed(q)
  BY <1>1 DEF Owed
<1>6. Sound(q)'
  BY <1>1, <1>5 DEF Sound, database
<1>7. \A o \in Request \ {q} : result'[o] = result[o]
  BY DEF IInv, Typed, TypeOK
<1>8. Grows
  BY SteadyGrows DEF database
<1> QED
  BY <1>1, <1>4, <1>6, <1>7, <1>8, QuietKeeps

\* A job with another route, as job' = [job EXCEPT ![q].route = route] has it.
On(q, route) == [op |-> job[q].op, at |-> job[q].at, session |-> job[q].session, route |-> route]

LEMMA Through ==
    ASSUME Typed, NEW q \in Request, pc[q] # "idle", NEW route \in Route
    PROVE  /\ On(q, route) \in Job
           /\ [job EXCEPT ![q].route = route] = [job EXCEPT ![q] = On(q, route)]
<1>1. job[q] \in Job
  BY UnderWay
<1>2. [job[q] EXCEPT !.route = route] = On(q, route)
  BY <1>1 DEF Job, On
<1>3. On(q, route) \in Job
  BY <1>1 DEF Job, On
<1> QED
  BY <1>2, <1>3

\* A flag goes down.
LEMMA FlagDown ==
    ASSUME Typed, NEW i \in Instance, NEW n \in Node, markDown(i, n)
    PROVE  healthy' \in [Instance -> SUBSET Node]
BY DEF markDown, Typed, TypeOK

\* Errors that end a request, and the replica in place of the primary.
LEMMA FailKeeps ==
    ASSUME IInv, NEW q \in Request, WriteFailed(q) \/ PrimaryFailed(q) \/ Overload(q)
    PROVE  IInv'
<1>1. /\ pc[q] # "idle"
      /\ UNCHANGED <<situation, database, local, shared, probe, job, result, acked, need,
                     missing, blind>>
  BY DEF WriteFailed, PrimaryFailed, Overload, history
<1>2. /\ Fits(pc[q], job[q]) /\ job[q] \in Job
      /\ job[q].at \in Instance /\ job[q].session \in Session
  BY <1>1, UnderWay DEF IInv
<1>3. healthy' \in [Instance -> SUBSET Node]
  <2>1. CASE UNCHANGED healthy
    BY <2>1 DEF IInv, Typed, TypeOK
  <2>2. CASE markDown(job[q].at, "primary")
    BY <1>2, <2>2, FlagDown DEF IInv, Node
  <2> QED
    BY <2>1, <2>2 DEF WriteFailed, PrimaryFailed, Overload
<1>4. PICK next \in {"degraded", "500", "503", "primary"} :
         /\ pc' = [pc EXCEPT ![q] = next]
         /\ next \in {"degraded", "primary"} => job[q].op # "write"
         /\ next = "degraded" => job[q].route \in {"sticky", "primary-preferred"}
  BY Routed DEF WriteFailed, PrimaryFailed, Overload, Go
<1>5. Fits(next, job[q]) /\ next \in Step
  BY <1>2, <1>4 DEF Fits, Step, Finished, Job
<1> QED
  BY <1>1, <1>2, <1>3, <1>4, <1>5, StepKeeps

\* An eventual read goes on to the primary when the replica fails it.
LEMMA FallbackKeeps ==
    ASSUME IInv, NEW q \in Request, ReplicaFailed(q) \/ Conflict(q)
    PROVE  IInv'
<1>1. /\ pc[q] \in {"no replica", "replica", "degraded"}
      /\ UNCHANGED <<situation, database, local, shared, probe, result, acked, need,
                     missing, blind>>
  BY DEF ReplicaFailed, Conflict, history
<1>2. /\ Fits(pc[q], job[q]) /\ job[q] \in Job
      /\ job[q].at \in Instance /\ job[q].session \in Session
  BY <1>1, UnderWay DEF IInv
<1>3. healthy' \in [Instance -> SUBSET Node]
  <2>1. CASE UNCHANGED healthy
    BY <2>1 DEF IInv, Typed, TypeOK
  <2>2. CASE markDown(job[q].at, "replica")
    BY <1>2, <2>2, FlagDown DEF IInv, Node
  <2> QED
    BY <2>1, <2>2 DEF ReplicaFailed, Conflict
<1>4. CASE /\ pc[q] # "degraded"
           /\ job' = [job EXCEPT ![q].route = "fallback"]
           /\ readPrimary(q, job[q].at, "fallback")
  <2>1. /\ On(q, "fallback") \in Job /\ job' = [job EXCEPT ![q] = On(q, "fallback")]
        /\ On(q, "fallback").session = job[q].session
    <3>1. "fallback" \in Route
      BY DEF Route
    <3> QED
      BY <1>1, <1>4, <3>1, Through DEF IInv, On
  <2>2. PICK next \in {"primary", "503"} : pc' = [pc EXCEPT ![q] = next]
    BY <1>4, Routed
  <2>3. Fits(next, On(q, "fallback")) /\ next \in Step
    BY <1>1, <1>2, <1>4, <2>1, <2>2 DEF Fits, On, Step, Finished
  <2> QED
    BY <1>1, <1>3, <2>1, <2>2, <2>3, StepKeeps
<1>5. CASE Go(q, "500") /\ UNCHANGED job
  <2>1. Fits("500", job[q]) /\ "500" \in Step
    BY <1>2 DEF Fits, Step, Finished
  <2> QED
    BY <1>1, <1>2, <1>3, <1>5, <2>1, StepKeeps DEF Go
<1> QED
  BY <1>4, <1>5 DEF ReplicaFailed, Conflict

(* Redis is asked for the flag of another instance; who goes on to the      *)
(* replica without one is owed nothing it has not, or blind.                *)
LEMMA AskKeeps ==
    ASSUME IInv, NEW q \in Request, Ask(q)
    PROVE  IInv'
<1> DEFINE i == job[q].at
           s == job[q].session
<1>1. /\ pc[q] = "ask"
      /\ UNCHANGED <<situation, database, healthy, local, shared, probe, result, acked, need,
                     missing>>
      /\ blind' \in {blind, blind \cup {q}}
  BY DEF Ask
<1>2. /\ Fits("ask", job[q]) /\ job[q] \in Job /\ i \in Instance /\ s \in Session
  BY <1>1, UnderWay DEF IInv
<1>3. healthy' \in [Instance -> SUBSET Node]
  BY <1>1 DEF IInv, Typed, TypeOK
<1>4. ASSUME NEW route \in {"sticky", "fallback"},
             job' = [job EXCEPT ![q].route = route], readPrimary(q, i, route)
      PROVE  IInv'
  <2>1. /\ On(q, route) \in Job /\ job' = [job EXCEPT ![q] = On(q, route)]
        /\ On(q, route).session = s
    <3>1. route \in Route
      BY DEF Route
    <3> QED
      BY <1>1, <1>4, <3>1, Through DEF IInv, On
  <2>2. PICK next \in {"primary", "degraded", "503"} : pc' = [pc EXCEPT ![q] = next]
    BY <1>4, Routed
  <2>3. Fits(next, On(q, route)) /\ next \in Step
    BY <1>2, <2>1, <2>2 DEF Fits, On, Step, Finished, Consistency
  <2> QED
    BY <1>1, <1>3, <2>1, <2>2, <2>3, StepKeeps
<1>5. CASE Go(q, "replica") /\ UNCHANGED job
  <2>1. Fits("replica", job[q]) /\ "replica" \in Step
    BY <1>2 DEF Fits, Step
  <2>2. q \in blind' \/ Owed(q) <= replica
    <3>1. Flagged(s, Owed(q), Instance \ {i})
      BY <1>1 DEF IInv, Sound
    <3>2. /\ Owed(q) \in Nat /\ replica \in Nat /\ shared[s] \in Nat
          /\ pc'[q] = "replica"
      BY <1>2, <1>5, Numbers DEF IInv, Typed, Owed, Go, TypeOK
    <3>3. \/ blind' = blind \cup {q}
          \/ ~(shared[s] > 0) /\ ~(\E j \in Instance \ {i} : <<s, j>> \in missing)
          \/ pc'[q] # "replica"
      <4>1. ASSUME NEW route \in {"sticky", "fallback"}, readPrimary(q, i, route)
            PROVE  pc'[q] # "replica"
        <5>1. PICK next \in {"primary", "degraded", "503"} : pc' = [pc EXCEPT ![q] = next]
          BY <4>1, Routed
        <5> QED
          BY <5>1 DEF IInv, Typed, TypeOK
      <4> QED
        BY <4>1 DEF Ask
    <3>4. CASE q \in blind'
      BY <3>4
    <3>5. CASE ~(shared[s] > 0) /\ ~(\E j \in Instance \ {i} : <<s, j>> \in missing)
      BY <3>1, <3>2, <3>5 DEF Flagged
    <3> QED
      BY <3>2, <3>3, <3>4, <3>5
  <2> QED
    BY <1>1, <1>2, <1>3, <1>5, <2>1, <2>2, StepKeeps DEF Go
<1> QED
  BY <1>4, <1>5 DEF Ask

(* The answer of the primary shows every write; the one of the replica what *)
(* the read is owed, unless it was blind or knew it was degraded.           *)
LEMMA QueryKeeps ==
    ASSUME IInv, NEW q \in Request, Query(q)
    PROVE  IInv'
<1>1. /\ pc[q] \in {"primary", "replica", "degraded"}
      /\ UNCHANGED <<situation, database, healthy, local, shared, probe, acked, need, missing,
                     blind>>
  BY DEF Query, history
<1>2. /\ Fits(pc[q], job[q]) /\ job[q] \in Job
      /\ job[q].at \in Instance /\ job[q].session \in Session
  BY <1>1, UnderWay DEF IInv
<1>3. healthy' \in [Instance -> SUBSET Node]
  BY <1>1 DEF IInv, Typed, TypeOK
<1>4. CASE /\ Go(q, CASE pc[q] = "primary"  -> "unreachable"
                     [] pc[q] = "replica"  -> "no replica"
                     [] pc[q] = "degraded" -> "500")
           /\ UNCHANGED <<result, job>>
  <2>1. PICK next \in {"unreachable", "no replica", "500"} :
           /\ pc' = [pc EXCEPT ![q] = next]
           /\ next = "no replica" => pc[q] = "replica"
    BY <1>1, <1>4 DEF Go
  <2>2. Fits(next, job[q]) /\ next \in Step
    BY <1>2, <2>1 DEF Fits, Step, Finished
  <2>3. next = "no replica" => q \in blind \/ Owed(q) <= replica
    BY <2>1 DEF IInv, Sound
  <2> QED
    BY <1>1, <1>2, <1>3, <1>4, <2>1, <2>2, <2>3, StepKeeps
<1>5. CASE /\ result' = [result EXCEPT ![q] = IF pc[q] = "primary" THEN primary ELSE replica]
           /\ job' = [job EXCEPT ![q].route = IF pc[q] = "degraded" THEN pc[q] ELSE @]
           /\ Go(q, "200")
  <2> DEFINE route == IF pc[q] = "degraded" THEN pc[q] ELSE job[q].route
  <2>1. route \in Route
    BY <1>2 DEF Route, Job
  <2>2. job' = [job EXCEPT ![q].route = route]
    BY <1>5
  <2>3. /\ On(q, route) \in Job /\ job' = [job EXCEPT ![q] = On(q, route)]
        /\ On(q, route).session = job[q].session /\ On(q, route).op = job[q].op
        /\ On(q, route).route = route
    <3> HIDE DEF route
    <3> QED
      BY <1>1, <2>1, <2>2, Through DEF IInv, On
  <2>4. Fits("200", On(q, route)) /\ "200" \in Step
    BY <1>2, <2>3 DEF Fits, Step, Finished
  <2>5. /\ primary \in 0 .. primary /\ replica \in 0 .. primary
        /\ \A s \in Session : need[q][s] \in Nat /\ need[q][s] <= primary
        /\ primary \in Nat /\ replica \in Nat
    BY Numbers DEF IInv, Typed
  <2>6. result'[q] = IF pc[q] = "primary" THEN primary ELSE replica
    BY <1>5 DEF IInv, Typed, TypeOK
  <2>7. result'[q] >= Owed(q) \/ q \in blind \/ route = "degraded"
    <3>1. CASE pc[q] = "primary"
      BY <1>2, <2>5, <2>6, <3>1 DEF Owed
    <3>2. CASE pc[q] = "replica"
      BY <1>2, <2>5, <2>6, <3>2 DEF IInv, Sound, Owed
    <3>3. CASE pc[q] = "degraded"
      BY <3>3
    <3> QED
      BY <1>1, <3>1, <3>2, <3>3
  <2>8. job[q].op = "strong" => \A s \in Session : result'[q] >= need[q][s]
    BY <1>1, <1>2, <2>5, <2>6 DEF Fits
  <2>9. \E n \in 0 .. primary : result' = [result EXCEPT ![q] = n]
    BY <1>5, <2>5
  <2> HIDE DEF route
  <2>10. pc' = [pc EXCEPT ![q] = "200"] /\ pc[q] # "idle"
    BY <1>1, <1>5 DEF Go
  <2> QED
    BY <1>1, <1>3, <2>3, <2>4, <2>7, <2>8, <2>9, <2>10, StepKeeps
<1> QED
  BY <1>4, <1>5 DEF Query

(* A write is committed, whether or not its answer arrives.                 *)
LEMMA CommitKeeps ==
    ASSUME IInv, NEW q \in Request, Commit(q)
    PROVE  IInv'
<1>1. /\ pc[q] = "commit"
      /\ UNCHANGED <<situation, replica, up, healthy, local, shared, probe, job, acked, need,
                     missing, blind>>
  BY DEF Commit, history
<1>2. Fits("commit", job[q]) /\ job[q] \in Job
  BY <1>1, UnderWay DEF IInv
<1>3. PICK next \in {"committed", "unreachable"} : pc' = [pc EXCEPT ![q] = next]
  BY DEF Commit, Go
<1>4. PICK n \in Nat :
         /\ primary' = n /\ n >= primary
         /\ result' = result \/ result' = [result EXCEPT ![q] = n]
  BY Numbers DEF Commit, IInv, Typed
<1>5. Fits(next, job[q]) /\ next \in Step
  BY <1>2 DEF Fits, Step
<1>6. /\ pc' \in [Request -> Step] /\ job' \in [Request -> Job \cup {NoJob}]
      /\ \A o \in Request : Fitting(o)'
      /\ pc'[q] = next /\ job'[q] = job[q]
      /\ \A o \in Request \ {q} : pc'[o] = pc[o] /\ job'[o] = job[o]
  BY <1>1, <1>2, <1>3, <1>5, RequestStep DEF IInv
<1>7. /\ local' \in [Instance -> Upto(n)] /\ need' \in [Request -> Upto(n)]
      /\ shared' \in Upto(n) /\ acked' \in Upto(n)
  <2>1. primary \in Nat
    BY Numbers DEF IInv, Typed
  <2>2. /\ local \in [Instance -> Upto(primary)] /\ need \in [Request -> Upto(primary)]
        /\ shared \in Upto(primary) /\ acked \in Upto(primary)
    BY DEF IInv, Typed, TypeOK, Upto
  <2> QED
    BY <1>1, <1>4, <2>1, <2>2, UptoGrows
<1>8. result' \in [Request -> 0 .. n]
  <2>1. primary \in Nat /\ result \in [Request -> 0 .. primary]
    BY Numbers DEF IInv, Typed, TypeOK
  <2>2. result \in [Request -> 0 .. n]
    BY <1>4, <2>1
  <2>3. n \in 0 .. n
    OBVIOUS
  <2> QED
    BY <1>4, <2>2, <2>3
<1>9. replica' \in 0 .. n
  BY <1>1, <1>4, Numbers DEF IInv, Typed
<1>10. Typed'
  BY <1>1, <1>4, <1>6, <1>7, <1>8, <1>9 DEF IInv, Typed, TypeOK, Step, Upto
<1>11. Grows
  BY <1>1, SteadyGrows
<1>12. Sound(q)'
  BY <1>6 DEF Sound
<1>13. \A o \in Request \ {q} : result'[o] = result[o]
  BY <1>4 DEF IInv, Typed, TypeOK
<1> QED
  BY <1>1, <1>6, <1>10, <1>11, <1>12, <1>13, QuietKeeps

-----------------------------------------------------------------------------
(* Flags.                                                                   *)

(* Each clause of Grows for one session: what FlaggedKeeps asks for, with   *)
(* the numbers taken from the types.                                        *)
LEMMA GrowsByValue ==
    ASSUME IInv, Typed', replica <= replica', \A q \in blind : q \in blind',
           \A i \in Instance : \A s \in Session :
              local'[i][s] >= local[i][s] \/ local[i][s] <= replica,
           \A s \in Session : \A v \in Nat :
              /\ shared[s] >= v => \/ shared'[s] >= v \/ v <= replica
                                   \/ \A i \in Instance :
                                         local[i][s] >= v => <<s, i>> \in missing'
              /\ \A i \in Instance :
                    <<s, i>> \in missing => (<<s, i>> \in missing' \/ shared'[s] >= v
                                             \/ v > primary)
    PROVE  Grows
<1>1. /\ replica \in Nat /\ primary \in Nat
      /\ \A i \in Instance : \A s \in Session : local[i][s] \in Nat
  BY Numbers DEF IInv, Typed
<1>2. /\ replica' \in Nat
      /\ \A i \in Instance : \A s \in Session : local'[i][s] \in Nat
  BY NumbersNext DEF Typed
<1>3. ASSUME NEW s \in Session, NEW v \in 0 .. primary, NEW instances \in SUBSET Instance,
             Flagged(s, v, instances)
      PROVE  Flagged(s, v, instances)'
  <2>1. v \in Nat /\ ~(v > primary)
    BY <1>1
  <2>2. \A i \in instances : local[i][s] >= v => local'[i][s] >= v \/ v <= replica
    BY <1>1, <1>2, <2>1
  <2>3. shared[s] >= v => \/ shared'[s] >= v \/ v <= replica
                          \/ \A i \in instances : local[i][s] >= v => <<s, i>> \in missing'
    BY <2>1
  <2>4. \A i \in instances : <<s, i>> \in missing => <<s, i>> \in missing' \/ shared'[s] >= v
    BY <2>1
  <2> QED
    BY <1>1, <1>2, <1>3, <2>1, <2>2, <2>3, <2>4, FlaggedKeeps
<1> QED
  BY <1>3 DEF Grows

\* An instance remembers a write: no flag gets smaller.
LEMMA RememberKeeps ==
    ASSUME IInv, NEW q \in Request, Remember(q)
    PROVE  IInv'
<1> DEFINE at == job[q].at
           of == job[q].session
<1>1. /\ pc[q] = "committed"
      /\ local' = [local EXCEPT ![at][of] = primary]
      /\ pc' = [pc EXCEPT ![q] = "flag"]
      /\ UNCHANGED <<situation, primary, replica, up, healthy, shared, probe, job, result,
                     acked, need, missing, blind>>
  BY DEF Remember, Go, database, history
<1>2. Fits("committed", job[q]) /\ job[q] \in Job /\ at \in Instance /\ of \in Session
  BY <1>1, UnderWay DEF IInv
<1>3. Fits("flag", job[q]) /\ "flag" \in Step
  BY <1>2 DEF Fits, Step
<1>4. /\ pc' \in [Request -> Step] /\ job' \in [Request -> Job \cup {NoJob}]
      /\ \A o \in Request : Fitting(o)'
      /\ pc'[q] = "flag" /\ job'[q] = job[q]
      /\ \A o \in Request \ {q} : pc'[o] = pc[o] /\ job'[o] = job[o]
  BY <1>1, <1>2, <1>3, RequestStep DEF IInv
<1>5. primary \in Nat /\ \A i \in Instance : \A s \in Session : local[i][s] \in 0 .. primary
  BY Numbers DEF IInv, Typed
<1>6. local' \in [Instance -> [Session -> 0 .. primary]]
  <2> DEFINE Count == 0 .. primary
  <2>1. local \in [Instance -> [Session -> Count]]
    BY DEF IInv, Typed, TypeOK
  <2>2. primary \in Count
    BY <1>5
  <2> HIDE DEF Count
  <2>3. local' \in [Instance -> [Session -> Count]]
    BY <1>1, <1>2, <2>1, <2>2
  <2> QED
    BY <2>3 DEF Count
<1>7. /\ local'[at][of] = primary
      /\ \A i \in Instance : \A s \in Session : local'[i][s] \in {local[i][s], primary}
  <2> DEFINE Flags == [Session -> 0 .. primary]
  <2>1. local \in [Instance -> Flags] /\ local[at] \in Flags
    BY <1>2 DEF IInv, Typed, TypeOK
  <2> QED
    BY <1>1, <1>2, <2>1
<1>8. Typed'
  BY <1>1, <1>4, <1>6 DEF IInv, Typed, TypeOK, Step
<1>9. \A i \in Instance : \A s \in Session : local'[i][s] >= local[i][s]
  BY <1>5, <1>7
<1>10. Grows
  BY <1>1, <1>8, <1>9, Numbers, GrowsByValue DEF IInv, Typed
<1>11. Sound(q)'
  <2>1. result'[q] <= local'[at][of]
    BY <1>1, <1>7, Numbers DEF IInv, Typed
  <2> QED
    BY <1>1, <1>4, <1>5, <1>7, <2>1, Numbers DEF Sound, IInv, Typed
<1> QED
  BY <1>1, <1>4, <1>8, <1>10, <1>11, QuietKeeps

(* The write is acknowledged: a flag is left of it, or Redis lost the flag  *)
(* and the instance that wrote remembers it.                                *)
LEMMA SetFlagKeeps ==
    ASSUME IInv, NEW q \in Request, SetFlag(q)
    PROVE  IInv'
<1> DEFINE at == job[q].at
           of == job[q].session
<1>1. /\ pc[q] = "flag"
      /\ pc' = [pc EXCEPT ![q] = "200"]
      /\ acked' = [acked EXCEPT ![of] = IF @ < result[q] THEN result[q] ELSE @]
      /\ UNCHANGED <<situation, primary, replica, up, healthy, local, probe, job, result,
                     need, blind>>
  BY DEF SetFlag, Go, database
<1>2. Fits("flag", job[q]) /\ job[q] \in Job /\ at \in Instance /\ of \in Session
  BY <1>1, UnderWay DEF IInv
<1>3. Fits("200", job[q]) /\ "200" \in Step /\ job[q].op = "write"
  BY <1>2 DEF Fits, Step, Finished
<1>4. /\ pc' \in [Request -> Step] /\ job' \in [Request -> Job \cup {NoJob}]
      /\ \A o \in Request : Fitting(o)'
      /\ pc'[q] = "200" /\ job'[q] = job[q]
      /\ \A o \in Request \ {q} : pc'[o] = pc[o] /\ job'[o] = job[o]
  BY <1>1, <1>2, <1>3, RequestStep DEF IInv
<1>5. \/ /\ shared' = [shared EXCEPT ![of] = primary]
         /\ missing' = missing \ ({of} \X Instance)
      \/ /\ shared' = shared
         /\ missing' = missing \cup {<<of, at>>}
  BY DEF SetFlag
<1>6. /\ primary \in Nat /\ replica \in Nat
      /\ shared \in [Session -> 0 .. primary] /\ acked \in [Session -> 0 .. primary]
      /\ result[q] \in 0 .. primary
      /\ \A s \in Session : shared[s] \in 0 .. primary
  BY Numbers DEF IInv, Typed, TypeOK
<1>7. shared' \in [Session -> 0 .. primary] /\ acked' \in [Session -> 0 .. primary]
  <2> DEFINE Count == 0 .. primary
             max == IF acked[of] < result[q] THEN result[q] ELSE acked[of]
  <2>1. /\ shared \in [Session -> Count] /\ acked \in [Session -> Count]
        /\ primary \in Count /\ max \in Count
    BY <1>2, <1>6
  <2>2. acked' = [acked EXCEPT ![of] = max]
    BY <1>1
  <2> HIDE DEF Count, max
  <2>3. shared' \in [Session -> Count] /\ acked' \in [Session -> Count]
    BY <1>5, <2>1, <2>2
  <2> QED
    BY <2>3 DEF Count
<1>8. missing' \subseteq Session \X Instance
  <2>1. missing \subseteq Session \X Instance
    BY DEF IInv, Typed, TypeOK
  <2> QED
    BY <1>2, <1>5, <2>1
<1>9. Typed'
  BY <1>1, <1>4, <1>7, <1>8 DEF IInv, Typed, TypeOK, Step
<1>10. ASSUME NEW s \in Session, NEW v \in Nat
       PROVE  /\ shared[s] >= v => shared'[s] >= v
              /\ \A i \in Instance :
                    <<s, i>> \in missing => (<<s, i>> \in missing' \/ shared'[s] >= v
                                             \/ v > primary)
  <2>1. CASE shared' = shared /\ missing' = missing \cup {<<of, at>>}
    BY <2>1
  <2>2. CASE shared' = [shared EXCEPT ![of] = primary] /\ missing' = missing \ ({of} \X Instance)
    <3>1. shared'[s] = IF s = of THEN primary ELSE shared[s]
      BY <1>6, <2>2
    <3>2. CASE s = of
      BY <1>6, <3>1, <3>2
    <3>3. CASE s # of
      BY <2>2, <3>1, <3>3
    <3> QED
      BY <3>2, <3>3
  <2> QED
    BY <1>5, <2>1, <2>2
<1>11. Grows
  <2>1. \A i \in Instance : \A s \in Session : local'[i][s] >= local[i][s]
    BY <1>1, Numbers DEF IInv, Typed
  <2>2. replica <= replica' /\ \A o \in blind : o \in blind'
    BY <1>1, <1>6
  <2> QED
    BY <1>9, <1>10, <2>1, <2>2, GrowsByValue
<1>12. ASSUME NEW s \in Session PROVE Flagged(s, acked[s], Instance)'
  <2>1. PICK v \in 0 .. primary : v = acked[s]
    BY <1>6
  <2>2. PICK w \in 0 .. primary : w = result[q]
    BY <1>6
  <2>3. Flagged(s, v, Instance)'
    <3>1. Flagged(s, v, Instance)
      BY <2>1 DEF IInv
    <3> QED
      BY <1>11, <3>1 DEF Grows
  <2>4. s = of => Flagged(s, w, Instance)'
    <3>1. SUFFICES ASSUME s = of PROVE Flagged(s, w, Instance)'
      OBVIOUS
    <3>2. w <= replica \/ local[at][of] >= w
      BY <1>1, <2>2 DEF IInv, Sound
    <3>3. shared'[of] >= w \/ <<of, at>> \in missing'
      BY <1>2, <1>5, <1>6
    <3> HIDE DEF at, of
    <3> QED
      BY <1>1, <1>2, <3>1, <3>2, <3>3 DEF Flagged
  <2>5. acked'[s] = v \/ (s = of /\ acked'[s] = w)
    BY <1>1, <1>6, <2>1, <2>2
  <2> QED
    BY <2>3, <2>4, <2>5 DEF Flagged
<1>13. ASSUME NEW o \in Request PROVE Sound(o)'
  <2>1. CASE o = q
    BY <1>3, <1>4, <2>1 DEF Sound, Consistency
  <2>2. CASE o # q
    BY <1>1, <1>4, <1>9, <1>11, <2>2, OtherSound
  <2> QED
    BY <2>1, <2>2
<1> QED
  BY <1>9, <1>12, <1>13 DEF IInv

-----------------------------------------------------------------------------
(* Steps of nobody's request.                                               *)

\* Where no request moves, the flags have to.
LEMMA ElsewhereKeeps ==
    ASSUME IInv, TypeOK', Grows, UNCHANGED <<pc, job, result, acked, need>>
    PROVE  IInv'
<1>1. Typed'
  BY DEF IInv, Typed, Fitting
<1> QED
  BY <1>1, QuietKeeps

\* Probes and outages: health flags only.
LEMMA HealthKeeps ==
    ASSUME IInv, NEW i \in Instance,
           \/ Probe(i)
           \/ \E n \in Node : Answer(i, n) \/ Probed(i, n) \/ ProbeOverload(i, n)
    PROVE  IInv'
<1> DEFINE Outcome == {"none", "sent", "alive", "dead"}
<1>1. UNCHANGED <<situation, primary, replica, up, local, shared, pc, job, result, acked,
                  need, missing, blind>>
  BY DEF Probe, Answer, Probed, ProbeOverload, database, history
<1>2. probe \in [Instance -> [Node -> Outcome]] /\ healthy \in [Instance -> SUBSET Node]
  BY DEF IInv, Typed, TypeOK
<1>3. healthy' \in [Instance -> SUBSET Node]
  <2>1. ASSUME NEW n \in Node, Probed(i, n)
        PROVE  healthy' \in [Instance -> SUBSET Node]
    BY <1>2, <2>1 DEF Probed, markDown
  <2> QED
    BY <1>2, <2>1 DEF Probe, Answer, ProbeOverload
<1>4. probe' \in [Instance -> [Node -> Outcome]]
  <2>1. CASE Probe(i)
    <3>1. [n \in Node |-> "sent"] \in [Node -> Outcome]
      OBVIOUS
    <3> QED
      BY <1>2, <2>1, <3>1 DEF Probe
  <2>2. ASSUME NEW n \in Node, NEW outcome \in Outcome,
               probe' = [probe EXCEPT ![i][n] = outcome]
        PROVE  probe' \in [Instance -> [Node -> Outcome]]
    <3> HIDE DEF Outcome
    <3> QED
      BY <1>2, <2>2
  <2>3. "alive" \in Outcome /\ "dead" \in Outcome /\ "none" \in Outcome
    OBVIOUS
  <2>4. ASSUME NEW n \in Node, Answer(i, n)
        PROVE  probe' \in [Instance -> [Node -> Outcome]]
    BY <2>2, <2>3, <2>4 DEF Answer
  <2>5. ASSUME NEW n \in Node, Probed(i, n) \/ ProbeOverload(i, n)
        PROVE  probe' \in [Instance -> [Node -> Outcome]]
    BY <2>2, <2>3, <2>5 DEF Probed, ProbeOverload
  <2> QED
    BY <2>1, <2>4, <2>5
<1>5. TypeOK'
  BY <1>1, <1>3, <1>4 DEF IInv, Typed, TypeOK
<1> QED
  BY <1>1, <1>5, SteadyGrows, ElsewhereKeeps

\* A node goes down or comes back.
LEMMA OutageKeeps ==
    ASSUME IInv, NEW n \in Node, NodeChanges(n)
    PROVE  IInv'
<1>1. UNCHANGED <<situation, primary, replica, healthy, local, shared, probe, pc, job,
                  result, acked, need, missing, blind>>
  BY DEF NodeChanges, history
<1>2. up' \subseteq Node
  BY DEF NodeChanges, IInv, Typed, TypeOK
<1>3. TypeOK'
  BY <1>1, <1>2 DEF IInv, Typed, TypeOK
<1> QED
  BY <1>1, <1>3, SteadyGrows, ElsewhereKeeps

\* The replica catches up.
LEMMA ReplicateKeeps ==
    ASSUME IInv, Replicate
    PROVE  IInv'
<1>1. /\ replica < primary /\ replica' = replica + 1
      /\ UNCHANGED <<situation, primary, up, healthy, local, shared, probe, pc, job, result,
                     acked, need, missing, blind>>
  BY DEF Replicate, history
<1>2. /\ primary \in Nat /\ replica \in Nat
      /\ \A i \in Instance : \A s \in Session : local[i][s] \in Nat
  BY Numbers DEF IInv, Typed
<1>3. replica' \in 0 .. primary /\ replica <= replica'
  BY <1>1, <1>2
<1>4. TypeOK'
  BY <1>1, <1>3 DEF IInv, Typed, TypeOK
<1>5. Typed'
  BY <1>1, <1>4 DEF IInv, Typed, Fitting
<1>6. Grows
  BY <1>1, <1>2, <1>3, <1>5, GrowsByValue
<1> QED
  BY <1>1, <1>4, <1>6, ElsewhereKeeps

\* A flag of an instance ends with its TTL: all of it has been replayed.
LEMMA ForgetKeeps ==
    ASSUME IInv, NEW i \in Instance, NEW s \in Session, ForgetLocal(i, s)
    PROVE  IInv'
<1>1. /\ local[i][s] <= replica
      /\ local' = [local EXCEPT ![i][s] = 0]
      /\ UNCHANGED <<situation, primary, replica, up, healthy, shared, probe, pc, job, result,
                     acked, need, missing, blind>>
  BY DEF ForgetLocal, database, history
<1>2. /\ primary \in Nat /\ replica \in Nat
      /\ \A j \in Instance : \A t \in Session : local[j][t] \in Nat
  BY Numbers DEF IInv, Typed
<1>3. local' \in [Instance -> [Session -> 0 .. primary]]
  <2> DEFINE Count == 0 .. primary
  <2>1. local \in [Instance -> [Session -> Count]]
    BY DEF IInv, Typed, TypeOK
  <2>2. 0 \in Count
    BY <1>2
  <2> HIDE DEF Count
  <2>3. local' \in [Instance -> [Session -> Count]]
    BY <1>1, <2>1, <2>2
  <2> QED
    BY <2>3 DEF Count
<1>4. \A j \in Instance : \A t \in Session :
         local'[j][t] = local[j][t] \/ local[j][t] <= replica
  <2> DEFINE Flags == [Session -> 0 .. primary]
  <2>1. local \in [Instance -> Flags] /\ local[i] \in Flags
    BY DEF IInv, Typed, TypeOK
  <2> QED
    BY <1>1, <2>1
<1>5. TypeOK'
  BY <1>1, <1>3 DEF IInv, Typed, TypeOK
<1>6. Typed'
  BY <1>1, <1>5 DEF IInv, Typed, Fitting
<1>7. \A j \in Instance : \A t \in Session :
         local'[j][t] >= local[j][t] \/ local[j][t] <= replica
  BY <1>2, <1>4
<1>8. Grows
  BY <1>1, <1>2, <1>6, <1>7, GrowsByValue
<1> QED
  BY <1>1, <1>5, <1>8, ElsewhereKeeps

(* A shared flag ends with its TTL, when all of it has been replayed, or is *)
(* lost, and then missed for every instance that remembers a write.         *)
LEMMA SharedKeeps ==
    ASSUME IInv, NEW s \in Session, Expire(s) \/ Lose(s)
    PROVE  IInv'
<1>1. /\ shared' = [shared EXCEPT ![s] = 0]
      /\ UNCHANGED <<situation, primary, replica, up, healthy, local, probe, pc, job, result,
                     acked, need, blind>>
      /\ \A t \in Session, i \in Instance : <<t, i>> \in missing => <<t, i>> \in missing'
      /\ \/ shared[s] <= replica
         \/ \A i \in Instance : local[i][s] > 0 => <<s, i>> \in missing'
  BY DEF Expire, Lose, database, history
<1>2. /\ primary \in Nat /\ replica \in Nat
      /\ shared \in [Session -> 0 .. primary]
      /\ \A t \in Session : shared[t] \in Nat
      /\ \A i \in Instance : \A t \in Session : local[i][t] \in Nat
  BY Numbers DEF IInv, Typed, TypeOK
<1>3. shared' \in [Session -> 0 .. primary]
  BY <1>1, <1>2
<1>4. missing' \subseteq Session \X Instance
  <2>1. missing \subseteq Session \X Instance
    BY DEF IInv, Typed, TypeOK
  <2>2. CASE Expire(s)
    BY <2>1, <2>2 DEF Expire, history
  <2>3. CASE Lose(s)
    <3> DEFINE who == {j \in Instance : local[j][s] > 0}
    <3>1. who \subseteq Instance /\ missing' = missing \cup {<<s, i>> : i \in who}
      BY <2>3 DEF Lose
    <3> HIDE DEF who
    <3> QED
      BY <2>1, <3>1
  <2> QED
    BY <2>2, <2>3
<1>5. TypeOK'
  BY <1>1, <1>3, <1>4 DEF IInv, Typed, TypeOK
<1>6. Typed'
  BY <1>1, <1>5 DEF IInv, Typed, Fitting
<1>7. ASSUME NEW t \in Session, NEW v \in Nat, shared[t] >= v
      PROVE  \/ shared'[t] >= v \/ v <= replica
             \/ \A i \in Instance : local[i][t] >= v => <<t, i>> \in missing'
  <2>1. CASE t # s
    BY <1>1, <1>2, <1>7, <2>1
  <2>2. CASE t = s /\ shared[s] <= replica
    BY <1>2, <1>7, <2>2
  <2>3. CASE t = s /\ \A i \in Instance : local[i][s] > 0 => <<s, i>> \in missing'
    BY <1>2, <2>3
  <2> QED
    BY <1>1, <2>1, <2>2, <2>3
<1>8. Grows
  BY <1>1, <1>2, <1>6, <1>7, GrowsByValue
<1> QED
  BY <1>1, <1>5, <1>8, ElsewhereKeeps

-----------------------------------------------------------------------------
(* What follows.                                                            *)

\* The initial states: no write yet, no flag, no request.
LEMMA InitIInv == Init => IInv
<1> SUFFICES ASSUME Init PROVE IInv
  OBVIOUS
<1>1. TypeOK
  BY DEF Init, TypeOK, None, Node
<1>2. Typed
  BY <1>1 DEF Init, Typed, Fitting
<1>3. /\ replica = 0
      /\ \A s \in Session : acked[s] = 0
      /\ \A q \in Request : pc[q] = "idle"
  BY DEF Init, None
<1>4. ASSUME NEW s \in Session PROVE Flagged(s, acked[s], Instance)
  BY <1>3 DEF Flagged
<1>5. ASSUME NEW q \in Request PROVE Sound(q)
  BY <1>3 DEF Sound
<1> QED
  BY <1>2, <1>4, <1>5 DEF IInv

\* Every step keeps it.
LEMMA NextIInv == IInv /\ [Next]_vars => IInv'
<1> SUFFICES ASSUME IInv, [Next]_vars PROVE IInv'
  OBVIOUS
<1>1. ASSUME NEW q \in Present(Request), Arrival(q)
      PROVE  IInv'
  BY <1>1, ArrivalKeeps DEF Arrival, Present
<1>2. ASSUME NEW q \in Present(Request), Progress(q)
      PROVE  IInv'
  <2>1. q \in Request
    BY DEF Present
  <2> QED
    BY <1>2, <2>1, CommitKeeps, RememberKeeps, SetFlagKeeps, FailKeeps, AskKeeps, QueryKeeps,
       FallbackKeeps DEF Progress
<1>3. ASSUME NEW q \in Present(Request), Conflict(q) \/ Overload(q)
      PROVE  IInv'
  BY <1>3, FallbackKeeps, FailKeeps DEF Present
<1>4. ASSUME NEW i \in Instance,
             \/ Probe(i)
             \/ \E n \in Node : Answer(i, n) \/ Probed(i, n) \/ ProbeOverload(i, n)
      PROVE  IInv'
  BY <1>4, HealthKeeps
<1>5. ASSUME NEW n \in situation.unsteady \cap Node, NodeChanges(n)
      PROVE  IInv'
  BY <1>5, OutageKeeps
<1>6. ASSUME NEW i \in Instance, NEW s \in Session, ForgetLocal(i, s)
      PROVE  IInv'
  BY <1>6, ForgetKeeps
<1>7. ASSUME NEW s \in Session, Expire(s) \/ Lose(s)
      PROVE  IInv'
  BY <1>7, SharedKeeps
<1>8. CASE Replicate
  BY <1>8, ReplicateKeeps
<1>9. CASE UNCHANGED vars
  <2>1. UNCHANGED <<situation, primary, replica, up, healthy, local, shared, probe, pc, job,
                    result, acked, need, missing, blind>>
    BY <1>9 DEF vars
  <2>2. TypeOK'
    BY <2>1 DEF IInv, Typed, TypeOK
  <2> QED
    BY <2>1, <2>2, SteadyGrows, ElsewhereKeeps
<1> QED
  BY <1>1, <1>2, <1>3, <1>4, <1>5, <1>6, <1>7, <1>8, <1>9 DEF Next, Rest

\* So it holds throughout.
LEMMA IInvInvariant == Spec => []IInv
BY InitIInv, NextIInv, PTL DEF Spec

(* The types, and with them that the replica never has what the primary     *)
(* has not and no flag stands for a write that was not made.                *)
THEOREM TypeTheorem == Spec => []TypeOK
<1>1. IInv => TypeOK
  BY DEF IInv, Typed
<1> QED
  BY <1>1, IInvInvariant, PTL

(* A session reads its own writes (localSticky, cache.hasFlag and           *)
(* readPrimary of DbRouter), unless Redis lost the flag another instance    *)
(* left or the read was degraded: whatever fails, and whenever.             *)
THEOREM OwnWritesTheorem == Spec => []ReadsOwnWrites
<1>1. ASSUME IInv PROVE ReadsOwnWrites
  <2> SUFFICES ASSUME NEW q \in Request, Returned(q), result[q] < Owed(q)
               PROVE  q \in blind \/ job[q].route = "degraded"
    BY DEF ReadsOwnWrites, Owed
  <2>1. result[q] >= Owed(q) \/ q \in blind \/ job[q].route = "degraded"
    BY <1>1 DEF IInv, Sound, Returned
  <2>2. pc[q] # "idle"
    BY DEF Returned
  <2>3. job[q].session \in Session
    BY <1>1, <2>2, UnderWay DEF IInv
  <2>4. result[q] \in Nat /\ Owed(q) \in Nat
    BY <1>1, <2>3, Numbers DEF IInv, Typed, Owed
  <2> QED
    BY <2>1, <2>4
<1> QED
  BY <1>1, IInvInvariant, PTL

(* A strong read (readPrimary with consistency 'strong') is the answer of   *)
(* the primary or none.                                                     *)
THEOREM StrongTheorem == Spec => []StrongIsCurrent
<1>1. IInv => StrongIsCurrent
  BY DEF IInv, Sound, StrongIsCurrent, Returned
<1> QED
  BY <1>1, IInvInvariant, PTL

-----------------------------------------------------------------------------
(* DbRouter inside Health.                                                  *)

\* A step of the composition is a step of DbRouter or none.
LEMMA RouterOrNothing == [HealthNext]_allVars => [Next]_vars
<1> SUFFICES ASSUME [HealthNext]_allVars PROVE [Next]_vars
  OBVIOUS
<1>1. CASE UNCHANGED allVars
  BY <1>1 DEF allVars
<1>2. CASE RouterStep
  BY <1>2 DEF RouterStep, Next
<1>3. ASSUME NEW q \in Present(Statement),
             \/ \E i \in Instance, s \in Shard : AskShard(q, i, s)
             \/ ShardAnswers(q) \/ ShardOverload(q) \/ ShardServed(q)
      PROVE  UNCHANGED vars
  BY <1>3 DEF AskShard, ShardAnswers, ShardOverload, ShardServed
<1>4. ASSUME NEW k \in Present(Kubelet), NEW i \in Instance, AskHealth(k, i)
      PROVE  [Next]_vars
  BY <1>4 DEF AskHealth, Next
<1>5. ASSUME NEW k \in Present(Kubelet),
             \/ ReadNodes(k)
             \/ \E s \in Shard : CheckAnswered(k, s) \/ ShardChecked(k, s) \/ CheckTimesOut(k, s)
      PROVE  UNCHANGED vars
  BY <1>5 DEF ReadNodes, CheckAnswered, ShardChecked, CheckTimesOut, ShardSettles
<1>6. ASSUME NEW w \in Present(Status), AskStatus(w) \/ \E n \in Node : ReadPosition(w, n)
      PROVE  UNCHANGED vars
  BY <1>6 DEF AskStatus, ReadPosition
<1>7. ASSUME NEW s \in Shard, ShardChanges(s)
      PROVE  UNCHANGED vars
  BY <1>7 DEF ShardChanges
<1> QED
  BY <1>1, <1>2, <1>3, <1>4, <1>5, <1>6, <1>7 DEF HealthNext

(* Health composes DbRouter with the health of the shards and the reports,  *)
(* and what holds of DbRouter holds of the composition: the probes that     *)
(* /health starts are probes of DbRouter, and nothing else of it is touched *)
(* (HealthController, ReplicationService).                                  *)
THEOREM HealthImplementsRouter == HealthSpec => Spec
<1>1. HealthInit => Init
  BY DEF HealthInit
<1> QED
  BY <1>1, RouterOrNothing, PTL DEF HealthSpec, Spec

\* Nothing that is committed or replayed is undone.
LEMMA NodesGrow ==
    ASSUME TypeOK, [Next]_vars
    PROVE  primary <= primary' /\ replica <= replica'
<1>1. primary \in Nat /\ replica \in Nat
  BY Numbers
<1>2. \/ UNCHANGED primary /\ UNCHANGED replica
      \/ primary' = primary + 1 /\ UNCHANGED replica
      \/ UNCHANGED primary /\ replica' = replica + 1
  <2>1. ASSUME NEW q \in Request, Arrival(q)
        PROVE  UNCHANGED <<primary, replica>>
    BY <2>1 DEF Arrival, Write, Read, database
  <2>2. ASSUME NEW q \in Request, Commit(q)
        PROVE  UNCHANGED replica /\ (UNCHANGED primary \/ primary' = primary + 1)
    BY <2>2 DEF Commit
  <2>3. ASSUME NEW q \in Request,
               \/ Remember(q) \/ SetFlag(q) \/ WriteFailed(q) \/ Ask(q) \/ Query(q)
               \/ PrimaryFailed(q) \/ ReplicaFailed(q) \/ Conflict(q) \/ Overload(q)
        PROVE  UNCHANGED <<primary, replica>>
    BY <2>3 DEF Remember, SetFlag, WriteFailed, Ask, Query, PrimaryFailed, ReplicaFailed,
       Conflict, Overload, database
  <2>4. ASSUME NEW i \in Instance,
               \/ Probe(i)
               \/ \E n \in Node : Answer(i, n) \/ Probed(i, n) \/ ProbeOverload(i, n)
        PROVE  UNCHANGED <<primary, replica>>
    BY <2>4 DEF Probe, Answer, Probed, ProbeOverload, database
  <2>5. ASSUME NEW n, NodeChanges(n) PROVE UNCHANGED <<primary, replica>>
    BY <2>5 DEF NodeChanges
  <2>6. ASSUME NEW s \in Session, Expire(s) \/ Lose(s) \/ \E i \in Instance : ForgetLocal(i, s)
        PROVE  UNCHANGED <<primary, replica>>
    BY <2>6 DEF Expire, Lose, ForgetLocal, database
  <2>7. CASE Replicate
    BY <2>7 DEF Replicate
  <2>8. CASE UNCHANGED vars
    BY <2>8 DEF vars
  <2> QED
    BY <2>1, <2>2, <2>3, <2>4, <2>5, <2>6, <2>7, <2>8 DEF Next, Rest, Progress, Present
<1> QED
  BY <1>1, <1>2

-----------------------------------------------------------------------------
(* The inductive invariant: its parts share no variable but the shards and  *)
(* the nodes.                                                               *)

Steps == {"sent", "result", "unreachable", "200", "500", "503"}

QueryOK(q) == query[q] = [step |-> "idle"] \/ query[q] \in [step : Steps, at : Instance, shard : Shard]

(* Statements.  One whose shard has been down while it ran is in gone, also *)
(* when its error is still on the way.                                      *)
StatementInv ==
    /\ shardUp \subseteq Shard
    /\ query = [q \in Statement |-> query[q]]
    /\ gone \subseteq Statement
    /\ \A q \in Statement :
          /\ QueryOK(q)
          /\ query[q].step = "sent" => query[q].shard \in shardUp \/ q \in gone
          /\ query[q].step \in {"unreachable", "503"} => q \in gone

FlagInv == shardHealthy \in [Instance -> SUBSET Shard]

Given == [status : {"none", "UP", "DEGRADED", "DOWN"}]

Awaiting == [status : {"asked"}, at : Instance, nodes : SUBSET Node, ailing : BOOLEAN,
             waits : SUBSET ({"nodes"} \cup Shard)]

Outcome == {"none", "sent", "alive", "dead"}

Unchecked == [s \in Shard |-> "none"]

(* One report: it waits for a shard as long as its check is out.            *)
ReportOK(k) ==
    \/ report[k] \in Given /\ check[k] = Unchecked
    \/ /\ report[k] \in Awaiting
       /\ check[k] \in [Shard -> Outcome]
       /\ report[k].waits \cap Shard = {s \in Shard : check[k][s] # "none"}

ReportInv ==
    /\ report = [k \in Kubelet |-> report[k]]
    /\ check = [k \in Kubelet |-> check[k]]
    /\ \A k \in Kubelet : ReportOK(k)

(* Positions.  That of the primary was read after the request began, that   *)
(* of the replica is one it has been at.                                    *)
StatusInv ==
    /\ reading \in [Status -> [Node -> {"unasked", "asked", "read", "unreachable"}]]
    /\ position \in [Status -> [Node -> 0 .. primary]]
    /\ begun \in [Status -> 0 .. primary]
    /\ \A w \in Status :
          /\ reading[w]["primary"] = "read" => begun[w] <= position[w]["primary"]
          /\ reading[w]["replica"] = "read" => position[w]["replica"] <= replica

HInv == IInv /\ StatementInv /\ FlagInv /\ ReportInv /\ StatusInv

LEMMA HInvImpliesHealthOK == HInv => HealthOK
<1> SUFFICES ASSUME HInv PROVE HealthOK
  OBVIOUS
<1>1. TypeOK
  BY DEF HInv, IInv, Typed
<1>2. /\ shardUp \subseteq Shard
      /\ \A q \in Statement :
          \/ query[q] = [step |-> "idle"]
          \/ query[q] \in [step : {"sent", "result", "unreachable", "200", "500", "503"},
                           at : Instance, shard : Shard]
      /\ gone \subseteq Statement
  BY DEF HInv, StatementInv, QueryOK, Steps
<1>3. \A k \in Kubelet :
          \/ /\ report[k] \in [status : {"none", "UP", "DEGRADED", "DOWN"}]
             /\ check[k] = [s \in Shard |-> "none"]
          \/ /\ report[k] \in [status : {"asked"}, at : Instance, nodes : SUBSET Node,
                               ailing : BOOLEAN, waits : SUBSET ({"nodes"} \cup Shard)]
             /\ check[k] \in [Shard -> {"none", "sent", "alive", "dead"}]
             /\ report[k].waits \cap Shard = {s \in Shard : check[k][s] # "none"}
  BY DEF HInv, ReportInv, ReportOK, Given, Awaiting, Outcome, Unchecked
<1> QED
  BY <1>1, <1>2, <1>3 DEF HInv, FlagInv, StatusInv, HealthOK

LEMMA HInvImpliesRefused == HInv => RefusedShardWasDown
BY DEF HInv, StatementInv, RefusedShardWasDown

LEMMA HInvImpliesCaughtUp == HInv => CaughtUpIsTrue
<1> SUFFICES ASSUME HInv, NEW w \in Status, caughtUp(w) PROVE replica >= begun[w]
  BY DEF CaughtUpIsTrue
<1>1. behind(w) = 0
  BY DEF caughtUp
<1>2. reading[w] = [n \in Node |-> "read"] /\ Excess(w) = 0
  BY <1>1 DEF behind
<1>3. reading[w]["primary"] = "read" /\ reading[w]["replica"] = "read"
  BY <1>2 DEF Node
<1>4. begun[w] <= position[w]["primary"] /\ position[w]["replica"] <= replica
  BY <1>3 DEF HInv, StatusInv
<1>5. /\ replica \in Nat /\ begun[w] \in Nat
      /\ position[w]["primary"] \in Nat /\ position[w]["replica"] \in Nat
  <2>1. primary \in Nat /\ replica \in 0 .. primary
    BY DEF HInv, IInv, Typed, TypeOK
  <2>2. position[w] \in [Node -> 0 .. primary] /\ begun[w] \in 0 .. primary
    BY DEF HInv, StatusInv
  <2> QED
    BY <2>1, <2>2 DEF Node
<1>6. position[w]["primary"] <= position[w]["replica"]
  BY <1>2, <1>5 DEF Excess
<1> QED
  BY <1>4, <1>5, <1>6

-----------------------------------------------------------------------------
(* Each part, step by step.                                                 *)

LEMMA InitHInv == HealthInit => HInv
<1> SUFFICES ASSUME HealthInit PROVE HInv
  OBVIOUS
<1>1. IInv
  BY InitIInv DEF HealthInit
<1>2. StatementInv
  BY DEF HealthInit, StatementInv, QueryOK
<1>3. FlagInv
  BY DEF HealthInit, FlagInv
<1>4. ReportInv
  BY DEF HealthInit, ReportInv, ReportOK, Given, Unchecked
<1>5. StatusInv
  <2>1. primary = 0
    BY DEF HealthInit, Init
  <2>2. Unasked \in [Node -> {"unasked", "asked", "read", "unreachable"}]
    BY DEF Unasked
  <2>3. [n \in Node |-> 0] \in [Node -> 0 .. primary]
    BY <2>1
  <2>4. 0 \in 0 .. primary
    BY <2>1
  <2>5. \A w \in Status : \A n \in Node : reading[w][n] # "read"
    BY DEF HealthInit, Unasked
  <2> QED
    BY <2>2, <2>3, <2>4, <2>5 DEF HealthInit, StatusInv, Node
<1> QED
  BY <1>1, <1>2, <1>3, <1>4, <1>5 DEF HInv

LEMMA StatementKeeps ==
    ASSUME StatementInv, NEW q \in Statement, NEW i \in Instance, NEW s \in Shard,
           AskShard(q, i, s) \/ ShardAnswers(q) \/ ShardOverload(q) \/ ShardServed(q)
    PROVE  StatementInv'
<1>1. CASE AskShard(q, i, s)
  BY <1>1 DEF AskShard, StatementInv, QueryOK, Steps, shards
<1>2. CASE ShardAnswers(q)
  BY <1>2 DEF ShardAnswers, StatementInv, QueryOK, Steps, shards
<1>3. CASE ShardOverload(q)
  BY <1>3 DEF ShardOverload, StatementInv, QueryOK, Steps, shards
<1>4. CASE ShardServed(q)
  BY <1>4 DEF ShardServed, StatementInv, QueryOK, Steps
<1> QED
  BY <1>1, <1>2, <1>3, <1>4

LEMMA ShardChangesKeeps ==
    ASSUME StatementInv, NEW s \in Shard, ShardChanges(s)
    PROVE  StatementInv'
<1>1. UNCHANGED query /\ shardUp' \subseteq Shard
  BY DEF ShardChanges, StatementInv
<1>2. gone' = gone \cup {q \in Statement : query[q].step = "sent" /\ query[q].shard \notin shardUp'}
  BY DEF ShardChanges
<1> QED
  BY <1>1, <1>2 DEF StatementInv, QueryOK

LEMMA FlagsKeep ==
    ASSUME FlagInv, StatementInv, ReportInv,
           \/ \E q \in Statement : ShardServed(q)
           \/ \E k \in Kubelet, s \in Shard : ShardChecked(k, s)
    PROVE  FlagInv'
<1>1. ASSUME NEW i, NEW s \in Shard, markUpShard(i, s) \/ markDownShard(i, s)
      PROVE  FlagInv'
  BY <1>1 DEF FlagInv, markUpShard, markDownShard
<1>2. ASSUME NEW q \in Statement, ShardServed(q) PROVE FlagInv'
  <2>1. query[q].shard \in Shard
    BY <1>2 DEF ShardServed, StatementInv, QueryOK
  <2> QED
    BY <1>1, <1>2, <2>1 DEF ShardServed
<1>3. ASSUME NEW k \in Kubelet, NEW s \in Shard, ShardChecked(k, s) PROVE FlagInv'
  BY <1>1, <1>3 DEF ShardChecked
<1> QED
  BY <1>2, <1>3

\* A report changes alone.
LEMMA OneReport ==
    ASSUME ReportInv, NEW k \in Kubelet, NEW r, NEW c,
           report' = [report EXCEPT ![k] = r], check' = [check EXCEPT ![k] = c],
           \/ r \in Given /\ c = Unchecked
           \/ /\ r \in Awaiting /\ c \in [Shard -> Outcome]
              /\ r.waits \cap Shard = {s \in Shard : c[s] # "none"}
    PROVE  ReportInv'
<1>1. (report[k])' = r /\ (check[k])' = c
  BY DEF ReportInv
<1>2. \A o \in Kubelet \ {k} : (report[o])' = report[o] /\ (check[o])' = check[o]
  BY DEF ReportInv
<1>3. ReportOK(k)'
  BY <1>1 DEF ReportOK, Unchecked
<1>4. \A o \in Kubelet \ {k} : ReportOK(o)'
  BY <1>2 DEF ReportInv, ReportOK, Unchecked
<1> QED
  BY <1>3, <1>4 DEF ReportInv

LEMMA VerdictGiven ==
    ASSUME NEW nodes, NEW ailing
    PROVE  [status |-> Verdict(nodes, ailing)] \in Given
BY DEF Verdict, Given

LEMMA AskHealthKeeps ==
    ASSUME ReportInv, NEW k \in Kubelet, NEW i \in Instance, AskHealth(k, i)
    PROVE  ReportInv'
<1> DEFINE r == [status |-> "asked", at |-> i, nodes |-> {}, ailing |-> FALSE,
                 waits |-> {"nodes"} \cup Shard]
           c == [s \in Shard |-> "sent"]
<1>1. report' = [report EXCEPT ![k] = r] /\ check' = [check EXCEPT ![k] = c]
  BY DEF AskHealth
<1>2. r \in Awaiting /\ c \in [Shard -> Outcome]
  BY DEF Awaiting, Outcome
<1>3. r.waits \cap Shard = {s \in Shard : c[s] # "none"}
  OBVIOUS
<1> HIDE DEF r, c
<1> QED
  BY <1>1, <1>2, <1>3, OneReport

Settled(r, waits, nodes, ailing) ==
    [r EXCEPT !.waits = waits, !.nodes = nodes, !.ailing = ailing]

LEMMA SettledAwaits ==
    ASSUME NEW r \in Awaiting, NEW waits \in SUBSET ({"nodes"} \cup Shard),
           NEW nodes \in SUBSET Node, NEW ailing \in BOOLEAN
    PROVE  /\ Settled(r, waits, nodes, ailing) \in Awaiting
           /\ Settled(r, waits, nodes, ailing).waits = waits
BY DEF Awaiting, Settled

\* The part of a report that is settled, and what it then is.
LEMMA SettleKeeps ==
    ASSUME ReportInv, NEW k \in Kubelet, report[k] \in Awaiting, check[k] \in [Shard -> Outcome],
           report[k].waits \cap Shard = {s \in Shard : check[k][s] # "none"},
           NEW part, NEW nodes \in SUBSET Node, NEW ailing \in BOOLEAN,
           Settle(k, part, nodes, ailing), NEW c \in [Shard -> Outcome],
           check' = [check EXCEPT ![k] = c],
           {s \in Shard : c[s] # "none"} = {s \in Shard : check[k][s] # "none"} \ {part}
    PROVE  ReportInv'
<1> DEFINE waits == report[k].waits \ {part}
<1>1. waits \cap Shard = {s \in Shard : c[s] # "none"}
  OBVIOUS
<1>2. CASE waits = {}
  <2>1. report' = [report EXCEPT ![k] = [status |-> Verdict(nodes, ailing)]]
    BY <1>2 DEF Settle
  <2>2. c = Unchecked
    BY <1>1, <1>2 DEF Unchecked
  <2> QED
    BY <2>1, <2>2, VerdictGiven, OneReport
<1>3. CASE waits # {}
  <2> DEFINE r == Settled(report[k], waits, nodes, ailing)
  <2>1. r \in Awaiting /\ r.waits = waits
    <3>1. waits \in SUBSET ({"nodes"} \cup Shard)
      BY DEF Awaiting
    <3> HIDE DEF waits
    <3> QED
      BY <3>1, SettledAwaits
  <2>2. report' = [report EXCEPT ![k] = r]
    <3>1. k \in DOMAIN report
      BY DEF ReportInv
    <3> QED
      BY <1>3, <3>1 DEF Settle, Settled
  <2> HIDE DEF r, waits
  <2> QED
    BY <1>1, <2>1, <2>2, OneReport
<1> QED
  BY <1>2, <1>3

LEMMA ReadNodesKeeps ==
    ASSUME ReportInv, TypeOK, NEW k \in Kubelet, ReadNodes(k)
    PROVE  ReportInv'
<1>1. report[k].status = "asked" /\ UNCHANGED check
  BY DEF ReadNodes, Asking
<1>2. ReportOK(k) /\ report[k] \notin Given
  BY <1>1 DEF ReportInv, Given
<1>3. /\ report[k] \in Awaiting /\ check[k] \in [Shard -> Outcome]
      /\ report[k].waits \cap Shard = {s \in Shard : check[k][s] # "none"}
  BY <1>2 DEF ReportOK
<1>4. healthy[report[k].at] \in SUBSET Node /\ report[k].ailing \in BOOLEAN
  BY <1>3 DEF TypeOK, Awaiting
<1>5. check' = [check EXCEPT ![k] = check[k]]
  BY <1>1 DEF ReportInv
<1>6. {s \in Shard : check[k][s] # "none"} = {s \in Shard : check[k][s] # "none"} \ {"nodes"}
  BY HealthAssumption
<1>7. Settle(k, "nodes", healthy[report[k].at], report[k].ailing)
  BY DEF ReadNodes
<1> QED
  BY <1>3, <1>4, <1>5, <1>6, <1>7, SettleKeeps

LEMMA CheckAnsweredKeeps ==
    ASSUME ReportInv, NEW k \in Kubelet, NEW s \in Shard, CheckAnswered(k, s)
    PROVE  ReportInv'
<1>1. check[k][s] = "sent" /\ UNCHANGED report
  BY DEF CheckAnswered
<1>2. /\ report[k] \in Awaiting /\ check[k] \in [Shard -> Outcome]
      /\ report[k].waits \cap Shard = {o \in Shard : check[k][o] # "none"}
  BY <1>1 DEF ReportInv, ReportOK, Unchecked
<1>3. PICK outcome \in {"alive", "dead"} :
         check' = [check EXCEPT ![k] = [check[k] EXCEPT ![s] = outcome]]
  BY DEF CheckAnswered, ReportInv
<1>4. report' = [report EXCEPT ![k] = report[k]]
  BY <1>1 DEF ReportInv
<1>5. [check[k] EXCEPT ![s] = outcome] \in [Shard -> Outcome]
  BY <1>2 DEF Outcome
<1>6. \A o \in Shard : [check[k] EXCEPT ![s] = outcome][o] # "none" <=> check[k][o] # "none"
  BY <1>1, <1>2
<1> QED
  BY <1>2, <1>3, <1>4, <1>5, <1>6, OneReport

LEMMA ShardSettlesKeeps ==
    ASSUME ReportInv, NEW k \in Kubelet, NEW s \in Shard, check[k][s] # "none", ShardSettles(k, s)
    PROVE  ReportInv'
<1> DEFINE c == [check[k] EXCEPT ![s] = "none"]
           ailing == report[k].waits \cap Shard = {s} /\ (shardHealthy')[report[k].at] # Shard
<1>1. /\ report[k] \in Awaiting /\ check[k] \in [Shard -> Outcome]
      /\ report[k].waits \cap Shard = {o \in Shard : check[k][o] # "none"}
  BY DEF ReportInv, ReportOK, Unchecked
<1>2. check' = [check EXCEPT ![k] = c]
  BY DEF ShardSettles, ReportInv
<1>3. c \in [Shard -> Outcome]
  BY <1>1 DEF Outcome
<1>4. {o \in Shard : c[o] # "none"} = {o \in Shard : check[k][o] # "none"} \ {s}
  BY <1>1
<1>5. Settle(k, s, report[k].nodes, ailing)
  BY DEF ShardSettles
<1>6. report[k].nodes \in SUBSET Node /\ ailing \in BOOLEAN
  BY <1>1 DEF Awaiting
<1> HIDE DEF c, ailing
<1> QED
  BY <1>1, <1>2, <1>3, <1>4, <1>5, <1>6, SettleKeeps

-----------------------------------------------------------------------------
(* The positions.                                                           *)

LEMMA StatusGrows ==
    ASSUME TypeOK, StatusInv, primary' \in Nat, replica' \in Nat,
           primary <= primary', replica <= replica', UNCHANGED <<reading, position, begun>>
    PROVE  StatusInv'
<1> DEFINE Count == 0 .. primary
           Later == 0 .. primary'
<1>1. primary \in Nat /\ replica \in Nat /\ Count \subseteq Later /\ Count \subseteq Nat
  BY Numbers
<1>2. position \in [Status -> [Node -> Count]] /\ begun \in [Status -> Count]
  BY DEF StatusInv
<1> HIDE DEF Count, Later
<1>3. position' \in [Status -> [Node -> Later]] /\ begun' \in [Status -> Later]
  BY <1>1, <1>2
<1>4. \A w \in Status : position[w]["replica"] \in Nat
  BY <1>1, <1>2 DEF Node
<1>5. \A w \in Status :
          /\ reading'[w]["primary"] = "read" => begun'[w] <= position'[w]["primary"]
          /\ reading'[w]["replica"] = "read" => position'[w]["replica"] <= replica'
  BY <1>1, <1>4 DEF StatusInv
<1> QED
  BY <1>3, <1>5 DEF StatusInv, Later

LEMMA AskStatusKeeps ==
    ASSUME TypeOK, StatusInv, NEW w \in Status, AskStatus(w)
    PROVE  StatusInv'
<1> DEFINE How == {"unasked", "asked", "read", "unreachable"}
           Count == 0 .. primary
<1>1. /\ reading' = [reading EXCEPT ![w] = [n \in Node |-> "asked"]]
      /\ begun' = [begun EXCEPT ![w] = primary]
      /\ UNCHANGED <<primary, replica, position>>
  BY DEF AskStatus, vars
<1>2. reading \in [Status -> [Node -> How]] /\ begun \in [Status -> Count]
      /\ primary \in Count
  <2>1. primary \in Count
    BY Numbers
  <2> HIDE DEF TypeOK
  <2> QED
    BY <2>1 DEF StatusInv
<1>3. [n \in Node |-> "asked"] \in [Node -> How]
  OBVIOUS
<1>4. reading' \in [Status -> [Node -> How]] /\ begun' \in [Status -> Count]
  <2> HIDE DEF How, Count
  <2> QED
    BY <1>1, <1>2, <1>3
<1>5. \A o \in Status : \A n \in Node :
         reading'[o][n] = "read" => reading[o][n] = "read" /\ begun'[o] = begun[o]
  BY <1>1, <1>2
<1> QED
  BY <1>1, <1>4, <1>5 DEF StatusInv, Node

LEMMA ReadPositionKeeps ==
    ASSUME TypeOK, StatusInv, NEW w \in Status, NEW n \in Node, ReadPosition(w, n)
    PROVE  StatusInv'
<1> DEFINE How == {"unasked", "asked", "read", "unreachable"}
           Count == 0 .. primary
<1>1. UNCHANGED <<primary, replica, begun>>
  BY DEF ReadPosition, vars
<1>2. /\ reading \in [Status -> [Node -> How]] /\ position \in [Status -> [Node -> Count]]
      /\ begun \in [Status -> Count] /\ primary \in Count /\ replica \in Count
      /\ primary \in Nat
  <2>1. primary \in Nat /\ primary \in Count /\ replica \in Count
    BY Numbers
  <2>2. /\ reading \in [Status -> [Node -> How]] /\ position \in [Status -> [Node -> Count]]
        /\ begun \in [Status -> Count]
    BY DEF StatusInv
  <2> QED
    BY <2>1, <2>2
<1>3. PICK how \in {"read", "unreachable"} : reading' = [reading EXCEPT ![w][n] = how]
  BY DEF ReadPosition
<1>4. PICK where \in Count :
         /\ position' = [position EXCEPT ![w][n] = where]
         /\ how = "read" => where = IF n = "primary" THEN primary ELSE replica
  <2>1. CASE how = "read"
    <3>1. reading'[w][n] # "unreachable"
      BY <1>2, <1>3, <2>1
    <3>2. position' = [position EXCEPT ![w][n] = IF n = "primary" THEN primary ELSE replica]
      BY <1>2, <3>1 DEF ReadPosition
    <3> QED
      BY <1>2, <3>2
  <2>2. CASE how = "unreachable"
    <3>1. reading'[w][n] # "read"
      BY <1>2, <1>3, <2>2
    <3>2. UNCHANGED position
      BY <1>2, <3>1 DEF ReadPosition
    <3>3. position' = [position EXCEPT ![w][n] = position[w][n]] /\ position[w][n] \in Count
      BY <1>2, <3>2
    <3> QED
      BY <2>2, <3>3
  <2> QED
    BY <2>1, <2>2
<1>5. how \in How
  OBVIOUS
<1> HIDE DEF How, Count
<1>6. reading' \in [Status -> [Node -> How]] /\ position' \in [Status -> [Node -> Count]]
  BY <1>2, <1>3, <1>4, <1>5
<1>7. ASSUME NEW o \in Status, NEW m \in Node, reading'[o][m] = "read"
      PROVE  \/ o = w /\ m = n /\ position'[o][m] = IF n = "primary" THEN primary ELSE replica
             \/ reading[o][m] = "read" /\ position'[o][m] = position[o][m]
  BY <1>2, <1>3, <1>4, <1>7
<1>8. \A o \in Status : begun[o] \in 0 .. primary
  BY <1>2 DEF Count
<1>9. /\ \A o \in Status :
            reading'[o]["primary"] = "read" => begun[o] <= position'[o]["primary"]
      /\ \A o \in Status :
            reading'[o]["replica"] = "read" => position'[o]["replica"] <= replica
  BY <1>2, <1>7, <1>8 DEF StatusInv, Node, Count
<1> QED
  BY <1>1, <1>2, <1>6, <1>9 DEF StatusInv, How, Count

-----------------------------------------------------------------------------
(* Together.                                                                *)

\* Parts whose variables a step leaves alone.
LEMMA StatementSteady ==
    ASSUME StatementInv, UNCHANGED <<shardUp, query, gone>>
    PROVE  StatementInv'
BY DEF StatementInv, QueryOK

LEMMA ReportSteady ==
    ASSUME ReportInv, UNCHANGED <<report, check>>
    PROVE  ReportInv'
BY DEF ReportInv, ReportOK, Unchecked

LEMMA FlagSteady ==
    ASSUME FlagInv, UNCHANGED shardHealthy
    PROVE  FlagInv'
BY DEF FlagInv

LEMMA NextHInv == HInv /\ [HealthNext]_allVars => HInv'
<1> SUFFICES ASSUME HInv, [HealthNext]_allVars PROVE HInv'
  OBVIOUS
<1>1. IInv'
  BY RouterOrNothing, NextIInv DEF HInv
<1>2. TypeOK /\ TypeOK'
  BY <1>1 DEF HInv, IInv, Typed
<1>3. /\ primary' \in Nat /\ replica' \in Nat
      /\ primary <= primary' /\ replica <= replica'
  BY <1>2, RouterOrNothing, NodesGrow, NumbersNext
<1>4. UNCHANGED <<reading, position, begun>> => StatusInv'
  BY <1>2, <1>3, StatusGrows DEF HInv
<1>5. StatementInv /\ FlagInv /\ ReportInv /\ StatusInv
  BY DEF HInv
<1>6. CASE UNCHANGED healthVars
  <2>1. UNCHANGED <<shardUp, shardHealthy, query, gone, report, check, reading, position, begun>>
    BY <1>6 DEF healthVars, shards
  <2> QED
    BY <1>1, <1>4, <1>5, <2>1, StatementSteady, ReportSteady, FlagSteady DEF HInv
<1>7. ASSUME NEW q \in Statement,
             \/ \E i \in Instance, s \in Shard : AskShard(q, i, s)
             \/ ShardAnswers(q) \/ ShardOverload(q) \/ ShardServed(q)
      PROVE  HInv'
  <2>1. UNCHANGED <<report, check, reading, position, begun>>
    BY <1>7 DEF AskShard, ShardAnswers, ShardOverload, ShardServed
  <2>2. StatementInv'
    <3>1. ASSUME NEW i \in Instance, NEW s \in Shard, AskShard(q, i, s) PROVE StatementInv'
      BY <1>5, <3>1, StatementKeeps
    <3>2. CASE ShardAnswers(q) \/ ShardOverload(q) \/ ShardServed(q)
      <4>1. query[q].step # "idle"
        BY <3>2 DEF ShardAnswers, ShardOverload, ShardServed
      <4>2. query[q].at \in Instance /\ query[q].shard \in Shard
        BY <1>5, <4>1 DEF StatementInv, QueryOK
      <4> QED
        BY <1>5, <3>2, <4>2, StatementKeeps
    <3> QED
      BY <1>7, <3>1, <3>2
  <2>3. FlagInv'
    <3>1. CASE ShardServed(q)
      BY <1>5, <3>1, FlagsKeep
    <3>2. CASE ~ShardServed(q)
      <4>1. UNCHANGED shardHealthy
        BY <1>7, <3>2 DEF AskShard, ShardAnswers, ShardOverload, shards
      <4> QED
        BY <1>5, <4>1, FlagSteady
    <3> QED
      BY <3>1, <3>2
  <2> QED
    BY <1>1, <1>4, <1>5, <2>1, <2>2, <2>3, ReportSteady DEF HInv
<1>8. ASSUME NEW k \in Kubelet, NEW i \in Instance, AskHealth(k, i)
      PROVE  HInv'
  <2>1. UNCHANGED <<shardUp, shardHealthy, query, gone, reading, position, begun>>
    BY <1>8 DEF AskHealth, shards
  <2>2. ReportInv'
    BY <1>5, <1>8, AskHealthKeeps
  <2> QED
    BY <1>1, <1>4, <1>5, <2>1, <2>2, StatementSteady, FlagSteady DEF HInv
<1>9. ASSUME NEW k \in Kubelet, ReadNodes(k)
      PROVE  HInv'
  <2>1. UNCHANGED <<shardUp, shardHealthy, query, gone, reading, position, begun>>
    BY <1>9 DEF ReadNodes, shards
  <2>2. ReportInv'
    BY <1>2, <1>5, <1>9, ReadNodesKeeps
  <2> QED
    BY <1>1, <1>4, <1>5, <2>1, <2>2, StatementSteady, FlagSteady DEF HInv
<1>10. ASSUME NEW k \in Kubelet, NEW s \in Shard, CheckAnswered(k, s)
       PROVE  HInv'
  <2>1. UNCHANGED <<shardUp, shardHealthy, query, gone, reading, position, begun>>
    BY <1>10 DEF CheckAnswered, shards
  <2>2. ReportInv'
    BY <1>5, <1>10, CheckAnsweredKeeps
  <2> QED
    BY <1>1, <1>4, <1>5, <2>1, <2>2, StatementSteady, FlagSteady DEF HInv
<1>11. ASSUME NEW k \in Kubelet, NEW s \in Shard, ShardChecked(k, s) \/ CheckTimesOut(k, s)
       PROVE  HInv'
  <2>1. /\ UNCHANGED <<shardUp, query, gone, reading, position, begun>>
        /\ ShardSettles(k, s) /\ check[k][s] # "none"
    BY <1>11 DEF ShardChecked, CheckTimesOut, ShardSettles
  <2>2. ReportInv'
    BY <1>5, <2>1, ShardSettlesKeeps
  <2>3. FlagInv'
    BY <1>5, <1>11, FlagsKeep, FlagSteady DEF CheckTimesOut
  <2> QED
    BY <1>1, <1>4, <1>5, <2>1, <2>2, <2>3, StatementSteady DEF HInv
<1>12. ASSUME NEW w \in Status, AskStatus(w) \/ \E n \in Node : ReadPosition(w, n)
       PROVE  HInv'
  <2>1. UNCHANGED <<shardUp, shardHealthy, query, gone, report, check>>
    BY <1>12 DEF AskStatus, ReadPosition, shards
  <2>2. StatusInv'
    BY <1>2, <1>5, <1>12, AskStatusKeeps, ReadPositionKeeps
  <2> QED
    BY <1>1, <1>5, <2>1, <2>2, StatementSteady, FlagSteady, ReportSteady DEF HInv
<1>13. ASSUME NEW s \in Shard, ShardChanges(s)
       PROVE  HInv'
  <2>1. UNCHANGED <<shardHealthy, report, check, reading, position, begun>>
    BY <1>13 DEF ShardChanges
  <2>2. StatementInv'
    BY <1>5, <1>13, ShardChangesKeeps
  <2> QED
    BY <1>1, <1>4, <1>5, <2>1, <2>2, FlagSteady, ReportSteady DEF HInv
<1>14. CASE UNCHANGED allVars
  BY <1>6, <1>14 DEF allVars
<1> QED
  BY <1>6, <1>7, <1>8, <1>9, <1>10, <1>11, <1>12, <1>13, <1>14 DEF HealthNext, Present

LEMMA HInvInvariant == HealthSpec => []HInv
BY InitHInv, NextHInv, PTL DEF HealthSpec

(* Every report of /health waits exactly for the checks that are out        *)
(* (Promise.all of HealthController over ShardRouter.checkHealth): none is  *)
(* answered early, and a check that timed out does not settle twice.        *)
THEOREM HealthTheorem == HealthSpec => []HealthOK
BY HInvInvariant, HInvImpliesHealthOK, PTL

(* "Shard Unavailable" (ShardRouter.physicalShard) is said of a shard that  *)
(* was down while the statement ran, whatever the flags said.               *)
THEOREM RefusalTheorem == HealthSpec => []RefusedShardWasDown
BY HInvInvariant, HInvImpliesRefused, PTL

(* caughtUp of /replication/status (ReplicationService.status) is never     *)
(* said of a replica that lacks what was committed before the request.      *)
THEOREM CaughtUpTheorem == HealthSpec => []CaughtUpIsTrue
BY HInvInvariant, HInvImpliesCaughtUp, PTL
=============================================================================
