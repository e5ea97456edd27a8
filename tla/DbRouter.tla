------------------------------ MODULE DbRouter ------------------------------
(***************************************************************************)
(* Read/write separation: DbRouter of src/src/database, one per API        *)
(* instance, over a primary and an asynchronous replica.  A query goes to  *)
(* the node its consistency, the sticky flag of its session and the health *)
(* flags of its instance select, and errors of connections and probes      *)
(* change those flags.  The topology with a replica is modelled; without   *)
(* one every query goes to the primary.                                    *)
(*                                                                         *)
(* The database is the number of writes committed; a read returns how many *)
(* of them the node has.                                                   *)
(***************************************************************************)
EXTENDS Integers

CONSTANTS
    Instance,
    Session,
    Request,   \* each served once, by some instance for some session
    Situations,  \* what may happen together, one of them in a behaviour:
                 \* requests that come, nodes that go down and come back
    Faults       \* see Fault

Node == {"primary", "replica"}

\* "lost": a write is committed and its answer lost; "overload": no connection
\* is free (P2024); "conflict": the replica cancels a query; "redis": a
\* command of Redis fails, or a flag is lost with it.
Fault == {"lost", "overload", "conflict", "redis"}

ASSUME RouterAssumption ==
    /\ Faults \subseteq Fault
    /\ \A s \in Situations : DOMAIN s = {"present", "unsteady"}

Consistency == {"eventual", "strong", "primary-preferred"}

VARIABLES
    situation,
    primary,   \* writes committed
    replica,   \* writes the replica has replayed
    up,        \* nodes that answer
    healthy,   \* instances: nodes they take for healthy
    local,     \* instances: localSticky, 0 or the writes committed when set
    shared,    \* Redis: booking:ryw:{session}, likewise
    probe,     \* instances: probes under way, per node
    pc, job,
    result,    \* reads: what they returned; writes: their number
    acked,     \* history: last write of each session that was answered
    need,      \* history: acked as it was when the request began
    missing,   \* history: <<session, instance>> whose flag Redis lost
    blind      \* history: reads that found no flag because Redis lost it

vars == <<situation, primary, replica, up, healthy, local, shared, probe, pc, job, result,
          acked, need, missing, blind>>

database == <<primary, replica, up>>
history == <<acked, need, missing, blind>>

Present(clients) == clients \cap situation.present

NoJob == [op |-> "none"]

Route == {"write", "strong", "primary-preferred", "eventual", "sticky", "fallback",
          "degraded"}

Job == [op : Consistency \cup {"write"}, at : Instance, session : Session, route : Route]

None == [s \in Session |-> 0]

Init ==
    /\ situation \in Situations
    /\ primary = 0 /\ replica = 0 /\ up = Node
    /\ healthy = [i \in Instance |-> Node]
    /\ local = [i \in Instance |-> None]
    /\ shared = None
    /\ probe = [i \in Instance |-> [n \in Node |-> "none"]]
    /\ pc = [q \in Request |-> "idle"]
    /\ job = [q \in Request |-> NoJob]
    /\ result = [q \in Request |-> 0]
    /\ acked = None
    /\ need = [q \in Request |-> None]
    /\ missing = {} /\ blind = {}

-----------------------------------------------------------------------------
Go(q, step) == pc' = [pc EXCEPT ![q] = step]

Begin(q, i, s, op, route) ==
    /\ pc[q] = "idle"
    /\ job' = [job EXCEPT ![q] = [op |-> op, at |-> i, session |-> s, route |-> route]]
    /\ need' = [need EXCEPT ![q] = acked]

markDown(i, n) == healthy' = [healthy EXCEPT ![i] = @ \ {n}]

\* Mutant: a strong read may be degraded, too.
DegradeAny(q, i, route) ==
    \/ "replica" \in healthy[i] /\ Go(q, "degraded")
    \/ "replica" \notin healthy[i] /\ Go(q, "503")

\* Where a read goes that cannot have the primary.
Degrade(q, i, route) ==
    \/ /\ route \in {"sticky", "primary-preferred"}
       /\ "replica" \in healthy[i]
       /\ Go(q, "degraded")
    \/ /\ route \notin {"sticky", "primary-preferred"} \/ "replica" \notin healthy[i]
       /\ Go(q, "503")

\* readPrimary(), up to its query.
readPrimary(q, i, route) ==
    \/ "primary" \in healthy[i] /\ Go(q, "primary")
    \/ "primary" \notin healthy[i] /\ Degrade(q, i, route)

-----------------------------------------------------------------------------
(* write() up to the query: in read-only mode it is refused at once.        *)
Write(q, i, s) ==
    /\ Begin(q, i, s, "write", "write")
    /\ \/ "primary" \in healthy[i] /\ Go(q, "commit")
       \/ "primary" \notin healthy[i] /\ Go(q, "503")
    /\ UNCHANGED <<situation, database, healthy, local, shared, probe, result, acked,
                   missing, blind>>

\* Mutant: the mutation goes to a node that answers.
CommitAnywhere(q) ==
    /\ pc[q] = "commit"
    /\ \E n \in up :
          /\ primary' = IF n = "primary" THEN primary + 1 ELSE primary
          /\ replica' = IF n = "replica" THEN replica + 1 ELSE replica
    /\ result' = [result EXCEPT ![q] = primary']
    /\ Go(q, "committed")
    /\ UNCHANGED <<situation, up, healthy, local, shared, probe, job, history>>

(* The primary runs the mutation, or cannot be reached.                     *)
Commit(q) ==
    /\ pc[q] = "commit"
    /\ \/ /\ "primary" \in up
          /\ primary' = primary + 1
          /\ result' = [result EXCEPT ![q] = primary + 1]
          /\ \/ Go(q, "committed")
             \/ "lost" \in Faults /\ Go(q, "unreachable")
       \/ /\ "primary" \notin up
          /\ Go(q, "unreachable")
          /\ UNCHANGED <<primary, result>>
    /\ UNCHANGED <<situation, replica, up, healthy, local, shared, probe, job, history>>

(* rememberWrite(): localSticky.set().                                      *)
Remember(q) ==
    /\ pc[q] = "committed"
    /\ local' = [local EXCEPT ![job[q].at][job[q].session] = primary]
    /\ Go(q, "flag")
    /\ UNCHANGED <<situation, database, healthy, shared, probe, job, result, history>>

(* rememberWrite(): cache.setFlag(), and the answer.                        *)
SetFlag(q) ==
    LET s == job[q].session
    IN  /\ pc[q] = "flag"
        /\ \/ /\ shared' = [shared EXCEPT ![s] = primary]
              /\ missing' = missing \ ({s} \X Instance)
           \/ /\ "redis" \in Faults
              /\ missing' = missing \cup {<<s, job[q].at>>}
              /\ UNCHANGED shared
        /\ acked' = [acked EXCEPT ![s] = IF @ < result[q] THEN result[q] ELSE @]
        /\ Go(q, "200")
        /\ UNCHANGED <<situation, database, healthy, local, probe, job, result, need, blind>>

(* The error of the query reaches write().                                  *)
WriteFailed(q) ==
    /\ pc[q] = "unreachable"
    /\ job[q].op = "write"
    /\ markDown(job[q].at, "primary")
    /\ Go(q, "503")
    /\ UNCHANGED <<situation, database, local, shared, probe, job, result, history>>

-----------------------------------------------------------------------------
(* read() up to its query, or to the question whether the session has       *)
(* written through another instance.                                        *)
Read(q, i, s, op) ==
    LET route == IF op = "eventual" /\ local[i][s] > 0 THEN "sticky" ELSE op
    IN  /\ Begin(q, i, s, op, route)
        /\ \/ route = "eventual" /\ Go(q, "ask")
           \/ route # "eventual" /\ readPrimary(q, i, route)
        /\ UNCHANGED <<situation, database, healthy, local, shared, probe, result, acked,
                       missing, blind>>

\* Mutant: the flag of another instance is not looked for.
AskLocal(q) ==
    /\ pc[q] = "ask"
    /\ \/ "replica" \in healthy[job[q].at] /\ Go(q, "replica")
       \/ "replica" \notin healthy[job[q].at] /\ readPrimary(q, job[q].at, "fallback")
    /\ UNCHANGED <<situation, database, healthy, local, shared, probe, job, result, history>>

(* isSticky(): cache.hasFlag().  When Redis does not know, the session is   *)
(* not sticky.  Then the replica, if it is healthy, or the primary.         *)
Ask(q) ==
    LET i == job[q].at
        s == job[q].session
        through(route) == job' = [job EXCEPT ![q].route = route]
    IN  /\ pc[q] = "ask"
        /\ \/ /\ shared[s] > 0
              /\ through("sticky")
              /\ readPrimary(q, i, "sticky")
              /\ UNCHANGED blind
           \/ /\ shared[s] = 0 \/ "redis" \in Faults
              /\ \/ /\ "replica" \in healthy[i]
                    /\ Go(q, "replica")
                    /\ UNCHANGED job
                 \/ /\ "replica" \notin healthy[i]
                    /\ through("fallback")
                    /\ readPrimary(q, i, "fallback")
              /\ blind' = IF \/ shared[s] > 0
                             \/ \E j \in Instance \ {i} : <<s, j>> \in missing
                          THEN blind \cup {q} ELSE blind
        /\ UNCHANGED <<situation, database, healthy, local, shared, probe, result, acked,
                       need, missing>>

\* The node the query of a read is sent to.
Asked(q) == IF pc[q] = "primary" THEN "primary" ELSE "replica"

(* The query of a read reaches its node; without a connection it fails.     *)
Query(q) ==
    /\ pc[q] \in {"primary", "replica", "degraded"}
    /\ \/ /\ Asked(q) \in up
          /\ result' = [result EXCEPT ![q] =
                IF pc[q] = "primary" THEN primary ELSE replica]
          /\ job' = [job EXCEPT ![q].route = IF pc[q] = "degraded" THEN pc[q] ELSE @]
          /\ Go(q, "200")
       \/ /\ Asked(q) \notin up
          /\ Go(q, CASE pc[q] = "primary"  -> "unreachable"
                     [] pc[q] = "replica"  -> "no replica"
                     [] pc[q] = "degraded" -> "500")
          /\ UNCHANGED <<result, job>>
    /\ UNCHANGED <<situation, database, healthy, local, shared, probe, history>>

(* The error of the primary reaches readPrimary().                          *)
PrimaryFailed(q) ==
    /\ pc[q] = "unreachable"
    /\ job[q].op # "write"
    /\ markDown(job[q].at, "primary")
    /\ Degrade(q, job[q].at, job[q].route)
    /\ UNCHANGED <<situation, database, local, shared, probe, job, result, history>>

\* Mutant: after an error of the replica the read starts over.
ReplicaFailedAgain(q) ==
    /\ pc[q] = "no replica"
    /\ Go(q, "ask")
    /\ UNCHANGED <<situation, database, healthy, local, shared, probe, job, result, history>>

(* The error of the replica reaches read(): primary fallback.               *)
ReplicaFailed(q) ==
    /\ pc[q] = "no replica"
    /\ markDown(job[q].at, "replica")
    /\ job' = [job EXCEPT ![q].route = "fallback"]
    /\ readPrimary(q, job[q].at, "fallback")
    /\ UNCHANGED <<situation, database, local, shared, probe, result, history>>

(* Replay of the log cancels the query on the replica: primary fallback.    *)
Conflict(q) ==
    /\ "conflict" \in Faults
    /\ pc[q] \in {"replica", "degraded"}
    /\ \/ /\ pc[q] = "replica"
          /\ job' = [job EXCEPT ![q].route = "fallback"]
          /\ readPrimary(q, job[q].at, "fallback")
       \/ /\ pc[q] = "degraded"
          /\ Go(q, "500")
          /\ UNCHANGED job
    /\ UNCHANGED <<situation, database, healthy, local, shared, probe, result, history>>

(* P2024 is not a failure of the node: the error goes through.              *)
Overload(q) ==
    /\ "overload" \in Faults
    /\ pc[q] \in {"commit", "primary", "replica", "degraded"}
    /\ Go(q, "500")
    /\ UNCHANGED <<situation, database, healthy, local, shared, probe, job, result, history>>

-----------------------------------------------------------------------------
(* checkHealth(): both nodes are asked; while a probe is under way, no      *)
(* other one is started.                                                    *)
Probe(i) ==
    /\ \A n \in Node : probe[i][n] = "none"
    /\ probe' = [probe EXCEPT ![i] = [n \in Node |-> "sent"]]
    /\ UNCHANGED <<situation, database, healthy, local, shared, pc, job, result, history>>

(* SELECT 1 is answered or refused by the node.                             *)
Answer(i, n) ==
    /\ probe[i][n] = "sent"
    /\ probe' = [probe EXCEPT ![i][n] = IF n \in up THEN "alive" ELSE "dead"]
    /\ UNCHANGED <<situation, database, healthy, local, shared, pc, job, result, history>>

\* Mutant: a node that was taken out stays out.
ProbedDownOnly(i, n) ==
    /\ probe[i][n] \in {"alive", "dead"}
    /\ probe' = [probe EXCEPT ![i][n] = "none"]
    /\ healthy' = [healthy EXCEPT ![i] = IF probe[i][n] = "dead" THEN @ \ {n} ELSE @]
    /\ UNCHANGED <<situation, database, local, shared, pc, job, result, history>>

(* markUp() or markDown(), by an answer that may be out of date by now.     *)
Probed(i, n) ==
    /\ \/ probe[i][n] = "alive" /\ healthy' = [healthy EXCEPT ![i] = @ \cup {n}]
       \/ probe[i][n] = "dead" /\ markDown(i, n)
    /\ probe' = [probe EXCEPT ![i][n] = "none"]
    /\ UNCHANGED <<situation, database, local, shared, pc, job, result, history>>

(* A probe that waits for a connection in vain changes no flag.             *)
ProbeOverload(i, n) ==
    /\ "overload" \in Faults
    /\ probe[i][n] = "sent"
    /\ probe' = [probe EXCEPT ![i][n] = "none"]
    /\ UNCHANGED <<situation, database, healthy, local, shared, pc, job, result, history>>

-----------------------------------------------------------------------------
(* The replica replays a commit.                                            *)
Replicate ==
    /\ replica < primary
    /\ replica' = replica + 1
    /\ UNCHANGED <<situation, primary, up, healthy, local, shared, probe, pc, job, result, history>>

NodeChanges(n) ==
    /\ up' = IF n \in up THEN up \ {n} ELSE up \cup {n}
    /\ UNCHANGED <<situation, primary, replica, healthy, local, shared, probe, pc, job,
                   result, history>>

(* The TTL of a flag ends.  It is chosen longer than the replication lag    *)
(* (docs/LAB6.md:199): what was committed when the flag was set has been    *)
(* replayed by then.                                                        *)
ForgetLocal(i, s) ==
    /\ 0 < local[i][s] /\ local[i][s] <= replica
    /\ local' = [local EXCEPT ![i][s] = 0]
    /\ UNCHANGED <<situation, database, healthy, shared, probe, pc, job, result, history>>

Expire(s) ==
    /\ 0 < shared[s] /\ shared[s] <= replica
    /\ shared' = [shared EXCEPT ![s] = 0]
    /\ UNCHANGED <<situation, database, healthy, local, probe, pc, job, result, history>>

(* Redis evicts the flag or restarts without it.  The instances that wrote  *)
(* for the session and have no flag of their own any more wrote what has    *)
(* been replayed.                                                           *)
Lose(s) ==
    /\ "redis" \in Faults
    /\ shared[s] > 0
    /\ shared' = [shared EXCEPT ![s] = 0]
    /\ missing' = missing \cup {<<s, i>> : i \in {j \in Instance : local[j][s] > 0}}
    /\ UNCHANGED <<situation, database, healthy, local, probe, pc, job, result, acked, need, blind>>

Finished == {"200", "500", "503"}

Rest ==
    /\ \A q \in Present(Request) : pc[q] \in Finished
    /\ UNCHANGED vars

-----------------------------------------------------------------------------
Arrival(q) ==
    \E i \in Instance, s \in Session :
        Write(q, i, s) \/ \E op \in Consistency : Read(q, i, s, op)

Progress(q) ==
    \/ Commit(q) \/ Remember(q) \/ SetFlag(q) \/ WriteFailed(q)
    \/ Ask(q) \/ Query(q) \/ PrimaryFailed(q) \/ ReplicaFailed(q)

Next ==
    \/ \E q \in Present(Request) : Arrival(q) \/ Progress(q) \/ Conflict(q) \/ Overload(q)
    \/ \E i \in Instance :
          Probe(i) \/ \E n \in Node : Answer(i, n) \/ Probed(i, n) \/ ProbeOverload(i, n)
    \/ \E n \in situation.unsteady \cap Node : NodeChanges(n)
    \/ \E i \in Instance, s \in Session : ForgetLocal(i, s)
    \/ \E s \in Session : Expire(s) \/ Lose(s)
    \/ Replicate \/ Rest

Spec == Init /\ [][Next]_vars

-----------------------------------------------------------------------------
(* Type invariant; the replica never has what the primary has not.          *)
TypeOK ==
    /\ situation \in Situations
    /\ primary \in Nat
    /\ replica \in 0 .. primary
    /\ up \subseteq Node
    /\ healthy \in [Instance -> SUBSET Node]
    /\ local \in [Instance -> [Session -> 0 .. primary]]
    /\ shared \in [Session -> 0 .. primary]
    /\ probe \in [Instance -> [Node -> {"none", "sent", "alive", "dead"}]]
    /\ pc \in [Request -> {"idle", "commit", "committed", "flag", "ask", "primary",
                           "replica", "degraded", "unreachable", "no replica"}
                          \cup Finished]
    /\ job \in [Request -> Job \cup {NoJob}]
    /\ result \in [Request -> 0 .. primary]
    /\ acked \in [Session -> 0 .. primary]
    /\ need \in [Request -> [Session -> 0 .. primary]]
    /\ missing \subseteq Session \X Instance
    /\ blind \subseteq Request

Returned(q) == pc[q] = "200" /\ job[q].op \in Consistency

(* A session's read shows the writes the session had an answer for when the *)
(* read began, whichever instances served them: unless Redis lost the flag  *)
(* that another instance had left, or the primary could not be reached and  *)
(* the replica was asked instead.                                           *)
ReadsOwnWrites ==
    \A q \in Request :
        Returned(q) /\ result[q] < need[q][job[q].session] =>
            q \in blind \/ job[q].route = "degraded"

(* A strong read shows every write anyone had an answer for when it began,  *)
(* or is refused: it is never answered by the replica.                      *)
StrongIsCurrent ==
    \A q \in Request :
        Returned(q) /\ job[q].op = "strong" =>
            \A s \in Session : result[q] >= need[q][s]

\* The fairness these two need is stated in Health.

(* However late errors of queries and answers of probes come in, a node     *)
(* that stays up, or down, is in the end taken for what it is by every      *)
(* instance: read-only mode does not outlive the outage.                    *)
FlagsFollow ==
    \A i \in Instance, n \in Node :
        /\ <>[](n \in up) => <>[](n \in healthy[i])
        /\ <>[](n \notin up) => <>[](n \notin healthy[i])

(* Fallback and degradation come to an end: every request is answered.      *)
RequestsAreAnswered ==
    \A q \in Request : pc[q] # "idle" ~> pc[q] \in Finished
=============================================================================
