------------------------------- MODULE Health -------------------------------
(***************************************************************************)
(* What the API says of its databases: the health flags of the shards      *)
(* (ShardRouter), the answer of /health (HealthController), which makes    *)
(* Kubernetes send traffic or not, and the lag of /replication/status      *)
(* (ReplicationService), together with the flags of the nodes and the      *)
(* probes of DbRouter, which this module extends.                          *)
(***************************************************************************)
EXTENDS DbRouter

CONSTANTS
    Shard,
    Statement,      \* statements sent to one shard, each once
    Kubelet,    \* those who ask /health again and again
    Status      \* requests of /replication/status, each served once

Client == Request \cup Statement \cup Kubelet \cup Status

ASSUME HealthAssumption ==
    /\ Situations \subseteq [present : SUBSET Client, unsteady : SUBSET (Node \cup Shard)]
    /\ "nodes" \notin Shard

VARIABLES
    shardUp,       \* shards that answer
    shardHealthy,  \* instances: shards they take for healthy
    query,         \* [step, at, shard]
    gone,          \* history: queries during which their shard was down
    report,        \* the status last given, or what the answer is waiting for
    check,         \* reports: SELECT 1 to each shard
    reading,       \* requests of the status: how far they are with each node
    position,      \* likewise: the positions they have read
    begun          \* history: the writes committed when such a request began

shards == <<shardUp, shardHealthy>>
healthVars == <<shards, query, gone, report, check, reading, position, begun>>
allVars == <<vars, healthVars>>

Unasked == [n \in Node |-> "unasked"]

HealthInit ==
    /\ Init
    /\ shardUp = Shard
    /\ shardHealthy = [i \in Instance |-> Shard]
    /\ query = [q \in Statement |-> [step |-> "idle"]]
    /\ gone = {}
    /\ report = [k \in Kubelet |-> [status |-> "none"]]
    /\ check = [k \in Kubelet |-> [s \in Shard |-> "none"]]
    /\ reading = [w \in Status |-> Unasked]
    /\ position = [w \in Status |-> [n \in Node |-> 0]]
    /\ begun = [w \in Status |-> 0]

-----------------------------------------------------------------------------
markUpShard(i, s) == shardHealthy' = [shardHealthy EXCEPT ![i] = @ \cup {s}]

markDownShard(i, s) == shardHealthy' = [shardHealthy EXCEPT ![i] = @ \ {s}]

\* Mutant: a shard that is marked down is not asked, like the primary in write().
AskHealthyShard(q, i, s) ==
    /\ query[q].step = "idle"
    /\ query' = [query EXCEPT ![q] =
          [step |-> IF s \in shardHealthy[i] THEN "sent" ELSE "503", at |-> i, shard |-> s]]
    /\ gone' = IF s \in shardUp THEN gone ELSE gone \cup {q}
    /\ UNCHANGED <<vars, shards, report, check, reading, position, begun>>

(* physicalShard(): a statement is sent whatever the flag says.             *)
AskShard(q, i, s) ==
    /\ query[q].step = "idle"
    /\ query' = [query EXCEPT ![q] = [step |-> "sent", at |-> i, shard |-> s]]
    /\ gone' = IF s \in shardUp THEN gone ELSE gone \cup {q}
    /\ UNCHANGED <<vars, shards, report, check, reading, position, begun>>

(* The shard answers or cannot be reached; any other error, P2024 for one,  *)
(* is passed on.                                                            *)
ShardAnswers(q) ==
    /\ query[q].step = "sent"
    /\ query' = [query EXCEPT ![q].step =
                    IF query[q].shard \in shardUp THEN "result" ELSE "unreachable"]
    /\ UNCHANGED <<vars, shards, gone, report, check, reading, position, begun>>

ShardOverload(q) ==
    /\ "overload" \in Faults
    /\ query[q].step = "sent"
    /\ query' = [query EXCEPT ![q].step = "500"]
    /\ UNCHANGED <<vars, shards, gone, report, check, reading, position, begun>>

(* The result, or the error, reaches run().                                 *)
ShardServed(q) ==
    /\ \/ /\ query[q].step = "result"
          /\ markUpShard(query[q].at, query[q].shard)
          /\ query' = [query EXCEPT ![q].step = "200"]
       \/ /\ query[q].step = "unreachable"
          /\ markDownShard(query[q].at, query[q].shard)
          /\ query' = [query EXCEPT ![q].step = "503"]
    /\ UNCHANGED <<vars, shardUp, gone, report, check, reading, position, begun>>

-----------------------------------------------------------------------------
Asking(k) == report[k].status = "asked"

(* GET /health: the probes of the nodes, unless they are under way, and a   *)
(* check of every shard, whatever other reports do.                         *)
AskHealth(k, i) ==
    /\ ~Asking(k)
    /\ report' = [report EXCEPT ![k] = [status |-> "asked", at |-> i, nodes |-> {},
                                        ailing |-> FALSE, waits |-> {"nodes"} \cup Shard]]
    /\ check' = [check EXCEPT ![k] = [s \in Shard |-> "sent"]]
    /\ \/ Probe(i)
       \/ (\E n \in Node : probe[i][n] # "none") /\ UNCHANGED vars
    /\ UNCHANGED <<shards, query, gone, reading, position, begun>>

\* Mutant: without the primary the service is down, as it was before the replica.
VerdictOfPrimary(nodes, ailing) ==
    IF "primary" \notin nodes THEN "DOWN"
    ELSE IF nodes = Node /\ ~ailing THEN "UP" ELSE "DEGRADED"

(* The status, from the flags of the nodes and whether a shard is flagged:  *)
(* without a shard the service is only degraded.                            *)
Verdict(nodes, ailing) ==
    IF nodes = {} THEN "DOWN"
    ELSE IF nodes = Node /\ ~ailing THEN "UP" ELSE "DEGRADED"

(* One part of the report is settled; the last one lets it be answered.     *)
Settle(k, part, nodes, ailing) ==
    LET waits == report[k].waits \ {part}
    IN  report' = [report EXCEPT ![k] =
           IF waits = {} THEN [status |-> Verdict(nodes, ailing)]
           ELSE [@ EXCEPT !.waits = waits, !.nodes = nodes, !.ailing = ailing]]

(* The probes are through, or HEALTH_WAIT_MS have passed: the flags of the  *)
(* nodes are copied, while the shards may still be asked.                   *)
ReadNodes(k) ==
    /\ Asking(k)
    /\ "nodes" \in report[k].waits
    /\ Settle(k, "nodes", healthy[report[k].at], report[k].ailing)
    /\ UNCHANGED <<vars, shards, query, gone, check, reading, position, begun>>

CheckAnswered(k, s) ==
    /\ check[k][s] = "sent"
    /\ check' = [check EXCEPT ![k][s] = IF s \in shardUp THEN "alive" ELSE "dead"]
    /\ UNCHANGED <<vars, shards, query, gone, report, reading, position, begun>>

(* The check of a shard is over; after the last one the flags are copied.   *)
ShardSettles(k, s) ==
    /\ check' = [check EXCEPT ![k][s] = "none"]
    /\ Settle(k, s, report[k].nodes,
              report[k].waits \cap Shard = {s} /\ (shardHealthy')[report[k].at] # Shard)
    /\ UNCHANGED <<vars, shardUp, query, gone, reading, position, begun>>

ShardChecked(k, s) ==
    /\ \/ check[k][s] = "alive" /\ markUpShard(report[k].at, s)
       \/ check[k][s] = "dead" /\ markDownShard(report[k].at, s)
    /\ ShardSettles(k, s)

\* Mutant: a check goes on after its report was answered.
TimesOutAlone(k, s) ==
    /\ check[k][s] = "sent"
    /\ Settle(k, s, report[k].nodes, FALSE)
    /\ UNCHANGED <<vars, shards, query, gone, check, reading, position, begun>>

(* No answer in 1500 ms, or an error that is none of the connection: the    *)
(* flag stays as it is, and an answer that comes later is ignored.          *)
CheckTimesOut(k, s) ==
    /\ check[k][s] = "sent"
    /\ UNCHANGED shardHealthy
    /\ ShardSettles(k, s)

-----------------------------------------------------------------------------
(* GET /replication/status: the positions in the log are read from both     *)
(* nodes at once, past the flags.                                           *)
AskStatus(w) ==
    /\ reading[w] = Unasked
    /\ reading' = [reading EXCEPT ![w] = [n \in Node |-> "asked"]]
    /\ begun' = [begun EXCEPT ![w] = primary]
    /\ UNCHANGED <<vars, shards, query, gone, report, check, position>>

(* A node that does not answer is reported as not reachable.                *)
ReadPosition(w, n) ==
    /\ reading[w][n] = "asked"
    /\ \/ /\ n \in up
          /\ reading' = [reading EXCEPT ![w][n] = "read"]
          /\ position' = [position EXCEPT ![w][n] = IF n = "primary" THEN primary ELSE replica]
       \/ /\ n \notin up \/ "overload" \in Faults
          /\ reading' = [reading EXCEPT ![w][n] = "unreachable"]
          /\ UNCHANGED position
    /\ UNCHANGED <<vars, shards, query, gone, report, check, begun>>

Excess(w) ==
    IF position[w]["primary"] > position[w]["replica"]
    THEN position[w]["primary"] - position[w]["replica"] ELSE 0

\* Mutant: the position of a node that is not reachable counts as 0.
behindOrZero(w) == Excess(w)

(* behindBytes, once both nodes have been asked.                            *)
\* -1: unknown.
behind(w) == IF reading[w] = [n \in Node |-> "read"] THEN Excess(w) ELSE -1

StatusGiven(w) == \A n \in Node : reading[w][n] \in {"read", "unreachable"}

caughtUp(w) == StatusGiven(w) /\ behind(w) = 0

-----------------------------------------------------------------------------
ShardChanges(s) ==
    /\ shardUp' = IF s \in shardUp THEN shardUp \ {s} ELSE shardUp \cup {s}
    /\ gone' = gone \cup {q \in Statement : /\ query[q].step = "sent"
                                        /\ query[q].shard \notin shardUp'}
    /\ UNCHANGED <<vars, shardHealthy, query, report, check, reading, position, begun>>

(* The steps of DbRouter, of those who are present.                         *)
RouterStep ==
    \/ \E q \in Present(Request) : Arrival(q) \/ Progress(q) \/ Conflict(q) \/ Overload(q)
    \/ \E i \in Instance :
          Probe(i) \/ \E n \in Node : Answer(i, n) \/ Probed(i, n) \/ ProbeOverload(i, n)
    \/ \E n \in situation.unsteady \cap Node : NodeChanges(n)
    \/ \E i \in Instance, s \in Session : ForgetLocal(i, s)
    \/ \E s \in Session : Expire(s) \/ Lose(s)
    \/ Replicate

HealthNext ==
    \/ RouterStep /\ UNCHANGED healthVars
    \/ \E q \in Present(Statement) :
          \/ \E i \in Instance, s \in Shard : AskShard(q, i, s)
          \/ ShardAnswers(q) \/ ShardOverload(q) \/ ShardServed(q)
    \/ \E k \in Present(Kubelet) :
          \/ \E i \in Instance : AskHealth(k, i)
          \/ ReadNodes(k)
          \/ \E s \in Shard : CheckAnswered(k, s) \/ ShardChecked(k, s) \/ CheckTimesOut(k, s)
    \/ \E w \in Present(Status) : AskStatus(w) \/ \E n \in Node : ReadPosition(w, n)
    \/ \E s \in situation.unsteady \cap Shard : ShardChanges(s)

HealthSpec == HealthInit /\ [][HealthNext]_allVars

\* As in DbRouter; /health is asked by a timer, and of the checks of a shard
\* some are answered in time.
FairHealth ==
    /\ HealthSpec
    /\ \A q \in Request : WF_allVars(q \in situation.present /\ Progress(q) /\ UNCHANGED healthVars)
    /\ \A i \in Instance :
          /\ WF_allVars(Probe(i) /\ UNCHANGED healthVars)
          /\ \A n \in Node : /\ SF_allVars(Answer(i, n) /\ UNCHANGED healthVars)
                             /\ WF_allVars(Probed(i, n) /\ UNCHANGED healthVars)
    /\ \A k \in Kubelet :
          /\ WF_allVars(k \in situation.present /\ \E i \in Instance : AskHealth(k, i))
          /\ WF_allVars(ReadNodes(k))
          /\ \A s \in Shard : SF_allVars(CheckAnswered(k, s)) /\ WF_allVars(ShardChecked(k, s))

-----------------------------------------------------------------------------
(* Type invariant.  A report waits for a shard as long as its check is out. *)
HealthOK ==
    /\ TypeOK
    /\ shardUp \subseteq Shard
    /\ shardHealthy \in [Instance -> SUBSET Shard]
    /\ \A q \in Statement :
          \/ query[q] = [step |-> "idle"]
          \/ query[q] \in [step : {"sent", "result", "unreachable", "200", "500", "503"},
                           at : Instance, shard : Shard]
    /\ gone \subseteq Statement
    /\ \A k \in Kubelet :
          \/ /\ report[k] \in [status : {"none", "UP", "DEGRADED", "DOWN"}]
             /\ check[k] = [s \in Shard |-> "none"]
          \/ /\ report[k] \in [status : {"asked"}, at : Instance, nodes : SUBSET Node,
                               ailing : BOOLEAN, waits : SUBSET ({"nodes"} \cup Shard)]
             /\ check[k] \in [Shard -> {"none", "sent", "alive", "dead"}]
             /\ report[k].waits \cap Shard = {s \in Shard : check[k][s] # "none"}
    /\ reading \in [Status -> [Node -> {"unasked", "asked", "read", "unreachable"}]]
    /\ position \in [Status -> [Node -> 0 .. primary]]
    /\ begun \in [Status -> 0 .. primary]

(* Faults stay where they are (docs/LAB7.md:190): a statement is refused    *)
(* with "Shard Unavailable" only if its shard was down while it ran.  What  *)
(* is said of the shard's health, by a check that is out of date or by the  *)
(* error of another statement, never decides it.                            *)
RefusedShardWasDown == \A q \in Statement : query[q].step = "503" => q \in gone

(* caughtUp says that the replica has everything that was committed when    *)
(* the status was asked for, although the nodes are read at different       *)
(* moments and either may fail to answer (replication.service.ts:29-38).    *)
CaughtUpIsTrue == \A w \in Status : caughtUp(w) => replica >= begun[w]

(* /health is the readiness probe: an instance gets no requests while it    *)
(* says DOWN.  Whatever late errors, answers that are out of date, reports  *)
(* that overlap and timeouts come in between, it stops saying DOWN when one *)
(* node stays up and says UP when everything does; and when both nodes stay *)
(* down it says so.                                                         *)
ReadinessFollows ==
    \A k \in Kubelet :
       /\ \A n \in Node : <>[](n \in up) => <>[](report[k].status # "DOWN")
       /\ <>[](up = Node /\ shardUp = Shard) => <>[](report[k].status # "DEGRADED")
       /\ <>[](up = {}) => <>[](report[k].status \notin {"UP", "DEGRADED"})
=============================================================================
