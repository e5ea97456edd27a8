---------------------------- MODULE SearchCache -----------------------------
(***************************************************************************)
(* GET /rooms/search: RoomsService.searchCached() over CacheService, with  *)
(* the fan-out of ShardRouter as both loaders, against the writers that    *)
(* change availability and then raise the search version.                  *)
(*                                                                         *)
(* One search key (city, dates, guests) is modelled; the rows of a shard   *)
(* that the search depends on are abstracted to a version number.          *)
(*                                                                         *)
(* With SHARD_URLS every shard is one PostgreSQL, and the consistency the  *)
(* loaders ask for is ignored.  Without it the only shard is the global    *)
(* node: a primary and an asynchronous replica, between which DbRouter     *)
(* chooses by that consistency.                                            *)
(***************************************************************************)
EXTENDS Integers

CONSTANTS
    Reader,    \* searches, each runs once
    Writer,    \* mutations of bookings, rooms or hotels, each runs once
    Shard,     \* the physical shards of SHARD_URLS
    Faults     \* see Fault

(***************************************************************************)
(* "get", "set", "bump": the Redis command fails or Redis is not ready,    *)
(* CacheService swallows it; "flush": Redis restarts empty; "evict": it    *)
(* evicts the version key (allkeys-lru); "shard": a shard, or the primary  *)
(* of the global node, goes down or up; "overload": a query gets no        *)
(* connection in time (P2024).                                             *)
(***************************************************************************)
Fault == {"get", "set", "bump", "flush", "evict", "shard", "overload"}

\* The shard of a deployment without SHARD_URLS.
GlobalNode == "global"

Node == Shard \cup {GlobalNode}

ASSUME SearchAssumption ==
    /\ Shard # {}
    /\ GlobalNode \notin Shard
    /\ Faults \subseteq Fault

VARIABLES
    shards,     \* the shards of the deployment, chosen once
    data,       \* version of the rows of each shard (on its primary)
    replica,    \* version the replica has replayed
    up,         \* shards whose primary answers
    failed,     \* shards whose primary has not answered at some time
    version,    \* booking:rooms:search:version (a missing key reads as 0)
    cache,      \* the search entries present: version in the key -> result
    pc, key, part, lost,  \* readers: step, version read, answers of shards, failed shards
    reply,      \* readers: X-Cache header and result
    wrote,      \* writers: 0, or the shard and version they wrote
    wpc,        \* writers: step
    guessed,    \* history: readers that took 0 for another version
    rolled,     \* history: the version key was lost at some time
    announced,  \* history: data version of each shard covered by a bump
    mark,       \* history: what was announced when the version became k
    floor       \* history: what was announced when a search started

vars == <<shards, data, replica, up, failed, version, cache, pc, key, part, lost, reply,
          wrote, wpc, guessed, rolled, announced, mark, floor>>

databases == <<shards, data, replica, up, failed>>
readers == <<pc, key, part, lost, reply, guessed, floor>>
writers == <<wrote, wpc>>

\* What a shard answers, and the node that does.
Part == [version : Nat, from : {"primary", "replica"}]

\* A result is what the shards that answered had; Nothing answers nothing.
Nothing == [s \in {} |-> 0]
Zero == [s \in Node |-> 0]
NoWrite == [shard |-> GlobalNode, version |-> 0]

Replicated == shards = {GlobalNode}

Init ==
    /\ shards \in {Shard, {GlobalNode}}
    /\ data = Zero
    /\ replica = Zero
    /\ up = Node
    /\ failed = {}
    /\ version = 0
    /\ cache = [k \in {} |-> Nothing]
    /\ pc = [r \in Reader |-> "idle"]
    /\ key = [r \in Reader |-> 0]
    /\ part = [r \in Reader |-> Nothing]
    /\ lost = [r \in Reader |-> {}]
    /\ reply = [r \in Reader |-> [cache |-> "none", data |-> Nothing]]
    /\ wrote = [w \in Writer |-> NoWrite]
    /\ wpc = [w \in Writer |-> "idle"]
    /\ guessed = [r \in Reader |-> FALSE]
    /\ rolled = FALSE
    /\ announced = Zero
    /\ mark = [k \in {0} |-> Zero]
    /\ floor = [r \in Reader |-> Zero]

-----------------------------------------------------------------------------
(* searchCached(): the version is read first and becomes part of the key.   *)
GetVersion(r) ==
    /\ pc[r] = "idle"
    /\ \/ key' = [key EXCEPT ![r] = version] /\ UNCHANGED guessed
       \/ /\ "get" \in Faults
          /\ key' = [key EXCEPT ![r] = 0]
          /\ guessed' = [guessed EXCEPT ![r] = version # 0]
    /\ floor' = [floor EXCEPT ![r] = announced]
    /\ pc' = [pc EXCEPT ![r] = "lookup"]
    /\ UNCHANGED <<databases, version, cache, part, lost, reply, writers,
                   rolled, announced, mark>>

Respond(r, how, result) ==
    /\ pc' = [pc EXCEPT ![r] = "done"]
    /\ reply' = [reply EXCEPT ![r] = [cache |-> how, data |-> result]]

(* getOrSet(): GET of the key.                                              *)
Lookup(r) ==
    /\ pc[r] = "lookup"
    /\ \/ /\ key[r] \in DOMAIN cache
          /\ Respond(r, "HIT", cache[key[r]])
       \/ /\ key[r] \notin DOMAIN cache
          /\ pc' = [pc EXCEPT ![r] = "load"]
          /\ UNCHANGED reply
       \/ /\ "get" \in Faults
          /\ pc' = [pc EXCEPT ![r] = "bypass"]
          /\ UNCHANGED reply
    /\ UNCHANGED <<databases, version, cache, key, part, lost, floor, writers,
                   guessed, rolled, announced, mark>>

\* Mutant: one loader, the eventual one, fills the cache as well.
EventualAlways(r, s) == Replicated

(* DbRouter.read(): may the replica answer?  The eventual read of BYPASS is *)
(* sent to it, unless the session is sticky or the replica cannot be asked. *)
(* The read that fills the cache prefers the primary, and is degraded to    *)
(* the replica when the primary cannot be reached or is still marked down.  *)
MayAskReplica(r, s) == Replicated /\ (pc[r] = "bypass" \/ s \in failed)

(* A query fails: it does not reach the shard or gets no connection; of the *)
(* global node, both nodes may be marked down longer than they are.         *)
Fails(s) == s \notin up \/ "overload" \in Faults \/ (Replicated /\ s \in failed)

Unsettled(r, s) == pc[r] \in {"load", "bypass"} /\ s \notin DOMAIN part[r] \cup lost[r]

Answered(r, s) ==
    \E node \in {"primary", "replica"} :
       /\ IF node = "primary" THEN s \in up ELSE MayAskReplica(r, s)
       /\ part' = [part EXCEPT ![r] = [t \in DOMAIN @ \cup {s} |->
             IF t # s THEN @[t]
             ELSE [version |-> IF node = "primary" THEN data[s] ELSE replica[s],
                   from |-> node]]]

\* Mutant: the fan-out waits for every shard.
AskShardUntilUp(r, s) ==
    /\ Unsettled(r, s)
    /\ Answered(r, s)
    /\ UNCHANGED <<databases, version, cache, pc, key, lost, reply, floor,
                   writers, guessed, rolled, announced, mark>>

\* Mutant: a shard that failed is asked once more.
AskShardAgain(r, s) ==
    /\ pc[r] \in {"load", "bypass"}
    /\ s \notin DOMAIN part[r]
    /\ \/ Answered(r, s) /\ UNCHANGED lost
       \/ Fails(s) /\ lost' = [lost EXCEPT ![r] = @ \cup {s}] /\ UNCHANGED part
    /\ UNCHANGED <<databases, version, cache, pc, key, reply, floor, writers,
                   guessed, rolled, announced, mark>>

(* fanOut(): the shards are asked in parallel and answer one by one; a      *)
(* shard whose query fails is left out of the result (allowPartial).        *)
AskShard(r, s) ==
    /\ Unsettled(r, s)
    /\ \/ Answered(r, s) /\ UNCHANGED lost
       \/ Fails(s) /\ lost' = [lost EXCEPT ![r] = @ \cup {s}] /\ UNCHANGED part
    /\ UNCHANGED <<databases, version, cache, pc, key, reply, floor, writers,
                   guessed, rolled, announced, mark>>

Settled(r) == DOMAIN part[r] \cup lost[r] = shards

(* bypass(): Redis could not be asked, the result is not stored.            *)
Bypass(r) ==
    /\ pc[r] = "bypass"
    /\ Settled(r)
    /\ Respond(r, "BYPASS", part[r])
    /\ UNCHANGED <<databases, version, cache, key, part, lost, floor, writers,
                   guessed, rolled, announced, mark>>

\* Mutant: the key is built from the version of now, not the one read first.
StoreUnderCurrent(r) ==
    /\ pc[r] = "load"
    /\ Settled(r)
    /\ cache' = [k \in DOMAIN cache \cup {version} |->
                    IF k = version THEN part[r] ELSE cache[k]]
    /\ Respond(r, "MISS", part[r])
    /\ UNCHANGED <<databases, version, key, part, lost, floor, writers,
                   guessed, rolled, announced, mark>>

(* getOrSet(): SET of what the loader returned, whatever happened since.    *)
Store(r) ==
    /\ pc[r] = "load"
    /\ Settled(r)
    /\ \/ cache' = [k \in DOMAIN cache \cup {key[r]} |->
                       IF k = key[r] THEN part[r] ELSE cache[k]]
       \/ "set" \in Faults /\ UNCHANGED cache
    /\ Respond(r, "MISS", part[r])
    /\ UNCHANGED <<databases, version, key, part, lost, floor, writers,
                   guessed, rolled, announced, mark>>

-----------------------------------------------------------------------------
(* A mutation commits on the shard that holds its rows.                     *)
Write(w, s) ==
    /\ wpc[w] = "idle"
    /\ s \in up
    /\ data' = [data EXCEPT ![s] = @ + 1]
    /\ wrote' = [wrote EXCEPT ![w] = [shard |-> s, version |-> data[s] + 1]]
    /\ wpc' = [wpc EXCEPT ![w] = "bump"]
    /\ UNCHANGED <<shards, replica, up, failed, version, cache, readers, rolled, announced, mark>>

(* bumpVersion(): INCR, or nothing when Redis fails.                        *)
Bump(w) ==
    /\ wpc[w] = "bump"
    /\ wpc' = [wpc EXCEPT ![w] = "done"]
    /\ \/ /\ version' = version + 1
          /\ announced' = [announced EXCEPT ![wrote[w].shard] =
                IF @ < wrote[w].version THEN wrote[w].version ELSE @]
          /\ mark' = [k \in DOMAIN mark \cup {version + 1} |->
                         IF k = version + 1 THEN announced' ELSE mark[k]]
       \/ "bump" \in Faults /\ UNCHANGED <<version, announced, mark>>
    /\ UNCHANGED <<databases, cache, readers, wrote, rolled>>

-----------------------------------------------------------------------------
(* The TTL of an entry ends, or Redis evicts it.                            *)
Expire(k) ==
    /\ k \in DOMAIN cache
    /\ cache' = [j \in DOMAIN cache \ {k} |-> cache[j]]
    /\ UNCHANGED <<databases, version, readers, writers, rolled, announced, mark>>

(* Redis keeps nothing on disk.                                             *)
Flush ==
    /\ "flush" \in Faults
    /\ version' = 0
    /\ rolled' = (rolled \/ version > 0)
    /\ cache' = [k \in {} |-> Nothing]
    /\ UNCHANGED <<databases, readers, writers, announced, mark>>

EvictVersion ==
    /\ "evict" \in Faults
    /\ version > 0
    /\ version' = 0
    /\ rolled' = (rolled \/ version > 0)
    /\ UNCHANGED <<databases, cache, readers, writers, announced, mark>>

ShardChanges(s) ==
    /\ "shard" \in Faults
    /\ up' = IF s \in up THEN up \ {s} ELSE up \cup {s}
    /\ failed' = failed \cup (Node \ up')
    /\ UNCHANGED <<shards, data, replica, version, cache, readers, writers, rolled, announced, mark>>

(* The replica replays a commit.                                            *)
Replicate(s) ==
    /\ Replicated
    /\ replica[s] < data[s]
    /\ replica' = [replica EXCEPT ![s] = @ + 1]
    /\ UNCHANGED <<shards, data, up, failed, version, cache, readers, writers, rolled,
                   announced, mark>>

Rest ==
    /\ \A r \in Reader : pc[r] = "done"
    /\ \A w \in Writer : wpc[w] = "done"
    /\ UNCHANGED vars

Answering(r) ==
    \/ Lookup(r) \/ Bypass(r) \/ Store(r)
    \/ \E s \in shards : AskShard(r, s)

Next ==
    \/ \E r \in Reader : GetVersion(r) \/ Answering(r)
    \/ \E w \in Writer : Bump(w) \/ \E s \in shards : Write(w, s)
    \/ \E k \in DOMAIN cache : Expire(k)
    \/ \E s \in shards : ShardChanges(s) \/ Replicate(s)
    \/ Flush \/ EvictVersion \/ Rest

Spec == Init /\ [][Next]_vars

\* Redis commands and shard queries return or time out.
FairSpec == Spec /\ \A r \in Reader : WF_vars(Answering(r))

-----------------------------------------------------------------------------
IsResult(f) == DOMAIN f \subseteq shards /\ f \in [DOMAIN f -> Part]

(* Type invariant.  A shard settles a search in one way only: its answer is *)
(* in the result or it is among those that did not answer.  The replica is  *)
(* never ahead of the primary.                                              *)
TypeOK ==
    /\ shards \in {Shard, {GlobalNode}}
    /\ data \in [Node -> Nat]
    /\ replica \in [Node -> Nat] /\ \A s \in Node : replica[s] <= data[s]
    /\ up \subseteq Node
    /\ failed \subseteq Node /\ Node \ up \subseteq failed
    /\ version \in Nat
    /\ DOMAIN cache \subseteq Nat /\ \A k \in DOMAIN cache : IsResult(cache[k])
    /\ pc \in [Reader -> {"idle", "lookup", "load", "bypass", "done"}]
    /\ key \in [Reader -> Nat]
    /\ \A r \in Reader :
          /\ IsResult(part[r])
          /\ lost[r] \subseteq shards \ DOMAIN part[r]
          /\ reply[r].cache \in {"none", "HIT", "MISS", "BYPASS"}
          /\ IsResult(reply[r].data)
    /\ wrote \in [Writer -> [shard : Node, version : Nat]]
    /\ wpc \in [Writer -> {"idle", "bump", "done"}]
    /\ guessed \in [Reader -> BOOLEAN]
    /\ rolled \in BOOLEAN
    /\ announced \in [Node -> Nat]
    /\ DOMAIN mark \subseteq Nat /\ \A k \in DOMAIN mark : mark[k] \in [Node -> Nat]
    /\ floor \in [Reader -> [Node -> Nat]]

(* A search that starts after a mutation has raised the version does not    *)
(* show a shard as it was before that mutation, whether it is answered from *)
(* Redis or from the shards, whatever fills were under way, shards were     *)
(* down or SET and INCR were lost: unless the version key itself was lost,  *)
(* or getVersion() answered 0 for it because Redis failed.  Without         *)
(* SHARD_URLS a replica that lags may be shown too, but only by a BYPASS    *)
(* (rooms.service.ts:85), or after the primary has failed: otherwise the    *)
(* cache is never filled from it (cache.service.ts:84-85).                  *)
SearchIsFresh ==
    rolled \/ \A r \in Reader :
        ~guessed[r] =>
            \A s \in DOMAIN reply[r].data :
                \/ reply[r].data[s].version >= floor[r][s]
                \/ /\ reply[r].data[s].from = "replica"
                   /\ reply[r].cache = "BYPASS" \/ s \in failed

(* Failures of Redis and outages of shards, however long, never keep a      *)
(* search from being answered: the cache is bypassed and shards that do not *)
(* answer are left out.                                                     *)
SearchIsAnswered == \A r \in Reader : pc[r] # "idle" ~> pc[r] = "done"
=============================================================================
