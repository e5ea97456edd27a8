------------------------- MODULE SearchCacheProofs --------------------------
(***************************************************************************)
(* What holds of SearchCache for every number of searches, mutations and   *)
(* shards and every choice of faults, with SHARD_URLS and without: a       *)
(* search never shows less than what had been announced when it began, as  *)
(* long as the version is not lost, but for what a replica answers to a    *)
(* BYPASS or after the primary has failed.                                 *)
(***************************************************************************)
EXTENDS SearchCache, TLAPS

-----------------------------------------------------------------------------
(* The functions have their domains and their values are numbers.           *)
Tables ==
    /\ shards \subseteq Node
    /\ data \in [Node -> Nat]
    /\ replica \in [Node -> Nat]
    /\ failed \subseteq Node
    /\ announced \in [Node -> Nat]
    /\ version \in Nat
    /\ wrote \in [Writer -> [shard : Node, version : Nat]]
    /\ floor \in [Reader -> [Node -> Nat]]
    /\ key \in [Reader -> Nat]
    /\ DOMAIN pc = Reader /\ DOMAIN part = Reader /\ DOMAIN reply = Reader
    /\ DOMAIN guessed = Reader

(* A result in which no shard is as it was before the bound, but for those  *)
(* whose replica is forgiven to lag.                                        *)
Shows(result, bound, forgiven) ==
    /\ DOMAIN result \subseteq Node
    /\ \A s \in DOMAIN result :
          /\ result[s] \in Part
          /\ \/ result[s].version >= bound[s]
             \/ result[s].from = "replica" /\ s \in forgiven

\* A BYPASS may show any replica, other searches one of a primary that failed.
Forgiven(r) == IF pc[r] = "bypass" \/ reply[r].cache = "BYPASS" THEN Node ELSE failed

(* What a mutation announces it has written, so the shards are ahead of     *)
(* what is announced.                                                       *)
Ahead ==
    /\ \A w \in Writer : wrote[w].version <= data[wrote[w].shard]
    /\ \A s \in Node : announced[s] <= data[s]

(* The versions so far, up to the one of now, and what they announced.      *)
Versions ==
    /\ DOMAIN mark = 0 .. version
    /\ mark[version] = announced
    /\ \A k \in 0 .. version :
          /\ mark[k] \in [Node -> Nat]
          /\ \A s \in Node : mark[k][s] <= announced[s]

(* An entry shows no less than what the version in its key announced.       *)
Entries ==
    \A k \in DOMAIN cache : k \in 0 .. version /\ Shows(cache[k], mark[k], failed)

(* A search under way has the key of a version that announced no less than  *)
(* what the search must show, and has been answered no less than either.    *)
Searching(r) ==
    /\ Shows(part[r], floor[r], Forgiven(r))
    /\ \A s \in Node : floor[r][s] <= announced[s]
    /\ pc[r] = "idle" => part[r] = Nothing
    /\ pc[r] # "done" => reply[r].data = Nothing /\ reply[r].cache # "BYPASS"
    /\ pc[r] \in {"lookup", "load", "bypass"} =>
          /\ key[r] \in 0 .. version
          /\ Shows(part[r], mark[key[r]], Forgiven(r))
          /\ ~guessed[r] => \A s \in Node : floor[r][s] <= mark[key[r]][s]
    /\ ~guessed[r] => Shows(reply[r].data, floor[r], Forgiven(r))

Sound == Versions /\ Entries /\ \A r \in Reader : Searching(r)

IInv == Tables /\ Ahead /\ (rolled \/ Sound)

-----------------------------------------------------------------------------
(* What the steps have in common.                                           *)

\* More may be forgiven.
LEMMA ShowsMore ==
    ASSUME NEW result, NEW bound, NEW few, NEW many, few \subseteq many,
           Shows(result, bound, few)
    PROVE  Shows(result, bound, many)
BY DEF Shows

\* More may be announced while a search is under way, under new versions.
LEMMA OthersSearch ==
    ASSUME Tables, Tables', Sound, NEW r \in Reader, Versions',
           version <= version', \A k \in 0 .. version : mark'[k] = mark[k],
           \A s \in Node : announced[s] <= announced'[s],
           failed \subseteq failed',
           pc'[r] = pc[r], key'[r] = key[r], part'[r] = part[r],
           reply'[r] = reply[r], guessed'[r] = guessed[r], floor'[r] = floor[r]
    PROVE  Searching(r)'
<1>1. Searching(r)
  BY DEF Sound
<1>2. \A s \in Node : floor'[r][s] <= announced'[s]
  <2> SUFFICES ASSUME NEW s \in Node PROVE floor'[r][s] <= announced'[s]
    OBVIOUS
  <2>1. floor[r][s] \in Nat /\ announced[s] \in Nat /\ announced'[s] \in Nat
    BY DEF Tables
  <2>2. floor[r][s] <= announced[s] /\ announced[s] <= announced'[s]
    BY <1>1 DEF Searching
  <2> QED
    BY <2>1, <2>2
<1>3. key[r] \in 0 .. version => key[r] \in 0 .. version' /\ mark'[key[r]] = mark[key[r]]
  BY DEF Tables
<1>4. Forgiven(r) \subseteq Forgiven(r)'
  BY DEF Forgiven
<1>5. /\ Shows(part[r], floor[r], Forgiven(r)')
      /\ ~guessed[r] => Shows(reply[r].data, floor[r], Forgiven(r)')
      /\ pc[r] \in {"lookup", "load", "bypass"} =>
            Shows(part[r], mark[key[r]], Forgiven(r)')
  BY <1>1, <1>4, ShowsMore DEF Searching
<1> QED
  BY <1>1, <1>2, <1>3, <1>5 DEF Searching, Shows, Nothing

\* A step of one search changes the others only through the cache.
LEMMA SearchStep ==
    ASSUME Tables, Tables', Sound, NEW r \in Reader,
           UNCHANGED <<failed, version, announced, mark>>,
           \A o \in Reader \ {r} :
              /\ pc'[o] = pc[o] /\ key'[o] = key[o] /\ part'[o] = part[o]
              /\ reply'[o] = reply[o] /\ guessed'[o] = guessed[o] /\ floor'[o] = floor[o],
           Entries', Searching(r)'
    PROVE  Sound'
<1>1. Versions'
  BY DEF Sound, Versions
<1>2. ASSUME NEW o \in Reader \ {r} PROVE Searching(o)'
  BY <1>1, <1>2, OthersSearch DEF Tables
<1> QED
  BY <1>1, <1>2 DEF Sound

-----------------------------------------------------------------------------
(* Searches.                                                                *)

\* A search begins with the version of now, or with 0.
LEMMA GetVersionKeeps ==
    ASSUME IInv, NEW r \in Reader, GetVersion(r)
    PROVE  IInv'
<1>1. Tables'
  BY DEF IInv, Tables, GetVersion, writers, databases
<1>2. Ahead'
  BY DEF IInv, Ahead, GetVersion, writers, databases
<1>3. ASSUME Sound PROVE Sound'
  <2>1. Entries'
    BY <1>3 DEF Sound, Entries, GetVersion, databases
  <2>2. Searching(r)'
    <3>1. /\ pc[r] = "idle" /\ pc'[r] = "lookup" /\ part'[r] = part[r] /\ reply'[r] = reply[r]
          /\ reply[r].cache # "BYPASS" /\ failed' = failed
          /\ floor'[r] = announced
          /\ \/ key'[r] = version /\ guessed'[r] = guessed[r]
             \/ key'[r] = 0 /\ guessed'[r] = (version # 0)
          /\ UNCHANGED <<version, mark, announced>>
      BY <1>3 DEF GetVersion, IInv, Tables, databases, Sound, Searching
    <3>2. part[r] = Nothing /\ reply[r].data = Nothing
      BY <1>3, <3>1 DEF Sound, Searching
    <3>3. \A bound, forgiven : Shows(Nothing, bound, forgiven)
      BY DEF Shows, Nothing
    <3>4. key'[r] \in 0 .. version
      BY <3>1 DEF IInv, Tables
    <3>5. ~guessed'[r] => mark[key'[r]] = announced
      BY <1>3, <3>1 DEF Sound, Versions
    <3>6. \A s \in Node : announced[s] <= announced[s]
      BY DEF IInv, Tables
    <3> QED
      BY <3>1, <3>2, <3>3, <3>4, <3>5, <3>6 DEF Searching
  <2> QED
    BY <1>1, <1>3, <2>1, <2>2, SearchStep DEF IInv, Tables, GetVersion, databases
<1> QED
  BY <1>1, <1>2, <1>3 DEF IInv, GetVersion

\* A hit shows an entry of the version the search has read.
LEMMA LookupKeeps ==
    ASSUME IInv, NEW r \in Reader, Lookup(r)
    PROVE  IInv'
<1>1. Tables'
  BY DEF IInv, Tables, Lookup, Respond, writers, databases
<1>2. Ahead'
  BY DEF IInv, Ahead, Lookup, writers, databases
<1>3. ASSUME Sound PROVE Sound'
  <2>1. Entries'
    BY <1>3 DEF Sound, Entries, Lookup, databases
  <2>2. Searching(r)'
    <3>1. Searching(r) /\ pc[r] = "lookup"
      BY <1>3 DEF Sound, Lookup
    <3>2. CASE /\ key[r] \in DOMAIN cache
               /\ Respond(r, "HIT", cache[key[r]])
      <4>1. Shows(cache[key[r]], mark[key[r]], failed) /\ key[r] \in 0 .. version
        BY <1>3, <3>2 DEF Sound, Entries
      <4>2. ~guessed[r] => Shows(cache[key[r]], floor[r], failed)
        <5>1. \A s \in Node : floor[r][s] \in Nat /\ mark[key[r]][s] \in Nat
          BY <1>3, <4>1 DEF IInv, Tables, Sound, Versions
        <5>2. ~guessed[r] => \A s \in Node : floor[r][s] <= mark[key[r]][s]
          BY <3>1 DEF Searching
        <5>3. \A a \in Part : a.version \in Nat
          BY DEF Part
        <5> QED
          BY <4>1, <5>1, <5>2, <5>3 DEF Shows
      <4>3. /\ pc'[r] = "done" /\ reply'[r].data = cache[key[r]] /\ reply'[r].cache = "HIT"
            /\ UNCHANGED <<part, floor, guessed, announced, failed>>
        BY <3>2 DEF Respond, IInv, Tables, Lookup, databases
      <4>4. Forgiven(r) = failed /\ Forgiven(r)' = failed
        BY <3>1, <4>3 DEF Forgiven, Searching
      <4> QED
        BY <3>1, <4>2, <4>3, <4>4 DEF Searching
    <3>3. CASE UNCHANGED reply /\ pc'[r] \in {"load", "bypass"}
      <4>1. UNCHANGED <<part, floor, guessed, announced, failed, key, version, mark>>
        BY DEF Lookup, databases
      <4>2. Forgiven(r) \subseteq Forgiven(r)'
        BY <3>1, <3>3, <4>1 DEF Forgiven, Searching, IInv, Tables
      <4>3. /\ Shows(part[r], floor[r], Forgiven(r)')
            /\ Shows(part[r], mark[key[r]], Forgiven(r)')
            /\ ~guessed[r] => Shows(reply[r].data, floor[r], Forgiven(r)')
        BY <3>1, <4>2, ShowsMore DEF Searching
      <4> QED
        BY <3>1, <3>3, <4>1, <4>3 DEF Searching
    <3> QED
      BY <3>2, <3>3 DEF Lookup, IInv, Tables
  <2> QED
    BY <1>1, <1>3, <2>1, <2>2, SearchStep DEF IInv, Tables, Lookup, Respond, databases
<1> QED
  BY <1>1, <1>2, <1>3 DEF IInv, Lookup

\* A shard answers with what it has now, which is ahead of all announced.
LEMMA AskShardKeeps ==
    ASSUME IInv, NEW r \in Reader, NEW s \in Node, AskShard(r, s)
    PROVE  IInv'
<1>1. Tables'
  BY DEF IInv, Tables, AskShard, Answered, writers, databases
<1>2. Ahead'
  BY DEF IInv, Ahead, AskShard, writers, databases
<1>3. ASSUME Sound PROVE Sound'
  <2>1. Entries'
    BY <1>3 DEF Sound, Entries, AskShard, databases
  <2>2. Searching(r)'
    <3>1. Searching(r) /\ pc[r] \in {"load", "bypass"} /\ key[r] \in 0 .. version
      BY <1>3 DEF Sound, AskShard, Unsettled, Searching
    <3>2. /\ UNCHANGED <<pc, reply, floor, guessed, announced, failed, key, version, mark>>
          /\ Forgiven(r)' = Forgiven(r)
      BY DEF AskShard, databases, Forgiven
    <3>3. CASE UNCHANGED part
      BY <3>1, <3>2, <3>3 DEF Searching
    <3>4. CASE Answered(r, s)
      <4>1. PICK answer \in Part :
               /\ part'[r] = [t \in DOMAIN part[r] \cup {s} |->
                                IF t # s THEN part[r][t] ELSE answer]
               /\ \/ answer.version = data[s]
                  \/ answer.from = "replica" /\ s \in Forgiven(r)
        BY <3>1, <3>4 DEF Answered, MayAskReplica, Forgiven, Part, IInv, Tables
      <4>2. /\ data[s] \in Nat /\ announced[s] \in Nat /\ floor[r][s] \in Nat
            /\ mark[key[r]][s] \in Nat
            /\ announced[s] <= data[s] /\ floor[r][s] <= announced[s]
            /\ mark[key[r]][s] <= announced[s]
        BY <1>3, <3>1 DEF IInv, Tables, Ahead, Sound, Versions, Searching
      <4>3. data[s] >= floor[r][s] /\ data[s] >= mark[key[r]][s]
        BY <4>2
      <4>4. /\ Shows(part'[r], floor[r], Forgiven(r))
            /\ Shows(part'[r], mark[key[r]], Forgiven(r))
        BY <3>1, <4>1, <4>3 DEF Searching, Shows
      <4> QED
        BY <3>1, <3>2, <4>4 DEF Searching
    <3> QED
      BY <3>3, <3>4 DEF AskShard
  <2> QED
    BY <1>1, <1>3, <2>1, <2>2, SearchStep DEF IInv, Tables, AskShard, Answered, databases
<1> QED
  BY <1>1, <1>2, <1>3 DEF IInv, AskShard

\* What the shards have answered is the reply, and perhaps an entry.
LEMMA AnswerKeeps ==
    ASSUME IInv, NEW r \in Reader, Bypass(r) \/ Store(r)
    PROVE  IInv'
<1>1. Tables'
  BY DEF IInv, Tables, Bypass, Store, Respond, writers, databases
<1>2. Ahead'
  BY DEF IInv, Ahead, Bypass, Store, writers, databases
<1>3. ASSUME Sound PROVE Sound'
  <2>1. /\ Searching(r) /\ pc[r] \in {"load", "bypass"}
        /\ pc'[r] = "done" /\ reply'[r].data = part[r]
        /\ UNCHANGED <<failed, version, announced, mark, key, part, guessed, floor>>
        /\ Forgiven(r)' = Forgiven(r)
        /\ pc[r] = "load" => Forgiven(r) = failed
        /\ pc[r] = "bypass" => UNCHANGED cache
    BY <1>3 DEF Sound, Bypass, Store, Respond, IInv, Tables, databases, Forgiven, Searching
  <2>2. Entries'
    <3>1. key[r] \in 0 .. version /\ Shows(part[r], mark[key[r]], Forgiven(r))
      BY <2>1 DEF Searching
    <3>2. \/ UNCHANGED cache
          \/ cache' = [k \in DOMAIN cache \cup {key[r]} |->
                          IF k = key[r] THEN part[r] ELSE cache[k]]
      BY DEF Bypass, Store
    <3>3. CASE UNCHANGED cache
      BY <1>3, <2>1, <3>3 DEF Sound, Entries
    <3>4. CASE pc[r] = "load" /\ cache' = [k \in DOMAIN cache \cup {key[r]} |->
                            IF k = key[r] THEN part[r] ELSE cache[k]]
      BY <1>3, <2>1, <3>1, <3>4 DEF Sound, Entries
    <3> QED
      BY <2>1, <3>2, <3>3, <3>4
  <2>3. Searching(r)'
    BY <2>1 DEF Searching
  <2> QED
    BY <1>1, <1>3, <2>2, <2>3, SearchStep DEF IInv, Tables, Bypass, Store, Respond, databases
<1> QED
  BY <1>1, <1>2, <1>3 DEF IInv, Bypass, Store

-----------------------------------------------------------------------------
(* Mutations.                                                               *)

\* A commit takes a shard further ahead.
LEMMA WriteKeeps ==
    ASSUME IInv, NEW w \in Writer, NEW s \in Node, Write(w, s)
    PROVE  IInv'
<1>1. Tables'
  BY DEF IInv, Tables, Write, readers
<1>2. Ahead'
  <2>1. /\ data' = [data EXCEPT ![s] = data[s] + 1]
        /\ wrote' = [wrote EXCEPT ![w] = [shard |-> s, version |-> data[s] + 1]]
        /\ announced' = announced
    BY DEF Write
  <2>2. \A t \in Node : data[t] \in Nat /\ data'[t] \in Nat /\ data[t] <= data'[t]
    BY <2>1 DEF IInv, Tables
  <2>3. ASSUME NEW v \in Writer PROVE (wrote[v].version <= data[wrote[v].shard])'
    <3>1. CASE v = w
      BY <2>1, <3>1 DEF IInv, Tables
    <3>2. CASE v # w
      <4>1. wrote'[v] = wrote[v] /\ wrote[v].shard \in Node /\ wrote[v].version \in Nat
        BY <2>1, <3>2 DEF IInv, Tables
      <4>2. wrote[v].version <= data[wrote[v].shard]
        BY DEF IInv, Ahead
      <4> QED
        BY <2>2, <4>1, <4>2
    <3> QED
      BY <3>1, <3>2
  <2>4. ASSUME NEW t \in Node PROVE announced'[t] <= data'[t]
    BY <2>1, <2>2 DEF IInv, Tables, Ahead
  <2> QED
    BY <2>3, <2>4 DEF Ahead
<1>3. Sound => Sound'
  BY DEF Sound, Versions, Entries, Searching, Forgiven, Write, readers
<1> QED
  BY <1>1, <1>2, <1>3 DEF IInv, Write

\* A new version announces what its mutation wrote, and all before it.
LEMMA BumpKeeps ==
    ASSUME IInv, NEW w \in Writer, Bump(w)
    PROVE  IInv'
<1>1. UNCHANGED <<shards, data, replica, failed, cache, readers, wrote, rolled>>
  BY DEF Bump, databases
<1>2. CASE UNCHANGED <<version, announced, mark>>
  BY <1>1, <1>2 DEF IInv, Tables, Ahead, Sound, Versions, Entries, Searching, Forgiven, readers
<1>3. CASE version' # version
  <2> DEFINE more == IF announced[wrote[w].shard] < wrote[w].version
                     THEN wrote[w].version ELSE announced[wrote[w].shard]
  <2>1. /\ version' = version + 1
        /\ announced' = [announced EXCEPT ![wrote[w].shard] = more]
        /\ mark' = [k \in DOMAIN mark \cup {version + 1} |->
                       IF k = version + 1 THEN announced' ELSE mark[k]]
    BY <1>3 DEF Bump
  <2>2. /\ wrote[w].shard \in Node /\ wrote[w].version \in Nat
        /\ wrote[w].version <= data[wrote[w].shard]
        /\ version \in Nat
    BY DEF IInv, Tables, Ahead
  <2>3. /\ announced' \in [Node -> Nat]
        /\ \A s \in Node : announced[s] <= announced'[s] /\ announced'[s] <= data[s]
    BY <2>1, <2>2 DEF IInv, Tables, Ahead
  <2>4. Tables'
    BY <1>1, <2>1, <2>3 DEF IInv, Tables, readers
  <2>5. Ahead'
    BY <1>1, <2>3 DEF IInv, Ahead
  <2>6. ASSUME Sound PROVE Sound'
    <3>1. DOMAIN mark' = 0 .. version'
      BY <2>1, <2>2, <2>6 DEF Sound, Versions
    <3>2. mark'[version'] = announced'
      BY <2>1
    <3>3. \A k \in 0 .. version : mark'[k] = mark[k]
      BY <2>1, <2>2, <2>6 DEF Sound, Versions
    <3>4. ASSUME NEW k \in 0 .. version'
          PROVE  /\ mark'[k] \in [Node -> Nat]
                 /\ \A s \in Node : mark'[k][s] <= announced'[s]
      <4>1. CASE k = version + 1
        BY <2>1, <2>3, <3>2, <4>1
      <4>2. CASE k # version + 1
        <5> HIDE DEF more
        <5>1. version' = version + 1
          BY <2>1
        <5>2. k \in 0 .. version
          BY <2>2, <4>2, <5>1
        <5>3. k \in 0 .. version /\ mark'[k] = mark[k]
          BY <3>3, <5>2
        <5>4. /\ mark[k] \in [Node -> Nat]
              /\ \A s \in Node : mark[k][s] <= announced[s]
          BY <2>6, <5>3 DEF Sound, Versions
        <5>5. \A s \in Node : announced[s] \in Nat /\ announced'[s] \in Nat
          BY <2>3 DEF IInv, Tables
        <5> QED
          BY <2>3, <5>3, <5>4, <5>5
      <4> QED
        BY <4>1, <4>2
    <3>5. Versions'
      BY <3>1, <3>2, <3>4 DEF Versions
    <3>6. Entries'
      <4>1. version' = version + 1
        BY <2>1
      <4>2. ASSUME NEW k \in DOMAIN cache
            PROVE  k \in 0 .. version' /\ Shows(cache[k], mark'[k], failed)
        <5>1. k \in 0 .. version /\ Shows(cache[k], mark[k], failed)
          BY <2>6 DEF Sound, Entries
        <5>2. k \in 0 .. version' /\ mark'[k] = mark[k]
          BY <2>2, <3>3, <4>1, <5>1
        <5> QED
          BY <5>1, <5>2
      <4> QED
        BY <1>1, <4>2 DEF Entries
    <3>7. ASSUME NEW r \in Reader PROVE Searching(r)'
      <4>1. version <= version'
        BY <2>1, <2>2
      <4> QED
        BY <1>1, <2>3, <2>4, <2>6, <3>3, <3>5, <4>1, OthersSearch DEF IInv, readers
    <3> QED
      BY <3>5, <3>6, <3>7 DEF Sound
  <2> QED
    BY <1>1, <2>4, <2>5, <2>6 DEF IInv
<1> QED
  BY <1>2, <1>3 DEF Bump, IInv, Tables

-----------------------------------------------------------------------------
(* Redis and the shards.                                                    *)

\* Entries go; with the version, if there was one, all is forgiven, and the
\* replica of a primary that fails.
LEMMA FaultKeeps ==
    ASSUME IInv,
           \/ \E k \in DOMAIN cache : Expire(k)
           \/ Flush \/ EvictVersion
           \/ \E s \in Node : ShardChanges(s) \/ Replicate(s)
           \/ Rest \/ UNCHANGED vars
    PROVE  IInv'
<1>1. UNCHANGED <<shards, data, announced, mark, readers, wrote>>
  BY DEF Expire, Flush, EvictVersion, ShardChanges, Replicate, Rest, vars, readers, writers,
         databases
<1>2. version' \in Nat /\ (~rolled' => ~rolled /\ version' = version)
  <2>1. CASE UNCHANGED <<version, rolled>>
    BY <2>1, Zenon DEF IInv, Tables
  <2>2. CASE version' = 0 /\ rolled' = (rolled \/ version > 0)
    <3>1. ~rolled' => ~rolled /\ ~(version > 0)
      BY <2>2, Zenon
    <3>2. version \in Nat
      BY DEF IInv, Tables
    <3> QED
      BY <2>2, <3>1, <3>2
  <2> QED
    BY <2>1, <2>2, Zenon DEF Expire, Flush, EvictVersion, ShardChanges, Replicate, Rest, vars
<1>3. failed \subseteq failed' /\ failed' \subseteq Node
  <2>1. failed \subseteq Node
    BY DEF IInv, Tables
  <2>2. failed' = failed \/ failed' = failed \cup (Node \ up')
    BY DEF Expire, Flush, EvictVersion, ShardChanges, Replicate, Rest, vars, databases
  <2> QED
    BY <2>1, <2>2
<1>4. replica' \in [Node -> Nat]
  <2>1. CASE UNCHANGED replica
    BY <2>1 DEF IInv, Tables
  <2>2. ASSUME NEW s \in Node, Replicate(s) PROVE replica' \in [Node -> Nat]
    BY <2>2 DEF Replicate, IInv, Tables
  <2> QED
    BY <2>1, <2>2 DEF Expire, Flush, EvictVersion, ShardChanges, Rest, vars, databases
<1>5. Tables' /\ Ahead'
  BY <1>1, <1>2, <1>3, <1>4 DEF IInv, Tables, Ahead, readers
<1>6. ASSUME ~rolled' PROVE Sound'
  <2>1. Sound /\ version' = version
    BY <1>2, <1>6 DEF IInv
  <2>2. DOMAIN cache' \subseteq DOMAIN cache /\ \A k \in DOMAIN cache' : cache'[k] = cache[k]
    BY DEF Expire, Flush, EvictVersion, ShardChanges, Replicate, Rest, vars
  <2>3. Entries'
    BY <1>1, <1>3, <2>1, <2>2, ShowsMore DEF Sound, Entries
  <2>4. Versions'
    BY <1>1, <2>1 DEF Sound, Versions
  <2>5. ASSUME NEW r \in Reader PROVE Searching(r)'
    <3>1. \A s \in Node : announced[s] <= announced'[s]
      BY <1>1 DEF IInv, Tables
    <3>2. version <= version'
      BY <2>1 DEF IInv, Tables
    <3> QED
      BY <1>1, <1>3, <1>5, <2>1, <2>4, <3>1, <3>2, OthersSearch DEF IInv, readers
  <2> QED
    BY <2>3, <2>4, <2>5 DEF Sound
<1> QED
  BY <1>5, <1>6 DEF IInv

-----------------------------------------------------------------------------
\* Nothing is announced yet, and nothing cached.
LEMMA InitIInv == Init => IInv
<1> SUFFICES ASSUME Init PROVE IInv
  OBVIOUS
<1>1. NoWrite \in [shard : Node, version : Nat] /\ NoWrite.version = 0
  BY DEF NoWrite, Node
<1>2. Zero \in [Node -> Nat] /\ \A s \in Node : Zero[s] = 0
  BY DEF Zero
<1>3. Tables
  BY <1>1, <1>2 DEF Init, Tables, Node
<1>4. Ahead
  BY <1>1, <1>2 DEF Init, Ahead
<1>5. Versions /\ Entries
  BY <1>2 DEF Init, Versions, Entries
<1>6. ASSUME NEW r \in Reader PROVE Searching(r)
  BY <1>2 DEF Init, Searching, Shows, Nothing, Forgiven
<1> QED
  BY <1>3, <1>4, <1>5, <1>6 DEF IInv, Sound

\* Every step keeps the invariant.
LEMMA NextIInv == IInv /\ [Next]_vars => IInv'
<1> SUFFICES ASSUME IInv, [Next]_vars PROVE IInv'
  OBVIOUS
<1>1. shards \subseteq Node
  BY DEF IInv, Tables
<1> QED
  BY <1>1, GetVersionKeeps, LookupKeeps, AskShardKeeps, AnswerKeeps, WriteKeeps, BumpKeeps,
     FaultKeeps
     DEF Next, Answering

\* Tables, Ahead and, unless the version was lost, Sound hold throughout.
THEOREM IInvInvariant == Spec => []IInv
BY InitIInv, NextIInv, PTL DEF Spec

(* A search shows all that was announced before it began, for any number of *)
(* searches, mutations and shards, until the version key is lost: fills     *)
(* that overtake each other, partial results and lost commands included.    *)
(* Without SHARD_URLS the replica is shown to a BYPASS, and to others only  *)
(* after the primary has failed.                                            *)
THEOREM FreshnessTheorem == Spec => []SearchIsFresh
<1>1. IInv => SearchIsFresh
  <2> SUFFICES ASSUME IInv, ~rolled, NEW r \in Reader, ~guessed[r],
                      NEW s \in DOMAIN reply[r].data
               PROVE  \/ reply[r].data[s].version >= floor[r][s]
                      \/ /\ reply[r].data[s].from = "replica"
                         /\ reply[r].cache = "BYPASS" \/ s \in failed
    BY DEF SearchIsFresh
  <2>1. Searching(r) /\ Shows(reply[r].data, floor[r], Forgiven(r))
    BY DEF IInv, Sound, Searching
  <2>2. pc[r] = "bypass" => reply[r].data = Nothing
    BY <2>1 DEF Searching
  <2> QED
    BY <2>1, <2>2 DEF Shows, Forgiven, Nothing
<1> QED
  BY <1>1, IInvInvariant, PTL

-----------------------------------------------------------------------------
(* Types.                                                                   *)

\* A result remains one when a shard of it answers.
LEMMA ResultStep ==
    ASSUME NEW f, IsResult(f), NEW s \in shards, NEW answer \in Part
    PROVE  IsResult([t \in DOMAIN f \cup {s} |-> IF t # s THEN f[t] ELSE answer])
BY DEF IsResult

\* Of each search: what has answered, what has not, and the reply.
Settling(r) ==
    /\ IsResult(part[r])
    /\ lost[r] \subseteq shards \ DOMAIN part[r]
    /\ reply[r].cache \in {"none", "HIT", "MISS", "BYPASS"}
    /\ IsResult(reply[r].data)

Domains == DOMAIN lost = Reader /\ Tables

\* A step of a search keeps the types.
LEMMA ReaderTyped ==
    ASSUME Domains, TypeOK, NEW r \in Reader, GetVersion(r) \/ Answering(r)
    PROVE  TypeOK'
<1>1. /\ UNCHANGED <<shards, data, replica, up, failed, version, rolled, announced, mark>>
      /\ wrote' = wrote /\ wpc' = wpc
  BY DEF GetVersion, Answering, Lookup, Bypass, Store, AskShard, writers, databases
<1>2. pc' \in [Reader -> {"idle", "lookup", "load", "bypass", "done"}]
  BY DEF TypeOK, GetVersion, Answering, Lookup, Bypass, Store, AskShard, Respond
<1>3. /\ key' \in [Reader -> Nat] /\ guessed' \in [Reader -> BOOLEAN]
      /\ floor' \in [Reader -> [Node -> Nat]]
  <2>1. /\ key \in [Reader -> Nat] /\ guessed \in [Reader -> BOOLEAN]
        /\ floor \in [Reader -> [Node -> Nat]] /\ announced \in [Node -> Nat]
        /\ version \in Nat
    BY DEF TypeOK
  <2>2. /\ \/ UNCHANGED key
           \/ key' = [key EXCEPT ![r] = version]
           \/ key' = [key EXCEPT ![r] = 0]
        /\ \/ UNCHANGED floor
           \/ floor' = [floor EXCEPT ![r] = announced]
    BY DEF GetVersion, Answering, Lookup, Bypass, Store, AskShard
  <2>3. \/ UNCHANGED guessed
        \/ \E b \in BOOLEAN : guessed' = [guessed EXCEPT ![r] = b]
    <3>1. (version # 0) \in BOOLEAN
      OBVIOUS
    <3> QED
      BY <3>1, Zenon DEF GetVersion, Answering, Lookup, Bypass, Store, AskShard
  <2>4. key' \in [Reader -> Nat] /\ floor' \in [Reader -> [Node -> Nat]]
    <3>1. key' \in [Reader -> Nat]
      BY <2>1, <2>2
    <3>2. CASE UNCHANGED floor
      BY <2>1, <3>1, <3>2
    <3>3. CASE floor' = [floor EXCEPT ![r] = announced]
      <4> DEFINE Bounds == [Node -> Nat]
      <4>1. announced \in Bounds /\ floor \in [Reader -> Bounds]
        BY <2>1
      <4> HIDE DEF Bounds
      <4>2. floor' \in [Reader -> Bounds]
        BY <3>3, <4>1
      <4> QED
        BY <3>1, <4>2 DEF Bounds
    <3> QED
      BY <2>2, <3>2, <3>3
  <2>5. guessed' \in [Reader -> BOOLEAN]
    BY <2>1, <2>3
  <2> QED
    BY <2>4, <2>5
<1>4. ASSUME NEW o \in Reader PROVE Settling(o)'
  <2>1. Settling(o) /\ (r # o \/ r = o)
    BY DEF TypeOK, Settling
  <2>2. CASE \E s \in shards : AskShard(r, s)
    <3>1. PICK s \in shards : AskShard(r, s)
      BY <2>2
    <3>2. reply' = reply /\ data[s] \in Nat /\ replica[s] \in Nat
      BY <3>1 DEF AskShard, TypeOK, Domains, Tables
    <3>3. \/ part'[o] = part[o] /\ lost'[o] = lost[o]
          \/ /\ \E answer \in Part :
                   part'[o] = [t \in DOMAIN part[o] \cup {s} |->
                                  IF t # s THEN part[o][t] ELSE answer]
             /\ lost'[o] = lost[o] /\ s \notin lost[o]
          \/ part'[o] = part[o] /\ lost'[o] = lost[o] \cup {s} /\ s \notin DOMAIN part[o]
      <4>1. s \notin DOMAIN part[r] \cup lost[r] /\ DOMAIN part = Reader /\ DOMAIN lost = Reader
        BY <3>1 DEF AskShard, Unsettled, Domains, Tables
      <4>2. CASE Answered(r, s) /\ UNCHANGED lost
        <5>1. PICK answer \in Part :
                 part' = [part EXCEPT ![r] = [t \in DOMAIN part[r] \cup {s} |->
                             IF t # s THEN part[r][t] ELSE answer]]
          <6>1. PICK node \in {"primary", "replica"} :
                   part' = [part EXCEPT ![r] = [t \in DOMAIN part[r] \cup {s} |->
                      IF t # s THEN part[r][t]
                      ELSE [version |-> IF node = "primary" THEN data[s] ELSE replica[s],
                            from |-> node]]]
            BY <4>2 DEF Answered
          <6> DEFINE given == [version |-> IF node = "primary" THEN data[s] ELSE replica[s],
                               from |-> node]
          <6>2. given \in Part
            BY <3>2 DEF Part
          <6>3. part' = [part EXCEPT ![r] = [t \in DOMAIN part[r] \cup {s} |->
                            IF t # s THEN part[r][t] ELSE given]]
            BY <6>1
          <6> HIDE DEF given
          <6> QED
            BY <6>2, <6>3
        <5> QED
          BY <2>1, <4>1, <4>2, <5>1
      <4>3. CASE lost' = [lost EXCEPT ![r] = lost[r] \cup {s}] /\ UNCHANGED part
        BY <4>1, <4>3
      <4> QED
        BY <3>1, <4>2, <4>3 DEF AskShard
    <3>4. IsResult(part'[o])
      <4>1. CASE part'[o] = part[o]
        BY <2>1, <4>1 DEF Settling
      <4>2. ASSUME NEW answer \in Part,
                   part'[o] = [t \in DOMAIN part[o] \cup {s} |->
                                  IF t # s THEN part[o][t] ELSE answer]
            PROVE  IsResult(part'[o])
        BY <2>1, <4>2, ResultStep DEF Settling
      <4> QED
        BY <3>3, <4>1, <4>2
    <3>5. lost'[o] \subseteq shards' \ DOMAIN part'[o]
      <4>1. lost[o] \subseteq shards \ DOMAIN part[o]
        BY <2>1 DEF Settling
      <4>2. \/ DOMAIN part'[o] = DOMAIN part[o] /\ lost'[o] = lost[o]
            \/ DOMAIN part'[o] = DOMAIN part[o] \cup {s} /\ lost'[o] = lost[o] /\ s \notin lost[o]
            \/ /\ DOMAIN part'[o] = DOMAIN part[o]
               /\ lost'[o] = lost[o] \cup {s} /\ s \notin DOMAIN part[o]
        BY <3>3
      <4> QED
        BY <1>1, <3>1, <4>1, <4>2
    <3> QED
      BY <1>1, <2>1, <3>2, <3>4, <3>5 DEF Settling, IsResult
  <2>3. CASE UNCHANGED <<part, lost>> /\ UNCHANGED reply
    BY <1>1, <2>1, <2>3 DEF Settling, IsResult
  <2>4. CASE Lookup(r) \/ Bypass(r) \/ Store(r)
    <3>1. UNCHANGED <<part, lost>>
      BY <2>4 DEF Lookup, Bypass, Store
    <3>2. \/ reply'[o] = reply[o]
          \/ /\ reply'[o].cache \in {"HIT", "MISS", "BYPASS"}
             /\ \/ reply'[o].data = part[o]
                \/ \E k \in DOMAIN cache : reply'[o].data = cache[k]
      BY <2>4 DEF Lookup, Bypass, Store, Respond, Domains, Tables
    <3>3. \A k \in DOMAIN cache : IsResult(cache[k])
      BY DEF TypeOK
    <3> QED
      BY <1>1, <2>1, <3>1, <3>2, <3>3 DEF Settling, IsResult
  <2> QED
    BY <2>2, <2>3, <2>4 DEF GetVersion, Answering
<1>5. DOMAIN cache' \subseteq Nat /\ \A k \in DOMAIN cache' : IsResult(cache'[k])
  <2>1. IsResult(part[r]) /\ key[r] \in Nat
    BY DEF TypeOK
  <2>2. \/ UNCHANGED cache
        \/ cache' = [k \in DOMAIN cache \cup {key[r]} |->
                        IF k = key[r] THEN part[r] ELSE cache[k]]
    BY DEF GetVersion, Answering, Lookup, Bypass, Store, AskShard
  <2>3. DOMAIN cache \subseteq Nat /\ \A k \in DOMAIN cache : IsResult(cache[k])
    BY DEF TypeOK
  <2> QED
    BY <2>1, <2>2, <2>3
<1> QED
  BY <1>1, <1>2, <1>3, <1>4, <1>5 DEF TypeOK, Settling, IsResult

\* A mutation and its announcement keep the types.
LEMMA WriterTyped ==
    ASSUME Domains, TypeOK, NEW w \in Writer, Bump(w) \/ \E s \in Node : Write(w, s)
    PROVE  TypeOK'
<1>1. UNCHANGED <<shards, replica, up, failed, cache, pc, key, part, lost, reply, guessed, floor, rolled>>
  BY DEF Bump, Write, readers, databases
<1>2. wpc' \in [Writer -> {"idle", "bump", "done"}]
  BY DEF TypeOK, Bump, Write
<1>3. /\ data' \in [Node -> Nat] /\ wrote' \in [Writer -> [shard : Node, version : Nat]]
      /\ \A s \in Node : replica[s] <= data'[s]
  <2>1. /\ data \in [Node -> Nat] /\ wrote \in [Writer -> [shard : Node, version : Nat]]
        /\ replica \in [Node -> Nat] /\ \A s \in Node : replica[s] <= data[s]
    BY DEF TypeOK
  <2>2. \/ UNCHANGED <<data, wrote>>
        \/ \E s \in Node :
              /\ data' = [data EXCEPT ![s] = data[s] + 1]
              /\ wrote' = [wrote EXCEPT ![w] = [shard |-> s, version |-> data[s] + 1]]
    BY DEF Bump, Write, databases
  <2>3. \A s \in Node : [shard |-> s, version |-> data[s] + 1] \in [shard : Node, version : Nat]
    BY <2>1
  <2> QED
    BY <2>1, <2>2, <2>3
<1>4. /\ version' \in Nat /\ announced' \in [Node -> Nat] /\ DOMAIN mark' \subseteq Nat
      /\ \A k \in DOMAIN mark' : mark'[k] \in [Node -> Nat]
  <2>1. CASE UNCHANGED <<version, announced, mark>>
    BY <2>1 DEF TypeOK
  <2>2. CASE /\ version' = version + 1
             /\ announced' = [announced EXCEPT ![wrote[w].shard] =
                   IF announced[wrote[w].shard] < wrote[w].version
                   THEN wrote[w].version ELSE announced[wrote[w].shard]]
             /\ mark' = [k \in DOMAIN mark \cup {version + 1} |->
                            IF k = version + 1 THEN announced' ELSE mark[k]]
    <3>1. announced' \in [Node -> Nat]
      BY <2>2 DEF TypeOK
    <3> QED
      BY <2>2, <3>1 DEF TypeOK
  <2> QED
    BY <2>1, <2>2 DEF Bump, Write
<1> QED
  BY <1>1, <1>2, <1>3, <1>4 DEF TypeOK, IsResult

\* Faults keep the types.
LEMMA FaultTyped ==
    ASSUME TypeOK,
           \/ \E k \in DOMAIN cache : Expire(k)
           \/ Flush \/ EvictVersion
           \/ \E s \in Node : ShardChanges(s) \/ Replicate(s)
           \/ Rest \/ UNCHANGED vars
    PROVE  TypeOK'
<1>1. UNCHANGED <<shards, data, pc, key, part, lost, reply, guessed, floor, wrote, wpc, announced, mark>>
  BY DEF Expire, Flush, EvictVersion, ShardChanges, Replicate, Rest, vars, readers, writers,
         databases
<1>2. up' \subseteq Node /\ version' \in Nat /\ failed' \subseteq Node /\ Node \ up' \subseteq failed'
  <2>1. up \subseteq Node /\ version \in Nat /\ failed \subseteq Node /\ Node \ up \subseteq failed
    BY DEF TypeOK
  <2>2. \/ UNCHANGED <<up, failed>>
        \/ /\ \E s \in Node : up' = IF s \in up THEN up \ {s} ELSE up \cup {s}
           /\ failed' = failed \cup (Node \ up')
    BY DEF Expire, Flush, EvictVersion, ShardChanges, Replicate, Rest, vars, databases
  <2>3. version' = version \/ version' = 0
    BY DEF Expire, Flush, EvictVersion, ShardChanges, Replicate, Rest, vars
  <2> QED
    BY <2>1, <2>2, <2>3
<1>5. replica' \in [Node -> Nat] /\ \A s \in Node : replica'[s] <= data[s]
  <2>1. CASE UNCHANGED replica
    BY <2>1 DEF TypeOK
  <2>2. ASSUME NEW s \in Node, Replicate(s)
        PROVE  replica' \in [Node -> Nat] /\ \A t \in Node : replica'[t] <= data[t]
    BY <2>2 DEF Replicate, TypeOK
  <2> QED
    BY <2>1, <2>2 DEF Expire, Flush, EvictVersion, ShardChanges, Rest, vars, databases
<1>3. DOMAIN cache' \subseteq DOMAIN cache /\ \A k \in DOMAIN cache' : cache'[k] = cache[k]
  BY DEF Expire, Flush, EvictVersion, ShardChanges, Replicate, Rest, vars
<1>4. rolled' \in BOOLEAN
  <2>1. rolled' = rolled \/ rolled' = (rolled \/ version > 0)
    BY Zenon DEF Expire, Flush, EvictVersion, ShardChanges, Replicate, Rest, vars
  <2>2. rolled \in BOOLEAN
    BY DEF TypeOK
  <2> QED
    BY <2>1, <2>2, Zenon
<1> QED
  BY <1>1, <1>2, <1>3, <1>4, <1>5 DEF TypeOK, IsResult

(* The types: in particular a shard settles each search in one way only.    *)
THEOREM TypeTheorem == Spec => []TypeOK
<1> DEFINE Typed == IInv /\ TypeOK /\ DOMAIN lost = Reader
<1>1. Init => Typed
  <2>1. Init => TypeOK
    <3>1. NoWrite \in [shard : Node, version : Nat]
      BY DEF NoWrite, Node
    <3> QED
      <4>1. IsResult(Nothing) /\ Zero \in [Node -> Nat] /\ FALSE \in BOOLEAN
        BY DEF IsResult, Nothing, Zero
      <4>2. SUFFICES ASSUME Init PROVE TypeOK
        OBVIOUS
      <4>3. \A r \in Reader : Settling(r)
        BY <4>1, <4>2 DEF Init, Settling, Nothing
      <4>4. /\ guessed \in [Reader -> BOOLEAN] /\ rolled \in BOOLEAN
            /\ pc \in [Reader -> {"idle", "lookup", "load", "bypass", "done"}]
        BY <4>2 DEF Init
      <4>5. /\ shards \in {Shard, {GlobalNode}}
            /\ data \in [Node -> Nat] /\ up \subseteq Node /\ version \in Nat
            /\ replica = data /\ failed = {} /\ up = Node
            /\ DOMAIN cache = {} /\ key \in [Reader -> Nat]
            /\ wrote \in [Writer -> [shard : Node, version : Nat]]
            /\ wpc \in [Writer -> {"idle", "bump", "done"}]
            /\ announced \in [Node -> Nat] /\ floor \in [Reader -> [Node -> Nat]]
            /\ DOMAIN mark = {0} /\ mark[0] \in [Node -> Nat]
        BY <3>1, <4>1, <4>2 DEF Init
      <4> QED
        BY <4>3, <4>4, <4>5 DEF TypeOK, Settling
  <2> QED
    BY <2>1, InitIInv DEF Init
<1>2. Typed /\ [Next]_vars => Typed'
  <2> SUFFICES ASSUME Typed, [Next]_vars PROVE Typed'
    OBVIOUS
  <2>1. DOMAIN lost' = Reader
    BY DEF Next, Answering, GetVersion, Lookup, AskShard, Bypass, Store, Write, Bump, Expire,
           Flush, EvictVersion, ShardChanges, Replicate, Rest, vars, readers
  <2>2. TypeOK'
    <3>1. shards \subseteq Node
      BY DEF IInv, Tables
    <3> QED
      BY <3>1, ReaderTyped, WriterTyped, FaultTyped DEF Next, Domains, IInv
  <2> QED
    BY <2>1, <2>2, NextIInv
<1> QED
  BY <1>1, <1>2, PTL DEF Spec
=============================================================================
