------------------------------ MODULE KeyCache ------------------------------
(***************************************************************************)
(* API keys, cached in every worker process: authenticate() and the purge  *)
(* subscription of src/src/auth.js, and `tenant.js key | revoke`.          *)
(*                                                                         *)
(* A cache miss reads the key row in the database and goes on when the     *)
(* result arrives; meanwhile the worker's event loop runs other requests   *)
(* and purge messages.  A cache hit is decided in one turn.  Redis pub/sub *)
(* delivers a message once to each worker that is subscribed when it is    *)
(* published, and to no other.                                             *)
(*                                                                         *)
(* Left out: scopes, tenant and rate limit of a record, which no operation *)
(* changes, and last_used_at, which nothing reads.                         *)
(***************************************************************************)
EXTENDS Integers

CONSTANTS
  Workers,   \* worker processes (ecosystem.config.cjs runs two)
  Reqs,      \* slots for concurrent requests, each used again and again
  Keys,      \* API keys, by their hash
  Prefix,    \* [key -> its first 12 characters]: longer slugs make keys share it
  Expiries,  \* expires_at of the keys, NULL: never
  TTL,       \* config.keyCacheTtlMs
  MaxLookup, \* the longest a lookup takes, arrival of its result included
  MaxTime,   \* bound of the clock
  NULL

Time == 0..MaxTime

ASSUME KeyAssumption ==
  /\ TTL \in Nat \ {0} /\ MaxLookup \in Nat /\ MaxTime \in Nat
  /\ NULL \notin Int
  /\ Expiries \subseteq Nat \cup {NULL}

VARIABLES
  now,         \* the clock all processes share
  row,         \* api_key rows, NULL: not minted
  unpublished, \* keys revoked by a running `tenant.js revoke`, purge not yet published
  cache,       \* each worker's cache: the record as read and when it was put there
  listening,   \* workers whose purge subscription is established
  inbox,       \* purge messages on their way to a worker
  pc,          \* where each request stands
  at,          \* the worker that serves it
  key,         \* the key it presents
  found,       \* the row its lookup read, NULL: none
  since,       \* when its lookup began; once it is decided, when that was
  purged,      \* history: keys whose purge a worker has processed
  raced        \* history: ... while a lookup of that worker held an older row

shared == <<now, row, unpublished>>
process == <<cache, listening, inbox>>
request == <<pc, at, key, found, since>>
vars == <<shared, process, request, purged, raced>>

-----------------------------------------------------------------------------
KeyRow == [expires : Nat \cup {NULL}, revoked : Time \cup {NULL}]
Entry  == [record : KeyRow, put : Time]

ASSUME RecordAssumption == NULL \notin KeyRow /\ NULL \notin Entry
ASSUME NameAssumption == NULL \notin Workers /\ NULL \notin Keys

(* The type invariant; a cached record is the key's row or an older one.   *)
TypeOK ==
  /\ now \in Time
  /\ row \in [Keys -> KeyRow \cup {NULL}]
  /\ unpublished \subseteq Keys
  /\ cache \in [Workers -> [Keys -> Entry \cup {NULL}]]
  /\ listening \subseteq Workers
  /\ inbox \in [Workers -> SUBSET Keys]
  /\ pc \in [Reqs -> {"idle", "lookup", "fill", "accepted", "refused"}]
  /\ at \in [Reqs -> Workers \cup {NULL}]
  /\ key \in [Reqs -> Keys \cup {NULL}]
  /\ found \in [Reqs -> KeyRow \cup {NULL}]
  /\ since \in [Reqs -> Time]
  /\ purged \in [Workers -> SUBSET Keys]
  /\ raced \in [Workers -> SUBSET Keys]
  /\ \A r \in Reqs : pc[r] # "idle" => at[r] \in Workers /\ key[r] \in Keys
  /\ \A w \in Workers, k \in Keys : cache[w][k] # NULL =>
       /\ row[k] # NULL
       /\ cache[w][k].record.expires = row[k].expires
       /\ cache[w][k].record.revoked \in {NULL, row[k].revoked}

Init ==
  /\ now = 0
  /\ row = [k \in Keys |-> NULL]
  /\ unpublished = {}
  /\ cache = [w \in Workers |-> [k \in Keys |-> NULL]]
  /\ listening = {}
  /\ inbox = [w \in Workers |-> {}]
  /\ pc = [r \in Reqs |-> "idle"]
  /\ at = [r \in Reqs |-> NULL]
  /\ key = [r \in Reqs |-> NULL]
  /\ found = [r \in Reqs |-> NULL]
  /\ since = [r \in Reqs |-> 0]
  /\ purged = [w \in Workers |-> {}]
  /\ raced = [w \in Workers |-> {}]

-----------------------------------------------------------------------------
(* authenticate                                                            *)

(* The row a pending lookup holds was read before the key was revoked.     *)
HoldsOlderRow(r, k) ==
  pc[r] = "fill" /\ key[r] = k /\ found[r] # NULL /\ found[r].revoked = NULL

(* Mutant: the cache's time to live is off by one.                         *)
FreshTooLong(entry) == entry # NULL /\ now - entry.put <= TTL

(* A cached record is used for less than its time to live.                 *)
Fresh(entry) == IF entry = NULL THEN FALSE ELSE now - entry.put < TTL

(* checkLiveness, on whatever copy of the row the caller holds.            *)
Alive(record) ==
  /\ record.revoked = NULL
  /\ record.expires # NULL => record.expires >= now

(* Mutant: whether a cached key is alive was settled when it was cached.   *)
AliveWhenCached(entry) ==
  /\ entry.record.revoked = NULL
  /\ entry.record.expires # NULL => entry.record.expires >= entry.put

(* A hit checks the cached record against the clock of the hit.            *)
AliveOnHit(entry) == Alive(entry.record)

Decide(r, alive) ==
  /\ pc' = [pc EXCEPT ![r] = IF alive THEN "accepted" ELSE "refused"]
  /\ since' = [since EXCEPT ![r] = now]

(* A request arrives at the worker w with the key k.                       *)
Arrive(r, w, k) ==
  /\ pc[r] = "idle"
  /\ at' = [at EXCEPT ![r] = w]
  /\ key' = [key EXCEPT ![r] = k]
  /\ \/ Fresh(cache[w][k]) /\ Decide(r, AliveOnHit(cache[w][k]))
     \/ /\ ~ Fresh(cache[w][k])
        /\ pc' = [pc EXCEPT ![r] = "lookup"]
        /\ since' = [since EXCEPT ![r] = now]
  /\ UNCHANGED <<shared, process, found, purged, raced>>

(* The statement's snapshot.                                               *)
ReadRow(r) ==
  /\ pc[r] = "lookup"
  /\ found' = [found EXCEPT ![r] = row[key[r]]]
  /\ pc' = [pc EXCEPT ![r] = "fill"]
  /\ UNCHANGED <<shared, process, at, key, since, purged, raced>>

(* The entry holds the row as it was read, and the time it is put there.   *)
Filled(w, k, record) == [record |-> record, put |-> now]

(* The result arrives: an unknown key is refused and not cached, any other *)
(* is cached, even a dead one, and then decided.                           *)
Fill(r) ==
  LET w == at[r]
      k == key[r]
  IN  /\ pc[r] = "fill"
      /\ \/ found[r] = NULL /\ Decide(r, FALSE) /\ UNCHANGED cache
         \/ /\ found[r] # NULL
            /\ cache' = [cache EXCEPT ![w][k] = Filled(w, k, found[r])]
            /\ Decide(r, Alive(found[r]))
      /\ found' = [found EXCEPT ![r] = NULL]
      /\ UNCHANGED <<shared, listening, inbox, at, key, purged, raced>>

(* The decided request goes on, or the lookup fails (500).                 *)
Leave(r) ==
  /\ pc[r] # "idle"
  /\ pc' = [pc EXCEPT ![r] = "idle"]
  /\ at' = [at EXCEPT ![r] = NULL]
  /\ key' = [key EXCEPT ![r] = NULL]
  /\ found' = [found EXCEPT ![r] = NULL]
  /\ since' = [since EXCEPT ![r] = 0]
  /\ UNCHANGED <<shared, process, purged, raced>>

-----------------------------------------------------------------------------
(* scripts/tenant.js                                                       *)

(* `key`; an expiry is given to a key by an operator's SQL.                *)
Mint(k, expires) ==
  /\ row[k] = NULL
  /\ row' = [row EXCEPT ![k] = [expires |-> expires, revoked |-> NULL]]
  /\ UNCHANGED <<now, unpublished, process, request, purged, raced>>

Revocable(p) == {k \in Keys : Prefix[k] = p /\ row[k] # NULL /\ row[k].revoked = NULL}

(* `revoke` names a prefix, and every key that has it is revoked.  The     *)
(* UPDATE is committed before anything is published.                       *)
Revoke(p) ==
  /\ Revocable(p) # {}
  /\ row' = [k \in Keys |-> IF k \in Revocable(p) THEN [row[k] EXCEPT !.revoked = now]
                                                 ELSE row[k]]
  /\ unpublished' = unpublished \cup Revocable(p)
  /\ UNCHANGED <<now, process, request, purged, raced>>

Publish(k) ==
  /\ k \in unpublished
  /\ unpublished' = unpublished \ {k}
  /\ inbox' = [w \in Workers |-> IF w \in listening THEN inbox[w] \cup {k} ELSE inbox[w]]
  /\ UNCHANGED <<now, row, cache, listening, request, purged, raced>>

(* Redis cannot be reached: the script prints that and publishes no more.  *)
PublishFails(p) ==
  /\ \E k \in unpublished : Prefix[k] = p
  /\ unpublished' = {k \in unpublished : Prefix[k] # p}
  /\ UNCHANGED <<now, row, process, request, purged, raced>>

-----------------------------------------------------------------------------
(* subscribeInvalidation, and the life of a worker                         *)

(* Established some time after the worker has begun to serve.              *)
Subscribe(w) ==
  /\ w \notin listening
  /\ listening' = listening \cup {w}
  /\ UNCHANGED <<shared, cache, inbox, request, purged, raced>>

(* The connection to Redis breaks; what was on its way is lost.            *)
Disconnect(w) ==
  /\ w \in listening
  /\ listening' = listening \ {w}
  /\ inbox' = [inbox EXCEPT ![w] = {}]
  /\ UNCHANGED <<shared, cache, request, purged, raced>>

(* Mutant: the purge marks nothing.                                        *)
CacheWithoutKept(w, k) == cache

CacheWithout(w, k) == [cache EXCEPT ![w][k] = NULL]

(* The handler of a purge message.                                         *)
Purge(w, k) ==
  /\ k \in inbox[w]
  /\ inbox' = [inbox EXCEPT ![w] = @ \ {k}]
  /\ cache' = CacheWithout(w, k)
  /\ purged' = [purged EXCEPT ![w] = @ \cup {k}]
  /\ raced' = [raced EXCEPT ![w] = IF \E r \in Reqs : at[r] = w /\ HoldsOlderRow(r, k)
                                   THEN @ \cup {k} ELSE @]
  /\ UNCHANGED <<shared, listening, request>>

(* The process dies and is started again.                                  *)
Restart(w) ==
  LET gone == {r \in Reqs : at[r] = w}
  IN  /\ cache' = [cache EXCEPT ![w] = [k \in Keys |-> NULL]]
      /\ listening' = listening \ {w}
      /\ inbox' = [inbox EXCEPT ![w] = {}]
      /\ pc' = [r \in Reqs |-> IF r \in gone THEN "idle" ELSE pc[r]]
      /\ at' = [r \in Reqs |-> IF r \in gone THEN NULL ELSE at[r]]
      /\ key' = [r \in Reqs |-> IF r \in gone THEN NULL ELSE key[r]]
      /\ found' = [r \in Reqs |-> IF r \in gone THEN NULL ELSE found[r]]
      /\ since' = [r \in Reqs |-> IF r \in gone THEN 0 ELSE since[r]]
      /\ UNCHANGED <<shared, purged, raced>>

(* Time passes, but no lookup outlasts MaxLookup.                          *)
Tick ==
  /\ now < MaxTime
  /\ \A r \in Reqs : pc[r] \in {"lookup", "fill"} => now < since[r] + MaxLookup
  /\ now' = now + 1
  /\ UNCHANGED <<row, unpublished, process, request, purged, raced>>

Next ==
  \/ \E r \in Reqs :
       \/ \E w \in Workers, k \in Keys : Arrive(r, w, k)
       \/ ReadRow(r) \/ Fill(r) \/ Leave(r)
  \/ \E k \in Keys :
       \/ \E expires \in Expiries : Mint(k, expires)
       \/ Publish(k)
  \/ \E p \in {Prefix[k] : k \in Keys} : Revoke(p) \/ PublishFails(p)
  \/ \E w \in Workers :
       \/ Subscribe(w) \/ Disconnect(w) \/ Restart(w)
       \/ \E k \in Keys : Purge(w, k)
  \/ Tick

Spec == Init /\ [][Next]_vars

-----------------------------------------------------------------------------
(* Properties.                                                             *)

Accepted(r) == pc[r] = "accepted"

(* An expired key is never accepted, cached or not: the expiry in the      *)
(* record is compared with the clock at every request (auth.js:66-71).     *)
ExpiryHonoured ==
  \A r \in Reqs : Accepted(r) /\ row[key[r]].expires # NULL => since[r] <= row[key[r]].expires

(* Whatever happens to the purge, a revoked key is accepted for less than  *)
(* a time to live and the duration of one lookup (auth.js:37, 56).         *)
RevocationIsBounded ==
  \A r \in Reqs : Accepted(r) /\ row[key[r]].revoked # NULL =>
    since[r] < row[key[r]].revoked + MaxLookup + TTL

(* "a revoked key dies immediately across all workers" (SECURITY.md:48):   *)
(* a worker that has processed the purge of a key accepts it no more, not  *)
(* even for a request whose lookup was under way, unless a lookup of its   *)
(* own held an older row of the key at that moment (auth.js:20, 42-56).    *)
PurgedKeyIsDeadUnlessRaced ==
  [][\A r \in Reqs : ~ Accepted(r) /\ Accepted(r)' =>
       key'[r] \notin purged[at'[r]] \ raced[at'[r]]]_vars

-----------------------------------------------------------------------------
(* What makes the properties inductive.                                    *)

(* Copies of a row agree with it or are older; older ones are young.       *)
CopiesOK ==
  /\ \A k \in Keys : row[k] # NULL /\ row[k].revoked # NULL => row[k].revoked <= now
  /\ \A r \in Reqs :
       /\ since[r] <= now
       /\ pc[r] = "fill" /\ found[r] # NULL =>
            /\ row[key[r]] # NULL
            /\ found[r].expires = row[key[r]].expires
            /\ found[r].revoked \in {NULL, row[key[r]].revoked}
            /\ found[r].revoked # row[key[r]].revoked => since[r] <= row[key[r]].revoked
       /\ pc[r] \in {"lookup", "fill"} => now <= since[r] + MaxLookup
  /\ \A w \in Workers, k \in Keys : cache[w][k] # NULL =>
       /\ cache[w][k].put <= now
       /\ cache[w][k].record.revoked # row[k].revoked =>
            cache[w][k].put <= row[k].revoked + MaxLookup

(* A key that was accepted exists.                                         *)
AcceptedOK == \A r \in Reqs : Accepted(r) => row[key[r]] # NULL

(* Only revoked keys are purged.                                           *)
PurgesOK ==
  \A k \in Keys :
    k \in unpublished \/ (\E w \in Workers : k \in inbox[w] \cup purged[w])
    => row[k] # NULL /\ row[k].revoked # NULL

(* After a purge without a race no older copy is left at the worker.       *)
PurgedOK ==
  \A w \in Workers : \A k \in purged[w] \ raced[w] :
    /\ cache[w][k] # NULL => cache[w][k].record.revoked # NULL
    /\ \A r \in Reqs : at[r] = w => ~ HoldsOlderRow(r, k)
=============================================================================
