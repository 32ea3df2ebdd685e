--------------------------- MODULE KeyCacheProofs ---------------------------
(***************************************************************************)
(* What KeyCache guarantees for every number of workers, requests and      *)
(* keys, every time to live and every bound on the duration of a lookup.   *)
(***************************************************************************)
EXTENDS KeyCache, TLAPS

USE DEF Time

LEMMA InitOK == Init => TypeOK /\ CopiesOK /\ PurgesOK /\ PurgedOK
  BY KeyAssumption DEF Init, TypeOK, CopiesOK, PurgesOK, PurgedOK

LEMMA ArriveStep ==
  ASSUME TypeOK, CopiesOK, NEW r \in Reqs, NEW w \in Workers, NEW k \in Keys, Arrive(r, w, k)
  PROVE  TypeOK' /\ CopiesOK'
<1>1. /\ UNCHANGED <<now, row, unpublished, cache, listening, inbox, found, purged, raced>>
      /\ at' = [at EXCEPT ![r] = w] /\ key' = [key EXCEPT ![r] = k]
      /\ since' = [since EXCEPT ![r] = now]
  BY DEF Arrive, Decide, shared, process
<1>2. PICK where \in {"lookup", "accepted", "refused"} : pc' = [pc EXCEPT ![r] = where]
  BY DEF Arrive, Decide
<1>3. TypeOK'
  BY <1>1, <1>2 DEF TypeOK
<1>4. CopiesOK'
  BY KeyAssumption, <1>1, <1>2 DEF TypeOK, CopiesOK
<1> QED
  BY <1>3, <1>4

LEMMA ReadRowStep ==
  ASSUME TypeOK, CopiesOK, NEW r \in Reqs, ReadRow(r)
  PROVE  TypeOK' /\ CopiesOK'
<1>1. TypeOK'
  BY KeyAssumption DEF ReadRow, shared, process, TypeOK
<1>2. CopiesOK'
  BY KeyAssumption DEF ReadRow, shared, process, TypeOK, CopiesOK
<1> QED
  BY <1>1, <1>2

LEMMA FillStep ==
  ASSUME TypeOK, CopiesOK, NEW r \in Reqs, Fill(r)
  PROVE  TypeOK' /\ CopiesOK'
<1> DEFINE w == at[r]
           k == key[r]
<1>1. /\ UNCHANGED <<now, row, unpublished, listening, inbox, at, key, purged, raced>>
      /\ found' = [found EXCEPT ![r] = NULL]
      /\ since' = [since EXCEPT ![r] = now]
      /\ pc[r] = "fill"
  BY DEF Fill, Decide, shared
<1>2. PICK where \in {"accepted", "refused"} : pc' = [pc EXCEPT ![r] = where]
  BY DEF Fill, Decide
<1>3. w \in Workers /\ k \in Keys
  BY <1>1 DEF TypeOK
<1>4. CASE UNCHANGED cache
  <2>1. TypeOK'
    BY <1>1, <1>2, <1>4 DEF TypeOK
  <2>2. CopiesOK'
    BY KeyAssumption, <1>1, <1>2, <1>4 DEF TypeOK, CopiesOK
  <2> QED
    BY <2>1, <2>2
<1>5. CASE /\ found[r] # NULL
           /\ cache' = [cache EXCEPT ![w][k] = Filled(w, k, found[r])]
  <2> DEFINE entry == [record |-> found[r], put |-> now]
  <2>1. found[r] \in KeyRow /\ entry \in Entry
    BY <1>5 DEF TypeOK, Entry
  <2>2. /\ cache'[w][k] = entry
        /\ \A v \in Workers, j \in Keys :
             v # w \/ j # k => cache'[v][j] = cache[v][j]
        /\ cache' \in [Workers -> [Keys -> Entry \cup {NULL}]]
    BY <1>3, <1>5, <2>1 DEF TypeOK, Filled
  <2>3. /\ row[k] # NULL /\ found[r].expires = row[k].expires
        /\ found[r].revoked \in {NULL, row[k].revoked}
        /\ found[r].revoked # row[k].revoked =>
             now <= row[k].revoked + MaxLookup
    <3>1. /\ row[k] # NULL /\ found[r].expires = row[k].expires
          /\ found[r].revoked \in {NULL, row[k].revoked}
          /\ found[r].revoked # row[k].revoked => since[r] <= row[k].revoked
          /\ now <= since[r] + MaxLookup
      BY <1>1, <1>5 DEF CopiesOK
    <3>2. row[k] \in KeyRow /\ since[r] \in Time /\ now \in Time
      BY <1>3, <3>1 DEF TypeOK
    <3>3. CASE found[r].revoked # row[k].revoked
      <4>1. row[k].revoked \in Time /\ since[r] <= row[k].revoked
        BY <3>1, <3>2, <3>3 DEF KeyRow
      <4> QED
        BY <3>1, <3>2, <4>1, KeyAssumption
    <3> QED
      BY <3>1, <3>3
  <2>4. \A v \in Workers, j \in Keys : cache'[v][j] # NULL =>
          /\ row[j] # NULL
          /\ cache'[v][j].record.expires = row[j].expires
          /\ cache'[v][j].record.revoked \in {NULL, row[j].revoked}
          /\ cache'[v][j].put <= now
          /\ cache'[v][j].record.revoked # row[j].revoked =>
               cache'[v][j].put <= row[j].revoked + MaxLookup
    <3> SUFFICES ASSUME NEW v \in Workers, NEW j \in Keys, cache'[v][j] # NULL
                 PROVE  /\ row[j] # NULL
                        /\ cache'[v][j].record.expires = row[j].expires
                        /\ cache'[v][j].record.revoked \in {NULL, row[j].revoked}
                        /\ cache'[v][j].put <= now
                        /\ cache'[v][j].record.revoked # row[j].revoked =>
                             cache'[v][j].put <= row[j].revoked + MaxLookup
      OBVIOUS
    <3>1. CASE v # w \/ j # k
      <4>1. cache'[v][j] = cache[v][j]
        BY <2>2, <3>1
      <4>2. /\ row[j] # NULL
            /\ cache[v][j].record.expires = row[j].expires
            /\ cache[v][j].record.revoked \in {NULL, row[j].revoked}
        BY <4>1 DEF TypeOK
      <4>3. /\ cache[v][j].put <= now
            /\ cache[v][j].record.revoked # row[j].revoked =>
                 cache[v][j].put <= row[j].revoked + MaxLookup
        BY <4>1 DEF CopiesOK
      <4> QED
        BY <4>1, <4>2, <4>3
    <3>2. CASE v = w /\ j = k
      <4>1. cache'[v][j] = entry
        BY <2>2, <3>2
      <4>2. cache'[v][j].record = found[r] /\ cache'[v][j].put = now
        BY <4>1
      <4> QED
        BY <2>3, <3>2, <4>2 DEF TypeOK
    <3> QED
      BY <3>1, <3>2
  <2>5. TypeOK'
    BY <1>1, <1>2, <2>2, <2>4 DEF TypeOK
  <2>6. CopiesOK'
    BY KeyAssumption, <1>1, <1>2, <2>4 DEF TypeOK, CopiesOK
  <2> QED
    BY <2>5, <2>6
<1> QED
  BY <1>4, <1>5 DEF Fill

LEMMA LeaveStep ==
  ASSUME TypeOK, CopiesOK, NEW r \in Reqs, Leave(r)
  PROVE  TypeOK' /\ CopiesOK'
<1>1. TypeOK'
  BY KeyAssumption DEF Leave, shared, process, TypeOK
<1>2. CopiesOK'
  BY KeyAssumption DEF Leave, shared, process, TypeOK, CopiesOK
<1> QED
  BY <1>1, <1>2

LEMMA MintStep ==
  ASSUME TypeOK, CopiesOK, NEW k \in Keys, NEW expires \in Expiries, Mint(k, expires)
  PROVE  TypeOK' /\ CopiesOK'
<1>1. TypeOK'
  BY KeyAssumption, RecordAssumption DEF Mint, process, request, TypeOK, KeyRow
<1>2. CopiesOK'
  BY KeyAssumption, RecordAssumption DEF Mint, process, request, TypeOK, CopiesOK, KeyRow
<1> QED
  BY <1>1, <1>2

LEMMA RevokeStep ==
  ASSUME TypeOK, CopiesOK, NEW p, Revoke(p)
  PROVE  TypeOK' /\ CopiesOK'
<1>1. UNCHANGED <<now, cache, listening, inbox, pc, at, key, found, since, purged, raced>>
  BY DEF Revoke, process, request
<1>2. ASSUME NEW k \in Keys, row[k] # NULL, row[k].revoked = NULL,
             row'[k] = [row[k] EXCEPT !.revoked = now]
      PROVE  /\ row'[k] \in KeyRow /\ row'[k] # NULL
             /\ row'[k].expires = row[k].expires /\ row'[k].revoked = now
  BY <1>2, RecordAssumption DEF TypeOK, KeyRow
<1>3. \A k \in Keys :
        \/ row'[k] = row[k]
        \/ /\ row[k] # NULL /\ row[k].revoked = NULL
           /\ row'[k] \in KeyRow /\ row'[k] # NULL
           /\ row'[k].expires = row[k].expires /\ row'[k].revoked = now
  BY <1>2 DEF Revoke, Revocable
<1>4. row' \in [Keys -> KeyRow \cup {NULL}]
  BY <1>3 DEF Revoke, TypeOK
<1>5. unpublished' \subseteq Keys
  BY DEF Revoke, Revocable, TypeOK
<1>6. TypeOK'
  BY <1>1, <1>3, <1>4, <1>5 DEF TypeOK
<1>7. \A k \in Keys : row'[k] # NULL /\ row'[k].revoked # NULL => row'[k].revoked <= now
  BY <1>3 DEF TypeOK, CopiesOK
<1>8. ASSUME NEW r \in Reqs, pc[r] = "fill", found[r] # NULL
      PROVE  /\ row'[key[r]] # NULL
             /\ found[r].expires = row'[key[r]].expires
             /\ found[r].revoked \in {NULL, row'[key[r]].revoked}
             /\ found[r].revoked # row'[key[r]].revoked => since[r] <= row'[key[r]].revoked
  BY <1>3, <1>8 DEF TypeOK, CopiesOK
<1>9. ASSUME NEW w \in Workers, NEW k \in Keys, cache[w][k] # NULL
      PROVE  cache[w][k].record.revoked # row'[k].revoked =>
               cache[w][k].put <= row'[k].revoked + MaxLookup
  <2>1. CASE row'[k] = row[k]
    BY <1>9, <2>1 DEF CopiesOK
  <2>2. CASE row'[k].revoked = now
    <3>1. cache[w][k].put <= now /\ cache[w][k].put \in Time /\ now \in Time
      BY <1>9 DEF CopiesOK, TypeOK, Entry
    <3> QED
      BY <2>2, <3>1, KeyAssumption
  <2> QED
    BY <1>3, <2>1, <2>2
<1>10. CopiesOK'
  BY <1>1, <1>7, <1>8, <1>9 DEF CopiesOK
<1> QED
  BY <1>6, <1>10

LEMMA TickStep ==
  ASSUME TypeOK, CopiesOK, Tick
  PROVE  TypeOK' /\ CopiesOK'
<1>1. TypeOK'
  BY KeyAssumption DEF Tick, process, request, TypeOK, KeyRow
<1>2. CopiesOK'
  BY KeyAssumption DEF Tick, process, request, TypeOK, CopiesOK, KeyRow, Entry
<1> QED
  BY <1>1, <1>2

LEMMA MessageStep ==
  ASSUME TypeOK, CopiesOK,
         \/ \E k \in Keys : Publish(k)
         \/ \E p : PublishFails(p)
         \/ \E w \in Workers : Subscribe(w) \/ Disconnect(w)
  PROVE  TypeOK' /\ CopiesOK'
<1>1. ASSUME NEW k \in Keys, Publish(k)
      PROVE  /\ UNCHANGED <<now, row, cache, listening, request, purged, raced>>
             /\ unpublished' \subseteq Keys
             /\ inbox' \in [Workers -> SUBSET Keys]
  BY <1>1 DEF Publish, TypeOK
<1>2. ASSUME NEW p, PublishFails(p)
      PROVE  /\ UNCHANGED <<now, row, process, request, purged, raced>>
             /\ unpublished' \subseteq Keys
  BY <1>2 DEF PublishFails, TypeOK
<1>3. ASSUME NEW w \in Workers, Subscribe(w) \/ Disconnect(w)
      PROVE  /\ UNCHANGED <<shared, cache, request, purged, raced>>
             /\ listening' \subseteq Workers
             /\ inbox' \in [Workers -> SUBSET Keys]
  BY <1>3 DEF Subscribe, Disconnect, TypeOK
<1>4. /\ UNCHANGED <<now, row, cache, request, purged, raced>>
      /\ unpublished' \subseteq Keys /\ listening' \subseteq Workers
      /\ inbox' \in [Workers -> SUBSET Keys]
  BY <1>1, <1>2, <1>3 DEF TypeOK, shared, process
<1>5. TypeOK'
  BY <1>4 DEF TypeOK, request
<1>6. CopiesOK'
  BY <1>4 DEF CopiesOK, request
<1> QED
  BY <1>5, <1>6

LEMMA PurgeStep ==
  ASSUME TypeOK, CopiesOK, NEW w \in Workers, NEW k \in Keys, Purge(w, k)
  PROVE  TypeOK' /\ CopiesOK'
<1>1. TypeOK'
  BY DEF Purge, CacheWithout, shared, request, TypeOK
<1>2. CopiesOK'
  BY DEF Purge, CacheWithout, shared, request, TypeOK, CopiesOK
<1> QED
  BY <1>1, <1>2

LEMMA RestartStep ==
  ASSUME TypeOK, CopiesOK, NEW w \in Workers, Restart(w)
  PROVE  TypeOK' /\ CopiesOK'
<1>1. TypeOK'
  BY KeyAssumption DEF Restart, shared, TypeOK
<1>2. CopiesOK'
  BY KeyAssumption DEF Restart, shared, TypeOK, CopiesOK
<1> QED
  BY <1>1, <1>2

(* Together: the copies of a row that workers hold are the row or an older *)
(* version of it, and an older one was read no longer than a lookup ago    *)
(* when the key was revoked.                                               *)
LEMMA CopiesStep == TypeOK /\ CopiesOK /\ [Next]_vars => TypeOK' /\ CopiesOK'
<1> SUFFICES ASSUME TypeOK, CopiesOK, [Next]_vars PROVE TypeOK' /\ CopiesOK'
  OBVIOUS
<1>1. CASE UNCHANGED vars
  BY <1>1 DEF vars, shared, process, request, TypeOK, CopiesOK
<1> QED
  BY <1>1, ArriveStep, ReadRowStep, FillStep, LeaveStep, MintStep, RevokeStep, TickStep,
     MessageStep, PurgeStep, RestartStep
     DEF Next

(* Every reachable state is well typed; a cached record is never that of   *)
(* another key, nor newer than the row.                                    *)
THEOREM TypeCorrect == Spec => []TypeOK
<1> QED
  BY InitOK, CopiesStep, PTL DEF Spec

-----------------------------------------------------------------------------
(* Expiry and revocation.                                                  *)

(* What a step can do to a key: revoke it, once.                           *)
LEMMA RowStep ==
  ASSUME TypeOK, [Next]_vars, NEW k \in Keys, row[k] # NULL
  PROVE  /\ row'[k] # NULL
         /\ row'[k].expires = row[k].expires
         /\ \/ row'[k].revoked = row[k].revoked
            \/ row[k].revoked = NULL /\ row'[k].revoked = now
<1>1. CASE UNCHANGED row
  BY <1>1
<1>2. ASSUME NEW j \in Keys, NEW expires, Mint(j, expires)
      PROVE  row'[k] = row[k]
  BY <1>2 DEF Mint, TypeOK
<1>3. ASSUME NEW p, Revoke(p)
      PROVE  \/ row'[k] = row[k]
             \/ row[k].revoked = NULL /\ row'[k] = [row[k] EXCEPT !.revoked = now]
  BY <1>3 DEF Revoke, Revocable
<1>4. \/ row'[k] = row[k]
      \/ row[k].revoked = NULL /\ row'[k] = [row[k] EXCEPT !.revoked = now]
  BY <1>1, <1>2, <1>3
     DEF Next, vars, shared, Arrive, ReadRow, Fill, Leave, Publish, PublishFails,
         Subscribe, Disconnect, Purge, Restart, Tick
<1> QED
  BY <1>4, RecordAssumption DEF TypeOK, KeyRow

(* Who can decide a request, and what an accepted request can become.      *)
LEMMA RequestStep ==
  ASSUME TypeOK, [Next]_vars, NEW r \in Reqs, Accepted(r)'
  PROVE  \/ pc[r] = "idle" /\ \E w \in Workers, k \in Keys : Arrive(r, w, k)
         \/ pc[r] = "fill" /\ Fill(r)
         \/ Accepted(r) /\ UNCHANGED <<key[r], since[r]>>
<1> DEFINE Goal ==
      \/ pc[r] = "idle" /\ \E w \in Workers, k \in Keys : Arrive(r, w, k)
      \/ pc[r] = "fill" /\ Fill(r)
      \/ Accepted(r) /\ UNCHANGED <<key[r], since[r]>>
<1>1. ASSUME NEW q \in Reqs, NEW w \in Workers, NEW k \in Keys, Arrive(q, w, k)
      PROVE  Goal
  <2>1. CASE q = r
    BY <1>1, <2>1 DEF Arrive
  <2>2. CASE q # r
    <3>1. pc'[r] = pc[r] /\ key'[r] = key[r] /\ since'[r] = since[r]
      BY <1>1, <2>2 DEF Arrive, Decide, TypeOK
    <3> QED
      BY <3>1 DEF Accepted
  <2> QED
    BY <2>1, <2>2
<1>2. ASSUME NEW q \in Reqs, ReadRow(q)
      PROVE  Goal
  BY <1>2 DEF ReadRow, Accepted, TypeOK
<1>3. ASSUME NEW q \in Reqs, Fill(q)
      PROVE  Goal
  <2>1. CASE q = r
    BY <1>3, <2>1 DEF Fill
  <2>2. CASE q # r
    <3>1. pc'[r] = pc[r] /\ key'[r] = key[r] /\ since'[r] = since[r]
      BY <1>3, <2>2 DEF Fill, Decide, TypeOK
    <3> QED
      BY <3>1 DEF Accepted
  <2> QED
    BY <2>1, <2>2
<1>4. ASSUME NEW q \in Reqs, Leave(q)
      PROVE  Goal
  BY <1>4 DEF Leave, Accepted, TypeOK
<1>5. ASSUME NEW w \in Workers, Restart(w)
      PROVE  Goal
  BY <1>5 DEF Restart, Accepted, TypeOK
<1>6. CASE UNCHANGED request
  BY <1>6 DEF request, Accepted
<1> QED
  BY <1>1, <1>2, <1>3, <1>4, <1>5, <1>6
     DEF Next, vars, Mint, Revoke, Publish, PublishFails, Subscribe, Disconnect, Purge, Tick

(* The record a request was accepted on: a young copy of the key's row.    *)
LEMMA Decision ==
  ASSUME TypeOK, CopiesOK, NEW r \in Reqs, Accepted(r)',
         \/ \E w \in Workers, k \in Keys : Arrive(r, w, k)
         \/ Fill(r)
  PROVE  LET k == key'[r] IN
         /\ k \in Keys /\ row' = row /\ since'[r] = now
         /\ row[k] # NULL
         /\ row[k].expires # NULL => now <= row[k].expires
         /\ row[k].revoked # NULL => now < row[k].revoked + MaxLookup + TTL
<1>1. ASSUME NEW w \in Workers, NEW k \in Keys, Arrive(r, w, k)
      PROVE  /\ key'[r] = k /\ row' = row /\ since'[r] = now
             /\ row[k] # NULL
             /\ row[k].expires # NULL => now <= row[k].expires
             /\ row[k].revoked # NULL => now < row[k].revoked + MaxLookup + TTL
  <2>1. /\ Fresh(cache[w][k]) /\ Alive(cache[w][k].record)
        /\ key'[r] = k /\ row' = row /\ since'[r] = now
    BY <1>1 DEF Arrive, AliveOnHit, Decide, Accepted, TypeOK, shared
  <2>2. /\ cache[w][k] # NULL /\ now - cache[w][k].put < TTL
        /\ cache[w][k] \in Entry
    BY <2>1 DEF Fresh, TypeOK
  <2>3. /\ row[k] # NULL /\ row[k] \in KeyRow
        /\ cache[w][k].record.expires = row[k].expires
        /\ cache[w][k].record.revoked # row[k].revoked =>
             cache[w][k].put <= row[k].revoked + MaxLookup
    BY <2>2 DEF TypeOK, CopiesOK
  <2>4. row[k].expires # NULL => now <= row[k].expires
    <3>1. ASSUME row[k].expires # NULL
          PROVE  row[k].expires >= now
      BY <2>1, <2>3, <3>1 DEF Alive
    <3>2. now \in Nat /\ row[k].expires \in Nat \cup {NULL}
      BY <2>3 DEF TypeOK, KeyRow
    <3> QED
      BY <3>1, <3>2
  <2>5. row[k].revoked # NULL => now < row[k].revoked + MaxLookup + TTL
    <3>1. ASSUME row[k].revoked # NULL
          PROVE  cache[w][k].put <= row[k].revoked + MaxLookup
      BY <2>1, <2>3, <3>1 DEF Alive
    <3>2. now \in Nat /\ cache[w][k].put \in Nat /\ row[k].revoked \in Nat \cup {NULL}
      BY <2>2, <2>3 DEF TypeOK, KeyRow, Entry
    <3> QED
      BY <2>2, <3>1, <3>2, KeyAssumption
  <2> QED
    BY <2>1, <2>3, <2>4, <2>5
<1>2. ASSUME Fill(r)
      PROVE  /\ key'[r] \in Keys /\ row' = row /\ since'[r] = now
             /\ row[key'[r]] # NULL
             /\ row[key'[r]].expires # NULL => now <= row[key'[r]].expires
             /\ row[key'[r]].revoked # NULL =>
                  now < row[key'[r]].revoked + MaxLookup + TTL
  <2> DEFINE k == key[r]
  <2>1. /\ pc[r] = "fill" /\ found[r] # NULL /\ Alive(found[r])
        /\ key'[r] = k /\ row' = row /\ since'[r] = now
    BY <1>2 DEF Fill, Decide, Accepted, TypeOK, shared
  <2>2. /\ k \in Keys /\ row[k] # NULL /\ row[k] \in KeyRow
        /\ found[r].expires = row[k].expires
        /\ found[r].revoked # row[k].revoked => since[r] <= row[k].revoked
        /\ now <= since[r] + MaxLookup
    BY <2>1 DEF TypeOK, CopiesOK
  <2>3. now \in Nat /\ since[r] \in Nat
        /\ row[k].expires \in Nat \cup {NULL} /\ row[k].revoked \in Nat \cup {NULL}
    BY <2>2 DEF TypeOK, KeyRow
  <2>4. row[k].expires # NULL => now <= row[k].expires
    <3>1. ASSUME row[k].expires # NULL
          PROVE  row[k].expires >= now
      BY <2>1, <2>2, <3>1 DEF Alive
    <3> QED
      BY <2>3, <3>1
  <2>5. row[k].revoked # NULL => now < row[k].revoked + MaxLookup + TTL
    <3>1. ASSUME row[k].revoked # NULL
          PROVE  since[r] <= row[k].revoked
      BY <2>1, <2>2, <3>1 DEF Alive
    <3> QED
      BY <2>2, <2>3, <3>1, KeyAssumption
  <2> QED
    BY <2>1, <2>2, <2>4, <2>5
<1> QED
  BY <1>1, <1>2

LEMMA AcceptedStep ==
  ASSUME TypeOK, CopiesOK, AcceptedOK, [Next]_vars, NEW r \in Reqs, Accepted(r)'
  PROVE  row'[key'[r]] # NULL
<1>1. CASE Accepted(r) /\ UNCHANGED <<key[r], since[r]>>
  <2>1. key[r] \in Keys /\ row[key[r]] # NULL
    BY <1>1 DEF AcceptedOK, Accepted, TypeOK
  <2> QED
    BY <1>1, <2>1, RowStep
<1> QED
  BY <1>1, RequestStep, Decision

(* An expired key is never accepted: not from the cache either, and not by *)
(* a lookup that began before the expiry.                                  *)
THEOREM ExpiredKeysAreRefused == Spec => []ExpiryHonoured
<1>1. Init => AcceptedOK /\ ExpiryHonoured
  BY DEF Init, AcceptedOK, ExpiryHonoured, Accepted
<1>2. TypeOK /\ CopiesOK /\ AcceptedOK /\ [Next]_vars => AcceptedOK'
  BY AcceptedStep DEF AcceptedOK
<1>3. TypeOK /\ CopiesOK /\ AcceptedOK /\ ExpiryHonoured /\ [Next]_vars => ExpiryHonoured'
  <2> SUFFICES ASSUME TypeOK, CopiesOK, AcceptedOK, ExpiryHonoured, [Next]_vars,
                      NEW r \in Reqs, Accepted(r)', row'[key'[r]].expires # NULL
               PROVE  since'[r] <= row'[key'[r]].expires
    BY DEF ExpiryHonoured
  <2>1. CASE Accepted(r) /\ UNCHANGED <<key[r], since[r]>>
    <3>1. key[r] \in Keys /\ row[key[r]] # NULL
      BY <2>1 DEF AcceptedOK, Accepted, TypeOK
    <3>2. row'[key[r]].expires = row[key[r]].expires
      BY <3>1, RowStep
    <3> QED
      BY <2>1, <3>2 DEF ExpiryHonoured
  <2> QED
    BY <2>1, RequestStep, Decision
<1> QED
  BY <1>1, <1>2, <1>3, InitOK, CopiesStep, PTL DEF Spec

(* A revoked key dies on every worker within one lookup and one time to    *)
(* live, whether or not any purge message ever arrives.                    *)
THEOREM RevokedKeysDie == Spec => []RevocationIsBounded
<1>1. Init => AcceptedOK /\ RevocationIsBounded
  BY DEF Init, AcceptedOK, RevocationIsBounded, Accepted
<1>2. TypeOK /\ CopiesOK /\ AcceptedOK /\ [Next]_vars => AcceptedOK'
  BY AcceptedStep DEF AcceptedOK
<1>3. TypeOK /\ CopiesOK /\ AcceptedOK /\ RevocationIsBounded /\ [Next]_vars
        => RevocationIsBounded'
  <2> SUFFICES ASSUME TypeOK, CopiesOK, AcceptedOK, RevocationIsBounded, [Next]_vars,
                      NEW r \in Reqs, Accepted(r)', row'[key'[r]].revoked # NULL
               PROVE  since'[r] < row'[key'[r]].revoked + MaxLookup + TTL
    BY DEF RevocationIsBounded
  <2>1. CASE Accepted(r) /\ UNCHANGED <<key[r], since[r]>>
    <3>1. key[r] \in Keys /\ row[key[r]] # NULL
      BY <2>1 DEF AcceptedOK, Accepted, TypeOK
    <3>2. CASE row'[key[r]].revoked = row[key[r]].revoked
      BY <2>1, <3>2 DEF RevocationIsBounded
    <3>3. CASE row'[key[r]].revoked = now
      <4>1. since[r] <= now /\ since[r] \in Nat /\ now \in Nat
        BY DEF CopiesOK, TypeOK
      <4> QED
        BY <2>1, <3>3, <4>1, KeyAssumption
    <3> QED
      BY <3>1, <3>2, <3>3, RowStep
  <2> QED
    BY <2>1, RequestStep, Decision
<1> QED
  BY <1>1, <1>2, <1>3, InitOK, CopiesStep, PTL DEF Spec


-----------------------------------------------------------------------------
(* Purges.                                                                 *)

LEMMA PurgesStep == TypeOK /\ PurgesOK /\ [Next]_vars => PurgesOK'
<1> DEFINE Marked(k) == k \in unpublished \/ \E w \in Workers : k \in inbox[w] \cup purged[w]
           Dead(k) == row[k] # NULL /\ row[k].revoked # NULL
<1> SUFFICES ASSUME TypeOK, PurgesOK, [Next]_vars, NEW k \in Keys, Marked(k)'
             PROVE  Dead(k)'
  BY DEF PurgesOK
<1>1. Dead(k) => Dead(k)'
  BY RowStep
<1>2. Marked(k) => Dead(k)
  BY DEF PurgesOK
<1>3. ASSUME NEW p, Revoke(p)
      PROVE  Dead(k)'
  <2>1. CASE k \in Revocable(p)
    <3>1. row'[k] = [row[k] EXCEPT !.revoked = now] /\ row[k] \in KeyRow
      BY <1>3, <2>1 DEF Revoke, Revocable, TypeOK
    <3> QED
      BY <3>1, KeyAssumption, RecordAssumption DEF TypeOK, KeyRow
  <2>2. CASE k \notin Revocable(p)
    BY <1>1, <1>2, <1>3, <2>2 DEF Revoke, process
  <2> QED
    BY <2>1, <2>2
<1>4. ASSUME NEW j \in Keys, Publish(j)
      PROVE  Marked(k)
  BY <1>4 DEF Publish, TypeOK
<1>5. ASSUME NEW p, PublishFails(p)
      PROVE  Marked(k)
  BY <1>5 DEF PublishFails, process
<1>6. ASSUME NEW v \in Workers, Subscribe(v) \/ Disconnect(v) \/ Restart(v)
      PROVE  Marked(k)
  BY <1>6 DEF Subscribe, Disconnect, Restart, shared, TypeOK
<1>7. ASSUME NEW v \in Workers, NEW j \in Keys, Purge(v, j)
      PROVE  Marked(k)
  <2>1. UNCHANGED unpublished
    BY <1>7 DEF Purge, shared
  <2>2. \A w \in Workers : inbox'[w] \cup purged'[w] \subseteq inbox[w] \cup purged[w]
    BY <1>7 DEF Purge, TypeOK
  <2> QED
    BY <2>1, <2>2
<1>8. CASE UNCHANGED <<unpublished, inbox, purged>>
  BY <1>1, <1>2, <1>8
<1> QED
  BY <1>1, <1>2, <1>3, <1>4, <1>5, <1>6, <1>7, <1>8
     DEF Next, vars, shared, process, Arrive, ReadRow, Fill, Leave, Mint, Tick

LEMMA PurgedStep ==
  TypeOK /\ CopiesOK /\ PurgesOK /\ PurgedOK /\ [Next]_vars => PurgedOK'
<1> DEFINE Clean(w, k) ==
      /\ cache[w][k] # NULL => cache[w][k].record.revoked # NULL
      /\ \A r \in Reqs : at[r] = w => ~ HoldsOlderRow(r, k)
<1> SUFFICES ASSUME TypeOK, CopiesOK, PurgesOK, PurgedOK, [Next]_vars,
                    NEW w \in Workers, NEW k \in purged'[w] \ raced'[w]
             PROVE  Clean(w, k)'
  BY DEF PurgedOK
<1>0. k \in Keys
  BY CopiesStep DEF TypeOK
<1> USE <1>0
<1>1. ASSUME NEW v \in Workers, NEW j \in Keys, Purge(v, j)
      PROVE  Clean(w, k)'
  <2>1. UNCHANGED <<pc, at, key, found>>
    BY <1>1 DEF Purge, request
  <2>2. CASE v = w /\ j = k
    BY <1>1, <2>1, <2>2 DEF Purge, CacheWithout, HoldsOlderRow, TypeOK
  <2>3. CASE v # w \/ j # k
    <3>1. k \in purged[w] \ raced[w] /\ cache'[w][k] = cache[w][k]
      BY <1>1, <2>3 DEF Purge, CacheWithout, TypeOK
    <3> QED
      BY <2>1, <3>1 DEF PurgedOK, HoldsOlderRow
  <2> QED
    BY <2>2, <2>3
<1>2. CASE UNCHANGED <<purged, raced>>
  <2>1. Clean(w, k) /\ row[k] # NULL /\ row[k].revoked # NULL
    BY <1>2 DEF PurgedOK, PurgesOK
  <2>2. ASSUME NEW r \in Reqs, NEW v \in Workers, NEW j \in Keys, Arrive(r, v, j)
        PROVE  Clean(w, k)'
    BY <2>1, <2>2 DEF Arrive, Decide, process, HoldsOlderRow, TypeOK
  <2>3. ASSUME NEW r \in Reqs, ReadRow(r)
        PROVE  Clean(w, k)'
    BY <2>1, <2>3 DEF ReadRow, process, HoldsOlderRow, TypeOK
  <2>4. ASSUME NEW r \in Reqs, Fill(r)
        PROVE  Clean(w, k)'
    <3>1. \A q \in Reqs : at'[q] = w => ~ HoldsOlderRow(q, k)'
      BY <2>1, <2>4 DEF Fill, Decide, HoldsOlderRow, TypeOK
    <3>2. CASE cache'[w][k] = cache[w][k]
      BY <2>1, <3>1, <3>2
    <3>3. CASE cache'[w][k] # cache[w][k]
      <4>1. /\ pc[r] = "fill" /\ found[r] # NULL
            /\ cache' = [cache EXCEPT ![at[r]][key[r]] = Filled(at[r], key[r], found[r])]
            /\ at[r] \in Workers /\ key[r] \in Keys
        BY <2>4, <3>3 DEF Fill, TypeOK
      <4>2. at[r] = w /\ key[r] = k
        BY <3>3, <4>1 DEF TypeOK
      <4>3. cache'[w][k] = [record |-> found[r], put |-> now]
        BY <4>1, <4>2 DEF Filled, TypeOK
      <4>4. found[r].revoked # NULL
        BY <2>1, <4>1, <4>2 DEF HoldsOlderRow
      <4> QED
        BY <3>1, <4>3, <4>4
    <3> QED
      BY <3>2, <3>3
  <2>5. ASSUME NEW r \in Reqs, Leave(r)
        PROVE  Clean(w, k)'
    BY <2>1, <2>5 DEF Leave, process, HoldsOlderRow, TypeOK
  <2>6. ASSUME NEW v \in Workers, Restart(v)
        PROVE  Clean(w, k)'
    BY <2>1, <2>6 DEF Restart, HoldsOlderRow, TypeOK
  <2>7. CASE UNCHANGED <<cache, request>>
    BY <2>1, <2>7 DEF request, HoldsOlderRow
  <2> QED
    BY <1>1, <2>2, <2>3, <2>4, <2>5, <2>6, <2>7
       DEF Next, vars, process, Mint, Revoke, Publish, PublishFails, Subscribe,
           Disconnect, Tick
<1> QED
  BY <1>1, <1>2
     DEF Next, vars, Arrive, ReadRow, Fill, Leave, Mint, Revoke, Publish, PublishFails,
         Subscribe, Disconnect, Restart, Tick

(* A worker that processed the purge of a key while none of its lookups    *)
(* held the key's row from before the revocation accepts no request with   *)
(* that key any more.                                                      *)
THEOREM PurgedKeysStayDead == Spec => PurgedKeyIsDeadUnlessRaced
<1> DEFINE StaysDead ==
      \A r \in Reqs : ~ Accepted(r) /\ Accepted(r)' =>
        key'[r] \notin purged[at'[r]] \ raced[at'[r]]
<1>1. TypeOK /\ CopiesOK /\ PurgesOK /\ PurgedOK /\ [Next]_vars => [StaysDead]_vars
  <2> SUFFICES ASSUME TypeOK, CopiesOK, PurgesOK, PurgedOK, [Next]_vars,
                      NEW r \in Reqs, ~ Accepted(r), Accepted(r)'
               PROVE  key'[r] \notin purged[at'[r]] \ raced[at'[r]]
    OBVIOUS
  <2>1. ASSUME NEW w \in Workers, NEW k \in Keys, Arrive(r, w, k)
        PROVE  key'[r] \notin purged[at'[r]] \ raced[at'[r]]
    <3>1. /\ cache[w][k] # NULL /\ cache[w][k].record.revoked = NULL
          /\ key'[r] = k /\ at'[r] = w
      BY <2>1 DEF Arrive, Decide, Fresh, AliveOnHit, Alive, Accepted, TypeOK
    <3> QED
      BY <3>1 DEF PurgedOK
  <2>2. ASSUME pc[r] = "fill", Fill(r)
        PROVE  key'[r] \notin purged[at'[r]] \ raced[at'[r]]
    <3>1. /\ found[r] # NULL /\ found[r].revoked = NULL
          /\ key'[r] = key[r] /\ at'[r] = at[r] /\ at[r] \in Workers
      BY <2>2 DEF Fill, Decide, Alive, Accepted, TypeOK
    <3> QED
      BY <2>2, <3>1 DEF PurgedOK, HoldsOlderRow
  <2> QED
    BY <2>1, <2>2, RequestStep
<1> QED
  BY <1>1, InitOK, CopiesStep, PurgesStep, PurgedStep, PTL
     DEF Spec, PurgedKeyIsDeadUnlessRaced
=============================================================================
