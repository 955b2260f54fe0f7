--------------------------- MODULE ApiKeysProofs ----------------------------
(***************************************************************************)
(* Proofs about ApiKeys for any number of requests, keys, secrets and      *)
(* administrators, and any function from a secret to its prefix.           *)
(*                                                                         *)
(* Neither property is inductive.  KeysInv adds what ties the parts        *)
(* together: a row has the secret that was issued for it, so no two rows   *)
(* share one and none comes back; what is cached was looked up; and a      *)
(* request that holds a row with its secret, found by its query, was       *)
(* looked up and is fresh, although the row may have changed since.        *)
(***************************************************************************)
EXTENDS ApiKeys, TLAPS

Operations == {"delete_api_key", "block_key", "unblock_key", "regenerate_key"}

RequestFields ==
    [pc : {"idle", "query", "verify", "scope", "served", "forbidden", "refused"},
     secret : Texts, found : SUBSET ApiKey, key : ApiKey \cup {NoRow}, hit : BOOLEAN]
CallFields == [pc : {"idle"}] \cup [pc : {"write"}, op : Operations, id : KeyIds]

KeysTypeOK ==
    /\ keys \in [KeyIds -> ApiKey \cup {NoRow}]
    /\ cache \in [Texts -> ApiKey \cup {NoRow}]
    /\ request \in [Requests -> RequestFields]
    /\ call \in [Managers -> CallFields]
    /\ holder \in [Secrets -> KeyIds \cup {NoRow}]

\* A row has the secret that was issued for it.
RowsHeld == \A k \in Rows : holder[keys[k].secret] = k

\* What is cached was found by a lookup.
CachedLooked == \A s \in Texts : cache[s] # NoRow => s \in looked

\* A request gets its row when it leaves the first layer, not before.
KeyOnPassing == \A r \in Requests :
    request[r].pc \in {"idle", "query", "verify"} => request[r].key = NoRow

\* A request that holds a row with its secret was looked up, and is fresh.
FoundLooked == \A r \in Requests :
    request[r].pc = "verify" /\ Verified(request[r].found, request[r].secret) # {}
        => request[r].secret \in looked /\ r \in fresh

KeysInv == KeysTypeOK /\ RowsHeld /\ CachedLooked /\ KeyOnPassing /\ FoundLooked
               /\ looked \subseteq Secrets /\ FreshUnlessCached

-----------------------------------------------------------------------------
\* The strengthened invariant holds when the gateway starts.
LEMMA KeysInit == KInit => KeysInv
<1> SUFFICES ASSUME KInit PROVE KeysInv
  OBVIOUS
<1>1. keys \in [KeyIds -> ApiKey \cup {NoRow}]
  BY ApiKeysAssumption DEF KInit
<1>2. AtRest \in RequestFields
  BY ApiKeysAssumption DEF AtRest, At, Texts, RequestFields
<1>3. ASSUME NEW s \in Secrets
      PROVE  /\ holder[s] \in KeyIds \cup {NoRow}
             /\ \A k \in Rows : keys[k].secret = s => holder[s] = k
  <2>1. CASE \E k \in Rows : keys[k].secret = s
    <3> DEFINE h == CHOOSE k \in Rows : keys[k].secret = s
    <3>1. holder[s] = h BY <2>1, <1>3 DEF KInit
    <3>2. h \in Rows /\ keys[h].secret = s BY <2>1
    <3>3. \A k \in Rows : keys[k].secret = s => h = k
      BY <3>2, ApiKeysAssumption DEF KInit, Rows
    <3> QED BY <3>1, <3>2, <3>3 DEF Rows
  <2>2. CASE ~\E k \in Rows : keys[k].secret = s
    BY <2>2, <1>3 DEF KInit
  <2> QED BY <2>1, <2>2
<1>4. holder \in [Secrets -> KeyIds \cup {NoRow}]
  <2>1. DOMAIN holder = Secrets /\ holder = [s \in DOMAIN holder |-> holder[s]]
    BY DEF KInit
  <2> QED BY <2>1, <1>3
<1>5. KeysTypeOK
  BY <1>1, <1>2, <1>4 DEF KInit, KeysTypeOK, CallFields
<1>6. RowsHeld
  BY <1>1, <1>3 DEF RowsHeld, Rows, ApiKey
<1> QED BY <1>5, <1>6
        DEF KInit, KeysInv, CachedLooked, KeyOnPassing, FoundLooked, FreshUnlessCached, AtRest, At

-----------------------------------------------------------------------------
(* The steps of a request leave the rows and the administration alone.     *)

\* A refused request has no row.
LEMMA RefusedTyped == Refused \in RequestFields /\ Refused.pc = "refused" /\ Refused.key = NoRow
BY ApiKeysAssumption DEF Refused, At, RequestFields, Texts

\* Refusing a request (no token, a failed query, no row that verifies) keeps the invariant.
LEMMA RefusalKeeps ==
  ASSUME KeysInv, Observe, NEW r \in Requests, request' = [request EXCEPT ![r] = Refused],
         UNCHANGED <<keys, cache, now, call, holder, looked>>
  PROVE  KeysInv'
<1>1. KeysTypeOK'
  BY RefusedTyped DEF KeysInv, KeysTypeOK, RequestFields
<1>2. RowsHeld' /\ CachedLooked'
  BY DEF KeysInv, RowsHeld, Rows, CachedLooked
<1>3. KeyOnPassing' /\ FoundLooked' /\ FreshUnlessCached'
  BY RefusedTyped DEF KeysInv, KeysTypeOK, KeyOnPassing, FoundLooked, Verified,
     FreshUnlessCached, Observe
<1> QED BY <1>1, <1>2, <1>3 DEF KeysInv

\* So does reading the header and the cache,
LEMMA AuthKeeps ==
  ASSUME KeysInv, Observe, NEW r \in Requests, NEW s \in Texts, api_key_auth(r, s)
  PROVE  KeysInv'
<1> DEFINE next == IF Cached(s)
            THEN At("scope", s, cache[s], TRUE)
            ELSE At("query", s, NoRow, FALSE)
<1>1. /\ next \in RequestFields
      /\ (next.pc = "scope" /\ next.hit) \/ (next.pc = "query" /\ next.key = NoRow)
  <2>1. cache[s] \in ApiKey \cup {NoRow}
    BY DEF KeysInv, KeysTypeOK
  <2>2. CASE Cached(s)
    BY <2>1, <2>2 DEF At, RequestFields
  <2>3. CASE ~Cached(s)
    BY <2>3 DEF At, RequestFields
  <2> QED BY <2>2, <2>3
<1>2. request' = [request EXCEPT ![r] = next] /\ UNCHANGED <<keys, cache, now, call, holder, looked>>
  BY DEF api_key_auth
<1> HIDE DEF next
<1>3. KeysTypeOK'
  BY <1>1, <1>2 DEF KeysInv, KeysTypeOK, RequestFields
<1>4. RowsHeld' /\ CachedLooked'
  BY DEF api_key_auth, KeysInv, RowsHeld, Rows, CachedLooked
<1>5. KeyOnPassing' /\ FoundLooked' /\ FreshUnlessCached'
  BY <1>1, <1>2 DEF KeysInv, KeysTypeOK, KeyOnPassing, FoundLooked, Verified,
     FreshUnlessCached, Observe
<1> QED BY <1>3, <1>4, <1>5 DEF api_key_auth, KeysInv

\* A query that finds a row with the secret of the request finds the secret live.
LEMMA FoundIsLive ==
  ASSUME KeysInv, NEW p, NEW s, NEW row \in Verified(get_by_prefix(p), s)
  PROVE  LiveRow(s) /\ s \in Secrets /\ holder[s] # NoRow
BY ApiKeysAssumption
   DEF Verified, get_by_prefix, LiveRow, KeysInv, KeysTypeOK, RowsHeld, Rows, ApiKey

\* the query by prefix,
LEMMA QueryKeeps ==
  ASSUME KeysInv, Observe, NEW r \in Requests, QueryPrefix(r)
  PROVE  KeysInv'
<1> DEFINE found == get_by_prefix(PrefixOf(request[r].secret))
           s == request[r].secret
<1>1. found \subseteq ApiKey
  BY DEF get_by_prefix, Rows, KeysInv, KeysTypeOK
<1>2. /\ request' = [request EXCEPT ![r].pc = "verify", ![r].found = found]
      /\ looked' = IF Verified(found, s) = {} THEN looked ELSE looked \cup {s}
      /\ request[r].pc = "query"
      /\ UNCHANGED <<keys, cache, now, call, holder, writes>>
  BY DEF QueryPrefix
<1>3. Verified(found, s) # {} => LiveRow(s) /\ s \in Secrets
  BY FoundIsLive
<1> HIDE DEF found
<1>5. /\ request'[r] \in RequestFields /\ request'[r].pc = "verify"
      /\ request'[r].secret = s /\ request'[r].found = found /\ request'[r].key = NoRow
  BY <1>1, <1>2 DEF KeysInv, KeysTypeOK, KeyOnPassing, RequestFields
<1>6. looked \subseteq looked' /\ fresh \subseteq fresh'
  BY <1>2 DEF Observe
<1>7. Verified(found, s) # {} => r \in fresh' /\ s \in looked'
  BY <1>3, <1>5, <1>2 DEF Observe, LookedForLive, LiveRow, Rows
<1>8. RowsHeld' /\ CachedLooked' /\ looked' \subseteq Secrets
  BY <1>2, <1>3 DEF KeysInv, RowsHeld, Rows, CachedLooked
<1>9. \A q \in Requests : q # r => request'[q] = request[q]
  BY <1>2 DEF KeysInv, KeysTypeOK
<1>4. KeysTypeOK'
  <2>1. request' \in [Requests -> RequestFields]
    BY <1>2, <1>5, <1>9 DEF KeysInv, KeysTypeOK, RequestFields
  <2> QED BY <1>2, <2>1 DEF KeysInv, KeysTypeOK, RequestFields
<1>10. KeyOnPassing' /\ FreshUnlessCached'
  BY <1>5, <1>9 DEF KeysInv, KeyOnPassing, FreshUnlessCached, Observe
<1>11. FoundLooked'
  <2> SUFFICES ASSUME NEW q \in Requests, request'[q].pc = "verify",
                      Verified(request'[q].found, request'[q].secret) # {}
               PROVE  request'[q].secret \in looked' /\ q \in fresh'
    BY DEF FoundLooked, Verified
  <2>1. CASE q = r
    BY <2>1, <1>5, <1>7
  <2>2. CASE q # r
    BY <2>2, <1>6, <1>9 DEF KeysInv, FoundLooked
  <2> QED BY <2>1, <2>2
<1> QED BY <1>4, <1>8, <1>10, <1>11 DEF KeysInv

\* verifying a row and caching it,
LEMMA AcceptKeeps ==
  ASSUME KeysInv, Observe, NEW r \in Requests, request[r].pc = "verify",
         NEW row \in request[r].found, Accept(r, row),
         UNCHANGED <<keys, now, call, holder, looked, writes>>
  PROVE  KeysInv'
<1>1. row \in ApiKey /\ row # NoRow
  BY ApiKeysAssumption DEF KeysInv, KeysTypeOK, RequestFields
<1>2. request[r].secret \in looked /\ r \in fresh
  BY DEF Accept, KeysInv, FoundLooked
<1>3. KeysTypeOK'
  BY <1>1 DEF Accept, KeysInv, KeysTypeOK, RequestFields
<1>4. RowsHeld' /\ CachedLooked'
  BY <1>2 DEF Accept, KeysInv, KeysTypeOK, RowsHeld, Rows, CachedLooked
<1>5. KeyOnPassing' /\ FoundLooked' /\ FreshUnlessCached'
  BY <1>2 DEF Accept, KeysInv, KeysTypeOK, KeyOnPassing, FoundLooked, Verified,
     FreshUnlessCached, Observe
<1> QED BY <1>3, <1>4, <1>5 DEF KeysInv

\* and the check of the model.
LEMMA ScopeKeeps ==
  ASSUME KeysInv, Observe, NEW r \in Requests, NEW m, model_scope(r, m)
  PROVE  KeysInv'
<1>1. PICK pc \in {"served", "forbidden"} : request' = [request EXCEPT ![r].pc = pc]
  BY DEF model_scope
<1>2. KeysTypeOK'
  BY <1>1 DEF model_scope, KeysInv, KeysTypeOK, RequestFields
<1>3. RowsHeld' /\ CachedLooked'
  BY DEF model_scope, KeysInv, RowsHeld, Rows, CachedLooked
<1>4. KeyOnPassing' /\ FoundLooked' /\ FreshUnlessCached'
  BY <1>1 DEF model_scope, KeysInv, KeysTypeOK, KeyOnPassing, FoundLooked, Verified,
     FreshUnlessCached, Observe
<1> QED BY <1>2, <1>3, <1>4 DEF model_scope, KeysInv

-----------------------------------------------------------------------------
(* The steps of the administration leave the requests and the cache alone. *)

InUse(s) == \E k \in Rows : keys[k].secret = s

\* An issued secret stays issued, a retired one is not used again, and one is issued
\* together with its row.
SecretsLive == \A s \in Secrets :
    /\ holder[s] # NoRow => holder'[s] # NoRow
    /\ holder[s] # NoRow /\ InUse(s)' => InUse(s)
    /\ holder[s] = NoRow /\ holder'[s] # NoRow => InUse(s)'

Administered == KeysTypeOK' /\ RowsHeld' /\ SecretsLive

\* A step of the administration keeps the invariant if it keeps the rows in order.
LEMMA AdministeredKeeps ==
  ASSUME KeysInv, Observe, Administered, UNCHANGED <<cache, request, looked>>
  PROVE  KeysInv'
BY DEF KeysInv, Administered, CachedLooked, KeyOnPassing, FoundLooked, Verified,
   FreshUnlessCached, Observe

\* create_api_key issues a secret together with its row.
LEMMA CreateAdministers ==
  ASSUME KeysInv, NEW claims \in Claims, NEW k \in KeyIds, NEW s \in Secrets,
         NEW allowed \in Scopes, create_api_key(claims, k, s, allowed)
  PROVE  Administered
<1> DEFINE row == [id |-> k, secret |-> s, user |-> claims.user,
             organization |-> claims.organization, allowed_models |-> allowed,
             expires_at |-> Never, disabled |-> FALSE]
<1>1. row \in ApiKey /\ row # NoRow /\ row.secret = s
  <2>1. claims.user \in Users /\ claims.organization \in Orgs /\ allowed \in SUBSET Models
    BY ApiKeysAssumption
  <2>2. MaxTime \in Nat
    BY ApiKeysAssumption
  <2>3. Never \in 0 .. Never
    BY <2>2 DEF Never
  <2>4. row \in ApiKey /\ row.secret = s
    BY <2>1, <2>3 DEF ApiKey
  <2> QED BY <2>4, ApiKeysAssumption
<1>2. /\ keys' = [keys EXCEPT ![k] = row] /\ holder' = [holder EXCEPT ![s] = k]
      /\ holder[s] = NoRow /\ k \notin Rows /\ \A t \in Secrets : holder[t] # k
      /\ UNCHANGED <<cache, now, request, call, looked>>
  BY DEF create_api_key, generate_api_key
<1> HIDE DEF row
<1>3. KeysTypeOK'
  BY <1>1, <1>2 DEF KeysInv, KeysTypeOK
<1>4. /\ Rows' = Rows \cup {k} /\ keys'[k] = row
      /\ \A j \in Rows : j # k /\ keys'[j] = keys[j] /\ keys[j].secret \in Secrets
  BY <1>1, <1>2 DEF KeysInv, KeysTypeOK, Rows, ApiKey
<1>5. RowsHeld'
  BY <1>1, <1>2, <1>4, ApiKeysAssumption DEF KeysInv, KeysTypeOK, RowsHeld, Rows
<1>6. SecretsLive
  BY <1>1, <1>2, <1>4, ApiKeysAssumption DEF KeysInv, KeysTypeOK, SecretsLive, InUse, RowsHeld
<1> QED BY <1>3, <1>5, <1>6 DEF Administered

\* Taking rows away retires their secrets.
LEMMA DroppingAdministers ==
  ASSUME KeysInv, KeysTypeOK', UNCHANGED holder,
         \A k \in KeyIds : keys'[k] \in {keys[k], NoRow}
  PROVE  Administered
<1>1. Rows' \subseteq Rows /\ \A k \in Rows' : keys'[k] = keys[k]
  BY DEF Rows, KeysInv, KeysTypeOK
<1>2. RowsHeld' /\ SecretsLive
  BY <1>1 DEF KeysInv, RowsHeld, SecretsLive, InUse
<1> QED BY <1>2 DEF Administered

\* Blocking and unblocking leave the secrets where they are.
LEMMA SetActiveAdministers ==
  ASSUME KeysInv, NEW k \in Rows, NEW active \in BOOLEAN, set_active(k, active),
         UNCHANGED <<cache, request>>,
         call' \in [Managers -> CallFields]
  PROVE  Administered
<1>1. keys[k] \in ApiKey /\ k \in KeyIds
  BY DEF KeysInv, KeysTypeOK, Rows
<1>2. /\ keys'[k] \in ApiKey /\ keys'[k].secret = keys[k].secret
      /\ \A j \in KeyIds : j # k => keys'[j] = keys[j]
  BY <1>1 DEF set_active, ApiKey, KeysInv, KeysTypeOK
<1>3. KeysTypeOK'
  BY <1>1, <1>2 DEF set_active, KeysInv, KeysTypeOK
<1>4. Rows' = Rows /\ \A j \in Rows : keys'[j].secret = keys[j].secret
  BY <1>1, <1>2, ApiKeysAssumption DEF Rows
<1>5. RowsHeld' /\ SecretsLive
  BY <1>4 DEF set_active, KeysInv, RowsHeld, SecretsLive, InUse
<1> QED BY <1>3, <1>5 DEF Administered

\* regenerate_key retires one secret and issues another.
LEMMA RegenerateAdministers ==
  ASSUME KeysInv, NEW k \in Rows, regenerate_key(k), UNCHANGED <<cache, request>>,
         call' \in [Managers -> CallFields]
  PROVE  Administered
<1>1. keys[k] \in ApiKey /\ k \in KeyIds
  BY DEF KeysInv, KeysTypeOK, Rows
<1>2. PICK s \in generate_api_key : /\ keys' = [keys EXCEPT ![k].secret = s]
                                    /\ holder' = [holder EXCEPT ![s] = k]
  BY DEF regenerate_key
<1>3. s \in Secrets /\ holder[s] = NoRow
  BY DEF generate_api_key
<1>4. /\ keys'[k] \in ApiKey /\ keys'[k].secret = s
      /\ \A j \in KeyIds : j # k => keys'[j] = keys[j]
  BY <1>1, <1>2, <1>3 DEF ApiKey, KeysInv, KeysTypeOK
<1>5. KeysTypeOK'
  BY <1>1, <1>2, <1>3, <1>4 DEF KeysInv, KeysTypeOK
<1>6. Rows' = Rows
  BY <1>1, <1>4, ApiKeysAssumption DEF Rows
<1>7. RowsHeld'
  BY <1>2, <1>3, <1>4, <1>6, ApiKeysAssumption DEF KeysInv, KeysTypeOK, RowsHeld, Rows, ApiKey
<1>8. SecretsLive
  BY <1>1, <1>2, <1>3, <1>4, <1>6, ApiKeysAssumption DEF KeysInv, KeysTypeOK, SecretsLive, InUse, Rows
<1> QED BY <1>5, <1>7, <1>8 DEF Administered

\* The write of a handler, whatever became of the row since its check.
LEMMA WriteAdministers ==
  ASSUME KeysInv, NEW c \in Managers, Write(c)
  PROVE  Administered
<1> DEFINE k == call[c].id
<1>1. call' \in [Managers -> CallFields]
  BY DEF Write, KeysInv, KeysTypeOK, CallFields
<1>2. call[c] \in [pc : {"write"}, op : Operations, id : KeyIds]
  BY DEF Write, KeysInv, KeysTypeOK, CallFields
<1>3. UNCHANGED <<cache, request>>
  BY DEF Write
<1>4. CASE k \in Rows
  <2>1. CASE call[c].op = "delete_api_key"
    <3>1. delete_row(k)
      BY <1>4, <2>1 DEF Write
    <3>2. KeysTypeOK' /\ UNCHANGED holder /\ \A j \in KeyIds : keys'[j] \in {keys[j], NoRow}
      BY <1>1, <1>2, <1>3, <3>1 DEF delete_row, KeysInv, KeysTypeOK
    <3> QED BY <3>2, DroppingAdministers
  <2>2. CASE call[c].op = "block_key"
    <3>1. set_active(k, FALSE)
      BY <1>4, <2>2 DEF Write
    <3> QED BY <1>1, <1>3, <1>4, <3>1, SetActiveAdministers
  <2>3. CASE call[c].op = "unblock_key"
    <3>1. set_active(k, TRUE)
      BY <1>4, <2>3 DEF Write
    <3> QED BY <1>1, <1>3, <1>4, <3>1, SetActiveAdministers
  <2>4. CASE call[c].op = "regenerate_key"
    <3>1. regenerate_key(k)
      BY <1>4, <2>4 DEF Write
    <3> QED BY <1>1, <1>3, <1>4, <3>1, RegenerateAdministers
  <2> QED BY <1>2, <2>1, <2>2, <2>3, <2>4 DEF Operations
<1>5. CASE k \notin Rows
  <2>1. UNCHANGED <<keys, holder>>
    BY <1>5 DEF Write
  <2>2. KeysTypeOK' /\ \A j \in KeyIds : keys'[j] \in {keys[j], NoRow}
    BY <1>1, <1>3, <2>1 DEF KeysInv, KeysTypeOK
  <2> QED BY <2>1, <2>2, DroppingAdministers
<1> QED BY <1>4, <1>5

\* The check of a handler changes no row.
LEMMA CheckAdministers ==
  ASSUME KeysInv, NEW c \in Managers, NEW op \in Operations, NEW k \in KeyIds, NEW claims,
         Check(c, op, k, claims)
  PROVE  Administered
<1>1. KeysTypeOK' /\ UNCHANGED <<keys, holder>>
  BY DEF Check, KeysInv, KeysTypeOK, CallFields
<1> QED BY <1>1, DroppingAdministers

\* Deleting a user takes the rows of their keys away.
LEMMA DeleteUserAdministers ==
  ASSUME KeysInv, NEW u \in Users, delete_user(u)
  PROVE  Administered
<1>1. KeysTypeOK' /\ UNCHANGED holder /\ \A j \in KeyIds : keys'[j] \in {keys[j], NoRow}
  BY DEF delete_user, KeysInv, KeysTypeOK
<1> QED BY <1>1, DroppingAdministers

\* A step is one of a request, with the rows left alone, or one of the administration,
\* with the requests and what they know left alone.
RequestStep(r) ==
    \/ Unauthorized(r) \/ QueryPrefix(r) \/ QueryFails(r) \/ Verify(r)
    \/ \E s \in Texts : api_key_auth(r, s)
    \/ \E m \in Models \cup {NoModel} : model_scope(r, m)

\* Every step is one of the two kinds.
LEMMA StepKinds ==
  ASSUME KeysInv, KStep
  PROVE  \/ \E r \in Requests : RequestStep(r)
         \/ Administered /\ UNCHANGED <<cache, request, looked>>
<1>1. CASE \E r \in Requests : RequestStep(r)
  BY <1>1
<1>2. ASSUME NEW claims \in Claims, NEW k \in KeyIds,
             \E s \in Secrets, allowed \in Scopes : create_api_key(claims, k, s, allowed)
      PROVE  Administered /\ UNCHANGED <<cache, request, looked>>
  BY <1>2, CreateAdministers DEF create_api_key
<1>3. ASSUME NEW claims \in Claims, NEW k \in KeyIds, NEW c \in Managers,
             \/ delete_api_key(c, k, claims) \/ block_key(c, k, claims)
             \/ unblock_key(c, k, claims) \/ regenerate(c, k, claims)
      PROVE  Administered /\ UNCHANGED <<cache, request, looked>>
  <2>1. PICK op \in Operations : Check(c, op, k, claims)
    BY <1>3 DEF delete_api_key, block_key, unblock_key, regenerate, Operations
  <2> QED BY <2>1, CheckAdministers DEF Check
<1>4. ASSUME NEW c \in Managers, Write(c)
      PROVE  Administered /\ UNCHANGED <<cache, request, looked>>
  BY <1>4, WriteAdministers DEF Write
<1>5. ASSUME NEW u \in Users, delete_user(u)
      PROVE  Administered /\ UNCHANGED <<cache, request, looked>>
  BY <1>5, DeleteUserAdministers DEF delete_user
<1>6. CASE Tick
  <2>1. KeysTypeOK' /\ UNCHANGED <<keys, holder, cache, request, looked>>
    BY <1>6 DEF Tick, KeysInv, KeysTypeOK
  <2> QED BY <2>1, DroppingAdministers
<1> QED BY <1>1, <1>2, <1>3, <1>4, <1>5, <1>6 DEF KStep, RequestStep

\* Every step of a request keeps the invariant.
LEMMA RequestKeeps ==
  ASSUME KeysInv, Observe, NEW r \in Requests, RequestStep(r)
  PROVE  KeysInv'
<1>1. CASE Unauthorized(r)
  BY <1>1, RefusalKeeps DEF Unauthorized
<1>2. CASE QueryFails(r)
  BY <1>2, RefusalKeeps DEF QueryFails
<1>3. CASE Verify(r)
  <2>1. CASE Refuse(r)
    BY <1>3, <2>1, RefusalKeeps DEF Verify, Refuse
  <2>2. CASE \E row \in request[r].found : Accept(r, row)
    BY <1>3, <2>2, AcceptKeeps DEF Verify
  <2> QED BY <1>3, <2>1, <2>2 DEF Verify
<1> QED BY <1>1, <1>2, <1>3, QueryKeeps, AuthKeeps, ScopeKeeps DEF RequestStep

\* The strengthened invariant is inductive.
LEMMA KeysNext == KeysInv /\ [KNext]_kvars => KeysInv'
<1> SUFFICES ASSUME KeysInv, [KNext]_kvars PROVE KeysInv'
  OBVIOUS
<1>1. CASE KNext
  BY <1>1, StepKinds, RequestKeeps, AdministeredKeeps DEF KNext
<1>2. CASE UNCHANGED kvars
  BY <1>2 DEF kvars, KeysInv, KeysTypeOK, RowsHeld, Rows, CachedLooked, KeyOnPassing,
     FoundLooked, Verified, FreshUnlessCached
<1> QED BY <1>1, <1>2

\* A request that the cache did not answer passes only if its secret was live at some
\* moment since it came, for any number of requests, keys and administrators.
THEOREM OnlyFreshPass == KSpec => []FreshUnlessCached
<1>1. KeysInv => FreshUnlessCached
  BY DEF KeysInv
<1> QED BY <1>1, KeysInit, KeysNext, PTL DEF KSpec

-----------------------------------------------------------------------------
(* The layers and the administration implement KeyGate.                    *)

\* The status of a secret is one of the four.
LEMMA StatusTyped == statusOf \in [Secrets -> Gate!Statuses]
BY DEF statusOf, Gate!Statuses

\* The administration takes a secret only where KeyGate lets it go.
LEMMA StatusBecomes ==
  ASSUME KeysInv, RowsHeld', SecretsLive, KeysTypeOK', NEW s \in Secrets
  PROVE  statusOf'[s] \in Gate!Becomes(statusOf[s])
<1>1. InUse(s) => holder[s] # NoRow
  BY ApiKeysAssumption DEF KeysInv, RowsHeld, InUse, Rows
<1>2. InUse(s)' => holder'[s] # NoRow
  BY ApiKeysAssumption DEF RowsHeld, InUse, Rows
<1>3. CASE holder[s] = NoRow
  <2>1. statusOf[s] = "unissued"
    BY <1>3, <1>1 DEF InUse, statusOf, LiveRow
  <2>2. statusOf'[s] \in {"unissued", "live", "blocked"}
    BY <1>3, <1>2 DEF SecretsLive, InUse, statusOf, LiveRow
  <2> QED BY <2>1, <2>2 DEF Gate!Becomes
<1>4. CASE InUse(s)
  <2>1. statusOf[s] \in {"live", "blocked"}
    BY <1>4, <1>1 DEF InUse, statusOf, LiveRow
  <2>2. statusOf'[s] \in {"live", "blocked", "retired"}
    BY <1>4, <1>1 DEF SecretsLive, statusOf
  <2> QED BY <2>1, <2>2 DEF Gate!Becomes
<1>5. CASE holder[s] # NoRow /\ ~InUse(s)
  <2>1. statusOf[s] = "retired"
    BY <1>5 DEF InUse, statusOf, LiveRow
  <2>2. statusOf'[s] = "retired"
    BY <1>5 DEF SecretsLive, InUse, statusOf, LiveRow
  <2> QED BY <2>1, <2>2 DEF Gate!Becomes
<1> QED BY <1>3, <1>4, <1>5

\* A step of the administration is Administer.
LEMMA AdministeredMaps ==
  ASSUME KeysInv, Administered, UNCHANGED <<request, looked>>
  PROVE  Gate!Administer
<1>1. statusOf' \in [Secrets -> Gate!Statuses]
  BY DEF statusOf, Gate!Statuses
<1>2. \A s \in Secrets : statusOf'[s] \in Gate!Becomes(statusOf[s])
  BY StatusBecomes DEF Administered
<1>3. UNCHANGED <<looked, admittedBy>>
  BY DEF admittedBy
<1> QED BY <1>1, <1>2, <1>3 DEF Gate!Administer

\* A step that lets nobody in.
LEMMA AdmittedSame ==
  ASSUME \A q \in Requests : /\ request'[q].key # NoRow <=> request[q].key # NoRow
                             /\ request[q].key # NoRow => request'[q].secret = request[q].secret
  PROVE  UNCHANGED admittedBy
BY DEF admittedBy

\* A step that lets one request in.
LEMMA AdmittedMore ==
  ASSUME NEW r \in Requests, request[r].key = NoRow, request'[r].key # NoRow,
         \A q \in Requests : q # r => request'[q] = request[q]
  PROVE  admittedBy' = admittedBy \cup {request'[r].secret}
BY DEF admittedBy

\* Letting in a request whose secret was looked up is Admit.
LEMMA AdmissionMaps ==
  ASSUME KeysInv, NEW r \in Requests, NEW s \in looked,
         request[r].key = NoRow, request'[r].key # NoRow, request'[r].secret = s,
         \A q \in Requests : q # r => request'[q] = request[q],
         UNCHANGED <<keys, holder, looked>>
  PROVE  Gate!Next
<1>1. UNCHANGED statusOf
  BY DEF statusOf, LiveRow, Rows
<1>2. Gate!Admit(s)
  BY <1>1, AdmittedMore DEF Gate!Admit
<1> QED BY <1>2 DEF Gate!Next, KeysInv

\* A step of a request is Look, Admit or no step of KeyGate.
LEMMA RequestMaps ==
  ASSUME KeysInv, NEW r \in Requests, RequestStep(r)
  PROVE  [Gate!Next]_Gate!gate
<1>1. UNCHANGED <<keys, holder>>
  BY DEF RequestStep, Unauthorized, QueryPrefix, QueryFails, Verify, api_key_auth, model_scope
<1>2. UNCHANGED statusOf
  BY <1>1 DEF statusOf, LiveRow, Rows
<1>3. request \in [Requests -> RequestFields]
  BY DEF KeysInv, KeysTypeOK
<1>4. ASSUME request[r].key = NoRow, request' = [request EXCEPT ![r] = Refused], UNCHANGED looked
      PROVE  UNCHANGED Gate!gate
  BY <1>2, <1>3, <1>4, AdmittedSame, RefusedTyped DEF Gate!gate
<1>5. CASE Unauthorized(r)
  BY <1>4, <1>5 DEF Unauthorized, KeysInv, KeyOnPassing
<1>6. CASE QueryFails(r)
  BY <1>4, <1>6 DEF QueryFails, KeysInv, KeyOnPassing
<1>7. CASE QueryPrefix(r)
  <2> DEFINE s == request[r].secret
             found == get_by_prefix(PrefixOf(s))
  <2>1. \A q \in Requests : request'[q].key = request[q].key /\ request'[q].secret = request[q].secret
    BY <1>3, <1>7 DEF QueryPrefix, RequestFields
  <2>2. UNCHANGED admittedBy
    BY <2>1, AdmittedSame
  <2>3. CASE Verified(found, s) = {}
    BY <1>2, <1>7, <2>2, <2>3 DEF QueryPrefix, Gate!gate
  <2>4. CASE Verified(found, s) # {}
    <3>1. LiveRow(s) /\ s \in Secrets /\ holder[s] # NoRow
      BY <2>4, FoundIsLive
    <3>2. \A k \in Rows : keys[k].secret = s => ~keys[k].disabled
      BY <3>1 DEF LiveRow, KeysInv, RowsHeld
    <3>4. statusOf[s] = "live"
      BY <3>1, <3>2 DEF statusOf
    <3>3. looked' = looked \cup {s}
      BY <1>7, <2>4 DEF QueryPrefix
    <3> QED BY <1>2, <2>2, <3>1, <3>4, <3>3 DEF Gate!Look, Gate!Next
  <2> QED BY <2>3, <2>4
<1>8. CASE Verify(r)
  <2>1. CASE Refuse(r)
    BY <1>4, <1>8, <2>1 DEF Verify, Refuse, KeysInv, KeyOnPassing
  <2>2. ASSUME NEW row \in request[r].found, Accept(r, row)
        PROVE  Gate!Next
    <3>1. row # NoRow /\ request[r].secret \in looked /\ request[r].key = NoRow
      <4>1. row # NoRow
        BY <1>3, ApiKeysAssumption DEF RequestFields
      <4> QED BY <1>8, <2>2, <4>1 DEF Verify, Accept, KeysInv, FoundLooked, KeyOnPassing
    <3>2. /\ request'[r].key = row /\ request'[r].secret = request[r].secret
          /\ \A q \in Requests : q # r => request'[q] = request[q]
      BY <1>3, <2>2 DEF Accept, RequestFields
    <3>3. UNCHANGED looked
      BY <1>8 DEF Verify
    <3> QED BY <1>1, <3>1, <3>2, <3>3, AdmissionMaps
  <2> QED BY <1>8, <2>1, <2>2 DEF Verify
<1>9. ASSUME NEW s \in Texts, api_key_auth(r, s)
      PROVE  [Gate!Next]_Gate!gate
  <2>1. request[r].key = NoRow /\ UNCHANGED looked
        /\ \A q \in Requests : q # r => request'[q] = request[q]
    BY <1>3, <1>9 DEF api_key_auth, KeysInv, KeyOnPassing
  <2>2. CASE Cached(s)
    <3>1. request'[r].key = cache[s] /\ request'[r].secret = s
      BY <1>3, <1>9, <2>2 DEF api_key_auth, At
    <3>2. cache[s] # NoRow /\ s \in looked
      BY <2>2 DEF Cached, KeysInv, CachedLooked
    <3> QED BY <1>1, <2>1, <3>1, <3>2, AdmissionMaps
  <2>3. CASE ~Cached(s)
    <3>1. request'[r].key = NoRow
      BY <1>3, <1>9, <2>3 DEF api_key_auth, At
    <3> QED BY <1>2, <2>1, <3>1, AdmittedSame DEF Gate!gate
  <2> QED BY <2>2, <2>3
<1>10. ASSUME NEW m, model_scope(r, m)
       PROVE  UNCHANGED Gate!gate
  <2>1. PICK pc \in {"served", "forbidden"} : request' = [request EXCEPT ![r].pc = pc]
    BY <1>10 DEF model_scope
  <2>2. \A q \in Requests : request'[q].key = request[q].key /\ request'[q].secret = request[q].secret
    BY <1>3, <2>1 DEF RequestFields
  <2> QED BY <1>2, <1>10, <2>2, AdmittedSame DEF model_scope, Gate!gate
<1> QED BY <1>5, <1>6, <1>7, <1>8, <1>9, <1>10 DEF RequestStep

\* The rows, the cache, the queries and the administration implement the gate: a secret
\* lives once, and passes only after a lookup has found it live.
THEOREM KeysImplementGate == KSpec => GateSpec
<1>1. KInit => Gate!Init
  <2> SUFFICES ASSUME KInit PROVE Gate!Init
    OBVIOUS
  <2>1. admittedBy = {}
    BY DEF KInit, admittedBy, AtRest, At
  <2> QED BY <2>1, StatusTyped DEF KInit, Gate!Init
<1>2. KeysInv /\ [KNext]_kvars => [Gate!Next]_Gate!gate
  <2> SUFFICES ASSUME KeysInv, [KNext]_kvars PROVE [Gate!Next]_Gate!gate
    OBVIOUS
  <2>1. CASE UNCHANGED kvars
    BY <2>1 DEF kvars, Gate!gate, statusOf, LiveRow, Rows, admittedBy
  <2>2. CASE \E r \in Requests : RequestStep(r)
    BY <2>2, RequestMaps
  <2>3. CASE Administered /\ UNCHANGED <<cache, request, looked>>
    BY <2>3, AdministeredMaps DEF Gate!Next
  <2> QED BY <2>1, <2>2, <2>3, StepKinds DEF KNext
<1> QED BY <1>1, <1>2, KeysInit, KeysNext, PTL DEF KSpec, GateSpec, Gate!Spec
=============================================================================
