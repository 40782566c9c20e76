------------------------------ MODULE ApiKeys -------------------------------
(***************************************************************************)
(* The life of API keys: a key is authenticated (internal/identity), and   *)
(* with it keys are minted and revoked (cmd/identity/handlers.go).         *)
(*                                                                         *)
(* A request carries the claims of the key it was authenticated with; the  *)
(* tenant and the scopes of a key never change, so the claims are the key. *)
(* Key 1 is one that an operator seeded.                                   *)
(***************************************************************************)
EXTENDS Naturals, FiniteSets

CONSTANTS
    Tenants,    \* tenants; a platform key has none
    Requests,   \* requests in flight
    Grants,     \* the sets of scopes that are asked for
    MaxKeys     \* bound: keys

VARIABLES
    apiKeys,   \* app.api_keys: number -> row
    claims,    \* request -> the key it was authenticated with; 0 when idle
    minters,   \* history: key -> the keys it descends from
    revoker,   \* history: key -> the key that revoked it
    late       \* history: key -> keys it minted after it was revoked or expired

vars == <<apiKeys, claims, minters, revoker, late>>

Platform == "platform"
\* identity:keys:create, :revoke and :admin; "data" is any other scope.
Scopes == {"create", "revoke", "admin", "data"}
Keys == 1..MaxKeys
APIKeyRow == [tenant : Tenants \union {Platform}, scopes : SUBSET Scopes,
              status : {"absent", "active", "revoked"}, expired : BOOLEAN]
Absent == [tenant |-> Platform, scopes |-> {}, status |-> "absent", expired |-> FALSE]

TypeOK ==
    /\ apiKeys \in [Keys -> APIKeyRow]
    /\ claims \in [Requests -> 0..MaxKeys]
    /\ minters \in [Keys -> SUBSET Keys] /\ revoker \in [Keys -> 0..MaxKeys]
    /\ late \in [Keys -> Nat]

Init ==
    /\ \E t \in Tenants \union {Platform}, s \in Grants :
          apiKeys = [k \in Keys |-> IF k = 1
                       THEN [tenant |-> t, scopes |-> s, status |-> "active", expired |-> FALSE]
                       ELSE Absent]
    /\ claims = [r \in Requests |-> 0]
    /\ minters = [k \in Keys |-> {}] /\ revoker = [k \in Keys |-> 0]
    /\ late = [k \in Keys |-> 0]

Usable(k) == apiKeys[k].status = "active" /\ ~apiKeys[k].expired

\* The middleware looks the key up once, when the request comes in.
AuthenticateAPIKey(r, k) ==
    /\ claims[r] = 0 /\ Usable(k)
    /\ claims' = [claims EXCEPT ![r] = k]
    /\ UNCHANGED <<apiKeys, minters, revoker, late>>

requireKeysScope(k, anyOf) == apiKeys[k].scopes \intersect anyOf # {}
hasAdminScope(k) == "admin" \in apiKeys[k].scopes

\* Mutant of containsAllScopes: one shared scope is enough.
containsSomeScope(granted, want) == granted \intersect want # {}

containsAllScopes(granted, want) == want \subseteq granted

\* The tenant the new key gets: the body's, or else the caller's.
TenantAllowed(k, t) == hasAdminScope(k) \/ apiKeys[k].tenant \in {Platform, t}

ScopesAllowed(k, scopes) ==
    hasAdminScope(k) \/ scopes = {} \/ containsAllScopes(apiKeys[k].scopes, scopes)

CreateAPIKeyRow(k, t, scopes) ==
    \E id \in Keys :
       /\ apiKeys[id] = Absent /\ \A j \in 1..(id - 1) : apiKeys[j] # Absent
       /\ apiKeys' = [apiKeys EXCEPT ![id] = [tenant |-> t, scopes |-> scopes,
                                              status |-> "active", expired |-> FALSE]]
       /\ minters' = [minters EXCEPT ![id] = minters[k] \union {k}]

\* A tenant key that names no tenant mints for its own, a platform key for the
\* platform; what the new key's own expiry is nobody compares with the caller's.
keysCreate(r) ==
    /\ claims[r] # 0 /\ requireKeysScope(claims[r], {"create", "admin"})
    /\ \E t \in Tenants \union {apiKeys[claims[r]].tenant}, scopes \in Grants :
          /\ TenantAllowed(claims[r], t) /\ ScopesAllowed(claims[r], scopes)
          /\ CreateAPIKeyRow(claims[r], t, scopes)
    /\ late' = IF Usable(claims[r]) THEN late ELSE [late EXCEPT ![claims[r]] = @ + 1]
    /\ claims' = [claims EXCEPT ![r] = 0]
    /\ UNCHANGED revoker

\* The tenant filter of the revocation; a platform key needs the admin scope.
Revocable(k, id) ==
    \/ hasAdminScope(k)
    \/ apiKeys[k].tenant # Platform /\ apiKeys[id].tenant = apiKeys[k].tenant

\* The UPDATE touches an active row only; revoking once more is no error.
RevokeAPIKey(k, id) ==
    /\ apiKeys[id].status = "active"
    /\ apiKeys' = [apiKeys EXCEPT ![id].status = "revoked"]
    /\ revoker' = [revoker EXCEPT ![id] = k]

keysRevoke(r) ==
    /\ claims[r] # 0 /\ requireKeysScope(claims[r], {"revoke", "admin"})
    /\ \E id \in Keys : Revocable(claims[r], id) /\ RevokeAPIKey(claims[r], id)
    /\ claims' = [claims EXCEPT ![r] = 0]
    /\ UNCHANGED <<minters, late>>

\* A request that is refused, or that reads.
Answered(r) ==
    /\ claims[r] # 0 /\ claims' = [claims EXCEPT ![r] = 0]
    /\ UNCHANGED <<apiKeys, minters, revoker, late>>

\* expires_at passes; the status stays 'active'.
Expires(k) ==
    /\ Usable(k)
    /\ apiKeys' = [apiKeys EXCEPT ![k].expired = TRUE]
    /\ UNCHANGED <<claims, minters, revoker, late>>

Next ==
    \/ \E r \in Requests : \/ keysCreate(r) \/ keysRevoke(r) \/ Answered(r)
                           \/ \E k \in Keys : AuthenticateAPIKey(r, k)
    \/ \E k \in Keys : Expires(k)

Spec == Init /\ [][Next]_vars

\* Along any chain of mintings without an admin key among the minters the
\* scopes only shrink and a tenant's keys stay in the tenant; a key is revoked
\* by an admin key or one of its tenant; and a key that was revoked or has
\* expired mints at most once for each request that it was in before
\* (keysCreate and keysRevoke of cmd/identity/handlers.go).
KeysWithinMinters ==
    \A k \in Keys :
        /\ \A a \in minters[k] :
              \/ \E b \in minters[k] : hasAdminScope(b)
              \/ /\ apiKeys[k].scopes \subseteq apiKeys[a].scopes
                 /\ apiKeys[a].tenant \in {Platform, apiKeys[k].tenant}
        /\ revoker[k] # 0 => \/ hasAdminScope(revoker[k])
                             \/ apiKeys[revoker[k]].tenant = apiKeys[k].tenant
        /\ late[k] <= Cardinality(Requests)

\* What makes it so.  Only a row that is there mints, revokes or is in a request,
\* and what mints late was in a request when it ended.
Holding(k) == {r \in Requests : claims[r] = k}
Present(k) == apiKeys[k].status # "absent"

KeysPresent ==
    /\ \A r \in Requests : claims[r] # 0 => Present(claims[r])
    /\ \A k \in Keys :
          /\ revoker[k] # 0 => Present(k) /\ Present(revoker[k])
          /\ \A a \in minters[k] : Present(a)

LateWasHeld ==
    \A k \in Keys : /\ Usable(k) \/ ~Present(k) => late[k] = 0
                    /\ late[k] + Cardinality(Holding(k)) <= Cardinality(Requests)

KeysInv == TypeOK /\ KeysWithinMinters /\ KeysPresent /\ LateWasHeld

=============================================================================
