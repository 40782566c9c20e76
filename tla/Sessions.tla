------------------------------ MODULE Sessions ------------------------------
(***************************************************************************)
(* Log-in sessions of internal/identity: the signing keys and their cached *)
(* verify sets (keystore), the tokens minted with them (mint, tokenverify),*)
(* the refresh-token families (refreshfamily) and the handlers of          *)
(* /auth/login and /auth/refresh (auth), for one person.                   *)
(*                                                                         *)
(* A refresh token is named by its jti: its place in the sequence of all   *)
(* minted tokens.  Time runs in units much longer than a request and than  *)
(* the TTL of a cached verify set.  The runbook's key operations have no   *)
(* caller in the repository; they are taken at the times the runbook gives.*)
(***************************************************************************)
EXTENDS Naturals, Sequences, FiniteSets, TLC

CONSTANTS
    Kids,       \* signing keys
    Families,   \* refresh-token families
    Procs,      \* processes with a keystore.Store of their own
    Requests,   \* requests in flight
    RefreshTTL, \* RefreshTTL of the minter, 12 h in the code
    Overlap,    \* how long a retiring key stays in the verify set, 24 h or more
    MaxMints,   \* bound: token pairs minted
    MaxTime,    \* bound: time
    MaxFaults   \* bound: replies that are lost

ASSUME SessionsAssumption ==
    /\ {RefreshTTL, Overlap, MaxMints, MaxTime, MaxFaults} \subseteq Nat
    /\ RefreshTTL < Overlap
    /\ Families # {} /\ IsFiniteSet(Requests)

VARIABLES
    keys,      \* app.signing_keys: kid -> status and the time it entered it
    caches,    \* process -> its cached verify set
    runbook,   \* process -> the rotation it is in the middle of
    families,  \* app.refresh_token_families
    tokens,    \* every refresh token that was minted
    requests,  \* request -> where it is
    active,    \* persons.is_active
    now, faults

vars == <<keys, caches, runbook, families, tokens, requests, active, now, faults>>
keyring  == <<keys, caches, runbook>>
sessions == <<families, tokens, requests>>

KeyRow  == [status : {"absent", "active", "retiring", "expired"}, since : 0..MaxTime]
Cache   == [fresh : BOOLEAN, set : SUBSET Kids]
Family  == [last_jti : 0..MaxMints, revoked : BOOLEAN]
Token   == [family : Families, kid : Kids, exp : 0..(MaxTime + RefreshTTL),
            parent : 0..MaxMints, returned : BOOLEAN, late : BOOLEAN]
Request == [pc : {"idle", "create", "lookup", "mint", "rotate"},
            family : Families, jti : 0..MaxMints, new : 0..MaxMints]

Idle == [pc |-> "idle", family |-> CHOOSE f \in Families : TRUE, jti |-> 0, new |-> 0]

TypeOK ==
    /\ keys \in [Kids -> KeyRow]
    /\ caches \in [Procs -> Cache]
    /\ runbook \in [Procs -> {"none", "boot", "rotating"} \X SUBSET Kids]
    /\ families \in [Families -> Family]
    /\ tokens \in Seq(Token)
    /\ requests \in [Requests -> Request]
    /\ active \in BOOLEAN
    /\ now \in 0..MaxTime /\ faults \in 0..MaxFaults

Init ==
    /\ keys = [k \in Kids |-> [status |-> "absent", since |-> 0]]
    /\ caches = [p \in Procs |-> [fresh |-> FALSE, set |-> {}]]
    /\ runbook = [p \in Procs |-> <<"none", {}>>]
    /\ families = [f \in Families |-> [last_jti |-> 0, revoked |-> FALSE]]
    /\ tokens = << >>
    /\ requests = [r \in Requests |-> Idle]
    /\ active = TRUE /\ now = 0 /\ faults = 0

-----------------------------------------------------------------------------
(* keystore                                                                *)

InState(s) == {k \in Kids : keys[k].status = s}

Active == InState("active")

\* What VerifySet reads from the table.
Published == InState("active") \union InState("retiring")

\* VerifySet of process p: its cache while that is fresh, else the table.
VerifySet(p) == IF caches[p].fresh THEN caches[p].set ELSE Published

Cached(p) == [caches EXCEPT ![p] = [fresh |-> TRUE, set |-> VerifySet(p)]]

invalidateCache(p) == caches' = [caches EXCEPT ![p] = [fresh |-> FALSE, set |-> {}]]

Enter(k, s) == [status |-> s, since |-> now]

\* BootstrapDevKeyIfEmpty: a process that finds no active key ...
BootstrapDevKeyIfEmpty(p) ==
    /\ runbook[p][1] = "none"
    /\ Active = {}
    /\ runbook' = [runbook EXCEPT ![p] = <<"boot", {}>>]
    /\ UNCHANGED <<keys, caches, sessions, active, now, faults>>

\* ... inserts one; the index on status 'active' lets one process do it, and
\* the others end.
Insert(p) ==
    /\ runbook[p][1] = "boot"
    /\ runbook' = [runbook EXCEPT ![p] = <<"none", {}>>]
    /\ \/ /\ Active = {}
          /\ \E k \in InState("absent") : keys' = [keys EXCEPT ![k] = Enter(k, "active")]
          /\ invalidateCache(p)
       \/ Active # {} /\ UNCHANGED <<keys, caches>>
    /\ UNCHANGED <<sessions, active, now, faults>>

\* The UPDATE of Rotate's transaction: it finds the rows that are active when
\* it starts, and waits for the transaction that changes the same row.
RotateUpdate(p) ==
    /\ runbook[p][1] = "none"
    /\ runbook' = [runbook EXCEPT ![p] = <<"rotating", Active>>]
    /\ UNCHANGED <<keys, caches, sessions, active, now, faults>>

\* Its INSERT and commit: rolled back by the index if a key is active that
\* its UPDATE did not see.
Rotate(p) ==
    /\ runbook[p][1] = "rotating"
    /\ runbook' = [runbook EXCEPT ![p] = <<"none", {}>>]
    /\ \/ /\ Active \subseteq runbook[p][2]
          /\ \E k \in InState("absent") :
                keys' = [i \in Kids |-> IF i = k THEN Enter(i, "active")
                                        ELSE IF i \in Active THEN Enter(i, "retiring")
                                        ELSE keys[i]]
          /\ invalidateCache(p)
       \/ ~(Active \subseteq runbook[p][2]) /\ UNCHANGED <<keys, caches>>
    /\ UNCHANGED <<sessions, active, now, faults>>

\* Retire: an active key stops signing, with nothing in its place.
Retire(p, k) ==
    /\ keys[k].status = "active"
    /\ keys' = [keys EXCEPT ![k] = Enter(k, "retiring")]
    /\ invalidateCache(p)
    /\ UNCHANGED <<runbook, sessions, active, now, faults>>

\* Mutant of ExpireDue: the runbook does not wait.
ExpireDueAtOnce(k) == keys[k].status = "retiring"

ExpireDue(k) == keys[k].status = "retiring" /\ now >= keys[k].since + Overlap

\* Expire, called by the runbook after the overlap.
Expire(p, k) ==
    /\ ExpireDue(k)
    /\ keys' = [keys EXCEPT ![k] = Enter(k, "expired")]
    /\ invalidateCache(p)
    /\ UNCHANGED <<runbook, sessions, active, now, faults>>

\* /.well-known/jwks.json, or any verification, fills the cache of its process.
ServeJWKS(p) ==
    /\ ~caches[p].fresh
    /\ caches' = Cached(p)
    /\ UNCHANGED <<keys, runbook, sessions, active, now, faults>>

\* cacheTTL passes.
CacheExpires(p) ==
    /\ caches[p].fresh
    /\ invalidateCache(p)
    /\ UNCHANGED <<keys, runbook, sessions, active, now, faults>>

-----------------------------------------------------------------------------
(* mint, tokenverify, auth and refreshfamily                               *)

\* MintPair signs with the active key, and fails if there is none.
MintPair(f, parent) ==
    /\ Len(tokens) < MaxMints
    /\ \E k \in Active :
          tokens' = Append(tokens, [family |-> f, kid |-> k, exp |-> now + RefreshTTL,
                                    parent |-> parent, returned |-> FALSE, late |-> FALSE])

\* Verify: the token's key is in the process's verify set, and it has not run out.
Verify(p, j) == tokens[j].kid \in VerifySet(p) /\ now < tokens[j].exp

\* Mutant of PersonFound: is_active is not part of the query.
PersonFoundInactive == TRUE

\* LookupForLogin and LookupByID find active persons only.
PersonFound == active

Pc(r, pc) == requests[r].pc = pc

\* POST /auth/login: the password was right, and a pair is minted.
login(r, f) ==
    /\ Pc(r, "idle")
    /\ PersonFound
    /\ families[f].last_jti = 0 /\ \A s \in Requests : ~(Pc(s, "create") /\ requests[s].family = f)
    /\ MintPair(f, 0)
    /\ requests' = [requests EXCEPT ![r] = [pc |-> "create", family |-> f, jti |-> 0,
                                            new |-> Len(tokens')]]
    /\ UNCHANGED <<keyring, families, active, now, faults>>

\* late is a history flag: the person was inactive by then.
Returned(j) == [tokens EXCEPT ![j].returned = TRUE, ![j].late = ~active]

\* families.Create, and the reply.
Create(r) ==
    LET q == requests[r] IN
    /\ Pc(r, "create")
    /\ families' = [families EXCEPT ![q.family] = [last_jti |-> q.new, revoked |-> FALSE]]
    /\ tokens' = Returned(q.new)
    /\ requests' = [requests EXCEPT ![r] = Idle]
    /\ UNCHANGED <<keyring, active, now, faults>>

\* POST /auth/refresh with any token a caller ever got: it verifies.
serve(r, p, j) ==
    /\ Pc(r, "idle")
    /\ tokens[j].returned
    /\ caches' = Cached(p)
    /\ IF Verify(p, j)
       THEN requests' = [requests EXCEPT ![r] = [pc |-> "lookup", family |-> tokens[j].family,
                                                 jti |-> j, new |-> 0]]
       ELSE UNCHANGED requests
    /\ UNCHANGED <<keys, runbook, families, tokens, active, now, faults>>

Revoke(f) == families' = [families EXCEPT ![f].revoked = TRUE]

\* The person is read again; an inactive one loses the family.
LookupByID(r) ==
    /\ Pc(r, "lookup")
    /\ \/ /\ PersonFound
          /\ requests' = [requests EXCEPT ![r].pc = "mint"]
          /\ UNCHANGED families
       \/ /\ ~PersonFound
          /\ Revoke(requests[r].family)
          /\ requests' = [requests EXCEPT ![r] = Idle]
    /\ UNCHANGED <<keyring, tokens, active, now, faults>>

\* The new pair is minted before the family is looked at.
Mint(r) ==
    LET q == requests[r] IN
    /\ Pc(r, "mint")
    /\ MintPair(q.family, q.jti)
    /\ requests' = [requests EXCEPT ![r].pc = "rotate", ![r].new = Len(tokens')]
    /\ UNCHANGED <<keyring, families, active, now, faults>>

\* Mutant of ValidateAndRotate: the check is made against a row that is not
\* locked, so that a second request with the same token passes it too.
ValidateAndRotateUnlocked(r) ==
    LET q == requests[r]
        f == families[q.family]
    IN
    /\ Pc(r, "rotate")
    /\ requests' = [requests EXCEPT ![r] = Idle]
    /\ \/ /\ ~f.revoked
          /\ q.jti = f.last_jti \/ tokens[f.last_jti].parent = q.jti
          /\ families' = [families EXCEPT ![q.family].last_jti = q.new]
          /\ tokens' = Returned(q.new)
       \/ /\ f.revoked /\ UNCHANGED <<families, tokens>>
    /\ UNCHANGED <<keyring, active, now, faults>>

\* Mutant of ValidateAndRotate: a revoked family is not refused.
ValidateAndRotateRevoked(r) ==
    LET q == requests[r]
        f == families[q.family]
    IN
    /\ Pc(r, "rotate")
    /\ requests' = [requests EXCEPT ![r] = Idle]
    /\ \/ q.jti # f.last_jti /\ Revoke(q.family) /\ UNCHANGED tokens
       \/ /\ q.jti = f.last_jti
          /\ families' = [families EXCEPT ![q.family].last_jti = q.new]
          /\ tokens' = Returned(q.new)
    /\ UNCHANGED <<keyring, active, now, faults>>

\* One transaction, the family's row locked: revoked, reused or rotated.  The
\* new pair is returned in the last case only, unless that reply is lost.
ValidateAndRotate(r) ==
    LET q == requests[r]
        f == families[q.family]
    IN
    /\ Pc(r, "rotate")
    /\ requests' = [requests EXCEPT ![r] = Idle]
    /\ \/ f.revoked /\ UNCHANGED <<families, tokens, faults>>
       \/ ~f.revoked /\ q.jti # f.last_jti /\ Revoke(q.family) /\ UNCHANGED <<tokens, faults>>
       \/ /\ ~f.revoked /\ q.jti = f.last_jti
          /\ families' = [families EXCEPT ![q.family].last_jti = q.new]
          /\ \/ tokens' = Returned(q.new) /\ UNCHANGED faults
             \/ faults < MaxFaults /\ faults' = faults + 1 /\ UNCHANGED tokens
    /\ UNCHANGED <<keyring, active, now>>

\* An administrator deactivates the person, outside this repository.
Deactivate ==
    /\ active
    /\ active' = FALSE
    /\ UNCHANGED <<keyring, sessions, now, faults>>

\* Hours pass: every cached verify set and every request is over.
Tick ==
    /\ now < MaxTime
    /\ \A r \in Requests : Pc(r, "idle")
    /\ now' = now + 1
    /\ caches' = [p \in Procs |-> [fresh |-> FALSE, set |-> {}]]
    /\ UNCHANGED <<keys, runbook, sessions, active, faults>>

Next ==
    \/ \E p \in Procs : \/ BootstrapDevKeyIfEmpty(p) \/ Insert(p)
                        \/ RotateUpdate(p) \/ Rotate(p)
                        \/ ServeJWKS(p) \/ CacheExpires(p)
                        \/ \E k \in Kids : Retire(p, k) \/ Expire(p, k)
    \/ \E r \in Requests : \/ \E f \in Families : login(r, f)
                           \/ \E p \in Procs, j \in 1..Len(tokens) : serve(r, p, j)
                           \/ Create(r) \/ LookupByID(r) \/ Mint(r) \/ ValidateAndRotate(r)
    \/ Deactivate \/ Tick

Spec == Init /\ [][Next]_vars

-----------------------------------------------------------------------------
\* At most one key signs, whatever rotations and bootstraps of several
\* processes overlap, and a key never comes back (keystore.go: "one active row").
OneActiveKey == Cardinality(Active) <= 1

\* A refresh token is exchanged for at most one pair, however many requests
\* present it at once; and a live family accepts exactly its last token, which
\* descends from all the others.
SpentOnce ==
    /\ \A i, j \in 1..Len(tokens) :
          (tokens[i].returned /\ tokens[j].returned
             /\ tokens[i].parent = tokens[j].parent /\ tokens[i].parent # 0) => i = j
    /\ \A f \in Families, j \in 1..Len(tokens) :
          (tokens[j].family = f /\ tokens[j].returned) => j <= families[f].last_jti

\* Types, one signing key, and refresh tokens that are spent once.
SessionInv == TypeOK /\ OneActiveKey /\ SpentOnce

\* Once a family is revoked, by reuse or because its person is inactive, it
\* stays revoked and no request that is in flight still gets a pair out of it.
RevokedForGood ==
    [][\A f \in Families : families[f].revoked =>
          /\ families'[f].revoked
          /\ \A j \in 1..Len(tokens) :
                tokens[j].family = f => tokens'[j].returned = tokens[j].returned]_vars

\* A token that has not run out can be verified: its key is still published,
\* and a process that does not know it has cached its set before the key came
\* (the runbook's overlap is longer than a token lives).
LiveTokensVerify ==
    \A j \in 1..Len(tokens) :
        now < tokens[j].exp =>
            /\ tokens[j].kid \in Published
            /\ \A p \in Procs : tokens[j].kid \notin VerifySet(p) =>
                                    caches[p].fresh /\ keys[tokens[j].kid].since = now

\* The sessions of a person end when the person is deactivated: each request
\* that had read the person before can still be answered, and nothing more.
InactiveSessionsEnd ==
    Cardinality({j \in 1..Len(tokens) : tokens[j].late}) <= Cardinality(Requests)

\* Keys, processes and requests are interchangeable (for model checking).
Symmetry == Permutations(Kids) \union Permutations(Procs) \union Permutations(Requests)

=============================================================================
