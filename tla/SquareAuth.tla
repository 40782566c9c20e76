----------------------------- MODULE SquareAuth -----------------------------
(***************************************************************************)
(* The Square connection of internal/squareauth, for one merchant and its  *)
(* browser: the OAuth round trip, the stored token pair, its refresh from  *)
(* the dashboard, and the disconnect.                                      *)
(*                                                                         *)
(* A token pair is its refresh token, a number in the order of issue; 0 is *)
(* none.  Square is external: it exchanges a code once, and a refresh      *)
(* revokes the token it was asked with.  Pairs expire soon enough for each *)
(* dashboard to want a refresh, or not.                                    *)
(***************************************************************************)
EXTENDS Naturals, FiniteSets

CONSTANTS
    Requests,   \* requests in flight
    States,     \* states of the OAuth round trips; a code belongs to its state
    MaxTokens,  \* bound: pairs that Square issues
    MaxFaults   \* bound: answers lost, writes failed, crashes

VARIABLES
    cookie,    \* the browser's state cookie
    session,   \* whether it has a session cookie
    codes,     \* state -> its code: "new", "given" by Square, "spent" in an exchange
    live,      \* the refresh tokens that Square accepts
    successor, \* token -> the one that a refresh replaced it with
    row,       \* the token in app.pos_tenant_credentials
    request,   \* request -> its step and the token or state it holds
    issued, faults

vars == <<cookie, session, codes, live, successor, row, request, issued, faults>>

None == "none"
Idle == [at |-> "idle", state |-> None, token |-> 0]
Tokens == 0..MaxTokens

TypeOK ==
    /\ cookie \in States \union {None} /\ session \in BOOLEAN
    /\ codes \in [States -> {"new", "given", "spent"}]
    /\ live \subseteq Tokens \ {0}
    /\ successor \in [1..MaxTokens -> Tokens]
    /\ row \in Tokens
    /\ request \in [Requests -> [at : {"idle", "exchange", "refresh", "store"},
                                 state : States \union {None}, token : Tokens]]
    /\ issued \in Tokens /\ faults \in 0..MaxFaults

Init ==
    /\ cookie = None /\ session = FALSE
    /\ codes = [s \in States |-> "new"] /\ live = {}
    /\ successor = [n \in 1..MaxTokens |-> 0]
    /\ row = 0
    /\ request = [r \in Requests |-> Idle]
    /\ issued = 0 /\ faults = 0

\* A new round trip: its state replaces the cookie of one that is under way.
handleAuthorize(s) ==
    /\ codes[s] = "new" /\ codes' = [codes EXCEPT ![s] = "given"]
    /\ cookie' = s
    /\ UNCHANGED <<session, live, successor, row, request, issued, faults>>

\* Square's redirect, checked against the cookie, which the answer clears.
handleCallback(r, s) ==
    /\ request[r] = Idle /\ cookie = s
    /\ request' = [request EXCEPT ![r] = [at |-> "exchange", state |-> s, token |-> 0]]
    /\ UNCHANGED <<cookie, session, codes, live, successor, row, issued, faults>>

Issue == issued < MaxTokens /\ issued' = issued + 1
Answer(r) == request' = [request EXCEPT ![r] = Idle]

\* The code is good once; a second request with the same redirect fails.
ExchangeCode(r) ==
    /\ request[r].at = "exchange"
    /\ cookie' = IF cookie = request[r].state THEN None ELSE cookie
    /\ \/ /\ codes[request[r].state] = "given" /\ Issue
          /\ codes' = [codes EXCEPT ![request[r].state] = "spent"]
          /\ live' = live \union {issued'}
          /\ request' = [request EXCEPT ![r] = [@ EXCEPT !.at = "store", !.token = issued']]
       \/ /\ codes[request[r].state] = "spent"
          /\ Answer(r) /\ UNCHANGED <<codes, live, issued>>
    /\ UNCHANGED <<session, successor, row, faults>>

\* A dashboard that finds the stored pair near its end asks for a new one; one
\* that does not changes nothing.
handleDashboard(r) ==
    /\ request[r] = Idle /\ session /\ row # 0
    /\ request' = [request EXCEPT ![r] = [at |-> "refresh", state |-> None, token |-> row]]
    /\ UNCHANGED <<cookie, session, codes, live, successor, row, issued, faults>>

\* Square issues the next pair and revokes this token, or refuses a token that
\* it revoked before; the dashboard then goes on with what was stored.
RefreshToken(r) ==
    /\ request[r].at = "refresh"
    /\ LET n == request[r].token
       IN  \/ /\ n \in live /\ Issue
              /\ live' = (live \ {n}) \union {issued'}
              /\ successor' = [successor EXCEPT ![n] = issued']
              /\ request' = [request EXCEPT ![r].at = "store", ![r].token = issued']
           \/ /\ n \notin live
              /\ Answer(r) /\ UNCHANGED <<live, successor, issued>>
    /\ UNCHANGED <<cookie, session, codes, row, faults>>

\* ON CONFLICT (merchant_id, source_code, company_alias) DO UPDATE, with NULLs
\* that are not distinct: the row there is replaced, or there is a row again.
Upserted(n) == n

StoreToken(r) ==
    /\ request[r].at = "store"
    /\ row' = Upserted(request[r].token)
    /\ session' = (session \/ request[r].state # None)
    /\ Answer(r)
    /\ UNCHANGED <<cookie, codes, live, successor, issued, faults>>

Fault == faults < MaxFaults /\ faults' = faults + 1

\* Square's answer to a refresh is lost on the way.
RefreshLost(r) ==
    /\ request[r].at = "refresh" /\ request[r].token \in live
    /\ Fault /\ Issue
    /\ live' = (live \ {request[r].token}) \union {issued'}
    /\ successor' = [successor EXCEPT ![request[r].token] = issued']
    /\ Answer(r)
    /\ UNCHANGED <<cookie, session, codes, row>>

\* The write fails, or the process ends with the pair in hand.
StoreFails(r) ==
    /\ request[r].at = "store"
    /\ Fault /\ Answer(r)
    /\ UNCHANGED <<cookie, session, codes, live, successor, row, issued>>

\* The row goes; a request in flight is not told, and Square keeps the grant.
handleDisconnect ==
    /\ session
    /\ row' = 0 /\ session' = FALSE
    /\ UNCHANGED <<cookie, codes, live, successor, request, issued, faults>>

Next ==
    \/ \E s \in States : handleAuthorize(s) \/ \E r \in Requests : handleCallback(r, s)
    \/ \E r \in Requests :
          \/ ExchangeCode(r) \/ handleDashboard(r) \/ RefreshToken(r)
          \/ StoreToken(r) \/ RefreshLost(r) \/ StoreFails(r)
    \/ handleDisconnect

Spec == Init /\ [][Next]_vars

\* Without a fault no refresh of any interleaving of dashboards, callbacks and
\* disconnects leaves the merchant with a dead pair: either Square accepts the
\* stored refresh token, or the request that replaced it is about to store the
\* replacement (handleDashboard of squareauth/handler.go: "Square revokes the
\* old refresh token on success, so we must persist the new pair immediately").
StoredPairUsable ==
    row # 0 /\ faults = 0 =>
        \/ row \in live
        \/ \E r \in Requests : /\ request[r].at = "store"
                               /\ request[r].token = successor[row]
                               /\ successor[row] # 0

\* What keeps it.  Whatever is held was issued; a pair that is about to be stored
\* is live, and in nobody else's hands: not stored, not another request's to
\* store, and not on its way to Square to be replaced.
HeldWasIssued ==
    /\ live \subseteq 1..issued /\ row <= issued
    /\ \A r \in Requests : request[r].token <= issued

HeldAlone ==
    \A r \in Requests : request[r].at = "store" =>
        /\ request[r].token \in live /\ request[r].token # row
        /\ \A q \in Requests \ {r} :
              request[q].at \in {"store", "refresh"} => request[q].token # request[r].token

PairInv == TypeOK /\ HeldWasIssued /\ HeldAlone /\ StoredPairUsable

=============================================================================
