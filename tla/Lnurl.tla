------------------------------- MODULE Lnurl --------------------------------
(***************************************************************************)
(* Wallet log-in of internal/auth/lnurl: a browser asks for a challenge k1 *)
(* and polls for its session token; a wallet signs the challenge and calls *)
(* back.  The challenge is a row of app.lnurl_auth_challenges, the token   *)
(* waits in a map of the process that took the callback.                   *)
(*                                                                         *)
(* A wallet is its linking key, which determines the owner; a token is the *)
(* linking key it is signed for.  Callbacks with a bad signature change    *)
(* nothing and are left out.                                               *)
(***************************************************************************)
EXTENDS Naturals, FiniteSets

CONSTANTS
    Challenges,   \* k1 values
    Wallets,      \* linking keys
    Replicas,     \* processes that serve the routes
    MaxPolls      \* bound: polls of a browser

VARIABLES
    challenges,     \* k1 -> its row
    linkedKeys,     \* app.lnurl_linked_keys: the keys it has
    pendingTokens,  \* replica -> k1 -> the token that waits there
    callbacks,      \* wallet -> the callback it is making
    browser,        \* k1 -> what the browser that shows it knows
    polls,          \* k1 -> polls made
    issued          \* history: the <<k1, wallet>> of every token issued

vars == <<challenges, linkedKeys, pendingTokens, callbacks, browser, polls, issued>>

None == "none"
Challenge == [status : {"absent", "pending", "used"}, linked_id : Wallets \union {None},
              expired : BOOLEAN]
NoCall == <<"idle", None, None>>

TypeOK ==
    /\ challenges \in [Challenges -> Challenge]
    /\ linkedKeys \subseteq Wallets
    /\ pendingTokens \in [Replicas -> [Challenges -> Wallets \union {None}]]
    /\ callbacks \in [Wallets ->
          {NoCall} \union ({"mark", "upsert", "issue"} \X Challenges \X Replicas)]
    /\ browser \in [Challenges -> {"waiting", "missed", "gone"} \union Wallets]
    /\ polls \in [Challenges -> 0..MaxPolls]
    /\ issued \subseteq Challenges \X Wallets

Init ==
    /\ challenges = [k \in Challenges |->
                        [status |-> "absent", linked_id |-> None, expired |-> FALSE]]
    /\ linkedKeys = {}
    /\ pendingTokens = [p \in Replicas |-> [k \in Challenges |-> None]]
    /\ callbacks = [w \in Wallets |-> NoCall]
    /\ browser = [k \in Challenges |-> "waiting"]
    /\ polls = [k \in Challenges |-> 0]
    /\ issued = {}

getLNURL(k) ==
    /\ challenges[k].status = "absent"
    /\ challenges' = [challenges EXCEPT ![k].status = "pending"]
    /\ UNCHANGED <<linkedKeys, pendingTokens, callbacks, browser, polls, issued>>

\* Five minutes pass.  The status stays: nothing ever writes 'expired'.
Expires(k) ==
    /\ challenges[k].status # "absent" /\ ~challenges[k].expired
    /\ challenges' = [challenges EXCEPT ![k].expired = TRUE]
    /\ UNCHANGED <<linkedKeys, pendingTokens, callbacks, browser, polls, issued>>

\* A wallet that read the challenge while it was pending signs it and calls back.
challenge(w, k, p) ==
    /\ callbacks[w] = NoCall /\ challenges[k].status = "pending"
    /\ callbacks' = [callbacks EXCEPT ![w] = <<"mark", k, p>>]
    /\ UNCHANGED <<challenges, linkedKeys, pendingTokens, browser, polls, issued>>

\* Mutant of Markable: the update does not look at the status.
MarkableTwice(row) == row.status # "absent" /\ ~row.expired

\* The WHERE of the UPDATE in MarkUsed.
Markable(row) == row.status = "pending" /\ ~row.expired

\* The first call of the callback handler; every other outcome ends it.
MarkUsed(w, k, p) ==
    /\ callbacks[w] = <<"mark", k, p>>
    /\ IF Markable(challenges[k])
         THEN /\ challenges' = [challenges EXCEPT ![k].status = "used", ![k].linked_id = w]
              /\ callbacks' = [callbacks EXCEPT ![w] = <<"upsert", k, p>>]
         ELSE callbacks' = [callbacks EXCEPT ![w] = NoCall] /\ UNCHANGED challenges
    /\ UNCHANGED <<linkedKeys, pendingTokens, browser, polls, issued>>

UpsertLinkedKey(w, k, p) ==
    /\ callbacks[w] = <<"upsert", k, p>>
    /\ linkedKeys' = linkedKeys \union {w}
    /\ callbacks' = [callbacks EXCEPT ![w] = <<"issue", k, p>>]
    /\ UNCHANGED <<challenges, pendingTokens, browser, polls, issued>>

IssueJWT(w, k, p) ==
    /\ callbacks[w] = <<"issue", k, p>>
    /\ pendingTokens' = [pendingTokens EXCEPT ![p][k] = w]
    /\ issued' = issued \union {<<k, w>>}
    /\ callbacks' = [callbacks EXCEPT ![w] = NoCall]
    /\ UNCHANGED <<challenges, linkedKeys, browser, polls>>

\* A database error, or the end of the process, after MarkUsed: the challenge
\* is spent and no token comes of it.
CallbackFails(w) ==
    /\ callbacks[w] # NoCall
    /\ callbacks' = [callbacks EXCEPT ![w] = NoCall]
    /\ UNCHANGED <<challenges, linkedKeys, pendingTokens, browser, polls, issued>>

TakeToken(k, p) == pendingTokens' = [pendingTokens EXCEPT ![p][k] = None]

\* A poll takes the token of the replica it reaches, and an answer that is lost
\* takes the token with it; a poll that finds none goes on to the row.
pollSession(k, p) ==
    /\ challenges[k].status # "absent"
    /\ browser[k] = "waiting" /\ polls[k] < MaxPolls
    /\ polls' = [polls EXCEPT ![k] = @ + 1]
    /\ IF pendingTokens[p][k] # None
         THEN /\ TakeToken(k, p)
              /\ browser' \in {[browser EXCEPT ![k] = pendingTokens[p][k]], browser}
         ELSE browser' = [browser EXCEPT ![k] = "missed"] /\ UNCHANGED pendingTokens
    /\ UNCHANGED <<challenges, linkedKeys, callbacks, issued>>

\* No token: 410 Gone for a used challenge, 202 for a pending one, even when it
\* has expired.
pollChallenge(k) ==
    /\ browser[k] = "missed"
    /\ browser' = [browser EXCEPT ![k] =
                      IF challenges[k].status = "used" THEN "gone" ELSE "waiting"]
    /\ UNCHANGED <<challenges, linkedKeys, pendingTokens, callbacks, polls, issued>>

Restart(p) ==
    /\ pendingTokens[p] # [k \in Challenges |-> None]
    /\ pendingTokens' = [pendingTokens EXCEPT ![p] = [k \in Challenges |-> None]]
    /\ UNCHANGED <<challenges, linkedKeys, callbacks, browser, polls, issued>>

Next ==
    \/ \E k \in Challenges :
          \/ getLNURL(k) \/ Expires(k) \/ pollChallenge(k)
          \/ \E p \in Replicas : pollSession(k, p)
          \/ \E w \in Wallets, p \in Replicas :
                \/ challenge(w, k, p) \/ MarkUsed(w, k, p)
                \/ UpsertLinkedKey(w, k, p) \/ IssueJWT(w, k, p)
    \/ \E w \in Wallets : CallbackFails(w)
    \/ \E p \in Replicas : Restart(p)

Spec == Init /\ [][Next]_vars

\* A challenge logs in one wallet, the one its row names, however many call
\* back at once and wherever the browser polls: one token is issued for it, that
\* token is the only one that waits or is handed out, and its key is linked
\* before it can be seen (callback, MarkUsed and pollSession).
OneLoginPerChallenge ==
    /\ \A k \in Challenges :
          /\ Cardinality({i \in issued : i[1] = k}) <= 1
          /\ \A w \in Wallets :
                browser[k] = w \/ (\E p \in Replicas : pendingTokens[p][k] = w) =>
                    /\ <<k, w>> \in issued /\ w \in linkedKeys
                    /\ challenges[k].status = "used" /\ challenges[k].linked_id = w
          /\ browser[k] \in Wallets => \A p \in Replicas : pendingTokens[p][k] = None

\* What keeps it.  A callback that marked a challenge has it for itself until it
\* has issued the one token; a token is where it was issued or was taken there.
MarkedForOne ==
    \A w \in Wallets, k \in Challenges, p \in Replicas :
        callbacks[w] \in {<<"upsert", k, p>>, <<"issue", k, p>>} =>
            /\ challenges[k].status = "used" /\ challenges[k].linked_id = w
            /\ \A v \in Wallets : <<k, v>> \notin issued
            /\ callbacks[w][1] = "issue" => w \in linkedKeys

IssuedToOne ==
    \A k \in Challenges, w \in Wallets : <<k, w>> \in issued =>
        challenges[k].status = "used" /\ challenges[k].linked_id = w /\ w \in linkedKeys

TokenInOnePlace ==
    \A k \in Challenges :
        /\ browser[k] \in Wallets => <<k, browser[k]>> \in issued
        /\ \A p \in Replicas : pendingTokens[p][k] # None =>
              /\ <<k, pendingTokens[p][k]>> \in issued
              /\ browser[k] \notin Wallets
              /\ \A q \in Replicas : pendingTokens[q][k] # None => q = p

LoginInv == TypeOK /\ MarkedForOne /\ IssuedToOne /\ TokenInOnePlace

=============================================================================
