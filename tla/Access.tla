------------------------------- MODULE Access -------------------------------
(***************************************************************************)
(* Brute-force lockouts of internal/identity (ratelimit.go) around the two *)
(* ways in: APIKeyMiddleware (apikey.go) and POST /auth/login              *)
(* (auth/login.go).  One API key called from one source address, and one   *)
(* account logged into from another.                                       *)
(*                                                                         *)
(* Valkey holds a failure counter and a lockout key for each bucket; every *)
(* command to it can fail, and the handlers then go on as if it had said   *)
(* nothing (fail-open).  EXPIRE renews the counter's time to live at each  *)
(* failure, so a counter lives on while failures keep coming.  A lockout   *)
(* outlives the counter window (5 against 1 minute, 15 against 5): no      *)
(* lockout ends before the counter that was there when it was set.         *)
(***************************************************************************)
EXTENDS Naturals, FiniteSets

CONSTANTS
    Callers,       \* requests in flight
    Threshold,     \* BruteForceThreshold, PerAccountThreshold
    IPThreshold,   \* PerIPThreshold, larger than Threshold
    RateLimitRPM,  \* rate_limit_rpm of the key
    MaxCalls,      \* bound: requests that are made
    MaxErrors      \* bound: Valkey or database commands that fail

VARIABLES
    failed,    \* bucket -> its failure counter; 0 when there is none
    lockout,   \* the buckets with a lockout key
    minute,    \* the key's counter of the current minute
    apiKey,    \* status of the key's row
    call,      \* caller -> where its request is
    guesses,   \* history: bucket -> wrong secrets tried since its counter began
    served,    \* history: requests of the key that went through this minute
    calls, errors

vars == <<failed, lockout, minute, apiKey, call, guesses, served, calls, errors>>
valkey == <<failed, lockout, minute>>

Buckets == {"key", "account", "ip"}
Limit(b) == IF b = "ip" THEN IPThreshold ELSE Threshold
Steps == {"check", "verify", "count", "lock", "minted", "clear", "throttle"}

TypeOK ==
    /\ failed \in [Buckets -> Nat]
    /\ lockout \subseteq Buckets
    /\ minute \in Nat
    /\ apiKey \in {"active", "revoked"}
    /\ call \in [Callers -> {<<"idle">>} \union (Steps \X Buckets \X BOOLEAN)]
    /\ guesses \in [Buckets -> Nat]
    /\ served \in Nat
    /\ calls \in 0..MaxCalls /\ errors \in 0..MaxErrors

Init ==
    /\ failed = [b \in Buckets |-> 0]
    /\ lockout = {}
    /\ minute = 0
    /\ apiKey = "active"
    /\ call = [c \in Callers |-> <<"idle">>]
    /\ guesses = [b \in Buckets |-> 0]
    /\ served = 0
    /\ calls = 0 /\ errors = 0

At(c, step, b) == call[c][1] = step /\ call[c][2] = b
Good(c)        == call[c][3]
Goto(c, step, b) == call' = [call EXCEPT ![c] = <<step, b, Good(c)>>]
Answer(c)        == call' = [call EXCEPT ![c] = <<"idle">>]

CommandFails == errors < MaxErrors /\ errors' = errors + 1
CommandRuns  == UNCHANGED errors

\* A request arrives; good: it brings the right key or password.
Arrive(c) ==
    /\ call[c] = <<"idle">> /\ calls < MaxCalls
    /\ calls' = calls + 1
    /\ \E b \in {"key", "account"}, good \in BOOLEAN :
          call' = [call EXCEPT ![c] = <<"check", b, good>>]
    /\ UNCHANGED <<valkey, apiKey, guesses, served, errors>>

IsLockedOut(b) == b \in lockout

AfterCheck(c, b) == IF b = "account" THEN Goto(c, "check", "ip")
                                     ELSE Goto(c, "verify", b)

\* The check that precedes any lookup: one bucket of a key, two of a log-in.
LockoutCheck(c, b) ==
    /\ At(c, "check", b)
    /\ \/ CommandRuns /\ IF IsLockedOut(b) THEN Answer(c) ELSE AfterCheck(c, b)
       \/ CommandFails /\ Goto(c, "verify", b)
    /\ UNCHANGED <<valkey, apiKey, guesses, served, calls>>

Guessed(B) == guesses' = [b \in Buckets |-> guesses[b] + IF b \in B THEN 1 ELSE 0]

\* AuthenticateAPIKey selects rows whose status is 'active': a revoked key is
\* an unknown one, and counts as a failure.
AuthenticateAPIKey(c) ==
    /\ At(c, "verify", "key")
    /\ IF Good(c) /\ apiKey = "active"
         THEN Goto(c, "clear", "key") /\ UNCHANGED guesses
         ELSE Goto(c, "count", "key") /\ Guessed({"key"})
    /\ UNCHANGED <<valkey, apiKey, served, calls, errors>>

\* LookupForLogin and VerifyPassword.  The failures the credential's row counts
\* are for the record only: nothing reads them and nothing sets locked_until.
VerifyPassword(c) ==
    /\ call[c][1] = "verify" /\ call[c][2] # "key"
    /\ IF Good(c)
         THEN Goto(c, "minted", "account") /\ UNCHANGED guesses
         ELSE Goto(c, "count", "account") /\ Guessed({"account", "ip"})
    /\ UNCHANGED <<valkey, apiKey, served, calls, errors>>

\* The pair is minted and its family created (Sessions), or the log-in fails
\* here and clears nothing.
MintPair(c) ==
    /\ At(c, "minted", "account")
    /\ \/ CommandRuns /\ Goto(c, "clear", "account")
       \/ CommandFails /\ Answer(c)
    /\ UNCHANGED <<valkey, apiKey, guesses, served, calls>>

\* Where RecordFailure goes once bucket b is counted, or locked.
AfterCount(c, b) == IF b = "account" THEN Goto(c, "count", "ip") ELSE Answer(c)

CrossesThreshold(b, count) == count >= Limit(b)

\* INCR and EXPIRE in a pipeline; the answer of INCR decides.
incrWithExpire(c, b) ==
    /\ At(c, "count", b)
    /\ \/ /\ CommandRuns
          /\ failed' = [failed EXCEPT ![b] = @ + 1]
          /\ IF CrossesThreshold(b, failed[b] + 1) THEN Goto(c, "lock", b) ELSE AfterCount(c, b)
       \/ CommandFails /\ Answer(c) /\ UNCHANGED failed
    /\ UNCHANGED <<lockout, minute, apiKey, guesses, served, calls>>

\* SET NX of the lockout key, a command of its own.
SetLockout(c, b) ==
    /\ At(c, "lock", b)
    /\ \/ CommandRuns /\ lockout' = lockout \union {b} /\ AfterCount(c, b)
       \/ CommandFails /\ Answer(c) /\ UNCHANGED lockout
    /\ UNCHANGED <<failed, minute, apiKey, guesses, served, calls>>

\* After a success both keys of the bucket go; a log-in keeps the address's.
ClearFailures(c, b) ==
    /\ At(c, "clear", b)
    /\ \/ /\ CommandRuns
          /\ failed' = [failed EXCEPT ![b] = 0] /\ guesses' = [guesses EXCEPT ![b] = 0]
          /\ lockout' = lockout \ {b}
       \/ CommandFails /\ UNCHANGED <<failed, lockout, guesses>>
    /\ IF b = "key" THEN Goto(c, "throttle", "key") ELSE Answer(c)
    /\ UNCHANGED <<minute, apiKey, served, calls>>

\* The per-key counter of the minute; a Valkey error lets the request through.
AllowSuccess(c) ==
    /\ At(c, "throttle", "key")
    /\ \/ /\ CommandRuns /\ minute' = minute + 1
          /\ served' = IF minute + 1 <= RateLimitRPM THEN served + 1 ELSE served
       \/ CommandFails /\ served' = served + 1 /\ UNCHANGED minute
    /\ Answer(c)
    /\ UNCHANGED <<failed, lockout, apiKey, guesses, calls>>

RevokeAPIKey ==
    /\ apiKey = "active" /\ apiKey' = "revoked"
    /\ UNCHANGED <<valkey, call, guesses, served, calls, errors>>

\* The counter's window ends.
CounterExpires(b) ==
    /\ failed[b] > 0
    /\ failed' = [failed EXCEPT ![b] = 0] /\ guesses' = [guesses EXCEPT ![b] = 0]
    /\ UNCHANGED <<lockout, minute, apiKey, call, served, calls, errors>>

LockoutExpires(b) ==
    /\ b \in lockout /\ failed[b] = 0
    /\ lockout' = lockout \ {b}
    /\ UNCHANGED <<failed, minute, apiKey, call, guesses, served, calls, errors>>

\* The next minute counts under a key of its own.
NextMinute ==
    /\ minute > 0 /\ minute' = 0 /\ served' = 0
    /\ UNCHANGED <<failed, lockout, apiKey, call, guesses, calls, errors>>

Next ==
    \/ \E c \in Callers :
          \/ Arrive(c) \/ AuthenticateAPIKey(c) \/ VerifyPassword(c)
          \/ MintPair(c) \/ AllowSuccess(c)
          \/ \E b \in Buckets : \/ LockoutCheck(c, b) \/ incrWithExpire(c, b)
                                \/ SetLockout(c, b) \/ ClearFailures(c, b)
    \/ \E b \in Buckets : CounterExpires(b) \/ LockoutExpires(b)
    \/ RevokeAPIKey \/ NextMinute

Spec == Init /\ [][Next]_vars

\* The lockout holds: since its counter began a bucket has seen fewer wrong
\* secrets than the threshold, plus those of requests that were already past
\* the check and one for each Valkey command that failed; and a key is served
\* at most RateLimitRPM requests a minute, plus the failed commands
\* (RecordFailure of ratelimit.go, APIKeyMiddleware, LoginHandler.login).
GuessesBounded ==
    /\ \A b \in Buckets : guesses[b] < Limit(b) + Cardinality(Callers) + errors
    /\ served <= RateLimitRPM + errors

\* What makes it so.  A bucket's wrong secrets are in its counter, or a request
\* still owes them; a counter at the threshold has a lockout, or a request is
\* about to set it; and who may still guess was let past the check before that.
PastAt(b) ==
    IF b = "key" THEN {"verify"} \X {"key"} \X BOOLEAN
    ELSE ({"verify"} \X {"account", "ip"} \X BOOLEAN)
            \union {<<"check", "ip", good>> : good \in IF b = "account" THEN BOOLEAN ELSE {}}
OwingAt(b) ==
    ({"count"} \X {b} \X BOOLEAN)
       \union ({"count", "lock"} \X (IF b = "ip" THEN {"account"} ELSE {}) \X BOOLEAN)
LockingAt(b) == {"lock"} \X {b} \X BOOLEAN

Number(places) == Cardinality({c \in Callers : call[c] \in places})

GuessesCounted ==
    \A b \in Buckets :
       /\ guesses[b] + Number(PastAt(b)) < Limit(b) + Cardinality(Callers) + errors
       /\ guesses[b] <= failed[b] + Number(OwingAt(b)) + errors
       /\ b \in lockout \/
             guesses[b] < Limit(b) + Number(OwingAt(b) \union LockingAt(b)) + errors

LockoutInv == TypeOK /\ GuessesBounded /\ GuessesCounted /\ served <= minute + errors

=============================================================================
