------------------------------- MODULE Guards -------------------------------
(***************************************************************************)
(* Three helpers in front of the pipeline, which no service calls at this  *)
(* commit: the idempotency keys (webhook/idempotency.go), the rate limit   *)
(* with its cached configuration (webhook/backpressure.go), both in        *)
(* Valkey, and the sequence log of a merchant's source (internal/tsp) in   *)
(* Postgres.  They share no state: a behaviour exercises one of them.      *)
(***************************************************************************)
EXTENDS Naturals, Sequences, FiniteSets

CONSTANTS
    Callers,      \* goroutines that call a helper
    SourceIds,    \* source_event_id; "" for none
    Limits,       \* max_rps * 60 + burst_capacity; 0: no row, or not enabled
    SequenceIds,  \* sequence ids; 0: one that no other is expected before
    IdempotencyTTL, reloadEvery,  \* in ticks of the clock, which are minutes
    LastMinute, MaxCalls          \* bounds

VARIABLES
    part,      \* the helper that is exercised
    clock,
    call,      \* caller -> the step it is at
    made,      \* calls that were begun; a call's number is also its event's
    keys,      \* id -> the event that reserved it, and until when
    config,    \* the limit's row, the cached copy and its age, and the reloads on their way
    counter,   \* minute -> INCRs of its key
    log,       \* rows of protocol.tsp_sequence_log in commit order
    told       \* history: the answers

vars == <<part, clock, call, made, keys, config, counter, log, told>>

Free == [event |-> 0, until |-> 0]
Idle == [at |-> "idle"]
Minutes == 1..LastMinute

TypeOK ==
    /\ part \in {"idempotency", "backpressure", "tsp"}
    /\ clock \in Minutes /\ made \in 0..MaxCalls
    /\ keys \in [SourceIds -> [event : 0..MaxCalls, until : 0..(LastMinute + IdempotencyTTL)]]
    /\ config.row \in Limits \union {0} /\ config.cached \in Limits \union {0}
    /\ config.loaded \in 0..clock /\ config.reads \subseteq Limits \union {0}
    /\ counter \in [Minutes -> 0..MaxCalls]
    /\ \A i, j \in DOMAIN log : i # j => log[i].sequence # log[j].sequence
    /\ \A t \in told : t.call \in 1..made

Init ==
    /\ part \in {"idempotency", "backpressure", "tsp"}
    /\ clock = 1 /\ made = 0
    /\ call = [c \in Callers |-> Idle]
    /\ keys = [id \in SourceIds |-> Free]
    /\ config \in [row : IF part = "backpressure" THEN Limits ELSE {0}, cached : {0},
                   loaded : {0}, spawned : {FALSE}, reads : {{}}]
    /\ counter = [m \in Minutes |-> 0]
    /\ log = << >> /\ told = {}

Begin(c, helper) ==
    /\ part = helper /\ call[c] = Idle /\ made < MaxCalls
    /\ made' = made + 1

Step(c, next) == call' = [call EXCEPT ![c] = next]

\* No call lasts longer than into the next minute: the clients time out.
Tick ==
    /\ part # "tsp" /\ clock < LastMinute
    /\ \A c \in Callers : call[c].at = "incr" => call[c].floor = clock
    /\ clock' = clock + 1
    /\ UNCHANGED <<part, call, made, keys, config, counter, log, told>>
-----------------------------------------------------------------------------
(* Idempotency *)
Live(id) == keys[id].event # 0 /\ clock < keys[id].until

\* SETNX with the TTL.  The reply may be lost, and a key may not be set.
Reserve(c, id) ==
    /\ Begin(c, "idempotency")
    /\ LET key == [event |-> made', until |-> clock + IdempotencyTTL]
           Answer(a) == told' = told \union
                            {[call |-> made', id |-> id, answer |-> a, until |-> key.until]}
       IN \/ id = "" /\ Answer("fresh") /\ UNCHANGED <<keys, call>>
          \/ /\ id # "" /\ ~Live(id)
             /\ keys' = [keys EXCEPT ![id] = key]
             /\ Answer("fresh") \/ Answer("error")
             /\ UNCHANGED call
          \/ id # "" /\ Answer("error") /\ UNCHANGED <<keys, call>>
          \/ /\ id # "" /\ Live(id)
             /\ Answer("duplicate") /\ Step(c, [at |-> "lookup", id |-> id, call |-> made'])
             /\ UNCHANGED keys
    /\ UNCHANGED <<part, clock, config, counter, log>>

\* A duplicate's handler asks for the event; the key may be gone by now.
Lookup(c) ==
    /\ call[c].at = "lookup"
    /\ told' = told \union {[call |-> call[c].call, id |-> call[c].id, until |-> 0, answer |-> "found",
                             event |-> IF Live(call[c].id) THEN keys[call[c].id].event ELSE 0]}
    /\ Step(c, Idle)
    /\ UNCHANGED <<part, clock, made, keys, config, counter, log>>

Forget(id) ==
    /\ part = "idempotency" /\ id # "" /\ Live(id)
    /\ keys' = [keys EXCEPT ![id] = Free]
    /\ told' = told \union {[call |-> made, id |-> id, answer |-> "forgotten", until |-> 0]}
    /\ UNCHANGED <<part, clock, call, made, config, counter, log>>
-----------------------------------------------------------------------------
(* Backpressure *)

\* External: the limit's row is edited.
Edit(limit) ==
    /\ part = "backpressure" /\ limit # config.row
    /\ config' = [config EXCEPT !.row = limit]
    /\ UNCHANGED <<part, clock, call, made, keys, counter, log, told>>

\* maybeReload and configFor: the copy is used as it is, stale or not yet loaded.
Allow(c) ==
    /\ Begin(c, "backpressure")
    /\ config' = [config EXCEPT !.spawned =
                     @ \/ config.loaded = 0 \/ clock - config.loaded > reloadEvery]
    /\ IF config.cached = 0
       THEN told' = told \union {[call |-> made', limit |-> 0, minute |-> clock, answer |-> "allowed"]}
            /\ UNCHANGED call
       ELSE Step(c, [at |-> "incr", floor |-> clock, limit |-> config.cached, call |-> made'])
            /\ UNCHANGED told
    /\ UNCHANGED <<part, clock, keys, counter, log>>

\* INCR, or an error of it, whose command may have been done all the same.
Incr(c) ==
    /\ call[c].at = "incr"
    /\ LET m == call[c].floor
           Answer(a) == told' = told \union
               {[call |-> call[c].call, limit |-> call[c].limit, minute |-> m, answer |-> a]}
       IN \/ /\ counter' = [counter EXCEPT ![m] = @ + 1]
             /\ \/ Answer(IF counter'[m] > call[c].limit THEN "refused" ELSE "allowed")
                \/ Answer("error")
          \/ Answer("error") /\ UNCHANGED counter
    /\ Step(c, Idle)
    /\ UNCHANGED <<part, clock, made, keys, config, log>>

\* LoadConfigs in a goroutine of its own; any number may be between the two steps.
LoadRead ==
    /\ config.spawned
    /\ config' \in {[config EXCEPT !.reads = @ \union {config.row}, !.spawned = FALSE],
                    [config EXCEPT !.spawned = FALSE]}
    /\ UNCHANGED <<part, clock, call, made, keys, counter, log, told>>

LoadConfigs(limit) ==
    /\ limit \in config.reads
    /\ config' = [config EXCEPT !.cached = limit, !.loaded = clock, !.reads = @ \ {limit}]
    /\ UNCHANGED <<part, clock, call, made, keys, counter, log, told>>
-----------------------------------------------------------------------------
(* The sequence log *)

\* ORDER BY received_at DESC; received_at is when the transaction began.
Latest == CHOOSE i \in DOMAIN log : \A j \in DOMAIN log : log[j].received <= log[i].received

\* A sequence id of 0 stands for those without an expected predecessor.
Gap(n) == log # << >> /\ n > 0 /\ log[Latest].sequence # n - 1

\* Begin and the look-up of the last entry.
RecordBegin(c, n) ==
    /\ Begin(c, "tsp")
    /\ Step(c, [at |-> "begun", sequence |-> n, call |-> made'])
    /\ UNCHANGED <<part, clock, keys, config, counter, log, told>>

RecordLookup(c) ==
    /\ call[c].at = "begun"
    /\ Step(c, [at |-> "insert", sequence |-> call[c].sequence, call |-> call[c].call,
                gap |-> Gap(call[c].sequence), saw |-> Len(log)])
    /\ UNCHANGED <<part, clock, made, keys, config, counter, log, told>>

\* The unique key is another transaction's until it ends.
Waits(c) == \E d \in Callers \ {c} : call[d].at = "commit" /\ call[d].sequence = call[c].sequence

RecordInsert(c) ==
    /\ call[c].at = "insert" /\ ~Waits(c)
    /\ IF \E i \in DOMAIN log : log[i].sequence = call[c].sequence
       THEN Step(c, Idle)
            /\ told' = told \union {[call |-> call[c].call, sequence |-> call[c].sequence, answer |-> "duplicate"]}
       ELSE Step(c, [call[c] EXCEPT !.at = "commit"]) /\ UNCHANGED told
    /\ UNCHANGED <<part, clock, made, keys, config, counter, log>>

\* The commit may take effect and be reported as failed.
RecordCommit(c) ==
    /\ call[c].at = "commit"
    /\ log' = Append(log, [sequence |-> call[c].sequence, gap |-> call[c].gap,
                           received |-> call[c].call, saw |-> call[c].saw])
    /\ \E a \in {"recorded", "error"} :
           told' = told \union {[call |-> call[c].call, sequence |-> call[c].sequence, answer |-> a]}
    /\ Step(c, Idle)
    /\ UNCHANGED <<part, clock, made, keys, config, counter>>

\* Any call fails; an insert that fails, for whatever reason, is a "duplicate".
RecordFails(c) ==
    /\ call[c].at \in {"begun", "insert", "commit"}
    /\ told' = told \union {[call |-> call[c].call, sequence |-> call[c].sequence,
                    answer |-> IF call[c].at = "insert" THEN "duplicate" ELSE "error"]}
    /\ Step(c, Idle)
    /\ UNCHANGED <<part, clock, made, keys, config, counter, log>>

Next ==
    \/ Tick
    \/ \E c \in Callers : \/ \E id \in SourceIds : Reserve(c, id)
                          \/ \E n \in SequenceIds : RecordBegin(c, n)
                          \/ Lookup(c) \/ Allow(c) \/ Incr(c) \/ RecordLookup(c)
                          \/ RecordInsert(c) \/ RecordCommit(c) \/ RecordFails(c)
    \/ \E id \in SourceIds : Forget(id)
    \/ \E limit \in Limits \union {0} : Edit(limit) \/ LoadConfigs(limit)
    \/ LoadRead

Spec == Init /\ [][Next]_vars
-----------------------------------------------------------------------------
(* Properties *)

\* Of the calls with one id, two are taken as fresh only when the first one's key
\* ran out in between, unless it was removed; and a duplicate is answered with an
\* event that was reserved under its id, its own excepted.
OnceWhileKept ==
    part = "idempotency" =>
        \A t, u \in told :
            /\ t.answer = "fresh" /\ u.answer = "fresh" /\ t.id = u.id /\ t.call < u.call =>
                  \/ t.id = "" \/ t.until <= u.until - IdempotencyTTL
                  \/ \E f \in told : f.answer = "forgotten" /\ f.id = t.id
            /\ t.answer = "found" /\ t.event # 0 =>
                  /\ t.event # t.call
                  /\ \E v \in told : v.call = t.event /\ v.id = t.id /\ v.answer \in {"fresh", "error"}

\* Within a minute no more calls are let through under a limit than it says, though
\* calls overlap, replies are lost and the limit is edited and loaded late.  A call
\* is refused only in a minute with more calls than its limit.
LimitKept ==
    part = "backpressure" =>
        \A t \in told :
            LET InMinute == {u \in told : u.minute = t.minute /\ u.limit # 0} IN
              /\ t.limit # 0 =>
                   Cardinality({u \in InMinute : u.answer = "allowed" /\ u.limit = t.limit}) <= t.limit
              /\ t.answer = "refused" => Cardinality(InMinute) > t.limit \/ counter[t.minute] > t.limit

\* A hole is flagged: an entry without a flag is the first, or its predecessor is in
\* the log.  A false alarm has a reason: the predecessor was committed after the
\* look-up, or something received later was there already.
HolesFlagged ==
    \A i \in DOMAIN log :
        LET r == log[i] IN
        r.sequence > 0 /\ r.saw > 0 =>
            /\ ~r.gap => \E j \in 1..r.saw : log[j].sequence = r.sequence - 1
            /\ r.gap => \A j \in 1..r.saw :
                  log[j].sequence = r.sequence - 1 =>
                      \E k \in 1..r.saw : log[k].received > log[j].received

GuardsSound == TypeOK /\ OnceWhileKept /\ LimitKept /\ HolesFlagged
=============================================================================
