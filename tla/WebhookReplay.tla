--------------------------- MODULE WebhookReplay ---------------------------
(***************************************************************************)
(* The dead-letter queue of internal/webhook/dlq.go and the endpoint of    *)
(* cmd/gateway/admin.go that replays its rows.  Any number of calls of     *)
(* replay run concurrently; each reads a row, publishes its payload and    *)
(* records the outcome, in separate database and Valkey calls.             *)
(*                                                                         *)
(* Get, MarkReplayed and txGet look for the row with WHERE merchant_id, so *)
(* a call for another tenant's row ends in 404; only calls of the row's    *)
(* own tenant are modelled.  A payload is named after the row that has it. *)
(* Sub 1, at the end of the stream, is represented by the ledger that      *)
(* HashSeal implements: it seals one entry for each event_hash.            *)
(***************************************************************************)
EXTENDS Naturals

CONSTANTS
    Ids,             \* rows of protocol.dlq
    Calls,           \* calls of replay that may run at the same time
    NoCall,          \* a row that no transaction has locked
    MaxAutoRetries,
    Backoffs         \* len(defaultBackoff)

ASSUME WebhookReplayAssumption ==
    /\ NoCall \notin Calls
    /\ MaxAutoRetries \in Nat \ {0}
    /\ Backoffs \in Nat
    /\ MaxAutoRetries <= Backoffs

VARIABLES
    dlq,        \* protocol.dlq
    locked,     \* row -> the call whose transaction has it FOR UPDATE
    calls,      \* call -> where it is in replay
    stream,     \* protocol:events: the entries that replays have published
    evidence    \* protocol.evidence: the entries that Sub 1 has sealed

vars == <<dlq, locked, calls, stream, evidence>>

Absent == [status |-> "absent"]

Status == {"pending", "replayed", "abandoned"}

\* next_retry counts into defaultBackoff from 1; 0 is NULL.
Row == [status : Status, retry_count : Nat, next_retry : 0..Backoffs,
        outcome : {"none", "success", "failure"}]

\* The hash a replay publishes its payload under.
Unhashed == ""

Entry == [event_hash : {Unhashed}, payload : Ids]

Idle == [pc |-> "idle"]

TypeOK ==
    /\ dlq \in [Ids -> Row \union {Absent}]
    /\ locked \in [Ids -> Calls \union {NoCall}]
    /\ calls \in [Calls -> [pc : {"publish", "mark", "failed", "update"}, id : Ids] \union {Idle}]
    /\ \A c \in Calls, d \in Ids :
          locked[d] = c <=> calls[c] = [pc |-> "update", id |-> d]
    /\ stream \subseteq Entry
    /\ evidence \subseteq stream

Init ==
    /\ dlq = [d \in Ids |-> Absent]
    /\ locked = [d \in Ids |-> NoCall]
    /\ calls = [c \in Calls |-> Idle]
    /\ stream = {}
    /\ evidence = {}

-----------------------------------------------------------------------------
Enqueue(d) ==
    /\ dlq[d] = Absent
    /\ dlq' = [dlq EXCEPT ![d] =
          [status |-> "pending", retry_count |-> 0, next_retry |-> 1, outcome |-> "none"]]
    /\ UNCHANGED <<locked, calls, stream, evidence>>

Goto(c, pc) == calls' = [calls EXCEPT ![c].pc = pc]
Return(c)   == calls' = [calls EXCEPT ![c] = Idle]

\* replay: Get, which locks nothing.
Get(c, d) ==
    /\ calls[c] = Idle
    /\ dlq[d].status = "pending"
    /\ calls' = [calls EXCEPT ![c] = [pc |-> "publish", id |-> d]]
    /\ UNCHANGED <<dlq, locked, stream, evidence>>

\* "row status is ...; cannot replay": 409; or 404 for an absent row.
Refuse(c, d) ==
    /\ calls[c] = Idle
    /\ dlq[d].status # "pending"
    /\ UNCHANGED vars

\* The event of row d: a new event_id, and no event_hash.
Republished(c) == stream' = stream \union {[event_hash |-> Unhashed, payload |-> calls[c].id]}

Publish(c) ==
    /\ calls[c].pc = "publish"
    /\ Republished(c)
    /\ Goto(c, "mark")
    /\ UNCHANGED <<dlq, locked, evidence>>

\* Mutant of PublishFails: the error is only logged.
PublishFailsLogged(c) ==
    /\ calls[c].pc = "publish"
    /\ Goto(c, "mark")
    /\ UNCHANGED <<dlq, locked, stream, evidence>>

\* XADD fails or takes longer than five seconds; the entry may be there.
PublishFails(c) ==
    /\ calls[c].pc = "publish"
    /\ Republished(c) \/ UNCHANGED stream
    /\ Goto(c, "failed")
    /\ UNCHANGED <<dlq, locked, evidence>>

\* What MarkReplayed makes of a row.
Replayed(row) ==
    [status |-> "replayed", retry_count |-> row.retry_count, next_retry |-> 0, outcome |-> "success"]

\* One UPDATE, whatever the row's status is by now; it waits for a lock.
MarkReplayed(c) ==
    LET d == calls[c].id
    IN  /\ calls[c].pc = "mark"
        /\ locked[d] = NoCall
        /\ dlq' = [dlq EXCEPT ![d] = Replayed(@)]
        /\ Return(c)
        /\ UNCHANGED <<locked, stream, evidence>>

\* Mutant of TxGet: SELECT without FOR UPDATE.
TxGetUnlocked(c) ==
    LET d == calls[c].id
    IN  /\ calls[c].pc = "failed"
        /\ dlq[d].status = "pending"
        /\ Goto(c, "update")
        /\ UNCHANGED <<dlq, locked, stream, evidence>>

\* MarkRetryFailed: txGet, SELECT ... FOR UPDATE of a pending row.
TxGet(c) ==
    LET d == calls[c].id
    IN  /\ calls[c].pc = "failed"
        /\ locked[d] = NoCall
        /\ dlq[d].status = "pending"
        /\ locked' = [locked EXCEPT ![d] = c]
        /\ Goto(c, "update")
        /\ UNCHANGED <<dlq, stream, evidence>>

\* ErrDLQTerminal, which replay drops.
TxGetTerminal(c) ==
    /\ calls[c].pc = "failed"
    /\ locked[calls[c].id] = NoCall
    /\ dlq[calls[c].id].status # "pending"
    /\ Return(c)
    /\ UNCHANGED <<dlq, locked, stream, evidence>>

\* Mutant of Failed: "exceeds MaxAutoRetries".
FailedExceeds(row) ==
    LET n == row.retry_count + 1
    IN  IF n > MaxAutoRetries
        THEN [status |-> "abandoned", retry_count |-> n, next_retry |-> 0, outcome |-> "failure"]
        ELSE [status |-> "pending", retry_count |-> n, next_retry |-> n + 1, outcome |-> "failure"]

\* What MarkRetryFailed makes of a pending row.
Failed(row) ==
    LET n == row.retry_count + 1
    IN  IF n >= MaxAutoRetries
        THEN [status |-> "abandoned", retry_count |-> n, next_retry |-> 0, outcome |-> "failure"]
        ELSE [status |-> "pending", retry_count |-> n, next_retry |-> n + 1, outcome |-> "failure"]

\* Mutant of Unlock: the transaction is left open.
UnlockNever(c) == UNCHANGED locked

\* Commit and Rollback release the row.
Unlock(c) == locked' = [d \in Ids |-> IF locked[d] = c THEN NoCall ELSE locked[d]]

\* UPDATE and Commit.  The row is as txGet read it: its lock has been held since.
Update(c) ==
    /\ calls[c].pc = "update"
    /\ dlq' = [dlq EXCEPT ![calls[c].id] = Failed(@)]
    /\ Unlock(c)
    /\ Return(c)
    /\ UNCHANGED <<stream, evidence>>

\* A database error (500, or dropped), or the gateway stops.
Abort(c) ==
    /\ calls[c] # Idle
    /\ Unlock(c)
    /\ Return(c)
    /\ UNCHANGED <<dlq, stream, evidence>>

\* Sub 1: WriteEvidence keys an event by the event_hash that was published.
Seal(entry) ==
    /\ entry \in stream
    /\ \A row \in evidence : row.event_hash # entry.event_hash
    /\ evidence' = evidence \union {entry}
    /\ UNCHANGED <<dlq, locked, calls, stream>>

Step(c) == Publish(c) \/ PublishFails(c) \/ MarkReplayed(c) \/ TxGet(c) \/ TxGetTerminal(c) \/ Update(c)

Next ==
    \/ \E d \in Ids : Enqueue(d)
    \/ \E c \in Calls : \/ \E d \in Ids : Get(c, d) \/ Refuse(c, d)
                        \/ Step(c)
                        \/ Abort(c)
    \/ \E entry \in Entry : Seal(entry)

Spec == Init /\ [][Next]_vars

\* Calls and Sub 1 go on; an operator asks for every row again and again, and
\* from some point on no database call fails.
FairSpec ==
    /\ Spec
    /\ \A c \in Calls : WF_vars(Step(c))
    /\ \A d \in Ids : WF_vars(\E c \in Calls : Get(c, d))
    /\ \A entry \in Entry : WF_vars(Seal(entry))
    /\ <>[][\A c \in Calls : Abort(c) => Step(c)]_vars

-----------------------------------------------------------------------------
(***************************************************************************)
(* StatusConsistent: a pending row has a retry of the backoff schedule     *)
(* ahead of it, the one its retry_count calls for, and MarkRetryFailed     *)
(* never reads past the schedule's end; a row with no retry ahead is       *)
(* replayed, or abandoned after MaxAutoRetries failures, and its           *)
(* last_replay_outcome says which, whatever concurrent calls report.       *)
(***************************************************************************)
StatusConsistent ==
    \A d \in Ids : dlq[d] # Absent =>
        CASE dlq[d].status = "pending" ->
                dlq[d].retry_count < MaxAutoRetries /\ dlq[d].next_retry = dlq[d].retry_count + 1
          [] dlq[d].status = "abandoned" ->
                /\ dlq[d].retry_count = MaxAutoRetries /\ dlq[d].next_retry = 0
                /\ dlq[d].outcome = "failure"
          [] dlq[d].status = "replayed" -> dlq[d].next_retry = 0 /\ dlq[d].outcome = "success"

(***************************************************************************)
(* ReplayedPublished: a row is marked replayed only if its payload is in   *)
(* the stream, whichever of the concurrent calls marks it.                 *)
(***************************************************************************)
ReplayedPublished ==
    \A d \in Ids : dlq[d].status = "replayed" => \E entry \in stream : entry.payload = d

(***************************************************************************)
(* TerminalStays: no call takes a replayed row back, or makes an abandoned *)
(* row pending again, although a call may record its failure after another *)
(* call's success (txGet's FOR UPDATE and status check).                   *)
(***************************************************************************)
TerminalStays ==
    [][\A d \in Ids :
         /\ dlq[d].status = "replayed" => dlq'[d] = dlq[d]
         /\ dlq[d].status = "abandoned" => dlq'[d].status # "pending"]_vars

(***************************************************************************)
(* The inductive invariant.  A call that has published, or that holds a    *)
(* row for its update, relies on what nobody may take away from it: the    *)
(* entry in the stream, and the row as it was when the call locked it.     *)
(***************************************************************************)
CallsPresent == \A c \in Calls : calls[c] # Idle => dlq[calls[c].id] # Absent

MarksPublished ==
    \A c \in Calls : calls[c].pc = "mark" => \E entry \in stream : entry.payload = calls[c].id

UpdatesPending == \A c \in Calls : calls[c].pc = "update" => dlq[calls[c].id].status = "pending"

DlqInv ==
    TypeOK /\ StatusConsistent /\ ReplayedPublished /\ CallsPresent /\ MarksPublished /\ UpdatesPending

(***************************************************************************)
(* PendingSettled: a row that an operator keeps replaying is replayed or   *)
(* abandoned in the end; no call waits for a row lock for ever.            *)
(***************************************************************************)
PendingSettled == \A d \in Ids : dlq[d].status = "pending" ~> dlq[d].status # "pending"
=============================================================================
