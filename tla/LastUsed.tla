------------------------------ MODULE LastUsed ------------------------------
(***************************************************************************)
(* The LastUsedRecorder of internal/identity/lastused.go in processes that *)
(* share app.api_keys: requests touch a key in memory, a flusher writes    *)
(* the touches every interval, and a process that is told to stop drains.  *)
(*                                                                         *)
(* A touch is the time it was made; no two are made at the same time.      *)
(***************************************************************************)
EXTENDS Naturals, FiniteSets

CONSTANTS
    Hosts,       \* processes
    ApiKeys,     \* keys
    MaxTouches   \* bound: touches

VARIABLES
    pending,   \* host -> key -> the touch in its map; 0 when there is none
    snapshot,  \* host -> key -> the touches a flush took out of the map
    flusher,   \* host -> where its flusher is
    context,   \* host -> what ended: nothing, the signal's context, the server
    row,       \* key -> last_used_at
    clock,
    before,    \* history: host -> key -> the last touch before the signal
    written,   \* history: the host, key and time of every touch written
    failed     \* history: and of every touch of a flush that failed

vars == <<pending, snapshot, flusher, context, row, clock, before, written, failed>>

NoTouches == [k \in ApiKeys |-> 0]

TypeOK ==
    /\ pending \in [Hosts -> [ApiKeys -> 0..MaxTouches]]
    /\ snapshot \in [Hosts -> [ApiKeys -> 0..MaxTouches]]
    /\ flusher \in [Hosts -> {"off", "waiting", "flushing", "draining", "exited"}]
    /\ context \in [Hosts -> {"live", "signalled", "drained", "closed"}]
    /\ row \in [ApiKeys -> 0..MaxTouches]
    /\ clock \in 0..MaxTouches
    /\ before \in [Hosts -> [ApiKeys -> 0..MaxTouches]]
    /\ written \union failed \subseteq Hosts \X ApiKeys \X (1..MaxTouches)

Init ==
    /\ pending = [h \in Hosts |-> NoTouches]
    /\ snapshot = [h \in Hosts |-> NoTouches]
    /\ flusher = [h \in Hosts |-> "off"]
    /\ context = [h \in Hosts |-> "live"]
    /\ row = NoTouches
    /\ clock = 0
    /\ before = [h \in Hosts |-> NoTouches]
    /\ written = {} /\ failed = {}

\* Requests are served until the server has drained; the boot helper starts the
\* recorder before it listens.
Start(h) ==
    /\ flusher[h] = "off" /\ context[h] = "live"
    /\ flusher' = [flusher EXCEPT ![h] = "waiting"]
    /\ UNCHANGED <<pending, snapshot, context, row, clock, before, written, failed>>

Touch(h, k) ==
    /\ flusher[h] # "off" /\ context[h] \in {"live", "signalled"}
    /\ clock < MaxTouches /\ clock' = clock + 1
    /\ pending' = [pending EXCEPT ![h][k] = clock']
    /\ before' = IF context[h] = "live" THEN [before EXCEPT ![h][k] = clock'] ELSE before
    /\ UNCHANGED <<snapshot, flusher, context, row, written, failed>>

\* The snapshot and the new map, under the lock.
TakeSnapshot(h) ==
    /\ snapshot' = [snapshot EXCEPT ![h] = pending[h]]
    /\ pending' = [pending EXCEPT ![h] = NoTouches]

\* The context or Close ends the loop: one more flush, with a context of its own.
Drain(h) ==
    /\ flusher[h] = "waiting" /\ context[h] # "live"
    /\ TakeSnapshot(h)
    /\ flusher' = [flusher EXCEPT ![h] = "draining"]
    /\ UNCHANGED <<context, row, clock, before, written, failed>>

\* A tick flushes; after the signal the select may still pick the ticker.
Tick(h) ==
    /\ flusher[h] = "waiting" /\ pending[h] # NoTouches
    /\ TakeSnapshot(h)
    /\ flusher' = [flusher EXCEPT ![h] = "flushing"]
    /\ UNCHANGED <<context, row, clock, before, written, failed>>

Touches(h) == {<<h, k, snapshot[h][k]>> : k \in {k \in ApiKeys : snapshot[h][k] > 0}}

Flushed(h) ==
    /\ flusher' = [flusher EXCEPT ![h] = IF @ = "draining" THEN "exited" ELSE "waiting"]
    /\ snapshot' = [snapshot EXCEPT ![h] = NoTouches]
    /\ UNCHANGED <<pending, context, clock, before>>

\* The batched UPDATE, which does not compare with the time the row has.
Flush(h) ==
    /\ flusher[h] \in {"flushing", "draining"}
    /\ row' = [k \in ApiKeys |-> IF snapshot[h][k] > 0 THEN snapshot[h][k] ELSE row[k]]
    /\ written' = written \union Touches(h)
    /\ UNCHANGED failed
    /\ Flushed(h)

\* The UPDATE fails, as it does when the signal cancels a tick's context: the
\* snapshot is not put back.
FlushFails(h) ==
    /\ flusher[h] \in {"flushing", "draining"}
    /\ failed' = failed \union Touches(h)
    /\ UNCHANGED <<row, written>>
    /\ Flushed(h)

\* SIGTERM ends the context the flusher was started with; the server drains
\* for its grace period, and Close comes last.
Shutdown(h) ==
    /\ flusher[h] # "off"
    /\ \/ context[h] = "live" /\ context' = [context EXCEPT ![h] = "signalled"]
       \/ context[h] = "signalled" /\ context' = [context EXCEPT ![h] = "drained"]
       \/ /\ context[h] = "drained" /\ flusher[h] = "exited"
          /\ context' = [context EXCEPT ![h] = "closed"]
    /\ UNCHANGED <<pending, snapshot, flusher, row, clock, before, written, failed>>

Next == \E h \in Hosts :
    \/ Start(h) \/ Drain(h) \/ Tick(h) \/ Flush(h) \/ FlushFails(h) \/ Shutdown(h)
    \/ \E k \in ApiKeys : Touch(h, k)

Spec == Init /\ [][Next]_vars

\* A graceful shutdown loses no touch made before the signal: once the flusher
\* has exited, the host wrote, or tried and failed to write, that touch or a
\* later one of its key (run and Flush of lastused.go).  And last_used_at is the
\* latest touch that some host wrote: a host's flushes never go backwards.
TouchesAccounted ==
    /\ \A h \in Hosts, k \in ApiKeys :
          flusher[h] = "exited" /\ before[h][k] > 0 =>
              \E t \in before[h][k]..clock : <<h, k, t>> \in written \union failed
    /\ \A k \in ApiKeys : row[k] > 0 =>
          \E h \in Hosts : /\ <<h, k, row[k]>> \in written
                           /\ \A t \in row[k] + 1 .. clock : <<h, k, t>> \notin written

\* What makes it so.  A touch that waits is later than the one that is being
\* flushed, and that one later than those that were; and the last touch before
\* the signal waits, is being flushed, or was, or one after it, until the drain:
\* then it no longer waits.
Tried(h, k) == {t \in 1..MaxTouches : <<h, k, t>> \in written \union failed}

TouchesInOrder ==
    \A h \in Hosts, k \in ApiKeys :
       /\ {pending[h][k], snapshot[h][k], before[h][k]} \subseteq 0..clock
       /\ snapshot[h][k] > 0 /\ pending[h][k] > 0 => snapshot[h][k] < pending[h][k]
       /\ \A t \in Tried(h, k) : /\ t <= clock
                                 /\ snapshot[h][k] > 0 => t < snapshot[h][k]
                                 /\ pending[h][k] > 0 => t < pending[h][k]

TouchesHeld ==
    \A h \in Hosts :
       /\ flusher[h] \notin {"flushing", "draining"} => snapshot[h] = NoTouches
       /\ flusher[h] \in {"draining", "exited"} => context[h] # "live"
       /\ \A k \in ApiKeys : before[h][k] > 0 =>
             \/ flusher[h] \notin {"draining", "exited"} /\ pending[h][k] >= before[h][k]
             \/ snapshot[h][k] >= before[h][k]
             \/ \E t \in Tried(h, k) : t >= before[h][k]

RecorderInv == TypeOK /\ TouchesAccounted /\ TouchesInOrder /\ TouchesHeld

=============================================================================
