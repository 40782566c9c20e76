------------------------------- MODULE Poller -------------------------------
(***************************************************************************)
(* The Counterpoint poller of internal/poller (cmd/edge): each tick asks   *)
(* every merchant's endpoint for the documents since its cursor, publishes *)
(* them one by one and moves the cursor to the latest date it published.   *)
(*                                                                         *)
(* The source is outside the repository.  As the code uses it, it answers  *)
(* with the documents dated at or after "since", the oldest first, and its *)
(* documents appear in the order of their dates.  A merchant's document is *)
(* its place in that order; dates are whole seconds, as in the cursor.     *)
(***************************************************************************)
EXTENDS Naturals, Sequences, FiniteSets

CONSTANTS
    Shops,      \* merchants with active credentials, in the order of their ids
    MaxDocs,    \* bound: documents of a merchant
    MaxDate,    \* bound: the latest date
    fetchLimit, \* documents of one fetch, 100 in the code
    MaxSnags    \* bound: calls that fail, and restarts

VARIABLES
    source,     \* external: merchant -> the dates of its documents, in order
    garbled,    \* external: the <<merchant, document>> that cannot be parsed
    cursor,     \* merchant -> its cursor in Valkey; 0 when there is none
    todo,       \* the merchants this tick has still to poll
    batch,      \* documents fetched and not yet published, of the first in todo
    latestDate, \* the latest date published of that batch
    stage,      \* where the poller is: between ticks, before a fetch, publishing
    sent,       \* history: the <<merchant, document>> published
    snags

vars == <<source, garbled, cursor, todo, batch, latestDate, stage, sent, snags>>

Dates == 1..MaxDate
Documents == Shops \X (1..MaxDocs)

TypeOK ==
    /\ source \in [Shops -> Seq(Dates)] /\ \A m \in Shops : Len(source[m]) <= MaxDocs
    /\ garbled \subseteq Documents
    /\ cursor \in [Shops -> 0..MaxDate]
    /\ todo \in Seq(Shops)
    /\ batch \in Seq(1..MaxDocs) /\ Len(batch) <= fetchLimit
    /\ latestDate \in 0..MaxDate
    /\ stage \in {"waiting", "fetch", "publish"}
    /\ stage = "waiting" <=> todo = << >>
    /\ sent \subseteq Documents
    /\ snags \in 0..MaxSnags

Init ==
    /\ source = [m \in Shops |-> << >>]
    /\ garbled = {}
    /\ cursor = [m \in Shops |-> 0]
    /\ todo = << >> /\ batch = << >> /\ latestDate = 0
    /\ stage = "waiting"
    /\ sent = {}
    /\ snags = 0

Current == Head(todo)

\* A document appears at the source, parseable or not.
DocumentAppears(m) ==
    /\ Len(source[m]) < MaxDocs
    /\ \E date \in Dates :
          /\ \A i \in 1..Len(source[m]) : source[m][i] <= date
          /\ source' = [source EXCEPT ![m] = Append(@, date)]
    /\ garbled' \in {garbled, garbled \union {<<m, Len(source[m]) + 1>>}}
    /\ UNCHANGED <<cursor, todo, batch, latestDate, stage, sent, snags>>

\* The merchants that are still to be polled in this tick.
Poll(merchants) ==
    /\ todo' = merchants
    /\ stage' = IF merchants = << >> THEN "waiting" ELSE "fetch"

\* ListActiveCredentials: every merchant once, by id.
InOrder == {s \in [1..Cardinality(Shops) -> Shops] : \A j, k \in DOMAIN s : j < k => s[j] < s[k]}

tick ==
    /\ stage = "waiting"
    /\ \E merchants \in InOrder : Poll(merchants)
    /\ UNCHANGED <<source, garbled, cursor, batch, latestDate, sent, snags>>

\* On to the next merchant, whatever came of this one.
NextMerchant == Poll(Tail(todo)) /\ batch' = << >> /\ latestDate' = 0

Since(m) == {i \in 1..Len(source[m]) : source[m][i] >= cursor[m]}

\* What one fetch returns of D: at most fetchLimit documents, the oldest, in order.
limitDocs(D) ==
    {docs \in [1..(IF Cardinality(D) > fetchLimit THEN fetchLimit ELSE Cardinality(D)) -> D] :
        \A k \in DOMAIN docs :
            \A i \in D : i < docs[k] <=> \E j \in DOMAIN docs : j < k /\ docs[j] = i}

\* loadCursor and fetchDocuments: without a cursor, everything.
fetchDocuments ==
    /\ stage = "fetch"
    /\ \E docs \in limitDocs(Since(Current)) :
          IF docs = << >> THEN NextMerchant
          ELSE batch' = docs /\ latestDate' = 0 /\ stage' = "publish" /\ UNCHANGED todo
    /\ UNCHANGED <<source, garbled, cursor, sent, snags>>

Failure == snags < MaxSnags /\ snags' = snags + 1

\* The cursor cannot be read, or the fetch fails: not this tick.
fetchFails ==
    /\ stage = "fetch" /\ Failure /\ NextMerchant
    /\ UNCHANGED <<source, garbled, cursor, sent>>

\* One turn of the loop.  A document that cannot be parsed is skipped for good
\* once a later one moves the cursor.
wrapAndPublish ==
    /\ stage = "publish" /\ batch # << >>
    /\ LET d == <<Current, Head(batch)>>
       IN  IF d \in garbled THEN UNCHANGED <<sent, latestDate>>
           ELSE /\ sent' = sent \union {d}
                /\ latestDate' = IF source[Current][Head(batch)] > latestDate
                                 THEN source[Current][Head(batch)] ELSE latestDate
    /\ batch' = Tail(batch)
    /\ UNCHANGED <<source, garbled, cursor, todo, stage, snags>>

\* Mutant of publishFails: goes on with the next document.
publishFailsGoesOn ==
    /\ stage = "publish" /\ batch # << >> /\ Failure
    /\ batch' = Tail(batch)
    /\ UNCHANGED <<source, garbled, cursor, todo, latestDate, stage, sent>>

\* A failed publish ends the merchant's turn before the cursor is saved.
publishFails ==
    /\ stage = "publish" /\ batch # << >> /\ Failure
    /\ NextMerchant
    /\ UNCHANGED <<source, garbled, cursor, sent>>

\* A cursor that is not saved is only logged.
saveCursor ==
    /\ stage = "publish" /\ batch = << >>
    /\ \/ latestDate > 0 /\ cursor' = [cursor EXCEPT ![Current] = latestDate] /\ UNCHANGED snags
       \/ latestDate = 0 /\ UNCHANGED <<cursor, snags>>
       \/ latestDate > 0 /\ Failure /\ UNCHANGED cursor
    /\ NextMerchant
    /\ UNCHANGED <<source, garbled, sent>>

\* The process ends and starts again, with a tick.
Restart ==
    /\ stage # "waiting" /\ Failure
    /\ todo' = << >> /\ batch' = << >> /\ latestDate' = 0 /\ stage' = "waiting"
    /\ UNCHANGED <<source, garbled, cursor, sent>>

\* The cursor of a merchant without documents for 30 days.
CursorExpires(m) ==
    /\ cursor[m] > 0 /\ Failure
    /\ cursor' = [cursor EXCEPT ![m] = 0]
    /\ UNCHANGED <<source, garbled, todo, batch, latestDate, stage, sent>>

Next ==
    \/ tick \/ fetchDocuments \/ fetchFails \/ wrapAndPublish \/ publishFails
    \/ saveCursor \/ Restart
    \/ \E m \in Shops : DocumentAppears(m) \/ CursorExpires(m)

Spec == Init /\ [][Next]_vars

\* The cursor leaves nothing behind: a document that the next fetch no longer
\* asks for was published or cannot be parsed, and the documents of the cursor's
\* own second, those that appear there later among them, are asked for again
\* (pollMerchant: the cursor is saved last, "worst case we re-fetch").
NothingLeftBehind ==
    \A m \in Shops : \A i \in 1..Len(source[m]) :
        \/ <<m, i>> \in sent \union garbled
        \/ i \in Since(m)

\* What keeps it.  A cursor is the date of a document, so that nothing appears
\* behind it.  Of the merchant being polled, whatever comes before a document of the
\* batch was published, cannot be parsed, or is in the batch before it; and nothing
\* up to the latest date published is left out.
SourceInOrder ==
    \A m \in Shops : \A i, j \in 1..Len(source[m]) : i <= j => source[m][i] <= source[m][j]

CursorFromSource ==
    \A m \in Shops : cursor[m] # 0 => \E j \in 1..Len(source[m]) : source[m][j] = cursor[m]

BatchLeavesNothing ==
    stage = "publish" => \A k \in 1..Len(batch) :
        /\ batch[k] <= Len(source[Current])
        /\ \A i \in 1..(batch[k] - 1) :
              <<Current, i>> \in sent \union garbled \/ \E j \in 1..(k - 1) : batch[j] = i

LatestLeavesNothing ==
    stage = "publish" /\ latestDate # 0 => \E j \in 1..Len(source[Current]) :
        /\ source[Current][j] = latestDate
        /\ \A i \in 1..j : <<Current, i>> \in sent \union garbled

CursorInv ==
    /\ TypeOK /\ SourceInOrder /\ NothingLeftBehind
    /\ CursorFromSource /\ BatchLeavesNothing /\ LatestLeavesNothing

=============================================================================
