--------------------------- MODULE BarcodeLookup ---------------------------
(***************************************************************************)
(* The resolver of internal/catalog/barcodelookup: one goroutine asks each *)
(* source, a channel with room for all collects what they say, and the     *)
(* caller reads it until every source has spoken or the overall deadline   *)
(* fires.  A source that is slow for longer than its own deadline fails.   *)
(*                                                                         *)
(* A source has one confidence for all its results.                        *)
(***************************************************************************)
EXTENDS Naturals, Sequences, FiniteSets, Functions

CONSTANTS
    OpenFoodFacts, UPCItemDB,   \* the sources the gateway configures
    Others                      \* sources that may be added

Sources == {OpenFoodFacts, UPCItemDB} \union Others

VARIABLES
    answer,      \* source -> what its goroutine got, or that it still asks
    results,     \* the channel: the sources that sent
    received,    \* the sources the collector has read, in that order
    deadline,    \* whether the overall deadline has passed
    best,        \* the source of the best result, or none
    verdict      \* what Lookup returned

vars == <<answer, results, received, deadline, best, verdict>>

None == "none"
Outcomes == {"found", "unknown", "failed"}
Confidence(s) == CASE s = OpenFoodFacts -> 85 [] s = UPCItemDB -> 65 [] OTHER -> 75

TypeOK ==
    /\ answer \in [Sources -> Outcomes \union {None}]
    /\ Range(results \o received) \subseteq Sources
    /\ Len(results \o received) = Cardinality(Range(results \o received))
    /\ deadline \in BOOLEAN
    /\ best \in Sources \union {None}
    /\ verdict \in Sources \union {None, "ErrBarcodeNotFound", "ErrAllSourcesFailed"}

Init ==
    /\ answer = [s \in Sources |-> None]
    /\ results = <<>> /\ received = <<>>
    /\ deadline = FALSE
    /\ best = None /\ verdict = None

\* What a service says: a product, that it knows none (in its body or with a
\* 404), a status of its own, or nothing that can be read.
Replies == {"product", "nobody", "404", "5xx", "garbled", "lost"}

ofStatus(reply) == CASE reply = "product" -> "found"
                     [] reply \in {"nobody", "404"} -> "unknown"
                     [] OTHER -> "failed"

\* 429 is an error of its own kind, and an error.
ofCode(reply) == IF reply = "429" THEN "failed" ELSE ofStatus(reply)

Says(s, outcome) ==
    /\ answer[s] = None
    /\ answer' = [answer EXCEPT ![s] = outcome]
    /\ results' = Append(results, s)
    /\ UNCHANGED <<received, deadline, best, verdict>>

openFoodFacts == \E reply \in Replies : Says(OpenFoodFacts, ofStatus(reply))
upcitemdb     == \E reply \in Replies \union {"429"} : Says(UPCItemDB, ofCode(reply))
otherSource   == \E s \in Others, outcome \in Outcomes : Says(s, outcome)

\* The source's own deadline, or the overall one.
TimesOut(s) == Says(s, "failed")

Better(s) == best = None \/ (best # None /\ Confidence(s) > Confidence(best))

\* The collector reads the channel; it also may when the deadline has passed.
Collect ==
    /\ verdict = None /\ results # <<>>
    /\ LET s == Head(results)
       IN  /\ received' = Append(received, s)
           /\ best' = IF answer[s] = "found" /\ Better(s) THEN s ELSE best
    /\ results' = Tail(results)
    /\ UNCHANGED <<answer, deadline, verdict>>

OverallDeadline ==
    /\ ~deadline /\ deadline' = TRUE
    /\ UNCHANGED <<answer, results, received, best, verdict>>

Saw(outcome) == \E i \in DOMAIN received : answer[received[i]] = outcome

\* After the last source, or at the deadline whatever is in the channel.
Lookup ==
    /\ verdict = None
    /\ Len(received) = Cardinality(Sources) \/ deadline
    /\ verdict' = IF best # None THEN best
                  ELSE IF Saw("unknown") /\ ~Saw("failed") THEN "ErrBarcodeNotFound"
                  ELSE "ErrAllSourcesFailed"
    /\ UNCHANGED <<answer, results, received, deadline, best>>

Next ==
    \/ openFoodFacts \/ upcitemdb \/ otherSource
    \/ \E s \in Sources : TimesOut(s)
    \/ Collect \/ OverallDeadline \/ Lookup

Spec == Init /\ [][Next]_vars

\* In whatever order the sources answer: before the deadline Lookup gives the
\* most confident result there is, "not found" only when no source found or
\* failed, and after it the best of what it read; never a result while a more
\* confident one was read (Lookup of resolver.go and its error table).
BestAnswerWins ==
    verdict # None =>
        /\ verdict \in Sources =>
              /\ answer[verdict] = "found"
              /\ \A i \in DOMAIN received : answer[received[i]] = "found" =>
                    Confidence(received[i]) <= Confidence(verdict)
        /\ ~deadline =>
              /\ verdict \in Sources <=> \E s \in Sources : answer[s] = "found"
              /\ verdict = "ErrBarcodeNotFound" <=> \A s \in Sources : answer[s] = "unknown"

=============================================================================
