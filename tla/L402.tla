-------------------------------- MODULE L402 --------------------------------
(***************************************************************************)
(* Paid verification of internal/protocol/validate: POST /verify answers   *)
(* an anchored event with a challenge and a token, and the token is spent  *)
(* for the event's Merkle proof at either endpoint.                        *)
(*                                                                         *)
(* An event's anchors are numbered as they are written; two workers may    *)
(* anchor one event (MerkleAnchor).  The macaroon is the token's id under  *)
(* the server's key: who has it has been given the challenge.  No payment  *)
(* is checked, the Lightning side is a stub.                               *)
(***************************************************************************)
EXTENDS Naturals, Sequences, FiniteSets

CONSTANTS
    Events,      \* event hashes of protocol.evidence
    Clients,     \* requests in flight
    MaxAnchors,  \* bound: anchors of an event
    MaxTokens    \* bound: tokens issued

VARIABLES
    anchorsOf,   \* event -> its anchors, the last one is anchored last
    tokens,      \* protocol.l402_verification_tokens; a token's index is its id
    visits,      \* client -> where its request is
    answers,     \* history: the token, event and anchor of every proof sent
    unanswered   \* history: tokens consumed by a request that then broke off

vars == <<anchorsOf, tokens, visits, answers, unanswered>>

TokenIds  == 1..MaxTokens
AnchorIds == 0..MaxAnchors
Token == [event_hash : Events, status : {"pending", "consumed"}, expired : BOOLEAN]
Idle  == [at |-> "idle"]

TypeOK ==
    /\ anchorsOf \in [Events -> AnchorIds]
    /\ tokens \in Seq(Token) /\ Len(tokens) <= MaxTokens
    /\ \A c \in Clients :
          \/ visits[c] = Idle
          \/ visits[c] \in [at : {"ask"}, event : Events]
          \/ visits[c] \in [at : {"token", "proof"}, token : DOMAIN tokens]
          \/ visits[c] \in [at : {"consume", "respond"}, token : DOMAIN tokens,
                            event : Events, anchor : AnchorIds]
    /\ answers \subseteq Clients \X TokenIds \X Events \X AnchorIds
    /\ unanswered \subseteq TokenIds

Init ==
    /\ anchorsOf = [e \in Events |-> 0]
    /\ tokens = << >>
    /\ visits = [c \in Clients |-> Idle]
    /\ answers = {}
    /\ unanswered = {}

Goto(c, visit) == visits' = [visits EXCEPT ![c] = visit]

\* Sub 3 anchors the event (again).
Anchored(e) ==
    /\ anchorsOf[e] < MaxAnchors
    /\ anchorsOf' = [anchorsOf EXCEPT ![e] = @ + 1]
    /\ UNCHANGED <<tokens, visits, answers, unanswered>>

\* POST /verify without a macaroon: only an anchored event is sold.
issueChallenge(c, e) ==
    /\ visits[c] = Idle /\ anchorsOf[e] > 0
    /\ Goto(c, [at |-> "ask", event |-> e])
    /\ UNCHANGED <<anchorsOf, tokens, answers, unanswered>>

InsertToken(c) ==
    /\ visits[c].at = "ask" /\ Len(tokens) < MaxTokens
    /\ tokens' = Append(tokens, [event_hash |-> visits[c].event, status |-> "pending",
                                 expired |-> FALSE])
    /\ Goto(c, Idle)
    /\ UNCHANGED <<anchorsOf, answers, unanswered>>

TokenExpires(t) ==
    /\ ~tokens[t].expired
    /\ tokens' = [tokens EXCEPT ![t].expired = TRUE]
    /\ UNCHANGED <<anchorsOf, visits, answers, unanswered>>

\* A macaroon verifies for the token it names.  GET /verify/{token_id} insists
\* that it is the token of the path; POST /verify serves the token's own event,
\* whatever event the body names.
consumeToken(c, t) ==
    /\ visits[c] = Idle
    /\ Goto(c, [at |-> "token", token |-> t])
    /\ UNCHANGED <<anchorsOf, tokens, answers, unanswered>>

\* consumeAndRespond reads the token first; nothing sets the status 'expired'.
GetToken(c) ==
    /\ visits[c].at = "token"
    /\ IF tokens[visits[c].token].status = "consumed"
         THEN Goto(c, Idle)
         ELSE Goto(c, [visits[c] EXCEPT !.at = "proof"])
    /\ UNCHANGED <<anchorsOf, tokens, answers, unanswered>>

\* The latest anchor.
GetAnchorProof(c) ==
    /\ visits[c].at = "proof"
    /\ LET t == visits[c].token  e == tokens[t].event_hash
       IN  IF anchorsOf[e] = 0 THEN Goto(c, Idle)
           ELSE Goto(c, [at |-> "consume", token |-> t, event |-> e, anchor |-> anchorsOf[e]])
    /\ UNCHANGED <<anchorsOf, tokens, answers, unanswered>>

\* Mutant of Consumable: trusts the status read before.
ConsumableAgain(token) == ~token.expired

\* The WHERE of the UPDATE in ConsumeToken.
Consumable(token) == token.status = "pending" /\ ~token.expired

ConsumeToken(c) ==
    /\ visits[c].at = "consume"
    /\ LET t == visits[c].token
       IN  IF Consumable(tokens[t])
             THEN /\ tokens' = [tokens EXCEPT ![t].status = "consumed"]
                  /\ Goto(c, [visits[c] EXCEPT !.at = "respond"])
             ELSE Goto(c, Idle) /\ UNCHANGED tokens
    /\ UNCHANGED <<anchorsOf, answers, unanswered>>

consumeAndRespond(c) ==
    /\ visits[c].at = "respond"
    /\ answers' = answers \union {<<c, visits[c].token, visits[c].event, visits[c].anchor>>}
    /\ Goto(c, Idle)
    /\ UNCHANGED <<anchorsOf, tokens, unanswered>>

\* A store error, the client hangs up, or the process ends.
BreaksOff(c) ==
    /\ visits[c] # Idle
    /\ unanswered' = unanswered \union
                        (IF visits[c].at = "respond" THEN {visits[c].token} ELSE {})
    /\ Goto(c, Idle)
    /\ UNCHANGED <<anchorsOf, tokens, answers>>

Next ==
    \/ \E e \in Events : Anchored(e)
    \/ \E c \in Clients :
          \/ \E e \in Events : issueChallenge(c, e)
          \/ \E t \in DOMAIN tokens : consumeToken(c, t)
          \/ InsertToken(c) \/ GetToken(c) \/ GetAnchorProof(c) \/ ConsumeToken(c)
          \/ consumeAndRespond(c) \/ BreaksOff(c)
    \/ \E t \in DOMAIN tokens : TokenExpires(t)

Spec == Init /\ [][Next]_vars

\* A token buys one proof, of the event it was sold for, from an anchor that
\* existed; and a token is never spent for nothing, unless the request breaks
\* off between the update and the answer: then its buyer can ask no more
\* (consumeAndRespond: "so we never consume without a proof").
OneProofPerToken ==
    \A t \in DOMAIN tokens :
        LET sold == {a \in answers : a[2] = t}
            held == {c \in Clients : visits[c].at = "respond" /\ visits[c].token = t}
            lost == unanswered \intersect {t}
        IN  /\ Cardinality(sold) + Cardinality(held) + Cardinality(lost) =
                   IF tokens[t].status = "consumed" THEN 1 ELSE 0
            /\ \A a \in sold : /\ a[3] = tokens[t].event_hash
                               /\ a[4] \in 1..anchorsOf[a[3]]

=============================================================================
