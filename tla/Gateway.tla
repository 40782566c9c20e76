------------------------------ MODULE Gateway ------------------------------
(***************************************************************************)
(* The webhook gateway: ServeHTTP of internal/protocol/webhook, Verify of  *)
(* internal/protocol/hmac, the nonce store and the publisher of            *)
(* internal/protocol/publisher.  A source network posts signed requests;   *)
(* calls of ServeHTTP run concurrently, in one process or several, and     *)
(* share only Valkey: the nonce keys and the stream.                       *)
(*                                                                         *)
(* The source is external.  It is modelled from what the handler expects   *)
(* of it: it sends an event again when it is told 5xx or hears nothing,    *)
(* and gives up when it is told 4xx.                                       *)
(***************************************************************************)
EXTENDS Naturals, Sequences

CONSTANTS
    Events,       \* events of the source
    Handlers,     \* calls of ServeHTTP that may run at the same time
    NoHandler,    \* the source waits for no call
    Window,       \* ReplayWindow, in clock ticks
    MaxTime,      \* bound: clock readings
    MaxSends,     \* bound: sends of one event
    MaxMishaps,   \* bound: requests damaged or given up by the source
    MaxFaults     \* bound: failures of the gateway, the database or Valkey

\* What is wrong with an event's requests, if anything.
Kinds == {"good",       \* known merchant and source, valid JSON
          "malformed",  \* no source or merchant, or the body cannot be read
          "unknown",    \* no secret for the merchant and source
          "badheaders", \* as good, but the timestamp is missing or not a number
          "notjson"}    \* as good, but the body is not JSON

ASSUME GatewayAssumption ==
    /\ NoHandler \notin Handlers
    /\ Window \in Nat \ {0}
    /\ MaxTime \in Nat /\ MaxSends \in Nat /\ MaxMishaps \in Nat /\ MaxFaults \in Nat

\* A nonce is named after the event and the number of its signature.
Nonce == Events \X (1..MaxSends)

VARIABLES
    clock,      \* the time
    nonces,     \* Valkey: nonce -> when its key expires
    stream,     \* Valkey: the entries of protocol:events
    calls,      \* handler -> the call it is serving
    source,     \* event -> what the source knows and does about it
    mishaps,    \* counts damaged requests and timeouts
    faults      \* counts failures

vars == <<clock, nonces, stream, calls, source, mishaps, faults>>

Idle == [pc |-> "idle"]

Call == [pc : {"receive", "nonce", "publish"}, event : Events, kind : Kinds, ts : Nat,
         nonce : Nonce, intact : BOOLEAN, taken : Nat]

Answers == {"unsent", "none", "200", "400", "401", "500"}

TypeOK ==
    /\ clock \in 1..(MaxTime + 1)
    /\ nonces \in [Nonce -> Nat]
    /\ stream \in Seq([event : Events, nonce : Nonce, taken : Nat])
    /\ calls \in [Handlers -> Call \union {Idle}]
    /\ source \in [Events -> [kind : Kinds, resigns : BOOLEAN, sends : 0..MaxSends, signs : 0..MaxSends,
                              ts : Nat, awaits : Handlers \union {NoHandler}, answer : Answers]]
    /\ \A e \in Events : source[e].awaits # NoHandler =>
          calls[source[e].awaits].pc # "idle" /\ calls[source[e].awaits].event = e
    /\ mishaps \in 0..MaxMishaps
    /\ faults \in 0..MaxFaults

Init ==
    /\ clock = 1
    /\ nonces = [n \in Nonce |-> 0]
    /\ stream = << >>
    /\ calls = [h \in Handlers |-> Idle]
    /\ source \in [Events -> [kind : Kinds, resigns : BOOLEAN, sends : {0}, signs : {0}, ts : {0},
                              awaits : {NoHandler}, answer : {"unsent"}]]
    /\ mishaps = 0
    /\ faults = 0

-----------------------------------------------------------------------------
Tick ==
    /\ clock <= MaxTime
    /\ clock' = clock + 1
    /\ UNCHANGED <<nonces, stream, calls, source, mishaps, faults>>

Mishap == mishaps < MaxMishaps /\ mishaps' = mishaps + 1
Fault  == faults < MaxFaults /\ faults' = faults + 1

\* The source sends e for the first time, or again, to call h.  It signs a retry
\* afresh, or repeats the request that it signed first.  Its clock is the
\* gateway's: ts is never later than the call.
Send(e, h, intact) ==
    LET fresh == source[e].sends = 0 \/ source[e].resigns
        signs == source[e].signs + IF fresh THEN 1 ELSE 0
        ts    == IF fresh THEN clock ELSE source[e].ts
    IN  /\ calls[h] = Idle
        /\ source[e].awaits = NoHandler
        /\ source[e].answer \in {"unsent", "none", "500"}
        /\ source[e].sends < MaxSends
        /\ source' = [source EXCEPT ![e] = [@ EXCEPT !.sends = source[e].sends + 1, !.signs = signs, !.ts = ts,
                                                      !.awaits = h, !.answer = "none"]]
        /\ calls' = [calls EXCEPT ![h] =
              [pc |-> "receive", event |-> e, kind |-> source[e].kind, ts |-> ts,
               nonce |-> <<e, signs>>, intact |-> intact, taken |-> 0]]
        /\ IF intact THEN UNCHANGED mishaps ELSE Mishap
        /\ UNCHANGED <<clock, nonces, stream, faults>>

\* The source stops waiting for an answer; the call goes on.
Timeout(e) ==
    /\ source[e].awaits # NoHandler
    /\ source' = [source EXCEPT ![e].awaits = NoHandler]
    /\ Mishap
    /\ UNCHANGED <<clock, nonces, stream, calls, faults>>

-----------------------------------------------------------------------------
(***************************************************************************)
(* ServeHTTP.                                                              *)
(***************************************************************************)
KindOf(h) == calls[h].kind

\* The call ends; the source learns the status if it is still waiting for it.
WriteStatus(h, status) ==
    /\ calls' = [calls EXCEPT ![h] = Idle]
    /\ source' = [e \in Events |->
          IF source[e].awaits = h
          THEN [source[e] EXCEPT !.awaits = NoHandler, !.answer = status]
          ELSE source[e]]

\* Missing or malformed source, merchant or body: 400, or 413.
RejectMalformed(h) ==
    /\ calls[h].pc = "receive"
    /\ KindOf(h) = "malformed"
    /\ WriteStatus(h, "400")
    /\ UNCHANGED <<clock, nonces, stream, mishaps, faults>>

RejectUnknown(h) ==
    /\ calls[h].pc = "receive"
    /\ KindOf(h) = "unknown"
    /\ WriteStatus(h, "401")
    /\ UNCHANGED <<clock, nonces, stream, mishaps, faults>>

\* "secrets lookup failed"
LookupFails(h) ==
    /\ calls[h].pc = "receive"
    /\ KindOf(h) # "malformed"
    /\ Fault
    /\ WriteStatus(h, "500")
    /\ UNCHANGED <<clock, nonces, stream, mishaps>>

\* ParseHeaders, or Verify's ErrTimestampMissing.
RejectHeaders(h) ==
    /\ calls[h].pc = "receive"
    /\ KindOf(h) = "badheaders"
    /\ \E status \in {"400", "401"} : WriteStatus(h, status)
    /\ UNCHANGED <<clock, nonces, stream, mishaps, faults>>

Secret(h) == KindOf(h) \in {"good", "notjson"}

\* Verify 1: the timestamp is within the window of the handler's clock.
InWindow(ts) == clock - ts <= Window

RejectStale(h) ==
    /\ calls[h].pc = "receive"
    /\ Secret(h)
    /\ ~ InWindow(calls[h].ts)
    /\ WriteStatus(h, "401")
    /\ UNCHANGED <<clock, nonces, stream, mishaps, faults>>

\* Mutant of RejectSignature: the nonce is taken before the signature is checked.
RejectSignatureLast(h) ==
    /\ calls[h].pc = "receive"
    /\ Secret(h)
    /\ InWindow(calls[h].ts)
    /\ ~ calls[h].intact
    /\ nonces' = [nonces EXCEPT ![calls[h].nonce] = clock + Window]
    /\ WriteStatus(h, "401")
    /\ UNCHANGED <<clock, stream, mishaps, faults>>

\* Verify 2: the HMAC of timestamp, nonce and payload does not match, or is not
\* in hex.
RejectSignature(h) ==
    /\ calls[h].pc = "receive"
    /\ Secret(h)
    /\ InWindow(calls[h].ts)
    /\ ~ calls[h].intact
    /\ \E status \in {"400", "401"} : WriteStatus(h, status)
    /\ UNCHANGED <<clock, nonces, stream, mishaps, faults>>

Authentic(h) ==
    /\ calls[h].pc = "receive"
    /\ Secret(h)
    /\ InWindow(calls[h].ts)
    /\ calls[h].intact
    /\ calls' = [calls EXCEPT ![h].pc = "nonce"]
    /\ UNCHANGED <<clock, nonces, stream, source, mishaps, faults>>

\* The nonce's key is in Valkey, which keeps it to the end of its TTL, one window.
Taken(nonce) == nonces[nonce] >= clock

\* Verify 3, SeenOnce: SET NX EX, one atomic command.
SeenOnce(h) ==
    /\ calls[h].pc = "nonce"
    /\ ~ Taken(calls[h].nonce)
    /\ nonces' = [nonces EXCEPT ![calls[h].nonce] = clock + Window]
    /\ calls' = [calls EXCEPT ![h] = [@ EXCEPT !.pc = "publish", !.taken = clock]]
    /\ UNCHANGED <<clock, stream, source, mishaps, faults>>

RejectReplay(h) ==
    /\ calls[h].pc = "nonce"
    /\ Taken(calls[h].nonce)
    /\ WriteStatus(h, "401")
    /\ UNCHANGED <<clock, nonces, stream, mishaps, faults>>

\* "nonce store": an error of Valkey is a 401 too; the key may have been set.
SeenOnceFails(h) ==
    /\ calls[h].pc = "nonce"
    /\ \/ UNCHANGED nonces
       \/ /\ ~ Taken(calls[h].nonce)
          /\ nonces' = [nonces EXCEPT ![calls[h].nonce] = clock + Window]
    /\ Fault
    /\ WriteStatus(h, "401")
    /\ UNCHANGED <<clock, stream, mishaps>>

XAdd(h) == stream' = Append(stream, [event |-> calls[h].event, nonce |-> calls[h].nonce,
                                     taken |-> calls[h].taken])

Publish(h) ==
    /\ calls[h].pc = "publish"
    /\ KindOf(h) = "good"
    /\ XAdd(h)
    /\ WriteStatus(h, "200")
    /\ UNCHANGED <<clock, nonces, mishaps, faults>>

\* A body that is not JSON cannot be marshalled into the event.
MarshalFails(h) ==
    /\ calls[h].pc = "publish"
    /\ KindOf(h) = "notjson"
    /\ WriteStatus(h, "500")
    /\ UNCHANGED <<clock, nonces, stream, mishaps, faults>>

\* Mutant of PublishFails: publishing in the background, after the answer.
PublishFailsLate(h) ==
    /\ calls[h].pc = "publish"
    /\ KindOf(h) = "good"
    /\ Fault
    /\ WriteStatus(h, "200")
    /\ UNCHANGED <<clock, nonces, stream, mishaps>>

\* "publish failed", with or without the entry in the stream.
PublishFails(h) ==
    /\ calls[h].pc = "publish"
    /\ KindOf(h) = "good"
    /\ XAdd(h) \/ UNCHANGED stream
    /\ Fault
    /\ WriteStatus(h, "500")
    /\ UNCHANGED <<clock, nonces, mishaps>>

\* The gateway process stops; the source's connection breaks.
Crash(h) ==
    /\ calls[h] # Idle
    /\ Fault
    /\ WriteStatus(h, "none")
    /\ UNCHANGED <<clock, nonces, stream, mishaps>>

Serve(h) ==
    \/ RejectMalformed(h) \/ RejectUnknown(h) \/ RejectHeaders(h)
    \/ RejectStale(h) \/ RejectSignature(h)
    \/ Authentic(h) \/ SeenOnce(h) \/ RejectReplay(h) \/ Publish(h) \/ MarshalFails(h)

Fails(h) == LookupFails(h) \/ SeenOnceFails(h) \/ PublishFails(h) \/ Crash(h)

Next ==
    \/ Tick
    \/ \E e \in Events : \/ \E h \in Handlers, intact \in BOOLEAN : Send(e, h, intact)
                         \/ Timeout(e)
    \/ \E h \in Handlers : Serve(h) \/ Fails(h)

Spec == Init /\ [][Next]_vars

\* A call that runs goes on, and the source keeps its word to try again.
FairSpec ==
    /\ Spec
    /\ \A h \in Handlers : WF_vars(Serve(h))
    /\ \A e \in Events : WF_vars(\E h \in Handlers : Send(e, h, TRUE))

-----------------------------------------------------------------------------
Good(e) == source[e].kind = "good"

Published(e) == \E i \in DOMAIN stream : stream[i].event = e

\* Two takings of a nonce lie more than a window apart.
Apart(s, t) == t > s + Window \/ s > t + Window

(***************************************************************************)
(* OncePerWindow: concurrent calls and retries with one nonce are let      *)
(* through at most once in any Window (SeenOnce's SET NX).                 *)
(***************************************************************************)
OncePerWindow ==
    \A i, j \in DOMAIN stream :
        i < j /\ stream[i].nonce = stream[j].nonce => Apart(stream[i].taken, stream[j].taken)

(***************************************************************************)
(* SpentIsPublished: as long as nothing fails, a nonce is spent only by a  *)
(* request that is published or about to be.  "Timestamp drift never bills *)
(* the nonce store, and signature failures never bill it either" (Verify); *)
(* a damaged copy of a request must not make the gateway refuse the next.  *)
(***************************************************************************)
SpentIsPublished ==
    faults = 0 =>
        \A n \in Nonce : nonces[n] > 0 /\ Good(n[1]) =>
            \/ \E i \in DOMAIN stream : stream[i].nonce = n
            \/ \E h \in Handlers : calls[h].pc = "publish" /\ calls[h].nonce = n

\* A retry has a signature to repeat, and never more signatures than sends.
SourceInv(e) == source[e].signs <= source[e].sends /\ (source[e].sends > 0 => source[e].signs > 0)

\* A call serves a request as its source made it.
CallInv(h) ==
    calls[h] # Idle => /\ calls[h].kind = source[calls[h].event].kind
                       /\ calls[h].nonce[1] = calls[h].event

\* The key of a nonce outlives a window from each of its takings.
Holds(n, t) == t + Window <= nonces[n]

\* A call that is about to publish has the only taking of its nonce in a window.
TakingInv(h) ==
    calls[h].pc = "publish" =>
        /\ Holds(calls[h].nonce, calls[h].taken)
        /\ \A i \in DOMAIN stream :
              stream[i].nonce = calls[h].nonce => Apart(stream[i].taken, calls[h].taken)
        /\ \A g \in Handlers \ {h} :
              calls[g].pc = "publish" /\ calls[g].nonce = calls[h].nonce =>
                  Apart(calls[g].taken, calls[h].taken)

\* IngressInv: types, what the nonce store and the stream say of each other, and
\* what makes that hold of every next step (Verify and ServeHTTP).
IngressInv ==
    /\ TypeOK
    /\ \A e \in Events : SourceInv(e)
    /\ \A h \in Handlers : CallInv(h) /\ TakingInv(h)
    /\ \A i \in DOMAIN stream : Holds(stream[i].nonce, stream[i].taken)
    /\ OncePerWindow /\ SpentIsPublished

(***************************************************************************)
(* Resolved: a good event that the source sends is published in the end,   *)
(* or the source is told 4xx; no failure of the gateway loses an event     *)
(* without the source hearing of it (ServeHTTP).                           *)
(***************************************************************************)
Resolved ==
    \A e \in Events :
        (Good(e) /\ source[e].sends > 0) ~> (Published(e) \/ source[e].answer \in {"400", "401"})
=============================================================================
