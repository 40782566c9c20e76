--------------------------- MODULE ProtocolProofs ---------------------------
(***************************************************************************)
(* Proofs about both ends of the protocol.                                 *)
(*                                                                         *)
(* The webhook gateway, for any number of events, handlers and sends, any  *)
(* window, and every failure of Gateway: IngressInv is inductive.          *)
(*                                                                         *)
(* Sub 3, for any number of workers, merchants and events, and every       *)
(* failure of MerkleAnchor: no worker anchors a row twice, no anchor       *)
(* mixes merchants, an anchor that did not fail has one proof row for each *)
(* of its leaves with an index of its own, and only inscribed roots are    *)
(* anchored.                                                               *)
(***************************************************************************)
EXTENDS Gateway, MerkleAnchor, SequenceTheorems, FiniteSetTheorems, WellFoundedInduction, TLAPS

(***************************************************************************)
(* Every step of a handler lets its call go on to the nonce or to the      *)
(* stream, or ends it; Ends(h) says what the steps that end a call share.  *)
(***************************************************************************)
Ends(h) ==
    /\ calls[h] # Idle
    /\ \E status \in Answers : WriteStatus(h, status)
    /\ UNCHANGED <<clock, mishaps>>
    /\ faults' = faults \/ Fault
    /\ \/ nonces' = nonces
       \/ /\ Fault
          /\ calls[h].pc = "nonce" /\ ~ Taken(calls[h].nonce)
          /\ nonces' = [nonces EXCEPT ![calls[h].nonce] = clock + Window]
    /\ stream' = stream \/ (calls[h].pc = "publish" /\ XAdd(h))
    /\ faults' = faults /\ calls[h].pc = "publish" /\ calls[h].kind = "good" => XAdd(h)

LEMMA ServeSplit ==
    ASSUME TypeOK, NEW h \in Handlers, Serve(h) \/ Fails(h)
    PROVE  Ends(h) \/ Authentic(h) \/ SeenOnce(h)
  <1>0. Fault => faults' # faults
    BY DEF Fault, TypeOK
  <1>1. ASSUME RejectMalformed(h) \/ RejectUnknown(h) \/ RejectHeaders(h) \/ RejectStale(h)
                 \/ RejectSignature(h)
        PROVE  Ends(h)
    BY <1>1 DEF RejectMalformed, RejectUnknown, RejectHeaders, RejectStale, RejectSignature,
                Ends, Answers, Idle
  <1>2. ASSUME RejectReplay(h) \/ Publish(h) \/ MarshalFails(h) PROVE Ends(h)
    BY <1>2 DEF RejectReplay, Publish, MarshalFails, KindOf, Ends, Answers, Idle
  <1>3. ASSUME LookupFails(h) \/ Crash(h) PROVE Ends(h)
    BY <1>0, <1>3 DEF LookupFails, Crash, Ends, Answers, Idle
  <1>4. ASSUME SeenOnceFails(h) PROVE Ends(h)
    BY <1>0, <1>4 DEF SeenOnceFails, Ends, Answers, Idle
  <1>5. ASSUME PublishFails(h) PROVE Ends(h)
    BY <1>0, <1>5 DEF PublishFails, Ends, Answers, Idle
  <1> QED BY <1>1, <1>2, <1>3, <1>4, <1>5 DEF Serve, Fails

-----------------------------------------------------------------------------
(***************************************************************************)
(* Types.                                                                  *)
(***************************************************************************)
SourceType == [kind : Kinds, resigns : BOOLEAN, sends : 0..MaxSends, signs : 0..MaxSends,
               ts : Nat, awaits : Handlers \union {NoHandler}, answer : Answers]

LEMMA TypeInit == Init => TypeOK
  <1> SUFFICES ASSUME Init PROVE TypeOK
    OBVIOUS
  <1>1. \A e \in Events : source[e] \in SourceType /\ source[e].awaits = NoHandler
    BY GatewayAssumption DEF Init, SourceType, Answers
  <1>2. source = [e \in Events |-> source[e]]
    BY DEF Init
  <1>3. source \in [Events -> SourceType]
    BY <1>1, <1>2
  <1> QED BY <1>1, <1>3, GatewayAssumption DEF Init, TypeOK, SourceType

\* What the end of a call does to the sources: the one that waits for it, if any,
\* hears the answer.
LEMMA AnswerHeard ==
    ASSUME TypeOK, NEW h \in Handlers, NEW status \in Answers, WriteStatus(h, status)
    PROVE  /\ source' \in [Events -> SourceType]
           /\ \A e \in Events : /\ source'[e].kind = source[e].kind
                                /\ source'[e].sends = source[e].sends
                                /\ source'[e].signs = source[e].signs
                                /\ source'[e].awaits \in {source[e].awaits, NoHandler}
                                /\ source'[e].awaits # h
  <1>1. ASSUME NEW e \in Events
        PROVE  /\ source'[e] \in SourceType
               /\ source'[e].kind = source[e].kind
               /\ source'[e].sends = source[e].sends
               /\ source'[e].signs = source[e].signs
               /\ source'[e].awaits \in {source[e].awaits, NoHandler}
               /\ source'[e].awaits # h
    <2>1. source[e] \in SourceType
      BY DEF TypeOK, SourceType
    <2> QED BY <2>1, GatewayAssumption DEF WriteStatus, SourceType
  <1>2. source' = [e \in Events |-> source'[e]]
    BY DEF WriteStatus
  <1> QED BY <1>1, <1>2

LEMMA TypeEnds == ASSUME TypeOK, NEW h \in Handlers, Ends(h) PROVE TypeOK'
  <1> PICK status \in Answers : WriteStatus(h, status)
    BY DEF Ends
  <1>1. source' \in [Events -> SourceType]
    BY AnswerHeard
  <1>2. calls' = [calls EXCEPT ![h] = Idle] /\ calls' \in [Handlers -> Call \union {Idle}]
    BY DEF WriteStatus, TypeOK
  <1>3. \A e \in Events : source'[e].awaits # NoHandler =>
            calls'[source'[e].awaits].pc # "idle" /\ calls'[source'[e].awaits].event = e
    BY <1>2, AnswerHeard DEF TypeOK
  <1>4. calls[h] \in Call
    BY DEF Ends, TypeOK
  <1>5. stream' \in Seq([event : Events, nonce : Nonce, taken : Nat])
    <2>1. [event |-> calls[h].event, nonce |-> calls[h].nonce, taken |-> calls[h].taken]
              \in [event : Events, nonce : Nonce, taken : Nat]
      BY <1>4 DEF Call
    <2> HIDE DEF Nonce
    <2>2. CASE stream' = stream
      BY <2>2 DEF TypeOK
    <2>3. CASE XAdd(h)
      BY <2>1, <2>3, AppendProperties DEF XAdd, TypeOK
    <2> QED BY <2>2, <2>3 DEF Ends
  <1>6. nonces' \in [Nonce -> Nat]
    <2>1. clock + Window \in Nat
      BY GatewayAssumption DEF TypeOK
    <2> QED BY <2>1 DEF Ends, TypeOK
  <1>7. faults' \in 0..MaxFaults /\ mishaps' = mishaps /\ clock' = clock
    BY GatewayAssumption DEF Ends, Fault, TypeOK
  <1> QED BY <1>1, <1>2, <1>3, <1>5, <1>6, <1>7 DEF TypeOK, SourceType

\* A call that goes on.
LEMMA TypeGoesOn ==
    ASSUME TypeOK, NEW h \in Handlers, Authentic(h) \/ SeenOnce(h)
    PROVE  TypeOK'
  <1>1. calls[h] \in Call
    BY DEF Authentic, SeenOnce, TypeOK, Idle
  <1>2. calls'[h] \in Call /\ calls'[h].event = calls[h].event
    <2>1. CASE Authentic(h)
      BY <1>1, <2>1 DEF Authentic, TypeOK, Call
    <2>2. CASE SeenOnce(h)
      <3>1. clock \in Nat
        BY GatewayAssumption DEF TypeOK
      <3>2. calls'[h] = [calls[h] EXCEPT !.pc = "publish", !.taken = clock]
        BY <2>2 DEF SeenOnce, TypeOK
      <3> QED BY <1>1, <3>1, <3>2 DEF Call
    <2> QED BY <2>1, <2>2
  <1>3. \A g \in Handlers \ {h} : calls'[g] = calls[g]
    BY DEF Authentic, SeenOnce, TypeOK
  <1>4. calls' \in [Handlers -> Call \union {Idle}]
    BY <1>2, <1>3 DEF Authentic, SeenOnce, TypeOK
  <1>5. nonces' \in [Nonce -> Nat]
    <2>1. clock + Window \in Nat
      BY GatewayAssumption DEF TypeOK
    <2> QED BY <2>1 DEF Authentic, SeenOnce, TypeOK
  <1>6. \A e \in Events : source[e].awaits # NoHandler =>
            calls'[source[e].awaits].pc # "idle" /\ calls'[source[e].awaits].event = e
    BY <1>2, <1>3 DEF TypeOK, Call
  <1> QED BY <1>4, <1>5, <1>6 DEF Authentic, SeenOnce, TypeOK

LEMMA TypeSend ==
    ASSUME TypeOK, NEW e \in Events, SourceInv(e), NEW h \in Handlers, NEW intact \in BOOLEAN,
           Send(e, h, intact)
    PROVE  TypeOK' /\ SourceInv(e)' /\ calls'[h].event = e /\ calls'[h].nonce[1] = e
                   /\ calls'[h].kind = source[e].kind /\ calls'[h].pc = "receive"
                   /\ source'[e].kind = source[e].kind
  <1> DEFINE fresh == source[e].sends = 0 \/ source[e].resigns
             signs == source[e].signs + IF fresh THEN 1 ELSE 0
             ts    == IF fresh THEN clock ELSE source[e].ts
             call  == [pc |-> "receive", event |-> e, kind |-> source[e].kind, ts |-> ts,
                       nonce |-> <<e, signs>>, intact |-> intact, taken |-> 0]
  <1>1. source[e] \in SourceType
    BY DEF TypeOK, SourceType
  <1>2. signs \in 1..MaxSends /\ signs <= source[e].sends + 1
    BY <1>1, GatewayAssumption DEF SourceInv, SourceType, Send
  <1>3. ts \in Nat
    BY <1>1, GatewayAssumption DEF TypeOK, SourceType
  <1>4. call \in Call
    BY <1>1, <1>2, <1>3 DEF Call, Nonce, SourceType
  <1>5. calls' = [calls EXCEPT ![h] = call]
    BY DEF Send
  <1>6. source' = [source EXCEPT ![e] = [source[e] EXCEPT !.sends = source[e].sends + 1, !.signs = signs,
                                             !.ts = ts, !.awaits = h, !.answer = "none"]]
    BY DEF Send
  <1> HIDE DEF signs, ts
  <1>7. /\ source'[e] \in SourceType
        /\ source'[e].signs = signs /\ source'[e].sends = source[e].sends + 1
        /\ source'[e].kind = source[e].kind /\ source'[e].awaits = h
    <2>1. source'[e] = [source[e] EXCEPT !.sends = source[e].sends + 1, !.signs = signs,
                                         !.ts = ts, !.awaits = h, !.answer = "none"]
      BY <1>6 DEF TypeOK
    <2>2. source[e].sends + 1 \in 0..MaxSends
      BY <1>1, GatewayAssumption DEF SourceType, Send
    <2>3. signs \in 0..MaxSends /\ h \in Handlers \union {NoHandler} /\ "none" \in Answers
      BY <1>2, GatewayAssumption DEF Answers
    <2> HIDE DEF Answers
    <2> QED BY <1>1, <1>3, <2>1, <2>2, <2>3 DEF SourceType
  <1>8. source' \in [Events -> SourceType] /\ \A d \in Events \ {e} : source'[d] = source[d]
    BY <1>6, <1>7 DEF TypeOK, SourceType
  <1>9. calls' \in [Handlers -> Call \union {Idle}] /\ calls'[h] = call
        /\ \A g \in Handlers \ {h} : calls'[g] = calls[g]
    BY <1>4, <1>5 DEF TypeOK
  <1>10. \A d \in Events : source'[d].awaits # NoHandler =>
             calls'[source'[d].awaits].pc # "idle" /\ calls'[source'[d].awaits].event = d
    <2>1. calls[h].pc = "idle"
      BY DEF Send, Idle
    <2>2. ASSUME NEW d \in Events \ {e}, source[d].awaits # NoHandler
          PROVE  calls'[source[d].awaits].pc # "idle" /\ calls'[source[d].awaits].event = d
      BY <1>9, <2>1, <2>2 DEF TypeOK
    <2> QED BY <1>7, <1>8, <1>9, <2>2
  <1>11. mishaps' \in 0..MaxMishaps
    BY GatewayAssumption DEF Send, Mishap, TypeOK
  <1>12. TypeOK'
    BY <1>8, <1>9, <1>10, <1>11 DEF Send, TypeOK, SourceType
  <1>13. SourceInv(e)'
    BY <1>1, <1>2, <1>7 DEF SourceInv, SourceType
  <1> QED BY <1>7, <1>9, <1>12, <1>13

LEMMA TypeTimeout ==
    ASSUME TypeOK, NEW e \in Events, Timeout(e)
    PROVE  TypeOK' /\ \A d \in Events : /\ source'[d].kind = source[d].kind
                                        /\ source'[d].sends = source[d].sends
                                        /\ source'[d].signs = source[d].signs
  <1>1. ASSUME NEW d \in Events
        PROVE  /\ source'[d] \in SourceType
               /\ source'[d].kind = source[d].kind
               /\ source'[d].sends = source[d].sends
               /\ source'[d].signs = source[d].signs
               /\ source'[d].awaits \in {source[d].awaits, NoHandler}
    <2>1. source[d] \in SourceType
      BY DEF TypeOK, SourceType
    <2> QED BY <2>1 DEF Timeout, TypeOK, SourceType
  <1>2. source' = [d \in Events |-> source'[d]]
    BY DEF Timeout, TypeOK
  <1>3. source' \in [Events -> SourceType]
    BY <1>1, <1>2
  <1>4. mishaps' \in 0..MaxMishaps
    BY GatewayAssumption DEF Timeout, Mishap, TypeOK
  <1> QED BY <1>1, <1>3, <1>4 DEF Timeout, TypeOK, SourceType

-----------------------------------------------------------------------------
(***************************************************************************)
(* IngressInv.                                                             *)
(***************************************************************************)

\* The parts of IngressInv that speak of nonces, takings and entries only are kept
\* by a step that publishes nothing and takes no nonce.
LEMMA QuietKeeps ==
    ASSUME IngressInv, TypeOK', UNCHANGED <<nonces, stream, faults>>,
           \A e \in Events : SourceInv(e)' /\ source'[e].kind = source[e].kind,
           \A h \in Handlers : CallInv(h)',
           \A h \in Handlers : \/ calls'[h] = calls[h]
                               \/ calls[h].pc # "publish" /\ calls'[h].pc # "publish"
    PROVE  IngressInv'
  <1>1. \A h \in Handlers : TakingInv(h)'
    BY DEF IngressInv, TakingInv, Holds, Apart
  <1>2. \A i \in DOMAIN stream' : Holds(stream[i].nonce, stream[i].taken)'
    BY DEF IngressInv, Holds
  <1>3. OncePerWindow'
    BY DEF IngressInv, OncePerWindow, Apart
  <1>4. SpentIsPublished'
    <2> SUFFICES ASSUME faults = 0, NEW n \in Nonce, nonces[n] > 0, Good(n[1])'
                 PROVE  \/ \E i \in DOMAIN stream : stream[i].nonce = n
                        \/ \E h \in Handlers : calls'[h].pc = "publish" /\ calls'[h].nonce = n
      BY DEF SpentIsPublished
    <2>1. n[1] \in Events
      BY DEF Nonce
    <2>2. Good(n[1])
      BY <2>1 DEF Good
    <2> QED BY <2>2 DEF IngressInv, SpentIsPublished
  <1> QED BY <1>1, <1>2, <1>3, <1>4 DEF IngressInv

\* What the stream holds.
LEMMA EntryType ==
    ASSUME TypeOK
    PROVE  \A i \in DOMAIN stream :
              i \in Nat /\ stream[i].event \in Events /\ stream[i].nonce \in Nonce /\ stream[i].taken \in Nat
  <1> DEFINE Entry == [event : Events, nonce : Nonce, taken : Nat]
  <1>1. stream \in Seq(Entry)
    BY DEF TypeOK
  <1>2. \A e \in Entry : e.event \in Events /\ e.nonce \in Nonce /\ e.taken \in Nat
    OBVIOUS
  <1> HIDE DEF Entry
  <1>3. \A i \in DOMAIN stream : i \in Nat /\ stream[i] \in Entry
    BY <1>1, ElementOfSeq, LenProperties
  <1> QED BY <1>2, <1>3

\* What a call holds.
LEMMA CallType ==
    ASSUME TypeOK, NEW h \in Handlers, calls[h].pc # "idle"
    PROVE  calls[h] \in Call /\ calls[h].event \in Events /\ calls[h].nonce \in Nonce
                /\ calls[h].taken \in Nat
  <1>1. calls[h] \in Call
    BY DEF TypeOK, Idle
  <1> QED BY <1>1 DEF Call

LEMMA InvTick == ASSUME IngressInv, Tick PROVE IngressInv'
  <1>1. TypeOK'
    BY GatewayAssumption DEF IngressInv, TypeOK, Tick
  <1> QED BY <1>1, QuietKeeps DEF Tick, IngressInv, SourceInv, CallInv

LEMMA InvTimeout == ASSUME IngressInv, NEW e \in Events, Timeout(e) PROVE IngressInv'
  <1>1. TypeOK' /\ \A d \in Events : /\ source'[d].kind = source[d].kind
                                     /\ source'[d].sends = source[d].sends
                                     /\ source'[d].signs = source[d].signs
    BY TypeTimeout DEF IngressInv
  <1>2. \A h \in Handlers : CallInv(h)'
    <2>1. \A h \in Handlers : calls[h] # Idle => calls[h].event \in Events
      BY DEF IngressInv, TypeOK, Call
    <2> QED BY <1>1, <2>1 DEF Timeout, IngressInv, CallInv
  <1>3. \A d \in Events : SourceInv(d)'
    BY <1>1 DEF IngressInv, SourceInv
  <1> QED BY <1>1, <1>2, <1>3, QuietKeeps DEF Timeout

LEMMA InvSend ==
    ASSUME IngressInv, NEW e \in Events, NEW h \in Handlers, NEW intact \in BOOLEAN,
           Send(e, h, intact)
    PROVE  IngressInv'
  <1>1. /\ TypeOK' /\ SourceInv(e)' /\ calls'[h].event = e /\ calls'[h].nonce[1] = e
        /\ calls'[h].kind = source[e].kind /\ calls'[h].pc = "receive"
        /\ source'[e].kind = source[e].kind
    BY TypeSend DEF IngressInv
  <1>2. /\ \A d \in Events \ {e} : source'[d] = source[d]
        /\ \A g \in Handlers \ {h} : calls'[g] = calls[g]
    BY DEF Send, IngressInv, TypeOK
  <1>3. \A d \in Events : SourceInv(d)' /\ source'[d].kind = source[d].kind
    BY <1>1, <1>2 DEF IngressInv, SourceInv
  <1>4. \A g \in Handlers : CallInv(g)'
    <2>1. CallInv(h)'
      BY <1>1 DEF CallInv
    <2>2. ASSUME NEW g \in Handlers \ {h} PROVE CallInv(g)'
      <3>1. calls[g] # Idle => calls[g].event \in Events
        BY DEF IngressInv, TypeOK, Call
      <3> QED BY <1>2, <1>3, <3>1 DEF IngressInv, CallInv
    <2> QED BY <2>1, <2>2
  <1>5. calls[h].pc # "publish"
    BY DEF Send, Idle
  <1> QED BY <1>1, <1>2, <1>3, <1>4, <1>5, QuietKeeps DEF Send

LEMMA InvAuthentic ==
    ASSUME IngressInv, NEW h \in Handlers, Authentic(h) PROVE IngressInv'
  <1>1. TypeOK'
    BY TypeGoesOn DEF IngressInv
  <1>2. calls'[h].pc = "nonce" /\ calls[h].pc = "receive" /\ calls[h] \in Call
        /\ calls'[h] = [calls[h] EXCEPT !.pc = "nonce"]
        /\ \A g \in Handlers \ {h} : calls'[g] = calls[g]
    BY DEF Authentic, IngressInv, TypeOK, Idle, Call
  <1>3. \A g \in Handlers : CallInv(g)'
    BY <1>2 DEF Authentic, IngressInv, CallInv, Idle, Call
  <1>4. \A e \in Events : SourceInv(e)'
    BY DEF Authentic, IngressInv, SourceInv
  <1> QED BY <1>1, <1>2, <1>3, <1>4, QuietKeeps DEF Authentic

(***************************************************************************)
(* A nonce is taken when its key has gone: an earlier taking is more than  *)
(* a window ago, because the key outlives a window from it.                *)
(***************************************************************************)
LEMMA InvSeenOnce ==
    ASSUME IngressInv, NEW h \in Handlers, SeenOnce(h) PROVE IngressInv'
  <1>1. TypeOK /\ TypeOK' /\ clock \in Nat /\ Window \in Nat \ {0}
    <2>1. TypeOK /\ TypeOK'
      BY TypeGoesOn DEF IngressInv
    <2> QED BY <2>1, GatewayAssumption DEF TypeOK
  <1>2. calls[h] \in Call
    BY <1>1 DEF SeenOnce, TypeOK, Idle
  <1> PICK n \in Nonce : n = calls[h].nonce
    BY <1>2 DEF Call
  <1>3. /\ calls'[h] = [calls[h] EXCEPT !.pc = "publish", !.taken = clock]
        /\ \A g \in Handlers \ {h} : calls'[g] = calls[g]
    BY <1>1 DEF SeenOnce, TypeOK
  <1>4. /\ calls'[h].pc = "publish" /\ calls'[h].nonce = n /\ calls'[h].taken = clock
        /\ calls'[h].kind = calls[h].kind /\ calls'[h].event = calls[h].event /\ calls[h] # Idle
    BY <1>2, <1>3 DEF Call, Idle
  <1>5. /\ nonces'[n] = clock + Window /\ nonces[n] < clock /\ nonces[n] \in Nat
        /\ \A m \in Nonce \ {n} : nonces'[m] = nonces[m]
    BY <1>1, <1>2 DEF SeenOnce, Taken, TypeOK
  <1>6. UNCHANGED <<clock, stream, source, faults>>
    BY DEF SeenOnce
  <1>7. \A m \in Nonce, t \in Nat : Holds(m, t) => t + Window <= nonces'[m]
    <2>1. \A m \in Nonce : nonces[m] \in Nat
      BY <1>1 DEF TypeOK
    <2>2. nonces'[n] > nonces[n]
      BY <1>1, <1>5
    <2>3. \A m \in Nonce : nonces'[m] >= nonces[m] /\ nonces'[m] \in Nat
      BY <1>1, <1>5, <2>1, <2>2
    <2> QED BY <1>1, <2>1, <2>3 DEF Holds
  <1>8. \A t \in Nat : Holds(n, t) => Apart(t, clock) /\ Apart(clock, t)
    BY <1>1, <1>5 DEF Holds, Apart
  <1>9. \A i \in DOMAIN stream : stream[i].nonce \in Nonce /\ stream[i].taken \in Nat
    BY <1>1, EntryType
  <1>10. \A g \in Handlers : calls[g].pc = "publish" => calls[g].nonce \in Nonce /\ calls[g].taken \in Nat
    BY <1>1, CallType
  <1>11. \A i \in DOMAIN stream' : Holds(stream[i].nonce, stream[i].taken)'
    BY <1>6, <1>7, <1>9 DEF IngressInv, Holds
  <1>12. TakingInv(h)'
    <2>1. Holds(n, clock)'
      BY <1>1, <1>5, <1>6 DEF Holds
    <2>2. \A i \in DOMAIN stream : stream[i].nonce = n => Apart(stream[i].taken, clock)
      BY <1>8, <1>9 DEF IngressInv
    <2>3. \A g \in Handlers \ {h} :
              calls[g].pc = "publish" /\ calls[g].nonce = n => Apart(calls[g].taken, clock)
      BY <1>8, <1>10 DEF IngressInv, TakingInv
    <2>4. Holds(calls[h].nonce, calls[h].taken)'
      BY <1>4, <1>6, <2>1 DEF Holds
    <2> QED BY <1>3, <1>4, <1>6, <2>2, <2>3, <2>4 DEF TakingInv, Apart
  <1>13. ASSUME NEW g \in Handlers \ {h} PROVE TakingInv(g)'
    <2> SUFFICES ASSUME calls[g].pc = "publish"
                 PROVE  /\ Holds(calls[g].nonce, calls[g].taken)'
                        /\ \A i \in DOMAIN stream :
                              stream[i].nonce = calls[g].nonce => Apart(stream[i].taken, calls[g].taken)
                        /\ \A f \in Handlers \ {g} :
                              calls'[f].pc = "publish" /\ calls'[f].nonce = calls[g].nonce =>
                                  Apart(calls'[f].taken, calls[g].taken)
      BY <1>3, <1>6 DEF TakingInv, Holds, Apart
    <2>1. /\ Holds(calls[g].nonce, calls[g].taken)
          /\ \A i \in DOMAIN stream :
                stream[i].nonce = calls[g].nonce => Apart(stream[i].taken, calls[g].taken)
          /\ \A f \in Handlers \ {g} :
                calls[f].pc = "publish" /\ calls[f].nonce = calls[g].nonce =>
                    Apart(calls[f].taken, calls[g].taken)
      BY DEF IngressInv, TakingInv
    <2>2. Holds(calls[g].nonce, calls[g].taken)'
      <3>1. calls'[g] = calls[g] /\ Holds(calls[g].nonce, calls[g].taken)
        BY <1>3, <2>1
      <3> QED BY <1>7, <1>10, <3>1 DEF Holds
    <2>3. calls[g].nonce = n => Apart(clock, calls[g].taken)
      BY <1>8, <1>10, <2>1
    <2> QED BY <1>3, <1>4, <2>1, <2>2, <2>3
  <1>14. OncePerWindow'
    BY <1>6 DEF IngressInv, OncePerWindow, Apart
  <1>15. SpentIsPublished'
    <2> SUFFICES ASSUME faults = 0, NEW m \in Nonce, nonces'[m] > 0, Good(m[1])'
                 PROVE  \/ \E i \in DOMAIN stream : stream[i].nonce = m
                        \/ \E g \in Handlers : calls'[g].pc = "publish" /\ calls'[g].nonce = m
      BY <1>6 DEF SpentIsPublished
    <2>1. CASE m = n
      BY <1>4, <2>1
    <2>2. CASE m # n
      <3>1. nonces[m] > 0 /\ Good(m[1])
        BY <1>5, <1>6, <2>2 DEF Good
      <3>2. calls[h].pc # "publish"
        BY DEF SeenOnce
      <3> QED BY <1>3, <3>1, <3>2 DEF IngressInv, SpentIsPublished
    <2> QED BY <2>1, <2>2
  <1>16. \A g \in Handlers : CallInv(g)'
    <2>1. CallInv(h)'
      BY <1>4, <1>6 DEF IngressInv, CallInv
    <2> QED BY <1>3, <1>6, <2>1 DEF IngressInv, CallInv
  <1>17. \A e \in Events : SourceInv(e)'
    BY <1>6 DEF IngressInv, SourceInv
  <1> QED BY <1>1, <1>11, <1>12, <1>13, <1>14, <1>15, <1>16, <1>17 DEF IngressInv

\* A sequence and the longer one that Append makes of it.
LEMMA AppendEntries ==
    ASSUME NEW S, NEW s \in Seq(S), NEW x \in S
    PROVE  /\ Len(s) \in Nat /\ DOMAIN s = 1 .. Len(s)
           /\ DOMAIN Append(s, x) = 1 .. (Len(s) + 1)
           /\ \A i \in 1 .. Len(s) : Append(s, x)[i] = s[i]
           /\ Append(s, x)[Len(s) + 1] = x
  BY AppendProperties, LenProperties

LEMMA XAddEntries ==
    ASSUME TypeOK, NEW h \in Handlers, calls[h] \in Call, XAdd(h)
    PROVE  /\ Len(stream) \in Nat /\ DOMAIN stream = 1 .. Len(stream)
           /\ DOMAIN stream' = 1 .. (Len(stream) + 1)
           /\ \A i \in 1 .. Len(stream) : stream'[i] = stream[i]
           /\ stream'[Len(stream) + 1].nonce = calls[h].nonce
           /\ stream'[Len(stream) + 1].taken = calls[h].taken
  <1> DEFINE Entry == [event : Events, nonce : Nonce, taken : Nat]
             entry == [event |-> calls[h].event, nonce |-> calls[h].nonce, taken |-> calls[h].taken]
  <1>1. entry \in Entry
    BY DEF Call
  <1>2. entry.nonce = calls[h].nonce /\ entry.taken = calls[h].taken
    OBVIOUS
  <1>3. stream \in Seq(Entry) /\ stream' = Append(stream, entry)
    BY DEF TypeOK, XAdd
  <1> HIDE DEF Entry, entry
  <1> QED BY <1>1, <1>2, <1>3, AppendEntries

(***************************************************************************)
(* The end of a call.  If it published, its entry is more than a window    *)
(* from the others of its nonce, and so from those of other calls.         *)
(***************************************************************************)
LEMMA InvEnds ==
    ASSUME IngressInv, NEW h \in Handlers, Ends(h) PROVE IngressInv'
  <1>1. TypeOK /\ TypeOK' /\ clock \in Nat /\ Window \in Nat \ {0}
    <2>1. TypeOK /\ TypeOK'
      BY TypeEnds DEF IngressInv
    <2> QED BY <2>1, GatewayAssumption DEF TypeOK
  <1>2. calls[h] \in Call /\ calls[h] # Idle /\ calls[h].event \in Events
    BY <1>1 DEF Ends, TypeOK, Call
  <1>3. /\ calls'[h] = Idle
        /\ \A g \in Handlers \ {h} : calls'[g] = calls[g]
    BY <1>1 DEF Ends, WriteStatus, TypeOK
  <1>4. \A e \in Events : /\ source'[e].kind = source[e].kind
                          /\ source'[e].sends = source[e].sends
                          /\ source'[e].signs = source[e].signs
    BY <1>1, AnswerHeard DEF Ends
  <1>5. \A m \in Nonce, t \in Nat : Holds(m, t) => t + Window <= nonces'[m]
    <2>1. \A m \in Nonce : nonces[m] \in Nat /\ nonces'[m] \in Nat
      BY <1>1 DEF TypeOK
    <2>2. \A m \in Nonce : nonces'[m] >= nonces[m]
      <3>1. CASE nonces' = nonces
        BY <2>1, <3>1
      <3>2. CASE ~ Taken(calls[h].nonce) /\ nonces' = [nonces EXCEPT ![calls[h].nonce] = clock + Window]
        BY <1>1, <2>1, <3>2 DEF Taken, TypeOK
      <3> QED BY <3>1, <3>2 DEF Ends
    <2> QED BY <1>1, <2>1, <2>2 DEF Holds
  <1>6. \A i \in DOMAIN stream : i \in Nat /\ stream[i].nonce \in Nonce /\ stream[i].taken \in Nat
    BY <1>1, EntryType
  <1>7. \A g \in Handlers : calls[g].pc = "publish" => calls[g].nonce \in Nonce /\ calls[g].taken \in Nat
    BY <1>1, CallType
  <1>8. \A i \in DOMAIN stream' :
            \/ i \in DOMAIN stream /\ stream'[i] = stream[i]
            \/ /\ calls[h].pc = "publish" /\ i \in Nat /\ \A j \in DOMAIN stream' : j \in Nat /\ j <= i
               /\ stream'[i].nonce = calls[h].nonce /\ stream'[i].taken = calls[h].taken
    <2>1. CASE stream' = stream
      BY <2>1
    <2>2. CASE calls[h].pc = "publish" /\ XAdd(h)
      BY <1>1, <1>2, <2>2, XAddEntries
    <2> QED BY <2>1, <2>2 DEF Ends
  <1>9. \A i \in DOMAIN stream : i \in DOMAIN stream' /\ stream'[i] = stream[i]
    <2>1. CASE stream' = stream
      BY <2>1
    <2>2. CASE XAdd(h)
      BY <1>1, <1>2, <2>2, XAddEntries
    <2> QED BY <2>1, <2>2 DEF Ends
  <1>10. ASSUME calls[h].pc = "publish"
         PROVE  /\ Holds(calls[h].nonce, calls[h].taken)
                /\ \A i \in DOMAIN stream :
                      stream[i].nonce = calls[h].nonce => Apart(stream[i].taken, calls[h].taken)
    BY <1>10 DEF IngressInv, TakingInv
  <1>11. \A i \in DOMAIN stream' : Holds(stream[i].nonce, stream[i].taken)'
    <2>1. \A i \in DOMAIN stream : stream[i].taken + Window <= nonces'[stream[i].nonce]
      BY <1>5, <1>6 DEF IngressInv
    <2>2. calls[h].pc = "publish" => calls[h].taken + Window <= nonces'[calls[h].nonce]
      BY <1>5, <1>7, <1>10
    <2> QED BY <1>8, <2>1, <2>2 DEF Holds
  <1>12. \A g \in Handlers : TakingInv(g)'
    <2>1. TakingInv(h)'
      BY <1>3 DEF TakingInv, Idle
    <2>2. ASSUME NEW g \in Handlers \ {h}, calls[g].pc = "publish"
          PROVE  /\ calls[g].taken + Window <= nonces'[calls[g].nonce]
                 /\ \A i \in DOMAIN stream' :
                       stream'[i].nonce = calls[g].nonce => Apart(stream'[i].taken, calls[g].taken)
                 /\ \A f \in Handlers \ {g} :
                       calls'[f].pc = "publish" /\ calls'[f].nonce = calls[g].nonce =>
                           Apart(calls'[f].taken, calls[g].taken)
      <3>1. /\ Holds(calls[g].nonce, calls[g].taken)
            /\ \A i \in DOMAIN stream :
                  stream[i].nonce = calls[g].nonce => Apart(stream[i].taken, calls[g].taken)
            /\ \A f \in Handlers \ {g} :
                  calls[f].pc = "publish" /\ calls[f].nonce = calls[g].nonce =>
                      Apart(calls[f].taken, calls[g].taken)
        BY <2>2 DEF IngressInv, TakingInv
      <3>2. calls[g].taken + Window <= nonces'[calls[g].nonce]
        BY <1>5, <1>7, <2>2, <3>1
      <3> QED BY <1>3, <1>8, <3>1, <3>2 DEF Idle
    <2>3. ASSUME NEW g \in Handlers \ {h} PROVE TakingInv(g)'
      BY <1>3, <2>2 DEF TakingInv, Holds, Apart
    <2> QED BY <2>1, <2>3
  <1>13. OncePerWindow'
    <2>1. \A i, j \in DOMAIN stream :
              i < j /\ stream[i].nonce = stream[j].nonce => Apart(stream[i].taken, stream[j].taken)
      BY DEF IngressInv, OncePerWindow
    <2>2. ASSUME NEW i \in DOMAIN stream', NEW j \in DOMAIN stream', i < j,
                 stream'[i].nonce = stream'[j].nonce
          PROVE  Apart(stream'[i].taken, stream'[j].taken)
      <3>1. i \in DOMAIN stream /\ stream'[i] = stream[i]
        BY <1>6, <1>8, <2>2
      <3> QED BY <1>8, <1>10, <2>1, <2>2, <3>1
    <2> QED BY <2>2 DEF OncePerWindow, Apart
  <1>14. SpentIsPublished'
    <2> SUFFICES ASSUME faults' = 0, NEW n \in Nonce, nonces'[n] > 0, Good(n[1])'
                 PROVE  \/ \E i \in DOMAIN stream' : stream'[i].nonce = n
                        \/ \E g \in Handlers : calls'[g].pc = "publish" /\ calls'[g].nonce = n
      BY DEF SpentIsPublished
    <2>1. faults' = faults /\ nonces' = nonces
      BY <1>1 DEF Ends, Fault, TypeOK
    <2>2. Good(n[1]) /\ n[1] \in Events
      BY <1>4 DEF Good, Nonce
    <2>3. CASE \E i \in DOMAIN stream : stream[i].nonce = n
      BY <1>9, <2>3
    <2>4. ASSUME NEW g \in Handlers \ {h}, calls[g].pc = "publish", calls[g].nonce = n
          PROVE  calls'[g].pc = "publish" /\ calls'[g].nonce = n
      BY <1>3, <2>4
    <2>5. CASE calls[h].pc = "publish" /\ calls[h].nonce = n
      <3>1. calls[h].kind = "good"
        BY <1>2, <2>2, <2>5 DEF IngressInv, CallInv, Good
      <3>2. XAdd(h)
        BY <2>1, <2>5, <3>1 DEF Ends
      <3>3. Len(stream) + 1 \in DOMAIN stream' /\ stream'[Len(stream) + 1].nonce = n
        BY <1>1, <1>2, <2>5, <3>2, XAddEntries
      <3> QED BY <3>3
    <2> QED BY <2>1, <2>2, <2>3, <2>4, <2>5 DEF IngressInv, SpentIsPublished
  <1>15. \A g \in Handlers : CallInv(g)'
    <2>1. \A g \in Handlers : calls[g] # Idle => calls[g].event \in Events
      BY <1>1 DEF TypeOK, Call
    <2> QED BY <1>3, <1>4, <2>1 DEF IngressInv, CallInv
  <1>16. \A e \in Events : SourceInv(e)'
    BY <1>4 DEF IngressInv, SourceInv
  <1> QED BY <1>1, <1>11, <1>12, <1>13, <1>14, <1>15, <1>16 DEF IngressInv

LEMMA IngressInit == Init => IngressInv
  <1> SUFFICES ASSUME Init PROVE IngressInv
    OBVIOUS
  <1>1. \A e \in Events : source[e].sends = 0 /\ source[e].signs = 0
    BY DEF Init
  <1>2. \A h \in Handlers : calls[h] = Idle /\ calls[h].pc # "publish"
    BY DEF Init, Idle
  <1>3. stream = << >> /\ \A n \in Nonce : nonces[n] = 0
    BY DEF Init
  <1> QED BY <1>1, <1>2, <1>3, TypeInit
          DEF IngressInv, SourceInv, CallInv, TakingInv, OncePerWindow, SpentIsPublished

LEMMA IngressStep == IngressInv /\ [Next]_vars => IngressInv'
  <1> SUFFICES ASSUME IngressInv, [Next]_vars PROVE IngressInv'
    OBVIOUS
  <1>1. ASSUME NEW h \in Handlers, Serve(h) \/ Fails(h) PROVE IngressInv'
    BY <1>1, ServeSplit, InvEnds, InvAuthentic, InvSeenOnce DEF IngressInv
  <1>2. CASE UNCHANGED vars
    <2>1. TypeOK'
      BY <1>2 DEF vars, IngressInv, TypeOK
    <2> QED BY <1>2, <2>1, QuietKeeps DEF vars, IngressInv, SourceInv, CallInv
  <1> QED BY <1>1, <1>2, InvTick, InvSend, InvTimeout DEF Next

(***************************************************************************)
(* However many calls run, fail and crash: a nonce is let through at most  *)
(* once in any window, and as long as nothing fails it is spent only by a  *)
(* request that is published (Verify, SeenOnce and ServeHTTP).             *)
(***************************************************************************)
THEOREM NonceOncePerWindow == Spec => []IngressInv
  BY IngressInit, IngressStep, PTL DEF Spec

-----------------------------------------------------------------------------
(***************************************************************************)
(* Sub 3.                                                                  *)
(***************************************************************************)

\* The inductive invariant.
OnceInv ==
    /\ AnchoringTypeOK /\ IsFiniteSet(evidence)
    /\ HeldUnanchored /\ OncePerWorker /\ TenantsApart

\* A worker goes on with some of the rows it has.
LEMMA ContinueKeeps ==
    ASSUME AnchoringTypeOK, NEW w \in Workers, NEW S \in SUBSET fetched[w], Continue(w, S)
    PROVE  /\ fetched' \in [Workers -> SUBSET evidence]
           /\ pc' \in [Workers -> {"idle", "locked", "inscribe", "write"}]
           /\ \A v \in Workers : pc'[v] = "idle" <=> fetched'[v] = {}
           /\ \A v \in Workers : fetched'[v] \subseteq fetched[v]
  <1>1. fetched = [v \in Workers |-> fetched[v]] /\ pc = [v \in Workers |-> pc[v]]
    BY DEF AnchoringTypeOK
  <1>2. /\ fetched'[w] = S /\ (pc'[w] = "idle" <=> S = {})
        /\ \A v \in Workers \ {w} : fetched'[v] = fetched[v] /\ pc'[v] = pc[v]
    BY <1>1 DEF Continue
  <1> QED BY <1>2 DEF Continue, AnchoringTypeOK

\* The group that a worker anchors, and its anchor.
LEMMA GroupFacts ==
    ASSUME OnceInv, NEW w \in Workers, NEW status \in {"pending", "inscribed", "failed"}
    PROVE  /\ Group(w) \subseteq fetched[w] /\ Group(w) \subseteq evidence
           /\ Group(w) \subseteq Rows /\ IsFiniteSet(Group(w))
           /\ \A r, s \in Group(w) : r[1] = s[1]
           /\ AnchorOf(w, status) \in Anchor
           /\ AnchorOf(w, status).by = w /\ AnchorOf(w, status).root = Group(w)
  <1>1. Group(w) \subseteq fetched[w] /\ Group(w) \subseteq evidence /\ Group(w) \subseteq Rows
    BY DEF OnceInv, AnchoringTypeOK, Group
  <1>2. IsFiniteSet(Group(w))
    BY <1>1, FS_Subset DEF OnceInv
  <1>3. \A r, s \in Group(w) : r[1] = s[1]
    <2>1. \A r \in Group(w) : r[1] \in Nat
      BY <1>1, MerkleAnchorAssumption DEF Rows
    <2>2. \A r, s \in Group(w) : r[1] <= s[1]
      BY DEF Group
    <2> QED BY <2>1, <2>2
  <1>4. Cardinality(Group(w)) \in Nat
    BY <1>2, FS_CardinalityType
  <1> HIDE DEF Rows
  <1> QED BY <1>1, <1>2, <1>3, <1>4 DEF AnchorOf, Anchor

\* A new anchor after the others.
LEMMA AnchorAppended ==
    ASSUME AnchoringTypeOK, NEW a \in Anchor, anchors' = Append(anchors, a)
    PROVE  /\ anchors' \in Seq(Anchor) /\ Len(anchors) \in Nat
           /\ DOMAIN anchors = 1 .. Len(anchors) /\ DOMAIN anchors' = 1 .. (Len(anchors) + 1)
           /\ \A k \in DOMAIN anchors : anchors'[k] = anchors[k]
           /\ anchors'[Len(anchors) + 1] = a
  <1>1. anchors \in Seq(Anchor)
    BY DEF AnchoringTypeOK
  <1> QED BY <1>1, AppendProperties, LenProperties

(***************************************************************************)
(* Steps that write no proof: a row in hand stays in hand or is let go.    *)
(***************************************************************************)
LEMMA NoProofKeeps ==
    ASSUME OnceInv, AnchoringTypeOK', proofs' = proofs, evidence' = evidence,
           \/ anchors' = anchors
           \/ \E w \in Workers : anchors' = Append(anchors, AnchorOf(w, "failed")),
           \A v \in Workers : fetched'[v] \subseteq fetched[v] \union Unanchored
    PROVE  OnceInv'
  <1>1. /\ DOMAIN anchors \subseteq DOMAIN anchors'
        /\ \A k \in DOMAIN anchors : anchors'[k] = anchors[k]
        /\ TenantsApart'
    <2>1. CASE anchors' = anchors
      BY <2>1 DEF OnceInv, TenantsApart
    <2>2. ASSUME NEW w \in Workers, anchors' = Append(anchors, AnchorOf(w, "failed"))
          PROVE  /\ DOMAIN anchors \subseteq DOMAIN anchors'
                 /\ \A k \in DOMAIN anchors : anchors'[k] = anchors[k]
                 /\ TenantsApart'
      <3>1. AnchorOf(w, "failed") \in Anchor /\ AnchorOf(w, "failed").root = Group(w)
            /\ \A r, s \in Group(w) : r[1] = s[1]
        BY GroupFacts
      <3>2. /\ Len(anchors) \in Nat
            /\ DOMAIN anchors = 1 .. Len(anchors) /\ DOMAIN anchors' = 1 .. (Len(anchors) + 1)
            /\ \A k \in DOMAIN anchors : anchors'[k] = anchors[k]
            /\ anchors'[Len(anchors) + 1] = AnchorOf(w, "failed")
        BY <2>2, <3>1, AnchorAppended DEF OnceInv
      <3>3. \A k \in DOMAIN anchors' : k \in DOMAIN anchors \/ k = Len(anchors) + 1
        BY <3>2
      <3> QED BY <3>1, <3>2, <3>3 DEF OnceInv, TenantsApart
    <2> QED BY <2>1, <2>2
  <1>2. \A p \in proofs : anchors'[p.anchor] = anchors[p.anchor]
    BY <1>1 DEF OnceInv, AnchoringTypeOK
  <1>3. HeldUnanchored'
    BY <1>2 DEF OnceInv, HeldUnanchored, Unanchored
  <1>4. OncePerWorker'
    BY <1>2 DEF OnceInv, OncePerWorker
  <1> QED BY <1>1, <1>3, <1>4 DEF OnceInv

LEMMA SealKeeps == ASSUME OnceInv, NEW r \in Rows, Seal(r) PROVE OnceInv'
  <1>1. evidence \subseteq evidence' /\ evidence' \subseteq Rows /\ IsFiniteSet(evidence')
    BY FS_AddElement DEF OnceInv, Seal, AnchoringTypeOK
  <1>2. fetched' \in [Workers -> SUBSET evidence']
    BY <1>1 DEF OnceInv, Seal, AnchoringTypeOK
  <1>3. AnchoringTypeOK'
    BY <1>1, <1>2 DEF OnceInv, Seal, AnchoringTypeOK
  <1> QED BY <1>1, <1>3 DEF Seal, OnceInv, HeldUnanchored, OncePerWorker, TenantsApart

LEMMA FetchKeeps == ASSUME OnceInv, NEW w \in Workers, Fetch(w) PROVE OnceInv'
  <1> DEFINE S == Limit(Unanchored \ Locked(w))
  <1>1. S \subseteq Unanchored /\ S \subseteq evidence /\ S # {}
    BY DEF Limit, Unanchored, Fetch
  <1>2. fetched' = [fetched EXCEPT ![w] = S] /\ pc' = [pc EXCEPT ![w] = "locked"]
        /\ UNCHANGED <<evidence, anchors, proofs, inscribed, result>>
    BY DEF Fetch
  <1> HIDE DEF S
  <1>3. \A v \in Workers : fetched'[v] \subseteq fetched[v] \union Unanchored
    BY <1>1, <1>2 DEF OnceInv, AnchoringTypeOK
  <1>4. fetched' \in [Workers -> SUBSET evidence]
        /\ pc' \in [Workers -> {"idle", "locked", "inscribe", "write"}]
        /\ \A v \in Workers : pc'[v] = "idle" <=> fetched'[v] = {}
    BY <1>1, <1>2 DEF OnceInv, AnchoringTypeOK
  <1>5. AnchoringTypeOK'
    BY <1>2, <1>4 DEF OnceInv, AnchoringTypeOK
  <1> QED BY <1>2, <1>3, <1>5, NoProofKeeps

LEMMA InscribeKeeps == ASSUME OnceInv, NEW w \in Workers, Inscribe(w) PROVE OnceInv'
  <1>1. Group(w) \subseteq Rows
    BY GroupFacts
  <1>2. AnchoringTypeOK'
    BY <1>1 DEF Inscribe, OnceInv, AnchoringTypeOK
  <1> QED BY <1>2, NoProofKeeps DEF Inscribe

\* The steps that let rows go.
LEMMA LetGoKeeps ==
    ASSUME OnceInv, NEW w \in Workers,
           CommitFetch(w) \/ InscribeFailed(w) \/ WriteFails(w) \/ Abort(w)
    PROVE  OnceInv'
  <1>1. PICK S \in SUBSET fetched[w] : Continue(w, S)
    <2>1. LargeGroups(fetched[w]) \subseteq fetched[w]
      BY DEF LargeGroups
    <2> QED BY <2>1 DEF CommitFetch, InscribeFailed, WriteFails, Abort
  <1>2. /\ UNCHANGED <<evidence, proofs, result>>
        /\ inscribed' = inscribed \/ inscribed' = inscribed \union {Group(w)}
        /\ anchors' = anchors \/ anchors' = Append(anchors, AnchorOf(w, "failed"))
    BY DEF CommitFetch, InscribeFailed, WriteFails, Abort
  <1>3. /\ fetched' \in [Workers -> SUBSET evidence]
        /\ pc' \in [Workers -> {"idle", "locked", "inscribe", "write"}]
        /\ \A v \in Workers : pc'[v] = "idle" <=> fetched'[v] = {}
        /\ \A v \in Workers : fetched'[v] \subseteq fetched[v]
    BY <1>1, ContinueKeeps DEF OnceInv
  <1>4. anchors' \in Seq(Anchor) /\ DOMAIN anchors \subseteq DOMAIN anchors'
    <2>1. CASE anchors' = anchors
      BY <2>1 DEF OnceInv, AnchoringTypeOK
    <2>2. CASE anchors' = Append(anchors, AnchorOf(w, "failed"))
      <3>1. AnchorOf(w, "failed") \in Anchor
        BY GroupFacts
      <3> QED BY <2>2, <3>1, AnchorAppended DEF OnceInv
    <2> QED BY <1>2, <2>1, <2>2
  <1>5. inscribed' \subseteq SUBSET Rows
    <2>1. Group(w) \subseteq Rows
      BY GroupFacts
    <2> QED BY <1>2, <2>1 DEF OnceInv, AnchoringTypeOK
  <1>6. AnchoringTypeOK'
    BY <1>2, <1>3, <1>4, <1>5 DEF OnceInv, AnchoringTypeOK
  <1> QED BY <1>2, <1>3, <1>6, NoProofKeeps

(***************************************************************************)
(* Tx 2: the worker had no proof of its own for the rows of its group, and *)
(* lets them go.                                                           *)
(***************************************************************************)
LEMMA WriteKeeps == ASSUME OnceInv, NEW w \in Workers, WriteResults(w) PROVE OnceInv'
  <1> DEFINE a == AnchorOf(w, result[w])
             k == Len(anchors) + 1
             New == {[row |-> r, anchor |-> k, leaf_index |-> LeafIndex(r, Group(w))] : r \in Group(w)}
  <1>1. result[w] \in {"pending", "inscribed", "failed"}
    BY DEF OnceInv, AnchoringTypeOK
  <1>2. /\ Group(w) \subseteq fetched[w] /\ Group(w) \subseteq evidence
        /\ Group(w) \subseteq Rows /\ IsFiniteSet(Group(w))
        /\ \A r, s \in Group(w) : r[1] = s[1]
        /\ a \in Anchor /\ a.by = w /\ a.root = Group(w)
    BY <1>1, GroupFacts
  <1>3. /\ anchors' \in Seq(Anchor) /\ Len(anchors) \in Nat
        /\ DOMAIN anchors = 1 .. Len(anchors) /\ DOMAIN anchors' = 1 .. k
        /\ \A j \in DOMAIN anchors : anchors'[j] = anchors[j]
        /\ anchors'[k] = a
    BY <1>2, AnchorAppended DEF OnceInv, WriteResults
  <1>4. \A r \in Group(w) : LeafIndex(r, Group(w)) \in Nat
    <2> SUFFICES ASSUME NEW r \in Group(w) PROVE LeafIndex(r, Group(w)) \in Nat
      OBVIOUS
    <2>1. IsFiniteSet({s \in Group(w) : Precedes(s, r)})
      BY <1>2, FS_Subset
    <2> QED BY <2>1, FS_CardinalityType DEF LeafIndex
  <1>5. \A p \in New : /\ p \in Proof /\ p.row \in Group(w) /\ p.anchor = k
                       /\ \A q \in New : p.row = q.row => p = q
    BY <1>2, <1>3, <1>4 DEF Proof
  <1>6. /\ UNCHANGED <<evidence, inscribed, result>> /\ proofs' = proofs \union New
        /\ Continue(w, fetched[w] \ Group(w))
    BY DEF WriteResults
  <1>7. /\ fetched' \in [Workers -> SUBSET evidence]
        /\ pc' \in [Workers -> {"idle", "locked", "inscribe", "write"}]
        /\ \A v \in Workers : pc'[v] = "idle" <=> fetched'[v] = {}
        /\ \A v \in Workers : fetched'[v] \subseteq fetched[v]
        /\ fetched'[w] = fetched[w] \ Group(w)
    <2>1. fetched'[w] = fetched[w] \ Group(w)
      BY <1>6 DEF Continue, OnceInv, AnchoringTypeOK
    <2> QED BY <1>6, <2>1, ContinueKeeps DEF OnceInv
  <1>8. \A p \in proofs : p.anchor \in DOMAIN anchors /\ p.anchor # k /\ p.row \in evidence
    BY <1>3 DEF OnceInv, AnchoringTypeOK
  <1> HIDE DEF New, a
  <1>9. AnchoringTypeOK'
    <2>1. proofs' \subseteq Proof
      BY <1>5, <1>6 DEF OnceInv, AnchoringTypeOK
    <2>2. \A p \in proofs' : p.row \in evidence' /\ p.anchor \in DOMAIN anchors'
      BY <1>2, <1>3, <1>5, <1>6, <1>8
    <2> QED BY <1>3, <1>6, <1>7, <2>1, <2>2 DEF OnceInv, AnchoringTypeOK
  <1>10. \A p \in proofs : anchors'[p.anchor] = anchors[p.anchor]
    BY <1>3, <1>8
  <1>11. \A p \in New : anchors'[p.anchor].by = w
    BY <1>2, <1>3, <1>5
  <1>12. HeldUnanchored'
    <2> SUFFICES ASSUME NEW v \in Workers, NEW p \in proofs', p.row \in fetched'[v]
                 PROVE  anchors'[p.anchor].by # v
      BY DEF HeldUnanchored
    <2>1. CASE p \in proofs
      BY <1>7, <1>10, <2>1 DEF OnceInv, HeldUnanchored
    <2>2. CASE p \in New
      <3>1. v # w
        BY <1>5, <1>7, <2>2
      <3> QED BY <1>11, <2>2, <3>1
    <2> QED BY <1>6, <2>1, <2>2
  <1>13. OncePerWorker'
    <2>1. \A p \in proofs, q \in New : p.row = q.row => anchors'[p.anchor].by # w
      BY <1>2, <1>5, <1>10 DEF OnceInv, HeldUnanchored
    <2>2. \A p, q \in proofs : p.row = q.row /\ anchors'[p.anchor].by = anchors'[q.anchor].by => p = q
      BY <1>10 DEF OnceInv, OncePerWorker
    <2>3. \A p, q \in proofs \union New :
              p.row = q.row /\ anchors'[p.anchor].by = anchors'[q.anchor].by => p = q
      BY <1>5, <1>11, <2>1, <2>2
    <2> QED BY <1>6, <2>3 DEF OncePerWorker
  <1>14. TenantsApart'
    <2>1. \A j \in DOMAIN anchors' : j \in DOMAIN anchors \/ j = k
      BY <1>3
    <2> QED BY <1>2, <1>3, <2>1 DEF OnceInv, TenantsApart
  <1> QED BY <1>6, <1>9, <1>12, <1>13, <1>14 DEF OnceInv

LEMMA OnceInit == AnchoringInit => OnceInv
  <1> SUFFICES ASSUME AnchoringInit PROVE OnceInv
    OBVIOUS
  <1>1. IsFiniteSet(evidence) /\ anchors \in Seq(Anchor)
    BY FS_EmptySet, EmptySeq DEF AnchoringInit
  <1>2. AnchoringTypeOK
    BY <1>1 DEF AnchoringInit, AnchoringTypeOK
  <1> QED BY <1>1, <1>2 DEF AnchoringInit, OnceInv, HeldUnanchored, OncePerWorker, TenantsApart

LEMMA OnceStep == OnceInv /\ [AnchoringNext]_anchoringVars => OnceInv'
  <1> SUFFICES ASSUME OnceInv, [AnchoringNext]_anchoringVars PROVE OnceInv'
    OBVIOUS
  <1>1. CASE UNCHANGED anchoringVars
    BY <1>1 DEF anchoringVars, OnceInv, AnchoringTypeOK, HeldUnanchored, OncePerWorker, TenantsApart
  <1>2. ASSUME NEW w \in Workers, IdleTick(w) PROVE OnceInv'
    BY <1>1, <1>2 DEF IdleTick
  <1>3. ASSUME NEW w \in Workers, Step(w) \/ TickFault(w) PROVE OnceInv'
    BY <1>3, FetchKeeps, InscribeKeeps, LetGoKeeps, WriteKeeps DEF Step, TickFault
  <1> QED BY <1>1, <1>2, <1>3, SealKeeps DEF AnchoringNext

(***************************************************************************)
(* However many workers tick, fail and stop: no worker writes two proofs   *)
(* for one row (lockAndFetchUnanchored, writeAnchorResults).               *)
(***************************************************************************)
THEOREM AnchoredOnce == AnchoringSpec => []OncePerWorker
  <1>1. OnceInv => OncePerWorker
    BY DEF OnceInv
  <1> QED BY <1>1, OnceInit, OnceStep, PTL DEF AnchoringSpec

(***************************************************************************)
(* The leaves of an anchor belong to one merchant (WriteAnchor's groups).  *)
(***************************************************************************)
THEOREM AnchorsOfOneTenant == AnchoringSpec => []TenantsApart
  <1>1. OnceInv => TenantsApart
    BY DEF OnceInv
  <1> QED BY <1>1, OnceInit, OnceStep, PTL DEF AnchoringSpec
-----------------------------------------------------------------------------
(***************************************************************************)
(* AnchoringInv.  A worker that is past its grouping has only groups that  *)
(* are large enough in hand, and one that is about to write has had the    *)
(* root of its group accepted.                                             *)
(***************************************************************************)
HeldLarge ==
    \A w \in Workers : pc[w] \in {"inscribe", "write"} =>
        \A r \in fetched[w] : Cardinality(OfMerchant(fetched[w], r[1])) >= MinBatch

HeldInscribed == \A w \in Workers : pc[w] = "write" => Group(w) \in inscribed

AnchorInv == OnceInv /\ ProofsMatchAnchors /\ AnchoredRootsInscribed /\ HeldLarge /\ HeldInscribed

(***************************************************************************)
(* The positions of the leaves of one merchant, in the order of Precedes,  *)
(* are 0, 1, ..., each once.                                               *)
(***************************************************************************)
LEMMA LeafIndexes ==
    ASSUME NEW G \in SUBSET Rows, IsFiniteSet(G), \A r, s \in G : r[1] = s[1]
    PROVE  {LeafIndex(r, G) : r \in G} = 0 .. (Cardinality(G) - 1)
  <1> DEFINE n == Cardinality(G)
             Below(r) == {s \in G : Precedes(s, r)}
             f == [r \in G |-> LeafIndex(r, G)]
  <1>1. n \in Nat
    BY FS_CardinalityType
  <1>2. \A r \in G : r = <<r[1], r[2]>> /\ r[1] \in Nat /\ r[2] \in Nat
    <2> SUFFICES ASSUME NEW r \in G
                 PROVE  r = <<r[1], r[2]>> /\ r[1] \in Nat /\ r[2] \in Nat
      OBVIOUS
    <2>1. r \in Merchants \X (1 .. MaxPerMerchant)
      BY DEF Rows
    <2>2. 1 .. MaxPerMerchant \subseteq Nat
      BY MerkleAnchorAssumption
    <2>3. PICK m \in Merchants, k \in 1 .. MaxPerMerchant : r = <<m, k>>
      BY <2>1
    <2> QED BY <2>2, <2>3, MerkleAnchorAssumption
  <1>3. \A r \in G : IsFiniteSet(Below(r)) /\ LeafIndex(r, G) = Cardinality(Below(r)) /\ LeafIndex(r, G) \in Nat
    BY FS_Subset, FS_CardinalityType DEF LeafIndex
  <1>3a. \A r, s \in G : s \in Below(r) <=> Precedes(s, r)
    OBVIOUS
  <1>3b. \A r \in G : Below(r) \subseteq G
    OBVIOUS
  <1> HIDE DEF Below, f, n
  <1>4. ASSUME NEW r \in G PROVE LeafIndex(r, G) < n
    <2>1. Below(r) \subseteq G \ {r}
      BY <1>2, <1>3a, <1>3b DEF Precedes
    <2>2. IsFiniteSet(G \ {r}) /\ Cardinality(G \ {r}) = n - 1
      BY FS_RemoveElement DEF n
    <2>3. Cardinality(Below(r)) <= n - 1
      BY <2>1, <2>2, FS_Subset
    <2> QED BY <1>1, <1>3, <2>3
  <1>5. ASSUME NEW r \in G, NEW s \in G, Precedes(r, s) PROVE LeafIndex(r, G) < LeafIndex(s, G)
    <2>1. Below(r) \union {r} \subseteq Below(s) /\ r \notin Below(r)
      BY <1>2, <1>5, <1>3a, <1>3b DEF Precedes
    <2>2. Cardinality(Below(r) \union {r}) = Cardinality(Below(r)) + 1
      BY <1>3, <2>1, FS_AddElement
    <2>3. Cardinality(Below(r)) + 1 <= Cardinality(Below(s))
      BY <1>3, <2>1, <2>2, FS_Subset
    <2> QED BY <1>3, <2>3
  <1>6. f \in Injection(G, 0 .. (n - 1))
    <2>1. f \in [G -> 0 .. (n - 1)]
      BY <1>1, <1>3, <1>4 DEF f
    <2>2. ASSUME NEW r \in G, NEW s \in G, r # s PROVE f[r] # f[s]
      <3>1. r[1] = s[1] /\ r[2] # s[2]
        BY <1>2, <2>2
      <3>2. Precedes(r, s) \/ Precedes(s, r)
        BY <1>2, <3>1 DEF Precedes
      <3>3. LeafIndex(r, G) < LeafIndex(s, G) \/ LeafIndex(s, G) < LeafIndex(r, G)
        BY <1>5, <3>2
      <3> QED BY <1>3, <3>3 DEF f
    <2>3. \A r, s \in G : f[r] = f[s] => r = s
      BY <2>2
    <2>4. DOMAIN f = G
      BY <2>1
    <2> QED BY <2>1, <2>3, <2>4 DEF Injection, IsInjective
  <1>7. IsFiniteSet(0 .. (n - 1)) /\ Cardinality(0 .. (n - 1)) = n
    BY <1>1, FS_Interval
  <1>8. f \in Surjection(G, 0 .. (n - 1))
    BY <1>6, <1>7, FS_Injection DEF n
  <1>9. \A i \in 0 .. (n - 1) : \E r \in G : LeafIndex(r, G) = i
    BY <1>8 DEF Surjection, f
  <1> QED BY <1>1, <1>3, <1>4, <1>9 DEF n

\* A step of one worker leaves what the others have in hand alone.
LEMMA HandsOf ==
    ASSUME AnchoringTypeOK, NEW w \in Workers, NEW S, Continue(w, S)
    PROVE  /\ fetched'[w] = S /\ pc'[w] = (IF S = {} THEN "idle" ELSE "inscribe")
           /\ \A v \in Workers \ {w} : fetched'[v] = fetched[v] /\ pc'[v] = pc[v]
  <1>1. fetched = [v \in Workers |-> fetched[v]] /\ pc = [v \in Workers |-> pc[v]]
    BY DEF AnchoringTypeOK
  <1> QED BY <1>1 DEF Continue

\* A worker's group is all it has of one merchant.
LEMMA WholeMerchants ==
    ASSUME AnchoringTypeOK, NEW w \in Workers
    PROVE  /\ \A r \in Group(w) : OfMerchant(fetched[w], r[1]) = Group(w)
           /\ \A r \in fetched[w] \ Group(w) :
                  OfMerchant(fetched[w] \ Group(w), r[1]) = OfMerchant(fetched[w], r[1])
  <1>1. \A r \in fetched[w] : r[1] \in Nat
    <2>1. fetched[w] \subseteq Merchants \X (1 .. MaxPerMerchant)
      BY DEF AnchoringTypeOK, Rows
    <2> QED BY <2>1, MerkleAnchorAssumption
  <1>2. \A r, s \in fetched[w] : r \in Group(w) /\ s[1] = r[1] => s \in Group(w)
    BY DEF Group
  <1>3. \A r, s \in Group(w) : r[1] = s[1]
    <2>1. \A r, s \in Group(w) : r[1] <= s[1] /\ r[1] \in Nat
      BY <1>1 DEF Group
    <2> QED BY <2>1
  <1>4. Group(w) \subseteq fetched[w]
    BY DEF Group
  <1>5. ASSUME NEW r \in Group(w) PROVE OfMerchant(fetched[w], r[1]) = Group(w)
    BY <1>2, <1>3, <1>4 DEF OfMerchant
  <1>6. ASSUME NEW r \in fetched[w] \ Group(w)
        PROVE  OfMerchant(fetched[w] \ Group(w), r[1]) = OfMerchant(fetched[w], r[1])
    BY <1>2, <1>4 DEF OfMerchant
  <1> QED BY <1>5, <1>6

\* A worker that has rows has a next group.
LEMMA GroupNonempty == ASSUME AnchoringTypeOK, NEW w \in Workers, fetched[w] # {} PROVE Group(w) # {}
  <1> DEFINE M == {r[1] : r \in fetched[w]}
  <1>1. M \in SUBSET Nat /\ M # {}
    <2>1. fetched[w] \subseteq Merchants \X (1 .. MaxPerMerchant)
      BY DEF AnchoringTypeOK, Rows
    <2> QED BY <2>1, MerkleAnchorAssumption
  <1> HIDE DEF M
  <1>2. \E n \in M : \A m \in M : n <= m
    <2> DEFINE R == OpToRel(<, Nat)
    <2>1. \A m, n \in Nat : m < n => <<m, n>> \in R
      BY DEF OpToRel
    <2> HIDE DEF R
    <2>2. PICK n \in M : \A m \in M : <<m, n>> \notin R
      BY <1>1, WFMin, NatLessThanWellFounded DEF R
    <2>3. ASSUME NEW m \in M PROVE n <= m
      <3>1. m \in Nat /\ n \in Nat /\ ~(m < n)
        BY <1>1, <2>1, <2>2
      <3> QED BY <3>1
    <2> QED BY <2>3
  <1> USE DEF M
  <1> QED BY <1>2 DEF Group

\* A worker that lets its group go still has the other groups whole.
LEMMA OthersStayLarge ==
    ASSUME AnchoringTypeOK, HeldLarge, NEW w \in Workers, pc[w] \in {"inscribe", "write"},
           NEW S \in {{}, fetched[w] \ Group(w)}, Continue(w, S)
    PROVE  HeldLarge'
  <1>1. \A r \in S : Cardinality(OfMerchant(S, r[1])) >= MinBatch
    BY WholeMerchants DEF HeldLarge
  <1> QED BY <1>1, HandsOf DEF HeldLarge

\* A worker that goes on with no group, or is to inscribe its next one.
LEMMA OthersInscribed ==
    ASSUME AnchoringTypeOK, HeldInscribed, NEW w \in Workers, NEW S, Continue(w, S),
           inscribed \subseteq inscribed'
    PROVE  HeldInscribed'
  <1> SUFFICES ASSUME NEW v \in Workers, pc'[v] = "write" PROVE Group(v)' \in inscribed'
    BY DEF HeldInscribed
  <1>1. v # w
    BY HandsOf
  <1>2. fetched'[v] = fetched[v] /\ pc[v] = "write"
    BY <1>1, HandsOf
  <1>3. Group(v)' = Group(v)
    BY <1>2 DEF Group
  <1> QED BY <1>2, <1>3 DEF HeldInscribed

\* The grouping keeps whole merchants.
LEMMA GroupedLarge ==
    ASSUME AnchoringTypeOK, HeldLarge, NEW w \in Workers, Continue(w, LargeGroups(fetched[w]))
    PROVE  HeldLarge'
  <1> DEFINE S == LargeGroups(fetched[w])
  <1>1. ASSUME NEW r \in S PROVE OfMerchant(S, r[1]) = OfMerchant(fetched[w], r[1])
    BY <1>1 DEF LargeGroups, OfMerchant
  <1>2. \A r \in S : Cardinality(OfMerchant(S, r[1])) >= MinBatch
    BY <1>1 DEF LargeGroups
  <1> HIDE DEF S
  <1>3. fetched'[w] = S /\ \A v \in Workers \ {w} : fetched'[v] = fetched[v] /\ pc'[v] = pc[v]
    BY HandsOf DEF S
  <1> QED BY <1>2, <1>3 DEF HeldLarge

(***************************************************************************)
(* Steps that write no proof: at most a failed anchor, which has none.     *)
(***************************************************************************)
LEMMA NoProofMatches ==
    ASSUME OnceInv, ProofsMatchAnchors, AnchoredRootsInscribed,
           proofs' = proofs, inscribed \subseteq inscribed',
           \/ anchors' = anchors
           \/ \E w \in Workers : anchors' = Append(anchors, AnchorOf(w, "failed"))
    PROVE  ProofsMatchAnchors' /\ AnchoredRootsInscribed'
  <1>1. CASE anchors' = anchors
    BY <1>1 DEF ProofsMatchAnchors, AnchoredRootsInscribed
  <1>2. ASSUME NEW w \in Workers, anchors' = Append(anchors, AnchorOf(w, "failed"))
        PROVE  ProofsMatchAnchors' /\ AnchoredRootsInscribed'
    <2>1. AnchorOf(w, "failed") \in Anchor
      BY GroupFacts
    <2>2. /\ Len(anchors) \in Nat
          /\ DOMAIN anchors = 1 .. Len(anchors) /\ DOMAIN anchors' = 1 .. (Len(anchors) + 1)
          /\ \A k \in DOMAIN anchors : anchors'[k] = anchors[k]
          /\ anchors'[Len(anchors) + 1] = AnchorOf(w, "failed")
      BY <1>2, <2>1, AnchorAppended DEF OnceInv
    <2>3. anchors'[Len(anchors) + 1].anchor_status = "failed"
      BY <2>2 DEF AnchorOf
    <2>4. \A k \in DOMAIN anchors' : k \in DOMAIN anchors \/ k = Len(anchors) + 1
      BY <2>2
    <2>5. {p \in proofs : p.anchor = Len(anchors) + 1} = {}
      BY <2>2 DEF OnceInv, AnchoringTypeOK
    <2>6. ProofsMatchAnchors'
      BY <2>2, <2>3, <2>4, <2>5 DEF ProofsMatchAnchors
    <2>7. AnchoredRootsInscribed'
      BY <2>2, <2>3, <2>4 DEF AnchoredRootsInscribed
    <2> QED BY <2>6, <2>7
  <1> QED BY <1>1, <1>2
(***************************************************************************)
(* Tx 2: the new anchor gets one proof per row of the group, numbered from *)
(* 0; the other anchors keep theirs.                                       *)
(***************************************************************************)
LEMMA WriteMatches ==
    ASSUME AnchorInv, NEW w \in Workers, WriteResults(w)
    PROVE  ProofsMatchAnchors' /\ AnchoredRootsInscribed'
  <1> DEFINE a == AnchorOf(w, result[w])
             k == Len(anchors) + 1
             New == {[row |-> r, anchor |-> k, leaf_index |-> LeafIndex(r, Group(w))] : r \in Group(w)}
             Of(j) == {p \in proofs : p.anchor = j}
             OfNext(j) == {p \in proofs' : p.anchor = j}
  <1>1. result[w] \in {"pending", "inscribed"}
    BY DEF AnchorInv, OnceInv, AnchoringTypeOK
  <1>2. /\ Group(w) \subseteq Rows /\ IsFiniteSet(Group(w))
        /\ \A r, s \in Group(w) : r[1] = s[1]
        /\ a \in Anchor
    BY <1>1, GroupFacts DEF AnchorInv
  <1>3. /\ Len(anchors) \in Nat
        /\ DOMAIN anchors = 1 .. Len(anchors) /\ DOMAIN anchors' = 1 .. k
        /\ \A j \in DOMAIN anchors : anchors'[j] = anchors[j]
        /\ anchors'[k] = a
    BY <1>2, AnchorAppended DEF AnchorInv, OnceInv, WriteResults
  <1>4. /\ a.anchor_status # "failed" /\ a.root = Group(w)
        /\ a.event_count = Cardinality(Group(w))
    BY <1>1 DEF AnchorOf
  <1>5. \A p \in proofs : p.anchor # k
    BY <1>3 DEF AnchorInv, OnceInv, AnchoringTypeOK
  <1>6. inscribed' = inscribed /\ pc[w] = "write" /\ fetched[w] # {} /\ proofs' = proofs \union New
    BY DEF WriteResults, AnchorInv, OnceInv, AnchoringTypeOK
  <1>7. \A p \in New : p.anchor = k
    OBVIOUS
  <1>8. /\ \A p \in New : p.row \in Group(w) /\ p.leaf_index = LeafIndex(p.row, Group(w))
        /\ \A r \in Group(w) : \E p \in New : p.row = r
    <2>1. ASSUME NEW r \in Group(w) PROVE \E p \in New : p.row = r
      <3>1. [row |-> r, anchor |-> k, leaf_index |-> LeafIndex(r, Group(w))] \in New
        OBVIOUS
      <3> QED BY <3>1
    <2> QED BY <2>1
  <1>9. IsFiniteSet(New) /\ Cardinality(New) = Cardinality(Group(w))
    <2> DEFINE g == [r \in Group(w) |-> [row |-> r, anchor |-> k, leaf_index |-> LeafIndex(r, Group(w))]]
    <2>1. g \in [Group(w) -> New]
      OBVIOUS
    <2>2. \A r, s \in Group(w) : g[r] = g[s] => r = s
      <3> SUFFICES ASSUME NEW r \in Group(w), NEW s \in Group(w), g[r] = g[s] PROVE r = s
        OBVIOUS
      <3>1. g[r].row = r /\ g[s].row = s
        OBVIOUS
      <3> QED BY <3>1
    <2>3. \A p \in New : \E r \in Group(w) : g[r] = p
      OBVIOUS
    <2> HIDE DEF g, New
    <2>4. g \in Bijection(Group(w), New)
      BY <2>1, <2>2, <2>3 DEF Bijection, Injection, IsInjective, Surjection
    <2> QED BY <1>2, <2>4, FS_Bijection DEF ExistsBijection
  <1>10. {LeafIndex(r, Group(w)) : r \in Group(w)} = 0 .. (Cardinality(Group(w)) - 1)
    BY <1>2, LeafIndexes
  <1>11. Group(w) \in inscribed /\ Cardinality(Group(w)) >= MinBatch
    <2>1. \A r \in Group(w) : Cardinality(OfMerchant(fetched[w], r[1])) >= MinBatch
      BY <1>6 DEF AnchorInv, HeldLarge, Group
    <2>2. \E r \in Group(w) : TRUE
      BY <1>6, GroupNonempty DEF AnchorInv, OnceInv
    <2> QED BY <1>6, <2>1, <2>2, WholeMerchants DEF AnchorInv, OnceInv, HeldInscribed
  <1> HIDE DEF a, k, New
  <1>12. /\ {p.row : p \in New} = Group(w)
        /\ {p.leaf_index : p \in New} = {LeafIndex(r, Group(w)) : r \in Group(w)}
    BY <1>8
  <1>13. OfNext(k) = New
    BY <1>5, <1>6, <1>7
  <1>14. \A j \in DOMAIN anchors : OfNext(j) = Of(j)
    BY <1>3, <1>6, <1>7 DEF k
  <1>15. \A j \in DOMAIN anchors' : j \in DOMAIN anchors \/ j = k
    BY <1>3 DEF k
  <1> HIDE DEF Of, OfNext
  <1>16. ASSUME NEW j \in DOMAIN anchors'
         PROVE  IF anchors'[j].anchor_status = "failed" THEN OfNext(j) = {}
                ELSE /\ {p.row : p \in OfNext(j)} = anchors'[j].root
                     /\ {p.leaf_index : p \in OfNext(j)} = 0 .. (anchors'[j].event_count - 1)
                     /\ Cardinality(OfNext(j)) = anchors'[j].event_count
    <2>1. CASE j = k
      BY <1>3, <1>4, <1>12, <1>9, <1>10, <1>13, <2>1
    <2>2. CASE j \in DOMAIN anchors
      <3>1. anchors'[j] = anchors[j] /\ OfNext(j) = Of(j)
        BY <1>3, <1>14, <2>2
      <3>2. IF anchors[j].anchor_status = "failed" THEN Of(j) = {}
            ELSE /\ {p.row : p \in Of(j)} = anchors[j].root
                 /\ {p.leaf_index : p \in Of(j)} = 0 .. (anchors[j].event_count - 1)
                 /\ Cardinality(Of(j)) = anchors[j].event_count
        BY <2>2 DEF AnchorInv, ProofsMatchAnchors, Of
      <3> QED BY <3>1, <3>2
    <2> QED BY <1>15, <2>1, <2>2
  <1>17. ProofsMatchAnchors'
    BY <1>16 DEF ProofsMatchAnchors, OfNext
  <1>18. AnchoredRootsInscribed'
    BY <1>3, <1>4, <1>6, <1>11, <1>15 DEF AnchorInv, AnchoredRootsInscribed
  <1> QED BY <1>17, <1>18

LEMMA AnchorInit == AnchoringInit => AnchorInv
  BY OnceInit DEF AnchoringInit, AnchorInv, ProofsMatchAnchors, AnchoredRootsInscribed, HeldLarge, HeldInscribed

LEMMA AnchorStep == AnchorInv /\ [AnchoringNext]_anchoringVars => AnchorInv'
  <1> SUFFICES ASSUME AnchorInv, [AnchoringNext]_anchoringVars PROVE AnchorInv'
    OBVIOUS
  <1> DEFINE Rest == ProofsMatchAnchors /\ AnchoredRootsInscribed /\ HeldLarge /\ HeldInscribed
  <1>1. OnceInv' /\ OnceInv /\ AnchoringTypeOK /\ Rest
    BY OnceStep DEF AnchorInv, OnceInv
  <1>2. ASSUME UNCHANGED <<anchors, proofs, inscribed, pc, fetched, result>> PROVE Rest'
    <2>1. HeldInscribed'
      BY <1>1, <1>2 DEF HeldInscribed, Group
    <2> QED BY <1>1, <1>2, <2>1 DEF ProofsMatchAnchors, AnchoredRootsInscribed, HeldLarge
  <1>3. ASSUME NEW w \in Workers, Fetch(w) PROVE Rest'
    <2>1. /\ \A v \in Workers \ {w} : fetched'[v] = fetched[v] /\ pc'[v] = pc[v]
          /\ pc'[w] = "locked"
      BY <1>1, <1>3 DEF Fetch, AnchoringTypeOK
    <2>2. UNCHANGED <<anchors, proofs, inscribed>>
      BY <1>3 DEF Fetch
    <2>3. HeldLarge'
      BY <1>1, <2>1 DEF HeldLarge
    <2>4. HeldInscribed'
      BY <1>1, <2>1, <2>2 DEF HeldInscribed, Group
    <2> QED BY <1>1, <2>2, <2>3, <2>4, NoProofMatches
  <1>4. ASSUME NEW w \in Workers, CommitFetch(w) PROVE Rest'
    <2>1. UNCHANGED <<anchors, proofs, inscribed>> /\ Continue(w, LargeGroups(fetched[w]))
      BY <1>4 DEF CommitFetch
    <2> QED BY <1>1, <2>1, GroupedLarge, OthersInscribed, NoProofMatches
  <1>5. ASSUME NEW w \in Workers, Inscribe(w) PROVE Rest'
    <2>1. /\ inscribed' = inscribed \union {Group(w)} /\ pc[w] = "inscribe"
          /\ UNCHANGED <<anchors, proofs, fetched>>
          /\ \A v \in Workers \ {w} : pc'[v] = pc[v]
      BY <1>1, <1>5 DEF Inscribe, AnchoringTypeOK
    <2>2. HeldLarge'
      BY <1>1, <2>1 DEF HeldLarge
    <2>3. HeldInscribed'
      BY <1>1, <2>1 DEF HeldInscribed, Group
    <2> QED BY <1>1, <2>1, <2>2, <2>3, NoProofMatches
  <1>6. ASSUME NEW w \in Workers, InscribeFailed(w) \/ WriteFails(w) PROVE Rest'
    <2>1. /\ proofs' = proofs /\ inscribed \subseteq inscribed' /\ pc[w] \in {"inscribe", "write"}
          /\ anchors' = anchors \/ anchors' = Append(anchors, AnchorOf(w, "failed"))
          /\ Continue(w, fetched[w] \ Group(w))
      BY <1>6 DEF InscribeFailed, WriteFails
    <2> QED BY <1>1, <2>1, OthersStayLarge, OthersInscribed, NoProofMatches
  <1>7. ASSUME NEW w \in Workers, Abort(w) PROVE Rest'
    <2>1. UNCHANGED <<anchors, proofs, inscribed>> /\ Continue(w, {})
      BY <1>7 DEF Abort
    <2>2. HeldLarge'
      BY <1>1, <2>1, HandsOf DEF HeldLarge
    <2> QED BY <1>1, <2>1, <2>2, OthersInscribed, NoProofMatches
  <1>8. ASSUME NEW w \in Workers, WriteResults(w) PROVE Rest'
    <2>1. inscribed' = inscribed /\ pc[w] = "write" /\ Continue(w, fetched[w] \ Group(w))
      BY <1>8 DEF WriteResults
    <2> QED BY <1>1, <1>8, <2>1, OthersStayLarge, OthersInscribed, WriteMatches
  <1>9. ASSUME NEW r \in Rows, Seal(r) PROVE Rest'
    BY <1>2, <1>9 DEF Seal
  <1>10. ASSUME NEW w \in Workers, IdleTick(w) PROVE Rest'
    BY <1>2, <1>10 DEF IdleTick, anchoringVars
  <1>11. Rest'
    <2>1. CASE UNCHANGED anchoringVars
      BY <1>2, <2>1 DEF anchoringVars
    <2> HIDE DEF Rest
    <2> QED BY <1>3, <1>4, <1>5, <1>6, <1>7, <1>8, <1>9, <1>10, <2>1 DEF AnchoringNext, Step, TickFault
  <1> QED BY <1>1, <1>11 DEF AnchorInv

(***************************************************************************)
(* protocol.anchors and protocol.evidence_anchors agree: a pending or      *)
(* inscribed anchor is of an accepted root of at least MinBatch leaves and *)
(* has one numbered proof for each, a failed one has none                  *)
(* (writeAnchorResults, WriteFailed).                                      *)
(***************************************************************************)
THEOREM AnchoringHolds == AnchoringSpec => []AnchoringInv
  <1>1. AnchorInv => AnchoringInv
    BY DEF AnchorInv, OnceInv, AnchoringInv
  <1> QED BY <1>1, AnchorInit, AnchorStep, PTL DEF AnchoringSpec
=============================================================================
