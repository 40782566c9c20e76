--------------------------- MODULE SessionsProofs ---------------------------
(***************************************************************************)
(* Proofs about log-in sessions for any number of signing keys, processes, *)
(* families and requests in flight, with every lost reply of Sessions.     *)
(***************************************************************************)
EXTENDS Sessions, SequenceTheorems, FiniteSetTheorems, TLAPS

\* The places of the minted tokens.
Jtis == 1 .. Len(tokens)

-----------------------------------------------------------------------------
(***************************************************************************)
(* The inductive invariant, in four parts.  The first is about the keys:   *)
(* one of them signs; a cached verify set misses only keys that entered    *)
(* their state after it was filled; and a key that stops signing stays     *)
(* published for as long as a token it signed lives.                       *)
(***************************************************************************)
SingleActive == \A i, j \in Active : i = j

CachesCurrent ==
    \A p \in Procs : caches[p].fresh =>
        \A k \in Published : k \in caches[p].set \/ keys[k].since = now

KeysOutlive ==
    \A j \in Jtis : LET key == keys[tokens[j].kid] IN
        /\ key.status # "absent"
        /\ key.status = "active"   => tokens[j].exp <= now + RefreshTTL
        /\ key.status = "retiring" => tokens[j].exp <= key.since + RefreshTTL
        /\ key.status = "expired"  => tokens[j].exp <= now

KeyInv == SingleActive /\ CachesCurrent /\ KeysOutlive

(***************************************************************************)
(* The second is about the families: a request's tokens are of its family; *)
(* a token descends from an earlier one of its family; no token that was   *)
(* returned is later than its family's last; and a family that a log-in is *)
(* about to create has not been used.                                      *)
(***************************************************************************)
RequestTrue(r) ==
    LET q == requests[r] IN
    /\ q.pc \in {"lookup", "mint", "rotate"} =>
          q.jti \in Jtis /\ tokens[q.jti].returned /\ tokens[q.jti].family = q.family
    /\ q.pc \in {"create", "rotate"} =>
          /\ q.new \in Jtis /\ q.jti < q.new
          /\ tokens[q.new].family = q.family /\ tokens[q.new].parent = q.jti
    /\ q.pc = "create" => q.jti = 0 /\ families[q.family].last_jti = 0

CreatesApart ==
    \A r, s \in Requests :
        Pc(r, "create") /\ Pc(s, "create") /\ requests[r].family = requests[s].family => r = s

TokensDescend ==
    \A j \in Jtis :
        /\ tokens[j].parent < j
        /\ tokens[j].parent # 0 => tokens[tokens[j].parent].family = tokens[j].family

LastIsLast ==
    /\ \A j \in Jtis : tokens[j].returned => j <= families[tokens[j].family].last_jti
    /\ \A f \in Families : families[f].revoked => families[f].last_jti # 0

FamilyInv == (\A r \in Requests : RequestTrue(r)) /\ CreatesApart /\ TokensDescend /\ LastIsLast /\ SpentOnce

(***************************************************************************)
(* The third is about deactivation: a token returned late takes the place  *)
(* of a request that had read the person before.                           *)
(***************************************************************************)
Late == {j \in Jtis : tokens[j].late}

Admitted == {r \in Requests : requests[r].pc \in {"create", "mint", "rotate"}}

LateInv ==
    /\ active => Late = {}
    /\ ~active => Cardinality(Late) + Cardinality(Admitted) <= Cardinality(Requests)

SessionIInv == TypeOK /\ Len(tokens) <= MaxMints /\ KeyInv /\ FamilyInv /\ LateInv

-----------------------------------------------------------------------------
\* The bounds are numbers.
LEMMA Bounds ==
    TypeOK => /\ now \in Nat /\ MaxTime \in Nat /\ MaxMints \in Nat /\ RefreshTTL \in Nat
              /\ Overlap \in Nat /\ Len(tokens) \in Nat /\ DOMAIN tokens = Jtis
  BY SessionsAssumption, LenProperties DEF TypeOK, Jtis

\* MintPair adds a token, signed by the active key, that nobody has yet.
LEMMA Minted ==
    ASSUME TypeOK, NEW f \in Families, NEW parent \in 0 .. MaxMints, MintPair(f, parent)
    PROVE  /\ tokens' \in Seq(Token) /\ Len(tokens') = Len(tokens) + 1 /\ Len(tokens') <= MaxMints
           /\ Jtis' = Jtis \union {Len(tokens')} /\ Len(tokens') \notin Jtis
           /\ \A j \in Jtis : tokens'[j] = tokens[j]
           /\ tokens'[Len(tokens')].family = f /\ tokens'[Len(tokens')].parent = parent
           /\ tokens'[Len(tokens')].kid \in Active /\ tokens'[Len(tokens')].exp = now + RefreshTTL
           /\ ~tokens'[Len(tokens')].returned /\ ~tokens'[Len(tokens')].late
  <1>1. PICK k \in Active : tokens' = Append(tokens,
            [family |-> f, kid |-> k, exp |-> now + RefreshTTL, parent |-> parent,
             returned |-> FALSE, late |-> FALSE])
    BY DEF MintPair
  <1> DEFINE t == [family |-> f, kid |-> k, exp |-> now + RefreshTTL, parent |-> parent,
                   returned |-> FALSE, late |-> FALSE]
  <1>2. t \in Token
    BY Bounds DEF Token, Active, InState, TypeOK
  <1>3. tokens \in Seq(Token) /\ tokens' = Append(tokens, t)
    BY <1>1 DEF TypeOK
  <1> HIDE DEF t
  <1>4. /\ tokens' \in Seq(Token) /\ Len(tokens') = Len(tokens) + 1
        /\ \A j \in 1 .. Len(tokens) : tokens'[j] = tokens[j]
        /\ tokens'[Len(tokens) + 1] = t
    BY <1>2, <1>3, AppendProperties
  <1>5. Len(tokens) \in Nat /\ Len(tokens) < MaxMints /\ MaxMints \in Nat
    BY Bounds DEF MintPair
  <1>6. Jtis' = Jtis \union {Len(tokens')} /\ Len(tokens') \notin Jtis /\ Len(tokens') <= MaxMints
    BY <1>4, <1>5 DEF Jtis
  <1>7. /\ t.family = f /\ t.parent = parent /\ t.kid = k /\ t.exp = now + RefreshTTL
        /\ ~t.returned /\ ~t.late
    BY DEF t
  <1> QED BY <1>4, <1>6, <1>7 DEF Jtis

\* The reply with token j, in what it changes.
LEMMA ReplySent ==
    ASSUME TypeOK, NEW j \in Jtis, tokens' = Returned(j)
    PROVE  /\ tokens' \in Seq(Token) /\ Len(tokens') = Len(tokens) /\ Jtis' = Jtis
           /\ \A i \in Jtis : /\ tokens'[i].family = tokens[i].family
                              /\ tokens'[i].kid = tokens[i].kid
                              /\ tokens'[i].exp = tokens[i].exp
                              /\ tokens'[i].parent = tokens[i].parent
                              /\ tokens'[i].returned <=> (tokens[i].returned \/ i = j)
                              /\ tokens'[i].late <=> IF i = j THEN ~active ELSE tokens[i].late
  <1>1. tokens \in Seq(Token) /\ tokens \in [Jtis -> Token] /\ active \in BOOLEAN
    BY LenProperties DEF TypeOK, Jtis
  <1>2. tokens' = [tokens EXCEPT ![j] = [@ EXCEPT !.returned = TRUE, !.late = ~active]]
    BY <1>1 DEF Returned
  <1>3. [tokens[j] EXCEPT !.returned = TRUE, !.late = ~active] \in Token
    BY <1>1 DEF Token
  <1>4. tokens' \in Seq(Token) /\ Len(tokens') = Len(tokens)
    BY <1>1, <1>2, <1>3, ExceptSeq DEF Jtis
  <1>5. ASSUME NEW i \in Jtis, i # j PROVE tokens'[i] = tokens[i]
    BY <1>1, <1>2, <1>5
  <1>6. tokens'[j] = [tokens[j] EXCEPT !.returned = TRUE, !.late = ~active]
    BY <1>1, <1>2
  <1>7. \A i \in Jtis : tokens[i] \in Token
    BY <1>1
  <1>8. /\ tokens'[j].family = tokens[j].family /\ tokens'[j].kid = tokens[j].kid
        /\ tokens'[j].exp = tokens[j].exp /\ tokens'[j].parent = tokens[j].parent
        /\ tokens'[j].returned /\ (tokens'[j].late <=> ~active)
    BY <1>6, <1>7 DEF Token
  <1>9. Jtis' = Jtis
    BY <1>4 DEF Jtis
  <1> QED BY <1>4, <1>5, <1>8, <1>9

-----------------------------------------------------------------------------
(***************************************************************************)
(* The keyring.  A key moves from absent to active to retiring to expired, *)
(* and waits for the overlap before the last of these steps.               *)
(***************************************************************************)
KeyMoves(k) ==
    /\ keys'[k].since = now
    /\ \/ keys[k].status = "absent" /\ keys'[k].status = "active"
       \/ keys[k].status = "active" /\ keys'[k].status = "retiring"
       \/ keys[k].status = "retiring" /\ keys'[k].status = "expired" /\ now >= keys[k].since + Overlap

\* The cache of a process stays, is dropped or is filled from the table.
CacheMoves(q) ==
    caches'[q] = caches[q] \/ ~caches'[q].fresh \/ caches'[q].set = Published

KeyringType ==
    /\ keys \in [Kids -> KeyRow]
    /\ caches \in [Procs -> Cache]
    /\ runbook \in [Procs -> {"none", "boot", "rotating"} \X SUBSET Kids]

\* The steps that change the keyring only.
KeyringStep ==
    \E p \in Procs : \/ BootstrapDevKeyIfEmpty(p) \/ Insert(p)
                      \/ RotateUpdate(p) \/ Rotate(p)
                      \/ ServeJWKS(p) \/ CacheExpires(p)
                      \/ \E k \in Kids : Retire(p, k) \/ Expire(p, k)

\* A cache is dropped, or filled with what is published.
LEMMA CacheStep ==
    ASSUME TypeOK, NEW p \in Procs, invalidateCache(p) \/ caches' = Cached(p) \/ caches' = caches
    PROVE  /\ caches' \in [Procs -> Cache]
           /\ \A q \in Procs : CacheMoves(q)
           /\ invalidateCache(p) \/ caches' = caches =>
                  \A q \in Procs : caches'[q] = caches[q] \/ ~caches'[q].fresh
  <1>1. caches \in [Procs -> Cache] /\ Published \in SUBSET Kids
    BY DEF TypeOK, Published, InState
  <1>2. CASE invalidateCache(p)
    <2>1. [fresh |-> FALSE, set |-> {}] \in Cache
      BY DEF Cache
    <2>2. /\ caches' \in [Procs -> Cache] /\ ~caches'[p].fresh
          /\ \A q \in Procs \ {p} : caches'[q] = caches[q]
      BY <1>1, <1>2, <2>1 DEF invalidateCache
    <2> QED BY <2>2 DEF CacheMoves
  <1>3. CASE caches' = Cached(p) /\ ~invalidateCache(p) /\ caches' # caches
    <2>1. VerifySet(p) \in SUBSET Kids /\ [fresh |-> TRUE, set |-> VerifySet(p)] \in Cache
      BY <1>1 DEF VerifySet, Cache
    <2>2. /\ caches' \in [Procs -> Cache] /\ caches'[p] = [fresh |-> TRUE, set |-> VerifySet(p)]
          /\ \A q \in Procs \ {p} : caches'[q] = caches[q]
      BY <1>1, <1>3, <2>1 DEF Cached
    <2>3. CASE caches[p].fresh
      <3>1. caches[p] = [fresh |-> TRUE, set |-> caches[p].set]
        BY <1>1, <2>3 DEF Cache
      <3>2. VerifySet(p) = caches[p].set
        BY <2>3 DEF VerifySet
      <3>3. caches'[p] = caches[p]
        BY <2>2, <3>1, <3>2
      <3> QED BY <1>3, <2>2, <3>3 DEF CacheMoves
    <2>4. CASE ~caches[p].fresh
      <3>1. VerifySet(p) = Published
        BY <2>4 DEF VerifySet
      <3> QED BY <1>3, <2>2, <3>1 DEF CacheMoves
    <2> QED BY <2>3, <2>4
  <1>4. CASE caches' = caches
    BY <1>1, <1>4 DEF CacheMoves
  <1> QED BY <1>2, <1>3, <1>4

\* What a step of the keyring does.
LEMMA KeyringFacts ==
    ASSUME TypeOK, SingleActive, KeyringStep
    PROVE  /\ KeyringType' /\ SingleActive'
           /\ \A k \in Kids : keys'[k] = keys[k] \/ KeyMoves(k)
           /\ \A q \in Procs : CacheMoves(q)
           /\ keys' # keys => \A q \in Procs : caches'[q] = caches[q] \/ ~caches'[q].fresh
           /\ UNCHANGED <<families, tokens, requests, active, now, faults>>
  <1>1. /\ keys \in [Kids -> KeyRow] /\ caches \in [Procs -> Cache]
        /\ runbook \in [Procs -> {"none", "boot", "rotating"} \X SUBSET Kids]
        /\ now \in 0 .. MaxTime
    BY DEF TypeOK
  <1>2. Active \in SUBSET Kids
    BY DEF Active, InState
  <1> DEFINE Moved == \A k \in Kids : keys'[k] = keys[k] \/ KeyMoves(k)
  <1>3. ASSUME NEW p \in Procs, BootstrapDevKeyIfEmpty(p) \/ RotateUpdate(p)
        PROVE  KeyringType' /\ keys' = keys /\ caches' = caches
    BY <1>1, <1>2, <1>3 DEF BootstrapDevKeyIfEmpty, RotateUpdate, KeyringType
  <1>4. ASSUME NEW k \in Kids, NEW s \in {"active", "retiring", "expired"}
        PROVE  Enter(k, s) \in KeyRow /\ Enter(k, s).since = now /\ Enter(k, s).status = s
    BY <1>1 DEF Enter, KeyRow
  <1>5. ASSUME NEW p \in Procs, Insert(p)
        PROVE  keys' \in [Kids -> KeyRow] /\ SingleActive' /\ Moved
               /\ (caches' = caches \/ invalidateCache(p)) /\ runbook' = [runbook EXCEPT ![p] = <<"none", {}>>]
    <2>1. CASE UNCHANGED <<keys, caches>>
      BY <1>1, <1>5, <2>1 DEF Insert, SingleActive, Active, InState
    <2>2. ASSUME NEW k \in InState("absent"), Active = {}, keys' = [keys EXCEPT ![k] = Enter(k, "active")]
          PROVE  keys' \in [Kids -> KeyRow] /\ SingleActive' /\ Moved
      <3>1. k \in Kids /\ keys[k].status = "absent"
        BY DEF InState
      <3>2. keys' \in [Kids -> KeyRow] /\ keys'[k] = Enter(k, "active")
            /\ \A i \in Kids \ {k} : keys'[i] = keys[i]
        BY <1>1, <1>4, <2>2, <3>1
      <3>3. Active' \subseteq {k}
        BY <2>2, <3>2 DEF Active, InState
      <3> QED BY <1>4, <3>1, <3>2, <3>3 DEF SingleActive, KeyMoves
    <2> QED BY <1>5, <2>1, <2>2 DEF Insert
  <1>6. ASSUME NEW p \in Procs, Rotate(p)
        PROVE  keys' \in [Kids -> KeyRow] /\ SingleActive' /\ Moved
               /\ (caches' = caches \/ invalidateCache(p)) /\ runbook' = [runbook EXCEPT ![p] = <<"none", {}>>]
    <2>1. CASE UNCHANGED <<keys, caches>>
      BY <1>1, <1>6, <2>1 DEF Rotate, SingleActive, Active, InState
    <2>2. ASSUME NEW k \in InState("absent"),
                 keys' = [i \in Kids |-> IF i = k THEN Enter(i, "active")
                                         ELSE IF i \in Active THEN Enter(i, "retiring") ELSE keys[i]]
          PROVE  keys' \in [Kids -> KeyRow] /\ SingleActive' /\ Moved
      <3>1. k \in Kids /\ keys[k].status = "absent" /\ \A i \in Kids : i \in Active <=> keys[i].status = "active"
        BY DEF InState, Active
      <3>2. /\ keys' \in [Kids -> KeyRow] /\ keys'[k] = Enter(k, "active")
            /\ \A i \in Active : i # k /\ keys'[i] = Enter(i, "retiring")
            /\ \A i \in Kids : i # k /\ i \notin Active => keys'[i] = keys[i]
        BY <1>1, <1>2, <1>4, <2>2, <3>1
      <3>3. \A i \in Kids : i # k => keys'[i].status # "active"
        BY <1>2, <1>4, <3>1, <3>2
      <3>4. Active' \subseteq {k}
        BY <3>3 DEF Active, InState
      <3> QED BY <1>4, <3>1, <3>2, <3>4 DEF SingleActive, KeyMoves
    <2> QED BY <1>6, <2>1, <2>2 DEF Rotate
  <1>7. ASSUME NEW p \in Procs, NEW k \in Kids, Retire(p, k) \/ Expire(p, k)
        PROVE  keys' \in [Kids -> KeyRow] /\ SingleActive' /\ Moved /\ invalidateCache(p) /\ runbook' = runbook
    <2>1. PICK s \in {"retiring", "expired"} : keys' = [keys EXCEPT ![k] = Enter(k, s)]
      BY <1>7 DEF Retire, Expire
    <2>2. keys' \in [Kids -> KeyRow] /\ keys'[k] = Enter(k, s) /\ \A i \in Kids \ {k} : keys'[i] = keys[i]
      BY <1>1, <1>4, <2>1
    <2>3. KeyMoves(k)
      <3>1. CASE Retire(p, k)
        BY <1>1, <1>4, <3>1 DEF Retire, KeyMoves
      <3>2. CASE Expire(p, k)
        BY <1>1, <1>4, <3>2 DEF Expire, ExpireDue, KeyMoves
      <3> QED BY <1>7, <3>1, <3>2
    <2>4. Active' \subseteq Active
      BY <1>4, <2>2 DEF Active, InState
    <2> QED BY <1>7, <2>2, <2>3, <2>4 DEF SingleActive, Retire, Expire
  <1>8. ASSUME NEW p \in Procs, ServeJWKS(p) \/ CacheExpires(p)
        PROVE  keys' = keys /\ (caches' = Cached(p) \/ invalidateCache(p)) /\ runbook' = runbook
    BY <1>8 DEF ServeJWKS, CacheExpires
  <1>9. PICK p \in Procs :
           /\ keys' \in [Kids -> KeyRow] /\ SingleActive' /\ Moved
           /\ caches' = caches \/ invalidateCache(p) \/ (caches' = Cached(p) /\ keys' = keys)
           /\ runbook' \in [Procs -> {"none", "boot", "rotating"} \X SUBSET Kids]
    <2>1. keys' = keys => keys' \in [Kids -> KeyRow] /\ SingleActive' /\ Moved
      BY <1>1 DEF SingleActive, Active, InState
    <2>2. ASSUME NEW p \in Procs, runbook' = [runbook EXCEPT ![p] = <<"none", {}>>]
          PROVE  runbook' \in [Procs -> {"none", "boot", "rotating"} \X SUBSET Kids]
      BY <1>1, <2>2
    <2> HIDE DEF Moved
    <2> QED BY <1>1, <1>3, <1>5, <1>6, <1>7, <1>8, <2>1, <2>2 DEF KeyringStep, KeyringType
  <1>10. /\ \A q \in Procs : CacheMoves(q)
         /\ keys' # keys => \A q \in Procs : caches'[q] = caches[q] \/ ~caches'[q].fresh
    BY <1>9, CacheStep
  <1>11. caches' \in [Procs -> Cache]
    BY <1>9, CacheStep
  <1>12. UNCHANGED <<families, tokens, requests, active, now, faults>>
    BY DEF KeyringStep, BootstrapDevKeyIfEmpty, Insert, RotateUpdate, Rotate, ServeJWKS, CacheExpires,
           Retire, Expire, sessions
  <1> QED BY <1>9, <1>10, <1>11, <1>12 DEF KeyringType

\* A step of the keyring keeps what the tokens rely on.
LEMMA KeyringKeeps == ASSUME SessionIInv, KeyringStep PROVE TypeOK' /\ KeyInv'
  <1>1. TypeOK /\ SingleActive /\ CachesCurrent /\ KeysOutlive
    BY DEF SessionIInv, KeyInv
  <1>2. /\ KeyringType' /\ SingleActive'
        /\ \A k \in Kids : keys'[k] = keys[k] \/ KeyMoves(k)
        /\ \A q \in Procs : CacheMoves(q)
        /\ keys' # keys => \A q \in Procs : caches'[q] = caches[q] \/ ~caches'[q].fresh
        /\ UNCHANGED <<families, tokens, requests, active, now, faults>>
    BY <1>1, KeyringFacts
  <1>3. TypeOK'
    BY <1>1, <1>2 DEF TypeOK, KeyringType
  <1>4. \A k \in Kids : /\ keys[k] \in KeyRow
                        /\ k \in Published <=> keys[k].status \in {"active", "retiring"}
                        /\ k \in Published' <=> keys'[k].status \in {"active", "retiring"}
    BY <1>1 DEF TypeOK, Published, InState
  <1>5. CachesCurrent'
    <2> SUFFICES ASSUME NEW q \in Procs, caches'[q].fresh, NEW k \in Published', keys'[k].since # now
                 PROVE  k \in caches'[q].set
      BY <1>2 DEF CachesCurrent
    <2>1. k \in Kids /\ keys'[k] = keys[k] /\ k \in Published
      BY <1>2, <1>4 DEF KeyMoves, Published, InState
    <2>2. CASE caches'[q] = caches[q]
      BY <1>1, <2>1, <2>2 DEF CachesCurrent
    <2>3. CASE caches'[q].set = Published
      BY <2>1, <2>3
    <2> QED BY <1>2, <2>2, <2>3 DEF CacheMoves
  <1>6. KeysOutlive'
    <2> SUFFICES ASSUME NEW j \in Jtis
                 PROVE  LET key == keys'[tokens[j].kid] IN
                        /\ key.status # "absent"
                        /\ key.status = "active"   => tokens[j].exp <= now + RefreshTTL
                        /\ key.status = "retiring" => tokens[j].exp <= key.since + RefreshTTL
                        /\ key.status = "expired"  => tokens[j].exp <= now
      BY <1>2 DEF KeysOutlive, Jtis
    <2> DEFINE k == tokens[j].kid
    <2>1. k \in Kids /\ tokens[j].exp \in Nat
      <3>1. tokens[j] \in Token
        BY <1>1 DEF TypeOK, Jtis
      <3>2. 0 .. (MaxTime + RefreshTTL) \subseteq Nat
        OBVIOUS
      <3> QED BY <3>1, <3>2 DEF Token
    <2>2. keys[k].since \in Nat
      BY <1>4, <2>1 DEF KeyRow
    <2>3. /\ keys[k].status # "absent"
          /\ keys[k].status = "active"   => tokens[j].exp <= now + RefreshTTL
          /\ keys[k].status = "retiring" => tokens[j].exp <= keys[k].since + RefreshTTL
          /\ keys[k].status = "expired"  => tokens[j].exp <= now
      BY <1>1 DEF KeysOutlive
    <2> HIDE DEF k
    <2>4. CASE keys'[k] = keys[k]
      BY <2>3, <2>4 DEF k
    <2>5. CASE KeyMoves(k)
      <3>1. now \in Nat /\ RefreshTTL \in Nat /\ Overlap \in Nat /\ RefreshTTL < Overlap
        BY <1>1, Bounds, SessionsAssumption
      <3>2. CASE keys[k].status = "active" /\ keys'[k].status = "retiring"
        BY <2>3, <2>5, <3>1, <3>2 DEF KeyMoves, k
      <3>3. CASE keys[k].status = "retiring" /\ keys'[k].status = "expired"
        <4>1. tokens[j].exp <= keys[k].since + RefreshTTL /\ now >= keys[k].since + Overlap
          BY <2>3, <2>5, <3>3 DEF KeyMoves
        <4>2. tokens[j].exp <= now
          BY <2>1, <2>2, <3>1, <4>1
        <4> QED BY <3>3, <4>2 DEF k
      <3> QED BY <2>3, <2>5, <3>2, <3>3 DEF KeyMoves
    <2> QED BY <1>2, <2>1, <2>4, <2>5
  <1> QED BY <1>2, <1>3, <1>5, <1>6 DEF KeyInv

\* What the steps of a session do to the tokens.
TokensMove ==
    \/ tokens' = tokens
    \/ \E f \in Families, parent \in 0 .. MaxMints : MintPair(f, parent)
    \/ \E j \in Jtis : tokens' = Returned(j)

\* A step of a session finds the key that signs, and keeps the keyring.
LEMMA SessionKeepsKeys ==
    ASSUME TypeOK, KeyInv, keys' = keys, now' = now, \A q \in Procs : CacheMoves(q), TokensMove
    PROVE  KeyInv'
  <1>1. SingleActive'
    BY DEF KeyInv, SingleActive, Active, InState
  <1>2. Published' = Published
    BY DEF Published, InState
  <1>3. CachesCurrent'
    BY <1>2 DEF KeyInv, CachesCurrent, CacheMoves
  <1>4. \A j \in Jtis' :
           \/ j \in Jtis /\ tokens'[j].kid = tokens[j].kid /\ tokens'[j].exp = tokens[j].exp
           \/ tokens'[j].kid \in Active /\ tokens'[j].exp = now + RefreshTTL
    <2>1. CASE tokens' = tokens
      BY <2>1 DEF Jtis
    <2>2. ASSUME NEW f \in Families, NEW parent \in 0 .. MaxMints, MintPair(f, parent)
          PROVE  \A j \in Jtis' :
                    \/ j \in Jtis /\ tokens'[j].kid = tokens[j].kid /\ tokens'[j].exp = tokens[j].exp
                    \/ tokens'[j].kid \in Active /\ tokens'[j].exp = now + RefreshTTL
      BY <2>2, Minted
    <2>3. ASSUME NEW i \in Jtis, tokens' = Returned(i)
          PROVE  \A j \in Jtis' : j \in Jtis /\ tokens'[j].kid = tokens[j].kid /\ tokens'[j].exp = tokens[j].exp
      BY <2>3, ReplySent
    <2> QED BY <2>1, <2>2, <2>3 DEF TokensMove
  <1>5. now + RefreshTTL \in Nat
    BY Bounds
  <1>6. KeysOutlive'
    BY <1>4, <1>5 DEF KeyInv, KeysOutlive, Active, InState
  <1> QED BY <1>1, <1>3, <1>6 DEF KeyInv

-----------------------------------------------------------------------------
(***************************************************************************)
(* What the steps of a session keep of the families.                       *)
(***************************************************************************)

\* A request that a step leaves alone.
LEMMA OthersTrue ==
    ASSUME NEW s \in Requests, RequestTrue(s), requests'[s] = requests[s],
           Jtis \subseteq Jtis',
           \A j \in Jtis : /\ tokens'[j].family = tokens[j].family
                           /\ tokens'[j].parent = tokens[j].parent
                           /\ tokens[j].returned => tokens'[j].returned,
           Pc(s, "create") => families'[requests[s].family].last_jti = families[requests[s].family].last_jti
    PROVE  RequestTrue(s)'
  BY DEF RequestTrue, Pc

\* A new pair: nobody has its token yet.
LEMMA MintKeepsTokens ==
    ASSUME TypeOK, FamilyInv, NEW f \in Families, NEW parent \in 0 .. MaxMints, MintPair(f, parent),
           parent # 0 => parent \in Jtis /\ tokens[parent].family = f, families' = families
    PROVE  TokensDescend' /\ LastIsLast' /\ SpentOnce'
  <1>1. /\ Jtis' = Jtis \union {Len(tokens')} /\ Len(tokens') \notin Jtis
        /\ Len(tokens') = Len(tokens) + 1 /\ Len(tokens) \in Nat
        /\ \A j \in Jtis : tokens'[j] = tokens[j]
        /\ tokens'[Len(tokens')].family = f /\ tokens'[Len(tokens')].parent = parent
        /\ ~tokens'[Len(tokens')].returned
    BY Minted, Bounds
  <1>2. parent < Len(tokens')
    BY <1>1 DEF Jtis
  <1>3. \A j \in Jtis : tokens[j].parent \in 0 .. MaxMints /\ (tokens[j].parent # 0 => tokens[j].parent \in Jtis)
    <2> SUFFICES ASSUME NEW j \in Jtis
                 PROVE  tokens[j].parent \in 0 .. MaxMints /\ (tokens[j].parent # 0 => tokens[j].parent \in Jtis)
      OBVIOUS
    <2>1. tokens[j] \in Token /\ j \in 1 .. Len(tokens)
      BY DEF TypeOK, Jtis
    <2>2. tokens[j].parent \in 0 .. MaxMints
      BY <2>1 DEF Token
    <2>3. tokens[j].parent < j
      BY DEF FamilyInv, TokensDescend
    <2> QED BY <1>1, <2>1, <2>2, <2>3 DEF Jtis
  <1>4. TokensDescend'
    <2> SUFFICES ASSUME NEW j \in Jtis'
                 PROVE  /\ tokens'[j].parent < j
                        /\ tokens'[j].parent # 0 => tokens'[tokens'[j].parent].family = tokens'[j].family
      BY DEF TokensDescend
    <2>1. CASE j = Len(tokens')
      BY <1>1, <1>2, <2>1
    <2>2. CASE j \in Jtis
      BY <1>1, <1>3, <2>2 DEF FamilyInv, TokensDescend
    <2> QED BY <1>1, <2>1, <2>2
  <1>5. LastIsLast'
    BY <1>1 DEF FamilyInv, LastIsLast
  <1>6. \A j \in 1 .. Len(tokens') : tokens'[j].returned => j \in Jtis /\ tokens'[j] = tokens[j]
    BY <1>1 DEF Jtis
  <1>7. SpentOnce'
    <2>1. \A j \in Jtis' : tokens'[j].returned => j \in Jtis /\ tokens'[j] = tokens[j]
      BY <1>6 DEF Jtis
    <2>2. /\ \A i, j \in Jtis : (tokens[i].returned /\ tokens[j].returned
                /\ tokens[i].parent = tokens[j].parent /\ tokens[i].parent # 0) => i = j
          /\ \A g \in Families, j \in Jtis :
                tokens[j].family = g /\ tokens[j].returned => j <= families[g].last_jti
      BY DEF FamilyInv, SpentOnce, Jtis
    <2>3. /\ \A i, j \in Jtis' : (tokens'[i].returned /\ tokens'[j].returned
                /\ tokens'[i].parent = tokens'[j].parent /\ tokens'[i].parent # 0) => i = j
          /\ \A g \in Families, j \in Jtis' :
                tokens'[j].family = g /\ tokens'[j].returned => j <= families'[g].last_jti
      BY <2>1, <2>2
    <2> QED BY <2>3 DEF SpentOnce, Jtis
  <1> QED BY <1>4, <1>5, <1>7

\* A reply: the token that the request minted becomes its family's last.
LEMMA ReplyKeepsTokens ==
    ASSUME TypeOK, FamilyInv, NEW r \in Requests, Pc(r, "create") \/ Pc(r, "rotate"),
           requests[r].jti = families[requests[r].family].last_jti,
           tokens' = tokens \/ tokens' = Returned(requests[r].new),
           families' \in [Families -> Family],
           families'[requests[r].family].last_jti = requests[r].new,
           \A f \in Families \ {requests[r].family} : families'[f] = families[f]
    PROVE  TokensDescend' /\ LastIsLast' /\ SpentOnce'
  <1> DEFINE q == requests[r]
  <1>1. /\ q.new \in Jtis /\ q.jti < q.new /\ tokens[q.new].family = q.family
        /\ tokens[q.new].parent = q.jti /\ q.family \in Families
        /\ q.jti # 0 => q.jti \in Jtis /\ tokens[q.jti].family = q.family
    BY DEF FamilyInv, RequestTrue, Pc, TypeOK, Request
  <1>2. /\ Jtis' = Jtis
        /\ \A i \in Jtis : /\ tokens'[i].family = tokens[i].family
                           /\ tokens'[i].parent = tokens[i].parent
                           /\ tokens'[i].returned => tokens[i].returned \/ i = q.new
    <2>1. CASE tokens' = tokens
      BY <2>1 DEF Jtis
    <2>2. CASE tokens' = Returned(q.new)
      BY <1>1, <2>2, ReplySent
    <2> QED BY <2>1, <2>2
  <1>3. Jtis \subseteq Nat /\ q.jti \in Nat /\ q.new \in Nat
    BY <1>1 DEF Jtis, TypeOK, Request
  <1>4. \A j \in Jtis : tokens[j].family \in Families /\ tokens[j].parent \in Nat
    <2>1. \A j \in Jtis : tokens[j] \in Token
      BY DEF TypeOK, Jtis
    <2> QED BY <2>1 DEF Token
  <1>5. \A j \in Jtis : tokens[j].parent # 0 => tokens[j].parent \in Jtis
    <2> SUFFICES ASSUME NEW j \in Jtis, tokens[j].parent # 0 PROVE tokens[j].parent \in Jtis
      OBVIOUS
    <2>1. tokens[j].parent < j
      BY DEF FamilyInv, TokensDescend
    <2> QED BY <1>4, <2>1, Bounds DEF Jtis
  <1> HIDE DEF q
  <1>6. TokensDescend'
    BY <1>2, <1>5 DEF FamilyInv, TokensDescend
  <1>7. \A j \in Jtis : tokens[j].returned /\ tokens[j].family = q.family => j <= q.jti
    BY DEF FamilyInv, LastIsLast, q
  <1>8. \A j \in Jtis : tokens'[j].returned => j <= families'[tokens'[j].family].last_jti
    <2> SUFFICES ASSUME NEW j \in Jtis, tokens'[j].returned
                 PROVE  j <= families'[tokens[j].family].last_jti
      BY <1>2
    <2>1. CASE tokens[j].family = q.family
      BY <1>1, <1>2, <1>3, <1>7, <2>1 DEF q
    <2>2. CASE tokens[j].family # q.family
      <3>1. j # q.new /\ tokens[j].returned
        BY <1>1, <1>2, <2>2
      <3> QED BY <1>4, <2>2, <3>1 DEF FamilyInv, LastIsLast, q
    <2> QED BY <2>1, <2>2
  <1>9. LastIsLast'
    <2>1. q.new # 0
      BY <1>1, <1>3 DEF Jtis
    <2>2. \A f \in Families : families'[f].revoked => families'[f].last_jti # 0
      BY <2>1 DEF FamilyInv, LastIsLast, q
    <2> QED BY <1>2, <1>8, <2>2 DEF LastIsLast
  <1>10. \A i \in Jtis : tokens[i].returned /\ tokens[i].parent = q.jti /\ q.jti # 0 => FALSE
    <2> SUFFICES ASSUME NEW i \in Jtis, tokens[i].returned, tokens[i].parent = q.jti, q.jti # 0
                 PROVE  FALSE
      OBVIOUS
    <2>1. tokens[i].family = q.family /\ q.jti < i
      BY <1>1 DEF FamilyInv, TokensDescend
    <2> QED BY <1>3, <1>7, <2>1
  <1>11. ASSUME NEW i \in Jtis, NEW j \in Jtis, tokens'[i].returned, tokens'[j].returned,
                tokens'[i].parent = tokens'[j].parent, tokens'[i].parent # 0
         PROVE  i = j
    <2>1. CASE tokens[i].returned /\ tokens[j].returned
      BY <1>2, <1>11, <2>1 DEF FamilyInv, SpentOnce, Jtis
    <2>2. CASE ~(tokens[i].returned /\ tokens[j].returned)
      BY <1>1, <1>2, <1>10, <1>11, <2>2
    <2> QED BY <2>1, <2>2
  <1>12. SpentOnce'
    BY <1>2, <1>8, <1>11 DEF SpentOnce, Jtis
  <1> QED BY <1>6, <1>9, <1>12

-----------------------------------------------------------------------------
(***************************************************************************)
(* What the steps of a session keep of a deactivation.                     *)
(***************************************************************************)
LEMMA LateFinite ==
    ASSUME TypeOK
    PROVE  /\ IsFiniteSet(Late) /\ IsFiniteSet(Admitted)
           /\ Cardinality(Late) \in Nat /\ Cardinality(Admitted) \in Nat
           /\ Cardinality(Admitted) <= Cardinality(Requests) /\ Cardinality(Requests) \in Nat
  <1>1. IsFiniteSet(Jtis)
    BY Bounds, FS_Interval DEF Jtis
  <1>2. Late \subseteq Jtis /\ Admitted \subseteq Requests /\ IsFiniteSet(Requests)
    BY SessionsAssumption DEF Late, Admitted
  <1> QED BY <1>1, <1>2, FS_Subset, FS_CardinalityType

\* No reply, and nobody is let in who is inactive.
LEMMA LateStays ==
    ASSUME TypeOK, LateInv, active' = active, Late' = Late, ~active => Admitted' \subseteq Admitted
    PROVE  LateInv'
  <1>1. CASE ~active
    <2>1. Cardinality(Admitted') <= Cardinality(Admitted) /\ Cardinality(Admitted') \in Nat
      BY <1>1, LateFinite, FS_Subset, FS_CardinalityType
    <2> QED BY <1>1, <2>1, LateFinite DEF LateInv
  <1> QED BY <1>1 DEF LateInv

\* A reply, or the end of a request without one.
LEMMA LateGrows ==
    ASSUME TypeOK, LateInv, active' = active, NEW r \in Admitted, Admitted' \subseteq Admitted \ {r},
           NEW j \in Jtis, tokens' = tokens \/ tokens' = Returned(j)
    PROVE  LateInv'
  <1>1. Late' \subseteq Late \union {j} /\ (active => Late' \subseteq Late)
    <2>1. CASE tokens' = tokens
      BY <2>1 DEF Late, Jtis
    <2>2. CASE tokens' = Returned(j)
      BY <2>2, ReplySent DEF Late
    <2> QED BY <2>1, <2>2
  <1>2. CASE active
    BY <1>1, <1>2 DEF LateInv
  <1>3. CASE ~active
    <2>1. Cardinality(Late') <= Cardinality(Late) + 1
      <3>1. IsFiniteSet(Late \union {j}) /\ Cardinality(Late \union {j}) <= Cardinality(Late) + 1
        <4>1. IsFiniteSet(Late) /\ Cardinality(Late) \in Nat
          BY LateFinite
        <4>2. /\ IsFiniteSet(Late \union {j})
              /\ \/ Cardinality(Late \union {j}) = Cardinality(Late)
                 \/ Cardinality(Late \union {j}) = Cardinality(Late) + 1
          BY <4>1, FS_AddElement
        <4> QED BY <4>1, <4>2
      <3>2. Cardinality(Late') <= Cardinality(Late \union {j}) /\ IsFiniteSet(Late')
        BY <1>1, <3>1, FS_Subset
      <3> QED BY <3>1, <3>2, LateFinite, FS_CardinalityType
    <2>2. Cardinality(Admitted') <= Cardinality(Admitted) - 1
      <3>1. IsFiniteSet(Admitted \ {r}) /\ Cardinality(Admitted \ {r}) = Cardinality(Admitted) - 1
        BY LateFinite, FS_RemoveElement
      <3> QED BY <3>1, FS_Subset
    <2>3. Cardinality(Late') \in Nat /\ Cardinality(Admitted') \in Nat
      BY <1>1, LateFinite, FS_AddElement, FS_Subset, FS_CardinalityType
    <2> QED BY <1>3, <2>1, <2>2, <2>3, LateFinite DEF LateInv
  <1> QED BY <1>2, <1>3

-----------------------------------------------------------------------------
(***************************************************************************)
(* The steps of a session, one by one.                                     *)
(***************************************************************************)
LEMMA SessionKeeps ==
    ASSUME SessionIInv, UNCHANGED <<keys, runbook, active, now>>,
           caches' \in [Procs -> Cache], \A q \in Procs : CacheMoves(q),
           TokensMove, tokens' \in Seq(Token), Len(tokens') <= MaxMints,
           families' \in [Families -> Family], requests' \in [Requests -> Request],
           faults' \in 0 .. MaxFaults, FamilyInv', LateInv'
    PROVE  SessionIInv'
  <1>1. TypeOK /\ KeyInv
    BY DEF SessionIInv
  <1>2. TypeOK'
    BY <1>1 DEF TypeOK
  <1>3. KeyInv'
    BY <1>1, SessionKeepsKeys
  <1> QED BY <1>2, <1>3 DEF SessionIInv

\* The caches are as they were.
LEMMA CachesStay ==
    ASSUME TypeOK, caches' = caches
    PROVE  caches' \in [Procs -> Cache] /\ \A q \in Procs : CacheMoves(q)
  BY DEF TypeOK, CacheMoves

\* What a request becomes, and that the others stay.
LEMMA RequestBecomes ==
    ASSUME TypeOK, NEW r \in Requests, NEW q \in Request, requests' = [requests EXCEPT ![r] = q]
    PROVE  /\ requests' \in [Requests -> Request] /\ requests'[r] = q
           /\ \A s \in Requests \ {r} : requests'[s] = requests[s]
  BY DEF TypeOK

\* The fresh pair of a log-in or a refresh is not late.
LEMMA MintedNotLate ==
    ASSUME TypeOK, NEW f \in Families, NEW parent \in 0 .. MaxMints, MintPair(f, parent)
    PROVE  Late' = Late
  BY Minted DEF Late

LEMMA loginKeeps ==
    ASSUME SessionIInv, NEW r \in Requests, NEW f \in Families, login(r, f) PROVE SessionIInv'
  <1> DEFINE n == Len(tokens')
             q == [pc |-> "create", family |-> f, jti |-> 0, new |-> n]
  <1>1. TypeOK /\ FamilyInv /\ LateInv /\ 0 \in 0 .. MaxMints
    BY Bounds DEF SessionIInv
  <1>2. /\ MintPair(f, 0) /\ requests' = [requests EXCEPT ![r] = q]
        /\ UNCHANGED <<keys, caches, runbook, families, active, now, faults>>
        /\ active /\ families[f].last_jti = 0
        /\ \A s \in Requests : ~(Pc(s, "create") /\ requests[s].family = f)
    BY DEF login, keyring, PersonFound
  <1>3. /\ tokens' \in Seq(Token) /\ n = Len(tokens) + 1 /\ n <= MaxMints
        /\ Jtis' = Jtis \union {n} /\ n \notin Jtis
        /\ \A j \in Jtis : tokens'[j] = tokens[j]
        /\ tokens'[n].family = f /\ tokens'[n].parent = 0
    BY <1>1, <1>2, Minted
  <1>4. q \in Request /\ q.pc = "create" /\ q.family = f /\ q.jti = 0 /\ q.new = n /\ 0 < n
    BY <1>1, <1>3, Bounds DEF Request
  <1> HIDE DEF n, q
  <1>5. /\ requests' \in [Requests -> Request] /\ requests'[r] = q
        /\ \A s \in Requests \ {r} : requests'[s] = requests[s]
    BY <1>1, <1>2, <1>4, RequestBecomes
  <1>6. ASSUME NEW s \in Requests PROVE RequestTrue(s)'
    <2>1. CASE s = r
      BY <1>2, <1>3, <1>4, <1>5, <2>1 DEF RequestTrue
    <2>2. CASE s # r
      BY <1>1, <1>2, <1>3, <1>5, <2>2, OthersTrue DEF FamilyInv
    <2> QED BY <2>1, <2>2
  <1>7. CreatesApart'
    BY <1>1, <1>2, <1>4, <1>5 DEF FamilyInv, CreatesApart, Pc
  <1>8. TokensDescend' /\ LastIsLast' /\ SpentOnce'
    BY <1>1, <1>2, MintKeepsTokens
  <1>9. LateInv'
    BY <1>1, <1>2, MintedNotLate, LateStays
  <1>10. TokensMove /\ families' \in [Families -> Family] /\ faults' \in 0 .. MaxFaults
    BY <1>1, <1>2 DEF TokensMove, TypeOK
  <1> QED BY <1>1, <1>2, <1>3, <1>5, <1>6, <1>7, <1>8, <1>9, <1>10, CachesStay, SessionKeeps
          DEF FamilyInv, n

LEMMA MintKeeps == ASSUME SessionIInv, NEW r \in Requests, Mint(r) PROVE SessionIInv'
  <1> DEFINE n == Len(tokens')
             q == [requests[r] EXCEPT !.pc = "rotate", !.new = n]
  <1>1. TypeOK /\ FamilyInv /\ LateInv /\ RequestTrue(r)
    BY DEF SessionIInv, FamilyInv
  <1>2. /\ MintPair(requests[r].family, requests[r].jti) /\ Pc(r, "mint")
        /\ requests' = [requests EXCEPT ![r] = q]
        /\ UNCHANGED <<keys, caches, runbook, families, active, now, faults>>
    BY DEF Mint, keyring
  <1>3. /\ requests[r].family \in Families /\ requests[r].jti \in 0 .. MaxMints
        /\ requests[r].jti \in Jtis /\ tokens[requests[r].jti].returned
        /\ tokens[requests[r].jti].family = requests[r].family
    BY <1>1, <1>2 DEF TypeOK, Request, RequestTrue, Pc
  <1>4. /\ tokens' \in Seq(Token) /\ n = Len(tokens) + 1 /\ n <= MaxMints
        /\ Jtis' = Jtis \union {n} /\ n \notin Jtis
        /\ \A j \in Jtis : tokens'[j] = tokens[j]
        /\ tokens'[n].family = requests[r].family /\ tokens'[n].parent = requests[r].jti
    BY <1>1, <1>2, <1>3, Minted
  <1>5. /\ q \in Request /\ q.pc = "rotate" /\ q.new = n
        /\ q.family = requests[r].family /\ q.jti = requests[r].jti /\ q.jti < n
    <2>1. requests[r] \in Request /\ n \in 0 .. MaxMints /\ requests[r].jti < n
      BY <1>1, <1>3, <1>4, Bounds DEF TypeOK, Jtis
    <2> QED BY <2>1 DEF Request
  <1> HIDE DEF n, q
  <1>6. /\ requests' \in [Requests -> Request] /\ requests'[r] = q
        /\ \A s \in Requests \ {r} : requests'[s] = requests[s]
    BY <1>1, <1>2, <1>5, RequestBecomes
  <1>7. ASSUME NEW s \in Requests PROVE RequestTrue(s)'
    <2>1. CASE s = r
      BY <1>3, <1>4, <1>5, <1>6, <2>1 DEF RequestTrue
    <2>2. CASE s # r
      BY <1>1, <1>2, <1>4, <1>6, <2>2, OthersTrue DEF FamilyInv
    <2> QED BY <2>1, <2>2
  <1>8. CreatesApart'
    BY <1>1, <1>5, <1>6 DEF FamilyInv, CreatesApart, Pc
  <1>9. TokensDescend' /\ LastIsLast' /\ SpentOnce'
    BY <1>1, <1>2, <1>3, MintKeepsTokens
  <1>10. LateInv'
    <2>1. Admitted' \subseteq Admitted
      BY <1>2, <1>6 DEF Admitted, Pc
    <2> QED BY <1>1, <1>2, <1>3, <2>1, MintedNotLate, LateStays
  <1>11. TokensMove /\ families' \in [Families -> Family] /\ faults' \in 0 .. MaxFaults
    BY <1>1, <1>2, <1>3 DEF TokensMove, TypeOK
  <1> QED BY <1>1, <1>2, <1>4, <1>6, <1>7, <1>8, <1>9, <1>10, <1>11, CachesStay, SessionKeeps
          DEF FamilyInv, n

\* A request ends.
LEMMA RequestEnds ==
    ASSUME TypeOK, CreatesApart, NEW r \in Requests, requests' = [requests EXCEPT ![r] = Idle]
    PROVE  /\ requests' \in [Requests -> Request]
           /\ \A s \in Requests \ {r} : requests'[s] = requests[s]
           /\ RequestTrue(r)' /\ CreatesApart' /\ Admitted' \subseteq Admitted \ {r}
  <1>1. Idle \in Request /\ Idle.pc = "idle"
    BY SessionsAssumption DEF Idle, Request
  <1>2. /\ requests' \in [Requests -> Request] /\ requests'[r] = Idle
        /\ \A s \in Requests \ {r} : requests'[s] = requests[s]
    BY <1>1, RequestBecomes
  <1> QED BY <1>1, <1>2 DEF RequestTrue, CreatesApart, Pc, Admitted

\* A family that has been used is revoked.
LEMMA RevokeKeeps ==
    ASSUME TypeOK, FamilyInv, NEW f \in Families, families[f].last_jti # 0, Revoke(f), tokens' = tokens
    PROVE  /\ families' \in [Families -> Family]
           /\ \A g \in Families : families'[g].last_jti = families[g].last_jti
           /\ TokensDescend' /\ LastIsLast' /\ SpentOnce'
  <1>1. /\ families' \in [Families -> Family]
        /\ \A g \in Families : families'[g].last_jti = families[g].last_jti
        /\ \A g \in Families : families'[g].revoked => families[g].revoked \/ g = f
    BY DEF TypeOK, Revoke, Family
  <1>2. \A j \in Jtis : tokens[j] \in Token
    BY DEF TypeOK, Jtis
  <1>3. \A j \in Jtis : tokens[j].family \in Families
    BY <1>2 DEF Token
  <1>4. TokensDescend'
    BY DEF FamilyInv, TokensDescend, Jtis
  <1>5. Jtis' = Jtis
    BY DEF Jtis
  <1>6. LastIsLast'
    BY <1>1, <1>3, <1>5 DEF FamilyInv, LastIsLast
  <1>7. SpentOnce'
    BY <1>1 DEF FamilyInv, SpentOnce
  <1> QED BY <1>1, <1>4, <1>6, <1>7

LEMMA CreateKeeps == ASSUME SessionIInv, NEW r \in Requests, Create(r) PROVE SessionIInv'
  <1> DEFINE q == requests[r]
  <1>1. TypeOK /\ FamilyInv /\ LateInv /\ CreatesApart /\ RequestTrue(r)
    BY DEF SessionIInv, FamilyInv
  <1>2. /\ Pc(r, "create") /\ tokens' = Returned(q.new)
        /\ families' = [families EXCEPT ![q.family] = [last_jti |-> q.new, revoked |-> FALSE]]
        /\ requests' = [requests EXCEPT ![r] = Idle]
        /\ UNCHANGED <<keys, caches, runbook, active, now, faults>>
    BY DEF Create, keyring
  <1>3. /\ q \in Request /\ q.family \in Families /\ q.new \in Jtis /\ q.new \in 0 .. MaxMints
        /\ q.jti = 0 /\ families[q.family].last_jti = 0
    BY <1>1, <1>2 DEF TypeOK, Request, RequestTrue, Pc
  <1>4. /\ families' \in [Families -> Family] /\ families'[q.family].last_jti = q.new
        /\ \A f \in Families \ {q.family} : families'[f] = families[f]
    BY <1>1, <1>2, <1>3 DEF TypeOK, Family
  <1>5. /\ tokens' \in Seq(Token) /\ Len(tokens') = Len(tokens) /\ Jtis' = Jtis
        /\ \A i \in Jtis : /\ tokens'[i].family = tokens[i].family
                           /\ tokens'[i].parent = tokens[i].parent
                           /\ tokens[i].returned => tokens'[i].returned
    BY <1>1, <1>2, <1>3, ReplySent
  <1>6. /\ requests' \in [Requests -> Request]
        /\ \A s \in Requests \ {r} : requests'[s] = requests[s]
        /\ RequestTrue(r)' /\ CreatesApart' /\ Admitted' \subseteq Admitted \ {r}
    BY <1>1, <1>2, RequestEnds
  <1>7. TokensDescend' /\ LastIsLast' /\ SpentOnce'
    BY <1>1, <1>2, <1>3, <1>4, ReplyKeepsTokens
  <1>8. ASSUME NEW s \in Requests PROVE RequestTrue(s)'
    <2>1. CASE s = r
      BY <1>6, <2>1
    <2>2. CASE s # r
      <3>1. requests[s].family \in Families
        BY <1>1 DEF TypeOK, Request
      <3>2. Pc(s, "create") => families'[requests[s].family].last_jti = families[requests[s].family].last_jti
        BY <1>1, <1>2, <1>4, <2>2, <3>1 DEF CreatesApart
      <3> QED BY <1>1, <1>5, <1>6, <2>2, <3>2, OthersTrue DEF FamilyInv
    <2> QED BY <2>1, <2>2
  <1>9. LateInv'
    <2>1. r \in Admitted
      BY <1>2 DEF Admitted, Pc
    <2> QED BY <1>1, <1>2, <1>3, <1>6, <2>1, LateGrows
  <1>10. TokensMove /\ faults' \in 0 .. MaxFaults /\ Len(tokens') <= MaxMints
    BY <1>1, <1>2, <1>3, <1>5 DEF TokensMove, TypeOK, SessionIInv
  <1> QED BY <1>1, <1>2, <1>4, <1>5, <1>6, <1>7, <1>8, <1>9, <1>10, CachesStay, SessionKeeps DEF FamilyInv

LEMMA ValidateAndRotateKeeps ==
    ASSUME SessionIInv, NEW r \in Requests, ValidateAndRotate(r) PROVE SessionIInv'
  <1> DEFINE q == requests[r]
             f == q.family
  <1>1. TypeOK /\ FamilyInv /\ LateInv /\ CreatesApart /\ RequestTrue(r) /\ LastIsLast
    BY DEF SessionIInv, FamilyInv
  <1>2. /\ Pc(r, "rotate") /\ requests' = [requests EXCEPT ![r] = Idle]
        /\ UNCHANGED <<keys, caches, runbook, active, now>>
        /\ \/ UNCHANGED <<families, tokens, faults>>
           \/ Revoke(f) /\ UNCHANGED <<tokens, faults>>
           \/ /\ q.jti = families[f].last_jti
              /\ families' = [families EXCEPT ![f].last_jti = q.new]
              /\ \/ tokens' = Returned(q.new) /\ UNCHANGED faults
                 \/ faults < MaxFaults /\ faults' = faults + 1 /\ UNCHANGED tokens
    BY DEF ValidateAndRotate, keyring
  <1>3. /\ q \in Request /\ f \in Families /\ q.new \in Jtis /\ q.new \in 0 .. MaxMints
        /\ q.jti \in Jtis /\ tokens[q.jti].returned /\ tokens[q.jti].family = f
    BY <1>1, <1>2 DEF TypeOK, Request, RequestTrue, Pc
  <1>4. families[f].last_jti # 0
    <2>1. q.jti <= families[f].last_jti /\ q.jti \in Nat /\ q.jti >= 1
      BY <1>1, <1>3, Bounds DEF LastIsLast, Jtis
    <2> QED BY <2>1
  <1>5. /\ tokens' \in Seq(Token) /\ Len(tokens') = Len(tokens) /\ Jtis' = Jtis
        /\ \A i \in Jtis : /\ tokens'[i].family = tokens[i].family
                           /\ tokens'[i].parent = tokens[i].parent
                           /\ tokens[i].returned => tokens'[i].returned
        /\ TokensMove /\ (tokens' = tokens \/ tokens' = Returned(q.new))
    <2>1. CASE tokens' = tokens
      BY <1>1, <2>1 DEF TypeOK, TokensMove, Jtis
    <2>2. CASE tokens' = Returned(q.new)
      BY <1>1, <1>3, <2>2, ReplySent DEF TokensMove
    <2> QED BY <1>2, <2>1, <2>2
  <1>6. /\ requests' \in [Requests -> Request]
        /\ \A s \in Requests \ {r} : requests'[s] = requests[s]
        /\ RequestTrue(r)' /\ CreatesApart' /\ Admitted' \subseteq Admitted \ {r}
    BY <1>1, <1>2, RequestEnds
  <1>7. /\ families' \in [Families -> Family] /\ TokensDescend' /\ LastIsLast' /\ SpentOnce'
        /\ \A g \in Families : families[g].last_jti = 0 => families'[g].last_jti = 0
    <2>1. CASE UNCHANGED <<families, tokens>>
      BY <1>1, <2>1 DEF TypeOK, FamilyInv, TokensDescend, LastIsLast, SpentOnce, Jtis
    <2>2. CASE Revoke(f) /\ tokens' = tokens
      BY <1>1, <1>3, <1>4, <2>2, RevokeKeeps
    <2>3. CASE q.jti = families[f].last_jti /\ families' = [families EXCEPT ![f].last_jti = q.new]
      <3>1. /\ families' \in [Families -> Family] /\ families'[f].last_jti = q.new
            /\ \A g \in Families \ {f} : families'[g] = families[g]
        BY <1>1, <1>3, <2>3 DEF TypeOK, Family
      <3> HIDE DEF q
      <3>2. TokensDescend' /\ LastIsLast' /\ SpentOnce'
        BY <1>1, <1>2, <1>5, <2>3, <3>1, ReplyKeepsTokens DEF q
      <3> QED BY <1>4, <3>1, <3>2
    <2> QED BY <1>2, <2>1, <2>2, <2>3
  <1>8. ASSUME NEW s \in Requests PROVE RequestTrue(s)'
    <2>1. CASE s = r
      BY <1>6, <2>1
    <2>2. CASE s # r
      <3>1. requests[s].family \in Families
        BY <1>1 DEF TypeOK, Request
      <3>2. RequestTrue(s) /\ (Pc(s, "create") => families[requests[s].family].last_jti = 0)
        BY <1>1 DEF FamilyInv, RequestTrue, Pc
      <3>3. Pc(s, "create") => families'[requests[s].family].last_jti = families[requests[s].family].last_jti
        BY <1>7, <3>1, <3>2
      <3> QED BY <1>5, <1>6, <2>2, <3>2, <3>3, OthersTrue
    <2> QED BY <2>1, <2>2
  <1>9. LateInv'
    <2>1. r \in Admitted
      BY <1>2 DEF Admitted, Pc
    <2> QED BY <1>1, <1>2, <1>3, <1>5, <1>6, <2>1, LateGrows
  <1>10. faults' \in 0 .. MaxFaults /\ Len(tokens') <= MaxMints
    <2>1. faults \in 0 .. MaxFaults /\ MaxFaults \in Nat
      BY <1>1, SessionsAssumption DEF TypeOK
    <2> QED BY <1>2, <1>5, <2>1 DEF SessionIInv
  <1> QED BY <1>1, <1>2, <1>5, <1>6, <1>7, <1>8, <1>9, <1>10, CachesStay, SessionKeeps DEF FamilyInv

LEMMA serveKeeps ==
    ASSUME SessionIInv, NEW r \in Requests, NEW p \in Procs, NEW j \in Jtis, serve(r, p, j)
    PROVE  SessionIInv'
  <1> DEFINE q == [pc |-> "lookup", family |-> tokens[j].family, jti |-> j, new |-> 0]
  <1>1. TypeOK /\ FamilyInv /\ LateInv
    BY DEF SessionIInv
  <1>2. /\ Pc(r, "idle") /\ tokens[j].returned /\ caches' = Cached(p)
        /\ UNCHANGED <<keys, runbook, families, tokens, active, now, faults>>
        /\ requests' = requests \/ requests' = [requests EXCEPT ![r] = q]
    BY DEF serve
  <1>3. q \in Request /\ q.pc = "lookup" /\ q.jti = j /\ q.family = tokens[j].family
    <2>1. tokens[j] \in Token /\ j \in 0 .. MaxMints /\ 0 \in 0 .. MaxMints
      BY <1>1, Bounds DEF SessionIInv, TypeOK, Jtis
    <2> QED BY <2>1 DEF Request, Token
  <1> HIDE DEF q
  <1>4. /\ requests' \in [Requests -> Request]
        /\ requests'[r] = requests[r] \/ requests'[r] = q
        /\ \A s \in Requests \ {r} : requests'[s] = requests[s]
    <2>1. CASE requests' = requests
      BY <1>1, <2>1 DEF TypeOK
    <2>2. CASE requests' = [requests EXCEPT ![r] = q]
      BY <1>1, <1>3, <2>2, RequestBecomes
    <2> QED BY <1>2, <2>1, <2>2
  <1>5. Jtis' = Jtis
    BY <1>2 DEF Jtis
  <1>6. ASSUME NEW s \in Requests PROVE RequestTrue(s)'
    <2>1. CASE requests'[s] = requests[s]
      BY <1>1, <1>2, <1>5, <2>1, OthersTrue DEF FamilyInv
    <2>2. CASE s = r /\ requests'[r] = q
      BY <1>2, <1>3, <1>5, <2>2 DEF RequestTrue
    <2> QED BY <1>4, <2>1, <2>2
  <1>7. CreatesApart' /\ Admitted' \subseteq Admitted
    BY <1>1, <1>2, <1>3, <1>4 DEF FamilyInv, CreatesApart, Pc, Admitted
  <1>8. TokensDescend' /\ LastIsLast' /\ SpentOnce'
    BY <1>1, <1>2, <1>5 DEF FamilyInv, TokensDescend, LastIsLast, SpentOnce
  <1>9. LateInv'
    <2>1. Late' = Late
      BY <1>2, <1>5 DEF Late
    <2> QED BY <1>1, <1>2, <1>7, <2>1, LateStays
  <1>10. caches' \in [Procs -> Cache] /\ \A i \in Procs : CacheMoves(i)
    BY <1>1, <1>2, CacheStep
  <1>11. /\ TokensMove /\ tokens' \in Seq(Token) /\ Len(tokens') <= MaxMints
         /\ families' \in [Families -> Family] /\ faults' \in 0 .. MaxFaults
    BY <1>1, <1>2 DEF TokensMove, TypeOK, SessionIInv
  <1> QED BY <1>2, <1>4, <1>6, <1>7, <1>8, <1>9, <1>10, <1>11, SessionKeeps DEF FamilyInv

LEMMA LookupByIDKeeps == ASSUME SessionIInv, NEW r \in Requests, LookupByID(r) PROVE SessionIInv'
  <1> DEFINE f == requests[r].family
  <1>1. TypeOK /\ FamilyInv /\ LateInv /\ CreatesApart /\ RequestTrue(r) /\ LastIsLast
    BY DEF SessionIInv, FamilyInv
  <1>2. /\ Pc(r, "lookup") /\ UNCHANGED <<keys, caches, runbook, tokens, active, now, faults>>
        /\ \/ active /\ requests' = [requests EXCEPT ![r].pc = "mint"] /\ families' = families
           \/ Revoke(f) /\ requests' = [requests EXCEPT ![r] = Idle]
    BY DEF LookupByID, keyring, PersonFound
  <1>3. /\ f \in Families /\ requests[r].jti \in Jtis /\ tokens[requests[r].jti].returned
        /\ tokens[requests[r].jti].family = f
    BY <1>1, <1>2 DEF TypeOK, Request, RequestTrue, Pc
  <1>4. Jtis' = Jtis /\ Late' = Late
    BY <1>2 DEF Jtis, Late
  <1>5. /\ TokensMove /\ tokens' \in Seq(Token) /\ Len(tokens') <= MaxMints
        /\ faults' \in 0 .. MaxFaults
    BY <1>1, <1>2 DEF TokensMove, TypeOK, SessionIInv
  <1>6. CASE active /\ requests' = [requests EXCEPT ![r].pc = "mint"] /\ families' = families
    <2> DEFINE q == [requests[r] EXCEPT !.pc = "mint"]
    <2>1. q \in Request /\ q.pc = "mint" /\ q.jti = requests[r].jti /\ q.family = f
      BY <1>1 DEF TypeOK, Request
    <2>2. requests' = [requests EXCEPT ![r] = q]
      BY <1>6
    <2> HIDE DEF q
    <2>3. /\ requests' \in [Requests -> Request] /\ requests'[r] = q
          /\ \A s \in Requests \ {r} : requests'[s] = requests[s]
      BY <1>1, <2>1, <2>2, RequestBecomes
    <2>4. ASSUME NEW s \in Requests PROVE RequestTrue(s)'
      <3>1. CASE s = r
        BY <1>2, <1>3, <1>4, <2>1, <2>3, <3>1 DEF RequestTrue
      <3>2. CASE s # r
        BY <1>1, <1>2, <1>4, <1>6, <2>3, <3>2, OthersTrue DEF FamilyInv
      <3> QED BY <3>1, <3>2
    <2>5. CreatesApart'
      BY <1>1, <2>1, <2>3 DEF CreatesApart, Pc
    <2>6. TokensDescend' /\ LastIsLast' /\ SpentOnce'
      BY <1>1, <1>2, <1>4, <1>6 DEF FamilyInv, TokensDescend, LastIsLast, SpentOnce
    <2>7. LateInv'
      BY <1>1, <1>2, <1>4, <1>6, LateStays
    <2>8. families' \in [Families -> Family]
      BY <1>1, <1>6 DEF TypeOK
    <2> QED BY <1>1, <1>2, <1>5, <2>3, <2>4, <2>5, <2>6, <2>7, <2>8, CachesStay, SessionKeeps DEF FamilyInv
  <1>7. CASE Revoke(f) /\ requests' = [requests EXCEPT ![r] = Idle]
    <2>1. /\ requests' \in [Requests -> Request]
          /\ \A s \in Requests \ {r} : requests'[s] = requests[s]
          /\ RequestTrue(r)' /\ CreatesApart' /\ Admitted' \subseteq Admitted
      BY <1>1, <1>7, RequestEnds
    <2>2. families[f].last_jti # 0
      <3>1. requests[r].jti <= families[f].last_jti /\ requests[r].jti \in Nat /\ requests[r].jti >= 1
        BY <1>1, <1>3, Bounds DEF LastIsLast, Jtis
      <3> QED BY <3>1
    <2>3. /\ families' \in [Families -> Family]
          /\ \A g \in Families : families'[g].last_jti = families[g].last_jti
          /\ TokensDescend' /\ LastIsLast' /\ SpentOnce'
      BY <1>1, <1>2, <1>3, <1>7, <2>2, RevokeKeeps
    <2>4. ASSUME NEW s \in Requests PROVE RequestTrue(s)'
      <3>1. requests[s].family \in Families
        BY <1>1 DEF TypeOK, Request
      <3> QED BY <1>1, <1>2, <1>4, <2>1, <2>3, <3>1, OthersTrue DEF FamilyInv
    <2>5. LateInv'
      BY <1>1, <1>2, <1>4, <2>1, LateStays
    <2> QED BY <1>1, <1>2, <1>5, <2>1, <2>3, <2>4, <2>5, CachesStay, SessionKeeps DEF FamilyInv
  <1> QED BY <1>2, <1>6, <1>7

\* Time passes while no request is in flight.
LEMMA TickKeeps == ASSUME SessionIInv, Tick PROVE SessionIInv'
  <1>1. TypeOK /\ KeyInv /\ FamilyInv /\ LateInv
    BY DEF SessionIInv
  <1>2. /\ now' = now + 1 /\ now < MaxTime
        /\ caches' = [p \in Procs |-> [fresh |-> FALSE, set |-> {}]]
        /\ UNCHANGED <<keys, runbook, families, tokens, requests, active, faults>>
    BY DEF Tick, sessions
  <1>3. now' \in 0 .. MaxTime /\ now \in Nat /\ RefreshTTL \in Nat
    BY <1>1, <1>2, Bounds DEF TypeOK
  <1>4. [fresh |-> FALSE, set |-> {}] \in Cache
    BY DEF Cache
  <1>5. TypeOK'
    BY <1>1, <1>2, <1>3, <1>4 DEF TypeOK
  <1>6. CachesCurrent'
    BY <1>2 DEF CachesCurrent
  <1>7. SingleActive'
    BY <1>1, <1>2 DEF KeyInv, SingleActive, Active, InState
  <1>8. KeysOutlive'
    <2>1. \A j \in Jtis : tokens[j] \in Token
      BY <1>1 DEF TypeOK, Jtis
    <2>2. 0 .. (MaxTime + RefreshTTL) \subseteq Nat
      OBVIOUS
    <2>3. \A j \in Jtis : tokens[j].exp \in Nat
      BY <2>1, <2>2 DEF Token
    <2> QED BY <1>1, <1>2, <1>3, <2>3 DEF KeyInv, KeysOutlive, Jtis
  <1>9. FamilyInv'
    BY <1>1, <1>2 DEF FamilyInv, RequestTrue, CreatesApart, TokensDescend, LastIsLast, SpentOnce, Jtis, Pc
  <1>10. LateInv'
    <2>1. Late' = Late /\ Admitted' = Admitted
      BY <1>2 DEF Late, Admitted, Jtis
    <2> QED BY <1>1, <1>2, <2>1 DEF LateInv
  <1> QED BY <1>2, <1>5, <1>6, <1>7, <1>8, <1>9, <1>10 DEF SessionIInv, KeyInv

\* The keyring and the session variables are apart.
LEMMA KeyringStepKeeps == ASSUME SessionIInv, KeyringStep PROVE SessionIInv'
  <1>1. TypeOK /\ SingleActive
    BY DEF SessionIInv, KeyInv
  <1>2. UNCHANGED <<families, tokens, requests, active, now, faults>>
    BY <1>1, KeyringFacts
  <1>3. FamilyInv'
    BY <1>2 DEF SessionIInv, FamilyInv, RequestTrue, CreatesApart, TokensDescend, LastIsLast,
                SpentOnce, Jtis, Pc
  <1>4. LateInv'
    <2>1. Late' = Late /\ Admitted' = Admitted
      BY <1>2 DEF Late, Admitted, Jtis
    <2> QED BY <1>2, <2>1 DEF SessionIInv, LateInv
  <1> QED BY <1>2, <1>3, <1>4, KeyringKeeps DEF SessionIInv

\* At the deactivation no token is late, and there are no more admitted
\* requests than requests.
LEMMA DeactivateKeeps == ASSUME SessionIInv, Deactivate PROVE SessionIInv'
  <1>1. TypeOK /\ KeyInv /\ FamilyInv /\ LateInv
    BY DEF SessionIInv
  <1>2. active /\ active' = FALSE /\ UNCHANGED <<keys, caches, runbook, families, tokens, requests, now, faults>>
    BY DEF Deactivate, keyring, sessions
  <1>3. TypeOK'
    BY <1>1, <1>2 DEF TypeOK
  <1>4. KeyInv'
    BY <1>1, <1>2 DEF KeyInv, SingleActive, CachesCurrent, KeysOutlive, Active, Published, InState, Jtis
  <1>5. FamilyInv'
    BY <1>1, <1>2 DEF FamilyInv, RequestTrue, CreatesApart, TokensDescend, LastIsLast, SpentOnce, Jtis, Pc
  <1>6. LateInv'
    <2>1. Late' = {} /\ Admitted' = Admitted
      BY <1>1, <1>2 DEF Late, Admitted, Jtis, LateInv
    <2> QED BY <1>1, <1>2, <2>1, LateFinite, FS_EmptySet DEF LateInv
  <1> QED BY <1>2, <1>3, <1>4, <1>5, <1>6 DEF SessionIInv

LEMMA SessionInit == Init => SessionIInv
  <1> SUFFICES ASSUME Init PROVE SessionIInv
    OBVIOUS
  <1>1. tokens = << >> /\ Jtis = {} /\ Len(tokens) = 0
    BY DEF Init, Jtis
  <1>2. TypeOK
    <2>1. Idle \in Request /\ [fresh |-> FALSE, set |-> {}] \in Cache
      BY SessionsAssumption DEF Idle, Request, Cache
    <2>2. [last_jti |-> 0, revoked |-> FALSE] \in Family /\ [status |-> "absent", since |-> 0] \in KeyRow
      BY SessionsAssumption DEF Family, KeyRow
    <2>3. 0 \in 0 .. MaxTime /\ 0 \in 0 .. MaxFaults /\ << >> \in Seq(Token)
      BY SessionsAssumption
    <2>4. <<"none", {}>> \in {"none", "boot", "rotating"} \X SUBSET Kids
      OBVIOUS
    <2> QED BY <2>1, <2>2, <2>3, <2>4 DEF Init, TypeOK
  <1>3. KeyInv
    BY <1>1 DEF Init, KeyInv, SingleActive, CachesCurrent, KeysOutlive, Active, InState
  <1>4. FamilyInv
    <2>1. Idle.pc = "idle"
      BY DEF Idle
    <2> QED BY <1>1, <2>1 DEF Init, FamilyInv, RequestTrue, CreatesApart, TokensDescend, LastIsLast,
               SpentOnce, Pc
  <1>5. LateInv
    BY <1>1 DEF Init, LateInv, Late
  <1> QED BY <1>1, <1>2, <1>3, <1>4, <1>5, Bounds DEF SessionIInv

LEMMA SessionStep == SessionIInv /\ [Next]_vars => SessionIInv'
  <1> SUFFICES ASSUME SessionIInv, [Next]_vars PROVE SessionIInv'
    OBVIOUS
  <1>1. CASE UNCHANGED vars
    BY <1>1 DEF vars, SessionIInv, TypeOK, KeyInv, SingleActive, CachesCurrent, KeysOutlive, Active,
                Published, InState, FamilyInv, RequestTrue, CreatesApart, TokensDescend, LastIsLast,
                SpentOnce, LateInv, Late, Admitted, Jtis, Pc
  <1>2. CASE KeyringStep
    BY <1>2, KeyringStepKeeps
  <1>3. ASSUME NEW r \in Requests, NEW f \in Families, login(r, f) PROVE SessionIInv'
    BY <1>3, loginKeeps
  <1>4. ASSUME NEW r \in Requests, NEW p \in Procs, NEW j \in 1 .. Len(tokens), serve(r, p, j)
        PROVE  SessionIInv'
    BY <1>4, serveKeeps DEF Jtis
  <1>5. ASSUME NEW r \in Requests, Create(r) \/ LookupByID(r) \/ Mint(r) \/ ValidateAndRotate(r)
        PROVE  SessionIInv'
    BY <1>5, CreateKeeps, LookupByIDKeeps, MintKeeps, ValidateAndRotateKeeps
  <1> QED BY <1>1, <1>2, <1>3, <1>4, <1>5, DeactivateKeeps, TickKeeps DEF Next, KeyringStep

-----------------------------------------------------------------------------
(***************************************************************************)
(* However rotations, bootstraps, log-ins and refreshes overlap and        *)
(* whatever replies are lost: at most one key signs, and a refresh token   *)
(* is exchanged for at most one pair (Rotate, ValidateAndRotate).          *)
(***************************************************************************)
THEOREM SessionsSound == Spec => []SessionInv
  <1>1. SessionIInv => SessionInv
    <2> SUFFICES ASSUME SessionIInv PROVE Cardinality(Active) <= 1
      BY DEF SessionIInv, FamilyInv, SessionInv, OneActiveKey
    <2>1. CASE Active = {}
      BY <2>1, FS_EmptySet
    <2>2. ASSUME NEW k \in Active PROVE Cardinality(Active) <= 1
      <3>1. Active = {k}
        BY DEF SessionIInv, KeyInv, SingleActive
      <3> QED BY <3>1, FS_Singleton
    <2> QED BY <2>1, <2>2
  <1> QED BY <1>1, SessionInit, SessionStep, PTL DEF Spec

(***************************************************************************)
(* A token that lives is verified by every process, but for those that     *)
(* filled their cache before its key came (VerifySet, Expire).             *)
(***************************************************************************)
THEOREM TokensVerify == Spec => []LiveTokensVerify
  <1>1. SessionIInv => LiveTokensVerify
    <2> SUFFICES ASSUME SessionIInv, NEW j \in Jtis, now < tokens[j].exp
                 PROVE  /\ tokens[j].kid \in Published
                        /\ \A p \in Procs : tokens[j].kid \notin VerifySet(p) =>
                               caches[p].fresh /\ keys[tokens[j].kid].since = now
      BY DEF LiveTokensVerify, Jtis
    <2>1. tokens[j] \in Token
      BY DEF SessionIInv, TypeOK, Jtis
    <2>2. tokens[j].kid \in Kids /\ tokens[j].exp \in 0 .. (MaxTime + RefreshTTL)
      BY <2>1 DEF Token
    <2>3. keys[tokens[j].kid] \in KeyRow /\ now \in Nat /\ tokens[j].exp \in Nat
      BY <2>2, Bounds DEF SessionIInv, TypeOK
    <2>4. keys[tokens[j].kid].status \in {"active", "retiring"}
      BY <2>3 DEF SessionIInv, KeyInv, KeysOutlive, KeyRow
    <2>5. tokens[j].kid \in Published
      BY <2>2, <2>4 DEF Published, InState
    <2>6. \A p \in Procs : tokens[j].kid \notin VerifySet(p) =>
              caches[p].fresh /\ keys[tokens[j].kid].since = now
      BY <2>5 DEF SessionIInv, KeyInv, CachesCurrent, VerifySet
    <2> QED BY <2>5, <2>6
  <1> QED BY <1>1, SessionInit, SessionStep, PTL DEF Spec

(***************************************************************************)
(* After a deactivation there are no more replies than requests that had   *)
(* read the person before (LookupByID).                                    *)
(***************************************************************************)
THEOREM SessionsEnd == Spec => []InactiveSessionsEnd
  <1>1. SessionIInv => InactiveSessionsEnd
    <2> SUFFICES ASSUME SessionIInv PROVE Cardinality(Late) <= Cardinality(Requests)
      BY DEF InactiveSessionsEnd, Late, Jtis
    <2>1. TypeOK /\ LateInv
      BY DEF SessionIInv
    <2>2. CASE active
      BY <2>1, <2>2, LateFinite, FS_EmptySet DEF LateInv
    <2>3. CASE ~active
      BY <2>1, <2>3, LateFinite DEF LateInv
    <2> QED BY <2>2, <2>3
  <1> QED BY <1>1, SessionInit, SessionStep, PTL DEF Spec

(***************************************************************************)
(* Marking a family revoked does not bring another one back.               *)
(***************************************************************************)
LEMMA RevokedStays ==
  ASSUME TypeOK, NEW g, Revoke(g)
  PROVE  \A f \in Families : families[f].revoked => families'[f].revoked
  <1> SUFFICES ASSUME NEW f \in Families, families[f].revoked PROVE families'[f].revoked
    OBVIOUS
  <1>1. families \in [Families -> Family] /\ families[f] \in Family
    BY DEF TypeOK
  <1>2. families' = [families EXCEPT ![g].revoked = TRUE]
    BY DEF Revoke
  <1>3. families'[f] = IF f = g THEN [families[f] EXCEPT !.revoked = TRUE] ELSE families[f]
    BY <1>1, <1>2
  <1>4. CASE f = g
    <2>1. families'[f] = [families[f] EXCEPT !.revoked = TRUE]
      BY <1>3, <1>4
    <2> QED BY <1>1, <2>1 DEF Family
  <1>5. CASE f # g
    <2>1. families'[f] = families[f]
      BY <1>3, <1>5
    <2> QED BY <2>1
  <1> QED BY <1>4, <1>5

(***************************************************************************)
(* A revoked family stays revoked, and no request in flight still gets a   *)
(* pair out of it (ValidateAndRotate, Revoke).                             *)
(***************************************************************************)
THEOREM RevocationIsFinal == Spec => RevokedForGood
  <1> DEFINE Final == \A f \in Families : families[f].revoked =>
                 /\ families'[f].revoked
                 /\ \A j \in 1 .. Len(tokens) :
                       tokens[j].family = f => tokens'[j].returned = tokens[j].returned
  <1>1. SessionIInv /\ [Next]_vars => [Final]_vars
    <2> SUFFICES ASSUME SessionIInv, [Next]_vars PROVE Final \/ UNCHANGED vars
      OBVIOUS
    <2>1. TypeOK /\ FamilyInv
      BY DEF SessionIInv
    <2>2. ASSUME families' = families, tokens' = tokens PROVE Final
      BY <2>2
    <2>3. ASSUME NEW f \in Families, NEW parent \in 0 .. MaxMints, MintPair(f, parent), families' = families
          PROVE  Final
      BY <2>1, <2>3, Minted DEF Jtis
    <2>4. ASSUME NEW r \in Requests, Create(r) PROVE Final
      <3> DEFINE q == requests[r]
      <3>1. /\ q.new \in Jtis /\ tokens[q.new].family = q.family /\ q.family \in Families
            /\ families[q.family].last_jti = 0 /\ ~families[q.family].revoked
        BY <2>1, <2>4 DEF Create, Pc, FamilyInv, RequestTrue, LastIsLast, TypeOK, Request
      <3>2. tokens' = Returned(q.new)
            /\ families' = [families EXCEPT ![q.family] = [last_jti |-> q.new, revoked |-> FALSE]]
        BY <2>4 DEF Create
      <3>3. ASSUME NEW f \in Families, families[f].revoked
            PROVE  f # q.family /\ families'[f].revoked
        BY <2>1, <3>1, <3>2, <3>3 DEF TypeOK
      <3>4. ASSUME NEW j \in Jtis, j # q.new PROVE tokens'[j].returned = tokens[j].returned
        BY <2>1, <3>2, <3>4 DEF Returned, TypeOK, Jtis
      <3> QED BY <3>1, <3>3, <3>4 DEF Jtis
    <2>5. ASSUME NEW r \in Requests, LookupByID(r) PROVE Final
      <3> DEFINE home == requests[r].family
      <3>1. tokens' = tokens /\ (families' = families \/ Revoke(home))
        BY <2>5 DEF LookupByID
      <3>2. CASE Revoke(home)
        <4> HIDE DEF home
        <4>1. \A f \in Families : families[f].revoked => families'[f].revoked
          BY <2>1, <3>2, RevokedStays
        <4> QED BY <3>1, <4>1
      <3> QED BY <2>2, <3>1, <3>2
    <2>6. ASSUME NEW r \in Requests, ValidateAndRotate(r) PROVE Final
      <3> DEFINE q == requests[r]
      <3>1. q.new \in Jtis /\ tokens[q.new].family = q.family /\ q.family \in Families
        BY <2>1, <2>6 DEF ValidateAndRotate, Pc, FamilyInv, RequestTrue, TypeOK, Request
      <3>2. CASE tokens' = tokens /\ (families' = families \/ Revoke(q.family))
        <4> DEFINE home == q.family
        <4>1. CASE Revoke(home)
          <5> HIDE DEF home
          <5>1. \A f \in Families : families[f].revoked => families'[f].revoked
            BY <2>1, <4>1, RevokedStays
          <5> QED BY <3>2, <5>1
        <4> QED BY <2>2, <3>2, <4>1
      <3>3. CASE /\ ~families[q.family].revoked
                 /\ families' = [families EXCEPT ![q.family].last_jti = q.new]
                 /\ tokens' = tokens \/ tokens' = Returned(q.new)
        <4>1. ASSUME NEW f \in Families, families[f].revoked
              PROVE  f # q.family /\ families'[f].revoked
          BY <2>1, <3>1, <3>3, <4>1 DEF TypeOK
        <4>2. ASSUME NEW j \in Jtis, j # q.new PROVE tokens'[j].returned = tokens[j].returned
          BY <2>1, <3>3, <4>2 DEF Returned, TypeOK, Jtis
        <4> QED BY <3>1, <4>1, <4>2 DEF Jtis
      <3> QED BY <2>6, <3>2, <3>3 DEF ValidateAndRotate
    <2>7. CASE KeyringStep \/ Deactivate \/ Tick
      <3>1. families' = families /\ tokens' = tokens
        BY <2>7, KeyringFacts DEF SessionIInv, KeyInv, Deactivate, Tick, sessions
      <3> QED BY <2>2, <3>1
    <2>8. ASSUME NEW r \in Requests, NEW f \in Families, login(r, f) PROVE Final
      BY <2>1, <2>3, <2>8, Bounds DEF login
    <2>9. ASSUME NEW r \in Requests, NEW p \in Procs, NEW j \in 1 .. Len(tokens), serve(r, p, j) PROVE Final
      BY <2>2, <2>9 DEF serve
    <2>10. ASSUME NEW r \in Requests, Mint(r) PROVE Final
      BY <2>1, <2>3, <2>10 DEF Mint, TypeOK, Request
    <2> HIDE DEF Final
    <2> QED BY <2>4, <2>5, <2>6, <2>7, <2>8, <2>9, <2>10 DEF Next, KeyringStep
  <1> QED BY <1>1, SessionInit, SessionStep, PTL DEF Spec, RevokedForGood
=============================================================================
