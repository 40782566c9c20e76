------------------------------- MODULE Caches -------------------------------
(***************************************************************************)
(* Read-through caches with a TTL: the secrets that SmResolver keeps in    *)
(* memory (protocol/secrets/sm_resolver.go), and the answers to GET        *)
(* requests that refcache keeps in Valkey (web/middleware/refcache).       *)
(* Refcache is behind a flag and on no route at this commit.               *)
(*                                                                         *)
(* What is read is a version: a source counts its changes, and at version  *)
(* 0 there is nothing to read.                                             *)
(***************************************************************************)
EXTENDS Naturals, FiniteSets

CONSTANTS
    Readers,    \* requests and look-ups in flight
    Whats,      \* URLs with their Accept header, or source codes
    Whos,       \* callers by their Authorization header, or merchants
    TTL,
    LastTime, MaxChanges, MaxReads  \* bounds

VARIABLES
    kind,       \* which of the caches this is
    clock,
    source,     \* key -> the versions of the row and of the secret it refers to
    replaced,   \* history: [key, part, version] -> when it was replaced
    cache,      \* key -> the versions and their expiry, or Empty
    reader,     \* reader -> its step
    reads,      \* reads that were begun
    answer      \* what a reader is answered in this step, and when

vars == <<kind, clock, source, replaced, cache, reader, reads, answer>>

Keys == Whats \X Whos
Versions == 0..(MaxChanges + 1)
Pairs == [row : Versions, value : Versions]
Nobody == <<"nothing", "nobody">>
Empty == [of |-> Nobody, row |-> 0, value |-> 0, until |-> 0]
None == [key |-> Nobody, of |-> Nobody, row |-> 0, value |-> 0, at |-> 0]
Idle == [at |-> "idle"]

Silent == answer' = None

TypeOK ==
    /\ kind \in {"refcache", "secrets"}
    /\ clock \in 1..LastTime /\ reads \in 0..MaxReads
    /\ source \in [Keys -> Pairs]
    /\ \A key \in Keys : cache[key].until \in 0..(LastTime + TTL)
    /\ answer.row \in Versions /\ answer.value \in Versions
    /\ \A r \in Readers : reader[r].at \in {"idle", "row", "value", "put"}

Init ==
    /\ kind \in {"refcache", "secrets"}
    /\ clock = 1 /\ reads = 0
    /\ source = [key \in Keys |-> [row |-> 1, value |-> 1]]
    /\ replaced = [key \in Keys |-> [row |-> [v \in Versions |-> 0],
                                     value |-> [v \in Versions |-> 0]]]
    /\ cache = [key \in Keys |-> Empty]
    /\ reader = [r \in Readers |-> Idle]
    /\ answer = None

\* A read that misses lasts no longer than into the next tick: requests time out.
Tick ==
    /\ clock < LastTime
    /\ \A r \in Readers : reader[r].at # "idle" => reader[r].since = clock
    /\ clock' = clock + 1
    /\ Silent /\ UNCHANGED <<kind, source, replaced, cache, reader, reads>>

\* External: a row, or a secret, is changed or taken away.  Requests that are not
\* GETs pass refcache by and change the row; none touches the cache.
Change(key, part, v) ==
    /\ part = "value" => kind = "secrets"
    /\ v \in {0, source[key][part] + 1} /\ source[key][part] # 0
    /\ Cardinality({c \in Keys \X {"row", "value"} \X Versions :
                       replaced[c[1]][c[2]][c[3]] # 0}) < MaxChanges
    /\ source' = [source EXCEPT ![key][part] = v]
    /\ replaced' = [replaced EXCEPT ![key][part][source[key][part]] = clock]
    /\ Silent /\ UNCHANGED <<kind, clock, cache, reader, reads>>
-----------------------------------------------------------------------------
\* cacheKey, memKey: the URL, the digest of the Authorization header and Accept,
\* or the merchant and the source.
cacheKey(what, who) == <<what, who>>

\* What was read of a key is answered to a request for key.
Answer(key, of, row, value) ==
    answer' = [key |-> key, of |-> of, row |-> row, value |-> value, at |-> clock]

\* cacheGet, Cache.Get: an entry that is not past its expiry.
Hit(key) == cache[key] # Empty /\ clock <= cache[key].until

Own(r) == <<reader[r].what, reader[r].who>>

\* A hit is answered at once.  An error of Valkey, or an entry that does not
\* decode, is a miss.
Get(r, what, who) ==
    LET key == cacheKey(what, who) IN
    /\ reader[r] = Idle /\ reads < MaxReads
    /\ reads' = reads + 1
    /\ \/ /\ Hit(key)
          /\ Answer(<<what, who>>, cache[key].of, cache[key].row, cache[key].value)
          /\ UNCHANGED reader
       \/ /\ Hit(key) => kind = "refcache"
          /\ reader' = [reader EXCEPT ![r] = [at |-> "row", what |-> what, who |-> who,
                            row |-> 0, value |-> 0, since |-> clock]]
          /\ Silent
    /\ UNCHANGED <<kind, clock, source, replaced, cache>>

\* The handler behind refcache runs, or the resolver reads the merchant's row.
\* Nothing is kept of a failure, or of an answer that is not 200.
ReadRow(r) ==
    /\ reader[r].at = "row"
    /\ LET row == source[Own(r)].row IN
         IF row = 0
         THEN /\ Answer(Own(r), Own(r), 0, 0)
              /\ reader' = [reader EXCEPT ![r] = Idle]
         ELSE /\ reader' = [reader EXCEPT ![r].row = row,
                              ![r].at = IF kind = "secrets" THEN "value" ELSE "put"]
              /\ IF kind = "refcache" THEN Answer(Own(r), Own(r), row, 0)
                                      ELSE Silent
    /\ UNCHANGED <<kind, clock, source, replaced, cache, reads>>

\* fetchSecretValue: the latest version of the secret, whatever the row's was.
ReadValue(r) ==
    /\ reader[r].at = "value"
    /\ LET value == source[Own(r)].value IN
         IF value = 0
         THEN /\ Answer(Own(r), Own(r), 0, 0)
              /\ reader' = [reader EXCEPT ![r] = Idle]
         ELSE /\ reader' = [reader EXCEPT ![r].value = value, ![r].at = "put"]
              /\ Silent
    /\ UNCHANGED <<kind, clock, source, replaced, cache, reads>>

ReadFails(r) ==
    /\ reader[r].at \in {"row", "value"}
    /\ Answer(Own(r), Own(r), 0, 0)
    /\ reader' = [reader EXCEPT ![r] = Idle]
    /\ UNCHANGED <<kind, clock, source, replaced, cache, reads>>

\* cachePut, Cache.Set: over whatever is there; refcache has answered by now, and
\* its Set may fail.
Put(r) ==
    LET key == cacheKey(reader[r].what, reader[r].who) IN
    /\ reader[r].at = "put"
    /\ \/ cache' = [cache EXCEPT ![key] =
                       [of |-> Own(r), row |-> reader[r].row, value |-> reader[r].value, until |-> clock + TTL]]
       \/ kind = "refcache" /\ UNCHANGED cache
    /\ IF kind = "secrets" THEN Answer(Own(r), Own(r), reader[r].row, reader[r].value)
                           ELSE Silent
    /\ reader' = [reader EXCEPT ![r] = Idle]
    /\ UNCHANGED <<kind, clock, source, replaced, reads>>

\* SmResolver.Invalidate; refcache has no such call.
Invalidate(key) ==
    /\ kind = "secrets" /\ cache[key] # Empty
    /\ cache' = [cache EXCEPT ![key] = Empty]
    /\ Silent /\ UNCHANGED <<kind, clock, source, replaced, reader, reads>>

Next ==
    \/ Tick
    \/ \E key \in Keys : \/ \E part \in {"row", "value"}, v \in Versions : Change(key, part, v)
                         \/ Invalidate(key)
    \/ \E r \in Readers : \/ \E what \in Whats, who \in Whos : Get(r, what, who)
                          \/ ReadRow(r) \/ ReadValue(r) \/ ReadFails(r) \/ Put(r)

Spec == Init /\ [][Next]_vars
-----------------------------------------------------------------------------
\* However look-ups, changes, failures and evictions overlap, a caller is answered
\* from its own key, with what was there a TTL ago at the most, and a tick that a
\* slow read adds to it: a retired secret is not accepted for longer.
StaleForTTLOnly ==
    answer.row # 0 =>
        /\ answer.of = answer.key
        /\ \A part \in IF kind = "secrets" THEN {"row", "value"} ELSE {"row"} :
              LET until == replaced[answer.key][part][answer[part]]
              IN until = 0 \/ until + TTL + 1 >= answer.at
=============================================================================
