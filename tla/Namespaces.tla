----------------------------- MODULE Namespaces -----------------------------
(***************************************************************************)
(* Registration of merchant names, internal/protocol/namespace: the hash   *)
(* of a registration is inscribed first and its row inserted after.        *)
(*                                                                         *)
(* A registration is the number of the request that makes it; its UUID and *)
(* so its hash are its own.  The inscription service is external.          *)
(***************************************************************************)
EXTENDS Naturals, Sequences, FiniteSets

CONSTANTS
    Names,     \* [suffix, length, hyphen, plain]: what validateName looks at
    Owners,    \* tenants
    Callers,   \* requests in flight
    MaxRegs    \* bound: requests that are made

VARIABLES
    row,        \* name -> the registration that has it in the table; 0 for none
    inscribed,  \* registrations whose hash is on the chain
    request,    \* caller -> its step and its registration
    regs,       \* the registrations that were begun: number -> name and owner
    made,       \* how many there are
    created,    \* history: those that were answered with 201
    seen        \* history: name -> the registrations a look-up returned

vars == <<row, inscribed, request, regs, made, created, seen>>

Numbers == 1..MaxRegs
Idle == [at |-> "idle", reg |-> 0]

TypeOK ==
    /\ row \in [Names -> 0..MaxRegs]
    /\ inscribed \union created \subseteq Numbers
    /\ request \in [Callers -> [at : {"idle", "inscribe", "insert"}, reg : 0..MaxRegs]]
    /\ made \in 0..MaxRegs
    /\ \A n \in 1..made : regs[n].name \in Names /\ regs[n].owner \in Owners
    /\ seen \in [Names -> SUBSET Numbers]

Init ==
    /\ row = [name \in Names |-> 0]
    /\ inscribed = {} /\ created = {}
    /\ request = [c \in Callers |-> Idle]
    /\ regs = <<>> /\ made = 0
    /\ seen = [name \in Names |-> {}]

\* Three to 63 letters, digits and hyphens before ".jeffe", none at an end.
validateName(name) ==
    name.suffix /\ name.length \in 3..63 /\ ~name.hyphen /\ name.plain

\* A tenant's key registers for the tenant alone, a platform key for any owner.
Claimed(tenant, owner) == tenant \in {owner, "platform"}

\* A request that passes every check; the others are answered and change nothing.
handleRegister(c) ==
    /\ request[c] = Idle /\ made < MaxRegs
    /\ \E name \in Names, owner \in Owners, tenant \in Owners \union {"platform"} :
          /\ Claimed(tenant, owner) /\ validateName(name)
          /\ regs' = Append(regs, [name |-> name, owner |-> owner])
    /\ made' = made + 1
    /\ request' = [request EXCEPT ![c] = [at |-> "inscribe", reg |-> made']]
    /\ UNCHANGED <<row, inscribed, created, seen>>

\* The inscriber answers; without an answer the request fails, and the service
\* may have inscribed all the same.
Inscribe(c) ==
    /\ request[c].at = "inscribe"
    /\ inscribed' = inscribed \union {request[c].reg}
    /\ request' = [request EXCEPT ![c].at = "insert"]
    /\ UNCHANGED <<row, regs, made, created, seen>>

InscribeFails(c) ==
    /\ request[c].at = "inscribe"
    /\ inscribed' \in {inscribed, inscribed \union {request[c].reg}}
    /\ request' = [request EXCEPT ![c] = Idle]
    /\ UNCHANGED <<row, regs, made, created, seen>>

\* ON CONFLICT (name) DO NOTHING.
Insert(name, n) == row' = IF row[name] = 0 THEN [row EXCEPT ![name] = n] ELSE row

\* The row, or ErrNameTaken when the insert affected none.
register(c) ==
    /\ request[c].at = "insert"
    /\ LET n == request[c].reg
       IN  /\ Insert(regs[n].name, n)
           /\ created' = IF row'[regs[n].name] = n THEN created \union {n} ELSE created
    /\ request' = [request EXCEPT ![c] = Idle]
    /\ UNCHANGED <<inscribed, regs, made, seen>>

\* The insert, or its answer, is lost: a retry is another registration.
InsertFails(c) ==
    /\ request[c].at = "insert"
    /\ LET n == request[c].reg IN Insert(regs[n].name, n) \/ UNCHANGED row
    /\ request' = [request EXCEPT ![c] = Idle]
    /\ UNCHANGED <<inscribed, regs, made, created, seen>>

handleLookup(name) ==
    /\ row[name] \notin seen[name] \union {0}
    /\ seen' = [seen EXCEPT ![name] = @ \union {row[name]}]
    /\ UNCHANGED <<row, inscribed, request, regs, made, created>>

Next ==
    \/ \E c \in Callers : \/ handleRegister(c) \/ Inscribe(c) \/ InscribeFails(c)
                          \/ register(c) \/ InsertFails(c)
    \/ \E name \in Names : handleLookup(name)

Spec == Init /\ [][Next]_vars

\* A name has one owner for good: whoever was told 201 still has it, every
\* look-up ever answered the same registration, and what the table holds was
\* inscribed before; an inscription without a row is of a request that was
\* refused, failed or is under way (register of register.go, Store.Insert).
NameHasOneOwner ==
    /\ \A n \in created : row[regs[n].name] = n
    /\ \A name \in Names : seen[name] \subseteq {row[name]}
    /\ \A name \in Names : row[name] # 0 =>
          row[name] \in inscribed /\ regs[row[name]].name = name
    /\ \A n \in inscribed \ created :
          row[regs[n].name] = n => \A c \in Callers : request[c].reg # n

=============================================================================
