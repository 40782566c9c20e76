------------------------------ MODULE Pricing -------------------------------
(***************************************************************************)
(* The price resolver of internal/pricing: for each line of a cart the     *)
(* base price, the promotions that apply, their combination, the tax and   *)
(* the total.  Amounts are integers: cents, and quantities and rates in    *)
(* parts of Scale (a million in the code).  Stored prices are finer than a *)
(* cent, in parts of Fine.                                                 *)
(*                                                                         *)
(* The promotions are those ListActivePromotions returns for the day and   *)
(* the place, latest start first.  Its rules' amounts are cents.           *)
(***************************************************************************)
EXTENDS Integers, Sequences, FiniteSetsExt

CONSTANTS
    Items,        \* items on sale
    Category,     \* item -> its category
    Promotions,   \* promotions that may be in effect
    PriceRows,    \* rows of pricing.item_prices that may be in effect
    Quantities,   \* quantities of a line, in parts of Scale
    Rates,        \* tax rates, in parts of Scale
    Scale, Fine,  \* even numbers
    MaxPromos, MaxLines   \* bounds: promotions in effect, lines of a cart

VARIABLES
    promos,    \* the active promotions, as listed
    prices,    \* the item's price rows in effect
    taxRate,   \* item -> its percentage rate, 0 for none that counts
    channel,   \* of the request
    lines,     \* the response's lines
    cartTotal

vars == <<promos, prices, taxRate, channel, lines, cartTotal>>

TypeOK ==
    /\ Len(promos) <= MaxPromos /\ Range(promos) \subseteq Promotions
    /\ prices \subseteq PriceRows
    /\ taxRate \in [Items -> Rates \union {0}]
    /\ channel \in {"brick", "web"}
    /\ Len(lines) <= MaxLines
    /\ cartTotal \in Nat

Init ==
    /\ \E n \in 0..MaxPromos : promos \in [1..n -> Promotions]
    /\ IsInjective(promos)
    /\ prices \in SUBSET PriceRows
    /\ \E r \in Rates \union {0} : taxRate = [i \in Items |-> r]
    /\ channel \in {"brick", "web"}
    /\ lines = <<>> /\ cartTotal = 0

\* From the stored amount to cents, half up.
parseMajorToCents(amount) == (2 * amount + Fine) \div (2 * Fine)

multiplyCentsByMicros(cents, qty) == (cents * qty + Scale \div 2) \div Scale
multiplyCentsByPpm(cents, rate)   == (cents * rate + Scale \div 2) \div Scale

\* The ORDER BY of one pass: regular prices first, then the latest.
Outranks(r, s) ==
    \/ r.type = "regular" /\ s.type # "regular"
    \/ (r.type = "regular" <=> s.type = "regular") /\ r.start > s.start

FetchPrice(R) == {r \in R : \A s \in R : ~Outranks(s, r)}

\* The location's rows, then the tenant's; then the item's default price,
\* which is a row of place "catalog" here.  No row: the request is refused.
GetItemPrice(i) ==
    LET At(place) == {r \in prices : r.item = i /\ r.place = place}
    IN  IF At("location") # {} THEN FetchPrice(At("location"))
        ELSE IF At("tenant") # {} THEN FetchPrice(At("tenant"))
        ELSE At("catalog")

itemMatchesAnyRule(p, i) ==
    \E k \in DOMAIN p.rules : p.rules[k].items = {} \/ i \in p.rules[k].items

categoryMatchesAnyRule(p, i) ==
    \E k \in DOMAIN p.rules : p.rules[k].items = {} \/ Category[i] \in p.rules[k].items

\* A trigger other than buy_quantity is passed over, as if it were met.
Triggered(p, qty) ==
    \A k \in DOMAIN p.rules :
        p.rules[k].trigger = "buy_quantity" => qty >= p.rules[k].minQuantity

InScope(p, i) == \/ p.scope = "item" /\ itemMatchesAnyRule(p, i)
                 \/ p.scope = "category" /\ categoryMatchesAnyRule(p, i)

\* The first rule's benefit, whichever rule matched the item.
Benefit(p) == p.rules[1].benefit

evaluatePromotion(p, i, qty) ==
    /\ p.channels = {} \/ channel \in p.channels
    /\ InScope(p, i) /\ Triggered(p, qty)
    /\ p.rules # <<>> /\ Benefit(p)[1] \in {"percent_off", "amount_off", "fixed_price"}

\* The discount per unit.
Discount(p, base) ==
    LET b == Benefit(p)
    IN  CASE b[1] = "percent_off" -> multiplyCentsByPpm(base, b[2])
          [] b[1] = "amount_off"  -> Min({b[2], base})
          [] b[1] = "fixed_price" -> Max({base - b[2], 0})

\* The promotion of P that is listed first.
First(P) == IF P = {} THEN {} ELSE {promos[Min({k \in DOMAIN promos : promos[k] \in P})]}

\* All stackable promotions, and of the others the first with the largest discount.
pickBestPromotions(P, base) ==
    LET alone == {p \in P : ~p.stackable}
    IN  {p \in P : p.stackable}
        \union First({p \in alone :
                        \A q \in alone : Discount(q, base) <= Discount(p, base)})

Off(P, base) == MapThenSumSet(LAMBDA p : Discount(p, base), P)

\* assembleLine: the discounts add up to at most the base price; the tax is on
\* the line's subtotal and added to it.
assembleLine(i, qty, base) ==
    LET candidates == {p \in Range(promos) : evaluatePromotion(p, i, qty)}
        picked     == pickBestPromotions(candidates, base)
        discount   == Min({Off(picked, base), base})
        subtotal   == multiplyCentsByMicros(base - discount, qty)
        tax        == multiplyCentsByPpm(subtotal, taxRate[i])
    IN  [item |-> i, quantity |-> qty, base |-> base, applied |-> picked,
         unit |-> base - discount, subtotal |-> subtotal, tax |-> tax,
         total |-> subtotal + tax]

\* One line of the request.
resolveLine(i, qty) ==
    /\ Len(lines) < MaxLines
    /\ \E row \in GetItemPrice(i) :
          LET line == assembleLine(i, qty, parseMajorToCents(row.amount))
          IN  /\ lines' = Append(lines, line)
              /\ cartTotal' = cartTotal + line.total
    /\ UNCHANGED <<promos, prices, taxRate, channel>>

Next == \E i \in Items, qty \in Quantities : resolveLine(i, qty)

Spec == Init /\ [][Next]_vars

\* n is m / d, rounded to the nearest.
Rounded(n, m, d) == 2 * n * d - d <= 2 * m /\ 2 * m < 2 * n * d + d

\* Every combination of promotions that the rules allow: at most one that does
\* not stack.
Allowed(P) == {S \in SUBSET P : \A p, q \in S : p = q \/ p.stackable \/ q.stackable}

\* A line is charged the lowest price that any allowed combination of the
\* promotions that apply to it gives, never less than nothing, and each rounding
\* is off by at most half a cent; the cart is the sum of its lines
\* (pickBestPromotions, assembleLine, multiplyCents... and Resolve).
CartPriced ==
    /\ \A k \in DOMAIN lines :
          LET l == lines[k]
              P == {p \in Range(promos) : evaluatePromotion(p, l.item, l.quantity)}
          IN  /\ l.applied \in Allowed(P)
              /\ l.unit = Max({0, Min({l.base - Off(S, l.base) : S \in Allowed(P)})})
              /\ Rounded(l.subtotal, l.unit * l.quantity, Scale)
              /\ Rounded(l.tax, l.subtotal * taxRate[l.item], Scale)
              /\ l.total >= l.subtotal /\ (l.unit = 0 => l.total = 0)
    /\ cartTotal = MapThenSumSet(LAMBDA k : lines[k].total, DOMAIN lines)

=============================================================================
