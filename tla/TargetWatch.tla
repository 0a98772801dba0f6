---------------------------- MODULE TargetWatch ----------------------------
(***************************************************************************)
(* Polling of one Target product by the Target watchers                      *)
(* (target_watcher/leased_storage.py, storage.py, production_service.py).     *)
(*                                                                         *)
(* A watcher selects a due product with a copy of its baseline, takes a lease *)
(* on it, fetches the product page and then the stock of the saved store,     *)
(* asks again if the observation could raise an alert, checks the lease,      *)
(* reads the baseline anew, records the observation over it, publishes an     *)
(* event and releases the lease.  Two watcher processes may overlap.          *)
(*                                                                         *)
(* An offer is what Target answers: the price, the regular price (0 if        *)
(* absent), the stock ("in" can be bought, "blocked" is available but cannot  *)
(* be added to a cart) and the promotion ("none" for no text).  A price of 0  *)
(* in the baseline is NULL.  Times are ages, or ticks left.                   *)
(***************************************************************************)
EXTENDS Integers

CONSTANTS
    Workers,        \* watcher processes
    Offers,         \* what Target may offer
    MinDiscount,    \* TARGET_MIN_EVENT_DISCOUNT_PERCENT
    ErrorDiscount,  \* TARGET_PRICE_ERROR_MIN_DISCOUNT_PERCENT
    BigTicket,      \* TARGET_BIG_TICKET_MIN_REFERENCE_PRICE
    Lease,          \* DEFAULT_PRODUCT_LEASE_SECONDS
    NormalDelay,    \* TARGET_NORMAL_OFFER_INTERVAL_MINUTES
    MarkdownDelay,  \* TARGET_MARKDOWN_OFFER_INTERVAL_SECONDS
    ErrorDelay,     \* TARGET_BIG_TICKET_OFFER_INTERVAL_SECONDS
    FailureDelay,   \* the ten minutes of store_offer_failure
    PromptWork,     \* bound on the time from lease to release
    MaxChanges,     \* bound on the changes of the offer
    MaxFaults       \* bound on failed calls and crashes

Stocks == {"in", "blocked", "out", "unknown"}
NoOffer == [price |-> 0, regular |-> 0, stock |-> "unknown", promo |-> "none"]

Amounts == {o.price : o \in Offers} \cup {o.regular : o \in Offers} \cup {0}
Promos == {o.promo : o \in Offers} \cup {"none"}
Observations == [price : Amounts, regular : Amounts, stock : Stocks, promo : Promos]

ASSUME OfferAssumption ==
    /\ Offers # {}
    /\ \A o \in Offers : o \in [price : Nat \ {0}, regular : Nat,
                               stock : Stocks, promo : Promos]
ASSUME WorkerAssumption == "none" \notin Workers
ASSUME NumberAssumption ==
    /\ {MinDiscount, ErrorDiscount, BigTicket, NormalDelay, MarkdownDelay,
        ErrorDelay, FailureDelay, PromptWork, MaxChanges, MaxFaults} \subseteq Nat
    /\ Lease \in Nat \ {0} /\ MinDiscount # 0 /\ ErrorDiscount # 0

VARIABLES
    world,    \* the offer of the product
    row,      \* the row of target_redsky_products
    lease,    \* the row of the product in the lease table
    pc,       \* where each worker is
    claim,    \* what each worker carries
    hold,     \* ticks since each worker took its lease
    changes, faults

vars == <<world, row, lease, pc, claim, hold, changes, faults>>
boundVars == <<changes, faults>>

Availability == {"yes", "no", "unknown"}
Baselines == [price : Amounts, ref : Amounts, available : Availability,
              promo : Promos]
NoBaseline == [price |-> 0, ref |-> 0, available |-> "unknown", promo |-> "none"]
EventTypes == {"regular_price_markdown", "price_drop", "back_in_stock",
               "promotion_change"}
NoKey == [type |-> "none", price |-> 0, ref |-> 0, available |-> "unknown",
          promo |-> "none"]
Keys == [type : EventTypes \cup {"none"}, price : Amounts, ref : Amounts,
         available : Availability, promo : Promos]
Delays == {NormalDelay, MarkdownDelay, ErrorDelay, FailureDelay}

Rows == [base : Baselines, key : Keys,
         due : UNION {0 .. d : d \in Delays},
         age : 0 .. PromptWork + 1] \* of the recorded observation
Leases == [owner : Workers \cup {"none"}, left : 0 .. Lease]
Claims == [copy : Baselines,  \* the baseline as selected
           base : Baselines,  \* the baseline as read before the record
           offer : Observations, confirmed : BOOLEAN, key : Keys,
           age : 0 .. PromptWork]
NoClaim == [copy |-> NoBaseline, base |-> NoBaseline, offer |-> NoOffer,
            confirmed |-> FALSE, key |-> NoKey, age |-> 0]
NoLease == [owner |-> "none", left |-> 0]

Polling == {"product", "stock", "confirm", "check", "read", "record", "publish",
            "finish", "failed", "storefailure", "release"}

TypeOK ==
    /\ world \in Offers
    /\ row \in Rows
    /\ lease \in Leases
    /\ pc \in [Workers -> {"idle", "acquire"} \cup Polling]
    /\ claim \in [Workers -> Claims]
    /\ hold \in [Workers -> 0 .. PromptWork]
    /\ changes \in 0 .. MaxChanges
    /\ faults \in 0 .. MaxFaults

(* A seeded product: never priced and due. *)
Init ==
    /\ world \in Offers
    /\ row = [base |-> NoBaseline, key |-> NoKey, due |-> 0, age |-> PromptWork + 1]
    /\ lease = NoLease
    /\ pc = [w \in Workers |-> "idle"]
    /\ claim = [w \in Workers |-> NoClaim]
    /\ hold = [w \in Workers |-> 0]
    /\ changes = 0
    /\ faults = 0

-----------------------------------------------------------------------------
(* What an observation means against a baseline. *)
Buyable(o) == o.stock = "in"
AvailableAsReported(o) == o.stock
Available(o) ==
    CASE o.stock \in {"in", "blocked"} -> "yes"
      [] o.stock = "out" -> "no"
      [] o.stock = "unknown" -> "unknown"

(* The regular price, or else the price history, if it is higher. *)
Reference(base, o) ==
    IF o.regular > o.price THEN o.regular
    ELSE IF base.price > o.price THEN base.price
    ELSE IF base.ref > o.price THEN base.ref ELSE 0

Discounted(ref, price, percent) == (ref - price) * 100 >= ref * percent
Markdown(base, o) == Reference(base, o) # 0 /\ Buyable(o)
Alerting(base, o) ==
    Markdown(base, o) /\ Discounted(Reference(base, o), o.price, MinDiscount)
NewPromotion(base, o) ==
    base.promo # "none" /\ o.promo # "none" /\ base.promo # o.promo

(* offer_requires_exact_confirmation *)
NeedsConfirmationOfDrops(base, o) == Alerting(base, o) /\ o.price < base.price
NeedsConfirmation(base, o) ==
    /\ Alerting(base, o)
    /\ IF base.price = 0 THEN o.regular # 0
       ELSE o.price < base.price \/ base.available = "no" \/ NewPromotion(base, o)

(* The event type that record_exact_offer derives. *)
EventType(base, o) ==
    IF ~Alerting(base, o) THEN "none"
    ELSE IF base.price = 0 /\ o.regular # 0 THEN "regular_price_markdown"
    ELSE IF base.price # 0 /\ o.price < base.price THEN "price_drop"
    ELSE IF base.available = "no" THEN "back_in_stock"
    ELSE IF NewPromotion(base, o) THEN "promotion_change" ELSE "none"

EventKey(base, o) ==
    IF EventType(base, o) = "none" THEN NoKey
    ELSE [type |-> EventType(base, o), price |-> o.price,
          ref |-> Reference(base, o), available |-> Available(o), promo |-> o.promo]

NextCheck(base, o) ==
    IF /\ Reference(base, o) >= BigTicket
       /\ Markdown(base, o)
       /\ Discounted(Reference(base, o), o.price, ErrorDiscount)
    THEN ErrorDelay
    ELSE IF Markdown(base, o) THEN MarkdownDelay ELSE NormalDelay

-----------------------------------------------------------------------------
Goto(w, from, to) == pc[w] = from /\ pc' = [pc EXCEPT ![w] = to]
(* What a pass that is recorded or failed still carries is of no use. *)
Forget(w) == claim' = [claim EXCEPT ![w] = NoClaim]
(* An idle worker carries nothing. *)
Drop(w) == Forget(w) /\ hold' = [hold EXCEPT ![w] = 0]
Faulty == faults < MaxFaults /\ faults' = faults + 1

OwnsIfLeased(w) == lease.owner # "none"
Owns(w) == lease.owner = w /\ lease.left > 0

SelectDue(w) ==
    /\ row.due = 0
    /\ Goto(w, "idle", "acquire")
    /\ claim' = [claim EXCEPT ![w] = [NoClaim EXCEPT !.copy = row.base]]
    /\ UNCHANGED <<world, row, lease, hold, boundVars>>

ExpiredIfReleased == lease.owner = "none"
Expired == lease.left = 0

(* The upsert guarded by lease_until, and the read-back of the token. *)
Acquire(w) ==
    /\ IF Expired
       THEN /\ Goto(w, "acquire", "product")
            /\ lease' = [owner |-> w, left |-> Lease]
            /\ hold' = [hold EXCEPT ![w] = 0]
            /\ UNCHANGED claim
       ELSE Goto(w, "acquire", "idle") /\ Drop(w) /\ UNCHANGED lease
    /\ UNCHANGED <<world, row, boundVars>>

FetchProduct(w) ==
    /\ Goto(w, "product", "stock")
    /\ claim' = [claim EXCEPT ![w].offer = [world EXCEPT !.stock = "unknown"],
                              ![w].age = 0]
    /\ UNCHANGED <<world, row, lease, hold, boundVars>>

FetchStock(w) ==
    LET offer == [claim[w].offer EXCEPT !.stock = world.stock]
    IN  /\ Goto(w, "stock",
                IF NeedsConfirmation(claim[w].copy, offer) THEN "confirm" ELSE "check")
        /\ claim' = [claim EXCEPT ![w].offer = offer]
        /\ UNCHANGED <<world, row, lease, hold, boundVars>>

(* Page and stock are asked for together, past every cache; prices and stock
   must agree with what was discovered, the promotion need not. *)
Agrees(o) ==
    o.price = world.price /\ o.regular = world.regular /\ o.stock = world.stock
ConfirmOffer(w) ==
    /\ IF Agrees(claim[w].offer)
       THEN /\ Goto(w, "confirm", "check")
            /\ claim' = [claim EXCEPT ![w].offer = world, ![w].confirmed = TRUE,
                                      ![w].age = 0]
       ELSE Goto(w, "confirm", "failed") /\ Forget(w)
    /\ UNCHANGED <<world, row, lease, hold, boundVars>>

CheckLease(w) ==
    /\ \/ Owns(w) /\ Goto(w, "check", "read") /\ UNCHANGED claim
       \/ ~Owns(w) /\ Goto(w, "check", "failed") /\ Forget(w)
    /\ UNCHANGED <<world, row, lease, hold, boundVars>>

ReadBaseline(w) ==
    /\ Goto(w, "read", "record")
    /\ claim' = [claim EXCEPT ![w].base = row.base, ![w].key = row.key]
    /\ UNCHANGED <<world, row, lease, hold, boundVars>>

NewKey(c) ==
    IF EventKey(c.base, c.offer) = c.key THEN NoKey ELSE EventKey(c.base, c.offer)

(* The update names the product, not the lease. *)
RecordOffer(w) ==
    LET c == claim[w]
        key == NewKey(c)
    IN  /\ row' = [base |-> [price |-> c.offer.price, ref |-> Reference(c.base, c.offer),
                             available |-> Available(c.offer), promo |-> c.offer.promo],
                   key |-> IF key # NoKey THEN key ELSE row.key,
                   due |-> NextCheck(c.base, c.offer),
                   age |-> c.age]
        /\ IF key # NoKey
           THEN Goto(w, "record", "publish") /\ claim' = [claim EXCEPT ![w].key = key]
           ELSE Goto(w, "record", "finish") /\ Forget(w)
        /\ UNCHANGED <<world, lease, hold, boundVars>>

(* The event is a row of another table, and the affair of RetailerEvents. *)
Publish(w) ==
    /\ Goto(w, "publish", "finish")
    /\ Forget(w)
    /\ UNCHANGED <<world, row, lease, hold, boundVars>>

Finish(w) ==
    /\ Goto(w, "finish", IF Owns(w) THEN "release" ELSE "failed")
    /\ UNCHANGED <<world, row, lease, claim, hold, boundVars>>

(* The except clause: store_offer_failure, if the lease is still owned. *)
CheckFailure(w) ==
    /\ \/ Owns(w) /\ Goto(w, "failed", "storefailure") /\ UNCHANGED <<claim, hold>>
       \/ ~Owns(w) /\ Goto(w, "failed", "idle") /\ Drop(w)
    /\ UNCHANGED <<world, row, lease, boundVars>>

StoreFailure(w) ==
    /\ Goto(w, "storefailure", "release")
    /\ row' = [row EXCEPT !.due = FailureDelay]
    /\ UNCHANGED <<world, lease, claim, hold, boundVars>>

Release(w) ==
    /\ Goto(w, "release", "idle")
    /\ Drop(w)
    /\ lease' = IF lease.owner = w THEN NoLease ELSE lease
    /\ UNCHANGED <<world, row, boundVars>>

(* A request, a parser or a database call raises. *)
CallFails(w) ==
    /\ Faulty
    /\ \E from \in {"product", "stock", "confirm", "check", "read", "record",
                    "publish", "finish"} : Goto(w, from, "failed")
    /\ Forget(w)
    /\ UNCHANGED <<world, row, lease, hold, changes>>

Crash(w) ==
    /\ Faulty
    /\ pc[w] # "idle"
    /\ pc' = [pc EXCEPT ![w] = "idle"]
    /\ Drop(w)
    /\ UNCHANGED <<world, row, lease, changes>>

OfferChange(o) ==
    /\ changes < MaxChanges
    /\ o # world
    /\ world' = o
    /\ changes' = changes + 1
    /\ UNCHANGED <<row, lease, pc, claim, hold, faults>>

Left(ticks) == IF ticks > 0 THEN ticks - 1 ELSE 0
Observed(w) == pc[w] \in {"stock", "confirm", "check", "read", "record"}
Tick ==
    /\ \A w \in Workers : pc[w] \in Polling => hold[w] < PromptWork
    /\ row' = [row EXCEPT !.due = Left(@),
                          !.age = IF @ <= PromptWork THEN @ + 1 ELSE @]
    /\ lease' = [lease EXCEPT !.left = Left(@)]
    /\ hold' = [w \in Workers |-> IF pc[w] \in Polling THEN hold[w] + 1 ELSE hold[w]]
    /\ claim' = [w \in Workers |->
                   IF Observed(w) THEN [claim[w] EXCEPT !.age = @ + 1] ELSE claim[w]]
    /\ UNCHANGED <<world, pc, boundVars>>

Poll(w) ==
    \/ SelectDue(w) \/ Acquire(w) \/ FetchProduct(w) \/ FetchStock(w)
    \/ ConfirmOffer(w) \/ CheckLease(w) \/ ReadBaseline(w) \/ RecordOffer(w)
    \/ Publish(w) \/ Finish(w) \/ CheckFailure(w) \/ StoreFailure(w) \/ Release(w)

Next ==
    \/ \E w \in Workers : Poll(w) \/ CallFails(w) \/ Crash(w)
    \/ \E o \in Offers : OfferChange(o)
    \/ Tick

Spec == Init /\ [][Next]_vars

-----------------------------------------------------------------------------
(* "This prevents two Target watcher instances from polling the same row
   simultaneously": of the workers that poll the product, at most one took its
   lease less than a lease period ago, however long the others have been
   asleep. *)
Fresh(w) == pc[w] \in Polling /\ hold[w] < Lease
ExclusivePolling == \A v, w \in Workers : v # w /\ Fresh(v) => ~Fresh(w)

(* "a stale worker cannot complete or overwrite work after another process has
   reclaimed it": the check of the lease and the write are two statements, so a
   watcher reclaimed between them does overwrite.  No other does: the watcher
   that still holds the product replaces no observation by an older one, even
   if the lease has run out and whatever the reclaimed ones wrote meanwhile. *)
NoStaleBaseline ==
    [][\A w \in Workers :
          RecordOffer(w) => claim[w].age <= row.age \/ lease.owner # w]_vars

(* What the two comparisons do guarantee together: an event is published
   without confirmation only if another watcher moved the baseline between this
   one's selection and its record. *)
UnconfirmedOnlyIfOvertaken ==
    [][\A w \in Workers :
          Publish(w) => claim[w].confirmed \/ claim[w].copy # claim[w].base]_vars

(* "Leases expire automatically after a crash": once passes stay within their
   leases, a product left due is recorded or failed, and so scheduled anew, in
   the end.  Passes that always outlast their leases may poll for ever without
   recording anything. *)
Fairness ==
    /\ \A w \in Workers : WF_vars(Poll(w))
    /\ WF_vars(Tick)
FairSpec == Spec /\ Fairness
PassesInLease == \A w \in Workers : pc[w] \in Polling => Fresh(w)
PolledAgain == <>[]PassesInLease => (row.due = 0 ~> row.due > 0)
=============================================================================
