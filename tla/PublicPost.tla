----------------------------- MODULE PublicPost -----------------------------
(***************************************************************************)
(* Delivery of one product to the public channel of one Discord server:    *)
(* maybe_post_public_deal_cards and the two tables that stop it from        *)
(* posting the same deal twice (services/public_deal_posts.py).             *)
(*                                                                         *)
(* A deal key is the product plus a price, so the rows of                   *)
(* guild_public_deal_posts are indexed by price here; alert_dedupe has one   *)
(* row for the product.  Callers are the coroutines that post: the fanout,   *)
(* the retailer scanners and the slash commands, in one process or in two    *)
(* overlapping ones.  Each database call and the Discord call are steps of   *)
(* their own, because every one of them is an await.                        *)
(*                                                                         *)
(* Times are ages in ticks: "first_seen_at < now - 20 minutes" is            *)
(* "age > ReserveStale".  Ages saturate at MaxAge, above every threshold.    *)
(***************************************************************************)
EXTENDS Integers

CONSTANTS
    Callers,        \* coroutines that may post to the server's channel
    Prices,         \* prices of the product, positive numbers
    Scout,          \* TRUE if posted rows are recycled, as in the scout lane
    ReserveStale,   \* RESERVATION_STALE_MINUTES
    SendingStale,   \* the thirty days a row may stay 'sending'
    DedupeTTL,      \* ALERT_DEDUPE_DAYS; SCOUT_ALERT_DEDUPE_HOURS for scouts, extremes
    OrphanRetention,\* public_reservation_hours of the storage maintenance
    PostRetention,  \* PUBLIC_POST_RETENTION_DAYS
    MaxAge,         \* where ages saturate
    ReserveFaults,  \* ways the reservation write can go wrong
    WriteFaults,    \* ways each later write can go wrong
    ReadFails,      \* TRUE if reads may raise
    SendFaults      \* ways channel.send can go wrong

(***************************************************************************)
(* A write that goes wrong: "fail" raises and changes nothing, "unknown"     *)
(* raises although the commit took effect, "lost" returns although another   *)
(* coroutine's rollback or a restarted database worker undid it.             *)
(* A send: "fail" raises without a message, "unknown" raises with one.       *)
(***************************************************************************)
Faults == {"fail", "unknown", "lost"}

ASSUME PricesAssumption == Prices \subseteq Nat \ {0}
ASSUME LaneAssumption == Scout \in BOOLEAN /\ ReadFails \in BOOLEAN
ASSUME TimeAssumption ==
    /\ MaxAge \in Nat
    /\ {ReserveStale, SendingStale, DedupeTTL, OrphanRetention, PostRetention}
          \subseteq 0 .. (MaxAge - 1)
    /\ ReserveStale <= OrphanRetention
ASSUME FaultAssumption ==
    /\ ReserveFaults \subseteq Faults
    /\ WriteFaults \subseteq Faults
    /\ SendFaults \subseteq {"fail", "unknown"}

VARIABLES
    row,     \* guild_public_deal_posts: the row of each price
    alert,   \* alert_dedupe: the row of the product
    msg,     \* the latest message in the channel for each price
    pc,      \* where each caller is
    price,   \* the price of the card each caller is posting
    tries,   \* attempts made at the current durable write
    exposed  \* history: the prices whose delivery has lost its reservation

vars == <<row, alert, msg, pc, price, tries, exposed>>

Ages == 0 .. MaxAge
OlderUnsaturated(age) == age + 1
Older(age) == IF age < MaxAge THEN age + 1 ELSE age

NoRow == [status |-> "none", age |-> 0]
NoAlert == [price |-> 0, age |-> 0]
NoMsg == [known |-> "none", age |-> 0, guarded |-> FALSE]

Row(status) == [status |-> status, age |-> 0]

Deciding == {"check", "reserve"}
Claiming == {"mark", "confirm", "abort"}
Owning == Claiming \cup {"send", "release", "post", "postcheck"}

Rows == [status : {"none", "reserved", "sending", "posted"}, age : Ages]
Alerts == [price : Prices \cup {0}, age : Ages]
(* age counts from the reservation of the row the message was sent under *)
Messages == [known : {"none", "no", "yes", "recorded"}, age : Ages, guarded : BOOLEAN]
Labels == {"idle", "dedupe"} \cup Deciding \cup Owning

TypeOK ==
    /\ row \in [Prices -> Rows]
    /\ alert \in Alerts
    /\ msg \in [Prices -> Messages]
    /\ pc \in [Callers -> Labels]
    /\ price \in [Callers -> Prices]
    /\ tries \in [Callers -> {0, 1}]
    /\ exposed \subseteq Prices

Init ==
    /\ row = [p \in Prices |-> NoRow]
    /\ alert = NoAlert
    /\ msg = [p \in Prices |-> NoMsg]
    /\ pc = [c \in Callers |-> "idle"]
    /\ price \in [Callers -> Prices]
    /\ tries = [c \in Callers |-> 0]
    /\ exposed = {}

-----------------------------------------------------------------------------
(* Outcomes of a write. *)
Applied(outcome) == outcome \in {"ok", "unknown"}
Returned(outcome) == outcome \in {"ok", "lost"}

Goto(c, label) == pc' = [pc EXCEPT ![c] = label]

(* History, kept for the properties.  A delivery under way is exposed once    *)
(* one of its owners had its reservation acknowledged and lost, or the row    *)
(* has reached an age at which somebody may delete it under the owner (a       *)
(* caller suspended for that long); until nobody owns the delivery any more.   *)
Expired(r) ==
    \/ r.status = "reserved" /\ r.age > ReserveStale
    \/ r.status = "sending" /\ r.age > SendingStale
    \/ r.status \in {"sending", "posted"} /\ r.age > PostRetention
    \/ Scout /\ r.status = "posted" /\ r.age > DedupeTTL
Expose(lost) ==
    exposed' = {p \in Prices :
                  /\ \E c \in Callers : pc'[c] \in Owning /\ price'[c] = p
                  /\ p \in exposed \cup lost \/ Expired(row'[p])}

(* A card for price p has passed the gates: settings, category, proof. *)
Start(c, p) ==
    /\ pc[c] = "idle"
    /\ Goto(c, "check")
    /\ price' = [price EXCEPT ![c] = p]
    /\ UNCHANGED <<row, alert, msg, tries>>
    /\ Expose({})

(* find_recent_alert ignores an expired row; the same or a higher price is
   suppressed. *)
AlertActive == alert.price # 0 /\ alert.age < DedupeTTL
SuppressedHigherOnly(p) == AlertActive /\ p > alert.price
Suppressed(p) == AlertActive /\ p >= alert.price

(* safe_find_recent_alert answers "no alert" when the read raises. *)
CheckAlert(c) ==
    /\ pc[c] = "check"
    /\ \/ Goto(c, IF Suppressed(price[c]) THEN "idle" ELSE "reserve")
       \/ ReadFails /\ Goto(c, "reserve")
    /\ UNCHANGED <<row, alert, msg, price, tries>>
    /\ Expose({})

(* What reserve_public_deal_post deletes before it inserts. *)
StaleWhateverAge(r) ==
    \/ r.status = "reserved"
    \/ r.status = "sending" /\ r.age > SendingStale
Stale(r) ==
    \/ r.status = "reserved" /\ r.age > ReserveStale
    \/ r.status = "sending" /\ r.age > SendingStale
    \/ Scout /\ r.status = "posted" /\ r.age > DedupeTTL
Free(r) == r.status = "none" \/ Stale(r)

(* INSERT OR IGNORE in the transaction of the deletes; rowcount decides. *)
Reserve(c) ==
    /\ pc[c] = "reserve"
    /\ tries' = [tries EXCEPT ![c] = 0]
    /\ UNCHANGED <<alert, msg, price>>
    /\ \E outcome \in {"ok"} \cup ReserveFaults :
          LET p == price[c]
              won == Free(row[p])
          IN /\ row' = IF Applied(outcome) /\ won
                       THEN [row EXCEPT ![p] = Row("reserved")]
                       ELSE row
             /\ Goto(c, IF Returned(outcome) /\ won THEN "mark" ELSE "idle")
             /\ Expose(IF outcome = "lost" /\ won THEN {p} ELSE {})

(* mark_public_deal_sending: a guarded update, then a read-back. *)
MarkSending(c) ==
    /\ pc[c] = "mark"
    /\ \E outcome \in {"ok"} \cup WriteFaults :
          /\ row' = IF Applied(outcome) /\ row[price[c]].status = "reserved"
                    THEN [row EXCEPT ![price[c]].status = "sending"]
                    ELSE row
          /\ Goto(c, IF Returned(outcome) THEN "confirm" ELSE "abort")
    /\ UNCHANGED <<alert, msg, price, tries>>
    /\ Expose({})

ConfirmWithoutReading(c) ==
    /\ pc[c] = "confirm"
    /\ Goto(c, "send")
    /\ UNCHANGED <<row, alert, msg, price, tries>>
    /\ Expose({})
ConfirmSending(c) ==
    /\ pc[c] = "confirm"
    /\ \/ Goto(c, IF row[price[c]].status = "sending" THEN "send" ELSE "abort")
       \/ ReadFails /\ Goto(c, "abort")
    /\ UNCHANGED <<row, alert, msg, price, tries>>
    /\ Expose({})

(* channel.send; the caller knows of the message only if the call returns. *)
Send(c) ==
    /\ pc[c] = "send"
    /\ \E outcome \in {"ok"} \cup SendFaults :
          /\ msg' = IF Applied(outcome)
                    THEN [msg EXCEPT ![price[c]] =
                            [known |-> IF outcome = "ok" THEN "yes" ELSE "no",
                             age |-> row[price[c]].age,
                             guarded |-> price[c] \notin exposed]]
                    ELSE msg
          /\ Goto(c, IF outcome = "ok" THEN "post" ELSE "release")
    /\ UNCHANGED <<row, alert, price, tries>>
    /\ Expose({})

(* release_public_deal_reservation: by key and status, not by owner; its own
   failure is swallowed. *)
Release(c) ==
    /\ pc[c] \in {"abort", "release"}
    /\ \E outcome \in {"ok"} \cup WriteFaults :
          row' = IF Applied(outcome)
                    /\ row[price[c]].status \in {"reserved", "sending"}
                 THEN [row EXCEPT ![price[c]] = NoRow]
                 ELSE row
    /\ Goto(c, "idle")
    /\ UNCHANGED <<alert, msg, price, tries>>
    /\ Expose({})

(* Two attempts at a write; the second failure gives up and moves on. *)
Retry(c, label, next) ==
    /\ Goto(c, IF tries[c] = 0 THEN label ELSE next)
    /\ tries' = [tries EXCEPT ![c] = 1 - tries[c]]

(* mark_public_deal_posted: an update whatever the status, then a read-back. *)
MarkPosted(c) ==
    /\ pc[c] = "post"
    /\ \E outcome \in {"ok"} \cup WriteFaults :
          /\ row' = IF Applied(outcome) /\ row[price[c]].status # "none"
                    THEN [row EXCEPT ![price[c]] = Row("posted")]
                    ELSE row
          /\ IF Returned(outcome)
             THEN Goto(c, "postcheck") /\ UNCHANGED tries
             ELSE Retry(c, "post", "dedupe")
    /\ UNCHANGED <<alert, msg, price>>
    /\ Expose({})

ConfirmPosted(c) ==
    /\ pc[c] = "postcheck"
    /\ \/ /\ row[price[c]].status = "posted"
          /\ Goto(c, "dedupe")
          /\ tries' = [tries EXCEPT ![c] = 0]
       \/ /\ ReadFails \/ row[price[c]].status # "posted"
          /\ Retry(c, "post", "dedupe")
    /\ UNCHANGED <<row, alert, msg, price>>
    /\ Expose({})

(* record_alert_dedupe: an upsert of the product's row. *)
RecordDedupe(c) ==
    /\ pc[c] = "dedupe"
    /\ \E outcome \in {"ok"} \cup WriteFaults :
          /\ alert' = IF Applied(outcome)
                      THEN [price |-> price[c], age |-> 0]
                      ELSE alert
          /\ msg' = IF Applied(outcome) /\ msg[price[c]].known = "yes"
                    THEN [msg EXCEPT ![price[c]].known = "recorded"]
                    ELSE msg
          /\ IF Returned(outcome)
             THEN /\ Goto(c, "idle")
                  /\ tries' = [tries EXCEPT ![c] = 0]
             ELSE Retry(c, "dedupe", "idle")
    /\ UNCHANGED <<row, price>>
    /\ Expose({})

-----------------------------------------------------------------------------
(* run_storage_maintenance on this table. *)
Prunable(r) ==
    \/ r.status = "reserved" /\ r.age > OrphanRetention
    \/ r.status \in {"posted", "sending"} /\ r.age > PostRetention
Prune(p) ==
    /\ Prunable(row[p])
    /\ row' = [row EXCEPT ![p] = NoRow]
    /\ UNCHANGED <<alert, msg, pc, price, tries>>
    /\ Expose({})

(* The coroutine is cancelled or its process dies between two awaits. *)
Crash(c) ==
    /\ pc[c] # "idle"
    /\ Goto(c, "idle")
    /\ UNCHANGED <<row, alert, msg, price, tries>>
    /\ Expose({})

(* Time passes; nothing bounds how long a caller is suspended. *)
Tick ==
    /\ row' = [p \in Prices |->
                 IF row[p].status = "none" THEN NoRow
                 ELSE [row[p] EXCEPT !.age = Older(row[p].age)]]
    /\ alert' = IF alert.price = 0 THEN NoAlert
                ELSE [alert EXCEPT !.age = Older(alert.age)]
    /\ msg' = [p \in Prices |->
                 IF msg[p].known = "none" THEN NoMsg
                 ELSE [msg[p] EXCEPT !.age = Older(msg[p].age)]]
    /\ UNCHANGED <<pc, price, tries>>
    /\ Expose({})

Deliver(c) ==
    \/ CheckAlert(c) \/ Reserve(c) \/ MarkSending(c) \/ ConfirmSending(c)
    \/ Send(c) \/ Release(c) \/ MarkPosted(c) \/ ConfirmPosted(c)
    \/ RecordDedupe(c)

Next ==
    \/ \E c \in Callers, p \in Prices : Start(c, p)
    \/ \E c \in Callers : Deliver(c)
    \/ \E c \in Callers : Crash(c)
    \/ \E p \in Prices : Prune(p)
    \/ Tick

Spec == Init /\ [][Next]_vars

-----------------------------------------------------------------------------
(* At most one caller owns the delivery of a deal: from the reservation to
   the last write no second caller is between its own reservation and its
   'posted' write for the same price.  The reservation row must survive stale
   deletion, releases that do not name an owner and crashes for this.  Two
   callers deliver one deal only when one of them lost its reservation after
   an acknowledged commit, or outlived the age at which its row is deleted. *)
ExclusiveDelivery ==
    \A c, d \in Callers :
        /\ c # d /\ pc[c] \in Owning /\ pc[d] \in Owning /\ price[c] = price[d]
        => price[c] \in exposed

(* The durable rows still protect a message whose delivery the caller saw and
   that was sent under its own reservation: a retained 'sending' row counts
   from the reservation, as the message does, and a 'posted' row from later. *)
RecentlyPosted(p) ==
    /\ msg[p].known \in {"yes", "recorded"}
    /\ msg[p].guarded
    /\ msg[p].age <= SendingStale
    /\ msg[p].age <= PostRetention
    /\ Scout => msg[p].age <= DedupeTTL

(* No deal is sent again while a message whose delivery was seen is
   protected, whatever writes fail after it, whoever crashes and whoever is
   suspended. *)
NoDuplicateMessage ==
    \A c \in Callers : pc[c] = "send" => ~RecentlyPosted(price[c])

(* A caller about to send does so under a row that is durably 'sending', so
   a crash after the message leaves a guard behind, unless its delivery is
   exposed. *)
SendsUnderGuard ==
    \A c \in Callers :
        pc[c] = "send" => row[price[c]].status = "sending" \/ price[c] \in exposed

(* Why they hold.  The row of a delivery that is not exposed is its owner's
   own: in the status its program point implies, and young enough that nobody
   may delete it; and a recent message keeps its row away from every owner
   that could still release it. *)
OwnRow(c) ==
    LET r == row[price[c]]
    IN  /\ ~Expired(r)
        /\ pc[c] = "mark" => r.status = "reserved"
        /\ pc[c] \in {"confirm", "abort"} => r.status \in {"reserved", "sending"}
        /\ pc[c] \in {"send", "release"} => r.status = "sending"
        /\ pc[c] \in {"post", "postcheck"} => r.status \in {"sending", "posted"}
Protected(p) ==
    /\ row[p].status \in {"sending", "posted"}
    /\ row[p].age <= msg[p].age
    /\ p \notin exposed
    /\ \A c \in Callers :
          pc[c] \in Owning /\ price[c] = p => pc[c] \in {"post", "postcheck"}
DeliveryInvariant ==
    /\ ExclusiveDelivery
    /\ \A c \in Callers : pc[c] \in Owning /\ price[c] \notin exposed => OwnRow(c)
    /\ \A p \in Prices : RecentlyPosted(p) => Protected(p)

(* The comment of _release_delivery_guards: alert_dedupe "suppresses any
   price >= the last posted price for days".  No caller sends a price that is
   not lower than every recorded message still inside the dedupe period. *)
OnlyLowerPrices ==
    \A c \in Callers, q \in Prices :
        pc[c] = "send" /\ msg[q].known = "recorded" /\ msg[q].age < DedupeTTL
            => price[c] < q
=============================================================================
