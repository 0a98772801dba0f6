----------------------------- MODULE DealFanout -----------------------------
(***************************************************************************)
(* Fanout of the exact-verified markdowns of one Walmart item to servers and  *)
(* users (services/walmart_global_deal_fanout_bulk.py).                       *)
(*                                                                         *)
(* A pass ingests new verifications into events, claims open events under a   *)
(* lease, loads the servers it can see and the ones it should see, asks the   *)
(* exact queue once whether the offers still hold, delivers to the servers    *)
(* and then to the users one at a time, and closes, releases or defers each   *)
(* event.  The fanout lock serialises passes within a process, so a worker is *)
(* a process; overlapping processes share nothing but the database.           *)
(*                                                                         *)
(* An offer is a proof state of the item: an event is keyed by the offer, a    *)
(* delivery by its price.  A batch is many events: here the others are time    *)
(* that passes.  The posting protocol of one server (PublicPost) is one step   *)
(* with three outcomes.  Times are ages, or ticks left.                       *)
(***************************************************************************)
EXTENDS Integers

CONSTANTS
    Workers,      \* bot processes
    Offers,       \* proof states of the item
    PriceOf,      \* the price of each offer
    Guilds,       \* enrolled servers that want Walmart deals
    Users,        \* users with personal alerts
    Lease,        \* EVENT_LEASE_SECONDS
    RetryDelay,   \* MISSING_GUILD_RETRY_SECONDS
    MaxWait,      \* MISSING_GUILD_MAX_WAIT
    Retention,    \* EVENT_RETENTION_DAYS
    PromptWork,   \* bound on the time from claim to the end of a pass
    Failures,     \* the failures that may happen
    MaxChanges,   \* bound on re-verifications and changes of the guild cache
    MaxFaults     \* bound on failed deliveries, abandoned passes and crashes

(* "error" raises before the message, "closed" is Forbidden or NotFound,
   "unsure" raises although Discord took the message, "receipt" is a receipt
   that is not written, "late" raises after it was; "config" is a server whose
   configuration cannot be read. *)
Faults == {"error", "closed", "unsure", "receipt", "late", "config"}
Destinations == Guilds \cup Users
Prices == {PriceOf[o] : o \in Offers}

ASSUME SetAssumption ==
    /\ Guilds \cap Users = {} /\ "none" \notin Workers /\ "none" \notin Users
    /\ DOMAIN PriceOf = Offers /\ Offers # {} /\ "none" \notin Offers
ASSUME NumberAssumption ==
    /\ {Lease, RetryDelay, MaxWait, Retention, PromptWork, MaxChanges, MaxFaults}
          \subseteq Nat
    /\ Lease # 0 /\ MaxWait <= Retention /\ Failures \subseteq Faults

VARIABLES
    queue,      \* the item's row of the exact queue
    gone,       \* ticks since the row disproves each price, 0 if it does not
    live,       \* guilds in Discord's live cache
    enabled,    \* users whose alerts are enabled
    event,      \* the event of each offer
    receipts,   \* delivery receipts
    sent,       \* messages each user was sent for each price, up to 2
    decided,    \* destinations decided since the event was opened (history)
    excused,    \* withdrawn, too old or a server unreadable, as a pass saw it
                \* (history)
    doomed,     \* the keys each process chose to prune and has not deleted
    lost,       \* offers whose open event was deleted (history)
    pc, claim,  \* where each worker is and what it carries
    hold,       \* ticks since each worker claimed
    blurred,    \* prices with a send not receipted in time (history)
    changes, faults

vars == <<queue, gone, live, enabled, event, receipts, sent, decided, excused,
          doomed, lost, pc, claim, hold, blurred, changes, faults>>
pruneVars == <<doomed, lost>>
(* What no pass writes. *)
worldVars == <<queue, gone, live, pruneVars, changes>>
userVars == <<enabled, receipts, sent>>
historyVars == <<decided, excused>>

(* "off" is verified but no markdown, not buyable, or a markdown at a price that
   none of the offers has. *)
Statuses == {"missing", "markdown", "off", "transient"}
Queues == [status : Statuses, offer : Offers,
           fresh : BOOLEAN, \* verified after the watermark
           age : 0 .. MaxWait + 1]
Events == [status : {"absent", "open", "closed"}, owner : Workers \cup {"none"},
           left : 0 .. Lease + RetryDelay, age : 0 .. Retention + 1]
NoEvent == [status |-> "absent", owner |-> "none", left |-> 0, age |-> 0]
Claims == [offer : Offers \cup {"none"}, seen : SUBSET Guilds,
           awaited : SUBSET Guilds, todo : SUBSET Destinations, user : Users \cup {"none"},
           failed : BOOLEAN, dropped : BOOLEAN, old : BOOLEAN]
NoClaim == [offer |-> "none", seen |-> {}, awaited |-> {}, todo |-> {}, user |-> "none",
            failed |-> FALSE, dropped |-> FALSE, old |-> FALSE]
MaxGone == PromptWork + 1

TypeOK ==
    /\ queue \in Queues
    /\ gone \in [Prices -> 0 .. MaxGone]
    /\ live \in SUBSET Guilds
    /\ enabled \in SUBSET Users
    /\ event \in [Offers -> Events]
    /\ receipts \in SUBSET (Users \X Prices)
    /\ sent \in [Users \X Prices -> 0 .. 2]
    /\ decided \in [Offers -> SUBSET Destinations]
    /\ excused \in [Offers -> BOOLEAN]
    /\ doomed \in [Workers -> SUBSET Offers]
    /\ lost \in SUBSET Offers
    /\ pc \in [Workers -> {"idle", "claim", "load", "check", "deliver", "send",
                           "receipt"}]
    /\ claim \in [Workers -> Claims]
    /\ hold \in [Workers -> 0 .. PromptWork]
    /\ blurred \in SUBSET Prices
    /\ changes \in 0 .. MaxChanges
    /\ faults \in 0 .. MaxFaults

Init ==
    /\ queue \in [status : {"missing"}, offer : Offers, fresh : {FALSE}, age : {0}]
    /\ gone = [p \in Prices |-> 0]
    /\ live = Guilds
    /\ enabled = Users
    /\ event = [o \in Offers |-> NoEvent]
    /\ receipts = {}
    /\ sent = [d \in Users \X Prices |-> 0]
    /\ decided = [o \in Offers |-> {}]
    /\ excused = [o \in Offers |-> FALSE]
    /\ doomed = [w \in Workers |-> {}]
    /\ lost = {}
    /\ pc = [w \in Workers |-> "idle"]
    /\ claim = [w \in Workers |-> NoClaim]
    /\ hold = [w \in Workers |-> 0]
    /\ blurred = {}
    /\ changes = 0
    /\ faults = 0

-----------------------------------------------------------------------------
Goto(w, from, to) == pc[w] = from /\ pc' = [pc EXCEPT ![w] = to]
Drop(w) ==
    /\ claim' = [claim EXCEPT ![w] = NoClaim]
    /\ hold' = [hold EXCEPT ![w] = 0]
Faulty == faults < MaxFaults /\ faults' = faults + 1
Older(age, threshold) == IF age <= threshold THEN age + 1 ELSE age
LeftUnfloored(ticks) == ticks - 1
Left(ticks) == IF ticks > 0 THEN ticks - 1 ELSE 0

(* _superseded_event_keys: pending, verifying and retry rows prove nothing. *)
Disproves(row, p) ==
    \/ row.status \in {"missing", "off"}
    \/ row.status = "markdown" /\ PriceOf[row.offer] # p

(* What a pass finds is remembered while the event is open. *)
Find(o, found, excuse) ==
    IF event[o].status = "open"
    THEN /\ decided' = [decided EXCEPT ![o] = @ \cup found]
         /\ excused' = [excused EXCEPT ![o] = @ \/ excuse]
    ELSE UNCHANGED historyVars

(* The rows after the watermark become events unless their keys exist. *)
Ingest(w) ==
    LET o == queue.offer
        new == queue.status = "markdown" /\ queue.fresh
        opened == new /\ event[o].status = "absent"
    IN  /\ Goto(w, "idle", "claim")
        /\ queue' = IF new THEN [queue EXCEPT !.fresh = FALSE, !.age = 0] ELSE queue
        /\ IF opened
           THEN /\ event' = [event EXCEPT ![o] = [NoEvent EXCEPT !.status = "open",
                                                               !.age = queue.age]]
                /\ decided' = [decided EXCEPT ![o] = {}]
                /\ excused' = [excused EXCEPT ![o] = FALSE]
           ELSE UNCHANGED <<event, historyVars>>
        /\ UNCHANGED <<gone, live, userVars, pruneVars, claim, hold, blurred, changes,
                       faults>>

Working(w) == pc[w] \notin {"idle", "claim"}
PriceAt(w) == PriceOf[claim[w].offer]

ClaimableEarly(o) == event[o].status = "open" /\ event[o].left <= 1
Claimable(o) == event[o].status = "open" /\ event[o].left = 0
ClaimEvent(w) ==
    /\ \/ \E o \in Offers :
             /\ Claimable(o)
             /\ Goto(w, "claim", "load")
             /\ event' = [event EXCEPT ![o].owner = w, ![o].left = Lease]
             /\ claim' = [claim EXCEPT ![w] = [NoClaim EXCEPT !.offer = o]]
             /\ hold' = [hold EXCEPT ![w] = 0]
             /\ blurred' = blurred \cup {PriceOf[o] : v \in
                   {v \in Workers : Working(v) /\ PriceAt(v) = PriceOf[o]}}
       \/ /\ \A o \in Offers : ~Claimable(o)
          /\ Goto(w, "claim", "idle")
          /\ UNCHANGED <<event, claim, hold, blurred>>
    /\ UNCHANGED <<worldVars, userVars, historyVars, faults>>

(* The guilds to deliver to; the enrolled ones missing are awaited.  A live guild
   whose configuration cannot be read is left out of both. *)
LoadGuilds(w) ==
    /\ Goto(w, "load", "check")
    /\ \E unread \in SUBSET live :
          /\ \/ unread = {} /\ UNCHANGED faults
             \/ "config" \in Failures /\ Faulty
          /\ claim' = [claim EXCEPT ![w].seen = live \ unread,
                                    ![w].awaited = Guilds \ live]
          /\ Find(claim[w].offer, {}, unread # {})
    /\ UNCHANGED <<worldVars, userVars, event, hold, blurred>>

(* Once for the batch: is the offer superseded, who has alerts enabled, and is
   the event too old to wait for missing guilds. *)
RecipientsOfAll(c, dropped) == c.seen \cup enabled
Recipients(c, dropped) == IF dropped THEN {} ELSE c.seen \cup enabled
CheckOffers(w) ==
    LET c == claim[w]
        dropped == Disproves(queue, PriceAt(w))
        old == event[c.offer].age > MaxWait
    IN  /\ Goto(w, "check", "deliver")
        /\ claim' = [claim EXCEPT ![w] =
                       [c EXCEPT !.dropped = dropped, !.old = old,
                                 !.todo = Recipients(c, dropped)]]
        /\ Find(c.offer, Users \ enabled, dropped \/ old)
        /\ UNCHANGED <<worldVars, userVars, event, hold, blurred, faults>>

Done(w, d) ==
    claim' = [claim EXCEPT ![w].todo = @ \ {d}, ![w].user = "none"]
Failed(w, d) ==
    claim' = [claim EXCEPT ![w].todo = @ \ {d}, ![w].user = "none", ![w].failed = TRUE]

(* maybe_post_public_deal_cards: posted, declined for a reason, or an error. *)
DeliverGuild(w, g, outcome) ==
    /\ Goto(w, "deliver", "deliver")
    /\ g \in claim[w].todo
    /\ \/ /\ outcome \in {"post", "decline"}
          /\ Done(w, g)
          /\ Find(claim[w].offer, {g}, FALSE)
          /\ UNCHANGED faults
       \/ /\ outcome = "error"
          /\ Faulty
          /\ Failed(w, g)
          /\ UNCHANGED historyVars
    /\ UNCHANGED <<worldVars, userVars, event, hold, blurred>>

(* Users come after the guilds.  A receipt, a filter, a cap or the diversity
   gate skips the user; reading one of them may raise. *)
MaySendUnreceipted(w, u) == TRUE
MaySend(w, u) == <<u, PriceAt(w)>> \notin receipts
CheckUser(w, u) ==
    /\ u \in claim[w].todo /\ claim[w].todo \subseteq Users
    /\ \/ /\ Goto(w, "deliver", "deliver")
          /\ Done(w, u)
          /\ Find(claim[w].offer, {u}, FALSE)
          /\ UNCHANGED faults
       \/ /\ Goto(w, "deliver", "send")
          /\ MaySend(w, u)
          /\ claim' = [claim EXCEPT ![w].user = u]
          /\ UNCHANGED <<historyVars, faults>>
       \/ /\ Goto(w, "deliver", "deliver")
          /\ "error" \in Failures
          /\ Faulty
          /\ Failed(w, u)
          /\ UNCHANGED historyVars
    /\ UNCHANGED <<worldVars, userVars, event, hold, blurred>>

Count(u, p) == sent' = [sent EXCEPT ![<<u, p>>] = IF @ < 2 THEN @ + 1 ELSE @]
Blur(w) == blurred' = blurred \cup {PriceAt(w)}

(* user.send: Forbidden and NotFound disable the user's alerts and are no error
   of the event. *)
SendDM(w) ==
    LET u == claim[w].user
    IN  /\ \/ /\ Goto(w, "send", "receipt")
              /\ Count(u, PriceAt(w))
              /\ UNCHANGED <<claim, enabled, historyVars, blurred, faults>>
           \/ /\ Goto(w, "send", "deliver")
              /\ Faulty
              /\ \/ "error" \in Failures /\ UNCHANGED <<sent, blurred>>
                 \/ "unsure" \in Failures /\ Count(u, PriceAt(w)) /\ Blur(w)
              /\ Failed(w, u)
              /\ UNCHANGED <<enabled, historyVars>>
           \/ /\ Goto(w, "send", "deliver")
              /\ "closed" \in Failures
              /\ Faulty
              /\ Done(w, u)
              /\ enabled' = enabled \ {u}
              /\ Find(claim[w].offer, {u}, FALSE)
              /\ UNCHANGED <<sent, blurred>>
        /\ UNCHANGED <<worldVars, receipts, event, hold>>

RecordReceipt(w) ==
    LET u == claim[w].user
        r == <<u, PriceAt(w)>>
    IN  /\ Goto(w, "receipt", "deliver")
        /\ \/ /\ receipts' = receipts \cup {r}
              /\ Done(w, u)
              /\ Find(claim[w].offer, {u}, FALSE)
              /\ UNCHANGED <<blurred, faults>>
           \/ /\ Faulty
              /\ \/ "receipt" \in Failures /\ UNCHANGED receipts /\ Blur(w)
                 \/ /\ "late" \in Failures
                    /\ receipts' = receipts \cup {r}
                    /\ UNCHANGED blurred
              /\ Failed(w, u)
              /\ UNCHANGED historyVars
        /\ UNCHANGED <<worldVars, enabled, sent, event, hold>>

-----------------------------------------------------------------------------
(* Decisions are recorded, then the event is closed, released or deferred,
   each by an update that names the claim's token. *)
OutcomeNeverOld(c) ==
    IF c.failed THEN "release"
    ELSE IF c.dropped \/ c.awaited = {} THEN "close" ELSE "defer"
OutcomeIgnoringAbsence(c) == IF c.failed THEN "release" ELSE "close"
Outcome(c) ==
    IF c.failed THEN "release"
    ELSE IF c.dropped \/ c.awaited = {} \/ c.old THEN "close" ELSE "defer"

HoldsAnyToken(w) == event[claim[w].offer].status = "open"
Holds(w) == event[claim[w].offer].owner = w

FinishPass(w) ==
    LET o == claim[w].offer
        settled == [event[o] EXCEPT
                      !.owner = "none",
                      !.status = IF Outcome(claim[w]) = "close" THEN "closed" ELSE @,
                      !.left = IF Outcome(claim[w]) = "defer" THEN RetryDelay ELSE 0]
    IN  /\ Goto(w, "deliver", "idle")
        /\ claim[w].todo = {}
        /\ event' = IF Holds(w) THEN [event EXCEPT ![o] = settled] ELSE event
        /\ Drop(w)
        /\ UNCHANGED <<worldVars, userVars, historyVars, blurred, faults>>

(* The process dies, or a database call outside the handlers of a destination
   raises: the events stay leased. *)
Abandon(w) ==
    /\ Faulty
    /\ pc[w] # "idle"
    /\ pc' = [pc EXCEPT ![w] = "idle"]
    /\ IF pc[w] = "receipt" THEN Blur(w) ELSE UNCHANGED blurred
    /\ Drop(w)
    /\ UNCHANGED <<worldVars, userVars, event, historyVars>>

(* prune_global_deal_events_bounded runs beside the passes and is two statements:
   it chooses a batch of processed events, and deletes their keys.  What was opened
   anew in between is deleted too, claimed or not.  A process that dies in between
   chooses anew.  first_seen_at is taken to be as old as the verification. *)
Prunable(o) == event[o].status = "closed" /\ event[o].age > Retention
ChoosePrunable(w) ==
    /\ \E keys \in SUBSET {o \in Offers : Prunable(o)} :
          keys # {} /\ doomed' = [doomed EXCEPT ![w] = keys]
    /\ UNCHANGED <<queue, gone, live, changes, lost, userVars, event, historyVars, pc,
                   claim, hold, blurred, faults>>

Prune(w) ==
    /\ doomed[w] # {}
    /\ doomed' = [doomed EXCEPT ![w] = {}]
    /\ event' = [o \in Offers |-> IF o \in doomed[w] THEN NoEvent ELSE event[o]]
    /\ lost' = lost \cup {o \in doomed[w] : event[o].status = "open"}
    /\ UNCHANGED <<queue, gone, live, changes, userVars, historyVars, pc, claim, hold,
                   blurred, faults>>

(* The expiry sweep forgets the closed events of a price whose post it retired;
   what made it retire the post may have changed since it was read. *)
Rearm(p) ==
    /\ \E o \in Offers : PriceOf[o] = p /\ event[o].status = "closed"
    /\ event' = [o \in Offers |->
                   IF PriceOf[o] = p /\ event[o].status = "closed"
                   THEN NoEvent ELSE event[o]]
    /\ UNCHANGED <<worldVars, userVars, historyVars, pc, claim, hold, blurred, faults>>

-----------------------------------------------------------------------------
(* The exact worker changes the row. *)
Verify(status, o) ==
    LET row == [status |-> status, offer |-> o, fresh |-> status = "markdown",
                age |-> 0]
    IN  /\ changes < MaxChanges
        /\ queue' = row
        /\ gone' = [p \in Prices |-> IF Disproves(row, p) THEN gone[p] ELSE 0]
        /\ changes' = changes + 1
        /\ UNCHANGED <<live, userVars, event, historyVars, pruneVars, pc, claim, hold,
                       blurred, faults>>

(* A guild leaves or enters the live cache. *)
CacheChange(g) ==
    /\ changes < MaxChanges
    /\ live' = IF g \in live THEN live \ {g} ELSE live \cup {g}
    /\ changes' = changes + 1
    /\ UNCHANGED <<queue, gone, userVars, event, historyVars, pruneVars, pc, claim, hold,
                   blurred, faults>>

Tick ==
    /\ \A w \in Workers : Working(w) => hold[w] < PromptWork
    /\ queue' = IF queue.fresh THEN [queue EXCEPT !.age = Older(@, MaxWait)] ELSE queue
    /\ gone' = [p \in Prices |->
                  IF Disproves(queue, p) THEN Older(gone[p], PromptWork) ELSE 0]
    /\ event' = [o \in Offers |->
                   IF event[o].status = "absent" THEN NoEvent
                   ELSE [event[o] EXCEPT !.left = Left(@), !.age = Older(@, Retention)]]
    /\ hold' = [w \in Workers |-> IF Working(w) THEN hold[w] + 1 ELSE hold[w]]
    /\ UNCHANGED <<live, userVars, historyVars, pruneVars, pc, claim, blurred, changes,
                   faults>>

Outcomes == {"post", "decline", "error"}
Pass(w) ==
    \/ Ingest(w) \/ ClaimEvent(w) \/ LoadGuilds(w) \/ CheckOffers(w)
    \/ \E g \in Guilds, outcome \in Outcomes : DeliverGuild(w, g, outcome)
    \/ \E u \in Users : CheckUser(w, u)
    \/ SendDM(w) \/ RecordReceipt(w) \/ FinishPass(w)

Next ==
    \/ \E w \in Workers : Pass(w) \/ Abandon(w) \/ ChoosePrunable(w) \/ Prune(w)
    \/ \E p \in Prices : Rearm(p)
    \/ \E status \in Statuses, o \in Offers : Verify(status, o)
    \/ \E g \in Guilds : CacheChange(g)
    \/ Tick

Spec == Init /\ [][Next]_vars

-----------------------------------------------------------------------------
(* "Durable database leases prevent overlapping bot processes from sending the
   same event concurrently": of the passes that work on an event, at most one
   claimed it less than a lease period ago, unless a prune deleted the event while
   it was open, and the lease with it. *)
Fresh(w) == Working(w) /\ hold[w] < Lease
ExclusiveFanout ==
    \A v, w \in Workers :
        v # w /\ Fresh(v) /\ Fresh(w) /\ claim[v].offer = claim[w].offer
            => claim[v].offer \in lost

(* The delivery receipts make every retry safe: over all passes, retries,
   deferrals and re-armed events, a user is sent the price of an item twice only
   after a message whose receipt was lost (an error or a crash between the send
   and the receipt) or after two passes worked on the price at the same time. *)
RepeatsExplained ==
    \A u \in Users, p \in Prices : sent[<<u, p>>] > 1 => p \in blurred

(* "Never announce the old price as current": an offer is announced only if
   the queue row disproved it, if at all, after the pass had claimed it. *)
Announces(w) ==
    \/ \E g \in Guilds : DeliverGuild(w, g, "post")
    \/ SendDM(w) /\ sent' # sent
StaleAtMostOnePass ==
    [][\A w \in Workers : Announces(w) => gone[PriceAt(w)] <= hold[w]]_vars

(* The events are an outbox: an event is closed only when every server and
   every user was decided while it was open, over as many passes as it took,
   or when a pass saw its offer withdrawn or too old, or could not read the
   configuration of a server: such a server never hears of the offer.  An open
   event disappears only if a process chose it for pruning before it was opened. *)
Doomed == UNION {doomed[w] : w \in Workers}
Abstract ==
    INSTANCE Outbox WITH
        Events <- Offers,
        status <- [o \in Offers |-> event[o].status],
        doomed <- Doomed
ImplementsOutbox == Abstract!Spec

(* Every event is closed, or deleted, in the end, if passes end up keeping to their leases:
   faults are retried, and nobody waits for a missing server for ever. *)
Fairness ==
    /\ \A w \in Workers : WF_vars(Pass(w))
    /\ WF_vars(Tick)
FairSpec == Spec /\ Fairness
PassesInLease == \A w \in Workers : Working(w) => Fresh(w)
EventsClose ==
    \A o \in Offers :
        <>[]PassesInLease => (event[o].status = "open" ~> event[o].status # "open")
=============================================================================
