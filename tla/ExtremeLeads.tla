------------------------------ MODULE ExtremeLeads ------------------------------
(* The state of services/walmart_extreme_price_fanout.py and what is promised of
   it; ExtremeFanout has the steps.

   A lead is the current verification of an item, [item, at]; leads are ordered
   by time and then by item, as (verified_at, item_id) is. *)
EXTENDS Naturals, FiniteSets

CONSTANTS
    Workers,        \* processes
    Guilds,
    Items,          \* item ids, numbers; 0 stands for '', which is before all
    Fresh,          \* FRESHNESS_MINUTES, in ticks
    Batch,          \* BATCH_LIMIT
    MaxReplay,      \* MAX_REPLAY_PER_CYCLE
    MaxTime,        \* bound on the clock
    MaxChecks,      \* bound on verifications
    MaxChanges,     \* bound on settings commands
    MaxPasses       \* bound on passes

Parameters ==
    /\ Items \subseteq Nat \ {0} /\ IsFiniteSet(Items)
    /\ {Batch, MaxReplay, MaxTime, MaxChecks} \subseteq Nat \ {0}
    /\ {Fresh, MaxChanges, MaxPasses} \subseteq Nat
ASSUME ExtremeAssumption == Parameters

VARIABLES
    now, checks, changes, passes,
    rows,      \* item -> its row of the verification queue
    opted,     \* guilds that opted in
    cursor,    \* the shared cursor, a lead
    tickets,   \* the pending table: guild, item, at
    places, pass,  \* each process's place in a pass, and what it holds
    answered,  \* deliveries the sender decided (posted, duplicate or skipped),
               \* and those no pass owes
    moved,     \* process -> items whose row changed since it looked at them
    sent       \* process -> item -> time of the proof it last delivered
laneVars == <<now, checks, changes, passes, rows, opted, cursor, tickets, places, pass,
              answered, moved, sent>>

Times == 0..MaxTime
Lead == [item : Items \cup {0}, at : Times]
NoLead == [item |-> 0, at |-> 0]
Snapshots == [item : Items, at : Times, eligible : BOOLEAN]
Delivery == [guild : Guilds, item : Items, at : Times]
To(g, l) == [guild |-> g, item |-> l.item, at |-> l.at]

(* ORDER BY verified_at, item_id, and a LIMIT. *)
After(l, m) == l.at > m.at \/ (l.at = m.at /\ l.item > m.item)
UpTo(n, s) == IsFiniteSet(s) /\ Cardinality(s) <= n

(* The row of an item holds its last verification, and a status: "lead" is one of
   the three that the lane reads, with a snapshot that makes a card; "plain", one
   of the three without a card; "none", any other, which the lane does not read. *)
RowStates == {"lead", "plain", "none"}
Proven(d) == rows[d.item] = [at |-> d.at, status |-> "lead"]
Current(i) == [item |-> i, at |-> rows[i].at]
Cutoff == IF now > Fresh THEN now - Fresh ELSE 0

(* A pass has read leads that it has not begun, and tickets; lead and ticket
   are the ones at hand. *)
Passes == [copy : SUBSET Guilds, cut : Times, next : Lead, moves : BOOLEAN,
           leads : SUBSET Snapshots, lead : SUBSET Snapshots,
           tickets : SUBSET Delivery, ticket : SUBSET Delivery,
           read : BOOLEAN, live : SUBSET Guilds, todo : SUBSET Guilds]

LaneTypeOK ==
    /\ now \in Times /\ checks \in 0..MaxChecks
    /\ changes \in 0..MaxChanges /\ passes \in 0..MaxPasses
    /\ rows \in [Items -> [at : Times, status : RowStates]]
    /\ opted \subseteq Guilds
    /\ cursor \in Lead
    /\ tickets \subseteq Delivery
    /\ places \in [Workers -> {"idle", "state", "prune", "check", "replay", "clear",
                               "select", "row", "post", "save"}]
    /\ pass \in [Workers -> Passes]
    /\ \A w \in Workers : UpTo(Batch, pass[w].leads) /\ UpTo(MaxReplay, pass[w].tickets)
    /\ answered \subseteq Delivery
    /\ moved \in [Workers -> SUBSET Items]
    /\ sent \in [Workers -> [Items -> Times]]

(* "Persist missing recipients before advancing the global cursor": once the
   cursor has passed a current, fresh lead, every server that wants it has a
   decision of the sender or a ticket, unless the lead was written behind the
   cursor or a pass under way, the server joined after a pass had read the
   settings, or it opted out in between. *)
PassedIsSettledOrPending ==
    \A g \in opted, i \in Items :
        LET d == To(g, Current(i)) IN
        rows[i].status = "lead" /\ rows[i].at >= Cutoff /\ ~After(Current(i), cursor)
            => d \in answered \/ d \in tickets

(* "Never replay on expired or changed exact-price evidence", "never send stale
   proof".  The code looks at a proof and sends it some awaits later, so what it
   sends was the item's proof when this pass looked: a ticket's as it is taken up,
   a lead's as the batch is read.  The row may have been withdrawn or verified
   anew since, and even then no process sends an item's older proof after a newer
   one that it delivered, over all its passes, its tickets and its restarts.  What
   it tried to send counts as sent. *)
Sent(w) ==
    IF places[w] = "replay" /\ places'[w] # "replay" THEN pass[w].ticket
    ELSE IF places[w] = "post" /\ pass'[w].todo # pass[w].todo THEN pass[w].lead
    ELSE {}
SentInOrder ==
    [][\A w \in Workers : \A d \in Sent(w) :
          /\ Proven(d) \/ d.item \in moved[w]
          /\ sent[w][d.item] <= d.at]_laneVars
=============================================================================
