--------------------------- MODULE RetailerEvents ---------------------------
(***************************************************************************)
(* The verified events of HP and Target on their way to servers and users     *)
(* (services/verified_retailer_events.py, verified_retailer_event_fanout.py). *)
(*                                                                         *)
(* A watcher publishes an event once per key.  A pass selects the oldest       *)
(* claimable events, leases those still claimable, loads the servers and the   *)
(* subscribers once, and takes the events in turn: every server, then every    *)
(* subscriber, then the event is processed, or released with a growing delay   *)
(* if a destination failed, or given up after MaxAttempts claims.  A lock      *)
(* serialises the passes of a process, so a worker is a process.              *)
(*                                                                         *)
(* What a subscriber's filters and a server's post decide is a choice.  All    *)
(* messages fall on one day.                                                 *)
(***************************************************************************)
EXTENDS Integers, Sequences, FiniteSets

CONSTANTS
    Workers,      \* bot processes
    Events,       \* event keys
    Guilds,       \* enrolled servers
    Users,        \* users with personal alerts
    Batch,        \* event_limit of a pass
    Cap,          \* max_alerts_per_day
    Lease,        \* EVENT_LEASE_SECONDS
    RetryBase,    \* EVENT_RETRY_BASE_SECONDS
    RetryMax,     \* EVENT_RETRY_MAX_SECONDS
    MaxAttempts,  \* EVENT_MAX_ATTEMPTS
    MaxChanges,   \* bound on publications and changes of preferences
    MaxCrashes    \* bound on passes that end in the middle

Destinations == Guilds \cup Users

ASSUME SetAssumption ==
    /\ Guilds \cap Users = {} /\ "none" \notin Workers /\ "none" \notin Users
    /\ IsFiniteSet(Events)
ASSUME NumberAssumption ==
    /\ {Cap, RetryBase, RetryMax, MaxChanges, MaxCrashes} \subseteq Nat
    /\ {Batch, Lease, MaxAttempts} \subseteq Nat \ {0}

VARIABLES
    event,     \* the row of each event
    line,      \* the stored events in the order of first_seen_at
    enabled,   \* users whose alerts are enabled
    receipts,  \* delivery receipts
    sent,      \* messages each user was sent for each event, up to 2
    blurred,   \* users with a message not receipted, or two processes in their
               \* delivery at the same time (history)
    decided,   \* destinations decided since the event was published, or failed
               \* in its last attempt (history)
    excused,   \* a server was missing from a pass, or the event is unreadable
               \* (history)
    pc, claim, \* where each worker is and what it carries
    changes, crashes

vars == <<event, line, enabled, receipts, sent, blurred, decided, excused, pc,
          claim, changes, crashes>>
rowVars == <<event, line>>
userVars == <<enabled, receipts, sent, blurred>>
historyVars == <<decided, excused>>

Waits == {n \in Int : n <= Lease \/ n <= RetryMax}
Rows == [status : {"absent", "open", "closed"}, owner : Workers \cup {"none"},
         left : Waits, attempts : 0 .. MaxAttempts, readable : BOOLEAN]
NoRow == [status |-> "absent", owner |-> "none", left |-> 0, attempts |-> 0,
          readable |-> TRUE]
Claims == [selected : Seq(Events), batch : Seq(Events), seen : SUBSET Destinations,
           todo : SUBSET Destinations, user : Users \cup {"none"}, failed : BOOLEAN]
NoClaim == [selected |-> <<>>, batch |-> <<>>, seen |-> {}, todo |-> {}, user |-> "none",
            failed |-> FALSE]

TypeOK ==
    /\ event \in [Events -> Rows]
    /\ line \in Seq(Events)
    /\ enabled \in SUBSET Users
    /\ receipts \in SUBSET (Users \X Events)
    /\ sent \in [Users \X Events -> 0 .. 2]
    /\ blurred \in SUBSET Users
    /\ decided \in [Events -> SUBSET Destinations]
    /\ excused \in [Events -> BOOLEAN]
    /\ pc \in [Workers -> {"idle", "lease", "load", "turn", "deliver", "send",
                           "receipt"}]
    /\ claim \in [Workers -> Claims]
    /\ changes \in 0 .. MaxChanges
    /\ crashes \in 0 .. MaxCrashes

Init ==
    /\ event = [e \in Events |-> NoRow]
    /\ line = <<>>
    /\ enabled = Users
    /\ receipts = {}
    /\ sent = [d \in Users \X Events |-> 0]
    /\ blurred = {}
    /\ decided = [e \in Events |-> {}]
    /\ excused = [e \in Events |-> FALSE]
    /\ pc = [w \in Workers |-> "idle"]
    /\ claim = [w \in Workers |-> NoClaim]
    /\ changes = 0
    /\ crashes = 0

-----------------------------------------------------------------------------
Goto(w, from, to) == pc[w] = from /\ pc' = [pc EXCEPT ![w] = to]
Change == changes < MaxChanges /\ changes' = changes + 1
Smaller(m, n) == IF m < n THEN m ELSE n
InLine(e) == e \in {line[i] : i \in DOMAIN line}

(* A key is stored once; a second publication is ignored.  Another version of
   the program may not be able to read the stored candidate. *)
Publish(e) ==
    /\ ~InLine(e) /\ Change
    /\ \E readable \in BOOLEAN :
          /\ event' = [event EXCEPT ![e] =
                         [NoRow EXCEPT !.status = "open", !.readable = readable]]
          /\ excused' = [excused EXCEPT ![e] = ~readable]
    /\ line' = Append(line, e)
    /\ decided' = [decided EXCEPT ![e] = {}]
    /\ UNCHANGED <<userVars, pc, claim, crashes>>

(* Processed events older than EVENT_RETENTION_DAYS are deleted; at what age is
   left open. *)
RemovedAt(s, k) == [i \in 1 .. Len(s) - 1 |-> IF i < k THEN s[i] ELSE s[i + 1]]
Prune(e) ==
    /\ event[e].status = "closed"
    /\ event' = [event EXCEPT ![e] = NoRow]
    /\ \E k \in DOMAIN line : line[k] = e /\ line' = RemovedAt(line, k)
    /\ UNCHANGED <<userVars, historyVars, pc, claim, changes, crashes>>

Claimable(e) == event[e].status = "open" /\ event[e].left <= 0

(* The first Batch rows of the line that are due, in its order. *)
SelectEvents(w) ==
    LET due == {i \in DOMAIN line : Claimable(line[i])}
        places == 1 .. Smaller(Batch, Cardinality(due))
    IN  /\ Goto(w, "idle", "lease")
        /\ due # {}
        /\ \E pick \in [places -> due] :
              /\ \A j, k \in places : j < k => pick[j] < pick[k]
              /\ \A i \in due : \/ \E j \in places : pick[j] = i
                                \/ \A j \in places : pick[j] < i
              /\ claim' = [claim EXCEPT ![w].selected = [j \in places |-> line[pick[j]]]]
        /\ UNCHANGED <<rowVars, userVars, historyVars, changes, crashes>>

(* The update repeats the condition of the selection, for another process may
   have claimed in between.  An unreadable event is discarded. *)
Granted(e) == Claimable(e)
LeaseEvent(w) ==
    LET e == Head(claim[w].selected)
        rest == Tail(claim[w].selected)
        batch == IF Granted(e) /\ event[e].readable
                 THEN Append(claim[w].batch, e) ELSE claim[w].batch
    IN  /\ Goto(w, "lease", IF rest # <<>> THEN "lease"
                            ELSE IF batch # <<>> THEN "load" ELSE "idle")
        /\ claim' = [claim EXCEPT ![w].selected = rest, ![w].batch = batch]
        /\ event' = IF ~Granted(e) THEN event
                    ELSE IF event[e].readable
                    THEN [event EXCEPT ![e].owner = w, ![e].left = Lease,
                                       ![e].attempts = Smaller(@ + 1, MaxAttempts)]
                    ELSE [event EXCEPT ![e].status = "closed", ![e].owner = "none",
                                       ![e].left = 0]
        /\ UNCHANGED <<line, userVars, historyVars, changes, crashes>>

-----------------------------------------------------------------------------
Current(w) == Head(claim[w].batch)
InBatch(w, e) == \E i \in DOMAIN claim[w].batch : claim[w].batch[i] = e
Holds(w, e) == event[e].owner = w

Find(w, found) ==
    LET e == Current(w)
    IN  decided' = IF event[e].status = "open"
                   THEN [decided EXCEPT ![e] = @ \cup found] ELSE decided

(* Once for the batch. *)
LoadDestinations(w) ==
    /\ Goto(w, "load", "turn")
    /\ \E servers \in SUBSET Guilds :
          claim' = [claim EXCEPT ![w].seen = servers \cup enabled]
    /\ UNCHANGED <<rowVars, userVars, historyVars, changes, crashes>>

(* The next event has its turn.  A server missing from Discord's cache, or whose
   settings could not be read, is not waited for. *)
StartEvent(w) ==
    LET e == Current(w)
        missing == ~(Guilds \subseteq claim[w].seen)
    IN  /\ Goto(w, "turn", "deliver")
        /\ claim' = [claim EXCEPT ![w].todo = claim[w].seen, ![w].failed = FALSE]
        /\ Find(w, Users \ claim[w].seen)
        /\ excused' = IF event[e].status = "open"
                      THEN [excused EXCEPT ![e] = @ \/ missing] ELSE excused
        /\ UNCHANGED <<rowVars, userVars, changes, crashes>>

Done(w, d) ==
    /\ claim' = [claim EXCEPT ![w].todo = @ \ {d}, ![w].user = "none"]
    /\ Find(w, {d})

(* A failed destination is given up if this is the event's last attempt. *)
LastAttempt(w) == /\ Holds(w, Current(w))
                  /\ event[Current(w)].attempts = MaxAttempts
Failed(w, d) ==
    /\ claim' = [claim EXCEPT ![w].todo = @ \ {d}, ![w].user = "none",
                              ![w].failed = TRUE]
    /\ IF LastAttempt(w) THEN Find(w, {d}) ELSE UNCHANGED decided

(* The retailer's post function: posted, declined for a reason, or an error. *)
DeliverGuild(w, g) ==
    /\ Goto(w, "deliver", "deliver")
    /\ g \in claim[w].todo
    /\ Done(w, g) \/ Failed(w, g)
    /\ UNCHANGED <<rowVars, userVars, excused, changes, crashes>>

(* Under the user's lock: the receipt, then the daily cap, then the message.
   Filters and the diversity gate may skip the user as well. *)
Receipts(u) == {e \in Events : <<u, e>> \in receipts}
MaySendOthersOnly(u, e) == Cardinality(Receipts(u) \ {e}) < Cap
MaySendUncapped(u, e) == <<u, e>> \notin receipts
MaySend(u, e) == <<u, e>> \notin receipts /\ Cardinality(Receipts(u)) < Cap
InDelivery(u) == \E v \in Workers : claim[v].user = u
CheckUser(w, u) ==
    /\ u \in claim[w].todo /\ claim[w].todo \subseteq Users
    /\ \/ /\ Goto(w, "deliver", "send")
          /\ MaySend(u, Current(w))
          /\ claim' = [claim EXCEPT ![w].user = u]
          /\ blurred' = IF InDelivery(u) THEN blurred \cup {u} ELSE blurred
          /\ UNCHANGED decided
       \/ /\ Goto(w, "deliver", "deliver")
          /\ Done(w, u) \/ Failed(w, u)
          /\ UNCHANGED blurred
    /\ UNCHANGED <<rowVars, enabled, receipts, sent, excused, changes, crashes>>

(* Forbidden and NotFound disable the user's alerts and are no error; any other
   exception may come before or after Discord took the message. *)
Blur(u) == blurred' = blurred \cup {u}
Count(u, e) == sent' = [sent EXCEPT ![<<u, e>>] = IF @ < 2 THEN @ + 1 ELSE @]
SendDM(w) ==
    LET u == claim[w].user
        e == Current(w)
    IN  /\ \/ /\ Goto(w, "send", "receipt")
              /\ Count(u, e)
              /\ UNCHANGED <<claim, enabled, blurred, decided>>
           \/ /\ Goto(w, "send", "deliver")
              /\ Failed(w, u)
              /\ UNCHANGED <<sent, blurred>> \/ (Count(u, e) /\ Blur(u))
              /\ UNCHANGED enabled
           \/ /\ Goto(w, "send", "deliver")
              /\ Done(w, u)
              /\ enabled' = enabled \ {u}
              /\ UNCHANGED <<sent, blurred>>
        /\ UNCHANGED <<rowVars, receipts, excused, changes, crashes>>

(* The receipt is written, or not, or written and followed by an exception. *)
RecordReceipt(w) ==
    LET u == claim[w].user
        r == <<u, Current(w)>>
    IN  /\ Goto(w, "receipt", "deliver")
        /\ \/ receipts' = receipts \cup {r} /\ Done(w, u) /\ UNCHANGED blurred
           \/ receipts' = receipts \cup {r} /\ Failed(w, u) /\ UNCHANGED blurred
           \/ UNCHANGED receipts /\ Failed(w, u) /\ Blur(u)
        /\ UNCHANGED <<rowVars, enabled, sent, excused, changes, crashes>>

-----------------------------------------------------------------------------
(* 60 s, doubled with every attempt, at most six hours. *)
DelayUncapped(attempts) == RetryBase * 2 ^ attempts
Delay(attempts) == Smaller(RetryMax, RetryBase * 2 ^ (attempts - 1))

OutcomeNeverDead(w) == IF claim[w].failed THEN "release" ELSE "close"
OutcomeIgnoringErrors(w) == "close"
Outcome(w) ==
    IF claim[w].failed /\ event[Current(w)].attempts < MaxAttempts
    THEN "release" ELSE "close"

(* The event is processed, released or given up, if its token is still this
   pass's. *)
FinishEvent(w) ==
    LET e == Current(w)
        rest == Tail(claim[w].batch)
        settled == [event[e] EXCEPT
                      !.owner = "none",
                      !.status = IF Outcome(w) = "close" THEN "closed" ELSE @,
                      !.left = IF Outcome(w) = "release" THEN Delay(event[e].attempts)
                               ELSE 0]
    IN  /\ claim[w].todo = {}
        /\ Goto(w, "deliver", IF rest = <<>> THEN "idle" ELSE "turn")
        /\ event' = IF Holds(w, e) THEN [event EXCEPT ![e] = settled] ELSE event
        /\ claim' = IF rest = <<>> THEN [claim EXCEPT ![w] = NoClaim]
                    ELSE [claim EXCEPT ![w].batch = rest]
        /\ UNCHANGED <<line, userVars, historyVars, changes, crashes>>

(* The process dies, or a database call outside the handlers of a destination
   raises: what is left of the batch stays leased. *)
Abandon(w) ==
    /\ crashes < MaxCrashes
    /\ pc[w] # "idle"
    /\ pc' = [pc EXCEPT ![w] = "idle"]
    /\ claim' = [claim EXCEPT ![w] = NoClaim]
    /\ crashes' = crashes + 1
    /\ IF pc[w] = "receipt" THEN Blur(claim[w].user) ELSE UNCHANGED blurred
    /\ UNCHANGED <<rowVars, enabled, receipts, sent, historyVars, changes>>

(* A user enables or disables personal alerts. *)
SetAlerts(u) ==
    /\ Change
    /\ enabled' = IF u \in enabled THEN enabled \ {u} ELSE enabled \cup {u}
    /\ UNCHANGED <<rowVars, receipts, sent, blurred, historyVars, pc, claim, crashes>>

Tick ==
    /\ event' = [e \in Events |->
                   IF event[e].left > 0 THEN [event[e] EXCEPT !.left = @ - 1]
                   ELSE event[e]]
    /\ UNCHANGED <<line, userVars, historyVars, pc, claim, changes, crashes>>

Pass(w) ==
    \/ SelectEvents(w) \/ LeaseEvent(w) \/ LoadDestinations(w) \/ StartEvent(w)
    \/ \E g \in Guilds : DeliverGuild(w, g)
    \/ \E u \in Users : CheckUser(w, u)
    \/ SendDM(w) \/ RecordReceipt(w) \/ FinishEvent(w)

Next ==
    \/ \E w \in Workers : Pass(w) \/ Abandon(w)
    \/ \E e \in Events : Publish(e) \/ Prune(e)
    \/ \E u \in Users : SetAlerts(u)
    \/ Tick

Spec == Init /\ [][Next]_vars

-----------------------------------------------------------------------------
(* "Successful destinations remain protected by their existing ... duplicate
   receipts on retries": a user is sent an event twice, over all its attempts
   and publications, only after a message whose receipt was lost, or after two
   processes were in the user's delivery at the same time. *)
RepeatsExplained ==
    \A u \in Users, e \in Events : sent[<<u, e>>] > 1 => u \in blurred

(* The same failures are the only ways to exceed a user's daily cap, although
   the cap is read before the message is sent and counted after. *)
CapExplained ==
    \A u \in Users :
        Cardinality({e \in Events : sent[<<u, e>>] > 0}) > Cap => u \in blurred

(* The events are an outbox: an event ends only when every destination was
   decided, or failed in the last attempt, or a server was missing from a pass,
   or the event was unreadable.  So one destination that fails for ever takes
   the event from no other. *)
Abstract ==
    INSTANCE Outbox WITH status <- [e \in Events |-> event[e].status], doomed <- {}
ImplementsOutbox == Abstract!Spec

(* Every event ends, whatever fails for ever ("become terminal after
   EVENT_MAX_ATTEMPTS"), if passes end up keeping their leases. *)
Fairness ==
    /\ \A w \in Workers : WF_vars(Pass(w))
    /\ WF_vars(Tick)
FairSpec == Spec /\ Fairness
KeepLeases == \A w \in Workers, e \in Events :
    pc[w] \notin {"idle", "lease"} /\ InBatch(w, e) => Holds(w, e)
EventsEnd ==
    \A e \in Events :
        <>[]KeepLeases => (event[e].status = "open" ~> event[e].status # "open")
=============================================================================
