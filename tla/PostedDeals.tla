----------------------------- MODULE PostedDeals -----------------------------
(***************************************************************************)
(* The life of one deal -- a Walmart item at one price -- in one server:       *)
(* verified, announced, ended, its message marked as expired, and announced    *)
(* again if it returns (services/walmart_posted_deal_expiry.py, with the       *)
(* tables it shares with the fanout, the posting protocol, the owner's         *)
(* override and the command that clears the posting memory).                  *)
(*                                                                         *)
(* The exact worker's proof may lag behind Walmart.  A sweep reads which        *)
(* messages are disproved, edits them in Discord one by one, and commits what   *)
(* it writes at the end, unless another coroutine's commit on the shared        *)
(* connection takes it earlier.  Sweeps of overlapping processes share nothing  *)
(* but the database.                                                         *)
(*                                                                         *)
(* The posting protocol is PublicPost's, here without its faults; everything    *)
(* happens within the week that a message is tracked, and before a guard        *)
(* expires.                                                                  *)
(***************************************************************************)
EXTENDS Integers, FiniteSets

CONSTANTS
    MaxSent,    \* bound on messages sent
    Sweepers,   \* processes that sweep
    MaxEdits,   \* MAX_EDIT_ATTEMPTS
    MaxFlips,   \* bound on how often the deal ends or returns
    MaxMishaps, \* bound on crashes, lost answers, overlaps, commands
    Mishaps     \* the mishaps that may happen

(* "torn": a sweep dies or its commit is lost after an edit; "unsure": an edit
   raises although Discord made it; "abort": a delivery stops between the
   message and its last write; "deleted": a moderator deletes a message;
   "clear": the command that clears the posting memory; "overlap": a sweep
   begins while another process sweeps; "owner": the owner's override. *)
Kinds == {"torn", "unsure", "abort", "deleted", "clear", "overlap", "owner"}

ASSUME BoundAssumption ==
    /\ {MaxSent, MaxFlips, MaxMishaps} \subseteq Nat /\ MaxEdits \in Nat \ {0}
    /\ Mishaps \subseteq Kinds

Messages == 1 .. MaxSent

VARIABLES
    world,    \* TRUE while Walmart sells the item at the price
    proof,    \* TRUE if the queue row was last verified at the price
    fresh,    \* TRUE if a verification at the price is not ingested
    event,    \* the markdown event of the price
    row,      \* the server's row in guild_public_deal_posts
    alert,    \* TRUE if alert_dedupe holds the price
    override, \* TRUE if the owner's one-time override is reserved or used
    shown,    \* what each message looks like
    track,    \* its row in walmart_posted_deal_messages
    stale,    \* messages recorded before the last verification
    poster,   \* the deliveries of the fanout and of the owner's override
    sweep,    \* what each sweep found and did
    ended,    \* messages whose deal ended when they were sent or since (history)
    excused,  \* mishaps, and events closed as superseded (history)
    flips, mishaps

vars == <<world, proof, fresh, event, row, alert, override, shown, track, stale, poster,
          sweep, ended, excused, flips, mishaps>>
worldVars == <<world, flips>>
proofVars == <<proof, fresh>>
guards == <<row, alert, override>>
posts == <<shown, track, stale>>
historyVars == <<ended, excused, mishaps>>

Posters == {"fanout", "owner"}
Stages == {"idle", "send", "posted", "alert", "track"}
Writes == {"none", "expired", "gone", "active"}
NoSweep == [todo |-> {}, tries |-> [m \in Messages |-> 0],
            write |-> [m \in Messages |-> "none"], rearm |-> FALSE]

TypeOK ==
    /\ world \in BOOLEAN /\ proof \in BOOLEAN /\ fresh \in BOOLEAN
    /\ event \in {"absent", "open", "closed"}
    /\ row \in {"none", "sending", "posted"}
    /\ alert \in BOOLEAN /\ override \in BOOLEAN
    /\ shown \in [Messages -> {"unsent", "live", "expired", "deleted"}]
    /\ track \in [Messages -> [state : {"none", "active", "expired", "gone"},
                               edits : 0 .. MaxEdits]]
    /\ stale \in SUBSET Messages
    /\ poster \in [Posters -> [stage : Stages, msg : Messages \cup {0}]]
    /\ sweep \in [Sweepers -> [todo : SUBSET Messages,
                               tries : [Messages -> 0 .. MaxEdits],
                               write : [Messages -> Writes], rearm : BOOLEAN]]
    /\ ended \in SUBSET Messages
    /\ excused \in SUBSET (Kinds \cup {"superseded"})
    /\ flips \in 0 .. MaxFlips /\ mishaps \in 0 .. MaxMishaps

Init ==
    /\ world = TRUE /\ proof = FALSE /\ fresh = FALSE
    /\ event = "absent"
    /\ row = "none" /\ alert = FALSE /\ override = FALSE
    /\ shown = [m \in Messages |-> "unsent"]
    /\ track = [m \in Messages |-> [state |-> "none", edits |-> 0]]
    /\ stale = {}
    /\ poster = [p \in Posters |-> [stage |-> "idle", msg |-> 0]]
    /\ sweep = [s \in Sweepers |-> NoSweep]
    /\ ended = {}
    /\ excused = {}
    /\ flips = 0 /\ mishaps = 0

-----------------------------------------------------------------------------
Live == {m \in Messages : shown[m] = "live"}
Mishap(kind) ==
    /\ kind \in Mishaps /\ mishaps < MaxMishaps
    /\ mishaps' = mishaps + 1
    /\ excused' = excused \cup {kind}

(* Walmart ends the deal or brings it back. *)
Flip ==
    /\ flips < MaxFlips
    /\ flips' = flips + 1
    /\ world' = ~world
    /\ ended' = IF world THEN ended \cup {m \in Messages : shown[m] # "unsent"} ELSE ended
    /\ UNCHANGED <<proofVars, event, guards, posts, poster, sweep, excused, mishaps>>

(* The exact worker verifies the item: newer than every recorded message. *)
Verify ==
    /\ proof' = world
    /\ fresh' = world
    /\ stale' = {m \in Messages : track[m].state # "none"}
    /\ UNCHANGED <<worldVars, event, guards, shown, track, poster, sweep, historyVars>>

(* A verified markdown becomes an event unless its key exists. *)
Ingest ==
    /\ fresh
    /\ fresh' = FALSE
    /\ event' = IF event = "absent" THEN "open" ELSE event
    /\ UNCHANGED <<worldVars, proof, guards, posts, poster, sweep, historyVars>>

-----------------------------------------------------------------------------
Stage(p, from, to) ==
    /\ poster[p].stage = from
    /\ poster' = [poster EXCEPT ![p].stage = to]
Rest(p) == poster' = [poster EXCEPT ![p] = [stage |-> "idle", msg |-> 0]]

(* A pass of the fanout delivers the event if the queue still proves it and
   the alert and the row do not suppress it, else it closes it. *)
AllowedByAlert == ~alert
Allowed == ~alert /\ row = "none"
FanoutStarts ==
    /\ event = "open"
    /\ \/ /\ proof /\ Allowed
          /\ Stage("fanout", "idle", "send")
          /\ row' = "sending"
          /\ UNCHANGED <<event, excused>>
       \/ /\ ~proof \/ ~Allowed
          /\ poster["fanout"].stage = "idle"
          /\ event' = "closed"
          /\ excused' = IF proof THEN excused ELSE excused \cup {"superseded"}
          /\ UNCHANGED <<poster, row>>
    /\ UNCHANGED <<worldVars, proofVars, alert, override, posts, sweep, ended, mishaps>>

(* The owner posts an event that the server's rules declined, once. *)
OwnerStarts ==
    /\ Mishap("owner")
    /\ event = "closed" /\ Allowed /\ ~override
    /\ Stage("owner", "idle", "send")
    /\ row' = "sending" /\ override' = TRUE
    /\ UNCHANGED <<worldVars, proofVars, event, alert, posts, sweep, ended>>

(* channel.send; a failure releases the row if it is still 'sending', and the
   fanout will try again. *)
SendMessage(p) ==
    /\ poster[p].stage = "send"
    /\ \E m \in Messages :
          /\ shown[m] = "unsent" /\ \A k \in 1 .. m - 1 : shown[k] # "unsent"
          /\ shown' = [shown EXCEPT ![m] = "live"]
          /\ poster' = [poster EXCEPT ![p] = [stage |-> "posted", msg |-> m]]
          /\ ended' = IF world THEN ended ELSE ended \cup {m}
    /\ UNCHANGED <<worldVars, proofVars, event, guards, track, stale, sweep, excused,
                   mishaps>>
SendFails(p) ==
    /\ poster[p].stage = "send"
    /\ Rest(p)
    /\ row' = IF row = "sending" THEN "none" ELSE row
    /\ override' = (p # "owner" /\ override)
    /\ UNCHANGED <<worldVars, proofVars, event, alert, posts, sweep, historyVars>>

(* mark_public_deal_posted updates the row whatever its status; the override
   marks its own key's row here, and upserts the deal's row after the alert. *)
MarkPosted(p) ==
    /\ Stage(p, "posted", "alert")
    /\ row' = IF p = "owner" \/ row = "none" THEN row ELSE "posted"
    /\ UNCHANGED <<worldVars, proofVars, event, alert, override, posts, sweep, historyVars>>
RecordAlert(p) ==
    /\ Stage(p, "alert", "track")
    /\ alert' = TRUE
    /\ UNCHANGED <<worldVars, proofVars, event, row, override, posts, sweep, historyVars>>

(* The fanout records the message and closes the event; the override's message
   is not recorded. *)
TrackFanout ==
    /\ poster["fanout"].stage = "track"
    /\ track' = [track EXCEPT ![poster["fanout"].msg] = [state |-> "active", edits |-> 0]]
    /\ event' = IF event = "open" THEN "closed" ELSE event
    /\ Rest("fanout")
    /\ UNCHANGED <<worldVars, proofVars, guards, shown, stale, sweep, historyVars>>
OwnerUpsert ==
    /\ poster["owner"].stage = "track"
    /\ row' = "posted"
    /\ Rest("owner")
    /\ UNCHANGED <<worldVars, proofVars, event, alert, override, posts, sweep, historyVars>>

(* A delivery dies before the message, or between two of its writes. *)
AbortDelivery(p) ==
    /\ Mishap("abort")
    /\ poster[p].stage # "idle"
    /\ Rest(p)
    /\ UNCHANGED <<worldVars, proofVars, event, guards, posts, sweep, ended>>

-----------------------------------------------------------------------------
Active == {m \in Messages : track[m].state = "active"}

(* The queue disproves a message if it was verified after the message; a lookup
   of Walmart disproves any message.  Rows are read here and written later. *)
QueueEvidenceAnyAge(m) == ~proof
QueueEvidence(m) == ~proof /\ m \in stale
BeginSweep(s) ==
    /\ sweep[s] = NoSweep
    /\ \E looked \in SUBSET Active :
          LET found == {m \in Active : QueueEvidence(m)}
                          \cup (IF world THEN {} ELSE looked)
          IN  /\ found # {}
              /\ sweep' = [sweep EXCEPT ![s].todo = found,
                             ![s].tries = [m \in Messages |->
                                             IF m \in found THEN track[m].edits ELSE 0]]
    /\ IF \E t \in Sweepers : sweep[t] # NoSweep
       THEN Mishap("overlap") ELSE UNCHANGED <<excused, mishaps>>
    /\ UNCHANGED <<worldVars, proofVars, event, guards, posts, poster, ended>>

(* _retire_message: edited, gone (deleted, or no permission) or failed; the
   row's new state is a statement that is not committed yet. *)
ExhaustedLate(s, m) == sweep[s].tries[m] + 1 > MaxEdits
Exhausted(s, m) == sweep[s].tries[m] + 1 >= MaxEdits
Note(s, m, state) ==
    sweep' = [sweep EXCEPT ![s].todo = @ \ {m}, ![s].write[m] = state]
RetireMessage(s, m) ==
    /\ m \in sweep[s].todo
    /\ \/ /\ shown[m] \in {"live", "expired"}
          /\ shown' = [shown EXCEPT ![m] = "expired"]
          /\ Note(s, m, "expired")
          /\ UNCHANGED <<excused, mishaps>>
       \/ /\ Note(s, m, "gone")
          /\ UNCHANGED <<shown, excused, mishaps>>
       \/ /\ Note(s, m, IF Exhausted(s, m) THEN "gone" ELSE "active")
          /\ \/ UNCHANGED <<shown, excused, mishaps>>
             \/ /\ shown[m] = "live"
                /\ shown' = [shown EXCEPT ![m] = "expired"]
                /\ Mishap("unsure")
    /\ UNCHANGED <<worldVars, proofVars, event, guards, track, stale, poster, ended>>

(* The statements so far reach the database: an expired message takes both of
   the server's guards with it, whatever they guard by now. *)
Written(s) == {m \in Messages : sweep[s].write[m] # "none"}
Retired(s) == {m \in Messages : sweep[s].write[m] = "expired"}
ReleasedRowOnly(s) == /\ row' = IF Retired(s) = {} THEN row ELSE "none"
                      /\ UNCHANGED alert
Released(s) == /\ row' = IF Retired(s) = {} THEN row ELSE "none"
               /\ alert' = IF Retired(s) = {} THEN alert ELSE FALSE
EditsUncounted(s, m) == sweep[s].tries[m]
Edits(s, m) == sweep[s].tries[m] + (IF m \in Retired(s) THEN 0 ELSE 1)
Persist(s) ==
    /\ track' = [m \in Messages |->
                   IF m \in Written(s)
                   THEN [state |-> sweep[s].write[m], edits |-> Edits(s, m)]
                   ELSE track[m]]
    /\ Released(s)
    /\ UNCHANGED override

(* Another coroutine of the process commits. *)
CommitEarly(s) ==
    /\ Written(s) # {} /\ sweep[s].todo # {}
    /\ Persist(s)
    /\ sweep' = [sweep EXCEPT ![s].write = [m \in Messages |-> "none"],
                              ![s].rearm = @ \/ Retired(s) # {}]
    /\ UNCHANGED <<worldVars, proofVars, event, shown, stale, poster, historyVars>>

(* The closed events of the price are forgotten, and all is committed. *)
RearmedNever == event
Rearmed == IF event = "closed" THEN "absent" ELSE event
CommitSweep(s) ==
    /\ Written(s) # {} /\ sweep[s].todo = {}
    /\ Persist(s)
    /\ event' = IF sweep[s].rearm \/ Retired(s) # {} THEN Rearmed ELSE event
    /\ sweep' = [sweep EXCEPT ![s] = NoSweep]
    /\ UNCHANGED <<worldVars, proofVars, shown, stale, poster, historyVars>>

(* The process dies, or the transaction is rolled back. *)
TearSweep(s) ==
    /\ Mishap("torn")
    /\ sweep[s] # NoSweep
    /\ sweep' = [sweep EXCEPT ![s] = NoSweep]
    /\ UNCHANGED <<worldVars, proofVars, event, guards, posts, poster, ended>>

-----------------------------------------------------------------------------
(* A moderator deletes a message. *)
DeleteMessage(m) ==
    /\ Mishap("deleted")
    /\ shown[m] \in {"live", "expired"}
    /\ shown' = [shown EXCEPT ![m] = "deleted"]
    /\ UNCHANGED <<worldVars, proofVars, event, guards, track, stale, poster, sweep, ended>>

(* clear_autoscan_posting_memory: every guard of the server, also that of a
   delivery under way. *)
ClearMemory ==
    /\ Mishap("clear")
    /\ row' = "none" /\ alert' = FALSE /\ override' = FALSE
    /\ UNCHANGED <<worldVars, proofVars, event, posts, poster, sweep, ended>>

Deliver ==
    \/ FanoutStarts \/ TrackFanout \/ OwnerUpsert
    \/ \E p \in Posters : MarkPosted(p) \/ RecordAlert(p)
Sweep(s) ==
    \/ BeginSweep(s) \/ CommitSweep(s)
    \/ \E m \in Messages : RetireMessage(s, m)

Next ==
    \/ Flip \/ Verify \/ Ingest \/ Deliver \/ OwnerStarts \/ ClearMemory
    \/ \E s \in Sweepers : Sweep(s) \/ CommitEarly(s) \/ TearSweep(s)
    \/ \E p \in Posters : SendMessage(p) \/ SendFails(p) \/ AbortDelivery(p)
    \/ \E m \in Messages : DeleteMessage(m)

Spec == Init /\ [][Next]_vars

-----------------------------------------------------------------------------
(* A message is marked as expired only if its deal ended after it was sent: no
   older verification retires it, however long the sweep takes. *)
ExpiredHadEnded == \A m \in Messages : shown[m] = "expired" => m \in ended

(* "This cannot replay the old one": the server never shows two live messages of
   the deal, unless two sweeps overlapped or the memory was cleared. *)
OneLiveMessage ==
    Cardinality(Live) > 1 => excused \cap {"overlap", "clear"} # {}

(* The guards "would otherwise keep a restocked offer from ever posting again,
   leaving only the EXPIRED message": a guard stands for a live message, or for
   a delivery or a sweep under way, unless one of them was torn, an edit's answer
   was lost or the message was deleted by hand. *)
Orphaning == {"torn", "unsure", "abort", "deleted"}
UnderWay == \/ \E p \in Posters : poster[p].stage # "idle"
            \/ \E s \in Sweepers : sweep[s] # NoSweep
GuardStandsForMessage ==
    row # "none" \/ alert => Live # {} \/ UnderWay \/ excused \cap Orphaning # {}

(* The worker verifies again and again, deliveries and sweeps go on, and Discord
   takes a message that is tried again and again. *)
Fairness ==
    /\ WF_vars(Verify) /\ WF_vars(Ingest) /\ WF_vars(Deliver)
    /\ \A p \in Posters : SF_vars(SendMessage(p))
    /\ \A s \in Sweepers : WF_vars(Sweep(s))
FairSpec == Spec /\ Fairness

(* A tracked message of a deal that has ended for good does not stay live for
   ever as tracked: it is marked, or given up after MaxEdits failures. *)
EndedIsRetired ==
    (<>[]~world) => []<>(\A m \in Active : shown[m] # "live")

(* A deal that has returned for good is announced again, unless its guards were
   orphaned (as above) or its event was closed undelivered, as superseded or
   because the owner's delivery, which failed later, had reserved the deal: such
   an event is forgotten only with an expired message. *)
ReturnIsAnnounced ==
    (<>[]world) =>
        []<>(Live # {} \/ excused \cap (Orphaning \cup {"superseded", "owner"}) # {})
=============================================================================
