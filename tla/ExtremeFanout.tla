----------------------------- MODULE ExtremeFanout -----------------------------
(* services/walmart_extreme_price_fanout.py: exact-verified queue rows at an
   extreme price (leads) are posted to the servers that opted in.  A pass reads
   the leads after a shared cursor, oldest first, posts each to every server
   that is live, records a ticket for every server that is not, and moves the
   cursor; a later pass replays the tickets while their proof is unchanged.  The
   lock of a pass and of the settings command is local to the process. *)
EXTENDS ExtremeLeads

(* What is first, and what is returned with LIMIT n. *)
IsFirst(l, s) == l \in s /\ \A m \in s : ~After(l, m)
OldestUnlimited(n, s, part) == part = s
Oldest(n, s, part) ==
    /\ part \subseteq s /\ UpTo(n, part)
    /\ part # s => Cardinality(part) = n
    /\ \A l \in part, m \in s \ part : ~After(l, m)

Snapshot(i) == [item |-> i, at |-> rows[i].at, eligible |-> rows[i].status = "lead"]
NoPass == [copy |-> {}, cut |-> 0, next |-> NoLead, moves |-> FALSE,
           leads |-> {}, lead |-> {}, tickets |-> {}, ticket |-> {},
           read |-> FALSE, live |-> {}, todo |-> {}]

Init ==
    /\ now = 1 /\ checks = 0 /\ changes = 0 /\ passes = 0
    /\ rows = [i \in Items |-> [at |-> 0, status |-> "none"]]
    /\ opted \in SUBSET Guilds
    /\ cursor = NoLead
    /\ tickets = {}
    /\ places = [w \in Workers |-> "idle"]
    /\ pass = [w \in Workers |-> NoPass]
    /\ answered = {}
    /\ moved = [w \in Workers |-> {}]
    /\ sent = [w \in Workers |-> [i \in Items |-> 0]]

clock == <<now, checks, changes, passes>>
held == <<places, pass, moved>>
ghosts == <<answered, sent>>
Go(w, place) == places' = [places EXCEPT ![w] = place]
Holds(p) == {l.item : l \in p.leads \cup p.lead \cup p.ticket}
Hold(w, p) ==
    /\ pass' = [pass EXCEPT ![w] = p]
    /\ moved' = [moved EXCEPT ![w] = @ \cap Holds(p)]
Decided(w, l) == sent' = [sent EXCEPT ![w][l.item] = l.at]
End(w) == Hold(w, NoPass) /\ Go(w, "idle")

(* -------------------------------- the queue ------------------------------ *)

(* A lead is never read, and no pass owes it, that is written behind the cursor,
   behind the cursor a pass has read (and will write back, though the cursor was
   set back since), or behind leads a pass has read. *)
BehindPass(w, l) ==
    \/ ~After(l, pass[w].next)
    \/ \E m \in pass[w].leads \cup pass[w].lead : After(m, l)
Late(l) ==
    \/ ~After(l, cursor)
    \/ \E w \in Workers : places[w] \notin {"idle", "state"} /\ BehindPass(w, l)

(* A row changes under the passes that looked at it. *)
Shift(i) == moved' = [w \in Workers |-> moved[w] \cup ({i} \cap Holds(pass[w]))]

(* verified_at is taken when the answer is judged and the row is written later,
   by a batch whose order is not the order of those times: at is any time since
   the item's last verification. *)
Write(i, at) ==
    /\ rows[i].at < at /\ at <= now /\ checks < MaxChecks
    /\ checks' = checks + 1
    /\ \E status \in RowStates :
          rows' = [rows EXCEPT ![i] = [at |-> at, status |-> status]]
    /\ Shift(i)
    /\ LET l == [item |-> i, at |-> at] IN
       answered' = {d \in answered : d.item # i}
                   \cup (IF Late(l) THEN {To(g, l) : g \in Guilds} ELSE {})
    /\ UNCHANGED <<now, changes, passes, opted, cursor, tickets, places, pass, sent>>

(* The evidence of a row is withdrawn without a verification: the catalog saw
   another price or snapshot (pending), a worker claimed the row (verifying), its
   verification failed (retry), or the row was deleted.  Its verified_at stays,
   and only another verification makes it readable again. *)
Withdraw(i) ==
    /\ rows[i].status # "none"
    /\ rows' = [rows EXCEPT ![i].status = "none"]
    /\ Shift(i)
    /\ UNCHANGED <<clock, opted, cursor, tickets, places, pass, ghosts>>

Tick ==
    /\ now < MaxTime /\ now' = now + 1
    /\ UNCHANGED <<checks, changes, passes, rows, opted, cursor, tickets, held, ghosts>>

(* ------------------------------- the settings ---------------------------- *)

(* set_extreme_alerts_enabled waits for a pass of its own process only.  The
   first server to opt in sets the cursor back by the freshness window; opting
   out cancels the server's tickets for good. *)
OptIn(g) ==
    /\ g \notin opted /\ changes < MaxChanges /\ \E w \in Workers : places[w] = "idle"
    /\ opted' = opted \cup {g}
    /\ cursor' = IF opted = {} THEN [item |-> 0, at |-> Cutoff] ELSE cursor
    /\ changes' = changes + 1
    /\ UNCHANGED <<now, checks, passes, rows, tickets, held, ghosts>>

OptOut(g) ==
    /\ g \in opted /\ changes < MaxChanges /\ \E w \in Workers : places[w] = "idle"
    /\ opted' = opted \ {g}
    /\ tickets' = {t \in tickets : t.guild # g}
    /\ answered' = answered \cup {t \in tickets : t.guild = g}
    /\ changes' = changes + 1
    /\ UNCHANGED <<now, checks, passes, rows, cursor, held, sent>>

(* --------------------------------- a pass -------------------------------- *)

Begin(w) ==
    /\ places[w] = "idle" /\ opted # {} /\ passes < MaxPasses
    /\ passes' = passes + 1
    /\ Hold(w, [NoPass EXCEPT !.copy = opted]) /\ Go(w, "state")
    /\ UNCHANGED <<now, checks, changes, rows, opted, cursor, tickets, ghosts>>

ReadCursor(w) ==
    /\ places[w] = "state"
    /\ Hold(w, [pass[w] EXCEPT !.next = cursor, !.cut = Cutoff]) /\ Go(w, "prune")
    /\ UNCHANGED <<clock, rows, opted, cursor, tickets, ghosts>>

(* _replay_missing_guild_deliveries: expired tickets go, the guilds that are
   live now are listed, and their oldest tickets are read, up to a limit. *)
Replayable(live, cut) == {t \in tickets : t.at >= cut /\ t.guild \in live}
Prune(w) ==
    /\ places[w] = "prune"
    /\ IF tickets = {} THEN UNCHANGED tickets /\ Hold(w, pass[w]) /\ Go(w, "select")
       ELSE /\ tickets' = {t \in tickets : t.at >= pass[w].cut}
            /\ \E live \in SUBSET pass[w].copy :
               \E oldest \in SUBSET Replayable(live, pass[w].cut) :
                  /\ Oldest(MaxReplay, Replayable(live, pass[w].cut), oldest)
                  /\ Hold(w, [pass[w] EXCEPT !.read = TRUE, !.live = live,
                                             !.tickets = oldest])
                  /\ Go(w, "check")
    /\ UNCHANGED <<clock, rows, opted, cursor, ghosts>>

(* The proof of a ticket must still be the item's current one. *)
SameProofOfAnyTime(t) == rows[t.item].status = "lead"
SameProof(t) == Proven(t)
Check(w) ==
    /\ places[w] = "check"
    /\ \/ /\ pass[w].tickets = {} /\ Go(w, "select") /\ Hold(w, pass[w])
       \/ \E t \in pass[w].tickets :
             /\ IsFirst(t, pass[w].tickets)
             /\ Hold(w, [pass[w] EXCEPT !.ticket = {t}, !.tickets = @ \ {t}])
             /\ Go(w, IF SameProof(t) THEN "replay" ELSE "clear")
    /\ UNCHANGED <<clock, rows, opted, cursor, tickets, ghosts>>

NextTicket(w) == Hold(w, [pass[w] EXCEPT !.ticket = {}]) /\ Go(w, "check")

(* The sender decides the delivery, and the ticket is cleared; or it fails or
   raises, and the ticket stays. *)
Replay(w) ==
    /\ places[w] = "replay"
    /\ \/ /\ answered' = answered \cup pass[w].ticket
          /\ \E t \in pass[w].ticket : Decided(w, t)
          /\ Go(w, "clear") /\ Hold(w, pass[w])
       \/ NextTicket(w) /\ UNCHANGED ghosts
    /\ UNCHANGED <<clock, rows, opted, cursor, tickets>>

Clear(w) ==
    /\ places[w] = "clear"
    /\ tickets' = tickets \ pass[w].ticket
    /\ NextTicket(w)
    /\ UNCHANGED <<clock, rows, opted, cursor, ghosts>>

(* The loop over the leads ends, at its end or early. *)
Finish(w, next, moves) ==
    Hold(w, [NoPass EXCEPT !.next = next, !.moves = moves]) /\ Go(w, "save")

(* The verified rows after the cursor, oldest first.  Rows without a card are
   read, and passed over. *)
Select(w) ==
    LET after == {i \in Items : rows[i].at >= pass[w].cut /\ rows[i].status # "none"
                                /\ After(Current(i), pass[w].next)}
        fresh == {Snapshot(i) : i \in after} IN
    /\ places[w] = "select"
    /\ \/ fresh = {} /\ Finish(w, pass[w].next, FALSE)
       \/ \E oldest \in SUBSET fresh :
             /\ oldest # {} /\ Oldest(Batch, fresh, oldest)
             /\ Hold(w, [pass[w] EXCEPT !.cut = 0, !.leads = oldest])
             /\ Go(w, "row")
    /\ UNCHANGED <<clock, rows, opted, cursor, tickets, ghosts>>

PassOver(w, l, rest) ==
    LET next == [item |-> l.item, at |-> l.at] IN
    IF rest = {} THEN Finish(w, next, TRUE)
    ELSE /\ Hold(w, [pass[w] EXCEPT !.next = next, !.moves = TRUE, !.leads = rest,
                                    !.lead = {}, !.todo = {}])
         /\ Go(w, "row")

(* A server that joined after the pass read the settings is not owed the lead. *)
Joined(w, l) == {To(g, l) : g \in Guilds \ pass[w].copy}
Missing(w, l, live) == {To(g, l) : g \in pass[w].copy \ live}
Row(w) ==
    /\ places[w] = "row"
    /\ \E l \in pass[w].leads :
          LET p == pass[w]  rest == p.leads \ {l} IN
          /\ IsFirst(l, p.leads)
          /\ \/ /\ ~l.eligible
                /\ PassOver(w, l, rest) /\ UNCHANGED <<tickets, answered>>
             \/ /\ l.eligible
                /\ \E live \in (IF p.read THEN {p.live} ELSE SUBSET p.copy) :
                   \/ /\ live = {}
                      /\ Finish(w, p.next, p.moves) /\ UNCHANGED <<tickets, answered>>
                   \/ /\ live # {}
                      /\ tickets' = tickets \cup Missing(w, l, live)
                      /\ answered' = answered \cup Joined(w, l)
                      /\ Hold(w, [p EXCEPT !.read = TRUE, !.live = live, !.todo = live,
                                           !.lead = {l}, !.leads = rest])
                      /\ Go(w, "post")
    /\ UNCHANGED <<clock, rows, opted, cursor, sent>>

(* The lead is posted to the live servers in turn.  A failed delivery ends the
   batch and keeps the cursor before the lead; an exception ends the pass and
   leaves the cursor where it was. *)
PassFailedOver(w) == \E l \in pass[w].lead : PassOver(w, l, pass[w].leads)
AfterFailure(w) == Finish(w, pass[w].next, pass[w].moves)
Post(w) ==
    /\ places[w] = "post"
    /\ \/ /\ pass[w].todo = {}
          /\ \E l \in pass[w].lead : PassOver(w, l, pass[w].leads)
          /\ UNCHANGED ghosts
       \/ \E g \in pass[w].todo :
             \/ /\ answered' = answered \cup {To(g, l) : l \in pass[w].lead}
                /\ \E l \in pass[w].lead : Decided(w, l)
                /\ Hold(w, [pass[w] EXCEPT !.todo = @ \ {g}]) /\ UNCHANGED places
             \/ AfterFailure(w) /\ UNCHANGED ghosts
             \/ End(w) /\ UNCHANGED ghosts
    /\ UNCHANGED <<clock, rows, opted, cursor, tickets>>

(* The cursor moves to the last lead passed, whatever its value is by now. *)
Save(w) ==
    /\ places[w] = "save"
    /\ cursor' = IF pass[w].moves THEN pass[w].next ELSE cursor
    /\ End(w)
    /\ UNCHANGED <<clock, rows, opted, tickets, ghosts>>

Crash(w) ==
    /\ places[w] # "idle"
    /\ End(w)
    /\ UNCHANGED <<clock, rows, opted, cursor, tickets, ghosts>>

Pass(w) == Begin(w) \/ ReadCursor(w) \/ Prune(w) \/ Check(w) \/ Replay(w) \/ Clear(w)
           \/ Select(w) \/ Row(w) \/ Post(w) \/ Save(w) \/ Crash(w)
Next ==
    \/ Tick
    \/ \E i \in Items, at \in 1..MaxTime : Write(i, at)
    \/ \E i \in Items : Withdraw(i)
    \/ \E g \in Guilds : OptIn(g) \/ OptOut(g)
    \/ \E w \in Workers : Pass(w)
Spec == Init /\ [][Next]_laneVars
=============================================================================
