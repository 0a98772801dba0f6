------------------------- MODULE DealFanout_proofs -------------------------
(***************************************************************************)
(* Theorems about DealFanout, for every set of processes, offers, servers     *)
(* and users and every choice of the delays.                                 *)
(***************************************************************************)
EXTENDS DealFanout, TLAPS

(* A worker in a pass carries an offer, and a user from check to receipt. *)
ClaimsInStep ==
    \A w \in Workers :
        /\ Working(w) => claim[w].offer \in Offers
        /\ pc[w] \in {"send", "receipt"} => claim[w].user \in Users
Typed == TypeOK /\ ClaimsInStep

-----------------------------------------------------------------------------
(* The assumptions on the constants, one by one. *)
LEMMA Constants ==
    /\ Lease \in Nat \ {0} /\ RetryDelay \in Nat /\ MaxWait \in Nat
    /\ Retention \in Nat /\ PromptWork \in Nat /\ MaxChanges \in Nat
    /\ MaxFaults \in Nat /\ MaxWait <= Retention
    /\ "none" \notin Workers /\ "none" \notin Users /\ "none" \notin Offers
BY NumberAssumption, SetAssumption DEF NumberAssumption, SetAssumption

LEMMA Priced == \A o \in Offers : PriceOf[o] \in Prices
BY DEF Prices

(* What claims and events start from is typed. *)
LEMMA Empty == NoClaim \in Claims /\ NoEvent \in Events
BY Constants DEF NoClaim, Claims, NoEvent, Events

(* An age moves up to its threshold, and a wait down to zero. *)
LEMMA Aging ==
    ASSUME NEW threshold \in Nat, NEW age \in 0 .. threshold + 1
    PROVE  Older(age, threshold) \in 0 .. threshold + 1
BY DEF Older

LEMMA Waiting == \A n \in Nat : \A ticks \in 0 .. n : Left(ticks) \in 0 .. n
BY DEF Left

-----------------------------------------------------------------------------
LEMMA TypedInit == Init => Typed
<1> SUFFICES ASSUME Init PROVE Typed
  OBVIOUS
<1>1. queue \in Queues
  <2>1. PICK o \in Offers :
          queue = [status |-> "missing", offer |-> o, fresh |-> FALSE, age |-> 0]
    BY DEF Init
  <2>2. 0 \in 0 .. MaxWait + 1
    BY Constants
  <2>3. QED
    BY <2>1, <2>2 DEF Queues, Statuses
<1>2. /\ gone \in [Prices -> 0 .. MaxGone] /\ hold \in [Workers -> 0 .. PromptWork]
      /\ changes \in 0 .. MaxChanges /\ faults \in 0 .. MaxFaults
      /\ sent \in [Users \X Prices -> 0 .. 2]
  BY Constants DEF Init, MaxGone
<1>3. TypeOK
  BY <1>1, <1>2, Empty DEF Init, TypeOK
<1>4. ClaimsInStep
  BY DEF Init, ClaimsInStep, Working
<1>5. QED
  BY <1>3, <1>4 DEF Typed

(* The conditions that a step of one worker on its own claim can disturb. *)
LEMMA TypedClaim ==
    ASSUME Typed, NEW w \in Workers, NEW c \in Claims, NEW at,
           at \in {"idle", "claim", "load", "check", "deliver", "send", "receipt"},
           at \notin {"idle", "claim"} => c.offer \in Offers,
           at \in {"send", "receipt"} => c.user \in Users,
           claim' = [claim EXCEPT ![w] = c], pc' = [pc EXCEPT ![w] = at]
    PROVE  /\ pc' \in [Workers -> {"idle", "claim", "load", "check", "deliver", "send",
                                   "receipt"}]
           /\ claim' \in [Workers -> Claims]
           /\ ClaimsInStep'
BY DEF Typed, TypeOK, ClaimsInStep, Working

(* A worker that is through with a destination. *)
LEMMA TypedSettle ==
    ASSUME Typed, NEW w \in Workers, NEW d \in Destinations, Working(w),
           Done(w, d) \/ Failed(w, d), pc' = [pc EXCEPT ![w] = "deliver"]
    PROVE  /\ pc' \in [Workers -> {"idle", "claim", "load", "check", "deliver", "send",
                                   "receipt"}]
           /\ claim' \in [Workers -> Claims]
           /\ ClaimsInStep'
<1>1. claim[w] \in Claims /\ claim[w].offer \in Offers
  BY DEF Typed, TypeOK, ClaimsInStep
<1>2. PICK c \in Claims :
        c.offer = claim[w].offer /\ claim' = [claim EXCEPT ![w] = c]
  <2>1. CASE Done(w, d)
    <3>1. claim' = [claim EXCEPT ![w] = [claim[w] EXCEPT !.todo = @ \ {d},
                                                         !.user = "none"]]
      BY <2>1 DEF Done, Typed, TypeOK
    <3>2. [claim[w] EXCEPT !.todo = @ \ {d}, !.user = "none"] \in Claims
      BY <1>1 DEF Claims
    <3>3. [claim[w] EXCEPT !.todo = @ \ {d}, !.user = "none"].offer = claim[w].offer
      BY <1>1 DEF Claims
    <3>4. QED
      BY <3>1, <3>2, <3>3
  <2>2. CASE Failed(w, d)
    <3>1. claim' = [claim EXCEPT ![w] = [claim[w] EXCEPT !.todo = @ \ {d},
                                                         !.user = "none",
                                                         !.failed = TRUE]]
      BY <2>2 DEF Failed, Typed, TypeOK
    <3>2. [claim[w] EXCEPT !.todo = @ \ {d}, !.user = "none", !.failed = TRUE] \in Claims
      BY <1>1 DEF Claims
    <3>3. [claim[w] EXCEPT !.todo = @ \ {d}, !.user = "none",
                           !.failed = TRUE].offer = claim[w].offer
      BY <1>1 DEF Claims
    <3>4. QED
      BY <3>1, <3>2, <3>3
  <2>3. QED
    BY <2>1, <2>2
<1>3. QED
  BY <1>1, <1>2, TypedClaim

LEMMA TypedFind ==
    ASSUME Typed, NEW o \in Offers, NEW found \in SUBSET Destinations,
           NEW excuse \in BOOLEAN, Find(o, found, excuse)
    PROVE  /\ decided' \in [Offers -> SUBSET Destinations]
           /\ excused' \in [Offers -> BOOLEAN]
<1>1. CASE event[o].status = "open"
  <2>1. decided' \in [Offers -> SUBSET Destinations]
    BY <1>1 DEF Find, Typed, TypeOK
  <2>2. excused' \in [Offers -> BOOLEAN]
    BY <1>1 DEF Find, Typed, TypeOK
  <2>3. QED
    BY <2>1, <2>2
<1>2. CASE event[o].status # "open"
  BY <1>2 DEF Find, Typed, TypeOK, historyVars
<1>3. QED
  BY <1>1, <1>2

LEMMA TypedFault ==
    ASSUME Typed, Faulty
    PROVE  faults' \in 0 .. MaxFaults
BY Constants DEF Typed, TypeOK, Faulty

(* What a worker knows of the guilds once it has loaded them. *)
LEMMA Loading ==
    ASSUME Typed, NEW w \in Workers, LoadGuilds(w)
    PROVE  \E unread \in SUBSET live, c \in Claims :
              /\ c.offer = claim[w].offer /\ claim' = [claim EXCEPT ![w] = c]
              /\ c.seen \cup c.awaited \cup unread = Guilds
              /\ Find(claim[w].offer, {}, unread # {})
<1>1. claim \in [Workers -> Claims] /\ claim[w] \in Claims /\ live \in SUBSET Guilds
  BY DEF Typed, TypeOK
<1>2. PICK unread \in SUBSET live :
        /\ claim' = [claim EXCEPT ![w].seen = live \ unread, ![w].awaited = Guilds \ live]
        /\ Find(claim[w].offer, {}, unread # {})
  BY DEF LoadGuilds
<1> DEFINE c == [claim[w] EXCEPT !.seen = live \ unread, !.awaited = Guilds \ live]
<1>3. claim' = [claim EXCEPT ![w] = c]
  BY <1>1, <1>2
<1>4. /\ c \in Claims /\ c.offer = claim[w].offer
      /\ c.seen = live \ unread /\ c.awaited = Guilds \ live
  BY <1>1, <1>2 DEF Claims
<1> HIDE DEF c
<1>5. c.seen \cup c.awaited \cup unread = Guilds
  BY <1>1, <1>2, <1>4
<1>6. QED
  BY <1>2, <1>3, <1>4, <1>5

LEMMA TypedStep == Typed /\ [Next]_vars => Typed'
<1> SUFFICES ASSUME Typed, [Next]_vars PROVE Typed'
  OBVIOUS
<1>u. TypeOK /\ ClaimsInStep
  BY DEF Typed
<1>1. ASSUME NEW w \in Workers, Ingest(w) PROVE Typed'
  <2> DEFINE o == queue.offer
             new == [[NoEvent EXCEPT !.status = "open"] EXCEPT !.age = queue.age]
  <2>0. o \in Offers /\ queue.age \in 0 .. Retention + 1
    BY <1>u, Constants DEF TypeOK, Queues
  <2>1. new \in Events
    <3>1. ASSUME NEW e \in Events, NEW n \in 0 .. Retention + 1
          PROVE  [e EXCEPT !.status = "open", !.age = n] \in Events
      BY DEF Events
    <3>2. QED
      BY <2>0, <3>1, Empty
  <2>2. queue' \in Queues
    <3>1. 0 \in 0 .. MaxWait + 1
      BY Constants
    <3>2. [[queue EXCEPT !.fresh = FALSE] EXCEPT !.age = 0] \in Queues
      BY <1>u, <3>1 DEF TypeOK, Queues
    <3>3. QED
      BY <1>1, <1>u, <3>2 DEF Ingest, TypeOK
  <2>3. event' \in [Offers -> Events]
    <3> HIDE DEF new
    <3>1. event' = [event EXCEPT ![o] = new] \/ event' = event
      BY <1>1 DEF Ingest, new
    <3>2. QED
      BY <1>u, <2>0, <2>1, <3>1 DEF TypeOK
  <2>4. decided' \in [Offers -> SUBSET Destinations] /\ excused' \in [Offers -> BOOLEAN]
    BY <1>1, <1>u, <2>0 DEF Ingest, TypeOK, historyVars
  <2>5. QED
    BY <1>1, <1>u, <2>2, <2>3, <2>4
       DEF Ingest, Goto, userVars, pruneVars, Typed, TypeOK, ClaimsInStep, Working
<1>2. ASSUME NEW w \in Workers, ClaimEvent(w) PROVE Typed'
  <2>1. CASE UNCHANGED <<event, claim, hold, blurred>> /\ Goto(w, "claim", "idle")
    BY <1>2, <1>u, <2>1
       DEF ClaimEvent, Goto, worldVars, pruneVars, userVars, historyVars, Typed, TypeOK,
           ClaimsInStep, Working
  <2>2. ASSUME NEW o \in Offers, Claimable(o), Goto(w, "claim", "load"),
               event' = [event EXCEPT ![o].owner = w, ![o].left = Lease],
               claim' = [claim EXCEPT ![w] = [NoClaim EXCEPT !.offer = o]],
               hold' = [hold EXCEPT ![w] = 0],
               blurred' = blurred \cup {PriceOf[o] : v \in
                   {v \in Workers : Working(v) /\ PriceAt(v) = PriceOf[o]}}
        PROVE Typed'
    <3>1. event' \in [Offers -> Events]
      <4>1. Lease \in 0 .. Lease + RetryDelay
        BY Constants
      <4>2. [[event[o] EXCEPT !.owner = w] EXCEPT !.left = Lease] \in Events
        <5>1. event[o] \in Events
          BY <1>u, <2>2 DEF TypeOK
        <5>2. QED
          BY <4>1, <5>1 DEF Events
      <4>3. event' = [event EXCEPT ![o] =
                        [[event[o] EXCEPT !.owner = w] EXCEPT !.left = Lease]]
        BY <2>2, <1>u DEF TypeOK
      <4>4. QED
        BY <1>u, <4>2, <4>3 DEF TypeOK
    <3>2. [NoClaim EXCEPT !.offer = o] \in Claims /\ [NoClaim EXCEPT !.offer = o].offer = o
      BY DEF NoClaim, Claims
    <3>3. claim' \in [Workers -> Claims] /\ ClaimsInStep'
          /\ pc' \in [Workers -> {"idle", "claim", "load", "check", "deliver", "send",
                                  "receipt"}]
      BY <2>2, <3>2, TypedClaim DEF Goto
    <3>4. blurred' \in SUBSET Prices /\ hold' \in [Workers -> 0 .. PromptWork]
      BY <2>2, <1>u, Priced, Constants DEF TypeOK
    <3>5. QED
      BY <1>2, <1>u, <3>1, <3>3, <3>4
         DEF ClaimEvent, worldVars, pruneVars, userVars, historyVars, Typed, TypeOK
  <2>3. QED
    BY <1>2, <2>1, <2>2 DEF ClaimEvent
<1>3. ASSUME NEW w \in Workers, LoadGuilds(w) PROVE Typed'
  <2>1. PICK unread \in SUBSET live, c \in Claims :
          /\ c.offer = claim[w].offer /\ claim' = [claim EXCEPT ![w] = c]
          /\ Find(claim[w].offer, {}, unread # {})
    BY <1>3, Loading
  <2>2. claim[w].offer \in Offers /\ pc' = [pc EXCEPT ![w] = "check"]
    BY <1>3, <1>u DEF LoadGuilds, Goto, ClaimsInStep, Working
  <2>3. claim' \in [Workers -> Claims] /\ ClaimsInStep'
        /\ pc' \in [Workers -> {"idle", "claim", "load", "check", "deliver", "send",
                                "receipt"}]
    BY <2>1, <2>2, TypedClaim
  <2>4. decided' \in [Offers -> SUBSET Destinations] /\ excused' \in [Offers -> BOOLEAN]
    <3>1. {} \in SUBSET Destinations /\ (unread # {}) \in BOOLEAN
      OBVIOUS
    <3>2. QED
      BY <2>1, <2>2, <3>1, TypedFind
  <2>5. faults' \in 0 .. MaxFaults
    BY <1>3, <1>u, TypedFault DEF LoadGuilds, TypeOK
  <2>6. QED
    BY <1>3, <1>u, <2>3, <2>4, <2>5 DEF LoadGuilds, worldVars, pruneVars, userVars, Typed, TypeOK
<1>4. ASSUME NEW w \in Workers, CheckOffers(w) PROVE Typed'
  <2> DEFINE c == claim[w]
             dropped == Disproves(queue, PriceAt(w))
             old == event[c.offer].age > MaxWait
             checked == [[[c EXCEPT !.dropped = dropped] EXCEPT !.old = old]
                            EXCEPT !.todo = Recipients(c, dropped)]
  <2>1. c \in Claims /\ c.offer \in Offers
    BY <1>4, <1>u DEF CheckOffers, Goto, ClaimsInStep, Working, TypeOK
  <2>2. dropped \in BOOLEAN /\ old \in BOOLEAN
    BY DEF Disproves
  <2>3. Recipients(c, dropped) \in SUBSET Destinations
    BY <1>u, <2>1 DEF Recipients, TypeOK, Claims, Destinations
  <2>4. checked \in Claims /\ checked.offer = c.offer
    <3> HIDE DEF dropped, old, c
    <3>1. QED
      BY <2>1, <2>2, <2>3 DEF Claims
  <2>5. /\ claim' \in [Workers -> Claims] /\ ClaimsInStep'
        /\ pc' \in [Workers -> {"idle", "claim", "load", "check", "deliver", "send",
                                "receipt"}]
    <3>1. claim' = [claim EXCEPT ![w] = checked] /\ pc' = [pc EXCEPT ![w] = "deliver"]
      BY <1>4 DEF CheckOffers, Goto
    <3> HIDE DEF checked
    <3>2. QED
      BY <2>1, <2>4, <3>1, TypedClaim
  <2>6. decided' \in [Offers -> SUBSET Destinations] /\ excused' \in [Offers -> BOOLEAN]
    <3>1. Find(c.offer, Users \ enabled, dropped \/ old)
      BY <1>4 DEF CheckOffers
    <3>2. Users \ enabled \in SUBSET Destinations /\ (dropped \/ old) \in BOOLEAN
      BY DEF Destinations
    <3> HIDE DEF dropped, old
    <3>3. QED
      BY <2>1, <3>1, <3>2, TypedFind
  <2>7. QED
    BY <1>4, <1>u, <2>5, <2>6 DEF CheckOffers, worldVars, pruneVars, userVars, Typed, TypeOK
<1>5. ASSUME NEW w \in Workers, NEW g \in Guilds, NEW outcome \in Outcomes,
             DeliverGuild(w, g, outcome)
      PROVE Typed'
  <2>1. claim[w].offer \in Offers /\ claim[w] \in Claims /\ g \in Destinations
        /\ pc' = [pc EXCEPT ![w] = "deliver"] /\ {g} \in SUBSET Destinations
    BY <1>5, <1>u DEF DeliverGuild, Goto, ClaimsInStep, Working, TypeOK, Destinations
  <2>2. /\ claim' \in [Workers -> Claims] /\ ClaimsInStep'
        /\ pc' \in [Workers -> {"idle", "claim", "load", "check", "deliver", "send",
                                "receipt"}]
    <3>1. Working(w) /\ (Done(w, g) \/ Failed(w, g))
      BY <1>5 DEF DeliverGuild, Goto, Working
    <3>2. QED
      BY <2>1, <3>1, TypedSettle
  <2>3. decided' \in [Offers -> SUBSET Destinations] /\ excused' \in [Offers -> BOOLEAN]
    BY <1>5, <1>u, <2>1, TypedFind DEF DeliverGuild, historyVars, TypeOK
  <2>4. faults' \in 0 .. MaxFaults
    BY <1>5, <1>u, TypedFault DEF DeliverGuild, TypeOK
  <2>5. QED
    BY <1>5, <1>u, <2>2, <2>3, <2>4 DEF DeliverGuild, worldVars, pruneVars, userVars, Typed, TypeOK
<1>6. ASSUME NEW w \in Workers, NEW u \in Users, CheckUser(w, u) PROVE Typed'
  <2>1. claim[w].offer \in Offers /\ claim[w] \in Claims /\ u \in Destinations
        /\ {u} \in SUBSET Destinations /\ Working(w)
    BY <1>6, <1>u DEF CheckUser, Goto, ClaimsInStep, Working, TypeOK, Destinations
  <2>2. /\ claim' \in [Workers -> Claims] /\ ClaimsInStep'
        /\ pc' \in [Workers -> {"idle", "claim", "load", "check", "deliver", "send",
                                "receipt"}]
    <3>1. CASE claim' = [claim EXCEPT ![w].user = u] /\ Goto(w, "deliver", "send")
      <4>1. [claim[w] EXCEPT !.user = u] \in Claims
            /\ [claim[w] EXCEPT !.user = u].offer = claim[w].offer
            /\ [claim[w] EXCEPT !.user = u].user = u
        BY <2>1 DEF Claims
      <4>2. claim' = [claim EXCEPT ![w] = [claim[w] EXCEPT !.user = u]]
            /\ pc' = [pc EXCEPT ![w] = "send"]
        BY <3>1 DEF Goto
      <4>3. QED
        BY <2>1, <4>1, <4>2, TypedClaim
    <3>2. CASE Goto(w, "deliver", "deliver") /\ (Done(w, u) \/ Failed(w, u))
      BY <2>1, <3>2, TypedSettle DEF Goto
    <3>3. QED
      BY <1>6, <3>1, <3>2 DEF CheckUser
  <2>3. decided' \in [Offers -> SUBSET Destinations] /\ excused' \in [Offers -> BOOLEAN]
    BY <1>6, <1>u, <2>1, TypedFind DEF CheckUser, historyVars, TypeOK
  <2>4. faults' \in 0 .. MaxFaults
    BY <1>6, <1>u, TypedFault DEF CheckUser, TypeOK
  <2>5. QED
    BY <1>6, <1>u, <2>2, <2>3, <2>4 DEF CheckUser, worldVars, pruneVars, userVars, Typed, TypeOK
<1>7. ASSUME NEW w \in Workers, SendDM(w) PROVE Typed'
  <2> DEFINE u == claim[w].user
  <2>1. claim[w].offer \in Offers /\ claim[w] \in Claims /\ u \in Users
        /\ u \in Destinations /\ {u} \in SUBSET Destinations /\ Working(w)
        /\ PriceAt(w) \in Prices
    BY <1>7, <1>u, Priced
       DEF SendDM, Goto, ClaimsInStep, Working, TypeOK, Destinations, PriceAt
  <2> HIDE DEF u
  <2>2. /\ claim' \in [Workers -> Claims] /\ ClaimsInStep'
        /\ pc' \in [Workers -> {"idle", "claim", "load", "check", "deliver", "send",
                                "receipt"}]
    <3>1. CASE claim' = claim /\ Goto(w, "send", "receipt")
      <4>1. claim' = [claim EXCEPT ![w] = claim[w]]
        BY <3>1, <1>u DEF TypeOK
      <4>2. QED
        BY <2>1, <3>1, <4>1, TypedClaim DEF Goto, u
    <3>2. CASE Goto(w, "send", "deliver") /\ (Done(w, u) \/ Failed(w, u))
      BY <2>1, <3>2, TypedSettle DEF Goto
    <3>3. QED
      BY <1>7, <3>1, <3>2 DEF SendDM, u
  <2>3. decided' \in [Offers -> SUBSET Destinations] /\ excused' \in [Offers -> BOOLEAN]
    BY <1>7, <1>u, <2>1, TypedFind DEF SendDM, historyVars, TypeOK, u
  <2>4. faults' \in 0 .. MaxFaults
    BY <1>7, <1>u, TypedFault DEF SendDM, TypeOK
  <2>5. sent' \in [Users \X Prices -> 0 .. 2]
    <3>1. CASE Count(u, PriceAt(w))
      <4>1. sent[<<u, PriceAt(w)>>] \in 0 .. 2
        BY <1>u, <2>1 DEF TypeOK
      <4>2. (IF sent[<<u, PriceAt(w)>>] < 2 THEN sent[<<u, PriceAt(w)>>] + 1
                                           ELSE sent[<<u, PriceAt(w)>>]) \in 0 .. 2
        BY <4>1
      <4>3. sent' = [sent EXCEPT ![<<u, PriceAt(w)>>] =
                       IF sent[<<u, PriceAt(w)>>] < 2 THEN sent[<<u, PriceAt(w)>>] + 1
                                                     ELSE sent[<<u, PriceAt(w)>>]]
        BY <3>1, <1>u, <2>1 DEF Count, TypeOK
      <4>4. QED
        BY <1>u, <4>2, <4>3 DEF TypeOK
    <3>2. QED
      BY <1>7, <1>u, <3>1 DEF SendDM, TypeOK, u
  <2>6. blurred' \in SUBSET Prices /\ enabled' \in SUBSET Users
    BY <1>7, <1>u, <2>1 DEF SendDM, Blur, TypeOK
  <2>7. QED
    BY <1>7, <1>u, <2>2, <2>3, <2>4, <2>5, <2>6 DEF SendDM, worldVars, pruneVars, Typed, TypeOK
<1>8. ASSUME NEW w \in Workers, RecordReceipt(w) PROVE Typed'
  <2> DEFINE u == claim[w].user
  <2>1. claim[w].offer \in Offers /\ claim[w] \in Claims /\ u \in Users
        /\ u \in Destinations /\ {u} \in SUBSET Destinations /\ Working(w)
        /\ PriceAt(w) \in Prices
    BY <1>8, <1>u, Priced
       DEF RecordReceipt, Goto, ClaimsInStep, Working, TypeOK, Destinations, PriceAt
  <2> HIDE DEF u
  <2>2. /\ claim' \in [Workers -> Claims] /\ ClaimsInStep'
        /\ pc' \in [Workers -> {"idle", "claim", "load", "check", "deliver", "send",
                                "receipt"}]
    <3>1. Goto(w, "receipt", "deliver") /\ (Done(w, u) \/ Failed(w, u))
      BY <1>8 DEF RecordReceipt, u
    <3>2. QED
      BY <2>1, <3>1, TypedSettle DEF Goto
  <2>3. decided' \in [Offers -> SUBSET Destinations] /\ excused' \in [Offers -> BOOLEAN]
    BY <1>8, <1>u, <2>1, TypedFind DEF RecordReceipt, historyVars, TypeOK, u
  <2>4. faults' \in 0 .. MaxFaults
    BY <1>8, <1>u, TypedFault DEF RecordReceipt, TypeOK
  <2>5. receipts' \in SUBSET (Users \X Prices)
    BY <1>8, <1>u, <2>1 DEF RecordReceipt, TypeOK, u
  <2>6. blurred' \in SUBSET Prices
    BY <1>8, <1>u, <2>1 DEF RecordReceipt, Blur, TypeOK
  <2>7. QED
    BY <1>8, <1>u, <2>2, <2>3, <2>4, <2>5, <2>6
       DEF RecordReceipt, worldVars, pruneVars, Typed, TypeOK
<1>9. ASSUME NEW w \in Workers, FinishPass(w) PROVE Typed'
  <2> DEFINE o == claim[w].offer
             settled == [event[o] EXCEPT
                           !.owner = "none",
                           !.status = IF Outcome(claim[w]) = "close" THEN "closed" ELSE @,
                           !.left = IF Outcome(claim[w]) = "defer" THEN RetryDelay ELSE 0]
  <2>1. o \in Offers /\ Working(w)
    BY <1>9, <1>u DEF FinishPass, Goto, ClaimsInStep, Working
  <2>2. settled \in Events
    <3>1. 0 \in 0 .. Lease + RetryDelay /\ RetryDelay \in 0 .. Lease + RetryDelay
      BY Constants
    <3>2. event[o] \in Events
      BY <1>u, <2>1 DEF TypeOK
    <3> HIDE DEF o
    <3>3. QED
      BY <3>1, <3>2 DEF Events
  <2>3. event' \in [Offers -> Events]
    <3>1. event' = event \/ event' = [event EXCEPT ![o] = settled]
      BY <1>9 DEF FinishPass
    <3> HIDE DEF settled, o
    <3>2. QED
      BY <1>u, <2>1, <2>2, <3>1 DEF TypeOK
  <2>4. hold' \in [Workers -> 0 .. PromptWork]
    BY <1>9, <1>u, Constants DEF FinishPass, Drop, TypeOK
  <2>5. /\ claim' \in [Workers -> Claims] /\ ClaimsInStep'
        /\ pc' \in [Workers -> {"idle", "claim", "load", "check", "deliver", "send",
                                "receipt"}]
    BY <1>9, Empty, TypedClaim DEF FinishPass, Drop, Goto
  <2>6. QED
    BY <1>9, <1>u, <2>3, <2>4, <2>5
       DEF FinishPass, worldVars, pruneVars, userVars, historyVars, Typed, TypeOK
<1>10. ASSUME NEW w \in Workers, Abandon(w) PROVE Typed'
  <2>1. blurred' \in SUBSET Prices
    BY <1>10, <1>u, Priced DEF Abandon, Blur, PriceAt, TypeOK, ClaimsInStep, Working
  <2>2. hold' \in [Workers -> 0 .. PromptWork]
    BY <1>10, <1>u, Constants DEF Abandon, Drop, TypeOK
  <2>3. /\ claim' \in [Workers -> Claims] /\ ClaimsInStep'
        /\ pc' \in [Workers -> {"idle", "claim", "load", "check", "deliver", "send",
                                "receipt"}]
    BY <1>10, Empty, TypedClaim DEF Abandon, Drop
  <2>4. faults' \in 0 .. MaxFaults
    BY <1>10, TypedFault DEF Abandon
  <2>5. QED
    BY <1>10, <1>u, <2>1, <2>2, <2>3, <2>4
       DEF Abandon, worldVars, pruneVars, userVars, historyVars, Typed, TypeOK
<1>11. ASSUME NEW v \in Workers, ChoosePrunable(v) \/ Prune(v) PROVE Typed'
  <2>1. CASE ChoosePrunable(v)
    <3>1. doomed' \in [Workers -> SUBSET Offers]
      BY <1>u, <2>1 DEF ChoosePrunable, TypeOK
    <3>2. QED
      BY <1>u, <2>1, <3>1
         DEF ChoosePrunable, userVars, historyVars, Typed, TypeOK, ClaimsInStep, Working
  <2>2. CASE Prune(v)
    <3>1. doomed' \in [Workers -> SUBSET Offers] /\ lost' \in SUBSET Offers
          /\ event' \in [Offers -> Events]
      BY <1>u, <2>2, Empty DEF Prune, TypeOK
    <3>2. QED
      BY <1>u, <2>2, <3>1
         DEF Prune, userVars, historyVars, Typed, TypeOK, ClaimsInStep, Working
  <2>3. QED
    BY <1>11, <2>1, <2>2
<1>12. ASSUME NEW p \in Prices, Rearm(p) PROVE Typed'
  BY <1>12, <1>u, Empty
     DEF Rearm, worldVars, pruneVars, userVars, historyVars, Typed, TypeOK, ClaimsInStep, Working
<1>13. ASSUME NEW status \in Statuses, NEW o \in Offers, Verify(status, o) PROVE Typed'
  <2>1. queue' \in Queues
    BY <1>13, Constants DEF Verify, Queues
  <2>2. gone' \in [Prices -> 0 .. MaxGone] /\ changes' \in 0 .. MaxChanges
    BY <1>13, <1>u, Constants DEF Verify, TypeOK, MaxGone
  <2>3. QED
    BY <1>13, <1>u, <2>1, <2>2
       DEF Verify, userVars, pruneVars, historyVars, Typed, TypeOK, ClaimsInStep, Working
<1>14. ASSUME NEW g \in Guilds, CacheChange(g) PROVE Typed'
  <2>1. live' \in SUBSET Guilds /\ changes' \in 0 .. MaxChanges
    BY <1>14, <1>u, Constants DEF CacheChange, TypeOK
  <2>2. QED
    BY <1>14, <1>u, <2>1
       DEF CacheChange, userVars, pruneVars, historyVars, Typed, TypeOK, ClaimsInStep, Working
<1>15. ASSUME Tick PROVE Typed'
  <2>1. queue' \in Queues
    <3>1. Older(queue.age, MaxWait) \in 0 .. MaxWait + 1
      BY <1>u, Aging, Constants DEF TypeOK, Queues
    <3>2. [queue EXCEPT !.age = Older(queue.age, MaxWait)] \in Queues
      BY <1>u, <3>1 DEF TypeOK, Queues
    <3>3. QED
      BY <1>15, <1>u, <3>2 DEF Tick, TypeOK
  <2>2. gone' \in [Prices -> 0 .. MaxGone]
    <3>1. ASSUME NEW p \in Prices PROVE Older(gone[p], PromptWork) \in 0 .. MaxGone
      BY <1>u, Aging, Constants DEF TypeOK, MaxGone
    <3>2. 0 \in 0 .. MaxGone
      BY Constants DEF MaxGone
    <3>3. QED
      BY <1>15, <3>1, <3>2 DEF Tick
  <2>3. event' \in [Offers -> Events]
    <3>1. ASSUME NEW e \in Events
          PROVE  [e EXCEPT !.left = Left(@), !.age = Older(@, Retention)] \in Events
      <4>1. Left(e.left) \in 0 .. Lease + RetryDelay
        BY Waiting, Constants DEF Events
      <4>2. Older(e.age, Retention) \in 0 .. Retention + 1
        BY Aging, Constants DEF Events
      <4>3. QED
        BY <4>1, <4>2 DEF Events
    <3>2. QED
      BY <1>15, <1>u, <3>1, Empty DEF Tick, TypeOK
  <2>4. hold' \in [Workers -> 0 .. PromptWork]
    <3>1. ASSUME NEW w \in Workers
          PROVE  (IF Working(w) THEN hold[w] + 1 ELSE hold[w]) \in 0 .. PromptWork
      <4>1. hold[w] \in 0 .. PromptWork /\ (Working(w) => hold[w] < PromptWork)
        BY <1>15, <1>u DEF Tick, TypeOK
      <4>2. QED
        BY <4>1, Constants
    <3>2. QED
      BY <1>15, <3>1 DEF Tick
  <2>5. QED
    BY <1>15, <1>u, <2>1, <2>2, <2>3, <2>4
       DEF Tick, userVars, pruneVars, historyVars, Typed, TypeOK, ClaimsInStep, Working
<1>16. CASE UNCHANGED vars
  BY <1>16, <1>u
     DEF vars, Typed, TypeOK, ClaimsInStep, Working
<1>17. QED
  BY <1>1, <1>2, <1>3, <1>4, <1>5, <1>6, <1>7, <1>8, <1>9, <1>10, <1>11, <1>12, <1>13,
     <1>14, <1>15, <1>16 DEF Next, Pass

(* The variables of the fanout keep their types. *)
THEOREM TypeCorrect == Spec => []TypeOK
<1>1. Typed => TypeOK
  BY DEF Typed
<1>2. QED
  BY <1>1, TypedInit, TypedStep, PTL DEF Spec

-----------------------------------------------------------------------------
(* What the outcome of a destination leaves of a claim. *)
LEMMA Settled ==
    ASSUME Typed, NEW w \in Workers, NEW d, Done(w, d) \/ Failed(w, d)
    PROVE  /\ \A v \in Workers \ {w} : claim'[v] = claim[v]
           /\ claim'[w].offer = claim[w].offer /\ claim'[w].seen = claim[w].seen
           /\ claim'[w].awaited = claim[w].awaited
           /\ claim'[w].todo = claim[w].todo \ {d}
           /\ claim'[w].dropped = claim[w].dropped /\ claim'[w].old = claim[w].old
           /\ claim'[w].failed = (claim[w].failed \/ Failed(w, d))
<1>u. claim \in [Workers -> Claims] /\ claim[w] \in Claims
  BY DEF Typed, TypeOK
<1>1. CASE Done(w, d) /\ ~Failed(w, d)
  <2>1. claim' = [claim EXCEPT ![w] = [claim[w] EXCEPT !.todo = @ \ {d}, !.user = "none"]]
    BY <1>u, <1>1 DEF Done
  <2>2. claim'[w] = [claim[w] EXCEPT !.todo = @ \ {d}, !.user = "none"]
        /\ \A v \in Workers \ {w} : claim'[v] = claim[v]
    BY <1>u, <2>1
  <2>3. claim[w].failed \in BOOLEAN
    BY <1>u DEF Claims
  <2>4. QED
    BY <1>u, <1>1, <2>2, <2>3 DEF Claims
<1>2. CASE Failed(w, d)
  <2>1. claim' = [claim EXCEPT ![w] = [claim[w] EXCEPT !.todo = @ \ {d}, !.user = "none",
                                                       !.failed = TRUE]]
    BY <1>u, <1>2 DEF Failed
  <2>2. claim'[w] = [claim[w] EXCEPT !.todo = @ \ {d}, !.user = "none", !.failed = TRUE]
        /\ \A v \in Workers \ {w} : claim'[v] = claim[v]
    BY <1>u, <2>1
  <2>3. QED
    BY <1>u, <1>2, <2>2 DEF Claims
<1>3. QED
  BY <1>1, <1>2

(* What one worker's step leaves alone. *)
LEMMA WorkerSteps ==
    ASSUME Typed, NEW v \in Workers, Pass(v) \/ Abandon(v)
    PROVE  /\ \A w \in Workers \ {v} :
                 pc'[w] = pc[w] /\ claim'[w] = claim[w] /\ hold'[w] = hold[w]
           /\ Working(v)' =>
                 \/ ClaimEvent(v)
                 \/ /\ Working(v)
                    /\ claim'[v].offer = claim[v].offer /\ hold'[v] = hold[v]
<1>u. /\ pc \in [Workers -> {"idle", "claim", "load", "check", "deliver", "send",
                             "receipt"}]
      /\ claim \in [Workers -> Claims] /\ hold \in [Workers -> 0 .. PromptWork]
      /\ claim[v] \in Claims
  BY DEF Typed, TypeOK
<1>1. CASE Ingest(v)
  BY <1>1, <1>u DEF Ingest, Goto, Working
<1>2. CASE ClaimEvent(v)
  BY <1>2, <1>u DEF ClaimEvent, Goto, Working
<1>3. CASE LoadGuilds(v)
  BY <1>3, <1>u DEF LoadGuilds, Goto, Working, Claims
<1>4. CASE CheckOffers(v)
  BY <1>4, <1>u DEF CheckOffers, Goto, Working, Claims
<1>5. ASSUME NEW g \in Guilds, NEW outcome \in Outcomes, DeliverGuild(v, g, outcome)
      PROVE  /\ \A w \in Workers \ {v} :
                   pc'[w] = pc[w] /\ claim'[w] = claim[w] /\ hold'[w] = hold[w]
             /\ Working(v) /\ claim'[v].offer = claim[v].offer /\ hold'[v] = hold[v]
  BY <1>5, <1>u, Settled DEF DeliverGuild, Goto, Working
<1>6. ASSUME NEW u \in Users, CheckUser(v, u)
      PROVE  /\ \A w \in Workers \ {v} :
                   pc'[w] = pc[w] /\ claim'[w] = claim[w] /\ hold'[w] = hold[w]
             /\ Working(v) /\ claim'[v].offer = claim[v].offer /\ hold'[v] = hold[v]
  <2>1. CASE claim' = [claim EXCEPT ![v].user = u] /\ Goto(v, "deliver", "send")
    <3>1. claim' = [claim EXCEPT ![v] = [claim[v] EXCEPT !.user = u]]
      BY <2>1, <1>u
    <3>2. [claim[v] EXCEPT !.user = u].offer = claim[v].offer
      BY <1>u DEF Claims
    <3>3. QED
      BY <1>6, <1>u, <2>1, <3>1, <3>2 DEF CheckUser, Goto, Working
  <2>2. CASE Done(v, u) \/ Failed(v, u)
    BY <1>6, <1>u, <2>2, Settled DEF CheckUser, Goto, Working
  <2>3. QED
    BY <1>6, <2>1, <2>2 DEF CheckUser
<1>7. CASE SendDM(v)
  BY <1>7, <1>u, Settled DEF SendDM, Goto, Working
<1>8. CASE RecordReceipt(v)
  BY <1>8, <1>u, Settled DEF RecordReceipt, Goto, Working
<1>9. CASE FinishPass(v)
  BY <1>9, <1>u DEF FinishPass, Drop, Goto, Working
<1>10. CASE Abandon(v)
  BY <1>10, <1>u DEF Abandon, Drop, Working
<1>11. QED
  BY <1>1, <1>2, <1>3, <1>4, <1>5, <1>6, <1>7, <1>8, <1>9, <1>10 DEF Pass

-----------------------------------------------------------------------------
(* Within its lease period a worker owns the event it works on, if no prune deleted
   it. *)
LeaseHeld ==
    \A w \in Workers :
        Fresh(w) /\ claim[w].offer \notin lost
                 => /\ event[claim[w].offer].status = "open"
                    /\ event[claim[w].offer].owner = w
                    /\ event[claim[w].offer].left >= Lease - hold[w]

LEMMA LeaseInit == Init => LeaseHeld
BY DEF Init, LeaseHeld, Fresh, Working

(* An event that was lost is remembered. *)
LEMMA LostGrows == [Next]_vars => lost \subseteq lost'
BY DEF Next, Pass, Abandon, Ingest, ClaimEvent, LoadGuilds, CheckOffers, DeliverGuild,
   CheckUser, SendDM, RecordReceipt, FinishPass, ChoosePrunable, Prune, Rearm, Verify,
   CacheChange, Tick, worldVars, pruneVars, vars

(* Steps that touch no event and no worker's place, claim or hold. *)
LEMMA LeaseFrame ==
    ASSUME Typed, LeaseHeld, NEW v \in Workers, Pass(v) \/ Abandon(v), event' = event,
           ~ClaimEvent(v)
    PROVE  LeaseHeld'
<1>l. lost \subseteq lost'
  BY LostGrows DEF Next
<1>1. SUFFICES ASSUME NEW w \in Workers, Fresh(w)'
               PROVE  Fresh(w) /\ claim'[w].offer = claim[w].offer /\ hold'[w] = hold[w]
  BY <1>l DEF LeaseHeld
<1>2. CASE w = v
  BY <1>1, <1>2, WorkerSteps DEF Fresh
<1>3. CASE w # v
  <2>1. pc'[w] = pc[w] /\ claim'[w] = claim[w] /\ hold'[w] = hold[w]
    BY <1>3, WorkerSteps
  <2>2. QED
    BY <1>1, <2>1 DEF Fresh, Working
<1>4. QED
  BY <1>2, <1>3

LEMMA LeaseStep == Typed /\ LeaseHeld /\ [Next]_vars => LeaseHeld'
<1> SUFFICES ASSUME Typed, LeaseHeld, [Next]_vars PROVE LeaseHeld'
  OBVIOUS
<1>t. /\ event \in [Offers -> Events] /\ hold \in [Workers -> 0 .. PromptWork]
      /\ \A w \in Workers : Working(w) => claim[w].offer \in Offers
  BY DEF Typed, TypeOK, ClaimsInStep
<1>1. ASSUME NEW v \in Workers, Ingest(v) PROVE LeaseHeld'
  <2>1. SUFFICES ASSUME NEW w \in Workers, Fresh(w)', claim'[w].offer \notin lost
                 PROVE  /\ event'[claim'[w].offer].status = "open"
                        /\ event'[claim'[w].offer].owner = w
                        /\ event'[claim'[w].offer].left >= Lease - hold'[w]
    BY LostGrows DEF LeaseHeld
  <2>2. w # v
    BY <1>1, <2>1 DEF Ingest, Goto, Fresh, Working, Typed, TypeOK
  <2>3. Fresh(w) /\ claim'[w] = claim[w] /\ hold'[w] = hold[w]
    <3>1. pc'[w] = pc[w] /\ claim'[w] = claim[w] /\ hold'[w] = hold[w]
      BY <1>1, <2>2, WorkerSteps DEF Pass
    <3>2. QED
      BY <2>1, <3>1 DEF Fresh, Working
  <2>4. event[claim[w].offer].status = "open" /\ claim[w].offer \in Offers
    BY <1>t, <2>1, <2>3 DEF LeaseHeld, Fresh
  <2>5. event'[claim[w].offer] = event[claim[w].offer]
    BY <1>1, <1>t, <2>4 DEF Ingest
  <2>6. QED
    BY <2>1, <2>3, <2>5 DEF LeaseHeld
<1>2. ASSUME NEW v \in Workers, ClaimEvent(v) PROVE LeaseHeld'
  <2>1. SUFFICES ASSUME NEW w \in Workers, Fresh(w)', claim'[w].offer \notin lost
                 PROVE  /\ event'[claim'[w].offer].status = "open"
                        /\ event'[claim'[w].offer].owner = w
                        /\ event'[claim'[w].offer].left >= Lease - hold'[w]
    BY LostGrows DEF LeaseHeld
  <2>2. CASE w = v
    <3>1. PICK o \in Offers :
            /\ Claimable(o)
            /\ event' = [event EXCEPT ![o].owner = v, ![o].left = Lease]
            /\ claim' = [claim EXCEPT ![v] = [NoClaim EXCEPT !.offer = o]]
            /\ hold' = [hold EXCEPT ![v] = 0]
      BY <1>2, <2>1, <2>2 DEF ClaimEvent, Fresh, Working, Goto, Typed, TypeOK
    <3>2. claim'[v].offer = o /\ hold'[v] = 0
      BY <3>1, <1>t DEF NoClaim, Typed, TypeOK
    <3>3. event'[o].status = "open" /\ event'[o].owner = v /\ event'[o].left = Lease
      BY <3>1, <1>t DEF Claimable, Events
    <3>4. QED
      BY <2>2, <3>2, <3>3, Constants
  <2>3. CASE w # v
    <3>1. Fresh(w) /\ claim'[w] = claim[w] /\ hold'[w] = hold[w]
      <4>1. pc'[w] = pc[w] /\ claim'[w] = claim[w] /\ hold'[w] = hold[w]
        BY <1>2, <2>3, WorkerSteps DEF Pass
      <4>2. QED
        BY <2>1, <4>1 DEF Fresh, Working
    <3>2. claim[w].offer \in Offers /\ event[claim[w].offer].left > 0
      <4>1. claim[w].offer \in Offers /\ hold[w] < Lease /\ hold[w] \in Nat
        BY <1>t, <3>1 DEF Fresh
      <4>2. event[claim[w].offer].left >= Lease - hold[w]
            /\ event[claim[w].offer].left \in Nat
        BY <1>t, <2>1, <3>1, <4>1, Constants DEF LeaseHeld, Events
      <4>3. QED
        BY <4>1, <4>2, Constants
    <3>3. event'[claim[w].offer] = event[claim[w].offer]
      <4>1. ~Claimable(claim[w].offer)
        BY <3>2 DEF Claimable
      <4>2. QED
        BY <1>2, <1>t, <3>2, <4>1 DEF ClaimEvent
    <3>4. QED
      BY <2>1, <3>1, <3>3 DEF LeaseHeld
  <2>4. QED
    BY <2>2, <2>3
<1>3. ASSUME NEW v \in Workers, FinishPass(v) PROVE LeaseHeld'
  <2>1. SUFFICES ASSUME NEW w \in Workers, Fresh(w)', claim'[w].offer \notin lost
                 PROVE  /\ event'[claim'[w].offer].status = "open"
                        /\ event'[claim'[w].offer].owner = w
                        /\ event'[claim'[w].offer].left >= Lease - hold'[w]
    BY LostGrows DEF LeaseHeld
  <2>2. w # v
    BY <1>3, <2>1 DEF FinishPass, Goto, Fresh, Working, Typed, TypeOK
  <2>3. Fresh(w) /\ claim'[w] = claim[w] /\ hold'[w] = hold[w]
    <3>1. pc'[w] = pc[w] /\ claim'[w] = claim[w] /\ hold'[w] = hold[w]
      BY <1>3, <2>2, WorkerSteps DEF Pass
    <3>2. QED
      BY <2>1, <3>1 DEF Fresh, Working
  <2>4. event[claim[w].offer].owner = w /\ claim[w].offer \in Offers
    BY <1>t, <2>1, <2>3 DEF LeaseHeld, Fresh
  <2>5. event'[claim[w].offer] = event[claim[w].offer]
    BY <1>3, <1>t, <2>2, <2>4 DEF FinishPass, Holds
  <2>6. QED
    BY <2>1, <2>3, <2>5 DEF LeaseHeld
<1>4. ASSUME NEW v \in Workers, Pass(v) \/ Abandon(v),
             ~Ingest(v), ~ClaimEvent(v), ~FinishPass(v)
      PROVE LeaseHeld'
  <2>1. event' = event
    BY <1>4 DEF Pass, Abandon, LoadGuilds, CheckOffers, DeliverGuild, CheckUser, SendDM,
       RecordReceipt
  <2>2. QED
    BY <1>4, <2>1, LeaseFrame
<1>5. ASSUME UNCHANGED <<pc, claim, hold>>,
             \A o \in Offers : event[o].status = "open" /\ o \notin lost'
                                => event'[o] = event[o]
      PROVE LeaseHeld'
  <2>1. SUFFICES ASSUME NEW w \in Workers, Fresh(w), claim[w].offer \notin lost'
                 PROVE  event'[claim[w].offer] = event[claim[w].offer]
    BY <1>5, LostGrows DEF LeaseHeld, Fresh, Working
  <2>2. claim[w].offer \in Offers /\ event[claim[w].offer].status = "open"
    BY <1>t, <2>1, LostGrows DEF LeaseHeld, Fresh
  <2>3. QED
    BY <1>5, <2>1, <2>2
<1>6. ASSUME NEW v \in Workers, ChoosePrunable(v) \/ Prune(v) PROVE LeaseHeld'
  <2>1. \A o \in Offers : event[o].status = "open" /\ o \notin lost'
                              => event'[o] = event[o]
    BY <1>6, <1>t DEF ChoosePrunable, Prune, Typed, TypeOK
  <2>2. QED
    BY <1>5, <1>6, <2>1 DEF ChoosePrunable, Prune
<1>7. ASSUME NEW p \in Prices, Rearm(p) PROVE LeaseHeld'
  BY <1>5, <1>7 DEF Rearm
<1>8. ASSUME NEW status \in Statuses, NEW o \in Offers, Verify(status, o) PROVE LeaseHeld'
  BY <1>5, <1>8 DEF Verify
<1>9. ASSUME NEW g \in Guilds, CacheChange(g) PROVE LeaseHeld'
  BY <1>5, <1>9 DEF CacheChange
<1>10. ASSUME Tick PROVE LeaseHeld'
  <2>1. SUFFICES ASSUME NEW w \in Workers, Fresh(w)', claim'[w].offer \notin lost
                 PROVE  /\ event'[claim'[w].offer].status = "open"
                        /\ event'[claim'[w].offer].owner = w
                        /\ event'[claim'[w].offer].left >= Lease - hold'[w]
    BY LostGrows DEF LeaseHeld
  <2>2. Working(w) /\ hold'[w] = hold[w] + 1 /\ hold'[w] < Lease /\ claim' = claim
    BY <1>10, <2>1 DEF Tick, Fresh, Working
  <2>3. hold[w] \in Nat /\ claim[w].offer \in Offers
    BY <1>t, <2>2
  <2>4. Fresh(w)
    BY <2>2, <2>3, Constants DEF Fresh
  <2> DEFINE e == event[claim[w].offer]
  <2>5. e.status = "open" /\ e.owner = w /\ e.left >= Lease - hold[w] /\ e \in Events
    BY <1>t, <2>1, <2>2, <2>3, <2>4 DEF LeaseHeld
  <2>6. event'[claim[w].offer] =
          [e EXCEPT !.left = Left(e.left), !.age = Older(e.age, Retention)]
    BY <1>10, <2>3, <2>5 DEF Tick
  <2> HIDE DEF e
  <2>7. event'[claim[w].offer].status = "open" /\ event'[claim[w].offer].owner = w
        /\ event'[claim[w].offer].left = Left(e.left)
    BY <2>5, <2>6 DEF Events
  <2>8. Left(e.left) >= Lease - (hold[w] + 1)
    BY <2>5, <2>3, Constants DEF Left, Events
  <2>9. QED
    BY <2>2, <2>7, <2>8
<1>11. CASE UNCHANGED vars
  BY <1>11, <1>5 DEF vars
<1>12. QED
  BY <1>1, <1>2, <1>3, <1>4, <1>6, <1>7, <1>8, <1>9, <1>10, <1>11 DEF Next

(* Of any number of processes that fan out an event, at most one claimed it less
   than a lease period ago, unless a prune deleted the event while it was open. *)
THEOREM AloneWithEvent == Spec => []ExclusiveFanout
<1>1. LeaseHeld => ExclusiveFanout
  BY DEF LeaseHeld, ExclusiveFanout
<1>2. QED
  BY <1>1, LeaseInit, LeaseStep, TypedInit, TypedStep, PTL DEF Spec

-----------------------------------------------------------------------------
(* A price is counted as gone only while the row disproves it, and an offer that
   a worker delivers was proved when the worker checked. *)
Delivering(w) == pc[w] \in {"deliver", "send", "receipt"}
GoneDisproved == \A p \in Prices : gone[p] # 0 => Disproves(queue, p)
CheckedInPass ==
    \A w \in Workers :
        /\ pc[w] \in {"send", "receipt"} => claim[w].user \in claim[w].todo
        /\ Delivering(w) /\ claim[w].todo # {} => gone[PriceAt(w)] <= hold[w]

LEMMA CheckedInit == Init => GoneDisproved /\ CheckedInPass
BY DEF Init, GoneDisproved, CheckedInPass, Delivering

LEMMA GoneStep == Typed /\ GoneDisproved /\ [Next]_vars => GoneDisproved'
<1> SUFFICES ASSUME Typed, GoneDisproved, [Next]_vars PROVE GoneDisproved'
  OBVIOUS
<1>t. gone \in [Prices -> 0 .. MaxGone] /\ queue \in Queues
  BY DEF Typed, TypeOK
<1>1. ASSUME NEW w \in Workers, Ingest(w) PROVE GoneDisproved'
  <2>1. gone' = gone /\ queue'.status = queue.status /\ queue'.offer = queue.offer
    BY <1>1, <1>t DEF Ingest, Queues
  <2>2. QED
    BY <2>1 DEF GoneDisproved, Disproves
<1>2. ASSUME NEW status \in Statuses, NEW o \in Offers, Verify(status, o)
      PROVE  GoneDisproved'
  <2>1. \A p \in Prices : gone'[p] # 0 => Disproves(queue', p)
    BY <1>2 DEF Verify
  <2>2. QED
    BY <2>1 DEF GoneDisproved, Disproves
<1>3. CASE Tick
  <2>1. \A p \in Prices : gone'[p] # 0 => Disproves(queue, p)
    BY <1>3 DEF Tick
  <2>2. queue'.status = queue.status /\ queue'.offer = queue.offer
    BY <1>3, <1>t DEF Tick, Queues
  <2>3. QED
    BY <2>1, <2>2 DEF GoneDisproved, Disproves
<1>4. ASSUME UNCHANGED <<gone, queue>> PROVE GoneDisproved'
  BY <1>4 DEF GoneDisproved, Disproves
<1>5. ASSUME NEW w \in Workers, Pass(w) \/ Abandon(w), ~Ingest(w) PROVE GoneDisproved'
  BY <1>4, <1>5 DEF Pass, Abandon, ClaimEvent, LoadGuilds, CheckOffers, DeliverGuild,
     CheckUser, SendDM, RecordReceipt, FinishPass, worldVars, pruneVars
<1>6. ASSUME NEW v \in Workers, ChoosePrunable(v) \/ Prune(v) PROVE GoneDisproved'
  BY <1>4, <1>6 DEF ChoosePrunable, Prune, worldVars, pruneVars
<1>7. ASSUME NEW p \in Prices, Rearm(p) PROVE GoneDisproved'
  BY <1>4, <1>7 DEF Rearm, worldVars, pruneVars
<1>8. ASSUME NEW g \in Guilds, CacheChange(g) PROVE GoneDisproved'
  BY <1>4, <1>8 DEF CacheChange
<1>9. CASE UNCHANGED vars
  BY <1>4, <1>9 DEF vars
<1>10. QED
  BY <1>1, <1>2, <1>3, <1>5, <1>6, <1>7, <1>8, <1>9 DEF Next

LEMMA CheckedStep ==
    Typed /\ GoneDisproved /\ CheckedInPass /\ [Next]_vars => CheckedInPass'
<1> SUFFICES ASSUME Typed, GoneDisproved, CheckedInPass, [Next]_vars PROVE CheckedInPass'
  OBVIOUS
<1>t. /\ gone \in [Prices -> 0 .. MaxGone] /\ hold \in [Workers -> 0 .. PromptWork]
      /\ pc \in [Workers -> {"idle", "claim", "load", "check", "deliver", "send",
                             "receipt"}]
      /\ claim \in [Workers -> Claims]
      /\ \A w \in Workers : Working(w) => claim[w].offer \in Offers
      /\ PromptWork \in Nat
  BY Constants DEF Typed, TypeOK, ClaimsInStep
(* A worker's step leaves the others' part of the invariant alone. *)
<1>w. ASSUME NEW v \in Workers, Pass(v) \/ Abandon(v),
             /\ pc'[v] \in {"send", "receipt"} => claim'[v].user \in claim'[v].todo
             /\ Delivering(v)' /\ claim'[v].todo # {} => gone'[PriceAt(v)'] <= hold'[v]
      PROVE  CheckedInPass'
  <2>1. gone' = gone
    BY <1>w DEF Pass, Abandon, Ingest, ClaimEvent, LoadGuilds, CheckOffers, DeliverGuild,
       CheckUser, SendDM, RecordReceipt, FinishPass, worldVars, pruneVars
  <2>2. SUFFICES ASSUME NEW w \in Workers \ {v}
                 PROVE  /\ pc'[w] \in {"send", "receipt"}
                              => claim'[w].user \in claim'[w].todo
                        /\ Delivering(w)' /\ claim'[w].todo # {}
                              => gone'[PriceAt(w)'] <= hold'[w]
    BY <1>w DEF CheckedInPass
  <2>3. pc'[w] = pc[w] /\ claim'[w] = claim[w] /\ hold'[w] = hold[w]
    BY <1>w, <2>2, WorkerSteps
  <2>4. QED
    BY <2>1, <2>3 DEF CheckedInPass, Delivering, PriceAt
(* A step within the delivery only crosses destinations off. *)
<1>d. ASSUME NEW v \in Workers, Delivering(v), gone' = gone, hold' = hold,
             claim'[v].offer = claim[v].offer, claim'[v].todo \subseteq claim[v].todo
      PROVE  Delivering(v)' /\ claim'[v].todo # {} => gone'[PriceAt(v)'] <= hold'[v]
  BY <1>d DEF CheckedInPass, PriceAt
<1>1. ASSUME NEW v \in Workers, Ingest(v) \/ ClaimEvent(v) \/ LoadGuilds(v)
                                 \/ FinishPass(v) \/ Abandon(v)
      PROVE CheckedInPass'
  <2>1. pc'[v] \in {"idle", "claim", "load", "check"}
    BY <1>1, <1>t DEF Ingest, ClaimEvent, LoadGuilds, FinishPass, Abandon, Goto
  <2>2. QED
    BY <1>1, <1>w, <2>1 DEF Delivering, Pass
<1>2. ASSUME NEW v \in Workers, CheckOffers(v) PROVE CheckedInPass'
  <2>1. pc'[v] = "deliver" /\ gone' = gone /\ hold' = hold
        /\ claim[v].offer \in Offers
    BY <1>2, <1>t DEF CheckOffers, Goto, worldVars, pruneVars, Working
  <2>2. claim'[v].offer = claim[v].offer
        /\ claim'[v].todo = Recipients(claim[v], Disproves(queue, PriceAt(v)))
    BY <1>2, <1>t DEF CheckOffers, Claims
  <2>3. PriceAt(v) \in Prices /\ PriceAt(v)' = PriceAt(v)
    BY <2>1, <2>2, Priced DEF PriceAt
  <2>4. claim'[v].todo # {} => gone[PriceAt(v)] = 0
    BY <2>2, <2>3 DEF Recipients, GoneDisproved
  <2>5. QED
    BY <1>2, <1>t, <1>w, <2>1, <2>3, <2>4 DEF Pass
<1>3. ASSUME NEW v \in Workers, NEW g \in Guilds, NEW outcome \in Outcomes,
             DeliverGuild(v, g, outcome)
      PROVE CheckedInPass'
  <2>1. Delivering(v) /\ pc'[v] = "deliver" /\ gone' = gone /\ hold' = hold
    BY <1>3, <1>t DEF DeliverGuild, Goto, Delivering, worldVars, pruneVars
  <2>2. claim'[v].offer = claim[v].offer /\ claim'[v].todo \subseteq claim[v].todo
    BY <1>3, Settled DEF DeliverGuild
  <2>3. QED
    BY <1>3, <1>d, <1>w, <2>1, <2>2 DEF Pass
<1>4. ASSUME NEW v \in Workers, NEW u \in Users, CheckUser(v, u) PROVE CheckedInPass'
  <2>1. Delivering(v) /\ gone' = gone /\ hold' = hold
    BY <1>4, <1>t DEF CheckUser, Goto, Delivering, worldVars, pruneVars
  <2>2. CASE Done(v, u) \/ Failed(v, u)
    <3>1. pc'[v] = "deliver" \/ claim' = [claim EXCEPT ![v].user = u]
      BY <1>4, <1>t DEF CheckUser, Goto
    <3>2. claim'[v].offer = claim[v].offer /\ claim'[v].todo \subseteq claim[v].todo
      BY <2>2, Settled
    <3>3. pc'[v] = "deliver" \/ (claim'[v].todo = claim[v].todo /\ claim'[v].user = u)
      BY <1>4, <1>t, <3>1 DEF CheckUser, Goto, Claims
    <3>4. u \in claim[v].todo
      BY <1>4 DEF CheckUser
    <3>5. QED
      BY <1>4, <1>d, <1>w, <2>1, <3>2, <3>3, <3>4 DEF Pass
  <2>3. CASE claim' = [claim EXCEPT ![v].user = u]
    <3>1. claim' = [claim EXCEPT ![v] = [claim[v] EXCEPT !.user = u]]
      BY <2>3, <1>t
    <3>2. claim'[v].offer = claim[v].offer /\ claim'[v].todo = claim[v].todo
          /\ claim'[v].user = u
      BY <3>1, <1>t DEF Claims
    <3>3. u \in claim[v].todo
      BY <1>4 DEF CheckUser
    <3>4. QED
      BY <1>4, <1>d, <1>w, <2>1, <3>2, <3>3 DEF Pass
  <2>4. QED
    BY <1>4, <2>2, <2>3 DEF CheckUser
<1>5. ASSUME NEW v \in Workers, SendDM(v) \/ RecordReceipt(v) PROVE CheckedInPass'
  <2>1. Delivering(v) /\ gone' = gone /\ hold' = hold
    BY <1>5 DEF SendDM, RecordReceipt, Goto, Delivering, worldVars, pruneVars
  <2>2. claim'[v].offer = claim[v].offer /\ claim'[v].todo \subseteq claim[v].todo
        /\ (pc'[v] = "deliver" \/ claim' = claim)
    BY <1>5, <1>t, Settled DEF SendDM, RecordReceipt, Goto
  <2>3. pc'[v] \in {"send", "receipt"} => claim'[v].user \in claim'[v].todo
    BY <1>5, <2>2 DEF CheckedInPass, SendDM, RecordReceipt, Goto
  <2>4. QED
    BY <1>5, <1>d, <1>w, <2>1, <2>2, <2>3 DEF Pass
<1>6. CASE Tick
  <2>1. SUFFICES ASSUME NEW w \in Workers, Delivering(w), claim[w].todo # {}
                 PROVE  gone'[PriceAt(w)] <= hold'[w]
    BY <1>6 DEF Tick, CheckedInPass, Delivering, PriceAt
  <2>2. Working(w) /\ PriceAt(w) \in Prices
    BY <1>t, <2>1, Priced DEF Delivering, Working, PriceAt
  <2>3. hold'[w] = hold[w] + 1 /\ gone[PriceAt(w)] <= hold[w]
    BY <1>6, <2>1, <2>2 DEF Tick, CheckedInPass
  <2>4. gone'[PriceAt(w)] <= gone[PriceAt(w)] + 1
    <3>1. gone[PriceAt(w)] \in 0 .. MaxGone
      BY <1>t, <2>2
    <3>2. gone'[PriceAt(w)] = IF Disproves(queue, PriceAt(w))
                              THEN Older(gone[PriceAt(w)], PromptWork) ELSE 0
      BY <1>6, <2>2 DEF Tick
    <3>3. QED
      BY <3>1, <3>2, <1>t DEF Older, MaxGone
  <2>5. gone'[PriceAt(w)] \in Nat /\ gone[PriceAt(w)] \in Nat /\ hold[w] \in Nat
    <3>1. TypeOK'
      BY TypedStep DEF Typed
    <3>2. QED
      BY <1>t, <2>2, <3>1 DEF TypeOK, MaxGone
  <2>6. QED
    BY <2>3, <2>4, <2>5
<1>7. ASSUME NEW status \in Statuses, NEW o \in Offers, Verify(status, o)
      PROVE  CheckedInPass'
  <2>1. SUFFICES ASSUME NEW w \in Workers, Delivering(w), claim[w].todo # {}
                 PROVE  gone'[PriceAt(w)] <= hold[w]
    BY <1>7 DEF Verify, CheckedInPass, Delivering, PriceAt
  <2>2. PriceAt(w) \in Prices
    BY <1>t, <2>1, Priced DEF Delivering, Working, PriceAt
  <2>3. gone'[PriceAt(w)] = gone[PriceAt(w)] \/ gone'[PriceAt(w)] = 0
    BY <1>7, <2>2 DEF Verify
  <2>4. QED
    BY <1>t, <2>1, <2>3 DEF CheckedInPass
<1>8. ASSUME UNCHANGED <<pc, claim, hold, gone>> PROVE CheckedInPass'
  BY <1>8 DEF CheckedInPass, Delivering, PriceAt
<1>9. ASSUME NEW v \in Workers, ChoosePrunable(v) \/ Prune(v) PROVE CheckedInPass'
  BY <1>8, <1>9 DEF ChoosePrunable, Prune, worldVars, pruneVars
<1>10. ASSUME NEW p \in Prices, Rearm(p) PROVE CheckedInPass'
  BY <1>8, <1>10 DEF Rearm, worldVars, pruneVars
<1>11. ASSUME NEW g \in Guilds, CacheChange(g) PROVE CheckedInPass'
  BY <1>8, <1>11 DEF CacheChange
<1>12. CASE UNCHANGED vars
  BY <1>8, <1>12 DEF vars
<1>13. QED
  BY <1>1, <1>2, <1>3, <1>4, <1>5, <1>6, <1>7, <1>9, <1>10, <1>11, <1>12 DEF Next, Pass

(* No pass announces an offer that the row had disproved before the pass claimed
   it. *)
THEOREM NotStalerThanThePass == Spec => StaleAtMostOnePass
<1>1. CheckedInPass => \A w \in Workers : Announces(w) => gone[PriceAt(w)] <= hold[w]
  <2>1. SUFFICES ASSUME CheckedInPass, NEW w \in Workers, Announces(w)
                 PROVE  Delivering(w) /\ claim[w].todo # {}
    BY DEF CheckedInPass
  <2>2. CASE \E g \in Guilds : DeliverGuild(w, g, "post")
    BY <2>2 DEF DeliverGuild, Goto, Delivering
  <2>3. CASE SendDM(w)
    BY <2>1, <2>3 DEF SendDM, Goto, Delivering, CheckedInPass
  <2>4. QED
    BY <2>1, <2>2, <2>3 DEF Announces
<1>2. QED
  BY <1>1, CheckedInit, GoneStep, CheckedStep, TypedInit, TypedStep, PTL
     DEF Spec, StaleAtMostOnePass

-----------------------------------------------------------------------------
(* A price that is not blurred is worked on by one worker at a time, and a
   message without a receipt is the one its worker is about to record. *)
OneAtATime ==
    \A v, w \in Workers :
        v # w /\ Working(v) /\ Working(w) /\ PriceAt(v) = PriceAt(w)
            => PriceAt(w) \in blurred
Receipted ==
    \A u \in Users, p \in Prices :
        sent[<<u, p>>] > 0 /\ <<u, p>> \notin receipts
            => \/ p \in blurred
               \/ \E w \in Workers :
                     pc[w] = "receipt" /\ claim[w].user = u /\ PriceAt(w) = p
Unsent ==
    \A w \in Workers :
        pc[w] = "send" => \/ PriceAt(w) \in blurred
                          \/ sent[<<claim[w].user, PriceAt(w)>>] = 0
ReceiptInvariant == OneAtATime /\ Receipted /\ Unsent /\ RepeatsExplained

LEMMA ReceiptInit == Init => ReceiptInvariant
<1> SUFFICES ASSUME Init PROVE ReceiptInvariant
  OBVIOUS
<1>1. \A d \in Users \X Prices : sent[d] = 0
  BY DEF Init
<1>2. \A w \in Workers : pc[w] = "idle"
  BY DEF Init
<1>3. QED
  BY <1>1, <1>2 DEF ReceiptInvariant, OneAtATime, Receipted, Unsent, RepeatsExplained,
     Working

(* What is blurred stays blurred. *)
LEMMA BlurGrows == [Next]_vars => blurred \subseteq blurred'
BY DEF Next, Pass, Abandon, Ingest, ClaimEvent, LoadGuilds, CheckOffers, DeliverGuild,
   CheckUser, SendDM, RecordReceipt, FinishPass, ChoosePrunable, Prune, Rearm,
   Verify, CacheChange, Tick, Blur, vars

LEMMA OneStep == Typed /\ OneAtATime /\ [Next]_vars => OneAtATime'
<1> SUFFICES ASSUME Typed, OneAtATime, [Next]_vars PROVE OneAtATime'
  OBVIOUS
<1>1. ASSUME NEW x \in Workers, Pass(x) \/ Abandon(x) PROVE OneAtATime'
  <2>1. SUFFICES ASSUME NEW v \in Workers, NEW w \in Workers, v # w, Working(v)',
                        Working(w)', PriceAt(v)' = PriceAt(w)'
                 PROVE  PriceAt(w)' \in blurred'
    BY DEF OneAtATime
  <2>2. CASE ~ClaimEvent(x)
    <3>1. \A y \in Workers :
             Working(y)' => Working(y) /\ claim'[y].offer = claim[y].offer
      BY <1>1, <2>2, WorkerSteps DEF Working
    <3>2. QED
      BY <2>1, <3>1, BlurGrows DEF OneAtATime, PriceAt
  <2>3. ASSUME ClaimEvent(x), NEW y \in Workers \ {x}, Working(x)', Working(y)',
               PriceAt(x)' = PriceAt(y)'
        PROVE  PriceAt(x)' \in blurred'
    <3>1. Working(y) /\ PriceAt(y)' = PriceAt(y)
      BY <1>1, <2>3, WorkerSteps DEF Working, PriceAt
    <3>2. PICK o \in Offers :
            /\ claim' = [claim EXCEPT ![x] = [NoClaim EXCEPT !.offer = o]]
            /\ blurred' = blurred \cup {PriceOf[o] : v_1 \in
                  {v_1 \in Workers : Working(v_1) /\ PriceAt(v_1) = PriceOf[o]}}
      BY <2>3 DEF ClaimEvent, Goto, Working, Typed, TypeOK
    <3>3. PriceAt(x)' = PriceOf[o]
      BY <3>2 DEF PriceAt, NoClaim, Typed, TypeOK
    <3>4. QED
      BY <2>3, <3>1, <3>2, <3>3
  <2>4. CASE ClaimEvent(x) /\ (v = x \/ w = x)
    BY <2>1, <2>3, <2>4
  <2>5. CASE ClaimEvent(x) /\ v # x /\ w # x
    <3>1. pc'[v] = pc[v] /\ pc'[w] = pc[w] /\ claim'[v] = claim[v] /\ claim'[w] = claim[w]
      BY <1>1, <2>5, WorkerSteps
    <3>2. QED
      BY <2>1, <3>1, BlurGrows DEF OneAtATime, Working, PriceAt
  <2>6. QED
    BY <2>2, <2>4, <2>5
<1>2. ASSUME UNCHANGED <<pc, claim, blurred>> PROVE OneAtATime'
  BY <1>2 DEF OneAtATime, Working, PriceAt
<1>3. QED
  BY <1>1, <1>2 DEF Next, ChoosePrunable, Prune, Rearm, Verify, CacheChange, Tick, vars

LEMMA ReceiptStep ==
    Typed /\ ReceiptInvariant /\ [Next]_vars
        => Receipted' /\ Unsent' /\ RepeatsExplained'
<1> SUFFICES ASSUME Typed, ReceiptInvariant, [Next]_vars
             PROVE  Receipted' /\ Unsent' /\ RepeatsExplained'
  OBVIOUS
<1>t. /\ pc \in [Workers -> {"idle", "claim", "load", "check", "deliver", "send",
                             "receipt"}]
      /\ claim \in [Workers -> Claims] /\ sent \in [Users \X Prices -> 0 .. 2]
      /\ \A w \in Workers : Working(w) => claim[w].offer \in Offers
      /\ \A w \in Workers : Working(w) => PriceAt(w) \in Prices
      /\ \A w \in Workers : pc[w] \in {"send", "receipt"} => claim[w].user \in Users
      /\ blurred \subseteq blurred'
  BY BlurGrows, Priced DEF Typed, TypeOK, ClaimsInStep, PriceAt
(* Steps that send and record nothing, by a worker that is not recording. *)
<1>q. ASSUME NEW v \in Workers, Pass(v) \/ Abandon(v), sent' = sent,
             receipts \subseteq receipts', pc[v] # "receipt" \/ PriceAt(v) \in blurred',
             pc'[v] = "send" => \/ PriceAt(v)' \in blurred'
                                \/ sent[<<claim'[v].user, PriceAt(v)'>>] = 0
      PROVE  Receipted' /\ Unsent' /\ RepeatsExplained'
  <2>1. \A w \in Workers \ {v} : pc'[w] = pc[w] /\ claim'[w] = claim[w]
    BY <1>q, WorkerSteps
  <2>2. Unsent'
    BY <1>q, <1>t, <2>1 DEF ReceiptInvariant, Unsent, PriceAt
  <2>3. Receipted'
    <3>1. SUFFICES ASSUME NEW u \in Users, NEW p \in Prices, sent[<<u, p>>] > 0,
                          <<u, p>> \notin receipts', p \notin blurred'
                   PROVE  \E w \in Workers : pc'[w] = "receipt" /\ claim'[w].user = u
                                             /\ PriceAt(w)' = p
      BY <1>q DEF Receipted
    <3>2. PICK w \in Workers : pc[w] = "receipt" /\ claim[w].user = u /\ PriceAt(w) = p
      BY <1>q, <1>t, <3>1 DEF ReceiptInvariant, Receipted
    <3>3. w # v
      BY <1>q, <3>1, <3>2
    <3>4. QED
      BY <2>1, <3>2, <3>3 DEF PriceAt
  <2>4. RepeatsExplained'
    BY <1>q, <1>t DEF ReceiptInvariant, RepeatsExplained
  <2>5. QED
    BY <2>2, <2>3, <2>4
<1>1. ASSUME NEW v \in Workers, Ingest(v) \/ ClaimEvent(v) \/ LoadGuilds(v)
                                 \/ CheckOffers(v) \/ FinishPass(v)
      PROVE  Receipted' /\ Unsent' /\ RepeatsExplained'
  <2>1. pc[v] # "receipt" /\ pc'[v] # "send" /\ sent' = sent /\ receipts' = receipts
    BY <1>1, <1>t DEF Ingest, ClaimEvent, LoadGuilds, CheckOffers, FinishPass, Goto,
       userVars
  <2>2. QED
    BY <1>1, <1>q, <2>1 DEF Pass
<1>2. ASSUME NEW v \in Workers, Abandon(v)
      PROVE  Receipted' /\ Unsent' /\ RepeatsExplained'
  <2>1. pc'[v] # "send" /\ sent' = sent /\ receipts' = receipts
        /\ (pc[v] # "receipt" \/ PriceAt(v) \in blurred')
    BY <1>2, <1>t DEF Abandon, Blur, userVars
  <2>2. QED
    BY <1>2, <1>q, <2>1
<1>3. ASSUME NEW v \in Workers, NEW g \in Guilds, NEW outcome \in Outcomes,
             DeliverGuild(v, g, outcome)
      PROVE  Receipted' /\ Unsent' /\ RepeatsExplained'
  <2>1. pc[v] # "receipt" /\ pc'[v] # "send" /\ sent' = sent /\ receipts' = receipts
    BY <1>3, <1>t DEF DeliverGuild, Goto, userVars
  <2>2. QED
    BY <1>3, <1>q, <2>1 DEF Pass
<1>4. ASSUME NEW v \in Workers, NEW u \in Users, CheckUser(v, u)
      PROVE  Receipted' /\ Unsent' /\ RepeatsExplained'
  <2>1. pc[v] = "deliver" /\ sent' = sent /\ receipts' = receipts /\ Pass(v)
    BY <1>4 DEF CheckUser, Goto, userVars, Pass
  <2>2. ASSUME pc'[v] = "send"
        PROVE  PriceAt(v)' \in blurred' \/ sent[<<claim'[v].user, PriceAt(v)'>>] = 0
    <3>1. claim' = [claim EXCEPT ![v].user = u] /\ <<u, PriceAt(v)>> \notin receipts
      BY <1>4, <1>t, <2>2 DEF CheckUser, MaySend, Goto
    <3>2. claim' = [claim EXCEPT ![v] = [claim[v] EXCEPT !.user = u]]
      BY <1>t, <3>1
    <3>3. claim'[v].user = u /\ PriceAt(v)' = PriceAt(v) /\ PriceAt(v) \in Prices
      BY <1>t, <2>1, <3>2 DEF Claims, PriceAt, Working
    <3>4. CASE sent[<<u, PriceAt(v)>>] > 0 /\ PriceAt(v) \notin blurred
      <4>1. PICK w \in Workers :
              pc[w] = "receipt" /\ claim[w].user = u /\ PriceAt(w) = PriceAt(v)
        BY <3>1, <3>3, <3>4 DEF ReceiptInvariant, Receipted
      <4>2. v # w /\ Working(v) /\ Working(w)
        BY <2>1, <4>1 DEF Working
      <4>3. QED
        BY <3>4, <4>1, <4>2 DEF ReceiptInvariant, OneAtATime
    <3>5. sent[<<u, PriceAt(v)>>] \in 0 .. 2
      BY <1>t, <3>3
    <3>6. QED
      BY <1>t, <3>3, <3>4, <3>5
  <2>3. QED
    BY <1>q, <2>1, <2>2
<1>5. ASSUME NEW v \in Workers, SendDM(v)
      PROVE  Receipted' /\ Unsent' /\ RepeatsExplained'
  <2> DEFINE u == claim[v].user
             p == PriceAt(v)
  <2>1. u \in Users /\ p \in Prices /\ pc[v] = "send" /\ Pass(v) /\ receipts' = receipts
    BY <1>5, <1>t DEF SendDM, Goto, Pass, Working
  <2>2. CASE sent' = sent
    <3>1. pc'[v] # "send"
      BY <1>5, <1>t DEF SendDM, Goto
    <3>2. QED
      BY <1>q, <2>1, <2>2, <3>1
  <2>3. CASE Count(u, p)
    <3>1. \A x \in Users, y \in Prices : x # u \/ y # p => sent'[<<x, y>>] = sent[<<x, y>>]
      BY <1>t, <2>3 DEF Count
    <3>2. sent'[<<u, p>>] =
            IF sent[<<u, p>>] < 2 THEN sent[<<u, p>>] + 1 ELSE sent[<<u, p>>]
      BY <1>t, <2>1, <2>3 DEF Count
    <3>3. p \in blurred \/ sent[<<u, p>>] = 0
      BY <2>1 DEF ReceiptInvariant, Unsent
    <3>4. \A w \in Workers \ {v} : pc'[w] = pc[w] /\ claim'[w] = claim[w]
      BY <2>1, WorkerSteps
    <3>5. p \in blurred' \/ (pc'[v] = "receipt" /\ claim' = claim)
          \/ sent' = sent
      BY <1>5, <1>t DEF SendDM, Goto, Blur
    <3>6. pc'[v] # "send"
      BY <1>5, <1>t DEF SendDM, Goto
    <3>7. Unsent'
      <4>1. SUFFICES ASSUME NEW w \in Workers, pc'[w] = "send", PriceAt(w)' \notin blurred'
                     PROVE  sent'[<<claim'[w].user, PriceAt(w)'>>] = 0
        BY DEF Unsent
      <4>2. w # v /\ pc[w] = "send" /\ claim'[w] = claim[w] /\ PriceAt(w)' = PriceAt(w)
        BY <3>4, <3>6, <4>1 DEF PriceAt
      <4>3. Working(w) /\ Working(v)
        BY <2>1, <4>2 DEF Working
      <4>4. PriceAt(w) # p
        BY <1>t, <4>1, <4>2, <4>3 DEF ReceiptInvariant, OneAtATime
      <4>5. sent[<<claim[w].user, PriceAt(w)>>] = 0 /\ claim[w].user \in Users
            /\ PriceAt(w) \in Prices
        BY <1>t, <4>1, <4>2, <4>3 DEF ReceiptInvariant, Unsent
      <4>6. QED
        BY <3>1, <4>2, <4>4, <4>5
    <3>8. Receipted'
      <4>1. SUFFICES ASSUME NEW x \in Users, NEW y \in Prices, sent'[<<x, y>>] > 0,
                            <<x, y>> \notin receipts', y \notin blurred'
                     PROVE  \E w \in Workers : pc'[w] = "receipt" /\ claim'[w].user = x
                                               /\ PriceAt(w)' = y
        BY DEF Receipted
      <4>2. CASE x = u /\ y = p /\ sent' # sent
        BY <2>1, <3>5, <4>1, <4>2 DEF PriceAt
      <4>3. CASE ~(x = u /\ y = p) \/ sent' = sent
        <5>1. PICK w \in Workers : pc[w] = "receipt" /\ claim[w].user = x /\ PriceAt(w) = y
          BY <1>t, <2>1, <3>1, <4>1, <4>3 DEF ReceiptInvariant, Receipted
        <5>2. w # v
          BY <2>1, <5>1
        <5>3. QED
          BY <3>4, <5>1, <5>2 DEF PriceAt
      <4>4. QED
        BY <4>2, <4>3
    <3>9. RepeatsExplained'
      <4>1. SUFFICES ASSUME NEW x \in Users, NEW y \in Prices, sent'[<<x, y>>] > 1
                     PROVE  y \in blurred'
        BY DEF RepeatsExplained
      <4>2. CASE x = u /\ y = p
        BY <1>t, <3>2, <3>3, <4>1, <4>2
      <4>3. CASE ~(x = u /\ y = p)
        BY <1>t, <3>1, <4>1, <4>3 DEF ReceiptInvariant, RepeatsExplained
      <4>4. QED
        BY <4>2, <4>3
    <3>10. QED
      BY <3>7, <3>8, <3>9
  <2>4. QED
    BY <1>5, <2>2, <2>3 DEF SendDM
<1>6. ASSUME NEW v \in Workers, RecordReceipt(v)
      PROVE  Receipted' /\ Unsent' /\ RepeatsExplained'
  <2>1. pc[v] = "receipt" /\ pc'[v] = "deliver" /\ sent' = sent /\ Pass(v)
        /\ receipts \subseteq receipts'
    BY <1>6, <1>t DEF RecordReceipt, Goto, Pass
  <2>2. CASE PriceAt(v) \in blurred'
    BY <1>q, <2>1, <2>2
  <2>3. CASE <<claim[v].user, PriceAt(v)>> \in receipts'
    <3>1. \A w \in Workers \ {v} : pc'[w] = pc[w] /\ claim'[w] = claim[w]
      BY <2>1, WorkerSteps
    <3>2. Unsent'
      BY <1>t, <2>1, <3>1 DEF ReceiptInvariant, Unsent, PriceAt
    <3>3. Receipted'
      <4>1. SUFFICES ASSUME NEW x \in Users, NEW y \in Prices, sent[<<x, y>>] > 0,
                            <<x, y>> \notin receipts', y \notin blurred'
                     PROVE  \E w \in Workers : pc'[w] = "receipt" /\ claim'[w].user = x
                                               /\ PriceAt(w)' = y
        BY <2>1 DEF Receipted
      <4>2. PICK w \in Workers : pc[w] = "receipt" /\ claim[w].user = x /\ PriceAt(w) = y
        BY <1>t, <2>1, <4>1 DEF ReceiptInvariant, Receipted
      <4>3. w # v
        BY <2>3, <4>1, <4>2
      <4>4. QED
        BY <3>1, <4>2, <4>3 DEF PriceAt
    <3>4. RepeatsExplained'
      BY <1>t, <2>1 DEF ReceiptInvariant, RepeatsExplained
    <3>5. QED
      BY <3>2, <3>3, <3>4
  <2>4. QED
    BY <1>6, <2>2, <2>3 DEF RecordReceipt, Blur
<1>7. ASSUME UNCHANGED <<pc, claim, sent, receipts, blurred>>
      PROVE  Receipted' /\ Unsent' /\ RepeatsExplained'
  BY <1>7 DEF ReceiptInvariant, Receipted, Unsent, RepeatsExplained, PriceAt
<1>8. QED
  BY <1>1, <1>2, <1>3, <1>4, <1>5, <1>6, <1>7
     DEF Next, Pass, ChoosePrunable, Prune, Rearm, Verify, CacheChange, Tick, userVars, vars

(* However often passes are retried, deferred, overtaken or abandoned, no user is
   sent a price twice unless a receipt was lost or two passes overlapped on it. *)
THEOREM ReceiptsPreventRepeats == Spec => []RepeatsExplained
<1>1. ReceiptInvariant => RepeatsExplained
  BY DEF ReceiptInvariant
<1>2. Typed /\ ReceiptInvariant /\ [Next]_vars => ReceiptInvariant'
  BY OneStep, ReceiptStep DEF ReceiptInvariant
<1>3. QED
  BY <1>1, <1>2, ReceiptInit, TypedInit, TypedStep, PTL DEF Spec

-----------------------------------------------------------------------------
(* The holder of an event has accounted for every destination it is through with,
   and the reasons to close the event early are on record. *)
OwnedOpen == \A o \in Offers : event[o].owner # "none" => event[o].status = "open"
Accounted ==
    \A w \in Workers :
        Delivering(w) /\ Holds(w) =>
            /\ claim[w].dropped \/ claim[w].old => excused[claim[w].offer]
            /\ ~claim[w].dropped /\ ~claim[w].failed
                 => (claim[w].seen \cup Users) \ claim[w].todo
                        \subseteq decided[claim[w].offer]

LEMMA OwnedInit == Init => OwnedOpen /\ Accounted
BY DEF Init, OwnedOpen, Accounted, NoEvent, Delivering

LEMMA OwnedStep == Typed /\ OwnedOpen /\ [Next]_vars => OwnedOpen'
<1> SUFFICES ASSUME Typed, OwnedOpen, [Next]_vars PROVE OwnedOpen'
  OBVIOUS
<1>t. event \in [Offers -> Events] /\ queue.offer \in Offers
      /\ \A w \in Workers : Working(w) => claim[w].offer \in Offers
  BY DEF Typed, TypeOK, ClaimsInStep, Queues
<1>1. ASSUME NEW w \in Workers, Ingest(w) PROVE OwnedOpen'
  <2>1. \A o \in Offers : event'[o] = event[o] \/ event'[o].owner = "none"
    <3>1. [NoEvent EXCEPT !.status = "open", !.age = queue.age].owner = "none"
      BY DEF NoEvent
    <3>2. QED
      BY <1>1, <1>t, <3>1 DEF Ingest
  <2>2. QED
    BY <2>1 DEF OwnedOpen
<1>2. ASSUME NEW w \in Workers, ClaimEvent(w) PROVE OwnedOpen'
  <2>1. CASE event' = event
    BY <2>1 DEF OwnedOpen
  <2>2. ASSUME NEW o \in Offers, Claimable(o),
               event' = [event EXCEPT ![o].owner = w, ![o].left = Lease]
        PROVE  OwnedOpen'
    <3>1. event'[o].status = "open" /\ \A x \in Offers \ {o} : event'[x] = event[x]
      BY <1>t, <2>2 DEF Claimable, Events
    <3>2. QED
      BY <3>1 DEF OwnedOpen
  <2>3. QED
    BY <1>2, <2>1, <2>2 DEF ClaimEvent
<1>3. ASSUME NEW w \in Workers, FinishPass(w) PROVE OwnedOpen'
  <2>1. claim[w].offer \in Offers
    BY <1>3, <1>t DEF FinishPass, Goto, Working
  <2>2. \A o \in Offers : event'[o] = event[o] \/ event'[o].owner = "none"
    BY <1>3, <1>t, <2>1 DEF FinishPass, Events
  <2>3. QED
    BY <2>2 DEF OwnedOpen
<1>4. ASSUME NEW v \in Workers, ChoosePrunable(v) \/ Prune(v) PROVE OwnedOpen'
  BY <1>4, <1>t DEF ChoosePrunable, Prune, OwnedOpen, NoEvent
<1>5. ASSUME NEW p \in Prices, Rearm(p) PROVE OwnedOpen'
  BY <1>5, <1>t DEF Rearm, OwnedOpen, NoEvent
<1>6. CASE Tick
  <2>1. ASSUME NEW o \in Offers, event[o].status # "absent"
        PROVE  event'[o].owner = event[o].owner /\ event'[o].status = event[o].status
    BY <1>6, <1>t, <2>1 DEF Tick, Events
  <2>2. ASSUME NEW o \in Offers, event[o].status = "absent"
        PROVE  event'[o].owner = "none"
    BY <1>6, <2>2 DEF Tick, NoEvent
  <2>3. QED
    BY <2>1, <2>2 DEF OwnedOpen
<1>7. ASSUME event' = event PROVE OwnedOpen'
  BY <1>7 DEF OwnedOpen
<1>8. QED
  BY <1>1, <1>2, <1>3, <1>4, <1>5, <1>6, <1>7
     DEF Next, Pass, Abandon, LoadGuilds, CheckOffers, DeliverGuild, CheckUser, SendDM,
         RecordReceipt, Verify, CacheChange, vars

(* A token appears in an event only by its worker's claim, and what is decided of
   an event that is held is not forgotten. *)
LEMMA HeldSteps ==
    ASSUME Typed, OwnedOpen, [Next]_vars, NEW o \in Offers, NEW w \in Workers,
           event'[o].owner = w, ~ClaimEvent(w)
    PROVE  /\ event[o].owner = w
           /\ decided[o] \subseteq decided'[o]
           /\ excused[o] => excused'[o]
<1>t. /\ event \in [Offers -> Events] /\ queue.offer \in Offers
      /\ "none" \notin Workers
      /\ decided \in [Offers -> SUBSET Destinations] /\ excused \in [Offers -> BOOLEAN]
      /\ \A v \in Workers : Working(v) => claim[v].offer \in Offers
  BY Constants DEF Typed, TypeOK, ClaimsInStep, Queues
(* Finding something only adds to what is decided. *)
<1>f. ASSUME NEW x \in Offers, NEW found, NEW excuse \in BOOLEAN, Find(x, found, excuse)
      PROVE  decided[o] \subseteq decided'[o] /\ (excused[o] => excused'[o])
  BY <1>f, <1>t DEF Find, historyVars
<1>1. ASSUME NEW v \in Workers, Ingest(v)
      PROVE  event[o].owner = w /\ decided[o] \subseteq decided'[o]
             /\ (excused[o] => excused'[o])
  <2>1. [NoEvent EXCEPT !.status = "open", !.age = queue.age].owner = "none"
    BY DEF NoEvent
  <2>2. o # queue.offer \/ (event' = event /\ UNCHANGED historyVars)
    BY <1>1, <1>t, <2>1 DEF Ingest
  <2>3. QED
    BY <1>1, <1>t, <2>2 DEF Ingest, historyVars
<1>2. ASSUME NEW v \in Workers, ClaimEvent(v)
      PROVE  event[o].owner = w /\ decided[o] \subseteq decided'[o]
             /\ (excused[o] => excused'[o])
  <2>1. v # w
    BY <1>2
  <2>2. event'[o] = event[o] \/ event'[o].owner = v
    <3>1. ASSUME NEW x \in Offers, event' = [event EXCEPT ![x].owner = v, ![x].left = Lease]
          PROVE  event'[o] = event[o] \/ event'[o].owner = v
      BY <1>t, <3>1 DEF Events
    <3>2. QED
      BY <1>2, <3>1 DEF ClaimEvent
  <2>3. QED
    BY <1>2, <2>1, <2>2 DEF ClaimEvent, historyVars
<1>3. ASSUME NEW v \in Workers, LoadGuilds(v) \/ Abandon(v)
      PROVE  event[o].owner = w /\ decided[o] \subseteq decided'[o]
             /\ (excused[o] => excused'[o])
  <2>1. CASE LoadGuilds(v)
    <3>1. claim[v].offer \in Offers /\ event' = event
      BY <2>1, <1>t DEF LoadGuilds, Goto, Working
    <3>2. PICK unread \in SUBSET live : Find(claim[v].offer, {}, unread # {})
      BY <2>1, Loading
    <3>3. QED
      BY <1>f, <3>1, <3>2
  <2>2. CASE Abandon(v)
    BY <2>2 DEF Abandon, historyVars
  <2>3. QED
    BY <1>3, <2>1, <2>2
<1>4. ASSUME NEW v \in Workers, CheckOffers(v)
      PROVE  event[o].owner = w /\ decided[o] \subseteq decided'[o]
             /\ (excused[o] => excused'[o])
  <2>1. claim[v].offer \in Offers /\ event' = event
    BY <1>4, <1>t DEF CheckOffers, Goto, Working
  <2>2. (Disproves(queue, PriceAt(v)) \/ event[claim[v].offer].age > MaxWait) \in BOOLEAN
    OBVIOUS
  <2>3. QED
    BY <1>4, <1>f, <2>1, <2>2 DEF CheckOffers
<1>5. ASSUME NEW v \in Workers, NEW g \in Guilds, NEW outcome \in Outcomes,
             DeliverGuild(v, g, outcome)
      PROVE  event[o].owner = w /\ decided[o] \subseteq decided'[o]
             /\ (excused[o] => excused'[o])
  <2>1. claim[v].offer \in Offers /\ event' = event
    BY <1>5, <1>t DEF DeliverGuild, Goto, Working
  <2>2. QED
    BY <1>5, <1>f, <2>1 DEF DeliverGuild, historyVars
<1>6. ASSUME NEW v \in Workers,
             (\E u \in Users : CheckUser(v, u)) \/ SendDM(v) \/ RecordReceipt(v)
      PROVE  event[o].owner = w /\ decided[o] \subseteq decided'[o]
             /\ (excused[o] => excused'[o])
  <2>1. claim[v].offer \in Offers /\ event' = event
    BY <1>6, <1>t DEF CheckUser, SendDM, RecordReceipt, Goto, Working
  <2>2. QED
    BY <1>6, <1>f, <2>1 DEF CheckUser, SendDM, RecordReceipt, historyVars
<1>7. ASSUME NEW v \in Workers, FinishPass(v)
      PROVE  event[o].owner = w /\ decided[o] \subseteq decided'[o]
             /\ (excused[o] => excused'[o])
  <2>1. claim[v].offer \in Offers
    BY <1>7, <1>t DEF FinishPass, Goto, Working
  <2>2. event'[o] = event[o] \/ event'[o].owner = "none"
    BY <1>7, <1>t, <2>1 DEF FinishPass, Events
  <2>3. QED
    BY <1>7, <1>t, <2>2 DEF FinishPass, historyVars
<1>8. ASSUME UNCHANGED historyVars, event'[o] = event[o] \/ event'[o].owner = "none"
                                    \/ event'[o].owner = event[o].owner
      PROVE  event[o].owner = w /\ decided[o] \subseteq decided'[o]
             /\ (excused[o] => excused'[o])
  BY <1>8, <1>t DEF historyVars
<1>9. ASSUME NEW v \in Workers, ChoosePrunable(v) \/ Prune(v)
      PROVE  event[o].owner = w /\ decided[o] \subseteq decided'[o]
             /\ (excused[o] => excused'[o])
  BY <1>8, <1>9, <1>t DEF ChoosePrunable, Prune, NoEvent
<1>10. ASSUME NEW p \in Prices, Rearm(p)
      PROVE  event[o].owner = w /\ decided[o] \subseteq decided'[o]
             /\ (excused[o] => excused'[o])
  BY <1>8, <1>10, <1>t DEF Rearm, NoEvent
<1>11. CASE Tick
  <2>1. event'[o].owner = "none" \/ event'[o].owner = event[o].owner
    BY <1>11, <1>t DEF Tick, NoEvent, Events
  <2>2. QED
    BY <1>8, <1>11, <2>1 DEF Tick
<1>12. CASE \/ \E status \in Statuses, x \in Offers : Verify(status, x)
            \/ \E g \in Guilds : CacheChange(g)
            \/ UNCHANGED vars
  BY <1>8, <1>12 DEF Verify, CacheChange, vars, historyVars
<1>13. QED
  BY <1>1, <1>2, <1>3, <1>4, <1>5, <1>6, <1>7, <1>9, <1>10, <1>11, <1>12 DEF Next, Pass

LEMMA AccountedStep ==
    Typed /\ OwnedOpen /\ Accounted /\ [Next]_vars => Accounted'
<1> SUFFICES ASSUME Typed, OwnedOpen, Accounted, [Next]_vars PROVE Accounted'
  OBVIOUS
<1>t. /\ pc \in [Workers -> {"idle", "claim", "load", "check", "deliver", "send",
                             "receipt"}]
      /\ claim \in [Workers -> Claims] /\ event \in [Offers -> Events]
      /\ decided \in [Offers -> SUBSET Destinations] /\ excused \in [Offers -> BOOLEAN]
      /\ \A v \in Workers : Working(v) => claim[v].offer \in Offers
      /\ "none" \notin Workers
  BY Constants DEF Typed, TypeOK, ClaimsInStep
(* The other workers, and every worker that takes no step. *)
<1>o. ASSUME NEW w \in Workers, pc'[w] = pc[w], claim'[w] = claim[w], ~ClaimEvent(w),
             Delivering(w)', Holds(w)'
      PROVE  /\ claim'[w].dropped \/ claim'[w].old => excused'[claim'[w].offer]
             /\ ~claim'[w].dropped /\ ~claim'[w].failed
                  => (claim'[w].seen \cup Users) \ claim'[w].todo
                         \subseteq decided'[claim'[w].offer]
  <2>1. Delivering(w) /\ claim[w].offer \in Offers
    BY <1>o, <1>t DEF Delivering, Working
  <2>2. event'[claim[w].offer].owner = w
    BY <1>o DEF Holds
  <2>3. Holds(w) /\ decided[claim[w].offer] \subseteq decided'[claim[w].offer]
        /\ (excused[claim[w].offer] => excused'[claim[w].offer])
    BY <1>o, <2>1, <2>2, HeldSteps DEF Holds
  <2>4. QED
    BY <1>o, <2>1, <2>3 DEF Accounted
(* A worker that steps within its delivery or begins it. *)
<1>w. ASSUME NEW v \in Workers, Pass(v) \/ Abandon(v),
             Delivering(v)' /\ Holds(v)' =>
               /\ claim'[v].dropped \/ claim'[v].old => excused'[claim'[v].offer]
               /\ ~claim'[v].dropped /\ ~claim'[v].failed
                    => (claim'[v].seen \cup Users) \ claim'[v].todo
                           \subseteq decided'[claim'[v].offer]
      PROVE  Accounted'
  <2>1. SUFFICES ASSUME NEW w \in Workers \ {v}, Delivering(w)', Holds(w)'
                 PROVE  /\ claim'[w].dropped \/ claim'[w].old => excused'[claim'[w].offer]
                        /\ ~claim'[w].dropped /\ ~claim'[w].failed
                             => (claim'[w].seen \cup Users) \ claim'[w].todo
                                    \subseteq decided'[claim'[w].offer]
    BY <1>w DEF Accounted
  <2>2. pc'[w] = pc[w] /\ claim'[w] = claim[w]
    BY <1>w, <2>1, WorkerSteps
  <2>3. ~ClaimEvent(w)
    BY <1>t, <2>1, <2>2 DEF ClaimEvent, Goto, Delivering
  <2>4. QED
    BY <1>o, <2>1, <2>2, <2>3
(* A destination that is decided, or that fails. *)
<1>d. ASSUME NEW v \in Workers, NEW d \in Destinations, Delivering(v), event' = event,
             \/ Done(v, d) /\ Find(claim[v].offer, {d}, FALSE)
             \/ Failed(v, d) /\ UNCHANGED historyVars,
             Holds(v)'
      PROVE  /\ claim'[v].dropped \/ claim'[v].old => excused'[claim'[v].offer]
             /\ ~claim'[v].dropped /\ ~claim'[v].failed
                  => (claim'[v].seen \cup Users) \ claim'[v].todo
                         \subseteq decided'[claim'[v].offer]
  <2>1. claim'[v].offer = claim[v].offer /\ claim[v].offer \in Offers
    BY <1>d, <1>t, Settled DEF Delivering, Working
  <2>2. Holds(v) /\ event[claim[v].offer].status = "open"
    BY <1>d, <1>t, <2>1 DEF Holds, OwnedOpen
  <2>3. claim'[v].seen = claim[v].seen /\ claim'[v].todo = claim[v].todo \ {d}
        /\ claim'[v].dropped = claim[v].dropped /\ claim'[v].old = claim[v].old
        /\ claim'[v].failed = (claim[v].failed \/ Failed(v, d))
    BY <1>d, Settled
  <2>4. CASE Done(v, d) /\ Find(claim[v].offer, {d}, FALSE)
    <3>1. decided' = [decided EXCEPT ![claim[v].offer] = @ \cup {d}]
          /\ excused' = [excused EXCEPT ![claim[v].offer] = @ \/ FALSE]
      BY <2>2, <2>4 DEF Find
    <3>2. decided'[claim[v].offer] = decided[claim[v].offer] \cup {d}
      BY <1>t, <2>1, <3>1
    <3>3. excused[claim[v].offer] => excused'[claim[v].offer]
      BY <1>t, <2>1, <3>1
    <3>4. claim[v].dropped \/ claim[v].old => excused[claim[v].offer]
      BY <1>d, <2>2 DEF Accounted
    <3>5. ~claim[v].dropped /\ ~claim[v].failed
            => (claim[v].seen \cup Users) \ claim[v].todo \subseteq decided[claim[v].offer]
      BY <1>d, <2>2 DEF Accounted
    <3>6. claim'[v].dropped \/ claim'[v].old => excused'[claim'[v].offer]
      BY <2>1, <2>3, <3>3, <3>4
    <3>7. ~claim'[v].dropped /\ ~claim'[v].failed => ~claim[v].dropped /\ ~claim[v].failed
      BY <2>3
    <3>8. (claim'[v].seen \cup Users) \ claim'[v].todo
            \subseteq ((claim[v].seen \cup Users) \ claim[v].todo) \cup {d}
      BY <2>3
    <3>9. QED
      BY <2>1, <3>2, <3>5, <3>6, <3>7, <3>8
  <2>5. CASE Failed(v, d) /\ UNCHANGED historyVars
    <3>1. claim'[v].failed
      BY <2>3, <2>5
    <3>2. QED
      BY <1>d, <2>1, <2>2, <2>3, <2>5, <3>1 DEF Accounted, historyVars
  <2>6. QED
    BY <1>d, <2>4, <2>5
<1>1. ASSUME NEW v \in Workers, Ingest(v) \/ ClaimEvent(v) \/ LoadGuilds(v)
                                 \/ FinishPass(v) \/ Abandon(v)
      PROVE  Accounted'
  <2>1. pc'[v] \notin {"deliver", "send", "receipt"}
    BY <1>1, <1>t DEF Ingest, ClaimEvent, LoadGuilds, FinishPass, Abandon, Goto
  <2>2. QED
    BY <1>1, <1>w, <2>1 DEF Delivering, Pass
<1>2. ASSUME NEW v \in Workers, CheckOffers(v) PROVE Accounted'
  <2> DEFINE c == claim[v]
             o == c.offer
             dropped == Disproves(queue, PriceAt(v))
             old == event[o].age > MaxWait
  <2>1. o \in Offers /\ c \in Claims /\ event' = event
    BY <1>2, <1>t DEF CheckOffers, Goto, Working
  <2>2. /\ claim'[v].offer = o /\ claim'[v].seen = c.seen
        /\ claim'[v].dropped = dropped /\ claim'[v].old = old
        /\ claim'[v].todo = Recipients(c, dropped)
    BY <1>2, <1>t DEF CheckOffers, Claims
  <2>3. ASSUME Holds(v)'
        PROVE  /\ dropped \/ old => excused'[o]
               /\ Users \ enabled \subseteq decided'[o]
    <3>1. event[o].status = "open"
      BY <1>t, <2>1, <2>2, <2>3 DEF Holds, OwnedOpen
    <3>2. decided' = [decided EXCEPT ![o] = @ \cup (Users \ enabled)]
          /\ excused' = [excused EXCEPT ![o] = @ \/ (dropped \/ old)]
      BY <1>2, <3>1 DEF CheckOffers, Find
    <3> HIDE DEF dropped, old, o
    <3>3. QED
      BY <1>t, <2>1, <3>2
  <2>4. ~dropped => (c.seen \cup Users) \ Recipients(c, dropped) \subseteq Users \ enabled
    BY DEF Recipients
  <2> HIDE DEF dropped, old, o, c
  <2>5. QED
    BY <1>2, <1>w, <2>2, <2>3, <2>4 DEF Pass
<1>3. ASSUME NEW v \in Workers, NEW g \in Guilds, NEW outcome \in Outcomes,
             DeliverGuild(v, g, outcome)
      PROVE  Accounted'
  <2>1. Delivering(v) /\ event' = event /\ g \in Destinations /\ Pass(v)
        /\ (\/ Done(v, g) /\ Find(claim[v].offer, {g}, FALSE)
            \/ Failed(v, g) /\ UNCHANGED historyVars)
    BY <1>3 DEF DeliverGuild, Goto, Delivering, Destinations, Pass
  <2>2. QED
    BY <1>d, <1>w, <2>1
<1>4. ASSUME NEW v \in Workers, NEW u \in Users, CheckUser(v, u) PROVE Accounted'
  <2>1. Delivering(v) /\ event' = event /\ u \in Destinations /\ Pass(v)
    BY <1>4 DEF CheckUser, Goto, Delivering, Destinations, Pass
  <2>2. CASE \/ Done(v, u) /\ Find(claim[v].offer, {u}, FALSE)
             \/ Failed(v, u) /\ UNCHANGED historyVars
    BY <1>d, <1>w, <2>1, <2>2
  <2>3. CASE claim' = [claim EXCEPT ![v].user = u] /\ UNCHANGED historyVars
    <3>1. claim' = [claim EXCEPT ![v] = [claim[v] EXCEPT !.user = u]]
      BY <1>t, <2>3
    <3>2. /\ claim'[v].offer = claim[v].offer /\ claim'[v].seen = claim[v].seen
          /\ claim'[v].dropped = claim[v].dropped /\ claim'[v].old = claim[v].old
          /\ claim'[v].todo = claim[v].todo /\ claim'[v].failed = claim[v].failed
      BY <1>t, <3>1 DEF Claims
    <3>3. QED
      BY <1>w, <2>1, <2>3, <3>2 DEF Accounted, Holds, historyVars
  <2>4. QED
    BY <1>4, <2>2, <2>3 DEF CheckUser
<1>5. ASSUME NEW v \in Workers, SendDM(v) \/ RecordReceipt(v) PROVE Accounted'
  <2> DEFINE u == claim[v].user
  <2>1. Delivering(v) /\ event' = event /\ u \in Destinations /\ Pass(v)
    BY <1>5 DEF SendDM, RecordReceipt, Goto, Delivering, Destinations, Pass, Typed,
       ClaimsInStep
  <2>2. CASE \/ Done(v, u) /\ Find(claim[v].offer, {u}, FALSE)
             \/ Failed(v, u) /\ UNCHANGED historyVars
    BY <1>d, <1>w, <2>1, <2>2
  <2>3. CASE claim' = claim /\ UNCHANGED historyVars
    BY <1>w, <2>1, <2>3 DEF Accounted, Holds, historyVars
  <2>4. QED
    BY <1>5, <2>2, <2>3 DEF SendDM, RecordReceipt
<1>6. ASSUME UNCHANGED <<pc, claim>>, \A w \in Workers : ~ClaimEvent(w) PROVE Accounted'
  BY <1>6, <1>o DEF Accounted
<1>7. CASE UNCHANGED <<pc, claim>>
  <2>1. \A w \in Workers : ~ClaimEvent(w)
    BY <1>7, <1>t DEF ClaimEvent, Goto
  <2>2. QED
    BY <1>6, <1>7, <2>1
<1>8. QED
  BY <1>1, <1>2, <1>3, <1>4, <1>5, <1>7
     DEF Next, Pass, ChoosePrunable, Prune, Rearm, Verify, CacheChange, Tick, vars

-----------------------------------------------------------------------------
(* The holder of an event has every server among those it delivers to or waits for,
   or has put on record that it could not read one. *)
Loaded(w) == pc[w] \in {"check", "deliver", "send", "receipt"}
AllLoaded ==
    \A w \in Workers :
        Loaded(w) /\ Holds(w) =>
            excused[claim[w].offer] \/ claim[w].seen \cup claim[w].awaited = Guilds

LEMMA LoadedInit == Init => AllLoaded
BY DEF Init, AllLoaded, Loaded

(* After the load, what a worker knows of the guilds does not change. *)
LEMMA LoadedKept ==
    ASSUME Typed, NEW v \in Workers, Pass(v) \/ Abandon(v), Loaded(v)', ~LoadGuilds(v)
    PROVE  /\ Loaded(v) /\ ~ClaimEvent(v)
           /\ claim'[v].offer = claim[v].offer
           /\ claim'[v].seen = claim[v].seen /\ claim'[v].awaited = claim[v].awaited
<1>t. /\ pc \in [Workers -> {"idle", "claim", "load", "check", "deliver", "send",
                             "receipt"}]
      /\ claim \in [Workers -> Claims] /\ claim[v] \in Claims
  BY DEF Typed, TypeOK
<1>1. ASSUME NEW d, Done(v, d) \/ Failed(v, d)
      PROVE  /\ claim'[v].offer = claim[v].offer
             /\ claim'[v].seen = claim[v].seen /\ claim'[v].awaited = claim[v].awaited
  BY <1>1, Settled
<1>2. CASE Ingest(v) \/ ClaimEvent(v) \/ FinishPass(v) \/ Abandon(v)
  BY <1>t, <1>2 DEF Ingest, ClaimEvent, FinishPass, Abandon, Goto, Loaded
<1>3. CASE CheckOffers(v)
  BY <1>t, <1>3 DEF CheckOffers, Goto, Loaded, ClaimEvent, Claims
<1>4. ASSUME NEW g \in Guilds, NEW outcome \in Outcomes, DeliverGuild(v, g, outcome)
      PROVE  /\ Loaded(v) /\ ~ClaimEvent(v)
             /\ claim'[v].offer = claim[v].offer
             /\ claim'[v].seen = claim[v].seen /\ claim'[v].awaited = claim[v].awaited
  <2>1. Loaded(v) /\ ~ClaimEvent(v)
    BY <1>4 DEF DeliverGuild, Goto, Loaded, ClaimEvent
  <2>2. Done(v, g) \/ Failed(v, g)
    BY <1>4 DEF DeliverGuild
  <2>3. QED
    BY <1>1, <2>1, <2>2
<1>5. ASSUME NEW u \in Users, CheckUser(v, u)
      PROVE  /\ Loaded(v) /\ ~ClaimEvent(v)
             /\ claim'[v].offer = claim[v].offer
             /\ claim'[v].seen = claim[v].seen /\ claim'[v].awaited = claim[v].awaited
  <2>1. Loaded(v) /\ ~ClaimEvent(v)
    BY <1>5 DEF CheckUser, Goto, Loaded, ClaimEvent
  <2>2. CASE claim' = [claim EXCEPT ![v].user = u]
    BY <1>t, <2>1, <2>2 DEF Claims
  <2>3. CASE Done(v, u) \/ Failed(v, u)
    BY <1>1, <2>1, <2>3
  <2>4. QED
    BY <1>5, <2>2, <2>3 DEF CheckUser
<1>6. CASE SendDM(v) \/ RecordReceipt(v)
  <2>1. Loaded(v) /\ ~ClaimEvent(v)
    BY <1>6 DEF SendDM, RecordReceipt, Goto, Loaded, ClaimEvent
  <2>2. CASE claim' = claim
    BY <2>1, <2>2
  <2>3. CASE Done(v, claim[v].user) \/ Failed(v, claim[v].user)
    BY <1>1, <2>1, <2>3
  <2>4. QED
    BY <1>6, <2>2, <2>3 DEF SendDM, RecordReceipt
<1>7. QED
  BY <1>2, <1>3, <1>4, <1>5, <1>6 DEF Pass

LEMMA LoadedStep == Typed /\ OwnedOpen /\ AllLoaded /\ [Next]_vars => AllLoaded'
<1> SUFFICES ASSUME Typed, OwnedOpen, AllLoaded, [Next]_vars,
                    NEW w \in Workers, Loaded(w)', Holds(w)'
             PROVE  excused'[claim'[w].offer]
                      \/ claim'[w].seen \cup claim'[w].awaited = Guilds
  BY DEF AllLoaded
<1>t. /\ claim \in [Workers -> Claims] /\ event \in [Offers -> Events]
      /\ excused \in [Offers -> BOOLEAN]
      /\ \A v \in Workers : Working(v) => claim[v].offer \in Offers
      /\ "none" \notin Workers
  BY Constants DEF Typed, TypeOK, ClaimsInStep
(* What the worker knew before it knows after. *)
<1>k. ASSUME Loaded(w), ~ClaimEvent(w), claim'[w].offer = claim[w].offer,
             claim'[w].seen = claim[w].seen, claim'[w].awaited = claim[w].awaited
      PROVE  excused'[claim'[w].offer]
               \/ claim'[w].seen \cup claim'[w].awaited = Guilds
  <2>1. claim[w].offer \in Offers
    BY <1>k, <1>t DEF Loaded, Working
  <2>2. event'[claim[w].offer].owner = w
    BY <1>k DEF Holds
  <2>3. Holds(w) /\ (excused[claim[w].offer] => excused'[claim[w].offer])
    BY <1>k, <2>1, <2>2, HeldSteps DEF Holds
  <2>4. QED
    BY <1>k, <2>3 DEF AllLoaded
<1>s. ASSUME pc'[w] = pc[w], claim'[w] = claim[w]
      PROVE  excused'[claim'[w].offer]
               \/ claim'[w].seen \cup claim'[w].awaited = Guilds
  <2>1. Loaded(w)
    BY <1>s DEF Loaded
  <2>2. ~ClaimEvent(w)
    BY <2>1 DEF ClaimEvent, Goto, Loaded
  <2>3. QED
    BY <1>k, <1>s, <2>1, <2>2
<1>1. CASE LoadGuilds(w)
  <2>1. PICK unread \in SUBSET live, c \in Claims :
          /\ c.offer = claim[w].offer /\ claim' = [claim EXCEPT ![w] = c]
          /\ c.seen \cup c.awaited \cup unread = Guilds
          /\ Find(claim[w].offer, {}, unread # {})
    BY <1>1, Loading
  <2>2. claim'[w] = c /\ claim[w].offer \in Offers /\ event' = event
    BY <1>1, <1>t, <2>1 DEF LoadGuilds, Goto, Working
  <2>3. CASE unread = {}
    BY <2>1, <2>2, <2>3
  <2>4. CASE unread # {}
    <3>1. event[c.offer].owner = w
      BY <2>2 DEF Holds
    <3>2. event[c.offer].status = "open"
      BY <1>t, <2>1, <2>2, <3>1 DEF OwnedOpen
    <3>3. excused' = [excused EXCEPT ![c.offer] = @ \/ unread # {}]
      BY <2>1, <3>2 DEF Find
    <3>4. QED
      BY <1>t, <2>1, <2>2, <2>4, <3>3
  <2>5. QED
    BY <2>3, <2>4
<1>2. CASE (Pass(w) \/ Abandon(w)) /\ ~LoadGuilds(w)
  BY <1>k, <1>2, LoadedKept
<1>3. ASSUME NEW v \in Workers \ {w}, Pass(v) \/ Abandon(v)
      PROVE  pc'[w] = pc[w] /\ claim'[w] = claim[w]
  BY <1>3, WorkerSteps
<1>4. CASE UNCHANGED <<pc, claim>>
  BY <1>s, <1>4
<1>5. QED
  BY <1>s, <1>1, <1>2, <1>3, <1>4
     DEF Next, ChoosePrunable, Prune, Rearm, Verify, CacheChange, Tick, vars

-----------------------------------------------------------------------------
(* The events implement the outbox. *)
LEMMA OutboxInit == Init => Abstract!Init
BY DEF Init, Abstract!Init, NoEvent, Doomed

(* What a pass finds is a decision of the outbox, or nothing. *)
LEMMA FindDecides ==
    ASSUME Typed, NEW o \in Offers, NEW found \in SUBSET Destinations,
           NEW excuse \in BOOLEAN, Find(o, found, excuse), event' = event,
           doomed' = doomed
    PROVE  [Abstract!Next]_(Abstract!vars)
<1>1. CASE event[o].status = "open"
  <2>1. Abstract!Decide(o)
    BY <1>1 DEF Find, Abstract!Decide, Doomed
  <2>2. QED
    BY <2>1 DEF Abstract!Next
<1>2. CASE event[o].status # "open"
  BY <1>2 DEF Find, Abstract!vars, historyVars, Doomed
<1>3. QED
  BY <1>1, <1>2

LEMMA OutboxStep ==
    Typed /\ OwnedOpen /\ Accounted /\ AllLoaded /\ [Next]_vars
      => [Abstract!Next]_(Abstract!vars)
<1> SUFFICES ASSUME Typed, OwnedOpen, Accounted, AllLoaded, [Next]_vars
             PROVE  [Abstract!Next]_(Abstract!vars)
  OBVIOUS
<1> USE DEF worldVars, pruneVars
<1>t. /\ event \in [Offers -> Events] /\ queue.offer \in Offers
      /\ decided \in [Offers -> SUBSET Destinations]
      /\ \A v \in Workers : Working(v) => claim[v].offer \in Offers
      /\ "none" \notin Workers
  BY Constants DEF Typed, TypeOK, ClaimsInStep, Queues
(* One event is opened, decided or closed. *)
<1>e. ASSUME NEW e \in Offers, Abstract!Open(e) \/ Abstract!Close(e)
      PROVE  [Abstract!Next]_(Abstract!vars)
  BY <1>e DEF Abstract!Next
(* A step that changes no status and no history stutters. *)
<1>s. ASSUME UNCHANGED historyVars, doomed' = doomed,
             \A o \in Offers : event'[o].status = event[o].status
      PROVE  [Abstract!Next]_(Abstract!vars)
  BY <1>s DEF Abstract!vars, historyVars, Doomed
<1>1. ASSUME NEW w \in Workers, Ingest(w) PROVE [Abstract!Next]_(Abstract!vars)
  <2> DEFINE new == [NoEvent EXCEPT !.status = "open", !.age = queue.age]
  <2>0. PICK o \in Offers : o = queue.offer
    BY <1>t
  <2>d. doomed' = doomed
    BY <1>1 DEF Ingest
  <2>1. CASE UNCHANGED <<event, historyVars>>
    BY <1>s, <2>1, <2>d
  <2>2. CASE /\ event[o].status = "absent"
             /\ event' = [event EXCEPT ![o] = new]
             /\ decided' = [decided EXCEPT ![o] = {}]
             /\ excused' = [excused EXCEPT ![o] = FALSE]
    <3>1. new.status = "open"
      BY DEF NoEvent
    <3> HIDE DEF new
    <3>2. [x \in Offers |-> event'[x].status]
            = [[x \in Offers |-> event[x].status] EXCEPT ![o] = "open"]
      BY <1>t, <2>2, <3>1
    <3>3. [x \in Offers |-> event[x].status][o] = "absent"
      BY <1>t, <2>2
    <3>4. \E excuse \in BOOLEAN : excused' = [excused EXCEPT ![o] = excuse]
      BY <2>2
    <3>5. Doomed' = Doomed
      BY <2>d DEF Doomed
    <3>6. decided' = [decided EXCEPT ![o] = {}]
      BY <2>2
    <3>7. Abstract!Open(o)
      BY <3>2, <3>3, <3>4, <3>5, <3>6 DEF Abstract!Open
    <3>8. QED
      BY <1>t, <1>e, <2>0, <3>7
  <2>3. QED
    BY <1>1, <2>0, <2>1, <2>2 DEF Ingest
<1>2. ASSUME NEW w \in Workers, ClaimEvent(w) PROVE [Abstract!Next]_(Abstract!vars)
  <2>1. ASSUME NEW o \in Offers, event' = [event EXCEPT ![o].owner = w, ![o].left = Lease]
        PROVE  \A x \in Offers : event'[x].status = event[x].status
    BY <1>t, <2>1 DEF Events
  <2>2. \A x \in Offers : event'[x].status = event[x].status
    BY <1>2, <2>1 DEF ClaimEvent
  <2>3. QED
    BY <1>2, <1>s, <2>2 DEF ClaimEvent
<1>3. ASSUME NEW w \in Workers, LoadGuilds(w) \/ Abandon(w)
      PROVE [Abstract!Next]_(Abstract!vars)
  <2>1. CASE LoadGuilds(w)
    <3>1. claim[w].offer \in Offers /\ event' = event /\ doomed' = doomed
      BY <2>1, <1>t DEF LoadGuilds, Goto, Working
    <3>2. PICK unread \in SUBSET live : Find(claim[w].offer, {}, unread # {})
      BY <2>1, Loading
    <3>3. {} \in SUBSET Destinations /\ (unread # {}) \in BOOLEAN
      OBVIOUS
    <3>4. QED
      BY <3>1, <3>2, <3>3, FindDecides
  <2>2. CASE Abandon(w)
    BY <2>2, <1>s DEF Abandon
  <2>3. QED
    BY <1>3, <2>1, <2>2
<1>4. ASSUME NEW w \in Workers, CheckOffers(w) PROVE [Abstract!Next]_(Abstract!vars)
  <2>1. claim[w].offer \in Offers /\ event' = event
    BY <1>4, <1>t DEF CheckOffers, Goto, Working
  <2>2. (Disproves(queue, PriceAt(w)) \/ event[claim[w].offer].age > MaxWait) \in BOOLEAN
        /\ Users \ enabled \in SUBSET Destinations
    BY DEF Destinations
  <2>3. QED
    BY <1>4, <2>1, <2>2, FindDecides DEF CheckOffers
<1>5. ASSUME NEW w \in Workers, NEW g \in Guilds, NEW outcome \in Outcomes,
             DeliverGuild(w, g, outcome)
      PROVE  [Abstract!Next]_(Abstract!vars)
  <2>1. claim[w].offer \in Offers /\ event' = event /\ {g} \in SUBSET Destinations
    BY <1>5, <1>t DEF DeliverGuild, Goto, Working, Destinations
  <2>2. QED
    BY <1>5, <1>s, <2>1, FindDecides DEF DeliverGuild
<1>6. ASSUME NEW w \in Workers, NEW u \in Users, CheckUser(w, u)
      PROVE  [Abstract!Next]_(Abstract!vars)
  <2>1. claim[w].offer \in Offers /\ event' = event /\ {u} \in SUBSET Destinations
    BY <1>6, <1>t DEF CheckUser, Goto, Working, Destinations
  <2>2. QED
    BY <1>6, <1>s, <2>1, FindDecides DEF CheckUser
<1>7. ASSUME NEW w \in Workers, SendDM(w) \/ RecordReceipt(w)
      PROVE  [Abstract!Next]_(Abstract!vars)
  <2>1. claim[w].offer \in Offers /\ event' = event
        /\ {claim[w].user} \in SUBSET Destinations
    BY <1>7, <1>t DEF SendDM, RecordReceipt, Goto, Working, Destinations, Typed,
       ClaimsInStep
  <2>2. QED
    BY <1>7, <1>s, <2>1, FindDecides DEF SendDM, RecordReceipt
<1>8. ASSUME NEW w \in Workers, FinishPass(w) PROVE [Abstract!Next]_(Abstract!vars)
  <2>0. PICK o \in Offers : o = claim[w].offer
    BY <1>8, <1>t DEF FinishPass, Goto, Working
  <2>1. Delivering(w) /\ UNCHANGED historyVars /\ claim[w].todo = {}
        /\ claim[w] \in Claims /\ doomed' = doomed
    BY <1>8, <1>t DEF FinishPass, Goto, Working, Delivering, Typed, TypeOK
  <2>2. CASE ~Holds(w) \/ Outcome(claim[w]) # "close"
    <3>1. \A x \in Offers : event'[x].status = event[x].status
      BY <1>8, <1>t, <2>0, <2>1, <2>2 DEF FinishPass, Events
    <3>2. QED
      BY <1>s, <2>1, <3>1
  <2>3. CASE Holds(w) /\ Outcome(claim[w]) = "close"
    <3>1. event[o].status = "open"
      BY <1>t, <2>0, <2>1, <2>3 DEF Holds, OwnedOpen
    <3>2. excused[o] \/ decided[o] = Destinations
      <4>1. ~claim[w].failed
            /\ (claim[w].dropped \/ claim[w].awaited = {} \/ claim[w].old)
        BY <2>3 DEF Outcome
      <4>2. CASE claim[w].dropped \/ claim[w].old
        BY <2>0, <2>1, <2>3, <4>2 DEF Accounted
      <4>3. CASE ~claim[w].dropped /\ claim[w].awaited = {}
        <5>1. excused[o] \/ claim[w].seen = Guilds
          BY <2>0, <2>1, <2>3, <4>3 DEF AllLoaded, Loaded, Delivering
        <5>2. QED
          BY <1>t, <2>0, <2>1, <2>3, <4>1, <4>3, <5>1 DEF Accounted, Destinations
      <4>4. QED
        BY <4>1, <4>2, <4>3
    <3>3. [x \in Offers |-> event'[x].status]
            = [[x \in Offers |-> event[x].status] EXCEPT ![o] = "closed"]
      BY <1>8, <1>t, <2>0, <2>1, <2>3 DEF FinishPass, Events
    <3>4. Abstract!Close(o)
      BY <1>t, <2>1, <3>1, <3>2, <3>3 DEF Abstract!Close, historyVars, Doomed
    <3>5. QED
      BY <1>e, <3>4
  <2>4. QED
    BY <2>2, <2>3
(* Events are forgotten by a prune or by price. *)
<1>f. ASSUME NEW gone_1 \in SUBSET (Doomed \cup {o \in Offers : event[o].status = "closed"}),
             \A o \in Offers : event'[o] = IF o \in gone_1 THEN NoEvent ELSE event[o],
             UNCHANGED historyVars, Doomed' \subseteq Doomed
      PROVE  [Abstract!Next]_(Abstract!vars)
  <2>1. NoEvent.status = "absent"
    BY DEF NoEvent
  <2>2. [o \in Offers |-> event'[o].status]
          = [o \in Offers |-> IF o \in gone_1 THEN "absent" ELSE event[o].status]
    BY <1>f, <2>1
  <2>3. [o \in Offers |-> event'[o].status]
          = [o \in Offers |-> IF o \in gone_1 THEN "absent"
                              ELSE [x \in Offers |-> event[x].status][o]]
    BY <2>2
  <2>4. gone_1 \in SUBSET (Doomed \cup Abstract!Closed)
    BY <1>f DEF Abstract!Closed
  <2>5. Abstract!Forget
    BY <1>f, <2>3, <2>4 DEF Abstract!Forget, historyVars
  <2>6. QED
    BY <2>5 DEF Abstract!Next
<1>9. ASSUME NEW w \in Workers, ChoosePrunable(w) \/ Prune(w)
      PROVE  [Abstract!Next]_(Abstract!vars)
  <2>t. doomed \in [Workers -> SUBSET Offers]
    BY DEF Typed, TypeOK
  <2>1. CASE ChoosePrunable(w)
    <3>1. PICK keys \in SUBSET {o \in Offers : Prunable(o)} :
             doomed' = [doomed EXCEPT ![w] = keys]
      BY <2>1 DEF ChoosePrunable
    <3>2. keys \subseteq Abstract!Closed
      BY <3>1 DEF Prunable, Abstract!Closed
    <3>3. Doomed' \subseteq Doomed \cup keys
      BY <2>t, <3>1 DEF Doomed
    <3>4. Doomed' \in SUBSET (Doomed \cup Abstract!Closed)
      BY <3>2, <3>3
    <3>5. Abstract!Doom
      BY <2>1, <3>4 DEF ChoosePrunable, Abstract!Doom, historyVars
    <3>6. QED
      BY <3>5 DEF Abstract!Next
  <2>2. CASE Prune(w)
    <3>1. doomed[w] \in SUBSET (Doomed \cup {o \in Offers : event[o].status = "closed"})
      BY DEF Doomed
    <3>2. Doomed' \subseteq Doomed
      BY <2>t, <2>2 DEF Doomed, Prune
    <3>3. /\ \A o \in Offers : event'[o] = IF o \in doomed[w] THEN NoEvent ELSE event[o]
          /\ UNCHANGED historyVars
      BY <2>2 DEF Prune
    <3>4. QED
      BY <1>f, <3>1, <3>2, <3>3
  <2>3. QED
    BY <1>9, <2>1, <2>2
<1>10. ASSUME NEW p \in Prices, Rearm(p) PROVE [Abstract!Next]_(Abstract!vars)
  <2> DEFINE closed == {o \in Offers : PriceOf[o] = p /\ event[o].status = "closed"}
  <2>1. closed \in SUBSET (Doomed \cup {x \in Offers : event[x].status = "closed"})
        /\ \A x \in Offers : event'[x] = IF x \in closed THEN NoEvent ELSE event[x]
    BY <1>10, <1>t DEF Rearm
  <2>2. Doomed' \subseteq Doomed /\ UNCHANGED historyVars
    BY <1>10 DEF Rearm, worldVars, pruneVars, Doomed
  <2> HIDE DEF closed
  <2>3. QED
    BY <1>f, <2>1, <2>2
<1>11. CASE Tick
  <2>1. \A o \in Offers : event'[o].status = event[o].status
    BY <1>11, <1>t DEF Tick, NoEvent, Events
  <2>2. QED
    BY <1>11, <1>s, <2>1 DEF Tick
<1>12. CASE \/ \E status \in Statuses, x \in Offers : Verify(status, x)
            \/ \E g \in Guilds : CacheChange(g)
            \/ UNCHANGED vars
  BY <1>12, <1>s DEF Verify, CacheChange, vars, historyVars
<1>13. QED
  BY <1>1, <1>2, <1>3, <1>4, <1>5, <1>6, <1>7, <1>8, <1>9, <1>10, <1>11, <1>12
     DEF Next, Pass

(* Whatever the processes, servers, users and delays, the fanout is an outbox: no
   event is closed before everyone was decided or a pass had a reason, and none is
   deleted while it is open unless a prune had chosen it before it was opened. *)
THEOREM Implements == Spec => ImplementsOutbox
<1>1. Spec => []Typed
  BY TypedInit, TypedStep, PTL DEF Spec
<1>2. Spec => [](OwnedOpen /\ Accounted /\ AllLoaded)
  BY <1>1, OwnedInit, OwnedStep, AccountedStep, LoadedInit, LoadedStep, PTL DEF Spec
<1>3. QED
  BY <1>1, <1>2, OutboxInit, OutboxStep, PTL DEF Spec, ImplementsOutbox, Abstract!Spec

(* A step of the outbox closes no event that is not settled. *)
LEMMA SettledStep ==
    ASSUME Typed, Abstract!ClosedIsSettled, [Abstract!Next]_(Abstract!vars)
    PROVE  Abstract!ClosedIsSettled'
<1> DEFINE status == [e \in Offers |-> event[e].status]
<1>t. /\ DOMAIN status = Offers /\ \A e \in Offers : status[e] = event[e].status
      /\ DOMAIN status' = Offers /\ \A e \in Offers : status'[e] = event'[e].status
      /\ decided \in [Offers -> SUBSET Destinations] /\ excused \in [Offers -> BOOLEAN]
      /\ \A e \in Offers : status[e] = "closed" => decided[e] = Destinations \/ excused[e]
  BY DEF Typed, TypeOK, Abstract!ClosedIsSettled
<1> SUFFICES ASSUME NEW d \in Offers, status'[d] = "closed"
             PROVE  decided'[d] = Destinations \/ excused'[d]
  BY <1>t DEF Abstract!ClosedIsSettled
<1>1. ASSUME NEW e \in Offers, Abstract!Open(e) PROVE decided'[d] = Destinations \/ excused'[d]
  <2>1. status' = [status EXCEPT ![e] = "open"]
    BY <1>1 DEF Abstract!Open
  <2>2. /\ decided' = [decided EXCEPT ![e] = {}]
        /\ \E excuse \in BOOLEAN : excused' = [excused EXCEPT ![e] = excuse]
    BY <1>1 DEF Abstract!Open
  <2> HIDE DEF status
  <2>3. d # e /\ status[d] = "closed"
    BY <1>t, <2>1
  <2>4. decided'[d] = decided[d] /\ excused'[d] = excused[d]
    BY <1>t, <2>2, <2>3
  <2>5. QED
    BY <1>t, <2>3, <2>4
<1>2. ASSUME NEW e \in Offers, Abstract!Decide(e) PROVE decided'[d] = Destinations \/ excused'[d]
  <2>1. status' = status /\ status[e] = "open"
    BY <1>2 DEF Abstract!Decide
  <2>2. PICK found \in SUBSET Destinations, excuse \in BOOLEAN :
           /\ decided' = [decided EXCEPT ![e] = @ \cup found]
           /\ excused' = [excused EXCEPT ![e] = @ \/ excuse]
    BY <1>2 DEF Abstract!Decide
  <2> HIDE DEF status
  <2>3. d # e /\ status[d] = "closed"
    BY <1>t, <2>1
  <2>4. decided'[d] = decided[d] /\ excused'[d] = excused[d]
    BY <1>t, <2>2, <2>3
  <2>5. QED
    BY <1>t, <2>3, <2>4
<1>3. ASSUME NEW e \in Offers, Abstract!Close(e) PROVE decided'[d] = Destinations \/ excused'[d]
  <2>1. /\ status' = [status EXCEPT ![e] = "closed"]
        /\ decided[e] = Destinations \/ excused[e]
        /\ decided' = decided /\ excused' = excused
    BY <1>3 DEF Abstract!Close
  <2> HIDE DEF status
  <2>2. d = e \/ status[d] = "closed"
    BY <1>t, <2>1
  <2>3. QED
    BY <1>t, <2>1, <2>2
<1>4. ASSUME Abstract!Forget PROVE decided'[d] = Destinations \/ excused'[d]
  <2>1. decided' = decided /\ excused' = excused
    BY <1>4 DEF Abstract!Forget
  <2>2. PICK closed :
           status' = [e \in Offers |-> IF e \in closed THEN "absent" ELSE status[e]]
    BY <1>4 DEF Abstract!Forget
  <2> HIDE DEF status
  <2>3. status[d] = "closed"
    BY <1>t, <2>2
  <2>4. QED
    BY <1>t, <2>1, <2>3
<1>7. ASSUME Abstract!Doom PROVE decided'[d] = Destinations \/ excused'[d]
  <2>1. status' = status /\ decided' = decided /\ excused' = excused
    BY <1>7 DEF Abstract!Doom
  <2> HIDE DEF status
  <2>2. QED
    BY <1>t, <2>1
<1>5. ASSUME UNCHANGED Abstract!vars PROVE decided'[d] = Destinations \/ excused'[d]
  <2>1. status' = status /\ decided' = decided /\ excused' = excused
    BY <1>5 DEF Abstract!vars
  <2> HIDE DEF status
  <2>2. QED
    BY <1>t, <2>1
<1>6. QED
  BY <1>1, <1>2, <1>3, <1>4, <1>5, <1>7 DEF Abstract!Next

(* Every server and user was decided while a closed event was open, or the reason
   to close it early is on record: no retry, deferral or lost claim makes an event
   forget a destination; _finalize_claimed_events_bulk and
   _defer_claimed_events_bulk. *)
THEOREM ClosedForgetsNobody == Spec => []Abstract!ClosedIsSettled
<1>1. Init => Abstract!ClosedIsSettled
  BY DEF Init, Abstract!ClosedIsSettled, NoEvent
<1>2. Spec => []Typed
  BY TypedInit, TypedStep, PTL DEF Spec
<1>3. QED
  BY <1>1, <1>2, SettledStep, Implements, PTL DEF ImplementsOutbox, Abstract!Spec, Spec
=============================================================================
