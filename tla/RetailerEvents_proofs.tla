------------------------ MODULE RetailerEvents_proofs ------------------------
(***************************************************************************)
(* The safety properties of RetailerEvents, and that it implements Outbox, for  *)
(* all sets of processes, events, servers and users and all limits.            *)
(***************************************************************************)
EXTENDS RetailerEvents, FiniteSetTheorems, SequenceTheorems, TLAPS

USE DEF Destinations

(* What a worker carries at each place. *)
Delivering == {"deliver", "send", "receipt"}
WithUser == {"send", "receipt"}
ClaimsInStep ==
    \A w \in Workers :
        /\ pc[w] = "lease" => claim[w].selected # <<>>
        /\ pc[w] \in {"load", "turn"} \cup Delivering => claim[w].batch # <<>>
        /\ pc[w] \in WithUser => claim[w].user \in Users
        /\ pc[w] \notin WithUser => claim[w].user = "none"

(* A row that is held is open, a row that exists is in the line, and what cannot be
   read is excused. *)
RowsInStep ==
    \A e \in Events :
        /\ event[e].owner # "none" => event[e].status = "open" /\ event[e].attempts >= 1
        /\ event[e].status # "absent" => InLine(e)
        /\ event[e].status = "open" /\ ~event[e].readable => excused[e]

(* A pass that holds its event has decided every destination it has left behind,
   unless one failed and the event will be released. *)
Settled(w, e, d) ==
    d \in decided[e] \/ (claim[w].failed /\ event[e].attempts < MaxAttempts)
AccountedFor(w, e) ==
    excused[e] \/ \A d \in Destinations \ claim[w].todo : Settled(w, e, d)
Accounted ==
    \A w \in Workers :
        pc[w] \in Delivering /\ Holds(w, Current(w)) => AccountedFor(w, Current(w))

(* A user without a mishap has one delivery at a time, and every message has its
   receipt or the delivery is about to write it. *)
InFlight(w, u, e) == pc[w] = "receipt" /\ claim[w].user = u /\ Current(w) = e
UserSafe(u) ==
    /\ \A v, w \in Workers : claim[v].user = u /\ claim[w].user = u => v = w
    /\ \A e \in Events : sent[<<u, e>>] < 2
    /\ \A e \in Events : sent[<<u, e>>] > 0 =>
          <<u, e>> \in receipts \/ \E w \in Workers : InFlight(w, u, e)
    /\ \A w \in Workers : claim[w].user = u =>
          <<u, Current(w)>> \notin receipts /\ Cardinality(Receipts(u)) < Cap
    /\ Cardinality(Receipts(u)) <= Cap
UsersSafe == \A u \in Users \ blurred : UserSafe(u)

EventsInv == TypeOK /\ ClaimsInStep /\ RowsInStep /\ Accounted /\ UsersSafe

-----------------------------------------------------------------------------
(* The types of TypeOK by name. *)
Places == {"idle", "lease", "load", "turn", "deliver", "send", "receipt"}
Statuses == {"absent", "open", "closed"}
RowTypes == event \in [Events -> Rows]
LineTypes == line \in Seq(Events)
UserTypes == /\ enabled \subseteq Users /\ receipts \subseteq Users \X Events
             /\ sent \in [Users \X Events -> 0 .. 2] /\ blurred \subseteq Users
DecidedTypes == decided \in [Events -> SUBSET Destinations]
ExcusedTypes == excused \in [Events -> BOOLEAN]
PlaceTypes == pc \in [Workers -> Places]
ClaimTypes == claim \in [Workers -> Claims]
CountTypes == changes \in 0 .. MaxChanges /\ crashes \in 0 .. MaxCrashes
Types == /\ RowTypes /\ LineTypes /\ UserTypes /\ DecidedTypes /\ ExcusedTypes
         /\ PlaceTypes /\ ClaimTypes /\ CountTypes

LEMMA TypesAreTypeOK == (TypeOK <=> Types) /\ (TypeOK' <=> Types')
  BY DEF TypeOK, Types, RowTypes, LineTypes, UserTypes, DecidedTypes, ExcusedTypes, PlaceTypes,
         ClaimTypes, CountTypes, Places

LEMMA RowFields ==
    ASSUME NEW row \in Rows
    PROVE  /\ row.status \in Statuses /\ row.owner \in Workers \cup {"none"}
           /\ row.left \in Waits /\ row.attempts \in 0 .. MaxAttempts /\ row.readable \in BOOLEAN
  BY DEF Rows, Statuses

LEMMA NumbersAreNat ==
    /\ Batch \in Nat \ {0} /\ Lease \in Nat \ {0} /\ MaxAttempts \in Nat \ {0}
    /\ Cap \in Nat /\ RetryBase \in Nat /\ RetryMax \in Nat
    /\ MaxChanges \in Nat /\ MaxCrashes \in Nat
  BY NumberAssumption

LEMMA NoRowType == NoRow \in Rows
  BY NumbersAreNat DEF NoRow, Rows, Waits

LEMMA NoClaimType == NoClaim \in Claims
  BY DEF NoClaim, Claims

(* A released event waits for a time that does not exceed RetryMax. *)
LEMMA DelayType ==
    ASSUME NEW attempts \in 1 .. MaxAttempts
    PROVE  Delay(attempts) \in Waits
  <1>1. attempts - 1 \in Nat
    OBVIOUS
  <1>2. RetryBase * 2 ^ (attempts - 1) \in Int
    BY <1>1, NumbersAreNat
  <1>3. QED
    BY <1>2, NumbersAreNat DEF Delay, Smaller, Waits

(* Where a worker has a batch, its event is one of the events. *)
LEMMA CurrentType ==
    ASSUME TypeOK, ClaimsInStep, NEW w \in Workers, pc[w] \in {"load", "turn"} \cup Delivering
    PROVE  Current(w) \in Events
  <1>1. claim[w].batch \in Seq(Events) /\ claim[w].batch # <<>>
    BY DEF TypeOK, Claims, ClaimsInStep
  <1>2. QED
    BY <1>1 DEF Current

(* A worker moves alone. *)
LEMMA GotoMoves ==
    ASSUME PlaceTypes, NEW w \in Workers, NEW from, NEW to \in Places, Goto(w, from, to)
    PROVE  /\ PlaceTypes' /\ pc'[w] = to
           /\ \A v \in Workers : v # w => pc'[v] = pc[v]
  BY DEF PlaceTypes, Goto

(* What is found of an event is added to what was decided of it, while it is open. *)
LEMMA FindAdds ==
    ASSUME DecidedTypes, NEW w \in Workers, Current(w) \in Events,
           NEW found \in SUBSET Destinations, Find(w, found)
    PROVE  /\ DecidedTypes'
           /\ \A e \in Events : decided'[e] =
                 IF e = Current(w) /\ event[e].status = "open" THEN decided[e] \cup found
                 ELSE decided[e]
  BY DEF DecidedTypes, Find

(* A destination is left behind: decided, or failed and, in the last attempt of a
   pass that holds the event, decided all the same. *)
Leaves(w, d, failed) ==
    /\ ClaimTypes' /\ DecidedTypes'
    /\ \A v \in Workers : v # w => claim'[v] = claim[v]
    /\ claim'[w].todo = claim[w].todo \ {d} /\ claim'[w].user = "none"
    /\ claim'[w].failed = failed /\ claim'[w].batch = claim[w].batch
    /\ claim'[w].selected = claim[w].selected
    /\ \/ UNCHANGED decided
       \/ \A e \in Events : decided'[e] =
             IF e = Current(w) /\ event[e].status = "open" THEN decided[e] \cup {d} ELSE decided[e]

LEMMA DoneLeaves ==
    ASSUME TypeOK, ClaimsInStep, NEW w \in Workers, pc[w] \in Delivering,
           NEW d \in Destinations, Done(w, d)
    PROVE  /\ Leaves(w, d, claim[w].failed)
           /\ event[Current(w)].status = "open" => d \in decided'[Current(w)]
  <1>1. Current(w) \in Events
    BY CurrentType
  <1>2. DecidedTypes /\ ClaimTypes
    BY TypesAreTypeOK DEF Types
  <1>3. Find(w, {d}) /\ {d} \in SUBSET Destinations
    BY DEF Done
  <1>4. /\ DecidedTypes'
        /\ \A e \in Events : decided'[e] =
              IF e = Current(w) /\ event[e].status = "open" THEN decided[e] \cup {d} ELSE decided[e]
    BY <1>1, <1>2, <1>3, FindAdds
  <1>5. claim' = [claim EXCEPT ![w].todo = @ \ {d}, ![w].user = "none"]
    BY DEF Done
  <1>6. ClaimTypes'
    BY <1>2, <1>5 DEF ClaimTypes, Claims
  <1>7. QED
    BY <1>1, <1>2, <1>4, <1>5, <1>6 DEF Leaves, ClaimTypes, Claims

LEMMA FailedKeepsTypes ==
    ASSUME ClaimTypes, NEW w \in Workers, NEW d, NEW failed \in BOOLEAN,
           claim' = [claim EXCEPT ![w].todo = @ \ {d}, ![w].user = "none", ![w].failed = failed]
    PROVE  ClaimTypes'
  <1> DEFINE mine == [claim[w] EXCEPT !.todo = @ \ {d}, !.user = "none", !.failed = failed]
  <1>1. claim[w] \in Claims
    BY DEF ClaimTypes
  <1>2. mine \in Claims
    BY <1>1 DEF Claims
  <1>3. claim' = [claim EXCEPT ![w] = mine]
    BY DEF ClaimTypes
  <1> HIDE DEF mine
  <1>4. QED
    BY <1>2, <1>3 DEF ClaimTypes

LEMMA FailedLeaves ==
    ASSUME TypeOK, ClaimsInStep, NEW w \in Workers, pc[w] \in Delivering,
           NEW d \in Destinations, Failed(w, d)
    PROVE  /\ Leaves(w, d, TRUE)
           /\ LastAttempt(w) /\ event[Current(w)].status = "open" => d \in decided'[Current(w)]
  <1>1. Current(w) \in Events
    BY CurrentType
  <1>2. DecidedTypes /\ ClaimTypes
    BY TypesAreTypeOK DEF Types
  <1>3. {d} \in SUBSET Destinations
    OBVIOUS
  <1>4. CASE Find(w, {d})
    <2>1. /\ DecidedTypes'
          /\ \A e \in Events : decided'[e] =
                IF e = Current(w) /\ event[e].status = "open" THEN decided[e] \cup {d} ELSE decided[e]
      BY <1>1, <1>2, <1>3, <1>4, FindAdds
    <2>2. claim' = [claim EXCEPT ![w].todo = @ \ {d}, ![w].user = "none", ![w].failed = TRUE]
      BY DEF Failed
    <2>3. ClaimTypes'
      BY <1>2, <2>2, FailedKeepsTypes
    <2>4. QED
      BY <1>1, <1>2, <2>1, <2>2, <2>3 DEF Leaves, ClaimTypes, Claims
  <1>5. CASE ~LastAttempt(w) /\ UNCHANGED decided
    <2>1. claim' = [claim EXCEPT ![w].todo = @ \ {d}, ![w].user = "none", ![w].failed = TRUE]
      BY DEF Failed
    <2>2. ClaimTypes'
      BY <1>2, <2>1, FailedKeepsTypes
    <2>3. QED
      BY <1>2, <1>5, <2>1, <2>2 DEF Leaves, ClaimTypes, Claims, DecidedTypes
  <1>6. QED
    BY <1>4, <1>5 DEF Failed

-----------------------------------------------------------------------------
(* The line without one of its places. *)
LEMMA Removed ==
    ASSUME NEW k \in DOMAIN line, LineTypes
    PROVE  /\ RemovedAt(line, k) \in Seq(Events)
           /\ \A i \in DOMAIN line : i # k =>
                 \E j \in DOMAIN RemovedAt(line, k) : RemovedAt(line, k)[j] = line[i]
  <1>1. Len(line) \in Nat /\ DOMAIN line = 1 .. Len(line) /\ \A i \in DOMAIN line : line[i] \in Events
    BY DEF LineTypes
  <1>2. Len(line) - 1 \in Nat
    BY <1>1
  <1>3. \A i \in 1 .. Len(line) - 1 : (IF i < k THEN line[i] ELSE line[i + 1]) \in Events
    BY <1>1
  <1>4. RemovedAt(line, k) \in [1 .. Len(line) - 1 -> Events]
    BY <1>3 DEF RemovedAt
  <1>5. RemovedAt(line, k) \in Seq(Events)
    BY <1>2, <1>4, SeqDef
  <1>6. ASSUME NEW i \in DOMAIN line, i # k
        PROVE  \E j \in DOMAIN RemovedAt(line, k) : RemovedAt(line, k)[j] = line[i]
    <2>1. CASE i < k
      BY <2>1, <1>1 DEF RemovedAt
    <2>2. CASE i > k
      <3>1. i - 1 \in 1 .. Len(line) - 1 /\ ~(i - 1 < k) /\ (i - 1) + 1 = i
        BY <2>2, <1>1
      <3>2. QED
        BY <3>1 DEF RemovedAt
    <2>3. QED
      BY <2>1, <2>2, <1>6, <1>1
  <1>7. QED
    BY <1>5, <1>6

(* A selection is a part of the line, and never empty. *)
LEMMA Selection ==
    ASSUME TypeOK, NEW w \in Workers, SelectEvents(w)
    PROVE  \E selected \in Seq(Events) :
              /\ selected # <<>>
              /\ claim' = [claim EXCEPT ![w].selected = selected]
  <1> DEFINE due == {i \in DOMAIN line : Claimable(line[i])}
  <1>1. line \in Seq(Events) /\ due \subseteq 1 .. Len(line) /\ Len(line) \in Nat
    BY DEF TypeOK
  <1>2. IsFiniteSet(due)
    BY <1>1, FS_Interval, FS_Subset
  <1>3. due # {}
    BY DEF SelectEvents
  <1>4. \A i \in due : line[i] \in Events
    BY <1>1
  <1>5. Smaller(Batch, Cardinality(due)) \in Nat \ {0}
    <2>1. Cardinality(due) \in Nat \ {0}
      BY <1>2, <1>3, FS_CardinalityType, FS_EmptySet
    <2>2. QED
      BY <2>1, NumbersAreNat DEF Smaller
  <1>6. PICK n \in Nat \ {0} : n = Smaller(Batch, Cardinality(due))
    BY <1>5
  <1>7. PICK pick \in [1 .. n -> due] :
           claim' = [claim EXCEPT ![w].selected = [j \in 1 .. n |-> line[pick[j]]]]
    BY <1>6 DEF SelectEvents
  <1> HIDE DEF due
  <1> DEFINE selected == [j \in 1 .. n |-> line[pick[j]]]
  <1>8. selected \in [1 .. n -> Events]
    BY <1>4
  <1>9. DOMAIN selected = 1 .. n /\ 1 \in 1 .. n
    BY <1>8
  <1>10. claim' = [claim EXCEPT ![w].selected = selected]
    BY <1>7
  <1> HIDE DEF selected
  <1>11. selected \in Seq(Events)
    BY <1>8, SeqDef
  <1>12. selected # <<>>
    BY <1>9
  <1>13. QED
    BY <1>10, <1>11, <1>12

(* What a worker leases. *)
LEMMA Leased ==
    ASSUME TypeOK, ClaimsInStep, NEW w \in Workers, LeaseEvent(w)
    PROVE  /\ Head(claim[w].selected) \in Events
           /\ Tail(claim[w].selected) \in Seq(Events)
  <1>1. claim[w].selected \in Seq(Events) /\ claim[w].selected # <<>>
    BY DEF LeaseEvent, Goto, ClaimsInStep, TypeOK, Claims
  <1>2. QED
    BY <1>1

(* The row of the event that a worker leases, and how it leaves the batch. *)
LeaseRow(w, e) ==
    [event[e] EXCEPT !.owner = w, !.left = Lease, !.attempts = Smaller(@ + 1, MaxAttempts)]
Discarded(e) == [event[e] EXCEPT !.status = "closed", !.owner = "none", !.left = 0]
LEMMA LeaseRows ==
    ASSUME TypeOK, ClaimsInStep, NEW w \in Workers, LeaseEvent(w)
    PROVE  \E e \in Events :
              /\ LeaseRow(w, e) \in Rows /\ Discarded(e) \in Rows
              /\ \/ UNCHANGED event
                 \/ Claimable(e) /\ event[e].readable /\ event' = [event EXCEPT ![e] = LeaseRow(w, e)]
                 \/ Claimable(e) /\ ~event[e].readable /\ event' = [event EXCEPT ![e] = Discarded(e)]
  <1>1. PICK e \in Events : e = Head(claim[w].selected)
    BY Leased
  <1>2. event[e] \in Rows /\ event \in [Events -> Rows]
    BY DEF TypeOK
  <1>3. LeaseRow(w, e) \in Rows
    <2>1. event[e].attempts \in 0 .. MaxAttempts
      BY <1>2 DEF Rows
    <2>2. PICK attempts \in 0 .. MaxAttempts : attempts = Smaller(event[e].attempts + 1, MaxAttempts)
      BY <2>1, NumbersAreNat DEF Smaller
    <2>3. Lease \in Waits
      BY NumbersAreNat DEF Waits
    <2>4. LeaseRow(w, e) = [event[e] EXCEPT !.owner = w, !.left = Lease, !.attempts = attempts]
      BY <1>2, <2>2 DEF LeaseRow, Rows
    <2>5. QED
      BY <1>2, <2>3, <2>4 DEF Rows
  <1>4. Discarded(e) \in Rows
    <2>1. 0 \in Waits
      BY NumbersAreNat DEF Waits
    <2>2. QED
      BY <1>2, <2>1 DEF Discarded, Rows
  <1>5. \/ UNCHANGED event
        \/ Claimable(e) /\ event[e].readable /\ event' = [event EXCEPT ![e] = LeaseRow(w, e)]
        \/ Claimable(e) /\ ~event[e].readable /\ event' = [event EXCEPT ![e] = Discarded(e)]
    BY <1>1, <1>2 DEF LeaseEvent, Granted, LeaseRow, Discarded
  <1>6. QED
    BY <1>3, <1>4, <1>5

(* The row of the event that a worker has finished with. *)
SettledRow(w, e) ==
    [event[e] EXCEPT !.owner = "none",
                     !.status = IF Outcome(w) = "close" THEN "closed" ELSE @,
                     !.left = IF Outcome(w) = "release" THEN Delay(event[e].attempts) ELSE 0]
LEMMA FinishRows ==
    ASSUME TypeOK, ClaimsInStep, RowsInStep, NEW w \in Workers, FinishEvent(w)
    PROVE  /\ Current(w) \in Events
           /\ \/ UNCHANGED event /\ ~Holds(w, Current(w))
              \/ /\ Holds(w, Current(w))
                 /\ SettledRow(w, Current(w)) \in Rows
                 /\ event' = [event EXCEPT ![Current(w)] = SettledRow(w, Current(w))]
  <1>1. Current(w) \in Events
    BY CurrentType DEF FinishEvent, Goto, Delivering
  <1>2. PICK e \in Events : e = Current(w)
    BY <1>1
  <1>3. event[e] \in Rows /\ w \in Workers /\ "none" \notin Workers
    BY SetAssumption DEF TypeOK
  <1>4. ASSUME Holds(w, e)
        PROVE  SettledRow(w, e) \in Rows
    <2>1. Delay(event[e].attempts) \in Waits /\ 0 \in Waits
      BY <1>3, <1>4, DelayType, NumbersAreNat DEF Holds, RowsInStep, Rows, Waits
    <2> DEFINE left == IF Outcome(w) = "release" THEN Delay(event[e].attempts) ELSE 0
               status == IF Outcome(w) = "close" THEN "closed" ELSE event[e].status
    <2>2. left \in Waits /\ status \in Statuses
      BY <2>1, <1>3, RowFields DEF Statuses
    <2>3. SettledRow(w, e) = [event[e] EXCEPT !.owner = "none", !.status = status, !.left = left]
      BY <1>3 DEF SettledRow, Rows
    <2> HIDE DEF left, status
    <2>4. QED
      BY <1>3, <2>2, <2>3 DEF Rows, Statuses
  <1>5. event' = IF Holds(w, e) THEN [event EXCEPT ![e] = SettledRow(w, e)] ELSE event
    BY <1>2 DEF FinishEvent, SettledRow
  <1>6. QED
    BY <1>1, <1>2, <1>4, <1>5

-----------------------------------------------------------------------------
(* Every step keeps the types. *)
LEMMA TypeStep ==
    ASSUME TypeOK, ClaimsInStep, RowsInStep, [Next]_vars
    PROVE  TypeOK'
  <1> SUFFICES Types'
    BY TypesAreTypeOK
  <1> USE DEF Types, rowVars, userVars, historyVars
  <1>a. Types
    BY TypesAreTypeOK
  <1>1. ASSUME NEW w \in Workers, SelectEvents(w)
        PROVE  Types'
    <2>1. PICK selected \in Seq(Events) : claim' = [claim EXCEPT ![w].selected = selected]
      BY <1>1, Selection
    <2>2. ClaimTypes'
      BY <2>1, <1>a DEF ClaimTypes, Claims
    <2>3. PlaceTypes'
      BY <1>1, <1>a, GotoMoves DEF SelectEvents, Places
    <2>4. QED
      BY <2>2, <2>3, <1>1, <1>a DEF SelectEvents, RowTypes, LineTypes, UserTypes, DecidedTypes,
             ExcusedTypes, CountTypes
  <1>2. ASSUME NEW w \in Workers, LeaseEvent(w)
        PROVE  Types'
    <2>1. RowTypes'
      BY <1>2, <1>a, LeaseRows DEF RowTypes
    <2>2. PICK rest \in Seq(Events), batch \in Seq(Events) :
             claim' = [claim EXCEPT ![w].selected = rest, ![w].batch = batch]
      <3>1. claim[w].batch \in Seq(Events)
        BY <1>a DEF ClaimTypes, Claims
      <3>2. (IF Granted(Head(claim[w].selected)) /\ event[Head(claim[w].selected)].readable
             THEN Append(claim[w].batch, Head(claim[w].selected)) ELSE claim[w].batch) \in Seq(Events)
        BY <3>1, <1>2, Leased, AppendProperties
      <3>3. QED
        BY <3>2, <1>2, Leased DEF LeaseEvent
    <2>3. ClaimTypes'
      BY <2>2, <1>a DEF ClaimTypes, Claims
    <2>4. PICK to \in Places : Goto(w, "lease", to)
      BY <1>2 DEF LeaseEvent, Places
    <2>5. PlaceTypes'
      BY <2>4, <1>a, GotoMoves
    <2>6. QED
      BY <2>1, <2>3, <2>5, <1>2, <1>a DEF LeaseEvent, LineTypes, UserTypes, DecidedTypes,
             ExcusedTypes, CountTypes
  <1>3. ASSUME NEW w \in Workers, LoadDestinations(w)
        PROVE  Types'
    <2>1. PICK seen \in SUBSET Destinations : claim' = [claim EXCEPT ![w].seen = seen]
      <3>1. \A servers \in SUBSET Guilds : servers \cup enabled \in SUBSET Destinations
        BY <1>a DEF UserTypes
      <3>2. QED
        BY <3>1, <1>3 DEF LoadDestinations
    <2>2. ClaimTypes'
      BY <2>1, <1>a DEF ClaimTypes, Claims
    <2>3. PlaceTypes'
      BY <1>3, <1>a, GotoMoves DEF LoadDestinations, Places
    <2>4. QED
      BY <2>2, <2>3, <1>3, <1>a DEF LoadDestinations, RowTypes, LineTypes, UserTypes,
             DecidedTypes, ExcusedTypes, CountTypes
  <1>4. ASSUME NEW w \in Workers, StartEvent(w)
        PROVE  Types'
    <2>1. Current(w) \in Events
      BY <1>4, CurrentType DEF StartEvent, Goto
    <2>2. DecidedTypes'
      <3>1. Users \ claim[w].seen \in SUBSET Destinations
        OBVIOUS
      <3>2. QED
        BY <3>1, <2>1, <1>4, <1>a, FindAdds DEF StartEvent
    <2>3. claim[w].seen \in SUBSET Destinations
      BY <1>a DEF ClaimTypes, Claims
    <2>4. ClaimTypes'
      <3> DEFINE mine == [claim[w] EXCEPT !.todo = claim[w].seen, !.failed = FALSE]
      <3>1. claim[w] \in Claims
        BY <1>a DEF ClaimTypes
      <3>2. mine \in Claims
        BY <2>3, <3>1 DEF Claims
      <3>3. claim' = [claim EXCEPT ![w] = mine]
        BY <1>4, <1>a DEF StartEvent, ClaimTypes
      <3> HIDE DEF mine
      <3>4. QED
        BY <3>2, <3>3, <1>a DEF ClaimTypes
    <2>5. ExcusedTypes'
      <3>1. PICK e \in Events : e = Current(w)
        BY <2>1
      <3>2. PICK missing \in BOOLEAN : excused' = IF event[e].status = "open"
                      THEN [excused EXCEPT ![e] = @ \/ missing] ELSE excused
        BY <3>1, <1>4 DEF StartEvent
      <3>3. \A x \in Events : excused[x] \in BOOLEAN
        BY <1>a DEF ExcusedTypes
      <3>4. (excused[e] \/ missing) \in BOOLEAN
        OBVIOUS
      <3>5. QED
        BY <3>2, <3>4, <1>a DEF ExcusedTypes
    <2>6. PlaceTypes'
      BY <1>4, <1>a, GotoMoves DEF StartEvent, Places
    <2>7. QED
      BY <2>2, <2>4, <2>5, <2>6, <1>4, <1>a DEF StartEvent, RowTypes, LineTypes, UserTypes, CountTypes
  <1>5. ASSUME NEW w \in Workers, NEW g \in Guilds, DeliverGuild(w, g)
        PROVE  Types'
    <2>1. pc[w] \in Delivering /\ g \in Destinations
      BY <1>5 DEF DeliverGuild, Goto, Delivering
    <2>2. ClaimTypes' /\ DecidedTypes'
      BY <2>1, <1>5, DoneLeaves, FailedLeaves DEF DeliverGuild, Leaves
    <2>3. PlaceTypes'
      BY <1>5, <1>a, GotoMoves DEF DeliverGuild, Places
    <2>4. QED
      BY <2>2, <2>3, <1>5, <1>a DEF DeliverGuild, RowTypes, LineTypes, UserTypes, ExcusedTypes,
             CountTypes
  <1>6. ASSUME NEW w \in Workers, NEW u \in Users, CheckUser(w, u)
        PROVE  Types'
    <2>1. pc[w] \in Delivering /\ u \in Destinations
      BY <1>6 DEF CheckUser, Goto, Delivering
    <2>2. ASSUME claim' = [claim EXCEPT ![w].user = u], UNCHANGED decided
          PROVE  ClaimTypes' /\ DecidedTypes'
      BY <2>2, <1>a DEF ClaimTypes, Claims, DecidedTypes
    <2>3. ClaimTypes' /\ DecidedTypes'
      BY <2>1, <2>2, <1>6, DoneLeaves, FailedLeaves DEF CheckUser, Leaves
    <2>4. PlaceTypes'
      BY <1>6, <1>a, GotoMoves DEF CheckUser, Places
    <2>5. blurred' \subseteq Users
      BY <1>6, <1>a DEF CheckUser, UserTypes
    <2>6. QED
      BY <2>3, <2>4, <2>5, <1>6, <1>a DEF CheckUser, RowTypes, LineTypes, UserTypes, ExcusedTypes,
             CountTypes
  <1>7. ASSUME NEW w \in Workers, SendDM(w)
        PROVE  Types'
    <2>1. pc[w] \in Delivering /\ claim[w].user \in Users
      BY <1>7 DEF SendDM, Goto, Delivering, ClaimsInStep, WithUser
    <2>2. claim[w].user \in Destinations /\ Current(w) \in Events
      BY <2>1, CurrentType
    <2>3. ClaimTypes' /\ DecidedTypes'
      BY <2>1, <2>2, <1>7, <1>a, DoneLeaves, FailedLeaves DEF SendDM, Leaves, ClaimTypes, DecidedTypes
    <2>4. PlaceTypes'
      BY <1>7, <1>a, GotoMoves DEF SendDM, Places
    <2>5. sent' \in [Users \X Events -> 0 .. 2]
      BY <2>1, <2>2, <1>7, <1>a DEF SendDM, Count, UserTypes
    <2>6. enabled' \subseteq Users /\ blurred' \subseteq Users
      BY <2>1, <1>7, <1>a DEF SendDM, Blur, UserTypes
    <2>7. QED
      BY <2>3, <2>4, <2>5, <2>6, <1>7, <1>a DEF SendDM, RowTypes, LineTypes, UserTypes,
             ExcusedTypes, CountTypes
  <1>8. ASSUME NEW w \in Workers, RecordReceipt(w)
        PROVE  Types'
    <2>1. pc[w] \in Delivering /\ claim[w].user \in Users
      BY <1>8 DEF RecordReceipt, Goto, Delivering, ClaimsInStep, WithUser
    <2>2. claim[w].user \in Destinations /\ Current(w) \in Events
      BY <2>1, CurrentType
    <2>3. ClaimTypes' /\ DecidedTypes'
      BY <2>1, <2>2, <1>8, DoneLeaves, FailedLeaves DEF RecordReceipt, Leaves
    <2>4. PlaceTypes'
      BY <1>8, <1>a, GotoMoves DEF RecordReceipt, Places
    <2>5. blurred' \subseteq Users
      BY <2>1, <1>8, <1>a DEF RecordReceipt, Blur, UserTypes
    <2>6. receipts' \subseteq Users \X Events
      BY <2>1, <2>2, <1>8, <1>a DEF RecordReceipt, UserTypes
    <2>7. QED
      BY <2>3, <2>4, <2>5, <2>6, <1>8, <1>a DEF RecordReceipt, RowTypes, LineTypes, UserTypes,
             ExcusedTypes, CountTypes
  <1>9. ASSUME NEW w \in Workers, FinishEvent(w)
        PROVE  Types'
    <2>1. RowTypes'
      BY <1>9, <1>a, FinishRows DEF RowTypes
    <2>2. claim[w].batch \in Seq(Events) /\ claim[w].batch # <<>>
      BY <1>9, <1>a DEF FinishEvent, Goto, ClaimsInStep, Delivering, ClaimTypes, Claims
    <2>3. Tail(claim[w].batch) \in Seq(Events)
      BY <2>2
    <2>4. ClaimTypes'
      BY <2>3, <1>9, <1>a, NoClaimType DEF FinishEvent, ClaimTypes, Claims
    <2>5. PICK to \in Places : Goto(w, "deliver", to)
      BY <1>9 DEF FinishEvent, Places
    <2>6. PlaceTypes'
      BY <2>5, <1>a, GotoMoves
    <2>7. QED
      BY <2>1, <2>4, <2>6, <1>9, <1>a DEF FinishEvent, LineTypes, UserTypes, DecidedTypes,
             ExcusedTypes, CountTypes
  <1>10. ASSUME NEW w \in Workers, Abandon(w)
         PROVE  Types'
    <2>1. ClaimTypes' /\ PlaceTypes'
      BY <1>10, <1>a, NoClaimType DEF Abandon, ClaimTypes, PlaceTypes, Places
    <2>2. crashes' \in 0 .. MaxCrashes
      BY <1>10, <1>a, NumbersAreNat DEF Abandon, CountTypes
    <2>3. blurred' \subseteq Users
      BY <1>10, <1>a DEF Abandon, Blur, UserTypes, ClaimsInStep, WithUser
    <2>4. QED
      BY <2>1, <2>2, <2>3, <1>10, <1>a DEF Abandon, RowTypes, LineTypes, UserTypes, DecidedTypes,
             ExcusedTypes, CountTypes
  <1>11. ASSUME NEW e \in Events, Publish(e)
         PROVE  Types'
    <2>1. PICK readable \in BOOLEAN :
             /\ event' = [event EXCEPT ![e] = [NoRow EXCEPT !.status = "open", !.readable = readable]]
             /\ excused' = [excused EXCEPT ![e] = ~readable]
      BY <1>11 DEF Publish
    <2>2. [NoRow EXCEPT !.status = "open", !.readable = readable] \in Rows
      BY NoRowType DEF Rows
    <2>3. RowTypes' /\ ExcusedTypes'
      BY <2>1, <2>2, <1>a DEF RowTypes, ExcusedTypes
    <2>4. LineTypes'
      BY <1>11, <1>a, AppendProperties DEF Publish, LineTypes
    <2>5. DecidedTypes'
      BY <1>11, <1>a DEF Publish, DecidedTypes
    <2>6. changes' \in 0 .. MaxChanges
      BY <1>11, <1>a, NumbersAreNat DEF Publish, Change, CountTypes
    <2>7. QED
      BY <2>3, <2>4, <2>5, <2>6, <1>11, <1>a DEF Publish, UserTypes, PlaceTypes, ClaimTypes, CountTypes
  <1>12. ASSUME NEW e \in Events, Prune(e)
         PROVE  Types'
    <2>1. RowTypes'
      BY <1>12, <1>a, NoRowType DEF Prune, RowTypes
    <2>2. LineTypes'
      BY <1>12, <1>a, Removed DEF Prune, LineTypes
    <2>3. QED
      BY <2>1, <2>2, <1>12, <1>a DEF Prune, UserTypes, DecidedTypes, ExcusedTypes, PlaceTypes,
             ClaimTypes, CountTypes
  <1>13. ASSUME NEW u \in Users, SetAlerts(u)
         PROVE  Types'
    <2>1. changes' \in 0 .. MaxChanges
      BY <1>13, <1>a, NumbersAreNat DEF SetAlerts, Change, CountTypes
    <2>2. enabled' \subseteq Users
      BY <1>13, <1>a DEF SetAlerts, UserTypes
    <2>3. QED
      BY <2>1, <2>2, <1>13, <1>a DEF SetAlerts, RowTypes, LineTypes, UserTypes, DecidedTypes,
             ExcusedTypes, PlaceTypes, ClaimTypes, CountTypes
  <1>14. CASE Tick
    <2>1. ASSUME NEW e \in Events
          PROVE  event'[e] \in Rows
      <3>1. event[e] \in Rows /\ event'[e] = IF event[e].left > 0
                                           THEN [event[e] EXCEPT !.left = @ - 1] ELSE event[e]
        BY <1>14, <1>a DEF Tick, RowTypes
      <3>2. event[e].left \in Waits /\ event[e].left - 1 \in Waits
        BY <3>1, NumbersAreNat DEF Rows, Waits
      <3>3. QED
        BY <3>1, <3>2 DEF Rows
    <2>2. RowTypes'
      BY <2>1, <1>14 DEF Tick, RowTypes
    <2>3. QED
      BY <2>2, <1>14, <1>a DEF Tick, LineTypes, UserTypes, DecidedTypes, ExcusedTypes, PlaceTypes,
             ClaimTypes, CountTypes
  <1>15. CASE UNCHANGED vars
    BY <1>15, <1>a DEF vars, RowTypes, LineTypes, UserTypes, DecidedTypes, ExcusedTypes,
           PlaceTypes, ClaimTypes, CountTypes
  <1>16. QED
    BY <1>1, <1>2, <1>3, <1>4, <1>5, <1>6, <1>7, <1>8, <1>9, <1>10, <1>11, <1>12, <1>13, <1>14,
       <1>15 DEF Next, Pass

(* What a worker carries fits its place. *)
LEMMA ClaimsStep ==
    ASSUME TypeOK, ClaimsInStep, [Next]_vars
    PROVE  ClaimsInStep'
  <1> USE DEF Delivering, WithUser
  <1>a. PlaceTypes /\ ClaimTypes
    BY TypesAreTypeOK DEF Types
  <1> DEFINE Fits(w) ==
         /\ pc'[w] = "lease" => claim'[w].selected # <<>>
         /\ pc'[w] \in {"load", "turn"} \cup Delivering => claim'[w].batch # <<>>
         /\ pc'[w] \in WithUser => claim'[w].user \in Users
         /\ pc'[w] \notin WithUser => claim'[w].user = "none"
  <1>1. ASSUME NEW w \in Workers, Fits(w),
               \A v \in Workers : v # w => pc'[v] = pc[v] /\ claim'[v] = claim[v]
        PROVE  ClaimsInStep'
    BY <1>1 DEF ClaimsInStep
  <1>2. ASSUME NEW w \in Workers, SelectEvents(w)
        PROVE  ClaimsInStep'
    <2>1. PICK selected \in Seq(Events) :
             selected # <<>> /\ claim' = [claim EXCEPT ![w].selected = selected]
      BY <1>2, Selection
    <2>2. claim'[w].selected = selected /\ claim'[w].user = claim[w].user
      BY <2>1, <1>a DEF ClaimTypes, Claims
    <2>3. pc[w] = "idle" /\ pc'[w] = "lease"
      BY <1>2, <1>a DEF SelectEvents, Goto, PlaceTypes
    <2>4. Fits(w)
      BY <2>1, <2>2, <2>3 DEF ClaimsInStep
    <2>5. \A v \in Workers : v # w => pc'[v] = pc[v] /\ claim'[v] = claim[v]
      BY <2>1, <1>2, <1>a DEF SelectEvents, Goto, PlaceTypes, ClaimTypes
    <2>6. QED
      BY <2>4, <2>5, <1>1
  <1>3. ASSUME NEW w \in Workers, LeaseEvent(w)
        PROVE  ClaimsInStep'
    <2>1. \A v \in Workers : v # w => pc'[v] = pc[v] /\ claim'[v] = claim[v]
      BY <1>3, <1>a DEF LeaseEvent, Goto, PlaceTypes, ClaimTypes
    <2> DEFINE e == Head(claim[w].selected)
               rest == Tail(claim[w].selected)
               batch == IF Granted(e) /\ event[e].readable THEN Append(claim[w].batch, e)
                        ELSE claim[w].batch
    <2>2. /\ claim' = [claim EXCEPT ![w].selected = rest, ![w].batch = batch]
          /\ Goto(w, "lease", IF rest # <<>> THEN "lease" ELSE IF batch # <<>> THEN "load" ELSE "idle")
      BY <1>3 DEF LeaseEvent
    <2> HIDE DEF rest, batch
    <2>3. claim'[w].selected = rest /\ claim'[w].batch = batch /\ claim'[w].user = claim[w].user
      BY <2>2, <1>a DEF ClaimTypes, Claims
    <2>4. Fits(w)
      BY <2>2, <2>3, <1>3, <1>a DEF LeaseEvent, Goto, ClaimsInStep, PlaceTypes
    <2>5. QED
      BY <2>1, <2>4, <1>1
  <1>4. ASSUME NEW w \in Workers, LoadDestinations(w) \/ StartEvent(w)
        PROVE  ClaimsInStep'
    <2>1. claim'[w].batch = claim[w].batch /\ claim'[w].user = claim[w].user
      BY <1>4, <1>a DEF LoadDestinations, StartEvent, ClaimTypes, Claims
    <2>2. Fits(w)
      BY <2>1, <1>4, <1>a DEF LoadDestinations, StartEvent, Goto, ClaimsInStep, PlaceTypes
    <2>3. QED
      BY <2>2, <1>1, <1>4, <1>a DEF LoadDestinations, StartEvent, Goto, PlaceTypes, ClaimTypes
  <1>5. ASSUME NEW w \in Workers, pc[w] \in Delivering, NEW d \in Destinations,
               Done(w, d) \/ Failed(w, d), NEW from, Goto(w, from, "deliver")
        PROVE  ClaimsInStep'
    <2>1. /\ claim'[w].batch = claim[w].batch /\ claim'[w].user = "none"
          /\ \A v \in Workers : v # w => claim'[v] = claim[v]
      BY <1>5, DoneLeaves, FailedLeaves DEF Leaves
    <2>2. Fits(w)
      BY <2>1, <1>5, <1>a DEF Goto, ClaimsInStep, PlaceTypes
    <2>3. QED
      BY <2>1, <2>2, <1>1, <1>5, <1>a DEF Goto, PlaceTypes
  <1>6. ASSUME NEW w \in Workers, NEW g \in Guilds, DeliverGuild(w, g)
        PROVE  ClaimsInStep'
    BY <1>5, <1>6 DEF DeliverGuild, Goto
  <1>7. ASSUME NEW w \in Workers, NEW u \in Users, CheckUser(w, u)
        PROVE  ClaimsInStep'
    <2>1. CASE Goto(w, "deliver", "send") /\ claim' = [claim EXCEPT ![w].user = u]
      <3>1. claim'[w].batch = claim[w].batch /\ claim'[w].user = u
        BY <2>1, <1>a DEF ClaimTypes, Claims
      <3>2. Fits(w)
        BY <3>1, <2>1, <1>a DEF Goto, ClaimsInStep, PlaceTypes
      <3>3. QED
        BY <3>2, <2>1, <1>1, <1>a DEF Goto, PlaceTypes, ClaimTypes
    <2>2. CASE Goto(w, "deliver", "deliver") /\ (Done(w, u) \/ Failed(w, u))
      BY <2>2, <1>5 DEF Goto
    <2>3. QED
      BY <2>1, <2>2, <1>7 DEF CheckUser
  <1>8. ASSUME NEW w \in Workers, SendDM(w)
        PROVE  ClaimsInStep'
    <2>1. pc[w] = "send" /\ claim[w].user \in Users
      BY <1>8 DEF SendDM, Goto, ClaimsInStep
    <2>2. CASE Goto(w, "send", "receipt") /\ UNCHANGED claim
      BY <2>1, <2>2, <1>a DEF Goto, ClaimsInStep, PlaceTypes
    <2>3. CASE Goto(w, "send", "deliver") /\ (Done(w, claim[w].user) \/ Failed(w, claim[w].user))
      BY <2>1, <2>3, <1>5
    <2>4. QED
      BY <2>2, <2>3, <1>8 DEF SendDM
  <1>9. ASSUME NEW w \in Workers, RecordReceipt(w)
        PROVE  ClaimsInStep'
    <2>1. pc[w] = "receipt" /\ claim[w].user \in Users
      BY <1>9 DEF RecordReceipt, Goto, ClaimsInStep
    <2>2. Goto(w, "receipt", "deliver") /\ (Done(w, claim[w].user) \/ Failed(w, claim[w].user))
      BY <1>9 DEF RecordReceipt
    <2>3. QED
      BY <2>1, <2>2, <1>5
  <1>10. ASSUME NEW w \in Workers, FinishEvent(w)
         PROVE  ClaimsInStep'
    <2> DEFINE rest == Tail(claim[w].batch)
    <2>1. \A v \in Workers : v # w => pc'[v] = pc[v] /\ claim'[v] = claim[v]
      BY <1>10, <1>a DEF FinishEvent, Goto, PlaceTypes, ClaimTypes
    <2>2. pc[w] = "deliver" /\ claim[w].user = "none"
      BY <1>10 DEF FinishEvent, Goto, ClaimsInStep
    <2>3. CASE rest = <<>>
      <3>1. claim'[w] = NoClaim /\ pc'[w] = "idle"
        BY <2>3, <1>10, <1>a DEF FinishEvent, Goto, PlaceTypes, ClaimTypes
      <3>2. QED
        BY <3>1, <2>1, <1>1 DEF NoClaim
    <2>4. CASE rest # <<>>
      <3>1. claim'[w].batch = rest /\ claim'[w].user = "none" /\ pc'[w] = "turn"
        BY <2>2, <2>4, <1>10, <1>a DEF FinishEvent, Goto, PlaceTypes, ClaimTypes, Claims
      <3>2. QED
        BY <3>1, <2>1, <2>4, <1>1
    <2>5. QED
      BY <2>3, <2>4
  <1>11. ASSUME NEW w \in Workers, Abandon(w)
         PROVE  ClaimsInStep'
    <2>1. claim'[w] = NoClaim /\ pc'[w] = "idle"
      BY <1>11, <1>a DEF Abandon, PlaceTypes, ClaimTypes
    <2>2. QED
      BY <2>1, <1>1, <1>11, <1>a DEF Abandon, NoClaim, PlaceTypes, ClaimTypes
  <1>12. CASE UNCHANGED <<pc, claim>>
    BY <1>12 DEF ClaimsInStep
  <1>13. QED
    BY <1>2, <1>3, <1>4, <1>6, <1>7, <1>8, <1>9, <1>10, <1>11, <1>12
    DEF Next, Pass, vars, Publish, Prune, SetAlerts, Tick

-----------------------------------------------------------------------------
(* A held row is open, an existing row is in the line, and an unreadable one is
   excused. *)
LEMMA RowsStep ==
    ASSUME TypeOK, ClaimsInStep, RowsInStep, [Next]_vars
    PROVE  RowsInStep'
  <1> USE DEF rowVars, userVars, historyVars
  <1>a. RowTypes /\ LineTypes /\ ExcusedTypes
    BY TypesAreTypeOK DEF Types
  <1>1. ASSUME NEW w \in Workers, LeaseEvent(w)
        PROVE  RowsInStep'
    <2>1. UNCHANGED <<line, excused>>
      BY <1>1 DEF LeaseEvent
    <2>2. PICK e \in Events :
             \/ UNCHANGED event
             \/ Claimable(e) /\ event' = [event EXCEPT ![e] = LeaseRow(w, e)]
             \/ Claimable(e) /\ event' = [event EXCEPT ![e] = Discarded(e)]
      BY <1>1, LeaseRows
    <2>3. CASE UNCHANGED event
      BY <2>1, <2>3 DEF RowsInStep, InLine
    <2>4. CASE Claimable(e) /\ event' = [event EXCEPT ![e] = LeaseRow(w, e)]
      <3>1. /\ LeaseRow(w, e).status = "open" /\ LeaseRow(w, e).attempts >= 1
            /\ LeaseRow(w, e).readable = event[e].readable
        BY <2>4, <1>a, NumbersAreNat DEF LeaseRow, Claimable, Smaller, RowTypes, Rows
      <3>2. event[e].status = "open"
        BY <2>4 DEF Claimable
      <3>3. \A x \in Events : event'[x] = IF x = e THEN LeaseRow(w, e) ELSE event[x]
        BY <2>4, <1>a DEF RowTypes
      <3>4. QED
        BY <2>1, <3>1, <3>2, <3>3 DEF RowsInStep, InLine
    <2>5. CASE Claimable(e) /\ event' = [event EXCEPT ![e] = Discarded(e)]
      <3>1. Discarded(e).status = "closed" /\ Discarded(e).owner = "none"
        BY <2>5, <1>a DEF Discarded, RowTypes, Rows
      <3>2. event[e].status = "open"
        BY <2>5 DEF Claimable
      <3>3. \A x \in Events : event'[x] = IF x = e THEN Discarded(e) ELSE event[x]
        BY <2>5, <1>a DEF RowTypes
      <3>4. QED
        BY <2>1, <3>1, <3>2, <3>3 DEF RowsInStep, InLine
    <2>6. QED
      BY <2>2, <2>3, <2>4, <2>5
  <1>2. ASSUME NEW w \in Workers, StartEvent(w)
        PROVE  RowsInStep'
    <2>1. \A e \in Events : excused[e] => excused'[e]
      BY <1>2, <1>a DEF StartEvent, ExcusedTypes
    <2>2. UNCHANGED <<event, line>>
      BY <1>2 DEF StartEvent
    <2>3. QED
      BY <2>1, <2>2 DEF RowsInStep, InLine
  <1>3. ASSUME NEW w \in Workers, FinishEvent(w)
        PROVE  RowsInStep'
    <2>1. UNCHANGED <<line, excused>>
      BY <1>3 DEF FinishEvent
    <2>2. CASE UNCHANGED event
      BY <2>1, <2>2 DEF RowsInStep, InLine
    <2>3. PICK e \in Events : e = Current(w)
      BY <1>3, FinishRows
    <2>4. CASE Holds(w, e) /\ event' = [event EXCEPT ![e] = SettledRow(w, e)]
      <3>1. event[e].status = "open"
        BY <2>4, SetAssumption DEF Holds, RowsInStep
      <3>2. /\ SettledRow(w, e).owner = "none" /\ SettledRow(w, e).readable = event[e].readable
            /\ SettledRow(w, e).status \in {"open", "closed"}
        BY <3>1, <1>a DEF SettledRow, RowTypes, Rows
      <3>3. \A x \in Events : event'[x] = IF x = e THEN SettledRow(w, e) ELSE event[x]
        BY <2>4, <1>a DEF RowTypes
      <3>4. QED
        BY <2>1, <3>1, <3>2, <3>3 DEF RowsInStep, InLine
    <2>5. QED
      BY <2>2, <2>3, <2>4, <1>3, FinishRows
  <1>4. ASSUME NEW e \in Events, Publish(e)
        PROVE  RowsInStep'
    <2>1. PICK readable \in BOOLEAN :
             /\ event' = [event EXCEPT ![e] = [NoRow EXCEPT !.status = "open", !.readable = readable]]
             /\ excused' = [excused EXCEPT ![e] = ~readable]
      BY <1>4 DEF Publish
    <2>2. /\ event'[e].owner = "none" /\ event'[e].readable = readable /\ excused'[e] = ~readable
          /\ \A x \in Events : x # e => event'[x] = event[x] /\ excused'[x] = excused[x]
      BY <2>1, <1>a DEF RowTypes, ExcusedTypes, NoRow
    <2>3. \A x \in Events : InLine(x) \/ x = e => InLine(x)'
      BY <1>4, <1>a, AppendProperties DEF Publish, InLine, LineTypes
    <2>4. QED
      BY <2>2, <2>3 DEF RowsInStep
  <1>5. ASSUME NEW e \in Events, Prune(e)
        PROVE  RowsInStep'
    <2>1. PICK k \in DOMAIN line : line[k] = e /\ line' = RemovedAt(line, k)
      BY <1>5 DEF Prune
    <2>2. \A x \in Events : InLine(x) /\ x # e => InLine(x)'
      BY <2>1, <1>a, Removed DEF InLine
    <2>3. /\ event'[e].owner = "none" /\ event'[e].status = "absent"
          /\ \A x \in Events : x # e => event'[x] = event[x]
      BY <1>5, <1>a DEF Prune, RowTypes, NoRow
    <2>4. UNCHANGED excused
      BY <1>5 DEF Prune
    <2>5. QED
      BY <2>2, <2>3, <2>4 DEF RowsInStep
  <1>6. CASE Tick
    <2>1. \A x \in Events : /\ event'[x].owner = event[x].owner /\ event'[x].status = event[x].status
                            /\ event'[x].readable = event[x].readable
                            /\ event'[x].attempts = event[x].attempts
      BY <1>6, <1>a DEF Tick, RowTypes, Rows
    <2>2. UNCHANGED <<line, excused>>
      BY <1>6 DEF Tick
    <2>3. QED
      BY <2>1, <2>2 DEF RowsInStep, InLine
  <1>7. CASE UNCHANGED <<event, line, excused>>
    BY <1>7 DEF RowsInStep, InLine
  <1>8. QED
    BY <1>1, <1>2, <1>3, <1>4, <1>5, <1>6, <1>7
    DEF Next, Pass, vars, SelectEvents, LoadDestinations, DeliverGuild, CheckUser, SendDM,
        RecordReceipt, Abandon, SetAlerts

(* A worker's place and claim are moved by itself alone. *)
LEMMA MovesAlone ==
    ASSUME TypeOK, NEW v \in Workers, NEW w \in Workers, Pass(w) \/ Abandon(w), w # v
    PROVE  pc'[v] = pc[v] /\ claim'[v] = claim[v]
  <1>a. PlaceTypes /\ ClaimTypes
    BY TypesAreTypeOK DEF Types
  <1>1. ASSUME Pass(w)
        PROVE  pc'[v] = pc[v]
    BY <1>1, <1>a DEF Pass, SelectEvents, LeaseEvent, LoadDestinations, StartEvent, DeliverGuild,
           CheckUser, SendDM, RecordReceipt, FinishEvent, Goto, PlaceTypes
  <1>2. ASSUME Pass(w)
        PROVE  claim'[v] = claim[v]
    BY <1>2, <1>a DEF Pass, SelectEvents, LeaseEvent, LoadDestinations, StartEvent, DeliverGuild,
           CheckUser, SendDM, RecordReceipt, FinishEvent, Done, Failed, ClaimTypes
  <1>3. ASSUME Abandon(w)
        PROVE  pc'[v] = pc[v] /\ claim'[v] = claim[v]
    BY <1>3, <1>a DEF Abandon, PlaceTypes, ClaimTypes
  <1>4. QED
    BY <1>1, <1>2, <1>3

LEMMA OthersStay ==
    ASSUME TypeOK, ClaimsInStep, [Next]_vars, NEW v \in Workers
    PROVE  (pc'[v] = pc[v] /\ claim'[v] = claim[v]) \/ Pass(v) \/ Abandon(v)
  BY MovesAlone DEF Next, vars, Publish, Prune, SetAlerts, Tick

(* A destination's turn ends with Done or Failed. *)
Turn(w) ==
    \/ \E g \in Guilds : DeliverGuild(w, g)
    \/ \E u \in Users : CheckUser(w, u)
    \/ SendDM(w)
    \/ RecordReceipt(w)
LEMMA TurnsEnd ==
    ASSUME TypeOK, ClaimsInStep, NEW w \in Workers, Turn(w)
    PROVE  /\ pc[w] \in Delivering
           /\ UNCHANGED <<event, line, excused>>
           /\ \/ /\ UNCHANGED decided
                 /\ claim'[w].todo = claim[w].todo /\ claim'[w].batch = claim[w].batch
                 /\ claim'[w].failed = claim[w].failed
              \/ \E d \in Destinations : Done(w, d) \/ Failed(w, d)
  <1> USE DEF rowVars, Delivering
  <1>a. ClaimTypes
    BY TypesAreTypeOK DEF Types
  <1>1. ASSUME NEW g \in Guilds, DeliverGuild(w, g)
        PROVE  \E d \in Destinations : Done(w, d) \/ Failed(w, d)
    BY <1>1 DEF DeliverGuild
  <1>2. ASSUME NEW u \in Users, CheckUser(w, u)
        PROVE  \/ /\ UNCHANGED decided
                  /\ claim'[w].todo = claim[w].todo /\ claim'[w].batch = claim[w].batch
                  /\ claim'[w].failed = claim[w].failed
               \/ \E d \in Destinations : Done(w, d) \/ Failed(w, d)
    BY <1>2, <1>a DEF CheckUser, ClaimTypes, Claims
  <1>3. CASE SendDM(w)
    <2>1. claim[w].user \in Destinations
      BY <1>3 DEF SendDM, Goto, ClaimsInStep, WithUser
    <2>2. QED
      BY <2>1, <1>3 DEF SendDM, Goto
  <1>4. CASE RecordReceipt(w)
    <2>1. claim[w].user \in Destinations
      BY <1>4 DEF RecordReceipt, Goto, ClaimsInStep, WithUser
    <2>2. QED
      BY <2>1, <1>4 DEF RecordReceipt, Goto
  <1>5. QED
    BY <1>1, <1>2, <1>3, <1>4 DEF Turn, DeliverGuild, CheckUser, SendDM, RecordReceipt, Goto

(* A row keeps its holder, and what was decided of it, until another claims it. *)
LEMMA HeldStays ==
    ASSUME TypeOK, ClaimsInStep, RowsInStep, [Next]_vars, NEW v \in Workers, NEW e \in Events,
           event'[e].owner = v, ~LeaseEvent(v)
    PROVE  /\ event[e].owner = v /\ event'[e].attempts = event[e].attempts
           /\ excused[e] => excused'[e]
           /\ decided[e] \subseteq decided'[e]
  <1> USE DEF rowVars, userVars, historyVars
  <1>a. RowTypes /\ DecidedTypes /\ ExcusedTypes /\ v # "none"
    BY TypesAreTypeOK, SetAssumption DEF Types
  <1>1. ASSUME NEW w \in Workers, LeaseEvent(w)
        PROVE  event[e].owner = v /\ event'[e].attempts = event[e].attempts
    <2>1. PICK x \in Events : \/ UNCHANGED event
                              \/ event' = [event EXCEPT ![x] = LeaseRow(w, x)]
                              \/ event' = [event EXCEPT ![x] = Discarded(x)]
      BY <1>1, LeaseRows
    <2>2. LeaseRow(w, x).owner = w /\ Discarded(x).owner = "none"
      BY <1>a DEF LeaseRow, Discarded, RowTypes, Rows
    <2>3. \A row : event' = [event EXCEPT ![x] = row] => event'[e] = IF x = e THEN row ELSE event[e]
      BY <1>a DEF RowTypes
    <2>4. QED
      BY <2>1, <2>2, <2>3, <1>1, <1>a
  <1>2. ASSUME NEW w \in Workers, FinishEvent(w)
        PROVE  event[e].owner = v /\ event'[e].attempts = event[e].attempts
    <2>1. PICK x \in Events : UNCHANGED event \/ event' = [event EXCEPT ![x] = SettledRow(w, x)]
      BY <1>2, FinishRows
    <2>2. SettledRow(w, x).owner = "none"
      BY <1>a DEF SettledRow, RowTypes, Rows
    <2>3. \A row : event' = [event EXCEPT ![x] = row] => event'[e] = IF x = e THEN row ELSE event[e]
      BY <1>a DEF RowTypes
    <2>4. QED
      BY <2>1, <2>2, <2>3, <1>a
  <1>3. ASSUME NEW w \in Workers, StartEvent(w)
        PROVE  decided[e] \subseteq decided'[e] /\ (excused[e] => excused'[e])
    <2>1. Current(w) \in Events
      BY <1>3, CurrentType DEF StartEvent, Goto
    <2>2. Find(w, Users \ claim[w].seen) /\ Users \ claim[w].seen \in SUBSET Destinations
      BY <1>3 DEF StartEvent
    <2>3. decided[e] \subseteq decided'[e]
      BY <2>1, <2>2, <1>a, FindAdds
    <2>4. excused[e] => excused'[e]
      BY <1>3, <1>a DEF StartEvent, ExcusedTypes
    <2>5. QED
      BY <2>3, <2>4
  <1>4. ASSUME NEW w \in Workers, Turn(w)
        PROVE  decided[e] \subseteq decided'[e] /\ UNCHANGED <<event, excused>>
    <2>1. pc[w] \in Delivering /\ UNCHANGED <<event, excused>>
      BY <1>4, TurnsEnd
    <2>2. UNCHANGED decided \/ \E d \in Destinations : Done(w, d) \/ Failed(w, d)
      BY <1>4, TurnsEnd
    <2>3. ASSUME NEW d \in Destinations, Done(w, d) \/ Failed(w, d)
          PROVE  decided[e] \subseteq decided'[e]
      <3>1. CASE Done(w, d)
        <4>1. Leaves(w, d, claim[w].failed)
          BY <2>1, <3>1, DoneLeaves
        <4>2. QED
          BY <4>1 DEF Leaves
      <3>2. CASE Failed(w, d)
        <4>1. Leaves(w, d, TRUE)
          BY <2>1, <3>2, FailedLeaves
        <4>2. QED
          BY <4>1 DEF Leaves
      <3>3. QED
        BY <2>3, <3>1, <3>2
    <2>4. QED
      BY <2>1, <2>2, <2>3
  <1>5. ASSUME NEW x \in Events, Publish(x)
        PROVE  x # e /\ event'[e] = event[e] /\ excused'[e] = excused[e] /\ decided'[e] = decided[e]
    <2>1. event'[x].owner = "none"
      BY <1>5, <1>a DEF Publish, RowTypes, NoRow
    <2>2. x # e
      BY <2>1, <1>a
    <2>3. QED
      BY <2>2, <1>5, <1>a DEF Publish, RowTypes, ExcusedTypes, DecidedTypes
  <1>6. ASSUME NEW x \in Events, Prune(x)
        PROVE  event'[e] = event[e]
    BY <1>6, <1>a DEF Prune, RowTypes, NoRow
  <1>7. CASE Tick
    BY <1>7, <1>a DEF Tick, RowTypes, Rows
  <1>8. QED
    BY <1>1, <1>2, <1>3, <1>4, <1>5, <1>6, <1>7
    DEF Next, Pass, Turn, vars, SelectEvents, LeaseEvent, LoadDestinations, StartEvent, FinishEvent,
        Abandon, Prune, SetAlerts

(* Whoever holds its event has decided what it has left behind. *)
LEMMA AccountedStep ==
    ASSUME TypeOK, ClaimsInStep, RowsInStep, Accounted, [Next]_vars
    PROVE  Accounted'
  <1> USE DEF rowVars, userVars, historyVars
  <1>a. PlaceTypes /\ ClaimTypes /\ RowTypes /\ DecidedTypes /\ ExcusedTypes
    BY TypesAreTypeOK DEF Types
  <1> SUFFICES ASSUME NEW v \in Workers, pc'[v] \in Delivering, Holds(v, Current(v))'
               PROVE  AccountedFor(v, Current(v))'
    BY DEF Accounted
  (* The event is the same and was held before. *)
  <1>1. ASSUME NEW e \in Events, Current(v) = e, Current(v)' = e, ~LeaseEvent(v)
        PROVE  /\ Holds(v, e) /\ event[e].status = "open" /\ event'[e].attempts = event[e].attempts
               /\ excused[e] => excused'[e]
               /\ decided[e] \subseteq decided'[e]
    <2>1. event'[e].owner = v
      BY <1>1 DEF Holds
    <2>2. QED
      BY <2>1, <1>1, HeldStays, SetAssumption DEF Holds, RowsInStep
  <1>2. CASE pc'[v] = pc[v] /\ claim'[v] = claim[v]
    <2>1. PICK e \in Events : e = Current(v)
      BY <1>2, CurrentType
    <2>2. Current(v)' = e /\ ~LeaseEvent(v)
      BY <1>2, <2>1 DEF Current, LeaseEvent, Goto, Delivering
    <2>3. /\ Holds(v, e) /\ event'[e].attempts = event[e].attempts
          /\ excused[e] => excused'[e]
          /\ decided[e] \subseteq decided'[e]
      BY <1>1, <2>1, <2>2
    <2>4. AccountedFor(v, e)
      BY <1>2, <2>1, <2>3 DEF Accounted
    <2>5. QED
      BY <1>2, <2>2, <2>3, <2>4 DEF AccountedFor, Settled
  <1>3. CASE StartEvent(v)
    <2>1. PICK e \in Events : e = Current(v)
      BY <1>3, CurrentType DEF StartEvent, Goto
    <2>2. claim'[v].batch = claim[v].batch /\ claim'[v].todo = claim[v].seen
      BY <1>3, <1>a DEF StartEvent, ClaimTypes, Claims
    <2>3. Current(v)' = e /\ ~LeaseEvent(v)
      BY <1>3, <2>1, <2>2 DEF Current, LeaseEvent, StartEvent, Goto
    <2>4. Holds(v, e) /\ event[e].status = "open"
      BY <1>1, <2>1, <2>3
    <2>5. decided'[e] = decided[e] \cup (Users \ claim[v].seen)
      <3>1. Users \ claim[v].seen \in SUBSET Destinations
        OBVIOUS
      <3>2. QED
        BY <3>1, <1>3, <1>a, <2>1, <2>4, FindAdds DEF StartEvent
    <2>6. ~(Guilds \subseteq claim[v].seen) => excused'[e]
      BY <1>3, <1>a, <2>1, <2>4 DEF StartEvent, ExcusedTypes
    <2>7. QED
      BY <2>2, <2>3, <2>5, <2>6 DEF AccountedFor, Settled
  <1>4. CASE Turn(v)
    <2>1. PICK e \in Events : e = Current(v)
      BY <1>4, CurrentType, TurnsEnd
    <2>2. pc[v] \in Delivering /\ ~LeaseEvent(v)
      BY <1>4, TurnsEnd DEF LeaseEvent, Goto, Delivering
    <2>3. CASE /\ UNCHANGED decided
               /\ claim'[v].todo = claim[v].todo /\ claim'[v].batch = claim[v].batch
               /\ claim'[v].failed = claim[v].failed
      <3>1. Current(v)' = e
        BY <2>1, <2>3 DEF Current
      <3>2. QED
        BY <1>1, <2>1, <2>2, <2>3, <3>1 DEF Accounted, AccountedFor, Settled
    <2>4. ASSUME NEW d \in Destinations, Done(v, d)
          PROVE  AccountedFor(v, Current(v))'
      <3>1. /\ Leaves(v, d, claim[v].failed)
            /\ event[e].status = "open" => d \in decided'[e]
        BY <2>1, <2>2, <2>4, DoneLeaves
      <3>2. Current(v)' = e
        BY <2>1, <3>1 DEF Current, Leaves
      <3>3. /\ Holds(v, e) /\ event[e].status = "open" /\ event'[e].attempts = event[e].attempts
            /\ (excused[e] => excused'[e]) /\ decided[e] \subseteq decided'[e]
        BY <1>1, <2>1, <2>2, <3>2
      <3>4. AccountedFor(v, e)
        BY <2>1, <2>2, <3>3 DEF Accounted
      <3>5. claim'[v].todo = claim[v].todo \ {d} /\ claim'[v].failed = claim[v].failed
        BY <3>1 DEF Leaves
      <3>6. QED
        BY <3>1, <3>2, <3>3, <3>4, <3>5 DEF AccountedFor, Settled
    <2>5. ASSUME NEW d \in Destinations, Failed(v, d)
          PROVE  AccountedFor(v, Current(v))'
      <3>1. /\ Leaves(v, d, TRUE)
            /\ LastAttempt(v) /\ event[e].status = "open" => d \in decided'[e]
        BY <2>1, <2>2, <2>5, FailedLeaves
      <3>2. Current(v)' = e
        BY <2>1, <3>1 DEF Current, Leaves
      <3>3. /\ Holds(v, e) /\ event[e].status = "open" /\ event'[e].attempts = event[e].attempts
            /\ (excused[e] => excused'[e]) /\ decided[e] \subseteq decided'[e]
        BY <1>1, <2>1, <2>2, <3>2
      <3>4. AccountedFor(v, e)
        BY <2>1, <2>2, <3>3 DEF Accounted
      <3>5. claim'[v].todo = claim[v].todo \ {d} /\ claim'[v].failed = TRUE
        BY <3>1 DEF Leaves
      <3>6. event[e].attempts = MaxAttempts => d \in decided'[e]
        BY <2>1, <3>1, <3>3 DEF LastAttempt
      <3>7. event[e].attempts \in 0 .. MaxAttempts
        BY <1>a DEF RowTypes, Rows
      <3>8. d \in decided'[e] \/ event'[e].attempts < MaxAttempts
        BY <3>3, <3>6, <3>7, NumbersAreNat
      <3>9. QED
        BY <3>2, <3>3, <3>4, <3>5, <3>8 DEF AccountedFor, Settled
    <2>6. QED
      BY <2>3, <2>4, <2>5, <1>4, TurnsEnd
  <1>5. CASE SelectEvents(v) \/ LeaseEvent(v) \/ LoadDestinations(v) \/ FinishEvent(v) \/ Abandon(v)
    BY <1>5, <1>a DEF SelectEvents, LeaseEvent, LoadDestinations, FinishEvent, Abandon, Goto,
           PlaceTypes, Delivering
  <1>6. QED
    BY <1>2, <1>3, <1>4, <1>5, OthersStay DEF Pass, Turn

-----------------------------------------------------------------------------
(* What a step may do to a user without breaking the order of deliveries: leave
   the messages and receipts, and each worker's delivery, or end the delivery of a
   worker that is not about to write a receipt. *)
Untouched(u) ==
    \A e \in Events : /\ sent'[<<u, e>>] = sent[<<u, e>>]
                      /\ <<u, e>> \in receipts' <=> <<u, e>> \in receipts
Same(v) == /\ pc'[v] = pc[v] /\ claim'[v].user = claim[v].user
           /\ claim'[v].batch = claim[v].batch
Frees(v, u) == claim'[v].user # u /\ (claim[v].user = u => pc[v] # "receipt")

LEMMA UntouchedStaysSafe ==
    ASSUME NEW u \in Users, UserSafe(u), Untouched(u),
           \A v \in Workers : Same(v) \/ Frees(v, u),
           \A v \in Workers : claim[v].user = u => Current(v) \in Events
    PROVE  UserSafe(u)'
  <1>1. Receipts(u)' = Receipts(u)
    BY DEF Untouched, Receipts
  <1>2. ASSUME NEW v \in Workers, claim'[v].user = u
        PROVE  claim[v].user = u /\ pc'[v] = pc[v] /\ Current(v)' = Current(v)
    BY <1>2 DEF Same, Frees, Current
  <1>3. \A v, w \in Workers : claim'[v].user = u /\ claim'[w].user = u => v = w
    BY <1>2 DEF UserSafe
  <1>4. ASSUME NEW w \in Workers, claim'[w].user = u
        PROVE  <<u, Current(w)'>> \notin receipts'
    <2>1. <<u, Current(w)>> \notin receipts
      BY <1>2, <1>4 DEF UserSafe
    <2>2. Current(w) \in Events
      BY <1>2, <1>4
    <2>3. QED
      BY <2>1, <2>2, <1>2, <1>4 DEF Untouched
  <1>5. ASSUME NEW e \in Events, sent'[<<u, e>>] > 0
        PROVE  <<u, e>> \in receipts' \/ \E w \in Workers : InFlight(w, u, e)'
    <2>1. CASE <<u, e>> \in receipts
      BY <2>1 DEF Untouched
    <2>2. ASSUME NEW w \in Workers, InFlight(w, u, e)
          PROVE  InFlight(w, u, e)'
      BY <2>2 DEF InFlight, Same, Frees, Current
    <2>3. QED
      BY <2>1, <2>2, <1>5 DEF UserSafe, Untouched
  <1>6. \A e \in Events : sent'[<<u, e>>] < 2
    BY DEF UserSafe, Untouched
  <1>7. QED
    BY <1>1, <1>2, <1>3, <1>4, <1>5, <1>6 DEF UserSafe

(* A delivery that begins alone, for a user below the cap. *)
LEMMA BegunSafe ==
    ASSUME ClaimTypes, NEW u \in Users, UserSafe(u), NEW w \in Workers, ~InDelivery(u),
           MaySend(u, Current(w)), claim' = [claim EXCEPT ![w].user = u],
           UNCHANGED <<receipts, sent>>
    PROVE  UserSafe(u)'
  <1>1. claim'[w].user = u /\ claim'[w].batch = claim[w].batch
    BY DEF ClaimTypes, Claims
  <1>2. \A v \in Workers : v # w => claim'[v].user # u
    BY DEF InDelivery, ClaimTypes
  <1>3. Current(w)' = Current(w) /\ Receipts(u)' = Receipts(u)
    BY <1>1 DEF Current, Receipts
  <1>4. \A e \in Events : sent'[<<u, e>>] > 0 => <<u, e>> \in receipts'
    BY DEF UserSafe, InFlight, InDelivery
  <1>5. <<u, Current(w)'>> \notin receipts' /\ Cardinality(Receipts(u)') < Cap
    BY <1>3 DEF MaySend
  <1>6. Cardinality(Receipts(u)') <= Cap /\ \A e \in Events : sent'[<<u, e>>] < 2
    BY <1>3 DEF UserSafe
  <1>7. QED
    BY <1>1, <1>2, <1>4, <1>5, <1>6 DEF UserSafe

(* The message of the only delivery of a user is its first. *)
LEMMA SentSafe ==
    ASSUME UserTypes, NEW u \in Users, UserSafe(u), NEW w \in Workers, claim[w].user = u,
           pc[w] = "send", pc'[w] = "receipt", Current(w) \in Events, Count(u, Current(w)),
           UNCHANGED <<claim, receipts>>
    PROVE  UserSafe(u)'
  <1>1. PICK e \in Events : e = Current(w)
    OBVIOUS
  <1>2. Receipts(u)' = Receipts(u) /\ \A v \in Workers : Current(v)' = Current(v)
    BY DEF Receipts, Current
  <1>3. \A v \in Workers, x \in Events : ~InFlight(v, u, x)
    BY DEF UserSafe, InFlight
  <1>4. <<u, e>> \notin receipts
    BY <1>1 DEF UserSafe
  <1>5. ~(sent[<<u, e>>] > 0)
    BY <1>3, <1>4 DEF UserSafe
  <1>6. sent[<<u, e>>] = 0 /\ \A x \in Events : sent[<<u, x>>] \in 0 .. 2
    BY <1>5 DEF UserTypes
  <1>7. sent' = [sent EXCEPT ![<<u, e>>] = 1]
    BY <1>1, <1>6 DEF Count
  <1>8. sent'[<<u, e>>] = 1 /\ \A x \in Events : x # e => sent'[<<u, x>>] = sent[<<u, x>>]
    BY <1>7 DEF UserTypes
  <1>9. InFlight(w, u, e)'
    BY <1>1, <1>2 DEF InFlight
  <1>10. \A x \in Events : sent'[<<u, x>>] < 2
    BY <1>8 DEF UserSafe
  <1>11. \A x \in Events : sent'[<<u, x>>] > 0 =>
            <<u, x>> \in receipts' \/ \E v \in Workers : InFlight(v, u, x)'
    BY <1>3, <1>8, <1>9 DEF UserSafe
  <1>12. QED
    BY <1>2, <1>10, <1>11 DEF UserSafe

(* The receipt of the only delivery of a user keeps the cap. *)
LEMMA ReceiptedSafe ==
    ASSUME NEW u \in Users, UserSafe(u), NEW w \in Workers, claim[w].user = u,
           Current(w) \in Events, claim'[w].user = "none",
           \A v \in Workers : v # w => claim'[v] = claim[v],
           receipts' = receipts \cup {<<u, Current(w)>>}, UNCHANGED sent
    PROVE  UserSafe(u)'
  <1>1. PICK e \in Events : e = Current(w)
    OBVIOUS
  <1>2. \A v \in Workers : claim'[v].user # u
    BY SetAssumption DEF UserSafe
  <1>3. \A x \in Events : sent'[<<u, x>>] > 0 => <<u, x>> \in receipts'
    <2>1. ASSUME NEW x \in Events, NEW v \in Workers, InFlight(v, u, x)
          PROVE  <<u, x>> \in receipts'
      BY <2>1, <1>1 DEF UserSafe, InFlight
    <2>2. QED
      BY <2>1 DEF UserSafe
  <1>4. Cardinality(Receipts(u)') <= Cap
    <2>1. Receipts(u)' = Receipts(u) \cup {e}
      BY <1>1 DEF Receipts
    <2>2. IsFiniteSet(Receipts(u))
      BY SetAssumption, FS_Subset DEF Receipts
    <2>3. e \notin Receipts(u) /\ Cardinality(Receipts(u)) < Cap
      BY <1>1 DEF UserSafe, Receipts
    <2>4. Cardinality(Receipts(u) \cup {e}) = Cardinality(Receipts(u)) + 1
      BY <2>2, <2>3, FS_AddElement
    <2>5. Cardinality(Receipts(u)) \in Nat
      BY <2>2, FS_CardinalityType
    <2>6. QED
      BY <2>1, <2>3, <2>4, <2>5, NumbersAreNat
  <1>5. \A x \in Events : sent'[<<u, x>>] < 2
    BY DEF UserSafe
  <1>6. QED
    BY <1>2, <1>3, <1>4, <1>5 DEF UserSafe

(* Every user without a mishap stays safe. *)
LEMMA UsersStep ==
    ASSUME TypeOK, ClaimsInStep, UsersSafe, [Next]_vars
    PROVE  UsersSafe'
  <1> USE DEF rowVars, userVars, historyVars
  <1>a. PlaceTypes /\ ClaimTypes /\ UserTypes
    BY TypesAreTypeOK DEF Types
  <1> SUFFICES ASSUME NEW u \in Users, u \notin blurred'
               PROVE  UserSafe(u)'
    BY DEF UsersSafe
  <1>n. u # "none" /\ \A v \in Workers : claim[v].user = u => pc[v] \in WithUser
    BY SetAssumption DEF ClaimsInStep
  <1>c. \A v \in Workers : claim[v].user = u => Current(v) \in Events
    BY <1>n, CurrentType DEF WithUser, Delivering
  (* A worker's step that sends nothing and writes no receipt. *)
  <1>f. ASSUME NEW w \in Workers, Pass(w) \/ Abandon(w), Untouched(u), UserSafe(u),
               Same(w) \/ Frees(w, u)
        PROVE  UserSafe(u)'
    <2>1. \A v \in Workers : v # w => Same(v)
      BY <1>f, MovesAlone DEF Same
    <2>2. QED
      BY <2>1, <1>c, <1>f, UntouchedStaysSafe
  <1>1. u \notin blurred
    BY DEF Next, Pass, vars, SelectEvents, LeaseEvent, LoadDestinations, StartEvent, DeliverGuild,
           CheckUser, SendDM, RecordReceipt, FinishEvent, Abandon, Publish, Prune, SetAlerts, Tick,
           Blur
  <1>2. UserSafe(u)
    BY <1>1 DEF UsersSafe
  <1>3. ASSUME NEW w \in Workers,
               \/ SelectEvents(w) \/ LeaseEvent(w) \/ LoadDestinations(w) \/ StartEvent(w)
               \/ FinishEvent(w)
        PROVE  UserSafe(u)'
    <2>1. claim[w].user = "none"
      BY <1>3 DEF ClaimsInStep, WithUser, SelectEvents, LeaseEvent, LoadDestinations, StartEvent,
             FinishEvent, Goto
    <2>2. claim'[w].user = "none"
      <3>1. CASE SelectEvents(w)
        BY <2>1, <3>1, <1>a, Selection DEF ClaimTypes, Claims
      <3>2. CASE LeaseEvent(w)
        BY <2>1, <3>2, <1>a DEF LeaseEvent, ClaimTypes, Claims
      <3>3. CASE LoadDestinations(w)
        BY <2>1, <3>3, <1>a DEF LoadDestinations, ClaimTypes, Claims
      <3>4. CASE StartEvent(w)
        BY <2>1, <3>4, <1>a DEF StartEvent, ClaimTypes, Claims
      <3>5. CASE FinishEvent(w)
        BY <2>1, <3>5, <1>a DEF FinishEvent, ClaimTypes, Claims, NoClaim
      <3>6. QED
        BY <1>3, <3>1, <3>2, <3>3, <3>4, <3>5
    <2>3. Untouched(u)
      BY <1>3 DEF Untouched, SelectEvents, LeaseEvent, LoadDestinations, StartEvent, FinishEvent
    <2>4. QED
      BY <1>2, <1>3, <1>f, <1>n, <2>1, <2>2, <2>3 DEF Frees, Pass
  <1>4. ASSUME NEW w \in Workers, NEW d \in Destinations, Done(w, d) \/ Failed(w, d),
               pc[w] \in Delivering
        PROVE  claim'[w].user = "none" /\ \A v \in Workers : v # w => claim'[v] = claim[v]
    BY <1>4, DoneLeaves, FailedLeaves DEF Leaves
  <1>5. ASSUME NEW w \in Workers, NEW g \in Guilds, DeliverGuild(w, g)
        PROVE  UserSafe(u)'
    <2>1. pc[w] = "deliver" /\ claim[w].user # u
      BY <1>5, <1>n DEF DeliverGuild, Goto, WithUser
    <2>2. claim'[w].user = "none"
      BY <1>4, <1>5, <2>1 DEF DeliverGuild, Delivering
    <2>3. Untouched(u)
      BY <1>5 DEF Untouched, DeliverGuild
    <2>4. QED
      BY <1>2, <1>5, <1>f, <1>n, <2>1, <2>2, <2>3 DEF Frees, Pass
  <1>6. ASSUME NEW w \in Workers, NEW x \in Users, CheckUser(w, x)
        PROVE  UserSafe(u)'
    <2>1. pc[w] = "deliver" /\ claim[w].user # u
      BY <1>6, <1>n DEF CheckUser, Goto, WithUser
    <2>2. Untouched(u) /\ UNCHANGED <<receipts, sent>>
      BY <1>6 DEF Untouched, CheckUser
    <2>3. CASE claim'[w].user # u
      BY <1>2, <1>6, <1>f, <2>1, <2>2, <2>3 DEF Frees, Pass
    <2>4. CASE Done(w, x) \/ Failed(w, x)
      BY <1>4, <1>n, <2>1, <2>3, <2>4 DEF Delivering
    <2>5. CASE /\ claim' = [claim EXCEPT ![w].user = x] /\ MaySend(x, Current(w))
               /\ blurred' = IF InDelivery(x) THEN blurred \cup {x} ELSE blurred
      <3>1. claim'[w].user = x
        BY <2>5, <1>a DEF ClaimTypes, Claims
      <3>2. CASE x = u
        BY <1>2, <1>a, <2>2, <2>5, <3>2, BegunSafe
      <3>3. QED
        BY <2>3, <3>1, <3>2
    <2>6. QED
      BY <1>6, <2>4, <2>5 DEF CheckUser
  <1>7. ASSUME NEW w \in Workers, SendDM(w)
        PROVE  UserSafe(u)'
    <2>1. pc[w] = "send" /\ claim[w].user \in Users
      BY <1>7 DEF SendDM, Goto, ClaimsInStep, WithUser
    <2>2. Current(w) \in Events /\ pc[w] \in Delivering /\ claim[w].user \in Destinations
      BY <2>1, CurrentType DEF Delivering
    <2>3. UNCHANGED receipts
      BY <1>7 DEF SendDM
    <2>4. CASE /\ Goto(w, "send", "receipt") /\ Count(claim[w].user, Current(w))
               /\ UNCHANGED claim /\ claim[w].user = u
      <3>1. pc'[w] = "receipt"
        BY <1>a, <2>4 DEF Goto, PlaceTypes
      <3>2. QED
        BY <1>2, <1>a, <2>1, <2>2, <2>3, <2>4, <3>1, SentSafe
    <2>5. CASE claim[w].user # u
      <3>1. Untouched(u)
        BY <1>7, <1>a, <2>1, <2>2, <2>3, <2>5 DEF SendDM, Count, Untouched, UserTypes
      <3>2. claim'[w].user # u
        BY <1>4, <1>7, <1>n, <2>2, <2>5 DEF SendDM
      <3>3. QED
        BY <1>2, <1>7, <1>f, <2>5, <3>1, <3>2 DEF Frees, Pass
    <2>6. CASE UNCHANGED sent /\ (Done(w, claim[w].user) \/ Failed(w, claim[w].user))
      <3>1. Untouched(u) /\ claim'[w].user # u
        BY <1>4, <1>n, <2>2, <2>3, <2>6 DEF Untouched
      <3>2. QED
        BY <1>2, <1>7, <1>f, <2>1, <3>1 DEF Frees, Pass
    <2>7. QED
      BY <1>7, <2>4, <2>5, <2>6 DEF SendDM, Blur
  <1>8. ASSUME NEW w \in Workers, RecordReceipt(w)
        PROVE  UserSafe(u)'
    <2>1. pc[w] = "receipt" /\ claim[w].user \in Users
      BY <1>8 DEF RecordReceipt, Goto, ClaimsInStep, WithUser
    <2>2. Current(w) \in Events /\ pc[w] \in Delivering /\ claim[w].user \in Destinations
      BY <2>1, CurrentType DEF Delivering
    <2>3. claim'[w].user = "none" /\ \A v \in Workers : v # w => claim'[v] = claim[v]
      BY <1>4, <1>8, <2>2 DEF RecordReceipt
    <2>4. CASE claim[w].user = u
      <3>1. receipts' = receipts \cup {<<u, Current(w)>>} /\ UNCHANGED sent
        BY <1>8, <2>4 DEF RecordReceipt, Blur
      <3>2. QED
        BY <1>2, <2>2, <2>3, <2>4, <3>1, ReceiptedSafe
    <2>5. CASE claim[w].user # u
      <3>1. Untouched(u)
        BY <1>8, <2>5 DEF RecordReceipt, Untouched
      <3>2. QED
        BY <1>2, <1>8, <1>f, <1>n, <2>3, <2>5, <3>1 DEF Frees, Pass
    <2>6. QED
      BY <2>4, <2>5
  <1>9. ASSUME NEW w \in Workers, Abandon(w)
        PROVE  UserSafe(u)'
    <2>1. claim'[w].user = "none" /\ Untouched(u)
      BY <1>9, <1>a DEF Abandon, ClaimTypes, NoClaim, Untouched
    <2>2. claim[w].user = u => pc[w] # "receipt"
      BY <1>9 DEF Abandon, Blur
    <2>3. QED
      BY <1>2, <1>9, <1>f, <1>n, <2>1, <2>2 DEF Frees
  <1>10. CASE UNCHANGED <<receipts, sent, pc, claim>>
    BY <1>2, <1>10, <1>c, UntouchedStaysSafe DEF Untouched, Same
  <1>11. QED
    BY <1>3, <1>5, <1>6, <1>7, <1>8, <1>9, <1>10
    DEF Next, Pass, vars, Publish, Prune, SetAlerts, Tick

-----------------------------------------------------------------------------
(* The events implement the outbox. *)
LEMMA OutboxInit == Init => Abstract!Init
  BY DEF Init, Abstract!Init, NoRow

(* What a pass finds is a decision of the outbox, or nothing. *)
LEMMA FindDecides ==
    ASSUME DecidedTypes, ExcusedTypes, NEW e \in Events, NEW found \in SUBSET Destinations,
           NEW excuse \in BOOLEAN, UNCHANGED event,
           decided' = IF event[e].status = "open" THEN [decided EXCEPT ![e] = @ \cup found]
                      ELSE decided,
           excused' = IF event[e].status = "open" THEN [excused EXCEPT ![e] = @ \/ excuse]
                      ELSE excused
    PROVE  [Abstract!Next]_(Abstract!vars)
  <1>1. CASE event[e].status = "open"
    <2>1. Abstract!Decide(e)
      BY <1>1 DEF Abstract!Decide
    <2>2. QED
      BY <2>1 DEF Abstract!Next
  <1>2. CASE event[e].status # "open"
    BY <1>2 DEF Abstract!vars
  <1>3. QED
    BY <1>1, <1>2

(* The same without a reason to close early. *)
LEMMA FindOnlyDecides ==
    ASSUME DecidedTypes, ExcusedTypes, NEW w \in Workers, Current(w) \in Events,
           NEW found \in SUBSET Destinations, UNCHANGED <<event, excused>>, Find(w, found)
    PROVE  [Abstract!Next]_(Abstract!vars)
  <1>1. PICK e \in Events : e = Current(w)
    OBVIOUS
  <1>2. excused' = IF event[e].status = "open" THEN [excused EXCEPT ![e] = @ \/ FALSE] ELSE excused
    BY DEF ExcusedTypes
  <1>3. decided' = IF event[e].status = "open" THEN [decided EXCEPT ![e] = @ \cup found] ELSE decided
    BY <1>1 DEF Find
  <1>4. QED
    BY <1>2, <1>3, FindDecides

LEMMA OutboxStep ==
    ASSUME TypeOK, ClaimsInStep, RowsInStep, Accounted, [Next]_vars
    PROVE  [Abstract!Next]_(Abstract!vars)
  <1> USE DEF rowVars, userVars, historyVars
  <1>a. RowTypes /\ DecidedTypes /\ ExcusedTypes /\ "none" \notin Workers
    BY TypesAreTypeOK, SetAssumption DEF Types
  (* One event is opened or closed. *)
  <1>e. ASSUME NEW e \in Events, Abstract!Open(e) \/ Abstract!Close(e)
        PROVE  [Abstract!Next]_(Abstract!vars)
    BY <1>e DEF Abstract!Next
  (* A step that changes no status and no history stutters. *)
  <1>s. ASSUME UNCHANGED <<decided, excused>>, \A e \in Events : event'[e].status = event[e].status
        PROVE  [Abstract!Next]_(Abstract!vars)
    BY <1>s DEF Abstract!vars
  (* A step that changes the row of one event. *)
  <1>r. ASSUME NEW e \in Events, NEW row, NEW status, row.status = status,
               event' = [event EXCEPT ![e] = row]
        PROVE  /\ status = event[e].status => \A x \in Events : event'[x].status = event[x].status
               /\ [x \in Events |-> event'[x].status]
                     = [[x \in Events |-> event[x].status] EXCEPT ![e] = status]
    BY <1>r, <1>a DEF RowTypes
  <1>1. ASSUME NEW w \in Workers, LeaseEvent(w)
        PROVE  [Abstract!Next]_(Abstract!vars)
    <2>1. UNCHANGED <<decided, excused>>
      BY <1>1 DEF LeaseEvent
    <2>2. PICK e \in Events :
             \/ UNCHANGED event
             \/ Claimable(e) /\ event[e].readable /\ event' = [event EXCEPT ![e] = LeaseRow(w, e)]
             \/ Claimable(e) /\ ~event[e].readable /\ event' = [event EXCEPT ![e] = Discarded(e)]
      BY <1>1, LeaseRows
    <2>3. CASE UNCHANGED event
      BY <1>s, <2>1, <2>3
    <2>4. CASE event' = [event EXCEPT ![e] = LeaseRow(w, e)]
      <3>1. LeaseRow(w, e).status = event[e].status
        BY <1>a DEF LeaseRow, RowTypes, Rows
      <3>2. QED
        BY <1>r, <1>s, <2>1, <2>4, <3>1
    <2>5. CASE Claimable(e) /\ ~event[e].readable /\ event' = [event EXCEPT ![e] = Discarded(e)]
      <3>1. Discarded(e).status = "closed"
        BY <1>a DEF Discarded, RowTypes, Rows
      <3>2. event[e].status = "open" /\ excused[e]
        BY <2>5 DEF Claimable, RowsInStep
      <3>3. [x \in Events |-> event'[x].status]
              = [[x \in Events |-> event[x].status] EXCEPT ![e] = "closed"]
        BY <1>r, <2>5, <3>1
      <3>4. Abstract!Close(e)
        BY <2>1, <3>2, <3>3 DEF Abstract!Close
      <3>5. QED
        BY <1>e, <3>4
    <2>6. QED
      BY <2>2, <2>3, <2>4, <2>5
  <1>2. ASSUME NEW w \in Workers, StartEvent(w)
        PROVE  [Abstract!Next]_(Abstract!vars)
    <2>1. PICK e \in Events : e = Current(w)
      BY <1>2, CurrentType DEF StartEvent, Goto
    <2>2. Users \ claim[w].seen \in SUBSET Destinations
      OBVIOUS
    <2>3. decided' = IF event[e].status = "open"
                     THEN [decided EXCEPT ![e] = @ \cup (Users \ claim[w].seen)] ELSE decided
      BY <1>2, <2>1 DEF StartEvent, Find
    <2>4. PICK missing \in BOOLEAN : excused' = IF event[e].status = "open"
                      THEN [excused EXCEPT ![e] = @ \/ missing] ELSE excused
      BY <1>2, <2>1 DEF StartEvent
    <2>5. UNCHANGED event
      BY <1>2 DEF StartEvent
    <2>6. QED
      BY <1>a, <2>2, <2>3, <2>4, <2>5, FindDecides
  <1>3. ASSUME NEW w \in Workers, Turn(w)
        PROVE  [Abstract!Next]_(Abstract!vars)
    <2>1. pc[w] \in Delivering /\ UNCHANGED <<event, excused>>
      BY <1>3, TurnsEnd
    <2>2. Current(w) \in Events
      BY <2>1, CurrentType
    <2>3. CASE UNCHANGED decided
      BY <1>s, <2>1, <2>3
    <2>4. ASSUME NEW d \in Destinations, Find(w, {d})
          PROVE  [Abstract!Next]_(Abstract!vars)
      <3>1. {d} \in SUBSET Destinations
        OBVIOUS
      <3>2. QED
        BY <1>a, <2>1, <2>2, <2>4, <3>1, FindOnlyDecides
    <2>5. QED
      BY <1>3, <2>3, <2>4, TurnsEnd DEF Done, Failed
  <1>4. ASSUME NEW w \in Workers, FinishEvent(w)
        PROVE  [Abstract!Next]_(Abstract!vars)
    <2>1. UNCHANGED <<decided, excused>> /\ pc[w] = "deliver" /\ claim[w].todo = {}
      BY <1>4 DEF FinishEvent, Goto
    <2>2. PICK e \in Events : e = Current(w)
      BY <1>4, FinishRows
    <2>3. CASE UNCHANGED event
      BY <1>s, <2>1, <2>3
    <2>4. CASE Holds(w, e) /\ event' = [event EXCEPT ![e] = SettledRow(w, e)]
      <3>1. event[e].status = "open"
        BY <1>a, <2>4 DEF Holds, RowsInStep
      <3>2. SettledRow(w, e).status = IF Outcome(w) = "close" THEN "closed" ELSE event[e].status
        BY <1>a DEF SettledRow, RowTypes, Rows
      <3>3. CASE Outcome(w) # "close"
        BY <1>r, <1>s, <2>1, <2>4, <3>2, <3>3
      <3>4. CASE Outcome(w) = "close"
        <4>1. ~(claim[w].failed /\ event[e].attempts < MaxAttempts)
          BY <2>2, <3>4 DEF Outcome
        <4>2. AccountedFor(w, e)
          BY <2>1, <2>2, <2>4 DEF Accounted, Delivering
        <4>3. excused[e] \/ decided[e] = Destinations
          BY <1>a, <2>1, <4>1, <4>2 DEF AccountedFor, Settled, DecidedTypes
        <4>4. [x \in Events |-> event'[x].status]
                = [[x \in Events |-> event[x].status] EXCEPT ![e] = "closed"]
          BY <1>r, <2>4, <3>2, <3>4
        <4>5. Abstract!Close(e)
          BY <2>1, <3>1, <4>3, <4>4 DEF Abstract!Close
        <4>6. QED
          BY <1>e, <4>5
      <3>5. QED
        BY <3>3, <3>4
    <2>5. QED
      BY <1>4, <2>2, <2>3, <2>4, FinishRows
  <1>5. ASSUME NEW e \in Events, Publish(e)
        PROVE  [Abstract!Next]_(Abstract!vars)
    <2>1. PICK readable \in BOOLEAN :
             /\ event' = [event EXCEPT ![e] = [NoRow EXCEPT !.status = "open", !.readable = readable]]
             /\ excused' = [excused EXCEPT ![e] = ~readable]
      BY <1>5 DEF Publish
    <2>2. [NoRow EXCEPT !.status = "open", !.readable = readable].status = "open"
      BY DEF NoRow
    <2>3. [x \in Events |-> event'[x].status]
            = [[x \in Events |-> event[x].status] EXCEPT ![e] = "open"]
      BY <1>r, <2>1, <2>2
    <2>4. event[e].status = "absent"
      BY <1>5 DEF Publish, RowsInStep
    <2>5. decided' = [decided EXCEPT ![e] = {}]
      BY <1>5 DEF Publish
    <2>6. Abstract!Open(e)
      BY <2>1, <2>3, <2>4, <2>5 DEF Abstract!Open
    <2>7. QED
      BY <1>e, <2>6
  <1>6. ASSUME NEW e \in Events, Prune(e)
        PROVE  [Abstract!Next]_(Abstract!vars)
    <2>1. {e} \in SUBSET {x \in Events : event[x].status = "closed"}
      BY <1>6 DEF Prune
    <2>2. NoRow.status = "absent"
      BY DEF NoRow
    <2>3. [x \in Events |-> event'[x].status]
            = [x \in Events |-> IF x \in {e} THEN "absent" ELSE event[x].status]
      BY <1>6, <1>a, <2>2 DEF Prune, RowTypes
    <2>4. {e} \in SUBSET ({} \cup Abstract!Closed)
      BY <2>1 DEF Abstract!Closed
    <2>5. \E gone \in SUBSET ({} \cup Abstract!Closed), left \in SUBSET {} :
             /\ [x \in Events |-> event'[x].status]
                  = [x \in Events |-> IF x \in gone THEN "absent"
                                      ELSE [y \in Events |-> event[y].status][x]]
             /\ {} = left
      BY <2>3, <2>4
    <2>6. Abstract!Forget
      BY <1>6, <2>5 DEF Prune, Abstract!Forget
    <2>7. QED
      BY <2>6 DEF Abstract!Next
  <1>7. CASE Tick
    <2>1. \A e \in Events : event'[e].status = event[e].status
      BY <1>7, <1>a DEF Tick, RowTypes, Rows
    <2>2. QED
      BY <1>7, <1>s, <2>1 DEF Tick
  <1>8. CASE UNCHANGED <<event, decided, excused>>
    BY <1>8, <1>s
  <1>9. QED
    BY <1>1, <1>2, <1>3, <1>4, <1>5, <1>6, <1>7, <1>8
    DEF Next, Pass, Turn, vars, SelectEvents, LoadDestinations, Abandon, SetAlerts

-----------------------------------------------------------------------------
LEMMA Start == Init => EventsInv
  <1> SUFFICES ASSUME Init
               PROVE  EventsInv
    OBVIOUS
  <1>1. TypeOK
    <2>1. <<>> \in Seq(Events) /\ NoRow \in Rows /\ NoClaim \in Claims
      BY NoRowType, NoClaimType
    <2>2. 0 \in 0 .. MaxChanges /\ 0 \in 0 .. MaxCrashes
      BY NumbersAreNat
    <2>3. QED
      BY <2>1, <2>2 DEF Init, TypeOK
  <1>2. \A w \in Workers : pc[w] = "idle" /\ claim[w].user = "none"
    BY DEF Init, NoClaim
  <1>3. ClaimsInStep /\ Accounted
    BY <1>2 DEF ClaimsInStep, Accounted, WithUser, Delivering
  <1>4. RowsInStep
    BY DEF Init, RowsInStep, NoRow
  <1>5. UsersSafe
    <2> SUFFICES ASSUME NEW u \in Users
                 PROVE  UserSafe(u)
      BY DEF UsersSafe
    <2>1. u # "none"
      BY SetAssumption
    <2>2. Receipts(u) = {}
      BY DEF Init, Receipts
    <2>3. Cardinality(Receipts(u)) <= Cap
      BY <2>2, FS_EmptySet, NumbersAreNat
    <2>4. \A e \in Events : sent[<<u, e>>] = 0
      BY DEF Init
    <2>5. QED
      BY <1>2, <2>1, <2>3, <2>4 DEF UserSafe
  <1>6. QED
    BY <1>1, <1>3, <1>4, <1>5 DEF EventsInv

LEMMA Step == EventsInv /\ [Next]_vars => EventsInv'
  BY TypeStep, ClaimsStep, RowsStep, AccountedStep, UsersStep DEF EventsInv

(* The inductive invariant: types, what a pass carries at each place, what a row in
   each status has, what the holder of an event has decided, and the deliveries of the
   users without a mishap. *)
THEOREM Invariance == Spec => []EventsInv
  <1>1. QED
    BY Start, Step, PTL DEF Spec

(* Every row, line, receipt, claim and counter keeps its type: no attempt beyond
   EVENT_MAX_ATTEMPTS, no wait beyond the lease and the largest retry delay. *)
THEOREM TypeCorrect == Spec => []TypeOK
  <1>1. EventsInv => TypeOK
    BY DEF EventsInv
  <1>2. QED
    BY <1>1, Invariance, PTL

(* Whatever the number of processes, events, attempts and publications, a user is sent
   an event twice only after a lost receipt or two deliveries at the same time. *)
THEOREM RepeatsAreExplained == Spec => []RepeatsExplained
  <1>1. ASSUME EventsInv
        PROVE  RepeatsExplained
    <2> SUFFICES ASSUME NEW u \in Users, NEW e \in Events, u \notin blurred
                 PROVE  ~(sent[<<u, e>>] > 1)
      BY DEF RepeatsExplained
    <2>1. sent[<<u, e>>] < 2 /\ sent[<<u, e>>] \in 0 .. 2
      BY <1>1 DEF EventsInv, UsersSafe, UserSafe, TypeOK
    <2>2. QED
      BY <2>1
  <1>2. QED
    BY <1>1, Invariance, PTL

(* And the same mishaps are the only ways to exceed a user's daily cap: what a user
   was sent has a receipt, except for the one message whose delivery counted the
   receipts below the cap and has not written its own yet. *)
THEOREM CapIsExplained == Spec => []CapExplained
  <1>1. ASSUME EventsInv
        PROVE  CapExplained
    <2> DEFINE Messages(u) == {e \in Events : sent[<<u, e>>] > 0}
    <2> SUFFICES ASSUME NEW u \in Users, u \notin blurred
                 PROVE  ~(Cardinality(Messages(u)) > Cap)
      BY DEF CapExplained
    <2>1. UserSafe(u)
      BY <1>1 DEF EventsInv, UsersSafe
    <2>2. IsFiniteSet(Receipts(u)) /\ Cardinality(Receipts(u)) \in Nat
      BY SetAssumption, FS_Subset, FS_CardinalityType DEF Receipts
    <2>3. CASE \A e \in Events, w \in Workers : ~InFlight(w, u, e)
      <3>1. Messages(u) \subseteq Receipts(u)
        BY <2>1, <2>3 DEF UserSafe, Receipts
      <3>2. IsFiniteSet(Messages(u)) /\ Cardinality(Messages(u)) <= Cardinality(Receipts(u))
        BY <2>2, <3>1, FS_Subset
      <3>3. Cardinality(Messages(u)) \in Nat
        BY <3>2, FS_CardinalityType
      <3>4. Cardinality(Receipts(u)) <= Cap
        BY <2>1 DEF UserSafe
      <3>5. QED
        BY <2>2, <3>2, <3>3, <3>4, NumbersAreNat
    <2>4. ASSUME NEW e \in Events, NEW w \in Workers, InFlight(w, u, e)
          PROVE  ~(Cardinality(Messages(u)) > Cap)
      <3>1. /\ \A v \in Workers, x \in Events : InFlight(v, u, x) => x = e
            /\ e \notin Receipts(u) /\ Cardinality(Receipts(u)) < Cap
        BY <2>1, <2>4 DEF UserSafe, InFlight, Receipts
      <3>2. Messages(u) \subseteq Receipts(u) \cup {e}
        BY <2>1, <3>1 DEF UserSafe, Receipts
      <3>3. /\ IsFiniteSet(Receipts(u) \cup {e})
            /\ Cardinality(Receipts(u) \cup {e}) = Cardinality(Receipts(u)) + 1
        BY <2>2, <3>1, FS_AddElement
      <3>4. /\ IsFiniteSet(Messages(u))
            /\ Cardinality(Messages(u)) <= Cardinality(Receipts(u) \cup {e})
        BY <3>2, <3>3, FS_Subset
      <3>5. Cardinality(Messages(u)) \in Nat
        BY <3>4, FS_CardinalityType
      <3>6. QED
        BY <2>2, <3>1, <3>3, <3>4, <3>5, NumbersAreNat
    <2>5. QED
      BY <2>3, <2>4
  <1>2. QED
    BY <1>1, Invariance, PTL

(* Whatever the limits, the events are an outbox: none is closed before every
   destination was decided, unless a pass had a reason to close it early. *)
THEOREM Implements == Spec => ImplementsOutbox
  <1>1. EventsInv /\ [Next]_vars => [Abstract!Next]_(Abstract!vars)
    BY OutboxStep DEF EventsInv
  <1>2. QED
    BY <1>1, Invariance, OutboxInit, PTL DEF Spec, ImplementsOutbox, Abstract!Spec

(* A step of the outbox closes no event that is not settled. *)
LEMMA SettledStep ==
    ASSUME TypeOK, Abstract!ClosedIsSettled, [Abstract!Next]_(Abstract!vars)
    PROVE  Abstract!ClosedIsSettled'
<1> DEFINE status == [e \in Events |-> event[e].status]
<1>t. /\ DOMAIN status = Events /\ \A e \in Events : status[e] = event[e].status
      /\ DOMAIN status' = Events /\ \A e \in Events : status'[e] = event'[e].status
      /\ decided \in [Events -> SUBSET Destinations] /\ excused \in [Events -> BOOLEAN]
      /\ \A e \in Events : status[e] = "closed" => decided[e] = Destinations \/ excused[e]
  BY TypesAreTypeOK DEF Types, DecidedTypes, ExcusedTypes, Abstract!ClosedIsSettled
<1> SUFFICES ASSUME NEW d \in Events, status'[d] = "closed"
             PROVE  decided'[d] = Destinations \/ excused'[d]
  BY <1>t DEF Abstract!ClosedIsSettled
<1>1. ASSUME NEW e \in Events, Abstract!Open(e) PROVE decided'[d] = Destinations \/ excused'[d]
  <2>1. status' = [status EXCEPT ![e] = "open"]
    BY <1>1 DEF Abstract!Open
  <2>2. /\ decided' = [decided EXCEPT ![e] = {}]
        /\ \E excuse \in BOOLEAN : excused' = [excused EXCEPT ![e] = excuse]
    BY <1>1 DEF Abstract!Open
  <2> HIDE DEF status
  <2>3. d # e /\ status[d] = "closed"
    BY <1>t, <2>1
  <2>4. decided'[d] = decided[d] /\ excused'[d] = excused[d]
    BY <1>t, <2>2, <2>3
  <2>5. QED
    BY <1>t, <2>3, <2>4
<1>2. ASSUME NEW e \in Events, Abstract!Decide(e) PROVE decided'[d] = Destinations \/ excused'[d]
  <2>1. status' = status /\ status[e] = "open"
    BY <1>2 DEF Abstract!Decide
  <2>2. PICK found \in SUBSET Destinations, excuse \in BOOLEAN :
           /\ decided' = [decided EXCEPT ![e] = @ \cup found]
           /\ excused' = [excused EXCEPT ![e] = @ \/ excuse]
    BY <1>2 DEF Abstract!Decide
  <2> HIDE DEF status
  <2>3. d # e /\ status[d] = "closed"
    BY <1>t, <2>1
  <2>4. decided'[d] = decided[d] /\ excused'[d] = excused[d]
    BY <1>t, <2>2, <2>3
  <2>5. QED
    BY <1>t, <2>3, <2>4
<1>3. ASSUME NEW e \in Events, Abstract!Close(e) PROVE decided'[d] = Destinations \/ excused'[d]
  <2>1. /\ status' = [status EXCEPT ![e] = "closed"]
        /\ decided[e] = Destinations \/ excused[e]
        /\ decided' = decided /\ excused' = excused
    BY <1>3 DEF Abstract!Close
  <2> HIDE DEF status
  <2>2. d = e \/ status[d] = "closed"
    BY <1>t, <2>1
  <2>3. QED
    BY <1>t, <2>1, <2>2
<1>4. ASSUME Abstract!Forget PROVE decided'[d] = Destinations \/ excused'[d]
  <2>1. decided' = decided /\ excused' = excused
    BY <1>4 DEF Abstract!Forget
  <2>2. PICK closed :
           status' = [e \in Events |-> IF e \in closed THEN "absent" ELSE status[e]]
    BY <1>4 DEF Abstract!Forget
  <2> HIDE DEF status
  <2>3. status[d] = "closed"
    BY <1>t, <2>2
  <2>4. QED
    BY <1>t, <2>1, <2>3
<1>5. ASSUME UNCHANGED Abstract!vars PROVE decided'[d] = Destinations \/ excused'[d]
  <2>1. status' = status /\ decided' = decided /\ excused' = excused
    BY <1>5 DEF Abstract!vars
  <2> HIDE DEF status
  <2>2. QED
    BY <1>t, <2>1
<1>6. ASSUME Abstract!Doom PROVE decided'[d] = Destinations \/ excused'[d]
  <2>1. status' = status /\ decided' = decided /\ excused' = excused
    BY <1>6 DEF Abstract!Doom
  <2> HIDE DEF status
  <2>2. QED
    BY <1>t, <2>1
<1>7. QED
  BY <1>1, <1>2, <1>3, <1>4, <1>5, <1>6 DEF Abstract!Next

(* Every destination of a closed event was decided, or the reason to close it
   early is on record, over any number of attempts and publications;
   mark_verified_retailer_event_processed and the dead letters of
   release_verified_retailer_event. *)
THEOREM ClosedForgetsNobody == Spec => []Abstract!ClosedIsSettled
<1>1. Init => Abstract!ClosedIsSettled
  BY DEF Init, Abstract!ClosedIsSettled, NoRow
<1>2. QED
  BY <1>1, SettledStep, TypeCorrect, Implements, PTL DEF ImplementsOutbox, Abstract!Spec, Spec
=============================================================================
