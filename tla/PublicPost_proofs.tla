-------------------------- MODULE PublicPost_proofs --------------------------
(***************************************************************************)
(* Theorems about PublicPost, for every set of callers and prices and every *)
(* choice of the thresholds: the type invariant, exclusive delivery, the     *)
(* guard under every send, and no duplicate, of every delivery that has not  *)
(* lost its reservation.                                                     *)
(* The second part is about ExtremeFanout, the lane that posts through it:   *)
(* the type invariant, no recipient lost behind the cursor, and nothing      *)
(* stale sent.                                                               *)
(***************************************************************************)
EXTENDS PublicPost, ExtremeLeads, FiniteSetTheorems, TLAPS

(* An age grows by at most one and stays an age. *)
LEMMA OlderAges ==
    \A age \in Ages : Older(age) \in Ages /\ age <= Older(age) /\ Older(age) <= age + 1
BY TimeAssumption DEF Ages, Older

(* Writing a row of the right shape, or a status into one, keeps the shape. *)
LEMMA RowShapes ==
    /\ NoRow \in Rows
    /\ \A status \in {"reserved", "posted"} : Row(status) \in Rows
    /\ \A r \in Rows : [r EXCEPT !.status = "sending"] \in Rows
    /\ \A r \in Rows : [r EXCEPT !.age = Older(r.age)] \in Rows
BY OlderAges, TimeAssumption DEF NoRow, Row, Rows, Ages

(* Messages keep their shape when sent, recorded and aged. *)
LEMMA MessageShapes ==
    /\ NoMsg \in Messages
    /\ \A known \in {"yes", "no"}, age \in Ages, guarded \in BOOLEAN :
          [known |-> known, age |-> age, guarded |-> guarded] \in Messages
    /\ \A m \in Messages : [m EXCEPT !.known = "recorded"] \in Messages
    /\ \A m \in Messages : [m EXCEPT !.age = Older(m.age)] \in Messages
BY OlderAges, TimeAssumption DEF NoMsg, Messages, Ages

(* Dedupe rows keep their shape when written and aged. *)
LEMMA AlertShapes ==
    /\ NoAlert \in Alerts
    /\ \A p \in Prices : [price |-> p, age |-> 0] \in Alerts
    /\ \A a \in Alerts : [a EXCEPT !.age = Older(a.age)] \in Alerts
BY OlderAges, TimeAssumption DEF NoAlert, Alerts, Ages

(* The groups of labels are together all of them. *)
LEMMA LabelShapes ==
    {"idle", "check", "reserve", "mark", "confirm", "abort", "send", "release",
     "post", "postcheck", "dedupe"} = Labels
BY DEF Labels, Deciding, Owning, Claiming

(* The prices whose delivery is exposed are prices. *)
LEMMA ExposedTypes == ASSUME NEW lost, Expose(lost) PROVE exposed' \subseteq Prices
BY DEF Expose

(* A jump to a label leaves the program counters typed. *)
LEMMA GotoTypes ==
    ASSUME TypeOK, NEW c \in Callers, NEW label \in Labels, Goto(c, label)
    PROVE  pc' \in [Callers -> Labels]
BY DEF TypeOK, Goto

(* So does a step that may be tried once more. *)
LEMMA RetryTypes ==
    ASSUME TypeOK, NEW c \in Callers, NEW label \in Labels, NEW next \in Labels,
           Retry(c, label, next)
    PROVE  pc' \in [Callers -> Labels] /\ tries' \in [Callers -> {0, 1}]
<1>1. 1 - tries[c] \in {0, 1}
  BY DEF TypeOK
<1>2. QED
  BY <1>1 DEF TypeOK, Goto, Retry

(* The initial state is well typed. *)
LEMMA TypeInit == Init => TypeOK
BY RowShapes, MessageShapes, AlertShapes, LabelShapes, TimeAssumption
   DEF Init, TypeOK, Ages

(* TypeOK is inductive. *)
LEMMA TypeStep == TypeOK /\ [Next]_vars => TypeOK'
<1> SUFFICES ASSUME TypeOK, [Next]_vars PROVE TypeOK'
  OBVIOUS
<1> USE LabelShapes, ExposedTypes DEF TypeOK
<1>1. ASSUME NEW c \in Callers, NEW p \in Prices, Start(c, p) PROVE TypeOK'
  BY <1>1 DEF Start, Goto
<1>2. ASSUME NEW c \in Callers, CheckAlert(c) PROVE TypeOK'
  BY <1>2 DEF CheckAlert, Goto
<1>3. ASSUME NEW c \in Callers, Reserve(c) PROVE TypeOK'
  BY <1>3, RowShapes DEF Reserve, Goto
<1>4. ASSUME NEW c \in Callers, MarkSending(c) PROVE TypeOK'
  BY <1>4, RowShapes DEF MarkSending, Goto
<1>5. ASSUME NEW c \in Callers, ConfirmSending(c) PROVE TypeOK'
  BY <1>5 DEF ConfirmSending, Goto
<1>6. ASSUME NEW c \in Callers, Send(c) PROVE TypeOK'
  <2>1. \A o : [known |-> IF o = "ok" THEN "yes" ELSE "no", age |-> row[price[c]].age,
                guarded |-> price[c] \notin exposed] \in Messages
    BY MessageShapes DEF Rows
  <2>2. msg' \in [Prices -> Messages]
    BY <1>6, <2>1 DEF Send
  <2>3. pc' \in [Callers -> Labels]
    BY <1>6 DEF Send, Goto
  <2>4. QED
    BY <1>6, <2>2, <2>3 DEF Send
<1>7. ASSUME NEW c \in Callers, Release(c) PROVE TypeOK'
  <2>1. row' \in [Prices -> Rows]
    BY <1>7, RowShapes DEF Release
  <2>2. QED
    BY <1>7, <2>1 DEF Release, Goto
<1>8. ASSUME NEW c \in Callers, MarkPosted(c) PROVE TypeOK'
  <2>1. row' \in [Prices -> Rows]
    BY <1>8, RowShapes DEF MarkPosted
  <2>2. pc' \in [Callers -> Labels] /\ tries' \in [Callers -> {0, 1}]
    BY <1>8, RetryTypes, GotoTypes DEF MarkPosted
  <2>3. QED
    BY <1>8, <2>1, <2>2 DEF MarkPosted
<1>9. ASSUME NEW c \in Callers, ConfirmPosted(c) PROVE TypeOK'
  <2>1. pc' \in [Callers -> Labels] /\ tries' \in [Callers -> {0, 1}]
    BY <1>9, RetryTypes, GotoTypes DEF ConfirmPosted
  <2>2. QED
    BY <1>9, <2>1 DEF ConfirmPosted
<1>10. ASSUME NEW c \in Callers, RecordDedupe(c) PROVE TypeOK'
  <2>1. alert' \in Alerts
    BY <1>10, AlertShapes DEF RecordDedupe
  <2>2. msg' \in [Prices -> Messages]
    BY <1>10, MessageShapes DEF RecordDedupe
  <2>3. pc' \in [Callers -> Labels] /\ tries' \in [Callers -> {0, 1}]
    BY <1>10, RetryTypes, GotoTypes DEF RecordDedupe
  <2>4. QED
    BY <1>10, <2>1, <2>2, <2>3 DEF RecordDedupe
<1>11. ASSUME NEW c \in Callers, Crash(c) PROVE TypeOK'
  BY <1>11 DEF Crash, Goto
<1>12. ASSUME NEW p \in Prices, Prune(p) PROVE TypeOK'
  BY <1>12, RowShapes DEF Prune
<1>13. ASSUME Tick PROVE TypeOK'
  BY <1>13, OlderAges, RowShapes, MessageShapes, AlertShapes DEF Tick
<1>14. CASE UNCHANGED vars
  BY <1>14 DEF vars
<1>15. QED
  BY <1>1, <1>2, <1>3, <1>4, <1>5, <1>6, <1>7, <1>8, <1>9, <1>10, <1>11,
     <1>12, <1>13, <1>14 DEF Next, Deliver

(* Every reachable state has its type: no handler writes a status, an age or
   a program point outside the ones the tables and the code know. *)
THEOREM TypeCorrect == Spec => []TypeOK
BY TypeInit, TypeStep, PTL DEF Spec

-----------------------------------------------------------------------------
(* Every age and threshold is a number. *)
LEMMA Numbers ==
    ASSUME TypeOK
    PROVE  /\ \A p \in Prices : row[p].age \in Nat /\ msg[p].age \in Nat
           /\ {ReserveStale, SendingStale, DedupeTTL, OrphanRetention, PostRetention,
               MaxAge} \subseteq Nat
BY TimeAssumption DEF TypeOK, Rows, Messages, Ages

(* What the statuses and the prices of callers range over. *)
LEMMA Statuses ==
    ASSUME TypeOK
    PROVE  /\ \A p \in Prices : row[p].status \in {"none", "reserved", "sending", "posted"}
           /\ \A c \in Callers : price[c] \in Prices
BY DEF TypeOK, Rows

(* A delivery that is not exposed after a step was not exposed before it, lost
   nothing in it, and has a row that nobody may delete. *)
LEMMA Unexposed ==
    ASSUME TypeOK', NEW lost, Expose(lost),
           NEW d \in Callers, pc'[d] \in Owning, price'[d] \notin exposed'
    PROVE  price'[d] \notin exposed /\ price'[d] \notin lost /\ ~Expired(row'[price'[d]])
BY DEF Expose, TypeOK

(* Exposure comes from a lost reservation or an expired row only. *)
LEMMA ExposedBy ==
    ASSUME NEW lost, Expose(lost), NEW p \in exposed'
    PROVE  p \in exposed \/ p \in lost \/ Expired(row'[p])
BY DEF Expose

(* Rows that may be deleted, by a reservation or by the maintenance, have
   expired. *)
LEMMA DeletableExpired ==
    ASSUME TypeOK, NEW p \in Prices, Free(row[p]) \/ Prunable(row[p])
    PROVE  row[p].status = "none" \/ Expired(row[p])
BY Numbers, TimeAssumption DEF Free, Stale, Prunable, Expired

(* Nobody may delete the row of a delivery that is not exposed. *)
LEMMA OwnedRowsStay ==
    ASSUME TypeOK, DeliveryInvariant,
           NEW c \in Callers, pc[c] \in Owning, price[c] \notin exposed
    PROVE  row[price[c]].status # "none" /\ ~Free(row[price[c]]) /\ ~Prunable(row[price[c]])
<1>1. OwnRow(c)
  BY DEF DeliveryInvariant
<1>2. row[price[c]].status # "none" /\ ~Expired(row[price[c]])
  BY <1>1 DEF OwnRow, Owning, Claiming
<1>3. QED
  BY <1>2, Statuses, DeletableExpired

(* The row of a message that was posted recently has not expired. *)
LEMMA ProtectedRowsStay ==
    ASSUME TypeOK, DeliveryInvariant, NEW p \in Prices, RecentlyPosted(p)
    PROVE  ~Free(row[p]) /\ ~Prunable(row[p]) /\ ~Expired(row[p])
<1>1. row[p].status # "none" /\ ~Expired(row[p])
  BY Numbers DEF DeliveryInvariant, Protected, RecentlyPosted, Expired
<1>2. QED
  BY <1>1, DeletableExpired

(* The delivery invariant holds before anyone has called. *)
LEMMA InvariantInit == Init => DeliveryInvariant
BY DEF Init, DeliveryInvariant, ExclusiveDelivery, RecentlyPosted, NoMsg,
       Owning, Claiming

(* A reservation is made only where no live row stands. *)
LEMMA ReserveStep ==
    ASSUME TypeOK, TypeOK', DeliveryInvariant, NEW c \in Callers, Reserve(c)
    PROVE  DeliveryInvariant'
<1> USE Numbers, Statuses, OwnedRowsStay, ProtectedRowsStay
<1> DEFINE won == Free(row[price[c]])
<1>0. PICK outcome \in {"ok"} \cup ReserveFaults :
         /\ row' = IF Applied(outcome) /\ won
                   THEN [row EXCEPT ![price[c]] = Row("reserved")]
                   ELSE row
         /\ Goto(c, IF Returned(outcome) /\ won THEN "mark" ELSE "idle")
         /\ Expose(IF outcome = "lost" /\ won THEN {price[c]} ELSE {})
  BY DEF Reserve
<1>1. UNCHANGED <<msg, price>> /\ pc[c] = "reserve"
  BY DEF Reserve
<1> DEFINE lost == IF outcome = "lost" /\ won THEN {price[c]} ELSE {}
<1>2. \A d \in Callers : d # c => pc'[d] = pc[d]
  BY <1>0 DEF Goto, TypeOK
<1>3. pc'[c] = "mark" => won /\ (Applied(outcome) \/ price[c] \in lost)
  BY <1>0 DEF Goto, TypeOK, Applied, Returned
<1>4. \A p \in Prices : row'[p] = row[p] \/ (p = price[c] /\ won)
  BY <1>0 DEF TypeOK
<1>5. pc'[c] \in {"mark", "idle"} /\ (pc'[c] = "mark" => won)
  BY <1>0 DEF Goto, TypeOK
<1>6. \A d \in Callers : pc'[d] \in Owning /\ price'[d] \notin exposed' =>
            price[d] \notin exposed /\ price[d] \notin lost
  BY <1>0, <1>1, Unexposed
<1>7. ExclusiveDelivery'
  BY <1>1, <1>2, <1>5, <1>6 DEF DeliveryInvariant, ExclusiveDelivery, Owning, Claiming
<1>8. ASSUME NEW d \in Callers, pc'[d] \in Owning, price'[d] \notin exposed'
      PROVE  OwnRow(d)'
  <2>1. ~Expired(row'[price[d]])
    BY <1>0, <1>1, <1>8, Unexposed
  <2>2. CASE d = c
    <3>1. row'[price[c]] = Row("reserved")
      <4>1. pc'[c] = "mark" /\ price[c] \notin lost
        BY <1>5, <1>6, <1>8, <2>2 DEF Owning, Claiming
      <4>2. row' = [row EXCEPT ![price[c]] = Row("reserved")]
        BY <1>0, <1>3, <4>1
      <4>3. QED
        BY <4>2 DEF TypeOK
    <3>2. QED
      BY <1>1, <1>5, <1>8, <2>1, <2>2, <3>1 DEF OwnRow, Owning, Row
  <2>3. CASE d # c
    <3>1. OwnRow(d) /\ ~Free(row[price[d]])
      BY <1>2, <1>6, <1>8, <2>3 DEF DeliveryInvariant
    <3>2. row'[price[d]] = row[price[d]]
      BY <1>4, <3>1
    <3>3. QED
      BY <1>1, <1>2, <2>3, <3>1, <3>2 DEF OwnRow
  <2>4. QED
    BY <2>2, <2>3
<1>9. ASSUME NEW p \in Prices, RecentlyPosted(p)' PROVE Protected(p)'
  <2>1. RecentlyPosted(p)
    BY <1>1, <1>9 DEF RecentlyPosted
  <2>2. Protected(p) /\ ~Expired(row[p]) /\ ~Free(row[p])
    BY <2>1 DEF DeliveryInvariant
  <2>3. row'[p] = row[p] /\ (price[c] = p => ~won)
    BY <1>4, <2>2
  <2>4. p \notin exposed'
    BY <1>0, <2>2, <2>3, ExposedBy DEF Protected
  <2>5. QED
    BY <1>1, <1>2, <1>5, <2>2, <2>3, <2>4 DEF Protected, Owning, Claiming
<1>10. QED
  BY <1>7, <1>8, <1>9 DEF DeliveryInvariant

(* The UPDATE to 'sending' hits the caller's own row. *)
LEMMA MarkSendingStep ==
    ASSUME TypeOK, TypeOK', DeliveryInvariant, NEW c \in Callers, MarkSending(c)
    PROVE  DeliveryInvariant'
<1> USE Numbers, Statuses, OwnedRowsStay, ProtectedRowsStay
<1>0. Expose({})
  BY DEF MarkSending
<1>1. ExclusiveDelivery'
  BY <1>0, Unexposed
     DEF MarkSending, Goto, TypeOK, DeliveryInvariant, ExclusiveDelivery, Owning, Claiming
<1>2. \A d \in Callers : pc'[d] \in Owning /\ price'[d] \notin exposed' => OwnRow(d)'
  BY <1>0, Unexposed
     DEF MarkSending, Goto, TypeOK, DeliveryInvariant, ExclusiveDelivery, OwnRow, Owning, Claiming
<1>3. \A p \in Prices : RecentlyPosted(p)' => RecentlyPosted(p)
  BY DEF MarkSending, Goto, TypeOK, RecentlyPosted
<1>4. ASSUME NEW p \in Prices, RecentlyPosted(p)' PROVE Protected(p)'
  <2>1. Protected(p) /\ ~Expired(row[p]) /\ ~Free(row[p]) /\ ~Prunable(row[p])
    BY <1>3, <1>4 DEF DeliveryInvariant
  <2>2. /\ row'[p].status \in {"sending", "posted"}
        /\ row'[p].age <= msg'[p].age
        /\ ~Expired(row'[p])
    BY <1>4, <2>1 DEF MarkSending, Goto, TypeOK, RecentlyPosted, Protected, Expired, Owning, Claiming
  <2>3. p \notin exposed'
    BY <1>0, <2>1, <2>2, ExposedBy DEF Protected
  <2>4. QED
    BY <2>1, <2>2, <2>3 DEF MarkSending, Goto, TypeOK, Protected, Owning, Claiming
<1>5. QED
  BY <1>1, <1>2, <1>4 DEF DeliveryInvariant

(* What the confirming read sees is the caller's own row. *)
LEMMA ConfirmSendingStep ==
    ASSUME TypeOK, TypeOK', DeliveryInvariant, NEW c \in Callers, ConfirmSending(c)
    PROVE  DeliveryInvariant'
<1> USE Numbers, Statuses, OwnedRowsStay, ProtectedRowsStay
<1>0. Expose({})
  BY DEF ConfirmSending
<1>1. ExclusiveDelivery'
  BY <1>0, Unexposed
     DEF ConfirmSending, Goto, TypeOK, DeliveryInvariant, ExclusiveDelivery, Owning, Claiming
<1>2. \A d \in Callers : pc'[d] \in Owning /\ price'[d] \notin exposed' => OwnRow(d)'
  BY <1>0, Unexposed
     DEF ConfirmSending, Goto, TypeOK, DeliveryInvariant, ExclusiveDelivery, OwnRow, Owning, Claiming
<1>3. \A p \in Prices : RecentlyPosted(p)' => RecentlyPosted(p)
  BY DEF ConfirmSending, Goto, TypeOK, RecentlyPosted
<1>4. ASSUME NEW p \in Prices, RecentlyPosted(p)' PROVE Protected(p)'
  <2>1. Protected(p) /\ ~Expired(row[p]) /\ ~Free(row[p]) /\ ~Prunable(row[p])
    BY <1>3, <1>4 DEF DeliveryInvariant
  <2>2. /\ row'[p].status \in {"sending", "posted"}
        /\ row'[p].age <= msg'[p].age
        /\ ~Expired(row'[p])
    BY <1>4, <2>1 DEF ConfirmSending, Goto, TypeOK, RecentlyPosted, Protected, Expired, Owning, Claiming
  <2>3. p \notin exposed'
    BY <1>0, <2>1, <2>2, ExposedBy DEF Protected
  <2>4. QED
    BY <2>1, <2>2, <2>3 DEF ConfirmSending, Goto, TypeOK, Protected, Owning, Claiming
<1>5. QED
  BY <1>1, <1>2, <1>4 DEF DeliveryInvariant

(* A message is sent under the caller's sending row. *)
LEMMA SendStep ==
    ASSUME TypeOK, TypeOK', DeliveryInvariant, NEW c \in Callers, Send(c)
    PROVE  DeliveryInvariant'
<1> USE Numbers, Statuses, OwnedRowsStay, ProtectedRowsStay
<1>0. Expose({}) /\ UNCHANGED <<row, price>>
  BY DEF Send
<1>1. ExclusiveDelivery'
  BY <1>0, Unexposed DEF Send, Goto, TypeOK, DeliveryInvariant, ExclusiveDelivery, Owning, Claiming
<1>2. \A d \in Callers : pc'[d] \in Owning /\ price'[d] \notin exposed' => OwnRow(d)'
  BY <1>0, Unexposed DEF Send, Goto, TypeOK, DeliveryInvariant, OwnRow, Owning, Claiming
<1>3. \A p \in Prices : msg'[p] # msg[p] /\ RecentlyPosted(p)' =>
            /\ p = price[c] /\ p \notin exposed
            /\ msg'[p].age = row[p].age /\ pc'[c] = "post"
  <2>1. PICK outcome \in {"ok"} \cup SendFaults :
           /\ msg' = IF Applied(outcome)
                     THEN [msg EXCEPT ![price[c]] =
                             [known |-> IF outcome = "ok" THEN "yes" ELSE "no",
                              age |-> row[price[c]].age,
                              guarded |-> price[c] \notin exposed]]
                     ELSE msg
           /\ Goto(c, IF outcome = "ok" THEN "post" ELSE "release")
    BY DEF Send
  <2> SUFFICES ASSUME NEW p \in Prices, msg'[p] # msg[p], RecentlyPosted(p)'
               PROVE  /\ p = price[c] /\ p \notin exposed
                      /\ msg'[p].age = row[p].age /\ pc'[c] = "post"
    OBVIOUS
  <2>2. p = price[c] /\ msg'[p] = [known |-> IF outcome = "ok" THEN "yes" ELSE "no",
                                   age |-> row[p].age, guarded |-> p \notin exposed]
    BY <2>1 DEF TypeOK
  <2>3. msg'[p].known # "no" /\ msg'[p].guarded
    BY DEF RecentlyPosted
  <2>4. outcome = "ok" /\ p \notin exposed
    <3>1. msg'[p].known = IF outcome = "ok" THEN "yes" ELSE "no"
      BY <2>2
    <3>2. msg'[p].guarded = (p \notin exposed)
      BY <2>2
    <3>3. QED
      BY <2>3, <3>1, <3>2
  <2>5. QED
    BY <2>1, <2>2, <2>4 DEF Goto, TypeOK
<1>4. price[c] \notin exposed => OwnRow(c) /\ ~Expired(row[price[c]])
  BY DEF Send, DeliveryInvariant, OwnRow, Owning
<1>5. ASSUME NEW p \in Prices, msg'[p] # msg[p], RecentlyPosted(p)' PROVE Protected(p)'
  <2>1. row'[p].status = "sending" /\ row'[p].age <= msg'[p].age
    BY <1>0, <1>3, <1>4, <1>5 DEF Send, OwnRow
  <2>2. p \notin exposed'
    BY <1>0, <1>3, <1>4, <1>5, ExposedBy
  <2>3. \A d \in Callers : pc'[d] \in Owning /\ price'[d] = p => pc'[d] = "post"
    BY <1>0, <1>1, <1>3, <1>5, <2>2 DEF ExclusiveDelivery, Owning
  <2>4. QED
    BY <2>1, <2>2, <2>3 DEF Protected
<1>6. ASSUME NEW p \in Prices, msg'[p] = msg[p], RecentlyPosted(p)' PROVE Protected(p)'
  <2>1. RecentlyPosted(p)
    BY <1>6 DEF RecentlyPosted
  <2>2. Protected(p) /\ ~Expired(row'[p])
    BY <1>0, <2>1 DEF DeliveryInvariant
  <2>3. p \notin exposed'
    BY <1>0, <2>2, ExposedBy DEF Protected
  <2>4. QED
    BY <1>0, <1>6, <2>2, <2>3 DEF Send, Goto, TypeOK, Protected, Owning
<1>7. QED
  BY <1>1, <1>2, <1>5, <1>6 DEF DeliveryInvariant

(* A caller that releases deletes its own row, before any message. *)
LEMMA ReleaseStep ==
    ASSUME TypeOK, TypeOK', DeliveryInvariant, NEW c \in Callers, Release(c)
    PROVE  DeliveryInvariant'
<1> USE Numbers, Statuses, OwnedRowsStay, ProtectedRowsStay
<1>0. Expose({})
  BY DEF Release
<1>1. ExclusiveDelivery'
  BY <1>0, Unexposed
     DEF Release, Goto, TypeOK, DeliveryInvariant, ExclusiveDelivery, Owning, Claiming
<1>2. \A d \in Callers : pc'[d] \in Owning /\ price'[d] \notin exposed' => OwnRow(d)'
  BY <1>0, Unexposed
     DEF Release, Goto, TypeOK, DeliveryInvariant, ExclusiveDelivery, OwnRow, Owning, Claiming
<1>3. \A p \in Prices : RecentlyPosted(p)' => RecentlyPosted(p)
  BY DEF Release, Goto, TypeOK, RecentlyPosted
<1>4. ASSUME NEW p \in Prices, RecentlyPosted(p)' PROVE Protected(p)'
  <2>1. Protected(p) /\ ~Expired(row[p]) /\ ~Free(row[p]) /\ ~Prunable(row[p])
    BY <1>3, <1>4 DEF DeliveryInvariant
  <2>2. /\ row'[p].status \in {"sending", "posted"}
        /\ row'[p].age <= msg'[p].age
        /\ ~Expired(row'[p])
    BY <1>4, <2>1 DEF Release, Goto, TypeOK, RecentlyPosted, Protected, Expired, Owning, Claiming
  <2>3. p \notin exposed'
    BY <1>0, <2>1, <2>2, ExposedBy DEF Protected
  <2>4. QED
    BY <2>1, <2>2, <2>3 DEF Release, Goto, TypeOK, Protected, Owning, Claiming
<1>5. QED
  BY <1>1, <1>2, <1>4 DEF DeliveryInvariant

(* The row turns posted under its owner. *)
LEMMA MarkPostedStep ==
    ASSUME TypeOK, TypeOK', DeliveryInvariant, NEW c \in Callers, MarkPosted(c)
    PROVE  DeliveryInvariant'
<1> USE Numbers, Statuses, OwnedRowsStay, ProtectedRowsStay
<1>0. Expose({})
  BY DEF MarkPosted
<1>1. ExclusiveDelivery'
  BY <1>0, Unexposed
     DEF MarkPosted, Goto, Retry, Row, TypeOK, DeliveryInvariant, ExclusiveDelivery, Owning, Claiming
<1>2. \A d \in Callers : pc'[d] \in Owning /\ price'[d] \notin exposed' => OwnRow(d)'
  BY <1>0, Unexposed
     DEF MarkPosted, Goto, Retry, Row, TypeOK, DeliveryInvariant, ExclusiveDelivery, OwnRow, Owning, Claiming
<1>3. \A p \in Prices : RecentlyPosted(p)' => RecentlyPosted(p)
  BY DEF MarkPosted, Goto, Retry, Row, TypeOK, RecentlyPosted
<1>4. ASSUME NEW p \in Prices, RecentlyPosted(p)' PROVE Protected(p)'
  <2>1. Protected(p) /\ ~Expired(row[p]) /\ ~Free(row[p]) /\ ~Prunable(row[p])
    BY <1>3, <1>4 DEF DeliveryInvariant
  <2>2. /\ row'[p].status \in {"sending", "posted"}
        /\ row'[p].age <= msg'[p].age
        /\ ~Expired(row'[p])
    BY <1>4, <2>1 DEF MarkPosted, Goto, Retry, Row, TypeOK, RecentlyPosted, Protected, Expired, Owning, Claiming
  <2>3. p \notin exposed'
    BY <1>0, <2>1, <2>2, ExposedBy DEF Protected
  <2>4. QED
    BY <2>1, <2>2, <2>3 DEF MarkPosted, Goto, Retry, Row, TypeOK, Protected, Owning, Claiming
<1>5. QED
  BY <1>1, <1>2, <1>4 DEF DeliveryInvariant

(* Reading the row back changes nothing but the caller. *)
LEMMA ConfirmPostedStep ==
    ASSUME TypeOK, TypeOK', DeliveryInvariant, NEW c \in Callers, ConfirmPosted(c)
    PROVE  DeliveryInvariant'
<1> USE Numbers, Statuses, OwnedRowsStay, ProtectedRowsStay
<1>0. Expose({})
  BY DEF ConfirmPosted
<1>1. ExclusiveDelivery'
  BY <1>0, Unexposed
     DEF ConfirmPosted, Goto, Retry, TypeOK, DeliveryInvariant, ExclusiveDelivery, Owning, Claiming
<1>2. \A d \in Callers : pc'[d] \in Owning /\ price'[d] \notin exposed' => OwnRow(d)'
  BY <1>0, Unexposed
     DEF ConfirmPosted, Goto, Retry, TypeOK, DeliveryInvariant, ExclusiveDelivery, OwnRow, Owning, Claiming
<1>3. \A p \in Prices : RecentlyPosted(p)' => RecentlyPosted(p)
  BY DEF ConfirmPosted, Goto, Retry, TypeOK, RecentlyPosted
<1>4. ASSUME NEW p \in Prices, RecentlyPosted(p)' PROVE Protected(p)'
  <2>1. Protected(p) /\ ~Expired(row[p]) /\ ~Free(row[p]) /\ ~Prunable(row[p])
    BY <1>3, <1>4 DEF DeliveryInvariant
  <2>2. /\ row'[p].status \in {"sending", "posted"}
        /\ row'[p].age <= msg'[p].age
        /\ ~Expired(row'[p])
    BY <1>4, <2>1 DEF ConfirmPosted, Goto, Retry, TypeOK, RecentlyPosted, Protected, Expired, Owning, Claiming
  <2>3. p \notin exposed'
    BY <1>0, <2>1, <2>2, ExposedBy DEF Protected
  <2>4. QED
    BY <2>1, <2>2, <2>3 DEF ConfirmPosted, Goto, Retry, TypeOK, Protected, Owning, Claiming
<1>5. QED
  BY <1>1, <1>2, <1>4 DEF DeliveryInvariant

(* Recording the alert leaves rows and messages protected. *)
LEMMA RecordDedupeStep ==
    ASSUME TypeOK, TypeOK', DeliveryInvariant, NEW c \in Callers, RecordDedupe(c)
    PROVE  DeliveryInvariant'
<1> USE Numbers, Statuses, OwnedRowsStay, ProtectedRowsStay
<1>0. Expose({})
  BY DEF RecordDedupe
<1>1. ExclusiveDelivery'
  BY <1>0, Unexposed
     DEF RecordDedupe, Goto, Retry, Messages, TypeOK, DeliveryInvariant, ExclusiveDelivery, Owning, Claiming
<1>2. \A d \in Callers : pc'[d] \in Owning /\ price'[d] \notin exposed' => OwnRow(d)'
  BY <1>0, Unexposed
     DEF RecordDedupe, Goto, Retry, Messages, TypeOK, DeliveryInvariant, ExclusiveDelivery, OwnRow, Owning, Claiming
<1>3. \A p \in Prices : RecentlyPosted(p)' => RecentlyPosted(p)
  BY DEF RecordDedupe, Goto, Retry, Messages, TypeOK, RecentlyPosted
<1>4. ASSUME NEW p \in Prices, RecentlyPosted(p)' PROVE Protected(p)'
  <2>1. Protected(p) /\ ~Expired(row[p]) /\ ~Free(row[p]) /\ ~Prunable(row[p])
    BY <1>3, <1>4 DEF DeliveryInvariant
  <2>2. /\ row'[p].status \in {"sending", "posted"}
        /\ row'[p].age <= msg'[p].age
        /\ ~Expired(row'[p])
    BY <1>4, <2>1 DEF RecordDedupe, Goto, Retry, Messages, TypeOK, RecentlyPosted, Protected, Expired, Owning, Claiming
  <2>3. p \notin exposed'
    BY <1>0, <2>1, <2>2, ExposedBy DEF Protected
  <2>4. QED
    BY <2>1, <2>2, <2>3 DEF RecordDedupe, Goto, Retry, Messages, TypeOK, Protected, Owning, Claiming
<1>5. QED
  BY <1>1, <1>2, <1>4 DEF DeliveryInvariant

(* A crash leaves the rows, the message and what protects it. *)
LEMMA CrashStep ==
    ASSUME TypeOK, TypeOK', DeliveryInvariant, NEW c \in Callers, Crash(c)
    PROVE  DeliveryInvariant'
<1> USE Numbers, Statuses, OwnedRowsStay, ProtectedRowsStay
<1>0. Expose({})
  BY DEF Crash
<1>1. ExclusiveDelivery'
  BY <1>0, Unexposed
     DEF Crash, Goto, TypeOK, DeliveryInvariant, ExclusiveDelivery, Owning, Claiming
<1>2. \A d \in Callers : pc'[d] \in Owning /\ price'[d] \notin exposed' => OwnRow(d)'
  BY <1>0, Unexposed
     DEF Crash, Goto, TypeOK, DeliveryInvariant, ExclusiveDelivery, OwnRow, Owning, Claiming
<1>3. \A p \in Prices : RecentlyPosted(p)' => RecentlyPosted(p)
  BY DEF Crash, Goto, TypeOK, RecentlyPosted
<1>4. ASSUME NEW p \in Prices, RecentlyPosted(p)' PROVE Protected(p)'
  <2>1. Protected(p) /\ ~Expired(row[p]) /\ ~Free(row[p]) /\ ~Prunable(row[p])
    BY <1>3, <1>4 DEF DeliveryInvariant
  <2>2. /\ row'[p].status \in {"sending", "posted"}
        /\ row'[p].age <= msg'[p].age
        /\ ~Expired(row'[p])
    BY <1>4, <2>1 DEF Crash, Goto, TypeOK, RecentlyPosted, Protected, Expired, Owning, Claiming
  <2>3. p \notin exposed'
    BY <1>0, <2>1, <2>2, ExposedBy DEF Protected
  <2>4. QED
    BY <2>1, <2>2, <2>3 DEF Crash, Goto, TypeOK, Protected, Owning, Claiming
<1>5. QED
  BY <1>1, <1>2, <1>4 DEF DeliveryInvariant

(* The dedupe check reads only. *)
LEMMA CheckAlertStep ==
    ASSUME TypeOK, TypeOK', DeliveryInvariant, NEW c \in Callers, CheckAlert(c)
    PROVE  DeliveryInvariant'
<1> USE Numbers, Statuses, OwnedRowsStay, ProtectedRowsStay
<1>0. Expose({})
  BY DEF CheckAlert
<1>1. ExclusiveDelivery'
  BY <1>0, Unexposed
     DEF CheckAlert, Goto, TypeOK, DeliveryInvariant, ExclusiveDelivery, Owning, Claiming
<1>2. \A d \in Callers : pc'[d] \in Owning /\ price'[d] \notin exposed' => OwnRow(d)'
  BY <1>0, Unexposed
     DEF CheckAlert, Goto, TypeOK, DeliveryInvariant, ExclusiveDelivery, OwnRow, Owning, Claiming
<1>3. \A p \in Prices : RecentlyPosted(p)' => RecentlyPosted(p)
  BY DEF CheckAlert, Goto, TypeOK, RecentlyPosted
<1>4. ASSUME NEW p \in Prices, RecentlyPosted(p)' PROVE Protected(p)'
  <2>1. Protected(p) /\ ~Expired(row[p]) /\ ~Free(row[p]) /\ ~Prunable(row[p])
    BY <1>3, <1>4 DEF DeliveryInvariant
  <2>2. /\ row'[p].status \in {"sending", "posted"}
        /\ row'[p].age <= msg'[p].age
        /\ ~Expired(row'[p])
    BY <1>4, <2>1 DEF CheckAlert, Goto, TypeOK, RecentlyPosted, Protected, Expired, Owning, Claiming
  <2>3. p \notin exposed'
    BY <1>0, <2>1, <2>2, ExposedBy DEF Protected
  <2>4. QED
    BY <2>1, <2>2, <2>3 DEF CheckAlert, Goto, TypeOK, Protected, Owning, Claiming
<1>5. QED
  BY <1>1, <1>2, <1>4 DEF DeliveryInvariant

(* A call starts without a row. *)
LEMMA StartStep ==
    ASSUME TypeOK, TypeOK', DeliveryInvariant, NEW c \in Callers, NEW q \in Prices, Start(c, q)
    PROVE  DeliveryInvariant'
<1> USE Numbers, Statuses, OwnedRowsStay, ProtectedRowsStay
<1>0. Expose({})
  BY DEF Start
<1>1. ExclusiveDelivery'
  BY <1>0, Unexposed
     DEF Start, Goto, TypeOK, DeliveryInvariant, ExclusiveDelivery, Owning, Claiming
<1>2. \A d \in Callers : pc'[d] \in Owning /\ price'[d] \notin exposed' => OwnRow(d)'
  BY <1>0, Unexposed
     DEF Start, Goto, TypeOK, DeliveryInvariant, ExclusiveDelivery, OwnRow, Owning, Claiming
<1>3. \A p \in Prices : RecentlyPosted(p)' => RecentlyPosted(p)
  BY DEF Start, Goto, TypeOK, RecentlyPosted
<1>4. ASSUME NEW p \in Prices, RecentlyPosted(p)' PROVE Protected(p)'
  <2>1. Protected(p) /\ ~Expired(row[p]) /\ ~Free(row[p]) /\ ~Prunable(row[p])
    BY <1>3, <1>4 DEF DeliveryInvariant
  <2>2. /\ row'[p].status \in {"sending", "posted"}
        /\ row'[p].age <= msg'[p].age
        /\ ~Expired(row'[p])
    BY <1>4, <2>1 DEF Start, Goto, TypeOK, RecentlyPosted, Protected, Expired, Owning, Claiming
  <2>3. p \notin exposed'
    BY <1>0, <2>1, <2>2, ExposedBy DEF Protected
  <2>4. QED
    BY <2>1, <2>2, <2>3 DEF Start, Goto, TypeOK, Protected, Owning, Claiming
<1>5. QED
  BY <1>1, <1>2, <1>4 DEF DeliveryInvariant

(* The pruner deletes only rows that have expired. *)
LEMMA PruneStep ==
    ASSUME TypeOK, TypeOK', DeliveryInvariant, NEW q \in Prices, Prune(q)
    PROVE  DeliveryInvariant'
<1> USE Numbers, Statuses, OwnedRowsStay, ProtectedRowsStay
<1>0. Expose({})
  BY DEF Prune
<1>1. ExclusiveDelivery'
  BY <1>0, Unexposed
     DEF Prune, TypeOK, DeliveryInvariant, ExclusiveDelivery, Owning, Claiming
<1>2. \A d \in Callers : pc'[d] \in Owning /\ price'[d] \notin exposed' => OwnRow(d)'
  BY <1>0, Unexposed
     DEF Prune, TypeOK, DeliveryInvariant, ExclusiveDelivery, OwnRow, Owning, Claiming
<1>3. \A p \in Prices : RecentlyPosted(p)' => RecentlyPosted(p)
  BY DEF Prune, TypeOK, RecentlyPosted
<1>4. ASSUME NEW p \in Prices, RecentlyPosted(p)' PROVE Protected(p)'
  <2>1. Protected(p) /\ ~Expired(row[p]) /\ ~Free(row[p]) /\ ~Prunable(row[p])
    BY <1>3, <1>4 DEF DeliveryInvariant
  <2>2. /\ row'[p].status \in {"sending", "posted"}
        /\ row'[p].age <= msg'[p].age
        /\ ~Expired(row'[p])
    BY <1>4, <2>1 DEF Prune, TypeOK, RecentlyPosted, Protected, Expired, Owning, Claiming
  <2>3. p \notin exposed'
    BY <1>0, <2>1, <2>2, ExposedBy DEF Protected
  <2>4. QED
    BY <2>1, <2>2, <2>3 DEF Prune, TypeOK, Protected, Owning, Claiming
<1>5. QED
  BY <1>1, <1>2, <1>4 DEF DeliveryInvariant

(* A tick ages rows and messages together. *)
LEMMA TickStep ==
    ASSUME TypeOK, TypeOK', DeliveryInvariant, Tick
    PROVE  DeliveryInvariant'
<1> USE Numbers, Statuses, OlderAges
<1>0. Expose({}) /\ UNCHANGED <<pc, price>>
  BY DEF Tick
<1>1. \A p \in Prices : row'[p].status = row[p].status
  BY DEF Tick, TypeOK, Rows, NoRow
<1>2. ExclusiveDelivery'
  BY <1>0, Unexposed DEF DeliveryInvariant, ExclusiveDelivery
<1>3. \A d \in Callers : pc'[d] \in Owning /\ price'[d] \notin exposed' => OwnRow(d)'
  BY <1>0, <1>1, Unexposed DEF DeliveryInvariant, OwnRow
<1>4. ASSUME NEW p \in Prices, RecentlyPosted(p)' PROVE Protected(p)'
  <2>1. /\ msg[p].known \in {"yes", "recorded"}
        /\ msg'[p] = [msg[p] EXCEPT !.age = Older(msg[p].age)]
        /\ msg[p].age \in Ages
    BY <1>4 DEF Tick, TypeOK, Messages, RecentlyPosted, NoMsg
  <2>2. RecentlyPosted(p)
    BY <1>4, <2>1 DEF RecentlyPosted, TypeOK, Messages, Ages
  <2>3. Protected(p)
    BY <2>2 DEF DeliveryInvariant
  <2>4. row'[p].age = Older(row[p].age) /\ row[p].age \in Ages
    BY <2>3 DEF Tick, TypeOK, Rows, Protected
  <2>5. msg[p].age < MaxAge
    BY <2>2, TimeAssumption DEF RecentlyPosted, Ages
  <2>6. msg'[p].age = msg[p].age + 1
    BY <2>1, <2>5 DEF Older, TypeOK, Messages
  <2>7. row'[p].age <= msg'[p].age
    BY <2>3, <2>4, <2>6 DEF Protected, Ages
  <2>8. ~Expired(row'[p])
    <3>1. row'[p].age \in Nat /\ msg'[p].age \in Nat
      BY DEF TypeOK, Rows, Messages, Ages
    <3>2. QED
      BY <1>1, <1>4, <2>3, <2>7, <3>1 DEF Protected, RecentlyPosted, Expired
  <2>9. p \notin exposed'
    BY <1>0, <2>3, <2>8, ExposedBy DEF Protected
  <2>10. QED
    BY <1>0, <1>1, <2>3, <2>7, <2>9 DEF Protected
<1>5. QED
  BY <1>2, <1>3, <1>4 DEF DeliveryInvariant

(* The delivery invariant is inductive. *)
LEMMA InvariantStep ==
    ASSUME TypeOK, DeliveryInvariant, [Next]_vars
    PROVE  DeliveryInvariant'
<1>1. TypeOK'
  BY TypeStep
<1>2. CASE UNCHANGED vars
  BY <1>2 DEF vars, DeliveryInvariant, ExclusiveDelivery, OwnRow, Protected,
     RecentlyPosted
<1>3. CASE Next
  BY <1>1, <1>3, StartStep, CheckAlertStep, ReserveStep, MarkSendingStep,
     ConfirmSendingStep, SendStep, ReleaseStep, MarkPostedStep, ConfirmPostedStep,
     RecordDedupeStep, CrashStep, PruneStep, TickStep DEF Next, Deliver
<1>4. QED
  BY <1>2, <1>3

(* Until a delivery is exposed the row of the deal is its owner's own, and a
   recent message keeps its row: what reserve, mark and release rely on
   without naming an owner in their SQL. *)
THEOREM DeliveryCorrect == Spec => [](TypeOK /\ DeliveryInvariant)
<1>1. Init => TypeOK /\ DeliveryInvariant
  BY TypeInit, InvariantInit
<1>2. TypeOK /\ DeliveryInvariant /\ [Next]_vars => (TypeOK /\ DeliveryInvariant)'
  BY TypeStep, InvariantStep
<1>3. QED
  BY <1>1, <1>2, PTL DEF Spec

(* Two coroutines deliver the same deal at the same time only when one of them
   lost its reservation or outlived the age at which its row is deleted. *)
THEOREM OneDelivery == Spec => []ExclusiveDelivery
<1>1. DeliveryInvariant => ExclusiveDelivery
  BY DEF DeliveryInvariant
<1>2. QED
  BY <1>1, DeliveryCorrect, PTL

(* A message leaves only under a durable 'sending' row, or exposed. *)
THEOREM GuardBeforeSend == Spec => []SendsUnderGuard
<1>1. DeliveryInvariant => SendsUnderGuard
  BY DEF DeliveryInvariant, SendsUnderGuard, OwnRow, Owning
<1>2. QED
  BY <1>1, DeliveryCorrect, PTL

(* A deal sent under its own reservation, and seen to be delivered, is not
   sent again while its row can last, whatever reservations are lost later,
   whatever writes fail, whoever crashes and whoever is suspended. *)
THEOREM NoRepeat == Spec => []NoDuplicateMessage
<1>1. TypeOK /\ DeliveryInvariant => NoDuplicateMessage
  BY Statuses DEF DeliveryInvariant, NoDuplicateMessage, Protected, Owning
<1>2. QED
  BY <1>1, DeliveryCorrect, PTL

-----------------------------------------------------------------------------
(***************************************************************************)
(* ExtremeFanout, instantiated as EF: its state and what is promised of it   *)
(* are those of ExtremeLeads, and its steps have names of PublicPost's.      *)
(* A lead that is current and fresh is owed until every server has it. The   *)
(* inductive invariant: what the stored cursor, and the cursor in the hand   *)
(* of any pass under way, has passed is settled (SettledTo); a batch holds   *)
(* what comes next (Covered); and the lead at hand is settled for the        *)
(* servers it was tried for (Posted).  What a process has delivered of an    *)
(* item is not newer than what it still may (Ordered).                       *)
(***************************************************************************)
EF == INSTANCE ExtremeFanout

(* A delivery that the sender decided or a ticket keeps; a lead that is still
   to be delivered; that every server has it when a cursor stands at c. *)
Done(d) == d \in answered \/ d \in tickets
Owed(i) == rows[i].status = "lead" /\ rows[i].at >= EF!Cutoff
DoneForAll(l) == \A g \in Guilds : Done(EF!To(g, l))
SettledTo(c) == \A i \in Items : Owed(i) /\ ~EF!After(EF!Current(i), c) => DoneForAll(EF!Current(i))

(* The item's current proof; tickets and leads are not newer than rows. *)
IsLead(k) == rows[k.item].at = k.at /\ rows[k.item].status = "lead"
NotNewer(d) == d.at <= rows[d.item].at
TicketsInStep == \A d \in tickets : NotNewer(d)

HasLeads(w) == places[w] \in {"row", "post"}
ReadBy(w) == pass[w].leads \cup pass[w].lead
HeldInStep(w) ==
    /\ pass[w].cut <= EF!Cutoff
    /\ \A t \in pass[w].tickets \cup pass[w].ticket : NotNewer(t)
    /\ \A k \in ReadBy(w) : NotNewer(k) /\ (IsLead(k) => k.eligible)

(* The leads of a pass are after the last it passed, and one per item; the lead
   at hand is before the rest. *)
Batched(w) ==
    HasLeads(w) =>
        /\ \A k \in ReadBy(w) : EF!After(k, pass[w].next)
        /\ \A k, m \in ReadBy(w) : k.item = m.item => k = m
InHand(w) ==
    IF places[w] = "post"
    THEN \E l \in pass[w].lead : /\ pass[w].lead = {l} /\ l \notin pass[w].leads
                                 /\ l.eligible /\ \A m \in pass[w].leads : EF!After(m, l)
    ELSE pass[w].lead = {}

(* What a pass has passed is settled, and what it has not is in its batch, or
   after it, or was written too late. *)
NextSettled(w) == places[w] \notin {"idle", "state"} => SettledTo(pass[w].next)
Covered(w) ==
    HasLeads(w) =>
        \A i \in Items, m \in ReadBy(w) :
            Owed(i) /\ EF!After(EF!Current(i), pass[w].next) /\ ~EF!After(EF!Current(i), m)
                => \/ \E k \in ReadBy(w) : k.item = i /\ k.at = rows[i].at
                   \/ DoneForAll(EF!Current(i))

(* The lead at hand is settled for the servers it was tried for; a ticket that
   is cleared was decided, or its proof has changed. *)
Posted(w) ==
    places[w] = "post" =>
            \A l \in pass[w].lead :
                IsLead(l) /\ l.at >= EF!Cutoff
                     => \A g \in Guilds \ pass[w].todo : Done(EF!To(g, l))
Cleared(w) ==
    places[w] = "clear" => \A t \in pass[w].ticket : t \in answered \/ ~IsLead(t)

(* What a pass looked at is what the queue says, unless the row has changed. *)
Shown(w) ==
    /\ places[w] = "replay" => \A d \in pass[w].ticket : IsLead(d) \/ d.item \in moved[w]
    /\ HasLeads(w) =>
          \A k \in ReadBy(w) : (k.eligible => IsLead(k)) \/ k.item \in moved[w]

(* What a process has delivered of an item is not newer than the row, or than
   what it may still deliver of it. *)
Ordered(w) ==
    /\ \A i \in Items : sent[w][i] <= rows[i].at
    /\ places[w] = "replay" => \A d \in pass[w].ticket : sent[w][d.item] <= d.at
    /\ HasLeads(w) => \A k \in ReadBy(w) : sent[w][k.item] <= k.at

PassInv(w) == HeldInStep(w) /\ Batched(w) /\ InHand(w) /\ NextSettled(w) /\ Covered(w)
              /\ Posted(w) /\ Cleared(w) /\ Shown(w) /\ Ordered(w)
CursorInv == EF!LaneTypeOK /\ TicketsInStep /\ SettledTo(cursor) /\ \A w \in Workers : PassInv(w)
-----------------------------------------------------------------------------
(* Times, items and limits are natural numbers, and no item is 0. *)
LEMMA Limits ==
    ASSUME EF!Parameters
    PROVE  /\ EF!Times \subseteq Nat /\ 0 \in EF!Times /\ 1 \in EF!Times /\ MaxTime \in Nat
           /\ \A i \in Items : i \in Nat /\ i > 0
           /\ Fresh \in Nat /\ Batch \in Nat /\ MaxReplay \in Nat
           /\ MaxChecks \in Nat /\ MaxChanges \in Nat /\ MaxPasses \in Nat
BY DEF EF!Parameters, EF!Times

(* What is too old is told by a time. *)
LEMMA CutoffType ==
    ASSUME EF!Parameters, now \in EF!Times
    PROVE  EF!Cutoff \in EF!Times /\ EF!Cutoff \in Nat
BY DEF EF!Parameters, EF!Times, EF!Cutoff

(* The order of leads is a strict total order of items and times. *)
Point(l) == l.item \in Nat /\ l.at \in Nat
LEMMA AfterTransitive ==
    ASSUME NEW l, NEW m, NEW k, Point(l), Point(m), Point(k), EF!After(l, m), EF!After(m, k)
    PROVE  EF!After(l, k)
BY DEF EF!After, Point
(* Of two leads that differ in item or time one is after the other. *)
LEMMA AfterTotal ==
    ASSUME NEW l, NEW m, Point(l), Point(m), ~EF!After(l, m), ~EF!After(m, l)
    PROVE  l.item = m.item /\ l.at = m.at
BY DEF EF!After, Point
(* No lead is after itself, and no two are after each other. *)
LEMMA AfterStrict ==
    ASSUME NEW l, NEW m, Point(l), Point(m)
    PROVE  ~(EF!After(l, m) /\ EF!After(m, l)) /\ ~EF!After(l, l)
BY DEF EF!After, Point
(* Only the item and the time of a lead count. *)
LEMMA AfterSame ==
    ASSUME NEW l, NEW m, NEW k, l.item = m.item, l.at = m.at
    PROVE  (EF!After(l, k) <=> EF!After(m, k)) /\ (EF!After(k, l) <=> EF!After(k, m))
BY DEF EF!After

Places == {"idle", "state", "prune", "check", "replay", "clear", "select", "row", "post",
           "save"}

(* What the type invariant says of a pass. *)
LEMMA PassTypes ==
    ASSUME EF!Parameters, EF!LaneTypeOK, NEW w \in Workers
    PROVE  /\ pass[w] \in EF!Passes /\ places[w] \in Places
           /\ pass[w].next \in EF!Lead /\ Point(pass[w].next)
           /\ pass[w].cut \in EF!Times /\ pass[w].cut \in Nat
           /\ \A k \in ReadBy(w) : k \in EF!Snapshots /\ k.item \in Items /\ k.at \in EF!Times
                                   /\ k.eligible \in BOOLEAN /\ Point(k)
           /\ \A t \in pass[w].tickets \cup pass[w].ticket :
                 t \in EF!Delivery /\ t.item \in Items /\ t.at \in EF!Times
<1>1. pass[w] \in EF!Passes /\ places[w] \in Places
  BY DEF EF!LaneTypeOK, Places
<1>2. /\ pass[w].next \in EF!Lead /\ pass[w].cut \in EF!Times
      /\ ReadBy(w) \subseteq EF!Snapshots
      /\ pass[w].tickets \cup pass[w].ticket \subseteq EF!Delivery
  BY <1>1 DEF EF!Passes, ReadBy
<1>3. \A k \in EF!Snapshots : k.item \in Items /\ k.at \in EF!Times /\ k.eligible \in BOOLEAN
  BY DEF EF!Snapshots
<1>4. \A t \in EF!Delivery : t.item \in Items /\ t.at \in EF!Times
  BY DEF EF!Delivery
<1>5. Point(pass[w].next)
  BY <1>2, Limits DEF EF!Lead, Point
<1>6. QED
  BY <1>1, <1>2, <1>3, <1>4, <1>5, Limits DEF Point

(* What the type invariant says of the row of an item. *)
LEMMA RowTypes ==
    ASSUME EF!Parameters, EF!LaneTypeOK, NEW i \in Items
    PROVE  /\ rows[i].at \in EF!Times /\ rows[i].status \in EF!RowStates
           /\ Point(EF!Current(i)) /\ EF!Current(i).item = i /\ EF!Current(i).at = rows[i].at
           /\ EF!Snapshot(i) \in EF!Snapshots /\ EF!Snapshot(i).item = i
           /\ EF!Snapshot(i).at = rows[i].at /\ (EF!Snapshot(i).eligible <=> rows[i].status = "lead")
<1>1. rows[i] \in [at : EF!Times, status : EF!RowStates]
  BY DEF EF!LaneTypeOK
<1>2. rows[i].at \in EF!Times /\ rows[i].status \in EF!RowStates
  BY <1>1
<1>3. QED
  BY <1>2, Limits DEF Point, EF!Current, EF!Snapshot, EF!Snapshots

(* The record a replay compares is the item's current proof. *)
LEMMA ProofIsLead ==
    ASSUME EF!LaneTypeOK, NEW d, d.item \in Items
    PROVE  (EF!Proven(d) <=> IsLead(d)) /\ (EF!SameProof(d) <=> IsLead(d))
<1>1. rows[d.item] \in [at : EF!Times, status : EF!RowStates]
  BY DEF EF!LaneTypeOK
<1>2. QED
  BY <1>1 DEF EF!Proven, EF!SameProof, IsLead

(* A delivery of a lead, and its fields. *)
LEMMA DeliveryOf ==
    ASSUME NEW g, NEW l
    PROVE  /\ EF!To(g, l).guild = g /\ EF!To(g, l).item = l.item /\ EF!To(g, l).at = l.at
           /\ g \in Guilds /\ l.item \in Items /\ l.at \in EF!Times => EF!To(g, l) \in EF!Delivery
           /\ \A m : m.item = l.item /\ m.at = l.at => EF!To(g, m) = EF!To(g, l)
BY DEF EF!To, EF!Delivery

(* A step of a pass moves that pass. *)
LEMMA Moves ==
    ASSUME EF!LaneTypeOK, NEW w \in Workers, NEW p, NEW place, EF!Hold(w, p), EF!Go(w, place)
    PROVE  /\ pass'[w] = p /\ places'[w] = place
           /\ moved'[w] = moved[w] \cap EF!Holds(p)
           /\ \A v \in Workers : v # w => /\ pass'[v] = pass[v] /\ places'[v] = places[v]
                                         /\ moved'[v] = moved[v]
           /\ p \in EF!Passes => pass' \in [Workers -> EF!Passes]
           /\ place \in Places => places' \in [Workers -> Places]
           /\ moved' \in [Workers -> SUBSET Items]
<1>1. moved \in [Workers -> SUBSET Items] /\ places \in [Workers -> Places]
      /\ pass \in [Workers -> EF!Passes]
  BY DEF EF!LaneTypeOK, Places
<1>2. /\ pass' = [pass EXCEPT ![w] = p] /\ places' = [places EXCEPT ![w] = place]
      /\ moved' = [moved EXCEPT ![w] = @ \cap EF!Holds(p)]
  BY DEF EF!Hold, EF!Go
<1>3. QED
  BY <1>1, <1>2

(* A step delivers what the pass has at hand, or nothing; what it delivered is
   not newer than the row or than what it still holds. *)
Delivers(w) ==
    \/ sent' = sent
    \/ places[w] = "replay" /\ \E d \in pass[w].ticket : EF!Decided(w, d)
    \/ places[w] = "post" /\ \E l \in pass[w].lead : EF!Decided(w, l)
LEMMA SentAfter ==
    ASSUME EF!Parameters, CursorInv, NEW w \in Workers, Delivers(w)
    PROVE  /\ sent' \in [Workers -> [Items -> EF!Times]]
           /\ \A v \in Workers : v # w => sent'[v] = sent[v]
           /\ \A i \in Items : sent'[w][i] <= rows[i].at
           /\ HasLeads(w) => \A k \in ReadBy(w) : sent'[w][k.item] <= k.at
<1>1. /\ EF!LaneTypeOK /\ sent \in [Workers -> [Items -> EF!Times]]
      /\ \A i \in Items : sent[w][i] <= rows[i].at
      /\ HasLeads(w) => \A k \in ReadBy(w) : sent[w][k.item] <= k.at
      /\ HasLeads(w) => \A k, m \in ReadBy(w) : k.item = m.item => k = m
  BY DEF CursorInv, EF!LaneTypeOK, PassInv, Ordered, Batched
<1>2. CASE sent' = sent
  BY <1>1, <1>2
<1>3. ASSUME NEW l, l.item \in Items, l.at \in EF!Times, NotNewer(l), EF!Decided(w, l),
             HasLeads(w) => l \in ReadBy(w)
      PROVE  /\ sent' \in [Workers -> [Items -> EF!Times]]
             /\ \A v \in Workers : v # w => sent'[v] = sent[v]
             /\ \A i \in Items : sent'[w][i] <= rows[i].at
             /\ HasLeads(w) => \A k \in ReadBy(w) : sent'[w][k.item] <= k.at
  <2>1. sent' = [sent EXCEPT ![w][l.item] = l.at]
    BY <1>3 DEF EF!Decided
  <2>2. /\ sent' \in [Workers -> [Items -> EF!Times]]
        /\ \A v \in Workers : v # w => sent'[v] = sent[v]
        /\ \A i \in Items : sent'[w][i] = IF i = l.item THEN l.at ELSE sent[w][i]
    BY <1>1, <1>3, <2>1
  <2>3. \A i \in Items : sent'[w][i] <= rows[i].at
    BY <1>1, <1>3, <2>2 DEF NotNewer
  <2>4. ASSUME HasLeads(w), NEW k \in ReadBy(w)
        PROVE  sent'[w][k.item] <= k.at
    <3>1. k.item \in Items /\ k.at \in Nat /\ (k.item = l.item => k = l)
      BY <1>1, <1>3, <2>4, PassTypes, Limits
    <3>2. QED
      BY <1>1, <2>2, <2>4, <3>1
  <2>5. QED
    BY <2>2, <2>3, <2>4
<1>4. CASE places[w] = "replay" /\ \E d \in pass[w].ticket : EF!Decided(w, d)
  <2>1. PICK d \in pass[w].ticket : EF!Decided(w, d)
    BY <1>4
  <2>2. d.item \in Items /\ d.at \in EF!Times /\ NotNewer(d) /\ ~HasLeads(w)
    BY <1>1, <1>4, PassTypes DEF CursorInv, PassInv, HeldInStep, HasLeads
  <2>3. QED
    BY <1>3, <2>1, <2>2
<1>5. CASE places[w] = "post" /\ \E l \in pass[w].lead : EF!Decided(w, l)
  <2>1. PICK l \in pass[w].lead : EF!Decided(w, l)
    BY <1>5
  <2>2. l \in ReadBy(w) /\ l.item \in Items /\ l.at \in EF!Times /\ NotNewer(l)
    BY <1>1, PassTypes DEF CursorInv, PassInv, HeldInStep, ReadBy
  <2>3. QED
    BY <1>3, <2>1, <2>2
<1>6. QED
  BY <1>2, <1>4, <1>5 DEF Delivers

(* A step that takes no delivery from an owed lead without deciding it. *)
Keeps ==
    /\ rows' = rows /\ now' = now /\ answered \subseteq answered'
    /\ \A d \in tickets :
          d.at >= EF!Cutoff /\ IsLead(d)
             => d \in answered' \/ d \in tickets'

(* What is done of an owed lead stays done. *)
LEMMA KeepsOwed ==
    ASSUME EF!Parameters, EF!LaneTypeOK, Keeps, NEW i \in Items, NEW l, l.item = i, l.at = rows[i].at,
           Owed(i), NEW g \in Guilds, Done(EF!To(g, l))
    PROVE  Done(EF!To(g, l))'
BY RowTypes, DeliveryOf DEF Keeps, Owed, Done, IsLead, EF!LaneTypeOK

(* What is settled up to a point stays settled. *)
LEMMA KeepsSettled ==
    ASSUME EF!Parameters, EF!LaneTypeOK, Keeps, NEW c, SettledTo(c)
    PROVE  SettledTo(c)'
<1>1. \A i \in Items : EF!Current(i)' = EF!Current(i) /\ Owed(i)' = Owed(i)
  BY DEF Keeps, EF!Current, Owed, EF!Cutoff
<1>2. ASSUME NEW i \in Items, Owed(i)', ~EF!After(EF!Current(i)', c), NEW g \in Guilds
      PROVE  Done(EF!To(g, EF!Current(i)))'
  <2>1. Done(EF!To(g, EF!Current(i)))
    BY <1>1, <1>2 DEF SettledTo, DoneForAll
  <2>2. QED
    BY <2>1, <1>1, <1>2, KeepsOwed, RowTypes
<1>3. QED
  BY <1>2 DEF SettledTo, DoneForAll

(* The other passes are not disturbed by such a step. *)
LEMMA OthersKeep ==
    ASSUME EF!Parameters, EF!LaneTypeOK, Keeps, NEW v \in Workers, PassInv(v),
           pass'[v] = pass[v], places'[v] = places[v], moved'[v] = moved[v],
           sent'[v] = sent[v]
    PROVE  PassInv(v)'
<1>1. \A i \in Items : EF!Current(i)' = EF!Current(i) /\ Owed(i)' = Owed(i)
  BY DEF Keeps, EF!Current, Owed, EF!Cutoff
<1>2. /\ ReadBy(v)' = ReadBy(v) /\ HasLeads(v)' = HasLeads(v) /\ EF!Cutoff' = EF!Cutoff
      /\ \A d : NotNewer(d)' = NotNewer(d) /\ IsLead(d)' = IsLead(d)
  BY DEF ReadBy, HasLeads, Keeps, EF!Cutoff, NotNewer, IsLead
<1>3. HeldInStep(v)'
  BY <1>2 DEF PassInv, HeldInStep, Keeps
<1>4. Batched(v)' /\ InHand(v)'
  BY <1>2 DEF PassInv, Batched, InHand
<1>5. NextSettled(v)'
  BY KeepsSettled DEF PassInv, NextSettled
<1>6. Covered(v)'
  <2>1. SUFFICES ASSUME HasLeads(v), NEW i \in Items, NEW m \in ReadBy(v), Owed(i),
                        EF!After(EF!Current(i), pass[v].next), ~EF!After(EF!Current(i), m)
                 PROVE  \/ \E k \in ReadBy(v) : k.item = i /\ k.at = rows[i].at
                        \/ \A g \in Guilds : Done(EF!To(g, EF!Current(i)))'
    BY <1>1, <1>2 DEF Covered, DoneForAll, Keeps
  <2>2. \/ \E k \in ReadBy(v) : k.item = i /\ k.at = rows[i].at
        \/ DoneForAll(EF!Current(i))
    BY <2>1 DEF PassInv, Covered
  <2>3. ASSUME DoneForAll(EF!Current(i)), NEW g \in Guilds
        PROVE  Done(EF!To(g, EF!Current(i)))'
    <3>1. Done(EF!To(g, EF!Current(i))) /\ EF!Current(i).item = i /\ EF!Current(i).at = rows[i].at
      BY <2>3, RowTypes DEF DoneForAll
    <3>2. QED
      BY <3>1, <2>1, KeepsOwed, <1>1
  <2>4. QED
    BY <2>2, <2>3
<1>7. Posted(v)'
  <2>1. SUFFICES ASSUME places[v] = "post", NEW l \in pass[v].lead, IsLead(l),
                        l.at >= EF!Cutoff, NEW g \in Guilds \ pass[v].todo
                 PROVE  Done(EF!To(g, l))'
    BY <1>2 DEF Posted, Keeps
  <2>2. l \in ReadBy(v) /\ l.item \in Items
    BY <2>1, PassTypes DEF ReadBy
  <2>3. Done(EF!To(g, l))
    BY <2>1 DEF PassInv, Posted
  <2>4. Owed(l.item)
    BY <2>1, <2>2 DEF Owed, IsLead
  <2>5. QED
    BY <2>1, <2>2, <2>3, <2>4, KeepsOwed DEF IsLead
<1>8. Cleared(v)'
  BY <1>2 DEF PassInv, Cleared, Keeps
<1>9. Shown(v)'
  BY <1>2 DEF PassInv, Shown
<1>10. Ordered(v)'
  BY <1>2 DEF PassInv, Ordered, Keeps
<1>11. QED
  BY <1>3, <1>4, <1>5, <1>6, <1>7, <1>8, <1>9, <1>10 DEF PassInv

(* What a step that keeps what is owed has to show: the passes it moves, and the
   cursor if it moves it. *)
LEMMA StepKeeps ==
    ASSUME EF!Parameters, CursorInv, Keeps, EF!LaneTypeOK',
           \A v \in Workers : \/ PassInv(v)'
                              \/ /\ pass'[v] = pass[v] /\ places'[v] = places[v]
                                 /\ moved'[v] = moved[v] /\ sent'[v] = sent[v],
           cursor' = cursor \/ \E c : c = cursor' /\ SettledTo(c)',
           \A t \in tickets' : t \in tickets \/ NotNewer(t)
    PROVE  CursorInv'
<1>1. \A v \in Workers : PassInv(v)'
  BY OthersKeep DEF CursorInv
<1>2. TicketsInStep'
  BY DEF CursorInv, TicketsInStep, NotNewer, Keeps
<1>3. SettledTo(cursor)'
  <2>1. CASE cursor' = cursor
    BY <2>1, KeepsSettled DEF CursorInv, SettledTo
  <2>2. CASE \E c : c = cursor' /\ SettledTo(c)'
    BY <2>2 DEF SettledTo
  <2>3. QED
    BY <2>1, <2>2
<1>4. QED
  BY <1>1, <1>2, <1>3 DEF CursorInv

(* What a step of one pass, from its place with what it holds to another, has to
   show besides. *)
Steps(w, p, place) ==
    /\ EF!Hold(w, p) /\ EF!Go(w, place) /\ p \in EF!Passes /\ place \in Places
    /\ EF!UpTo(Batch, p.leads) /\ EF!UpTo(MaxReplay, p.tickets)
    /\ checks' = checks /\ changes' = changes /\ opted' = opted
    /\ Delivers(w)
LEMMA StepMoves ==
    ASSUME EF!Parameters, CursorInv, NEW w \in Workers, NEW p, NEW place, Steps(w, p, place)
    PROVE  /\ pass'[w] = p /\ places'[w] = place
           /\ \A v \in Workers : v # w => /\ pass'[v] = pass[v] /\ places'[v] = places[v]
                                         /\ moved'[v] = moved[v] /\ sent'[v] = sent[v]
           /\ pass' \in [Workers -> EF!Passes] /\ places' \in [Workers -> Places]
           /\ moved' \in [Workers -> SUBSET Items] /\ sent' \in [Workers -> [Items -> EF!Times]]
<1>1. EF!LaneTypeOK /\ EF!Hold(w, p) /\ EF!Go(w, place) /\ p \in EF!Passes /\ place \in Places
      /\ Delivers(w)
  BY DEF Steps, CursorInv
<1>2. /\ sent' \in [Workers -> [Items -> EF!Times]]
      /\ \A v \in Workers : v # w => sent'[v] = sent[v]
  BY <1>1, SentAfter
<1>3. pass' \in [Workers -> EF!Passes] /\ places' \in [Workers -> Places]
  BY <1>1, Moves
<1>4. moved' \in [Workers -> SUBSET Items]
  BY <1>1, Moves
<1>5. pass'[w] = p /\ places'[w] = place
  BY <1>1, Moves
<1>6. ASSUME NEW v \in Workers, v # w
      PROVE  pass'[v] = pass[v] /\ places'[v] = places[v] /\ moved'[v] = moved[v]
  BY <1>1, <1>6, Moves
<1>7. QED
  BY <1>2, <1>3, <1>4, <1>5, <1>6

LEMMA StepOfPass ==
    ASSUME EF!Parameters, CursorInv, Keeps, NEW w \in Workers, NEW p, NEW place,
           Steps(w, p, place), PassInv(w)', passes' \in 0..MaxPasses,
           cursor' \in EF!Lead, cursor' = cursor \/ \E c : c = cursor' /\ SettledTo(c)',
           tickets' \subseteq EF!Delivery, \A t \in tickets' : t \in tickets \/ NotNewer(t),
           answered' \subseteq EF!Delivery
    PROVE  CursorInv'
<1>1. EF!LaneTypeOK
  BY DEF CursorInv
<1>2. /\ pass'[w] = p /\ places'[w] = place
      /\ \A v \in Workers : v # w => /\ pass'[v] = pass[v] /\ places'[v] = places[v]
                                    /\ moved'[v] = moved[v] /\ sent'[v] = sent[v]
      /\ pass' \in [Workers -> EF!Passes] /\ places' \in [Workers -> Places]
      /\ moved' \in [Workers -> SUBSET Items] /\ sent' \in [Workers -> [Items -> EF!Times]]
  BY StepMoves
<1>3. \A v \in Workers : EF!UpTo(Batch, pass'[v].leads) /\ EF!UpTo(MaxReplay, pass'[v].tickets)
  BY <1>1, <1>2 DEF EF!LaneTypeOK, Steps
<1>4. EF!LaneTypeOK'
  BY <1>1, <1>2, <1>3 DEF EF!LaneTypeOK, Steps, Keeps, Places
<1>5. \A v \in Workers : \/ PassInv(v)'
                         \/ /\ pass'[v] = pass[v] /\ places'[v] = places[v]
                            /\ moved'[v] = moved[v] /\ sent'[v] = sent[v]
  <2>1. TAKE v \in Workers
  <2>2. CASE v = w
    BY <2>2
  <2>3. CASE v # w
    BY <2>3, <1>2 DEF Steps
  <2>4. QED
    BY <2>2, <2>3
<1>6. QED
  BY <1>4, <1>5, StepKeeps

(* A pass without leads at hand: what it has to know of what it holds. *)
LEMMA QuietPass ==
    ASSUME EF!Parameters, CursorInv, Keeps, NEW w \in Workers, NEW p, NEW place,
           Steps(w, p, place), place \notin {"row", "post"},
           p.lead = {}, p.leads = {} \/ p.leads = pass[w].leads, p.cut <= EF!Cutoff,
           \A t \in p.tickets \cup p.ticket : NotNewer(t),
           place \notin {"idle", "state"} => SettledTo(p.next),
           place = "clear" => \A t \in p.ticket : t \in answered' \/ ~IsLead(t),
           place = "replay" => \A t \in p.ticket : IsLead(t)
    PROVE  PassInv(w)'
<1>1. EF!LaneTypeOK
  BY DEF CursorInv
<1>2. pass'[w] = p /\ places'[w] = place
  BY StepMoves
<1>3. /\ ReadBy(w)' = p.leads /\ HasLeads(w)' = FALSE /\ EF!Cutoff' = EF!Cutoff
      /\ \A d : NotNewer(d)' = NotNewer(d) /\ IsLead(d)' = IsLead(d)
  BY <1>2 DEF ReadBy, HasLeads, Keeps, EF!Cutoff, NotNewer, IsLead
<1>4. \A k \in p.leads : NotNewer(k) /\ (IsLead(k) => k.eligible)
  BY DEF CursorInv, PassInv, HeldInStep, ReadBy
<1>5. HeldInStep(w)'
  BY <1>2, <1>3, <1>4 DEF HeldInStep, Keeps
<1>6. Batched(w)' /\ InHand(w)' /\ Covered(w)' /\ Posted(w)'
  BY <1>2, <1>3 DEF Batched, InHand, Covered, Posted
<1>7. NextSettled(w)'
  BY <1>1, <1>2, KeepsSettled DEF NextSettled
<1>8. Cleared(w)' /\ Shown(w)'
  BY <1>2, <1>3 DEF Cleared, Shown
<1>9. Ordered(w)'
  <2>1. \A i \in Items : sent'[w][i] <= rows[i].at
    BY SentAfter DEF Steps
  <2>2. \A d \in p.ticket : d.item \in Items
    BY DEF Steps, EF!Passes, EF!Delivery
  <2>3. QED
    BY <1>2, <1>3, <2>1, <2>2 DEF Ordered, IsLead, Keeps
<1>10. QED
  BY <1>5, <1>6, <1>7, <1>8, <1>9 DEF PassInv
(* A limit is on the number of elements of a finite set. *)
LEMMA UpToIs == \A n, s : EF!UpTo(n, s) <=> IsFiniteSet(s) /\ Cardinality(s) <= n
BY DEF EF!UpTo, EF!IsFiniteSet, EF!Cardinality, IsFiniteSet, Cardinality

(* A part of a set that has at most n elements has at most n. *)
LEMMA UpToPart ==
    ASSUME NEW n \in Nat, NEW s, NEW part, part \subseteq s, EF!UpTo(n, s)
    PROVE  EF!UpTo(n, part)
BY FS_Subset, FS_CardinalityType, UpToIs

(* The empty set is within every limit. *)
LEMMA UpToNone == ASSUME NEW n \in Nat PROVE EF!UpTo(n, {})
BY FS_EmptySet, UpToIs

(* A process without a pass, and one at the begin or the end of one. *)
LEMMA NoPassTypes ==
    ASSUME EF!Parameters
    PROVE  /\ EF!NoLead \in EF!Lead /\ EF!NoPass \in EF!Passes
           /\ EF!NoPass.leads = {} /\ EF!NoPass.lead = {} /\ EF!NoPass.tickets = {}
           /\ EF!NoPass.ticket = {} /\ EF!NoPass.cut = 0
           /\ \A next \in EF!Lead, moves \in BOOLEAN :
                 LET p == [EF!NoPass EXCEPT !.next = next, !.moves = moves] IN
                 /\ p \in EF!Passes /\ p.next = next /\ p.leads = {} /\ p.lead = {}
                 /\ p.tickets = {} /\ p.ticket = {} /\ p.cut = 0
           /\ \A copy \in SUBSET Guilds :
                 LET p == [EF!NoPass EXCEPT !.copy = copy] IN
                 /\ p \in EF!Passes /\ p.leads = {} /\ p.lead = {}
                 /\ p.tickets = {} /\ p.ticket = {} /\ p.cut = 0
<1>1. EF!NoLead \in EF!Lead
  BY Limits DEF EF!NoLead, EF!Lead
<1>2. EF!NoPass \in EF!Passes
  BY <1>1, Limits DEF EF!NoPass, EF!Passes
<1>3. QED
  BY <1>1, <1>2 DEF EF!NoPass, EF!Passes

(* The fields of what a pass holds. *)
LEMMA PassFields ==
    ASSUME EF!Parameters, EF!LaneTypeOK, NEW w \in Workers
    PROVE  /\ pass[w].copy \subseteq Guilds /\ pass[w].live \subseteq Guilds
           /\ pass[w].todo \subseteq Guilds
           /\ pass[w].leads \subseteq EF!Snapshots /\ pass[w].lead \subseteq EF!Snapshots
           /\ pass[w].tickets \subseteq EF!Delivery /\ pass[w].ticket \subseteq EF!Delivery
           /\ pass[w].moves \in BOOLEAN /\ pass[w].read \in BOOLEAN
           /\ EF!UpTo(Batch, pass[w].leads) /\ EF!UpTo(MaxReplay, pass[w].tickets)
           /\ moved[w] \subseteq Items
<1>1. pass[w] \in EF!Passes
  BY PassTypes
<1>2. QED
  BY <1>1 DEF EF!LaneTypeOK, EF!Passes

(* The process goes back to idle: at the end of a pass, on an exception, when it
   stops. *)
Rest == UNCHANGED <<EF!clock, rows, opted, tickets, answered, sent>>
LEMMA EndStep ==
    ASSUME EF!Parameters, CursorInv, NEW w \in Workers, EF!End(w), Rest,
           cursor' \in EF!Lead, cursor' = cursor \/ \E c : c = cursor' /\ SettledTo(c)'
    PROVE  CursorInv'
<1>1. EF!LaneTypeOK
  BY DEF CursorInv
<1>2. Keeps
  BY DEF Keeps, Rest, EF!clock
<1>3. Steps(w, EF!NoPass, "idle")
  <2>1. EF!NoPass \in EF!Passes /\ EF!UpTo(Batch, EF!NoPass.leads) /\ EF!UpTo(MaxReplay, EF!NoPass.tickets)
    <3>1. EF!NoPass \in EF!Passes /\ EF!NoPass.leads = {} /\ EF!NoPass.tickets = {}
      BY NoPassTypes
    <3>2. EF!UpTo(Batch, {}) /\ EF!UpTo(MaxReplay, {})
      BY UpToNone, Limits
    <3>3. QED
      BY <3>1, <3>2
  <2>2. QED
    BY <1>1, <2>1 DEF Steps, Delivers, EF!End, Rest, EF!clock, Places
<1>4. PassInv(w)'
  <2>1. /\ EF!NoPass.leads = {} /\ EF!NoPass.lead = {} /\ EF!NoPass.tickets \cup EF!NoPass.ticket = {}
        /\ EF!NoPass.cut <= EF!Cutoff
    <3>1. /\ EF!NoPass.leads = {} /\ EF!NoPass.lead = {} /\ EF!NoPass.tickets = {}
          /\ EF!NoPass.ticket = {} /\ EF!NoPass.cut = 0
      BY NoPassTypes
    <3>2. EF!Cutoff \in Nat
      BY <1>1, CutoffType DEF EF!LaneTypeOK
    <3>3. QED
      BY <3>1, <3>2
  <2>2. QED
    BY <1>2, <1>3, <2>1, QuietPass
<1>5. QED
  BY <1>1, <1>2, <1>3, <1>4, StepOfPass DEF Rest, EF!clock, EF!LaneTypeOK

(* A process that stops loses its pass, and nothing that is stored. *)
LEMMA PassCrashStep ==
    ASSUME EF!Parameters, CursorInv, NEW w \in Workers, EF!Crash(w)
    PROVE  CursorInv'
BY EndStep DEF EF!Crash, EF!ghosts, Rest, CursorInv, EF!LaneTypeOK

(* A pass writes back a cursor up to which all leads are settled. *)
LEMMA SaveStep ==
    ASSUME EF!Parameters, CursorInv, NEW w \in Workers, EF!Save(w)
    PROVE  CursorInv'
<1>1. EF!LaneTypeOK /\ SettledTo(pass[w].next)
  BY DEF CursorInv, PassInv, NextSettled, EF!Save
<1>2. Keeps
  BY DEF Keeps, EF!Save, EF!clock, EF!ghosts
<1>3. \E c : c = pass[w].next /\ SettledTo(c)'
  BY <1>1, <1>2, KeepsSettled
<1>4. cursor' \in EF!Lead /\ (cursor' = cursor \/ \E c : c = cursor' /\ SettledTo(c)')
  BY <1>1, <1>3, PassTypes DEF EF!Save, EF!LaneTypeOK
<1>5. QED
  BY <1>4, EndStep DEF EF!Save, EF!ghosts, Rest

(* The loop over the leads ends, before a lead or after one. *)
LEMMA FinishStep ==
    ASSUME EF!Parameters, CursorInv, Keeps, NEW w \in Workers,
           NEW next \in EF!Lead, NEW moves \in BOOLEAN, EF!Finish(w, next, moves), SettledTo(next),
           UNCHANGED <<EF!clock, opted, cursor, tickets, answered, sent>>
    PROVE  CursorInv'
<1> DEFINE p == [EF!NoPass EXCEPT !.next = next, !.moves = moves]
<1>1. EF!LaneTypeOK
  BY DEF CursorInv
<1>2. /\ p \in EF!Passes /\ p.next = next /\ p.leads = {} /\ p.lead = {}
      /\ p.tickets = {} /\ p.ticket = {} /\ p.cut = 0
  BY NoPassTypes
<1>3. EF!Hold(w, p) /\ EF!Go(w, "save")
  BY DEF EF!Finish
<1> HIDE DEF p
<1>4. Steps(w, p, "save")
  BY <1>1, <1>2, <1>3, UpToNone, Limits DEF Steps, Delivers, EF!clock, Places
<1>5. PassInv(w)'
  BY <1>1, <1>2, <1>4, QuietPass, CutoffType DEF EF!LaneTypeOK
<1>6. QED
  BY <1>1, <1>4, <1>5, StepOfPass DEF EF!clock, EF!LaneTypeOK

(* A pass begins with the servers that opted in, and without leads. *)
LEMMA BeginStep ==
    ASSUME EF!Parameters, CursorInv, NEW w \in Workers, EF!Begin(w)
    PROVE  CursorInv'
<1> DEFINE p == [EF!NoPass EXCEPT !.copy = opted]
<1>1. EF!LaneTypeOK /\ Keeps
  BY DEF CursorInv, Keeps, EF!Begin, EF!ghosts
<1>2. /\ p \in EF!Passes /\ p.leads = {} /\ p.lead = {}
      /\ p.tickets = {} /\ p.ticket = {} /\ p.cut = 0
  BY <1>1, NoPassTypes DEF EF!LaneTypeOK
<1>3. EF!Hold(w, p) /\ EF!Go(w, "state")
  BY DEF EF!Begin
<1> HIDE DEF p
<1>4. Steps(w, p, "state")
  BY <1>1, <1>2, <1>3, UpToNone, Limits DEF Steps, Delivers, EF!Begin, EF!ghosts, Places
<1>5. PassInv(w)'
  BY <1>1, <1>2, <1>4, QuietPass, CutoffType DEF EF!LaneTypeOK
<1>6. passes' \in 0..MaxPasses
  BY <1>1, Limits DEF EF!LaneTypeOK, EF!Begin
<1>7. QED
  BY <1>1, <1>4, <1>5, <1>6, StepOfPass DEF EF!Begin, EF!ghosts, EF!LaneTypeOK

(* A step that changes only what a pass holds before it reads leads. *)
LEMMA ReadCursorStep ==
    ASSUME EF!Parameters, CursorInv, NEW w \in Workers, EF!ReadCursor(w)
    PROVE  CursorInv'
<1> DEFINE p == [pass[w] EXCEPT !.next = cursor, !.cut = EF!Cutoff]
<1>1. EF!LaneTypeOK /\ Keeps
  BY DEF CursorInv, Keeps, EF!ReadCursor, EF!clock, EF!ghosts
<1>2. /\ pass[w] \in EF!Passes /\ cursor \in EF!Lead /\ EF!Cutoff \in EF!Times /\ EF!Cutoff \in Nat
  BY <1>1, PassTypes, CutoffType DEF EF!LaneTypeOK
<1>3. /\ p \in EF!Passes /\ p.leads = pass[w].leads /\ p.lead = pass[w].lead
      /\ p.tickets = pass[w].tickets /\ p.ticket = pass[w].ticket
      /\ p.cut = EF!Cutoff /\ p.next = cursor
  BY <1>2 DEF EF!Passes
<1>4. EF!Hold(w, p) /\ EF!Go(w, "prune")
  BY DEF EF!ReadCursor
<1> HIDE DEF p
<1>5. Steps(w, p, "prune")
  BY <1>1, <1>3, <1>4, PassFields DEF Steps, Delivers, EF!ReadCursor, EF!clock, EF!ghosts, Places
<1>6. /\ pass[w].lead = {} /\ SettledTo(cursor)
      /\ \A t \in pass[w].tickets \cup pass[w].ticket : NotNewer(t)
  BY DEF CursorInv, PassInv, InHand, HeldInStep, EF!ReadCursor
<1>7. PassInv(w)'
  BY <1>1, <1>2, <1>3, <1>5, <1>6, QuietPass
<1>8. QED
  BY <1>1, <1>5, <1>7, StepOfPass DEF EF!ReadCursor, EF!clock, EF!ghosts, EF!LaneTypeOK

(* A process that is not at its leads has none at hand, and has settled what is
   up to the last lead it passed. *)
LEMMA AtTickets ==
    ASSUME CursorInv, NEW w \in Workers,
           places[w] \in {"prune", "check", "replay", "clear", "select"}
    PROVE  /\ pass[w].lead = {} /\ SettledTo(pass[w].next) /\ pass[w].cut <= EF!Cutoff
           /\ \A t \in pass[w].tickets \cup pass[w].ticket : NotNewer(t)
BY DEF CursorInv, PassInv, InHand, HeldInStep, NextSettled

(* A step about tickets: it changes only the tickets a pass holds. *)
LEMMA TicketStep ==
    ASSUME EF!Parameters, CursorInv, Keeps, NEW w \in Workers, NEW p, NEW place,
           places[w] \in {"prune", "check", "replay", "clear"},
           p \in EF!Passes, p.leads = pass[w].leads, p.lead = pass[w].lead,
           p.next = pass[w].next, p.cut = pass[w].cut,
           EF!UpTo(MaxReplay, p.tickets), \A t \in p.tickets \cup p.ticket : NotNewer(t),
           EF!Hold(w, p), EF!Go(w, place), place \in {"check", "replay", "clear", "select"},
           UNCHANGED <<EF!clock, opted, cursor>>, Delivers(w),
           tickets' \subseteq tickets, answered' \subseteq EF!Delivery,
           place = "clear" => \A t \in p.ticket : t \in answered' \/ ~IsLead(t),
           place = "replay" => \A t \in p.ticket : IsLead(t)
    PROVE  CursorInv'
<1>1. EF!LaneTypeOK
  BY DEF CursorInv
<1>2. Steps(w, p, place)
  BY <1>1, PassFields DEF Steps, Delivers, EF!clock, Places
<1>3. PassInv(w)'
  BY <1>2, AtTickets, QuietPass
<1>4. QED
  BY <1>1, <1>2, <1>3, StepOfPass DEF EF!clock, EF!LaneTypeOK

(* Expired tickets are of leads that nobody owes any more. *)
LEMMA ExpiryStep ==
    ASSUME EF!Parameters, CursorInv, NEW w \in Workers, EF!Prune(w)
    PROVE  CursorInv'
<1>1. /\ EF!LaneTypeOK /\ pass[w].cut <= EF!Cutoff /\ \A t \in tickets : NotNewer(t)
      /\ pass[w].cut \in Nat /\ places[w] = "prune" /\ EF!Cutoff \in Nat
      /\ \A t \in tickets : t.at \in Nat
  <2>1. EF!LaneTypeOK /\ \A t \in tickets : NotNewer(t)
    BY DEF CursorInv, TicketsInStep
  <2>2. tickets \subseteq EF!Delivery
    BY <2>1 DEF EF!LaneTypeOK
  <2>3. QED
    BY <2>1, <2>2, AtTickets, PassTypes, CutoffType, Limits DEF EF!LaneTypeOK, EF!Prune, EF!Delivery
<1>2. CASE tickets = {}
  <2>1. EF!Hold(w, pass[w]) /\ EF!Go(w, "select") /\ Keeps
    BY <1>1, <1>2 DEF EF!Prune, Keeps, EF!clock, EF!ghosts
  <2>2. QED
    BY <1>1, <1>2, <2>1, AtTickets, PassFields, PassTypes, TicketStep
       DEF EF!Prune, EF!ghosts, EF!LaneTypeOK, Delivers
<1>3. CASE tickets # {}
  <2>1. tickets' = {t \in tickets : t.at >= pass[w].cut}
    BY <1>3 DEF EF!Prune
  <2>2. Keeps
    <3>1. \A d \in tickets : d.at >= EF!Cutoff => d.at >= pass[w].cut
      BY <1>1
    <3>2. UNCHANGED <<rows, now, answered>>
      BY DEF EF!Prune, EF!clock, EF!ghosts
    <3>3. QED
      BY <2>1, <3>1, <3>2 DEF Keeps
  <2>3. PICK live \in SUBSET pass[w].copy :
        \E oldest \in SUBSET EF!Replayable(live, pass[w].cut) :
                  /\ EF!Oldest(MaxReplay, EF!Replayable(live, pass[w].cut), oldest)
                  /\ EF!Hold(w, [pass[w] EXCEPT !.read = TRUE, !.live = live,
                                                !.tickets = oldest])
                  /\ EF!Go(w, "check")
    BY <1>3 DEF EF!Prune
  <2>4. PICK oldest \in SUBSET EF!Replayable(live, pass[w].cut) :
                  /\ EF!Oldest(MaxReplay, EF!Replayable(live, pass[w].cut), oldest)
                  /\ EF!Hold(w, [pass[w] EXCEPT !.read = TRUE, !.live = live,
                                                !.tickets = oldest])
                  /\ EF!Go(w, "check")
    BY <2>3
  <2> DEFINE p == [pass[w] EXCEPT !.read = TRUE, !.live = live, !.tickets = oldest]
  <2>5. oldest \subseteq tickets /\ EF!UpTo(MaxReplay, oldest)
    BY <2>4 DEF EF!Replayable, EF!Oldest
  <2>6. /\ p \in EF!Passes /\ p.leads = pass[w].leads /\ p.lead = pass[w].lead
        /\ p.next = pass[w].next /\ p.cut = pass[w].cut
        /\ p.tickets = oldest /\ p.ticket = pass[w].ticket
    BY <1>1, <2>5, PassTypes, PassFields DEF EF!Passes, EF!LaneTypeOK
  <2>7. EF!Hold(w, p) /\ EF!Go(w, "check")
    BY <2>4
  <2> HIDE DEF p
  <2>8. \A t \in p.tickets \cup p.ticket : NotNewer(t)
    BY <1>1, <2>5, <2>6, AtTickets
  <2>9. /\ UNCHANGED <<EF!clock, opted, cursor>> /\ Delivers(w)
        /\ tickets' \subseteq tickets /\ answered' \subseteq EF!Delivery
    BY <1>1, <2>1 DEF EF!Prune, EF!ghosts, EF!LaneTypeOK, Delivers
  <2>10. QED
    BY <1>1, <2>2, <2>5, <2>6, <2>7, <2>8, <2>9, TicketStep
<1>4. QED
  BY <1>2, <1>3

(* The proof of a ticket is looked up: it is replayed, or cleared. *)
LEMMA CheckStep ==
    ASSUME EF!Parameters, CursorInv, NEW w \in Workers, EF!Check(w)
    PROVE  CursorInv'
<1>1. /\ EF!LaneTypeOK /\ Keeps /\ places[w] = "check"
      /\ UNCHANGED <<EF!clock, opted, cursor>> /\ tickets' = tickets /\ answered' = answered
      /\ answered \subseteq EF!Delivery /\ Delivers(w)
  BY DEF CursorInv, Keeps, EF!Check, EF!clock, EF!ghosts, EF!LaneTypeOK, Delivers
<1>2. CASE pass[w].tickets = {} /\ EF!Go(w, "select") /\ EF!Hold(w, pass[w])
  BY <1>1, <1>2, AtTickets, PassFields, PassTypes, TicketStep
<1>3. ASSUME NEW t \in pass[w].tickets,
             EF!Hold(w, [pass[w] EXCEPT !.ticket = {t}, !.tickets = @ \ {t}]),
             EF!Go(w, IF EF!SameProof(t) THEN "replay" ELSE "clear")
      PROVE  CursorInv'
  <2> DEFINE p == [pass[w] EXCEPT !.ticket = {t}, !.tickets = @ \ {t}]
             place == IF EF!SameProof(t) THEN "replay" ELSE "clear"
  <2>1. pass[w] \in EF!Passes /\ t \in EF!Delivery
    BY <1>1, PassTypes
  <2>2. /\ p \in EF!Passes /\ p.leads = pass[w].leads /\ p.lead = pass[w].lead
        /\ p.next = pass[w].next /\ p.cut = pass[w].cut
        /\ p.tickets = pass[w].tickets \ {t} /\ p.ticket = {t}
    BY <2>1 DEF EF!Passes
  <2>3. /\ EF!Hold(w, p) /\ EF!Go(w, place) /\ place \in {"replay", "clear"}
        /\ place = "clear" => ~IsLead(t)
        /\ place = "replay" => IsLead(t)
    BY <1>1, <1>3, <2>1, ProofIsLead DEF EF!Delivery
  <2> HIDE DEF p, place
  <2>4. EF!UpTo(MaxReplay, p.tickets)
    BY <1>1, <2>2, PassFields, UpToPart, Limits
  <2>5. \A d \in p.tickets \cup p.ticket : NotNewer(d)
    BY <1>1, <2>2, AtTickets
  <2>6. QED
    BY <1>1, <1>3, <2>2, <2>3, <2>4, <2>5, TicketStep
<1>4. QED
  BY <1>2, <1>3 DEF EF!Check

(* A pass is done with a ticket. *)
LEMMA NextTicketStep ==
    ASSUME EF!Parameters, CursorInv, Keeps, NEW w \in Workers, EF!NextTicket(w),
           places[w] \in {"replay", "clear"}, UNCHANGED <<EF!clock, opted, cursor, answered, sent>>,
           tickets' \subseteq tickets
    PROVE  CursorInv'
<1> DEFINE p == [pass[w] EXCEPT !.ticket = {}]
<1>1. EF!LaneTypeOK /\ pass[w] \in EF!Passes
  BY PassTypes DEF CursorInv
<1>2. /\ p \in EF!Passes /\ p.leads = pass[w].leads /\ p.lead = pass[w].lead
      /\ p.next = pass[w].next /\ p.cut = pass[w].cut
      /\ p.tickets = pass[w].tickets /\ p.ticket = {}
  BY <1>1 DEF EF!Passes
<1>3. EF!Hold(w, p) /\ EF!Go(w, "check")
  BY DEF EF!NextTicket
<1> HIDE DEF p
<1>4. EF!UpTo(MaxReplay, p.tickets) /\ \A d \in p.tickets \cup p.ticket : NotNewer(d)
  BY <1>1, <1>2, PassFields, AtTickets
<1>5. answered' \subseteq EF!Delivery /\ Delivers(w)
  BY <1>1 DEF EF!LaneTypeOK, Delivers
<1>6. QED
  BY <1>2, <1>3, <1>4, <1>5, TicketStep

(* The ticket at hand is decided, or stays in the table. *)
LEMMA ReplayStep ==
    ASSUME EF!Parameters, CursorInv, NEW w \in Workers, EF!Replay(w)
    PROVE  CursorInv'
<1>1. EF!LaneTypeOK /\ Keeps /\ places[w] = "replay"
  BY DEF CursorInv, Keeps, EF!Replay, EF!NextTicket, EF!clock, EF!ghosts
<1>2. CASE /\ answered' = answered \cup pass[w].ticket
           /\ \E d \in pass[w].ticket : EF!Decided(w, d)
           /\ EF!Go(w, "clear") /\ EF!Hold(w, pass[w])
  <2>1. /\ answered' \subseteq EF!Delivery /\ tickets' = tickets /\ Delivers(w)
        /\ UNCHANGED <<EF!clock, opted, cursor>>
    BY <1>1, <1>2, PassFields DEF EF!Replay, EF!LaneTypeOK, Delivers
  <2>2. QED
    BY <1>1, <1>2, <2>1, AtTickets, PassFields, PassTypes, TicketStep
<1>3. CASE EF!NextTicket(w) /\ UNCHANGED EF!ghosts
  BY <1>1, <1>3, NextTicketStep DEF EF!Replay, EF!clock, EF!ghosts
<1>4. QED
  BY <1>2, <1>3 DEF EF!Replay

(* A ticket is cleared that was decided, or whose proof is not the item's. *)
LEMMA ClearStep ==
    ASSUME EF!Parameters, CursorInv, NEW w \in Workers, EF!Clear(w)
    PROVE  CursorInv'
<1>1. /\ EF!LaneTypeOK /\ places[w] = "clear"
      /\ \A t \in pass[w].ticket : t \in answered \/ ~IsLead(t)
  BY DEF CursorInv, PassInv, Cleared, EF!Clear
<1>2. Keeps
  BY <1>1 DEF Keeps, EF!Clear, EF!clock, EF!ghosts
<1>3. QED
  BY <1>1, <1>2, NextTicketStep DEF EF!Clear, EF!clock, EF!ghosts

(* ------------------------------- the settings ---------------------------- *)

LEMMA SettingsTypes ==
    ASSUME EF!Parameters, EF!LaneTypeOK, changes < MaxChanges
    PROVE  changes + 1 \in 0..MaxChanges
BY Limits DEF EF!LaneTypeOK

(* The cursor is set back to where nothing that is still owed is behind it. *)
LEMMA OptInStep ==
    ASSUME EF!Parameters, CursorInv, NEW g \in Guilds, EF!OptIn(g)
    PROVE  CursorInv'
<1>1. EF!LaneTypeOK /\ Keeps
  BY DEF CursorInv, Keeps, EF!OptIn, EF!ghosts, EF!held
<1>2. EF!Cutoff \in EF!Times /\ 0 \in Items \cup {0}
  BY <1>1, CutoffType DEF EF!LaneTypeOK
<1>3. cursor' \in EF!Lead
  BY <1>1, <1>2 DEF EF!OptIn, EF!LaneTypeOK, EF!Lead
<1>4. EF!LaneTypeOK'
  BY <1>1, <1>3, SettingsTypes DEF EF!LaneTypeOK, EF!OptIn, EF!ghosts, EF!held
<1>5. cursor' = cursor \/ \E c : c = cursor' /\ SettledTo(c)'
  <2>1. SUFFICES ASSUME cursor' = [item |-> 0, at |-> EF!Cutoff]
                 PROVE  \E c : c = cursor' /\ SettledTo(c)'
    BY DEF EF!OptIn
  <2>2. \A c : c.item = 0 /\ c.at = EF!Cutoff => SettledTo(c)
    <3>1. SUFFICES ASSUME NEW c, c.item = 0, c.at = EF!Cutoff, NEW i \in Items, Owed(i)
                   PROVE  EF!After(EF!Current(i), c)
      BY DEF SettledTo
    <3>2. rows[i].at \in Nat /\ EF!Cutoff \in Nat /\ i > 0 /\ i \in Nat
      BY <1>1, <1>2, RowTypes, Limits
    <3>3. QED
      BY <3>1, <3>2, RowTypes, <1>1 DEF EF!After, Owed
  <2>3. \E c : c = cursor' /\ SettledTo(c)
    BY <2>1, <2>2
  <2>4. QED
    BY <2>3, <1>1, KeepsSettled
<1>6. QED
  BY <1>1, <1>4, <1>5, StepKeeps DEF EF!OptIn, EF!ghosts, EF!held

(* The tickets that are cancelled are owed no more. *)
LEMMA OptOutStep ==
    ASSUME EF!Parameters, CursorInv, NEW g \in Guilds, EF!OptOut(g)
    PROVE  CursorInv'
<1>1. EF!LaneTypeOK /\ Keeps
  BY DEF CursorInv, Keeps, EF!OptOut
<1>2. EF!LaneTypeOK'
  BY <1>1, SettingsTypes DEF EF!LaneTypeOK, EF!OptOut, EF!held
<1>3. QED
  BY <1>1, <1>2, StepKeeps DEF EF!OptOut, EF!held

(* -------------------------------- the leads ------------------------------ *)

(* The steps from here on keep a pass at its leads: what the invariant says of
   the leads it has read. *)
LEMMA AtLeads ==
    ASSUME EF!Parameters, CursorInv, NEW w \in Workers, HasLeads(w)
    PROVE  /\ SettledTo(pass[w].next) /\ pass[w].cut <= EF!Cutoff
           /\ \A k \in ReadBy(w) : /\ NotNewer(k) /\ (IsLead(k) => k.eligible)
                                   /\ EF!After(k, pass[w].next)
                                   /\ (k.eligible => IsLead(k)) \/ k.item \in moved[w]
           /\ \A k, m \in ReadBy(w) : k.item = m.item => k = m
           /\ \A t \in pass[w].tickets \cup pass[w].ticket : NotNewer(t)
<1>1. PassInv(w) /\ places[w] \in {"row", "post"}
  BY DEF CursorInv, HasLeads
<1>2. SettledTo(pass[w].next)
  BY <1>1 DEF PassInv, NextSettled
<1>3. QED
  BY <1>1, <1>2 DEF PassInv, HeldInStep, Batched, Shown, ReadBy, HasLeads

(* A pass that stays at leads it has read, all or some of them. *)
LEMMA LeadsPass ==
    ASSUME EF!Parameters, CursorInv, Keeps, NEW w \in Workers, HasLeads(w), NEW p, NEW place,
           Steps(w, p, place), place \in {"row", "post"},
           p.leads \cup p.lead \subseteq ReadBy(w), p.cut <= EF!Cutoff, SettledTo(p.next),
           p.tickets = pass[w].tickets, p.ticket = pass[w].ticket,
           \A k \in p.leads \cup p.lead : EF!After(k, p.next),
           \A i \in Items, m \in p.leads \cup p.lead :
              Owed(i) /\ EF!After(EF!Current(i), p.next) /\ ~EF!After(EF!Current(i), m)
                => \/ \E k \in p.leads \cup p.lead : k.item = i /\ k.at = rows[i].at
                   \/ DoneForAll(EF!Current(i)),
           IF place = "post"
           THEN \E l \in p.lead : /\ p.lead = {l} /\ l \notin p.leads
                                  /\ l.eligible /\ \A m \in p.leads : EF!After(m, l)
           ELSE p.lead = {},
           place = "post" =>
              \A l \in p.lead : IsLead(l) /\ l.at >= EF!Cutoff
                                    => \A g \in Guilds \ p.todo : Done(EF!To(g, l))'
    PROVE  PassInv(w)'
<1>1. EF!LaneTypeOK
  BY DEF CursorInv
<1>2. pass'[w] = p /\ places'[w] = place /\ moved'[w] = moved[w] \cap EF!Holds(p)
  BY <1>1, Moves DEF Steps
<1>3. /\ ReadBy(w)' = p.leads \cup p.lead /\ HasLeads(w)' = TRUE /\ EF!Cutoff' = EF!Cutoff
      /\ \A d : NotNewer(d)' = NotNewer(d) /\ IsLead(d)' = IsLead(d)
      /\ \A i \in Items : EF!Current(i)' = EF!Current(i) /\ Owed(i)' = Owed(i)
  BY <1>2 DEF ReadBy, HasLeads, Keeps, EF!Cutoff, NotNewer, IsLead, EF!Current, Owed
<1>4. HeldInStep(w)'
  BY <1>2, <1>3, AtLeads DEF HeldInStep, Keeps
<1>5. Batched(w)'
  BY <1>2, <1>3, AtLeads DEF Batched
<1>6. InHand(w)'
  BY <1>2 DEF InHand
<1>7. NextSettled(w)'
  BY <1>1, <1>2, KeepsSettled DEF NextSettled
<1>8. Covered(w)'
  <2>1. SUFFICES ASSUME NEW i \in Items, NEW m \in p.leads \cup p.lead, Owed(i),
                        EF!After(EF!Current(i), p.next), ~EF!After(EF!Current(i), m)
                 PROVE  \/ \E k \in p.leads \cup p.lead : k.item = i /\ k.at = rows[i].at
                        \/ \A g \in Guilds : Done(EF!To(g, EF!Current(i)))'
    BY <1>2, <1>3 DEF Covered, DoneForAll, Keeps
  <2>2. \/ \E k \in p.leads \cup p.lead : k.item = i /\ k.at = rows[i].at
        \/ DoneForAll(EF!Current(i))
    BY <2>1
  <2>3. ASSUME DoneForAll(EF!Current(i)), NEW g \in Guilds
        PROVE  Done(EF!To(g, EF!Current(i)))'
    <3>1. Done(EF!To(g, EF!Current(i))) /\ EF!Current(i).item = i /\ EF!Current(i).at = rows[i].at
      BY <1>1, <2>3, RowTypes DEF DoneForAll
    <3>2. QED
      BY <1>1, <1>3, <3>1, <2>1, KeepsOwed
  <2>4. QED
    BY <2>2, <2>3
<1>9. Posted(w)'
  BY <1>2, <1>3 DEF Posted, Keeps
<1>10. Cleared(w)'
  BY <1>2 DEF Cleared
<1>11. Shown(w)'
  <2>1. \A k \in p.leads \cup p.lead : k.item \in EF!Holds(p)
    BY DEF EF!Holds
  <2>2. QED
    BY <1>2, <1>3, <2>1, AtLeads DEF Shown
<1>12. Ordered(w)'
  BY <1>2, <1>3, SentAfter DEF Ordered, Steps, Keeps
<1>13. QED
  BY <1>4, <1>5, <1>6, <1>7, <1>8, <1>9, <1>10, <1>11, <1>12 DEF PassInv

(* A lead that has been settled is passed over: everything up to it is settled,
   and everything after it that the batch should hold is in the rest. *)
LEMMA PassOverStep ==
    ASSUME EF!Parameters, CursorInv, Keeps, NEW w \in Workers, HasLeads(w),
           NEW l \in ReadBy(w), NEW rest, rest = pass[w].leads \ {l},
           ReadBy(w) = rest \cup {l}, \A m \in rest : EF!After(m, l),
           rows[l.item].at = l.at /\ Owed(l.item) => DoneForAll(l),
           EF!PassOver(w, l, rest), UNCHANGED <<EF!clock, opted, cursor, tickets, answered, sent>>
    PROVE  CursorInv'
<1> DEFINE next == [item |-> l.item, at |-> l.at]
           p == [pass[w] EXCEPT !.next = next, !.moves = TRUE, !.leads = rest,
                                !.lead = {}, !.todo = {}]
<1>1. EF!LaneTypeOK
  BY DEF CursorInv
<1>2. next \in EF!Lead /\ next.item = l.item /\ next.at = l.at /\ Point(l) /\ Point(next)
  BY <1>1, PassTypes DEF EF!Lead, Point
<1>3. \A i \in Items : /\ Point(EF!Current(i)) /\ EF!Current(i).item = i
                       /\ EF!Current(i).at = rows[i].at
  BY <1>1, RowTypes
<1>4. Point(pass[w].next) /\ \A m \in ReadBy(w) : Point(m) /\ m.item \in Items
  BY <1>1, PassTypes
<1>5. ASSUME NEW k PROVE (EF!After(k, next) <=> EF!After(k, l)) /\ (EF!After(next, k) <=> EF!After(l, k))
  BY <1>2, AfterSame
<1> HIDE DEF next
<1>6. ASSUME NEW k \in ReadBy(w), k # l, NEW i \in Items, k.item = i, k.at = rows[i].at
      PROVE  k \in rest /\ EF!After(EF!Current(i), l)
  <2>1. k \in rest /\ EF!After(k, l)
    BY <1>6
  <2>2. QED
    BY <1>3, <1>6, <2>1, AfterSame
<1>7. SettledTo(next)
  <2>1. SUFFICES ASSUME NEW i \in Items, Owed(i), ~EF!After(EF!Current(i), next)
                 PROVE  DoneForAll(EF!Current(i))
    BY DEF SettledTo
  <2>2. ~EF!After(EF!Current(i), l)
    BY <1>5, <2>1
  <2>3. CASE ~EF!After(EF!Current(i), pass[w].next)
    BY <2>1, <2>3, AtLeads DEF SettledTo
  <2>4. CASE EF!After(EF!Current(i), pass[w].next)
    <3>1. \/ \E k \in ReadBy(w) : k.item = i /\ k.at = rows[i].at
          \/ DoneForAll(EF!Current(i))
      BY <2>1, <2>2, <2>4 DEF CursorInv, PassInv, Covered
    <3>2. ASSUME NEW k \in ReadBy(w), k.item = i, k.at = rows[i].at
          PROVE  DoneForAll(EF!Current(i))
      <4>1. k = l
        BY <1>6, <2>2, <3>2
      <4>2. DoneForAll(l)
        BY <2>1, <3>2, <4>1
      <4>3. \A g \in Guilds : EF!To(g, EF!Current(i)) = EF!To(g, l)
        BY <1>3, <3>2, <4>1, DeliveryOf
      <4>4. QED
        BY <4>2, <4>3 DEF DoneForAll
    <3>3. QED
      BY <3>1, <3>2
  <2>5. QED
    BY <2>3, <2>4
<1>8. CASE rest = {}
  <2>1. EF!Finish(w, next, TRUE)
    BY <1>8 DEF EF!PassOver, next
  <2>2. QED
    BY <1>2, <1>7, <2>1, FinishStep
<1>9. CASE rest # {}
  <2>1. EF!Hold(w, p) /\ EF!Go(w, "row")
    BY <1>9 DEF EF!PassOver, next
  <2>2. rest \subseteq EF!Snapshots /\ EF!UpTo(Batch, rest)
    BY <1>1, PassFields, UpToPart, Limits
  <2>3. /\ p \in EF!Passes /\ p.next = next /\ p.leads = rest /\ p.lead = {}
        /\ p.cut = pass[w].cut /\ p.tickets = pass[w].tickets
        /\ p.ticket = pass[w].ticket
    BY <1>1, <1>2, <2>2, PassTypes DEF EF!Passes
  <2> HIDE DEF p
  <2>4. EF!UpTo(MaxReplay, p.tickets)
    BY <1>1, <2>3, PassFields
  <2>5. Steps(w, p, "row")
    BY <1>1, <2>1, <2>2, <2>3, <2>4 DEF Steps, Delivers, EF!clock, Places
  <2>6. \A k \in rest : EF!After(k, next)
    BY <1>5
  <2>7. ASSUME NEW i \in Items, NEW m \in rest, Owed(i), EF!After(EF!Current(i), next),
               ~EF!After(EF!Current(i), m)
        PROVE  \/ \E k \in rest : k.item = i /\ k.at = rows[i].at
               \/ DoneForAll(EF!Current(i))
    <3>1. EF!After(EF!Current(i), l) /\ EF!After(l, pass[w].next)
      BY <1>5, <2>7, AtLeads
    <3>2. EF!After(EF!Current(i), pass[w].next)
      BY <1>2, <1>3, <1>4, <3>1, AfterTransitive
    <3>3. \/ \E k \in ReadBy(w) : k.item = i /\ k.at = rows[i].at
          \/ DoneForAll(EF!Current(i))
      BY <2>7, <3>2 DEF CursorInv, PassInv, Covered
    <3>4. ASSUME NEW k \in ReadBy(w), k.item = i, k.at = rows[i].at
          PROVE  k # l
      <4>1. ~EF!After(l, l)
        BY <1>2, AfterStrict
      <4>2. QED
        BY <3>1, <3>4, <4>1, <1>3, AfterSame
    <3>5. QED
      BY <3>3, <3>4
  <2>8. /\ p.leads \cup p.lead = rest /\ rest \subseteq ReadBy(w) /\ p.cut <= EF!Cutoff
    BY <2>3, AtLeads
  <2>9. PassInv(w)'
    BY <1>7, <2>3, <2>5, <2>6, <2>7, <2>8, LeadsPass
  <2>10. QED
    BY <1>1, <2>5, <2>9, StepOfPass DEF EF!clock, EF!LaneTypeOK
<1>10. QED
  BY <1>8, <1>9

(* The first leads after the cursor are read; those that are not are after. *)
LEMMA SelectStep ==
    ASSUME EF!Parameters, CursorInv, NEW w \in Workers, EF!Select(w)
    PROVE  CursorInv'
<1> DEFINE after == {i \in Items : rows[i].at >= pass[w].cut /\ rows[i].status # "none"
                                   /\ EF!After(EF!Current(i), pass[w].next)}
           fresh == {EF!Snapshot(i) : i \in after}
<1>1. EF!LaneTypeOK /\ Keeps /\ places[w] = "select"
  BY DEF CursorInv, Keeps, EF!Select, EF!clock, EF!ghosts
<1>2. UNCHANGED <<EF!clock, opted, cursor, tickets, answered, sent>>
  BY DEF EF!Select, EF!ghosts
<1>3. CASE fresh = {} /\ EF!Finish(w, pass[w].next, FALSE)
  BY <1>1, <1>2, <1>3, AtTickets, PassTypes, FinishStep
<1>4. ASSUME NEW oldest \in SUBSET fresh, oldest # {}, EF!Oldest(Batch, fresh, oldest),
             EF!Hold(w, [pass[w] EXCEPT !.cut = 0, !.leads = oldest]), EF!Go(w, "row")
      PROVE  CursorInv'
  <2> DEFINE p == [pass[w] EXCEPT !.cut = 0, !.leads = oldest]
  <2>1. \A k \in fresh : /\ k \in EF!Snapshots /\ k.item \in Items /\ k = EF!Snapshot(k.item)
                         /\ NotNewer(k) /\ (IsLead(k) <=> k.eligible)
                         /\ EF!After(k, pass[w].next) /\ Point(k) /\ k.at = rows[k.item].at
    <3>1. ASSUME NEW i \in Items, EF!After(EF!Current(i), pass[w].next)
          PROVE  /\ EF!Snapshot(i) \in EF!Snapshots /\ EF!Snapshot(i).item = i
                 /\ NotNewer(EF!Snapshot(i)) /\ (IsLead(EF!Snapshot(i)) <=> EF!Snapshot(i).eligible)
                 /\ EF!After(EF!Snapshot(i), pass[w].next) /\ Point(EF!Snapshot(i))
                 /\ EF!Snapshot(i).at = rows[i].at
      <4>1. /\ EF!Snapshot(i) \in EF!Snapshots /\ EF!Snapshot(i).item = i /\ rows[i].at \in Nat
            /\ EF!Snapshot(i).at = rows[i].at /\ (EF!Snapshot(i).eligible <=> rows[i].status = "lead")
            /\ EF!Current(i).item = i /\ EF!Current(i).at = rows[i].at /\ Point(EF!Current(i))
        BY <1>1, RowTypes, Limits
      <4>2. /\ Point(EF!Snapshot(i)) /\ NotNewer(EF!Snapshot(i))
            /\ IsLead(EF!Snapshot(i)) <=> EF!Snapshot(i).eligible
        BY <4>1 DEF Point, NotNewer, IsLead
      <4>3. QED
        BY <3>1, <4>1, <4>2, AfterSame
    <3>2. QED
      BY <3>1
  <2>2. /\ oldest \subseteq fresh /\ EF!UpTo(Batch, oldest)
        /\ \A l \in oldest, m \in fresh \ oldest : ~EF!After(l, m)
    BY <1>4 DEF EF!Oldest
  <2> HIDE DEF fresh
  <2>3. /\ pass[w].lead = {} /\ SettledTo(pass[w].next) /\ pass[w].cut <= EF!Cutoff
        /\ \A t \in pass[w].tickets \cup pass[w].ticket : NotNewer(t)
        /\ pass[w].cut \in Nat /\ EF!Cutoff \in Nat
    BY <1>1, AtTickets, PassTypes, CutoffType DEF EF!LaneTypeOK
  <2>4. /\ p \in EF!Passes /\ p.next = pass[w].next /\ p.leads = oldest
        /\ p.lead = {} /\ p.cut = 0 /\ p.tickets = pass[w].tickets
        /\ p.ticket = pass[w].ticket
    <3>1. pass[w] \in EF!Passes /\ oldest \subseteq EF!Snapshots /\ 0 \in EF!Times
      BY <1>1, <2>1, <2>2, PassTypes, Limits
    <3>2. QED
      BY <2>3, <3>1 DEF EF!Passes
  <2>5. EF!Hold(w, p) /\ EF!Go(w, "row")
    BY <1>4
  <2> HIDE DEF p
  <2>6. Steps(w, p, "row")
    BY <1>1, <1>2, <2>2, <2>4, <2>5, PassFields DEF Steps, Delivers, EF!clock, Places
  <2>7. ASSUME NEW i \in Items, NEW m \in oldest, Owed(i), EF!After(EF!Current(i), pass[w].next),
               ~EF!After(EF!Current(i), m)
        PROVE  \E k \in oldest : k.item = i /\ k.at = rows[i].at
    <3>1. rows[i].at >= pass[w].cut /\ rows[i].status # "none"
      <4>1. rows[i].at \in Nat /\ rows[i].at >= EF!Cutoff /\ rows[i].status = "lead"
        BY <1>1, <2>7, RowTypes, Limits DEF Owed
      <4>2. QED
        BY <2>3, <4>1
    <3>2. EF!Snapshot(i) \in fresh
      BY <2>7, <3>1 DEF fresh
    <3>3. /\ EF!Snapshot(i).item = i /\ EF!Snapshot(i).at = rows[i].at
          /\ EF!Current(i).item = i /\ EF!Current(i).at = rows[i].at
      BY <1>1, RowTypes
    <3>4. CASE EF!Snapshot(i) \notin oldest
      <4>1. ~EF!After(m, EF!Snapshot(i)) /\ ~EF!After(EF!Snapshot(i), m)
        BY <2>2, <2>7, <3>2, <3>3, <3>4, AfterSame
      <4>2. m \in fresh /\ Point(m) /\ Point(EF!Snapshot(i))
        BY <2>1, <2>2, <3>2
      <4>3. m.item = EF!Snapshot(i).item
        BY <4>1, <4>2, AfterTotal
      <4>4. QED
        BY <2>1, <3>3, <3>4, <4>2, <4>3
    <3>5. QED
      BY <3>3, <3>4
  <2>8. PassInv(w)'
    <3>1. \E c : pass'[w] = p /\ places'[w] = "row" /\ c = p
      BY <1>1, <2>6, Moves DEF Steps
    <3>2. /\ ReadBy(w)' = oldest /\ HasLeads(w)' = TRUE /\ EF!Cutoff' = EF!Cutoff
          /\ \A d : NotNewer(d)' = NotNewer(d) /\ IsLead(d)' = IsLead(d)
          /\ \A i \in Items : EF!Current(i)' = EF!Current(i) /\ Owed(i)' = Owed(i)
      BY <1>1, <2>4, <3>1 DEF ReadBy, HasLeads, Keeps, EF!Cutoff, NotNewer, IsLead, EF!Current,
                              Owed
    <3>3. HeldInStep(w)'
      BY <1>1, <2>1, <2>2, <2>3, <2>4, <3>1, <3>2 DEF HeldInStep, Keeps
    <3>4. Batched(w)'
      BY <2>1, <2>2, <2>4, <3>1, <3>2 DEF Batched
    <3>5. InHand(w)' /\ Posted(w)' /\ Cleared(w)'
      BY <2>4, <3>1 DEF InHand, Posted, Cleared
    <3>6. NextSettled(w)'
      BY <1>1, <2>3, <2>4, <3>1, KeepsSettled DEF NextSettled
    <3>7. Covered(w)'
      BY <1>1, <2>4, <2>7, <3>1, <3>2 DEF Covered, Keeps
    <3>8. Shown(w)'
      BY <2>1, <2>2, <3>1, <3>2 DEF Shown
    <3>9. Ordered(w)'
      <4>1. \A i \in Items : sent'[w][i] <= rows[i].at
        BY SentAfter, <2>6 DEF Steps
      <4>2. \A k \in oldest : k.item \in Items /\ k.at = rows[k.item].at
        BY <2>1, <2>2
      <4>3. QED
        BY <1>1, <3>1, <3>2, <4>1, <4>2 DEF Ordered, Keeps
    <3>10. QED
      BY <3>3, <3>4, <3>5, <3>6, <3>7, <3>8, <3>9 DEF PassInv
  <2>9. QED
    BY <1>1, <1>2, <2>6, <2>8, StepOfPass DEF EF!clock, EF!LaneTypeOK
<1>5. QED
  BY <1>3, <1>4 DEF EF!Select

(* The first of the leads a pass has still to begin is before the others. *)
LEMMA FirstLead ==
    ASSUME EF!Parameters, CursorInv, NEW w \in Workers, places[w] = "row",
           NEW l \in pass[w].leads, EF!IsFirst(l, pass[w].leads)
    PROVE  /\ HasLeads(w) /\ pass[w].lead = {} /\ ReadBy(w) = pass[w].leads
           /\ l \in ReadBy(w) /\ ReadBy(w) = (pass[w].leads \ {l}) \cup {l}
           /\ \A m \in pass[w].leads \ {l} : EF!After(m, l)
<1>1. HasLeads(w) /\ pass[w].lead = {} /\ ReadBy(w) = pass[w].leads /\ EF!LaneTypeOK
  BY DEF CursorInv, PassInv, InHand, HasLeads, ReadBy
<1>2. ASSUME NEW m \in pass[w].leads, m # l
      PROVE  EF!After(m, l)
  <2>1. Point(m) /\ Point(l)
    BY <1>1, PassTypes
  <2>2. ~EF!After(l, m) /\ (m.item = l.item => m = l)
    BY <1>1, AtLeads DEF EF!IsFirst
  <2>3. QED
    BY <1>2, <2>1, <2>2, AfterTotal
<1>3. QED
  BY <1>1, <1>2

(* A lead is begun: a row that is not eligible is passed over, a pass without
   live servers ends, and else the servers that are not live get tickets. *)
LEMMA RowStep ==
    ASSUME EF!Parameters, CursorInv, NEW w \in Workers, EF!Row(w)
    PROVE  CursorInv'
<1>1. EF!LaneTypeOK /\ places[w] = "row" /\ UNCHANGED <<EF!clock, rows, opted, cursor, sent>>
  BY DEF CursorInv, EF!Row
<1>2. PICK l \in pass[w].leads :
          LET p == pass[w]  rest == p.leads \ {l} IN
          /\ EF!IsFirst(l, p.leads)
          /\ \/ /\ ~l.eligible
                /\ EF!PassOver(w, l, rest) /\ UNCHANGED <<tickets, answered>>
             \/ /\ l.eligible
                /\ \E live \in (IF p.read THEN {p.live} ELSE SUBSET p.copy) :
                   \/ /\ live = {}
                      /\ EF!Finish(w, p.next, p.moves) /\ UNCHANGED <<tickets, answered>>
                   \/ /\ live # {}
                      /\ tickets' = tickets \cup EF!Missing(w, l, live)
                      /\ answered' = answered \cup EF!Joined(w, l)
                      /\ EF!Hold(w, [p EXCEPT !.read = TRUE, !.live = live, !.todo = live,
                                              !.lead = {l}, !.leads = rest])
                      /\ EF!Go(w, "post")
  BY DEF EF!Row
<1> DEFINE rest == pass[w].leads \ {l}
<1>3. /\ HasLeads(w) /\ pass[w].lead = {} /\ ReadBy(w) = pass[w].leads
      /\ l \in ReadBy(w) /\ ReadBy(w) = rest \cup {l}
      /\ \A m \in rest : EF!After(m, l)
  BY <1>1, <1>2, FirstLead
<1>4. /\ l.item \in Items /\ l.at \in EF!Times /\ Point(l)
      /\ NotNewer(l) /\ (IsLead(l) => l.eligible) /\ EF!After(l, pass[w].next)
  BY <1>1, <1>3, PassTypes, AtLeads
<1>5. CASE /\ ~l.eligible
           /\ EF!PassOver(w, l, rest) /\ UNCHANGED <<tickets, answered>>
  <2>1. rows[l.item].at = l.at /\ Owed(l.item) => DoneForAll(l)
    BY <1>4, <1>5 DEF IsLead, Owed
  <2>2. Keeps
    BY <1>1, <1>5 DEF Keeps, EF!clock
  <2>3. rest = pass[w].leads \ {l}
    OBVIOUS
  <2> HIDE DEF rest
  <2>4. UNCHANGED <<EF!clock, opted, cursor, tickets, answered, sent>>
    BY <1>1, <1>5
  <2>5. QED
    BY <1>3, <1>5, <2>1, <2>2, <2>3, <2>4, PassOverStep
<1>6. CASE EF!Finish(w, pass[w].next, pass[w].moves) /\ UNCHANGED <<tickets, answered>>
  <2>1. Keeps /\ UNCHANGED <<EF!clock, opted, cursor, tickets, answered, sent>>
    BY <1>1, <1>6 DEF Keeps, EF!clock
  <2>2. pass[w].next \in EF!Lead /\ pass[w].moves \in BOOLEAN /\ SettledTo(pass[w].next)
    BY <1>1, <1>3, PassTypes, PassFields, AtLeads
  <2>3. QED
    BY <1>6, <2>1, <2>2, FinishStep
<1>7. ASSUME l.eligible, NEW live \in SUBSET Guilds,
             tickets' = tickets \cup EF!Missing(w, l, live),
             answered' = answered \cup EF!Joined(w, l),
             EF!Hold(w, [pass[w] EXCEPT !.read = TRUE, !.live = live, !.todo = live,
                                        !.lead = {l}, !.leads = rest]), EF!Go(w, "post")
      PROVE  CursorInv'
  <2> DEFINE p == [pass[w] EXCEPT !.read = TRUE, !.live = live, !.todo = live,
                                  !.lead = {l}, !.leads = rest]
  <2>1. Keeps
    BY <1>1, <1>7 DEF Keeps, EF!clock
  <2>2. rest \subseteq EF!Snapshots /\ l \in EF!Snapshots /\ EF!UpTo(Batch, rest)
    <3>1. pass[w].leads \subseteq EF!Snapshots /\ EF!UpTo(Batch, pass[w].leads)
      BY <1>1, PassFields
    <3>2. QED
      BY <3>1, UpToPart, Limits
  <2>3. /\ p \in EF!Passes /\ p.next = pass[w].next /\ p.leads = rest /\ p.lead = {l}
        /\ p.cut = pass[w].cut /\ p.todo = live /\ p.tickets = pass[w].tickets
        /\ p.ticket = pass[w].ticket
    BY <1>1, <2>2, PassTypes DEF EF!Passes
  <2>4. EF!Hold(w, p)
    BY <1>7
  <2> HIDE DEF p
  <2>5. EF!UpTo(MaxReplay, p.tickets)
    BY <1>1, <2>3, PassFields
  <2>6. Steps(w, p, "post")
    BY <1>1, <1>7, <2>2, <2>3, <2>4, <2>5 DEF Steps, Delivers, EF!clock, Places
  <2>7. \A g \in Guilds \ live : Done(EF!To(g, l))'
    BY <1>1, <1>7 DEF Done, EF!Missing, EF!Joined
  <2>8. /\ EF!Missing(w, l, live) \subseteq EF!Delivery /\ EF!Joined(w, l) \subseteq EF!Delivery
        /\ \A t \in EF!Missing(w, l, live) : NotNewer(t)
    <3>1. /\ \A g \in Guilds : EF!To(g, l) \in EF!Delivery /\ NotNewer(EF!To(g, l))
          /\ pass[w].copy \subseteq Guilds
      BY <1>1, <1>4, DeliveryOf, PassFields DEF NotNewer
    <3>2. QED
      BY <3>1 DEF EF!Missing, EF!Joined
  <2>9. p.leads \cup p.lead = ReadBy(w) /\ l \notin rest
    BY <1>3, <2>3
  <2>10. \A i \in Items, m \in p.leads \cup p.lead :
              Owed(i) /\ EF!After(EF!Current(i), p.next) /\ ~EF!After(EF!Current(i), m)
                => \/ \E k \in p.leads \cup p.lead : k.item = i /\ k.at = rows[i].at
                   \/ DoneForAll(EF!Current(i))
    BY <1>3, <2>3, <2>9 DEF CursorInv, PassInv, Covered
  <2> HIDE DEF rest
  <2>11. /\ p.leads \cup p.lead \subseteq ReadBy(w) /\ p.cut <= EF!Cutoff
         /\ SettledTo(p.next)
         /\ \A k \in p.leads \cup p.lead : EF!After(k, p.next)
    BY <1>1, <1>3, <2>3, <2>9, AtLeads
  <2>12. PassInv(w)'
    BY <1>3, <1>7, <2>1, <2>3, <2>6, <2>7, <2>9, <2>10, <2>11, LeadsPass
  <2>13. /\ tickets' \subseteq EF!Delivery /\ \A t \in tickets' : t \in tickets \/ NotNewer(t)
         /\ answered' \subseteq EF!Delivery /\ passes' \in 0..MaxPasses
         /\ cursor' \in EF!Lead /\ cursor' = cursor
    BY <1>1, <1>7, <2>8 DEF EF!clock, EF!LaneTypeOK
  <2>14. QED
    BY <2>1, <2>6, <2>12, <2>13, StepOfPass
<1>8. ASSUME NEW live \in (IF pass[w].read THEN {pass[w].live} ELSE SUBSET pass[w].copy)
      PROVE  live \in SUBSET Guilds
  BY <1>1, <1>8, PassFields
<1>9. QED
  BY <1>2, <1>5, <1>6, <1>7, <1>8

(* A delivery of the lead at hand: the lead is passed over after the last, and a
   failure ends the batch before it. *)
LEMMA PostStep ==
    ASSUME EF!Parameters, CursorInv, NEW w \in Workers, EF!Post(w)
    PROVE  CursorInv'
<1>1. /\ EF!LaneTypeOK /\ places[w] = "post"
      /\ UNCHANGED <<EF!clock, rows, opted, cursor, tickets>>
  BY DEF CursorInv, EF!Post
<1>2. PICK l \in pass[w].lead : /\ pass[w].lead = {l} /\ l \notin pass[w].leads
                                /\ l.eligible /\ \A m \in pass[w].leads : EF!After(m, l)
  BY <1>1 DEF CursorInv, PassInv, InHand
<1>3. /\ HasLeads(w) /\ l \in ReadBy(w) /\ ReadBy(w) = pass[w].leads \cup {l}
      /\ pass[w].leads \ {l} = pass[w].leads
  BY <1>1, <1>2 DEF HasLeads, ReadBy
<1>4. /\ l.item \in Items /\ l.at \in EF!Times
      /\ IsLead(l) /\ l.at >= EF!Cutoff
             => \A g \in Guilds \ pass[w].todo : Done(EF!To(g, l))
  BY <1>1, <1>3, PassTypes DEF CursorInv, PassInv, Posted
<1>5. CASE /\ pass[w].todo = {}
           /\ \E k \in pass[w].lead : EF!PassOver(w, k, pass[w].leads)
           /\ UNCHANGED EF!ghosts
  <2>1. EF!PassOver(w, l, pass[w].leads)
    BY <1>2, <1>5
  <2>2. rows[l.item].at = l.at /\ Owed(l.item) => DoneForAll(l)
    BY <1>4, <1>5 DEF Owed, IsLead, DoneForAll
  <2>3. Keeps /\ UNCHANGED <<EF!clock, opted, cursor, tickets, answered, sent>>
    BY <1>1, <1>5 DEF Keeps, EF!clock, EF!ghosts
  <2>4. QED
    BY <1>2, <1>3, <2>1, <2>2, <2>3, PassOverStep
<1>6. ASSUME NEW g \in pass[w].todo,
             answered' = answered \cup {EF!To(g, k) : k \in pass[w].lead},
             NEW k \in pass[w].lead, EF!Decided(w, k),
             EF!Hold(w, [pass[w] EXCEPT !.todo = @ \ {g}]), UNCHANGED places
      PROVE  CursorInv'
  <2> DEFINE p == [pass[w] EXCEPT !.todo = @ \ {g}]
  <2>1. Keeps
    BY <1>1, <1>6 DEF Keeps, EF!clock
  <2>2. /\ pass[w] \in EF!Passes /\ pass[w].todo \subseteq Guilds
        /\ EF!UpTo(Batch, pass[w].leads) /\ EF!UpTo(MaxReplay, pass[w].tickets)
    BY <1>1, PassTypes, PassFields
  <2>3. /\ p \in EF!Passes /\ p.next = pass[w].next /\ p.leads = pass[w].leads
        /\ p.lead = pass[w].lead /\ p.cut = pass[w].cut /\ p.todo = pass[w].todo \ {g}
        /\ p.tickets = pass[w].tickets /\ p.ticket = pass[w].ticket
    BY <2>2 DEF EF!Passes
  <2>4. EF!Hold(w, p) /\ EF!Go(w, "post")
    BY <1>1, <1>6 DEF EF!Go, EF!LaneTypeOK
  <2> HIDE DEF p
  <2>5. Steps(w, p, "post")
    BY <1>1, <1>6, <2>2, <2>3, <2>4 DEF Steps, Delivers, EF!clock, Places
  <2>6. answered' = answered \cup {EF!To(g, l)} /\ EF!To(g, l) \in EF!Delivery
    BY <1>2, <1>4, <1>6, <2>2, DeliveryOf
  <2>7. IsLead(l) /\ l.at >= EF!Cutoff
             => \A h \in Guilds \ p.todo : Done(EF!To(h, l))'
    BY <1>1, <1>4, <2>3, <2>6 DEF Done
  <2>8. \A i \in Items, m \in p.leads \cup p.lead :
              Owed(i) /\ EF!After(EF!Current(i), p.next) /\ ~EF!After(EF!Current(i), m)
                => \/ \E h \in p.leads \cup p.lead : h.item = i /\ h.at = rows[i].at
                   \/ DoneForAll(EF!Current(i))
    BY <1>2, <1>3, <2>3 DEF CursorInv, PassInv, Covered
  <2>9. /\ p.leads \cup p.lead \subseteq ReadBy(w) /\ p.cut <= EF!Cutoff
        /\ SettledTo(p.next)
        /\ \A m \in p.leads \cup p.lead : EF!After(m, p.next)
    BY <1>2, <1>3, <1>6, <2>3, AtLeads
  <2>10. /\ p.lead = {l} /\ l \notin p.leads /\ l.eligible
         /\ \A m \in p.leads : EF!After(m, l)
    BY <1>2, <2>3
  <2>11. \A m \in p.lead : IsLead(m) /\ m.at >= EF!Cutoff
                               => \A h \in Guilds \ p.todo : Done(EF!To(h, m))'
    BY <2>7, <2>10
  <2>12. PassInv(w)'
    BY <1>3, <2>1, <2>3, <2>5, <2>8, <2>9, <2>10, <2>11, LeadsPass
  <2>13. /\ tickets' = tickets /\ answered' \subseteq EF!Delivery /\ passes' = passes
         /\ cursor' = cursor
    BY <1>1, <2>6 DEF EF!clock, EF!LaneTypeOK
  <2>14. QED
    BY <1>1, <2>1, <2>5, <2>12, <2>13, StepOfPass DEF EF!LaneTypeOK
<1>7. CASE EF!AfterFailure(w) /\ UNCHANGED EF!ghosts
  <2>1. /\ pass[w].next \in EF!Lead /\ pass[w].moves \in BOOLEAN /\ SettledTo(pass[w].next)
        /\ EF!Finish(w, pass[w].next, pass[w].moves)
    BY <1>1, <1>3, <1>7, PassTypes, PassFields, AtLeads DEF EF!AfterFailure
  <2>2. Keeps /\ UNCHANGED <<EF!clock, opted, cursor, tickets, answered, sent>>
    BY <1>1, <1>7 DEF Keeps, EF!clock, EF!ghosts
  <2>3. QED
    BY <2>1, <2>2, FinishStep
<1>8. CASE EF!End(w) /\ UNCHANGED EF!ghosts
  BY <1>1, <1>8, EndStep DEF Rest, EF!ghosts, EF!LaneTypeOK
<1>9. QED
  BY <1>5, <1>6, <1>7, <1>8 DEF EF!Post

(* -------------------------- the queue and the clock ---------------------- *)

(* The row of an item changes.  Nothing that was read of it is its proof any more;
   its new proof, if it has one, is read by every pass that may pass it, or was
   written too late. *)
Notices(i, l) ==
    /\ EF!Shift(i)
    /\ UNCHANGED <<now, changes, passes, opted, cursor, tickets, places, pass, sent>>
    /\ \A j \in Items \ {i} : rows'[j] = rows[j]
    /\ rows[i].at <= l.at
    /\ \A k : NotNewer(k) /\ k.item = i => ~IsLead(k)'
    /\ \A d \in answered : d.item # i => d \in answered'
    /\ Owed(i)' => rows[i].at < l.at /\ (EF!Late(l) => \A g \in Guilds : Done(EF!To(g, l))')
LEMMA RowChange ==
    ASSUME EF!Parameters, CursorInv, NEW i \in Items, EF!LaneTypeOK',
           NEW l, l.item = i, l.at = rows'[i].at, Notices(i, l)
    PROVE  CursorInv'
<1>1. EF!LaneTypeOK /\ rows[i].at \in Nat /\ l.at \in Nat /\ Point(l)
  <2>1. EF!LaneTypeOK /\ rows'[i].at \in EF!Times
    BY DEF CursorInv, EF!LaneTypeOK
  <2>2. QED
    BY <2>1, RowTypes, Limits DEF Point
<1>2. /\ UNCHANGED <<now, cursor, tickets, places, pass, sent>> /\ rows[i].at <= l.at
      /\ EF!Cutoff' = EF!Cutoff /\ \A j \in Items \ {i} : rows'[j] = rows[j]
      /\ \A w \in Workers : moved'[w] = moved[w] \cup ({i} \cap EF!Holds(pass[w]))
  BY DEF Notices, EF!Shift, EF!Cutoff
<1>3. /\ \A j \in Items \ {i} : Owed(j)' = Owed(j) /\ EF!Current(j)' = EF!Current(j)
      /\ EF!Current(i)' = [item |-> i, at |-> l.at]
      /\ \A j \in Items : rows[j].at <= rows'[j].at
  <2>1. \A j \in Items : rows[j].at \in Nat
    BY <1>1, RowTypes, Limits
  <2>2. QED
    BY <1>1, <1>2, <2>1 DEF Owed, EF!Current
<1>4. ASSUME NEW k, k.item \in Items, k.at \in EF!Times, NotNewer(k)
      PROVE  /\ NotNewer(k)'
             /\ IsLead(k)' => k.item # i /\ IsLead(k)
             /\ k.item # i => IsLead(k)' = IsLead(k)
  <2>1. k.at \in Nat /\ k.at <= rows[k.item].at /\ rows[k.item].at \in Nat /\ rows'[k.item].at \in Nat
    BY <1>1, <1>2, <1>4, RowTypes, Limits DEF NotNewer
  <2>2. NotNewer(k)'
    BY <1>3, <1>4, <2>1 DEF NotNewer
  <2>3. k.item # i => IsLead(k)' = IsLead(k)
    BY <1>2, <1>4 DEF IsLead
  <2>4. k.item = i => ~IsLead(k)'
    BY <1>4 DEF Notices
  <2>5. QED
    BY <2>2, <2>3, <2>4
<1>5. /\ \A d : d.item # i /\ Done(d) => Done(d)'
      /\ Owed(i)' => rows[i].at < l.at
      /\ Owed(i)' /\ EF!Late(l) => \A g \in Guilds : Done(EF!To(g, l))'
  <2>1. \A d : d.item # i /\ Done(d) => Done(d)'
    BY DEF Notices, Done
  <2>2. QED
    BY <2>1 DEF Notices
(* What was settled up to c is still: the new lead is after c, or late. *)
<1>6. ASSUME NEW c, SettledTo(c), EF!After(l, c) \/ EF!Late(l), NEW j \in Items, Owed(j)',
             NEW m, m = EF!Current(j)', ~EF!After(m, c), NEW g \in Guilds
      PROVE  Done(EF!To(g, m))'
  <2>1. CASE j = i
    <3>1. m.item = l.item /\ m.at = l.at
      BY <1>3, <1>6, <2>1
    <3>2. EF!Late(l)
      BY <1>6, <3>1, AfterSame
    <3>3. EF!To(g, m) = EF!To(g, l)
      BY <3>1, DeliveryOf
    <3>4. QED
      BY <1>5, <1>6, <2>1, <3>2, <3>3
  <2>2. CASE j # i
    <3>1. Done(EF!To(g, m)) /\ m.item = j
      BY <1>1, <1>3, <1>6, <2>2, RowTypes DEF SettledTo, DoneForAll
    <3>2. EF!To(g, m).item # i
      BY <2>2, <3>1, DeliveryOf
    <3>3. QED
      BY <1>5, <3>1, <3>2
  <2>3. QED
    BY <2>1, <2>2
<1>7. ASSUME NEW c, SettledTo(c), EF!After(l, c) \/ EF!Late(l)
      PROVE  SettledTo(c)'
  BY <1>6, <1>7 DEF SettledTo, DoneForAll
<1>8. SettledTo(cursor)'
  BY <1>2, <1>7 DEF CursorInv, EF!Late, SettledTo
<1>9. TicketsInStep'
  <2>1. \A t \in tickets : t.item \in Items /\ t.at \in EF!Times /\ NotNewer(t)
    BY <1>1 DEF CursorInv, TicketsInStep, EF!LaneTypeOK, EF!Delivery
  <2>2. QED
    BY <1>2, <1>4, <2>1 DEF TicketsInStep
<1>10. ASSUME NEW w \in Workers
       PROVE  PassInv(w)'
  <2>1. /\ \A k \in ReadBy(w) : /\ k.item \in Items /\ k.at \in EF!Times /\ NotNewer(k) /\ Point(k)
                                /\ IsLead(k) => k.eligible
                                /\ k.item = i => i \in moved'[w]
        /\ \A t \in pass[w].tickets \cup pass[w].ticket :
              t.item \in Items /\ t.at \in EF!Times /\ NotNewer(t)
        /\ \A t \in pass[w].ticket : t.item = i => i \in moved'[w]
        /\ pass'[w] = pass[w] /\ places'[w] = places[w] /\ ReadBy(w)' = ReadBy(w)
        /\ HasLeads(w)' = HasLeads(w) /\ moved[w] \subseteq moved'[w]
    BY <1>1, <1>2, PassTypes DEF CursorInv, PassInv, HeldInStep, ReadBy, HasLeads, EF!Holds
  <2>2. HeldInStep(w)'
    <3>1. pass[w].cut <= EF!Cutoff
      BY DEF CursorInv, PassInv, HeldInStep
    <3>2. \A t \in pass[w].tickets \cup pass[w].ticket : NotNewer(t)'
      BY <1>4, <2>1
    <3>3. \A k \in ReadBy(w) : NotNewer(k)' /\ (IsLead(k)' => k.eligible)
      BY <1>4, <2>1
    <3>4. QED
      BY <1>2, <2>1, <3>1, <3>2, <3>3 DEF HeldInStep
  <2>3. Batched(w)' /\ InHand(w)'
    BY <2>1 DEF CursorInv, PassInv, Batched, InHand
  <2>4. NextSettled(w)'
    <3>1. SUFFICES ASSUME places[w] \notin {"idle", "state"}
                   PROVE  \E c : c = pass[w].next /\ SettledTo(c)'
      BY <2>1 DEF NextSettled, SettledTo
    <3>2. SettledTo(pass[w].next) /\ (EF!After(l, pass[w].next) \/ EF!Late(l))
      BY <3>1 DEF CursorInv, PassInv, NextSettled, EF!Late, EF!BehindPass
    <3>3. QED
      BY <1>7, <3>2
  <2>5. Covered(w)'
    <3>1. SUFFICES ASSUME HasLeads(w), NEW j \in Items, NEW m \in ReadBy(w), Owed(j)',
                          NEW k, k = EF!Current(j)', EF!After(k, pass[w].next), ~EF!After(k, m)
                   PROVE  \/ \E h \in ReadBy(w) : h.item = j /\ h.at = rows'[j].at
                          \/ \A g \in Guilds : Done(EF!To(g, k))'
      BY <2>1 DEF Covered, DoneForAll
    <3>2. CASE j = i
      <4>1. CASE EF!Late(l)
        <5>1. k.item = l.item /\ k.at = l.at
          BY <1>3, <3>1, <3>2
        <5>2. \A g \in Guilds : EF!To(g, k) = EF!To(g, l)
          BY <5>1, DeliveryOf
        <5>3. QED
          BY <1>5, <3>1, <3>2, <4>1, <5>2
      <4>2. CASE ~EF!Late(l)
        <5>1. k.item = l.item /\ k.at = l.at
          BY <1>3, <3>1, <3>2
        <5>2. ~EF!After(m, l) /\ ~EF!After(l, m)
          BY <3>1, <4>2, <5>1, AfterSame DEF EF!Late, EF!BehindPass, ReadBy, HasLeads
        <5>3. m.item = i /\ m.at = l.at
          BY <1>1, <2>1, <3>1, <5>2, AfterTotal
        <5>4. m.at <= rows[i].at
          BY <2>1, <3>1, <5>3 DEF NotNewer
        <5>5. QED
          BY <1>1, <1>5, <3>1, <3>2, <5>3, <5>4
      <4>3. QED
        BY <4>1, <4>2
    <3>3. CASE j # i
      <4>1. Owed(j) /\ k = EF!Current(j) /\ rows'[j] = rows[j] /\ k.item = j
        BY <1>1, <1>2, <1>3, <3>1, <3>3, RowTypes
      <4>2. \/ \E h \in ReadBy(w) : h.item = j /\ h.at = rows[j].at
            \/ DoneForAll(EF!Current(j))
        BY <3>1, <4>1 DEF CursorInv, PassInv, Covered
      <4>3. ASSUME DoneForAll(EF!Current(j)), NEW g \in Guilds
            PROVE  Done(EF!To(g, k))'
        <5>1. Done(EF!To(g, k)) /\ EF!To(g, k).item # i
          BY <3>3, <4>1, <4>3, DeliveryOf DEF DoneForAll
        <5>2. QED
          BY <1>5, <5>1
      <4>4. QED
        BY <4>1, <4>2, <4>3
    <3>4. QED
      BY <3>2, <3>3
  <2>6. Posted(w)'
    <3>1. SUFFICES ASSUME places[w] = "post", NEW k \in pass[w].lead, IsLead(k)',
                          k.at >= EF!Cutoff, NEW g \in Guilds \ pass[w].todo
                   PROVE  Done(EF!To(g, k))'
      BY <1>2, <2>1 DEF Posted
    <3>2. k.item # i /\ IsLead(k)
      BY <1>4, <2>1, <3>1 DEF ReadBy
    <3>3. Done(EF!To(g, k)) /\ EF!To(g, k).item # i
      BY <3>1, <3>2, DeliveryOf DEF CursorInv, PassInv, Posted
    <3>4. QED
      BY <1>5, <3>3
  <2>7. Cleared(w)'
    <3>1. SUFFICES ASSUME places[w] = "clear", NEW t \in pass[w].ticket, IsLead(t)'
                   PROVE  t \in answered'
      BY <2>1 DEF Cleared
    <3>2. t.item # i /\ IsLead(t)
      BY <1>4, <2>1, <3>1
    <3>3. t \in answered
      BY <3>1, <3>2 DEF CursorInv, PassInv, Cleared
    <3>4. QED
      BY <3>2, <3>3 DEF Notices
  <2>8. Shown(w)'
    <3>1. ASSUME places[w] = "replay", NEW t \in pass[w].ticket
          PROVE  IsLead(t)' \/ t.item \in moved'[w]
      <4>1. IsLead(t) \/ t.item \in moved[w]
        BY <3>1 DEF CursorInv, PassInv, Shown
      <4>2. QED
        BY <1>4, <2>1, <3>1, <4>1
    <3>2. ASSUME HasLeads(w), NEW k \in ReadBy(w)
          PROVE  (k.eligible => IsLead(k)') \/ k.item \in moved'[w]
      <4>1. (k.eligible => IsLead(k)) \/ k.item \in moved[w]
        BY <3>2, AtLeads
      <4>2. QED
        BY <1>4, <2>1, <3>2, <4>1
    <3>3. QED
      BY <2>1, <3>1, <3>2 DEF Shown
  <2>9. Ordered(w)'
    <3>1. \A j \in Items : /\ sent[w][j] <= rows[j].at /\ sent[w][j] \in Nat /\ rows[j].at \in Nat
                           /\ rows'[j].at \in Nat
      BY <1>1, <1>2, RowTypes, Limits DEF CursorInv, PassInv, Ordered, EF!LaneTypeOK
    <3>2. \A j \in Items : sent[w][j] <= rows'[j].at
      BY <1>3, <3>1
    <3>3. QED
      BY <1>2, <2>1, <3>2 DEF CursorInv, PassInv, Ordered
  <2>10. QED
    BY <2>2, <2>3, <2>4, <2>5, <2>6, <2>7, <2>8, <2>9 DEF PassInv
<1>11. QED
  BY <1>8, <1>9, <1>10 DEF CursorInv

(* A new verification of an item. *)
LEMMA WriteStep ==
    ASSUME EF!Parameters, CursorInv, NEW i \in Items, NEW at \in 1..MaxTime, EF!Write(i, at)
    PROVE  CursorInv'
<1> DEFINE l == [item |-> i, at |-> at]
<1>1. /\ EF!LaneTypeOK /\ rows[i].at < at /\ rows[i].at \in Nat /\ at \in EF!Times /\ at \in Nat
  BY RowTypes, Limits DEF CursorInv, EF!Write, EF!Times
<1>2. l.item = i /\ l.at = at /\ \A g \in Guilds : EF!To(g, l) \in EF!Delivery
  BY <1>1, DeliveryOf
<1>3. /\ UNCHANGED <<now, changes, passes, opted, cursor, tickets, places, pass, sent>>
      /\ EF!Shift(i) /\ checks' = checks + 1 /\ checks < MaxChecks
      /\ answered' = {d \in answered : d.item # i}
                     \cup (IF EF!Late(l) THEN {EF!To(g, l) : g \in Guilds} ELSE {})
  BY DEF EF!Write
<1>4. PICK status \in EF!RowStates :
         rows' = [rows EXCEPT ![i] = [at |-> at, status |-> status]]
  BY DEF EF!Write
<1>5. /\ rows'[i].at = at /\ \A j \in Items \ {i} : rows'[j] = rows[j]
      /\ rows' \in [Items -> [at : EF!Times, status : EF!RowStates]]
  BY <1>1, <1>4 DEF EF!LaneTypeOK
<1> HIDE DEF l
<1>6. EF!LaneTypeOK'
  <2>1. answered' \subseteq EF!Delivery /\ checks' \in 0..MaxChecks
    BY <1>1, <1>2, <1>3, Limits DEF EF!LaneTypeOK
  <2>2. moved' \in [Workers -> SUBSET Items]
    BY <1>1, <1>3 DEF EF!LaneTypeOK, EF!Shift
  <2>3. QED
    BY <1>1, <1>3, <1>5, <2>1, <2>2 DEF EF!LaneTypeOK
<1>7. ASSUME NEW k, NotNewer(k), k.item = i
      PROVE  ~IsLead(k)'
  BY <1>1, <1>5, <1>7 DEF NotNewer, IsLead
<1>8. EF!Late(l) => \A g \in Guilds : Done(EF!To(g, l))'
  BY <1>3 DEF Done
<1>9. Notices(i, l)
  BY <1>1, <1>2, <1>3, <1>5, <1>7, <1>8 DEF Notices
<1>10. QED
  BY <1>2, <1>5, <1>6, <1>9, RowChange

(* The evidence of an item is withdrawn: it has no proof until it is verified. *)
LEMMA WithdrawStep ==
    ASSUME EF!Parameters, CursorInv, NEW i \in Items, EF!Withdraw(i)
    PROVE  CursorInv'
<1> DEFINE l == EF!Current(i)
<1>1. /\ EF!LaneTypeOK /\ rows[i].at \in Nat /\ l.item = i /\ l.at = rows[i].at
      /\ EF!Shift(i) /\ rows' = [rows EXCEPT ![i].status = "none"]
      /\ UNCHANGED <<EF!clock, opted, cursor, tickets, places, pass, answered, sent>>
  BY RowTypes, Limits DEF CursorInv, EF!Withdraw, EF!ghosts
<1>2. /\ rows'[i].at = rows[i].at /\ rows'[i].status = "none"
      /\ \A j \in Items \ {i} : rows'[j] = rows[j]
      /\ rows' \in [Items -> [at : EF!Times, status : EF!RowStates]]
  BY <1>1 DEF EF!LaneTypeOK, EF!RowStates
<1> HIDE DEF l
<1>3. moved' \in [Workers -> SUBSET Items]
  BY <1>1 DEF EF!LaneTypeOK, EF!Shift
<1>4. EF!LaneTypeOK'
  BY <1>1, <1>2, <1>3 DEF EF!LaneTypeOK, EF!clock
<1>5. Notices(i, l)
  BY <1>1, <1>2 DEF Notices, EF!clock, Owed, IsLead
<1>6. QED
  BY <1>1, <1>2, <1>4, <1>5, RowChange

(* Time passes: leads that were owed may be so no more. *)
LEMMA TimeStep ==
    ASSUME EF!Parameters, CursorInv, EF!Tick
    PROVE  CursorInv'
<1>1. EF!LaneTypeOK /\ UNCHANGED <<checks, changes, passes, rows, opted, cursor, tickets, places, pass,
                               answered, moved, sent>>
  BY DEF CursorInv, EF!Tick, EF!held, EF!ghosts
<1>2. now' \in EF!Times /\ EF!Cutoff \in Nat /\ EF!Cutoff' \in Nat /\ EF!Cutoff <= EF!Cutoff'
  BY <1>1, CutoffType, Limits DEF EF!LaneTypeOK, EF!Tick, EF!Times, EF!Cutoff
<1>3. EF!LaneTypeOK'
  BY <1>1, <1>2 DEF EF!LaneTypeOK
<1>4. /\ \A d : /\ NotNewer(d)' = NotNewer(d) /\ IsLead(d)' = IsLead(d) /\ Done(d)' = Done(d)
      /\ \A i \in Items : EF!Current(i)' = EF!Current(i) /\ (Owed(i)' => Owed(i))
  <2>1. \A i \in Items : rows[i].at \in Nat
    BY <1>1, RowTypes, Limits
  <2>2. \A i \in Items : rows[i].at >= EF!Cutoff' => rows[i].at >= EF!Cutoff
    BY <1>2, <2>1
  <2>3. \A i \in Items : Owed(i)' => Owed(i)
    BY <1>1, <2>2 DEF Owed
  <2>4. QED
    BY <1>1, <2>3 DEF NotNewer, IsLead, Done, EF!Current
<1>5. ASSUME NEW c, SettledTo(c) PROVE SettledTo(c)'
  BY <1>1, <1>4, <1>5 DEF SettledTo, DoneForAll, Done
<1>6. SettledTo(cursor)' /\ TicketsInStep'
  BY <1>1, <1>4, <1>5 DEF CursorInv, TicketsInStep, SettledTo
<1>7. ASSUME NEW w \in Workers
      PROVE  PassInv(w)'
  <2>1. pass[w].cut \in Nat /\ pass[w].cut <= EF!Cutoff
    BY <1>1, PassTypes DEF CursorInv, PassInv, HeldInStep
  <2>2. HeldInStep(w)'
    <3>1. pass[w].cut <= EF!Cutoff'
      BY <1>2, <2>1
    <3>2. QED
      BY <1>1, <1>4, <3>1 DEF CursorInv, PassInv, HeldInStep, ReadBy
  <2>3. Batched(w)' /\ InHand(w)' /\ Cleared(w)' /\ Shown(w)' /\ Ordered(w)'
    BY <1>1, <1>4 DEF CursorInv, PassInv, Batched, InHand, Cleared, Shown, Ordered, ReadBy,
                      HasLeads
  <2>4. NextSettled(w)'
    BY <1>1, <1>5 DEF CursorInv, PassInv, NextSettled, SettledTo
  <2>5. Covered(w)'
    BY <1>1, <1>4 DEF CursorInv, PassInv, Covered, ReadBy, HasLeads, DoneForAll, Done
  <2>6. Posted(w)'
    <3>1. SUFFICES ASSUME places[w] = "post", NEW k \in pass[w].lead, IsLead(k),
                          k.at >= EF!Cutoff', NEW g \in Guilds \ pass[w].todo
                   PROVE  Done(EF!To(g, k))
      BY <1>1, <1>4 DEF Posted, Done
    <3>2. k.at \in Nat
      BY <1>1, <3>1, PassTypes, Limits DEF ReadBy
    <3>3. k.at >= EF!Cutoff
      BY <1>2, <3>1, <3>2
    <3>4. QED
      BY <3>1, <3>3 DEF CursorInv, PassInv, Posted
  <2>7. QED
    BY <2>2, <2>3, <2>4, <2>5, <2>6 DEF PassInv
<1>8. QED
  BY <1>3, <1>6, <1>7 DEF CursorInv

(* At first nothing was verified, and nothing is owed. *)
LEMMA CursorInit == ASSUME EF!Parameters, EF!Init PROVE CursorInv
<1>1. now \in EF!Times /\ 1 \in EF!Times /\ EF!NoLead \in EF!Lead /\ EF!NoPass \in EF!Passes
  BY Limits, NoPassTypes DEF EF!Init
<1>2. \A w \in Workers : /\ pass[w] = EF!NoPass /\ places[w] = "idle"
                         /\ EF!UpTo(Batch, pass[w].leads) /\ EF!UpTo(MaxReplay, pass[w].tickets)
  <2>1. \A w \in Workers : pass[w] = EF!NoPass /\ places[w] = "idle"
    BY DEF EF!Init
  <2>2. EF!NoPass.leads = {} /\ EF!NoPass.tickets = {}
    BY NoPassTypes
  <2>3. EF!UpTo(Batch, {}) /\ EF!UpTo(MaxReplay, {})
    BY UpToNone, Limits
  <2>4. QED
    BY <2>1, <2>2, <2>3
<1>3. EF!LaneTypeOK
  <2>1. rows \in [Items -> [at : EF!Times, status : EF!RowStates]]
    <3>1. rows = [i \in Items |-> [at |-> 0, status |-> "none"]] /\ 0 \in EF!Times
      BY Limits DEF EF!Init
    <3>2. QED
      BY <3>1 DEF EF!RowStates
  <2>2. /\ 0 \in 0..MaxChecks /\ 0 \in 0..MaxChanges /\ 0 \in 0..MaxPasses
        /\ sent \in [Workers -> [Items -> EF!Times]] /\ moved \in [Workers -> SUBSET Items]
    <3>1. 0 \in EF!Times /\ sent = [w \in Workers |-> [i \in Items |-> 0]]
          /\ moved = [w \in Workers |-> {}]
      BY Limits DEF EF!Init
    <3>2. [i \in Items |-> 0] \in [Items -> EF!Times]
      BY <3>1
    <3>3. QED
      BY <3>1, <3>2, Limits
  <2>3. QED
    BY <1>1, <1>2, <2>1, <2>2 DEF EF!Init, EF!LaneTypeOK
<1>4. TicketsInStep
  BY DEF EF!Init, TicketsInStep
<1>5. SettledTo(cursor)
  BY DEF EF!Init, SettledTo, Owed
<1>6. ASSUME NEW w \in Workers
      PROVE  PassInv(w)
  <2>1. /\ pass[w].leads = {} /\ pass[w].lead = {} /\ pass[w].tickets = {}
        /\ pass[w].ticket = {} /\ pass[w].cut = 0
    BY <1>2, NoPassTypes
  <2>2. EF!Cutoff \in Nat
    BY <1>1, CutoffType
  <2>3. \A i \in Items : sent[w][i] <= rows[i].at
    BY DEF EF!Init
  <2>4. QED
    BY <1>2, <2>1, <2>2, <2>3 DEF PassInv, HeldInStep, Batched, InHand, NextSettled, Covered,
                                  Posted, Cleared, Shown, Ordered, ReadBy, HasLeads
<1>7. QED
  BY <1>3, <1>4, <1>5, <1>6 DEF CursorInv

(* A step of nobody changes nothing. *)
LEMMA StutterStep == ASSUME EF!Parameters, CursorInv, UNCHANGED EF!laneVars PROVE CursorInv'
<1>1. UNCHANGED <<now, checks, changes, passes, rows, opted, cursor, tickets, places, pass,
                  answered, moved, sent>>
  BY DEF EF!laneVars
<1>2. /\ EF!Cutoff' = EF!Cutoff
      /\ \A i : EF!Current(i)' = EF!Current(i) /\ Owed(i)' = Owed(i)
      /\ \A d : /\ NotNewer(d)' = NotNewer(d) /\ IsLead(d)' = IsLead(d) /\ Done(d)' = Done(d)
  BY <1>1 DEF EF!Cutoff, EF!Current, Owed, NotNewer, IsLead, Done
<1>3. Keeps
  BY <1>1 DEF Keeps
<1>4. EF!LaneTypeOK'
  BY <1>1 DEF CursorInv, EF!LaneTypeOK
<1>5. QED
  BY <1>1, <1>3, <1>4, StepKeeps

(* Every step of the queue, the settings and the passes keeps the invariant. *)
LEMMA CursorNext ==
    ASSUME EF!Parameters, CursorInv, [EF!Next]_EF!laneVars
    PROVE  CursorInv'
<1>1. ASSUME NEW w \in Workers, EF!Pass(w)
      PROVE  CursorInv'
  BY <1>1, BeginStep, ReadCursorStep, ExpiryStep, CheckStep, ReplayStep, ClearStep,
     SelectStep, RowStep, PostStep, SaveStep, PassCrashStep DEF EF!Pass
<1>2. QED
  BY <1>1, TimeStep, WriteStep, WithdrawStep, OptInStep, OptOutStep, StutterStep DEF EF!Next

(* What the constants of the lane are assumed to be. *)
LEMMA LaneParameters == EF!Parameters
BY ExtremeAssumption
   DEF Parameters, EF!Parameters, IsFiniteSet, EF!IsFiniteSet

(* For every set of processes, servers and items and every limit: the invariant of
   the cursor, the tickets and the passes holds in every state. *)
THEOREM ExtremeInvariance == EF!Spec => []CursorInv
<1>1. EF!Init => CursorInv
  BY LaneParameters, CursorInit
<1>2. CursorInv /\ [EF!Next]_EF!laneVars => CursorInv'
  BY LaneParameters, CursorNext
<1>3. QED
  BY <1>1, <1>2, PTL DEF EF!Spec

(* For every set of processes, servers and items and every limit, every state has
   well-typed rows, cursor, tickets and passes, and a pass holds no more leads and
   tickets than BATCH_LIMIT and MAX_REPLAY_PER_CYCLE let it read. *)
THEOREM ExtremeTypeCorrect == EF!Spec => []LaneTypeOK
<1>1. ASSUME EF!LaneTypeOK PROVE LaneTypeOK
  <2>1. \A n, s : EF!UpTo(n, s) => UpTo(n, s)
    BY DEF EF!UpTo, UpTo, EF!IsFiniteSet, IsFiniteSet, EF!Cardinality, Cardinality
  <2>2. /\ EF!Times = Times /\ EF!Lead = Lead /\ EF!Delivery = Delivery
        /\ EF!Passes = Passes /\ EF!RowStates = RowStates
    BY DEF EF!RowStates, RowStates, EF!Times, Times, EF!Lead, Lead, EF!Delivery, Delivery, EF!Snapshots, Snapshots,
           EF!Passes, Passes
  <2>3. QED
    BY <1>1, <2>1, <2>2 DEF EF!LaneTypeOK, LaneTypeOK
<1>2. CursorInv => LaneTypeOK
  BY <1>1 DEF CursorInv
<1>3. QED
  BY <1>2, ExtremeInvariance, PTL

(* "Persist missing recipients before advancing the global cursor": however
   passes of several processes, crashes, failed deliveries, settings commands
   and new verifications interleave, the cursor never passes a current, fresh
   lead that a server wants and has neither a decision nor a ticket for. *)
THEOREM NoRecipientLost == EF!Spec => []PassedIsSettledOrPending
<1>1. CursorInv => PassedIsSettledOrPending
  <2>1. SUFFICES ASSUME CursorInv, NEW g \in opted, NEW i \in Items,
                        rows[i].status = "lead", rows[i].at >= Cutoff, ~After(Current(i), cursor)
                 PROVE  To(g, Current(i)) \in answered \/ To(g, Current(i)) \in tickets
    BY DEF PassedIsSettledOrPending
  <2>2. Owed(i) /\ ~EF!After(EF!Current(i), cursor)
    BY <2>1 DEF Owed, EF!Cutoff, Cutoff, EF!After, After, EF!Current, Current
  <2>3. g \in Guilds
    BY <2>1 DEF CursorInv, EF!LaneTypeOK
  <2>4. Done(EF!To(g, EF!Current(i)))
    BY <2>1, <2>2, <2>3 DEF CursorInv, SettledTo, DoneForAll
  <2>5. QED
    BY <2>4 DEF Done, EF!To, To, EF!Current, Current
<1>2. QED
  BY <1>1, ExtremeInvariance, PTL

(* What a step sends: the ticket or the lead at hand. *)
LEMMA SentFromHand ==
    ASSUME EF!Parameters, CursorInv, NEW w \in Workers, NEW d \in EF!Sent(w)
    PROVE  d.item \in Items /\ (IsLead(d) \/ d.item \in moved[w]) /\ sent[w][d.item] <= d.at
<1>1. CASE places[w] = "replay" /\ d \in pass[w].ticket
  BY <1>1, PassTypes DEF CursorInv, PassInv, Shown, Ordered
<1>2. CASE places[w] = "post" /\ d \in pass[w].lead
  <2>1. d \in ReadBy(w) /\ HasLeads(w) /\ d.eligible /\ d.item \in Items
    BY <1>2, PassTypes DEF ReadBy, HasLeads, CursorInv, PassInv, InHand
  <2>2. QED
    BY <2>1 DEF CursorInv, PassInv, Shown, Ordered
<1>3. QED
  BY <1>1, <1>2 DEF EF!Sent

(* "Never replay on expired or changed exact-price evidence", "never send stale
   proof": whatever a process sends, of a batch or of a ticket, was the item's
   proof when this pass looked at it, and no process sends an older proof of an
   item after a newer one that it delivered, however verifications, withdrawals,
   other processes and its own restarts interleave. *)
THEOREM NothingStaleIsSent == EF!Spec => SentInOrder
<1>1. ASSUME NEW w, NEW d \in Sent(w)
      PROVE  d \in EF!Sent(w)
  BY <1>1 DEF Sent, EF!Sent
<1>2. ASSUME CursorInv, NEW d, d.item \in Items, IsLead(d)
      PROVE  Proven(d)
  <2>1. EF!Proven(d)
    BY <1>2, ProofIsLead DEF CursorInv
  <2>2. QED
    BY <2>1 DEF EF!Proven, Proven
<1>3. CursorInv => \A w \in Workers : \A d \in Sent(w) :
          /\ Proven(d) \/ d.item \in moved[w]
          /\ sent[w][d.item] <= d.at
  BY <1>1, <1>2, LaneParameters, SentFromHand
<1>4. QED
  BY <1>3, ExtremeInvariance, PTL DEF SentInOrder
=============================================================================
