------------------------- MODULE TargetWatch_proofs -------------------------
(***************************************************************************)
(* Theorems about TargetWatch, for every number of watchers, every set of    *)
(* offers and every choice of the delays.                                    *)
(***************************************************************************)
EXTENDS TargetWatch, TLAPS

(* What keeps the age of an observation in range: it is made after the lease. *)
ClaimsInStep ==
    \A w \in Workers :
        /\ pc[w] \in {"acquire", "product"} => claim[w].age = 0
        /\ pc[w] \in Polling => claim[w].age <= hold[w]
Typed == TypeOK /\ ClaimsInStep

-----------------------------------------------------------------------------
(* The assumptions on the constants, one by one. *)
LEMMA Constants ==
    /\ PromptWork \in Nat /\ MaxChanges \in Nat /\ MaxFaults \in Nat
    /\ Lease \in Nat \ {0} /\ Delays \subseteq Nat
BY NumberAssumption DEF NumberAssumption, Delays

(* Amounts are numbers. *)
LEMMA Numbers == Amounts \subseteq Nat /\ 0 \in Amounts /\ "none" \in Promos
BY OfferAssumption DEF OfferAssumption, Amounts, Promos

(* Offers are observations with a price. *)
LEMMA Offered == \A o \in Offers : o \in Observations /\ o.price # 0
<1>1. SUFFICES ASSUME NEW o \in Offers PROVE o \in Observations /\ o.price # 0
  OBVIOUS
<1>2. o \in [price : Nat \ {0}, regular : Nat, stock : Stocks, promo : Promos]
  BY OfferAssumption DEF OfferAssumption
<1>3. o.price \in Amounts /\ o.regular \in Amounts
  BY DEF Amounts
<1>4. QED
  BY <1>2, <1>3 DEF Observations

(* The values a claim, a row and a lease start from are typed. *)
LEMMA Empty ==
    /\ NoBaseline \in Baselines /\ NoKey \in Keys /\ NoOffer \in Observations
    /\ NoClaim \in Claims /\ NoLease \in Leases
BY Constants, Numbers DEF NoBaseline, Baselines, NoKey, Keys, NoOffer, Observations,
   NoClaim, Claims, NoLease, Leases, Availability, Stocks

(* What is derived from a baseline and an observation is typed. *)
LEMMA Derived ==
    ASSUME NEW base \in Baselines, NEW o \in Observations
    PROVE  /\ Reference(base, o) \in Amounts /\ Available(o) \in Availability
           /\ EventKey(base, o) \in Keys /\ NextCheck(base, o) \in Delays
<1>1. Reference(base, o) \in Amounts
  BY Numbers DEF Reference, Baselines, Observations
<1>2. Available(o) \in Availability
  BY DEF Available, Availability, Observations, Stocks
<1>3. EventType(base, o) \in EventTypes \cup {"none"}
  BY DEF EventType, EventTypes
<1>4. EventKey(base, o) \in Keys
  BY <1>1, <1>2, <1>3, Empty DEF EventKey, Keys, Observations
<1>5. NextCheck(base, o) \in Delays
  BY DEF NextCheck, Delays
<1>6. QED
  BY <1>1, <1>2, <1>4, <1>5

(* A schedule counts down to zero. *)
LEMMA Countdown ==
    ASSUME NEW ticks \in UNION {0 .. d : d \in Delays}
    PROVE  Left(ticks) \in UNION {0 .. d : d \in Delays}
<1>1. PICK d \in Delays : ticks \in 0 .. d
  OBVIOUS
<1>2. Left(ticks) \in 0 .. d
  BY <1>1, Constants DEF Left
<1>3. QED
  BY <1>2

(* Every delay is a schedule. *)
LEMMA Schedules == \A d \in Delays : d \in UNION {0 .. e : e \in Delays}
                                     /\ 0 \in UNION {0 .. e : e \in Delays}
BY Constants

-----------------------------------------------------------------------------
LEMMA TypedInit == Init => Typed
<1> SUFFICES ASSUME Init PROVE Typed
  OBVIOUS
<1>1. 0 \in UNION {0 .. e : e \in Delays}
  <2>1. NormalDelay \in Delays
    BY DEF Delays
  <2>2. QED
    BY <2>1, Schedules
<1>2. row \in Rows
  BY <1>1, Empty, Constants DEF Init, Rows
<1>3. TypeOK
  BY <1>2, Empty, Constants, OfferAssumption DEF Init, TypeOK
<1>4. ClaimsInStep
  BY Empty DEF Init, ClaimsInStep, Polling
<1>5. QED
  BY <1>3, <1>4 DEF Typed

(* A pass that is recorded or fails drops its claim and polls on. *)
LEMMA Forgotten ==
    ASSUME Typed, NEW w \in Workers, NEW from \in Polling,
           NEW to \in {"finish", "failed"},
           Goto(w, from, to), Forget(w), UNCHANGED <<world, row, lease, hold>>,
           changes' \in 0 .. MaxChanges, faults' \in 0 .. MaxFaults
    PROVE  Typed'
<1> USE DEF Typed, TypeOK
<1>1. claim' \in [Workers -> Claims] /\ claim'[w] = NoClaim
      /\ \A u \in Workers \ {w} : claim'[u] = claim[u]
  BY Empty DEF Forget
<1>2. pc' \in [Workers -> {"idle", "acquire"} \cup Polling] /\ pc'[w] = to
      /\ \A u \in Workers \ {w} : pc'[u] = pc[u]
  BY DEF Goto, Polling
<1>3. NoClaim.age = 0 /\ 0 <= hold[w] /\ to # "acquire"
  BY Constants DEF NoClaim
<1>4. ClaimsInStep'
  BY <1>1, <1>2, <1>3 DEF ClaimsInStep
<1>5. QED
  BY <1>1, <1>2, <1>4

LEMMA TypedStep == Typed /\ [Next]_vars => Typed'
<1> SUFFICES ASSUME Typed, [Next]_vars PROVE Typed'
  OBVIOUS
<1> USE DEF Typed, TypeOK
<1>1. ASSUME NEW w \in Workers, SelectDue(w) PROVE Typed'
  <2>1. row.base \in Baselines
    BY DEF Rows
  <2>2. [NoClaim EXCEPT !.copy = row.base] \in Claims
        /\ [NoClaim EXCEPT !.copy = row.base].age = 0
    BY <2>1, Empty DEF NoClaim, Claims
  <2>3. QED
    BY <1>1, <2>2 DEF SelectDue, Goto, boundVars, ClaimsInStep, Polling
<1>2. ASSUME NEW w \in Workers, Acquire(w) PROVE Typed'
  <2>1. claim' \in [Workers -> Claims] /\ hold' \in [Workers -> 0 .. PromptWork]
    BY <1>2, Empty, Constants DEF Acquire, Drop, Forget
  <2>2. pc[w] = "acquire" /\ pc'[w] \in {"product", "idle"}
        /\ (pc'[w] = "product" => claim'[w] = claim[w] /\ hold'[w] = 0)
    BY <1>2 DEF Acquire, Goto
  <2>3. /\ lease' \in Leases /\ (pc'[w] = "product" => claim[w].age = 0)
        /\ \A u \in Workers \ {w} : claim'[u] = claim[u] /\ hold'[u] = hold[u]
    BY <1>2, <2>2, Constants DEF Acquire, Drop, Forget, Leases, ClaimsInStep
  <2>4. pc' = [pc EXCEPT ![w] = pc'[w]]
    BY <1>2 DEF Acquire, Goto
  <2>5. ClaimsInStep'
    BY <2>2, <2>3, <2>4 DEF ClaimsInStep, Polling
  <2>6. QED
    BY <1>2, <2>1, <2>2, <2>3, <2>4, <2>5 DEF Acquire, boundVars, Polling
<1>3. ASSUME NEW w \in Workers, FetchProduct(w) PROVE Typed'
  <2> DEFINE page == [world EXCEPT !.stock = "unknown"]
  <2>1. page \in Observations
    BY Offered DEF Observations, Stocks
  <2>4. claim'[w] = [[claim[w] EXCEPT !.offer = page] EXCEPT !.age = 0]
    BY <1>3 DEF FetchProduct
  <2> HIDE DEF page
  <2>2. claim'[w] \in Claims /\ claim'[w].age = 0
    <3> DEFINE paged == [claim[w] EXCEPT !.offer = page]
    <3>1. paged \in Claims
      BY <2>1 DEF Claims
    <3>2. 0 \in 0 .. PromptWork
      BY Constants
    <3> HIDE DEF paged
    <3>3. [paged EXCEPT !.age = 0] \in Claims /\ [paged EXCEPT !.age = 0].age = 0
      BY <3>1, <3>2 DEF Claims
    <3>4. QED
      BY <2>4, <3>3 DEF paged
  <2>3. claim' \in [Workers -> Claims]
    BY <1>3, <2>2 DEF FetchProduct
  <2>5. QED
    BY <1>3, <2>2, <2>3 DEF FetchProduct, Goto, boundVars, ClaimsInStep, Polling
<1>4. ASSUME NEW w \in Workers, FetchStock(w) PROVE Typed'
  <2>1. [claim[w].offer EXCEPT !.stock = world.stock] \in Observations
    BY Offered DEF Observations, Claims
  <2>2. claim'[w] \in Claims /\ claim'[w].age = claim[w].age
    BY <1>4, <2>1 DEF FetchStock, Claims
  <2>3. claim' \in [Workers -> Claims]
    BY <1>4, <2>2 DEF FetchStock
  <2>4. QED
    BY <1>4, <2>2, <2>3 DEF FetchStock, Goto, boundVars, ClaimsInStep, Polling
<1>5. ASSUME NEW w \in Workers, ConfirmOffer(w) PROVE Typed'
  <2>1. CASE Agrees(claim[w].offer)
    <3>1. claim'[w] \in Claims /\ claim'[w].age = 0
      BY <1>5, <2>1, Offered, Constants DEF ConfirmOffer, Claims
    <3>2. claim' \in [Workers -> Claims]
      BY <1>5, <2>1, <3>1 DEF ConfirmOffer
    <3>3. QED
      BY <1>5, <2>1, <3>1, <3>2 DEF ConfirmOffer, Goto, boundVars, ClaimsInStep, Polling
  <2>2. CASE ~Agrees(claim[w].offer)
    <3>1. "confirm" \in Polling
      BY DEF Polling
    <3>2. QED
      BY <1>5, <2>2, <3>1, Forgotten DEF ConfirmOffer, boundVars
  <2>3. QED
    BY <2>1, <2>2
<1>6. ASSUME NEW w \in Workers, CheckLease(w) PROVE Typed'
  <2>1. CASE Owns(w)
    BY <1>6, <2>1 DEF CheckLease, Goto, boundVars, ClaimsInStep, Polling
  <2>2. CASE ~Owns(w)
    <3>1. "check" \in Polling
      BY DEF Polling
    <3>2. QED
      BY <1>6, <2>2, <3>1, Forgotten DEF CheckLease, boundVars
  <2>3. QED
    BY <2>1, <2>2
<1>7. ASSUME NEW w \in Workers, ReadBaseline(w) PROVE Typed'
  <2>1. row.base \in Baselines /\ row.key \in Keys
    BY DEF Rows
  <2>2. claim'[w] \in Claims /\ claim'[w].age = claim[w].age
    BY <1>7, <2>1 DEF ReadBaseline, Claims
  <2>3. claim' \in [Workers -> Claims]
    BY <1>7, <2>2 DEF ReadBaseline
  <2>4. QED
    BY <1>7, <2>2, <2>3 DEF ReadBaseline, Goto, boundVars, ClaimsInStep, Polling
<1>8. ASSUME NEW w \in Workers, RecordOffer(w) PROVE Typed'
  <2> DEFINE c == claim[w]
             key == NewKey(c)
             base == [price |-> c.offer.price, ref |-> Reference(c.base, c.offer),
                      available |-> Available(c.offer), promo |-> c.offer.promo]
  <2>1. c.base \in Baselines /\ c.offer \in Observations /\ c.age \in 0 .. PromptWork
    BY DEF Claims
  <2>2. key \in Keys
    BY <2>1, Derived, Empty DEF NewKey
  <2>3. base \in Baselines
    BY <2>1, Derived DEF Baselines, Observations
  <2>4. NextCheck(c.base, c.offer) \in UNION {0 .. d : d \in Delays}
    BY <2>1, Derived, Schedules
  <2>5. c.age \in 0 .. PromptWork + 1
    BY <2>1, Constants
  <2>6. (IF key # NoKey THEN key ELSE row.key) \in Keys
    BY <2>2 DEF Rows
  <2>7. row' = [base |-> base, key |-> IF key # NoKey THEN key ELSE row.key,
                due |-> NextCheck(c.base, c.offer), age |-> c.age]
    BY <1>8 DEF RecordOffer
  <2> HIDE DEF base, key
  <2>8. row' \in Rows
    BY <2>3, <2>4, <2>5, <2>6, <2>7 DEF Rows
  <2>9. claim' \in [Workers -> Claims] /\ claim'[w].age \in {claim[w].age, 0}
        /\ \A u \in Workers \ {w} : claim'[u] = claim[u]
    <3>1. [claim[w] EXCEPT !.key = key] \in Claims
      BY <2>2 DEF Claims
    <3>2. CASE claim' = [claim EXCEPT ![w].key = key]
      BY <3>1, <3>2 DEF Claims
    <3>3. CASE claim' = [claim EXCEPT ![w] = NoClaim]
      BY <3>3, Empty DEF NoClaim
    <3>4. QED
      BY <1>8, <3>2, <3>3 DEF RecordOffer, Forget, key
  <2>10. pc[w] = "record" /\ pc'[w] \in {"publish", "finish"}
         /\ pc' = [pc EXCEPT ![w] = pc'[w]]
    BY <1>8 DEF RecordOffer, Goto
  <2>11. ASSUME NEW u \in Workers
         PROVE  /\ pc'[u] \in {"acquire", "product"} => claim'[u].age = 0
                /\ pc'[u] \in Polling => claim'[u].age <= hold[u]
    BY <2>9, <2>10, Constants DEF ClaimsInStep, Polling
  <2>12. QED
    BY <1>8, <2>8, <2>9, <2>10, <2>11 DEF RecordOffer, boundVars, ClaimsInStep, Polling
<1>9. ASSUME NEW w \in Workers, Publish(w) PROVE Typed'
  <2>1. "publish" \in Polling
    BY DEF Polling
  <2>2. QED
    BY <1>9, <2>1, Forgotten DEF Publish, boundVars
<1>10. ASSUME NEW w \in Workers, Finish(w) PROVE Typed'
  BY <1>10 DEF Finish, Goto, boundVars, ClaimsInStep, Polling
<1>11. ASSUME NEW w \in Workers, CheckFailure(w) PROVE Typed'
  BY <1>11, Empty, Constants DEF CheckFailure, Drop, Forget, Goto, boundVars, ClaimsInStep, Polling
<1>12. ASSUME NEW w \in Workers, StoreFailure(w) PROVE Typed'
  <2>1. FailureDelay \in UNION {0 .. d : d \in Delays}
    BY Schedules DEF Delays
  <2>2. row' \in Rows
    BY <1>12, <2>1 DEF StoreFailure, Rows
  <2>3. QED
    BY <1>12, <2>2 DEF StoreFailure, Goto, boundVars, ClaimsInStep, Polling
<1>13. ASSUME NEW w \in Workers, Release(w) PROVE Typed'
  BY <1>13, Empty, Constants DEF Release, Drop, Forget, Goto, boundVars, ClaimsInStep, Polling
<1>14. ASSUME NEW w \in Workers, CallFails(w) PROVE Typed'
  <2>1. PICK from \in Polling : Goto(w, from, "failed")
    BY <1>14 DEF CallFails, Polling
  <2>2. changes' \in 0 .. MaxChanges /\ faults' \in 0 .. MaxFaults
    BY <1>14, Constants DEF CallFails, Faulty
  <2>3. QED
    BY <1>14, <2>1, <2>2, Forgotten DEF CallFails
<1>15. ASSUME NEW w \in Workers, Crash(w) PROVE Typed'
  BY <1>15, Empty, Constants DEF Crash, Drop, Forget, Faulty, ClaimsInStep, Polling
<1>16. ASSUME NEW o \in Offers, OfferChange(o) PROVE Typed'
  BY <1>16, Constants DEF OfferChange, ClaimsInStep
<1>17. CASE Tick
  <2>1. Left(row.due) \in UNION {0 .. d : d \in Delays}
    BY Countdown DEF Rows
  <2>2. (IF row.age <= PromptWork THEN row.age + 1 ELSE row.age) \in 0 .. PromptWork + 1
    BY Constants DEF Rows
  <2>3. row' \in Rows
    BY <1>17, <2>1, <2>2 DEF Tick, Rows
  <2>4. lease' \in Leases
    BY <1>17, Constants DEF Tick, Leases, Left
  <2>5. ASSUME NEW w \in Workers
        PROVE /\ hold'[w] \in 0 .. PromptWork /\ claim'[w] \in Claims
              /\ pc[w] \in {"acquire", "product"} => claim'[w].age = 0
              /\ pc[w] \in Polling => claim'[w].age <= hold'[w]
    <3>1. /\ pc[w] \in Polling => hold[w] < PromptWork
          /\ hold'[w] = IF pc[w] \in Polling THEN hold[w] + 1 ELSE hold[w]
          /\ claim'[w] = IF Observed(w) THEN [claim[w] EXCEPT !.age = @ + 1] ELSE claim[w]
      BY <1>17, <2>5 DEF Tick
    <3>2. claim[w] \in Claims /\ hold[w] \in 0 .. PromptWork
      OBVIOUS
    <3>3. pc[w] \in Polling => claim[w].age <= hold[w]
      BY DEF ClaimsInStep
    <3>4. hold'[w] \in 0 .. PromptWork
      BY <3>1, <3>2, Constants
    <3>5. CASE Observed(w)
      <4>1. pc[w] \in Polling /\ pc[w] # "product" /\ pc[w] # "acquire"
        BY <3>5 DEF Observed, Polling
      <4>2. claim[w].age + 1 \in 0 .. PromptWork /\ claim[w].age + 1 <= hold'[w]
        BY <3>1, <3>2, <3>3, <4>1, Constants DEF Claims
      <4>3. claim'[w] = [claim[w] EXCEPT !.age = claim[w].age + 1]
        BY <3>1, <3>5
      <4>4. claim'[w] \in Claims /\ claim'[w].age = claim[w].age + 1
        BY <3>2, <4>2, <4>3 DEF Claims
      <4>5. QED
        BY <3>4, <4>1, <4>2, <4>4
    <3>6. CASE ~Observed(w)
      <4>1. claim'[w] = claim[w]
        BY <3>1, <3>6
      <4>2. pc[w] \in {"acquire", "product"} => claim[w].age = 0
        BY DEF ClaimsInStep
      <4>3. pc[w] \in Polling => claim'[w].age <= hold'[w]
        BY <3>1, <3>2, <3>3, <4>1, Constants DEF Claims
      <4>4. QED
        BY <3>2, <3>4, <4>1, <4>2, <4>3
    <3>7. QED
      BY <3>5, <3>6
  <2>6. hold' \in [Workers -> 0 .. PromptWork] /\ claim' \in [Workers -> Claims]
    <3>1. hold' = [w \in Workers |-> hold'[w]] /\ claim' = [w \in Workers |-> claim'[w]]
      BY <1>17 DEF Tick
    <3>2. QED
      BY <2>5, <3>1
  <2>7. QED
    BY <1>17, <2>3, <2>4, <2>5, <2>6 DEF Tick, boundVars, ClaimsInStep
<1>18. CASE UNCHANGED vars
  BY <1>18 DEF vars, boundVars, ClaimsInStep
<1>19. QED
  BY <1>1, <1>2, <1>3, <1>4, <1>5, <1>6, <1>7, <1>8, <1>9, <1>10, <1>11, <1>12, <1>13,
     <1>14, <1>15, <1>16, <1>17, <1>18 DEF Next, Poll

(* Every variable keeps its type: no schedule, lease or age leaves its range
   whatever the watchers do. *)
THEOREM TypeCorrect == Spec => []TypeOK
<1>1. Typed => TypeOK
  BY DEF Typed
<1>2. QED
  BY <1>1, TypedInit, TypedStep, PTL DEF Spec

LEMMA TypedAlways == Spec => []Typed
BY TypedInit, TypedStep, PTL DEF Spec

-----------------------------------------------------------------------------
(* A worker that polls and took its lease less than a lease period ago still
   holds it, and the lease has run for as long as the worker. *)
LeaseInStep ==
    \A w \in Workers :
        Fresh(w) => lease.owner = w /\ lease.left + hold[w] = Lease

LEMMA LeaseInStepStep ==
    ASSUME Typed, LeaseInStep, [Next]_vars
    PROVE  LeaseInStep'
<1> SUFFICES ASSUME NEW v \in Workers, pc'[v] \in Polling, hold'[v] < Lease
             PROVE  lease'.owner = v /\ lease'.left + hold'[v] = Lease
  BY DEF LeaseInStep, Fresh
<1> USE DEF Typed, TypeOK, Leases
<1>1. /\ lease.left \in Nat /\ hold[v] \in Nat /\ Lease \in Nat
      /\ "acquire" \notin Polling /\ "idle" \notin Polling
  BY Constants DEF Polling
<1>2. pc[v] \in Polling /\ hold[v] < Lease
         => lease.owner = v /\ lease.left + hold[v] = Lease /\ lease.left > 0
  <2>1. pc[v] \in Polling /\ hold[v] < Lease
           => lease.owner = v /\ lease.left + hold[v] = Lease
    BY DEF LeaseInStep, Fresh
  <2>2. QED
    BY <1>1, <2>1
<1>3. ASSUME NEW w \in Workers, Acquire(w)
      PROVE  lease'.owner = v /\ lease'.left + hold'[v] = Lease
  <2>1. CASE w = v
    <3>1. lease.left = 0 /\ lease' = [owner |-> w, left |-> Lease] /\ hold'[w] = 0
      BY <1>1, <1>3, <2>1 DEF Acquire, Goto, Expired
    <3>2. QED
      BY <1>1, <2>1, <3>1
  <2>2. CASE w # v
    <3>1. pc[v] \in Polling /\ hold'[v] = hold[v]
      BY <1>3, <2>2 DEF Acquire, Goto, Drop
    <3>2. lease.left > 0
      BY <1>2, <3>1
    <3>3. lease' = lease
      BY <1>3, <3>2 DEF Acquire, Expired
    <3>4. QED
      BY <1>2, <3>1, <3>3
  <2>3. QED
    BY <2>1, <2>2
<1>4. ASSUME NEW w \in Workers, Release(w)
      PROVE  lease'.owner = v /\ lease'.left + hold'[v] = Lease
  <2>1. w # v
    BY <1>1, <1>4 DEF Release, Goto
  <2>2. pc[v] \in Polling /\ hold'[v] = hold[v]
    BY <1>4, <2>1 DEF Release, Goto, Drop
  <2>3. QED
    BY <1>2, <1>4, <2>1, <2>2 DEF Release
<1>5. CASE Tick
  <2>1. pc[v] \in Polling /\ hold'[v] = hold[v] + 1 /\ lease' = [lease EXCEPT !.left = Left(@)]
    BY <1>5 DEF Tick
  <2>2. QED
    BY <1>1, <1>2, <2>1 DEF Left
<1>6. ASSUME NEW w \in Workers, SelectDue(w)
      PROVE  lease'.owner = v /\ lease'.left + hold'[v] = Lease
  BY <1>1, <1>2, <1>6 DEF SelectDue, Goto
<1>7. ASSUME NEW w \in Workers,
             \/ FetchProduct(w) \/ FetchStock(w) \/ ConfirmOffer(w) \/ CheckLease(w)
             \/ ReadBaseline(w) \/ RecordOffer(w) \/ Publish(w) \/ Finish(w)
             \/ StoreFailure(w) \/ CallFails(w)
      PROVE  lease'.owner = v /\ lease'.left + hold'[v] = Lease
  <2>1. lease' = lease /\ hold' = hold
    BY <1>7 DEF FetchProduct, FetchStock, ConfirmOffer, CheckLease, ReadBaseline,
       RecordOffer, Publish, Finish, StoreFailure, CallFails
  <2>2. pc[v] \in Polling
    BY <1>1, <1>7 DEF FetchProduct, FetchStock, ConfirmOffer, CheckLease, ReadBaseline,
       RecordOffer, Publish, Finish, StoreFailure, CallFails, Goto, Polling
  <2>3. QED
    BY <1>2, <2>1, <2>2
<1>8. ASSUME NEW w \in Workers, CheckFailure(w) \/ Crash(w)
      PROVE  lease'.owner = v /\ lease'.left + hold'[v] = Lease
  <2>1. lease' = lease
    BY <1>8 DEF CheckFailure, Crash
  <2>2. pc[v] \in Polling /\ hold'[v] = hold[v]
    BY <1>1, <1>8 DEF CheckFailure, Crash, Goto, Drop, Forget, Polling
  <2>3. QED
    BY <1>2, <2>1, <2>2
<1>9. ASSUME NEW o \in Offers, OfferChange(o)
      PROVE  lease'.owner = v /\ lease'.left + hold'[v] = Lease
  BY <1>2, <1>9 DEF OfferChange
<1>10. CASE UNCHANGED vars
  BY <1>2, <1>10 DEF vars
<1>11. QED
  BY <1>3, <1>4, <1>5, <1>6, <1>7, <1>8, <1>9, <1>10 DEF Next, Poll

LEMMA LeaseAlways == Spec => []LeaseInStep
<1>1. Init => LeaseInStep
  BY DEF Init, LeaseInStep, Fresh, Polling
<1>2. Typed /\ LeaseInStep /\ [Next]_vars => LeaseInStep'
  BY LeaseInStepStep
<1>3. QED
  BY <1>1, <1>2, TypedAlways, PTL DEF Spec

(* Of the workers that poll the product at most one is within a lease period
   of its acquisition, however their selections interleave, however long the
   others sleep and wherever they fail or crash. *)
THEOREM AloneWithProduct == Spec => []ExclusivePolling
<1>1. LeaseInStep => ExclusivePolling
  BY DEF LeaseInStep, ExclusivePolling
<1>2. QED
  BY <1>1, LeaseAlways, PTL

(* In particular, if every pass is shorter than the lease, no two watchers
   poll the product at once. *)
PromptPolls == PromptWork < Lease
OnePoller == \A v, w \in Workers : v # w /\ pc[v] \in Polling => pc[w] \notin Polling
THEOREM PromptWatchersAlone == ASSUME PromptPolls PROVE Spec => []OnePoller
<1>1. Typed /\ ExclusivePolling => OnePoller
  <2> SUFFICES ASSUME Typed, ExclusivePolling, NEW v \in Workers, NEW w \in Workers,
                      v # w, pc[v] \in Polling, pc[w] \in Polling
               PROVE  FALSE
    BY DEF OnePoller
  <2>1. hold[v] < Lease /\ hold[w] < Lease
    BY Constants DEF Typed, TypeOK, PromptPolls
  <2>2. QED
    BY <2>1 DEF ExclusivePolling, Fresh
<1>2. QED
  BY <1>1, TypedAlways, AloneWithProduct, PTL

-----------------------------------------------------------------------------
(* Until the holder of the lease records, whatever is recorded was observed
   before it took the lease, and so was whatever a reclaimed worker that has
   already passed its check can still record. *)
BeforeRecord == {"product", "stock", "confirm", "check", "read", "record"}
Older(v) ==
    /\ hold[v] <= row.age
    /\ \A w \in Workers \ {v} :
          pc[w] \in {"read", "record"} => hold[v] <= claim[w].age
NewestObserver ==
    \A v \in Workers : pc[v] \in BeforeRecord /\ lease.owner = v => Older(v)

LEMMA NewestObserverStep ==
    ASSUME Typed, NewestObserver, [Next]_vars
    PROVE  NewestObserver'
<1> SUFFICES ASSUME NEW v \in Workers, pc'[v] \in BeforeRecord, lease'.owner = v
             PROVE  Older(v)'
  BY DEF NewestObserver
<1> USE DEF Typed, TypeOK, Leases
<1>1. /\ hold[v] \in Nat /\ PromptWork \in Nat /\ hold[v] <= PromptWork
      /\ row.age \in Nat /\ row.age <= PromptWork + 1
      /\ \A w \in Workers : claim[w].age \in Nat
  BY Constants DEF Rows, Claims
<1>2. pc[v] \in BeforeRecord /\ lease.owner = v => Older(v)
  BY DEF NewestObserver
<1>3. ASSUME NEW w \in Workers, Acquire(w) PROVE Older(v)'
  <2>1. row' = row /\ pc'[w] \in {"product", "idle"}
        /\ \A u \in Workers \ {w} : pc'[u] = pc[u] /\ claim'[u] = claim[u]
                                    /\ hold'[u] = hold[u]
    BY <1>3 DEF Acquire, Goto, Drop, Forget
  <2>2. CASE w = v
    <3>1. hold'[v] = 0
      BY <1>3, <2>2 DEF Acquire, Goto, BeforeRecord, Drop
    <3>2. QED
      BY <1>1, <2>1, <2>2, <3>1 DEF Older
  <2>3. CASE w # v
    <3>1. lease' = lease
      BY <1>3, <2>3 DEF Acquire
    <3>2. QED
      BY <1>2, <2>1, <2>3, <3>1 DEF Older
  <2>4. QED
    BY <2>2, <2>3
<1>4. ASSUME NEW w \in Workers, RecordOffer(w) PROVE Older(v)'
  <2>1. /\ pc[w] = "record" /\ pc'[w] \in {"publish", "finish"}
        /\ lease' = lease /\ hold' = hold /\ row'.age = claim[w].age
        /\ \A u \in Workers \ {w} : pc'[u] = pc[u] /\ claim'[u] = claim[u]
    BY <1>4 DEF RecordOffer, Goto, Forget
  <2>2. w # v /\ pc[v] \in BeforeRecord
    BY <2>1 DEF BeforeRecord
  <2>3. hold[v] <= claim[w].age
    BY <1>2, <2>1, <2>2 DEF Older
  <2>4. QED
    BY <1>2, <2>1, <2>2, <2>3 DEF Older
<1>5. CASE Tick
  <2>1. /\ pc' = pc /\ lease'.owner = lease.owner
        /\ row'.age = IF row.age <= PromptWork THEN row.age + 1 ELSE row.age
        /\ hold'[v] = hold[v] + 1 /\ hold[v] < PromptWork
    BY <1>5 DEF Tick, Rows, BeforeRecord, Polling
  <2>2. ASSUME NEW w \in Workers, pc[w] \in {"read", "record"}
        PROVE  claim'[w].age = claim[w].age + 1
    BY <1>5, <2>2 DEF Tick, Observed, Claims
  <2>3. Older(v)
    BY <1>2, <2>1
  <2>4. hold'[v] <= row'.age
    BY <1>1, <2>1, <2>3 DEF Older
  <2>5. ASSUME NEW w \in Workers \ {v}, pc'[w] \in {"read", "record"}
        PROVE  hold'[v] <= claim'[w].age
    BY <1>1, <2>1, <2>2, <2>3, <2>5 DEF Older
  <2>6. QED
    BY <2>4, <2>5 DEF Older
<1>6. ASSUME NEW w \in Workers, CheckLease(w) PROVE Older(v)'
  <2>1. /\ row' = row /\ lease' = lease /\ hold' = hold
        /\ pc'[w] = "read" => lease.owner = w /\ claim' = claim
        /\ pc[w] = "check" /\ pc'[w] \in {"read", "failed"}
        /\ \A u \in Workers \ {w} : pc'[u] = pc[u] /\ claim'[u] = claim[u]
    BY <1>6 DEF CheckLease, Goto, Owns, Forget
  <2>2. pc[v] \in BeforeRecord
    BY <2>1 DEF BeforeRecord
  <2>3. QED
    BY <1>2, <2>1, <2>2 DEF Older
<1>7. ASSUME NEW w \in Workers,
             \/ SelectDue(w) \/ FetchProduct(w) \/ FetchStock(w) \/ ConfirmOffer(w)
             \/ Publish(w) \/ Finish(w) \/ CallFails(w) \/ CheckFailure(w)
             \/ StoreFailure(w) \/ Release(w) \/ Crash(w)
      PROVE  Older(v)'
  <2>1. row'.age = row.age /\ (lease'.owner = lease.owner \/ lease'.owner = "none")
    BY <1>7 DEF SelectDue, FetchProduct, FetchStock, ConfirmOffer, Publish, Finish,
       CallFails, CheckFailure, StoreFailure, Release, Crash, Rows, NoLease
  <2>2. lease.owner = v
    BY <2>1, WorkerAssumption DEF WorkerAssumption
  <2>3. pc'[w] \notin {"read", "record"}
        /\ \A u \in Workers \ {w} : pc'[u] = pc[u] /\ claim'[u] = claim[u]
                                    /\ hold'[u] = hold[u]
    BY <1>7 DEF SelectDue, FetchProduct, FetchStock, ConfirmOffer, Publish, Finish,
       CallFails, CheckFailure, StoreFailure, Release, Crash, Goto, Drop, Forget
  <2>4. pc[v] \in BeforeRecord /\ hold'[v] = hold[v]
    BY <1>7, <2>3 DEF SelectDue, FetchProduct, FetchStock, ConfirmOffer, Publish, Finish,
       CallFails, CheckFailure, StoreFailure, Release, Crash, Goto, Drop, Forget, BeforeRecord
  <2>5. QED
    BY <1>2, <2>1, <2>2, <2>3, <2>4 DEF Older
<1>8. ASSUME NEW w \in Workers, ReadBaseline(w) PROVE Older(v)'
  <2>1. /\ row' = row /\ lease' = lease /\ hold' = hold
        /\ pc[w] = "read" /\ pc'[w] = "record"
        /\ claim'[w].age = claim[w].age
        /\ \A u \in Workers \ {w} : pc'[u] = pc[u] /\ claim'[u] = claim[u]
    BY <1>8 DEF ReadBaseline, Goto, Claims
  <2>2. pc[v] \in BeforeRecord
    BY <2>1 DEF BeforeRecord
  <2>3. QED
    BY <1>2, <2>1, <2>2 DEF Older
<1>9. ASSUME NEW o \in Offers, OfferChange(o) PROVE Older(v)'
  BY <1>2, <1>9 DEF OfferChange, Older
<1>10. CASE UNCHANGED vars
  BY <1>2, <1>10 DEF vars, Older
<1>11. QED
  BY <1>3, <1>4, <1>5, <1>6, <1>7, <1>8, <1>9, <1>10 DEF Next, Poll

(* A watcher that records while it still holds the lease, run out or not, stores
   an observation no older than the recorded one, whatever reclaimed watchers
   wrote between their check of the lease and now. *)
THEOREM NewestBaseline == Spec => NoStaleBaseline
<1>1. Init => NewestObserver
  BY DEF Init, NewestObserver, BeforeRecord
<1>2. Typed /\ NewestObserver /\ [Next]_vars => NewestObserver'
  BY NewestObserverStep
<1>3. Typed /\ NewestObserver =>
        [\A w \in Workers :
            RecordOffer(w) => claim[w].age <= row.age \/ lease.owner # w]_vars
  <2> SUFFICES ASSUME Typed, NewestObserver, NEW w \in Workers, RecordOffer(w),
                      lease.owner = w
               PROVE  claim[w].age <= row.age
    OBVIOUS
  <2>1. pc[w] = "record"
    BY DEF RecordOffer, Goto
  <2>2. claim[w].age <= hold[w]
    BY <2>1 DEF Typed, ClaimsInStep, Polling
  <2>3. hold[w] <= row.age
    BY <2>1 DEF NewestObserver, Older, BeforeRecord
  <2>4. claim[w].age \in Nat /\ hold[w] \in Nat /\ row.age \in Nat
    BY Constants DEF Typed, TypeOK, Claims, Rows
  <2>5. QED
    BY <2>2, <2>3, <2>4
<1>4. QED
  BY <1>1, <1>2, <1>3, TypedAlways, PTL DEF Spec, NoStaleBaseline

-----------------------------------------------------------------------------
(* What record_exact_offer calls an event is what
   offer_requires_exact_confirmation asked to confirm, against one baseline. *)
LEMMA EventsNeedConfirmation ==
    ASSUME NEW base \in Baselines, NEW o \in Observations,
           base.price = 0 => base = NoBaseline,
           EventType(base, o) # "none"
    PROVE  NeedsConfirmation(base, o)
BY DEF EventType, NeedsConfirmation, NoBaseline, NewPromotion

(* Until it records, a worker that did not confirm saw nothing to confirm
   against its copy; so what it publishes unconfirmed comes from another
   baseline. *)
Confirms(w) ==
    /\ pc[w] \in BeforeRecord \ {"product"} => claim[w].offer.price # 0
    /\ pc[w] \in {"check", "read", "record"} =>
          claim[w].confirmed \/ ~NeedsConfirmation(claim[w].copy, claim[w].offer)
    /\ pc[w] = "record" /\ claim[w].base.price = 0 => claim[w].base = NoBaseline
    /\ pc[w] = "publish" => claim[w].confirmed \/ claim[w].copy # claim[w].base
PricedBaseline == row.base.price = 0 => row.base = NoBaseline
ConfirmsOrOvertaken == PricedBaseline /\ \A w \in Workers : Confirms(w)

(* What a worker carries is its own business. *)
LEMMA OthersConfirm ==
    ASSUME Typed, ConfirmsOrOvertaken, NEW w \in Workers,
           Poll(w) \/ CallFails(w) \/ Crash(w),
           PricedBaseline', Confirms(w)'
    PROVE  ConfirmsOrOvertaken'
<1>1. ASSUME NEW v \in Workers, v # w PROVE pc'[v] = pc[v] /\ claim'[v] = claim[v]
  BY <1>1 DEF Typed, TypeOK, Poll, SelectDue, Acquire, FetchProduct, FetchStock,
     ConfirmOffer, CheckLease, ReadBaseline, RecordOffer, Publish, Finish, CheckFailure,
     StoreFailure, Release, CallFails, Crash, Goto, Drop, Forget
<1>2. ASSUME NEW v \in Workers, v # w PROVE Confirms(v)'
  BY <1>1, <1>2 DEF ConfirmsOrOvertaken, Confirms
<1>3. QED
  BY <1>2 DEF ConfirmsOrOvertaken

LEMMA ConfirmsStep ==
    ASSUME Typed, ConfirmsOrOvertaken, [Next]_vars
    PROVE  ConfirmsOrOvertaken'
<1> USE DEF Typed, TypeOK
<1>1. PricedBaseline /\ \A w \in Workers : Confirms(w)
  BY DEF ConfirmsOrOvertaken
<1>2. ASSUME NEW w \in Workers, Poll(w) \/ CallFails(w) \/ Crash(w)
      PROVE  PricedBaseline' /\ Confirms(w)'
  <2>1. CASE FetchProduct(w)
    <3> DEFINE page == [world EXCEPT !.stock = "unknown"]
    <3>1. page.price # 0
      BY Offered DEF Observations
    <3>2. claim'[w] = [[claim[w] EXCEPT !.offer = page] EXCEPT !.age = 0]
      BY <2>1 DEF FetchProduct
    <3>3. claim'[w].offer = page
      BY <3>2 DEF Claims
    <3> HIDE DEF page
    <3>4. QED
      BY <1>1, <2>1, <3>1, <3>3 DEF FetchProduct, Goto, Confirms, PricedBaseline
  <2>2. CASE FetchStock(w)
    <3> DEFINE offer == [claim[w].offer EXCEPT !.stock = world.stock]
    <3>1. offer.price = claim[w].offer.price
      BY DEF Claims, Observations
    <3>2. claim' = [claim EXCEPT ![w].offer = offer] /\ row' = row
      BY <2>2 DEF FetchStock
    <3>3. pc[w] = "stock"
          /\ pc'[w] = IF NeedsConfirmation(claim[w].copy, offer) THEN "confirm" ELSE "check"
      BY <2>2 DEF FetchStock, Goto
    <3> HIDE DEF offer
    <3>4. claim'[w].offer = offer /\ claim'[w].copy = claim[w].copy
      BY <3>2 DEF Claims
    <3>5. claim[w].offer.price # 0
      BY <1>1, <3>3 DEF Confirms, BeforeRecord
    <3>6. QED
      BY <1>1, <3>1, <3>2, <3>3, <3>4, <3>5 DEF Confirms, PricedBaseline
  <2>3. CASE ConfirmOffer(w)
    <3>1. CASE Agrees(claim[w].offer)
      <4>1. pc'[w] = "check" /\ row' = row
        BY <2>3, <3>1 DEF ConfirmOffer, Goto
      <4>2. claim'[w].offer = world /\ claim'[w].confirmed
        BY <2>3, <3>1 DEF ConfirmOffer, Claims
      <4>3. world.price # 0
        BY Offered
      <4>4. QED
        BY <1>1, <4>1, <4>2, <4>3 DEF Confirms, PricedBaseline
    <3>2. CASE ~Agrees(claim[w].offer)
      BY <1>1, <2>3, <3>2 DEF ConfirmOffer, Goto, Confirms, PricedBaseline, BeforeRecord
    <3>3. QED
      BY <3>1, <3>2
  <2>4. CASE ReadBaseline(w)
    <3>1. claim'[w] = [[claim[w] EXCEPT !.base = row.base] EXCEPT !.key = row.key]
      BY <2>4 DEF ReadBaseline
    <3>2. /\ claim'[w].base = row.base /\ claim'[w].offer = claim[w].offer
          /\ claim'[w].confirmed = claim[w].confirmed /\ claim'[w].copy = claim[w].copy
      BY <3>1 DEF Claims
    <3>3. row' = row /\ pc[w] = "read" /\ pc'[w] = "record"
      BY <2>4 DEF ReadBaseline, Goto
    <3>4. QED
      BY <1>1, <3>2, <3>3 DEF Confirms, PricedBaseline, BeforeRecord
  <2>5. CASE RecordOffer(w)
    <3> DEFINE c == claim[w]
               key == NewKey(c)
    <3>1. pc[w] = "record" /\ pc'[w] = IF key # NoKey THEN "publish" ELSE "finish"
      BY <2>5 DEF RecordOffer, Goto
    <3>2. c.base \in Baselines /\ c.copy \in Baselines /\ c.offer \in Observations
      BY DEF Claims
    <3>3. key # NoKey => c.confirmed \/ c.copy # c.base
      <4>1. key # NoKey => EventType(c.base, c.offer) # "none"
        BY DEF NewKey, EventKey
      <4>2. c.base.price = 0 => c.base = NoBaseline
        BY <1>1, <3>1 DEF Confirms
      <4>3. key # NoKey => NeedsConfirmation(c.base, c.offer)
        BY <3>2, <4>1, <4>2, EventsNeedConfirmation
      <4>4. c.confirmed \/ ~NeedsConfirmation(c.copy, c.offer)
        BY <1>1, <3>1 DEF Confirms
      <4>5. QED
        BY <4>3, <4>4
    <3>4. row'.base.price = c.offer.price /\ c.offer.price # 0
      BY <1>1, <2>5, <3>1 DEF RecordOffer, Confirms, BeforeRecord
    <3>5. key # NoKey => claim' = [claim EXCEPT ![w].key = key]
      BY <2>5 DEF RecordOffer
    <3> HIDE DEF key
    <3>6. key # NoKey =>
             /\ claim'[w].confirmed = c.confirmed /\ claim'[w].copy = c.copy
             /\ claim'[w].base = c.base
      BY <3>5 DEF Claims
    <3>7. QED
      BY <3>1, <3>3, <3>4, <3>6 DEF Confirms, PricedBaseline, BeforeRecord
  <2>6. CASE CheckLease(w)
    BY <1>1, <2>6 DEF CheckLease, Goto, Confirms, PricedBaseline, BeforeRecord
  <2>7. CASE Acquire(w)
    BY <1>1, <2>7 DEF Acquire, Goto, Confirms, PricedBaseline, BeforeRecord
  <2>8. CASE SelectDue(w)
    BY <1>1, <2>8 DEF SelectDue, Goto, Confirms, PricedBaseline, BeforeRecord
  <2>9. CASE \/ Publish(w) \/ Finish(w) \/ CheckFailure(w) \/ StoreFailure(w)
             \/ Release(w) \/ CallFails(w) \/ Crash(w)
    <3>1. row'.base = row.base
      BY <2>9 DEF Publish, Finish, CheckFailure, StoreFailure, Release, CallFails, Crash, Rows
    <3>2. pc'[w] \in {"finish", "release", "failed", "storefailure", "idle"}
      BY <2>9 DEF Publish, Finish, CheckFailure, StoreFailure, Release, CallFails, Crash, Goto
    <3>3. QED
      BY <1>1, <3>1, <3>2 DEF Confirms, PricedBaseline, BeforeRecord
  <2>10. QED
    BY <1>2, <2>1, <2>2, <2>3, <2>4, <2>5, <2>6, <2>7, <2>8, <2>9 DEF Poll
<1>3. ASSUME NEW o \in Offers, OfferChange(o) PROVE ConfirmsOrOvertaken'
  BY <1>1, <1>3 DEF OfferChange, ConfirmsOrOvertaken, Confirms, PricedBaseline
<1>4. CASE Tick
  <2>1. row'.base = row.base /\ pc' = pc
    BY <1>4 DEF Tick, Rows
  <2>2. ASSUME NEW w \in Workers
        PROVE /\ claim'[w].base = claim[w].base /\ claim'[w].offer = claim[w].offer
              /\ claim'[w].confirmed = claim[w].confirmed
              /\ claim'[w].copy = claim[w].copy
    <3>1. claim'[w] = IF Observed(w) THEN [claim[w] EXCEPT !.age = @ + 1] ELSE claim[w]
      BY <1>4 DEF Tick
    <3>2. QED
      BY <3>1 DEF Claims
  <2>3. QED
    BY <1>1, <2>1, <2>2 DEF ConfirmsOrOvertaken, Confirms, PricedBaseline
<1>5. CASE UNCHANGED vars
  BY <1>1, <1>5 DEF vars, ConfirmsOrOvertaken, Confirms, PricedBaseline
<1>6. QED
  <2>1. ASSUME NEW w \in Workers, Poll(w) \/ CallFails(w) \/ Crash(w)
        PROVE  ConfirmsOrOvertaken'
    BY <1>2, <2>1, OthersConfirm
  <2>2. QED
    BY <1>3, <1>4, <1>5, <2>1 DEF Next

(* Whatever the number of watchers, the offers and the thresholds: an event is
   published unconfirmed only if the baseline moved between the selection of
   the product and its record. *)
THEOREM EventsConfirmedOrOvertaken == Spec => UnconfirmedOnlyIfOvertaken
<1>1. Init => ConfirmsOrOvertaken
  BY DEF Init, ConfirmsOrOvertaken, Confirms, PricedBaseline, BeforeRecord
<1>2. Typed /\ ConfirmsOrOvertaken /\ [Next]_vars => ConfirmsOrOvertaken'
  BY ConfirmsStep
<1>3. ConfirmsOrOvertaken =>
        [\A w \in Workers :
            Publish(w) => claim[w].confirmed \/ claim[w].copy # claim[w].base]_vars
  BY DEF ConfirmsOrOvertaken, Confirms, Publish, Goto
<1>4. QED
  BY <1>1, <1>2, <1>3, TypedAlways, PTL DEF Spec, UnconfirmedOnlyIfOvertaken
=============================================================================
