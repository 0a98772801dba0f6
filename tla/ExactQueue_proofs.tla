------------------------- MODULE ExactQueue_proofs -------------------------
(***************************************************************************)
(* Theorems about ExactQueue, for every number of workers and catalog        *)
(* passes, every set of prices and every choice of the delays: the type      *)
(* invariant, the lease invariant, that no result observed earlier replaces  *)
(* one observed later, that a price stored as verified is recent, and that   *)
(* the cleaner spares rows refreshed since it chose them.                    *)
(***************************************************************************)
EXTENDS ExactQueue, TLAPS

(* What keeps the counters of a worker in range: it has an observation exactly
   when it is about to persist, and none is older than the pass that made it. *)
ClaimsInStep ==
    \A w \in Workers :
        /\ claim[w].since <= hold[w]
        /\ wpc[w] # "persist" => claim[w].status = "none" /\ claim[w].since = 0
        /\ wpc[w] = "persist" => claim[w].status # "none"
Typed == TypeOK /\ ClaimsInStep

-----------------------------------------------------------------------------
(* The assumptions on the constants, one by one. *)
LEMMA Constants ==
    /\ SnapLife \in Nat /\ Retention \in Nat /\ Protect \in Nat /\ Lease \in Nat
    /\ Reprobe \in Nat /\ Never \in Nat /\ MaxChanges \in Nat /\ MaxCrashes \in Nat
    /\ PromptWork \in Nat /\ PromptSearch \in Nat
    /\ PromptPass \in Nat /\ PromptClean \in Nat
    /\ Dormant \in 0 .. Never /\ CleanAge \in Nat
    /\ Prices \subseteq Nat \ {0}
BY DelayAssumption, SetAssumption DEF DelayAssumption, SetAssumption, CleanAge

(* No verdict schedules an attempt beyond the terminal date. *)
LEMMA Delays == \A status \in Exact : Delay(status) \in Nat /\ Delay(status) <= Never
BY DelayAssumption DEF DelayAssumption, Delay, Exact

(* Arithmetic of the ages and of the ticks left. *)
LEMMA AgeRange ==
    ASSUME NEW threshold \in Nat, NEW age \in 0 .. threshold + 1
    PROVE  Older(age, threshold) \in 0 .. threshold + 1 /\ age <= Older(age, threshold)
BY DEF Older

(* What remains of a delay is within it. *)
LEMMA RemainingRange ==
    ASSUME NEW delay \in Nat, NEW elapsed \in Nat
    PROVE  Remaining(delay, elapsed) \in 0 .. delay
BY DEF Remaining

(* The bound on holds covers every kind of actor. *)
LEMMA HoldRange == MaxHold \in Nat /\ MaxGone \in Nat /\ PromptWork <= MaxHold
                   /\ PromptSearch <= MaxHold
                   /\ PromptPass <= MaxHold /\ PromptClean <= MaxHold
BY Constants DEF MaxHold, MaxGone

(* Every rewriting of the row is a row. *)
LEMMA EmptyRow == NoRow \in Rows /\ NoClaim \in Claims /\ NoCand \in Candidates
BY HoldRange, Constants DEF NoRow, Rows, NoClaim, Claims, NoCand, Candidates, Evidence, Statuses,
   Exact, Kinds

(* What the upsert inserts when the item has no row is a row. *)
LEMMA InsertedRow ==
    ASSUME NEW c \in Candidates, NEW elapsed \in Nat
    PROVE  NewRow(c, elapsed) \in Rows
<1>1. Least(elapsed, SnapLife + 1) \in 0 .. SnapLife + 1
      /\ Least(elapsed, Retention + 1) \in 0 .. Retention + 1
  BY Constants DEF Least
<1>2. QED
  BY <1>1, EmptyRow DEF NewRow, NoRow, Rows, Candidates, Evidence, Statuses

(* What the upsert makes of an existing row is a row. *)
LEMMA UpsertedRow ==
    ASSUME row \in Rows, NEW c \in Candidates, NEW elapsed \in Nat
    PROVE  UpdatedRow(c, elapsed) \in Rows
<1>1. Least(elapsed, SnapLife + 1) \in 0 .. SnapLife + 1
      /\ Least(elapsed, Retention + 1) \in 0 .. Retention + 1
  BY Constants DEF Least
<1>2. Least(row.next, 0) \in 0 .. Never
  BY Constants DEF Least, Rows
<1> DEFINE app == IF c.price # 0 THEN c.price ELSE row.app
           snap == IF c.kind = "complete" THEN c.price ELSE row.snap
           snapAge == IF c.kind = "complete" THEN Least(elapsed, SnapLife + 1)
                      ELSE row.snapAge
           seen == Least(elapsed, Retention + 1)
           status == IF Woken(c) THEN "pending" ELSE row.status
           next == IF Scheduled(c) THEN Least(row.next, 0) ELSE row.next
           natural == row.natural /\ ~(Scheduled(c) /\ row.next > 0)
<1>3. /\ app \in Evidence /\ snap \in Evidence /\ status \in Statuses
      /\ snapAge \in 0 .. SnapLife + 1 /\ next \in 0 .. Never
  BY <1>1, <1>2 DEF Rows, Candidates, Evidence, Statuses
<1>4. natural \in BOOLEAN /\ TRUE \in BOOLEAN /\ seen \in 0 .. Retention + 1
  BY <1>1
<1>5. UpdatedRow(c, elapsed) =
        [row EXCEPT !.app = app, !.snap = snap, !.snapAge = snapAge, !.seen = seen,
                    !.reseen = TRUE, !.status = status, !.next = next,
                    !.natural = natural]
  BY DEF UpdatedRow
<1> HIDE DEF app, snap, snapAge, seen, status, next, natural
<1> DEFINE evidence == [row EXCEPT !.app = app, !.snap = snap, !.snapAge = snapAge,
                                   !.seen = seen]
<1>6. evidence \in Rows
  BY <1>3, <1>4 DEF Rows
<1>7. UpdatedRow(c, elapsed) = [evidence EXCEPT !.reseen = TRUE, !.status = status,
                                                !.next = next, !.natural = natural]
  BY <1>5
<1> HIDE DEF evidence
<1>8. QED
  BY <1>3, <1>4, <1>6, <1>7 DEF Rows

(* A row one tick later is a row. *)
LEMMA AgedRowTyped == ASSUME row \in Rows PROVE AgedRow \in Rows
<1> DEFINE snapAge == IF row.snap = 0 THEN 0 ELSE Older(row.snapAge, SnapLife)
           next == IF row.next = Never THEN Never ELSE Left(row.next)
           tried == IF Terminal THEN Older(row.tried, Reprobe) ELSE 0
           vage == IF row.exact = 0 THEN 0 ELSE Older(row.vage, CleanAge)
<1>1. /\ snapAge \in 0 .. SnapLife + 1
      /\ Older(row.seen, Retention) \in 0 .. Retention + 1
      /\ tried \in 0 .. Reprobe + 1
      /\ vage \in 0 .. CleanAge + 1
  <2>1. /\ Older(row.snapAge, SnapLife) \in 0 .. SnapLife + 1
        /\ Older(row.seen, Retention) \in 0 .. Retention + 1
        /\ Older(row.tried, Reprobe) \in 0 .. Reprobe + 1
        /\ Older(row.vage, CleanAge) \in 0 .. CleanAge + 1
    BY AgeRange, Constants DEF Rows
  <2>2. QED
    BY <2>1, Constants
<1>2. next \in 0 .. Never /\ Left(row.lease) \in 0 .. Lease
  BY Constants DEF Left, Rows
<1>3. AgedRow = [row EXCEPT !.snapAge = snapAge, !.next = next,
                            !.lease = Left(row.lease),
                            !.seen = Older(row.seen, Retention),
                            !.tried = tried, !.vage = vage]
  BY DEF AgedRow
<1> HIDE DEF snapAge, next, tried, vage
<1>4. QED
  BY <1>1, <1>2, <1>3 DEF Rows

(* The row a worker's outcome is written into is a row. *)
LEMMA PersistedRow ==
    ASSUME row \in Rows, NEW c \in Claims, c.status # "none"
    PROVE  Persisted(c) \in Rows
<1> DEFINE next == Remaining(Delay(c.status), c.since)
           natural == c.status = "no_price"
           exact == IF c.status = "verified" THEN c.price ELSE row.exact
           vage == IF c.status = "verified" THEN Least(c.since, CleanAge + 1)
                   ELSE row.vage
<1>1. c.status \in Exact /\ c.since \in Nat
  BY HoldRange DEF Claims
<1>2. next \in 0 .. Never
  <2>1. Delay(c.status) \in Nat /\ Delay(c.status) <= Never
    BY <1>1, Delays
  <2>2. next \in 0 .. Delay(c.status)
    BY <1>1, <2>1, RemainingRange
  <2>3. QED
    BY <2>1, <2>2, Constants
<1> DEFINE status == c.status
<1>3. /\ natural \in BOOLEAN /\ exact \in Evidence /\ status \in Statuses
      /\ vage \in 0 .. CleanAge + 1
  BY <1>1, Constants DEF Least, Rows, Claims, Statuses
<1>4. Persisted(c) =
        [row EXCEPT !.status = status, !.owner = "none", !.lease = 0,
                    !.next = next, !.natural = natural, !.reseen = FALSE,
                    !.tried = 0, !.exact = exact, !.vage = vage]
  BY DEF Persisted
<1> HIDE DEF next, natural, exact, vage, status
<1>5. "none" \in Workers \cup {"none"} /\ 0 \in 0 .. Lease /\ 0 \in 0 .. Reprobe + 1
      /\ FALSE \in BOOLEAN
  BY Constants
<1> DEFINE freed == [row EXCEPT !.status = status, !.owner = "none", !.lease = 0,
                                !.next = next]
<1>6. freed \in Rows
  BY <1>2, <1>3, <1>5 DEF Rows
<1>7. Persisted(c) = [freed EXCEPT !.natural = natural, !.reseen = FALSE, !.tried = 0,
                                   !.exact = exact, !.vage = vage]
  BY <1>4
<1> HIDE DEF freed
<1>8. QED
  BY <1>3, <1>5, <1>6, <1>7 DEF Rows

-----------------------------------------------------------------------------
(* The empty queue is well typed. *)
LEMMA TypedInit == Init => Typed
<1> SUFFICES ASSUME Init PROVE Typed
  OBVIOUS
<1>1. TypeOK
  <2>1. gone \in [Prices -> 0 .. MaxGone] /\ hold \in [Actors -> 0 .. MaxHold]
    BY HoldRange DEF Init
  <2>2. world \in Prices /\ row \in Rows /\ owed \in BOOLEAN
    BY EmptyRow DEF Init
  <2>3. changes \in 0 .. MaxChanges /\ crashes \in 0 .. MaxCrashes
    BY Constants DEF Init
  <2>4. /\ wpc \in [Workers -> {"idle", "park", "select", "lease", "fetch", "persist"}]
        /\ ppc \in [Passes -> {"idle", "load", "upsert"}]
        /\ claim \in [Workers -> Claims] /\ cand \in [Passes -> Candidates]
        /\ cleaner \in {"idle", "chosen", "revived"}
    BY EmptyRow DEF Init
  <2>5. QED
    BY <2>1, <2>2, <2>3, <2>4 DEF TypeOK, Enqueueing
<1>2. ClaimsInStep
  <2>1. \A w \in Workers : claim[w] = NoClaim /\ hold[w] = 0 /\ wpc[w] = "idle"
    BY DEF Init, Actors
  <2>2. NoClaim.since = 0 /\ NoClaim.status = "none" /\ 0 <= 0 /\ "idle" # "persist"
    BY DEF NoClaim
  <2>3. QED
    BY <2>1, <2>2, Zenon DEF ClaimsInStep
<1>3. QED
  BY <1>1, <1>2 DEF Typed

(* The parts of the type invariant that a step may disturb. *)
LEMMA CatalogTyped ==
    ASSUME Typed, NEW d \in Passes, CatalogPass(d)
    PROVE  Typed'
<1> USE HoldRange, Constants DEF Typed, TypeOK
<1>1. CASE CatalogFetch(d)
  <2>1. /\ cand' \in [Passes -> Candidates]
        /\ ppc' \in [Passes -> {"idle", "search"} \cup Enqueueing]
    BY <1>1, SetAssumption DEF CatalogFetch, Candidates, Evidence, SetAssumption
  <2>2. hold' \in [Actors -> 0 .. MaxHold] /\ \A w \in Workers : hold'[w] = hold[w]
    BY <1>1, SetAssumption DEF CatalogFetch, Actors, SetAssumption
  <2>3. QED
    BY <1>1, <2>1, <2>2 DEF CatalogFetch, workerVars, boundVars, ClaimsInStep
<1>2. CASE EnqueueLoad(d)
  BY <1>2 DEF EnqueueLoad, workerVars, boundVars, ClaimsInStep, Enqueueing
<1>5. CASE CatalogStamp(d)
  <2>1. ppc' \in [Passes -> {"idle", "search"} \cup Enqueueing]
    BY <1>5 DEF CatalogStamp, Enqueueing
  <2>2. hold' \in [Actors -> 0 .. MaxHold] /\ \A w \in Workers : hold'[w] = hold[w]
    BY <1>5, SetAssumption DEF CatalogStamp, Actors, SetAssumption
  <2>3. QED
    BY <1>5, <2>1, <2>2 DEF CatalogStamp, workerVars, boundVars, ClaimsInStep
<1>3. CASE EnqueueUpsert(d)
  <2>1. cand[d] \in Candidates /\ hold[d] \in Nat
    BY DEF Actors
  <2>2. row' \in Rows
    BY <1>3, <2>1, InsertedRow, UpsertedRow DEF EnqueueUpsert
  <2>3. owed' \in BOOLEAN
    BY <1>3 DEF EnqueueUpsert
  <2>4. cand' \in [Passes -> Candidates] /\ cleaner' \in {"idle", "chosen", "revived"}
    BY <1>3, EmptyRow DEF EnqueueUpsert
  <2>5. QED
    BY <1>3, <2>2, <2>3, <2>4 DEF EnqueueUpsert, workerVars, boundVars, ClaimsInStep
<1>4. QED
  BY <1>1, <1>2, <1>3, <1>5 DEF CatalogPass

(* The rewritings a worker makes before it persists. *)
LEMMA WorkerRows ==
    ASSUME row \in Rows
    PROVE  /\ [row EXCEPT !.status = "pending", !.next = 0,
                           !.owner = "none", !.lease = 0] \in Rows
           /\ [row EXCEPT !.next = Never, !.owner = "none", !.lease = 0] \in Rows
           /\ [row EXCEPT !.next = Dormant, !.natural = FALSE] \in Rows
           /\ \A w \in Workers, lease \in 0 .. Lease :
                 [row EXCEPT !.status = "verifying", !.owner = w,
                             !.natural = FALSE, !.lease = lease] \in Rows
<1>1. /\ "none" \in Workers \cup {"none"} /\ 0 \in 0 .. Lease /\ 0 \in 0 .. Never
      /\ Never \in 0 .. Never /\ Dormant \in 0 .. Never /\ FALSE \in BOOLEAN
      /\ "pending" \in Statuses /\ "verifying" \in Statuses
  BY Constants DEF Statuses
<1>2. QED
  BY <1>1 DEF Rows

(* A worker copies well typed evidence from the row it selects. *)
LEMMA SelectedClaim ==
    ASSUME row \in Rows
    PROVE  [NoClaim EXCEPT !.app = row.app, !.snap = row.snap,
                           !.snapAge = row.snapAge] \in Claims
BY EmptyRow DEF Rows, Claims

(* An answer completes a claim. *)
LEMMA Answered ==
    ASSUME NEW c \in Claims, NEW status \in Exact, NEW price \in Evidence
    PROVE  [c EXCEPT !.status = status, !.price = price, !.since = 0] \in Claims
<1>1. status \in Exact \cup {"none"} /\ 0 \in 0 .. MaxHold
  BY HoldRange
<1>2. QED
  BY <1>1 DEF Claims

Labels == {"idle", "park", "select", "lease", "fetch", "persist"}

(* A worker's step: where it goes and what it may hold there. *)
LEMMA WorkerStepTyped ==
    ASSUME Typed, NEW w \in Workers, NEW to \in Labels, NEW c \in Claims,
           wpc' = [wpc EXCEPT ![w] = to],
           claim' = [claim EXCEPT ![w] = c],
           hold' = hold \/ hold' = [hold EXCEPT ![w] = 0],
           hold'[w] = hold[w] \/ c.since = 0,
           c.since <= hold[w],
           to # "persist" => c.status = "none" /\ c.since = 0,
           to = "persist" => c.status # "none",
           row' \in Rows, owed' \in BOOLEAN,
           cleaner' \in {"idle", "chosen", "revived"},
           UNCHANGED <<world, gone, passVars, changes>>, crashes' \in 0 .. MaxCrashes
    PROVE  Typed'
<1>1. w \in Actors /\ hold[w] \in 0 .. MaxHold /\ \A v \in Workers : v \in Actors
  BY DEF Actors, Typed, TypeOK
<1>2. wpc' \in [Workers -> Labels] /\ claim' \in [Workers -> Claims]
  BY DEF Typed, TypeOK, Labels
<1>3. hold' \in [Actors -> 0 .. MaxHold]
  BY HoldRange DEF Typed, TypeOK
<1>4. TypeOK'
  BY <1>2, <1>3 DEF Typed, TypeOK, passVars, Labels
<1>5. ASSUME NEW v \in Workers
      PROVE  /\ claim'[v].since <= hold'[v]
             /\ wpc'[v] # "persist" => claim'[v].status = "none" /\ claim'[v].since = 0
             /\ wpc'[v] = "persist" => claim'[v].status # "none"
  <2>1. CASE v = w
    <3>1. claim'[v] = c /\ wpc'[v] = to
      BY <2>1 DEF Typed, TypeOK
    <3>2. hold'[w] \in 0 .. MaxHold
      BY <1>1, <1>3
    <3>3. c.since <= hold'[w]
      BY <3>2, <1>1
    <3>4. QED
      BY <2>1, <3>1, <3>3
  <2>2. CASE v # w
    <3>1. claim'[v] = claim[v] /\ wpc'[v] = wpc[v] /\ hold'[v] = hold[v]
      BY <2>2, <1>1 DEF Typed, TypeOK
    <3>2. QED
      BY <3>1 DEF Typed, ClaimsInStep
  <2>3. QED
    BY <2>1, <2>2
<1>6. QED
  BY <1>4, <1>5 DEF Typed, ClaimsInStep

(* Each of the six steps of a worker, by the lemma above. *)
LEMMA WorkerTyped ==
    ASSUME Typed, NEW w \in Workers, WorkerPass(w)
    PROVE  Typed'
<1>1. /\ row \in Rows /\ owed \in BOOLEAN /\ cleaner \in {"idle", "chosen", "revived"}
      /\ claim \in [Workers -> Claims] /\ claim[w] \in Claims
      /\ crashes \in 0 .. MaxCrashes /\ world \in Prices
  BY DEF Typed, TypeOK
<1>2. hold[w] \in Nat /\ 0 <= hold[w]
  BY HoldRange DEF Typed, TypeOK, Actors
<1>3. claim[w].since <= hold[w]
  BY DEF Typed, ClaimsInStep
<1>4. wpc[w] # "persist" => claim[w].status = "none" /\ claim[w].since = 0
  BY DEF Typed, ClaimsInStep
<1>5. NoClaim \in Claims /\ NoClaim.status = "none" /\ NoClaim.since = 0
  BY EmptyRow DEF NoClaim
<1>6. claim = [claim EXCEPT ![w] = claim[w]]
  BY <1>1
<1>7. "idle" # "persist" /\ Labels = {"idle", "park", "select", "lease", "fetch", "persist"}
  BY DEF Labels
<1>8. CASE MaintainTerminal(w)
  <2>1. wpc[w] = "idle" /\ wpc' = [wpc EXCEPT ![w] = "park"]
    BY <1>8 DEF MaintainTerminal, Worker
  <2>2. row' \in Rows
    BY <1>1, <1>8, WorkerRows DEF MaintainTerminal
  <2>3. hold' = [hold EXCEPT ![w] = 0]
    BY <1>8 DEF MaintainTerminal
  <2>4. QED
    BY <1>1, <1>2, <1>3, <1>4, <1>6, <1>7, <1>8, <2>1, <2>2, <2>3, WorkerStepTyped
       DEF MaintainTerminal, boundVars
<1>9. CASE ParkNoPrice(w)
  <2>1. wpc[w] = "park" /\ wpc' = [wpc EXCEPT ![w] = "select"]
    BY <1>9 DEF ParkNoPrice, Worker
  <2>2. row' \in Rows
    BY <1>1, <1>9, WorkerRows DEF ParkNoPrice
  <2>3. QED
    BY <1>1, <1>3, <1>4, <1>6, <1>7, <1>9, <2>1, <2>2, WorkerStepTyped
       DEF ParkNoPrice, boundVars
<1>10. CASE SelectDue(w)
  <2>1. wpc[w] = "select"
    BY <1>10 DEF SelectDue, Worker
  <2>2. CASE Worker(w, "select", "lease")
             /\ claim' = [claim EXCEPT ![w] = [NoClaim EXCEPT !.app = row.app,
                             !.snap = row.snap, !.snapAge = row.snapAge]]
    <3> DEFINE c == [NoClaim EXCEPT !.app = row.app, !.snap = row.snap,
                                     !.snapAge = row.snapAge]
    <3>1. c \in Claims /\ c.status = "none" /\ c.since = 0
      BY <1>1, SelectedClaim DEF NoClaim
    <3>2. wpc' = [wpc EXCEPT ![w] = "lease"] /\ claim' = [claim EXCEPT ![w] = c]
      BY <2>2 DEF Worker
    <3> HIDE DEF c
    <3>3. QED
      BY <1>1, <1>2, <1>7, <1>10, <3>1, <3>2, WorkerStepTyped DEF SelectDue, boundVars
  <2>3. CASE Worker(w, "select", "idle") /\ UNCHANGED claim
    <3>1. wpc' = [wpc EXCEPT ![w] = "idle"]
      BY <2>3 DEF Worker
    <3>2. QED
      BY <1>1, <1>3, <1>4, <1>6, <1>7, <1>10, <2>1, <2>3, <3>1, WorkerStepTyped
         DEF SelectDue, boundVars
  <2>4. QED
    BY <1>10, <2>2, <2>3 DEF SelectDue
<1>11. CASE LeaseSelected(w)
  <2>1. wpc[w] = "lease"
    BY <1>11 DEF LeaseSelected, Worker
  <2>2. CASE Claimable
    <3>1. wpc' = [wpc EXCEPT ![w] = "fetch"] /\ claim' = claim
      BY <1>11, <2>2 DEF LeaseSelected, Worker
    <3>2. Remaining(Lease, hold[w]) \in 0 .. Lease
      BY <1>2, Constants, RemainingRange
    <3>3. row' \in Rows
      BY <1>1, <1>11, <2>2, <3>2, WorkerRows DEF LeaseSelected
    <3>4. QED
      BY <1>1, <1>3, <1>4, <1>6, <1>7, <1>11, <2>1, <3>1, <3>3, WorkerStepTyped
         DEF LeaseSelected, boundVars
  <2>3. CASE ~Claimable
    <3>1. /\ wpc' = [wpc EXCEPT ![w] = "idle"] /\ claim' = [claim EXCEPT ![w] = NoClaim]
          /\ row' = row
      BY <1>11, <2>3 DEF LeaseSelected, Worker
    <3>2. QED
      BY <1>1, <1>2, <1>5, <1>7, <1>11, <3>1, WorkerStepTyped DEF LeaseSelected, boundVars
  <2>4. QED
    BY <2>2, <2>3
<1>12. CASE FetchExact(w)
  <2>1. wpc' = [wpc EXCEPT ![w] = "persist"]
    BY <1>12 DEF FetchExact, Worker
  <2>2. PICK status \in Exact, price \in Evidence : Answer(w, status, price)
    <3>1. CASE FreshProof(claim[w])
      <4>1. Answer(w, "verified", claim[w].snap)
        BY <1>12, <3>1 DEF FetchExact
      <4>2. claim[w].snap \in Evidence /\ "verified" \in Exact
        BY <1>1 DEF Claims, Exact
      <4>3. QED
        BY <4>1, <4>2
    <3>2. CASE ~FreshProof(claim[w])
      <4>1. PICK status \in Outcomes :
               Answer(w, status, IF status = "verified" THEN world ELSE 0)
        BY <1>12, <3>2 DEF FetchExact
      <4>2. status \in Exact /\ (IF status = "verified" THEN world ELSE 0) \in Evidence
        BY <1>1, SetAssumption DEF SetAssumption, Evidence
      <4>3. QED
        BY <4>1, <4>2
    <3>3. QED
      BY <3>1, <3>2
  <2> DEFINE c == [claim[w] EXCEPT !.status = status, !.price = price, !.since = 0]
  <2>3. c \in Claims
    BY <1>1, Answered
  <2>4. c.status # "none" /\ c.since = 0
    BY <1>1 DEF Claims, Exact
  <2>5. claim' = [claim EXCEPT ![w] = c]
    BY <1>1, <2>2 DEF Answer, Claims
  <2> HIDE DEF c
  <2>6. QED
    BY <1>1, <1>2, <1>7, <1>12, <2>1, <2>3, <2>4, <2>5, WorkerStepTyped
       DEF FetchExact, boundVars
<1>13. CASE PersistOutcome(w)
  <2>1. wpc[w] = "persist" /\ wpc' = [wpc EXCEPT ![w] = "idle"]
        /\ claim' = [claim EXCEPT ![w] = NoClaim]
    BY <1>13 DEF PersistOutcome, Worker
  <2>2. claim[w].status # "none"
    BY <2>1 DEF Typed, ClaimsInStep
  <2>3. row' \in Rows
    BY <1>1, <1>13, <2>2, PersistedRow DEF PersistOutcome
  <2>4. owed' \in BOOLEAN
    BY <1>1, <1>13 DEF PersistOutcome
  <2>5. cleaner' \in {"idle", "chosen", "revived"}
    BY <1>1, <1>13 DEF PersistOutcome
  <2>6. QED
    BY <1>1, <1>2, <1>5, <1>7, <1>13, <2>1, <2>3, <2>4, <2>5, WorkerStepTyped
       DEF PersistOutcome, boundVars
<1>14. QED
  BY <1>8, <1>9, <1>10, <1>11, <1>12, <1>13 DEF WorkerPass

(* A crash forgets the claim. *)
LEMMA CrashTyped ==
    ASSUME Typed, NEW w \in Workers, WorkerCrash(w)
    PROVE  Typed'
<1>1. /\ wpc' = [wpc EXCEPT ![w] = "idle"] /\ claim' = [claim EXCEPT ![w] = NoClaim]
      /\ UNCHANGED <<world, gone, row, owed, passVars, cleaner, hold, changes>>
  BY DEF WorkerCrash
<1>2. crashes' \in 0 .. MaxCrashes
  BY Constants DEF WorkerCrash, Typed, TypeOK
<1>3. NoClaim \in Claims /\ NoClaim.status = "none" /\ NoClaim.since = 0
  BY EmptyRow DEF NoClaim
<1>4. hold[w] \in Nat /\ 0 <= hold[w] /\ "idle" \in Labels /\ "idle" # "persist"
  BY HoldRange DEF Typed, TypeOK, Actors, Labels
<1>5. row' \in Rows /\ owed' \in BOOLEAN /\ cleaner' \in {"idle", "chosen", "revived"}
  BY <1>1 DEF Typed, TypeOK
<1>6. QED
  BY <1>1, <1>2, <1>3, <1>4, <1>5, WorkerStepTyped

(* The cleaner writes only the empty row, and touches no hold but its own. *)
LEMMA CleanerTyped ==
    ASSUME Typed, CleanerSelect \/ CleanerDelete
    PROVE  Typed'
<1>1. row' \in Rows /\ owed' \in BOOLEAN /\ cleaner' \in {"idle", "chosen", "revived"}
  BY EmptyRow DEF CleanerSelect, CleanerDelete, Typed, TypeOK
<1>2. hold' \in [Actors -> 0 .. MaxHold]
  BY HoldRange DEF CleanerSelect, CleanerDelete, Typed, TypeOK
<1>3. \A w \in Workers : w \in Actors /\ hold'[w] = hold[w]
  BY SetAssumption DEF SetAssumption, CleanerSelect, CleanerDelete, Typed, TypeOK, Actors
<1>4. QED
  BY <1>1, <1>2, <1>3
     DEF CleanerSelect, CleanerDelete, Typed, TypeOK, ClaimsInStep, workerVars,
         passVars, boundVars

(* A change of the price is counted within its bound. *)
LEMMA PriceTyped ==
    ASSUME Typed, NEW p \in Prices, PriceChange(p)
    PROVE  Typed'
<1>1. gone' \in [Prices -> 0 .. MaxGone]
  BY HoldRange DEF PriceChange, Typed, TypeOK
<1>2. changes' \in 0 .. MaxChanges
  BY Constants DEF PriceChange, Typed, TypeOK
<1>3. QED
  BY <1>1, <1>2 DEF PriceChange, Typed, TypeOK, ClaimsInStep, workerVars, passVars

(* What the owner writes is a row. *)
LEMMA RecheckTyped == ASSUME Typed, OwnerRecheck PROVE Typed'
<1>1. [row EXCEPT !.status = "pending", !.next = 0, !.natural = FALSE,
                  !.owner = "none", !.seen = 0, !.reseen = TRUE] \in Rows
  <2>1. /\ "none" \in Workers \cup {"none"} /\ 0 \in 0 .. Retention + 1
        /\ 0 \in 0 .. Never /\ FALSE \in BOOLEAN /\ TRUE \in BOOLEAN
        /\ "pending" \in Statuses /\ row \in Rows
    BY Constants DEF Typed, TypeOK, Statuses
  <2>2. QED
    BY <2>1 DEF Rows
<1>2. changes' \in 0 .. MaxChanges
  BY Constants DEF OwnerRecheck, Typed, TypeOK
<1>3. QED
  BY <1>1, <1>2 DEF OwnerRecheck, Typed, TypeOK, ClaimsInStep, workerVars, passVars

(* Time passes only while everyone at work is within the bound of its pass. *)
LEMMA TickTyped == ASSUME Typed, Tick PROVE Typed'
<1>1. row' \in Rows
  BY AgedRowTyped DEF Tick, Typed, TypeOK
<1>2. gone' \in [Prices -> 0 .. MaxGone]
  <2>1. ASSUME NEW p \in Prices PROVE Older(gone[p], MaxGone - 1) \in 0 .. MaxGone
    <3>1. MaxGone - 1 \in Nat /\ (MaxGone - 1) + 1 = MaxGone
      BY HoldRange, Constants DEF MaxGone
    <3>2. gone[p] \in 0 .. MaxGone
      BY DEF Typed, TypeOK
    <3> HIDE DEF MaxGone
    <3>3. gone[p] \in 0 .. (MaxGone - 1) + 1
      BY <3>1, <3>2
    <3>4. Older(gone[p], MaxGone - 1) \in 0 .. (MaxGone - 1) + 1
      BY <3>1, <3>3, AgeRange
    <3>5. QED
      BY <3>1, <3>4
  <2>2. QED
    BY <2>1, HoldRange DEF Tick
<1>3. \A a \in Actors : Working(a) => hold[a] + 1 \in 0 .. MaxHold
  <2>1. ASSUME NEW a \in Actors, Working(a)
        PROVE  hold[a] + 1 \in 0 .. MaxHold
    <3>1. hold[a] \in 0 .. MaxHold
      BY DEF Typed, TypeOK
    <3>2. \/ hold[a] < PromptWork \/ hold[a] < PromptSearch
          \/ hold[a] < PromptPass \/ hold[a] < PromptClean
      BY <2>1, Constants DEF Tick, Prompt, Working, Typed, TypeOK
    <3>3. QED
      BY <3>1, <3>2, HoldRange, Constants
  <2>2. QED
    BY <2>1
<1>4. hold' \in [Actors -> 0 .. MaxHold]
  BY <1>3, HoldRange DEF Tick
<1>5. ASSUME NEW w \in Workers
      PROVE  /\ claim'[w] \in Claims
             /\ claim'[w].since <= hold'[w]
             /\ wpc[w] # "persist" => claim'[w].status = "none" /\ claim'[w].since = 0
             /\ wpc[w] = "persist" => claim'[w].status # "none"
  <2>1. /\ claim[w] \in Claims /\ claim[w].since <= hold[w]
        /\ wpc[w] # "persist" => claim[w].status = "none" /\ claim[w].since = 0
        /\ wpc[w] = "persist" => claim[w].status # "none"
    BY DEF Typed, TypeOK, ClaimsInStep
  <2>2. w \in Actors /\ hold'[w] = hold[w] + 1 /\ hold'[w] \in 0 .. MaxHold
        /\ hold[w] \in 0 .. MaxHold
    BY <1>4 DEF Tick, Working, Actors, Typed, TypeOK
  <2>3. CASE wpc[w] = "idle"
    <3>1. claim'[w] = claim[w]
      BY <2>3 DEF Tick
    <3>2. QED
      BY <2>1, <2>2, <2>3, <3>1 DEF Claims
  <2>4. CASE wpc[w] # "idle"
    <3> DEFINE c == claim[w]
               snapAge == IF c.snap = 0 THEN 0 ELSE Older(c.snapAge, SnapLife)
               since == IF c.status = "none" THEN 0 ELSE c.since + 1
    <3>1. claim'[w] = [c EXCEPT !.snapAge = snapAge, !.since = since]
      BY <2>4 DEF Tick, AgedClaim
    <3>2. snapAge \in 0 .. SnapLife + 1
      <4>1. Older(c.snapAge, SnapLife) \in 0 .. SnapLife + 1
        BY <2>1, AgeRange, Constants DEF Claims
      <4>2. QED
        BY <4>1, Constants
    <3>3. since \in 0 .. MaxHold /\ since <= hold'[w]
      BY <2>1, <2>2, HoldRange DEF Claims
    <3>4. c.status = "none" => since = 0
      OBVIOUS
    <3>5. c \in Claims
      BY <2>1
    <3> HIDE DEF c, snapAge, since
    <3>6. claim'[w] \in Claims /\ claim'[w].status = c.status /\ claim'[w].since = since
      BY <3>1, <3>2, <3>3, <3>5 DEF Claims
    <3>7. QED
      BY <2>1, <2>2, <3>3, <3>4, <3>6 DEF c
  <2>5. QED
    BY <2>3, <2>4
<1>6. claim' \in [Workers -> Claims]
  BY <1>5 DEF Tick
<1>7. QED
  BY <1>1, <1>2, <1>4, <1>5, <1>6
     DEF Tick, Typed, TypeOK, ClaimsInStep, passVars, boundVars

(* Typed is inductive. *)
LEMMA TypedStep == Typed /\ [Next]_vars => Typed'
<1> SUFFICES ASSUME Typed, [Next]_vars PROVE Typed'
  OBVIOUS
<1>1. CASE UNCHANGED vars
  BY <1>1 DEF vars, Typed, TypeOK, ClaimsInStep, workerVars, passVars, boundVars
<1>2. QED
  BY <1>1, CatalogTyped, WorkerTyped, CrashTyped, CleanerTyped, PriceTyped, TickTyped,
     RecheckTyped DEF Next

(* Type correctness: in every reachable state the row, the claims and the
   candidates are what the tables and the code can hold, ages and schedules
   stay within the thresholds that tell them apart. *)
THEOREM TypeCorrect == Spec => []TypeOK
<1>1. Typed => TypeOK
  BY DEF Typed
<1>2. QED
  BY <1>1, TypedInit, TypedStep, PTL DEF Spec

-----------------------------------------------------------------------------
(* A leased row is 'verifying', due, and named after its worker. *)
LEMMA LeaseStep == Typed /\ LeaseInvariant /\ [Next]_vars => LeaseInvariant'
<1> SUFFICES ASSUME Typed, LeaseInvariant, [Next]_vars PROVE LeaseInvariant'
  OBVIOUS
<1> USE DEF LeaseInvariant, Leased
<1>1. row \in Rows /\ Lease \in Nat /\ Never \in Nat
  BY Constants DEF Typed, TypeOK
<1>2. CASE row' = row
  BY <1>2
<1>3. CASE row' = NoRow
  BY <1>3 DEF NoRow
<1>4. ASSUME NEW d \in Passes, EnqueueUpsert(d) PROVE LeaseInvariant'
  <2>1. CASE ~Present
    BY <1>4, <2>1 DEF EnqueueUpsert, NewRow, NoRow, Present
  <2>2. CASE Present
    <3>1. /\ row'.status = (IF Woken(cand[d]) THEN "pending" ELSE row.status)
          /\ row'.next = (IF Scheduled(cand[d]) THEN Least(row.next, 0) ELSE row.next)
          /\ row'.owner = row.owner /\ row'.lease = row.lease
      BY <1>1, <1>4, <2>2 DEF EnqueueUpsert, UpdatedRow, Rows
    <3>2. row.status = "verifying" => ~Woken(cand[d]) /\ ~Scheduled(cand[d])
      BY DEF Woken, Scheduled, Rearmable
    <3>3. QED
      BY <1>1, <3>1, <3>2 DEF Rows
  <2>3. QED
    BY <2>1, <2>2
<1>5. ASSUME NEW w \in Workers, MaintainTerminal(w) PROVE LeaseInvariant'
  <2>1. CASE row' = [row EXCEPT !.status = "pending", !.next = 0,
                                !.owner = "none", !.lease = 0]
    <3>1. row'.status = "pending" /\ row'.owner = "none" /\ row'.lease = 0
      BY <1>1, <2>1 DEF Rows
    <3>2. QED
      BY <3>1
  <2>2. CASE Terminal /\ row' = [row EXCEPT !.next = Never, !.owner = "none", !.lease = 0]
    <3>1. row'.status = "terminal" /\ row'.owner = "none" /\ row'.lease = 0
      BY <1>1, <2>2 DEF Rows, Terminal
    <3>2. QED
      BY <3>1
  <2>3. QED
    BY <1>2, <1>5, <2>1, <2>2 DEF MaintainTerminal
<1>6. ASSUME NEW w \in Workers, ParkNoPrice(w) PROVE LeaseInvariant'
  <2>1. CASE Parkable /\ row' = [row EXCEPT !.next = Dormant, !.natural = FALSE]
    <3>1. row.status = "no_price"
      BY <2>1 DEF Parkable
    <3>2. row'.status = row.status /\ row'.owner = row.owner /\ row'.lease = row.lease
      BY <1>1, <2>1 DEF Rows
    <3>3. QED
      BY <3>1, <3>2
  <2>2. QED
    BY <1>2, <1>6, <2>1 DEF ParkNoPrice
<1>7. ASSUME NEW w \in Workers, LeaseSelected(w) PROVE LeaseInvariant'
  <2>1. CASE Claimable
    <3>1. w # "none" /\ row.next = 0
      BY <2>1, SetAssumption DEF SetAssumption, Claimable, Due
    <3>2. /\ row'.status = "verifying" /\ row'.owner = w /\ row'.next = row.next
      BY <1>1, <1>7, <2>1 DEF LeaseSelected, Rows
    <3>3. QED
      BY <3>1, <3>2
  <2>2. QED
    BY <1>2, <1>7, <2>1 DEF LeaseSelected
<1>8. ASSUME NEW w \in Workers, PersistOutcome(w) PROVE LeaseInvariant'
  <2>1. CASE Holds(w)
    <3>1. claim[w].status # "verifying"
      BY <1>8 DEF PersistOutcome, Worker, Typed, TypeOK, Claims, Exact
    <3>2. row' = Persisted(claim[w])
      BY <1>8, <2>1 DEF PersistOutcome
    <3>3. row'.status = claim[w].status /\ row'.owner = "none" /\ row'.lease = 0
      BY <1>1, <3>2 DEF Persisted, Rows
    <3>4. QED
      BY <3>1, <3>3
  <2>2. QED
    BY <1>2, <1>8, <2>1 DEF PersistOutcome
<1>9. CASE Tick
  BY <1>1, <1>9, Constants DEF Tick, AgedRow, Left, Rows
<1>11. CASE OwnerRecheck
  BY <1>1, <1>11 DEF OwnerRecheck, Rows
<1>10. QED
  BY <1>2, <1>3, <1>4, <1>5, <1>6, <1>7, <1>8, <1>9, <1>11
     DEF Next, vars, CatalogPass, CatalogFetch, CatalogStamp, EnqueueLoad, WorkerPass, SelectDue,
         FetchExact, WorkerCrash, CleanerSelect, CleanerDelete, PriceChange

(* Leases are sound: only a 'verifying' row is leased, only by the worker its
   token names, and it stays due, so that a dead worker's row can be claimed
   again as soon as its lease has run out. *)
THEOREM LeaseCorrect == Spec => []LeaseInvariant
<1>1. Init => LeaseInvariant
  BY DEF Init, LeaseInvariant, Leased, NoRow
<1>2. QED
  BY <1>1, TypedInit, TypedStep, LeaseStep, PTL DEF Spec

-----------------------------------------------------------------------------
(* A worker that may still write, because the row carries its token, has an
   observation no older than the result the row stores: nobody stored another
   one since it leased the row. *)
HolderIsNewest ==
    \A w \in Workers :
        wpc[w] = "persist" /\ row.owner = w
            => row.exact = 0 \/ claim[w].since <= row.vage

(* Ages of results are told apart for as long as a worker's pass may last. *)
AgesTellPasses == PromptWork <= CleanAge + 1

(* A rewriting of the row that keeps the result, or leaves the row unleased,
   keeps HolderIsNewest as long as the claims stay. *)
LEMMA KeepsResult ==
    ASSUME Typed, HolderIsNewest,
           \A w \in Workers : wpc'[w] = "persist" =>
               wpc[w] = "persist" /\ claim'[w] = claim[w],
           \/ row'.exact = row.exact /\ row'.vage = row.vage
                 /\ row'.owner \in {row.owner, "none"}
           \/ row'.owner = "none" \/ row'.exact = 0
    PROVE  HolderIsNewest'
BY SetAssumption DEF HolderIsNewest, SetAssumption

(* HolderIsNewest is inductive: the observation of a worker that holds the row
   and the result the row stores age together, and a result is stored only by
   giving up the lease. *)
LEMMA HolderStep ==
    ASSUME AgesTellPasses
    PROVE  Typed /\ LeaseInvariant /\ HolderIsNewest /\ [Next]_vars => HolderIsNewest'
<1> SUFFICES ASSUME Typed, LeaseInvariant, HolderIsNewest, [Next]_vars
             PROVE  HolderIsNewest'
  OBVIOUS
<1>1. row \in Rows /\ claim \in [Workers -> Claims] /\ "none" \notin Workers
  BY SetAssumption DEF SetAssumption, Typed, TypeOK
<1>2. CASE UNCHANGED <<row, wpc, claim>>
  BY <1>2, KeepsResult
<1>3. ASSUME NEW d \in Passes, EnqueueUpsert(d) PROVE HolderIsNewest'
  <2>1. UNCHANGED <<wpc, claim>>
    BY <1>3 DEF EnqueueUpsert, workerVars
  <2>2. CASE ~Present
    <3>1. row'.exact = 0
      BY <1>3, <2>2 DEF EnqueueUpsert, NewRow, NoRow
    <3>2. QED
      BY <2>1, <3>1, KeepsResult
  <2>3. CASE Present
    <3>1. row'.exact = row.exact /\ row'.vage = row.vage /\ row'.owner = row.owner
      BY <1>1, <1>3, <2>3 DEF EnqueueUpsert, UpdatedRow, Rows
    <3>2. QED
      BY <2>1, <3>1, KeepsResult
  <2>4. QED
    BY <2>2, <2>3
<1>4. ASSUME NEW w \in Workers, MaintainTerminal(w) \/ ParkNoPrice(w) PROVE HolderIsNewest'
  <2>1. claim' = claim /\ \A v \in Workers : wpc'[v] = "persist" => wpc[v] = "persist"
    BY <1>4 DEF MaintainTerminal, ParkNoPrice, Worker, Typed, TypeOK
  <2>2. row'.exact = row.exact /\ row'.vage = row.vage /\ row'.owner \in {row.owner, "none"}
    <3>1. CASE row' = [row EXCEPT !.status = "pending", !.next = 0,
                                  !.owner = "none", !.lease = 0]
      BY <1>1, <3>1 DEF Rows
    <3>2. CASE row' = [row EXCEPT !.next = Never, !.owner = "none", !.lease = 0]
      BY <1>1, <3>2 DEF Rows
    <3>3. CASE row' = [row EXCEPT !.next = Dormant, !.natural = FALSE]
      BY <1>1, <3>3 DEF Rows
    <3>4. QED
      BY <1>4, <3>1, <3>2, <3>3 DEF MaintainTerminal, ParkNoPrice
  <2>3. QED
    BY <2>1, <2>2, KeepsResult
<1>5. ASSUME NEW w \in Workers, SelectDue(w) \/ WorkerCrash(w) PROVE HolderIsNewest'
  <2>1. row' = row /\ \A v \in Workers : wpc'[v] = "persist" =>
                         wpc[v] = "persist" /\ claim'[v] = claim[v]
    BY <1>5 DEF SelectDue, WorkerCrash, Worker, Typed, TypeOK
  <2>2. QED
    BY <2>1, KeepsResult
<1>6. ASSUME NEW w \in Workers, LeaseSelected(w) PROVE HolderIsNewest'
  <2>1. \A v \in Workers : wpc'[v] = "persist" =>
            v # w /\ wpc[v] = "persist" /\ claim'[v] = claim[v]
    BY <1>6 DEF LeaseSelected, Worker, Typed, TypeOK
  <2>2. CASE Claimable
    <3>1. row'.owner = w
      BY <1>1, <1>6, <2>2 DEF LeaseSelected, Rows
    <3>2. QED
      BY <2>1, <3>1 DEF HolderIsNewest
  <2>3. CASE ~Claimable
    BY <1>6, <2>1, <2>3, KeepsResult DEF LeaseSelected
  <2>4. QED
    BY <2>2, <2>3
<1>7. ASSUME NEW w \in Workers, FetchExact(w) PROVE HolderIsNewest'
  <2>1. row' = row /\ row.vage \in Nat
    BY <1>1, <1>7, Constants DEF FetchExact, Rows
  <2>2. claim'[w].since = 0
    <3>1. PICK status, price : Answer(w, status, price)
      BY <1>7 DEF FetchExact
    <3>2. claim' = [claim EXCEPT ![w] = [claim[w] EXCEPT !.status = status,
                                               !.price = price, !.since = 0]]
      BY <1>1, <3>1 DEF Answer, Claims
    <3>3. QED
      BY <1>1, <3>2 DEF Claims
  <2>3. \A v \in Workers \ {w} : wpc'[v] = wpc[v] /\ claim'[v] = claim[v]
    BY <1>1, <1>7 DEF FetchExact, Answer, Worker, Typed, TypeOK
  <2>4. QED
    BY <2>1, <2>2, <2>3 DEF HolderIsNewest
<1>8. ASSUME NEW w \in Workers, PersistOutcome(w) PROVE HolderIsNewest'
  <2>1. \A v \in Workers : wpc'[v] = "persist" =>
            wpc[v] = "persist" /\ claim'[v] = claim[v]
    BY <1>8 DEF PersistOutcome, Worker, Typed, TypeOK
  <2>2. CASE Holds(w)
    <3>1. row' = Persisted(claim[w])
      BY <1>8, <2>2 DEF PersistOutcome
    <3>2. row'.owner = "none"
      BY <1>1, <3>1 DEF Persisted, Rows
    <3>3. QED
      BY <2>1, <3>2, KeepsResult
  <2>3. CASE ~Holds(w)
    BY <1>8, <2>1, <2>3, KeepsResult DEF PersistOutcome
  <2>4. QED
    BY <2>2, <2>3
<1>9. CASE row' = NoRow /\ UNCHANGED <<wpc, claim>>
  BY <1>9, KeepsResult DEF NoRow
<1>10. CASE Tick
  <2> SUFFICES ASSUME NEW w \in Workers, wpc'[w] = "persist", row'.owner = w
               PROVE  row'.exact = 0 \/ claim'[w].since <= row'.vage
    BY DEF HolderIsNewest
  <2>1. wpc[w] = "persist" /\ claim[w] \in Claims /\ hold[w] \in 0 .. MaxHold
        /\ claim[w].since <= hold[w] /\ hold[w] < PromptWork
    BY <1>1, <1>10 DEF Tick, Prompt, Typed, TypeOK, ClaimsInStep, Actors
  <2>2. claim'[w].since = claim[w].since + 1
    <3>1. claim'[w] = AgedClaim(claim[w]) /\ claim[w].status # "none"
      BY <1>1, <1>10, <2>1 DEF Tick, Typed, ClaimsInStep
    <3>2. QED
      BY <2>1, <3>1 DEF AgedClaim, Claims
  <2>3. CASE Present
    <3>1. /\ row'.owner = row.owner /\ row'.exact = row.exact
          /\ row'.vage = (IF row.exact = 0 THEN 0 ELSE Older(row.vage, CleanAge))
      BY <1>1, <1>10, <2>3 DEF Tick, AgedRow, Rows
    <3>2. row.exact = 0 \/ claim[w].since <= row.vage
      BY <2>1, <3>1 DEF HolderIsNewest
    <3>3. row.vage \in Nat /\ claim[w].since \in Nat /\ MaxHold \in Nat
      BY <1>1, <2>1, HoldRange, Constants DEF Rows, Claims
    <3>4. CASE row.vage <= CleanAge /\ row.exact # 0
      BY <2>2, <3>1, <3>2, <3>3, <3>4, Constants DEF Older
    <3>5. CASE row.vage > CleanAge /\ row.exact # 0
      <4>1. row'.vage = row.vage /\ row.vage >= CleanAge + 1
        BY <3>1, <3>3, <3>5, Constants DEF Older
      <4>2. claim[w].since + 1 <= CleanAge + 1
        BY <2>1, <3>3, Constants DEF AgesTellPasses
      <4>3. QED
        BY <2>2, <3>3, <4>1, <4>2, Constants
    <3>6. QED
      BY <3>1, <3>3, <3>4, <3>5, Constants
  <2>4. CASE ~Present
    <3>1. row' = row
      BY <1>10, <2>4 DEF Tick
    <3>2. QED
      BY <1>1, <2>4, <3>1 DEF LeaseInvariant, Present
  <2>5. QED
    BY <2>3, <2>4
<1>12. CASE OwnerRecheck
  <2>1. UNCHANGED <<wpc, claim>> /\ row'.owner = "none"
    BY <1>1, <1>12 DEF OwnerRecheck, workerVars, Rows
  <2>2. QED
    BY <2>1, KeepsResult
<1>11. QED
  BY <1>2, <1>3, <1>4, <1>5, <1>6, <1>7, <1>8, <1>9, <1>10, <1>12
     DEF Next, vars, CatalogPass, CatalogFetch, CatalogStamp, EnqueueLoad, WorkerPass,
         CleanerSelect, CleanerDelete, PriceChange, workerVars

(* No stale overwrite: if a worker's pass ends before the ages of results
   saturate, then whatever number of workers run, crash and come late, the
   result a row stores is only ever replaced by one observed no earlier. *)
THEOREM NewestResult ==
    ASSUME AgesTellPasses
    PROVE  Spec => NoStaleOverwrite
<1> DEFINE Inv == Typed /\ LeaseInvariant /\ HolderIsNewest
<1>1. Init => Inv
  <2>1. Init => LeaseInvariant /\ HolderIsNewest
    BY DEF Init, LeaseInvariant, HolderIsNewest, Leased, NoRow
  <2>2. QED
    BY <2>1, TypedInit
<1>2. Inv /\ [Next]_vars => Inv'
  BY TypedStep, LeaseStep, HolderStep
<1>3. Inv /\ [Next]_vars =>
        [\A w \in Workers :
            PersistOutcome(w) /\ row' # row /\ claim[w].status = "verified"
                => row.exact = 0 \/ claim[w].since <= row.vage]_vars
  BY DEF PersistOutcome, Worker, Holds, HolderIsNewest
<1> HIDE DEF Inv
<1>4. QED
  BY <1>1, <1>2, <1>3, PTL DEF Spec, NoStaleOverwrite

-----------------------------------------------------------------------------
(* How long ago the prices that travel through the queue were the item's: the
   price of the catalog's candidate, the price inside a snapshot while it still
   counts as proof, in the row and in a worker's copy of it, and the answer of a
   fetch.  A claim holds no snapshot before it is selected. *)
CandidatesRecent ==
    \A d \in Passes :
        /\ ppc[d] = "search" => hold[d] <= PromptSearch
        /\ ppc[d] = "search" /\ cand[d].price # 0 => gone[cand[d].price] <= hold[d]
        /\ ppc[d] \in Enqueueing /\ cand[d].price # 0
              => gone[cand[d].price] <= PromptSearch + hold[d]
SnapshotRecent(c) ==
    c.snap # 0 /\ c.snapAge <= SnapLife => gone[c.snap] <= PromptSearch + c.snapAge
ClaimsRecent ==
    \A w \in Workers :
        /\ SnapshotRecent(claim[w])
        /\ wpc[w] \in {"idle", "park", "select"} => claim[w].snap = 0
RowRecent == Present => SnapshotRecent(row)
AnswersRecent ==
    \A w \in Workers :
        claim[w].status = "verified" =>
            claim[w].price \in Prices /\ gone[claim[w].price] <= SnapLife + PromptSearch + hold[w]
PromptWorkers == \A w \in Workers : hold[w] <= PromptWork
PricesRecent ==
    /\ gone[world] = 0 /\ PromptWorkers
    /\ CandidatesRecent /\ RowRecent /\ ClaimsRecent /\ AnswersRecent

(* A price is gone for at most one tick more after a tick, and for no longer
   after any other step. *)
LEMMA GoneStep ==
    ASSUME Typed, gone[world] = 0, [Next]_vars
    PROVE  /\ gone'[world'] = 0
           /\ \A p \in Prices : gone'[p] \in Nat /\ gone[p] \in Nat
           /\ Tick => \A p \in Prices : gone'[p] <= gone[p] + 1
           /\ gone' = gone \/ Tick \/ \E p \in Prices : PriceChange(p)
           /\ ~Tick => \A p \in Prices : gone'[p] <= gone[p]
<1>1. Typed'
  BY TypedStep
<1>2. world \in Prices /\ gone \in [Prices -> 0 .. MaxGone] /\ MaxGone \in Nat
      /\ gone' \in [Prices -> 0 .. MaxGone]
  BY <1>1, HoldRange DEF Typed, TypeOK
<1>3. CASE UNCHANGED <<gone, world>>
  BY <1>2, <1>3
<1>4. CASE Tick
  <2>1. world' = world /\ gone' = [p \in Prices |->
                  IF p = world THEN 0 ELSE Older(gone[p], MaxGone - 1)]
    BY <1>4 DEF Tick
  <2>2. QED
    BY <1>2, <1>4, <2>1 DEF Older
<1>5. ASSUME NEW p \in Prices, PriceChange(p)
      PROVE  /\ gone'[world'] = 0 /\ \A q \in Prices : gone'[q] <= gone[q]
  BY <1>2, <1>5 DEF PriceChange
<1>6. UNCHANGED <<gone, world>> \/ Tick \/ \E p \in Prices : PriceChange(p)
  BY DEF Next, vars, CatalogPass, CatalogFetch, CatalogStamp, EnqueueLoad, EnqueueUpsert, WorkerPass,
         MaintainTerminal, ParkNoPrice, SelectDue, LeaseSelected, FetchExact,
         PersistOutcome, WorkerCrash, CleanerSelect, CleanerDelete, OwnerRecheck
<1>7. QED
  BY <1>2, <1>3, <1>4, <1>5, <1>6

(* A worker's pass is within its bound. *)
LEMMA PromptStep == Typed /\ PromptWorkers /\ [Next]_vars => PromptWorkers'
<1> SUFFICES ASSUME Typed, PromptWorkers, [Next]_vars, NEW w \in Workers
             PROVE  hold'[w] <= PromptWork
  BY DEF PromptWorkers
<1>1. hold \in [Actors -> 0 .. MaxHold] /\ w \in Actors /\ hold[w] <= PromptWork
      /\ PromptWork \in Nat /\ MaxHold \in Nat
  BY Constants, HoldRange DEF Typed, TypeOK, PromptWorkers, Actors
<1>2. CASE hold'[w] = hold[w]
  BY <1>1, <1>2
<1>3. CASE Tick
  BY <1>1, <1>3 DEF Tick, Prompt, Working
<1>4. ASSUME NEW v \in Workers, MaintainTerminal(v) PROVE hold'[w] <= PromptWork
  BY <1>1, <1>4 DEF MaintainTerminal
<1>5. ASSUME NEW d \in Passes, CatalogFetch(d) \/ CatalogStamp(d)
      PROVE  hold'[w] <= PromptWork
  BY <1>1, <1>5 DEF CatalogFetch, CatalogStamp
<1>6. CASE CleanerSelect
  BY <1>1, <1>6 DEF CleanerSelect
<1>7. QED
  BY <1>2, <1>3, <1>4, <1>5, <1>6
     DEF Next, vars, CatalogPass, EnqueueLoad, EnqueueUpsert, WorkerPass, ParkNoPrice,
         SelectDue, LeaseSelected, FetchExact, PersistOutcome, WorkerCrash,
         CleanerDelete, PriceChange, OwnerRecheck

(* A candidate was the item's price when it was found. *)
LEMMA CandidatesStep ==
    Typed /\ gone[world] = 0 /\ CandidatesRecent /\ [Next]_vars => CandidatesRecent'
<1> DEFINE Recent(d) ==
              /\ ppc[d] = "search" => hold[d] <= PromptSearch
              /\ ppc[d] = "search" /\ cand[d].price # 0 => gone[cand[d].price] <= hold[d]
              /\ ppc[d] \in Enqueueing /\ cand[d].price # 0
                    => gone[cand[d].price] <= PromptSearch + hold[d]
<1> SUFFICES ASSUME Typed, gone[world] = 0, \A d \in Passes : Recent(d), [Next]_vars,
                    NEW d \in Passes
             PROVE  Recent(d)'
  BY DEF CandidatesRecent
<1>1. /\ d \in Actors /\ hold \in [Actors -> 0 .. MaxHold]
      /\ ppc \in [Passes -> {"idle", "search"} \cup Enqueueing]
      /\ cand \in [Passes -> Candidates] /\ cand[d].price \in Prices \cup {0}
      /\ world \in Prices /\ hold[d] \in Nat /\ PromptSearch \in Nat
  BY HoldRange, Constants DEF Typed, TypeOK, Actors, Candidates, Evidence
<1>2. Recent(d)
  OBVIOUS
<1>3. CASE /\ UNCHANGED cand /\ ~Tick /\ hold'[d] = hold[d]
           /\ ppc'[d] = ppc[d] \/ ppc'[d] = "idle" \/ {ppc[d], ppc'[d]} \subseteq Enqueueing
  <2>1. cand[d].price # 0 =>
            /\ gone'[cand[d].price] <= gone[cand[d].price]
            /\ gone'[cand[d].price] \in Nat /\ gone[cand[d].price] \in Nat
    BY <1>1, <1>3, GoneStep
  <2>2. QED
    BY <1>1, <1>2, <1>3, <2>1 DEF Enqueueing
<1>4. CASE Tick
  <2>1. /\ UNCHANGED <<ppc, cand>> /\ hold'[d] = IF Working(d) THEN hold[d] + 1 ELSE 0
        /\ ppc[d] = "search" => hold[d] < PromptSearch
    BY <1>1, <1>4 DEF Tick, passVars, Prompt
  <2>2. ppc[d] # "idle" => hold'[d] = hold[d] + 1
    BY <2>1 DEF Working
  <2>3. cand[d].price # 0 =>
            /\ gone'[cand[d].price] <= gone[cand[d].price] + 1
            /\ gone'[cand[d].price] \in Nat /\ gone[cand[d].price] \in Nat
    BY <1>1, <1>4, GoneStep
  <2>4. QED
    BY <1>1, <1>2, <2>1, <2>2, <2>3 DEF Enqueueing
<1>5. CASE CatalogFetch(d)
  <2>1. cand'[d].price \in {world, 0} /\ hold'[d] = 0 /\ gone' = gone /\ ppc'[d] = "search"
    BY <1>1, <1>5 DEF CatalogFetch
  <2>2. QED
    BY <1>1, <2>1 DEF Enqueueing
<1>6. CASE CatalogStamp(d)
  <2>1. /\ cand' = cand /\ hold'[d] = 0 /\ gone' = gone
        /\ ppc[d] = "search" /\ ppc'[d] = "load"
    BY <1>1, <1>6 DEF CatalogStamp
  <2>2. cand[d].price # 0 => gone[cand[d].price] \in Nat
    BY <1>1, GoneStep
  <2>3. QED
    BY <1>1, <1>2, <2>1, <2>2
<1>7. CASE EnqueueLoad(d)
  BY <1>1, <1>3, <1>7 DEF EnqueueLoad, Enqueueing, Tick, passVars
<1>8. CASE EnqueueUpsert(d)
  BY <1>1, <1>8 DEF EnqueueUpsert, Enqueueing
<1>9. ASSUME NEW e \in Passes, e # d, CatalogPass(e) PROVE Recent(d)'
  <2>1. /\ cand'[d] = cand[d] /\ hold'[d] = hold[d] /\ gone' = gone /\ ppc'[d] = ppc[d]
    BY <1>1, <1>9 DEF CatalogPass, CatalogFetch, CatalogStamp, EnqueueLoad, EnqueueUpsert
  <2>2. QED
    BY <1>2, <2>1
<1>10. ASSUME NEW w \in Workers, MaintainTerminal(w) PROVE Recent(d)'
  <2>1. w # d
    BY SetAssumption DEF SetAssumption
  <2>2. hold'[d] = hold[d] /\ UNCHANGED <<ppc, cand, gone>>
    BY <1>1, <1>10, <2>1 DEF MaintainTerminal, passVars
  <2>3. QED
    BY <1>2, <2>2
<1>11. CASE CleanerSelect
  <2>1. "cleaner" # d
    BY SetAssumption DEF SetAssumption
  <2>2. hold'[d] = hold[d] /\ UNCHANGED <<ppc, cand, gone>>
    BY <1>1, <1>11, <2>1 DEF CleanerSelect, passVars
  <2>3. QED
    BY <1>2, <2>2
<1>12. CASE UNCHANGED <<ppc, cand, hold>>
  BY <1>3, <1>4, <1>12
<1>13. QED
  BY <1>4, <1>5, <1>6, <1>7, <1>8, <1>9, <1>10, <1>11, <1>12
     DEF Next, vars, CatalogPass, WorkerPass, ParkNoPrice, SelectDue, LeaseSelected,
         FetchExact, PersistOutcome, WorkerCrash, CleanerDelete, PriceChange,
         OwnerRecheck, passVars

(* A snapshot that keeps its price and its age stays recent in any step but a
   tick, and one that ages as long as it counts stays so in a tick. *)
LEMMA SnapshotKept ==
    ASSUME Typed, gone[world] = 0, [Next]_vars,
           NEW c, NEW d, SnapshotRecent(c),
           c.snap \in Evidence, c.snapAge \in Nat, d.snap = c.snap,
           \/ ~Tick /\ d.snapAge = c.snapAge
           \/ d.snapAge = Older(c.snapAge, SnapLife)
    PROVE  d.snap # 0 /\ d.snapAge <= SnapLife
               => gone'[d.snap] <= PromptSearch + d.snapAge
<1> SUFFICES ASSUME d.snap # 0, d.snapAge <= SnapLife
             PROVE  gone'[d.snap] <= PromptSearch + d.snapAge
  OBVIOUS
<1>1. c.snap \in Prices /\ SnapLife \in Nat /\ PromptSearch \in Nat
  BY Constants DEF Evidence
<1>2. c.snapAge <= SnapLife /\ gone[c.snap] <= PromptSearch + c.snapAge
  BY <1>1 DEF SnapshotRecent, Older
<1>3. CASE ~Tick /\ d.snapAge = c.snapAge
  BY <1>1, <1>2, <1>3, GoneStep
<1>4. CASE d.snapAge = Older(c.snapAge, SnapLife)
  <2>1. d.snapAge = c.snapAge + 1
    BY <1>2, <1>4 DEF Older
  <2>2. QED
    BY <1>1, <1>2, <2>1, GoneStep
<1>5. QED
  BY <1>3, <1>4

(* The snapshot in the row: the upsert takes the candidate's price with the age
   of its pass, everybody else leaves it alone. *)
LEMMA RowStep ==
    Typed /\ LeaseInvariant /\ gone[world] = 0 /\ CandidatesRecent /\ RowRecent
        /\ [Next]_vars => RowRecent'
<1> SUFFICES ASSUME Typed, LeaseInvariant, gone[world] = 0, CandidatesRecent, RowRecent,
                    [Next]_vars, row'.status # "absent"
             PROVE  row'.snap # 0 /\ row'.snapAge <= SnapLife
                        => gone'[row'.snap] <= PromptSearch + row'.snapAge
  BY DEF RowRecent, SnapshotRecent, Present
<1>1. row \in Rows /\ row.snap \in Evidence /\ row.snapAge \in Nat /\ SnapLife \in Nat
  BY Constants DEF Typed, TypeOK, Rows
<1>2. CASE ~Tick /\ Present /\ row'.snap = row.snap /\ row'.snapAge = row.snapAge
  BY <1>1, <1>2, SnapshotKept DEF RowRecent
<1>3. CASE Tick
  <2>1. CASE Present /\ row.snap # 0
    <3>1. row'.snap = row.snap /\ row'.snapAge = Older(row.snapAge, SnapLife)
      BY <1>1, <1>3, <2>1 DEF Tick, AgedRow, Rows
    <3>2. QED
      BY <1>1, <2>1, <3>1, SnapshotKept DEF RowRecent
  <2>2. CASE Present /\ row.snap = 0
    BY <1>1, <1>3, <2>2 DEF Tick, AgedRow, Rows
  <2>3. CASE ~Present
    BY <1>3, <2>3 DEF Tick, Present
  <2>4. QED
    BY <2>1, <2>2, <2>3
<1>4. ASSUME NEW d \in Passes, EnqueueUpsert(d)
      PROVE  row'.snap # 0 /\ row'.snapAge <= SnapLife
                 => gone'[row'.snap] <= PromptSearch + row'.snapAge
  <2> SUFFICES ASSUME row'.snap # 0, row'.snapAge <= SnapLife
               PROVE  gone'[row'.snap] <= PromptSearch + row'.snapAge
    OBVIOUS
  <2>1. /\ cand[d] \in Candidates /\ hold[d] \in Nat /\ gone' = gone
        /\ cand[d].price # 0 => gone[cand[d].price] <= PromptSearch + hold[d]
    BY <1>4, HoldRange
       DEF EnqueueUpsert, Enqueueing, CandidatesRecent, Typed, TypeOK, Actors
  <2>2. CASE cand[d].kind = "complete"
    <3>1. row'.snap = cand[d].price /\ row'.snapAge = Least(hold[d], SnapLife + 1)
      BY <1>1, <1>4, <2>2 DEF EnqueueUpsert, UpdatedRow, NewRow, NoRow, Rows
    <3>2. row'.snapAge = hold[d]
      BY <1>1, <2>1, <3>1 DEF Least
    <3>3. QED
      BY <2>1, <3>1, <3>2
  <2>3. CASE cand[d].kind # "complete"
    <3>1. Present /\ row'.snap = row.snap /\ row'.snapAge = row.snapAge
      BY <1>1, <1>4, <2>3 DEF EnqueueUpsert, UpdatedRow, NewRow, NoRow, Rows
    <3>2. QED
      BY <2>1, <3>1 DEF SnapshotRecent, RowRecent
  <2>4. QED
    BY <2>2, <2>3
<1>5. ASSUME NEW w \in Workers,
             \/ MaintainTerminal(w) \/ ParkNoPrice(w) \/ LeaseSelected(w)
             \/ PersistOutcome(w)
      PROVE  Present /\ row'.snap = row.snap /\ row'.snapAge = row.snapAge
  <2>1. CASE MaintainTerminal(w)
    BY <1>1, <2>1 DEF MaintainTerminal, Rows, Terminal, Present
  <2>2. CASE ParkNoPrice(w)
    BY <1>1, <2>2 DEF ParkNoPrice, Rows, Parkable, Present
  <2>3. CASE LeaseSelected(w)
    BY <1>1, <2>3 DEF LeaseSelected, Rows, Claimable, Due, Present
  <2>4. CASE PersistOutcome(w)
    <3>1. CASE Holds(w)
      <4>1. row.status = "verifying"
        BY <3>1, SetAssumption DEF Holds, LeaseInvariant, SetAssumption
      <4>2. QED
        BY <1>1, <2>4, <3>1, <4>1 DEF PersistOutcome, Persisted, Rows, Present
    <3>2. CASE ~Holds(w)
      BY <2>4, <3>2 DEF PersistOutcome, Present
    <3>3. QED
      BY <3>1, <3>2
  <2>5. QED
    BY <1>5, <2>1, <2>2, <2>3, <2>4
<1>6. CASE row' = NoRow
  BY <1>6 DEF NoRow
<1>10. CASE OwnerRecheck
  <2>1. ~Tick
    BY <1>10 DEF OwnerRecheck, Tick, boundVars, Typed, TypeOK
  <2>2. QED
    BY <1>1, <1>2, <1>10, <2>1 DEF OwnerRecheck, Rows
<1>7. row' = row \/ row' = NoRow \/ Tick \/ OwnerRecheck \/ (\E d \in Passes : EnqueueUpsert(d))
      \/ \E w \in Workers : \/ MaintainTerminal(w) \/ ParkNoPrice(w)
                             \/ LeaseSelected(w) \/ PersistOutcome(w)
  BY DEF Next, vars, CatalogPass, CatalogFetch, CatalogStamp, EnqueueLoad, WorkerPass, SelectDue,
         FetchExact, WorkerCrash, CleanerSelect, CleanerDelete, PriceChange
<1>8. CASE row' = row
  BY <1>2, <1>3, <1>8 DEF Present
<1>9. QED
  BY <1>2, <1>3, <1>4, <1>5, <1>6, <1>7, <1>8, <1>10

(* A worker's copy of the snapshot is made from the row, and ages with it. *)
LEMMA ClaimsStep ==
    Typed /\ gone[world] = 0 /\ RowRecent /\ ClaimsRecent /\ [Next]_vars => ClaimsRecent'
<1> SUFFICES ASSUME Typed, gone[world] = 0, RowRecent, ClaimsRecent, [Next]_vars,
                    NEW w \in Workers
             PROVE  /\ claim'[w].snap # 0 /\ claim'[w].snapAge <= SnapLife
                           => gone'[claim'[w].snap] <= PromptSearch + claim'[w].snapAge
                    /\ wpc'[w] \in {"idle", "park", "select"} => claim'[w].snap = 0
  BY DEF ClaimsRecent, SnapshotRecent
<1>1. /\ claim \in [Workers -> Claims] /\ wpc \in [Workers -> Labels]
      /\ claim[w].snap \in Evidence /\ claim[w].snapAge \in Nat
      /\ SnapshotRecent(claim[w])
      /\ wpc[w] \in {"idle", "park", "select"} => claim[w].snap = 0
  BY Constants DEF Typed, TypeOK, Claims, ClaimsRecent, Labels
<1>2. CASE /\ ~Tick /\ claim'[w].snap = claim[w].snap
           /\ claim'[w].snapAge = claim[w].snapAge
           /\ wpc'[w] \in {"idle", "park", "select"}
                  => wpc[w] \in {"idle", "park", "select"}
  BY <1>1, <1>2, SnapshotKept
<1>3. CASE claim'[w].snap = 0
  BY <1>3
<1>4. CASE Tick
  <2>1. wpc' = wpc /\ claim'[w] = IF wpc[w] = "idle" THEN claim[w] ELSE AgedClaim(claim[w])
    BY <1>4 DEF Tick
  <2>2. CASE claim[w].snap = 0
    <3>1. claim'[w].snap = 0
      BY <1>1, <2>1, <2>2 DEF AgedClaim, Claims
    <3>2. QED
      BY <3>1
  <2>3. CASE claim[w].snap # 0
    <3>1. claim'[w].snap = claim[w].snap
          /\ claim'[w].snapAge = Older(claim[w].snapAge, SnapLife)
      BY <1>1, <2>1, <2>3 DEF AgedClaim, Claims
    <3>2. QED
      BY <1>1, <2>1, <3>1, SnapshotKept
  <2>4. QED
    BY <2>2, <2>3
<1>5. ASSUME NEW v \in Workers, v # w, WorkerPass(v) \/ WorkerCrash(v)
      PROVE  ~Tick /\ claim'[w] = claim[w] /\ wpc'[w] = wpc[w]
  <2>1. claim'[w] = claim[w] /\ wpc'[w] = wpc[w]
    BY <1>1, <1>5 DEF WorkerPass, WorkerCrash, MaintainTerminal, ParkNoPrice, SelectDue,
         LeaseSelected, FetchExact, Answer, PersistOutcome, Worker
  <2>2. wpc'[v] # wpc[v]
    BY <1>1, <1>5 DEF WorkerPass, WorkerCrash, MaintainTerminal, ParkNoPrice, SelectDue,
         LeaseSelected, FetchExact, PersistOutcome, Worker
  <2>3. QED
    BY <2>1, <2>2 DEF Tick
<1>6. ASSUME SelectDue(w)
      PROVE  \/ claim'[w].snap = 0
             \/ /\ wpc'[w] = "lease" /\ claim'[w].snap = row.snap /\ gone' = gone
                /\ claim'[w].snapAge = row.snapAge /\ Present
  <2>1. CASE Worker(w, "select", "idle") /\ UNCHANGED claim
    BY <1>1, <2>1 DEF Worker
  <2>2. CASE Claimable /\ Worker(w, "select", "lease")
    <3>1. claim'[w] = [NoClaim EXCEPT !.app = row.app, !.snap = row.snap,
                                      !.snapAge = row.snapAge]
      BY <1>1, <1>6, <2>2 DEF SelectDue, Worker
    <3>2. claim'[w].snap = row.snap /\ claim'[w].snapAge = row.snapAge
      BY <3>1 DEF NoClaim
    <3>3. QED
      BY <1>1, <1>6, <2>2, <3>2 DEF SelectDue, Worker, Claimable, Due
  <2>3. QED
    BY <1>6, <2>1, <2>2 DEF SelectDue
<1>7. CASE SelectDue(w)
  BY <1>6, <1>7 DEF RowRecent, SnapshotRecent
<1>8. CASE PersistOutcome(w) \/ WorkerCrash(w) \/ (LeaseSelected(w) /\ ~Claimable)
  <2>1. claim'[w] = NoClaim
    BY <1>1, <1>8 DEF PersistOutcome, WorkerCrash, LeaseSelected
  <2>2. QED
    BY <1>3, <2>1 DEF NoClaim
<1>9. CASE MaintainTerminal(w) \/ ParkNoPrice(w) \/ (LeaseSelected(w) /\ Claimable)
  <2>1. /\ claim' = claim /\ wpc'[w] # wpc[w]
        /\ wpc'[w] \in {"idle", "park", "select"} => wpc[w] \in {"idle", "park", "select"}
    BY <1>1, <1>9 DEF MaintainTerminal, ParkNoPrice, LeaseSelected, Worker
  <2>2. QED
    BY <1>2, <2>1 DEF Tick
<1>10. CASE FetchExact(w)
  <2>1. PICK status, price : Answer(w, status, price)
    BY <1>10 DEF FetchExact
  <2>2. claim'[w].snap = claim[w].snap /\ claim'[w].snapAge = claim[w].snapAge
    BY <1>1, <2>1 DEF Answer, Claims
  <2>3. wpc'[w] = "persist" /\ wpc[w] = "fetch"
    BY <1>1, <1>10 DEF FetchExact, Worker
  <2>4. QED
    BY <1>2, <2>2, <2>3 DEF Tick
<1>11. CASE UNCHANGED <<wpc, claim>> /\ ~Tick
  BY <1>2, <1>11
<1>12. \/ Tick \/ (UNCHANGED <<wpc, claim>> /\ ~Tick)
       \/ \E v \in Workers : WorkerPass(v) \/ WorkerCrash(v)
  <2>1. CASE OwnerRecheck
    BY <2>1 DEF OwnerRecheck, Tick, boundVars, workerVars, Typed, TypeOK
  <2>2. QED
    BY <2>1
       DEF Next, vars, workerVars, CatalogPass, CatalogFetch, CatalogStamp, EnqueueLoad,
           EnqueueUpsert, CleanerSelect, CleanerDelete, PriceChange
<1>13. ASSUME NEW v \in Workers, v # w, WorkerPass(v) \/ WorkerCrash(v)
       PROVE  /\ claim'[w].snap # 0 /\ claim'[w].snapAge <= SnapLife
                     => gone'[claim'[w].snap] <= PromptSearch + claim'[w].snapAge
              /\ wpc'[w] \in {"idle", "park", "select"} => claim'[w].snap = 0
  BY <1>2, <1>5, <1>13
<1>14. QED
  BY <1>4, <1>7, <1>8, <1>9, <1>10, <1>11, <1>12, <1>13 DEF WorkerPass

(* An answer is the item's price now, or a snapshot's that still counts. *)
LEMMA AnswersStep ==
    Typed /\ gone[world] = 0 /\ ClaimsRecent /\ AnswersRecent /\ [Next]_vars
        => AnswersRecent'
<1> SUFFICES ASSUME Typed, gone[world] = 0, ClaimsRecent, AnswersRecent, [Next]_vars,
                    NEW w \in Workers, claim'[w].status = "verified"
             PROVE  /\ claim'[w].price \in Prices
                    /\ gone'[claim'[w].price] <= SnapLife + PromptSearch + hold'[w]
  BY DEF AnswersRecent
<1>1. /\ claim \in [Workers -> Claims] /\ wpc \in [Workers -> Labels]
      /\ wpc' \in [Workers -> Labels]
      /\ hold \in [Actors -> 0 .. MaxHold] /\ w \in Actors /\ MaxHold \in Nat
      /\ SnapLife \in Nat /\ PromptSearch \in Nat /\ world \in Prices
      /\ wpc'[w] = "persist"
  <2>1. Typed'
    BY TypedStep
  <2>2. wpc'[w] = "persist"
    BY <2>1 DEF Typed, ClaimsInStep
  <2>3. QED
    BY <2>1, <2>2, Constants, HoldRange DEF Typed, TypeOK, Labels, Actors
<1>2. CASE ~Tick /\ claim'[w] = claim[w] /\ hold'[w] = hold[w]
  <2>1. claim[w].price \in Prices /\ gone[claim[w].price] <= SnapLife + PromptSearch + hold[w]
    BY <1>2 DEF AnswersRecent
  <2>2. gone'[claim[w].price] <= gone[claim[w].price] /\ gone'[claim[w].price] \in Nat
        /\ gone[claim[w].price] \in Nat
    BY <1>2, <2>1, GoneStep
  <2>3. QED
    BY <1>1, <1>2, <2>1, <2>2
<1>3. CASE Tick
  <2>1. wpc' = wpc /\ hold'[w] = hold[w] + 1 /\ claim'[w] = AgedClaim(claim[w])
    BY <1>1, <1>3 DEF Tick, Working
  <2>2. claim'[w].status = claim[w].status /\ claim'[w].price = claim[w].price
    BY <1>1, <2>1 DEF AgedClaim, Claims
  <2>3. claim[w].price \in Prices /\ gone[claim[w].price] <= SnapLife + PromptSearch + hold[w]
    BY <2>2 DEF AnswersRecent
  <2>4. gone'[claim[w].price] <= gone[claim[w].price] + 1
        /\ gone'[claim[w].price] \in Nat /\ gone[claim[w].price] \in Nat
    BY <1>3, <2>3, GoneStep
  <2>5. QED
    BY <1>1, <2>1, <2>2, <2>3, <2>4
<1>4. CASE FetchExact(w)
  <2>1. gone' = gone /\ hold' = hold /\ hold[w] \in Nat
    BY <1>1, <1>4 DEF FetchExact
  <2>2. ASSUME NEW status, NEW price, Answer(w, status, price)
        PROVE  claim'[w].price = price /\ claim'[w].status = status
    BY <1>1, <2>2 DEF Answer, Claims
  <2>3. CASE FreshProof(claim[w]) /\ Answer(w, "verified", claim[w].snap)
    <3>1. claim'[w].price = claim[w].snap
      BY <2>2, <2>3
    <3>2. /\ claim[w].snap # 0 /\ claim[w].snapAge <= SnapLife /\ claim[w].snapAge \in Nat
          /\ claim[w].snap \in Prices /\ gone[claim[w].snap] <= PromptSearch + claim[w].snapAge
      BY <1>1, <2>3 DEF FreshProof, ClaimsRecent, SnapshotRecent, Claims, Evidence
    <3>3. gone[claim[w].snap] \in Nat
      BY <3>2, GoneStep
    <3>4. QED
      BY <1>1, <2>1, <3>1, <3>2, <3>3
  <2>4. ASSUME NEW status \in Outcomes,
               Answer(w, status, IF status = "verified" THEN world ELSE 0)
        PROVE  claim'[w].price = world
    BY <2>2, <2>4
  <2>5. QED
    BY <1>1, <1>4, <2>1, <2>3, <2>4 DEF FetchExact
<1>5. ASSUME NEW v \in Workers, v # w, WorkerPass(v) \/ WorkerCrash(v)
      PROVE  ~Tick /\ claim'[w] = claim[w] /\ hold'[w] = hold[w]
  <2>1. claim'[w] = claim[w] /\ hold'[w] = hold[w] /\ wpc'[v] # wpc[v]
    BY <1>1, <1>5 DEF WorkerPass, WorkerCrash, MaintainTerminal, ParkNoPrice, SelectDue,
         LeaseSelected, FetchExact, Answer, PersistOutcome, Worker
  <2>2. QED
    BY <2>1 DEF Tick
<1>6. ASSUME WorkerPass(w) \/ WorkerCrash(w) PROVE FetchExact(w)
  BY <1>1, <1>6 DEF WorkerPass, WorkerCrash, MaintainTerminal, ParkNoPrice, SelectDue,
         LeaseSelected, PersistOutcome, Worker
<1>7. ASSUME NEW d \in Passes, CatalogFetch(d) \/ CatalogStamp(d)
      PROVE  ~Tick /\ claim'[w] = claim[w] /\ hold'[w] = hold[w]
  <2>1. ppc'[d] # ppc[d]
    BY <1>7 DEF CatalogFetch, CatalogStamp, Typed, TypeOK
  <2>2. w # d
    BY SetAssumption DEF SetAssumption
  <2>3. QED
    BY <1>1, <1>7, <2>1, <2>2 DEF CatalogFetch, CatalogStamp, workerVars, Tick, passVars
<1>8. CASE CleanerSelect
  <2>1. w # "cleaner"
    BY SetAssumption DEF SetAssumption
  <2>2. ~Tick /\ claim'[w] = claim[w] /\ hold'[w] = hold[w]
    BY <1>1, <1>8, <2>1 DEF CleanerSelect, workerVars, Tick
  <2>3. QED
    BY <1>2, <2>2
<1>9. \/ Tick \/ (UNCHANGED <<claim, hold>> /\ ~Tick) \/ CleanerSelect
      \/ \E v \in Workers : WorkerPass(v) \/ WorkerCrash(v)
      \/ \E d \in Passes : CatalogFetch(d) \/ CatalogStamp(d)
  <2>1. CASE OwnerRecheck
    BY <2>1 DEF OwnerRecheck, Tick, boundVars, workerVars, Typed, TypeOK
  <2>2. QED
    BY <2>1
       DEF Next, vars, workerVars, CatalogPass, EnqueueLoad, EnqueueUpsert,
           CleanerDelete, PriceChange
<1>10. QED
  BY <1>2, <1>3, <1>4, <1>5, <1>6, <1>7, <1>8, <1>9

(* Nothing has been offered, proved or answered at the start. *)
LEMMA PricesInit == Init => PricesRecent
BY Constants, SetAssumption
   DEF Init, PricesRecent, PromptWorkers, CandidatesRecent, RowRecent, Present,
       SnapshotRecent, ClaimsRecent, AnswersRecent, NoRow, NoClaim, Actors, Enqueueing

(* A price that is stored as verified is recent: whatever number of workers and
   passes run, and however the item's price changes, it was the item's price no
   longer ago than a snapshot's lifetime, the searches of a catalog batch and
   the bound of a worker's pass. *)
THEOREM RecentResult == Spec => FreshResult
<1> DEFINE Inv == Typed /\ LeaseInvariant /\ PricesRecent
<1>1. Init => Inv
  <2>1. Init => LeaseInvariant
    BY DEF Init, LeaseInvariant, Leased, NoRow
  <2>2. Init => PricesRecent
    BY PricesInit
  <2>3. QED
    BY <2>1, <2>2, TypedInit
<1>2. Inv /\ [Next]_vars => Inv'
  BY TypedStep, LeaseStep, GoneStep, PromptStep, CandidatesStep, RowStep, ClaimsStep,
     AnswersStep DEF PricesRecent
<1>3. Inv /\ [Next]_vars =>
        [\A w \in Workers :
            PersistOutcome(w) /\ row' # row /\ claim[w].status = "verified"
                => gone[claim[w].price] <= SnapLife + PromptSearch + PromptWork]_vars
  <2> SUFFICES ASSUME Inv, NEW w \in Workers, claim[w].status = "verified"
               PROVE  gone[claim[w].price] <= SnapLife + PromptSearch + PromptWork
    OBVIOUS
  <2>1. /\ claim[w].price \in Prices /\ gone[claim[w].price] <= SnapLife + PromptSearch + hold[w]
        /\ hold[w] <= PromptWork /\ hold[w] \in Nat
        /\ gone[claim[w].price] \in 0 .. MaxGone
    BY DEF PricesRecent, AnswersRecent, PromptWorkers, Typed, TypeOK, Actors
  <2>2. QED
    BY <2>1, Constants, HoldRange
<1> HIDE DEF Inv
<1>4. QED
  BY <1>1, <1>2, <1>3, PTL DEF Spec, FreshResult

-----------------------------------------------------------------------------
(* What the cleaner's second statement relies on: a row rewritten since it was
   chosen was seen, or verified, no longer ago than the protection and the time
   since the cleaner began; and catalog passes stay within their bound. *)
Spared(elapsed) ==
    \/ row.seen <= Protect + elapsed
    \/ row.exact # 0 /\ row.vage <= Protect + elapsed
RevivedIsSpared == cleaner = "revived" /\ Present => Spared(hold["cleaner"])
PromptPasses == \A d \in Passes : ppc[d] \in Enqueueing => hold[d] <= PromptPass

(* Passes and workers finish within the cleaner's protection period. *)
WithinProtection == PromptPass <= Protect /\ PromptWork <= Protect

(* Time does not pass while a catalog pass has used up its bound. *)
LEMMA PromptPassStep == Typed /\ PromptPasses /\ [Next]_vars => PromptPasses'
<1> SUFFICES ASSUME Typed, PromptPasses, [Next]_vars, NEW d \in Passes,
                    ppc'[d] \in Enqueueing
             PROVE  hold'[d] <= PromptPass
  BY DEF PromptPasses
<1>1. /\ hold \in [Actors -> 0 .. MaxHold] /\ d \in Actors
      /\ ppc \in [Passes -> {"idle", "search"} \cup Enqueueing]
      /\ PromptPass \in Nat /\ MaxHold \in Nat
  BY Constants, HoldRange DEF Typed, TypeOK, Actors
<1>2. CASE hold'[d] = hold[d] /\ ppc[d] \in Enqueueing
  BY <1>2 DEF PromptPasses
<1>3. CASE Tick
  <2>1. ppc[d] \in Enqueueing /\ hold[d] < PromptPass
    BY <1>3 DEF Tick, Prompt, passVars
  <2>2. QED
    BY <1>1, <1>3, <2>1 DEF Tick, Working, Enqueueing
<1>4. ASSUME NEW e \in Passes, CatalogFetch(e) \/ CatalogStamp(e)
      PROVE  hold'[d] <= PromptPass
  BY <1>1, <1>2, <1>4 DEF CatalogFetch, CatalogStamp, Enqueueing
<1>5. ASSUME NEW e \in Passes, EnqueueLoad(e) \/ EnqueueUpsert(e)
      PROVE  hold'[d] <= PromptPass
  BY <1>1, <1>2, <1>5 DEF EnqueueLoad, EnqueueUpsert, Enqueueing
<1>6. ASSUME NEW w \in Workers, MaintainTerminal(w) PROVE hold'[d] <= PromptPass
  <2>1. w # d
    BY SetAssumption DEF SetAssumption
  <2>2. QED
    BY <1>1, <1>2, <1>6, <2>1 DEF MaintainTerminal, passVars
<1>7. CASE CleanerSelect
  <2>1. d # "cleaner"
    BY SetAssumption DEF SetAssumption
  <2>2. QED
    BY <1>1, <1>2, <1>7, <2>1 DEF CleanerSelect, passVars
<1>8. QED
  BY <1>2, <1>3, <1>4, <1>5, <1>6, <1>7
     DEF Next, vars, CatalogPass, WorkerPass, ParkNoPrice, SelectDue, LeaseSelected,
         FetchExact, PersistOutcome, WorkerCrash, CleanerDelete, PriceChange,
         OwnerRecheck, passVars

(* A step other than the cleaner's own, a tick and the two that refresh the row
   leaves it present and its two ages as they are. *)
LEMMA AgesKept ==
    ASSUME Typed, LeaseInvariant, NEW w \in Workers,
           \/ MaintainTerminal(w) \/ ParkNoPrice(w) \/ LeaseSelected(w)
           \/ PersistOutcome(w) /\ claim[w].status # "verified"
    PROVE  /\ row'.seen = row.seen /\ row'.exact = row.exact
           /\ row.exact # 0 => row'.vage = row.vage
           /\ Present => row'.status # "absent"
           /\ cleaner' = cleaner /\ hold'["cleaner"] = hold["cleaner"]
<1>1. /\ row \in Rows /\ hold \in [Actors -> 0 .. MaxHold]
      /\ "cleaner" \in Actors /\ w # "cleaner"
      /\ claim[w].status \in Exact \cup {"none"}
  BY SetAssumption DEF Typed, TypeOK, Actors, SetAssumption, Claims
<1>2. CASE MaintainTerminal(w)
  BY <1>1, <1>2 DEF MaintainTerminal, Rows, Terminal, Present
<1>3. CASE ParkNoPrice(w)
  BY <1>1, <1>3 DEF ParkNoPrice, Rows, Present
<1>4. CASE LeaseSelected(w)
  BY <1>1, <1>4 DEF LeaseSelected, Rows, Present
<1>5. CASE PersistOutcome(w) /\ claim[w].status # "verified"
  <2>1. row' = row \/ row' = Persisted(claim[w])
    BY <1>5 DEF PersistOutcome
  <2>2. claim[w].status # "absent"
    BY <1>1 DEF Exact
  <2>3. CASE row' = Persisted(claim[w])
    BY <1>1, <1>5, <2>2, <2>3 DEF PersistOutcome, Persisted, Rows, Present
  <2>4. QED
    BY <1>5, <2>1, <2>3 DEF PersistOutcome, Present
<1>6. QED
  BY <1>2, <1>3, <1>4, <1>5

(* RevivedIsSpared is inductive: what revives a row brings an age within the
   protection, and the ages grow no faster than the cleaner's time. *)
LEMMA SparedStep ==
    ASSUME WithinProtection
    PROVE  Typed /\ LeaseInvariant /\ PromptWorkers /\ PromptPasses /\ AnswersRecent
              /\ RevivedIsSpared /\ [Next]_vars => RevivedIsSpared'
<1> SUFFICES ASSUME Typed, LeaseInvariant, PromptWorkers, PromptPasses, AnswersRecent,
                    RevivedIsSpared, [Next]_vars,
                    cleaner' = "revived", row'.status # "absent"
             PROVE  Spared(hold["cleaner"])'
  BY DEF RevivedIsSpared, Present
<1>1. /\ row \in Rows /\ hold \in [Actors -> 0 .. MaxHold] /\ MaxHold \in Nat
      /\ "cleaner" \in Actors /\ hold["cleaner"] \in Nat
      /\ row.seen \in Nat /\ row.vage \in Nat
      /\ Protect \in Nat /\ Retention \in Nat /\ CleanAge \in Nat
      /\ PromptPass \in Nat /\ PromptWork \in Nat
  BY Constants, HoldRange DEF Typed, TypeOK, Actors, Rows
<1>2. CASE /\ cleaner = "revived" /\ Present
           /\ row'.seen = row.seen /\ row'.exact = row.exact
           /\ row.exact # 0 => row'.vage = row.vage
           /\ hold'["cleaner"] = hold["cleaner"]
  BY <1>2 DEF RevivedIsSpared, Spared
<1>3. CASE Tick
  <2>1. cleaner = "revived" /\ Present /\ hold'["cleaner"] = hold["cleaner"] + 1
    BY <1>1, <1>3 DEF Tick, Working, Present
  <2>2. /\ row'.seen = Older(row.seen, Retention) /\ row'.exact = row.exact
        /\ row.exact # 0 => row'.vage = Older(row.vage, CleanAge)
    BY <1>1, <1>3, <2>1 DEF Tick, AgedRow, Rows
  <2>3. /\ row'.seen <= row.seen + 1
        /\ row.exact # 0 => row'.vage <= row.vage + 1
        /\ row'.seen \in Nat /\ (row.exact # 0 => row'.vage \in Nat)
    BY <1>1, <2>2 DEF Older
  <2>4. Spared(hold["cleaner"])
    BY <2>1 DEF RevivedIsSpared
  <2>5. QED
    BY <1>1, <2>1, <2>2, <2>3, <2>4 DEF Spared
<1>4. ASSUME NEW d \in Passes, EnqueueUpsert(d) PROVE Spared(hold["cleaner"])'
  <2>1. /\ hold[d] \in Nat /\ hold[d] <= PromptPass /\ hold' = hold
    BY <1>1, <1>4 DEF EnqueueUpsert, Enqueueing, PromptPasses, Actors
  <2>2. row'.seen = Least(hold[d], Retention + 1)
    BY <1>1, <1>4 DEF EnqueueUpsert, UpdatedRow, NewRow, NoRow, Rows
  <2>3. row'.seen <= Protect
    BY <1>1, <2>1, <2>2 DEF Least, WithinProtection
  <2>4. row'.seen \in Nat
    BY <1>1, <2>1, <2>2 DEF Least
  <2>5. QED
    BY <1>1, <2>1, <2>3, <2>4 DEF Spared
<1>5. ASSUME NEW w \in Workers, PersistOutcome(w), claim[w].status = "verified"
      PROVE  Spared(hold["cleaner"])'
  <2>1. /\ hold' = hold /\ claim[w] \in Claims /\ claim[w].since \in Nat
        /\ claim[w].since <= hold[w] /\ hold[w] <= PromptWork
        /\ claim[w].price # 0 /\ hold[w] \in Nat
    BY <1>1, <1>5, HoldRange, Constants
       DEF PersistOutcome, AnswersRecent, Typed, TypeOK, ClaimsInStep, PromptWorkers,
           Actors, Claims
  <2>2. CASE Holds(w)
    <3>1. row'.exact = claim[w].price /\ row'.vage = Least(claim[w].since, CleanAge + 1)
      BY <1>1, <1>5, <2>2 DEF PersistOutcome, Persisted, Rows
    <3>2. row'.exact # 0 /\ row'.vage <= Protect /\ row'.vage \in Nat
      BY <1>1, <2>1, <3>1 DEF Least, WithinProtection
    <3>3. QED
      BY <1>1, <2>1, <3>2 DEF Spared
  <2>3. CASE ~Holds(w)
    BY <1>2, <1>5, <2>1, <2>3 DEF PersistOutcome, Present
  <2>4. QED
    BY <2>2, <2>3
<1>6. ASSUME NEW w \in Workers,
             \/ MaintainTerminal(w) \/ ParkNoPrice(w) \/ LeaseSelected(w)
             \/ PersistOutcome(w) /\ claim[w].status # "verified"
      PROVE  Spared(hold["cleaner"])'
  <2>1. Present
    <3>1. CASE MaintainTerminal(w)
      BY <1>1, <3>1 DEF MaintainTerminal, Terminal, Present
    <3>2. CASE ParkNoPrice(w)
      BY <1>1, <3>2 DEF ParkNoPrice, Parkable, Present
    <3>3. CASE LeaseSelected(w)
      BY <1>1, <3>3 DEF LeaseSelected, Claimable, Due, Present
    <3>4. CASE PersistOutcome(w)
      BY <1>1, <3>4, SetAssumption
         DEF PersistOutcome, Holds, LeaseInvariant, SetAssumption, Present
    <3>5. QED
      BY <1>6, <3>1, <3>2, <3>3, <3>4
  <2>2. QED
    BY <1>2, <1>6, <2>1, AgesKept
<1>7. CASE CleanerSelect \/ CleanerDelete
  BY <1>7 DEF CleanerSelect, CleanerDelete
<1>8. CASE UNCHANGED <<row, cleaner>> /\ hold'["cleaner"] = hold["cleaner"]
  BY <1>2, <1>8 DEF Present
<1>9. ASSUME NEW d \in Passes, CatalogFetch(d) \/ CatalogStamp(d)
      PROVE  UNCHANGED <<row, cleaner>> /\ hold'["cleaner"] = hold["cleaner"]
  BY <1>1, <1>9, SetAssumption DEF CatalogFetch, CatalogStamp, SetAssumption
<1>11. CASE OwnerRecheck
  <2>1. row'.seen = 0 /\ hold' = hold
    BY <1>1, <1>11 DEF OwnerRecheck, Rows
  <2>2. QED
    BY <1>1, <2>1 DEF Spared
<1>10. QED
  BY <1>3, <1>4, <1>5, <1>6, <1>7, <1>8, <1>9, <1>11
     DEF Next, vars, CatalogPass, EnqueueLoad, WorkerPass, SelectDue, FetchExact,
         WorkerCrash, PriceChange, workerVars

(* The cleaner spares what is in use: if catalog passes and workers finish
   within the protection period, no row that was refreshed after the cleaner
   chose it is deleted, whatever number of them run and however the price
   changes. *)
THEOREM CleanerSparesRevived ==
    ASSUME WithinProtection
    PROVE  Spec => DeletesSpareRevived
<1> DEFINE Inv == /\ Typed /\ LeaseInvariant /\ PricesRecent /\ PromptPasses
                  /\ RevivedIsSpared
<1>1. Init => Inv
  <2>1. Init => LeaseInvariant
    BY DEF Init, LeaseInvariant, Leased, NoRow
  <2>2. Init => PricesRecent
    BY PricesInit
  <2>3. Init => PromptPasses /\ RevivedIsSpared
    BY DEF Init, PromptPasses, RevivedIsSpared, Enqueueing
  <2>4. QED
    BY <2>1, <2>2, <2>3, TypedInit
<1>2. Inv /\ [Next]_vars => Inv'
  <2>1. Inv /\ [Next]_vars => PricesRecent'
    BY GoneStep, PromptStep, CandidatesStep, RowStep, ClaimsStep, AnswersStep
       DEF PricesRecent
  <2>2. QED
    BY <2>1, TypedStep, LeaseStep, PromptPassStep, SparedStep DEF PricesRecent
<1>3. Inv /\ [Next]_vars => [cleaner = "revived" /\ Present => row'.status # "absent"]_vars
  <2> SUFFICES ASSUME Inv, Next, cleaner = "revived", Present
               PROVE  row'.status # "absent"
    OBVIOUS
  <2>1. /\ row \in Rows /\ hold["cleaner"] \in Nat /\ row.seen \in Nat /\ row.vage \in Nat
        /\ Protect \in Nat
    BY Constants, HoldRange DEF Typed, TypeOK, Actors, Rows
  <2>2. CASE CleanerDelete
    <3>1. Spared(hold["cleaner"])
      BY DEF RevivedIsSpared
    <3>2. ~Deletable
      BY <2>1, <3>1 DEF Deletable, Unprotected, Spared
    <3>3. QED
      BY <2>2, <3>2 DEF CleanerDelete, Present
  <2>3. CASE Tick
    BY <2>1, <2>3 DEF Tick, AgedRow, Rows, Present
  <2>4. ASSUME NEW d \in Passes, EnqueueUpsert(d) PROVE row'.status # "absent"
    BY <2>1, <2>4 DEF EnqueueUpsert, UpdatedRow, Rows, Present
  <2>5. ASSUME NEW w \in Workers, PersistOutcome(w), claim[w].status = "verified"
        PROVE  row'.status # "absent"
    BY <2>1, <2>5 DEF PersistOutcome, Persisted, Rows, Present
  <2>6. ASSUME NEW w \in Workers,
               \/ MaintainTerminal(w) \/ ParkNoPrice(w) \/ LeaseSelected(w)
               \/ PersistOutcome(w) /\ claim[w].status # "verified"
        PROVE  row'.status # "absent"
    BY <2>6, AgesKept
  <2>7. CASE row' = row
    BY <2>7 DEF Present
  <2>9. CASE OwnerRecheck
    BY <2>1, <2>9 DEF OwnerRecheck, Rows
  <2>8. QED
    BY <2>2, <2>3, <2>4, <2>5, <2>6, <2>7, <2>9
       DEF Next, CatalogPass, CatalogFetch, CatalogStamp, EnqueueLoad, WorkerPass, SelectDue,
           FetchExact, WorkerCrash, CleanerSelect, PriceChange
<1> HIDE DEF Inv
<1>4. QED
  BY <1>1, <1>2, <1>3, PTL DEF Spec, DeletesSpareRevived

=============================================================================
