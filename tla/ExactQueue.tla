----------------------------- MODULE ExactQueue -----------------------------
(***************************************************************************)
(* The durable queue that decides when a Walmart item is verified exactly:   *)
(* one item's row of walmart_exact_detail_queue and everyone who writes it.  *)
(*                                                                         *)
(*   passes   catalog passes: search, take the time, load the stored row,    *)
(*            decide whether it needs a write, upsert                        *)
(*   workers  exact workers, in one process or in two overlapping ones:      *)
(*            terminal maintenance, dormancy of confirmed no-price rows,     *)
(*            select, lease, fetch, persist                                  *)
(*   cleaner  selects rows to delete, then deletes them under new guards     *)
(*   owner    re-arms the row by hand (walmart_delivery_recovery.py)         *)
(*                                                                         *)
(* Items are independent, so one row stands for all of them; what is chosen  *)
(* into a bounded batch is a choice.  The world is the price of the item;    *)
(* catalog evidence is the apparent price (app) and the price inside the     *)
(* complete snapshot (snap), 0 standing for NULL or ''.  Times are ages, or   *)
(* ticks left for next and lease.                                            *)
(***************************************************************************)
EXTENDS Integers

CONSTANTS
    Workers,        \* exact workers
    Passes,         \* catalog passes that may overlap
    Prices,         \* positive numbers
    Outcomes,       \* what an exact fetch may answer
    CandidateKinds, \* "weak" or "complete" catalog candidates
    SnapLife,       \* DISCOVERY_PROOF_MAX_AGE_SECONDS
    SnapRefresh,    \* DISCOVERY_PROOF_REFRESH_INTERVAL_SECONDS
    SeenRefresh,    \* QUEUE_DISCOVERY_REFRESH_INTERVAL_SECONDS
    Retention,      \* QUEUE_RETENTION_DAYS
    Protect,        \* CLEANUP_OVERFLOW_PROTECT_MINUTES
    Lease,          \* QUEUE_LEASE_SECONDS
    RetryDelay,     \* QUEUE_RETRY_BASE_SECONDS and its doublings
    PageDelay,      \* PAGE_RETRY_BASE_SECONDS
    NoPriceDelay,   \* CONFIRMED_API_PRICE_MISSING_RETRY_SECONDS
    TerminalDelay,  \* the 12 hours of _failure_storage_policy
    Recheck,        \* verified_recheck_delay
    Dormant,        \* CONFIRMED_NO_PRICE_DORMANCY_DAYS
    Reprobe,        \* TERMINAL_IDENTITY_REPROBE_DAYS
    Never,          \* TERMINAL_NEXT_ATTEMPT
    PromptWork,     \* bound on a worker's pass and the pause after it
    PromptSearch,   \* bound on the searches of a catalog batch
    PromptPass,     \* bound on the enqueueing of a catalog batch
    PromptClean,    \* bound on the cleaner's two statements
    MaxChanges,     \* bound on price changes and owner's rechecks together
    MaxCrashes      \* bound on crashes and failed writes of workers

Exact == {"verified", "retry", "no_price", "page_retry", "terminal"}
Kinds == {"weak", "complete"}

ASSUME SetAssumption ==
    /\ Prices \subseteq Nat \ {0} /\ Prices # {}
    /\ Outcomes \subseteq Exact
    /\ CandidateKinds \subseteq Kinds
    /\ Workers \cap Passes = {} /\ {"none", "cleaner"} \cap (Workers \cup Passes) = {}
ASSUME DelayAssumption ==
    /\ {SnapLife, SnapRefresh, SeenRefresh, Retention, Protect, Lease, RetryDelay,
        PageDelay, NoPriceDelay, TerminalDelay, Recheck, Dormant, Reprobe, Never,
        PromptWork, PromptSearch, PromptPass, PromptClean, MaxChanges, MaxCrashes}
          \subseteq Nat
    /\ {RetryDelay, PageDelay, NoPriceDelay, TerminalDelay, Recheck, Dormant}
          \subseteq 0 .. (Never - 1)
    /\ Protect + PromptClean <= Retention

VARIABLES
    world,    \* the price of the item
    gone,     \* ticks since each price was the item's, 0 for the current one
    row,      \* the row of walmart_exact_detail_queue
    owed,     \* TRUE if the row holds evidence that no attempt has used
    wpc,      \* where each worker is
    claim,    \* what each worker selected, and the answer of its fetch
    ppc,      \* where each pass is
    cand,     \* the candidate of each pass
    cleaner,  \* "idle", "chosen", or "revived": rewritten since it was chosen
    hold,     \* ticks since each worker and the cleaner began, and since a
              \* pass searched or, once it has, took the time
    changes, crashes

vars == <<world, gone, row, owed, wpc, claim, ppc, cand, cleaner, hold,
          changes, crashes>>
workerVars == <<wpc, claim>>
passVars == <<ppc, cand>>
boundVars == <<changes, crashes>>

MaxHold == PromptWork + PromptSearch + PromptPass + PromptClean
CleanAge == Protect + PromptClean
MaxGone == SnapLife + PromptSearch + PromptWork + 1
Actors == Workers \cup Passes \cup {"cleaner"}
Evidence == Prices \cup {0}

(* An age up to what distinguishes it from a threshold. *)
Older(age, threshold) == IF age <= threshold THEN age + 1 ELSE age
Left(ticks) == IF ticks > 0 THEN ticks - 1 ELSE 0
Least(a, b) == IF a < b THEN a ELSE b
RemainingUnfloored(delay, elapsed) == delay - elapsed
Remaining(delay, elapsed) == IF elapsed < delay THEN delay - elapsed ELSE 0

Statuses == {"absent", "pending", "verifying"} \cup Exact
NoRow == [status |-> "absent", app |-> 0, snap |-> 0, snapAge |-> 0, next |-> 0,
          natural |-> FALSE, owner |-> "none", lease |-> 0, seen |-> 0,
          reseen |-> FALSE, tried |-> 0, exact |-> 0, vage |-> 0]
NoClaim == [app |-> 0, snap |-> 0, snapAge |-> 0, status |-> "none", price |-> 0,
            since |-> 0]
NoCand == [price |-> 0, kind |-> "weak"]

Rows == [status : Statuses, app : Evidence, snap : Evidence,
         snapAge : 0 .. SnapLife + 1,
         next : 0 .. Never, \* ticks until next_attempt_at
         natural : BOOLEAN, \* next_attempt_at = last_attempt_at + NoPriceDelay
         owner : Workers \cup {"none"}, lease : 0 .. Lease,
         seen : 0 .. Retention + 1,
         reseen : BOOLEAN,  \* last_seen_at > last_attempt_at
         tried : 0 .. Reprobe + 1,
         exact : Evidence, vage : 0 .. CleanAge + 1]
Claims == [app : Evidence, snap : Evidence, snapAge : 0 .. SnapLife + 1,
           status : Exact \cup {"none"}, price : Evidence, since : 0 .. MaxHold]
Candidates == [price : Evidence, kind : Kinds]
Enqueueing == {"load", "upsert"}

TypeOK ==
    /\ world \in Prices
    /\ gone \in [Prices -> 0 .. MaxGone]
    /\ row \in Rows
    /\ owed \in BOOLEAN
    /\ wpc \in [Workers -> {"idle", "park", "select", "lease", "fetch", "persist"}]
    /\ claim \in [Workers -> Claims]
    /\ ppc \in [Passes -> {"idle", "search"} \cup Enqueueing]
    /\ cand \in [Passes -> Candidates]
    /\ cleaner \in {"idle", "chosen", "revived"}
    /\ hold \in [Actors -> 0 .. MaxHold]
    /\ changes \in 0 .. MaxChanges
    /\ crashes \in 0 .. MaxCrashes

Init ==
    /\ world \in Prices
    /\ gone = [p \in Prices |-> IF p = world THEN 0 ELSE MaxGone]
    /\ row = NoRow
    /\ owed = FALSE
    /\ wpc = [w \in Workers |-> "idle"]
    /\ claim = [w \in Workers |-> NoClaim]
    /\ ppc = [d \in Passes |-> "idle"]
    /\ cand = [d \in Passes |-> NoCand]
    /\ cleaner = "idle"
    /\ hold = [a \in Actors |-> 0]
    /\ changes = 0
    /\ crashes = 0

Present == row.status # "absent"
Leased == row.lease > 0
Terminal == row.status = "terminal"
Rearmable == {"pending", "retry", "no_price"}

-----------------------------------------------------------------------------
(* The catalog. *)

(* The candidate is what a search of the batch found: a weak one may lack a
   price, a complete one carries a snapshot. *)
CatalogFetch(d) ==
    /\ ppc[d] = "idle"
    /\ \E kind \in CandidateKinds, price \in {world, 0} :
          /\ kind = "complete" => price = world
          /\ cand' = [cand EXCEPT ![d] = [price |-> price, kind |-> kind]]
    /\ ppc' = [ppc EXCEPT ![d] = "search"]
    /\ hold' = [hold EXCEPT ![d] = 0]
    /\ UNCHANGED <<world, gone, row, owed, workerVars, cleaner, boundVars>>

(* When every search of the batch has been answered the candidates are stamped
   with the time: last_seen_at and discovery_snapshot_at. *)
CatalogStamp(d) ==
    /\ ppc[d] = "search"
    /\ ppc' = [ppc EXCEPT ![d] = "load"]
    /\ hold' = [hold EXCEPT ![d] = 0]
    /\ UNCHANGED <<world, gone, row, owed, workerVars, cand, cleaner, boundVars>>

PriceChanged(c) == c.price # 0 /\ c.price # row.app
SnapshotChanged(c) == c.kind = "complete" /\ c.price # row.snap
Material(c) == PriceChanged(c) \/ SnapshotChanged(c)

(* A refreshed proof is worth a write if the row may be claimed while the
   proof is fresh. *)
RefreshUseful ==
    /\ row.snapAge > SnapRefresh
    /\ \/ row.status \in Rearmable
       \/ row.status # "verifying" /\ row.next <= SnapLife

(* _queue_row_needs_write, less the cosmetic fields. *)
NeedsWrite(c) ==
    \/ ~Present
    \/ Material(c)
    \/ row.seen > SeenRefresh
    \/ /\ c.kind = "complete"
       /\ row.status \in {"page_retry", "terminal"} \/ RefreshUseful
    \/ /\ row.status \in Rearmable
       /\ row.next > 0
       /\ row.status = "no_price" => c.kind = "complete" \/ PriceChanged(c)

(* Whether a title, a source label, a priority changed is a choice. *)
EnqueueLoad(d) ==
    /\ ppc[d] = "load"
    /\ \E cosmetic \in BOOLEAN :
          ppc' = [ppc EXCEPT ![d] =
                    IF cosmetic \/ NeedsWrite(cand[d]) THEN "upsert" ELSE "idle"]
    /\ UNCHANGED <<world, gone, row, owed, workerVars, cand, cleaner, hold,
                   boundVars>>

(* The ages count from the stamp. *)
NewRow(c, elapsed) ==
    [NoRow EXCEPT !.status = "pending", !.app = c.price,
                  !.snap = IF c.kind = "complete" THEN c.price ELSE 0,
                  !.snapAge = IF c.kind = "complete" THEN Least(elapsed, SnapLife + 1)
                              ELSE 0,
                  !.seen = Least(elapsed, Retention + 1),
                  !.reseen = TRUE]

(* The two CASE expressions of the upsert. *)
WokenWhileVerifying(c) ==
    \/ row.status \in {"page_retry", "terminal"} /\ c.kind = "complete"
    \/ row.status \in {"verified", "verifying"} /\ Material(c)
Woken(c) ==
    \/ row.status \in {"page_retry", "terminal"} /\ c.kind = "complete"
    \/ row.status = "verified" /\ Material(c)
Scheduled(c) ==
    \/ Woken(c)
    \/ row.status \in Rearmable \ {"no_price"}
    \/ row.status = "no_price" /\ (c.kind = "complete" \/ PriceChanged(c))

UpdatedRow(c, elapsed) ==
    [row EXCEPT
        !.app = IF c.price # 0 THEN c.price ELSE @,
        !.snap = IF c.kind = "complete" THEN c.price ELSE @,
        !.snapAge = IF c.kind = "complete" THEN Least(elapsed, SnapLife + 1) ELSE @,
        !.seen = Least(elapsed, Retention + 1),
        !.reseen = TRUE,
        !.status = IF Woken(c) THEN "pending" ELSE @,
        !.next = IF Scheduled(c) THEN Least(@, 0) ELSE @,
        !.natural = @ /\ ~(Scheduled(c) /\ row.next > 0)]

EnqueueUpsert(d) ==
    /\ ppc[d] = "upsert"
    /\ row' = IF Present THEN UpdatedRow(cand[d], hold[d])
              ELSE NewRow(cand[d], hold[d])
    /\ owed' = (owed \/ ~Present \/ Material(cand[d]))
    /\ cleaner' = IF cleaner = "chosen" THEN "revived" ELSE cleaner
    /\ ppc' = [ppc EXCEPT ![d] = "idle"]
    /\ cand' = [cand EXCEPT ![d] = NoCand]
    /\ UNCHANGED <<world, gone, workerVars, hold, boundVars>>

-----------------------------------------------------------------------------
(* The exact worker: run_exact_verification_queue_once, one await at a time. *)
Worker(w, from, to) == wpc[w] = from /\ wpc' = [wpc EXCEPT ![w] = to]

(* A terminal identity row is re-armed a week after its attempt if the catalog
   saw it since; the rest of the terminal rows are parked for good. *)
Rearm == row.tried > Reprobe /\ row.reseen
MaintainTerminal(w) ==
    /\ Worker(w, "idle", "park")
    /\ hold' = [hold EXCEPT ![w] = 0]
    /\ \/ Terminal /\ Rearm
          /\ row' = [row EXCEPT !.status = "pending", !.next = 0,
                                !.owner = "none", !.lease = 0]
       \/ Terminal /\ ~Rearm /\ row.next = 0
          /\ row' = [row EXCEPT !.next = Never, !.owner = "none", !.lease = 0]
       \/ UNCHANGED row \* the cadence is not due, or the limit is reached
    /\ UNCHANGED <<world, gone, owed, claim, passVars, cleaner, boundVars>>

(* park_mature_confirmed_no_price_retries, at most its batch limit. *)
Parkable == row.status = "no_price" /\ row.next = 0 /\ row.natural /\ ~Leased
ParkNoPrice(w) ==
    /\ Worker(w, "park", "select")
    /\ \/ Parkable /\ row' = [row EXCEPT !.next = Dormant, !.natural = FALSE]
       \/ UNCHANGED row
    /\ UNCHANGED <<world, gone, owed, claim, passVars, cleaner, hold, boundVars>>

Due == Present /\ row.next = 0 /\ row.seen <= Retention /\ ~Terminal
ClaimableUnlessVerifying == Due /\ ~Leased /\ row.status # "verifying"
Claimable == Due /\ ~Leased

SelectDue(w) ==
    /\ \/ /\ Claimable
          /\ Worker(w, "select", "lease")
          /\ claim' = [claim EXCEPT ![w] = [NoClaim EXCEPT
                        !.app = row.app, !.snap = row.snap, !.snapAge = row.snapAge]]
       \/ /\ Worker(w, "select", "idle") \* nothing due, or not in the batch
          /\ UNCHANGED claim
    /\ UNCHANGED <<world, gone, row, owed, passVars, cleaner, hold, boundVars>>

(* The guarded update; lease_until counts from the start of the pass. *)
LeaseSelected(w) ==
    /\ IF Claimable
       THEN /\ Worker(w, "lease", "fetch")
            /\ row' = [row EXCEPT !.status = "verifying", !.owner = w,
                                  !.natural = FALSE,
                                  !.lease = Remaining(Lease, hold[w])]
            /\ UNCHANGED claim
       ELSE /\ Worker(w, "lease", "idle")
            /\ claim' = [claim EXCEPT ![w] = NoClaim]
            /\ UNCHANGED row
    /\ UNCHANGED <<world, gone, owed, passVars, cleaner, hold, boundVars>>

(* promote_fresh_discovery_offer_snapshot: fresh proof that agrees with the
   apparent price is used without asking Walmart. *)
FreshProofAnyAge(c) == c.snap # 0 /\ c.snap = c.app
FreshProof(c) == c.snap # 0 /\ c.snap = c.app /\ c.snapAge <= SnapLife

Answer(w, status, price) ==
    claim' = [claim EXCEPT ![w].status = status, ![w].price = price, ![w].since = 0]
FetchExact(w) ==
    /\ Worker(w, "fetch", "persist")
    /\ IF FreshProof(claim[w])
       THEN Answer(w, "verified", claim[w].snap)
       ELSE \E status \in Outcomes :
               Answer(w, status, IF status = "verified" THEN world ELSE 0)
    /\ UNCHANGED <<world, gone, row, owed, passVars, cleaner, hold, boundVars>>

(* tiered_recheck_delay and _failure_storage_policy. *)
DelayNoRecheck(status) ==
    CASE status = "verified" -> Never
      [] status = "page_retry" -> PageDelay
      [] status = "no_price" -> NoPriceDelay
      [] status = "terminal" -> TerminalDelay
      [] status = "retry" -> RetryDelay
Delay(status) ==
    CASE status = "verified" -> Recheck
      [] status = "page_retry" -> PageDelay
      [] status = "no_price" -> NoPriceDelay
      [] status = "terminal" -> TerminalDelay
      [] status = "retry" -> RetryDelay

HoldsWithoutToken(w) == row.status = "verifying"
Holds(w) == row.owner = w

Persisted(c) ==
    [row EXCEPT
        !.status = c.status, !.owner = "none", !.lease = 0,
        !.next = Remaining(Delay(c.status), c.since),
        !.natural = c.status = "no_price",
        !.reseen = FALSE, !.tried = 0,
        !.exact = IF c.status = "verified" THEN c.price ELSE @,
        !.vage = IF c.status = "verified" THEN Least(c.since, CleanAge + 1) ELSE @]

Used(c) == c.app = row.app /\ c.snap = row.snap

(* One transaction; a worker that lost its lease updates no row. *)
PersistOutcome(w) ==
    /\ Worker(w, "persist", "idle")
    /\ IF Holds(w)
       THEN /\ row' = Persisted(claim[w])
            /\ owed' = (owed /\ ~Used(claim[w]))
            /\ cleaner' = IF cleaner = "chosen" /\ claim[w].status = "verified"
                          THEN "revived" ELSE cleaner
       ELSE UNCHANGED <<row, owed, cleaner>>
    /\ claim' = [claim EXCEPT ![w] = NoClaim]
    /\ UNCHANGED <<world, gone, passVars, hold, boundVars>>

(* The process dies, the pass is cancelled, or a database call raises. *)
WorkerCrash(w) ==
    /\ crashes < MaxCrashes
    /\ wpc[w] # "idle"
    /\ wpc' = [wpc EXCEPT ![w] = "idle"]
    /\ claim' = [claim EXCEPT ![w] = NoClaim]
    /\ crashes' = crashes + 1
    /\ UNCHANGED <<world, gone, row, owed, passVars, cleaner, hold, changes>>

-----------------------------------------------------------------------------
(* maybe_prune_walmart_exact_queue_bounded; both statements compare with the
   time the cleaner began. *)
ActiveGuard == row.status # "verifying" \/ ~Leased
Unprotected(elapsed) ==
    /\ row.seen > Protect + elapsed
    /\ row.exact = 0 \/ row.vage > Protect + elapsed

CleanerSelect ==
    /\ cleaner = "idle"
    /\ Present /\ ActiveGuard
    /\ row.seen > Retention \/ Unprotected(0) \* expired, or beyond QUEUE_MAX_ROWS
    /\ cleaner' = "chosen"
    /\ hold' = [hold EXCEPT !["cleaner"] = 0]
    /\ UNCHANGED <<world, gone, row, owed, workerVars, passVars, boundVars>>

DeletableUnguarded == Present
Deletable == Present /\ Unprotected(hold["cleaner"]) /\ ActiveGuard
CleanerDelete ==
    /\ cleaner # "idle"
    /\ IF Deletable
       THEN row' = NoRow /\ owed' = FALSE
       ELSE UNCHANGED <<row, owed>>
    /\ cleaner' = "idle"
    /\ UNCHANGED <<world, gone, workerVars, passVars, hold, boundVars>>

-----------------------------------------------------------------------------
(* recheck_walmart_exact_offer: an owner asks for the item again; a lease that
   runs is left alone, the token of one that ran out is cleared. *)
OwnerRecheck ==
    /\ changes < MaxChanges
    /\ Present /\ ~Leased
    /\ row' = [row EXCEPT !.status = "pending", !.next = 0, !.natural = FALSE,
                          !.owner = "none", !.seen = 0, !.reseen = TRUE]
    /\ cleaner' = IF cleaner = "chosen" THEN "revived" ELSE cleaner
    /\ changes' = changes + 1
    /\ UNCHANGED <<world, gone, owed, workerVars, passVars, hold, crashes>>

(* The item's price changes. *)
PriceChange(p) ==
    /\ changes < MaxChanges
    /\ p # world
    /\ world' = p
    /\ gone' = [gone EXCEPT ![p] = 0]
    /\ changes' = changes + 1
    /\ UNCHANGED <<row, owed, workerVars, passVars, cleaner, hold, crashes>>

Prompt ==
    /\ \A w \in Workers : hold[w] < PromptWork
    /\ \A d \in Passes :
          /\ ppc[d] = "search" => hold[d] < PromptSearch
          /\ ppc[d] \in Enqueueing => hold[d] < PromptPass
    /\ cleaner # "idle" => hold["cleaner"] < PromptClean
Working(a) ==
    \/ a \in Workers
    \/ a \in Passes /\ ppc[a] # "idle"
    \/ a = "cleaner" /\ cleaner # "idle"

AgedRow ==
    [row EXCEPT
        !.snapAge = IF row.snap = 0 THEN 0 ELSE Older(@, SnapLife),
        !.next = IF @ = Never THEN Never ELSE Left(@),
        !.lease = Left(@),
        !.seen = Older(@, Retention),
        !.tried = IF Terminal THEN Older(@, Reprobe) ELSE 0,
        !.vage = IF row.exact = 0 THEN 0 ELSE Older(@, CleanAge)]
AgedClaim(c) ==
    [c EXCEPT !.snapAge = IF c.snap = 0 THEN 0 ELSE Older(@, SnapLife),
              !.since = IF c.status = "none" THEN 0 ELSE @ + 1]
Tick ==
    /\ Prompt
    /\ row' = IF Present THEN AgedRow ELSE row
    /\ gone' = [p \in Prices |->
                  IF p = world THEN 0 ELSE Older(gone[p], MaxGone - 1)]
    /\ claim' = [w \in Workers |->
                   IF wpc[w] = "idle" THEN claim[w] ELSE AgedClaim(claim[w])]
    /\ hold' = [a \in Actors |-> IF Working(a) THEN hold[a] + 1 ELSE 0]
    /\ UNCHANGED <<world, owed, wpc, passVars, cleaner, boundVars>>

CatalogPass(d) ==
    CatalogFetch(d) \/ CatalogStamp(d) \/ EnqueueLoad(d) \/ EnqueueUpsert(d)
WorkerPass(w) ==
    \/ MaintainTerminal(w) \/ ParkNoPrice(w) \/ SelectDue(w) \/ LeaseSelected(w)
    \/ FetchExact(w) \/ PersistOutcome(w)

Next ==
    \/ \E d \in Passes : CatalogPass(d)
    \/ \E w \in Workers : WorkerPass(w) \/ WorkerCrash(w)
    \/ CleanerSelect \/ CleanerDelete
    \/ OwnerRecheck
    \/ \E p \in Prices : PriceChange(p)
    \/ Tick

Spec == Init /\ [][Next]_vars

-----------------------------------------------------------------------------
(* A row is leased to the worker its token names, and only while 'verifying';
   nobody who writes the row meanwhile (catalog, dormancy, terminal
   maintenance, cleaner) reschedules it, so a row whose worker died is due at
   once when the lease runs out. *)
LeaseInvariant ==
    /\ row.owner # "none" <=> row.status = "verifying"
    /\ Leased => row.status = "verifying"
    /\ row.status = "verifying" => row.next = 0

(* verified_at never goes back: a worker that lost its lease, however late it
   finishes, does not replace a result observed after its own. *)
NoStaleOverwrite ==
    [][\A w \in Workers :
          PersistOutcome(w) /\ row' # row /\ claim[w].status = "verified"
              => row.exact = 0 \/ claim[w].since <= row.vage]_vars

(* A price is stored as verified only if it was the item's price at most a
   snapshot lifetime, the searches of a catalog batch and a worker's pass ago,
   although the worker may never have asked Walmart: the snapshot's age counts
   from the end of the searches. *)
FreshResult ==
    [][\A w \in Workers :
          PersistOutcome(w) /\ row' # row /\ claim[w].status = "verified"
              => gone[claim[w].price] <= SnapLife + PromptSearch + PromptWork]_vars

(* "Guard against a rediscovery or fresh successful verification racing
   between preselection and deletion": the cleaner never deletes a row that
   the catalog or a worker refreshed after it was chosen. *)
DeletesSpareRevived ==
    [][cleaner = "revived" /\ Present => row'.status # "absent"]_vars

(* Passes end, time goes on, a due row is sometimes in the batch, and the
   cleaner reaches expired rows.  Nothing is asked of the catalog. *)
Fairness ==
    /\ \A d \in Passes : WF_vars(ppc[d] # "idle" /\ CatalogPass(d))
    /\ \A w \in Workers :
          /\ WF_vars(WorkerPass(w))
          /\ SF_vars(SelectDue(w) /\ wpc'[w] = "lease")
          /\ SF_vars(LeaseSelected(w) /\ wpc'[w] = "fetch")
          /\ SF_vars(MaintainTerminal(w) /\ row' # row)
    /\ SF_vars(CleanerSelect /\ row.seen > Retention) /\ WF_vars(CleanerDelete)
    /\ SF_vars(Tick)
FairSpec == Spec /\ Fairness

(* A lease always ends, by a result, or by expiry and a new lease that ends. *)
LeasesEnd == row.status = "verifying" ~> row.status # "verifying"

(* Evidence that missed its wake-up is used in the end, by the fallback
   recheck, the dormancy reprobe or the weekly re-arm, unless the catalog
   stops seeing the item and retention removes the row. *)
EvidenceUsed == owed ~> ~owed
=============================================================================
