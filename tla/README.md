# SniperPlug: TLA+ models, checks and proofs

SniperPlug is a Discord bot that watches retailers' prices, proves a deal from
an exact product answer and posts it to the servers and users that asked for
it.  Everything that must survive a restart or be agreed between two processes
is a row in one Turso/libSQL database; everything else is coroutines.  These
modules model the parts where the order of database calls, network calls and
crashes decides whether a deal is lost, repeated or announced at a price that is
no longer true.

## The system

Three programs share the database: the bot (`main.py`, `sniperplug/bot.py`), the
Target watcher (`target_watcher_main.py`) and the HP watcher
(`hp_watcher_main.py`); each watcher may also run embedded in the bot.  During a
deployment or a gateway restart two copies of a program overlap, and several
services are written for that (leases, reservations, guarded updates), so the
models assume overlapping copies.  Inside one process every `await` is a point
where another coroutine runs, and all coroutines share one database connection.

    catalog worker (60 s)                           Target / HP watcher
      claim slot -> query -> candidates               select -> lease -> fetch -> confirm
           |  enqueue                                     |  record, publish
           v                                              v
    walmart_exact_detail_queue                      verified_retailer_events
           |  exact worker (20 s): select,                |
           v  lease, fetch, persist                       |
    exact result, price memory                            |
           |  ingest (watermark)                          |
           v                                              v
    exact-deal / extreme-price fanout            verified-retailer fanout
           \________________________    ________________/
                                    \  /
              guild: reserve -> mark sending -> send -> mark posted -> dedupe
              user : match -> send -> receipt
                                    |
              expiry sweep: retire the message, release the guards, re-arm


Every arrow is one or more database statements with other coroutines, other
processes and crashes in between.

### Components

`PROJECT.json` lists every component with its files.  Those that carry the
program's own logic:

| component | state | operations | what makes it correct | model |
|---|---|---|---|---|
| public posting (`services/public_deal_posts.py`) | `guild_public_deal_posts` (reservation per server, product, price), `alert_dedupe` | check, reserve, mark sending, send, mark posted, record, release, prune | one owner of a delivery; no repeat of a message seen delivered; a durable guard under a send (each unless the reservation was lost or outlived) | `PublicPost` |
| exact verification queue (`walmart_exact_*queue*`, dormancy, terminal maintenance, discovery proof) | `walmart_exact_detail_queue` | catalog upsert, select, lease, fetch, persist, park, re-arm, clean | results never go back in time; leases end; new evidence is used; rows in use are not deleted | `ExactQueue` |
| global exact-deal fanout (`walmart_global_deal_fanout*.py`) | event table, watermark, DM receipts, decisions | ingest, claim, load servers, check supersession, deliver, finalize, release, defer, prune | one holder; nobody is forgotten; no repeat; nothing announced that was withdrawn | `DealFanout` |
| verified retailer events (`verified_retailer_event*.py`) | `verified_retailer_events` with lease and attempts | publish, claim, deliver, acknowledge, release, dead-letter, prune | an event ends only when delivered, excused or out of attempts; retries end; caps hold | `RetailerEvents` |
| extreme-price fanout (`walmart_extreme_price_*.py`) | cursor, tickets per server | scan, post, replay, drop, opt in and out | no lead is passed without a decision or a ticket; nothing outdated is sent | `ExtremeLeads`, `ExtremeFanout` |
| posted-deal expiry (`walmart_posted_deal_expiry.py`) | posted rows and their guards | track, disprove, edit, release guards, re-arm events | only ended deals are marked; one live message; a returned deal is announced again | `PostedDeals` |
| Target watcher (`target_watcher/`) | product rows, leases, published events | select, lease, fetch, confirm, record, publish, fail, release | one poller; no stale baseline; an alert is confirmed unless another watcher moved its baseline | `TargetWatch` |
| database worker (`storage/libsql_process.py`, `storage/process_database.py`) | one connection, one worker process | execute, commit, rollback, restart, time out, retry | no silent loss of another coroutine's statements; nobody waits for ever | `SharedConnection` |
| request gate (`walmart_request_coordinator.py`, `walmart_autoscan_offloop.py`) | process-local slots, thread pools | acquire, request, release, time out, cancel | slots are given back; every call ends | `RequestCoordinator`, `Slots` |
| private deal alerts (`dm_*.py`) | preferences, receipts, failures | match, gate, send, receipt, disable | caps and receipts hold across processes | in both fanouts |
| owner's override (`walmart_delivery_recovery.py`) | posted rows | check, send, upsert | as posting | in `PostedDeals` |
| HP watcher (`hp_watcher/`) | product and offer rows, no leases | select, fetch, record, publish | an event once per key | publication only |
| catalog scan (`walmart_global_catalog_autoscan.py`) | a leased cursor over queries | claim, query, complete, release | no query is skipped | |
| price and offer memory | observations, caches | observe, prove a drop, expire | a proof needs observations of the same offer | |

The rest is classification of single cards, HTTP clients and page parsers,
layout, commands, and the movie and carrier offers that have nothing to do with
the deal pipeline.  They are choices or absent in the models; `PROJECT.json`
says which.

How the components interact: the catalog scan calls the queue's upsert; the
exact worker reads and writes queue rows and then observes prices in the
memories; the fanouts read the queue through a watermark and call the posting
protocol and the private alerts; the watchers publish into the retailer events,
whose fanout calls the same two; the expiry sweep reads the queue and the posts,
edits messages, deletes posting guards and closed fanout events.  Inside one
process all of them share the database connection, the thread pool and the request
gate.  Nothing else is shared: components meet in tables, and each table is written
by several processes under leases, tokens or guarded updates.

### What is hard here

* Two processes of the same program overlap; in-process locks (`_FANOUT_LOCK`,
  `dm_delivery_lock`, the posting locks) say nothing between them.
* State read in one statement is used after further awaits: the dedupe check
  before a reservation, the worker's copy of a queue row, the watcher's copy of
  a baseline, the supersession check of a whole batch.
* A send and the write that remembers it are two steps: either may fail, or
  succeed without the caller knowing.
* A process dies with a lease in its hand, or sleeps past the end of the lease.
* A coroutine is cancelled while a thread acts for it: the thread goes on, and
  what it brings back belongs to nobody.
* A transaction is several calls on a connection that others use in between.
* Evidence arrives while a row is being worked on.
* A failed destination, a server missing from the cache or one that cannot be
  read must not lose a deal, nor block the others.

`PROJECT.json` lists each of these at its line, with the properties that look at
it.

## Modules

| module | models | composed with |
|---|---|---|
| `PublicPost` | the posting of one product in one server | |
| `ExactQueue` | one item's queue row: catalog passes, exact workers, the cleaner and the owner's recheck | |
| `TargetWatch` | the polling of one Target product | |
| `DealFanout` | the fanout of one item's verified offers | instantiates `Outbox` |
| `RetailerEvents` | the events of HP and Target on their way to servers and users | instantiates `Outbox` |
| `Outbox` | what a fanout promises of an event | |
| `PostedDeals` | the life of one deal in one server: verified, announced, ended, marked, announced again | the tables of the queue, fanout, posting, expiry and override together |
| `ExtremeLeads` | the leads, cursor and tickets of extreme prices, and what is promised of them | |
| `ExtremeFanout` | the passes, replays and settings of extreme prices | extends `ExtremeLeads` |
| `SharedConnection` | the calls of coroutines through one connection and worker | |
| `RequestCoordinator` | request slots, and the threads they are reached by | instantiates `Slots` |
| `Slots` | what a gate promises of its slots | |
| `*_proofs` | theorems about the module named before; `PublicPost_proofs` also has those of `ExtremeFanout` | |
| `MC*` | instances for TLC | |

Conventions.  A worker is a process, or a coroutine where the code allows several
per process.  Time is discrete: the models keep ages and ticks left in place of
timestamps, saturating just above the largest number anything compares them with,
and `Tick` moves all of them.  A bound such as `PromptWork` is a guard of `Tick`:
time does not pass while a worker has used it up.  Runs set it below or above the
lease to keep workers within their leases or let them oversleep.  `MaxChanges`,
`MaxFaults` and `MaxCrashes` bound what the environment does; what the code does
is bounded by nothing else.  Rows of one table that the code treats independently
are represented by one row, and "chosen into the batch" by a choice.

### PublicPost

State: `row` is the row of `guild_public_deal_posts` per price, `alert` the row of
`alert_dedupe`, `msg` what is known of the Discord message (a history variable),
`pc`/`price`/`tries` a caller's program point, price and retry count, and `exposed`
the prices whose delivery under way has lost its reservation (history).
`CheckAlert` to `RecordDedupe` are the awaits of `maybe_post_public_deal_cards` in
order, `Release` its error path, `Prune` the retention in `storage_maintenance`.
Every write, the reservation included, may fail, succeed unknown to the caller, or
be reported and then lost (`SharedConnection` shows that all three happen).  Nothing
bounds how long a caller is suspended.  The card's gates before the first database
call only choose which calls start.

Two things do let two callers deliver one deal, and the properties name them.  A
reservation whose commit was acknowledged may be gone, with the transaction of a worker
that was restarted or of a coroutine that rolled back; and a caller that sleeps past
the twenty minutes of its 'reserved' row, or the periods of the later statuses, loses the
row to the next caller's cleaning, to the maintenance or to recycling.  `exposed` is
set by exactly these, and is over when nobody owns the delivery any more.  The
protocol has no answer to either: `mark_public_deal_sending` reads the row back, but not
whose it is.  What holds is that nothing else does it: no failed or unknown
write, no crash, no late release that names no owner, no maintenance of young rows; and
that a message sent under its own reservation is not repeated while its guards are
retained.  Each of the two excuses was dropped in turn and TLC found `ExclusiveDelivery`,
`NoDuplicateMessage` and `SendsUnderGuard` violated.

`Scout` is the recycling lane.  No caller passes `allow_review_scout=True`, but
recycling is triggered by "scout" in the source label or key, so the lane is real.
The run has it TRUE, which only adds behaviour; the theorems are for both values.
The extreme-price lane is `Scout = FALSE` with a six-hour `DedupeTTL`.  The two
lanes share deal rows but not alert keys; that another lane's record may be
invisible is covered by `ReadFails`.

### ExactQueue

State: `row` is one row of `walmart_exact_detail_queue`; catalog passes, exact
workers and the cleaner have a program point, a copy of what they read and the time
since they began.  `world` is the true price, `gone` how long each price has not
been the price, `owed` whether the row holds evidence no attempt has used: both
exist for the properties only.  `CatalogFetch` is the searches of a batch
(`discover_walmart_catalog_candidates`), `CatalogStamp` the moment at which
`enqueue_walmart_exact_candidates` takes the time, `EnqueueLoad` and `EnqueueUpsert`
its load and its upsert; `MaintainTerminal`, `ParkNoPrice`, `SelectDue`,
`LeaseSelected`, `FetchExact`, `PersistOutcome` one pass of the drain in its order;
`CleanerSelect` and `CleanerDelete` the two statements of the retention;
`OwnerRecheck` is `recheck_walmart_exact_offer`, which sets a row without a running
lease to pending and due.

The time is taken when all searches of the batch have been answered, so a snapshot is
older than its stamp says, by up to four searches of 45 s and 12 s of HTTP each
(`walmart_global_catalog_autoscan.py:16-20`).  `PromptSearch` bounds that difference, and
`FreshResult` counts it: a promoted price is out of date by no more than the proof's life,
the searches and the worker's pass together.

Abstracted: page pacing, doubling of retry delays by attempt count (the delay is
any of the configured ones for the status), lane ranks and priorities, the three
tiers of a verified row, the fields of a snapshot that are not the price.  The
comparisons of select and lease with the pass's start time are made at the step,
which allows more than the code.  The cleaner's guarantees need passes shorter
than the protection period (`PromptPass`, `PromptWork` <= `Protect`: a hypothesis of
the theorem, true in the run) and a retention that outlasts the protection and the
cleaner (`DelayAssumption`); the code's numbers satisfy both by orders of magnitude.

### TargetWatch

State: `row` is the product's baseline, `lease` its lease row, and per watcher the
program point, what it carries (`copy` of the baseline selected before the lease,
the observation, the `base` it read again) and the time since it acquired.  The
product page and the stock answer are two steps, the two concurrent requests of the
confirmation one.  The rest of the batch of a watcher is time that passes.  An
exception inside `store_offer_failure` is a `Crash`: both leave the lease to expire.
Publication is a step that writes nothing here: the events are those of
`RetailerEvents`.

Ownership is checked in one statement and the baseline written several awaits later, by
the product's key alone (`leased_storage.py:208`).  A watcher whose lease runs out between
the two, and whose product is reclaimed, writes its older observation over a newer one;
TLC shows it when the excuse is dropped.  `docs/TARGET_WATCHER_DEPLOY.md:84`, "a stale
worker cannot complete or overwrite work after another process has reclaimed it", is not
true of it.  `NoStaleBaseline` is what is left: a watcher that still has the lease row
replaces no newer observation, although the lease may have run out, and although
reclaimed watchers may have written in its time.

Not modelled: sitemap sources (same lease functions), staging and pruning of rows
by location profile, and the history table.  A crash between the record and the
publication loses the event; the code promises nothing there, and the hazard list
has it.

### DealFanout and Outbox

State: `queue` is the item's row of the exact queue as the fanout sees it, `event`
the event of each offer (an offer is a proof state; several may have one price),
`receipts` the DM receipts per user and price, `live` the guild cache, `enabled` the
users with alerts on; per process the program point, the claim and the time since
it.  `Ingest`, `ClaimEvent`, `LoadGuilds`, `CheckOffers`, `DeliverGuild`,
`CheckUser`, `SendDM`, `RecordReceipt`, `FinishPass` are the stages of
`fanout_recent_exact_walmart_deals`; `ChoosePrunable` and `Prune` are the two
statements of the retention, `Rearm` the expiry sweep's deletion of closed events;
`Verify` and `CacheChange` are the exact worker and Discord.  Failures: a call
raises before the message, the user's inbox is closed, Discord takes the message and
the call raises, the receipt is not written, the receipt is written and the call
raises, a server's configuration cannot be read, and the whole pass is abandoned at
any await.

The retention selects the keys of closed events and then deletes these keys, without
asking again (`walmart_global_deal_fanout.py:158-181`).  An event that the sweep
re-armed and a pass ingested in between is deleted while it is open, with the lease
of whoever works on it.  `doomed` is what a process has chosen and not yet deleted;
the outbox has it too, and lets an open event disappear only if it was chosen before
(`Doom`, `Forget`).  Without that `ImplementsOutbox` is violated.  `lost` are the
offers this has happened to: `ExclusiveFanout` excuses them, as the second process
finds no lease.

`decided`, `excused`, `sent`, `blurred` and `lost` are history: they are written
only for `Outbox` and the properties.  `Outbox` says what the event table is for: an
event closes only when every destination was decided while it was open (over any
number of passes and processes) or with a reason on record.  The refinement mapping
takes `status` from the events, `doomed` from all processes and the histories as
they are.  Opening an event again, after it was forgotten, forgets its decisions and
may start with an excuse. What it comes to is `ClosedIsSettled`: a closed event has
a decision for every destination or an excuse.

Abstracted: the watermark's place among other rows, the batch (its other events
are time that passes), the filters, caps and diversity gate of a user (a choice),
the decisions table, tombstoned and un-enrolled servers, an unreadable snapshot
(closed at once), 90-day expiry of receipts, users that turn alerts on again.
`first_seen_at` is as old as the verification.  The two reads of `CheckOffers`
(supersession, then preferences) are one step.  Re-arming may happen at any time
after an event closes: what made the sweep retire the post may be outdated by then.

### RetailerEvents

State: `event` is the row of `verified_retailer_events`, `line` the rows in the
order of `first_seen_at`, `receipts` the delivery receipts, `enabled` the users with
alerts on; per process the program point and the batch with what its pass knows.
`Publish` is the watchers' insert by key, `SelectEvents` and `LeaseEvent` the claim,
`LoadDestinations` and `StartEvent` the pass, `DeliverGuild`, `CheckUser`, `SendDM`,
`RecordReceipt` the two deliveries, `FinishEvent` processed, released with its delay
or dead, `Prune` the retention, `Abandon` a pass that ends in the middle.  The same
`Outbox` as above is what the event table is for; failing in the last attempt counts
as decided, a server missing from a pass or an unreadable event is an excuse.

Abstracted: the filters that select among users (a choice), an unsupported retailer
(an unreadable event), the end of the day that resets the cap, deletion of a user's
data.  `DealFanout` handles one event with many offers of it, `RetailerEvents` a
batch of events whose leases run out one after the other.

### PostedDeals

State: `world` whether Walmart sells at the price, `proof` and `fresh` what the queue
knows, `event` the fanout's row, `row` and `alert` the two guards, `override` the
owner's, `shown`, `track` and `stale` each message, its tracking row and whether the
queue has disproved it since it was sent; a program point for the fanout, the owner
and each sweep.  `BeginSweep`, `RetireMessage`, `Persist`, `CommitEarly`,
`CommitSweep` are the sweep: it reads what is disproved, edits one message after the
other and commits at the end, unless another coroutine's commit on the shared
connection takes its writes earlier.  The posting protocol appears without its own
faults (those are `PublicPost`), the fanout without leases (`DealFanout`).

The exceptions in its properties are the findings of this module: each names the
mishaps without which the property holds, and none can be left out.  Overlapping sweeps
or the command that clears the memory can put a second live message next to the
first.  A torn sweep or delivery, an edit whose answer is lost and a message deleted
by hand can leave guards without a message.  An event closed before delivery, as
superseded or because a delivery of the owner that later failed held the
reservation, is forgotten only with an expired message, so the deal's return at the
same price is not announced.

Not modelled: the age at which tracking ends, pruning, the pacing of lookups, the
active-deal cache, the embed.

### ExtremeLeads and ExtremeFanout

State (`ExtremeLeads`): `rows` the queue rows of extreme items (the time of the last
verification, and whether the lane may read it), `opted` the servers,
`cursor`, `tickets` the pending table, per process its place and what it read: a set of
leads and a set of tickets, each the oldest that the query's LIMIT let through
(`Oldest`), taken first to last (`IsFirst`).  `Begin` to `Save` are the awaits of a
pass: live servers and settings, cursor, pruning of tickets, replay with its check
of the proof, selection after the cursor, a row's tickets, the posts, the cursor.
`Write` is a verification, which may be late: written behind the cursor.  `Withdraw` is
every other change: a catalog upsert with another price or snapshot (pending), a claim
(verifying), a failed verification (retry) and deletion leave `verified_at` as it is and
take the row out of the lane's sight until it is verified again.  `OptIn` and
`OptOut` are the settings command; its lock, and that of a pass, are local to the
process.  Which candidate is an extreme price is a choice, and the sender's own
guards are `PublicPost`.  `answered` is history: deliveries the sender decided, and
those no pass owes because the lead was written behind the cursor or behind what a
pass under way has read (`Late`), the server joined later than the pass read the
settings, or it left.

What is sent is looked at first and sent some awaits later: a ticket's proof is
compared with the row and then replayed, a lead is read with its batch and posted
minutes after. Evidence withdrawn or replaced in between is sent all the same.
`SentInOrder` says what the lane does keep: what is sent was the item's proof when
the pass looked at it (`moved` are the items whose row changed since), and no
process, over all its passes, tickets and restarts, sends an older proof of an item
after a newer one that it delivered (`sent`).  A ticket kept for an absent server
competes with newer leads of its item, and it is the comparison of both times at
each replay, and the lock that keeps passes of one process apart, that put them in
order; two processes may send in the wrong order.

The cursor of a pass under way counts beside the stored one: the first server that
opts in sets the cursor back by the freshness window
(`walmart_extreme_price_fanout.py:264-274`), and a pass of another process that is still
running writes its own cursor over it (:633).  A lead verified in between, behind the
older pass and ahead of the reset cursor, is then never read.  The first proof attempt
failed on this case, which needs more verifications than the run has.

### SharedConnection

State: the worker process, the statements of the open transaction, requests and
replies in the pipe, what is committed, the lock, the thread of each coroutine's call,
and per statement how it was rolled back.  `MakeCall` takes the lock and sends,
`Execute`, `Reconnect`, `Fail`, `Commit`, `Rollback` are the worker, `Receive`, `GiveUp`
and `PipeClosed` the thread, `Reset` the retry of a read, `Cancel` the cancellation
of a coroutine, which frees the lock and not the thread.  It shows which of the write
outcomes that `PublicPost` assumes are possible: all of them.

What the model makes visible: `CommittedIsDurable` needs both of its exceptions.  A
read that exceeds its deadline inside the client's own transaction discards the worker
and is then tried again on a new connection, so the commit that follows is
acknowledged and the earlier writes are gone, while the docstrings
(`process_database.py:109-118`, `libsql_process.py:41-44`) say that reads are tried again
only outside transactions.  The retry discards the worker without holding the lock.
The writes of a cancelled coroutine become durable with somebody else's commit; the
only caller of `rollback()` is `public_deal_posts.py:620`.

Not modelled: shutdown, the readiness probe, scripts of several statements, the
embedded replica's fallback.  A request in flight when the worker is killed took
effect before it or never does.

### RequestCoordinator

State: each coroutine's place, the FIFO queue of the bot loop's default executor and
of the helper loop's, what each thread does, `active` slots and those of them that are
`lost`.  `Call` submits the wait for a slot to a thread (`asyncio.to_thread(acquire)`),
`Enter` and `Refuse` are that thread's loop with its priorities and its 45 s, `Request`
and `Finish` the HTTP calls, `Release` the coroutine's `finally`, `CallOutside` lookups
that go past the gate (`walmart_exact_queue_runtime.py:435-447`), `StartHelper` and
`EndHelper` the catalog scan's own loop in one of the threads.  `Cancel` may come at
any await: a job that has not started is dropped, one that has started goes on.

The slot is taken by a thread and given back by a coroutine.  A coroutine cancelled
(by the 25 s or 50 s of its caller) while its thread waits, or after the grant but
before it resumes, leaves a slot in use until the process restarts.  `SlotsAccounted`
confines the loss to this case.  Requests of a cancelled coroutine go on after its slot
was given back, and some lookups have none, so the requests in flight may exceed the
capacity, although the module's docstring calls it a gate shared by every request.
Waiting threads fill the pool in which the holders of the slots make their requests;
only the waiters' deadline resolves that (`EveryCallEnds`).

`Slots` is the promise without threads and queues: a client takes a free slot and gives
it back, or a slot is lost for ever.  The gate implements it with the holders as
`held` (`ImplementsSlots`).

Not modelled: the cooldown, which nothing sets (`apply_cooldown` has no caller), the
page circuit, probes, pacing debt and quotas.

## Runs

| run | shows | expected |
|---|---|---|
| `post` | ownership and no repeat with two callers, suspended for as long as they like, writes that fail, take effect unseen or are lost, crashes anywhere, recycling | pass |
| `post_overtake` | two prices of one product overtake each other | violation |
| `queue_safety` | leases, order of results, age of promoted evidence and the cleaner's guard with two workers that outlast leases | pass |
| `queue_live` | leases end and evidence is used after a crash | pass |
| `target_watch` | order of observations with passes that outlast leases, confirmation, progress | pass |
| `fanout` | repeats, staleness, the outbox and its end | pass |
| `events` | the outbox and its end for a batch of events, with crashes and destinations that always fail | pass |
| `events_overlap` | repeats and the daily cap with two processes and leases that run out | pass |
| `posted` | the life of a deal under any two mishaps, with two sweeps | pass |
| `connection` | transactions, timeouts, cancellations and retries on one connection | pass |
| `extreme` | nothing passed over, proofs sent in order, with two processes and rows that change under them | pass |
| `requests` | slots and threads with cancellations anywhere | pass |

Bounds.  Two actors are enough for hazards between pairs: the guards of each
protocol speak of one token, one row or one status, and the theorems, which have
no bound on actors, values or failures, confirm it for the safety properties they
cover.  The delays are the smallest that keep their order in the code and make each
comparison come out both ways: passes that last as long as the lease or longer, a
retention longer than the protection, a dedupe period longer than the longest
send.  Two prices (or three offers) are the smallest world with a drop and a
return.

* `post` has one price and two callers; ages saturate one above the largest period,
  and with the periods of 1 to 4 ticks every caller may outlive its row in each
  status (189,353 distinct states).
* `queue_safety` has two prices, complete candidates and one change, of the price or
  by the owner, and searches of one tick (4.4 million distinct states); snapshots
  live for no time beyond the tick they are made in, so that a worker of two ticks
  outlasts them.  It starts with one of the prices, which are only compared for
  equality.  `queue_live` has one worker, one price, weak candidates and a crash.
  It has no rechecks by the owner: an owner who asks again whenever the lease has
  just ended, for ever, takes the token from every worker, and the evidence would
  never count as used.
* `fanout` and `target_watch` meet one fault per behaviour, of every kind and at every
  step.  `fanout` has one offer (417,535 distinct states); the theorems have any number.
  The deletion of an open event needs a change for it to be verified again, which the
  two changes allow.  `target_watch` has passes of twice the lease (495,892).
* `events` has one process, two events, a server, a user and two attempts: the second
  event's lease runs out while the first is delivered.  `events_overlap` adds the
  second process and drops liveness.
* `posted` allows three messages of the deal, two turns of the deal and any two of the
  seven mishaps; three messages are a first one, the one after a return and one too
  many.  Deadlock is not checked because the bounds end the behaviour.
* `connection` has two coroutines of two writes, a read and a commit or rollback, and a read
  tried twice; deadlock is not checked because coroutines end.
* `extreme` has two items, two servers, three moments, two verifications, a command
  and two passes in all, which overlap or follow each other; crashes and withdrawals are
  not bounded.  It starts with nothing verified, or after an earlier pass that posted a
  lead to one server and kept a ticket for the other (`AfterOnePass`): a ticket that
  competes with a newer proof of its item takes three passes (4.1 million distinct
  states).
  Deadlock is not checked because of the bounds.  A pass that read
  the cursor before it was set back, and moves it afterwards (above), takes a third
  verification and is beyond the run; the theorems
  cover it.  Their inductive invariant was tried with one server, three verifications
  and three passes.
* `requests` has one slot, two coroutines of the bot's loop and one of a helper's, two
  threads and one: one cancellation is enough to lose the only slot, and the two threads
  can both be waiters.  Cancellations are not bounded.

Fairness.  A loop that the bot schedules (the exact worker every 20 s, the fanout's
callers every 20 s, 60 s and 30 min in `cogs/global_auto_scan_runner.py`, the
watchers' `run_forever`, the sweep) takes its next step in the end: weak fairness of a
worker's pass, and of time.  Choices inside a loop get no fairness except

* in `ExactQueue`, where a due row is assumed to be in the bounded batch infinitely
  often (strong fairness of selection and lease).  The code orders lanes by rank with
  'verifying' last, so under lasting pressure that assumption can fail; the hazard
  list says so;
* in `PostedDeals`, where Discord accepts a message that is tried again and again
  (strong fairness of the send);
* in `RequestCoordinator`, where a helper loop ends because a scan makes finitely many
  calls (strong fairness of `EndHelper`); threads and coroutines run (weak fairness), and
  nothing is asked of Walmart beyond the timeouts of the HTTP client.

`SharedConnection` has weak fairness of coroutines and threads and none of the worker:
`EveryoneEnds` rests on the deadlines.  `PolledAgain`, `EventsClose` and `EventsEnd` are
conditional on passes keeping to their leases from some time on: a process that always
outlasts its lease never finishes anything, and the code does not prevent that.
`queue_live` has catalog passes that take no time, as otherwise the tiny retention of
the instance expires during a pass.

## What is proved

All theorems hold for every value of the constants that satisfies the named
assumptions of the modules.

* `PublicPost_proofs`: `TypeCorrect`, `DeliveryCorrect`, `OneDelivery`,
  `GuardBeforeSend`, `NoRepeat` of the posting protocol, for every set of faults,
  lost reservations included, and callers suspended for any time.  The inductive
  invariant is `DeliveryInvariant`: exclusion alone is not inductive, since
  a row may be deleted by age, by a release that names no owner, or by recycling.
  It adds that the row of a delivery that is not exposed is its owner's (young enough to
  be left alone, in the status its program point implies) and that a recent message keeps
  its row away from any owner that could release it.

  The second part, of the lane that posts through it (`EF` instantiates
  `ExtremeFanout`): `ExtremeInvariance`, `ExtremeTypeCorrect`, `NoRecipientLost`,
  `NothingStaleIsSent`, from `CursorInv`.  `SettledTo(c)` says that each fresh current
  lead up to c has a decision or a ticket for every server; it holds of the stored
  cursor and, as a pass writes its own back, of every pass's (`NextSettled`).  To move a
  cursor over a lead the pass must know that nothing lies between: `Batched` (what it
  read lies after its cursor, one lead per item) and `Covered` (a current lead that lies
  after its cursor and not after the last it read was read by it, or is settled).
  `Posted` says that the lead at hand is settled for the servers it was tried for,
  `Cleared` that a ticket is only cleared when decided or outdated, `HeldInStep` and
  `TicketsInStep` that no copy is newer than its row, `Ordered` that nothing a process has
  delivered is newer than what it still may, `Shown` that a copy is the row unless
  the item's row has changed.  The assumption is `ExtremeAssumption`: limits are
  positive and item ids are ordered.
* `ExactQueue_proofs`: `TypeCorrect`, `LeaseCorrect`, `NewestResult`,
  `RecentResult`, `CleanerSparesRevived`: every safety property of the queue.
  `LeaseInvariant` is inductive.  `NoStaleOverwrite` needs that the holder of the
  row's token claimed after the stored result was observed (`HolderIsNewest`), and
  that ages are kept precise as long as a worker can hold a claim (`AgesTellPasses`,
  a property of the abstraction of time).  `FreshResult` follows a price on its way:
  `PricesRecent` bounds how long the price in a candidate, in the row's snapshot, in
  a worker's copy and in its answer has not been the item's, by the age each carries
  and the searches before the stamp.  `DeletesSpareRevived` needs that a row
  rewritten since it was chosen has an age within the protection
  (`RevivedIsSpared`), under the hypothesis `WithinProtection` that catalog passes
  and workers finish within the protection period.
* `TargetWatch_proofs`: `TypeCorrect`, `AloneWithProduct`, `PromptWatchersAlone`
  (passes shorter than the lease never overlap at all), `NewestBaseline`,
  `EventsConfirmedOrOvertaken`.  Invariants:
  `LeaseInStep` ties a fresh worker to the lease row, `NewestObserver` says that
  whoever has the lease row acquired it after the recorded baseline was observed, and after
  whatever a reclaimed watcher may still write was observed, `ConfirmsOrOvertaken`
  follows a pass from its decision to confirm to the event.
* `DealFanout_proofs`: `TypeCorrect`, `AloneWithEvent`, `NotStalerThanThePass`,
  `ReceiptsPreventRepeats`, `Implements`, `ClosedForgetsNobody`.  `LeaseHeld` ties a
  process that claimed within a lease to the event's owner and time left.
  `GoneDisproved` and `CheckedInPass` say that an offer in delivery was still proved
  when the pass checked it.  `OneAtATime`, `Receipted`, `Unsent` say that, on a
  price without overlaps and lost receipts, at most one process carries a user past
  the receipt check, and that a sent message has a receipt or is about to get one.
  `OwnedOpen`, `Accounted`, `AllLoaded` say that the holder's event is open (a pass
  whose event was pruned holds nothing, also when the event is opened and claimed
  again), that the destinations it is through with are decided or its failure is
  noted, and that it knows of every server or has put on record that it could not
  read one: with these, closing the event is a step of `Outbox`.
  `ClosedForgetsNobody` is what follows: a closed event has a decision for every
  destination or an excuse on record.

* `RetailerEvents_proofs`: `TypeCorrect`, `RepeatsAreExplained`, `CapIsExplained`,
  `Implements`, `ClosedForgetsNobody`, from `EventsInv`. Ownership of a row is by
  name and not by time: a pass may outlast its lease, and only loses the row when
  another process claims it, so `Accounted` speaks of the pass that still holds its
  event: each destination it left behind is decided, unless one failed and the event
  will be released (`Settled`); that is what the outbox asks when it closes.  The
  proof that nobody else's step disturbs it is the lemma `HeldStays`: a row that is
  held afterwards was held before, and what was decided of it is not forgotten.
  `UsersSafe` carries both receipt properties: a user without a mishap is in one
  delivery at most, each message has its receipt or is in the delivery that is about
  to write it, and a delivery began below the cap.  Neither property is inductive
  alone, for the receipt is written two steps after it is checked.
* `PostedDeals_proofs`: `TypeCorrect`, `ExpiredOnlyAfterTheEnd`, `OneLive`, `GuardsStand`,
  from `DealInv`.  `MessagesInStep` ties messages to their tracking rows, deliveries and
  the sweeps' copies; `EndedInStep` follows an ended deal from the proof's loss through
  the stale set and a sweep's list to the edit; `Alone` holds while no two sweeps
  overlapped and the memory was not cleared (one delivery, or one message, or one
  sweep, and a guard with it); `Standing` holds while nothing was torn, unsure or
  deleted by hand.  The hypotheses of the last two are those of the properties.
* `SharedConnection_proofs`: `TypeCorrect`, `CommitIsDurable`, `FailureStays` (an action
  property), from `ConnectionInv`.  `PipeInStep` says that a thread has one request or
  reply in the pipe; `NothingOpen` that whoever failed, or is about to be told so, has
  nothing in the transaction, which is why a later commit of another coroutine cannot
  make its writes durable; `Durable` where each acknowledged write is at each moment.
* `RequestCoordinator_proofs`: `TypeCorrect`, `SlotsAreAccounted`, `NobodyIsForgotten`,
  `NothingOutlivesTheHelper`, `Implements`, from `CoordinatorInv`.
  `OneJob` (a coroutine has one job at most, in one queue or on one thread) and
  `JobsInStep` (it is the one the coroutine waits for) are what keeps a late thread from
  taking a slot for a coroutine that has one already.  `WaitersServed` is the converse:
  whoever waits has its job in the queue or on a thread of its own loop's pool, which
  takes that only unstarted jobs are dropped and only for the coroutine that is
  cancelled.  `HelperHolds`, with `InnerQueue` (the helper's pool takes the jobs of its own
  coroutines only), says that a helper loop leaves nothing behind.  That the gate
  implements `Slots` follows from the accounting of its counter.

`AloneWithEvent`, `AloneWithProduct`, `PromptWatchersAlone`, `GuardBeforeSend`,
`ClosedForgetsNobody`, `NobodyIsForgotten`, `NothingOutlivesTheHelper` and the
implementation of `Slots` state properties that no run repeats; neither do the
invariance theorems, whose invariants TLC has agreed to on instances like those of the
runs.

Helpers on sequences in `RetailerEvents` and `RequestCoordinator` (`RemovedAt`,
`WithoutJobOf`, the choice of the first due places in `SelectEvents`) are functions
and quantifiers in place of the library's SelectSeq and its relatives, about whose
recursive definitions nothing can be proved here.

Only model-checked: liveness (`LeasesEnd`, `EvidenceUsed`, `PolledAgain`, `EventsClose`,
`EventsEnd`, `EndedIsRetired`, `ReturnIsAnnounced`, `EveryoneEnds`, `EveryCallEnds`),
which rests on fairness and is beyond the prover.  Every type invariant, safety invariant
and action property of the passing runs is a theorem.  No module uses a RECURSIVE
operator.

## Findings

`post_overtake` is a `violation` run and an entry in `PROJECT.json`: the price check
comes before the reservation and the record after the send, and reservations are per
price; a higher price can be sent after a lower one was sent and recorded.

The following are places where the code does not do what its comments say, or less than
a reader would expect.  The models contain them, and the properties of the passing
runs are worded so that they name the case.

* Queue: a material change does not wake a row that is being verified
  (`walmart_exact_verification_queue_bulk.py:308-337`, against its docstring at
  127-130); it waits for the recheck, a day to a week.  A confirmed-no-price row that is
  already due when new evidence arrives looks untouched and is parked
  (`walmart_confirmed_no_price_dormancy.py:66`).  `EvidenceUsed` shows that the evidence is
  used in the end.
* Target: ownership is checked in one statement and the baseline written several
  awaits later, by the product's key alone (`leased_storage.py:208`); a watcher
  reclaimed between the two replaces a newer observation by an older one, against
  `docs/TARGET_WATCHER_DEPLOY.md:84`, and `NoStaleBaseline` excuses it.  Whether to
  confirm is decided from a copy made before the lease
  (`production_service.py:139`), so `UnconfirmedOnlyIfOvertaken` is all there is.
* Fanout: events are leased by proof state, receipts are kept by price, and the lock around
  check, send and receipt is local to a process: two processes can send a user the same
  price twice (`walmart_global_deal_fanout_bulk.py:456-482`, against its docstring at
  1018-1022).  `RepeatsExplained` names the overlap.
* Fanout: a prune deletes an event that was opened anew after it was chosen
  (`walmart_global_deal_fanout.py:158-181`); the module above.
* Posting: a reservation acknowledged and lost, or outlived by its owner, lets two callers
  deliver one deal; `exposed` names them.
* Fanout: a live server whose settings cannot be read at the moment of the load is
  neither delivered to nor awaited, and the event closes without it; `Outbox` has it as
  an excuse.
* Extreme prices: a pass of another process writes its older cursor over the one that a
  server's opt-in has just set back (`walmart_extreme_price_fanout.py:633`), and leads
  verified in between are not read; see the module above.  `Late` excuses them.
* Connection, posted deals and the request gate: see the modules above.

## Not modelled

* HTTP clients, page parsers, embeds, commands and views, and the classification of
  single cards: they decide which calls start and what an answer says, which the models
  leave to choice.
* `HP watcher`: its publication is `RetailerEvents!Publish`.  It polls without leases, so
  nothing orders two watchers' records of a product; only the event's key keeps a
  repeated observation from a repeated event.
* The catalog scan's claim of queries, the price and offer memories, quotas, probes and
  page debt: they decide what is looked up and when.
* Movie and carrier offers: independent of the deal pipeline.
* Removal and restaging of a Target product while a watcher polls it, and the crash
  between a recorded baseline and the publication of its event: hazards without a property,
  as the repository promises nothing there.  The price observation recorded by a worker that
  lost its lease is the third, for want of a model of the memory.

## Plan

What would extend the project, the most useful first:

1. `FanoutCursor`: the bulk fanout's watermark over (verified_at, item_id), as
   `ExtremeFanout` has it for extreme prices; `Batched`, `Covered` and `SettledTo` carry
   over.
2. `CatalogClaim`, `HpStorage`, `OfferMemory`: the claim of queries, the HP watcher's
   records without leases, and the memories that prove a drop.
