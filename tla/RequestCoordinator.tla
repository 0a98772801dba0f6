-------------------------- MODULE RequestCoordinator --------------------------
(* services/walmart_request_coordinator.py and the threads it is reached by.

   A coroutine that asks Walmart first takes one of Capacity slots.  It waits
   for the slot in a thread (asyncio.to_thread(acquire)), and its requests are
   made in threads too.  All coroutines of the bot's loop share that loop's
   default executor, a bounded pool with a FIFO queue; a catalog scan runs in
   one of these threads as a loop of its own, with a pool of its own, and goes
   through the same gate.  Other blocking calls (lookups that go past the gate,
   the database) use the pools without a slot.

   A coroutine may be cancelled at any await: by wait_for, by the end of its
   task.  Its job is then dropped if it has not started; a job that has started
   goes on, for nobody. *)
EXTENDS Naturals, Sequences, FiniteSets

CONSTANTS
    Tasks,        \* coroutines of the bot's loop
    Inner,        \* coroutines of the helper loop
    Threads,      \* the default executor of the bot's loop
    InnerThreads, \* the default executor of the helper loop
    Capacity,     \* slots
    Ranks,        \* priorities, EXACT_PRIORITY = 0 the best
    MaxRequests,  \* requests of one slot, one after the other
    Nobody        \* not a coroutine

Callers == Tasks \cup Inner
AllThreads == Threads \cup InnerThreads

ASSUME CoordinatorAssumption ==
    /\ Capacity \in Nat \ {0} /\ MaxRequests \in Nat \ {0}
    /\ Ranks \subseteq Nat /\ 0 \in Ranks
    /\ Nobody \notin Callers
    /\ Tasks \cap Inner = {} /\ Threads \cap InnerThreads = {}
    /\ IsFiniteSet(Callers)

VARIABLES
    pc,      \* where each coroutine is
    left,    \* requests its slot still needs
    queue,   \* jobs of each pool that no thread has taken
    job,     \* what each thread does
    active,  \* slots in use
    lost     \* of these, slots granted to a coroutine that had been cancelled
vars == <<pc, left, queue, job, active, lost>>

Jobs == [op : {"acquire", "request", "loop"}, by : Callers \cup {Nobody}, rank : Ranks]
Free == [op |-> "free", by |-> Nobody, rank |-> 0]
Job(op, c, rank) == [op |-> op, by |-> c, rank |-> rank]
HelperJob == Job("loop", Nobody, 0)

Pools == {"main", "inner"}
PoolOf(c) == IF c \in Tasks THEN "main" ELSE "inner"
PoolOfThread(t) == IF t \in Threads THEN "main" ELSE "inner"

TypeOK ==
    /\ pc \in [Callers -> {"idle", "acquire", "entered", "request", "answered",
                           "outside"}]
    /\ left \in [Callers -> 0..MaxRequests]
    /\ queue \in [Pools -> Seq(Jobs)]
    /\ job \in [AllThreads -> Jobs \cup {Free}]
    /\ active \in 0..Capacity
    /\ lost \in 0..Capacity

Init ==
    /\ pc = [c \in Callers |-> "idle"]
    /\ left = [c \in Callers |-> 0]
    /\ queue = [p \in Pools |-> <<>>]
    /\ job = [t \in AllThreads |-> Free]
    /\ active = 0
    /\ lost = 0

Move(c, to) == pc' = [pc EXCEPT ![c] = to]
Submit(p, j) == queue' = [queue EXCEPT ![p] = Append(@, j)]

-----------------------------------------------------------------------------
(* The helper loop: a job of the bot's pool, started by a coroutine that only
   waits for it.  It is over when its coroutines and its threads are. *)
Helping == \E t \in Threads : job[t].op = "loop"
HelperQueued == \E i \in 1..Len(queue["main"]) : queue["main"][i].op = "loop"

StartHelper ==
    /\ ~Helping /\ ~HelperQueued
    /\ Submit("main", HelperJob)
    /\ UNCHANGED <<pc, left, job, active, lost>>

EndHelper(t) ==
    /\ job[t].op = "loop"
    /\ \A c \in Inner : pc[c] = "idle"
    /\ \A u \in InnerThreads : job[u] = Free
    /\ job' = [job EXCEPT ![t] = Free]
    /\ UNCHANGED <<pc, left, queue, active, lost>>

-----------------------------------------------------------------------------
(* A coroutine. *)
Called(c) == pc[c] = "idle" /\ (c \in Inner => Helping)

(* walmart_request_slot *)
Call(c, rank) ==
    /\ Called(c)
    /\ Move(c, "acquire")
    /\ \E n \in 1..MaxRequests : left' = [left EXCEPT ![c] = n]
    /\ Submit(PoolOf(c), Job("acquire", c, rank))
    /\ UNCHANGED <<job, active, lost>>

(* A blocking call outside the gate. *)
CallOutside(c) ==
    /\ Called(c)
    /\ Move(c, "outside")
    /\ Submit(PoolOf(c), Job("request", c, 0))
    /\ UNCHANGED <<left, job, active, lost>>

(* The body of the async with: its requests follow one another. *)
Request(c) ==
    /\ pc[c] \in {"entered", "answered"} /\ left[c] > 0
    /\ Move(c, "request")
    /\ left' = [left EXCEPT ![c] = @ - 1]
    /\ Submit(PoolOf(c), Job("request", c, 0))
    /\ UNCHANGED <<job, active, lost>>

(* The finally clause.  A coroutine has entered the try only when it resumed
   with its lease. *)
InTryUntilAnswered(c) == pc[c] = "answered"
InTry(c) == pc[c] \in {"request", "answered"}

Release(c) ==
    /\ pc[c] = "answered" /\ left[c] = 0
    /\ Move(c, "idle")
    /\ active' = active - 1
    /\ UNCHANGED <<left, queue, job, lost>>

(* A coroutine has at most one job: cancelling its future removes it. *)
RemovedAt(s, k) == [i \in 1..(Len(s) - 1) |-> IF i < k THEN s[i] ELSE s[i + 1]]
WithoutJobOf(s, c) ==
    IF \E k \in DOMAIN s : s[k].by = c
    THEN RemovedAt(s, CHOOSE k \in DOMAIN s : s[k].by = c)
    ELSE s

Cancel(c) ==
    /\ pc[c] # "idle"
    /\ Move(c, "idle")
    /\ left' = [left EXCEPT ![c] = 0]
    /\ queue' = [p \in Pools |-> WithoutJobOf(queue[p], c)]
    /\ job' = [t \in AllThreads |->
                 IF job[t].by = c THEN [job[t] EXCEPT !.by = Nobody] ELSE job[t]]
    /\ active' = IF InTry(c) THEN active - 1 ELSE active
    /\ lost' = IF pc[c] = "entered" THEN lost + 1 ELSE lost

-----------------------------------------------------------------------------
(* A thread of a pool. *)
Start(t) ==
    LET p == PoolOfThread(t)
    IN  /\ job[t] = Free /\ queue[p] # <<>>
        /\ job' = [job EXCEPT ![t] = Head(queue[p])]
        /\ queue' = [queue EXCEPT ![p] = Tail(@)]
        /\ UNCHANGED <<pc, left, active, lost>>

(* WalmartRequestCoordinator.acquire: a slot is free, and no thread waits with
   a better rank, whether or not anybody waits for that thread. *)
Waiting(t) == job[t].op = "acquire"
FirstInRank(t) == \A u \in AllThreads : Waiting(u) => job[t].rank <= job[u].rank
MayEnterAtCapacity(t) == active <= Capacity /\ FirstInRank(t)
MayEnter(t) == active < Capacity /\ FirstInRank(t)

Enter(t) ==
    /\ Waiting(t) /\ MayEnter(t)
    /\ active' = active + 1
    /\ job' = [job EXCEPT ![t] = Free]
    /\ IF job[t].by = Nobody
       THEN lost' = lost + 1 /\ UNCHANGED pc
       ELSE Move(job[t].by, "entered") /\ UNCHANGED lost
    /\ UNCHANGED <<left, queue>>

(* The deadline has passed: TimeoutError. *)
DeadlineNever(t) == FALSE
Deadline(t) == ~MayEnter(t)
Refuse(t) ==
    /\ Waiting(t) /\ Deadline(t)
    /\ job' = [job EXCEPT ![t] = Free]
    /\ IF job[t].by = Nobody
       THEN UNCHANGED <<pc, left>>
       ELSE /\ Move(job[t].by, "idle")
            /\ left' = [left EXCEPT ![job[t].by] = 0]
    /\ UNCHANGED <<queue, active, lost>>

(* The request ends, with an answer, an error or its own timeout. *)
Answered(c) == IF pc[c] = "outside" THEN "idle" ELSE "answered"
Finish(t) ==
    /\ job[t].op = "request"
    /\ job' = [job EXCEPT ![t] = Free]
    /\ IF job[t].by = Nobody THEN UNCHANGED pc
       ELSE Move(job[t].by, Answered(job[t].by))
    /\ UNCHANGED <<left, queue, active, lost>>

Coroutine(c) == Request(c) \/ Release(c)
Thread(t) == Start(t) \/ Enter(t) \/ Refuse(t) \/ Finish(t)

Next ==
    \/ StartHelper
    \/ \E c \in Callers :
          \/ \E rank \in Ranks : Call(c, rank)
          \/ CallOutside(c) \/ Coroutine(c) \/ Cancel(c)
    \/ \E t \in AllThreads : Thread(t) \/ EndHelper(t)

Spec == Init /\ [][Next]_vars

-----------------------------------------------------------------------------
(* Every slot in use belongs to a coroutine that will release it, except those
   lost for good; a slot is lost only when a coroutine is cancelled while it
   waits for its slot, or before it resumes with it.  No cancellation later, no
   deadline and no error loses one or gives one back twice. *)
Holders == {c \in Callers : pc[c] \in {"entered", "request", "answered"}}
SlotsAccounted == active = Cardinality(Holders) + lost

(* The gate, with its threads, queues, deadlines and cancellations, is a gate of
   Capacity slots: a slot is granted only while one is free, to a coroutine that
   has none, and given back by the one that has it. *)
Gate == INSTANCE Slots WITH Clients <- Callers, held <- Holders
ImplementsSlots == Gate!Spec

(* Threads go on; the loop resumes coroutines; a helper loop makes finitely many
   calls. *)
Fairness ==
    /\ \A t \in AllThreads : WF_vars(Thread(t)) /\ SF_vars(EndHelper(t))
    /\ \A c \in Callers : WF_vars(Coroutine(c))
FairSpec == Spec /\ Fairness

(* Every call ends: although the threads of a pool may all wait for slots whose
   holders' requests are queued behind them, although helper loops take threads
   of the pool their requests do not use, and however many slots are lost. *)
EveryCallEnds == \A c \in Callers : pc[c] # "idle" ~> pc[c] = "idle"
=============================================================================
