--------------------------- MODULE SharedConnection ---------------------------
(* storage/libsql_process.py and the read retry of storage/process_database.py:
   all coroutines of a process share one database connection, which lives in a
   worker process behind a pipe.  A lock lets one coroutine at a time make a
   call, but a transaction is several calls, a cancelled coroutine releases the
   lock while the thread that made its call goes on, and the retry of a read
   discards the worker without the lock.

   A coroutine (client) executes write statements and a read and commits.
   Statement <<c, i>> is the i-th write of client c.  A statement is in the
   open transaction of the connection, in the database, or lost. *)
EXTENDS Naturals, Sequences, FiniteSets

CONSTANTS
    Clients,
    MaxWrites,      \* write statements of a client
    Attempts,       \* TRANSIENT_READ_RETRY_ATTEMPTS
    Nobody          \* not a client

ASSUME ConnectionAssumption ==
    /\ MaxWrites \in Nat \ {0} /\ Attempts \in Nat \ {0}
    /\ Nobody \notin Clients

VARIABLES
    worker,   \* the worker process: "up", "dead" (and not yet noticed), "none"
    txn,      \* statements of the connection's open transaction
    inbox,    \* requests in the pipe
    outbox,   \* replies in the pipe
    db,       \* committed statements
    lock,     \* holder of the asyncio lock
    call,     \* the thread that waits for the client's reply
    pc,       \* the client's place
    wrote,    \* acknowledged writes of the client
    tries,    \* attempts of the client's read so far
    fate      \* of each statement: kept so far, or how it was rolled back
vars == <<worker, txn, inbox, outbox, db, lock, call, pc, wrote, tries, fate>>
pipe == <<worker, txn, inbox, outbox, db>>

Statements == Clients \X (1..MaxWrites)
Ops == {"write", "read", "commit", "rollback"}
NoCall == [op |-> "none", tied |-> FALSE]
(* Rolled back by the client's own call, by its call that timed out, or by
   others: another client's call or a worker that died. *)
Fates == {"kept", "own", "timeout", "others"}
Ended == {"ok", "failed", "cancelled", "ended"}
Ready == [to |-> Nobody, is |-> "ready"]

TypeOK ==
    /\ worker \in {"up", "dead", "none"}
    /\ txn \subseteq Statements /\ db \subseteq Statements
    /\ inbox \in Seq([from : Clients, op : Ops])
    /\ outbox \in Seq([to : Clients \cup {Nobody},
                       is : {"ok", "transient", "final", "fatal", "ready"}])
    /\ lock \in Clients \cup {Nobody}
    /\ call \in [Clients -> [op : Ops \cup {"none"}, tied : BOOLEAN]]
    /\ pc \in [Clients -> Ended \cup {"run", "wait", "retry", "again"}]
    /\ wrote \in [Clients -> 0..MaxWrites]
    /\ tries \in [Clients -> 0..Attempts]
    /\ fate \in [Statements -> Fates]

Init ==
    /\ worker = "up" /\ txn = {} /\ inbox = <<>> /\ outbox = <<>> /\ db = {}
    /\ lock = Nobody
    /\ call = [c \in Clients |-> NoCall]
    /\ pc = [c \in Clients |-> "run"]
    /\ wrote = [c \in Clients |-> 0]
    /\ tries = [c \in Clients |-> 0]
    /\ fate = [s \in Statements |-> "kept"]

(* ---------------------------- the transaction ---------------------------- *)

(* The open transaction is rolled back, or dies with its connection. *)
Rolled(s, who, why) == IF s[1] = who THEN why ELSE "others"
Drop(who) ==
    /\ txn' = {}
    /\ fate' = [s \in Statements |-> IF s \in txn THEN Rolled(s, who, "own") ELSE fate[s]]

(* _discard_worker_sync: the pipe is closed and whatever worker is current is
   killed.  Threads that wait on the closed pipe are no longer tied to one, and
   a client whose fatal answer was in it does not learn that its writes are
   lost: that is put down to the discard. *)
Unheard(s, who) ==
    /\ fate[s] = "own" /\ s[1] # who
    /\ [to |-> s[1], is |-> "fatal"] \in {outbox[i] : i \in DOMAIN outbox}
Discard(who, why) ==
    /\ worker' = "none" /\ inbox' = <<>> /\ outbox' = <<>> /\ txn' = {}
    /\ fate' = [s \in Statements |->
                   IF s \in txn \/ Unheard(s, who) THEN Rolled(s, who, why) ELSE fate[s]]
Untied == [c \in Clients |-> [call[c] EXCEPT !.tied = FALSE]]

(* ------------------------------- the worker ------------------------------ *)

Request == Head(inbox)
Reply(is) ==
    /\ inbox' = Tail(inbox)
    /\ outbox' = Append(outbox, [to |-> Request.from, is |-> is])

(* A statement succeeds. *)
Execute ==
    /\ Request.op \in {"write", "read"}
    /\ txn' = IF Request.op = "read" THEN txn
              ELSE txn \cup {<<Request.from, wrote[Request.from] + 1>>}
    /\ Reply("ok")
    /\ UNCHANGED <<worker, db, fate>>

(* A stream error: only a read outside a transaction is tried again, on a new
   connection.  What that attempt raises is an ordinary, transient error. *)
MayReconnectAnywhere == Request.op = "read"
MayReconnect == Request.op = "read" /\ txn = {}
Reconnect ==
    /\ MayReconnect
    /\ Drop(Request.from)
    /\ \E is \in {"ok", "transient"} : Reply(is)
    /\ UNCHANGED <<worker, db>>

(* Another error.  In a transaction, or near one (a write whose implicit BEGIN
   may have been executed), the worker rolls back, answers and exits. *)
FatalOutside == IF txn = {} /\ Request.op = "write" THEN BOOLEAN ELSE {FALSE}
Fatal == IF txn # {} THEN {TRUE} ELSE IF Request.op = "write" THEN BOOLEAN ELSE {FALSE}
Fail ==
    /\ Request.op \in {"write", "read"}
    /\ \E fatal \in Fatal :
          IF fatal THEN /\ Drop(Request.from)
                        /\ worker' = "dead" /\ Reply("fatal")
          ELSE /\ \E is \in {"transient", "final"} : Reply(is)
               /\ UNCHANGED <<worker, txn, fate>>
    /\ UNCHANGED db

(* commit() makes the transaction durable, whoever its statements belong to.
   When it raises, the outcome is unknown and the worker exits. *)
Commit ==
    /\ Request.op = "commit"
    /\ \/ db' = db \cup txn /\ txn' = {} /\ Reply("ok") /\ UNCHANGED <<worker, fate>>
       \/ db' = db \cup txn /\ txn' = {} /\ Reply("fatal") /\ worker' = "dead"
          /\ UNCHANGED fate
       \/ Drop(Request.from) /\ Reply("fatal") /\ worker' = "dead"
          /\ UNCHANGED db

Rollback ==
    /\ Request.op = "rollback"
    /\ Drop(Request.from)
    /\ \/ Reply("ok") /\ UNCHANGED worker
       \/ Reply("fatal") /\ worker' = "dead"
    /\ UNCHANGED db

Work ==
    /\ worker = "up" /\ inbox # <<>>
    /\ Execute \/ Reconnect \/ Fail \/ Commit \/ Rollback
    /\ UNCHANGED <<lock, call, pc, wrote, tries>>

(* The native driver can end the process at any time. *)
Crash ==
    /\ worker = "up"
    /\ worker' = "dead" /\ inbox' = <<>>
    /\ Drop(Nobody)
    /\ UNCHANGED <<outbox, db, lock, call, pc, wrote, tries>>

(* ----------------------------- calls, results ---------------------------- *)

(* The next call of a client: it has no plan to roll back unless a call fails. *)
Wants(c, op) ==
    \/ pc[c] = "run" /\ op = "write" /\ wrote[c] < MaxWrites
    \/ pc[c] = "run" /\ op = "read" /\ tries[c] = 0
    \/ pc[c] = "again" /\ op = "read"
    \/ pc[c] = "run" /\ op = "commit" /\ wrote[c] > 0
    \/ pc[c] = "failed" /\ op = "rollback"

(* _safe_parent_read_retry: a read that failed in transport is tried again. *)
MayRetryAlways(op, attempt) == op = "read"
MayRetry(op, attempt) == op = "read" /\ attempt < Attempts
AfterError(op, transient, attempt) ==
    IF op = "rollback" THEN "ended"
    ELSE IF transient /\ MayRetry(op, attempt) THEN "retry" ELSE "failed"
AfterOk(op) == CASE op = "commit" -> "ok" [] op = "rollback" -> "ended"
                 [] OTHER -> "run"

(* The attempts of a read, which the client may make once. *)
Tried(c, op) == IF op = "read" THEN [tries EXCEPT ![c] = @ + 1] ELSE tries

(* _request_sync, first half, under the lock: a worker is started if none is
   alive, and the request is sent. *)
Send(c, op) ==
    /\ IF worker = "up"
       THEN /\ inbox' = Append(inbox, [from |-> c, op |-> op])
            /\ call' = [call EXCEPT ![c] = [op |-> op, tied |-> TRUE]]
            /\ UNCHANGED <<worker, outbox>>
       ELSE /\ worker' = "up" /\ inbox' = <<[from |-> c, op |-> op]>> /\ outbox' = <<>>
            /\ call' = [Untied EXCEPT ![c] = [op |-> op, tied |-> TRUE]]
    /\ lock' = c
    /\ pc' = [pc EXCEPT ![c] = "wait"]
    /\ tries' = Tried(c, op)
    /\ UNCHANGED <<txn, db, wrote, fate>>

(* The new worker does not answer in time, and its late answer stays in the
   pipe; or it reports that it could not connect, and exits. *)
StartFails(c, op) ==
    /\ worker # "up"
    /\ tries' = Tried(c, op)
    /\ inbox' = <<>>
    /\ \E late \in BOOLEAN :
          /\ worker' = IF late THEN "up" ELSE "dead"
          /\ outbox' = IF late THEN <<Ready>> ELSE <<>>
          /\ pc' = [pc EXCEPT ![c] = AfterError(op, late, tries'[c])]
    /\ call' = Untied
    /\ UNCHANGED <<txn, db, lock, wrote, fate>>

MakeCall(c) ==
    /\ lock = Nobody
    /\ \E op \in Ops : Wants(c, op) /\ (Send(c, op) \/ StartFails(c, op))

(* What the thread of a call returns reaches its client and frees the lock,
   unless the client was cancelled in the meantime. *)
Return(c, next, writes) ==
    IF pc[c] = "wait"
    THEN /\ pc' = [pc EXCEPT ![c] = next]
         /\ lock' = Nobody
         /\ wrote' = [wrote EXCEPT ![c] = @ + writes]
    ELSE UNCHANGED <<pc, lock, wrote>>

(* A reply is the client's only if it carries the id of its request. *)
MineOrAnothers(c, reply) == reply.to # Nobody
Mine(c, reply) == reply.to = c
Receive(c) ==
    LET op == call[c].op  reply == Head(outbox) IN
    /\ call[c].tied /\ outbox # <<>>
    /\ \/ /\ Mine(c, reply) /\ reply.is # "fatal"
          /\ outbox' = Tail(outbox)
          /\ call' = [call EXCEPT ![c] = NoCall]
          /\ IF reply.is = "ok" THEN Return(c, AfterOk(op), IF op = "write" THEN 1 ELSE 0)
             ELSE Return(c, AfterError(op, reply.is = "transient", tries[c]), 0)
          /\ UNCHANGED <<worker, txn, inbox, fate>>
       \/ /\ ~Mine(c, reply) \/ reply.is = "fatal"
          /\ Discard(c, "own")
          /\ call' = [Untied EXCEPT ![c] = NoCall]
          /\ Return(c, AfterError(op, FALSE, tries[c]), 0)
    /\ UNCHANGED <<db, tries>>

(* Ninety seconds without a reply, or the end of the pipe. *)
GiveUp(c) ==
    /\ call[c].tied /\ outbox = <<>>
    /\ Discard(c, "timeout")
    /\ call' = [Untied EXCEPT ![c] = NoCall]
    /\ Return(c, AfterError(call[c].op, TRUE, tries[c]), 0)
    /\ UNCHANGED <<db, tries>>

(* The pipe was closed by another thread: recv raises and the thread discards
   the current worker, which need not be its own; or poll raises, and nothing
   is discarded. *)
PipeClosed(c) ==
    /\ call[c].op # "none" /\ ~call[c].tied
    /\ \/ /\ Discard(c, "own")
          /\ call' = [Untied EXCEPT ![c] = NoCall]
          /\ Return(c, AfterError(call[c].op, TRUE, tries[c]), 0)
       \/ /\ call' = [call EXCEPT ![c] = NoCall]
          /\ Return(c, AfterError(call[c].op, FALSE, tries[c]), 0)
          /\ UNCHANGED <<worker, txn, inbox, outbox, fate>>
    /\ UNCHANGED <<db, tries>>

ThreadWithoutDeadline(c) == Receive(c) \/ PipeClosed(c)
Thread(c) == Receive(c) \/ GiveUp(c) \/ PipeClosed(c)

(* _reset_worker_for_transient_read, without the lock. *)
Reset(c) ==
    /\ pc[c] = "retry"
    /\ Discard(c, "own")
    /\ call' = Untied
    /\ pc' = [pc EXCEPT ![c] = "again"]
    /\ UNCHANGED <<db, lock, wrote, tries>>

(* A coroutine that outlasts the time its caller allows is cancelled at an
   await: the lock is released, the thread of a call in progress goes on. *)
Cancel(c) ==
    /\ pc[c] \in {"run", "wait", "retry", "again"}
    /\ pc' = [pc EXCEPT ![c] = "cancelled"]
    /\ lock' = IF lock = c THEN Nobody ELSE lock
    /\ UNCHANGED <<pipe, call, wrote, tries, fate>>

Next ==
    \/ Work \/ Crash
    \/ \E c \in Clients : MakeCall(c) \/ Thread(c) \/ Reset(c) \/ Cancel(c)
Spec == Init /\ [][Next]_vars

(* Coroutines and threads run; a thread's wait ends by its deadline.  Nothing
   is asked of the worker. *)
Fairness == \A c \in Clients :
    WF_vars(MakeCall(c)) /\ WF_vars(Thread(c)) /\ WF_vars(Reset(c))
FairSpec == Spec /\ Fairness

(* ------------------------------- properties ------------------------------ *)

(* "doing so could silently lose or duplicate part of an implicit transaction":
   when a commit is reported as done, a write of that transaction is durable or
   was lost through another coroutine's call, a worker that ended, or the
   client's own read, which timed out and was tried again as if it stood
   outside a transaction. *)
CommittedIsDurable ==
    \A c \in Clients : pc[c] = "ok" =>
        \A i \in 1..wrote[c] : <<c, i>> \in db \/ fate[<<c, i>>] \in {"others", "timeout"}

(* A client that was told of a failure can rely on it: none of its writes
   becomes durable afterwards, although other coroutines go on to commit on the
   same connection.  The writes of a cancelled coroutine do become durable so. *)
FailureIsFinal ==
    [][\A c \in Clients : pc[c] \in {"failed", "ended"} =>
          \A i \in 1..MaxWrites : <<c, i>> \in db' => <<c, i>> \in db]_vars

(* No coroutine waits for ever for the lock or for a reply, whether the worker
   answers, dies, hangs or fails every read. *)
EveryoneEnds == <>(\A c \in Clients : pc[c] \in Ended)
=============================================================================
