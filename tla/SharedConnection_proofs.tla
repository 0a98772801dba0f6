------------------------ MODULE SharedConnection_proofs ------------------------
(***************************************************************************)
(* Theorems about SharedConnection, for every set of clients and every       *)
(* number of writes and of attempts: the type invariant, that what commit()  *)
(* reported as done is durable or was lost through something else than the   *)
(* client's own call, and that a failure the client was told of is final.    *)
(***************************************************************************)
EXTENDS SharedConnection, TLAPS

(* What is in a pipe, and who is waiting for whom. *)
Held(pipeline) == {pipeline[i] : i \in DOMAIN pipeline}
Answered(c, is) == [to |-> c, is |-> is] \in Held(outbox)
Requested(c) == \E r \in Held(inbox) : r.from = c

(* The lock is held exactly by the client that waits, and a call without a
   waiting client is that of a cancelled one. *)
LockInStep ==
    \A c \in Clients :
        /\ pc[c] = "wait" <=> lock = c
        /\ pc[c] = "wait" => call[c].op # "none"
        /\ call[c].op # "none" => pc[c] \in {"wait", "cancelled"}
        /\ call[c].tied => call[c].op # "none"

(* A write in progress, and a read that is tried again, are within bounds. *)
CountsInStep ==
    \A c \in Clients :
        /\ call[c].op = "write" => wrote[c] < MaxWrites
        /\ pc[c] \in {"retry", "again"} => tries[c] < Attempts

(* A request or a reply in the pipe is that of a thread still tied to it, and a
   thread has one of them, once. *)
PipeInStep ==
    /\ \A r \in Held(inbox) : call[r.from].tied /\ call[r.from].op = r.op
    /\ \A a \in Held(outbox) : a.to # Nobody => call[a.to].tied /\ a.is # "ready"
    /\ \A i, j \in DOMAIN inbox : inbox[i].from = inbox[j].from => i = j
    /\ \A i, j \in DOMAIN outbox :
          outbox[i].to # Nobody /\ outbox[i].to = outbox[j].to => i = j
    /\ \A r \in Held(inbox), a \in Held(outbox) : r.from # a.to

(* The statements of a client that has not failed: those beyond the one in
   progress were never executed. *)
Used(c) == IF call[c].op = "write" /\ ~Requested(c) THEN wrote[c] + 1 ELSE wrote[c]
Writing(c) ==
    pc[c] \in {"run", "retry", "again"} \/ call[c].op \in {"write", "read", "commit"}
TxnInStep ==
    /\ worker # "up" => txn = {}
    /\ \A c \in Clients, i \in 1 .. MaxWrites :
          /\ <<c, i>> \in txn => fate[<<c, i>>] = "kept"
          /\ Writing(c) /\ i > Used(c) => <<c, i>> \notin txn /\ fate[<<c, i>>] = "kept"

(* A client that failed, that is about to try its read again, whose thread lost
   its pipe, or that an error is on its way to has nothing in the transaction. *)
Closed(c) ==
    \/ pc[c] \in {"failed", "ended", "retry"}
    \/ pc[c] = "wait" /\ call[c].op = "rollback"
    \/ call[c].op # "none" /\ ~call[c].tied
    \/ Answered(c, "transient") \/ Answered(c, "final") \/ Answered(c, "fatal")
NothingOpen == \A c \in Clients, i \in 1 .. MaxWrites : Closed(c) => <<c, i>> \notin txn

(* An acknowledged write of a client that has not failed is in the database or
   in the transaction, or others lost it, or the answer that says it is lost is
   on its way; when commit() succeeded it is no longer in the transaction. *)
Live(c) ==
    pc[c] \in {"run", "retry", "again", "ok"} \/ (pc[c] = "wait" /\ call[c].op # "rollback")
Done(c) ==
    pc[c] = "ok" \/ (pc[c] = "wait" /\ call[c].op = "commit" /\ Answered(c, "ok"))
Excused(c, i) == fate[<<c, i>>] \in {"others", "timeout"}
DurableWrite(c, i) ==
    /\ Live(c) /\ i <= wrote[c] =>
          \/ <<c, i>> \in db \cup txn \/ Excused(c, i)
          \/ fate[<<c, i>>] = "own" /\ Answered(c, "fatal")
    /\ call[c].op = "write" /\ Answered(c, "ok") /\ i = wrote[c] + 1 =>
          <<c, i>> \in db \cup txn \/ Excused(c, i)
    /\ Done(c) /\ i <= wrote[c] => <<c, i>> \in db \/ Excused(c, i)
Durable == \A c \in Clients, i \in 1 .. MaxWrites : DurableWrite(c, i)

Control == LockInStep /\ CountsInStep
Data == TxnInStep /\ NothingOpen /\ Durable
ConnectionInv == TypeOK /\ Control /\ PipeInStep /\ Data

-----------------------------------------------------------------------------
Requests == [from : Clients, op : Ops]
Replies == [to : Clients \cup {Nobody}, is : {"ok", "transient", "final", "fatal", "ready"}]

LEMMA Constants ==
    MaxWrites \in Nat /\ MaxWrites > 0 /\ Attempts \in Nat /\ Attempts > 0
    /\ Nobody \notin Clients
BY ConnectionAssumption DEF ConnectionAssumption

(* What a pipe holds after something was put at its end or taken from its front. *)
LEMMA HeldAppend ==
    ASSUME NEW S, NEW s \in Seq(S), NEW x \in S
    PROVE  Held(Append(s, x)) = Held(s) \cup {x}
<1>1. ASSUME NEW y \in Held(Append(s, x)) PROVE y \in Held(s) \cup {x}
  BY <1>1 DEF Held
<1>2. ASSUME NEW y \in Held(s) PROVE y \in Held(Append(s, x))
  <2>1. PICK i \in DOMAIN s : y = s[i]
    BY <1>2 DEF Held
  <2>2. i \in DOMAIN Append(s, x) /\ Append(s, x)[i] = y
    BY <2>1
  <2>3. QED
    BY <2>2 DEF Held
<1>3. x \in Held(Append(s, x))
  <2>1. Len(s) + 1 \in DOMAIN Append(s, x) /\ Append(s, x)[Len(s) + 1] = x
    OBVIOUS
  <2>2. QED
    BY <2>1 DEF Held
<1>4. QED
  BY <1>1, <1>2, <1>3

LEMMA HeldTail ==
    ASSUME NEW S, NEW s \in Seq(S), s # <<>>,
           \A i \in DOMAIN s : s[i] = Head(s) => i = 1
    PROVE  Held(Tail(s)) = Held(s) \ {Head(s)} /\ Head(s) \in Held(s) /\ Head(s) \in S
<1>1. Len(s) \in Nat /\ Len(s) >= 1 /\ Head(s) = s[1] /\ 1 \in DOMAIN s
  OBVIOUS
<1>2. ASSUME NEW y \in Held(Tail(s)) PROVE y \in Held(s) \ {Head(s)}
  <2>1. PICK i \in DOMAIN Tail(s) : y = Tail(s)[i]
    BY <1>2 DEF Held
  <2>2. i \in 1 .. Len(s) - 1 /\ y = s[i + 1]
    BY <2>1, <1>1
  <2>3. i + 1 \in DOMAIN s /\ i + 1 # 1
    BY <2>2, <1>1
  <2>4. QED
    BY <2>2, <2>3 DEF Held
<1>3. ASSUME NEW y \in Held(s), y # Head(s) PROVE y \in Held(Tail(s))
  <2>1. PICK i \in DOMAIN s : y = s[i]
    BY <1>3 DEF Held
  <2>2. i # 1
    BY <2>1, <1>1, <1>3
  <2>3. i - 1 \in DOMAIN Tail(s) /\ Tail(s)[i - 1] = y
    BY <2>1, <2>2, <1>1
  <2>4. QED
    BY <2>3 DEF Held
<1>4. Head(s) \in Held(s)
  BY <1>1 DEF Held
<1>5. QED
  BY <1>1, <1>2, <1>3, <1>4

LEMMA HeldNone == Held(<<>>) = {}
BY DEF Held

LEMMA HeldOne == \A x : Held(<<x>>) = {x}
BY DEF Held

LEMMA HeldType == ASSUME NEW S, NEW s \in Seq(S) PROVE Held(s) \subseteq S
BY DEF Held

(* The worker takes the first request and puts its reply at the end. *)
LEMMA ReplyPipe ==
    ASSUME TypeOK, PipeInStep, inbox # <<>>, call' = call,
           NEW is \in {"ok", "transient", "final", "fatal"}, Reply(is)
    PROVE  /\ Request \in Held(inbox) /\ Request \in Requests
           /\ Held(inbox') = Held(inbox) \ {Request}
           /\ Held(outbox') = Held(outbox) \cup {[to |-> Request.from, is |-> is]}
           /\ \A r \in Held(inbox) : r # Request => r.from # Request.from
           /\ inbox' \in Seq(Requests) /\ outbox' \in Seq(Replies)
           /\ PipeInStep'
<1> DEFINE answer == [to |-> Request.from, is |-> is]
<1>1. inbox \in Seq(Requests) /\ outbox \in Seq(Replies)
  BY DEF TypeOK, Requests, Replies
<1>2. Request = inbox[1] /\ 1 \in DOMAIN inbox
  BY <1>1 DEF Request
<1>3. \A i \in DOMAIN inbox : inbox[i] = Request => i = 1
  BY <1>1, <1>2 DEF PipeInStep
<1>4. Request \in Held(inbox) /\ Request \in Requests
      /\ Held(Tail(inbox)) = Held(inbox) \ {Request}
  BY <1>1, <1>3, HeldTail DEF Request
<1>5. answer \in Replies /\ answer.to = Request.from /\ answer.is = is
  BY <1>4 DEF Requests, Replies
<1>6. inbox' = Tail(inbox) /\ outbox' = Append(outbox, answer)
  BY DEF Reply
<1>7. Held(outbox') = Held(outbox) \cup {answer}
  BY <1>1, <1>5, <1>6, HeldAppend
<1>8. inbox' \in Seq(Requests) /\ outbox' \in Seq(Replies)
  BY <1>1, <1>5, <1>6
<1>9. ASSUME NEW r \in Held(inbox), r # Request PROVE r.from # Request.from
  <2>1. PICK i \in DOMAIN inbox : r = inbox[i]
    BY DEF Held
  <2>2. QED
    BY <1>2, <1>9, <2>1 DEF PipeInStep
<1>10. PipeInStep'
  <2>1. ASSUME NEW r \in Held(inbox') PROVE call'[r.from].tied /\ call'[r.from].op = r.op
    BY <1>4, <1>6 DEF PipeInStep
  <2>2. ASSUME NEW a \in Held(outbox'), a.to # Nobody
        PROVE  call'[a.to].tied /\ a.is # "ready"
    BY <1>4, <1>5, <1>7, <2>2 DEF PipeInStep
  <2>3. ASSUME NEW i \in DOMAIN inbox', NEW j \in DOMAIN inbox',
               inbox'[i].from = inbox'[j].from
        PROVE  i = j
    <3>1. /\ i \in 1 .. Len(inbox) - 1 /\ j \in 1 .. Len(inbox) - 1
          /\ inbox'[i] = inbox[i + 1] /\ inbox'[j] = inbox[j + 1]
      BY <1>1, <1>2, <1>6
    <3>2. i + 1 \in DOMAIN inbox /\ j + 1 \in DOMAIN inbox
      BY <1>1, <3>1
    <3>3. i + 1 = j + 1
      BY <2>3, <3>1, <3>2 DEF PipeInStep
    <3>4. QED
      BY <3>1, <3>3
  <2>4. ASSUME NEW i \in DOMAIN outbox', NEW j \in DOMAIN outbox',
               outbox'[i].to # Nobody, outbox'[i].to = outbox'[j].to
        PROVE  i = j
    <3>1. \A k \in DOMAIN outbox : outbox[k].to # answer.to
      BY <1>4, <1>5 DEF PipeInStep, Held
    <3>2. \A k \in DOMAIN outbox' :
             \/ k \in DOMAIN outbox /\ outbox'[k] = outbox[k]
             \/ k = Len(outbox) + 1 /\ outbox'[k] = answer
      BY <1>1, <1>5, <1>6
    <3>3. QED
      BY <2>4, <3>1, <3>2 DEF PipeInStep
  <2>5. ASSUME NEW r \in Held(inbox'), NEW a \in Held(outbox') PROVE r.from # a.to
    BY <1>4, <1>5, <1>6, <1>7, <1>9 DEF PipeInStep
  <2>6. QED
    BY <2>1, <2>2, <2>3, <2>4, <2>5 DEF PipeInStep
<1>11. QED
  BY <1>4, <1>6, <1>7, <1>8, <1>9, <1>10

(* A transaction that is dropped takes its statements with it. *)
LEMMA Dropped ==
    ASSUME TypeOK, NEW who, Drop(who)
    PROVE  /\ txn' = {} /\ fate' \in [Statements -> Fates]
           /\ \A c \in Clients, i \in 1 .. MaxWrites :
                 fate'[<<c, i>>] = IF <<c, i>> \in txn
                                   THEN IF c = who THEN "own" ELSE "others"
                                   ELSE fate[<<c, i>>]
<1>1. \A s \in Statements : fate'[s] = IF s \in txn THEN Rolled(s, who, "own") ELSE fate[s]
  BY DEF Drop
<1>2. \A s \in Statements : Rolled(s, who, "own") \in Fates
  BY DEF Rolled, Fates
<1>3. fate' \in [Statements -> Fates]
  BY <1>2 DEF Drop, TypeOK
<1>4. ASSUME NEW c \in Clients, NEW i \in 1 .. MaxWrites
      PROVE  <<c, i>> \in Statements /\ Rolled(<<c, i>>, who, "own") = IF c = who THEN "own" ELSE "others"
  BY DEF Statements, Rolled
<1>5. QED
  BY <1>1, <1>3, <1>4 DEF Drop

(* A discarded worker takes both pipes and the transaction with it. *)
LEMMA Discarded ==
    ASSUME TypeOK, NEW who, NEW why \in {"own", "timeout"}, Discard(who, why)
    PROVE  /\ txn' = {} /\ fate' \in [Statements -> Fates] /\ worker' = "none"
           /\ inbox' = <<>> /\ outbox' = <<>>
           /\ \A c \in Clients, i \in 1 .. MaxWrites :
                 fate'[<<c, i>>] =
                    IF <<c, i>> \in txn \/ (fate[<<c, i>>] = "own" /\ c # who /\ Answered(c, "fatal"))
                    THEN IF c = who THEN why ELSE "others"
                    ELSE fate[<<c, i>>]
<1>1. \A s \in Statements :
         fate'[s] = IF s \in txn \/ Unheard(s, who) THEN Rolled(s, who, why) ELSE fate[s]
  BY DEF Discard
<1>2. \A s \in Statements : Rolled(s, who, why) \in Fates
  BY DEF Rolled, Fates
<1>3. fate' \in [Statements -> Fates]
  BY <1>2 DEF Discard, TypeOK
<1>4. ASSUME NEW c \in Clients, NEW i \in 1 .. MaxWrites
      PROVE  /\ <<c, i>> \in Statements
             /\ Rolled(<<c, i>>, who, why) = IF c = who THEN why ELSE "others"
             /\ Unheard(<<c, i>>, who) <=>
                   fate[<<c, i>>] = "own" /\ c # who /\ Answered(c, "fatal")
  BY DEF Statements, Rolled, Unheard, Answered, Held
<1>5. QED
  BY <1>1, <1>3, <1>4 DEF Discard

-----------------------------------------------------------------------------
(* The worker.  Only the pipe and the transaction change. *)
Steady == UNCHANGED <<lock, call, pc, wrote, tries>>

LEMMA SteadyControl == ASSUME Control, Steady PROVE Control'
BY DEF Control, LockInStep, CountsInStep, Steady

(* What every action of the worker does to the pipe, client by client. *)
Kinds == {"ok", "transient", "final", "fatal"}
(* Request q was answered by is: the pipe, client by client. *)
Taken(q, is) ==
    /\ q.from \in Clients /\ call[q.from].tied /\ call[q.from].op = q.op /\ q.op \in Ops
    /\ inbox' \in Seq(Requests) /\ outbox' \in Seq(Replies) /\ PipeInStep'
    /\ \A k \in Kinds :
          /\ ~Answered(q.from, k)
          /\ \A c \in Clients : Answered(c, k)' <=> Answered(c, k) \/ (c = q.from /\ k = is)
    /\ Used(q.from) = wrote[q.from]
    /\ \A c \in Clients :
          /\ Used(c)' = IF c = q.from /\ q.op = "write" THEN wrote[c] + 1 ELSE Used(c)
          /\ Writing(c)' <=> Writing(c)
          /\ Live(c)' <=> Live(c)

LEMMA Replied ==
    ASSUME ConnectionInv, inbox # <<>>, Steady, NEW is \in Kinds, Reply(is)
    PROVE  \E q \in Requests : q = Request /\ Taken(q, is)
<1>1. PICK q \in Requests : q = Request
  BY ReplyPipe DEF ConnectionInv, Steady, Kinds
<1>2. /\ q \in Held(inbox)
      /\ Held(inbox') = Held(inbox) \ {q}
      /\ Held(outbox') = Held(outbox) \cup {[to |-> q.from, is |-> is]}
      /\ \A r \in Held(inbox) : r # q => r.from # q.from
      /\ inbox' \in Seq(Requests) /\ outbox' \in Seq(Replies) /\ PipeInStep'
  BY <1>1, ReplyPipe DEF ConnectionInv, Steady, Kinds
<1>3. q.from \in Clients /\ call[q.from].tied /\ call[q.from].op = q.op /\ q.op \in Ops
  BY <1>2 DEF Requests, ConnectionInv, PipeInStep
<1>4. ~Requested(q.from)' /\ Requested(q.from)
  BY <1>2 DEF Requested
<1>5. ASSUME NEW c \in Clients, c # q.from PROVE Requested(c)' <=> Requested(c)
  BY <1>2, <1>5 DEF Requested
<1>6. ASSUME NEW k \in Kinds
      PROVE  /\ ~Answered(q.from, k)
             /\ \A c \in Clients :
                   Answered(c, k)' <=> Answered(c, k) \/ (c = q.from /\ k = is)
  <2>1. ~Answered(q.from, k)
    BY <1>2, <1>3 DEF Answered, ConnectionInv, PipeInStep
  <2>2. ASSUME NEW c \in Clients
        PROVE  Answered(c, k)' <=> Answered(c, k) \/ (c = q.from /\ k = is)
    BY <1>2 DEF Answered
  <2>3. QED
    BY <2>1, <2>2
<1>7. Used(q.from) = wrote[q.from]
  BY <1>4 DEF Used
<1>8. ASSUME NEW c \in Clients
      PROVE  /\ Used(c)' = IF c = q.from /\ q.op = "write" THEN wrote[c] + 1 ELSE Used(c)
             /\ Writing(c)' <=> Writing(c)
             /\ Live(c)' <=> Live(c)
  <2>1. Used(c)' = IF call[c].op = "write" /\ ~Requested(c)' THEN wrote[c] + 1 ELSE wrote[c]
    BY DEF Used, Steady
  <2>2. Used(c)' = IF c = q.from /\ q.op = "write" THEN wrote[c] + 1 ELSE Used(c)
    BY <2>1, <1>3, <1>4, <1>5 DEF Used
  <2>3. QED
    BY <2>2 DEF Writing, Live, Steady
<1>9. QED
  BY <1>1, <1>2, <1>3, <1>6, <1>7, <1>8 DEF Taken

(* A statement succeeds: it is the first the client executes at its index. *)
LEMMA ExecuteStep ==
    ASSUME ConnectionInv, worker = "up", inbox # <<>>, Execute, Steady
    PROVE  ConnectionInv'
<1> USE DEF Taken, Kinds
<1>1. PICK q \in Requests : q = Request /\ Taken(q, "ok")
  BY Replied DEF Execute
<1>2. \A c \in Clients : wrote[c] \in 0 .. MaxWrites
  BY DEF ConnectionInv, TypeOK
<1>3. /\ q.op \in {"write", "read"}
      /\ txn' = IF q.op = "read" THEN txn ELSE txn \cup {<<q.from, wrote[q.from] + 1>>}
      /\ UNCHANGED <<worker, db, fate>>
  BY <1>1 DEF Execute
<1>4. wrote[q.from] + 1 \in 1 .. MaxWrites \/ q.op = "read"
  BY <1>1, <1>2, <1>3, Constants DEF ConnectionInv, Control, CountsInStep
<1>5. Writing(q.from)
  BY <1>1, <1>3 DEF Writing
<1>6. TypeOK'
  <2>1. txn' \subseteq Statements
    <3>1. q.op # "read" => <<q.from, wrote[q.from] + 1>> \in Statements
      BY <1>1, <1>4 DEF Statements
    <3>2. QED
      BY <3>1, <1>3 DEF ConnectionInv, TypeOK
  <2>2. QED
    BY <2>1, <1>1, <1>3 DEF ConnectionInv, TypeOK, Steady, Requests, Replies
<1>7. TxnInStep'
  <2>1. ASSUME NEW c \in Clients, NEW i \in 1 .. MaxWrites, <<c, i>> \in txn'
        PROVE  fate[<<c, i>>] = "kept"
    <3>1. CASE <<c, i>> \in txn
      BY <3>1 DEF ConnectionInv, Data, TxnInStep
    <3>2. CASE <<c, i>> \notin txn
      <4>1. c = q.from /\ i = wrote[c] + 1
        BY <2>1, <3>2, <1>3
      <4>2. QED
        BY <4>1, <1>2, <1>1, <1>5 DEF ConnectionInv, Data, TxnInStep
    <3>3. QED
      BY <3>1, <3>2
  <2>2. ASSUME NEW c \in Clients, NEW i \in 1 .. MaxWrites, Writing(c), i > Used(c)'
        PROVE  <<c, i>> \notin txn' /\ fate[<<c, i>>] = "kept"
    <3>1. i > Used(c)
      BY <2>2, <1>2, <1>1
    <3>2. <<c, i>> \notin txn /\ fate[<<c, i>>] = "kept"
      BY <2>2, <3>1 DEF ConnectionInv, Data, TxnInStep
    <3>3. c = q.from /\ q.op = "write" => i # wrote[c] + 1
      BY <2>2, <1>1, <1>4
    <3>4. QED
      BY <3>2, <3>3, <1>3
  <2>3. worker' = "up"
    BY <1>3
  <2>4. QED
    BY <2>1, <2>2, <2>3, <1>3, <1>1 DEF TxnInStep
<1>8. NothingOpen'
  <2>1. \A c \in Clients : Closed(c)' => Closed(c)
    BY <1>1 DEF Closed, Steady
  <2>2. q.op = "write" => ~Closed(q.from)
    BY <1>1 DEF Closed, ConnectionInv, Control, LockInStep
  <2>3. QED
    BY <2>1, <2>2, <1>3 DEF NothingOpen, ConnectionInv, Data
<1>9. Durable'
  <2> SUFFICES ASSUME NEW c \in Clients, NEW i \in 1 .. MaxWrites
               PROVE  DurableWrite(c, i)'
    BY DEF Durable
  <2>1. (Live(c)' <=> Live(c)) /\ (Excused(c, i)' <=> Excused(c, i)) /\ txn \subseteq txn'
        /\ db' = db /\ wrote' = wrote /\ call' = call /\ pc' = pc /\ fate' = fate
    BY <1>3 DEF Live, Excused, Steady
  <2>2. CASE c # q.from
    <3>1. Done(c)' <=> Done(c)
      BY <1>1, <2>1, <2>2 DEF Done
    <3>2. QED
      BY <1>1, <2>1, <2>2, <3>1 DEF ConnectionInv, Data, Durable, DurableWrite
  <2>3. CASE c = q.from
    <3>1. Done(c)' => Done(c)
      BY <1>1, <1>3, <2>1, <2>3 DEF Done
    <3>2. call[c].op = "write" => <<c, wrote[c] + 1>> \in txn'
      BY <1>1, <1>3, <2>3
    <3>3. QED
      BY <1>1, <2>1, <3>1, <3>2 DEF ConnectionInv, Data, Durable, DurableWrite
  <2>4. QED
    BY <2>2, <2>3
<1>10. QED
  BY <1>1, <1>6, <1>7, <1>8, <1>9, SteadyControl DEF ConnectionInv, Data

(* An answer that changes nothing else: an error outside a transaction, or the
   answer to a read. *)
LEMMA PlainStep ==
    ASSUME ConnectionInv, inbox # <<>>, Steady, NEW is \in Kinds, Reply(is),
           UNCHANGED <<worker, txn, db, fate>>,
           IF is = "ok" THEN Request.op = "read" ELSE txn = {}
    PROVE  ConnectionInv'
<1> USE DEF Taken, Kinds
<1>1. PICK q \in Requests : q = Request /\ Taken(q, is)
  BY Replied
<1>2. \A c \in Clients : wrote[c] \in 0 .. MaxWrites
  BY DEF ConnectionInv, TypeOK
<1>3. TypeOK'
  BY <1>1 DEF ConnectionInv, TypeOK, Steady, Requests, Replies
<1>4. TxnInStep'
  <2>1. ASSUME NEW c \in Clients, NEW i \in 1 .. MaxWrites, Writing(c), i > Used(c)'
        PROVE  <<c, i>> \notin txn /\ fate[<<c, i>>] = "kept"
    BY <2>1, <1>1, <1>2 DEF ConnectionInv, Data, TxnInStep
  <2>2. QED
    BY <2>1, <1>1 DEF TxnInStep, ConnectionInv, Data
<1>5. NothingOpen'
  BY <1>1 DEF NothingOpen, ConnectionInv, Data, Closed, Steady
<1>6. Durable'
  <2> SUFFICES ASSUME NEW c \in Clients, NEW i \in 1 .. MaxWrites
               PROVE  DurableWrite(c, i)'
    BY DEF Durable
  <2>1. (Live(c)' <=> Live(c)) /\ (Excused(c, i)' <=> Excused(c, i))
    BY <1>1 DEF Excused
  <2>2. \/ c # q.from
        \/ is # "ok"
        \/ call[c].op = "read"
    BY <1>1
  <2>3. Done(c)' <=> Done(c)
    BY <1>1, <2>2 DEF Done, Steady
  <2>4. QED
    BY <1>1, <2>1, <2>2, <2>3 DEF ConnectionInv, Data, Durable, DurableWrite, Steady
<1>7. QED
  BY <1>1, <1>3, <1>4, <1>5, <1>6, SteadyControl DEF ConnectionInv, Data

(* The answer to a request that rolled the transaction back: an error that the
   client is told of, or what a rollback answers. *)
LEMMA DroppingStep ==
    ASSUME ConnectionInv, inbox # <<>>, Steady, NEW is \in Kinds, Reply(is),
           Drop(Request.from), UNCHANGED db, worker' \in {"up", "dead"},
           is = "fatal" \/ Request.op = "rollback"
    PROVE  ConnectionInv'
<1> USE DEF Taken, Kinds
<1>1. PICK q \in Requests : q = Request /\ Taken(q, is)
  BY Replied
<1>2. /\ txn' = {} /\ fate' \in [Statements -> Fates]
      /\ \A c \in Clients, i \in 1 .. MaxWrites :
            fate'[<<c, i>>] = IF <<c, i>> \in txn
                              THEN IF c = q.from THEN "own" ELSE "others"
                              ELSE fate[<<c, i>>]
  BY <1>1, Dropped DEF ConnectionInv
<1>3. TypeOK'
  BY <1>1, <1>2 DEF ConnectionInv, TypeOK, Steady, Requests, Replies
<1>4. TxnInStep'
  <2>1. ASSUME NEW c \in Clients, NEW i \in 1 .. MaxWrites, Writing(c), i > Used(c)'
        PROVE  fate'[<<c, i>>] = "kept"
    <3>1. wrote[c] \in 0 .. MaxWrites
      BY DEF ConnectionInv, TypeOK
    <3>2. i > Used(c)
      BY <2>1, <3>1, <1>1
    <3>3. QED
      BY <2>1, <3>2, <1>2 DEF ConnectionInv, Data, TxnInStep
  <2>2. QED
    BY <2>1, <1>1, <1>2 DEF TxnInStep
<1>5. NothingOpen'
  BY <1>2 DEF NothingOpen
<1>6. Durable'
  <2> SUFFICES ASSUME NEW c \in Clients, NEW i \in 1 .. MaxWrites
               PROVE  DurableWrite(c, i)'
    BY DEF Durable
  <2>1. Live(c)' <=> Live(c)
    BY <1>1
  <2>2. DurableWrite(c, i) /\ (<<c, i>> \in txn => fate[<<c, i>>] = "kept")
    BY DEF ConnectionInv, Data, Durable, TxnInStep
  <2>3. CASE c = q.from
    <3>1. is = "fatal" \/ call[c].op = "rollback"
      BY <1>1, <2>3
    <3>2. Live(c) => is = "fatal" \/ pc[c] \in {"run", "retry", "again", "ok"}
      BY <3>1 DEF Live
    <3>3. call[c].op # "none" /\ pc[c] \in {"wait", "cancelled"}
      BY <1>1, <2>3 DEF ConnectionInv, Control, LockInStep, Ops
    <3>4. ~Done(c)'
      BY <3>1, <3>3, <1>1, <2>3 DEF Done, Steady
    <3>5. ~(call[c].op = "write" /\ Answered(c, "ok"))'
      BY <3>1, <1>1, <2>3 DEF Steady
    <3>6. Live(c) => Answered(c, "fatal")'
      BY <3>2, <3>3, <1>1, <2>3
    <3>7. QED
      BY <2>1, <2>2, <2>3, <3>4, <3>5, <3>6, <1>1, <1>2
      DEF DurableWrite, Excused, Steady
  <2>4. CASE c # q.from
    <3>1. (Done(c)' <=> Done(c)) /\ (Answered(c, "ok")' <=> Answered(c, "ok"))
          /\ (Answered(c, "fatal")' <=> Answered(c, "fatal"))
      BY <1>1, <2>4 DEF Done, Steady
    <3>2. <<c, i>> \in txn => Excused(c, i)'
      BY <1>2, <2>4 DEF Excused
    <3>3. <<c, i>> \notin txn => (Excused(c, i)' <=> Excused(c, i)) /\ fate'[<<c, i>>] = fate[<<c, i>>]
      BY <1>2 DEF Excused
    <3>4. QED
      BY <2>1, <2>2, <3>1, <3>2, <3>3 DEF DurableWrite, Steady
  <2>5. QED
    BY <2>3, <2>4
<1>7. QED
  BY <1>1, <1>3, <1>4, <1>5, <1>6, SteadyControl DEF ConnectionInv, Data

(* commit() took effect, whether the worker could say so or not. *)
LEMMA CommittedStep ==
    ASSUME ConnectionInv, inbox # <<>>, Steady, NEW is \in {"ok", "fatal"}, Reply(is),
           Request.op = "commit", db' = db \cup txn, txn' = {}, UNCHANGED fate,
           worker' \in {"up", "dead"}
    PROVE  ConnectionInv'
<1> USE DEF Taken, Kinds
<1>1. PICK q \in Requests : q = Request /\ Taken(q, is)
  BY Replied
<1>2. TypeOK'
  BY <1>1 DEF ConnectionInv, TypeOK, Steady, Requests, Replies
<1>3. TxnInStep'
  <2>1. ASSUME NEW c \in Clients, NEW i \in 1 .. MaxWrites, Writing(c), i > Used(c)'
        PROVE  fate[<<c, i>>] = "kept"
    BY <2>1, <1>1 DEF ConnectionInv, Data, TxnInStep
  <2>2. QED
    BY <2>1, <1>1 DEF TxnInStep
<1>4. NothingOpen'
  BY DEF NothingOpen
<1>5. Durable'
  <2> SUFFICES ASSUME NEW c \in Clients, NEW i \in 1 .. MaxWrites
               PROVE  DurableWrite(c, i)'
    BY DEF Durable
  <2>1. /\ Live(c)' <=> Live(c)
        /\ Excused(c, i)' <=> Excused(c, i)
    BY <1>1 DEF Excused
  <2>2. DurableWrite(c, i)
    BY DEF ConnectionInv, Data, Durable
  <2>3. <<c, i>> \in db \cup txn => <<c, i>> \in db'
    OBVIOUS
  <2>4. CASE c = q.from
    <3>1. call[c].op = "commit" /\ pc[c] \in {"wait", "cancelled"}
      BY <1>1, <2>4 DEF ConnectionInv, Control, LockInStep
    <3>2. (Done(c)' => Live(c)) /\ ~Answered(c, "fatal") /\ ~Answered(c, "ok")
      BY <3>1, <1>1, <2>4 DEF Done, Live, Steady
    <3>3. QED
      BY <2>1, <2>2, <2>3, <3>1, <3>2 DEF DurableWrite, Steady
  <2>5. CASE c # q.from
    <3>1. /\ Done(c)' <=> Done(c)
          /\ Answered(c, "ok")' <=> Answered(c, "ok")
          /\ Answered(c, "fatal")' <=> Answered(c, "fatal")
      BY <1>1, <2>5 DEF Done, Steady
    <3>2. QED
      BY <2>1, <2>2, <2>3, <3>1 DEF DurableWrite, Steady
  <2>6. QED
    BY <2>4, <2>5
<1>6. QED
  BY <1>1, <1>2, <1>3, <1>4, <1>5, SteadyControl DEF ConnectionInv, Data

LEMMA WorkStep == ASSUME ConnectionInv, Work PROVE ConnectionInv'
<1>1. worker = "up" /\ inbox # <<>> /\ Steady
  BY DEF Work, Steady
<1>2. CASE Execute
  BY <1>1, <1>2, ExecuteStep
<1>3. CASE Reconnect
  <2>1. txn = {} /\ Request.op = "read" /\ Drop(Request.from) /\ UNCHANGED <<worker, db>>
    BY <1>3 DEF Reconnect, MayReconnect
  <2>2. txn' = txn /\ fate' = fate
    BY <2>1 DEF Drop, ConnectionInv, TypeOK
  <2>3. PICK is \in {"ok", "transient"} : Reply(is)
    BY <1>3 DEF Reconnect
  <2>4. QED
    BY <1>1, <2>1, <2>2, <2>3, PlainStep DEF Kinds
<1>4. CASE Fail
  <2>1. PICK fatal \in Fatal :
           IF fatal THEN Drop(Request.from) /\ worker' = "dead" /\ Reply("fatal")
           ELSE (\E is \in {"transient", "final"} : Reply(is)) /\ UNCHANGED <<worker, txn, fate>>
    BY <1>4 DEF Fail
  <2>2. UNCHANGED db /\ (txn # {} => fatal)
    BY <1>4, <2>1 DEF Fail, Fatal
  <2>3. CASE fatal
    BY <1>1, <2>1, <2>2, <2>3, DroppingStep DEF Kinds
  <2>4. CASE ~fatal
    <3>1. PICK is \in {"transient", "final"} : Reply(is)
      BY <2>1, <2>4
    <3>2. UNCHANGED <<worker, txn, db, fate>> /\ txn = {}
      BY <2>1, <2>2, <2>4
    <3>3. QED
      BY <1>1, <3>1, <3>2, PlainStep DEF Kinds
  <2>5. QED
    BY <2>3, <2>4
<1>5. CASE Commit
  BY <1>1, <1>5, CommittedStep, DroppingStep DEF Commit, Kinds
<1>6. CASE Rollback
  BY <1>1, <1>6, DroppingStep DEF Rollback, Kinds
<1>7. QED
  BY <1>2, <1>3, <1>4, <1>5, <1>6 DEF Work

(* The process ends: its requests are lost, its replies can still be read. *)
LEMMA CrashStep == ASSUME ConnectionInv, Crash PROVE ConnectionInv'
<1>1. /\ worker' = "dead" /\ inbox' = <<>> /\ Drop(Nobody)
      /\ UNCHANGED <<outbox, db, lock, call, pc, wrote, tries>>
  BY DEF Crash
<1>2. /\ txn' = {} /\ fate' \in [Statements -> Fates]
      /\ \A c \in Clients, i \in 1 .. MaxWrites :
            fate'[<<c, i>>] = IF <<c, i>> \in txn THEN "others" ELSE fate[<<c, i>>]
  BY <1>1, Dropped, Constants DEF ConnectionInv
<1>3. TypeOK'
  BY <1>1, <1>2 DEF ConnectionInv, TypeOK
<1>4. \A c \in Clients : ~Requested(c)'
  BY <1>1, HeldNone DEF Requested
<1>5. PipeInStep'
  BY <1>1, HeldNone DEF ConnectionInv, PipeInStep
<1>6. TxnInStep'
  <2>1. ASSUME NEW c \in Clients, NEW i \in 1 .. MaxWrites, Writing(c)', i > Used(c)'
        PROVE  fate'[<<c, i>>] = "kept"
    <3>1. wrote[c] \in 0 .. MaxWrites
      BY DEF ConnectionInv, TypeOK
    <3>2. i > Used(c) /\ Writing(c)
      BY <2>1, <3>1, <1>1, <1>4 DEF Used, Writing
    <3>3. QED
      BY <3>2, <1>2 DEF ConnectionInv, Data, TxnInStep
  <2>2. QED
    BY <2>1, <1>2 DEF TxnInStep
<1>7. NothingOpen'
  BY <1>2 DEF NothingOpen
<1>8. Durable'
  <2> SUFFICES ASSUME NEW c \in Clients, NEW i \in 1 .. MaxWrites
               PROVE  DurableWrite(c, i)'
    BY DEF Durable
  <2>1. DurableWrite(c, i) /\ (<<c, i>> \in txn => fate[<<c, i>>] = "kept")
    BY DEF ConnectionInv, Data, Durable, TxnInStep
  <2>2. /\ Live(c)' <=> Live(c)
        /\ Done(c)' <=> Done(c)
        /\ \A k \in Kinds : Answered(c, k)' <=> Answered(c, k)
    BY <1>1 DEF Live, Done, Answered
  <2>3. IF <<c, i>> \in txn THEN Excused(c, i)'
        ELSE (Excused(c, i)' <=> Excused(c, i)) /\ fate'[<<c, i>>] = fate[<<c, i>>]
    BY <1>2 DEF Excused
  <2>4. QED
    BY <1>1, <2>1, <2>2, <2>3 DEF DurableWrite, Kinds
<1>9. QED
  BY <1>1, <1>3, <1>5, <1>6, <1>7, <1>8 DEF ConnectionInv, Data, Control, LockInStep, CountsInStep

-----------------------------------------------------------------------------
(* The clients.  Nothing in the pipe is for a client whose thread does not wait. *)
LEMMA Untouched ==
    ASSUME ConnectionInv, NEW c \in Clients, ~call[c].tied
    PROVE  /\ ~Requested(c)
           /\ \A a \in Held(outbox) : a.to # c
           /\ \A k \in Kinds : ~Answered(c, k)
BY Constants DEF ConnectionInv, PipeInStep, Requested, Answered

LEMMA Wanting ==
    ASSUME ConnectionInv, NEW c \in Clients, lock = Nobody, NEW op \in Ops, Wants(c, op)
    PROVE  /\ pc[c] = IF op = "rollback" THEN "failed" ELSE pc[c]
           /\ pc[c] \in {"run", "again", "failed"} /\ (pc[c] = "failed" => op = "rollback")
           /\ op = "write" => wrote[c] < MaxWrites
           /\ op = "read" => tries[c] < Attempts
           /\ \A d \in Clients : pc[d] # "wait"
           /\ \A d \in Clients : pc[d] # "cancelled" => call[d].op = "none" /\ ~call[d].tied
<1>1. \A d \in Clients : pc[d] # "wait" /\ (pc[d] # "cancelled" => call[d].op = "none" /\ ~call[d].tied)
  BY Constants DEF ConnectionInv, Control, LockInStep
<1>2. /\ pc[c] \in {"run", "again", "failed"} /\ (pc[c] = "failed" => op = "rollback")
      /\ op = "rollback" => pc[c] = "failed"
      /\ op = "write" => wrote[c] < MaxWrites
  BY DEF Wants
<1>3. op = "read" => tries[c] = 0 \/ pc[c] = "again"
  BY DEF Wants
<1>4. op = "read" => tries[c] < Attempts
  BY <1>3, Constants DEF ConnectionInv, Control, CountsInStep
<1>5. QED
  BY <1>1, <1>2, <1>4

LEMMA TriedType ==
    ASSUME ConnectionInv, NEW c \in Clients, NEW op, op = "read" => tries[c] < Attempts
    PROVE  /\ Tried(c, op) \in [Clients -> 0 .. Attempts]
           /\ \A d \in Clients : d # c => Tried(c, op)[d] = tries[d]
<1>1. tries \in [Clients -> 0 .. Attempts]
  BY DEF ConnectionInv, TypeOK
<1>2. op = "read" => tries[c] + 1 \in 0 .. Attempts
  BY <1>1, Constants
<1>3. QED
  BY <1>1, <1>2 DEF Tried

(* A request on a connection that works. *)
LEMMA SendStep ==
    ASSUME ConnectionInv, NEW c \in Clients, lock = Nobody, NEW op \in Ops, Wants(c, op),
           worker = "up", Send(c, op)
    PROVE  ConnectionInv'
<1> DEFINE request == [from |-> c, op |-> op]
<1>1. /\ inbox' = Append(inbox, request) /\ call' = [call EXCEPT ![c] = [op |-> op, tied |-> TRUE]]
      /\ UNCHANGED <<worker, outbox, txn, db, wrote, fate>>
      /\ lock' = c /\ pc' = [pc EXCEPT ![c] = "wait"] /\ tries' = Tried(c, op)
  BY DEF Send
<1>2. /\ pc[c] \in {"run", "again", "failed"} /\ (pc[c] = "failed" <=> op = "rollback")
      /\ op = "write" => wrote[c] < MaxWrites
      /\ op = "read" => tries[c] < Attempts
      /\ \A d \in Clients : pc[d] # "wait"
      /\ call[c].op = "none" /\ ~call[c].tied
  BY Wanting
<1>3. ~Requested(c) /\ (\A a \in Held(outbox) : a.to # c) /\ \A k \in Kinds : ~Answered(c, k)
  BY <1>2, Untouched
<1>4. /\ call \in [Clients -> [op : Ops \cup {"none"}, tied : BOOLEAN]]
      /\ inbox \in Seq(Requests) /\ pc \in [Clients -> Ended \cup {"run", "wait", "retry", "again"}]
  BY DEF ConnectionInv, TypeOK, Requests
<1>5. /\ request \in Requests /\ request.from = c /\ request.op = op
      /\ inbox' \in Seq(Requests) /\ Held(inbox') = Held(inbox) \cup {request}
  <2>1. request \in Requests /\ request.from = c /\ request.op = op
    BY DEF Requests
  <2> HIDE DEF request
  <2>2. Held(Append(inbox, request)) = Held(inbox) \cup {request}
    BY <2>1, <1>4, HeldAppend
  <2>3. QED
    BY <2>1, <2>2, <1>1, <1>4
<1>6. call'[c].op = op /\ call'[c].tied /\ \A d \in Clients : d # c => call'[d] = call[d]
  BY <1>1, <1>4
<1>7. pc'[c] = "wait" /\ \A d \in Clients : d # c => pc'[d] = pc[d]
  BY <1>1, <1>4
<1>8. TypeOK'
  BY <1>1, <1>2, <1>5, TriedType DEF ConnectionInv, TypeOK, Requests, Replies
<1>9. Control'
  BY <1>1, <1>2, <1>6, <1>7, TriedType, Constants DEF ConnectionInv, Control, LockInStep, CountsInStep, Ops
<1>10. PipeInStep'
  <2>1. \A r \in Held(inbox) : r.from # c
    BY <1>3 DEF Requested
  <2>2. ASSUME NEW r \in Held(inbox') PROVE call'[r.from].tied /\ call'[r.from].op = r.op
    <3>1. Held(inbox) \subseteq Requests
      BY <1>4, HeldType
    <3>2. QED
      BY <2>1, <3>1, <1>5, <1>6 DEF ConnectionInv, PipeInStep, Requests
  <2>3. ASSUME NEW a \in Held(outbox'), a.to # Nobody
        PROVE  call'[a.to].tied /\ a.is # "ready"
    <3>1. Held(outbox) \subseteq Replies
      BY HeldType DEF ConnectionInv, TypeOK, Replies
    <3>2. a \in Held(outbox) /\ a.to # c /\ a.to \in Clients
      BY <2>3, <3>1, <1>1, <1>3 DEF Replies
    <3>3. QED
      BY <3>2, <2>3, <1>6 DEF ConnectionInv, PipeInStep
  <2>4. ASSUME NEW i \in DOMAIN inbox', NEW j \in DOMAIN inbox', inbox'[i].from = inbox'[j].from
        PROVE  i = j
    <3>1. \A k \in DOMAIN inbox : inbox[k].from # c
      BY <2>1 DEF Held
    <3>2. \A k \in DOMAIN inbox' :
             \/ k \in DOMAIN inbox /\ inbox'[k] = inbox[k]
             \/ k = Len(inbox) + 1 /\ inbox'[k] = request
      BY <1>1, <1>4, <1>5
    <3>3. QED
      BY <2>4, <3>1, <3>2, <1>5 DEF ConnectionInv, PipeInStep
  <2>5. ASSUME NEW r \in Held(inbox'), NEW a \in Held(outbox') PROVE r.from # a.to
    BY <1>1, <1>3, <1>5 DEF ConnectionInv, PipeInStep
  <2>6. QED
    BY <2>2, <2>3, <2>4, <2>5, <1>1 DEF ConnectionInv, PipeInStep
<1>11. /\ Requested(c)'
       /\ \A d \in Clients : d # c => (Requested(d)' <=> Requested(d))
  BY <1>5 DEF Requested
<1>12. \A d \in Clients, k \in Kinds : Answered(d, k)' <=> Answered(d, k)
  BY <1>1 DEF Answered
<1>13. Used(c)' = wrote[c] /\ Used(c) = wrote[c]
       /\ \A d \in Clients : d # c => Used(d)' = Used(d)
  BY <1>1, <1>2, <1>6, <1>11 DEF Used
<1>14. \A d \in Clients : Writing(d)' => Writing(d)
  BY <1>2, <1>6, <1>7 DEF Writing
<1>15. TxnInStep'
  BY <1>1, <1>13, <1>14 DEF TxnInStep, ConnectionInv, Data
<1>16. NothingOpen'
  <2>1. \A d \in Clients : Closed(d)' => Closed(d)
    BY <1>2, <1>3, <1>6, <1>7, <1>12 DEF Closed, Kinds
  <2>2. QED
    BY <1>1, <2>1 DEF NothingOpen, ConnectionInv, Data
<1>17. Durable'
  <2> SUFFICES ASSUME NEW d \in Clients, NEW i \in 1 .. MaxWrites
               PROVE  DurableWrite(d, i)'
    BY DEF Durable
  <2>1. (Live(d)' => Live(d)) /\ (Done(d)' => Done(d)) /\ (Excused(d, i)' <=> Excused(d, i))
    BY <1>1, <1>2, <1>3, <1>6, <1>7, <1>12 DEF Live, Done, Excused, Kinds
  <2>2. call'[d].op = "write" /\ Answered(d, "ok") => call[d].op = "write"
    BY <1>3, <1>6 DEF Kinds
  <2>3. QED
    BY <2>1, <2>2, <1>1, <1>12 DEF ConnectionInv, Data, Durable, DurableWrite, Kinds
<1>18. QED
  BY <1>8, <1>9, <1>10, <1>15, <1>16, <1>17 DEF ConnectionInv, Data

CallType == [Clients -> [op : Ops \cup {"none"}, tied : BOOLEAN]]
LEMMA UntiedType ==
    ASSUME TypeOK
    PROVE  /\ Untied \in CallType
           /\ \A d \in Clients : Untied[d].op = call[d].op /\ ~Untied[d].tied
<1>1. call \in CallType
  BY DEF TypeOK, CallType
<1>2. ASSUME NEW d \in Clients
      PROVE  /\ Untied[d] \in [op : Ops \cup {"none"}, tied : BOOLEAN]
             /\ Untied[d].op = call[d].op /\ ~Untied[d].tied
  <2>1. call[d] \in [op : Ops \cup {"none"}, tied : BOOLEAN]
    BY <1>1 DEF CallType
  <2>2. Untied[d] = [call[d] EXCEPT !.tied = FALSE]
    BY DEF Untied
  <2>3. QED
    BY <2>1, <2>2
<1>3. QED
  BY <1>2 DEF Untied, CallType

(* A pipe that holds one request at most is in step with a thread tied to it. *)
LEMMA FreshPipe ==
    ASSUME NEW c \in Clients, outbox' = <<>> \/ outbox' = <<Ready>>,
           inbox' = <<>> \/ (/\ \E op : inbox' = <<[from |-> c, op |-> op]>> /\ call'[c].op = op
                             /\ call'[c].tied)
    PROVE  PipeInStep' /\ \A d \in Clients, k \in Kinds : ~Answered(d, k)'
<1>1. Held(outbox') \subseteq {Ready} /\ \A i \in DOMAIN outbox' : i = 1 /\ outbox'[i] = Ready
  BY HeldNone, HeldOne
<1>2. /\ \A r \in Held(inbox') : r.from = c /\ call'[c].tied /\ call'[c].op = r.op
      /\ \A i \in DOMAIN inbox' : i = 1
  <2>1. CASE inbox' = <<>>
    BY <2>1, HeldNone
  <2>2. CASE inbox' # <<>>
    <3>1. PICK op : inbox' = <<[from |-> c, op |-> op]>> /\ call'[c].op = op
      BY <2>2
    <3>2. Held(inbox') = {[from |-> c, op |-> op]} /\ \A i \in DOMAIN inbox' : i = 1
      BY <3>1, HeldOne
    <3>3. QED
      BY <2>2, <3>1, <3>2
  <2>3. QED
    BY <2>1, <2>2
<1>3. c # Nobody /\ Ready.to = Nobody /\ Ready.is = "ready"
  BY Constants DEF Ready
<1>4. PipeInStep'
  BY <1>1, <1>2, <1>3 DEF PipeInStep
<1>5. ASSUME NEW d \in Clients, NEW k \in Kinds PROVE ~Answered(d, k)'
  <2>1. [to |-> d, is |-> k] # Ready
    BY Constants DEF Ready
  <2>2. QED
    BY <1>1, <2>1 DEF Answered
<1>6. QED
  BY <1>4, <1>5

(* A thread ends its call and discards the worker. *)
LEMMA ThreadDiscards ==
    ASSUME ConnectionInv, NEW c \in Clients, call[c].op # "none",
           NEW why \in {"own", "timeout"}, Discard(c, why),
           call' = [Untied EXCEPT ![c] = NoCall],
           NEW next \in {"ended", "failed", "retry"}, Return(c, next, 0),
           next = "retry" => /\ call[c].op = "read" /\ tries[c] < Attempts
                             /\ ~Answered(c, "fatal")
                             /\ why = "timeout" \/ \A i \in 1 .. MaxWrites : <<c, i>> \notin txn,
           UNCHANGED <<db, tries>>
    PROVE  ConnectionInv'
<1>1. /\ txn' = {} /\ fate' \in [Statements -> Fates] /\ worker' = "none"
      /\ inbox' = <<>> /\ outbox' = <<>>
      /\ \A d \in Clients, i \in 1 .. MaxWrites :
            fate'[<<d, i>>] =
               IF <<d, i>> \in txn \/ (fate[<<d, i>>] = "own" /\ d # c /\ Answered(d, "fatal"))
               THEN IF d = c THEN why ELSE "others"
               ELSE fate[<<d, i>>]
  BY Discarded DEF ConnectionInv
<1>2. /\ call' \in CallType /\ call'[c] = NoCall
      /\ \A d \in Clients : d # c => call'[d].op = call[d].op /\ ~call'[d].tied
  BY UntiedType DEF ConnectionInv, CallType, NoCall, Ops
<1>3. call'[c].op = "none" /\ ~call'[c].tied
  BY <1>2 DEF NoCall
<1>4. /\ pc[c] \in {"wait", "cancelled"}
      /\ pc \in [Clients -> Ended \cup {"run", "wait", "retry", "again"}]
      /\ wrote \in [Clients -> 0 .. MaxWrites]
  BY DEF ConnectionInv, Control, LockInStep, TypeOK
<1>5. /\ pc' \in [Clients -> Ended \cup {"run", "wait", "retry", "again"}]
      /\ pc'[c] = IF pc[c] = "wait" THEN next ELSE "cancelled"
      /\ \A d \in Clients : d # c => pc'[d] = pc[d]
      /\ wrote' = wrote
      /\ lock' = IF pc[c] = "wait" THEN Nobody ELSE lock
  BY <1>4 DEF Return, Ended
<1>6. TypeOK'
  BY <1>1, <1>2, <1>5 DEF ConnectionInv, TypeOK, CallType
<1>7. Control'
  BY <1>2, <1>3, <1>4, <1>5, Constants DEF ConnectionInv, Control, LockInStep, CountsInStep
<1>8. PipeInStep' /\ (\A d \in Clients, k \in Kinds : ~Answered(d, k)')
      /\ \A d \in Clients : ~Requested(d)'
  BY <1>1, FreshPipe, HeldNone DEF Requested
<1>9. ASSUME NEW d \in Clients, Writing(d)' PROVE Writing(d) /\ Used(d) <= Used(d)'
  <2>1. wrote[d] \in Nat
    BY <1>4
  <2>2. CASE d = c
    <3>1. pc'[c] = "retry" /\ call[c].op = "read"
      BY <1>3, <1>4, <1>5, <1>9, <2>2 DEF Writing
    <3>2. QED
      BY <2>1, <2>2, <3>1, <1>3, <1>5 DEF Writing, Used
  <2>3. CASE d # c
    BY <2>1, <2>3, <1>2, <1>5, <1>8, <1>9 DEF Writing, Used
  <2>4. QED
    BY <2>2, <2>3
<1>10. TxnInStep'
  <2>1. ASSUME NEW d \in Clients, NEW i \in 1 .. MaxWrites, Writing(d)', i > Used(d)'
        PROVE  fate'[<<d, i>>] = "kept"
    <3>1. wrote[d] \in Nat /\ wrote'[d] \in Nat
      BY <1>4, <1>5
    <3>2. i > Used(d) /\ Writing(d)
      BY <2>1, <3>1, <1>9 DEF Used
    <3>3. QED
      BY <3>2, <1>1 DEF ConnectionInv, Data, TxnInStep
  <2>2. QED
    BY <2>1, <1>1 DEF TxnInStep
<1>11. NothingOpen'
  BY <1>1 DEF NothingOpen
<1>12. Durable'
  <2> SUFFICES ASSUME NEW d \in Clients, NEW i \in 1 .. MaxWrites
               PROVE  DurableWrite(d, i)'
    BY DEF Durable
  <2>1. /\ DurableWrite(d, i) /\ (<<d, i>> \in txn => fate[<<d, i>>] = "kept")
        /\ ~Answered(d, "ok")' /\ ~Answered(d, "fatal")'
    BY <1>8 DEF ConnectionInv, Data, Durable, TxnInStep, Kinds
  <2>2. CASE d = c
    <3>1. ~Done(d)'
      BY <1>3, <1>4, <1>5, <2>1, <2>2 DEF Done
    <3>2. Live(d)' => Live(d) /\ next = "retry"
      BY <1>3, <1>4, <1>5, <2>2 DEF Live
    <3>3. next = "retry" /\ <<d, i>> \in txn => Excused(d, i)'
      BY <1>1, <2>2 DEF Excused
    <3>4. <<d, i>> \notin txn => (Excused(d, i)' <=> Excused(d, i))
      BY <1>1, <2>2 DEF Excused
    <3>5. QED
      BY <2>1, <2>2, <3>1, <3>2, <3>3, <3>4, <1>5 DEF DurableWrite
  <2>3. CASE d # c
    <3>1. (Live(d)' => Live(d)) /\ (Done(d)' => Done(d))
      BY <1>2, <1>5, <2>1, <2>3 DEF Live, Done
    <3>2. <<d, i>> \in txn \/ (fate[<<d, i>>] = "own" /\ Answered(d, "fatal")) => Excused(d, i)'
      BY <1>1, <2>3 DEF Excused
    <3>3. Excused(d, i) => Excused(d, i)'
      BY <1>1, <2>3 DEF Excused
    <3>4. QED
      BY <2>1, <3>1, <3>2, <3>3, <1>5 DEF DurableWrite
  <2>4. QED
    BY <2>2, <2>3
<1>13. QED
  BY <1>6, <1>7, <1>8, <1>10, <1>11, <1>12 DEF ConnectionInv, Data

(* A worker is started, whether it serves the request or not: the pipe is new,
   and no worker means no transaction. *)
LEMMA StartStep ==
    ASSUME ConnectionInv, NEW c \in Clients, lock = Nobody, NEW op \in Ops, Wants(c, op),
           worker # "up", Send(c, op) \/ StartFails(c, op)
    PROVE  ConnectionInv'
<1>1. /\ pc[c] \in {"run", "again", "failed"} /\ (pc[c] = "failed" <=> op = "rollback")
      /\ op = "write" => wrote[c] < MaxWrites
      /\ op = "read" => tries[c] < Attempts
      /\ \A d \in Clients : pc[d] # "wait"
      /\ \A d \in Clients : pc[d] # "cancelled" => call[d].op = "none" /\ ~call[d].tied
  BY Wanting
<1>2. /\ UNCHANGED <<txn, db, wrote, fate>> /\ txn = {}
      /\ tries' = Tried(c, op)
  BY DEF Send, StartFails, ConnectionInv, Data, TxnInStep
<1>3. /\ pc \in [Clients -> Ended \cup {"run", "wait", "retry", "again"}]
      /\ wrote \in [Clients -> 0 .. MaxWrites]
      /\ tries' \in [Clients -> 0 .. Attempts] /\ \A d \in Clients : d # c => tries'[d] = tries[d]
  BY <1>1, <1>2, TriedType DEF ConnectionInv, TypeOK
(* What follows for both outcomes from what becomes of the client. *)
<1>4. ASSUME worker' \in {"up", "dead"}, PipeInStep',
             inbox' \in Seq(Requests), outbox' \in Seq(Replies),
             \A d \in Clients, k \in Kinds : ~Answered(d, k)',
             call' \in CallType, lock' \in {Nobody, c},
             pc' \in [Clients -> Ended \cup {"run", "wait", "retry", "again"}],
             \A d \in Clients : d # c => pc'[d] = pc[d] /\ call'[d].op = call[d].op /\ ~call'[d].tied,
             \/ /\ lock' = c /\ pc'[c] = "wait" /\ call'[c].op = op /\ call'[c].tied
                /\ Requested(c)'
             \/ /\ lock' = Nobody /\ pc'[c] \in {"failed", "ended", "retry"}
                /\ pc'[c] = "retry" => op = "read" /\ tries'[c] < Attempts
                /\ call'[c].op = "none" /\ ~call'[c].tied
      PROVE  ConnectionInv'
  <2>1. TypeOK'
    BY <1>2, <1>3, <1>4 DEF ConnectionInv, TypeOK, CallType, Requests, Replies
  <2>2. Control'
    <3>1. LockInStep'
      <4>1. ASSUME NEW d \in Clients, d = c
            PROVE  /\ pc'[d] = "wait" <=> lock' = d
                   /\ pc'[d] = "wait" => call'[d].op # "none"
                   /\ call'[d].op # "none" => pc'[d] \in {"wait", "cancelled"}
                   /\ call'[d].tied => call'[d].op # "none"
        BY <4>1, <1>4, Constants DEF Ops
      <4>2. ASSUME NEW d \in Clients, d # c
            PROVE  /\ pc'[d] = "wait" <=> lock' = d
                   /\ pc'[d] = "wait" => call'[d].op # "none"
                   /\ call'[d].op # "none" => pc'[d] \in {"wait", "cancelled"}
                   /\ call'[d].tied => call'[d].op # "none"
        BY <4>2, <1>1, <1>4, Constants DEF ConnectionInv, Control, LockInStep
      <4>3. QED
        BY <4>1, <4>2 DEF LockInStep
    <3>2. CountsInStep'
      BY <1>1, <1>2, <1>3, <1>4 DEF ConnectionInv, Control, CountsInStep
    <3>3. QED
      BY <3>1, <3>2 DEF Control
  <2>3. ASSUME NEW d \in Clients, Writing(d)' PROVE Writing(d) /\ Used(d) <= Used(d)'
    <3>1. wrote[d] \in Nat
      BY <1>3
    <3>2. CASE d = c
      <4>1. op # "rollback" /\ Writing(c) /\ Used(c) = wrote[c]
        BY <1>1, <1>4, <2>3, <3>2 DEF Writing, Used
      <4>2. QED
        BY <4>1, <3>1, <3>2, <1>2 DEF Used
    <3>3. CASE d # c
      <4>1. Writing(d) /\ call'[d].op = call[d].op
        BY <1>4, <2>3, <3>3 DEF Writing
      <4>2. call[d].op = "write" => ~Requested(d)' \/ Used(d)' = wrote[d]
        BY <1>2 DEF Used
      <4>3. ~Requested(d)'
        BY <1>4, <3>3 DEF PipeInStep, Requested
      <4>4. QED
        BY <3>1, <4>1, <4>3, <1>2 DEF Used
    <3>4. QED
      BY <3>2, <3>3
  <2>4. TxnInStep'
    <3>1. ASSUME NEW d \in Clients, NEW i \in 1 .. MaxWrites, Writing(d)', i > Used(d)'
          PROVE  fate'[<<d, i>>] = "kept"
      <4>1. wrote[d] \in Nat /\ wrote' = wrote
        BY <1>2, <1>3
      <4>2. i > Used(d) /\ Writing(d)
        BY <3>1, <4>1, <2>3 DEF Used
      <4>3. QED
        BY <4>2, <1>2 DEF ConnectionInv, Data, TxnInStep
    <3>2. QED
      BY <3>1, <1>2 DEF TxnInStep
  <2>5. NothingOpen'
    BY <1>2 DEF NothingOpen
  <2>6. Durable'
    <3> SUFFICES ASSUME NEW d \in Clients, NEW i \in 1 .. MaxWrites
                 PROVE  DurableWrite(d, i)'
      BY DEF Durable
    <3>1. DurableWrite(d, i)
      BY DEF ConnectionInv, Data, Durable
    <3>2. (Live(d)' => Live(d)) /\ (Done(d)' => Done(d)) /\ ~Answered(d, "ok")'
      BY <1>1, <1>4 DEF Live, Done, Kinds
    <3>3. Live(d)' => ~Answered(d, "fatal")
      <4>1. Live(d) => ~call[d].tied
        BY <1>1 DEF Live
      <4>2. QED
        BY <3>2, <4>1, Untouched DEF Kinds
    <3>4. Excused(d, i)' <=> Excused(d, i)
      BY <1>2 DEF Excused
    <3>5. QED
      BY <3>1, <3>2, <3>3, <3>4, <1>2 DEF DurableWrite
  <2>7. QED
    BY <1>4, <2>1, <2>2, <2>4, <2>5, <2>6 DEF ConnectionInv, Data
<1>5. CASE Send(c, op)
  <2> DEFINE request == [from |-> c, op |-> op]
  <2>1. /\ worker' = "up" /\ inbox' = <<request>> /\ outbox' = <<>>
        /\ call' = [Untied EXCEPT ![c] = [op |-> op, tied |-> TRUE]]
        /\ lock' = c /\ pc' = [pc EXCEPT ![c] = "wait"]
    BY <1>5 DEF Send
  <2>2. request \in Requests /\ request.from = c /\ request.op = op
    BY DEF Requests
  <2>3. /\ call' \in CallType /\ call'[c].op = op /\ call'[c].tied
        /\ \A d \in Clients : d # c => call'[d].op = call[d].op /\ ~call'[d].tied
    BY <2>1, UntiedType DEF ConnectionInv, CallType
  <2>4. PipeInStep' /\ \A d \in Clients, k \in Kinds : ~Answered(d, k)'
    BY <2>1, <2>3, FreshPipe
  <2>5. Requested(c)'
    BY <2>1, <2>2, HeldOne DEF Requested
  <2>6. inbox' \in Seq(Requests) /\ outbox' \in Seq(Replies)
    BY <2>1, <2>2
  <2>7. pc' \in [Clients -> Ended \cup {"run", "wait", "retry", "again"}] /\ pc'[c] = "wait"
        /\ \A d \in Clients : d # c => pc'[d] = pc[d]
    BY <2>1, <1>3
  <2>8. QED
    BY <1>4, <2>1, <2>3, <2>4, <2>5, <2>6, <2>7
<1>6. CASE StartFails(c, op)
  <2>1. PICK late \in BOOLEAN :
           /\ worker' = IF late THEN "up" ELSE "dead"
           /\ outbox' = IF late THEN <<Ready>> ELSE <<>>
           /\ pc' = [pc EXCEPT ![c] = AfterError(op, late, tries'[c])]
    BY <1>6 DEF StartFails
  <2>2. inbox' = <<>> /\ call' = Untied /\ lock' = Nobody
    BY <1>6 DEF StartFails
  <2>3. /\ call' \in CallType
        /\ \A d \in Clients : call'[d].op = call[d].op /\ ~call'[d].tied
    BY <2>2, UntiedType DEF ConnectionInv
  <2>4. PipeInStep' /\ \A d \in Clients, k \in Kinds : ~Answered(d, k)'
    BY <2>1, <2>2, FreshPipe
  <2>5. Ready \in Replies
    BY DEF Ready, Replies
  <2>6. inbox' \in Seq(Requests) /\ outbox' \in Seq(Replies)
    BY <2>1, <2>2, <2>5
  <2>7. AfterError(op, late, tries'[c]) \in {"failed", "ended", "retry"}
        /\ (AfterError(op, late, tries'[c]) = "retry" => op = "read" /\ tries'[c] < Attempts)
    BY DEF AfterError, MayRetry
  <2>8. pc' \in [Clients -> Ended \cup {"run", "wait", "retry", "again"}]
        /\ pc'[c] = AfterError(op, late, tries'[c])
        /\ \A d \in Clients : d # c => pc'[d] = pc[d]
    BY <2>1, <2>7, <1>3 DEF Ended
  <2>9. call'[c].op = "none" /\ ~call'[c].tied
    BY <1>1, <2>3
  <2>10. QED
    BY <1>4, <2>1, <2>2, <2>3, <2>4, <2>6, <2>7, <2>8, <2>9
<1>7. QED
  BY <1>5, <1>6

(* The retry of a read discards whatever worker is current, without the lock. *)
LEMMA ResetStep ==
    ASSUME ConnectionInv, NEW c \in Clients, Reset(c)
    PROVE  ConnectionInv'
<1>1. /\ txn' = {} /\ fate' \in [Statements -> Fates] /\ worker' = "none"
      /\ inbox' = <<>> /\ outbox' = <<>>
      /\ \A d \in Clients, i \in 1 .. MaxWrites :
            fate'[<<d, i>>] =
               IF <<d, i>> \in txn \/ (fate[<<d, i>>] = "own" /\ d # c /\ Answered(d, "fatal"))
               THEN IF d = c THEN "own" ELSE "others"
               ELSE fate[<<d, i>>]
  BY Discarded DEF Reset, ConnectionInv
<1>2. /\ call' \in CallType
      /\ \A d \in Clients : call'[d].op = call[d].op /\ ~call'[d].tied
  BY UntiedType DEF Reset, ConnectionInv
<1>3. /\ pc[c] = "retry" /\ pc' = [pc EXCEPT ![c] = "again"]
      /\ UNCHANGED <<db, lock, wrote, tries>>
      /\ pc \in [Clients -> Ended \cup {"run", "wait", "retry", "again"}]
      /\ wrote \in [Clients -> 0 .. MaxWrites]
  BY DEF Reset, ConnectionInv, TypeOK
<1>4. TypeOK'
  BY <1>1, <1>2, <1>3 DEF ConnectionInv, TypeOK, CallType
<1>5. call[c].op = "none" /\ ~call[c].tied
  BY <1>3 DEF ConnectionInv, Control, LockInStep
<1>6. Control'
  BY <1>2, <1>3, <1>5 DEF ConnectionInv, Control, LockInStep, CountsInStep
<1>7. PipeInStep' /\ (\A d \in Clients, k \in Kinds : ~Answered(d, k)')
      /\ \A d \in Clients : ~Requested(d)'
  BY <1>1, FreshPipe, HeldNone DEF Requested
<1>8. ASSUME NEW d \in Clients, Writing(d)' PROVE Writing(d) /\ Used(d) <= Used(d)'
  <2>1. wrote[d] \in Nat
    BY <1>3
  <2>2. Writing(d)
    BY <1>2, <1>3, <1>8 DEF Writing
  <2>3. QED
    BY <2>1, <2>2, <1>2, <1>3, <1>7 DEF Used
<1>9. TxnInStep'
  <2>1. ASSUME NEW d \in Clients, NEW i \in 1 .. MaxWrites, Writing(d)', i > Used(d)'
        PROVE  fate'[<<d, i>>] = "kept"
    <3>1. wrote[d] \in Nat
      BY <1>3
    <3>2. i > Used(d) /\ Writing(d)
      BY <2>1, <3>1, <1>3, <1>8 DEF Used
    <3>3. QED
      BY <3>2, <1>1 DEF ConnectionInv, Data, TxnInStep
  <2>2. QED
    BY <2>1, <1>1 DEF TxnInStep
<1>10. NothingOpen'
  BY <1>1 DEF NothingOpen
<1>11. Durable'
  <2> SUFFICES ASSUME NEW d \in Clients, NEW i \in 1 .. MaxWrites
               PROVE  DurableWrite(d, i)'
    BY DEF Durable
  <2>1. /\ DurableWrite(d, i) /\ (<<d, i>> \in txn => fate[<<d, i>>] = "kept")
        /\ ~Answered(d, "ok")' /\ ~Answered(d, "fatal")'
    BY <1>7 DEF ConnectionInv, Data, Durable, TxnInStep, Kinds
  <2>2. (Live(d)' => Live(d)) /\ (Done(d)' => Done(d))
    BY <1>2, <1>3, <2>1 DEF Live, Done
  <2>3. Excused(d, i) => Excused(d, i)'
    <3>1. <<d, i>> \notin txn \/ ~Excused(d, i)
      BY <2>1 DEF Excused
    <3>2. QED
      BY <3>1, <1>1 DEF Excused
  <2>4. d = c => <<d, i>> \notin txn /\ ~Answered(d, "fatal")
    <3>1. Closed(c) /\ ~Answered(c, "fatal")
      BY <1>3, <1>5, Untouched DEF Closed, Kinds
    <3>2. QED
      BY <3>1 DEF ConnectionInv, Data, NothingOpen
  <2>5. d # c /\ (<<d, i>> \in txn \/ (fate[<<d, i>>] = "own" /\ Answered(d, "fatal")))
        => Excused(d, i)'
    BY <1>1 DEF Excused
  <2>6. QED
    BY <2>1, <2>2, <2>3, <2>4, <2>5, <1>3 DEF DurableWrite
<1>12. QED
  BY <1>4, <1>6, <1>7, <1>9, <1>10, <1>11 DEF ConnectionInv, Data

(* The thread of a call takes its client's answer from the front of the pipe. *)
LEMMA PopPipe ==
    ASSUME ConnectionInv, NEW c \in Clients, outbox # <<>>, Mine(c, Head(outbox)),
           outbox' = Tail(outbox), inbox' = inbox, call' = [call EXCEPT ![c] = NoCall]
    PROVE  /\ PipeInStep' /\ outbox' \in Seq(Replies) /\ ~Requested(c)
           /\ Head(outbox).is \in Kinds /\ Answered(c, Head(outbox).is)
           /\ \A k \in Kinds :
                 /\ k # Head(outbox).is => ~Answered(c, k)
                 /\ ~Answered(c, k)'
                 /\ \A d \in Clients : d # c => (Answered(d, k)' <=> Answered(d, k))
<1> DEFINE reply == Head(outbox)
<1>1. outbox \in Seq(Replies) /\ call \in CallType /\ inbox \in Seq(Requests)
  BY DEF ConnectionInv, TypeOK, Replies, CallType, Requests
<1>2. reply.to = c /\ c # Nobody /\ reply = outbox[1] /\ 1 \in DOMAIN outbox
  BY <1>1, Constants DEF Mine
<1>3. \A i \in DOMAIN outbox : outbox[i].to = c => i = 1
  BY <1>2 DEF ConnectionInv, PipeInStep
<1>4. Held(outbox') = Held(outbox) \ {reply} /\ reply \in Held(outbox) /\ reply \in Replies
  BY <1>1, <1>2, <1>3, HeldTail
<1>5. \A a \in Held(outbox) : a.to = c => a = reply
  BY <1>2, <1>3 DEF Held
<1>6. reply.is \in Kinds /\ reply = [to |-> c, is |-> reply.is]
  BY <1>2, <1>4 DEF Replies, Kinds, ConnectionInv, PipeInStep
<1>7. /\ \A r \in Held(inbox) : r.from # c
      /\ ~Requested(c)
  BY <1>2, <1>4 DEF ConnectionInv, PipeInStep, Requested
<1>8. PipeInStep'
  <2>1. ASSUME NEW r \in Held(inbox') PROVE call'[r.from].tied /\ call'[r.from].op = r.op
    <3>1. r \in Requests /\ r.from # c /\ r \in Held(inbox)
      BY <1>1, <1>7, HeldType
    <3>2. call'[r.from] = call[r.from]
      BY <3>1, <1>1 DEF CallType, Requests
    <3>3. QED
      BY <3>1, <3>2 DEF ConnectionInv, PipeInStep
  <2>2. ASSUME NEW a \in Held(outbox'), a.to # Nobody
        PROVE  call'[a.to].tied /\ a.is # "ready"
    <3>1. a \in Held(outbox) /\ a.to # c
      BY <1>4, <1>5
    <3>2. a \in Replies
      BY <3>1, <1>1, HeldType
    <3>3. call'[a.to] = call[a.to]
      BY <2>2, <3>1, <3>2, <1>1 DEF CallType, Replies
    <3>4. QED
      BY <2>2, <3>1, <3>3 DEF ConnectionInv, PipeInStep
  <2>3. ASSUME NEW i \in DOMAIN outbox', NEW j \in DOMAIN outbox',
               outbox'[i].to # Nobody, outbox'[i].to = outbox'[j].to
        PROVE  i = j
    <3>1. /\ i \in 1 .. Len(outbox) - 1 /\ j \in 1 .. Len(outbox) - 1
          /\ outbox'[i] = outbox[i + 1] /\ outbox'[j] = outbox[j + 1]
      BY <1>1, <1>2
    <3>2. i + 1 \in DOMAIN outbox /\ j + 1 \in DOMAIN outbox
      BY <1>1, <3>1
    <3>3. i + 1 = j + 1
      BY <2>3, <3>1, <3>2 DEF ConnectionInv, PipeInStep
    <3>4. QED
      BY <3>1, <3>3
  <2>4. QED
    BY <2>1, <2>2, <2>3, <1>4 DEF ConnectionInv, PipeInStep
<1>9. ASSUME NEW k \in Kinds
      PROVE  /\ k # reply.is => ~Answered(c, k)
             /\ ~Answered(c, k)'
             /\ \A d \in Clients : d # c => (Answered(d, k)' <=> Answered(d, k))
  <2>1. /\ k # reply.is => ~Answered(c, k)
        /\ ~Answered(c, k)'
    BY <1>4, <1>5, <1>6 DEF Answered
  <2>2. ASSUME NEW d \in Clients, d # c PROVE Answered(d, k)' <=> Answered(d, k)
    BY <2>2, <1>4, <1>6 DEF Answered
  <2>3. QED
    BY <2>1, <2>2
<1>10. Answered(c, reply.is)
  BY <1>4, <1>6 DEF Answered
<1>11. QED
  BY <1>1, <1>6, <1>7, <1>8, <1>9, <1>10

(* A thread ends its call and leaves the worker alone: its answer came, or its
   pipe was closed while it waited. *)
LEMMA ThreadEnds ==
    ASSUME ConnectionInv, NEW c \in Clients, call[c].op # "none",
           call' = [call EXCEPT ![c] = NoCall],
           UNCHANGED <<worker, txn, db, fate, tries, inbox>>,
           PipeInStep', outbox' \in Seq(Replies), ~Requested(c),
           \A k \in Kinds : /\ ~Answered(c, k)'
                            /\ \A d \in Clients : d # c => (Answered(d, k)' <=> Answered(d, k)),
           ~Answered(c, "fatal"),
           NEW next \in {"run", "ok", "ended", "failed", "retry"}, NEW n \in {0, 1},
           Return(c, next, n),
           \/ /\ Answered(c, "ok") /\ next = AfterOk(call[c].op)
              /\ n = IF call[c].op = "write" THEN 1 ELSE 0
           \/ /\ n = 0 /\ next \in {"ended", "failed", "retry"}
              /\ next = "retry" => call[c].op = "read" /\ tries[c] < Attempts
              /\ \A i \in 1 .. MaxWrites : <<c, i>> \notin txn
    PROVE  ConnectionInv'
<1>1. /\ call \in CallType /\ call[c].op \in Ops
      /\ pc \in [Clients -> Ended \cup {"run", "wait", "retry", "again"}]
      /\ wrote \in [Clients -> 0 .. MaxWrites]
      /\ pc[c] \in {"wait", "cancelled"}
      /\ call[c].op = "write" => wrote[c] < MaxWrites
  BY DEF ConnectionInv, TypeOK, Control, LockInStep, CountsInStep, CallType
<1>2. /\ call' \in CallType /\ call'[c].op = "none" /\ ~call'[c].tied
      /\ \A d \in Clients : d # c => call'[d] = call[d]
  BY <1>1 DEF CallType, NoCall, Ops
<1>3. next \in {"run", "ok", "ended", "failed", "retry"}
      /\ (Answered(c, "ok") /\ next = AfterOk(call[c].op) =>
            /\ next = "run" => call[c].op \in {"write", "read"}
            /\ next = "ok" => call[c].op = "commit"
            /\ next = "ended" => call[c].op = "rollback"
            /\ next \in {"run", "ok", "ended"}
            /\ call[c].op = "write" => next = "run")
  BY <1>1 DEF AfterOk, Ops
<1>4. n = 1 => call[c].op = "write" /\ next = "run"
  BY <1>3
<1>5. /\ pc' \in [Clients -> Ended \cup {"run", "wait", "retry", "again"}]
      /\ pc'[c] = IF pc[c] = "wait" THEN next ELSE "cancelled"
      /\ \A d \in Clients : d # c => pc'[d] = pc[d]
      /\ lock' = IF pc[c] = "wait" THEN Nobody ELSE lock
  BY <1>1 DEF Return, Ended
<1>6. /\ wrote'[c] = IF pc[c] = "wait" THEN wrote[c] + n ELSE wrote[c]
      /\ \A d \in Clients : d # c => wrote'[d] = wrote[d]
      /\ wrote' \in [Clients -> 0 .. MaxWrites]
  <2>1. wrote[c] + n \in 0 .. MaxWrites
    BY <1>1, <1>4, Constants
  <2>2. QED
    BY <2>1, <1>1 DEF Return
<1>7. TypeOK'
  BY <1>2, <1>5, <1>6 DEF ConnectionInv, TypeOK, CallType, Replies
<1>8. Control'
  <2>1. LockInStep'
    BY <1>1, <1>2, <1>5, Constants DEF ConnectionInv, Control, LockInStep
  <2>2. CountsInStep'
    BY <1>2, <1>3, <1>5, <1>6 DEF ConnectionInv, Control, CountsInStep
  <2>3. QED
    BY <2>1, <2>2 DEF Control
<1>9. /\ Used(c)' = wrote'[c]
      /\ Used(c) = IF call[c].op = "write" THEN wrote[c] + 1 ELSE wrote[c]
      /\ \A d \in Clients : d # c => Used(d)' = Used(d)
  <2>1. /\ Used(c)' = wrote'[c]
        /\ Used(c) = IF call[c].op = "write" THEN wrote[c] + 1 ELSE wrote[c]
    BY <1>2 DEF Used
  <2>2. ASSUME NEW d \in Clients, d # c PROVE Used(d)' = Used(d)
    <3>1. Requested(d)' <=> Requested(d)
      BY DEF Requested
    <3>2. QED
      BY <2>2, <3>1, <1>2, <1>6 DEF Used
  <2>3. QED
    BY <2>1, <2>2
<1>10. TxnInStep'
  <2>1. ASSUME NEW d \in Clients, NEW i \in 1 .. MaxWrites, Writing(d)', i > Used(d)'
        PROVE  <<d, i>> \notin txn /\ fate[<<d, i>>] = "kept"
    <3>1. CASE d = c
      <4>1. pc[c] = "wait" /\ next \in {"run", "retry"}
        BY <2>1, <3>1, <1>1, <1>2, <1>5 DEF Writing
      <4>2. call[c].op \in {"write", "read"} /\ (call[c].op = "write" <=> n = 1)
        BY <4>1, <1>3, <1>4
      <4>3. Writing(c) /\ Used(c) = Used(c)'
        BY <4>1, <4>2, <1>1, <1>6, <1>9 DEF Writing
      <4>4. QED
        BY <2>1, <3>1, <4>3 DEF ConnectionInv, Data, TxnInStep
    <3>2. CASE d # c
      <4>1. Writing(d)
        BY <2>1, <3>2, <1>2, <1>5 DEF Writing
      <4>2. QED
        BY <2>1, <3>2, <4>1, <1>9 DEF ConnectionInv, Data, TxnInStep
    <3>3. QED
      BY <3>1, <3>2
  <2>2. QED
    BY <2>1 DEF ConnectionInv, Data, TxnInStep
<1>11. NothingOpen'
  <2> SUFFICES ASSUME NEW d \in Clients, NEW i \in 1 .. MaxWrites, Closed(d)'
               PROVE  <<d, i>> \notin txn
    BY DEF NothingOpen
  <2>1. CASE d # c
    <3>1. Closed(d)
      BY <2>1, <1>2, <1>5 DEF Closed, Kinds
    <3>2. QED
      BY <3>1 DEF ConnectionInv, Data, NothingOpen
  <2>2. CASE d = c
    <3>1. pc[c] = "wait" /\ next \in {"failed", "ended", "retry"}
      BY <2>2, <1>1, <1>2, <1>5 DEF Closed, Kinds
    <3>2. \/ Closed(c)
          \/ \A j \in 1 .. MaxWrites : <<c, j>> \notin txn
      BY <3>1, <1>3 DEF Closed
    <3>3. QED
      BY <2>2, <3>2 DEF ConnectionInv, Data, NothingOpen
  <2>3. QED
    BY <2>1, <2>2
<1>12. Durable'
  <2> SUFFICES ASSUME NEW d \in Clients, NEW i \in 1 .. MaxWrites
               PROVE  DurableWrite(d, i)'
    BY DEF Durable
  <2>1. DurableWrite(d, i) /\ (Excused(d, i)' <=> Excused(d, i))
    BY DEF ConnectionInv, Data, Durable, Excused
  <2>2. CASE d # c
    <3>1. (Live(d)' <=> Live(d)) /\ (Done(d)' <=> Done(d))
      BY <2>2, <1>2, <1>5 DEF Live, Done, Kinds
    <3>2. QED
      BY <2>1, <2>2, <3>1, <1>2, <1>6 DEF DurableWrite, Kinds
  <2>3. CASE d = c
    <3>1. (Live(c)' => pc[c] = "wait" /\ Live(c)) /\ (Done(c)' => pc[c] = "wait" /\ Done(c))
      BY <1>1, <1>2, <1>3, <1>5 DEF Live, Done
    <3>2. Live(c)' => i <= wrote[c] \/ i > wrote'[c]
                     \/ (i = wrote[c] + 1 /\ call[c].op = "write" /\ Answered(c, "ok"))
      BY <1>1, <1>3, <1>4, <1>6
    <3>3. Done(c)' => wrote'[c] = wrote[c]
      BY <3>1, <1>1, <1>2, <1>3, <1>4, <1>5, <1>6 DEF Done
    <3>4. wrote'[c] \in Nat /\ wrote[c] \in Nat
      BY <1>1, <1>6
    <3>5. QED
      BY <2>1, <2>3, <3>1, <3>2, <3>3, <3>4, <1>2 DEF DurableWrite
  <2>4. QED
    BY <2>2, <2>3
<1>13. QED
  BY <1>7, <1>8, <1>10, <1>11, <1>12 DEF ConnectionInv, Data

(* What an error leads to. *)
LEMMA ErrorLeadsTo ==
    ASSUME NEW op, NEW transient \in BOOLEAN, NEW attempt
    PROVE  /\ AfterError(op, transient, attempt) \in {"ended", "failed", "retry"}
           /\ AfterError(op, transient, attempt) = "retry" =>
                 transient /\ op = "read" /\ attempt < Attempts
BY DEF AfterError, MayRetry

LEMMA ReceiveStep ==
    ASSUME ConnectionInv, NEW c \in Clients, Receive(c)
    PROVE  ConnectionInv'
<1> DEFINE op == call[c].op
           reply == Head(outbox)
           write == IF op = "write" THEN 1 ELSE 0
<1>1. call[c].tied /\ outbox # <<>> /\ UNCHANGED <<db, tries>> /\ op # "none" /\ op \in Ops
  BY DEF Receive, ConnectionInv, Control, LockInStep, TypeOK
<1>2. CASE /\ Mine(c, reply) /\ reply.is # "fatal"
           /\ outbox' = Tail(outbox)
           /\ call' = [call EXCEPT ![c] = NoCall]
           /\ IF reply.is = "ok" THEN Return(c, AfterOk(op), write)
              ELSE Return(c, AfterError(op, reply.is = "transient", tries[c]), 0)
           /\ UNCHANGED <<worker, txn, inbox, fate>>
  <2>1. /\ PipeInStep' /\ outbox' \in Seq(Replies) /\ ~Requested(c)
        /\ reply.is \in Kinds /\ Answered(c, reply.is)
        /\ \A k \in Kinds :
              /\ k # reply.is => ~Answered(c, k)
              /\ ~Answered(c, k)'
              /\ \A d \in Clients : d # c => (Answered(d, k)' <=> Answered(d, k))
    BY <1>1, <1>2, PopPipe
  <2>2. ~Answered(c, "fatal")
    BY <2>1, <1>2 DEF Kinds
  <2>3. CASE reply.is = "ok"
    <3>1. AfterOk(op) \in {"run", "ok", "ended"} /\ write \in {0, 1}
      BY <1>1 DEF AfterOk, Ops
    <3>2. Return(c, AfterOk(op), write) /\ Answered(c, "ok")
      BY <1>2, <2>1, <2>3
    <3>3. QED
      BY <1>1, <1>2, <2>1, <2>2, <3>1, <3>2, ThreadEnds
  <2>4. CASE reply.is # "ok"
    <3> DEFINE next == AfterError(op, reply.is = "transient", tries[c])
    <3>1. Return(c, next, 0)
      BY <1>2, <2>4
    <3>2. next \in {"ended", "failed", "retry"} /\ (next = "retry" => op = "read" /\ tries[c] < Attempts)
      BY DEF AfterError, MayRetry
    <3>3. \A i \in 1 .. MaxWrites : <<c, i>> \notin txn
      <4>1. Closed(c)
        BY <2>1, <2>4 DEF Closed, Kinds
      <4>2. QED
        BY <4>1 DEF ConnectionInv, Data, NothingOpen
    <3> HIDE DEF next
    <3>4. QED
      BY <1>1, <1>2, <2>1, <2>2, <3>1, <3>2, <3>3, ThreadEnds
  <2>5. QED
    BY <2>3, <2>4
<1>3. CASE /\ ~Mine(c, reply) \/ reply.is = "fatal"
           /\ Discard(c, "own")
           /\ call' = [Untied EXCEPT ![c] = NoCall]
           /\ Return(c, AfterError(op, FALSE, tries[c]), 0)
  <2> DEFINE next == AfterError(op, FALSE, tries[c])
  <2>1. next \in {"ended", "failed", "retry"} /\ next # "retry"
    BY ErrorLeadsTo
  <2>2. Return(c, next, 0)
    BY <1>3
  <2> HIDE DEF next
  <2>3. QED
    BY <1>1, <1>3, <2>1, <2>2, ThreadDiscards
<1>4. QED
  BY <1>2, <1>3 DEF Receive

LEMMA GiveUpStep ==
    ASSUME ConnectionInv, NEW c \in Clients, GiveUp(c)
    PROVE  ConnectionInv'
<1> DEFINE next == AfterError(call[c].op, TRUE, tries[c])
<1>1. /\ call[c].op # "none" /\ outbox = <<>> /\ Discard(c, "timeout")
      /\ call' = [Untied EXCEPT ![c] = NoCall] /\ UNCHANGED <<db, tries>>
      /\ Return(c, next, 0)
  BY DEF GiveUp, ConnectionInv, Control, LockInStep
<1>2. /\ next \in {"ended", "failed", "retry"}
      /\ next = "retry" => call[c].op = "read" /\ tries[c] < Attempts
  BY ErrorLeadsTo
<1>3. ~Answered(c, "fatal")
  BY <1>1, HeldNone DEF Answered
<1> HIDE DEF next
<1>4. QED
  BY <1>1, <1>2, <1>3, ThreadDiscards

LEMMA PipeClosedStep ==
    ASSUME ConnectionInv, NEW c \in Clients, PipeClosed(c)
    PROVE  ConnectionInv'
<1>1. call[c].op # "none" /\ ~call[c].tied /\ UNCHANGED <<db, tries>>
  BY DEF PipeClosed
<1>2. /\ ~Requested(c) /\ (\A a \in Held(outbox) : a.to # c) /\ \A k \in Kinds : ~Answered(c, k)
  BY <1>1, Untouched
<1>3. \A i \in 1 .. MaxWrites : <<c, i>> \notin txn
  BY <1>1 DEF ConnectionInv, Data, NothingOpen, Closed
<1>4. CASE /\ Discard(c, "own")
           /\ call' = [Untied EXCEPT ![c] = NoCall]
           /\ Return(c, AfterError(call[c].op, TRUE, tries[c]), 0)
  <2> DEFINE next == AfterError(call[c].op, TRUE, tries[c])
  <2>1. /\ next \in {"ended", "failed", "retry"}
        /\ next = "retry" => call[c].op = "read" /\ tries[c] < Attempts
    BY ErrorLeadsTo
  <2>2. Return(c, next, 0)
    BY <1>4
  <2> HIDE DEF next
  <2>3. QED
    BY <1>1, <1>2, <1>3, <1>4, <2>1, <2>2, ThreadDiscards DEF Kinds
<1>5. CASE /\ call' = [call EXCEPT ![c] = NoCall]
           /\ Return(c, AfterError(call[c].op, FALSE, tries[c]), 0)
           /\ UNCHANGED <<worker, txn, inbox, outbox, fate>>
  <2> DEFINE next == AfterError(call[c].op, FALSE, tries[c])
  <2>1. next \in {"ended", "failed", "retry"} /\ next # "retry"
    BY ErrorLeadsTo
  <2>2. Return(c, next, 0)
    BY <1>5
  <2> HIDE DEF next
  <2>3. call \in CallType /\ inbox \in Seq(Requests) /\ outbox \in Seq(Replies)
    BY DEF ConnectionInv, TypeOK, CallType, Requests, Replies
  <2>4. PipeInStep'
    <3>1. \A r \in Held(inbox) : r \in Requests /\ r.from # c
      BY <1>2, <2>3, HeldType DEF Requested
    <3>2. \A a \in Held(outbox) : a \in Replies /\ a.to # c
      BY <1>2, <2>3, HeldType
    <3>3. \A d \in Clients : d # c => call'[d] = call[d]
      BY <1>5, <2>3 DEF CallType
    <3>4. QED
      BY <1>5, <3>1, <3>2, <3>3 DEF ConnectionInv, PipeInStep, Requests, Replies
  <2>5. \A d \in Clients, k \in Kinds : Answered(d, k)' <=> Answered(d, k)
    BY <1>5 DEF Answered
  <2>6. QED
    BY <1>1, <1>2, <1>3, <1>5, <2>1, <2>2, <2>3, <2>4, <2>5, ThreadEnds DEF Kinds
<1>6. QED
  BY <1>4, <1>5 DEF PipeClosed

LEMMA CancelStep ==
    ASSUME ConnectionInv, NEW c \in Clients, Cancel(c)
    PROVE  ConnectionInv'
<1>1. /\ pc' = [pc EXCEPT ![c] = "cancelled"] /\ lock' = IF lock = c THEN Nobody ELSE lock
      /\ UNCHANGED <<worker, txn, inbox, outbox, db, call, wrote, tries, fate>>
  BY DEF Cancel, pipe
<1>2. /\ pc \in [Clients -> Ended \cup {"run", "wait", "retry", "again"}]
      /\ pc'[c] = "cancelled" /\ \A d \in Clients : d # c => pc'[d] = pc[d]
  BY <1>1 DEF ConnectionInv, TypeOK
<1>3. TypeOK'
  BY <1>1, <1>2 DEF ConnectionInv, TypeOK, Ended
<1>4. Control'
  BY <1>1, <1>2, Constants DEF ConnectionInv, Control, LockInStep, CountsInStep
<1>5. PipeInStep'
  BY <1>1 DEF ConnectionInv, PipeInStep
<1>6. ASSUME NEW d \in Clients
      PROVE  /\ Closed(d)' => Closed(d)
             /\ Writing(d)' => Writing(d)
             /\ Used(d)' = Used(d)
             /\ Live(d)' => Live(d)
             /\ Done(d)' => Done(d)
             /\ \A k \in Kinds : Answered(d, k)' <=> Answered(d, k)
  <2>1. \A k \in Kinds : Answered(d, k)' <=> Answered(d, k)
    BY <1>1 DEF Answered
  <2>2. Used(d)' = Used(d)
    BY <1>1 DEF Used, Requested
  <2>3. /\ Closed(d)' => Closed(d)
        /\ Writing(d)' => Writing(d)
        /\ Live(d)' => Live(d)
        /\ Done(d)' => Done(d)
    BY <1>1, <1>2, <2>1 DEF Closed, Writing, Live, Done, Kinds
  <2>4. QED
    BY <2>1, <2>2, <2>3
<1>7. TxnInStep'
  BY <1>1, <1>6 DEF ConnectionInv, Data, TxnInStep
<1>8. NothingOpen'
  BY <1>1, <1>6 DEF ConnectionInv, Data, NothingOpen
<1>9. Durable'
  BY <1>1, <1>6 DEF ConnectionInv, Data, Durable, DurableWrite, Excused, Kinds
<1>10. QED
  BY <1>3, <1>4, <1>5, <1>7, <1>8, <1>9 DEF ConnectionInv, Data

-----------------------------------------------------------------------------
LEMMA InitInv == Init => ConnectionInv
<1> SUFFICES ASSUME Init PROVE ConnectionInv
  OBVIOUS
<1>1. TypeOK
  BY Constants DEF Init, TypeOK, NoCall, Fates
<1>2. Control
  BY Constants DEF Init, Control, LockInStep, CountsInStep, NoCall
<1>3. PipeInStep /\ \A c \in Clients, k \in Kinds : ~Answered(c, k)
  BY HeldNone DEF Init, PipeInStep, Answered
<1>4. Data
  <2>1. \A c \in Clients, i \in 1 .. MaxWrites : fate[<<c, i>>] = "kept"
    BY DEF Init, Statements
  <2>2. \A c \in Clients : wrote[c] = 0 /\ call[c].op = "none"
    BY DEF Init, NoCall
  <2>3. QED
    BY <1>3, <2>1, <2>2 DEF Init, Data, TxnInStep, NothingOpen, Durable, DurableWrite, Kinds
<1>5. QED
  BY <1>1, <1>2, <1>3, <1>4 DEF ConnectionInv

LEMMA StepInv == ConnectionInv /\ [Next]_vars => ConnectionInv'
<1> SUFFICES ASSUME ConnectionInv, [Next]_vars PROVE ConnectionInv'
  OBVIOUS
<1>1. CASE Work
  BY <1>1, WorkStep
<1>2. CASE Crash
  BY <1>2, CrashStep
<1>3. ASSUME NEW c \in Clients, MakeCall(c) PROVE ConnectionInv'
  <2>1. PICK op \in Ops : lock = Nobody /\ Wants(c, op) /\ (Send(c, op) \/ StartFails(c, op))
    BY <1>3 DEF MakeCall
  <2>2. StartFails(c, op) => worker # "up"
    BY DEF StartFails
  <2>3. QED
    BY <2>1, <2>2, SendStep, StartStep
<1>4. ASSUME NEW c \in Clients, Thread(c) PROVE ConnectionInv'
  BY <1>4, ReceiveStep, GiveUpStep, PipeClosedStep DEF Thread
<1>5. ASSUME NEW c \in Clients, Reset(c) PROVE ConnectionInv'
  BY <1>5, ResetStep
<1>6. ASSUME NEW c \in Clients, Cancel(c) PROVE ConnectionInv'
  BY <1>6, CancelStep
<1>7. CASE UNCHANGED vars
  BY <1>7 DEF vars, ConnectionInv, TypeOK, Control, LockInStep, CountsInStep, PipeInStep, Data,
     TxnInStep, NothingOpen, Durable, DurableWrite, Used, Requested, Writing, Closed, Live,
     Done, Answered, Excused
<1>8. QED
  BY <1>1, <1>2, <1>3, <1>4, <1>5, <1>6, <1>7 DEF Next

(* The inductive invariant holds in every behaviour of the connection. *)
THEOREM Invariance == Spec => []ConnectionInv
BY InitInv, StepInv, PTL DEF Spec

(* The type invariant: every request, reply, call and statement is one the code
   can make; storage/libsql_process.py. *)
THEOREM TypeCorrect == Spec => []TypeOK
<1>1. ConnectionInv => TypeOK
  BY DEF ConnectionInv
<1>2. QED
  BY <1>1, Invariance, PTL

(* A write whose commit was reported as done is durable, or was lost through
   another coroutine's call, a worker that ended or the client's own read that
   timed out; _request_sync and _discard_worker_sync. *)
THEOREM CommitIsDurable == Spec => []CommittedIsDurable
<1>1. ConnectionInv => CommittedIsDurable
  <2> SUFFICES ASSUME ConnectionInv, NEW c \in Clients, pc[c] = "ok", NEW i \in 1 .. wrote[c]
               PROVE  <<c, i>> \in db \/ fate[<<c, i>>] \in {"others", "timeout"}
    BY DEF CommittedIsDurable
  <2>1. wrote[c] \in 0 .. MaxWrites
    BY DEF ConnectionInv, TypeOK
  <2>2. i \in 1 .. MaxWrites
    BY <2>1, Constants
  <2>3. QED
    BY <2>1, <2>2 DEF ConnectionInv, Data, Durable, DurableWrite, Done, Excused
<1>2. QED
  BY <1>1, Invariance, PTL

(* Only a commit writes to the database, and it writes the transaction. *)
LEMMA OnlyCommitWrites == ConnectionInv /\ [Next]_vars => db' \subseteq db \cup txn
<1> SUFFICES ASSUME [Next]_vars PROVE db' \subseteq db \cup txn
  OBVIOUS
<1>1. CASE Work
  BY <1>1 DEF Work, Execute, Reconnect, Fail, Commit, Rollback
<1>2. CASE ~Work
  BY <1>2 DEF Next, vars, Crash, MakeCall, Send, StartFails, Thread, Receive, GiveUp, PipeClosed,
     Reset, Cancel, pipe
<1>3. QED
  BY <1>1, <1>2

(* A client that was told of a failure finds none of its writes durable
   afterwards, whatever the other clients commit on the same connection. *)
THEOREM FailureStays == Spec => FailureIsFinal
<1> DEFINE Final == \A c \in Clients : pc[c] \in {"failed", "ended"} =>
                       \A i \in 1..MaxWrites : <<c, i>> \in db' => <<c, i>> \in db
<1>1. ConnectionInv /\ [Next]_vars => [Final]_vars
  BY OnlyCommitWrites DEF ConnectionInv, Data, NothingOpen, Closed
<1>2. QED
  BY <1>1, Invariance, PTL DEF Spec, FailureIsFinal
=============================================================================
