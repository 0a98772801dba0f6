----------------------- MODULE RequestCoordinator_proofs -----------------------
(***************************************************************************)
(* Theorems about RequestCoordinator, for every set of coroutines and        *)
(* threads and every capacity: the type invariant, that every slot in use    *)
(* belongs to a coroutine that will release it or was lost to a coroutine    *)
(* cancelled before it resumed with it, that the gate implements Slots, and  *)
(* what the liveness of the calls rests on: whoever waits has a job in its   *)
(* own pool, and a helper loop leaves nothing behind.                        *)
(***************************************************************************)
EXTENDS RequestCoordinator, FiniteSetTheorems, SequenceTheorems, TLAPS

(* A job in a queue or on a thread, unless nobody waits for it, is the one its
   coroutine waits for. *)
Expected(j) ==
    j.by # Nobody =>
        \/ j.op = "acquire" /\ pc[j.by] = "acquire"
        \/ j.op = "request" /\ pc[j.by] \in {"request", "outside"}
JobsInStep ==
    /\ \A p \in Pools : \A i \in DOMAIN queue[p] : Expected(queue[p][i])
    /\ \A t \in AllThreads : Expected(job[t])

(* A coroutine has one job at most, in a queue or on a thread. *)
OneJob ==
    /\ \A p, q \in Pools : \A i \in DOMAIN queue[p], k \in DOMAIN queue[q] :
          queue[p][i].by = queue[q][k].by /\ queue[p][i].by # Nobody => p = q /\ i = k
    /\ \A t, u \in AllThreads : job[t].by = job[u].by /\ job[t].by # Nobody => t = u
    /\ \A p \in Pools : \A i \in DOMAIN queue[p], t \in AllThreads :
          queue[p][i].by = job[t].by => job[t].by = Nobody

CoordinatorInv == TypeOK /\ JobsInStep /\ OneJob /\ SlotsAccounted

-----------------------------------------------------------------------------
LEMMA Constants ==
    /\ Capacity \in Nat /\ Capacity > 0 /\ MaxRequests \in Nat /\ MaxRequests > 0
    /\ Nobody \notin Callers /\ 0 \in Ranks /\ IsFiniteSet(Callers)
BY CoordinatorAssumption DEF CoordinatorAssumption

(* What is in the queues and on the threads. *)
LEMMA JobTypes ==
    ASSUME TypeOK
    PROVE  /\ \A p \in Pools : queue[p] \in Seq(Jobs)
           /\ \A p \in Pools : \A i \in DOMAIN queue[p] :
                 queue[p][i] \in Jobs /\ queue[p][i].by \in Callers \cup {Nobody}
           /\ \A t \in AllThreads :
                 job[t] \in Jobs \cup {Free} /\ job[t].by \in Callers \cup {Nobody}
<1>1. \A j \in Jobs \cup {Free} : j.by \in Callers \cup {Nobody}
  BY DEF Jobs, Free
<1>2. \A p \in Pools : queue[p] \in Seq(Jobs)
  BY DEF TypeOK
<1>3. \A p \in Pools : \A i \in DOMAIN queue[p] : queue[p][i] \in Jobs
  BY <1>2
<1>4. \A t \in AllThreads : job[t] \in Jobs \cup {Free}
  BY DEF TypeOK
<1>5. QED
  BY <1>1, <1>2, <1>3, <1>4

LEMMA Pooled == (\A c : PoolOf(c) \in Pools) /\ \A t : PoolOfThread(t) \in Pools
BY DEF PoolOf, PoolOfThread, Pools

(* A coroutine that waits for no job has none. *)
LEMMA NoJob ==
    ASSUME TypeOK, JobsInStep, NEW c \in Callers, pc[c] \notin {"acquire", "request", "outside"}
    PROVE  /\ \A p \in Pools : \A i \in DOMAIN queue[p] : queue[p][i].by # c
           /\ \A t \in AllThreads : job[t].by # c
BY Constants DEF JobsInStep, Expected

(* A job is submitted for a coroutine that had none, or for nobody. *)
LEMMA Submitted ==
    ASSUME TypeOK, JobsInStep, OneJob, NEW p \in Pools, NEW j \in Jobs, Submit(p, j),
           UNCHANGED job, Expected(j)',
           j.by # Nobody => pc[j.by] \notin {"acquire", "request", "outside"},
           \A c \in Callers : c # j.by => pc'[c] = pc[c]
    PROVE  queue' \in [Pools -> Seq(Jobs)] /\ JobsInStep' /\ OneJob'
<1>1. queue \in [Pools -> Seq(Jobs)] /\ j.by \in Callers \cup {Nobody}
  BY DEF TypeOK, Jobs
<1>2. /\ queue' \in [Pools -> Seq(Jobs)]
      /\ queue'[p] = Append(queue[p], j)
      /\ \A q \in Pools : q # p => queue'[q] = queue[q]
  BY <1>1 DEF Submit
<1>3. ASSUME NEW q \in Pools, NEW i \in DOMAIN queue'[q]
      PROVE  \/ i \in DOMAIN queue[q] /\ queue'[q][i] = queue[q][i]
             \/ q = p /\ i = Len(queue[p]) + 1 /\ queue'[q][i] = j
  <2>1. queue[p] \in Seq(Jobs)
    BY <1>1
  <2>2. QED
    BY <1>2, <2>1
<1>4. ASSUME j.by # Nobody
      PROVE  /\ \A q \in Pools : \A i \in DOMAIN queue[q] : queue[q][i].by # j.by
             /\ \A t \in AllThreads : job[t].by # j.by
  BY <1>1, <1>4, NoJob
<1>5. JobsInStep'
  <2>1. ASSUME NEW x, Expected(x), x.by \in Callers \cup {Nobody}, x.by # j.by \/ j.by = Nobody
        PROVE  Expected(x)'
    BY <2>1 DEF Expected
  <2>2. ASSUME NEW q \in Pools, NEW i \in DOMAIN queue'[q]
        PROVE  \E x : x = queue'[q][i] /\ Expected(x)'
    BY <1>3, <1>4, <2>1, <2>2, JobTypes DEF JobsInStep
  <2>3. ASSUME NEW t \in AllThreads PROVE \E x : x = job'[t] /\ Expected(x)'
    BY <1>4, <2>1, JobTypes DEF JobsInStep
  <2>4. QED
    BY <2>2, <2>3 DEF JobsInStep, Expected
<1>6. OneJob'
  <2>1. ASSUME NEW q \in Pools, NEW r \in Pools, NEW i \in DOMAIN queue'[q], NEW k \in DOMAIN queue'[r],
               queue'[q][i].by = queue'[r][k].by, queue'[q][i].by # Nobody
        PROVE  q = r /\ i = k
    <3>1. CASE i \in DOMAIN queue[q] /\ queue'[q][i] = queue[q][i]
      <4>1. k \in DOMAIN queue[r] /\ queue'[r][k] = queue[r][k]
        BY <2>1, <3>1, <1>3, <1>4
      <4>2. QED
        BY <2>1, <3>1, <4>1 DEF OneJob
    <3>2. CASE q = p /\ i = Len(queue[p]) + 1 /\ queue'[q][i] = j
      BY <2>1, <3>2, <1>3, <1>4
    <3>3. QED
      BY <3>1, <3>2, <1>3
  <2>2. ASSUME NEW q \in Pools, NEW i \in DOMAIN queue'[q], NEW t \in AllThreads,
               queue'[q][i].by = job'[t].by
        PROVE  job'[t].by = Nobody
    BY <2>2, <1>3, <1>4 DEF OneJob
  <2>3. QED
    BY <2>1, <2>2 DEF OneJob
<1>7. QED
  BY <1>2, <1>5, <1>6

(* A thread ends its job, of nobody or of a coroutine that goes on. *)
LEMMA Freed ==
    ASSUME TypeOK, JobsInStep, OneJob, NEW t \in AllThreads,
           job' = [job EXCEPT ![t] = Free], UNCHANGED queue,
           \A c \in Callers : c # job[t].by => pc'[c] = pc[c]
    PROVE  job' \in [AllThreads -> Jobs \cup {Free}] /\ JobsInStep' /\ OneJob'
<1>1. /\ job' \in [AllThreads -> Jobs \cup {Free}]
      /\ job'[t] = Free /\ Free.by = Nobody
      /\ \A u \in AllThreads : u # t => job'[u] = job[u]
  BY DEF TypeOK, Free
<1>2. JobsInStep'
  <2>1. ASSUME NEW x, Expected(x), x.by \in Callers \cup {Nobody},
               x.by # job[t].by \/ x.by = Nobody
        PROVE  Expected(x)'
    BY <2>1 DEF Expected
  <2>2. ASSUME NEW p \in Pools, NEW i \in DOMAIN queue'[p]
        PROVE  \E x : x = queue'[p][i] /\ Expected(x)'
    BY <2>1, JobTypes DEF JobsInStep, OneJob
  <2>3. ASSUME NEW u \in AllThreads PROVE \E x : x = job'[u] /\ Expected(x)'
    <3>1. CASE u = t
      BY <1>1, <3>1 DEF Expected
    <3>2. CASE u # t
      BY <1>1, <2>1, <3>2, JobTypes DEF JobsInStep, OneJob
    <3>3. QED
      BY <3>1, <3>2
  <2>4. QED
    BY <2>2, <2>3 DEF JobsInStep, Expected
<1>3. OneJob'
  BY <1>1 DEF OneJob
<1>4. QED
  BY <1>1, <1>2, <1>3

(* The slots, counted. *)
LEMMA Counted == TypeOK => IsFiniteSet(Holders) /\ Cardinality(Holders) \in Nat
<1>1. Holders \subseteq Callers
  BY DEF Holders
<1>2. QED
  BY <1>1, Constants, FS_Subset, FS_CardinalityType

(* The counters after a step that changes the holders as it changes the slots. *)
LEMMA Balanced ==
    ASSUME CoordinatorInv, active' \in Int, lost' \in Int, lost' >= lost, active' <= Capacity,
           NEW c,
           \/ Holders' = Holders /\ active' - lost' = active - lost
           \/ Holders' = Holders \cup {c} /\ c \notin Holders /\ active' - lost' = active - lost + 1
           \/ Holders' = Holders \ {c} /\ c \in Holders /\ active' - lost' = active - lost - 1
    PROVE  SlotsAccounted' /\ active' \in 0 .. Capacity /\ lost' \in 0 .. Capacity
<1>1. /\ IsFiniteSet(Holders) /\ Cardinality(Holders) \in Nat
      /\ active = Cardinality(Holders) + lost /\ active \in 0 .. Capacity /\ lost \in 0 .. Capacity
  BY Counted DEF CoordinatorInv, SlotsAccounted, TypeOK
<1>2. active' = Cardinality(Holders') + lost' /\ Cardinality(Holders') \in Nat
  <2>1. CASE Holders' = Holders /\ active' - lost' = active - lost
    BY <1>1, <2>1
  <2>2. CASE Holders' = Holders \cup {c} /\ c \notin Holders /\ active' - lost' = active - lost + 1
    <3>1. Cardinality(Holders \cup {c}) = Cardinality(Holders) + 1
      BY <1>1, <2>2, FS_AddElement
    <3>2. QED
      BY <1>1, <2>2, <3>1
  <2>3. CASE Holders' = Holders \ {c} /\ c \in Holders /\ active' - lost' = active - lost - 1
    <3>1. IsFiniteSet(Holders \ {c}) /\ Cardinality(Holders \ {c}) = Cardinality(Holders) - 1
      BY <1>1, <2>3, FS_RemoveElement
    <3>2. Cardinality(Holders \ {c}) \in Nat
      BY <3>1, FS_CardinalityType
    <3>3. QED
      BY <1>1, <2>3, <3>1, <3>2
  <2>4. QED
    BY <2>1, <2>2, <2>3
<1>3. QED
  BY <1>1, <1>2, Constants DEF SlotsAccounted

-----------------------------------------------------------------------------
Places == {"idle", "acquire", "entered", "request", "answered", "outside"}
Steady == UNCHANGED <<active, lost>>

(* A move between places that hold no slot, or that all hold one. *)
LEMMA SameHolders ==
    ASSUME TypeOK, NEW c \in Callers, NEW to, Move(c, to),
           pc[c] \in {"entered", "request", "answered"} <=> to \in {"entered", "request", "answered"}
    PROVE  Holders' = Holders
BY DEF TypeOK, Move, Holders

LEMMA MoveType ==
    ASSUME TypeOK, NEW c \in Callers, NEW to \in Places, Move(c, to)
    PROVE  /\ pc' \in [Callers -> Places] /\ pc'[c] = to
           /\ \A d \in Callers : d # c => pc'[d] = pc[d]
BY DEF TypeOK, Move, Places

LEMMA StartHelperStep == ASSUME CoordinatorInv, StartHelper PROVE CoordinatorInv'
<1>1. HelperJob \in Jobs /\ HelperJob.by = Nobody
  BY Constants DEF HelperJob, Job, Jobs
<1>2. "main" \in Pools /\ Submit("main", HelperJob) /\ UNCHANGED <<pc, left, job, active, lost>>
  BY DEF Pools, StartHelper
<1>3. Expected(HelperJob)'
  BY DEF Expected, HelperJob, Job
<1>4. queue' \in [Pools -> Seq(Jobs)] /\ JobsInStep' /\ OneJob'
  BY <1>1, <1>2, <1>3, Submitted DEF CoordinatorInv
<1>5. SlotsAccounted'
  BY <1>2 DEF CoordinatorInv, SlotsAccounted, Holders
<1>6. QED
  BY <1>2, <1>4, <1>5 DEF CoordinatorInv, TypeOK

(* A coroutine submits a job that it waits for, and keeps what it holds. *)
LEMMA AskStep ==
    ASSUME CoordinatorInv, NEW c \in Callers, NEW to \in Places, Move(c, to),
           NEW rank \in Ranks, NEW op \in {"acquire", "request"},
           Submit(PoolOf(c), Job(op, c, rank)),
           \/ pc[c] = "idle" /\ to \in {"acquire", "outside"}
           \/ pc[c] \in {"entered", "answered"} /\ to = "request",
           op = "acquire" <=> to = "acquire",
           left' \in [Callers -> 0 .. MaxRequests], UNCHANGED <<job, active, lost>>
    PROVE  CoordinatorInv'
<1>1. /\ Job(op, c, rank) \in Jobs
      /\ Job(op, c, rank).by = c /\ Job(op, c, rank).op = op
  BY DEF Job, Jobs
<1>2. /\ pc' \in [Callers -> Places] /\ pc'[c] = to
      /\ \A d \in Callers : d # c => pc'[d] = pc[d]
  BY MoveType DEF CoordinatorInv
<1>3. Expected(Job(op, c, rank))'
  BY <1>2 DEF Expected, Job
<1>4. PoolOf(c) \in Pools
  BY Pooled
<1>5. queue' \in [Pools -> Seq(Jobs)] /\ JobsInStep' /\ OneJob'
  BY <1>1, <1>2, <1>3, <1>4, Submitted DEF CoordinatorInv
<1>6. Holders' = Holders
  BY SameHolders DEF CoordinatorInv
<1>7. QED
  BY <1>2, <1>5, <1>6 DEF CoordinatorInv, TypeOK, SlotsAccounted, Places

LEMMA CallStep == ASSUME CoordinatorInv, NEW c \in Callers, NEW rank \in Ranks, Call(c, rank)
                  PROVE  CoordinatorInv'
<1>1. pc[c] = "idle" /\ Move(c, "acquire") /\ Submit(PoolOf(c), Job("acquire", c, rank))
      /\ UNCHANGED <<job, active, lost>>
  BY DEF Call, Called
<1>2. PICK n \in 1 .. MaxRequests : left' = [left EXCEPT ![c] = n]
  BY DEF Call
<1>3. left' \in [Callers -> 0 .. MaxRequests]
  BY <1>2, Constants DEF CoordinatorInv, TypeOK
<1>4. QED
  BY <1>1, <1>3, AskStep DEF Places

LEMMA CallOutsideStep == ASSUME CoordinatorInv, NEW c \in Callers, CallOutside(c)
                         PROVE  CoordinatorInv'
<1>1. pc[c] = "idle" /\ Move(c, "outside") /\ Submit(PoolOf(c), Job("request", c, 0))
      /\ UNCHANGED <<left, job, active, lost>>
  BY DEF CallOutside, Called
<1>2. left' \in [Callers -> 0 .. MaxRequests]
  BY <1>1 DEF CoordinatorInv, TypeOK
<1>3. QED
  BY <1>1, <1>2, Constants, AskStep DEF Places

LEMMA RequestStep == ASSUME CoordinatorInv, NEW c \in Callers, Request(c)
                     PROVE  CoordinatorInv'
<1>1. /\ pc[c] \in {"entered", "answered"} /\ Move(c, "request")
      /\ Submit(PoolOf(c), Job("request", c, 0))
      /\ UNCHANGED <<job, active, lost>>
  BY DEF Request
<1>2. left' \in [Callers -> 0 .. MaxRequests]
  <2>1. left \in [Callers -> 0 .. MaxRequests] /\ left[c] > 0
    BY DEF CoordinatorInv, TypeOK, Request
  <2>2. left[c] - 1 \in 0 .. MaxRequests
    BY <2>1, Constants
  <2>3. left' = [left EXCEPT ![c] = left[c] - 1]
    BY DEF Request
  <2>4. QED
    BY <2>1, <2>2, <2>3
<1>3. QED
  BY <1>1, <1>2, Constants, AskStep DEF Places

(* The slot is given back by the coroutine that holds it. *)
LEMMA ReleaseStep == ASSUME CoordinatorInv, NEW c \in Callers, Release(c)
                     PROVE  CoordinatorInv'
<1>1. /\ pc[c] = "answered" /\ Move(c, "idle") /\ active' = active - 1
      /\ UNCHANGED <<left, queue, job, lost>>
  BY DEF Release
<1>2. /\ pc' \in [Callers -> Places] /\ pc'[c] = "idle"
      /\ \A d \in Callers : d # c => pc'[d] = pc[d]
  BY <1>1, MoveType DEF CoordinatorInv, Places
<1>3. Holders' = Holders \ {c} /\ c \in Holders
  BY <1>1, <1>2 DEF Holders
<1>4. active \in 0 .. Capacity /\ lost \in 0 .. Capacity
  BY DEF CoordinatorInv, TypeOK
<1>5. SlotsAccounted' /\ active' \in 0 .. Capacity /\ lost' \in 0 .. Capacity
  BY <1>1, <1>3, <1>4, Constants, Balanced
<1>6. JobsInStep'
  <2>1. /\ \A p \in Pools : \A i \in DOMAIN queue[p] : queue[p][i].by # c
        /\ \A t \in AllThreads : job[t].by # c
    BY <1>1, NoJob DEF CoordinatorInv
  <2>2. QED
    BY <2>1, <1>1, <1>2, JobTypes DEF CoordinatorInv, JobsInStep, Expected
<1>7. OneJob'
  BY <1>1 DEF CoordinatorInv, OneJob
<1>8. QED
  BY <1>1, <1>2, <1>5, <1>6, <1>7 DEF CoordinatorInv, TypeOK, Places

(* What remains of a queue whose only job of a coroutine was removed. *)
LEMMA Removed ==
    ASSUME NEW S, NEW s \in Seq(S), NEW k \in DOMAIN s
    PROVE  /\ RemovedAt(s, k) \in Seq(S)
           /\ \A i \in DOMAIN RemovedAt(s, k) :
                 /\ IF i < k THEN i \in DOMAIN s ELSE i + 1 \in DOMAIN s
                 /\ RemovedAt(s, k)[i] = IF i < k THEN s[i] ELSE s[i + 1]
           /\ DOMAIN RemovedAt(s, k) \subseteq Nat
<1>1. Len(s) \in Nat /\ Len(s) >= 1 /\ DOMAIN s = 1 .. Len(s) /\ k \in 1 .. Len(s)
  OBVIOUS
<1>2. \A i \in 1 .. (Len(s) - 1) : (IF i < k THEN s[i] ELSE s[i + 1]) \in S
  BY <1>1
<1>3. RemovedAt(s, k) \in [1 .. (Len(s) - 1) -> S]
  BY <1>2 DEF RemovedAt
<1>4. Len(s) - 1 \in Nat
  BY <1>1
<1>5. RemovedAt(s, k) \in Seq(S)
  BY <1>3, <1>4, SeqDef
<1>6. QED
  BY <1>1, <1>5 DEF RemovedAt

(* r has the elements of s at different places, each once. *)
Subsequence(r, s) ==
    \E old \in [DOMAIN r -> DOMAIN s] :
        /\ \A i, k \in DOMAIN r : old[i] = old[k] => i = k
        /\ \A i \in DOMAIN r : r[i] = s[old[i]]

LEMMA WithoutJob ==
    ASSUME NEW s \in Seq(Jobs), NEW c,
           \A i, k \in DOMAIN s : s[i].by = c /\ s[k].by = c => i = k
    PROVE  /\ WithoutJobOf(s, c) \in Seq(Jobs)
           /\ Subsequence(WithoutJobOf(s, c), s)
           /\ \A i \in DOMAIN WithoutJobOf(s, c) : WithoutJobOf(s, c)[i].by # c
<1>1. CASE \E k \in DOMAIN s : s[k].by = c
  <2> DEFINE n == CHOOSE k \in DOMAIN s : s[k].by = c
             rest == RemovedAt(s, n)
  <2>1. n \in DOMAIN s /\ s[n].by = c /\ WithoutJobOf(s, c) = rest
    BY <1>1 DEF WithoutJobOf
  <2> HIDE DEF n
  <2>2. /\ rest \in Seq(Jobs) /\ DOMAIN rest \subseteq Nat
        /\ \A i \in DOMAIN rest :
              /\ IF i < n THEN i \in DOMAIN s ELSE i + 1 \in DOMAIN s
              /\ rest[i] = IF i < n THEN s[i] ELSE s[i + 1]
    BY <2>1, Removed
  <2> HIDE DEF rest
  <2> DEFINE old == [i \in DOMAIN rest |-> IF i < n THEN i ELSE i + 1]
  <2>3. DOMAIN s \subseteq Nat
    OBVIOUS
  <2>4. old \in [DOMAIN rest -> DOMAIN s]
    BY <2>2
  <2>5. ASSUME NEW i \in DOMAIN rest PROVE rest[i] = s[old[i]] /\ old[i] # n /\ old[i] \in DOMAIN s
    BY <2>1, <2>2, <2>3
  <2>6. ASSUME NEW i \in DOMAIN rest, NEW k \in DOMAIN rest, old[i] = old[k] PROVE i = k
    BY <2>1, <2>2, <2>3, <2>6
  <2>7. \A i \in DOMAIN rest : rest[i].by # c
    BY <2>1, <2>5
  <2> HIDE DEF old
  <2>8. Subsequence(rest, s)
    BY <2>4, <2>5, <2>6 DEF Subsequence
  <2>9. QED
    BY <2>1, <2>2, <2>7, <2>8
<1>2. CASE ~\E k \in DOMAIN s : s[k].by = c
  <2>1. WithoutJobOf(s, c) = s
    BY <1>2 DEF WithoutJobOf
  <2> DEFINE old == [i \in DOMAIN s |-> i]
  <2>2. old \in [DOMAIN s -> DOMAIN s] /\ \A i \in DOMAIN s : old[i] = i
    OBVIOUS
  <2>3. Subsequence(s, s)
    BY <2>2 DEF Subsequence
  <2>4. QED
    BY <2>1, <2>3, <1>2
<1>3. QED
  BY <1>1, <1>2

(* A cancelled coroutine leaves a thread that works for nobody at most. *)
LEMMA CancelJobs == ASSUME CoordinatorInv, NEW c \in Callers, Cancel(c)
                    PROVE  /\ queue' \in [Pools -> Seq(Jobs)]
                           /\ job' \in [AllThreads -> Jobs \cup {Free}]
                           /\ JobsInStep' /\ OneJob'
<1>1. /\ pc' = [pc EXCEPT ![c] = "idle"]
      /\ queue' = [p \in Pools |-> WithoutJobOf(queue[p], c)]
      /\ job' = [t \in AllThreads |->
                    IF job[t].by = c THEN [job[t] EXCEPT !.by = Nobody] ELSE job[t]]
  BY DEF Cancel, Move
<1>2. \A d \in Callers : d # c => pc'[d] = pc[d]
  BY <1>1 DEF CoordinatorInv, TypeOK
<1>3. ASSUME NEW p \in Pools
      PROVE  /\ queue'[p] \in Seq(Jobs)
             /\ Subsequence(queue'[p], queue[p])
             /\ \A i \in DOMAIN queue'[p] : queue'[p][i].by # c
  <2>1. queue[p] \in Seq(Jobs)
    BY DEF CoordinatorInv, TypeOK
  <2>2. \A i, k \in DOMAIN queue[p] : queue[p][i].by = c /\ queue[p][k].by = c => i = k
    BY Constants DEF CoordinatorInv, OneJob
  <2>3. queue'[p] = WithoutJobOf(queue[p], c)
    BY <1>1
  <2>4. QED
    BY <2>1, <2>2, <2>3, WithoutJob
<1>4. queue' \in [Pools -> Seq(Jobs)]
  BY <1>1, <1>3
<1>5. ASSUME NEW t \in AllThreads
      PROVE  /\ job'[t] \in Jobs \cup {Free}
             /\ job'[t].by = IF job[t].by = c THEN Nobody ELSE job[t].by
             /\ job[t].by # c => job'[t] = job[t]
  <2>1. job[t] \in Jobs \cup {Free}
    BY DEF CoordinatorInv, TypeOK
  <2>2. job[t].by # c => job'[t] = job[t]
    BY <1>1
  <2>3. CASE job[t].by = c
    <3>1. job[t] \in Jobs
      BY <2>1, <2>3, Constants DEF Free
    <3>2. [job[t] EXCEPT !.by = Nobody] \in Jobs /\ [job[t] EXCEPT !.by = Nobody].by = Nobody
      BY <3>1 DEF Jobs
    <3>3. QED
      BY <2>3, <3>2, <1>1
  <2>4. QED
    BY <2>1, <2>2, <2>3
<1>6. job' \in [AllThreads -> Jobs \cup {Free}]
  BY <1>1, <1>5
<1>7. ASSUME NEW x, Expected(x), x.by \in Callers \cup {Nobody}, x.by # c
      PROVE  Expected(x)'
  BY <1>2, <1>7 DEF Expected
<1>8. JobsInStep'
  <2>1. ASSUME NEW p \in Pools, NEW i \in DOMAIN queue'[p]
        PROVE  \E x : x = queue'[p][i] /\ Expected(x)'
    <3>1. PICK k \in DOMAIN queue[p] : queue'[p][i] = queue[p][k] /\ queue[p][k].by # c
      BY <1>3 DEF Subsequence
    <3>2. QED
      BY <3>1, <1>7, JobTypes DEF CoordinatorInv, JobsInStep
  <2>2. ASSUME NEW t \in AllThreads PROVE \E x : x = job'[t] /\ Expected(x)'
    <3>1. CASE job[t].by = c
      BY <3>1, <1>5 DEF Expected
    <3>2. CASE job[t].by # c
      BY <3>2, <1>5, <1>7, JobTypes DEF CoordinatorInv, JobsInStep
    <3>3. QED
      BY <3>1, <3>2
  <2>3. QED
    BY <2>1, <2>2 DEF JobsInStep, Expected
<1>9. OneJob'
  <2>1. ASSUME NEW p \in Pools, NEW q \in Pools, NEW i \in DOMAIN queue'[p], NEW k \in DOMAIN queue'[q],
               queue'[p][i].by = queue'[q][k].by, queue'[p][i].by # Nobody
        PROVE  p = q /\ i = k
    <3>1. PICK f \in [DOMAIN queue'[p] -> DOMAIN queue[p]] :
             /\ \A m, n \in DOMAIN queue'[p] : f[m] = f[n] => m = n
             /\ \A m \in DOMAIN queue'[p] : queue'[p][m] = queue[p][f[m]]
      BY <1>3 DEF Subsequence
    <3>2. PICK g \in [DOMAIN queue'[q] -> DOMAIN queue[q]] :
             \A m \in DOMAIN queue'[q] : queue'[q][m] = queue[q][g[m]]
      BY <1>3 DEF Subsequence
    <3>3. p = q
      BY <2>1, <3>1, <3>2 DEF CoordinatorInv, OneJob
    <3>4. queue'[q][k] = queue[p][f[k]]
      BY <3>1, <3>3
    <3>5. f[i] = f[k]
      BY <2>1, <3>1, <3>3, <3>4 DEF CoordinatorInv, OneJob
    <3>6. QED
      BY <3>1, <3>3, <3>5
  <2>2. ASSUME NEW t \in AllThreads, NEW u \in AllThreads, job'[t].by = job'[u].by, job'[t].by # Nobody
        PROVE  t = u
    BY <2>2, <1>5 DEF CoordinatorInv, OneJob
  <2>3. ASSUME NEW p \in Pools, NEW i \in DOMAIN queue'[p], NEW t \in AllThreads,
               queue'[p][i].by = job'[t].by
        PROVE  job'[t].by = Nobody
    <3>1. PICK k \in DOMAIN queue[p] : queue'[p][i] = queue[p][k]
      BY <1>3 DEF Subsequence
    <3>2. QED
      BY <2>3, <3>1, <1>5 DEF CoordinatorInv, OneJob
  <2>4. QED
    BY <2>1, <2>2, <2>3 DEF OneJob
<1>10. QED
  BY <1>4, <1>6, <1>8, <1>9

(* A cancelled coroutine gives its slot back if it is in the try, and loses it
   if it has been granted one and is not. *)
LEMMA CancelStep == ASSUME CoordinatorInv, NEW c \in Callers, Cancel(c)
                    PROVE  CoordinatorInv'
<1>1. /\ Move(c, "idle") /\ left' = [left EXCEPT ![c] = 0]
      /\ active' = IF InTry(c) THEN active - 1 ELSE active
      /\ lost' = IF pc[c] = "entered" THEN lost + 1 ELSE lost
  BY DEF Cancel
<1>2. queue' \in [Pools -> Seq(Jobs)] /\ job' \in [AllThreads -> Jobs \cup {Free}]
      /\ JobsInStep' /\ OneJob'
  BY CancelJobs
<1>3. /\ pc' \in [Callers -> Places] /\ pc'[c] = "idle"
      /\ \A d \in Callers : d # c => pc'[d] = pc[d]
  BY <1>1, MoveType DEF CoordinatorInv, Places
<1>4. active \in 0 .. Capacity /\ lost \in 0 .. Capacity
      /\ left' \in [Callers -> 0 .. MaxRequests]
  BY <1>1, Constants DEF CoordinatorInv, TypeOK
<1>5. IF pc[c] \in {"entered", "request", "answered"}
      THEN Holders' = Holders \ {c} /\ c \in Holders
      ELSE Holders' = Holders
  BY <1>3 DEF Holders
<1>6. active' - lost' = IF pc[c] \in {"entered", "request", "answered"}
                        THEN active - lost - 1 ELSE active - lost
  BY <1>1, <1>4 DEF InTry
<1>7. SlotsAccounted' /\ active' \in 0 .. Capacity /\ lost' \in 0 .. Capacity
  <2>1. active' \in Int /\ lost' \in Int /\ lost' >= lost /\ active' <= Capacity
    BY <1>1, <1>4, Constants
  <2>2. QED
    BY <1>5, <1>6, <2>1, Balanced
<1>8. QED
  BY <1>2, <1>3, <1>4, <1>7 DEF CoordinatorInv, TypeOK, Places

(* A thread takes the job at the front of its pool's queue. *)
LEMMA StartStep == ASSUME CoordinatorInv, NEW t \in AllThreads, Start(t)
                   PROVE  CoordinatorInv'
<1>1. PICK p \in Pools : p = PoolOfThread(t)
  BY Pooled
<1>2. /\ job[t] = Free /\ queue[p] # <<>>
      /\ job' = [job EXCEPT ![t] = Head(queue[p])]
      /\ queue' = [queue EXCEPT ![p] = Tail(queue[p])]
      /\ UNCHANGED <<pc, left, active, lost>>
  BY <1>1 DEF Start
<1>3. /\ queue \in [Pools -> Seq(Jobs)] /\ job \in [AllThreads -> Jobs \cup {Free}]
      /\ queue[p] \in Seq(Jobs)
  BY DEF CoordinatorInv, TypeOK
<1>4. /\ Head(queue[p]) = queue[p][1] /\ 1 \in DOMAIN queue[p] /\ Head(queue[p]) \in Jobs
      /\ Tail(queue[p]) \in Seq(Jobs)
      /\ \A i \in DOMAIN Tail(queue[p]) :
            i + 1 \in DOMAIN queue[p] /\ i + 1 # 1 /\ Tail(queue[p])[i] = queue[p][i + 1]
      /\ DOMAIN Tail(queue[p]) \subseteq Nat
  BY <1>2, <1>3
<1>5. /\ job' \in [AllThreads -> Jobs \cup {Free}] /\ job'[t] = queue[p][1]
      /\ \A u \in AllThreads : u # t => job'[u] = job[u]
      /\ queue' \in [Pools -> Seq(Jobs)]
      /\ \A q \in Pools : q # p => queue'[q] = queue[q]
      /\ queue'[p] = Tail(queue[p])
  BY <1>2, <1>3, <1>4
<1>6. ASSUME NEW q \in Pools, NEW i \in DOMAIN queue'[q]
      PROVE  \E k \in DOMAIN queue[q] : queue'[q][i] = queue[q][k] /\ ~(q = p /\ k = 1)
  <2>1. CASE q = p
    <3>1. i \in DOMAIN Tail(queue[p]) /\ queue'[q][i] = Tail(queue[p])[i]
      BY <2>1, <1>5
    <3>2. i + 1 \in DOMAIN queue[q] /\ i + 1 # 1 /\ queue'[q][i] = queue[q][i + 1]
      BY <2>1, <3>1, <1>4
    <3>3. QED
      BY <3>2
  <2>2. CASE q # p
    BY <2>2, <1>5
  <2>3. QED
    BY <2>1, <2>2
<1>7. JobsInStep'
  <2>1. \A x : Expected(x)' <=> Expected(x)
    BY <1>2 DEF Expected
  <2>2. ASSUME NEW q \in Pools, NEW i \in DOMAIN queue'[q] PROVE Expected(queue'[q][i])
    BY <1>6 DEF CoordinatorInv, JobsInStep
  <2>3. ASSUME NEW u \in AllThreads PROVE Expected(job'[u])
    BY <1>4, <1>5 DEF CoordinatorInv, JobsInStep
  <2>4. QED
    BY <2>1, <2>2, <2>3, <1>2 DEF JobsInStep, Expected
<1>8. OneJob'
  <2>1. ASSUME NEW q \in Pools, NEW r \in Pools, NEW i \in DOMAIN queue'[q], NEW k \in DOMAIN queue'[r],
               queue'[q][i].by = queue'[r][k].by, queue'[q][i].by # Nobody
        PROVE  q = r /\ i = k
    <3>1. q = r
      <4>1. PICK m \in DOMAIN queue[q] : queue'[q][i] = queue[q][m]
        BY <1>6
      <4>2. PICK n \in DOMAIN queue[r] : queue'[r][k] = queue[r][n]
        BY <1>6
      <4>3. QED
        BY <2>1, <4>1, <4>2 DEF CoordinatorInv, OneJob
    <3>2. CASE q = p
      <4>1. /\ i + 1 \in DOMAIN queue[p] /\ k + 1 \in DOMAIN queue[p] /\ i \in Nat /\ k \in Nat
            /\ queue'[q][i] = queue[p][i + 1] /\ queue'[r][k] = queue[p][k + 1]
        BY <3>1, <3>2, <1>4, <1>5
      <4>2. i + 1 = k + 1
        BY <2>1, <4>1 DEF CoordinatorInv, OneJob
      <4>3. QED
        BY <3>1, <4>1, <4>2
    <3>3. CASE q # p
      BY <2>1, <3>1, <3>3, <1>5 DEF CoordinatorInv, OneJob
    <3>4. QED
      BY <3>2, <3>3
  <2>2. ASSUME NEW u \in AllThreads, NEW v \in AllThreads, job'[u].by = job'[v].by, job'[u].by # Nobody
        PROVE  u = v
    BY <2>2, <1>4, <1>5 DEF CoordinatorInv, OneJob
  <2>3. ASSUME NEW q \in Pools, NEW i \in DOMAIN queue'[q], NEW u \in AllThreads,
               queue'[q][i].by = job'[u].by
        PROVE  job'[u].by = Nobody
    <3>1. PICK k \in DOMAIN queue[q] : queue'[q][i] = queue[q][k] /\ ~(q = p /\ k = 1)
      BY <1>6
    <3>2. CASE u = t
      <4>1. queue[q][k].by = queue[p][1].by /\ job'[u].by = queue[p][1].by
        BY <2>3, <3>1, <3>2, <1>5
      <4>2. QED
        BY <3>1, <4>1, <1>4 DEF CoordinatorInv, OneJob
    <3>3. CASE u # t
      BY <2>3, <3>1, <3>3, <1>5 DEF CoordinatorInv, OneJob
    <3>4. QED
      BY <3>2, <3>3
  <2>4. QED
    BY <2>1, <2>2, <2>3 DEF OneJob
<1>9. SlotsAccounted'
  BY <1>2 DEF CoordinatorInv, SlotsAccounted, Holders
<1>10. QED
  BY <1>2, <1>5, <1>7, <1>8, <1>9 DEF CoordinatorInv, TypeOK

LEMMA EndHelperStep == ASSUME CoordinatorInv, NEW t \in AllThreads, EndHelper(t)
                       PROVE  CoordinatorInv'
<1>1. job' = [job EXCEPT ![t] = Free] /\ UNCHANGED <<pc, left, queue, active, lost>>
  BY DEF EndHelper
<1>2. job' \in [AllThreads -> Jobs \cup {Free}] /\ JobsInStep' /\ OneJob'
  BY <1>1, Freed DEF CoordinatorInv
<1>3. SlotsAccounted'
  BY <1>1 DEF CoordinatorInv, SlotsAccounted, Holders
<1>4. QED
  BY <1>1, <1>2, <1>3 DEF CoordinatorInv, TypeOK

(* The coroutine a thread works for is the one that waits for this job. *)
LEMMA WorksFor ==
    ASSUME CoordinatorInv, NEW t \in AllThreads, job[t].by # Nobody
    PROVE  /\ job[t].by \in Callers
           /\ job[t].op = "acquire" => pc[job[t].by] = "acquire"
           /\ job[t].op = "request" => pc[job[t].by] \in {"request", "outside"}
BY JobTypes DEF CoordinatorInv, JobsInStep, Expected

(* A slot is granted, to the coroutine or, when it was cancelled, to nobody. *)
LEMMA EnterStep == ASSUME CoordinatorInv, NEW t \in AllThreads, Enter(t)
                   PROVE  CoordinatorInv'
<1>1. /\ job[t].op = "acquire" /\ active < Capacity /\ active' = active + 1
      /\ job' = [job EXCEPT ![t] = Free] /\ UNCHANGED <<left, queue>>
  BY DEF Enter, Waiting, MayEnter
<1>2. active \in 0 .. Capacity /\ lost \in 0 .. Capacity /\ pc \in [Callers -> Places]
  BY DEF CoordinatorInv, TypeOK, Places
<1>3. active' \in Int /\ active' <= Capacity
  BY <1>1, <1>2, Constants
<1>4. CASE job[t].by = Nobody
  <2>1. lost' = lost + 1 /\ pc' = pc
    BY <1>4 DEF Enter
  <2>2. SlotsAccounted' /\ active' \in 0 .. Capacity /\ lost' \in 0 .. Capacity
    <3>1. Holders' = Holders
      BY <2>1 DEF Holders
    <3>2. QED
      BY <2>1, <3>1, <1>1, <1>2, <1>3, Balanced
  <2>3. job' \in [AllThreads -> Jobs \cup {Free}] /\ JobsInStep' /\ OneJob'
    BY <2>1, <1>1, Freed DEF CoordinatorInv
  <2>4. QED
    BY <2>1, <2>2, <2>3, <1>1 DEF CoordinatorInv, TypeOK
<1>5. CASE job[t].by # Nobody
  <2>1. PICK c \in Callers : c = job[t].by /\ pc[c] = "acquire"
    BY <1>1, <1>5, WorksFor
  <2>2. lost' = lost /\ Move(c, "entered")
    BY <1>5, <2>1 DEF Enter
  <2>3. /\ pc' \in [Callers -> Places] /\ pc'[c] = "entered"
        /\ \A d \in Callers : d # c => pc'[d] = pc[d]
    BY <2>2, MoveType DEF CoordinatorInv, Places
  <2>4. Holders' = Holders \cup {c} /\ c \notin Holders
    BY <2>1, <2>3 DEF Holders
  <2>5. SlotsAccounted' /\ active' \in 0 .. Capacity /\ lost' \in 0 .. Capacity
    BY <2>2, <2>4, <1>1, <1>2, <1>3, Balanced
  <2>6. job' \in [AllThreads -> Jobs \cup {Free}] /\ JobsInStep' /\ OneJob'
    BY <2>1, <2>3, <1>1, Freed DEF CoordinatorInv
  <2>7. QED
    BY <2>3, <2>5, <2>6, <1>1 DEF CoordinatorInv, TypeOK, Places
<1>6. QED
  BY <1>4, <1>5

(* A deadline takes no slot, and its coroutine had none. *)
LEMMA RefuseStep == ASSUME CoordinatorInv, NEW t \in AllThreads, Refuse(t)
                    PROVE  CoordinatorInv'
<1>1. /\ job[t].op = "acquire" /\ job' = [job EXCEPT ![t] = Free]
      /\ UNCHANGED <<queue, active, lost>>
  BY DEF Refuse, Waiting
<1>2. CASE job[t].by = Nobody
  <2>1. UNCHANGED <<pc, left>>
    BY <1>2 DEF Refuse
  <2>2. job' \in [AllThreads -> Jobs \cup {Free}] /\ JobsInStep' /\ OneJob'
    BY <2>1, <1>1, Freed DEF CoordinatorInv
  <2>3. QED
    BY <2>1, <2>2, <1>1 DEF CoordinatorInv, TypeOK, SlotsAccounted, Holders
<1>3. CASE job[t].by # Nobody
  <2>1. PICK c \in Callers : c = job[t].by /\ pc[c] = "acquire"
    BY <1>1, <1>3, WorksFor
  <2>2. Move(c, "idle") /\ left' = [left EXCEPT ![c] = 0]
    BY <1>3, <2>1 DEF Refuse
  <2>3. /\ pc' \in [Callers -> Places] /\ pc'[c] = "idle"
        /\ \A d \in Callers : d # c => pc'[d] = pc[d]
    BY <2>2, MoveType DEF CoordinatorInv, Places
  <2>4. Holders' = Holders
    BY <2>1, <2>3 DEF Holders
  <2>5. job' \in [AllThreads -> Jobs \cup {Free}] /\ JobsInStep' /\ OneJob'
    BY <2>1, <2>3, <1>1, Freed DEF CoordinatorInv
  <2>6. left' \in [Callers -> 0 .. MaxRequests]
    BY <2>2, Constants DEF CoordinatorInv, TypeOK
  <2>7. QED
    BY <2>3, <2>4, <2>5, <2>6, <1>1 DEF CoordinatorInv, TypeOK, SlotsAccounted, Places
<1>4. QED
  BY <1>2, <1>3

(* The end of a request leaves the slot with its coroutine. *)
LEMMA FinishStep == ASSUME CoordinatorInv, NEW t \in AllThreads, Finish(t)
                    PROVE  CoordinatorInv'
<1>1. /\ job[t].op = "request" /\ job' = [job EXCEPT ![t] = Free]
      /\ UNCHANGED <<left, queue, active, lost>>
  BY DEF Finish
<1>2. CASE job[t].by = Nobody
  <2>1. pc' = pc
    BY <1>2 DEF Finish
  <2>2. job' \in [AllThreads -> Jobs \cup {Free}] /\ JobsInStep' /\ OneJob'
    BY <2>1, <1>1, Freed DEF CoordinatorInv
  <2>3. QED
    BY <2>1, <2>2, <1>1 DEF CoordinatorInv, TypeOK, SlotsAccounted, Holders
<1>3. CASE job[t].by # Nobody
  <2>1. PICK c \in Callers : c = job[t].by /\ pc[c] \in {"request", "outside"}
    BY <1>1, <1>3, WorksFor
  <2>2. PICK to \in Places : /\ Move(c, to)
                             /\ to = IF pc[c] = "outside" THEN "idle" ELSE "answered"
    BY <1>3, <2>1 DEF Finish, Answered, Places
  <2>3. /\ pc' \in [Callers -> Places] /\ pc'[c] = to
        /\ \A d \in Callers : d # c => pc'[d] = pc[d]
    BY <2>2, MoveType DEF CoordinatorInv
  <2>4. Holders' = Holders
    BY <2>1, <2>2, <2>3 DEF Holders
  <2>5. job' \in [AllThreads -> Jobs \cup {Free}] /\ JobsInStep' /\ OneJob'
    BY <2>1, <2>3, <1>1, Freed DEF CoordinatorInv
  <2>6. QED
    BY <2>3, <2>4, <2>5, <1>1 DEF CoordinatorInv, TypeOK, SlotsAccounted, Places
<1>4. QED
  BY <1>2, <1>3

-----------------------------------------------------------------------------
LEMMA InitInv == Init => CoordinatorInv
<1> SUFFICES ASSUME Init PROVE CoordinatorInv
  OBVIOUS
<1>1. TypeOK
  BY Constants DEF Init, TypeOK
<1>2. JobsInStep /\ OneJob
  BY DEF Init, JobsInStep, OneJob, Expected, Free
<1>3. Holders = {}
  BY DEF Init, Holders
<1>4. SlotsAccounted
  BY <1>3, FS_EmptySet DEF Init, SlotsAccounted
<1>5. QED
  BY <1>1, <1>2, <1>4 DEF CoordinatorInv

LEMMA StepInv == CoordinatorInv /\ [Next]_vars => CoordinatorInv'
<1> SUFFICES ASSUME CoordinatorInv, [Next]_vars PROVE CoordinatorInv'
  OBVIOUS
<1>1. CASE StartHelper
  BY <1>1, StartHelperStep
<1>2. ASSUME NEW c \in Callers, NEW rank \in Ranks, Call(c, rank) PROVE CoordinatorInv'
  BY <1>2, CallStep
<1>3. ASSUME NEW c \in Callers, CallOutside(c) \/ Coroutine(c) \/ Cancel(c) PROVE CoordinatorInv'
  BY <1>3, CallOutsideStep, RequestStep, ReleaseStep, CancelStep DEF Coroutine
<1>4. ASSUME NEW t \in AllThreads, Thread(t) \/ EndHelper(t) PROVE CoordinatorInv'
  BY <1>4, StartStep, EnterStep, RefuseStep, FinishStep, EndHelperStep DEF Thread
<1>5. CASE UNCHANGED vars
  BY <1>5 DEF vars, CoordinatorInv, TypeOK, JobsInStep, OneJob, Expected, SlotsAccounted, Holders
<1>6. QED
  BY <1>1, <1>2, <1>3, <1>4, <1>5 DEF Next

(* The inductive invariant: who waits for which job, once, and the slots. *)
THEOREM Invariance == Spec => []CoordinatorInv
BY InitInv, StepInv, PTL DEF Spec

(* The type invariant: the slots in use never exceed the capacity of the gate;
   WalmartRequestCoordinator.acquire and release. *)
THEOREM TypeCorrect == Spec => []TypeOK
<1>1. CoordinatorInv => TypeOK
  BY DEF CoordinatorInv
<1>2. QED
  BY <1>1, Invariance, PTL

(* Every slot in use is that of a coroutine that has it, or was granted to one
   that had been cancelled: no deadline, no error, no cancellation in the body
   loses a slot or gives one back twice; walmart_request_slot. *)
THEOREM SlotsAreAccounted == Spec => []SlotsAccounted
<1>1. CoordinatorInv => SlotsAccounted
  BY DEF CoordinatorInv
<1>2. QED
  BY <1>1, Invariance, PTL
-----------------------------------------------------------------------------
(* Who waits is waited upon: a coroutine that waits for a job has it in the
   queue of its own loop's pool, or on one of that pool's threads. *)
Waits(c) == pc[c] \in {"acquire", "request", "outside"}
QueuedFor(c) == \E i \in DOMAIN queue[PoolOf(c)] : queue[PoolOf(c)][i].by = c
RunFor(c) == \E t \in AllThreads : PoolOfThread(t) = PoolOf(c) /\ job[t].by = c
WaitersServed == \A c \in Callers : Waits(c) => QueuedFor(c) \/ RunFor(c)

(* A helper loop holds a thread of the bot's pool; without it none of its
   coroutines is under way, and none of its own threads works. *)
LoopJobs == {t \in Threads : job[t].op = "loop"}
HelperHolds ==
    ~Helping => /\ \A c \in Inner : pc[c] = "idle"
                /\ \A t \in InnerThreads : job[t] = Free
                /\ queue["inner"] = <<>>
InnerQueue == \A i \in DOMAIN queue["inner"] : queue["inner"][i].by \in Inner

-----------------------------------------------------------------------------
(* A submitted job leaves those before it in their queues. *)
LEMMA SubmitServed ==
    ASSUME CoordinatorInv, WaitersServed, NEW p \in Pools, NEW j, Submit(p, j), UNCHANGED job,
           \A d \in Callers : Waits(d)' => Waits(d) \/ (p = PoolOf(d) /\ j.by = d)
    PROVE  WaitersServed'
<1>1. queue \in [Pools -> Seq(Jobs)] /\ queue[p] \in Seq(Jobs)
  BY DEF CoordinatorInv, TypeOK
<1>2. /\ queue'[p] = Append(queue[p], j)
      /\ \A q \in Pools : q # p => queue'[q] = queue[q]
  BY <1>1 DEF Submit
<1>3. /\ \A i \in DOMAIN queue[p] : i \in DOMAIN queue'[p] /\ queue'[p][i] = queue[p][i]
      /\ \E i \in DOMAIN queue'[p] : queue'[p][i] = j
  <2>1. /\ Len(queue[p]) \in Nat /\ DOMAIN queue[p] = 1 .. Len(queue[p])
        /\ DOMAIN Append(queue[p], j) = 1 .. (Len(queue[p]) + 1)
        /\ \A i \in 1 .. Len(queue[p]) : Append(queue[p], j)[i] = queue[p][i]
        /\ Append(queue[p], j)[Len(queue[p]) + 1] = j
    BY <1>1
  <2>2. Len(queue[p]) + 1 \in DOMAIN queue'[p] /\ queue'[p][Len(queue[p]) + 1] = j
    BY <2>1, <1>2
  <2>3. QED
    BY <2>1, <2>2, <1>2
<1>4. ASSUME NEW d \in Callers, Waits(d)' PROVE QueuedFor(d)' \/ RunFor(d)'
  <2>1. PoolOf(d) \in Pools
    BY Pooled
  <2>2. CASE p = PoolOf(d) /\ j.by = d
    BY <2>2, <1>3 DEF QueuedFor
  <2>3. CASE QueuedFor(d)
    BY <2>1, <2>3, <1>2, <1>3 DEF QueuedFor
  <2>4. CASE RunFor(d)
    BY <2>4 DEF RunFor
  <2>5. QED
    BY <2>2, <2>3, <2>4, <1>4 DEF WaitersServed
<1>5. QED
  BY <1>4 DEF WaitersServed

(* A thread that ends its job leaves the others theirs. *)
LEMMA FreedServed ==
    ASSUME CoordinatorInv, WaitersServed, NEW t \in AllThreads,
           job' = [job EXCEPT ![t] = Free], UNCHANGED queue,
           \A d \in Callers : Waits(d)' => Waits(d) /\ job[t].by # d
    PROVE  WaitersServed'
<1>1. \A u \in AllThreads : u # t => job'[u] = job[u]
  BY DEF CoordinatorInv, TypeOK
<1>2. ASSUME NEW d \in Callers, Waits(d)' PROVE QueuedFor(d)' \/ RunFor(d)'
  <2>1. CASE QueuedFor(d)
    BY <2>1 DEF QueuedFor
  <2>2. CASE RunFor(d)
    <3>1. PICK u \in AllThreads : PoolOfThread(u) = PoolOf(d) /\ job[u].by = d
      BY <2>2 DEF RunFor
    <3>2. u # t /\ job'[u] = job[u]
      BY <3>1, <1>1, <1>2
    <3>3. QED
      BY <3>1, <3>2 DEF RunFor
  <2>3. QED
    BY <2>1, <2>2, <1>2 DEF WaitersServed
<1>3. QED
  BY <1>2 DEF WaitersServed

LEMMA StartServed ==
    ASSUME CoordinatorInv, WaitersServed, NEW t \in AllThreads, Start(t)
    PROVE  WaitersServed'
<1>1. PICK p \in Pools : p = PoolOfThread(t)
  BY Pooled
<1>2. /\ job[t] = Free /\ queue[p] # <<>>
      /\ job' = [job EXCEPT ![t] = Head(queue[p])]
      /\ queue' = [queue EXCEPT ![p] = Tail(queue[p])]
      /\ UNCHANGED <<pc, left, active, lost>>
  BY <1>1 DEF Start
<1>3. /\ queue \in [Pools -> Seq(Jobs)] /\ job \in [AllThreads -> Jobs \cup {Free}]
      /\ queue[p] \in Seq(Jobs)
  BY DEF CoordinatorInv, TypeOK
<1>4. /\ job'[t] = queue[p][1] /\ \A u \in AllThreads : u # t => job'[u] = job[u]
      /\ \A q \in Pools : q # p => queue'[q] = queue[q]
      /\ queue'[p] = Tail(queue[p])
  BY <1>2, <1>3
<1>5. ASSUME NEW i \in DOMAIN queue[p], i # 1
      PROVE  i - 1 \in DOMAIN queue'[p] /\ queue'[p][i - 1] = queue[p][i]
  <2>1. /\ Len(queue[p]) \in Nat /\ DOMAIN queue[p] = 1 .. Len(queue[p])
        /\ DOMAIN Tail(queue[p]) = 1 .. (Len(queue[p]) - 1)
        /\ \A k \in 1 .. (Len(queue[p]) - 1) : Tail(queue[p])[k] = queue[p][k + 1]
    BY <1>2, <1>3
  <2>2. i - 1 \in 1 .. (Len(queue[p]) - 1) /\ (i - 1) + 1 = i
    BY <2>1, <1>5
  <2>3. QED
    BY <2>1, <2>2, <1>4
<1>6. ASSUME NEW d \in Callers, Waits(d)' PROVE QueuedFor(d)' \/ RunFor(d)'
  <2>1. PoolOf(d) \in Pools /\ Waits(d)
    BY <1>2, <1>6, Pooled DEF Waits
  <2>2. CASE QueuedFor(d)
    <3>1. PICK i \in DOMAIN queue[PoolOf(d)] : queue[PoolOf(d)][i].by = d
      BY <2>2 DEF QueuedFor
    <3>2. CASE PoolOf(d) # p
      BY <2>1, <3>1, <3>2, <1>4 DEF QueuedFor
    <3>3. CASE PoolOf(d) = p /\ i = 1
      BY <3>1, <3>3, <1>1, <1>4 DEF RunFor
    <3>4. CASE PoolOf(d) = p /\ i # 1
      BY <3>1, <3>4, <1>5 DEF QueuedFor
    <3>5. QED
      BY <3>2, <3>3, <3>4
  <2>3. CASE RunFor(d)
    <3>1. PICK u \in AllThreads : PoolOfThread(u) = PoolOf(d) /\ job[u].by = d
      BY <2>3 DEF RunFor
    <3>2. u # t
      BY <3>1, <1>2, Constants DEF Free
    <3>3. QED
      BY <3>1, <3>2, <1>4 DEF RunFor
  <2>4. QED
    BY <2>1, <2>2, <2>3 DEF WaitersServed
<1>7. QED
  BY <1>6 DEF WaitersServed

(* Only the job of the coroutine is removed. *)
LEMMA OthersKept ==
    ASSUME NEW s \in Seq(Jobs), NEW c, NEW k \in DOMAIN s, s[k].by # c
    PROVE  \E i \in DOMAIN WithoutJobOf(s, c) : WithoutJobOf(s, c)[i] = s[k]
<1>1. CASE \E n \in DOMAIN s : s[n].by = c
  <2> DEFINE n == CHOOSE m \in DOMAIN s : s[m].by = c
  <2>1. n \in DOMAIN s /\ s[n].by = c /\ WithoutJobOf(s, c) = RemovedAt(s, n)
    BY <1>1 DEF WithoutJobOf
  <2> HIDE DEF n
  <2>2. Len(s) \in Nat /\ DOMAIN s = 1 .. Len(s) /\ k # n
    BY <2>1
  <2>3. CASE k < n
    <3>1. k \in 1 .. (Len(s) - 1) /\ RemovedAt(s, n)[k] = s[k]
      BY <2>1, <2>2, <2>3 DEF RemovedAt
    <3>2. QED
      BY <2>1, <3>1 DEF RemovedAt
  <2>4. CASE k > n
    <3>1. k - 1 \in 1 .. (Len(s) - 1) /\ ~(k - 1 < n) /\ (k - 1) + 1 = k
      BY <2>1, <2>2, <2>4
    <3>2. RemovedAt(s, n)[k - 1] = s[k]
      BY <3>1 DEF RemovedAt
    <3>3. QED
      BY <2>1, <3>1, <3>2 DEF RemovedAt
  <2>5. QED
    BY <2>1, <2>2, <2>3, <2>4
<1>2. CASE ~\E n \in DOMAIN s : s[n].by = c
  BY <1>2 DEF WithoutJobOf
<1>3. QED
  BY <1>1, <1>2

LEMMA CancelServed ==
    ASSUME CoordinatorInv, WaitersServed, NEW c \in Callers, Cancel(c)
    PROVE  WaitersServed'
<1>1. /\ pc' = [pc EXCEPT ![c] = "idle"]
      /\ queue' = [p \in Pools |-> WithoutJobOf(queue[p], c)]
      /\ job' = [t \in AllThreads |->
                    IF job[t].by = c THEN [job[t] EXCEPT !.by = Nobody] ELSE job[t]]
  BY DEF Cancel, Move
<1>2. ASSUME NEW d \in Callers, Waits(d)' PROVE QueuedFor(d)' \/ RunFor(d)'
  <2>1. d # c /\ Waits(d) /\ PoolOf(d) \in Pools
    BY <1>1, <1>2, Pooled DEF Waits, CoordinatorInv, TypeOK
  <2>2. CASE QueuedFor(d)
    <3>1. PICK k \in DOMAIN queue[PoolOf(d)] : queue[PoolOf(d)][k].by = d
      BY <2>2 DEF QueuedFor
    <3>2. queue[PoolOf(d)] \in Seq(Jobs) /\ queue'[PoolOf(d)] = WithoutJobOf(queue[PoolOf(d)], c)
      BY <2>1, <1>1 DEF CoordinatorInv, TypeOK
    <3>3. QED
      BY <2>1, <3>1, <3>2, OthersKept DEF QueuedFor
  <2>3. CASE RunFor(d)
    BY <2>1, <2>3, <1>1 DEF RunFor
  <2>4. QED
    BY <2>1, <2>2, <2>3 DEF WaitersServed
<1>3. QED
  BY <1>2 DEF WaitersServed

(* No coroutine waits for a job that nobody has. *)
LEMMA ServedStep == CoordinatorInv /\ WaitersServed /\ [Next]_vars => WaitersServed'
<1> SUFFICES ASSUME CoordinatorInv, WaitersServed, [Next]_vars PROVE WaitersServed'
  OBVIOUS
<1>0. pc \in [Callers -> Places]
  BY DEF CoordinatorInv, TypeOK, Places
<1>1. CASE StartHelper
  <2>1. "main" \in Pools /\ Submit("main", HelperJob) /\ UNCHANGED <<pc, job>>
    BY <1>1 DEF StartHelper, Pools
  <2>2. \A d \in Callers : Waits(d)' => Waits(d)
    BY <2>1 DEF Waits
  <2>3. QED
    BY <2>1, <2>2, SubmitServed
<1>2. ASSUME NEW c \in Callers, NEW to \in Places, Move(c, to),
             NEW j, j.by = c, Submit(PoolOf(c), j), UNCHANGED job
      PROVE  WaitersServed'
  <2>1. \A d \in Callers : d # c => pc'[d] = pc[d]
    BY <1>0, <1>2 DEF Move
  <2>2. \A d \in Callers : Waits(d)' => Waits(d) \/ (PoolOf(c) = PoolOf(d) /\ j.by = d)
    BY <2>1, <1>2 DEF Waits
  <2>3. QED
    BY <2>2, <1>2, Pooled, SubmitServed
<1>3. ASSUME NEW c \in Callers, NEW rank \in Ranks, Call(c, rank) PROVE WaitersServed'
  BY <1>2, <1>3 DEF Call, Job, Places
<1>4. ASSUME NEW c \in Callers, CallOutside(c) \/ Request(c) PROVE WaitersServed'
  BY <1>2, <1>4 DEF CallOutside, Request, Job, Places
<1>5. ASSUME NEW c \in Callers, Release(c) PROVE WaitersServed'
  <2>1. pc' = [pc EXCEPT ![c] = "idle"] /\ UNCHANGED <<queue, job>>
    BY <1>5 DEF Release, Move
  <2>2. \A d \in Callers : Waits(d)' => Waits(d)
    BY <2>1, <1>0 DEF Waits
  <2>3. QED
    BY <2>1, <2>2 DEF WaitersServed, QueuedFor, RunFor
<1>6. ASSUME NEW c \in Callers, Cancel(c) PROVE WaitersServed'
  BY <1>6, CancelServed
<1>7. ASSUME NEW t \in AllThreads, Start(t) PROVE WaitersServed'
  BY <1>7, StartServed
<1>8. ASSUME NEW t \in AllThreads, NEW to \in {"entered", "idle", "answered"},
             job' = [job EXCEPT ![t] = Free], UNCHANGED queue,
             IF job[t].by = Nobody THEN UNCHANGED pc ELSE Move(job[t].by, to)
      PROVE  WaitersServed'
  <2>1. \A d \in Callers : Waits(d)' => Waits(d) /\ job[t].by # d
    <3>1. CASE job[t].by = Nobody
      BY <1>8, <3>1, Constants DEF Waits
    <3>2. CASE job[t].by # Nobody
      BY <1>0, <1>8, <3>2 DEF Waits, Move
    <3>3. QED
      BY <3>1, <3>2
  <2>2. QED
    BY <2>1, <1>8, FreedServed
<1>9. ASSUME NEW t \in AllThreads, Enter(t) PROVE WaitersServed'
  BY <1>8, <1>9 DEF Enter
<1>10. ASSUME NEW t \in AllThreads, Refuse(t) PROVE WaitersServed'
  BY <1>8, <1>10 DEF Refuse
<1>11. ASSUME NEW t \in AllThreads, Finish(t) PROVE WaitersServed'
  <2>1. Answered(job[t].by) \in {"idle", "answered"}
    BY DEF Answered
  <2>2. QED
    BY <2>1, <1>8, <1>11 DEF Finish
<1>12. ASSUME NEW t \in AllThreads, EndHelper(t) PROVE WaitersServed'
  <2>1. job' = [job EXCEPT ![t] = Free] /\ job[t].op = "loop" /\ UNCHANGED <<pc, queue>>
    BY <1>12 DEF EndHelper
  <2>2. job[t].by = Nobody
    BY <2>1 DEF CoordinatorInv, JobsInStep, Expected
  <2>3. QED
    BY <2>1, <2>2, <1>8
<1>13. CASE UNCHANGED vars
  BY <1>13 DEF vars, WaitersServed, Waits, QueuedFor, RunFor
<1>14. QED
  BY <1>1, <1>3, <1>4, <1>5, <1>6, <1>7, <1>9, <1>10, <1>11, <1>12, <1>13
     DEF Next, Coroutine, Thread

(* Every coroutine that waits for a slot or an answer has a job that will bring
   one, in the pool of its own loop; asyncio.to_thread under walmart_request_slot. *)
THEOREM NobodyIsForgotten == Spec => []WaitersServed
<1>1. Init => WaitersServed
  BY DEF Init, WaitersServed, Waits
<1>2. QED
  BY <1>1, ServedStep, Invariance, PTL DEF Spec

-----------------------------------------------------------------------------
HelperInv == InnerQueue /\ HelperHolds

(* The pool of the helper loop is for its own coroutines. *)
LEMMA InnerQueueStep ==
    ASSUME CoordinatorInv, InnerQueue, [Next]_vars
    PROVE  InnerQueue'
<1>1. queue \in [Pools -> Seq(Jobs)] /\ "inner" \in Pools /\ queue["inner"] \in Seq(Jobs)
  BY DEF CoordinatorInv, TypeOK, Pools
<1>2. ASSUME NEW p \in Pools, NEW j, Submit(p, j), p = "inner" => j.by \in Inner
      PROVE  InnerQueue'
  <2>1. CASE p = "inner"
    <3>1. queue'["inner"] = Append(queue["inner"], j)
      BY <1>1, <1>2, <2>1 DEF Submit
    <3>2. \A i \in DOMAIN queue'["inner"] :
             \/ i \in DOMAIN queue["inner"] /\ queue'["inner"][i] = queue["inner"][i]
             \/ queue'["inner"][i] = j
      BY <1>1, <3>1
    <3>3. QED
      BY <1>2, <2>1, <3>2 DEF InnerQueue
  <2>2. CASE p # "inner"
    BY <1>1, <1>2, <2>2 DEF Submit, InnerQueue
  <2>3. QED
    BY <2>1, <2>2
<1>3. CASE StartHelper
  BY <1>2, <1>3 DEF StartHelper, Pools
<1>4. ASSUME NEW c \in Callers, NEW op, NEW rank, Submit(PoolOf(c), Job(op, c, rank))
      PROVE  InnerQueue'
  <2>1. PoolOf(c) = "inner" => c \in Inner
    BY DEF PoolOf, Callers
  <2>2. QED
    BY <2>1, <1>2, <1>4, Pooled DEF Job
<1>5. ASSUME NEW c \in Callers, NEW rank \in Ranks,
             Call(c, rank) \/ CallOutside(c) \/ Request(c)
      PROVE  InnerQueue'
  BY <1>4, <1>5 DEF Call, CallOutside, Request
<1>6. ASSUME NEW c \in Callers, Cancel(c) PROVE InnerQueue'
  <2>1. queue'["inner"] = WithoutJobOf(queue["inner"], c)
    BY <1>1, <1>6 DEF Cancel
  <2>2. \A i, k \in DOMAIN queue["inner"] :
           queue["inner"][i].by = c /\ queue["inner"][k].by = c => i = k
    BY <1>1, Constants DEF CoordinatorInv, OneJob
  <2>3. Subsequence(queue'["inner"], queue["inner"])
    BY <1>1, <2>1, <2>2, WithoutJob
  <2>4. QED
    BY <2>3 DEF Subsequence, InnerQueue
<1>7. ASSUME NEW t \in AllThreads, Start(t) PROVE InnerQueue'
  <2>1. PICK p \in Pools : queue[p] # <<>> /\ queue' = [queue EXCEPT ![p] = Tail(queue[p])]
    BY <1>7, Pooled DEF Start
  <2>2. CASE p = "inner"
    <3>1. /\ queue'["inner"] = Tail(queue["inner"])
          /\ \A i \in DOMAIN Tail(queue["inner"]) :
                i + 1 \in DOMAIN queue["inner"] /\ Tail(queue["inner"])[i] = queue["inner"][i + 1]
      BY <1>1, <2>1, <2>2
    <3>2. QED
      BY <3>1 DEF InnerQueue
  <2>3. CASE p # "inner"
    BY <1>1, <2>1, <2>3 DEF InnerQueue
  <2>4. QED
    BY <2>2, <2>3
<1>8. ASSUME UNCHANGED queue PROVE InnerQueue'
  BY <1>8 DEF InnerQueue
<1>9. QED
  BY <1>3, <1>5, <1>6, <1>7, <1>8, Constants
     DEF Next, Coroutine, Thread, Release, Enter, Refuse, Finish, EndHelper, vars

LEMMA HelperStep ==
    ASSUME CoordinatorInv, InnerQueue, HelperHolds, [Next]_vars
    PROVE  HelperHolds'
<1>0. /\ pc \in [Callers -> Places] /\ job \in [AllThreads -> Jobs \cup {Free}]
      /\ queue \in [Pools -> Seq(Jobs)] /\ "inner" \in Pools /\ "main" # "inner"
      /\ Threads \subseteq AllThreads /\ InnerThreads \subseteq AllThreads
      /\ Inner \subseteq Callers
  BY DEF CoordinatorInv, TypeOK, Places, Pools, AllThreads, Callers
<1>1. ASSUME NEW t \in AllThreads, job[t].op # "loop", job' = [job EXCEPT ![t] = Free],
             UNCHANGED queue, \A c \in Callers : pc[c] = "idle" => pc'[c] = "idle"
      PROVE  HelperHolds'
  <2>1. Helping => Helping'
    BY <1>0, <1>1 DEF Helping
  <2>2. \A u \in AllThreads : job[u] = Free => job'[u] = Free
    BY <1>0, <1>1
  <2>3. QED
    BY <1>0, <1>1, <2>1, <2>2 DEF HelperHolds
<1>2. ASSUME NEW p \in Pools, NEW j, Submit(p, j), UNCHANGED job,
             ~Helping => p = "main" /\ \A c \in Inner : pc'[c] = pc[c]
      PROVE  HelperHolds'
  <2>1. Helping' = Helping
    BY <1>2 DEF Helping
  <2>2. p = "main" => queue'["inner"] = queue["inner"]
    BY <1>0, <1>2 DEF Submit
  <2>3. QED
    BY <1>0, <1>2, <2>1, <2>2 DEF HelperHolds
<1>3. CASE StartHelper
  BY <1>2, <1>3 DEF StartHelper, Pools
<1>4. ASSUME NEW c \in Callers, NEW to, NEW j, Move(c, to), Submit(PoolOf(c), j), UNCHANGED job,
             c \in Inner => Helping
      PROVE  HelperHolds'
  <2>1. c \notin Inner => PoolOf(c) = "main" /\ \A d \in Inner : pc'[d] = pc[d]
    BY <1>0, <1>4 DEF PoolOf, Callers, Move
  <2>2. QED
    BY <1>2, <1>4, <2>1, Pooled
<1>5. ASSUME NEW c \in Callers, NEW rank \in Ranks, Call(c, rank) PROVE HelperHolds'
  BY <1>4, <1>5 DEF Call, Called
<1>6. ASSUME NEW c \in Callers, CallOutside(c) PROVE HelperHolds'
  BY <1>4, <1>6 DEF CallOutside, Called
<1>7. ASSUME NEW c \in Callers, Request(c) PROVE HelperHolds'
  <2>1. c \in Inner => Helping
    BY <1>7 DEF Request, HelperHolds
  <2>2. QED
    BY <1>4, <1>7, <2>1 DEF Request
<1>8. ASSUME NEW c \in Callers, Release(c) PROVE HelperHolds'
  <2>1. \A d \in Inner : pc[d] = "idle" => pc'[d] = "idle"
    BY <1>0, <1>8 DEF Release, Move
  <2>2. UNCHANGED <<job, queue>>
    BY <1>8 DEF Release
  <2>3. QED
    BY <2>1, <2>2 DEF HelperHolds, Helping
<1>9. ASSUME NEW c \in Callers, Cancel(c) PROVE HelperHolds'
  <2>1. \A d \in Inner : pc[d] = "idle" => pc'[d] = "idle"
    BY <1>0, <1>9 DEF Cancel, Move
  <2>2. \A t \in AllThreads : job'[t].op = job[t].op /\ (job[t] = Free => job'[t] = Free)
    <3>1. SUFFICES ASSUME NEW t \in AllThreads
                   PROVE  job'[t].op = job[t].op /\ (job[t] = Free => job'[t] = Free)
      OBVIOUS
    <3>2. job'[t] = IF job[t].by = c THEN [job[t] EXCEPT !.by = Nobody] ELSE job[t]
      BY <1>9 DEF Cancel
    <3>3. job[t] \in Jobs \/ job[t] = Free
      BY <1>0
    <3>4. CASE job[t] = Free
      BY <3>2, <3>4, Constants DEF Free
    <3>5. CASE job[t] \in Jobs
      BY <3>2, <3>5, Constants DEF Jobs, Free
    <3>6. QED
      BY <3>3, <3>4, <3>5
  <2>3. Helping' = Helping
    BY <1>0, <2>2 DEF Helping
  <2>4. queue["inner"] = <<>> => queue'["inner"] = <<>>
    BY <1>0, <1>9 DEF Cancel, WithoutJobOf
  <2>5. QED
    BY <1>0, <2>1, <2>2, <2>3, <2>4 DEF HelperHolds
<1>10. ASSUME NEW t \in AllThreads, Start(t) PROVE HelperHolds'
  <2>1. /\ job[t] = Free /\ UNCHANGED pc /\ queue[PoolOfThread(t)] # <<>>
        /\ job' = [job EXCEPT ![t] = Head(queue[PoolOfThread(t)])]
        /\ queue' = [queue EXCEPT ![PoolOfThread(t)] = Tail(@)]
    BY <1>10 DEF Start
  <2>2. Helping => Helping'
    BY <1>0, <2>1 DEF Helping, Free
  <2>3. CASE ~Helping
    <3>1. queue["inner"] = <<>> /\ PoolOfThread(t) = "main" /\ t \in Threads
      BY <2>1, <2>3 DEF HelperHolds, PoolOfThread
    <3>2. queue'["inner"] = queue["inner"] /\ \A u \in InnerThreads : job'[u] = job[u]
      BY <1>0, <2>1, <3>1, CoordinatorAssumption DEF CoordinatorAssumption
    <3>3. QED
      BY <2>1, <2>3, <3>2 DEF HelperHolds
  <2>4. QED
    BY <2>2, <2>3 DEF HelperHolds
<1>11. ASSUME NEW t \in AllThreads, EndHelper(t) PROVE HelperHolds'
  <2>1. /\ \A c \in Inner : pc[c] = "idle"
        /\ \A u \in InnerThreads : job[u] = Free
        /\ job' = [job EXCEPT ![t] = Free] /\ UNCHANGED <<pc, queue>>
    BY <1>11 DEF EndHelper
  <2>2. \A i \in DOMAIN queue["inner"] : FALSE
    BY <1>0, <2>1, Constants DEF InnerQueue, CoordinatorInv, JobsInStep, Expected
  <2>3. queue["inner"] = <<>>
    <3>1. queue["inner"] \in Seq(Jobs)
      BY <1>0
    <3>2. queue["inner"] # <<>> => 1 \in DOMAIN queue["inner"]
      BY <3>1
    <3>3. QED
      BY <2>2, <3>2
  <2>4. QED
    BY <1>0, <2>1, <2>3 DEF HelperHolds
<1>12. ASSUME NEW t \in AllThreads, NEW to, job' = [job EXCEPT ![t] = Free], UNCHANGED queue,
              job[t].op \in {"acquire", "request"},
              IF job[t].by = Nobody THEN UNCHANGED pc ELSE Move(job[t].by, to)
      PROVE  HelperHolds'
  <2>1. \A c \in Callers : pc[c] = "idle" => pc'[c] = "idle"
    <3>1. CASE job[t].by = Nobody
      BY <1>12, <3>1
    <3>2. CASE job[t].by # Nobody
      BY <1>0, <1>12, <3>2, WorksFor DEF Move
    <3>3. QED
      BY <3>1, <3>2
  <2>2. QED
    BY <1>1, <1>12, <2>1
<1>13. ASSUME NEW t \in AllThreads, Enter(t) PROVE HelperHolds'
  BY <1>12, <1>13 DEF Enter, Waiting
<1>14. ASSUME NEW t \in AllThreads, Refuse(t) PROVE HelperHolds'
  BY <1>12, <1>14 DEF Refuse, Waiting
<1>15. ASSUME NEW t \in AllThreads, Finish(t) PROVE HelperHolds'
  BY <1>12, <1>15 DEF Finish
<1>16. CASE UNCHANGED vars
  BY <1>16 DEF vars, HelperHolds, Helping
<1>17. QED
  BY <1>3, <1>5, <1>6, <1>7, <1>8, <1>9, <1>10, <1>11, <1>13, <1>14, <1>15, <1>16
     DEF Next, Coroutine, Thread

(* When a helper loop ends it leaves nothing behind: no coroutine of it under
   way, no job in its pool, no thread at work; the catalog scan's loop in
   walmart_autoscan_offloop. *)
THEOREM NothingOutlivesTheHelper == Spec => []HelperHolds
<1>1. Init => HelperInv
  BY DEF Init, HelperInv, InnerQueue, HelperHolds, Pools, AllThreads, Callers
<1>2. CoordinatorInv /\ HelperInv /\ [Next]_vars => HelperInv'
  BY InnerQueueStep, HelperStep DEF HelperInv
<1>3. HelperInv => HelperHolds
  BY DEF HelperInv
<1>4. QED
  BY <1>1, <1>2, <1>3, Invariance, PTL DEF Spec

-----------------------------------------------------------------------------
(* A step of the requests is a step of a gate of Capacity slots, or none. *)
LEMMA GateStep == CoordinatorInv /\ [Next]_vars => [Gate!Next]_(Gate!vars)
<1> SUFFICES ASSUME CoordinatorInv, [Next]_vars PROVE [Gate!Next]_(Gate!vars)
  OBVIOUS
<1>0. /\ pc \in [Callers -> Places] /\ active \in 0 .. Capacity /\ lost \in 0 .. Capacity
      /\ active = Cardinality(Holders) + lost
  BY DEF CoordinatorInv, TypeOK, Places, SlotsAccounted
<1>1. ASSUME Holders' = Holders, lost' = lost PROVE [Gate!Next]_(Gate!vars)
  BY <1>1 DEF Gate!vars
<1>2. ASSUME NEW c \in Callers, NEW to \in Places, Move(c, to),
             pc[c] \in {"entered", "request", "answered"} <=> to \in {"entered", "request", "answered"},
             lost' = lost
      PROVE  [Gate!Next]_(Gate!vars)
  BY <1>1, <1>2, SameHolders DEF CoordinatorInv
<1>3. CASE StartHelper
  BY <1>1, <1>3 DEF StartHelper, Holders
<1>4. ASSUME NEW c \in Callers, NEW rank \in Ranks, Call(c, rank) PROVE [Gate!Next]_(Gate!vars)
  BY <1>2, <1>4 DEF Call, Called, Places
<1>5. ASSUME NEW c \in Callers, CallOutside(c) PROVE [Gate!Next]_(Gate!vars)
  BY <1>2, <1>5 DEF CallOutside, Called, Places
<1>6. ASSUME NEW c \in Callers, Request(c) PROVE [Gate!Next]_(Gate!vars)
  BY <1>2, <1>6 DEF Request, Places
<1>7. ASSUME NEW c \in Callers, pc[c] \in {"entered", "request", "answered"}, Move(c, "idle")
      PROVE  c \in Holders /\ Holders' = Holders \ {c}
  BY <1>0, <1>7 DEF Holders, Move
<1>8. ASSUME NEW c \in Callers, Release(c) PROVE Gate!Next
  <2>1. c \in Holders /\ Holders' = Holders \ {c} /\ lost' = lost
    BY <1>7, <1>8 DEF Release
  <2>2. QED
    BY <2>1 DEF Gate!Next, Gate!Give
<1>9. ASSUME NEW c \in Callers, Cancel(c) PROVE [Gate!Next]_(Gate!vars)
  <2>1. Move(c, "idle") /\ lost' = IF pc[c] = "entered" THEN lost + 1 ELSE lost
    BY <1>9 DEF Cancel
  <2>2. CASE pc[c] = "entered"
    <3>1. c \in Holders /\ Holders' = Holders \ {c} /\ lost' = lost + 1
      BY <1>7, <2>1, <2>2
    <3>2. QED
      BY <3>1 DEF Gate!Next, Gate!Forfeit
  <2>3. CASE pc[c] \in {"request", "answered"}
    <3>1. c \in Holders /\ Holders' = Holders \ {c} /\ lost' = lost
      BY <1>7, <2>1, <2>3
    <3>2. QED
      BY <3>1 DEF Gate!Next, Gate!Give
  <2>4. CASE pc[c] \notin {"entered", "request", "answered"}
    BY <1>2, <2>1, <2>4 DEF Places
  <2>5. QED
    BY <2>2, <2>3, <2>4
<1>10. ASSUME NEW t \in AllThreads, Start(t) \/ EndHelper(t) PROVE [Gate!Next]_(Gate!vars)
  BY <1>1, <1>10 DEF Start, EndHelper, Holders
<1>11. ASSUME NEW t \in AllThreads, Enter(t) PROVE Gate!Next
  <2>1. job[t].op = "acquire" /\ active < Capacity
    BY <1>11 DEF Enter, Waiting, MayEnter
  <2>2. Gate!AnyFree
    BY <1>0, <2>1 DEF Gate!AnyFree, Gate!Cardinality, Cardinality
  <2>3. CASE job[t].by = Nobody
    <3>1. lost' = lost + 1 /\ Holders' = Holders
      BY <1>11, <2>3 DEF Enter, Holders
    <3>2. QED
      BY <2>2, <3>1 DEF Gate!Next, Gate!Waste
  <2>4. CASE job[t].by # Nobody
    <3>1. PICK c \in Callers : c = job[t].by /\ pc[c] = "acquire"
      BY <2>1, <2>4, WorksFor
    <3>2. Move(c, "entered") /\ lost' = lost
      BY <1>11, <2>4, <3>1 DEF Enter
    <3>3. c \notin Holders /\ Holders' = Holders \cup {c}
      BY <1>0, <3>1, <3>2 DEF Holders, Move
    <3>4. QED
      BY <2>2, <3>2, <3>3 DEF Gate!Next, Gate!Take
  <2>5. QED
    BY <2>3, <2>4
<1>12. ASSUME NEW t \in AllThreads, Refuse(t) PROVE [Gate!Next]_(Gate!vars)
  <2>1. job[t].op = "acquire" /\ lost' = lost
    BY <1>12 DEF Refuse, Waiting
  <2>2. CASE job[t].by = Nobody
    BY <1>1, <1>12, <2>1, <2>2 DEF Refuse, Holders
  <2>3. CASE job[t].by # Nobody
    <3>1. PICK c \in Callers : c = job[t].by /\ pc[c] = "acquire"
      BY <2>1, <2>3, WorksFor
    <3>2. Move(c, "idle")
      BY <1>12, <2>3, <3>1 DEF Refuse
    <3>3. QED
      BY <1>2, <2>1, <3>1, <3>2 DEF Places
  <2>4. QED
    BY <2>2, <2>3
<1>13. ASSUME NEW t \in AllThreads, Finish(t) PROVE [Gate!Next]_(Gate!vars)
  <2>1. job[t].op = "request" /\ lost' = lost
    BY <1>13 DEF Finish
  <2>2. CASE job[t].by = Nobody
    BY <1>1, <1>13, <2>1, <2>2 DEF Finish, Holders
  <2>3. CASE job[t].by # Nobody
    <3>1. PICK c \in Callers : c = job[t].by /\ pc[c] \in {"request", "outside"}
      BY <2>1, <2>3, WorksFor
    <3>2. Move(c, Answered(c))
      BY <1>13, <2>3, <3>1 DEF Finish
    <3>3. CASE pc[c] = "request"
      BY <1>2, <2>1, <3>2, <3>3 DEF Places, Answered
    <3>4. CASE pc[c] = "outside"
      BY <1>2, <2>1, <3>2, <3>4 DEF Places, Answered
    <3>5. QED
      BY <3>1, <3>3, <3>4
  <2>4. QED
    BY <2>2, <2>3
<1>14. CASE UNCHANGED vars
  BY <1>1, <1>14 DEF vars, Holders
<1>15. QED
  BY <1>3, <1>4, <1>5, <1>6, <1>8, <1>9, <1>10, <1>11, <1>12, <1>13, <1>14
     DEF Next, Coroutine, Thread

(* The gate grants a slot only while one is free, to a coroutine that has none,
   and takes back each once, whatever threads, deadlines and cancellations do;
   WalmartRequestCoordinator.acquire and release. *)
THEOREM Implements == Spec => ImplementsSlots
<1>1. Init => Gate!Init
  BY DEF Init, Gate!Init, Holders
<1>2. QED
  BY <1>1, GateStep, Invariance, PTL DEF Spec, ImplementsSlots, Gate!Spec
=============================================================================
