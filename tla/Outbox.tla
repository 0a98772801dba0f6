------------------------------- MODULE Outbox -------------------------------
(***************************************************************************)
(* What a fanout promises of a durable event: it stays open until every      *)
(* destination has been decided (delivered to, or found not to want it), or   *)
(* until there is a reason not to announce it any more.  Decisions of open    *)
(* events are never forgotten.  Closed events are deleted, and an open one     *)
(* only if it was chosen for deletion before it was opened.                   *)
(***************************************************************************)
CONSTANTS Events, Destinations

VARIABLES
    status,   \* of each event
    decided,  \* the destinations decided since the event was opened
    excused,  \* TRUE if there was a reason to close the event early
    doomed    \* the events chosen for deletion

vars == <<status, decided, excused, doomed>>

Init ==
    /\ status = [e \in Events |-> "absent"]
    /\ decided = [e \in Events |-> {}]
    /\ excused = [e \in Events |-> FALSE]
    /\ doomed = {}

Open(e) ==
    /\ status[e] = "absent"
    /\ status' = [status EXCEPT ![e] = "open"]
    /\ decided' = [decided EXCEPT ![e] = {}]
    /\ \E excuse \in BOOLEAN : excused' = [excused EXCEPT ![e] = excuse]
    /\ UNCHANGED doomed

Decide(e) ==
    /\ status[e] = "open"
    /\ \E found \in SUBSET Destinations, excuse \in BOOLEAN :
          /\ decided' = [decided EXCEPT ![e] = @ \cup found]
          /\ excused' = [excused EXCEPT ![e] = @ \/ excuse]
    /\ UNCHANGED <<status, doomed>>

Close(e) ==
    /\ status[e] = "open"
    /\ decided[e] = Destinations \/ excused[e]
    /\ status' = [status EXCEPT ![e] = "closed"]
    /\ UNCHANGED <<decided, excused, doomed>>

Closed == {e \in Events : status[e] = "closed"}
Doom ==
    /\ \E chosen \in SUBSET (doomed \cup Closed) : doomed' = chosen
    /\ UNCHANGED <<status, decided, excused>>

Forget ==
    /\ \E gone \in SUBSET (doomed \cup Closed), left \in SUBSET doomed :
          /\ status' = [e \in Events |-> IF e \in gone THEN "absent" ELSE status[e]]
          /\ doomed' = left
    /\ UNCHANGED <<decided, excused>>

Next == (\E e \in Events : Open(e) \/ Decide(e) \/ Close(e)) \/ Doom \/ Forget

Spec == Init /\ [][Next]_vars

(* What it comes to: no destination of a closed event was forgotten. *)
ClosedIsSettled ==
    \A e \in Events : status[e] = "closed" => decided[e] = Destinations \/ excused[e]
=============================================================================
