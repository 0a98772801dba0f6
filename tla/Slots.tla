-------------------------------- MODULE Slots --------------------------------
(***************************************************************************)
(* What a gate of Capacity slots promises: a client takes a slot that is      *)
(* free and gives it back.  A slot may be lost: by its holder, or when it is  *)
(* taken for a client that is gone.  A lost slot is never free again.         *)
(***************************************************************************)
EXTENDS Naturals, FiniteSets

CONSTANTS Clients, Capacity

VARIABLES
    held,  \* the clients that have a slot
    lost   \* slots that nobody will give back

vars == <<held, lost>>

Init == held = {} /\ lost = 0

AnyFree == Cardinality(held) + lost < Capacity

Take(c) ==
    /\ AnyFree /\ c \notin held
    /\ held' = held \cup {c}
    /\ UNCHANGED lost

Give(c) ==
    /\ c \in held
    /\ held' = held \ {c}
    /\ UNCHANGED lost

Forfeit(c) ==
    /\ c \in held
    /\ held' = held \ {c}
    /\ lost' = lost + 1

Waste ==
    /\ AnyFree
    /\ lost' = lost + 1
    /\ UNCHANGED held

Next == (\E c \in Clients : Take(c) \/ Give(c) \/ Forfeit(c)) \/ Waste

Spec == Init /\ [][Next]_vars

(* Never more holders than slots that are left. *)
Limited == Cardinality(held) + lost <= Capacity
=============================================================================
