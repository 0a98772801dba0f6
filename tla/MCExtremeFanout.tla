---------------------------- MODULE MCExtremeFanout ----------------------------
(* Instances of ExtremeFanout for TLC. *)
EXTENDS ExtremeFanout, TLC

Symmetry == Permutations(Workers) \cup Permutations(Guilds)

(* The behaviours of Spec, and those that follow one earlier pass: it posted the
   first lead to one server and kept a ticket for the other, and only passes and
   one more verification are left.  A ticket can so be read after a newer proof of
   its item was posted, which takes three passes in all. *)
FirstLead == [item |-> 1, at |-> 1]
AfterOnePass ==
    /\ now = 1 /\ checks = MaxChecks - 1 /\ changes = MaxChanges /\ passes = 0
    /\ rows = [i \in Items |-> IF i = 1 THEN [at |-> 1, status |-> "lead"]
                               ELSE [at |-> 0, status |-> "none"]]
    /\ opted = Guilds
    /\ cursor = FirstLead
    /\ \E g \in Guilds : /\ tickets = {To(g, FirstLead)}
                         /\ answered = {To(h, FirstLead) : h \in Guilds \ {g}}
    /\ places = [w \in Workers |-> "idle"]
    /\ pass = [w \in Workers |-> NoPass]
    /\ moved = [w \in Workers |-> {}]
    /\ \E v \in Workers :
          sent = [w \in Workers |-> [i \in Items |-> IF w = v /\ i = 1 THEN 1 ELSE 0]]
Behaviours == (Init \/ AfterOnePass) /\ [][Next]_laneVars
=============================================================================
