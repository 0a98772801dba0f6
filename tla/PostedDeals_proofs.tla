-------------------------- MODULE PostedDeals_proofs --------------------------
(***************************************************************************)
(* The safety properties of PostedDeals, for every number of messages, edits,   *)
(* flips and mishaps and every set of sweeping processes.                       *)
(***************************************************************************)
EXTENDS PostedDeals, FiniteSetTheorems, TLAPS

(* The writes of a failed edit are counted, so that a message is given up before
   its edits exceed MaxEdits. *)
EditsCounted ==
    /\ \A m \in Messages : track[m].state = "active" => track[m].edits < MaxEdits
    /\ \A s \in Sweepers, m \in Messages :
          /\ m \in sweep[s].todo \/ sweep[s].write[m] # "none" => sweep[s].tries[m] < MaxEdits
          /\ sweep[s].write[m] = "active" => sweep[s].tries[m] + 1 < MaxEdits

(* What deliveries, rows and sweeps say of a message. *)
Delivered == {"posted", "alert", "track"}
TrackedWereSent == \A m \in Messages : track[m].state # "none" => shown[m] # "unsent"
DeliveredApart ==
    /\ \A p \in Posters : poster[p].stage \in Delivered =>
          /\ poster[p].msg \in Messages
          /\ shown[poster[p].msg] # "unsent"
          /\ track[poster[p].msg].state = "none"
    /\ \A p, q \in Posters :
          p # q /\ poster[p].stage \in Delivered /\ poster[q].stage \in Delivered =>
              poster[p].msg # poster[q].msg
SweepsOfTracked ==
    \A s \in Sweepers, m \in Messages :
        /\ m \in sweep[s].todo => track[m].state # "none" /\ sweep[s].write[m] = "none"
        /\ sweep[s].write[m] # "none" => track[m].state # "none"
        /\ sweep[s].write[m] = "expired" => shown[m] # "live"
MessagesInStep == TrackedWereSent /\ DeliveredApart /\ SweepsOfTracked

(* Whatever can lead to an expired message is about a deal that had ended. *)
EndedInStep ==
    /\ ~world => \A m \in Messages : shown[m] # "unsent" => m \in ended
    /\ ~proof => stale \subseteq ended
    /\ \A s \in Sweepers : sweep[s].todo \subseteq ended
    /\ ExpiredHadEnded

(* Without an overlap or a cleared memory at most one message, delivery or sweep
   holds the deal, and whatever holds it has a guard. *)
Unshared == excused \cap {"overlap", "clear"} = {}
DeliveryAlone ==
    /\ \A p, q \in Posters : poster[p].stage # "idle" /\ poster[q].stage # "idle" => p = q
    /\ \A p \in Posters : poster[p].stage # "idle" => Active = {} /\ row # "none"
    /\ \A p \in Posters : poster[p].stage = "send" => Live = {}
    /\ \A p \in Posters : poster[p].stage \in Delivered => Live \subseteq {poster[p].msg}
MessageAlone ==
    /\ \A m, n \in Active \cup Live : m = n
    /\ Active \cup Live # {} => row # "none" \/ alert
SweepAlone ==
    /\ \A s \in Sweepers : sweep[s].todo \cup Written(s) \subseteq Active
    /\ \A s, t \in Sweepers : sweep[s] # NoSweep /\ sweep[t] # NoSweep => s = t
Alone == Unshared => DeliveryAlone /\ MessageAlone /\ SweepAlone

(* Without an orphaning mishap a guard has a live message, a delivery that is
   about to send, or a sweep that will release it. *)
Releasing == \E s \in Sweepers : Retired(s) # {}
MessageStands == Live # {} \/ Releasing
Unorphaned == excused \cap Orphaning = {}
Standing ==
    Unorphaned =>
        /\ \A p \in Posters : poster[p].stage \in Delivered => shown[poster[p].msg] = "live"
        /\ alert \/ row = "posted" => MessageStands
        /\ row = "sending" => MessageStands \/ \E p \in Posters : poster[p].stage = "send"

DealInv == TypeOK /\ EditsCounted /\ MessagesInStep /\ EndedInStep /\ Alone /\ Standing

-----------------------------------------------------------------------------
(* The types of TypeOK by name: the steps keep each of them as a whole. *)
Rows == [state : {"none", "active", "expired", "gone"}, edits : 0 .. MaxEdits]
Deliveries == [stage : Stages, msg : Messages \cup {0}]
Sweeps == [todo : SUBSET Messages, tries : [Messages -> 0 .. MaxEdits],
           write : [Messages -> Writes], rearm : BOOLEAN]
Looks == {"unsent", "live", "expired", "deleted"}
Excuses == Kinds \cup {"superseded"}
ProofTypes ==
    /\ world \in BOOLEAN /\ proof \in BOOLEAN /\ fresh \in BOOLEAN
    /\ event \in {"absent", "open", "closed"}
    /\ stale \subseteq Messages /\ ended \subseteq Messages
    /\ flips \in 0 .. MaxFlips
GuardTypes == row \in {"none", "sending", "posted"} /\ alert \in BOOLEAN /\ override \in BOOLEAN
ShownTypes == shown \in [Messages -> Looks]
TrackTypes == track \in [Messages -> Rows]
PosterTypes == poster \in [Posters -> Deliveries]
SweepTypes == sweep \in [Sweepers -> Sweeps]
MishapTypes == excused \subseteq Excuses /\ mishaps \in 0 .. MaxMishaps
Types ==
    /\ ProofTypes /\ GuardTypes /\ ShownTypes /\ TrackTypes /\ PosterTypes /\ SweepTypes
    /\ MishapTypes

LEMMA TypesAreTypeOK == (TypeOK <=> Types) /\ (TypeOK' <=> Types')
  BY DEF TypeOK, Types, ProofTypes, GuardTypes, ShownTypes, TrackTypes, PosterTypes,
         SweepTypes, MishapTypes, Rows, Deliveries, Sweeps, Looks, Excuses

(* A sweep begins with messages that are tracked, and each is disproved by the
   queue unless Walmart itself has ended the deal. *)
EditsSoFar(found) == [m \in Messages |-> IF m \in found THEN track[m].edits ELSE 0]
LEMMA SweepFinds ==
    ASSUME NEW s \in Sweepers, BeginSweep(s)
    PROVE  \E found \in SUBSET Active :
              /\ \A m \in found : QueueEvidence(m) \/ ~world
              /\ sweep' = [sweep EXCEPT ![s].todo = found, ![s].tries = EditsSoFar(found)]
  <1>1. PICK looked \in SUBSET Active :
           LET found == {m \in Active : QueueEvidence(m)} \cup (IF world THEN {} ELSE looked)
           IN  sweep' = [sweep EXCEPT ![s].todo = found,
                           ![s].tries = [m \in Messages |->
                                           IF m \in found THEN track[m].edits ELSE 0]]
    BY DEF BeginSweep
  <1> DEFINE found == {m \in Active : QueueEvidence(m)} \cup (IF world THEN {} ELSE looked)
  <1>2. found \in SUBSET Active /\ \A m \in found : QueueEvidence(m) \/ ~world
    OBVIOUS
  <1>3. sweep' = [sweep EXCEPT ![s].todo = found, ![s].tries = EditsSoFar(found)]
    BY <1>1 DEF EditsSoFar
  <1> HIDE DEF found
  <1>4. QED
    BY <1>2, <1>3

(* What a sweep writes is a row: no edit takes it beyond MaxEdits. *)
LEMMA PersistTypes ==
    ASSUME TypeOK, EditsCounted, NEW s \in Sweepers, Persist(s)
    PROVE  TrackTypes' /\ GuardTypes'
  <1>1. ASSUME NEW m \in Messages
        PROVE  track'[m] \in Rows
    <2>1. sweep[s].tries[m] \in 0 .. MaxEdits /\ sweep[s].write[m] \in Writes
      BY DEF TypeOK
    <2>2. CASE m \in Written(s)
      <3>1. sweep[s].tries[m] < MaxEdits
        BY <2>2 DEF EditsCounted, Written
      <3>2. Edits(s, m) \in 0 .. MaxEdits
        BY <3>1, <2>1, BoundAssumption DEF Edits
      <3>3. sweep[s].write[m] \in {"none", "active", "expired", "gone"}
        BY <2>1 DEF Writes
      <3>4. track'[m] = [state |-> sweep[s].write[m], edits |-> Edits(s, m)]
        BY <2>2 DEF Persist
      <3>5. QED
        BY <3>2, <3>3, <3>4 DEF Rows
    <2>3. CASE m \notin Written(s)
      BY <2>3, TypesAreTypeOK DEF Persist, Types, TrackTypes
    <2>4. QED
      BY <2>2, <2>3
  <1>2. TrackTypes'
    BY <1>1 DEF TrackTypes, Persist
  <1>3. GuardTypes'
    BY DEF GuardTypes, Persist, Released, TypeOK
  <1>4. QED
    BY <1>2, <1>3

LEMMA MishapKeepsTypes ==
    ASSUME MishapTypes, NEW kind \in Kinds, Mishap(kind)
    PROVE  MishapTypes'
  BY BoundAssumption DEF MishapTypes, Mishap, Excuses

LEMMA StageKeepsTypes ==
    ASSUME PosterTypes, NEW p \in Posters, NEW from, NEW to \in Stages, Stage(p, from, to)
    PROVE  PosterTypes'
  BY DEF PosterTypes, Stage, Deliveries

LEMMA RestKeepsTypes ==
    ASSUME PosterTypes, NEW p \in Posters, Rest(p)
    PROVE  PosterTypes'
  BY DEF PosterTypes, Rest, Deliveries, Stages

LEMMA NoSweepType == NoSweep \in Sweeps
  BY BoundAssumption DEF NoSweep, Sweeps, Writes

(* Every step keeps the types. *)
LEMMA TypeStep ==
    ASSUME TypeOK, EditsCounted, [Next]_vars
    PROVE  TypeOK'
  <1> SUFFICES Types'
    BY TypesAreTypeOK
  <1> USE DEF Types
  <1>a. Types
    BY TypesAreTypeOK
  <1>1. CASE Flip
    <2>1. {m \in Messages : shown[m] # "unsent"} \subseteq Messages
      OBVIOUS
    <2>2. ended' \subseteq Messages /\ flips' \in 0 .. MaxFlips
      BY <2>1, <1>1, <1>a, BoundAssumption DEF Flip, ProofTypes
    <2>3. ProofTypes'
      BY <2>2, <1>1, <1>a DEF Flip, ProofTypes, proofVars, posts
    <2>4. QED
      BY <2>3, <1>1, <1>a DEF Flip, GuardTypes, ShownTypes, TrackTypes, PosterTypes, SweepTypes,
             MishapTypes, guards, posts
  <1>2. CASE Verify
    BY <1>2, <1>a DEF Verify, ProofTypes, GuardTypes, ShownTypes, TrackTypes, PosterTypes,
           SweepTypes, MishapTypes, worldVars, guards, historyVars
  <1>3. CASE Ingest
    BY <1>3, <1>a DEF Ingest, ProofTypes, GuardTypes, ShownTypes, TrackTypes, PosterTypes,
           SweepTypes, MishapTypes, worldVars, guards, posts, historyVars
  <1>4. CASE FanoutStarts
    <2>1. PosterTypes'
      BY <1>4, <1>a, StageKeepsTypes DEF FanoutStarts, PosterTypes, Posters, Stages
    <2>2. MishapTypes'
      BY <1>4, <1>a DEF FanoutStarts, MishapTypes, Excuses
    <2>3. QED
      BY <2>1, <2>2, <1>4, <1>a DEF FanoutStarts, ProofTypes, GuardTypes, ShownTypes,
             TrackTypes, SweepTypes, worldVars, proofVars, posts
  <1>5. CASE TrackFanout
    <2>1. [state |-> "active", edits |-> 0] \in Rows
      BY BoundAssumption DEF Rows
    <2>2. TrackTypes'
      BY <2>1, <1>5, <1>a DEF TrackFanout, TrackTypes
    <2>3. PosterTypes'
      BY <1>5, <1>a, RestKeepsTypes DEF TrackFanout, Posters
    <2>4. QED
      BY <2>2, <2>3, <1>5, <1>a DEF TrackFanout, ProofTypes, GuardTypes, ShownTypes,
             SweepTypes, MishapTypes, worldVars, proofVars, guards, historyVars
  <1>6. CASE OwnerUpsert
    <2>1. PosterTypes'
      BY <1>6, <1>a, RestKeepsTypes DEF OwnerUpsert, Posters
    <2>2. QED
      BY <2>1, <1>6, <1>a DEF OwnerUpsert, ProofTypes, GuardTypes, ShownTypes, TrackTypes,
             SweepTypes, MishapTypes, worldVars, proofVars, posts, historyVars
  <1>7. ASSUME NEW p \in Posters, MarkPosted(p)
        PROVE  Types'
    <2>1. PosterTypes'
      BY <1>7, <1>a, StageKeepsTypes DEF MarkPosted, Stages
    <2>2. QED
      BY <2>1, <1>7, <1>a DEF MarkPosted, ProofTypes, GuardTypes, ShownTypes, TrackTypes,
             SweepTypes, MishapTypes, worldVars, proofVars, posts, historyVars
  <1>8. ASSUME NEW p \in Posters, RecordAlert(p)
        PROVE  Types'
    <2>1. PosterTypes'
      BY <1>8, <1>a, StageKeepsTypes DEF RecordAlert, Stages
    <2>2. QED
      BY <2>1, <1>8, <1>a DEF RecordAlert, ProofTypes, GuardTypes, ShownTypes, TrackTypes,
             SweepTypes, MishapTypes, worldVars, proofVars, posts, historyVars
  <1>9. CASE OwnerStarts
    <2>1. PosterTypes'
      BY <1>9, <1>a, StageKeepsTypes DEF OwnerStarts, Posters, Stages
    <2>2. MishapTypes'
      BY <1>9, <1>a, MishapKeepsTypes DEF OwnerStarts, Kinds
    <2>3. QED
      BY <2>1, <2>2, <1>9, <1>a DEF OwnerStarts, ProofTypes, GuardTypes, ShownTypes,
             TrackTypes, SweepTypes, worldVars, proofVars, posts
  <1>10. CASE ClearMemory
    <2>1. MishapTypes'
      BY <1>10, <1>a, MishapKeepsTypes DEF ClearMemory, Kinds
    <2>2. QED
      BY <2>1, <1>10, <1>a DEF ClearMemory, ProofTypes, GuardTypes, ShownTypes, TrackTypes,
             PosterTypes, SweepTypes, worldVars, proofVars, posts
  <1>11. ASSUME NEW s \in Sweepers, BeginSweep(s)
         PROVE  Types'
    <2>1. PICK found \in SUBSET Active :
             sweep' = [sweep EXCEPT ![s].todo = found, ![s].tries = EditsSoFar(found)]
      BY <1>11, SweepFinds
    <2>2. found \in SUBSET Messages
      BY DEF Active
    <2>3. EditsSoFar(found) \in [Messages -> 0 .. MaxEdits]
      BY <1>a, BoundAssumption DEF EditsSoFar, TrackTypes, Rows
    <2>4. SweepTypes'
      BY <2>1, <2>2, <2>3, <1>a DEF SweepTypes, Sweeps
    <2>5. MishapTypes'
      BY <1>11, <1>a, MishapKeepsTypes DEF BeginSweep, Kinds, MishapTypes
    <2>6. QED
      BY <2>4, <2>5, <1>11, <1>a DEF BeginSweep, ProofTypes, GuardTypes, ShownTypes,
             TrackTypes, PosterTypes, worldVars, proofVars, guards, posts
  <1>12. ASSUME NEW s \in Sweepers, CommitSweep(s)
         PROVE  Types'
    <2>1. TrackTypes' /\ GuardTypes'
      BY <1>12, PersistTypes DEF CommitSweep
    <2>2. SweepTypes'
      BY <1>12, <1>a, NoSweepType DEF CommitSweep, SweepTypes
    <2>3. ProofTypes'
      BY <1>12, <1>a DEF CommitSweep, Rearmed, ProofTypes, worldVars, proofVars, historyVars
    <2>4. QED
      BY <2>1, <2>2, <2>3, <1>12, <1>a DEF CommitSweep, ShownTypes, PosterTypes, MishapTypes,
             historyVars
  <1>13. ASSUME NEW s \in Sweepers, NEW m \in Messages, RetireMessage(s, m)
         PROVE  Types'
    <2>1. PICK state \in Writes : Note(s, m, state)
      BY <1>13 DEF RetireMessage, Writes
    <2>2. SweepTypes'
      BY <2>1, <1>a DEF Note, SweepTypes, Sweeps
    <2>3. ShownTypes'
      BY <1>13, <1>a DEF RetireMessage, ShownTypes, Looks
    <2>4. MishapTypes'
      BY <1>13, <1>a, MishapKeepsTypes DEF RetireMessage, Kinds, MishapTypes
    <2>5. QED
      BY <2>2, <2>3, <2>4, <1>13, <1>a DEF RetireMessage, ProofTypes, GuardTypes, TrackTypes,
             PosterTypes, worldVars, proofVars, guards
  <1>14. ASSUME NEW s \in Sweepers, CommitEarly(s)
         PROVE  Types'
    <2>1. TrackTypes' /\ GuardTypes'
      BY <1>14, PersistTypes DEF CommitEarly
    <2>2. PICK rearm \in BOOLEAN :
             sweep' = [sweep EXCEPT ![s].write = [m \in Messages |-> "none"], ![s].rearm = rearm]
      <3>1. (sweep[s].rearm \/ Retired(s) # {}) \in BOOLEAN
        OBVIOUS
      <3>2. QED
        BY <3>1, <1>14 DEF CommitEarly
    <2>3. [m \in Messages |-> "none"] \in [Messages -> Writes]
      BY DEF Writes
    <2>4. SweepTypes'
      BY <2>2, <2>3, <1>a DEF SweepTypes, Sweeps
    <2>5. QED
      BY <2>1, <2>4, <1>14, <1>a DEF CommitEarly, ProofTypes, ShownTypes, PosterTypes,
             MishapTypes, worldVars, proofVars, historyVars
  <1>15. ASSUME NEW s \in Sweepers, TearSweep(s)
         PROVE  Types'
    <2>1. SweepTypes'
      BY <1>15, <1>a, NoSweepType DEF TearSweep, SweepTypes
    <2>2. MishapTypes'
      BY <1>15, <1>a, MishapKeepsTypes DEF TearSweep, Kinds
    <2>3. QED
      BY <2>1, <2>2, <1>15, <1>a DEF TearSweep, ProofTypes, GuardTypes, ShownTypes, TrackTypes,
             PosterTypes, worldVars, proofVars, guards, posts
  <1>16. ASSUME NEW p \in Posters, SendMessage(p)
         PROVE  Types'
    <2>1. PICK m \in Messages :
             /\ shown' = [shown EXCEPT ![m] = "live"]
             /\ poster' = [poster EXCEPT ![p] = [stage |-> "posted", msg |-> m]]
             /\ ended' = IF world THEN ended ELSE ended \cup {m}
      BY <1>16 DEF SendMessage
    <2>2. ShownTypes' /\ PosterTypes'
      BY <2>1, <1>a DEF ShownTypes, PosterTypes, Looks, Deliveries, Stages
    <2>3. ProofTypes'
      BY <2>1, <1>16, <1>a DEF SendMessage, ProofTypes, worldVars, proofVars
    <2>4. QED
      BY <2>2, <2>3, <1>16, <1>a DEF SendMessage, GuardTypes, TrackTypes, SweepTypes,
             MishapTypes, guards
  <1>17. ASSUME NEW p \in Posters, SendFails(p)
         PROVE  Types'
    <2>1. PosterTypes'
      BY <1>17, <1>a, RestKeepsTypes DEF SendFails
    <2>2. QED
      BY <2>1, <1>17, <1>a DEF SendFails, ProofTypes, GuardTypes, ShownTypes, TrackTypes,
             SweepTypes, MishapTypes, worldVars, proofVars, posts, historyVars
  <1>18. ASSUME NEW p \in Posters, AbortDelivery(p)
         PROVE  Types'
    <2>1. PosterTypes'
      BY <1>18, <1>a, RestKeepsTypes DEF AbortDelivery
    <2>2. MishapTypes'
      BY <1>18, <1>a, MishapKeepsTypes DEF AbortDelivery, Kinds
    <2>3. QED
      BY <2>1, <2>2, <1>18, <1>a DEF AbortDelivery, ProofTypes, GuardTypes, ShownTypes,
             TrackTypes, SweepTypes, worldVars, proofVars, guards, posts
  <1>19. ASSUME NEW m \in Messages, DeleteMessage(m)
         PROVE  Types'
    <2>1. ShownTypes'
      BY <1>19, <1>a DEF DeleteMessage, ShownTypes, Looks
    <2>2. MishapTypes'
      BY <1>19, <1>a, MishapKeepsTypes DEF DeleteMessage, Kinds
    <2>3. QED
      BY <2>1, <2>2, <1>19, <1>a DEF DeleteMessage, ProofTypes, GuardTypes, TrackTypes,
             PosterTypes, SweepTypes, worldVars, proofVars, guards
  <1>20. CASE UNCHANGED vars
    BY <1>20, <1>a DEF vars, ProofTypes, GuardTypes, ShownTypes, TrackTypes, PosterTypes,
           SweepTypes, MishapTypes
  <1>21. QED
    BY <1>1, <1>2, <1>3, <1>4, <1>5, <1>6, <1>7, <1>8, <1>9, <1>10, <1>11, <1>12, <1>13,
       <1>14, <1>15, <1>16, <1>17, <1>18, <1>19, <1>20 DEF Next, Deliver, Sweep

-----------------------------------------------------------------------------
(* The steps that change rows or sweeps. *)
LEMMA RowsOrSweepsMove ==
    ASSUME [Next]_vars
    PROVE  \/ UNCHANGED <<track, sweep>>
           \/ TrackFanout
           \/ \E s \in Sweepers : \/ BeginSweep(s) \/ CommitSweep(s) \/ CommitEarly(s)
                                  \/ TearSweep(s)
                                  \/ \E m \in Messages : RetireMessage(s, m)
  BY DEF Next, Deliver, Sweep, vars, Flip, Verify, Ingest, FanoutStarts, OwnerUpsert, MarkPosted,
         RecordAlert, OwnerStarts, ClearMemory, SendMessage, SendFails, AbortDelivery,
         DeleteMessage, posts, worldVars, guards, proofVars, historyVars

(* What one step does to every sweep. *)
LEMMA SweepEnds ==
    ASSUME SweepTypes, NEW s \in Sweepers, CommitSweep(s) \/ TearSweep(s)
    PROVE  \A t \in Sweepers : sweep'[t] = IF t = s THEN NoSweep ELSE sweep[t]
  BY DEF SweepTypes, CommitSweep, TearSweep

LEMMA SweepCommitsEarly ==
    ASSUME SweepTypes, NEW s \in Sweepers, CommitEarly(s)
    PROVE  /\ \A t \in Sweepers : sweep'[t].todo = sweep[t].todo /\ sweep'[t].tries = sweep[t].tries
           /\ \A t \in Sweepers : t # s => sweep'[t] = sweep[t]
           /\ \A m \in Messages : sweep'[s].write[m] = "none"
  BY DEF SweepTypes, Sweeps, CommitEarly

LEMMA SweepNotes ==
    ASSUME SweepTypes, NEW s \in Sweepers, NEW m \in Messages, NEW state \in Writes,
           Note(s, m, state)
    PROVE  /\ sweep'[s].todo = sweep[s].todo \ {m}
           /\ sweep'[s].tries = sweep[s].tries
           /\ \A n \in Messages : sweep'[s].write[n] = IF n = m THEN state ELSE sweep[s].write[n]
           /\ \A t \in Sweepers : t # s => sweep'[t] = sweep[t]
  BY DEF SweepTypes, Sweeps, Note

LEMMA SweepBegins ==
    ASSUME SweepTypes, NEW s \in Sweepers, BeginSweep(s)
    PROVE  \E found \in SUBSET Active :
              /\ \A m \in found : QueueEvidence(m) \/ ~world
              /\ sweep'[s].todo = found /\ sweep'[s].tries = EditsSoFar(found)
              /\ \A m \in Messages : sweep'[s].write[m] = "none"
              /\ \A t \in Sweepers : t # s => sweep'[t] = sweep[t]
  <1>1. PICK found \in SUBSET Active :
           /\ \A m \in found : QueueEvidence(m) \/ ~world
           /\ sweep' = [sweep EXCEPT ![s].todo = found, ![s].tries = EditsSoFar(found)]
    BY SweepFinds
  <1>2. \A m \in Messages : sweep'[s].write[m] = "none"
    BY <1>1 DEF BeginSweep, NoSweep, SweepTypes, Sweeps
  <1>3. QED
    BY <1>1, <1>2 DEF SweepTypes, Sweeps

(* Every failed edit is counted. *)
LEMMA EditsStep ==
    ASSUME TypeOK, EditsCounted, [Next]_vars
    PROVE  EditsCounted'
  <1> USE BoundAssumption DEF EditsCounted
  <1>a. TrackTypes /\ SweepTypes
    BY TypesAreTypeOK DEF Types
  <1>1. CASE UNCHANGED <<track, sweep>>
    BY <1>1
  <1>2. CASE TrackFanout
    BY <1>2, <1>a DEF TrackFanout, TrackTypes
  <1>3. ASSUME NEW s \in Sweepers, BeginSweep(s)
        PROVE  EditsCounted'
    <2>1. PICK found \in SUBSET Active :
             /\ sweep'[s].todo = found /\ sweep'[s].tries = EditsSoFar(found)
             /\ \A m \in Messages : sweep'[s].write[m] = "none"
             /\ \A t \in Sweepers : t # s => sweep'[t] = sweep[t]
      BY <1>3, <1>a, SweepBegins
    <2>2. \A m \in found : EditsSoFar(found)[m] < MaxEdits
      BY DEF Active, EditsSoFar
    <2>3. QED
      BY <2>1, <2>2, <1>3 DEF BeginSweep, posts
  <1>4. ASSUME NEW s \in Sweepers, Persist(s)
        PROVE  \A m \in Messages : track'[m].state = "active" => track'[m].edits < MaxEdits
    BY <1>4, <1>a DEF Persist, Written, Retired, Edits, SweepTypes, Sweeps
  <1>5. ASSUME NEW s \in Sweepers, CommitSweep(s)
        PROVE  EditsCounted'
    BY <1>4, <1>5, <1>a, SweepEnds DEF CommitSweep, NoSweep
  <1>6. ASSUME NEW s \in Sweepers, CommitEarly(s)
        PROVE  EditsCounted'
    <2>1. \A m \in Messages : track'[m].state = "active" => track'[m].edits < MaxEdits
      BY <1>4, <1>6 DEF CommitEarly
    <2>2. QED
      BY <2>1, <1>6, <1>a, SweepCommitsEarly
  <1>7. ASSUME NEW s \in Sweepers, TearSweep(s)
        PROVE  EditsCounted'
    BY <1>7, <1>a, SweepEnds DEF TearSweep, NoSweep, posts
  <1>8. ASSUME NEW s \in Sweepers, NEW m \in Messages, RetireMessage(s, m)
        PROVE  EditsCounted'
    <2>1. PICK state \in Writes : Note(s, m, state) /\ (state = "active" => ~Exhausted(s, m))
      BY <1>8 DEF RetireMessage, Writes
    <2>2. sweep[s].tries[m] < MaxEdits /\ sweep[s].tries[m] \in Nat
      BY <1>8, <1>a DEF RetireMessage, SweepTypes, Sweeps
    <2>3. state = "active" => sweep[s].tries[m] + 1 < MaxEdits
      BY <2>1, <2>2 DEF Exhausted
    <2>4. QED
      BY <2>1, <2>2, <2>3, <1>8, <1>a, SweepNotes DEF RetireMessage
  <1>9. QED
    BY <1>1, <1>2, <1>3, <1>5, <1>6, <1>7, <1>8, RowsOrSweepsMove

(* A message is sent once and tracked by the delivery that sent it. *)
LEMMA MessageMoves ==
    ASSUME TypeOK, MessagesInStep, [Next]_vars, NEW m \in Messages
    PROVE  /\ shown[m] # "unsent" => shown'[m] # "unsent"
           /\ shown'[m] = "live" => shown[m] \in {"live", "unsent"}
           /\ track[m].state # "none" => track'[m].state # "none"
           /\ track'[m].state # "none" =>
                 track[m].state # "none" \/ (TrackFanout /\ m = poster["fanout"].msg)
  <1>a. ShownTypes /\ TrackTypes
    BY TypesAreTypeOK DEF Types
  <1>1. \/ UNCHANGED shown
        \/ \E p \in Posters : SendMessage(p)
        \/ \E k \in Messages : DeleteMessage(k)
        \/ \E s \in Sweepers, k \in Messages : RetireMessage(s, k)
    BY DEF Next, Deliver, Sweep, vars, Flip, Verify, Ingest, FanoutStarts, OwnerUpsert, MarkPosted,
         RecordAlert, OwnerStarts, ClearMemory, SendFails, AbortDelivery, TrackFanout, BeginSweep,
         CommitSweep, CommitEarly, TearSweep, posts
  <1>2. /\ shown[m] # "unsent" => shown'[m] # "unsent"
        /\ shown'[m] = "live" => shown[m] \in {"live", "unsent"}
    BY <1>1, <1>a DEF SendMessage, DeleteMessage, RetireMessage, ShownTypes
  <1>3. \/ UNCHANGED track
        \/ TrackFanout
        \/ \E s \in Sweepers : Persist(s)
    BY RowsOrSweepsMove DEF BeginSweep, CommitSweep, CommitEarly, TearSweep, RetireMessage, posts
  <1>4. ASSUME NEW s \in Sweepers, Persist(s)
        PROVE  track'[m].state # "none" <=> track[m].state # "none"
    BY <1>4 DEF Persist, Written, MessagesInStep, SweepsOfTracked
  <1>5. CASE TrackFanout
    BY <1>5, <1>a DEF TrackFanout, TrackTypes
  <1>6. QED
    BY <1>2, <1>3, <1>4, <1>5

LEMMA TrackedStep ==
    ASSUME TypeOK, MessagesInStep, [Next]_vars
    PROVE  TrackedWereSent'
  <1> SUFFICES ASSUME NEW m \in Messages, track'[m].state # "none"
               PROVE  shown'[m] # "unsent"
    BY DEF TrackedWereSent
  <1>1. CASE track[m].state # "none"
    BY <1>1, MessageMoves DEF MessagesInStep, TrackedWereSent
  <1>2. CASE TrackFanout /\ m = poster["fanout"].msg
    BY <1>2, MessageMoves DEF TrackFanout, MessagesInStep, DeliveredApart, Delivered, Posters
  <1>3. QED
    BY <1>1, <1>2, MessageMoves

(* The steps of the deliveries. *)
LEMMA DeliveriesMove ==
    ASSUME TypeOK, [Next]_vars
    PROVE  \/ UNCHANGED poster
           \/ \E p \in Posters :
                 /\ \A q \in Posters : q # p => poster'[q] = poster[q]
                 /\ \/ poster'[p].stage \in {"idle", "send"}
                    \/ SendMessage(p)
                    \/ /\ poster[p].stage \in Delivered /\ poster'[p].msg = poster[p].msg
                       /\ UNCHANGED posts
  <1> USE DEF PosterTypes, Deliveries, Stage, Rest, Posters
  <1>a. PosterTypes
    BY TypesAreTypeOK DEF Types
  <1>1. CASE FanoutStarts
    BY <1>1, <1>a DEF FanoutStarts
  <1>2. CASE OwnerStarts
    BY <1>2, <1>a DEF OwnerStarts
  <1>3. CASE TrackFanout
    BY <1>3, <1>a DEF TrackFanout
  <1>4. CASE OwnerUpsert
    BY <1>4, <1>a DEF OwnerUpsert
  <1>5. ASSUME NEW p \in Posters, MarkPosted(p) \/ RecordAlert(p)
        PROVE  /\ \A q \in Posters : q # p => poster'[q] = poster[q]
               /\ poster[p].stage \in Delivered /\ poster'[p].msg = poster[p].msg
               /\ UNCHANGED posts
    BY <1>5, <1>a DEF MarkPosted, RecordAlert, Delivered
  <1>6. ASSUME NEW p \in Posters, SendFails(p) \/ AbortDelivery(p)
        PROVE  /\ \A q \in Posters : q # p => poster'[q] = poster[q]
               /\ poster'[p].stage = "idle"
    BY <1>6, <1>a DEF SendFails, AbortDelivery
  <1>7. ASSUME NEW p \in Posters, SendMessage(p)
        PROVE  \A q \in Posters : q # p => poster'[q] = poster[q]
    BY <1>7, <1>a DEF SendMessage
  <1>8. QED
    BY <1>1, <1>2, <1>3, <1>4, <1>5, <1>6, <1>7
    DEF Next, Deliver, Sweep, vars, Flip, Verify, Ingest, ClearMemory, BeginSweep, CommitSweep,
        CommitEarly, TearSweep, RetireMessage, DeleteMessage, posts

LEMMA DeliveredStep ==
    ASSUME TypeOK, MessagesInStep, [Next]_vars
    PROVE  DeliveredApart'
  <1>a. PosterTypes /\ ShownTypes /\ TrackTypes
    BY TypesAreTypeOK DEF Types
  <1>b. TrackedWereSent /\ DeliveredApart
    BY DEF MessagesInStep
  <1> DEFINE Kept(p) == poster[p].stage \in Delivered /\ poster'[p].msg = poster[p].msg
             Sound(p) == /\ poster'[p].msg \in Messages
                         /\ shown'[poster'[p].msg] # "unsent"
                         /\ track'[poster'[p].msg].state = "none"
  <1>1. ASSUME NEW p \in Posters, Kept(p), poster'[p].stage \in Delivered
        PROVE  Sound(p)
    <2>1. poster[p].msg \in Messages /\ shown[poster[p].msg] # "unsent"
          /\ track[poster[p].msg].state = "none"
      BY <1>1, <1>b DEF DeliveredApart
    <2>2. ASSUME TrackFanout, poster[p].msg = poster["fanout"].msg
          PROVE  FALSE
      <3>1. poster'["fanout"].stage = "idle" /\ poster["fanout"].stage \in Delivered
        BY <2>2, <1>a DEF TrackFanout, Rest, PosterTypes, Posters, Delivered
      <3>2. p # "fanout"
        BY <3>1, <1>1 DEF Delivered
      <3>3. QED
        BY <3>1, <3>2, <2>2, <1>1, <1>b DEF DeliveredApart, Posters
    <2>3. QED
      BY <2>1, <2>2, <1>1, MessageMoves
  <1>2. ASSUME NEW p \in Posters, SendMessage(p)
        PROVE  Sound(p) /\ shown[poster'[p].msg] = "unsent"
    <2>1. PICK m \in Messages : /\ shown[m] = "unsent"
                                /\ shown' = [shown EXCEPT ![m] = "live"]
                                /\ poster' = [poster EXCEPT ![p] = [stage |-> "posted", msg |-> m]]
      BY <1>2 DEF SendMessage
    <2>2. poster'[p].msg = m /\ shown'[m] = "live" /\ track' = track
      BY <2>1, <1>2, <1>a DEF PosterTypes, ShownTypes, SendMessage
    <2>3. QED
      BY <2>1, <2>2, <1>b DEF TrackedWereSent
  <1>3. CASE UNCHANGED poster
    <2>1. \A p \in Posters : poster'[p].stage \in Delivered => Kept(p)
      BY <1>3
    <2>2. QED
      BY <2>1, <1>1, <1>3, <1>b DEF DeliveredApart
  <1>4. ASSUME NEW p \in Posters, \A q \in Posters : q # p => poster'[q] = poster[q],
               poster'[p].stage \in {"idle", "send"} \/ SendMessage(p) \/ Kept(p)
        PROVE  DeliveredApart'
    <2>1. ASSUME NEW q \in Posters, poster'[q].stage \in Delivered
          PROVE  Sound(q) /\ (Kept(q) \/ (q = p /\ SendMessage(p)))
      <3>1. CASE q # p
        <4>1. Kept(q)
          BY <1>4, <2>1, <3>1
        <4>2. QED
          BY <4>1, <1>1, <2>1
      <3>2. CASE q = p
        BY <1>1, <1>2, <1>4, <2>1, <3>2 DEF Delivered
      <3>3. QED
        BY <3>1, <3>2
    <2>2. ASSUME NEW q \in Posters, NEW r \in Posters, q # r,
                 poster'[q].stage \in Delivered, poster'[r].stage \in Delivered
          PROVE  poster'[q].msg # poster'[r].msg
      <3>1. CASE Kept(q) /\ Kept(r)
        BY <3>1, <2>2, <1>b DEF DeliveredApart
      <3>2. CASE Kept(q) /\ r = p /\ SendMessage(p)
        BY <3>2, <1>2, <2>2, <1>b DEF DeliveredApart
      <3>3. CASE Kept(r) /\ q = p /\ SendMessage(p)
        BY <3>3, <1>2, <2>2, <1>b DEF DeliveredApart
      <3>4. QED
        BY <3>1, <3>2, <3>3, <2>1, <2>2
    <2>3. QED
      BY <2>1, <2>2 DEF DeliveredApart
  <1>5. QED
    BY <1>3, <1>4, DeliveriesMove

LEMMA SweepsOfTrackedStep ==
    ASSUME TypeOK, MessagesInStep, [Next]_vars
    PROVE  SweepsOfTracked'
  <1> USE DEF SweepsOfTracked
  <1>a. SweepTypes /\ ShownTypes
    BY TypesAreTypeOK DEF Types
  <1>b. SweepsOfTracked
    BY DEF MessagesInStep
  <1>c. \A m \in Messages :
           /\ track[m].state # "none" => track'[m].state # "none"
           /\ track[m].state # "none" /\ shown[m] # "live" => shown'[m] # "live"
    BY MessageMoves DEF MessagesInStep, TrackedWereSent
  <1>1. CASE UNCHANGED sweep
    BY <1>1, <1>b, <1>c
  <1>2. ASSUME NEW s \in Sweepers, BeginSweep(s)
        PROVE  SweepsOfTracked'
    <2>1. PICK found \in SUBSET Active :
             /\ sweep'[s].todo = found
             /\ \A m \in Messages : sweep'[s].write[m] = "none"
             /\ \A t \in Sweepers : t # s => sweep'[t] = sweep[t]
      BY <1>2, <1>a, SweepBegins
    <2>2. \A m \in found : track[m].state # "none"
      BY DEF Active
    <2>3. QED
      BY <2>1, <2>2, <1>b, <1>c
  <1>3. ASSUME NEW s \in Sweepers, CommitSweep(s) \/ TearSweep(s)
        PROVE  SweepsOfTracked'
    BY <1>3, <1>a, <1>b, <1>c, SweepEnds DEF NoSweep
  <1>4. ASSUME NEW s \in Sweepers, CommitEarly(s)
        PROVE  SweepsOfTracked'
    BY <1>4, <1>a, <1>b, <1>c, SweepCommitsEarly
  <1>5. ASSUME NEW s \in Sweepers, NEW m \in Messages, RetireMessage(s, m)
        PROVE  SweepsOfTracked'
    <2>1. PICK state \in Writes \ {"none"} :
             Note(s, m, state) /\ (state = "expired" => shown'[m] = "expired")
      BY <1>5, <1>a DEF RetireMessage, Writes, ShownTypes
    <2>2. m \in sweep[s].todo
      BY <1>5 DEF RetireMessage
    <2>3. QED
      BY <2>1, <2>2, <1>a, <1>b, <1>c, SweepNotes
  <1>6. QED
    BY <1>1, <1>2, <1>3, <1>4, <1>5, RowsOrSweepsMove DEF TrackFanout, historyVars

(* Deliveries, rows and sweeps agree on what was sent. *)
LEMMA MessagesStep ==
    ASSUME TypeOK, MessagesInStep, [Next]_vars
    PROVE  MessagesInStep'
  BY TrackedStep, DeliveredStep, SweepsOfTrackedStep DEF MessagesInStep

-----------------------------------------------------------------------------
(* What is marked as expired, or may be, is about a deal that had ended. *)
LEMMA EndedStep ==
    ASSUME TypeOK, MessagesInStep, EndedInStep, [Next]_vars
    PROVE  EndedInStep'
  <1> USE DEF EndedInStep, ExpiredHadEnded
  <1>a. ShownTypes /\ SweepTypes
    BY TypesAreTypeOK DEF Types
  <1>1. CASE Flip
    BY <1>1 DEF Flip, proofVars, posts
  <1>2. CASE Verify
    BY <1>2 DEF Verify, worldVars, historyVars, MessagesInStep, TrackedWereSent
  <1>3. ASSUME NEW p \in Posters, SendMessage(p)
        PROVE  EndedInStep'
    BY <1>3, <1>a DEF SendMessage, worldVars, proofVars, ShownTypes
  <1>4. ASSUME NEW s \in Sweepers, BeginSweep(s)
        PROVE  EndedInStep'
    <2>1. PICK found \in SUBSET Active :
             /\ \A m \in found : QueueEvidence(m) \/ ~world
             /\ sweep'[s].todo = found
             /\ \A t \in Sweepers : t # s => sweep'[t] = sweep[t]
      BY <1>4, <1>a, SweepBegins
    <2>2. found \subseteq ended
      BY <2>1 DEF QueueEvidence, Active, MessagesInStep, TrackedWereSent
    <2>3. QED
      BY <2>1, <2>2, <1>4 DEF BeginSweep, worldVars, proofVars, posts
  <1>5. ASSUME NEW s \in Sweepers, CommitSweep(s) \/ TearSweep(s)
        PROVE  EndedInStep'
    <2>1. UNCHANGED <<world, proof, shown, stale, ended>>
      BY <1>5 DEF CommitSweep, TearSweep, worldVars, proofVars, posts, historyVars
    <2>2. QED
      BY <2>1, <1>5, <1>a, SweepEnds DEF NoSweep
  <1>6. ASSUME NEW s \in Sweepers, CommitEarly(s)
        PROVE  EndedInStep'
    <2>1. UNCHANGED <<world, proof, shown, stale, ended>>
      BY <1>6 DEF CommitEarly, worldVars, proofVars, historyVars
    <2>2. QED
      BY <2>1, <1>6, <1>a, SweepCommitsEarly
  <1>7. ASSUME NEW s \in Sweepers, NEW m \in Messages, RetireMessage(s, m)
        PROVE  EndedInStep'
    <2>1. PICK state \in Writes : Note(s, m, state)
      BY <1>7 DEF RetireMessage, Writes
    <2>2. \A t \in Sweepers : sweep'[t].todo \subseteq sweep[t].todo
      BY <2>1, <1>a, SweepNotes
    <2>3. m \in ended /\ \A n \in Messages : shown'[n] # shown[n] => n = m /\ shown[n] # "unsent"
      BY <1>7, <1>a DEF RetireMessage, ShownTypes
    <2>4. QED
      BY <2>2, <2>3, <1>7 DEF RetireMessage, worldVars, proofVars
  <1>8. ASSUME NEW m \in Messages, DeleteMessage(m)
        PROVE  EndedInStep'
    BY <1>8, <1>a DEF DeleteMessage, worldVars, proofVars, ShownTypes
  <1>9. CASE UNCHANGED <<world, proof, stale, shown, sweep, ended>>
    BY <1>9
  <1>10. CASE Deliver \/ Ingest \/ OwnerStarts \/ ClearMemory
              \/ \E p \in Posters : SendFails(p) \/ AbortDelivery(p)
    BY <1>10, <1>9
    DEF Deliver, Ingest, FanoutStarts, TrackFanout, OwnerUpsert, MarkPosted, RecordAlert,
        OwnerStarts, ClearMemory, SendFails, AbortDelivery, worldVars, proofVars, posts, historyVars
  <1>11. QED
    BY <1>1, <1>2, <1>3, <1>4, <1>5, <1>6, <1>7, <1>8, <1>9, <1>10 DEF Next, Sweep, vars

-----------------------------------------------------------------------------
(* Mishaps are remembered. *)
LEMMA ExcusesStay ==
    ASSUME [Next]_vars
    PROVE  excused \subseteq excused'
  BY DEF Next, Deliver, Sweep, vars, Flip, Verify, Ingest, FanoutStarts, TrackFanout, OwnerUpsert,
         MarkPosted, RecordAlert, OwnerStarts, ClearMemory, BeginSweep, CommitSweep, RetireMessage,
         CommitEarly, TearSweep, SendMessage, SendFails, AbortDelivery, DeleteMessage, Mishap,
         historyVars

(* Without an orphaning mishap a live message goes only with a sweep that edits
   it, and the sweep stays until it has released the guards. *)
LEMMA LooksChange ==
    ASSUME TypeOK, [Next]_vars, Unorphaned', NEW m \in Messages, shown[m] = "live"
    PROVE  \/ shown'[m] = "live"
           \/ \E s \in Sweepers : /\ m \in sweep[s].todo
                                  /\ Note(s, m, "expired")
  <1>a. ShownTypes
    BY TypesAreTypeOK DEF Types
  <1>1. CASE UNCHANGED shown
    BY <1>1
  <1>2. ASSUME NEW p \in Posters, SendMessage(p)
        PROVE  shown'[m] = "live"
    BY <1>2, <1>a DEF SendMessage, ShownTypes
  <1>3. ASSUME NEW k \in Messages, DeleteMessage(k)
        PROVE  FALSE
    BY <1>3 DEF DeleteMessage, Mishap, Unorphaned, Orphaning
  <1>4. ASSUME NEW s \in Sweepers, NEW k \in Messages, RetireMessage(s, k)
        PROVE  shown'[m] = "live" \/ (m = k /\ m \in sweep[s].todo /\ Note(s, m, "expired"))
    BY <1>4, <1>a DEF RetireMessage, ShownTypes, Mishap, Unorphaned, Orphaning
  <1>5. QED
    BY <1>1, <1>2, <1>3, <1>4
    DEF Next, Deliver, Sweep, vars, Flip, Verify, Ingest, FanoutStarts, OwnerUpsert, MarkPosted,
        RecordAlert, OwnerStarts, ClearMemory, SendFails, AbortDelivery, TrackFanout, BeginSweep,
        CommitSweep, CommitEarly, TearSweep, posts

LEMMA RetiredStays ==
    ASSUME TypeOK, MessagesInStep, [Next]_vars, Unorphaned', NEW s \in Sweepers, Retired(s) # {}
    PROVE  Retired(s)' # {} \/ (row' = "none" /\ ~alert')
  <1>a. SweepTypes
    BY TypesAreTypeOK DEF Types
  <1>m. PICK m \in Messages : sweep[s].write[m] = "expired"
    BY DEF Retired
  <1>1. CASE sweep'[s].write[m] = "expired"
    BY <1>1 DEF Retired
  <1>2. CASE UNCHANGED sweep
    BY <1>1, <1>2, <1>m
  <1>3. ASSUME NEW t \in Sweepers, BeginSweep(t)
        PROVE  sweep'[s].write[m] = "expired"
    <2>1. t # s
      BY <1>3, <1>m DEF BeginSweep, NoSweep
    <2>2. QED
      BY <2>1, <1>3, <1>m, <1>a, SweepBegins
  <1>4. ASSUME NEW t \in Sweepers, CommitSweep(t) \/ CommitEarly(t)
        PROVE  sweep'[s].write[m] = "expired" \/ (row' = "none" /\ ~alert')
    <2>1. CASE t = s
      BY <2>1, <1>4 DEF CommitSweep, CommitEarly, Persist, Released
    <2>2. CASE t # s
      BY <2>2, <1>4, <1>m, <1>a, SweepEnds, SweepCommitsEarly
    <2>3. QED
      BY <2>1, <2>2
  <1>5. ASSUME NEW t \in Sweepers, TearSweep(t)
        PROVE  FALSE
    BY <1>5 DEF TearSweep, Mishap, Unorphaned, Orphaning
  <1>6. ASSUME NEW t \in Sweepers, NEW k \in Messages, RetireMessage(t, k)
        PROVE  sweep'[s].write[m] = "expired"
    <2>1. PICK state \in Writes : Note(t, k, state)
      BY <1>6 DEF RetireMessage, Writes
    <2>2. t # s \/ k # m
      BY <1>6, <1>m DEF RetireMessage, MessagesInStep, SweepsOfTracked
    <2>3. QED
      BY <2>1, <2>2, <1>m, <1>a, SweepNotes
  <1>7. QED
    BY <1>1, <1>2, <1>3, <1>4, <1>5, <1>6, RowsOrSweepsMove DEF TrackFanout, historyVars

LEMMA StandsStep ==
    ASSUME TypeOK, MessagesInStep, [Next]_vars, Unorphaned', MessageStands
    PROVE  MessageStands' \/ (row' = "none" /\ ~alert')
  <1>a. SweepTypes
    BY TypesAreTypeOK DEF Types
  <1>1. ASSUME NEW m \in Messages, shown[m] = "live"
        PROVE  MessageStands'
    <2>1. CASE shown'[m] = "live"
      BY <2>1 DEF MessageStands, Live
    <2>2. ASSUME NEW s \in Sweepers, Note(s, m, "expired")
          PROVE  MessageStands'
      <3>1. sweep'[s].write[m] = "expired"
        BY <2>2, <1>a, SweepNotes DEF Writes
      <3>2. QED
        BY <3>1 DEF MessageStands, Releasing, Retired
    <2>3. QED
      BY <2>1, <2>2, <1>1, LooksChange
  <1>2. ASSUME NEW s \in Sweepers, Retired(s) # {}
        PROVE  MessageStands' \/ (row' = "none" /\ ~alert')
    BY <1>2, RetiredStays DEF MessageStands, Releasing
  <1>3. QED
    BY <1>1, <1>2 DEF MessageStands, Live, Releasing

LEMMA DeliveredLiveStep ==
    ASSUME TypeOK, MessagesInStep, Standing, [Next]_vars, Unorphaned',
           NEW p \in Posters, poster'[p].stage \in Delivered
    PROVE  shown'[poster'[p].msg] = "live"
  <1>a. PosterTypes /\ ShownTypes
    BY TypesAreTypeOK DEF Types
  <1>1. CASE poster[p].stage \in Delivered /\ poster'[p].msg = poster[p].msg
    <2>1. /\ poster[p].msg \in Messages /\ shown[poster[p].msg] = "live"
          /\ track[poster[p].msg].state = "none"
      BY <1>1, ExcusesStay DEF Standing, Unorphaned, MessagesInStep, DeliveredApart
    <2>2. \A s \in Sweepers : poster[p].msg \notin sweep[s].todo
      BY <2>1 DEF MessagesInStep, SweepsOfTracked
    <2>3. QED
      BY <2>1, <2>2, <1>1, LooksChange
  <1>2. CASE SendMessage(p)
    BY <1>2, <1>a DEF SendMessage, PosterTypes, ShownTypes
  <1>3. QED
    BY <1>1, <1>2, DeliveriesMove DEF Delivered

(* A guard always has something that stands for it or will release it. *)
LEMMA StandingStep ==
    ASSUME TypeOK, MessagesInStep, Standing, [Next]_vars
    PROVE  Standing'
  <1> SUFFICES ASSUME Unorphaned'
               PROVE  /\ (alert \/ row = "posted" => MessageStands)'
                      /\ (row = "sending" => \/ MessageStands
                                            \/ \E p \in Posters : poster[p].stage = "send")'
    BY DeliveredLiveStep DEF Standing
  <1> DEFINE Goal == /\ alert' \/ row' = "posted" => MessageStands'
                     /\ row' = "sending" => \/ MessageStands'
                                           \/ \E p \in Posters : poster'[p].stage = "send"
  <1>a. PosterTypes /\ ShownTypes /\ GuardTypes
    BY TypesAreTypeOK DEF Types
  <1>b. /\ \A p \in Posters : poster[p].stage \in Delivered =>
              poster[p].msg \in Messages /\ shown[poster[p].msg] = "live"
        /\ alert \/ row = "posted" => MessageStands
        /\ row = "sending" => MessageStands \/ \E p \in Posters : poster[p].stage = "send"
    BY ExcusesStay DEF Standing, Unorphaned, MessagesInStep, DeliveredApart
  <1>c. MessageStands => MessageStands' \/ (row' = "none" /\ ~alert')
    BY StandsStep
  <1>d. ASSUME NEW p \in Posters, poster[p].stage \in Delivered
        PROVE  MessageStands
    BY <1>b, <1>d DEF MessageStands, Live
  <1>1. CASE UNCHANGED <<row, alert, poster>>
    BY <1>1, <1>b, <1>c
  <1>2. CASE FanoutStarts
    <2>1. CASE UNCHANGED <<row, alert, poster>>
      BY <2>1, <1>1
    <2>2. CASE row' = "sending" /\ ~alert' /\ Stage("fanout", "idle", "send")
      BY <2>2, <1>a DEF Stage, PosterTypes, Posters
    <2>3. QED
      BY <2>1, <2>2, <1>2 DEF FanoutStarts, Allowed
  <1>3. CASE OwnerStarts
    BY <1>3, <1>a, <1>b, <1>c DEF OwnerStarts, Allowed, Stage, PosterTypes, Posters
  <1>4. CASE TrackFanout \/ OwnerUpsert \/ \E p \in Posters : MarkPosted(p) \/ RecordAlert(p)
    <2>1. MessageStands
      BY <1>4, <1>d DEF TrackFanout, OwnerUpsert, MarkPosted, RecordAlert, Stage, Posters, Delivered
    <2>2. QED
      BY <2>1, <1>c
  <1>5. ASSUME NEW p \in Posters, SendMessage(p)
        PROVE  MessageStands'
    BY <1>5, <1>a DEF SendMessage, MessageStands, Live, ShownTypes
  <1>6. ASSUME NEW p \in Posters, SendFails(p)
        PROVE  Goal
    BY <1>6, <1>b, <1>c DEF SendFails
  <1>7. CASE ClearMemory
    BY <1>7 DEF ClearMemory
  <1>8. ASSUME NEW p \in Posters, AbortDelivery(p)
        PROVE  FALSE
    BY <1>8 DEF AbortDelivery, Mishap, Unorphaned, Orphaning
  <1>9. ASSUME NEW s \in Sweepers, CommitSweep(s) \/ CommitEarly(s)
        PROVE  Goal
    <2>1. CASE Retired(s) # {}
      BY <2>1, <1>9 DEF CommitSweep, CommitEarly, Persist, Released
    <2>2. CASE Retired(s) = {}
      <3>1. UNCHANGED <<row, alert, poster>>
        BY <2>2, <1>9 DEF CommitSweep, CommitEarly, Persist, Released
      <3>2. QED
        BY <3>1, <1>1
    <2>3. QED
      BY <2>1, <2>2
  <1>10. QED
    BY <1>1, <1>2, <1>3, <1>4, <1>5, <1>6, <1>7, <1>8, <1>9
    DEF Next, Deliver, Sweep, vars, Flip, Verify, Ingest, BeginSweep, RetireMessage, TearSweep,
        DeleteMessage, guards

-----------------------------------------------------------------------------
(* A message is live once it is sent, and tracked as active once it is recorded. *)
LEMMA LiveMoves ==
    ASSUME TypeOK, [Next]_vars
    PROVE  Live' \subseteq Live \/ \E p \in Posters : SendMessage(p)
  <1>a. ShownTypes
    BY TypesAreTypeOK DEF Types
  <1>1. \/ UNCHANGED shown
        \/ \E p \in Posters : SendMessage(p)
        \/ \E k \in Messages : DeleteMessage(k)
        \/ \E s \in Sweepers, k \in Messages : RetireMessage(s, k)
    BY DEF Next, Deliver, Sweep, vars, Flip, Verify, Ingest, FanoutStarts, OwnerUpsert, MarkPosted,
         RecordAlert, OwnerStarts, ClearMemory, SendFails, AbortDelivery, TrackFanout, BeginSweep,
         CommitSweep, CommitEarly, TearSweep, posts
  <1>2. QED
    BY <1>1, <1>a DEF DeleteMessage, RetireMessage, ShownTypes, Live

LEMMA ActiveMoves ==
    ASSUME TypeOK, SweepAlone, [Next]_vars
    PROVE  Active' \subseteq Active \/ TrackFanout
  <1>1. \/ UNCHANGED track
        \/ TrackFanout
        \/ \E s \in Sweepers : Persist(s)
    BY RowsOrSweepsMove DEF BeginSweep, CommitSweep, CommitEarly, TearSweep, RetireMessage, posts
  <1>2. ASSUME NEW s \in Sweepers, Persist(s)
        PROVE  Active' \subseteq Active
    BY <1>2 DEF Persist, SweepAlone, Active
  <1>3. QED
    BY <1>1, <1>2 DEF Active

(* One message at a time is active: no sweep that is alone has messages left when
   it has written some, so no other coroutine's commit takes its statements. *)
LEMMA NoEarlyCommit ==
    ASSUME MessagesInStep, MessageAlone, SweepAlone, NEW s \in Sweepers, CommitEarly(s)
    PROVE  FALSE
  <1>1. PICK m \in Written(s), k \in sweep[s].todo : TRUE
    BY DEF CommitEarly
  <1>2. m \in Active /\ k \in Active
    BY DEF SweepAlone
  <1>3. m = k
    BY <1>2 DEF MessageAlone
  <1>4. sweep[s].write[m] # "none" /\ m \in Messages
    BY DEF Written
  <1>5. QED
    BY <1>3, <1>4 DEF MessagesInStep, SweepsOfTracked

LEMMA NoSweepIsEmpty ==
    ASSUME NEW s \in Sweepers, sweep[s] = NoSweep
    PROVE  sweep[s].todo = {} /\ Written(s) = {} /\ Retired(s) = {}
  BY DEF NoSweep, Written, Retired

LEMMA SweepAloneStep ==
    ASSUME TypeOK, MessagesInStep, DeliveryAlone, MessageAlone, SweepAlone, Unshared', [Next]_vars
    PROVE  SweepAlone'
  <1>a. SweepTypes /\ TrackTypes
    BY TypesAreTypeOK DEF Types
  <1>1. CASE UNCHANGED <<track, sweep>>
    BY <1>1 DEF SweepAlone, Written, Active
  <1>2. CASE TrackFanout
    <2>1. Active = {}
      BY <1>2 DEF TrackFanout, DeliveryAlone, Posters
    <2>2. \A s \in Sweepers : sweep[s].todo = {} /\ Written(s) = {}
      BY <2>1 DEF SweepAlone
    <2>3. QED
      BY <2>2, <1>2 DEF TrackFanout, SweepAlone, Written
  <1>3. ASSUME NEW s \in Sweepers, BeginSweep(s)
        PROVE  SweepAlone'
    <2>1. PICK found \in SUBSET Active :
             /\ sweep'[s].todo = found
             /\ \A m \in Messages : sweep'[s].write[m] = "none"
             /\ \A t \in Sweepers : t # s => sweep'[t] = sweep[t]
      BY <1>3, <1>a, SweepBegins
    <2>2. \A t \in Sweepers : sweep[t] = NoSweep
      BY <1>3 DEF BeginSweep, Mishap, Unshared
    <2>3. Active' = Active
      BY <1>3 DEF BeginSweep, posts, Active
    <2>4. \A t \in Sweepers : t # s => sweep'[t].todo = {} /\ Written(t)' = {}
      BY <2>1, <2>2 DEF NoSweep, Written
    <2>5. Written(s)' = {}
      BY <2>1 DEF Written
    <2>6. QED
      BY <2>1, <2>2, <2>3, <2>4, <2>5 DEF SweepAlone
  <1>4. ASSUME NEW s \in Sweepers, CommitSweep(s)
        PROVE  SweepAlone'
    <2>1. \A t \in Sweepers : sweep'[t] = NoSweep
      BY <1>4, <1>a, SweepEnds, NoSweepIsEmpty DEF CommitSweep, SweepAlone
    <2>2. \A t \in Sweepers : sweep'[t].todo = {} /\ Written(t)' = {}
      BY <2>1 DEF NoSweep, Written
    <2>3. QED
      BY <2>1, <2>2 DEF SweepAlone
  <1>5. ASSUME NEW s \in Sweepers, CommitEarly(s)
        PROVE  FALSE
    BY <1>5, NoEarlyCommit
  <1>6. ASSUME NEW s \in Sweepers, TearSweep(s)
        PROVE  SweepAlone'
    <2>1. \A t \in Sweepers : sweep'[t] = NoSweep
      BY <1>6, <1>a, SweepEnds DEF TearSweep, SweepAlone
    <2>2. \A t \in Sweepers : sweep'[t].todo = {} /\ Written(t)' = {}
      BY <2>1 DEF NoSweep, Written
    <2>3. QED
      BY <2>1, <2>2 DEF SweepAlone
  <1>7. ASSUME NEW s \in Sweepers, NEW m \in Messages, RetireMessage(s, m)
        PROVE  SweepAlone'
    <2>1. PICK state \in Writes : Note(s, m, state)
      BY <1>7 DEF RetireMessage, Writes
    <2>2. m \in sweep[s].todo /\ Active' = Active
      BY <1>7 DEF RetireMessage, Active
    <2>3. sweep'[s].todo \subseteq sweep[s].todo /\ Written(s)' \subseteq Written(s) \cup {m}
      BY <2>1, <1>a, SweepNotes DEF Written
    <2>4. sweep[s] # NoSweep
      BY <2>2, NoSweepIsEmpty
    <2>5. \A t \in Sweepers : t # s => sweep'[t] = sweep[t] /\ Written(t)' = Written(t)
      BY <2>1, <1>a, SweepNotes DEF Written
    <2>6. QED
      BY <2>2, <2>3, <2>4, <2>5 DEF SweepAlone
  <1>8. QED
    BY <1>1, <1>2, <1>3, <1>4, <1>5, <1>6, <1>7, RowsOrSweepsMove

(* A delivery holds the deal alone, and its message is the only one. *)
LEMMA DeliveryAloneStep ==
    ASSUME TypeOK, MessagesInStep, DeliveryAlone, MessageAlone, SweepAlone, Unshared', [Next]_vars
    PROVE  DeliveryAlone' /\ MessageAlone'
  <1>a. PosterTypes /\ ShownTypes /\ TrackTypes
    BY TypesAreTypeOK DEF Types
  <1>b. Live' \subseteq Live \/ \E p \in Posters : SendMessage(p)
    BY LiveMoves
  <1>c. Active' \subseteq Active \/ TrackFanout
    BY ActiveMoves
  <1> DEFINE Goal == DeliveryAlone' /\ MessageAlone'
             Shrinks == Active' \subseteq Active /\ Live' \subseteq Live
  <1>1. ASSUME Shrinks, UNCHANGED <<row, alert, poster>>
        PROVE  Goal
    BY <1>1 DEF DeliveryAlone, MessageAlone
  <1>2. ASSUME Shrinks, NEW p \in Posters, Stage(p, "idle", "send"), Allowed, row' = "sending"
        PROVE  Goal
    <2>1. Active = {} /\ Live = {}
      BY <1>2 DEF Allowed, MessageAlone
    <2>2. \A q \in Posters : poster[q].stage = "idle"
      BY <1>2 DEF Allowed, DeliveryAlone
    <2>3. /\ poster'[p].stage = "send"
          /\ \A q \in Posters : q # p => poster'[q].stage = "idle"
      BY <1>2, <2>2, <1>a DEF Stage, PosterTypes, Deliveries
    <2>4. QED
      BY <1>2, <2>1, <2>3 DEF DeliveryAlone, MessageAlone, Delivered
  <1>3. ASSUME Shrinks, NEW p \in Posters, poster[p].stage \in Delivered, row' # "none",
               \A q \in Posters : q # p => poster'[q] = poster[q],
               \/ poster'[p].stage = "idle"
               \/ poster'[p].stage \in Delivered /\ poster'[p].msg = poster[p].msg
        PROVE  Goal
    <2>1. \A q \in Posters : q # p => poster'[q].stage = "idle"
      BY <1>3 DEF DeliveryAlone, Delivered
    <2>2. Active = {} /\ Live \subseteq {poster[p].msg}
      BY <1>3 DEF DeliveryAlone, Delivered
    <2>3. QED
      BY <1>3, <2>1, <2>2 DEF DeliveryAlone, MessageAlone, Delivered
  <1>4. CASE FanoutStarts
    <2>1. Shrinks
      BY <1>4 DEF FanoutStarts, posts, Active, Live
    <2>2. QED
      BY <2>1, <1>1, <1>2, <1>4 DEF FanoutStarts, Posters
  <1>5. CASE OwnerStarts
    <2>1. Shrinks
      BY <1>5 DEF OwnerStarts, posts, Active, Live
    <2>2. QED
      BY <2>1, <1>2, <1>5 DEF OwnerStarts, Posters
  <1>6. CASE TrackFanout
    <2>1. /\ Active = {} /\ Live \subseteq {poster["fanout"].msg} /\ row # "none"
          /\ poster["fanout"].msg \in Messages
      BY <1>6 DEF TrackFanout, DeliveryAlone, MessagesInStep, DeliveredApart, Delivered, Posters
    <2>2. \A q \in Posters : poster'[q].stage = "idle"
      BY <1>6, <1>a DEF TrackFanout, Rest, DeliveryAlone, PosterTypes, Posters
    <2>3. Active' \subseteq {poster["fanout"].msg} /\ Live' = Live
      BY <2>1, <1>6, <1>a DEF TrackFanout, Active, Live, TrackTypes
    <2>4. row' # "none"
      BY <2>1, <1>6 DEF TrackFanout, guards
    <2>5. QED
      BY <2>1, <2>2, <2>3, <2>4 DEF DeliveryAlone, MessageAlone, Delivered
  <1>7. CASE OwnerUpsert
    <2>1. Shrinks
      BY <1>7 DEF OwnerUpsert, posts, Active, Live
    <2>2. poster["owner"].stage \in Delivered /\ row' # "none"
      BY <1>7 DEF OwnerUpsert, Delivered
    <2>3. /\ \A q \in Posters : q # "owner" => poster'[q] = poster[q]
          /\ poster'["owner"].stage = "idle"
      BY <1>7, <1>a DEF OwnerUpsert, Rest, PosterTypes, Posters
    <2>4. QED
      BY <2>1, <2>2, <2>3, <1>3 DEF Posters
  <1>8. ASSUME NEW p \in Posters, MarkPosted(p) \/ RecordAlert(p)
        PROVE  Goal
    <2>1. Shrinks
      BY <1>8 DEF MarkPosted, RecordAlert, posts, Active, Live
    <2>2. poster[p].stage \in Delivered
      BY <1>8 DEF MarkPosted, RecordAlert, Stage, Delivered
    <2>3. /\ \A q \in Posters : q # p => poster'[q] = poster[q]
          /\ poster'[p].stage \in Delivered /\ poster'[p].msg = poster[p].msg
      BY <1>8, <1>a DEF MarkPosted, RecordAlert, Stage, PosterTypes, Deliveries, Delivered
    <2>4. row' # "none"
      BY <1>8, <2>2 DEF MarkPosted, RecordAlert, DeliveryAlone, Delivered
    <2>5. QED
      BY <2>1, <2>2, <2>3, <2>4, <1>3
  <1>9. CASE ClearMemory
    BY <1>9 DEF ClearMemory, Mishap, Unshared
  <1>10. ASSUME NEW s \in Sweepers, CommitSweep(s)
         PROVE  Goal
    <2>1. Shrinks /\ UNCHANGED <<poster, shown>>
      BY <1>10, <1>c DEF CommitSweep, Live, TrackFanout, Persist, Active, SweepAlone
    <2>2. CASE Retired(s) = {}
      BY <2>1, <2>2, <1>10, <1>1 DEF CommitSweep, Persist, Released
    <2>3. ASSUME NEW m \in Messages, sweep[s].write[m] = "expired"
          PROVE  Goal
      <3>1. m \in Active /\ shown[m] # "live"
        BY <2>3 DEF SweepAlone, Written, MessagesInStep, SweepsOfTracked
      <3>2. Active \cup Live \subseteq {m}
        BY <3>1 DEF MessageAlone
      <3>3. Active' = {} /\ Live' = {}
        BY <3>1, <3>2, <2>1, <2>3, <1>10 DEF Active, Live, CommitSweep, Persist, Written
      <3>4. \A p \in Posters : poster'[p].stage = "idle"
        BY <3>1, <2>1 DEF DeliveryAlone
      <3>5. QED
        BY <3>3, <3>4 DEF DeliveryAlone, MessageAlone, Delivered
    <2>4. QED
      BY <2>2, <2>3 DEF Retired
  <1>11. ASSUME NEW s \in Sweepers, CommitEarly(s)
         PROVE  FALSE
    BY <1>11, NoEarlyCommit
  <1>12. ASSUME NEW p \in Posters, SendMessage(p)
         PROVE  Goal
    <2>1. PICK m \in Messages : /\ shown' = [shown EXCEPT ![m] = "live"]
                                /\ poster' = [poster EXCEPT ![p] = [stage |-> "posted", msg |-> m]]
      BY <1>12 DEF SendMessage
    <2>2. Live = {} /\ Active = {} /\ row # "none" /\ UNCHANGED <<row, track>>
      BY <1>12 DEF SendMessage, DeliveryAlone, guards
    <2>3. Live' \subseteq {m} /\ Active' = {}
      BY <2>1, <2>2, <1>a DEF Live, Active, ShownTypes
    <2>4. /\ poster'[p] = [stage |-> "posted", msg |-> m]
          /\ \A q \in Posters : q # p => poster'[q].stage = "idle"
      BY <2>1, <1>12, <1>a DEF SendMessage, DeliveryAlone, PosterTypes
    <2>5. QED
      BY <2>2, <2>3, <2>4 DEF DeliveryAlone, MessageAlone, Delivered
  <1>13. ASSUME NEW p \in Posters, SendFails(p)
         PROVE  Goal
    <2>1. Active' = {} /\ Live' = {}
      BY <1>13 DEF SendFails, DeliveryAlone, posts, Active, Live
    <2>2. \A q \in Posters : poster'[q].stage = "idle"
      BY <1>13, <1>a DEF SendFails, Rest, DeliveryAlone, PosterTypes
    <2>3. QED
      BY <2>1, <2>2 DEF DeliveryAlone, MessageAlone, Delivered
  <1>14. ASSUME NEW p \in Posters, AbortDelivery(p)
         PROVE  Goal
    <2>1. Shrinks /\ UNCHANGED <<row, alert>>
      BY <1>14 DEF AbortDelivery, posts, guards, Active, Live
    <2>2. \A q \in Posters : poster'[q].stage = "idle"
      BY <1>14, <1>a DEF AbortDelivery, Rest, DeliveryAlone, PosterTypes
    <2>3. QED
      BY <2>1, <2>2 DEF DeliveryAlone, MessageAlone, Delivered
  <1>15. CASE UNCHANGED <<row, alert, poster>> /\ ~TrackFanout /\ ~\E p \in Posters : SendMessage(p)
    BY <1>15, <1>1, <1>b, <1>c
  <1>16. CASE \/ Flip \/ Verify \/ Ingest \/ UNCHANGED vars
              \/ \E s \in Sweepers : BeginSweep(s) \/ TearSweep(s) \/ \E m \in Messages : RetireMessage(s, m)
              \/ \E m \in Messages : DeleteMessage(m)
    <2>1. UNCHANGED <<row, alert, poster>>
      BY <1>16 DEF Flip, Verify, Ingest, vars, BeginSweep, TearSweep, RetireMessage, DeleteMessage, guards
    <2>2. QED
      BY <2>1, <1>6, <1>12, <1>15
  <1>17. QED
    BY <1>4, <1>5, <1>6, <1>7, <1>8, <1>9, <1>10, <1>11, <1>12, <1>13, <1>14, <1>16
    DEF Next, Deliver, Sweep

LEMMA AloneStep ==
    ASSUME TypeOK, MessagesInStep, Alone, [Next]_vars
    PROVE  Alone'
  <1> SUFFICES ASSUME Unshared'
               PROVE  DeliveryAlone' /\ MessageAlone' /\ SweepAlone'
    BY DEF Alone
  <1>1. Unshared
    BY ExcusesStay DEF Unshared
  <1>2. QED
    BY <1>1, DeliveryAloneStep, SweepAloneStep DEF Alone

-----------------------------------------------------------------------------
LEMMA Start == Init => DealInv
  <1> SUFFICES ASSUME Init
               PROVE  DealInv
    OBVIOUS
  <1>1. TypeOK
    <2>1. ProofTypes /\ GuardTypes /\ MishapTypes /\ ShownTypes
      <3>1. flips \in 0 .. MaxFlips /\ mishaps \in 0 .. MaxMishaps
        BY BoundAssumption DEF Init
      <3>2. world \in BOOLEAN /\ proof \in BOOLEAN /\ fresh \in BOOLEAN
        BY DEF Init
      <3>3. stale \subseteq Messages /\ ended \subseteq Messages /\ excused \subseteq Excuses
        BY DEF Init
      <3>4. ProofTypes
        BY <3>1, <3>2, <3>3 DEF Init, ProofTypes
      <3>5. QED
        BY <3>1, <3>3, <3>4 DEF Init, GuardTypes, ShownTypes, MishapTypes, Looks
    <2>2. TrackTypes
      BY BoundAssumption DEF Init, TrackTypes, Rows
    <2>3. PosterTypes
      BY DEF Init, PosterTypes, Deliveries, Stages
    <2>4. SweepTypes
      BY NoSweepType DEF Init, SweepTypes
    <2>5. QED
      BY <2>1, <2>2, <2>3, <2>4, TypesAreTypeOK DEF Types
  <1>2. \A s \in Sweepers : sweep[s] = NoSweep
    BY DEF Init
  <1>3. \A s \in Sweepers, m \in Messages : m \notin sweep[s].todo /\ sweep[s].write[m] = "none"
    BY <1>2 DEF NoSweep
  <1>4. Active = {} /\ Live = {} /\ \A s \in Sweepers : Written(s) = {} /\ Retired(s) = {}
    BY <1>3 DEF Init, Active, Live, Written, Retired
  <1>5. \A p \in Posters : poster[p].stage = "idle"
    BY DEF Init
  <1>6. EditsCounted /\ MessagesInStep
    BY <1>3, <1>5 DEF Init, EditsCounted, MessagesInStep, TrackedWereSent, DeliveredApart, Delivered,
                      SweepsOfTracked
  <1>7. EndedInStep
    <2>1. \A s \in Sweepers : sweep[s].todo = {}
      BY <1>2 DEF NoSweep
    <2>2. QED
      BY <2>1 DEF Init, EndedInStep, ExpiredHadEnded
  <1>8. Alone
    <2>1. \A s \in Sweepers : sweep[s].todo = {}
      BY <1>2 DEF NoSweep
    <2>2. QED
      BY <2>1, <1>2, <1>4, <1>5 DEF Alone, DeliveryAlone, MessageAlone, SweepAlone, Delivered
  <1>9. Standing
    BY <1>5 DEF Init, Standing, Delivered
  <1>10. QED
    BY <1>1, <1>6, <1>7, <1>8, <1>9 DEF DealInv

(* The life of a deal keeps DealInv, whatever the bounds and the sweepers. *)
THEOREM Invariance == Spec => []DealInv
  <1>1. DealInv /\ [Next]_vars => DealInv'
    BY TypeStep, EditsStep, MessagesStep, EndedStep, AloneStep, StandingStep DEF DealInv
  <1>2. QED
    BY <1>1, Start, PTL DEF Spec

(* The variables keep their types, and no row counts more edits than MaxEdits. *)
THEOREM TypeCorrect == Spec => []TypeOK
  BY Invariance, PTL DEF DealInv

(* Only a message whose deal had ended is ever marked as expired. *)
THEOREM ExpiredOnlyAfterTheEnd == Spec => []ExpiredHadEnded
  <1>1. DealInv => ExpiredHadEnded
    BY DEF DealInv, EndedInStep
  <1>2. QED
    BY <1>1, Invariance, PTL

(* Unless two sweeps overlapped or the memory was cleared, the server shows one
   live message of the deal at most. *)
THEOREM OneLive == Spec => []OneLiveMessage
  <1>1. DealInv => OneLiveMessage
    <2> SUFFICES ASSUME DealInv, Unshared
                 PROVE  ~(Cardinality(Live) > 1)
      BY DEF OneLiveMessage, Unshared
    <2>1. \A m, n \in Live : m = n
      BY DEF DealInv, Alone, MessageAlone
    <2>2. CASE Live = {}
      BY <2>2, FS_EmptySet
    <2>3. ASSUME NEW m \in Live
          PROVE  Cardinality(Live) = 1
      <3>1. Live = {m}
        BY <2>1, <2>3
      <3>2. QED
        BY <3>1, FS_Singleton
    <2>4. QED
      BY <2>2, <2>3
  <1>2. QED
    BY <1>1, Invariance, PTL

(* Unless something was torn, unsure or deleted by hand, a guard stands for a live
   message or for work under way. *)
THEOREM GuardsStand == Spec => []GuardStandsForMessage
  <1>1. DealInv => GuardStandsForMessage
    <2> SUFFICES ASSUME DealInv, Unorphaned, row # "none" \/ alert
                 PROVE  Live # {} \/ UnderWay
      BY DEF GuardStandsForMessage, Unorphaned
    <2>1. MessageStands \/ \E p \in Posters : poster[p].stage = "send"
      BY DEF DealInv, TypeOK, Standing
    <2>2. ASSUME NEW s \in Sweepers, Retired(s) # {}
          PROVE  sweep[s] # NoSweep
      BY <2>2, NoSweepIsEmpty
    <2>3. QED
      BY <2>1, <2>2 DEF MessageStands, Releasing, UnderWay
  <1>2. QED
    BY <1>1, Invariance, PTL

=============================================================================
