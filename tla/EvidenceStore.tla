---------------------------- MODULE EvidenceStore ----------------------------
(***************************************************************************)
(* What the raw layer promises about provider evidence, without files:     *)
(* a write-once map from an artifact location to the batch published       *)
(* there, and a set of confirmations that are never withdrawn.             *)
(***************************************************************************)
CONSTANTS
  Keys,        \* artifact locations
  Offers,      \* every batch a caller could hand over
  KeyOf(_),    \* the location a batch belongs to
  None         \* nothing published here yet

VARIABLES
  offered,     \* batches some caller has handed over
  evidence,    \* location -> the batch published there, or None
  confirmed    \* batches a caller was told are stored

vars == <<offered, evidence, confirmed>>

Init ==
  /\ offered = {}
  /\ evidence = [k \in Keys |-> None]
  /\ confirmed = {}

Offer(c) ==
  /\ offered' = offered \cup {c}
  /\ UNCHANGED <<evidence, confirmed>>

\* Publication is all or nothing, of an offered batch, at a free location.
Publish(c) ==
  /\ c \in offered
  /\ evidence[KeyOf(c)] = None
  /\ evidence' = [evidence EXCEPT ![KeyOf(c)] = c]
  /\ UNCHANGED <<offered, confirmed>>

\* Only what is stored can be confirmed, by its publisher or by a replay.
Confirm(c) ==
  /\ evidence[KeyOf(c)] = c
  /\ confirmed' = confirmed \cup {c}
  /\ UNCHANGED <<offered, evidence>>

Next == \E c \in Offers : Offer(c) \/ Publish(c) \/ Confirm(c)

Spec == Init /\ [][Next]_vars
==============================================================================
