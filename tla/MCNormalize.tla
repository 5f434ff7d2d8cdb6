------------------------------ MODULE MCNormalize ------------------------------
\* The two normalisations side by side: a page of bars or a page of actions.
EXTENDS BarNormalization, ActionNormalization

BarIdle ==
  /\ provider = "none" /\ request = "none" /\ page = "none" /\ bstage = "idle"
  /\ bars = {} /\ bissues = {}
ActionIdle ==
  /\ source = "none" /\ from = 0 /\ until = 0 /\ answer = <<>> /\ astage = "idle"
  /\ actions = <<>> /\ aissues = {}

Init == (BarInit /\ ActionIdle) \/ (ActionInit /\ BarIdle)
Next == (BarNext /\ UNCHANGED avars) \/ (ActionNext /\ UNCHANGED bvars)
Spec == Init /\ [][Next]_<<bvars, avars>>
================================================================================
