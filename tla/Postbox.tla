------------------------------ MODULE Postbox ------------------------------
(***************************************************************************)
(* What the outbox promises, with no rows, workers or retries: a message    *)
(* is posted once, reaches each of its recipients at most once and only      *)
(* while it is open, and once closed it never moves again.                  *)
(***************************************************************************)
EXTENDS Naturals

CONSTANTS Messages, Recipients

VARIABLES stage,      \* "blank", "open" or "closed", for each message
          delivered   \* how often each recipient is known to have got it

postboxVars == <<stage, delivered>>

PostboxInit ==
  /\ stage = [m \in Messages |-> "blank"]
  /\ delivered = [m \in Messages |-> [d \in Recipients |-> 0]]

Post(m) ==
  /\ stage[m] = "blank"
  /\ stage' = [stage EXCEPT ![m] = "open"]
  /\ UNCHANGED delivered

Deliver(m, d) ==
  /\ stage[m] = "open"
  /\ delivered[m][d] = 0
  /\ delivered' = [delivered EXCEPT ![m][d] = 1]
  /\ UNCHANGED stage

Close(m) ==
  /\ stage[m] = "open"
  /\ stage' = [stage EXCEPT ![m] = "closed"]
  /\ UNCHANGED delivered

PostboxNext ==
  \E m \in Messages : Post(m) \/ Close(m) \/ \E d \in Recipients : Deliver(m, d)

PostboxSpec == PostboxInit /\ [][PostboxNext]_postboxVars
=============================================================================
