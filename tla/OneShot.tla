------------------------------ MODULE OneShot ------------------------------
(***************************************************************************)
(* What a single-use token promises, with no rows or requests: it is issued *)
(* once, whoever presents it takes it out of circulation, and what it was    *)
(* presented for happens at most once.                                      *)
(***************************************************************************)
EXTENDS Naturals

CONSTANT Tokens

VARIABLES stage,   \* where each token is in its life
          used     \* how often what it stands for was done

oneShotVars == <<stage, used>>

Stages == {"blank", "live", "held", "honoured", "void"}

Moves == {<<"blank", "live">>, <<"live", "held">>, <<"held", "honoured">>,
          <<"live", "void">>, <<"held", "void">>}

OneShotInit ==
  /\ stage = [t \in Tokens |-> "blank"]
  /\ used = [t \in Tokens |-> 0]

(* Any number of tokens move together: a statement may revoke them all. *)
OneShotNext ==
  /\ stage' \in [Tokens -> Stages]
  /\ \A t \in Tokens : stage'[t] # stage[t] => <<stage[t], stage'[t]>> \in Moves
  /\ used' = [t \in Tokens |->
                used[t] + IF stage[t] = "held" /\ stage'[t] = "honoured" THEN 1 ELSE 0]

OneShotSpec == OneShotInit /\ [][OneShotNext]_oneShotVars

(* A token is used at most once. *)
AtMostOnce == \A t \in Tokens : used[t] = IF stage[t] = "honoured" THEN 1 ELSE 0
=============================================================================
