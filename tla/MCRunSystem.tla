---------------------------- MODULE MCRunSystem -----------------------------
(* Pipelines for model checking RunSystem. *)
EXTENDS RunSystem

(* Three steps in two stages; the second stage is manual, and the first is *)
(* left through a gate in GateThenManual.                                  *)
TwoStages == <<1, 1, 2>>
SecondManual == <<"auto", "manual">>
GateThenManual == <<"gate", "manual">>

(* Two steps in two stages. *)
OneEach == <<1, 2>>
=============================================================================
