------------------------------- MODULE MCWsRun ------------------------------
(* WsRun for TLC: a plain scenario in each suite, and in the second one    *)
(* that is local-only and one that is unfit and repeats its name.          *)
EXTENDS WsRun

CONSTANTS smoke, contract

Scenario(id, suite, name, local, fit) ==
  [id |-> id, suite |-> suite, name |-> name, local |-> local, fit |-> fit]

MCScenarios ==
  {Scenario(1, smoke, 1, FALSE, TRUE), Scenario(2, contract, 1, FALSE, TRUE),
   Scenario(3, contract, 2, TRUE, TRUE), Scenario(4, contract, 2, FALSE, FALSE)}
=============================================================================
