---------------------------- MODULE MCTokenCache ----------------------------
(* Constants of TokenCache for TLC.                                         *)
EXTENDS TokenCache

CONSTANTS aliceToken, bobToken, alice, bob

MCBearer == [t \in Tokens |-> IF t = bobToken THEN bob ELSE alice]
=============================================================================
