----------------------------- MODULE RemoteCall -----------------------------
(***************************************************************************)
(* What KumaClient.call promises to begin and end, and what DeployWindow   *)
(* takes for granted of a request: Kuma carries a call out at most once,   *)
(* perhaps after the client gave up, and a call that returns has been      *)
(* carried out.                                                            *)
(***************************************************************************)
EXTENDS Naturals

VARIABLES phase,  \* no call, one asked, or the client gave up for good
          times   \* how often the last call asked has been carried out

vars == <<phase, times>>

Init == phase = "idle" /\ times = 0

Ask == phase = "idle" /\ phase' = "asked" /\ times' = 0

Carry == phase # "idle" /\ times = 0 /\ times' = 1 /\ UNCHANGED phase

\* The call returns; the next one may be asked at once.
Return == /\ phase = "asked" /\ times = 1
          /\ \/ phase' = "idle" /\ UNCHANGED times
             \/ phase' = "asked" /\ times' = 0

GiveUp == phase = "asked" /\ phase' = "failed" /\ UNCHANGED times

Next == Ask \/ Carry \/ Return \/ GiveUp

Spec == Init /\ [][Next]_vars
=============================================================================
