------------------------------ MODULE Readiness ------------------------------
(***************************************************************************)
(* wait_for_readiness of readiness.py: probes of the monitor of a service  *)
(* that is being deployed, on a clock.  probe_status caps a whole HTTP     *)
(* exchange with a timer, so a probe takes anything from no time to its    *)
(* limit; between probes the loop sleeps.                                  *)
(*                                                                         *)
(* The service is ready (availability UP and the expected version), not    *)
(* ready, or refuses the monitor token.  It may change while a probe is    *)
(* under way: a probe finds any state the service was in meanwhile.        *)
(***************************************************************************)
EXTENDS Naturals

CONSTANTS Timeout,     \* timeout_seconds
          Interval,    \* interval_seconds
          ProbeLimit,  \* the 5 seconds a probe may take at most
          MaxChanges   \* how often the service changes (a bound)

ASSUME TimesAssumption ==
  Timeout \in Nat \ {0} /\ Interval \in Nat \ {0} /\ ProbeLimit \in Nat \ {0}
ASSUME BoundAssumption == MaxChanges \in Nat

VARIABLES
  clock,        \* seconds since the wait began
  service,      \* what the monitor answers now
  since,        \* when the service last became ready
  changes,      \* how often it has changed
  at,           \* "loop", "probe", "sleep", and the ways the wait ends
  limit,        \* when the probe, or the sleep, under way ends at the latest
  seen,         \* the states of the service during the probe under way
  consecutive   \* ready probes in a row

waitVars == <<clock, service, since, changes, at, limit, seen, consecutive>>

States == {"ready", "not ready", "refused"}
Ends == {"returned", "timed out", "refused"}

\* The uniform type of the state.
WaitTypeOK ==
  /\ clock \in 0..Timeout
  /\ service \in States
  /\ since \in 0..Timeout
  /\ changes \in 0..MaxChanges
  /\ at \in {"loop", "probe", "sleep"} \cup Ends
  /\ limit \in 0..Timeout
  /\ seen \subseteq States
  /\ consecutive \in 0..2

WaitInit ==
  /\ clock = 0
  /\ service \in States
  /\ since = 0
  /\ changes = 0
  /\ at = "loop"
  /\ limit = 0
  /\ seen = {}
  /\ consecutive = 0

Lesser(a, b) == IF a < b THEN a ELSE b

\* A fault for the sensitivity checks: a probe may take its full limit at the deadline too.
UncappedLoop ==
  /\ at = "loop"
  /\ \/ /\ clock >= Timeout
        /\ at' = "timed out"
        /\ UNCHANGED <<limit, seen>>
     \/ /\ clock < Timeout
        /\ at' = "probe"
        /\ limit' = clock + ProbeLimit
        /\ seen' = {service}
  /\ UNCHANGED <<clock, service, since, changes, consecutive>>

\* A fault for the sensitivity checks: the loop does not look at its deadline.
EndlessLoop ==
  /\ at = "loop"
  /\ at' = "probe"
  /\ limit' = clock + Lesser(ProbeLimit, Timeout - clock)
  /\ seen' = {service}
  /\ UNCHANGED <<clock, service, since, changes, consecutive>>

\* The head of the loop: the deadline is over, or a probe begins.
Loop ==
  /\ at = "loop"
  /\ \/ /\ clock >= Timeout
        /\ at' = "timed out"
        /\ UNCHANGED <<limit, seen>>
     \/ /\ clock < Timeout
        /\ at' = "probe"
        /\ limit' = clock + Lesser(ProbeLimit, Timeout - clock)
        /\ seen' = {service}
  /\ UNCHANGED <<clock, service, since, changes, consecutive>>

\* A fault for the sensitivity checks: one ready probe more than two is asked for.
CountedToThree(n) ==
  /\ consecutive' = n
  /\ \/ /\ n = 3
        /\ at' = "returned"
        /\ UNCHANGED limit
     \/ /\ n # 3 /\ clock < Timeout
        /\ at' = "sleep"
        /\ limit' = clock + Lesser(Interval, Timeout - clock)
     \/ /\ n # 3 /\ clock >= Timeout
        /\ at' = "loop"
        /\ UNCHANGED limit

\* After a probe: two ready ones in a row end the wait, else the loop sleeps.
Counted(n) ==
  /\ consecutive' = n
  /\ \/ /\ n = 2
        /\ at' = "returned"
        /\ UNCHANGED limit
     \/ /\ n # 2 /\ clock < Timeout
        /\ at' = "sleep"
        /\ limit' = clock + Lesser(Interval, Timeout - clock)
     \/ /\ n # 2 /\ clock >= Timeout
        /\ at' = "loop"
        /\ UNCHANGED limit

\* The monitor answers before the limit: one of the states it was in.
Answer ==
  /\ at = "probe"
  /\ clock < limit
  /\ \/ "ready" \in seen /\ Counted(consecutive + 1)
     \/ "not ready" \in seen /\ Counted(0)
     \/ "refused" \in seen /\ at' = "refused" /\ UNCHANGED <<limit, consecutive>>
  /\ seen' = {}
  /\ UNCHANGED <<clock, service, since, changes>>

\* The timer goes off: the probe found no connection.
Expire ==
  /\ at = "probe"
  /\ clock = limit
  /\ Counted(0)
  /\ seen' = {}
  /\ UNCHANGED <<clock, service, since, changes>>

Wake ==
  /\ at = "sleep"
  /\ clock = limit
  /\ at' = "loop"
  /\ UNCHANGED <<clock, service, since, changes, limit, seen, consecutive>>

(***************************************************************************)
(* Time passes in a probe and in a sleep, never past the limit.  A service *)
(* that has been ready all along answers before the limit of a full probe  *)
(* is reached; one that is cut short by the deadline need not.             *)
(***************************************************************************)
Prompt == seen = {"ready"} /\ limit < Timeout

Tick ==
  /\ at \in {"probe", "sleep"}
  /\ clock < limit
  /\ at = "probe" /\ Prompt => clock + 1 < limit
  /\ clock' = clock + 1
  /\ UNCHANGED <<service, since, changes, at, limit, seen, consecutive>>

\* The deployment goes on: the service becomes ready, goes down, or refuses the token.
Change ==
  /\ at \notin Ends
  /\ changes < MaxChanges
  /\ changes' = changes + 1
  /\ service' \in States \ {service}
  /\ since' = clock
  /\ seen' = IF at = "probe" THEN seen \cup {service'} ELSE seen
  /\ UNCHANGED <<clock, at, limit, consecutive>>

Waiting == Loop \/ Answer \/ Expire \/ Wake \/ Tick

WaitNext == Waiting \/ Change

WaitSpec == WaitInit /\ [][WaitNext]_waitVars

\* The loop runs on and time passes: the process is scheduled.
WaitFairness == WF_waitVars(Waiting)

FairWaitSpec == WaitSpec /\ WaitFairness

-----------------------------------------------------------------------------
\* The worst a ready service has to wait: the probe under way, two sleeps, two probes.
Enough == 3 * ProbeLimit + 2 * Interval

\* A service that was ready for long enough before the deadline is never reported
\* as timed out, at whatever moment of the loop it became ready.
ReadyNotTimedOut ==
  at = "timed out" /\ service = "ready" => Timeout - since < Enough

\* The wait ends, and no later than its deadline: no probe and no sleep passes it.
EndsInTime == <>(at \in Ends /\ clock <= Timeout)
=============================================================================
