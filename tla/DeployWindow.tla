---------------------------- MODULE DeployWindow ----------------------------
(***************************************************************************)
(* ci/deploy/deploy.py with ci/kuma/kuma_client.py, seen along the clock:  *)
(* deployment attempts that stop and start services of a monitored group,  *)
(* each inside a maintenance window it asks Uptime Kuma for.  Kuma and the *)
(* attempts only exchange messages: a request may be lost, may be carried  *)
(* out after the client stopped waiting, and its answer may never arrive.  *)
(* What is built and which image runs is the business of DeployRollout.    *)
(*                                                                         *)
(* The clock counts ticks.  A step that runs under a timeout has to be     *)
(* over by its deadline, so the clock waits for it there.                  *)
(***************************************************************************)
EXTENDS Naturals

CONSTANTS
    Attempts,          \* runs of deploy(), each with a title of its own
    Monitored,         \* those with use_kuma: production, with a config
    Duration,          \* KUMA_DURATION_MINUTES
    DownTimeout,       \* DOWN_TIMEOUT_SECONDS
    UpTimeout,         \* UP_TIMEOUT_SECONDS
    ReadinessTimeout,  \* READINESS_TIMEOUT_SECONDS
    Margin,            \* WINDOW_MARGIN_SECONDS
    ActivationBudget,  \* KUMA_ACTIVATION_BUDGET_SECONDS
    Overrun,           \* how late a timeout may strike: killing ssh, a last poll
    Skew,              \* how much earlier than asked Kuma may end a window
    Horizon,           \* bound: the last tick of the clock
    None               \* no window

ASSUME MonitoredAssumption == Monitored \subseteq Attempts
ASSUME TimesAssumption ==
    /\ {Duration, DownTimeout, UpTimeout, ReadinessTimeout, Margin,
        ActivationBudget, Overrun, Skew, Horizon} \subseteq Nat
    \* What the margin is for.
    /\ 3 * Overrun + Skew < Margin
    \* "Kuma duration must cover deployment and verification"
    /\ Duration >= DownTimeout + UpTimeout + ReadinessTimeout + Margin
                     + ActivationBudget
ASSUME NoneAssumption == None \notin [end : Nat, linked : BOOLEAN]

\* needed: what has to remain of a window before services may be stopped.
Needed == DownTimeout + UpTimeout + ReadinessTimeout + Margin

VARIABLES
    now,         \* the time
    pc,          \* where each attempt is
    requestedAt, \* window_requested_at
    deadline,    \* when the command an attempt runs has to be over
    wire,        \* the request Kuma has yet to carry out, or NoRequest
    window,      \* Kuma's row for the attempt's title, or None
    verified     \* attempts whose verify_release returned

vars == <<now, pc, requestedAt, deadline, wire, window, verified>>

Interrupting == {"down", "up", "verify"}
Locations == {"start", "begin", "adding", "linking", "confirming", "confirmed",
              "ending", "deleting", "done", "failed"} \union Interrupting
Windows == [end : Nat, linked : BOOLEAN]
\* Requests that change Kuma's rows; end matters to addMaintenance only.
Requests == [op : {"none", "add", "link", "delete"}, end : Nat]
NoRequest == [op |-> "none", end |-> 0]

\* Kuma silences the group for the sake of this window.
UnderMaintenance(a) == /\ window[a] # None
                       /\ window[a].linked
                       /\ now < window[a].end

TypeOK ==
    /\ now \in Nat
    /\ pc \in [Attempts -> Locations]
    /\ requestedAt \in [Attempts -> Nat]
    /\ deadline \in [Attempts -> Nat]
    /\ wire \in [Attempts -> Requests]
    /\ window \in [Attempts -> Windows \union {None}]
    /\ verified \subseteq Attempts

Init ==
    /\ now = 0
    /\ pc = [a \in Attempts |-> "start"]
    /\ requestedAt = [a \in Attempts |-> 0]
    /\ deadline = [a \in Attempts |-> 0]
    /\ wire = [a \in Attempts |-> NoRequest]
    /\ window = [a \in Attempts |-> None]
    /\ verified = {}

Goto(a, l) == pc' = [pc EXCEPT ![a] = l]

\* The attempt runs a command that is over within t ticks and the overrun.
Launch(a, l, t) == /\ Goto(a, l)
                   /\ deadline' = [deadline EXCEPT ![a] = now + t + Overrun]

Send(a, op, end) == wire' = [wire EXCEPT ![a] = [op |-> op, end |-> end]]

\* The attempt is over, its local variables go.
Leave(a, l) == /\ Goto(a, l)
               /\ requestedAt' = [requestedAt EXCEPT ![a] = 0]
               /\ deadline' = [deadline EXCEPT ![a] = 0]

----------------------------------------------------------------------------
(* KumaClient.begin.                                                       *)

\* A fault for the sensitivity checks: the moment of the request is not noted.
UnnotedRequest(a) ==
    /\ pc[a] = "start"
    /\ a \in Monitored
    /\ Goto(a, "begin")
    /\ requestedAt' = [requestedAt EXCEPT ![a] = None]
    /\ UNCHANGED <<now, deadline, wire, window, verified>>

\* The image is on the target; the client has logged in: window_requested_at.
Request(a) ==
    /\ pc[a] = "start"
    /\ a \in Monitored
    /\ Goto(a, "begin")
    /\ requestedAt' = [requestedAt EXCEPT ![a] = now]
    /\ UNCHANGED <<now, deadline, wire, window, verified>>

\* The group is as configured and the title is free: addMaintenance, with an
\* end counted from this moment and rounded down.
AddMaintenance(a) ==
    /\ pc[a] = "begin"
    /\ \E cut \in 0 .. Skew :
          /\ cut <= now + Duration
          /\ Send(a, "add", now + Duration - cut)
    /\ Goto(a, "adding")
    /\ UNCHANGED <<now, requestedAt, deadline, window, verified>>

\* Its answer brings the maintenanceID: addMonitorMaintenance.
LinkMonitor(a) ==
    /\ pc[a] = "adding"
    /\ wire[a] = NoRequest
    /\ window[a] # None
    /\ Send(a, "link", 0)
    /\ Goto(a, "linking")
    /\ UNCHANGED <<now, requestedAt, deadline, window, verified>>

\* The answer to that, and linked_monitors(ident) = {group_id}.
CheckLink(a) ==
    /\ pc[a] = "linking"
    /\ wire[a] = NoRequest
    /\ window[a].linked
    /\ Goto(a, "confirming")
    /\ UNCHANGED <<now, requestedAt, deadline, wire, window, verified>>

\* maintenance(ident) has the status "under-maintenance": begin returns.
Confirm(a) ==
    /\ pc[a] = "confirming"
    /\ UnderMaintenance(a)
    /\ Goto(a, "confirmed")
    /\ UNCHANGED <<now, requestedAt, deadline, wire, window, verified>>

----------------------------------------------------------------------------
(* deploy, once the window is there or none is wanted.                     *)

\* A fault for the sensitivity checks: services are stopped however little remains.
UncheckedStop(a) ==
    /\ \/ pc[a] = "start" /\ a \notin Monitored
       \/ pc[a] = "confirmed"
    /\ Launch(a, "down", DownTimeout)
    /\ UNCHANGED <<now, requestedAt, wire, window, verified>>

\* remaining >= needed: docker compose down.
Stop(a) ==
    /\ \/ pc[a] = "start" /\ a \notin Monitored
       \/ /\ pc[a] = "confirmed"
          /\ now - requestedAt[a] + Needed <= Duration
    /\ Launch(a, "down", DownTimeout)
    /\ UNCHANGED <<now, requestedAt, wire, window, verified>>

\* It returned 0 in time: docker compose up -d.
Start(a) ==
    /\ pc[a] = "down"
    /\ Launch(a, "up", UpTimeout)
    /\ UNCHANGED <<now, requestedAt, wire, window, verified>>

\* It returned 0 in time: verify_release.
Verify(a) ==
    /\ pc[a] = "up"
    /\ Launch(a, "verify", ReadinessTimeout)
    /\ UNCHANGED <<now, requestedAt, wire, window, verified>>

\* The release shows before the deadline.
Verified(a) ==
    /\ pc[a] = "verify"
    /\ IF a \in Monitored
       THEN Goto(a, "ending") /\ UNCHANGED <<requestedAt, deadline>>
       ELSE Leave(a, "done")
    /\ verified' = verified \union {a}
    /\ UNCHANGED <<now, wire, window>>

\* A fault for the sensitivity checks: a failed attempt takes its window along.
TidyFail(a) ==
    /\ pc[a] \notin {"done", "failed"}
    /\ Leave(a, "failed")
    /\ window' = [window EXCEPT ![a] = None]
    /\ UNCHANGED <<now, wire, verified>>

\* A command fails or times out, Kuma rejects, cannot be reached or does not
\* answer, too little of the window remains, or the job is killed.  Nothing
\* is undone, and nothing is done about the window.
Fail(a) ==
    /\ pc[a] \notin {"done", "failed"}
    /\ Leave(a, "failed")
    /\ UNCHANGED <<now, wire, window, verified>>

----------------------------------------------------------------------------
(* KumaClient.end, by a client of its own.                                 *)

\* The row has the title and the group: deleteMaintenance.
DeleteMaintenance(a) ==
    /\ pc[a] = "ending"
    /\ window[a] # None
    /\ window[a].linked
    /\ Send(a, "delete", 0)
    /\ Goto(a, "deleting")
    /\ UNCHANGED <<now, requestedAt, deadline, window, verified>>

\* A fault for the sensitivity checks: the answer is taken for the closure.
UnverifiedClosed(a) ==
    /\ pc[a] = "deleting"
    /\ wire[a] = NoRequest
    /\ Leave(a, "done")
    /\ UNCHANGED <<now, wire, window, verified>>

\* Its answer, and a maintenance list without the row: deploy returns.
Closed(a) ==
    /\ pc[a] = "deleting"
    /\ wire[a] = NoRequest
    /\ window[a] = None
    /\ Leave(a, "done")
    /\ UNCHANGED <<now, wire, window, verified>>

----------------------------------------------------------------------------
(* Kuma, the network and the clock.                                        *)

\* Kuma carries a request out, whether or not anyone still waits for it.
KumaApplies(a) ==
    /\ wire[a] # NoRequest
    /\ window' = [window EXCEPT ![a] =
                    CASE wire[a].op = "add" -> [end |-> wire[a].end,
                                                linked |-> FALSE]
                      [] wire[a].op = "link" -> [@ EXCEPT !.linked = TRUE]
                      [] wire[a].op = "delete" -> None]
    /\ wire' = [wire EXCEPT ![a] = NoRequest]
    /\ UNCHANGED <<now, pc, requestedAt, deadline, verified>>

\* The request never gets there.
Lost(a) ==
    /\ wire[a] # NoRequest
    /\ wire' = [wire EXCEPT ![a] = NoRequest]
    /\ UNCHANGED <<now, pc, requestedAt, deadline, window, verified>>

Tick ==
    /\ now < Horizon
    /\ \A a \in Attempts : pc[a] \in Interrupting => now < deadline[a]
    /\ now' = now + 1
    /\ UNCHANGED <<pc, requestedAt, deadline, wire, window, verified>>

Next == \/ \E a \in Attempts :
              \/ Request(a) \/ AddMaintenance(a) \/ LinkMonitor(a)
              \/ CheckLink(a) \/ Confirm(a)
              \/ Stop(a) \/ Start(a) \/ Verify(a) \/ Verified(a) \/ Fail(a)
              \/ DeleteMaintenance(a) \/ Closed(a)
              \/ KumaApplies(a) \/ Lost(a)
        \/ Tick

Spec == Init /\ [][Next]_vars

----------------------------------------------------------------------------
(* Properties.                                                             *)

\* From docker compose down until the release is verified or the attempt has
\* failed, Kuma silences the group for the attempt's own window, however long
\* the activation took and whatever other attempts do to theirs.
CoveredInterruption ==
    \A a \in Monitored : pc[a] \in Interrupting => UnderMaintenance(a)

\* A confirmed window goes away before its end only for an attempt whose
\* release has been verified: a failed one "remains until its automatic
\* expiry".
FailureKeepsWindow ==
    [][\A a \in Attempts :
          UnderMaintenance(a) /\ ~UnderMaintenance(a)' /\ now' = now
              => a \in verified]_vars

\* When deploy() returns, the release was verified, the window it opened is
\* gone and no request of its own is left that could open it again.
SuccessIsClean ==
    \A a \in Attempts :
        pc[a] = "done" => a \in verified /\ window[a] = None /\ wire[a] = NoRequest
=============================================================================
