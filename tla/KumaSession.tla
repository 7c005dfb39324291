---------------------------- MODULE KumaSession -----------------------------
(***************************************************************************)
(* ci/kuma/kuma_client.py: one deployment's begin and end, call by call    *)
(* over Engine.IO long polling.  A client posts a request, then polls      *)
(* until its acknowledgement is among the packets, answering pings.  Kuma  *)
(* acknowledges and broadcasts its maintenance list independently; a       *)
(* request may be lost, carried out late, rejected or never answered; an   *)
(* HTTP request fails at any time.  Other people edit and close windows.   *)
(***************************************************************************)
EXTENDS Integers, Sequences, FiniteSets, Functions

CONSTANTS
    Groups,          \* ids of Kuma's monitors; a name is as good as its id
    Group,           \* groupId of the deployment config
    GroupPath,       \* groupPath of the deployment config
    RequestTimeout,  \* timeout of one HTTP request
    CallTimeout,     \* the deadline of a call, counted from its posting
    MaxRows,         \* bound: how many such windows Kuma ever makes
    None

ASSUME GroupAssumption == Group \in Groups
ASSUME NoneAssumption == None \notin Groups /\ None \notin [id : Nat, linked : BOOLEAN]
ASSUME TimeoutAssumption == {RequestTimeout, CallTimeout, MaxRows} \subseteq Nat

VARIABLES
    monitors,  \* Kuma's monitors: is it a group, and its parent
    rows,      \* Kuma's maintenance windows of the attempt's title
    made,      \* the last id Kuma gave to one of them
    inbox,     \* the request Kuma has yet to carry out, or None
    packets,   \* what Kuma has for the next poll: acks, list, ping
    times,     \* history: how often the current call has been carried out
    pc,        \* the call begin or end is in, or where it ended
    http,      \* the HTTP request under way
    sequence,  \* the ident of the current call
    acks,      \* self.acks
    list,      \* self.events["maintenanceList"], or None
    group,     \* check_group: the monitor asked for
    path,      \* check_group: path, whose members are also visited
    window,    \* the maintenanceID begin got, or None
    timer,     \* age of the HTTP request
    left       \* how long the call goes on polling; 0 once deadline is past

kuma == <<monitors, rows, made>>
wire == <<inbox, packets, times>>
client == <<sequence, acks, list, group, path, window>>
clock == <<timer, left>>
vars == <<kuma, wire, pc, http, client, clock>>

BeginCalls == {"login", "getMonitor", "getMaintenanceList", "addMaintenance",
               "addMonitorMaintenance", "getMonitorMaintenance", "getMaintenance"}
EndCalls == {"endLogin", "endMaintenance", "endLinks", "deleteMaintenance", "endList"}
Calls == BeginCalls \union EndCalls

\* Windows of the attempt's title; linked: to its group alone.
Rows == [id : 1 .. MaxRows, linked : BOOLEAN]
\* The ids of a list that have the title.
Lists == (SUBSET (1 .. MaxRows)) \union {None}
\* active: Kuma finds the window "under-maintenance" as it answers.
Acks == [ident : Nat, ok : BOOLEAN, row : Rows \union {None}, active : BOOLEAN]
NoPackets == [acks |-> {}, list |-> None, ping |-> FALSE]

TypeOK ==
    /\ monitors \in [Groups -> [group : BOOLEAN, parent : Groups \union {None}]]
    /\ rows \in SUBSET Rows /\ made \in 0 .. MaxRows
    /\ inbox \in [ident : Nat, call : Calls] \union {None}
    /\ packets \in [acks : SUBSET Acks, list : Lists, ping : BOOLEAN]
    /\ times \in Nat
    /\ pc \in Calls \union {"start", "opened", "closed", "failed"}
    /\ http \in {"none", "post", "poll", "pong"}
    /\ sequence \in Nat /\ acks \in SUBSET Acks /\ list \in Lists
    /\ group \in Groups \union {None} /\ path \in Seq(Groups)
    /\ window \in 1 .. MaxRows \union {None}
    /\ timer \in 0 .. RequestTimeout /\ left \in 0 .. CallTimeout + 1

Init ==
    /\ monitors \in [Groups -> [group : BOOLEAN, parent : Groups \union {None}]]
    /\ rows = {} /\ made = 0
    /\ inbox = None /\ packets = NoPackets /\ times = 0
    /\ pc = "start" /\ http = "none"
    /\ sequence = 0 /\ acks = {} /\ list = None
    /\ group = Group /\ path = <<>> /\ window = None
    /\ timer = 0 /\ left = 0

----------------------------------------------------------------------------
(* KumaClient.call, post and poll.                                         *)

\* The acknowledgement of the current call, in a set of none or one.
Answer == {a \in acks : a.ident = sequence}

\* A call: the one before it is popped from acks, and its request posted.
Ask(call) ==
    /\ pc' = call /\ http' = "post"
    /\ sequence' = sequence + 1
    /\ acks' = acks \ Answer
    /\ inbox' = [ident |-> sequence + 1, call |-> call]
    /\ times' = 0
    /\ timer' = 0 /\ left' = 0
    /\ UNCHANGED <<kuma, packets>>

\* begin or end is over, its client is dropped with all it has.
Leave(l) ==
    /\ pc' = l /\ http' = "none"
    /\ acks' = {} /\ list' = None /\ packets' = NoPackets
    /\ timer' = 0 /\ left' = 0
    /\ UNCHANGED <<kuma, inbox, times, sequence, group, path, window>>

\* An HTTP request begins, or none does.
Request(kind) == http' = kind /\ timer' = 0

\* A fault for the sensitivity checks: the deadline allows for a posting, too.
GenerousPosted ==
    /\ http = "post"
    /\ Request("poll")
    /\ left' = CallTimeout + RequestTimeout + 1
    /\ UNCHANGED <<kuma, wire, pc, client>>

\* The posting is answered, and the deadline counts from now.
Posted ==
    /\ http = "post"
    /\ Request("poll")
    /\ left' = CallTimeout + 1
    /\ UNCHANGED <<kuma, wire, pc, client>>

\* A poll brings all there is, perhaps only events nobody looks at.
Polled ==
    /\ http = "poll"
    /\ acks' = acks \union packets.acks
    /\ list' = IF packets.list = None THEN list ELSE packets.list
    /\ packets' = NoPackets
    /\ IF packets.ping THEN Request("pong") ELSE Request("none")
    /\ UNCHANGED <<kuma, inbox, times, pc, sequence, group, path, window,
                   left>>

Ponged ==
    /\ http = "pong"
    /\ Request("none")
    /\ UNCHANGED <<kuma, wire, pc, client, left>>

Waiting == pc \in Calls /\ http = "none" /\ Answer = {}

\* A fault for the sensitivity checks: the deadline is forgotten.
EndlessPoll ==
    /\ Waiting
    /\ Request("poll")
    /\ UNCHANGED <<kuma, wire, pc, client, left>>

PollAgain ==
    /\ Waiting
    /\ left > 0
    /\ Request("poll")
    /\ UNCHANGED <<kuma, wire, pc, client, left>>

TimedOut == Waiting /\ left = 0 /\ Leave("failed")

\* A fault for the sensitivity checks: a posting that fails is posted again.
RetriedFails ==
    /\ http = "post"
    /\ inbox' = [ident |-> sequence, call |-> pc]
    /\ UNCHANGED <<kuma, packets, times, pc, http, client, clock>>

\* The transport fails, at the latest with its timeout.  What was posted may
\* still get there.
TransportFails == http # "none" /\ Leave("failed")

\* The call returns a.
Returned(call, a) == pc = call /\ http = "none" /\ a \in Answer

\* If all is well the next call is asked, else begin or end raises.
Proceed(well, call, newList) ==
    IF well THEN Ask(call) /\ list' = newList /\ UNCHANGED <<group, path, window>>
            ELSE Leave("failed")

----------------------------------------------------------------------------
(* begin and check_group.                                                  *)

\* A client connects and logs in.
Begin == pc = "start" /\ Proceed(TRUE, "login", list)

\* Accepted: check_group asks for the group.
LoggedIn(a) == Returned("login", a) /\ Proceed(a.ok, "getMonitor", list)

\* A fault for the sensitivity checks: only the group's own name is compared.
NameDiffers(p) == p[Len(p)] # GroupPath[Len(GroupPath)]

\* path != expected_path
PathDiffers(p) == p # GroupPath

\* A monitor: its parent is next, if it was not visited; without one the path
\* is complete.  maintenances() forgets the list it had.
GroupRead(a) ==
    LET monitor == monitors[group]
        longer == <<group>> \o path
    IN  /\ Returned("getMonitor", a)
        /\ IF \/ ~a.ok \/ ~monitor.group
              \/ monitor.parent \in Range(longer)
              \/ monitor.parent = None /\ PathDiffers(longer)
           THEN Leave("failed")
           ELSE /\ path' = longer /\ group' = monitor.parent
                /\ IF monitor.parent = None
                   THEN Ask("getMaintenanceList") /\ list' = None
                   ELSE Ask("getMonitor") /\ UNCHANGED list
                /\ UNCHANGED window

\* The title must be free; the list must have come.
TitleFree(a) ==
    /\ Returned("getMaintenanceList", a)
    /\ Proceed(a.ok /\ list = {}, "addMaintenance", list)

Added(a) ==
    /\ Returned("addMaintenance", a)
    /\ IF a.ok
       THEN /\ Ask("addMonitorMaintenance") /\ window' = a.row.id
            /\ UNCHANGED <<list, group, path>>
       ELSE Leave("failed")

Linked(a) ==
    /\ Returned("addMonitorMaintenance", a)
    /\ Proceed(a.ok, "getMonitorMaintenance", list)

LinksRead(a) ==
    /\ Returned("getMonitorMaintenance", a)
    /\ Proceed(a.ok /\ a.row.linked, "getMaintenance", list)

\* Of the title and under maintenance: begin returns.
Opened(a) ==
    /\ Returned("getMaintenance", a)
    /\ Leave(IF a.ok /\ a.active THEN "opened" ELSE "failed")

----------------------------------------------------------------------------
(* end, by a new client.                                                   *)

End == pc = "opened" /\ Proceed(TRUE, "endLogin", list)

EndLoggedIn(a) == Returned("endLogin", a) /\ Proceed(a.ok, "endMaintenance", list)

TitleSame(a) ==
    Returned("endMaintenance", a) /\ Proceed(a.ok, "endLinks", list)

GroupSame(a) ==
    Returned("endLinks", a) /\ Proceed(a.ok /\ a.row.linked, "deleteMaintenance", list)

\* maintenances() forgets the list it had.
Deleted(a) == Returned("deleteMaintenance", a) /\ Proceed(a.ok, "endList", None)

\* A fault for the sensitivity checks: the acknowledgement is taken for the deed.
TakenForGone == TRUE

\* The list must have come, without the window: end returns.
Gone == list # None /\ window \notin list
Closed(a) ==
    Returned("endList", a) /\ Leave(IF a.ok /\ Gone THEN "closed" ELSE "failed")

Return(a) ==
    \/ LoggedIn(a) \/ GroupRead(a) \/ TitleFree(a) \/ Added(a) \/ Linked(a)
    \/ LinksRead(a) \/ Opened(a)
    \/ EndLoggedIn(a) \/ TitleSame(a) \/ GroupSame(a) \/ Deleted(a) \/ Closed(a)

----------------------------------------------------------------------------
(* Kuma, the network, other people and the clock.                          *)

\* The window a call is about, in a set of none or one.
Target == {r \in rows : r.id = window}

Put(f, v) == packets' = [packets EXCEPT ![f] = v]

Acknowledge(ok, row) ==
    \E active \in {FALSE, inbox.call = "getMaintenance"} :
       Put("acks", packets.acks \union
               {[ident |-> inbox.ident, ok |-> ok, row |-> row, active |-> active]})

\* Kuma carries the request out and acknowledges it.
Carry ==
    CASE inbox.call = "addMaintenance" ->
            LET row == [id |-> made + 1, linked |-> FALSE]
            IN  /\ made < MaxRows
                /\ made' = made + 1 /\ rows' = rows \union {row}
                /\ Acknowledge(TRUE, row)
      [] inbox.call = "addMonitorMaintenance" ->
            \E r \in Target :
               /\ rows' = (rows \ {r}) \union {[r EXCEPT !.linked = TRUE]}
               /\ UNCHANGED made
               /\ Acknowledge(TRUE, None)
      [] inbox.call = "deleteMaintenance" ->
            \* A row of another user stays, and the answer is the same.
            /\ rows' \in {rows, rows \ Target}
            /\ UNCHANGED made
            /\ Acknowledge(TRUE, None)
      [] inbox.call \in {"getMonitorMaintenance", "getMaintenance",
                         "endMaintenance", "endLinks"} ->
            \E r \in Target : Acknowledge(TRUE, r) /\ UNCHANGED <<rows, made>>
      [] OTHER -> Acknowledge(TRUE, None) /\ UNCHANGED <<rows, made>>

KumaAnswers ==
    /\ inbox # None
    /\ \/ Carry
       \/ Acknowledge(FALSE, None) /\ UNCHANGED <<rows, made>>
    /\ inbox' = None /\ times' = times + 1
    /\ UNCHANGED <<monitors, pc, http, client, clock>>

Lost ==
    /\ inbox # None
    /\ inbox' = None
    /\ UNCHANGED <<kuma, packets, times, pc, http, client, clock>>

\* To the clients that are connected.
Broadcast ==
    /\ pc \in Calls
    /\ Put("list", {r.id : r \in rows})
    /\ UNCHANGED <<kuma, inbox, times, pc, http, client, clock>>

Ping ==
    /\ pc \in Calls
    /\ Put("ping", TRUE)
    /\ UNCHANGED <<kuma, inbox, times, pc, http, client, clock>>

\* A window is given to other groups or closed by hand.
Others ==
    /\ \E r \in rows : \/ rows' = rows \ {r}
                      \/ rows' = (rows \ {r}) \union {[r EXCEPT !.linked = FALSE]}
    /\ UNCHANGED <<monitors, made, wire, pc, http, client, clock>>

\* An HTTP request is over by its timeout.
Tick ==
    /\ http # "none"
    /\ timer < RequestTimeout
    /\ timer' = timer + 1
    /\ left' = IF left = 0 THEN 0 ELSE left - 1
    /\ UNCHANGED <<kuma, wire, pc, http, client>>

Local == PollAgain \/ TimedOut \/ \E a \in Answer : Return(a)

Next ==
    \/ Begin \/ End \/ Posted \/ Polled \/ Ponged \/ Local \/ TransportFails
    \/ KumaAnswers \/ Lost \/ Broadcast \/ Ping \/ Others \/ Tick

\* The client runs, its HTTP timeout strikes, and time goes on: no infinity
\* of requests fits in one moment.
Fairness == /\ WF_vars(Local)
            /\ WF_vars(TransportFails /\ timer = RequestTimeout)
            /\ SF_vars(Tick)

Spec == Init /\ [][Next]_vars /\ Fairness

----------------------------------------------------------------------------
(* Properties.                                                             *)

\* A call reaches Kuma at most once, however its posting, its answer or the
\* client's patience ends, and begin and end go on only with calls that did.
phase == IF pc \in Calls THEN "asked" ELSE IF pc = "failed" THEN "failed" ELSE "idle"
Remote == INSTANCE RemoteCall
AtMostOnce == Remote!Spec

\* begin and end return or raise, whatever Kuma broadcasts, pings or leaves
\* unanswered, and whatever cycle its groups form.
CallsEnd == /\ pc \in BeginCalls ~> pc \in {"opened", "failed"}
            /\ pc \in EndCalls ~> pc \in {"closed", "failed"}

\* The deployment has a window only if, from the group up, Kuma's monitors are
\* groups and form the configured path, all of it.
IsPath(p) ==
    /\ Len(p) > 0 /\ p[Len(p)] = Group /\ monitors[p[1]].parent = None
    /\ \A i \in 1 .. Len(p) : monitors[p[i]].group
    /\ \A i \in 2 .. Len(p) : monitors[p[i]].parent = p[i - 1]
WindowOnlyForTheGroup == rows # {} => IsPath(GroupPath)

\* When end returns, Kuma has no row of the window, though an acknowledged
\* delete may have done nothing and the list comes in an event of its own.
ClosedMeansGone == pc = "closed" => \A r \in rows : r.id # window
=============================================================================
