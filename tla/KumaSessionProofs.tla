-------------------------- MODULE KumaSessionProofs --------------------------
(* Theorems about KumaSession: for any groups, timeouts and number of      *)
(* windows, a call reaches Kuma at most once, a window is made only for    *)
(* the configured group, and end returns only when the window is gone.     *)
EXTENDS KumaSession, TLAPS

\* Acknowledgements the client has or will get with the next poll.
Known == acks \union packets.acks

\* What is on the wire belongs to the current call: the request Kuma still has,
\* with nothing carried out yet, and an acknowledgement, once it has been.
Wire ==
    /\ http # "none" => pc \in Calls
    /\ pc \in {"start", "login", "getMonitor"} => group \in Groups
    /\ inbox # None => /\ inbox.ident = sequence
                       /\ times = 0
                       /\ pc \notin {"start", "opened", "closed"}
                       /\ pc \in Calls => inbox.call = pc
    /\ \A a \in Known :
          /\ a.ident <= sequence
          /\ a.ident = sequence => times = 1
          /\ a.ident = sequence /\ a.ok /\ pc = "addMaintenance" => a.row # None
          /\ a.row # None => a.row.id <= made
    /\ \A r \in rows : r.id <= made
    /\ window # None => window <= made

WellFormed == TypeOK /\ Wire

USE GroupAssumption, TimeoutAssumption

\* A call that is asked starts with nothing on the wire but its request (call).
LEMMA AskWellFormed ==
  ASSUME WellFormed, NEW call \in Calls, Ask(call),
         list' \in Lists, group' \in Groups \union {None}, path' \in Seq(Groups),
         window' \in 1 .. MaxRows \union {None}, window' # None => window' <= made,
         call \in {"login", "getMonitor"} => group' \in Groups
  PROVE  WellFormed'
<1> USE DEF WellFormed, TypeOK, Wire, Ask, kuma
<1>1. Known' = acks' \union packets.acks
  BY DEF Known
<1>2. \A a \in Known' : a \in Known /\ a.ident # sequence + 1
  BY <1>1 DEF Known, Answer, Acks
<1>3. Wire'
  BY <1>2 DEF Known, Acks, Calls, BeginCalls, EndCalls
<1>4. TypeOK'
  BY DEF Calls, BeginCalls, EndCalls, Answer
<1> QED BY <1>3, <1>4

\* When begin or end is over its client forgets what it had.
LEMMA LeaveWellFormed ==
  ASSUME WellFormed, NEW l \in {"opened", "closed", "failed"}, Leave(l),
         l # "failed" => inbox = None
  PROVE  WellFormed'
<1> USE DEF WellFormed, Leave, kuma
<1>1. Known' = {}
  BY DEF Known, NoPackets
<1>2. Wire'
  BY <1>1 DEF Wire, Calls, BeginCalls, EndCalls
<1>3. packets' \in [acks : SUBSET Acks, list : Lists, ping : BOOLEAN]
  <2>1. {} \in SUBSET Acks /\ None \in Lists /\ FALSE \in BOOLEAN
    BY DEF Lists
  <2> QED BY <2>1, Zenon DEF NoPackets
<1>4. acks' \in SUBSET Acks /\ list' \in Lists
  BY DEF Lists
<1>5. timer' \in 0 .. RequestTimeout /\ left' \in 0 .. CallTimeout + 1
  OBVIOUS
<1>6. monitors' = monitors /\ rows' = rows /\ made' = made /\ UNCHANGED <<inbox, times, sequence, group, path, window>>
  OBVIOUS
<1>7. pc' \in Calls \union {"start", "opened", "closed", "failed"} /\ http' \in {"none", "post", "poll", "pong"}
  OBVIOUS
<1>8. TypeOK'
  BY <1>3, <1>4, <1>5, <1>6, <1>7 DEF TypeOK
<1> QED BY <1>2, <1>8

\* A call returns with what Kuma answered to it, once, and has nothing left there.
LEMMA ReturnedOnce ==
  ASSUME WellFormed, NEW call, NEW a, Returned(call, a)
  PROVE  a \in Acks /\ a \in Known /\ a.ident = sequence /\ times = 1 /\ inbox = None
BY DEF WellFormed, TypeOK, Wire, Returned, Answer, Known

\* Kuma's acknowledgement is one packet more.
LEMMA AcknowledgeAdds ==
  ASSUME WellFormed, inbox # None, NEW ok \in BOOLEAN, NEW row \in Rows \union {None},
         Acknowledge(ok, row)
  PROVE  \E a \in Acks : /\ a.ident = inbox.ident /\ a.ok = ok /\ a.row = row
                         /\ packets' = [packets EXCEPT !.acks = packets.acks \union {a}]
<1>1. PICK active \in {FALSE, inbox.call = "getMaintenance"} :
         Put("acks", packets.acks \union
               {[ident |-> inbox.ident, ok |-> ok, row |-> row, active |-> active]})
  BY Zenon DEF Acknowledge
<1>2. active \in BOOLEAN
  BY <1>1, Zenon
<1>3. inbox.ident \in Nat
  BY DEF WellFormed, TypeOK
<1> DEFINE a == [ident |-> inbox.ident, ok |-> ok, row |-> row, active |-> active]
<1>4. a \in Acks
  BY <1>2, <1>3, Zenon DEF Acks
<1>5. packets' = [packets EXCEPT !.acks = packets.acks \union {a}]
  BY <1>1, Zenon DEF Put
<1> QED BY <1>4, <1>5

\* Kuma's rows have ids it gave out, and it can answer with this one.
RowsKept(row) ==
  /\ rows' \in SUBSET Rows /\ made' \in 0 .. MaxRows /\ made <= made'
  /\ \A r \in rows' : r.id <= made'
  /\ row # None => row.id <= made'
  /\ inbox.call = "addMaintenance" => row # None

Carried(row) == Acknowledge(TRUE, row) /\ RowsKept(row)

\* What Kuma carries out, it carries out on the rows, and answers with one of them.
LEMMA CarryAnswers ==
  ASSUME WellFormed, inbox # None, Carry
  PROVE  \E row \in Rows \union {None} : Carried(row)
<1> USE NoneAssumption DEF WellFormed, TypeOK, Wire
<1>1. CASE inbox.call = "addMaintenance"
  <2> DEFINE row == [id |-> made + 1, linked |-> FALSE]
  <2>1. /\ made < MaxRows
        /\ made' = made + 1 /\ rows' = rows \union {row}
        /\ Acknowledge(TRUE, row)
    BY <1>1, Zenon DEF Carry
  <2>2. row \in Rows /\ row.id = made' /\ row # None
    <3>1. made + 1 \in 1 .. MaxRows
      BY <2>1
    <3>2. row \in Rows
      BY <3>1, Zenon DEF Rows
    <3>3. row \in [id : Nat, linked : BOOLEAN]
      BY <3>1
    <3> QED BY <2>1, <3>2, <3>3
  <2>3. rows' \in SUBSET Rows
    BY <2>1, <2>2
  <2>4. \A r \in rows' : r.id <= made'
    BY <2>1, <2>2 DEF Rows
  <2>5. made' \in 0 .. MaxRows /\ made <= made' /\ row.id <= made'
    BY <2>1, <2>2
  <2>6. Carried(row)
    BY <2>1, <2>2, <2>3, <2>4, <2>5, Zenon DEF Carried, RowsKept
  <2> QED BY <2>2, <2>6, Zenon
<1>2. CASE inbox.call = "addMonitorMaintenance"
  <2>1. PICK r \in Target : /\ rows' = (rows \ {r}) \union {[r EXCEPT !.linked = TRUE]}
                            /\ UNCHANGED made
                            /\ Acknowledge(TRUE, None)
    BY <1>2, Zenon DEF Carry
  <2>2. r \in rows /\ [r EXCEPT !.linked = TRUE] \in Rows
    <3>1. r \in rows
      BY DEF Target
    <3>2. rows \in SUBSET Rows
      BY DEF WellFormed, TypeOK
    <3>3. r \in Rows
      BY <3>1, <3>2, Zenon
    <3> QED BY <3>1, <3>3 DEF Rows
  <2>3. [r EXCEPT !.linked = TRUE].id = r.id
    BY <2>2 DEF Rows
  <2>4. \A q \in rows' : q.id <= made'
    BY <2>1, <2>2, <2>3
  <2>5. rows' \in SUBSET Rows /\ made' \in 0 .. MaxRows /\ made <= made'
    <3>1. rows \in SUBSET Rows
      OBVIOUS
    <3>2. rows' \in SUBSET Rows
      BY <2>1, <2>2, <3>1, Zenon
    <3>3. made' \in 0 .. MaxRows /\ made <= made'
      BY <2>1
    <3> QED BY <3>2, <3>3
  <2>6. RowsKept(None)
    BY <1>2, <2>4, <2>5, Zenon DEF RowsKept
  <2> QED BY <2>1, <2>6, Zenon DEF Carried
<1>3. CASE inbox.call = "deleteMaintenance"
  <2>1. /\ rows' \in {rows, rows \ Target}
        /\ UNCHANGED made
        /\ Acknowledge(TRUE, None)
    BY <1>3, Zenon DEF Carry
  <2>2. rows' \subseteq rows
    BY <2>1
  <2>3. RowsKept(None)
    BY <1>3, <2>1, <2>2 DEF RowsKept
  <2> QED BY <2>1, <2>3, Zenon DEF Carried
<1>4. CASE inbox.call \in {"getMonitorMaintenance", "getMaintenance", "endMaintenance", "endLinks"}
  <2>1. PICK r \in Target : Acknowledge(TRUE, r) /\ UNCHANGED <<rows, made>>
    BY <1>4 DEF Carry
  <2>2. r \in rows
    BY DEF Target
  <2>3. RowsKept(r)
    BY <1>4, <2>1, <2>2 DEF RowsKept
  <2> QED BY <2>1, <2>2, <2>3, Zenon DEF Carried
<1>5. CASE inbox.call \notin {"addMaintenance", "addMonitorMaintenance", "deleteMaintenance",
                             "getMonitorMaintenance", "getMaintenance", "endMaintenance", "endLinks"}
  <2>1. Acknowledge(TRUE, None) /\ UNCHANGED <<rows, made>>
    BY <1>5 DEF Carry
  <2>2. RowsKept(None)
    BY <1>5, <2>1 DEF RowsKept
  <2> QED BY <2>1, <2>2, Zenon DEF Carried
<1> QED BY <1>1, <1>2, <1>3, <1>4, <1>5

\* Where a step of begin or end leads: to another call, or out.
Asked(call) ==
  /\ Ask(call)
  /\ list' \in Lists /\ group' \in Groups \union {None} /\ path' \in Seq(Groups)
  /\ window' \in 1 .. MaxRows \union {None} /\ (window' # None => window' <= made)
  /\ call \in {"login", "getMonitor"} => group' \in Groups

Leads == (\E call \in Calls : Asked(call)) \/ (\E l \in {"opened", "closed", "failed"} : Leave(l))

LEMMA ProceedLeads ==
  ASSUME WellFormed, NEW well, NEW call \in Calls, NEW newList \in Lists,
         Proceed(well, call, newList),
         call \in {"login", "getMonitor"} => group \in Groups
  PROVE  Leads
<1>1. CASE well
  <2>1. Ask(call) /\ list' = newList /\ UNCHANGED <<group, path, window>>
    BY <1>1, Zenon DEF Proceed
  <2>2. Asked(call)
    BY <2>1 DEF Asked, WellFormed, TypeOK, Wire
  <2> QED BY <2>2, Zenon DEF Leads
<1>2. CASE ~well
  BY <1>2, Zenon DEF Proceed, Leads
<1> QED BY <1>1, <1>2

\* A call that returns leads to another, or begin or end is over.
LEMMA ReturnLeads ==
  ASSUME WellFormed, NEW a, Return(a)
  PROVE  pc \in Calls /\ times = 1 /\ inbox = None /\ Leads
<1>0. \A call : Returned(call, a) => pc = call /\ a \in Acks /\ a \in Known /\ a.ident = sequence
                                     /\ times = 1 /\ inbox = None
  BY ReturnedOnce, Zenon DEF Returned
<1>a. None \in Lists /\ list \in Lists /\ {"login", "endLogin"} \subseteq Calls
  BY DEF WellFormed, TypeOK, Lists, Calls, BeginCalls, EndCalls
<1>1. CASE LoggedIn(a)
  <2>1. Returned("login", a) /\ Proceed(a.ok, "getMonitor", list) /\ "getMonitor" \in Calls
    BY <1>1, Zenon DEF LoggedIn, Calls, BeginCalls
  <2>2. group \in Groups
    BY <1>0, <2>1 DEF WellFormed, Wire
  <2> QED BY <1>0, <1>a, <2>1, <2>2, ProceedLeads, Zenon DEF Calls, BeginCalls
<1>2. CASE GroupRead(a)
  <2> DEFINE monitor == monitors[group]
             longer == <<group>> \o path
  <2>1. Returned("getMonitor", a)
    BY <1>2 DEF GroupRead
  <2>2. pc = "getMonitor" /\ pc \in Calls /\ times = 1 /\ inbox = None
    BY <1>0, <2>1 DEF Calls, BeginCalls
  <2>3. CASE Leave("failed")
    BY <2>2, <2>3, Zenon DEF Leads
  <2>4. CASE ~Leave("failed")
    <3>1. /\ path' = longer /\ group' = monitor.parent
          /\ \/ monitor.parent = None /\ Ask("getMaintenanceList") /\ list' = None
             \/ monitor.parent # None /\ Ask("getMonitor") /\ UNCHANGED list
          /\ UNCHANGED window
      BY <1>2, <2>4, Zenon DEF GroupRead
    <3>2. group \in Groups /\ path \in Seq(Groups) /\ monitor.parent \in Groups \union {None}
      BY <2>2 DEF WellFormed, TypeOK, Wire
    <3>3. path' \in Seq(Groups)
      BY <3>1, <3>2
    <3>4. window' \in 1 .. MaxRows \union {None} /\ (window' # None => window' <= made)
      BY <3>1 DEF WellFormed, TypeOK, Wire
    <3>5. CASE monitor.parent = None /\ Ask("getMaintenanceList") /\ list' = None
      <4>1. Asked("getMaintenanceList") /\ "getMaintenanceList" \in Calls
        BY <1>a, <3>1, <3>2, <3>3, <3>4, <3>5 DEF Asked, Calls, BeginCalls
      <4> QED BY <2>2, <4>1, Zenon DEF Leads
    <3>6. CASE monitor.parent # None /\ Ask("getMonitor") /\ UNCHANGED list
      <4>1. Asked("getMonitor") /\ "getMonitor" \in Calls
        BY <1>a, <3>1, <3>2, <3>3, <3>4, <3>6 DEF Asked, Calls, BeginCalls
      <4> QED BY <2>2, <4>1, Zenon DEF Leads
    <3> QED BY <3>1, <3>5, <3>6
  <2> QED BY <2>3, <2>4
<1>3. CASE Added(a)
  <2>1. Returned("addMaintenance", a)
    BY <1>3 DEF Added
  <2>2. pc = "addMaintenance" /\ pc \in Calls /\ times = 1 /\ inbox = None
    BY <1>0, <2>1 DEF Calls, BeginCalls
  <2>3. CASE ~a.ok
    BY <1>3, <2>2, <2>3, Zenon DEF Added, Leads
  <2>4. CASE a.ok
    <3>1. Ask("addMonitorMaintenance") /\ window' = a.row.id /\ UNCHANGED <<list, group, path>>
      BY <1>3, <2>4, Zenon DEF Added
    <3>2. a.row # None
      BY <1>0, <2>1, <2>2, <2>4, Zenon DEF WellFormed, Wire
    <3>3. a.row \in Rows /\ a.row.id <= made
      BY <1>0, <2>1, <3>2 DEF WellFormed, Wire, Acks
    <3>4. Asked("addMonitorMaintenance") /\ "addMonitorMaintenance" \in Calls
      BY <3>1, <3>3 DEF Asked, Rows, WellFormed, TypeOK, Calls, BeginCalls
    <3> QED BY <2>2, <3>4, Zenon DEF Leads
  <2> QED BY <2>3, <2>4
<1>4. CASE Opened(a) \/ Closed(a)
  BY <1>0, <1>4, Zenon DEF Opened, Closed, Leads, Calls, BeginCalls, EndCalls
<1>5. CASE \/ TitleFree(a) \/ Linked(a) \/ LinksRead(a) \/ EndLoggedIn(a)
           \/ TitleSame(a) \/ GroupSame(a) \/ Deleted(a)
  <2>1. \E call \in {"getMaintenanceList", "addMonitorMaintenance", "getMonitorMaintenance",
                     "endLogin", "endMaintenance", "endLinks", "deleteMaintenance"} : Returned(call, a)
    BY <1>5, Zenon DEF TitleFree, Linked, LinksRead, EndLoggedIn, TitleSame, GroupSame, Deleted
  <2>2. \E well \in {a.ok, a.ok /\ list = {}, a.ok /\ a.row.linked},
           call \in {"addMaintenance", "getMonitorMaintenance", "getMaintenance", "endMaintenance",
                     "endLinks", "deleteMaintenance", "endList"},
           l \in {list, None} : Proceed(well, call, l)
    BY <1>5, Zenon DEF TitleFree, Linked, LinksRead, EndLoggedIn, TitleSame, GroupSame, Deleted
  <2>3. Leads
    <3>1. PICK well \in {a.ok, a.ok /\ list = {}, a.ok /\ a.row.linked},
           call \in {"addMaintenance", "getMonitorMaintenance", "getMaintenance", "endMaintenance",
                     "endLinks", "deleteMaintenance", "endList"},
           l \in {list, None} : Proceed(well, call, l)
      BY <2>2, Zenon
    <3>2. call \in Calls /\ call \notin {"login", "getMonitor"} /\ l \in Lists
      BY <1>a DEF Calls, BeginCalls, EndCalls
    <3> QED BY <3>1, <3>2, ProceedLeads, Zenon
  <2> QED BY <1>0, <2>1, <2>3 DEF Calls, BeginCalls, EndCalls
<1> QED BY <1>1, <1>2, <1>3, <1>4, <1>5, Zenon DEF Return

LEMMA LeadsWellFormed ==
  ASSUME WellFormed, Leads, inbox = None
  PROVE  WellFormed'
<1>1. CASE \E call \in Calls : Asked(call)
  BY <1>1, AskWellFormed DEF Asked
<1>2. CASE \E l \in {"opened", "closed", "failed"} : Leave(l)
  BY <1>2, LeaveWellFormed
<1> QED BY <1>1, <1>2, Zenon DEF Leads

\* The transport's steps move packets, never make one.
LEMMA TransportWellFormed ==
  ASSUME WellFormed, Posted \/ Polled \/ Ponged \/ PollAgain \/ Lost \/ Broadcast \/ Ping \/ Tick
  PROVE  WellFormed'
<1> USE DEF WellFormed, kuma, wire, client, Request, Put
<1>1. CASE Posted \/ Ponged \/ PollAgain \/ Tick
  <2>1. Known' = Known
    BY <1>1 DEF Known, Posted, Ponged, PollAgain, Tick
  <2>2. Wire'
    BY <1>1, <2>1 DEF Wire, Posted, Ponged, PollAgain, Tick, Waiting
  <2>3. timer' \in 0 .. RequestTimeout /\ left' \in 0 .. CallTimeout + 1
    <3>1. /\ timer \in 0 .. RequestTimeout /\ left \in 0 .. CallTimeout + 1
          /\ RequestTimeout \in Nat /\ CallTimeout \in Nat
      BY DEF TypeOK
    <3>2. CASE Posted \/ Ponged \/ PollAgain
      BY <3>1, <3>2 DEF Posted, Ponged, PollAgain
    <3>3. CASE Tick
      BY <3>1, <3>3 DEF Tick
    <3> QED BY <1>1, <3>2, <3>3
  <2>4. http' \in {"none", "post", "poll", "pong"} /\ UNCHANGED <<kuma, wire, pc, client>>
    BY <1>1 DEF TypeOK, Posted, Ponged, PollAgain, Tick
  <2>5. TypeOK'
    BY <2>3, <2>4 DEF TypeOK
  <2> QED BY <2>2, <2>5
<1>2. CASE Polled
  <2>1. packets.acks \in SUBSET Acks /\ packets.list \in Lists
    BY DEF TypeOK
  <2>2. NoPackets.acks = {} /\ NoPackets \in [acks : SUBSET Acks, list : Lists, ping : BOOLEAN]
    <3>1. {} \in SUBSET Acks /\ None \in Lists /\ FALSE \in BOOLEAN
      BY DEF Lists
    <3> QED BY <3>1, Zenon DEF NoPackets
  <2>3. Known' = Known
    BY <1>2, <2>2 DEF Known, Polled
  <2>4. Wire'
    BY <1>2, <2>3 DEF Wire, Polled
  <2>5. http' \in {"none", "post", "poll", "pong"} /\ timer' \in 0 .. RequestTimeout
    BY <1>2 DEF Polled
  <2>6. acks' \in SUBSET Acks /\ list' \in Lists
    BY <1>2, <2>1 DEF Polled, TypeOK
  <2>7. packets' \in [acks : SUBSET Acks, list : Lists, ping : BOOLEAN]
    BY <1>2, <2>2, Zenon DEF Polled
  <2>8. UNCHANGED <<kuma, inbox, times, pc, sequence, group, path, window, left>>
    BY <1>2 DEF Polled
  <2>9. TypeOK'
    BY <2>5, <2>6, <2>7, <2>8 DEF TypeOK
  <2> QED BY <2>4, <2>9
<1>3. CASE Lost
  <2>1. Known' = Known
    BY <1>3 DEF Known, Lost
  <2>2. inbox' = None /\ UNCHANGED <<kuma, packets, times, pc, http, client, clock>>
    BY <1>3 DEF Lost
  <2>3. Wire'
    BY <2>1, <2>2 DEF Wire
  <2>4. TypeOK'
    BY <2>2 DEF TypeOK, clock
  <2> QED BY <2>3, <2>4
<1>4. CASE Broadcast \/ Ping
  <2>1. packets.acks \in SUBSET Acks /\ packets.list \in Lists /\ packets.ping \in BOOLEAN
    BY DEF TypeOK
  <2>2. {r.id : r \in rows} \in Lists
    BY DEF TypeOK, Lists, Rows
  <2>3. /\ packets' \in [acks : SUBSET Acks, list : Lists, ping : BOOLEAN]
        /\ packets'.acks = packets.acks
    <3>1. CASE Broadcast
      BY <2>1, <2>2, <3>1 DEF Broadcast, TypeOK
    <3>2. CASE Ping
      <4>1. packets' = [packets EXCEPT !.ping = TRUE]
        BY <3>2, Zenon DEF Ping
      <4>2. TRUE \in BOOLEAN
        OBVIOUS
      <4> QED BY <4>1, <4>2 DEF TypeOK
    <3> QED BY <1>4, <3>1, <3>2
  <2>4. UNCHANGED <<kuma, inbox, times, pc, http, client, clock>>
    BY <1>4, Zenon DEF Broadcast, Ping
  <2>5. Known' = Known
    BY <2>3, <2>4 DEF Known
  <2>6. Wire'
    BY <2>4, <2>5 DEF Wire
  <2>7. TypeOK'
    BY <2>3, <2>4 DEF TypeOK, clock
  <2> QED BY <2>6, <2>7
<1> QED BY <1>1, <1>2, <1>3, <1>4

\* Kuma carries a request out, or rejects it, and has it no more.
LEMMA AnswerWellFormed ==
  ASSUME WellFormed, KumaAnswers
  PROVE  WellFormed'
<1>1. PICK row \in Rows \union {None}, ok \in BOOLEAN :
        /\ Acknowledge(ok, row) /\ (ok => RowsKept(row)) /\ (~ok => row = None /\ UNCHANGED <<rows, made>>)
  <2>1. CASE Carry
    BY <2>1, CarryAnswers, Zenon DEF Carried, KumaAnswers
  <2>2. CASE Acknowledge(FALSE, None) /\ UNCHANGED <<rows, made>>
    BY <2>2, Zenon
  <2> QED BY <2>1, <2>2, Zenon DEF KumaAnswers
<1>2. /\ inbox # None /\ inbox' = None /\ times' = times + 1
      /\ UNCHANGED <<monitors, pc, http, client, clock>>
  BY Zenon DEF KumaAnswers
<1>3. PICK a \in Acks : /\ a.ident = inbox.ident /\ a.ok = ok /\ a.row = row
                        /\ packets' = [packets EXCEPT !.acks = packets.acks \union {a}]
  BY <1>1, <1>2, AcknowledgeAdds, Zenon
<1>4. Known' = Known \union {a}
  BY <1>2, <1>3 DEF Known, WellFormed, TypeOK, client
<1>5. /\ rows' \in SUBSET Rows /\ made' \in 0 .. MaxRows /\ made <= made'
      /\ \A r \in rows' : r.id <= made'
      /\ row # None => row.id <= made'
  <2>1. CASE ok
    BY <1>1, <2>1, Zenon DEF RowsKept
  <2>2. CASE ~ok
    BY <1>1, <2>2 DEF WellFormed, TypeOK, Wire
  <2> QED BY <2>1, <2>2
<1>6. ok /\ pc = "addMaintenance" => row # None
  <2> SUFFICES ASSUME ok, pc = "addMaintenance" PROVE row # None
    OBVIOUS
  <2>1. inbox.call = "addMaintenance"
    BY <1>2 DEF WellFormed, Wire, Calls, BeginCalls
  <2> QED BY <1>1, <2>1, Zenon DEF RowsKept
<1>7. packets' \in [acks : SUBSET Acks, list : Lists, ping : BOOLEAN]
  BY <1>3 DEF WellFormed, TypeOK
<1>8. TypeOK'
  BY <1>2, <1>5, <1>7 DEF WellFormed, TypeOK, client, clock
<1>9. Wire'
  <2>1. times = 0 /\ inbox.ident = sequence
    BY <1>2 DEF WellFormed, Wire
  <2>2. \A b \in Known : b.ident # sequence
    BY <2>1 DEF WellFormed, Wire
  <2>3. \A b \in Known' : b \in Acks /\ b.ident \in Nat
    BY <1>4, <1>3 DEF WellFormed, TypeOK, Known, Acks
  <2>4. \A b \in Known :
          /\ b.ident <= sequence /\ b.ident # sequence
          /\ b.row # None => b.row.id <= made'
    <3> SUFFICES ASSUME NEW b \in Known
                 PROVE  /\ b.ident <= sequence /\ b.ident # sequence
                        /\ b.row # None => b.row.id <= made'
      OBVIOUS
    <3>1. b \in Acks
      BY DEF WellFormed, TypeOK, Known
    <3>2. b.row # None => b.row.id \in Nat
      BY <3>1 DEF Acks, Rows
    <3> QED BY <2>2, <1>5, <3>2 DEF WellFormed, TypeOK, Wire
  <2>5. \A b \in Known' :
          /\ b.ident <= sequence
          /\ b.ident = sequence => times' = 1
          /\ b.ident = sequence /\ b.ok /\ pc = "addMaintenance" => b.row # None
          /\ b.row # None => b.row.id <= made'
    <3>1. times' = 1
      BY <1>2, <2>1
    <3>2. a.ident = sequence
      BY <1>3, <2>1
    <3>3. sequence <= sequence
      BY DEF WellFormed, TypeOK
    <3> QED BY <1>3, <1>4, <1>5, <1>6, <2>4, <3>1, <3>2, <3>3, Zenon
  <2> QED BY <1>2, <1>5, <2>5 DEF WellFormed, TypeOK, Wire, client
<1> QED BY <1>8, <1>9 DEF WellFormed

\* What other people do to the windows.
LEMMA OthersWellFormed ==
  ASSUME WellFormed, Others
  PROVE  WellFormed' /\ \A r \in rows' : \E q \in rows : q.id = r.id
<1>1. UNCHANGED <<monitors, made, wire, pc, http, client, clock>>
  BY DEF Others
<1>2. PICK r \in rows : \/ rows' = rows \ {r}
                        \/ rows' = (rows \ {r}) \union {[r EXCEPT !.linked = FALSE]}
  BY DEF Others
<1>3. r \in Rows /\ rows \in SUBSET Rows
  BY DEF WellFormed, TypeOK
<1>4. [r EXCEPT !.linked = FALSE] \in Rows /\ [r EXCEPT !.linked = FALSE].id = r.id
  BY <1>3 DEF Rows
<1>5. rows' \in SUBSET Rows
  BY <1>2, <1>3, <1>4, Zenon
<1>6. \A q \in rows' : \E o \in rows : o.id = q.id
  BY <1>2, <1>4
<1>7. \A q \in rows' : q.id <= made
  BY <1>6 DEF WellFormed, Wire
<1>8. Known' = Known
  BY <1>1 DEF Known, wire, client
<1>9. Wire'
  BY <1>1, <1>7, <1>8 DEF WellFormed, Wire, wire, client
<1>10. TypeOK'
  BY <1>1, <1>5 DEF WellFormed, TypeOK, wire, client, clock
<1> QED BY <1>6, <1>9, <1>10 DEF WellFormed

\* A client that begins a deployment, or its end, has nothing on the wire.
LEMMA StartLeads ==
  ASSUME WellFormed, Begin \/ End
  PROVE  Leads /\ inbox = None /\ pc \notin Calls
<1>1. pc \in {"start", "opened"}
  BY DEF Begin, End
<1>2. inbox = None /\ pc \notin Calls
  BY <1>1 DEF WellFormed, Wire, Calls, BeginCalls, EndCalls
<1>3. list \in Lists /\ {"login", "endLogin"} \subseteq Calls
  BY DEF WellFormed, TypeOK, Calls, BeginCalls, EndCalls
<1>4. CASE Begin
  <2>1. group \in Groups
    BY <1>4 DEF Begin, WellFormed, Wire
  <2> QED BY <1>2, <1>3, <1>4, <2>1, ProceedLeads, Zenon DEF Begin
<1>5. CASE End
  BY <1>2, <1>3, <1>5, ProceedLeads, Zenon DEF End
<1> QED BY <1>4, <1>5

LEMMA WellFormedSafe == Spec => []WellFormed
<1>1. Init => WellFormed
  <2> SUFFICES ASSUME Init PROVE WellFormed
    OBVIOUS
  <2>1. NoPackets \in [acks : SUBSET Acks, list : Lists, ping : BOOLEAN] /\ NoPackets.acks = {}
    <3>1. {} \in SUBSET Acks /\ None \in Lists /\ FALSE \in BOOLEAN
      BY DEF Lists
    <3> QED BY <3>1, Zenon DEF NoPackets
  <2>2. Known = {}
    BY <2>1 DEF Init, Known
  <2>3. Wire
    BY <2>2 DEF Init, Wire
  <2>4. packets \in [acks : SUBSET Acks, list : Lists, ping : BOOLEAN]
    BY <2>1, Zenon DEF Init
  <2>5. TypeOK
    BY <2>4 DEF Init, TypeOK, Lists
  <2> QED BY <2>3, <2>5 DEF WellFormed
<1>2. WellFormed /\ [Next]_vars => WellFormed'
  <2> SUFFICES ASSUME WellFormed, [Next]_vars PROVE WellFormed'
    OBVIOUS
  <2>1. CASE Begin \/ End
    BY <2>1, StartLeads, LeadsWellFormed
  <2>2. CASE Posted \/ Polled \/ Ponged \/ PollAgain \/ Lost \/ Broadcast \/ Ping \/ Tick
    BY <2>2, TransportWellFormed
  <2>3. CASE \E a \in Answer : Return(a)
    BY <2>3, ReturnLeads, LeadsWellFormed, Zenon
  <2>4. CASE TimedOut \/ TransportFails
    BY <2>4, LeaveWellFormed DEF TimedOut, TransportFails
  <2>5. CASE KumaAnswers
    BY <2>5, AnswerWellFormed
  <2>6. CASE Others
    BY <2>6, OthersWellFormed
  <2>7. CASE UNCHANGED vars
    <3>1. Known' = Known
      BY <2>7 DEF vars, wire, client, Known
    <3>2. UNCHANGED <<kuma, wire, pc, http, client, clock>>
      BY <2>7 DEF vars
    <3>3. Wire'
      BY <3>1, <3>2 DEF WellFormed, Wire, kuma, wire, client
    <3>4. TypeOK'
      BY <3>2 DEF WellFormed, TypeOK, kuma, wire, client, clock
    <3> QED BY <3>3, <3>4 DEF WellFormed
  <2> QED BY <2>1, <2>2, <2>3, <2>4, <2>5, <2>6, <2>7, Zenon DEF Next, Local
<1> QED BY <1>1, <1>2, PTL DEF Spec

\* The session is well typed for any groups, timeouts and number of windows.
THEOREM KumaTypeSafe == Spec => []TypeOK
<1>1. WellFormed => TypeOK
  BY DEF WellFormed
<1> QED BY <1>1, WellFormedSafe, PTL

\* KumaClient.call, with its posting, its polls, its deadline and what of them
\* is lost, late or rejected, does what RemoteCall says: one call is carried
\* out at most once, and it has been when begin or end goes on.
THEOREM CallsAreAtMostOnce == Spec => AtMostOnce
<1>1. Init => Remote!Init
  BY DEF Init, Remote!Init, phase, Calls, BeginCalls, EndCalls
<1>2. WellFormed /\ [Next]_vars => [Remote!Next]_(Remote!vars)
  <2> SUFFICES ASSUME WellFormed, [Next]_vars, ~UNCHANGED <<phase, times>>
               PROVE  Remote!Next
    BY DEF Remote!vars
  <2> USE DEF phase
  <2>0. ASSUME Leads PROVE \/ pc' \in Calls /\ times' = 0
                           \/ pc' = "failed" /\ pc' \notin Calls /\ times' = times
                           \/ pc' \in {"opened", "closed"} /\ pc' \notin Calls /\ times' = times
    BY <2>0 DEF Leads, Asked, Ask, Leave, Calls, BeginCalls, EndCalls
  <2>1. CASE Begin \/ End
    <3>1. pc \in {"start", "opened"} /\ pc \notin Calls /\ Leads
      BY <2>1, StartLeads DEF Begin, End
    <3>2. pc' \in Calls /\ times' = 0
      BY <2>1 DEF Begin, End, Proceed, Ask, Calls, BeginCalls, EndCalls
    <3> QED BY <3>1, <3>2 DEF Remote!Next, Remote!Ask
  <2>2. CASE \E a \in Answer : Return(a)
    <3>1. pc \in Calls /\ times = 1 /\ Leads
      BY <2>2, ReturnLeads, Zenon
    <3> QED BY <2>0, <3>1 DEF Remote!Next, Remote!Return, Remote!GiveUp
  <2>3. CASE TimedOut \/ TransportFails
    <3>1. pc \in Calls
      BY <2>3 DEF TimedOut, TransportFails, Waiting, WellFormed, Wire
    <3>2. pc' = "failed" /\ times' = times /\ "failed" \notin Calls
      BY <2>3 DEF TimedOut, TransportFails, Leave, Calls, BeginCalls, EndCalls
    <3> QED BY <3>1, <3>2 DEF Remote!Next, Remote!GiveUp
  <2>4. CASE KumaAnswers
    <3>1. inbox # None /\ times' = times + 1 /\ pc' = pc
      BY <2>4 DEF KumaAnswers
    <3>2. times = 0 /\ (pc \in Calls \/ pc = "failed")
      BY <3>1 DEF WellFormed, TypeOK, Wire
    <3> QED BY <3>1, <3>2 DEF Remote!Next, Remote!Carry
  <2>5. CASE Posted \/ Polled \/ Ponged \/ PollAgain \/ Lost \/ Broadcast \/ Ping \/ Tick \/ Others
    BY <2>5 DEF Posted, Polled, Ponged, PollAgain, Lost, Broadcast, Ping, Tick, Others, wire
  <2>6. CASE UNCHANGED vars
    BY <2>6 DEF vars, wire
  <2> QED BY <2>1, <2>2, <2>3, <2>4, <2>5, <2>6, Zenon DEF Next, Local
<1> QED BY <1>1, <1>2, WellFormedSafe, PTL DEF Spec, AtMostOnce, Remote!Spec

\* A maintenance list that end reads, or will read, without the window is from
\* after the window was made: it shows that the window is gone.
Seen(l) == l # None /\ window \notin l => \A r \in rows : r.id # window
ListsTellTheTruth ==
    /\ pc \in EndCalls \union {"opened"} => Seen(list) /\ Seen(packets.list)
    /\ ClosedMeansGone

\* The rows of the window, if there were none, are none after a step.
LEMMA NoneComesBack ==
  ASSUME WellFormed, pc \in EndCalls \union {"opened", "closed"}, [Next]_vars
  PROVE  \A r \in rows' : \E q \in rows : q.id = r.id
<1>1. CASE UNCHANGED rows
  BY <1>1
<1>2. CASE Others
  BY <1>2, OthersWellFormed
<1>3. CASE KumaAnswers
  <2>1. inbox # None /\ (Carry \/ UNCHANGED rows)
    BY <1>3 DEF KumaAnswers
  <2>2. inbox.call # "addMaintenance"
    BY <2>1 DEF WellFormed, Wire, EndCalls, Calls, BeginCalls
  <2>3. CASE inbox.call = "addMonitorMaintenance" /\ Carry
    <3>1. inbox.call # "addMonitorMaintenance"
      BY <2>1 DEF WellFormed, Wire, EndCalls, Calls, BeginCalls
    <3> QED BY <2>3, <3>1
  <2>4. CASE inbox.call = "deleteMaintenance" /\ Carry
    <3>1. rows' \in {rows, rows \ Target}
      BY <2>4, Zenon DEF Carry
    <3> QED BY <3>1
  <2>5. CASE inbox.call \notin {"addMaintenance", "addMonitorMaintenance", "deleteMaintenance"} /\ Carry
    BY <2>5, <1>1 DEF Carry
  <2> QED BY <1>1, <2>1, <2>2, <2>3, <2>4, <2>5
<1>4. ASSUME Next PROVE UNCHANGED rows \/ Others \/ KumaAnswers
  <2>0. Leads => UNCHANGED rows
    BY DEF Leads, Asked, Ask, Leave, kuma
  <2>1. CASE Begin \/ End
    BY <2>0, <2>1, StartLeads, Zenon
  <2>2. CASE \E a \in Answer : Return(a)
    BY <2>0, <2>2, ReturnLeads, Zenon
  <2>3. CASE Posted \/ Polled \/ Ponged \/ PollAgain \/ TimedOut \/ TransportFails
    BY <2>3 DEF Posted, Polled, Ponged, PollAgain, TimedOut, TransportFails, Leave, kuma
  <2>4. CASE Lost \/ Broadcast \/ Ping \/ Tick
    BY <2>4 DEF Lost, Broadcast, Ping, Tick, kuma
  <2> QED BY <1>4, <2>1, <2>2, <2>3, <2>4, Zenon DEF Next, Local
<1> QED BY <1>1, <1>2, <1>3, <1>4 DEF vars, kuma

\* When end returns the window is gone, whatever the delete's acknowledgement
\* was worth and whenever the list of maintenances came (end's last check).
THEOREM EndLeavesNoWindow == Spec => []ClosedMeansGone
<1>1. Init => ListsTellTheTruth
  BY DEF Init, ListsTellTheTruth, ClosedMeansGone, EndCalls
<1>2. WellFormed /\ ListsTellTheTruth /\ [Next]_vars => ListsTellTheTruth'
  <2> SUFFICES ASSUME WellFormed, ListsTellTheTruth, [Next]_vars PROVE ListsTellTheTruth'
    OBVIOUS
  <2>1. ASSUME pc' \notin EndCalls \union {"opened", "closed"} PROVE ListsTellTheTruth'
    BY <2>1 DEF ListsTellTheTruth, ClosedMeansGone
  <2>2. ASSUME pc \in EndCalls \union {"opened"}, pc' \in EndCalls \union {"opened"},
               window' = window, list' \in {None, list, packets.list},
               packets'.list \in {None, packets.list, {r.id : r \in rows}}
        PROVE  ListsTellTheTruth'
    <3>1. \A r \in rows' : \E q \in rows : q.id = r.id
      BY <2>2, NoneComesBack, Zenon
    <3>2. Seen(list) /\ Seen(packets.list) /\ Seen(None) /\ Seen({r.id : r \in rows})
      BY <2>2 DEF ListsTellTheTruth, Seen
    <3>3. pc' # "closed"
      BY <2>2 DEF EndCalls
    <3> QED BY <2>2, <3>1, <3>2, <3>3 DEF ListsTellTheTruth, Seen, ClosedMeansGone
  <2>3. ASSUME pc = "closed", pc' = "closed", window' = window PROVE ListsTellTheTruth'
    <3>1. \A r \in rows' : \E q \in rows : q.id = r.id
      BY <2>3, NoneComesBack, Zenon
    <3> QED BY <2>3, <3>1 DEF ListsTellTheTruth, ClosedMeansGone, EndCalls
  <2>4. CASE Begin \/ TimedOut \/ TransportFails
    <3>1. pc' \in {"login", "failed"}
      BY <2>4 DEF Begin, TimedOut, TransportFails, Proceed, Ask, Leave
    <3> QED BY <2>1, <3>1 DEF EndCalls
  <2>5. CASE End
    BY <2>2, <2>5 DEF End, Proceed, Ask, EndCalls
  <2>6. ASSUME NEW a \in Answer, Return(a) PROVE ListsTellTheTruth'
    <3>1. CASE LoggedIn(a) \/ TitleFree(a) \/ Linked(a) \/ LinksRead(a) \/ GroupRead(a) \/ Added(a)
      <4>1. pc' \in BeginCalls \union {"failed"}
        BY <3>1 DEF LoggedIn, TitleFree, Linked, LinksRead, GroupRead, Added, Proceed, Ask, Leave, BeginCalls
      <4> QED BY <2>1, <4>1 DEF BeginCalls, EndCalls
    <3>2. CASE Opened(a)
      <4>1. /\ pc' \in {"opened", "failed"} /\ list' = None /\ packets'.list = None
        BY <3>2 DEF Opened, Leave, NoPackets
      <4> QED BY <4>1 DEF ListsTellTheTruth, Seen, ClosedMeansGone
    <3>3. CASE EndLoggedIn(a) \/ TitleSame(a) \/ GroupSame(a) \/ Deleted(a)
      <4>1. /\ pc \in EndCalls /\ pc' \in EndCalls \union {"failed"}
            /\ window' = window /\ list' \in {None, list} 
        BY <3>3 DEF EndLoggedIn, TitleSame, GroupSame, Deleted, Returned, Proceed, Ask, Leave, EndCalls
      <4>2. packets'.list \in {None, packets.list}
        BY <3>3 DEF EndLoggedIn, TitleSame, GroupSame, Deleted, Proceed, Ask, Leave, NoPackets
      <4> QED BY <2>1, <2>2, <4>1, <4>2 DEF EndCalls
    <3>4. CASE Closed(a)
      <4>1. pc = "endList" /\ UNCHANGED <<rows, window>>
        BY <3>4 DEF Closed, Returned, Leave, kuma
      <4>2. pc' = "failed" \/ (pc' = "closed" /\ list # None /\ window \notin list)
        BY <3>4 DEF Closed, Leave, Gone
      <4>3. Seen(list)
        BY <4>1 DEF ListsTellTheTruth, EndCalls
      <4> QED BY <4>1, <4>2, <4>3 DEF ListsTellTheTruth, ClosedMeansGone, Seen, EndCalls
    <3> QED BY <2>6, <3>1, <3>2, <3>3, <3>4, Zenon DEF Return
  <2>7. ASSUME UNCHANGED <<pc, window>>, list' \in {None, list, packets.list},
               packets'.list \in {None, packets.list, {r.id : r \in rows}}
        PROVE  ListsTellTheTruth'
    BY <2>1, <2>2, <2>3, <2>7, Zenon
  <2>8. CASE Polled
    BY <2>7, <2>8 DEF Polled, NoPackets
  <2>9. CASE Posted \/ Ponged \/ PollAgain \/ Lost \/ Others \/ Tick \/ UNCHANGED vars
    <3>1. UNCHANGED <<pc, window, list, packets>>
      BY <2>9 DEF Posted, Ponged, PollAgain, Lost, Others, Tick, vars, wire, client
    <3> QED BY <2>7, <3>1
  <2>10. CASE Broadcast \/ Ping
    <3>1. packets'.list \in {packets.list, {r.id : r \in rows}}
      BY <2>10 DEF Broadcast, Ping, Put, WellFormed, TypeOK
    <3> QED BY <2>7, <2>10, <3>1 DEF Broadcast, Ping, client
  <2>11. CASE KumaAnswers
    <3>1. \E ok \in BOOLEAN, row \in Rows \union {None} : Acknowledge(ok, row)
      <4>1. CASE Carry
        BY <2>11, <4>1, CarryAnswers, Zenon DEF KumaAnswers, Carried
      <4>2. CASE Acknowledge(FALSE, None)
        BY <4>2, Zenon
      <4> QED BY <2>11, <4>1, <4>2, Zenon DEF KumaAnswers
    <3>2. \E s : packets' = [packets EXCEPT !.acks = s]
      BY <2>11, <3>1, AcknowledgeAdds, Zenon DEF KumaAnswers
    <3>3. packets'.list = packets.list
      BY <3>2 DEF WellFormed, TypeOK
    <3> QED BY <2>7, <2>11, <3>3 DEF KumaAnswers, client
  <2> QED BY <2>4, <2>5, <2>6, <2>8, <2>9, <2>10, <2>11, Zenon DEF Next, Local
<1> QED BY <1>1, <1>2, WellFormedSafe, PTL DEF Spec, ListsTellTheTruth

\* The monitors check_group has visited are groups, each the parent of the
\* next, up to the one of the deployment; the monitor it asks for is the parent
\* of the last one visited.
Climbing(p, next) ==
    /\ p \in Seq(Groups)
    /\ \A i \in 1 .. Len(p) : monitors[p[i]].group
    /\ \A i \in 2 .. Len(p) : monitors[p[i]].parent = p[i - 1]
    /\ Len(p) = 0 => next = Group
    /\ Len(p) > 0 => p[Len(p)] = Group /\ monitors[p[1]].parent = next

LEMMA OneStepUp ==
  ASSUME NEW p, NEW g \in Groups, Climbing(p, g), monitors[g].group
  PROVE  Climbing(<<g>> \o p, monitors[g].parent)
<1> DEFINE q == <<g>> \o p
<1>1. /\ p \in Seq(Groups) /\ Len(p) \in Nat
      /\ q \in Seq(Groups) /\ Len(q) = Len(p) + 1 /\ q[1] = g
      /\ \A i \in 2 .. Len(q) : q[i] = p[i - 1]
  <2>1. p \in Seq(Groups) /\ Len(p) \in Nat
    BY DEF Climbing
  <2>2. q \in Seq(Groups) /\ Len(q) = Len(p) + 1
    BY <2>1
  <2>3. q[1] = g
    BY <2>1
  <2>4. \A i \in 2 .. Len(q) : q[i] = p[i - 1]
    BY <2>1
  <2> QED BY <2>1, <2>2, <2>3, <2>4
<1>2. \A i \in 1 .. Len(q) : monitors[q[i]].group
  <2> SUFFICES ASSUME NEW i \in 1 .. Len(q) PROVE monitors[q[i]].group
    OBVIOUS
  <2> HIDE DEF q
  <2>1. CASE i = 1
    BY <1>1, <2>1
  <2>2. CASE i # 1
    <3>1. i \in 2 .. Len(q) /\ i - 1 \in 1 .. Len(p)
      BY <1>1, <2>2
    <3> QED BY <1>1, <3>1 DEF Climbing
  <2> QED BY <2>1, <2>2
<1>3. \A i \in 2 .. Len(q) : monitors[q[i]].parent = q[i - 1]
  <2> SUFFICES ASSUME NEW i \in 2 .. Len(q) PROVE monitors[q[i]].parent = q[i - 1]
    OBVIOUS
  <2> HIDE DEF q
  <2>1. CASE i = 2
    <3>1. Len(p) > 0 /\ q[2] = p[1] /\ q[1] = g
      BY <1>1, <2>1
    <3> QED BY <2>1, <3>1 DEF Climbing
  <2>2. CASE i # 2
    <3>1. i - 1 \in 2 .. Len(p) /\ i - 1 \in 2 .. Len(q)
      BY <1>1, <2>2
    <3>2. q[i] = p[i - 1] /\ q[i - 1] = p[(i - 1) - 1]
      BY <1>1, <3>1
    <3>3. monitors[p[i - 1]].parent = p[(i - 1) - 1]
      BY <3>1, Zenon DEF Climbing
    <3> QED BY <3>2, <3>3, Zenon
  <2> QED BY <2>1, <2>2
<1>4. q[Len(q)] = Group
  <2> HIDE DEF q
  <2>1. CASE Len(p) = 0
    BY <1>1, <2>1 DEF Climbing
  <2>2. CASE Len(p) > 0
    <3>1. Len(q) \in 2 .. Len(q) /\ q[Len(q)] = p[Len(q) - 1] /\ Len(q) - 1 = Len(p)
      BY <1>1, <2>2
    <3> QED BY <2>2, <3>1 DEF Climbing
  <2> QED BY <1>1, <2>1, <2>2
<1> HIDE DEF q
<1>5. Climbing(q, monitors[g].parent)
  BY <1>1, <1>2, <1>3, <1>4 DEF Climbing
<1> QED BY <1>5 DEF q

\* A path that has no monitor above it and is the configured one is that of the group.
LEMMA TopReached ==
  ASSUME Climbing(GroupPath, None), Len(GroupPath) > 0
  PROVE  IsPath(GroupPath)
BY DEF Climbing, IsPath

\* begin has not checked the group yet.
Checking == pc \in {"start", "login", "getMonitor"}
\* A window may be made: its request is posted, or it has been.
Making == rows # {} \/ (inbox # None /\ inbox.call = "addMaintenance")

GroupFirst ==
    /\ pc \in {"start", "login"} => path = <<>> /\ group = Group
    /\ pc = "getMonitor" => Climbing(path, group)
    /\ Checking => ~Making
    /\ Making \/ pc \in Calls \ {"login", "getMonitor"} \/ pc \in {"opened", "closed"}
         => IsPath(GroupPath)

\* Kuma's monitors stay; a window is made only by a request that was posted.
LEMMA StepKeeps ==
  ASSUME WellFormed, [Next]_vars
  PROVE  /\ monitors' = monitors
         /\ \/ UNCHANGED <<pc, group, path>> /\ (~Making => ~Making')
            \/ Begin \/ End \/ (\E a \in Answer : Return(a))
            \/ pc' = "failed" /\ (~Making => ~Making')
<1>1. CASE Begin \/ End \/ (\E a \in Answer : Return(a))
  <2>1. Leads
    BY <1>1, StartLeads, ReturnLeads, Zenon
  <2>2. monitors' = monitors
    BY <2>1 DEF Leads, Asked, Ask, Leave, kuma
  <2> QED BY <1>1, <2>2, Zenon
<1>2. CASE TimedOut \/ TransportFails
  BY <1>2 DEF TimedOut, TransportFails, Leave, Making, kuma
<1>3. CASE Posted \/ Polled \/ Ponged \/ PollAgain \/ Lost \/ Broadcast \/ Ping \/ Tick \/ UNCHANGED vars
  BY <1>3 DEF Posted, Polled, Ponged, PollAgain, Lost, Broadcast, Ping, Tick, vars, kuma, wire, client, Making
<1>4. CASE Others
  BY <1>4 DEF Others, wire, client, Making
<1>5. CASE KumaAnswers
  <2>1. UNCHANGED <<monitors, pc, group, path>> /\ inbox # None /\ inbox' = None
    BY <1>5 DEF KumaAnswers, client
  <2>2. ASSUME ~Making PROVE rows' = {}
    <3>1. rows = {} /\ inbox.call # "addMaintenance" /\ Target = {}
      BY <2>1, <2>2 DEF Making, Target
    <3>2. CASE UNCHANGED rows
      BY <3>1, <3>2
    <3>3. CASE Carry
      <4>1. CASE inbox.call = "addMonitorMaintenance"
        BY <3>1, <3>3, <4>1, Zenon DEF Carry
      <4>2. CASE inbox.call = "deleteMaintenance"
        <5>1. rows' \in {rows, rows \ Target}
          BY <3>3, <4>2, Zenon DEF Carry
        <5> QED BY <3>1, <5>1
      <4>3. CASE inbox.call \notin {"addMaintenance", "addMonitorMaintenance", "deleteMaintenance"}
        BY <3>1, <3>3, <4>3 DEF Carry
      <4> QED BY <3>1, <4>1, <4>2, <4>3
    <3> QED BY <1>5, <3>2, <3>3 DEF KumaAnswers
  <2> QED BY <2>1, <2>2 DEF Making
<1> QED BY <1>1, <1>2, <1>3, <1>4, <1>5, Zenon DEF Next, Local

\* Kuma has a row of the attempt only under a group whose whole path, from the
\* monitor up, is the configured one (check_group, begin).
THEOREM WindowIsOfTheGroup == Spec => []WindowOnlyForTheGroup
<1>1. Init => GroupFirst
  BY DEF Init, GroupFirst, Checking, Making, Calls, BeginCalls, EndCalls
<1>2. WellFormed /\ GroupFirst /\ [Next]_vars => GroupFirst'
  <2> SUFFICES ASSUME WellFormed, GroupFirst, [Next]_vars PROVE GroupFirst'
    OBVIOUS
  <2>0. monitors' = monitors /\ (IsPath(GroupPath)' <=> IsPath(GroupPath))
    BY StepKeeps DEF IsPath
  <2>1. CASE UNCHANGED <<pc, group, path>> /\ (~Making => ~Making')
    BY <2>0, <2>1 DEF GroupFirst, Climbing, Checking
  <2>2. CASE pc' = "failed" /\ (~Making => ~Making')
    BY <2>0, <2>2 DEF GroupFirst, Checking, Calls, BeginCalls, EndCalls
  <2>3. CASE Begin
    <3>1. pc = "start" /\ pc' = "login" /\ inbox'.call = "login" /\ UNCHANGED <<rows, group, path>>
      BY <2>3 DEF Begin, Proceed, Ask, kuma
    <3> QED BY <2>0, <3>1 DEF GroupFirst, Checking, Making, Calls, BeginCalls, EndCalls
  <2>4. CASE End \/ (\E a \in Answer : Return(a))
    <3>1. Leads /\ inbox = None
      BY <2>4, StartLeads, ReturnLeads, Zenon
    <3>2. pc # "start" /\ pc # "failed"
      BY <2>4, ReturnLeads, Zenon DEF End, Calls, BeginCalls, EndCalls
    <3>3. CASE pc \notin {"login", "getMonitor"}
      <4>1. IsPath(GroupPath)
        BY <3>2, <3>3 DEF GroupFirst, WellFormed, TypeOK
      <4>2. pc' \notin {"start", "login", "getMonitor"}
        <5>1. CASE End
          BY <5>1 DEF End, Proceed, Ask
        <5>2. CASE \E a \in Answer : Return(a)
          BY <3>3, <5>2 DEF Return, LoggedIn, GroupRead, TitleFree, Added, Linked, LinksRead, Opened,
             EndLoggedIn, TitleSame, GroupSame, Deleted, Closed, Returned, Proceed, Ask, Leave
        <5> QED BY <2>4, <5>1, <5>2
      <4> QED BY <2>0, <4>1, <4>2 DEF GroupFirst, Checking
    <3>4. ASSUME Leave("failed"), Checking PROVE GroupFirst'
      <4>1. rows' = {} /\ inbox' = None /\ pc' = "failed"
        BY <3>1, <3>4 DEF Leave, GroupFirst, Making, kuma
      <4> QED BY <4>1 DEF GroupFirst, Checking, Making, Calls, BeginCalls, EndCalls
    <3>5. CASE pc = "login"
      <4>1. \E a \in Answer : LoggedIn(a)
        BY <2>4, <3>5 DEF End, Return, LoggedIn, GroupRead, TitleFree, Added, Linked, LinksRead, Opened,
           EndLoggedIn, TitleSame, GroupSame, Deleted, Closed, Returned
      <4>2. CASE Leave("failed")
        BY <3>4, <3>5, <4>2 DEF Checking
      <4>3. CASE Ask("getMonitor") /\ UNCHANGED <<group, path>>
        <5>1. Climbing(path, group)'
          BY <3>5, <4>3 DEF GroupFirst, Climbing
        <5>2. pc' = "getMonitor" /\ rows' = {} /\ inbox'.call = "getMonitor"
          BY <3>5, <4>3 DEF Ask, GroupFirst, Checking, Making, kuma
        <5> QED BY <5>1, <5>2 DEF GroupFirst, Checking, Making, Calls, BeginCalls, EndCalls
      <4> QED BY <4>1, <4>2, <4>3, Zenon DEF LoggedIn, Proceed
    <3>6. CASE pc = "getMonitor"
      <4>1. \E a \in Answer : GroupRead(a)
        BY <2>4, <3>6 DEF End, Return, LoggedIn, GroupRead, TitleFree, Added, Linked, LinksRead, Opened,
           EndLoggedIn, TitleSame, GroupSame, Deleted, Closed, Returned
      <4>2. CASE Leave("failed")
        BY <3>4, <3>6, <4>2 DEF Checking
      <4>3. CASE ~Leave("failed")
        <5> DEFINE monitor == monitors[group]
                   longer == <<group>> \o path
        <5>1. /\ monitor.group
              /\ monitor.parent = None => longer = GroupPath
              /\ path' = longer /\ group' = monitor.parent
              /\ IF monitor.parent = None THEN Ask("getMaintenanceList") ELSE Ask("getMonitor")
          BY <4>1, <4>3, Zenon DEF GroupRead, PathDiffers
        <5>2. group \in Groups /\ Climbing(path, group)
          BY <3>6 DEF GroupFirst, WellFormed, Wire
        <5>3. Climbing(longer, monitor.parent)
          BY <5>1, <5>2, OneStepUp, Zenon
        <5>4. rows' = {} /\ inbox'.call = pc' /\ pc' \in {"getMaintenanceList", "getMonitor"}
          BY <3>6, <5>1 DEF Ask, GroupFirst, Checking, Making, kuma
        <5>5. CASE monitor.parent = None
          <6>1. pc' = "getMaintenanceList"
            BY <5>1, <5>5 DEF Ask
          <6>2. Len(longer) > 0
            BY <5>2 DEF Climbing
          <6>3. IsPath(GroupPath)
            BY <5>1, <5>3, <5>5, <6>2, TopReached
          <6> QED BY <2>0, <5>4, <6>1, <6>3 DEF GroupFirst, Checking, Making
        <5>6. CASE monitor.parent # None
          <6>1. pc' = "getMonitor"
            BY <5>1, <5>6 DEF Ask
          <6>2. Climbing(path, group)'
            BY <2>0, <5>1, <5>3 DEF Climbing
          <6> QED BY <5>4, <6>1, <6>2 DEF GroupFirst, Checking, Making, Calls, BeginCalls, EndCalls
        <5> QED BY <5>5, <5>6
      <4> QED BY <4>2, <4>3
    <3> QED BY <3>3, <3>5, <3>6
  <2> QED BY <2>1, <2>2, <2>3, <2>4, StepKeeps, Zenon
<1>3. GroupFirst => WindowOnlyForTheGroup
  BY DEF GroupFirst, WindowOnlyForTheGroup, Making
<1> QED BY <1>1, <1>2, <1>3, WellFormedSafe, PTL DEF Spec
=============================================================================
