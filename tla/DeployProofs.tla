---------------------------- MODULE DeployProofs ----------------------------
(***************************************************************************)
(* Proofs about the two views of a deployment.                             *)
(*                                                                         *)
(* DeployWindow, for any number of attempts and any timeouts that satisfy  *)
(* TimesAssumption: services are only ever down inside a live window,      *)
(* success leaves nothing behind and failure leaves the window.            *)
(*                                                                         *)
(* DeployRollout, for any number of jobs: what a job alone starts is its   *)
(* own build, and what runs in the end is what was verified last.          *)
(***************************************************************************)
EXTENDS DeployWindow, DeployRollout, TLAPS

----------------------------------------------------------------------------
(* The maintenance window.                                                 *)

Before == {"start", "begin"}
Opening == {"adding", "linking", "confirming", "confirmed"}

\* Requests on the wire fit the row they are about.
Wires ==
    \A a \in Attempts :
        /\ wire[a].op = "none" => wire[a] = NoRequest
        /\ wire[a].op = "add" => window[a] = None
        /\ wire[a].op = "link" => window[a] # None
        /\ wire[a].op = "delete" => a \in verified

\* What an attempt knows of its window at each place.
Knowledge ==
    \A a \in Attempts :
        /\ a \notin Monitored => /\ pc[a] \notin Opening
                                 /\ pc[a] \notin {"begin", "ending", "deleting"}
        /\ a \notin Monitored \/ pc[a] \in Before
              => window[a] = None /\ wire[a] = NoRequest
        /\ pc[a] = "adding" => wire[a].op \in {"none", "add"}
        /\ pc[a] = "linking" => /\ window[a] # None
                                /\ wire[a].op \in {"none", "link"}
        /\ a \in Monitored /\ pc[a] \in {"confirming", "confirmed", "ending"}
                                          \union Interrupting
              => wire[a] = NoRequest /\ window[a] # None /\ window[a].linked
        /\ pc[a] \in {"ending", "deleting", "done"} => a \in verified
        /\ pc[a] = "done" => window[a] = None /\ wire[a] = NoRequest

\* While it opens, the window ends no sooner than Duration after the request.
Promise ==
    \A a \in Attempts :
        /\ requestedAt[a] <= now
        /\ pc[a] = "adding" /\ wire[a].op = "add"
              => requestedAt[a] + Duration <= wire[a].end + Skew
        /\ pc[a] \in Opening /\ window[a] # None
              => requestedAt[a] + Duration <= window[a].end + Skew

\* Each command is launched with room in the window for those to come.
Room ==
    \A a \in Attempts :
        /\ pc[a] \in Interrupting => now <= deadline[a]
        /\ a \in Monitored =>
              /\ pc[a] = "down" =>
                    deadline[a] + UpTimeout + ReadinessTimeout + Margin
                       <= window[a].end + Skew + Overrun
              /\ pc[a] = "up" =>
                    deadline[a] + ReadinessTimeout + Margin
                       <= window[a].end + Skew + 2 * Overrun
              /\ pc[a] = "verify" =>
                    deadline[a] + Margin
                       <= window[a].end + Skew + 3 * Overrun

IInv == TypeOK /\ Wires /\ Knowledge /\ Promise /\ Room

USE TimesAssumption, MonitoredAssumption, NoneAssumption
    DEF Interrupting, Before, Opening, Locations, Requests, NoRequest, Windows

----------------------------------------------------------------------------
\* The invariant is inductive: no step of an attempt, of Kuma or of the clock
\* breaks a part of it.
LEMMA Inductive == IInv /\ [Next]_vars => IInv'
<1> SUFFICES ASSUME IInv, [Next]_vars PROVE IInv'
  OBVIOUS
<1> USE DEF IInv, TypeOK
<1>1. ASSUME NEW a \in Attempts, Request(a)
      PROVE  IInv'
  <2>1. TypeOK'
    BY <1>1 DEF Request, Goto
  <2>2. Wires'
    BY <1>1 DEF Request, Goto, Wires, Knowledge
  <2>3. Knowledge'
    BY <1>1 DEF Request, Goto, Wires, Knowledge
  <2>4. Promise'
    BY <1>1 DEF Request, Goto, Wires, Knowledge, Promise
  <2>5. Room'
    BY <1>1 DEF Request, Goto, Wires, Knowledge, Promise, Room
  <2> QED BY <2>1, <2>2, <2>3, <2>4, <2>5
<1>2. ASSUME NEW a \in Attempts, AddMaintenance(a)
      PROVE  IInv'
  <2>1. TypeOK'
    BY <1>2 DEF AddMaintenance, Send, Goto
  <2>2. Wires'
    BY <1>2 DEF AddMaintenance, Send, Goto, Wires, Knowledge
  <2>3. Knowledge'
    BY <1>2 DEF AddMaintenance, Send, Goto, Wires, Knowledge
  <2>4. Promise'
    BY <1>2 DEF AddMaintenance, Send, Goto, Wires, Knowledge, Promise
  <2>5. Room'
    BY <1>2 DEF AddMaintenance, Send, Goto, Wires, Knowledge, Promise, Room
  <2> QED BY <2>1, <2>2, <2>3, <2>4, <2>5
<1>3. ASSUME NEW a \in Attempts, LinkMonitor(a)
      PROVE  IInv'
  <2>1. TypeOK'
    BY <1>3 DEF LinkMonitor, Send, Goto
  <2>2. Wires'
    BY <1>3 DEF LinkMonitor, Send, Goto, Wires, Knowledge
  <2>3. Knowledge'
    BY <1>3 DEF LinkMonitor, Send, Goto, Wires, Knowledge
  <2>4. Promise'
    BY <1>3 DEF LinkMonitor, Send, Goto, Wires, Knowledge, Promise
  <2>5. Room'
    BY <1>3 DEF LinkMonitor, Send, Goto, Wires, Knowledge, Promise, Room
  <2> QED BY <2>1, <2>2, <2>3, <2>4, <2>5
<1>4. ASSUME NEW a \in Attempts, CheckLink(a)
      PROVE  IInv'
  <2>1. TypeOK'
    BY <1>4 DEF CheckLink, Goto
  <2>2. Wires'
    BY <1>4 DEF CheckLink, Goto, Wires, Knowledge
  <2>3. Knowledge'
    BY <1>4 DEF CheckLink, Goto, Wires, Knowledge
  <2>4. Promise'
    BY <1>4 DEF CheckLink, Goto, Wires, Knowledge, Promise
  <2>5. Room'
    BY <1>4 DEF CheckLink, Goto, Wires, Knowledge, Promise, Room
  <2> QED BY <2>1, <2>2, <2>3, <2>4, <2>5
<1>5. ASSUME NEW a \in Attempts, Confirm(a)
      PROVE  IInv'
  <2>1. TypeOK'
    BY <1>5 DEF Confirm, Goto, UnderMaintenance
  <2>2. Wires'
    BY <1>5 DEF Confirm, Goto, UnderMaintenance, Wires, Knowledge
  <2>3. Knowledge'
    BY <1>5 DEF Confirm, Goto, UnderMaintenance, Wires, Knowledge
  <2>4. Promise'
    BY <1>5 DEF Confirm, Goto, UnderMaintenance, Wires, Knowledge, Promise
  <2>5. Room'
    BY <1>5 DEF Confirm, Goto, UnderMaintenance, Wires, Knowledge, Promise, Room
  <2> QED BY <2>1, <2>2, <2>3, <2>4, <2>5
<1>6. ASSUME NEW a \in Attempts, Stop(a)
      PROVE  IInv'
  <2>1. TypeOK'
    BY <1>6 DEF Stop, Launch, Goto, Needed
  <2>2. Wires'
    BY <1>6 DEF Stop, Launch, Goto, Needed, Wires, Knowledge
  <2>3. Knowledge'
    BY <1>6 DEF Stop, Launch, Goto, Needed, Wires, Knowledge
  <2>4. Promise'
    BY <1>6 DEF Stop, Launch, Goto, Needed, Wires, Knowledge, Promise
  <2>5. Room'
    BY <1>6 DEF Stop, Launch, Goto, Needed, Wires, Knowledge, Promise, Room
  <2> QED BY <2>1, <2>2, <2>3, <2>4, <2>5
<1>7. ASSUME NEW a \in Attempts, Start(a)
      PROVE  IInv'
  <2>1. TypeOK'
    BY <1>7 DEF Start, Launch, Goto
  <2>2. Wires'
    BY <1>7 DEF Start, Launch, Goto, Wires, Knowledge
  <2>3. Knowledge'
    BY <1>7 DEF Start, Launch, Goto, Wires, Knowledge
  <2>4. Promise'
    BY <1>7 DEF Start, Launch, Goto, Wires, Knowledge, Promise
  <2>5. Room'
    BY <1>7 DEF Start, Launch, Goto, Wires, Knowledge, Promise, Room
  <2> QED BY <2>1, <2>2, <2>3, <2>4, <2>5
<1>8. ASSUME NEW a \in Attempts, Verify(a)
      PROVE  IInv'
  <2>1. TypeOK'
    BY <1>8 DEF Verify, Launch, Goto
  <2>2. Wires'
    BY <1>8 DEF Verify, Launch, Goto, Wires, Knowledge
  <2>3. Knowledge'
    BY <1>8 DEF Verify, Launch, Goto, Wires, Knowledge
  <2>4. Promise'
    BY <1>8 DEF Verify, Launch, Goto, Wires, Knowledge, Promise
  <2>5. Room'
    BY <1>8 DEF Verify, Launch, Goto, Wires, Knowledge, Promise, Room
  <2> QED BY <2>1, <2>2, <2>3, <2>4, <2>5
<1>9. ASSUME NEW a \in Attempts, Verified(a)
      PROVE  IInv'
  <2>1. TypeOK'
    <3>1. UNCHANGED <<now, wire, window>> /\ verified' = verified \union {a}
      BY <1>9 DEF Verified
    <3>2. pc' = [pc EXCEPT ![a] = "ending"] \/ pc' = [pc EXCEPT ![a] = "done"]
      BY <1>9 DEF Verified, Leave, Goto
    <3>3. /\ requestedAt' = requestedAt \/ requestedAt' = [requestedAt EXCEPT ![a] = 0]
          /\ deadline' = deadline \/ deadline' = [deadline EXCEPT ![a] = 0]
      BY <1>9 DEF Verified, Leave
    <3>4. pc' \in [Attempts -> Locations]
      BY <3>2
    <3>5. requestedAt' \in [Attempts -> Nat] /\ deadline' \in [Attempts -> Nat]
      BY <3>3
    <3> QED BY <3>1, <3>4, <3>5
  <2>2. Wires'
    BY <1>9 DEF Verified, Leave, Goto, Wires, Knowledge
  <2>3. Knowledge'
    BY <1>9 DEF Verified, Leave, Goto, Wires, Knowledge
  <2>4. Promise'
    BY <1>9 DEF Verified, Leave, Goto, Wires, Knowledge, Promise
  <2>5. Room'
    BY <1>9 DEF Verified, Leave, Goto, Wires, Knowledge, Promise, Room
  <2> QED BY <2>1, <2>2, <2>3, <2>4, <2>5
<1>10. ASSUME NEW a \in Attempts, Fail(a)
       PROVE  IInv'
  <2>1. TypeOK'
    BY <1>10 DEF Fail, Leave, Goto
  <2>2. Wires'
    BY <1>10 DEF Fail, Leave, Goto, Wires, Knowledge
  <2>3. Knowledge'
    BY <1>10 DEF Fail, Leave, Goto, Wires, Knowledge
  <2>4. Promise'
    BY <1>10 DEF Fail, Leave, Goto, Wires, Knowledge, Promise
  <2>5. Room'
    BY <1>10 DEF Fail, Leave, Goto, Wires, Knowledge, Promise, Room
  <2> QED BY <2>1, <2>2, <2>3, <2>4, <2>5
<1>11. ASSUME NEW a \in Attempts, DeleteMaintenance(a)
       PROVE  IInv'
  <2>1. TypeOK'
    BY <1>11 DEF DeleteMaintenance, Send, Goto
  <2>2. Wires'
    BY <1>11 DEF DeleteMaintenance, Send, Goto, Wires, Knowledge
  <2>3. Knowledge'
    BY <1>11 DEF DeleteMaintenance, Send, Goto, Wires, Knowledge
  <2>4. Promise'
    BY <1>11 DEF DeleteMaintenance, Send, Goto, Wires, Knowledge, Promise
  <2>5. Room'
    BY <1>11 DEF DeleteMaintenance, Send, Goto, Wires, Knowledge, Promise, Room
  <2> QED BY <2>1, <2>2, <2>3, <2>4, <2>5
<1>12. ASSUME NEW a \in Attempts, Closed(a)
       PROVE  IInv'
  <2>1. TypeOK'
    BY <1>12 DEF Closed, Leave, Goto
  <2>2. Wires'
    BY <1>12 DEF Closed, Leave, Goto, Wires, Knowledge
  <2>3. Knowledge'
    BY <1>12 DEF Closed, Leave, Goto, Wires, Knowledge
  <2>4. Promise'
    BY <1>12 DEF Closed, Leave, Goto, Wires, Knowledge, Promise
  <2>5. Room'
    BY <1>12 DEF Closed, Leave, Goto, Wires, Knowledge, Promise, Room
  <2> QED BY <2>1, <2>2, <2>3, <2>4, <2>5
<1>13. ASSUME NEW a \in Attempts, KumaApplies(a)
       PROVE  IInv'
  <2>1. /\ wire' = [wire EXCEPT ![a] = NoRequest]
        /\ UNCHANGED <<now, pc, requestedAt, deadline, verified>>
        /\ wire[a].op # "none"
    BY <1>13 DEF KumaApplies, Wires
  <2>2. /\ window' = [window EXCEPT ![a] = window'[a]]
        /\ wire[a].op = "add" => window'[a] = [end |-> wire[a].end,
                                               linked |-> FALSE]
        /\ wire[a].op = "link" => /\ window[a] \in Windows
                                  /\ window'[a] = [window[a] EXCEPT
                                                      !.linked = TRUE]
        /\ wire[a].op = "delete" => window'[a] = None
    BY <1>13, <2>1 DEF KumaApplies, Wires
  <2>3. wire[a].op = "link" => /\ window'[a] \in Windows
                               /\ window'[a].linked
                               /\ window'[a].end = window[a].end
    BY <2>2
  <2>4. wire[a].op \in {"add", "link", "delete"}
    BY <2>1
  <2>5. TypeOK'
    <3>1. wire[a].end \in Nat
      OBVIOUS
    <3>2. wire[a].op = "add" => window'[a] \in Windows
      <4> DEFINE w == [end |-> wire[a].end, linked |-> FALSE]
      <4>1. w \in Windows
        BY <3>1
      <4>2. wire[a].op = "add" => window'[a] = w
        BY <2>2
      <4> HIDE DEF w
      <4> QED BY <4>1, <4>2
    <3>3. window'[a] \in Windows \union {None}
      BY <2>2, <2>3, <2>4, <3>2
    <3>4. window' \in [Attempts -> Windows \union {None}]
      BY <2>2, <3>3
    <3> QED BY <2>1, <3>4
  <2>6. Wires'
    BY <2>1, <2>2 DEF Wires
  <2>7. Knowledge'
    BY <2>1, <2>2, <2>3, <2>4 DEF Wires, Knowledge
  <2>8. Promise'
    BY <2>1, <2>2, <2>3, <2>4 DEF Wires, Knowledge, Promise
  <2>9. Room'
    BY <2>1, <2>2, <2>3, <2>4 DEF Wires, Knowledge, Room
  <2> QED BY <2>5, <2>6, <2>7, <2>8, <2>9
<1>14. ASSUME NEW a \in Attempts, Lost(a)
       PROVE  IInv'
  <2>1. TypeOK'
    BY <1>14 DEF Lost
  <2>2. Wires'
    BY <1>14 DEF Lost, Wires, Knowledge
  <2>3. Knowledge'
    BY <1>14 DEF Lost, Wires, Knowledge
  <2>4. Promise'
    BY <1>14 DEF Lost, Wires, Knowledge, Promise
  <2>5. Room'
    BY <1>14 DEF Lost, Wires, Knowledge, Promise, Room
  <2> QED BY <2>1, <2>2, <2>3, <2>4, <2>5
<1>15. CASE Tick
  BY <1>15 DEF Tick, Wires, Knowledge, Promise, Room
<1>16. CASE UNCHANGED vars
  BY <1>16 DEF vars, Wires, Knowledge, Promise, Room
<1> QED BY <1>1, <1>2, <1>3, <1>4, <1>5, <1>6, <1>7, <1>8, <1>9, <1>10, <1>11, <1>12, <1>13, <1>14, <1>15, <1>16 DEF Next

\* In every reachable state the parts of the invariant hold together.
THEOREM WindowInvariant == Spec => []IInv
<1>1. Init => IInv
  BY DEF Init, IInv, TypeOK, Wires, Knowledge, Promise, Room
<1> QED BY <1>1, Inductive, PTL DEF Spec

\* Every variable keeps its type.
COROLLARY WindowTypeSafe == Spec => []TypeOK
BY WindowInvariant, PTL DEF IInv

\* From "docker compose down" to the end of verify_release the group is under
\* maintenance: the check of the remaining time leaves room for the three
\* timeouts and the margin for what exceeds them.
THEOREM InterruptionIsCovered == Spec => []CoveredInterruption
<1>1. IInv => CoveredInterruption
  BY DEF IInv, TypeOK, Knowledge, Room, CoveredInterruption, UnderMaintenance
<1> QED BY <1>1, WindowInvariant, PTL

\* deploy() returns only with the release verified and its window deleted.
THEOREM SuccessLeavesNothing == Spec => []SuccessIsClean
<1>1. IInv => SuccessIsClean
  BY DEF IInv, Knowledge, SuccessIsClean
<1> QED BY <1>1, WindowInvariant, PTL

\* Only KumaClient.end ends a window early, and only after verify_release.
THEOREM FailureLeavesWindow == Spec => FailureKeepsWindow
<1>1. ASSUME IInv, [Next]_vars, NEW a \in Attempts,
             UnderMaintenance(a), ~UnderMaintenance(a)', now' = now
      PROVE  a \in verified
  <2>1. window'[a] # window[a]
    BY <1>1 DEF UnderMaintenance
  <2>2. KumaApplies(a)
    <3>1. CASE UNCHANGED vars
      BY <2>1, <3>1 DEF vars
    <3>2. ASSUME NEW b \in Attempts, b # a, KumaApplies(b)
          PROVE  FALSE
      BY <1>1, <2>1, <3>2 DEF KumaApplies, IInv, TypeOK
    <3>3. window' = window \/ \E b \in Attempts : KumaApplies(b)
      BY <1>1
      DEF Next, vars, Request, AddMaintenance, LinkMonitor, CheckLink, Confirm,
          Stop, Start, Verify, Verified, Fail, DeleteMaintenance, Closed, Lost,
          Tick
    <3> QED BY <2>1, <3>2, <3>3
  <2>3. wire[a].op = "delete"
    <3>1. wire[a].op \in {"add", "link", "delete"}
      BY <1>1, <2>2 DEF KumaApplies, IInv, TypeOK, Wires
    <3>2. wire[a].op # "add"
      BY <1>1 DEF IInv, Wires, UnderMaintenance
    <3>3. wire[a].op # "link"
      <4> SUFFICES ASSUME wire[a].op = "link" PROVE FALSE
        OBVIOUS
      <4>1. window[a] \in Windows
        BY <1>1 DEF IInv, TypeOK, UnderMaintenance
      <4>2. window'[a] = [window[a] EXCEPT !.linked = TRUE]
        BY <1>1, <2>2 DEF KumaApplies, IInv, TypeOK
      <4>3. window'[a] = window[a]
        BY <1>1, <4>1, <4>2 DEF UnderMaintenance
      <4> QED BY <2>1, <4>3
    <3> QED BY <3>1, <3>2, <3>3
  <2> QED BY <1>1, <2>3 DEF IInv, Wires
<1>2. IInv /\ [Next]_vars =>
        \A a \in Attempts :
           UnderMaintenance(a) /\ ~UnderMaintenance(a)' /\ now' = now
              => a \in verified
  BY <1>1
<1> QED BY <1>2, WindowInvariant, PTL DEF Spec, FailureKeepsWindow

----------------------------------------------------------------------------
(* The images.                                                             *)

USE DEF Underway

\* Each step of a job that is alone finds what its previous step left.
AloneInStep ==
    \A j \in Jobs :
        Underway(j) /\ j \notin met =>
            /\ \A k \in Jobs \ {j} : ~Underway(k)
            /\ at[j] = "push" => agentAlias = j
            /\ at[j] = "pull" => registry = j
            /\ at[j] \in {"inspect", "down", "up"} => targetAlias = j
            /\ at[j] = "verify" => running = j

\* Services that do not run the last verified release are in the hands of a
\* job that has stopped them and is not through yet, or has given up.
SomebodyIsAtIt ==
    \/ running = lastVerified
    \/ broke # {}
    \/ \E j \in Jobs : at[j] \in {"up", "verify"}

\* A command that outlived its job belongs to one that failed with services
\* stopped, or about to be.
LateIsOver ==
    \A j \in Jobs : late[j] # "none" => j \in broke /\ at[j] = "failed"

\* Every variable keeps its type.
THEOREM RolloutTypeSafe == RolloutSpec => []RolloutTypeOK
<1> USE DEF RolloutTypeOK, Steps, Images
<1>1. RolloutInit => RolloutTypeOK
  BY DEF RolloutInit
<1>2. RolloutTypeOK /\ [RolloutNext]_rolloutVars => RolloutTypeOK'
  <2> SUFFICES ASSUME RolloutTypeOK, [RolloutNext]_rolloutVars PROVE RolloutTypeOK'
    OBVIOUS
  <2>1. ASSUME NEW j \in Jobs,
               \/ Build(j) \/ Push(j) \/ Pull(j) \/ Inspect(j)
               \/ Down(j) \/ Up(j) \/ VerifyImage(j) \/ GiveUp(j)
        PROVE  RolloutTypeOK'
    BY <2>1 DEF Build, Push, Pull, Inspect, Down, Up, VerifyImage, GiveUp, Go
  <2>2. ASSUME NEW j \in Jobs, TimeOut(j) PROVE RolloutTypeOK'
    BY <2>2 DEF TimeOut, Go
  <2>3. ASSUME NEW j \in Jobs, Land(j) PROVE RolloutTypeOK'
    BY <2>3 DEF Land
  <2>4. CASE UNCHANGED rolloutVars
    BY <2>4 DEF rolloutVars
  <2> QED BY <2>1, <2>2, <2>3, <2>4 DEF RolloutNext
<1> QED BY <1>1, <1>2, PTL DEF RolloutSpec

\* What outlived a job is all that is left of it.
LEMMA LateSafe == RolloutSpec => []LateIsOver
<1>1. RolloutInit => LateIsOver
  BY DEF RolloutInit, LateIsOver
<1>2. RolloutTypeOK /\ LateIsOver /\ [RolloutNext]_rolloutVars => LateIsOver'
  BY DEF RolloutTypeOK, Steps, LateIsOver, RolloutNext, rolloutVars, Build, Push, Pull, Inspect,
         Down, Up, VerifyImage, GiveUp, TimeOut, Land, Go
<1> QED BY <1>1, <1>2, RolloutTypeSafe, PTL DEF RolloutSpec

\* A job during which no other one is under way verifies its own release.
THEOREM AloneIsSafe == RolloutSpec => []AloneSeesItself
<1>1. RolloutInit => AloneInStep
  BY DEF RolloutInit, AloneInStep
<1>2. RolloutTypeOK /\ LateIsOver /\ AloneInStep /\ [RolloutNext]_rolloutVars => AloneInStep'
  <2> SUFFICES ASSUME RolloutTypeOK, LateIsOver, AloneInStep, [RolloutNext]_rolloutVars PROVE AloneInStep'
    OBVIOUS
  <2> USE DEF RolloutTypeOK, AloneInStep, Steps, Go
  <2>1. ASSUME NEW j \in Jobs, Build(j) PROVE AloneInStep'
    BY <2>1 DEF Build
  <2>2. ASSUME NEW j \in Jobs, Push(j) PROVE AloneInStep'
    BY <2>2 DEF Push
  <2>3. ASSUME NEW j \in Jobs, Pull(j) PROVE AloneInStep'
    BY <2>3 DEF Pull
  <2>4. ASSUME NEW j \in Jobs, Inspect(j) PROVE AloneInStep'
    BY <2>4 DEF Inspect
  <2>5. ASSUME NEW j \in Jobs, Down(j) PROVE AloneInStep'
    BY <2>5 DEF Down
  <2>6. ASSUME NEW j \in Jobs, Up(j) PROVE AloneInStep'
    BY <2>6 DEF Up
  <2>7. ASSUME NEW j \in Jobs, VerifyImage(j) PROVE AloneInStep'
    BY <2>7 DEF VerifyImage
  <2>8. ASSUME NEW j \in Jobs, GiveUp(j) PROVE AloneInStep'
    BY <2>8 DEF GiveUp
  <2>9. ASSUME NEW j \in Jobs, TimeOut(j) PROVE AloneInStep'
    BY <2>9 DEF TimeOut
  <2>10. ASSUME NEW j \in Jobs, Land(j) PROVE AloneInStep'
    BY <2>10 DEF Land, LateIsOver
  <2>11. CASE UNCHANGED rolloutVars
    BY <2>11 DEF rolloutVars
  <2> QED BY <2>1, <2>2, <2>3, <2>4, <2>5, <2>6, <2>7, <2>8, <2>9, <2>10, <2>11
             DEF RolloutNext
<1>3. AloneInStep => AloneSeesItself
  BY DEF AloneInStep, AloneSeesItself
<1> QED BY <1>1, <1>2, <1>3, RolloutTypeSafe, LateSafe, PTL DEF RolloutSpec

\* When the dust settles and nobody gave up halfway, the release verified
\* last is the one that runs.
THEOREM LastVerifiedStays == RolloutSpec => []LastVerifiedRuns
<1>1. RolloutInit => SomebodyIsAtIt
  BY DEF RolloutInit, SomebodyIsAtIt
<1>2. RolloutTypeOK /\ LateIsOver /\ SomebodyIsAtIt /\ [RolloutNext]_rolloutVars => SomebodyIsAtIt'
  <2> SUFFICES ASSUME RolloutTypeOK, LateIsOver, SomebodyIsAtIt, [RolloutNext]_rolloutVars
               PROVE  SomebodyIsAtIt'
    OBVIOUS
  <2> USE DEF RolloutTypeOK, SomebodyIsAtIt, Steps, Go
  <2>1. ASSUME NEW j \in Jobs,
               Build(j) \/ Push(j) \/ Pull(j) \/ Inspect(j)
        PROVE  SomebodyIsAtIt'
    BY <2>1 DEF Build, Push, Pull, Inspect
  <2>2. ASSUME NEW j \in Jobs, Down(j) \/ Up(j)
        PROVE  SomebodyIsAtIt'
    BY <2>2 DEF Down, Up
  <2>3. ASSUME NEW j \in Jobs, VerifyImage(j)
        PROVE  SomebodyIsAtIt'
    BY <2>3 DEF VerifyImage
  <2>4. ASSUME NEW j \in Jobs, GiveUp(j)
        PROVE  SomebodyIsAtIt'
    BY <2>4 DEF GiveUp
  <2>5. ASSUME NEW j \in Jobs, TimeOut(j)
        PROVE  SomebodyIsAtIt'
    BY <2>5 DEF TimeOut
  <2>6. ASSUME NEW j \in Jobs, Land(j)
        PROVE  SomebodyIsAtIt'
    BY <2>6 DEF Land, LateIsOver
  <2>7. CASE UNCHANGED rolloutVars
    BY <2>7 DEF rolloutVars
  <2> QED BY <2>1, <2>2, <2>3, <2>4, <2>5, <2>6, <2>7 DEF RolloutNext
<1>3. SomebodyIsAtIt => LastVerifiedRuns
  BY DEF SomebodyIsAtIt, LastVerifiedRuns
<1> QED BY <1>1, <1>2, <1>3, RolloutTypeSafe, LateSafe, PTL DEF RolloutSpec
=============================================================================
