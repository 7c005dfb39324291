------------------------------ MODULE WsCiProofs ------------------------------
(***************************************************************************)
(* Proofs about a CI run and the wait for the service it starts with.      *)
(*                                                                         *)
(* WsRun, for any suites, any scenarios and any number of runs and edits:  *)
(* exit code 0 is backed by reports of this run, and Newman gets only what *)
(* it may be given.                                                        *)
(*                                                                         *)
(* Readiness, for any timeout, interval and probe limit: a service that    *)
(* became ready early enough is not reported as timed out.                 *)
(***************************************************************************)
EXTENDS WsRun, Readiness, Integers, FiniteSetTheorems, TLAPS

-----------------------------------------------------------------------------
(* The run.                                                                  *)

\* Newman is given a set of scenarios of the collection that was read.
LEMMA ItemsType ==
  ASSUME TypeOK, NEW s \in Suites
  PROVE  Items(s) \subseteq loaded /\ Items(s) \subseteq Scenarios
BY DEF TypeOK, Items

\* A suite passes only by a report on every request it was given.
LEMMA PassedSentAll ==
  ASSUME TypeOK, NEW s \in Suites, NEW report \in {None} \cup Report,
         report # None => report.sent \subseteq Items(s),
         NEW code, NEW failed \in BOOLEAN, Passes(s, report, code, failed)
  PROVE  report \in Report /\ report.clean /\ report.sent = Items(s)
<1>1. report \in Report /\ report.clean = TRUE
  BY DEF Passes, Report
<1>2. report.sent \in SUBSET Items(s)
  BY DEF Passes
<1>3. IsFiniteSet(Items(s))
  BY ItemsType, ScenariosAssumption, FS_Subset
<1>4. report.sent = Items(s)
  BY <1>2, <1>3, FS_Subset DEF Passes
<1> QED BY <1>1, <1>4

-----------------------------------------------------------------------------
\* Reports carry the number of a run, so a run that is under way needs to have one.
WellTyped == TypeOK /\ (pc # "ended" => run \in Runs)

\* WellTyped is inductive.
LEMMA WellTypedSafe == Spec => []WellTyped
<1>1. Init => WellTyped
  <2> SUFFICES ASSUME Init PROVE WellTyped
    OBVIOUS
  <2>1. arguments \in [role : Roles, target : Targets, suites : SUBSET Suites]
    BY DEF Init, Roles, Targets
  <2>2. touched \in BOOLEAN
    BY DEF Init
  <2> QED BY <2>1, <2>2, BoundsAssumption DEF Init, TypeOK, WellTyped
<1>2. WellTyped /\ [Next]_vars => WellTyped'
  <2> SUFFICES ASSUME WellTyped, [Next]_vars PROVE WellTyped'
    OBVIOUS
  <2> USE BoundsAssumption DEF WellTyped, TypeOK, checkout, reports, history
  <2>1. ASSUME Start PROVE WellTyped'
    <3>1. touched' \in BOOLEAN
      BY <2>1 DEF Start
    <3>2. run' \in Runs
      BY <2>1 DEF Start, Runs
    <3> QED BY <2>1, <3>1, <3>2 DEF Start, Runs
  <2>2. ASSUME Verify PROVE WellTyped'
    BY <2>2 DEF Verify
  <2>3. ASSUME CheckArguments PROVE WellTyped'
    BY <2>3 DEF CheckArguments, Cleared
  <2>4. ASSUME ClearReport PROVE WellTyped'
    BY <2>4 DEF ClearReport
  <2>5. ASSUME ClearSummary PROVE WellTyped'
    BY <2>5 DEF ClearSummary
  <2>6. ASSUME MakeDirectories PROVE WellTyped'
    BY <2>6 DEF MakeDirectories
  <2>7. ASSUME Prepare \/ AwaitReady PROVE WellTyped'
    BY <2>7 DEF Prepare, AwaitReady, selected
  <2>8. ASSUME RunSuites PROVE WellTyped'
    <3>1. PICK s \in todo : RunSuite(s)
      BY <2>8 DEF RunSuites
    <3> QED BY <2>8, <3>1 DEF RunSuite, RunSuites
  <2>9. ASSUME Judge PROVE WellTyped'
    BY <2>9 DEF Judge
  <2>10. ASSUME WriteSummary PROVE WellTyped'
    BY <2>10 DEF WriteSummary, Verdict
  <2>11. ASSUME RemovePrivate PROVE WellTyped'
    BY <2>11 DEF RemovePrivate
  <2>12. ASSUME Kill PROVE WellTyped'
    BY <2>12 DEF Kill
  <2>13. ASSUME Edit PROVE WellTyped'
    <3>1. touched' \in BOOLEAN
      BY <2>13 DEF Edit
    <3>2. collection' \subseteq Scenarios /\ edits' \in 0..MaxEdits
      BY <2>13 DEF Edit
    <3> QED BY <2>13, <3>1, <3>2 DEF Edit
  <2>14. ASSUME Install PROVE WellTyped'
    BY <2>14 DEF Install
  <2>15. CASE UNCHANGED vars
    BY <2>15 DEF vars
  <2> QED BY <2>1, <2>2, <2>3, <2>4, <2>5, <2>6, <2>7, <2>8, <2>9, <2>10, <2>11, <2>12,
             <2>13, <2>14, <2>15 DEF Next
<1> QED BY <1>1, <1>2, PTL DEF Spec

\* Every state of a run has its type, whatever fails and whoever edits (main, verify).
THEOREM WsRunTypeSafe == Spec => []TypeOK
<1>1. WellTyped => TypeOK
  BY DEF WellTyped
<1> QED BY <1>1, WellTypedSafe, PTL

-----------------------------------------------------------------------------
\* What there is of old reports, along the run: first the JUnit files go, then the
\* summary, and from then on every JUnit file is of this run until a summary is.
Cleaned ==
  /\ ReportsBelongTogether
  /\ pc = "clear" => \A s \in Suites \ todo : xml[s] = None
  /\ pc \in {"summary", "directories", "prepare", "ready"} => \A s \in Suites : xml[s] = None
  /\ pc \in {"directories", "prepare", "ready", "suites", "finally"} => summary = None
  /\ pc \in {"suites", "finally"} => \A s \in Suites : xml[s] # None => xml[s].run = run

\* A summary never stands beside reports of another run: the files of all suites
\* are removed before the first of this run is copied (main).
THEOREM ReportsAreOfOneRun == Spec => []ReportsBelongTogether
<1>1. Init => Cleaned
  BY DEF Init, Cleaned, ReportsBelongTogether
<1>2. WellTyped /\ Cleaned /\ [Next]_vars => Cleaned'
  <2> SUFFICES ASSUME WellTyped, Cleaned, [Next]_vars PROVE Cleaned'
    OBVIOUS
  <2> USE DEF WellTyped, TypeOK, Cleaned, ReportsBelongTogether, checkout, reports, history
  <2>1. ASSUME Start PROVE Cleaned'
    BY <2>1 DEF Start
  <2>2. ASSUME Verify PROVE Cleaned'
    BY <2>2 DEF Verify
  <2>3. ASSUME CheckArguments PROVE Cleaned'
    BY <2>3 DEF CheckArguments, Cleared
  <2>4. ASSUME ClearReport PROVE Cleaned'
    <3>1. PICK s \in todo : /\ xml' = [xml EXCEPT ![s] = None]
                            /\ todo' = todo \ {s}
                            /\ pc' = IF todo = {s} THEN "summary" ELSE "clear"
      BY <2>4 DEF ClearReport
    <3> QED BY <2>4, <3>1 DEF ClearReport
  <2>5. ASSUME ClearSummary PROVE Cleaned'
    BY <2>5 DEF ClearSummary
  <2>6. ASSUME MakeDirectories PROVE Cleaned'
    BY <2>6 DEF MakeDirectories
  <2>7. ASSUME Prepare \/ AwaitReady PROVE Cleaned'
    BY <2>7 DEF Prepare, AwaitReady
  <2>8. ASSUME RunSuites PROVE Cleaned'
    <3>1. PICK s \in todo : RunSuite(s)
      BY <2>8 DEF RunSuites
    <3>2. PICK report : /\ report # None => report.run = run
                        /\ xml' = [xml EXCEPT ![s] = report]
      BY <3>1 DEF RunSuite
    <3>3. summary' = summary /\ run' = run /\ pc' \in {"suites", "finally"}
      BY <3>1 DEF RunSuite
    <3> QED BY <2>8, <3>2, <3>3 DEF RunSuites
  <2>9. ASSUME Judge PROVE Cleaned'
    BY <2>9 DEF Judge
  <2>10. ASSUME WriteSummary PROVE Cleaned'
    BY <2>10 DEF WriteSummary
  <2>11. ASSUME RemovePrivate \/ Kill PROVE Cleaned'
    BY <2>11 DEF RemovePrivate, Kill
  <2>12. ASSUME Edit \/ Install PROVE Cleaned'
    BY <2>12 DEF Edit, Install
  <2>13. CASE UNCHANGED vars
    BY <2>13 DEF vars
  <2> QED BY <2>1, <2>2, <2>3, <2>4, <2>5, <2>6, <2>7, <2>8, <2>9, <2>10, <2>11, <2>12,
             <2>13 DEF Next
<1>3. Cleaned => ReportsBelongTogether
  BY DEF Cleaned
<1> QED BY <1>1, <1>2, <1>3, WellTypedSafe, PTL DEF Spec

-----------------------------------------------------------------------------
\* What has been checked of the arguments and of the collection, along the run.
Checked ==
  /\ pc \notin {"ended", "killed"} => selected # {}
  /\ pc \in {"clear", "summary", "directories", "prepare", "ready", "suites"} =>
       arguments.role # "production"
  /\ pc \in {"ready", "suites"} =>
       /\ todo \subseteq selected
       /\ \A s \in selected : Selectable(s) /\ TargetAllowed(s)
  /\ ~touched => /\ pc = "arguments" => collection = installed
                 /\ pc \in {"clear", "summary", "directories", "prepare", "ready", "suites"} =>
                      loaded = installed

\* Checked is inductive, given types.
LEMMA CheckedSafe == Spec => []Checked
<1>1. Init => Checked
  BY DEF Init, Checked
<1>2. WellTyped /\ Checked /\ [Next]_vars => Checked'
  <2> SUFFICES ASSUME WellTyped, Checked, [Next]_vars PROVE Checked'
    OBVIOUS
  <2> USE DEF Checked, checkout, reports, history, selected
  <2>1. ASSUME Start PROVE Checked'
    BY <2>1 DEF Start
  <2>2. ASSUME Verify PROVE Checked'
    BY <2>2 DEF Verify
  <2>3. ASSUME CheckArguments PROVE Checked'
    BY <2>3 DEF CheckArguments
  <2>4. ASSUME ClearReport \/ ClearSummary \/ MakeDirectories PROVE Checked'
    BY <2>4 DEF ClearReport, ClearSummary, MakeDirectories
  <2>5. ASSUME Prepare \/ AwaitReady PROVE Checked'
    BY <2>5 DEF Prepare, AwaitReady, Selectable, TargetAllowed, NamesUnique, Items
  <2>6. ASSUME RunSuites PROVE Checked'
    <3>1. PICK s \in todo : RunSuite(s)
      BY <2>6 DEF RunSuites
    <3>2. todo' \subseteq todo /\ pc' \in {"suites", "finally"}
      BY <3>1 DEF RunSuite
    <3>3. UNCHANGED <<collection, installed, arguments, loaded, touched>>
      BY <3>1 DEF RunSuite
    <3> QED BY <2>6, <3>2, <3>3
            DEF RunSuites, Selectable, TargetAllowed, NamesUnique, Items
  <2>7. ASSUME Judge \/ WriteSummary \/ RemovePrivate \/ Kill PROVE Checked'
    BY <2>7 DEF Judge, WriteSummary, RemovePrivate, Kill
  <2>8. ASSUME Edit PROVE Checked'
    BY <2>8 DEF Edit, Selectable, TargetAllowed, NamesUnique, Items
  <2>9. ASSUME Install PROVE Checked'
    BY <2>9 DEF Install
  <2>10. CASE UNCHANGED vars
    BY <2>10 DEF vars, Selectable, TargetAllowed, NamesUnique, Items
  <2> QED BY <2>1, <2>2, <2>3, <2>4, <2>5, <2>6, <2>7, <2>8, <2>9, <2>10 DEF Next
<1> QED BY <1>1, <1>2, WellTypedSafe, PTL DEF Spec

\* While Newman runs, nothing it is given writes, goes to production or leaves this
\* machine when it has to stay (selected_collection, check_target, verify).
THEOREM OnlyAllowedRequests == Spec => []RequestsStayAllowed
<1>1. Checked => RequestsStayAllowed
  BY DEF Checked, RequestsStayAllowed, Selectable, TargetAllowed, Items
<1> QED BY <1>1, CheckedSafe, PTL

-----------------------------------------------------------------------------
\* A suite with something to run, all of which was sent and is in its report.
Vouched(s) ==
  Items(s) # {} /\ xml[s] = [run |-> run, sent |-> Items(s), clean |-> TRUE]

\* What the exit code will rest on, along the run.
Backed ==
  /\ exit = 0 => pc \in {"finally", "remove", "ended", "killed"}
  /\ pc \in {"verify", "arguments", "clear", "summary", "directories", "prepare", "ready"} =>
       passed = {}
  /\ pc = "suites" => passed \cap todo = {}
  /\ pc \in {"suites", "finally", "remove", "ended"} => \A s \in passed : Vouched(s)
  /\ pc \in {"finally", "remove", "ended"} /\ exit = 0 =>
       status = "PASSED" /\ selected \subseteq passed
  /\ pc \in {"remove", "ended"} /\ exit = 0 => summary = [run |-> run, status |-> "PASSED"]

\* Newman's visit to one suite leaves what was vouched for, and may add the suite.
LEMMA RunSuiteBacked ==
  ASSUME WellTyped, Checked, Backed, RunSuites
  PROVE  Backed'
<1> USE DEF WellTyped, TypeOK
<1>1. PICK s \in todo : RunSuite(s)
  BY DEF RunSuites
<1>2. PICK report \in {None} \cup {r \in Report : r.run = run /\ r.sent \subseteq Items(s)},
           code \in {0, 1}, failed \in BOOLEAN, readable \in BOOLEAN :
        /\ xml' = [xml EXCEPT ![s] = report]
        /\ IF readable
             THEN /\ passed' = IF Passes(s, report, code, failed)
                                THEN passed \cup {s} ELSE passed
                  /\ todo' = todo \ {s}
                  /\ pc' = "suites"
             ELSE pc' = "finally" /\ UNCHANGED <<passed, todo>>
        /\ UNCHANGED <<checkout, summary, private, run, arguments, loaded, status, exit, history>>
  BY <1>1, Zenon DEF RunSuite
<1>3. UNCHANGED <<summary, run, arguments, loaded, status, exit>>
  BY <1>2
<1>4. pc = "suites" /\ exit # 0
  BY DEF RunSuites, Backed
<1>5. \A t \in Suites : Items(t)' = Items(t)
  BY <1>3 DEF Items
<1>6. s \in Suites /\ s \notin passed
  BY <1>4 DEF Backed
<1>7. \A t \in passed : Vouched(t)'
  BY <1>2, <1>3, <1>4, <1>5, <1>6 DEF Backed, Vouched
<1>8. Passes(s, report, code, failed) => Vouched(s)'
  <2> SUFFICES ASSUME Passes(s, report, code, failed) PROVE Vouched(s)'
    OBVIOUS
  <2>1. report \in Report /\ report.clean = TRUE /\ report.sent = Items(s)
    BY <1>6, PassedSentAll DEF Report
  <2>2. report = [run |-> run, sent |-> Items(s), clean |-> TRUE]
    <3>1. report \in [run : Runs, sent : SUBSET Scenarios, clean : BOOLEAN]
      BY <2>1, Zenon DEF Report
    <3>2. report # None
      BY DEF Passes
    <3>3. report.run = run
      BY <3>2, <1>2, Zenon
    <3> QED BY <2>1, <3>1, <3>3
  <2>3. Items(s) # {}
    BY <1>4 DEF Checked, Selectable
  <2> QED BY <2>2, <2>3, <1>2, <1>3, <1>5, <1>6 DEF Vouched
<1>9. \A t \in passed' : Vouched(t)'
  BY <1>2, <1>7, <1>8
<1>10. pc' = "suites" => (passed \cap todo)' = {}
  BY <1>2, <1>4 DEF Backed
<1>11. pc' \in {"suites", "finally"}
  BY <1>2
<1> QED BY <1>3, <1>4, <1>9, <1>10, <1>11 DEF Backed

\* Exit code 0 is backed by reports of this run on all scenarios its role may run
\* (main: the counts, the verdict, the summary and the return value).
THEOREM SuccessIsBacked == Spec => []SuccessIsReal
<1>1. Init => Backed
  BY DEF Init, Backed
<1>2. WellTyped /\ Checked /\ Backed /\ [Next]_vars => Backed'
  <2> SUFFICES ASSUME WellTyped, Checked, Backed, [Next]_vars PROVE Backed'
    OBVIOUS
  <2> USE DEF WellTyped, TypeOK, Backed, Vouched, Items, checkout, reports, history, selected
  <2>1. ASSUME Start PROVE Backed'
    BY <2>1 DEF Start
  <2>2. ASSUME Verify \/ CheckArguments PROVE Backed'
    BY <2>2 DEF Verify, CheckArguments
  <2>3. ASSUME ClearReport \/ ClearSummary \/ MakeDirectories PROVE Backed'
    BY <2>3 DEF ClearReport, ClearSummary, MakeDirectories
  <2>4. ASSUME Prepare \/ AwaitReady PROVE Backed'
    BY <2>4 DEF Prepare, AwaitReady
  <2>5. ASSUME RunSuites PROVE Backed'
    BY <2>5, RunSuiteBacked
  <2>6. ASSUME Judge PROVE Backed'
    BY <2>6 DEF Judge
  <2>7. ASSUME WriteSummary PROVE Backed'
    BY <2>7 DEF WriteSummary
  <2>8. ASSUME RemovePrivate \/ Kill PROVE Backed'
    BY <2>8 DEF RemovePrivate, Kill
  <2>9. ASSUME Edit \/ Install PROVE Backed'
    BY <2>9 DEF Edit, Install
  <2>10. CASE UNCHANGED vars
    BY <2>10 DEF vars
  <2> QED BY <2>1, <2>2, <2>3, <2>4, <2>5, <2>6, <2>7, <2>8, <2>9, <2>10 DEF Next
<1>3. Backed => SuccessIsReal
  <2> SUFFICES ASSUME Backed, Ended, exit = 0 PROVE SuccessIsReal
    BY DEF SuccessIsReal
  <2>1. \A s \in selected : Vouched(s)
    BY DEF Backed, Ended
  <2>2. \A s : {c \in loaded : c.suite = s /\ (arguments.role = "local" \/ ~c.local)} = Items(s)
    BY DEF Items
  <2> QED BY <2>1, <2>2 DEF Backed, Ended, SuccessIsReal, Vouched
<1> QED BY <1>1, <1>2, <1>3, WellTypedSafe, CheckedSafe, PTL DEF Spec

-----------------------------------------------------------------------------
(* The wait for the service.                                                 *)

USE TimesAssumption, BoundAssumption

-----------------------------------------------------------------------------
\* A probe and a sleep end in time, and a probe has seen the service of the moment.
Limits ==
  /\ at = "probe" => /\ clock <= limit /\ limit <= clock + ProbeLimit
                     /\ service \in seen
                     /\ Prompt => clock < limit
  /\ at = "sleep" => clock <= limit /\ limit <= clock + Interval
  /\ at # "returned" => consecutive \in {0, 1}

\* How long after the service became ready each place is left, at the latest.  A
\* probe that saw it otherwise began before; one that saw it ready throughout
\* leaves a second of its limit, but for the one the deadline cuts short.
FirstRound == ProbeLimit + Interval
SecondRound == 2 * ProbeLimit + 2 * Interval - 1

RoundOf(n) == IF n = 0 THEN FirstRound ELSE SecondRound

Progress ==
  service = "ready" =>
    /\ at = "loop" =>
         \/ clock <= since + RoundOf(consecutive)
         \/ clock = Timeout /\ clock - since < Enough
    /\ at = "probe" =>
         IF seen = {"ready"} THEN limit <= since + RoundOf(consecutive) + ProbeLimit
                             ELSE limit <= since + ProbeLimit
    /\ at = "sleep" => limit <= since + RoundOf(consecutive)

WaitInv == WaitTypeOK /\ since <= clock /\ Limits /\ Progress /\ ReadyNotTimedOut

LEMMA LesserIs ==
  ASSUME NEW a \in Nat, NEW b \in Nat
  PROVE  /\ Lesser(a, b) \in Nat /\ Lesser(a, b) <= a /\ Lesser(a, b) <= b
         /\ Lesser(a, b) = a \/ Lesser(a, b) = b
BY DEF Lesser

LEMMA RoundsAre ==
  ASSUME NEW n \in {0, 1}
  PROVE  /\ RoundOf(n) \in Nat /\ RoundOf(n) < Enough /\ Enough \in Nat
         /\ ProbeLimit + Interval <= RoundOf(n)
         /\ n = 0 => RoundOf(n) + ProbeLimit + Interval - 1 = RoundOf(1)
         /\ RoundOf(n) + ProbeLimit < Enough
BY DEF RoundOf, FirstRound, SecondRound, Enough

LEMMA InitWaitInv == WaitInit => WaitInv
<1> SUFFICES ASSUME WaitInit PROVE WaitInv
  OBVIOUS
<1>1. WaitTypeOK
  <2>1. 0 \in 0..Timeout /\ 0 \in 0..MaxChanges /\ 0 \in 0..2
    OBVIOUS
  <2>2. seen \subseteq States /\ at \in {"loop", "probe", "sleep"} \cup Ends
    BY DEF WaitInit
  <2> QED BY <2>1, <2>2, Zenon DEF WaitInit, WaitTypeOK
<1>3. since <= clock /\ Limits /\ ReadyNotTimedOut
  BY DEF WaitInit, Limits, ReadyNotTimedOut
<1>2. Progress
  BY RoundsAre DEF WaitInit, Progress
<1> QED BY <1>1, <1>2, <1>3 DEF WaitInv

LEMMA LoopKeeps == ASSUME WaitInv, Loop PROVE WaitInv'
<1>1. /\ clock \in 0..Timeout /\ since \in 0..Timeout /\ since <= clock /\ service \in States
      /\ changes \in 0..MaxChanges /\ consecutive \in {0, 1} /\ at = "loop"
      /\ UNCHANGED <<clock, service, since, changes, consecutive>>
  BY DEF WaitInv, WaitTypeOK, Limits, Loop
<1>2. service = "ready" => \/ clock <= since + RoundOf(consecutive)
                           \/ clock = Timeout /\ clock - since < Enough
  BY <1>1 DEF WaitInv, Progress
<1>3. CASE clock >= Timeout /\ at' = "timed out" /\ UNCHANGED <<limit, seen>>
  <2>1. service = "ready" => Timeout - since < Enough
    <3>1. RoundOf(consecutive) \in Nat /\ RoundOf(consecutive) < Enough /\ Enough \in Nat
      BY <1>1, RoundsAre
    <3>2. clock = Timeout
      <4>1. clock \in 0..Timeout /\ clock >= Timeout
        BY <1>1, <1>3
      <4> QED BY <4>1
    <3>3. service = "ready" => clock <= since + RoundOf(consecutive) \/ clock - since < Enough
      BY <1>2
    <3> QED BY <1>1, <3>1, <3>2, <3>3
  <2> QED BY <1>1, <1>3, <2>1 DEF WaitInv, WaitTypeOK, Limits, Progress, ReadyNotTimedOut, Ends
<1>4. CASE /\ clock < Timeout /\ at' = "probe" /\ seen' = {service}
           /\ limit' = clock + Lesser(ProbeLimit, Timeout - clock)
  <2>1. limit' \in 0..Timeout /\ clock <= limit' /\ limit' <= clock + ProbeLimit
        /\ clock < limit'
    <3>1. Timeout - clock \in Nat \ {0}
      BY <1>1, <1>4
    <3>2. /\ Lesser(ProbeLimit, Timeout - clock) \in Nat \ {0}
          /\ Lesser(ProbeLimit, Timeout - clock) <= ProbeLimit
          /\ Lesser(ProbeLimit, Timeout - clock) <= Timeout - clock
      BY <3>1, LesserIs
    <3> QED BY <1>1, <1>4, <3>2
  <2>2. WaitTypeOK' /\ Limits'
    BY <1>1, <1>4, <2>1 DEF WaitTypeOK, Limits
  <2>3. Progress'
    <3>1. RoundOf(consecutive) \in Nat /\ consecutive' = consecutive
      BY <1>1, RoundsAre
    <3> QED BY <1>1, <1>2, <1>4, <2>1, <3>1 DEF Progress
  <2> QED BY <1>1, <1>4, <2>2, <2>3 DEF WaitInv, ReadyNotTimedOut
<1> QED BY <1>3, <1>4 DEF Loop

\* What a probe that counts n leaves, if the service could be ready since then.
LEMMA CountedKeeps ==
  ASSUME WaitInv, at = "probe", NEW n \in 0..2, Counted(n), seen' = {},
         UNCHANGED <<clock, service, since, changes>>,
         service = "ready" /\ n # 2 =>
           \/ clock + Interval <= since + RoundOf(n)
           \/ clock = Timeout /\ clock - since < Enough
  PROVE  WaitInv'
<1>1. /\ clock \in 0..Timeout /\ since \in 0..Timeout /\ since <= clock /\ service \in States
      /\ changes \in 0..MaxChanges /\ limit \in 0..Timeout /\ consecutive' = n
  BY DEF WaitInv, WaitTypeOK, Counted
<1>2. CASE n = 2 /\ at' = "returned" /\ UNCHANGED limit
  BY <1>1, <1>2 DEF WaitInv, WaitTypeOK, Limits, Progress, ReadyNotTimedOut, Ends
<1>3. CASE /\ n # 2 /\ clock < Timeout /\ at' = "sleep"
           /\ limit' = clock + Lesser(Interval, Timeout - clock)
  <2>1. limit' \in 0..Timeout /\ clock <= limit' /\ limit' <= clock + Interval
    <3>1. Timeout - clock \in Nat
      BY <1>1, <1>3
    <3>2. /\ Lesser(Interval, Timeout - clock) \in Nat
          /\ Lesser(Interval, Timeout - clock) <= Interval
          /\ Lesser(Interval, Timeout - clock) <= Timeout - clock
      BY <3>1, LesserIs
    <3> QED BY <1>1, <1>3, <3>2
  <2>2. WaitTypeOK' /\ Limits'
    BY <1>1, <1>3, <2>1 DEF WaitTypeOK, Limits
  <2>3. RoundOf(n) \in Int
    BY DEF RoundOf, FirstRound, SecondRound
  <2>4. Progress'
    BY <1>1, <1>3, <2>1, <2>3 DEF Progress, RoundOf
  <2> QED BY <1>1, <1>3, <2>2, <2>4 DEF WaitInv, ReadyNotTimedOut
<1>4. CASE n # 2 /\ clock >= Timeout /\ at' = "loop" /\ UNCHANGED limit
  <2>1. WaitTypeOK' /\ Limits'
    BY <1>1, <1>4 DEF WaitTypeOK, Limits
  <2>2. RoundOf(n) \in Int
    BY DEF RoundOf, FirstRound, SecondRound
  <2>3. Progress'
    BY <1>1, <1>4, <2>2 DEF Progress, RoundOf
  <2> QED BY <1>1, <1>4, <2>1, <2>3 DEF WaitInv, ReadyNotTimedOut
<1> QED BY <1>2, <1>3, <1>4 DEF Counted

LEMMA AnswerKeeps == ASSUME WaitInv, Answer PROVE WaitInv'
<1>1. /\ clock \in 0..Timeout /\ since \in 0..Timeout /\ since <= clock /\ service \in States
      /\ limit \in 0..Timeout /\ consecutive \in {0, 1} /\ at = "probe" /\ clock < limit
      /\ service \in seen
      /\ seen' = {} /\ UNCHANGED <<clock, service, since, changes>>
  BY DEF WaitInv, WaitTypeOK, Limits, Answer
<1>2. service = "ready" =>
        IF seen = {"ready"} THEN limit <= since + RoundOf(consecutive) + ProbeLimit
                            ELSE limit <= since + ProbeLimit
  BY <1>1 DEF WaitInv, Progress
<1> DEFINE Left(n) == service = "ready" /\ n # 2 =>
             \/ clock + Interval <= since + RoundOf(n)
             \/ clock = Timeout /\ clock - since < Enough
<1>3. CASE "ready" \in seen /\ Counted(consecutive + 1)
  <2>1. Left(consecutive + 1)
    <3>1. /\ RoundOf(0) \in Nat /\ RoundOf(1) \in Nat
          /\ RoundOf(0) + ProbeLimit + Interval - 1 = RoundOf(1)
          /\ ProbeLimit + Interval <= RoundOf(1)
      BY RoundsAre
    <3> QED BY <1>1, <1>2, <1>3, <3>1
  <2>2. consecutive + 1 \in 0..2
    BY <1>1
  <2> HIDE DEF Left
  <2>3. UNCHANGED <<clock, service, since, changes>> /\ seen' = {} /\ at = "probe"
    BY <1>1
  <2> QED BY <1>3, <2>1, <2>2, <2>3, CountedKeeps DEF Left
<1>4. CASE "not ready" \in seen /\ Counted(0)
  <2>1. Left(0)
    <3>1. RoundOf(0) \in Nat /\ ProbeLimit + Interval <= RoundOf(0)
      BY RoundsAre
    <3>2. "not ready" \in seen /\ "not ready" \notin {"ready"}
      BY <1>4
    <3>4. seen # {"ready"}
      BY <3>2, Zenon
    <3>3. service = "ready" => limit <= since + ProbeLimit
      BY <1>2, <3>4
    <3> QED BY <1>1, <3>1, <3>3
  <2> HIDE DEF Left
  <2>2. UNCHANGED <<clock, service, since, changes>> /\ seen' = {} /\ at = "probe"
    BY <1>1
  <2>3. Counted(0)
    BY <1>4, Zenon
  <2>4. 0 \in 0..2
    OBVIOUS
  <2> QED BY <2>1, <2>2, <2>3, <2>4, CountedKeeps DEF Left
<1>5. CASE "refused" \in seen /\ at' = "refused" /\ UNCHANGED <<limit, consecutive>>
  BY <1>1, <1>5 DEF WaitInv, WaitTypeOK, Limits, Progress, ReadyNotTimedOut, Ends
<1> QED BY <1>3, <1>4, <1>5 DEF Answer

LEMMA ExpireKeeps == ASSUME WaitInv, Expire PROVE WaitInv'
<1>1. /\ clock \in 0..Timeout /\ since \in 0..Timeout /\ since <= clock /\ service \in States
      /\ limit \in 0..Timeout /\ consecutive \in {0, 1} /\ at = "probe" /\ clock = limit
      /\ service \in seen
      /\ seen' = {} /\ UNCHANGED <<clock, service, since, changes>> /\ Counted(0)
  BY DEF WaitInv, WaitTypeOK, Limits, Expire
<1>2. service = "ready" =>
        IF seen = {"ready"} THEN limit <= since + RoundOf(consecutive) + ProbeLimit
                            ELSE limit <= since + ProbeLimit
  BY <1>1 DEF WaitInv, Progress
<1>3. seen = {"ready"} => limit = Timeout
  BY <1>1 DEF WaitInv, WaitTypeOK, Limits, Prompt
<1> QED BY <1>1, <1>2, <1>3, CountedKeeps DEF RoundOf, FirstRound, SecondRound, Enough

LEMMA WakeKeeps == ASSUME WaitInv, Wake PROVE WaitInv'
<1>1. RoundOf(consecutive) \in Int
  BY DEF RoundOf, FirstRound, SecondRound
<1> QED BY <1>1 DEF WaitInv, WaitTypeOK, Limits, Progress, ReadyNotTimedOut, Wake

LEMMA TickKeeps == ASSUME WaitInv, Tick PROVE WaitInv'
<1>1. /\ clock \in 0..Timeout /\ since \in 0..Timeout /\ since <= clock
      /\ limit \in 0..Timeout /\ at \in {"probe", "sleep"} /\ clock < limit
      /\ clock' = clock + 1
      /\ UNCHANGED <<service, since, changes, at, limit, seen, consecutive>>
  BY DEF WaitInv, WaitTypeOK, Tick
<1>2. WaitTypeOK'
  BY <1>1 DEF WaitInv, WaitTypeOK
<1>3. Limits'
  BY <1>1 DEF WaitInv, Limits, Tick, Prompt
<1>4. Progress' /\ ReadyNotTimedOut'
  BY <1>1 DEF WaitInv, Progress, RoundOf, ReadyNotTimedOut
<1> QED BY <1>1, <1>2, <1>3, <1>4 DEF WaitInv

LEMMA ChangeKeeps == ASSUME WaitInv, Change PROVE WaitInv'
<1>1. /\ clock \in 0..Timeout /\ limit \in 0..Timeout /\ changes \in 0..MaxChanges
      /\ service \in States /\ consecutive \in 0..2
      /\ at \in {"loop", "probe", "sleep"} \cup Ends /\ at \notin Ends
      /\ changes < MaxChanges /\ changes' = changes + 1
      /\ service' \in States \ {service} /\ since' = clock
      /\ seen' = IF at = "probe" THEN seen \cup {service'} ELSE seen
      /\ UNCHANGED <<clock, at, limit, consecutive>> /\ Limits
  BY DEF WaitInv, WaitTypeOK, Change
<1>2. WaitTypeOK'
  BY <1>1 DEF WaitInv, WaitTypeOK
<1>3. at = "probe" => seen' # {"ready"}
  BY <1>1 DEF Limits, States
<1>4. Limits'
  BY <1>1, <1>3 DEF Limits, Prompt
<1>5. consecutive \in {0, 1}
  BY <1>1 DEF Limits, Ends
<1>6. Progress'
  BY <1>1, <1>3, <1>5 DEF Limits, Progress, RoundOf, FirstRound, SecondRound
<1>7. ReadyNotTimedOut'
  BY <1>1 DEF ReadyNotTimedOut, Ends
<1> QED BY <1>1, <1>2, <1>4, <1>6, <1>7 DEF WaitInv

LEMMA WaitStep == WaitInv /\ [WaitNext]_waitVars => WaitInv'
<1> SUFFICES ASSUME WaitInv, [WaitNext]_waitVars PROVE WaitInv'
  OBVIOUS
<1>1. CASE UNCHANGED waitVars
  BY <1>1 DEF waitVars, WaitInv, WaitTypeOK, Limits, Prompt, Progress, RoundOf, ReadyNotTimedOut
<1> QED BY <1>1, LoopKeeps, AnswerKeeps, ExpireKeeps, WakeKeeps, TickKeeps, ChangeKeeps
  DEF WaitNext, Waiting

\* Clock, limits and counters of wait_for_readiness stay within their types, so no
\* probe and no sleep passes the deadline.
THEOREM ReadinessTypeSafe == WaitSpec => []WaitTypeOK
<1>1. WaitInv => WaitTypeOK
  BY DEF WaitInv
<1> QED BY <1>1, InitWaitInv, WaitStep, PTL DEF WaitSpec

\* Three probes and two sleeps before the deadline are enough: a service that has
\* been ready for that long is not reported as timed out.
THEOREM ReadyInTimeIsSeen == WaitSpec => []ReadyNotTimedOut
<1>1. WaitInv => ReadyNotTimedOut
  BY DEF WaitInv
<1> QED BY <1>1, InitWaitInv, WaitStep, PTL DEF WaitSpec
=============================================================================
