-------------------------------- MODULE WsRun --------------------------------
(***************************************************************************)
(* run-ci-tests.sh: verify.py, then main of ws-ci, one Newman run after    *)
(* another in one checkout.  verify.py compares the checkout with what was *)
(* installed; ws-ci selects the scenarios of its suites that the role may  *)
(* run, checks the target and runs Newman suite by suite.  A CI job reads  *)
(* the reports in the output directory (a JUnit file for each suite and    *)
(* summary.json); a private directory holds the materialized secrets.  A   *)
(* run may be refused before it has touched anything, fail anywhere, or be *)
(* killed; the reports of earlier runs are still there when it starts, and *)
(* somebody may edit the collection at any time.                           *)
(***************************************************************************)
EXTENDS Naturals, FiniteSets

CONSTANTS Suites,    \* SUITES: smoke, contract, access
          Scenarios, \* what a collection may hold in x-ai-harness-ws-scenarios
          MaxRuns,   \* how many runs are started (a bound)
          MaxEdits,  \* how often the collection is edited (a bound)
          None

\* local: allowedEnvironments is ["local"]; fit: a GET or HEAD of {{base_url}}
\* with a test.  Scenarios that differ in what is sent differ in their id.
ASSUME ScenariosAssumption ==
  /\ Suites # {}
  /\ IsFiniteSet(Scenarios)
  /\ Scenarios \subseteq [id : Nat, suite : Suites, name : Nat, local : BOOLEAN, fit : BOOLEAN]

ASSUME BoundsAssumption == MaxRuns \in Nat /\ MaxEdits \in Nat

VARIABLES
  collection, \* the scenarios of postman/collection.json
  installed,  \* those the manifest was made of
  xml,        \* the JUnit file of each suite in the output directory
  summary,    \* summary.json there: the run that wrote it and its verdict
  private,    \* the runs whose private directory exists
  run,        \* the run under way, by number
  arguments,  \* its role, target and suites
  loaded,     \* the scenarios it read
  pc,         \* what it does next
  todo,       \* suites the loop under way has still to visit
  passed,     \* suites that have a PASSED entry in the run's summary
  status,     \* the summary's status so far
  exit,       \* the exit code the run is going to return, or has returned
  edits, touched \* history: edits so far, and whether one fell into this run

checkout == <<collection, installed>>
reports == <<xml, summary, private>>
history == <<edits, touched>>
vars == <<checkout, reports, run, arguments, loaded, pc, todo, passed, status, exit, history>>

Runs == 1..MaxRuns
Roles == {"local", "testing", "production"}
Targets == {"loopback", "remote", "production"}
Report == [run : Runs, sent : SUBSET Scenarios, clean : BOOLEAN]
Verdict == [run : Runs, status : {"PASSED", "FAILED"}]

\* The uniform type of the state.
TypeOK ==
  /\ collection \subseteq Scenarios
  /\ installed \subseteq Scenarios
  /\ xml \in [Suites -> Report \cup {None}]
  /\ summary \in Verdict \cup {None}
  /\ private \subseteq Runs
  /\ run \in 0..MaxRuns
  /\ arguments \in [role : Roles, target : Targets, suites : SUBSET Suites]
  /\ loaded \subseteq Scenarios
  /\ pc \in {"ended", "killed", "verify", "arguments", "clear", "summary", "directories",
             "prepare", "ready", "suites", "finally", "remove"}
  /\ todo \subseteq Suites
  /\ passed \subseteq Suites
  /\ status \in {"PASSED", "FAILED"}
  /\ exit \in 0..2
  /\ edits \in 0..MaxEdits
  /\ touched \in BOOLEAN

Init ==
  /\ collection = {c \in Scenarios : c.fit /\ ~c.local}
  /\ installed = collection
  /\ xml = [s \in Suites |-> None]
  /\ summary = None
  /\ private = {}
  /\ run = 0
  /\ arguments = [role |-> "testing", target |-> "remote", suites |-> {}]
  /\ loaded = {}
  /\ pc = "ended"
  /\ todo = {}
  /\ passed = {}
  /\ status = "FAILED"
  /\ exit = 2
  /\ edits = 0
  /\ touched = FALSE

selected == arguments.suites

\* A fault for the sensitivity checks: only the selected suites are cleared.
SelectedOnly == selected

\* A fault for the sensitivity checks: the summary is cleared as if it were a suite.
WithSummary == Suites \cup {"summary"}

\* The suites whose old reports go: all, the selected and the others.
Cleared == Suites

\* A run is started for some of the suites.
Start ==
  /\ pc \in {"ended", "killed"}
  /\ run < MaxRuns
  /\ run' = run + 1
  /\ arguments' \in [role : Roles, target : Targets, suites : (SUBSET Suites) \ {{}}]
  /\ pc' = "verify"
  /\ passed' = {}
  /\ status' = "FAILED"
  /\ exit' = 2
  /\ touched' = FALSE
  /\ UNCHANGED <<checkout, reports, loaded, todo, edits>>

(***************************************************************************)
(* verify.py: the installed files or the collections differ from the       *)
(* manifest, and the script ends; or they are as they were installed.      *)
(***************************************************************************)
Verify ==
  /\ pc = "verify"
  /\ pc' \in (IF collection = installed THEN {"ended", "arguments"} ELSE {"ended"})
  /\ UNCHANGED <<checkout, reports, run, arguments, loaded, todo, passed, status, exit, history>>

(***************************************************************************)
(* parser.error: URL, collection or Newman is missing, or the role is for  *)
(* production, whose tests are off; or all is in order.                    *)
(***************************************************************************)
CheckArguments ==
  /\ pc = "arguments"
  /\ \/ pc' = "ended" /\ UNCHANGED <<loaded, todo>>
     \/ /\ arguments.role # "production"
        /\ pc' = "clear"
        /\ loaded' = collection
        /\ todo' = Cleared
  /\ UNCHANGED <<checkout, reports, run, arguments, passed, status, exit, history>>

\* The JUnit files of all suites are removed, the selected and the others.
ClearReport ==
  /\ pc = "clear"
  /\ \E s \in todo :
       /\ xml' = [xml EXCEPT ![s] = None]
       /\ todo' = todo \ {s}
       /\ pc' = IF todo = {s} THEN "summary" ELSE "clear"
  /\ UNCHANGED <<checkout, summary, private, run, arguments, loaded, passed, status, exit, history>>

ClearSummary ==
  /\ pc = "summary"
  /\ summary' = None
  /\ pc' = "directories"
  /\ UNCHANGED <<checkout, xml, private, run, arguments, loaded, todo, passed, status, exit, history>>

\* The private directory is made, unless its parent leads elsewhere: parser.error.
MakeDirectories ==
  /\ pc = "directories"
  /\ \/ private' = private \cup {run} /\ pc' = "prepare"
     \/ private' = private /\ pc' = "ended"
  /\ UNCHANGED <<checkout, xml, summary, run, arguments, loaded, todo, passed, status, exit, history>>

-----------------------------------------------------------------------------
(* ci_collection.py, selected_collection and check_target.                 *)

\* A fault for the sensitivity checks: local-only scenarios are not left out.
EveryItem(s) == {c \in loaded : c.suite = s}

\* _scenario_collection: the scenarios of a suite that the role may run.
Items(s) == {c \in loaded : c.suite = s /\ (c.local => arguments.role = "local")}

\* No scenario name is repeated in a suite, those left out included.
NamesUnique(s) ==
  \A c, d \in loaded : c.suite = s /\ d.suite = s /\ c.name = d.name => c = d

\* selected_collection: there is something to run, and only reads.
Selectable(s) == NamesUnique(s) /\ Items(s) # {} /\ \A c \in Items(s) : c.fit

\* check_target: never production; local-only scenarios stay on this machine.
TargetAllowed(s) ==
  /\ arguments.target # "production"
  /\ arguments.role = "local" /\ (\E c \in Items(s) : c.local)
       => arguments.target = "loopback"

(***************************************************************************)
(* The environment is materialized and the suites are checked.  Any of it  *)
(* may raise: the vault, a disabled profile, a variable that is empty.     *)
(***************************************************************************)
Prepare ==
  /\ pc = "prepare"
  /\ \/ pc' = "finally"
     \/ /\ \A s \in selected : Selectable(s) /\ TargetAllowed(s)
        /\ pc' = IF arguments.role = "testing" THEN "ready" ELSE "suites"
  /\ todo' = selected
  /\ UNCHANGED <<checkout, reports, run, arguments, loaded, passed, status, exit, history>>

\* wait_for_readiness of the testing deployment returns or raises.
AwaitReady ==
  /\ pc = "ready"
  /\ pc' \in {"suites", "finally"}
  /\ UNCHANGED <<checkout, reports, run, arguments, loaded, todo, passed, status, exit, history>>

\* A fault for the sensitivity checks: the reports decide, not the number of requests.
PassedByReport(s, report, code, failed) ==
  code = 0 /\ ~failed /\ report # None /\ report.clean

\* What makes a suite pass: Newman's exit code, the JSON and the JUnit report.
Passes(s, report, code, failed) ==
  /\ code = 0 /\ ~failed
  /\ report # None
  /\ report.clean
  /\ Cardinality(report.sent) = Cardinality(Items(s))

(***************************************************************************)
(* Newman has run a suite: it sent some of the requests, each once at      *)
(* most.  It may have left no JUnit file, which counts as no tests, and    *)
(* one is copied whatever it says; then the reports are read, which may    *)
(* raise.                                                                  *)
(***************************************************************************)
RunSuite(s) ==
  \E report \in {None} \cup {r \in Report : r.run = run /\ r.sent \subseteq Items(s)} :
  \E code \in {0, 1}, failed \in BOOLEAN, readable \in BOOLEAN :
    /\ xml' = [xml EXCEPT ![s] = report]
    /\ IF readable
         THEN /\ passed' = IF Passes(s, report, code, failed) THEN passed \cup {s} ELSE passed
              /\ todo' = todo \ {s}
              /\ pc' = "suites"
         ELSE pc' = "finally" /\ UNCHANGED <<passed, todo>>
    /\ UNCHANGED <<checkout, summary, private, run, arguments, loaded, status, exit, history>>

RunSuites ==
  /\ pc = "suites"
  /\ \E s \in todo : RunSuite(s)

\* Every suite has an entry: the run passed when they all passed.
Judge ==
  /\ pc = "suites"
  /\ todo = {}
  /\ status' = IF passed = selected THEN "PASSED" ELSE "FAILED"
  /\ exit' = IF passed = selected THEN 0 ELSE 1
  /\ pc' = "finally"
  /\ UNCHANGED <<checkout, reports, run, arguments, loaded, todo, passed, history>>

(***************************************************************************)
(* The finally block: the summary is written, and then the private         *)
(* directory removed.  When the write raises the process ends with code 1, *)
(* before the removal.                                                     *)
(***************************************************************************)
WriteSummary ==
  /\ pc = "finally"
  /\ \/ /\ summary' = [run |-> run, status |-> status]
        /\ pc' = "remove"
        /\ exit' = exit
     \/ /\ pc' = "ended"
        /\ exit' = 1
        /\ summary' = summary
  /\ UNCHANGED <<checkout, xml, private, run, arguments, loaded, todo, passed, status, history>>

RemovePrivate ==
  /\ pc = "remove"
  /\ private' = private \ {run}
  /\ pc' = "ended"
  /\ UNCHANGED <<checkout, xml, summary, run, arguments, loaded, todo, passed, status, exit, history>>

\* The job is aborted, or an exception outside the try block ends it.
Kill ==
  /\ pc \notin {"ended", "killed"}
  /\ pc' = "killed"
  /\ UNCHANGED <<checkout, reports, run, arguments, loaded, todo, passed, status, exit, history>>

\* Somebody edits the collection: a scenario comes or goes.
Edit ==
  /\ edits < MaxEdits
  /\ edits' = edits + 1
  /\ touched' = TRUE
  /\ \E c \in Scenarios :
       collection' = IF c \in collection THEN collection \ {c} ELSE collection \cup {c}
  /\ UNCHANGED <<installed, reports, run, arguments, loaded, pc, todo, passed, status, exit>>

\* The CI files are installed again, with a manifest of the collections there are.
Install ==
  /\ pc \in {"ended", "killed"}
  /\ installed # collection
  /\ installed' = collection
  /\ UNCHANGED <<collection, reports, run, arguments, loaded, pc, todo, passed, status, exit,
                 history>>

Next == \/ Start \/ Verify \/ CheckArguments \/ ClearReport \/ ClearSummary \/ MakeDirectories
        \/ Prepare \/ AwaitReady \/ RunSuites \/ Judge \/ WriteSummary \/ RemovePrivate
        \/ Kill \/ Edit \/ Install

Spec == Init /\ [][Next]_vars

-----------------------------------------------------------------------------
\* main has returned.
Ended == pc = "ended" /\ run > 0

\* Exit code 0 tells the truth: the summary on disk is this run's and PASSED, and
\* each selected suite has a JUnit file of this run without a failure, for all of
\* its scenarios that the role may run, and there are some.
SuccessIsReal ==
  Ended /\ exit = 0 =>
    /\ summary = [run |-> run, status |-> "PASSED"]
    /\ \A s \in selected :
         LET eligible == {c \in loaded : c.suite = s /\ (arguments.role = "local" \/ ~c.local)}
         IN  eligible # {} /\ xml[s] = [run |-> run, sent |-> eligible, clean |-> TRUE]

\* A summary never stands beside reports of another run, of a suite that was
\* selected this time or not: what a job publishes belongs together, also after
\* runs that failed or were killed half-way.
ReportsBelongTogether ==
  summary # None =>
    \A s \in Suites : xml[s] # None => xml[s].run = summary.run

\* While Newman runs, nothing it is given writes or goes to production, and a
\* local-only scenario goes nowhere but to this machine in the local role; what
\* is sent was in the collection the manifest vouches for, unless somebody
\* edited it between the two reads.
RequestsStayAllowed ==
  pc = "suites" =>
    /\ arguments.role # "production" /\ arguments.target # "production"
    /\ \A s \in todo : \A c \in Items(s) :
         c.fit /\ (c.local => arguments.role = "local" /\ arguments.target = "loopback")
    /\ ~touched => loaded = installed
=============================================================================
