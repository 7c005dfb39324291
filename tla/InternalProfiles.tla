--------------------------- MODULE InternalProfiles ---------------------------
(***************************************************************************)
(* The internal Postman environments: load_profiles, plan_internal,        *)
(* verify_internal and apply_internal of postman_internal.py, run by       *)
(* several people at once.                                                 *)
(*                                                                         *)
(* Each versioned profile has one managed environment in the workspace.    *)
(* What ties them together is the managedUid that apply_internal writes    *)
(* into the profile file AFTER Postman has created the environment: a      *)
(* process that dies in between, or whose response is lost, leaves an      *)
(* environment no profile is bound to.                                     *)
(*                                                                         *)
(* Of an environment the model keeps whose managed name it has, which      *)
(* profile it was created for, and what its variables equal: an edition of *)
(* the profile, nothing of it ("drifted"), or a stored credential.         *)
(***************************************************************************)
EXTENDS Naturals, FiniteSets

CONSTANTS Profiles,        \* the versioned profiles
          Editions,        \* what a profile file may say
          EnvironmentIds,  \* uids of environments
          Commands,        \* the processes that may run a command
          MaxEdits,        \* what people do meanwhile, counted (a bound)
          MaxRuns,         \* how many commands are run (a bound)
          None

ASSUME BoundsAssumption == MaxEdits \in Nat /\ MaxRuns \in Nat
ASSUME EditionsAssumption == {"drifted", "credential"} \cap Editions = {}

VARIABLES
  environments,  \* the workspace's environments, by uid
  files,         \* the profile files: binding and payload
  command,       \* what each process is at
  edits, runs    \* edits and commands so far

counts == <<edits, runs>>
vars == <<environments, files, command, counts>>

Contents == Editions \cup {"drifted", "credential"}
Environment == [named : Profiles \cup {None}, maker : Profiles \cup {None}, content : Contents]
ASSUME NoneAssumption == None \notin EnvironmentIds \cup Profiles \cup Environment

Uids == EnvironmentIds \cup {None}
File == [managedUid : Uids, edition : Editions]
Plan == [action : {"create", "update", "unchanged"}, uid : Uids]

\* loaded: the files as load_profiles read them; listed: the inventory, by name;
\* todo: the profiles the loop under way has still to visit; ready: what
\* verify_internal last answered; touched, alone: history, whether people edited
\* anything, and whether no other command ran, since the command began.
Command == [pc : {"idle", "list", "plan", "planned", "apply", "bind"},
            loaded : [Profiles -> File \cup {None}], listed : [Profiles -> SUBSET EnvironmentIds],
            plans : [Profiles -> Plan \cup {None}], todo : SUBSET Profiles,
            ready : BOOLEAN, touched : BOOLEAN, alone : BOOLEAN]

Existing == {e \in EnvironmentIds : environments[e] # None}
CreatedFor(p) == {e \in Existing : environments[e].maker = p}
Nothing == [p \in Profiles |-> None]
\* A process that runs no command, or whose command was no verification.
Over == [pc |-> "idle", loaded |-> Nothing, listed |-> [p \in Profiles |-> {}],
         plans |-> Nothing, todo |-> {}, ready |-> FALSE, touched |-> FALSE, alone |-> TRUE]

\* The uniform type of the state.
TypeOK ==
  /\ environments \in [EnvironmentIds -> Environment \cup {None}]
  /\ files \in [Profiles -> File]
  /\ command \in [Commands -> Command]
  /\ edits \in 0..MaxEdits
  /\ runs \in 0..MaxRuns

\* Nothing is synced yet; somebody may own an environment under a managed name.
Init ==
  /\ \E foreign \in [EnvironmentIds -> {None} \cup
                        [named : Profiles, maker : {None}, content : {"drifted"}]] :
       /\ Cardinality({e \in EnvironmentIds : foreign[e] # None}) <= 1
       /\ environments = foreign
  /\ \E edition \in Editions :
       files = [p \in Profiles |-> [managedUid |-> None, edition |-> edition]]
  /\ command = [c \in Commands |-> Over]
  /\ edits = 0 /\ runs = 0

-----------------------------------------------------------------------------
(* load_profiles and plan_internal *)

\* A command reads the profile files, then asks for the workspace.
Start(c) ==
  LET others == {d \in Commands \ {c} : command[d].pc # "idle"}
  IN  /\ command[c].pc = "idle"
      /\ runs < MaxRuns
      /\ runs' = runs + 1
      /\ command' = [d \in Commands |->
           IF d = c
             THEN [Over EXCEPT !.pc = "list", !.loaded = files, !.todo = Profiles,
                               !.alone = (others = {})]
             ELSE [command[d] EXCEPT !.alone = @ /\ d \notin others]]
      /\ UNCHANGED <<environments, files, edits>>

\* GET /environments: the inventory, by name.
List(c) ==
  /\ command[c].pc = "list"
  /\ command' = [command EXCEPT ![c].pc = "plan",
       ![c].listed = [p \in Profiles |-> {e \in Existing : environments[e].named = p}]]
  /\ UNCHANGED <<environments, files, counts>>

\* A fault for the sensitivity checks: a lost environment is made anew.
EagerCreates(c, p) == command[c].listed[p] = {}

\* No environment of that name: create one, unless the profile is bound to a lost one.
Creates(c, p) == command[c].listed[p] = {} /\ command[c].loaded[p].managedUid = None

\* A fault for the sensitivity checks: the name is taken for the binding.
NamedEnvironment(c, p, e) == command[c].listed[p] = {e} /\ environments[e].content # "credential"

\* One of that name: it must be the bound one, and hold no credential.
Updates(c, p, e) ==
  /\ command[c].listed[p] = {e}
  /\ command[c].loaded[p].managedUid = e
  /\ environments[e].content # "credential"

\* A fault for the sensitivity checks: only the name is compared.
SameName(c, p, e) == environments[e].named = p

\* _normalized of the environment and of the payload: the names and the variables.
Same(c, p, e) ==
  environments[e].named = p /\ environments[e].content = command[c].loaded[p].edition

\* What is planned for a profile.
Planned(c, p, plan) ==
  \/ Creates(c, p) /\ plan = [action |-> "create", uid |-> None]
  \/ \E e \in EnvironmentIds :
        /\ Updates(c, p, e)
        /\ plan = [action |-> IF Same(c, p, e) THEN "unchanged" ELSE "update", uid |-> e]

\* The next profile of the loop; everything else is a PostmanError.
PlanProfile(c) ==
  /\ command[c].pc = "plan"
  /\ \E p \in command[c].todo, plan \in Plan :
       /\ Planned(c, p, plan)
       /\ command' = [command EXCEPT
            ![c].plans[p] = plan,
            ![c].todo = @ \ {p},
            ![c].pc = IF command[c].todo = {p} THEN "planned" ELSE "plan"]
  /\ UNCHANGED <<environments, files, counts>>

\* verify_internal: every profile unchanged; the command ends.
Verify(c) ==
  /\ command[c].pc = "planned"
  /\ command' = [command EXCEPT ![c] = [Over EXCEPT
       !.ready = \A p \in Profiles : command[c].plans[p].action = "unchanged",
       !.touched = command[c].touched, !.alone = command[c].alone]]
  /\ UNCHANGED <<environments, files, counts>>

-----------------------------------------------------------------------------
(* apply_internal *)

Apply(c) ==
  /\ command[c].pc = "planned"
  /\ command' = [command EXCEPT ![c].pc = "apply", ![c].todo = Profiles]
  /\ UNCHANGED <<environments, files, counts>>

Die(c) == command' = [command EXCEPT ![c] = Over]

\* A fault for the sensitivity checks: a step nothing continues.
MistypedDone(c, p) ==
  command' = [command EXCEPT ![c].todo = @ \ {p},
                             ![c].pc = IF command[c].todo = {p} THEN "done" ELSE "apply"]

\* The loop goes on after p, or the command ends.
Done(c, p) == IF command[c].todo = {p} THEN Die(c)
              ELSE command' = [command EXCEPT ![c].todo = @ \ {p}, ![c].pc = "apply"]

\* POST /environments: answered with the uid, or created and the answer lost.
Create(c, p) ==
  /\ command[c].plans[p].action = "create"
  /\ \E e \in EnvironmentIds \ Existing :
       /\ environments' = [environments EXCEPT ![e] =
            [named |-> p, maker |-> p, content |-> command[c].loaded[p].edition]]
       /\ \/ command' = [command EXCEPT ![c].pc = "bind", ![c].plans[p].uid = e]
          \/ Die(c)

\* PUT /environments/<uid>: it takes effect, answered or not.
Update(c, p) ==
  /\ command[c].plans[p].action = "update"
  /\ environments' = [environments EXCEPT
       ![command[c].plans[p].uid].named = p,
       ![command[c].plans[p].uid].content = command[c].loaded[p].edition]
  /\ Done(c, p) \/ Die(c)

Leave(c, p) ==
  /\ command[c].plans[p].action = "unchanged"
  /\ Done(c, p)
  /\ UNCHANGED environments

\* The next profile of the loop.
ApplyProfile(c) ==
  /\ command[c].pc = "apply"
  /\ \E p \in command[c].todo : Create(c, p) \/ Update(c, p) \/ Leave(c, p)
  /\ UNCHANGED <<files, counts>>

\* The profile file is replaced by one that holds the new uid, and what was read.
Bind(c) ==
  /\ command[c].pc = "bind"
  /\ \E p \in command[c].todo :
       /\ command[c].plans[p].action = "create" /\ command[c].plans[p].uid # None
       /\ files' = [files EXCEPT ![p] = [managedUid |-> command[c].plans[p].uid,
                                         edition |-> command[c].loaded[p].edition]]
       /\ Done(c, p)
  /\ UNCHANGED <<environments, counts>>

\* A refused check, a request without effect, or a killed process.
Raise(c) ==
  /\ command[c].pc # "idle"
  /\ Die(c)
  /\ UNCHANGED <<environments, files, counts>>

-----------------------------------------------------------------------------
\* People rename an environment, change its variables or store a credential in it;
\* to every later plan a deleted environment is like a renamed one.  They edit the
\* profile in its file, or put back a version from before it was bound.
Edit ==
  /\ edits < MaxEdits
  /\ edits' = edits + 1
  /\ command' = [c \in Commands |-> [command[c] EXCEPT
       !.touched = @ \/ command[c].pc # "idle" \/ command[c].ready]]
  /\ \/ /\ \E e \in Existing :
             \/ environments' = [environments EXCEPT ![e].named = None]
             \/ \E content \in {"drifted", "credential"} :
                  environments' = [environments EXCEPT ![e].content = content]
        /\ UNCHANGED files
     \/ /\ \E p \in Profiles :
             \/ \E edition \in Editions : files' = [files EXCEPT ![p].edition = edition]
             \/ files' = [files EXCEPT ![p].managedUid = None]
        /\ UNCHANGED environments
  /\ UNCHANGED runs

Step(c) == \/ Start(c) \/ List(c) \/ PlanProfile(c) \/ Verify(c)
           \/ Apply(c) \/ ApplyProfile(c) \/ Bind(c) \/ Raise(c)

Next == (\E c \in Commands : Step(c)) \/ Edit

Spec == Init /\ [][Next]_vars

-----------------------------------------------------------------------------
\* A bound profile gets no second environment, whatever became of the first one
\* in Postman and wherever earlier commands died (plan_internal: a bound internal
\* environment is missing or was renamed; refusing duplicate creation).  Only
\* commands that overlap can still make two.
BoundNotRecreated ==
  [][(\A c \in Commands : command[c].pc # "idle" => command[c].alone) =>
       \A p \in Profiles :
          files[p].managedUid # None => CreatedFor(p)' \subseteq CreatedFor(p)]_vars

\* No command ever writes to an environment that was not created for the profile
\* it writes: not somebody's environment of the same name, and, if nobody put the
\* file back, not the one an earlier command created and died before binding.  A
\* credential is overwritten only when it was stored after the plan began.
ForeignKept ==
  [][\A e \in Existing :
       environments'[e] # environments[e] /\ environments'[e].content \in Editions
         /\ environments'[e].named # None =>
       /\ environments[e].maker = environments'[e].named
       /\ \E c \in Commands :
            /\ command[c].pc = "apply"
            /\ command[c].loaded[environments[e].maker].managedUid = e
            /\ environments[e].content = "credential" => command[c].touched]_vars

\* verify_internal answers ready only when every profile's own environment equals
\* it, unless somebody edited something, or another command ran, since it began.
ReadyMeansEqual ==
  \A c \in Commands :
    command[c].ready /\ command[c].alone /\ ~command[c].touched =>
      \A p \in Profiles :
        /\ files[p].managedUid \in Existing
        /\ environments[files[p].managedUid] =
             [named |-> p, maker |-> p, content |-> files[p].edition]
=============================================================================
