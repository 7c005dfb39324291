------------------------------ MODULE PublicSync ------------------------------
(***************************************************************************)
(* The public Postman documentation of the web service: plan_sync,         *)
(* sync_public, publish_public and bootstrap_public of postman_remote.py   *)
(* against a Postman workspace that other people also edit.                *)
(*                                                                         *)
(* A plan is a series of separate GETs, and a plan is applied by separate  *)
(* writes; anything may happen between two requests.  PostmanClient.request*)
(* repeats a failed GET, never a write: a write that took effect and whose *)
(* response was lost ends the command, like every refused check.           *)
(*                                                                         *)
(* Of a collection the model keeps whether it has the expected name,       *)
(* whether its description carries the publication marker, and whether its *)
(* content equals the local publication; "refused" is a collection that is *)
(* linked to an API or that fails the safety check.  An environment is     *)
(* alike; `here' says whether it belongs to the selected workspace.        *)
(***************************************************************************)
EXTENDS Naturals, FiniteSets

CONSTANTS Operators,       \* processes that run a command
          Commands,        \* the commands they run
          CollectionIds,   \* uids of collections
          EnvironmentIds,  \* uids of environments
          Bindings,        \* what public_environment_uid of the publication may be
          MaxEdits,        \* how often people edit in Postman meanwhile (a bound)
          MaxRuns,         \* how many commands are run in all (a bound)
          None

ASSUME BindingsAssumption == Bindings \subseteq EnvironmentIds \cup {None}
\* A workspace holds finitely many of either.
ASSUME IdsAssumption ==
  /\ None \notin CollectionIds \cup EnvironmentIds
  /\ IsFiniteSet(CollectionIds) /\ IsFiniteSet(EnvironmentIds)
ASSUME CommandsAssumption ==
  Commands # {} /\ Commands \subseteq {"sync", "bootstrap", "publish"}
ASSUME BoundsAssumption == MaxEdits \in Nat /\ MaxRuns \in Nat

VARIABLES
  collections,   \* the workspace's collections, by uid
  environments,  \* Postman's environments, by uid
  bound,         \* public_environment_uid, or None: it never changes
  published,     \* the published documentations: collection and environment
  edits, runs,   \* edits and commands so far
  pc,            \* what each operator's process does next
  command,       \* the command it runs
  created,       \* in a bootstrap: what its own sync returned
  view,          \* what the workspace detail said of the bound environment
  unread,        \* listed collections whose description is still to be read
  marked,        \* those read that carry the marker
  plan,          \* the RemotePlan, as far as it is made
  touched,       \* somebody edited the workspace since the plan began
  overlapped,    \* two commands have been under way at once
  renamed        \* what somebody has renamed so far: a collection, an environment

remote == <<collections, environments, bound, published>>
local == <<pc, command, created, view, unread, marked, plan, touched>>
counts == <<edits, runs, overlapped, renamed>>
vars == <<remote, counts, local>>

Contents == {"wanted", "drifted", "refused"}
Collection == [named : BOOLEAN, marked : BOOLEAN, content : Contents]
Environment == [named : BOOLEAN, here : BOOLEAN, content : Contents]
Actions == {"create", "update", "unchanged"}
Views == {"omitted", "present", "absent"}
Renamings == {"collection", "environment"}
Steps == {"idle", "workspace", "collections", "environments", "membership", "bound",
          "markers", "collection", "environment", "planned", "applied", "synced"}

ASSUME NoneAssumption == None \notin Collection \cup Environment

RemotePlan == [collection : CollectionIds \cup {None}, environment : EnvironmentIds \cup {None},
               collectionAction : Actions, environmentAction : Actions]
NewPlan == [collection |-> None, environment |-> None,
            collectionAction |-> "create", environmentAction |-> "create"]
Nothing == [collection |-> None, environment |-> None]

ThePublication == [named |-> TRUE, marked |-> TRUE, content |-> "wanted"]
TheEnvironment == [named |-> TRUE, here |-> TRUE, content |-> "wanted"]

Existing(assets) == {id \in DOMAIN assets : assets[id] # None}
Named(assets) == {id \in Existing(assets) : assets[id].named}
\* _one refuses an inventory in which several entries have the name.
Unambiguous(matches) == Cardinality(matches) <= 1

Here == {e \in Existing(environments) : environments[e].here}

\* The uniform type of the state.
TypeOK ==
  /\ collections \in [CollectionIds -> Collection \cup {None}]
  /\ environments \in [EnvironmentIds -> Environment \cup {None}]
  /\ bound \in Bindings
  /\ published \subseteq [collection : CollectionIds, environment : EnvironmentIds]
  /\ edits \in 0..MaxEdits
  /\ runs \in 0..MaxRuns
  /\ pc \in [Operators -> Steps]
  /\ command \in [Operators -> Commands]
  /\ created \in [Operators -> [collection : CollectionIds \cup {None},
                                environment : EnvironmentIds \cup {None}]]
  /\ view \in [Operators -> Views]
  /\ unread \in [Operators -> SUBSET CollectionIds]
  /\ marked \in [Operators -> SUBSET CollectionIds]
  /\ plan \in [Operators -> RemotePlan]
  /\ touched \in [Operators -> BOOLEAN]
  /\ overlapped \in BOOLEAN
  /\ renamed \subseteq Renamings

(***************************************************************************)
(* A workspace that may already hold somebody else's collection, under the *)
(* expected name or another; the bound environment exists, in this         *)
(* workspace or in another one, and then so does its collection.           *)
(***************************************************************************)
Init ==
  /\ bound \in Bindings
  /\ \E first \in [CollectionIds -> {None, ThePublication}
                       \cup [named : BOOLEAN, marked : {FALSE}, content : {"drifted"}]] :
       /\ Cardinality(Existing(first)) <= 1
       /\ bound # None => \E c \in CollectionIds : first[c] = ThePublication
       /\ bound = None => \A c \in CollectionIds : first[c] # ThePublication
       /\ collections = first
  /\ environments \in [EnvironmentIds -> {None} \cup [named : {TRUE}, here : BOOLEAN,
                                                      content : {"drifted"}]]
  /\ \A e \in EnvironmentIds : environments[e] # None <=> e = bound
  /\ published = {}
  /\ edits = 0
  /\ runs = 0
  /\ pc = [op \in Operators |-> "idle"]
  /\ command = [op \in Operators |-> CHOOSE cmd \in Commands : TRUE]
  /\ created = [op \in Operators |-> Nothing]
  /\ view = [op \in Operators |-> "omitted"]
  /\ unread = [op \in Operators |-> {}]
  /\ marked = [op \in Operators |-> {}]
  /\ plan = [op \in Operators |-> NewPlan]
  /\ touched = [op \in Operators |-> FALSE]
  /\ overlapped = FALSE
  /\ renamed = {}

-----------------------------------------------------------------------------
(* plan_sync *)

Goto(op, step) == pc' = [pc EXCEPT ![op] = step]

\* A fault for the sensitivity checks: the second plan goes on from the first one's view.
ViewlessPlan(op) ==
  /\ Goto(op, "workspace")
  /\ plan' = [plan EXCEPT ![op] = NewPlan]
  /\ unread' = [unread EXCEPT ![op] = {}]
  /\ marked' = [marked EXCEPT ![op] = {}]
  /\ touched' = [touched EXCEPT ![op] = FALSE]
  /\ view' = [view EXCEPT ![op] = None]

\* The first request of a plan, and the locals it starts from.
BeginPlan(op) ==
  /\ Goto(op, "workspace")
  /\ plan' = [plan EXCEPT ![op] = NewPlan]
  /\ unread' = [unread EXCEPT ![op] = {}]
  /\ marked' = [marked EXCEPT ![op] = {}]
  /\ touched' = [touched EXCEPT ![op] = FALSE]
  /\ view' = [view EXCEPT ![op] = "omitted"]

\* An operator starts one of the commands.
Start(op) ==
  /\ pc[op] = "idle"
  /\ runs < MaxRuns
  /\ runs' = runs + 1
  /\ \E cmd \in Commands : command' = [command EXCEPT ![op] = cmd]
  /\ created' = [created EXCEPT ![op] = Nothing]
  /\ overlapped' = (overlapped \/ \E other \in Operators \ {op} : pc[other] # "idle")
  /\ BeginPlan(op)
  /\ UNCHANGED <<remote, edits, renamed>>

\* A fault for the sensitivity checks: membership is inferred from the binding.
AssumedViews == {"omitted", "present"}

(***************************************************************************)
(* What a workspace detail can say of the bound environment.  The list of  *)
(* environments may be missing from the response; a list in which the      *)
(* public name belongs to another uid is refused.                          *)
(***************************************************************************)
WorkspaceViews ==
  {"omitted"} \cup {v \in {"present", "absent"} :
     /\ v = "present" <=> bound \in Here
     /\ \A e \in Here : environments[e].named => e = bound}

\* GET /workspaces/...: only a plan with a bound environment looks at the list.
ReadWorkspace(op) ==
  /\ pc[op] = "workspace"
  /\ Goto(op, "collections")
  /\ IF bound = None
       THEN UNCHANGED view
       ELSE \E v \in WorkspaceViews : view' = [view EXCEPT ![op] = v]
  /\ UNCHANGED <<remote, counts, command, created, unread, marked, plan, touched>>

\* GET /collections: two collections with the expected name are refused.
ListCollections(op) ==
  /\ pc[op] = "collections"
  /\ Unambiguous(Named(collections))
  /\ \E c \in IF Named(collections) = {} THEN {None} ELSE Named(collections) :
       plan' = [plan EXCEPT ![op].collection = c]
  /\ unread' = [unread EXCEPT ![op] = Existing(collections)]
  /\ Goto(op, "environments")
  /\ UNCHANGED <<remote, counts, command, created, view, marked, touched>>

\* A fault for the sensitivity checks: the marker is never looked for.
WithoutMarkers(op) == IF op \in Operators THEN "collection" ELSE "markers"

\* After the inventory: look for the marker only when the name was not found.
AfterInventory(op) == IF plan[op].collection = None THEN "markers" ELSE "collection"

(***************************************************************************)
(* GET /environments?workspace=...: the list may omit the bound            *)
(* environment.  A bound environment must be proved a member, by this list *)
(* or by the workspace detail; when the detail said nothing it is read     *)
(* again.                                                                  *)
(***************************************************************************)
ListEnvironments(op) ==
  /\ pc[op] = "environments"
  /\ \E shown \in {Here, Here \ {bound}} :
       LET found == Named(environments) \cap shown
       IN /\ Unambiguous(found)
          /\ bound # None => found \subseteq {bound}
          /\ \E e \in IF found = {} THEN {None} ELSE found :
               plan' = [plan EXCEPT ![op].environment = e]
          /\ \/ /\ bound = None \/ (found # {} /\ view[op] # "absent")
                /\ Goto(op, AfterInventory(op))
             \/ /\ bound # None /\ found = {}
                /\ view[op] = "present"
                /\ Goto(op, "bound")
             \/ /\ bound # None /\ found = {}
                /\ view[op] = "omitted"
                /\ Goto(op, "membership")
  /\ UNCHANGED <<remote, counts, command, created, view, unread, marked, touched>>

\* The workspace detail read again, up to four times, until it proves membership.
RereadWorkspace(op) ==
  /\ pc[op] = "membership"
  /\ \E v \in WorkspaceViews :
       /\ v = "present"
       /\ view' = [view EXCEPT ![op] = v]
  /\ Goto(op, "bound")
  /\ UNCHANGED <<remote, counts, command, created, unread, marked, plan, touched>>

\* What _safe_remote_environment and the comparison make of an environment.
EnvironmentAction(e) ==
  IF environments[e].content = "wanted" THEN "unchanged" ELSE "update"

Acceptable(e) ==
  /\ environments[e] # None
  /\ environments[e].named
  /\ environments[e].content # "refused"

\* GET /environments/<bound>: the environment the list omitted, inspected now.
InspectBound(op) ==
  /\ pc[op] = "bound"
  /\ Acceptable(bound)
  /\ plan' = [plan EXCEPT ![op].environment = bound,
                          ![op].environmentAction = EnvironmentAction(bound)]
  /\ Goto(op, AfterInventory(op))
  /\ UNCHANGED <<remote, counts, command, created, view, unread, marked, touched>>

\* GET /collections/...: one listed collection's description, looked through for the marker.
ReadMarker(op) ==
  /\ pc[op] = "markers"
  /\ \E c \in unread[op] :
       /\ unread' = [unread EXCEPT ![op] = @ \ {c}]
       /\ marked' = [marked EXCEPT ![op] = IF collections[c].marked THEN @ \cup {c} ELSE @]
  /\ UNCHANGED <<remote, counts, pc, command, created, view, plan, touched>>

\* The marked collection becomes the plan's, when there is one; two are refused.
AdoptMarked(op) ==
  /\ pc[op] = "markers"
  /\ unread[op] = {}
  /\ Cardinality(marked[op]) <= 1
  /\ marked[op] = {} => plan[op].environment = None
  /\ \E c \in IF marked[op] = {} THEN {None} ELSE marked[op] :
       plan' = [plan EXCEPT ![op].collection = c]
  /\ Goto(op, "collection")
  /\ UNCHANGED <<remote, counts, command, created, view, unread, marked, touched>>

\* A fault for the sensitivity checks: a collection of the right name passes as unchanged.
NameOnly(op) ==
  LET c == plan[op].collection
  IN /\ pc[op] = "collection"
     /\ c # None => collections[c].marked /\ collections[c].content # "refused"
     /\ plan' = [plan EXCEPT ![op].collectionAction =
                   IF c = None THEN "create"
                   ELSE IF collections[c].named THEN "unchanged" ELSE "update"]
     /\ Goto(op, "environment")
     /\ UNCHANGED <<remote, counts, command, created, view, unread, marked, touched>>

\* GET /apis and GET /collections/...: create, update or leave the collection.
InspectCollection(op) ==
  LET c == plan[op].collection
  IN /\ pc[op] = "collection"
     /\ c # None => collections[c].marked /\ collections[c].content # "refused"
     /\ plan' = [plan EXCEPT ![op].collectionAction =
                   IF c = None THEN "create"
                   ELSE IF collections[c] = ThePublication THEN "unchanged" ELSE "update"]
     /\ Goto(op, "environment")
     /\ UNCHANGED <<remote, counts, command, created, view, unread, marked, touched>>

\* GET /environments/...: create, update or leave it; InspectBound has done so already.
InspectEnvironment(op) ==
  LET e == plan[op].environment
  IN /\ pc[op] = "environment"
     /\ IF e = None \/ plan[op].environmentAction # "create"
          THEN UNCHANGED plan
          ELSE /\ Acceptable(e)
               /\ plan' = [plan EXCEPT ![op].environmentAction = EnvironmentAction(e)]
     /\ Goto(op, "planned")
     /\ UNCHANGED <<remote, counts, command, created, view, unread, marked, touched>>

-----------------------------------------------------------------------------
(* sync_public *)

\* A bootstrap applies only a plan that creates both; its second plan is not applied.
MayApply(op) ==
  \/ command[op] = "sync"
  \/ /\ command[op] = "bootstrap"
     /\ created[op] = Nothing
     /\ plan[op].collectionAction = "create"
     /\ plan[op].environmentAction = "create"

\* A write that took effect: its response arrives, or is lost and ends the command.
AnsweredOrLost(op, step, answered) ==
  \/ answered /\ Goto(op, step)
  \/ Goto(op, "idle") /\ UNCHANGED plan

\* POST or PUT of the collection, or nothing when it is unchanged.
ApplyCollection(op) ==
  /\ pc[op] = "planned"
  /\ MayApply(op)
  /\ \/ /\ plan[op].collectionAction = "create"
        /\ \E c \in CollectionIds \ Existing(collections) :
             /\ collections' = [collections EXCEPT ![c] = ThePublication]
             /\ AnsweredOrLost(op, "applied", plan' = [plan EXCEPT ![op].collection = c])
     \/ /\ plan[op].collectionAction = "update"
        /\ collections' = [collections EXCEPT ![plan[op].collection] = ThePublication]
        /\ AnsweredOrLost(op, "applied", UNCHANGED plan)
     \/ /\ plan[op].collectionAction = "unchanged"
        /\ Goto(op, "applied")
        /\ UNCHANGED <<collections, plan>>
  /\ UNCHANGED <<environments, bound, published, counts, command, created, view, unread,
                 marked, touched>>

\* POST or PUT of the environment, or nothing when it is unchanged.
ApplyEnvironment(op) ==
  /\ pc[op] = "applied"
  /\ \/ /\ plan[op].environmentAction = "create"
        /\ \E e \in EnvironmentIds \ Existing(environments) :
             /\ environments' = [environments EXCEPT ![e] = TheEnvironment]
             /\ AnsweredOrLost(op, "synced", plan' = [plan EXCEPT ![op].environment = e])
     \/ /\ plan[op].environmentAction = "update"
        /\ environments' = [environments EXCEPT ![plan[op].environment].named = TRUE,
                                                ![plan[op].environment].content = "wanted"]
        /\ AnsweredOrLost(op, "synced", UNCHANGED plan)
     \/ /\ plan[op].environmentAction = "unchanged"
        /\ Goto(op, "synced")
        /\ UNCHANGED <<environments, plan>>
  /\ UNCHANGED <<collections, bound, published, counts, command, created, view, unread,
                 marked, touched>>

\* A fault for the sensitivity checks: a bootstrap takes its writes for verified.
UnverifiedSynced(op) ==
  /\ pc[op] = "synced"
  /\ created' = [created EXCEPT ![op] = [collection |-> plan[op].collection,
                                         environment |-> plan[op].environment]]
  /\ plan' = [plan EXCEPT ![op].collectionAction = "unchanged",
                          ![op].environmentAction = "unchanged"]
  /\ Goto(op, IF command[op] = "bootstrap" THEN "planned" ELSE "idle")
  /\ UNCHANGED <<remote, counts, command, unread, marked, touched, view>>

\* sync_public has returned: a bootstrap now plans again, to verify.
Synced(op) ==
  /\ pc[op] = "synced"
  /\ IF command[op] = "bootstrap"
       THEN /\ created' = [created EXCEPT ![op] = [collection |-> plan[op].collection,
                                                   environment |-> plan[op].environment]]
            /\ BeginPlan(op)
       ELSE /\ Goto(op, "idle")
            /\ UNCHANGED <<created, plan, unread, marked, touched, view>>
  /\ UNCHANGED <<remote, counts, command>>

-----------------------------------------------------------------------------
(* publish_public *)

\* A fault for the sensitivity checks: only the collection has to be unchanged.
HalfCheckedPublish(op) ==
  /\ plan[op].collectionAction = "unchanged"
  /\ plan[op].environment # None
  /\ command[op] = "publish" \/ created[op].collection = plan[op].collection

\* A plan that found both artifacts unchanged, in a bootstrap those it created.
MayPublish(op) ==
  /\ plan[op].collectionAction = "unchanged"
  /\ plan[op].environmentAction = "unchanged"
  /\ \/ command[op] = "publish"
     \/ /\ command[op] = "bootstrap"
        /\ created[op] = [collection |-> plan[op].collection,
                          environment |-> plan[op].environment]

\* PUT /collections/<uid>/public-documentations.
Publish(op) ==
  /\ pc[op] = "planned"
  /\ MayPublish(op)
  /\ published' = published \cup {[collection |-> plan[op].collection,
                                   environment |-> plan[op].environment]}
  /\ Goto(op, "idle")
  /\ UNCHANGED <<collections, environments, bound, counts, command, created, view, unread,
                 marked, plan, touched>>

\* A refused check, a request that failed without effect, or a killed process.
Raise(op) ==
  /\ pc[op] # "idle"
  /\ Goto(op, "idle")
  /\ UNCHANGED <<remote, counts, command, created, view, unread, marked, plan, touched>>

-----------------------------------------------------------------------------
(* People in Postman *)

\* Somebody renames a collection or an environment, or changes what it holds.
Edit ==
  /\ edits < MaxEdits
  /\ edits' = edits + 1
  /\ touched' = [op \in Operators |-> TRUE]
  /\ \/ /\ \E c \in Existing(collections) :
             \/ /\ collections' = [collections EXCEPT ![c].named = FALSE,
                                                      ![c].content = "drifted"]
                /\ renamed' = renamed \cup {"collection"}
             \/ /\ \E content \in {"drifted", "refused"} :
                     collections' = [collections EXCEPT ![c].content = content]
                /\ UNCHANGED renamed
        /\ UNCHANGED environments
     \/ /\ \E e \in Existing(environments) :
             \/ /\ environments' = [environments EXCEPT ![e].named = FALSE,
                                                        ![e].content = "drifted"]
                /\ renamed' = renamed \cup {"environment"}
             \/ /\ \E content \in {"drifted", "refused"} :
                     environments' = [environments EXCEPT ![e].content = content]
                /\ UNCHANGED renamed
        /\ UNCHANGED collections
  /\ UNCHANGED <<bound, published, runs, overlapped, pc, command, created, view, unread, marked, plan>>

Step(op) ==
  \/ Start(op)
  \/ ReadWorkspace(op) \/ ListCollections(op) \/ ListEnvironments(op)
  \/ RereadWorkspace(op) \/ InspectBound(op)
  \/ ReadMarker(op) \/ AdoptMarked(op)
  \/ InspectCollection(op) \/ InspectEnvironment(op)
  \/ ApplyCollection(op) \/ ApplyEnvironment(op) \/ Synced(op)
  \/ Publish(op)
  \/ Raise(op)

Next == (\E op \in Operators : Step(op)) \/ Edit

Spec == Init /\ [][Next]_vars

-----------------------------------------------------------------------------
\* As long as no two commands overlap, there are never two collections that carry
\* the publication's marker, whatever responses were lost and whatever was renamed
\* in Postman meanwhile (the comment on the marker search in plan_sync: a rename
\* cannot duplicate the docs).
DocsNotDuplicated ==
  ~overlapped => Cardinality({c \in Existing(collections) : collections[c].marked}) <= 1

\* When sync_public returns, and when a plan may be published, both artifacts are
\* those of the local publication, in the selected workspace, unless somebody
\* edited the workspace since the plan began: also after earlier commands that
\* failed half-way, and with other operators at work.
SyncDelivers ==
  \A op \in Operators :
    ~touched[op] /\ (pc[op] = "synced" \/ (pc[op] = "planned" /\ MayPublish(op))) =>
      /\ collections[plan[op].collection] = ThePublication
      /\ environments[plan[op].environment] = TheEnvironment

\* Two operators that bootstrap at once never publish a documentation each: whoever
\* verifies second sees two artifacts of one name and stops (bootstrap_public, publish
\* once).  All that is ever published has one collection as long as nobody renamed a
\* collection, and one environment as long as nobody renamed an environment.
PublishedOnce ==
  /\ "collection" \notin renamed => Cardinality({p.collection : p \in published}) <= 1
  /\ "environment" \notin renamed => Cardinality({p.environment : p \in published}) <= 1

\* With a bound environment no command creates another one or writes to an
\* environment outside the selected workspace, whatever the inventories omit.
BoundOnly ==
  [][\A e \in EnvironmentIds :
       /\ bound # None
       /\ environments'[e] # environments[e]
       /\ environments'[e].content = "wanted"
       => e = bound /\ e \in Here]_vars
=============================================================================
