-------------------------- MODULE PublicSyncProofs --------------------------
(***************************************************************************)
(* Proofs about PublicSync, for any number of operators, commands, edits,  *)
(* collections and environments.                                           *)
(***************************************************************************)
EXTENDS PublicSync, FiniteSetTheorems, TLAPS

USE IdsAssumption, CommandsAssumption, BoundsAssumption, NoneAssumption

Listed == {"environments", "membership", "bound", "markers"}
Settled == {"markers", "collection", "environment", "planned"}
Inspected == {"environment", "planned"}

MarkedOnes == {c \in Existing(collections) : collections[c].marked}

\* A plan refers to what exists, and its actions to what it refers to.
Grounded(op) ==
  /\ plan[op].collection # None => plan[op].collection \in Existing(collections)
  /\ plan[op].environment # None => plan[op].environment \in Here
  /\ plan[op].collectionAction # "create" => plan[op].collection # None
  /\ plan[op].environmentAction # "create" => plan[op].environment # None
  /\ pc[op] \in {"workspace", "collections", "collection"} \cup Listed =>
       plan[op].collectionAction = "create"
  /\ pc[op] \in {"workspace", "collections", "environments", "membership", "bound"} =>
       plan[op].environmentAction = "create"
  /\ unread[op] \subseteq Existing(collections) /\ marked[op] \subseteq Existing(collections)
  /\ pc[op] \in {"workspace", "collections"} => marked[op] = {}
  /\ pc[op] = "markers" => plan[op].collection = None
  /\ pc[op] \in Inspected =>
       \/ plan[op].collection = None /\ plan[op].collectionAction = "create"
       \/ plan[op].collection \in MarkedOnes /\ plan[op].collectionAction # "create"

\* A bound environment is the only one, and no plan settles on another or on none.
BoundKnown(op) ==
  /\ view[op] = "present" \/ pc[op] = "bound" => bound \in Here
  /\ pc[op] \in {"membership", "bound"} => bound # None
  /\ bound # None =>
       /\ plan[op].environment \in {None, bound}
       /\ pc[op] \in Settled \cup {"applied"} => plan[op].environment = bound
       /\ pc[op] \in {"planned", "applied"} => plan[op].environmentAction # "create"

\* What a plan takes for wanted, and what a sync has written, is the publication.
Delivered(op) ==
  ~touched[op] =>
    /\ \/ pc[op] \in Inspected /\ plan[op].collectionAction = "unchanged"
       \/ pc[op] \in {"applied", "synced"}
       => collections[plan[op].collection] = ThePublication
    /\ \/ pc[op] \in Settled \cup {"applied"} /\ plan[op].environmentAction = "unchanged"
       \/ pc[op] = "synced"
       => environments[plan[op].environment] = TheEnvironment

Sound(op) == Grounded(op) /\ BoundKnown(op) /\ Delivered(op)

\* A command that is alone knows of every marked collection there is.
Knows(op) ==
  /\ pc[op] \in Listed => MarkedOnes \subseteq unread[op] \cup marked[op]
  /\ pc[op] \in {"collection", "environment", "planned"} /\ plan[op].collection = None =>
       MarkedOnes = {}

Idle(op) == pc[op] = "idle"

\* Until two commands overlapped: one marked collection at most.
Undisturbed ==
  /\ \A c, d \in MarkedOnes : c = d
  /\ \A op \in Operators : Knows(op)
  /\ \A op, other \in Operators : Idle(op) \/ Idle(other) \/ op = other

\* The collections and the environments that are published or may still be.
Picks(op, c) == pc[op] \in Listed \cup Settled /\ plan[op].collection = c
ChosenCollection(c) ==
  \/ \E p \in published : p.collection = c
  \/ \E op \in Operators : Picks(op, c)

PicksEnvironment(op, e) == pc[op] \in Settled /\ plan[op].environment = e
ChosenEnvironment(e) ==
  \/ \E p \in published : p.environment = e
  \/ \E op \in Operators : PicksEnvironment(op, e)

\* A plan that found no name finds no marker either.
Unmarked(op) ==
  pc[op] \in Listed /\ plan[op].collection = None =>
    marked[op] = {} /\ unread[op] \cap MarkedOnes = {}

\* Until a collection is renamed: what is chosen is the only one of its name, for good.
OneCollection ==
  /\ MarkedOnes \subseteq Named(collections)
  /\ \A c \in CollectionIds : ChosenCollection(c) => c \in Named(collections)
  /\ \A c, d \in CollectionIds : ChosenCollection(c) /\ ChosenCollection(d) => c = d
  /\ \A op \in Operators : Unmarked(op)

OneEnvironment ==
  /\ Existing(environments) \subseteq Named(environments)
  /\ \A e \in EnvironmentIds : ChosenEnvironment(e) => e \in Existing(environments)
  /\ \A d, e \in EnvironmentIds : ChosenEnvironment(d) /\ ChosenEnvironment(e) => d = e

InPlace == Existing(environments) \subseteq IF bound = None THEN Here ELSE {bound}

\* The inductive invariant.
IInv ==
  /\ TypeOK
  /\ \A op \in Operators : Sound(op)
  /\ InPlace
  /\ ~overlapped => Undisturbed
  /\ "collection" \notin renamed => OneCollection
  /\ "environment" \notin renamed => OneEnvironment

-----------------------------------------------------------------------------
(* Types.                                                                    *)

\* What exists has an id and is an artifact.
LEMMA ExistingType ==
  ASSUME TypeOK
  PROVE  /\ Existing(collections) \subseteq CollectionIds
         /\ Existing(environments) \subseteq EnvironmentIds
         /\ Named(collections) \subseteq Existing(collections)
         /\ Named(environments) \subseteq Existing(environments)
         /\ Here \subseteq Existing(environments)
         /\ \A c \in Existing(collections) : collections[c] \in Collection
         /\ \A e \in Existing(environments) : environments[e] \in Environment
BY DEF TypeOK, Existing, Named, Here

\* A plan with one of its fields replaced.
LEMMA PlanUpdates ==
  ASSUME TypeOK, NEW op \in Operators
  PROVE  /\ \A c \in CollectionIds \cup {None} :
              [plan EXCEPT ![op].collection = c] \in [Operators -> RemotePlan]
         /\ \A e \in EnvironmentIds \cup {None} :
              [plan EXCEPT ![op].environment = e] \in [Operators -> RemotePlan]
         /\ \A a \in Actions :
              [plan EXCEPT ![op].collectionAction = a] \in [Operators -> RemotePlan]
         /\ \A a \in Actions :
              [plan EXCEPT ![op].environmentAction = a] \in [Operators -> RemotePlan]
<1> USE DEF RemotePlan
<1>1. plan \in [Operators -> RemotePlan] /\ plan[op] \in RemotePlan
  BY DEF TypeOK
<1>3. ASSUME NEW c \in CollectionIds \cup {None}
      PROVE  [plan EXCEPT ![op].collection = c] \in [Operators -> RemotePlan]
  BY <1>1, <1>3
<1>4. ASSUME NEW e \in EnvironmentIds \cup {None}
      PROVE  [plan EXCEPT ![op].environment = e] \in [Operators -> RemotePlan]
  BY <1>1, <1>4
<1>5. ASSUME NEW a \in Actions
      PROVE  /\ [plan EXCEPT ![op].collectionAction = a] \in [Operators -> RemotePlan]
             /\ [plan EXCEPT ![op].environmentAction = a] \in [Operators -> RemotePlan]
  BY <1>1, <1>5
<1> QED BY <1>3, <1>4, <1>5

LEMMA InitTypeOK == Init => TypeOK
<1> SUFFICES ASSUME Init PROVE TypeOK
  OBVIOUS
<1>1. command \in [Operators -> Commands]
  <2>1. (CHOOSE cmd \in Commands : TRUE) \in Commands
    OBVIOUS
  <2> QED BY <2>1 DEF Init
<1>2. collections \in [CollectionIds -> Collection \cup {None}]
  <2>1. ThePublication \in Collection
    BY DEF ThePublication, Collection, Contents
  <2>3. \A k \in [named : BOOLEAN, marked : {FALSE}, content : {"drifted"}] : k \in Collection
    BY DEF Collection, Contents
  <2>2. collections \in [CollectionIds -> {None, ThePublication}
          \cup [named : BOOLEAN, marked : {FALSE}, content : {"drifted"}]]
    BY DEF Init
  <2> QED BY <2>1, <2>2, <2>3
<1>3. environments \in [EnvironmentIds -> Environment \cup {None}]
  BY DEF Init, Environment, Contents
<1>4. plan \in [Operators -> RemotePlan]
  BY DEF Init, NewPlan, RemotePlan, Actions
<1>5. edits \in 0..MaxEdits /\ runs \in 0..MaxRuns
  BY DEF Init
<1>6. pc \in [Operators -> Steps] /\ view \in [Operators -> Views]
  BY DEF Init, Steps, Views
<1>7. created \in [Operators -> [collection : CollectionIds \cup {None},
                                 environment : EnvironmentIds \cup {None}]]
  BY DEF Init, Nothing
<1>8. /\ unread \in [Operators -> SUBSET CollectionIds]
      /\ marked \in [Operators -> SUBSET CollectionIds]
      /\ touched \in [Operators -> BOOLEAN]
  BY DEF Init
<1>9. bound \in Bindings /\ overlapped \in BOOLEAN /\ renamed \subseteq Renamings
      /\ published \subseteq [collection : CollectionIds, environment : EnvironmentIds]
  BY DEF Init
<1> QED BY <1>1, <1>2, <1>3, <1>4, <1>5, <1>6, <1>7, <1>8, <1>9 DEF TypeOK

\* The actions that only read: what the writes change keeps its type.
LEMMA ReadTypeOK ==
  ASSUME TypeOK, NEW op \in Operators,
         \/ ReadWorkspace(op) \/ ListCollections(op) \/ ListEnvironments(op)
         \/ RereadWorkspace(op) \/ InspectBound(op) \/ ReadMarker(op) \/ AdoptMarked(op)
         \/ InspectCollection(op) \/ InspectEnvironment(op) \/ Raise(op)
  PROVE  TypeOK'
<1>1. UNCHANGED <<remote, counts, command, created, touched>>
  BY DEF ReadWorkspace, ListCollections, ListEnvironments, RereadWorkspace, InspectBound,
         ReadMarker, AdoptMarked, InspectCollection, InspectEnvironment, Raise
<1>2. pc' \in [Operators -> Steps]
  BY DEF TypeOK, ReadWorkspace, ListCollections, ListEnvironments, RereadWorkspace,
         InspectBound, ReadMarker, AdoptMarked, InspectCollection, InspectEnvironment, Raise,
         Goto, AfterInventory, Steps
<1>3. view' \in [Operators -> Views]
  BY DEF TypeOK, ReadWorkspace, ListCollections, ListEnvironments, RereadWorkspace,
         InspectBound, ReadMarker, AdoptMarked, InspectCollection, InspectEnvironment, Raise,
         WorkspaceViews, Views
<1>4. unread' \in [Operators -> SUBSET CollectionIds]
      /\ marked' \in [Operators -> SUBSET CollectionIds]
  <2>1. CASE ListCollections(op)
    BY <2>1, ExistingType DEF TypeOK, ListCollections
  <2>2. CASE ReadMarker(op)
    BY <2>2 DEF TypeOK, ReadMarker
  <2>3. CASE UNCHANGED <<unread, marked>>
    BY <2>3 DEF TypeOK
  <2> QED BY <2>1, <2>2, <2>3
          DEF ReadWorkspace, ListEnvironments, RereadWorkspace, InspectBound, AdoptMarked,
              InspectCollection, InspectEnvironment, Raise
<1>5. plan' \in [Operators -> RemotePlan]
  <2>1. CASE ListCollections(op)
    <3>1. PICK c \in IF Named(collections) = {} THEN {None} ELSE Named(collections) :
             plan' = [plan EXCEPT ![op].collection = c]
      BY <2>1 DEF ListCollections
    <3> QED BY <3>1, ExistingType, PlanUpdates
  <2>2. CASE ListEnvironments(op)
    <3>1. PICK shown \in {Here, Here \ {bound}} :
             \E e \in IF Named(environments) \cap shown = {} THEN {None}
                       ELSE Named(environments) \cap shown :
               plan' = [plan EXCEPT ![op].environment = e]
      BY <2>2 DEF ListEnvironments
    <3> QED BY <3>1, ExistingType, PlanUpdates
  <2>3. CASE InspectBound(op)
    <3>1. bound \in EnvironmentIds \cup {None}
      BY BindingsAssumption DEF TypeOK
    <3>2. EnvironmentAction(bound) \in Actions
      BY DEF EnvironmentAction, Actions
    <3>3. plan' = [plan EXCEPT ![op].environment = bound,
                               ![op].environmentAction = EnvironmentAction(bound)]
      BY <2>3 DEF InspectBound
    <3>4. ASSUME NEW r \in RemotePlan, NEW e \in EnvironmentIds \cup {None}, NEW a \in Actions
          PROVE  [r EXCEPT !.environment = e, !.environmentAction = a] \in RemotePlan
      BY <3>4 DEF RemotePlan
    <3> DEFINE r == [plan[op] EXCEPT !.environment = bound,
                                     !.environmentAction = EnvironmentAction(bound)]
    <3>5. plan' = [plan EXCEPT ![op] = r]
      BY <3>3
    <3>6. plan \in [Operators -> RemotePlan]
      BY DEF TypeOK
    <3>7. r \in RemotePlan
      BY <3>1, <3>2, <3>4, <3>6
    <3> HIDE DEF r
    <3> QED BY <3>5, <3>6, <3>7
  <2>4. CASE AdoptMarked(op)
    <3>1. PICK c \in IF marked[op] = {} THEN {None} ELSE marked[op] :
             plan' = [plan EXCEPT ![op].collection = c]
      BY <2>4 DEF AdoptMarked
    <3> QED BY <3>1, PlanUpdates DEF TypeOK
  <2>5. CASE InspectCollection(op)
    <3>1. \E a \in Actions : plan' = [plan EXCEPT ![op].collectionAction = a]
      BY <2>5 DEF InspectCollection, Actions
    <3> QED BY <3>1, PlanUpdates
  <2>6. CASE InspectEnvironment(op)
    <3>1. CASE UNCHANGED plan
      BY <3>1 DEF TypeOK
    <3>2. CASE \E a \in Actions : plan' = [plan EXCEPT ![op].environmentAction = a]
      BY <3>2, PlanUpdates
    <3> QED BY <2>6, <3>1, <3>2 DEF InspectEnvironment, Actions, EnvironmentAction
  <2>7. CASE UNCHANGED plan
    BY <2>7 DEF TypeOK
  <2> QED BY <2>1, <2>2, <2>3, <2>4, <2>5, <2>6, <2>7
          DEF ReadWorkspace, RereadWorkspace, ReadMarker, Raise
<1> QED BY <1>1, <1>2, <1>3, <1>4, <1>5 DEF TypeOK, remote, counts

\* A plan that begins, of a new command or of a bootstrap that verifies.
LEMMA BeginTypeOK ==
  ASSUME TypeOK, NEW op \in Operators, Start(op) \/ Synced(op)
  PROVE  TypeOK'
<1>1. UNCHANGED <<remote, edits, renamed>>
  BY DEF Start, Synced, remote, counts
<1>2. runs' \in 0..MaxRuns /\ overlapped' \in BOOLEAN /\ command' \in [Operators -> Commands]
  <2>1. CASE Start(op)
    BY <2>1 DEF TypeOK, Start
  <2>2. CASE Synced(op)
    BY <2>2 DEF TypeOK, Synced, counts
  <2> QED BY <2>1, <2>2
<1>3. created' \in [Operators -> [collection : CollectionIds \cup {None},
                                  environment : EnvironmentIds \cup {None}]]
  BY DEF TypeOK, Start, Synced, RemotePlan, Nothing
<1>4. BeginPlan(op) \/ (Goto(op, "idle") /\ UNCHANGED <<plan, unread, marked, touched, view>>)
  BY DEF Start, Synced
<1>5. pc' \in [Operators -> Steps] /\ view' \in [Operators -> Views]
  BY <1>4 DEF TypeOK, BeginPlan, Goto, Steps, Views
<1>6. /\ unread' \in [Operators -> SUBSET CollectionIds]
      /\ marked' \in [Operators -> SUBSET CollectionIds]
      /\ touched' \in [Operators -> BOOLEAN]
  BY <1>4 DEF TypeOK, BeginPlan
<1>7. plan' \in [Operators -> RemotePlan]
  <2>1. plan' = plan \/ plan' = [plan EXCEPT ![op] = NewPlan]
    BY <1>4 DEF BeginPlan
  <2>2. NewPlan \in RemotePlan
    BY DEF NewPlan, RemotePlan, Actions
  <2> QED BY <2>1, <2>2 DEF TypeOK
<1> QED BY <1>1, <1>2, <1>3, <1>5, <1>6, <1>7 DEF TypeOK, remote

\* The writes to Postman.
LEMMA WriteTypeOK ==
  ASSUME TypeOK, NEW op \in Operators, Grounded(op),
         ApplyCollection(op) \/ ApplyEnvironment(op) \/ Publish(op)
  PROVE  TypeOK'
<1>1. UNCHANGED <<bound, counts, command, created, view, unread, marked, touched>>
  BY DEF ApplyCollection, ApplyEnvironment, Publish
<1>2. pc' \in [Operators -> Steps]
  BY DEF TypeOK, ApplyCollection, ApplyEnvironment, Publish, AnsweredOrLost, Goto, Steps
<1>3. plan' \in [Operators -> RemotePlan]
  <2>1. CASE plan' = plan
    BY <2>1 DEF TypeOK
  <2>2. CASE \E c \in CollectionIds : plan' = [plan EXCEPT ![op].collection = c]
    BY <2>2, PlanUpdates
  <2>3. CASE \E e \in EnvironmentIds : plan' = [plan EXCEPT ![op].environment = e]
    BY <2>3, PlanUpdates
  <2>4. CASE ApplyCollection(op)
    BY <2>1, <2>2, <2>4 DEF ApplyCollection, AnsweredOrLost
  <2>5. CASE ApplyEnvironment(op)
    BY <2>1, <2>3, <2>5 DEF ApplyEnvironment, AnsweredOrLost
  <2> QED BY <2>1, <2>4, <2>5 DEF Publish
<1>4. collections' \in [CollectionIds -> Collection \cup {None}]
  <2>1. ThePublication \in Collection
    BY DEF ThePublication, Collection, Contents
  <2>2. collections' = collections
        \/ \E c : collections' = [collections EXCEPT ![c] = ThePublication]
    BY DEF ApplyCollection, ApplyEnvironment, Publish
  <2> QED BY <2>1, <2>2 DEF TypeOK
<1>5. environments' \in [EnvironmentIds -> Environment \cup {None}]
  <2>1. CASE ApplyEnvironment(op) /\ plan[op].environmentAction = "update"
    <3>1. plan[op].environment \in EnvironmentIds /\ environments[plan[op].environment] \in Environment
      BY <2>1, ExistingType DEF Grounded
    <3> DEFINE e == plan[op].environment
               kept == [environments[e] EXCEPT !.named = TRUE, !.content = "wanted"]
    <3>2. environments' = [environments EXCEPT ![e] = kept]
      BY <2>1, <3>1 DEF ApplyEnvironment, TypeOK
    <3>3. kept \in Environment
      BY <3>1 DEF Environment, Contents
    <3> QED BY <3>1, <3>2, <3>3 DEF TypeOK
  <2>2. CASE ~(ApplyEnvironment(op) /\ plan[op].environmentAction = "update")
    <3>1. TheEnvironment \in Environment
      BY DEF TheEnvironment, Environment, Contents
    <3>2. environments' = environments
          \/ \E e : environments' = [environments EXCEPT ![e] = TheEnvironment]
      BY <2>2 DEF ApplyCollection, ApplyEnvironment, Publish
    <3> QED BY <3>1, <3>2 DEF TypeOK
  <2> QED BY <2>1, <2>2
<1>6. published' \subseteq [collection : CollectionIds, environment : EnvironmentIds]
  BY ExistingType DEF TypeOK, ApplyCollection, ApplyEnvironment, Publish, MayPublish, Grounded
<1> QED BY <1>1, <1>2, <1>3, <1>4, <1>5, <1>6 DEF TypeOK, counts

-----------------------------------------------------------------------------
(* The first state.                                                          *)

\* Of a finite set that holds at most one, any two elements are one.
LEMMA UnambiguousIsOne ==
  ASSUME NEW S, IsFiniteSet(S), Unambiguous(S), NEW x \in S, NEW y \in S
  PROVE  x = y
<1>1. IsFiniteSet({x, y}) /\ Cardinality({x, y}) <= Cardinality(S)
  BY FS_Subset
<1>2. x # y => Cardinality({x, y}) = 2
  <2> SUFFICES ASSUME x # y PROVE Cardinality({x, y}) = 2
    OBVIOUS
  <2>1. IsFiniteSet({x}) /\ Cardinality({x}) = 1
    BY FS_Singleton
  <2>2. y \notin {x} /\ {x, y} = {x} \cup {y}
    OBVIOUS
  <2>3. Cardinality({x} \cup {y}) = Cardinality({x}) + 1
    BY <2>1, <2>2, FS_AddElement
  <2> QED BY <2>1, <2>2, <2>3
<1>3. Cardinality(S) \in Nat
  BY FS_CardinalityType
<1>4. Cardinality(S) <= 1
  BY DEF Unambiguous
<1> QED BY <1>1, <1>2, <1>3, <1>4

LEMMA InitIInv == Init => IInv
<1> SUFFICES ASSUME Init PROVE IInv
  OBVIOUS
<1>1. TypeOK
  BY InitTypeOK
<1>2. \A op \in Operators : /\ pc[op] = "idle" /\ plan[op] = NewPlan /\ view[op] = "omitted"
                             /\ unread[op] = {} /\ marked[op] = {}
  BY DEF Init
<1>3. \A op \in Operators : Sound(op) /\ Knows(op) /\ Unmarked(op)
  BY <1>2 DEF Sound, Grounded, BoundKnown, Delivered, Knows, Unmarked, NewPlan, Listed, Settled,
              Inspected
<1>4. InPlace
  BY DEF Init, InPlace, Existing
<1>5. \A c, d \in MarkedOnes : c = d
  <2>1. IsFiniteSet(Existing(collections)) /\ Unambiguous(Existing(collections))
    <3>1. IsFiniteSet(Existing(collections))
      BY <1>1, ExistingType, FS_Subset
    <3> QED BY <3>1 DEF Init, Unambiguous
  <2> QED BY <2>1, UnambiguousIsOne DEF MarkedOnes
<1>6. \A op, other \in Operators : Idle(op)
  BY <1>2 DEF Idle
<1>7. published = {} /\ \A op \in Operators : \A x : ~Picks(op, x) /\ ~PicksEnvironment(op, x)
  BY <1>2 DEF Init, Picks, PicksEnvironment, Listed, Settled
<1>8. MarkedOnes \subseteq Named(collections)
  <2>1. \A c \in CollectionIds : collections[c] \in {None, ThePublication}
          \cup [named : BOOLEAN, marked : {FALSE}, content : {"drifted"}]
    BY DEF Init
  <2>2. Existing(collections) \subseteq CollectionIds
    BY <1>1, ExistingType
  <2>3. \A c \in MarkedOnes : collections[c].marked # FALSE /\ c \in Existing(collections)
    BY DEF MarkedOnes
  <2>4. \A c \in MarkedOnes : collections[c] = ThePublication
    BY <2>1, <2>2, <2>3 DEF Existing
  <2>5. ThePublication.named = TRUE
    BY DEF ThePublication
  <2>6. \A c \in MarkedOnes : c \in Existing(collections) /\ collections[c].named = TRUE
    BY <2>3, <2>4, <2>5
  <2> QED BY <2>6 DEF Named
<1>9. Existing(environments) \subseteq Named(environments)
  BY DEF Init, Existing, Named
<1>10. Undisturbed
  BY <1>3, <1>5, <1>6 DEF Undisturbed
<1>11. OneCollection /\ OneEnvironment
  BY <1>3, <1>7, <1>8, <1>9
     DEF OneCollection, OneEnvironment, ChosenCollection, ChosenEnvironment
<1> QED BY <1>1, <1>3, <1>4, <1>10, <1>11 DEF IInv

-----------------------------------------------------------------------------
(* Steps that leave Postman alone.                                           *)

\* Nobody else's command notices.
Others(op) ==
  \A o \in Operators \ {op} :
    /\ pc'[o] = pc[o] /\ view'[o] = view[o] /\ unread'[o] = unread[o]
    /\ marked'[o] = marked[o] /\ plan'[o] = plan[o] /\ touched'[o] = touched[o]

LEMMA StepOthers ==
  ASSUME TypeOK, NEW op \in Operators, Step(op)
  PROVE  Others(op)
<1>1. \A o \in Operators \ {op} : pc'[o] = pc[o]
  BY DEF TypeOK, Step, Start, BeginPlan, ReadWorkspace, ListCollections, ListEnvironments,
         RereadWorkspace, InspectBound, ReadMarker, AdoptMarked, InspectCollection,
         InspectEnvironment, ApplyCollection, ApplyEnvironment, Synced, Publish, Raise,
         AnsweredOrLost, Goto
<1>2. \A o \in Operators \ {op} : view'[o] = view[o] /\ unread'[o] = unread[o]
         /\ marked'[o] = marked[o] /\ touched'[o] = touched[o]
  BY DEF TypeOK, Step, Start, BeginPlan, ReadWorkspace, ListCollections, ListEnvironments,
         RereadWorkspace, InspectBound, ReadMarker, AdoptMarked, InspectCollection,
         InspectEnvironment, ApplyCollection, ApplyEnvironment, Synced, Publish, Raise
<1>3. \A o \in Operators \ {op} : plan'[o] = plan[o]
  BY DEF TypeOK, Step, Start, BeginPlan, ReadWorkspace, ListCollections, ListEnvironments,
         RereadWorkspace, InspectBound, ReadMarker, AdoptMarked, InspectCollection,
         InspectEnvironment, ApplyCollection, ApplyEnvironment, Synced, Publish, Raise,
         AnsweredOrLost
<1> QED BY <1>1, <1>2, <1>3 DEF Others

\* What a step of one operator has to see to, when Postman stays as it is.
LEMMA QuietKeeps ==
  ASSUME IInv, NEW op \in Operators, Others(op), TypeOK', UNCHANGED <<remote, renamed>>,
         Sound(op)',
         ~overlapped' => /\ ~overlapped /\ Knows(op)'
                         /\ \A o \in Operators \ {op} : Idle(o),
         "collection" \notin renamed =>
            /\ Unmarked(op)'
            /\ \A c \in CollectionIds :
                 Picks(op, c)' => Picks(op, c) \/ Named(collections) = {c},
         "environment" \notin renamed =>
            \A e \in EnvironmentIds : PicksEnvironment(op, e)' =>
               PicksEnvironment(op, e) \/ Existing(environments) = {e}
  PROVE  IInv'
<1>1. /\ UNCHANGED <<collections, environments, bound, published>>
      /\ Existing(collections)' = Existing(collections) /\ MarkedOnes' = MarkedOnes
      /\ Named(collections)' = Named(collections) /\ Here' = Here
      /\ Existing(environments)' = Existing(environments)
      /\ Named(environments)' = Named(environments)
  BY DEF remote, Existing, MarkedOnes, Named, Here
<1>2. \A o \in Operators \ {op} :
         Sound(o)' /\ (Knows(o) => Knows(o)') /\ (Unmarked(o) => Unmarked(o)')
         /\ (Idle(o) => Idle(o)')
  BY <1>1 DEF IInv, Others, Sound, Grounded, BoundKnown, Delivered, Knows, Unmarked, Idle
<1>3. \A o \in Operators \ {op} : \A x :
         (Picks(o, x)' => Picks(o, x)) /\ (PicksEnvironment(o, x)' => PicksEnvironment(o, x))
  BY DEF Others, Picks, PicksEnvironment
<1>4. InPlace'
  BY <1>1 DEF IInv, InPlace
<1>5. ~overlapped' => Undisturbed'
  <2> SUFFICES ASSUME ~overlapped' PROVE Undisturbed'
    OBVIOUS
  <2>1. Undisturbed
    BY DEF IInv
  <2>2. \A o \in Operators : Knows(o)'
    BY <1>2, <2>1 DEF Undisturbed
  <2>3. \A o \in Operators \ {op} : Idle(o)'
    BY <1>2
  <2> QED BY <1>1, <2>1, <2>2, <2>3 DEF Undisturbed
<1>6. "collection" \notin renamed' => OneCollection'
  <2> SUFFICES ASSUME "collection" \notin renamed PROVE OneCollection'
    OBVIOUS
  <2>1. OneCollection
    BY DEF IInv
  <2>2. \A c \in CollectionIds :
           ChosenCollection(c)' => ChosenCollection(c) \/ Named(collections) = {c}
    BY <1>1, <1>3 DEF ChosenCollection
  <2>3. \A o \in Operators : Unmarked(o)'
    BY <1>2, <2>1 DEF OneCollection
  <2> QED BY <1>1, <2>1, <2>2, <2>3 DEF OneCollection
<1>7. "environment" \notin renamed' => OneEnvironment'
  <2> SUFFICES ASSUME "environment" \notin renamed PROVE OneEnvironment'
    OBVIOUS
  <2>1. OneEnvironment
    BY DEF IInv
  <2>2. \A e \in EnvironmentIds :
           ChosenEnvironment(e)' => ChosenEnvironment(e) \/ Existing(environments) = {e}
    BY <1>1, <1>3 DEF ChosenEnvironment
  <2> QED BY <1>1, <2>1, <2>2 DEF OneEnvironment
<1>8. \A o \in Operators : Sound(o)'
  BY <1>2
<1> QED BY <1>4, <1>5, <1>6, <1>7, <1>8 DEF IInv

\* What replacing one field of a plan leaves of the others.
LEMMA SetCollection ==
  ASSUME TypeOK, NEW op \in Operators, NEW c, plan' = [plan EXCEPT ![op].collection = c]
  PROVE  /\ plan'[op].collection = c
         /\ plan'[op].environment = plan[op].environment
         /\ plan'[op].collectionAction = plan[op].collectionAction
         /\ plan'[op].environmentAction = plan[op].environmentAction
BY DEF TypeOK, RemotePlan

LEMMA SetEnvironment ==
  ASSUME TypeOK, NEW op \in Operators, NEW e, plan' = [plan EXCEPT ![op].environment = e]
  PROVE  /\ plan'[op].collection = plan[op].collection
         /\ plan'[op].environment = e
         /\ plan'[op].collectionAction = plan[op].collectionAction
         /\ plan'[op].environmentAction = plan[op].environmentAction
BY DEF TypeOK, RemotePlan

LEMMA SetCollectionAction ==
  ASSUME TypeOK, NEW op \in Operators, NEW a, plan' = [plan EXCEPT ![op].collectionAction = a]
  PROVE  /\ plan'[op].collection = plan[op].collection
         /\ plan'[op].environment = plan[op].environment
         /\ plan'[op].collectionAction = a
         /\ plan'[op].environmentAction = plan[op].environmentAction
BY DEF TypeOK, RemotePlan

LEMMA SetEnvironmentAction ==
  ASSUME TypeOK, NEW op \in Operators, NEW a, plan' = [plan EXCEPT ![op].environmentAction = a]
  PROVE  /\ plan'[op].collection = plan[op].collection
         /\ plan'[op].environment = plan[op].environment
         /\ plan'[op].collectionAction = plan[op].collectionAction
         /\ plan'[op].environmentAction = a
BY DEF TypeOK, RemotePlan

\* While no two commands overlapped, a command under way is the only one.
LEMMA OnlyOne ==
  ASSUME IInv, NEW op \in Operators, pc[op] # "idle", UNCHANGED counts
  PROVE  ~overlapped' => /\ ~overlapped /\ Undisturbed
                         /\ \A o \in Operators \ {op} : Idle(o)
BY DEF IInv, Undisturbed, Idle, counts

\* A step that only moves on, or looks at the workspace.
LEMMA MoveKeeps ==
  ASSUME IInv, NEW op \in Operators, ReadWorkspace(op) \/ RereadWorkspace(op) \/ Raise(op)
  PROVE  IInv'
<1>1. TypeOK /\ TypeOK' /\ Others(op)
  BY ReadTypeOK, StepOthers DEF IInv, Step
<1>2. /\ UNCHANGED <<remote, counts>> /\ pc[op] # "idle"
      /\ UNCHANGED <<unread, marked, plan, touched>>
  BY DEF ReadWorkspace, RereadWorkspace, Raise
<1>3. /\ UNCHANGED <<collections, environments, bound, published, overlapped, renamed>>
      /\ Existing(collections)' = Existing(collections) /\ MarkedOnes' = MarkedOnes
      /\ Here' = Here
  BY <1>2 DEF remote, counts, Existing, MarkedOnes, Here
<1>4. \/ pc[op] = "workspace" /\ pc'[op] = "collections"
      \/ pc[op] = "membership" /\ pc'[op] = "bound"
      \/ pc'[op] = "idle"
  BY <1>1 DEF TypeOK, ReadWorkspace, RereadWorkspace, Raise, Goto
<1>5. view'[op] = "present" \/ pc'[op] = "bound" => view[op] = "present" \/ bound \in Here
  BY <1>1 DEF TypeOK, ReadWorkspace, RereadWorkspace, Raise, Goto, WorkspaceViews
<1>6. Sound(op)
  BY DEF IInv
<1>7. Sound(op)'
  BY <1>2, <1>3, <1>4, <1>5, <1>6
     DEF Sound, Grounded, BoundKnown, Delivered, Listed, Settled, Inspected
<1>8. ~overlapped' => /\ ~overlapped /\ Knows(op)'
                      /\ \A o \in Operators \ {op} : Idle(o)
  BY <1>2, <1>3, <1>4, OnlyOne DEF Undisturbed, Knows, Listed
<1>9. "collection" \notin renamed => Unmarked(op)'
  BY <1>2, <1>3, <1>4 DEF IInv, OneCollection, Unmarked, Listed
<1>10. \A x : (Picks(op, x)' => Picks(op, x)) /\ (PicksEnvironment(op, x)' => PicksEnvironment(op, x))
  BY <1>2, <1>4 DEF Picks, PicksEnvironment, Listed, Settled
<1> QED BY <1>1, <1>2, <1>3, <1>7, <1>8, <1>9, <1>10, QuietKeeps

\* A plan begins.
LEMMA BeginKeeps ==
  ASSUME IInv, NEW op \in Operators, Start(op) \/ Synced(op)
  PROVE  IInv'
<1>1. TypeOK /\ TypeOK' /\ Others(op)
  BY BeginTypeOK, StepOthers DEF IInv, Step
<1>2. UNCHANGED <<remote, renamed>>
  BY DEF Start, Synced, counts
<1>3. /\ UNCHANGED <<collections, environments, bound, published>>
      /\ Existing(collections)' = Existing(collections) /\ MarkedOnes' = MarkedOnes
      /\ Here' = Here
  BY <1>2 DEF remote, Existing, MarkedOnes, Here
<1>4. \/ /\ pc'[op] = "workspace" /\ plan'[op] = NewPlan /\ view'[op] = "omitted"
         /\ unread'[op] = {} /\ marked'[op] = {}
      \/ /\ pc'[op] = "idle" /\ UNCHANGED <<plan, unread, marked, touched, view>>
  BY <1>1 DEF TypeOK, Start, Synced, BeginPlan, Goto
<1>5. Sound(op)
  BY DEF IInv
<1>6. Sound(op)'
  BY <1>3, <1>4, <1>5
     DEF Sound, Grounded, BoundKnown, Delivered, NewPlan, Listed, Settled, Inspected
<1>7. ~overlapped' => ~overlapped /\ \A o \in Operators \ {op} : Idle(o)
  <2>1. CASE Start(op)
    BY <1>1, <2>1 DEF TypeOK, Start, Idle
  <2>2. CASE Synced(op)
    BY <2>2, OnlyOne DEF Synced
  <2> QED BY <2>1, <2>2
<1>8. Knows(op)' /\ Unmarked(op)'
  BY <1>4 DEF Knows, Unmarked, Listed
<1>9. \A x : ~Picks(op, x)' /\ ~PicksEnvironment(op, x)'
  BY <1>4 DEF Picks, PicksEnvironment, Listed, Settled
<1> QED BY <1>1, <1>2, <1>6, <1>7, <1>8, <1>9, QuietKeeps

LEMMA ListCollectionsKeeps ==
  ASSUME IInv, NEW op \in Operators, ListCollections(op)
  PROVE  IInv'
<1>1. TypeOK /\ TypeOK' /\ Others(op)
  BY ReadTypeOK, StepOthers DEF IInv, Step
<1>2. UNCHANGED <<remote, counts, view, marked, touched>> /\ pc[op] = "collections"
  BY DEF ListCollections
<1>3. /\ UNCHANGED <<collections, environments, bound, published, overlapped, renamed>>
      /\ Existing(collections)' = Existing(collections) /\ MarkedOnes' = MarkedOnes
      /\ Here' = Here
  BY <1>2 DEF remote, counts, Existing, MarkedOnes, Here
<1>4. PICK c \in IF Named(collections) = {} THEN {None} ELSE Named(collections) :
         plan' = [plan EXCEPT ![op].collection = c]
  BY DEF ListCollections
<1>5. /\ plan'[op].collection = c
      /\ plan'[op].environment = plan[op].environment
      /\ plan'[op].collectionAction = plan[op].collectionAction
      /\ plan'[op].environmentAction = plan[op].environmentAction
  BY <1>1, <1>4, SetCollection
<1>6. pc'[op] = "environments" /\ unread'[op] = Existing(collections)
  BY <1>1 DEF TypeOK, ListCollections, Goto
<1>7. Named(collections) \subseteq Existing(collections) /\ Existing(collections) \subseteq CollectionIds
  BY <1>1, ExistingType
<1>8. Sound(op)
  BY DEF IInv
<1>9. Sound(op)'
  <2>1. Grounded(op)'
    BY <1>2, <1>3, <1>4, <1>5, <1>6, <1>7, <1>8 DEF Sound, Grounded, Listed, Inspected
  <2>2. BoundKnown(op)'
    BY <1>2, <1>3, <1>5, <1>6, <1>8 DEF Sound, BoundKnown, Settled
  <2>3. Delivered(op)'
    BY <1>6 DEF Delivered, Settled, Inspected
  <2> QED BY <2>1, <2>2, <2>3 DEF Sound
<1>10. ~overlapped' => /\ ~overlapped /\ Knows(op)'
                       /\ \A o \in Operators \ {op} : Idle(o)
  <2>1. Knows(op)'
    BY <1>3, <1>6 DEF Knows, MarkedOnes
  <2> QED BY <1>2, <2>1, OnlyOne
<1>11. Named(collections) # {} => Named(collections) = {c}
  <2>1. IsFiniteSet(Named(collections))
    BY <1>7, FS_Subset
  <2>2. Unambiguous(Named(collections))
    BY DEF ListCollections
  <2> QED BY <1>4, <2>1, <2>2, UnambiguousIsOne
<1>12. ASSUME "collection" \notin renamed PROVE Unmarked(op)'
  <2> SUFFICES ASSUME plan'[op].collection = None PROVE marked'[op] = {} /\ MarkedOnes = {}
    BY <1>3, <1>6 DEF Unmarked
  <2>1. Named(collections) = {}
    BY <1>4, <1>5, <1>7
  <2>2. MarkedOnes = {}
    BY <1>12, <2>1 DEF IInv, OneCollection
  <2>3. marked[op] = {}
    BY <1>2, <1>8 DEF Sound, Grounded
  <2> QED BY <1>2, <2>2, <2>3
<1>13. \A d \in CollectionIds : Picks(op, d)' => Named(collections) = {d}
  BY <1>4, <1>5, <1>11 DEF Picks
<1>14. \A e : ~PicksEnvironment(op, e)'
  BY <1>6 DEF PicksEnvironment, Settled
<1> QED BY <1>1, <1>2, <1>3, <1>9, <1>10, <1>12, <1>13, <1>14, QuietKeeps

LEMMA ListEnvironmentsKeeps ==
  ASSUME IInv, NEW op \in Operators, ListEnvironments(op)
  PROVE  IInv'
<1>1. TypeOK /\ TypeOK' /\ Others(op)
  BY ReadTypeOK, StepOthers DEF IInv, Step
<1>2. UNCHANGED <<remote, counts, view, unread, marked, touched>> /\ pc[op] = "environments"
  BY DEF ListEnvironments
<1>3. /\ UNCHANGED <<collections, environments, bound, published, overlapped, renamed>>
      /\ Existing(collections)' = Existing(collections) /\ MarkedOnes' = MarkedOnes
      /\ Here' = Here
  BY <1>2 DEF remote, counts, Existing, MarkedOnes, Here
<1>4. PICK shown \in {Here, Here \ {bound}} :
         LET found == Named(environments) \cap shown
         IN /\ Unambiguous(found)
            /\ bound # None => found \subseteq {bound}
            /\ \E e \in IF found = {} THEN {None} ELSE found :
                 plan' = [plan EXCEPT ![op].environment = e]
            /\ \/ /\ bound = None \/ (found # {} /\ view[op] # "absent")
                  /\ Goto(op, AfterInventory(op))
               \/ /\ bound # None /\ found = {}
                  /\ view[op] = "present"
                  /\ Goto(op, "bound")
               \/ /\ bound # None /\ found = {}
                  /\ view[op] = "omitted"
                  /\ Goto(op, "membership")
  BY DEF ListEnvironments
<1> DEFINE found == Named(environments) \cap shown
<1>5. PICK e \in IF found = {} THEN {None} ELSE found :
         plan' = [plan EXCEPT ![op].environment = e]
  BY <1>4
<1>6. /\ plan'[op].collection = plan[op].collection
      /\ plan'[op].environment = e
      /\ plan'[op].collectionAction = plan[op].collectionAction
      /\ plan'[op].environmentAction = plan[op].environmentAction
  BY <1>1, <1>5, SetEnvironment
<1>7. found \subseteq Here /\ Here \subseteq Existing(environments)
      /\ Existing(environments) \subseteq EnvironmentIds
  BY <1>1, ExistingType
<1>8. /\ Unambiguous(found)
      /\ bound # None => found \subseteq {bound}
      /\ \/ /\ bound = None \/ found # {}
            /\ pc'[op] = IF plan[op].collection = None THEN "markers" ELSE "collection"
         \/ bound # None /\ found = {} /\ view[op] = "present" /\ pc'[op] = "bound"
         \/ bound # None /\ found = {} /\ pc'[op] = "membership"
  BY <1>1, <1>4 DEF TypeOK, Goto, AfterInventory
<1> HIDE DEF found
<1>9. Sound(op)
  BY DEF IInv
<1>10. e = None \/ e \in Here
  BY <1>5, <1>7
<1>11. bound # None => e \in {None, bound} /\ (found # {} => e = bound)
  BY <1>5, <1>8
<1>12. Sound(op)'
  <2>1. Grounded(op)'
    BY <1>2, <1>3, <1>6, <1>8, <1>9, <1>10 DEF Sound, Grounded, Listed, Inspected
  <2>2. BoundKnown(op)'
    BY <1>2, <1>3, <1>6, <1>8, <1>9, <1>10, <1>11 DEF Sound, BoundKnown, Settled
  <2>3. plan'[op].environmentAction = "create"
    BY <1>2, <1>6, <1>9 DEF Sound, Grounded
  <2>4. Delivered(op)'
    BY <1>8, <2>3 DEF Delivered, Settled, Inspected
  <2> QED BY <2>1, <2>2, <2>4 DEF Sound
<1>13. ~overlapped' => /\ ~overlapped /\ Knows(op)'
                       /\ \A o \in Operators \ {op} : Idle(o)
  <2>1. Knows(op) => Knows(op)'
    BY <1>2, <1>3, <1>6, <1>8 DEF Knows, Listed
  <2> QED BY <1>2, <2>1, OnlyOne DEF Undisturbed
<1>14. "collection" \notin renamed => Unmarked(op)'
  BY <1>2, <1>3, <1>6, <1>8 DEF IInv, OneCollection, Unmarked, Listed
<1>15. \A c : Picks(op, c)' => Picks(op, c)
  BY <1>2, <1>6 DEF Picks, Listed
<1>16. ASSUME "environment" \notin renamed, NEW d \in EnvironmentIds, PicksEnvironment(op, d)'
       PROVE  Existing(environments) = {d}
  <2>1. d = e /\ e # None
    BY <1>6, <1>16, IdsAssumption DEF PicksEnvironment
  <2>2. e \in Existing(environments)
    BY <1>7, <1>10, <2>1
  <2>3. CASE bound = None
    <3>1. Existing(environments) \subseteq Here /\ Existing(environments) \subseteq Named(environments)
      BY <1>16, <2>3 DEF IInv, InPlace, OneEnvironment
    <3>2. Here \ {bound} = Here
      BY <1>7, <2>3, IdsAssumption
    <3>3. found = Existing(environments)
      BY <1>4, <1>7, <3>1, <3>2 DEF found
    <3>4. IsFiniteSet(found)
      BY <1>7, <3>3, FS_Subset, IdsAssumption
    <3>5. \A x \in found : x = e
      BY <1>8, <2>2, <3>3, <3>4, UnambiguousIsOne
    <3> QED BY <2>1, <2>2, <3>3, <3>5
  <2>4. CASE bound # None
    <3>1. Existing(environments) \subseteq {bound}
      BY <2>4 DEF IInv, InPlace
    <3> QED BY <2>1, <2>2, <3>1
  <2> QED BY <2>3, <2>4
<1> QED BY <1>1, <1>2, <1>3, <1>12, <1>13, <1>14, <1>15, <1>16, QuietKeeps

LEMMA InspectBoundKeeps ==
  ASSUME IInv, NEW op \in Operators, InspectBound(op)
  PROVE  IInv'
<1>1. TypeOK /\ TypeOK' /\ Others(op)
  BY ReadTypeOK, StepOthers DEF IInv, Step
<1>2. UNCHANGED <<remote, counts, view, unread, marked, touched>> /\ pc[op] = "bound"
  BY DEF InspectBound
<1>3. /\ UNCHANGED <<collections, environments, bound, published, overlapped, renamed>>
      /\ Existing(collections)' = Existing(collections) /\ MarkedOnes' = MarkedOnes
      /\ Here' = Here
  BY <1>2 DEF remote, counts, Existing, MarkedOnes, Here
<1>4. /\ plan'[op].collection = plan[op].collection
      /\ plan'[op].environment = bound
      /\ plan'[op].collectionAction = plan[op].collectionAction
      /\ plan'[op].environmentAction = EnvironmentAction(bound)
  BY <1>1 DEF TypeOK, RemotePlan, InspectBound
<1>5. pc'[op] = IF plan[op].collection = None THEN "markers" ELSE "collection"
  BY <1>1 DEF TypeOK, InspectBound, Goto, AfterInventory
<1>6. Sound(op)
  BY DEF IInv
<1>7. bound \in Here /\ bound # None
  BY <1>2, <1>6 DEF Sound, BoundKnown
<1>8. bound \in EnvironmentIds /\ environments[bound] \in Environment /\ environments[bound].here
  BY <1>1, <1>7, ExistingType DEF Here
<1>9. EnvironmentAction(bound) = "unchanged" => environments[bound] = TheEnvironment
  <2>1. environments[bound].named
    BY DEF InspectBound, Acceptable
  <2>2. EnvironmentAction(bound) = "unchanged" => environments[bound].content = "wanted"
    BY DEF EnvironmentAction
  <2> QED BY <1>8, <2>1, <2>2 DEF Environment, TheEnvironment
<1>10. EnvironmentAction(bound) # "create"
  BY DEF EnvironmentAction
<1>11. Sound(op)'
  <2>1. Grounded(op)'
    BY <1>2, <1>3, <1>4, <1>5, <1>6, <1>7 DEF Sound, Grounded, Listed, Inspected
  <2>2. BoundKnown(op)'
    BY <1>2, <1>3, <1>4, <1>5, <1>7 DEF BoundKnown, Settled
  <2>3. Delivered(op)'
    BY <1>3, <1>4, <1>5, <1>9 DEF Delivered, Settled, Inspected
  <2> QED BY <2>1, <2>2, <2>3 DEF Sound
<1>12. ~overlapped' => /\ ~overlapped /\ Knows(op)'
                       /\ \A o \in Operators \ {op} : Idle(o)
  <2>1. Knows(op) => Knows(op)'
    BY <1>2, <1>3, <1>4, <1>5 DEF Knows, Listed
  <2> QED BY <1>2, <2>1, OnlyOne DEF Undisturbed
<1>13. "collection" \notin renamed => Unmarked(op)'
  BY <1>2, <1>3, <1>4, <1>5 DEF IInv, OneCollection, Unmarked, Listed
<1>14. \A c : Picks(op, c)' => Picks(op, c)
  BY <1>2, <1>4 DEF Picks, Listed
<1>15. \A d : PicksEnvironment(op, d)' => Existing(environments) = {d}
  <2>1. Existing(environments) = {bound}
    BY <1>7 DEF IInv, InPlace, Here
  <2> QED BY <1>4, <2>1 DEF PicksEnvironment
<1> QED BY <1>1, <1>2, <1>3, <1>11, <1>12, <1>13, <1>14, <1>15, QuietKeeps

LEMMA ReadMarkerKeeps ==
  ASSUME IInv, NEW op \in Operators, ReadMarker(op)
  PROVE  IInv'
<1>1. TypeOK /\ TypeOK' /\ Others(op)
  BY ReadTypeOK, StepOthers DEF IInv, Step
<1>2. UNCHANGED <<remote, counts, pc, view, plan, touched>> /\ pc[op] = "markers"
  BY DEF ReadMarker
<1>3. /\ UNCHANGED <<collections, environments, bound, published, overlapped, renamed>>
      /\ Existing(collections)' = Existing(collections) /\ MarkedOnes' = MarkedOnes
      /\ Here' = Here
  BY <1>2 DEF remote, counts, Existing, MarkedOnes, Here
<1>4. PICK c \in unread[op] :
         /\ unread' = [unread EXCEPT ![op] = @ \ {c}]
         /\ marked' = [marked EXCEPT ![op] = IF collections[c].marked THEN @ \cup {c} ELSE @]
  BY DEF ReadMarker
<1>5. /\ unread'[op] = unread[op] \ {c}
      /\ marked'[op] = IF collections[c].marked THEN marked[op] \cup {c} ELSE marked[op]
  BY <1>1, <1>4 DEF TypeOK
<1>6. Sound(op) /\ c \in Existing(collections)
  BY <1>4 DEF IInv, Sound, Grounded
<1>7. c \in MarkedOnes <=> collections[c].marked
  BY <1>6 DEF MarkedOnes
<1>8. Sound(op)'
  BY <1>2, <1>3, <1>5, <1>6
     DEF Sound, Grounded, BoundKnown, Delivered, Listed, Settled, Inspected
<1>9. ~overlapped' => /\ ~overlapped /\ Knows(op)'
                      /\ \A o \in Operators \ {op} : Idle(o)
  <2>1. Knows(op) => Knows(op)'
    BY <1>2, <1>3, <1>5, <1>7 DEF Knows, Listed
  <2> QED BY <1>2, <2>1, OnlyOne DEF Undisturbed
<1>10. "collection" \notin renamed => Unmarked(op)'
  BY <1>2, <1>3, <1>4, <1>5, <1>7 DEF IInv, OneCollection, Unmarked, Listed
<1>11. \A x : (Picks(op, x)' => Picks(op, x)) /\ (PicksEnvironment(op, x)' => PicksEnvironment(op, x))
  BY <1>2 DEF Picks, PicksEnvironment
<1> QED BY <1>1, <1>2, <1>3, <1>8, <1>9, <1>10, <1>11, QuietKeeps

LEMMA AdoptMarkedKeeps ==
  ASSUME IInv, NEW op \in Operators, AdoptMarked(op)
  PROVE  IInv'
<1>1. TypeOK /\ TypeOK' /\ Others(op)
  BY ReadTypeOK, StepOthers DEF IInv, Step
<1>2. /\ UNCHANGED <<remote, counts, view, unread, marked, touched>>
      /\ pc[op] = "markers" /\ unread[op] = {}
  BY DEF AdoptMarked
<1>3. /\ UNCHANGED <<collections, environments, bound, published, overlapped, renamed>>
      /\ Existing(collections)' = Existing(collections) /\ MarkedOnes' = MarkedOnes
      /\ Here' = Here
  BY <1>2 DEF remote, counts, Existing, MarkedOnes, Here
<1>4. PICK c \in IF marked[op] = {} THEN {None} ELSE marked[op] :
         plan' = [plan EXCEPT ![op].collection = c]
  BY DEF AdoptMarked
<1>5. /\ plan'[op].collection = c
      /\ plan'[op].environment = plan[op].environment
      /\ plan'[op].collectionAction = plan[op].collectionAction
      /\ plan'[op].environmentAction = plan[op].environmentAction
  BY <1>1, <1>4, SetCollection
<1>6. pc'[op] = "collection"
  BY <1>1 DEF TypeOK, AdoptMarked, Goto
<1>7. Sound(op)
  BY DEF IInv
<1>8. Sound(op)'
  <2>1. c \in Existing(collections) \/ c = None
    BY <1>4, <1>7 DEF Sound, Grounded
  <2>2. Grounded(op)'
    BY <1>2, <1>3, <1>5, <1>6, <1>7, <2>1 DEF Sound, Grounded, Listed, Inspected
  <2>3. BoundKnown(op)' /\ Delivered(op)'
    BY <1>2, <1>3, <1>5, <1>6, <1>7 DEF Sound, BoundKnown, Delivered, Settled, Inspected
  <2> QED BY <2>2, <2>3 DEF Sound
<1>9. c = None => marked[op] = {}
  <2>1. None \notin marked[op]
    BY <1>1 DEF TypeOK
  <2> QED BY <1>4, <2>1
<1>10. ~overlapped' => /\ ~overlapped /\ Knows(op)'
                       /\ \A o \in Operators \ {op} : Idle(o)
  <2>1. Knows(op) => Knows(op)'
    BY <1>2, <1>3, <1>5, <1>6, <1>9 DEF Knows, Listed
  <2> QED BY <1>2, <2>1, OnlyOne DEF Undisturbed
<1>11. Unmarked(op)'
  BY <1>6 DEF Unmarked, Listed
<1>12. ASSUME "collection" \notin renamed, NEW d \in CollectionIds, Picks(op, d)'
       PROVE  Picks(op, d)
  <2>1. d = c
    BY <1>5, <1>12 DEF Picks
  <2>2. Unmarked(op)
    BY <1>12 DEF IInv, OneCollection
  <2>3. plan[op].collection = None
    BY <1>2, <1>7 DEF Sound, Grounded
  <2>4. marked[op] = {}
    BY <1>2, <2>2, <2>3 DEF Unmarked, Listed
  <2> QED BY <1>4, <2>1, <2>4, IdsAssumption
<1>13. \A e : PicksEnvironment(op, e)' => PicksEnvironment(op, e)
  BY <1>2, <1>5 DEF PicksEnvironment, Settled
<1> QED BY <1>1, <1>2, <1>3, <1>8, <1>10, <1>11, <1>12, <1>13, QuietKeeps

LEMMA InspectCollectionKeeps ==
  ASSUME IInv, NEW op \in Operators, InspectCollection(op)
  PROVE  IInv'
<1>1. TypeOK /\ TypeOK' /\ Others(op)
  BY ReadTypeOK, StepOthers DEF IInv, Step
<1>2. /\ UNCHANGED <<remote, counts, view, unread, marked, touched>>
      /\ pc[op] = "collection"
  BY DEF InspectCollection
<1>3. /\ UNCHANGED <<collections, environments, bound, published, overlapped, renamed>>
      /\ Existing(collections)' = Existing(collections) /\ MarkedOnes' = MarkedOnes
      /\ Here' = Here
  BY <1>2 DEF remote, counts, Existing, MarkedOnes, Here
<1> DEFINE c == plan[op].collection
           a == IF c = None THEN "create"
                ELSE IF collections[c] = ThePublication THEN "unchanged" ELSE "update"
<1>4. /\ c # None => collections[c].marked
      /\ plan' = [plan EXCEPT ![op].collectionAction = a]
  BY DEF InspectCollection
<1>5. /\ plan'[op].collection = c
      /\ plan'[op].environment = plan[op].environment
      /\ plan'[op].collectionAction = a
      /\ plan'[op].environmentAction = plan[op].environmentAction
  <2> HIDE DEF a
  <2> QED BY <1>1, <1>4, SetCollectionAction
<1>6. pc'[op] = "environment"
  BY <1>1 DEF TypeOK, InspectCollection, Goto
<1>7. Sound(op)
  BY DEF IInv
<1>8. c # None => c \in MarkedOnes
  BY <1>4, <1>7 DEF Sound, Grounded, MarkedOnes
<1>9. Sound(op)'
  <2>1. Grounded(op)'
    BY <1>2, <1>3, <1>5, <1>6, <1>7, <1>8 DEF Sound, Grounded, Listed, Inspected
  <2>2. BoundKnown(op)'
    BY <1>2, <1>3, <1>5, <1>6, <1>7 DEF Sound, BoundKnown, Settled
  <2>3. Delivered(op)'
    BY <1>2, <1>3, <1>5, <1>6, <1>7 DEF Sound, Delivered, Settled, Inspected
  <2> QED BY <2>1, <2>2, <2>3 DEF Sound
<1>10. ~overlapped' => /\ ~overlapped /\ Knows(op)'
                       /\ \A o \in Operators \ {op} : Idle(o)
  <2>1. Knows(op) => Knows(op)'
    BY <1>2, <1>3, <1>5, <1>6 DEF Knows, Listed
  <2> QED BY <1>2, <2>1, OnlyOne DEF Undisturbed
<1>11. Unmarked(op)'
  BY <1>6 DEF Unmarked, Listed
<1>12. \A x : (Picks(op, x)' => Picks(op, x)) /\ (PicksEnvironment(op, x)' => PicksEnvironment(op, x))
  BY <1>2, <1>5 DEF Picks, PicksEnvironment, Settled
<1> QED BY <1>1, <1>2, <1>3, <1>9, <1>10, <1>11, <1>12, QuietKeeps

LEMMA InspectEnvironmentKeeps ==
  ASSUME IInv, NEW op \in Operators, InspectEnvironment(op)
  PROVE  IInv'
<1>1. TypeOK /\ TypeOK' /\ Others(op)
  BY ReadTypeOK, StepOthers DEF IInv, Step
<1>2. /\ UNCHANGED <<remote, counts, view, unread, marked, touched>>
      /\ pc[op] = "environment"
  BY DEF InspectEnvironment
<1>3. /\ UNCHANGED <<collections, environments, bound, published, overlapped, renamed>>
      /\ Existing(collections)' = Existing(collections) /\ MarkedOnes' = MarkedOnes
      /\ Here' = Here
  BY <1>2 DEF remote, counts, Existing, MarkedOnes, Here
<1> DEFINE e == plan[op].environment
<1>4. pc'[op] = "planned"
  BY <1>1 DEF TypeOK, InspectEnvironment, Goto
<1>5. Sound(op)
  BY DEF IInv
<1>6. /\ plan'[op].collection = plan[op].collection
      /\ plan'[op].environment = e
      /\ plan'[op].collectionAction = plan[op].collectionAction
      /\ e # None => plan'[op].environmentAction # "create"
      /\ e = None => plan'[op].environmentAction = plan[op].environmentAction
      /\ \/ plan'[op].environmentAction = plan[op].environmentAction
         \/ plan'[op].environmentAction = "unchanged" => environments[e] = TheEnvironment
  <2>1. CASE e = None \/ plan[op].environmentAction # "create"
    BY <2>1 DEF InspectEnvironment
  <2>2. CASE ~(e = None \/ plan[op].environmentAction # "create")
    <3>1. /\ Acceptable(e)
          /\ plan' = [plan EXCEPT ![op].environmentAction = EnvironmentAction(e)]
      BY <2>2 DEF InspectEnvironment
    <3>2. e \in Here /\ environments[e] \in Environment
      BY <1>1, <1>5, <2>2, ExistingType DEF Sound, Grounded
    <3>3. EnvironmentAction(e) = "unchanged" => environments[e] = TheEnvironment
      <4>1. environments[e].named /\ environments[e].here
        BY <3>1, <3>2 DEF Acceptable, Here
      <4>2. EnvironmentAction(e) = "unchanged" => environments[e].content = "wanted"
        BY DEF EnvironmentAction
      <4> QED BY <3>2, <4>1, <4>2 DEF Environment, TheEnvironment
    <3>4. EnvironmentAction(e) # "create"
      BY DEF EnvironmentAction
    <3>5. /\ plan'[op].collection = plan[op].collection
          /\ plan'[op].environment = e
          /\ plan'[op].collectionAction = plan[op].collectionAction
          /\ plan'[op].environmentAction = EnvironmentAction(e)
      BY <1>1, <3>1, SetEnvironmentAction
    <3> QED BY <2>2, <3>3, <3>4, <3>5
  <2> QED BY <2>1, <2>2
<1>7. Sound(op)'
  <2>1. Grounded(op)'
    BY <1>2, <1>3, <1>4, <1>5, <1>6 DEF Sound, Grounded, Listed, Inspected
  <2>2. BoundKnown(op)'
    BY <1>2, <1>3, <1>4, <1>5, <1>6 DEF Sound, BoundKnown, Settled
  <2>3. Delivered(op)'
    BY <1>2, <1>3, <1>4, <1>5, <1>6 DEF Sound, Delivered, Settled, Inspected
  <2> QED BY <2>1, <2>2, <2>3 DEF Sound
<1>8. ~overlapped' => /\ ~overlapped /\ Knows(op)'
                      /\ \A o \in Operators \ {op} : Idle(o)
  <2>1. Knows(op) => Knows(op)'
    BY <1>2, <1>3, <1>4, <1>6 DEF Knows, Listed
  <2> QED BY <1>2, <2>1, OnlyOne DEF Undisturbed
<1>9. Unmarked(op)'
  BY <1>4 DEF Unmarked, Listed
<1>10. \A x : (Picks(op, x)' => Picks(op, x)) /\ (PicksEnvironment(op, x)' => PicksEnvironment(op, x))
  BY <1>2, <1>4, <1>6 DEF Picks, PicksEnvironment, Settled
<1> QED BY <1>1, <1>2, <1>3, <1>7, <1>8, <1>9, <1>10, QuietKeeps

-----------------------------------------------------------------------------
(* Writes to Postman.                                                        *)

\* The publication written to a collection, a new one or a marked one.
LEMMA CollectionWritten ==
  ASSUME TypeOK, NEW c \in CollectionIds, c \notin Existing(collections) \/ c \in MarkedOnes,
         collections' = [collections EXCEPT ![c] = ThePublication]
  PROVE  /\ Existing(collections)' = Existing(collections) \cup {c}
         /\ MarkedOnes' = MarkedOnes \cup {c}
         /\ Named(collections)' = Named(collections) \cup {c}
         /\ \A d : collections[d] = ThePublication => collections'[d] = ThePublication
         /\ collections'[c] = ThePublication
<1>1. collections' \in [CollectionIds -> Collection \cup {None}]
      /\ DOMAIN collections = CollectionIds /\ DOMAIN collections' = CollectionIds
  <2>1. ThePublication \in Collection
    BY DEF ThePublication, Collection, Contents
  <2> QED BY <2>1 DEF TypeOK
<1>2. collections'[c] = ThePublication /\ \A d \in CollectionIds \ {c} : collections'[d] = collections[d]
  BY <1>1
<1>3. ThePublication # None /\ ThePublication.named = TRUE /\ ThePublication.marked = TRUE
  <2>1. ThePublication \in Collection
    BY DEF ThePublication, Collection, Contents
  <2> QED BY <2>1 DEF ThePublication
<1>4. Existing(collections)' = Existing(collections) \cup {c}
  BY <1>1, <1>2, <1>3 DEF Existing
<1>5. MarkedOnes' = MarkedOnes \cup {c}
  BY <1>1, <1>2, <1>3, <1>4 DEF MarkedOnes, Existing
<1>6. Named(collections)' = Named(collections) \cup {c}
  BY <1>1, <1>2, <1>3, <1>4 DEF Named, Existing
<1>7. \A d : collections[d] = ThePublication => collections'[d] = ThePublication
  BY DEF TypeOK
<1> QED BY <1>2, <1>4, <1>5, <1>6, <1>7

LEMMA EnvironmentWritten ==
  ASSUME TypeOK, NEW e \in EnvironmentIds, NEW k, k = TheEnvironment,
         environments' = [environments EXCEPT ![e] = k]
  PROVE  /\ Existing(environments)' = Existing(environments) \cup {e}
         /\ Here' = Here \cup {e}
         /\ Named(environments)' = Named(environments) \cup {e}
         /\ \A d : environments[d] = TheEnvironment => environments'[d] = TheEnvironment
         /\ environments'[e] = TheEnvironment
<1>1. environments' \in [EnvironmentIds -> Environment \cup {None}]
      /\ DOMAIN environments = EnvironmentIds /\ DOMAIN environments' = EnvironmentIds
  <2>1. TheEnvironment \in Environment
    BY DEF TheEnvironment, Environment, Contents
  <2> QED BY <2>1 DEF TypeOK
<1>2. environments'[e] = TheEnvironment
      /\ \A d \in EnvironmentIds \ {e} : environments'[d] = environments[d]
  BY <1>1
<1>3. TheEnvironment # None /\ TheEnvironment.named = TRUE /\ TheEnvironment.here = TRUE
  <2>1. TheEnvironment \in Environment
    BY DEF TheEnvironment, Environment, Contents
  <2> QED BY <2>1 DEF TheEnvironment
<1>4. Existing(environments)' = Existing(environments) \cup {e}
  BY <1>1, <1>2, <1>3 DEF Existing
<1>5. Here' = Here \cup {e}
  BY <1>1, <1>2, <1>3, <1>4 DEF Here, Existing
<1>6. Named(environments)' = Named(environments) \cup {e}
  BY <1>1, <1>2, <1>3, <1>4 DEF Named, Existing
<1>7. \A d : environments[d] = TheEnvironment => environments'[d] = TheEnvironment
  BY DEF TypeOK
<1> QED BY <1>2, <1>4, <1>5, <1>6, <1>7

LEMMA ApplyCollectionKeeps ==
  ASSUME IInv, NEW op \in Operators, ApplyCollection(op)
  PROVE  IInv'
<1>1. TypeOK /\ TypeOK' /\ Others(op) /\ Sound(op)
  BY WriteTypeOK, StepOthers DEF IInv, Step, Sound
<1>2. /\ UNCHANGED <<environments, bound, published, counts, view, unread, marked, touched>>
      /\ pc[op] = "planned"
  BY DEF ApplyCollection
<1>3. Here' = Here /\ Existing(environments)' = Existing(environments) /\ InPlace'
      /\ Named(environments)' = Named(environments) /\ UNCHANGED <<overlapped, renamed>>
  BY <1>2 DEF IInv, InPlace, Here, Existing, Named, counts
<1> DEFINE Written(c) == /\ collections' = [collections EXCEPT ![c] = ThePublication]
                         /\ \/ c \notin Existing(collections) /\ plan[op].collection = None
                            \/ c \in MarkedOnes
<1>4. collections' = collections \/ \E c \in CollectionIds : Written(c)
  <2>1. Existing(collections) \subseteq CollectionIds /\ MarkedOnes \subseteq Existing(collections)
    BY <1>1, ExistingType DEF MarkedOnes
  <2>2. \/ plan[op].collection = None /\ plan[op].collectionAction = "create"
        \/ plan[op].collection \in MarkedOnes /\ plan[op].collectionAction # "create"
    BY <1>1, <1>2 DEF Sound, Grounded, Inspected
  <2>3. CASE plan[op].collectionAction = "create"
    BY <2>2, <2>3 DEF ApplyCollection
  <2>4. CASE plan[op].collectionAction = "update"
    BY <2>1, <2>2, <2>4 DEF ApplyCollection
  <2> QED BY <2>3, <2>4 DEF ApplyCollection
<1>5. /\ Existing(collections) \subseteq Existing(collections)'
      /\ MarkedOnes \subseteq MarkedOnes'
      /\ \A d : collections[d] = ThePublication => collections'[d] = ThePublication
  BY <1>1, <1>4, CollectionWritten DEF Existing, MarkedOnes
<1>6. /\ plan'[op].environment = plan[op].environment
      /\ plan'[op].collectionAction = plan[op].collectionAction
      /\ plan'[op].environmentAction = plan[op].environmentAction
      /\ plan'[op].collection = plan[op].collection \/ plan'[op].collection \in Existing(collections)'
      /\ pc'[op] = "idle" \/ pc'[op] = "applied"
      /\ pc'[op] = "applied" /\ ~touched[op] => collections'[plan'[op].collection] = ThePublication
  <2>1. CASE plan[op].collectionAction = "create"
    <3>1. PICK c \in CollectionIds \ Existing(collections) :
             /\ collections' = [collections EXCEPT ![c] = ThePublication]
             /\ AnsweredOrLost(op, "applied", plan' = [plan EXCEPT ![op].collection = c])
      BY <2>1 DEF ApplyCollection
    <3>2. c \in Existing(collections)' /\ collections'[c] = ThePublication
      <4>1. c \in CollectionIds /\ c \notin Existing(collections)
        BY <3>1
      <4>2. collections' = [collections EXCEPT ![c] = ThePublication]
        BY <3>1
      <4>3. Existing(collections)' = Existing(collections) \cup {c}
        BY <1>1, <4>1, <4>2, CollectionWritten, Zenon
      <4>4. collections'[c] = ThePublication
        BY <1>1, <4>1, <4>2, CollectionWritten, Zenon
      <4> QED BY <4>3, <4>4
    <3>3. CASE plan' = [plan EXCEPT ![op].collection = c] /\ Goto(op, "applied")
      <4>1. /\ plan'[op].environment = plan[op].environment
            /\ plan'[op].collectionAction = plan[op].collectionAction
            /\ plan'[op].environmentAction = plan[op].environmentAction
            /\ plan'[op].collection = c
        BY <1>1, <3>3, SetCollection
      <4>2. pc'[op] = "applied"
        BY <1>1, <3>3 DEF TypeOK, Goto
      <4> QED BY <3>2, <4>1, <4>2
    <3>4. CASE Goto(op, "idle") /\ UNCHANGED plan
      BY <1>1, <3>4 DEF TypeOK, Goto
    <3> QED BY <3>1, <3>3, <3>4 DEF AnsweredOrLost
  <2>2. CASE plan[op].collectionAction = "update"
    <3>1. plan[op].collection \in CollectionIds
      BY <1>1, <2>2, ExistingType DEF Sound, Grounded
    <3>2. collections'[plan[op].collection] = ThePublication
      BY <1>1, <2>2, <3>1 DEF TypeOK, ApplyCollection
    <3>3. UNCHANGED plan /\ (pc'[op] = "idle" \/ pc'[op] = "applied")
      BY <1>1, <2>2 DEF TypeOK, ApplyCollection, AnsweredOrLost, Goto
    <3> QED BY <3>2, <3>3
  <2>3. CASE plan[op].collectionAction = "unchanged"
    <3>1. UNCHANGED <<plan, collections>> /\ pc'[op] = "applied"
      BY <1>1, <2>3 DEF TypeOK, ApplyCollection, Goto
    <3>2. ~touched[op] => collections[plan[op].collection] = ThePublication
      BY <1>1, <1>2, <2>3 DEF Sound, Delivered, Inspected
    <3> QED BY <3>1, <3>2
  <2> QED BY <2>1, <2>2, <2>3 DEF ApplyCollection
<1>7. Sound(op)'
  <2>1. Existing(collections)' \subseteq CollectionIds
    BY <1>1, ExistingType DEF TypeOK, Existing
  <2>2. Grounded(op)'
    BY <1>1, <1>2, <1>3, <1>5, <1>6, <2>1 DEF Sound, Grounded, Listed, Inspected
  <2>3. BoundKnown(op)'
    BY <1>1, <1>2, <1>3, <1>6 DEF Sound, BoundKnown, Settled
  <2>4. Delivered(op)'
    BY <1>1, <1>2, <1>6 DEF Sound, Delivered, Settled, Inspected
  <2> QED BY <2>2, <2>3, <2>4 DEF Sound
<1>8. \A o \in Operators \ {op} : Sound(o)'
  BY <1>1, <1>2, <1>3, <1>5
     DEF IInv, Others, Sound, Grounded, BoundKnown, Delivered, Listed, Settled, Inspected
<1>9. ~overlapped' => Undisturbed'
  <2> SUFFICES ASSUME ~overlapped' PROVE Undisturbed'
    OBVIOUS
  <2>1. Undisturbed /\ \A o \in Operators \ {op} : Idle(o)
    BY <1>2, OnlyOne
  <2>2. \A o \in Operators \ {op} : Idle(o)'
    BY <1>1, <2>1 DEF Others, Idle
  <2>3. \A o \in Operators : Knows(o)'
    BY <1>6, <2>2 DEF Knows, Idle, Listed
  <2>4. \A c, d \in MarkedOnes' : c = d
    <3>1. CASE collections' = collections
      BY <2>1, <3>1 DEF Undisturbed, MarkedOnes, Existing
    <3>2. ASSUME NEW c \in CollectionIds, Written(c)
          PROVE  \A x, y \in MarkedOnes' : x = y
      <4>1. MarkedOnes' = MarkedOnes \cup {c}
        BY <1>1, <3>2, CollectionWritten
      <4>2. c \notin MarkedOnes => MarkedOnes = {}
        BY <1>2, <2>1, <3>2 DEF Undisturbed, Knows
      <4> QED BY <2>1, <4>1, <4>2 DEF Undisturbed
    <3> QED BY <1>4, <3>1, <3>2
  <2> QED BY <2>2, <2>3, <2>4 DEF Undisturbed
<1>10. \A x : (ChosenCollection(x)' => ChosenCollection(x))
             /\ (ChosenEnvironment(x)' => ChosenEnvironment(x))
  BY <1>1, <1>2, <1>6 DEF Others, ChosenCollection, ChosenEnvironment, Picks, PicksEnvironment,
                    Listed, Settled
<1>11. "environment" \notin renamed' => OneEnvironment'
  BY <1>3, <1>10 DEF IInv, OneEnvironment
<1>12. "collection" \notin renamed' => OneCollection'
  <2> SUFFICES ASSUME "collection" \notin renamed PROVE OneCollection'
    BY <1>3
  <2>1. OneCollection
    BY DEF IInv
  <2>2. CASE collections' = collections
    <3>1. MarkedOnes' = MarkedOnes /\ Named(collections)' = Named(collections)
      BY <2>2 DEF MarkedOnes, Named, Existing
    <3>2. \A o \in Operators : Unmarked(o)'
      BY <1>1, <1>2, <1>6, <2>1, <3>1 DEF OneCollection, Others, Unmarked, Listed
    <3> QED BY <1>10, <2>1, <3>1, <3>2 DEF OneCollection
  <2>3. ASSUME NEW c \in CollectionIds, Written(c)
        PROVE  OneCollection'
    <3>1. MarkedOnes' = MarkedOnes \cup {c} /\ Named(collections)' = Named(collections) \cup {c}
      BY <1>1, <2>3, CollectionWritten
    <3>2. \A o \in Operators \ {op} : Unmarked(o)'
      <4>1. \A o \in Operators : c \notin unread[o] \/ c \in MarkedOnes
        BY <2>3 DEF IInv, Sound, Grounded
      <4> QED BY <1>1, <2>1, <3>1, <4>1 DEF OneCollection, Others, Unmarked
    <3>3. Unmarked(op)'
      BY <1>6 DEF Unmarked, Listed
    <3> QED BY <1>10, <2>1, <3>1, <3>2, <3>3 DEF OneCollection
  <2> QED BY <1>4, <2>2, <2>3
<1> QED BY <1>1, <1>3, <1>7, <1>8, <1>9, <1>11, <1>12 DEF IInv

\* What a PUT makes of an environment of the workspace.
LEMMA EnvironmentRewritten ==
  ASSUME NEW r \in Environment, r.here = TRUE
  PROVE  [r EXCEPT !.named = TRUE, !.content = "wanted"] = TheEnvironment
<1> DEFINE k == [r EXCEPT !.named = TRUE, !.content = "wanted"]
<1>1. /\ k \in [named : BOOLEAN, here : BOOLEAN, content : Contents]
      /\ k.named = TRUE /\ k.here = TRUE /\ k.content = "wanted"
  BY DEF Environment, Contents
<1> HIDE DEF k
<1>2. k = [named |-> TRUE, here |-> TRUE, content |-> "wanted"]
  BY <1>1
<1> QED BY <1>2 DEF TheEnvironment, k

LEMMA ApplyEnvironmentKeeps ==
  ASSUME IInv, NEW op \in Operators, ApplyEnvironment(op)
  PROVE  IInv'
<1>1. TypeOK /\ TypeOK' /\ Others(op) /\ Sound(op)
  BY WriteTypeOK, StepOthers DEF IInv, Step, Sound
<1>2. /\ UNCHANGED <<collections, bound, published, counts, view, unread, marked, touched>>
      /\ pc[op] = "applied"
  BY DEF ApplyEnvironment
<1>3. /\ Existing(collections)' = Existing(collections) /\ MarkedOnes' = MarkedOnes
      /\ Named(collections)' = Named(collections) /\ UNCHANGED <<overlapped, renamed>>
  BY <1>2 DEF Existing, Named, MarkedOnes, counts
<1> DEFINE Written(e) == environments' = [environments EXCEPT ![e] = TheEnvironment]
<1>4. /\ \/ environments' = environments
         \/ \E e \in EnvironmentIds : Written(e) /\ (bound = None \/ e = bound)
      /\ plan'[op].collection = plan[op].collection
      /\ plan'[op].collectionAction = plan[op].collectionAction
      /\ plan'[op].environmentAction = plan[op].environmentAction
      /\ \/ plan'[op].environment = plan[op].environment
         \/ plan'[op].environment \in Here' /\ bound = None
      /\ pc'[op] = "idle" \/ pc'[op] = "synced"
      /\ pc'[op] = "synced" /\ ~touched[op] => environments'[plan'[op].environment] = TheEnvironment
  <2>1. CASE plan[op].environmentAction = "create"
    <3>1. PICK e \in EnvironmentIds \ Existing(environments) :
             /\ environments' = [environments EXCEPT ![e] = TheEnvironment]
             /\ AnsweredOrLost(op, "synced", plan' = [plan EXCEPT ![op].environment = e])
      BY <2>1 DEF ApplyEnvironment
    <3>2. Here' = Here \cup {e} /\ environments'[e] = TheEnvironment
      BY <1>1, <3>1, EnvironmentWritten, Zenon
    <3>3. bound = None
      BY <1>1, <1>2, <2>1 DEF Sound, BoundKnown
    <3>4. CASE plan' = [plan EXCEPT ![op].environment = e] /\ Goto(op, "synced")
      <4>1. /\ plan'[op].collection = plan[op].collection
            /\ plan'[op].collectionAction = plan[op].collectionAction
            /\ plan'[op].environmentAction = plan[op].environmentAction
            /\ plan'[op].environment = e
        BY <1>1, <3>4, SetEnvironment
      <4>2. pc'[op] = "synced"
        BY <1>1, <3>4 DEF TypeOK, Goto
      <4> QED BY <3>1, <3>2, <3>3, <4>1, <4>2
    <3>5. CASE Goto(op, "idle") /\ UNCHANGED plan
      <4>1. pc'[op] = "idle" /\ plan' = plan
        BY <1>1, <3>5 DEF TypeOK, Goto
      <4> QED BY <3>1, <3>3, <4>1
    <3> QED BY <3>1, <3>4, <3>5 DEF AnsweredOrLost
  <2>2. CASE plan[op].environmentAction = "update"
    <3> DEFINE e == plan[op].environment
               k == [environments[e] EXCEPT !.named = TRUE, !.content = "wanted"]
    <3>1. e \in Here /\ e \in EnvironmentIds /\ environments[e] \in Environment
      BY <1>1, <2>2, ExistingType DEF Sound, Grounded
    <3>2. environments' = [environments EXCEPT ![e] = k]
      BY <1>1, <2>2, <3>1 DEF TypeOK, ApplyEnvironment
    <3>3. k = TheEnvironment
      <4>1. environments[e].here = TRUE
        BY <3>1 DEF Here, Environment
      <4> QED BY <3>1, <4>1, EnvironmentRewritten
    <3>4. Written(e)
      BY <3>2, <3>3
    <3>5. environments'[e] = TheEnvironment
      BY <1>1, <3>1, <3>4 DEF TypeOK
    <3>6. bound # None => e = bound
      BY <1>1, <1>2 DEF Sound, BoundKnown
    <3>7. UNCHANGED plan /\ (pc'[op] = "idle" \/ pc'[op] = "synced")
      BY <1>1, <2>2 DEF TypeOK, ApplyEnvironment, AnsweredOrLost, Goto
    <3> HIDE DEF Written
    <3> QED BY <3>1, <3>4, <3>5, <3>6, <3>7
  <2>3. CASE plan[op].environmentAction = "unchanged"
    <3>1. UNCHANGED <<plan, environments>> /\ pc'[op] = "synced"
      BY <1>1, <2>3 DEF TypeOK, ApplyEnvironment, Goto
    <3>2. ~touched[op] => environments[plan[op].environment] = TheEnvironment
      BY <1>1, <1>2, <2>3 DEF Sound, Delivered
    <3> QED BY <3>1, <3>2
  <2> QED BY <2>1, <2>2, <2>3 DEF ApplyEnvironment
<1>5. /\ Here \subseteq Here'
      /\ \A d : environments[d] = TheEnvironment => environments'[d] = TheEnvironment
      /\ Existing(environments) \subseteq Existing(environments)'
      /\ InPlace'
      /\ Existing(environments) \subseteq Named(environments)
            => Existing(environments)' \subseteq Named(environments)'
  <2>1. CASE environments' = environments
    BY <1>2, <2>1 DEF IInv, InPlace, Here, Existing, Named
  <2>2. ASSUME NEW e \in EnvironmentIds, Written(e), bound = None \/ e = bound
        PROVE  /\ Here \subseteq Here'
               /\ \A d : environments[d] = TheEnvironment => environments'[d] = TheEnvironment
               /\ Existing(environments) \subseteq Existing(environments)'
               /\ InPlace'
               /\ Existing(environments) \subseteq Named(environments)
                     => Existing(environments)' \subseteq Named(environments)'
    <3>1. /\ Existing(environments)' = Existing(environments) \cup {e}
          /\ Here' = Here \cup {e}
          /\ Named(environments)' = Named(environments) \cup {e}
          /\ \A d : environments[d] = TheEnvironment => environments'[d] = TheEnvironment
      BY <1>1, <2>2, EnvironmentWritten, Zenon
    <3>2. InPlace'
      BY <1>2, <2>2, <3>1 DEF IInv, InPlace
    <3> QED BY <3>1, <3>2
  <2> QED BY <1>4, <2>1, <2>2
<1>6. Sound(op)'
  <2>1. Here' \subseteq EnvironmentIds /\ None \notin Here'
    BY <1>1, IdsAssumption DEF TypeOK, Here, Existing
  <2>2. Grounded(op)'
    BY <1>1, <1>2, <1>3, <1>4, <1>5, <2>1 DEF Sound, Grounded, Listed, Inspected
  <2>3. BoundKnown(op)'
    BY <1>1, <1>2, <1>4, <1>5 DEF Sound, BoundKnown, Settled
  <2>4. Delivered(op)'
    BY <1>1, <1>2, <1>4 DEF Sound, Delivered, Settled, Inspected
  <2> QED BY <2>2, <2>3, <2>4 DEF Sound
<1>7. \A o \in Operators \ {op} : Sound(o)'
  BY <1>1, <1>2, <1>3, <1>5
     DEF IInv, Others, Sound, Grounded, BoundKnown, Delivered, Listed, Settled, Inspected
<1>8. ~overlapped' => Undisturbed'
  <2> SUFFICES ASSUME ~overlapped' PROVE Undisturbed'
    OBVIOUS
  <2>1. Undisturbed /\ \A o \in Operators \ {op} : Idle(o)
    BY <1>2, OnlyOne
  <2>2. \A o \in Operators \ {op} : Idle(o)'
    BY <1>1, <2>1 DEF Others, Idle
  <2>3. \A o \in Operators : Knows(o)'
    BY <1>4, <2>2 DEF Knows, Idle, Listed
  <2> QED BY <1>3, <2>1, <2>2, <2>3 DEF Undisturbed
<1>9. \A x : (ChosenCollection(x)' => ChosenCollection(x))
            /\ (ChosenEnvironment(x)' => ChosenEnvironment(x))
  BY <1>1, <1>2, <1>4 DEF Others, ChosenCollection, ChosenEnvironment, Picks, PicksEnvironment,
                          Listed, Settled
<1>10. "environment" \notin renamed' => OneEnvironment'
  BY <1>3, <1>5, <1>9 DEF IInv, OneEnvironment
<1>11. "collection" \notin renamed' => OneCollection'
  <2>1. ASSUME OneCollection PROVE \A o \in Operators : Unmarked(o)'
    BY <1>1, <1>2, <1>3, <1>4, <2>1 DEF OneCollection, Others, Unmarked, Listed
  <2> QED BY <1>3, <1>9, <2>1 DEF IInv, OneCollection
<1> QED BY <1>1, <1>5, <1>6, <1>7, <1>8, <1>10, <1>11 DEF IInv

LEMMA PublishKeeps ==
  ASSUME IInv, NEW op \in Operators, Publish(op)
  PROVE  IInv'
<1>1. TypeOK /\ TypeOK' /\ Others(op) /\ Sound(op)
  BY WriteTypeOK, StepOthers DEF IInv, Step, Sound
<1>2. /\ UNCHANGED <<collections, environments, bound, counts, view, unread, marked, plan, touched>>
      /\ pc[op] = "planned"
  BY DEF Publish
<1>3. /\ Existing(collections)' = Existing(collections) /\ MarkedOnes' = MarkedOnes
      /\ Named(collections)' = Named(collections) /\ Here' = Here
      /\ Existing(environments)' = Existing(environments)
      /\ Named(environments)' = Named(environments) /\ UNCHANGED <<overlapped, renamed>>
  BY <1>2 DEF Existing, Named, MarkedOnes, Here, counts
<1>4. pc'[op] = "idle"
  BY <1>1 DEF TypeOK, Publish, Goto
<1>5. Sound(op)'
  BY <1>1, <1>2, <1>3, <1>4
     DEF Sound, Grounded, BoundKnown, Delivered, Listed, Settled, Inspected
<1>6. \A o \in Operators \ {op} : Sound(o)'
  BY <1>1, <1>2, <1>3
     DEF IInv, Others, Sound, Grounded, BoundKnown, Delivered, Listed, Settled, Inspected
<1>7. InPlace'
  BY <1>2, <1>3 DEF IInv, InPlace
<1>8. ~overlapped' => Undisturbed'
  <2> SUFFICES ASSUME ~overlapped' PROVE Undisturbed'
    OBVIOUS
  <2>1. Undisturbed /\ \A o \in Operators \ {op} : Idle(o)
    BY <1>2, OnlyOne
  <2>2. \A o \in Operators \ {op} : Idle(o)'
    BY <1>1, <2>1 DEF Others, Idle
  <2>3. \A o \in Operators : Knows(o)'
    BY <1>4, <2>2 DEF Knows, Idle, Listed
  <2> QED BY <1>3, <2>1, <2>2, <2>3 DEF Undisturbed
<1>9. /\ Picks(op, plan[op].collection) /\ PicksEnvironment(op, plan[op].environment)
      /\ \A p \in published' : p \in published \/ (/\ p.collection = plan[op].collection
                                                   /\ p.environment = plan[op].environment)
  BY <1>2 DEF Publish, Picks, PicksEnvironment, Settled
<1>10. \A o \in Operators : \A x :
          (Picks(o, x)' => Picks(o, x)) /\ (PicksEnvironment(o, x)' => PicksEnvironment(o, x))
  BY <1>1, <1>2, <1>4 DEF Others, Picks, PicksEnvironment, Listed, Settled
<1>11. \A x : (ChosenCollection(x)' => ChosenCollection(x))
             /\ (ChosenEnvironment(x)' => ChosenEnvironment(x))
  BY <1>9, <1>10 DEF ChosenCollection, ChosenEnvironment
<1>12. "environment" \notin renamed' => OneEnvironment'
  BY <1>3, <1>11 DEF IInv, OneEnvironment
<1>13. "collection" \notin renamed' => OneCollection'
  <2>1. ASSUME OneCollection PROVE \A o \in Operators : Unmarked(o)'
    BY <1>1, <1>2, <1>3, <1>4, <2>1 DEF OneCollection, Others, Unmarked, Listed
  <2> QED BY <1>3, <1>11, <2>1 DEF IInv, OneCollection
<1> QED BY <1>1, <1>5, <1>6, <1>7, <1>8, <1>12, <1>13 DEF IInv

\* What people change stays what it is, where it is, and under its marker.
LEMMA EditKeeps ==
  ASSUME IInv, Edit
  PROVE  IInv'
<1>1. TypeOK
  BY DEF IInv
<1>2. /\ UNCHANGED <<bound, published, runs, overlapped, pc, command, created, view, unread,
                      marked, plan>>
      /\ touched' = [op \in Operators |-> TRUE] /\ edits < MaxEdits /\ edits' = edits + 1
  BY DEF Edit
<1>3. /\ collections' \in [CollectionIds -> Collection \cup {None}]
      /\ Existing(collections)' = Existing(collections)
      /\ MarkedOnes' = MarkedOnes
      /\ "collection" \notin renamed' =>
           "collection" \notin renamed /\ Named(collections)' = Named(collections)
  <2>1. CASE collections' = collections
    BY <1>1, <2>1 DEF TypeOK, Edit, Existing, Named, MarkedOnes
  <2>2. ASSUME NEW c \in Existing(collections), NEW k \in Collection,
               collections' = [collections EXCEPT ![c] = k],
               k.marked = collections[c].marked,
               k.named = collections[c].named \/ "collection" \in renamed',
               renamed \subseteq renamed'
        PROVE  /\ collections' \in [CollectionIds -> Collection \cup {None}]
               /\ Existing(collections)' = Existing(collections)
               /\ MarkedOnes' = MarkedOnes
               /\ "collection" \notin renamed' =>
                    "collection" \notin renamed /\ Named(collections)' = Named(collections)
    <3>1. c \in CollectionIds /\ k # None
      BY <1>1, <2>2, ExistingType
    <3>2. collections' \in [CollectionIds -> Collection \cup {None}]
      BY <1>1, <2>2 DEF TypeOK
    <3>3. /\ DOMAIN collections = CollectionIds /\ DOMAIN collections' = CollectionIds
          /\ collections'[c] = k
          /\ \A d \in CollectionIds \ {c} : collections'[d] = collections[d]
      BY <1>1, <2>2, <3>1 DEF TypeOK
    <3>4. Existing(collections)' = Existing(collections)
      BY <2>2, <3>1, <3>3 DEF Existing
    <3>5. MarkedOnes' = MarkedOnes
      <4>1. \A d \in Existing(collections) : collections'[d].marked = collections[d].marked
        BY <2>2, <3>3 DEF Existing
      <4> QED BY <3>4, <4>1 DEF MarkedOnes
    <3>6. ASSUME "collection" \notin renamed' PROVE Named(collections)' = Named(collections)
      <4>1. \A d \in Existing(collections) : collections'[d].named = collections[d].named
        BY <2>2, <3>3, <3>6 DEF Existing
      <4> QED BY <3>4, <4>1 DEF Named
    <3> QED BY <2>2, <3>2, <3>4, <3>5, <3>6
  <2>3. ASSUME NEW c \in Existing(collections),
               collections' = [collections EXCEPT ![c].named = FALSE, ![c].content = "drifted"],
               renamed' = renamed \cup {"collection"}
        PROVE  /\ collections' \in [CollectionIds -> Collection \cup {None}]
               /\ Existing(collections)' = Existing(collections)
               /\ MarkedOnes' = MarkedOnes
               /\ "collection" \notin renamed' =>
                    "collection" \notin renamed /\ Named(collections)' = Named(collections)
    <3> DEFINE k == [collections[c] EXCEPT !.named = FALSE, !.content = "drifted"]
    <3>1. c \in CollectionIds /\ collections[c] \in Collection
      BY <1>1, ExistingType
    <3>2. k \in Collection /\ k.marked = collections[c].marked
      BY <3>1 DEF Collection, Contents
    <3>3. collections' = [collections EXCEPT ![c] = k]
      BY <1>1, <2>3, <3>1 DEF TypeOK
    <3> HIDE DEF k
    <3> QED BY <2>2, <2>3, <3>2, <3>3
  <2>4. ASSUME NEW c \in Existing(collections), NEW content \in {"drifted", "refused"},
               collections' = [collections EXCEPT ![c].content = content],
               renamed' = renamed
        PROVE  /\ collections' \in [CollectionIds -> Collection \cup {None}]
               /\ Existing(collections)' = Existing(collections)
               /\ MarkedOnes' = MarkedOnes
               /\ "collection" \notin renamed' =>
                    "collection" \notin renamed /\ Named(collections)' = Named(collections)
    <3> DEFINE k == [collections[c] EXCEPT !.content = content]
    <3>1. c \in CollectionIds /\ collections[c] \in Collection
      BY <1>1, ExistingType
    <3>2. /\ k \in Collection /\ k.marked = collections[c].marked
          /\ k.named = collections[c].named
      BY <3>1 DEF Collection, Contents
    <3>3. collections' = [collections EXCEPT ![c] = k]
      BY <1>1, <2>4, <3>1 DEF TypeOK
    <3> HIDE DEF k
    <3> QED BY <2>2, <2>4, <3>2, <3>3
  <2> QED BY <2>1, <2>3, <2>4 DEF Edit
<1>4. /\ environments' \in [EnvironmentIds -> Environment \cup {None}]
      /\ Existing(environments)' = Existing(environments)
      /\ Here' = Here
      /\ "environment" \notin renamed' =>
           "environment" \notin renamed /\ Named(environments)' = Named(environments)
  <2>1. CASE environments' = environments
    BY <1>1, <2>1 DEF TypeOK, Edit, Existing, Named, Here
  <2>2. ASSUME NEW e \in Existing(environments), NEW k \in Environment,
               environments' = [environments EXCEPT ![e] = k],
               k.here = environments[e].here,
               k.named = environments[e].named \/ "environment" \in renamed',
               renamed \subseteq renamed'
        PROVE  /\ environments' \in [EnvironmentIds -> Environment \cup {None}]
               /\ Existing(environments)' = Existing(environments)
               /\ Here' = Here
               /\ "environment" \notin renamed' =>
                    "environment" \notin renamed /\ Named(environments)' = Named(environments)
    <3>1. e \in EnvironmentIds /\ k # None
      BY <1>1, <2>2, ExistingType
    <3>2. environments' \in [EnvironmentIds -> Environment \cup {None}]
      BY <1>1, <2>2 DEF TypeOK
    <3>3. /\ DOMAIN environments = EnvironmentIds /\ DOMAIN environments' = EnvironmentIds
          /\ environments'[e] = k
          /\ \A d \in EnvironmentIds \ {e} : environments'[d] = environments[d]
      BY <1>1, <2>2, <3>1 DEF TypeOK
    <3>4. Existing(environments)' = Existing(environments)
      BY <2>2, <3>1, <3>3 DEF Existing
    <3>5. Here' = Here
      <4>1. \A d \in Existing(environments) : environments'[d].here = environments[d].here
        BY <2>2, <3>3 DEF Existing
      <4> QED BY <3>4, <4>1 DEF Here
    <3>6. ASSUME "environment" \notin renamed' PROVE Named(environments)' = Named(environments)
      <4>1. \A d \in Existing(environments) : environments'[d].named = environments[d].named
        BY <2>2, <3>3, <3>6 DEF Existing
      <4> QED BY <3>4, <4>1 DEF Named
    <3> QED BY <2>2, <3>2, <3>4, <3>5, <3>6
  <2>3. ASSUME NEW e \in Existing(environments),
               environments' = [environments EXCEPT ![e].named = FALSE, ![e].content = "drifted"],
               renamed' = renamed \cup {"environment"}
        PROVE  /\ environments' \in [EnvironmentIds -> Environment \cup {None}]
               /\ Existing(environments)' = Existing(environments)
               /\ Here' = Here
               /\ "environment" \notin renamed' =>
                    "environment" \notin renamed /\ Named(environments)' = Named(environments)
    <3> DEFINE k == [environments[e] EXCEPT !.named = FALSE, !.content = "drifted"]
    <3>1. e \in EnvironmentIds /\ environments[e] \in Environment
      BY <1>1, ExistingType
    <3>2. k \in Environment /\ k.here = environments[e].here
      BY <3>1 DEF Environment, Contents
    <3>3. environments' = [environments EXCEPT ![e] = k]
      BY <1>1, <2>3, <3>1 DEF TypeOK
    <3> HIDE DEF k
    <3> QED BY <2>2, <2>3, <3>2, <3>3
  <2>4. ASSUME NEW e \in Existing(environments), NEW content \in {"drifted", "refused"},
               environments' = [environments EXCEPT ![e].content = content],
               renamed' = renamed
        PROVE  /\ environments' \in [EnvironmentIds -> Environment \cup {None}]
               /\ Existing(environments)' = Existing(environments)
               /\ Here' = Here
               /\ "environment" \notin renamed' =>
                    "environment" \notin renamed /\ Named(environments)' = Named(environments)
    <3> DEFINE k == [environments[e] EXCEPT !.content = content]
    <3>1. e \in EnvironmentIds /\ environments[e] \in Environment
      BY <1>1, ExistingType
    <3>2. /\ k \in Environment /\ k.here = environments[e].here
          /\ k.named = environments[e].named
      BY <3>1 DEF Environment, Contents
    <3>3. environments' = [environments EXCEPT ![e] = k]
      BY <1>1, <2>4, <3>1 DEF TypeOK
    <3> HIDE DEF k
    <3> QED BY <2>2, <2>4, <3>2, <3>3
  <2> QED BY <2>1, <2>3, <2>4 DEF Edit
<1>5. TypeOK'
  <2>1. edits' \in 0..MaxEdits
    BY <1>1, <1>2 DEF TypeOK
  <2>2. renamed' \subseteq Renamings
    BY <1>1 DEF TypeOK, Edit, Renamings
  <2> QED BY <1>1, <1>2, <1>3, <1>4, <2>1, <2>2 DEF TypeOK
<1>6. \A op \in Operators : Sound(op)'
  <2> SUFFICES ASSUME NEW op \in Operators PROVE Sound(op)'
    OBVIOUS
  <2>1. Sound(op) /\ touched'[op]
    BY <1>2 DEF IInv
  <2>2. Grounded(op)'
    BY <1>2, <1>3, <1>4, <2>1 DEF Sound, Grounded
  <2>3. BoundKnown(op)'
    BY <1>2, <1>4, <2>1 DEF Sound, BoundKnown
  <2>4. Delivered(op)'
    BY <2>1 DEF Delivered
  <2> QED BY <2>2, <2>3, <2>4 DEF Sound
<1>7. InPlace'
  BY <1>2, <1>4 DEF IInv, InPlace
<1>8. ~overlapped' => Undisturbed'
  BY <1>2, <1>3 DEF IInv, Undisturbed, Knows, Idle
<1>9. \A x : (ChosenCollection(x)' <=> ChosenCollection(x))
            /\ (ChosenEnvironment(x)' <=> ChosenEnvironment(x))
  BY <1>2 DEF ChosenCollection, ChosenEnvironment, Picks, PicksEnvironment
<1>10. "collection" \notin renamed' => OneCollection'
  <2>1. \A op \in Operators : Unmarked(op)' <=> Unmarked(op)
    BY <1>2, <1>3 DEF Unmarked
  <2> QED BY <1>3, <1>9, <2>1 DEF IInv, OneCollection
<1>11. "environment" \notin renamed' => OneEnvironment'
  BY <1>4, <1>9 DEF IInv, OneEnvironment
<1> QED BY <1>5, <1>6, <1>7, <1>8, <1>10, <1>11 DEF IInv

LEMMA StutterKeeps ==
  ASSUME IInv, UNCHANGED vars
  PROVE  IInv'
<1>1. /\ UNCHANGED <<collections, environments, bound, published, edits, runs, overlapped, renamed>>
      /\ UNCHANGED <<pc, command, created, view, unread, marked, plan, touched>>
  BY DEF vars, remote, local, counts
<1>2. /\ Existing(collections)' = Existing(collections)
      /\ Named(collections)' = Named(collections) /\ MarkedOnes' = MarkedOnes
      /\ Existing(environments)' = Existing(environments)
      /\ Named(environments)' = Named(environments) /\ Here' = Here
  BY <1>1 DEF Existing, Named, MarkedOnes, Here
<1>3. TypeOK'
  BY <1>1 DEF IInv, TypeOK
<1>4. \A op \in Operators : Sound(op)'
  BY <1>1, <1>2 DEF IInv, Sound, Grounded, BoundKnown, Delivered
<1>5. InPlace'
  BY <1>1, <1>2 DEF IInv, InPlace
<1>6. ~overlapped' => Undisturbed'
  BY <1>1, <1>2 DEF IInv, Undisturbed, Knows, Idle
<1>7. \A x : (ChosenCollection(x)' <=> ChosenCollection(x))
            /\ (ChosenEnvironment(x)' <=> ChosenEnvironment(x))
  BY <1>1 DEF ChosenCollection, ChosenEnvironment, Picks, PicksEnvironment
<1>8. "collection" \notin renamed' => OneCollection'
  <2>1. \A op \in Operators : Unmarked(op)' <=> Unmarked(op)
    BY <1>1, <1>2 DEF Unmarked
  <2> QED BY <1>1, <1>2, <1>7, <2>1 DEF IInv, OneCollection
<1>9. "environment" \notin renamed' => OneEnvironment'
  BY <1>1, <1>2, <1>7 DEF IInv, OneEnvironment
<1> QED BY <1>3, <1>4, <1>5, <1>6, <1>8, <1>9 DEF IInv

LEMMA InductiveStep == IInv /\ [Next]_vars => IInv'
<1> SUFFICES ASSUME IInv, [Next]_vars PROVE IInv'
  OBVIOUS
<1>1. ASSUME NEW op \in Operators, Step(op) PROVE IInv'
  BY <1>1, MoveKeeps, BeginKeeps, ListCollectionsKeeps, ListEnvironmentsKeeps, InspectBoundKeeps,
     ReadMarkerKeeps, AdoptMarkedKeeps, InspectCollectionKeeps, InspectEnvironmentKeeps,
     ApplyCollectionKeeps, ApplyEnvironmentKeeps, PublishKeeps
     DEF Step
<1> QED BY <1>1, EditKeeps, StutterKeeps DEF Next

THEOREM Invariance == Spec => []IInv
BY InitIInv, InductiveStep, PTL DEF Spec

-----------------------------------------------------------------------------
(* The properties.                                                           *)

\* A set whose members are all equal has at most one.
LEMMA AtMostOne ==
  ASSUME NEW S, \A x, y \in S : x = y
  PROVE  Cardinality(S) <= 1
<1>1. CASE S = {}
  BY <1>1, FS_EmptySet
<1>2. ASSUME NEW x \in S PROVE Cardinality(S) <= 1
  <2>1. S = {x}
    OBVIOUS
  <2> QED BY <2>1, FS_Singleton
<1> QED BY <1>1, <1>2

\* TypeOK: a plan holds uids or none, one of the three actions for each artifact, and
\* what exists in Postman is never overwritten by anything but an artifact.
THEOREM PublicSyncTypeSafe == Spec => []TypeOK
BY Invariance, PTL DEF IInv

\* DocsNotDuplicated: without overlapping commands there are never two collections
\* that carry the marker, however often a response is lost or somebody renames one.
THEOREM DocsOnce == Spec => []DocsNotDuplicated
<1>1. IInv => DocsNotDuplicated
  <2> SUFFICES ASSUME IInv, ~overlapped PROVE Cardinality(MarkedOnes) <= 1
    BY DEF DocsNotDuplicated, MarkedOnes
  <2>1. \A c, d \in MarkedOnes : c = d
    BY DEF IInv, Undisturbed
  <2> QED BY <2>1, AtMostOne
<1> QED BY <1>1, Invariance, PTL

\* SyncDelivers: what a sync has written, and what a publishable plan found, is the
\* local publication, in the selected workspace, unless somebody edited meanwhile.
THEOREM SyncDeliversSafe == Spec => []SyncDelivers
<1>1. IInv => SyncDelivers
  BY DEF IInv, Sound, Delivered, SyncDelivers, MayPublish, Inspected, Settled
<1> QED BY <1>1, Invariance, PTL

\* PublishedOnce: all that is ever published has one collection until somebody renames
\* a collection, and one environment until somebody renames an environment, however
\* many operators bootstrap at once.
THEOREM PublishedOnceSafe == Spec => []PublishedOnce
<1>1. IInv => PublishedOnce
  <2> SUFFICES ASSUME IInv PROVE PublishedOnce
    OBVIOUS
  <2>1. \A p \in published : p.collection \in CollectionIds /\ p.environment \in EnvironmentIds
    BY DEF IInv, TypeOK
  <2>2. ASSUME "collection" \notin renamed
        PROVE  Cardinality({p.collection : p \in published}) <= 1
    <3>1. \A p, q \in published : p.collection = q.collection
      BY <2>1, <2>2 DEF IInv, OneCollection, ChosenCollection
    <3> QED BY <3>1, AtMostOne
  <2>3. ASSUME "environment" \notin renamed
        PROVE  Cardinality({p.environment : p \in published}) <= 1
    <3>1. \A p, q \in published : p.environment = q.environment
      BY <2>1, <2>3 DEF IInv, OneEnvironment, ChosenEnvironment
    <3> QED BY <3>1, AtMostOne
  <2> QED BY <2>2, <2>3 DEF PublishedOnce
<1> QED BY <1>1, Invariance, PTL

\* BoundOnly: with a bound environment no command creates another environment or
\* writes to one outside the selected workspace.
THEOREM BoundOnlySafe == Spec => BoundOnly
<1> DEFINE Only(e) == /\ bound # None
                      /\ environments'[e] # environments[e]
                      /\ environments'[e].content = "wanted"
                      => e = bound /\ e \in Here
<1>1. ASSUME IInv, Next PROVE \A e \in EnvironmentIds : Only(e)
  <2>1. TypeOK
    BY <1>1 DEF IInv
  <2>2. CASE UNCHANGED environments
    BY <2>2
  <2>3. ASSUME NEW op \in Operators, ApplyEnvironment(op)
        PROVE  \A e \in EnvironmentIds : Only(e)
    <3> SUFFICES ASSUME bound # None, NEW e \in EnvironmentIds, environments'[e] # environments[e]
                 PROVE  e = bound /\ e \in Here
      OBVIOUS
    <3>1. Sound(op)
      BY <1>1 DEF IInv
    <3>2. plan[op].environmentAction # "create" /\ plan[op].environment = bound
      BY <2>3, <3>1 DEF ApplyEnvironment, Sound, BoundKnown
    <3>3. bound \in Here
      BY <3>1, <3>2 DEF Sound, Grounded
    <3>4. e = plan[op].environment
      BY <2>1, <2>3, <3>2 DEF TypeOK, ApplyEnvironment
    <3> QED BY <3>2, <3>3, <3>4
  <2>4. CASE Edit
    <3> SUFFICES ASSUME NEW e \in EnvironmentIds, environments'[e] # environments[e]
                 PROVE  environments'[e].content # "wanted"
      OBVIOUS
    <3>1. ASSUME NEW d \in Existing(environments), NEW content \in {"drifted", "refused"},
                 NEW k, environments' = [environments EXCEPT ![d] = k], k.content = content
          PROVE  environments'[e].content # "wanted"
      BY <2>1, <3>1 DEF TypeOK
    <3>2. ASSUME NEW d \in Existing(environments),
                 environments' = [environments EXCEPT ![d].named = FALSE, ![d].content = "drifted"]
          PROVE  environments'[e].content # "wanted"
      <4>1. d \in EnvironmentIds /\ environments[d] \in Environment
        BY <2>1, ExistingType
      <4>2. [environments[d] EXCEPT !.named = FALSE, !.content = "drifted"].content = "drifted"
        BY <4>1 DEF Environment
      <4> QED BY <2>1, <3>1, <3>2, <4>1, <4>2 DEF TypeOK
    <3>3. ASSUME NEW d \in Existing(environments), NEW content \in {"drifted", "refused"},
                 environments' = [environments EXCEPT ![d].content = content]
          PROVE  environments'[e].content # "wanted"
      <4>1. d \in EnvironmentIds /\ environments[d] \in Environment
        BY <2>1, ExistingType
      <4>2. [environments[d] EXCEPT !.content = content].content = content
        BY <4>1 DEF Environment
      <4> QED BY <2>1, <3>1, <3>3, <4>1, <4>2 DEF TypeOK
    <3> QED BY <2>4, <3>2, <3>3 DEF Edit
  <2> QED BY <1>1, <2>2, <2>3, <2>4 DEF Next, Step, Start, ReadWorkspace, ListCollections,
        ListEnvironments, RereadWorkspace, InspectBound, ReadMarker, AdoptMarked,
        InspectCollection, InspectEnvironment, ApplyCollection, Synced, Publish, Raise, remote
<1>2. IInv /\ [Next]_vars => [\A e \in EnvironmentIds : Only(e)]_vars
  BY <1>1
<1> QED BY <1>2, Invariance, PTL DEF Spec, BoundOnly
=============================================================================
