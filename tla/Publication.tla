---------------------------- MODULE Publication -----------------------------
(***************************************************************************)
(* What becomes public: publication_contract.py with the payload side of   *)
(* postman_remote.py.  An author edits the canonical collection and the    *)
(* publication contract; a plan validates them, strips the harness         *)
(* metadata, marks the copy with a digest of the original and compares it  *)
(* with what Postman has; applying the plan replaces that, keeping the ids *)
(* of operations that still exist.  Postman does not give back what it got:*)
(* it adds ids and empty arrays and drops flags that are false.  People    *)
(* also edit the collection and its environment in Postman.  The requests  *)
(* of a sync, and what can go wrong between them, are the business of      *)
(* PublicSync, which knows of all this only "wanted", "drifted" and        *)
(* "refused".                                                              *)
(***************************************************************************)
EXTENDS Naturals, Sequences, FiniteSets, Functions

CONSTANTS
    Folders,    \* names of folders
    Ops,        \* documented operations: method and route
    Names,      \* labels of requests, with their method
    Contracts,  \* publication.json: the production and demo URLs
    MaxEdits,   \* bound: edits of the author
    MaxMeddling,\* bound: edits in Postman
    None

ASSUME BoundsAssumption == {MaxEdits, MaxMeddling} \subseteq Nat
ASSUME FoldersAssumption == IsFiniteSet(Folders)
\* What no contract allows is no URL of a contract.
ASSUME ContractsAssumption == "unfit" \notin Contracts

VARIABLES
    canonical,  \* postman/collection.json
    contract,   \* postman/publication.json
    remote,     \* Postman's collection, or None
    lastId,     \* the last id Postman gave to a request
    environment,\* Postman's public environment, or None
    pc,         \* idle, planned, or the last plan was refused
    plan,       \* the plan, or None
    put,        \* history: the canonical files last put in place
    meddled,    \* history: which artifacts were edited in Postman since then
    edits, meddling

files == <<canonical, contract>>
postman == <<remote, lastId, environment>>
history == <<put, meddled>>
counts == <<edits, meddling>>
vars == <<files, postman, pc, plan, history, counts>>

\* The scripts a request or the collection may have.
Scripts == {"none", "good", "bad"}

(* A request of a collection.  text: what is documented, "unsafe" with a    *)
(* literal in a sensitive field; prefixed: its label starts with the method;*)
(* scenario: x-ai-harness-ws-scenarios, "astray" for another operation.     *)
Request == [op : Ops, name : Names, prefixed : BOOLEAN, text : {"text", "other", "unsafe"},
            disabled : {"absent", "false", "true"}, response : {"absent", "empty"},
            script : Scripts,
            scenario : {"none", "one", "another", "astray"}, id : Nat \union {None}]

\* What a description can say: the contract it was published under and a digest.
Marker == [contract : Contracts,
           digest : [items : [Folders -> Seq(Request)], generated : BOOLEAN,
                     guard : Scripts, marker : {None}]]

\* generated: x-ai-harness-ws-generated = 1; guard: the pre-request script of
\* the collection; marker: what its description says of the publication.
Collection == [items : [Folders -> Seq(Request)], generated : BOOLEAN,
               guard : Scripts, marker : Marker \union {None}]

\* The public environment: the two variables base_url and ws_tests_enabled, and
\* what people may have added.  noted: the description of base_url.
Environment == [named : BOOLEAN, url : Contracts \union {"unfit"},
                gate : {"absent", "false", "true"}, extra : BOOLEAN, secret : BOOLEAN,
                noted : {"absent", "empty", "text"}]

\* A commit: the canonical files of one moment.
Files == [canonical : Collection, contract : Contracts]

ASSUME NoneAssumption ==
    None \notin Nat \union Marker \union Collection \union Environment \union Files

TypeOK ==
    /\ canonical \in Collection /\ contract \in Contracts
    /\ remote \in Collection \union {None}
    /\ lastId \in Nat
    /\ environment \in Environment \union {None}
    /\ pc \in {"idle", "planned", "invalid", "refused"}
    /\ pc = "planned" => /\ {plan.action, plan.environmentAction}
                              \subseteq {"create", "update", "unchanged"}
                         /\ plan.publication \in Collection
                         /\ plan.remote \in Collection \union {None}
    /\ put \in Files \union {None}
    /\ meddled \subseteq {"collection", "environment"} /\ edits \in Nat /\ meddling \in Nat

Requests(c) == UNION {Range(c.items[f]) : f \in Folders}

----------------------------------------------------------------------------
(* publication_contract.py.                                                *)

\* One request per method and route, and there is one.
Distinct(c) ==
    Requests(c) # {} /\
    \A f, g \in Folders : \A i \in DOMAIN c.items[f], j \in DOMAIN c.items[g] :
        c.items[f][i].op = c.items[g][j].op => f = g /\ i = j

\* Of a canonical collection the flag tells, of a published one its markers.
Generated(c) == c.generated \/ (c.marker # None /\ c.guard # "none")

\* validate_public_collection_payload
ValidCollection(c) ==
    /\ \A r \in Requests(c) : r.text # "unsafe"
    /\ IF Generated(c)
       THEN /\ c.guard = "good"
            /\ Distinct(c)
            /\ \A r \in Requests(c) : r.script # "bad" /\ r.scenario # "astray"
       ELSE /\ c.guard = "none"
            /\ Requests(c) # {}
            /\ \A r \in Requests(c) : r.script = "none"

Map(c, F(_)) == [c EXCEPT !.items = [f \in Folders |->
                    [i \in DOMAIN c.items[f] |-> F(c.items[f][i])]]]

\* publishable_collection
Publishable(c) ==
    LET WithoutHarness(r) == [r EXCEPT !.scenario = "none"]
    IN  [Map(c, WithoutHarness) EXCEPT !.generated = FALSE]

\* Fault: the digest is of what is published, not of the canonical file.
PublishedDigest(c) == Publishable(c)

\* collection_content_sha256: no two collections have the same.
Digest(c) == c

\* validate_publication, of a canonical collection that carries no marker yet.
Published(c, k) ==
    [Publishable(c) EXCEPT !.marker = [contract |-> k, digest |-> Digest(c)]]

\* The environment validate_publication makes of the contract.
Approved(k) == [named |-> TRUE, url |-> k, gate |-> "false", extra |-> FALSE,
                secret |-> FALSE, noted |-> "absent"]

\* validate_public_environment_payload with any production URL.
ValidEnvironment(e) ==
    e.named /\ e.url # "unfit" /\ e.gate = "false" /\ ~e.extra

----------------------------------------------------------------------------
(* postman_remote.py.                                                      *)

\* _strip_server_ids
Clean(r) == [r EXCEPT !.id = None,
                      !.disabled = IF @ = "false" THEN "absent" ELSE @,
                      !.response = IF @ = "empty" THEN "absent" ELSE @]

\* _same_public_payload
Same(expected, actual) == Map(expected, Clean) = Map(actual, Clean)

\* The same for environments.
SameEnvironment(expected, actual) ==
    expected = [actual EXCEPT !.noted = IF @ = "empty" THEN "absent" ELSE @]

\* _safe_remote_environment: one from before the gate existed is accepted.
SafeEnvironment(e) ==
    /\ ~e.secret
    /\ ValidEnvironment([e EXCEPT !.gate = IF @ = "absent" THEN "false" ELSE @])

\* Fault: another word for what needs nothing.
MisnamedAction(there, same) ==
    IF ~there THEN "create" ELSE IF same THEN "none" ELSE "update"

\* What the plan does with an artifact.
Action(there, same) ==
    IF ~there THEN "create" ELSE IF same THEN "unchanged" ELSE "update"

\* identity: the label counts without the method it used to start with.
Identity(r) == r.name

\* The places of a sequence that hold a request of this identity.
Places(s, r) == {i \in DOMAIN s : Identity(s[i]) = Identity(r)}

\* Fault: the first request of that identity will do.
AnyMatching(wanted, old, r) == Places(old, r) # {}

\* Nothing to choose between: one wanted, one old.
Matching(wanted, old, r) ==
    Cardinality(Places(wanted, r)) = 1 /\ Cardinality(Places(old, r)) = 1

\* _preserve_collection_ids, folder by folder.
WithIds(desired, c) ==
    [desired EXCEPT !.items = [f \in Folders |->
        LET wanted == desired.items[f]
            old == c.items[f]
        IN  [i \in DOMAIN wanted |->
                IF Matching(wanted, old, wanted[i])
                THEN [wanted[i] EXCEPT !.id = old[CHOOSE j \in Places(old, wanted[i]) : TRUE].id]
                ELSE wanted[i]]]]

\* Postman takes a collection in: a request without an id gets a new one.
New(c) == UNION {{<<f, i>> : i \in {j \in DOMAIN c.items[f] : c.items[f][j].id = None}}
                    : f \in Folders}
Stored(c, number) ==
    [c EXCEPT !.items = [f \in Folders |-> [i \in DOMAIN c.items[f] |->
        [c.items[f][i] EXCEPT
            !.id = IF @ = None THEN number[<<f, i>>] ELSE @,
            !.disabled = IF @ = "false" THEN "absent" ELSE @,
            !.response = "empty"]]]]
Numberings(c) == {n \in [New(c) -> lastId + 1 .. lastId + Cardinality(New(c))] :
                    IsInjective(n)}
Store(c) ==
    /\ remote' = Stored(c, CHOOSE n \in Numberings(c) : TRUE)
    /\ lastId' = lastId + Cardinality(New(c))

----------------------------------------------------------------------------
Plain(op, name) ==
    [op |-> op, name |-> name, prefixed |-> FALSE, text |-> "text", disabled |-> "absent",
     response |-> "absent", script |-> "none", scenario |-> "none", id |-> None]

Init ==
    /\ \E generated \in BOOLEAN : \E f \in Folders, op \in Ops, name \in Names :
         canonical = [items |-> [g \in Folders |-> IF g = f THEN <<Plain(op, name)>> ELSE <<>>],
                      generated |-> generated,
                      guard |-> IF generated THEN "good" ELSE "none", marker |-> None]
    /\ contract \in Contracts
    /\ remote = None /\ lastId = 0 /\ environment = None
    /\ pc = "idle" /\ plan = None
    /\ put = None /\ meddled = {}
    /\ edits = 0 /\ meddling = 0

\* validate_publication raises.
Invalid ==
    /\ ~ValidCollection(canonical)
    /\ pc' = "invalid" /\ plan' = None
    /\ UNCHANGED <<files, postman, history, counts>>

\* plan_sync goes through: what is there is managed and safe to replace.
Inspected ==
    /\ remote # None => remote.marker # None /\ ValidCollection(remote)
    /\ environment # None => remote # None /\ SafeEnvironment(environment)

\* plan_sync raises.
Refused ==
    /\ ValidCollection(canonical)
    /\ ~Inspected
    /\ pc' = "refused" /\ plan' = None
    /\ UNCHANGED <<files, postman, history, counts>>

\* validate_publication and plan_sync.
Plan ==
    LET publication == Published(canonical, contract)
    IN  /\ ValidCollection(canonical)
        /\ Inspected
        /\ pc' = "planned"
        /\ plan' = [publication |-> publication, remote |-> remote, of |-> files,
                    environment |-> environment,
                    action |-> Action(remote # None, Same(publication, remote)),
                    environmentAction |-> Action(environment # None,
                        SameEnvironment(Approved(contract), environment))]
        /\ UNCHANGED <<files, postman, history, counts>>

\* sync_public: _validate_outgoing, then POST or PUT.
Apply ==
    /\ pc = "planned"
    /\ ValidCollection(plan.publication)
    /\ CASE plan.action = "create" -> Store(plan.publication)
         [] plan.action = "update" -> Store(WithIds(plan.publication, plan.remote))
         [] plan.action = "unchanged" -> UNCHANGED <<remote, lastId>>
    /\ IF plan.environmentAction = "unchanged" THEN UNCHANGED environment
       ELSE environment' = Approved(plan.of[2])
    /\ put' = IF plan.action = "unchanged" THEN put
              ELSE [canonical |-> plan.of[1], contract |-> plan.of[2]]
    /\ meddled' = {part \in meddled :
                     "unchanged" = IF part = "collection" THEN plan.action
                                   ELSE plan.environmentAction}
    /\ pc' = "idle" /\ plan' = None
    /\ UNCHANGED <<files, counts>>

----------------------------------------------------------------------------
(* The author, and people in Postman.                                      *)

Without(s, i) == SubSeq(s, 1, i - 1) \o SubSeq(s, i + 1, Len(s))

\* One edit of the request at place i of folder f: of what it says, away, or elsewhere.
Changed(c, f, i) ==
    {[c EXCEPT !.items[f][i].text = x] : x \in {"other", "unsafe"}}
    \union {[c EXCEPT !.items[f][i].disabled = x] : x \in {"false", "true"}}
    \union {[c EXCEPT !.items[f][i].prefixed = TRUE]}
    \union {[c EXCEPT !.items[f][i].name = x] : x \in Names}
    \union {[c EXCEPT !.items[f][i].script = x] : x \in {"good", "bad"}}
    \union {[c EXCEPT !.items[f] = Without(@, i)]}
    \union {[c EXCEPT !.items[f] = Without(@, i), !.items[g] = Append(@, c.items[f][i])]
                : g \in Folders \ {f}}

\* A request more, with this id.
Extended(c, f, id) ==
    {[c EXCEPT !.items[f] = Append(@, [Plain(op, name) EXCEPT !.id = id])]
        : op \in Ops, name \in Names}

\* One edit of a collection; new requests come with this id.
Edited(c, id) ==
    (UNION {UNION {Changed(c, f, i) : i \in DOMAIN c.items[f]} : f \in Folders})
    \union (UNION {Extended(c, f, id) : f \in Folders})
    \union {[c EXCEPT !.guard = x] : x \in {"none", "bad"}}

Author ==
    /\ edits < MaxEdits
    /\ edits' = edits + 1
    /\ \/ /\ \/ canonical' \in Edited(canonical, None)
             \/ \E f \in Folders : \E i \in DOMAIN canonical.items[f] :
                \E x \in {"one", "another", "astray"} :
                   canonical' = [canonical EXCEPT !.items[f][i].scenario = x]
          /\ UNCHANGED contract
       \/ contract' \in Contracts /\ UNCHANGED canonical
    /\ UNCHANGED <<postman, pc, plan, history, meddling>>

Meddle ==
    /\ meddling < MaxMeddling
    /\ meddling' = meddling + 1
    /\ remote # None
    /\ \/ /\ remote' \in Edited(remote, lastId + 1) \union {[remote EXCEPT !.marker = None]}
          /\ lastId' = lastId + 1
          /\ meddled' = meddled \union {"collection"}
          /\ UNCHANGED environment
       \/ /\ environment' \in {[environment EXCEPT !.named = FALSE],
                               [environment EXCEPT !.extra = TRUE],
                               [environment EXCEPT !.secret = TRUE]}
                \union {[environment EXCEPT !.url = u] : u \in Contracts \union {"unfit"}}
                \union {[environment EXCEPT !.gate = x] : x \in {"absent", "true"}}
                \union {[environment EXCEPT !.noted = x] : x \in {"empty", "text"}}
          /\ meddled' = meddled \union {"environment"}
          /\ UNCHANGED <<remote, lastId>>
    /\ UNCHANGED <<files, pc, plan, put, edits>>

Next == Invalid \/ Refused \/ Plan \/ Apply \/ Author \/ Meddle

Spec == Init /\ [][Next]_vars

----------------------------------------------------------------------------
(* Properties.                                                             *)

\* What a reader of the documentation gets to see of a collection.
Shown(c) == [f \in Folders |-> [i \in DOMAIN c.items[f] |->
                LET r == c.items[f][i]
                IN  <<r.op, r.name, r.prefixed, r.text, r.disabled = "true", r.script>>]]

\* A plan of what is there is "unchanged" exactly when Postman shows what the
\* canonical collection says and the publication in place was made of the very
\* same files, metadata that is not published included: neither a drift nor an
\* edit is missed, and no sync is repeated because of what Postman does to a
\* payload.  What passed the check goes out and passes it again when it is read
\* back: a plan is refused only after somebody edited Postman.  No plan replaces
\* an environment it saw a credential or a variable of somebody's in.
PlanTellsTheTruth ==
    /\ pc = "planned" /\ plan.of = files /\ plan.remote = remote
         => /\ (plan.action = "unchanged" <=>
                  /\ put = [canonical |-> canonical, contract |-> contract]
                  /\ Shown(remote) = Shown(canonical)
                  /\ remote.guard = canonical.guard)
            /\ "collection" \notin meddled /\ put = [canonical |-> canonical, contract |-> contract]
                 => plan.action = "unchanged"
            /\ plan.environment = environment /\ plan.environmentAction = "unchanged"
                 => environment.url = contract /\ environment.gate = "false"
            /\ meddled = {} /\ put # None /\ put.contract = contract
                 => plan.environmentAction = "unchanged"
    /\ pc = "planned" => /\ ValidCollection(plan.publication)
                         /\ plan.environment # None =>
                               ~plan.environment.secret /\ ~plan.environment.extra
    /\ pc = "refused" => meddled # {}

\* The ids of the new collection, next to those the plan saw.
KeptIds ==
    /\ \A f \in Folders :
         LET new == remote'.items[f]
             old == plan.remote.items[f]
             Alone(s, i) == \A k \in DOMAIN s \ {i} : s[k].name # s[i].name
         IN  \A i \in DOMAIN new, j \in DOMAIN old :
               /\ new[i].id = old[j].id => new[i].name = old[j].name
               /\ new[i].name = old[j].name /\ Alone(new, i) /\ Alone(old, j)
                    => new[i].id = old[j].id
    /\ \A f, g \in Folders :
         \A i \in DOMAIN remote'.items[f], j \in DOMAIN remote'.items[g] :
            remote'.items[f][i].id = remote'.items[g][j].id => f = g /\ i = j

\* Replacing the collection gives a request whose label is still there, and not
\* ambiguous, the id it had; no id passes to another label and no two requests
\* share one, however labels, folders and copies were edited.
IdsStable == [][Apply /\ plan.action = "update" => KeptIds]_vars
=============================================================================
