------------------------ MODULE InternalProfilesProofs ------------------------
(* Theorems about InternalProfiles: for any profiles, environments and number *)
(* of overlapping commands, only a profile's own environment is written, a   *)
(* bound profile gets no second one, and ready means equal.                   *)
EXTENDS InternalProfiles, TLAPS

USE NoneAssumption, EditionsAssumption

\* The environment e exists and was made for the profile p.
Own(env, p, e) == env[e] \in Environment /\ env[e].maker = p

\* The command k has decided what to do with the profile p.
Made(k, p) == k.pc \in {"planned", "apply", "bind"} \/ (k.pc = "plan" /\ p \notin k.todo)

\* What a running command has read and planned fits: only a profile's own
\* environment is taken for bound, is to be updated, or was just created.
Fit(env, k) ==
  k.pc # "idle" =>
    /\ k.loaded \in [Profiles -> File]
    /\ \A p \in Profiles :
         k.loaded[p].managedUid # None => Own(env, p, k.loaded[p].managedUid)
    /\ \A p \in Profiles : Made(k, p) =>
         /\ k.plans[p] \in Plan
         /\ k.plans[p].action = "create" =>
              /\ k.loaded[p].managedUid = None
              /\ k.plans[p].uid # None => Own(env, p, k.plans[p].uid)
         /\ k.plans[p].action # "create" =>
              /\ k.plans[p].uid = k.loaded[p].managedUid /\ k.plans[p].uid # None
              /\ env[k.plans[p].uid].content = "credential" => k.touched

\* A command that has not listed the workspace has every profile still to visit.
Unvisited(k) == k.pc = "list" => k.todo = Profiles

\* No other command runs beside one that is alone.
Solo == \A c, d \in Commands :
  c # d /\ command[c].pc # "idle" /\ command[c].alone => command[d].pc = "idle"

\* A command that is alone has read the binding of every profile it has still to visit.
Recalls(fs, k) ==
  k.pc # "idle" /\ k.alone =>
    \A p \in Profiles :
      (k.pc \in {"apply", "bind"} => p \in k.todo) /\ fs[p].managedUid # None =>
        k.loaded[p].managedUid # None

Bound == \A p \in Profiles :
  files[p].managedUid # None => Own(environments, p, files[p].managedUid)

IInv ==
  /\ TypeOK /\ Solo /\ Bound
  /\ \A c \in Commands :
       Fit(environments, command[c]) /\ Recalls(files, command[c]) /\ Unvisited(command[c])

-----------------------------------------------------------------------------
\* What a step may do to the environments, whoever makes it: one that was made
\* for a profile stays so, and a credential is stored by people.
EnvironmentsGrow ==
  /\ \A p \in Profiles, e \in EnvironmentIds :
       Own(environments, p, e) => Own(environments', p, e)
  /\ \A e \in EnvironmentIds :
       environments'[e] \in Environment /\ environments'[e].content = "credential" =>
         environments[e] \in Environment /\ environments[e].content = "credential"

LEMMA FitStays ==
  ASSUME EnvironmentsGrow, NEW k \in Command, Fit(environments, k),
         environments' \in [EnvironmentIds -> Environment \cup {None}]
  PROVE  Fit(environments', k)
<1> SUFFICES ASSUME k.pc # "idle" PROVE Fit(environments', k)
  BY DEF Fit
<1>1. /\ k.loaded \in [Profiles -> File]
      /\ \A p \in Profiles :
           k.loaded[p].managedUid # None => Own(environments', p, k.loaded[p].managedUid)
  BY DEF Fit, File, Uids, EnvironmentsGrow
<1>2. ASSUME NEW p \in Profiles, Made(k, p)
      PROVE  /\ k.plans[p] \in Plan
             /\ k.plans[p].action = "create" =>
                  /\ k.loaded[p].managedUid = None
                  /\ k.plans[p].uid # None => Own(environments', p, k.plans[p].uid)
             /\ k.plans[p].action # "create" =>
                  /\ k.plans[p].uid = k.loaded[p].managedUid /\ k.plans[p].uid # None
                  /\ environments'[k.plans[p].uid].content = "credential" => k.touched
  <2>1. /\ k.plans[p] \in Plan
        /\ k.plans[p].action = "create" =>
             /\ k.loaded[p].managedUid = None
             /\ k.plans[p].uid # None => Own(environments, p, k.plans[p].uid)
        /\ k.plans[p].action # "create" =>
             /\ k.plans[p].uid = k.loaded[p].managedUid /\ k.plans[p].uid # None
             /\ environments[k.plans[p].uid].content = "credential" => k.touched
    BY <1>2 DEF Fit
  <2>2. k.plans[p].uid # None => k.plans[p].uid \in EnvironmentIds
    BY <2>1 DEF Plan, Uids
  <2>3. ASSUME k.plans[p].action # "create" PROVE Own(environments', p, k.plans[p].uid)
    BY <1>1, <2>1, <2>3, Zenon
  <2>4. ASSUME k.plans[p].action # "create", environments'[k.plans[p].uid].content = "credential"
        PROVE  k.touched
    BY <2>1, <2>2, <2>3, <2>4 DEF EnvironmentsGrow, Own
  <2>5. ASSUME k.plans[p].action = "create", k.plans[p].uid # None
        PROVE  Own(environments', p, k.plans[p].uid)
    BY <2>1, <2>2, <2>5 DEF EnvironmentsGrow
  <2> QED BY <2>1, <2>4, <2>5
<1> QED BY <1>1, <1>2, Zenon DEF Fit

\* One command goes on, and every other one stays as it is.
LEMMA OneCommand ==
  ASSUME IInv, NEW c \in Commands, NEW k \in Command,
         command' = [command EXCEPT ![c] = k],
         k.pc # "idle" => command[c].pc # "idle" /\ k.alone = command[c].alone,
         EnvironmentsGrow, environments' \in [EnvironmentIds -> Environment \cup {None}],
         files' \in [Profiles -> File], UNCHANGED counts, Bound',
         \A d \in Commands \ {c} : Recalls(files', command[d]),
         Fit(environments', k), Recalls(files', k), k.pc # "list"
  PROVE  IInv'
<1>1. TypeOK'
  BY DEF IInv, TypeOK, counts
<1>2. \A d \in Commands : command'[d] = IF d = c THEN k ELSE command[d]
  BY DEF IInv, TypeOK
<1>3. Solo'
  <2> SUFFICES ASSUME NEW a \in Commands, NEW b \in Commands, a # b,
                      command'[a].pc # "idle", command'[a].alone
               PROVE  command'[b].pc = "idle"
    BY DEF Solo
  <2>1. command[a].pc # "idle" /\ command[a].alone
    BY <1>2
  <2>2. command[b].pc = "idle"
    BY <2>1 DEF IInv, Solo
  <2> QED BY <1>2, <2>2
<1>4. ASSUME NEW d \in Commands PROVE Fit(environments', command'[d])
  <2>1. CASE d = c BY <2>1, <1>2
  <2>2. CASE d # c
    <3>1. command'[d] = command[d] BY <1>2, <2>2
    <3>2. command[d] \in Command /\ Fit(environments, command[d]) BY DEF IInv, TypeOK
    <3> QED BY <3>1, <3>2, FitStays
  <2> QED BY <2>1, <2>2
<1>5. ASSUME NEW d \in Commands PROVE Recalls(files', command'[d])
  BY <1>2
<1>6. ASSUME NEW d \in Commands PROVE Unvisited(command'[d])
  BY <1>2 DEF IInv, Unvisited
<1> QED BY <1>1, <1>3, <1>4, <1>5, <1>6 DEF IInv

\* The usual case: no file is written.
LEMMA OneCommandReads ==
  ASSUME IInv, NEW c \in Commands, NEW k \in Command,
         command' = [command EXCEPT ![c] = k],
         k.pc # "idle" => command[c].pc # "idle" /\ k.alone = command[c].alone,
         EnvironmentsGrow, environments' \in [EnvironmentIds -> Environment \cup {None}],
         UNCHANGED <<files, counts>>,
         Fit(environments', k), Recalls(files', k), k.pc # "list"
  PROVE  IInv'
<1>1. files' \in [Profiles -> File] /\ UNCHANGED counts
  BY DEF IInv, TypeOK
<1>2. Bound'
  BY DEF IInv, TypeOK, Bound, EnvironmentsGrow, File, Uids
<1>3. \A d \in Commands \ {c} : Recalls(files', command[d])
  BY DEF IInv
<1> QED BY <1>1, <1>2, <1>3, OneCommand

\* Fit reads no more of a command than this.
LEMMA FitReads ==
  ASSUME NEW env, NEW k, NEW j, Fit(env, k),
         j.pc = k.pc, j.loaded = k.loaded, j.plans = k.plans, j.todo = k.todo,
         j.touched = k.touched
  PROVE  Fit(env, j)
<1>1. \A p : Made(j, p) <=> Made(k, p)
  BY Zenon DEF Made
<1> QED BY <1>1, Zenon DEF Fit

LEMMA OverIsIdle == Over \in Command /\ Over.pc = "idle"
BY DEF Over, Command, Nothing

\* A command that ends, whatever it did to the environments, leaves all in order.
LEMMA Dies ==
  ASSUME IInv, NEW c \in Commands, Die(c), EnvironmentsGrow,
         environments' \in [EnvironmentIds -> Environment \cup {None}],
         UNCHANGED <<files, counts>>
  PROVE  IInv'
<1>1. command' = [command EXCEPT ![c] = Over]
  BY DEF Die
<1>2. Fit(environments', Over) /\ Recalls(files', Over)
  BY OverIsIdle DEF Fit, Recalls
<1> QED BY <1>1, <1>2, OverIsIdle, OneCommandReads

LEMMA Untouched ==
  ASSUME IInv, UNCHANGED environments
  PROVE  EnvironmentsGrow /\ environments' \in [EnvironmentIds -> Environment \cup {None}]
BY DEF IInv, TypeOK, EnvironmentsGrow, Own

-----------------------------------------------------------------------------
\* The steps.

LEMMA InitIInv == Init => IInv
<1> SUFFICES ASSUME Init PROVE IInv
  OBVIOUS
<1>1. PICK foreign \in [EnvironmentIds -> {None} \cup
                          [named : Profiles, maker : {None}, content : {"drifted"}]] :
        environments = foreign
  BY DEF Init
<1>2. environments \in [EnvironmentIds -> Environment \cup {None}]
  BY <1>1 DEF Environment, Contents
<1>3. files \in [Profiles -> File] /\ \A p \in Profiles : files[p].managedUid = None
  BY DEF Init, File, Uids
<1>4. /\ command \in [Commands -> Command]
      /\ \A c \in Commands : command[c].pc = "idle"
  BY OverIsIdle DEF Init
<1>5. edits \in 0..MaxEdits /\ runs \in 0..MaxRuns
  BY BoundsAssumption DEF Init
<1>6. \A c \in Commands :
        Fit(environments, command[c]) /\ Recalls(files, command[c]) /\ Unvisited(command[c])
  BY <1>4 DEF Fit, Recalls, Unvisited
<1> QED BY <1>2, <1>3, <1>4, <1>5, <1>6 DEF IInv, TypeOK, Solo, Bound

LEMMA StartKeeps ==
  ASSUME IInv, NEW c \in Commands, Start(c)
  PROVE  IInv'
<1> DEFINE others == {d \in Commands \ {c} : command[d].pc # "idle"}
           k == [Over EXCEPT !.pc = "list", !.loaded = files, !.todo = Profiles,
                             !.alone = (others = {})]
           other(d) == [command[d] EXCEPT !.alone = @ /\ d \notin others]
<1>1. \A d \in Commands : command'[d] = IF d = c THEN k ELSE other(d)
  BY DEF Start
<1>0. UNCHANGED <<environments, files>>
  BY DEF Start
<1>2. /\ k \in Command /\ k.pc = "list" /\ k.loaded = files /\ k.todo = Profiles
      /\ k.alone = (others = {})
  BY OverIsIdle DEF Over, Command, Nothing, IInv, TypeOK
<1>3. ASSUME NEW d \in Commands
      PROVE  /\ other(d) \in Command /\ other(d).pc = command[d].pc
             /\ other(d).loaded = command[d].loaded /\ other(d).plans = command[d].plans
             /\ other(d).todo = command[d].todo /\ other(d).touched = command[d].touched
             /\ other(d).alone = (command[d].alone /\ d \notin others)
  <2>1. command[d] \in Command BY DEF IInv, TypeOK
  <2> QED BY <2>1 DEF Command
<1>4. TypeOK'
  <2>1. command' \in [Commands -> Command] BY <1>1, <1>2, <1>3 DEF Start
  <2>2. runs < MaxRuns /\ runs' = runs + 1 BY DEF Start
  <2>3. runs' \in 0..MaxRuns BY <2>2, BoundsAssumption DEF IInv, TypeOK
  <2> QED BY <2>1, <2>3 DEF Start, IInv, TypeOK
<1> HIDE DEF k, other
<1>5. Solo'
  <2> SUFFICES ASSUME NEW a \in Commands, NEW b \in Commands, a # b,
                      command'[a].pc # "idle", command'[a].alone
               PROVE  command'[b].pc = "idle"
    BY DEF Solo
  <2>1. CASE a = c
    BY <2>1, <1>1, <1>2, <1>3
  <2>2. CASE a # c
    BY <2>2, <1>1, <1>3
  <2> QED BY <2>1, <2>2
<1>6. Bound'
  BY <1>0 DEF IInv, Bound
<1>7. ASSUME NEW d \in Commands PROVE Fit(environments', command'[d])
  <2>1. CASE d = c
    <3>1. \A p \in Profiles : ~Made(k, p) BY <1>2 DEF Made
    <3>2. /\ k.loaded \in [Profiles -> File]
          /\ \A p \in Profiles : k.loaded[p].managedUid # None =>
               Own(environments, p, k.loaded[p].managedUid)
      BY <1>2 DEF IInv, TypeOK, Bound
    <3>3. Fit(environments, k) BY <3>1, <3>2, Zenon DEF Fit
    <3> QED BY <2>1, <3>3, <1>0, <1>1
  <2>2. CASE d # c
    <3>1. Fit(environments, command[d]) BY DEF IInv
    <3>2. Fit(environments, other(d)) BY <3>1, <1>3, FitReads
    <3> QED BY <2>2, <3>2, <1>0, <1>1
  <2> QED BY <2>1, <2>2
<1>8. ASSUME NEW d \in Commands PROVE Recalls(files', command'[d])
  <2>1. CASE d = c BY <2>1, <1>0, <1>1, <1>2 DEF Recalls
  <2>2. CASE d # c
    <3>1. Recalls(files, command[d]) BY DEF IInv
    <3> QED BY <2>2, <3>1, <1>0, <1>1, <1>3 DEF Recalls
  <2> QED BY <2>1, <2>2
<1>9. ASSUME NEW d \in Commands PROVE Unvisited(command'[d])
  BY <1>1, <1>2, <1>3 DEF IInv, Unvisited
<1> QED BY <1>4, <1>5, <1>6, <1>7, <1>8, <1>9 DEF IInv

LEMMA ListKeeps ==
  ASSUME IInv, NEW c \in Commands, List(c)
  PROVE  IInv'
<1> DEFINE k == [command[c] EXCEPT !.pc = "plan",
                   !.listed = [p \in Profiles |-> {e \in Existing : environments[e].named = p}]]
<1>1. command[c] \in Command /\ command[c].pc = "list"
  BY DEF List, IInv, TypeOK
<1>0. command[c].todo = Profiles
  BY <1>1 DEF IInv, Unvisited
<1>2. command' = [command EXCEPT ![c] = k]
  BY DEF List
<1>3. /\ k \in Command /\ k.pc = "plan" /\ k.alone = command[c].alone
      /\ k.loaded = command[c].loaded /\ k.plans = command[c].plans
      /\ k.todo = command[c].todo /\ k.touched = command[c].touched
  BY <1>1 DEF Command, Existing
<1> HIDE DEF k
<1>4. UNCHANGED <<environments, files, counts>>
  BY DEF List
<1>5. Fit(environments, command[c]) /\ Recalls(files, command[c])
  BY DEF IInv
<1>6. Recalls(files', k)
  BY <1>1, <1>3, <1>4, <1>5 DEF Recalls
<1>7. ASSUME NEW p \in Profiles, Made(k, p) PROVE FALSE
  BY <1>1, <1>3, <1>7, <1>0 DEF Made
<1>8. Fit(environments', k)
  BY <1>1, <1>3, <1>4, <1>5, <1>7, Zenon DEF Fit
<1> QED BY <1>1, <1>2, <1>3, <1>4, <1>6, <1>8, Untouched, OneCommandReads

LEMMA PlanKeeps ==
  ASSUME IInv, NEW c \in Commands, PlanProfile(c)
  PROVE  IInv'
<1>1. command[c] \in Command /\ command[c].pc = "plan"
  BY DEF PlanProfile, IInv, TypeOK
<1>2. PICK p \in command[c].todo, plan \in Plan :
        /\ Planned(c, p, plan)
        /\ command' = [command EXCEPT
             ![c].plans[p] = plan,
             ![c].todo = @ \ {p},
             ![c].pc = IF command[c].todo = {p} THEN "planned" ELSE "plan"]
  BY DEF PlanProfile
<1> DEFINE k == [command[c] EXCEPT !.plans[p] = plan, !.todo = @ \ {p},
                   !.pc = IF command[c].todo = {p} THEN "planned" ELSE "plan"]
<1>3. command' = [command EXCEPT ![c] = k]
  BY <1>2
<1>4. p \in Profiles
  BY <1>1 DEF Command
<1>5. /\ k \in Command /\ k.alone = command[c].alone
      /\ k.pc = (IF command[c].todo = {p} THEN "planned" ELSE "plan")
      /\ k.loaded = command[c].loaded /\ k.todo = command[c].todo \ {p}
      /\ k.touched = command[c].touched
      /\ k.plans = [command[c].plans EXCEPT ![p] = plan]
  BY <1>1, <1>4 DEF Command
<1> HIDE DEF k
<1>6. UNCHANGED <<environments, files, counts>>
  BY DEF PlanProfile
<1>7. Fit(environments, command[c]) /\ Recalls(files, command[c])
  BY DEF IInv
<1>8. Recalls(files', k)
  BY <1>1, <1>5, <1>6, <1>7 DEF Recalls
<1>9. ASSUME NEW q \in Profiles, Made(k, q)
      PROVE  /\ k.plans[q] \in Plan
             /\ k.plans[q].action = "create" =>
                  /\ k.loaded[q].managedUid = None
                  /\ k.plans[q].uid # None => Own(environments, q, k.plans[q].uid)
             /\ k.plans[q].action # "create" =>
                  /\ k.plans[q].uid = k.loaded[q].managedUid /\ k.plans[q].uid # None
                  /\ environments[k.plans[q].uid].content = "credential" => k.touched
  <2>1. k.plans[q] = IF q = p THEN plan ELSE command[c].plans[q]
    BY <1>1, <1>5 DEF Command
  <2>2. CASE q = p
    <3>1. CASE Creates(c, p) /\ plan = [action |-> "create", uid |-> None]
      BY <2>1, <2>2, <3>1, <1>5 DEF Creates, Plan, Uids
    <3>2. CASE \E e \in EnvironmentIds :
                 /\ Updates(c, p, e)
                 /\ plan = [action |-> IF Same(c, p, e) THEN "unchanged" ELSE "update", uid |-> e]
      BY <2>1, <2>2, <3>2, <1>5 DEF Updates, Plan, Uids
    <3> QED BY <3>1, <3>2, <1>2 DEF Planned
  <2>3. CASE q # p
    <3>1. q \notin command[c].todo
      BY <1>1, <1>5, <1>9, <2>3 DEF Made
    <3>2. Made(command[c], q)
      BY <3>1, <1>1 DEF Made
    <3> QED BY <2>1, <2>3, <3>2, <1>1, <1>5, <1>7 DEF Fit
  <2> QED BY <2>2, <2>3
<1>10. Fit(environments', k)
  BY <1>1, <1>5, <1>6, <1>7, <1>9, Zenon DEF Fit
<1> QED BY <1>1, <1>3, <1>5, <1>6, <1>8, <1>10, Untouched, OneCommandReads

LEMMA VerifyKeeps ==
  ASSUME IInv, NEW c \in Commands, Verify(c)
  PROVE  IInv'
<1> DEFINE k == [Over EXCEPT
       !.ready = \A p \in Profiles : command[c].plans[p].action = "unchanged",
       !.touched = command[c].touched, !.alone = command[c].alone]
<1>1. command[c] \in Command
  BY DEF IInv, TypeOK
<1>2. command' = [command EXCEPT ![c] = k] /\ UNCHANGED <<environments, files, counts>>
  BY DEF Verify
<1>3. k \in Command /\ k.pc = "idle"
  BY <1>1, OverIsIdle DEF Over, Command, Nothing
<1> HIDE DEF k
<1>4. Fit(environments', k) /\ Recalls(files', k)
  BY <1>3 DEF Fit, Recalls
<1> QED BY <1>2, <1>3, <1>4, Untouched, OneCommandReads

LEMMA ApplyKeeps ==
  ASSUME IInv, NEW c \in Commands, Apply(c)
  PROVE  IInv'
<1> DEFINE k == [command[c] EXCEPT !.pc = "apply", !.todo = Profiles]
<1>1. command[c] \in Command /\ command[c].pc = "planned"
  BY DEF Apply, IInv, TypeOK
<1>2. command' = [command EXCEPT ![c] = k] /\ UNCHANGED <<environments, files, counts>>
  BY DEF Apply
<1>3. /\ k \in Command /\ k.pc = "apply" /\ k.alone = command[c].alone
      /\ k.loaded = command[c].loaded /\ k.plans = command[c].plans
      /\ k.todo = Profiles /\ k.touched = command[c].touched
  BY <1>1 DEF Command
<1> HIDE DEF k
<1>4. Fit(environments, command[c]) /\ Recalls(files, command[c])
  BY DEF IInv
<1>5. Recalls(files', k)
  BY <1>1, <1>2, <1>3, <1>4 DEF Recalls
<1>6. \A p \in Profiles : Made(command[c], p)
  BY <1>1 DEF Made
<1>7. Fit(environments', k)
  BY <1>1, <1>2, <1>3, <1>4, <1>6, Zenon DEF Fit
<1> QED BY <1>1, <1>2, <1>3, <1>5, <1>7, Untouched, OneCommandReads

LEMMA RaiseKeeps ==
  ASSUME IInv, NEW c \in Commands, Raise(c)
  PROVE  IInv'
BY Untouched, Dies DEF Raise

\* A loop that goes on after p, whose own file may just have been written.
LEMMA DoneKeeps ==
  ASSUME IInv, NEW c \in Commands, NEW p \in command[c].todo, Done(c, p),
         command[c].pc \in {"apply", "bind"},
         EnvironmentsGrow, environments' \in [EnvironmentIds -> Environment \cup {None}],
         files' \in [Profiles -> File], UNCHANGED counts, Bound',
         \A d \in Commands \ {c} : Recalls(files', command[d]),
         \A q \in Profiles \ {p} : files'[q] = files[q]
  PROVE  IInv'
<1>1. CASE command[c].todo = {p}
  <2>1. command' = [command EXCEPT ![c] = Over]
    BY <1>1 DEF Done, Die
  <2>2. Fit(environments', Over) /\ Recalls(files', Over)
    BY OverIsIdle DEF Fit, Recalls
  <2> QED BY <2>1, <2>2, OverIsIdle, OneCommand
<1>2. CASE command[c].todo # {p}
  <2> DEFINE k == [command[c] EXCEPT !.todo = @ \ {p}, !.pc = "apply"]
  <2>1. command[c] \in Command
    BY DEF IInv, TypeOK
  <2>2. command' = [command EXCEPT ![c] = k]
    BY <1>2 DEF Done
  <2>3. /\ k \in Command /\ k.pc = "apply" /\ k.alone = command[c].alone
        /\ k.loaded = command[c].loaded /\ k.plans = command[c].plans
        /\ k.todo = command[c].todo \ {p} /\ k.touched = command[c].touched
    BY <2>1 DEF Command
  <2> HIDE DEF k
  <2>4. Fit(environments', command[c]) /\ Recalls(files, command[c])
    BY <2>1, FitStays DEF IInv
  <2>5. Recalls(files', k)
    BY <2>3, <2>4 DEF Recalls
  <2>6. \A q : Made(k, q) => Made(command[c], q)
    BY <2>3 DEF Made
  <2>7. Fit(environments', k)
    BY <2>3, <2>4, <2>6, Zenon DEF Fit
  <2> QED BY <2>1, <2>2, <2>3, <2>5, <2>7, OneCommand
<1> QED BY <1>1, <1>2

\* The same when no file was written.
LEMMA DoneReads ==
  ASSUME IInv, NEW c \in Commands, NEW p \in command[c].todo, Done(c, p),
         command[c].pc = "apply",
         EnvironmentsGrow, environments' \in [EnvironmentIds -> Environment \cup {None}],
         UNCHANGED <<files, counts>>
  PROVE  IInv'
<1>1. files' \in [Profiles -> File] /\ UNCHANGED counts
  BY DEF IInv, TypeOK
<1>2. Bound'
  BY DEF IInv, TypeOK, Bound, EnvironmentsGrow, File, Uids
<1>3. \A d \in Commands \ {c} : Recalls(files', command[d])
  BY DEF IInv
<1> QED BY <1>1, <1>2, <1>3, DoneKeeps

\* What is created or updated was made for the profile it is written for.
LEMMA CreateGrows ==
  ASSUME IInv, NEW c \in Commands, NEW p \in Profiles, NEW e \in EnvironmentIds \ Existing,
         command[c].pc # "idle",
         environments' = [environments EXCEPT ![e] =
            [named |-> p, maker |-> p, content |-> command[c].loaded[p].edition]]
  PROVE  /\ EnvironmentsGrow /\ Own(environments', p, e)
         /\ environments' \in [EnvironmentIds -> Environment \cup {None}]
<1>1. command[c].loaded[p].edition \in Editions
  BY DEF IInv, Fit, File
<1> DEFINE made == [named |-> p, maker |-> p, content |-> command[c].loaded[p].edition]
<1>2. made \in Environment /\ made.maker = p /\ made.content # "credential"
  BY <1>1 DEF Environment, Contents
<1> HIDE DEF made
<1>3. environments[e] = None /\ environments \in [EnvironmentIds -> Environment \cup {None}]
  BY DEF Existing, IInv, TypeOK
<1>4. environments' = [environments EXCEPT ![e] = made]
  BY DEF made
<1> QED BY <1>2, <1>3, <1>4 DEF EnvironmentsGrow, Own

LEMMA UpdateGrows ==
  ASSUME IInv, NEW c \in Commands, NEW p \in Profiles, command[c].pc = "apply",
         Update(c, p)
  PROVE  /\ EnvironmentsGrow
         /\ environments' \in [EnvironmentIds -> Environment \cup {None}]
<1> DEFINE u == command[c].plans[p].uid
           made == [environments[u] EXCEPT !.named = p, !.content = command[c].loaded[p].edition]
<1>1. command[c].loaded[p].edition \in Editions
  BY DEF IInv, Fit, File
<1>2. u \in EnvironmentIds /\ Own(environments, p, u)
  <2>1. Made(command[c], p) BY DEF Made
  <2>2. /\ command[c].plans[p] \in Plan
        /\ u = command[c].loaded[p].managedUid /\ u # None
    BY <2>1 DEF IInv, Fit, Update
  <2>3. Own(environments, p, command[c].loaded[p].managedUid)
    BY <2>2 DEF IInv, Fit
  <2> QED BY <2>2, <2>3 DEF Plan, Uids
<1> HIDE DEF u
<1>3. made \in Environment /\ made.maker = environments[u].maker /\ made.content # "credential"
  BY <1>1, <1>2 DEF Environment, Contents, Own
<1>4. environments' = [environments EXCEPT ![u] = made]
  BY DEF Update, u
<1> HIDE DEF made
<1>5. environments \in [EnvironmentIds -> Environment \cup {None}]
  BY DEF IInv, TypeOK
<1> QED BY <1>2, <1>3, <1>4, <1>5 DEF EnvironmentsGrow, Own

LEMMA ApplyProfileKeeps ==
  ASSUME IInv, NEW c \in Commands, ApplyProfile(c)
  PROVE  IInv'
<1>1. /\ command[c] \in Command /\ command[c].pc = "apply"
      /\ UNCHANGED <<files, counts>>
  BY DEF ApplyProfile, IInv, TypeOK
<1>2. PICK p \in command[c].todo : Create(c, p) \/ Update(c, p) \/ Leave(c, p)
  BY DEF ApplyProfile
<1>3. p \in Profiles
  BY <1>1 DEF Command
<1>4. CASE Create(c, p)
  <2>1. PICK e \in EnvironmentIds \ Existing :
          /\ environments' = [environments EXCEPT ![e] =
               [named |-> p, maker |-> p, content |-> command[c].loaded[p].edition]]
          /\ \/ command' = [command EXCEPT ![c].pc = "bind", ![c].plans[p].uid = e]
             \/ Die(c)
    BY <1>4 DEF Create
  <2>2. /\ EnvironmentsGrow /\ Own(environments', p, e)
        /\ environments' \in [EnvironmentIds -> Environment \cup {None}]
    BY <1>1, <1>3, <2>1, CreateGrows
  <2>3. CASE Die(c)
    BY <1>1, <2>2, <2>3, Dies
  <2>4. CASE command' = [command EXCEPT ![c].pc = "bind", ![c].plans[p].uid = e]
    <3>1. /\ Fit(environments, command[c]) /\ Recalls(files, command[c])
          /\ Fit(environments', command[c])
      BY <1>1, <2>2, FitStays DEF IInv
    <3>2. \A q \in Profiles : Made(command[c], q)
      BY <1>1 DEF Made
    <3>3. command[c].plans[p] \in Plan /\ command[c].plans[p].action = "create"
      BY <1>1, <1>3, <1>4, <3>1, <3>2 DEF Fit, Create
    <3> DEFINE k == [command[c] EXCEPT !.pc = "bind", !.plans[p].uid = e]
               plan == [command[c].plans[p] EXCEPT !.uid = e]
    <3>4. command' = [command EXCEPT ![c] = k]
      BY <2>4
    <3>5. plan \in Plan /\ plan.action = "create" /\ plan.uid = e
      BY <3>3 DEF Plan, Uids
    <3>6. /\ k.pc = "bind" /\ k.alone = command[c].alone
          /\ k.loaded = command[c].loaded /\ k.todo = command[c].todo
          /\ k.touched = command[c].touched
          /\ k.plans = [command[c].plans EXCEPT ![p] = plan]
      BY <1>1, <1>3 DEF Command
    <3> HIDE DEF plan
    <3>7. k \in Command
      BY <1>1, <1>3, <3>5 DEF Command, plan
    <3> HIDE DEF k
    <3>8. Recalls(files', k)
      BY <1>1, <3>1, <3>6 DEF Recalls
    <3>9. \A q \in Profiles :
            k.plans[q] = IF q = p THEN plan ELSE command[c].plans[q]
      BY <1>1, <3>6 DEF Command
    <3>10. k.loaded[p].managedUid = None
      BY <1>1, <1>3, <3>1, <3>2, <3>3, <3>6 DEF Fit
    <3>11. ASSUME NEW q \in Profiles
           PROVE  /\ k.plans[q] \in Plan
                  /\ k.plans[q].action = "create" =>
                       /\ k.loaded[q].managedUid = None
                       /\ k.plans[q].uid # None => Own(environments', q, k.plans[q].uid)
                  /\ k.plans[q].action # "create" =>
                       /\ k.plans[q].uid = k.loaded[q].managedUid /\ k.plans[q].uid # None
                       /\ environments'[k.plans[q].uid].content = "credential" => k.touched
      <4>1. CASE q = p BY <4>1, <2>2, <3>5, <3>9, <3>10
      <4>2. CASE q # p BY <4>2, <1>1, <3>1, <3>2, <3>6, <3>9 DEF Fit
      <4> QED BY <4>1, <4>2
    <3>12. Fit(environments', k)
      BY <1>1, <3>1, <3>6, <3>11, Zenon DEF Fit
    <3> QED BY <1>1, <2>2, <3>4, <3>6, <3>7, <3>8, <3>12, OneCommandReads
  <2> QED BY <2>1, <2>3, <2>4
<1>5. CASE Update(c, p)
  <2>1. Done(c, p) \/ Die(c)
    BY <1>5 DEF Update
  <2> QED BY <1>1, <1>3, <1>5, <2>1, UpdateGrows, DoneReads, Dies
<1>6. CASE Leave(c, p)
  BY <1>1, <1>6, Untouched, DoneReads DEF Leave
<1> QED BY <1>2, <1>4, <1>5, <1>6

LEMMA BindKeeps ==
  ASSUME IInv, NEW c \in Commands, Bind(c)
  PROVE  IInv'
<1>1. /\ command[c] \in Command /\ command[c].pc = "bind"
      /\ UNCHANGED <<environments, counts>>
  BY DEF Bind, IInv, TypeOK
<1>2. PICK p \in command[c].todo :
        /\ command[c].plans[p].action = "create" /\ command[c].plans[p].uid # None
        /\ files' = [files EXCEPT ![p] = [managedUid |-> command[c].plans[p].uid,
                                          edition |-> command[c].loaded[p].edition]]
        /\ Done(c, p)
  BY DEF Bind
<1>3. p \in Profiles /\ Made(command[c], p)
  BY <1>1 DEF Command, Made
<1>4. /\ command[c].loaded \in [Profiles -> File]
      /\ command[c].plans[p] \in Plan
      /\ Own(environments, p, command[c].plans[p].uid)
  BY <1>1, <1>2, <1>3 DEF IInv, Fit
<1> DEFINE new == [managedUid |-> command[c].plans[p].uid,
                   edition |-> command[c].loaded[p].edition]
<1>5. new \in File /\ new.managedUid = command[c].plans[p].uid
  BY <1>3, <1>4 DEF File, Plan
<1>6. files' = [files EXCEPT ![p] = new] /\ files \in [Profiles -> File]
  BY <1>2 DEF IInv, TypeOK
<1> HIDE DEF new
<1>7. files' \in [Profiles -> File] /\ \A q \in Profiles \ {p} : files'[q] = files[q]
  BY <1>5, <1>6
<1>8. Bound'
  <2> SUFFICES ASSUME NEW q \in Profiles, files'[q].managedUid # None
               PROVE  Own(environments', q, files'[q].managedUid)
    BY DEF Bound
  <2>1. CASE q = p BY <2>1, <1>1, <1>4, <1>5, <1>6
  <2>2. CASE q # p BY <2>2, <1>1, <1>7 DEF IInv, Bound
  <2> QED BY <2>1, <2>2
<1>9. ASSUME NEW d \in Commands \ {c} PROVE Recalls(files', command[d])
  BY <1>1 DEF IInv, Solo, Recalls
<1>10. UNCHANGED counts
  BY <1>1
<1> QED BY <1>1, <1>2, <1>7, <1>8, <1>9, <1>10, Untouched, DoneKeeps

\* What people do to the environments: none is made, and whose it is stays.
LEMMA EditHides ==
  ASSUME IInv, Edit
  PROVE  /\ environments' \in [EnvironmentIds -> Environment \cup {None}]
         /\ \A p \in Profiles, e \in EnvironmentIds :
              Own(environments', p, e) <=> Own(environments, p, e)
         /\ \A e \in EnvironmentIds : environments'[e] # environments[e] =>
              environments'[e].named = None \/ environments'[e].content \notin Editions
         /\ \A e \in EnvironmentIds : environments'[e] # None <=> environments[e] # None
<1>1. environments \in [EnvironmentIds -> Environment \cup {None}]
  BY DEF IInv, TypeOK
<1>2. CASE UNCHANGED environments
  BY <1>1, <1>2 DEF Own
<1>3. ASSUME NEW e \in Existing, environments' = [environments EXCEPT ![e].named = None]
      PROVE  /\ environments' \in [EnvironmentIds -> Environment \cup {None}]
             /\ \A p \in Profiles, f \in EnvironmentIds :
                  Own(environments', p, f) <=> Own(environments, p, f)
             /\ \A f \in EnvironmentIds : environments'[f] # environments[f] =>
                  environments'[f].named = None
             /\ \A f \in EnvironmentIds : environments'[f] # None <=> environments[f] # None
  <2> DEFINE new == [environments[e] EXCEPT !.named = None]
  <2>1. environments[e] \in Environment /\ e \in EnvironmentIds
    BY <1>1 DEF Existing
  <2>2. new \in Environment /\ new.named = None /\ new.maker = environments[e].maker
    BY <2>1 DEF Environment
  <2>3. environments' = [environments EXCEPT ![e] = new]
    BY <1>3
  <2> HIDE DEF new
  <2> QED BY <1>1, <2>1, <2>2, <2>3 DEF Own
<1>4. ASSUME NEW e \in Existing, NEW content \in {"drifted", "credential"},
             environments' = [environments EXCEPT ![e].content = content]
      PROVE  /\ environments' \in [EnvironmentIds -> Environment \cup {None}]
             /\ \A p \in Profiles, f \in EnvironmentIds :
                  Own(environments', p, f) <=> Own(environments, p, f)
             /\ \A f \in EnvironmentIds : environments'[f] # environments[f] =>
                  environments'[f].content \notin Editions
             /\ \A f \in EnvironmentIds : environments'[f] # None <=> environments[f] # None
  <2> DEFINE new == [environments[e] EXCEPT !.content = content]
  <2>1. environments[e] \in Environment /\ e \in EnvironmentIds
    BY <1>1 DEF Existing
  <2>2. /\ new \in Environment /\ new.content \notin Editions
        /\ new.maker = environments[e].maker
    BY <2>1 DEF Environment, Contents
  <2>3. environments' = [environments EXCEPT ![e] = new]
    BY <1>4
  <2> HIDE DEF new
  <2> QED BY <1>1, <2>1, <2>2, <2>3 DEF Own
<1>5. \/ UNCHANGED environments
      \/ \E e \in Existing :
           \/ environments' = [environments EXCEPT ![e].named = None]
           \/ \E content \in {"drifted", "credential"} :
                environments' = [environments EXCEPT ![e].content = content]
  BY DEF Edit
<1> QED BY <1>2, <1>3, <1>4, <1>5

LEMMA EditKeeps ==
  ASSUME IInv, Edit
  PROVE  IInv'
<1> DEFINE seen(d) == [command[d] EXCEPT
             !.touched = @ \/ command[d].pc # "idle" \/ command[d].ready]
<1>1. /\ command' = [d \in Commands |-> seen(d)]
      /\ edits < MaxEdits /\ edits' = edits + 1 /\ UNCHANGED runs
  BY DEF Edit
<1>2. ASSUME NEW d \in Commands
      PROVE  /\ seen(d) \in Command /\ seen(d).pc = command[d].pc
             /\ seen(d).loaded = command[d].loaded /\ seen(d).plans = command[d].plans
             /\ seen(d).todo = command[d].todo /\ seen(d).alone = command[d].alone
             /\ seen(d).touched = (command[d].touched \/ command[d].pc # "idle" \/ command[d].ready)
  <2>1. command[d] \in Command BY DEF IInv, TypeOK
  <2> QED BY <2>1 DEF Command
<1> HIDE DEF seen
<1>3. /\ files \in [Profiles -> File] /\ files' \in [Profiles -> File]
      /\ \A p \in Profiles : files'[p].managedUid \in {None, files[p].managedUid}
  <2>1. files \in [Profiles -> File]
    BY DEF IInv, TypeOK
  <2>2. \/ UNCHANGED files
        \/ \E p \in Profiles :
             \/ \E edition \in Editions : files' = [files EXCEPT ![p].edition = edition]
             \/ files' = [files EXCEPT ![p].managedUid = None]
    BY DEF Edit
  <2> QED BY <2>1, <2>2 DEF File, Uids
<1>4. TypeOK'
  <2>1. edits' \in 0..MaxEdits BY <1>1, BoundsAssumption DEF IInv, TypeOK
  <2>2. command' \in [Commands -> Command] BY <1>1, <1>2
  <2> QED BY <1>1, <1>3, <2>1, <2>2, EditHides DEF IInv, TypeOK
<1>5. Solo'
  BY <1>1, <1>2 DEF IInv, Solo
<1>6. Bound'
  BY <1>3, EditHides DEF IInv, Bound, File, Uids
<1>7. ASSUME NEW d \in Commands PROVE Fit(environments', command'[d])
  <2>1. command'[d] = seen(d)
    BY <1>1
  <2>2. Fit(environments, command[d])
    BY DEF IInv
  <2> SUFFICES ASSUME command[d].pc # "idle" PROVE Fit(environments', seen(d))
    BY <2>1, <1>2 DEF Fit
  <2>3. /\ command[d].loaded \in [Profiles -> File]
        /\ \A p \in Profiles : command[d].loaded[p].managedUid # None =>
             Own(environments', p, command[d].loaded[p].managedUid)
    BY <2>2, EditHides DEF Fit, File, Uids
  <2>4. ASSUME NEW p \in Profiles, Made(command[d], p)
        PROVE  /\ command[d].plans[p] \in Plan
               /\ command[d].plans[p].action = "create" =>
                    /\ command[d].loaded[p].managedUid = None
                    /\ command[d].plans[p].uid # None => Own(environments', p, command[d].plans[p].uid)
               /\ command[d].plans[p].action # "create" =>
                    /\ command[d].plans[p].uid = command[d].loaded[p].managedUid
                    /\ command[d].plans[p].uid # None
    BY <2>2, <2>4, EditHides DEF Fit, Plan, Uids
  <2>5. \A p : Made(seen(d), p) <=> Made(command[d], p)
    BY <1>2, Zenon DEF Made
  <2>6. seen(d).touched
    BY <1>2
  <2> QED BY <1>2, <2>3, <2>4, <2>5, <2>6, Zenon DEF Fit
<1>8. ASSUME NEW d \in Commands PROVE Recalls(files', command'[d])
  BY <1>1, <1>2, <1>3 DEF IInv, Recalls, File
<1>9. ASSUME NEW d \in Commands PROVE Unvisited(command'[d])
  BY <1>1, <1>2 DEF IInv, Unvisited
<1> QED BY <1>4, <1>5, <1>6, <1>7, <1>8, <1>9 DEF IInv

LEMMA StutterKeeps ==
  ASSUME IInv, UNCHANGED vars
  PROVE  IInv'
<1>1. /\ environments' = environments /\ files' = files /\ command' = command
      /\ edits' = edits /\ runs' = runs
  BY DEF vars, counts
<1>2. TypeOK'
  BY <1>1 DEF IInv, TypeOK
<1>3. Solo' /\ Bound'
  BY <1>1 DEF IInv, Solo, Bound
<1>4. ASSUME NEW d \in Commands
      PROVE  Fit(environments', command'[d]) /\ Recalls(files', command'[d])
               /\ Unvisited(command'[d])
  BY <1>1 DEF IInv
<1> QED BY <1>2, <1>3, <1>4 DEF IInv

LEMMA InductiveStep == IInv /\ [Next]_vars => IInv'
<1> SUFFICES ASSUME IInv, [Next]_vars PROVE IInv'
  OBVIOUS
<1>1. ASSUME NEW c \in Commands, Step(c) PROVE IInv'
  BY <1>1, StartKeeps, ListKeeps, PlanKeeps, VerifyKeeps, ApplyKeeps, ApplyProfileKeeps,
     BindKeeps, RaiseKeeps DEF Step
<1> QED BY <1>1, EditKeeps, StutterKeeps DEF Next

\* In every interleaving of load_profiles, plan_internal and apply_internal a
\* binding, read, planned or written, is to an environment made for its profile.
THEOREM InternalInvariant == Spec => []IInv
BY InitIInv, InductiveStep, PTL DEF Spec

\* Every step of every command and every edit keeps the state within its types.
THEOREM InternalTypeSafe == Spec => []TypeOK
<1>1. IInv => TypeOK
  BY DEF IInv
<1> QED BY <1>1, InternalInvariant, PTL

-----------------------------------------------------------------------------
\* What a step may do to one environment.

\* Only a create or an update writes an edition, each for the environment of its profile.
LEMMA WritesAreOwn ==
  ASSUME IInv, [Next]_vars, NEW e \in Existing,
         environments'[e] # environments[e], environments'[e].content \in Editions,
         environments'[e].named # None
  PROVE  /\ environments[e].maker = environments'[e].named
         /\ \E c \in Commands :
              /\ command[c].pc = "apply"
              /\ command[c].loaded[environments[e].maker].managedUid = e
              /\ environments[e].content = "credential" => command[c].touched
<1>1. environments \in [EnvironmentIds -> Environment \cup {None}] /\ e \in EnvironmentIds
      /\ environments[e] \in Environment
  BY DEF IInv, TypeOK, Existing
<1>2. ~Edit /\ ~UNCHANGED vars
  BY <1>1, EditHides DEF vars
<1>3. PICK c \in Commands : ApplyProfile(c)
  BY <1>2 DEF Next, Step, Start, List, PlanProfile, Verify, Apply, Bind, Raise
<1>4. /\ command[c] \in Command /\ command[c].pc = "apply"
      /\ Fit(environments, command[c])
  BY <1>3 DEF ApplyProfile, IInv, TypeOK
<1>5. PICK p \in command[c].todo : Create(c, p) \/ Update(c, p)
  BY <1>3 DEF ApplyProfile, Leave
<1>6. p \in Profiles /\ Made(command[c], p)
  BY <1>4 DEF Command, Made
<1>7. ~Create(c, p)
  BY <1>1 DEF Create
<1>8. Update(c, p)
  BY <1>5, <1>7
<1> DEFINE u == command[c].plans[p].uid
<1>9. /\ u = command[c].loaded[p].managedUid /\ Own(environments, p, u)
      /\ environments[u].content = "credential" => command[c].touched
  BY <1>4, <1>6, <1>8 DEF Fit, Update
<1>10. environments' = [environments EXCEPT
         ![u].named = p, ![u].content = command[c].loaded[p].edition]
  BY <1>8 DEF Update
<1> HIDE DEF u
<1>11. e = u
  BY <1>1, <1>10
<1>12. environments'[e].named = p
  BY <1>1, <1>10, <1>11 DEF Environment
<1> QED BY <1>4, <1>9, <1>11, <1>12 DEF Own

\* Overlapping commands and authors editing meanwhile never make a command write
\* to an environment that is not its profile's.
THEOREM OnlyOwnIsWritten == Spec => ForeignKept
<1>1. IInv /\ [Next]_vars =>
        [\A e \in Existing :
           environments'[e] # environments[e] /\ environments'[e].content \in Editions
             /\ environments'[e].named # None =>
           /\ environments[e].maker = environments'[e].named
           /\ \E c \in Commands :
                /\ command[c].pc = "apply"
                /\ command[c].loaded[environments[e].maker].managedUid = e
                /\ environments[e].content = "credential" => command[c].touched]_vars
  BY WritesAreOwn
<1> QED BY <1>1, InternalInvariant, PTL DEF Spec, ForeignKept

\* Commands that run one at a time create an environment only for an unbound profile.
LEMMA BoundGetsNone ==
  ASSUME IInv, [Next]_vars,
         \A c \in Commands : command[c].pc # "idle" => command[c].alone,
         NEW q \in Profiles, files[q].managedUid # None
  PROVE  CreatedFor(q)' \subseteq CreatedFor(q)
<1>1. environments \in [EnvironmentIds -> Environment \cup {None}]
  BY DEF IInv, TypeOK
<1>2. CASE UNCHANGED environments
  BY <1>2 DEF CreatedFor, Existing
<1>3. CASE Edit
  <2>1. ASSUME NEW e \in EnvironmentIds, environments'[e] # None, environments'[e].maker = q
        PROVE  environments[e] # None /\ environments[e].maker = q
    BY <1>1, <1>3, <2>1, EditHides DEF Own
  <2> QED BY <2>1 DEF CreatedFor, Existing
<1>4. ASSUME NEW c \in Commands, ApplyProfile(c)
      PROVE  CreatedFor(q)' \subseteq CreatedFor(q)
  <2>1. /\ command[c] \in Command /\ command[c].pc = "apply" /\ command[c].alone
        /\ Fit(environments, command[c]) /\ Recalls(files, command[c])
    BY <1>4 DEF ApplyProfile, IInv, TypeOK
  <2>2. PICK p \in command[c].todo : Create(c, p) \/ Update(c, p) \/ Leave(c, p)
    BY <1>4 DEF ApplyProfile
  <2>3. p \in Profiles /\ Made(command[c], p)
    BY <2>1 DEF Command, Made
  <2>4. CASE Create(c, p)
    <3>1. command[c].loaded[p].managedUid = None
      BY <2>1, <2>3, <2>4 DEF Fit, Create
    <3>2. p # q
      BY <2>1, <2>2, <3>1 DEF Recalls
    <3>3. PICK e \in EnvironmentIds \ Existing :
            environments' = [environments EXCEPT ![e] =
              [named |-> p, maker |-> p, content |-> command[c].loaded[p].edition]]
      BY <2>4 DEF Create
    <3>4. \A f \in EnvironmentIds : f # e => environments'[f] = environments[f]
      BY <1>1, <3>3
    <3>5. environments'[e].maker = p
      BY <1>1, <3>3
    <3> QED BY <3>2, <3>4, <3>5 DEF CreatedFor, Existing
  <2>5. CASE Update(c, p)
    <3> DEFINE u == command[c].plans[p].uid
    <3>1. Own(environments, p, u) /\ u \in EnvironmentIds
      BY <2>1, <2>3, <2>5 DEF Fit, Update, Plan, Uids
    <3>2. environments' = [environments EXCEPT
            ![u].named = p, ![u].content = command[c].loaded[p].edition]
      BY <2>5 DEF Update
    <3> HIDE DEF u
    <3>3. \A f \in EnvironmentIds : f # u => environments'[f] = environments[f]
      BY <1>1, <3>2
    <3>4. environments'[u].maker = environments[u].maker
      BY <1>1, <3>1, <3>2 DEF Own, Environment
    <3>5. environments[u] # None
      BY <3>1 DEF Own
    <3> QED BY <3>3, <3>4, <3>5 DEF CreatedFor, Existing
  <2>6. CASE Leave(c, p)
    BY <1>2, <2>6 DEF Leave
  <2> QED BY <2>2, <2>4, <2>5, <2>6
<1> QED BY <1>2, <1>3, <1>4
  DEF Next, Step, Start, List, PlanProfile, Verify, Apply, Bind, Raise, vars

\* A bound profile gets no second environment from commands that run one at a
\* time, wherever they died and whatever became of the first.
THEOREM BoundIsNotRecreated == Spec => BoundNotRecreated
<1>1. IInv /\ [Next]_vars =>
        [(\A c \in Commands : command[c].pc # "idle" => command[c].alone) =>
           \A p \in Profiles :
              files[p].managedUid # None => CreatedFor(p)' \subseteq CreatedFor(p)]_vars
  BY BoundGetsNone
<1> QED BY <1>1, InternalInvariant, PTL DEF Spec, BoundNotRecreated

-----------------------------------------------------------------------------
\* Why ready means equal.

\* The profile's own environment equals its file.
Right(env, fs, p) ==
  /\ fs[p].managedUid \in {e \in EnvironmentIds : env[e] # None}
  /\ env[fs[p].managedUid] = [named |-> p, maker |-> p, content |-> fs[p].edition]

\* The answer of k is still to be believed.
Stands(k) == k.ready /\ k.alone /\ ~k.touched

\* A command nobody disturbed has read the files, and what it found equal is.
Fresh(env, fs, k) ==
  k.pc \in {"list", "plan", "planned"} /\ k.alone /\ ~k.touched =>
    /\ k.loaded = fs
    /\ \A p \in Profiles : Made(k, p) /\ k.plans[p].action = "unchanged" => Right(env, fs, p)

\* A command that runs when all is equal has found, and does, nothing else.
Calm(fs, k) ==
  /\ k.loaded = fs /\ k.pc # "bind"
  /\ \A p \in Profiles : Made(k, p) => k.plans[p].action = "unchanged"

SomeStands == \E r \in Commands : Stands(command[r])

ReadyInv ==
  /\ IInv
  /\ SomeStands => \A p \in Profiles : Right(environments, files, p)
  /\ \A d \in Commands :
       /\ Fresh(environments, files, command[d])
       /\ SomeStands /\ command[d].pc # "idle" => Calm(files, command[d])

\* A step of one command that writes nothing.
LEMMA OneCommandLooks ==
  ASSUME ReadyInv, IInv', NEW c \in Commands, NEW k \in Command,
         command' = [command EXCEPT ![c] = k], UNCHANGED <<environments, files>>,
         Stands(k) => \A p \in Profiles : Right(environments, files, p),
         Stands(k) => \/ Stands(command[c])
                      \/ \A d \in Commands : command'[d].pc = "idle",
         Fresh(environments, files, k),
         SomeStands /\ k.pc # "idle" => Calm(files, k)
  PROVE  ReadyInv'
<1>1. \A d \in Commands : command'[d] = IF d = c THEN k ELSE command[d]
  BY DEF ReadyInv, IInv, TypeOK
<1>2. SomeStands' => SomeStands \/ \A d \in Commands : command'[d].pc = "idle"
  BY <1>1 DEF SomeStands
<1>3. SomeStands' => \A p \in Profiles : Right(environments', files', p)
  BY <1>1 DEF SomeStands, ReadyInv
<1>4. ASSUME NEW d \in Commands
      PROVE  /\ Fresh(environments', files', command'[d])
             /\ SomeStands' /\ command'[d].pc # "idle" => Calm(files', command'[d])
  BY <1>1, <1>2 DEF ReadyInv
<1> QED BY <1>3, <1>4 DEF ReadyInv

\* A step of one command that may write, when there is no answer to believe.
LEMMA OneCommandWrites ==
  ASSUME ReadyInv, IInv', NEW c \in Commands, NEW k \in Command,
         command' = [command EXCEPT ![c] = k], ~SomeStands, ~Stands(k),
         command[c].pc # "idle", k.pc \notin {"list", "plan", "planned"}
  PROVE  ReadyInv'
<1>1. \A d \in Commands : command'[d] = IF d = c THEN k ELSE command[d]
  BY DEF ReadyInv, IInv, TypeOK
<1>2. ~SomeStands'
  BY <1>1 DEF SomeStands
<1>3. ASSUME NEW d \in Commands PROVE Fresh(environments', files', command'[d])
  BY <1>1 DEF Fresh, ReadyInv, IInv, Solo
<1> QED BY <1>2, <1>3 DEF ReadyInv

LEMMA OverIsQuiet ==
  /\ Over \in Command /\ Over.pc = "idle" /\ ~Stands(Over)
  /\ \A env, fs : Fresh(env, fs, Over)
<1>1. Over.pc = "idle" /\ ~Over.ready
  BY DEF Over
<1> QED BY <1>1, OverIsIdle DEF Fresh, Stands

LEMMA InitReady == Init => ReadyInv
<1> SUFFICES ASSUME Init PROVE ReadyInv
  OBVIOUS
<1>1. \A c \in Commands : command[c] = Over
  BY DEF Init
<1> QED BY <1>1, InitIInv, OverIsQuiet DEF ReadyInv, SomeStands

LEMMA StartReady ==
  ASSUME ReadyInv, IInv', NEW c \in Commands, Start(c)
  PROVE  ReadyInv'
<1> DEFINE others == {d \in Commands \ {c} : command[d].pc # "idle"}
           k == [Over EXCEPT !.pc = "list", !.loaded = files, !.todo = Profiles,
                             !.alone = (others = {})]
           other(d) == [command[d] EXCEPT !.alone = @ /\ d \notin others]
<1>1. \A d \in Commands : command'[d] = IF d = c THEN k ELSE other(d)
  BY DEF Start
<1>2. k.pc = "list" /\ k.loaded = files /\ k.todo = Profiles /\ ~k.ready
  BY DEF Over
<1>3. ASSUME NEW d \in Commands
      PROVE  /\ other(d).pc = command[d].pc /\ other(d).loaded = command[d].loaded
             /\ other(d).plans = command[d].plans /\ other(d).todo = command[d].todo
             /\ other(d).touched = command[d].touched /\ other(d).ready = command[d].ready
             /\ other(d).alone = (command[d].alone /\ d \notin others)
  <2>1. command[d] \in Command BY DEF ReadyInv, IInv, TypeOK
  <2> QED BY <2>1 DEF Command
<1>4. UNCHANGED <<environments, files>>
  BY DEF Start
<1> HIDE DEF k, other
<1>5. \A p : ~Made(k, p) \/ p \notin Profiles
  BY <1>2 DEF Made
<1>6. SomeStands' => SomeStands
  BY <1>1, <1>2, <1>3 DEF SomeStands, Stands
<1>7. ASSUME NEW d \in Commands
      PROVE  /\ Fresh(environments, files, command'[d])
             /\ SomeStands' /\ command'[d].pc # "idle" => Calm(files, command'[d])
  <2>1. CASE d = c
    BY <2>1, <1>1, <1>2, <1>5 DEF Fresh, Calm
  <2>2. CASE d # c
    <3>1. /\ Fresh(environments, files, command[d])
          /\ SomeStands /\ command[d].pc # "idle" => Calm(files, command[d])
      BY DEF ReadyInv
    <3>2. \A p : Made(other(d), p) <=> Made(command[d], p)
      BY <1>3, Zenon DEF Made
    <3>3. Fresh(environments, files, other(d))
      BY <1>3, <3>1, <3>2 DEF Fresh
    <3>4. SomeStands /\ other(d).pc # "idle" => Calm(files, other(d))
      BY <1>3, <3>1, <3>2 DEF Calm
    <3> QED BY <2>2, <1>1, <1>6, <3>3, <3>4
  <2> QED BY <2>1, <2>2
<1>8. SomeStands' => \A p \in Profiles : Right(environments, files, p)
  BY <1>6 DEF ReadyInv
<1> QED BY <1>4, <1>7, <1>8 DEF ReadyInv

\* A command that goes on without writing, its answer, plan and history kept.
LEMMA GoesOnQuietly ==
  ASSUME ReadyInv, IInv', NEW c \in Commands, NEW k \in Command,
         command' = [command EXCEPT ![c] = k], UNCHANGED <<environments, files>>,
         command[c].pc # "idle", k.pc # "bind",
         k.loaded = command[c].loaded, k.plans = command[c].plans,
         k.alone = command[c].alone, k.touched = command[c].touched,
         k.ready = command[c].ready,
         \A p \in Profiles : Made(k, p) => Made(command[c], p),
         k.pc \in {"list", "plan", "planned"} => command[c].pc \in {"list", "plan", "planned"}
  PROVE  ReadyInv'
<1>1. /\ Fresh(environments, files, command[c])
      /\ SomeStands => Calm(files, command[c])
  BY DEF ReadyInv
<1>2. Stands(k) <=> Stands(command[c])
  BY DEF Stands
<1>3. Stands(k) => \A p \in Profiles : Right(environments, files, p)
  BY <1>2 DEF ReadyInv, SomeStands
<1>4. Fresh(environments, files, k)
  BY <1>1 DEF Fresh
<1>5. SomeStands => Calm(files, k)
  BY <1>1 DEF Calm
<1> QED BY <1>2, <1>3, <1>4, <1>5, OneCommandLooks

LEMMA ListReady ==
  ASSUME ReadyInv, IInv', NEW c \in Commands, List(c)
  PROVE  ReadyInv'
<1> DEFINE k == [command[c] EXCEPT !.pc = "plan",
                   !.listed = [p \in Profiles |-> {e \in Existing : environments[e].named = p}]]
<1>1. /\ command[c] \in Command /\ command[c].pc = "list" /\ command[c].todo = Profiles
      /\ UNCHANGED <<environments, files>>
  BY DEF List, ReadyInv, IInv, TypeOK, Unvisited
<1>2. command' = [command EXCEPT ![c] = k]
  BY DEF List
<1>3. /\ k \in Command /\ k.pc = "plan" /\ k.alone = command[c].alone
      /\ k.loaded = command[c].loaded /\ k.plans = command[c].plans
      /\ k.todo = command[c].todo /\ k.touched = command[c].touched
      /\ k.ready = command[c].ready
  BY <1>1 DEF Command, Existing
<1> HIDE DEF k
<1>4. \A p \in Profiles : ~Made(k, p)
  BY <1>1, <1>3 DEF Made
<1> QED BY <1>1, <1>2, <1>3, <1>4, GoesOnQuietly

LEMMA PlanReady ==
  ASSUME ReadyInv, IInv', NEW c \in Commands, PlanProfile(c)
  PROVE  ReadyInv'
<1>1. /\ command[c] \in Command /\ command[c].pc = "plan"
      /\ UNCHANGED <<environments, files>>
  BY DEF PlanProfile, ReadyInv, IInv, TypeOK
<1>2. PICK p \in command[c].todo, plan \in Plan :
        /\ Planned(c, p, plan)
        /\ command' = [command EXCEPT
             ![c].plans[p] = plan,
             ![c].todo = @ \ {p},
             ![c].pc = IF command[c].todo = {p} THEN "planned" ELSE "plan"]
  BY DEF PlanProfile
<1> DEFINE k == [command[c] EXCEPT !.plans[p] = plan, !.todo = @ \ {p},
                   !.pc = IF command[c].todo = {p} THEN "planned" ELSE "plan"]
<1>3. command' = [command EXCEPT ![c] = k]
  BY <1>2
<1>4. p \in Profiles
  BY <1>1 DEF Command
<1>5. /\ k \in Command /\ k.alone = command[c].alone /\ k.ready = command[c].ready
      /\ k.pc = (IF command[c].todo = {p} THEN "planned" ELSE "plan")
      /\ k.loaded = command[c].loaded /\ k.todo = command[c].todo \ {p}
      /\ k.touched = command[c].touched
      /\ k.plans = [command[c].plans EXCEPT ![p] = plan]
  BY <1>1, <1>4 DEF Command
<1> HIDE DEF k
<1>6. \A q \in Profiles : k.plans[q] = IF q = p THEN plan ELSE command[c].plans[q]
  BY <1>1, <1>5 DEF Command
<1>7. \A q \in Profiles \ {p} : Made(k, q) => Made(command[c], q)
  BY <1>1, <1>5 DEF Made
<1>8. /\ Fit(environments, command[c]) /\ Fresh(environments, files, command[c])
      /\ SomeStands => Calm(files, command[c])
      /\ SomeStands => \A q \in Profiles : Right(environments, files, q)
  BY <1>1 DEF ReadyInv, IInv
<1>9. Stands(k) <=> Stands(command[c])
  BY <1>5 DEF Stands
<1>10. ASSUME command[c].loaded = files, plan.action = "unchanged"
       PROVE  Right(environments, files, p)
  <2>1. PICK e \in EnvironmentIds :
          /\ Updates(c, p, e)
          /\ plan = [action |-> IF Same(c, p, e) THEN "unchanged" ELSE "update", uid |-> e]
    BY <1>2, <1>10 DEF Planned
  <2>2. Same(c, p, e) /\ files[p].managedUid = e
    BY <2>1, <1>10 DEF Updates
  <2>3. environments[e] \in Environment /\ environments[e].maker = p
    BY <2>2, <1>1, <1>4, <1>8, <1>10 DEF Fit, Own
  <2>4. environments[e] = [named |-> p, maker |-> p, content |-> files[p].edition]
    BY <2>2, <2>3, <1>10 DEF Same, Environment
  <2>5. environments[e] # None
    BY <2>3
  <2> QED BY <2>2, <2>4, <2>5 DEF Right
<1>11. Fresh(environments, files, k)
  BY <1>1, <1>5, <1>6, <1>7, <1>8, <1>10 DEF Fresh
<1>12. ASSUME SomeStands PROVE plan.action = "unchanged"
  <2>1. Right(environments, files, p) /\ command[c].loaded = files
    BY <1>4, <1>8, <1>12 DEF Calm
  <2>2. files[p].managedUid # None
    BY <2>1 DEF Right
  <2>3. PICK e \in EnvironmentIds :
          /\ Updates(c, p, e)
          /\ plan = [action |-> IF Same(c, p, e) THEN "unchanged" ELSE "update", uid |-> e]
    BY <1>2, <2>1, <2>2 DEF Planned, Creates
  <2>4. Same(c, p, e)
    BY <2>1, <2>3 DEF Right, Updates, Same
  <2> QED BY <2>3, <2>4
<1>13. SomeStands => Calm(files, k)
  BY <1>5, <1>6, <1>7, <1>8, <1>12 DEF Calm
<1>14. Stands(k) => \A q \in Profiles : Right(environments, files, q)
  BY <1>8, <1>9 DEF SomeStands
<1> QED BY <1>1, <1>3, <1>5, <1>9, <1>11, <1>13, <1>14, OneCommandLooks

LEMMA VerifyReady ==
  ASSUME ReadyInv, IInv', NEW c \in Commands, Verify(c)
  PROVE  ReadyInv'
<1> DEFINE k == [Over EXCEPT
       !.ready = \A p \in Profiles : command[c].plans[p].action = "unchanged",
       !.touched = command[c].touched, !.alone = command[c].alone]
<1>1. command[c] \in Command /\ command[c].pc = "planned"
  BY DEF Verify, ReadyInv, IInv, TypeOK
<1>2. command' = [command EXCEPT ![c] = k] /\ UNCHANGED <<environments, files>>
  BY DEF Verify
<1>3. /\ k \in Command /\ k.pc = "idle"
      /\ k.alone = command[c].alone /\ k.touched = command[c].touched
      /\ k.ready = (\A p \in Profiles : command[c].plans[p].action = "unchanged")
  BY <1>1, OverIsIdle DEF Over, Command, Nothing
<1> HIDE DEF k
<1>4. \A p \in Profiles : Made(command[c], p)
  BY <1>1 DEF Made
<1>5. Fresh(environments, files, command[c]) /\ Solo
  BY DEF ReadyInv, IInv
<1>6. Stands(k) => \A p \in Profiles : Right(environments, files, p)
  BY <1>1, <1>3, <1>4, <1>5 DEF Fresh, Stands
<1>7. Stands(k) => \A d \in Commands : command'[d].pc = "idle"
  <2>1. \A d \in Commands : command'[d] = IF d = c THEN k ELSE command[d]
    BY <1>2 DEF ReadyInv, IInv, TypeOK
  <2> QED BY <2>1, <1>1, <1>3, <1>5 DEF Stands, Solo
<1>8. Fresh(environments, files, k)
  BY <1>3 DEF Fresh
<1> QED BY <1>2, <1>3, <1>6, <1>7, <1>8, OneCommandLooks

LEMMA ApplyReady ==
  ASSUME ReadyInv, IInv', NEW c \in Commands, Apply(c)
  PROVE  ReadyInv'
<1> DEFINE k == [command[c] EXCEPT !.pc = "apply", !.todo = Profiles]
<1>1. /\ command[c] \in Command /\ command[c].pc = "planned"
      /\ UNCHANGED <<environments, files>>
  BY DEF Apply, ReadyInv, IInv, TypeOK
<1>2. command' = [command EXCEPT ![c] = k]
  BY DEF Apply
<1>3. /\ k \in Command /\ k.pc = "apply" /\ k.alone = command[c].alone
      /\ k.loaded = command[c].loaded /\ k.plans = command[c].plans
      /\ k.touched = command[c].touched /\ k.ready = command[c].ready
  BY <1>1 DEF Command
<1> HIDE DEF k
<1>4. \A p \in Profiles : Made(command[c], p)
  BY <1>1 DEF Made
<1> QED BY <1>1, <1>2, <1>3, <1>4, GoesOnQuietly

LEMMA OverReady ==
  ASSUME ReadyInv, IInv', NEW c \in Commands, Die(c), UNCHANGED <<environments, files>>
  PROVE  ReadyInv'
<1>1. command' = [command EXCEPT ![c] = Over]
  BY DEF Die
<1> QED BY <1>1, OverIsQuiet, OneCommandLooks

\* A loop that goes on without having written.
LEMMA LeaveReady ==
  ASSUME ReadyInv, IInv', NEW c \in Commands, NEW p, Done(c, p), command[c].pc = "apply",
         UNCHANGED <<environments, files>>
  PROVE  ReadyInv'
<1>1. CASE command[c].todo = {p}
  BY <1>1, OverReady DEF Done
<1>2. CASE command[c].todo # {p}
  <2> DEFINE k == [command[c] EXCEPT !.todo = @ \ {p}, !.pc = "apply"]
  <2>1. command[c] \in Command
    BY DEF ReadyInv, IInv, TypeOK
  <2>2. command' = [command EXCEPT ![c] = k]
    BY <1>2 DEF Done
  <2>3. /\ k \in Command /\ k.pc = "apply" /\ k.alone = command[c].alone
        /\ k.loaded = command[c].loaded /\ k.plans = command[c].plans
        /\ k.touched = command[c].touched /\ k.ready = command[c].ready
    BY <2>1 DEF Command
  <2> HIDE DEF k
  <2>4. \A q \in Profiles : Made(command[c], q)
    BY DEF Made
  <2> QED BY <2>1, <2>2, <2>3, <2>4, GoesOnQuietly
<1> QED BY <1>1, <1>2

\* When there is no answer to believe, a command may write and go on, or end.
LEMMA WritesReady ==
  ASSUME ReadyInv, IInv', NEW c \in Commands, ~SomeStands, command[c].pc # "idle",
         \/ Die(c)
         \/ \E p \in command[c].todo : Done(c, p)
         \/ \E p \in command[c].todo, e \in EnvironmentIds : command' = [command EXCEPT ![c].pc = "bind", ![c].plans[p].uid = e]
  PROVE  ReadyInv'
<1>1. command[c] \in Command /\ ~Stands(command[c])
  BY DEF ReadyInv, IInv, TypeOK, SomeStands
<1>2. CASE Die(c)
  <2>1. command' = [command EXCEPT ![c] = Over]
    BY <1>2 DEF Die
  <2> QED BY <2>1, OverIsQuiet, OneCommandWrites
<1>3. ASSUME NEW p \in command[c].todo, Done(c, p), ~Die(c) PROVE ReadyInv'
  <2> DEFINE k == [command[c] EXCEPT !.todo = @ \ {p}, !.pc = "apply"]
  <2>0. command[c].todo # {p}
    BY <1>3, Zenon DEF Done
  <2>1. command' = [command EXCEPT ![c] = k]
    BY <1>1, <1>3, <2>0 DEF Done
  <2>2. /\ k \in Command /\ k.pc = "apply" /\ k.alone = command[c].alone
        /\ k.touched = command[c].touched /\ k.ready = command[c].ready
    BY <1>1 DEF Command
  <2> HIDE DEF k
  <2>3. ~Stands(k)
    BY <1>1, <2>2 DEF Stands
  <2> QED BY <2>1, <2>2, <2>3, OneCommandWrites
<1>4. ASSUME NEW p \in command[c].todo, NEW e \in EnvironmentIds,
             command' = [command EXCEPT ![c].pc = "bind", ![c].plans[p].uid = e]
      PROVE  ReadyInv'
  <2> DEFINE k == [command[c] EXCEPT !.pc = "bind", !.plans[p].uid = e]
  <2>1. command' = [command EXCEPT ![c] = k]
    BY <1>1, <1>4 DEF Command
  <2>2. /\ k.pc = "bind" /\ k.alone = command[c].alone
        /\ k.touched = command[c].touched /\ k.ready = command[c].ready
    BY <1>1 DEF Command
  <2>3. k \in Command
    <3>1. command' \in [Commands -> Command] BY DEF IInv, TypeOK
    <3>2. command'[c] = k BY <2>1 DEF ReadyInv, IInv, TypeOK
    <3> QED BY <3>1, <3>2
  <2> HIDE DEF k
  <2>4. ~Stands(k)
    BY <1>1, <2>2 DEF Stands
  <2> QED BY <2>1, <2>2, <2>3, <2>4, OneCommandWrites
<1> QED BY <1>2, <1>3, <1>4

LEMMA ApplyProfileReady ==
  ASSUME ReadyInv, IInv', NEW c \in Commands, ApplyProfile(c)
  PROVE  ReadyInv'
<1>1. command[c] \in Command /\ command[c].pc = "apply" /\ UNCHANGED files
  BY DEF ApplyProfile, ReadyInv, IInv, TypeOK
<1>2. PICK p \in command[c].todo : Create(c, p) \/ Update(c, p) \/ Leave(c, p)
  BY DEF ApplyProfile
<1>3. CASE Leave(c, p)
  BY <1>1, <1>3, LeaveReady DEF Leave
<1>4. CASE Create(c, p) \/ Update(c, p)
  <2>1. p \in Profiles /\ Made(command[c], p)
    BY <1>1, <1>2 DEF Command, Made
  <2>2. command[c].plans[p].action # "unchanged"
    BY <1>4 DEF Create, Update
  <2>3. ~SomeStands
    BY <1>1, <2>1, <2>2 DEF ReadyInv, Calm
  <2>4. \/ Die(c)
        \/ Done(c, p)
        \/ \E e \in EnvironmentIds :
             command' = [command EXCEPT ![c].pc = "bind", ![c].plans[p].uid = e]
    BY <1>4 DEF Create, Update
  <2> QED BY <1>1, <2>3, <2>4, WritesReady
<1> QED BY <1>2, <1>3, <1>4

LEMMA BindReady ==
  ASSUME ReadyInv, IInv', NEW c \in Commands, Bind(c)
  PROVE  ReadyInv'
<1>1. command[c].pc = "bind" /\ \E p \in command[c].todo : Done(c, p)
  BY DEF Bind
<1>2. ~SomeStands
  BY <1>1 DEF ReadyInv, Calm
<1> QED BY <1>1, <1>2, WritesReady

LEMMA EditReady ==
  ASSUME ReadyInv, IInv', Edit
  PROVE  ReadyInv'
<1> DEFINE seen(d) == [command[d] EXCEPT
             !.touched = @ \/ command[d].pc # "idle" \/ command[d].ready]
<1>1. command' = [d \in Commands |-> seen(d)]
  BY DEF Edit
<1>2. ASSUME NEW d \in Commands
      PROVE  /\ seen(d).pc = command[d].pc /\ seen(d).ready = command[d].ready
             /\ seen(d).touched = (command[d].touched \/ command[d].pc # "idle" \/ command[d].ready)
  <2>1. command[d] \in Command BY DEF ReadyInv, IInv, TypeOK
  <2> QED BY <2>1 DEF Command
<1> HIDE DEF seen
<1>3. ~SomeStands'
  BY <1>1, <1>2 DEF SomeStands, Stands
<1>4. ASSUME NEW d \in Commands PROVE Fresh(environments', files', command'[d])
  BY <1>1, <1>2 DEF Fresh
<1> QED BY <1>3, <1>4 DEF ReadyInv

LEMMA StutterReady ==
  ASSUME ReadyInv, IInv', UNCHANGED vars
  PROVE  ReadyInv'
<1>1. environments' = environments /\ files' = files /\ command' = command
  BY DEF vars
<1>2. SomeStands' <=> SomeStands
  BY <1>1 DEF SomeStands
<1> QED BY <1>1, <1>2 DEF ReadyInv

LEMMA ReadyStep == ReadyInv /\ [Next]_vars => ReadyInv'
<1> SUFFICES ASSUME ReadyInv, [Next]_vars PROVE ReadyInv'
  OBVIOUS
<1>1. IInv'
  BY InductiveStep DEF ReadyInv
<1>2. ASSUME NEW c \in Commands, Raise(c) PROVE ReadyInv'
  BY <1>1, <1>2, OverReady DEF Raise
<1>3. ASSUME NEW c \in Commands, Step(c) PROVE ReadyInv'
  BY <1>1, <1>2, <1>3, StartReady, ListReady, PlanReady, VerifyReady, ApplyReady,
     ApplyProfileReady, BindReady DEF Step
<1> QED BY <1>1, <1>3, EditReady, StutterReady DEF Next

\* An answer "ready" that no edit and no other command disturbed is true: every
\* profile's own environment equals its file, and stays so while others only run.
THEOREM ReadyIsEqual == Spec => []ReadyMeansEqual
<1>1. ReadyInv => ReadyMeansEqual
  BY DEF ReadyInv, SomeStands, Stands, Right, ReadyMeansEqual, Existing
<1> QED BY <1>1, InitReady, ReadyStep, PTL DEF Spec
=============================================================================
