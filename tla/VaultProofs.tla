----------------------------- MODULE VaultProofs -----------------------------
(***************************************************************************)
(* Theorems about the vault, for any number of processes, names and        *)
(* values.  The inductive invariant follows a document through             *)
(* _atomic_write: a temporary file is its process's document once it is    *)
(* written, and the document of a materialize agrees with one version the  *)
(* vault has held.  That a process which nobody overtook loses no secret   *)
(* needs more: its document is still one change away from the vault.       *)
(***************************************************************************)
EXTENDS Vault, FiniteSetTheorems, TLAPS

Snapshot(doc) == \E v \in versions : \A n \in Names : doc[n] # None => doc[n] = v[n]

WrittenIsDocument ==
  \A p \in Processes : pc[p] = "written" => temporary[p] = document[p]

MaterializedIsSnapshot ==
  \A p \in Processes : pc[p] # "idle" /\ command[p] = "materialize" => Snapshot(document[p])

VaultIsVersion == vault \in Document => vault \in versions

IInv ==
  /\ TypeOK
  /\ FilesWhole
  /\ WrittenIsDocument
  /\ MaterializedIsSnapshot
  /\ VaultIsVersion
  /\ OutputIsSnapshot

\* The marks of a missing and of a half-written file are no documents, and no file
\* but them is anything else.
LEMMA Marks ==
  /\ None # Partial
  /\ None \notin Document
  /\ Partial \notin Document
  /\ \A f \in File : f # None /\ f # Partial => f \in Document
BY MarksAssumption DEF Document, File

\* What every command that gets as far as its document does, given that a
\* materialize brings a snapshot.
LEMMA Encoding ==
  ASSUME IInv, NEW p \in Processes, NEW cmd, NEW doc \in Document,
         Encode(p, cmd, doc), cmd = "materialize" => Snapshot(doc)
  PROVE  IInv'
<1> USE DEF Encode
<1>1. TypeOK'
  BY CommandsAssumption, RunsAssumption DEF IInv, TypeOK
<1>2. WrittenIsDocument'
  BY DEF IInv, WrittenIsDocument, TypeOK
<1>3. MaterializedIsSnapshot'
  BY DEF IInv, MaterializedIsSnapshot, Snapshot, TypeOK
<1>4. /\ FilesWhole'
      /\ VaultIsVersion'
      /\ OutputIsSnapshot'
  BY DEF IInv, FilesWhole, VaultIsVersion, OutputIsSnapshot
<1> QED BY <1>1, <1>2, <1>3, <1>4 DEF IInv

\* Every step of every process keeps the invariant.
LEMMA Inductive == IInv /\ [Next]_vars => IInv'
<1> SUFFICES ASSUME IInv, [Next]_vars PROVE IInv'
  OBVIOUS
<1>1. CASE UNCHANGED vars
  BY <1>1 DEF IInv, vars, TypeOK, FilesWhole, WrittenIsDocument, MaterializedIsSnapshot,
              VaultIsVersion, OutputIsSnapshot, Snapshot
<1>2. ASSUME NEW p \in Processes, InitVault(p) PROVE IInv'
  <2>1. Empty \in Document
    BY DEF Empty, Document
  <2> QED BY <1>2, <2>1, Encoding DEF InitVault
<1>3. ASSUME NEW p \in Processes, NEW n \in Names, NEW v \in Values, SetSecret(p, n, v)
      PROVE  IInv'
  <2>1. [vault EXCEPT ![n] = v] \in Document
    BY <1>3 DEF SetSecret, Document
  <2> QED BY <1>3, <2>1, Encoding DEF SetSecret
<1>4. ASSUME NEW p \in Processes, NEW referenced \in SUBSET Names, NEW allow \in BOOLEAN,
             Materialize(p, referenced, allow)
      PROVE  IInv'
  <2> DEFINE doc == [n \in Names |-> IF n \in referenced THEN vault[n] ELSE None]
  <2>1. vault \in Document /\ vault \in versions
    BY <1>4 DEF Materialize, IInv, VaultIsVersion
  <2>2. doc \in Document
    BY <2>1 DEF Document
  <2>3. Snapshot(doc)
    BY <2>1 DEF Snapshot
  <2> QED BY <1>4, <2>2, <2>3, Encoding DEF Materialize
<1>5. ASSUME NEW p \in Processes, OpenTemporary(p) PROVE IInv'
  <2>1. TypeOK'
    BY <1>5 DEF IInv, TypeOK, OpenTemporary, File
  <2>2. WrittenIsDocument' /\ MaterializedIsSnapshot'
    BY <1>5 DEF IInv, TypeOK, OpenTemporary, WrittenIsDocument, MaterializedIsSnapshot, Snapshot
  <2>3. FilesWhole' /\ VaultIsVersion' /\ OutputIsSnapshot'
    BY <1>5 DEF IInv, OpenTemporary, FilesWhole, VaultIsVersion, OutputIsSnapshot
  <2> QED BY <2>1, <2>2, <2>3 DEF IInv
<1>6. ASSUME NEW p \in Processes, WriteTemporary(p) PROVE IInv'
  <2>1. TypeOK'
    BY <1>6 DEF IInv, TypeOK, WriteTemporary, File
  <2>2. WrittenIsDocument' /\ MaterializedIsSnapshot'
    BY <1>6 DEF IInv, TypeOK, WriteTemporary, WrittenIsDocument, MaterializedIsSnapshot, Snapshot
  <2>3. FilesWhole' /\ VaultIsVersion' /\ OutputIsSnapshot'
    BY <1>6 DEF IInv, WriteTemporary, FilesWhole, VaultIsVersion, OutputIsSnapshot
  <2> QED BY <2>1, <2>2, <2>3 DEF IInv
<1>7. ASSUME NEW p \in Processes, Replace(p) PROVE IInv'
  <2>1. temporary[p] = document[p] /\ document[p] \in Document
    BY <1>7 DEF IInv, TypeOK, WrittenIsDocument, Replace
  <2>2. TypeOK'
    BY <1>7, <2>1 DEF IInv, TypeOK, Replace, File
  <2>3. WrittenIsDocument'
    BY <1>7 DEF IInv, TypeOK, Replace, WrittenIsDocument
  <2>4. versions \subseteq versions'
    BY <1>7 DEF Replace
  <2>5. MaterializedIsSnapshot'
    <3> SUFFICES ASSUME NEW q \in Processes, pc'[q] # "idle", command'[q] = "materialize"
                 PROVE  Snapshot(document[q])'
      BY DEF MaterializedIsSnapshot
    <3>1. pc[q] # "idle" /\ command[q] = "materialize" /\ document'[q] = document[q]
      BY <1>7 DEF Replace, IInv, TypeOK
    <3>2. Snapshot(document[q])
      BY <3>1 DEF IInv, MaterializedIsSnapshot
    <3> QED BY <3>1, <3>2, <2>4 DEF Snapshot
  <2>6. FilesWhole'
    BY <1>7, <2>1, Marks DEF IInv, FilesWhole, Replace
  <2>7. VaultIsVersion'
    BY <1>7, <2>1 DEF IInv, VaultIsVersion, Replace
  <2>8. OutputIsSnapshot'
    <3>1. CASE command[p] = "materialize"
      <4>1. Snapshot(document[p])
        BY <1>7, <3>1 DEF IInv, MaterializedIsSnapshot, Replace
      <4>2. output' = document[p] /\ versions' = versions
        BY <1>7, <3>1, <2>1 DEF Replace
      <4> QED BY <4>1, <4>2 DEF OutputIsSnapshot, Snapshot
    <3>2. CASE command[p] # "materialize"
      BY <1>7, <3>2, <2>4 DEF Replace, IInv, OutputIsSnapshot
    <3> QED BY <3>1, <3>2
  <2> QED BY <2>2, <2>3, <2>5, <2>6, <2>7, <2>8 DEF IInv
<1>8. ASSUME NEW p \in Processes, Raise(p) \/ Kill(p) PROVE IInv'
  <2>1. TypeOK'
    BY <1>8 DEF IInv, TypeOK, Raise, Kill, File
  <2>2. WrittenIsDocument' /\ MaterializedIsSnapshot'
    BY <1>8 DEF IInv, TypeOK, Raise, Kill, WrittenIsDocument, MaterializedIsSnapshot, Snapshot
  <2>3. FilesWhole' /\ VaultIsVersion' /\ OutputIsSnapshot'
    BY <1>8 DEF IInv, Raise, Kill, FilesWhole, VaultIsVersion, OutputIsSnapshot
  <2> QED BY <2>1, <2>2, <2>3 DEF IInv
<1> QED
  BY <1>1, <1>2, <1>3, <1>4, <1>5, <1>6, <1>7, <1>8 DEF Next, Step

\* An empty checkout satisfies the invariant.
LEMMA Initially == Init => IInv
<1> SUFFICES ASSUME Init PROVE IInv
  OBVIOUS
<1>1. TypeOK
  BY RunsAssumption DEF Init, TypeOK, File, Document, Empty
<1>2. FilesWhole /\ VaultIsVersion /\ OutputIsSnapshot
  BY Marks DEF Init, FilesWhole, VaultIsVersion, OutputIsSnapshot
<1>3. WrittenIsDocument /\ MaterializedIsSnapshot
  BY DEF Init, WrittenIsDocument, MaterializedIsSnapshot
<1> QED BY <1>1, <1>2, <1>3 DEF IInv

\* Every reachable state satisfies the invariant.
THEOREM VaultInvariant == Spec => []IInv
BY Initially, Inductive, PTL DEF Spec

\* The types hold for any number of processes, names and values.
COROLLARY VaultTypeSafe == Spec => []TypeOK
BY VaultInvariant, PTL DEF IInv

\* No command, overlapping others or killed, ever leaves a half-written vault or
\* environment file (_atomic_write).
THEOREM FilesAreWhole == Spec => []FilesWhole
BY VaultInvariant, PTL DEF IInv

\* A materialized environment takes all its secrets from one version of the vault.
THEOREM OutputFromOneVersion == Spec => []OutputIsSnapshot
BY VaultInvariant, PTL DEF IInv

-----------------------------------------------------------------------------
\* What a process that nobody overtook is about to write: the first vault, or one
\* change to the vault that is there.
OneChangeAway ==
  \A p \in Processes : pc[p] # "idle" /\ p \notin overtaken =>
    /\ command[p] = "init" => vault = None
    /\ command[p] = "set" =>
         /\ vault \in Document
         /\ \E n \in Names, v \in Values : document[p] = [vault EXCEPT ![n] = v]

\* Nothing happens to the vault under such a process between reading and writing.
LEMMA OneChangeAwayInductive ==
  ASSUME IInv, OneChangeAway, [Next]_vars
  PROVE  OneChangeAway'
<1>1. CASE UNCHANGED vars
  BY <1>1 DEF OneChangeAway, vars
<1>2. ASSUME NEW p \in Processes, InitVault(p) PROVE OneChangeAway'
  BY <1>2 DEF OneChangeAway, InitVault, Encode, IInv, TypeOK
<1>3. ASSUME NEW p \in Processes, NEW n \in Names, NEW v \in Values, SetSecret(p, n, v)
      PROVE  OneChangeAway'
  <2> SUFFICES ASSUME NEW q \in Processes, pc'[q] # "idle", q \notin overtaken'
               PROVE  (/\ command[q] = "init" => vault = None
                       /\ command[q] = "set" =>
                            /\ vault \in Document
                            /\ \E m \in Names, w \in Values :
                                 document[q] = [vault EXCEPT ![m] = w])'
    BY DEF OneChangeAway
  <2>1. CASE q = p
    BY <1>3, <2>1 DEF SetSecret, Encode, IInv, TypeOK
  <2>2. CASE q # p
    BY <1>3, <2>2 DEF OneChangeAway, SetSecret, Encode, IInv, TypeOK
  <2> QED BY <2>1, <2>2
<1>4. ASSUME NEW p \in Processes, NEW referenced \in SUBSET Names, NEW allow \in BOOLEAN,
             Materialize(p, referenced, allow)
      PROVE  OneChangeAway'
  BY <1>4 DEF OneChangeAway, Materialize, Encode, IInv, TypeOK
<1>5. ASSUME NEW p \in Processes, OpenTemporary(p) \/ WriteTemporary(p) PROVE OneChangeAway'
  BY <1>5 DEF OneChangeAway, OpenTemporary, WriteTemporary, IInv, TypeOK
<1>6. ASSUME NEW p \in Processes, Replace(p) \/ Raise(p) \/ Kill(p) PROVE OneChangeAway'
  BY <1>6 DEF OneChangeAway, Replace, Raise, Kill, IInv, TypeOK
<1> QED
  BY <1>1, <1>2, <1>3, <1>4, <1>5, <1>6 DEF Next, Step

\* One change to a document, or none, is what AtMostOneChange says it is.
LEMMA OneChange ==
  ASSUME NEW old \in Document, NEW new,
         \/ new = old
         \/ \E n \in Names, v \in Values : new = [old EXCEPT ![n] = v]
  PROVE  AtMostOneChange(old, new)
<1>1. CASE new = old
  <2>1. {n \in Names : new[n] # old[n]} = {}
    BY <1>1
  <2> QED BY <1>1, <2>1, FS_EmptySet DEF AtMostOneChange
<1>2. CASE \E n \in Names, v \in Values : new = [old EXCEPT ![n] = v]
  <2>1. PICK n \in Names, v \in Values : new = [old EXCEPT ![n] = v]
    BY <1>2
  <2>2. new \in Document /\ \A m \in Names : old[m] # None => new[m] # None
    BY <2>1, MarksAssumption DEF Document
  <2>3. {m \in Names : new[m] # old[m]} \subseteq {n}
    BY <2>1 DEF Document
  <2>4. IsFiniteSet({n}) /\ Cardinality({n}) = 1
    BY FS_Singleton
  <2>5. Cardinality({m \in Names : new[m] # old[m]}) <= Cardinality({n})
    BY <2>3, <2>4, FS_Subset
  <2> QED BY <2>2, <2>4, <2>5 DEF AtMostOneChange
<1> QED BY <1>1, <1>2

\* A command under which nobody replaced the vault loses no secret and changes at
\* most one: what set_secret and init destroy, they destroy only when overtaken.
THEOREM SecretsAreKept == Spec => SecretsKept
<1> DEFINE Kept == \A p \in Processes :
                     Replace(p) /\ p \notin overtaken /\ vault \in Document =>
                       AtMostOneChange(vault, vault')
<1>1. Init => OneChangeAway
  BY DEF Init, OneChangeAway
<1>2. ASSUME IInv, OneChangeAway PROVE Kept
  <2> SUFFICES ASSUME NEW p \in Processes, Replace(p), p \notin overtaken, vault \in Document
               PROVE  AtMostOneChange(vault, vault')
    OBVIOUS
  <2>1. CASE command[p] = "materialize"
    BY <2>1, OneChange DEF Replace
  <2>2. CASE command[p] # "materialize"
    <3>1. vault' = document[p] /\ pc[p] = "written"
      BY <1>2, <2>2 DEF Replace, IInv, WrittenIsDocument
    <3>2. command[p] = "set"
      BY <1>2, <2>2, <3>1, Marks DEF OneChangeAway, IInv, TypeOK
    <3>3. \E n \in Names, v \in Values : document[p] = [vault EXCEPT ![n] = v]
      BY <1>2, <3>1, <3>2 DEF OneChangeAway
    <3> QED BY <3>1, <3>3, OneChange
  <2> QED BY <2>1, <2>2
<1>3. IInv /\ OneChangeAway /\ [Next]_vars => [Kept]_vars
  BY <1>2
<1>4. IInv /\ OneChangeAway /\ [Next]_vars => OneChangeAway'
  BY OneChangeAwayInductive
<1> HIDE DEF Kept
<1>5. Spec => [][Kept]_vars
  BY <1>1, <1>3, <1>4, VaultInvariant, PTL DEF Spec
<1> QED BY <1>5 DEF Kept, SecretsKept
=============================================================================
