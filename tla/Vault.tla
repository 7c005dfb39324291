-------------------------------- MODULE Vault --------------------------------
(***************************************************************************)
(* The encrypted vault of repository secrets: init, set_secret and         *)
(* materialize of postman_vault.py, run by processes that share one        *)
(* checkout.  Every command reads the whole vault, works on its copy, and  *)
(* replaces a whole file through a temporary one; nothing is locked        *)
(* meanwhile, and a process may be killed anywhere.                        *)
(*                                                                         *)
(* Encryption is left out: a vault is the document it holds, a function    *)
(* from the secret names to their values or None.  The environment key is  *)
(* the same for all commands.                                              *)
(***************************************************************************)
EXTENDS Naturals, FiniteSets

CONSTANTS Processes, Names, Values,
          Commands,       \* what the processes run: "init", "set", "materialize"
          MaxRuns,        \* how many commands are run (a bound)
          None,           \* no value, no file
          Partial         \* a file that is not written to its end

ASSUME MarksAssumption ==
  /\ None # Partial
  /\ None \notin Values
  /\ {None, Partial} \cap [Names -> Values \cup {None}] = {}
ASSUME CommandsAssumption == Commands \subseteq {"init", "set", "materialize"}
ASSUME RunsAssumption == MaxRuns \in Nat

VARIABLES
  vault,      \* the vault file
  output,     \* the materialized environment file
  temporary,  \* each process's temporary file
  document,   \* the document each process works on
  command,    \* the command it runs
  pc,         \* what it does next
  runs,       \* commands so far
  versions,   \* every document the vault has held
  overtaken   \* processes that another one has replaced the vault under

vars == <<vault, output, temporary, document, command, pc, runs, versions, overtaken>>

Document == [Names -> Values \cup {None}]
Empty == [n \in Names |-> None]
File == Document \cup {None, Partial}

\* The uniform type of the state.
TypeOK ==
  /\ vault \in File
  /\ output \in File
  /\ temporary \in [Processes -> File]
  /\ document \in [Processes -> Document]
  /\ command \in [Processes -> {"init", "set", "materialize"}]
  /\ pc \in [Processes -> {"idle", "encoded", "opened", "written"}]
  /\ runs \in 0..MaxRuns
  /\ versions \subseteq Document
  /\ overtaken \subseteq Processes

Init ==
  /\ vault = None
  /\ output = None
  /\ temporary = [p \in Processes |-> None]
  /\ document = [p \in Processes |-> Empty]
  /\ command = [p \in Processes |-> "init"]
  /\ pc = [p \in Processes |-> "idle"]
  /\ runs = 0
  /\ versions = {}
  /\ overtaken = {}

\* A command that got as far as the document it is going to write.
Encode(p, cmd, doc) ==
  /\ pc[p] = "idle"
  /\ cmd \in Commands
  /\ runs < MaxRuns
  /\ runs' = runs + 1
  /\ command' = [command EXCEPT ![p] = cmd]
  /\ document' = [document EXCEPT ![p] = doc]
  /\ pc' = [pc EXCEPT ![p] = "encoded"]
  /\ overtaken' = overtaken \ {p}
  /\ UNCHANGED <<vault, output, temporary, versions>>

\* init: refused when the vault exists; the encryption takes its time after that.
InitVault(p) == vault = None /\ Encode(p, "init", Empty)

\* A fault for the sensitivity checks: the document is begun anew.
SetAlone(p, name, value) ==
  /\ vault \in Document
  /\ Encode(p, "set", [Empty EXCEPT ![name] = value])

\* set_secret: the vault is read, one name is changed, and all of it is encrypted.
SetSecret(p, name, value) ==
  /\ vault \in Document
  /\ Encode(p, "set", [vault EXCEPT ![name] = value])

\* A fault for the sensitivity checks: what the last output held is kept.
MergedMaterialize(p, referenced, allowMissing) ==
  /\ vault \in Document
  /\ allowMissing \/ \A n \in referenced : vault[n] # None
  /\ Encode(p, "materialize",
            [n \in Names |-> IF n \in referenced \/ output \notin Document
                               THEN vault[n] ELSE output[n]])

\* materialize: every referenced secret comes from one reading; a missing one is
\* left empty, which only allow_missing lets through.
Materialize(p, referenced, allowMissing) ==
  /\ vault \in Document
  /\ allowMissing \/ \A n \in referenced : vault[n] # None
  /\ Encode(p, "materialize", [n \in Names |-> IF n \in referenced THEN vault[n] ELSE None])

-----------------------------------------------------------------------------
(* _atomic_write *)

\* A fault for the sensitivity checks: the file is moved before it is written.
HastyOpen(p) ==
  /\ pc[p] = "encoded"
  /\ temporary' = [temporary EXCEPT ![p] = Partial]
  /\ pc' = [pc EXCEPT ![p] = "written"]
  /\ UNCHANGED <<vault, output, document, command, runs, versions, overtaken>>

\* mkstemp: the temporary file exists and is empty.
OpenTemporary(p) ==
  /\ pc[p] = "encoded"
  /\ temporary' = [temporary EXCEPT ![p] = Partial]
  /\ pc' = [pc EXCEPT ![p] = "opened"]
  /\ UNCHANGED <<vault, output, document, command, runs, versions, overtaken>>

\* The payload is written and the file closed.
WriteTemporary(p) ==
  /\ pc[p] = "opened"
  /\ temporary' = [temporary EXCEPT ![p] = document[p]]
  /\ pc' = [pc EXCEPT ![p] = "written"]
  /\ UNCHANGED <<vault, output, document, command, runs, versions, overtaken>>

\* os.replace: the target is the temporary file from now on.
Replace(p) ==
  /\ pc[p] = "written"
  /\ IF command[p] = "materialize"
       THEN output' = temporary[p] /\ UNCHANGED <<vault, versions, overtaken>>
       ELSE /\ vault' = temporary[p]
            /\ versions' = versions \cup ({temporary[p]} \cap Document)
            /\ overtaken' = Processes \ {p}
            /\ UNCHANGED output
  /\ temporary' = [temporary EXCEPT ![p] = None]
  /\ pc' = [pc EXCEPT ![p] = "idle"]
  /\ UNCHANGED <<document, command, runs>>

\* A fault for the sensitivity checks: a step nothing continues.
MistypedRaise(p) ==
  /\ pc[p] # "idle"
  /\ temporary' = [temporary EXCEPT ![p] = None]
  /\ pc' = [pc EXCEPT ![p] = "failed"]
  /\ UNCHANGED <<vault, output, document, command, runs, versions, overtaken>>

\* An error: the temporary file is unlinked on the way out.
Raise(p) ==
  /\ pc[p] # "idle"
  /\ temporary' = [temporary EXCEPT ![p] = None]
  /\ pc' = [pc EXCEPT ![p] = "idle"]
  /\ UNCHANGED <<vault, output, document, command, runs, versions, overtaken>>

\* The process is killed: the temporary file stays, of no further use.
Kill(p) ==
  /\ pc[p] # "idle"
  /\ pc' = [pc EXCEPT ![p] = "idle"]
  /\ UNCHANGED <<vault, output, temporary, document, command, runs, versions, overtaken>>

Step(p) ==
  \/ InitVault(p)
  \/ \E n \in Names, v \in Values : SetSecret(p, n, v)
  \/ \E referenced \in SUBSET Names, allow \in BOOLEAN : Materialize(p, referenced, allow)
  \/ OpenTemporary(p) \/ WriteTemporary(p) \/ Replace(p)
  \/ Raise(p) \/ Kill(p)

Next == \E p \in Processes : Step(p)

Spec == Init /\ [][Next]_vars

-----------------------------------------------------------------------------
\* However commands overlap and die, the vault and the environment file are
\* absent or whole: no reader ever meets a half-written one (_atomic_write).
FilesWhole == vault # Partial /\ output # Partial

\* The secrets of a materialized environment all were in the vault together:
\* never one from before and one from after a change another process made.
OutputIsSnapshot ==
  output \in Document =>
    \E v \in versions : \A n \in Names : output[n] # None => output[n] = v[n]

AtMostOneChange(old, new) ==
  /\ new \in Document
  /\ \A n \in Names : old[n] # None => new[n] # None
  /\ Cardinality({n \in Names : new[n] # old[n]}) <= 1

\* A command under which nobody else replaced the vault loses no secret and changes
\* at most the one it was given, also after others were killed half-way; a secret
\* can only be lost to a command that was overtaken.
SecretsKept ==
  [][\A p \in Processes :
       Replace(p) /\ p \notin overtaken /\ vault \in Document =>
         AtMostOneChange(vault, vault')]_vars

\* init never replaces a vault ("Vault already exists; refusing to replace it").
InitNeverReplaces ==
  [][\A p \in Processes : Replace(p) /\ command[p] = "init" => vault = None]_vars
=============================================================================
