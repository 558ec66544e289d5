----------------------------- MODULE Migrations -----------------------------
(***************************************************************************)
(* Instances that start together and bring the shared database up to date: *)
(* RunMigrations of internal/accounting/migrate.go, run by every process   *)
(* before anything else (cmd/pool/main.go:50).                             *)
(*                                                                         *)
(* Migration files are numbered in the byte order of their names.  An      *)
(* older image ships fewer of them.  The advisory lock belongs to the      *)
(* session of the instance; a session outlives its process until the       *)
(* server notices.  A file and its version are committed together, or not  *)
(* at all, which is one action: a crash after the commit is the action and *)
(* then a crash.                                                           *)
(***************************************************************************)
EXTENDS Integers, Sequences

CONSTANTS
  Instances,    \* processes sharing the database
  NumFiles,     \* migration files are 1..NumFiles
  NewestOf,     \* the last file the image of each instance ships
  None, Dead,   \* no session, the session of a process that is gone
  MaxFaults     \* bound: how many failures happen

ASSUME FilesAssumption    == NumFiles \in Nat /\ NewestOf \in [Instances -> 0..NumFiles]
ASSUME SessionsAssumption == None # Dead /\ {None, Dead} \cap Instances = {}
ASSUME MaxFaultsAssumption == MaxFaults \in Nat

VARIABLES
  applied,   \* the files whose statements were committed, in that order
  recorded,  \* table schema_migrations
  lock,      \* the session that holds the advisory lock
  pc,        \* where each instance stands
  done,      \* the last file it has dealt with
  faults     \* failures so far

vars == <<applied, recorded, lock, pc, done, faults>>

Files == 1..NumFiles
Stage == {"down", "wait", "check", "apply", "unlock", "running"}

Init ==
  /\ applied = << >> /\ recorded = {}
  /\ lock = None
  /\ pc = [i \in Instances |-> "down"]
  /\ done = [i \in Instances |-> 0]
  /\ faults = 0

Goto(i, stage) == pc' = [pc EXCEPT ![i] = stage]
Fault == faults < MaxFaults /\ faults' = faults + 1

(* the container runtime starts the process, at first and after it ended *)
Start(i) ==
  /\ pc[i] = "down"
  /\ Goto(i, "wait")
  /\ done' = [done EXCEPT ![i] = 0]
  /\ UNCHANGED <<applied, recorded, lock, faults>>

(* mutant: the lock is not waited for *)
AnyLock == TRUE

LockIsFree == lock = None

AcquireLock(i) ==
  /\ pc[i] = "wait"
  /\ LockIsFree
  /\ lock' = i
  /\ Goto(i, "check")
  /\ UNCHANGED <<applied, recorded, done, faults>>

(* mutant: the directory is read unsorted *)
AnyFile(i, f) == f \in Files \ recorded /\ f <= NewestOf[i]

(* listMigrationFiles sorts; f is the file after the one dealt with last *)
NextFile(i, f) == f = done[i] + 1 /\ f <= NewestOf[i]

MigrationApplied(i) ==
  /\ pc[i] = "check"
  /\ \E f \in Files :
       /\ NextFile(i, f)
       /\ IF f \in recorded
          THEN done' = [done EXCEPT ![i] = f] /\ UNCHANGED pc
          ELSE Goto(i, "apply") /\ UNCHANGED done
  /\ UNCHANGED <<applied, recorded, lock, faults>>

AllDone(i) ==
  /\ pc[i] = "check"
  /\ ~\E f \in Files : NextFile(i, f)
  /\ Goto(i, "unlock")
  /\ UNCHANGED <<applied, recorded, lock, done, faults>>

(* mutant: another name than the one looked for *)
RecordNext(f) == recorded' = recorded \cup {f + 1}

RecordVersion(f) == recorded' = recorded \cup {f}

(* The transaction commits the file and its version, a primary key. *)
ApplyMigration(i) ==
  /\ pc[i] = "apply"
  /\ \E f \in Files :
       /\ NextFile(i, f) /\ f \notin recorded
       /\ applied' = Append(applied, f)
       /\ RecordVersion(f)
       /\ done' = [done EXCEPT ![i] = f]
  /\ Goto(i, "check")
  /\ UNCHANGED <<lock, faults>>

(* mutant: the session lives on in a pool and keeps the lock *)
KeepLock(i) == UNCHANGED lock

Unlock(i) == lock' = IF lock = i THEN None ELSE lock

(* mutant: the failed file is passed over *)
PassOver(i) ==
  /\ \E f \in Files : NextFile(i, f) /\ done' = [done EXCEPT ![i] = f]
  /\ Goto(i, "check")
  /\ UNCHANGED lock

(* RunMigrations unlocks and main logs the error and exits *)
Exit(i) == Unlock(i) /\ Goto(i, "down") /\ UNCHANGED done

(* another session committed the version since this one looked *)
Conflict(i) ==
  /\ pc[i] = "apply"
  /\ \E f \in Files : NextFile(i, f) /\ f \in recorded

(* A statement fails: without a cause in the model, or on the primary key. *)
MigrationFails(i) ==
  /\ pc[i] \in {"check", "apply"}
  /\ IF Conflict(i) THEN UNCHANGED faults ELSE Fault
  /\ Exit(i)
  /\ UNCHANGED <<applied, recorded>>

Finish(i) ==
  /\ pc[i] = "unlock"
  /\ Unlock(i)
  /\ Goto(i, "running")
  /\ UNCHANGED <<applied, recorded, done, faults>>

(* The process dies, or cannot take the lock and exits; a session that held
   the lock stays until the server notices. *)
Crash(i) ==
  /\ pc[i] # "down"
  /\ Fault
  /\ lock' = IF lock = i THEN Dead ELSE lock
  /\ Goto(i, "down")
  /\ UNCHANGED <<applied, recorded, done>>

SessionEnds ==
  /\ lock = Dead
  /\ lock' = None
  /\ UNCHANGED <<applied, recorded, pc, done, faults>>

Startup(i) ==
  \/ Start(i) \/ AcquireLock(i)
  \/ MigrationApplied(i) \/ AllDone(i) \/ ApplyMigration(i)
  \/ Finish(i)

Next ==
  \/ \E i \in Instances : Startup(i) \/ MigrationFails(i) \/ Crash(i)
  \/ SessionEnds

Spec == Init /\ [][Next]_vars

(* restart: unless-stopped; the lock is granted to whoever waits longest *)
FairSpec ==
  /\ Spec
  /\ WF_vars(SessionEnds)
  /\ \A i \in Instances : SF_vars(AcquireLock(i)) /\ WF_vars(Startup(i))

-----------------------------------------------------------------------------
TypeOK ==
  /\ applied \in Seq(Files)
  /\ recorded \subseteq Files
  /\ lock \in Instances \cup {None, Dead}
  /\ pc \in [Instances -> Stage]
  /\ done \in [Instances -> 0..NumFiles]
  /\ faults \in 0..MaxFaults

(* However many instances start, fail and start again, whichever images    *)
(* they run: the files committed are the first ones, in their order, each  *)
(* once and exactly those whose version is recorded.  A later file may     *)
(* rely on all the earlier ones.                                           *)
AppliedInOrder ==
  /\ \A a \in DOMAIN applied : applied[a] = a
  /\ recorded = {applied[a] : a \in DOMAIN applied}

(* An instance about to apply a file is the only one, and the file was not *)
(* applied since it looked: starting together makes no instance fail.      *)
NoConflict ==
  \A i \in Instances : pc[i] = "apply" =>
    /\ done[i] + 1 \notin recorded
    /\ \A j \in Instances : pc[j] = "apply" => j = i

(* An instance serves miners only over the schema its image was built for. *)
RunningHasSchema ==
  \A i \in Instances : pc[i] = "running" => 1..NewestOf[i] \subseteq recorded

(* Every instance comes up in the end, also when one that held the lock    *)
(* died, as soon as failures stop.                                         *)
EveryInstanceRuns == <>[](\A i \in Instances : pc[i] = "running")
=============================================================================
