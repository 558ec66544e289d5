-------------------------- MODULE MigrationsProofs --------------------------
(***************************************************************************)
(* Proofs about Migrations, for any number of instances and files.         *)
(*                                                                         *)
(* The invariants of the runs follow from two facts that hold together:    *)
(* whoever is between taking and releasing the lock is the session the     *)
(* lock belongs to, hence alone; and what was applied so far is a prefix   *)
(* of the files that no instance at work has overlooked.                   *)
(***************************************************************************)
EXTENDS Migrations, TLAPS

AtWork == {"check", "apply", "unlock"}

(* who works holds the lock *)
Exclusive == \A i \in Instances : pc[i] \in AtWork => lock = i

(* the applied files are 1..Len(applied), and exactly those are recorded *)
Prefix ==
  /\ \A a \in DOMAIN applied : applied[a] = a
  /\ recorded = 1..Len(applied)

(* what an instance waiting or at work has dealt with is applied; the file  *)
(* it is about to apply is the next one; past that, all its image ships is  *)
(* applied                                                                 *)
Progress ==
  \A i \in Instances :
    /\ pc[i] \in AtWork \cup {"wait"} => done[i] <= Len(applied)
    /\ pc[i] = "apply" => done[i] = Len(applied) /\ done[i] < NewestOf[i]
    /\ pc[i] \in {"unlock", "running"} => NewestOf[i] <= Len(applied)

IInv == TypeOK /\ Exclusive /\ Prefix /\ Progress

-----------------------------------------------------------------------------
(* At the start nothing is applied and nobody works. *)
LEMMA InitInvariant == Init => IInv
BY FilesAssumption, MaxFaultsAssumption
   DEF Init, IInv, TypeOK, Exclusive, Prefix, Progress, Files, Stage, AtWork

(* Starting, looking, finishing and failing touch no applied file: they     *)
(* only move an instance and its claim to the lock.                         *)
LEMMA QuietStep ==
  ASSUME IInv, NEW i \in Instances,
         \/ Start(i) \/ AcquireLock(i) \/ MigrationApplied(i) \/ AllDone(i)
         \/ Finish(i) \/ MigrationFails(i) \/ Crash(i)
  PROVE  IInv'
<1> USE FilesAssumption, SessionsAssumption, MaxFaultsAssumption
<1>1. UNCHANGED <<applied, recorded>>
  BY DEF Start, AcquireLock, MigrationApplied, AllDone, Finish,
         MigrationFails, Crash
<1>2. Prefix' /\ Len(applied') = Len(applied) /\ Len(applied) \in Nat
  BY <1>1 DEF IInv, TypeOK, Prefix
<1>3. CASE Start(i)
  BY <1>1, <1>2, <1>3
     DEF Start, Goto, IInv, TypeOK, Exclusive, Progress, AtWork, Stage
<1>4. CASE AcquireLock(i)
  <2>1. lock = None /\ None \notin Instances
    BY <1>4 DEF AcquireLock, LockIsFree
  <2>2. \A j \in Instances : pc[j] \notin AtWork
    BY <2>1 DEF IInv, Exclusive
  <2>3. /\ lock' = i /\ pc' = [pc EXCEPT ![i] = "check"]
        /\ UNCHANGED <<applied, recorded, done, faults>>
    BY <1>4 DEF AcquireLock, Goto
  <2>4. TypeOK'
    BY <2>3 DEF IInv, TypeOK, Stage
  <2>5. Exclusive'
    BY <2>2, <2>3 DEF IInv, TypeOK, Exclusive, AtWork
  <2>6. Progress'
    BY <2>3, <1>4 DEF AcquireLock, IInv, TypeOK, Progress, AtWork
  <2> QED BY <1>2, <2>4, <2>5, <2>6 DEF IInv
<1>5. CASE MigrationApplied(i)
  <2>1. pc[i] = "check" /\ lock = i
    BY <1>5 DEF MigrationApplied, IInv, Exclusive, AtWork
  <2>2. PICK f \in Files :
          /\ f = done[i] + 1 /\ f <= NewestOf[i]
          /\ \/ /\ f \in recorded
                /\ done' = [done EXCEPT ![i] = f] /\ UNCHANGED <<pc, lock, faults>>
             \/ /\ f \notin recorded
                /\ pc' = [pc EXCEPT ![i] = "apply"] /\ UNCHANGED <<done, lock, faults>>
    BY <1>5 DEF MigrationApplied, NextFile, Goto
  <2>3. CASE f \in recorded /\ done' = [done EXCEPT ![i] = f] /\ UNCHANGED <<pc, lock, faults>>
    <3>1. f <= Len(applied)
      BY <2>3 DEF IInv, Prefix
    <3> QED
      BY <1>1, <1>2, <2>1, <2>3, <3>1
         DEF IInv, TypeOK, Exclusive, Progress, AtWork, Files
  <2>4. CASE /\ f \notin recorded
             /\ pc' = [pc EXCEPT ![i] = "apply"] /\ UNCHANGED <<done, lock, faults>>
    <3>1. done[i] = Len(applied) /\ done[i] < NewestOf[i] /\ done[i] \in 0..NumFiles
      BY <1>2, <2>1, <2>2, <2>4 DEF IInv, TypeOK, Prefix, Progress, AtWork, Files
    <3>2. TypeOK' /\ Exclusive'
      BY <1>1, <2>1, <2>4 DEF IInv, TypeOK, Exclusive, Stage, AtWork
    <3>3. Progress'
      BY <1>1, <1>2, <2>1, <2>4, <3>1 DEF IInv, TypeOK, Progress, AtWork
    <3> QED BY <1>2, <3>2, <3>3 DEF IInv
  <2> QED BY <2>2, <2>3, <2>4
<1>6. CASE AllDone(i)
  <2>1. /\ pc[i] = "check" /\ pc' = [pc EXCEPT ![i] = "unlock"]
        /\ UNCHANGED <<lock, done, faults>>
    BY <1>6 DEF AllDone, Goto
  <2>2. NewestOf[i] <= Len(applied)
    <3>1. done[i] \in 0..NumFiles /\ done[i] <= Len(applied)
      BY <2>1 DEF IInv, TypeOK, Progress, AtWork
    <3>2. NewestOf[i] \in 0..NumFiles /\ ~(done[i] + 1 \in Files /\ done[i] + 1 <= NewestOf[i])
      BY <1>6 DEF AllDone, NextFile
    <3>3. NewestOf[i] <= done[i]
      BY <3>1, <3>2 DEF Files
    <3> QED BY <1>2, <3>1, <3>2, <3>3
  <2>3. TypeOK' /\ Exclusive'
    BY <1>1, <2>1 DEF IInv, TypeOK, Exclusive, Stage, AtWork
  <2>4. Progress'
    BY <1>1, <1>2, <2>1, <2>2 DEF IInv, TypeOK, Progress, AtWork
  <2> QED BY <1>2, <2>3, <2>4 DEF IInv
<1>7. CASE Finish(i)
  BY <1>1, <1>2, <1>7
     DEF Finish, Unlock, Goto, IInv, TypeOK, Exclusive, Progress, AtWork, Stage
<1>8. CASE MigrationFails(i)
  BY <1>1, <1>2, <1>8
     DEF MigrationFails, Exit, Unlock, Fault, Goto, IInv, TypeOK, Exclusive,
         Progress, AtWork, Stage
<1>9. CASE Crash(i)
  BY <1>1, <1>2, <1>9
     DEF Crash, Fault, Goto, IInv, TypeOK, Exclusive, Progress, AtWork, Stage
<1> QED BY <1>3, <1>4, <1>5, <1>6, <1>7, <1>8, <1>9

(* Committing a file extends the prefix by exactly the next one. *)
LEMMA CommitStep ==
  ASSUME IInv, NEW i \in Instances, ApplyMigration(i)
  PROVE  IInv'
<1> USE FilesAssumption, SessionsAssumption, MaxFaultsAssumption
<1>1. /\ pc[i] = "apply" /\ lock = i
      /\ done[i] = Len(applied) /\ done[i] < NewestOf[i]
      /\ done[i] + 1 \in Files /\ Len(applied) \in Nat
  BY DEF ApplyMigration, NextFile, IInv, TypeOK, Exclusive, Progress, AtWork
<1>2. /\ applied' = Append(applied, done[i] + 1)
      /\ recorded' = recorded \cup {done[i] + 1}
      /\ done' = [done EXCEPT ![i] = done[i] + 1]
      /\ pc' = [pc EXCEPT ![i] = "check"]
      /\ UNCHANGED <<lock, faults>>
  BY DEF ApplyMigration, NextFile, RecordVersion, Goto
<1>3. TypeOK'
  <2>1. applied' \in Seq(Files)
    BY <1>1, <1>2 DEF IInv, TypeOK
  <2>2. done[i] + 1 \in 0..NumFiles
    BY <1>1 DEF Files
  <2> QED BY <1>1, <1>2, <2>1, <2>2 DEF IInv, TypeOK, Stage
<1>4. Exclusive'
  BY <1>1, <1>2 DEF IInv, TypeOK, Exclusive, AtWork
<1>5. Len(applied') = Len(applied) + 1
  BY <1>2 DEF IInv, TypeOK
<1>6. Prefix'
  BY <1>1, <1>2, <1>5 DEF IInv, TypeOK, Prefix, Files
<1>7. Progress'
  BY <1>1, <1>2, <1>5 DEF IInv, TypeOK, Exclusive, Progress, AtWork, Files
<1> QED BY <1>3, <1>4, <1>6, <1>7 DEF IInv

(* The server gives the lock of a dead session back. *)
LEMMA SessionStep ==
  ASSUME IInv, SessionEnds
  PROVE  IInv'
BY SessionsAssumption
   DEF SessionEnds, IInv, TypeOK, Exclusive, Prefix, Progress, AtWork

(* The three invariants of the run are what the inductive one says. *)
LEMMA Consequences ==
  IInv => AppliedInOrder /\ NoConflict /\ RunningHasSchema
<1> SUFFICES ASSUME IInv
             PROVE  AppliedInOrder /\ NoConflict /\ RunningHasSchema
  OBVIOUS
<1> USE FilesAssumption
<1>1. DOMAIN applied = 1..Len(applied) /\ Len(applied) \in Nat
  BY DEF IInv, TypeOK
<1>2. AppliedInOrder
  BY <1>1 DEF IInv, Prefix, AppliedInOrder
<1>3. NoConflict
  BY <1>1 DEF IInv, TypeOK, Exclusive, Prefix, Progress, AtWork, NoConflict
<1>4. RunningHasSchema
  BY <1>1 DEF IInv, Prefix, Progress, RunningHasSchema
<1> QED BY <1>2, <1>3, <1>4

(* Every step of every instance, and of the server, keeps the invariant. *)
LEMMA StepInvariant == IInv /\ [Next]_vars => IInv'
<1> SUFFICES ASSUME IInv, [Next]_vars PROVE IInv'
  OBVIOUS
<1>1. CASE UNCHANGED vars
  BY <1>1 DEF vars, IInv, TypeOK, Exclusive, Prefix, Progress
<1>2. CASE Next
  BY <1>2, QuietStep, CommitStep, SessionStep DEF Next, Startup
<1> QED BY <1>1, <1>2

(* The log of commits, the versions recorded, the session that holds the   *)
(* lock and where each instance stands keep their types: an instance never *)
(* claims to have dealt with more files than its image has.                *)
THEOREM MigrationsTyped == Spec => []TypeOK
<1>1. Spec => []IInv
  BY InitInvariant, StepInvariant, PTL DEF Spec
<1>2. IInv => TypeOK
  BY DEF IInv
<1> QED BY <1>1, <1>2, PTL

(* What a database has had is a first part of the files in the order of    *)
(* their names, each committed once and recorded, with none left out,      *)
(* although each instance decides from its own image which files are new.  *)
THEOREM FilesOnceInOrder == Spec => []AppliedInOrder
<1>1. Spec => []IInv
  BY InitInvariant, StepInvariant, PTL DEF Spec
<1> QED BY <1>1, Consequences, PTL

(* Nobody fails because another instance was faster.                       *)
THEOREM MigrationsSafe == Spec => []NoConflict
<1>1. Spec => []IInv
  BY InitInvariant, StepInvariant, PTL DEF Spec
<1> QED BY <1>1, Consequences, PTL

(* Who serves miners has the schema of its image, whichever instance       *)
(* brought it there.                                                       *)
THEOREM ServingHasSchema == Spec => []RunningHasSchema
<1>1. Spec => []IInv
  BY InitInvariant, StepInvariant, PTL DEF Spec
<1> QED BY <1>1, Consequences, PTL
=============================================================================
