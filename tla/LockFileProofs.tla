--------------------------- MODULE LockFileProofs ---------------------------
(***************************************************************************)
(* Mutual exclusion of the data lock, for any number of processes, as long *)
(* as no two of them are between the first and the last system call of     *)
(* gcampda_data_lock at the same time.                                     *)
(***************************************************************************)
EXTENDS LockFile, TLAPS

\* A process that is about to read or write has an inode open.
Opened == \A p \in Proc : pc[p] \in {"read", "write"} => fd[p] \in Inode

\* Acquisitions do not overlap.
OneAcquires ==
    \A p, q \in Proc : pc[p] \in Acquiring /\ pc[q] \in Acquiring => p = q

\* The name still refers to the inode that its creator is about to write.
OwnInode == \A p \in Proc : pc[p] = "write" => fd[p] = name

\* What a process that is acquiring the lock knows while another one holds it:
\* it has the holder's file open, or has read the holder's pid.
HolderSeen ==
    \A p, q \in Proc : p # q /\ pc[q] = "held" =>
        /\ pc[p] \notin {"unprobe", "write", "unlink"}
        /\ pc[p] = "read" => fd[p] = name
        /\ pc[p] = "stat" => seen[p] = q

TypeInv == TypeOK /\ Opened
LockInv == LockStands /\ OneAcquires /\ OwnInode /\ HolderSeen
-----------------------------------------------------------------------------
LEMMA LockTypeStep == TypeInv /\ [Next]_vars => TypeInv'
<1>. USE DEF TypeInv, TypeOK, Opened, Location, Acquiring, Goto
<1>0. ASSUME TypeInv, UNCHANGED vars PROVE TypeInv'
  BY <1>0 DEF vars
<1>. SUFFICES ASSUME TypeInv, NEW p \in Proc,
                     Start(p) \/ Acquire(p) \/ Unlock(p) \/ Exit(p) \/ Crash(p)
              PROVE  TypeInv'
  BY <1>0 DEF Next
<1>1. CASE Start(p)
  BY <1>1 DEF Start
<1>2. CASE ProbeCreate(p)
  BY <1>2 DEF ProbeCreate, Create
<1>3. CASE ProbeUnlink(p)
  BY <1>3 DEF ProbeUnlink, Unlink
<1>4. CASE ProbeExists(p)
  BY <1>4 DEF ProbeExists
<1>5. CASE LockCreate(p)
  BY <1>5 DEF LockCreate, Create
<1>6. CASE LockWrite(p)
  BY <1>6 DEF LockWrite, WritePid
<1>7. CASE LockExists(p)
  BY <1>7 DEF LockExists
<1>8. CASE PidOpen(p)
  BY <1>8 DEF PidOpen
<1>9. CASE PidRead(p)
  BY <1>9 DEF PidRead, PidFound
<1>10. CASE StatAlive(p)
  BY <1>10 DEF StatAlive
<1>11. CASE StatGone(p)
  BY <1>11 DEF StatGone
<1>12. CASE UnlinkStale(p)
  BY <1>12 DEF UnlinkStale, Unlink
<1>13. CASE Unlock(p)
  BY <1>13 DEF Unlock, Unlink
<1>14. CASE Exit(p)
  BY <1>14 DEF Exit
<1>15. CASE Crash(p)
  BY <1>15 DEF Crash
<1>. QED
  BY <1>1, <1>2, <1>3, <1>4, <1>5, <1>6, <1>7, <1>8,
     <1>9, <1>10, <1>11, <1>12, <1>13, <1>14, <1>15 DEF Acquire

\* The variables of the lock keep their types.
THEOREM LockTypeCorrect == Spec => []TypeOK
<1>1. Init => TypeInv
  BY LockAssumption DEF Init, TypeInv, TypeOK, Opened, Location
<1>2. TypeInv => TypeOK
  BY DEF TypeInv
<1>. QED
  BY <1>1, <1>2, LockTypeStep, PTL DEF Spec
-----------------------------------------------------------------------------
(* MutualExclusion is not inductive: that the file of a holder stands      *)
(* depends on what the others are about to do to it.                       *)
LEMMA LockInvStep == ~Overlap /\ TypeInv /\ LockInv /\ [Next]_vars => LockInv'
<1>. USE DEF LockInv, LockStands, OneAcquires, OwnInode, HolderSeen, Goto
<1>0. ASSUME LockInv, UNCHANGED vars PROVE LockInv'
  BY <1>0 DEF vars
<1>. SUFFICES ASSUME ~Overlap, TypeInv, LockInv, NEW p \in Proc,
                     Start(p) \/ Acquire(p) \/ Unlock(p) \/ Exit(p) \/ Crash(p)
              PROVE  LockInv'
  BY <1>0 DEF Next
<1>. USE LockAssumption DEF TypeInv, TypeOK, Opened, Acquiring
<1>1. CASE Start(p)
  BY <1>1 DEF Start
<1>2. CASE ProbeCreate(p)
  BY <1>2 DEF ProbeCreate, Create
<1>3. CASE ProbeUnlink(p)
  BY <1>3 DEF ProbeUnlink, Unlink
<1>4. CASE ProbeExists(p)
  BY <1>4 DEF ProbeExists
<1>5. CASE LockCreate(p)
  BY <1>5 DEF LockCreate, Create
<1>6. CASE LockWrite(p)
  BY <1>6 DEF LockWrite, WritePid
<1>7. CASE LockExists(p)
  BY <1>7 DEF LockExists
<1>8. CASE PidOpen(p)
  BY <1>8 DEF PidOpen
<1>9. CASE PidRead(p)
  BY <1>9 DEF PidRead, PidFound
<1>10. CASE StatAlive(p)
  BY <1>10 DEF StatAlive
<1>11. CASE StatGone(p)
  <2>1. \A q \in Proc : pc[q] = "held" => p = q
    BY <1>11 DEF StatGone, OwnerAlive, Alive
  <2>. QED
    BY <1>11, <2>1 DEF StatGone
<1>12. CASE UnlinkStale(p)
  BY <1>12 DEF UnlinkStale, Unlink
<1>13. CASE Unlock(p)
  BY <1>13 DEF Unlock, Unlink
<1>14. CASE Exit(p)
  BY <1>14 DEF Exit
<1>15. CASE Crash(p)
  BY <1>15 DEF Crash
<1>. QED
  BY <1>1, <1>2, <1>3, <1>4, <1>5, <1>6, <1>7, <1>8,
     <1>9, <1>10, <1>11, <1>12, <1>13, <1>14, <1>15 DEF Acquire

\* As long as acquisitions do not overlap, what is known of the lock stays so:
\* stale locks, empty lock files, deaths at any step and reused pids included.
LEMMA LockInvHolds == ASSUME ~Overlap PROVE Spec => []LockInv
<1>1. Init => TypeInv /\ LockInv
  BY LockAssumption
  DEF Init, TypeInv, TypeOK, Opened, Location, Acquiring, LockInv, LockStands,
      OneAcquires, OwnInode, HolderSeen
<1>2. TypeInv /\ LockInv /\ [Next]_vars => TypeInv' /\ LockInv'
  BY LockTypeStep, LockInvStep
<1>. QED
  BY <1>1, <1>2, PTL DEF Spec

\* The file of a process that holds the lock is there and has its pid, whatever
\* the processes do that come after it.
THEOREM LockStandsHolds == ASSUME ~Overlap PROVE Spec => []LockStands
<1>1. LockInv => LockStands
  BY DEF LockInv
<1>. QED
  BY <1>1, LockInvHolds, PTL

\* At most one process holds the lock: two would have the same pid in the file.
THEOREM MutualExclusionHolds == ASSUME ~Overlap PROVE Spec => []MutualExclusion
<1>1. LockInv => MutualExclusion
  BY DEF LockInv, LockStands, MutualExclusion
<1>. QED
  BY <1>1, LockInvHolds, PTL
=============================================================================
