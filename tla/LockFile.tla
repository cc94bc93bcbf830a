------------------------------ MODULE LockFile ------------------------------
(***************************************************************************)
(* The lock of the data directory: gcampda_data_lock and gcampda_data_     *)
(* unlock (gcampda.c) over lock_file, if_lock_file, lock_pid and           *)
(* unlock_file (libiarcontrol/src/locks.c).                                *)
(*                                                                         *)
(* Several gcampda processes on one computer share a lock file.  Its name  *)
(* refers to an inode; a process that has opened the inode keeps it when   *)
(* the name goes away.  Each system call is a step.  A process may die at  *)
(* any step, and its pid may be given to a later one.                      *)
(***************************************************************************)
EXTENDS FiniteSets

CONSTANTS
    Proc,       \* pids of the gcampda processes (none is 1)
    Inode,      \* inodes the lock file can get
    NoPid,      \* what an empty file reads as: 0, the pid of no process
    NoFile,     \* the lock file does not exist
    Overlap     \* whether a process may start while another one is acquiring

ASSUME LockAssumption ==
    /\ NoPid \notin Proc
    /\ NoFile \notin Inode
    /\ Overlap \in BOOLEAN

VARIABLES
    name,       \* the inode the name refers to, or NoFile
    content,    \* content[i]: the pid written in inode i, or NoPid
    pc,         \* where each process is; "none": it does not exist
    fd,         \* the inode a process has open
    seen        \* what lock_pid has read

vars == <<name, content, pc, fd, seen>>

Acquiring == {"probe", "unprobe", "lock", "write", "open", "read", "stat", "unlink"}
Location  == Acquiring \cup {"none", "held", "refused", "done"}

\* stat("/proc/<pid>") finds the process.
Alive(p) == p \in Proc /\ pc[p] # "none"

Goto(p, there) == pc' = [pc EXCEPT ![p] = there]
-----------------------------------------------------------------------------
Init ==
    /\ name = NoFile
    /\ content = [i \in Inode |-> NoPid]
    /\ pc = [p \in Proc |-> "none"]
    /\ fd = [p \in Proc |-> NoFile]
    /\ seen = [p \in Proc |-> NoPid]

Start(p) ==
    /\ pc[p] = "none"
    /\ Overlap \/ \A q \in Proc : pc[q] \notin Acquiring
    /\ Goto(p, "probe")
    /\ UNCHANGED <<name, content, fd, seen>>

\* open with O_CREAT | O_EXCL: a new, empty inode under a name that was free.
Create(i) ==
    /\ name = NoFile
    /\ \A q \in Proc : fd[q] # i
    /\ name' = i
    /\ content' = [content EXCEPT ![i] = NoPid]

Unlink == name' = NoFile /\ UNCHANGED content
-----------------------------------------------------------------------------
(* if_lock_file: create the file and remove it, or read the pid in it.     *)
(* gcampda_data_lock goes on to lock_file with either answer: it only      *)
(* stops at the answer 1, which is the pid of no gcampda.                  *)
ProbeCreate(p) ==
    /\ pc[p] = "probe"
    /\ \E i \in Inode : Create(i)
    /\ Goto(p, "unprobe")
    /\ UNCHANGED <<fd, seen>>

ProbeUnlink(p) ==
    /\ pc[p] = "unprobe"
    /\ Unlink
    /\ Goto(p, "lock")
    /\ UNCHANGED <<fd, seen>>

ProbeExists(p) ==
    /\ pc[p] = "probe" /\ name # NoFile
    /\ Goto(p, "lock")
    /\ UNCHANGED <<name, content, fd, seen>>
-----------------------------------------------------------------------------
(* lock_file                                                               *)
LockCreate(p) ==
    /\ pc[p] = "lock"
    /\ \E i \in Inode : Create(i) /\ fd' = [fd EXCEPT ![p] = i]
    /\ Goto(p, "write")
    /\ UNCHANGED seen

\* Mutant: the pid is not written.
WriteNothing(p) == content

\* The pid goes to the inode, whatever has become of the name.
WritePid(p) == [content EXCEPT ![fd[p]] = p]

LockWrite(p) ==
    /\ pc[p] = "write"
    /\ content' = WritePid(p)
    /\ fd' = [fd EXCEPT ![p] = NoFile]
    /\ Goto(p, "held")
    /\ UNCHANGED <<name, seen>>

LockExists(p) ==
    /\ pc[p] = "lock" /\ name # NoFile
    /\ Goto(p, "open")
    /\ UNCHANGED <<name, content, fd, seen>>

\* lock_pid: the file may be gone by now, which reads as pid 0 ...
PidOpen(p) ==
    /\ pc[p] = "open"
    /\ fd' = [fd EXCEPT ![p] = name]
    /\ seen' = [seen EXCEPT ![p] = NoPid]
    /\ Goto(p, IF name = NoFile THEN "stat" ELSE "read")
    /\ UNCHANGED <<name, content>>

\* Mutant: the descriptor is taken for what it reads.
PidDescriptor(p) == fd[p]

\* ... and an empty file does too.
PidFound(p) == content[fd[p]]

PidRead(p) ==
    /\ pc[p] = "read"
    /\ seen' = [seen EXCEPT ![p] = PidFound(p)]
    /\ fd' = [fd EXCEPT ![p] = NoFile]
    /\ Goto(p, "stat")
    /\ UNCHANGED <<name, content>>

\* Mutants: the owner is not looked for; a lock once seen is final.
OwnerIgnored(p) == FALSE
OwnerAssumed(p) == seen[p] # NoPid

OwnerAlive(p) == Alive(seen[p])

\* lock_file returns 1: somebody else holds the lock.
StatAlive(p) ==
    /\ pc[p] = "stat" /\ OwnerAlive(p)
    /\ Goto(p, "refused")
    /\ UNCHANGED <<name, content, fd, seen>>

StatGone(p) ==
    /\ pc[p] = "stat" /\ ~OwnerAlive(p)
    /\ Goto(p, "unlink")
    /\ UNCHANGED <<name, content, fd, seen>>

\* The stale file is removed, and lock_file calls itself.
UnlinkStale(p) ==
    /\ pc[p] = "unlink"
    /\ Unlink
    /\ Goto(p, "lock")
    /\ UNCHANGED <<fd, seen>>
-----------------------------------------------------------------------------
(* gcampda_data_unlock, the end of the process, and its death.             *)
Unlock(p) ==
    /\ pc[p] = "held"
    /\ Unlink
    /\ Goto(p, "done")
    /\ UNCHANGED <<fd, seen>>

Exit(p) ==
    /\ pc[p] \in {"done", "refused"}
    /\ Goto(p, "none")
    /\ seen' = [seen EXCEPT ![p] = NoPid]
    /\ UNCHANGED <<name, content, fd>>

Crash(p) ==
    /\ pc[p] # "none"
    /\ Goto(p, "none")
    /\ fd' = [fd EXCEPT ![p] = NoFile]
    /\ seen' = [seen EXCEPT ![p] = NoPid]
    /\ UNCHANGED <<name, content>>
-----------------------------------------------------------------------------
Acquire(p) ==
    \/ ProbeCreate(p) \/ ProbeUnlink(p) \/ ProbeExists(p)
    \/ LockCreate(p) \/ LockWrite(p) \/ LockExists(p)
    \/ PidOpen(p) \/ PidRead(p) \/ StatAlive(p) \/ StatGone(p) \/ UnlinkStale(p)

Next == \E p \in Proc :
    \/ Start(p) \/ Acquire(p) \/ Unlock(p) \/ Exit(p) \/ Crash(p)

Spec == Init /\ [][Next]_vars

\* System calls return, so a process that is acquiring the lock goes on.
FairSpec == Spec /\ \A p \in Proc : WF_vars(Acquire(p))
-----------------------------------------------------------------------------
TypeOK ==
    /\ name \in Inode \cup {NoFile}
    /\ content \in [Inode -> Proc \cup {NoPid}]
    /\ pc \in [Proc -> Location]
    /\ fd \in [Proc -> Inode \cup {NoFile}]
    /\ seen \in [Proc -> Proc \cup {NoPid}]

\* No two processes download into the data directory at a time (main.c:
\* "Implemente lock in download data directory to prevent concurrent
\* download").
MutualExclusion ==
    \A p, q \in Proc : pc[p] = "held" /\ pc[q] = "held" => p = q

\* While a process holds the lock the file is there and carries its pid:
\* neither a probe, nor the removal of a stale lock, nor a pid that changes
\* hands takes it away.
LockStands ==
    \A p \in Proc : pc[p] = "held" => name # NoFile /\ content[name] = p

\* A lock left behind by a process that died, before or after it wrote its
\* pid, does not keep the next one from acquiring it.
StaleTakenOver ==
    \A p \in Proc :
        pc[p] = "probe" /\ (name # NoFile => ~Alive(content[name]))
            ~> pc[p] \in {"held", "none"}
=============================================================================
