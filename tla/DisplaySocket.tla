----------------------------- MODULE DisplaySocket -----------------------------
(****************************************************************************)
(* How a compositor finds a free X display for its Xwayland server: class   *)
(* socket and try_lock_file() of como/xwl/socket.cpp.                       *)
(*                                                                          *)
(* Several compositors run on one machine.  Each goes through the displays, *)
(* and takes the first whose lock file it can create and whose sockets, one *)
(* in the file system and on Linux one in the abstract name space, it can   *)
(* bind.  A lock file whose process is gone is removed.  Every call that    *)
(* another process can observe is a step; a process may be killed between   *)
(* any two, which leaves its files behind and closes its descriptors.       *)
(*                                                                          *)
(* The file system and the kernel's abstract name space are external.  A    *)
(* process is started once, so that its number is not used again.           *)
(****************************************************************************)
EXTENDS Integers, FiniteSets

CONSTANTS Processes,
          Displays,     \* number of displays, 100 in the code
          MaxEnds       \* bound: processes that end, in order or not

ASSUME DisplaysAssumption == Displays \in Nat \ {0}
ASSUME MaxEndsAssumption == MaxEnds \in Nat

Attempts == 3
Display == 0..(Displays - 1)
Nobody == "nobody"
ASSUME NobodyAssumption == Nobody \notin Processes

NoFile == [by |-> Nobody, pid |-> Nobody]
EmptyFile(p) == [by |-> p, pid |-> Nobody]      \* created, number not yet written
LockFile(p) == [by |-> p, pid |-> p]

VARIABLES
    pc, display, attempt,
    lock_pid,           \* what the process has read from the lock file
    alive,              \* the process exists
    linux,              \* Q_OS_LINUX: abstract sockets are bound, too
    lock_file,          \* Display -> the lock file: who made it, the number in it
    socket_file,        \* Display -> process whose socket the file is
    abstract            \* Display -> process that has bound the abstract name

local == <<display, attempt, lock_pid>>
files == <<lock_file, socket_file, abstract>>
vars == <<pc, local, alive, linux, files>>

Steps == {"start", "lock", "write", "read", "check", "remove", "clean", "bind",
          "bind abstract", "unlock", "unlink", "running", "failed",
          "close", "quit", "done"}

TypeOK ==
    /\ pc \in [Processes -> Steps]
    /\ display \in [Processes -> 0..Displays]
    /\ \A p \in Processes : display[p] = Displays => pc[p] = "failed"
    /\ attempt \in [Processes -> 0..(Attempts - 1)]
    /\ lock_pid \in [Processes -> Processes \cup {Nobody}]
    /\ alive \subseteq Processes /\ linux \in BOOLEAN
    /\ lock_file \in [Display -> [by: Processes \cup {Nobody}, pid: Processes \cup {Nobody}]]
    /\ socket_file \in [Display -> Processes \cup {Nobody}]
    /\ abstract \in [Display -> Processes \cup {Nobody}]

Init ==
    /\ pc = [p \in Processes |-> "start"]
    /\ display = [p \in Processes |-> 0]
    /\ attempt = [p \in Processes |-> 0]
    /\ lock_pid = [p \in Processes |-> Nobody]
    /\ alive = Processes /\ linux \in BOOLEAN
    /\ lock_file = [d \in Display |-> NoFile]
    /\ socket_file = [d \in Display |-> Nobody]
    /\ abstract = [d \in Display |-> Nobody]

At(p, step) == p \in alive /\ pc[p] = step
Goto(p, step) == pc' = [pc EXCEPT ![p] = step]

\* check_sockets_directory() succeeds, or the constructor returns at once.
CheckDirectory(p) ==
    /\ At(p, "start")
    /\ Goto(p, "lock") \/ Goto(p, "failed")
    /\ UNCHANGED <<local, alive, linux, files>>

\* The constructor's loop goes on to the next display, if there is one.
NextDisplay(p) ==
    /\ display' = [display EXCEPT ![p] = @ + 1]
    /\ attempt' = [attempt EXCEPT ![p] = 0]
    /\ lock_pid' = [lock_pid EXCEPT ![p] = Nobody]
    /\ Goto(p, IF display[p] + 1 < Displays THEN "lock" ELSE "failed")

\* The loop of try_lock_file() goes round, or gives up.
NextAttempt(p) ==
    IF attempt[p] + 1 < Attempts
      THEN /\ attempt' = [attempt EXCEPT ![p] = @ + 1]
           /\ lock_pid' = [lock_pid EXCEPT ![p] = Nobody]
           /\ Goto(p, "lock")
           /\ UNCHANGED display
      ELSE NextDisplay(p)

--------------------------------------------------------------------------------
(****************************************************************************)
(* try_lock_file()                                                          *)
(****************************************************************************)
CreateLock(p) ==
    /\ At(p, "lock")
    /\ IF lock_file[display[p]] = NoFile
         THEN /\ lock_file' = [lock_file EXCEPT ![display[p]] = EmptyFile(p)]
              /\ Goto(p, "write")
         ELSE Goto(p, "read") /\ UNCHANGED lock_file
    /\ UNCHANGED <<local, alive, linux, socket_file, abstract>>

\* The number is written to the file that was created: if its name was removed
\* or given to another file since then, nobody reads it.
WritePid(p) ==
    /\ At(p, "write")
    /\ lock_file' = [lock_file EXCEPT ![display[p]] =
                                          IF @.by = p THEN LockFile(p) ELSE @]
    /\ Goto(p, "clean")
    /\ UNCHANGED <<local, alive, linux, socket_file, abstract>>

\* The write fails, and the file is removed.
WritePidFails(p) ==
    /\ At(p, "write")
    /\ lock_file' = [lock_file EXCEPT ![display[p]] = NoFile]
    /\ NextDisplay(p)
    /\ UNCHANGED <<alive, linux, socket_file, abstract>>

\* A file that is gone by now is tried again, one without a number is left alone.
ReadPid(p) ==
    /\ At(p, "read")
    /\ LET file == lock_file[display[p]] IN
         CASE file = NoFile -> NextAttempt(p)
           [] file # NoFile /\ file.pid = Nobody -> NextDisplay(p)
           [] OTHER -> /\ lock_pid' = [lock_pid EXCEPT ![p] = file.pid]
                       /\ Goto(p, "check")
                       /\ UNCHANGED <<display, attempt>>
    /\ UNCHANGED <<alive, linux, files>>

\* Seeded fault: a display that is taken is waited for.
CheckPid_Waits(p) ==
    /\ At(p, "check")
    /\ Goto(p, IF lock_pid[p] \in alive THEN "read" ELSE "remove")
    /\ UNCHANGED <<local, alive, linux, files>>

\* kill(lock_pid, 0)
CheckPid(p) ==
    /\ At(p, "check")
    /\ IF lock_pid[p] \in alive
         THEN NextDisplay(p)
         ELSE Goto(p, "remove") /\ UNCHANGED local
    /\ UNCHANGED <<alive, linux, files>>

\* lock_file.remove(), whatever file has the name by now.
RemoveLock(p) ==
    /\ At(p, "remove")
    /\ lock_file' = [lock_file EXCEPT ![display[p]] = NoFile]
    /\ NextAttempt(p)
    /\ UNCHANGED <<alive, linux, socket_file, abstract>>

--------------------------------------------------------------------------------
(****************************************************************************)
(* socket::socket() after the display was locked, and socket::~socket().    *)
(****************************************************************************)
RemoveSocketFile(p) ==
    /\ At(p, "clean")
    /\ socket_file' = [socket_file EXCEPT ![display[p]] = Nobody]
    /\ Goto(p, "bind")
    /\ UNCHANGED <<local, alive, linux, lock_file, abstract>>

\* get_socket_fd() for the file: bind() fails if the name is taken.
BindFile(p) ==
    /\ At(p, "bind") /\ socket_file[display[p]] = Nobody
    /\ socket_file' = [socket_file EXCEPT ![display[p]] = p]
    /\ Goto(p, IF linux THEN "bind abstract" ELSE "running")
    /\ UNCHANGED <<local, alive, linux, lock_file, abstract>>

BindFileFails(p) ==
    /\ At(p, "bind")
    /\ lock_file' = [lock_file EXCEPT ![display[p]] = NoFile]
    /\ NextDisplay(p)
    /\ UNCHANGED <<alive, linux, socket_file, abstract>>

\* Seeded fault: a name that is taken is no error.
BindAbstract_Shared(p) ==
    /\ At(p, "bind abstract")
    /\ abstract' = [abstract EXCEPT ![display[p]] = p]
    /\ Goto(p, "running")
    /\ UNCHANGED <<local, alive, linux, lock_file, socket_file>>

\* get_socket_fd() for the abstract name.
BindAbstract(p) ==
    /\ At(p, "bind abstract")
    /\ IF abstract[display[p]] = Nobody
         THEN abstract' = [abstract EXCEPT ![display[p]] = p] /\ Goto(p, "running")
         ELSE Goto(p, "unlock") /\ UNCHANGED abstract
    /\ UNCHANGED <<local, alive, linux, lock_file, socket_file>>

\* The abstract name is taken: first the lock file is removed, then the socket.
Unlock(p) ==
    /\ At(p, "unlock")
    /\ lock_file' = [lock_file EXCEPT ![display[p]] = NoFile]
    /\ Goto(p, "unlink")
    /\ UNCHANGED <<local, alive, linux, socket_file, abstract>>

Unlink(p) ==
    /\ At(p, "unlink")
    /\ socket_file' = [socket_file EXCEPT ![display[p]] = Nobody]
    /\ NextDisplay(p)
    /\ UNCHANGED <<alive, linux, lock_file, abstract>>

Ended == {p \in Processes : p \notin alive \/ pc[p] \in {"close", "quit"}}

\* The destructor closes the descriptors,
Close(p) ==
    /\ At(p, "running") /\ Cardinality(Ended) < MaxEnds
    /\ abstract' = [abstract EXCEPT ![display[p]] = IF @ = p THEN Nobody ELSE @]
    /\ Goto(p, "close")
    /\ UNCHANGED <<local, alive, linux, lock_file, socket_file>>

\* removes the socket file,
CloseSocketFile(p) ==
    /\ At(p, "close")
    /\ socket_file' = [socket_file EXCEPT ![display[p]] = Nobody]
    /\ Goto(p, "quit")
    /\ UNCHANGED <<local, alive, linux, lock_file, abstract>>

\* and then the lock file.
CloseLockFile(p) ==
    /\ At(p, "quit")
    /\ lock_file' = [lock_file EXCEPT ![display[p]] = NoFile]
    /\ Goto(p, "done")
    /\ alive' = alive \ {p}
    /\ UNCHANGED <<local, linux, socket_file, abstract>>

\* The process is killed.
Kill(p) ==
    /\ p \in alive /\ pc[p] \notin {"start", "failed"}
    /\ Cardinality(Ended \ {p}) < MaxEnds
    /\ alive' = alive \ {p}
    /\ abstract' = [d \in Display |-> IF abstract[d] = p THEN Nobody ELSE abstract[d]]
    /\ UNCHANGED <<pc, local, linux, lock_file, socket_file>>

--------------------------------------------------------------------------------
TryLockFile(p) ==
    \/ CreateLock(p) \/ WritePid(p) \/ WritePidFails(p)
    \/ ReadPid(p) \/ CheckPid(p) \/ RemoveLock(p)

Construct(p) ==
    \/ CheckDirectory(p) \/ TryLockFile(p)
    \/ RemoveSocketFile(p) \/ BindFile(p) \/ BindFileFails(p)
    \/ BindAbstract(p) \/ Unlock(p) \/ Unlink(p)

Destruct(p) == Close(p) \/ CloseSocketFile(p) \/ CloseLockFile(p)

Next == \E p \in Processes : Construct(p) \/ Destruct(p) \/ Kill(p)

Spec == Init /\ [][Next]_vars

\* A process that is not killed is not held up: no call in the constructor blocks.
FairSpec == Spec /\ \A p \in Processes : WF_vars(Construct(p))

--------------------------------------------------------------------------------
Running(p) == At(p, "running")

\* No two compositors have the same display, whichever of them are started, end or
\* are killed at the same time (socket::socket()).  Without abstract sockets the
\* lock file alone must do this, and it does until a process ends.
Exclusive ==
    linux \/ Ended = {} =>
      \A p, q \in Processes :
        Running(p) /\ Running(q) /\ display[p] = display[q] => p = q

\* The constructor comes to an end, whatever the others do.
Decides == \A p \in Processes : <>(p \notin alive \/ pc[p] \in {"running", "failed"})

================================================================================
