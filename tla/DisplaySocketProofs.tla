-------------------------- MODULE DisplaySocketProofs --------------------------
(****************************************************************************)
(* Proofs that no two compositors of DisplaySocket run on the same display, *)
(* for any number of processes and displays.                                *)
(****************************************************************************)
EXTENDS DisplaySocket, TLAPS

USE DisplaysAssumption, NobodyAssumption

\* Who runs on Linux has bound the abstract name of its display.
AbstractInv == linux => \A p \in Processes : Running(p) => abstract[display[p]] = p

\* The steps between the creation of the lock file and its removal.
Holding == {"write", "clean", "bind", "running"}

\* Without abstract sockets, and as long as every process is there, a lock file names
\* who made it, and nobody takes it for one that was left behind.
LockInv ==
    ~linux /\ Ended = {} =>
      \A p \in Processes :
        /\ pc[p] \notin {"remove", "bind abstract", "unlock", "unlink"}
        /\ pc[p] \in Holding => lock_file[display[p]].by = p
        /\ pc[p] = "check" => lock_pid[p] \in Processes

IInv == TypeOK /\ AbstractInv /\ LockInv


--------------------------------------------------------------------------------
(****************************************************************************)
(* Types                                                                    *)
(****************************************************************************)
\* What a lock file and its writer can be.
LEMMA FileTypes ==
    /\ NoFile \in [by: Processes \cup {Nobody}, pid: Processes \cup {Nobody}]
    /\ \A p \in Processes :
         /\ EmptyFile(p) \in [by: Processes \cup {Nobody}, pid: Processes \cup {Nobody}]
         /\ LockFile(p) \in [by: Processes \cup {Nobody}, pid: Processes \cup {Nobody}]
         /\ EmptyFile(p).by = p /\ LockFile(p).by = p
  BY DEF NoFile, EmptyFile, LockFile

\* A process that is still at work has a display.
LEMMA HasDisplay ==
    ASSUME TypeOK, NEW p \in Processes, pc[p] # "failed"
    PROVE  display[p] \in Display /\ display[p] + 1 \in 0..Displays /\ display[p] # Displays
  BY DEF TypeOK, Display

\* Going on to the next display keeps the types; who has tried the last one has failed.
LEMMA NextDisplayTypes ==
    ASSUME TypeOK, NEW p \in Processes, pc[p] # "failed", NextDisplay(p)
    PROVE  /\ pc' \in [Processes -> Steps]
           /\ display' \in [Processes -> 0..Displays]
           /\ \A q \in Processes : display'[q] = Displays => pc'[q] = "failed"
           /\ attempt' \in [Processes -> 0..(Attempts - 1)]
           /\ lock_pid' \in [Processes -> Processes \cup {Nobody}]
  <1>1. display[p] \in Display /\ display[p] + 1 \in 0..Displays
    BY HasDisplay
  <1>2. display' \in [Processes -> 0..Displays]
    BY <1>1 DEF TypeOK, NextDisplay
  <1>3. pc' \in [Processes -> Steps]
    BY DEF TypeOK, NextDisplay, Goto, Steps
  <1>4. attempt' \in [Processes -> 0..(Attempts - 1)]
    BY DEF TypeOK, NextDisplay, Attempts
  <1>5. lock_pid' \in [Processes -> Processes \cup {Nobody}]
    BY DEF TypeOK, NextDisplay
  <1>6. \A q \in Processes : display'[q] = Displays => pc'[q] = "failed"
    BY <1>1 DEF TypeOK, NextDisplay, Goto, Display
  <1> QED BY <1>2, <1>3, <1>4, <1>5, <1>6

\* So does trying the same display again, as often as the code does.
LEMMA NextAttemptTypes ==
    ASSUME TypeOK, NEW p \in Processes, pc[p] # "failed", NextAttempt(p)
    PROVE  /\ pc' \in [Processes -> Steps]
           /\ display' \in [Processes -> 0..Displays]
           /\ \A q \in Processes : display'[q] = Displays => pc'[q] = "failed"
           /\ attempt' \in [Processes -> 0..(Attempts - 1)]
           /\ lock_pid' \in [Processes -> Processes \cup {Nobody}]
  <1>1. CASE attempt[p] + 1 < Attempts
    <2>1. attempt[p] + 1 \in 0..(Attempts - 1)
      BY <1>1 DEF TypeOK, Attempts
    <2>2. attempt' \in [Processes -> 0..(Attempts - 1)]
      BY <1>1, <2>1 DEF TypeOK, NextAttempt
    <2>3. pc' \in [Processes -> Steps] /\ display' = display
      BY <1>1 DEF TypeOK, NextAttempt, Goto, Steps
    <2>4. lock_pid' \in [Processes -> Processes \cup {Nobody}]
      BY <1>1 DEF TypeOK, NextAttempt
    <2>5. \A q \in Processes : display'[q] = Displays => pc'[q] = "failed"
      BY <1>1, HasDisplay DEF TypeOK, NextAttempt, Goto
    <2> QED BY <2>2, <2>3, <2>4, <2>5 DEF TypeOK
  <1>2. CASE ~(attempt[p] + 1 < Attempts)
    BY <1>2, NextDisplayTypes DEF NextAttempt
  <1> QED BY <1>1, <1>2

\* Either loop only moves the process it is of.
LEMMA LoopMoves ==
    ASSUME TypeOK, NEW p \in Processes, NextDisplay(p) \/ NextAttempt(p)
    PROVE  /\ pc'[p] \in {"lock", "failed"}
           /\ \A r \in Processes \ {p} :
                pc'[r] = pc[r] /\ display'[r] = display[r] /\ lock_pid'[r] = lock_pid[r]
  BY DEF TypeOK, NextAttempt, NextDisplay, Goto

\* What it reads makes a process go on to the next attempt, to the next display, or to
\* check the number.
LEMMA ReadPidMoves ==
    ASSUME TypeOK, NEW p \in Processes, ReadPid(p)
    PROVE  /\ pc'[p] \in {"lock", "failed", "check"}
           /\ \A r \in Processes \ {p} :
                pc'[r] = pc[r] /\ display'[r] = display[r] /\ lock_pid'[r] = lock_pid[r]
           /\ pc'[p] = "check" => lock_pid'[p] # Nobody
  <1>1. CASE NextAttempt(p) \/ NextDisplay(p)
    BY <1>1, LoopMoves
  <1>2. CASE ~(NextAttempt(p) \/ NextDisplay(p))
    <2>1. /\ lock_pid' = [lock_pid EXCEPT ![p] = lock_file[display[p]].pid]
          /\ Goto(p, "check") /\ UNCHANGED display
          /\ lock_file[display[p]] # NoFile /\ lock_file[display[p]].pid # Nobody
      BY <1>2 DEF ReadPid
    <2> QED BY <2>1 DEF TypeOK, Goto
  <1> QED BY <1>1, <1>2

\* Every step keeps the types.
LEMMA NextTypes == ASSUME TypeOK, [Next]_vars PROVE TypeOK'
  <1> DEFINE File == [by: Processes \cup {Nobody}, pid: Processes \cup {Nobody}]
  <1> USE FileTypes
  <1>0. CASE UNCHANGED vars
    BY <1>0 DEF TypeOK, vars, local, files
  \* The process that moves stays on its display, or goes on with the constructor's loop.
  <1>1. ASSUME NEW p \in Processes, NEW step \in Steps, pc[p] # "failed", Goto(p, step),
               UNCHANGED <<local, linux>>, alive' \subseteq alive,
               lock_file' \in [Display -> File],
               socket_file' \in [Display -> Processes \cup {Nobody}],
               abstract' \in [Display -> Processes \cup {Nobody}]
        PROVE  TypeOK'
    BY <1>1, HasDisplay DEF TypeOK, Goto, local
  <1>2. ASSUME NEW p \in Processes, pc[p] # "failed", NextDisplay(p) \/ NextAttempt(p),
               UNCHANGED <<alive, linux>>,
               lock_file' \in [Display -> File],
               socket_file' \in [Display -> Processes \cup {Nobody}],
               abstract' \in [Display -> Processes \cup {Nobody}]
        PROVE  TypeOK'
    BY <1>2, NextDisplayTypes, NextAttemptTypes DEF TypeOK
  <1>3. ASSUME NEW p \in Processes, Construct(p) \/ Destruct(p) \/ Kill(p) PROVE TypeOK'
    <2>1. CASE CheckDirectory(p)
      BY <2>1, <1>1 DEF CheckDirectory, At, TypeOK, Steps, files
    <2>2. CASE CreateLock(p)
      <3>1. lock_file' \in [Display -> File]
        BY <2>2 DEF CreateLock, TypeOK
      <3> QED BY <2>2, <3>1, <1>1 DEF CreateLock, At, TypeOK, Steps
    <2>3. CASE WritePid(p)
      BY <2>3, <1>1 DEF WritePid, At, TypeOK, Steps
    <2>4. CASE WritePidFails(p)
      BY <2>4, <1>2 DEF WritePidFails, At, TypeOK
    <2>5. CASE ReadPid(p)
      <3> DEFINE file == lock_file[display[p]]
      <3>1. CASE NextAttempt(p) \/ NextDisplay(p)
        BY <2>5, <3>1, <1>2 DEF ReadPid, At, TypeOK, files
      <3>2. CASE ~(NextAttempt(p) \/ NextDisplay(p))
        <4>1. /\ lock_pid' = [lock_pid EXCEPT ![p] = file.pid]
              /\ Goto(p, "check")
              /\ UNCHANGED <<display, attempt, alive, linux, files>>
              /\ pc[p] = "read"
          BY <2>5, <3>2 DEF ReadPid, At
        <4>2. file.pid \in Processes \cup {Nobody}
          BY <4>1, HasDisplay DEF TypeOK
        <4> QED BY <4>1, <4>2, HasDisplay DEF TypeOK, Goto, files, Steps
      <3> QED BY <3>1, <3>2
    <2>6. CASE CheckPid(p)
      BY <2>6, <1>1, <1>2 DEF CheckPid, At, TypeOK, Steps, files
    <2>7. CASE RemoveLock(p)
      BY <2>7, <1>2 DEF RemoveLock, At, TypeOK
    <2>8. CASE RemoveSocketFile(p)
      BY <2>8, <1>1 DEF RemoveSocketFile, At, TypeOK, Steps
    <2>9. CASE BindFile(p)
      BY <2>9, <1>1 DEF BindFile, At, TypeOK, Steps
    <2>10. CASE BindFileFails(p)
      BY <2>10, <1>2 DEF BindFileFails, At, TypeOK
    <2>11. CASE BindAbstract(p)
      <3>1. abstract' \in [Display -> Processes \cup {Nobody}]
        BY ZenonT(60), <2>11 DEF BindAbstract, TypeOK
      <3> QED BY <2>11, <3>1, <1>1 DEF BindAbstract, At, TypeOK, Steps
    <2>12. CASE Unlock(p)
      BY <2>12, <1>1 DEF Unlock, At, TypeOK, Steps
    <2>13. CASE Unlink(p)
      BY <2>13, <1>2 DEF Unlink, At, TypeOK
    <2>14. CASE Close(p)
      BY <2>14, <1>1 DEF Close, At, TypeOK, Steps
    <2>15. CASE CloseSocketFile(p)
      BY <2>15, <1>1 DEF CloseSocketFile, At, TypeOK, Steps
    <2>16. CASE CloseLockFile(p)
      BY <2>16, <1>1 DEF CloseLockFile, At, TypeOK, Steps
    <2>17. CASE Kill(p)
      BY <2>17 DEF Kill, TypeOK, local
    <2> QED
      BY <1>3, <2>1, <2>2, <2>3, <2>4, <2>5, <2>6, <2>7, <2>8, <2>9, <2>10, <2>11,
         <2>12, <2>13, <2>14, <2>15, <2>16, <2>17 DEF Construct, TryLockFile, Destruct
  <1> QED BY <1>0, <1>3 DEF Next


--------------------------------------------------------------------------------
(****************************************************************************)
(* The abstract name is given up only by who has bound it.                  *)
(****************************************************************************)
\* No step takes the abstract name of a display from who runs on it.
LEMMA NextAbstract == ASSUME TypeOK, TypeOK', AbstractInv, [Next]_vars PROVE AbstractInv'
  <1> SUFFICES ASSUME linux', NEW q \in Processes, Running(q)'
               PROVE  abstract'[display'[q]] = q
    BY DEF AbstractInv
  <1> USE DEF Running, At
  <1>0. CASE UNCHANGED vars
    BY <1>0 DEF AbstractInv, vars, local, files
  \* No name is given up, and nobody comes to run.
  <1>1. ASSUME NEW p \in Processes, pc'[p] # "running", \A r \in Processes \ {p} :
                 pc'[r] = pc[r] /\ display'[r] = display[r],
               alive' = alive, linux' = linux, abstract' = abstract
        PROVE  abstract'[display'[q]] = q
    BY <1>1 DEF AbstractInv
  <1>2. ASSUME NEW p \in Processes, Construct(p) \/ Destruct(p) \/ Kill(p)
        PROVE  abstract'[display'[q]] = q
    <2>1. CASE CheckDirectory(p)
      <3>1. pc'[p] # "running" /\ \A r \in Processes \ {p} : pc'[r] = pc[r]
        BY <2>1 DEF CheckDirectory, TypeOK, Goto
      <3> QED BY <2>1, <3>1, <1>1 DEF CheckDirectory, local, files
    <2>2. CASE CreateLock(p)
      <3>1. pc'[p] # "running" /\ \A r \in Processes \ {p} : pc'[r] = pc[r]
        BY <2>2 DEF CreateLock, TypeOK, Goto
      <3> QED BY <2>2, <3>1, <1>1 DEF CreateLock, local
    <2>3. CASE WritePid(p)
      <3>1. pc'[p] # "running" /\ \A r \in Processes \ {p} : pc'[r] = pc[r]
        BY <2>3 DEF WritePid, TypeOK, Goto
      <3> QED BY <2>3, <3>1, <1>1 DEF WritePid, local
    <2>4. CASE WritePidFails(p)
      BY <2>4, <1>1, LoopMoves DEF WritePidFails
    <2>5. CASE ReadPid(p)
      <3>1. /\ pc'[p] # "running"
            /\ \A r \in Processes \ {p} : pc'[r] = pc[r] /\ display'[r] = display[r]
        BY <2>5, ReadPidMoves
      <3> QED BY <2>5, <3>1, <1>1 DEF ReadPid, files
    <2>6. CASE CheckPid(p)
      <3>1. CASE lock_pid[p] \in alive
        BY <2>6, <3>1, <1>1, LoopMoves DEF CheckPid, files
      <3>2. CASE lock_pid[p] \notin alive
        BY <2>6, <3>2, <1>1 DEF CheckPid, TypeOK, Goto, local, files
      <3> QED BY <3>1, <3>2
    <2>7. CASE RemoveLock(p)
      BY <2>7, <1>1, LoopMoves DEF RemoveLock
    <2>8. CASE RemoveSocketFile(p)
      <3>1. pc'[p] # "running" /\ \A r \in Processes \ {p} : pc'[r] = pc[r]
        BY <2>8 DEF RemoveSocketFile, TypeOK, Goto
      <3> QED BY <2>8, <3>1, <1>1 DEF RemoveSocketFile, local
    <2>9. CASE BindFile(p)
      <3>1. pc'[p] # "running" /\ \A r \in Processes \ {p} : pc'[r] = pc[r]
        BY <2>9 DEF BindFile, TypeOK, Goto
      <3> QED BY <2>9, <3>1, <1>1 DEF BindFile, local
    <2>10. CASE BindFileFails(p)
      BY <2>10, <1>1, LoopMoves DEF BindFileFails
    <2>11. CASE BindAbstract(p)
      <3>1. CASE abstract[display[p]] # Nobody
        BY <2>11, <3>1, <1>1 DEF BindAbstract, TypeOK, Goto, local
      <3>2. CASE abstract[display[p]] = Nobody
        <4>1. display[p] \in Display /\ alive' = alive /\ display' = display /\ linux' = linux
          BY <2>11, HasDisplay DEF BindAbstract, local
        <4>2. CASE q = p
          BY <2>11, <3>2, <4>1, <4>2 DEF BindAbstract, TypeOK
        <4>3. CASE q # p
          <5>1. pc[q] = "running"
            BY <2>11, <3>2, <4>3 DEF BindAbstract, TypeOK, Goto
          <5>2. abstract[display[q]] = q /\ display[q] \in Display /\ q # Nobody
            BY <4>1, <5>1, HasDisplay DEF AbstractInv
          <5> QED BY <2>11, <3>2, <4>1, <5>2 DEF BindAbstract, TypeOK
        <4> QED BY <4>2, <4>3
      <3> QED BY <3>1, <3>2
    <2>12. CASE Unlock(p)
      <3>1. pc'[p] # "running" /\ \A r \in Processes \ {p} : pc'[r] = pc[r]
        BY <2>12 DEF Unlock, TypeOK, Goto
      <3> QED BY <2>12, <3>1, <1>1 DEF Unlock, local
    <2>13. CASE Unlink(p)
      BY <2>13, <1>1, LoopMoves DEF Unlink
    <2>14. CASE Close(p)
      <3>1. q # p /\ pc[q] = pc'[q] /\ display' = display /\ alive' = alive /\ linux' = linux
        BY <2>14 DEF Close, TypeOK, Goto, local
      <3>2. display[q] \in Display /\ abstract[display[q]] = q
        BY <3>1, HasDisplay DEF AbstractInv
      <3> QED BY <2>14, <3>1, <3>2 DEF Close, TypeOK
    <2>15. CASE CloseSocketFile(p)
      <3>1. pc'[p] # "running" /\ \A r \in Processes \ {p} : pc'[r] = pc[r]
        BY <2>15 DEF CloseSocketFile, TypeOK, Goto
      <3> QED BY <2>15, <3>1, <1>1 DEF CloseSocketFile, local
    <2>16. CASE CloseLockFile(p)
      BY <2>16 DEF CloseLockFile, TypeOK, Goto, local, AbstractInv
    <2>17. CASE Kill(p)
      <3>1. q # p /\ pc[q] = pc'[q] /\ display' = display /\ q \in alive /\ linux' = linux
        BY <2>17 DEF Kill, TypeOK, local
      <3>2. display[q] \in Display /\ abstract[display[q]] = q
        BY <3>1, HasDisplay DEF AbstractInv
      <3> QED BY <2>17, <3>1, <3>2 DEF Kill, TypeOK
    <2> QED
      BY <1>2, <2>1, <2>2, <2>3, <2>4, <2>5, <2>6, <2>7, <2>8, <2>9, <2>10, <2>11,
         <2>12, <2>13, <2>14, <2>15, <2>16, <2>17 DEF Construct, TryLockFile, Destruct
  <1> QED BY <1>0, <1>2 DEF Next

--------------------------------------------------------------------------------
(****************************************************************************)
(* The lock file                                                            *)
(****************************************************************************)
\* A process that has ended stays so.
LEMMA EndedGrows == ASSUME TypeOK, TypeOK', [Next]_vars, Ended' = {} PROVE Ended = {}
  <1>1. alive' \subseteq alive
    BY DEF Next, vars, Construct, TryLockFile, Destruct, Kill, CheckDirectory, CreateLock,
           WritePid, WritePidFails, ReadPid, CheckPid, RemoveLock, RemoveSocketFile, BindFile,
           BindFileFails, BindAbstract, Unlock, Unlink, Close, CloseSocketFile, CloseLockFile
  <1>2. ASSUME NEW q \in Processes, q \in alive', pc[q] \in {"close", "quit"}
        PROVE  pc'[q] \in {"close", "quit"}
    <2>0. CASE UNCHANGED vars
      BY <1>2, <2>0 DEF vars
    <2>1. ASSUME NEW p \in Processes, Construct(p)
          PROVE  pc'[q] = pc[q]
      <3>1. p # q
        BY <1>2, <2>1 DEF At, Construct, TryLockFile, CheckDirectory, CreateLock, WritePid,
              WritePidFails, ReadPid, CheckPid, RemoveLock, RemoveSocketFile, BindFile,
              BindFileFails, BindAbstract, Unlock, Unlink
      <3>2. CASE ReadPid(p)
        BY <3>1, <3>2, ReadPidMoves DEF At, ReadPid
      <3>3. CASE ~ReadPid(p)
        BY ZenonT(60), <2>1, <3>1, <3>3
           DEF TypeOK, At, Construct, TryLockFile, CheckDirectory, CreateLock, WritePid,
               WritePidFails, CheckPid, RemoveLock, RemoveSocketFile, BindFile,
               BindFileFails, BindAbstract, Unlock, Unlink, Goto, NextDisplay, NextAttempt,
               local
      <3> QED BY <3>2, <3>3
    <2>2. ASSUME NEW p \in Processes, Destruct(p)
          PROVE  pc'[q] \in {"close", "quit"}
      BY <1>2, <2>2 DEF TypeOK, At, Destruct, Close, CloseSocketFile, CloseLockFile, Goto
    <2>3. ASSUME NEW p \in Processes, Kill(p)
          PROVE  pc'[q] = pc[q]
      BY <2>3 DEF Kill
    <2> QED BY <1>2, <2>0, <2>1, <2>2, <2>3 DEF Next
  <1>3. SUFFICES ASSUME NEW q \in Processes, q \in Ended PROVE q \in Ended'
    BY DEF Ended
  <1> QED BY <1>1, <1>2, <1>3 DEF Ended


\* Every step keeps that lock files name who made them, as long as nobody has ended.
LEMMA NextLock == ASSUME TypeOK, TypeOK', LockInv, [Next]_vars PROVE LockInv'
  <1> SUFFICES ASSUME ~linux', Ended' = {}, NEW q \in Processes
               PROVE  /\ pc'[q] \notin {"remove", "bind abstract", "unlock", "unlink"}
                      /\ pc'[q] \in Holding => lock_file'[display'[q]].by = q
                      /\ pc'[q] = "check" => lock_pid'[q] \in Processes
    BY DEF LockInv
  <1> DEFINE Kept(r) == /\ pc'[r] \notin {"remove", "bind abstract", "unlock", "unlink"}
                        /\ pc'[r] \in Holding => lock_file'[display'[r]].by = r
                        /\ pc'[r] = "check" => lock_pid'[r] \in Processes
  <1>1. ~linux
    BY DEF Next, vars, Construct, TryLockFile, Destruct, Kill, CheckDirectory, CreateLock,
           WritePid, WritePidFails, ReadPid, CheckPid, RemoveLock, RemoveSocketFile, BindFile,
           BindFileFails, BindAbstract, Unlock, Unlink, Close, CloseSocketFile, CloseLockFile
  <1>2. Ended = {} /\ alive = Processes
    BY EndedGrows DEF Ended, TypeOK
  <1>3. \A r \in Processes :
          /\ pc[r] \notin {"remove", "bind abstract", "unlock", "unlink", "close", "quit"}
          /\ pc[r] \in Holding => lock_file[display[r]].by = r
          /\ pc[r] = "check" => lock_pid[r] \in Processes
    BY <1>1, <1>2 DEF LockInv, Ended
  <1>0. CASE UNCHANGED vars
    BY <1>0, <1>3 DEF vars, local, files
  \* The files of the others are left alone, and the one that moves has its own.
  <1>4. ASSUME NEW p \in Processes, Kept(p),
               \A r \in Processes \ {p} :
                 /\ pc'[r] = pc[r] /\ display'[r] = display[r] /\ lock_pid'[r] = lock_pid[r]
                 /\ pc[r] \in Holding => lock_file'[display[r]] = lock_file[display[r]]
        PROVE  Kept(q)
    BY ZenonT(60), <1>3, <1>4
  \* Who has a lock file is the only one to have it.
  <1>5. ASSUME NEW p \in Processes, NEW r \in Processes \ {p},
               pc[p] \in Holding, pc[r] \in Holding
        PROVE  display[p] # display[r]
    BY <1>3, <1>5
  <1>6. ASSUME NEW p \in Processes, Construct(p) \/ Destruct(p) \/ Kill(p) PROVE Kept(q)
    <2>1. CASE CheckDirectory(p)
      <3>1. /\ pc'[p] \in {"lock", "failed"} /\ display' = display /\ lock_pid' = lock_pid
            /\ lock_file' = lock_file /\ \A r \in Processes \ {p} : pc'[r] = pc[r]
        BY <2>1 DEF CheckDirectory, TypeOK, Goto, local, files
      <3> QED BY <3>1, <1>4 DEF Holding
    <2>2. CASE CreateLock(p)
      <3>1. display' = display /\ lock_pid' = lock_pid /\ display[p] \in Display /\ pc[p] = "lock"
        BY <2>2, HasDisplay DEF CreateLock, local, At
      <3>2. CASE lock_file[display[p]] = NoFile
        <4>1. /\ pc'[p] = "write" /\ \A r \in Processes \ {p} : pc'[r] = pc[r]
              /\ lock_file' = [lock_file EXCEPT ![display[p]] = EmptyFile(p)]
          BY <2>2, <3>2 DEF CreateLock, TypeOK, Goto
        <4>2. lock_file'[display'[p]].by = p
          BY <3>1, <4>1, FileTypes DEF TypeOK
        <4>3. ASSUME NEW r \in Processes \ {p}, pc[r] \in Holding
              PROVE  lock_file'[display[r]] = lock_file[display[r]]
          <5>1. display[r] \in Display /\ lock_file[display[r]].by = r /\ r # Nobody
            BY <4>3, <1>3, HasDisplay DEF Holding
          <5>2. display[r] # display[p]
            BY <5>1, <3>2 DEF NoFile
          <5> QED BY <4>1, <5>1, <5>2 DEF TypeOK
        <4> QED BY <3>1, <4>1, <4>2, <4>3, <1>4
      <3>3. CASE lock_file[display[p]] # NoFile
        <4>1. /\ pc'[p] = "read" /\ \A r \in Processes \ {p} : pc'[r] = pc[r]
              /\ lock_file' = lock_file
          BY <2>2, <3>3 DEF CreateLock, TypeOK, Goto
        <4> QED BY <3>1, <4>1, <1>4 DEF Holding
      <3> QED BY <3>2, <3>3
    <2>3. CASE WritePid(p)
      <3>1. /\ display' = display /\ lock_pid' = lock_pid /\ display[p] \in Display
            /\ pc[p] = "write" /\ pc'[p] = "clean" /\ \A r \in Processes \ {p} : pc'[r] = pc[r]
        BY <2>3, HasDisplay DEF WritePid, local, At, TypeOK, Goto
      <3>2. lock_file[display[p]].by = p
        BY <3>1, <1>3 DEF Holding
      <3>3. lock_file' = [lock_file EXCEPT ![display[p]] = LockFile(p)]
        BY <2>3, <3>1, <3>2 DEF WritePid, TypeOK
      <3>4. lock_file'[display'[p]].by = p
        BY <3>1, <3>3, FileTypes DEF TypeOK
      <3>5. ASSUME NEW r \in Processes \ {p}, pc[r] \in Holding
            PROVE  lock_file'[display[r]] = lock_file[display[r]]
        <4>1. display[r] \in Display /\ display[r] # display[p]
          BY <3>1, <3>5, <1>5, HasDisplay DEF Holding
        <4> QED BY <4>1, <3>3 DEF TypeOK
      <3> QED BY <3>1, <3>4, <3>5, <1>4
    <2>4. CASE WritePidFails(p) \/ BindFileFails(p)
      <3>1. /\ pc[p] \in Holding /\ NextDisplay(p)
            /\ lock_file' = [lock_file EXCEPT ![display[p]] = NoFile]
        BY <2>4 DEF WritePidFails, BindFileFails, At, Holding
      <3>2. \A r \in Processes \ {p} :
              pc[r] \in Holding => lock_file'[display[r]] = lock_file[display[r]]
        <4> SUFFICES ASSUME NEW r \in Processes \ {p}, pc[r] \in Holding
                     PROVE  lock_file'[display[r]] = lock_file[display[r]]
          OBVIOUS
        <4>1. display[r] \in Display /\ display[r] # display[p]
          BY <3>1, <1>5, HasDisplay DEF Holding
        <4> QED BY <4>1, <3>1 DEF TypeOK
      <3> QED BY ZenonT(60), <3>1, <3>2, <1>4, LoopMoves DEF Holding
    <2>5. CASE ReadPid(p)
      <3>1. lock_pid'[p] \in Processes \cup {Nobody} /\ lock_file' = lock_file
        BY <2>5 DEF TypeOK, ReadPid, files
      <3> QED BY <2>5, <3>1, <1>4, ReadPidMoves DEF Holding
    <2>6. CASE CheckPid(p)
      <3>1. lock_pid[p] \in alive
        BY <2>6, <1>2, <1>3 DEF CheckPid, At
      <3> QED BY <2>6, <3>1, <1>4, LoopMoves DEF CheckPid, files, Holding
    <2>7. CASE RemoveLock(p) \/ BindAbstract(p) \/ Unlock(p) \/ Unlink(p)
      BY <2>7, <1>3 DEF RemoveLock, BindAbstract, Unlock, Unlink, At
    <2>8. CASE RemoveSocketFile(p)
      <3>1. /\ pc[p] \in Holding /\ pc'[p] = "bind" /\ \A r \in Processes \ {p} : pc'[r] = pc[r]
            /\ UNCHANGED <<display, lock_pid, lock_file>>
        BY <2>8 DEF RemoveSocketFile, At, TypeOK, Goto, local, Holding
      <3> QED BY <3>1, <1>3, <1>4 DEF Holding
    <2>9. CASE BindFile(p)
      <3>1. /\ pc[p] \in Holding /\ pc'[p] = "running" /\ \A r \in Processes \ {p} : pc'[r] = pc[r]
            /\ UNCHANGED <<display, lock_pid, lock_file>>
        BY <2>9, <1>1 DEF BindFile, At, TypeOK, Goto, local, Holding
      <3> QED BY <3>1, <1>3, <1>4 DEF Holding
    <2>10. CASE Close(p)
      BY <2>10 DEF Close, Ended, TypeOK, Goto
    <2>11. CASE CloseSocketFile(p) \/ CloseLockFile(p)
      BY <2>11, <1>3 DEF CloseSocketFile, CloseLockFile, At
    <2>12. CASE Kill(p)
      BY <2>12, <1>6 DEF Kill, Ended
    <2> QED
      BY <1>6, <2>1, <2>2, <2>3, <2>4, <2>5, <2>6, <2>7, <2>8, <2>9, <2>10, <2>11, <2>12
         DEF Construct, TryLockFile, Destruct
  <1> QED BY <1>0, <1>6 DEF Next

--------------------------------------------------------------------------------
\* The invariant holds before any compositor has looked for a display.
LEMMA InitInv == Init => IInv
  <1> SUFFICES ASSUME Init PROVE IInv
    OBVIOUS
  <1>1. TypeOK
    BY FileTypes DEF Init, TypeOK, Steps, Display, Attempts
  <1>2. AbstractInv /\ LockInv
    BY DEF Init, AbstractInv, LockInv, Running, At, Holding
  <1> QED BY <1>1, <1>2 DEF IInv

\* Every step keeps the invariant.
LEMMA NextInv == IInv /\ [Next]_vars => IInv'
  BY NextTypes, NextAbstract, NextLock DEF IInv

\* The invariant that the search for a display keeps, step by step, in every process.
THEOREM Invariance == Spec => []IInv
  BY InitInv, NextInv, PTL DEF Spec

\* Every step of the search leaves each process on a display there is, at a step of the
\* constructor or destructor, and every file with an owner or none (class socket).
THEOREM TypeCorrect == Spec => []TypeOK
  <1>1. IInv => TypeOK
    BY DEF IInv
  <1> QED BY <1>1, Invariance, PTL

\* For any number of compositors and displays, two that run never have the same display:
\* on Linux whatever ends or is killed and whatever lock files are left behind, without
\* abstract sockets until the first of them ends (socket::socket(), try_lock_file()).
THEOREM DisplaysExclusive == Spec => []Exclusive
  <1>1. IInv => Exclusive
    <2> SUFFICES ASSUME IInv, linux \/ Ended = {}, NEW p \in Processes, NEW q \in Processes,
                        Running(p), Running(q), display[p] = display[q]
                 PROVE  p = q
      BY DEF Exclusive
    <2>1. CASE linux
      BY <2>1 DEF IInv, AbstractInv
    <2>2. CASE ~linux
      <3>1. lock_file[display[p]].by = p /\ lock_file[display[q]].by = q
        BY <2>2 DEF IInv, LockInv, Running, At, Holding
      <3> QED BY <3>1
    <2> QED BY <2>1, <2>2
  <1> QED BY <1>1, Invariance, PTL

================================================================================
