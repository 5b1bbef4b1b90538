---------------------------- MODULE Launch_proofs ----------------------------
(***************************************************************************)
(* Proofs about Launch, for any number of launches, of any modes and paths: *)
(* the type invariant, that nobody takes the lock file of a live daemon    *)
(* away, and of launches which follow one another that they make one       *)
(* daemon, which the pid file names, which stays reachable at a path of    *)
(* its own, and which alone is the reason to refuse one.                   *)
(***************************************************************************)
EXTENDS Launch, TLAPS

(* The points before a launch has passed the look at the process table.     *)
Early == {"idle", "load", "check", "options", "stat", "scan", "gone"}

(* Only a process that has ended has a result, so that none is replaced.    *)
ResultsFinal == \A l \in Launches : outcome[l] # "none" => launcher[l] = "gone"

NoFailure == \A l \in Launches : outcome[l] # "failure"

(* A launch that has found nobody and is about to remove the lock file: the *)
(* file is there, and whoever has come since will find this launch.         *)
AloneAtRemove(k) ==
  launcher[k] = "remove" =>
    /\ lockFile
    /\ \A l \in Launches \ {k} :
         launcher[l] \in Early /\ (kind[l].mode = "start" => ~DaemonRuns(l))

(* A launch that has seen a lock file which is no longer there finds the    *)
(* one that has removed it and is about to create its own.                  *)
RemoverThere(k) ==
  launcher[k] = "scan" /\ ~lockFile
    => \E j \in Launches \ {k} : launcher[j] = "open"

LockHeld(l) ==
  \/ launcher[l] \in {"fork", "pause"}
  \/ kind[l].mode = "start" /\ DaemonRuns(l)
  => lockFile

LockInv ==
  NoFailure => \A l \in Launches :
                 AloneAtRemove(l) /\ RemoverThere(l) /\ LockHeld(l)

(* The Server constructor is entered by plain launches only, and forks last. *)
DaemonsByFork ==
  \A l \in Launches :
    /\ launcher[l] \in {"stat", "scan", "remove", "open", "fork", "pause"}
         => kind[l].mode = "start"
    /\ launcher[l] \notin {"pause", "gone"} => daemon[l] = "none"

(* Launches that follow one another: two are never under way.               *)
InTurn == ~atOnce => \A k, l \in Launches : k # l => Settled(k) \/ Settled(l)

(* And while a daemon runs, its lock file is there, and no other launch has *)
(* got past the look at the process table.                                  *)
OneRuns ==
  OneAfterAnother =>
    \A k \in Launches :
      DaemonRuns(k) =>
        /\ lockFile
        /\ \A l \in Launches \ {k} : launcher[l] \in Early /\ ~DaemonRuns(l)

(* A fork, too, comes after the lock file is there. *)
LockBeforeFork ==
  OneAfterAnother => \A l \in Launches : launcher[l] = "fork" => lockFile

(* The daemon has written the pid file by the time it opens its socket.     *)
PidWritten ==
  OneAfterAnother =>
    \A l \in Launches : daemon[l] \in {"bind", "serving"} => pidFile = l

(* The inductive invariant. *)
Inv == /\ LaunchTypeOK /\ ResultsFinal /\ DaemonsByFork /\ LockInv
       /\ InTurn /\ OneRuns /\ LockBeforeFork /\ PidWritten
       /\ OverrideStaysReachable

-----------------------------------------------------------------------------
(* Types *)
LEMMA TypeNext ==
  ASSUME LaunchTypeOK, [LaunchNext]_launchVars
  PROVE  LaunchTypeOK'
<1> USE DEF Exit, Step, Goes, DaemonStep, files, LauncherRuns, DaemonRuns,
            LaunchTypeOK, LauncherPoints, DaemonPoints, Outcomes
<1>0. CASE UNCHANGED launchVars
  BY <1>0 DEF launchVars
<1>1. ASSUME NEW l \in Launches, Start(l)
      PROVE  LaunchTypeOK'
  BY <1>1 DEF Start
<1>2. ASSUME NEW l \in Launches, Unlink(l)
      PROVE  LaunchTypeOK'
  BY <1>2 DEF Unlink
<1>3. ASSUME NEW l \in Launches, Load(l)
      PROVE  LaunchTypeOK'
  BY <1>3 DEF Load
<1>4. ASSUME NEW l \in Launches, LoadExits(l)
      PROVE  LaunchTypeOK'
  BY <1>4 DEF LoadExits
<1>5. ASSUME NEW l \in Launches, PrintAndExit(l)
      PROVE  LaunchTypeOK'
  BY <1>5 DEF PrintAndExit
<1>6. ASSUME NEW l \in Launches, AlreadyDaemon(l)
      PROVE  LaunchTypeOK'
  BY <1>6 DEF AlreadyDaemon
<1>7. ASSUME NEW l \in Launches, EnterServer(l)
      PROVE  LaunchTypeOK'
  BY <1>7 DEF EnterServer
<1>8. ASSUME NEW l \in Launches, StatLock(l)
      PROVE  LaunchTypeOK'
  BY <1>8 DEF StatLock
<1>9. ASSUME NEW l \in Launches, Refuse(l)
      PROVE  LaunchTypeOK'
  BY <1>9 DEF Refuse
<1>10. ASSUME NEW l \in Launches, NobodyRuns(l)
       PROVE  LaunchTypeOK'
  BY <1>10 DEF NobodyRuns
<1>11. ASSUME NEW l \in Launches, RemoveLock(l)
       PROVE  LaunchTypeOK'
  BY <1>11 DEF RemoveLock
<1>12. ASSUME NEW l \in Launches, OpenLock(l)
       PROVE  LaunchTypeOK'
  BY <1>12 DEF OpenLock
<1>13. ASSUME NEW l \in Launches, OpenLockFails(l)
       PROVE  LaunchTypeOK'
  BY <1>13 DEF OpenLockFails
<1>14. ASSUME NEW l \in Launches, Fork(l)
       PROVE  LaunchTypeOK'
  BY <1>14 DEF Fork
<1>15. ASSUME NEW l \in Launches, ForkFails(l)
       PROVE  LaunchTypeOK'
  BY <1>15 DEF ForkFails
<1>16. ASSUME NEW l \in Launches, Alarm(l)
       PROVE  LaunchTypeOK'
  BY <1>16 DEF Alarm
<1>17. ASSUME NEW l \in Launches, SignalParent(l)
       PROVE  LaunchTypeOK'
  BY <1>17 DEF SignalParent
<1>18. ASSUME NEW l \in Launches, WritePid(l)
       PROVE  LaunchTypeOK'
  BY <1>18 DEF WritePid
<1>19. ASSUME NEW l \in Launches, WritePidFails(l)
       PROVE  LaunchTypeOK'
  BY <1>19 DEF WritePidFails
<1>20. ASSUME NEW l \in Launches, OpenSocket(l)
       PROVE  LaunchTypeOK'
  BY <1>20 DEF OpenSocket
<1>21. ASSUME NEW l \in Launches, OpenSocketFails(l)
       PROVE  LaunchTypeOK'
  BY <1>21 DEF OpenSocketFails
<1>22. ASSUME NEW l \in Launches, KillDaemon(l)
       PROVE  LaunchTypeOK'
  BY <1>22 DEF KillDaemon
<1>23. ASSUME NEW l \in Launches, KillLauncher(l)
       PROVE  LaunchTypeOK'
  BY <1>23 DEF KillLauncher
<1>24. QED
  BY <1>0, <1>1, <1>2, <1>3, <1>4, <1>5, <1>6, <1>7, <1>8, <1>9, <1>10, <1>11, <1>12,
     <1>13, <1>14, <1>15, <1>16, <1>17, <1>18, <1>19, <1>20, <1>21, <1>22, <1>23
     DEF LaunchNext, LauncherNext, DaemonNext, Kill

(* Results are set when a launcher ends. *)
LEMMA ResultsNext ==
  ASSUME LaunchTypeOK, ResultsFinal, [LaunchNext]_launchVars
  PROVE  ResultsFinal'
<1> USE DEF Exit, Step, Goes, DaemonStep, files, LauncherRuns, DaemonRuns,
            LaunchTypeOK, ResultsFinal
<1>0. CASE UNCHANGED launchVars
  BY <1>0 DEF launchVars
<1>1. ASSUME NEW l \in Launches, Start(l)
      PROVE  ResultsFinal'
  BY <1>1 DEF Start
<1>2. ASSUME NEW l \in Launches, Unlink(l)
      PROVE  ResultsFinal'
  BY <1>2 DEF Unlink
<1>3. ASSUME NEW l \in Launches, Load(l)
      PROVE  ResultsFinal'
  BY <1>3 DEF Load
<1>4. ASSUME NEW l \in Launches, LoadExits(l)
      PROVE  ResultsFinal'
  BY <1>4 DEF LoadExits
<1>5. ASSUME NEW l \in Launches, PrintAndExit(l)
      PROVE  ResultsFinal'
  BY <1>5 DEF PrintAndExit
<1>6. ASSUME NEW l \in Launches, AlreadyDaemon(l)
      PROVE  ResultsFinal'
  BY <1>6 DEF AlreadyDaemon
<1>7. ASSUME NEW l \in Launches, EnterServer(l)
      PROVE  ResultsFinal'
  BY <1>7 DEF EnterServer
<1>8. ASSUME NEW l \in Launches, StatLock(l)
      PROVE  ResultsFinal'
  BY <1>8 DEF StatLock
<1>9. ASSUME NEW l \in Launches, Refuse(l)
      PROVE  ResultsFinal'
  BY <1>9 DEF Refuse
<1>10. ASSUME NEW l \in Launches, NobodyRuns(l)
       PROVE  ResultsFinal'
  BY <1>10 DEF NobodyRuns
<1>11. ASSUME NEW l \in Launches, RemoveLock(l)
       PROVE  ResultsFinal'
  BY <1>11 DEF RemoveLock
<1>12. ASSUME NEW l \in Launches, OpenLock(l)
       PROVE  ResultsFinal'
  BY <1>12 DEF OpenLock
<1>13. ASSUME NEW l \in Launches, OpenLockFails(l)
       PROVE  ResultsFinal'
  BY <1>13 DEF OpenLockFails
<1>14. ASSUME NEW l \in Launches, Fork(l)
       PROVE  ResultsFinal'
  BY <1>14 DEF Fork
<1>15. ASSUME NEW l \in Launches, ForkFails(l)
       PROVE  ResultsFinal'
  BY <1>15 DEF ForkFails
<1>16. ASSUME NEW l \in Launches, Alarm(l)
       PROVE  ResultsFinal'
  BY <1>16 DEF Alarm
<1>17. ASSUME NEW l \in Launches, SignalParent(l)
       PROVE  ResultsFinal'
  BY <1>17 DEF SignalParent
<1>18. ASSUME NEW l \in Launches, WritePid(l)
       PROVE  ResultsFinal'
  BY <1>18 DEF WritePid
<1>19. ASSUME NEW l \in Launches, WritePidFails(l)
       PROVE  ResultsFinal'
  BY <1>19 DEF WritePidFails
<1>20. ASSUME NEW l \in Launches, OpenSocket(l)
       PROVE  ResultsFinal'
  BY <1>20 DEF OpenSocket
<1>21. ASSUME NEW l \in Launches, OpenSocketFails(l)
       PROVE  ResultsFinal'
  BY <1>21 DEF OpenSocketFails
<1>22. ASSUME NEW l \in Launches, KillDaemon(l)
       PROVE  ResultsFinal'
  BY <1>22 DEF KillDaemon
<1>23. ASSUME NEW l \in Launches, KillLauncher(l)
       PROVE  ResultsFinal'
  BY <1>23 DEF KillLauncher
<1>24. QED
  BY <1>0, <1>1, <1>2, <1>3, <1>4, <1>5, <1>6, <1>7, <1>8, <1>9, <1>10, <1>11, <1>12,
     <1>13, <1>14, <1>15, <1>16, <1>17, <1>18, <1>19, <1>20, <1>21, <1>22, <1>23
     DEF LaunchNext, LauncherNext, DaemonNext, Kill

(* Which launches get a daemon, and when. *)
LEMMA ForkNext ==
  ASSUME LaunchTypeOK, DaemonsByFork, [LaunchNext]_launchVars
  PROVE  DaemonsByFork'
<1> USE DEF Exit, Step, Goes, DaemonStep, files, LauncherRuns, DaemonRuns,
            LaunchTypeOK, DaemonsByFork
<1>0. CASE UNCHANGED launchVars
  BY <1>0 DEF launchVars
<1>1. ASSUME NEW l \in Launches, Start(l)
      PROVE  DaemonsByFork'
  BY <1>1 DEF Start
<1>2. ASSUME NEW l \in Launches, Unlink(l)
      PROVE  DaemonsByFork'
  BY <1>2 DEF Unlink
<1>3. ASSUME NEW l \in Launches, Load(l)
      PROVE  DaemonsByFork'
  BY <1>3 DEF Load
<1>4. ASSUME NEW l \in Launches, LoadExits(l)
      PROVE  DaemonsByFork'
  BY <1>4 DEF LoadExits
<1>5. ASSUME NEW l \in Launches, PrintAndExit(l)
      PROVE  DaemonsByFork'
  BY <1>5 DEF PrintAndExit
<1>6. ASSUME NEW l \in Launches, AlreadyDaemon(l)
      PROVE  DaemonsByFork'
  BY <1>6 DEF AlreadyDaemon
<1>7. ASSUME NEW l \in Launches, EnterServer(l)
      PROVE  DaemonsByFork'
  BY <1>7 DEF EnterServer
<1>8. ASSUME NEW l \in Launches, StatLock(l)
      PROVE  DaemonsByFork'
  BY <1>8 DEF StatLock
<1>9. ASSUME NEW l \in Launches, Refuse(l)
      PROVE  DaemonsByFork'
  BY <1>9 DEF Refuse
<1>10. ASSUME NEW l \in Launches, NobodyRuns(l)
       PROVE  DaemonsByFork'
  BY <1>10 DEF NobodyRuns
<1>11. ASSUME NEW l \in Launches, RemoveLock(l)
       PROVE  DaemonsByFork'
  BY <1>11 DEF RemoveLock
<1>12. ASSUME NEW l \in Launches, OpenLock(l)
       PROVE  DaemonsByFork'
  BY <1>12 DEF OpenLock
<1>13. ASSUME NEW l \in Launches, OpenLockFails(l)
       PROVE  DaemonsByFork'
  BY <1>13 DEF OpenLockFails
<1>14. ASSUME NEW l \in Launches, Fork(l)
       PROVE  DaemonsByFork'
  BY <1>14 DEF Fork
<1>15. ASSUME NEW l \in Launches, ForkFails(l)
       PROVE  DaemonsByFork'
  BY <1>15 DEF ForkFails
<1>16. ASSUME NEW l \in Launches, Alarm(l)
       PROVE  DaemonsByFork'
  BY <1>16 DEF Alarm
<1>17. ASSUME NEW l \in Launches, SignalParent(l)
       PROVE  DaemonsByFork'
  BY <1>17 DEF SignalParent
<1>18. ASSUME NEW l \in Launches, WritePid(l)
       PROVE  DaemonsByFork'
  BY <1>18 DEF WritePid
<1>19. ASSUME NEW l \in Launches, WritePidFails(l)
       PROVE  DaemonsByFork'
  BY <1>19 DEF WritePidFails
<1>20. ASSUME NEW l \in Launches, OpenSocket(l)
       PROVE  DaemonsByFork'
  BY <1>20 DEF OpenSocket
<1>21. ASSUME NEW l \in Launches, OpenSocketFails(l)
       PROVE  DaemonsByFork'
  BY <1>21 DEF OpenSocketFails
<1>22. ASSUME NEW l \in Launches, KillDaemon(l)
       PROVE  DaemonsByFork'
  BY <1>22 DEF KillDaemon
<1>23. ASSUME NEW l \in Launches, KillLauncher(l)
       PROVE  DaemonsByFork'
  BY <1>23 DEF KillLauncher
<1>24. QED
  BY <1>0, <1>1, <1>2, <1>3, <1>4, <1>5, <1>6, <1>7, <1>8, <1>9, <1>10, <1>11, <1>12,
     <1>13, <1>14, <1>15, <1>16, <1>17, <1>18, <1>19, <1>20, <1>21, <1>22, <1>23
     DEF LaunchNext, LauncherNext, DaemonNext, Kill

(* A launch that goes from scan to remove has found nobody (NobodyRuns), so *)
(* no lock is held that it could take away; while it is there, whoever     *)
(* looks at the lock file sees it and goes to scan (StatLock). A lock file  *)
(* that is gone has a remover that still runs (RemoveLock), until OpenLock. *)
LEMMA LockNext ==
  ASSUME LaunchTypeOK, ResultsFinal, DaemonsByFork, LockInv, [LaunchNext]_launchVars
  PROVE  LockInv'
<1> USE DEF Exit, Step, Goes, DaemonStep, files, LauncherRuns, DaemonRuns,
            LaunchTypeOK, ResultsFinal, DaemonsByFork, LockInv, NoFailure,
            AloneAtRemove, RemoverThere, LockHeld, Early, OtherProcess
<1>0. CASE UNCHANGED launchVars
  BY <1>0 DEF launchVars
<1>1. ASSUME NEW l \in Launches, Start(l)
      PROVE  LockInv'
  BY <1>1 DEF Start
<1>2. ASSUME NEW l \in Launches, Unlink(l)
      PROVE  LockInv'
  BY <1>2 DEF Unlink
<1>3. ASSUME NEW l \in Launches, Load(l)
      PROVE  LockInv'
  BY <1>3 DEF Load
<1>4. ASSUME NEW l \in Launches, LoadExits(l)
      PROVE  LockInv'
  BY <1>4 DEF LoadExits
<1>5. ASSUME NEW l \in Launches, PrintAndExit(l)
      PROVE  LockInv'
  BY <1>5 DEF PrintAndExit
<1>6. ASSUME NEW l \in Launches, AlreadyDaemon(l)
      PROVE  LockInv'
  BY <1>6 DEF AlreadyDaemon
<1>7. ASSUME NEW l \in Launches, EnterServer(l)
      PROVE  LockInv'
  BY <1>7 DEF EnterServer
<1>8. ASSUME NEW l \in Launches, StatLock(l)
      PROVE  LockInv'
  BY <1>8 DEF StatLock
<1>9. ASSUME NEW l \in Launches, Refuse(l)
      PROVE  LockInv'
  BY <1>9 DEF Refuse
<1>10. ASSUME NEW l \in Launches, NobodyRuns(l)
       PROVE  LockInv'
  BY <1>10 DEF NobodyRuns
<1>11. ASSUME NEW l \in Launches, RemoveLock(l)
       PROVE  LockInv'
  BY <1>11 DEF RemoveLock
<1>12. ASSUME NEW l \in Launches, OpenLock(l)
       PROVE  LockInv'
  BY <1>12 DEF OpenLock
<1>13. ASSUME NEW l \in Launches, OpenLockFails(l)
       PROVE  LockInv'
  BY <1>13 DEF OpenLockFails
<1>14. ASSUME NEW l \in Launches, Fork(l)
       PROVE  LockInv'
  BY <1>14 DEF Fork
<1>15. ASSUME NEW l \in Launches, ForkFails(l)
       PROVE  LockInv'
  BY <1>15 DEF ForkFails
<1>16. ASSUME NEW l \in Launches, Alarm(l)
       PROVE  LockInv'
  BY <1>16 DEF Alarm
<1>17. ASSUME NEW l \in Launches, SignalParent(l)
       PROVE  LockInv'
  BY <1>17 DEF SignalParent
<1>18. ASSUME NEW l \in Launches, WritePid(l)
       PROVE  LockInv'
  BY <1>18 DEF WritePid
<1>19. ASSUME NEW l \in Launches, WritePidFails(l)
       PROVE  LockInv'
  BY <1>19 DEF WritePidFails
<1>20. ASSUME NEW l \in Launches, OpenSocket(l)
       PROVE  LockInv'
  BY <1>20 DEF OpenSocket
<1>21. ASSUME NEW l \in Launches, OpenSocketFails(l)
       PROVE  LockInv'
  BY <1>21 DEF OpenSocketFails
<1>22. ASSUME NEW l \in Launches, KillDaemon(l)
       PROVE  LockInv'
  BY <1>22 DEF KillDaemon
<1>23. ASSUME NEW l \in Launches, KillLauncher(l)
       PROVE  LockInv'
  BY <1>23 DEF KillLauncher
<1>24. QED
  BY <1>0, <1>1, <1>2, <1>3, <1>4, <1>5, <1>6, <1>7, <1>8, <1>9, <1>10, <1>11, <1>12,
     <1>13, <1>14, <1>15, <1>16, <1>17, <1>18, <1>19, <1>20, <1>21, <1>22, <1>23
     DEF LaunchNext, LauncherNext, DaemonNext, Kill

(* Start is the only step that could put a second launch under way. *)
LEMMA TurnNext ==
  ASSUME LaunchTypeOK, InTurn, [LaunchNext]_launchVars
  PROVE  InTurn'
<1> USE DEF Exit, Step, Goes, DaemonStep, files, LauncherRuns, DaemonRuns,
            LaunchTypeOK, InTurn, Settled
<1>0. CASE UNCHANGED launchVars
  BY <1>0 DEF launchVars
<1>1. ASSUME NEW l \in Launches, Start(l)
      PROVE  InTurn'
  BY <1>1 DEF Start
<1>2. ASSUME NEW l \in Launches, Unlink(l)
      PROVE  InTurn'
  BY <1>2 DEF Unlink
<1>3. ASSUME NEW l \in Launches, Load(l)
      PROVE  InTurn'
  BY <1>3 DEF Load
<1>4. ASSUME NEW l \in Launches, LoadExits(l)
      PROVE  InTurn'
  BY <1>4 DEF LoadExits
<1>5. ASSUME NEW l \in Launches, PrintAndExit(l)
      PROVE  InTurn'
  BY <1>5 DEF PrintAndExit
<1>6. ASSUME NEW l \in Launches, AlreadyDaemon(l)
      PROVE  InTurn'
  BY <1>6 DEF AlreadyDaemon
<1>7. ASSUME NEW l \in Launches, EnterServer(l)
      PROVE  InTurn'
  BY <1>7 DEF EnterServer
<1>8. ASSUME NEW l \in Launches, StatLock(l)
      PROVE  InTurn'
  BY <1>8 DEF StatLock
<1>9. ASSUME NEW l \in Launches, Refuse(l)
      PROVE  InTurn'
  BY <1>9 DEF Refuse
<1>10. ASSUME NEW l \in Launches, NobodyRuns(l)
       PROVE  InTurn'
  BY <1>10 DEF NobodyRuns
<1>11. ASSUME NEW l \in Launches, RemoveLock(l)
       PROVE  InTurn'
  BY <1>11 DEF RemoveLock
<1>12. ASSUME NEW l \in Launches, OpenLock(l)
       PROVE  InTurn'
  BY <1>12 DEF OpenLock
<1>13. ASSUME NEW l \in Launches, OpenLockFails(l)
       PROVE  InTurn'
  BY <1>13 DEF OpenLockFails
<1>14. ASSUME NEW l \in Launches, Fork(l)
       PROVE  InTurn'
  BY <1>14 DEF Fork
<1>15. ASSUME NEW l \in Launches, ForkFails(l)
       PROVE  InTurn'
  BY <1>15 DEF ForkFails
<1>16. ASSUME NEW l \in Launches, Alarm(l)
       PROVE  InTurn'
  BY <1>16 DEF Alarm
<1>17. ASSUME NEW l \in Launches, SignalParent(l)
       PROVE  InTurn'
  BY <1>17 DEF SignalParent
<1>18. ASSUME NEW l \in Launches, WritePid(l)
       PROVE  InTurn'
  BY <1>18 DEF WritePid
<1>19. ASSUME NEW l \in Launches, WritePidFails(l)
       PROVE  InTurn'
  BY <1>19 DEF WritePidFails
<1>20. ASSUME NEW l \in Launches, OpenSocket(l)
       PROVE  InTurn'
  BY <1>20 DEF OpenSocket
<1>21. ASSUME NEW l \in Launches, OpenSocketFails(l)
       PROVE  InTurn'
  BY <1>21 DEF OpenSocketFails
<1>22. ASSUME NEW l \in Launches, KillDaemon(l)
       PROVE  InTurn'
  BY <1>22 DEF KillDaemon
<1>23. ASSUME NEW l \in Launches, KillLauncher(l)
       PROVE  InTurn'
  BY <1>23 DEF KillLauncher
<1>24. QED
  BY <1>0, <1>1, <1>2, <1>3, <1>4, <1>5, <1>6, <1>7, <1>8, <1>9, <1>10, <1>11, <1>12,
     <1>13, <1>14, <1>15, <1>16, <1>17, <1>18, <1>19, <1>20, <1>21, <1>22, <1>23
     DEF LaunchNext, LauncherNext, DaemonNext, Kill

(* While a daemon serves, the one launch under way sees the lock file and   *)
(* then the daemon; when a launch forks, all others have settled without   *)
(* one.                                                                     *)
LEMMA OneNext ==
  ASSUME LaunchTypeOK, DaemonsByFork, InTurn, OneRuns,
         LockBeforeFork, [LaunchNext]_launchVars
  PROVE  (OneRuns /\ LockBeforeFork)'
<1> USE DEF Exit, Step, Goes, DaemonStep, files, LauncherRuns, DaemonRuns,
            LaunchTypeOK, DaemonsByFork, InTurn, OneRuns, LockBeforeFork,
            OneAfterAnother, Settled, Early, OtherProcess
<1>0. CASE UNCHANGED launchVars
  BY <1>0 DEF launchVars
<1>1. ASSUME NEW l \in Launches, Start(l)
      PROVE  (OneRuns /\ LockBeforeFork)'
  BY <1>1 DEF Start
<1>2. ASSUME NEW l \in Launches, Unlink(l)
      PROVE  (OneRuns /\ LockBeforeFork)'
  BY <1>2 DEF Unlink
<1>3. ASSUME NEW l \in Launches, Load(l)
      PROVE  (OneRuns /\ LockBeforeFork)'
  BY <1>3 DEF Load
<1>4. ASSUME NEW l \in Launches, LoadExits(l)
      PROVE  (OneRuns /\ LockBeforeFork)'
  BY <1>4 DEF LoadExits
<1>5. ASSUME NEW l \in Launches, PrintAndExit(l)
      PROVE  (OneRuns /\ LockBeforeFork)'
  BY <1>5 DEF PrintAndExit
<1>6. ASSUME NEW l \in Launches, AlreadyDaemon(l)
      PROVE  (OneRuns /\ LockBeforeFork)'
  BY <1>6 DEF AlreadyDaemon
<1>7. ASSUME NEW l \in Launches, EnterServer(l)
      PROVE  (OneRuns /\ LockBeforeFork)'
  BY <1>7 DEF EnterServer
<1>8. ASSUME NEW l \in Launches, StatLock(l)
      PROVE  (OneRuns /\ LockBeforeFork)'
  BY <1>8 DEF StatLock
<1>9. ASSUME NEW l \in Launches, Refuse(l)
      PROVE  (OneRuns /\ LockBeforeFork)'
  BY <1>9 DEF Refuse
<1>10. ASSUME NEW l \in Launches, NobodyRuns(l)
       PROVE  (OneRuns /\ LockBeforeFork)'
  BY <1>10 DEF NobodyRuns
<1>11. ASSUME NEW l \in Launches, RemoveLock(l)
       PROVE  (OneRuns /\ LockBeforeFork)'
  BY <1>11 DEF RemoveLock
<1>12. ASSUME NEW l \in Launches, OpenLock(l)
       PROVE  (OneRuns /\ LockBeforeFork)'
  BY <1>12 DEF OpenLock
<1>13. ASSUME NEW l \in Launches, OpenLockFails(l)
       PROVE  (OneRuns /\ LockBeforeFork)'
  BY <1>13 DEF OpenLockFails
<1>14. ASSUME NEW l \in Launches, Fork(l)
       PROVE  (OneRuns /\ LockBeforeFork)'
  <2> SUFFICES ASSUME OneAfterAnother'
               PROVE  (OneRuns /\ LockBeforeFork)'
    BY DEF OneAfterAnother
  <2>1. OneAfterAnother
    BY <1>14 DEF Fork
  <2>2. ASSUME NEW k \in Launches \ {l}
        PROVE  launcher[k] \in Early /\ ~DaemonRuns(k)
    BY <1>14, <2>1, <2>2 DEF Fork
  <2>3. lockFile
    BY <1>14, <2>1 DEF Fork
  <2>4. launcher[l] = "fork" /\ lockFile' = lockFile
        /\ launcher' = [launcher EXCEPT ![l] = "pause"]
        /\ daemon' = [daemon EXCEPT ![l] = "signal"]
    BY <1>14 DEF Fork
  <2>5. QED
    BY <2>2, <2>3, <2>4
<1>15. ASSUME NEW l \in Launches, ForkFails(l)
       PROVE  (OneRuns /\ LockBeforeFork)'
  BY <1>15 DEF ForkFails
<1>16. ASSUME NEW l \in Launches, Alarm(l)
       PROVE  (OneRuns /\ LockBeforeFork)'
  BY <1>16 DEF Alarm
<1>17. ASSUME NEW l \in Launches, SignalParent(l)
       PROVE  (OneRuns /\ LockBeforeFork)'
  BY <1>17 DEF SignalParent
<1>18. ASSUME NEW l \in Launches, WritePid(l)
       PROVE  (OneRuns /\ LockBeforeFork)'
  BY <1>18 DEF WritePid
<1>19. ASSUME NEW l \in Launches, WritePidFails(l)
       PROVE  (OneRuns /\ LockBeforeFork)'
  BY <1>19 DEF WritePidFails
<1>20. ASSUME NEW l \in Launches, OpenSocket(l)
       PROVE  (OneRuns /\ LockBeforeFork)'
  BY <1>20 DEF OpenSocket
<1>21. ASSUME NEW l \in Launches, OpenSocketFails(l)
       PROVE  (OneRuns /\ LockBeforeFork)'
  BY <1>21 DEF OpenSocketFails
<1>22. ASSUME NEW l \in Launches, KillDaemon(l)
       PROVE  (OneRuns /\ LockBeforeFork)'
  BY <1>22 DEF KillDaemon
<1>23. ASSUME NEW l \in Launches, KillLauncher(l)
       PROVE  (OneRuns /\ LockBeforeFork)'
  BY <1>23 DEF KillLauncher
<1>24. QED
  BY <1>0, <1>1, <1>2, <1>3, <1>4, <1>5, <1>6, <1>7, <1>8, <1>9, <1>10, <1>11, <1>12,
     <1>13, <1>14, <1>15, <1>16, <1>17, <1>18, <1>19, <1>20, <1>21, <1>22, <1>23
     DEF LaunchNext, LauncherNext, DaemonNext, Kill

(* Another daemon would have to run to write the pid file anew. *)
LEMMA PidNext ==
  ASSUME LaunchTypeOK, DaemonsByFork, OneRuns, PidWritten, [LaunchNext]_launchVars
  PROVE  PidWritten'
<1> USE DEF Exit, Step, Goes, DaemonStep, files, LauncherRuns, DaemonRuns,
            LaunchTypeOK, DaemonsByFork, OneRuns, PidWritten,
            OneAfterAnother, Early
<1>0. CASE UNCHANGED launchVars
  BY <1>0 DEF launchVars
<1>1. ASSUME NEW l \in Launches, Start(l)
      PROVE  PidWritten'
  BY <1>1 DEF Start
<1>2. ASSUME NEW l \in Launches, Unlink(l)
      PROVE  PidWritten'
  BY <1>2 DEF Unlink
<1>3. ASSUME NEW l \in Launches, Load(l)
      PROVE  PidWritten'
  BY <1>3 DEF Load
<1>4. ASSUME NEW l \in Launches, LoadExits(l)
      PROVE  PidWritten'
  BY <1>4 DEF LoadExits
<1>5. ASSUME NEW l \in Launches, PrintAndExit(l)
      PROVE  PidWritten'
  BY <1>5 DEF PrintAndExit
<1>6. ASSUME NEW l \in Launches, AlreadyDaemon(l)
      PROVE  PidWritten'
  BY <1>6 DEF AlreadyDaemon
<1>7. ASSUME NEW l \in Launches, EnterServer(l)
      PROVE  PidWritten'
  BY <1>7 DEF EnterServer
<1>8. ASSUME NEW l \in Launches, StatLock(l)
      PROVE  PidWritten'
  BY <1>8 DEF StatLock
<1>9. ASSUME NEW l \in Launches, Refuse(l)
      PROVE  PidWritten'
  BY <1>9 DEF Refuse
<1>10. ASSUME NEW l \in Launches, NobodyRuns(l)
       PROVE  PidWritten'
  BY <1>10 DEF NobodyRuns
<1>11. ASSUME NEW l \in Launches, RemoveLock(l)
       PROVE  PidWritten'
  BY <1>11 DEF RemoveLock
<1>12. ASSUME NEW l \in Launches, OpenLock(l)
       PROVE  PidWritten'
  BY <1>12 DEF OpenLock
<1>13. ASSUME NEW l \in Launches, OpenLockFails(l)
       PROVE  PidWritten'
  BY <1>13 DEF OpenLockFails
<1>14. ASSUME NEW l \in Launches, Fork(l)
       PROVE  PidWritten'
  BY <1>14 DEF Fork
<1>15. ASSUME NEW l \in Launches, ForkFails(l)
       PROVE  PidWritten'
  BY <1>15 DEF ForkFails
<1>16. ASSUME NEW l \in Launches, Alarm(l)
       PROVE  PidWritten'
  BY <1>16 DEF Alarm
<1>17. ASSUME NEW l \in Launches, SignalParent(l)
       PROVE  PidWritten'
  BY <1>17 DEF SignalParent
<1>18. ASSUME NEW l \in Launches, WritePid(l)
       PROVE  PidWritten'
  BY <1>18 DEF WritePid
<1>19. ASSUME NEW l \in Launches, WritePidFails(l)
       PROVE  PidWritten'
  BY <1>19 DEF WritePidFails
<1>20. ASSUME NEW l \in Launches, OpenSocket(l)
       PROVE  PidWritten'
  BY <1>20 DEF OpenSocket
<1>21. ASSUME NEW l \in Launches, OpenSocketFails(l)
       PROVE  PidWritten'
  BY <1>21 DEF OpenSocketFails
<1>22. ASSUME NEW l \in Launches, KillDaemon(l)
       PROVE  PidWritten'
  BY <1>22 DEF KillDaemon
<1>23. ASSUME NEW l \in Launches, KillLauncher(l)
       PROVE  PidWritten'
  BY <1>23 DEF KillLauncher
<1>24. QED
  BY <1>0, <1>1, <1>2, <1>3, <1>4, <1>5, <1>6, <1>7, <1>8, <1>9, <1>10, <1>11, <1>12,
     <1>13, <1>14, <1>15, <1>16, <1>17, <1>18, <1>19, <1>20, <1>21, <1>22, <1>23
     DEF LaunchNext, LauncherNext, DaemonNext, Kill

(* Unlink touches the configured path only, and nobody else opens a socket  *)
(* while the daemon serves.                                                 *)
LEMMA ReachNext ==
  ASSUME LaunchTypeOK, OneRuns, OverrideStaysReachable, [LaunchNext]_launchVars
  PROVE  OverrideStaysReachable'
<1> USE DEF Exit, Step, Goes, DaemonStep, files, LauncherRuns, DaemonRuns,
            LaunchTypeOK, OneRuns, OverrideStaysReachable,
            OneAfterAnother, Early
<1>0. CASE UNCHANGED launchVars
  BY <1>0 DEF launchVars
<1>1. ASSUME NEW l \in Launches, Start(l)
      PROVE  OverrideStaysReachable'
  BY <1>1 DEF Start
<1>2. ASSUME NEW l \in Launches, Unlink(l)
      PROVE  OverrideStaysReachable'
  BY <1>2 DEF Unlink
<1>3. ASSUME NEW l \in Launches, Load(l)
      PROVE  OverrideStaysReachable'
  BY <1>3 DEF Load
<1>4. ASSUME NEW l \in Launches, LoadExits(l)
      PROVE  OverrideStaysReachable'
  BY <1>4 DEF LoadExits
<1>5. ASSUME NEW l \in Launches, PrintAndExit(l)
      PROVE  OverrideStaysReachable'
  BY <1>5 DEF PrintAndExit
<1>6. ASSUME NEW l \in Launches, AlreadyDaemon(l)
      PROVE  OverrideStaysReachable'
  BY <1>6 DEF AlreadyDaemon
<1>7. ASSUME NEW l \in Launches, EnterServer(l)
      PROVE  OverrideStaysReachable'
  BY <1>7 DEF EnterServer
<1>8. ASSUME NEW l \in Launches, StatLock(l)
      PROVE  OverrideStaysReachable'
  BY <1>8 DEF StatLock
<1>9. ASSUME NEW l \in Launches, Refuse(l)
      PROVE  OverrideStaysReachable'
  BY <1>9 DEF Refuse
<1>10. ASSUME NEW l \in Launches, NobodyRuns(l)
       PROVE  OverrideStaysReachable'
  BY <1>10 DEF NobodyRuns
<1>11. ASSUME NEW l \in Launches, RemoveLock(l)
       PROVE  OverrideStaysReachable'
  BY <1>11 DEF RemoveLock
<1>12. ASSUME NEW l \in Launches, OpenLock(l)
       PROVE  OverrideStaysReachable'
  BY <1>12 DEF OpenLock
<1>13. ASSUME NEW l \in Launches, OpenLockFails(l)
       PROVE  OverrideStaysReachable'
  BY <1>13 DEF OpenLockFails
<1>14. ASSUME NEW l \in Launches, Fork(l)
       PROVE  OverrideStaysReachable'
  BY <1>14 DEF Fork
<1>15. ASSUME NEW l \in Launches, ForkFails(l)
       PROVE  OverrideStaysReachable'
  BY <1>15 DEF ForkFails
<1>16. ASSUME NEW l \in Launches, Alarm(l)
       PROVE  OverrideStaysReachable'
  BY <1>16 DEF Alarm
<1>17. ASSUME NEW l \in Launches, SignalParent(l)
       PROVE  OverrideStaysReachable'
  BY <1>17 DEF SignalParent
<1>18. ASSUME NEW l \in Launches, WritePid(l)
       PROVE  OverrideStaysReachable'
  BY <1>18 DEF WritePid
<1>19. ASSUME NEW l \in Launches, WritePidFails(l)
       PROVE  OverrideStaysReachable'
  BY <1>19 DEF WritePidFails
<1>20. ASSUME NEW l \in Launches, OpenSocket(l)
       PROVE  OverrideStaysReachable'
  BY <1>20 DEF OpenSocket
<1>21. ASSUME NEW l \in Launches, OpenSocketFails(l)
       PROVE  OverrideStaysReachable'
  BY <1>21 DEF OpenSocketFails
<1>22. ASSUME NEW l \in Launches, KillDaemon(l)
       PROVE  OverrideStaysReachable'
  BY <1>22 DEF KillDaemon
<1>23. ASSUME NEW l \in Launches, KillLauncher(l)
       PROVE  OverrideStaysReachable'
  BY <1>23 DEF KillLauncher
<1>24. QED
  BY <1>0, <1>1, <1>2, <1>3, <1>4, <1>5, <1>6, <1>7, <1>8, <1>9, <1>10, <1>11, <1>12,
     <1>13, <1>14, <1>15, <1>16, <1>17, <1>18, <1>19, <1>20, <1>21, <1>22, <1>23
     DEF LaunchNext, LauncherNext, DaemonNext, Kill

(* The invariant holds at first, *)
LEMMA InvInit == LaunchInit => Inv
  BY DEF LaunchInit, Inv, LaunchTypeOK, LauncherPoints, DaemonPoints, Outcomes,
         ResultsFinal, DaemonsByFork, LockInv, NoFailure, AloneAtRemove,
         RemoverThere, LockHeld, InTurn, Settled, OneRuns, LockBeforeFork,
         PidWritten, OverrideStaysReachable, OneAfterAnother, LauncherRuns,
         DaemonRuns, Early

(* is kept by every step, *)
LEMMA InvNext == Inv /\ [LaunchNext]_launchVars => Inv'
  BY TypeNext, ResultsNext, ForkNext, LockNext, TurnNext, OneNext, PidNext, ReachNext DEF Inv

(* and so holds always. *)
THEOREM LaunchInvariant == LaunchSpec => []Inv
  BY InvInit, InvNext, PTL DEF LaunchSpec

(* Type correctness of launchers, daemons and files. *)
THEOREM LaunchTyped == LaunchSpec => []LaunchTypeOK
<1>1. Inv => LaunchTypeOK
  BY DEF Inv
<1>2. QED
  BY LaunchInvariant, <1>1, PTL

(* As long as no launch fails, however many race: the lock file of a daemon *)
(* stays.                                                                   *)
THEOREM LockKept == LaunchSpec => []LockWhileDaemon
<1>1. Inv => LockWhileDaemon
  BY DEF Inv, LockInv, LockHeld, NoFailure, LockWhileDaemon
<1>2. QED
  BY LaunchInvariant, <1>1, PTL

(* Any number of launches, one after another, with kills anywhere: one      *)
(* daemon.                                                                  *)
THEOREM OneDaemon == LaunchSpec => []AtMostOneDaemon
<1>1. Inv => AtMostOneDaemon
  BY DEF Inv, OneRuns, AtMostOneDaemon
<1>2. QED
  BY LaunchInvariant, <1>1, PTL

(* And the pid file names it. *)
THEOREM PidFileNames == LaunchSpec => []PidFileNamesDaemon
<1>1. Inv => PidFileNamesDaemon
  BY DEF Inv, PidWritten, PidFileNamesDaemon
<1>2. QED
  BY LaunchInvariant, <1>1, PTL

(* A daemon whose socket is not at the configured path stays reachable.     *)
THEOREM OverrideReachable == LaunchSpec => []OverrideStaysReachable
<1>1. Inv => OverrideStaysReachable
  BY DEF Inv
<1>2. QED
  BY LaunchInvariant, <1>1, PTL

(* Refuse is the only step that sets the result "refused". *)
LEMMA RefusedByRefuse ==
  ASSUME LaunchTypeOK, LaunchNext, NEW l \in Launches,
         outcome[l] # "refused", outcome'[l] = "refused"
  PROVE  Refuse(l)
<1> USE DEF Exit, Step, Goes, DaemonStep, files, LaunchTypeOK
<1>1. ASSUME NEW m \in Launches, Start(m)
      PROVE  Refuse(l)
  BY <1>1 DEF Start
<1>2. ASSUME NEW m \in Launches, Unlink(m)
      PROVE  Refuse(l)
  BY <1>2 DEF Unlink
<1>3. ASSUME NEW m \in Launches, Load(m)
      PROVE  Refuse(l)
  BY <1>3 DEF Load
<1>4. ASSUME NEW m \in Launches, LoadExits(m)
      PROVE  Refuse(l)
  BY <1>4 DEF LoadExits
<1>5. ASSUME NEW m \in Launches, PrintAndExit(m)
      PROVE  Refuse(l)
  BY <1>5 DEF PrintAndExit
<1>6. ASSUME NEW m \in Launches, AlreadyDaemon(m)
      PROVE  Refuse(l)
  BY <1>6 DEF AlreadyDaemon
<1>7. ASSUME NEW m \in Launches, EnterServer(m)
      PROVE  Refuse(l)
  BY <1>7 DEF EnterServer
<1>8. ASSUME NEW m \in Launches, StatLock(m)
      PROVE  Refuse(l)
  BY <1>8 DEF StatLock
<1>9. ASSUME NEW m \in Launches, Refuse(m)
      PROVE  Refuse(l)
  BY <1>9 DEF Refuse
<1>10. ASSUME NEW m \in Launches, NobodyRuns(m)
       PROVE  Refuse(l)
  BY <1>10 DEF NobodyRuns
<1>11. ASSUME NEW m \in Launches, RemoveLock(m)
       PROVE  Refuse(l)
  BY <1>11 DEF RemoveLock
<1>12. ASSUME NEW m \in Launches, OpenLock(m)
       PROVE  Refuse(l)
  BY <1>12 DEF OpenLock
<1>13. ASSUME NEW m \in Launches, OpenLockFails(m)
       PROVE  Refuse(l)
  BY <1>13 DEF OpenLockFails
<1>14. ASSUME NEW m \in Launches, Fork(m)
       PROVE  Refuse(l)
  BY <1>14 DEF Fork
<1>15. ASSUME NEW m \in Launches, ForkFails(m)
       PROVE  Refuse(l)
  BY <1>15 DEF ForkFails
<1>16. ASSUME NEW m \in Launches, Alarm(m)
       PROVE  Refuse(l)
  BY <1>16 DEF Alarm
<1>17. ASSUME NEW m \in Launches, SignalParent(m)
       PROVE  Refuse(l)
  BY <1>17 DEF SignalParent
<1>18. ASSUME NEW m \in Launches, WritePid(m)
       PROVE  Refuse(l)
  BY <1>18 DEF WritePid
<1>19. ASSUME NEW m \in Launches, WritePidFails(m)
       PROVE  Refuse(l)
  BY <1>19 DEF WritePidFails
<1>20. ASSUME NEW m \in Launches, OpenSocket(m)
       PROVE  Refuse(l)
  BY <1>20 DEF OpenSocket
<1>21. ASSUME NEW m \in Launches, OpenSocketFails(m)
       PROVE  Refuse(l)
  BY <1>21 DEF OpenSocketFails
<1>22. ASSUME NEW m \in Launches, KillDaemon(m)
       PROVE  Refuse(l)
  BY <1>22 DEF KillDaemon
<1>23. ASSUME NEW m \in Launches, KillLauncher(m)
       PROVE  Refuse(l)
  BY <1>23 DEF KillLauncher
<1>24. QED
  BY <1>1, <1>2, <1>3, <1>4, <1>5, <1>6, <1>7, <1>8, <1>9, <1>10, <1>11, <1>12, <1>13,
     <1>14, <1>15, <1>16, <1>17, <1>18, <1>19, <1>20, <1>21, <1>22, <1>23
     DEF LaunchNext, LauncherNext, DaemonNext, Kill

(* With launches one after another a launch is refused only while a daemon  *)
(* serves: what Refuse has found has settled, since the launch itself has   *)
(* not, and it still runs.                                                  *)
THEOREM RefusedByDaemon == LaunchSpec => RefusedOnlyByDaemon
<1>1. ASSUME Inv, LaunchNext, NEW l \in Launches,
             ~atOnce, outcome[l] # "refused", outcome'[l] = "refused"
      PROVE  \E k \in Launches \ {l} : daemon[k] = "serving"
  <2>1. Refuse(l)
    BY <1>1, RefusedByRefuse DEF Inv
  <2>2. PICK k \in Launches \ {l} : LauncherRuns(k) \/ DaemonRuns(k)
    BY <2>1 DEF Refuse, OtherProcess
  <2>3. ~Settled(l)
    BY <2>1 DEF Refuse, Exit, Step, Goes, Settled, LauncherRuns
  <2>4. Settled(k)
    BY <1>1, <2>3 DEF Inv, InTurn
  <2>5. QED
    BY <2>2, <2>4 DEF Settled, LauncherRuns, DaemonRuns
<1>2. Inv /\ [LaunchNext]_launchVars
        => [\A l \in Launches :
              ~atOnce /\ outcome[l] # "refused" /\ outcome'[l] = "refused"
                => \E k \in Launches \ {l} : daemon[k] = "serving"]_launchVars
  BY <1>1
<1>3. QED
  BY LaunchInvariant, <1>2, PTL DEF LaunchSpec, RefusedOnlyByDaemon
=============================================================================
