------------------------------- MODULE Launch -------------------------------
(***************************************************************************)
(* Starting the daemon: main, the parts of Config::Load that touch the     *)
(* file system, the Server constructor (lock file, fork, pid file) and the *)
(* opening of the socket in the CgiService constructor, for several        *)
(* launches of the program on one machine, at once or one after another.   *)
(*                                                                         *)
(* A launch is one process until it forks; then the launcher waits for the *)
(* daemon's SIGUSR1 while the daemon goes on.  A launch whose parent is    *)
(* process 1 takes itself for a daemon and skips all of the Server         *)
(* constructor.  Any process may be killed at any point, and leaves its    *)
(* lock file, pid file and socket behind.                                  *)
(*                                                                         *)
(* getProcIdByName reads /proc in the order of the process ids.  A daemon  *)
(* has a greater id than its launcher, so a scan in that order meets every *)
(* launch that lives throughout, as one look at the process table does;    *)
(* the exception of ids that have wrapped around is left out.              *)
(***************************************************************************)
EXTENDS Naturals, FiniteSets

CONSTANTS
  Launches,     \* the runs of the program
  Modes,        \* "start": plain; "init": parent is process 1; "test": -t;
                \* "print": -p
  Paths,        \* socket paths, of which
  ConfigPath,   \* this one is in the configuration; -s may name another
  None          \* no launch

ASSUME LaunchAssumption ==
  /\ IsFiniteSet(Launches)
  /\ Modes \subseteq {"start", "init", "test", "print"}
  /\ ConfigPath \in Paths
  /\ None \notin Launches

VARIABLES
  kind,        \* the mode and the socket path of each launch
  launcher,    \* where the process that was started is
  daemon,      \* where the process that will serve is
  outcome,     \* how the launcher ended
  lockFile,    \* the lock file exists
  pidFile,     \* the launch whose daemon is named in the pid file
  socketAt,    \* the launch whose socket each path leads to
  atOnce       \* history: a launch has begun before all others had settled

files == <<lockFile, pidFile, socketAt>>
launchVars == <<kind, launcher, daemon, outcome, files, atOnce>>

LauncherPoints == {"idle", "load", "check", "options", "stat", "scan",
                   "remove", "open", "fork", "pause", "gone"}
DaemonPoints == {"none", "signal", "pid", "bind", "serving", "gone"}
Outcomes == {"none", "success", "failure", "refused"}

LauncherRuns(l) == launcher[l] \notin {"idle", "gone"}
DaemonRuns(l) == daemon[l] \notin {"none", "gone"}

(* Nothing of the launch is under way: it has not begun, or its launcher    *)
(* has ended and its daemon serves or has ended.                            *)
Settled(l) == ~LauncherRuns(l) /\ daemon[l] \in {"none", "serving", "gone"}

Goes(l, from, to) ==
  /\ launcher[l] = from
  /\ launcher' = [launcher EXCEPT ![l] = to]

Step(l, from, to) == Goes(l, from, to) /\ UNCHANGED atOnce

DaemonStep(l, from, to) ==
  /\ daemon[l] = from
  /\ daemon' = [daemon EXCEPT ![l] = to]
  /\ UNCHANGED atOnce

Exit(l, from, result) ==
  /\ Step(l, from, "gone")
  /\ outcome' = [outcome EXCEPT ![l] = result]

-----------------------------------------------------------------------------
LaunchInit ==
  /\ kind \in [Launches -> [mode : Modes, path : Paths]]
  /\ launcher = [l \in Launches |-> "idle"]
  /\ daemon = [l \in Launches |-> "none"]
  /\ outcome = [l \in Launches |-> "none"]
  /\ lockFile \in BOOLEAN
  /\ pidFile = None
  /\ socketAt = [p \in Paths |-> None]
  /\ atOnce = FALSE

Start(l) ==
  /\ Goes(l, "idle", "load")
  /\ atOnce' = (atOnce \/ \E k \in Launches : ~Settled(k))
  /\ UNCHANGED <<kind, daemon, outcome, files>>

(* Mutants are named for the slip they contain: the bug a run has to find   *)
(* when the definition that follows is exchanged for them.                  *)
MutantUnlinksOwnPath(l) ==
  /\ Step(l, "load", "check")
  /\ socketAt' = [socketAt EXCEPT ![kind[l].path] = None]
  /\ UNCHANGED <<kind, daemon, outcome, lockFile, pidFile>>

(* Config::Load removes whatever is at the configured socket path, and does *)
(* not look whether it could.                                               *)
Unlink(l) ==
  /\ Step(l, "load", "check")
  /\ \/ socketAt' = [socketAt EXCEPT ![ConfigPath] = None]
     \/ UNCHANGED socketAt
  /\ UNCHANGED <<kind, daemon, outcome, lockFile, pidFile>>

Load(l) ==
  /\ Step(l, "check", "options")
  /\ UNCHANGED <<kind, daemon, outcome, files>>

(* It exits on a file or a path it cannot use, before or after that. *)
LoadExits(l) ==
  /\ \E p \in {"load", "check"} : Exit(l, p, "failure")
  /\ UNCHANGED <<kind, daemon, files>>

(* main: -t and -p end here. *)
PrintAndExit(l) ==
  /\ kind[l].mode \in {"test", "print"}
  /\ Exit(l, "options", "success")
  /\ UNCHANGED <<kind, daemon, files>>

(* Server::Server with getppid() == 1: the process itself goes on to serve. *)
AlreadyDaemon(l) ==
  /\ kind[l].mode = "init"
  /\ Step(l, "options", "gone")
  /\ daemon' = [daemon EXCEPT ![l] = "bind"]
  /\ UNCHANGED <<kind, outcome, files>>

EnterServer(l) ==
  /\ kind[l].mode = "start"
  /\ Step(l, "options", "stat")
  /\ UNCHANGED <<kind, daemon, outcome, files>>

StatLock(l) ==
  /\ Step(l, "stat", IF lockFile THEN "scan" ELSE "open")
  /\ UNCHANGED <<kind, daemon, outcome, files>>

MutantFindsItself(l) ==
  \E k \in Launches : LauncherRuns(k) \/ DaemonRuns(k)

MutantFindsDaemonsOnly(l) ==
  \E k \in Launches \ {l} : DaemonRuns(k)

(* getProcIdByName: a process of this program other than the caller. *)
OtherProcess(l) ==
  \E k \in Launches \ {l} : LauncherRuns(k) \/ DaemonRuns(k)

Refuse(l) ==
  /\ OtherProcess(l)
  /\ Exit(l, "scan", "refused")
  /\ UNCHANGED <<kind, daemon, files>>

NobodyRuns(l) ==
  /\ ~OtherProcess(l)
  /\ Step(l, "scan", "remove")
  /\ UNCHANGED <<kind, daemon, outcome, files>>

(* The result of remove is not looked at either. *)
RemoveLock(l) ==
  /\ Step(l, "remove", "open")
  /\ lockFile' \in {FALSE, lockFile}
  /\ UNCHANGED <<kind, daemon, outcome, pidFile, socketAt>>

MutantOpensWithoutCreating(l) ==
  /\ Step(l, "open", "fork")
  /\ UNCHANGED <<kind, daemon, outcome, files>>

(* open with O_CREAT but without O_EXCL: an existing file will do. *)
OpenLock(l) ==
  /\ Step(l, "open", "fork")
  /\ lockFile' = TRUE
  /\ UNCHANGED <<kind, daemon, outcome, pidFile, socketAt>>

OpenLockFails(l) ==
  /\ Exit(l, "open", "failure")
  /\ UNCHANGED <<kind, daemon, files>>

MutantChildStaysInServer(l) ==
  /\ Step(l, "fork", "pause")
  /\ daemon' = [daemon EXCEPT ![l] = "fork"]
  /\ UNCHANGED <<kind, outcome, files>>

Fork(l) ==
  /\ Step(l, "fork", "pause")
  /\ daemon' = [daemon EXCEPT ![l] = "signal"]
  /\ UNCHANGED <<kind, outcome, files>>

ForkFails(l) ==
  /\ Exit(l, "fork", "failure")
  /\ UNCHANGED <<kind, daemon, files>>

(* alarm(2): SIGALRM ends the launcher, not the daemon. *)
Alarm(l) ==
  /\ Exit(l, "pause", "failure")
  /\ UNCHANGED <<kind, daemon, files>>

-----------------------------------------------------------------------------
(* The daemon: kill(parent, SIGUSR1) makes a launcher that still waits     *)
(* exit with success, and only then is the pid file written.               *)
SignalParent(l) ==
  /\ DaemonStep(l, "signal", "pid")
  /\ IF launcher[l] = "pause" THEN Exit(l, "pause", "success")
                              ELSE UNCHANGED <<launcher, outcome>>
  /\ UNCHANGED <<kind, files>>

MutantKeepsOldPidFile(l) ==
  /\ DaemonStep(l, "pid", "bind")
  /\ pidFile' = IF pidFile = None THEN l ELSE pidFile
  /\ UNCHANGED <<kind, launcher, outcome, lockFile, socketAt>>

WritePid(l) ==
  /\ DaemonStep(l, "pid", "bind")
  /\ pidFile' = l
  /\ UNCHANGED <<kind, launcher, outcome, lockFile, socketAt>>

WritePidFails(l) ==
  /\ DaemonStep(l, "pid", "gone")
  /\ UNCHANGED <<kind, launcher, outcome, files>>

(* FCGX_OpenSocket: may replace what is at the path, or fail. *)
OpenSocket(l) ==
  /\ DaemonStep(l, "bind", "serving")
  /\ socketAt' = [socketAt EXCEPT ![kind[l].path] = l]
  /\ UNCHANGED <<kind, launcher, outcome, lockFile, pidFile>>

OpenSocketFails(l) ==
  /\ DaemonStep(l, "bind", "gone")
  /\ UNCHANGED <<kind, launcher, outcome, files>>

(* Killed from outside.  The death of the daemon reaches a launcher that    *)
(* waits as SIGCHLD.                                                        *)
KillDaemon(l) ==
  /\ DaemonRuns(l)
  /\ DaemonStep(l, daemon[l], "gone")
  /\ IF launcher[l] = "pause" THEN Exit(l, "pause", "failure")
                              ELSE UNCHANGED <<launcher, outcome>>
  /\ UNCHANGED <<kind, files>>

KillLauncher(l) ==
  /\ LauncherRuns(l)
  /\ Exit(l, launcher[l], "failure")
  /\ UNCHANGED <<kind, daemon, files>>

-----------------------------------------------------------------------------
LauncherNext(l) ==
  \/ Unlink(l) \/ Load(l) \/ LoadExits(l)
  \/ PrintAndExit(l) \/ AlreadyDaemon(l) \/ EnterServer(l)
  \/ StatLock(l) \/ Refuse(l) \/ NobodyRuns(l) \/ RemoveLock(l)
  \/ OpenLock(l) \/ OpenLockFails(l)
  \/ Fork(l) \/ ForkFails(l)
  \/ Alarm(l)

DaemonNext(l) ==
  \/ SignalParent(l)
  \/ WritePid(l) \/ WritePidFails(l)
  \/ OpenSocket(l) \/ OpenSocketFails(l)

Kill(l) == KillDaemon(l) \/ KillLauncher(l)

LaunchNext ==
  \E l \in Launches : Start(l) \/ LauncherNext(l) \/ DaemonNext(l) \/ Kill(l)

LaunchSpec == LaunchInit /\ [][LaunchNext]_launchVars

-----------------------------------------------------------------------------
(* Type invariant of the processes and the files. *)
LaunchTypeOK ==
  /\ kind \in [Launches -> [mode : Modes, path : Paths]]
  /\ launcher \in [Launches -> LauncherPoints]
  /\ daemon \in [Launches -> DaemonPoints]
  /\ outcome \in [Launches -> Outcomes]
  /\ lockFile \in BOOLEAN
  /\ pidFile \in Launches \cup {None}
  /\ socketAt \in [Paths -> Launches \cup {None}]
  /\ atOnce \in BOOLEAN

(* Launches have followed one another, and none was started by process 1. *)
OneAfterAnother ==
  ~atOnce /\ \A l \in Launches : launcher[l] # "idle" => kind[l].mode # "init"

(* Message of the Server constructor, Server.cpp:43, "another process       *)
(* running? exit": there are never two daemons - as long as launches follow *)
(* one another, whatever dies and whatever lock file is left behind.        *)
AtMostOneDaemon ==
  OneAfterAnother
    => \A k, l \in Launches : DaemonRuns(k) /\ DaemonRuns(l) => k = l

(* Nobody removes the lock file of a live daemon, whatever launches race    *)
(* with it, as long as no launcher dies: one that does so between its       *)
(* remove and its open makes the look of the next one at the lock file      *)
(* stale, and a third launch can then lose its lock to that one.            *)
LockWhileDaemon ==
  (\A l \in Launches : outcome[l] # "failure")
    => \A l \in Launches :
         kind[l].mode = "start" /\ DaemonRuns(l) => lockFile

(* With launches one after another the daemon that serves is the one the    *)
(* pid file names, so that whoever stops the service by that file stops     *)
(* this daemon.                                                             *)
PidFileNamesDaemon ==
  OneAfterAnother => \A l \in Launches : daemon[l] = "serving" => pidFile = l

(* With launches one after another, a daemon whose socket path comes from   *)
(* -s stays reachable: neither a launch that is refused nor -t or -p takes  *)
(* its socket away.                                                         *)
OverrideStaysReachable ==
  OneAfterAnother =>
    \A l \in Launches :
      kind[l].path # ConfigPath /\ daemon[l] = "serving"
        => socketAt[kind[l].path] = l

(* A stale lock file never keeps the service down: with launches one after  *)
(* another a launch is refused only while a daemon serves.                  *)
RefusedOnlyByDaemon ==
  [][\A l \in Launches :
       ~atOnce /\ outcome[l] # "refused" /\ outcome'[l] = "refused"
         => \E k \in Launches \ {l} : daemon[k] = "serving"]_launchVars

(* Server.cpp:43 again: a launch that finds another process running leaves  *)
(* the service to it, and the daemon that serves can still be reached.      *)
RefusalLeavesService ==
  OneAfterAnother =>
    \A k, l \in Launches :
      outcome[k] = "refused" /\ daemon[l] = "serving"
        => socketAt[kind[l].path] = l
=============================================================================
