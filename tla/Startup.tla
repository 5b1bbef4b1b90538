------------------------------ MODULE Startup ------------------------------
(***************************************************************************)
(* Starting the daemon over a file system with owners and access rights:   *)
(* Config::Load with checkPath and getFileContents, the Server constructor *)
(* with its change of user, writePid, and the opening of the socket.       *)
(*                                                                         *)
(* Launches follow one another, by different users; a daemon that serves   *)
(* may still be there when the next launch begins, and whatever a launch   *)
(* created stays with the owner it got.  What is left open in Launch - when *)
(* a step succeeds and when it fails - follows here from the files.        *)
(*                                                                         *)
(* The configuration names a socket, a lock file and a pid file in one     *)
(* directory; -s and -p are not used.  Directories that are created and    *)
(* the probe files of checkPath are as an umask of 022 makes them; sticky  *)
(* directories and supplementary groups are left out.                      *)
(***************************************************************************)
EXTENDS Naturals, Sequences, FiniteSets

CONSTANTS
  MaxLaunches,   \* bound: launches, one after another
  Modes,         \* "start": plain; "init": parent is process 1; "test": -t
  Users,         \* user ids; every user is the only member of a group
  Root,          \* the super-user
  ServiceUser,   \* config.xml: user; getpwnam knows it if it is in Users
  MaxDigits,     \* bound: digits of a process id
  Layouts,       \* what the first launch may find: a file system, which is a
                 \* function from Nodes to entries, and a configuration
  Directories,   \* what an administrator may turn the directory of the
                 \* socket into
  MaxIncidents   \* bound: kills, and changes by the administrator

Launches == 1 .. MaxLaunches
NoLaunch == 0
Nul == MaxLaunches + 1     \* the byte that ends the text in the pid file

(* Mode bits that occur, and what they grant to whom. *)
Rights == {"r", "w", "x"}
Bits == [m0 |-> [user |-> {}, group |-> {}, other |-> {}],
         m640 |-> [user |-> {"r", "w"}, group |-> {"r"}, other |-> {}],
         m644 |-> [user |-> {"r", "w"}, group |-> {"r"}, other |-> {"r"}],
         m744 |-> [user |-> Rights, group |-> {"r"}, other |-> {"r"}],
         m755 |-> [user |-> Rights, group |-> {"r", "x"}, other |-> {"r", "x"}],
         m777 |-> [user |-> Rights, group |-> Rights, other |-> Rights]]

(* RunDirs lead to lock, pid file and socket, ConfDirs to the templates;    *)
(* the configuration file is in the first of the latter.                    *)
RunDirs == <<"run", "service">>
ConfDirs == <<"etc", "templates">>
Nodes == {"run", "service", "lock", "pid", "sock",
          "etc", "templates", "config", "out"}

Entry == [kind : {"absent", "file", "dir", "other"},
          owner : Users, group : Users,
          mode : DOMAIN Bits]

(* In a directory that does not exist there is nothing. *)
WellFormed(f) ==
  f["service"].kind = "absent"
    => \A p \in {"lock", "pid", "sock"} : f[p].kind = "absent"

ASSUME StartupAssumption ==
  /\ MaxLaunches \in Nat \ {0} /\ MaxDigits \in Nat \ {0}
  /\ Modes \subseteq {"start", "init", "test"}
  /\ Root \in Users
  /\ Layouts \subseteq [files : [Nodes -> Entry], sections : BOOLEAN]
  /\ \A y \in Layouts : WellFormed(y.files)
  /\ Directories \subseteq {e \in Entry : e.kind = "dir"}
  /\ MaxIncidents \in Nat

VARIABLES
  mode,        \* the mode of each launch
  user,        \* who started each launch
  identity,    \* user and group id of its process
  launcher,    \* where the process that was started is, as in Launch
  step,        \* and how far it is in Config::Load
  daemon,      \* where the process that will serve is
  outcome,     \* how the launcher ended
  template,    \* what Load made of the template
  digits,      \* the length of the daemon's process id
  fs,          \* the file system
  sections,    \* the configuration has a section "templates"
  pidText,     \* what is in the pid file
  bound,       \* the launch whose socket is at the socket path
  killed,      \* history: the launches of which a process was killed
  changed      \* history: the administrator has intervened

who == <<mode, user, identity>>
world == <<fs, pidText, bound>>
startupVars == <<who, launcher, step, daemon, outcome, template, digits,
                 world, sections, killed, changed>>

LoadSteps == {"config", "socket", "unlink", "lock", "pid", "templates"}

DaemonRuns(l) == daemon[l] \notin {"none", "gone"}
LauncherRuns(l) == launcher[l] \notin {"idle", "gone"}
Settled(l) == launcher[l] = "gone" /\ daemon[l] \in {"none", "serving", "gone"}

-----------------------------------------------------------------------------
(* What the kernel grants: the owner's bits, the group's or the others', and *)
(* everything to the super-user.                                            *)
Class(id, entry) == IF entry.owner = id.uid THEN "user"
                    ELSE IF entry.group = id.gid THEN "group"
                    ELSE "other"

Grants(id, entry, right) ==
  id.uid = Root \/ right \in Bits[entry.mode][Class(id, entry)]

Reaches(id, f, dirs, i) ==
  \A j \in 1 .. i - 1 : f[dirs[j]].kind = "dir" /\ Grants(id, f[dirs[j]], "x")

Last(dirs) == dirs[Len(dirs)]

(* A file can be created in, or removed from, the last of the directories. *)
WritesIn(id, f, dirs) ==
  Reaches(id, f, dirs, Len(dirs) + 1) /\ Grants(id, f[Last(dirs)], "w")

ReadsIn(id, f, dirs, file) ==
  /\ Reaches(id, f, dirs, Len(dirs) + 1)
  /\ f[file].kind = "file" /\ Grants(id, f[file], "r")

(* Mutants are named for the slip they contain: the bug the run has to find *)
(* when the definition that follows is exchanged for them.                  *)
MutantOpensNewOnly(id, f, dirs, file) ==
  f[file].kind = "absent" /\ WritesIn(id, f, dirs)

(* open with O_RDWR|O_CREAT *)
OpensIn(id, f, dirs, file) ==
  IF f[file].kind = "absent" THEN WritesIn(id, f, dirs)
  ELSE /\ Reaches(id, f, dirs, Len(dirs) + 1)
       /\ f[file].kind = "file"
       /\ Grants(id, f[file], "r") /\ Grants(id, f[file], "w")

Absent == [kind |-> "absent", owner |-> Root, group |-> Root, mode |-> "m0"]

Made(id, type, m) ==
  [kind |-> type, owner |-> id.uid, group |-> id.gid, mode |-> m]

(* What is there after an open with O_RDWR|O_CREAT that has succeeded. *)
Opened(id, f, file) ==
  IF f[file].kind = "absent" THEN [f EXCEPT ![file] = Made(id, "file", "m640")]
                             ELSE f

-----------------------------------------------------------------------------
(* Config::checkPath.  Of a component that exists it is enough that ONE of  *)
(* two bits is set; the super-user gets no exception from that.  Components *)
(* that are missing are created, if that is asked for, and with them all    *)
(* that follow; the file itself is not looked at.                           *)
PassesTest(id, entry) ==
  CASE entry.kind = "file" -> Bits[entry.mode][Class(id, entry)] \cap {"r", "w"} # {}
    [] entry.kind = "dir"  -> Bits[entry.mode][Class(id, entry)] \cap {"r", "x"} # {}
    [] OTHER -> FALSE

Missing(f, dirs) == {i \in 1 .. Len(dirs) : f[dirs[i]].kind = "absent"}

Creates(id, f, dirs, i) ==
  IF i = 1 THEN id.uid = Root
  ELSE Reaches(id, f, dirs, i) /\ Grants(id, f[dirs[i - 1]], "w")

Walks(id, f, dirs, checkWrite) ==
  \A i \in 1 .. Len(dirs) :
    \/ \E j \in Missing(f, dirs) : j < i
    \/ /\ i \in Missing(f, dirs)
       /\ checkWrite /\ Creates(id, f, dirs, i)
    \/ /\ i \notin Missing(f, dirs)
       /\ Reaches(id, f, dirs, i) /\ PassesTest(id, f[dirs[i]])

Walked(id, f, dirs) ==
  [p \in DOMAIN f |->
     IF \E i \in Missing(f, dirs) : dirs[i] = p THEN Made(id, "dir", "m755")
                                                ELSE f[p]]

(* With checkWrite the file path + "test" is created and removed. *)
checkPath(id, f, dirs, checkWrite) ==
  /\ Walks(id, f, dirs, checkWrite)
  /\ checkWrite => WritesIn(id, Walked(id, f, dirs), dirs)

-----------------------------------------------------------------------------
StartupInit ==
  /\ mode \in [Launches -> Modes]
  /\ user = [l \in Launches |-> Root]
  /\ identity = [l \in Launches |-> [uid |-> Root, gid |-> Root]]
  /\ launcher = [l \in Launches |-> "idle"]
  /\ step = "config"
  /\ daemon = [l \in Launches |-> "none"]
  /\ outcome = [l \in Launches |-> "none"]
  /\ template = [l \in Launches |-> "none"]
  /\ digits = [l \in Launches |-> 1]
  /\ \E y \in Layouts : fs = y.files /\ sections = y.sections
  /\ pidText = <<>>
  /\ bound = NoLaunch
  /\ killed = {} /\ changed = FALSE

Goes(l, from, to) ==
  /\ launcher[l] = from
  /\ launcher' = [launcher EXCEPT ![l] = to]

DaemonGoes(l, from, to) ==
  /\ daemon[l] = from
  /\ daemon' = [daemon EXCEPT ![l] = to]

Exit(l, from, result) ==
  /\ Goes(l, from, "gone")
  /\ outcome' = [outcome EXCEPT ![l] = result]

Quiet == UNCHANGED <<mode, sections, killed, changed>>

(* A step of Load, and what it writes to the file system. *)
Loads(l, from, to) ==
  /\ launcher[l] \in {"load", "check"} /\ step = from
  /\ step' = to
  /\ launcher' = [launcher EXCEPT ![l] =
                    CASE to \in {"socket", "unlink"} -> "load"
                      [] to \in {"lock", "pid", "templates"} -> "check"
                      [] OTHER -> "options"]
  /\ UNCHANGED <<user, identity, daemon, outcome, digits, pidText>> /\ Quiet

Start(l) ==
  /\ \A k \in 1 .. l - 1 : Settled(k)
  /\ Goes(l, "idle", "load")
  /\ step' = "config"
  /\ \E u \in Users :
       /\ user' = [user EXCEPT ![l] = u]
       /\ identity' = [identity EXCEPT ![l] = [uid |-> u, gid |-> u]]
  /\ UNCHANGED <<daemon, outcome, template, digits, world>> /\ Quiet

ReadsConfig(l) == ReadsIn(identity[l], fs, <<Head(ConfDirs)>>, "config")

LoadConfig(l) ==
  /\ Loads(l, "config", "socket")
  /\ ReadsConfig(l)
  /\ UNCHANGED <<template, fs, bound>>

(* checkPath for socket, lock file or pid file. *)
Check(l, from, to) ==
  /\ Loads(l, from, to)
  /\ checkPath(identity[l], fs, RunDirs, TRUE)
  /\ fs' = Walked(identity[l], fs, RunDirs)
  /\ UNCHANGED <<template, bound>>

CheckSocket(l) == Check(l, "socket", "unlink")
CheckLock(l) == Check(l, "lock", "pid")
CheckPid(l) == Check(l, "pid", "templates")

(* unlink fails, without a word, on a directory. *)
UnlinkSocket(l) ==
  /\ Loads(l, "unlink", "lock")
  /\ IF WritesIn(identity[l], fs, RunDirs) /\ fs["sock"].kind # "dir"
     THEN fs' = [fs EXCEPT !["sock"] = Absent] /\ bound' = NoLaunch
     ELSE UNCHANGED <<fs, bound>>
  /\ UNCHANGED template

(* getFileContents: a file that cannot be opened is an empty template; so   *)
(* is one that the configuration says nothing about.                        *)
LoadTemplates(l) ==
  /\ Loads(l, "templates", "done")
  /\ sections => checkPath(identity[l], fs, ConfDirs, FALSE)
  /\ template' = [template EXCEPT ![l] =
                    IF sections /\ ReadsIn(identity[l], fs, ConfDirs, "out")
                    THEN "good" ELSE "empty"]
  /\ UNCHANGED <<fs, bound>>

LoadFails(l) ==
  /\ \E p \in {"load", "check"} : Exit(l, p, "failure")
  /\ CASE step = "config" -> ~ReadsConfig(l)
       [] step \in {"socket", "lock", "pid"} ->
            ~checkPath(identity[l], fs, RunDirs, TRUE)
       [] step = "templates" ->
            sections /\ ~checkPath(identity[l], fs, ConfDirs, FALSE)
       [] OTHER -> FALSE
  /\ UNCHANGED <<user, identity, step, daemon, template, digits, world>>
  /\ Quiet

-----------------------------------------------------------------------------
LauncherOnly == UNCHANGED <<user, identity, step, template, digits, pidText,
                            bound>> /\ Quiet

PrintAndExit(l) ==
  /\ mode[l] = "test"
  /\ Exit(l, "options", "success")
  /\ UNCHANGED <<daemon, fs>> /\ LauncherOnly

(* The process that was started is the daemon, and keeps its user. *)
AlreadyDaemon(l) ==
  /\ mode[l] = "init"
  /\ Goes(l, "options", "gone")
  /\ daemon' = [daemon EXCEPT ![l] = "bind"]
  /\ UNCHANGED <<outcome, fs>> /\ LauncherOnly

EnterServer(l) ==
  /\ mode[l] = "start"
  /\ Goes(l, "options", "stat")
  /\ UNCHANGED <<daemon, outcome, fs>> /\ LauncherOnly

SeesLock(l) ==
  /\ Reaches(identity[l], fs, RunDirs, Len(RunDirs) + 1)
  /\ fs["lock"].kind # "absent"

StatLock(l) ==
  /\ Goes(l, "stat", IF SeesLock(l) THEN "scan" ELSE "open")
  /\ UNCHANGED <<daemon, outcome, fs>> /\ LauncherOnly

OtherProcess(l) == \E k \in Launches \ {l} : LauncherRuns(k) \/ DaemonRuns(k)

Refuse(l) ==
  /\ Exit(l, "scan", "refused")
  /\ OtherProcess(l)
  /\ UNCHANGED <<daemon, fs>> /\ LauncherOnly

NobodyRuns(l) ==
  /\ Goes(l, "scan", "remove")
  /\ ~OtherProcess(l)
  /\ UNCHANGED <<daemon, outcome, fs>> /\ LauncherOnly

RemoveLock(l) ==
  /\ Goes(l, "remove", "open")
  /\ fs' = IF WritesIn(identity[l], fs, RunDirs)
           THEN [fs EXCEPT !["lock"] = Absent] ELSE fs
  /\ UNCHANGED <<daemon, outcome>> /\ LauncherOnly

(* Still as the user who started the program. *)
OpenLock(l) ==
  /\ Goes(l, "open", "fork")
  /\ OpensIn(identity[l], fs, RunDirs, "lock")
  /\ fs' = Opened(identity[l], fs, "lock")
  /\ UNCHANGED <<daemon, outcome>> /\ LauncherOnly

OpenLockFails(l) ==
  /\ Exit(l, "open", "failure")
  /\ ~OpensIn(identity[l], fs, RunDirs, "lock")
  /\ UNCHANGED <<daemon, fs>> /\ LauncherOnly

(* setuid, but not setgid: the super-user's group stays. *)
Switched(id) ==
  IF id.uid = Root /\ ServiceUser \in Users THEN [id EXCEPT !.uid = ServiceUser]
                                            ELSE id

(* Change of user, fork, session and standard streams. *)
Fork(l) ==
  /\ Goes(l, "fork", "pause")
  /\ daemon' = [daemon EXCEPT ![l] = "signal"]
  /\ identity' = [identity EXCEPT ![l] = Switched(@)]
  /\ \E n \in 1 .. MaxDigits : digits' = [digits EXCEPT ![l] = n]
  /\ UNCHANGED <<user, step, outcome, template, world>> /\ Quiet

ForkFails(l) ==
  /\ Exit(l, "fork", "failure")
  /\ UNCHANGED <<daemon, fs>> /\ LauncherOnly

MutantWaitsForChild(l) ==
  /\ daemon[l] = "gone"
  /\ Exit(l, "pause", "failure")
  /\ UNCHANGED <<daemon, fs>> /\ LauncherOnly

(* alarm(2) *)
Alarm(l) ==
  /\ Exit(l, "pause", "failure")
  /\ UNCHANGED <<daemon, fs>> /\ LauncherOnly

-----------------------------------------------------------------------------
DaemonOnly == UNCHANGED <<user, identity, step, template, digits>> /\ Quiet

SignalParent(l) ==
  /\ DaemonGoes(l, "signal", "pid")
  /\ IF launcher[l] = "pause" THEN Exit(l, "pause", "success")
                              ELSE UNCHANGED <<launcher, outcome>>
  /\ UNCHANGED world /\ DaemonOnly

(* The digits of the process id and a zero byte. *)
MutantPidNotSet(l) == Append([i \in 1 .. digits[l] |-> NoLaunch], Nul)

PidText(l) == Append([i \in 1 .. digits[l] |-> l], Nul)

MutantAppends(old, new) == old \o new

(* write starts at the beginning, over an old text that is not cut off: the *)
(* file is opened without O_TRUNC.                                          *)
Overwritten(old, new) == new \o SubSeq(old, Len(new) + 1, Len(old))

WritePid(l) ==
  /\ DaemonGoes(l, "pid", "bind")
  /\ OpensIn(identity[l], fs, RunDirs, "pid")
  /\ fs' = Opened(identity[l], fs, "pid")
  /\ pidText' = Overwritten(pidText, PidText(l))
  /\ UNCHANGED <<launcher, outcome, bound>> /\ DaemonOnly

WritePidFails(l) ==
  /\ DaemonGoes(l, "pid", "gone")
  /\ ~OpensIn(identity[l], fs, RunDirs, "pid")
  /\ UNCHANGED <<launcher, outcome, world>> /\ DaemonOnly

(* FCGX_OpenSocket puts its socket in place of a file that is there. *)
Binds(l) == WritesIn(identity[l], fs, RunDirs) /\ fs["sock"].kind # "dir"

OpenSocket(l) ==
  /\ DaemonGoes(l, "bind", "serving")
  /\ Binds(l)
  /\ fs' = [fs EXCEPT !["sock"] = Made(identity[l], "other", "m777")]
  /\ bound' = l
  /\ UNCHANGED <<launcher, outcome, pidText>> /\ DaemonOnly

MutantServesUnbound(l) ==
  /\ DaemonGoes(l, "bind", "serving")
  /\ ~Binds(l)
  /\ UNCHANGED <<launcher, outcome, world>> /\ DaemonOnly

OpenSocketFails(l) ==
  /\ DaemonGoes(l, "bind", "gone")
  /\ ~Binds(l)
  /\ UNCHANGED <<launcher, outcome, world>> /\ DaemonOnly

MoreIncidents ==
  Cardinality(killed) + (IF changed THEN 1 ELSE 0) < MaxIncidents

KillDaemon(l) ==
  /\ DaemonRuns(l) /\ MoreIncidents
  /\ daemon' = [daemon EXCEPT ![l] = "gone"]
  /\ IF launcher[l] = "pause" THEN Exit(l, "pause", "failure")
                              ELSE UNCHANGED <<launcher, outcome>>
  /\ killed' = killed \cup {l}
  /\ UNCHANGED <<who, step, template, digits, world, sections, changed>>

KillLauncher(l) ==
  /\ LauncherRuns(l) /\ MoreIncidents
  /\ Exit(l, launcher[l], "failure")
  /\ killed' = killed \cup {l}
  /\ UNCHANGED <<who, step, daemon, template, digits, world, sections, changed>>

(* The directory of the socket gets another owner or other rights, once, at *)
(* any time: what checkPath has found is then no longer so.                 *)
Administer ==
  /\ MoreIncidents /\ ~changed /\ changed' = TRUE
  /\ fs["service"].kind = "dir"
  /\ \E d \in Directories : fs' = [fs EXCEPT !["service"] = d]
  /\ UNCHANGED <<who, launcher, step, daemon, outcome, template, digits,
                 sections, pidText, bound, killed>>

-----------------------------------------------------------------------------
LoadNext(l) ==
  \/ LoadConfig(l) \/ CheckSocket(l) \/ UnlinkSocket(l)
  \/ CheckLock(l) \/ CheckPid(l) \/ LoadTemplates(l) \/ LoadFails(l)

LauncherNext(l) ==
  \/ LoadNext(l)
  \/ PrintAndExit(l) \/ AlreadyDaemon(l) \/ EnterServer(l)
  \/ StatLock(l) \/ Refuse(l) \/ NobodyRuns(l) \/ RemoveLock(l)
  \/ OpenLock(l) \/ OpenLockFails(l)
  \/ Fork(l) \/ ForkFails(l) \/ Alarm(l)

DaemonFiles(l) ==
  \/ WritePid(l) \/ WritePidFails(l) \/ OpenSocket(l) \/ OpenSocketFails(l)

StartupNext ==
  \/ \E l \in Launches :
       \/ Start(l) \/ LauncherNext(l) \/ SignalParent(l) \/ DaemonFiles(l)
       \/ KillDaemon(l) \/ KillLauncher(l)
  \/ Administer

StartupSpec == StartupInit /\ [][StartupNext]_startupVars

(* The launcher - there is one at a time - runs on and its alarm goes off.  *)
(* Of the daemon nothing is assumed until it has sent its signal, which is  *)
(* what the alarm is for, and then that its calls on files return.          *)
FairStartupSpec ==
  /\ StartupSpec
  /\ WF_startupVars(\E l \in Launches : LauncherNext(l))
  /\ WF_startupVars(\E l \in Launches : DaemonFiles(l))

-----------------------------------------------------------------------------
(* Type invariant; the file system stays well-formed. *)
StartupTypeOK ==
  /\ mode \in [Launches -> Modes]
  /\ user \in [Launches -> Users]
  /\ identity \in [Launches -> [uid : Users, gid : Users]]
  /\ launcher \in [Launches -> {"idle", "load", "check", "options", "stat",
                      "scan", "remove", "open", "fork", "pause", "gone"}]
  /\ step \in LoadSteps \cup {"done"}
  /\ daemon \in [Launches -> {"none", "signal", "pid", "bind", "serving", "gone"}]
  /\ outcome \in [Launches -> {"none", "success", "failure", "refused"}]
  /\ template \in [Launches -> {"none", "good", "empty"}]
  /\ digits \in [Launches -> 1 .. MaxDigits]
  /\ fs \in [Nodes -> Entry]
  /\ sections \in BOOLEAN
  /\ pidText \in Seq(1 .. Nul)
  /\ bound \in Launches \cup {NoLaunch}
  /\ killed \subseteq Launches
  /\ changed \in BOOLEAN
  /\ WellFormed(fs)

(* Launch, with what it calls files read off the file system. *)
L == INSTANCE Launch WITH
       Paths <- {"sock"}, ConfigPath <- "sock", None <- NoLaunch,
       kind <- [l \in Launches |-> [mode |-> mode[l], path |-> "sock"]],
       lockFile <- fs["lock"].kind # "absent",
       pidFile <- IF pidText = <<>> THEN NoLaunch ELSE Head(pidText),
       socketAt <- [p \in {"sock"} |-> bound],
       atOnce <- FALSE

(* Every step on the files is one that Launch allows, so what is checked of *)
(* Launch holds whatever owners and rights the files have.                  *)
ImplementsLaunch == L!LaunchSpec

(* Server.cpp:87-92: whoever starts the program gets an exit status, even   *)
(* from a daemon that never answers.                                        *)
LauncherReturns ==
  \A l \in Launches : launcher[l] = "load" ~> launcher[l] = "gone"

(* The service's account can work in the directory of the socket: not so    *)
(* after the super-user's launch has created that directory, for itself.    *)
Prepared(l) ==
  \/ user[l] # Root
  \/ WritesIn(Switched([uid |-> Root, gid |-> Root]), fs, RunDirs)

(* What checkPath does not look at: an older pid file of somebody else, which *)
(* no step ever removes, and a directory at the path of the socket, which    *)
(* unlink leaves there.                                                      *)
InTheWay(l) ==
  \/ fs["pid"].kind # "absent" /\ fs["pid"].owner # identity[l].uid
  \/ fs["sock"].kind = "dir"

(* Server.cpp:131 and 151-152: exit status 0 promises a daemon that serves, *)
(* although it is sent before the pid file and the socket are there.  What  *)
(* checkPath has found carries the promise, unless the directory is not     *)
(* the service account's or changes, or something it has not looked at is   *)
(* in the way.                                                              *)
SuccessLeadsToService ==
  \A l \in Launches :
    mode[l] = "start" /\ outcome[l] = "success" /\ Prepared(l) /\ ~InTheWay(l)
      ~> daemon[l] = "serving" \/ l \in killed \/ changed

(* Server.cpp:168-183: up to its first zero byte the pid file holds the id  *)
(* of the daemon that serves, and nothing else as long as no id was longer  *)
(* than a later one.                                                        *)
PidFileReadsBack ==
  \A l \in Launches :
    ( /\ mode[l] = "start" /\ daemon[l] = "serving"
      /\ \A k \in l + 1 .. MaxLaunches : launcher[k] = "idle" )
    => /\ SubSeq(pidText, 1, digits[l] + 1) = PidText(l)
       /\ (\A k \in 1 .. l : digits[k] <= digits[l]) => pidText = PidText(l)
=============================================================================
