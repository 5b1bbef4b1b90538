--------------------------- MODULE Startup_proofs ---------------------------
(***************************************************************************)
(* Proofs about Startup, for any number of launches, of users and of file  *)
(* systems: the type invariant, what can be read back from the pid file,   *)
(* and that starting the daemon over files with owners and rights does     *)
(* what Launch allows, so that the theorems about Launch hold of it.       *)
(***************************************************************************)
EXTENDS Startup, TLAPS, SequenceTheorems

-----------------------------------------------------------------------------
(* The file system *)
LEMMA EntryMade ==
  ASSUME NEW id \in [uid : Users, gid : Users],
         NEW type \in {"file", "dir", "other"},
         NEW m \in {"m640", "m755", "m777"}
  PROVE  Made(id, type, m) \in Entry /\ Made(id, type, m).kind = type
<1>1. m \in DOMAIN Bits
  BY DEF Bits
<1>. QED
  BY <1>1 DEF Made, Entry

LEMMA EntryAbsent == Absent \in Entry /\ Absent.kind = "absent"
<1>1. "m0" \in DOMAIN Bits /\ Root \in Users
  BY StartupAssumption DEF Bits, StartupAssumption
<1>. QED
  BY <1>1 DEF Absent, Entry

LEMMA RunDirsAre ==
  /\ Len(RunDirs) = 2 /\ RunDirs[1] = "run" /\ RunDirs[2] = "service"
  /\ Last(RunDirs) = "service"
  BY DEF RunDirs, Last

(* Walking the path creates directories only, and leaves "service" there.   *)
LEMMA WalkedFiles ==
  ASSUME NEW f \in [Nodes -> Entry], NEW id \in [uid : Users, gid : Users]
  PROVE  /\ Walked(id, f, RunDirs) \in [Nodes -> Entry]
         /\ \A p \in Nodes \ {"run", "service"} : Walked(id, f, RunDirs)[p] = f[p]
         /\ Walked(id, f, RunDirs)["service"].kind # "absent"
<1> DEFINE d == Made(id, "dir", "m755")
           g == Walked(id, f, RunDirs)
<1>1. d \in Entry /\ d.kind = "dir"
  BY EntryMade
<1>2. g = [p \in Nodes |-> IF \E i \in Missing(f, RunDirs) : RunDirs[i] = p
                           THEN d ELSE f[p]]
  BY DEF Walked
<1>3. g \in [Nodes -> Entry]
  <2> HIDE DEF d, g
  <2>. QED  BY <1>1, <1>2
<1>4. \A p \in Nodes \ {"run", "service"} : g[p] = f[p]
  <2>1. \A i \in Missing(f, RunDirs) : RunDirs[i] \in {"run", "service"}
    BY RunDirsAre DEF Missing
  <2> HIDE DEF d, g
  <2>. QED  BY <1>2, <2>1
<1>5. g["service"].kind # "absent"
  <2>1. "service" \in Nodes
    BY DEF Nodes
  <2>2. CASE f["service"].kind = "absent"
    <3>1. 2 \in Missing(f, RunDirs)
      BY RunDirsAre, <2>2 DEF Missing
    <3>2. g["service"] = d
      <4> HIDE DEF d, g
      <4>. QED  BY <1>2, <2>1, <3>1, RunDirsAre
    <3>. QED
      BY <1>1, <3>2
  <2>3. CASE f["service"].kind # "absent"
    <3>1. g["service"] \in {d, f["service"]}
      <4> HIDE DEF d, g
      <4>. QED  BY <1>2, <2>1
    <3>. QED
      BY <1>1, <2>3, <3>1
  <2>. QED
    BY <2>2, <2>3
<1>. QED
  BY <1>3, <1>4, <1>5

(* Whoever gets at a file in the directory finds the directory there.       *)
LEMMA DirectoryThere ==
  ASSUME NEW f, NEW id,
         \/ WritesIn(id, f, RunDirs)
         \/ Reaches(id, f, RunDirs, Len(RunDirs) + 1)
         \/ \E file : OpensIn(id, f, RunDirs, file)
  PROVE  f["service"].kind = "dir"
<1>1. Reaches(id, f, RunDirs, 3)
  BY RunDirsAre DEF WritesIn, OpensIn
<1>2. 2 \in 1 .. 3 - 1
  OBVIOUS
<1>. QED
  BY <1>1, <1>2, RunDirsAre DEF Reaches

LEMMA OpenedFiles ==
  ASSUME NEW f \in [Nodes -> Entry], NEW id \in [uid : Users, gid : Users],
         NEW file \in Nodes
  PROVE  /\ Opened(id, f, file) \in [Nodes -> Entry]
         /\ \A p \in Nodes \ {file} : Opened(id, f, file)[p] = f[p]
         /\ Opened(id, f, file)[file].kind # "absent"
  BY EntryMade DEF Opened

-----------------------------------------------------------------------------
(* The pid file *)
LEMMA OverwrittenText ==
  ASSUME NEW S, NEW old \in Seq(S), NEW new \in Seq(S), new # <<>>
  PROVE  /\ Overwritten(old, new) \in Seq(S)
         /\ Overwritten(old, new) # <<>>
         /\ Head(Overwritten(old, new)) = Head(new)
         /\ Len(Overwritten(old, new)) \in {Len(old), Len(new)}
         /\ SubSeq(Overwritten(old, new), 1, Len(new)) = new
         /\ Len(old) =< Len(new) => Overwritten(old, new) = new
<1> DEFINE rest == SubSeq(old, Len(new) + 1, Len(old))
           text == Overwritten(old, new)
<1>1. Len(old) \in Nat /\ Len(new) \in Nat /\ Len(new) >= 1
  BY LenProperties, EmptySeq
<1>2. /\ rest \in Seq(S)
      /\ Len(rest) = IF Len(new) + 1 <= Len(old) THEN Len(old) - Len(new) ELSE 0
  <2>1. \A i \in Len(new) + 1 .. Len(old) : old[i] \in S
    BY <1>1, ElementOfSeq
  <2>2. /\ rest \in Seq(S)
        /\ Len(rest) = IF Len(new) + 1 <= Len(old)
                       THEN Len(old) - (Len(new) + 1) + 1 ELSE 0
    BY <1>1, <2>1, SubSeqProperties
  <2>. QED
    BY <1>1, <2>2
<1>3. /\ text \in Seq(S) /\ Len(text) = Len(new) + Len(rest)
      /\ \A i \in 1 .. Len(new) + Len(rest) :
           text[i] = IF i <= Len(new) THEN new[i] ELSE rest[i - Len(new)]
  BY <1>2, ConcatProperties DEF Overwritten
<1>4. Len(text) \in {Len(old), Len(new)} /\ Len(text) >= Len(new)
  BY <1>1, <1>2, <1>3
<1>5. \A i \in 1 .. Len(new) : text[i] = new[i]
  BY <1>1, <1>2, <1>3
<1>6. text # <<>> /\ Head(text) = Head(new)
  <2>1. text # <<>>
    BY <1>1, <1>4, EmptySeq
  <2>. QED
    BY <1>1, <1>3, <1>5, <2>1
<1>7. SubSeq(text, 1, Len(new)) = new
  <2> HIDE DEF text
  <2>1. \A i \in 1 .. Len(new) : text[i] \in S
    BY <1>1, <1>3, <1>4, ElementOfSeq
  <2>2. /\ SubSeq(text, 1, Len(new)) \in Seq(S)
        /\ Len(SubSeq(text, 1, Len(new))) = Len(new)
        /\ \A i \in 1 .. Len(new) : SubSeq(text, 1, Len(new))[i] = text[i]
    BY <1>1, <2>1, SubSeqProperties
  <2>. QED
    BY <1>5, <2>2, SeqEqual
<1>8. ASSUME Len(old) =< Len(new)  PROVE text = new
  <2>1. rest = <<>>
    BY <1>1, <1>8, SubSeqEmpty
  <2>. QED
    BY <2>1, ConcatEmptySeq DEF Overwritten
<1>. QED
  BY <1>3, <1>4, <1>6, <1>7, <1>8

LEMMA TextOfPid ==
  ASSUME NEW l \in Launches, digits[l] \in 1 .. MaxDigits
  PROVE  /\ PidText(l) \in Seq(1 .. Nul) /\ PidText(l) # <<>>
         /\ Len(PidText(l)) = digits[l] + 1 /\ Head(PidText(l)) = l
<1> DEFINE ds == [i \in 1 .. digits[l] |-> l]
<1>1. MaxLaunches \in Nat /\ MaxDigits \in Nat /\ l \in 1 .. MaxLaunches
  BY StartupAssumption DEF StartupAssumption, Launches
<1>2. l \in 1 .. Nul /\ Nul \in 1 .. Nul
  BY <1>1 DEF Nul
<1>3. ds \in Seq(1 .. Nul) /\ Len(ds) = digits[l]
  BY <1>1, <1>2
<1>4. /\ PidText(l) \in Seq(1 .. Nul) /\ PidText(l) # <<>>
      /\ Len(PidText(l)) = digits[l] + 1 /\ PidText(l)[1] = ds[1]
  <2> HIDE DEF ds
  <2>. QED  BY <1>1, <1>2, <1>3, AppendProperties DEF PidText, ds
<1>. QED
  BY <1>1, <1>4














-----------------------------------------------------------------------------
(* The order of the launches: one begins when all before it have settled,   *)
(* so that at most one is under way.                                        *)
Follows == \A k, l \in Launches : k < l /\ launcher[l] # "idle" => Settled(k)

(* The daemon comes out of the fork, or of a launch that ends in it.        *)
ForkedLast == \A l \in Launches :
                launcher[l] \notin {"pause", "gone"} => daemon[l] = "none"

(* How far the launch under way is in Load.                                 *)
StepKept ==
  \A l \in Launches :
    /\ launcher[l] = "load" => step \in {"config", "socket", "unlink"}
    /\ launcher[l] = "check" => step \in {"lock", "pid", "templates"}

(* The pid file is no longer than the text of some launch with a daemon.    *)
TextBounded ==
  Len(pidText) = 0 \/ \E k \in Launches : daemon[k] # "none"
                                          /\ Len(pidText) =< digits[k] + 1

Latest(l) ==
  /\ mode[l] = "start" /\ daemon[l] \in {"bind", "serving"}
  /\ \A k \in Launches : k > l => launcher[k] = "idle"

ReadsBack(l) ==
  /\ SubSeq(pidText, 1, digits[l] + 1) = PidText(l)
  /\ (\A k \in 1 .. l : digits[k] <= digits[l]) => pidText = PidText(l)

TextKept == \A l \in Launches : Latest(l) => ReadsBack(l)

Order == Follows /\ ForkedLast /\ StepKept
Inv == StartupTypeOK /\ Order /\ TextBounded /\ TextKept

Points == {"idle", "load", "check", "options", "stat", "scan", "remove",
           "open", "fork", "pause", "gone"}

LEMMA LaunchesAre == Launches \subseteq Nat /\ Launches = 1 .. MaxLaunches
  BY StartupAssumption DEF StartupAssumption, Launches

(* A launch under way is the only one.                                      *)
LEMMA OneUnderWay ==
  ASSUME Follows, ForkedLast, NEW l \in Launches, launcher[l] # "idle", ~Settled(l),
         NEW k \in Launches \ {l}
  PROVE  /\ k > l => launcher[k] = "idle"
         /\ Settled(k) \/ (launcher[k] = "idle" /\ daemon[k] = "none")
<1>1. CASE k < l
  BY <1>1, LaunchesAre DEF Follows
<1>2. CASE k > l
  BY <1>2, LaunchesAre DEF Follows, ForkedLast
<1>. QED
  BY <1>1, <1>2, LaunchesAre

(* A step of one launch that has begun, and stays settled if it was.        *)
LEMMA FollowsKept ==
  ASSUME Follows, NEW l \in Launches, launcher[l] # "idle",
         launcher \in [Launches -> Points],
         NEW p \in Points, launcher' \in {launcher, [launcher EXCEPT ![l] = p]},
         \A k \in Launches \ {l} : daemon'[k] = daemon[k],
         Settled(l) => Settled(l)'
  PROVE  Follows'
<1>1. \A k \in Launches \ {l} : launcher'[k] = launcher[k] /\ (Settled(k) => Settled(k)')
  BY DEF Settled
<1>. QED
  BY <1>1 DEF Follows

LEMMA OrderNext ==
  ASSUME StartupTypeOK, Order, [StartupNext]_startupVars
  PROVE  Order'
<1> DEFINE Kept == ForkedLast' /\ StepKept'
           Moved(l) == /\ launcher[l] # "idle"
                       /\ \E p \in Points :
                            launcher' \in {launcher, [launcher EXCEPT ![l] = p]}
                       /\ \A k \in Launches \ {l} : daemon'[k] = daemon[k]
                       /\ Settled(l) => Settled(l)'
<1> USE DEF StartupTypeOK, Order, ForkedLast, StepKept, Points, LoadSteps
<1>1. ASSUME NEW l \in Launches, LoadConfig(l)  PROVE Moved(l)
  BY <1>1 DEF LoadConfig, Loads, Quiet, Settled
<1>2. ASSUME NEW l \in Launches, CheckSocket(l)  PROVE Moved(l)
  BY <1>2 DEF CheckSocket, Loads, Quiet, Check, Settled
<1>3. ASSUME NEW l \in Launches, UnlinkSocket(l)  PROVE Moved(l)
  BY <1>3 DEF UnlinkSocket, Loads, Quiet, Settled
<1>4. ASSUME NEW l \in Launches, CheckLock(l)  PROVE Moved(l)
  BY <1>4 DEF CheckLock, Loads, Quiet, Check, Settled
<1>5. ASSUME NEW l \in Launches, CheckPid(l)  PROVE Moved(l)
  BY <1>5 DEF CheckPid, Loads, Quiet, Check, Settled
<1>6. ASSUME NEW l \in Launches, LoadTemplates(l)  PROVE Moved(l)
  BY <1>6 DEF LoadTemplates, Loads, Quiet, Settled
<1>7. ASSUME NEW l \in Launches, LoadFails(l)  PROVE Moved(l)
  BY <1>7 DEF LoadFails, Exit, Goes, Quiet, Settled
<1>8. ASSUME NEW l \in Launches, PrintAndExit(l)  PROVE Moved(l)
  BY <1>8 DEF PrintAndExit, Exit, Goes, LauncherOnly, Quiet, Settled
<1>9. ASSUME NEW l \in Launches, AlreadyDaemon(l)  PROVE Moved(l)
  BY <1>9 DEF AlreadyDaemon, Goes, LauncherOnly, Quiet, Settled
<1>10. ASSUME NEW l \in Launches, EnterServer(l)  PROVE Moved(l)
  BY <1>10 DEF EnterServer, Goes, LauncherOnly, Quiet, Settled
<1>11. ASSUME NEW l \in Launches, StatLock(l)  PROVE Moved(l)
  BY <1>11 DEF StatLock, Goes, LauncherOnly, Quiet, Settled
<1>12. ASSUME NEW l \in Launches, Refuse(l)  PROVE Moved(l)
  BY <1>12 DEF Refuse, Exit, Goes, LauncherOnly, Quiet, Settled
<1>13. ASSUME NEW l \in Launches, NobodyRuns(l)  PROVE Moved(l)
  BY <1>13 DEF NobodyRuns, Goes, LauncherOnly, Quiet, Settled
<1>14. ASSUME NEW l \in Launches, RemoveLock(l)  PROVE Moved(l)
  BY <1>14 DEF RemoveLock, Goes, LauncherOnly, Quiet, Settled
<1>15. ASSUME NEW l \in Launches, OpenLock(l)  PROVE Moved(l)
  BY <1>15 DEF OpenLock, Goes, LauncherOnly, Quiet, Settled
<1>16. ASSUME NEW l \in Launches, OpenLockFails(l)  PROVE Moved(l)
  BY <1>16 DEF OpenLockFails, Exit, Goes, LauncherOnly, Quiet, Settled
<1>17. ASSUME NEW l \in Launches, Fork(l)  PROVE Moved(l)
  BY <1>17 DEF Fork, Goes, Quiet, Settled
<1>18. ASSUME NEW l \in Launches, ForkFails(l)  PROVE Moved(l)
  BY <1>18 DEF ForkFails, Exit, Goes, LauncherOnly, Quiet, Settled
<1>19. ASSUME NEW l \in Launches, Alarm(l)  PROVE Moved(l)
  BY <1>19 DEF Alarm, Exit, Goes, LauncherOnly, Quiet, Settled
<1>20. ASSUME NEW l \in Launches, SignalParent(l)  PROVE Moved(l)
  BY <1>20 DEF SignalParent, DaemonGoes, Exit, Goes, DaemonOnly, Quiet, world, Settled
<1>21. ASSUME NEW l \in Launches, WritePid(l)  PROVE Moved(l)
  BY <1>21 DEF WritePid, DaemonGoes, DaemonOnly, Quiet, Settled
<1>22. ASSUME NEW l \in Launches, WritePidFails(l)  PROVE Moved(l)
  BY <1>22 DEF WritePidFails, DaemonGoes, DaemonOnly, Quiet, world, Settled
<1>23. ASSUME NEW l \in Launches, OpenSocket(l)  PROVE Moved(l)
  BY <1>23 DEF OpenSocket, DaemonGoes, DaemonOnly, Quiet, Settled
<1>24. ASSUME NEW l \in Launches, OpenSocketFails(l)  PROVE Moved(l)
  BY <1>24 DEF OpenSocketFails, DaemonGoes, DaemonOnly, Quiet, world, Settled
<1>25. ASSUME NEW l \in Launches, KillDaemon(l)  PROVE Moved(l)
  BY <1>25 DEF KillDaemon, DaemonRuns, Exit, Goes, who, world, Settled
<1>26. ASSUME NEW l \in Launches, KillLauncher(l)  PROVE Moved(l)
  BY <1>26 DEF KillLauncher, LauncherRuns, Exit, Goes, who, world, Settled
<1>27. ASSUME NEW l \in Launches, Moved(l)  PROVE Follows'
  BY <1>27, FollowsKept
<1>28. ASSUME NEW l \in Launches, launcher[l] \in {"load", "check"}
      PROVE  \A k \in Launches \ {l} : launcher[k] \notin {"load", "check"}
  BY <1>28, OneUnderWay DEF Settled
<1>29. ASSUME NEW l \in Launches, LoadConfig(l)  PROVE Kept
  BY <1>29, <1>28 DEF LoadConfig, Loads, Quiet
<1>30. ASSUME NEW l \in Launches, CheckSocket(l)  PROVE Kept
  BY <1>30, <1>28 DEF CheckSocket, Loads, Quiet, Check
<1>31. ASSUME NEW l \in Launches, UnlinkSocket(l)  PROVE Kept
  BY <1>31, <1>28 DEF UnlinkSocket, Loads, Quiet
<1>32. ASSUME NEW l \in Launches, CheckLock(l)  PROVE Kept
  BY <1>32, <1>28 DEF CheckLock, Loads, Quiet, Check
<1>33. ASSUME NEW l \in Launches, CheckPid(l)  PROVE Kept
  BY <1>33, <1>28 DEF CheckPid, Loads, Quiet, Check
<1>34. ASSUME NEW l \in Launches, LoadTemplates(l)  PROVE Kept
  BY <1>34, <1>28 DEF LoadTemplates, Loads, Quiet
<1>35. ASSUME NEW l \in Launches, LoadFails(l)  PROVE Kept
  BY <1>35 DEF LoadFails, Exit, Goes, Quiet
<1>36. ASSUME NEW l \in Launches, PrintAndExit(l)  PROVE Kept
  BY <1>36 DEF PrintAndExit, Exit, Goes, LauncherOnly, Quiet
<1>37. ASSUME NEW l \in Launches, AlreadyDaemon(l)  PROVE Kept
  BY <1>37 DEF AlreadyDaemon, Goes, LauncherOnly, Quiet
<1>38. ASSUME NEW l \in Launches, EnterServer(l)  PROVE Kept
  BY <1>38 DEF EnterServer, Goes, LauncherOnly, Quiet
<1>39. ASSUME NEW l \in Launches, StatLock(l)  PROVE Kept
  BY <1>39 DEF StatLock, Goes, LauncherOnly, Quiet
<1>40. ASSUME NEW l \in Launches, Refuse(l)  PROVE Kept
  BY <1>40 DEF Refuse, Exit, Goes, LauncherOnly, Quiet
<1>41. ASSUME NEW l \in Launches, NobodyRuns(l)  PROVE Kept
  BY <1>41 DEF NobodyRuns, Goes, LauncherOnly, Quiet
<1>42. ASSUME NEW l \in Launches, RemoveLock(l)  PROVE Kept
  BY <1>42 DEF RemoveLock, Goes, LauncherOnly, Quiet
<1>43. ASSUME NEW l \in Launches, OpenLock(l)  PROVE Kept
  BY <1>43 DEF OpenLock, Goes, LauncherOnly, Quiet
<1>44. ASSUME NEW l \in Launches, OpenLockFails(l)  PROVE Kept
  BY <1>44 DEF OpenLockFails, Exit, Goes, LauncherOnly, Quiet
<1>45. ASSUME NEW l \in Launches, Fork(l)  PROVE Kept
  BY <1>45 DEF Fork, Goes, Quiet
<1>46. ASSUME NEW l \in Launches, ForkFails(l)  PROVE Kept
  BY <1>46 DEF ForkFails, Exit, Goes, LauncherOnly, Quiet
<1>47. ASSUME NEW l \in Launches, Alarm(l)  PROVE Kept
  BY <1>47 DEF Alarm, Exit, Goes, LauncherOnly, Quiet
<1>48. ASSUME NEW l \in Launches, SignalParent(l)  PROVE Kept
  BY <1>48 DEF SignalParent, DaemonGoes, Exit, Goes, DaemonOnly, Quiet, world
<1>49. ASSUME NEW l \in Launches, WritePid(l)  PROVE Kept
  BY <1>49 DEF WritePid, DaemonGoes, DaemonOnly, Quiet
<1>50. ASSUME NEW l \in Launches, WritePidFails(l)  PROVE Kept
  BY <1>50 DEF WritePidFails, DaemonGoes, DaemonOnly, Quiet, world
<1>51. ASSUME NEW l \in Launches, OpenSocket(l)  PROVE Kept
  BY <1>51 DEF OpenSocket, DaemonGoes, DaemonOnly, Quiet
<1>52. ASSUME NEW l \in Launches, OpenSocketFails(l)  PROVE Kept
  BY <1>52 DEF OpenSocketFails, DaemonGoes, DaemonOnly, Quiet, world
<1>53. ASSUME NEW l \in Launches, KillDaemon(l)  PROVE Kept
  BY <1>53 DEF KillDaemon, DaemonRuns, Exit, Goes, who, world
<1>54. ASSUME NEW l \in Launches, KillLauncher(l)  PROVE Kept
  BY <1>54 DEF KillLauncher, LauncherRuns, Exit, Goes, who, world
<1>55. ASSUME NEW l \in Launches, Start(l)  PROVE Order'
  <2>1. /\ launcher[l] = "idle" /\ launcher' = [launcher EXCEPT ![l] = "load"]
        /\ step' = "config" /\ daemon' = daemon /\ daemon[l] = "none"
        /\ \A k \in 1 .. l - 1 : Settled(k)
    BY <1>55 DEF Start, Goes
  <2>2. \A k \in Launches : k < l => Settled(k)
    BY <2>1, LaunchesAre
  <2>3. ASSUME NEW k \in Launches \ {l}, launcher[k] # "idle"
        PROVE  launcher[k] \notin {"load", "check"} /\ ~(l < k)
    <3>1. ~(l < k)
      BY <2>1, <2>3 DEF Follows, Settled
    <3>2. Settled(k)
      BY <2>2, <3>1, LaunchesAre
    <3>. QED
      BY <3>1, <3>2 DEF Settled
  <2>4. Follows'
    BY <2>1, <2>2, <2>3 DEF Follows, Settled
  <2>5. ForkedLast' /\ StepKept'
    BY <2>1, <2>3
  <2>. QED
    BY <2>4, <2>5
<1>56. CASE Administer \/ UNCHANGED startupVars
  <2>1. launcher' = launcher /\ daemon' = daemon /\ step' = step
    BY <1>56 DEF Administer, startupVars
  <2>. QED
    BY <2>1 DEF Follows, Settled
<1>57. ASSUME NEW l \in Launches,
             LauncherNext(l) \/ SignalParent(l) \/ DaemonFiles(l)
               \/ KillDaemon(l) \/ KillLauncher(l)
      PROVE  Moved(l) /\ Kept
  <2> HIDE DEF Moved, Kept
  <2>. QED
    BY <1>57, <1>1, <1>2, <1>3, <1>4, <1>5, <1>6, <1>7, <1>8, <1>9, <1>10, <1>11,
       <1>12, <1>13, <1>14, <1>15, <1>16, <1>17, <1>18, <1>19, <1>20, <1>21, <1>22,
       <1>23, <1>24, <1>25, <1>26, <1>29, <1>30, <1>31, <1>32, <1>33, <1>34, <1>35,
       <1>36, <1>37, <1>38, <1>39, <1>40, <1>41, <1>42, <1>43, <1>44, <1>45, <1>46,
       <1>47, <1>48, <1>49, <1>50, <1>51, <1>52, <1>53, <1>54 DEF LauncherNext,
       LoadNext, DaemonFiles
<1>. QED
  <2> HIDE DEF Moved
  <2>. QED
    BY <1>27, <1>55, <1>56, <1>57 DEF StartupNext

-----------------------------------------------------------------------------
(* Types *)
FilesOK == fs \in [Nodes -> Entry] /\ WellFormed(fs)

LEMMA FileRemoved ==
  ASSUME NEW f \in [Nodes -> Entry], WellFormed(f), NEW p \in {"lock", "pid", "sock"}
  PROVE  /\ [f EXCEPT ![p] = Absent] \in [Nodes -> Entry]
         /\ WellFormed([f EXCEPT ![p] = Absent])
<1>1. p \in Nodes /\ \A q \in {"service", "lock", "pid", "sock"} : q \in Nodes
  BY DEF Nodes
<1>. QED
  BY <1>1, EntryAbsent DEF WellFormed

LEMMA FilesNext ==
  ASSUME StartupTypeOK, [StartupNext]_startupVars
  PROVE  FilesOK'
<1> USE DEF StartupTypeOK, FilesOK
<1>1. ASSUME NEW l \in Launches, CheckSocket(l) \/ CheckLock(l) \/ CheckPid(l)
      PROVE  FilesOK'
  <2>1. fs' = Walked(identity[l], fs, RunDirs)
    BY <1>1 DEF CheckSocket, CheckLock, CheckPid, Check
  <2>. QED
    BY <2>1, WalkedFiles DEF WellFormed
<1>2. ASSUME NEW l \in Launches, UnlinkSocket(l)  PROVE FilesOK'
  <2>1. fs' = fs \/ fs' = [fs EXCEPT !["sock"] = Absent]
    BY <1>2 DEF UnlinkSocket
  <2>2. /\ [fs EXCEPT !["sock"] = Absent] \in [Nodes -> Entry]
        /\ WellFormed([fs EXCEPT !["sock"] = Absent])
    BY FileRemoved
  <2>. QED
    BY ONLY <2>1, <2>2, StartupTypeOK DEF StartupTypeOK, FilesOK, WellFormed
<1>3. ASSUME NEW l \in Launches, RemoveLock(l)  PROVE FilesOK'
  <2>1. fs' = fs \/ fs' = [fs EXCEPT !["lock"] = Absent]
    BY <1>3 DEF RemoveLock
  <2>2. /\ [fs EXCEPT !["lock"] = Absent] \in [Nodes -> Entry]
        /\ WellFormed([fs EXCEPT !["lock"] = Absent])
    BY FileRemoved
  <2>. QED
    BY ONLY <2>1, <2>2, StartupTypeOK DEF StartupTypeOK, FilesOK, WellFormed
<1>4. ASSUME NEW l \in Launches, NEW p \in {"lock", "pid"},
             OpensIn(identity[l], fs, RunDirs, p), fs' = Opened(identity[l], fs, p)
      PROVE  FilesOK'
  <2>1. fs["service"].kind = "dir" /\ "service" \in Nodes \ {p} /\ p \in Nodes
    BY <1>4, DirectoryThere DEF Nodes
  <2>2. fs' \in [Nodes -> Entry] /\ fs'["service"] = fs["service"]
    BY ONLY <1>4, <2>1, OpenedFiles, fs \in [Nodes -> Entry], identity \in [Launches
       -> [uid : Users, gid : Users]]
  <2>. QED
    BY <2>1, <2>2 DEF WellFormed
<1>5. ASSUME NEW l \in Launches, OpenSocket(l)  PROVE FilesOK'
  <2>1. /\ fs["service"].kind = "dir"
        /\ fs' = [fs EXCEPT !["sock"] = Made(identity[l], "other", "m777")]
    BY <1>5, DirectoryThere DEF OpenSocket, Binds
  <2>. QED
    BY <2>1, EntryMade DEF WellFormed, Nodes
<1>6. ASSUME Administer  PROVE FilesOK'
  <2>1. PICK d \in Directories : fs' = [fs EXCEPT !["service"] = d]
    BY <1>6 DEF Administer
  <2>2. d \in Entry /\ d.kind = "dir"
    BY Zenon, StartupAssumption DEF StartupAssumption
  <2>3. fs' \in [Nodes -> Entry] /\ fs'["service"] = d
    BY <2>1, <2>2 DEF Nodes
  <2>. QED
    BY <2>2, <2>3 DEF WellFormed
<1>7. ASSUME fs' = fs  PROVE FilesOK'
  BY <1>7
<1>8. ASSUME NEW l \in Launches, StartupNext,
             \/ Start(l) \/ LoadConfig(l) \/ LoadTemplates(l) \/ LoadFails(l)
             \/ PrintAndExit(l) \/ AlreadyDaemon(l) \/ EnterServer(l) \/ StatLock(l)
             \/ Refuse(l) \/ NobodyRuns(l) \/ OpenLockFails(l) \/ Fork(l) \/ ForkFails(l)
             \/ Alarm(l) \/ SignalParent(l) \/ WritePidFails(l) \/ OpenSocketFails(l)
             \/ KillDaemon(l) \/ KillLauncher(l)
      PROVE  fs' = fs
  BY <1>8 DEF Start, LoadConfig, LoadTemplates, LoadFails, PrintAndExit,
     AlreadyDaemon, EnterServer, StatLock, Refuse, NobodyRuns, OpenLockFails, Fork,
     ForkFails, Alarm, SignalParent, WritePidFails, OpenSocketFails, KillDaemon,
     KillLauncher, world
<1>9. CASE UNCHANGED startupVars
  BY <1>9 DEF startupVars, world
<1>. QED
  <2> HIDE DEF StartupTypeOK, FilesOK
  <2>. QED
    BY <1>1, <1>2, <1>3, <1>4, <1>5, <1>6, <1>7, <1>8, <1>9
    DEF StartupNext, LauncherNext, LoadNext, DaemonFiles, OpenLock, WritePid

LEMMA TypeNext ==
  ASSUME StartupTypeOK, Order, [StartupNext]_startupVars
  PROVE  StartupTypeOK'
<1> DEFINE Typed ==
      /\ user' \in [Launches -> Users]
      /\ mode' \in [Launches -> Modes]
      /\ identity' \in [Launches -> [uid : Users, gid : Users]]
      /\ launcher' \in [Launches -> {"idle", "load", "check", "options", "stat",
                          "scan", "remove", "open", "fork", "pause", "gone"}]
      /\ step' \in LoadSteps \cup {"done"}
      /\ daemon' \in [Launches -> {"none", "signal", "pid", "bind", "serving", "gone"}]
      /\ outcome' \in [Launches -> {"none", "success", "failure", "refused"}]
      /\ template' \in [Launches -> {"none", "good", "empty"}]
      /\ digits' \in [Launches -> 1 .. MaxDigits]
      /\ sections' \in BOOLEAN
      /\ pidText' \in Seq(1 .. Nul)
      /\ bound' \in Launches \cup {NoLaunch}
      /\ killed' \subseteq Launches
      /\ changed' \in BOOLEAN
<1> USE DEF StartupTypeOK, LoadSteps
<1>1. ASSUME NEW l \in Launches, Start(l)  PROVE Typed
  BY <1>1 DEF Start, Goes, Quiet, world
<1>2. ASSUME NEW l \in Launches, LoadConfig(l)  PROVE Typed
  BY <1>2 DEF LoadConfig, Loads, Quiet
<1>3. ASSUME NEW l \in Launches, CheckSocket(l)  PROVE Typed
  BY <1>3 DEF CheckSocket, Loads, Quiet, Check
<1>4. ASSUME NEW l \in Launches, UnlinkSocket(l)  PROVE Typed
  BY <1>4 DEF UnlinkSocket, Loads, Quiet
<1>5. ASSUME NEW l \in Launches, CheckLock(l)  PROVE Typed
  BY <1>5 DEF CheckLock, Loads, Quiet, Check
<1>6. ASSUME NEW l \in Launches, CheckPid(l)  PROVE Typed
  BY <1>6 DEF CheckPid, Loads, Quiet, Check
<1>7. ASSUME NEW l \in Launches, LoadTemplates(l)  PROVE Typed
  BY <1>7 DEF LoadTemplates, Loads, Quiet
<1>8. ASSUME NEW l \in Launches, LoadFails(l)  PROVE Typed
  BY <1>8 DEF LoadFails, Exit, Goes, Quiet, world
<1>9. ASSUME NEW l \in Launches, PrintAndExit(l)  PROVE Typed
  BY <1>9 DEF PrintAndExit, Exit, Goes, LauncherOnly, Quiet
<1>10. ASSUME NEW l \in Launches, AlreadyDaemon(l)  PROVE Typed
  BY <1>10 DEF AlreadyDaemon, Goes, LauncherOnly, Quiet
<1>11. ASSUME NEW l \in Launches, EnterServer(l)  PROVE Typed
  BY <1>11 DEF EnterServer, Goes, LauncherOnly, Quiet
<1>12. ASSUME NEW l \in Launches, StatLock(l)  PROVE Typed
  BY <1>12 DEF StatLock, Goes, LauncherOnly, Quiet
<1>13. ASSUME NEW l \in Launches, Refuse(l)  PROVE Typed
  BY <1>13 DEF Refuse, Exit, Goes, LauncherOnly, Quiet
<1>14. ASSUME NEW l \in Launches, NobodyRuns(l)  PROVE Typed
  BY <1>14 DEF NobodyRuns, Goes, LauncherOnly, Quiet
<1>15. ASSUME NEW l \in Launches, RemoveLock(l)  PROVE Typed
  BY <1>15 DEF RemoveLock, Goes, LauncherOnly, Quiet
<1>16. ASSUME NEW l \in Launches, OpenLock(l)  PROVE Typed
  BY <1>16 DEF OpenLock, Goes, LauncherOnly, Quiet
<1>17. ASSUME NEW l \in Launches, OpenLockFails(l)  PROVE Typed
  BY <1>17 DEF OpenLockFails, Exit, Goes, LauncherOnly, Quiet
<1>18. ASSUME NEW l \in Launches, Fork(l)  PROVE Typed
  BY <1>18 DEF Fork, Goes, Quiet, Switched, world
<1>19. ASSUME NEW l \in Launches, ForkFails(l)  PROVE Typed
  BY <1>19 DEF ForkFails, Exit, Goes, LauncherOnly, Quiet
<1>20. ASSUME NEW l \in Launches, Alarm(l)  PROVE Typed
  BY <1>20 DEF Alarm, Exit, Goes, LauncherOnly, Quiet
<1>21. ASSUME NEW l \in Launches, SignalParent(l)  PROVE Typed
  BY <1>21 DEF SignalParent, DaemonGoes, Exit, Goes, DaemonOnly, Quiet, world
<1>22. ASSUME NEW l \in Launches, WritePid(l)  PROVE Typed
  <2>1. pidText' \in Seq(1 .. Nul)
    <3>1. PidText(l) \in Seq(1 .. Nul) /\ PidText(l) # <<>> /\ pidText \in Seq(1 .. Nul)
      BY TextOfPid
    <3>2. pidText' = Overwritten(pidText, PidText(l))
      BY <1>22 DEF WritePid
    <3>. QED
      BY ONLY <3>1, <3>2, OverwrittenText
  <2>. QED
    BY <1>22, <2>1 DEF WritePid, DaemonGoes, DaemonOnly, Quiet
<1>23. ASSUME NEW l \in Launches, WritePidFails(l)  PROVE Typed
  BY <1>23 DEF WritePidFails, DaemonGoes, DaemonOnly, Quiet, world
<1>24. ASSUME NEW l \in Launches, OpenSocket(l)  PROVE Typed
  BY <1>24 DEF OpenSocket, DaemonGoes, DaemonOnly, Quiet
<1>25. ASSUME NEW l \in Launches, OpenSocketFails(l)  PROVE Typed
  BY <1>25 DEF OpenSocketFails, DaemonGoes, DaemonOnly, Quiet, world
<1>26. ASSUME NEW l \in Launches, KillDaemon(l)  PROVE Typed
  BY <1>26 DEF KillDaemon, DaemonRuns, Exit, Goes, who, world
<1>27. ASSUME NEW l \in Launches, KillLauncher(l)  PROVE Typed
  BY <1>27 DEF KillLauncher, LauncherRuns, Exit, Goes, who, world
<1>28. ASSUME Administer \/ UNCHANGED startupVars  PROVE Typed
  BY <1>28 DEF Administer, startupVars, who, world
<1>. QED
  <2>1. Typed
    <3> HIDE DEF Typed, StartupTypeOK
    <3>. QED
      BY <1>1, <1>2, <1>3, <1>4, <1>5, <1>6, <1>7, <1>8, <1>9, <1>10, <1>11, <1>12,
         <1>13, <1>14, <1>15, <1>16, <1>17, <1>18, <1>19, <1>20, <1>21, <1>22, <1>23,
         <1>24, <1>25, <1>26, <1>27, <1>28 DEF StartupNext, LauncherNext, LoadNext,
         DaemonFiles
  <2>2. FilesOK'
    BY FilesNext
  <2>. QED
    BY <2>1, <2>2 DEF FilesOK

-----------------------------------------------------------------------------
(* The pid file: what the latest daemon has written stays, because nobody   *)
(* writes after it but a later launch.                                      *)
LEMMA TextStays ==
  ASSUME TextBounded, TextKept, pidText' = pidText, digits' = digits, mode' = mode,
         \A k \in Launches : daemon[k] # "none" => daemon'[k] # "none",
         \A k \in Launches : mode[k] = "start" /\ daemon'[k] \in {"bind", "serving"}
                               => daemon[k] \in {"bind", "serving"},
         \A k \in Launches : launcher'[k] = "idle" => launcher[k] = "idle"
  PROVE  TextBounded' /\ TextKept'
<1>1. TextBounded'
  BY DEF TextBounded
<1>2. \A l \in Launches : Latest(l)' => Latest(l)
  BY DEF Latest
<1>3. \A l \in Launches : ReadsBack(l)' <=> ReadsBack(l)
  BY DEF ReadsBack, PidText
<1>. QED
  BY <1>1, <1>2, <1>3 DEF TextKept

LEMMA TextNext ==
  ASSUME StartupTypeOK, Order, TextBounded, TextKept, [StartupNext]_startupVars
  PROVE  TextBounded' /\ TextKept'
<1> DEFINE Stays ==
      /\ pidText' = pidText /\ digits' = digits /\ mode' = mode
      /\ \A k \in Launches : daemon[k] # "none" => daemon'[k] # "none"
      /\ \A k \in Launches : mode[k] = "start" /\ daemon'[k] \in {"bind", "serving"}
                               => daemon[k] \in {"bind", "serving"}
      /\ \A k \in Launches : launcher'[k] = "idle" => launcher[k] = "idle"
    Goal == TextBounded' /\ TextKept'
<1> USE DEF StartupTypeOK
<1>1. ASSUME NEW l \in Launches, Start(l)  PROVE Stays
  BY <1>1 DEF Start, Goes, Quiet, world
<1>2. ASSUME NEW l \in Launches, LoadConfig(l)  PROVE Stays
  BY <1>2 DEF LoadConfig, Loads, Quiet
<1>3. ASSUME NEW l \in Launches, CheckSocket(l)  PROVE Stays
  BY <1>3 DEF CheckSocket, Loads, Quiet, Check
<1>4. ASSUME NEW l \in Launches, UnlinkSocket(l)  PROVE Stays
  BY <1>4 DEF UnlinkSocket, Loads, Quiet
<1>5. ASSUME NEW l \in Launches, CheckLock(l)  PROVE Stays
  BY <1>5 DEF CheckLock, Loads, Quiet, Check
<1>6. ASSUME NEW l \in Launches, CheckPid(l)  PROVE Stays
  BY <1>6 DEF CheckPid, Loads, Quiet, Check
<1>7. ASSUME NEW l \in Launches, LoadTemplates(l)  PROVE Stays
  BY <1>7 DEF LoadTemplates, Loads, Quiet
<1>8. ASSUME NEW l \in Launches, LoadFails(l)  PROVE Stays
  BY <1>8 DEF LoadFails, Exit, Goes, Quiet, world
<1>9. ASSUME NEW l \in Launches, PrintAndExit(l)  PROVE Stays
  BY <1>9 DEF PrintAndExit, Exit, Goes, LauncherOnly, Quiet
<1>10. ASSUME NEW l \in Launches, AlreadyDaemon(l)  PROVE Stays
  BY <1>10 DEF AlreadyDaemon, Goes, LauncherOnly, Quiet, Order, ForkedLast
<1>11. ASSUME NEW l \in Launches, EnterServer(l)  PROVE Stays
  BY <1>11 DEF EnterServer, Goes, LauncherOnly, Quiet
<1>12. ASSUME NEW l \in Launches, StatLock(l)  PROVE Stays
  BY <1>12 DEF StatLock, Goes, LauncherOnly, Quiet
<1>13. ASSUME NEW l \in Launches, Refuse(l)  PROVE Stays
  BY <1>13 DEF Refuse, Exit, Goes, LauncherOnly, Quiet
<1>14. ASSUME NEW l \in Launches, NobodyRuns(l)  PROVE Stays
  BY <1>14 DEF NobodyRuns, Goes, LauncherOnly, Quiet
<1>15. ASSUME NEW l \in Launches, RemoveLock(l)  PROVE Stays
  BY <1>15 DEF RemoveLock, Goes, LauncherOnly, Quiet
<1>16. ASSUME NEW l \in Launches, OpenLock(l)  PROVE Stays
  BY <1>16 DEF OpenLock, Goes, LauncherOnly, Quiet
<1>17. ASSUME NEW l \in Launches, OpenLockFails(l)  PROVE Stays
  BY <1>17 DEF OpenLockFails, Exit, Goes, LauncherOnly, Quiet
<1>18. ASSUME NEW l \in Launches, ForkFails(l)  PROVE Stays
  BY <1>18 DEF ForkFails, Exit, Goes, LauncherOnly, Quiet
<1>19. ASSUME NEW l \in Launches, Alarm(l)  PROVE Stays
  BY <1>19 DEF Alarm, Exit, Goes, LauncherOnly, Quiet
<1>20. ASSUME NEW l \in Launches, SignalParent(l)  PROVE Stays
  BY <1>20 DEF SignalParent, DaemonGoes, Exit, Goes, DaemonOnly, Quiet, world
<1>21. ASSUME NEW l \in Launches, WritePidFails(l)  PROVE Stays
  BY <1>21 DEF WritePidFails, DaemonGoes, DaemonOnly, Quiet, world
<1>22. ASSUME NEW l \in Launches, OpenSocket(l)  PROVE Stays
  BY <1>22 DEF OpenSocket, DaemonGoes, DaemonOnly, Quiet
<1>23. ASSUME NEW l \in Launches, OpenSocketFails(l)  PROVE Stays
  BY <1>23 DEF OpenSocketFails, DaemonGoes, DaemonOnly, Quiet, world
<1>24. ASSUME NEW l \in Launches, KillDaemon(l)  PROVE Stays
  BY <1>24 DEF KillDaemon, DaemonRuns, Exit, Goes, who, world
<1>25. ASSUME NEW l \in Launches, KillLauncher(l)  PROVE Stays
  BY <1>25 DEF KillLauncher, LauncherRuns, Exit, Goes, who, world
<1>26. ASSUME Administer \/ UNCHANGED startupVars  PROVE Stays
  BY <1>26 DEF Administer, startupVars, who, world
<1>27. Stays => Goal
  <2> HIDE DEF StartupTypeOK
  <2>. QED  BY TextStays
<1>28. ASSUME NEW l \in Launches, Fork(l)  PROVE Goal
  <2>1. /\ launcher[l] = "fork" /\ daemon[l] = "none" /\ mode' = mode
        /\ launcher' = [launcher EXCEPT ![l] = "pause"]
        /\ daemon' = [daemon EXCEPT ![l] = "signal"]
        /\ pidText' = pidText /\ \E d : digits' = [digits EXCEPT ![l] = d]
    BY <1>28 DEF Fork, Goes, Quiet, world, Order, ForkedLast
  <2>2. TextBounded'
    BY <2>1 DEF TextBounded
  <2>3. ASSUME NEW k \in Launches, Latest(k)'  PROVE ReadsBack(k)'
    <3>1. k # l /\ daemon[k] \in {"bind", "serving"} /\ mode[k] = "start"
      BY <2>1, <2>3 DEF Latest
    <3>2. ~(k < l)
      BY <2>1, <2>3 DEF Latest
    <3>3. l < k
      BY <3>1, <3>2, LaunchesAre
    <3>4. launcher[k] # "idle"
      BY <3>1 DEF Order, ForkedLast
    <3>. QED
      BY <2>1, <3>3, <3>4 DEF Order, Follows, Settled
  <2>. QED
    BY <2>2, <2>3 DEF TextKept
<1>29. ASSUME NEW l \in Launches, WritePid(l)  PROVE Goal
  <2>1. /\ daemon[l] = "pid" /\ daemon' = [daemon EXCEPT ![l] = "bind"]
        /\ launcher' = launcher /\ digits' = digits
        /\ pidText' = Overwritten(pidText, PidText(l))
    BY <1>29 DEF WritePid, DaemonGoes, DaemonOnly
  <2>2. /\ pidText \in Seq(1 .. Nul) /\ Len(pidText) \in Nat
        /\ PidText(l) \in Seq(1 .. Nul) /\ PidText(l) # <<>>
        /\ Len(PidText(l)) = digits[l] + 1
    BY TextOfPid, LenProperties
  <2>3. /\ Len(pidText') \in {Len(pidText), digits[l] + 1}
        /\ SubSeq(pidText', 1, digits[l] + 1) = PidText(l)
        /\ Len(pidText) =< digits[l] + 1 => pidText' = PidText(l)
    <3> DEFINE text == Overwritten(pidText, PidText(l))
    <3>1. /\ Len(text) \in {Len(pidText), Len(PidText(l))}
          /\ SubSeq(text, 1, Len(PidText(l))) = PidText(l)
          /\ Len(pidText) =< Len(PidText(l)) => text = PidText(l)
      BY ONLY <2>2, OverwrittenText
    <3> HIDE DEF text
    <3>2. pidText' = text
      BY <2>1 DEF text
    <3>. QED
      BY ONLY <2>2, <3>1, <3>2
  <2>4. TextBounded'
    BY <2>1, <2>3, LaunchesAre DEF TextBounded
  <2>5. launcher[l] # "idle" /\ ~Settled(l)
    BY <2>1 DEF Order, ForkedLast, Settled
  <2>6. ASSUME NEW k \in Launches \ {l}  PROVE ~Latest(k)'
    <3>1. CASE k < l
      BY <2>1, <2>5, <3>1, LaunchesAre DEF Latest
    <3>2. CASE k > l
      <4>1. daemon[k] = "none"
        BY <2>5, <2>6, <3>2, OneUnderWay DEF Order, ForkedLast
      <4>. QED
        BY <2>1, <4>1 DEF Latest
    <3>. QED
      BY <3>1, <3>2, LaunchesAre
  <2>7. ReadsBack(l)'
    <3>1. PidText(l)' = PidText(l)
      BY <2>1 DEF PidText
    <3>2. ASSUME \A k \in 1 .. l : digits[k] <= digits[l]
          PROVE  Len(pidText) =< digits[l] + 1
      <4>1. CASE Len(pidText) = 0
        BY <4>1
      <4>2. ASSUME NEW k \in Launches, daemon[k] # "none", Len(pidText) =< digits[k] + 1
            PROVE  Len(pidText) =< digits[l] + 1
        <5>1. ~(k > l)
          BY <2>5, <4>2, OneUnderWay, LaunchesAre DEF Order, ForkedLast
        <5>2. digits[k] <= digits[l]
          BY <3>2, <5>1, LaunchesAre
        <5>. QED
          BY <2>2, <4>2, <5>2
      <4>. QED
        BY <4>1, <4>2 DEF TextBounded
    <3>. QED
      BY <2>1, <2>3, <3>1, <3>2 DEF ReadsBack
  <2>. QED
    BY <2>4, <2>6, <2>7 DEF TextKept
<1>. QED
  <2> HIDE DEF Stays, Goal, StartupTypeOK
  <2>1. Goal
    BY <1>1, <1>2, <1>3, <1>4, <1>5, <1>6, <1>7, <1>8, <1>9, <1>10, <1>11, <1>12,
       <1>13, <1>14, <1>15, <1>16, <1>17, <1>18, <1>19, <1>20, <1>21, <1>22, <1>23,
       <1>24, <1>25, <1>26, <1>27, <1>28, <1>29 DEF StartupNext, LauncherNext,
       LoadNext, DaemonFiles
  <2>. QED
    BY <2>1 DEF Goal

LEMMA InvInit == StartupInit => Inv
<1> SUFFICES ASSUME StartupInit  PROVE Inv
  OBVIOUS
<1> USE DEF StartupInit
<1>1. /\ MaxLaunches \in Nat /\ Root \in Users /\ 1 \in 1 .. MaxDigits
      /\ Layouts \subseteq [files : [Nodes -> Entry], sections : BOOLEAN]
      /\ \A y \in Layouts : WellFormed(y.files)
  BY StartupAssumption DEF StartupAssumption
<1>2. fs \in [Nodes -> Entry] /\ WellFormed(fs) /\ sections \in BOOLEAN
  <2>1. PICK y \in Layouts : fs = y.files /\ sections = y.sections
    OBVIOUS
  <2>2. y \in [files : [Nodes -> Entry], sections : BOOLEAN] /\ WellFormed(y.files)
    BY <1>1
  <2>. QED
    BY <2>1, <2>2
<1>3. pidText \in Seq(1 .. Nul) /\ Len(pidText) = 0
  BY EmptySeq
<1>4. StartupTypeOK
  BY <1>1, <1>2, <1>3 DEF StartupTypeOK, LoadSteps
<1>5. Order
  BY DEF Order, Follows, ForkedLast, StepKept
<1>. QED
  BY <1>3, <1>4, <1>5 DEF Inv, TextBounded, TextKept, Latest

LEMMA InvAlways == StartupSpec => []Inv
<1>1. Inv /\ [StartupNext]_startupVars => Inv'
  BY OrderNext, TypeNext, TextNext DEF Inv
<1>. QED
  BY <1>1, InvInit, PTL DEF StartupSpec

(* Whoever starts the daemon over whatever files, all parts of the state    *)
(* keep their types, and no file is left in a directory that is not there.  *)
THEOREM StartupTyped == StartupSpec => []StartupTypeOK
<1>1. Inv => StartupTypeOK
  BY DEF Inv
<1>. QED
  BY <1>1, InvAlways, PTL

(* The pid file is opened without O_TRUNC.  Still it reads back as the id   *)
(* of the daemon that serves, followed by rests of longer ids at most.      *)
THEOREM PidFileRead == StartupSpec => []PidFileReadsBack
<1>1. Inv => PidFileReadsBack
  <2> SUFFICES ASSUME Inv, NEW l \in Launches, mode[l] = "start", daemon[l] = "serving",
                      \A k \in l + 1 .. MaxLaunches : launcher[k] = "idle"
               PROVE  ReadsBack(l)
    BY DEF PidFileReadsBack, ReadsBack
  <2>1. \A k \in Launches : k > l => launcher[k] = "idle"
    BY LaunchesAre
  <2>. QED
    BY <2>1 DEF Inv, TextKept, Latest
<1>. QED
  BY <1>1, InvAlways, PTL

-----------------------------------------------------------------------------
(* Launch                                                                   *)
LEMMA RefineInit == StartupInit => L!LaunchInit
<1> SUFFICES ASSUME StartupInit  PROVE L!LaunchInit
  OBVIOUS
<1>1. mode \in [Launches -> Modes] /\ pidText = <<>> /\ bound = NoLaunch
  BY DEF StartupInit
<1>2. /\ launcher = [l \in Launches |-> "idle"]
      /\ daemon = [l \in Launches |-> "none"]
      /\ outcome = [l \in Launches |-> "none"]
  BY DEF StartupInit
<1>. QED
  BY <1>1, <1>2 DEF L!LaunchInit

(* A launch that has passed the checks on the pid file, up to its look at   *)
(* the lock file, can search the directory.                                 *)
InReach(l) == Reaches(identity[l], fs, RunDirs, 3)
Checked(l) == \/ launcher[l] = "check" /\ step = "templates"
              \/ launcher[l] \in {"options", "stat"}
Searches == \A l \in Launches : Checked(l) => InReach(l)

LEMMA RefineNext ==
  ASSUME Inv, Searches, [StartupNext]_startupVars
  PROVE  [L!LaunchNext]_(L!launchVars)
<1>1. ASSUME NEW l \in Launches, LoadConfig(l)  PROVE UNCHANGED L!launchVars
  <2>1. launcher' = launcher
    BY <1>1 DEF LoadConfig, Loads, Quiet, Inv, StartupTypeOK, Order, StepKept
  <2>2. fs'["lock"] = fs["lock"]
    BY <1>1 DEF LoadConfig
  <2>. QED
    BY <1>1, <2>1, <2>2 DEF LoadConfig, Loads, Quiet, L!launchVars, L!files
<1>2. ASSUME NEW l \in Launches, CheckSocket(l)  PROVE UNCHANGED L!launchVars
  <2>1. launcher' = launcher
    BY <1>2 DEF CheckSocket, Loads, Quiet, Check, Inv, StartupTypeOK, Order, StepKept
  <2>2. fs'["lock"] = fs["lock"]
    <3>1. fs' = Walked(identity[l], fs, RunDirs)
      BY <1>2 DEF CheckSocket, Check
    <3>2. /\ "lock" \in Nodes \ {"run", "service"} /\ fs \in [Nodes -> Entry]
          /\ identity[l] \in [uid : Users, gid : Users]
      BY DEF Inv, StartupTypeOK, Nodes
    <3>. QED
      BY <3>1, <3>2, WalkedFiles
  <2>. QED
    BY <1>2, <2>1, <2>2 DEF CheckSocket, Loads, Quiet, Check, L!launchVars, L!files
<1>3. ASSUME NEW l \in Launches, UnlinkSocket(l)  PROVE L!Unlink(l)
  <2>1. launcher[l] = "load" /\ launcher' = [launcher EXCEPT ![l] = "check"]
    BY <1>3 DEF UnlinkSocket, Loads, Inv, Order, StepKept
  <2>2. fs'["lock"] = fs["lock"] /\ (bound' = bound \/ bound' = NoLaunch)
    BY <1>3 DEF UnlinkSocket, Inv, StartupTypeOK, Nodes
  <2>3. UNCHANGED <<mode, daemon, outcome, pidText>>
    BY <1>3 DEF UnlinkSocket, Loads, Quiet
  <2>. QED
    BY <2>1, <2>2, <2>3 DEF L!Unlink, L!Step, L!Goes
<1>4. ASSUME NEW l \in Launches, CheckLock(l)  PROVE UNCHANGED L!launchVars
  <2>1. launcher' = launcher
    BY <1>4 DEF CheckLock, Loads, Quiet, Check, Inv, StartupTypeOK, Order, StepKept
  <2>2. fs'["lock"] = fs["lock"]
    <3>1. fs' = Walked(identity[l], fs, RunDirs)
      BY <1>4 DEF CheckLock, Check
    <3>2. /\ "lock" \in Nodes \ {"run", "service"} /\ fs \in [Nodes -> Entry]
          /\ identity[l] \in [uid : Users, gid : Users]
      BY DEF Inv, StartupTypeOK, Nodes
    <3>. QED
      BY <3>1, <3>2, WalkedFiles
  <2>. QED
    BY <1>4, <2>1, <2>2 DEF CheckLock, Loads, Quiet, Check, L!launchVars, L!files
<1>5. ASSUME NEW l \in Launches, CheckPid(l)  PROVE UNCHANGED L!launchVars
  <2>1. launcher' = launcher
    BY <1>5 DEF CheckPid, Loads, Quiet, Check, Inv, StartupTypeOK, Order, StepKept
  <2>2. fs'["lock"] = fs["lock"]
    <3>1. fs' = Walked(identity[l], fs, RunDirs)
      BY <1>5 DEF CheckPid, Check
    <3>2. /\ "lock" \in Nodes \ {"run", "service"} /\ fs \in [Nodes -> Entry]
          /\ identity[l] \in [uid : Users, gid : Users]
      BY DEF Inv, StartupTypeOK, Nodes
    <3>. QED
      BY <3>1, <3>2, WalkedFiles
  <2>. QED
    BY <1>5, <2>1, <2>2 DEF CheckPid, Loads, Quiet, Check, L!launchVars, L!files
<1>6. ASSUME NEW l \in Launches, LoadTemplates(l)  PROVE L!Load(l)
  <2>1. launcher[l] = "check" /\ launcher' = [launcher EXCEPT ![l] = "options"]
    BY <1>6 DEF LoadTemplates, Loads, Inv, Order, StepKept
  <2>. QED
    BY <1>6, <2>1 DEF LoadTemplates, Loads, Quiet, L!Load, L!Step, L!Goes, L!files
<1>7. ASSUME NEW l \in Launches, LoadFails(l)  PROVE L!LoadExits(l)
  BY <1>7 DEF LoadFails, Exit, Goes, Quiet, world, L!LoadExits, L!Exit, L!Step,
     L!DaemonStep, L!Goes, L!files
<1>8. ASSUME NEW l \in Launches, PrintAndExit(l)  PROVE L!PrintAndExit(l)
  BY <1>8 DEF PrintAndExit, Exit, Goes, LauncherOnly, Quiet, world, L!PrintAndExit,
     L!Exit, L!Step, L!DaemonStep, L!Goes, L!files
<1>9. ASSUME NEW l \in Launches, AlreadyDaemon(l)  PROVE L!AlreadyDaemon(l)
  BY <1>9 DEF AlreadyDaemon, Goes, LauncherOnly, Quiet, world, L!AlreadyDaemon,
     L!Exit, L!Step, L!DaemonStep, L!Goes, L!files
<1>10. ASSUME NEW l \in Launches, EnterServer(l)  PROVE L!EnterServer(l)
  BY <1>10 DEF EnterServer, Goes, LauncherOnly, Quiet, world, L!EnterServer, L!Exit,
     L!Step, L!DaemonStep, L!Goes, L!files
<1>11. ASSUME NEW l \in Launches, StatLock(l)  PROVE L!StatLock(l)
  <2>1. SeesLock(l) <=> fs["lock"].kind # "absent"
    <3>1. Reaches(identity[l], fs, RunDirs, 3)
      BY <1>11 DEF StatLock, Goes, Searches, Checked, InReach
    <3>2. Len(RunDirs) + 1 = 3
      BY RunDirsAre
    <3>. QED
      BY <3>1, <3>2 DEF SeesLock
  <2>. QED
    BY <1>11, <2>1 DEF StatLock, Goes, LauncherOnly, Quiet, L!StatLock, L!Step,
       L!Goes, L!files
<1>12. ASSUME NEW l \in Launches, Refuse(l)  PROVE L!Refuse(l)
  BY <1>12 DEF Refuse, Exit, Goes, LauncherOnly, Quiet, world, L!Refuse, L!Exit,
     L!Step, L!DaemonStep, L!Goes, L!files, OtherProcess, L!OtherProcess,
     LauncherRuns, DaemonRuns, L!LauncherRuns, L!DaemonRuns
<1>13. ASSUME NEW l \in Launches, NobodyRuns(l)  PROVE L!NobodyRuns(l)
  BY <1>13 DEF NobodyRuns, Goes, LauncherOnly, Quiet, world, L!NobodyRuns, L!Exit,
     L!Step, L!DaemonStep, L!Goes, L!files, OtherProcess, L!OtherProcess,
     LauncherRuns, DaemonRuns, L!LauncherRuns, L!DaemonRuns
<1>14. ASSUME NEW l \in Launches, RemoveLock(l)  PROVE L!RemoveLock(l)
  <2>1. fs'["lock"].kind # "absent" => fs["lock"].kind # "absent"
    BY <1>14, EntryAbsent DEF RemoveLock, Inv, StartupTypeOK, Nodes
  <2>2. (fs'["lock"].kind # "absent") \in {FALSE, fs["lock"].kind # "absent"}
    BY <2>1
  <2>3. /\ launcher[l] = "remove" /\ launcher' = [launcher EXCEPT ![l] = "open"]
        /\ UNCHANGED <<mode, daemon, outcome, pidText, bound>>
    BY <1>14 DEF RemoveLock, Goes, LauncherOnly, Quiet
  <2>. QED
    BY <2>2, <2>3 DEF L!RemoveLock, L!Step, L!Goes
<1>15. ASSUME NEW l \in Launches, OpenLock(l)  PROVE L!OpenLock(l)
  <2>1. fs'["lock"].kind # "absent"
    <3>1. /\ "lock" \in Nodes /\ fs \in [Nodes -> Entry]
          /\ identity[l] \in [uid : Users, gid : Users]
      BY DEF Inv, StartupTypeOK, Nodes
    <3>2. fs' = Opened(identity[l], fs, "lock")
      BY <1>15 DEF OpenLock
    <3>. QED
      BY <3>1, <3>2, OpenedFiles
  <2>. QED
    BY <1>15, <2>1 DEF OpenLock, Goes, LauncherOnly, Quiet, L!OpenLock, L!Step, L!Goes
<1>16. ASSUME NEW l \in Launches, OpenLockFails(l)  PROVE L!OpenLockFails(l)
  BY <1>16 DEF OpenLockFails, Exit, Goes, LauncherOnly, Quiet, world, L!OpenLockFails,
     L!Exit, L!Step, L!DaemonStep, L!Goes, L!files
<1>17. ASSUME NEW l \in Launches, Fork(l)  PROVE L!Fork(l)
  BY <1>17 DEF Fork, Goes, Quiet, world, L!Fork, L!Exit, L!Step, L!DaemonStep, L!Goes,
     L!files
<1>18. ASSUME NEW l \in Launches, ForkFails(l)  PROVE L!ForkFails(l)
  BY <1>18 DEF ForkFails, Exit, Goes, LauncherOnly, Quiet, world, L!ForkFails, L!Exit,
     L!Step, L!DaemonStep, L!Goes, L!files
<1>19. ASSUME NEW l \in Launches, Alarm(l)  PROVE L!Alarm(l)
  BY <1>19 DEF Alarm, Exit, Goes, LauncherOnly, Quiet, world, L!Alarm, L!Exit, L!Step,
     L!DaemonStep, L!Goes, L!files
<1>20. ASSUME NEW l \in Launches, SignalParent(l)  PROVE L!SignalParent(l)
  BY <1>20 DEF SignalParent, DaemonGoes, Exit, Goes, DaemonOnly, Quiet, world,
     L!SignalParent, L!Exit, L!Step, L!DaemonStep, L!Goes, L!files
<1>21. ASSUME NEW l \in Launches, WritePid(l)  PROVE L!WritePid(l)
  <2>1. fs'["lock"] = fs["lock"]
    <3>1. /\ "lock" \in Nodes \ {"pid"} /\ "pid" \in Nodes /\ fs \in [Nodes -> Entry]
          /\ identity[l] \in [uid : Users, gid : Users]
      BY DEF Inv, StartupTypeOK, Nodes
    <3>2. fs' = Opened(identity[l], fs, "pid")
      BY <1>21 DEF WritePid
    <3>. QED
      BY <3>1, <3>2, OpenedFiles
  <2>2. pidText' # <<>> /\ Head(pidText') = l
    <3>1. /\ PidText(l) \in Seq(1 .. Nul) /\ PidText(l) # <<>> /\ Head(PidText(l)) = l
          /\ pidText \in Seq(1 .. Nul)
      BY TextOfPid DEF Inv, StartupTypeOK
    <3>2. /\ Overwritten(pidText, PidText(l)) # <<>>
          /\ Head(Overwritten(pidText, PidText(l))) = l
      BY ONLY <3>1, OverwrittenText
    <3>3. pidText' = Overwritten(pidText, PidText(l))
      BY <1>21 DEF WritePid
    <3>. QED
      BY ONLY <3>2, <3>3
  <2>. QED
    BY <1>21, <2>1, <2>2 DEF WritePid, DaemonGoes, DaemonOnly, Quiet, L!WritePid,
       L!DaemonStep
<1>22. ASSUME NEW l \in Launches, WritePidFails(l)  PROVE L!WritePidFails(l)
  BY <1>22 DEF WritePidFails, DaemonGoes, DaemonOnly, Quiet, world, L!WritePidFails,
     L!Exit, L!Step, L!DaemonStep, L!Goes, L!files
<1>23. ASSUME NEW l \in Launches, OpenSocket(l)  PROVE L!OpenSocket(l)
  BY <1>23 DEF OpenSocket, DaemonGoes, DaemonOnly, Quiet, world, L!OpenSocket, L!Exit,
     L!Step, L!DaemonStep, L!Goes, L!files
<1>24. ASSUME NEW l \in Launches, OpenSocketFails(l)  PROVE L!OpenSocketFails(l)
  BY <1>24 DEF OpenSocketFails, DaemonGoes, DaemonOnly, Quiet, world,
     L!OpenSocketFails, L!Exit, L!Step, L!DaemonStep, L!Goes, L!files
<1>25. ASSUME NEW l \in Launches, KillDaemon(l)  PROVE L!KillDaemon(l)
  BY <1>25 DEF KillDaemon, DaemonRuns, Exit, Goes, who, world, L!KillDaemon, L!Exit,
     L!Step, L!DaemonStep, L!Goes, L!files, LauncherRuns, L!LauncherRuns, L!DaemonRuns
<1>26. ASSUME NEW l \in Launches, KillLauncher(l)  PROVE L!KillLauncher(l)
  BY <1>26 DEF KillLauncher, LauncherRuns, Exit, Goes, who, world, L!KillLauncher,
     L!Exit, L!Step, L!DaemonStep, L!Goes, L!files, DaemonRuns, L!LauncherRuns,
     L!DaemonRuns
<1>27. ASSUME NEW l \in Launches, Start(l)  PROVE L!Start(l)
  <2>1. /\ launcher[l] = "idle" /\ launcher' = [launcher EXCEPT ![l] = "load"]
        /\ \A k \in 1 .. l - 1 : Settled(k)
        /\ UNCHANGED <<mode, daemon, outcome, fs, pidText, bound>>
    BY <1>27 DEF Start, Goes, Quiet, world
  <2>2. \A k \in Launches : L!Settled(k)
    <3>1. ASSUME NEW k \in Launches, k < l  PROVE L!Settled(k)
      BY <2>1, <3>1, LaunchesAre DEF Settled, L!Settled, L!LauncherRuns
    <3>2. ASSUME NEW k \in Launches, ~(k < l)  PROVE L!Settled(k)
      <4>1. launcher[k] = "idle"
        <5>1. CASE k = l
          BY <2>1, <5>1
        <5>2. CASE l < k
          BY <2>1, <5>2 DEF Inv, Order, Follows, Settled
        <5>. QED
          BY <3>2, <5>1, <5>2, LaunchesAre
      <4>. QED
        BY <4>1 DEF Inv, Order, ForkedLast, L!Settled, L!LauncherRuns
    <3>. QED
      BY <3>1, <3>2
  <2>. QED
    BY <2>1, <2>2 DEF L!Start, L!Goes, L!files
<1>28. ASSUME Administer \/ UNCHANGED startupVars  PROVE UNCHANGED L!launchVars
  <2>1. /\ fs'["lock"] = fs["lock"]
        /\ UNCHANGED <<mode, launcher, daemon, outcome, pidText, bound>>
    BY <1>28 DEF Administer, startupVars, who, world, Inv, StartupTypeOK, Nodes
  <2>. QED
    BY <2>1 DEF L!launchVars, L!files
<1>. QED
  BY <1>1, <1>2, <1>3, <1>4, <1>5, <1>6, <1>7, <1>8, <1>9, <1>10, <1>11, <1>12, <1>13,
     <1>14, <1>15, <1>16, <1>17, <1>18, <1>19, <1>20, <1>21, <1>22, <1>23, <1>24,
     <1>25, <1>26, <1>27, <1>28 DEF StartupNext, LauncherNext, LoadNext, DaemonFiles,
     L!LaunchNext, L!LauncherNext, L!DaemonNext, L!Kill

(* The administrator may close the directory to writers, but not to those   *)
(* who look for a file in it.                                               *)
LeavesSearchable ==
  \A d \in Directories, id \in [uid : Users, gid : Users] : Grants(id, d, "x")

LEMMA SameReach ==
  ASSUME NEW id, NEW f, NEW g, f["run"] = g["run"], f["service"] = g["service"],
         Reaches(id, f, RunDirs, 3)
  PROVE  Reaches(id, g, RunDirs, 3)
<1>1. \A j \in 1 .. 3 - 1 : RunDirs[j] = "run" \/ RunDirs[j] = "service"
  BY RunDirsAre
<1>. QED
  BY <1>1 DEF Reaches

LEMMA SearchesStay ==
  ASSUME Searches, fs'["run"] = fs["run"], fs'["service"] = fs["service"],
         \A k \in Launches : Checked(k)' => Checked(k) /\ identity'[k] = identity[k]
  PROVE  Searches'
<1> SUFFICES ASSUME NEW k \in Launches, Checked(k)'  PROVE InReach(k)'
  BY DEF Searches
<1>1. Reaches(identity[k], fs, RunDirs, 3)
  BY DEF Searches, InReach
<1>2. Reaches(identity[k], fs', RunDirs, 3)
  BY <1>1, SameReach
<1>. QED
  BY <1>2 DEF InReach

LEMMA SearchesNext ==
  ASSUME LeavesSearchable, Inv, Searches, [StartupNext]_startupVars
  PROVE  Searches'
<1> DEFINE Stays == /\ fs'["run"] = fs["run"] /\ fs'["service"] = fs["service"]
                    /\ \A k \in Launches :
                         Checked(k)' => Checked(k) /\ identity'[k] = identity[k]
           NoneYet == \A k \in Launches : ~Checked(k)'
<1> USE DEF Inv, StartupTypeOK
<1>0. ASSUME NEW l \in Launches, launcher[l] \in {"load", "check"},
             NEW k \in Launches \ {l}
      PROVE  launcher[k] \in {"idle", "gone"}
  BY <1>0, OneUnderWay DEF Settled, Order
<1>00. {"run", "service", "lock", "pid", "sock"} \subseteq Nodes
  BY DEF Nodes
<1>1. ASSUME NEW l \in Launches, LoadConfig(l)  PROVE NoneYet
  <2>1. \A k \in Launches \ {l} : launcher[k] \in {"idle", "gone"}
    BY <1>1, <1>0 DEF LoadConfig, Loads
  <2>. QED
    BY <1>1, <2>1 DEF LoadConfig, Loads, Checked
<1>2. ASSUME NEW l \in Launches, CheckSocket(l)  PROVE NoneYet
  <2>1. \A k \in Launches \ {l} : launcher[k] \in {"idle", "gone"}
    BY <1>2, <1>0 DEF CheckSocket, Check, Loads
  <2>. QED
    BY <1>2, <2>1 DEF CheckSocket, Check, Loads, Checked
<1>3. ASSUME NEW l \in Launches, UnlinkSocket(l)  PROVE NoneYet
  <2>1. \A k \in Launches \ {l} : launcher[k] \in {"idle", "gone"}
    BY <1>3, <1>0 DEF UnlinkSocket, Loads
  <2>. QED
    BY <1>3, <2>1 DEF UnlinkSocket, Loads, Checked
<1>4. ASSUME NEW l \in Launches, CheckLock(l)  PROVE NoneYet
  <2>1. \A k \in Launches \ {l} : launcher[k] \in {"idle", "gone"}
    BY <1>4, <1>0 DEF CheckLock, Check, Loads
  <2>. QED
    BY <1>4, <2>1 DEF CheckLock, Check, Loads, Checked
<1>5. ASSUME NEW l \in Launches, CheckPid(l)  PROVE Searches'
  <2>1. \A k \in Launches \ {l} : launcher[k] \in {"idle", "gone"}
    BY <1>5, <1>0 DEF CheckPid, Check, Loads
  <2>2. \A k \in Launches \ {l} : ~Checked(k)'
    BY <1>5, <2>1 DEF CheckPid, Check, Loads, Checked
  <2>3. WritesIn(identity[l], fs', RunDirs) /\ identity' = identity
    BY <1>5 DEF CheckPid, Check, Loads, checkPath
  <2>4. Reaches(identity[l], fs', RunDirs, Len(RunDirs) + 1) /\ Len(RunDirs) + 1 = 3
    BY <2>3, RunDirsAre DEF WritesIn
  <2>5. InReach(l)'
    BY <2>3, <2>4 DEF InReach
  <2>. QED
    BY <2>2, <2>5 DEF Searches
<1>6. ASSUME NEW l \in Launches, LoadTemplates(l)  PROVE Stays
  BY <1>6, <1>00 DEF LoadTemplates, Loads, Quiet, StepKept, Order, Checked
<1>7. ASSUME NEW l \in Launches, LoadFails(l)  PROVE Stays
  BY <1>7, <1>00 DEF LoadFails, Exit, Goes, Quiet, world, Checked
<1>8. ASSUME NEW l \in Launches, PrintAndExit(l)  PROVE Stays
  BY <1>8, <1>00 DEF PrintAndExit, Exit, Goes, LauncherOnly, Quiet, Checked
<1>9. ASSUME NEW l \in Launches, AlreadyDaemon(l)  PROVE Stays
  BY <1>9, <1>00 DEF AlreadyDaemon, Goes, LauncherOnly, Quiet, Checked
<1>10. ASSUME NEW l \in Launches, EnterServer(l)  PROVE Stays
  BY <1>10, <1>00 DEF EnterServer, Goes, LauncherOnly, Quiet, Checked
<1>11. ASSUME NEW l \in Launches, StatLock(l)  PROVE Stays
  BY <1>11, <1>00 DEF StatLock, Goes, LauncherOnly, Quiet, Checked
<1>12. ASSUME NEW l \in Launches, Refuse(l)  PROVE Stays
  BY <1>12, <1>00 DEF Refuse, Exit, Goes, LauncherOnly, Quiet, Checked
<1>13. ASSUME NEW l \in Launches, NobodyRuns(l)  PROVE Stays
  BY <1>13, <1>00 DEF NobodyRuns, Goes, LauncherOnly, Quiet, Checked
<1>14. ASSUME NEW l \in Launches, RemoveLock(l)  PROVE Stays
  BY <1>14, <1>00 DEF RemoveLock, Goes, LauncherOnly, Quiet, Checked
<1>15. ASSUME NEW l \in Launches, OpenLock(l)  PROVE Stays
  <2>1. fs' = Opened(identity[l], fs, "lock")
    BY <1>15 DEF OpenLock
  <2>2. /\ fs \in [Nodes -> Entry] /\ "lock" \in Nodes
        /\ identity[l] \in [uid : Users, gid : Users]
        /\ "run" \in Nodes \ {"lock"} /\ "service" \in Nodes \ {"lock"}
    BY <1>00
  <2>3. fs'["run"] = fs["run"] /\ fs'["service"] = fs["service"]
    BY ONLY <2>1, <2>2, OpenedFiles
  <2>. QED
    BY <1>15, <2>3 DEF OpenLock, Goes, LauncherOnly, Quiet, Checked
<1>16. ASSUME NEW l \in Launches, OpenLockFails(l)  PROVE Stays
  BY <1>16, <1>00 DEF OpenLockFails, Exit, Goes, LauncherOnly, Quiet, Checked
<1>17. ASSUME NEW l \in Launches, Fork(l)  PROVE Stays
  BY <1>17, <1>00 DEF Fork, Goes, Quiet, world, Checked
<1>18. ASSUME NEW l \in Launches, ForkFails(l)  PROVE Stays
  BY <1>18, <1>00 DEF ForkFails, Exit, Goes, LauncherOnly, Quiet, Checked
<1>19. ASSUME NEW l \in Launches, Alarm(l)  PROVE Stays
  BY <1>19, <1>00 DEF Alarm, Exit, Goes, LauncherOnly, Quiet, Checked
<1>20. ASSUME NEW l \in Launches, SignalParent(l)  PROVE Stays
  BY <1>20, <1>00 DEF SignalParent, DaemonGoes, Exit, Goes, DaemonOnly, Quiet, world,
     Checked
<1>21. ASSUME NEW l \in Launches, WritePid(l)  PROVE Stays
  <2>1. fs' = Opened(identity[l], fs, "pid")
    BY <1>21 DEF WritePid
  <2>2. /\ fs \in [Nodes -> Entry] /\ "pid" \in Nodes
        /\ identity[l] \in [uid : Users, gid : Users]
        /\ "run" \in Nodes \ {"pid"} /\ "service" \in Nodes \ {"pid"}
    BY <1>00
  <2>3. fs'["run"] = fs["run"] /\ fs'["service"] = fs["service"]
    BY ONLY <2>1, <2>2, OpenedFiles
  <2>. QED
    BY <1>21, <2>3 DEF WritePid, DaemonGoes, DaemonOnly, Quiet, Checked
<1>22. ASSUME NEW l \in Launches, WritePidFails(l)  PROVE Stays
  BY <1>22, <1>00 DEF WritePidFails, DaemonGoes, DaemonOnly, Quiet, world, Checked
<1>23. ASSUME NEW l \in Launches, OpenSocket(l)  PROVE Stays
  BY <1>23, <1>00 DEF OpenSocket, DaemonGoes, DaemonOnly, Quiet, Checked
<1>24. ASSUME NEW l \in Launches, OpenSocketFails(l)  PROVE Stays
  BY <1>24, <1>00 DEF OpenSocketFails, DaemonGoes, DaemonOnly, Quiet, world, Checked
<1>25. ASSUME NEW l \in Launches, KillDaemon(l)  PROVE Stays
  BY <1>25, <1>00 DEF KillDaemon, DaemonRuns, Exit, Goes, who, world, Checked
<1>26. ASSUME NEW l \in Launches, KillLauncher(l)  PROVE Stays
  BY <1>26, <1>00 DEF KillLauncher, LauncherRuns, Exit, Goes, who, world, Checked
<1>27. ASSUME NEW l \in Launches, Start(l)  PROVE NoneYet
  <2>1. \A k \in Launches \ {l} : launcher[k] \in {"idle", "gone"}
    <3>1. /\ launcher[l] = "idle"
          /\ \A k \in 1 .. l - 1 : Settled(k)
      BY <1>27 DEF Start, Goes
    <3>2. ASSUME NEW k \in Launches, k < l  PROVE launcher[k] = "gone"
      BY <3>1, <3>2, LaunchesAre DEF Settled
    <3>3. ASSUME NEW k \in Launches, l < k  PROVE launcher[k] = "idle"
      BY <3>1, <3>3 DEF Order, Follows, Settled
    <3>. QED
      BY <3>2, <3>3, LaunchesAre
  <2>. QED
    BY <1>27, <2>1 DEF Start, Goes, Checked
<1>28. ASSUME Administer  PROVE Searches'
  <2>1. PICK d \in Directories : fs' = [fs EXCEPT !["service"] = d]
    BY <1>28 DEF Administer
  <2>2. fs'["service"] = d /\ fs'["run"] = fs["run"] /\ d.kind = "dir"
    <3>1. d.kind = "dir"
      BY Zenon, StartupAssumption DEF StartupAssumption
    <3>. QED
      BY <1>00, <2>1, <3>1
  <2>3. UNCHANGED <<identity, launcher, step>>
    BY <1>28 DEF Administer, who
  <2>4. ASSUME NEW k \in Launches, Checked(k)'  PROVE InReach(k)'
    <3>1. Reaches(identity[k], fs, RunDirs, 3) /\ identity'[k] = identity[k]
      BY <2>3, <2>4 DEF Searches, Checked, InReach
    <3>2. fs["run"].kind = "dir" /\ Grants(identity[k], fs["run"], "x")
      <4>1. 1 \in 1 .. 3 - 1
        OBVIOUS
      <4>. QED
        BY <3>1, <4>1, RunDirsAre DEF Reaches
    <3>3. Grants(identity[k], d, "x")
      BY DEF LeavesSearchable
    <3>4. \A j \in 1 .. 3 - 1 : /\ fs'[RunDirs[j]].kind = "dir"
                               /\ Grants(identity[k], fs'[RunDirs[j]], "x")
      <4>1. \A j \in 1 .. 3 - 1 : j = 1 \/ j = 2
        OBVIOUS
      <4>. QED
        BY <2>2, <3>2, <3>3, <4>1, RunDirsAre
    <3>5. Reaches(identity[k], fs', RunDirs, 3)
      BY <3>4 DEF Reaches
    <3>. QED
      BY <3>1, <3>5 DEF InReach
  <2>. QED
    BY <2>4 DEF Searches
<1>29. ASSUME UNCHANGED startupVars  PROVE Stays
  BY <1>29 DEF startupVars, who, world, Checked
<1>30. Stays => Searches'
  <2> HIDE DEF Inv, StartupTypeOK
  <2>. QED  BY SearchesStay
<1>31. NoneYet => Searches'
  BY DEF Searches
<1>. QED
  <2> HIDE DEF Stays, NoneYet, Inv, StartupTypeOK
  <2>. QED
    BY <1>1, <1>2, <1>3, <1>4, <1>5, <1>6, <1>7, <1>8, <1>9, <1>10, <1>11, <1>12,
       <1>13, <1>14, <1>15, <1>16, <1>17, <1>18, <1>19, <1>20, <1>21, <1>22, <1>23,
       <1>24, <1>25, <1>26, <1>27, <1>28, <1>29, <1>30, <1>31 DEF StartupNext,
       LauncherNext, LoadNext, DaemonFiles

(* Every step on the files is one that Launch allows, so what is proved of  *)
(* Launch - one daemon, its lock file, its pid file - holds whatever owners *)
(* and rights the files have, as long as nobody closes the directory to a   *)
(* launch between its checks and its look at the lock file.                 *)
THEOREM LaunchImplemented ==
  ASSUME LeavesSearchable
  PROVE  StartupSpec => ImplementsLaunch
<1>1. StartupInit => Searches
  BY DEF StartupInit, Searches, Checked
<1>2. Inv /\ Searches /\ [StartupNext]_startupVars => Searches'
  BY SearchesNext
<1>3. Inv /\ Searches /\ [StartupNext]_startupVars => [L!LaunchNext]_(L!launchVars)
  BY RefineNext
<1>. QED
  BY <1>1, <1>2, <1>3, RefineInit, InvAlways, PTL
  DEF StartupSpec, ImplementsLaunch, L!LaunchSpec
=============================================================================
