-------------------------- MODULE SupervisorProofs --------------------------
(***************************************************************************)
(* The safety of the supervisor for any limits, any number of children and *)
(* any latencies: one engine process at a time, none left behind; a child  *)
(* still in its boot is never taken for a live one; the watchdog kills     *)
(* only what stood still; the tries are bounded.                           *)
(***************************************************************************)
EXTENDS Supervisor, TLAPS

NoChild == {"unstarted", "setup", "spawn", "reset", "fork", "unmap", "free", "freed"}

\* The processes are numbered as they are spawned, and all but the supervisor's child are reaped.
ProcInv ==
    /\ pid = NoPid <=> sup \in NoChild
    /\ pid # NoPid => pid = children /\ proc[pid] \in Running \cup {"zombie"}
    /\ \A p \in Pids : p > children => proc[p] = "none"
    /\ \A p \in Pids : p <= children /\ p # pid => proc[p] = "gone"

\* No process can store a phase between the reset and the spawn, so the child starts from Spawning.
PhaseInv ==
    /\ sup \in {"reset", "fork"} => phase # "Ready"
    /\ NoEarlyReady

\* Every try that did not lead to a healthy child has been counted as a failure, but for the one running.
TriesInv ==
    /\ sup \in {"reset", "fork", "publish", "watch", "kill"} => failures < kMaxQuickFailures /\ ~gaveUp
    /\ sup \in {"unstarted", "setup", "spawn", "reset", "fork"} /\ ~gaveUp => tries <= failures
    /\ sup \in {"publish", "watch", "kill"} => tries <= failures + 1
    /\ TriesBounded

\* stalledPolls counts polls without a heartbeat, unless the child has moved since the last.
StallInv ==
    sup = "watch" =>
        /\ stalledPolls < kStallPolls /\ bootPolls < kBootTimeoutPolls
        /\ stalledPolls <= quiet \/ beat
        /\ phase # "Ready" => stalledPolls = 0

SInv == TypeOK /\ ProcInv /\ PhaseInv /\ TriesInv /\ StallInv

-----------------------------------------------------------------------------
LEMMA InitSInv == Init => SInv
  <1> SUFFICES ASSUME Init PROVE SInv
    OBVIOUS
  <1> USE SupervisorAssumption DEF Init
  <1>1. FlagsTypeOK /\ DataTypeOK
    BY DEF FlagsTypeOK, DataTypeOK, Phase
  <1>2. ProcTypeOK /\ CountTypeOK
    BY DEF ProcTypeOK, CountTypeOK, Pids, NoPid, Running
  <1>3. ProcInv /\ PhaseInv
    BY DEF ProcInv, PhaseInv, NoEarlyReady, NoChild, Pids, NoPid
  <1>4. TriesInv /\ StallInv
    BY DEF TriesInv, TriesBounded, StallInv
  <1> QED
    BY <1>1, <1>2, <1>3, <1>4 DEF SInv, TypeOK

\* A process that is neither unborn nor reaped is the supervisor's child.
LEMMA OnlyChild == SInv => \A p \in Pids : proc[p] \notin {"none", "gone"} => p = pid
  BY SupervisorAssumption DEF SInv, TypeOK, ProcTypeOK, ProcInv, Pids, NoPid

LEMMA NextFlags == SInv /\ [Next]_vars => FlagsTypeOK'
  <1> SUFFICES ASSUME SInv, [Next]_vars PROVE FlagsTypeOK'
    OBVIOUS
  <1> USE SupervisorAssumption DEF SInv, TypeOK, FlagsTypeOK, hostVars, segVars, childVars, countVars
  <1>1. ASSUME Advance \/ SetSegDepth \/ Destroy PROVE FlagsTypeOK'
    BY <1>1 DEF Advance, SetSegDepth, Destroy
  <1>2. ASSUME NEW d \in Depths, SetDepth(d) PROVE FlagsTypeOK'
    BY <1>2 DEF SetDepth
  <1>3. ASSUME NEW p \in Pids, Load(p) \/ Prewarm(p) \/ Ready(p) \/ BootFails(p) PROVE FlagsTypeOK'
    <2>1. p = pid
      BY <1>3, OnlyChild DEF Load, Prewarm, Ready, BootFails, fail, Become
    <2> QED
      BY <1>3, <2>1 DEF Load, Prewarm, Ready, BootFails, fail, Become
  <1>4. ASSUME NEW p \in Pids, Exit(p) \/ BootExits(p) \/ Crash(p) \/ Hang(p) PROVE FlagsTypeOK'
    <2>1. p = pid
      BY <1>4, OnlyChild DEF Exit, BootExits, Crash, Hang, Become
    <2> QED
      BY <1>4, <2>1 DEF Exit, BootExits, Crash, Hang, Become
  <1>5. ASSUME NEW p \in Pids, Iterate(p) PROVE FlagsTypeOK'
    <2>1. p = pid
      BY <1>5, OnlyChild DEF Iterate
    <2> QED
      BY <1>5, <2>1 DEF Iterate
  <1>6. ASSUME Upload \/ AwaitOsFile \/ SetUp \/ SetUpFails \/ GiveUp PROVE FlagsTypeOK'
    BY <1>6 DEF Upload, AwaitOsFile, SetUp, SetUpFails, GiveUp
  <1>7. ASSUME Reset \/ ResetDepth PROVE FlagsTypeOK'
    BY <1>7 DEF Reset, ResetDepth, Exhausted
  <1>8. ASSUME SpawnChild PROVE FlagsTypeOK'
    BY <1>8 DEF SpawnChild, CanLose
  <1>9. ASSUME SpawnFails \/ Publish PROVE FlagsTypeOK'
    BY <1>9 DEF SpawnFails, Publish
  <1>10. ASSUME PollReaps PROVE FlagsTypeOK'
    BY <1>10 DEF PollReaps, describeExit
  <1>11. ASSUME PollBooting PROVE FlagsTypeOK'
    BY <1>11 DEF PollBooting, Polls, Hung, NotHung
  <1>12. ASSUME PollStalled PROVE FlagsTypeOK'
    BY <1>12 DEF PollStalled, Polls, Hung, NotHung, Quieter
  <1>13. ASSUME PollFine PROVE FlagsTypeOK'
    BY <1>13 DEF PollFine, Polls, NotHung, Quieter
  <1>14. ASSUME Kill \/ Collect PROVE FlagsTypeOK'
    BY <1>14 DEF Kill, Collect
  <1>15. ASSUME Leave \/ Unmap \/ Free PROVE FlagsTypeOK'
    BY <1>15 DEF Leave, Unmap, Free
  <1>16. CASE UNCHANGED vars
    BY <1>16 DEF vars
  <1> QED
    BY <1>1, <1>2, <1>3, <1>4, <1>5, <1>6, <1>7, <1>8, <1>9, <1>10, <1>11, <1>12, <1>13, <1>14,
       <1>15, <1>16
    DEF Next, Host, Boots, Loops, Faults, Watch, Spawn, End

LEMMA NextData == SInv /\ [Next]_vars => DataTypeOK'
  <1> SUFFICES ASSUME SInv, [Next]_vars PROVE DataTypeOK'
    OBVIOUS
  <1> USE SupervisorAssumption DEF SInv, TypeOK, DataTypeOK, Phase, hostVars, segVars, childVars, countVars
  <1>1. ASSUME Advance \/ SetSegDepth \/ Destroy PROVE DataTypeOK'
    BY <1>1 DEF Advance, SetSegDepth, Destroy
  <1>2. ASSUME NEW d \in Depths, SetDepth(d) PROVE DataTypeOK'
    BY <1>2 DEF SetDepth
  <1>3. ASSUME NEW p \in Pids, Load(p) \/ Prewarm(p) \/ Ready(p) \/ BootFails(p) PROVE DataTypeOK'
    <2>1. p = pid
      BY <1>3, OnlyChild DEF Load, Prewarm, Ready, BootFails, fail, Become
    <2> QED
      BY <1>3, <2>1 DEF Load, Prewarm, Ready, BootFails, fail, Become
  <1>4. ASSUME NEW p \in Pids, Exit(p) \/ BootExits(p) \/ Crash(p) \/ Hang(p) PROVE DataTypeOK'
    <2>1. p = pid
      BY <1>4, OnlyChild DEF Exit, BootExits, Crash, Hang, Become
    <2> QED
      BY <1>4, <2>1 DEF Exit, BootExits, Crash, Hang, Become
  <1>5. ASSUME NEW p \in Pids, Iterate(p) PROVE DataTypeOK'
    <2>1. p = pid
      BY <1>5, OnlyChild DEF Iterate
    <2> QED
      BY <1>5, <2>1 DEF Iterate
  <1>6. ASSUME Upload \/ AwaitOsFile \/ SetUp \/ SetUpFails \/ GiveUp PROVE DataTypeOK'
    BY <1>6 DEF Upload, AwaitOsFile, SetUp, SetUpFails, GiveUp
  <1>7. ASSUME Reset \/ ResetDepth PROVE DataTypeOK'
    BY <1>7 DEF Reset, ResetDepth, Exhausted
  <1>8. ASSUME SpawnChild PROVE DataTypeOK'
    BY <1>8 DEF SpawnChild, CanLose
  <1>9. ASSUME SpawnFails \/ Publish PROVE DataTypeOK'
    BY <1>9 DEF SpawnFails, Publish
  <1>10. ASSUME PollReaps PROVE DataTypeOK'
    BY <1>10 DEF PollReaps, describeExit
  <1>11. ASSUME PollBooting PROVE DataTypeOK'
    BY <1>11 DEF PollBooting, Polls, Hung, NotHung
  <1>12. ASSUME PollStalled PROVE DataTypeOK'
    BY <1>12 DEF PollStalled, Polls, Hung, NotHung, Quieter
  <1>13. ASSUME PollFine PROVE DataTypeOK'
    BY <1>13 DEF PollFine, Polls, NotHung, Quieter
  <1>14. ASSUME Kill \/ Collect PROVE DataTypeOK'
    BY <1>14 DEF Kill, Collect
  <1>15. ASSUME Leave \/ Unmap \/ Free PROVE DataTypeOK'
    BY <1>15 DEF Leave, Unmap, Free
  <1>16. CASE UNCHANGED vars
    BY <1>16 DEF vars
  <1> QED
    BY <1>1, <1>2, <1>3, <1>4, <1>5, <1>6, <1>7, <1>8, <1>9, <1>10, <1>11, <1>12, <1>13, <1>14,
       <1>15, <1>16
    DEF Next, Host, Boots, Loops, Faults, Watch, Spawn, End

LEMMA NextProcType == SInv /\ [Next]_vars => ProcTypeOK'
  <1> SUFFICES ASSUME SInv, [Next]_vars PROVE ProcTypeOK'
    OBVIOUS
  <1> USE SupervisorAssumption DEF SInv, TypeOK, ProcTypeOK, ProcInv, NoChild, Pids, NoPid,
          Running, hostVars, segVars, childVars, countVars
  <1>1. ASSUME Advance \/ SetSegDepth \/ Destroy PROVE ProcTypeOK'
    BY <1>1 DEF Advance, SetSegDepth, Destroy
  <1>2. ASSUME NEW d \in Depths, SetDepth(d) PROVE ProcTypeOK'
    BY <1>2 DEF SetDepth
  <1>3. ASSUME NEW p \in Pids, Load(p) \/ Prewarm(p) \/ Ready(p) \/ BootFails(p) PROVE ProcTypeOK'
    <2>1. p = pid
      BY <1>3, OnlyChild DEF Load, Prewarm, Ready, BootFails, fail, Become
    <2> QED
      BY <1>3, <2>1 DEF Load, Prewarm, Ready, BootFails, fail, Become
  <1>4. ASSUME NEW p \in Pids, Exit(p) \/ BootExits(p) \/ Crash(p) \/ Hang(p) PROVE ProcTypeOK'
    <2>1. p = pid
      BY <1>4, OnlyChild DEF Exit, BootExits, Crash, Hang, Become
    <2> QED
      BY <1>4, <2>1 DEF Exit, BootExits, Crash, Hang, Become
  <1>5. ASSUME NEW p \in Pids, Iterate(p) PROVE ProcTypeOK'
    <2>1. p = pid
      BY <1>5, OnlyChild DEF Iterate
    <2> QED
      BY <1>5, <2>1 DEF Iterate
  <1>6. ASSUME Upload \/ AwaitOsFile \/ SetUp \/ SetUpFails \/ GiveUp PROVE ProcTypeOK'
    BY <1>6 DEF Upload, AwaitOsFile, SetUp, SetUpFails, GiveUp
  <1>7. ASSUME Reset \/ ResetDepth PROVE ProcTypeOK'
    BY <1>7 DEF Reset, ResetDepth, Exhausted
  <1>8. ASSUME SpawnChild PROVE ProcTypeOK'
    BY <1>8 DEF SpawnChild, CanLose
  <1>9. ASSUME SpawnFails \/ Publish PROVE ProcTypeOK'
    BY <1>9 DEF SpawnFails, Publish
  <1>10. ASSUME PollReaps PROVE ProcTypeOK'
    BY <1>10 DEF PollReaps, describeExit
  <1>11. ASSUME PollBooting PROVE ProcTypeOK'
    BY <1>11 DEF PollBooting, Polls, Hung, NotHung
  <1>12. ASSUME PollStalled PROVE ProcTypeOK'
    BY <1>12 DEF PollStalled, Polls, Hung, NotHung, Quieter
  <1>13. ASSUME PollFine PROVE ProcTypeOK'
    BY <1>13 DEF PollFine, Polls, NotHung, Quieter
  <1>14. ASSUME Kill \/ Collect PROVE ProcTypeOK'
    BY <1>14 DEF Kill, Collect
  <1>15. ASSUME Leave \/ Unmap \/ Free PROVE ProcTypeOK'
    BY <1>15 DEF Leave, Unmap, Free
  <1>16. CASE UNCHANGED vars
    BY <1>16 DEF vars
  <1> QED
    BY <1>1, <1>2, <1>3, <1>4, <1>5, <1>6, <1>7, <1>8, <1>9, <1>10, <1>11, <1>12, <1>13, <1>14,
       <1>15, <1>16
    DEF Next, Host, Boots, Loops, Faults, Watch, Spawn, End

LEMMA NextCountType == SInv /\ [Next]_vars => CountTypeOK'
  <1> SUFFICES ASSUME SInv, [Next]_vars PROVE CountTypeOK'
    OBVIOUS
  <1> USE SupervisorAssumption DEF SInv, TypeOK, CountTypeOK, TriesInv, StallInv, hostVars,
          segVars, childVars, countVars
  <1>1. ASSUME Advance \/ SetSegDepth \/ Destroy PROVE CountTypeOK'
    BY <1>1 DEF Advance, SetSegDepth, Destroy
  <1>2. ASSUME NEW d \in Depths, SetDepth(d) PROVE CountTypeOK'
    BY <1>2 DEF SetDepth
  <1>3. ASSUME NEW p \in Pids, Load(p) \/ Prewarm(p) \/ Ready(p) \/ BootFails(p) PROVE CountTypeOK'
    <2>1. p = pid
      BY <1>3, OnlyChild DEF Load, Prewarm, Ready, BootFails, fail, Become
    <2> QED
      BY <1>3, <2>1 DEF Load, Prewarm, Ready, BootFails, fail, Become
  <1>4. ASSUME NEW p \in Pids, Exit(p) \/ BootExits(p) \/ Crash(p) \/ Hang(p) PROVE CountTypeOK'
    <2>1. p = pid
      BY <1>4, OnlyChild DEF Exit, BootExits, Crash, Hang, Become
    <2> QED
      BY <1>4, <2>1 DEF Exit, BootExits, Crash, Hang, Become
  <1>5. ASSUME NEW p \in Pids, Iterate(p) PROVE CountTypeOK'
    <2>1. p = pid
      BY <1>5, OnlyChild DEF Iterate
    <2> QED
      BY <1>5, <2>1 DEF Iterate
  <1>6. ASSUME Upload \/ AwaitOsFile \/ SetUp \/ SetUpFails \/ GiveUp PROVE CountTypeOK'
    BY <1>6 DEF Upload, AwaitOsFile, SetUp, SetUpFails, GiveUp
  <1>7. ASSUME Reset \/ ResetDepth PROVE CountTypeOK'
    BY <1>7 DEF Reset, ResetDepth, Exhausted
  <1>8. ASSUME SpawnChild PROVE CountTypeOK'
    BY <1>8 DEF SpawnChild, CanLose
  <1>9. ASSUME SpawnFails \/ Publish PROVE CountTypeOK'
    BY <1>9 DEF SpawnFails, Publish
  <1>10. ASSUME PollReaps PROVE CountTypeOK'
    BY <1>10 DEF PollReaps, describeExit
  <1>11. ASSUME PollBooting PROVE CountTypeOK'
    BY <1>11 DEF PollBooting, Polls, Hung, NotHung
  <1>12. ASSUME PollStalled PROVE CountTypeOK'
    BY <1>12 DEF PollStalled, Polls, Hung, NotHung, Quieter
  <1>13. ASSUME PollFine PROVE CountTypeOK'
    BY <1>13 DEF PollFine, Polls, NotHung, Quieter
  <1>14. ASSUME Kill \/ Collect PROVE CountTypeOK'
    BY <1>14 DEF Kill, Collect
  <1>15. ASSUME Leave \/ Unmap \/ Free PROVE CountTypeOK'
    BY <1>15 DEF Leave, Unmap, Free
  <1>16. CASE UNCHANGED vars
    BY <1>16 DEF vars
  <1> QED
    BY <1>1, <1>2, <1>3, <1>4, <1>5, <1>6, <1>7, <1>8, <1>9, <1>10, <1>11, <1>12, <1>13, <1>14,
       <1>15, <1>16
    DEF Next, Host, Boots, Loops, Faults, Watch, Spawn, End

LEMMA NextProcInv == SInv /\ [Next]_vars => ProcInv'
  <1> SUFFICES ASSUME SInv, [Next]_vars PROVE ProcInv'
    OBVIOUS
  <1> USE SupervisorAssumption DEF SInv, TypeOK, ProcTypeOK, CountTypeOK, ProcInv, NoChild, Pids,
          NoPid, Running, hostVars, segVars, childVars, countVars
  <1>1. ASSUME Advance \/ SetSegDepth \/ Destroy PROVE ProcInv'
    BY <1>1 DEF Advance, SetSegDepth, Destroy
  <1>2. ASSUME NEW d \in Depths, SetDepth(d) PROVE ProcInv'
    BY <1>2 DEF SetDepth
  <1>3. ASSUME NEW p \in Pids, Load(p) \/ Prewarm(p) \/ Ready(p) \/ BootFails(p) PROVE ProcInv'
    <2>1. p = pid
      BY <1>3, OnlyChild DEF Load, Prewarm, Ready, BootFails, fail, Become
    <2> QED
      BY <1>3, <2>1 DEF Load, Prewarm, Ready, BootFails, fail, Become
  <1>4. ASSUME NEW p \in Pids, Exit(p) \/ BootExits(p) \/ Crash(p) \/ Hang(p) PROVE ProcInv'
    <2>1. p = pid
      BY <1>4, OnlyChild DEF Exit, BootExits, Crash, Hang, Become
    <2> QED
      BY <1>4, <2>1 DEF Exit, BootExits, Crash, Hang, Become
  <1>5. ASSUME NEW p \in Pids, Iterate(p) PROVE ProcInv'
    <2>1. p = pid
      BY <1>5, OnlyChild DEF Iterate
    <2> QED
      BY <1>5, <2>1 DEF Iterate
  <1>6. ASSUME Upload \/ AwaitOsFile \/ SetUp \/ SetUpFails \/ GiveUp PROVE ProcInv'
    BY <1>6 DEF Upload, AwaitOsFile, SetUp, SetUpFails, GiveUp
  <1>7. ASSUME Reset \/ ResetDepth PROVE ProcInv'
    BY <1>7 DEF Reset, ResetDepth, Exhausted
  <1>8. ASSUME SpawnChild PROVE ProcInv'
    BY <1>8 DEF SpawnChild, CanLose
  <1>9. ASSUME SpawnFails \/ Publish PROVE ProcInv'
    BY <1>9 DEF SpawnFails, Publish
  <1>10. ASSUME PollReaps PROVE ProcInv'
    BY <1>10 DEF PollReaps, describeExit
  <1>11. ASSUME PollBooting PROVE ProcInv'
    BY <1>11 DEF PollBooting, Polls, Hung, NotHung
  <1>12. ASSUME PollStalled PROVE ProcInv'
    BY <1>12 DEF PollStalled, Polls, Hung, NotHung, Quieter
  <1>13. ASSUME PollFine PROVE ProcInv'
    BY <1>13 DEF PollFine, Polls, NotHung, Quieter
  <1>14. ASSUME Kill \/ Collect PROVE ProcInv'
    BY <1>14 DEF Kill, Collect
  <1>15. ASSUME Leave \/ Unmap \/ Free PROVE ProcInv'
    BY <1>15 DEF Leave, Unmap, Free
  <1>16. CASE UNCHANGED vars
    BY <1>16 DEF vars
  <1> QED
    BY <1>1, <1>2, <1>3, <1>4, <1>5, <1>6, <1>7, <1>8, <1>9, <1>10, <1>11, <1>12, <1>13, <1>14,
       <1>15, <1>16
    DEF Next, Host, Boots, Loops, Faults, Watch, Spawn, End

LEMMA NextPhaseInv == SInv /\ [Next]_vars => PhaseInv'
  <1> SUFFICES ASSUME SInv, [Next]_vars PROVE PhaseInv'
    OBVIOUS
  <1> USE SupervisorAssumption DEF SInv, TypeOK, ProcTypeOK, CountTypeOK, ProcInv, PhaseInv,
          NoEarlyReady, NoChild, Pids, NoPid, Running, hostVars, segVars, childVars, countVars
  <1>1. ASSUME Advance \/ SetSegDepth \/ Destroy PROVE PhaseInv'
    BY <1>1 DEF Advance, SetSegDepth, Destroy
  <1>2. ASSUME NEW d \in Depths, SetDepth(d) PROVE PhaseInv'
    BY <1>2 DEF SetDepth
  <1>3. ASSUME NEW p \in Pids, Load(p) \/ Prewarm(p) \/ Ready(p) \/ BootFails(p) PROVE PhaseInv'
    <2>1. p = pid
      BY <1>3, OnlyChild DEF Load, Prewarm, Ready, BootFails, fail, Become
    <2> QED
      BY <1>3, <2>1 DEF Load, Prewarm, Ready, BootFails, fail, Become
  <1>4. ASSUME NEW p \in Pids, Exit(p) \/ BootExits(p) \/ Crash(p) \/ Hang(p) PROVE PhaseInv'
    <2>1. p = pid
      BY <1>4, OnlyChild DEF Exit, BootExits, Crash, Hang, Become
    <2> QED
      BY <1>4, <2>1 DEF Exit, BootExits, Crash, Hang, Become
  <1>5. ASSUME NEW p \in Pids, Iterate(p) PROVE PhaseInv'
    <2>1. p = pid
      BY <1>5, OnlyChild DEF Iterate
    <2> QED
      BY <1>5, <2>1 DEF Iterate
  <1>6. ASSUME Upload \/ AwaitOsFile \/ SetUp \/ SetUpFails \/ GiveUp PROVE PhaseInv'
    BY <1>6 DEF Upload, AwaitOsFile, SetUp, SetUpFails, GiveUp
  <1>7. ASSUME Reset \/ ResetDepth PROVE PhaseInv'
    BY <1>7 DEF Reset, ResetDepth, Exhausted
  <1>8. ASSUME SpawnChild PROVE PhaseInv'
    BY <1>8 DEF SpawnChild, CanLose
  <1>9. ASSUME SpawnFails \/ Publish PROVE PhaseInv'
    BY <1>9 DEF SpawnFails, Publish
  <1>10. ASSUME PollReaps PROVE PhaseInv'
    BY <1>10 DEF PollReaps, describeExit
  <1>11. ASSUME PollBooting PROVE PhaseInv'
    BY <1>11 DEF PollBooting, Polls, Hung, NotHung
  <1>12. ASSUME PollStalled PROVE PhaseInv'
    BY <1>12 DEF PollStalled, Polls, Hung, NotHung, Quieter
  <1>13. ASSUME PollFine PROVE PhaseInv'
    BY <1>13 DEF PollFine, Polls, NotHung, Quieter
  <1>14. ASSUME Kill \/ Collect PROVE PhaseInv'
    BY <1>14 DEF Kill, Collect
  <1>15. ASSUME Leave \/ Unmap \/ Free PROVE PhaseInv'
    BY <1>15 DEF Leave, Unmap, Free
  <1>16. CASE UNCHANGED vars
    BY <1>16 DEF vars
  <1> QED
    BY <1>1, <1>2, <1>3, <1>4, <1>5, <1>6, <1>7, <1>8, <1>9, <1>10, <1>11, <1>12, <1>13, <1>14,
       <1>15, <1>16
    DEF Next, Host, Boots, Loops, Faults, Watch, Spawn, End

LEMMA NextTriesInv == SInv /\ [Next]_vars => TriesInv'
  <1> SUFFICES ASSUME SInv, [Next]_vars PROVE TriesInv'
    OBVIOUS
  <1> USE SupervisorAssumption DEF SInv, TypeOK, FlagsTypeOK, ProcTypeOK, CountTypeOK, ProcInv,
          TriesInv, TriesBounded, NoChild, NoPid, hostVars, segVars, childVars, countVars
  <1>1. ASSUME Advance \/ SetSegDepth \/ Destroy PROVE TriesInv'
    BY <1>1 DEF Advance, SetSegDepth, Destroy
  <1>2. ASSUME NEW d \in Depths, SetDepth(d) PROVE TriesInv'
    BY <1>2 DEF SetDepth
  <1>3. ASSUME NEW p \in Pids, Load(p) \/ Prewarm(p) \/ Ready(p) \/ BootFails(p) PROVE TriesInv'
    <2>1. p = pid
      BY <1>3, OnlyChild DEF Load, Prewarm, Ready, BootFails, fail, Become
    <2> QED
      BY <1>3, <2>1 DEF Load, Prewarm, Ready, BootFails, fail, Become
  <1>4. ASSUME NEW p \in Pids, Exit(p) \/ BootExits(p) \/ Crash(p) \/ Hang(p) PROVE TriesInv'
    <2>1. p = pid
      BY <1>4, OnlyChild DEF Exit, BootExits, Crash, Hang, Become
    <2> QED
      BY <1>4, <2>1 DEF Exit, BootExits, Crash, Hang, Become
  <1>5. ASSUME NEW p \in Pids, Iterate(p) PROVE TriesInv'
    <2>1. p = pid
      BY <1>5, OnlyChild DEF Iterate
    <2> QED
      BY <1>5, <2>1 DEF Iterate
  <1>6. ASSUME Upload \/ AwaitOsFile \/ SetUp \/ SetUpFails \/ GiveUp PROVE TriesInv'
    BY <1>6 DEF Upload, AwaitOsFile, SetUp, SetUpFails, GiveUp
  <1>7. ASSUME Reset \/ ResetDepth PROVE TriesInv'
    BY <1>7 DEF Reset, ResetDepth, Exhausted
  <1>8. ASSUME SpawnChild PROVE TriesInv'
    BY <1>8 DEF SpawnChild, CanLose
  <1>9. ASSUME SpawnFails \/ Publish PROVE TriesInv'
    BY <1>9 DEF SpawnFails, Publish
  <1>10. ASSUME PollReaps PROVE TriesInv'
    BY <1>10 DEF PollReaps, describeExit
  <1>11. ASSUME PollBooting PROVE TriesInv'
    BY <1>11 DEF PollBooting, Polls, Hung, NotHung
  <1>12. ASSUME PollStalled PROVE TriesInv'
    BY <1>12 DEF PollStalled, Polls, Hung, NotHung, Quieter
  <1>13. ASSUME PollFine PROVE TriesInv'
    BY <1>13 DEF PollFine, Polls, NotHung, Quieter
  <1>14. ASSUME Kill \/ Collect PROVE TriesInv'
    BY <1>14 DEF Kill, Collect
  <1>15. ASSUME Leave \/ Unmap \/ Free PROVE TriesInv'
    BY <1>15 DEF Leave, Unmap, Free
  <1>16. CASE UNCHANGED vars
    BY <1>16 DEF vars
  <1> QED
    BY <1>1, <1>2, <1>3, <1>4, <1>5, <1>6, <1>7, <1>8, <1>9, <1>10, <1>11, <1>12, <1>13, <1>14,
       <1>15, <1>16
    DEF Next, Host, Boots, Loops, Faults, Watch, Spawn, End

LEMMA NextStallInv == SInv /\ [Next]_vars => StallInv'
  <1> SUFFICES ASSUME SInv, [Next]_vars PROVE StallInv'
    OBVIOUS
  <1> USE SupervisorAssumption DEF SInv, TypeOK, FlagsTypeOK, ProcTypeOK, CountTypeOK, ProcInv,
          PhaseInv, NoEarlyReady, StallInv, NoChild, Pids, NoPid, Running, hostVars, segVars,
          childVars, countVars
  <1>1. ASSUME Advance \/ SetSegDepth \/ Destroy PROVE StallInv'
    BY <1>1 DEF Advance, SetSegDepth, Destroy
  <1>2. ASSUME NEW d \in Depths, SetDepth(d) PROVE StallInv'
    BY <1>2 DEF SetDepth
  <1>3. ASSUME NEW p \in Pids, Load(p) \/ Prewarm(p) \/ Ready(p) \/ BootFails(p) PROVE StallInv'
    <2>1. p = pid
      BY <1>3, OnlyChild DEF Load, Prewarm, Ready, BootFails, fail, Become
    <2> QED
      BY <1>3, <2>1 DEF Load, Prewarm, Ready, BootFails, fail, Become
  <1>4. ASSUME NEW p \in Pids, Exit(p) \/ BootExits(p) \/ Crash(p) \/ Hang(p) PROVE StallInv'
    <2>1. p = pid
      BY <1>4, OnlyChild DEF Exit, BootExits, Crash, Hang, Become
    <2> QED
      BY <1>4, <2>1 DEF Exit, BootExits, Crash, Hang, Become
  <1>5. ASSUME NEW p \in Pids, Iterate(p) PROVE StallInv'
    <2>1. p = pid
      BY <1>5, OnlyChild DEF Iterate
    <2> QED
      BY <1>5, <2>1 DEF Iterate
  <1>6. ASSUME Upload \/ AwaitOsFile \/ SetUp \/ SetUpFails \/ GiveUp PROVE StallInv'
    BY <1>6 DEF Upload, AwaitOsFile, SetUp, SetUpFails, GiveUp
  <1>7. ASSUME Reset \/ ResetDepth PROVE StallInv'
    BY <1>7 DEF Reset, ResetDepth, Exhausted
  <1>8. ASSUME SpawnChild PROVE StallInv'
    BY <1>8 DEF SpawnChild, CanLose
  <1>9. ASSUME SpawnFails \/ Publish PROVE StallInv'
    BY <1>9 DEF SpawnFails, Publish
  <1>10. ASSUME PollReaps PROVE StallInv'
    BY <1>10 DEF PollReaps, describeExit
  <1>11. ASSUME PollBooting PROVE StallInv'
    BY <1>11 DEF PollBooting, Polls, Hung, NotHung
  <1>12. ASSUME PollStalled PROVE StallInv'
    BY <1>12 DEF PollStalled, Polls, Hung, NotHung, Quieter
  <1>13. ASSUME PollFine PROVE StallInv'
    BY <1>13 DEF PollFine, Polls, NotHung, Quieter
  <1>14. ASSUME Kill \/ Collect PROVE StallInv'
    BY <1>14 DEF Kill, Collect
  <1>15. ASSUME Leave \/ Unmap \/ Free PROVE StallInv'
    BY <1>15 DEF Leave, Unmap, Free
  <1>16. CASE UNCHANGED vars
    BY <1>16 DEF vars
  <1> QED
    BY <1>1, <1>2, <1>3, <1>4, <1>5, <1>6, <1>7, <1>8, <1>9, <1>10, <1>11, <1>12, <1>13, <1>14,
       <1>15, <1>16
    DEF Next, Host, Boots, Loops, Faults, Watch, Spawn, End

LEMMA NextSInv == SInv /\ [Next]_vars => SInv'
  BY NextFlags, NextData, NextProcType, NextCountType, NextProcInv, NextPhaseInv, NextTriesInv,
     NextStallInv
  DEF SInv, TypeOK

LEMMA SInvariant == Spec => []SInv
  BY InitSInv, NextSInv, PTL DEF Spec

-----------------------------------------------------------------------------
\* Every variable keeps its type, so no counter passes its limit.
THEOREM SupervisorTypeCorrect == Spec => []TypeOK
  BY SInvariant, PTL DEF SInv

\* supervise: never two engine processes, none left unreaped, none after the instance is freed.
THEOREM OneChildOnly == Spec => []OneChild
  <1>1. SInv => OneChild
    BY OnlyChild DEF OneChild, Running
  <1> QED
    BY <1>1, SInvariant, PTL

\* tick never takes a child that still boots for a live one.
THEOREM NeverReadyEarly == Spec => []NoEarlyReady
  BY SInvariant, PTL DEF SInv, PhaseInv

\* supervise: "consecutive failures before giving up" bounds the tries.
THEOREM TriesAreBounded == Spec => []TriesBounded
  BY SInvariant, PTL DEF SInv, TriesInv

\* The watchdog kills a Ready child only after kStallPolls polls without a heartbeat.
THEOREM KillsOnlyTheStalled == Spec => KillsOnlyStalled
  <1>1. SInv /\ [Next]_vars => (sup = "watch" /\ sup' = "kill" /\ phase = "Ready" => quiet' >= kStallPolls)
    <2> SUFFICES ASSUME SInv, [Next]_vars, sup = "watch", sup' = "kill", phase = "Ready"
                 PROVE  quiet' >= kStallPolls
      OBVIOUS
    <2>1. PollStalled
      BY DEF Next, Host, Boots, Loops, Faults, Watch, Spawn, End, Advance, SetSegDepth, Destroy,
         SetDepth,
         Load, Prewarm, Ready, BootFails, BootExits, Exit, Crash, Hang, Iterate, Upload, AwaitOsFile,
         SetUp, SetUpFails, GiveUp, Reset, ResetDepth,
         SpawnChild, SpawnFails, Publish, PollReaps, PollBooting, PollFine, NotHung, Kill, Collect, Leave,
         Unmap, Free, vars
    <2>2. stalledPolls' >= kStallPolls /\ stalledPolls' = stalledPolls + 1
      BY <2>1 DEF PollStalled, Polls, NotHung
    <2>3. stalledPolls <= quiet
      BY <2>1 DEF SInv, StallInv, PollStalled
    <2>4. stalledPolls + 1 >= kStallPolls /\ quiet' = Quieter
      BY <2>1, <2>2 DEF PollStalled
    <2> QED
      BY <2>3, <2>4, SupervisorAssumption DEF SInv, TypeOK, CountTypeOK, Quieter
  <1> QED
    BY <1>1, SInvariant, PTL DEF Spec, KillsOnlyStalled
=============================================================================
