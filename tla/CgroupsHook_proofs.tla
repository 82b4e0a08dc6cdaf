------------------------- MODULE CgroupsHook_proofs -------------------------
(***************************************************************************)
(* Theorems about CgroupsHook, for every set of jobs, CPUs and bounds, in  *)
(* six parts: its variables keep their types; no two cgroups share CPUs    *)
(* when mom does nothing else while the hook of a job runs in the          *)
(* foreground (ExclusiveInv); when the lists of local jobs can be read as  *)
(* well, a live job keeps its cgroup (LiveInv), and the hook implements    *)
(* the leases of CpuLease; without any of this, cgroup_jobs keeps no more  *)
(* entries of gone jobs than hooks were killed, and the hook that has the  *)
(* lock gets on to its end.                                                *)
(***************************************************************************)
EXTENDS CgroupsHook, TLAPS, FiniteSetTheorems

-----------------------------------------------------------------------------
(* Type correctness.                                                       *)

LEMMA DirsOfJobs == \A j \in Jobs: JobDir(j) \in Dirs /\ OrphanDir(j) \in Dirs
  BY DEF JobDir, OrphanDir, Dirs

LEMMA CountUp == \A m \in Nat: \A n \in 0..m: n < m => n + 1 \in 0..m
  OBVIOUS

LEMMA NoAttempt == 0 \in 0..2
  OBVIOUS

LEMMA InitType == Init => TypeOK
<1> SUFFICES ASSUME Init PROVE TypeOK
  OBVIOUS
<1>1. begins \in 0..MaxBegins /\ kills \in 0..MaxKills /\ attempt \in 0..2
  <2>1. begins = 0 /\ kills = 0 /\ attempt = 0
    BY DEF Init
  <2> QED
    BY <2>1, BoundsNat
<1>2. tasks \in [Dirs -> TaskStates] /\ cpus \in [Dirs -> SUBSET Cpus] /\ assigned \in [Dirs -> SUBSET Cpus]
  BY DEF Init, TaskStates
<1>3. job \in [Jobs -> Phases] /\ need \in [Jobs -> Sizes \cup {0}]
  BY DEF Init, Phases
<1>4. pc \in [Procs -> Labels] /\ event \in [Procs -> Events] /\ result \in [Procs -> Results]
  BY DEF Init, Labels, Events, Results
<1>5. vnode \in [Procs -> {"none", "offline", "online"}]
  BY DEF Init
<1> QED
  BY <1>1, <1>2, <1>3, <1>4, <1>5 DEF Init, TypeOK, KernelOK, FilesOK, VnodeOK, LocalsOK, ControlOK

LEMMA MomType == TypeOK /\ MomNext => TypeOK'
<1> SUFFICES ASSUME TypeOK, MomNext PROVE TypeOK'
  OBVIOUS
<1> USE DEF TypeOK, KernelOK, FilesOK, VnodeOK, LocalsOK, ControlOK, vars, kernel, files, server, mom, procs, locals, counts, Phases, Labels, Events, Results, TaskStates, Procs
<1>1. ASSUME NEW j \in Jobs, Arrive(j) PROVE TypeOK'
  <2>1. begins' \in 0..MaxBegins
    <3>1. begins \in 0..MaxBegins /\ begins < MaxBegins /\ begins' = begins + 1
      BY <1>1 DEF Arrive
    <3> QED
      BY <3>1, BoundsNat, CountUp
  <2>2. need' \in [Jobs -> Sizes \cup {0}]
    BY <1>1 DEF Arrive
  <2>3. /\ job' \in [Jobs -> Phases] /\ event' \in [Procs -> Events] /\ pc' \in [Procs -> Labels]
        /\ UNCHANGED <<result, vnode, lock, locals, kernel, files, server, kills, snapshot>>
    BY <1>1 DEF Arrive, StartHook
  <2>4. KernelOK' /\ FilesOK' /\ VnodeOK' /\ LocalsOK'
    BY <2>3
  <2>5. ControlOK'
    BY <2>1, <2>2, <2>3
  <2> QED
    BY <2>4, <2>5
<1>2. ASSUME NEW j \in Jobs, SaveJob(j) PROVE TypeOK'
  BY <1>2 DEF SaveJob
<1>3. ASSUME NEW j \in Jobs, Launch(j) \/ Attach(j) \/ Epilogue(j) \/ End(j) PROVE TypeOK'
  <2>1. PICK e \in Events, phase \in Phases: RunJobHook(j, phase, e)
    BY <1>3 DEF Launch, Attach, Epilogue, End, Events, Phases
  <2>2. /\ event' \in [Procs -> Events] /\ pc' \in [Procs -> Labels]
        /\ UNCHANGED <<result, vnode, lock, locals, kernel, files, server, counts, mom, snapshot>>
    BY <2>1 DEF RunJobHook, StartHook
  <2>3. KernelOK' /\ FilesOK' /\ VnodeOK' /\ LocalsOK'
    BY <2>2
  <2>4. ControlOK'
    BY <2>2
  <2> QED
    BY <2>3, <2>4
<1>4. ASSUME NEW j \in Jobs, Resize(j) PROVE TypeOK'
  BY <1>4 DEF Resize, StartHook
<1>5. ASSUME NEW j \in Jobs, Suspend(j) \/ Resume(j) PROVE TypeOK'
  <2>1. job' \in [Jobs -> Phases] /\ preempted' \subseteq Dirs
    <3>1. job' = [job EXCEPT ![j] = "suspended"] \/ job' = [job EXCEPT ![j] = "running"]
      BY <1>5 DEF Suspend, Resume
    <3>2. preempted' = preempted \cup {JobDir(j)} \/ preempted' = preempted
      BY <1>5 DEF Suspend, Resume
    <3>3. job' \in [Jobs -> Phases]
      BY <3>1
    <3>4. preempted' \subseteq Dirs
      <4>1. JobDir(j) \in Dirs /\ preempted \subseteq Dirs
        BY DirsOfJobs
      <4> HIDE DEF TypeOK
      <4> QED
        BY <3>2, <4>1
    <3> QED
      BY <3>3, <3>4
  <2>2. /\ need' = need /\ dirs' = dirs /\ cpus' = cpus /\ mems' = mems /\ tasks' = tasks
        /\ UNCHANGED <<files, server, lock, procs, snapshot, locals, counts>>
    BY <1>5 DEF Suspend, Resume
  <2>3. KernelOK'
    BY <2>1, <2>2
  <2>4. FilesOK' /\ VnodeOK' /\ LocalsOK'
    BY <2>2
  <2>5. ControlOK'
    BY <2>1, <2>2
  <2> QED
    BY <2>3, <2>4, <2>5
<1>6. ASSUME NEW j \in Jobs, JobExit(j) PROVE TypeOK'
  <2>1. tasks' \in [Dirs -> TaskStates] /\ job' \in [Jobs -> Phases]
    <3>1. job' = [job EXCEPT ![j] = "exiting"]
      BY <1>6 DEF JobExit
    <3>2. PICK t \in Leftovers: tasks' = [tasks EXCEPT ![JobDir(j)] = IF JobDir(j) \in dirs THEN t ELSE "none"]
      BY <1>6 DEF JobExit
    <3>3. tasks' \in [Dirs -> TaskStates]
      BY <3>2, LeftoversAreTasks
    <3> QED
      BY <3>1, <3>3
  <2>2. UNCHANGED <<need, dirs, cpus, mems, preempted, files, server, lock, procs, snapshot, locals, counts>>
    BY <1>6 DEF JobExit
  <2>3. KernelOK'
    BY <2>1, <2>2
  <2>4. FilesOK' /\ VnodeOK' /\ LocalsOK'
    BY <2>2
  <2>5. ControlOK'
    BY <2>1, <2>2
  <2> QED
    BY <2>3, <2>4, <2>5
<1>7. ASSUME NEW d \in Dirs, TaskExit(d) PROVE TypeOK'
  <2>1. tasks' \in [Dirs -> TaskStates]
    BY <1>7 DEF TaskExit
  <2>2. UNCHANGED <<dirs, cpus, mems, preempted, files, server, mom, lock, procs, snapshot, locals, counts>>
    BY <1>7 DEF TaskExit
  <2>3. KernelOK'
    BY <2>1, <2>2
  <2>4. FilesOK' /\ VnodeOK' /\ LocalsOK' /\ ControlOK'
    BY <2>2
  <2> QED
    BY <2>3, <2>4
<1>8. CASE Tick
  <2>1. snapshot' \subseteq Jobs
    BY <1>8 DEF Tick
  <2>2. StartHook(Periodic, "periodic") /\ UNCHANGED <<mom, begins>>
    BY <1>8 DEF Tick
  <2> QED
    BY <2>1, <2>2 DEF StartHook
<1>9. CASE AdminOffline \/ AdminOnline
  <2>1. /\ nodeState' \in {"free", "offline"} /\ nodeComment' \in {"", "hook", "admin"}
        /\ UNCHANGED <<kernel, files, mom, lock, procs, snapshot, locals, counts>>
    BY <1>9 DEF AdminOffline, AdminOnline
  <2>2. KernelOK' /\ FilesOK' /\ VnodeOK' /\ LocalsOK'
    BY <2>1
  <2>3. ControlOK'
    BY <2>1
  <2> QED
    BY <2>2, <2>3
<1> QED
  <2> HIDE DEF TypeOK, KernelOK, FilesOK, VnodeOK, LocalsOK, ControlOK, vars, kernel, files, server, mom, procs, locals, counts, Phases, Labels, Events, Results, TaskStates, Procs
  <2> QED
    BY <1>1, <1>2, <1>3, <1>4, <1>5, <1>6, <1>7, <1>8, <1>9 DEF MomNext

\* What the moves of the program counter keep.
LEMMA GoToControl ==
  ASSUME ControlOK, NEW p \in Procs, NEW l \in Labels, GoTo(p, l)
  PROVE  ControlOK'
<1>1. lock' \in Procs \cup {NoOne} /\ pc' \in [Procs -> Labels]
  BY DEF ControlOK, GoTo
<1> QED
  BY <1>1 DEF ControlOK, GoTo, server, mom, counts

LEMMA FinishControl ==
  ASSUME ControlOK, NEW p \in Procs, NEW r \in Results, Finish(p, r)
  PROVE  ControlOK' /\ LocalsOK'
<1>1. /\ lock' \in Procs \cup {NoOne}
      /\ pc' \in [Procs -> Labels]
      /\ result' \in [Procs -> Results]
  BY DEF ControlOK, Finish, Labels
<1>2. LocalsOK'
  <2>1. assigned' \in [Dirs -> SUBSET Cpus]
    BY DEF Finish
  <2>2. joblist' = {} /\ todo' = {} /\ attempt' = 0
    BY DEF Finish
  <2>3. attempt' \in 0..2
    BY <2>2
  <2>4. remaining' \in BOOLEAN
    BY Zenon DEF Finish
  <2> QED
    BY <2>1, <2>2, <2>3, <2>4 DEF LocalsOK
<1>3. ControlOK'
  BY <1>1 DEF ControlOK, Finish, server, mom, counts
<1> QED
  BY <1>2, <1>3

LEMMA AbortControl ==
  ASSUME ControlOK, NEW p \in Procs, Abort(p)
  PROVE  ControlOK' /\ LocalsOK'
  BY FinishControl DEF Abort, Results

LEMMA AssignedType == KernelOK => AssignedResources \in [Dirs -> SUBSET Cpus]
  BY DEF KernelOK, AssignedResources

\* Removing a directory keeps the types of all it may change.
LEMMA RemoveType ==
  ASSUME TypeOK, NEW p \in Procs, NEW d \in Dirs,
         RemoveTrue(d) \/ RemoveFalse(p, d) \/ RemoveRaises(d),
         UNCHANGED <<cgroupJobs, jb>>
  PROVE  KernelOK' /\ FilesOK' /\ VnodeOK'
<1>1. KernelOK'
  BY DEF TypeOK, KernelOK, kernel, RemoveTrue, RemoveFalse, RemoveRaises, Gone, RmdirBusy,
         TasksSurvive, TaskStates
<1>2. FilesOK' /\ VnodeOK'
  BY DEF TypeOK, FilesOK, VnodeOK, RemoveTrue, RemoveFalse, RemoveRaises
<1> QED
  BY <1>1, <1>2

LEMMA NextAttemptType ==
  ASSUME TypeOK, NEW p \in Procs, NextAttempt(p)
  PROVE  ControlOK' /\ LocalsOK'
<1>1. CASE attempt = 1
  <2>1. ControlOK'
    BY <1>1, GoToControl DEF NextAttempt, TypeOK, Labels
  <2>2. LocalsOK'
    BY <1>1 DEF NextAttempt, TypeOK, LocalsOK
  <2> QED
    BY <2>1, <2>2
<1>2. CASE attempt # 1
  BY <1>2, FinishControl DEF NextAttempt, TypeOK, Results
<1> QED
  BY <1>1, <1>2

LEMMA HookType == TypeOK /\ (\E p \in Procs: Acquire(p) \/ HookStep(p)) => TypeOK'
<1> SUFFICES ASSUME TypeOK, NEW p \in Procs, Acquire(p) \/ HookStep(p) PROVE TypeOK'
  OBVIOUS
<1> USE DirsOfJobs
<1>1. ASSUME Acquire(p) PROVE TypeOK'
  <2>1. KernelOK' /\ FilesOK' /\ VnodeOK'
    BY <1>1 DEF Acquire, TypeOK, KernelOK, FilesOK, VnodeOK, kernel, files
  <2>2. CASE Abort(p)
    BY <2>1, <2>2, AbortControl DEF TypeOK
  <2>3. CASE ~Abort(p)
    <3>1. LocalsOK'
      <4>1. assigned' \in [Dirs -> SUBSET Cpus]
        BY <1>1, <2>3, AssignedType DEF Acquire, TypeOK
      <4>2. joblist' \subseteq Jobs
        BY <1>1, <2>3 DEF Acquire, TypeOK, ControlOK, FilesOK, LocalJobs
      <4>3. attempt' \in {0, 1} /\ UNCHANGED <<todo, remaining>>
        BY <1>1, <2>3 DEF Acquire
      <4> QED
        BY <4>1, <4>2, <4>3 DEF TypeOK, LocalsOK
    <3>2. ControlOK'
      BY <1>1, <2>3 DEF Acquire, TypeOK, ControlOK, server, mom, counts, FirstLabel, Labels
    <3> QED
      BY <2>1, <3>1, <3>2 DEF TypeOK
  <2> QED
    BY <2>2, <2>3
<1>2. ASSUME p \in Jobs, Dequeue(p) PROVE TypeOK'
  <2>1. KernelOK' /\ FilesOK' /\ VnodeOK'
    BY <1>2 DEF Dequeue, TypeOK, KernelOK, FilesOK, VnodeOK, kernel
  <2>2. CASE AfterDequeue(p)
    <3>1. ControlOK'
      BY <2>2, GoToControl DEF AfterDequeue, TypeOK, Labels
    <3> QED
      BY <2>1, <2>2, <3>1 DEF AfterDequeue, TypeOK, LocalsOK, locals
  <2>3. CASE ~AfterDequeue(p)
    BY <1>2, <2>1, <2>3, AbortControl DEF Dequeue, TypeOK
  <2> QED
    BY <2>2, <2>3
<1>3. ASSUME p \in Jobs, AddPids(p) PROVE TypeOK'
  <2>1. ControlOK' /\ LocalsOK'
    BY <1>3, FinishControl DEF AddPids, TypeOK, Results
  <2> QED
    BY <1>3, <2>1 DEF AddPids, TypeOK, KernelOK, FilesOK, VnodeOK, files, TaskStates
<1>4. ASSUME p \in Jobs, Delete(p) PROVE TypeOK'
  <2>1. ASSUME AfterDelete(p) PROVE ControlOK' /\ LocalsOK'
    <3>1. CASE event[p] = "begin"
      BY <2>1, <3>1, GoToControl DEF AfterDelete, TypeOK, LocalsOK, locals, Labels
    <3>2. CASE event[p] # "begin"
      BY <2>1, <3>2, FinishControl DEF AfterDelete, TypeOK, Results
    <3> QED
      BY <3>1, <3>2
  <2>2. ControlOK' /\ LocalsOK'
    BY <1>4, <2>1, AbortControl DEF Delete, TypeOK
  <2>3. CASE JobDir(p) \notin dirs
    BY <1>4, <2>2, <2>3 DEF Delete, TypeOK, KernelOK, FilesOK, VnodeOK, kernel
  <2>4. CASE JobDir(p) \in dirs
    BY <1>4, <2>2, <2>4, RemoveType DEF Delete, TypeOK
  <2> QED
    BY <2>3, <2>4
<1>5. ASSUME p \in Jobs, CreateJob(p) PROVE TypeOK'
  <2>1. ControlOK'
    BY <1>5, GoToControl DEF CreateJob, TypeOK, Labels
  <2>2. LocalsOK'
    BY <1>5, AssignedType DEF CreateJob, TypeOK, LocalsOK
  <2> QED
    BY <1>5, <2>1, <2>2 DEF CreateJob, TypeOK, KernelOK, FilesOK, VnodeOK, files
<1>6. ASSUME p \in Jobs, Assign(p) PROVE TypeOK'
  <2>1. ControlOK'
    BY <1>6, GoToControl DEF Assign, TypeOK, Labels
  <2>2. KernelOK'
    BY <1>6 DEF Assign, Available, TypeOK, KernelOK
  <2> QED
    BY <1>6, <2>1, <2>2 DEF Assign, TypeOK, FilesOK, VnodeOK, LocalsOK, files, locals
<1>7. ASSUME p \in Jobs, AssignFails(p) PROVE TypeOK'
  <2>1. PICK L \in SUBSET Jobs: \/ NextAttempt(p)
                              \/ /\ joblist' = L /\ GoTo(p, "rename")
                                 /\ UNCHANGED <<assigned, todo, remaining, attempt>>
    BY <1>7 DEF AssignFails, LocalJobs, TypeOK, FilesOK
  <2>2. CASE NextAttempt(p)
    BY <1>7, <2>2, NextAttemptType
    DEF AssignFails, TypeOK, KernelOK, FilesOK, VnodeOK, kernel, files
  <2>3. CASE joblist' = L /\ GoTo(p, "rename") /\ UNCHANGED <<assigned, todo, remaining, attempt>>
    <3>1. ControlOK'
      BY <2>3, GoToControl DEF TypeOK, Labels
    <3> QED
      BY <1>7, <2>3, <3>1
      DEF AssignFails, TypeOK, KernelOK, FilesOK, VnodeOK, LocalsOK, kernel, files
  <2> QED
    BY <2>1, <2>2, <2>3
<1>8. ASSUME p \in Jobs, SetMems(p) PROVE TypeOK'
  <2>1. ControlOK'
    BY <1>8, GoToControl DEF SetMems, TypeOK, Labels
  <2> QED
    BY <1>8, <2>1 DEF SetMems, TypeOK, KernelOK, FilesOK, VnodeOK, LocalsOK, files, locals
<1>9. ASSUME p \in Jobs, Commit(p) PROVE TypeOK'
  <2>1. ControlOK' /\ LocalsOK'
    BY <1>9, FinishControl, AbortControl DEF Commit, TypeOK, Results
  <2> QED
    BY <1>9, <2>1 DEF Commit, TypeOK, KernelOK, FilesOK, VnodeOK, kernel
<1>10. ASSUME RenameOrphans(p) PROVE TypeOK'
  <2>1. ControlOK'
    BY <1>10, GoToControl DEF RenameOrphans, TypeOK, Labels
  <2>2. KernelOK'
    BY <1>10 DEF RenameOrphans, TypeOK, KernelOK, TaskStates
  <2> QED
    BY <1>10, <2>1, <2>2 DEF RenameOrphans, TypeOK, FilesOK, VnodeOK, LocalsOK, files
<1>11. ASSUME ReapOrphan(p) PROVE TypeOK'
  <2>1. PICK j \in todo:
          \/ /\ \/ RemoveTrue(OrphanDir(j)) /\ UNCHANGED remaining
                \/ RemoveFalse(p, OrphanDir(j)) /\ remaining' = TRUE
             /\ todo' = todo \ {j}
             /\ GoTo(p, "reap")
             /\ UNCHANGED <<joblist, assigned, attempt>>
          \/ RemoveRaises(OrphanDir(j)) /\ Abort(p)
    BY <1>11 DEF ReapOrphan
  <2>2. OrphanDir(j) \in Dirs
    BY DEF TypeOK, LocalsOK
  <2>3. KernelOK' /\ FilesOK' /\ VnodeOK'
    BY <1>11, <2>1, <2>2, RemoveType DEF ReapOrphan
  <2>4. CASE Abort(p)
    BY <2>3, <2>4, AbortControl DEF TypeOK
  <2>5. CASE ~Abort(p)
    <3>1. ControlOK'
      BY <2>1, <2>5, GoToControl DEF TypeOK, Labels
    <3>2. LocalsOK'
      BY <2>1, <2>5 DEF TypeOK, LocalsOK
    <3> QED
      BY <2>3, <3>1, <3>2 DEF TypeOK
  <2> QED
    BY <2>4, <2>5
<1>12. ASSUME OrphansReaped(p) PROVE TypeOK'
  <2>1. ControlOK' /\ LocalsOK'
    <3>1. CASE p # Periodic
      BY <1>12, <3>1, NextAttemptType DEF OrphansReaped
    <3>2. CASE p = Periodic /\ (remaining \/ ~offlineFile)
      BY <1>12, <3>2, FinishControl DEF OrphansReaped, TypeOK, Results
    <3>3. CASE p = Periodic /\ ~(remaining \/ ~offlineFile)
      BY <1>12, <3>3, GoToControl DEF OrphansReaped, TypeOK, LocalsOK, locals, Labels
    <3> QED
      BY <3>1, <3>2, <3>3
  <2> QED
    BY <1>12, <2>1 DEF OrphansReaped, TypeOK, KernelOK, FilesOK, VnodeOK, kernel, files
<1>13. ASSUME BringOnline PROVE TypeOK'
  <2>1. Periodic \in Procs
    BY DEF Procs
  <2>2. ControlOK' /\ LocalsOK'
    BY <1>13, <2>1, FinishControl DEF BringOnline, TypeOK, Results
  <2> QED
    BY <1>13, <2>1, <2>2 DEF BringOnline, TypeOK, KernelOK, FilesOK, VnodeOK, kernel
<1> QED
  BY <1>1, <1>2, <1>3, <1>4, <1>5, <1>6, <1>7, <1>8, <1>9, <1>10, <1>11, <1>12, <1>13
  DEF HookStep, JobHookStep, CleanupStep, Procs

LEMMA EndType == TypeOK /\ (\E p \in Procs: HookKilled(p) \/ Collect(p)) => TypeOK'
<1> SUFFICES ASSUME TypeOK, NEW p \in Procs, HookKilled(p) \/ Collect(p) PROVE TypeOK'
  OBVIOUS
<1> USE DEF TypeOK, KernelOK, FilesOK, VnodeOK, LocalsOK, ControlOK, kernel, files, server, mom, procs, locals, counts,
        Phases, Labels, Events, Results, TaskStates, Procs
<1>1. ASSUME HookKilled(p) PROVE TypeOK'
  <2>1. kills' \in 0..MaxKills
    <3>1. kills \in 0..MaxKills /\ kills < MaxKills /\ kills' = kills + 1
      BY <1>1 DEF HookKilled
    <3> QED
      BY <3>1, BoundsNat, CountUp
  <2>2. KernelOK' /\ FilesOK' /\ VnodeOK'
    BY <1>1 DEF HookKilled
  <2>3. LocalsOK' /\ lock' \in Procs \cup {NoOne}
    <3>1. CASE lock = p
      <4>1. assigned' \in [Dirs -> SUBSET Cpus]
        BY <1>1, <3>1 DEF HookKilled
      <4>2. joblist' = {} /\ todo' = {} /\ attempt' = 0 /\ lock' = NoOne
        BY <1>1, <3>1 DEF HookKilled
      <4>3. remaining' \in BOOLEAN
        BY <1>1, <3>1, Zenon DEF HookKilled
      <4>4. attempt' \in 0..2
        BY <4>2, NoAttempt
      <4> QED
        BY <4>1, <4>2, <4>3, <4>4
    <3>2. CASE lock # p
      BY <1>1, <3>2 DEF HookKilled
    <3> QED
      BY <3>1, <3>2
  <2>4. /\ pc' \in [Procs -> Labels] /\ result' \in [Procs -> Results]
        /\ UNCHANGED <<event, snapshot, server, mom, begins>>
    BY <1>1 DEF HookKilled
  <2> QED
    BY <2>1, <2>2, <2>3, <2>4
<1>2. ASSUME Collect(p) PROVE TypeOK'
  <2>1. /\ pc' \in [Procs -> Labels] /\ result' \in [Procs -> Results] /\ event' \in [Procs -> Events]
        /\ vnode' \in [Procs -> {"none", "offline", "online"}]
        /\ UNCHANGED <<kernel, cgroupJobs, offlineFile, lock, locals, counts>>
    BY <1>2 DEF Collect
  <2>2. job' \in [Jobs -> Phases]
    <3>1. ASSUME p # Periodic PROVE NextPhase(event[p], result[p], job[p]) \in Phases
      BY <3>1 DEF NextPhase
    <3> QED
      BY <1>2, <3>1 DEF Collect
  <2>3. need' \in [Jobs -> Sizes \cup {0}] /\ jb' \subseteq Jobs /\ snapshot' \subseteq Jobs
    BY <1>2 DEF Collect
  <2>4. nodeState' \in {"free", "offline"} /\ nodeComment' \in {"", "hook", "admin"}
    BY <1>2 DEF Collect
  <2>5. KernelOK' /\ FilesOK' /\ VnodeOK' /\ LocalsOK'
    BY <2>1, <2>3
  <2>6. ControlOK'
    BY <2>1, <2>2, <2>3, <2>4
  <2> QED
    BY <2>5, <2>6
<1> QED
  BY <1>1, <1>2

LEMMA TypeStep == TypeOK /\ [Next]_vars => TypeOK'
<1>1. TypeOK /\ UNCHANGED vars => TypeOK'
  BY DEF TypeOK, KernelOK, FilesOK, VnodeOK, LocalsOK, ControlOK, vars, kernel, files, server, mom, procs, locals, counts
<1> QED
  BY <1>1, MomType, HookType, EndType DEF Next

\* Every reachable state is well typed.
THEOREM TypeCorrect == Spec => []TypeOK
BY InitType, TypeStep, PTL DEF Spec

-----------------------------------------------------------------------------
(* Exclusive CPUs.  What a step does to the cgroups, in the terms of the   *)
(* invariant.                                                              *)

\* No directory becomes occupied, and those that stay so keep their CPUs.
Calm == \A d \in Dirs: Occupied(d)' => Occupied(d) /\ cpus'[d] = cpus[d]

LEMMA CalmExclusive == ExclusiveCpus /\ Calm => ExclusiveCpus'
  BY DEF ExclusiveCpus, Calm, Occupied

LEMMA CalmOffers ==
  ASSUME OffersFree, Calm,
         \A j \in Jobs: Offering(j)' => Offering(j) /\ Available(j)' \subseteq Available(j)
  PROVE  OffersFree'
  BY DEF OffersFree, Calm

LEMMA CalmChosen ==
  ASSUME ChosenFree, Calm,
         \A j \in Jobs: Chosen(j)' => Chosen(j) /\ cpus'[JobDir(j)] = cpus[JobDir(j)]
  PROVE  ChosenFree'
  BY DEF ChosenFree, Calm

LEMMA KernelKept ==
  ASSUME UNCHANGED <<dirs, cpus, mems, preempted>> PROVE Calm /\ (MemsInDirs => MemsInDirs')
  BY DEF Calm, Occupied, Configured, MemsInDirs

\* While a hook chooses CPUs, mom waits for it.
LEMMA MomBusy ==
  ASSUME MomWaits, MomFree, EventsFit, NEW j \in Jobs
  PROVE  pc[j] \notin {"create", "attempt", "rename", "reap", "mems"}
  BY DEF MomFree, EventsFit

-----------------------------------------------------------------------------
(* Mom's steps.                                                            *)

\* Starting a hook, of a job that is not suspended
LEMMA StartKeeps ==
  ASSUME MomWaits, TypeOK, ExclusiveInv, NEW p \in Procs, NEW e \in Events, StartHook(p, e),
         p \in Jobs => e \notin {"none", "periodic"} /\ job'[p] # "suspended",
         \A j \in Jobs \ {p}: job'[j] = job[j]
  PROVE  ExclusiveInv'
<1> USE DEF ExclusiveInv
<1>1. /\ UNCHANGED <<dirs, cpus, mems, preempted, lock>>
      /\ pc' = [pc EXCEPT ![p] = "wait"] /\ event' = [event EXCEPT ![p] = e]
      /\ MomFree
  BY DEF StartHook, kernel
<1>2. pc \in [Procs -> Labels] /\ event \in [Procs -> Events]
  BY DEF TypeOK, ControlOK
<1>3. Calm /\ MemsInDirs' /\ ExclusiveCpus'
  BY <1>1, KernelKept, CalmExclusive
<1>4. SuspendedMarked' /\ SuspendedIdle' /\ EventsFit'
  <2>1. SuspendedMarked'
    BY <1>1 DEF SuspendedMarked
  <2>2. SuspendedIdle'
    BY <1>1, <1>2 DEF SuspendedIdle
  <2>3. EventsFit'
    BY <1>1, <1>2 DEF EventsFit
  <2> QED
    BY <2>1, <2>2, <2>3
<1>5. \A j \in Jobs: ~Offering(j)' /\ ~Chosen(j)'
  BY <1>1, <1>2, MomBusy DEF Offering, Chosen
<1> QED
  BY <1>3, <1>4, <1>5, CalmOffers, CalmChosen

\* A change of the phases, the .JB files or the processes of jobs, with no hook
\* starting or moving
LEMMA MomKeeps ==
  ASSUME ExclusiveInv, UNCHANGED <<dirs, cpus, mems, pc, event, lock, assigned>>,
         preempted \subseteq preempted', SuspendedMarked', SuspendedIdle',
         \A j \in Jobs: Offering(j) \/ Chosen(j) => Available(j)' \subseteq Available(j)
  PROVE  ExclusiveInv'
<1> USE DEF ExclusiveInv
<1>1. Calm /\ MemsInDirs'
  BY DEF Calm, Occupied, Configured, MemsInDirs
<1>2. EventsFit'
  BY DEF EventsFit
<1>3. \A j \in Jobs: (Offering(j)' <=> Offering(j)) /\ (Chosen(j)' <=> Chosen(j))
  BY DEF Offering, Chosen
<1> QED
  BY <1>1, <1>2, <1>3, CalmExclusive, CalmOffers, CalmChosen

LEMMA MomExclusive == MomWaits /\ TypeOK /\ ExclusiveInv /\ MomNext => ExclusiveInv'
<1> SUFFICES ASSUME MomWaits, TypeOK, ExclusiveInv, MomNext PROVE ExclusiveInv'
  OBVIOUS
<1>1. job \in [Jobs -> Phases] /\ Jobs \subseteq Procs /\ Periodic \in Procs \ Jobs
  BY ProcsDistinct DEF TypeOK, ControlOK, Procs
<1>2. ASSUME NEW j \in Jobs, Arrive(j) PROVE ExclusiveInv'
  BY <1>1, <1>2, StartKeeps DEF Arrive, Events
<1>3. ASSUME NEW j \in Jobs, Launch(j) \/ Attach(j) \/ Epilogue(j) \/ End(j) PROVE ExclusiveInv'
  <2>1. PICK e \in Events \ {"none", "periodic"}, phase \in Phases \ {"suspended"}: RunJobHook(j, phase, e)
    BY <1>3 DEF Launch, Attach, Epilogue, End, Events, Phases
  <2> QED
    BY <1>1, <2>1, StartKeeps DEF RunJobHook, mom
<1>4. ASSUME NEW j \in Jobs, Resize(j) PROVE ExclusiveInv'
  BY <1>1, <1>4, StartKeeps DEF Resize, Events
<1>5. CASE Tick
  BY <1>1, <1>5, StartKeeps DEF Tick, Events, mom
<1>6. ASSUME NEW j \in Jobs, SaveJob(j) PROVE ExclusiveInv'
  <2>1. UNCHANGED <<dirs, cpus, mems, preempted, pc, event, lock, assigned, job>>
    BY <1>6 DEF SaveJob, kernel, mom, procs, locals
  <2>2. SuspendedMarked' /\ SuspendedIdle'
    BY <2>1 DEF ExclusiveInv, SuspendedMarked, SuspendedIdle
  <2>3. \A k \in Jobs: Available(k)' \subseteq Available(k)
    BY <1>6, <2>1 DEF SaveJob, Available
  <2> QED
    BY <2>1, <2>2, <2>3, MomKeeps
<1>7. ASSUME NEW j \in Jobs, Suspend(j) \/ Resume(j) \/ JobExit(j) PROVE ExclusiveInv'
  <2>1. /\ UNCHANGED <<dirs, cpus, mems, pc, event, lock, assigned, jb>>
        /\ preempted \subseteq preempted' /\ MomFree
    BY <1>7 DEF Suspend, Resume, JobExit, kernel, files, procs, locals
  <2>2. SuspendedMarked' /\ SuspendedIdle'
    BY <1>1, <1>7, <2>1 DEF ExclusiveInv, SuspendedMarked, SuspendedIdle, Suspend, Resume, JobExit
  <2>3. \A k \in Jobs: ~Offering(k) /\ ~Chosen(k)
    BY <2>1, MomBusy DEF Offering, Chosen, ExclusiveInv
  <2> QED
    BY <2>1, <2>2, <2>3, MomKeeps
<1>8. ASSUME \/ \E d \in Dirs: TaskExit(d)
             \/ AdminOffline \/ AdminOnline
      PROVE  ExclusiveInv'
  <2>1. UNCHANGED <<dirs, cpus, mems, preempted, pc, event, lock, assigned, job, jb>>
    BY <1>8 DEF TaskExit, AdminOffline, AdminOnline, kernel, files, mom, procs, locals
  <2>2. SuspendedMarked' /\ SuspendedIdle'
    BY <2>1 DEF ExclusiveInv, SuspendedMarked, SuspendedIdle
  <2>3. \A k \in Jobs: Available(k)' \subseteq Available(k)
    BY <2>1 DEF Available
  <2> QED
    BY <2>1, <2>2, <2>3, MomKeeps
<1> QED
  BY <1>2, <1>3, <1>4, <1>5, <1>6, <1>7, <1>8 DEF MomNext

-----------------------------------------------------------------------------
(* The hook's steps.                                                       *)

\* A hook of the lock's holder goes on and keeps the lock.
LEMMA GoToKeeps ==
  ASSUME TypeOK, ExclusiveInv, NEW p \in Procs, NEW l \in Labels \ {"idle"}, lock = p,
         pc[p] # "idle", GoTo(p, l),
         l \in {"create", "attempt", "rename", "reap", "mems"} /\ p \in Jobs
           => event[p] \in {"begin", "resize"}
  PROVE  /\ SuspendedIdle' /\ EventsFit'
         /\ \A j \in Jobs: Offering(j)' \/ Chosen(j)' => j = p /\ lock = p
<1>1. pc' = [pc EXCEPT ![p] = l] /\ UNCHANGED <<event, lock, job>> /\ pc \in [Procs -> Labels]
  BY DEF GoTo, mom, TypeOK, ControlOK
<1>2. SuspendedIdle'
  BY <1>1 DEF ExclusiveInv, SuspendedIdle
<1>3. EventsFit'
  BY <1>1 DEF ExclusiveInv, EventsFit
<1> QED
  BY <1>1, <1>2, <1>3 DEF Offering, Chosen

\* A hook that ends leaves nothing on offer.
LEMMA FinishKeeps ==
  ASSUME TypeOK, ExclusiveInv, NEW p \in Procs, NEW r, pc[p] # "idle", Finish(p, r)
  PROVE  SuspendedIdle' /\ EventsFit' /\ OffersFree' /\ ChosenFree'
<1>1. pc' = [pc EXCEPT ![p] = "exit"] /\ UNCHANGED <<event, job>> /\ lock' = NoOne
  BY DEF Finish, mom
<1>2. pc \in [Procs -> Labels] /\ NoOne \notin Jobs
  BY ProcsDistinct DEF TypeOK, ControlOK
<1>3. SuspendedIdle'
  BY <1>1, <1>2 DEF ExclusiveInv, SuspendedIdle
<1>4. EventsFit'
  BY <1>1, <1>2 DEF ExclusiveInv, EventsFit
<1>5. OffersFree' /\ ChosenFree'
  BY <1>1, <1>2 DEF OffersFree, ChosenFree, Offering, Chosen
<1> QED
  BY <1>3, <1>4, <1>5

LEMMA AbortKeeps ==
  ASSUME TypeOK, ExclusiveInv, NEW p \in Procs, pc[p] # "idle", Abort(p)
  PROVE  SuspendedIdle' /\ EventsFit' /\ OffersFree' /\ ChosenFree'
  BY FinishKeeps DEF Abort

\* What a step that configures no directory does to the cgroups.
LEMMA CalmKernel ==
  ASSUME ExclusiveInv, UNCHANGED job,
         \/ UNCHANGED kernel
         \/ \E d \in Dirs: \/ RemoveTrue(d) \/ RemoveRaises(d)
                          \/ \E p \in Procs: RemoveFalse(p, d)
  PROVE  /\ Calm /\ dirs' \subseteq dirs
         /\ MemsInDirs' /\ SuspendedMarked' /\ ExclusiveCpus'
<1>1. CASE UNCHANGED kernel
  BY <1>1, KernelKept, CalmExclusive DEF ExclusiveInv, SuspendedMarked, kernel
<1>2. ASSUME NEW d \in Dirs, Gone(d)
      PROVE  Calm /\ dirs' \subseteq dirs /\ MemsInDirs' /\ SuspendedMarked'
  BY <1>2 DEF ExclusiveInv, Calm, Occupied, Configured, MemsInDirs, SuspendedMarked, Gone
<1> QED
  BY <1>1, <1>2, CalmExclusive DEF RemoveTrue, RemoveFalse, RemoveRaises, RmdirBusy, TasksSurvive, ExclusiveInv

\* The CPUs on offer after the cgroups were read are those nobody occupies.
LEMMA FreshOffers ==
  ASSUME TypeOK, ExclusiveInv, NEW j \in Jobs, assigned' = AssignedResources,
         UNCHANGED <<job, jb, event>>,
         \A d \in Dirs \ {JobDir(j)}: Occupied(d)' => Occupied(d) /\ cpus'[d] = cpus[d]
  PROVE  \A d \in Dirs \ {JobDir(j)}: Occupied(d)' => cpus'[d] \cap Available(j)' = {}
<1> SUFFICES ASSUME NEW d \in Dirs \ {JobDir(j)}, Occupied(d)'
             PROVE  cpus'[d] \cap Available(j)' = {}
  OBVIOUS
<1>1. d \in dirs \cap mems /\ d \notin preempted /\ cpus'[d] = cpus[d]
  BY DEF Occupied, Configured
<1>2. assigned'[d] = cpus[d]
  BY <1>1 DEF AssignedResources
<1>3. ~(d[2] = "job" /\ d[1] \in jb /\ job[d[1]] = "suspended")
  <2>1. d[2] = "job" => d[1] \in Jobs /\ d = JobDir(d[1])
    BY DEF Dirs, JobDir
  <2> QED
    BY <1>1, <2>1 DEF ExclusiveInv, SuspendedMarked
<1> QED
  BY <1>1, <1>2, <1>3 DEF Available

\* Steps that move the lock's holder without configuring a directory, and keep
\* or forget what it has on offer.
LEMMA CalmStep ==
  ASSUME TypeOK, ExclusiveInv, NEW p \in Procs, NEW l \in Labels \ {"idle", "mems"},
         Running(p, l), Calm, dirs' \subseteq dirs, MemsInDirs', SuspendedMarked', ExclusiveCpus',
         \/ \E r \in Results: Finish(p, r)
         \/ /\ UNCHANGED <<assigned, jb>>
            /\ \E k \in Labels \ {"idle", "create", "mems"}:
                 /\ GoTo(p, k)
                 /\ k \in {"attempt", "rename", "reap"} /\ p \in Jobs
                      => l \in {"attempt", "rename", "reap"}
  PROVE  ExclusiveInv'
<1>1. CASE \E r \in Results: Finish(p, r)
  BY <1>1, FinishKeeps DEF Running, ExclusiveInv
<1>2. ASSUME UNCHANGED <<assigned, jb>>, NEW k \in Labels \ {"idle", "create", "mems"}, GoTo(p, k),
             k \in {"attempt", "rename", "reap"} /\ p \in Jobs => l \in {"attempt", "rename", "reap"}
      PROVE  ExclusiveInv'
  <2>1. lock = p /\ pc[p] = l /\ pc' = [pc EXCEPT ![p] = k] /\ UNCHANGED <<event, job, lock>>
    BY <1>2 DEF Running, GoTo, mom
  <2>2. pc \in [Procs -> Labels]
    BY DEF TypeOK, ControlOK
  <2>3. p \in Jobs /\ l \in {"attempt", "rename", "reap"} => event[p] \in {"begin", "resize"}
    BY <2>1 DEF ExclusiveInv, EventsFit
  <2>4. /\ SuspendedIdle' /\ EventsFit'
        /\ \A j \in Jobs: Offering(j)' \/ Chosen(j)' => j = p
    BY <1>2, <2>1, <2>3, GoToKeeps
  <2>5. \A j \in Jobs: Offering(j)' => Offering(j) /\ Available(j)' \subseteq Available(j)
    BY <1>2, <2>1, <2>2, <2>4 DEF Offering, Available
  <2>6. \A j \in Jobs: ~Chosen(j)'
    BY <2>1, <2>2, <2>4 DEF Chosen
  <2>7. OffersFree' /\ ChosenFree'
    BY <2>5, <2>6, CalmOffers, CalmChosen DEF ExclusiveInv
  <2> QED
    BY <2>4, <2>7 DEF ExclusiveInv
<1> QED
  BY <1>1, <1>2

LEMMA AcquireExclusive ==
  ASSUME TypeOK, ExclusiveInv, NEW p \in Procs, Acquire(p)
  PROVE  ExclusiveInv'
<1>1. UNCHANGED <<kernel, job, jb>> /\ pc[p] = "wait"
  BY DEF Acquire, Abort, Finish, mom, files
<1>2. /\ Calm /\ dirs' \subseteq dirs
      /\ MemsInDirs' /\ SuspendedMarked' /\ ExclusiveCpus'
  BY <1>1, CalmKernel
<1>3. CASE Abort(p)
  BY <1>1, <1>2, <1>3, AbortKeeps DEF ExclusiveInv
<1>4. CASE ~Abort(p)
  <2>1. /\ lock' = p /\ assigned' = AssignedResources /\ UNCHANGED event
        /\ pc' = [pc EXCEPT ![p] = FirstLabel(event[p])]
    BY <1>4 DEF Acquire
  <2>2. pc \in [Procs -> Labels] /\ (p \in Jobs => event[p] \in Events \ {"none", "periodic"})
    BY <1>1 DEF TypeOK, ControlOK, ExclusiveInv, EventsFit
  <2>3. SuspendedIdle' /\ EventsFit'
    <3>1. SuspendedIdle'
      BY <1>1, <2>1, <2>2 DEF ExclusiveInv, SuspendedIdle
    <3>2. EventsFit'
      BY <1>1, <2>1, <2>2 DEF ExclusiveInv, EventsFit, FirstLabel, Events
    <3> QED
      BY <3>1, <3>2
  <2>4. OffersFree'
    <3>1. SUFFICES ASSUME p \in Jobs PROVE OffersFree'
      BY <2>1 DEF OffersFree, Offering
    <3>2. \A d \in Dirs \ {JobDir(p)}: Occupied(d)' => cpus'[d] \cap Available(p)' = {}
      BY <1>1, <1>2, <2>1, <3>1, FreshOffers DEF Calm
    <3> QED
      BY <2>1, <3>2 DEF OffersFree, Offering
  <2>5. ChosenFree'
    BY <2>1, <2>2 DEF ChosenFree, Chosen, FirstLabel, Events
  <2> QED
    BY <1>2, <2>3, <2>4, <2>5 DEF ExclusiveInv
<1> QED
  BY <1>3, <1>4

LEMMA CreateExclusive ==
  ASSUME TypeOK, ExclusiveInv, NEW j \in Jobs, CreateJob(j)
  PROVE  ExclusiveInv'
<1>1. /\ lock = j /\ pc[j] = "create" /\ GoTo(j, "attempt")
      /\ assigned' = AssignedResources
      /\ dirs' = dirs \cup {JobDir(j)}
      /\ UNCHANGED <<cpus, mems, preempted, event, job, jb>>
  BY DEF CreateJob, Running, GoTo, mom, files
<1>2. /\ event[j] \in {"begin", "resize"} /\ job[j] # "suspended" /\ j \in Procs
  BY <1>1 DEF ExclusiveInv, EventsFit, SuspendedIdle, Procs
<1>3. /\ SuspendedIdle' /\ EventsFit'
      /\ \A k \in Jobs: Offering(k)' \/ Chosen(k)' => k = j
  BY <1>1, <1>2, GoToKeeps DEF Labels
<1>4. Calm /\ MemsInDirs' /\ SuspendedMarked'
  <2>1. Calm /\ MemsInDirs'
    BY <1>1 DEF Calm, Occupied, Configured, ExclusiveInv, MemsInDirs
  <2>2. SuspendedMarked'
    BY <1>1, <1>2 DEF ExclusiveInv, SuspendedMarked, JobDir
  <2> QED
    BY <2>1, <2>2
<1>5. OffersFree'
  BY <1>1, <1>3, <1>4, FreshOffers DEF OffersFree, Calm
<1>6. ChosenFree'
  <2>1. pc'[j] = "attempt"
    BY <1>1, <1>2 DEF GoTo, TypeOK, ControlOK
  <2> QED
    BY <1>3, <2>1 DEF ChosenFree, Chosen
<1> QED
  BY <1>3, <1>4, <1>5, <1>6, CalmExclusive DEF ExclusiveInv

LEMMA AssignExclusive ==
  ASSUME TypeOK, ExclusiveInv, NEW j \in Jobs, Assign(j)
  PROVE  ExclusiveInv'
<1>1. /\ lock = j /\ pc[j] = "attempt" /\ GoTo(j, "mems")
      /\ preempted' = preempted \ {JobDir(j)}
      /\ UNCHANGED <<dirs, mems, event, job>>
  BY DEF Assign, Running, GoTo, mom
<1>2. PICK S \in SUBSET Available(j):
        cpus' = IF JobDir(j) \in dirs THEN [cpus EXCEPT ![JobDir(j)] = S] ELSE cpus
  BY DEF Assign
<1>3. /\ event[j] \in {"begin", "resize"} /\ job[j] # "suspended" /\ j \in Procs
      /\ JobDir(j) \in Dirs /\ cpus \in [Dirs -> SUBSET Cpus]
  BY <1>1, DirsOfJobs DEF ExclusiveInv, EventsFit, SuspendedIdle, Procs, TypeOK, KernelOK
<1>4. /\ SuspendedIdle' /\ EventsFit'
      /\ \A k \in Jobs: Offering(k)' \/ Chosen(k)' => k = j
  BY <1>1, <1>3, GoToKeeps DEF Labels
<1>5. MemsInDirs' /\ SuspendedMarked'
  BY <1>1, <1>3 DEF ExclusiveInv, MemsInDirs, SuspendedMarked, JobDir
<1>6. \A d \in Dirs \ {JobDir(j)}: Occupied(d)' => Occupied(d) /\ cpus'[d] = cpus[d]
  BY <1>1, <1>2, <1>3 DEF Occupied, Configured
<1>7. JobDir(j) \in dirs =>
        \A d \in Dirs \ {JobDir(j)}: Occupied(d)' => cpus'[d] \cap cpus'[JobDir(j)] = {}
  BY <1>1, <1>2, <1>3, <1>6 DEF ExclusiveInv, OffersFree, Offering
<1>8. ExclusiveCpus'
  <2>1. SUFFICES ASSUME NEW d \in Dirs, NEW e \in Dirs, Occupied(d)', Occupied(e)', d # e
                 PROVE  cpus'[d] \cap cpus'[e] = {}
    BY DEF ExclusiveCpus, Occupied
  <2>2. CASE d # JobDir(j) /\ e # JobDir(j)
    BY <1>6, <2>1, <2>2 DEF ExclusiveInv, ExclusiveCpus, Occupied
  <2>3. CASE d = JobDir(j) \/ e = JobDir(j)
    <3>1. JobDir(j) \in dirs
      BY <1>1, <2>1, <2>3 DEF Occupied, Configured
    <3> QED
      BY <1>7, <2>1, <2>3, <3>1
  <2> QED
    BY <2>2, <2>3
<1>9. OffersFree' /\ ChosenFree'
  <2>1. pc'[j] = "mems"
    BY <1>1, <1>3 DEF GoTo, TypeOK, ControlOK
  <2>2. OffersFree'
    BY <1>4, <2>1 DEF OffersFree, Offering
  <2>3. ChosenFree'
    BY <1>1, <1>4, <1>7 DEF ChosenFree, Chosen
  <2> QED
    BY <2>2, <2>3
<1> QED
  BY <1>4, <1>5, <1>8, <1>9 DEF ExclusiveInv

LEMMA SetMemsExclusive ==
  ASSUME TypeOK, ExclusiveInv, NEW j \in Jobs, SetMems(j)
  PROVE  ExclusiveInv'
<1>1. /\ lock = j /\ pc[j] = "mems" /\ GoTo(j, "commit") /\ j \in Procs
      /\ mems' = IF JobDir(j) \in dirs THEN mems \cup {JobDir(j)} ELSE mems
      /\ UNCHANGED <<dirs, cpus, preempted, job>>
  BY DEF SetMems, Running, GoTo, mom, Procs
<1>2. pc'[j] = "commit"
  BY <1>1 DEF GoTo, TypeOK, ControlOK
<1>3. /\ SuspendedIdle' /\ EventsFit'
      /\ \A k \in Jobs: Offering(k)' \/ Chosen(k)' => k = j
  BY <1>1, GoToKeeps DEF Labels
<1>4. MemsInDirs' /\ SuspendedMarked'
  BY <1>1 DEF ExclusiveInv, MemsInDirs, SuspendedMarked
<1>5. ExclusiveCpus'
  <2>1. SUFFICES ASSUME NEW d \in Dirs, NEW e \in Dirs, Occupied(d)', Occupied(e)', d # e
                 PROVE  cpus[d] \cap cpus[e] = {}
    BY <1>1 DEF ExclusiveCpus, Occupied
  <2>2. CASE JobDir(j) \in dirs
    <3>1. \A x \in {d, e} \ {JobDir(j)}: Occupied(x)
      BY <1>1, <2>1 DEF Occupied, Configured
    <3>2. CASE JobDir(j) \in {d, e}
      BY <1>1, <2>1, <2>2, <3>1, <3>2 DEF ExclusiveInv, ChosenFree, Chosen
    <3>3. CASE JobDir(j) \notin {d, e}
      BY <2>1, <3>1, <3>3 DEF ExclusiveInv, ExclusiveCpus, Occupied
    <3> QED
      BY <3>2, <3>3
  <2>3. CASE JobDir(j) \notin dirs
    BY <1>1, <2>1, <2>3 DEF ExclusiveInv, ExclusiveCpus, Occupied, Configured
  <2> QED
    BY <2>2, <2>3
<1>6. OffersFree' /\ ChosenFree'
  BY <1>2, <1>3 DEF OffersFree, ChosenFree, Offering, Chosen
<1> QED
  BY <1>3, <1>4, <1>5, <1>6 DEF ExclusiveInv

\* Renaming moves each directory, with its CPUs, to a name that was free.
LEMMA RenameExclusive ==
  ASSUME TypeOK, ExclusiveInv, NEW p \in Procs, RenameOrphans(p)
  PROVE  ExclusiveInv'
<1> DEFINE lost == {j \in Jobs \ joblist: JobDir(j) \in dirs /\ OrphanDir(j) \notin dirs}
           From(d) == IF d[1] \in lost /\ d[2] = "orphan" THEN JobDir(d[1]) ELSE d
           old == {JobDir(j): j \in lost}
           Moved(S) == (S \ old) \cup {OrphanDir(j): j \in {k \in lost: JobDir(k) \in S}}
<1>1. /\ dirs' = Moved(dirs) /\ mems' = Moved(mems) /\ preempted' = Moved(preempted)
      /\ cpus' = [d \in Dirs |-> IF d \in old THEN {} ELSE cpus[From(d)]]
      /\ GoTo(p, "reap") /\ lock = p /\ pc[p] = "rename"
      /\ UNCHANGED <<assigned, event, job, jb>>
  BY DEF RenameOrphans, Running, GoTo, mom, files
<1>2. p \in Jobs => event[p] \in {"begin", "resize"}
  BY <1>1 DEF ExclusiveInv, EventsFit
<1>3. /\ SuspendedIdle' /\ EventsFit'
      /\ \A j \in Jobs: Offering(j)' \/ Chosen(j)' => j = p
  BY <1>1, <1>2, GoToKeeps DEF Labels
<1>4. pc'[p] = "reap"
  BY <1>1 DEF GoTo, TypeOK, ControlOK
<1>5. MemsInDirs'
  BY <1>1 DEF ExclusiveInv, MemsInDirs
<1>6. \A j \in Jobs:
        /\ JobDir(j) \in dirs' => JobDir(j) \in dirs \ old
        /\ JobDir(j) \in preempted \ old => JobDir(j) \in preempted'
  BY <1>1 DEF JobDir, OrphanDir
<1>7. SuspendedMarked'
  <2> HIDE DEF lost, From, old, Moved
  <2>1. SUFFICES ASSUME NEW j \in Jobs, job[j] = "suspended", JobDir(j) \in dirs'
                 PROVE  JobDir(j) \in preempted'
    BY <1>1 DEF SuspendedMarked, JobDir
  <2>2. JobDir(j) \in preempted
    BY <1>6, <2>1 DEF ExclusiveInv, SuspendedMarked
  <2> QED
    BY <1>6, <2>1, <2>2
<1>8. \A d \in Dirs: Occupied(d)' =>
        From(d) \in Dirs /\ Occupied(From(d)) /\ cpus'[d] = cpus[From(d)] /\ d \notin old
  <2>1. SUFFICES ASSUME NEW d \in Dirs, Occupied(d)'
                 PROVE  From(d) \in Dirs /\ Occupied(From(d)) /\ d \notin old
    BY <1>1
  <2>2. d \in Moved(dirs) /\ d \in Moved(mems) /\ d \notin Moved(preempted)
    BY <1>1, <2>1 DEF Occupied, Configured
  <2>3. CASE d[1] \in lost /\ d[2] = "orphan"
    <3>1. PICK j \in lost: d = OrphanDir(j) /\ From(d) = JobDir(j)
      BY <2>3 DEF Dirs, OrphanDir
    <3>2. d \notin mems /\ d \notin old
      BY <3>1 DEF ExclusiveInv, MemsInDirs, JobDir, OrphanDir
    <3>3. JobDir(j) \in dirs \cap mems /\ JobDir(j) \notin preempted
      BY <2>2, <3>1, <3>2 DEF OrphanDir
    <3> QED
      BY <3>1, <3>2, <3>3, DirsOfJobs DEF Occupied, Configured
  <2>4. CASE ~(d[1] \in lost /\ d[2] = "orphan")
    <3>1. From(d) = d /\ \A j \in lost: d # OrphanDir(j)
      BY <2>4 DEF OrphanDir
    <3>2. d \in dirs \ old /\ d \in mems /\ d \notin preempted
      BY <2>2, <3>1
    <3> QED
      BY <3>1, <3>2 DEF Occupied, Configured
  <2> QED
    BY <2>3, <2>4
<1>9. \A d, e \in Dirs: d \notin old /\ e \notin old /\ From(d) = From(e) => d = e
  <2>1. \A d \in Dirs: d = <<d[1], d[2]>>
    BY DEF Dirs
  <2>2. \A d \in Dirs: d \notin old /\ d[2] = "job" => d[1] \notin lost
    BY <2>1 DEF JobDir
  <2> QED
    BY <2>1, <2>2 DEF JobDir, Dirs
<1>10. ExclusiveCpus'
  <2> HIDE DEF lost, From, old, Moved
  <2>1. SUFFICES ASSUME NEW d \in Dirs, NEW e \in Dirs, Occupied(d)', Occupied(e)', d # e
                 PROVE  cpus'[d] \cap cpus'[e] = {}
    BY DEF ExclusiveCpus, Occupied
  <2>2. From(d) \in Dirs /\ From(e) \in Dirs /\ From(d) # From(e)
        /\ Occupied(From(d)) /\ Occupied(From(e))
    BY <1>8, <1>9, <2>1
  <2>3. cpus[From(d)] \cap cpus[From(e)] = {}
    BY <2>2 DEF ExclusiveInv, ExclusiveCpus, Occupied
  <2> QED
    BY <1>8, <2>1, <2>3
<1>11. OffersFree'
  <2> HIDE DEF lost, old, Moved
  <2>1. SUFFICES ASSUME p \in Jobs, Offering(p)',
                        NEW d \in Dirs \ {JobDir(p)}, Occupied(d)'
                 PROVE  cpus'[d] \cap Available(p)' = {}
    BY <1>3 DEF OffersFree
  <2>2. JobDir(p) \in dirs /\ JobDir(p) \notin old
    BY <1>6, <2>1 DEF Offering, JobDir
  <2>3. From(d) \in Dirs \ {JobDir(p)}
    <3>1. From(JobDir(p)) = JobDir(p)
      BY DEF JobDir
    <3> QED
      BY <1>8, <1>9, <2>1, <2>2, <3>1, DirsOfJobs
  <2>4. Offering(p) /\ Available(p)' = Available(p)
    BY <1>1, <2>2 DEF Offering, Available
  <2> QED
    BY <1>8, <2>1, <2>3, <2>4 DEF ExclusiveInv, OffersFree
<1>12. ChosenFree'
  BY <1>3, <1>4 DEF ChosenFree, Chosen
<1> QED
  BY <1>3, <1>5, <1>7, <1>10, <1>11, <1>12 DEF ExclusiveInv

LEMMA DeleteExclusive ==
  ASSUME TypeOK, ExclusiveInv, NEW j \in Jobs, Delete(j)
  PROVE  ExclusiveInv'
<1>1. /\ Running(j, "delete") /\ UNCHANGED job /\ j \in Procs /\ JobDir(j) \in Dirs
      /\ Abort(j) \/ AfterDelete(j)
  BY DirsOfJobs DEF Delete, Abort, AfterDelete, Finish, GoTo, mom, Procs
<1>2. /\ Calm /\ dirs' \subseteq dirs
      /\ MemsInDirs' /\ SuspendedMarked' /\ ExclusiveCpus'
  BY <1>1, CalmKernel DEF Delete
<1>3. CASE \E r \in Results: Finish(j, r)
  BY <1>1, <1>2, <1>3, CalmStep DEF Labels
<1>4. CASE event[j] = "begin" /\ GoTo(j, "create")
  <2>1. lock = j /\ pc[j] = "delete" /\ pc'[j] = "create"
    BY <1>1, <1>4 DEF Running, GoTo, TypeOK, ControlOK
  <2>2. /\ SuspendedIdle' /\ EventsFit'
        /\ \A k \in Jobs: Offering(k)' \/ Chosen(k)' => k = j
    BY <1>1, <1>4, <2>1, GoToKeeps DEF Labels
  <2>3. OffersFree' /\ ChosenFree'
    BY <2>1, <2>2 DEF OffersFree, ChosenFree, Offering, Chosen
  <2> QED
    BY <1>2, <2>2, <2>3 DEF ExclusiveInv
<1> QED
  BY <1>1, <1>3, <1>4 DEF Abort, AfterDelete, Results

LEMMA ReapExclusive ==
  ASSUME TypeOK, ExclusiveInv, NEW p \in Procs, ReapOrphan(p)
  PROVE  ExclusiveInv'
<1>1. PICK j \in todo:
        \/ /\ RemoveTrue(OrphanDir(j)) \/ RemoveFalse(p, OrphanDir(j))
           /\ GoTo(p, "reap") /\ UNCHANGED <<joblist, assigned, attempt>>
        \/ RemoveRaises(OrphanDir(j)) /\ Abort(p)
  BY DEF ReapOrphan
<1>2. /\ Running(p, "reap") /\ UNCHANGED <<job, jb>> /\ OrphanDir(j) \in Dirs
  BY <1>1, DirsOfJobs DEF ReapOrphan, Abort, Finish, GoTo, mom, TypeOK, LocalsOK
<1>3. /\ Calm /\ dirs' \subseteq dirs
      /\ MemsInDirs' /\ SuspendedMarked' /\ ExclusiveCpus'
  BY <1>1, <1>2, CalmKernel
<1>4. (\E r \in Results: Finish(p, r)) \/ (GoTo(p, "reap") /\ UNCHANGED assigned)
  BY <1>1 DEF Abort, Results
<1> QED
  BY <1>2, <1>3, <1>4, CalmStep DEF Labels

LEMMA HookExclusive ==
  TypeOK /\ ExclusiveInv /\ (\E p \in Procs: Acquire(p) \/ HookStep(p)) => ExclusiveInv'
<1> SUFFICES ASSUME TypeOK, ExclusiveInv, NEW p \in Procs, Acquire(p) \/ HookStep(p)
             PROVE  ExclusiveInv'
  OBVIOUS
<1>1. ASSUME UNCHANGED <<kernel, job>>
      PROVE  Calm /\ dirs' \subseteq dirs /\ MemsInDirs' /\ SuspendedMarked' /\ ExclusiveCpus'
  BY <1>1, CalmKernel DEF kernel
<1>2. ASSUME p \in Jobs, Dequeue(p) PROVE ExclusiveInv'
  <2>1. /\ Running(p, "dequeue") /\ UNCHANGED <<kernel, jb>> /\ (AfterDequeue(p) \/ Abort(p))
    BY <1>2 DEF Dequeue
  <2>2. /\ UNCHANGED job
        /\ \/ \E r \in Results: Finish(p, r)
           \/ UNCHANGED assigned /\ (GoTo(p, "pids") \/ GoTo(p, "delete"))
    BY <2>1 DEF AfterDequeue, Abort, Finish, GoTo, mom, locals, Results
  <2> QED
    BY <1>1, <2>1, <2>2, CalmStep DEF Labels
<1>3. ASSUME p \in Jobs, AddPids(p) PROVE ExclusiveInv'
  <2>1. /\ Running(p, "pids") /\ UNCHANGED <<dirs, cpus, mems, preempted, job>>
        /\ \E r \in Results: Finish(p, r)
    BY <1>3 DEF AddPids, Finish, mom, Results
  <2>2. Calm /\ dirs' \subseteq dirs /\ MemsInDirs' /\ SuspendedMarked' /\ ExclusiveCpus'
    BY <2>1, KernelKept, CalmExclusive DEF ExclusiveInv, SuspendedMarked
  <2> QED
    BY <2>1, <2>2, CalmStep DEF Labels
<1>4. ASSUME NextAttempt(p), Running(p, "attempt") \/ Running(p, "reap"), UNCHANGED <<kernel, jb>>
      PROVE  ExclusiveInv'
  <2>1. \/ \E r \in Results: Finish(p, r)
        \/ GoTo(p, "attempt") /\ UNCHANGED assigned
    BY <1>4 DEF NextAttempt, Results
  <2>2. UNCHANGED job
    BY <2>1 DEF Finish, GoTo, mom
  <2> QED
    BY <1>1, <1>4, <2>1, <2>2, CalmStep DEF Labels
<1>5. ASSUME p \in Jobs, AssignFails(p) PROVE ExclusiveInv'
  <2>1. /\ Running(p, "attempt") /\ UNCHANGED <<kernel, jb>>
        /\ NextAttempt(p) \/ (GoTo(p, "rename") /\ UNCHANGED assigned)
    BY <1>5 DEF AssignFails, files
  <2>2. CASE GoTo(p, "rename") /\ UNCHANGED assigned
    <3>1. UNCHANGED job
      BY <2>2 DEF GoTo, mom
    <3> QED
      BY <1>1, <2>1, <2>2, <3>1, CalmStep DEF Labels
  <2> QED
    BY <1>4, <2>1, <2>2
<1>6. ASSUME OrphansReaped(p) PROVE ExclusiveInv'
  <2>1. /\ Running(p, "reap") /\ UNCHANGED <<kernel, jb>>
        /\ \/ NextAttempt(p)
           \/ \E r \in Results: Finish(p, r)
           \/ GoTo(p, "online") /\ UNCHANGED assigned
    BY <1>6 DEF OrphansReaped, files, locals, Results
  <2>2. CASE ~NextAttempt(p)
    <3>1. UNCHANGED job
      BY <2>1, <2>2 DEF Finish, GoTo, mom
    <3> QED
      BY <1>1, <2>1, <2>2, <3>1, CalmStep DEF Labels
  <2> QED
    BY <1>4, <2>1, <2>2
<1>7. ASSUME \/ p = Periodic /\ BringOnline
             \/ p \in Jobs /\ Commit(p)
      PROVE  ExclusiveInv'
  <2>1. /\ Running(p, "online") \/ Running(p, "commit")
        /\ UNCHANGED <<kernel, job>> /\ \E r \in Results: Finish(p, r)
    BY <1>7 DEF BringOnline, Commit, Abort, Finish, mom, Results
  <2> QED
    BY <1>1, <2>1, CalmStep DEF Labels
<1> QED
  BY <1>2, <1>3, <1>5, <1>6, <1>7, AcquireExclusive, DeleteExclusive, CreateExclusive, AssignExclusive,
     SetMemsExclusive, RenameExclusive, ReapExclusive
  DEF HookStep, JobHookStep, CleanupStep, Procs

-----------------------------------------------------------------------------
(* The end of a hook.                                                      *)

LEMMA EndExclusive ==
  TypeOK /\ ExclusiveInv /\ (\E p \in Procs: HookKilled(p) \/ Collect(p)) => ExclusiveInv'
<1> SUFFICES ASSUME TypeOK, ExclusiveInv, NEW p \in Procs, HookKilled(p) \/ Collect(p)
             PROVE  ExclusiveInv'
  OBVIOUS
<1>1. UNCHANGED <<dirs, cpus, mems, preempted>>
  BY DEF HookKilled, Collect, kernel
<1>2. Calm /\ MemsInDirs' /\ ExclusiveCpus'
  BY <1>1, KernelKept, CalmExclusive DEF ExclusiveInv
<1>3. /\ pc \in [Procs -> Labels] /\ event \in [Procs -> Events] /\ job \in [Jobs -> Phases]
      /\ lock \in Procs \cup {NoOne} /\ NoOne \notin Procs /\ Jobs \subseteq Procs /\ jb \subseteq Jobs
  BY ProcsDistinct DEF TypeOK, ControlOK, FilesOK, Procs
<1>4. CASE HookKilled(p)
  <2>1. /\ pc[p] # "idle" /\ pc' = [pc EXCEPT ![p] = "exit"]
        /\ UNCHANGED <<event, job, jb>>
        /\ lock # p => UNCHANGED <<lock, assigned>>
        /\ lock = p => lock' = NoOne
    BY <1>4 DEF HookKilled, files, mom, locals
  <2>2. SuspendedMarked' /\ SuspendedIdle' /\ EventsFit'
    <3>1. SuspendedMarked' /\ SuspendedIdle'
      BY <1>1, <1>3, <2>1 DEF ExclusiveInv, SuspendedMarked, SuspendedIdle
    <3>2. EventsFit'
      BY <1>3, <2>1 DEF ExclusiveInv, EventsFit
    <3> QED
      BY <3>1, <3>2
  <2>3. \A j \in Jobs:
          /\ Offering(j)' => Offering(j) /\ Available(j)' \subseteq Available(j)
          /\ Chosen(j)' => Chosen(j)
    BY <1>1, <1>3, <2>1, ProcsDistinct DEF Offering, Chosen, Available
  <2> QED
    BY <1>1, <1>2, <2>2, <2>3, CalmOffers, CalmChosen DEF ExclusiveInv
<1>5. CASE Collect(p)
  <2>1. /\ pc[p] = "exit" /\ pc' = [pc EXCEPT ![p] = "idle"] /\ event' = [event EXCEPT ![p] = "none"]
        /\ UNCHANGED <<lock, assigned>> /\ jb' \subseteq jb
        /\ \A j \in Jobs: job'[j] = job[j] \/ (j = p /\ job'[j] = NextPhase(event[p], result[p], job[p]))
        /\ \A j \in Jobs \ {p}: j \in jb => j \in jb'
    BY <1>3, <1>5 DEF Collect, locals, mom
  <2>2. \A j \in Jobs: job'[j] = "suspended" => job[j] = "suspended" /\ j # p
    BY <1>3, <2>1 DEF NextPhase, ExclusiveInv, SuspendedIdle
  <2>3. SuspendedMarked' /\ SuspendedIdle' /\ EventsFit'
    <3>1. SuspendedMarked' /\ SuspendedIdle'
      BY <1>1, <1>3, <2>1, <2>2 DEF ExclusiveInv, SuspendedMarked, SuspendedIdle
    <3>2. EventsFit'
      BY <1>3, <2>1 DEF ExclusiveInv, EventsFit
    <3> QED
      BY <3>1, <3>2
  <2>4. \A j \in Jobs: (Offering(j)' => Offering(j) /\ j # p) /\ (Chosen(j)' => Chosen(j))
    BY <1>1, <1>3, <2>1 DEF Offering, Chosen
  <2>5. \A j \in Jobs \ {p}: Available(j)' \subseteq Available(j)
    BY <1>3, <2>1, <2>2 DEF Available
  <2> QED
    BY <1>1, <1>2, <2>3, <2>4, <2>5, CalmOffers, CalmChosen DEF ExclusiveInv
<1> QED
  BY <1>4, <1>5

-----------------------------------------------------------------------------
LEMMA InitExclusive == Init => ExclusiveInv
  BY DEF Init, ExclusiveInv, MemsInDirs, SuspendedMarked, SuspendedIdle, EventsFit, OffersFree,
         ChosenFree, Offering, Chosen, ExclusiveCpus, Configured, JobDir, Procs

\* What a hook offers or has chosen stays free of every other cgroup, whichever
\* hooks run and wherever they are killed (configure_job, cleanup_orphans), when
\* mom does nothing else while the hook of a job runs.
THEOREM ExclusiveInvariant == ASSUME MomWaits PROVE Spec => []ExclusiveInv
<1>1. ExclusiveInv /\ UNCHANGED vars => ExclusiveInv'
  <2>1. SUFFICES ASSUME ExclusiveInv, UNCHANGED vars PROVE ExclusiveInv'
    OBVIOUS
  <2>2. UNCHANGED <<dirs, cpus, mems, preempted, pc, event, lock, assigned, job, jb>>
    BY <2>1 DEF vars, kernel, files, mom, procs, locals
  <2>3. SuspendedMarked' /\ SuspendedIdle'
    BY <2>1, <2>2 DEF ExclusiveInv, SuspendedMarked, SuspendedIdle
  <2>4. \A j \in Jobs: Available(j)' \subseteq Available(j)
    BY <2>2 DEF Available
  <2> QED
    BY <2>1, <2>2, <2>3, <2>4, MomKeeps
<1>2. TypeOK /\ ExclusiveInv /\ [Next]_vars => ExclusiveInv'
  BY <1>1, MomExclusive, HookExclusive, EndExclusive DEF Next
<1> QED
  BY InitExclusive, <1>2, TypeCorrect, PTL DEF Spec

\* No two cgroups that are configured share a CPU, unless the job of one of them
\* was suspended (_assign_resources, available_node_resources), when mom does
\* nothing else while the hook of a job runs.
THEOREM CpusExclusive == ASSUME MomWaits PROVE Spec => []ExclusiveCpus
<1>1. ExclusiveInv => ExclusiveCpus
  BY DEF ExclusiveInv
<1> QED
  BY <1>1, ExclusiveInvariant, PTL

-----------------------------------------------------------------------------
(* What a step leaves alone, in the terms of the invariant.                *)

\* The cgroup of job j stays as it is, and so does what it was given.
Spared(j) ==
  /\ JobDir(j) \in dirs => JobDir(j) \in dirs'
  /\ JobDir(j) \in mems => JobDir(j) \in mems'
  /\ cpus'[JobDir(j)] = cpus[JobDir(j)]
  /\ need'[j] = need[j]

LEMMA SparedKept ==
  ASSUME NEW j \in Jobs, Kept(j), Alive(j)' => Alive(j) /\ Spared(j),
         Alive(j)' /\ j \in LocalJobs => (j \in LocalJobs)',
         Alive(j)' /\ job'[j] \in {"begin", "ready"} => job[j] \in {"begin", "ready"}
  PROVE  Kept(j)'
  BY DEF Kept, Spared, Configured

LEMMA CalmListed ==
  ASSUME Listed, \A j \in Jobs: Alive(j)' => Alive(j), joblist \subseteq joblist',
         \A p \in Procs: Running(p, "rename")' => Running(p, "rename")
  PROVE  Listed'
  BY DEF Listed

\* Fewer CPUs on offer still do not suffice.
LEMMA FewerAvailable ==
  ASSUME TypeOK, NEW j \in Jobs, NEW S \in SUBSET Available(j)
  PROVE  Cardinality(S) <= Cardinality(Available(j)) /\ Cardinality(S) \in Nat
         /\ Cardinality(Available(j)) \in Nat
<1>1. IsFiniteSet(Available(j))
  BY CpusFinite, FS_Subset DEF Available
<1> QED
  BY <1>1, FS_Subset, FS_CardinalityType

LEMMA NeedNat == TypeOK => \A j \in Jobs: need[j] \in Nat
<1> SUFFICES ASSUME TypeOK, NEW j \in Jobs PROVE need[j] \in Nat
  OBVIOUS
<1>1. need[j] \in Sizes \cup {0}
  BY DEF TypeOK, ControlOK
<1>2. CASE need[j] \in Sizes
  BY <1>2, SizesPositive
<1>3. CASE need[j] = 0
  BY <1>3
<1> QED
  BY <1>1, <1>2, <1>3

LEMMA CalmRoom ==
  ASSUME TypeOK, NEW j \in Jobs, NoRoom(j), need'[j] = need[j],
         Available(j)' \subseteq Available(j),
         Running(j, "rename")' => Running(j, "rename"),
         Running(j, "reap")' => Running(j, "reap"),
         Running(j, "attempt")' /\ attempt' # 1 => Running(j, "attempt") /\ attempt # 1
  PROVE  NoRoom(j)'
<1>1. /\ Cardinality(Available(j)') <= Cardinality(Available(j))
      /\ Cardinality(Available(j)') \in Nat /\ Cardinality(Available(j)) \in Nat
  BY FewerAvailable
<1>2. need[j] \in Nat
  BY NeedNat
<1>3. CASE need[j] > Cardinality(Available(j))
  BY <1>1, <1>2, <1>3 DEF NoRoom
<1>4. CASE ~(need[j] > Cardinality(Available(j)))
  BY <1>4 DEF NoRoom
<1> QED
  BY <1>3, <1>4

\* While mom is free no hook of a job works on cgroups.
LEMMA MomFreeIdle ==
  ASSUME MomWaits, MomFree, LiveInv, NEW j \in Jobs
  PROVE  pc[j] \notin {"delete", "create", "attempt", "rename", "reap", "mems", "commit"}
  BY DEF MomFree, LiveInv, InPhase, EventsOf

-----------------------------------------------------------------------------
(* Mom's steps.                                                            *)

\* Starting a hook in the phase of its event
LEMMA StartLive ==
  ASSUME MomWaits, TypeOK, LiveInv, NEW p \in Procs, NEW e \in Events, StartHook(p, e),
         UNCHANGED jb,
         \A j \in Jobs \ {p}: job'[j] = job[j] /\ need'[j] = need[j],
         p \in Jobs => /\ job'[p] \in PhaseOf(e) /\ need'[p] \in Sizes
                       /\ e # "begin" => job'[p] = job[p]
                       /\ e = "launch" => p \in jb
                       /\ e \in {"begin", "resize"} \/ need'[p] = need[p]
  PROVE  LiveInv'
<1>1. /\ UNCHANGED <<dirs, cpus, mems, lock, joblist, attempt, cgroupJobs, result>>
      /\ pc' = [pc EXCEPT ![p] = "wait"] /\ event' = [event EXCEPT ![p] = e]
      /\ pc[p] = "idle" /\ MomFree
  BY DEF StartHook, kernel, locals, files
<1>2. /\ pc \in [Procs -> Labels] /\ event \in [Procs -> Events] /\ Jobs \subseteq Procs
  BY DEF TypeOK, ControlOK, Procs
<1>3. \A j \in Jobs: InPhase(j)'
  BY <1>1, <1>2 DEF LiveInv, InPhase, EventsOf
<1>4. \A j \in Jobs: Saved(j)'
  BY <1>1, <1>2 DEF LiveInv, Saved, PhaseOf, Events
<1>5. \A j \in Jobs: Alive(j)' => Alive(j) /\ job'[j] = job[j]
  BY <1>1, <1>2 DEF LiveInv, InPhase, Alive, PhaseOf, Events
<1>6. \A j \in Jobs: Kept(j)'
  <2>1. ASSUME NEW j \in Jobs, Alive(j)' PROVE Kept(j)'
    <3>1. CASE need'[j] = need[j]
      BY <1>1, <1>5, <2>1, <3>1, SparedKept DEF LiveInv, Spared, LocalJobs
    <3>2. CASE need'[j] # need[j]
      <4>1. j = p /\ e = "resize" /\ job'[p] = "running" /\ job[p] = "running"
        BY <1>1, <1>2, <2>1, <3>2 DEF LiveInv, InPhase, Alive, PhaseOf, Events
      <4> QED
        BY <1>1, <1>5, <2>1, <4>1 DEF LiveInv, Kept, LocalJobs, Configured
    <3> QED
      BY <3>1, <3>2
  <2> QED
    BY <2>1 DEF Kept
<1>7. Listed'
  BY <1>1, <1>2, <1>5, CalmListed DEF LiveInv, Running
<1>8. \A j \in Jobs: NoRoom(j)' /\ Made(j)'
  <2>1. \A j \in Jobs: pc'[j] \notin {"delete", "create", "attempt", "rename", "reap", "mems", "commit"}
    BY <1>1, <1>2, MomFreeIdle
  <2> QED
    BY <2>1 DEF NoRoom, Made, Running
<1> QED
  BY <1>3, <1>4, <1>6, <1>7, <1>8 DEF LiveInv

\* A change of the phase, the .JB file or the processes of jobs
LEMMA MomSpares ==
  ASSUME MomWaits, TypeOK, LiveInv,
         UNCHANGED <<dirs, cpus, mems, pc, event, result, lock, assigned, joblist, attempt,
                     need, cgroupJobs>>,
         jb \subseteq jb',
         \A j \in Jobs: InPhase(j)' /\ Saved(j)' /\ (Alive(j)' => Alive(j)),
         \A j \in Jobs: job'[j] \in {"begin", "ready"} => job[j] = job'[j],
         \/ MomFree
         \/ UNCHANGED preempted /\ \A j \in Jobs: Available(j)' \subseteq Available(j)
  PROVE  LiveInv'
<1>1. \A j \in Jobs: Kept(j)'
  BY SparedKept DEF LiveInv, Spared, LocalJobs
<1>2. Listed'
  BY CalmListed DEF LiveInv, Running
<1>3. \A j \in Jobs: NoRoom(j)'
  <2>1. CASE MomFree
    BY <2>1, MomFreeIdle DEF NoRoom, Running
  <2>2. CASE \A j \in Jobs: Available(j)' \subseteq Available(j)
    BY <2>2, CalmRoom DEF LiveInv, Running
  <2> QED
    BY <2>1, <2>2
<1>4. \A j \in Jobs: Made(j)'
  <2>1. CASE MomFree
    BY <2>1, MomFreeIdle DEF Made, Running
  <2>2. CASE UNCHANGED preempted
    BY <2>2 DEF LiveInv, Made, Running
  <2> QED
    BY <2>1, <2>2
<1> QED
  BY <1>1, <1>2, <1>3, <1>4 DEF LiveInv

LEMMA MomLive == MomWaits /\ TypeOK /\ LiveInv /\ MomNext => LiveInv'
<1> SUFFICES ASSUME MomWaits, TypeOK, LiveInv, MomNext PROVE LiveInv'
  OBVIOUS
<1>1. /\ job \in [Jobs -> Phases] /\ need \in [Jobs -> Sizes \cup {0}]
      /\ Jobs \subseteq Procs /\ Periodic \in Procs \ Jobs
  BY ProcsDistinct DEF TypeOK, ControlOK, Procs
<1>2. ASSUME NEW j \in Jobs, Arrive(j) PROVE LiveInv'
  <2>1. /\ StartHook(j, "begin") /\ UNCHANGED jb /\ job'[j] = "begin" /\ need'[j] \in Sizes
        /\ \A k \in Jobs \ {j}: job'[k] = job[k] /\ need'[k] = need[k]
    BY <1>1, <1>2 DEF Arrive, StartHook, files
  <2> QED
    BY <1>1, <2>1, StartLive DEF Events, PhaseOf
<1>3. ASSUME NEW j \in Jobs, Launch(j) \/ Attach(j) \/ Epilogue(j) \/ End(j) PROVE LiveInv'
  <2>1. PICK e \in Events \ {"none", "begin", "periodic"}, phase \in Phases \ {"absent", "begin"}:
          RunJobHook(j, phase, e) /\ phase \in PhaseOf(e) /\ (e = "launch" => j \in jb)
    BY <1>3 DEF Launch, Attach, Epilogue, End, Events, Phases, PhaseOf
  <2>2. StartHook(j, e) /\ UNCHANGED <<job, need, jb>> /\ job[j] = phase
    BY <2>1 DEF RunJobHook, StartHook, mom, files
  <2>3. need[j] \in Sizes
    BY <2>1, <2>2 DEF LiveInv, InPhase
  <2> QED
    BY <1>1, <2>1, <2>2, <2>3, StartLive
<1>4. ASSUME NEW j \in Jobs, Resize(j) PROVE LiveInv'
  <2>1. /\ StartHook(j, "resize") /\ UNCHANGED <<job, jb>> /\ job[j] = "running" /\ need'[j] \in Sizes
        /\ \A k \in Jobs \ {j}: need'[k] = need[k]
    BY <1>1, <1>4 DEF Resize, StartHook, files
  <2> QED
    BY <1>1, <2>1, StartLive DEF Events, PhaseOf
<1>5. CASE Tick
  <2>1. StartHook(Periodic, "periodic") /\ UNCHANGED <<job, need, jb>>
    BY <1>5 DEF Tick, StartHook, mom, files
  <2> QED
    BY <1>1, <2>1, StartLive DEF Events
<1>6. ASSUME NEW j \in Jobs, SaveJob(j) PROVE LiveInv'
  <2>1. /\ UNCHANGED <<dirs, cpus, mems, preempted, pc, event, result, lock, assigned, joblist, attempt,
                       job, need, cgroupJobs>>
        /\ jb' = jb \cup {j} /\ job[j] \in {"begin", "ready"}
    BY <1>6 DEF SaveJob, kernel, mom, procs, locals
  <2>2. \A k \in Jobs: InPhase(k)' /\ Saved(k)' /\ (Alive(k)' => Alive(k))
    BY <2>1 DEF LiveInv, InPhase, Saved, Alive
  <2>3. \A k \in Jobs: Available(k)' \subseteq Available(k)
    BY <2>1 DEF Available
  <2> QED
    BY <2>1, <2>2, <2>3, MomSpares
<1>7. ASSUME NEW j \in Jobs, Suspend(j) \/ Resume(j) \/ JobExit(j) PROVE LiveInv'
  <2>1. /\ UNCHANGED <<dirs, cpus, mems, pc, event, result, lock, assigned, joblist, attempt, need, jb,
                       cgroupJobs>>
        /\ MomFree /\ job[j] \in {"running", "suspended"}
        /\ \E phase \in {"running", "suspended", "exiting"}: job' = [job EXCEPT ![j] = phase]
        /\ pc[j] = "idle" \/ job[j] = "suspended"
    BY <1>7 DEF Suspend, Resume, JobExit, kernel, files, procs, locals
  <2>2. pc[j] = "idle"
    BY <2>1 DEF LiveInv, InPhase, PhaseOf
  <2>3. \A k \in Jobs: InPhase(k)'
    BY <1>1, <2>1, <2>2 DEF LiveInv, InPhase
  <2>4. \A k \in Jobs: Saved(k)'
    BY <1>1, <2>1 DEF LiveInv, Saved
  <2>5. \A k \in Jobs: Alive(k)' => Alive(k)
    BY <1>1, <2>1 DEF Alive
  <2>6. \A k \in Jobs: job'[k] \in {"begin", "ready"} => job[k] = job'[k]
    BY <1>1, <2>1
  <2> QED
    BY <2>1, <2>3, <2>4, <2>5, <2>6, MomSpares
<1>8. ASSUME \/ \E d \in Dirs: TaskExit(d)
             \/ AdminOffline \/ AdminOnline
      PROVE  LiveInv'
  <2>1. UNCHANGED <<dirs, cpus, mems, preempted, pc, event, result, lock, assigned, joblist, attempt,
                    job, need, jb, cgroupJobs>>
    BY <1>8 DEF TaskExit, AdminOffline, AdminOnline, kernel, files, mom, procs, locals
  <2>2. \A k \in Jobs: InPhase(k)' /\ Saved(k)' /\ (Alive(k)' => Alive(k))
    BY <2>1 DEF LiveInv, InPhase, Saved, Alive
  <2>3. \A k \in Jobs: Available(k)' \subseteq Available(k)
    BY <2>1 DEF Available
  <2> QED
    BY <2>1, <2>2, <2>3, MomSpares
<1> QED
  BY <1>2, <1>3, <1>4, <1>5, <1>6, <1>7, <1>8 DEF MomNext

-----------------------------------------------------------------------------
(* The hook's steps.                                                       *)

\* The lock's holder goes on: what is left to show is about the cgroups, the
\* list of jobs and what the holder itself has done.
LEMMA GoToLive ==
  ASSUME TypeOK, LiveInv, NEW p \in Procs, NEW m \in Labels \ {"idle", "exit"},
         NEW l \in Labels \ {"idle", "exit"}, Running(p, m), GoTo(p, l), UNCHANGED jb,
         p \in Jobs => event[p] \in EventsOf(l) /\ NoRoom(p)' /\ Made(p)',
         \A j \in Jobs: Kept(j)',
         l = "rename" => \A j \in Jobs: Alive(j) => j \in joblist'
  PROVE  LiveInv'
<1>1. /\ lock = p /\ pc[p] = m /\ pc' = [pc EXCEPT ![p] = l]
      /\ UNCHANGED <<event, result, lock, job, need>>
  BY DEF Running, GoTo, mom
<1>2. pc \in [Procs -> Labels] /\ Jobs \subseteq Procs
  BY DEF TypeOK, ControlOK, Procs
<1>3. \A j \in Jobs: InPhase(j)'
  BY <1>1, <1>2 DEF LiveInv, InPhase
<1>4. \A j \in Jobs: Saved(j)' /\ (Alive(j)' <=> Alive(j))
  BY <1>1 DEF LiveInv, Saved, Alive
<1>5. Listed'
  BY <1>1, <1>2, <1>4 DEF Listed, Running
<1>6. \A j \in Jobs: NoRoom(j)' /\ Made(j)'
  BY <1>1 DEF NoRoom, Made, Running
<1> QED
  BY <1>3, <1>4, <1>5, <1>6 DEF LiveInv

\* A hook answers and frees the lock.
LEMMA FinishLive ==
  ASSUME TypeOK, LiveInv, NEW p \in Procs, NEW r, pc[p] \notin {"idle", "exit"}, Finish(p, r),
         UNCHANGED jb, \A j \in Jobs: Kept(j)'
  PROVE  LiveInv'
<1>1. /\ pc' = [pc EXCEPT ![p] = "exit"] /\ result' = [result EXCEPT ![p] = r] /\ lock' = NoOne
      /\ UNCHANGED <<event, job, need>>
  BY DEF Finish, mom
<1>2. /\ pc \in [Procs -> Labels] /\ Jobs \subseteq Procs /\ NoOne \notin Procs
      /\ event \in [Procs -> Events] /\ result \in [Procs -> Results]
  BY ProcsDistinct DEF TypeOK, ControlOK, Procs
<1>3. \A j \in Jobs: InPhase(j)'
  BY <1>1, <1>2 DEF LiveInv, InPhase, EventsOf
<1>4. \A j \in Jobs: Saved(j)'
  BY <1>1 DEF LiveInv, Saved
<1>5. Listed' /\ \A j \in Jobs: NoRoom(j)' /\ Made(j)'
  BY <1>1, <1>2 DEF Listed, NoRoom, Made, Running
<1> QED
  BY <1>3, <1>4, <1>5 DEF LiveInv

\* Who is alive after a step of the hook.
LEMMA StillAlive ==
  ASSUME TypeOK, LiveInv, NEW p \in Procs, pc[p] # "exit",
         \/ \E l \in Labels: GoTo(p, l)
         \/ \E r \in Results: Finish(p, r) /\ (r = "accept" /\ p \in Jobs => event[p] # "begin")
  PROVE  UNCHANGED <<job, need>> /\ \A j \in Jobs: Alive(j)' => Alive(j)
<1>1. CASE \E l \in Labels: GoTo(p, l)
  BY <1>1 DEF GoTo, mom, Alive
<1>2. ASSUME NEW r \in Results, Finish(p, r), r = "accept" /\ p \in Jobs => event[p] # "begin"
      PROVE  UNCHANGED <<job, need>> /\ \A j \in Jobs: Alive(j)' => Alive(j)
  <2>1. UNCHANGED <<job, need>> /\ result' = [result EXCEPT ![p] = r] /\ result \in [Procs -> Results]
    BY <1>2 DEF Finish, mom, TypeOK, ControlOK
  <2>2. p \in Jobs /\ pc[p] # "idle" => event[p] = "begin" \/ job[p] # "begin"
    BY DEF LiveInv, InPhase, PhaseOf
  <2>3. p \in Jobs /\ pc[p] = "idle" => job[p] # "begin"
    BY DEF LiveInv, InPhase
  <2> QED
    BY <1>2, <2>1, <2>2, <2>3 DEF Alive
<1> QED
  BY <1>1, <1>2

\* A step of the hook that leaves the cgroups of live jobs and the lists alone
LEMMA SparedStep ==
  ASSUME TypeOK, LiveInv, NEW p \in Procs, pc[p] # "exit",
         \/ \E l \in Labels: GoTo(p, l)
         \/ \E r \in Results: Finish(p, r) /\ (r = "accept" /\ p \in Jobs => event[p] # "begin"),
         \A j \in Jobs: Alive(j) /\ j \in LocalJobs => (j \in LocalJobs)',
         \/ UNCHANGED <<dirs, cpus, mems>>
         \/ \A j \in Jobs: Alive(j) /\ need'[j] = need[j] => Spared(j)
  PROVE  \A j \in Jobs: Kept(j)'
<1>1. UNCHANGED <<job, need>> /\ \A j \in Jobs: Alive(j)' => Alive(j)
  BY StillAlive
<1>2. \A j \in Jobs: Alive(j) => Spared(j)
  BY <1>1 DEF Spared
<1> QED
  BY <1>1, <1>2, SparedKept DEF LiveInv

\* Removing the cgroup of a job that is not alive, or an orphan
LEMMA RemoveSpares ==
  ASSUME NEW p \in Procs, NEW d \in Dirs,
         RemoveTrue(d) \/ RemoveFalse(p, d) \/ RemoveRaises(d),
         KernelOK, NEW j \in Jobs, d # JobDir(j), need'[j] = need[j]
  PROVE  Spared(j)
<1>1. CASE UNCHANGED kernel
  BY <1>1 DEF kernel, Spared
<1>2. CASE Gone(d)
  BY <1>2, DirsOfJobs DEF Gone, Spared, KernelOK
<1> QED
  BY <1>1, <1>2 DEF RemoveTrue, RemoveFalse, RemoveRaises, RmdirBusy, TasksSurvive

LEMMA AcquireLive ==
  ASSUME TypeOK, ExclusiveInv, LiveInv, NEW p \in Procs, Acquire(p)
  PROVE  LiveInv'
<1>1. /\ UNCHANGED <<dirs, cpus, mems, cgroupJobs, jb, event, job, need>> /\ pc[p] = "wait"
  BY DEF Acquire, Abort, Finish, mom, files, kernel
<1>2. CASE Abort(p)
  <2>1. \E r \in {"reject", "hold"}: Finish(p, r)
    BY <1>2 DEF Abort
  <2>2. \A j \in Jobs: Kept(j)'
    BY <1>1, <2>1, SparedStep DEF Results, LocalJobs
  <2> QED
    BY <1>1, <2>1, <2>2, FinishLive
<1>3. CASE ~Abort(p)
  <2>1. /\ lock' = p /\ UNCHANGED result
        /\ pc' = [pc EXCEPT ![p] = FirstLabel(event[p])]
        /\ p = Periodic => joblist' = snapshot \cup LocalJobs
        /\ attempt' = IF event[p] \in {"begin", "resize"} THEN 1 ELSE 0
    BY <1>3 DEF Acquire
  <2>2. /\ pc \in [Procs -> Labels] /\ Jobs \subseteq Procs /\ Periodic \notin Jobs
        /\ p \in Jobs => event[p] \in Events \ {"none", "periodic"}
    BY <1>1, ProcsDistinct DEF TypeOK, ControlOK, Procs, ExclusiveInv, EventsFit
  <2>3. \A j \in Jobs: InPhase(j)'
    BY <1>1, <2>1, <2>2 DEF LiveInv, InPhase, FirstLabel, EventsOf, Events
  <2>4. \A j \in Jobs: Saved(j)' /\ Kept(j)' /\ (Alive(j)' <=> Alive(j))
    BY <1>1, <2>1 DEF LiveInv, Saved, Kept, Alive, LocalJobs, Configured
  <2>5. Listed'
    <3>1. SUFFICES ASSUME Running(p, "rename")', NEW j \in Jobs, Alive(j) PROVE j \in joblist'
      BY <2>1, <2>4 DEF Listed, Running
    <3>2. p = Periodic
      BY <2>1, <2>2, <3>1 DEF Running, FirstLabel, Events, Procs
    <3>3. j \in LocalJobs
      BY <3>1 DEF LiveInv, Kept
    <3> QED
      BY <2>1, <3>2, <3>3
  <2>6. ASSUME NEW j \in Jobs PROVE NoRoom(j)' /\ Made(j)'
    <3>1. CASE j = p
      BY <1>1, <2>1, <2>2, <3>1 DEF NoRoom, Made, Running, FirstLabel, Events
    <3>2. CASE j # p
      BY <2>1, <3>2 DEF NoRoom, Made, Running
    <3> QED
      BY <3>1, <3>2
  <2> QED
    BY <2>3, <2>4, <2>5, <2>6 DEF LiveInv
<1> QED
  BY <1>2, <1>3

\* A hook that has not begun to write its cgroup has made nothing yet.
LEMMA DequeueLive ==
  ASSUME ~GatherMayFail, TypeOK, LiveInv, NEW j \in Jobs, Dequeue(j)
  PROVE  LiveInv'
<1>1. /\ Running(j, "dequeue") /\ cgroupJobs' = cgroupJobs \ {j} /\ UNCHANGED <<dirs, cpus, mems, jb>>
      /\ GoTo(j, IF event[j] \in {"launch", "attach"} THEN "pids" ELSE "delete")
      /\ j \in Procs
  BY DEF Dequeue, AfterDequeue, Rewritten, kernel, Procs
<1>2. pc[j] = "dequeue" /\ event[j] \in EventsOf("dequeue")
  BY <1>1 DEF Running, LiveInv, InPhase
<1>3. pc'[j] = IF event[j] \in {"launch", "attach"} THEN "pids" ELSE "delete"
  BY <1>1 DEF GoTo, TypeOK, ControlOK
<1>4. Alive(j) => j \in jb
  BY <1>1, <1>2 DEF Running, LiveInv, InPhase, Saved, EventsOf, PhaseOf, Alive
<1>5. \A k \in Jobs: Kept(k)'
  BY <1>1, <1>2, <1>4, SparedStep DEF LocalJobs, Labels
<1>6. NoRoom(j)' /\ Made(j)'
  BY <1>1, <1>2, <1>3 DEF NoRoom, Made, Running, GoTo, EventsOf
<1> QED
  BY <1>1, <1>2, <1>5, <1>6, GoToLive DEF EventsOf, Labels

LEMMA AddPidsLive ==
  ASSUME TypeOK, LiveInv, NEW j \in Jobs, AddPids(j)
  PROVE  LiveInv'
<1>1. /\ pc[j] = "pids" /\ Finish(j, "accept") /\ UNCHANGED <<dirs, cpus, mems, jb, cgroupJobs>>
      /\ j \in Procs
  BY DEF AddPids, Running, files, Procs
<1>2. event[j] # "begin"
  BY <1>1 DEF LiveInv, InPhase, EventsOf
<1>3. \A k \in Jobs: Kept(k)'
  BY <1>1, <1>2, SparedStep DEF LocalJobs, Results
<1> QED
  BY <1>1, <1>3, FinishLive

LEMMA DeleteLive ==
  ASSUME TypeOK, LiveInv, NEW j \in Jobs, Delete(j)
  PROVE  LiveInv'
<1>1. /\ Running(j, "delete") /\ pc[j] = "delete" /\ UNCHANGED <<jb, cgroupJobs>>
      /\ j \in Procs /\ JobDir(j) \in Dirs
      /\ Abort(j) \/ AfterDelete(j)
  BY DirsOfJobs DEF Delete, Running, Procs
<1>2. /\ event[j] \in {"begin", "epilogue", "end"} /\ ~Alive(j)
  BY <1>1 DEF LiveInv, InPhase, EventsOf, PhaseOf, Alive
<1>3. \/ event[j] = "begin" /\ GoTo(j, "create") /\ UNCHANGED locals
      \/ \E r \in Results: Finish(j, r) /\ (r = "accept" => event[j] # "begin")
  BY <1>1 DEF Abort, AfterDelete, Results
<1>4. \A k \in Jobs: Kept(k)'
  <2>1. ASSUME NEW k \in Jobs, k # j, need'[k] = need[k], JobDir(j) \in dirs PROVE Spared(k)
    <3>1. JobDir(j) # JobDir(k)
      BY <2>1 DEF JobDir
    <3>2. RemoveTrue(JobDir(j)) \/ RemoveFalse(j, JobDir(j)) \/ RemoveRaises(JobDir(j))
      BY <2>1 DEF Delete
    <3> QED
      BY <1>1, <2>1, <3>1, <3>2, RemoveSpares DEF TypeOK
  <2>2. \/ UNCHANGED <<dirs, cpus, mems>>
        \/ \A k \in Jobs: Alive(k) /\ need'[k] = need[k] => Spared(k)
    BY <1>2, <2>1 DEF Delete, kernel
  <2> QED
    BY <1>1, <1>3, <2>2, SparedStep DEF LocalJobs, Labels
<1>5. CASE event[j] = "begin" /\ GoTo(j, "create") /\ UNCHANGED locals
  <2>1. pc'[j] = "create" /\ UNCHANGED <<attempt, lock, event>>
    BY <1>1, <1>5 DEF GoTo, TypeOK, ControlOK, locals
  <2>2. attempt = 1
    BY <1>1, <1>5 DEF LiveInv, Made
  <2>3. NoRoom(j)' /\ Made(j)'
    BY <1>5, <2>1, <2>2 DEF NoRoom, Made, Running
  <2> QED
    BY <1>1, <1>4, <1>5, <2>3, GoToLive DEF EventsOf, Labels
<1> QED
  BY <1>1, <1>3, <1>4, <1>5, FinishLive

LEMMA CreateLive ==
  ASSUME TypeOK, LiveInv, NEW j \in Jobs, CreateJob(j)
  PROVE  LiveInv'
<1>1. /\ Running(j, "create") /\ pc[j] = "create" /\ GoTo(j, "attempt") /\ j \in Procs
      /\ dirs' = dirs \cup {JobDir(j)} /\ UNCHANGED <<cpus, mems, jb, cgroupJobs, attempt>>
  BY DEF CreateJob, Running, Procs, files
<1>2. pc'[j] = "attempt" /\ UNCHANGED <<event, need>>
  BY <1>1 DEF GoTo, TypeOK, ControlOK, mom
<1>3. event[j] = "begin" /\ attempt = 1
  BY <1>1 DEF LiveInv, InPhase, EventsOf, Made
<1>4. \A k \in Jobs: Kept(k)'
  <2>1. \A k \in Jobs: Spared(k)
    BY <1>1, <1>2 DEF Spared
  <2> QED
    BY <1>1, <2>1, SparedStep DEF LocalJobs, Labels
<1>5. NoRoom(j)' /\ Made(j)'
  BY <1>1, <1>2, <1>3 DEF NoRoom, Made, Running
<1> QED
  BY <1>1, <1>3, <1>4, <1>5, GoToLive DEF EventsOf, Labels

\* CPUs are found only in a first attempt, and never none.
LEMMA AssignLive ==
  ASSUME TypeOK, LiveInv, NEW j \in Jobs, Assign(j)
  PROVE  LiveInv'
<1>1. /\ Running(j, "attempt") /\ pc[j] = "attempt" /\ GoTo(j, "mems") /\ j \in Procs
      /\ UNCHANGED <<dirs, mems, jb, cgroupJobs>> /\ preempted' = preempted \ {JobDir(j)}
  BY DEF Assign, Running, Procs, files
<1>2. PICK S \in SUBSET Available(j):
        /\ Cardinality(S) = need[j]
        /\ cpus' = IF JobDir(j) \in dirs THEN [cpus EXCEPT ![JobDir(j)] = S] ELSE cpus
  BY DEF Assign
<1>3. pc'[j] = "mems" /\ UNCHANGED <<event, need, job, result>>
  BY <1>1 DEF GoTo, TypeOK, ControlOK, mom
<1>4. /\ event[j] \in {"begin", "resize"} /\ job[j] \in PhaseOf(event[j]) /\ result[j] = "none"
      /\ need[j] \in Sizes
  BY <1>1 DEF LiveInv, InPhase, EventsOf, PhaseOf
<1>5. attempt = 1
  BY <1>1, <1>2, NeedNat, FewerAvailable DEF LiveInv, NoRoom
<1>6. S # {}
  <2>1. need[j] # 0
    BY <1>4, SizesPositive
  <2> QED
    BY <1>2, <2>1, FS_EmptySet
<1>7. JobDir(j) \in Dirs /\ cpus \in [Dirs -> SUBSET Cpus]
  BY DirsOfJobs DEF TypeOK, KernelOK
<1>8. \A k \in Jobs: Kept(k)'
  <2>1. ASSUME NEW k \in Jobs, k # j PROVE Kept(k)'
    <3>1. JobDir(k) # JobDir(j) /\ JobDir(k) \in Dirs
      BY <2>1, DirsOfJobs DEF JobDir
    <3>2. Spared(k)
      BY <1>1, <1>2, <1>3, <1>7, <3>1 DEF Spared
    <3>3. Alive(k)' <=> Alive(k)
      BY <1>3 DEF Alive
    <3> QED
      BY <1>1, <1>3, <3>2, <3>3, SparedKept DEF LiveInv, LocalJobs
  <2>2. Kept(j)'
    BY <1>1, <1>2, <1>3, <1>4, <1>6, <1>7 DEF LiveInv, Kept, Alive, PhaseOf, Configured, LocalJobs
  <2> QED
    BY <2>1, <2>2
<1>9. NoRoom(j)' /\ Made(j)'
  <2>1. NoRoom(j)'
    BY <1>3 DEF NoRoom, Running
  <2>2. event[j] = "begin" => JobDir(j) \in dirs
    BY <1>1, <1>5 DEF LiveInv, Made
  <2>3. Made(j)'
    BY <1>1, <1>2, <1>3, <1>7, <2>2 DEF Made, Running
  <2> QED
    BY <2>1, <2>3
<1> QED
  BY <1>1, <1>4, <1>8, <1>9, GoToLive DEF EventsOf, Labels

LEMMA SetMemsLive ==
  ASSUME TypeOK, LiveInv, NEW j \in Jobs, SetMems(j)
  PROVE  LiveInv'
<1>1. /\ Running(j, "mems") /\ pc[j] = "mems" /\ GoTo(j, "commit") /\ j \in Procs
      /\ mems' = IF JobDir(j) \in dirs THEN mems \cup {JobDir(j)} ELSE mems
      /\ UNCHANGED <<dirs, cpus, preempted, jb, cgroupJobs>>
  BY DEF SetMems, Running, Procs, files
<1>2. pc'[j] = "commit" /\ UNCHANGED <<event, need, lock>>
  BY <1>1 DEF GoTo, TypeOK, ControlOK, mom
<1>3. event[j] \in {"begin", "resize"}
  BY <1>1 DEF LiveInv, InPhase, EventsOf
<1>4. \A k \in Jobs: Kept(k)'
  <2>1. \A k \in Jobs: Spared(k)
    BY <1>1, <1>2 DEF Spared
  <2> QED
    BY <1>1, <2>1, SparedStep DEF LocalJobs, Labels
<1>5. NoRoom(j)' /\ Made(j)'
  BY <1>1, <1>2 DEF LiveInv, NoRoom, Made, Running
<1> QED
  BY <1>1, <1>3, <1>4, <1>5, GoToLive DEF EventsOf, Labels

\* With the acceptance of its begin event a job comes alive.
LEMMA CommitLive ==
  ASSUME ~GatherMayFail, TypeOK, LiveInv, NEW j \in Jobs, Commit(j)
  PROVE  LiveInv'
<1>1. /\ Running(j, "commit") /\ pc[j] = "commit" /\ Finish(j, "accept") /\ j \in Procs
      /\ cgroupJobs' = IF event[j] = "begin" THEN cgroupJobs \cup {j} ELSE cgroupJobs
      /\ UNCHANGED <<dirs, cpus, mems, jb>>
  BY DEF Commit, Rewritten, Running, Procs, kernel
<1>2. UNCHANGED <<job, need>> /\ result' = [result EXCEPT ![j] = "accept"]
  BY <1>1 DEF Finish, mom
<1>3. /\ job[j] \in PhaseOf(event[j]) /\ event[j] \in {"begin", "resize"} /\ need[j] \in Sizes
  BY <1>1 DEF LiveInv, InPhase, EventsOf, PhaseOf
<1>4. ASSUME NEW k \in Jobs, k # j \/ event[j] # "begin" PROVE Kept(k)'
  <2>1. Alive(k)' => Alive(k)
    BY <1>2, <1>3, <1>4 DEF Alive, PhaseOf
  <2> QED
    BY <1>1, <1>2, <2>1, SparedKept DEF LiveInv, Spared, LocalJobs
<1>5. event[j] = "begin" => Kept(j)'
  <2>1. SUFFICES ASSUME event[j] = "begin" PROVE Kept(j)'
    OBVIOUS
  <2>2. JobDir(j) \in dirs /\ JobDir(j) \in mems /\ Cardinality(cpus[JobDir(j)]) = need[j]
    BY <1>1, <2>1 DEF LiveInv, Made
  <2>3. cpus[JobDir(j)] # {}
    <3>1. need[j] # 0
      BY <1>3, SizesPositive
    <3> QED
      BY <2>2, <3>1, FS_EmptySet
  <2> QED
    BY <1>1, <1>2, <2>1, <2>2, <2>3 DEF Kept, LocalJobs, Configured
<1> QED
  BY <1>1, <1>4, <1>5, FinishLive

\* A second attempt, after one that did not fit
LEMMA NextAttemptLive ==
  ASSUME TypeOK, LiveInv, NEW p \in Procs, NEW m \in {"attempt", "reap"}, Running(p, m), NextAttempt(p),
         UNCHANGED <<dirs, cpus, mems, jb, cgroupJobs>>,
         p \in Jobs => need[p] > Cardinality(Available(p))
  PROVE  LiveInv'
<1>1. pc[p] = m
  BY DEF Running
<1>2. \/ GoTo(p, "attempt") /\ attempt' = 2 /\ UNCHANGED assigned
      \/ Finish(p, "rerun")
  BY DEF NextAttempt
<1>3. \A j \in Jobs: Kept(j)'
  BY <1>1, <1>2, SparedStep DEF LocalJobs, Labels, Results
<1>4. CASE GoTo(p, "attempt") /\ attempt' = 2 /\ UNCHANGED assigned
  <2>1. UNCHANGED <<event, job, need>> /\ pc'[p] = "attempt"
    BY <1>4 DEF GoTo, mom, TypeOK, ControlOK
  <2>2. p \in Jobs => NoRoom(p)'
    BY <1>4, <2>1 DEF NoRoom, Available
  <2>3. p \in Jobs => Made(p)'
    BY <1>4, <2>1 DEF Made, Running
  <2>4. p \in Jobs => event[p] \in EventsOf("attempt")
    BY <1>1 DEF LiveInv, InPhase, EventsOf
  <2> QED
    BY <1>1, <1>3, <1>4, <2>2, <2>3, <2>4, GoToLive DEF Labels
<1> QED
  BY <1>1, <1>2, <1>3, <1>4, FinishLive

\* The list of local jobs a begin event reads has every job that is alive.
LEMMA AssignFailsLive ==
  ASSUME ~GatherMayFail, TypeOK, LiveInv, NEW j \in Jobs, AssignFails(j)
  PROVE  LiveInv'
<1>1. /\ Running(j, "attempt") /\ pc[j] = "attempt" /\ j \in Procs
      /\ need[j] > Cardinality(Available(j)) /\ UNCHANGED <<dirs, cpus, mems, jb, cgroupJobs>>
  BY DEF AssignFails, Running, Procs, kernel, files
<1>2. \/ NextAttempt(j)
      \/ joblist' = LocalJobs /\ GoTo(j, "rename") /\ UNCHANGED assigned
  BY DEF AssignFails
<1>3. CASE joblist' = LocalJobs /\ GoTo(j, "rename") /\ UNCHANGED assigned
  <2>1. UNCHANGED <<event, job, need>> /\ pc'[j] = "rename"
    BY <1>1, <1>3 DEF GoTo, mom, TypeOK, ControlOK
  <2>2. NoRoom(j)'
    BY <1>1, <2>1, <1>3 DEF NoRoom, Available
  <2>3. Made(j)'
    BY <2>1 DEF Made, Running
  <2>4. event[j] \in EventsOf("rename")
    BY <1>1 DEF LiveInv, InPhase, EventsOf
  <2>5. \A k \in Jobs: Kept(k)'
    BY <1>1, <1>3, SparedStep DEF LocalJobs, Labels
  <2>6. \A k \in Jobs: Alive(k) => k \in joblist'
    BY <1>3 DEF LiveInv, Kept
  <2> QED
    BY <1>1, <1>3, <2>2, <2>3, <2>4, <2>5, <2>6, GoToLive DEF Labels
<1> QED
  BY <1>1, <1>2, <1>3, NextAttemptLive

\* Renaming spares the cgroups of the jobs on the list.
LEMMA RenameLive ==
  ASSUME TypeOK, LiveInv, NEW p \in Procs, RenameOrphans(p)
  PROVE  LiveInv'
<1> DEFINE lost == {j \in Jobs \ joblist: JobDir(j) \in dirs /\ OrphanDir(j) \notin dirs}
           From(d) == IF d[1] \in lost /\ d[2] = "orphan" THEN JobDir(d[1]) ELSE d
           old == {JobDir(j): j \in lost}
           Moved(S) == (S \ old) \cup {OrphanDir(j): j \in {k \in lost: JobDir(k) \in S}}
<1>1. /\ dirs' = Moved(dirs) /\ mems' = Moved(mems)
      /\ cpus' = [d \in Dirs |-> IF d \in old THEN {} ELSE cpus[From(d)]]
      /\ Running(p, "rename") /\ pc[p] = "rename" /\ GoTo(p, "reap")
      /\ UNCHANGED <<assigned, jb, cgroupJobs, attempt>>
  BY DEF RenameOrphans, Running, files
<1>2. UNCHANGED <<event, job, need, lock>> /\ pc'[p] = "reap"
  BY <1>1 DEF GoTo, mom, TypeOK, ControlOK
<1>3. ASSUME NEW j \in Jobs, Alive(j) PROVE Spared(j)
  <2>1. j \in joblist
    BY <1>1, <1>3 DEF LiveInv, Listed
  <2>2. JobDir(j) \notin old /\ From(JobDir(j)) = JobDir(j) /\ JobDir(j) \in Dirs
    BY <2>1, DirsOfJobs DEF JobDir
  <2> QED
    BY <1>1, <1>2, <2>2 DEF Spared
<1>4. \A j \in Jobs: Kept(j)'
  <2> HIDE DEF lost, From, old, Moved
  <2> QED
    BY <1>1, <1>3, SparedStep DEF LocalJobs, Labels
<1>5. p \in Jobs => NoRoom(p)' /\ Made(p)' /\ event[p] \in EventsOf("reap")
  <2> HIDE DEF lost, From, old, Moved
  <2>1. p \in Jobs => NoRoom(p)'
    BY <1>1, <1>2 DEF LiveInv, NoRoom, Available
  <2>2. p \in Jobs => Made(p)' /\ event[p] \in EventsOf("reap")
    BY <1>1, <1>2 DEF LiveInv, InPhase, Made, Running, EventsOf
  <2> QED
    BY <2>1, <2>2
<1> QED
  BY <1>1, <1>4, <1>5, GoToLive DEF Labels

LEMMA ReapLive ==
  ASSUME TypeOK, LiveInv, NEW p \in Procs, ReapOrphan(p)
  PROVE  LiveInv'
<1>1. PICK j \in todo:
        /\ RemoveTrue(OrphanDir(j)) \/ RemoveFalse(p, OrphanDir(j)) \/ RemoveRaises(OrphanDir(j))
        /\ (GoTo(p, "reap") /\ UNCHANGED <<assigned, attempt>>) \/ Abort(p)
  BY DEF ReapOrphan
<1>2. /\ Running(p, "reap") /\ pc[p] = "reap" /\ UNCHANGED <<jb, cgroupJobs>>
      /\ j \in Jobs /\ OrphanDir(j) \in Dirs
  BY DirsOfJobs DEF ReapOrphan, Running, TypeOK, LocalsOK
<1>3. ASSUME NEW k \in Jobs, need'[k] = need[k] PROVE Spared(k)
  <2>1. OrphanDir(j) # JobDir(k)
    BY DEF OrphanDir, JobDir
  <2> QED
    BY <1>1, <1>2, <1>3, <2>1, RemoveSpares DEF TypeOK
<1>4. \/ GoTo(p, "reap") /\ UNCHANGED <<assigned, attempt>>
      \/ \E r \in Results \ {"accept"}: Finish(p, r)
  BY <1>1 DEF Abort, Results
<1>5. \A k \in Jobs: Kept(k)'
  BY <1>2, <1>3, <1>4, SparedStep DEF LocalJobs, Labels
<1>6. CASE GoTo(p, "reap") /\ UNCHANGED <<assigned, attempt>>
  <2>1. UNCHANGED <<event, job, need, lock>> /\ pc'[p] = "reap"
    BY <1>6 DEF GoTo, mom, TypeOK, ControlOK
  <2>2. p \in Jobs => NoRoom(p)'
    BY <1>2, <1>6, <2>1 DEF LiveInv, NoRoom, Available
  <2>3. p \in Jobs => Made(p)' /\ event[p] \in EventsOf("reap")
    BY <1>2, <2>1 DEF LiveInv, InPhase, Made, Running, EventsOf
  <2> QED
    BY <1>2, <1>5, <1>6, <2>2, <2>3, GoToLive DEF Labels
<1> QED
  BY <1>2, <1>4, <1>5, <1>6, FinishLive

LEMMA ReapedLive ==
  ASSUME TypeOK, LiveInv, NEW p \in Procs, OrphansReaped(p)
  PROVE  LiveInv'
<1>1. /\ Running(p, "reap") /\ pc[p] = "reap" /\ UNCHANGED <<dirs, cpus, mems, jb, cgroupJobs>>
  BY DEF OrphansReaped, Running, kernel, files
<1>2. CASE p # Periodic
  <2>1. NextAttempt(p) /\ p \in Jobs
    BY <1>2 DEF OrphansReaped, Procs
  <2>2. need[p] > Cardinality(Available(p))
    BY <1>1, <2>1 DEF LiveInv, NoRoom
  <2> QED
    BY <1>1, <2>1, <2>2, NextAttemptLive
<1>3. CASE p = Periodic
  <2>1. p \notin Jobs /\ (Finish(p, "accept") \/ GoTo(p, "online"))
    BY <1>3, ProcsDistinct DEF OrphansReaped
  <2>2. \A j \in Jobs: Kept(j)'
    BY <1>1, <2>1, SparedStep DEF LocalJobs, Labels, Results
  <2>3. CASE Finish(p, "accept")
    BY <1>1, <2>2, <2>3, FinishLive
  <2>4. CASE GoTo(p, "online")
    BY <1>1, <2>1, <2>2, <2>4, GoToLive DEF Labels
  <2> QED
    BY <2>1, <2>3, <2>4
<1> QED
  BY <1>2, <1>3

LEMMA OnlineLive ==
  ASSUME TypeOK, LiveInv, BringOnline
  PROVE  LiveInv'
<1>1. /\ pc[Periodic] = "online" /\ Finish(Periodic, "accept")
      /\ UNCHANGED <<dirs, cpus, mems, jb, cgroupJobs>> /\ Periodic \in Procs \ Jobs
  BY ProcsDistinct DEF BringOnline, Running, kernel, Procs
<1>2. \A j \in Jobs: Kept(j)'
  BY <1>1, SparedStep DEF LocalJobs, Results
<1> QED
  BY <1>1, <1>2, FinishLive

LEMMA HookLive ==
  ASSUME ~GatherMayFail
  PROVE  TypeOK /\ ExclusiveInv /\ LiveInv /\ (\E p \in Procs: Acquire(p) \/ HookStep(p)) => LiveInv'
  BY AcquireLive, DequeueLive, AddPidsLive, DeleteLive, CreateLive, AssignLive, AssignFailsLive,
     RenameLive, ReapLive, ReapedLive, SetMemsLive, CommitLive, OnlineLive
  DEF HookStep, JobHookStep, CleanupStep, Procs

-----------------------------------------------------------------------------
(* The end of a hook.                                                      *)

LEMMA KilledLive ==
  ASSUME TypeOK, LiveInv, NEW p \in Procs, HookKilled(p)
  PROVE  LiveInv'
<1>1. /\ pc[p] # "idle" /\ pc' = [pc EXCEPT ![p] = "exit"] /\ result' = [result EXCEPT ![p] = "killed"]
      /\ UNCHANGED <<event, job, need, dirs, cpus, mems, preempted, jb, cgroupJobs>>
      /\ lock = p => lock' = NoOne
      /\ lock # p => UNCHANGED <<lock, assigned, joblist, attempt>>
  BY DEF HookKilled, kernel, files, mom, locals
<1>2. /\ pc \in [Procs -> Labels] /\ Jobs \subseteq Procs /\ NoOne \notin Procs
      /\ event \in [Procs -> Events] /\ result \in [Procs -> Results]
  BY ProcsDistinct DEF TypeOK, ControlOK, Procs
<1>3. \A j \in Jobs: InPhase(j)'
  BY <1>1, <1>2 DEF LiveInv, InPhase, EventsOf
<1>4. \A j \in Jobs: Saved(j)' /\ (Alive(j)' => Alive(j))
  BY <1>1, <1>2 DEF LiveInv, Saved, Alive
<1>5. \A j \in Jobs: Kept(j)'
  BY <1>1, <1>4, SparedKept DEF LiveInv, Spared, LocalJobs
<1>6. Listed' /\ \A j \in Jobs: NoRoom(j)' /\ Made(j)'
  <2>1. CASE lock = p
    BY <1>1, <1>2, <2>1 DEF Listed, NoRoom, Made, Running
  <2>2. CASE lock # p
    <3>1. Listed'
      BY <1>1, <1>2, <1>4, <2>2 DEF LiveInv, Listed, Running
    <3>2. \A j \in Jobs: Available(j)' = Available(j) /\ need'[j] = need[j]
      BY <1>1, <2>2 DEF Available
    <3>3. \A j \in Jobs: NoRoom(j)' /\ Made(j)'
      BY <1>1, <1>2, <2>2, <3>2 DEF LiveInv, NoRoom, Made, Running
    <3> QED
      BY <3>1, <3>3
  <2> QED
    BY <2>1, <2>2
<1> QED
  BY <1>3, <1>4, <1>5, <1>6 DEF LiveInv

LEMMA CollectLive ==
  ASSUME TypeOK, LiveInv, NEW p \in Procs, Collect(p)
  PROVE  LiveInv'
<1>1. /\ pc[p] = "exit" /\ pc' = [pc EXCEPT ![p] = "idle"] /\ event' = [event EXCEPT ![p] = "none"]
      /\ result' = [result EXCEPT ![p] = "none"]
      /\ UNCHANGED <<lock, assigned, joblist, attempt, dirs, cpus, mems, preempted, cgroupJobs>>
  BY DEF Collect, locals, kernel
<1>2. /\ pc \in [Procs -> Labels] /\ Jobs \subseteq Procs /\ job \in [Jobs -> Phases]
      /\ event \in [Procs -> Events] /\ result \in [Procs -> Results]
      /\ need \in [Jobs -> Sizes \cup {0}]
  BY DEF TypeOK, ControlOK, Procs
<1>3. /\ \A j \in Jobs \ {p}: job'[j] = job[j] /\ need'[j] = need[j] /\ (j \in jb' <=> j \in jb)
      /\ p \in Jobs => /\ job'[p] = NextPhase(event[p], result[p], job[p])
                       /\ job'[p] # "absent" => need'[p] = need[p] /\ (p \in jb' <=> p \in jb)
  BY <1>2, ProcsDistinct DEF Collect, mom
<1>4. p \in Jobs =>
        /\ job[p] \in PhaseOf(event[p])
        /\ job'[p] \in {"absent", "ready", "running", "exiting", "ending"}
        /\ job'[p] = "ready" => job[p] = "begin" /\ result[p] = "accept"
        /\ job'[p] = "running" => job[p] = "running" \/ (job[p] = "ready" /\ event[p] = "launch")
  BY <1>1, <1>3 DEF LiveInv, InPhase, PhaseOf, NextPhase
<1>5. \A j \in Jobs: InPhase(j)'
  <2>1. ASSUME NEW j \in Jobs, j = p PROVE InPhase(j)'
    BY <1>1, <1>2, <1>3, <1>4, <2>1 DEF LiveInv, InPhase, PhaseOf
  <2>2. ASSUME NEW j \in Jobs, j # p PROVE InPhase(j)'
    BY <1>1, <1>2, <1>3, <2>2 DEF LiveInv, InPhase
  <2> QED
    BY <2>1, <2>2
<1>6. \A j \in Jobs: Saved(j)'
  <2>1. ASSUME NEW j \in Jobs, j = p PROVE Saved(j)'
    BY <1>1, <1>2, <1>3, <1>4, <2>1 DEF LiveInv, Saved
  <2>2. ASSUME NEW j \in Jobs, j # p PROVE Saved(j)'
    BY <1>1, <1>2, <1>3, <2>2 DEF LiveInv, Saved
  <2> QED
    BY <2>1, <2>2
<1>7. ASSUME NEW j \in Jobs, Alive(j)'
      PROVE  /\ Alive(j) /\ need'[j] = need[j] /\ (j \in jb => j \in jb')
             /\ job'[j] \in {"begin", "ready"} => job[j] \in {"begin", "ready"}
  <2>1. CASE j = p
    BY <1>1, <1>2, <1>3, <1>4, <1>7, <2>1 DEF Alive
  <2>2. CASE j # p
    BY <1>1, <1>2, <1>3, <1>7, <2>2 DEF Alive
  <2> QED
    BY <2>1, <2>2
<1>8. \A j \in Jobs: Kept(j)'
  <2>1. ASSUME NEW j \in Jobs, Alive(j)' PROVE Kept(j)'
    BY <1>1, <1>7, <2>1, SparedKept DEF LiveInv, Spared, LocalJobs
  <2> QED
    BY <2>1 DEF Kept
<1>9. Listed'
  BY <1>1, <1>2, <1>7, CalmListed DEF LiveInv, Running
<1>10. ASSUME NEW j \in Jobs PROVE NoRoom(j)' /\ Made(j)'
  <2>1. CASE j = p
    BY <1>1, <1>2, <2>1 DEF NoRoom, Made, Running
  <2>2. CASE j # p
    <3>1. \A k \in Jobs: job'[k] = "suspended" => job[k] = "suspended" /\ (k \in jb' => k \in jb)
      BY <1>3, <1>4
    <3>2. Available(j)' \subseteq Available(j)
      BY <1>1, <1>2, <2>2, <3>1 DEF Available, Dirs
    <3>3. NoRoom(j)'
      BY <1>1, <1>2, <1>3, <2>2, <3>2, CalmRoom DEF LiveInv, Running
    <3>4. Made(j)'
      BY <1>1, <1>2, <1>3, <2>2 DEF LiveInv, Made, Running
    <3> QED
      BY <3>3, <3>4
  <2> QED
    BY <2>1, <2>2
<1> QED
  BY <1>5, <1>6, <1>8, <1>9, <1>10 DEF LiveInv

-----------------------------------------------------------------------------
LEMMA InitLive == Init => LiveInv
  BY ProcsDistinct DEF Init, LiveInv, InPhase, Saved, Kept, Alive, Listed, NoRoom, Made, Running, Procs

\* The cgroup of a live job, the lists that protect it and what a begin event has
\* built of it fit together after every step (configure_job, cleanup_orphans,
\* gather_jobs_on_node), when mom does nothing else while the hook of a job runs
\* and the lists of jobs can be read.
THEOREM LiveInvariant == ASSUME MomWaits, ~GatherMayFail PROVE Spec => []LiveInv
<1>1. TypeOK /\ LiveInv /\ UNCHANGED vars => LiveInv'
  <2>1. SUFFICES ASSUME TypeOK, LiveInv, UNCHANGED vars PROVE LiveInv'
    OBVIOUS
  <2>2. UNCHANGED <<dirs, cpus, mems, preempted, pc, event, result, lock, assigned, joblist, attempt,
                    job, need, jb, cgroupJobs>>
    BY <2>1 DEF vars, kernel, files, mom, procs, locals
  <2>3. \A k \in Jobs: InPhase(k)' /\ Saved(k)' /\ (Alive(k)' => Alive(k))
    BY <2>1, <2>2 DEF LiveInv, InPhase, Saved, Alive
  <2>4. \A k \in Jobs: Available(k)' \subseteq Available(k)
    BY <2>2 DEF Available
  <2> QED
    BY <2>1, <2>2, <2>3, <2>4, MomSpares
<1>2. TypeOK /\ ExclusiveInv /\ LiveInv /\ [Next]_vars => LiveInv'
  BY <1>1, MomLive, HookLive, KilledLive, CollectLive DEF Next
<1> QED
  BY InitLive, <1>2, TypeCorrect, ExclusiveInvariant, PTL DEF Spec

\* From the acceptance of its begin event to the end of its script a job has a
\* cgroup of its own with memory nodes and the CPUs it asked for (configure_job,
\* cleanup_orphans), when mom does nothing else while the hook of a job runs and
\* the lists of jobs can be read.
THEOREM LiveKeepsCgroup == ASSUME MomWaits, ~GatherMayFail PROVE Spec => []LiveJobKeepsCgroup
<1>1. LiveInv => LiveJobKeepsCgroup
  BY DEF LiveInv, Kept, LiveJobKeepsCgroup
<1> QED
  BY <1>1, LiveInvariant, PTL

-----------------------------------------------------------------------------
(* The leases.  A step that touches the cgroup of no live job is a stutter *)
(* for them; the others grant, return or park the lease of one job.        *)

\* The cgroup of job j keeps its CPUs, and is lent out or not as before.
Untouched(j) ==
  /\ cpus'[JobDir(j)] = cpus[JobDir(j)]
  /\ JobDir(j) \in preempted' <=> JobDir(j) \in preempted

SameLease(j) == (Alive(j)' <=> Alive(j)) /\ (Alive(j) => Untouched(j))

Stutters == UNCHANGED <<[j \in Jobs |-> IF Alive(j) THEN cpus[JobDir(j)] ELSE {}],
                        {j \in Jobs: Alive(j) /\ JobDir(j) \in preempted}>>

LEMMA SameStutters ==
  ASSUME \A j \in Jobs: SameLease(j) PROVE Stutters
  BY DEF Stutters, SameLease, Untouched

LEMMA ReturnStep ==
  ASSUME NEW j \in Jobs, ~Alive(j)', \A k \in Jobs \ {j}: SameLease(k)
  PROVE  Lease!Return(j)
  BY DEF Lease!Return, SameLease, Untouched

LEMMA EndStep ==
  ASSUME NEW j \in Jobs, \A k \in Jobs \ {j}: SameLease(k), Alive(j)' => SameLease(j)
  PROVE  Lease!Return(j) \/ Stutters
<1>1. CASE Alive(j)'
  <2>1. \A k \in Jobs: SameLease(k)
    BY <1>1
  <2> QED
    BY <2>1, SameStutters
<1> QED
  BY <1>1, ReturnStep

LEMMA ParkStep ==
  ASSUME NEW j \in Jobs, Alive(j), Alive(j)', cpus[JobDir(j)] # {},
         UNCHANGED cpus, preempted' = preempted \cup {JobDir(j)},
         \A k \in Jobs \ {j}: SameLease(k)
  PROVE  Lease!Park(j)
  BY DEF Lease!Park, SameLease, Untouched

LEMMA GrantStep ==
  ASSUME NEW j \in Jobs, NEW S \in SUBSET Cpus, S # {},
         Alive(j)', cpus'[JobDir(j)] = S, JobDir(j) \notin preempted',
         \A k \in Jobs \ {j}:
           SameLease(k) /\ (Alive(k) /\ JobDir(k) \notin preempted => cpus[JobDir(k)] \cap S = {})
  PROVE  Lease!Grant(j)
<1>1. S \in SUBSET Lease!Free(j)
  BY DEF Lease!Free
<1> QED
  BY <1>1 DEF Lease!Grant, SameLease, Untouched


\* Mom grants nothing: a job that is suspended lends its CPUs out, one whose
\* script ends gives them back.
LEMMA MomLease ==
  ASSUME TypeOK, LiveInv, MomNext
  PROVE  (\E j \in Jobs: Lease!Return(j) \/ Lease!Park(j)) \/ Stutters
<1>1. job \in [Jobs -> Phases] /\ Jobs \subseteq Procs
  BY DEF TypeOK, ControlOK, Procs
<1>2. ASSUME NEW j \in Jobs, Arrive(j) PROVE Stutters
  <2>1. /\ UNCHANGED <<cpus, preempted, result>> /\ job' = [job EXCEPT ![j] = "begin"]
        /\ job[j] = "absent" /\ pc[j] = "idle"
    BY <1>2 DEF Arrive, StartHook, kernel
  <2>2. result[j] = "none"
    BY <2>1 DEF LiveInv, InPhase
  <2> QED
    BY <1>1, <2>1, <2>2, SameStutters DEF SameLease, Untouched, Alive
<1>3. ASSUME NEW j \in Jobs, Suspend(j)
      PROVE  Lease!Park(j)
  <2>1. /\ UNCHANGED <<cpus, result>> /\ job[j] = "running" /\ job' = [job EXCEPT ![j] = "suspended"]
        /\ preempted' = preempted \cup {JobDir(j)}
    BY <1>3 DEF Suspend, procs
  <2>2. Alive(j) /\ Alive(j)'
    BY <1>1, <2>1 DEF Alive
  <2>3. cpus[JobDir(j)] # {}
    BY <2>2 DEF LiveInv, Kept
  <2>4. \A k \in Jobs \ {j}: SameLease(k)
    BY <1>1, <2>1 DEF SameLease, Untouched, Alive, JobDir
  <2> QED
    BY <2>1, <2>2, <2>3, <2>4, ParkStep
<1>4. ASSUME NEW j \in Jobs, JobExit(j) PROVE Lease!Return(j)
  <2>1. UNCHANGED <<cpus, preempted, result>> /\ job' = [job EXCEPT ![j] = "exiting"]
    BY <1>4 DEF JobExit, procs
  <2>2. ~Alive(j)' /\ \A k \in Jobs \ {j}: SameLease(k)
    BY <1>1, <2>1 DEF SameLease, Untouched, Alive
  <2> QED
    BY <2>2, ReturnStep
<1>5. ASSUME NEW j \in Jobs, Resume(j) PROVE Stutters
  <2>1. /\ UNCHANGED <<cpus, preempted, result>> /\ job' = [job EXCEPT ![j] = "running"]
        /\ job[j] = "suspended"
    BY <1>5 DEF Resume, procs, kernel
  <2> QED
    BY <1>1, <2>1, SameStutters DEF SameLease, Untouched, Alive
<1>6. ASSUME UNCHANGED <<cpus, preempted, result, job>> PROVE Stutters
  BY <1>6, SameStutters DEF SameLease, Untouched, Alive
<1>7. ASSUME NEW j \in Jobs, SaveJob(j) \/ Launch(j) \/ Attach(j) \/ Resize(j) \/ Epilogue(j) \/ End(j)
      PROVE  UNCHANGED <<cpus, preempted, result, job>>
  BY <1>7 DEF SaveJob, Launch, Attach, Resize, Epilogue, End, RunJobHook, StartHook, kernel, mom, procs
<1>8. ASSUME (\E d \in Dirs: TaskExit(d)) \/ Tick \/ AdminOffline \/ AdminOnline
      PROVE  UNCHANGED <<cpus, preempted, result, job>>
  BY <1>8 DEF TaskExit, Tick, AdminOffline, AdminOnline, StartHook, kernel, mom, procs
<1> QED
  BY <1>2, <1>3, <1>4, <1>5, <1>6, <1>7, <1>8 DEF MomNext

\* A step of the hook that brings no job to life and spares the live ones
LEMMA QuietStep ==
  ASSUME TypeOK, LiveInv, NEW p \in Procs, pc[p] # "exit",
         \/ \E l \in Labels: GoTo(p, l)
         \/ \E r \in Results: Finish(p, r) /\ (r = "accept" /\ p \in Jobs => event[p] # "begin"),
         \/ UNCHANGED <<cpus, preempted>>
         \/ \A j \in Jobs: Alive(j) => Untouched(j)
  PROVE  Stutters
<1>1. UNCHANGED <<job, need>> /\ \A j \in Jobs: Alive(j)' => Alive(j)
  BY StillAlive
<1>2. \A j \in Jobs: Alive(j) => Alive(j)'
  <2>1. \A j \in Jobs \ {p}: result'[j] = result[j]
    BY DEF GoTo, Finish, TypeOK, ControlOK, Procs
  <2>2. p \in Jobs => (Alive(p) => job[p] # "begin")
    BY DEF LiveInv, InPhase, Alive
  <2> QED
    BY <1>1, <2>1, <2>2 DEF Alive
<1>3. \A j \in Jobs: Alive(j) => Untouched(j)
  BY DEF Untouched
<1> QED
  BY <1>1, <1>2, <1>3, SameStutters DEF SameLease

LEMMA RemoveUntouched ==
  ASSUME NEW p \in Procs, NEW d \in Dirs, KernelOK,
         RemoveTrue(d) \/ RemoveFalse(p, d) \/ RemoveRaises(d), NEW j \in Jobs, d # JobDir(j)
  PROVE  Untouched(j)
<1>1. CASE UNCHANGED kernel
  BY <1>1 DEF kernel, Untouched
<1>2. CASE Gone(d)
  BY <1>2, DirsOfJobs DEF Gone, Untouched, KernelOK
<1> QED
  BY <1>1, <1>2 DEF RemoveTrue, RemoveFalse, RemoveRaises, RmdirBusy, TasksSurvive

\* The end of the hook of a begin event that was cut off, or of one that failed
LEMMA EndLease ==
  ASSUME TypeOK, LiveInv, NEW p \in Procs, HookKilled(p) \/ Collect(p)
  PROVE  (\E j \in Jobs: Lease!Return(j)) \/ Stutters
<1>1. UNCHANGED <<cpus, preempted>> /\ \A j \in Jobs \ {p}: job'[j] = job[j] /\ result'[j] = result[j]
  BY DEF HookKilled, Collect, kernel, mom, TypeOK, ControlOK, Procs
<1>2. \A j \in Jobs \ {p}: SameLease(j)
  BY <1>1 DEF SameLease, Alive, Untouched
<1>3. CASE p \in Jobs
  <2>1. Alive(p)' => Alive(p)
    <3>1. CASE HookKilled(p)
      BY <3>1 DEF HookKilled, mom, Alive, TypeOK, ControlOK
    <3>2. CASE Collect(p)
      <4>1. /\ job'[p] = NextPhase(event[p], result[p], job[p]) /\ pc[p] = "exit" /\ result'[p] = "none"
        BY <1>3, <3>2, ProcsDistinct DEF Collect, TypeOK, ControlOK
      <4>2. job[p] \in PhaseOf(event[p])
        BY <1>3, <4>1 DEF LiveInv, InPhase
      <4> QED
        BY <4>1, <4>2 DEF NextPhase, PhaseOf, Alive
    <3> QED
      BY <3>1, <3>2
  <2>2. Alive(p)' => SameLease(p)
    BY <1>1, <2>1 DEF SameLease, Untouched
  <2> QED
    BY <1>2, <1>3, <2>2, EndStep
<1>4. CASE p \notin Jobs
  BY <1>2, <1>4, SameStutters
<1> QED
  BY <1>3, <1>4

\* Renaming leaves the cgroups of the jobs on the list as they are.
LEMMA RenameUntouched ==
  ASSUME TypeOK, LiveInv, NEW p \in Procs, RenameOrphans(p), NEW j \in Jobs, Alive(j)
  PROVE  Untouched(j)
<1> DEFINE lost == {k \in Jobs \ joblist: JobDir(k) \in dirs /\ OrphanDir(k) \notin dirs}
           From(d) == IF d[1] \in lost /\ d[2] = "orphan" THEN JobDir(d[1]) ELSE d
           old == {JobDir(k): k \in lost}
           Moved(S) == (S \ old) \cup {OrphanDir(k): k \in {i \in lost: JobDir(i) \in S}}
<1>1. /\ preempted' = Moved(preempted) /\ Running(p, "rename")
      /\ cpus' = [d \in Dirs |-> IF d \in old THEN {} ELSE cpus[From(d)]]
  BY DEF RenameOrphans
<1>2. j \in joblist
  BY <1>1 DEF LiveInv, Listed
<1>3. JobDir(j) \notin old /\ From(JobDir(j)) = JobDir(j) /\ JobDir(j) \in Dirs
  BY <1>2, DirsOfJobs DEF JobDir
<1>4. \A k \in Jobs: OrphanDir(k) # JobDir(j)
  BY DEF OrphanDir, JobDir
<1> QED
  BY <1>1, <1>3, <1>4 DEF Untouched

\* A job that is resized gets CPUs that no other holds; a job that begins has
\* no lease yet.
LEMMA AssignLease ==
  ASSUME TypeOK, ExclusiveInv, LiveInv, NEW j \in Jobs, Assign(j)
  PROVE  Lease!Grant(j) \/ Stutters
<1>1. /\ Running(j, "attempt") /\ pc[j] = "attempt" /\ GoTo(j, "mems") /\ j \in Procs
      /\ preempted' = preempted \ {JobDir(j)}
  BY DEF Assign, Running, Procs
<1>2. PICK S \in SUBSET Available(j):
        /\ Cardinality(S) = need[j]
        /\ cpus' = IF JobDir(j) \in dirs THEN [cpus EXCEPT ![JobDir(j)] = S] ELSE cpus
  BY DEF Assign
<1>3. JobDir(j) \in Dirs /\ cpus \in [Dirs -> SUBSET Cpus]
  BY DirsOfJobs DEF TypeOK, KernelOK
<1>4. \A k \in Jobs \ {j}: JobDir(k) # JobDir(j) /\ JobDir(k) \in Dirs /\ Untouched(k)
  BY <1>1, <1>2, <1>3, DirsOfJobs DEF JobDir, Untouched
<1>5. \A k \in Jobs: Alive(k)' <=> Alive(k)
  BY <1>1 DEF GoTo, mom, Alive
<1>6. /\ event[j] \in {"begin", "resize"} /\ job[j] \in PhaseOf(event[j])
      /\ need[j] \in Sizes /\ result[j] = "none"
  BY <1>1 DEF LiveInv, InPhase, EventsOf, PhaseOf
<1>7. CASE event[j] = "begin"
  <2>1. ~Alive(j)
    BY <1>6, <1>7 DEF Alive, PhaseOf
  <2> QED
    BY <1>4, <1>5, <2>1, SameStutters DEF SameLease
<1>8. CASE event[j] = "resize"
  <2>1. Alive(j)
    BY <1>6, <1>8 DEF Alive, PhaseOf
  <2>2. JobDir(j) \in dirs /\ Offering(j)
    BY <1>1, <2>1 DEF LiveInv, Kept, Configured, Offering, Running
  <2>3. S # {}
    <3>1. need[j] # 0
      BY <1>6, SizesPositive
    <3> QED
      BY <1>2, <3>1, FS_EmptySet
  <2>4. ASSUME NEW k \in Jobs \ {j}, Alive(k), JobDir(k) \notin preempted
        PROVE  cpus[JobDir(k)] \cap S = {}
    <3>1. Occupied(JobDir(k))
      BY <2>4 DEF LiveInv, Kept, Occupied
    <3>2. cpus[JobDir(k)] \cap Available(j) = {}
      BY <1>4, <2>2, <3>1 DEF ExclusiveInv, OffersFree
    <3> QED
      BY <3>2
  <2>5. S \in SUBSET Cpus
    BY DEF Available
  <2>6. /\ Alive(j)' /\ cpus'[JobDir(j)] = S /\ JobDir(j) \notin preempted'
        /\ \A k \in Jobs \ {j}: SameLease(k)
    BY <1>1, <1>2, <1>3, <1>4, <1>5, <2>1, <2>2 DEF SameLease
  <2> QED
    BY <2>3, <2>4, <2>5, <2>6, GrantStep
<1> QED
  BY <1>6, <1>7, <1>8

\* The begin event that is accepted grants the CPUs it has written.
LEMMA CommitLease ==
  ASSUME TypeOK, ExclusiveInv, LiveInv, NEW j \in Jobs, Commit(j)
  PROVE  Lease!Grant(j) \/ Stutters
<1>1. /\ Running(j, "commit") /\ pc[j] = "commit" /\ (Finish(j, "accept") \/ Finish(j, "hold"))
      /\ j \in Procs /\ UNCHANGED <<dirs, cpus, mems, preempted>>
  BY ProcsDistinct DEF Commit, Abort, Running, Procs, kernel
<1>2. UNCHANGED <<job, need>> /\ (Finish(j, "accept") => result' = [result EXCEPT ![j] = "accept"])
      /\ result \in [Procs -> Results]
  BY <1>1 DEF Finish, mom, TypeOK, ControlOK
<1>3. job[j] \in PhaseOf(event[j]) /\ event[j] \in {"begin", "resize"} /\ need[j] \in Sizes
  BY <1>1 DEF LiveInv, InPhase, EventsOf, PhaseOf
<1>4. CASE event[j] # "begin" \/ Finish(j, "hold")
  BY <1>1, <1>4, QuietStep DEF Results
<1>5. CASE event[j] = "begin" /\ Finish(j, "accept")
  <2>1. /\ Configured(JobDir(j)) /\ JobDir(j) \notin preempted
        /\ Cardinality(cpus[JobDir(j)]) = need[j]
    BY <1>1, <1>5 DEF LiveInv, Made, Configured
  <2>2. cpus[JobDir(j)] # {}
    <3>1. need[j] # 0
      BY <1>3, SizesPositive
    <3> QED
      BY <2>1, <3>1, FS_EmptySet
  <2>3. cpus[JobDir(j)] \in SUBSET Cpus
    BY DirsOfJobs DEF TypeOK, KernelOK
  <2>4. ASSUME NEW k \in Jobs \ {j}, Alive(k), JobDir(k) \notin preempted
        PROVE  cpus[JobDir(k)] \cap cpus[JobDir(j)] = {}
    <3>1. Configured(JobDir(k)) /\ JobDir(k) # JobDir(j)
      BY <2>4 DEF LiveInv, Kept, JobDir
    <3> QED
      BY <2>1, <2>4, <3>1, DirsOfJobs DEF ExclusiveInv, ExclusiveCpus
  <2>5. /\ Alive(j)' /\ cpus'[JobDir(j)] = cpus[JobDir(j)] /\ JobDir(j) \notin preempted'
        /\ \A k \in Jobs \ {j}: SameLease(k)
    <3>1. result' = [result EXCEPT ![j] = "accept"] /\ result \in [Procs -> Results] /\ j \in Procs
          /\ UNCHANGED <<job, cpus, preempted>> /\ job[j] = "begin"
      BY <1>1, <1>2, <1>3, <1>5 DEF PhaseOf
    <3> QED
      BY <2>1, <3>1 DEF Alive, SameLease, Untouched
  <2> QED
    BY <2>2, <2>3, <2>4, <2>5, GrantStep
<1> QED
  BY <1>1, <1>4, <1>5

LEMMA HookLease ==
  ASSUME TypeOK, ExclusiveInv, LiveInv, NEW p \in Procs, Acquire(p) \/ HookStep(p)
  PROVE  (\E j \in Jobs: Lease!Grant(j)) \/ Stutters
<1>1. CASE Acquire(p)
  <2>1. pc[p] = "wait" /\ UNCHANGED <<cpus, preempted>>
    BY <1>1 DEF Acquire, kernel
  <2>2. CASE Abort(p)
    BY <2>1, <2>2, QuietStep DEF Abort, Results
  <2>3. CASE ~Abort(p)
    <3>1. UNCHANGED <<result, job>>
      BY <1>1, <2>3 DEF Acquire, mom
    <3> QED
      BY <2>1, <3>1, SameStutters DEF SameLease, Alive, Untouched
  <2> QED
    BY <2>2, <2>3
<1>2. ASSUME NEW j \in Jobs, Dequeue(j) \/ AddPids(j) \/ CreateJob(j) \/ AssignFails(j) \/ SetMems(j)
      PROVE  Stutters
  <2>1. /\ pc[j] # "exit" /\ UNCHANGED <<cpus, preempted>> /\ j \in Procs
        /\ \/ \E l \in Labels: GoTo(j, l)
           \/ \E r \in {"accept", "rerun", "hold"}: Finish(j, r) /\ (r = "accept" => pc[j] = "pids")
    BY <1>2, ProcsDistinct
    DEF Dequeue, AfterDequeue, Abort, AddPids, CreateJob, AssignFails, SetMems, NextAttempt, Running, kernel,
        Labels, Procs
  <2>2. pc[j] = "pids" => event[j] # "begin"
    BY DEF LiveInv, InPhase, EventsOf
  <2> QED
    BY <2>1, <2>2, QuietStep DEF Results
<1>3. ASSUME NEW j \in Jobs, Delete(j) PROVE Stutters
  <2>1. /\ pc[j] = "delete" /\ j \in Procs /\ JobDir(j) \in Dirs /\ (Abort(j) \/ AfterDelete(j))
        /\ \/ UNCHANGED <<cpus, preempted>>
           \/ RemoveTrue(JobDir(j)) \/ RemoveFalse(j, JobDir(j)) \/ RemoveRaises(JobDir(j))
    BY <1>3, DirsOfJobs DEF Delete, Running, kernel, Procs
  <2>2. ~Alive(j)
    BY <2>1 DEF LiveInv, InPhase, EventsOf, PhaseOf, Alive
  <2>3. \/ UNCHANGED <<cpus, preempted>>
        \/ \A k \in Jobs: Alive(k) => Untouched(k)
    <3>1. ASSUME NEW k \in Jobs, k # j,
                 RemoveTrue(JobDir(j)) \/ RemoveFalse(j, JobDir(j)) \/ RemoveRaises(JobDir(j))
          PROVE  Untouched(k)
      <4>1. JobDir(j) # JobDir(k)
        BY <3>1 DEF JobDir
      <4> QED
        BY <2>1, <3>1, <4>1, RemoveUntouched DEF TypeOK
    <3> QED
      BY <2>1, <2>2, <3>1
  <2>4. \/ \E l \in Labels: GoTo(j, l)
        \/ \E r \in Results: Finish(j, r) /\ (r = "accept" => event[j] # "begin")
    BY <2>1 DEF Abort, AfterDelete, Labels, Results
  <2> QED
    BY <2>1, <2>3, <2>4, QuietStep
<1>4. ASSUME RenameOrphans(p) PROVE Stutters
  <2>1. pc[p] = "rename" /\ GoTo(p, "reap")
    BY <1>4 DEF RenameOrphans, Running
  <2>2. \A j \in Jobs: Alive(j) => Untouched(j)
    BY <1>4, RenameUntouched
  <2> QED
    BY <2>1, <2>2, QuietStep DEF Labels
<1>5. ASSUME ReapOrphan(p) PROVE Stutters
  <2>1. PICK j \in todo:
          /\ RemoveTrue(OrphanDir(j)) \/ RemoveFalse(p, OrphanDir(j)) \/ RemoveRaises(OrphanDir(j))
          /\ GoTo(p, "reap") \/ Abort(p)
    BY <1>5 DEF ReapOrphan
  <2>2. pc[p] = "reap" /\ j \in Jobs /\ OrphanDir(j) \in Dirs
    BY <1>5, DirsOfJobs DEF ReapOrphan, Running, TypeOK, LocalsOK
  <2>3. \A k \in Jobs: OrphanDir(j) # JobDir(k)
    BY DEF OrphanDir, JobDir
  <2>4. \A k \in Jobs: Untouched(k)
    BY <2>1, <2>2, <2>3, RemoveUntouched DEF TypeOK
  <2> QED
    BY <2>1, <2>2, <2>4, QuietStep DEF Abort, Labels, Results
<1>6. ASSUME OrphansReaped(p) \/ (p = Periodic /\ BringOnline) PROVE Stutters
  <2>1. /\ pc[p] # "exit" /\ UNCHANGED <<cpus, preempted>>
        /\ \/ \E l \in {"attempt", "online"}: GoTo(p, l)
           \/ \E r \in {"accept", "rerun"}: Finish(p, r) /\ (r = "accept" => p = Periodic)
    BY <1>6 DEF OrphansReaped, BringOnline, NextAttempt, Running, kernel
  <2> QED
    BY <2>1, ProcsDistinct, QuietStep DEF Labels, Results
<1> QED
  BY <1>1, <1>2, <1>3, <1>4, <1>5, <1>6, AssignLease, CommitLease
  DEF HookStep, JobHookStep, CleanupStep, Procs

\* The hook implements the leases of CpuLease, whatever it is in the middle of,
\* wherever it is killed and whatever a cleanup renames (configure_job,
\* cleanup_orphans, delete), when mom does nothing else while the hook of a job
\* runs and the lists of jobs can be read.
THEOREM HookImplementsLease == ASSUME MomWaits, ~GatherMayFail PROVE Spec => ImplementsLease
<1>1. ASSUME Init PROVE Lease!Init
  <2>1. preempted = {} /\ cpus = [d \in Dirs |-> {}]
    BY <1>1 DEF Init
  <2>2. \A j \in Jobs: JobDir(j) \in Dirs
    BY DirsOfJobs
  <2>3. \A j \in Jobs: (IF Alive(j) THEN cpus[JobDir(j)] ELSE {}) = {}
    BY <2>1, <2>2
  <2>4. {j \in Jobs: Alive(j) /\ JobDir(j) \in preempted} = {}
    BY <2>1
  <2>5. [j \in Jobs |-> IF Alive(j) THEN cpus[JobDir(j)] ELSE {}] = [j \in Jobs |-> {}]
    BY <2>3
  <2> QED
    BY <2>4, <2>5 DEF Lease!Init
<1>2. TypeOK /\ ExclusiveInv /\ LiveInv /\ [Next]_vars => Lease!Next \/ Stutters
  <2>1. UNCHANGED vars => Stutters
    BY SameStutters DEF vars, kernel, mom, procs, SameLease, Alive, Untouched
  <2> QED
    BY <2>1, MomLease, HookLease, EndLease DEF Next, Lease!Next
<1> QED
  BY <1>1, <1>2, TypeCorrect, ExclusiveInvariant, LiveInvariant, PTL
  DEF Spec, ImplementsLease, Lease!Spec, Stutters

\* Live jobs that were not suspended since they got their CPUs share none
\* (available_node_resources, configure_job), under the same assumptions.
THEOREM LeasesExclusive == ASSUME MomWaits, ~GatherMayFail PROVE Spec => []Lease!Exclusive
<1>1. ExclusiveInv /\ LiveInv => Lease!Exclusive
  <2>1. SUFFICES ASSUME ExclusiveInv, LiveInv, NEW j \in Jobs, NEW k \in Jobs, j # k,
                        Alive(j), JobDir(j) \notin preempted, Alive(k), JobDir(k) \notin preempted
                 PROVE  cpus[JobDir(j)] \cap cpus[JobDir(k)] = {}
    BY DEF Lease!Exclusive
  <2>2. /\ Configured(JobDir(j)) /\ Configured(JobDir(k))
        /\ JobDir(j) \in Dirs /\ JobDir(k) \in Dirs /\ JobDir(j) # JobDir(k)
    BY <2>1, DirsOfJobs DEF LiveInv, Kept, JobDir
  <2> QED
    BY <2>1, <2>2 DEF ExclusiveInv, ExclusiveCpus
<1> QED
  BY <1>1, ExclusiveInvariant, LiveInvariant, PTL
-----------------------------------------------------------------------------
(* The entries of cgroup_jobs.  Only events that have ended in their phase *)
(* move a job on, and a launch event that has got past its entry has taken *)
(* it away; so an entry loses its job only when a hook is killed.          *)

EntryOK(j) ==
  /\ pc[j] = "idle" => job[j] # "begin"
  /\ pc[j] # "idle" => job[j] \in PhaseOf(event[j]) /\ event[j] \in EventsOf(pc[j])
  /\ pc[j] # "exit" => result[j] = "none"
  /\ event[j] = "launch" /\ (pc[j] = "pids" \/ (pc[j] = "exit" /\ result[j] # "killed"))
       => j \notin cgroupJobs

EntryInv == \A j \in Jobs: EntryOK(j)

\* A step that leaves no job's entry behind.
LeavesNone == kills' = kills /\ \A j \in Jobs: EntryOK(j)' /\ (j \in EntriesLeft' => j \in EntriesLeft)

\* What a step does not change of a job.
SameEntry(j) ==
  /\ pc'[j] = pc[j] /\ event'[j] = event[j] /\ result'[j] = result[j] /\ job'[j] = job[j]
  /\ j \in cgroupJobs' <=> j \in cgroupJobs

LEMMA SameKept ==
  ASSUME NEW j \in Jobs, EntryOK(j), SameEntry(j)
  PROVE  EntryOK(j)' /\ (j \in EntriesLeft' => j \in EntriesLeft)
  BY DEF EntryOK, SameEntry, EntriesLeft, Starting

\* The steps of one job.
LEMMA OneJobSteps ==
  ASSUME EntryInv, kills' = kills, NEW p, \A j \in Jobs \ {p}: SameEntry(j),
         p \in Jobs => EntryOK(p)' /\ (p \in EntriesLeft' => p \in EntriesLeft)
  PROVE  LeavesNone
<1>1. ASSUME NEW j \in Jobs, j # p PROVE EntryOK(j)' /\ (j \in EntriesLeft' => j \in EntriesLeft)
  BY <1>1, SameKept DEF EntryInv
<1> QED
  BY <1>1 DEF LeavesNone

\* The hook goes on.
LEMMA GoToEntry ==
  ASSUME TypeOK, EntryInv, NEW p \in Procs, NEW l \in Labels \ {"idle", "exit"}, pc[p] \notin {"idle", "exit"},
         GoTo(p, l), UNCHANGED cgroupJobs, p \in Jobs => event[p] \in EventsOf(l), l # "pids"
  PROVE  LeavesNone
<1>1. /\ pc' = [pc EXCEPT ![p] = l] /\ event' = event /\ result' = result /\ job' = job
      /\ kills' = kills /\ cgroupJobs' = cgroupJobs
  BY DEF GoTo, mom, counts
<1>2. pc \in [Procs -> Labels] /\ Jobs \subseteq Procs
  BY DEF TypeOK, ControlOK, Procs
<1>3. \A j \in Jobs \ {p}: SameEntry(j)
  BY <1>1, <1>2 DEF SameEntry
<1>4. ASSUME p \in Jobs PROVE EntryOK(p)'
  BY <1>1, <1>2, <1>4 DEF EntryInv, EntryOK
<1>5. ASSUME p \in Jobs PROVE p \in EntriesLeft' => p \in EntriesLeft
  BY <1>1 DEF EntriesLeft, Starting
<1> QED
  BY <1>1, <1>3, <1>4, <1>5, OneJobSteps

\* The hook of an event other than launch answers.
LEMMA FinishEntry ==
  ASSUME TypeOK, EntryInv, NEW p \in Procs, NEW r \in Results \ {"killed"}, pc[p] \notin {"idle", "exit"},
         Finish(p, r), UNCHANGED cgroupJobs,
         p \in Jobs => event[p] # "launch" /\ (event[p] = "begin" => r # "accept")
  PROVE  LeavesNone
<1>1. /\ pc' = [pc EXCEPT ![p] = "exit"] /\ result' = [result EXCEPT ![p] = r] /\ event' = event /\ job' = job
      /\ kills' = kills /\ cgroupJobs' = cgroupJobs
  BY DEF Finish, mom, counts
<1>2. /\ pc \in [Procs -> Labels] /\ Jobs \subseteq Procs
      /\ event \in [Procs -> Events] /\ result \in [Procs -> Results]
  BY DEF TypeOK, ControlOK, Procs
<1>3. \A j \in Jobs \ {p}: SameEntry(j)
  BY <1>1, <1>2 DEF SameEntry
<1>4. ASSUME p \in Jobs PROVE EntryOK(p)'
  BY <1>1, <1>2, <1>4 DEF EntryInv, EntryOK, EventsOf
<1>5. ASSUME p \in Jobs PROVE p \in EntriesLeft' => p \in EntriesLeft
  <2>1. job[p] \in PhaseOf(event[p]) /\ result'[p] = r
    BY <1>1, <1>2, <1>5 DEF EntryInv, EntryOK
  <2>2. job[p] # "ready" /\ (job[p] = "begin" => event[p] = "begin")
    BY <2>1, <1>5 DEF PhaseOf
  <2>3. ~Starting(p)
    BY <1>5, <2>2 DEF EntryInv, EntryOK, Starting
  <2> QED
    BY <1>1, <2>3 DEF EntriesLeft
<1> QED
  BY <1>1, <1>3, <1>4, <1>5, OneJobSteps

\* Mom starts a hook.
LEMMA StartEntry ==
  ASSUME TypeOK, EntryInv, NEW p \in Procs, NEW e \in Events, StartHook(p, e), \A j \in Jobs \ {p}: job'[j] = job[j],
         p \in Jobs => /\ job'[p] \in PhaseOf(e)
                       /\ job'[p] = job[p] \/ (job[p] = "absent" /\ job'[p] = "begin")
  PROVE  LeavesNone
<1>1. /\ pc[p] = "idle" /\ pc' = [pc EXCEPT ![p] = "wait"] /\ event' = [event EXCEPT ![p] = e]
      /\ result' = result /\ kills' = kills /\ cgroupJobs' = cgroupJobs
  BY DEF StartHook, files
<1>2. pc \in [Procs -> Labels] /\ event \in [Procs -> Events] /\ Jobs \subseteq Procs
  BY DEF TypeOK, ControlOK, Procs
<1>3. \A j \in Jobs \ {p}: SameEntry(j)
  BY <1>1, <1>2 DEF SameEntry
<1>4. ASSUME p \in Jobs PROVE EntryOK(p)'
  BY <1>1, <1>2, <1>4 DEF EntryInv, EntryOK, EventsOf
<1>5. ASSUME p \in Jobs PROVE p \in EntriesLeft' => p \in EntriesLeft
  BY <1>1, <1>5 DEF EntriesLeft, Starting
<1> QED
  BY <1>1, <1>3, <1>4, <1>5, OneJobSteps

LEMMA MomEntry == TypeOK /\ EntryInv /\ MomNext => LeavesNone
<1> SUFFICES ASSUME TypeOK, EntryInv, MomNext PROVE LeavesNone
  OBVIOUS
<1>1. Jobs \subseteq Procs /\ Periodic \in Procs /\ Periodic \notin Jobs /\ job \in [Jobs -> Phases]
  BY ProcsDistinct DEF TypeOK, ControlOK, Procs
<1>2. ASSUME NEW j \in Jobs, Arrive(j) PROVE LeavesNone
  <2>1. StartHook(j, "begin") /\ job[j] = "absent" /\ job' = [job EXCEPT ![j] = "begin"]
    BY <1>2 DEF Arrive
  <2> QED
    BY <1>1, <2>1, StartEntry DEF PhaseOf, Events
<1>3. ASSUME NEW j \in Jobs, Launch(j) \/ Attach(j) \/ Epilogue(j) \/ End(j) \/ Resize(j) PROVE LeavesNone
  <2>1. PICK e \in Events: StartHook(j, e) /\ job[j] \in PhaseOf(e)
    BY <1>3 DEF Launch, Attach, Epilogue, End, Resize, RunJobHook, PhaseOf, Events
  <2>2. job' = job
    BY <1>3 DEF Launch, Attach, Epilogue, End, Resize, RunJobHook, mom
  <2> QED
    BY <1>1, <2>1, <2>2, StartEntry
<1>4. CASE Tick
  <2>1. StartHook(Periodic, "periodic") /\ job' = job
    BY <1>4 DEF Tick, mom
  <2> QED
    BY <1>1, <2>1, StartEntry DEF Events
<1>5. ASSUME NEW j \in Jobs, SaveJob(j) PROVE LeavesNone
  <2>1. kills' = kills /\ \A k \in Jobs: SameEntry(k)
    BY <1>5 DEF SaveJob, SameEntry, mom, procs, counts
  <2> QED
    BY <2>1, OneJobSteps, SameKept DEF EntryInv
<1>6. ASSUME NEW j \in Jobs, Suspend(j) \/ Resume(j) \/ JobExit(j) PROVE LeavesNone
  <2>1. /\ kills' = kills /\ pc' = pc /\ event' = event /\ result' = result /\ cgroupJobs' = cgroupJobs
        /\ job[j] \in {"running", "suspended"}
    BY <1>6 DEF Suspend, Resume, JobExit, procs, files, counts
  <2>2. \/ job' = [job EXCEPT ![j] = "suspended"] \/ job' = [job EXCEPT ![j] = "running"]
        \/ job' = [job EXCEPT ![j] = "exiting"]
    BY <1>6 DEF Suspend, Resume, JobExit
  <2>3. job'[j] \in {"running", "suspended", "exiting"} /\ \A k \in Jobs \ {j}: job'[k] = job[k]
    BY <1>1, <2>2
  <2>4. \A k \in Jobs \ {j}: SameEntry(k)
    BY <2>1, <2>3 DEF SameEntry
  <2>5. pc[j] = "idle"
    <3>1. CASE Suspend(j) \/ JobExit(j)
      BY <3>1 DEF Suspend, JobExit
    <3>2. CASE Resume(j)
      BY <3>2 DEF Resume, EntryInv, EntryOK, PhaseOf
    <3> QED
      BY <1>6, <3>1, <3>2
  <2>6. EntryOK(j)' /\ (j \in EntriesLeft' => j \in EntriesLeft)
    BY <2>1, <2>3, <2>5 DEF EntryInv, EntryOK, EntriesLeft, Starting
  <2> QED
    BY <2>1, <2>4, <2>6, OneJobSteps
<1>7. ASSUME NEW d \in Dirs, TaskExit(d) PROVE LeavesNone
  <2>1. kills' = kills /\ \A k \in Jobs: SameEntry(k)
    BY <1>7 DEF TaskExit, SameEntry, mom, procs, counts, files
  <2> QED
    BY <2>1, OneJobSteps, SameKept DEF EntryInv
<1>8. CASE AdminOffline \/ AdminOnline
  <2>1. kills' = kills /\ \A k \in Jobs: SameEntry(k)
    BY <1>8 DEF AdminOffline, AdminOnline, SameEntry, mom, procs, counts, files
  <2> QED
    BY <2>1, OneJobSteps, SameKept DEF EntryInv
<1> QED
  BY <1>2, <1>3, <1>4, <1>5, <1>6, <1>7, <1>8 DEF MomNext

\* The hook gets the lock: without systemd only the periodic event may give up here.
LEMMA AcquireEntry ==
  ASSUME ~SystemdSlices, TypeOK, EntryInv, NEW p \in Procs, Acquire(p)
  PROVE  LeavesNone
<1>1. pc[p] = "wait" /\ cgroupJobs' = cgroupJobs
  BY DEF Acquire, files
<1>2. CASE p = Periodic /\ Abort(p)
  BY <1>1, <1>2, ProcsDistinct, FinishEntry DEF Abort, Results
<1>3. CASE /\ pc' = [pc EXCEPT ![p] = FirstLabel(event[p])]
           /\ UNCHANGED <<event, result, job, kills>>
  <2>1. pc \in [Procs -> Labels] /\ Jobs \subseteq Procs
    BY DEF TypeOK, ControlOK, Procs
  <2>2. \A j \in Jobs \ {p}: SameEntry(j)
    BY <1>1, <1>3, <2>1 DEF SameEntry
  <2>3. ASSUME p \in Jobs PROVE EntryOK(p)'
    <3>1. job[p] \in PhaseOf(event[p]) /\ result[p] = "none"
      BY <1>1, <2>3 DEF EntryInv, EntryOK
    <3>2. event[p] \in EventsOf(FirstLabel(event[p])) /\ FirstLabel(event[p]) \notin {"idle", "pids", "exit"}
      BY <3>1 DEF FirstLabel, EventsOf, PhaseOf
    <3>3. pc'[p] = FirstLabel(event[p])
      BY <1>3, <2>1
    <3> QED
      BY <1>3, <3>1, <3>2, <3>3 DEF EntryOK
  <2>4. ASSUME p \in Jobs PROVE p \in EntriesLeft' => p \in EntriesLeft
    BY <1>1, <1>3 DEF EntriesLeft, Starting
  <2> QED
    BY <1>3, <2>2, <2>3, <2>4, OneJobSteps
<1>4. \/ p = Periodic /\ Abort(p)
      \/ /\ pc' = [pc EXCEPT ![p] = FirstLabel(event[p])]
         /\ UNCHANGED <<event, result, job, kills>>
  BY DEF Acquire, Unreadable, mom, counts
<1> QED
  BY <1>2, <1>3, <1>4

\* The entry is taken away before a launch event goes on, and made by the last
\* step of a begin event.
LEMMA ListedEntry ==
  ASSUME ~GatherMayFail, TypeOK, EntryInv, NEW j \in Jobs, Dequeue(j) \/ AddPids(j) \/ Commit(j)
  PROVE  LeavesNone
<1>a. /\ pc \in [Procs -> Labels] /\ Jobs \subseteq Procs
      /\ event \in [Procs -> Events] /\ result \in [Procs -> Results]
  BY DEF TypeOK, ControlOK, Procs
<1>b. /\ job' = job /\ event' = event /\ kills' = kills
      /\ \A k \in Jobs \ {j}: pc'[k] = pc[k] /\ result'[k] = result[k] /\ (k \in cgroupJobs' <=> k \in cgroupJobs)
  BY <1>a DEF Dequeue, AfterDequeue, AddPids, Commit, Rewritten, GoTo, Finish, mom, counts, files
<1>c. \A k \in Jobs \ {j}: SameEntry(k)
  BY <1>b DEF SameEntry
<1>d. pc[j] \in {"dequeue", "pids", "commit"} /\ job[j] \in PhaseOf(event[j]) /\ event[j] \in EventsOf(pc[j])
  BY DEF Dequeue, AddPids, Commit, Running, EntryInv, EntryOK
<1>1. CASE Dequeue(j)
  <2>1. /\ result' = result /\ j \notin cgroupJobs'
        /\ pc'[j] = IF event[j] \in {"launch", "attach"} THEN "pids" ELSE "delete"
    BY <1>1, <1>a DEF Dequeue, AfterDequeue, Rewritten, GoTo
  <2>2. event[j] \in {"launch", "attach", "epilogue", "end"}
    BY <1>1, <1>d DEF Dequeue, Running, EventsOf
  <2>3. EntryOK(j)'
    BY <1>1, <1>a, <1>b, <1>d, <2>1, <2>2 DEF EntryInv, EntryOK, EventsOf, Dequeue, Running
  <2> QED
    BY <1>b, <1>c, <2>1, <2>3, OneJobSteps DEF EntriesLeft
<1>2. CASE AddPids(j)
  <2>1. /\ pc[j] = "pids" /\ pc'[j] = "exit" /\ cgroupJobs' = cgroupJobs /\ result'[j] = "accept"
        /\ event[j] \in {"launch", "attach"}
    BY <1>2, <1>a, <1>d DEF AddPids, Finish, files, Running, EventsOf
  <2>2. EntryOK(j)'
    BY <1>a, <1>b, <1>d, <2>1 DEF EntryInv, EntryOK, EventsOf
  <2>3. j \in EntriesLeft' => j \in EntriesLeft
    <3>1. job[j] \in {"ready", "running"} /\ result[j] = "none"
      BY <1>d, <2>1 DEF PhaseOf, EntryInv, EntryOK
    <3> QED
      BY <1>b, <2>1, <3>1 DEF EntriesLeft, Starting
  <2> QED
    BY <1>b, <1>c, <2>2, <2>3, OneJobSteps
<1>3. CASE Commit(j)
  <2>1. /\ pc[j] = "commit" /\ pc'[j] = "exit" /\ result'[j] = "accept" /\ event[j] \in {"begin", "resize"}
        /\ event[j] # "begin" => cgroupJobs' = cgroupJobs
    BY <1>3, <1>a, <1>d DEF Commit, Rewritten, Finish, Running, EventsOf
  <2>2. EntryOK(j)'
    BY <1>a, <1>b, <1>d, <2>1 DEF EntryInv, EntryOK, EventsOf
  <2>3. j \in EntriesLeft' => j \in EntriesLeft
    <3>1. CASE event[j] = "begin"
      BY <1>b, <1>d, <2>1, <3>1 DEF EntriesLeft, Starting, PhaseOf
    <3>2. CASE event[j] # "begin"
      BY <1>b, <1>d, <2>1, <3>2 DEF EntriesLeft, Starting, PhaseOf
    <3> QED
      BY <3>1, <3>2
  <2> QED
    BY <1>b, <1>c, <2>2, <2>3, OneJobSteps
<1> QED
  BY <1>1, <1>2, <1>3

\* Every other step of the hook goes on, or gives an answer to an event that is not
\* a launch.
LEMMA HookEntry ==
  ASSUME ~GatherMayFail, TypeOK, EntryInv, NEW p \in Procs, HookStep(p)
  PROVE  LeavesNone
<1> DEFINE Onward == \E l \in Labels \ {"idle", "pids", "exit"}:
                       GoTo(p, l) /\ (p \in Jobs => event[p] \in EventsOf(l))
           Answered == \E r \in Results \ {"killed"}:
                         Finish(p, r) /\ (p \in Jobs => event[p] # "launch" /\ (event[p] = "begin" => r # "accept"))
<1>a. ASSUME pc[p] \notin {"idle", "exit"}, cgroupJobs' = cgroupJobs, Onward \/ Answered PROVE LeavesNone
  <2>1. CASE Onward
    BY <1>a, <2>1, GoToEntry
  <2>2. CASE Answered
    BY <1>a, <2>2, FinishEntry
  <2> QED
    BY <1>a, <2>1, <2>2
<1>b. p \in Jobs => event[p] \in EventsOf(pc[p]) \/ pc[p] = "idle"
  BY DEF EntryInv, EntryOK
<1>c. ASSUME NextAttempt(p), pc[p] \in {"attempt", "reap"} PROVE Onward \/ Answered
  <2>1. p \in Jobs => event[p] \in {"begin", "resize"}
    BY <1>b, <1>c DEF EventsOf
  <2>2. GoTo(p, "attempt") \/ Finish(p, "rerun")
    BY <1>c DEF NextAttempt
  <2> QED
    BY <2>1, <2>2 DEF EventsOf, Labels, Results
<1>1. CASE p \in Jobs /\ Delete(p)
  <2>1. pc[p] = "delete" /\ cgroupJobs' = cgroupJobs /\ event[p] \in {"begin", "epilogue", "end"}
    BY <1>1, <1>b DEF Delete, Running, EventsOf
  <2>2. Abort(p) \/ AfterDelete(p)
    BY <1>1 DEF Delete
  <2>3. CASE Abort(p)
    BY <1>1, <1>a, <2>1, <2>3, ProcsDistinct DEF Abort, Results
  <2>4. CASE AfterDelete(p)
    <3>1. CASE event[p] = "begin"
      BY <1>1, <1>a, <2>1, <2>4, <3>1 DEF AfterDelete, EventsOf, Labels
    <3>2. CASE event[p] # "begin"
      BY <1>1, <1>a, <2>1, <2>4, <3>2 DEF AfterDelete, Results
    <3> QED
      BY <3>1, <3>2
  <2> QED
    BY <2>2, <2>3, <2>4
<1>2. CASE p \in Jobs /\ CreateJob(p)
  BY <1>2, <1>a, <1>b DEF CreateJob, Running, EventsOf, Labels, files
<1>3. CASE p \in Jobs /\ Assign(p)
  BY <1>3, <1>a, <1>b DEF Assign, Running, EventsOf, Labels, files
<1>4. CASE p \in Jobs /\ AssignFails(p)
  <2>1. pc[p] = "attempt" /\ cgroupJobs' = cgroupJobs /\ event[p] \in {"begin", "resize"}
    BY <1>4, <1>b DEF AssignFails, Running, EventsOf, files
  <2>2. NextAttempt(p) \/ GoTo(p, "rename")
    BY <1>4 DEF AssignFails
  <2>3. Onward \/ Answered
    BY <1>c, <2>1, <2>2 DEF EventsOf, Labels
  <2> QED
    BY <1>a, <2>1, <2>3
<1>5. CASE p \in Jobs /\ SetMems(p)
  BY <1>5, <1>a, <1>b DEF SetMems, Running, EventsOf, Labels, files
<1>6. CASE RenameOrphans(p)
  <2>1. pc[p] = "rename" /\ cgroupJobs' = cgroupJobs /\ GoTo(p, "reap")
    BY <1>6 DEF RenameOrphans, Running, files
  <2> QED
    BY <1>a, <1>b, <2>1 DEF EventsOf, Labels
<1>7. CASE ReapOrphan(p)
  <2>1. pc[p] = "reap" /\ cgroupJobs' = cgroupJobs /\ (GoTo(p, "reap") \/ Abort(p))
    BY <1>7 DEF ReapOrphan, Running
  <2>2. CASE GoTo(p, "reap")
    BY <1>a, <1>b, <2>1, <2>2 DEF EventsOf, Labels
  <2>3. CASE Abort(p)
    BY <1>a, <1>b, <2>1, <2>3, ProcsDistinct DEF Abort, EventsOf, Results
  <2> QED
    BY <2>1, <2>2, <2>3
<1>8. CASE OrphansReaped(p)
  <2>1. pc[p] = "reap" /\ cgroupJobs' = cgroupJobs
    BY <1>8 DEF OrphansReaped, Running, files
  <2>2. CASE p # Periodic
    BY <1>8, <1>a, <1>c, <2>1, <2>2 DEF OrphansReaped
  <2>3. CASE p = Periodic
    <3>1. p \notin Jobs /\ (Finish(p, "accept") \/ GoTo(p, "online"))
      BY <1>8, <2>3, ProcsDistinct DEF OrphansReaped
    <3> QED
      BY <1>a, <2>1, <3>1 DEF Labels, Results
  <2> QED
    BY <2>2, <2>3
<1>9. CASE p = Periodic /\ BringOnline
  <2>1. pc[p] = "online" /\ cgroupJobs' = cgroupJobs /\ Finish(p, "accept") /\ p \notin Jobs
    BY <1>9, ProcsDistinct DEF BringOnline, Running
  <2> QED
    BY <1>a, <2>1 DEF Results
<1>10. CASE p \in Jobs /\ (Dequeue(p) \/ AddPids(p) \/ Commit(p))
  BY <1>10, ListedEntry
<1> QED
  <2> HIDE DEF Onward, Answered
  <2> QED
    BY <1>1, <1>2, <1>3, <1>4, <1>5, <1>6, <1>7, <1>8, <1>9, <1>10 DEF HookStep, JobHookStep, CleanupStep, Procs

\* Mom takes an answer: a job whose begin event was accepted is ready, one whose
\* launch event was not killed has no entry any more.
LEMMA CollectEntry ==
  ASSUME TypeOK, EntryInv, NEW p \in Procs, Collect(p)
  PROVE  LeavesNone
<1>1. /\ pc[p] = "exit" /\ pc' = [pc EXCEPT ![p] = "idle"] /\ event' = [event EXCEPT ![p] = "none"]
      /\ result' = [result EXCEPT ![p] = "none"] /\ cgroupJobs' = cgroupJobs /\ kills' = kills
  BY DEF Collect, counts
<1>2. /\ pc \in [Procs -> Labels] /\ Jobs \subseteq Procs /\ job \in [Jobs -> Phases]
      /\ event \in [Procs -> Events] /\ result \in [Procs -> Results]
  BY DEF TypeOK, ControlOK, Procs
<1>3. /\ \A j \in Jobs \ {p}: job'[j] = job[j]
      /\ p \in Jobs => job'[p] = NextPhase(event[p], result[p], job[p])
  BY <1>2, ProcsDistinct DEF Collect, mom
<1>4. \A j \in Jobs \ {p}: SameEntry(j)
  BY <1>1, <1>2, <1>3 DEF SameEntry
<1>5. ASSUME p \in Jobs PROVE EntryOK(p)' /\ (p \in EntriesLeft' => p \in EntriesLeft)
  <2>1. job[p] \in PhaseOf(event[p]) /\ pc'[p] = "idle" /\ event'[p] = "none" /\ result'[p] = "none"
    BY <1>1, <1>2, <1>5 DEF EntryInv, EntryOK
  <2>2. job'[p] # "begin" /\ (job'[p] = "ready" <=> event[p] = "begin" /\ result[p] = "accept")
    BY <1>3, <1>5, <2>1 DEF NextPhase, PhaseOf
  <2>3. EntryOK(p)'
    BY <2>1, <2>2 DEF EntryOK
  <2>4. ASSUME p \in EntriesLeft' PROVE p \in EntriesLeft
    <3>1. p \in cgroupJobs /\ job'[p] # "ready"
      BY <1>1, <2>1, <2>4 DEF EntriesLeft, Starting
    <3>2. job[p] = "ready" => event[p] = "launch" /\ result[p] = "killed"
      BY <1>1, <1>5, <2>1, <3>1 DEF PhaseOf, EntryInv, EntryOK
    <3>3. job[p] = "begin" => result[p] # "accept"
      BY <2>1, <2>2, <3>1 DEF PhaseOf
    <3> QED
      BY <3>1, <3>2, <3>3 DEF EntriesLeft, Starting
  <2> QED
    BY <2>3, <2>4
<1> QED
  BY <1>1, <1>4, <1>5, OneJobSteps

\* A hook that is killed leaves one entry at most.
LEMMA KilledEntry ==
  ASSUME TypeOK, EntryInv, NEW p \in Procs, HookKilled(p)
  PROVE  EntryInv' /\ kills' = kills + 1 /\ EntriesLeft' \subseteq EntriesLeft \cup {p}
<1>1. /\ pc[p] # "idle" /\ pc' = [pc EXCEPT ![p] = "exit"] /\ result' = [result EXCEPT ![p] = "killed"]
      /\ event' = event /\ job' = job /\ cgroupJobs' = cgroupJobs /\ kills' = kills + 1
  BY DEF HookKilled, mom, files
<1>2. /\ pc \in [Procs -> Labels] /\ Jobs \subseteq Procs
      /\ event \in [Procs -> Events] /\ result \in [Procs -> Results] /\ cgroupJobs \subseteq Jobs
  BY DEF TypeOK, ControlOK, FilesOK, Procs
<1>3. \A j \in Jobs \ {p}: SameEntry(j)
  BY <1>1, <1>2 DEF SameEntry
<1>4. ASSUME p \in Jobs PROVE EntryOK(p)'
  BY <1>1, <1>2, <1>4 DEF EntryInv, EntryOK, EventsOf
<1>5. ASSUME NEW j \in Jobs, j # p PROVE EntryOK(j)' /\ (j \in EntriesLeft' => j \in EntriesLeft)
  BY <1>3, <1>5, SameKept DEF EntryInv
<1>6. EntriesLeft' \subseteq Jobs
  BY <1>1, <1>2 DEF EntriesLeft
<1>7. EntriesLeft' \subseteq EntriesLeft \cup {p}
  BY <1>5, <1>6
<1> QED
  BY <1>1, <1>4, <1>5, <1>7 DEF EntryInv

\* The inductive invariant: the entries left behind can be counted, and are not more
\* than the hooks that were killed.
EntriesCounted == EntryInv /\ IsFiniteSet(EntriesLeft) /\ Cardinality(EntriesLeft) <= kills

LEMMA EntriesStep ==
  ASSUME ~GatherMayFail, ~SystemdSlices, TypeOK, EntriesCounted, [Next]_vars
  PROVE  EntriesCounted'
<1>1. kills \in Nat /\ Cardinality(EntriesLeft) \in Nat
  <2>1. kills \in Nat
    <3>1. kills \in 0..MaxKills
      BY DEF TypeOK, ControlOK
    <3> QED
      BY <3>1
  <2>2. Cardinality(EntriesLeft) \in Nat
    BY FS_CardinalityType DEF EntriesCounted
  <2> QED
    BY <2>1, <2>2
<1>2. CASE LeavesNone
  <2>1. EntryInv' /\ kills' = kills
    BY <1>2 DEF LeavesNone, EntryInv
  <2>2. EntriesLeft' \subseteq EntriesLeft
    <3>1. ASSUME NEW j \in EntriesLeft' PROVE j \in Jobs
      <4>1. cgroupJobs' \subseteq Jobs
        BY TypeStep DEF TypeOK, FilesOK
      <4> QED
        BY <4>1 DEF EntriesLeft
    <3> QED
      BY <1>2, <3>1 DEF LeavesNone
  <2> DEFINE new == EntriesLeft'
  <2> HIDE DEF new
  <2>3. IsFiniteSet(new) /\ Cardinality(new) <= Cardinality(EntriesLeft) /\ Cardinality(new) \in Nat
    BY <2>2, FS_Subset, FS_CardinalityType DEF EntriesCounted, new
  <2>4. Cardinality(new) <= kills'
    BY <1>1, <2>1, <2>3 DEF EntriesCounted
  <2> QED
    BY <2>1, <2>3, <2>4 DEF EntriesCounted, new
<1>3. ASSUME NEW p \in Procs, HookKilled(p) PROVE EntriesCounted'
  <2>1. EntryInv' /\ kills' = kills + 1 /\ EntriesLeft' \subseteq EntriesLeft \cup {p}
    BY <1>3, KilledEntry DEF EntriesCounted
  <2> DEFINE new == EntriesLeft'
             more == EntriesLeft \cup {p}
  <2>2. IsFiniteSet(more) /\ Cardinality(more) <= Cardinality(EntriesLeft) + 1
    <3>1. CASE p \in EntriesLeft
      <4>1. more = EntriesLeft
        BY <3>1
      <4>2. IsFiniteSet(EntriesLeft)
        BY DEF EntriesCounted
      <4> HIDE DEF more
      <4> QED
        BY <1>1, <4>1, <4>2
    <3>2. CASE p \notin EntriesLeft
      <4>1. IsFiniteSet(more) /\ Cardinality(more) = Cardinality(EntriesLeft) + 1
        BY <3>2, FS_AddElement DEF EntriesCounted
      <4> HIDE DEF more
      <4> QED
        BY <1>1, <4>1
    <3> HIDE DEF more
    <3> QED
      BY <3>1, <3>2
  <2> HIDE DEF new, more
  <2>3. IsFiniteSet(new) /\ Cardinality(new) <= Cardinality(more)
        /\ Cardinality(new) \in Nat /\ Cardinality(more) \in Nat
    BY <2>1, <2>2, FS_Subset, FS_CardinalityType DEF new, more
  <2>4. Cardinality(new) <= kills'
    BY <1>1, <2>1, <2>2, <2>3 DEF EntriesCounted
  <2> QED
    BY <2>1, <2>3, <2>4 DEF EntriesCounted, new
<1>4. CASE UNCHANGED vars
  <2>1. kills' = kills /\ \A j \in Jobs: SameEntry(j)
    BY <1>4 DEF vars, files, mom, procs, counts, SameEntry
  <2>2. LeavesNone
    BY <2>1, OneJobSteps, SameKept DEF EntryInv, EntriesCounted
  <2> QED
    BY <1>2, <2>2
<1> QED
  BY <1>2, <1>3, <1>4, MomEntry, AcquireEntry, HookEntry, CollectEntry DEF Next, EntriesCounted

\* Without systemd, and where cgroup_jobs can be read and rewritten, every entry of it
\* but as many as hooks were killed is that of a job about to start
\* (add_jobid_to_cgroup_jobs, remove_jobid_from_cgroup_jobs), whatever mom starts at
\* once.
THEOREM EntriesOfKills == ASSUME ~GatherMayFail PROVE Spec => []OneEntryPerKill
<1>1. CASE SystemdSlices
  <2>1. OneEntryPerKill
    BY <1>1 DEF OneEntryPerKill
  <2> QED
    BY <2>1, PTL
<1>2. CASE ~SystemdSlices
  <2>1. ASSUME Init PROVE EntriesCounted
    <3>1. EntriesLeft = {} /\ kills = 0
      BY <2>1 DEF Init, EntriesLeft
    <3>2. EntryInv
      BY <2>1 DEF Init, EntryInv, EntryOK, Procs
    <3> QED
      BY <3>1, <3>2, FS_EmptySet DEF EntriesCounted
  <2>2. TypeOK /\ EntriesCounted /\ [Next]_vars => EntriesCounted'
    BY <1>2, EntriesStep
  <2>3. EntriesCounted => OneEntryPerKill
    BY DEF EntriesCounted, OneEntryPerKill
  <2> QED
    BY <2>1, <2>2, <2>3, TypeCorrect, PTL DEF Spec
<1> QED
  BY <1>1, <1>2

-----------------------------------------------------------------------------
(* The holder of the lock gets on.                                         *)

AtWork == Labels \ {"idle", "wait", "exit"}

\* Who has the lock is in the middle of its work.
HolderAtWork == \A p \in Procs: lock = p => pc[p] \in AtWork

LEMMA HookStepRuns ==
  ASSUME NEW p \in Procs, HookStep(p)
  PROVE  lock = p /\ pc[p] \in AtWork
<1>1. CASE p = Periodic
  BY <1>1 DEF HookStep, CleanupStep, RenameOrphans, ReapOrphan, OrphansReaped, BringOnline, Running, AtWork, Labels
<1>2. CASE p # Periodic
  BY <1>2 DEF HookStep, JobHookStep, CleanupStep, RenameOrphans, ReapOrphan, OrphansReaped, Dequeue, AddPids,
              Delete, CreateJob, Assign, AssignFails, SetMems, Commit, Running, AtWork, Labels
<1> QED
  BY <1>1, <1>2

\* What a step of the holder comes to.
Onto(p, l) == lock' = lock /\ pc' = [pc EXCEPT ![p] = l]

LEMMA MovesAre ==
  ASSUME NEW p, NEW l
  PROVE  /\ GoTo(p, l) => Onto(p, l)
         /\ \A r: Finish(p, r) => lock' = NoOne
         /\ Abort(p) => lock' = NoOne
  BY DEF GoTo, Onto, Finish, Abort

LEMMA FurtherOn ==
  ASSUME TypeOK, NEW p \in Procs, NEW l \in AtWork, Onto(p, l),
         \/ attempt' > attempt
         \/ attempt' = attempt /\ Order(l) > Order(pc[p])
         \/ attempt' = attempt /\ l = pc[p] /\ todo' \subseteq todo /\ todo' # todo
  PROVE  Further(p) /\ lock' = lock /\ pc'[p] \in AtWork
<1>1. pc'[p] = l
  BY DEF Onto, TypeOK, ControlOK
<1> QED
  BY <1>1 DEF Onto, Further

\* A second attempt follows the first one only.
LEMMA NextAttemptOn ==
  ASSUME TypeOK, NEW p \in Procs, NextAttempt(p)
  PROVE  lock' = NoOne \/ (Further(p) /\ lock' = lock /\ pc'[p] \in AtWork)
<1>1. CASE attempt = 1
  <2>1. GoTo(p, "attempt") /\ attempt' > attempt
    BY <1>1 DEF NextAttempt
  <2> QED
    BY <2>1, MovesAre, FurtherOn DEF AtWork, Labels
<1>2. CASE attempt # 1
  BY <1>2, MovesAre DEF NextAttempt
<1> QED
  BY <1>1, <1>2

\* Every step of the holder releases the lock or gets it further.
LEMMA HolderSteps ==
  ASSUME TypeOK, NEW p \in Procs, HookStep(p)
  PROVE  lock' = NoOne \/ (Further(p) /\ lock' = lock /\ pc'[p] \in AtWork)
<1> DEFINE Moves == lock' = NoOne \/ (Further(p) /\ lock' = lock /\ pc'[p] \in AtWork)
<1>a. \A m, l \in AtWork: pc[p] = m /\ GoTo(p, l) /\ attempt' = attempt /\ Order(l) > Order(m) => Moves
  BY MovesAre, FurtherOn
<1>b. Order("dequeue") = 0 /\ Order("pids") = 1 /\ Order("delete") = 1 /\ Order("create") = 2
      /\ Order("attempt") = 3 /\ Order("rename") = 4 /\ Order("mems") = 4 /\ Order("reap") = 5
      /\ Order("commit") = 5 /\ Order("online") = 6
  BY DEF Order
<1>c. {"dequeue", "pids", "delete", "create", "attempt", "rename", "mems", "reap", "commit", "online"} \subseteq AtWork
  BY DEF AtWork, Labels
<1>1. CASE Dequeue(p)
  <2>1. pc[p] = "dequeue" /\ (AfterDequeue(p) \/ Abort(p))
    BY <1>1 DEF Dequeue, Running
  <2>2. AfterDequeue(p) => attempt' = attempt /\ \E l \in {"pids", "delete"}: GoTo(p, l)
    BY DEF AfterDequeue, locals
  <2> QED
    BY <1>a, <1>b, <1>c, <2>1, <2>2, MovesAre
<1>2. CASE AddPids(p) \/ Commit(p) \/ (p = Periodic /\ BringOnline)
  BY <1>2, MovesAre DEF AddPids, Commit, BringOnline
<1>3. CASE Delete(p)
  <2>1. pc[p] = "delete" /\ (Abort(p) \/ AfterDelete(p))
    BY <1>3 DEF Delete, Running
  <2>2. Abort(p) \/ Finish(p, "accept") \/ (GoTo(p, "create") /\ attempt' = attempt)
    BY <2>1 DEF AfterDelete, locals
  <2> QED
    BY <1>a, <1>b, <1>c, <2>1, <2>2, MovesAre
<1>4. CASE CreateJob(p)
  <2>1. pc[p] = "create" /\ attempt' = attempt /\ GoTo(p, "attempt")
    BY <1>4 DEF CreateJob, Running
  <2> QED
    BY <1>a, <1>b, <1>c, <2>1
<1>5. CASE Assign(p)
  <2>1. pc[p] = "attempt" /\ attempt' = attempt /\ GoTo(p, "mems")
    BY <1>5 DEF Assign, Running, locals
  <2> QED
    BY <1>a, <1>b, <1>c, <2>1
<1>6. CASE AssignFails(p)
  <2>1. pc[p] = "attempt" /\ (NextAttempt(p) \/ (GoTo(p, "rename") /\ attempt' = attempt))
    BY <1>6 DEF AssignFails, Running
  <2>2. CASE NextAttempt(p)
    BY <2>2, NextAttemptOn
  <2>3. CASE GoTo(p, "rename") /\ attempt' = attempt
    BY <1>a, <1>b, <1>c, <2>1, <2>3
  <2> QED
    BY <2>1, <2>2, <2>3
<1>7. CASE SetMems(p)
  <2>1. pc[p] = "mems" /\ attempt' = attempt /\ GoTo(p, "commit")
    BY <1>7 DEF SetMems, Running, locals
  <2> QED
    BY <1>a, <1>b, <1>c, <2>1
<1>8. CASE RenameOrphans(p)
  <2>1. pc[p] = "rename" /\ attempt' = attempt /\ GoTo(p, "reap")
    BY <1>8 DEF RenameOrphans, Running
  <2> QED
    BY <1>a, <1>b, <1>c, <2>1
<1>9. CASE ReapOrphan(p)
  <2>1. \/ Abort(p)
        \/ /\ pc[p] = "reap" /\ GoTo(p, "reap") /\ attempt' = attempt
           /\ \E j \in todo: todo' = todo \ {j}
    BY <1>9 DEF ReapOrphan, Running
  <2>2. (\E j \in todo: todo' = todo \ {j}) => todo' \subseteq todo /\ todo' # todo
    OBVIOUS
  <2>3. CASE Abort(p)
    BY <2>3, MovesAre
  <2>4. CASE ~Abort(p)
    BY <1>c, <2>1, <2>2, <2>4, MovesAre, FurtherOn
  <2> QED
    BY <2>3, <2>4
<1>10. CASE OrphansReaped(p)
  <2>1. pc[p] = "reap" /\ (NextAttempt(p) \/ Finish(p, "accept") \/ (GoTo(p, "online") /\ attempt' = attempt))
    BY <1>10 DEF OrphansReaped, Running, locals
  <2>2. CASE NextAttempt(p)
    BY <2>2, NextAttemptOn
  <2>3. CASE ~NextAttempt(p)
    BY <1>a, <1>b, <1>c, <2>1, <2>3, MovesAre
  <2> QED
    BY <2>2, <2>3
<1> QED
  <2>1. \/ Dequeue(p) \/ AddPids(p) \/ Delete(p) \/ CreateJob(p) \/ Assign(p) \/ AssignFails(p)
        \/ SetMems(p) \/ Commit(p) \/ RenameOrphans(p) \/ ReapOrphan(p) \/ OrphansReaped(p)
        \/ (p = Periodic /\ BringOnline)
    BY DEF HookStep, JobHookStep, CleanupStep
  <2> QED
    BY <1>1, <1>2, <1>3, <1>4, <1>5, <1>6, <1>7, <1>8, <1>9, <1>10, <2>1

\* Every other step leaves the holder where it is, kills it, or comes from its having
\* no lock yet.
LEMMA OtherSteps ==
  ASSUME TypeOK, HolderAtWork, [Next]_vars, NEW p \in Procs, lock = p, ~HookStep(p)
  PROVE  lock' = NoOne \/ (lock' = p /\ pc'[p] = pc[p] /\ UNCHANGED <<attempt, todo>>)
<1>a. /\ pc \in [Procs -> Labels] /\ pc[p] \notin {"idle", "wait", "exit"} /\ lock # NoOne
      /\ Jobs \subseteq Procs /\ Periodic \in Procs
  BY ProcsDistinct DEF TypeOK, ControlOK, HolderAtWork, AtWork, Procs
<1> DEFINE Stays == lock' = p /\ pc'[p] = pc[p] /\ UNCHANGED <<attempt, todo>>
<1>b. ASSUME NEW q \in Procs, NEW e, StartHook(q, e) PROVE Stays
  <2>1. pc[q] = "idle" /\ pc' = [pc EXCEPT ![q] = "wait"] /\ UNCHANGED <<lock, attempt, todo>>
    BY <1>b DEF StartHook, locals
  <2> QED
    BY <1>a, <2>1
<1>1. ASSUME MomNext PROVE Stays
  <2>1. ASSUME NEW j \in Jobs, Arrive(j) \/ Launch(j) \/ Attach(j) \/ Resize(j) \/ Epilogue(j) \/ End(j)
        PROVE  Stays
    <3>1. \E e: StartHook(j, e)
      BY <2>1 DEF Arrive, Launch, Attach, Resize, Epilogue, End, RunJobHook
    <3> QED
      BY <1>a, <1>b, <3>1
  <2>2. ASSUME NEW j \in Jobs, SaveJob(j) \/ Suspend(j) \/ Resume(j) \/ JobExit(j) PROVE Stays
    BY <2>2 DEF SaveJob, Suspend, Resume, JobExit, procs, locals
  <2>3. CASE (\E d \in Dirs: TaskExit(d)) \/ AdminOffline \/ AdminOnline
    BY <2>3 DEF TaskExit, AdminOffline, AdminOnline, procs, locals
  <2>4. CASE Tick
    BY <1>a, <1>b, <2>4 DEF Tick
  <2> HIDE DEF Stays
  <2> QED
    BY <1>1, <2>1, <2>2, <2>3, <2>4 DEF MomNext
<1>2. ASSUME NEW q \in Procs, Acquire(q) PROVE FALSE
  BY <1>2, <1>a DEF Acquire
<1>3. ASSUME NEW q \in Procs, HookStep(q) PROVE FALSE
  BY <1>3, HookStepRuns
<1>4. ASSUME NEW q \in Procs, HookKilled(q) PROVE lock' = NoOne \/ Stays
  <2>1. CASE q = p
    BY <1>4, <2>1 DEF HookKilled
  <2>2. CASE q # p
    BY <1>4, <1>a, <2>2 DEF HookKilled, locals
  <2> QED
    BY <2>1, <2>2
<1>5. ASSUME NEW q \in Procs, Collect(q) PROVE Stays
  <2>1. pc[q] = "exit" /\ pc' = [pc EXCEPT ![q] = "idle"] /\ UNCHANGED <<lock, attempt, todo>>
    BY <1>5 DEF Collect, locals
  <2> QED
    BY <1>a, <2>1
<1>6. ASSUME UNCHANGED vars PROVE Stays
  BY <1>6 DEF vars, procs, locals
<1> HIDE DEF Stays
<1>7. lock' = NoOne \/ Stays
  BY <1>1, <1>2, <1>3, <1>4, <1>5, <1>6 DEF Next
<1> QED
  BY <1>7 DEF Stays

\* The lock changes hands only by being released and taken.
LEMMA HolderKept == TypeOK /\ HolderAtWork /\ [Next]_vars => HolderAtWork'
<1> SUFFICES ASSUME TypeOK, HolderAtWork, [Next]_vars, NEW p \in Procs, lock' = p
             PROVE  pc'[p] \in AtWork
  BY DEF HolderAtWork
<1>a. p # NoOne /\ pc \in [Procs -> Labels]
  BY ProcsDistinct DEF TypeOK, ControlOK, Procs
<1>1. CASE \E q \in Procs: lock = q
  <2>1. PICK q \in Procs: lock = q
    BY <1>1
  <2>2. CASE HookStep(q)
    BY <1>a, <2>1, <2>2, HolderSteps
  <2>3. CASE ~HookStep(q)
    <3>1. lock' = q /\ pc'[q] = pc[q]
      BY <1>a, <2>1, <2>3, OtherSteps
    <3> QED
      BY <2>1, <3>1 DEF HolderAtWork
  <2> QED
    BY <2>2, <2>3
<1>2. CASE \A q \in Procs: lock # q
  <2>1. PICK q \in Procs: Acquire(q)
    <3>1. MomNext => lock' = lock
      BY DEF MomNext, Arrive, SaveJob, Launch, Attach, Resize, Suspend, Resume, JobExit, Epilogue, End,
             TaskExit, Tick, AdminOffline, AdminOnline, RunJobHook, StartHook
    <3>2. \A q \in Procs: ~HookStep(q)
      BY <1>2, HookStepRuns
    <3>3. \A q \in Procs: HookKilled(q) \/ Collect(q) => lock' = lock
      BY <1>2 DEF HookKilled, Collect
    <3>4. UNCHANGED vars => lock' = lock
      BY DEF vars
    <3> QED
      BY <1>2, <3>1, <3>2, <3>3, <3>4 DEF Next
  <2>2. lock' = q /\ pc' = [pc EXCEPT ![q] = FirstLabel(event[q])]
    BY <1>a, <2>1 DEF Acquire, Abort, Finish
  <2>3. FirstLabel(event[q]) \in AtWork
    BY DEF FirstLabel, AtWork, Labels
  <2> QED
    BY <1>a, <2>2, <2>3
<1> QED
  BY <1>1, <1>2

\* A hook that has the lock comes to an end on its own (configure_job, cleanup_orphans,
\* the with statement of the lock file): a second attempt is the last one, the labels
\* of an attempt follow in order, and the orphans it has found get fewer.
THEOREM HolderGetsOn == Spec => HookGetsOn
<1>1. Init => HolderAtWork
  <2>1. Init => lock = NoOne
    BY DEF Init
  <2>2. \A p \in Procs: p # NoOne
    BY ProcsDistinct DEF Procs
  <2> QED
    BY <2>1, <2>2 DEF HolderAtWork
<1>2. ASSUME TypeOK, HolderAtWork, [Next]_vars, NEW p \in Procs, lock = p
      PROVE  /\ HookStep(p) => lock' = NoOne \/ Further(p)
             /\ ~HookStep(p) => \/ lock' = NoOne
                                \/ lock' = p /\ pc'[p] = pc[p] /\ UNCHANGED <<attempt, todo>>
  <2>1. HookStep(p) => lock' = NoOne \/ Further(p)
    BY <1>2, HolderSteps
  <2>2. ~HookStep(p) => \/ lock' = NoOne
                        \/ lock' = p /\ pc'[p] = pc[p] /\ UNCHANGED <<attempt, todo>>
    BY <1>2, OtherSteps
  <2> QED
    BY <2>1, <2>2
<1> DEFINE GetsOn == \A p \in Procs: lock = p =>
                       /\ HookStep(p) => lock' = NoOne \/ Further(p)
                       /\ ~HookStep(p) => \/ lock' = NoOne
                                          \/ lock' = p /\ pc'[p] = pc[p] /\ UNCHANGED <<attempt, todo>>
<1>3. TypeOK /\ HolderAtWork /\ [Next]_vars => [GetsOn]_vars
  BY <1>2
<1> HIDE DEF GetsOn
<1>4. Spec => [][GetsOn]_vars
  BY <1>1, <1>3, HolderKept, TypeCorrect, PTL DEF Spec
<1> QED
  BY <1>4 DEF HookGetsOn, GetsOn
=============================================================================
