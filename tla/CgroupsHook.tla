---------------------------- MODULE CgroupsHook ----------------------------
(***************************************************************************)
(* The OpenPBS cgroups hook that az-hop installs on its compute nodes      *)
(* (playbooks/roles/pbsserver/files/pbs_cgroups.PY), with the              *)
(* configuration it ships (pbs_cgroups.CF: the cpuset controller,          *)
(* hyperthreads used, memory fences on, offlined nodes brought back).      *)
(*                                                                         *)
(* One execution host.  Every event of a job (begin, launch, attach,       *)
(* resize, epilogue, end) and every tick of the periodic event runs the    *)
(* hook in a process of its own; the processes serialise on a file lock    *)
(* and share the cgroup tree, the cgroup_jobs file, the offline file and   *)
(* mom's .JB files.  A hook may be killed by its alarm at any point: the   *)
(* kernel drops the lock, what it did to files and cgroups stays, and what *)
(* it asked of the server (the vnode's state) is lost.                     *)
(***************************************************************************)
EXTENDS Naturals, FiniteSets

CONSTANTS
  Jobs,            \* job identifiers
  Cpus,            \* the CPUs of the host's cpuset
  Sizes,           \* the ncpus values a job may ask for
  Periodic,        \* the process of the periodic event
  NoOne,           \* the holder of a free lock
  SystemdSlices,   \* TRUE iff systemd is at version 205 or above
  GatherMayFail,   \* TRUE iff reading or rewriting cgroup_jobs may fail with an I/O error
  MomWaits,        \* TRUE iff mom does nothing else while a job's hook runs
  Leftovers,       \* what the tasks file of a job whose script ended may hold
  Optional,        \* bound: the optional events of a run
  MaxBegins,       \* bound on the begin events
  MaxKills         \* bound on the hooks killed by their alarm

ASSUME CpusFinite == IsFiniteSet(Cpus)
ASSUME SizesPositive == Sizes \subseteq Nat \ {0}
ASSUME ProcsDistinct == Periodic \notin Jobs /\ NoOne \notin Jobs \cup {Periodic}
ASSUME SwitchesBoolean == {SystemdSlices, GatherMayFail, MomWaits} \subseteq BOOLEAN
ASSUME OptionalEvents == Optional \subseteq {"attach", "resize", "suspend", "admin"}
ASSUME LeftoversAreTasks == Leftovers \subseteq {"none", "live", "stuck", "nested"}
ASSUME BoundsNat == MaxBegins \in Nat /\ MaxKills \in Nat

Procs == Jobs \cup {Periodic}

\* A job's cgroup directory, and the name it gets once it is an orphan.
Dirs == Jobs \X {"job", "orphan"}
JobDir(j) == <<j, "job">>
OrphanDir(j) == <<j, "orphan">>

\* What a tasks file holds: nothing, processes SIGKILL may end, a process that
\* survives SIGKILL, or processes in a cgroup below this one only.
TaskStates == {"none", "live", "stuck", "nested"}
Phases == {"absent", "begin", "ready", "running", "suspended", "exiting", "ending"}
Events == {"none", "begin", "launch", "attach", "resize", "epilogue", "end", "periodic"}
Labels == {"idle", "wait", "dequeue", "pids", "delete", "create", "attempt",
           "rename", "reap", "mems", "commit", "online", "exit"}
Results == {"none", "accept", "reject", "rerun", "hold", "killed"}

VARIABLES
  dirs,         \* the cgroup directories that exist
  cpus,         \* cpuset.cpus of each directory
  mems,         \* the directories whose cpuset.mems is not empty
  tasks,        \* the tasks file of each directory
  cgroupJobs,   \* the cgroup_jobs file: jobs begun and not yet launched
  jb,           \* the jobs that have a .JB file in mom_priv/jobs
  offlineFile,  \* the file that remembers that the hook offlined the node
  nodeState, nodeComment,  \* the vnode, as the server has it
  job, need,    \* mom's phase of each job, and the ncpus it was given
  lock,         \* the process that holds the cgroup lock file
  pc, event, result, vnode,  \* per process; vnode is what it asks of the server
  snapshot,     \* event.job_list, written when the periodic event starts
  joblist,      \* the lock holder's list of local jobs
  assigned,     \* the lock holder's self.assigned_resources
  todo, remaining, attempt,  \* the lock holder's loop variables
  preempted,    \* history: directories whose job was suspended since configured
  begins, kills \* how many begin events and kills there were

kernel  == <<dirs, cpus, mems, tasks, preempted>>
files   == <<cgroupJobs, jb, offlineFile>>
server  == <<nodeState, nodeComment>>
mom     == <<job, need>>
procs   == <<pc, event, result, vnode>>
locals  == <<joblist, assigned, todo, remaining, attempt>>
counts  == <<begins, kills>>
vars == <<kernel, files, server, mom, lock, procs, snapshot, locals, counts>>

KernelOK ==
  /\ dirs \subseteq Dirs /\ mems \subseteq Dirs /\ preempted \subseteq Dirs
  /\ cpus \in [Dirs -> SUBSET Cpus]
  /\ tasks \in [Dirs -> TaskStates]
FilesOK == cgroupJobs \subseteq Jobs /\ jb \subseteq Jobs /\ offlineFile \in BOOLEAN
VnodeOK == vnode \in [Procs -> {"none", "offline", "online"}]
LocalsOK ==
  /\ joblist \subseteq Jobs /\ todo \subseteq Jobs
  /\ assigned \in [Dirs -> SUBSET Cpus]
  /\ remaining \in BOOLEAN /\ attempt \in 0..2
ControlOK ==
  /\ lock \in Procs \cup {NoOne}
  /\ pc \in [Procs -> Labels]
  /\ event \in [Procs -> Events]
  /\ result \in [Procs -> Results]
  /\ snapshot \subseteq Jobs
  /\ nodeState \in {"free", "offline"} /\ nodeComment \in {"", "hook", "admin"}
  /\ job \in [Jobs -> Phases]
  /\ need \in [Jobs -> Sizes \cup {0}]
  /\ begins \in 0..MaxBegins /\ kills \in 0..MaxKills

TypeOK == KernelOK /\ FilesOK /\ VnodeOK /\ LocalsOK /\ ControlOK

Init ==
  /\ dirs = {} /\ cpus = [d \in Dirs |-> {}] /\ mems = {}
  /\ tasks = [d \in Dirs |-> "none"] /\ preempted = {}
  /\ cgroupJobs = {} /\ jb = {} /\ offlineFile = FALSE
  /\ nodeState = "free" /\ nodeComment = ""
  /\ job = [j \in Jobs |-> "absent"] /\ need = [j \in Jobs |-> 0]
  /\ lock = NoOne
  /\ pc = [p \in Procs |-> "idle"] /\ event = [p \in Procs |-> "none"]
  /\ result = [p \in Procs |-> "none"] /\ vnode = [p \in Procs |-> "none"]
  /\ snapshot = {} /\ joblist = {} /\ assigned = [d \in Dirs |-> {}]
  /\ todo = {} /\ remaining = FALSE /\ attempt = 0
  /\ begins = 0 /\ kills = 0

-----------------------------------------------------------------------------
(* Mom, the processes of the jobs and the administrator (external).        *)

\* Mom runs the hook of every event but launch and periodic in the foreground.
MomFree ==
  MomWaits => \A j \in Jobs: pc[j] = "idle" \/ event[j] = "launch"

StartHook(p, e) ==
  /\ pc[p] = "idle" /\ MomFree
  /\ pc' = [pc EXCEPT ![p] = "wait"]
  /\ event' = [event EXCEPT ![p] = e]
  /\ UNCHANGED <<result, vnode, lock, locals, kernel, files, server, kills>>

\* A job with n CPUs is sent to the host, for the first time or again.
Arrive(j) ==
  /\ job[j] = "absent" /\ begins < MaxBegins
  /\ begins' = begins + 1
  /\ job' = [job EXCEPT ![j] = "begin"]
  /\ \E n \in Sizes: need' = [need EXCEPT ![j] = n]
  /\ StartHook(j, "begin")
  /\ UNCHANGED snapshot

\* Mom writes the .JB file at some time before the job is launched.
SaveJob(j) ==
  /\ job[j] \in {"begin", "ready"}
  /\ j \notin jb
  /\ jb' = jb \cup {j}
  /\ UNCHANGED <<cgroupJobs, offlineFile, kernel, server, mom, lock, procs,
                 snapshot, locals, counts>>

RunJobHook(j, phase, e) ==
  /\ job[j] = phase
  /\ StartHook(j, e)
  /\ UNCHANGED <<mom, snapshot, begins>>

Launch(j)   == j \in jb /\ RunJobHook(j, "ready", "launch")
Attach(j)   == "attach" \in Optional /\ RunJobHook(j, "running", "attach")
Epilogue(j) == RunJobHook(j, "exiting", "epilogue")
End(j)      == RunJobHook(j, "ending", "end")

Resize(j) ==
  /\ "resize" \in Optional
  /\ job[j] = "running"
  /\ \E n \in Sizes \ {need[j]}: need' = [need EXCEPT ![j] = n]
  /\ StartHook(j, "resize")
  /\ UNCHANGED <<job, snapshot, begins>>

\* The periodic event starts with the jobs mom knows: a job in the middle of
\* its begin event may or may not be among them yet.
Tick ==
  /\ \E S \in SUBSET {j \in Jobs: job[j] = "begin"}:
       snapshot' = {j \in Jobs: job[j] \notin {"absent", "begin"}} \cup S
  /\ StartHook(Periodic, "periodic")
  /\ UNCHANGED <<mom, begins>>

Suspend(j) ==
  /\ "suspend" \in Optional
  /\ job[j] = "running" /\ pc[j] = "idle" /\ MomFree
  /\ job' = [job EXCEPT ![j] = "suspended"]
  /\ preempted' = preempted \cup {JobDir(j)}
  /\ UNCHANGED <<need, dirs, cpus, mems, tasks, files, server, lock, procs,
                 snapshot, locals, counts>>

Resume(j) ==
  /\ job[j] = "suspended" /\ MomFree
  /\ job' = [job EXCEPT ![j] = "running"]
  /\ UNCHANGED <<need, kernel, files, server, lock, procs, snapshot, locals, counts>>

\* The job's script ends, or the job is deleted, and leaves processes or none.
JobExit(j) ==
  /\ job[j] \in {"running", "suspended"}
  /\ pc[j] = "idle" /\ MomFree
  /\ job' = [job EXCEPT ![j] = "exiting"]
  /\ \E t \in Leftovers:
       tasks' = [tasks EXCEPT ![JobDir(j)] = IF JobDir(j) \in dirs THEN t ELSE "none"]
  /\ UNCHANGED <<need, dirs, cpus, mems, preempted, files, server, lock, procs,
                 snapshot, locals, counts>>

\* A process left behind comes to its end.
TaskExit(d) ==
  /\ tasks[d] # "none"
  /\ d[2] = "orphan" \/ job[d[1]] \notin {"running", "suspended"}
  /\ tasks' = [tasks EXCEPT ![d] = "none"]
  /\ UNCHANGED <<dirs, cpus, mems, preempted, files, server, mom, lock, procs,
                 snapshot, locals, counts>>

\* The administrator takes the node offline with a comment of his own.
AdminOffline ==
  /\ "admin" \in Optional
  /\ nodeComment # "admin"
  /\ nodeState' = "offline" /\ nodeComment' = "admin"
  /\ UNCHANGED <<kernel, files, mom, lock, procs, snapshot, locals, counts>>

AdminOnline ==
  /\ nodeComment = "admin"
  /\ nodeState' = "free" /\ nodeComment' = ""
  /\ UNCHANGED <<kernel, files, mom, lock, procs, snapshot, locals, counts>>

-----------------------------------------------------------------------------
(* The hook.                                                               *)

GoTo(p, label) ==
  /\ pc' = [pc EXCEPT ![p] = label]
  /\ UNCHANGED <<event, result, lock, snapshot, server, mom, counts>>

\* accept() and reject() leave the with statement, which unlocks the file;
\* the answer reaches mom when the process has ended.
Finish(p, r) ==
  /\ lock' = NoOne
  /\ pc' = [pc EXCEPT ![p] = "exit"]
  /\ result' = [result EXCEPT ![p] = r]
  /\ joblist' = {} /\ assigned' = [d \in Dirs |-> {}]
  /\ todo' = {} /\ remaining' = FALSE /\ attempt' = 0
  /\ UNCHANGED <<event, snapshot, server, mom, counts>>

Abort(p) == Finish(p, IF p = Periodic THEN "reject" ELSE "hold")

Running(p, label) == lock = p /\ pc[p] = label

\* Mutants: the CPUs of orphans, or of every cgroup, are not read.
AssignedWithoutOrphans ==
  [d \in Dirs |-> IF d \in dirs \cap mems /\ d[2] = "job" THEN cpus[d] ELSE {}]
AssignedUnread == [d \in Dirs |-> {}]

\* The CPUs each directory takes up, as available_node_resources counts them:
\* CPUs are struck off per memory node, so without mems none is.
AssignedResources == [d \in Dirs |-> IF d \in dirs \cap mems THEN cpus[d] ELSE {}]

\* With systemd the name of an orphan maps to no job, the path made from it
\* does not exist, and opening it raises an I/O error.
Unreadable == SystemdSlices /\ \E j \in Jobs: OrphanDir(j) \in dirs

\* Mutants: the cgroup_jobs file is not consulted; a job is taken to be here
\* because it has a cgroup.
SavedJobsOnly == jb
JobsWithCgroup == cgroupJobs \cup jb \cup {j \in Jobs: JobDir(j) \in dirs}

\* gather_jobs_on_node: the cgroup_jobs file and the .JB files
LocalJobs == cgroupJobs \cup jb

FirstLabel(e) ==
  CASE e \in {"launch", "attach", "epilogue", "end"} -> "dequeue"
    [] e = "begin" -> "delete"
    [] e = "resize" -> "attempt"
    [] OTHER -> "rename"

Acquire(p) ==
  /\ pc[p] = "wait" /\ lock = NoOne
  /\ \/ /\ Unreadable \/ (p = Periodic /\ GatherMayFail)
        /\ Abort(p)
        /\ UNCHANGED <<kernel, files, vnode>>
     \/ /\ ~Unreadable
        /\ lock' = p
        /\ pc' = [pc EXCEPT ![p] = FirstLabel(event[p])]
        /\ assigned' = AssignedResources
        /\ joblist' = IF p = Periodic THEN snapshot \cup LocalJobs ELSE {}
        /\ attempt' = IF event[p] \in {"begin", "resize"} THEN 1 ELSE 0
        /\ UNCHANGED <<event, result, vnode, kernel, files, server, mom,
                       snapshot, todo, remaining, counts>>

\* Whether cgroup_jobs can be opened and rewritten; the rewriting is one step.
Rewritten == IF GatherMayFail THEN BOOLEAN ELSE {TRUE}

AfterDequeue(j) ==
  /\ GoTo(j, IF event[j] \in {"launch", "attach"} THEN "pids" ELSE "delete")
  /\ UNCHANGED locals

\* Mutant: only the epilogue and the end event take the job out of cgroup_jobs.
DequeueLate(j) ==
  /\ Running(j, "dequeue")
  /\ cgroupJobs' = IF event[j] \in {"launch", "attach"} THEN cgroupJobs ELSE cgroupJobs \ {j}
  /\ AfterDequeue(j)
  /\ UNCHANGED <<kernel, jb, offlineFile, vnode>>

\* remove_jobid_from_cgroup_jobs; an I/O error leaves the entry and ends the event.
Dequeue(j) ==
  /\ Running(j, "dequeue")
  /\ \E ok \in Rewritten:
       /\ cgroupJobs' = IF ok THEN cgroupJobs \ {j} ELSE cgroupJobs
       /\ IF ok THEN AfterDequeue(j) ELSE Abort(j)
  /\ UNCHANGED <<kernel, jb, offlineFile, vnode>>

\* write_value ignores a tasks file that is not there.
AddPids(j) ==
  /\ Running(j, "pids")
  /\ tasks' = IF JobDir(j) \in dirs THEN [tasks EXCEPT ![JobDir(j)] = "live"] ELSE tasks
  /\ Finish(j, "accept")
  /\ UNCHANGED <<dirs, cpus, mems, preempted, files, vnode>>

(* _remove_cgroup(d).  It returns TRUE once no task was counted in the     *)
(* directory, whether or not rmdir then succeeded; counting is cut short   *)
(* when a process ends between being read and being killed.  The systemd   *)
(* slice it stops then is left out: the slices are systemd's own, outside  *)
(* the cpuset hierarchy.                                                   *)

\* Mutant: rmdir is forgotten.
NeverGone(d) == tasks[d] # "stuck" /\ UNCHANGED kernel

Gone(d) ==
  /\ tasks[d] # "stuck"
  /\ dirs' = dirs \ {d}
  /\ cpus' = [cpus EXCEPT ![d] = {}]
  /\ mems' = mems \ {d}
  /\ tasks' = [tasks EXCEPT ![d] = "none"]
  /\ preempted' = preempted \ {d}

RmdirBusy(d) == tasks[d] # "none" /\ UNCHANGED kernel

RemoveTrue(d) == (Gone(d) \/ RmdirBusy(d)) /\ UNCHANGED <<offlineFile, vnode>>

TasksSurvive(d) == tasks[d] \in {"live", "stuck"} /\ UNCHANGED kernel

RemoveFalse(p, d) ==
  /\ TasksSurvive(d)
  /\ IF offlineFile \/ nodeState = "offline"
     THEN UNCHANGED <<offlineFile, vnode>>
     ELSE /\ offlineFile' = TRUE
          /\ vnode' = [vnode EXCEPT ![p] = "offline"]

\* The server cannot be reached for the node's state, or a process of a child
\* cgroup ends between being read and being killed.
RemoveRaises(d) ==
  /\ \/ TasksSurvive(d) /\ ~offlineFile
     \/ tasks[d] = "nested" /\ UNCHANGED kernel
  /\ UNCHANGED <<offlineFile, vnode>>

AfterDelete(j) ==
  IF event[j] = "begin" THEN GoTo(j, "create") /\ UNCHANGED locals ELSE Finish(j, "accept")

\* delete(jobid), whatever it was told about taking the node offline
Delete(j) ==
  /\ Running(j, "delete")
  /\ UNCHANGED <<cgroupJobs, jb>>
  /\ \/ /\ JobDir(j) \notin dirs
        /\ AfterDelete(j)
        /\ UNCHANGED <<kernel, offlineFile, vnode>>
     \/ /\ JobDir(j) \in dirs
        /\ \/ (RemoveTrue(JobDir(j)) \/ RemoveFalse(j, JobDir(j))) /\ AfterDelete(j)
           \/ RemoveRaises(JobDir(j)) /\ Abort(j)

\* The second reading of the cgroup tree, and create_job
CreateJob(j) ==
  /\ Running(j, "create")
  /\ assigned' = AssignedResources
  /\ dirs' = dirs \cup {JobDir(j)}
  /\ GoTo(j, "attempt")
  /\ UNCHANGED <<cpus, mems, tasks, preempted, files, vnode, joblist, todo, remaining, attempt>>

\* available_node_resources: a suspended job's CPUs may be handed out, and a
\* resized job's own.
Available(j) ==
  Cpus \ UNION {assigned[d]: d \in {x \in Dirs:
    ~ \/ x[2] = "job" /\ x[1] \in jb /\ job[x[1]] = "suspended"
      \/ event[j] = "resize" /\ x = JobDir(j)}}

\* assign_job succeeds, and set_limit writes cpuset.cpus
Assign(j) ==
  /\ Running(j, "attempt")
  /\ \E S \in SUBSET Available(j):
       /\ Cardinality(S) = need[j]
       /\ cpus' = IF JobDir(j) \in dirs THEN [cpus EXCEPT ![JobDir(j)] = S] ELSE cpus
  /\ preempted' = preempted \ {JobDir(j)}
  /\ GoTo(j, "mems")
  /\ UNCHANGED <<dirs, mems, tasks, files, vnode, locals>>

\* Mutant: attempts without end.
EndlessAttempts(p) ==
  /\ GoTo(p, "attempt")
  /\ attempt' = attempt + 1
  /\ UNCHANGED <<joblist, assigned, todo, remaining>>

\* Mutant: the cgroup tree is read again before the second attempt.
NextAttemptReread(p) ==
  IF attempt = 1
  THEN /\ GoTo(p, "attempt")
       /\ attempt' = 2 /\ assigned' = AssignedResources
       /\ UNCHANGED <<joblist, todo, remaining>>
  ELSE Finish(p, "rerun")

NextAttempt(p) ==
  IF attempt = 1
  THEN /\ GoTo(p, "attempt")
       /\ attempt' = 2
       /\ UNCHANGED <<joblist, assigned, todo, remaining>>
  ELSE Finish(p, "rerun")

\* assign_job fails: look for orphans, unless the list of jobs is visibly
\* incomplete.  A failure to read the list leaves it empty.
AssignFails(j) ==
  /\ Running(j, "attempt")
  /\ need[j] > Cardinality(Available(j))
  /\ \E L \in {LocalJobs} \cup (IF GatherMayFail THEN {{}} ELSE {}):
       IF L # {} /\ j \notin L
       THEN NextAttempt(j)
       ELSE /\ joblist' = L
            /\ GoTo(j, "rename")
            /\ UNCHANGED <<assigned, todo, remaining, attempt>>
  /\ UNCHANGED <<kernel, files, vnode>>

\* cleanup_orphans, first half: rename what belongs to no local job.  Renaming
\* fails, silently, when the orphan name is taken.  The code renames one after
\* another; nothing else looks at them until all are renamed.
RenameOrphans(p) ==
  LET lost == {j \in Jobs \ joblist: JobDir(j) \in dirs /\ OrphanDir(j) \notin dirs}
      From(d) == IF d[1] \in lost /\ d[2] = "orphan" THEN JobDir(d[1]) ELSE d
      old == {JobDir(j): j \in lost}
      Moved(S) == (S \ old) \cup {OrphanDir(j): j \in {k \in lost: JobDir(k) \in S}}
  IN /\ Running(p, "rename")
     /\ dirs' = Moved(dirs) /\ mems' = Moved(mems) /\ preempted' = Moved(preempted)
     /\ cpus' = [d \in Dirs |-> IF d \in old THEN {} ELSE cpus[From(d)]]
     /\ tasks' = [d \in Dirs |-> IF d \in old THEN "none" ELSE tasks[From(d)]]
     /\ todo' = {j \in Jobs: OrphanDir(j) \in dirs'}
     /\ remaining' = FALSE
     /\ GoTo(p, "reap")
     /\ UNCHANGED <<files, vnode, joblist, assigned, attempt>>

\* cleanup_orphans, second half: remove the orphans one by one.
ReapOrphan(p) ==
  /\ Running(p, "reap")
  /\ UNCHANGED <<cgroupJobs, jb>>
  /\ \E j \in todo:
       \/ /\ \/ RemoveTrue(OrphanDir(j)) /\ UNCHANGED remaining
             \/ RemoveFalse(p, OrphanDir(j)) /\ remaining' = TRUE
          /\ todo' = todo \ {j}
          /\ GoTo(p, "reap")
          /\ UNCHANGED <<joblist, assigned, attempt>>
       \/ RemoveRaises(OrphanDir(j)) /\ Abort(p)

OrphansReaped(p) ==
  /\ Running(p, "reap") /\ todo = {}
  /\ IF p # Periodic THEN NextAttempt(p)
     ELSE IF remaining \/ ~offlineFile THEN Finish(p, "accept")
     ELSE GoTo(p, "online") /\ UNCHANGED locals
  /\ UNCHANGED <<kernel, files, vnode>>

\* Mutant: the offline file is left behind.
OnlineKeepingFile ==
  /\ Running(Periodic, "online")
  /\ vnode' = [vnode EXCEPT ![Periodic] = "online"]
  /\ Finish(Periodic, "accept")
  /\ UNCHANGED <<kernel, files>>

\* Bring the node back if its comment is still the hook's.  The server may be
\* out of reach; the offline file goes in any case.
BringOnline ==
  /\ Running(Periodic, "online")
  /\ \/ nodeComment = "hook" /\ vnode' = [vnode EXCEPT ![Periodic] = "online"]
     \/ UNCHANGED vnode
  /\ offlineFile' = FALSE
  /\ Finish(Periodic, "accept")
  /\ UNCHANGED <<kernel, cgroupJobs, jb>>

\* set_limit for cpuset.mems
SetMems(j) ==
  /\ Running(j, "mems")
  /\ mems' = IF JobDir(j) \in dirs THEN mems \cup {JobDir(j)} ELSE mems
  /\ GoTo(j, "commit")
  /\ UNCHANGED <<dirs, cpus, tasks, preempted, files, vnode, locals>>

\* The assigned file and, for a new job, add_jobid_to_cgroup_jobs
Commit(j) ==
  /\ Running(j, "commit")
  /\ \E ok \in IF event[j] = "begin" THEN Rewritten ELSE {TRUE}:
       /\ cgroupJobs' = IF ok /\ event[j] = "begin" THEN cgroupJobs \cup {j} ELSE cgroupJobs
       /\ IF ok THEN Finish(j, "accept") ELSE Abort(j)
  /\ UNCHANGED <<kernel, jb, offlineFile, vnode>>

\* The alarm of the hook: flock is dropped with the process.
HookKilled(p) ==
  /\ pc[p] # "idle" /\ result[p] # "killed"
  /\ kills < MaxKills
  /\ kills' = kills + 1
  /\ pc' = [pc EXCEPT ![p] = "exit"]
  /\ result' = [result EXCEPT ![p] = "killed"]
  /\ vnode' = [vnode EXCEPT ![p] = "none"]
  /\ IF lock = p
     THEN /\ lock' = NoOne
          /\ joblist' = {} /\ assigned' = [d \in Dirs |-> {}]
          /\ todo' = {} /\ remaining' = FALSE /\ attempt' = 0
     ELSE UNCHANGED <<lock, locals>>
  /\ UNCHANGED <<event, snapshot, kernel, files, server, mom, begins>>

-----------------------------------------------------------------------------
(* Mom takes the answer of a hook that has ended (external).               *)

NextPhase(e, r, phase) ==
  CASE e = "begin"    -> IF r = "accept" THEN "ready" ELSE "absent"
    [] e = "launch"   -> IF r = "accept" THEN "running" ELSE "exiting"
    [] e \in {"attach", "resize"} /\ r \in {"rerun", "hold"} -> "exiting"
    [] e = "epilogue" -> "ending"
    [] e = "end"      -> "absent"
    [] OTHER          -> phase

Collect(p) ==
  /\ pc[p] = "exit"
  /\ IF p = Periodic THEN UNCHANGED <<mom, jb>>
     ELSE /\ job' = [job EXCEPT ![p] = NextPhase(event[p], result[p], job[p])]
          /\ IF job'[p] = "absent"
             THEN jb' = jb \ {p} /\ need' = [need EXCEPT ![p] = 0]
             ELSE UNCHANGED <<jb, need>>
  /\ CASE vnode[p] = "offline" -> nodeState' = "offline" /\ nodeComment' = "hook"
       [] vnode[p] = "online"  -> nodeState' = "free" /\ nodeComment' = ""
       [] OTHER -> UNCHANGED server
  /\ pc' = [pc EXCEPT ![p] = "idle"]
  /\ event' = [event EXCEPT ![p] = "none"]
  /\ result' = [result EXCEPT ![p] = "none"]
  /\ vnode' = [vnode EXCEPT ![p] = "none"]
  /\ snapshot' = IF p = Periodic THEN {} ELSE snapshot
  /\ UNCHANGED <<kernel, cgroupJobs, offlineFile, lock, locals, counts>>

-----------------------------------------------------------------------------
MomNext ==
  \/ \E j \in Jobs: \/ Arrive(j) \/ SaveJob(j) \/ Launch(j) \/ Attach(j) \/ Resize(j)
                    \/ Suspend(j) \/ Resume(j) \/ JobExit(j) \/ Epilogue(j) \/ End(j)
  \/ \E d \in Dirs: TaskExit(d)
  \/ Tick \/ AdminOffline \/ AdminOnline

CleanupStep(p) == RenameOrphans(p) \/ ReapOrphan(p) \/ OrphansReaped(p)

JobHookStep(j) ==
  \/ Dequeue(j) \/ AddPids(j) \/ Delete(j) \/ CreateJob(j) \/ Assign(j) \/ AssignFails(j)
  \/ CleanupStep(j) \/ SetMems(j) \/ Commit(j)

HookStep(p) == IF p = Periodic THEN CleanupStep(p) \/ BringOnline ELSE JobHookStep(p)

Next ==
  \/ MomNext
  \/ \E p \in Procs: Acquire(p) \/ HookStep(p) \/ HookKilled(p) \/ Collect(p)

Spec == Init /\ [][Next]_vars

-----------------------------------------------------------------------------
(* What the hook promises.                                                 *)

Configured(d) == d \in dirs \cap mems

\* Two cgroups with CPUs and memory nodes, whether of live jobs, of jobs that
\* ended or of orphans with surviving processes, never share a CPU, unless the
\* job of one of them was suspended since (a suspended job's CPUs are free).
ExclusiveCpus ==
  \A d, e \in Dirs:
    Configured(d) /\ Configured(e) /\ d # e /\ {d, e} \cap preempted = {}
      => cpus[d] \cap cpus[e] = {}

\* Why it holds.  Every event of a job has its hook, and only begin and resize
\* choose CPUs; mom suspends and resumes no job meanwhile, and none whose hook
\* runs.  So the CPUs on offer to the hook that has the lock stay free, whatever
\* the cleanup between two attempts renames or removes, and the CPUs it has
\* written to a cgroup without memory nodes stay free until that gets them.
MemsInDirs == mems \subseteq dirs

SuspendedMarked ==
  \A j \in Jobs: job[j] = "suspended" /\ JobDir(j) \in dirs => JobDir(j) \in preempted

SuspendedIdle == \A j \in Jobs: pc[j] # "idle" => job[j] # "suspended"

EventsFit ==
  \A j \in Jobs:
    /\ pc[j] # "idle" => event[j] \in Events \ {"none", "periodic"}
    /\ pc[j] \in {"create", "attempt", "rename", "reap", "mems"}
         => event[j] \in {"begin", "resize"}

Offering(j) == lock = j /\ pc[j] \in {"attempt", "rename", "reap"} /\ JobDir(j) \in dirs
Chosen(j)   == lock = j /\ pc[j] = "mems" /\ JobDir(j) \in dirs

Occupied(d) == Configured(d) /\ d \notin preempted

OffersFree ==
  \A j \in Jobs: Offering(j) =>
    \A d \in Dirs \ {JobDir(j)}: Occupied(d) => cpus[d] \cap Available(j) = {}

ChosenFree ==
  \A j \in Jobs: Chosen(j) =>
    \A d \in Dirs \ {JobDir(j)}: Occupied(d) => cpus[d] \cap cpus[JobDir(j)] = {}

\* The inductive invariant of the exclusive use of CPUs: what a hook offers or
\* has chosen in the middle of its work is free of every other cgroup, as are
\* the cgroups of each other.
ExclusiveInv ==
  /\ MemsInDirs /\ SuspendedMarked /\ SuspendedIdle /\ EventsFit
  /\ OffersFree /\ ChosenFree /\ ExclusiveCpus

\* The begin event of job j was accepted and its script has not ended.
Alive(j) ==
  \/ job[j] \in {"ready", "running", "suspended"}
  \/ job[j] = "begin" /\ result[j] = "accept"

\* From the moment its begin event is accepted until its script ends a job has
\* a cgroup of its own with memory nodes and CPUs, and starts with as many CPUs
\* as it asked for: no periodic event, however old its list of jobs, and no
\* other job's begin event takes it for an orphan.
LiveJobKeepsCgroup ==
  \A j \in Jobs: Alive(j) =>
    /\ Configured(JobDir(j))
    /\ cpus[JobDir(j)] # {}
    /\ job[j] \in {"begin", "ready"} => Cardinality(cpus[JobDir(j)]) = need[j]

\* Why it holds.  A cgroup is removed or renamed by the lock's holder alone, for a
\* job that is not alive, as every job that is alive is on the list the cleanup
\* goes by.  A begin event may rename the cgroup it has made itself, but then the
\* job did not fit, and what is on offer in the second attempt is no more.

\* The phase in which each event of a job runs, and the events of each label.
PhaseOf(e) ==
  CASE e = "begin" -> {"begin"}
    [] e = "launch" -> {"ready"}
    [] e \in {"attach", "resize"} -> {"running"}
    [] e = "epilogue" -> {"exiting"}
    [] e = "end" -> {"ending"}
    [] OTHER -> {}

EventsOf(label) ==
  CASE label = "dequeue" -> {"launch", "attach", "epilogue", "end"}
    [] label = "pids" -> {"launch", "attach"}
    [] label = "delete" -> {"begin", "epilogue", "end"}
    [] label = "create" -> {"begin"}
    [] label \in {"attempt", "rename", "reap", "mems", "commit"} -> {"begin", "resize"}
    [] OTHER -> Events

InPhase(j) ==
  /\ pc[j] = "idle" => job[j] # "begin"
  /\ pc[j] # "idle" => job[j] \in PhaseOf(event[j]) /\ event[j] \in EventsOf(pc[j])
  /\ pc[j] # "exit" => result[j] = "none"
  /\ job[j] # "absent" => need[j] \in Sizes

\* A job that runs, or is about to, has its .JB file.
Saved(j) == job[j] \in {"running", "suspended"} \/ (job[j] = "ready" /\ event[j] = "launch") => j \in jb

Kept(j) ==
  Alive(j) => /\ j \in LocalJobs
              /\ Configured(JobDir(j)) /\ cpus[JobDir(j)] # {}
              /\ job[j] \in {"begin", "ready"} => Cardinality(cpus[JobDir(j)]) = need[j]

\* The cleanup goes by a list that has every job that is alive.
Listed == \A p \in Procs: Running(p, "rename") => \A j \in Jobs: Alive(j) => j \in joblist

\* A cleanup and a second attempt follow an attempt that did not fit.
NoRoom(j) ==
  Running(j, "rename") \/ Running(j, "reap") \/ (Running(j, "attempt") /\ attempt # 1)
    => need[j] > Cardinality(Available(j))

\* What a begin event has done so far.
Made(j) ==
  event[j] = "begin" =>
    /\ Running(j, "delete") \/ Running(j, "create") => attempt = 1
    /\ Running(j, "attempt") /\ attempt = 1 => JobDir(j) \in dirs
    /\ Running(j, "mems") \/ Running(j, "commit")
         => /\ JobDir(j) \in dirs \ preempted
            /\ Cardinality(cpus[JobDir(j)]) = need[j]
    /\ Running(j, "commit") => JobDir(j) \in mems

\* The inductive invariant of the cgroups of live jobs, besides ExclusiveInv.
LiveInv ==
  /\ \A j \in Jobs: InPhase(j)
  /\ \A j \in Jobs: Saved(j)
  /\ \A j \in Jobs: Kept(j)
  /\ Listed
  /\ \A j \in Jobs: NoRoom(j)
  /\ \A j \in Jobs: Made(j)

\* The begin event of job j was accepted, and its launch event was not killed.
Starting(j) ==
  \/ job[j] = "begin" /\ result[j] = "accept"
  \/ job[j] = "ready" /\ result[j] # "killed"

\* cgroup_jobs is for the jobs that are about to start; any other entry keeps the
\* cgroup of a job that has gone from the cleanup.  There are no more of them than
\* hooks were killed, whatever events the others give up on, where cgroup_jobs can
\* be read and rewritten (an event that cannot, ends and leaves its entry) and
\* without systemd (with which an event may end before it gets to its entry).
EntriesLeft == {j \in cgroupJobs: ~Starting(j)}
OneEntryPerKill == ~SystemdSlices => Cardinality(EntriesLeft) <= kills

\* The hook implements the leases of CpuLease: a job holds the CPUs of its
\* cgroup from the acceptance of its begin event to the end of its script.
Lease == INSTANCE CpuLease WITH
  lease <- [j \in Jobs |-> IF Alive(j) THEN cpus[JobDir(j)] ELSE {}],
  parked <- {j \in Jobs: Alive(j) /\ JobDir(j) \in preempted}

\* Every step of mom, the hooks, the alarm and the jobs grants, renews or ends
\* at most one job's lease, and never lends out the CPUs of a running job.
ImplementsLease == Lease!Spec

-----------------------------------------------------------------------------
(* Progress.  Mom keeps starting the periodic event, flock keeps no waiter *)
(* out for ever, a hook that runs ends, and so does every process that was *)
(* left behind.  Nothing is assumed of jobs or of the administrator.       *)

\* The order of the labels within an attempt
Order(label) ==
  CASE label \in {"pids", "delete"} -> 1
    [] label = "create" -> 2
    [] label = "attempt" -> 3
    [] label \in {"rename", "mems"} -> 4
    [] label \in {"reap", "commit"} -> 5
    [] label = "online" -> 6
    [] OTHER -> 0

\* The hook has got further: to the next attempt, to a later label, or to one
\* orphan less.
Further(p) ==
  \/ attempt' > attempt
  \/ attempt' = attempt /\ Order(pc'[p]) > Order(pc[p])
  \/ attempt' = attempt /\ pc'[p] = pc[p] /\ todo' \subseteq todo /\ todo' # todo

\* A hook that has the lock is done after at most two attempts, each of as many
\* steps as there are labels and orphans: every step of it releases the lock or
\* gets further, and no step of mom, of the jobs or of a waiting hook sets it back.
HookGetsOn ==
  [][\A p \in Procs: lock = p =>
       /\ HookStep(p) => lock' = NoOne \/ Further(p)
       /\ ~HookStep(p) => \/ lock' = NoOne
                          \/ lock' = p /\ pc'[p] = pc[p] /\ UNCHANGED <<attempt, todo>>]_vars

Fairness ==
  /\ SF_vars(Tick)
  /\ \A p \in Procs: SF_vars(Acquire(p)) /\ WF_vars(HookStep(p)) /\ WF_vars(Collect(p))
  /\ \A d \in Dirs: WF_vars(TaskExit(d))

FairSpec == Spec /\ Fairness

\* "Cleanup cgroups for jobs not present on this node", "do not exclude
\* orphans": an orphan is removed at some time.
OrphanCleaned == \A j \in Jobs: OrphanDir(j) \in dirs ~> OrphanDir(j) \notin dirs

\* Once the cgroups that made the hook take the node offline are gone, a
\* periodic event takes the offline file away.
OfflineFileCleared == offlineFile ~> ~offlineFile

\* "Cleanup cgroups for jobs not present on this node": the cgroup of a job
\* that has left the host goes away, unless the job comes back or a killed begin
\* event has left it in cgroup_jobs, out of which nothing takes it.
LeftoverSwept ==
  \A j \in Jobs: job[j] = "absent" /\ JobDir(j) \in dirs
                   ~> job[j] # "absent" \/ JobDir(j) \notin dirs \/ j \in cgroupJobs

-----------------------------------------------------------------------------
(* What a comment of the hook says of single steps.                         *)

HeldCpus == UNION {cpus[d]: d \in {x \in dirs \cap mems:
              ~(x[2] = "job" /\ x[1] \in jb /\ job[x[1]] = "suspended")}}

\* "Make two attempts since self.cleanup_orphans may actually fix the problem
\* we see in a first attempt": a job is given back to the server only when the
\* CPUs no cgroup holds are too few for it.
RequeuedOnlyWhenShort ==
  [][\A j \in Jobs: event[j] = "begin" /\ result[j] = "none" /\ result'[j] = "rerun"
       => need[j] > Cardinality(Cpus \ HeldCpus)]_vars
=============================================================================
