# az-hop in TLA+

az-hop deploys an HPC platform on Azure: infrastructure (Terraform or Bicep), an
Ansible installation of the portal, the scheduler (OpenPBS or Slurm), CycleCloud
and the domain, and the scripts that run on every compute node CycleCloud
starts. This directory holds TLA+ models of its own control logic, the TLC runs
that check them on small instances, and TLAPS proofs.

Paths below are relative to the repository's root. `CG` stands for
`playbooks/roles/pbsserver/files/pbs_cgroups.PY`.

## 1. The system

| Component | State it keeps | Operations | Hard behaviour |
|---|---|---|---|
| PBS cgroups hook, `CG` | cgroup tree, `cgroup_jobs`, offline file, vnode state on the server | begin, launch, attach, resize, epilogue, end, periodic | one process per event, a file lock, hooks killed by their alarm, processes that survive SIGKILL, a server that does not answer |
| placement of jobs, `CG` | cpuset of each job | choice of CPUs and NUMA nodes | hyperthreads, memory-only nodes, requests larger than a socket, suspended jobs |
| memory controllers, `CG` | limits of the host's and of a job's cgroup, memory advertised to the server | startup, begin, resize | limits that depend on each other and on the configuration before, kernel rules on their order |
| `autostop.rb` on OpenPBS nodes | `autoscale.json`, `node.keepalive` | one run a minute | runs that overlap, restarts in the middle of a write, jobs that arrive meanwhile |
| `install.sh` | `playbooks/*.ok` | run all playbooks, or one, with or without tags | failures, interruptions, edits of config.yml between runs |
| `build.sh` | `terraform.tfstate`, `<rg>.parameters.json`, outputs | init, plan, apply, destroy | state of another resource group, runs that stop between two writes |
| `azhop_state.sh` | blobs of a resource group, `.state`, local files | upload, download, delete | two deployers, newer local files |
| `packer/build_image.sh` | `md5sum.txt`, managed image and its tags, gallery versions | checksum, build, tag, push | a run that stops between two of them, runs for other images in the same directory |
| `bicep/install.sh` | none | wait for the deployment, install | waiting, retries |
| `configure.py`, `configure_ad.py` of CycleCloud | `config/data` and what the server has of it, key files, Azure account | wait, password, account, keys, Active Directory | a server that imports files later, runs cut off and run again with other arguments |
| cluster-init scripts of a node | mounts, fstab, host name, domain, sudoers | one script after the other, from the start again after a failure | scripts that are not idempotent, bounded retries |
| health checks (NHC) | vnode state, `at` queue | check, mark offline, shut down | the shutdown races the node's next job |
| users and groups playbooks | AD users, groups, key vault, SOCKS tunnel | add, remove | a task that fails half way |
| everything else | | | packages, templates, dashboards and declarations: see `PROJECT.json` |

How they interact: `build.sh` writes what `install.sh` reads (inventory,
`group_vars/all.yml`); `install.sh` runs the playbooks that set up CycleCloud,
the scheduler and the hook; CycleCloud starts nodes that run the cluster-init
scripts; a job on a node fires the hook's events, called by `pbs_mom`, in
processes that meet at a lock file; `autostop.rb` looks at mom's job files and
asks CycleCloud whether to stop the node; hook, health check and autostop all
change the state of the same vnode.

What makes each correct:

* hook: no two cgroups share CPUs, a live job never loses its cgroup, leftovers
  are removed at last, a node the hook took offline comes back;
* placement: a request that fits gets CPUs, on one NUMA node where one suffices;
* autostop: an idle node stops, a busy one does not, CycleCloud is not asked
  every minute;
* memory: what the host offers is what a job may have; no job gets swap where
  there is none; the kernel takes the limits in the order they are written;
* configure.py: after a run that succeeded, its password and key work, whatever
  earlier runs left behind;
* build_image.sh: what is published is built from the current scripts, and
  nothing is built twice;
* install.sh: a playbook is skipped only if it has succeeded, runs on top of
  its predecessors, and a failed installation can be reapplied.

The hazards, each at its line and with the properties that cover it, are in
`PROJECT.json` under `hazards`.

## 2. Modules

### CgroupsHook, CpuLease

One execution host with the configuration `pbs_cgroups.CF` ships. A process per
job (for whichever event of the job runs) and one for the periodic event;
`pc[p]` is where the hook is, `lock` the lock file (`CG:535`), and the local
variables `assigned` (`self.assigned_resources`), `joblist`, `todo`, `remaining`
and `attempt` exist once because only the lock's holder uses them.

| Code | Model |
|---|---|
| cgroup directories, `cpuset.cpus`, `cpuset.mems`, `tasks` | `dirs`, `cpus`, `mems`, `tasks` over `Dirs`, a job's directory and the orphan it may become |
| `cgroup_jobs`, `mom_priv/jobs/*.JB`, offline file | `cgroupJobs`, `jb`, `offlineFile` |
| vnode on the server; what the hook asks of it | `nodeState`, `nodeComment`; `vnode[p]`, which reaches the server only with the hook's answer (`Collect`) and is lost when the hook is killed |
| `main` (lock, constructor, answers) | `Acquire`, `Finish`, `Abort` |
| `_execjob_begin_handler` | `Delete`, `CreateJob`, `Assign` or `AssignFails` and its two attempts, `SetMems`, `Commit` |
| launch, attach | `Dequeue`, `AddPids` |
| epilogue, end | `Dequeue`, `Delete` |
| `_exechost_periodic_handler`, `cleanup_orphans` | `RenameOrphans`, `ReapOrphan`, `OrphansReaped`, `BringOnline` |
| `_remove_cgroup` | `RemoveTrue`, `RemoveFalse`, `RemoveRaises` |
| alarm of a hook | `HookKilled`, at any step |

Mom, the jobs' processes, the administrator and the kernel are external and do
whatever `pbs_mom` lets them do: mom runs the hooks of jobs in the foreground
one at a time, except launch and periodic (`MomFree`). A job that is suspended
frees its CPUs for others (`CG:3408`), so exclusivity is stated for directories
that were not suspended since they were configured (`preempted`).
`GatherMayFail` has the lists of jobs not be read at times (run `gather`), and
`cgroup_jobs` not be rewritten (`Rewritten`): the event then ends with an error and
the entry stays as it was.

`CpuLease` is what the hook promises: CPUs are granted disjointly, changed only
by a resize, returned at the end, and shared only with a job that was parked.
`ImplementsLease` is the refinement: a live job's lease is its `cpuset.cpus`.

### AssignCpus

The choice `CgroupsHook` leaves open: `_assign_resources`, `assign_job`,
`available_node_resources` and the tables `_discover_cpuinfo` builds, as pure
operators over a topology given by constants, driven by a state machine of
begin, resize, end, suspend and resume. It implements `CpuLease` as well. The
hook gives out CPUs in two passes: first threads of cores that are entirely free,
core by core, then, if it has not enough, other CPUs by number. `Picked` has both,
and what it counts between them: each pass is a set and its order (`CoreByCore`,
`ByNumber`), of which a loop reaches the `Foremost` before it has enough; the
second pass refuses when more are needed than are left. That the two counts fit
is proved (`PickedIs`), not assumed.

### Autostop

Runs of the script as processes that read, write and ask at separate steps. Cron,
the jobs, KeepAlive and restarts are external, and a minute may pass, and the next
run start, wherever the others are (`Minute`): while CycleCloud does not answer,
but also between the reading of `autoscale.json` and its writing, since a run looks
through mom's logs there. Two runs then race for the file: one loses what the
other wrote, and a shorter text written over a longer one leaves no JSON (`Write`,
`data` = "broken", as after a restart between truncating and writing). The history
variable `raced` says that this has happened and that no run has written down a
job alone since. `pbsnodes -o` and the shutdown may fail unnoticed. Times are ages
in minutes, capped one above the largest limit.

### MemoryLimits

The memory and memsw controllers, of which `CgroupsHook` has nothing. The
shipped configuration has them off; here the configuration (`Configs`) and the
host (`Hosts`) are parameters, and mom is restarted with another configuration
(`StartMom`).

| Code | Model |
|---|---|
| `get_memory_on_node`, `get_vmem_on_node` and their rounding | `MemoryOnNode`, `VmemOnNode` and the operators before them |
| `create_vnodes` | `CreateVnodes`, kept in `advertised` |
| startup handler: refuses a host without memory or vmem, the latter after a first attempt at the memory limit | `StartMom` with `NoMemoryLeft`, `NothingLeft`, `TryMemoryLimit` |
| startup handler: three rounds of writes, each limit that is refused left for the next | `HostWrites`, `WriteHostLimit`, `EndRound` |
| `configure_job`: defaults, what is available, refusals | `MemLimit`, `VmemLimit`, `Verdict`, `JobWrites` |
| `set_limit`, one file at a time | `WriteJobLimit` takes the head of `todo` |
| kernel: memsw is never below memory; a limit in use may not be lowered | `Invalid`, `MayBeBusy` (external) |

`job.under` is history: the configurations the job was configured with.

### InstallPlaybooks

`install.sh` with its markers: `Start` leaves the markers of what the
configuration turns off, `Skip`, `Succeed`, `Fail` and `Touch` are
`run_playbook`; the administrator interrupts it, edits `config.yml` and removes
markers, of one playbook or all, and runs the script for one playbook or all, with
`-f` or tags. A playbook is abstracted to how it ends.

### ConfigureCycle

The scripts as the ccportal playbook calls them. The server is a second actor:
`data` are the files in `config/data` it has not imported yet, `store` what it
has imported (`Import`, at any time and in any order). `pc` is the line of the
script; one action per file it copies, command it runs or answer it waits for.

| Code | Model |
|---|---|
| `get_vm_metadata`, `await_startup` and its five tries | `GetMetadata`, `Started`, `NotStarted` |
| password: given or generated; `account_data.json` moved to `config/data` | `Start` with `GivenOrRandom`, `CopyAccountData` |
| `cyclecloud initialize`, `account show`, `account create` | `Initialize`, `ShowAccount`, `GetIdentity`, `CreateAccount`, with `azure` for the account |
| `create_keypair`: `id_rsa.pub` and `authorized_keys`, opened, then written | `OpenPublicKey`, `FillPublicKey`, `OpenAuthorized`, `FillAuthorized` |
| `create_user_credential`, `configure_ad.py` | `CopyCredential`, `CopyADSettings` |

`Kill` and the failures of commands end a run anywhere (`MaxUpsets`), and the
next one may come with another password or key (`ChangeArguments`). The playbook
passes the key it was given, or none at all, or an empty one (`Arguments`).

### BuildImage

`pc[i]` is where the run for image `i` is. Its source (`Source`) is its packer file
and the directory of scripts that file names: all images of one operating system
have the same one (`DirOf`; `packer/azhop-centos79-v2-rdma-gpgpu.json:33` and
`packer/azhop-centos79-desktop3d.json:31` both say `scripts/centos/`). The file
`md5sum.txt` is one variable for all runs, since the tutorial builds images in
parallel from one directory
(`docs/tutorials/Implementing_Azure_HPC_OnDemand_Platform.md:323`); a checksum
is the sequence of lines it was made of, one of the directory and one of the packer
file, so that two are equal exactly when the files were.

`Find`, `AppendPacker` and `Compare` write and read the file; the first two may
fail and the run goes on with a part of it (`set +e`, `build_image.sh:105`).
`Build` reads the packer file and deletes the old image and its tags
(`packer -force`), `Capture` uploads the scripts as they are by then and makes the
new image, `TagChecksum` and `TagVersion` replace its tags, `Push` adds a version
to the gallery, `TagDisk` is `-k`. `Fails` ends a run between any two of them.
Nothing locks the files: `EditFile` changes a packer file or a directory at any
moment, and so the source of every image that is built from it.

History variables say what the properties are about: whether `md5sum.txt` is the
run's whole work and its alone (`alone`), whether no file of the image was edited
since the run summed them (`steady`), whether the image was captured after such an
edit, so that its tag is of other files than it was built from (`mixed`, until it
is rebuilt), whether `-f` was given (`asked`), whether anything happened since the
last success (`settled`). Assumed is that one run at a time builds an image, and
that `md5sum.txt` can be written.

### The instances

`MCCgroupsHook`, `MCAssignCpus`, `MCAutostop`, `MCInstallPlaybooks`,
`MCMemoryLimits` and `MCBuildImage` give the constants their values where a
configuration file cannot (records, functions, symmetry).

## 3. What the runs check

`PROJECT.json` lists every run with its properties; each property of a passing
run has a mutant of the code that breaks it.

| Run | Instance | Shows |
|---|---|---|
| safety | 2 jobs, 2 CPUs, 2 begins, 1 kill, suspension | `ExclusiveCpus`, `LiveJobKeepsCgroup` whatever is interrupted, with `LiveInv`, which the second rests on; an entry of `cgroup_jobs` outlives its job only for a killed hook (`OneEntryPerKill`) |
| lease | 2 jobs, 2 CPUs, all optional events, systemd slices | the hook implements `CpuLease` |
| progress | 1 job, 1 CPU, 2 begins, 2 kills, both kinds of leftovers, fairness | orphans and the cgroups of jobs that left are removed, the offline file is cleared |
| placement | 3 jobs on 5 CPUs: two NUMA nodes of different sizes, an excluded thread, one node with memory only | a request is refused only when too little is free, the offer is kept, a job that shrinks is not refused (`ShrinkFits`), a job stays on one node where one suffices, and the leases are kept |
| autostop | 2 runs that overlap anywhere and race for the file, 1 restart, fairness | the idle time starts anew with each job a run wrote down, and grows otherwise (`IdleTimeGrows`), but after a race, until a run has written down a job alone; an idle node stops unless its file is left without JSON |
| install | 4 playbooks, 3 configurations, forced runs, tags, 2 upsets | from the removal of the markers on: order, skips, completeness, recovery; markers are earned whatever is done |
| memory | 3 hosts of two NUMA nodes, 14 configurations, 2 starts of mom | the startup handler settles the host's limits, the offer holds, the kernel agrees with the order of the writes, no swap is granted by hard limits where there is none; two cases in which the code does not keep the first two are excepted in the properties (below) |
| configure | 2 passwords and a generated one, 1 key and a generated one, 1 change, 2 upsets, fairness | what a successful run promises holds, a failed one is recovered |
| images | 2 images with one directory of scripts, 2 versions, 2 edits at any time, 1 failure, a parallel run, fairness | an image was built from what its tag says, and what is published is current, unless its scripts were edited while it was built; nothing is built twice, failures are made good |

Bounds and why they suffice. Two jobs are the least that can share CPUs, and
the second begin of one of them meets its own leftovers. Two CPUs let a job of
one CPU and one of two compete. One kill can fall on any step of any hook;
`progress` takes one job, since orphans of different jobs do not meet, and two
kills: one leaves the orphan, one hits the sweep. The placement needs a third
job: one to suspend, one to take its CPUs, one to refuse. Two runs of autostop
are the least that overlap, and a restart can fall on any step of both. Two
upsets let a playbook be interrupted and its marker be removed, or a set-up be
cut off twice: the second on the files of the first. Memory sizes are small
numbers with `MB` = 2, so that rounding down happens; the requests lie below,
between and above what the hosts have; with two starts of mom each
configuration meets the limits every other has left. Two images are the least
that share `md5sum.txt` and a directory: the administrator works on one of them
(`Wanted`), the other is built once, at any moment of the first one's runs
(`MaxOthers`); two edits are an edit and its undoing, which is what makes an
image tagged with the wrong checksum be taken for right. With the packer file
edited as well (about 3.6 million states), and with three overlapping runs of autostop
(about 3.1 million states), the same properties hold; these instances take longer than a
run should.
The counters (`MaxBegins`, `MaxKills`, `MaxJobs`, `MaxCrashes`, `MaxUpsets`,
`MaxChanges`, `MaxEdits`, `MaxOthers`, `MaxStarts`) bound events from outside,
never steps of the code. `memory` may stop: a job and the starts of mom are used
up (`CHECK_DEADLOCK FALSE`).

`InstallPlaybooks` speaks of skips and order only while `trusted` holds: since
there was no marker at all, the script was run for all playbooks, with one
`config.yml`. That is what `docs/operate/upgrade.md:8` tells the administrator to
bring about ("remove ./playbooks/*.ok and run ./install.sh"); tags, targets and
edits before that removal are in the runs, those after it end the trust.

### Disagreements with what the repository says

Runs marked `violation` check one sentence of a comment or of the documentation
and find it untrue of the code; the quotations and the lines are in `findings`.

* requeue: a second attempt after the cleanup never sees the freed CPUs.
* systemd: an orphan that survives one sweep blocks every later hook.
* gather: a begin event that cannot read the job list kills running jobs.

The models show more of this kind, which no run is spent on; the notes of the
hazards say where:

* hook: `delete(jobid, False)` may take the node offline; the node comes back
  while an orphan is still there; the periodic event can undo the
  administrator's offline; the node stays offline if the server does not answer
  once; the cgroup of a job killed after `Commit` is kept by `cgroup_jobs`;
* placement: with hyperthreads, of two free cores a job of two CPUs gets one
  thread each; the sockets are never balanced by load. With `use_hyperthreads`
  off and an `exclude_cpus` that takes first threads away, `create_vnodes`
  divides the threads that are left by those of a core (`CG:1871`) and offers
  more than the hook gives out: `OfferAlwaysKept` assumes `FirstThreadsLeft`
  (the shipped file uses hyperthreads and excludes nothing);
* memory: with soft limits a request for memory stands as it is, so that the two
  limits of a job may differ although there is no swap, and a job keeps what an
  earlier configuration gave it: `NoSwapGranted` and `KernelAgrees` say when the
  promises hold. With memsw and without the memory controller a vmem limit that
  is to be raised is refused in all rounds, since `set_limit` writes the memory
  limit first, although `CG:926` has three rounds suffice (`StartupSettles`).
  With a vnode per NUMA node the startup handler gives the natural vnode the
  host's vmem (`CG:945`) after `create_vnodes` has given it to the other
  vnodes, so that jobs within the offer are deleted (`OfferHolds`);
* autostop: a restart may leave an empty `autoscale.json` for ever, and two runs
  that race for it a file that is no JSON; or one overwrites the job the other has
  just written down, so that the node counts as idle from before that job
  (`raced`). A job that starts after the script has looked is on the node when it
  is shut down. A node whose shutdown failed and that got KeepAlive since stays
  offline;
* install.sh: a marker outlives the failure of a forced run, and edits of
  `config.yml`; a run with tags marks what it ran in part, `all --tags` every
  playbook;
* configure.py: the first failure of `await_startup` ends the script, since the
  wait before the next try raises (`NotStarted`); an answer with an error is not
  waited for (`GetIdentity`); a run cut off between opening and writing
  `authorized_keys` leaves it empty; an empty key is given to the server, though
  `authorized_keys` has no such line, when there is an `id_rsa.pub` (`KeysAgree`
  excepts it);
* build_image.sh: `docs/deploy/index.md:628` promises "the checksum of the scripts
  called to build that image". When the scripts are edited between the checksum
  (`build_image.sh:107`) and the upload (`build_image.sh:156`), the image is tagged
  with the checksum of what they were; once the edit is undone, it is taken for up
  to date (`mixed`: without it TLC finds `TagNeverLies` and `Published` violated).
  Of images built in parallel one may be tagged with a checksum of the other's
  lines (`AppendPacker`); it is then rebuilt in vain, or not rebuilt when it should.

### Fairness

`CgroupsHook!Fairness`: mom keeps starting the periodic event although hooks of
jobs come between (strong fairness of `Tick`), `flock` starves no waiter
(strong fairness of `Acquire`), a hook that holds the lock goes on and its
answer is collected, since mom's alarm bounds it, and processes left behind end
at last. Nothing is assumed of jobs. `Autostop!FairSpec`: cron fires, runs go
on, CycleCloud, asked again and again, answers and takes the request at some
time. `InstallPlaybooks!FairSpec`: the administrator runs the script for all
playbooks again and no playbook fails for ever. `ConfigureCycle!FairSpec`: the
playbook is run again after a failure, a run goes on, the identity comes up at
last, and the server, which polls its directory, imports the password although
runs put new files there (strong fairness of `Import("account_data")`); the
other imports are owed to nobody. `BuildImage!FairSpec`: the script is run again
and goes on. In both, failures from outside are bounded, and those the code
causes itself are not.

## 4. What is proved

For every value of the constants:

* `CgroupsHook_proofs!TypeCorrect`: `Spec => []TypeOK`. `TypeOK` is inductive as
  it stands: the bounds of `attempt` and of the counters come from the guards,
  and the lemmas go through mom's actions (`MomType`), the control flow shared by
  all steps of the hook (`GoToControl`, `FinishControl`, `AbortControl`), the
  removal of a directory (`RemoveType`) and every step of the hook (`HookType`).
* `CgroupsHook_proofs!ExclusiveInvariant` and `CpusExclusive`:
  `Spec => []ExclusiveInv` and `Spec => []ExclusiveCpus`, if `MomWaits`.

`ExclusiveCpus` is not inductive: a hook reads the cgroup tree once, and uses
what it read over two attempts with a cleanup between them and two writes
(`cpuset.cpus`, then `cpuset.mems`) after them. `ExclusiveInv` adds what holds in
between: the CPUs on offer are free of every other cgroup (`OffersFree`), those
written to a cgroup without memory nodes, too (`ChosenFree`). These rest on what
may change meanwhile: only the holder of the lock changes cgroups; renaming an
orphan moves CPUs to a name that was free (`RenameExclusive`), removal frees
them (`CalmKernel`); the CPUs of suspended jobs are on offer, and no job is
suspended or resumed while a hook chooses (`MomBusy`, from `EventsFit` and
`MomWaits`). `StartKeeps`, `MomKeeps` and `CalmStep` say once what most steps
have in common; the steps that configure cgroups have a lemma each.

`MomWaits` says that mom does nothing else while it runs the hook of a job in the
foreground, as `pbs_mom` does. The argument needs it: a job suspended after the
hook has renamed its cgroup would put CPUs on offer that the renamed cgroup, not
marked as suspended, still has.

* `CgroupsHook_proofs!LiveInvariant` and `LiveKeepsCgroup`:
  `Spec => []LiveInv` and `Spec => []LiveJobKeepsCgroup`, if `MomWaits` and
  `~GatherMayFail` (with `GatherMayFail` run `gather` refutes it).

`LiveJobKeepsCgroup` needs two arguments. That others leave the cgroup alone:
only the holder of the lock removes or renames cgroups, and the list it goes by
has every live job (`Listed`), since a live job is in `cgroup_jobs` or has its
.JB file (`Kept`, `Saved`: the .JB file is there before the launch event takes
the job out of `cgroup_jobs`), the list is read under the lock, and no job comes
alive while another process has it. That the begin event itself has one to
hand over: its cleanup renames the cgroup it has just made when no job is on the
list yet, and `write_value` ignores files that are not there. But a cleanup and a
second attempt follow a first one that did not fit (`NoRoom`), and what is on
offer does not grow until then (`FewerAvailable`), as the hook does not read the
cgroup tree again and mom waits. So the second attempt fails, and a begin event
that succeeds has its directory, its CPUs and its memory nodes step by step
(`Made`). The mutant `NextAttemptReread` shows how narrow this is: the reading
that would make the second attempt useful (run `requeue`) would let jobs start
without a cgroup. `SparedStep`, `GoToLive` and `FinishLive` hold what the steps of
the hook have in common; `InPhase` ties events to mom's phases.

* `CgroupsHook_proofs!HookImplementsLease` and `LeasesExclusive`:
  `Spec => ImplementsLease` and `Spec => []Lease!Exclusive`, under the same two
  assumptions.

The refinement is proved step by step. Both invariants hold before each step, and
a step is one of `Grant`, `Return`, `Park` of one job or a stutter
(`GrantStep`, `EndStep`, `ParkStep`, `SameStutters`). Mom grants nothing
(`MomLease`). A begin event that commits grants what it has written, and a live
job's resize grants when it writes `cpuset.cpus` (`CommitLease`, `AssignLease`);
that these CPUs are in no other lease is `OffersFree` and `ChosenFree`, that
there are any at a commit is `Made`. The end of a job, by its hook or by mom,
returns its lease (`EndLease`). Everything else leaves the CPUs of live jobs
alone (`HookLease`). A rename or removal of a live job's cgroup would be a step
`CpuLease` does not have: its lease would be gone without a `Return`. That there
is none is `Listed` (`RenameUntouched`, `RemoveUntouched`), so the refinement
needs `LiveInv` as much as `ExclusiveInv`.

* `CgroupsHook_proofs!EntriesOfKills`: `Spec => []OneEntryPerKill`, if
  `~GatherMayFail`: without systemd, and as long as `cgroup_jobs` can be read and
  rewritten. When it cannot, `Dequeue` fails with the entry still in the file
  (`CG:4497`), and no hook was killed for it.

`LeftoverSwept` excepts the jobs in `cgroup_jobs`, which the cleanup spares; this
says how many such exceptions there are: no more than hooks were killed. The
invariant (`EntryInv`, counted in `EntriesCounted`) follows an entry from the
`Commit` that makes it to the `Dequeue` that takes it out: it is of a job that is
about to start, and mom moves a job on only after an event in its phase
(`EntryOK`), the launch event after its `Dequeue`. So every step but
`HookKilled` leaves no entry behind (`LeavesNone`); `HookKilled` may leave one, and
counts (`KilledEntry`). With systemd an event may end before its `Dequeue`, as in
the `systemd` run.

* `CgroupsHook_proofs!HolderGetsOn`: `Spec => HookGetsOn`, with no assumption.

The fairness of `HookStep` promises only that a hook goes on; that it then comes to
an end is this theorem: of the holder's steps each releases the lock or gets
`Further` (next attempt, later label, one orphan less), and nobody else's step sets
it back. Two attempts, the labels and the orphans are finite, so the lock is free
again after finitely many steps of its holder. It rests on `HolderAtWork`: who has
the lock is at work, not waiting or done, so that no step of mom moves it. TLC
has checked `HookGetsOn` on the configurations of `safety` and `lease`; it is in
no run.

The other proofs, along the same lines: what a step decides rests on what earlier
steps have found out or written, and the invariant says why that still holds.

* `Autostop_proofs!AlwaysDecidedOnTime`: unless runs have raced for
  `autoscale.json`, the times in it, and in a run about to write it, are never
  older than the last job that was written down (`NeverOlder`), since at most one
  run is between reading and writing (`OneWrites`). A run that writes down a job
  alone makes all of this true again, whatever was lost before (`AloneAnew`).
  `IdleTimeAlwaysGrows`: nor is a run about to write a time that is smaller than
  the one in the file, but for a job it has just seen (`NeverSetBack`).
* `InstallPlaybooks_proofs`: `SkippedHasRun`, `AlwaysInOrder`, `InstalledAtEnd`,
  `EveryMarkerEarned`. While the markers are trusted they are true
  (`MarkersTrue`), a playbook is marked right after it succeeded (`JustRun`), and
  a run for all playbooks leaves none out (`NoneLeftOut`).
* `ConfigureCycle_proofs`: `PasswordAlwaysWorks`, `KeysAlwaysAgree`,
  `AdministratorAlwaysFirst`. From the copy of `account_data.json` on, the
  password of the run is the last one the server will learn of (`PasswordInv`),
  and so for the key (`KeyInv`) and the account (`AdminInv`).
* `AssignCpus_proofs`: `AlwaysComplete`, `AlwaysStaysOnNode`,
  `PlacementImplementsLease`, `JobsShareNothing`, `OfferAlwaysKept`,
  `ShrinkAlwaysFits`, `ChoiceOfCgroupsHook`. The orders of
  the two passes are total (`Ordered`), so each gives as many CPUs as are still
  needed, or all it has (`ForemostIs`); what the first counts is right for the
  second (`PickedIs`), and a job gets CPUs exactly when there are enough
  (`Placed`). The hook strikes off the CPUs of other jobs node by node, and only
  on nodes whose memory a job has; that this misses none (`FreeIs`) is the
  invariant's main clause: a job has the memory of all nodes its CPUs are on,
  even one that was spread over memory-only nodes (`PlacementInv`). With it a
  placement is a `Grant`. `OfferAlwaysKept` counts: the CPUs of disjoint jobs add
  up to what they asked for (`LentIs`), those of the nodes to at least what was
  offered, rounded down per node (`HostOffer`). `ShrinkAlwaysFits`: a job's own CPUs are
  among those a resize offers it (`OwnCpusFree`), so that giving some back never
  fails; this holds only as long as no suspended job was resumed, since two jobs
  then share CPUs and each strikes off the other's (TLC shows it when the
  condition is dropped). `ChoiceOfCgroupsHook` ties the two models of the hook
  together: `CgroupsHook` lets `Assign` choose any CPUs on offer of the size asked
  for and refuse only when there are too few, and with the shipped settings
  placement stays within that, on every topology.
* `MemoryLimits_proofs`: `OfferAlwaysHolds`, `StartupAlwaysSettles`,
  `KernelAlwaysAgrees`, `NoSwapEver`. `create_vnodes`, the startup handler and
  `configure_job` each subtract reserves and round down, per node or for the
  host; `AdvertisedFits` compares them, for any number of nodes (`SumRounded`:
  what is left of each node, rounded down, adds up to no more than what is left of
  all, if the same reserve is taken from it once). The rounds
  of the startup handler get on: a memory limit above the old vmem limit fails
  in the first round, which raises the vmem limit, and passes in the second
  (`BothPhase`). What is still to be written of a job's limits fits what is
  written, between any two writes (`KernelInv`), since the vmem limit is never
  below the memory limit (`MemBelowVmem`) and falls with the resources of a job
  that gives some back (`VmemFalls`). What `configure_job` accepts where there is
  no swap has equal limits (`EqualLimits`), if no limit is soft: with soft limits
  they differ (section 3), and `NoSwapGranted` says nothing.
* `BuildImage_proofs`: `TagsNeverLie`, `AlwaysPublished`, `AlwaysOnce`. As long as no
  file of an image is edited, the lines of its files in `md5sum.txt`, while its run
  uses it, are of these files as they are (`OwnLines`, `OwnSum`), whatever other
  runs do to the file, and packer works on the same (`BuiltOrSame`). So the lines a
  run tags its image with are of what it was built from (`SumOfBuilt`), unless an
  edit came between sum and capture (`mixed`), and a tag that matches some source is
  true (`TagTrue`). An edit ends this for every image with that directory, and
  leaves all others alone (`EditSteady`). Where `md5sum.txt` is the run's whole work
  its checksum is that of its files (`AloneSum`), and the newest version is the
  image (`PushedIs`): what is published is current. `AlwaysOnce` (`NothingTwice`)
  goes the other way: after a success the tag is the checksum the next run works
  out (`TagIsSum`), its version is in the gallery, and an undisturbed run gets no
  further than looking (`UpToDate`).

Sums are the one place where induction over data is needed (the memory of the
nodes, the CPUs of the jobs). `SumTheorems` gets it from what the
prover has: the sets for which the statement fails, if any, include one with the
fewest elements (`LeastSubset`), and taking one element away from that one gives
the contradiction. `SumEquation` shows so that the recursive function behind the
community module's fold satisfies its defining equation; `SumsInt`,
`SumAtMost`, `SumAtLeast` and `CountUnion` are what the two components use.

Each of these modules proves its type invariant, too. The assumptions are the
named ASSUMEs of the modules, which TLC evaluates, and those in the
theorems: `MomWaits` and `~GatherMayFail` (above), `FirstThreadsLeft` (section 3,
placement). `UnlimitedOK`, of `MemoryLimits`, says that the limit of a
new cgroup is above all memory there is and all that is asked for.

All invariants and action properties the passing runs check, and both
refinements of `CpuLease`, are proved. Model-checked only are the
liveness properties (`OrphanCleaned`, `OfflineFileCleared`, `LeftoverSwept`,
`StopsOrFileLost`, `Recovers` of three modules), since temporal reasoning under
fairness is out of the prover's reach.

## 5. Not modelled

* The hook's hugetlb and devices controllers (off in `pbs_cgroups.CF`), and
  requests for a vnode per NUMA node.
* In the hook, what happens inside three steps that are one in the model. The
  rewriting of `cgroup_jobs` (`CG:4493`): a hook killed between its lines leaves the
  entry out or in, which the model has, or a file whose entries run into each
  other, which it has not. The renaming of orphans (`CG:4156`): all are
  renamed at once, then removed one by one, where the hook does both for each in
  turn, under the lock. For an orphan under systemd `_delete_slice(None)`
  (`CG:4075`) also stops the parent slice; slices are systemd's, outside the
  cgroup directories that the properties are about.
* In `install.sh`, the markers of what is turned off (`install.sh:93`-`141`)
  are made in one step.
* What playbooks do on the machines; packages, templates, dashboards.
* Terraform and Bicep declarations: Azure decides what they do.
* `build.sh`, `azhop_state.sh`, the bootstrap of the deployer, the cluster-init
  scripts and the user playbooks: their control is in reach and is the next to
  model (section 6).

## 6. Plan

1. Further modules: `BuildParams` (`build.sh`: the parameter file that is written
   value by value, the state of the resource group), `NodeInit` (cluster-init and
   health checks, composed with `Autostop` and the vnode of `CgroupsHook`),
   `AzhopState`, `UserSync`. Each with the abstract specification it promises:
   secrets that are written once; a node that joins only when every script
   succeeded.
2. Runs: one per question, at most two processes and one crash each.
3. Theorems: the invariants of the modules still to be written; of the liveness
   properties the steps they rest on (what a state in which a leftover waits can
   only turn into), whose fairness argument stays with TLC.
