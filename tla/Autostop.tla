------------------------------ MODULE Autostop ------------------------------
(***************************************************************************)
(* The autostop script of an OpenPBS execution node (projects/openpbs/     *)
(* cluster-init/files/autostop.rb), which cron starts every minute: it     *)
(* looks for jobs, keeps the time since when it saw none in autoscale.json *)
(* and, when that is long enough ago and CycleCloud does not report the    *)
(* node as KeepAlive, sets the node offline in PBS and asks for shutdown.  *)
(*                                                                         *)
(* Nothing in the script keeps a run from overlapping the next ones: the   *)
(* question put to CycleCloud has no time limit, and between reading and   *)
(* writing autoscale.json a run looks through mom's logs.  Times are ages  *)
(* in minutes.                                                             *)
(***************************************************************************)
EXTENDS Integers, FiniteSets

CONSTANTS
  Runs,          \* bound: how many runs of the script may overlap
  Before, After, \* idle_time_before_jobs and idle_time_after_jobs, in minutes
  Throttle,      \* keep_alive_throttle, in minutes
  MaxJobs,       \* bound on the jobs on the node at a time
  MaxCrashes     \* bound on the restarts of the node

ASSUME TimesNat == {Before, After, Throttle} \subseteq Nat
ASSUME BoundsNat == {MaxJobs, MaxCrashes} \subseteq Nat
ASSUME RunsFinite == IsFiniteSet(Runs)

VARIABLES
  jobs,       \* how many files there are in mom_priv/jobs
  ran,        \* whether a job has ever been started, by mom's logs
  offline,    \* whether the node is offline in PBS
  stopped,    \* CycleCloud has taken the shutdown request
  keepAlive,  \* the node's KeepAlive, as CycleCloud reports it
  data,       \* autoscale.json: "none", "saved", or "broken": empty, or no JSON
  idleFor,    \* the age of its idle_start_time, or Null
  keepFile,   \* the age of node.keepalive, or Null when there is none
  due,        \* cron is to start a run
  pc, long, found, \* of each run; long is idle_long_enough, found the
              \* idle_start_time it is about to write, as an age
  quiet,      \* history: minutes since a run that saw a job wrote it down
  raced,      \* history: a run has read autoscale.json while another was between
              \* reading and writing it, and no run has written down a job alone since
  crashes

node == <<jobs, ran, offline, stopped, keepAlive>>
disk == <<data, idleFor, keepFile>>
script == <<pc, long, found>>
vars == <<node, disk, due, script, quiet, raced, crashes>>

Null == -1
Timeout == IF ran THEN After ELSE Before
Cap == 1 + (CHOOSE m \in {Before, After, Throttle}: \A n \in {Before, After, Throttle}: n <= m)
Older(age) == IF age = Null \/ age = Cap THEN age ELSE age + 1

TypeOK ==
  /\ jobs \in 0..MaxJobs /\ {ran, offline, stopped, keepAlive, due, raced} \subseteq BOOLEAN
  /\ data \in {"none", "broken", "saved"}
  /\ {idleFor, keepFile} \subseteq Null..Cap /\ quiet \in 0..Cap
  /\ pc \in [Runs -> {"ready", "truncate", "write", "ask", "offline", "shutdown"}]
  /\ long \in [Runs -> BOOLEAN] /\ found \in [Runs -> Null..Cap]
  /\ crashes \in 0..MaxCrashes

Init ==
  /\ jobs = 0 /\ ran = FALSE /\ offline = FALSE /\ stopped = FALSE
  /\ keepAlive \in BOOLEAN
  /\ data = "none" /\ idleFor = Null /\ keepFile = Null /\ due = FALSE
  /\ pc = [r \in Runs |-> "ready"] /\ long = [r \in Runs |-> FALSE]
  /\ found = [r \in Runs |-> Null]
  /\ quiet = 0 /\ raced = FALSE /\ crashes = 0

-----------------------------------------------------------------------------
(* The node, its scheduler and CycleCloud (external).                      *)

JobStarts ==
  /\ ~offline /\ ~stopped /\ jobs < MaxJobs
  /\ jobs' = jobs + 1 /\ ran' = TRUE
  /\ UNCHANGED <<offline, stopped, keepAlive, disk, due, script, quiet, raced, crashes>>

JobEnds ==
  /\ jobs > 0
  /\ jobs' = jobs - 1
  /\ UNCHANGED <<ran, offline, stopped, keepAlive, disk, due, script, quiet, raced, crashes>>

SetKeepAlive ==
  /\ keepAlive' = ~keepAlive
  /\ UNCHANGED <<jobs, ran, offline, stopped, disk, due, script, quiet, raced, crashes>>

\* A minute passes, whatever the runs are about.
Minute ==
  /\ ~due /\ ~stopped
  /\ \E r \in Runs: pc[r] = "ready"
  /\ due' = TRUE
  /\ idleFor' = Older(idleFor) /\ keepFile' = Older(keepFile)
  /\ found' = [r \in Runs |-> Older(found[r])]
  /\ quiet' = Older(quiet)
  /\ UNCHANGED <<node, data, pc, long, raced, crashes>>

\* The node restarts: runs and jobs are gone, files stay as they are.
Crash ==
  /\ crashes < MaxCrashes /\ ~stopped
  /\ crashes' = crashes + 1
  /\ jobs' = 0 /\ due' = FALSE
  /\ pc' = [r \in Runs |-> "ready"] /\ long' = [r \in Runs |-> FALSE]
  /\ found' = [r \in Runs |-> Null]
  /\ UNCHANGED <<ran, offline, stopped, keepAlive, disk, quiet, raced>>

-----------------------------------------------------------------------------
(* The script.                                                             *)

\* A run has read autoscale.json and is going to write it.
Writing(r) == pc[r] \in {"truncate", "write"}

GoTo(r, label) == pc' = [pc EXCEPT ![r] = label] /\ UNCHANGED <<long, found>>

\* Mutant: the time of the shutdown is kept in the place of the idle time.
FoundDeadline ==
  IF jobs > 0 THEN Null
  ELSE IF data = "none" \/ idleFor = Null THEN -Timeout ELSE idleFor

\* Mutant: each run that sees no job starts the idle time anew.
FoundAnew == IF jobs > 0 THEN Null ELSE 0

FoundIdle ==
  IF jobs > 0 THEN Null
  ELSE IF data = "none" \/ idleFor = Null THEN 0 ELSE idleFor

IdleLongEnough == jobs = 0 /\ data = "saved" /\ idleFor # Null /\ idleFor > Timeout

\* The script starts; it fails when autoscale.json holds no JSON.
Start(r) ==
  /\ due /\ pc[r] = "ready" /\ due' = FALSE
  /\ IF data = "broken" THEN UNCHANGED <<script, raced>>
     ELSE /\ found' = [found EXCEPT ![r] = FoundIdle]
          /\ long' = [long EXCEPT ![r] = IdleLongEnough]
          /\ pc' = [pc EXCEPT ![r] = "truncate"]
          /\ raced' = (raced \/ \E s \in Runs: Writing(s))
  /\ UNCHANGED <<node, disk, quiet, crashes>>

Truncate(r) ==
  /\ pc[r] = "truncate"
  /\ data' = "broken"
  /\ GoTo(r, "write")
  /\ UNCHANGED <<node, idleFor, keepFile, due, quiet, raced, crashes>>

\* Mutant: the time since when the node is idle is not reset by a job.
WriteOld(r) ==
  /\ pc[r] = "write"
  /\ data' = IF data = "saved" /\ found[r] = Null /\ idleFor # Null THEN "broken" ELSE "saved"
  /\ idleFor' = IF found[r] = Null THEN idleFor ELSE found[r]
  /\ quiet' = IF found[r] = Null THEN 0 ELSE quiet
  /\ raced' = (raced /\ (found[r] = Null => \E s \in Runs \ {r}: Writing(s)))
  /\ found' = [found EXCEPT ![r] = Null]
  /\ pc' = [pc EXCEPT ![r] = IF long[r] THEN "ask" ELSE "ready"]
  /\ UNCHANGED <<node, keepFile, due, long, crashes>>

\* The file is written from its beginning.  If another run has written it since it
\* was truncated, and a longer text (a time, where this run has none), the end of
\* that text stays, and what is in the file is no JSON.
Write(r) ==
  /\ pc[r] = "write"
  /\ data' = IF data = "saved" /\ found[r] = Null /\ idleFor # Null THEN "broken" ELSE "saved"
  /\ idleFor' = found[r]
  /\ quiet' = IF found[r] = Null THEN 0 ELSE quiet
  /\ raced' = (raced /\ (found[r] = Null => \E s \in Runs \ {r}: Writing(s)))
  /\ found' = [found EXCEPT ![r] = Null]
  /\ pc' = [pc EXCEPT ![r] = IF long[r] THEN "ask" ELSE "ready"]
  /\ UNCHANGED <<node, keepFile, due, long, crashes>>

\* Mutant: the cached answer is kept for ever.
KeptForEver(r) ==
  /\ pc[r] = "ask" /\ keepFile # Null
  /\ GoTo(r, "ready")
  /\ UNCHANGED <<node, disk, due, quiet, raced, crashes>>

\* is_keepalive?, with node.keepalive there: true even when it is out of date
Cached(r) ==
  /\ pc[r] = "ask" /\ keepFile # Null
  /\ keepFile' = IF keepFile > Throttle THEN Null ELSE keepFile
  /\ GoTo(r, "ready")
  /\ UNCHANGED <<node, data, idleFor, due, quiet, raced, crashes>>

\* CycleCloud is not reached or answers no JSON; JSON.parse raises.
NotAnswered(r) ==
  /\ pc[r] = "ask" /\ keepFile = Null
  /\ GoTo(r, "ready")
  /\ UNCHANGED <<node, disk, due, quiet, raced, crashes>>

\* It reports the node as KeepAlive, or does not report it at all.
ToldKeepAlive(r) ==
  /\ pc[r] = "ask" /\ keepFile = Null
  /\ keepFile' = 0
  /\ GoTo(r, "ready")
  /\ UNCHANGED <<node, data, idleFor, due, quiet, raced, crashes>>

ToldNotKeepAlive(r) ==
  /\ pc[r] = "ask" /\ keepFile = Null /\ ~keepAlive
  /\ GoTo(r, "offline")
  /\ UNCHANGED <<node, disk, due, quiet, raced, crashes>>

\* pbsnodes -o; it may fail, which is not noticed
SetOffline(r) ==
  /\ pc[r] = "offline"
  /\ offline' \in {TRUE, offline}
  /\ GoTo(r, "shutdown")
  /\ UNCHANGED <<jobs, ran, stopped, keepAlive, disk, due, quiet, raced, crashes>>

\* Five seconds later, jetpack shutdown --idle, whose failure is not noticed
Shutdown(r) ==
  /\ pc[r] = "shutdown"
  /\ stopped' = TRUE
  /\ GoTo(r, "ready")
  /\ UNCHANGED <<jobs, ran, offline, keepAlive, disk, due, quiet, raced, crashes>>

ShutdownFails(r) ==
  /\ pc[r] = "shutdown"
  /\ GoTo(r, "ready")
  /\ UNCHANGED <<node, disk, due, quiet, raced, crashes>>

Answer(r) == NotAnswered(r) \/ ToldKeepAlive(r) \/ ToldNotKeepAlive(r)

Next ==
  \/ JobStarts \/ JobEnds \/ SetKeepAlive \/ Minute \/ Crash
  \/ \E r \in Runs: \/ Start(r) \/ Truncate(r) \/ Write(r) \/ Cached(r) \/ Answer(r)
                   \/ SetOffline(r) \/ Shutdown(r) \/ ShutdownFails(r)

Spec == Init /\ [][Next]_vars

\* Time passes, cron starts the script, a run goes on, and CycleCloud, asked
\* again and again, answers and takes the request at some time.
Fairness ==
  /\ WF_vars(Minute) /\ WF_vars(\E r \in Runs: Start(r))
  /\ \A r \in Runs: /\ WF_vars(Truncate(r) \/ Write(r)) /\ WF_vars(Cached(r) \/ Answer(r))
                   /\ WF_vars(SetOffline(r)) /\ WF_vars(Shutdown(r) \/ ShutdownFails(r))
  /\ SF_vars(\E r \in Runs: ToldNotKeepAlive(r)) /\ SF_vars(\E r \in Runs: Shutdown(r))

FairSpec == Spec /\ Fairness

-----------------------------------------------------------------------------
\* A run finds the node idle long enough only if no run of the whole timeout
\* saw a job and lived to write it down, whichever runs overlapped and however
\* the node restarted: the timeout starts anew with each job that a run saw.  If two
\* runs were between reading and writing autoscale.json at once, so that one may
\* have lost what the other wrote, this is true again from the next job on that is
\* written down by a run alone (raced).
DecidedOnTime ==
  [][\A r \in Runs: ~raced /\ Start(r) /\ pc'[r] = "truncate" /\ long'[r] => quiet > Timeout]_vars

\* The idle time in autoscale.json is set back by a run that writes down a job, and
\* by nothing else: neither by a run that overlaps while it asks CycleCloud, nor by
\* a restart, nor, once a job was written down by a run alone, by runs that raced for
\* the file before.
IdleTimeGrows == [][idleFor' >= idleFor \/ quiet' = 0 \/ raced]_vars

\* An idle node is shut down, once autoscale.json is written as a whole: neither
\* an answer of CycleCloud cached before, nor a failed question or shutdown,
\* nor runs that overlap and race for the file, nor a restart keeps it running
\* for ever.
StopsOrFileLost ==
  (<>[](jobs = 0 /\ ~keepAlive)) => <>stopped \/ <>[](data = "broken")
=============================================================================
