-------------------------- MODULE Autostop_proofs --------------------------
(***************************************************************************)
(* The timeout of the autostop script starts anew with each job a run saw, *)
(* for any timeouts and however many runs overlap.                         *)
(*                                                                         *)
(* The times in autoscale.json and in the run that is about to write it    *)
(* are never older than the last job that was written down (NeverOlder).   *)
(* That needs at most one run between reading and writing (OneWrites), and *)
(* is lost when two runs race for the file; but a run that writes down a   *)
(* job and is alone with the file leaves no time behind at all.  Nor is    *)
(* the idle time set back by anything else than such a job: what a run is  *)
(* about to write is no younger than what the file has (NeverSetBack).     *)
(***************************************************************************)
EXTENDS Autostop, TLAPS

Labels == {"ready", "truncate", "write", "ask", "offline", "shutdown"}

\* TypeOK in two parts
Switches ==
  /\ ran \in BOOLEAN /\ offline \in BOOLEAN /\ stopped \in BOOLEAN
  /\ keepAlive \in BOOLEAN /\ due \in BOOLEAN /\ raced \in BOOLEAN
  /\ long \in [Runs -> BOOLEAN]

Values ==
  /\ jobs \in 0..MaxJobs /\ crashes \in 0..MaxCrashes
  /\ data \in {"none", "broken", "saved"}
  /\ idleFor \in Null..Cap /\ keepFile \in Null..Cap /\ found \in [Runs -> Null..Cap]
  /\ quiet \in 0..Cap
  /\ pc \in [Runs -> Labels]

OneWrites == \A r, s \in Runs: Writing(r) /\ Writing(s) => r = s

NeverOlder ==
  /\ data = "saved" /\ idleFor # Null => idleFor <= quiet
  /\ \A r \in Runs: Writing(r) /\ found[r] # Null => found[r] <= quiet

NoTimeYet == data = "none" => idleFor = Null
NeverSetBack == \A r \in Runs: Writing(r) /\ found[r] # Null => idleFor <= found[r]

\* Unless runs have raced for the file
Calm == OneWrites /\ NeverOlder /\ NeverSetBack

TimeInv == Switches /\ Values /\ NoTimeYet /\ (~raced => Calm)

-----------------------------------------------------------------------------
\* The age beyond which ages are not told apart
LEMMA CapPositive == Cap \in Nat /\ Cap >= 1
<1> DEFINE times == {Before, After, Throttle}
<1>1. \E m \in times: \A n \in times: n <= m
  <2>1. Before \in Nat /\ After \in Nat /\ Throttle \in Nat
    BY TimesNat
  <2> QED
    BY <2>1
<1>2. (CHOOSE m \in times: \A n \in times: n <= m) \in times
  BY <1>1
<1> QED
  BY <1>2, TimesNat DEF Cap

\* An age grows, keeps within its bound and never overtakes another.
LEMMA OlderKeeps ==
  ASSUME NEW a \in Null..Cap, NEW b \in Null..Cap
  PROVE  /\ Older(a) \in Null..Cap /\ (Older(a) = Null <=> a = Null)
         /\ a \in 0..Cap => Older(a) \in 0..Cap
         /\ a # Null /\ b # Null /\ a <= b => Older(a) <= Older(b)
  BY CapPositive DEF Older, Null

\* A switch that changes is set to TRUE or FALSE.
LEMMA SwitchesStep == Switches /\ [Next]_vars => Switches'
<1> SUFFICES ASSUME Switches, [Next]_vars PROVE Switches'
  OBVIOUS
<1> USE DEF Switches
<1>1. CASE JobStarts \/ JobEnds \/ SetKeepAlive
  BY <1>1 DEF JobStarts, JobEnds, SetKeepAlive, script
<1>2. CASE Minute
  BY <1>2 DEF Minute, node, script
<1>3. CASE Crash
  BY <1>3 DEF Crash
<1>4. ASSUME NEW r \in Runs, Start(r) PROVE Switches'
  <2>1. IdleLongEnough \in BOOLEAN
    BY DEF IdleLongEnough
  <2> QED
    BY <1>4, <2>1 DEF Start, node, script
<1>5. ASSUME NEW r \in Runs, Truncate(r) \/ Write(r) PROVE Switches'
  BY <1>5 DEF Truncate, Write, GoTo, node
<1>6. ASSUME NEW r \in Runs, Cached(r) \/ Answer(r) PROVE Switches'
  BY <1>6 DEF Cached, Answer, NotAnswered, ToldKeepAlive, ToldNotKeepAlive, GoTo, node
<1>7. ASSUME NEW r \in Runs, SetOffline(r) \/ Shutdown(r) \/ ShutdownFails(r) PROVE Switches'
  BY <1>7 DEF SetOffline, Shutdown, ShutdownFails, GoTo, node
<1>8. CASE UNCHANGED vars
  BY <1>8 DEF vars, node, script
<1> QED
  BY <1>1, <1>2, <1>3, <1>4, <1>5, <1>6, <1>7, <1>8 DEF Next

\* The counters keep within their bounds, the times within the largest limit.
LEMMA ValuesStep == Values /\ [Next]_vars => Values'
<1> SUFFICES ASSUME Values, [Next]_vars PROVE Values'
  OBVIOUS
<1>a. Cap \in Nat /\ Cap >= 1 /\ Null = -1 /\ MaxJobs \in Nat /\ MaxCrashes \in Nat
  BY CapPositive, BoundsNat DEF Null
<1> USE DEF Values
<1>1. CASE JobStarts \/ JobEnds \/ SetKeepAlive
  BY <1>1, <1>a DEF JobStarts, JobEnds, SetKeepAlive, disk, script
<1>2. CASE Minute
  <2>1. 0..Cap \subseteq Null..Cap
    BY <1>a
  <2> QED
    BY <1>2, <2>1, OlderKeeps DEF Minute, node, script
<1>3. CASE Crash
  BY <1>3, <1>a DEF Crash, disk, Labels
<1>4. ASSUME NEW r \in Runs, Start(r) PROVE Values'
  <2>1. FoundIdle \in Null..Cap
    BY <1>a DEF FoundIdle
  <2> QED
    BY <1>4, <2>1 DEF Start, node, disk, script, Labels
<1>5. ASSUME NEW r \in Runs, Truncate(r) \/ Write(r) PROVE Values'
  BY <1>5, <1>a DEF Truncate, Write, GoTo, node, Labels
<1>6. ASSUME NEW r \in Runs, Cached(r) \/ Answer(r) PROVE Values'
  BY <1>6, <1>a DEF Cached, Answer, NotAnswered, ToldKeepAlive, ToldNotKeepAlive, GoTo, node, disk, Labels
<1>7. ASSUME NEW r \in Runs, SetOffline(r) \/ Shutdown(r) \/ ShutdownFails(r) PROVE Values'
  BY <1>7 DEF SetOffline, Shutdown, ShutdownFails, GoTo, node, disk, Labels
<1>8. CASE UNCHANGED vars
  BY <1>8 DEF vars, node, disk, script
<1> QED
  BY <1>1, <1>2, <1>3, <1>4, <1>5, <1>6, <1>7, <1>8 DEF Next

\* autoscale.json holds no time before it is there.
LEMMA NoTimeStep == NoTimeYet /\ [Next]_vars => NoTimeYet'
<1> SUFFICES ASSUME NoTimeYet, [Next]_vars PROVE NoTimeYet'
  OBVIOUS
<1> USE DEF NoTimeYet
<1>1. CASE JobStarts \/ JobEnds \/ SetKeepAlive \/ Crash \/ UNCHANGED vars
  BY <1>1 DEF JobStarts, JobEnds, SetKeepAlive, Crash, disk, vars
<1>2. CASE Minute
  BY <1>2 DEF Minute, Older
<1>3. ASSUME NEW r \in Runs, Start(r) \/ Truncate(r) \/ Write(r) PROVE NoTimeYet'
  BY <1>3 DEF Start, Truncate, Write, disk
<1>4. ASSUME NEW r \in Runs, Cached(r) \/ Answer(r) PROVE NoTimeYet'
  BY <1>4 DEF Cached, Answer, NotAnswered, ToldKeepAlive, ToldNotKeepAlive, disk
<1>5. ASSUME NEW r \in Runs, SetOffline(r) \/ Shutdown(r) \/ ShutdownFails(r) PROVE NoTimeYet'
  BY <1>5 DEF SetOffline, Shutdown, ShutdownFails, disk
<1> QED
  BY <1>1, <1>2, <1>3, <1>4, <1>5 DEF Next

\* Only a run that writes down a job, and is alone with the file, ends the doubt
\* about it: no time is left then, in the file or in a run.
LEMMA AloneAnew == Values /\ [Next]_vars /\ raced /\ ~raced' => Calm'
<1> SUFFICES ASSUME Values, [Next]_vars, raced, ~raced' PROVE Calm'
  OBVIOUS
<1>1. PICK r \in Runs: Write(r)
  BY DEF Next, vars, JobStarts, JobEnds, SetKeepAlive, Minute, Crash, Start, Truncate, Cached, Answer,
         NotAnswered, ToldKeepAlive, ToldNotKeepAlive, SetOffline, Shutdown, ShutdownFails
<1>2. found[r] = Null /\ \A s \in Runs \ {r}: ~Writing(s)
  BY <1>1 DEF Write
<1>3. \A s \in Runs: ~Writing(s)'
  BY <1>1, <1>2 DEF Write, Writing, Values
<1>4. idleFor' = Null
  BY <1>1, <1>2 DEF Write
<1> QED
  BY <1>3, <1>4 DEF Calm, OneWrites, NeverOlder, NeverSetBack

\* A second run between reading and writing is a race.
LEMMA OneWritesStep == Values /\ OneWrites /\ [Next]_vars /\ ~raced' => OneWrites'
<1> SUFFICES ASSUME Values, OneWrites, [Next]_vars, ~raced' PROVE OneWrites'
  OBVIOUS
<1>a. pc \in [Runs -> Labels]
  BY DEF Values
<1> USE DEF OneWrites, Writing
<1>1. CASE JobStarts \/ JobEnds \/ SetKeepAlive \/ UNCHANGED vars
  BY <1>1 DEF JobStarts, JobEnds, SetKeepAlive, script, vars
<1>2. CASE Minute
  BY <1>2 DEF Minute
<1>3. CASE Crash
  BY <1>3 DEF Crash
<1>4. ASSUME NEW r \in Runs, Start(r) PROVE OneWrites'
  BY <1>4, <1>a DEF Start, script
<1>5. ASSUME NEW r \in Runs, Truncate(r) \/ Write(r) PROVE OneWrites'
  BY <1>5, <1>a DEF Truncate, Write, GoTo
<1>6. ASSUME NEW r \in Runs, Cached(r) \/ Answer(r) PROVE OneWrites'
  BY <1>6, <1>a DEF Cached, Answer, NotAnswered, ToldKeepAlive, ToldNotKeepAlive, GoTo
<1>7. ASSUME NEW r \in Runs, SetOffline(r) \/ Shutdown(r) \/ ShutdownFails(r) PROVE OneWrites'
  BY <1>7, <1>a DEF SetOffline, Shutdown, ShutdownFails, GoTo
<1> QED
  BY <1>1, <1>2, <1>3, <1>4, <1>5, <1>6, <1>7 DEF Next

\* Only a run that has seen a job sets the history back, and it writes the same.
LEMMA NeverOlderStep == Values /\ OneWrites /\ NeverOlder /\ [Next]_vars => NeverOlder'
<1> SUFFICES ASSUME Values, OneWrites, NeverOlder, [Next]_vars PROVE NeverOlder'
  OBVIOUS
<1>a. /\ pc \in [Runs -> Labels] /\ quiet \in 0..Cap /\ Null = -1 /\ Cap \in Nat
      /\ idleFor \in Null..Cap /\ found \in [Runs -> Null..Cap] /\ data \in {"none", "broken", "saved"}
  BY CapPositive DEF Values, Null
<1> USE DEF NeverOlder, Writing
<1>1. CASE JobStarts \/ JobEnds \/ SetKeepAlive \/ UNCHANGED vars
  BY <1>1 DEF JobStarts, JobEnds, SetKeepAlive, disk, script, vars
<1>2. CASE Minute
  <2>1. quiet \in Null..Cap /\ quiet # Null
    BY <1>a
  <2>2. idleFor' # Null /\ data' = "saved" => idleFor' <= quiet'
    BY <1>2, <1>a, <2>1, OlderKeeps DEF Minute
  <2>3. \A r \in Runs: Writing(r)' /\ found'[r] # Null => found'[r] <= quiet'
    BY <1>2, <1>a, <2>1, OlderKeeps DEF Minute
  <2> QED
    BY <2>2, <2>3
<1>3. CASE Crash
  BY <1>3 DEF Crash, disk
<1>4. ASSUME NEW r \in Runs, Start(r) PROVE NeverOlder'
  <2>1. CASE data = "broken"
    BY <1>4, <2>1 DEF Start, disk, script
  <2>2. CASE data # "broken"
    <3>1. FoundIdle # Null => FoundIdle <= quiet
      BY <1>a, <2>2 DEF FoundIdle
    <3> QED
      BY <1>4, <1>a, <2>2, <3>1 DEF Start, disk
  <2> QED
    BY <2>1, <2>2
<1>5. ASSUME NEW r \in Runs, Truncate(r) PROVE NeverOlder'
  BY <1>5, <1>a DEF Truncate, GoTo
<1>6. ASSUME NEW r \in Runs, Write(r) PROVE NeverOlder'
  <2>1. \A s \in Runs: ~Writing(s)'
    BY <1>6, <1>a DEF Write, OneWrites
  <2>2. idleFor' # Null => idleFor' <= quiet'
    BY <1>6, <1>a DEF Write
  <2> QED
    BY <2>1, <2>2
<1>7. ASSUME NEW r \in Runs, Cached(r) \/ Answer(r) PROVE NeverOlder'
  BY <1>7, <1>a DEF Cached, Answer, NotAnswered, ToldKeepAlive, ToldNotKeepAlive, GoTo, disk
<1>8. ASSUME NEW r \in Runs, SetOffline(r) \/ Shutdown(r) \/ ShutdownFails(r) PROVE NeverOlder'
  BY <1>8, <1>a DEF SetOffline, Shutdown, ShutdownFails, GoTo, disk
<1> QED
  BY <1>1, <1>2, <1>3, <1>4, <1>5, <1>6, <1>7, <1>8 DEF Next

\* What is to be written ages with what is in the file, and no other run writes.
LEMMA NeverSetBackStep ==
  Values /\ NoTimeYet /\ OneWrites /\ NeverSetBack /\ [Next]_vars => NeverSetBack'
<1> SUFFICES ASSUME Values, NoTimeYet, OneWrites, NeverSetBack, [Next]_vars PROVE NeverSetBack'
  OBVIOUS
<1>a. /\ pc \in [Runs -> Labels] /\ Null = -1 /\ Cap \in Nat
      /\ idleFor \in Null..Cap /\ found \in [Runs -> Null..Cap] /\ data \in {"none", "broken", "saved"}
  BY CapPositive DEF Values, Null
<1> USE DEF NeverSetBack, Writing
<1>1. CASE JobStarts \/ JobEnds \/ SetKeepAlive \/ UNCHANGED vars
  BY <1>1 DEF JobStarts, JobEnds, SetKeepAlive, disk, script, vars
<1>2. CASE Minute
  <2> SUFFICES ASSUME NEW r \in Runs, Writing(r)', found'[r] # Null PROVE idleFor' <= found'[r]
    OBVIOUS
  <2>1. /\ found[r] \in Null..Cap /\ found'[r] = Older(found[r]) /\ idleFor' = Older(idleFor)
        /\ Writing(r)
    BY <1>2, <1>a DEF Minute
  <2>2. found[r] # Null /\ idleFor <= found[r]
    BY <2>1, OlderKeeps
  <2>3. CASE idleFor = Null
    BY <1>a, <2>1, <2>3, OlderKeeps DEF Older
  <2>4. CASE idleFor # Null
    BY <1>a, <2>1, <2>2, <2>4, OlderKeeps
  <2> QED
    BY <2>3, <2>4
<1>3. CASE Crash
  BY <1>3 DEF Crash, disk
<1>4. ASSUME NEW r \in Runs, Start(r) PROVE NeverSetBack'
  <2>1. CASE data = "broken"
    BY <1>4, <2>1 DEF Start, disk, script
  <2>2. CASE data # "broken"
    <3>1. FoundIdle # Null => idleFor <= FoundIdle
      BY <1>a DEF FoundIdle, NoTimeYet
    <3> QED
      BY <1>4, <1>a, <2>2, <3>1 DEF Start, disk
  <2> QED
    BY <2>1, <2>2
<1>5. ASSUME NEW r \in Runs, Truncate(r) PROVE NeverSetBack'
  BY <1>5, <1>a DEF Truncate, GoTo
<1>6. ASSUME NEW r \in Runs, Write(r) PROVE NeverSetBack'
  BY <1>6, <1>a DEF Write, OneWrites
<1>7. ASSUME NEW r \in Runs, Cached(r) \/ Answer(r) PROVE NeverSetBack'
  BY <1>7, <1>a DEF Cached, Answer, NotAnswered, ToldKeepAlive, ToldNotKeepAlive, GoTo, disk
<1>8. ASSUME NEW r \in Runs, SetOffline(r) \/ Shutdown(r) \/ ShutdownFails(r) PROVE NeverSetBack'
  BY <1>8, <1>a DEF SetOffline, Shutdown, ShutdownFails, GoTo, disk
<1> QED
  BY <1>1, <1>2, <1>3, <1>4, <1>5, <1>6, <1>7, <1>8 DEF Next

-----------------------------------------------------------------------------
\* The times the script keeps are never older than the last job written down,
\* whichever runs overlap and wherever the node restarts, unless runs race for
\* the file; then again from the next job on that a run writes down alone.
THEOREM TimeInvariant == Spec => []TimeInv
<1>1. Init => Switches
  BY DEF Init, Switches
<1>2. Init => Values
  BY CapPositive, BoundsNat DEF Init, Values, Null, Labels
<1>3. Init => NoTimeYet /\ Calm
  BY DEF Init, NoTimeYet, Calm, OneWrites, NeverOlder, NeverSetBack, Writing
<1>4. Init => TimeInv
  BY <1>1, <1>2, <1>3 DEF TimeInv
<1>5. TimeInv /\ [Next]_vars => TimeInv'
  <2> SUFFICES ASSUME TimeInv, [Next]_vars PROVE TimeInv'
    OBVIOUS
  <2>1. Switches' /\ Values' /\ NoTimeYet'
    BY SwitchesStep, ValuesStep, NoTimeStep DEF TimeInv
  <2>2. CASE raced
    BY <2>1, <2>2, AloneAnew DEF TimeInv
  <2>3. CASE ~raced
    <3>1. ~raced' => OneWrites'
      BY <2>3, OneWritesStep DEF TimeInv, Calm
    <3>2. NeverOlder' /\ NeverSetBack'
      BY <2>3, NeverOlderStep, NeverSetBackStep DEF TimeInv, Calm
    <3> QED
      BY <2>1, <3>1, <3>2 DEF TimeInv, Calm
  <2> QED
    BY <2>2, <2>3
<1> QED
  BY <1>4, <1>5, PTL DEF Spec

\* Every variable of autostop keeps its type.
THEOREM TypeCorrect == Spec => []TypeOK
<1>1. TimeInv => TypeOK
  BY DEF TimeInv, Switches, Values, TypeOK, Labels
<1> QED
  BY <1>1, TimeInvariant, PTL

\* A run that finds the node idle long enough does so only when no run of the
\* whole timeout has written down a job, as long as no runs race for the file.
THEOREM AlwaysDecidedOnTime == Spec => DecidedOnTime
<1>1. TimeInv /\ [Next]_vars => [\A r \in Runs: ~raced /\ Start(r) /\ pc'[r] = "truncate" /\ long'[r] => quiet > Timeout]_vars
  <2> SUFFICES ASSUME TimeInv, ~raced, NEW r \in Runs, Start(r), pc'[r] = "truncate", long'[r]
               PROVE  quiet > Timeout
    OBVIOUS
  <2>1. IdleLongEnough
    <3>1. pc[r] = "ready" /\ pc \in [Runs -> Labels] /\ long \in [Runs -> BOOLEAN]
      BY DEF Start, TimeInv, Switches, Values
    <3>2. data # "broken"
      BY <3>1 DEF Start, script
    <3> QED
      BY <3>1, <3>2 DEF Start
  <2>2. Timeout \in Nat /\ idleFor \in Int /\ quiet \in Int
    BY TimesNat, CapPositive DEF Timeout, TimeInv, Values, Null
  <2> QED
    BY <2>1, <2>2 DEF IdleLongEnough, TimeInv, Calm, NeverOlder
<1> QED
  BY <1>1, TimeInvariant, PTL DEF Spec, DecidedOnTime

\* The idle time in autoscale.json goes on, over overlapping runs and restarts,
\* until a run writes down a job or runs race for the file.
THEOREM IdleTimeAlwaysGrows == Spec => IdleTimeGrows
<1>1. ASSUME TimeInv, ~raced, [Next]_vars PROVE idleFor' >= idleFor \/ quiet' = 0
  <2>a. Null = -1 /\ Cap \in Nat /\ idleFor \in Null..Cap /\ found \in [Runs -> Null..Cap]
    BY <1>1, CapPositive DEF TimeInv, Values, Null
  <2>1. CASE \E r \in Runs: Write(r)
    <3>1. PICK r \in Runs: Write(r)
      BY <2>1
    <3>2. found[r] # Null => idleFor <= found[r]
      BY <1>1, <3>1 DEF TimeInv, Calm, NeverSetBack, Write, Writing
    <3>3. idleFor' = found[r] /\ (found[r] = Null => quiet' = 0)
      BY <3>1 DEF Write
    <3> QED
      BY <2>a, <3>2, <3>3
  <2>2. CASE Minute
    BY <2>2, <2>a DEF Minute, Older
  <2>3. CASE ~Minute /\ \A r \in Runs: ~Write(r)
    <3>1. idleFor' = idleFor
      BY <1>1, <2>3 DEF Next, vars, disk, JobStarts, JobEnds, SetKeepAlive, Crash, Start, Truncate,
                        Cached, Answer, NotAnswered, ToldKeepAlive, ToldNotKeepAlive,
                        SetOffline, Shutdown, ShutdownFails
    <3> QED
      BY <2>a, <3>1
  <2> QED
    BY <2>1, <2>2, <2>3
<1>2. TimeInv /\ [Next]_vars => [idleFor' >= idleFor \/ quiet' = 0 \/ raced]_vars
  BY <1>1
<1> QED
  BY <1>2, TimeInvariant, PTL DEF Spec, IdleTimeGrows
=============================================================================
