---------------------- MODULE InstallPlaybooks_proofs ----------------------
(***************************************************************************)
(* What install.sh says of a playbook it skips, and of its own end, is     *)
(* true once the markers were removed and the script was run for all       *)
(* playbooks only: for any playbooks and configurations, and after         *)
(* whatever failures, interruptions and removals of markers.               *)
(*                                                                         *)
(* The invariant says what a marker is worth while it is to be trusted     *)
(* (MarkersTrue), that a playbook is marked right after it has succeeded   *)
(* (JustRun), and that a run for all leaves none out (NoneLeftOut).        *)
(***************************************************************************)
EXTENDS InstallPlaybooks, TLAPS

\* TypeOK in two parts
Switches == tags \in BOOLEAN /\ trusted \in BOOLEAN

Values ==
  /\ config \in Configs /\ markers \subseteq Playbooks
  /\ last \in [Playbooks -> {"never", "ok", "partial", "failed"}]
  /\ pc \in {"idle", "next", "touch"}
  /\ target \in Targets \cup {"none"}
  /\ todo \subseteq Playbooks /\ (pc = "touch" => todo # {})
  /\ upsets \in 0..MaxUpsets

\* A run that is trusted is one for all playbooks, without tags.
ForAll == trusted /\ pc # "idle" => target = "all" /\ ~tags

MarkersTrue == trusted => \A p \in markers: last[p] = "ok" \/ p \in Disabled(config)

JustRun ==
  pc = "touch" => \A p \in Playbooks:
    IsNext(p) => last[p] \in {"ok", "partial"} /\ (trusted => last[p] = "ok")

NoneLeftOut == trusted /\ pc # "idle" => Playbooks \ todo \subseteq markers

TrustInv == ForAll /\ MarkersTrue /\ JustRun /\ NoneLeftOut
InstallInv == Switches /\ Values /\ TrustInv

-----------------------------------------------------------------------------
\* A run comes to one playbook at a time.
LEMMA NextUnique ==
  ASSUME NEW p \in Playbooks, NEW q \in Playbooks, IsNext(p), IsNext(q)
  PROVE  p = q
<1>1. PICK k \in DOMAIN Order: Order[k] = p
  BY PlaybooksKnown
<1>2. PICK l \in DOMAIN Order: Order[l] = q
  BY PlaybooksKnown
<1>3. k \in Nat /\ l \in Nat
  BY DEF Order
<1>4. CASE k < l
  <2>1. p \in Before[q]
    BY <1>1, <1>2, <1>4 DEF Before
  <2> QED
    BY <2>1 DEF IsNext
<1>5. CASE l < k
  <2>1. q \in Before[p]
    BY <1>1, <1>2, <1>5 DEF Before
  <2> QED
    BY <2>1 DEF IsNext
<1> QED
  BY <1>1, <1>2, <1>3, <1>4, <1>5

LEMMA DisabledKnown == \A c: Disabled(c) \subseteq Playbooks
  BY DEF Disabled

\* What the script is run for
LEMMA ToRunKnown ==
  ASSUME NEW t \in Targets
  PROVE  ToRun(t) \subseteq Playbooks /\ (t = "all" => ToRun(t) = Playbooks)
  BY TargetsKnown DEF ToRun

LEMMA SwitchesStep == Switches /\ [Next]_vars => Switches'
<1> SUFFICES ASSUME Switches, [Next]_vars PROVE Switches'
  OBVIOUS
<1> USE DEF Switches
<1>1. ASSUME NEW t \in Targets, NEW tg \in BOOLEAN, Start(t, tg) PROVE Switches'
  BY <1>1 DEF Start
<1>2. ASSUME NEW p \in Playbooks, Skip(p) \/ Succeed(p) \/ Fail(p) \/ Touch(p) PROVE Switches'
  BY <1>2 DEF Skip, Succeed, Fail, Touch, ScriptEnds
<1>3. CASE Done \/ Interrupt
  BY <1>3 DEF Done, Interrupt, ScriptEnds
<1>4. CASE EditConfig \/ RemoveMarkers
  BY <1>4 DEF EditConfig, RemoveMarkers
<1>5. CASE UNCHANGED vars
  BY <1>5 DEF vars
<1> QED
  BY <1>1, <1>2, <1>3, <1>4, <1>5 DEF Next

LEMMA ValuesStep == Values /\ [Next]_vars => Values'
<1> SUFFICES ASSUME Values, [Next]_vars PROVE Values'
  OBVIOUS
<1> USE DEF Values
<1>1. ASSUME NEW t \in Targets, NEW tg \in BOOLEAN, Start(t, tg) PROVE Values'
  BY <1>1, DisabledKnown, ToRunKnown DEF Start
<1>2. ASSUME NEW p \in Playbooks, Skip(p) \/ Touch(p) PROVE Values'
  BY <1>2 DEF Skip, Touch
<1>3. ASSUME NEW p \in Playbooks, Succeed(p) PROVE Values'
  BY <1>3 DEF Succeed, IsNext
<1>4. ASSUME NEW p \in Playbooks, Fail(p) PROVE Values'
  BY <1>4 DEF Fail, ScriptEnds
<1>5. CASE Done
  BY <1>5 DEF Done, ScriptEnds
<1>6. CASE Interrupt
  BY <1>6, MaxUpsetsNat DEF Interrupt, ScriptEnds, Upset
<1>7. CASE EditConfig \/ RemoveMarkers
  BY <1>7, MaxUpsetsNat DEF EditConfig, RemoveMarkers, Upset
<1>8. CASE UNCHANGED vars
  BY <1>8 DEF vars
<1> QED
  BY <1>1, <1>2, <1>3, <1>4, <1>5, <1>6, <1>7, <1>8 DEF Next

\* A playbook that is run fails only without its marker, as long as the markers
\* are trusted; what is removed from the list of a run has its marker.
LEMMA TrustStep == Switches /\ Values /\ TrustInv /\ [Next]_vars => TrustInv'
<1> SUFFICES ASSUME Switches, Values, TrustInv, [Next]_vars PROVE TrustInv'
  OBVIOUS
<1>a. last \in [Playbooks -> {"never", "ok", "partial", "failed"}] /\ markers \subseteq Playbooks
  BY DEF Values
<1> USE DEF TrustInv, ForAll, MarkersTrue, JustRun, NoneLeftOut
<1>1. ASSUME NEW t \in Targets, NEW tg \in BOOLEAN, Start(t, tg) PROVE TrustInv'
  BY <1>1, ToRunKnown DEF Start
<1>2. ASSUME NEW p \in Playbooks, Skip(p) PROVE TrustInv'
  BY <1>2 DEF Skip, Skips
<1>3. ASSUME NEW p \in Playbooks, Succeed(p) PROVE TrustInv'
  <2>1. last'[p] \in {"ok", "partial"} /\ (trusted => last'[p] = "ok")
    BY <1>3, <1>a DEF Succeed
  <2>2. \A q \in Playbooks: q # p => last'[q] = last[q]
    BY <1>3, <1>a DEF Succeed
  <2>3. JustRun'
    <3> SUFFICES ASSUME NEW q \in Playbooks, IsNext(q)' PROVE q = p
      BY <1>3, <2>1 DEF Succeed
    <3>1. IsNext(q) /\ IsNext(p)
      BY <1>3 DEF Succeed, IsNext
    <3> QED
      BY <3>1, NextUnique
  <2>4. MarkersTrue'
    BY <1>3, <1>a, <2>1, <2>2 DEF Succeed
  <2> QED
    BY <1>3, <2>3, <2>4 DEF Succeed
<1>4. ASSUME NEW p \in Playbooks, Fail(p) PROVE TrustInv'
  <2>1. trusted => p \notin markers
    BY <1>4 DEF Fail, Skips
  <2> QED
    BY <1>4, <1>a, <2>1 DEF Fail, ScriptEnds
<1>5. ASSUME NEW p \in Playbooks, Touch(p) PROVE TrustInv'
  BY <1>5 DEF Touch
<1>6. CASE Done
  BY <1>6 DEF Done, ScriptEnds
<1>7. CASE Interrupt
  <2>1. ASSUME NEW p \in Playbooks, pc = "next", ~Skips(p), last' = [last EXCEPT ![p] = "failed"]
        PROVE  MarkersTrue'
    <3>1. trusted => p \notin markers
      BY <2>1 DEF Skips
    <3> QED
      BY <1>7, <1>a, <2>1, <3>1 DEF Interrupt
  <2>2. CASE UNCHANGED last
    BY <1>7, <2>2 DEF Interrupt, ScriptEnds
  <2> QED
    BY <1>7, <2>1, <2>2 DEF Interrupt, ScriptEnds
<1>8. CASE EditConfig
  BY <1>8 DEF EditConfig
<1>9. CASE RemoveMarkers
  BY <1>9 DEF RemoveMarkers
<1>10. CASE UNCHANGED vars
  BY <1>10 DEF vars, IsNext
<1> QED
  BY <1>1, <1>2, <1>3, <1>4, <1>5, <1>6, <1>7, <1>8, <1>9, <1>10 DEF Next

-----------------------------------------------------------------------------
\* As long as the markers are to be trusted they tell what succeeded, and a run
\* for all playbooks leaves none out.
THEOREM InstallInvariant == Spec => []InstallInv
<1>1. Init => Switches /\ TrustInv
  BY DEF Init, Switches, TrustInv, ForAll, MarkersTrue, JustRun, NoneLeftOut
<1>2. Init => Values
  BY MaxUpsetsNat DEF Init, Values
<1>3. Init => InstallInv
  BY <1>1, <1>2 DEF InstallInv
<1>4. InstallInv /\ [Next]_vars => InstallInv'
  BY SwitchesStep, ValuesStep, TrustStep DEF InstallInv
<1> QED
  BY <1>3, <1>4, PTL DEF Spec

\* Every variable of the installation keeps its type.
THEOREM TypeCorrect == Spec => []TypeOK
<1>1. InstallInv => TypeOK
  BY DEF InstallInv, Switches, Values, TypeOK
<1> QED
  BY <1>1, InstallInvariant, PTL

\* A playbook that is skipped has succeeded, or is turned off.
THEOREM SkippedHasRun == Spec => SkipsOnlyWhatRan
<1>1. InstallInv /\ [Next]_vars =>
        [\A p \in Playbooks: Skip(p) /\ trusted => last[p] = "ok" \/ p \in Disabled(config)]_vars
  BY DEF InstallInv, TrustInv, MarkersTrue, Skip, Skips
<1> QED
  BY <1>1, InstallInvariant, PTL DEF Spec, SkipsOnlyWhatRan

\* A playbook is run only when all before it that are turned on have succeeded.
THEOREM AlwaysInOrder == Spec => RunsInOrder
<1>1. InstallInv /\ [Next]_vars =>
        [\A p \in Playbooks:
           trusted /\ (Succeed(p) \/ Fail(p))
           => \A q \in Before[p] \cap Enabled(config): last[q] = "ok"]_vars
  <2> SUFFICES ASSUME InstallInv, NEW p \in Playbooks, trusted, Succeed(p) \/ Fail(p),
                      NEW q \in Before[p] \cap Enabled(config)
               PROVE  last[q] = "ok"
    OBVIOUS
  <2>1. pc = "next" /\ IsNext(p)
    BY DEF Succeed, Fail
  <2>2. q \in Playbooks \ todo /\ q \notin Disabled(config)
    BY <2>1 DEF IsNext, Enabled
  <2>3. q \in markers
    BY <2>1, <2>2 DEF InstallInv, TrustInv, NoneLeftOut
  <2> QED
    BY <2>2, <2>3 DEF InstallInv, TrustInv, MarkersTrue
<1> QED
  BY <1>1, InstallInvariant, PTL DEF Spec, RunsInOrder

\* When the script ends without an error, all that is turned on is installed.
THEOREM InstalledAtEnd == Spec => InstalledWhenDone
<1>1. InstallInv /\ [Next]_vars =>
        [trusted /\ Done => \A p \in Enabled(config): last[p] = "ok"]_vars
  BY DEF InstallInv, TrustInv, NoneLeftOut, MarkersTrue, Done, Enabled
<1> QED
  BY <1>1, InstallInvariant, PTL DEF Spec, InstalledWhenDone

\* No playbook is marked that was not just run, or is turned off.
THEOREM EveryMarkerEarned == Spec => MarkersEarned
<1>1. InstallInv /\ [Next]_vars =>
        [\A p \in markers' \ markers: last[p] \in {"ok", "partial"} \/ p \in Disabled(config)]_vars
  <2> SUFFICES ASSUME InstallInv, Next, NEW p \in markers' \ markers
               PROVE  last[p] \in {"ok", "partial"} \/ p \in Disabled(config)
    BY DEF vars
  <2>1. \/ \E t \in Targets, tg \in BOOLEAN: Start(t, tg)
        \/ \E q \in Playbooks: Touch(q)
    BY DEF Next, Skip, Succeed, Fail, Done, Interrupt, EditConfig, RemoveMarkers
  <2>2. ASSUME NEW t \in Targets, NEW tg \in BOOLEAN, Start(t, tg) PROVE p \in Disabled(config)
    BY <2>2 DEF Start
  <2>3. ASSUME NEW q \in Playbooks, Touch(q) PROVE last[p] \in {"ok", "partial"}
    BY <2>3 DEF Touch, InstallInv, TrustInv, JustRun
  <2> QED
    BY <2>1, <2>2, <2>3
<1> QED
  BY <1>1, InstallInvariant, PTL DEF Spec, MarkersEarned
=============================================================================
