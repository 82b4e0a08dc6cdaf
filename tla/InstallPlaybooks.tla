-------------------------- MODULE InstallPlaybooks --------------------------
(***************************************************************************)
(* install.sh: runs the playbooks of az-hop in order, leaves a marker file *)
(* playbooks/<playbook>.ok behind each one that succeeded, and skips those *)
(* with a marker when it is run again for all of them.  Parts that the     *)
(* configuration turns off get their marker without having been run.       *)
(*                                                                         *)
(* The script may be run for one target, with ansible tags; a playbook may *)
(* fail; the script may be interrupted; the administrator edits config.yml *)
(* and removes markers between the runs.                                   *)
(***************************************************************************)
EXTENDS Naturals, Sequences

CONSTANTS
  Playbooks,  \* the playbooks looked at, a subset of those of Order
  Configs,    \* the configurations: [ad, users, grafana, telegraf, ondemand]
  Targets,    \* what the script is run for: "all" or a playbook
  MayTag,     \* whether the script may be run with --tags
  MayEdit,    \* whether config.yml may change once the script has run
  MaxUpsets   \* bound on interruptions, edits and removals of markers

Order == <<"ad", "dns", "linux", "grafana", "ccportal", "add_users", "add_local_users",
           "cccluster", "scheduler", "ood", "ood-custom", "telegraf", "chrony">>

ASSUME PlaybooksKnown == Playbooks \subseteq {Order[i]: i \in DOMAIN Order}
ASSUME TargetsKnown == Targets \subseteq {"all"} \cup Playbooks
ASSUME SwitchesBoolean == {MayTag, MayEdit} \subseteq BOOLEAN
ASSUME MaxUpsetsNat == MaxUpsets \in Nat
ASSUME ConfigsKnown ==
  Configs \subseteq [ad: {"new", "existing"}, users: {"ad", "local"},
                     grafana: BOOLEAN, telegraf: BOOLEAN, ondemand: BOOLEAN]

VARIABLES
  config,   \* config.yml
  markers,  \* the playbooks that have a .ok file
  last,     \* of each playbook: how its last run ended, or "never"
  pc,       \* the script: "idle", "next" or "touch"
  target, tags, \* what it is run for, and whether with --tags
  todo,     \* the playbooks it has yet to come to
  trusted,  \* history: since there was no marker at all the script was run for
            \* all playbooks only, as a whole, with one config.yml
  upsets

vars == <<config, markers, last, pc, target, tags, todo, trusted, upsets>>

TypeOK ==
  /\ config \in Configs /\ markers \subseteq Playbooks
  /\ last \in [Playbooks -> {"never", "ok", "partial", "failed"}]
  /\ pc \in {"idle", "next", "touch"}
  /\ target \in Targets \cup {"none"} /\ tags \in BOOLEAN
  /\ todo \subseteq Playbooks /\ (pc = "touch" => todo # {})
  /\ trusted \in BOOLEAN /\ upsets \in 0..MaxUpsets

Init ==
  /\ config \in Configs /\ markers = {}
  /\ last = [p \in Playbooks |-> "never"]
  /\ pc = "idle" /\ target = "none" /\ tags = FALSE /\ todo = {}
  /\ trusted = TRUE /\ upsets = 0

-----------------------------------------------------------------------------
\* use_existing_ad, use_local_users, use_grafana_telegraf, install_ondemand
Disabled(c) ==
  (Playbooks \cap
     UNION {IF c.ad = "existing" \/ c.users = "local" THEN {"ad", "add_users"} ELSE {},
            IF c.users = "local" THEN {} ELSE {"add_local_users"},
            IF c.grafana THEN {} ELSE {"grafana"},
            IF c.telegraf THEN {} ELSE {"telegraf"},
            IF c.ondemand THEN {} ELSE {"ood", "ood-custom"}})

Enabled(c) == Playbooks \ Disabled(c)

ToRun(t) ==
  CASE t = "all" -> Playbooks
    [] t = "ood" -> {"ood", "ood-custom"} \cap Playbooks
    [] OTHER -> {t}

\* What comes before each playbook in the order; the next one of those to do
Before == [p \in Playbooks |->
            {Order[i]: i \in {i \in DOMAIN Order: \E k \in DOMAIN Order: i < k /\ Order[k] = p}}]
IsNext(p) == p \in todo /\ Before[p] \cap todo = {}

Start(t, tg) ==
  /\ pc = "idle"
  /\ tg => MayTag
  /\ pc' = "next" /\ target' = t /\ tags' = tg
  /\ todo' = ToRun(t)
  /\ markers' = markers \cup Disabled(config)
  /\ trusted' = (trusted /\ t = "all" /\ ~tg)
  /\ UNCHANGED <<config, last, upsets>>

ScriptEnds == pc' = "idle" /\ todo' = {} /\ target' = "none" /\ tags' = FALSE

Skips(p) == target = "all" /\ p \in markers

\* run_playbook, when the marker is there and all playbooks are asked for
Skip(p) ==
  /\ pc = "next" /\ IsNext(p)
  /\ Skips(p)
  /\ todo' = todo \ {p}
  /\ UNCHANGED <<config, markers, last, pc, target, tags, trusted, upsets>>

\* ansible-playbook succeeds; with tags it has run some of the playbook's roles.
Succeed(p) ==
  /\ pc = "next" /\ IsNext(p)
  /\ ~Skips(p)
  /\ last' = [last EXCEPT ![p] = IF tags /\ @ # "ok" THEN "partial" ELSE "ok"]
  /\ pc' = "touch"
  /\ UNCHANGED <<config, markers, target, tags, todo, trusted, upsets>>

\* Mutant: the script goes on after a failure.
FailGoesOn(p) ==
  /\ pc = "next" /\ IsNext(p) /\ ~Skips(p)
  /\ last' = [last EXCEPT ![p] = "failed"]
  /\ pc' = "touch"
  /\ UNCHANGED <<config, markers, target, tags, todo, trusted, upsets>>

Fail(p) ==
  /\ pc = "next" /\ IsNext(p)
  /\ ~Skips(p)
  /\ last' = [last EXCEPT ![p] = "failed"]
  /\ ScriptEnds
  /\ UNCHANGED <<config, markers, trusted, upsets>>

\* Mutant: every playbook that is still to come is marked, too.
TouchAll(p) ==
  /\ pc = "touch" /\ IsNext(p)
  /\ markers' = markers \cup todo
  /\ todo' = todo \ {p} /\ pc' = "next"
  /\ UNCHANGED <<config, last, target, tags, trusted, upsets>>

\* Mutant: once one playbook has succeeded the rest are marked without a run.
TouchRest(p) ==
  /\ pc = "touch" /\ IsNext(p)
  /\ markers' = markers \cup {p}
  /\ todo' = todo \ {p}
  /\ UNCHANGED <<config, last, pc, target, tags, trusted, upsets>>

Touch(p) ==
  /\ pc = "touch" /\ IsNext(p)
  /\ markers' = markers \cup {p}
  /\ todo' = todo \ {p} /\ pc' = "next"
  /\ UNCHANGED <<config, last, target, tags, trusted, upsets>>

Done ==
  /\ pc = "next" /\ todo = {}
  /\ ScriptEnds
  /\ UNCHANGED <<config, markers, last, trusted, upsets>>

-----------------------------------------------------------------------------
(* The administrator (external).                                           *)

Upset == upsets < MaxUpsets /\ upsets' = upsets + 1

\* The script is interrupted, in the middle of a playbook or after it.
Interrupt ==
  /\ Upset
  /\ pc # "idle"
  /\ \/ pc = "next" /\ \E p \in Playbooks:
          IsNext(p) /\ ~Skips(p) /\ last' = [last EXCEPT ![p] = "failed"]
     \/ UNCHANGED last
  /\ ScriptEnds
  /\ UNCHANGED <<config, markers, trusted>>

EditConfig ==
  /\ MayEdit /\ Upset
  /\ pc = "idle" /\ config' \in Configs \ {config}
  /\ trusted' = (trusted /\ markers = {})
  /\ UNCHANGED <<markers, last, pc, target, tags, todo>>

RemoveMarkers ==
  /\ Upset
  /\ pc = "idle" /\ \E S \in {markers} \cup {{p}: p \in markers}: S # {} /\ markers' = markers \ S
  /\ trusted' = (trusted \/ markers' = {})
  /\ UNCHANGED <<config, last, pc, target, tags, todo>>

-----------------------------------------------------------------------------
Next ==
  \/ \E t \in Targets, tg \in BOOLEAN: Start(t, tg)
  \/ \E p \in Playbooks: Skip(p) \/ Succeed(p) \/ Fail(p) \/ Touch(p)
  \/ Done \/ Interrupt \/ EditConfig \/ RemoveMarkers

Spec == Init /\ [][Next]_vars

\* The administrator keeps running the script for all playbooks, and no
\* playbook fails for ever.
FairSpec ==
  /\ Spec
  /\ WF_vars(Start("all", FALSE)) /\ WF_vars(Done) /\ WF_vars(\E p \in Playbooks: Touch(p))
  /\ \A p \in Playbooks: SF_vars(Succeed(p)) /\ WF_vars(Skip(p))

-----------------------------------------------------------------------------
(* "remove ./playbooks/*.ok and run ./install.sh": whatever the script was run *)
(* for before, with tags or without, and however config.yml changed, what it   *)
(* says is true again once the markers were removed.                           *)

\* "Skipping playbook ... as it has been successfully run": a playbook that is
\* skipped succeeded, as a whole, when it was last run, or is turned off.
SkipsOnlyWhatRan ==
  [][\A p \in Playbooks:
       Skip(p) /\ trusted => last[p] = "ok" \/ p \in Disabled(config)]_vars

\* A playbook is run only on top of those before it: when the script is run for
\* everything, all earlier playbooks that are turned on succeeded last time.
RunsInOrder ==
  [][\A p \in Playbooks:
       trusted /\ (Succeed(p) \/ Fail(p))
       => \A q \in Before[p] \cap Enabled(config): last[q] = "ok"]_vars

\* When the script ends without an error everything that is turned on is
\* installed, after whatever failures, interruptions and removed markers.
InstalledWhenDone ==
  [][trusted /\ Done => \A p \in Enabled(config): last[p] = "ok"]_vars

\* A marker is given only to a playbook that has just been run, with or without
\* tags, or that is turned off, whatever the script was run for.
MarkersEarned ==
  [][\A p \in markers' \ markers: last[p] \in {"ok", "partial"} \/ p \in Disabled(config)]_vars

\* A playbook that failed succeeds at last when the script is run for all again
\* and again, unless the markers are no longer to be trusted.
Recovers ==
  \A p \in Playbooks:
    last[p] = "failed" ~> last[p] = "ok" \/ p \in Disabled(config) \/ ~trusted
=============================================================================
