----------------------------- MODULE BuildImage -----------------------------
(***************************************************************************)
(* packer/build_image.sh: builds a managed image with packer unless there  *)
(* is one with the checksum of the current scripts, tags it, and pushes it *)
(* to the shared image gallery unless the gallery has its version.         *)
(*                                                                         *)
(* A run may fail or be cut off between any two calls.  Several images are *)
(* built in parallel from one directory, as the tutorial has it; they      *)
(* share the file md5sum.txt there, and the images of one operating system *)
(* share its scripts (scripts/centos/ is the source of eight packer files).*)
(* Nothing locks these files: they are edited at any time, while images    *)
(* are built from them too.  An image is built by one run at a time, and   *)
(* md5sum.txt can be written.                                              *)
(***************************************************************************)
EXTENDS Naturals, Sequences

CONSTANTS
  Images,   \* the images; the name of an image stands for its packer file, too
  Wanted,   \* the images that are built again and again, with -f too
  Dirs, DirOf, \* the directories of scripts, and the one that an image is set up by
  Edited,   \* the packer files and directories that are edited
  Versions, First, \* what a file or a directory may hold, and what it holds at first
  None,     \* no image, no version, no checksum, no template
  MaxEdits, MaxUpsets, \* bounds on edits of files and on outside failures
  MaxOthers            \* and on the runs for the other images

Files == Images \cup Dirs
Sources == [scripts: Versions, packer: Versions]
Lines == [file: Files, is: Versions]

ASSUME EditedOK == Wanted \subseteq Images /\ Edited \subseteq Files
ASSUME DirsOK == DirOf \in [Images -> Dirs] /\ Images \cap Dirs = {}
ASSUME FirstOK == First \in Versions
ASSUME BoundsOK == MaxEdits \in Nat /\ MaxUpsets \in Nat /\ MaxOthers \in Nat
ASSUME NoneOK == None \notin Sources /\ None \notin Seq(Lines)

Line(f, v) == [file |-> f, is |-> v]

\* A checksum stands for the lines it was made of; s is the source of image i.
Checksum(i, s) == <<Line(DirOf[i], s.scripts), Line(i, s.packer)>>

VARIABLES
  content,   \* what each file holds now
  md5sum,    \* md5sum.txt, shared by all runs
  built, checksum, version, \* the managed image: the source it was built from
             \* or None, and its tags; version is whether it has that tag
  defined,   \* the image definition is in the gallery
  newest,    \* the source that the newest version in the gallery is built from
  pc, last,  \* the run for each image, and how the last one ended
  exists, force, packer_md5, \* its variables; exists is whether it found an image
  template,  \* the packer file as packer has read it
  alone,     \* history: md5sum.txt is the whole work of this run, and its alone
  steady,    \* history: no file of the image was edited since the run summed them
  mixed,     \* history: one was, before the image was captured
  asked,     \* history: the run was started with -f
  settled,   \* history: a run succeeded alone, and nothing has happened since
  edits, upsets, others

azure == <<built, checksum, version, defined, newest>>
local == <<exists, force, packer_md5, template>>
history == <<alone, steady, mixed, asked, settled>>
bounds == <<edits, upsets, others>>
vars == <<content, md5sum, azure, pc, last, local, history, bounds>>

Labels == {"idle", "find", "append", "compare", "build", "capture", "checksum",
           "define", "look", "push", "version", "disk"}

TypeOK ==
  /\ content \in [Files -> Versions] /\ md5sum \in Seq(Lines)
  /\ built \in [Images -> Sources \cup {None}] /\ newest \in [Images -> Sources \cup {None}]
  /\ checksum \in [Images -> Seq(Lines) \cup {None}] /\ packer_md5 \in [Images -> Seq(Lines)]
  /\ template \in [Images -> Versions \cup {None}]
  /\ {version, defined, exists, force, alone, steady, mixed, asked, settled} \subseteq [Images -> BOOLEAN]
  /\ pc \in [Images -> Labels] /\ last \in [Images -> {"never", "running", "failed", "ok"}]
  /\ edits \in 0..MaxEdits /\ upsets \in 0..MaxUpsets /\ others \in 0..MaxOthers

AllAre(x) == [i \in Images |-> x]

Init ==
  /\ content = [f \in Files |-> First] /\ md5sum = <<>>
  /\ built = AllAre(None) /\ newest = AllAre(None) /\ checksum = AllAre(None)
  /\ version = AllAre(FALSE) /\ defined = AllAre(FALSE)
  /\ exists = AllAre(FALSE) /\ force = AllAre(FALSE)
  /\ packer_md5 = AllAre(<<>>) /\ template = AllAre(None)
  /\ alone = AllAre(TRUE) /\ steady = AllAre(TRUE) /\ mixed = AllAre(FALSE)
  /\ asked = AllAre(FALSE) /\ settled = AllAre(FALSE)
  /\ pc = AllAre("idle") /\ last = AllAre("never")
  /\ edits = 0 /\ upsets = 0 /\ others = 0

-----------------------------------------------------------------------------
\* What an image is built from: the scripts of its directory, and its packer file.
Source(i) == [scripts |-> content[DirOf[i]], packer |-> content[i]]

GoTo(i, label) == pc' = [pc EXCEPT ![i] = label] /\ UNCHANGED last

\* A run ends, and its variables with it.
Ends(i, how) ==
  /\ pc' = [pc EXCEPT ![i] = "idle"] /\ last' = [last EXCEPT ![i] = how]
  /\ exists' = [exists EXCEPT ![i] = FALSE] /\ force' = [force EXCEPT ![i] = FALSE]
  /\ packer_md5' = [packer_md5 EXCEPT ![i] = <<>>] /\ template' = [template EXCEPT ![i] = None]
  /\ alone' = [alone EXCEPT ![i] = TRUE] /\ steady' = [steady EXCEPT ![i] = TRUE]
  /\ asked' = [asked EXCEPT ![i] = FALSE]

\* A run writes md5sum.txt, the whole of its part or not: any other run that is
\* between writing and reading it is no longer alone.  Commands that fail here do
\* not end the run (set +e).
Writes(i, whole, text) ==
  /\ md5sum' = text
  /\ alone' = [k \in Images |-> alone[k] /\ IF k = i THEN whole ELSE pc[k] \notin {"append", "compare"}]
  /\ IF whole THEN UNCHANGED upsets ELSE upsets < MaxUpsets /\ upsets' = upsets + 1

\* A packer file, or a directory of scripts, is changed (external): for every
\* image that is built from it, and in the midst of any run.
EditFile(f) ==
  /\ edits < MaxEdits
  /\ \E v \in Versions \ {content[f]}: content' = [content EXCEPT ![f] = v]
  /\ LET its(i) == f \in {i, DirOf[i]} IN
     /\ steady' = [i \in Images |-> steady[i] /\ (its(i) => pc[i] \in {"idle", "find"})]
     /\ settled' = [i \in Images |-> settled[i] /\ ~its(i)]
  /\ edits' = edits + 1
  /\ UNCHANGED <<md5sum, azure, pc, last, local, alone, mixed, asked, upsets, others>>

\* The run is cut off, or a command of its own fails (set -e).
Fails(i) ==
  /\ pc[i] # "idle" /\ upsets < MaxUpsets
  /\ Ends(i, "failed")
  /\ settled' = [settled EXCEPT ![i] = FALSE]
  /\ upsets' = upsets + 1
  /\ UNCHANGED <<content, md5sum, azure, mixed, edits, others>>

\* It looks for the managed image.
Start(i, f) ==
  /\ pc[i] = "idle"
  /\ IF i \in Wanted THEN UNCHANGED others ELSE ~f /\ others < MaxOthers /\ others' = others + 1
  /\ pc' = [pc EXCEPT ![i] = "find"] /\ last' = [last EXCEPT ![i] = "running"]
  /\ exists' = [exists EXCEPT ![i] = built[i] # None]
  /\ force' = [force EXCEPT ![i] = f]
  /\ asked' = [asked EXCEPT ![i] = f]
  /\ UNCHANGED <<content, md5sum, azure, packer_md5, template, alone, steady, mixed, settled, edits, upsets>>

\* find $script_dir -exec md5sum {} \; > md5sum.txt
Find(i, whole) ==
  /\ pc[i] = "find"
  /\ Writes(i, whole, IF whole THEN <<Line(DirOf[i], content[DirOf[i]])>> ELSE <<>>)
  /\ GoTo(i, "append")
  /\ UNCHANGED <<content, azure, local, steady, mixed, asked, settled, edits, others>>

\* md5sum $PACKER_FILE >> md5sum.txt
AppendPacker(i, whole) ==
  /\ pc[i] = "append"
  /\ Writes(i, whole, IF whole THEN Append(md5sum, Line(i, content[i])) ELSE md5sum)
  /\ GoTo(i, "compare")
  /\ UNCHANGED <<content, azure, local, steady, mixed, asked, settled, edits, others>>

\* Mutant: the image's tag is taken for the checksum.
CompareTag(i) ==
  /\ pc[i] = "compare"
  /\ packer_md5' = [packer_md5 EXCEPT ![i] = checksum[i]]
  /\ force' = [force EXCEPT ![i] = @ \/ (exists[i] /\ checksum[i] # md5sum)]
  /\ GoTo(i, IF ~exists[i] \/ force'[i] THEN "build" ELSE "define")
  /\ UNCHANGED <<content, md5sum, azure, exists, template, history, bounds>>

\* Mutant: an image that is there is taken.
CompareNothing(i) ==
  /\ pc[i] = "compare"
  /\ packer_md5' = [packer_md5 EXCEPT ![i] = md5sum]
  /\ GoTo(i, IF ~exists[i] \/ force[i] THEN "build" ELSE "define")
  /\ UNCHANGED <<content, md5sum, azure, exists, force, template, history, bounds>>

\* The checksum of md5sum.txt is compared with the image's tag.
Compare(i) ==
  /\ pc[i] = "compare"
  /\ packer_md5' = [packer_md5 EXCEPT ![i] = md5sum]
  /\ force' = [force EXCEPT ![i] = @ \/ (exists[i] /\ checksum[i] # md5sum)]
  /\ GoTo(i, IF ~exists[i] \/ force'[i] THEN "build" ELSE "define")
  /\ UNCHANGED <<content, md5sum, azure, exists, template, history, bounds>>

\* packer build reads the packer file; with -force, an image that is there is
\* deleted first.
Build(i) ==
  /\ pc[i] = "build"
  /\ template' = [template EXCEPT ![i] = content[i]]
  /\ built' = [built EXCEPT ![i] = None] /\ checksum' = [checksum EXCEPT ![i] = None]
  /\ version' = [version EXCEPT ![i] = FALSE]
  /\ mixed' = [mixed EXCEPT ![i] = FALSE]
  /\ GoTo(i, "capture")
  /\ UNCHANGED <<content, md5sum, defined, newest, exists, force, packer_md5, alone, steady, asked, settled, bounds>>

\* The scripts are uploaded, set up a machine, and it is captured as an image
\* without tags.
Capture(i) ==
  /\ pc[i] = "capture"
  /\ built' = [built EXCEPT ![i] = [scripts |-> content[DirOf[i]], packer |-> template[i]]]
  /\ template' = [template EXCEPT ![i] = None]
  /\ mixed' = [mixed EXCEPT ![i] = ~steady[i]]
  /\ GoTo(i, "checksum")
  /\ UNCHANGED <<content, md5sum, checksum, version, defined, newest, exists, force, packer_md5,
                 alone, steady, asked, settled, bounds>>

\* The tags are replaced by the checksum.
TagChecksum(i) ==
  /\ pc[i] = "checksum"
  /\ checksum' = [checksum EXCEPT ![i] = packer_md5[i]]
  /\ version' = [version EXCEPT ![i] = FALSE]
  /\ GoTo(i, "define")
  /\ UNCHANGED <<content, md5sum, built, defined, newest, local, history, bounds>>

\* The image definition is created if there is none.
Define(i) ==
  /\ pc[i] = "define"
  /\ defined' = [defined EXCEPT ![i] = TRUE]
  /\ GoTo(i, "look")
  /\ UNCHANGED <<content, md5sum, built, checksum, version, newest, local, history, bounds>>

RunEnds(i) ==
  /\ Ends(i, "ok")
  /\ settled' = [settled EXCEPT ![i] = alone[i] /\ steady[i]] /\ UNCHANGED mixed

\* Mutant: an image that was just built is pushed, no other.
LookForce(i) ==
  /\ pc[i] = "look"
  /\ IF ~exists[i] \/ force[i] THEN GoTo(i, "push") /\ UNCHANGED <<local, history>> ELSE RunEnds(i)
  /\ UNCHANGED <<content, md5sum, azure, bounds>>

\* An image without version, or with one that is not in the gallery, is pushed;
\* so is one that was rebuilt.  (Versions are not removed from the gallery.)
Look(i) ==
  /\ pc[i] = "look"
  /\ IF ~version[i] \/ force[i] THEN GoTo(i, "push") /\ UNCHANGED <<local, history>> ELSE RunEnds(i)
  /\ UNCHANGED <<content, md5sum, azure, bounds>>

Push(i) ==
  /\ pc[i] = "push" /\ defined[i]
  /\ newest' = [newest EXCEPT ![i] = built[i]]
  /\ GoTo(i, "version")
  /\ UNCHANGED <<content, md5sum, built, checksum, version, defined, local, history, bounds>>

\* Mutant: the tags are replaced by the version alone.
TagVersionOnly(i) ==
  /\ pc[i] = "version"
  /\ version' = [version EXCEPT ![i] = TRUE] /\ checksum' = [checksum EXCEPT ![i] = None]
  /\ RunEnds(i) \/ (GoTo(i, "disk") /\ UNCHANGED <<local, history>>)
  /\ UNCHANGED <<content, md5sum, built, defined, newest, bounds>>

\* The tags are replaced by the version and the checksum; with -k, the disk the
\* image was made of is tagged, too.
TagVersion(i) ==
  /\ pc[i] = "version"
  /\ version' = [version EXCEPT ![i] = TRUE]
  /\ checksum' = [checksum EXCEPT ![i] = packer_md5[i]]
  /\ RunEnds(i) \/ (GoTo(i, "disk") /\ UNCHANGED <<local, history>>)
  /\ UNCHANGED <<content, md5sum, built, defined, newest, bounds>>

TagDisk(i) ==
  /\ pc[i] = "disk"
  /\ RunEnds(i)
  /\ UNCHANGED <<content, md5sum, azure, bounds>>

Step(i) ==
  \/ Find(i, TRUE) \/ AppendPacker(i, TRUE) \/ Compare(i) \/ Build(i) \/ Capture(i)
  \/ TagChecksum(i) \/ Define(i) \/ Look(i) \/ Push(i) \/ TagVersion(i) \/ TagDisk(i)

Next ==
  \/ \E f \in Edited: EditFile(f)
  \/ \E i \in Images: \/ Fails(i) \/ Find(i, FALSE) \/ AppendPacker(i, FALSE)
                      \/ Step(i) \/ \E f \in BOOLEAN: Start(i, f)

Spec == Init /\ [][Next]_vars

\* The script is run again for an image that is wanted, and goes on.
FairSpec ==
  Spec /\ \A i \in Wanted: WF_vars(Start(i, FALSE) \/ Start(i, TRUE)) /\ WF_vars(Step(i))

-----------------------------------------------------------------------------
\* An image that is tagged with the checksum of a source was built from it, wherever
\* runs were cut off between the build and the tag, and whatever runs wrote to
\* md5sum.txt meanwhile: no source is taken for built that is not.  Not so an image
\* whose files were edited between the checksum and the upload (mixed): it is tagged
\* with the checksum of what they were, and when the edit is undone, taken for that.
TagNeverLies ==
  \A i \in Images, s \in Sources: ~mixed[i] /\ checksum[i] = Checksum(i, s) => built[i] = s

\* When a run ends without an error, the newest version in the gallery is built
\* from the files as they are, wherever earlier runs were cut off, and whatever
\* checksums other runs left on the image and in md5sum.txt - unless md5sum.txt
\* is not the run's own whole work (alone), a file was edited since (steady), or
\* the tag of the image lies (mixed).
Published ==
  [][\A i \in Images: last[i] = "running" /\ last'[i] = "ok" /\ alone[i] /\ steady[i] /\ ~mixed[i]
                        => newest'[i] = Source(i)]_vars

\* "Image exists, skipping": after a run that succeeded, nothing is built or
\* pushed until a file of the image changes, a run is cut off, disturbed, or given -f.
NothingTwice ==
  [][\A i \in Images: settled[i] /\ alone[i] /\ ~asked[i] => ~Build(i) /\ ~Push(i)]_vars

\* A build cut off anywhere is made good by running the script again, as soon as
\* its checksums are whole and its own, over edits in the midst of runs - unless
\* the tag of the image lies for good.
Recovers ==
  \A i \in Wanted:
    <>[](alone[i] /\ ~mixed[i]) => (last[i] = "failed" ~> newest[i] = Source(i))

=============================================================================
