-------------------------- MODULE BuildImage_proofs --------------------------
(***************************************************************************)
(* What a run of build_image.sh that has succeeded promises, for every set *)
(* of images and directories of scripts, wherever earlier runs were cut    *)
(* off, whatever other runs wrote to md5sum.txt and whenever files are     *)
(* edited.                                                                 *)
(*                                                                         *)
(* Published speaks of the end of a run; the decision it rests on is made  *)
(* at the start, from a tag that an earlier run has left.  The invariant   *)
(* follows the checksum from the file (OwnLines) to the run (OwnSum) and   *)
(* from there to the tag (TagTrue), and the source from the image          *)
(* (BuiltOrSame) to the gallery (PushedIs).  Other runs can spoil a        *)
(* checksum, never so that it is the one of a source not built; an edit    *)
(* can, and where it may have, the image is mixed.                         *)
(***************************************************************************)
EXTENDS BuildImage, SequenceTheorems, TLAPS

Writing == {"append", "compare"}
Tagged == {"define", "look", "push", "version", "disk"}
Summed == {"build", "capture", "checksum"} \cup Tagged

\* The lines of sum that are of the files of image i are of the source s.
OwnIn(sum, i, s) ==
  \A n \in 1..Len(sum): /\ sum[n].file = DirOf[i] => sum[n].is = s.scripts
                        /\ sum[n].file = i => sum[n].is = s.packer

OwnLines(i) == steady[i] /\ pc[i] \in Writing => OwnIn(md5sum, i, Source(i))
OwnSum(i) == steady[i] /\ pc[i] \in Summed => OwnIn(packer_md5[i], i, Source(i))

AloneFile(i) ==
  alone[i] /\ steady[i] =>
    /\ pc[i] = "append" => md5sum = <<Line(DirOf[i], content[DirOf[i]])>>
    /\ pc[i] = "compare" => md5sum = Checksum(i, Source(i))
AloneSum(i) == alone[i] /\ steady[i] /\ pc[i] \in Summed => packer_md5[i] = Checksum(i, Source(i))

TagTrue(i) == \A s \in Sources: ~mixed[i] /\ checksum[i] = Checksum(i, s) => built[i] = s
Kept(i) == checksum[i] # None => built[i] # None

\* The image that a run tags is of the source that the run has summed, unless mixed.
SumOfBuilt(i) == built[i] # None /\ (~mixed[i] => OwnIn(packer_md5[i], i, built[i]))

BuiltOrSame(i) ==
  /\ pc[i] \in {"capture", "checksum"} => checksum[i] = None /\ ~version[i]
  /\ pc[i] = "capture" => template[i] \in Versions /\ (steady[i] => template[i] = content[i])
  /\ pc[i] = "checksum" => SumOfBuilt(i)
  /\ pc[i] \in Tagged => SumOfBuilt(i) \/ checksum[i] = packer_md5[i]
  /\ pc[i] = "disk" => version[i]

PushedIs(i) == version[i] \/ pc[i] \in {"version", "disk"} => newest[i] = built[i]

Good(i) ==
  /\ OwnLines(i) /\ OwnSum(i) /\ AloneFile(i) /\ AloneSum(i)
  /\ TagTrue(i) /\ Kept(i) /\ BuiltOrSame(i) /\ PushedIs(i)

ImageInv == TypeOK /\ \A i \in Images: Good(i)

-----------------------------------------------------------------------------
(* Checksums.                                                               *)

\* The two files of an image are not the same.
LEMMA FilesOf == ASSUME NEW i \in Images
                 PROVE  i \in Files /\ DirOf[i] \in Files /\ DirOf[i] \notin Images /\ DirOf[i] # i
BY DirsOK DEF Files

LEMMA SourceType == ASSUME TypeOK, NEW i \in Images PROVE Source(i) \in Sources
BY FilesOf DEF TypeOK, Source, Sources

LEMMA LineType == ASSUME NEW f \in Files, NEW v \in Versions PROVE Line(f, v) \in Lines
BY DEF Line, Lines

LEMMA SumType == ASSUME NEW i \in Images, NEW s \in Sources
                 PROVE  Checksum(i, s) \in Seq(Lines) /\ Checksum(i, s) # None
<1>1. Line(DirOf[i], s.scripts) \in Lines /\ Line(i, s.packer) \in Lines
  BY FilesOf, LineType DEF Sources
<1>2. Checksum(i, s) \in Seq(Lines)  BY <1>1 DEF Checksum
<1> QED  BY <1>2, NoneOK

\* A checksum with the lines of one source of image i is that of no other.
LEMMA SumOfOwn == ASSUME NEW i \in Images, NEW s \in Sources, NEW t \in Sources,
                         OwnIn(Checksum(i, s), i, t)
                  PROVE  s = t
<1>1. /\ Len(Checksum(i, s)) = 2 /\ Checksum(i, s)[1] = Line(DirOf[i], s.scripts)
      /\ Checksum(i, s)[2] = Line(i, s.packer)
  BY DEF Checksum
<1>2. /\ Checksum(i, s)[1].file = DirOf[i] /\ Checksum(i, s)[1].is = s.scripts
      /\ Checksum(i, s)[2].file = i /\ Checksum(i, s)[2].is = s.packer
  BY <1>1 DEF Line
<1>3. 1 \in 1..Len(Checksum(i, s)) /\ 2 \in 1..Len(Checksum(i, s))  BY <1>1
<1>4. OwnIn(Checksum(i, s), i, t)  OBVIOUS
<1> HIDE DEF Checksum
<1>5. s.scripts = t.scripts /\ s.packer = t.packer  BY <1>2, <1>3, <1>4 DEF OwnIn
<1> QED  BY <1>5 DEF Sources

LEMMA FirstLine == ASSUME NEW i \in Images, NEW d \in Dirs, NEW v, NEW s, d = DirOf[i] => v = s.scripts
                   PROVE  OwnIn(<<Line(d, v)>>, i, s)
<1>1. d # i  BY DirsOK
<1> QED  BY <1>1 DEF OwnIn, Line

\* A line appended for image k is of its packer file, and of no file of another image.
LEMMA NextLine == ASSUME NEW sum \in Seq(Lines), NEW i \in Images, NEW k \in Images, NEW v, NEW s,
                         OwnIn(sum, i, s), k = i => v = s.packer
                  PROVE  OwnIn(Append(sum, Line(k, v)), i, s)
<1> DEFINE l == Line(k, v)
<1>1. l.file = k /\ l.is = v  BY DEF Line
<1>2. SUFFICES ASSUME NEW n \in 1..Len(Append(sum, l))
               PROVE  /\ Append(sum, l)[n].file = DirOf[i] => Append(sum, l)[n].is = s.scripts
                      /\ Append(sum, l)[n].file = i => Append(sum, l)[n].is = s.packer
  BY DEF OwnIn
<1> HIDE DEF l
<1>3. Len(Append(sum, l)) = Len(sum) + 1 /\ Append(sum, l)[Len(sum) + 1] = l  OBVIOUS
<1>4. CASE n = Len(sum) + 1  BY <1>1, <1>3, <1>4, FilesOf
<1>5. CASE n \in 1..Len(sum)
  <2>1. Append(sum, l)[n] = sum[n]  BY <1>5
  <2> QED  BY <1>5, <2>1 DEF OwnIn
<1> QED  BY <1>3, <1>4, <1>5

\* The source of an image is what its two files hold.
LEMMA SameSource ==
  ASSUME NEW i \in Images, content'[i] = content[i], content'[DirOf[i]] = content[DirOf[i]]
  PROVE  Source(i)' = Source(i)
BY DEF Source

-----------------------------------------------------------------------------
(* Types.                                                                   *)

LEMMA ExceptType == ASSUME NEW S, NEW g \in [Images -> S], NEW i \in Images, NEW x \in S
                    PROVE  [g EXCEPT ![i] = x] \in [Images -> S]
OBVIOUS

LEMMA GoToType == ASSUME TypeOK, NEW i \in Images, NEW label \in Labels, GoTo(i, label)
                  PROVE  pc' \in [Images -> Labels] /\ last' \in [Images -> {"never", "running", "failed", "ok"}]
BY DEF TypeOK, GoTo

LEMMA EndsType == ASSUME TypeOK, NEW i \in Images, NEW how \in {"failed", "ok"}, Ends(i, how)
                  PROVE  /\ pc' \in [Images -> Labels]
                         /\ last' \in [Images -> {"never", "running", "failed", "ok"}]
                         /\ {exists', force', alone', steady', asked'} \subseteq [Images -> BOOLEAN]
                         /\ packer_md5' \in [Images -> Seq(Lines)]
                         /\ template' \in [Images -> Versions \cup {None}]
BY DEF TypeOK, Ends, Labels

LEMMA WritesType == ASSUME TypeOK, NEW i \in Images, NEW whole \in BOOLEAN, NEW text \in Seq(Lines),
                           Writes(i, whole, text)
                    PROVE  /\ md5sum' \in Seq(Lines) /\ alone' \in [Images -> BOOLEAN]
                           /\ upsets' \in 0..MaxUpsets
<1>1. md5sum' \in Seq(Lines) /\ upsets' \in 0..MaxUpsets  BY BoundsOK DEF TypeOK, Writes
<1>2. alone' \in [Images -> BOOLEAN]  BY DEF TypeOK, Writes
<1> QED  BY <1>1, <1>2

LEMMA RunEndsType == ASSUME TypeOK, NEW i \in Images, RunEnds(i)
                     PROVE  /\ pc' \in [Images -> Labels]
                            /\ last' \in [Images -> {"never", "running", "failed", "ok"}]
                            /\ {exists', force', alone', steady', mixed', asked', settled'}
                                 \subseteq [Images -> BOOLEAN]
                            /\ packer_md5' \in [Images -> Seq(Lines)]
                            /\ template' \in [Images -> Versions \cup {None}]
<1>1. Ends(i, "ok") /\ mixed' = mixed /\ settled' = [settled EXCEPT ![i] = alone[i] /\ steady[i]]
  BY DEF RunEnds
<1>2. settled' \in [Images -> BOOLEAN] /\ mixed' \in [Images -> BOOLEAN]  BY <1>1 DEF TypeOK
<1> QED  BY <1>1, <1>2, EndsType

LEMMA TypeStep == ASSUME ImageInv, [Next]_vars PROVE TypeOK'
<1> TypeOK /\ \A i \in Images: Good(i)  BY DEF ImageInv
<1> USE DEF TypeOK, vars, azure, local, history, bounds
<1>1. CASE UNCHANGED vars  BY <1>1
<1>2. ASSUME NEW f \in Edited, EditFile(f) PROVE TypeOK'
  BY <1>2, BoundsOK, EditedOK DEF EditFile
<1>3. ASSUME NEW i \in Images, Fails(i) PROVE TypeOK'
  <2>1. settled' \in [Images -> BOOLEAN]  BY <1>3 DEF Fails
  <2> QED  BY <1>3, <2>1, BoundsOK, EndsType DEF Fails
<1>4. ASSUME NEW i \in Images, NEW f \in BOOLEAN, Start(i, f) PROVE TypeOK'
  BY <1>4, BoundsOK DEF Start, Labels
<1>5. ASSUME NEW i \in Images, NEW whole \in BOOLEAN, Find(i, whole) PROVE TypeOK'
  <2> DEFINE text == IF whole THEN <<Line(DirOf[i], content[DirOf[i]])>> ELSE <<>>
  <2>1. text \in Seq(Lines)  BY FilesOf, LineType
  <2>2. Writes(i, whole, text) /\ GoTo(i, "append")  BY <1>5 DEF Find
  <2> HIDE DEF text
  <2> QED  BY <1>5, <2>1, <2>2, WritesType, GoToType DEF Find, Labels
<1>6. ASSUME NEW i \in Images, NEW whole \in BOOLEAN, AppendPacker(i, whole) PROVE TypeOK'
  <2> DEFINE text == IF whole THEN Append(md5sum, Line(i, content[i])) ELSE md5sum
  <2>1. text \in Seq(Lines)
    <3>1. Line(i, content[i]) \in Lines  BY FilesOf, LineType
    <3>2. \A l \in Lines: Append(md5sum, l) \in Seq(Lines)  OBVIOUS
    <3> QED  BY <3>1, <3>2
  <2>2. Writes(i, whole, text) /\ GoTo(i, "compare")  BY <1>6 DEF AppendPacker
  <2> HIDE DEF text
  <2> QED  BY <1>6, <2>1, <2>2, WritesType, GoToType DEF AppendPacker, Labels
<1>7. ASSUME NEW i \in Images, Compare(i) PROVE TypeOK'
  BY <1>7, GoToType DEF Compare, Labels
<1>8. ASSUME NEW i \in Images, Build(i) PROVE TypeOK'
  <2>1. template' \in [Images -> Versions \cup {None}]
    <3>1. content[i] \in Versions  BY FilesOf
    <3> QED  BY <1>8, <3>1 DEF Build
  <2>2. pc' \in [Images -> Labels] /\ last' \in [Images -> {"never", "running", "failed", "ok"}]
    BY <1>8, GoToType DEF Build, Labels
  <2>3. built' \in [Images -> Sources \cup {None}] /\ checksum' \in [Images -> Seq(Lines) \cup {None}]
    BY <1>8 DEF Build
  <2>4. version' \in [Images -> BOOLEAN] /\ mixed' \in [Images -> BOOLEAN]
    BY <1>8 DEF Build
  <2> QED  BY <1>8, <2>1, <2>2, <2>3, <2>4 DEF Build
<1>9. ASSUME NEW i \in Images, Capture(i) PROVE TypeOK'
  <2>1. [scripts |-> content[DirOf[i]], packer |-> template[i]] \in Sources
    BY <1>9, FilesOf DEF Capture, Good, BuiltOrSame, Sources
  <2>2. built' \in [Images -> Sources \cup {None}]  BY <1>9, <2>1 DEF Capture
  <2> QED  BY <1>9, <2>2, GoToType DEF Capture, Labels
<1>10. ASSUME NEW i \in Images, TagChecksum(i) PROVE TypeOK'
  BY <1>10, GoToType DEF TagChecksum, Labels
<1>11. ASSUME NEW i \in Images, Define(i) PROVE TypeOK'
  BY <1>11, GoToType DEF Define, Labels
<1>12. ASSUME NEW i \in Images, Look(i) PROVE TypeOK'
  <2>1. CASE ~version[i] \/ force[i]  BY <1>12, <2>1, GoToType DEF Look, Labels
  <2>2. CASE ~(~version[i] \/ force[i])
    <3>1. RunEnds(i) /\ UNCHANGED <<content, md5sum, azure, bounds>>  BY <1>12, <2>2 DEF Look
    <3> QED  BY <3>1, RunEndsType
  <2> QED  BY <2>1, <2>2
<1>13. ASSUME NEW i \in Images, Push(i) PROVE TypeOK'
  BY <1>13, GoToType DEF Push, Labels
<1>14. ASSUME NEW i \in Images, TagVersion(i) PROVE TypeOK'
  <2>1. /\ RunEnds(i) \/ (GoTo(i, "disk") /\ UNCHANGED <<local, history>>)
        /\ version' = [version EXCEPT ![i] = TRUE] /\ checksum' = [checksum EXCEPT ![i] = packer_md5[i]]
        /\ UNCHANGED <<content, md5sum, built, defined, newest, bounds>>
    BY <1>14 DEF TagVersion
  <2>2. checksum' \in [Images -> Seq(Lines) \cup {None}] /\ version' \in [Images -> BOOLEAN]
    <3>1. packer_md5[i] \in Seq(Lines)  OBVIOUS
    <3>2. checksum \in [Images -> Seq(Lines) \cup {None}] /\ version \in [Images -> BOOLEAN]  OBVIOUS
    <3> HIDE DEF TypeOK
    <3>3. checksum' \in [Images -> Seq(Lines) \cup {None}]  BY <2>1, <3>1, <3>2, ExceptType
    <3>4. version' \in [Images -> BOOLEAN]  BY <2>1, <3>2, ExceptType
    <3> QED  BY <3>3, <3>4
  <2>3. CASE RunEnds(i)
    <3>1. /\ pc' \in [Images -> Labels] /\ last' \in [Images -> {"never", "running", "failed", "ok"}]
          /\ {exists', force', alone', steady', mixed', asked', settled'} \subseteq [Images -> BOOLEAN]
          /\ packer_md5' \in [Images -> Seq(Lines)]
          /\ template' \in [Images -> Versions \cup {None}]
      BY <2>3, RunEndsType
    <3>2. defined' \in [Images -> BOOLEAN]  BY <2>1
    <3>3. {version, defined, exists, force, alone, steady, mixed, asked, settled}' \subseteq [Images -> BOOLEAN]
      BY <2>2, <3>1, <3>2
    <3>4. /\ content' \in [Files -> Versions] /\ md5sum' \in Seq(Lines)
          /\ built' \in [Images -> Sources \cup {None}] /\ newest' \in [Images -> Sources \cup {None}]
          /\ edits' \in 0..MaxEdits /\ upsets' \in 0..MaxUpsets /\ others' \in 0..MaxOthers
      BY <2>1
    <3> QED  BY <2>2, <3>1, <3>3, <3>4
  <2>4. CASE GoTo(i, "disk") /\ UNCHANGED <<local, history>>
    BY <2>1, <2>2, <2>4, GoToType DEF Labels
  <2> QED  BY <2>1, <2>3, <2>4
<1>15. ASSUME NEW i \in Images, TagDisk(i) PROVE TypeOK'
  BY <1>15, RunEndsType DEF TagDisk
<1> QED
  BY <1>1, <1>2, <1>3, <1>4, <1>5, <1>6, <1>7, <1>8, <1>9, <1>10, <1>11, <1>12, <1>13, <1>14, <1>15
  DEF Next, Step

-----------------------------------------------------------------------------
(* Steps that leave the tags and the images alone.                          *)

LEMMA InitGood == Init => ImageInv
<1> SUFFICES ASSUME Init PROVE ImageInv  OBVIOUS
<1>1. TypeOK  BY BoundsOK, FirstOK DEF Init, AllAre, TypeOK, Labels
<1>2. ASSUME NEW i \in Images PROVE Good(i)
  <2>1. pc[i] = "idle" /\ checksum[i] = None /\ version[i] = FALSE  BY DEF Init, AllAre
  <2>2. TagTrue(i) /\ Kept(i)  BY <2>1, SumType DEF TagTrue, Kept
  <2> QED  BY <2>1, <2>2 DEF Good, OwnLines, OwnSum, AloneFile, AloneSum, BuiltOrSame, PushedIs,
                             Writing, Summed, Tagged
<1> QED  BY <1>1, <1>2 DEF ImageInv

\* The run and the image stay as they are, and so do the files a steady run has summed.
Same(i) ==
  /\ pc'[i] = pc[i] /\ packer_md5'[i] = packer_md5[i] /\ template'[i] = template[i]
  /\ checksum'[i] = checksum[i] /\ version'[i] = version[i] /\ mixed'[i] = mixed[i]
  /\ built'[i] = built[i] /\ newest'[i] = newest[i]
StaysSteady(i) ==
  steady'[i] => steady[i] /\ content'[i] = content[i] /\ content'[DirOf[i]] = content[DirOf[i]]

LEMMA SameGood ==
  ASSUME NEW i \in Images, Good(i), Same(i), StaysSteady(i),
         OwnLines(i)', AloneFile(i)', alone'[i] => alone[i]
  PROVE  Good(i)'
<1>1. steady'[i] => steady[i] /\ Source(i)' = Source(i)  BY SameSource DEF StaysSteady
<1>2. OwnSum(i)' /\ AloneSum(i)'
  BY <1>1 DEF Good, Same, OwnSum, OwnIn, AloneSum, Checksum
<1>3. TagTrue(i)' /\ Kept(i)' /\ PushedIs(i)'  BY DEF Good, Same, TagTrue, Kept, PushedIs
<1>4. BuiltOrSame(i)'
  BY DEF Good, Same, StaysSteady, BuiltOrSame, SumOfBuilt, OwnIn
<1> QED  BY <1>2, <1>3, <1>4 DEF Good

\* A step of another run that does not write md5sum.txt.
LEMMA OtherGood ==
  ASSUME NEW i \in Images, Good(i), Same(i), StaysSteady(i), md5sum' = md5sum, alone'[i] = alone[i]
  PROVE  Good(i)'
<1>1. steady'[i] => steady[i] /\ Source(i)' = Source(i)  BY SameSource DEF StaysSteady
<1>2. OwnLines(i)'  BY <1>1 DEF Good, Same, OwnLines, OwnIn
<1>3. AloneFile(i)'
  BY <1>1 DEF Good, Same, StaysSteady, AloneFile, Checksum
<1> QED  BY <1>2, <1>3, SameGood

\* A run that is not under way has only its image to be good.
LEMMA IdleGood ==
  ASSUME NEW i \in Images, Good(i), pc'[i] \in {"idle", "find"},
         checksum'[i] = checksum[i], version'[i] = version[i], mixed'[i] = mixed[i],
         built'[i] = built[i], newest'[i] = newest[i]
  PROVE  Good(i)'
<1>1. TagTrue(i)' /\ Kept(i)'  BY DEF Good, TagTrue, Kept
<1> QED  BY <1>1 DEF Good, OwnLines, OwnSum, AloneFile, AloneSum, BuiltOrSame, PushedIs,
                     Writing, Summed, Tagged

LEMMA EndsSame ==
  ASSUME TypeOK, NEW i \in Images, NEW how, Ends(i, how)
  PROVE  /\ pc'[i] = "idle"
         /\ \A k \in Images \ {i}: /\ pc'[k] = pc[k] /\ packer_md5'[k] = packer_md5[k]
                                   /\ template'[k] = template[k] /\ alone'[k] = alone[k]
                                   /\ steady'[k] = steady[k]
BY DEF Ends, TypeOK

LEMMA EndsGood ==
  ASSUME ImageInv, NEW i \in Images, NEW k \in Images, NEW how, Ends(i, how),
         UNCHANGED <<content, md5sum, built, newest, mixed>>,
         checksum'[k] = checksum[k], version'[k] = version[k]
  PROVE  Good(k)'
<1>1. Good(k)  BY DEF ImageInv
<1>2. CASE k = i
  <2>1. pc'[k] = "idle"  BY <1>2, EndsSame DEF ImageInv
  <2> QED  BY <1>1, <2>1, IdleGood
<1>3. CASE k # i
  <2>1. Same(k) /\ StaysSteady(k) /\ alone'[k] = alone[k]
    BY <1>3, EndsSame DEF ImageInv, Same, StaysSteady
  <2> QED  BY <1>1, <2>1, OtherGood
<1> QED  BY <1>2, <1>3

LEMMA FailsGood == ASSUME ImageInv, NEW i \in Images, NEW k \in Images, Fails(i) PROVE Good(k)'
BY EndsGood DEF Fails, azure

\* An edit leaves a run steady only where it changes none of its files.
LEMMA EditSteady ==
  ASSUME TypeOK, NEW f \in Edited, NEW k \in Images, EditFile(f), pc[k] \notin {"idle", "find"}
  PROVE  StaysSteady(k)
<1>1. steady'[k] = (steady[k] /\ ~(f \in {k, DirOf[k]}))  BY DEF EditFile
<1>2. PICK v \in Versions: content' = [content EXCEPT ![f] = v]  BY DEF EditFile
<1>3. f \notin {k, DirOf[k]} => content'[k] = content[k] /\ content'[DirOf[k]] = content[DirOf[k]]
  BY <1>2, FilesOf DEF TypeOK
<1> QED  BY <1>1, <1>3 DEF StaysSteady

LEMMA EditGood == ASSUME ImageInv, NEW f \in Edited, NEW k \in Images, EditFile(f) PROVE Good(k)'
<1>1. Good(k) /\ UNCHANGED <<md5sum, built, checksum, version, newest, pc, packer_md5, template, alone, mixed>>
  BY DEF ImageInv, EditFile, azure, local
<1>2. CASE pc[k] \in {"idle", "find"}  BY <1>1, <1>2, IdleGood
<1>3. CASE pc[k] \notin {"idle", "find"}
  <2>1. StaysSteady(k)  BY <1>3, EditSteady DEF ImageInv
  <2>2. Same(k)  BY <1>1 DEF Same
  <2> QED  BY <1>1, <2>1, <2>2, OtherGood
<1> QED  BY <1>2, <1>3

LEMMA StartGood == ASSUME ImageInv, NEW i \in Images, NEW k \in Images, NEW f, Start(i, f) PROVE Good(k)'
<1>1. Good(k) /\ UNCHANGED <<content, md5sum, built, checksum, version, newest, packer_md5, template,
                             alone, steady, mixed>>
  BY DEF ImageInv, Start, azure
<1>2. CASE k = i
  <2>1. pc'[k] = "find"  BY <1>2 DEF Start, ImageInv, TypeOK
  <2> QED  BY <1>1, <2>1, IdleGood
<1>3. CASE k # i
  <2>1. pc'[k] = pc[k]  BY <1>3 DEF Start, ImageInv, TypeOK
  <2> QED  BY <1>1, <2>1, OtherGood DEF Same, StaysSteady
<1> QED  BY <1>2, <1>3

\* A run's steps after md5sum.txt is written leave the other images alone.
LEMMA StepOther ==
  ASSUME ImageInv, NEW i \in Images, NEW k \in Images, k # i,
         \/ Compare(i) \/ Build(i) \/ Capture(i) \/ TagChecksum(i) \/ Define(i) \/ Push(i)
         \/ Look(i) /\ (~version[i] \/ force[i])
         \/ TagVersion(i) /\ GoTo(i, "disk") /\ UNCHANGED <<local, history>>
  PROVE  Good(k)'
<1> USE DEF ImageInv, TypeOK, GoTo, Same
<1>1. CASE Compare(i)
  <2>1. Same(k) /\ md5sum' = md5sum /\ alone' = alone  BY <1>1 DEF Compare, azure, history
  <2>2. StaysSteady(k)  BY <1>1 DEF Compare, history, StaysSteady
  <2> QED  BY <2>1, <2>2, OtherGood
<1>2. CASE Build(i)
  <2>1. Same(k) /\ md5sum' = md5sum /\ alone' = alone  BY <1>2 DEF Build
  <2>2. StaysSteady(k)  BY <1>2 DEF Build, StaysSteady
  <2> QED  BY <2>1, <2>2, OtherGood
<1>3. CASE Capture(i)
  <2>1. Same(k) /\ md5sum' = md5sum /\ alone' = alone  BY <1>3 DEF Capture
  <2>2. StaysSteady(k)  BY <1>3 DEF Capture, StaysSteady
  <2> QED  BY <2>1, <2>2, OtherGood
<1>4. CASE TagChecksum(i)
  <2>1. Same(k) /\ md5sum' = md5sum /\ alone' = alone  BY <1>4 DEF TagChecksum, local, history
  <2>2. StaysSteady(k)  BY <1>4 DEF TagChecksum, history, StaysSteady
  <2> QED  BY <2>1, <2>2, OtherGood
<1>5. CASE Define(i)
  <2>1. Same(k) /\ md5sum' = md5sum /\ alone' = alone  BY <1>5 DEF Define, local, history
  <2>2. StaysSteady(k)  BY <1>5 DEF Define, history, StaysSteady
  <2> QED  BY <2>1, <2>2, OtherGood
<1>6. CASE Push(i)
  <2>1. Same(k) /\ md5sum' = md5sum /\ alone' = alone  BY <1>6 DEF Push, local, history
  <2>2. StaysSteady(k)  BY <1>6 DEF Push, history, StaysSteady
  <2> QED  BY <2>1, <2>2, OtherGood
<1>7. CASE Look(i) /\ (~version[i] \/ force[i])
  <2>1. Same(k) /\ md5sum' = md5sum /\ alone' = alone  BY <1>7 DEF Look, azure, local, history
  <2>2. StaysSteady(k)  BY <1>7 DEF Look, history, StaysSteady
  <2> QED  BY <2>1, <2>2, OtherGood
<1>8. CASE TagVersion(i) /\ GoTo(i, "disk") /\ UNCHANGED <<local, history>>
  <2>1. Same(k) /\ md5sum' = md5sum /\ alone' = alone  BY <1>8 DEF TagVersion, local, history
  <2>2. StaysSteady(k)  BY <1>8 DEF TagVersion, history, StaysSteady
  <2> QED  BY <2>1, <2>2, OtherGood
<1> QED  BY <1>1, <1>2, <1>3, <1>4, <1>5, <1>6, <1>7, <1>8

-----------------------------------------------------------------------------
(* The steps that make the checksum.                                        *)

LEMMA FindGood ==
  ASSUME ImageInv, NEW i \in Images, NEW k \in Images, NEW whole \in BOOLEAN, Find(i, whole)
  PROVE  Good(k)'
<1> DEFINE d == DirOf[i]
           text == IF whole THEN <<Line(d, content[d])>> ELSE <<>>
<1>1. /\ Good(k) /\ TypeOK /\ Writes(i, whole, text) /\ GoTo(i, "append") /\ pc[i] = "find"
      /\ UNCHANGED <<content, built, checksum, version, newest, packer_md5, template, steady, mixed>>
  BY DEF ImageInv, Find, azure, local
<1>2. OwnIn(text, k, Source(k))
  <2>1. OwnIn(<<Line(d, content[d])>>, k, Source(k))  BY DirsOK, FirstLine DEF Source
  <2>2. OwnIn(<<>>, k, Source(k))  BY DEF OwnIn
  <2> QED  BY <2>1, <2>2
<1>3. Source(k)' = Source(k) /\ md5sum' = text  BY <1>1, SameSource DEF Writes
<1>4. OwnIn(md5sum, k, Source(k))'  BY <1>2, <1>3 DEF OwnIn
<1>5. OwnLines(k)'  BY <1>4 DEF OwnLines
<1>6. CASE k = i
  <2>1. pc'[k] = "append"  BY <1>1, <1>6 DEF GoTo, TypeOK
  <2>2. alone'[k] => whole  BY <1>1, <1>6 DEF Writes
  <2>3. AloneFile(k)'  BY <1>1, <1>3, <1>6, <2>1, <2>2 DEF AloneFile
  <2>4. TagTrue(k)' /\ Kept(k)' /\ PushedIs(k)'
    BY <1>1, <1>6, <2>1 DEF Good, TagTrue, Kept, PushedIs
  <2> QED  BY <1>5, <2>1, <2>3, <2>4 DEF Good, OwnSum, AloneSum, BuiltOrSame, Summed, Tagged
<1>7. CASE k # i
  <2>1. pc'[k] = pc[k] /\ (alone'[k] => alone[k] /\ pc[k] \notin Writing)
    BY <1>1, <1>7 DEF GoTo, Writes, Writing, TypeOK
  <2>2. AloneFile(k)'  BY <2>1 DEF AloneFile, Writing
  <2>3. Same(k) /\ StaysSteady(k)  BY <1>1, <2>1 DEF Same, StaysSteady
  <2> QED  BY <1>1, <1>5, <2>1, <2>2, <2>3, SameGood
<1> QED  BY <1>6, <1>7

LEMMA AppendGood ==
  ASSUME ImageInv, NEW i \in Images, NEW k \in Images, NEW whole \in BOOLEAN, AppendPacker(i, whole)
  PROVE  Good(k)'
<1> DEFINE text == IF whole THEN Append(md5sum, Line(i, content[i])) ELSE md5sum
<1>1. /\ Good(k) /\ TypeOK /\ Writes(i, whole, text) /\ GoTo(i, "compare") /\ pc[i] = "append"
      /\ UNCHANGED <<content, built, checksum, version, newest, packer_md5, template, steady, mixed>>
  BY DEF ImageInv, AppendPacker, azure, local
<1>2. Source(k)' = Source(k) /\ md5sum' = text  BY <1>1, SameSource DEF Writes
<1>3. OwnIn(md5sum, k, Source(k)) => OwnIn(text, k, Source(k))
  BY <1>1, NextLine DEF TypeOK, Source
<1>4. OwnIn(md5sum, k, Source(k)) => OwnIn(md5sum, k, Source(k))'  BY <1>2, <1>3 DEF OwnIn
<1>5. CASE k = i
  <2>1. pc'[k] = "compare" /\ (alone'[k] => alone[k] /\ whole)
    BY <1>1, <1>5 DEF GoTo, Writes, TypeOK
  <2>2. OwnLines(k)'  BY <1>1, <1>4, <1>5, <2>1 DEF Good, OwnLines, Writing
  <2>3. AloneFile(k)'
    <3>1. ASSUME NEW a, NEW b PROVE Append(<<a>>, b) = <<a, b>>
      <4> DEFINE both == Append(<<a>>, b)
      <4>1. <<a>> \in Seq({a, b}) /\ b \in {a, b}  OBVIOUS
      <4>2. both \in Seq({a, b}) /\ Len(both) = 2 /\ both[1] = a /\ both[2] = b  BY <4>1, AppendProperties
      <4> HIDE DEF both
      <4>3. both = <<a, b>>  BY <4>2
      <4> QED  BY <4>3 DEF both
    <3>2. alone'[k] /\ steady[k] => md5sum = <<Line(DirOf[k], content[DirOf[k]])>>
      BY <1>1, <1>5, <2>1 DEF Good, AloneFile
    <3>3. alone'[k] /\ steady[k] => md5sum' = <<Line(DirOf[k], content[DirOf[k]]), Line(k, content[k])>>
      BY <1>2, <1>5, <2>1, <3>1, <3>2
    <3>4. Checksum(k, Source(k))' = <<Line(DirOf[k], content[DirOf[k]]), Line(k, content[k])>>
      BY <1>2 DEF Checksum, Source
    <3>5. alone'[k] /\ steady'[k] => md5sum' = Checksum(k, Source(k))'
      BY <1>1, <3>3, <3>4
    <3> QED  BY <2>1, <3>5 DEF AloneFile
  <2>4. TagTrue(k)' /\ Kept(k)' /\ PushedIs(k)'
    BY <1>1, <1>5, <2>1 DEF Good, TagTrue, Kept, PushedIs
  <2> QED  BY <2>1, <2>2, <2>3, <2>4 DEF Good, OwnSum, AloneSum, BuiltOrSame, Summed, Tagged
<1>6. CASE k # i
  <2>1. pc'[k] = pc[k] /\ (alone'[k] => alone[k] /\ pc[k] \notin Writing)
    BY <1>1, <1>6 DEF GoTo, Writes, Writing, TypeOK
  <2>2. OwnLines(k)'  BY <1>1, <1>4, <2>1 DEF Good, OwnLines
  <2>3. AloneFile(k)'  BY <2>1 DEF AloneFile, Writing
  <2>4. Same(k) /\ StaysSteady(k)  BY <1>1, <2>1 DEF Same, StaysSteady
  <2> QED  BY <1>1, <2>1, <2>2, <2>3, <2>4, SameGood
<1> QED  BY <1>5, <1>6

LEMMA CompareGood == ASSUME ImageInv, NEW i \in Images, Compare(i) PROVE Good(i)'
<1>1. /\ Good(i) /\ TypeOK /\ pc[i] = "compare" /\ GoTo(i, IF ~exists[i] \/ force'[i] THEN "build" ELSE "define")
      /\ UNCHANGED <<content, md5sum, built, checksum, version, newest, template, alone, steady, mixed>>
      /\ packer_md5' = [packer_md5 EXCEPT ![i] = md5sum]
      /\ force' = [force EXCEPT ![i] = @ \/ (exists[i] /\ checksum[i] # md5sum)]
  BY DEF ImageInv, Compare, azure, history
<1>2. /\ packer_md5'[i] = md5sum /\ pc'[i] \in {"build", "define"}
      /\ pc'[i] = "define" => checksum[i] = md5sum
  BY <1>1 DEF GoTo, TypeOK
<1>3. Source(i)' = Source(i)  BY <1>1, SameSource
<1>4. OwnSum(i)' /\ AloneSum(i)'
  BY <1>1, <1>2, <1>3 DEF Good, OwnLines, OwnSum, OwnIn, AloneFile, AloneSum, Writing, Checksum
<1>5. TagTrue(i)' /\ Kept(i)' /\ PushedIs(i)'
  BY <1>1, <1>2 DEF Good, TagTrue, Kept, PushedIs
<1> QED  BY <1>1, <1>2, <1>4, <1>5 DEF Good, OwnLines, AloneFile, BuiltOrSame, Writing, Tagged

-----------------------------------------------------------------------------
(* The steps that build, tag and publish the image.                         *)

\* A step of a run that is done with md5sum.txt keeps what it found out.
LEMMA SumKept ==
  ASSUME NEW i \in Images, Good(i), pc[i] \in Summed, pc'[i] \in Summed,
         UNCHANGED <<content, packer_md5, alone, steady>>
  PROVE  OwnLines(i)' /\ OwnSum(i)' /\ AloneFile(i)' /\ AloneSum(i)'
<1>1. Source(i)' = Source(i)  BY SameSource
<1> QED  BY <1>1 DEF Good, OwnLines, OwnSum, OwnIn, AloneFile, AloneSum, Writing, Summed, Tagged, Checksum

LEMMA BuildGood == ASSUME ImageInv, NEW i \in Images, Build(i) PROVE Good(i)'
<1>1. /\ Good(i) /\ UNCHANGED <<content, packer_md5, alone, steady>>
      /\ pc[i] = "build" /\ pc'[i] = "capture" /\ checksum'[i] = None /\ version'[i] = FALSE
      /\ template'[i] = content[i] /\ content[i] \in Versions
  BY FilesOf DEF ImageInv, Build, GoTo, TypeOK
<1>2. TagTrue(i)' /\ Kept(i)'  BY <1>1, SumType DEF TagTrue, Kept
<1>3. OwnLines(i)' /\ OwnSum(i)' /\ AloneFile(i)' /\ AloneSum(i)'  BY <1>1, SumKept DEF Summed
<1> QED  BY <1>1, <1>2, <1>3 DEF Good, BuiltOrSame, PushedIs, Tagged

LEMMA CaptureGood == ASSUME ImageInv, NEW i \in Images, Capture(i) PROVE Good(i)'
<1> DEFINE b == [scripts |-> content[DirOf[i]], packer |-> template[i]]
<1>1. /\ Good(i) /\ UNCHANGED <<content, packer_md5, alone, steady>>
      /\ pc[i] = "capture" /\ pc'[i] = "checksum" /\ built'[i] = b
      /\ checksum'[i] = checksum[i] /\ version'[i] = version[i] /\ mixed'[i] = ~steady[i]
  BY DEF ImageInv, Capture, GoTo, TypeOK
<1>2. /\ checksum[i] = None /\ ~version[i]
      /\ template[i] \in Versions /\ (steady[i] => template[i] = content[i])
  BY <1>1 DEF Good, BuiltOrSame
<1>3. TagTrue(i)' /\ Kept(i)'  BY <1>1, <1>2, SumType DEF TagTrue, Kept
<1>4. OwnLines(i)' /\ OwnSum(i)' /\ AloneFile(i)' /\ AloneSum(i)'  BY <1>1, SumKept DEF Summed
<1>5. SumOfBuilt(i)'
  <2>1. b \in Sources  BY <1>2, FilesOf DEF ImageInv, TypeOK, Sources
  <2>2. ~mixed'[i] => b = Source(i) /\ OwnIn(packer_md5[i], i, Source(i))
    BY <1>1, <1>2 DEF Good, OwnSum, Summed, Source
  <2> QED  BY <1>1, <2>1, <2>2, NoneOK DEF SumOfBuilt, OwnIn
<1> QED  BY <1>1, <1>2, <1>3, <1>4, <1>5 DEF Good, BuiltOrSame, PushedIs, Tagged

\* The checksum of the run may become the tag of an image that is built from what
\* was summed, or has that tag already.
LEMMA TagStays ==
  ASSUME TypeOK, NEW i \in Images, Good(i), SumOfBuilt(i) \/ checksum[i] = packer_md5[i]
  PROVE  /\ built[i] # None
         /\ \A s \in Sources: ~mixed[i] /\ packer_md5[i] = Checksum(i, s) => built[i] = s
<1>1. packer_md5[i] # None  BY NoneOK DEF TypeOK
<1>2. CASE SumOfBuilt(i)
  <2>1. built[i] \in Sources  BY <1>2 DEF TypeOK, SumOfBuilt
  <2>2. ASSUME NEW s \in Sources, ~mixed[i], packer_md5[i] = Checksum(i, s) PROVE built[i] = s
    <3>1. OwnIn(Checksum(i, s), i, built[i])  BY <1>2, <2>2 DEF SumOfBuilt
    <3> QED  BY <2>1, <3>1, SumOfOwn
  <2> QED  BY <1>2, <2>2 DEF SumOfBuilt
<1>3. CASE checksum[i] = packer_md5[i]  BY <1>1, <1>3 DEF Good, TagTrue, Kept
<1> QED  BY <1>2, <1>3

LEMMA TagChecksumGood == ASSUME ImageInv, NEW i \in Images, TagChecksum(i) PROVE Good(i)'
<1>1. /\ Good(i) /\ TypeOK /\ UNCHANGED <<content, packer_md5, alone, steady>>
      /\ pc[i] = "checksum" /\ pc'[i] = "define" /\ version'[i] = FALSE /\ checksum'[i] = packer_md5[i]
      /\ built'[i] = built[i] /\ mixed'[i] = mixed[i]
  BY DEF ImageInv, TagChecksum, GoTo, TypeOK, local, history
<1>2. SumOfBuilt(i)  BY <1>1 DEF Good, BuiltOrSame
<1>3. TagTrue(i)' /\ Kept(i)'  BY <1>1, <1>2, TagStays DEF TagTrue, Kept
<1>4. OwnLines(i)' /\ OwnSum(i)' /\ AloneFile(i)' /\ AloneSum(i)'  BY <1>1, SumKept DEF Summed, Tagged
<1> QED  BY <1>1, <1>3, <1>4 DEF Good, BuiltOrSame, PushedIs, Tagged

\* The steps between the tags.
LEMMA DefineGood ==
  ASSUME ImageInv, NEW i \in Images, Define(i) \/ Push(i) \/ (Look(i) /\ (~version[i] \/ force[i]))
  PROVE  Good(i)'
<1>1. /\ Good(i) /\ TypeOK
      /\ UNCHANGED <<content, built, checksum, version, packer_md5, alone, steady, mixed>>
      /\ pc[i] \in {"define", "look", "push"}
  BY DEF ImageInv, Define, Push, Look, azure, local, history
<1>2. \/ pc'[i] \in {"look", "push"} /\ newest'[i] = newest[i]
      \/ pc'[i] = "version" /\ newest'[i] = built[i]
  BY DEF ImageInv, Define, Push, Look, GoTo, azure, TypeOK
<1>3. pc[i] \in Tagged /\ pc'[i] \in Tagged  BY <1>1, <1>2 DEF Tagged
<1>4. OwnLines(i)' /\ OwnSum(i)' /\ AloneFile(i)' /\ AloneSum(i)'  BY <1>1, <1>3, SumKept DEF Summed
<1>5. TagTrue(i)' /\ Kept(i)' /\ PushedIs(i)'  BY <1>1, <1>2 DEF Good, TagTrue, Kept, PushedIs
<1>6. BuiltOrSame(i)'
  BY <1>1, <1>2, <1>3 DEF Good, BuiltOrSame, SumOfBuilt, OwnIn
<1> QED  BY <1>4, <1>5, <1>6 DEF Good

LEMMA LookGood == ASSUME ImageInv, NEW i \in Images, NEW k \in Images, Look(i) PROVE Good(k)'
<1>1. CASE ~version[i] \/ force[i]  BY <1>1, DefineGood, StepOther
<1>2. CASE ~(~version[i] \/ force[i])
  <2>1. RunEnds(i) /\ UNCHANGED <<content, md5sum, built, newest, checksum, version>>
    BY <1>2 DEF Look, azure
  <2> QED  BY <2>1, EndsGood DEF RunEnds
<1> QED  BY <1>1, <1>2

LEMMA TagVersionGood ==
  ASSUME ImageInv, NEW i \in Images, NEW k \in Images, TagVersion(i) PROVE Good(k)'
<1>1. /\ TypeOK /\ Good(i) /\ UNCHANGED <<content, md5sum, built, newest>>
      /\ version' = [version EXCEPT ![i] = TRUE] /\ checksum' = [checksum EXCEPT ![i] = packer_md5[i]]
      /\ pc[i] = "version" /\ UNCHANGED mixed
  BY DEF ImageInv, TagVersion, RunEnds, history
<1>2. newest[i] = built[i] /\ (SumOfBuilt(i) \/ checksum[i] = packer_md5[i])
  BY <1>1 DEF Good, BuiltOrSame, PushedIs, Tagged
<1>3. checksum'[i] = packer_md5[i] /\ version'[i] = TRUE  BY <1>1 DEF TypeOK
<1>4. TagTrue(i)' /\ Kept(i)' /\ PushedIs(i)'
  BY <1>1, <1>2, <1>3, TagStays DEF TagTrue, Kept, PushedIs
<1>5. CASE RunEnds(i)
  <2>1. CASE k = i
    <3>1. pc'[i] = "idle"  BY <1>1, <1>5, EndsSame DEF RunEnds
    <3> QED  BY <1>4, <2>1, <3>1 DEF Good, OwnLines, OwnSum, AloneFile, AloneSum, BuiltOrSame,
                                     Writing, Summed, Tagged
  <2>2. CASE k # i
    <3>1. checksum'[k] = checksum[k] /\ version'[k] = version[k]  BY <1>1, <2>2 DEF TypeOK
    <3> QED  BY <1>1, <1>5, <3>1, EndsGood DEF RunEnds
  <2> QED  BY <2>1, <2>2
<1>6. CASE GoTo(i, "disk") /\ UNCHANGED <<local, history>>
  <2>1. CASE k = i
    <3>1. pc'[i] = "disk" /\ UNCHANGED <<packer_md5, alone, steady>>
      BY <1>1, <1>6 DEF GoTo, TypeOK, local, history
    <3>2. OwnLines(i)' /\ OwnSum(i)' /\ AloneFile(i)' /\ AloneSum(i)'
      BY <1>1, <3>1, SumKept DEF Summed, Tagged
    <3> QED  BY <1>3, <1>4, <2>1, <3>1, <3>2 DEF Good, BuiltOrSame
  <2>2. CASE k # i  BY <1>6, <2>2, StepOther
  <2> QED  BY <2>1, <2>2
<1> QED  BY <1>5, <1>6 DEF TagVersion

LEMMA TagDiskGood ==
  ASSUME ImageInv, NEW i \in Images, NEW k \in Images, TagDisk(i) PROVE Good(k)'
BY EndsGood DEF TagDisk, RunEnds, azure

-----------------------------------------------------------------------------
LEMMA ImageStep == ImageInv /\ [Next]_vars => ImageInv'
<1> SUFFICES ASSUME ImageInv, [Next]_vars PROVE ImageInv'
  OBVIOUS
<1>1. TypeOK'  BY TypeStep
<1>2. ASSUME NEW k \in Images PROVE Good(k)'
  <2>1. CASE UNCHANGED vars
    BY <2>1, OtherGood DEF ImageInv, Same, StaysSteady, vars, azure, local, history
  <2>2. ASSUME NEW f \in Edited, EditFile(f) PROVE Good(k)'
    BY <2>2, EditGood
  <2>3. ASSUME NEW i \in Images,
               Fails(i) \/ (\E f \in BOOLEAN: Start(i, f)) \/ Find(i, FALSE) \/ AppendPacker(i, FALSE)
        PROVE  Good(k)'
    BY <2>3, FailsGood, StartGood, FindGood, AppendGood
  <2>4. ASSUME NEW i \in Images, Step(i) PROVE Good(k)'
    <3>1. CASE k = i
      BY <2>4, <3>1, FindGood, AppendGood, CompareGood, BuildGood, CaptureGood, TagChecksumGood,
         DefineGood, LookGood, TagVersionGood, TagDiskGood DEF Step
    <3>2. CASE k # i
      BY <2>4, <3>2, FindGood, AppendGood, StepOther, LookGood, TagVersionGood, TagDiskGood DEF Step
    <3> QED  BY <3>1, <3>2
  <2> QED  BY <2>1, <2>2, <2>3, <2>4 DEF Next
<1> QED  BY <1>1, <1>2 DEF ImageInv

\* For all images and their scripts, what a run has found out about the image's tag,
\* its checksum and md5sum.txt holds on until it ends or a file is edited, over
\* failures, other runs and edits of other images' files (build_image.sh:104-248).
THEOREM ImageInvariant == Spec => []ImageInv
<1>1. Init => ImageInv  BY InitGood
<1>2. ImageInv /\ [Next]_vars => ImageInv'  BY ImageStep
<1> QED  BY <1>1, <1>2, PTL DEF Spec

\* Every variable of the build keeps its type (all of build_image.sh).
THEOREM TypeCorrect == Spec => []TypeOK
<1>1. ImageInv => TypeOK  BY DEF ImageInv
<1> QED  BY <1>1, ImageInvariant, PTL

\* An image tagged with the checksum of a source was built from it, when no file of it
\* was edited between the checksum and the upload: no run skips the build of a source
\* that is not in the image (build_image.sh:107-168).
THEOREM TagsNeverLie == Spec => []TagNeverLies
<1>1. ImageInv => TagNeverLies  BY DEF ImageInv, Good, TagTrue, TagNeverLies
<1> QED  BY <1>1, ImageInvariant, PTL

\* A run that ends without an error, with the whole md5sum.txt to itself and with its
\* files left as they were, leaves a version in the gallery that is built from them,
\* unless it relies on the tag of a mixed image (build_image.sh:212-248).
THEOREM AlwaysPublished == Spec => Published
<1> DEFINE Current == \A i \in Images: last[i] = "running" /\ last'[i] = "ok"
                                         /\ alone[i] /\ steady[i] /\ ~mixed[i]
                                         => newest'[i] = Source(i)
<1>1. ImageInv /\ [Next]_vars => Current
  <2> SUFFICES ASSUME ImageInv, [Next]_vars, NEW i \in Images,
                      last[i] = "running", last'[i] = "ok", alone[i], steady[i], ~mixed[i]
               PROVE  newest'[i] = Source(i)
    OBVIOUS
  <2>1. Good(i) /\ TypeOK /\ Source(i) \in Sources  BY SourceType DEF ImageInv
  <2>2. /\ pc[i] \in {"look", "version", "disk"} /\ newest' = newest
        /\ pc[i] = "look" => version[i]
    <3>1. ASSUME NEW f \in Edited, EditFile(f) PROVE FALSE
      BY <3>1 DEF EditFile
    <3>2. ASSUME NEW k \in Images, Fails(k) PROVE FALSE
      <4>1. last' = [last EXCEPT ![k] = "failed"]  BY <3>2 DEF Fails, Ends
      <4> QED  BY <4>1 DEF ImageInv, TypeOK
    <3>3. ASSUME NEW k \in Images, NEW f, Start(k, f) PROVE FALSE
      <4>1. last' = [last EXCEPT ![k] = "running"]  BY <3>3 DEF Start
      <4> QED  BY <4>1 DEF ImageInv, TypeOK
    <3>4. ASSUME NEW k \in Images, NEW whole \in BOOLEAN,
                 \/ Find(k, whole) \/ AppendPacker(k, whole) \/ Compare(k) \/ Build(k) \/ Capture(k)
                 \/ TagChecksum(k) \/ Define(k) \/ Push(k)
          PROVE  FALSE
      BY <3>4 DEF Find, AppendPacker, Compare, Build, Capture, TagChecksum, Define, Push, GoTo
    <3>5. ASSUME NEW k \in Images, Look(k)
          PROVE  /\ pc[i] = "look" /\ newest' = newest /\ version[i]
      <4>1. k = i /\ ~(~version[i] \/ force[i])
        BY <3>5 DEF Look, GoTo, RunEnds, Ends, ImageInv, TypeOK
      <4> QED  BY <3>5, <4>1 DEF Look, azure
    <3>6. ASSUME NEW k \in Images, TagVersion(k) PROVE pc[i] = "version" /\ newest' = newest
      BY <3>6 DEF TagVersion, GoTo, RunEnds, Ends, ImageInv, TypeOK
    <3>7. ASSUME NEW k \in Images, TagDisk(k) PROVE pc[i] = "disk" /\ newest' = newest
      BY <3>7 DEF TagDisk, RunEnds, Ends, ImageInv, TypeOK, azure
    <3>8. CASE UNCHANGED vars  BY <3>8 DEF vars
    <3> QED  BY <3>1, <3>2, <3>3, <3>4, <3>5, <3>6, <3>7, <3>8 DEF Next, Step
  <2>3. newest[i] = built[i]  BY <2>1, <2>2 DEF Good, PushedIs
  <2>4. packer_md5[i] = Checksum(i, Source(i))  BY <2>1, <2>2 DEF Good, AloneSum, Summed, Tagged
  <2>5. SumOfBuilt(i) \/ checksum[i] = packer_md5[i]  BY <2>1, <2>2 DEF Good, BuiltOrSame, Tagged
  <2>6. built[i] = Source(i)  BY <2>1, <2>4, <2>5, TagStays
  <2> QED  BY <2>2, <2>3, <2>6
<1>2. Spec => []ImageInv /\ [][Next]_vars  BY ImageInvariant, PTL DEF Spec
<1>3. ImageInv /\ [Next]_vars => [Current]_vars  BY <1>1
<1> QED  BY <1>2, <1>3, PTL DEF Published

-----------------------------------------------------------------------------
(* Nothing is done twice.                                                   *)

\* What a run that succeeded leaves, and what the next one makes of it while it is
\* neither disturbed nor given -f.  (Settled outlives neither a failure nor an edit.)
TagIsSum(i) == pc[i] \in Tagged => checksum[i] = packer_md5[i]
Fresh(i) == /\ pc[i] = "idle" => alone[i] /\ ~asked[i]
            /\ pc[i] \in {"idle", "find"} \/ settled[i] => steady[i]
UpToDate(i) ==
  settled[i] /\ alone[i] /\ ~asked[i] =>
    /\ checksum[i] = Checksum(i, Source(i)) /\ version[i]
    /\ pc[i] \in {"idle", "find", "append", "compare", "define", "look"}
    /\ pc[i] # "idle" => exists[i] /\ ~force[i]

Quiet(i) == TagIsSum(i) /\ Fresh(i) /\ UpToDate(i)
QuietInv == ImageInv /\ \A i \in Images: Quiet(i)

LEMMA InitQuiet == Init => QuietInv
<1> SUFFICES ASSUME Init PROVE QuietInv  OBVIOUS
<1>1. ASSUME NEW i \in Images PROVE Quiet(i)
  <2>1. /\ pc[i] = "idle" /\ alone[i] = TRUE /\ asked[i] = FALSE /\ settled[i] = FALSE
        /\ steady[i] = TRUE
    BY DEF Init, AllAre
  <2> QED  BY <2>1 DEF Quiet, TagIsSum, Fresh, UpToDate, Tagged
<1> QED  BY <1>1, InitGood DEF QuietInv

\* A step that leaves the run and the image alone; others may disturb the run.
SameRun(i) ==
  /\ pc'[i] = pc[i] /\ packer_md5'[i] = packer_md5[i] /\ checksum'[i] = checksum[i]
  /\ version'[i] = version[i] /\ exists'[i] = exists[i] /\ force'[i] = force[i]
  /\ asked'[i] = asked[i]

LEMMA SameQuiet ==
  ASSUME NEW i \in Images, Quiet(i), SameRun(i), UNCHANGED content,
         steady'[i] = steady[i], settled'[i] = settled[i],
         alone'[i] => alone[i], pc[i] = "idle" /\ alone[i] => alone'[i]
  PROVE  Quiet(i)'
<1>1. TagIsSum(i)' /\ Fresh(i)'  BY DEF Quiet, SameRun, TagIsSum, Fresh
<1>2. Source(i)' = Source(i)  BY SameSource
<1>3. UpToDate(i)'  BY <1>2 DEF Quiet, SameRun, UpToDate, Checksum
<1> QED  BY <1>1, <1>3 DEF Quiet

\* The end of a run that leaves the checksum and the version on the image.
LEMMA RunEndsQuiet ==
  ASSUME QuietInv, NEW i \in Images, NEW k \in Images, RunEnds(i), pc[i] \in Tagged,
         UNCHANGED content,
         checksum'[i] = packer_md5[i], version'[i] = TRUE,
         k # i => checksum'[k] = checksum[k] /\ version'[k] = version[k]
  PROVE  Quiet(k)'
<1>1. /\ TypeOK /\ Quiet(k) /\ Good(k) /\ Ends(i, "ok")
      /\ settled' = [settled EXCEPT ![i] = alone[i] /\ steady[i]]
  BY DEF QuietInv, ImageInv, RunEnds
<1>2. CASE k = i
  <2>1. /\ pc'[k] = "idle" /\ alone'[k] = TRUE /\ asked'[k] = FALSE /\ steady'[k] = TRUE
        /\ settled'[k] = (alone[k] /\ steady[k])
    BY <1>1, <1>2 DEF Ends, TypeOK
  <2>2. alone[k] /\ steady[k] => packer_md5[k] = Checksum(k, Source(k))
    BY <1>1, <1>2 DEF Good, AloneSum, Summed
  <2>3. Checksum(k, Source(k))' = Checksum(k, Source(k))  BY SameSource DEF Checksum
  <2> QED
    BY <1>2, <2>1, <2>2, <2>3 DEF Quiet, TagIsSum, Fresh, UpToDate, Tagged
<1>3. CASE k # i
  <2>1. /\ pc'[k] = pc[k] /\ packer_md5'[k] = packer_md5[k] /\ exists'[k] = exists[k] /\ force'[k] = force[k]
        /\ asked'[k] = asked[k] /\ alone'[k] = alone[k] /\ settled'[k] = settled[k] /\ steady'[k] = steady[k]
    BY <1>1, <1>3 DEF Ends, TypeOK
  <2> QED  BY <1>1, <1>3, <2>1, SameQuiet DEF SameRun
<1> QED  BY <1>2, <1>3

LEMMA EditQuiet ==
  ASSUME QuietInv, NEW f \in Edited, NEW k \in Images, EditFile(f)
  PROVE  Quiet(k)'
<1> DEFINE its == f \in {k, DirOf[k]}
<1>1. /\ TypeOK /\ Quiet(k)
      /\ UNCHANGED <<pc, packer_md5, checksum, version, exists, force, asked, alone>>
      /\ steady'[k] = (steady[k] /\ (its => pc[k] \in {"idle", "find"}))
      /\ settled'[k] = (settled[k] /\ ~its)
  BY DEF QuietInv, ImageInv, EditFile, azure, local
<1>2. TagIsSum(k)'  BY <1>1 DEF Quiet, TagIsSum
<1>3. Fresh(k)'  BY <1>1 DEF Quiet, Fresh
<1>4. ~its => Source(k)' = Source(k)
  <2>1. PICK v \in Versions: content' = [content EXCEPT ![f] = v]  BY DEF EditFile
  <2>2. ~its => content'[k] = content[k] /\ content'[DirOf[k]] = content[DirOf[k]]
    BY <1>1, <2>1, FilesOf DEF TypeOK
  <2> QED  BY <2>2, SameSource
<1>5. UpToDate(k)'  BY <1>1, <1>4 DEF Quiet, UpToDate, Checksum
<1> QED  BY <1>2, <1>3, <1>5 DEF Quiet

LEMMA FailsQuiet ==
  ASSUME QuietInv, NEW i \in Images, NEW k \in Images, Fails(i)
  PROVE  Quiet(k)'
<1>1. /\ TypeOK /\ Quiet(k) /\ Ends(i, "failed") /\ settled' = [settled EXCEPT ![i] = FALSE]
      /\ UNCHANGED <<content, checksum, version>>
  BY DEF QuietInv, ImageInv, Fails, azure
<1>2. CASE k = i
  <2>1. /\ pc'[k] = "idle" /\ alone'[k] = TRUE /\ asked'[k] = FALSE /\ steady'[k] = TRUE
        /\ settled'[k] = FALSE
    BY <1>1, <1>2 DEF Ends, TypeOK
  <2> QED  BY <2>1 DEF Quiet, TagIsSum, Fresh, UpToDate, Tagged
<1>3. CASE k # i
  <2>1. /\ pc'[k] = pc[k] /\ packer_md5'[k] = packer_md5[k] /\ exists'[k] = exists[k] /\ force'[k] = force[k]
        /\ asked'[k] = asked[k] /\ alone'[k] = alone[k] /\ settled'[k] = settled[k] /\ steady'[k] = steady[k]
    BY <1>1, <1>3 DEF Ends, TypeOK
  <2> QED  BY <1>1, <2>1, SameQuiet DEF SameRun
<1> QED  BY <1>2, <1>3

LEMMA StartQuiet ==
  ASSUME QuietInv, NEW i \in Images, NEW k \in Images, NEW f \in BOOLEAN, Start(i, f)
  PROVE  Quiet(k)'
<1>1. /\ TypeOK /\ Quiet(k) /\ Good(k)
      /\ UNCHANGED <<content, checksum, version, packer_md5, alone, steady, settled>>
  BY DEF QuietInv, ImageInv, Start, azure
<1>2. CASE k = i
  <2>1. /\ pc[k] = "idle" /\ pc'[k] = "find" /\ exists'[k] = (built[k] # None)
        /\ force'[k] = f /\ asked'[k] = f
    BY <1>1, <1>2 DEF Start, TypeOK
  <2>2. settled[k] => checksum[k] = Checksum(k, Source(k)) /\ version[k]
    BY <1>1, <2>1 DEF Quiet, Fresh, UpToDate
  <2>3. settled[k] => built[k] # None
    BY <1>1, <2>2, SumType, SourceType DEF Good, Kept
  <2>4. Checksum(k, Source(k))' = Checksum(k, Source(k))  BY <1>1, SameSource DEF Checksum
  <2>5. TagIsSum(k)' /\ Fresh(k)'  BY <1>1, <2>1 DEF Quiet, TagIsSum, Fresh, Tagged
  <2>6. UpToDate(k)'  BY <1>1, <2>1, <2>2, <2>3, <2>4 DEF UpToDate
  <2> QED  BY <2>5, <2>6 DEF Quiet
<1>3. CASE k # i
  <2>1. pc'[k] = pc[k] /\ exists'[k] = exists[k] /\ force'[k] = force[k] /\ asked'[k] = asked[k]
    BY <1>1, <1>3 DEF Start, TypeOK
  <2> QED  BY <1>1, <2>1, SameQuiet DEF SameRun
<1> QED  BY <1>2, <1>3

LEMMA WriteQuiet ==
  ASSUME QuietInv, NEW i \in Images, NEW k \in Images, NEW whole \in BOOLEAN,
         Find(i, whole) \/ AppendPacker(i, whole)
  PROVE  Quiet(k)'
<1>1. /\ TypeOK /\ Quiet(k)
      /\ UNCHANGED <<content, checksum, version, exists, force, packer_md5, asked, steady, settled>>
  BY DEF QuietInv, ImageInv, Find, AppendPacker, azure, local
<1>2. alone'[k] = (alone[k] /\ IF k = i THEN whole ELSE pc[k] \notin {"append", "compare"})
  BY DEF Find, AppendPacker, Writes
<1>3. Source(k)' = Source(k)  BY <1>1, SameSource
<1>4. CASE k = i
  <2>1. pc[k] \in {"find", "append"} /\ pc'[k] \in {"append", "compare"}
    BY <1>1, <1>4 DEF Find, AppendPacker, GoTo, TypeOK
  <2>2. TagIsSum(k)' /\ Fresh(k)'  BY <1>1, <2>1 DEF Quiet, TagIsSum, Fresh, Tagged
  <2>3. UpToDate(k)'  BY <1>1, <1>2, <1>3, <1>4, <2>1 DEF Quiet, UpToDate, Checksum
  <2> QED  BY <2>2, <2>3 DEF Quiet
<1>5. CASE k # i
  <2>1. pc'[k] = pc[k]  BY <1>1, <1>5 DEF Find, AppendPacker, GoTo, TypeOK
  <2> QED  BY <1>1, <1>2, <1>5, <2>1, SameQuiet DEF SameRun
<1> QED  BY <1>4, <1>5

LEMMA CompareQuiet ==
  ASSUME QuietInv, NEW i \in Images, NEW k \in Images, Compare(i)
  PROVE  Quiet(k)'
<1>1. /\ TypeOK /\ Quiet(k) /\ Good(k)
      /\ UNCHANGED <<content, checksum, version, exists, alone, steady, asked, settled>>
  BY DEF QuietInv, ImageInv, Compare, azure, history
<1>2. CASE k = i
  <2>1. /\ pc[k] = "compare" /\ packer_md5'[k] = md5sum
        /\ force'[k] = (force[k] \/ (exists[k] /\ checksum[k] # md5sum))
        /\ pc'[k] = IF ~exists[k] \/ force'[k] THEN "build" ELSE "define"
    BY <1>1, <1>2 DEF Compare, GoTo, TypeOK
  <2>2. TagIsSum(k)' /\ Fresh(k)'
    <3>1. pc'[k] = "define" => exists[k] /\ ~force'[k]
      BY <2>1
    <3>2. pc'[k] = "define" => checksum[k] = md5sum
      BY <2>1, <3>1
    <3>3. pc'[k] \in {"build", "define"}
      BY <2>1
    <3> QED  BY <1>1, <2>1, <3>2, <3>3 DEF Quiet, TagIsSum, Fresh, Tagged
  <2>3. UpToDate(k)'
    <3> SUFFICES ASSUME settled'[k] /\ alone'[k] /\ ~asked'[k] PROVE UpToDate(k)'
      BY DEF UpToDate
    <3>1. checksum[k] = Checksum(k, Source(k)) /\ version[k] /\ exists[k] /\ ~force[k] /\ steady[k]
      BY <1>1, <2>1 DEF Quiet, UpToDate, Fresh
    <3>2. md5sum = checksum[k]
      BY <1>1, <2>1, <3>1 DEF Good, AloneFile
    <3>3. ~force'[k] /\ pc'[k] = "define"
      BY <2>1, <3>1, <3>2
    <3>4. Checksum(k, Source(k))' = Checksum(k, Source(k))  BY <1>1, SameSource DEF Checksum
    <3> QED  BY <1>1, <3>1, <3>3, <3>4 DEF UpToDate
  <2> QED  BY <2>2, <2>3 DEF Quiet
<1>3. CASE k # i
  <2>1. pc'[k] = pc[k] /\ packer_md5'[k] = packer_md5[k] /\ force'[k] = force[k]
    BY <1>1, <1>3 DEF Compare, GoTo, TypeOK
  <2> QED  BY <1>1, <2>1, SameQuiet DEF SameRun
<1> QED  BY <1>2, <1>3

\* The steps of a run that has no image, is given -f or finds another checksum.
LEMMA BusyQuiet ==
  ASSUME QuietInv, NEW i \in Images, NEW k \in Images,
         Build(i) \/ Capture(i) \/ TagChecksum(i) \/ Push(i)
  PROVE  Quiet(k)'
<1>1. /\ TypeOK /\ Quiet(k)
      /\ UNCHANGED <<content, exists, force, packer_md5, alone, steady, asked, settled>>
  BY DEF QuietInv, ImageInv, Build, Capture, TagChecksum, Push, local, history
<1>2. CASE k = i
  <2>1. /\ pc[k] \in {"build", "capture", "checksum", "push"}
        /\ pc'[k] \in {"capture", "checksum", "define", "version"}
    BY <1>1, <1>2 DEF Build, Capture, TagChecksum, Push, GoTo, TypeOK
  <2>2. ~(settled[k] /\ alone[k] /\ ~asked[k])
    BY <1>1, <2>1 DEF Quiet, UpToDate
  <2>3. TagIsSum(k)'
    <3>1. CASE Build(i) \/ Capture(i)
      <4>1. pc'[k] \in {"capture", "checksum"}
        BY <1>1, <1>2, <3>1 DEF Build, Capture, GoTo, TypeOK
      <4> QED  BY <4>1 DEF TagIsSum, Tagged
    <3>2. CASE TagChecksum(i)
      BY <1>1, <1>2, <3>2 DEF TagChecksum, TypeOK, TagIsSum
    <3>3. CASE Push(i)
      <4>1. pc[k] \in Tagged /\ UNCHANGED <<checksum, packer_md5>>
        BY <1>2, <3>3 DEF Push, Tagged, local
      <4> QED  BY <1>1, <4>1 DEF TagIsSum, Quiet
    <3> QED  BY <3>1, <3>2, <3>3
  <2> QED  BY <1>1, <2>1, <2>2, <2>3 DEF Quiet, Fresh, UpToDate
<1>3. CASE k # i
  <2>1. pc'[k] = pc[k] /\ checksum'[k] = checksum[k] /\ version'[k] = version[k]
    BY <1>1, <1>3 DEF Build, Capture, TagChecksum, Push, GoTo, TypeOK
  <2> QED  BY <1>1, <2>1, SameQuiet DEF SameRun
<1> QED  BY <1>2, <1>3

LEMMA DefineQuiet ==
  ASSUME QuietInv, NEW i \in Images, NEW k \in Images, Define(i)
  PROVE  Quiet(k)'
<1>1. /\ TypeOK /\ Quiet(k)
      /\ UNCHANGED <<content, checksum, version, exists, force, packer_md5, alone, steady, asked, settled>>
  BY DEF QuietInv, ImageInv, Define, local, history
<1>2. CASE k = i
  <2>1. pc[k] = "define" /\ pc'[k] = "look"
    BY <1>1, <1>2 DEF Define, GoTo, TypeOK
  <2>2. Checksum(k, Source(k))' = Checksum(k, Source(k))  BY <1>1, SameSource DEF Checksum
  <2> QED  BY <1>1, <2>1, <2>2 DEF Quiet, TagIsSum, Fresh, UpToDate, Tagged
<1>3. CASE k # i
  <2>1. pc'[k] = pc[k]  BY <1>1, <1>3 DEF Define, GoTo, TypeOK
  <2> QED  BY <1>1, <2>1, SameQuiet DEF SameRun
<1> QED  BY <1>2, <1>3

LEMMA LookQuiet ==
  ASSUME QuietInv, NEW i \in Images, NEW k \in Images, Look(i)
  PROVE  Quiet(k)'
<1>1. TypeOK /\ Quiet(k) /\ pc[i] = "look" /\ UNCHANGED <<content, checksum, version>>
  BY DEF QuietInv, ImageInv, Look, azure
<1>2. CASE ~version[i] \/ force[i]
  <2>1. GoTo(i, "push") /\ UNCHANGED <<exists, force, packer_md5, alone, steady, asked, settled>>
    BY <1>2 DEF Look, local, history
  <2>2. CASE k = i
    <3>1. pc[k] = "look" /\ pc'[k] = "push"
      BY <1>1, <2>1, <2>2 DEF GoTo, TypeOK
    <3>2. ~(settled[k] /\ alone[k] /\ ~asked[k])
      BY <1>1, <1>2, <2>2, <3>1 DEF Quiet, UpToDate
    <3> QED  BY <1>1, <2>1, <3>1, <3>2 DEF Quiet, TagIsSum, Fresh, UpToDate, Tagged
  <2>3. CASE k # i
    <3>1. pc'[k] = pc[k]  BY <1>1, <2>1, <2>3 DEF GoTo, TypeOK
    <3> QED  BY <1>1, <2>1, <3>1, SameQuiet DEF SameRun
  <2> QED  BY <2>2, <2>3
<1>3. CASE ~(~version[i] \/ force[i])
  <2>1. RunEnds(i)  BY <1>3 DEF Look
  <2>2. version[i] = TRUE  BY <1>1, <1>3 DEF TypeOK
  <2>3. checksum[i] = packer_md5[i]
    BY <1>1 DEF QuietInv, Quiet, TagIsSum, Tagged
  <2>4. pc[i] \in Tagged  BY <1>1 DEF Tagged
  <2> QED  BY <1>1, <2>1, <2>2, <2>3, <2>4, RunEndsQuiet
<1> QED  BY <1>2, <1>3

LEMMA TagVersionQuiet ==
  ASSUME QuietInv, NEW i \in Images, NEW k \in Images, TagVersion(i)
  PROVE  Quiet(k)'
<1>1. /\ TypeOK /\ Quiet(k) /\ Quiet(i) /\ pc[i] = "version" /\ UNCHANGED content
      /\ version' = [version EXCEPT ![i] = TRUE] /\ checksum' = [checksum EXCEPT ![i] = packer_md5[i]]
  BY DEF QuietInv, ImageInv, TagVersion
<1>2. checksum'[i] = packer_md5[i] /\ version'[i] = TRUE
  BY <1>1 DEF TypeOK
<1>3. k # i => checksum'[k] = checksum[k] /\ version'[k] = version[k]
  BY <1>1 DEF TypeOK
<1>4. pc[i] \in Tagged  BY <1>1 DEF Tagged
<1>5. CASE RunEnds(i)  BY <1>1, <1>2, <1>3, <1>4, <1>5, RunEndsQuiet
<1>6. CASE GoTo(i, "disk") /\ UNCHANGED <<local, history>>
  <2>1. UNCHANGED <<exists, force, packer_md5, alone, steady, asked, settled>>
    BY <1>6 DEF local, history
  <2>2. CASE k = i
    <3>1. pc'[k] = "disk"  BY <1>1, <1>6, <2>2 DEF GoTo, TypeOK
    <3>2. ~(settled[k] /\ alone[k] /\ ~asked[k])  BY <1>1, <2>2 DEF Quiet, UpToDate
    <3> QED  BY <1>1, <1>2, <2>1, <2>2, <3>1, <3>2 DEF Quiet, TagIsSum, Fresh, UpToDate
  <2>3. CASE k # i
    <3>1. pc'[k] = pc[k]  BY <1>1, <1>6, <2>3 DEF GoTo, TypeOK
    <3> QED  BY <1>1, <1>3, <2>1, <2>3, <3>1, SameQuiet DEF SameRun
  <2> QED  BY <2>2, <2>3
<1> QED  BY <1>5, <1>6 DEF TagVersion

LEMMA TagDiskQuiet ==
  ASSUME QuietInv, NEW i \in Images, NEW k \in Images, TagDisk(i)
  PROVE  Quiet(k)'
<1>1. /\ TypeOK /\ pc[i] = "disk" /\ RunEnds(i) /\ UNCHANGED <<content, checksum, version>>
      /\ Quiet(i) /\ Good(i)
  BY DEF QuietInv, ImageInv, TagDisk, azure
<1>2. checksum[i] = packer_md5[i] /\ pc[i] \in Tagged  BY <1>1 DEF Quiet, TagIsSum, Tagged
<1>3. version[i] = TRUE  BY <1>1 DEF TypeOK, Good, BuiltOrSame
<1> QED  BY <1>1, <1>2, <1>3, RunEndsQuiet

LEMMA QuietStep == QuietInv /\ [Next]_vars => QuietInv'
<1> SUFFICES ASSUME QuietInv, [Next]_vars PROVE QuietInv'
  OBVIOUS
<1>1. ImageInv'  BY ImageStep DEF QuietInv
<1>2. ASSUME NEW k \in Images PROVE Quiet(k)'
  <2>1. CASE UNCHANGED vars
    BY <2>1, SameQuiet DEF QuietInv, SameRun, vars, azure, local, history
  <2>2. ASSUME NEW f \in Edited, EditFile(f) PROVE Quiet(k)'
    BY <2>2, EditQuiet
  <2>3. ASSUME NEW i \in Images,
               Fails(i) \/ (\E f \in BOOLEAN: Start(i, f)) \/ Find(i, FALSE) \/ AppendPacker(i, FALSE)
        PROVE  Quiet(k)'
    BY <2>3, FailsQuiet, StartQuiet, WriteQuiet
  <2>4. ASSUME NEW i \in Images, Step(i) PROVE Quiet(k)'
    BY <2>4, WriteQuiet, CompareQuiet, BusyQuiet, DefineQuiet, LookQuiet, TagVersionQuiet,
       TagDiskQuiet DEF Step
  <2> QED  BY <2>1, <2>2, <2>3, <2>4 DEF Next
<1> QED  BY <1>1, <1>2 DEF QuietInv

\* After a run that succeeded alone nothing is built or pushed until a file of the image
\* changes, a run fails, is disturbed or is given -f: "Image exists, skipping"
\* (build_image.sh:114-127), from the tags to the checksum and back, for all images.
THEOREM AlwaysOnce == Spec => NothingTwice
<1> DEFINE Once == \A i \in Images: settled[i] /\ alone[i] /\ ~asked[i] => ~Build(i) /\ ~Push(i)
<1>1. QuietInv => Once
  BY DEF QuietInv, Quiet, UpToDate, Build, Push
<1>2. Init => QuietInv  BY InitQuiet
<1>3. QuietInv /\ [Next]_vars => QuietInv'  BY QuietStep
<1>4. Spec => []QuietInv  BY <1>2, <1>3, PTL DEF Spec
<1>5. QuietInv => [Once]_vars  BY <1>1
<1> QED  BY <1>4, <1>5, PTL DEF NothingTwice
=============================================================================
