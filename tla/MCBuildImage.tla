---------------------------- MODULE MCBuildImage ----------------------------
(* Instances of BuildImage for TLC: all images are of one operating system. *)
EXTENDS BuildImage

OneDir == [i \in Images |-> CHOOSE d \in Dirs: TRUE]
=============================================================================
