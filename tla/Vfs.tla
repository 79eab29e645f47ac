-------------------------------- MODULE Vfs ---------------------------------
(***************************************************************************)
(* The tree of src/kernel/vfs.cpp, its paths, and what the shell's `cd`    *)
(* makes of one.  vfs_init builds the tree and nothing changes it.         *)
(*                                                                         *)
(* No two nodes have one name, so a node is its name.  A path is a         *)
(* sequence of names and slashes, with a slash between any two names.  The *)
(* buffers paths are built in (80 to 160 bytes, 16 levels) hold every path *)
(* of this tree.                                                           *)
(***************************************************************************)
EXTENDS Naturals, Sequences, SequencesExt

Null == "null"
Root == "/"
InHome == {"welcome.txt", "notes.txt", "demo.sh"}
InDocs == {"about.md", "track-roadmap.txt"}
InBin  == {"hello", "elf-hello", "echo", "cat", "clear", "uptime", "meminfo"}

Dirs  == {Root, "home", "docs", "bin"}
Texts == InHome \union InDocs
Nodes == Dirs \union Texts \union InBin

Parent(n) == IF n = Root THEN Null
             ELSE IF n \in InHome THEN "home"
             ELSE IF n \in InDocs THEN "docs"
             ELSE IF n \in InBin THEN "bin"
             ELSE Root

-----------------------------------------------------------------------------

(***************************************************************************)
(* The components vfs_lookup reads, behind the first slash: it skips one   *)
(* slash after each, so that a second one is an empty component, and one   *)
(* at the end is nothing.                                                  *)
(***************************************************************************)
Empty == ""
Components(path) ==
  LET comps[i \in 2..(Len(path) + 2)] ==
        IF i > Len(path) THEN <<>>
        ELSE IF path[i] = "/" THEN <<Empty>> \o comps[i + 1]
        ELSE <<path[i]>> \o comps[i + 2]
  IN  comps[2]

\* The child of n with that name; there is none of Null or of a file.
Child(n, name) == IF name \in Nodes /\ Parent(name) = n THEN name ELSE Null

\* vfs_lookup
Lookup(path) == IF path = <<>> \/ path[1] # "/" THEN Null
                ELSE FoldLeft(Child, Root, Components(path))

\* vfs_path_of: parents are collected up to the root and written back.
PathOf(n) ==
  LET path[m \in Nodes] ==
        IF m = Root THEN <<>> ELSE path[Parent(m)] \o <<"/", m>>
  IN  IF n = Root THEN <<"/">> ELSE path[n]

-----------------------------------------------------------------------------

\* A relative path behind the path of dir
Joined(dir, path) == PathOf(dir) \o (IF dir = Root THEN <<>> ELSE <<"/">>) \o path

\* What is behind ".." is ignored, and above the root there is nothing.
Upwards(path) == path[1] = ".." /\ (Len(path) = 1 \/ path[2] = "/")

\* A cmd_cd that takes whatever the path leads to
CdAnywhere(cwd, path) ==
  IF path \in {<<>>, <<"/">>} THEN Root
  ELSE IF Upwards(path) THEN (IF cwd = Root THEN Root ELSE Parent(cwd))
  ELSE LET target == Lookup(IF path[1] = "/" THEN path ELSE Joined(cwd, path))
       IN  IF target = Null THEN cwd ELSE target

\* cmd_cd: the directory it leaves the shell in
Cd(cwd, path) ==
  IF path \in {<<>>, <<"/">>} THEN Root
  ELSE IF Upwards(path) THEN (IF cwd = Root THEN Root ELSE Parent(cwd))
  ELSE LET target == Lookup(IF path[1] = "/" THEN path ELSE Joined(cwd, path))
       IN  IF target \in Dirs THEN target ELSE cwd
=============================================================================
