----------------------------- MODULE FileSystem -----------------------------
(***************************************************************************)
(* Documents from the file system (-S fs: fs.c): directories are read      *)
(* recursively, their files in the order of names first, then their        *)
(* directories.  Files and directories are recognised by device and inode, *)
(* so that symbolic links and hard links neither loop nor repeat.          *)
(*                                                                         *)
(* The rules are abstracted to sets of names; dirname and filename rules   *)
(* look at the name a file or directory was reached by.  Files may         *)
(* disappear while the directories are read.                               *)
(***************************************************************************)
EXTENDS Naturals, Sequences, SequencesExt, FiniteSets

CONSTANTS
  Inodes,       \* inodes
  Trees,        \* file systems: see below
  NoName        \* name of the directory given in IndexDir

(* The names in a directory are distinct, and the one given is not refused *)
(* by its name.  It is inode 1.                                            *)
ASSUME TreesAssumption ==
  \A t \in Trees :
    /\ IsFiniteSet(t.dirs) /\ t.dirs \subseteq Inodes /\ 1 \in t.dirs
    /\ NoName \notin t.dirRules
    /\ \A d \in t.dirs :
         /\ IsFiniteSet(t.entries[d])
         /\ \A e \in t.entries[d] : e.name \in Nat /\ e.node \in Inodes
         /\ \A e, f \in t.entries[d] : e.name = f.name => e = f

VARIABLES
  tree,      \* what the file system and the configuration are
  todo,      \* files and directories still to be visited, first one first
  seen,      \* inode_hash
  there,     \* inodes that have not disappeared
  indexed    \* inodes do_index_file has read, in order

fsVars == <<tree, todo, seen, there, indexed>>

(* A tree is [dirs, entries, follow, dirRules, fileRules, fileMatch,       *)
(* suffixes, containsRules, containsMatch]: its directories; for each the  *)
(* set of its entries [name, node, link]; FollowSymLinks; and the names    *)
(* that FileRules dirname and filename, FileMatch filename, IndexOnly, and *)
(* FileRules and FileMatch directory are about.                            *)
IsDirectory(node) == node \in tree.dirs
Followed(e) == tree.follow \/ ~e.link
Names(dir) == {e.name : e \in tree.entries[dir]}

FsInit ==
  /\ tree \in Trees
  /\ todo = <<[name |-> NoName, node |-> 1, link |-> FALSE]>>
  /\ seen = {} /\ there = Inodes /\ indexed = <<>>

(* The tests on a file of a directory; allgood if FileMatch directory      *)
(* accepts all of them.  The name alone is looked at.                      *)
Wanted(e, allgood) ==
  \/ allgood \/ e.name \in tree.fileMatch
  \/ e.name \in tree.suffixes /\ e.name \notin tree.fileRules

(* What reading a directory adds: its files and then its directories, in   *)
(* the order of names.                                                     *)
Sorted(S) ==
  CHOOSE s \in SetToSeqs(S) : \A i, j \in DOMAIN s : i < j => s[i].name < s[j].name
FilesOf(dir, allgood) ==
  {e \in tree.entries[dir] :
     /\ Followed(e) /\ e.node \in there /\ ~IsDirectory(e.node)
     /\ Wanted(e, allgood)}
DirsOf(dir) ==
  {e \in tree.entries[dir] :
     Followed(e) /\ e.node \in there /\ IsDirectory(e.node)}

(* FileRules and FileMatch directory: the entries are read in any order    *)
(* and the first that matches either decides.                              *)
Verdicts(dir) ==
  LET rules == Names(dir) \cap tree.containsRules
      match == Names(dir) \cap tree.containsMatch
  IN  (IF rules # {} THEN {"reject"} ELSE {})
        \cup (IF match # {} THEN {"allgood"} ELSE {})
        \cup (IF rules = {} /\ match = {} THEN {"neither"} ELSE {})

(* Slip: a directory is marked before its name is looked at.               *)
EnteredMarkedFirst(e) ==
  [marked |-> {e.node},
   entered |-> e.name \notin tree.dirRules /\ e.node \notin seen]

(* indexadir's tests on a directory: one refused for its name is not       *)
(* marked, and may be entered by another.                                  *)
Entered(e) ==
  LET entered == e.name \notin tree.dirRules /\ e.node \notin seen
  IN  [marked |-> IF entered THEN {e.node} ELSE {}, entered |-> entered]

(* indexadir.                                                              *)
IndexADir ==
  /\ todo # <<>> /\ IsDirectory(Head(todo).node)
  /\ LET e == Head(todo)
     IN  /\ seen' = seen \cup Entered(e).marked
         /\ IF ~Entered(e).entered THEN todo' = Tail(todo)
            ELSE \E test \in Verdicts(e.node) :
                   todo' = (IF test = "reject" THEN <<>>
                            ELSE Sorted(FilesOf(e.node, test = "allgood"))
                                   \o Sorted(DirsOf(e.node))) \o Tail(todo)
  /\ UNCHANGED <<tree, there, indexed>>

(* fs_already_indexed makes a new entry.                                   *)
FileMarked(node) == seen \cup {node}

(* printfile and do_index_file, which finds that a file has gone only when *)
(* it opens it.                                                            *)
PrintFile ==
  /\ todo # <<>> /\ ~IsDirectory(Head(todo).node)
  /\ todo' = Tail(todo)
  /\ LET node == Head(todo).node
     IN  IF node \in seen \/ node \notin there THEN UNCHANGED <<seen, indexed>>
         ELSE /\ seen' = FileMarked(node)
              /\ indexed' = Append(indexed, node)
  /\ UNCHANGED <<tree, there>>

(* Somebody removes a file.                                                *)
Disappear ==
  /\ todo # <<>>
  /\ \E node \in there \ tree.dirs : there' = there \ {node}
  /\ UNCHANGED <<tree, todo, seen, indexed>>

FsNext == IndexADir \/ PrintFile \/ Disappear

FsDone == todo = <<>>

-----------------------------------------------------------------------------
(* Properties.                                                             *)

(* The directories to be entered: from the one given, by all names that no *)
(* dirname rule refuses.                                                   *)
Reached ==
  LET further(D) ==
        D \cup {e.node : e \in {f \in UNION {tree.entries[d] :
                                   d \in {c \in D : Verdicts(c) # {"reject"}}} :
                                  /\ Followed(f) /\ IsDirectory(f.node)
                                  /\ f.name \notin tree.dirRules}}
      reached[n \in 0..Cardinality(tree.dirs)] ==
        IF n = 0 THEN {1} ELSE LET D == reached[n - 1] IN further(D)
  IN  reached[Cardinality(tree.dirs)]

(* Where rules and match of one directory contradict each other, the order *)
(* in which the file system lists the directory decides.                   *)
Unambiguous == \A d \in tree.dirs : Cardinality(Verdicts(d)) = 1

AskedFor(d) ==
  {e.node : e \in {f \in tree.entries[d] :
                     /\ Verdicts(d) # {"reject"}
                     /\ Followed(f) /\ ~IsDirectory(f.node)
                     /\ Wanted(f, Verdicts(d) = {"allgood"})}}

(* No file is indexed twice, though links lead to it, or to its directory, *)
(* from several places and in circles; and when all directories are read,  *)
(* every file that is in some directory to be entered under a name the     *)
(* rules accept has been indexed, by whichever of several links it and the *)
(* directory were reached first, unless it disappeared.                    *)
EveryFileOnce ==
  /\ IsInjective(indexed)
  /\ FsDone /\ Unambiguous =>
       (UNION {AskedFor(d) : d \in Reached}) \cap there \subseteq ToSet(indexed)
=============================================================================
