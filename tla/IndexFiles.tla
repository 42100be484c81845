------------------------------ MODULE IndexFiles ------------------------------
(***************************************************************************)
(* The life of an index on disk (db_native.c, swish.c, swish2.c).          *)
(*                                                                         *)
(* An index is a main file and one or more companion files.  An indexer    *)
(* writes all of them under a ".temp" name, stamps each with the build's   *)
(* unique_ID (a time in seconds), and renames them one at a time.          *)
(* Searchers, other processes, open the published names one at a time and  *)
(* then compare the stamps.  There is no lock and no journal.  The         *)
(* incremental format can also be opened read-write and changed in place.  *)
(*                                                                         *)
(* A file's content is the number of the build that wrote it; 0 stands     *)
(* for a file that does not exist.  An open handle keeps the content it    *)
(* was opened on, whatever is renamed over the name later; but it sees     *)
(* what is changed in place, all but the main file's offsets, root and     *)
(* header, which it has read into memory.                                  *)
(***************************************************************************)
EXTENDS Naturals, Sequences

CONSTANTS
  Readers,     \* the searching processes
  UseBtree,    \* built with --enable-incremental (USE_BTREE)
  OneBuildPerSecond, \* the clock ticks between the starts of two builds
  MaxBuilds,   \* bound: builds begun
  MaxClock,    \* bound: seconds that pass
  MaxUpdates   \* bound: in-place update sessions (incremental format only)

ASSUME ConstantsAssumption ==
  /\ UseBtree \in BOOLEAN
  /\ OneBuildPerSecond \in BOOLEAN
  /\ MaxBuilds \in Nat /\ MaxClock \in Nat /\ MaxUpdates \in Nat
  /\ ~UseBtree => MaxUpdates = 0

(* The order in which DB_Create_Native creates the files.                  *)
CreateOrder ==
  IF UseBtree
  THEN <<"index", "prop", "btree", "wdata", "array", "psort", "file">>
  ELSE <<"index", "prop">>

(* The order in which DB_Open_Native opens them.                           *)
OpenOrder ==
  IF UseBtree
  THEN <<"index", "prop", "btree", "psort", "wdata", "file", "array">>
  ELSE <<"index", "prop">>

(* Slip: the main file is renamed before its companions.                   *)
PublishOrderMainFirst ==
  IF UseBtree
  THEN <<"index", "wdata", "btree", "prop", "array", "psort", "file">>
  ELSE <<"index", "prop">>

(* The order in which DB_EndWriteWords_Native (wdata and btree) and then   *)
(* DB_Close_Native close and rename them; the main file is last.           *)
PublishOrder ==
  IF UseBtree
  THEN <<"wdata", "btree", "prop", "array", "psort", "file", "index">>
  ELSE <<"prop", "index">>

Files == {OpenOrder[i] : i \in 1..Len(OpenOrder)}

VARIABLES
  clock,    \* time(NULL)
  builds,   \* number of builds begun
  stamp,    \* stamp[b]: unique_ID in the headers of build b's files
  temp,     \* temp[f]: content of f's ".temp" name
  disk,     \* disk[f]: content of f's published name
  ver,      \* ver[f][b]: last in-place update applied to file f of build b
  updates,  \* number of update sessions begun
  cut,      \* the builds an update session of which was cut short
  wpc,      \* what the indexer is doing
  wpos,     \* its place in CreateOrder or PublishOrder
  rpc,      \* rpc[r]: what searcher r is doing with its handle
  rpos,     \* rpos[r]: its place in OpenOrder
  handle,   \* handle[r][f]: content of the file it opened as f, 0 before
  quiet,    \* quiet[r]: it began on a whole index, and no rename since
  read,     \* read[r]: the version of the main file its handle has in memory
  settled   \* settled[r]: its main file's index was whole and in nobody's
            \* hands when opened, and no session has begun on it since

writerVars == <<builds, stamp, temp, disk, ver, updates, cut, wpc, wpos>>
readerVars == <<rpc, rpos, handle, quiet, read, settled>>
vars == <<clock, writerVars, readerVars>>

Builds == 1..MaxBuilds
NoFiles == [f \in Files |-> 0]

TypeOK ==
  /\ clock \in 0..MaxClock
  /\ builds \in 0..MaxBuilds
  /\ stamp \in [Builds -> 0..MaxClock]
  /\ temp \in [Files -> 0..MaxBuilds]
  /\ disk \in [Files -> 0..MaxBuilds]
  /\ ver \in [Files -> [Builds -> 0..MaxUpdates]]
  /\ updates \in 0..MaxUpdates
  /\ cut \subseteq 0..MaxBuilds
  /\ wpc \in {"idle", "create", "write", "publish", "update", "close"}
  /\ wpos \in 1..Len(OpenOrder)
  /\ rpc \in [Readers -> {"closed", "opening", "open", "refused"}]
  /\ rpos \in [Readers -> 1..(Len(OpenOrder) + 1)]
  /\ handle \in [Readers -> [Files -> 0..MaxBuilds]]
  /\ quiet \in [Readers -> BOOLEAN]
  /\ read \in [Readers -> 0..MaxUpdates]
  /\ settled \in [Readers -> BOOLEAN]

Init ==
  /\ clock = 0
  /\ builds = 0
  /\ stamp = [b \in Builds |-> 0]
  /\ temp = NoFiles
  /\ disk = NoFiles
  /\ ver = [f \in Files |-> [b \in Builds |-> 0]]
  /\ updates = 0
  /\ cut = {}
  /\ wpc = "idle"
  /\ wpos = 1
  /\ rpc = [r \in Readers |-> "closed"]
  /\ rpos = [r \in Readers |-> 1]
  /\ handle = [r \in Readers |-> NoFiles]
  /\ quiet = [r \in Readers |-> FALSE]
  /\ read = [r \in Readers |-> 0]
  /\ settled = [r \in Readers |-> FALSE]

(* Slip: one of the companion files is left out of the comparison.         *)
RelatedButOne(h) ==
  LET f0 == IF UseBtree THEN "array" ELSE "prop"
  IN  \A f \in Files \ {f0} : stamp[h[f]] = stamp[h["index"]]

(***************************************************************************)
(* DB_CheckHeader: every companion file carries the main file's unique_ID. *)
(***************************************************************************)
Related(h) == \A f \in Files : stamp[h[f]] = stamp[h["index"]]

(* Every published name exists and holds a file of one build.              *)
Whole(d) == d["index"] # 0 /\ \A f \in Files : d[f] = d["index"]

(* An index is being changed in place.                                     *)
InSession == wpc \in {"update", "close"}

Tick ==
  /\ clock < MaxClock
  /\ clock' = clock + 1
  /\ UNCHANGED <<writerVars, readerVars>>

(***************************************************************************)
(* The indexer.                                                            *)
(***************************************************************************)
(* DB_Create_Native takes time(NULL) as the build's unique_ID.             *)
BeginBuild ==
  /\ wpc = "idle"
  /\ builds < MaxBuilds
  /\ OneBuildPerSecond /\ builds > 0 => clock > stamp[builds]
  /\ builds' = builds + 1
  /\ stamp' = [stamp EXCEPT ![builds + 1] = clock]
  /\ wpc' = "create"
  /\ wpos' = 1
  /\ UNCHANGED <<clock, temp, disk, ver, updates, cut, readerVars>>

(* Slip: the file is created under its published name.                     *)
CreateFileInPlace ==
  /\ wpc = "create"
  /\ temp' = [temp EXCEPT ![CreateOrder[wpos]] = builds]
  /\ disk' = [disk EXCEPT ![CreateOrder[wpos]] = builds]
  /\ IF wpos = Len(CreateOrder)
     THEN wpc' = "write" /\ wpos' = wpos
     ELSE wpc' = wpc /\ wpos' = wpos + 1
  /\ UNCHANGED <<clock, builds, stamp, ver, updates, cut, readerVars>>

(* CreateEmptyFile truncates whatever an interrupted build left there.     *)
CreateFile ==
  /\ wpc = "create"
  /\ temp' = [temp EXCEPT ![CreateOrder[wpos]] = builds]
  /\ IF wpos = Len(CreateOrder)
     THEN wpc' = "write" /\ wpos' = wpos
     ELSE wpc' = wpc /\ wpos' = wpos + 1
  /\ UNCHANGED <<clock, builds, stamp, disk, ver, updates, cut, readerVars>>

(* cmd_index and write_index_file: documents, header, words, properties.   *)
WriteIndex ==
  /\ wpc = "write"
  /\ wpc' = "publish"
  /\ wpos' = 1
  /\ UNCHANGED <<clock, builds, stamp, temp, disk, ver, updates, cut, readerVars>>

(* A rename makes every open now under way a contended one (quiet).        *)
Disturb ==
  /\ quiet' = [r \in Readers |-> FALSE]
  /\ UNCHANGED <<rpc, rpos, handle, read, settled>>

(* Slip: the loop over the files runs one step too far.                    *)
PublishFileOneMore ==
  /\ wpc = "publish"
  /\ LET f == PublishOrder[wpos]
     IN  /\ disk' = [disk EXCEPT ![f] = temp[f]]
         /\ temp' = [temp EXCEPT ![f] = 0]
  /\ wpos' = wpos + 1
  /\ wpc' = IF wpos = Len(PublishOrder) THEN "idle" ELSE wpc
  /\ Disturb
  /\ UNCHANGED <<clock, builds, stamp, ver, updates, cut>>

(* Slip: a rename waits until no searcher has the old file open.           *)
PublishFileWaiting ==
  /\ wpc = "publish"
  /\ \A r \in Readers : rpc[r] = "closed"
  /\ LET f == PublishOrder[wpos]
     IN  /\ disk' = [disk EXCEPT ![f] = temp[f]]
         /\ temp' = [temp EXCEPT ![f] = 0]
  /\ IF wpos = Len(PublishOrder)
     THEN wpc' = "idle" /\ wpos' = wpos
     ELSE wpc' = wpc /\ wpos' = wpos + 1
  /\ Disturb
  /\ UNCHANGED <<clock, builds, stamp, ver, updates, cut>>

(* DB_Close_File_Native: close the file and rename it over the old one.    *)
PublishFile ==
  /\ wpc = "publish"
  /\ LET f == PublishOrder[wpos]
     IN  /\ disk' = [disk EXCEPT ![f] = temp[f]]
         /\ temp' = [temp EXCEPT ![f] = 0]
  /\ IF wpos = Len(PublishOrder)
     THEN wpc' = "idle" /\ wpos' = wpos
     ELSE wpc' = wpc /\ wpos' = wpos + 1
  /\ Disturb
  /\ UNCHANGED <<clock, builds, stamp, ver, updates, cut>>

(* The process dies, or stops in progerr: nothing is cleaned up.           *)
Crash ==
  /\ wpc # "idle"
  /\ wpc' = "idle"
  /\ cut' = IF InSession THEN cut \cup {disk["index"]} ELSE cut
  /\ UNCHANGED <<clock, builds, stamp, temp, disk, ver, updates, wpos, readerVars>>

(* open_single_index with DB_READWRITE: the published files, checked like  *)
(* a searcher's, are opened to be changed in place.                        *)
OpenForUpdate ==
  /\ wpc = "idle"
  /\ updates < MaxUpdates
  /\ \A f \in Files : disk[f] # 0
  /\ Related(disk)
  /\ updates' = updates + 1
  /\ wpc' = "update"
  /\ settled' = [r \in Readers |->
                   settled[r] /\ handle[r]["index"] # disk["index"]]
  /\ UNCHANGED <<clock, builds, stamp, temp, disk, ver, cut, wpos,
                 rpc, rpos, handle, quiet, read>>

(* Some of the session's changes reach a file: pages that leave a cache,   *)
(* properties, the header, which is written over the old one.              *)
UpdateFile ==
  /\ InSession
  /\ \E f \in Files :
       /\ ver[f][disk[f]] # updates
       /\ ver' = [ver EXCEPT ![f][disk[f]] = updates]
  /\ UNCHANGED <<clock, builds, stamp, temp, disk, updates, cut, wpc, wpos, readerVars>>

(* All documents are done; the words are the first to be written out.      *)
EndUpdate ==
  /\ wpc = "update"
  /\ wpc' = "close"
  /\ wpos' = 1
  /\ UNCHANGED <<clock, builds, stamp, temp, disk, ver, updates, cut, readerVars>>

(* Slip: the offsets are written back for a new index only.                *)
CloseFileNotMain ==
  /\ wpc = "close"
  /\ LET f == PublishOrder[wpos]
     IN  ver' = IF f = "index" THEN ver ELSE [ver EXCEPT ![f][disk[f]] = updates]
  /\ IF wpos = Len(PublishOrder)
     THEN wpc' = "idle" /\ wpos' = wpos
     ELSE wpc' = wpc /\ wpos' = wpos + 1
  /\ UNCHANGED <<clock, builds, stamp, temp, disk, updates, cut, readerVars>>

(* DB_EndWriteWords_Native and DB_Close_Native of a DB_READWRITE handle:   *)
(* file by file, what is still in memory is written, and last the offsets  *)
(* in the main file; nothing is renamed.                                   *)
CloseFile ==
  /\ wpc = "close"
  /\ LET f == PublishOrder[wpos]
     IN  ver' = [ver EXCEPT ![f][disk[f]] = updates]
  /\ IF wpos = Len(PublishOrder)
     THEN wpc' = "idle" /\ wpos' = wpos
     ELSE wpc' = wpc /\ wpos' = wpos + 1
  /\ UNCHANGED <<clock, builds, stamp, temp, disk, updates, cut, readerVars>>

(***************************************************************************)
(* A searcher (SwishInit, SwishAttach, DB_Open_Native, SwishClose).        *)
(***************************************************************************)
StartOpen(r) ==
  /\ rpc[r] = "closed"
  /\ rpc' = [rpc EXCEPT ![r] = "opening"]
  /\ quiet' = [quiet EXCEPT ![r] = Whole(disk)]
  /\ UNCHANGED <<clock, writerVars, rpos, handle, read, settled>>

OpenFile(r) ==
  /\ rpc[r] = "opening"
  /\ rpos[r] <= Len(OpenOrder)
  /\ LET f == OpenOrder[rpos[r]]
     IN  \/ /\ disk[f] = 0
            /\ rpc' = [rpc EXCEPT ![r] = "refused"]
            /\ UNCHANGED <<rpos, handle, settled>>
         \/ /\ disk[f] # 0
            /\ handle' = [handle EXCEPT ![r][f] = disk[f]]
            /\ rpos' = [rpos EXCEPT ![r] = @ + 1]
            /\ settled' = IF f = "index"
                          THEN [settled EXCEPT ![r] = ~InSession /\ disk[f] \notin cut]
                          ELSE settled
            /\ UNCHANGED rpc
  /\ UNCHANGED <<clock, writerVars, quiet, read>>

(* Once accepted, the handle reads the offsets, the roots of the B-tree    *)
(* and the arrays, the header and the metanames: all of the main file that *)
(* it will ever look at but the words of the two-file format.              *)
CheckHeader(r) ==
  /\ rpc[r] = "opening"
  /\ rpos[r] > Len(OpenOrder)
  /\ rpc' = [rpc EXCEPT ![r] = IF Related(handle[r]) THEN "open"
                                                     ELSE "refused"]
  /\ read' = IF Related(handle[r])
             THEN [read EXCEPT ![r] = ver["index"][handle[r]["index"]]] ELSE read
  /\ UNCHANGED <<clock, writerVars, rpos, handle, quiet, settled>>

(* free_index closes whatever was opened, also after a refusal.            *)
Close(r) ==
  /\ rpc[r] \in {"open", "refused"}
  /\ rpc' = [rpc EXCEPT ![r] = "closed"]
  /\ rpos' = [rpos EXCEPT ![r] = 1]
  /\ handle' = [handle EXCEPT ![r] = NoFiles]
  /\ quiet' = [quiet EXCEPT ![r] = FALSE]
  /\ read' = [read EXCEPT ![r] = 0]
  /\ settled' = [settled EXCEPT ![r] = FALSE]
  /\ UNCHANGED <<clock, writerVars>>

WriterNext ==
  \/ BeginBuild \/ CreateFile \/ WriteIndex \/ PublishFile \/ Crash
  \/ OpenForUpdate \/ UpdateFile \/ EndUpdate \/ CloseFile

ReaderNext ==
  \E r \in Readers : StartOpen(r) \/ OpenFile(r) \/ CheckHeader(r) \/ Close(r)

Next == Tick \/ WriterNext \/ ReaderNext

Spec == Init /\ [][Next]_vars

(* A process that has started something runs on.  Nothing makes an operator *)
(* start a build, a searcher start an open, or a process not crash.         *)
Fairness ==
  /\ WF_vars(CreateFile) /\ WF_vars(WriteIndex) /\ WF_vars(PublishFile)
  /\ WF_vars(EndUpdate) /\ WF_vars(CloseFile)
  /\ \A r \in Readers : WF_vars(OpenFile(r)) /\ WF_vars(CheckHeader(r))

FairSpec == Spec /\ Fairness

-----------------------------------------------------------------------------
(***************************************************************************)
(* Properties.                                                             *)
(***************************************************************************)

(* A handle that passed DB_CheckHeader holds the files of one build:       *)
(* offsets read from the main file are never followed into a companion     *)
(* file of another build, however opens, renames and crashes interleave.   *)
AcceptedIsOneBuild ==
  \A r \in Readers : rpc[r] = "open" => Whole(handle[r])

(* The main file is renamed last: under its published name it is never     *)
(* newer than a companion file, so an index that can be opened at all was  *)
(* completely written.                                                     *)
MainFileLast == \A f \in Files : disk["index"] <= disk[f]

(* An open that starts on a published index and sees no rename is accepted: *)
(* creating, writing and crashing before the first rename, like in-place    *)
(* updates, leave the published index usable.                               *)
QuietOpenAccepted ==
  \A r \in Readers : quiet[r] => rpc[r] # "refused"

(* What a handle has in memory of the main file fits every file it reads:  *)
(* all have the changes of the same sessions, if the index was opened      *)
(* between sessions, none of which was cut short, and none has begun on it *)
(* since.  DB_CheckHeader cannot tell, an update keeps the unique_ID, and  *)
(* nothing tells an open handle of a session that begins.                  *)
HandleSettled ==
  \A r \in Readers :
    settled[r] /\ rpc[r] = "open"
      => \A f \in Files : ver[f][handle[r][f]] = read[r]

(* Every started build, update or open comes to an end: the renames and    *)
(* the opens wait for nobody.                                              *)
BuildEnds == wpc # "idle" ~> wpc = "idle"
OpenEnds == \A r \in Readers : rpc[r] = "opening" ~> rpc[r] # "opening"
EverythingEnds == BuildEnds /\ OpenEnds

-----------------------------------------------------------------------------
(***************************************************************************)
(* The facts the proofs in IndexFilesProofs carry from step to step.       *)
(***************************************************************************)
(* Builds are stamped in the order they begin.                             *)
StampsIncrease == \A a, b \in 1..builds : a < b => stamp[a] < stamp[b]

(* Nothing on disk or in a handle comes from a build not yet begun.        *)
FilesBegun == \A f \in Files : temp[f] <= builds /\ disk[f] <= builds
HandlesBegun ==
  \A r \in Readers : \A f \in Files : handle[r][f] <= builds

(* A searcher has opened exactly the files before its place in OpenOrder.  *)
OpenedSoFar ==
  \A r \in Readers :
    /\ rpc[r] = "closed" => rpos[r] = 1
    /\ rpos[r] = 1 => handle[r] = NoFiles
    /\ \A i \in 1..Len(OpenOrder) :
         i < rpos[r] => handle[r][OpenOrder[i]] # 0

OneBuildInv ==
  /\ TypeOK /\ StampsIncrease /\ FilesBegun /\ HandlesBegun /\ OpenedSoFar
  /\ AcceptedIsOneBuild

(* An update session works on one build's files, and its closing writes    *)
(* are the last; those of any other build have had the same updates,       *)
(* unless a session was cut short there.                                   *)
SessionInv ==
  /\ InSession => Whole(disk)
  /\ wpc = "close" => \A i \in 1..Len(OpenOrder) :
       i < wpos => ver[PublishOrder[i]][disk["index"]] = updates
  /\ \A b \in Builds :
       b \notin cut /\ ~(InSession /\ disk["index"] = b)
         => \A f, g \in Files : ver[f][b] = ver[g][b]

(* A settled handle is on an index nobody changes, and has it in memory    *)
(* as it is.                                                               *)
ReadInv ==
  \A r \in Readers : settled[r] =>
    LET b == handle[r]["index"]
    IN  /\ b \in Builds \ cut /\ ~(InSession /\ disk["index"] = b)
        /\ rpc[r] = "open" => read[r] = ver["index"][b]

SettledInv == OneBuildInv /\ SessionInv /\ ReadInv

(* The ".temp" names hold this build's files until they are renamed, and   *)
(* the renamed names hold them afterwards.                                 *)
BuildInProgress ==
  \A i \in 1..Len(OpenOrder) :
    /\ wpc = "create" /\ i < wpos => temp[CreateOrder[i]] = builds
    /\ wpc = "write" => temp[CreateOrder[i]] = builds
    /\ wpc = "publish" /\ i < wpos => disk[PublishOrder[i]] = builds
    /\ wpc = "publish" /\ i >= wpos => temp[PublishOrder[i]] = builds

MainFileInv ==
  /\ TypeOK /\ OpenedSoFar /\ FilesBegun /\ BuildInProgress /\ MainFileLast

(* The index on disk is not the one being built.                           *)
BuildNotCurrent ==
  wpc \in {"create", "write", "publish"} => disk["index"] < builds

(* A quiet open has seen nothing but the whole index that is still there.  *)
QuietSeesDisk ==
  \A r \in Readers :
    quiet[r] => /\ Whole(disk)
                /\ rpc[r] \in {"opening", "open"}
                /\ \A f \in Files : handle[r][f] \in {0, disk[f]}

QuietInv == TypeOK /\ OpenedSoFar /\ QuietSeesDisk

-----------------------------------------------------------------------------
(***************************************************************************)
(* The refinement.  The current index is the main file; a searcher has     *)
(* looked when it has opened the main file, and its view is the build      *)
(* whose files it holds.  A handle on files of several builds is no view   *)
(* of the abstract store: it maps to a number no build has.                *)
(***************************************************************************)
ViewOf(r) ==
  IF rpc[r] # "open" THEN 0
  ELSE IF Whole(handle[r]) THEN handle[r]["index"] ELSE MaxBuilds + 1

LookedAt(r) == IF rpc[r] = "opening" THEN handle[r]["index"] ELSE 0

Store == INSTANCE IndexStore WITH
  current <- disk["index"],
  looked <- [r \in Readers |-> LookedAt(r)],
  view <- [r \in Readers |-> ViewOf(r)]

(* The files, renames and checks implement the one-step store.             *)
ImplementsStore == Store!Spec
=============================================================================
