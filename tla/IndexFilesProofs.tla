--------------------------- MODULE IndexFilesProofs --------------------------
(***************************************************************************)
(* Proofs about IndexFiles, for any number of searchers, builds, seconds   *)
(* and updates, and for both index formats.                                *)
(***************************************************************************)
EXTENDS IndexFiles, TLAPS

(* The three orders are equally long.                                      *)
LEMMA OrderLength ==
  /\ Len(OpenOrder) \in Nat \ {0}
  /\ Len(CreateOrder) = Len(OpenOrder)
  /\ Len(PublishOrder) = Len(OpenOrder)
BY DEF OpenOrder, CreateOrder, PublishOrder

(* They list files of the index, the main file last to be renamed.         *)
LEMMA OrderFiles ==
  /\ "index" \in Files
  /\ \A i \in 1..Len(OpenOrder) :
       /\ OpenOrder[i] \in Files
       /\ CreateOrder[i] \in Files
       /\ PublishOrder[i] \in Files
       /\ PublishOrder[i] = "index" <=> i = Len(OpenOrder)
<1>1. CASE UseBtree
  <2>1. Len(OpenOrder) = 7 /\ Len(CreateOrder) = 7 /\ Len(PublishOrder) = 7
    BY <1>1 DEF OpenOrder, CreateOrder, PublishOrder
  <2>2. 1..7 = {1, 2, 3, 4, 5, 6, 7}
    OBVIOUS
  <2>3. Files = {"index", "prop", "btree", "psort", "wdata", "file", "array"}
    BY <1>1, <2>1, <2>2 DEF Files, OpenOrder
  <2> QED
    BY <1>1, <2>1, <2>2, <2>3 DEF OpenOrder, CreateOrder, PublishOrder
<1>2. CASE ~UseBtree
  <2>1. Len(OpenOrder) = 2 /\ Len(CreateOrder) = 2 /\ Len(PublishOrder) = 2
    BY <1>2 DEF OpenOrder, CreateOrder, PublishOrder
  <2>2. 1..2 = {1, 2}
    OBVIOUS
  <2>3. Files = {"index", "prop"}
    BY <1>2, <2>1, <2>2 DEF Files, OpenOrder
  <2> QED
    BY <1>2, <2>1, <2>2, <2>3 DEF OpenOrder, CreateOrder, PublishOrder
<1> QED
  BY <1>1, <1>2

(* They list every file.                                                   *)
LEMMA OrderComplete ==
  \A f \in Files :
    /\ \E i \in 1..Len(OpenOrder) : f = OpenOrder[i]
    /\ \E i \in 1..Len(OpenOrder) : f = CreateOrder[i]
    /\ \E i \in 1..Len(OpenOrder) : f = PublishOrder[i]
<1>1. CASE UseBtree
  <2>1. Len(OpenOrder) = 7 /\ Len(CreateOrder) = 7 /\ Len(PublishOrder) = 7
    BY <1>1 DEF OpenOrder, CreateOrder, PublishOrder
  <2>2. 1..7 = {1, 2, 3, 4, 5, 6, 7}
    OBVIOUS
  <2>3. Files = {"index", "prop", "btree", "psort", "wdata", "file", "array"}
    BY <1>1, <2>1, <2>2 DEF Files, OpenOrder
  <2> QED
    BY <1>1, <2>1, <2>2, <2>3 DEF OpenOrder, CreateOrder, PublishOrder
<1>2. CASE ~UseBtree
  <2>1. Len(OpenOrder) = 2 /\ Len(CreateOrder) = 2 /\ Len(PublishOrder) = 2
    BY <1>2 DEF OpenOrder, CreateOrder, PublishOrder
  <2>2. 1..2 = {1, 2}
    OBVIOUS
  <2>3. Files = {"index", "prop"}
    BY <1>2, <2>1, <2>2 DEF Files, OpenOrder
  <2> QED
    BY <1>2, <2>1, <2>2, <2>3 DEF OpenOrder, CreateOrder, PublishOrder
<1> QED
  BY <1>1, <1>2

(* No file is renamed, created or opened twice.                            *)
LEMMA OrderOnce ==
  \A i, j \in 1..Len(OpenOrder) :
    /\ PublishOrder[i] = PublishOrder[j] => i = j
    /\ CreateOrder[i] = CreateOrder[j] => i = j
    /\ OpenOrder[i] = OpenOrder[j] => i = j
<1>1. CASE UseBtree
  <2>1. Len(OpenOrder) = 7 /\ Len(CreateOrder) = 7 /\ Len(PublishOrder) = 7
    BY <1>1 DEF OpenOrder, CreateOrder, PublishOrder
  <2>2. 1..7 = {1, 2, 3, 4, 5, 6, 7}
    OBVIOUS
  <2>3. Files = {"index", "prop", "btree", "psort", "wdata", "file", "array"}
    BY <1>1, <2>1, <2>2 DEF Files, OpenOrder
  <2> QED
    BY <1>1, <2>1, <2>2, <2>3 DEF OpenOrder, CreateOrder, PublishOrder
<1>2. CASE ~UseBtree
  <2>1. Len(OpenOrder) = 2 /\ Len(CreateOrder) = 2 /\ Len(PublishOrder) = 2
    BY <1>2 DEF OpenOrder, CreateOrder, PublishOrder
  <2>2. 1..2 = {1, 2}
    OBVIOUS
  <2>3. Files = {"index", "prop"}
    BY <1>2, <2>1, <2>2 DEF Files, OpenOrder
  <2> QED
    BY <1>2, <2>1, <2>2, <2>3 DEF OpenOrder, CreateOrder, PublishOrder
<1> QED
  BY <1>1, <1>2

-----------------------------------------------------------------------------
(***************************************************************************)
(* Type correctness, the base of every other proof.                        *)
(***************************************************************************)
(* The initial state is well typed.                                        *)
LEMMA TypeInit == Init => TypeOK
BY OrderLength, ConstantsAssumption DEF Init, TypeOK, Builds, NoFiles

(* No step of the indexer or of a searcher leaves the types.               *)
LEMMA TypeStep == TypeOK /\ OpenedSoFar /\ [Next]_vars => TypeOK'
<1> SUFFICES ASSUME TypeOK, OpenedSoFar, [Next]_vars
             PROVE  TypeOK'
  OBVIOUS
<1> USE OrderLength, OrderFiles, ConstantsAssumption
<1>1. CASE Tick
  BY <1>1 DEF Tick, TypeOK, writerVars, readerVars
<1>2. CASE BeginBuild
  <2>1. builds + 1 \in 0..MaxBuilds /\ builds + 1 \in Builds
    BY <1>2 DEF BeginBuild, TypeOK, Builds
  <2>2. stamp' \in [Builds -> 0..MaxClock]
    BY <1>2, <2>1 DEF BeginBuild, TypeOK
  <2>3. /\ builds' \in 0..MaxBuilds
        /\ wpc' \in {"idle", "create", "write", "publish", "update", "close"}
        /\ wpos' \in 1..Len(OpenOrder)
    BY <1>2, <2>1 DEF BeginBuild
  <2>4. UNCHANGED <<clock, temp, disk, ver, updates, cut, readerVars>>
    BY <1>2 DEF BeginBuild
  <2> QED
    BY <2>2, <2>3, <2>4 DEF TypeOK, readerVars
<1>3. CASE CreateFile
  <2>1. temp' \in [Files -> 0..MaxBuilds]
    BY <1>3 DEF CreateFile, TypeOK
  <2>2. wpc' \in {"idle", "create", "write", "publish", "update", "close"}
    BY <1>3 DEF CreateFile
  <2>3. wpos' \in 1..Len(OpenOrder)
    BY <1>3 DEF CreateFile, TypeOK
  <2> QED
    BY <1>3, <2>1, <2>2, <2>3 DEF CreateFile, TypeOK, readerVars
<1>4. CASE WriteIndex
  BY <1>4 DEF WriteIndex, TypeOK, readerVars
<1>5. CASE PublishFile
  <2>1. /\ temp' \in [Files -> 0..MaxBuilds]
        /\ disk' \in [Files -> 0..MaxBuilds]
    BY <1>5 DEF PublishFile, TypeOK
  <2>2. wpc' \in {"idle", "create", "write", "publish", "update", "close"}
    BY <1>5 DEF PublishFile
  <2>3. wpos' \in 1..Len(OpenOrder)
    BY <1>5 DEF PublishFile, TypeOK
  <2>4. quiet' \in [Readers -> BOOLEAN]
    BY <1>5 DEF PublishFile, Disturb
  <2> QED
    BY <1>5, <2>1, <2>2, <2>3, <2>4 DEF PublishFile, Disturb, TypeOK
<1>6. CASE Crash
  BY <1>6 DEF Crash, TypeOK, readerVars
<1>7. CASE OpenForUpdate
  BY <1>7 DEF OpenForUpdate, TypeOK, readerVars
<1>8. CASE UpdateFile
  <2>1. PICK f \in Files : ver' = [ver EXCEPT ![f][disk[f]] = updates]
    BY <1>8 DEF UpdateFile
  <2>2. ver' \in [Files -> [Builds -> 0..MaxUpdates]]
    <3>1. [ver[f] EXCEPT ![disk[f]] = updates] \in [Builds -> 0..MaxUpdates]
      BY DEF TypeOK
    <3> QED
      BY <2>1, <3>1 DEF TypeOK
  <2> QED
    BY <1>8, <2>2 DEF UpdateFile, TypeOK, readerVars
<1>9. CASE EndUpdate \/ CloseFile
  <2>1. CASE EndUpdate
    BY <2>1 DEF EndUpdate, TypeOK, readerVars
  <2>2. CASE CloseFile
    <3> DEFINE f == PublishOrder[wpos]
    <3>1. /\ f \in Files /\ ver' = [ver EXCEPT ![f][disk[f]] = updates]
          /\ wpc' \in {"idle", "close"} /\ wpos' \in 1..Len(OpenOrder)
      BY <2>2 DEF CloseFile, TypeOK
    <3> HIDE DEF f
    <3>2. [ver[f] EXCEPT ![disk[f]] = updates] \in [Builds -> 0..MaxUpdates]
      BY <3>1 DEF TypeOK
    <3>3. ver' \in [Files -> [Builds -> 0..MaxUpdates]]
      BY <3>1, <3>2 DEF TypeOK
    <3> QED
      BY <2>2, <3>1, <3>3 DEF CloseFile, TypeOK, readerVars
  <2> QED
    BY <1>9, <2>1, <2>2
<1>10. ASSUME NEW r \in Readers, StartOpen(r)
       PROVE  TypeOK'
  BY <1>10 DEF StartOpen, TypeOK, Whole, writerVars
<1>11. ASSUME NEW r \in Readers, OpenFile(r)
       PROVE  TypeOK'
  <2>1. /\ rpos' \in [Readers -> 1..(Len(OpenOrder) + 1)]
        /\ handle' \in [Readers -> [Files -> 0..MaxBuilds]]
        /\ rpc' \in [Readers -> {"closed", "opening", "open", "refused"}]
        /\ settled' \in [Readers -> BOOLEAN]
    <3>1. CASE disk[OpenOrder[rpos[r]]] = 0
      BY <1>11, <3>1 DEF OpenFile, TypeOK
    <3>2. CASE disk[OpenOrder[rpos[r]]] # 0
      <4>1. rpos[r] \in 1..Len(OpenOrder) /\ OpenOrder[rpos[r]] \in Files
        BY <1>11 DEF OpenFile, TypeOK
      <4>2. disk[OpenOrder[rpos[r]]] \in 0..MaxBuilds
        BY <4>1 DEF TypeOK
      <4>3. handle' \in [Readers -> [Files -> 0..MaxBuilds]]
        <5>1. [handle[r] EXCEPT ![OpenOrder[rpos[r]]]
                 = disk[OpenOrder[rpos[r]]]] \in [Files -> 0..MaxBuilds]
          BY <4>2 DEF TypeOK
        <5> QED
          BY <1>11, <3>2, <5>1 DEF OpenFile, TypeOK
      <4>4. rpos' \in [Readers -> 1..(Len(OpenOrder) + 1)]
        <5>1. rpos' = [rpos EXCEPT ![r] = rpos[r] + 1]
          BY <1>11, <3>2 DEF OpenFile
        <5>2. rpos[r] + 1 \in 1..(Len(OpenOrder) + 1)
          BY <4>1
        <5> QED
          BY <5>1, <5>2 DEF TypeOK
      <4>5. UNCHANGED rpc /\ settled' \in [Readers -> BOOLEAN]
        BY <1>11, <3>2 DEF OpenFile, TypeOK
      <4> QED
        BY <4>3, <4>4, <4>5 DEF TypeOK
    <3> QED
      BY <3>1, <3>2
  <2> QED
    BY <1>11, <2>1 DEF OpenFile, TypeOK, writerVars
<1>12. ASSUME NEW r \in Readers, CheckHeader(r)
       PROVE  TypeOK'
  <2>1. /\ rpc' \in [Readers -> {"closed", "opening", "open", "refused"}]
        /\ UNCHANGED <<clock, writerVars, rpos, handle, quiet, settled>>
    BY <1>12 DEF CheckHeader, TypeOK
  <2>2. read' \in [Readers -> 0..MaxUpdates]
    <3>1. CASE Related(handle[r])
      <4>1. ver["index"][handle[r]["index"]] \in 0..MaxUpdates
        <5>1. handle[r]["index"] \in 0..MaxBuilds
          BY DEF TypeOK
        <5>2. ver["index"] \in [Builds -> 0..MaxUpdates]
          BY DEF TypeOK
        <5>3. handle[r]["index"] # 0
          <6>1. PICK i \in 1..Len(OpenOrder) : "index" = OpenOrder[i]
            BY OrderComplete
          <6>2. i < rpos[r]
            BY <1>12, <6>1 DEF CheckHeader, TypeOK
          <6> QED
            BY <6>1, <6>2 DEF OpenedSoFar
        <5> QED
          BY <5>1, <5>2, <5>3 DEF Builds
      <4> QED
        BY <1>12, <3>1, <4>1 DEF CheckHeader, TypeOK
    <3>2. CASE ~Related(handle[r])
      BY <1>12, <3>2 DEF CheckHeader, TypeOK
    <3> QED
      BY <3>1, <3>2
  <2> QED
    BY <2>1, <2>2 DEF TypeOK, writerVars
<1>13. ASSUME NEW r \in Readers, Close(r)
       PROVE  TypeOK'
  BY <1>13, SMTT(30) DEF Close, TypeOK, NoFiles, writerVars
<1>14. CASE UNCHANGED vars
  BY <1>14 DEF vars, writerVars, readerVars, TypeOK
<1> QED
  BY <1>1, <1>2, <1>3, <1>4, <1>5, <1>6, <1>7, <1>8, <1>9, <1>10, <1>11,
     <1>12, <1>13, <1>14 DEF Next, WriterNext, ReaderNext

-----------------------------------------------------------------------------
(***************************************************************************)
(* A searcher's handle has exactly the files before its place in the list. *)
(***************************************************************************)
(* No searcher has opened anything at first.                              *)
LEMMA OpenedInit == Init => OpenedSoFar
<1>1. Init => \A r \in Readers : rpos[r] = 1 /\ handle[r] = NoFiles
  BY DEF Init
<1>2. \A i \in 1..Len(OpenOrder) : ~(i < 1)
  BY OrderLength
<1> QED
  BY <1>1, <1>2 DEF OpenedSoFar

(* What an open does when the file it comes to exists.                     *)
LEMMA OpenFileFound ==
  ASSUME TypeOK, NEW r \in Readers, OpenFile(r),
         disk[OpenOrder[rpos[r]]] # 0
  PROVE  LET f == OpenOrder[rpos[r]]
         IN  /\ f \in Files /\ rpos[r] \in 1..Len(OpenOrder)
             /\ UNCHANGED rpc
             /\ \A q \in Readers : q # r => /\ handle'[q] = handle[q]
                                          /\ rpos'[q] = rpos[q]
             /\ rpos'[r] = rpos[r] + 1
             /\ handle'[r][f] = disk[f]
             /\ \A g \in Files : g # f => handle'[r][g] = handle[r][g]
<1> DEFINE f == OpenOrder[rpos[r]]
<1>1. rpos[r] \in 1..Len(OpenOrder)
  BY OrderLength DEF OpenFile, TypeOK
<1>2. f \in Files
  BY <1>1, OrderFiles
<1>3. /\ UNCHANGED rpc
      /\ rpos' = [rpos EXCEPT ![r] = rpos[r] + 1]
      /\ handle' = [handle EXCEPT ![r][f] = disk[f]]
  BY DEF OpenFile
<1> HIDE DEF f
<1>4. /\ \A q \in Readers : q # r => /\ handle'[q] = handle[q]
                                   /\ rpos'[q] = rpos[q]
      /\ rpos'[r] = rpos[r] + 1
      /\ handle'[r][f] = disk[f]
      /\ \A g \in Files : g # f => handle'[r][g] = handle[r][g]
  BY <1>2, <1>3 DEF TypeOK
<1> QED
  BY <1>1, <1>2, <1>3, <1>4 DEF f

(* Every step keeps a searcher's place and its handle in step.            *)
LEMMA OpenedStep == TypeOK /\ OpenedSoFar /\ [Next]_vars => OpenedSoFar'
<1> SUFFICES ASSUME TypeOK, OpenedSoFar, [Next]_vars PROVE OpenedSoFar'
  OBVIOUS
<1>1. CASE UNCHANGED <<rpc, rpos, handle>>
  BY <1>1 DEF OpenedSoFar
<1>2. ASSUME NEW r \in Readers, StartOpen(r)
      PROVE  OpenedSoFar'
  BY <1>2 DEF StartOpen, OpenedSoFar, TypeOK
<1>3. ASSUME NEW r \in Readers, OpenFile(r)
      PROVE  OpenedSoFar'
  <2> DEFINE f == OpenOrder[rpos[r]]
  <2>1. CASE disk[f] = 0
    <3>1. UNCHANGED <<rpos, handle>> /\ rpc' = [rpc EXCEPT ![r] = "refused"]
      BY <1>3, <2>1 DEF OpenFile
    <3> QED
      BY <3>1 DEF OpenedSoFar, TypeOK
  <2>2. CASE disk[f] # 0
    <3>1. /\ rpos[r] \in 1..Len(OpenOrder) /\ f \in Files
          /\ UNCHANGED rpc /\ rpc[r] = "opening"
          /\ \A q \in Readers : q # r => /\ handle'[q] = handle[q]
                                       /\ rpos'[q] = rpos[q]
          /\ rpos'[r] = rpos[r] + 1
          /\ handle'[r][f] = disk[f]
          /\ \A g \in Files : g # f => handle'[r][g] = handle[r][g]
      BY <1>3, <2>2, OpenFileFound DEF OpenFile
    <3> HIDE DEF f
    <3>2. ASSUME NEW q \in Readers, q # r
          PROVE  /\ rpc'[q] = "closed" => rpos'[q] = 1
                 /\ rpos'[q] = 1 => handle'[q] = NoFiles
                 /\ \A i \in 1..Len(OpenOrder) :
                      i < rpos'[q] => handle'[q][OpenOrder[i]] # 0
      BY <3>1, <3>2 DEF OpenedSoFar
    <3>3. ASSUME NEW i \in 1..Len(OpenOrder), i < rpos[r] + 1
          PROVE  handle'[r][OpenOrder[i]] # 0
      <4>1. CASE OpenOrder[i] = f
        BY <4>1, <3>1, <2>2
      <4>2. CASE OpenOrder[i] # f
        <5>1. i < rpos[r]
          BY <3>3, <4>2, <3>1, OrderLength DEF f
        <5>2. handle'[r][OpenOrder[i]] = handle[r][OpenOrder[i]]
          BY <4>2, <3>1, OrderFiles
        <5> QED
          BY <5>1, <5>2 DEF OpenedSoFar
      <4> QED
        BY <4>1, <4>2
    <3> QED
      BY <3>1, <3>2, <3>3 DEF OpenedSoFar, NoFiles
  <2> QED
    BY <2>1, <2>2
<1>4. ASSUME NEW r \in Readers, CheckHeader(r)
      PROVE  OpenedSoFar'
  BY <1>4 DEF CheckHeader, OpenedSoFar, TypeOK
<1>5. ASSUME NEW r \in Readers, Close(r)
      PROVE  OpenedSoFar'
  <2>1. /\ rpc' = [rpc EXCEPT ![r] = "closed"]
        /\ rpos' = [rpos EXCEPT ![r] = 1]
        /\ handle' = [handle EXCEPT ![r] = NoFiles]
    BY <1>5 DEF Close
  <2> QED
    BY <2>1, OrderLength DEF OpenedSoFar, TypeOK
<1>6. Tick \/ WriterNext \/ UNCHANGED vars => UNCHANGED <<rpc, rpos, handle>>
  BY DEF Tick, WriterNext, BeginBuild, CreateFile, WriteIndex, PublishFile,
         Disturb, Crash, OpenForUpdate, UpdateFile, EndUpdate, CloseFile, vars,
         readerVars
<1> QED
  BY <1>1, <1>2, <1>3, <1>4, <1>5, <1>6 DEF Next, ReaderNext

(* The indexer's place in its list of files, and a searcher's, never leave *)
(* the list, and every handle holds files of builds that exist.            *)
THEOREM TypeCorrect == Spec => []TypeOK
<1>1. Init => TypeOK /\ OpenedSoFar
  BY TypeInit, OpenedInit
<1>2. TypeOK /\ OpenedSoFar /\ [Next]_vars => (TypeOK /\ OpenedSoFar)'
  BY TypeStep, OpenedStep
<1> QED
  BY <1>1, <1>2, PTL DEF Spec

-----------------------------------------------------------------------------
(***************************************************************************)
(* An accepted handle holds the files of one build, provided builds start  *)
(* in different seconds.  A searcher has opened all files, so no handle    *)
(* entry is 0 (OpenedSoFar, OrderComplete); equal stamps then mean equal   *)
(* builds because stamps increase from build to build.                     *)
(***************************************************************************)
(* The first proof's invariant holds initially.                           *)
LEMMA OneBuildInit == Init => OneBuildInv
<1> SUFFICES ASSUME Init PROVE OneBuildInv
  OBVIOUS
<1>1. TypeOK
  BY TypeInit
<1>2. StampsIncrease
  BY DEF Init, StampsIncrease
<1>3. FilesBegun /\ HandlesBegun
  BY DEF Init, FilesBegun, HandlesBegun, NoFiles
<1>4. OpenedSoFar
  BY OpenedInit
<1>5. AcceptedIsOneBuild
  BY DEF Init, AcceptedIsOneBuild
<1> QED
  BY <1>1, <1>2, <1>3, <1>4, <1>5 DEF OneBuildInv

(* A handle with every file present and all stamps equal is one build's.   *)
LEMMA RelatedIsWhole ==
  ASSUME StampsIncrease, TypeOK,
         NEW h \in [Files -> 0..MaxBuilds],
         \A f \in Files : h[f] # 0 /\ h[f] <= builds,
         Related(h)
  PROVE  Whole(h)
<1>1. \A f \in Files : h[f] \in 1..builds
  BY ConstantsAssumption DEF TypeOK
<1>2. h["index"] # 0
  BY OrderFiles
<1>3. ASSUME NEW f \in Files PROVE h[f] = h["index"]
  <2>1. h[f] \in 1..builds /\ h["index"] \in 1..builds
    BY <1>1, OrderFiles
  <2>2. stamp[h[f]] = stamp[h["index"]]
    BY DEF Related
  <2>3. stamp[h[f]] \in Nat
    <3>1. /\ builds \in 0..MaxBuilds /\ MaxBuilds \in Nat /\ MaxClock \in Nat
          /\ stamp \in [Builds -> 0..MaxClock]
      BY ConstantsAssumption DEF TypeOK
    <3>2. h[f] \in Builds
      BY <2>1, <3>1 DEF Builds
    <3> QED
      BY <3>1, <3>2
  <2>4. stamp[h[f]] \in Nat /\ stamp[h["index"]] \in Nat
    BY <2>3, <2>2
  <2>5. ~(h[f] < h["index"])
    BY <2>1, <2>2, <2>4 DEF StampsIncrease
  <2>6. ~(h["index"] < h[f])
    BY <2>1, <2>2, <2>4 DEF StampsIncrease
  <2>7. builds \in Nat
    BY ConstantsAssumption DEF TypeOK
  <2> QED
    BY <2>1, <2>5, <2>6, <2>7
<1> QED
  BY <1>2, <1>3 DEF Whole

(* No step of the indexer or of a searcher breaks the invariant.          *)
LEMMA OneBuildStep ==
  OneBuildPerSecond /\ OneBuildInv /\ [Next]_vars => OneBuildInv'
<1> SUFFICES ASSUME OneBuildPerSecond, OneBuildInv, [Next]_vars
             PROVE  OneBuildInv'
  OBVIOUS
<1> USE DEF OneBuildInv
<1>0. TypeOK' /\ OpenedSoFar'
  BY TypeStep, OpenedStep
<1>1. CASE UNCHANGED <<builds, stamp, temp, disk, rpc, rpos, handle>>
  BY <1>0, <1>1 DEF StampsIncrease, FilesBegun, HandlesBegun,
                    AcceptedIsOneBuild, Whole
<1>2. CASE BeginBuild
  <2>1. builds \in Nat /\ builds' = builds + 1
        /\ UNCHANGED <<temp, disk, rpc, rpos, handle>>
    BY <1>2 DEF BeginBuild, TypeOK, readerVars
  <2>2. StampsIncrease'
    <3> SUFFICES ASSUME NEW a \in 1..(builds + 1), NEW b \in 1..(builds + 1),
                        a < b
                 PROVE  stamp'[a] < stamp'[b]
      BY <2>1 DEF StampsIncrease
    <3>1. builds + 1 \in Builds /\ builds < MaxBuilds
      BY <1>2, <2>1, ConstantsAssumption DEF BeginBuild, Builds
    <3>2. \A i \in 1..builds : stamp'[i] = stamp[i] /\ stamp[i] \in Nat
      <4>1. \A i \in 1..builds : i \in Builds /\ i # builds + 1
        BY <2>1, <3>1, ConstantsAssumption DEF Builds
      <4>2. stamp' = [stamp EXCEPT ![builds + 1] = clock]
        BY <1>2 DEF BeginBuild
      <4>3. \A i \in Builds : stamp[i] \in Nat
        BY ConstantsAssumption DEF TypeOK
      <4> QED
        BY <4>1, <4>2, <4>3 DEF TypeOK
    <3>3. a \in 1..builds
      BY <2>1
    <3>4. CASE b \in 1..builds
      BY <3>2, <3>3, <3>4 DEF StampsIncrease
    <3>5. CASE b = builds + 1
      <4>1. stamp'[b] = clock /\ clock > stamp[builds]
        BY <1>2, <2>1, <3>1, <3>3, <3>5 DEF BeginBuild, TypeOK
      <4>2. stamp[a] <= stamp[builds]
        BY <2>1, <3>2, <3>3 DEF StampsIncrease
      <4> QED
        BY <4>1, <4>2, <3>2, <3>3, <2>1 DEF TypeOK
    <3> QED
      BY <3>4, <3>5, <2>1
  <2>3. FilesBegun' /\ HandlesBegun'
    BY <2>1 DEF FilesBegun, HandlesBegun, TypeOK
  <2>4. AcceptedIsOneBuild'
    BY <2>1 DEF AcceptedIsOneBuild, Whole
  <2> QED
    BY <1>0, <2>2, <2>3, <2>4
<1>3. CASE CreateFile \/ PublishFile
  <2>1. /\ builds \in Nat
        /\ UNCHANGED <<builds, stamp, rpc, rpos, handle>>
    BY <1>3 DEF CreateFile, PublishFile, Disturb, TypeOK, readerVars
  <2>2. FilesBegun'
    <3>1. CASE CreateFile
      <4>1. temp' = [temp EXCEPT ![CreateOrder[wpos]] = builds]
            /\ UNCHANGED disk
        BY <3>1 DEF CreateFile
      <4> QED
        BY <4>1, <2>1 DEF FilesBegun, TypeOK
    <3>2. CASE PublishFile
      <4> DEFINE f == PublishOrder[wpos]
      <4>1. /\ f \in Files
            /\ disk' = [disk EXCEPT ![f] = temp[f]]
            /\ temp' = [temp EXCEPT ![f] = 0]
        BY <3>2, OrderFiles DEF PublishFile, TypeOK
      <4> HIDE DEF f
      <4> QED
        BY <4>1, <2>1 DEF FilesBegun, TypeOK
    <3> QED
      BY <1>3, <3>1, <3>2
  <2> QED
    BY <1>0, <2>1, <2>2 DEF StampsIncrease, HandlesBegun, OpenedSoFar,
                            AcceptedIsOneBuild, Whole
<1>4. ASSUME NEW r \in Readers, StartOpen(r)
      PROVE  OneBuildInv'
  BY <1>0, <1>4 DEF StartOpen, StampsIncrease, FilesBegun, HandlesBegun,
                    OpenedSoFar, AcceptedIsOneBuild, Whole, TypeOK, writerVars
<1>5. ASSUME NEW r \in Readers, OpenFile(r)
      PROVE  OneBuildInv'
  <2>1. UNCHANGED <<builds, stamp, temp, disk>> /\ rpc[r] = "opening"
        /\ rpos[r] \in 1..Len(OpenOrder)
    BY <1>5, OrderLength DEF OpenFile, writerVars, TypeOK
  <2> DEFINE f == OpenOrder[rpos[r]]
  <2>2. f \in Files
    BY <2>1, OrderFiles
  <2>3. CASE disk[f] = 0
    <3>1. UNCHANGED <<rpos, handle>> /\ rpc' = [rpc EXCEPT ![r] = "refused"]
      BY <1>5, <2>3 DEF OpenFile
    <3> QED
      BY <1>0, <2>1, <3>1 DEF StampsIncrease, FilesBegun, HandlesBegun,
                              OpenedSoFar, AcceptedIsOneBuild, Whole, TypeOK
  <2>4. CASE disk[f] # 0
    <3>2. /\ UNCHANGED rpc
          /\ \A q \in Readers : q # r => handle'[q] = handle[q]
          /\ handle'[r][f] = disk[f]
          /\ \A g \in Files : g # f => handle'[r][g] = handle[r][g]
      BY <1>5, <2>4, OpenFileFound
    <3>3. HandlesBegun'
      BY <2>1, <2>2, <3>2 DEF HandlesBegun, FilesBegun
    <3>5. AcceptedIsOneBuild'
      BY <2>1, <3>2 DEF AcceptedIsOneBuild, Whole
    <3> QED
      BY <1>0, <2>1, <3>3, <3>5 DEF StampsIncrease, FilesBegun
  <2> QED
    BY <2>3, <2>4
<1>6. ASSUME NEW r \in Readers, CheckHeader(r)
      PROVE  OneBuildInv'
  <2>1. /\ UNCHANGED <<builds, stamp, temp, disk, rpos, handle>>
        /\ rpc[r] = "opening" /\ rpos[r] > Len(OpenOrder)
        /\ rpc' = [rpc EXCEPT ![r] = IF Related(handle[r]) THEN "open"
                                                           ELSE "refused"]
    BY <1>6 DEF CheckHeader, writerVars
  <2>2. StampsIncrease' /\ FilesBegun' /\ HandlesBegun'
    BY <2>1 DEF StampsIncrease, FilesBegun, HandlesBegun
  <2>4. AcceptedIsOneBuild'
    <3> SUFFICES ASSUME NEW q \in Readers, rpc'[q] = "open"
                 PROVE  Whole(handle[q])
      BY <2>1 DEF AcceptedIsOneBuild, Whole
    <3>1. CASE q # r
      BY <3>1, <2>1 DEF AcceptedIsOneBuild, TypeOK
    <3>2. CASE q = r
      <4>1. Related(handle[r])
        BY <3>2, <2>1 DEF TypeOK
      <4>2. \A f \in Files : handle[r][f] # 0
        <5>1. \A i \in 1..Len(OpenOrder) : i < rpos[r]
          BY <2>1, OrderLength DEF TypeOK
        <5>2. \A i \in 1..Len(OpenOrder) : handle[r][OpenOrder[i]] # 0
          BY <5>1 DEF OpenedSoFar
        <5> QED
          BY <5>2, OrderComplete
      <4>3. \A f \in Files : handle[r][f] <= builds
        BY DEF HandlesBegun
      <4>4. handle[r] \in [Files -> 0..MaxBuilds]
        BY DEF TypeOK
      <4> QED
        BY <3>2, <4>1, <4>2, <4>3, <4>4, RelatedIsWhole
    <3> QED
      BY <3>1, <3>2
  <2> QED
    BY <1>0, <2>2, <2>4
<1>7. ASSUME NEW r \in Readers, Close(r)
      PROVE  OneBuildInv'
  <2>1. /\ UNCHANGED <<builds, stamp, temp, disk>>
        /\ rpc' = [rpc EXCEPT ![r] = "closed"]
        /\ rpos' = [rpos EXCEPT ![r] = 1]
        /\ handle' = [handle EXCEPT ![r] = NoFiles]
    BY <1>7 DEF Close, writerVars
  <2>2. HandlesBegun'
    BY <2>1 DEF HandlesBegun, TypeOK, NoFiles
  <2>4. AcceptedIsOneBuild'
    BY <2>1 DEF AcceptedIsOneBuild, Whole, TypeOK
  <2> QED
    BY <1>0, <2>1, <2>2, <2>4 DEF StampsIncrease, FilesBegun
<1>8. (Tick \/ WriteIndex \/ Crash \/ OpenForUpdate \/ UpdateFile
        \/ EndUpdate \/ CloseFile \/ UNCHANGED vars)
      => UNCHANGED <<builds, stamp, temp, disk, rpc, rpos, handle>>
  BY DEF Tick, WriteIndex, Crash, OpenForUpdate, UpdateFile, EndUpdate, CloseFile,
         vars, writerVars, readerVars
<1> QED
  BY <1>1, <1>2, <1>3, <1>4, <1>5, <1>6, <1>7, <1>8
  DEF Next, WriterNext, ReaderNext

(* However opens, renames, updates and crashes interleave, a handle that   *)
(* passed DB_CheckHeader holds the files of one build.                     *)
THEOREM OneBuild == ASSUME OneBuildPerSecond PROVE Spec => []AcceptedIsOneBuild
<1>1. Init => OneBuildInv
  BY OneBuildInit
<1>2. OneBuildInv /\ [Next]_vars => OneBuildInv'
  BY OneBuildStep
<1>3. OneBuildInv => AcceptedIsOneBuild
  BY DEF OneBuildInv
<1> QED
  BY <1>1, <1>2, <1>3, PTL DEF Spec

-----------------------------------------------------------------------------
(***************************************************************************)
(* What a handle has in memory fits the files it reads.  A session opens   *)
(* files that DB_CheckHeader finds related, so of one build                *)
(* (RelatedIsWhole), and nothing is renamed under it; its closing writes   *)
(* pass over every file (OrderComplete), none of which they come back to   *)
(* (OrderOnce); only a crash leaves it half done.                          *)
(***************************************************************************)
(* Outside the session on it, the files of a build are at one version.     *)
LEMMA SessionStep ==
  OneBuildPerSecond /\ OneBuildInv /\ SessionInv /\ [Next]_vars => SessionInv'
<1> SUFFICES ASSUME OneBuildPerSecond, OneBuildInv, SessionInv, [Next]_vars
             PROVE  SessionInv'
  OBVIOUS
<1> USE DEF InSession
<1>t. /\ disk \in [Files -> 0..MaxBuilds] /\ "index" \in Files
      /\ ver \in [Files -> [Builds -> 0..MaxUpdates]]
      /\ builds \in Nat /\ cut \subseteq 0..MaxBuilds
      /\ wpos \in 1..Len(OpenOrder) /\ Len(OpenOrder) \in Nat
  BY OrderFiles, OrderLength, ConstantsAssumption DEF OneBuildInv, TypeOK
<1>1. CASE BeginBuild \/ CreateFile \/ WriteIndex
  BY <1>1 DEF BeginBuild, CreateFile, WriteIndex, SessionInv
<1>2. CASE PublishFile
  BY <1>2 DEF PublishFile, SessionInv
<1>3. CASE Crash
  BY <1>3, <1>t DEF Crash, SessionInv
<1>4. CASE OpenForUpdate
  <2>1. Whole(disk)
    <3>1. \A f \in Files : disk[f] # 0 /\ disk[f] <= builds
      BY <1>4 DEF OpenForUpdate, OneBuildInv, FilesBegun
    <3> QED
      BY <1>4, <1>t, <3>1, RelatedIsWhole DEF OpenForUpdate, OneBuildInv
  <2> QED
    BY <1>4, <2>1 DEF OpenForUpdate, SessionInv, Whole
<1>5. CASE UpdateFile
  <2>1. PICK f \in Files : ver' = [ver EXCEPT ![f][disk[f]] = updates]
    BY <1>5 DEF UpdateFile
  <2>2. InSession /\ UNCHANGED <<disk, wpc, wpos, updates, cut>> /\ Whole(disk)
    BY <1>5 DEF UpdateFile, SessionInv
  <2>3. \A b \in Builds : b # disk["index"] =>
          \A g \in Files : ver'[g][b] = ver[g][b]
    BY <1>t, <2>1, <2>2 DEF Whole
  <2>4. \A g \in Files : ver[g][disk["index"]] = updates
                        => ver'[g][disk["index"]] = updates
    BY <1>t, <2>1, ConstantsAssumption DEF Builds
  <2>5. \A i \in 1..Len(OpenOrder) : PublishOrder[i] \in Files
    BY OrderFiles
  <2> QED
    BY <2>2, <2>3, <2>4, <2>5 DEF SessionInv, Whole
<1>6. CASE EndUpdate
  <2>1. /\ wpc = "update" /\ wpc' = "close" /\ wpos' = 1
        /\ UNCHANGED <<disk, ver, cut>>
    BY <1>6 DEF EndUpdate
  <2> QED
    BY <2>1, <1>t DEF SessionInv, Whole
<1>7. CASE CloseFile
  <2> DEFINE f == PublishOrder[wpos]
             b0 == disk["index"]
  <2>1. /\ wpc = "close" /\ UNCHANGED <<disk, cut, updates>> /\ f \in Files
        /\ ver' = [ver EXCEPT ![f][disk[f]] = updates]
    BY <1>7, <1>t, OrderFiles DEF CloseFile
  <2>2. /\ wpos < Len(OpenOrder) => wpc' = "close" /\ wpos' = wpos + 1
        /\ wpos = Len(OpenOrder) => wpc' = "idle"
    BY <1>7, <1>t, OrderLength DEF CloseFile
  <2>3. Whole(disk) /\ disk[f] = b0 /\ b0 \in Builds
    BY <2>1, <1>t, ConstantsAssumption DEF SessionInv, Whole, Builds
  <2>4. \A b \in Builds : b # b0 => \A g \in Files : ver'[g][b] = ver[g][b]
    <3> HIDE DEF f, b0
    <3> QED
      BY <1>t, <2>1, <2>3
  <2>5. ASSUME NEW i \in 1..Len(OpenOrder), i <= wpos
        PROVE  ver'[PublishOrder[i]][b0] = updates
    <3>1. PublishOrder[i] \in Files
      BY OrderFiles
    <3>2. CASE i = wpos
      <4> HIDE DEF f, b0
      <4>1. ver'[f][b0] = updates
        BY <1>t, <2>1, <2>3
      <4> QED
        BY <3>2, <4>1 DEF f
    <3>3. CASE i # wpos
      <4>1. PublishOrder[i] # f /\ i < wpos
        BY <3>3, <2>5, <1>t, OrderOnce
      <4>2. ver[PublishOrder[i]][b0] = updates
        BY <4>1, <2>1 DEF SessionInv
      <4> HIDE DEF f, b0
      <4> QED
        BY <4>1, <4>2, <3>1, <1>t, <2>1
    <3> QED
      BY <3>2, <3>3
  <2>6. CASE wpos < Len(OpenOrder)
    <3>1. wpc' = "close" /\ wpos' = wpos + 1
      BY <2>6, <2>2
    <3> QED
      BY <2>1, <2>3, <2>4, <2>5, <3>1, <1>t DEF SessionInv, Whole
  <2>7. CASE wpos = Len(OpenOrder)
    <3>1. wpc' = "idle"
      BY <2>7, <2>2
    <3>2. \A g \in Files : ver'[g][b0] = updates
      BY <2>5, <2>7, <1>t, OrderComplete
    <3> QED
      BY <2>1, <2>4, <3>1, <3>2 DEF SessionInv
  <2> QED
    BY <2>6, <2>7, <1>t
<1>8. CASE Tick \/ ReaderNext \/ UNCHANGED vars
  <2>1. UNCHANGED <<disk, ver, wpc, wpos, updates, cut>>
    BY <1>8 DEF Tick, ReaderNext, StartOpen, OpenFile, CheckHeader, Close,
                vars, writerVars
  <2> QED
    BY <2>1 DEF SessionInv, Whole
<1> QED
  BY <1>1, <1>2, <1>3, <1>4, <1>5, <1>6, <1>7, <1>8 DEF Next, WriterNext

(* A settled handle stays on an index nobody changes, and has read it.     *)
LEMMA ReadStep ==
  OneBuildPerSecond /\ SettledInv /\ [Next]_vars => ReadInv'
<1> SUFFICES ASSUME OneBuildPerSecond, SettledInv, [Next]_vars
             PROVE  ReadInv'
  OBVIOUS
<1> USE DEF InSession
<1>t. /\ disk \in [Files -> 0..MaxBuilds] /\ "index" \in Files
      /\ ver \in [Files -> [Builds -> 0..MaxUpdates]]
      /\ handle \in [Readers -> [Files -> 0..MaxBuilds]]
      /\ settled \in [Readers -> BOOLEAN]
      /\ rpc \in [Readers -> {"closed", "opening", "open", "refused"}]
      /\ wpos \in 1..Len(OpenOrder) /\ Len(OpenOrder) \in Nat
  BY OrderFiles, OrderLength DEF SettledInv, OneBuildInv, TypeOK
<1>s. InSession => Whole(disk)
  BY DEF SettledInv, SessionInv
<1>1. CASE Tick \/ BeginBuild \/ CreateFile \/ WriteIndex \/ EndUpdate
           \/ UNCHANGED vars
  <2>1. /\ UNCHANGED <<disk, ver, cut, readerVars>>
        /\ InSession' => InSession
    BY <1>1 DEF Tick, BeginBuild, CreateFile, WriteIndex, EndUpdate, vars,
                writerVars
  <2> QED
    BY <2>1 DEF SettledInv, ReadInv, readerVars
<1>2. CASE PublishFile
  <2>1. /\ UNCHANGED <<ver, cut, rpc, handle, read, settled>>
        /\ ~InSession'
    BY <1>2 DEF PublishFile, Disturb
  <2> QED
    BY <2>1 DEF SettledInv, ReadInv
<1>3. CASE Crash
  <2>1. /\ UNCHANGED <<disk, ver, readerVars>> /\ ~InSession'
        /\ cut' = cut \/ (InSession /\ cut' = cut \cup {disk["index"]})
    BY <1>3 DEF Crash
  <2> QED
    BY <2>1 DEF SettledInv, ReadInv, readerVars
<1>4. CASE OpenForUpdate
  <2>1. /\ UNCHANGED <<disk, ver, cut, rpc, handle, read>>
        /\ \A r \in Readers : settled'[r]
             => settled[r] /\ handle[r]["index"] # disk["index"]
    BY <1>4 DEF OpenForUpdate
  <2> QED
    BY <2>1 DEF SettledInv, ReadInv
<1>5. CASE UpdateFile \/ CloseFile
  <2>1. /\ InSession /\ UNCHANGED <<disk, cut, readerVars>>
        /\ InSession' => InSession
    BY <1>5 DEF UpdateFile, CloseFile
  <2>2. PICK f \in Files : ver' = [ver EXCEPT ![f][disk[f]] = updates]
    BY <1>5, <1>t, OrderFiles DEF UpdateFile, CloseFile
  <2>3. \A b \in Builds : b # disk["index"] => ver'["index"][b] = ver["index"][b]
    BY <1>t, <1>s, <2>1, <2>2 DEF Whole
  <2> QED
    BY <2>1, <2>3 DEF SettledInv, ReadInv, readerVars
<1>6. ASSUME NEW r \in Readers, StartOpen(r)
      PROVE  ReadInv'
  <2>1. /\ UNCHANGED <<writerVars, handle, read, settled>>
        /\ \A q \in Readers : rpc'[q] = "open" => rpc[q] = "open"
    BY <1>6, <1>t DEF StartOpen
  <2> QED
    BY <2>1 DEF SettledInv, ReadInv, writerVars
<1>7. ASSUME NEW r \in Readers, OpenFile(r)
      PROVE  ReadInv'
  <2> DEFINE f == OpenOrder[rpos[r]]
  <2>1. /\ UNCHANGED <<writerVars, read>> /\ rpc[r] = "opening"
        /\ \A q \in Readers : rpc'[q] = "open" => rpc[q] = "open"
    BY <1>7, <1>t DEF OpenFile
  <2>2. CASE disk[f] = 0
    <3>1. UNCHANGED <<handle, settled>>
      BY <1>7, <2>2 DEF OpenFile
    <3> QED
      BY <2>1, <3>1 DEF SettledInv, ReadInv, writerVars
  <2>3. CASE disk[f] # 0
    <3>1. /\ f \in Files
          /\ \A q \in Readers : q # r => handle'[q] = handle[q]
          /\ handle'[r][f] = disk[f]
          /\ \A g \in Files : g # f => handle'[r][g] = handle[r][g]
      BY <1>7, <2>3, OpenFileFound DEF SettledInv, OneBuildInv
    <3>2. settled' = IF f = "index"
                     THEN [settled EXCEPT ![r] = ~InSession /\ disk[f] \notin cut]
                     ELSE settled
      BY <1>7, <2>3 DEF OpenFile
    <3> HIDE DEF f
    <3>3. ASSUME NEW q \in Readers, q # r, settled'[q]
          PROVE  settled[q]
      BY <3>2, <3>3, <1>t
    <3>4. ASSUME settled'[r]
          PROVE  handle'[r]["index"] \in Builds \ cut
                 /\ ~(InSession /\ disk["index"] = handle'[r]["index"])
      <4>1. CASE f = "index"
        <5>1. ~InSession /\ disk[f] \notin cut
          BY <3>2, <3>4, <4>1, <1>t
        <5>2. disk[f] \in Builds
          BY <1>t, <2>3, <3>1, ConstantsAssumption DEF Builds, f
        <5> QED
          BY <3>1, <4>1, <5>1, <5>2
      <4>2. CASE f # "index"
        BY <3>1, <3>2, <3>4, <4>2, <1>t DEF SettledInv, ReadInv
      <4> QED
        BY <4>1, <4>2
    <3>5. UNCHANGED <<ver, wpc, disk, cut, read>>
      BY <2>1 DEF writerVars
    <3> QED
      BY <2>1, <3>1, <3>3, <3>4, <3>5 DEF SettledInv, ReadInv
  <2> QED
    BY <2>2, <2>3
<1>8. ASSUME NEW r \in Readers, CheckHeader(r)
      PROVE  ReadInv'
  <2>1. /\ UNCHANGED <<writerVars, handle, settled>>
        /\ rpc' = [rpc EXCEPT ![r] = IF Related(handle[r]) THEN "open"
                                                           ELSE "refused"]
        /\ read' = IF Related(handle[r])
                   THEN [read EXCEPT ![r] = ver["index"][handle[r]["index"]]]
                   ELSE read
    BY <1>8 DEF CheckHeader
  <2>2. \A q \in Readers : q # r => rpc'[q] = rpc[q] /\ read'[q] = read[q]
    BY <2>1
  <2>3. rpc'[r] = "open" => read'[r] = ver["index"][handle[r]["index"]]
    BY <2>1, <1>t DEF SettledInv, OneBuildInv, TypeOK
  <2>4. UNCHANGED <<ver, wpc, disk, cut>>
    BY <2>1 DEF writerVars
  <2> QED
    BY <2>1, <2>2, <2>3, <2>4 DEF SettledInv, ReadInv
<1>9. ASSUME NEW r \in Readers, Close(r)
      PROVE  ReadInv'
  <2>1. /\ UNCHANGED writerVars /\ ~settled'[r]
        /\ \A q \in Readers : q # r => /\ rpc'[q] = rpc[q]
                                       /\ handle'[q] = handle[q]
                                       /\ read'[q] = read[q]
                                       /\ settled'[q] = settled[q]
    BY <1>9, <1>t DEF Close, SettledInv, OneBuildInv, TypeOK
  <2> QED
    BY <2>1 DEF SettledInv, ReadInv, writerVars
<1> QED
  BY <1>1, <1>2, <1>3, <1>4, <1>5, <1>6, <1>7, <1>8, <1>9
  DEF Next, WriterNext, ReaderNext

(* A searcher whose index nobody has begun to change since it was opened   *)
(* reads files that all have the changes of the sessions its copy of the   *)
(* offsets, roots and header was read after.                               *)
THEOREM HandlesSettled == ASSUME OneBuildPerSecond PROVE Spec => []HandleSettled
<1>1. Init => SettledInv
  BY OneBuildInit DEF Init, SettledInv, SessionInv, ReadInv, InSession
<1>2. SettledInv /\ [Next]_vars => SettledInv'
  BY OneBuildStep, SessionStep, ReadStep DEF SettledInv
<1>3. SettledInv => HandleSettled
  <2> SUFFICES ASSUME SettledInv, NEW r \in Readers, settled[r],
                      rpc[r] = "open", NEW f \in Files
               PROVE  ver[f][handle[r][f]] = read[r]
    BY DEF HandleSettled
  <2> DEFINE b == handle[r]["index"]
  <2>1. /\ b \in Builds \ cut /\ ~(InSession /\ disk["index"] = b)
        /\ read[r] = ver["index"][b]
    BY DEF SettledInv, ReadInv
  <2>2. handle[r][f] = b
    BY DEF SettledInv, OneBuildInv, AcceptedIsOneBuild, Whole
  <2>3. ver[f][b] = ver["index"][b]
    BY <2>1, OrderFiles DEF SettledInv, SessionInv
  <2> QED
    BY <2>1, <2>2, <2>3
<1> QED
  BY <1>1, <1>2, <1>3, PTL DEF Spec

-----------------------------------------------------------------------------
(***************************************************************************)
(* The main file is never newer than a companion.  While a build is being  *)
(* published the companions already renamed are its own (BuildInProgress)  *)
(* and no file is newer (FilesBegun); the main file comes last (OrderFiles).*)
(***************************************************************************)
(* No step breaks the order of the renames' results.                      *)
LEMMA MainFileStep == MainFileInv /\ [Next]_vars => MainFileInv'
<1> SUFFICES ASSUME MainFileInv, [Next]_vars PROVE MainFileInv'
  OBVIOUS
<1> USE DEF MainFileInv
<1>0. TypeOK' /\ OpenedSoFar'
  BY TypeStep, OpenedStep
<1>t. builds \in Nat /\ wpos \in 1..Len(OpenOrder) /\ Len(OpenOrder) \in Nat
  BY OrderLength DEF TypeOK
<1>1. ASSUME UNCHANGED <<builds, temp, disk>>,
             UNCHANGED <<wpc, wpos>> \/ wpc' \in {"idle", "update", "close"}
      PROVE  MainFileInv'
  <2>1. BuildInProgress'
    BY <1>1 DEF BuildInProgress
  <2> QED
    BY <1>0, <1>1, <2>1 DEF FilesBegun, MainFileLast
<1>2. CASE BeginBuild
  <2>1. /\ builds' = builds + 1 /\ wpc' = "create" /\ wpos' = 1
        /\ UNCHANGED <<temp, disk>>
    BY <1>2 DEF BeginBuild
  <2>2. BuildInProgress'
    BY <2>1, <1>t DEF BuildInProgress
  <2>3. FilesBegun'
    BY <2>1, <1>t DEF FilesBegun, TypeOK
  <2> QED
    BY <1>0, <2>1, <2>2, <2>3 DEF MainFileLast
<1>3. CASE CreateFile
  <2> DEFINE c == CreateOrder[wpos]
  <2>1. /\ wpc = "create" /\ c \in Files
        /\ temp' = [temp EXCEPT ![c] = builds]
        /\ UNCHANGED <<builds, disk>>
    BY <1>3, <1>t, OrderFiles DEF CreateFile
  <2>2. /\ wpos < Len(OpenOrder) => wpc' = "create" /\ wpos' = wpos + 1
        /\ wpos = Len(OpenOrder) => wpc' = "write"
    BY <1>3, <1>t, OrderLength DEF CreateFile
  <2>3. ASSUME NEW i \in 1..Len(OpenOrder), i <= wpos
        PROVE  temp'[CreateOrder[i]] = builds
    <3>1. CreateOrder[i] \in Files
      BY OrderFiles
    <3>2. CASE i = wpos
      BY <3>2, <2>1 DEF TypeOK
    <3>3. CASE i < wpos
      <4>1. temp[CreateOrder[i]] = builds
        BY <3>3, <2>1 DEF BuildInProgress
      <4> QED
        BY <4>1, <3>1, <2>1 DEF TypeOK
    <3> QED
      BY <3>2, <3>3, <2>3, <1>t
  <2>4. BuildInProgress'
    BY <2>1, <2>2, <2>3, <1>t DEF BuildInProgress
  <2>5. FilesBegun'
    BY <2>1, <1>t DEF FilesBegun, TypeOK
  <2> QED
    BY <1>0, <2>1, <2>4, <2>5 DEF MainFileLast
<1>4. CASE WriteIndex
  <2>1. /\ wpc = "write" /\ wpc' = "publish" /\ wpos' = 1
        /\ UNCHANGED <<builds, temp, disk>>
    BY <1>4 DEF WriteIndex
  <2>2. ASSUME NEW i \in 1..Len(OpenOrder)
        PROVE  temp[PublishOrder[i]] = builds
    <3>1. PICK j \in 1..Len(OpenOrder) : PublishOrder[i] = CreateOrder[j]
      BY OrderFiles, OrderComplete
    <3> QED
      BY <3>1, <2>1 DEF BuildInProgress
  <2>3. BuildInProgress'
    BY <2>1, <2>2, <1>t DEF BuildInProgress
  <2> QED
    BY <1>0, <2>1, <2>3 DEF FilesBegun, MainFileLast
<1>5. CASE PublishFile
  <2> DEFINE f == PublishOrder[wpos]
  <2>1. /\ wpc = "publish" /\ f \in Files /\ UNCHANGED builds
        /\ disk' = [disk EXCEPT ![f] = temp[f]]
        /\ temp' = [temp EXCEPT ![f] = 0]
    BY <1>5, <1>t, OrderFiles DEF PublishFile
  <2>2. /\ wpos < Len(OpenOrder) => wpc' = "publish" /\ wpos' = wpos + 1
        /\ wpos = Len(OpenOrder) => wpc' = "idle"
    BY <1>5, <1>t, OrderLength DEF PublishFile
  <2>3. temp[f] = builds
    BY <2>1, <1>t DEF BuildInProgress
  <2>4. ASSUME NEW i \in 1..Len(OpenOrder)
        PROVE  /\ i <= wpos => disk'[PublishOrder[i]] = builds
               /\ i > wpos => temp'[PublishOrder[i]] = builds
    <3>1. PublishOrder[i] \in Files
      BY OrderFiles
    <3>2. CASE i = wpos
      BY <3>2, <2>1, <2>3, <1>t DEF TypeOK
    <3>3. CASE i # wpos
      <4>1. PublishOrder[i] # f
        BY <3>3, <1>t, OrderOnce
      <4>2. /\ i < wpos => disk[PublishOrder[i]] = builds
            /\ i > wpos => temp[PublishOrder[i]] = builds
        BY <2>1, <1>t DEF BuildInProgress
      <4> QED
        BY <4>1, <4>2, <3>1, <3>3, <2>1, <1>t DEF TypeOK
    <3> QED
      BY <3>2, <3>3
  <2>5. BuildInProgress'
    BY <2>1, <2>2, <2>4, <1>t DEF BuildInProgress
  <2>6. FilesBegun'
    <3> HIDE DEF f
    <3> QED
      BY <2>1, <1>t DEF FilesBegun, TypeOK
  <2>7. MainFileLast'
    <3>1. CASE f = "index"
      <4>1. wpos = Len(OpenOrder)
        BY <3>1, <1>t, OrderFiles
      <4>2. \A g \in Files : disk'[g] = builds
        BY <4>1, <2>4, <1>t, OrderComplete
      <4> QED
        BY <4>2, <1>t, OrderFiles DEF MainFileLast
    <3>2. CASE f # "index"
      <4>1. disk'["index"] = disk["index"] /\ disk'[f] = builds
        BY <3>2, <2>1, <2>3, OrderFiles DEF TypeOK
      <4>2. disk["index"] <= builds
        BY OrderFiles DEF FilesBegun
      <4>3. \A g \in Files : g # f => disk'[g] = disk[g]
        BY <2>1 DEF TypeOK
      <4> QED
        BY <4>1, <4>2, <4>3 DEF MainFileLast
    <3> QED
      BY <3>1, <3>2
  <2> QED
    BY <1>0, <2>5, <2>6, <2>7
<1>6. (Tick \/ Crash \/ OpenForUpdate \/ UpdateFile \/ EndUpdate \/ CloseFile
        \/ ReaderNext \/ UNCHANGED vars)
      => /\ UNCHANGED <<builds, temp, disk>>
         /\ UNCHANGED <<wpc, wpos>> \/ wpc' \in {"idle", "update", "close"}
  BY DEF Tick, Crash, OpenForUpdate, UpdateFile, EndUpdate, CloseFile, ReaderNext,
         StartOpen, OpenFile, CheckHeader, Close, vars, writerVars
<1> QED
  BY <1>1, <1>2, <1>3, <1>4, <1>5, <1>6 DEF Next, WriterNext

(* The published main file is never newer than a published companion: the  *)
(* last rename of DB_Close_Native is what makes a build visible.           *)
THEOREM MainFileIsLast == Spec => []MainFileLast
<1>1. Init => MainFileInv
  <2> SUFFICES ASSUME Init PROVE MainFileInv
    OBVIOUS
  <2>1. TypeOK /\ OpenedSoFar
    BY TypeInit, OpenedInit
  <2>2. FilesBegun /\ MainFileLast
    BY OrderFiles DEF Init, FilesBegun, MainFileLast, NoFiles
  <2>3. BuildInProgress
    BY DEF Init, BuildInProgress
  <2> QED
    BY <2>1, <2>2, <2>3 DEF MainFileInv
<1>2. MainFileInv /\ [Next]_vars => MainFileInv'
  BY MainFileStep
<1>3. MainFileInv => MainFileLast
  BY DEF MainFileInv
<1> QED
  BY <1>1, <1>2, <1>3, PTL DEF Spec

-----------------------------------------------------------------------------
(***************************************************************************)
(* An open that meets no rename is accepted.  All it has seen is the whole *)
(* index still on disk (QuietSeesDisk), so when the last file is open its  *)
(* handle is that index, and the stamps agree.                             *)
(***************************************************************************)
(* No step makes a quiet open see anything but the index on disk.         *)
LEMMA QuietStep == QuietInv /\ [Next]_vars => QuietInv'
<1> SUFFICES ASSUME QuietInv, [Next]_vars PROVE QuietInv'
  OBVIOUS
<1> USE DEF QuietInv
<1>0. TypeOK' /\ OpenedSoFar'
  BY TypeStep, OpenedStep
<1>1. CASE UNCHANGED <<disk, rpc, handle, quiet>>
  BY <1>0, <1>1 DEF QuietSeesDisk, Whole
<1>2. CASE PublishFile
  BY <1>0, <1>2 DEF PublishFile, Disturb, QuietSeesDisk
<1>3. ASSUME NEW r \in Readers, StartOpen(r)
      PROVE  QuietInv'
  <2>1. /\ rpc[r] = "closed" /\ rpc' = [rpc EXCEPT ![r] = "opening"]
        /\ quiet' = [quiet EXCEPT ![r] = Whole(disk)]
        /\ UNCHANGED <<disk, handle>>
    BY <1>3 DEF StartOpen, writerVars
  <2>2. \A f \in Files : handle[r][f] = 0
    BY <2>1 DEF OpenedSoFar, NoFiles
  <2>3. ASSUME NEW q \in Readers, quiet'[q]
        PROVE  /\ Whole(disk)
               /\ rpc'[q] \in {"opening", "open"}
               /\ \A f \in Files : handle[q][f] \in {0, disk[f]}
    <3>1. CASE q = r
      BY <2>1, <2>2, <2>3, <3>1 DEF TypeOK
    <3>2. CASE q # r
      <4>1. quiet[q] /\ rpc'[q] = rpc[q]
        BY <2>1, <2>3, <3>2 DEF TypeOK
      <4> QED
        BY <4>1 DEF QuietSeesDisk
    <3> QED
      BY <3>1, <3>2
  <2>4. Whole(disk)' <=> Whole(disk)
    BY <2>1 DEF Whole
  <2>5. handle' = handle /\ disk' = disk
    BY <2>1
  <2>6. QuietSeesDisk'
    BY <2>3, <2>4, <2>5 DEF QuietSeesDisk
  <2> QED
    BY <1>0, <2>6
<1>4. ASSUME NEW r \in Readers, OpenFile(r)
      PROVE  QuietInv'
  <2> DEFINE f == OpenOrder[rpos[r]]
  <2>1. UNCHANGED <<disk, quiet>>
    BY <1>4 DEF OpenFile, writerVars
  <2>2. f \in Files
    BY <1>4, OrderFiles, OrderLength DEF OpenFile, TypeOK
  <2>3. CASE disk[f] = 0
    <3>1. ~quiet[r]
      BY <2>2, <2>3, OrderFiles DEF QuietSeesDisk, Whole
    <3>2. UNCHANGED handle /\ rpc' = [rpc EXCEPT ![r] = "refused"]
      BY <1>4, <2>3 DEF OpenFile
    <3> QED
      BY <1>0, <2>1, <3>1, <3>2 DEF QuietSeesDisk, TypeOK, Whole
  <2>4. CASE disk[f] # 0
    <3>1. /\ UNCHANGED rpc
          /\ \A q \in Readers : q # r => handle'[q] = handle[q]
          /\ handle'[r][f] = disk[f]
          /\ \A g \in Files : g # f => handle'[r][g] = handle[r][g]
      BY <1>4, <2>4, OpenFileFound
    <3> HIDE DEF f
    <3> QED
      BY <1>0, <2>1, <3>1 DEF QuietSeesDisk, Whole
  <2> QED
    BY <2>3, <2>4
<1>5. ASSUME NEW r \in Readers, CheckHeader(r)
      PROVE  QuietInv'
  <2>1. /\ UNCHANGED <<disk, handle, quiet>>
        /\ rpos[r] > Len(OpenOrder)
        /\ rpc' = [rpc EXCEPT ![r] = IF Related(handle[r]) THEN "open"
                                                           ELSE "refused"]
    BY <1>5 DEF CheckHeader, writerVars
  <2>2. quiet[r] => Related(handle[r])
    <3> SUFFICES ASSUME quiet[r] PROVE Related(handle[r])
      OBVIOUS
    <3>1. \A i \in 1..Len(OpenOrder) : i < rpos[r]
      BY <2>1, OrderLength DEF TypeOK
    <3>2. \A f \in Files : handle[r][f] # 0
      BY <3>1, OrderComplete DEF OpenedSoFar
    <3>3. \A f \in Files : handle[r][f] = disk["index"]
      BY <3>2 DEF QuietSeesDisk, Whole
    <3> QED
      BY <3>3, OrderFiles DEF Related
  <2> QED
    BY <1>0, <2>1, <2>2 DEF QuietSeesDisk, TypeOK, Whole
<1>6. ASSUME NEW r \in Readers, Close(r)
      PROVE  QuietInv'
  <2>1. /\ UNCHANGED disk /\ quiet' = [quiet EXCEPT ![r] = FALSE]
        /\ \A q \in Readers : q # r => rpc'[q] = rpc[q] /\ handle'[q] = handle[q]
    BY <1>6 DEF Close, writerVars, TypeOK
  <2> QED
    BY <1>0, <2>1 DEF QuietSeesDisk, TypeOK, Whole
<1>7. (Tick \/ BeginBuild \/ CreateFile \/ WriteIndex \/ Crash
        \/ OpenForUpdate \/ UpdateFile \/ EndUpdate \/ CloseFile \/ UNCHANGED vars)
      => UNCHANGED <<disk, rpc, handle, quiet>>
  BY DEF Tick, BeginBuild, CreateFile, WriteIndex, Crash, OpenForUpdate,
         UpdateFile, EndUpdate, CloseFile, vars, writerVars, readerVars
<1> QED
  BY <1>1, <1>2, <1>3, <1>4, <1>5, <1>6, <1>7
  DEF Next, WriterNext, ReaderNext

(* Reindexing does not get in the way of an open before its first rename:  *)
(* an open that starts on a whole index and meets no rename is accepted.   *)
THEOREM QuietAccepted == Spec => []QuietOpenAccepted
<1>1. Init => QuietInv
  BY TypeInit, OpenedInit DEF Init, QuietInv, QuietSeesDisk
<1>2. QuietInv /\ [Next]_vars => QuietInv'
  BY QuietStep
<1>3. QuietInv => QuietOpenAccepted
  BY DEF QuietInv, QuietSeesDisk, QuietOpenAccepted
<1> QED
  BY <1>1, <1>2, <1>3, PTL DEF Spec

-----------------------------------------------------------------------------
(***************************************************************************)
(* The files, renames and checks implement the one-step store.  Renaming   *)
(* the main file is the store's Replace, opening it is Look, DB_CheckHeader*)
(* is Accept or Refuse; every other step changes nothing the store sees.   *)
(***************************************************************************)
(* A build under way is newer than the index on disk, after every step.   *)
LEMMA NotCurrentStep ==
  MainFileInv /\ BuildNotCurrent /\ [Next]_vars => BuildNotCurrent'
<1> SUFFICES ASSUME MainFileInv, BuildNotCurrent, [Next]_vars
             PROVE  BuildNotCurrent'
  OBVIOUS
<1> USE DEF MainFileInv
<1>1. CASE BeginBuild
  <2>1. builds' = builds + 1 /\ UNCHANGED disk
    BY <1>1 DEF BeginBuild
  <2>2. disk["index"] <= builds /\ builds \in Nat /\ disk["index"] \in Nat
    BY OrderFiles DEF FilesBegun, TypeOK
  <2> QED
    BY <2>1, <2>2 DEF BuildNotCurrent
<1>2. CASE CreateFile \/ WriteIndex
  BY <1>2 DEF CreateFile, WriteIndex, BuildNotCurrent
<1>3. CASE PublishFile
  <2> DEFINE f == PublishOrder[wpos]
  <2>1. /\ wpc = "publish" /\ UNCHANGED builds /\ f \in Files
        /\ disk' = [disk EXCEPT ![f] = temp[f]]
    BY <1>3, OrderFiles DEF PublishFile, TypeOK
  <2>2. CASE f = "index"
    <3>1. wpos = Len(PublishOrder)
      BY <2>2, OrderFiles, OrderLength DEF TypeOK
    <3>2. wpc' = "idle"
      BY <3>1, <1>3 DEF PublishFile
    <3> QED
      BY <3>2 DEF BuildNotCurrent
  <2>3. CASE f # "index"
    BY <2>1, <2>3, OrderFiles DEF BuildNotCurrent, TypeOK
  <2> QED
    BY <2>2, <2>3
<1>4. (Tick \/ Crash \/ OpenForUpdate \/ UpdateFile \/ EndUpdate \/ CloseFile
        \/ ReaderNext \/ UNCHANGED vars)
      => /\ UNCHANGED <<builds, disk>>
         /\ wpc' = wpc \/ wpc' \in {"idle", "update", "close"}
  BY DEF Tick, Crash, OpenForUpdate, UpdateFile, EndUpdate, CloseFile, ReaderNext,
         StartOpen, OpenFile, CheckHeader, Close, vars, writerVars
<1>5. ASSUME UNCHANGED <<builds, disk>>,
             wpc' = wpc \/ wpc' \in {"idle", "update", "close"}
      PROVE  BuildNotCurrent'
  BY <1>5 DEF BuildNotCurrent
<1> QED
  BY <1>1, <1>2, <1>3, <1>4, <1>5 DEF Next, WriterNext

(* The main file is the first a searcher opens.                            *)
LEMMA MainFileFirst ==
  \A i \in 1..Len(OpenOrder) : OpenOrder[i] = "index" <=> i = 1
<1>1. OpenOrder[1] = "index"
  BY DEF OpenOrder
<1>2. 1 \in 1..Len(OpenOrder)
  BY OrderLength
<1> QED
  BY <1>1, <1>2, OrderOnce

RefinementInv == OneBuildInv /\ MainFileInv /\ BuildNotCurrent

(* Every step of the files is a step of the store, or a stutter.          *)
LEMMA RefinementStep ==
  RefinementInv /\ RefinementInv' /\ [Next]_vars => [Store!Next]_(Store!vars)
<1> SUFFICES ASSUME RefinementInv, RefinementInv', [Next]_vars
             PROVE  Store!Next \/ UNCHANGED Store!vars
  OBVIOUS
<1> USE DEF RefinementInv, OneBuildInv, MainFileInv
<1>1. ASSUME UNCHANGED <<rpc, handle>>
      PROVE  /\ [r \in Readers |-> LookedAt(r)]' = [r \in Readers |-> LookedAt(r)]
             /\ [r \in Readers |-> ViewOf(r)]' = [r \in Readers |-> ViewOf(r)]
  BY <1>1 DEF LookedAt, ViewOf, Whole
<1>2. ASSUME UNCHANGED <<rpc, handle>>, disk'["index"] = disk["index"]
      PROVE  UNCHANGED Store!vars
  BY <1>1, <1>2 DEF Store!vars
<1>3. CASE PublishFile
  <2> DEFINE f == PublishOrder[wpos]
  <2>1. /\ f \in Files
        /\ disk' = [disk EXCEPT ![f] = temp[f]]
        /\ UNCHANGED <<rpc, handle>>
        /\ wpc = "publish"
    BY <1>3, OrderFiles DEF PublishFile, Disturb, TypeOK
  <2>2. CASE f = "index"
    <3>1. temp[f] = builds
      <4>1. wpos \in 1..Len(OpenOrder) /\ wpos >= wpos
        BY OrderLength DEF TypeOK
      <4> QED
        BY <2>1, <4>1 DEF BuildInProgress
    <3>2. disk'["index"] = builds
      BY <2>1, <2>2, <3>1, OrderFiles DEF TypeOK
    <3>3. builds > disk["index"] /\ builds \in 1..MaxBuilds
      BY <2>1, OrderFiles, ConstantsAssumption DEF BuildNotCurrent, TypeOK
    <3> QED
      BY <1>1, <2>1, <3>2, <3>3 DEF Store!Next, Store!Replace
  <2>3. CASE f # "index"
    BY <1>2, <2>1, <2>3, OrderFiles DEF TypeOK
  <2> QED
    BY <2>2, <2>3
<1>4. ASSUME NEW r \in Readers,
             UNCHANGED disk,
             \A q \in Readers : q # r => rpc'[q] = rpc[q] /\ handle'[q] = handle[q]
      PROVE  /\ [q \in Readers |-> LookedAt(q)]'
                  = [[q \in Readers |-> LookedAt(q)] EXCEPT ![r] = LookedAt(r)']
             /\ [q \in Readers |-> ViewOf(q)]'
                  = [[q \in Readers |-> ViewOf(q)] EXCEPT ![r] = ViewOf(r)']
             /\ disk'["index"] = disk["index"]
  <2>1. ASSUME NEW q \in Readers, q # r
        PROVE  LookedAt(q)' = LookedAt(q) /\ ViewOf(q)' = ViewOf(q)
    BY <1>4, <2>1 DEF LookedAt, ViewOf, Whole
  <2>2. [q \in Readers |-> LookedAt(q)]'
          = [[q \in Readers |-> LookedAt(q)] EXCEPT ![r] = LookedAt(r)']
    BY <2>1, Zenon
  <2>3. [q \in Readers |-> ViewOf(q)]'
          = [[q \in Readers |-> ViewOf(q)] EXCEPT ![r] = ViewOf(r)']
    BY <2>1, Zenon
  <2> QED
    BY <1>4, <2>2, <2>3
<1>5. ASSUME NEW r \in Readers,
             LookedAt(r)' = LookedAt(r), ViewOf(r)' = ViewOf(r),
             UNCHANGED disk,
             \A q \in Readers : q # r => rpc'[q] = rpc[q] /\ handle'[q] = handle[q]
      PROVE  UNCHANGED Store!vars
  BY <1>4, <1>5 DEF Store!vars
<1>6. ASSUME NEW r \in Readers, StartOpen(r)
      PROVE  UNCHANGED Store!vars
  <2>1. /\ rpc[r] = "closed" /\ rpc'[r] = "opening"
        /\ UNCHANGED <<disk, handle>>
        /\ \A q \in Readers : q # r => rpc'[q] = rpc[q]
    BY <1>6 DEF StartOpen, writerVars, TypeOK
  <2>2. handle[r]["index"] = 0
    BY <2>1, OrderFiles DEF OpenedSoFar, NoFiles
  <2>3. LookedAt(r)' = LookedAt(r) /\ ViewOf(r)' = ViewOf(r)
    BY <2>1, <2>2 DEF LookedAt, ViewOf
  <2> QED
    BY <1>5, <2>1, <2>3
<1>7. ASSUME NEW r \in Readers, OpenFile(r)
      PROVE  Store!Next \/ UNCHANGED Store!vars
  <2> DEFINE f == OpenOrder[rpos[r]]
  <2>1. /\ UNCHANGED disk /\ rpc[r] = "opening"
        /\ rpos[r] \in 1..Len(OpenOrder)
    BY <1>7, OrderLength DEF OpenFile, writerVars, TypeOK
  <2>2. CASE disk[f] = 0
    <3>1. /\ UNCHANGED handle /\ rpc'[r] = "refused"
          /\ \A q \in Readers : q # r => rpc'[q] = rpc[q]
      BY <1>7, <2>2 DEF OpenFile, TypeOK
    <3>2. LookedAt(r)' = 0 /\ ViewOf(r)' = ViewOf(r)
      BY <2>1, <3>1 DEF LookedAt, ViewOf
    <3>3. CASE LookedAt(r) = 0
      BY <1>5, <2>1, <3>1, <3>2, <3>3
    <3>4. CASE LookedAt(r) # 0
      <4>1. [q \in Readers |-> ViewOf(q)]' = [q \in Readers |-> ViewOf(q)]
        BY <1>4, <2>1, <3>1, <3>2
      <4>2. Store!Refuse(r)
        BY <1>4, <2>1, <3>1, <3>2, <3>4, <4>1 DEF Store!Refuse
      <4> QED
        BY <4>2 DEF Store!Next
    <3> QED
      BY <3>3, <3>4
  <2>3. CASE disk[f] # 0
    <3>1. /\ UNCHANGED rpc
          /\ \A q \in Readers : q # r => handle'[q] = handle[q]
          /\ handle'[r][f] = disk[f]
          /\ \A g \in Files : g # f => handle'[r][g] = handle[r][g]
      BY <1>7, <2>3, OpenFileFound
    <3>2. ViewOf(r)' = ViewOf(r)
      BY <2>1, <3>1 DEF ViewOf
    <3>3. CASE f = "index"
      <4>1. LookedAt(r) = 0
        BY <2>1, <3>3, MainFileFirst, OrderFiles DEF OpenedSoFar, NoFiles, LookedAt
      <4>2. LookedAt(r)' = disk["index"] /\ disk["index"] # 0
        BY <2>1, <2>3, <3>1, <3>3 DEF LookedAt
      <4>3. ViewOf(r) = 0
        BY <2>1 DEF ViewOf
      <4>4. [q \in Readers |-> ViewOf(q)]' = [q \in Readers |-> ViewOf(q)]
        BY <1>4, <2>1, <3>1, <3>2
      <4>5. Store!Look(r)
        BY <1>4, <2>1, <3>1, <4>1, <4>2, <4>3, <4>4 DEF Store!Look
      <4> QED
        BY <4>5 DEF Store!Next
    <3>4. CASE f # "index"
      <4>1. LookedAt(r)' = LookedAt(r)
        BY <3>1, <3>4, OrderFiles DEF LookedAt
      <4> QED
        BY <1>5, <2>1, <3>1, <3>2, <4>1
    <3> QED
      BY <3>3, <3>4
  <2> QED
    BY <2>2, <2>3
<1>8. ASSUME NEW r \in Readers, CheckHeader(r)
      PROVE  Store!Next \/ UNCHANGED Store!vars
  <2>1. /\ UNCHANGED <<disk, handle>> /\ rpc[r] = "opening"
        /\ rpos[r] > Len(OpenOrder)
        /\ rpc'[r] = IF Related(handle[r]) THEN "open" ELSE "refused"
        /\ \A q \in Readers : q # r => rpc'[q] = rpc[q]
    BY <1>8 DEF CheckHeader, writerVars, TypeOK
  <2>2. handle[r]["index"] # 0
    <3>1. 1 \in 1..Len(OpenOrder) /\ 1 < rpos[r] /\ OpenOrder[1] = "index"
      BY <2>1, OrderLength, MainFileFirst DEF TypeOK
    <3> QED
      BY <3>1 DEF OpenedSoFar
  <2>3. /\ LookedAt(r) = handle[r]["index"] /\ LookedAt(r)' = 0
        /\ ViewOf(r) = 0
    BY <2>1 DEF LookedAt, ViewOf
  <2>4. CASE Related(handle[r])
    <3>1. Whole(handle[r])' /\ rpc'[r] = "open"
      BY <2>1, <2>4 DEF AcceptedIsOneBuild
    <3>2. ViewOf(r)' = handle[r]["index"]
      BY <2>1, <3>1 DEF ViewOf
    <3>3. /\ LookedAt(r) # 0 /\ UNCHANGED disk["index"]
          /\ LookedAt(r)' = 0 /\ ViewOf(r)' = LookedAt(r)
      BY <2>1, <2>2, <2>3, <3>2
    <3>4. \A q \in Readers :
            q # r => LookedAt(q)' = LookedAt(q) /\ ViewOf(q)' = ViewOf(q)
      BY <2>1 DEF LookedAt, ViewOf, Whole
    <3>5. [q \in Readers |-> ViewOf(q)]'
            = [[q \in Readers |-> ViewOf(q)] EXCEPT ![r] = LookedAt(r)]
      BY <3>3, <3>4
    <3>6. [q \in Readers |-> LookedAt(q)]'
            = [[q \in Readers |-> LookedAt(q)] EXCEPT ![r] = 0]
      BY <3>3, <3>4
    <3>7. Store!Accept(r)
      BY <3>3, <3>5, <3>6 DEF Store!Accept
    <3> QED
      BY <3>7 DEF Store!Next
  <2>5. CASE ~Related(handle[r])
    <3>1. ViewOf(r)' = 0
      BY <2>1, <2>5 DEF ViewOf
    <3>2. [q \in Readers |-> ViewOf(q)]' = [q \in Readers |-> ViewOf(q)]
      <4>1. \A q \in Readers : q # r => ViewOf(q)' = ViewOf(q)
        BY <2>1 DEF ViewOf, Whole
      <4>2. \A q \in Readers : ViewOf(q)' = ViewOf(q)
        BY <2>3, <3>1, <4>1
      <4> QED
        BY <4>2
    <3>3. \A q \in Readers : q # r => LookedAt(q)' = LookedAt(q)
      BY <2>1 DEF LookedAt
    <3>4. [q \in Readers |-> LookedAt(q)]'
            = [[q \in Readers |-> LookedAt(q)] EXCEPT ![r] = 0]
      BY <2>3, <3>3
    <3>5. LookedAt(r) # 0 /\ UNCHANGED disk["index"]
      BY <2>1, <2>2, <2>3
    <3>6. Store!Refuse(r)
      BY <3>2, <3>4, <3>5 DEF Store!Refuse
    <3> QED
      BY <3>6 DEF Store!Next
  <2> QED
    BY <2>4, <2>5
<1>9. ASSUME NEW r \in Readers, Close(r)
      PROVE  Store!Next \/ UNCHANGED Store!vars
  <2>1. /\ UNCHANGED disk /\ rpc[r] \in {"open", "refused"}
        /\ rpc'[r] = "closed"
        /\ \A q \in Readers : q # r => rpc'[q] = rpc[q] /\ handle'[q] = handle[q]
    BY <1>9 DEF Close, writerVars, TypeOK
  <2>2. LookedAt(r) = 0 /\ LookedAt(r)' = 0 /\ ViewOf(r)' = 0
    BY <2>1 DEF LookedAt, ViewOf
  <2>3. CASE rpc[r] = "refused"
    <3>1. ViewOf(r) = 0
      BY <2>3 DEF ViewOf
    <3> QED
      BY <1>5, <2>1, <2>2, <3>1
  <2>4. CASE rpc[r] = "open"
    <3>1. ViewOf(r) # 0
      BY <2>4 DEF ViewOf, AcceptedIsOneBuild, Whole
    <3>2. [q \in Readers |-> LookedAt(q)]' = [q \in Readers |-> LookedAt(q)]
      BY <1>4, <2>1, <2>2
    <3>3. Store!Release(r)
      BY <1>4, <2>1, <2>2, <3>1, <3>2 DEF Store!Release
    <3> QED
      BY <3>3 DEF Store!Next
  <2> QED
    BY <2>1, <2>3, <2>4
<1>10. (Tick \/ BeginBuild \/ CreateFile \/ WriteIndex \/ Crash
         \/ OpenForUpdate \/ UpdateFile \/ EndUpdate \/ CloseFile \/ UNCHANGED vars)
       => UNCHANGED <<disk, rpc, handle>>
  BY DEF Tick, BeginBuild, CreateFile, WriteIndex, Crash, OpenForUpdate,
         UpdateFile, EndUpdate, CloseFile, vars, writerVars, readerVars
<1> QED
  BY <1>2, <1>3, <1>6, <1>7, <1>8, <1>9, <1>10
  DEF Next, WriterNext, ReaderNext

(* Reindexing and searching at the same time behave like a store that      *)
(* replaces its index in one step.                                         *)
THEOREM StoreImplemented == ASSUME OneBuildPerSecond PROVE Spec => ImplementsStore
<1>1. Init => RefinementInv
  <2> SUFFICES ASSUME Init PROVE RefinementInv
    OBVIOUS
  <2>1. OneBuildInv
    BY OneBuildInit
  <2>2. FilesBegun /\ MainFileLast
    BY OrderFiles DEF Init, FilesBegun, MainFileLast, NoFiles
  <2>3. BuildInProgress /\ BuildNotCurrent
    BY DEF Init, BuildInProgress, BuildNotCurrent
  <2> QED
    BY <2>1, <2>2, <2>3 DEF RefinementInv, OneBuildInv, MainFileInv
<1>2. RefinementInv /\ [Next]_vars => RefinementInv'
  BY OneBuildStep, MainFileStep, NotCurrentStep DEF RefinementInv
<1>3. Init => Store!Init
  BY OrderFiles DEF Init, NoFiles, LookedAt, ViewOf, Store!Init
<1>4. RefinementInv /\ RefinementInv' /\ [Next]_vars => [Store!Next]_(Store!vars)
  BY RefinementStep
<1> QED
  BY <1>1, <1>2, <1>3, <1>4, PTL DEF Spec, Store!Spec, ImplementsStore
=============================================================================
