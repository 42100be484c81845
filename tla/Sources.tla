------------------------------ MODULE Sources ------------------------------
(***************************************************************************)
(* Where documents come from: one of the data sources of methods.c, chosen *)
(* by -S.  Each has its own state and is asked to index one address of     *)
(* IndexDir after the other (cmd_index).                                   *)
(***************************************************************************)
EXTENDS Spider, FileSystem, ExternalProgram

VARIABLES method   \* "fs", "http" or "prog"

sourcesVars == <<method, fsVars, spiderVars, progVars>>

(* A source that is not used stays as it is at first.                      *)
AnInput == CHOOSE i \in Inputs : TRUE
ATree == CHOOSE t \in Trees : TRUE
SpiderUnused == input = AnInput /\ SpiderInit
FsUnused == tree = ATree /\ FsInit

(* The function of the source that swish calls through                     *)
(* IndexingDataSource.                                                     *)
SourcesInit ==
  \/ method = "fs" /\ FsInit /\ SpiderUnused /\ ProgInit
  \/ method = "http" /\ FsUnused /\ SpiderInit /\ ProgInit
  \/ method = "prog" /\ FsUnused /\ SpiderUnused /\ ProgInit

FromFiles(step) == method = "fs" /\ step /\ UNCHANGED <<method, spiderVars, progVars>>
FromWeb(step) == method = "http" /\ step /\ UNCHANGED <<method, fsVars, progVars>>
FromProgram(step) == method = "prog" /\ step /\ UNCHANGED <<method, fsVars, spiderVars>>

(* What swish does, and what others do meanwhile.                          *)
IndexPath ==
  FromFiles(IndexADir \/ PrintFile) \/ FromWeb(SpiderNext) \/ FromProgram(ReadStream)
Others ==
  FromFiles(Disappear) \/ FromProgram(\E d \in Documents : WriteDocument(d))

SourcesNext == IndexPath \/ Others

(* Swish runs on while it can.                                             *)
SourcesSpec ==
  SourcesInit /\ [][SourcesNext]_sourcesVars /\ WF_sourcesVars(IndexPath)

-----------------------------------------------------------------------------
(* Properties.                                                             *)

(* Reading the documents ends, with links and redirects that run in        *)
(* circles (SpiderDone: all addresses tried, none left to retrieve),       *)
(* directories that contain links to each other, and programs whose output *)
(* is in error.                                                            *)
SourcesEnd ==
  <>(CASE method = "fs" -> FsDone
       [] method = "http" -> SpiderDone
       [] method = "prog" -> prog \in {"closed", "error"})
=============================================================================
