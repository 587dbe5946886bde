---------------------------- MODULE SolutionScan ----------------------------
(***************************************************************************)
(* What `csnap scan` does to its snapshot before it waits for results:     *)
(* Scanner::initSnapshot, openSln (indexer/src/sln.cpp), the first flush   *)
(* and addFilesContent() (indexer/src/scanner.cpp).  A project of the      *)
(* solution has the headers and the sources it lists and, unless its file  *)
(* has no ItemDefinitionGroup, the fields of its defines and of its        *)
(* include directories, which vcxproj cuts at ';'.                         *)
(***************************************************************************)
EXTENDS SnapshotCaches

CONSTANTS Solution,  \* sequences of projects
          MaxBusy    \* bound: the commits that fail

VARIABLE todo  \* the calls still to make; a list of calls is a sequence of records

SetPropertyCall(k) == [call |-> "setProperty", arg |-> k]
AddFileCall(p)     == [call |-> "addFile", arg |-> p]

(* listFiles: a file of two projects is added twice *)
ListFiles(solution) ==
    LET pathsOf(project) == project.includeList \o project.compileList
        paths == Folded([p \in Seq(Path) \X Range(solution) |-> p[1] \o pathsOf(p[2])], <<>>, solution)
    IN  [i \in DOMAIN paths |-> AddFileCall(paths[i])]

(* the parsing of the options of a project *)
ProjectOptions(project) ==
    [defines |-> DefinesOf(project.defines),
     includedirs |-> Range(project.includedirs)]

ASSUME SolutionAssumption ==
    /\ {"csnap.version", "sln.path"} \subseteq Key /\ "any" \in Value /\ MaxBusy \in Nat
    /\ Solution \subseteq Seq(UNION {Range(solution) : solution \in Solution})
    /\ \A solution \in Solution : \A project \in Range(solution) :
          /\ {project.includeList, project.compileList} \subseteq Seq(Path)
          /\ project.defines # Null => ProjectOptions(project) \in Options

(* listTranslationUnits *)
ListTranslationUnits(solution) ==
    LET withGroup == Selected({project \in Range(solution) : project.defines # Null}, solution)
    IN  [i \in DOMAIN withGroup |->
            [call |-> "addTranslationUnits", arg |-> withGroup[i].compileList,
             options |-> ProjectOptions(withGroup[i])]]

OpenSln(solution) ==
    <<SetPropertyCall("sln.path")>> \o ListFiles(solution) \o ListTranslationUnits(solution)

(* mutant of ScanSln: the texts are copied before the files are flushed *)
ScanSlnCopyingFirst(solution) ==
    <<SetPropertyCall("csnap.version")>> \o OpenSln(solution)
    \o << [call |-> "addFilesContent"], [call |-> "writePendingData"] >>

ScanSln(solution) ==
    <<SetPropertyCall("csnap.version")>> \o OpenSln(solution)
    \o << [call |-> "writePendingData"], [call |-> "addFilesContent"] >>

ScanInit ==
    /\ \E solution \in Solution :
          /\ todo = ScanSln(solution)
          /\ InitFor(Len(todo), MaxBusy)
    /\ CachesInit
-----------------------------------------------------------------------------
(* FileList::find: the first file of the path *)
FindFile(p) == LET ids == {id \in DOMAIN files : files[id] = p}
               IN  IF ids = {} THEN Null ELSE Min(ids)

(* the sources that are among the files of the snapshot *)
Found(paths) ==
    Selected(DOMAIN files, [i \in DOMAIN paths |-> FindFile(paths[i])])

AddFound(list, options) ==
    \/ list = <<>> /\ UNCHANGED vars
    \/ list # <<>> /\ AddTranslationUnits(list, options)

Make(c) ==
    \/ c.call = "setProperty" /\ SetProperty(c.arg, "any")
    \/ c.call = "addFile" /\ AddFile(c.arg)
    \/ c.call = "addTranslationUnits" /\ AddFound(Found(c.arg), c.options)
    \/ c.call = "writePendingData" /\ Begin(FALSE)
    \/ c.call = "addFilesContent" /\ AddFilesContent

NextCall ==
    /\ todo # <<>>
    /\ Make(Head(todo))
    /\ todo' = Tail(todo)
    /\ UNCHANGED cacheVars

(* the snapshot may be opened and closed again when the scan has ended *)
Scanning ==
    \/ NextCall
    \/ Proceeding /\ todo' = IF isOpen' THEN todo ELSE <<>>
    \/ Open /\ UNCHANGED <<cacheVars, todo>>

ScanSpec == ScanInit /\ [][Scanning]_<<vars, cacheVars, todo>>
-----------------------------------------------------------------------------
(* The scan flushes the files before it copies them, so that none is missed: when the copy of
   a scan returns, every file that exists has its text in the database, a file of several projects
   in each of its places, and every unit has the row of the first of them. *)
ScanCopiesAll ==
    [][todo # Null /\ copying # 0 /\ copying' = 0 /\ isOpen' =>
         LET rows == Range(work'["file"])
         IN  /\ \A id \in DOMAIN files : text[files[id]] # Null =>
                   [id |-> id, path |-> files[id], content |-> <<files[id], text[files[id]]>>] \in rows
             /\ \A unit \in Range(work'["translationunit"]) : \A row1, row2 \in rows :
                   unit.file = row1.id /\ row2.path = row1.path => row1.id <= row2.id]_<<vars, todo>>
=============================================================================
