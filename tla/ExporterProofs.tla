--------------------------- MODULE ExporterProofs ---------------------------
(***************************************************************************)
(* Theorems about what the exporter writes where: its folders, paths and   *)
(* links, the table of definitions and the references noted on the page of *)
(* a file, whatever the project and the snapshot.                          *)
(*                                                                         *)
(* That the walk over the growing set of folders closes it, and adds       *)
(* nothing else. The invariant of the loop is that every folder before the *)
(* iterator has its parent in the set; a parent sorts before its folder,   *)
(* so going back to it is enough. ExportInv follows the whole of run(),    *)
(* which starts the walk.                                                  *)
(*                                                                         *)
(* That the pages of folders are completed unless a page beside a folder   *)
(* is named like it. Before it come lemmas about paths: a tidy path is the *)
(* folder around it and a name, and so are its names.                      *)
(*                                                                         *)
(* That links lead where they are meant to (LinksInv): a relative link     *)
(* goes up from the folder of its page to the one that both are in, and    *)
(* then down; the names of the page and its link give the names of what is *)
(* linked (LinkLeads). And that the page of a file is found from every     *)
(* folder around it (ListedInv): their pages are there and stay as they    *)
(* were written, since no two pages have the same path.                    *)
(*                                                                         *)
(* What the table of definitions finds, for every list of definitions. The *)
(* invariant of its loop says what is known of the definitions before the  *)
(* place i: those from start on are of the current symbol, and the symbols *)
(* before it have their entries, at their first definition. The pages      *)
(* leave the table as it was built, so a behavior of SymbolPage is one of  *)
(* DefinitionTable.                                                        *)
(*                                                                         *)
(* Of the page of a file whose rows come in order: that its references are *)
(* written as notes at their tokens (PageInv), none is left out            *)
(* (NotedInv), and one is left of those of a place (PlacesInv). Order is   *)
(* what sourcehighlighter.cpp relies on and does not say. What a browser   *)
(* makes of a page is the subject of PageProofs.                           *)
(***************************************************************************)
EXTENDS Exporter, SymbolPage, SequenceLemmas, TLAPS
-----------------------------------------------------------------------------
(* Passed(d): the walk is beyond d *)
Passed(d) == at = NoFolder \/ Before(d, at)

FoldersInv ==
    /\ FoldersTypeOK
    /\ \A d \in folders : Passed(d) => ~Missing(d)
    /\ \A d \in folders \ listed : \E c \in folders \ {d} : Parent(c) = d

(* The order of the set: what is not behind a folder, nor that folder, is before it. *)
LEMMA NotBehind ==
    ASSUME FoldersTypeOK, at # NoFolder, NEW d \in folders, d \notin Behind(at), d # at
    PROVE  Before(d, at)
BY FoldersAssumption DEF FoldersTypeOK, Behind

(* The walk starts at the first folder, so nothing is passed. *)
LEMMA InitFolders == FoldersInit => FoldersInv
<1> SUFFICES ASSUME FoldersInit PROVE FoldersInv
  OBVIOUS
<1>1. FoldersTypeOK
  BY DEF FoldersInit, FoldersTypeOK
<1>2. ASSUME NEW d \in folders, Passed(d) PROVE FALSE
  <2>1. at \in folders /\ at # NoFolder /\ d \in Folder
    BY FoldersAssumption DEF FoldersInit, IsFirst
  <2>2. d = at \/ Before(at, d)
    BY <2>1 DEF FoldersInit, IsFirst
  <2> QED
    BY <1>2, <2>1, <2>2, FoldersAssumption DEF Passed, FoldersInit
<1> QED
  BY <1>1, <1>2 DEF FoldersInv, FoldersInit

(* Going back to the parent that was inserted, or on to the next folder, leaves only
   folders with their parents behind. *)
LEMMA NextFolders == ASSUME FoldersInv, [FoldersNext]_folderVars PROVE FoldersInv'
<1> USE DEF FoldersInv
<1>1. CASE InsertParent
  <2> USE <1>1 DEF InsertParent
  <2>1. at \in folders /\ at \in Folder /\ Parent(at) \in Folder /\ Parent(at) \notin folders
    BY FoldersAssumption DEF FoldersTypeOK, Missing
  <2>2. FoldersTypeOK'
    BY <2>1 DEF FoldersTypeOK
  <2>3. ASSUME NEW d \in folders', Passed(d)' PROVE ~Missing(d)'
    <3>1. Before(d, Parent(at)) /\ d \in Folder
      BY <2>1, <2>2, <2>3, FoldersAssumption DEF Passed, FoldersTypeOK
    <3>2. d \in folders
      BY <2>1, <3>1, FoldersAssumption
    <3>3. Before(d, at)
      BY <2>1, <3>1, FoldersAssumption
    <3> QED
      BY <3>2, <3>3 DEF Passed, Missing
  <2>4. ASSUME NEW d \in folders' \ listed' PROVE \E c \in folders' \ {d} : Parent(c) = d
    BY <2>1
  <2> QED
    BY <2>2, <2>3, <2>4
<1>2. CASE Advance
  <2> USE <1>2 DEF Advance
  <2>1. FoldersTypeOK'
    BY DEF FoldersTypeOK
  <2>2. ASSUME NEW d \in folders, Passed(d)' PROVE ~Missing(d)'
    <3>1. d \notin Behind(at)
      <4>1. SUFFICES ASSUME d \in Behind(at) PROVE FALSE
        OBVIOUS
      <4>2. at' \in Behind(at) /\ (d = at' \/ Before(at', d))
        BY <4>1 DEF IsFirst
      <4>3. at' \in Folder /\ d \in Folder /\ at' # NoFolder
        BY <4>2, FoldersAssumption DEF Behind, FoldersTypeOK
      <4> QED
        BY <2>2, <4>2, <4>3, FoldersAssumption DEF Passed
    <3>2. d = at \/ Before(d, at)
      BY <3>1, NotBehind
    <3>3. ~Missing(d)
      BY <3>2 DEF Passed
    <3> QED
      BY <3>3 DEF Missing
  <2> QED
    BY <2>1, <2>2
<1>3. CASE UNCHANGED folderVars
  BY <1>3 DEF folderVars, FoldersTypeOK, Passed, Missing
<1> QED
  BY <1>1, <1>2, <1>3 DEF FoldersNext

(* For every set of pages the folders that list_directories_recursive returns are
   those around pages, all of them and no others. *)
THEOREM FoldersClosed == FoldersSpec => []FoldersAreRight
<1>1. FoldersInv => FoldersAreRight
  BY DEF FoldersInv, FoldersAreRight, Passed
<1> QED
  BY <1>1, InitFolders, NextFolders, PTL DEF FoldersSpec
-----------------------------------------------------------------------------
(* What the exporter has done when it comes to the folders, and before. *)
PathsInv ==
    /\ rootpath \in {<<>>, RootOf(File)}
    /\ nbFiles \in 0..Len(project)
    /\ DOMAIN paths = {project[k] : k \in 1..nbFiles}
    /\ \A f \in DOMAIN paths : paths[f] = PageOf(f)
    /\ phase = "root" => nbFiles = 0

ExportInv ==
    /\ project \in Projects
    /\ PathsInv
    /\ phase \in {"root", "files"} => listed = {} /\ folders = {} /\ at = NoFolder
    /\ FoldersInv

LEMMA ProjectIsList ==
    ASSUME project \in Projects
    PROVE  /\ Len(project) \in Nat /\ DOMAIN project = 1..Len(project)
           /\ File = {project[k] : k \in 1..Len(project)}
  BY ExporterAssumption DEF File, Range

LEMMA InitExport == ExportInit => ExportInv
<1> SUFFICES ASSUME ExportInit PROVE ExportInv
  OBVIOUS
<1> USE DEF ExportInit
<1>1. PathsInv
  BY ProjectIsList DEF PathsInv
<1>2. FoldersInv
  BY DEF FoldersInv, FoldersTypeOK
<1> QED
  BY <1>1, <1>2 DEF ExportInv

(* The steps that leave the paths of the pages and the folders as they are. *)
LEMMA SamePaths ==
    ASSUME PathsInv, UNCHANGED <<project, rootpath, paths, nbFiles>>, phase # "root"
    PROVE  phase' # "root" => PathsInv'
  BY DEF PathsInv, PageOf, File

LEMMA SameFolders == ASSUME FoldersInv, UNCHANGED folderVars PROVE FoldersInv'
  BY DEF folderVars, FoldersInv, FoldersTypeOK, Passed, Missing

LEMMA RootDetected == ExportInv /\ DetectRootPath => ExportInv'
<1> SUFFICES ASSUME ExportInv, DetectRootPath PROVE ExportInv'
  OBVIOUS
<1> USE DEF DetectRootPath, inputVars
<1>1. PathsInv'
  <2>1. rootpath' \in {<<>>, RootOf(File)}
    BY DEF ExportInv, PathsInv
  <2>2. nbFiles = 0 /\ DOMAIN paths = {}
    BY DEF ExportInv, PathsInv
  <2> QED
    BY <2>1, <2>2 DEF ExportInv, PathsInv, File
<1> QED
  BY <1>1, SameFolders DEF ExportInv, folderVars

LEMMA FileWritten == ExportInv /\ WriteFilePage => ExportInv'
<1> SUFFICES ASSUME ExportInv, WriteFilePage PROVE ExportInv'
  OBVIOUS
<1>1. /\ UNCHANGED <<phase, project, rootpath>> /\ UNCHANGED folderVars
      /\ phase = "files" /\ nbFiles < Len(project) /\ nbFiles' = nbFiles + 1
      /\ paths' = [g \in DOMAIN paths \cup {project[nbFiles + 1]} |-> PageOf(g)]
  BY DEF WriteFilePage, inputVars
<1>2. PathsInv'
  <2>1. nbFiles' \in 0..Len(project') /\ 1..nbFiles' = (1..nbFiles) \cup {nbFiles + 1}
    BY <1>1, ProjectIsList DEF ExportInv, PathsInv
  <2>2. DOMAIN paths' = {project[k] : k \in 1..nbFiles'}
    BY <1>1, <2>1 DEF ExportInv, PathsInv
  <2>3. \A f \in DOMAIN paths' : paths'[f] = PageOf(f)'
    BY <1>1 DEF PageOf
  <2> QED
    BY <1>1, <2>1, <2>2, <2>3 DEF ExportInv, PathsInv, File
<1> QED
  BY <1>1, <1>2, SameFolders DEF ExportInv, folderVars

LEMMA FoldersOfPages == ExportInv /\ ListPageFolders => ExportInv'
<1> SUFFICES ASSUME ExportInv, ListPageFolders PROVE ExportInv'
  OBVIOUS
<1> DEFINE S == {ParentPath(paths[f]) : f \in File} \ {NoFolder}
<1>1. /\ UNCHANGED <<project, rootpath, paths, nbFiles>>
      /\ phase = "files" /\ nbFiles = Len(project) /\ phase' = "folders"
      /\ ListDirectories(S)
  BY DEF ListPageFolders, inputVars
<1>2. PathsInv'
  BY <1>1, SamePaths DEF ExportInv
<1>3. DOMAIN paths = File
  BY <1>1, ProjectIsList DEF ExportInv, PathsInv
<1>4. \A f \in File : ParentPath(PageFrom(rootpath, f)) \in Folder \cup {NoFolder}
  BY ExporterAssumption DEF ExportInv, PathsInv, File
<1>5. S \in SUBSET Folder
  BY <1>3, <1>4 DEF ExportInv, PathsInv, PageOf
<1> HIDE DEF S
<1>6. FoldersInit'
  BY <1>1, <1>5 DEF ListDirectories, FoldersInit
<1>7. (FoldersInit => FoldersInv)'
  BY InitFolders, PTL
<1> QED
  BY <1>1, <1>2, <1>6, <1>7 DEF ExportInv

LEMMA NextExport == ExportInv /\ [ExportNext]_exportVars => ExportInv'
<1> SUFFICES ASSUME ExportInv, [ExportNext]_exportVars PROVE ExportInv'
  OBVIOUS
<1>1. CASE CloseFolders
  <2>1. /\ UNCHANGED <<phase, project, rootpath, paths, nbFiles>> /\ phase = "folders"
        /\ FoldersNext
    BY <1>1 DEF CloseFolders, inputVars, FoldersNext
  <2>2. FoldersInv'
    BY <2>1, NextFolders DEF ExportInv
  <2>3. PathsInv'
    BY <2>1, SamePaths DEF ExportInv
  <2> QED
    BY <2>1, <2>2, <2>3 DEF ExportInv
<1>2. ASSUME UNCHANGED <<project, rootpath, paths, nbFiles, folderVars>>, phase # "root",
             phase' = phase \/ phase' \notin {"root", "files"}
      PROVE  ExportInv'
  BY <1>2, SamePaths, SameFolders DEF ExportInv, folderVars
<1>3. CASE FoldersListed \/ DirectoryPagesWritten \/ WriteSymbolPage \/ SymbolPagesWritten
  BY <1>2, <1>3 DEF FoldersListed, DirectoryPagesWritten, WriteSymbolPage, SymbolPagesWritten, inputVars
<1>4. ASSUME NEW dir \in todo, WriteDirectoryPage(dir) \/ ThrowOutOfRange(dir) PROVE ExportInv'
  BY <1>2, <1>4 DEF WriteDirectoryPage, ThrowOutOfRange, inputVars
<1>5. CASE UNCHANGED exportVars
  BY <1>5, SameFolders DEF exportVars, inputVars, folderVars, ExportInv, PathsInv, PageOf, File
<1> QED
  BY <1>1, <1>3, <1>4, <1>5, RootDetected, FileWritten, FoldersOfPages DEF ExportNext

(* The folders whose pages are written are those around the pages of the project, whatever
   the project and its root: what FoldersClosed says of the loop holds in run(). *)
THEOREM ExportedFoldersClosed == ExportSpec => []FoldersAreRight
<1>1. ExportInv => FoldersAreRight
  BY DEF ExportInv, FoldersInv, FoldersAreRight, Passed
<1> QED
  BY <1>1, InitExport, NextExport, PTL DEF ExportSpec
-----------------------------------------------------------------------------
(* names, and what is not empty of them *)
Unslashed == Seq(Char \ {"/"})
Name == Unslashed \ {<<>>}

(* Of these characters and names the exporter makes paths. *)
LEMMA Chars ==
    /\ {"/", ".html", "index.html", "symbols"} \subseteq Char
    /\ Unslashed \subseteq Seq(Char) /\ <<>> \in Unslashed
    /\ <<"/">> \in Seq(Char) /\ Html \in Name /\ Index \in Name
<1>1. {"/", ".html", "index.html", "symbols"} \subseteq Char
  BY ExporterAssumption
<1>2. ".html" # "/" /\ "index.html" # "/"
  OBVIOUS
<1>3. ASSUME NEW c \in Char PROVE <<c>> \in Seq(Char) /\ (c # "/" => <<c>> \in Name)
  BY DEF Unslashed, Name
<1>4. Unslashed \subseteq Seq(Char) /\ <<>> \in Unslashed
  BY DEF Unslashed
<1> QED
  BY <1>1, <1>2, <1>3, <1>4 DEF Html, Index

(* One name is one part, and a slash begins another. *)
LEMMA OnePart ==
    ASSUME NEW m \in Unslashed
    PROVE  Cut(Char, "/", m) = <<m>>
<1>1. "/" \in Char /\ <<>> \in Seq(Char) /\ m \in Seq(Char \ {"/"}) /\ m \in Seq(Char)
  BY Chars DEF Unslashed
<1>2. Cut(Char, "/", <<>> \o m)
          = [Cut(Char, "/", <<>>) EXCEPT ![Len(Cut(Char, "/", <<>>))] = @ \o m]
  <2> DEFINE none == <<>>
  <2>1. none \in Seq(Char)
    BY <1>1
  <2> HIDE DEF none
  <2>2. Cut(Char, "/", none \o m) = [Cut(Char, "/", none) EXCEPT ![Len(Cut(Char, "/", none))] = @ \o m]
    BY <1>1, <2>1, CutBehind
  <2> QED
    BY <2>2 DEF none
<1>3. <<>> \o m = m
  BY <1>1
<1> DEFINE F == << <<>> >>
<1>4. Len(F) = 1 /\ F[1] = <<>> /\ DOMAIN F = {1}
  OBVIOUS
<1>5. Cut(Char, "/", <<>>) = F
  BY CutNone
<1>6. [F EXCEPT ![1] = m] = <<m>>
  OBVIOUS
<1> HIDE DEF F
<1> QED
  BY <1>2, <1>3, <1>4, <1>5, <1>6, Zenon

(* A slash and a name behind a path are one more part of it. *)
LEMMA OneMorePart ==
    ASSUME NEW dir \in Seq(Char), NEW m \in Unslashed
    PROVE  Cut(Char, "/", Append(dir, "/") \o m) = Append(Cut(Char, "/", dir), m)
<1> DEFINE parts == Cut(Char, "/", dir)
           t == Append(dir, "/")
           Part == Seq(Char)
<1>1. "/" \in Char /\ m \in Seq(Char \ {"/"}) /\ m \in Part /\ <<>> \in Part /\ <<>> \o m = m
  BY Chars DEF Unslashed
<1>2. parts \in Seq(Part) /\ Cut(Char, "/", t) = CutStep("/", parts, "/") /\ t \in Seq(Char)
  <2>1. t \in Seq(Char)
    BY <1>1
  <2> QED
    BY <1>1, <2>1, CutMore
<1>3. Cut(Char, "/", t) = Append(parts, <<>>)
  BY <1>2 DEF CutStep
<1> DEFINE longer == Append(parts, <<>>)
<1> HIDE DEF t
<1>4. Cut(Char, "/", t \o m) = [longer EXCEPT ![Len(longer)] = @ \o m]
  <2>1. t \in Seq(Char) /\ m \in Seq(Char \ {"/"}) /\ "/" \in Char
    BY <1>1, <1>2
  <2>2. Cut(Char, "/", t \o m) = [Cut(Char, "/", t) EXCEPT ![Len(Cut(Char, "/", t))] = @ \o m]
    BY <2>1, CutBehind
  <2> QED
    BY <1>3, <2>2, Zenon
<1> HIDE DEF parts, Part
<1>5. Len(longer) = Len(parts) + 1 /\ longer[Len(parts) + 1] = <<>>
  BY <1>1, <1>2
<1>6. [longer EXCEPT ![Len(parts) + 1] = m] = Append(parts, m)
  <2> DEFINE n == Len(parts)
  <2>1. /\ parts \in Seq(Part) /\ m \in Part /\ <<>> \in Part /\ n \in Nat
    BY <1>1, <1>2
  <2>2. DOMAIN longer = 1..n + 1 /\ DOMAIN Append(parts, m) = 1..n + 1
    BY <2>1
  <2>3. \A h \in 1..n : longer[h] = Append(parts, m)[h]
    BY <2>1
  <2>4. Append(parts, m)[n + 1] = m
    BY <2>1
  <2> DEFINE new == [longer EXCEPT ![n + 1] = m]
  <2>5. longer \in Seq(Part) /\ Append(parts, m) \in Seq(Part) /\ Len(longer) = n + 1
    BY <2>1
  <2> HIDE DEF longer, n
  <2>6. new \in Seq(Part) /\ Len(new) = n + 1
    BY <2>1, <2>5
  <2>7. Len(Append(parts, m)) = n + 1 /\ n + 1 \notin 1..n
    BY <2>1 DEF n
  <2>8. \A h \in 1..n + 1 : new[h] = Append(parts, m)[h]
    BY <2>1, <2>2, <2>3, <2>4, <2>7
  <2> HIDE DEF new
  <2>9. new = Append(parts, m)
    BY <2>5, <2>6, <2>7, <2>8, SeqEqual
  <2> QED
    BY <2>9 DEF new, n
<1>7. [longer EXCEPT ![Len(longer)] = @ \o m] = [longer EXCEPT ![Len(parts) + 1] = m]
  BY <1>1, <1>5, Zenon
<1> QED
  BY <1>4, <1>6, <1>7, Zenon DEF t, parts

(* The names of a path behind its root folder. *)
Inner(p) == Selected(Seq(Char) \ {<<>>}, Cut(Char, "/", p))

(* An empty part is no name, another is. *)
LEMMA InnerMore ==
    ASSUME NEW dir \in Seq(Char), NEW m \in Unslashed
    PROVE  /\ Inner(dir) \in Seq(Seq(Char) \ {<<>>})
           /\ Inner(Append(dir, "/") \o m) = IF m = <<>> THEN Inner(dir) ELSE Append(Inner(dir), m)
<1> DEFINE Part == Seq(Char)
           S == Part \ {<<>>}
           parts == Cut(Char, "/", dir)
<1>1. m \in Part /\ "/" \in Char
  BY Chars
<1>2. parts \in Seq(Part)
  BY <1>1, CutMore
<1>3. Inner(Append(dir, "/") \o m) = Selected(S, Append(parts, m))
  BY OneMorePart, Zenon DEF Inner
<1>4. Inner(dir) = Selected(S, parts)
  BY DEF Inner
<1>5. m \in S <=> m # <<>>
  BY <1>1
<1>6. Part \cap S = S
  OBVIOUS
<1> HIDE DEF parts, S, Part
<1>7. Selected(S, Append(parts, m)) = IF m \in S THEN Append(Selected(S, parts), m) ELSE Selected(S, parts)
  BY <1>1, <1>2, SelectedAppend
<1>8. Selected(S, parts) \in Seq(Part \cap S)
  BY <1>2, SelectedType
<1>9. Selected(S, parts) \in Seq(S)
  BY <1>6, <1>8
<1> QED
  BY <1>3, <1>4, <1>5, <1>7, <1>9, Zenon DEF S, Part

(* The same of a path without a slash. *)
LEMMA InnerOne ==
    ASSUME NEW m \in Unslashed
    PROVE  Inner(m) = IF m = <<>> THEN <<>> ELSE <<m>>
<1> DEFINE Part == Seq(Char)
           S == Part \ {<<>>}
           none == <<>>
<1>1. m \in Part /\ <<m>> = Append(none, m) /\ none \in Seq(Part)
  BY Chars
<1>2. Inner(m) = Selected(S, Append(none, m))
  BY <1>1, OnePart DEF Inner
<1>3. m \in S <=> m # <<>>
  BY <1>1
<1>4. Selected(S, none) = none
  BY SelectedEmpty
<1> HIDE DEF none, S, Part
<1>5. Selected(S, Append(none, m)) = IF m \in S THEN Append(Selected(S, none), m) ELSE Selected(S, none)
  BY <1>1, SelectedAppend
<1> QED
  BY <1>1, <1>2, <1>3, <1>4, <1>5 DEF none

(* The names of the empty path and of the root folder. *)
LEMMA NamesOfRoots == Names(<<>>) = <<>> /\ Names(<<"/">>) = << <<"/">> >>
<1>1. <<>> \in Seq(Char) /\ <<>> \in Unslashed /\ Append(<<>>, "/") \o <<>> = <<"/">>
  BY Chars
<1>2. Inner(<<>>) = <<>>
  BY <1>1, InnerOne
<1>3. Inner(<<"/">>) = <<>>
  <2> DEFINE dir == <<>>
  <2>1. dir \in Seq(Char) /\ Append(dir, "/") \o dir = <<"/">> /\ dir \in Unslashed /\ dir = <<>>
    BY <1>1
  <2> HIDE DEF dir
  <2>2. Inner(Append(dir, "/") \o dir) = Inner(dir)
    BY <2>1, InnerMore, Zenon
  <2> QED
    BY <1>2, <2>1, <2>2
<1>4. ~IsAbsolute(<<>>) /\ IsAbsolute(<<"/">>)
  BY DEF IsAbsolute
<1>5. <<>> \o <<>> = <<>> /\ << <<"/">> >> \o <<>> = << <<"/">> >>
  OBVIOUS
<1> QED
  BY <1>2, <1>3, <1>4, <1>5, Zenon DEF Names, Inner

(* The names of a path that is one name. *)
LEMMA NamesOfName ==
    ASSUME NEW m \in Name
    PROVE  Names(m) = Append(Names(<<>>), m)
<1>1. m \in Unslashed /\ m # <<>>
  BY DEF Name
<1>2. ~IsAbsolute(m)
  <2>1. Head(m) \in Char \ {"/"}
    BY <1>1 DEF Unslashed
  <2> QED
    BY <2>1 DEF IsAbsolute
<1>3. Inner(m) = <<m>>
  BY <1>1, InnerOne
<1>4. <<>> \o <<m>> = <<m>> /\ Append(<<>>, m) = <<m>>
  OBVIOUS
<1> QED
  BY <1>2, <1>3, <1>4, NamesOfRoots, Zenon DEF Names, Inner

(* A name in the root folder. *)
LEMMA NamesInRoot ==
    ASSUME NEW m \in Name
    PROVE  Names(<<"/">> \o m) = Append(Names(<<"/">>), m)
<1> DEFINE dir == <<>>
           p == <<"/">> \o m
<1>1. m \in Unslashed /\ m # <<>> /\ dir \in Seq(Char) /\ <<"/">> \in Seq(Char) /\ m \in Seq(Char)
      /\ Append(dir, "/") = <<"/">> /\ Inner(dir) = <<>>
  BY Chars, InnerOne DEF Name
<1>2. IsAbsolute(p)
  BY <1>1 DEF IsAbsolute
<1> HIDE DEF dir
<1>3. Inner(p) = Append(<<>>, m)
  BY <1>1, InnerMore, Zenon
<1>4. << <<"/">> >> \o Append(<<>>, m) = Append(<< <<"/">> >>, m)
  OBVIOUS
<1> HIDE DEF p
<1> QED
  BY <1>2, <1>3, <1>4, NamesOfRoots, Zenon DEF Names, Inner, p

(* A name in another folder. *)
LEMMA NamesInFolder ==
    ASSUME NEW dir \in Seq(Char), dir # <<>>, NEW m \in Name
    PROVE  Names(Append(dir, "/") \o m) = Append(Names(dir), m) /\ Names(dir) \in Seq(Seq(Char))
<1> DEFINE p == Append(dir, "/") \o m
           root == IF IsAbsolute(dir) THEN << <<"/">> >> ELSE <<>>
           Part == Seq(Char)
<1>1. m \in Unslashed /\ m # <<>> /\ m \in Part /\ <<"/">> \in Part
  BY Chars DEF Name
<1>2. IsAbsolute(p) <=> IsAbsolute(dir)
  <2> DEFINE t == Append(dir, "/")
  <2>1. t \in Seq(Char) /\ t[1] = dir[1] /\ Len(t) # 0 /\ Len(t) \in Nat /\ m \in Seq(Char)
    BY <1>1, Chars
  <2> HIDE DEF t
  <2>2. (t \o m)[1] = t[1] /\ t \o m # <<>> /\ t \o m \in Seq(Char)
    BY <2>1
  <2>3. IsAbsolute(t \o m) <=> t[1] = "/"
    BY <2>2 DEF IsAbsolute
  <2>4. IsAbsolute(dir) <=> dir[1] = "/"
    BY DEF IsAbsolute
  <2> QED
    BY <2>1, <2>3, <2>4 DEF t
<1>3. Inner(p) = Append(Inner(dir), m) /\ Inner(dir) \in Seq(Part)
  <2>1. Inner(p) = Append(Inner(dir), m) /\ Inner(dir) \in Seq(Part \ {<<>>})
    BY <1>1, InnerMore
  <2> QED
    BY <2>1
<1>4. root \in Seq(Part)
  <2> DEFINE one == << <<"/">> >>
  <2>1. one \in Seq(Part) /\ <<>> \in Seq(Part)
    BY <1>1
  <2> QED
    BY <2>1
<1>5. Names(p) = root \o Inner(p) /\ Names(dir) = root \o Inner(dir)
  BY <1>2 DEF Names, Inner
<1> DEFINE names == Inner(dir)
<1> HIDE DEF p, root, Part, names
<1>6. root \o Append(names, m) = Append(root \o names, m) /\ root \o names \in Seq(Part)
  BY <1>1, <1>3, <1>4, AppendBehind DEF names
<1> QED
  BY <1>3, <1>5, <1>6, Zenon DEF p, Part, names

-----------------------------------------------------------------------------
LastSlash(p) == Max(Slashes(p) \cup {0})
LastName(p) == SubSeq(p, LastSlash(p) + 1, Len(p))

(* the path of a folder with the slash that comes behind it *)
Lead(dir) == IF dir \in {<<>>, <<"/">>} THEN dir ELSE Append(dir, "/")

(* The last slash of a path, or 0. *)
LEMMA LastSlashIs ==
    ASSUME NEW p \in Seq(Char)
    PROVE  /\ LastSlash(p) \in 0..Len(p) /\ Slashes(p) \subseteq 1..LastSlash(p)
           /\ LastSlash(p) # 0 => LastSlash(p) \in Slashes(p) /\ p[LastSlash(p)] = "/"
           /\ Slashes(p) \subseteq 1..Len(p) /\ Len(p) \in Nat
<1> DEFINE T == Slashes(p) \cup {0}
<1>1. T \subseteq Nat /\ T # {} /\ Slashes(p) \subseteq 1..Len(p) /\ Len(p) \in Nat /\ \A j \in T : j <= Len(p)
  BY DEF Slashes
<1>2. \E k \in T : \A j \in T : j <= k
  <2> HIDE DEF T
  <2> QED
    BY <1>1, Greatest, Zenon
<1>3. Max(T) \in T /\ \A j \in T : j <= Max(T)
  <2>1. \E k \in T : \A j \in T : k >= j
    BY <1>1, <1>2
  <2>2. Max(T) \in T /\ \A j \in T : Max(T) >= j
    BY <2>1 DEF Max
  <2> QED
    BY <1>1, <2>2, Zenon
<1> QED
  BY <1>1, <1>3 DEF LastSlash, Slashes

(* A tidy path is the folder around it and a name. *)
LEMMA Halved ==
    ASSUME NEW p, IsTidy(p), p \notin {<<>>, <<"/">>}
    PROVE  /\ IsTidy(ParentPath(p)) /\ LastName(p) \in Name
           /\ Len(LastName(p)) = Len(p) - LastSlash(p) /\ LastSlash(p) \in 0..Len(p) - 1
           /\ p = Lead(ParentPath(p)) \o LastName(p) /\ Lead(ParentPath(p)) \in Seq(Char)
           /\ Len(Lead(ParentPath(p))) = LastSlash(p)
           /\ LastSlash(p) = 0 => ParentPath(p) = <<>>
           /\ LastSlash(p) = 1 => ParentPath(p) = <<"/">>
           /\ LastSlash(p) > 1 => /\ Len(ParentPath(p)) = LastSlash(p) - 1
                                  /\ ParentPath(p) \notin {<<>>, <<"/">>}
<1> DEFINE L == LastSlash(p)
           N == Len(p)
           q == ParentPath(p)
           m == LastName(p)
<1>1. /\ p \in Seq(Char) /\ N \in Nat /\ L \in 0..N /\ Slashes(p) \subseteq 1..L
      /\ L # 0 => L \in Slashes(p) /\ p[L] = "/"
  BY LastSlashIs DEF IsTidy
<1>2. L # N
  <2>1. SUFFICES ASSUME L = N PROVE FALSE
    OBVIOUS
  <2>2. N # 0
    BY <1>1
  <2>3. N = 1 /\ p[1] = "/"
    BY <1>1, <2>1, <2>2 DEF IsTidy
  <2>4. p = <<"/">>
    BY <1>1, <2>3
  <2> QED
    BY <2>4
<1>3. m = SubSeq(p, L + 1, N) /\ q = IF L = 1 THEN <<"/">> ELSE SubSeq(p, 1, L - 1)
  BY DEF LastName, ParentPath, LastSlash
<1>4. \A h \in L + 1..N : p[h] \in Char \ {"/"}
  BY <1>1 DEF Slashes
<1> HIDE DEF L, N, q, m
<1>5. m \in Unslashed /\ Len(m) = N - L /\ \A k \in 1..N - L : m[k] = p[L + k]
  <2> DEFINE s == L + 1
  <2>1. m = SubSeq(p, s, N) /\ s = L + 1
    BY <1>3
  <2> HIDE DEF s
  <2>5. s \in 1..Len(p) + 1 /\ N \in s - 1..Len(p) /\ N - s + 1 = N - L
    BY <1>1, <2>1 DEF N
  <2>6. m \in Seq(Char) /\ Len(m) = N - s + 1 /\ \A k \in 1..N - s + 1 : m[k] = p[s + k - 1]
    BY <1>1, <2>1, <2>5, Slice
  <2>7. \A k \in 1..N - L : s + k - 1 = L + k /\ L + k \in L + 1..N
    BY <1>1, <2>1
  <2>2. m \in Seq(Char) /\ Len(m) = N - L
    BY <2>5, <2>6
  <2>3. \A k \in 1..N - L : m[k] = p[L + k] /\ L + k \in L + 1..N
    BY <2>5, <2>6, <2>7, Zenon
  <2>4. \A k \in 1..Len(m) : m[k] \in Char \ {"/"}
    BY <1>4, <2>2, <2>3
  <2> QED
    BY <2>2, <2>3, <2>4 DEF Unslashed
<1>6. m \in Name
  <2>1. Len(m) # 0
    BY <1>1, <1>2, <1>5
  <2> QED
    BY <1>5, <2>1 DEF Name
<1>7. CASE L = 0
  <2>1. q = <<>> /\ m = p
    <3>1. SubSeq(p, 1, N) = p /\ SubSeq(p, 1, 0 - 1) = <<>>
      BY <1>1 DEF N
    <3> QED
      BY <1>3, <1>7, <3>1
  <2>2. IsTidy(<<>>)
    BY Chars DEF IsTidy, Slashes
  <2> DEFINE none == <<>>
  <2>3. none \in Seq(Char) /\ Len(none) = 0 /\ q = none /\ IsTidy(none) /\ Lead(q) = none /\ none \o m = m
    BY <1>1, <2>1, <2>2 DEF Lead
  <2> HIDE DEF none
  <2>4. p = Lead(q) \o m /\ Lead(q) \in Seq(Char) /\ Len(Lead(q)) = L /\ IsTidy(q)
    <3>1. Lead(q) \o m = m
      BY <2>3
    <3> QED
      BY <1>7, <2>1, <2>3, <3>1, Zenon
  <2>5. Len(m) = N - L /\ L \in 0..N - 1
    BY <1>1, <1>2, <1>5
  <2> QED
    BY <1>6, <1>7, <2>1, <2>4, <2>5 DEF L, N, q, m
<1>8. CASE L = 1
  <2>1. q = <<"/">>
    BY <1>3, <1>8
  <2>2. IsTidy(<<"/">>)
    BY Chars DEF IsTidy, Slashes
  <2>4. Lead(q) = <<"/">> /\ Len(<<"/">>) = 1
    BY <2>1 DEF Lead
  <2>3. p = <<"/">> \o m
    <3>1. SubSeq(p, 1, N) = SubSeq(p, 1, 2 - 1) \o SubSeq(p, 2, N)
      <4>1. 1 \in 1..Len(p) + 1 /\ N \in 1 - 1..Len(p) /\ 2 \in 1..N + 1
        BY <1>1, <1>8 DEF N
      <4> QED
        BY <1>1, <4>1, SliceCut
    <3>2. SubSeq(p, 1, N) = p
      BY <1>1 DEF N
    <3>3. SubSeq(p, 1, 1) = <<"/">>
      <4>1. 1 \in 1..Len(p) + 1 /\ 1 \in 1 - 1..Len(p) /\ 1 - 1 + 1 = 1 /\ p[1] = "/"
        BY <1>1, <1>8 DEF N
      <4> DEFINE one == SubSeq(p, 1, 1)
      <4>2. one \in Seq(Char) /\ Len(one) = 1 - 1 + 1 /\ \A k \in 1..1 - 1 + 1 : one[k] = p[1 + k - 1]
        BY <1>1, <4>1, Slice
      <4> HIDE DEF one
      <4>3. Len(one) = 1 /\ one[1] = "/"
        BY <4>1, <4>2
      <4>4. one = <<"/">>
        BY <4>2, <4>3
      <4> QED
        BY <4>4 DEF one
    <3>4. m = SubSeq(p, 2, N) /\ 2 - 1 = 1
      BY <1>3, <1>8
    <3> QED
      BY <3>1, <3>2, <3>3, <3>4, Zenon
  <2> DEFINE top == <<"/">>
  <2>5. top \in Seq(Char) /\ Len(top) = 1 /\ q = top /\ IsTidy(top) /\ Lead(q) = top /\ p = top \o m
    BY <2>1, <2>2, <2>3, <2>4, Chars
  <2> HIDE DEF top
  <2>6. p = Lead(q) \o m /\ Lead(q) \in Seq(Char) /\ Len(Lead(q)) = L /\ IsTidy(q)
    BY <1>8, <2>5
  <2>7. Len(m) = N - L /\ L \in 0..N - 1
    BY <1>1, <1>2, <1>5
  <2> QED
    BY <1>6, <1>8, <2>1, <2>6, <2>7 DEF L, N, q, m
<1>9. CASE L > 1
  <2>1. /\ q \in Seq(Char) /\ Len(q) = L - 1 /\ \A k \in 1..L - 1 : q[k] = p[k]
    <3>1. 1 \in 1..Len(p) + 1 /\ L - 1 \in 1 - 1..Len(p) /\ L - 1 - 1 + 1 = L - 1
      BY <1>1, <1>9 DEF N
    <3>2. q = SubSeq(p, 1, L - 1)
      <4>1. L # 1
        BY <1>9
      <4> QED
        BY <1>3, <4>1, Zenon
    <3>3. /\ q \in Seq(Char) /\ Len(q) = L - 1 - 1 + 1
          /\ \A k \in 1..L - 1 - 1 + 1 : q[k] = p[1 + k - 1]
      BY <1>1, <3>1, <3>2, Slice
    <3> QED
      BY <1>1, <1>9, <3>1, <3>3
  <2>2. L - 1 \notin Slashes(p)
    <3>1. L - 1 + 1 = L /\ L \in Slashes(p)
      BY <1>1, <1>9
    <3> QED
      BY <3>1 DEF IsTidy
  <2>3. q # <<>> /\ q # <<"/">>
    <3>1. q # <<>>
      BY <1>1, <1>9, <2>1
    <3>2. q = <<"/">> => FALSE
      <4>1. SUFFICES ASSUME q = <<"/">> PROVE FALSE
        OBVIOUS
      <4>2. L - 1 = 1 /\ q[1] = "/"
        BY <2>1, <4>1
      <4>3. p[L - 1] = "/" /\ L - 1 \in 1..Len(p)
        BY <1>1, <1>9, <2>1, <4>2 DEF N
      <4> QED
        BY <1>1, <2>2, <4>3 DEF Slashes
    <3> QED
      BY <3>1, <3>2
  <2>4. IsTidy(q)
    <3>1. \A h : h \in Slashes(q) <=> h \in Slashes(p) /\ h \in 1..L - 1
      BY <1>1, <1>9, <2>1 DEF Slashes, N
    <3>2. ASSUME NEW h \in Slashes(q) PROVE h + 1 \notin Slashes(q) /\ h # Len(q)
      <4>1. h \in Slashes(p) /\ h + 1 \notin Slashes(p)
        BY <3>1 DEF IsTidy
      <4> QED
        BY <2>1, <2>2, <3>1, <4>1
    <3> QED
      BY <2>1, <3>2 DEF IsTidy
  <2>5. p = Append(q, "/") \o m
    <3>1. SubSeq(p, 1, N) = SubSeq(p, 1, (L + 1) - 1) \o SubSeq(p, L + 1, N)
      <4>1. 1 \in 1..Len(p) + 1 /\ N \in 1 - 1..Len(p) /\ L + 1 \in 1..N + 1
        BY <1>1, <1>9 DEF N
      <4> QED
        BY <1>1, <4>1, SliceCut
    <3>2. SubSeq(p, 1, N) = p /\ (L + 1) - 1 = L
      BY <1>1 DEF N
    <3>3. SubSeq(p, 1, L) = Append(q, "/")
      <4> DEFINE a == SubSeq(p, 1, L)
                 b == Append(q, "/")
      <4>1. a \in Seq(Char) /\ Len(a) = L /\ \A k \in 1..L : a[k] = p[k]
        <5>1. 1 \in 1..Len(p) + 1 /\ L \in 1 - 1..Len(p) /\ L - 1 + 1 = L
          BY <1>1, <1>9 DEF N
        <5>2. a \in Seq(Char) /\ Len(a) = L - 1 + 1 /\ \A k \in 1..L - 1 + 1 : a[k] = p[1 + k - 1]
          BY <1>1, <5>1, Slice
        <5> QED
          BY <1>1, <5>1, <5>2
      <4>2. b \in Seq(Char) /\ Len(b) = L /\ \A k \in 1..L : b[k] = IF k = L THEN "/" ELSE q[k]
        BY <1>1, <1>9, <2>1, Chars
      <4> HIDE DEF a, b
      <4>3. \A k \in 1..Len(a) : a[k] = b[k]
        BY <1>1, <1>9, <2>1, <4>1, <4>2
      <4>4. a = b
        BY <4>1, <4>2, <4>3, SeqEqual
      <4> QED
        BY <4>4, Zenon DEF a, b
    <3> QED
      BY <1>3, <3>1, <3>2, <3>3, Zenon
  <2>6. Lead(q) = Append(q, "/") /\ Lead(q) \in Seq(Char) /\ Len(Lead(q)) = L
    <3>1. Lead(q) = Append(q, "/")
      BY <2>3 DEF Lead
    <3>2. Append(q, "/") \in Seq(Char) /\ Len(Append(q, "/")) = L - 1 + 1
      BY <2>1, Chars
    <3> QED
      BY <1>1, <3>1, <3>2
  <2> QED
    BY <1>1, <1>2, <1>5, <1>6, <1>9, <2>1, <2>3, <2>4, <2>5, <2>6 DEF L, N, q, m
<1> QED
  BY <1>1, <1>7, <1>8, <1>9

(* What is appended is last, and what it is appended to is before it. *)
LEMMA FrontAndLast ==
    ASSUME NEW E, NEW q \in Seq(E), NEW e \in E
    PROVE  Front(Append(q, e)) = q /\ Last(Append(q, e)) = e /\ Append(q, e) # <<>>
<1> DEFINE longer == Append(q, e)
<1>1. longer \in Seq(E) /\ Len(longer) = Len(q) + 1 /\ longer[Len(q) + 1] = e /\ Len(q) \in Nat
      /\ \A h \in 1..Len(q) : longer[h] = q[h]
  OBVIOUS
<1> HIDE DEF longer
<1>2. 1 \in 1..Len(longer) + 1 /\ Len(q) \in 1 - 1..Len(longer) /\ Len(q) - 1 + 1 = Len(q)
  BY <1>1
<1> DEFINE front == SubSeq(longer, 1, Len(q))
<1>3. front \in Seq(E) /\ Len(front) = Len(q) - 1 + 1
      /\ \A k \in 1..Len(q) - 1 + 1 : front[k] = longer[1 + k - 1]
  BY <1>1, <1>2, Slice
<1>4. \A k \in 1..Len(q) : 1 + k - 1 = k
  OBVIOUS
<1>5. Front(longer) = front /\ Last(longer) = e /\ longer # <<>>
  BY <1>1 DEF Front, Last
<1> HIDE DEF front
<1>6. Len(front) = Len(q) /\ \A k \in 1..Len(front) : front[k] = q[k]
  BY <1>1, <1>2, <1>3, <1>4
<1>7. front = q
  BY <1>3, <1>6, SeqEqual
<1> QED
  BY <1>5, <1>7 DEF longer

(* Names are sequences of characters. *)
LEMMA NamesType ==
    ASSUME NEW p \in Seq(Char)
    PROVE  Names(p) \in Seq(Seq(Char))
<1> DEFINE Part == Seq(Char)
           root == IF IsAbsolute(p) THEN << <<"/">> >> ELSE <<>>
           inner == Inner(p)
<1>1. <<"/">> \in Part
  BY Chars
<1>2. inner \in Seq(Part \ {<<>>})
  BY Chars, InnerMore
<1>3. root \in Seq(Part)
  <2> DEFINE one == << <<"/">> >>
  <2>1. one \in Seq(Part) /\ <<>> \in Seq(Part)
    BY <1>1
  <2> QED
    BY <2>1
<1>4. Names(p) = root \o inner
  BY DEF Names, Inner
<1> HIDE DEF root, inner, Part
<1>5. root \o inner \in Seq(Part)
  BY <1>2, <1>3
<1> QED
  BY <1>4, <1>5 DEF Part

(* The last name of a path is behind the names of the folder around it. *)
LEMMA NamesHalved ==
    ASSUME NEW p, IsTidy(p), p \notin {<<>>, <<"/">>}
    PROVE  /\ Names(p) = Append(Names(ParentPath(p)), LastName(p)) /\ Names(p) # <<>>
           /\ Front(Names(p)) = Names(ParentPath(p)) /\ Last(Names(p)) = LastName(p)
<1> DEFINE q == ParentPath(p)
           m == LastName(p)
<1>1. IsTidy(q) /\ m \in Name /\ p = Lead(q) \o m
  BY Halved
<1> HIDE DEF q, m
<1>2. q \in Seq(Char) /\ m \in Seq(Char)
  BY <1>1, Chars DEF IsTidy, Name
<1>3. Names(Lead(q) \o m) = Append(Names(q), m)
  <2>1. CASE q = <<>>
    <3>1. Lead(q) \o m = m
      BY <1>2, <2>1 DEF Lead
    <3> QED
      BY <1>1, <2>1, <3>1, NamesOfName, Zenon
  <2>2. CASE q = <<"/">>
    <3>1. Lead(q) = <<"/">>
      BY <2>2 DEF Lead
    <3> QED
      BY <1>1, <2>2, <3>1, NamesInRoot
  <2>3. CASE q \notin {<<>>, <<"/">>}
    <3>1. Lead(q) = Append(q, "/")
      BY <2>3 DEF Lead
    <3> QED
      BY <1>1, <1>2, <2>3, <3>1, NamesInFolder
  <2> QED
    BY <2>1, <2>2, <2>3
<1>4. Names(q) \in Seq(Seq(Char))
  BY <1>2, NamesType
<1>5. Front(Append(Names(q), m)) = Names(q) /\ Last(Append(Names(q), m)) = m /\ Append(Names(q), m) # <<>>
  BY <1>2, <1>4, FrontAndLast, Zenon
<1> QED
  BY <1>1, <1>3, <1>5, Zenon DEF q, m

(* A name has a character and does not begin with a slash. *)
LEMMA NameIsNoRoot == ASSUME NEW m \in Name PROVE m # <<"/">> /\ m[1] # "/" /\ Len(m) # 0
<1>1. m \in Seq(Char \ {"/"}) /\ m # <<>>
  BY DEF Name, Unslashed
<1>2. Len(m) # 0 /\ m[1] \in Char \ {"/"}
  BY <1>1
<1> QED
  BY <1>2

(* Two tidy paths that have the same names are one. *)
LEMMA NamesAreDistinct ==
    ASSUME NEW p, NEW q, IsTidy(p), IsTidy(q), Names(p) = Names(q)
    PROVE  p = q
<1> DEFINE T == {n \in Nat : \A a, b \in Seq(Char) :
                    IsTidy(a) /\ IsTidy(b) /\ Len(a) <= n /\ Names(a) = Names(b) => a = b}
<1>1. ASSUME NEW a \in Seq(Char), NEW b \in Seq(Char), IsTidy(a), IsTidy(b), Names(a) = Names(b),
             a \notin {<<>>, <<"/">>} => b \notin {<<>>, <<"/">>} /\ ParentPath(a) = ParentPath(b)
      PROVE  a = b
  <2>1. CASE a \notin {<<>>, <<"/">>}
    <3>1. b \notin {<<>>, <<"/">>} /\ ParentPath(a) = ParentPath(b)
      BY <1>1, <2>1
    <3>2. LastName(a) = LastName(b)
      BY <1>1, <2>1, <3>1, NamesHalved
    <3>3. a = Lead(ParentPath(a)) \o LastName(a)
      BY <1>1, <2>1, Halved, Zenon
    <3>4. b = Lead(ParentPath(b)) \o LastName(b)
      BY <1>1, <3>1, Halved, Zenon
    <3> QED
      BY <3>1, <3>2, <3>3, <3>4
  <2>2. CASE a = <<>>
    <3>1. Names(b) = <<>>
      BY <1>1, <2>2, NamesOfRoots
    <3>2. b # <<"/">>
      <4>1. << <<"/">> >> # <<>>
        OBVIOUS
      <4> QED
        BY <3>1, <4>1, NamesOfRoots, Zenon
    <3>3. b \notin {<<>>, <<"/">>} => FALSE
      BY <1>1, <3>1, NamesHalved
    <3> QED
      BY <2>2, <3>2, <3>3
  <2>3. CASE a = <<"/">>
    <3>1. Names(b) = << <<"/">> >>
      BY <1>1, <2>3, NamesOfRoots
    <3>2. b # <<>>
      <4>1. << <<"/">> >> # <<>>
        OBVIOUS
      <4> QED
        BY <3>1, <4>1, NamesOfRoots, Zenon
    <3>3. ASSUME b \notin {<<>>, <<"/">>} PROVE FALSE
      <4>1. Last(Names(b)) = LastName(b) /\ LastName(b) \in Name
        BY <1>1, <3>3, NamesHalved, Halved
      <4>2. Last(<< <<"/">> >>) = <<"/">>
        BY DEF Last
      <4> QED
        BY <3>1, <4>1, <4>2, NameIsNoRoot
    <3> QED
      BY <2>3, <3>2, <3>3
  <2> QED
    BY <2>1, <2>2, <2>3
<1>2. 0 \in T
  <2>1. ASSUME NEW a \in Seq(Char), Len(a) <= 0 PROVE a = <<>>
    BY <2>1
  <2> QED
    BY <1>1, <2>1
<1>3. ASSUME NEW n \in Nat, n \in T PROVE n + 1 \in T
  <2> SUFFICES ASSUME NEW a \in Seq(Char), NEW b \in Seq(Char), IsTidy(a), IsTidy(b),
                      Len(a) <= n + 1, Names(a) = Names(b)
               PROVE  a = b
    OBVIOUS
  <2>1. ASSUME a \notin {<<>>, <<"/">>} PROVE b \notin {<<>>, <<"/">>} /\ ParentPath(a) = ParentPath(b)
    <3>1. /\ Names(a) # <<>> /\ Front(Names(a)) = Names(ParentPath(a)) /\ Last(Names(a)) = LastName(a)
      BY <2>1, NamesHalved
    <3>2. LastName(a) \in Name /\ IsTidy(ParentPath(a)) /\ Len(ParentPath(a)) <= n
      <4>1. /\ IsTidy(ParentPath(a)) /\ LastName(a) \in Name /\ LastSlash(a) \in 0..Len(a) - 1
            /\ LastSlash(a) = 0 => ParentPath(a) = <<>>
            /\ LastSlash(a) = 1 => ParentPath(a) = <<"/">>
            /\ LastSlash(a) > 1 => Len(ParentPath(a)) = LastSlash(a) - 1
        BY <2>1, Halved
      <4>2. Len(<<>>) = 0 /\ Len(<<"/">>) = 1 /\ Len(a) \in Nat
        OBVIOUS
      <4> DEFINE size == Len(ParentPath(a))
                 final == LastSlash(a)
      <4>3. final \in Nat /\ final <= n /\ (final = 0 \/ final = 1 \/ final > 1)
        BY <4>1, <4>2
      <4>4. (final = 0 => size = 0) /\ (final = 1 => size = 1) /\ (final > 1 => size = final - 1)
        BY <4>1, <4>2
      <4> HIDE DEF size, final
      <4>5. size <= n
        BY <4>3, <4>4
      <4> QED
        BY <4>1, <4>5 DEF size
    <3>3. b # <<>>
      BY <3>1, NamesOfRoots
    <3>4. b # <<"/">>
      <4>1. Last(<< <<"/">> >>) = <<"/">>
        BY DEF Last
      <4> QED
        BY <3>1, <3>2, <4>1, NamesOfRoots, NameIsNoRoot
    <3>5. Front(Names(b)) = Names(ParentPath(b)) /\ IsTidy(ParentPath(b))
      BY <3>3, <3>4, NamesHalved, Halved
    <3>6. ParentPath(a) \in Seq(Char) /\ ParentPath(b) \in Seq(Char)
      BY <3>2, <3>5 DEF IsTidy
    <3>7. ParentPath(a) = ParentPath(b)
      BY <1>3, <3>1, <3>2, <3>5, <3>6, Zenon
    <3> QED
      BY <3>3, <3>4, <3>7
  <2> QED
    BY <1>1, <2>1
<1> HIDE DEF T
<1>4. Nat \subseteq T
  BY <1>2, <1>3, NatByInduction
<1>5. p \in Seq(Char) /\ q \in Seq(Char) /\ Len(p) \in T
  BY <1>4 DEF IsTidy
<1> QED
  BY <1>5 DEF T

(* A prefix, character by character. *)
LEMMA PrefixIs ==
    ASSUME NEW E, NEW s \in Seq(E), NEW t \in Seq(E)
    PROVE  IsPrefix(s, t) <=> Len(s) <= Len(t) /\ \A h \in 1..Len(s) : s[h] = t[h]
<1>1. Len(s) \in Nat /\ Len(t) \in Nat /\ 1 \in 1..Len(s) + 1 /\ Len(s) \in 1 - 1..Len(s)
      /\ 1 \in 1..Len(t) + 1 /\ Len(s) - 1 + 1 = Len(s) /\ \A k \in 1..Len(s) : 1 + k - 1 = k
  OBVIOUS
<1> DEFINE a == SubSeq(s, 1, Len(s))
           b == SubSeq(t, 1, Len(s))
<1>2. a \in Seq(E) /\ Len(a) = Len(s) /\ \A k \in 1..Len(s) : a[k] = s[k]
  <2>1. a \in Seq(E) /\ Len(a) = Len(s) - 1 + 1 /\ \A k \in 1..Len(s) - 1 + 1 : a[k] = s[1 + k - 1]
    BY <1>1, Slice
  <2> QED
    BY <1>1, <2>1
<1>3. ASSUME Len(s) <= Len(t)
      PROVE  b \in Seq(E) /\ Len(b) = Len(s) /\ \A k \in 1..Len(s) : b[k] = t[k]
  <2>1. Len(s) \in 1 - 1..Len(t)
    BY <1>1, <1>3
  <2>2. b \in Seq(E) /\ Len(b) = Len(s) - 1 + 1 /\ \A k \in 1..Len(s) - 1 + 1 : b[k] = t[1 + k - 1]
    BY <1>1, <2>1, Slice
  <2> QED
    BY <1>1, <2>2
<1>4. IsPrefix(s, t) <=> Len(s) <= Len(t) /\ a = b
  BY DEF IsPrefix
<1> HIDE DEF a, b
<1>5. ASSUME Len(s) <= Len(t), \A h \in 1..Len(s) : s[h] = t[h] PROVE a = b
  <2>1. Len(a) = Len(b) /\ \A k \in 1..Len(a) : a[k] = b[k]
    BY <1>2, <1>3, <1>5
  <2> QED
    BY <1>2, <1>3, <1>5, <2>1, SeqEqual
<1>6. ASSUME Len(s) <= Len(t), a = b PROVE \A h \in 1..Len(s) : s[h] = t[h]
  BY <1>2, <1>3, <1>6
<1> QED
  BY <1>4, <1>5, <1>6

(* The page is beside the folder and its name begins like that of the folder. *)
Alike(d, p) == Front(Names(p)) = Front(Names(d)) /\ IsStrictPrefix(Last(Names(d)), Last(Names(p)))

(* Then the path of the page begins like that of the folder, and no slash comes behind that. *)
LEMMA FolderBesidePage ==
    ASSUME NEW p, IsTidy(p), p \notin {<<>>, <<"/">>}, NEW d, IsTidy(d), d # <<>>, Alike(d, p)
    PROVE  /\ IsPrefix(d, p) /\ Len(d) < Len(p)
           /\ Slashes(p) \subseteq 1..Len(d) /\ Len(ParentPath(p)) < Len(d)
<1> DEFINE m == LastName(p)
           n == LastName(d)
           q == ParentPath(p)
           l == Lead(q)
<1>1. m \in Name /\ Front(Names(p)) = Names(q) /\ Last(Names(p)) = m /\ IsTidy(q)
  BY NamesHalved, Halved
<1>2. /\ p = l \o m /\ l \in Seq(Char) /\ Len(l) = LastSlash(p)
      /\ LastSlash(p) = 0 => q = <<>>
      /\ LastSlash(p) = 1 => q = <<"/">>
      /\ LastSlash(p) > 1 => Len(q) = LastSlash(p) - 1
  BY Halved, Zenon
<1>3. LastSlash(p) \in Nat /\ Slashes(p) \subseteq 1..LastSlash(p)
  BY LastSlashIs DEF IsTidy
<1>4. d # <<"/">>
  <2> SUFFICES ASSUME d = <<"/">> PROVE FALSE
    OBVIOUS
  <2>1. Last(Names(d)) = <<"/">>
    <3>1. Last(<< <<"/">> >>) = <<"/">>
      BY DEF Last
    <3> QED
      BY <3>1, NamesOfRoots
  <2> DEFINE top == <<"/">>
  <2>2. top \in Seq(Char) /\ Len(top) = 1 /\ top[1] = "/"
    BY Chars
  <2> HIDE DEF top, m
  <2>3. IsPrefix(top, m) /\ m \in Seq(Char)
    BY <1>1, <2>1, Chars, Zenon DEF Alike, IsStrictPrefix, top, Name
  <2>4. top[1] = m[1]
    BY <2>2, <2>3, PrefixIs
  <2> QED
    BY <1>1, <2>2, <2>4, NameIsNoRoot
<1>5. n \in Name /\ Front(Names(d)) = Names(ParentPath(d)) /\ Last(Names(d)) = n
      /\ IsTidy(ParentPath(d)) /\ d = Lead(ParentPath(d)) \o n
  BY <1>4, NamesHalved, Halved, Zenon
<1>6. ParentPath(d) = q
  BY <1>1, <1>5, NamesAreDistinct, Zenon DEF Alike
<1>7. d = l \o n
  BY <1>5, <1>6
<1>8. IsPrefix(n, m) /\ n # m
  BY <1>1, <1>5 DEF Alike, IsStrictPrefix
<1>9. m \in Seq(Char) /\ n \in Seq(Char) /\ Len(n) # 0
  BY <1>1, <1>5, Chars, NameIsNoRoot DEF Name
<1> HIDE DEF m, n, l
<1>10. Len(n) <= Len(m) /\ \A k \in 1..Len(n) : n[k] = m[k]
  BY <1>8, <1>9, PrefixIs
<1>11. Len(n) # Len(m)
  BY <1>8, <1>9, <1>10, SeqEqual
<1>12. /\ Len(l) \in Nat /\ Len(m) \in Nat /\ Len(n) \in Nat /\ Len(l) = LastSlash(p)
       /\ Len(d) = Len(l) + Len(n) /\ Len(p) = Len(l) + Len(m)
       /\ \A h \in 1..Len(l) : p[h] = l[h] /\ d[h] = l[h]
       /\ \A h \in 1..Len(m) : p[Len(l) + h] = m[h]
       /\ \A h \in 1..Len(n) : d[Len(l) + h] = n[h]
  <2>1. Len(l) \in Nat /\ Len(m) \in Nat /\ Len(n) \in Nat /\ Len(l) = LastSlash(p)
    BY <1>2, <1>9
  <2>4. l \in Seq(Char) /\ m \in Seq(Char) /\ n \in Seq(Char)
    BY <1>2, <1>9
  <2>2. /\ Len(l \o m) = Len(l) + Len(m)
        /\ \A h \in 1..Len(l) : (l \o m)[h] = l[h]
        /\ \A h \in 1..Len(m) : (l \o m)[Len(l) + h] = m[h]
    BY <2>4, Concatenated
  <2>3. /\ Len(l \o n) = Len(l) + Len(n)
        /\ \A h \in 1..Len(l) : (l \o n)[h] = l[h]
        /\ \A h \in 1..Len(n) : (l \o n)[Len(l) + h] = n[h]
    BY <2>4, Concatenated
  <2> QED
    BY <1>2, <1>7, <2>1, <2>2, <2>3, Zenon
<1>13. IsPrefix(d, p)
  <2>1. ASSUME NEW k \in 1..Len(d) PROVE d[k] = p[k]
    <3>1. CASE k <= Len(l)
      BY <1>12, <3>1
    <3>2. CASE k > Len(l)
      <4> DEFINE h == k - Len(l)
      <4>1. h \in 1..Len(n) /\ h \in 1..Len(m) /\ Len(l) + h = k
        BY <1>10, <1>12, <3>2
      <4> HIDE DEF h
      <4> QED
        BY <1>10, <1>12, <4>1
    <3> QED
      BY <1>12, <3>1, <3>2
  <2>2. Len(d) <= Len(p)
    BY <1>10, <1>12
  <2> QED
    BY <2>1, <2>2, PrefixIs DEF IsTidy
<1>14. Len(q) < Len(d)
  <2>1. Len(<<>>) = 0 /\ Len(<<"/">>) = 1
    OBVIOUS
  <2> DEFINE size == Len(q)
             final == LastSlash(p)
  <2>2. final \in Nat /\ final < Len(d)
    BY <1>3, <1>9, <1>12
  <2>3. (final = 0 => size = 0) /\ (final = 1 => size = 1) /\ (final > 1 => size = final - 1)
    BY <1>2, <2>1
  <2> HIDE DEF size, final
  <2>4. size < Len(d)
    BY <1>12, <2>2, <2>3
  <2> QED
    BY <2>4 DEF size
<1> QED
  BY <1>3, <1>9, <1>10, <1>11, <1>12, <1>13, <1>14

(* A prefix that has all slashes of a path. *)
LEMMA SlashesOfPrefix ==
    ASSUME NEW d \in Seq(Char), NEW p \in Seq(Char), IsPrefix(d, p), Slashes(p) \subseteq 1..Len(d)
    PROVE  Slashes(d) = Slashes(p)
<1>1. Len(d) \in Nat /\ Len(d) <= Len(p) /\ \A h \in 1..Len(d) : d[h] = p[h]
  BY PrefixIs
<1>2. DOMAIN d = 1..Len(d) /\ DOMAIN p = 1..Len(p) /\ Len(p) \in Nat
  OBVIOUS
<1> QED
  BY <1>1, <1>2 DEF Slashes

(* The page's path begins like that of the folder and goes on without another name. *)
LEMMA PageBesideFolder ==
    ASSUME NEW p, IsTidy(p), p \notin {<<>>, <<"/">>}, ~IsAbsolute(p), NEW d, IsTidy(d), d # <<>>,
           IsPrefix(d, p), Len(d) < Len(p), Len(ParentPath(p)) <= Len(d),
           Cardinality({h \in Slashes(p) : h > Len(d)}) # 1
    PROVE  Alike(d, p)
<1> DEFINE L == LastSlash(p)
<1>1. /\ p \in Seq(Char) /\ d \in Seq(Char) /\ L \in Nat /\ L <= Len(p) /\ Slashes(p) \subseteq 1..L
      /\ L # 0 => L \in Slashes(p) /\ p[L] = "/"
      /\ Len(d) \in Nat /\ Len(p) \in Nat
  BY LastSlashIs DEF IsTidy
<1>2. \A h \in 1..Len(d) : d[h] = p[h]
  BY <1>1, PrefixIs
<1>3. p[1] # "/" /\ 1 \notin Slashes(p)
  <2>1. Head(p) # "/"
    BY DEF IsAbsolute
  <2> QED
    BY <1>1, <2>1 DEF Slashes
<1>4. Len(d) # 0
  BY <1>1
<1>5. L # 1 /\ (L > 1 => Len(ParentPath(p)) = L - 1)
  BY <1>1, <1>3, Halved
<1>6. L <= Len(d)
  <2> SUFFICES ASSUME L > Len(d) PROVE FALSE
    BY <1>1
  <2>1. L = Len(d) + 1 /\ L \in Slashes(p)
    BY <1>1, <1>4, <1>5
  <2>2. {h \in Slashes(p) : h > Len(d)} = {L}
    BY <1>1, <2>1
  <2> QED
    BY <2>2, FS_Singleton, Zenon
<1>7. L # Len(d)
  <2> SUFFICES ASSUME L = Len(d) PROVE FALSE
    OBVIOUS
  <2>1. d[Len(d)] = "/" /\ Len(d) \in DOMAIN d
    BY <1>1, <1>2, <1>4
  <2>2. Len(d) = 1
    BY <2>1 DEF IsTidy, Slashes
  <2> QED
    BY <1>1, <1>5, <2>2
<1>8. Slashes(p) \subseteq 1..Len(d)
  BY <1>1, <1>6
<1>9. Slashes(d) = Slashes(p)
  BY <1>1, <1>8, SlashesOfPrefix
<1>10. LastSlash(d) = L
  BY <1>9 DEF LastSlash
<1>11. d # <<"/">>
  <2> SUFFICES ASSUME d = <<"/">> PROVE FALSE
    OBVIOUS
  <2>1. d[1] = "/" /\ Len(d) = 1
    OBVIOUS
  <2> QED
    BY <1>2, <1>3, <2>1
<1>12. ParentPath(d) = ParentPath(p)
  <2>1. CASE L = 0
    <3>1. LastSlash(d) = 0
      BY <1>10, <2>1
    <3> QED
      BY <2>1, <1>11, <3>1, Halved
  <2>2. CASE L > 1
    <3> DEFINE a == SubSeq(d, 1, L - 1)
               b == SubSeq(p, 1, L - 1)
    <3>1. ParentPath(d) = a /\ ParentPath(p) = b
      BY <1>5, <1>10, Zenon DEF ParentPath, LastSlash
    <3>2. 1 \in 1..Len(d) + 1 /\ L - 1 \in 1 - 1..Len(d) /\ 1 \in 1..Len(p) + 1 /\ L - 1 \in 1 - 1..Len(p)
          /\ L - 1 - 1 + 1 = L - 1 /\ \A k \in 1..L - 1 : 1 + k - 1 = k /\ k \in 1..Len(d)
      BY <1>1, <1>6, <2>2
    <3>3. a \in Seq(Char) /\ Len(a) = L - 1 - 1 + 1 /\ \A k \in 1..L - 1 - 1 + 1 : a[k] = d[1 + k - 1]
      BY <1>1, <3>2, Slice
    <3>4. b \in Seq(Char) /\ Len(b) = L - 1 - 1 + 1 /\ \A k \in 1..L - 1 - 1 + 1 : b[k] = p[1 + k - 1]
      BY <1>1, <3>2, Slice
    <3> HIDE DEF a, b
    <3>5. Len(a) = Len(b) /\ \A k \in 1..Len(a) : a[k] = b[k]
      BY <1>2, <3>2, <3>3, <3>4, Zenon
    <3>6. a = b
      BY <3>3, <3>4, <3>5, SeqEqual
    <3> QED
      BY <3>1, <3>6
  <2> QED
    BY <1>1, <1>5, <2>1, <2>2
<1>13. /\ Front(Names(p)) = Names(ParentPath(p)) /\ Last(Names(p)) = LastName(p)
       /\ Front(Names(d)) = Names(ParentPath(d)) /\ Last(Names(d)) = LastName(d)
  BY <1>11, NamesHalved
<1>14. IsStrictPrefix(LastName(d), LastName(p))
  <2> DEFINE s == L + 1
             a == SubSeq(d, s, Len(d))
             b == SubSeq(p, s, Len(p))
  <2>1. LastName(d) = a /\ LastName(p) = b
    BY <1>10 DEF LastName
  <2>2. s = L + 1
    OBVIOUS
  <2> HIDE DEF s
  <2>3. s \in 1..Len(d) + 1 /\ Len(d) \in s - 1..Len(d) /\ s \in 1..Len(p) + 1 /\ Len(p) \in s - 1..Len(p)
    BY <1>1, <1>6, <2>2
  <2>4. a \in Seq(Char) /\ Len(a) = Len(d) - s + 1 /\ \A k \in 1..Len(d) - s + 1 : a[k] = d[s + k - 1]
    BY <1>1, <2>3, Slice
  <2>5. b \in Seq(Char) /\ Len(b) = Len(p) - s + 1 /\ \A k \in 1..Len(p) - s + 1 : b[k] = p[s + k - 1]
    BY <1>1, <2>3, Slice
  <2>7. Len(d) - s + 1 \in Nat /\ Len(d) - s + 1 < Len(p) - s + 1
        /\ \A k \in 1..Len(d) - s + 1 : k \in 1..Len(p) - s + 1 /\ s + k - 1 \in 1..Len(d)
    BY <1>1, <1>6, <2>2
  <2> HIDE DEF a, b
  <2>8. Len(a) < Len(b) /\ \A k \in 1..Len(a) : a[k] = b[k]
    BY <1>2, <2>4, <2>5, <2>7, Zenon
  <2>6. IsPrefix(a, b) /\ a # b
    <3>1. Len(a) \in Nat /\ Len(b) \in Nat
      BY <2>4, <2>5
    <3> QED
      BY <2>4, <2>5, <2>8, <3>1, PrefixIs
  <2> QED
    BY <2>1, <2>6 DEF IsStrictPrefix
<1> QED
  BY <1>12, <1>13, <1>14 DEF Alike

-----------------------------------------------------------------------------
(* What is left of a path becomes the path of a page when it has no empty names. *)
LEMMA PageIsTidy ==
    ASSUME NEW x \in Seq(Char), \A h \in Slashes(x) : h + 1 \notin Slashes(x)
    PROVE  /\ IsTidy(x \o Html) /\ x \o Html \notin {<<>>, <<"/">>}
           /\ (x = <<>> \/ x[1] # "/") => ~IsAbsolute(x \o Html)
<1> DEFINE p == x \o Html
           n == Len(x)
<1>1. Html \in Seq(Char) /\ Len(Html) = 1 /\ Html[1] = ".html" /\ n \in Nat /\ ".html" # "/"
  BY Chars DEF Html, Name
<1>2. /\ p \in Seq(Char) /\ Len(p) = n + 1 /\ DOMAIN p = 1..n + 1
      /\ \A h \in 1..n : p[h] = x[h]
      /\ p[n + 1] = ".html"
  <2>1. /\ p \in Seq(Char) /\ Len(p) = Len(x) + Len(Html) /\ DOMAIN p = 1..Len(x) + Len(Html)
        /\ \A h \in 1..Len(x) : p[h] = x[h]
        /\ \A h \in 1..Len(Html) : p[Len(x) + h] = Html[h]
    <3>1. Html \in Seq(Char)
      BY <1>1
    <3> QED
      BY <3>1, Concatenated
  <2> HIDE DEF p
  <2> QED
    BY <1>1, <2>1
<1> HIDE DEF p
<1>3. \A h : h \in Slashes(p) <=> h \in Slashes(x)
  BY <1>1, <1>2 DEF Slashes
<1>4. Slashes(x) \subseteq 1..n
  BY DEF Slashes
<1>5. IsTidy(p)
  BY <1>1, <1>2, <1>3, <1>4 DEF IsTidy
<1>6. p # <<>>
  BY <1>1, <1>2
<1>7. p # <<"/">>
  <2> SUFFICES ASSUME p = <<"/">> PROVE FALSE
    OBVIOUS
  <2>1. Len(p) = 1 /\ p[1] = "/"
    BY <1>7
  <2> QED
    BY <1>1, <1>2, <2>1
<1>8. ASSUME x = <<>> \/ x[1] # "/" PROVE ~IsAbsolute(p)
  <2>1. p[1] # "/"
    <3>1. CASE n = 0
      BY <1>1, <1>2, <3>1
    <3>2. CASE n # 0
      BY <1>1, <1>2, <1>8, <3>2
    <3> QED
      BY <3>1, <3>2
  <2> QED
    BY <1>2, <1>6, <2>1 DEF IsAbsolute
<1> QED
  BY <1>5, <1>6, <1>7, <1>8 DEF p

(* What is left of a path behind the place k. *)
LEMMA PathBehind ==
    ASSUME NEW f, IsTidy(f), NEW k \in 1..Len(f) + 1
    PROVE  LET x == SubSeq(f, k, Len(f))
           IN  /\ x \in Seq(Char) /\ \A h \in Slashes(x) : h + 1 \notin Slashes(x)
               /\ x # <<>> => k \in DOMAIN f /\ x[1] = f[k]
<1> DEFINE x == SubSeq(f, k, Len(f))
           n == Len(f) - k + 1
<1>1. f \in Seq(Char) /\ Len(f) \in Nat /\ Len(f) \in k - 1..Len(f) /\ DOMAIN f = 1..Len(f) /\ n \in Nat /\ k \in Nat
  BY DEF IsTidy
<1>2. x \in Seq(Char) /\ Len(x) = n /\ \A j \in 1..n : x[j] = f[k + j - 1]
  BY <1>1, Slice
<1> HIDE DEF x
<1>3. \A j \in Slashes(x) : k + j - 1 \in Slashes(f) /\ j \in Nat
  <2> SUFFICES ASSUME NEW j \in Slashes(x) PROVE k + j - 1 \in Slashes(f) /\ j \in Nat
    OBVIOUS
  <2>1. j \in 1..n /\ x[j] = "/"
    BY <1>2 DEF Slashes
  <2>2. f[k + j - 1] = "/" /\ k + j - 1 \in 1..Len(f)
    BY <1>1, <1>2, <2>1
  <2> QED
    BY <1>1, <2>1, <2>2 DEF Slashes
<1>4. \A h \in Slashes(x) : h + 1 \notin Slashes(x)
  <2> SUFFICES ASSUME NEW h \in Slashes(x), h + 1 \in Slashes(x) PROVE FALSE
    OBVIOUS
  <2>1. k + h - 1 \in Slashes(f) /\ k + (h + 1) - 1 \in Slashes(f) /\ h \in Nat
    BY <1>3
  <2>2. k + (h + 1) - 1 = (k + h - 1) + 1
    BY <2>1
  <2> QED
    BY <2>1, <2>2 DEF IsTidy
<1>5. ASSUME x # <<>> PROVE k \in DOMAIN f /\ x[1] = f[k]
  <2>1. Len(x) # 0
    BY <1>2, <1>5
  <2>2. 1 \in 1..n /\ k + 1 - 1 = k /\ k \in 1..Len(f)
    BY <1>1, <1>2, <2>1
  <2> QED
    BY <1>1, <1>2, <2>2
<1> QED
  BY <1>2, <1>4, <1>5 DEF x

(* The longest common prefix of some paths is one of them all. *)
LEMMA PrefixesExist ==
    ASSUME NEW S, S \subseteq Seq(Char), S # {}
    PROVE  LET c == LongestCommonPrefix(S)
           IN  c \in Seq(Char) /\ \A t \in S : IsPrefix(c, t)
<1> DEFINE P == CommonPrefixes(S)
           T == {Len(c) : c \in P}
<1>1. ASSUME NEW s \in S, NEW l \in 0..Len(s)
      PROVE  SubSeq(s, 1, l) \in Seq(Char) /\ Len(SubSeq(s, 1, l)) = l
  <2>1. s \in Seq(Char) /\ l \in Nat /\ 1 \in 1..Len(s) + 1 /\ l \in 1 - 1..Len(s) /\ l - 1 + 1 = l
    BY <1>1
  <2> QED
    BY <2>1, Slice
<1>2. P \subseteq Seq(Char) /\ \A c \in P, t \in S : IsPrefix(c, t)
  BY <1>1 DEF CommonPrefixes, Prefixes
<1>3. <<>> \in P
  <2> PICK s \in S : TRUE
    OBVIOUS
  <2>1. 0 \in 0..Len(s) /\ SubSeq(s, 1, 0) = <<>>
    OBVIOUS
  <2>2. <<>> \in UNION {Prefixes(seq) : seq \in S}
    BY <2>1 DEF Prefixes
  <2>3. \A t \in S : IsPrefix(<<>>, t)
    <3> SUFFICES ASSUME NEW t \in S PROVE IsPrefix(<<>>, t)
      OBVIOUS
    <3>1. SubSeq(t, 1, 0) = <<>> /\ Len(t) \in Nat /\ Len(<<>>) = 0 /\ SubSeq(<<>>, 1, 0) = <<>>
      OBVIOUS
    <3> QED
      BY <3>1 DEF IsPrefix
  <2> QED
    BY <2>2, <2>3 DEF CommonPrefixes
<1>4. PICK s \in S : TRUE
  OBVIOUS
<1>5. T \subseteq Nat /\ T # {} /\ Len(s) \in Nat /\ \A j \in T : j <= Len(s)
  <2>1. \A c \in P : Len(c) \in Nat /\ Len(c) <= Len(s)
    BY <1>2 DEF IsPrefix
  <2>2. s \in Seq(Char)
    BY <1>4
  <2>3. Len(s) \in Nat
    BY <2>2
  <2> HIDE DEF P
  <2>4. T # {}
    BY <1>3, Zenon
  <2> QED
    BY <2>1, <2>3, <2>4
<1>6. \E k \in T : \A j \in T : j <= k
  <2> HIDE DEF T
  <2> QED
    BY <1>5, Greatest, Zenon
<1>7. \E c \in P : \A other \in P : Len(other) <= Len(c)
  BY <1>6, Zenon
<1>8. LongestCommonPrefix(S) \in P
  BY <1>7 DEF LongestCommonPrefix
<1> QED
  BY <1>2, <1>8

(* Behind the root folder of the files is a slash, unless it is "/". *)
LEMMA SlashBehindRoot ==
    ASSUME NEW S, S \subseteq Seq(Char), S # {}, RootOf(S) \notin {<<>>, <<"/">>}
    PROVE  /\ Len(RootOf(S)) \in Nat
           /\ \A f \in S : Len(RootOf(S)) + 1 \in Slashes(f)
<1> DEFINE c == LongestCommonPrefix(S)
           shared == Front(c)
           L == LastSlash(shared)
           n == Len(c) - 1
<1>1. c \in Seq(Char) /\ \A f \in S : IsPrefix(c, f)
  BY PrefixesExist
<1>2. c # <<>> /\ RootOf(S) = ParentPath(shared)
  BY DEF RootOf
<1> HIDE DEF c
<1>3. n \in Nat /\ shared \in Seq(Char) /\ Len(shared) = n /\ \A k \in 1..n : shared[k] = c[k]
  <2>1. Len(c) \in Nat /\ Len(c) # 0
    BY <1>1, <1>2
  <2>2. 1 \in 1..Len(c) + 1 /\ n \in 1 - 1..Len(c) /\ n - 1 + 1 = n /\ n \in Nat
    BY <2>1
  <2>3. shared = SubSeq(c, 1, n)
    BY DEF Front
  <2>4. shared \in Seq(Char) /\ Len(shared) = n - 1 + 1 /\ \A k \in 1..n - 1 + 1 : shared[k] = c[1 + k - 1]
    BY <1>1, <2>2, <2>3, Slice
  <2> QED
    BY <2>2, <2>4
<1> HIDE DEF shared
<1>4. L \in 0..Len(shared) /\ (L # 0 => shared[L] = "/")
  BY <1>3, LastSlashIs
<1>5. ParentPath(shared) = IF L = 1 THEN <<"/">> ELSE SubSeq(shared, 1, L - 1)
  BY DEF ParentPath, LastSlash
<1> HIDE DEF L
<1>6. L > 1
  <2>1. L # 0
    <3>1. SubSeq(shared, 1, 0 - 1) = <<>>
      BY <1>3
    <3> QED
      BY <1>2, <1>5, <3>1
  <2>2. L # 1
    BY <1>2, <1>5
  <2> QED
    BY <1>3, <1>4, <2>1, <2>2
<1>7. Len(RootOf(S)) = L - 1
  <2>1. 1 \in 1..Len(shared) + 1 /\ L - 1 \in 1 - 1..Len(shared) /\ L - 1 - 1 + 1 = L - 1
    BY <1>3, <1>4, <1>6
  <2>2. RootOf(S) = SubSeq(shared, 1, L - 1)
    BY <1>2, <1>5, <1>6, Zenon
  <2>3. Len(RootOf(S)) = L - 1 - 1 + 1
    BY <1>3, <2>1, <2>2, Slice
  <2> QED
    BY <2>1, <2>3
<1>8. ASSUME NEW f \in S PROVE L \in Slashes(f)
  <2>1. IsPrefix(c, f) /\ f \in Seq(Char)
    BY <1>1
  <2>2. Len(c) <= Len(f) /\ \A h \in 1..Len(c) : c[h] = f[h]
    BY <1>1, <2>1, PrefixIs
  <2>3. L \in 1..n /\ L \in 1..Len(c) /\ L \in 1..Len(f)
    BY <1>1, <1>3, <1>4, <1>6, <2>1, <2>2
  <2>4. f[L] = "/"
    BY <1>3, <1>4, <1>6, <2>2, <2>3
  <2> QED
    BY <2>1, <2>3, <2>4 DEF Slashes
<1> QED
  BY <1>3, <1>4, <1>6, <1>7, <1>8

(* The path of a page is tidy, and relative unless the root is "/". *)
LEMMA PagesAreTidy ==
    ASSUME NEW S, S # {}, \A f \in S : IsTidy(f) /\ f \notin {<<>>, <<"/">>},
           NEW root \in {<<>>, RootOf(S)}, NEW f \in S
    PROVE  /\ IsTidy(PageFrom(root, f)) /\ PageFrom(root, f) \notin {<<>>, <<"/">>}
           /\ root # <<"/">> => ~IsAbsolute(PageFrom(root, f))
<1>1. S \subseteq Seq(Char)
  BY DEF IsTidy
<1>2. f \in Seq(Char) /\ Len(f) \in Nat /\ Len(f) # 0 /\ IsTidy(f)
  BY <1>1
<1> DEFINE x == IF root # <<>> /\ IsPrefix(root, f) THEN SubSeq(f, Len(root) + 2, Len(f)) ELSE RelativePath(f)
<1>3. PageFrom(root, f) = x \o Html
  BY DEF PageFrom
<1>4. CASE ~(root # <<>> /\ IsPrefix(root, f))
  <2>1. x = RelativePath(f)
    BY <1>4
  <2>2. CASE ~IsAbsolute(f)
    <3>1. x = f
      BY <2>1, <2>2 DEF RelativePath
    <3>2. x[1] # "/"
      BY <1>2, <2>2, <3>1 DEF IsAbsolute
    <3>3. \A h \in Slashes(x) : h + 1 \notin Slashes(x)
      BY <1>2, <3>1 DEF IsTidy
    <3> HIDE DEF x
    <3> QED
      BY <1>2, <1>3, <3>1, <3>2, <3>3, PageIsTidy
  <2>3. CASE IsAbsolute(f)
    <3>1. x = Tail(f) /\ f[1] = "/" /\ 1 \in Slashes(f)
      BY <1>2, <2>1, <2>3 DEF RelativePath, IsAbsolute, Slashes
    <3>2. Tail(f) = SubSeq(f, 2, Len(f)) /\ 2 \in 1..Len(f) + 1
      BY <1>2
    <3> DEFINE k == 2
    <3>6. k \in 1..Len(f) + 1 /\ x = SubSeq(f, k, Len(f))
      BY <3>1, <3>2
    <3> HIDE DEF k, x
    <3>7. x \in Seq(Char) /\ (\A h \in Slashes(x) : h + 1 \notin Slashes(x))
          /\ (x # <<>> => k \in DOMAIN f /\ x[1] = f[k])
      BY <1>2, <3>6, PathBehind
    <3>3. x \in Seq(Char) /\ (\A h \in Slashes(x) : h + 1 \notin Slashes(x))
          /\ (x # <<>> => 2 \in DOMAIN f /\ x[1] = f[2])
      BY <3>7 DEF k
    <3>4. 1 + 1 \notin Slashes(f)
      BY <1>2, <3>1 DEF IsTidy
    <3>5. x = <<>> \/ x[1] # "/"
      BY <3>3, <3>4 DEF Slashes
    <3> QED
      BY <1>3, <3>3, <3>5, PageIsTidy
  <2> QED
    BY <2>2, <2>3
<1>5. CASE root # <<>> /\ IsPrefix(root, f) /\ root # <<"/">>
  <2>1. root = RootOf(S) /\ RootOf(S) \notin {<<>>, <<"/">>}
    BY <1>5
  <2>2. Len(root) \in Nat /\ Len(root) + 1 \in Slashes(f)
    BY <1>1, <2>1, SlashBehindRoot
  <2> DEFINE k == Len(root) + 2
  <2>3. k \in 1..Len(f) + 1 /\ k \notin Slashes(f) /\ x = SubSeq(f, k, Len(f))
    <3>1. Len(root) + 1 \in 1..Len(f)
      BY <1>2, <2>2 DEF Slashes
    <3>2. (Len(root) + 1) + 1 \notin Slashes(f) /\ (Len(root) + 1) + 1 = k
      BY <1>2, <2>2 DEF IsTidy
    <3> QED
      BY <1>2, <1>5, <2>2, <3>1, <3>2
  <2> HIDE DEF k
  <2>4. x \in Seq(Char) /\ (\A h \in Slashes(x) : h + 1 \notin Slashes(x))
        /\ (x # <<>> => k \in DOMAIN f /\ x[1] = f[k])
    BY <1>2, <2>3, PathBehind, Zenon
  <2>5. x = <<>> \/ x[1] # "/"
    BY <2>3, <2>4 DEF Slashes
  <2> HIDE DEF x
  <2> QED
    BY <1>3, <2>4, <2>5, PageIsTidy
<1>6. CASE IsPrefix(root, f) /\ root = <<"/">>
  <2>1. Len(root) = 1 /\ root # <<>>
    BY <1>6
  <2>2. x = SubSeq(f, 3, Len(f))
    BY <1>6, <2>1
  <2>3. 3 \in 1..Len(f) + 1
    <3>1. Len(f) # 1
      <4> SUFFICES ASSUME Len(f) = 1 PROVE FALSE
        OBVIOUS
      <4> DEFINE top == <<"/">>
      <4>1. top \in Seq(Char) /\ Len(top) = 1 /\ root = top
        BY <1>6, Chars
      <4> HIDE DEF top
      <4>2. \A h \in 1..1 : top[h] = f[h]
        BY <1>2, <1>6, <4>1, PrefixIs
      <4>3. top = f
        BY <1>2, <4>1, <4>2, SeqEqual
      <4> QED
        BY <4>3 DEF top
    <3> DEFINE n == Len(f)
    <3>2. n \in Nat /\ n # 0 /\ n # 1
      BY <1>2, <3>1
    <3> HIDE DEF n
    <3>3. 3 \in 1..n + 1
      BY <3>2
    <3> QED
      BY <3>3 DEF n
  <2>4. x \in Seq(Char) /\ (\A h \in Slashes(x) : h + 1 \notin Slashes(x))
    BY <1>2, <2>2, <2>3, PathBehind, Zenon
  <2> HIDE DEF x
  <2> QED
    BY <1>3, <1>6, <2>4, PageIsTidy
<1> QED
  BY <1>4, <1>5, <1>6
-----------------------------------------------------------------------------
(* Which folders' pages were written, and of which folder the page could not be. *)
ThrowInv ==
    /\ phase \in {"root", "files", "folders", "pages", "symbols", "done", "thrown"}
    /\ phase \notin {"root", "files"} => nbFiles = Len(project)
    /\ phase = "pages" => todo \subseteq folders \cup {NoFolder} /\ \A d \in folders \ todo : ~Throws(d)
    /\ phase \in {"symbols", "done"} => \A d \in folders : ~Throws(d)
    /\ phase = "thrown" => \E d \in folders \cup {NoFolder} : Throws(d)

(* Whether the page of a folder can be written depends on the pages of files alone. *)
LEMMA SameThrows ==
    ASSUME UNCHANGED <<project, paths>>
    PROVE  \A d : Throws(d)' <=> Throws(d)
<1>1. \A d : Matching(d)' = Matching(d)
  BY DEF Matching, File
<1>2. \A d, f : Depth(d, f)' = Depth(d, f)
  BY DEF Depth
<1>3. \A d : Contained(d)' = Contained(d)
  BY <1>1, <1>2 DEF Contained
<1>4. \A d : Nested(d)' = Nested(d)
  BY <1>1, <1>3 DEF Nested
<1> QED
  BY <1>4 DEF Throws

(* It holds at the start, and every step keeps it. *)
LEMMA InitThrow == ExportInit => ThrowInv
  BY DEF ExportInit, ThrowInv

LEMMA NextThrow == ThrowInv /\ [ExportNext]_exportVars => ThrowInv'
<1> SUFFICES ASSUME ThrowInv, [ExportNext]_exportVars PROVE ThrowInv'
  OBVIOUS
<1>1. CASE DetectRootPath \/ WriteFilePage \/ ListPageFolders \/ CloseFolders
  <2>1. \/ phase' \in {"root", "files"}
        \/ phase' = "folders" /\ UNCHANGED <<project, nbFiles>> /\ nbFiles = Len(project)
    BY <1>1 DEF ThrowInv, DetectRootPath, WriteFilePage, ListPageFolders, CloseFolders, inputVars
  <2> QED
    BY <2>1 DEF ThrowInv
<1>2. CASE FoldersListed
  <2>1. phase' = "pages" /\ nbFiles' = Len(project') /\ todo' = folders' \cup {NoFolder}
    BY <1>2 DEF ThrowInv, FoldersListed, inputVars, folderVars
  <2> QED
    BY <2>1 DEF ThrowInv
<1>3. ASSUME UNCHANGED <<project, nbFiles, paths, folders>>, phase' = phase, todo' = todo PROVE ThrowInv'
  <2>1. \A d : Throws(d)' <=> Throws(d)
    BY <1>3, SameThrows
  <2> QED
    BY <1>3, <2>1 DEF ThrowInv
<1>4. ASSUME NEW dir \in todo, WriteDirectoryPage(dir) PROVE ThrowInv'
  <2>1. /\ UNCHANGED <<project, nbFiles, paths, folders>> /\ phase = "pages" /\ phase' = "pages"
        /\ ~Throws(dir) /\ todo' = todo \ {dir}
    BY <1>4 DEF WriteDirectoryPage, inputVars, folderVars
  <2>2. \A d : Throws(d)' <=> Throws(d)
    BY <2>1, SameThrows
  <2> QED
    BY <2>1, <2>2 DEF ThrowInv
<1>5. ASSUME NEW dir \in todo, ThrowOutOfRange(dir) PROVE ThrowInv'
  <2>1. /\ UNCHANGED <<project, nbFiles, paths, folders>> /\ phase = "pages" /\ phase' = "thrown"
        /\ Throws(dir)
    BY <1>5 DEF ThrowOutOfRange, inputVars, folderVars
  <2>2. \A d : Throws(d)' <=> Throws(d)
    BY <2>1, SameThrows
  <2> QED
    BY <2>1, <2>2 DEF ThrowInv
<1>6. CASE DirectoryPagesWritten \/ SymbolPagesWritten
  <2>1. /\ UNCHANGED <<project, nbFiles, paths, folders>>
        /\ \/ phase = "pages" /\ todo = {} /\ phase' = "symbols"
           \/ phase = "symbols" /\ phase' = "done"
    BY <1>6 DEF DirectoryPagesWritten, SymbolPagesWritten, inputVars, folderVars
  <2>2. \A d : Throws(d)' <=> Throws(d)
    BY <2>1, SameThrows
  <2> QED
    BY <2>1, <2>2 DEF ThrowInv
<1>7. CASE WriteSymbolPage
  BY <1>3, <1>7 DEF WriteSymbolPage, inputVars, folderVars
<1>8. CASE UNCHANGED exportVars
  BY <1>3, <1>8 DEF exportVars, inputVars, folderVars
<1> QED
  BY <1>1, <1>2, <1>4, <1>5, <1>6, <1>7, <1>8 DEF ExportNext

(* The pages of files, as the exporter knows them when it comes to the folders. *)
LEMMA PagesOfFiles ==
    ASSUME ExportInv, nbFiles = Len(project), NEW f \in File
    PROVE  /\ IsTidy(paths[f]) /\ paths[f] \notin {<<>>, <<"/">>}
           /\ ~RootIsSlash => ~IsAbsolute(paths[f])
<1>1. DOMAIN paths = File
  BY ProjectIsList DEF ExportInv, PathsInv
<1>2. paths[f] = PageFrom(rootpath, f)
  BY <1>1 DEF ExportInv, PathsInv, PageOf
<1>3. \A g \in File : IsTidy(g) /\ g \notin {<<>>, <<"/">>}
  BY ExporterAssumption DEF ExportInv, File
<1> DEFINE S == File
<1>4. S # {} /\ f \in S /\ rootpath \in {<<>>, RootOf(S)} /\ \A g \in S : IsTidy(g) /\ g \notin {<<>>, <<"/">>}
  BY <1>3 DEF ExportInv, PathsInv
<1> HIDE DEF S
<1>5. /\ IsTidy(PageFrom(rootpath, f)) /\ PageFrom(rootpath, f) \notin {<<>>, <<"/">>}
      /\ rootpath # <<"/">> => ~IsAbsolute(PageFrom(rootpath, f))
  BY <1>4, PagesAreTidy
<1> QED
  BY <1>2, <1>5 DEF RootIsSlash

(* The home page is written: the names of folders begin where their paths do. *)
LEMMA HomePageIsWritten == ASSUME ExportInv, nbFiles = Len(project) PROVE ~Throws(NoFolder)
<1>1. SUFFICES ASSUME NEW f \in Nested(<<>>) PROVE ~(NameStart(<<>>) > Len(ParentPath(paths[f])) + 1)
  BY ExporterAssumption DEF Throws
<1>2. f \in File
  BY DEF Nested, Matching
<1> DEFINE p == paths[f]
<1>3. IsTidy(p) /\ p \notin {<<>>, <<"/">>}
  BY <1>2, PagesOfFiles
<1> HIDE DEF p
<1>4. Len(ParentPath(p)) \in Nat
  BY <1>3, Halved DEF IsTidy
<1>5. NameStart(<<>>) = 1
  BY DEF NameStart
<1> QED
  BY <1>4, <1>5 DEF p

(* The page of a folder cannot be written when a page beside it is named like it, and only
   then, but for the root "/". *)
LEMMA Throwing ==
    ASSUME ExportInv, nbFiles = Len(project), NEW d \in folders
    PROVE  /\ \A f \in File : NamedLikeFolder(d, f) => Throws(d)
           /\ Throws(d) /\ ~RootIsSlash => \E f \in File : NamedLikeFolder(d, f)
<1>1. d \in Folder /\ IsTidy(d) /\ d # <<>> /\ NoFolder = <<>>
  BY ExporterAssumption, FoldersAssumption DEF ExportInv, FoldersInv, FoldersTypeOK
<1>2. ASSUME NEW f \in File
      PROVE  /\ IsTidy(paths[f]) /\ paths[f] \notin {<<>>, <<"/">>}
             /\ ~RootIsSlash => ~IsAbsolute(paths[f])
  BY PagesOfFiles
<1>3. ASSUME NEW f \in File, NamedLikeFolder(d, f) PROVE Throws(d)
  <2> DEFINE p == paths[f]
  <2>1. IsTidy(p) /\ p \notin {<<>>, <<"/">>} /\ Alike(d, p)
    BY <1>2, <1>3 DEF NamedLikeFolder, Alike
  <2> HIDE DEF p
  <2>2. /\ IsPrefix(d, p) /\ Len(d) < Len(p) /\ Slashes(p) \subseteq 1..Len(d) /\ Len(ParentPath(p)) < Len(d)
    BY <1>1, <2>1, FolderBesidePage
  <2>3. Len(d) \in Nat /\ Len(ParentPath(p)) \in Nat
    BY <1>1, <2>1, Halved DEF IsTidy
  <2>4. {h \in Slashes(p) : h > Len(d)} = {}
    BY <2>2, <2>3
  <2>5. f \in Matching(d) /\ Depth(d, f) = 0
    BY <1>3, <2>2, <2>3, <2>4, FS_EmptySet, Zenon DEF Matching, Depth, p
  <2>6. f \in Nested(d)
    BY <2>5 DEF Nested, Contained
  <2>7. NameStart(d) > Len(ParentPath(p)) + 1
    BY <1>1, <2>2, <2>3 DEF NameStart
  <2> QED
    BY <2>6, <2>7 DEF Throws, p
<1>4. ASSUME Throws(d), ~RootIsSlash PROVE \E f \in File : NamedLikeFolder(d, f)
  <2>1. PICK f \in Nested(d) : NameStart(d) > Len(ParentPath(paths[f])) + 1
    BY <1>4 DEF Throws
  <2> DEFINE p == paths[f]
  <2>2. f \in File /\ Len(p) > Len(d) /\ IsPrefix(d, p) /\ Cardinality({h \in Slashes(p) : h > Len(d)}) # 1
    BY <2>1 DEF Nested, Contained, Matching, Depth
  <2>3. IsTidy(p) /\ p \notin {<<>>, <<"/">>} /\ ~IsAbsolute(p)
    BY <1>2, <1>4, <2>2
  <2>4. NameStart(d) > Len(ParentPath(p)) + 1
    BY <2>1
  <2> HIDE DEF p
  <2>5. Len(d) \in Nat /\ Len(p) \in Nat /\ Len(ParentPath(p)) \in Nat
    BY <1>1, <2>3, Halved DEF IsTidy
  <2>6. Len(ParentPath(p)) <= Len(d) /\ Len(d) < Len(p)
    BY <1>1, <2>2, <2>4, <2>5 DEF NameStart
  <2>7. Alike(d, p)
    BY <1>1, <2>2, <2>3, <2>6, PageBesideFolder
  <2> QED
    BY <2>2, <2>7 DEF NamedLikeFolder, Alike, p
<1> QED
  BY <1>3, <1>4

(* What the invariant says is what the property does. *)
LEMMA ThrowsThen == ExportInv /\ ThrowInv => ThrowsForLikeNames
<1> SUFFICES ASSUME ExportInv, ThrowInv PROVE ThrowsForLikeNames
  OBVIOUS
<1>1. CASE phase = "thrown"
  <2>1. nbFiles = Len(project)
    BY <1>1 DEF ThrowInv
  <2>2. PICK d \in folders \cup {NoFolder} : Throws(d)
    BY <1>1 DEF ThrowInv
  <2>3. ASSUME ~RootIsSlash PROVE \E e \in folders, f \in File : NamedLikeFolder(e, f)
    <3>1. d \in folders
      BY <2>1, <2>2, HomePageIsWritten
    <3> QED
      BY <2>1, <2>2, <2>3, <3>1, Throwing
  <2> QED
    BY <1>1, <2>3 DEF ThrowsForLikeNames
<1>2. CASE phase \in {"symbols", "done"}
  <2>1. nbFiles = Len(project) /\ \A d \in folders : ~Throws(d)
    BY <1>2 DEF ThrowInv
  <2>2. \A d \in folders, f \in File : ~NamedLikeFolder(d, f)
    BY <2>1, Throwing
  <2> QED
    BY <1>2, <2>2 DEF ThrowsForLikeNames
<1> QED
  BY <1>1, <1>2 DEF ThrowsForLikeNames

(* Whatever the project: when the export ends with the pages of folders unwritten, a page lies
   beside a folder and begins with its name, or the root is "/"; and when they are written, no
   page lies so. *)
THEOREM ThrowsOnlyForLikeNames == ExportSpec => []ThrowsForLikeNames
  BY InitExport, NextExport, InitThrow, NextThrow, ThrowsThen, PTL DEF ExportSpec
-----------------------------------------------------------------------------
(* The path of a page or of a folder when the root is not "/". *)
IsRelative(p) == IsTidy(p) /\ ~IsAbsolute(p)

(* It is a name, or a name in such a folder. *)
LEMMA RelativeHalved ==
    ASSUME NEW p, IsRelative(p), p # <<>>
    PROVE  LET q == ParentPath(p)
               m == LastName(p)
           IN  /\ IsRelative(q) /\ q # <<"/">> /\ m \in Name /\ q \in Seq(Char)
               /\ p = IF q = <<>> THEN m ELSE Append(q, "/") \o m
               /\ q = <<>> => LastSlash(p) = 0
               /\ q # <<>> => Len(q) = LastSlash(p) - 1
               /\ Len(q) < Len(p) /\ Len(q) \in Nat /\ Len(p) \in Nat
               /\ Names(p) = Append(Names(q), m) /\ Front(Names(p)) = Names(q) /\ Last(Names(p)) = m
<1> DEFINE q == ParentPath(p)
           m == LastName(p)
           L == LastSlash(p)
<1>1. p \in Seq(Char) /\ p[1] # "/" /\ Len(p) \in Nat /\ Len(p) # 0
  <2>1. p \in Seq(Char)
    BY DEF IsRelative, IsTidy
  <2> QED
    BY <2>1 DEF IsRelative, IsAbsolute
<1>2. p # <<"/">> /\ IsTidy(p)
  BY <1>1 DEF IsRelative
<1>3. L \in Nat /\ L # 1 /\ L < Len(p)
  BY <1>1, LastSlashIs, <1>2, Halved
<1>4. /\ IsTidy(q) /\ m \in Name /\ p = Lead(q) \o m /\ Len(Lead(q)) = L /\ Lead(q) \in Seq(Char)
      /\ L = 0 => q = <<>>
      /\ L > 1 => Len(q) = L - 1 /\ q \notin {<<>>, <<"/">>}
  BY <1>2, Halved
<1>5. Names(p) = Append(Names(q), m) /\ Front(Names(p)) = Names(q) /\ Last(Names(p)) = m
  BY <1>2, NamesHalved
<1> HIDE DEF q, m, L
<1>6. q # <<"/">> /\ (q = <<>> => L = 0) /\ (q # <<>> => L > 1)
  <2>1. <<>> # <<"/">>
    OBVIOUS
  <2>2. L = 0 \/ L > 1
    BY <1>3
  <2>3. CASE L = 0
    BY <1>4, <2>1, <2>3
  <2>4. CASE L > 1
    BY <1>4, <2>4
  <2> QED
    BY <2>2, <2>3, <2>4
<1>7. q \in Seq(Char) /\ m \in Seq(Char)
  BY <1>4, Chars DEF IsTidy, Name
<1>8. p = IF q = <<>> THEN m ELSE Append(q, "/") \o m
  <2>1. <<>> \o m = m
    BY <1>7
  <2> QED
    BY <1>4, <1>6, <2>1, Zenon DEF Lead
<1>9. ~IsAbsolute(q)
  <2> SUFFICES ASSUME IsAbsolute(q) PROVE FALSE
    OBVIOUS
  <2>1. q # <<>> /\ q[1] = "/" /\ Len(q) \in Nat /\ Len(q) # 0
    BY <1>7 DEF IsAbsolute
  <2> DEFINE t == Append(q, "/")
  <2>2. p = t \o m /\ t \in Seq(Char) /\ t[1] = "/" /\ 1 \in 1..Len(t)
    BY <1>7, <1>8, <2>1, Chars
  <2> HIDE DEF t
  <2>3. p[1] = t[1]
    BY <1>7, <2>2, Concatenated
  <2> QED
    BY <1>1, <2>2, <2>3
<1>10. Len(q) < Len(p) /\ Len(q) \in Nat
  <2>1. q = <<>> => Len(q) = 0
    OBVIOUS
  <2> QED
    BY <1>1, <1>3, <1>4, <1>6, <2>1
<1> QED
  BY <1>1, <1>4, <1>5, <1>6, <1>7, <1>8, <1>9, <1>10, Zenon DEF IsRelative, q, m, L

(* Induction over the folders around a path. *)
LEMMA RelativeByInduction ==
    ASSUME NEW T, <<>> \in T,
           \A p \in Seq(Char) : IsRelative(p) /\ p # <<>> /\ ParentPath(p) \in T => p \in T
    PROVE  \A p : IsRelative(p) => p \in T
<1> DEFINE N == {n \in Nat : \A p \in Seq(Char) : IsRelative(p) /\ Len(p) <= n => p \in T}
<1>1. 0 \in N
  BY Chars
<1>2. ASSUME NEW n \in Nat, n \in N PROVE n + 1 \in N
  <2> SUFFICES ASSUME NEW p \in Seq(Char), IsRelative(p), Len(p) <= n + 1, p # <<>> PROVE p \in T
    OBVIOUS
  <2> DEFINE q == ParentPath(p)
  <2>1. IsRelative(q) /\ q \in Seq(Char) /\ Len(q) < Len(p) /\ Len(q) \in Nat /\ Len(p) \in Nat
    BY RelativeHalved
  <2> HIDE DEF q
  <2>2. q \in T
    BY <1>2, <2>1
  <2> QED
    BY <2>2 DEF q
<1> HIDE DEF N
<1>3. Nat \subseteq N
  BY <1>1, <1>2, NatByInduction
<1>4. ASSUME NEW p, IsRelative(p) PROVE p \in T
  <2>1. p \in Seq(Char) /\ Len(p) \in N
    BY <1>3, <1>4 DEF IsRelative, IsTidy
  <2> QED
    BY <1>4, <2>1 DEF N
<1> QED
  BY <1>4

(* The empty path is one. *)
LEMMA NoneIsRelative == IsRelative(<<>>)
  BY Chars DEF IsRelative, IsTidy, IsAbsolute, Slashes

(* None of its names is that of the root folder. *)
LEMMA NamesAreNames ==
    ASSUME NEW p, IsRelative(p)
    PROVE  Names(p) \in Seq(Name) /\ (p # <<>> => Names(p) # <<>> /\ Len(Names(p)) \in Nat \ {0})
<1> DEFINE T == {a \in Seq(Char) : Names(a) \in Seq(Name)}
<1>1. <<>> \in T
  <2>1. <<>> \in Seq(Char) /\ <<>> \in Seq(Name)
    OBVIOUS
  <2> QED
    BY <2>1, NamesOfRoots, Zenon
<1>2. ASSUME NEW a \in Seq(Char), IsRelative(a), a # <<>>, ParentPath(a) \in T PROVE a \in T
  <2>1. Names(a) = Append(Names(ParentPath(a)), LastName(a)) /\ LastName(a) \in Name
    BY <1>2, RelativeHalved
  <2>2. Names(ParentPath(a)) \in Seq(Name)
    BY <1>2
  <2> QED
    BY <2>1, <2>2
<1> HIDE DEF T
<1>3. p \in T
  BY <1>1, <1>2, RelativeByInduction
<1>4. ASSUME p # <<>> PROVE Names(p) # <<>>
  BY <1>4, RelativeHalved, NamesHalved DEF IsRelative, IsAbsolute
<1>5. Names(p) \in Seq(Name)
  BY <1>3 DEF T
<1> QED
  BY <1>4, <1>5

(* Between two names is a slash. *)
LEMMA SlashesCounted ==
    ASSUME NEW p, IsRelative(p), p # <<>>
    PROVE  IsFiniteSet(Slashes(p)) /\ Cardinality(Slashes(p)) = Len(Names(ParentPath(p)))
<1> DEFINE T == {a \in Seq(Char) : a # <<>> => /\ IsFiniteSet(Slashes(a))
                                               /\ Cardinality(Slashes(a)) = Len(Names(ParentPath(a)))}
<1>1. <<>> \in T
  OBVIOUS
<1>2. ASSUME NEW a \in Seq(Char), IsRelative(a), a # <<>>, ParentPath(a) \in T PROVE a \in T
  <2> DEFINE q == ParentPath(a)
             m == LastName(a)
             L == LastSlash(a)
  <2>1. /\ IsRelative(q) /\ m \in Name /\ q \in Seq(Char) /\ Len(q) \in Nat
        /\ a = IF q = <<>> THEN m ELSE Append(q, "/") \o m
        /\ q = <<>> => L = 0
        /\ q # <<>> => Len(q) = L - 1
    BY <1>2, RelativeHalved, Zenon
  <2>2. L \in Nat /\ Slashes(a) \subseteq 1..L /\ (L # 0 => L \in Slashes(a))
    BY LastSlashIs
  <2>3. q \in T
    BY <1>2
  <2> HIDE DEF q, m, L, T
  <2>4. CASE q = <<>>
    <3>1. Slashes(a) = {}
      BY <2>1, <2>2, <2>4
    <3>2. Len(Names(<<>>)) = 0
      BY NamesOfRoots
    <3> QED
      BY <2>4, <3>1, <3>2, FS_EmptySet, Zenon DEF T, q
  <2>5. CASE q # <<>>
    <3> DEFINE t == Append(q, "/")
    <3>0. "/" \in Char /\ Len(q) + 1 = L
      BY <2>1, <2>2, <2>5, Chars
    <3>1. /\ t \in Seq(Char) /\ Len(t) = L /\ a = t \o m /\ m \in Seq(Char)
          /\ \A h \in 1..Len(q) : t[h] = q[h]
      <4>1. t \in Seq(Char) /\ Len(t) = Len(q) + 1 /\ \A h \in 1..Len(q) : t[h] = q[h]
        BY <2>1, <3>0, Appended
      <4>2. m \in Seq(Char)
        BY <2>1, Chars DEF Name
      <4> QED
        BY <2>1, <2>5, <3>0, <4>1, <4>2
    <3> HIDE DEF t
    <3>2. \A h \in 1..L : a[h] = t[h]
      BY <3>1, Concatenated
    <3>3. \A h \in 1..Len(q) : a[h] = q[h]
      BY <2>1, <2>2, <2>5, <3>1, <3>2
    <3>4. DOMAIN a = 1..Len(a) /\ Len(a) \in Nat /\ DOMAIN q = 1..Len(q) /\ L <= Len(a)
      BY <2>1, <2>2, LastSlashIs DEF L
    <3>5. Slashes(a) = Slashes(q) \cup {L} /\ L \notin Slashes(q)
      <4>1. \A h \in 1..Len(q) : h \in Slashes(a) <=> h \in Slashes(q)
        BY <2>1, <2>2, <2>5, <3>3, <3>4 DEF Slashes
      <4>2. 1..L = (1..Len(q)) \cup {L} /\ L \notin 1..Len(q) /\ L # 0
        BY <2>1, <2>2, <2>5
      <4>3. Slashes(q) \subseteq 1..Len(q)
        BY <3>4 DEF Slashes
      <4> QED
        BY <2>2, <4>1, <4>2, <4>3
    <3>6. IsFiniteSet(Slashes(q)) /\ Cardinality(Slashes(q)) = Len(Names(ParentPath(q)))
      BY <2>3, <2>5 DEF T
    <3>7. IsFiniteSet(Slashes(a)) /\ Cardinality(Slashes(a)) = Cardinality(Slashes(q)) + 1
      BY <3>5, <3>6, FS_AddElement
    <3>8. Names(q) = Append(Names(ParentPath(q)), LastName(q)) /\ Names(ParentPath(q)) \in Seq(Name)
          /\ LastName(q) \in Name
      BY <2>1, <2>5, RelativeHalved, NamesAreNames
    <3>9. Len(Names(q)) = Len(Names(ParentPath(q))) + 1
      BY <3>8
    <3> QED
      BY <3>6, <3>7, <3>9 DEF T, q
  <2> QED
    BY <2>4, <2>5
<1> HIDE DEF T
<1>3. p \in T
  BY <1>1, <1>2, RelativeByInduction
<1> QED
  BY <1>3 DEF T

(* Three lists one behind the other, as a predicate, which the provers find instances of. *)
Associated(x, y, z) == (x \o y) \o z = x \o (y \o z)

LEMMA AssociatedIn ==
    ASSUME NEW S, NEW x \in Seq(S), NEW y \in Seq(S), NEW z \in Seq(S)
    PROVE  Associated(x, y, z)
BY ConcatAssociative DEF Associated

(* A name behind a path that is behind another. *)
LEMMA Regrouped ==
    ASSUME NEW s \in Seq(Char), NEW q \in Seq(Char), NEW m \in Seq(Char)
    PROVE  s \o (Append(q, "/") \o m) = Append(s \o q, "/") \o m
<1> DEFINE u == Append(q, "/")
           c == "/"
<1>1. c \in Char /\ u \in Seq(Char)
  BY Chars
<1>2. Append(s \o q, "/") = s \o u
  <2> HIDE DEF c
  <2>1. s \o Append(q, c) = Append(s \o q, c)
    BY <1>1, AppendBehind
  <2> QED
    BY <2>1, Zenon DEF c
<1> HIDE DEF u
<1>3. Associated(s, u, m)
  BY <1>1, AssociatedIn, Zenon
<1> QED
  BY <1>2, <1>3, Zenon DEF u, Associated

(* A path in a folder has the names of both. *)
LEMMA NamesOfBoth ==
    ASSUME NEW dir \in Seq(Char), dir # <<>>, NEW x, IsRelative(x), x # <<>>
    PROVE  Names(Append(dir, "/") \o x) = Names(dir) \o Names(x)
<1> DEFINE Part == Seq(Char)
           t == Append(dir, "/")
           T == {a \in Part : a # <<>> => Names(t \o a) = Names(dir) \o Names(a)}
<1>1. <<>> \in T
  BY Chars
<1>0. Names(dir) \in Seq(Part) /\ t \in Part
  BY NamesType, Chars
<1>2. ASSUME NEW a \in Part, IsRelative(a), a # <<>>, ParentPath(a) \in T PROVE a \in T
  <2> DEFINE q == ParentPath(a)
             m == LastName(a)
  <2>1. /\ IsRelative(q) /\ m \in Name /\ q \in Part
        /\ a = IF q = <<>> THEN m ELSE Append(q, "/") \o m
        /\ Names(a) = Append(Names(q), m)
    BY <1>2, RelativeHalved, Zenon
  <2>2. q \in T
    BY <1>2
  <2>3. m \in Part
    BY <2>1, Chars DEF Name
  <2> HIDE DEF q, m
  <2>4. Names(q) \in Seq(Part)
    BY <2>1, NamesType
  <2> DEFINE up == Names(dir)
             down == Names(q)
  <2>5. up \o Append(down, m) = Append(up \o down, m)
    <3> HIDE DEF up, down, Part
    <3> QED
      BY <1>0, <2>3, <2>4, AppendBehind DEF up, down
  <2>6. CASE q = <<>>
    <3>1. Names(t \o a) = Append(Names(dir), m)
      BY <2>1, <2>6, NamesInFolder
    <3>2. down = <<>> /\ up \o <<>> = up
      BY <1>0, <2>6, NamesOfRoots
    <3> QED
      BY <2>1, <2>5, <3>1, <3>2, Zenon
  <2>7. CASE q # <<>>
    <3> DEFINE b == t \o q
    <3>1. b \in Part /\ b # <<>>
      <4>1. Len(q) \in Nat /\ Len(q) # 0 /\ Len(b) = Len(t) + Len(q) /\ b \in Part /\ Len(t) \in Nat
        BY <1>0, <2>1, <2>7
      <4> QED
        BY <4>1
    <3>2. t \o (Append(q, "/") \o m) = Append(b, "/") \o m
      <4> HIDE DEF t
      <4>1. t \in Seq(Char) /\ q \in Seq(Char) /\ m \in Seq(Char)
        BY <1>0, <2>1, <2>3
      <4> HIDE DEF Part
      <4>2. t \o (Append(q, "/") \o m) = Append(t \o q, "/") \o m
        BY <4>1, Regrouped, ZenonT(30)
      <4> QED
        BY <4>2, Zenon
    <3>3. Names(b) = up \o down
      BY <2>2, <2>7
    <3> HIDE DEF b
    <3>4. Names(Append(b, "/") \o m) = Append(Names(b), m)
      BY <2>1, <3>1, NamesInFolder
    <3> QED
      BY <2>1, <2>5, <2>7, <3>2, <3>3, <3>4, Zenon
  <2> QED
    BY <2>6, <2>7
<1> HIDE DEF T, t
<1>3. x \in T
  BY <1>1, <1>2, RelativeByInduction
<1> QED
  BY <1>3 DEF T, t

StartsWith(u, s, n) == Len(s) = n /\ n < Len(u) /\ \A k \in 1..n : u[k] = s[k]

IsBehind(p, d) ==
    \E r \in Seq(Char) : /\ r # <<>> /\ p = Append(d, "/") \o r
                         /\ Names(p) = Names(d) \o Names(r) /\ Names(r) \in Seq(Name) \ {<<>>}

(* The names of a folder are the first ones of a path: it is behind the folder. *)
LEMMA BehindFolder ==
    ASSUME NEW p, IsRelative(p), NEW d, IsTidy(d), d # <<>>,
           NEW n \in Nat, StartsWith(Names(p), Names(d), n)
    PROVE  IsBehind(p, d)
<1> DEFINE names == Names(d)
           Behind2(a) == \E r \in Seq(Char) : /\ r # <<>> /\ a = Append(d, "/") \o r
                                             /\ Names(a) = names \o Names(r)
                                             /\ Names(r) \in Seq(Name) \ {<<>>}
           Reaches(a) == n < Len(Names(a)) /\ \A k \in 1..n : Names(a)[k] = names[k]
           T == {a \in Seq(Char) : Reaches(a) => Behind2(a)}
<1>0. Len(names) = n /\ Reaches(p)
  BY DEF StartsWith
<1>1. <<>> \in T
  <2>1. Len(Names(<<>>)) = 0 /\ <<>> \in Seq(Char)
    BY NamesOfRoots
  <2> QED
    BY <2>1
<1>2. d \in Seq(Char) /\ names \in Seq(Seq(Char)) /\ Append(d, "/") \in Seq(Char)
  <2>1. d \in Seq(Char)
    BY DEF IsTidy
  <2> QED
    BY <2>1, NamesType, Chars
<1>3. ASSUME NEW a \in Seq(Char), IsRelative(a), a # <<>>, ParentPath(a) \in T PROVE a \in T
  <2> SUFFICES ASSUME Reaches(a) PROVE Behind2(a)
    BY Zenon
  <2> DEFINE q == ParentPath(a)
             m == LastName(a)
             outer == Names(q)
  <2>1. /\ IsRelative(q) /\ m \in Name /\ q \in Seq(Char)
        /\ a = IF q = <<>> THEN m ELSE Append(q, "/") \o m
        /\ Names(a) = Append(Names(q), m)
    BY <1>3, RelativeHalved, Zenon
  <2>2. outer \in Seq(Name)
    BY <2>1, NamesAreNames
  <2>3. Reaches(q) => Behind2(q)
    BY <1>3, Zenon
  <2>4. m \in Seq(Char)
    BY <2>1, Chars DEF Name
  <2> HIDE DEF q, m, T
  <2>5. Len(outer) \in Nat /\ Len(Names(a)) = Len(outer) + 1 /\ n <= Len(outer)
        /\ \A k \in 1..n : outer[k] = names[k]
    <3> HIDE DEF outer
    <3>1. Len(outer) \in Nat /\ Len(Append(outer, m)) = Len(outer) + 1
          /\ \A k \in 1..Len(outer) : Append(outer, m)[k] = outer[k]
      BY <2>1, <2>2
    <3>2. Names(a) = Append(outer, m)
      BY <2>1 DEF outer
    <3>3. n <= Len(outer)
      BY <3>1, <3>2
    <3> QED
      BY <3>1, <3>2, <3>3
  <2>6. CASE n = Len(outer)
    <3>1. outer = names
      <4>1. outer \in Seq(Seq(Char))
        BY <2>1, NamesType
      <4> HIDE DEF outer, names
      <4> QED
        BY <1>0, <1>2, <2>5, <2>6, <4>1, SeqEqual
    <3>2. q = d
      BY <2>1, <3>1, NamesAreDistinct DEF IsRelative
    <3>3. a = Append(d, "/") \o m
      BY <2>1, <3>2, Zenon
    <3>4. Names(m) = <<m>>
      <4>1. <<m>> = Append(<<>>, m)
        OBVIOUS
      <4> QED
        BY <2>1, <4>1, NamesOfName, NamesOfRoots
    <3>5. Names(a) = names \o <<m>> /\ <<m>> \in Seq(Name) \ {<<>>} /\ m # <<>>
      <4> HIDE DEF names
      <4>1. Append(names, m) = names \o <<m>>
        BY <1>2, <2>4, AppendIsConcat
      <4> QED
        BY <2>1, <3>1, <4>1 DEF Name
    <3> QED
      BY <2>4, <3>3, <3>4, <3>5, Zenon
  <2>7. CASE n < Len(outer)
    <3>1. PICK s \in Seq(Char) : /\ s # <<>> /\ q = Append(d, "/") \o s
                                 /\ outer = names \o Names(s) /\ Names(s) \in Seq(Name) \ {<<>>}
      BY <2>3, <2>5, <2>7, Zenon
    <3> DEFINE r == Append(s, "/") \o m
    <3>2. q # <<>>
      <4>1. Len(Names(<<>>)) = 0
        BY NamesOfRoots
      <4> QED
        BY <2>5, <2>7, <4>1
    <3>3. a = Append(d, "/") \o r
      <4> DEFINE t == Append(d, "/")
      <4>1. t \in Seq(Char) /\ s \in Seq(Char) /\ m \in Seq(Char)
        BY <1>2, <2>4
      <4>2. a = Append(t \o s, "/") \o m
        BY <2>1, <3>1, <3>2, Zenon
      <4> HIDE DEF t
      <4>3. t \o (Append(s, "/") \o m) = Append(t \o s, "/") \o m
        BY <4>1, Regrouped, Zenon
      <4> QED
        BY <4>2, <4>3, Zenon DEF t
    <3>4. Names(r) = Append(Names(s), m)
      BY <2>1, <3>1, NamesInFolder
    <3>5. Names(a) = names \o Append(Names(s), m)
      <4> DEFINE Part == Seq(Char)
                 down == Names(s)
      <4>1. down \in Seq(Part)
        BY NamesType
      <4>2. m \in Part /\ names \in Seq(Part)
        BY <1>2, <2>4
      <4>3. Names(a) = Append(names \o down, m)
        BY <2>1, <3>1, Zenon
      <4> HIDE DEF Part, down, names
      <4>4. names \o Append(down, m) = Append(names \o down, m)
        BY <4>1, <4>2, AppendBehind
      <4> QED
        BY <4>3, <4>4 DEF down
    <3>6. r \in Seq(Char) /\ r # <<>>
      <4> DEFINE t == Append(s, "/")
      <4>1. t \in Seq(Char) /\ Len(t) = Len(s) + 1 /\ Len(s) \in Nat
        BY <3>1, Chars
      <4> HIDE DEF t
      <4>0. t \in Seq(Char) /\ m \in Seq(Char) /\ Len(m) \in Nat
        BY <2>4, <4>1
      <4>2. t \o m \in Seq(Char) /\ Len(t \o m) = Len(t) + Len(m)
        BY <4>0, Concatenated
      <4>3. t \o m # <<>>
        <5>1. Len(t \o m) # 0
          BY <4>0, <4>1, <4>2
        <5> QED
          BY <5>1
      <4> QED
        BY <4>2, <4>3 DEF t
    <3>7. Append(Names(s), m) \in Seq(Name) \ {<<>>}
      <4> DEFINE down == Names(s)
      <4>1. down \in Seq(Name) /\ m \in Name
        BY <2>1, <3>1
      <4> HIDE DEF down
      <4>2. Append(down, m) \in Seq(Name) /\ Append(down, m) # <<>>
        BY <4>1, FrontAndLast
      <4> QED
        BY <4>2 DEF down
    <3> HIDE DEF r
    <3> QED
      BY <3>3, <3>4, <3>5, <3>6, <3>7, Zenon
  <2>8. n = Len(outer) \/ n < Len(outer)
    <3> HIDE DEF outer
    <3> QED
      BY <2>5
  <2> QED
    BY <2>6, <2>7, <2>8, Zenon
<1> HIDE DEF T
<1>4. p \in T
  BY <1>1, <1>3, RelativeByInduction
<1> QED
  BY <1>0, <1>4, Zenon DEF T, IsBehind

(* What is in a folder, by its name. *)
LEMMA InFolder ==
    ASSUME NEW d, IsRelative(d), NEW m \in Name
    PROVE  /\ In(d, m) = IF d = <<>> THEN m ELSE Append(d, "/") \o m
           /\ IsRelative(In(d, m)) /\ In(d, m) # <<>> /\ ParentPath(In(d, m)) = d
           /\ Names(In(d, m)) = Append(Names(d), m) /\ Front(Names(In(d, m))) = Names(d)
<1> DEFINE p == In(d, m)
           N == Len(d)
           M == Len(m)
<1>1. d \in Seq(Char) /\ m \in Seq(Char) /\ "/" \in Char /\ N \in Nat /\ M \in Nat /\ M # 0
      /\ (\A h \in 1..M : m[h] # "/") /\ (d # <<>> => d[1] # "/" /\ N # 0)
  <2>1. d \in Seq(Char) /\ m \in Seq(Char \ {"/"}) /\ m # <<>>
    BY DEF IsRelative, IsTidy, Name, Unslashed
  <2> QED
    BY <2>1, Chars DEF IsRelative, IsAbsolute
<1>2. p = IF d = <<>> THEN m ELSE Append(d, "/") \o m
  <2>1. CASE d = <<>>
    <3>1. <<>> \o m = m
      BY <1>1
    <3> QED
      BY <2>1, <3>1 DEF In
  <2>2. CASE d # <<>>
    <3>1. Last(d) # "/"
      <4> SUFFICES ASSUME d[N] = "/" PROVE FALSE
        BY DEF Last
      <4>1. N \in Slashes(d) /\ N # 1
        BY <1>1, <2>2 DEF Slashes
      <4> QED
        BY <4>1, Zenon DEF IsRelative, IsTidy
    <3>2. Append(d, "/") = d \o <<"/">>
      BY <1>1, AppendIsConcat
    <3> QED
      BY <2>2, <3>1, <3>2 DEF In
  <2> QED
    BY <2>1, <2>2
<1> HIDE DEF p
<1>3. Names(p) = Append(Names(d), m)
  <2>1. CASE d = <<>>
    BY <1>2, <2>1, NamesOfName
  <2>2. CASE d # <<>>
    BY <1>1, <1>2, <2>2, NamesInFolder
  <2> QED
    BY <2>1, <2>2
<1>4. IsRelative(p) /\ p # <<>>
  <2>1. CASE d = <<>>
    <3>1. Slashes(m) = {} /\ m # <<>> /\ Head(m) # "/"
      BY <1>1 DEF Slashes
    <3> QED
      BY <1>1, <1>2, <2>1, <3>1 DEF IsRelative, IsTidy, IsAbsolute
  <2>2. CASE d # <<>>
    <3> DEFINE t == Append(d, "/")
    <3>1. /\ t \in Seq(Char) /\ Len(t) = N + 1 /\ t[N + 1] = "/" /\ \A h \in 1..N : t[h] = d[h]
      BY <1>1, Appended
    <3> HIDE DEF t
    <3>2. p = t \o m
      BY <1>2, <2>2 DEF t
    <3>3. /\ p \in Seq(Char) /\ Len(p) = N + 1 + M /\ DOMAIN p = 1..N + 1 + M
          /\ \A h \in 1..N + 1 : p[h] = t[h]
          /\ \A h \in 1..M : p[N + 1 + h] = m[h]
      <4>0. Len(t) = N + 1
        BY <3>1
      <4>1. t \in Seq(Char) /\ m \in Seq(Char)
        BY <1>1, <3>1
      <4>2. /\ t \o m \in Seq(Char) /\ Len(t \o m) = Len(t) + M /\ DOMAIN (t \o m) = 1..Len(t) + M
            /\ \A h \in 1..Len(t) : (t \o m)[h] = t[h]
            /\ \A h \in 1..M : (t \o m)[Len(t) + h] = m[h]
        BY <4>1, Concatenated
      <4> QED
        BY <3>2, <4>0, <4>2, Zenon
    <3>4. \A h \in 1..N : p[h] = d[h]
      BY <1>1, <3>1, <3>3
    <3>5. p[1] # "/" /\ p # <<>>
      BY <1>1, <2>2, <3>3, <3>4
    <3>6. N \notin Slashes(d) /\ (\A h \in Slashes(d) : h + 1 \notin Slashes(d)) /\ DOMAIN d = 1..N
      BY <1>1, <2>2 DEF IsRelative, IsTidy, Slashes
    <3>7. ASSUME NEW h \in Slashes(p) PROVE h \in 1..N + 1 /\ (h = N + 1 \/ h \in Slashes(d))
      <4>1. h \in 1..N + 1 + M /\ p[h] = "/"
        BY <3>3 DEF Slashes
      <4>2. ~ h > N + 1
        <5> SUFFICES ASSUME h > N + 1 PROVE FALSE
          BY <4>1
        <5>1. h - (N + 1) \in 1..M /\ N + 1 + (h - (N + 1)) = h
          BY <1>1, <4>1
        <5>2. p[h] = m[h - (N + 1)]
          BY <3>3, <5>1
        <5> QED
          BY <1>1, <4>1, <5>1, <5>2
      <4>3. h \in 1..N => h \in Slashes(d)
        BY <3>4, <3>6, <4>1 DEF Slashes
      <4> QED
        BY <1>1, <4>1, <4>2, <4>3
    <3>8. \A h \in Slashes(p) : h + 1 \notin Slashes(p) /\ h # Len(p)
      <4> SUFFICES ASSUME NEW h \in Slashes(p) PROVE h + 1 \notin Slashes(p) /\ h # Len(p)
        OBVIOUS
      <4>1. h \in 1..N + 1 /\ (h = N + 1 \/ h \in Slashes(d))
        BY <3>7
      <4>2. h # Len(p)
        BY <1>1, <3>3, <4>1
      <4>3. h + 1 \notin Slashes(p)
        <5> SUFFICES ASSUME h + 1 \in Slashes(p) PROVE FALSE
          OBVIOUS
        <5>1. h + 1 \in 1..N + 1 /\ (h + 1 = N + 1 \/ h + 1 \in Slashes(d))
          BY <3>7
        <5>2. h \in Slashes(d) /\ (h = N \/ h + 1 \in Slashes(d))
          BY <1>1, <4>1, <5>1
        <5> QED
          BY <3>6, <5>2
      <4> QED
        BY <4>2, <4>3
    <3>9. IsTidy(p)
      BY <3>3, <3>8 DEF IsTidy
    <3>10. ~IsAbsolute(p)
      BY <3>3, <3>5 DEF IsAbsolute
    <3> QED
      BY <3>5, <3>9, <3>10 DEF IsRelative
  <2> QED
    BY <2>1, <2>2
<1>5. Names(ParentPath(p)) = Front(Names(p)) /\ IsRelative(ParentPath(p))
  BY <1>4, RelativeHalved
<1>6. Front(Append(Names(d), m)) = Names(d)
  BY <1>1, NamesType, FrontAndLast
<1>7. ParentPath(p) = d
  BY <1>3, <1>5, <1>6, NamesAreDistinct DEF IsRelative
<1> QED
  BY <1>2, <1>3, <1>4, <1>5, <1>6, <1>7 DEF p

(* The names of a page in a folder and of another in it. *)
LEMMA InSame == ASSUME NEW d, IsRelative(d), NEW e, IsRelative(e), NEW m \in Name, In(d, m) = In(e, m)
                PROVE  d = e
  BY InFolder

(* so many times to the folder around *)
Ups(k) == [j \in 1..k |-> <<"..">>]

(* A name of the program is none of those with a meaning of their own. *)
LEMMA NamesOfLinks ==
    /\ Name \subseteq LinkName /\ <<"..">> \in LinkName
    /\ \A m \in Name : m # <<"..">> /\ m # <<"/">>
<1>1. "/" \in Char /\ ".." \notin Char
  BY ExporterAssumption
<1>2. ASSUME NEW m \in Name PROVE m \in LinkName /\ m # <<"..">> /\ m # <<"/">>
  <2>1. m \in Seq(Char \ {"/"}) /\ m # <<>>
    BY DEF Name, Unslashed
  <2>2. m[1] \in Char \ {"/"}
    BY <2>1
  <2>3. m \in LinkName
    BY <2>1 DEF LinkName
  <2>4. <<"..">>[1] = ".." /\ <<"/">>[1] = "/"
    OBVIOUS
  <2> QED
    BY <1>1, <2>2, <2>3, <2>4
<1>3. <<"..">> \in LinkName
  BY DEF LinkName
<1> QED
  BY <1>2, <1>3

Going == [p \in Seq(LinkName) \X LinkName |-> GoTo(p[1], p[2])]

(* Going up, k times. *)
LEMMA GoingUp ==
    ASSUME NEW b \in Seq(Name), NEW k \in 0..Len(b)
    PROVE  Folded(Going, b, Ups(k)) = SubSeq(b, 1, Len(b) - k)
<1> DEFINE N == Len(b)
           T == {n \in Nat : n <= N => Folded(Going, b, Ups(n)) = SubSeq(b, 1, N - n)}
<1>0. N \in Nat
  OBVIOUS
<1>1. 0 \in T
  <2>1. Ups(0) = <<>>
    BY DEF Ups
  <2>2. SubSeq(b, 1, N - 0) = b
    <3>1. 1 \in 1..N + 1 /\ N \in 1 - 1..N /\ N - 0 = N /\ N - 1 + 1 = N /\ \A j \in 1..N : 1 + j - 1 = j
      BY <1>0
    <3> DEFINE s == SubSeq(b, 1, N)
    <3>2. s \in Seq(Name) /\ Len(s) = N - 1 + 1 /\ \A j \in 1..N - 1 + 1 : s[j] = b[1 + j - 1]
      BY <3>1, Slice
    <3> HIDE DEF s
    <3>3. s = b
      BY <3>1, <3>2, SeqEqual
    <3> QED
      BY <3>1, <3>3 DEF s
  <2> QED
    BY <2>1, <2>2, FoldedNone
<1>2. ASSUME NEW n \in Nat, n \in T PROVE n + 1 \in T
  <2> SUFFICES ASSUME n + 1 <= N PROVE Folded(Going, b, Ups(n + 1)) = SubSeq(b, 1, N - (n + 1))
    OBVIOUS
  <2> DEFINE up == <<"..">>
             s == SubSeq(b, 1, N - n)
  <2>1. Ups(n) \in Seq(LinkName) /\ Len(Ups(n)) = n /\ up \in LinkName
    BY NamesOfLinks DEF Ups
  <2>2. Ups(n + 1) = Append(Ups(n), up)
    <3>1. Ups(n + 1) \in Seq(LinkName) /\ Len(Ups(n + 1)) = n + 1
      BY NamesOfLinks DEF Ups
    <3>2. /\ Append(Ups(n), up) \in Seq(LinkName) /\ Len(Append(Ups(n), up)) = n + 1
          /\ Append(Ups(n), up)[n + 1] = up
          /\ \A j \in 1..n : Append(Ups(n), up)[j] = Ups(n)[j]
      BY <2>1, Appended
    <3>3. \A j \in 1..n : Ups(n)[j] = up
      BY DEF Ups
    <3>4. \A j \in 1..n + 1 : Ups(n + 1)[j] = up
      BY DEF Ups
    <3> DEFINE longer == Append(Ups(n), up)
    <3> HIDE DEF up
    <3>5. \A j \in 1..n + 1 : longer[j] = up
      BY <3>2, <3>3
    <3> HIDE DEF longer
    <3>6. Ups(n + 1) = longer
      BY <3>1, <3>2, <3>4, <3>5, SeqEqual DEF longer
    <3> QED
      BY <3>6 DEF longer
  <2>3. Folded(Going, b, Ups(n)) = s
    BY <1>2
  <2> HIDE DEF up
  <2>4. Folded(Going, b, Append(Ups(n), up)) = Going[<<Folded(Going, b, Ups(n)), up>>]
    BY <2>1, FoldedAppend
  <2>5. 1 \in 1..N + 1 /\ N - n \in 1 - 1..N /\ N - n - 1 + 1 = N - n
    BY <1>0
  <2>6. s \in Seq(Name) /\ Len(s) = N - n /\ \A j \in 1..N - n : s[j] = b[1 + j - 1]
    <3> DEFINE l == N - n
    <3>1. 1 \in 1..Len(b) + 1 /\ l \in 1 - 1..Len(b)
      BY <2>5
    <3> HIDE DEF l
    <3>2. SubSeq(b, 1, l) \in Seq(Name) /\ Len(SubSeq(b, 1, l)) = l - 1 + 1
          /\ \A j \in 1..l - 1 + 1 : SubSeq(b, 1, l)[j] = b[1 + j - 1]
      BY <3>1, Slice
    <3>3. l - 1 + 1 = N - n
      BY <2>5 DEF l
    <3> QED
      BY <3>2, <3>3, Zenon DEF l
  <2>7. s \in Seq(LinkName)
    BY <2>6, NamesOfLinks
  <2> HIDE DEF s
  <2>8. Going[<<s, up>>] = Front(s)
    BY <2>1, <2>7, Zenon DEF Going, GoTo, up
  <2>9. Front(s) = SubSeq(b, 1, N - (n + 1))
    <3> DEFINE a == SubSeq(s, 1, Len(s) - 1)
               c == SubSeq(b, 1, N - (n + 1))
               l == N - (n + 1)
    <3>1. l \in Nat /\ Len(s) - 1 = l /\ 1 \in 1..Len(s) + 1 /\ l \in 1 - 1..Len(s) /\ l - 1 + 1 = l
          /\ l \in 1 - 1..N /\ \A j \in 1..l : 1 + j - 1 = j /\ j \in 1..N - n
      BY <1>0, <2>6
    <3>2. SubSeq(s, 1, l) \in Seq(Name) /\ Len(SubSeq(s, 1, l)) = l - 1 + 1
          /\ \A j \in 1..l - 1 + 1 : SubSeq(s, 1, l)[j] = s[1 + j - 1]
      BY <2>6, <3>1, Slice
    <3>3. SubSeq(b, 1, l) \in Seq(Name) /\ Len(SubSeq(b, 1, l)) = l - 1 + 1
          /\ \A j \in 1..l - 1 + 1 : SubSeq(b, 1, l)[j] = b[1 + j - 1]
      <4>1. 1 \in 1..Len(b) + 1 /\ l \in 1 - 1..Len(b)
        BY <2>5, <3>1
      <4> HIDE DEF l
      <4> QED
        BY <4>1, Slice
    <3> HIDE DEF l
    <3>4. \A j \in 1..l : SubSeq(s, 1, l)[j] = SubSeq(b, 1, l)[j]
      BY <2>6, <3>1, <3>2, <3>3
    <3> DEFINE x == SubSeq(s, 1, l)
               y == SubSeq(b, 1, l)
    <3> HIDE DEF x, y
    <3>5. x = y
      BY <3>1, <3>2, <3>3, <3>4, SeqEqual DEF x, y
    <3> QED
      BY <3>1, <3>5, Zenon DEF Front, x, y, l
  <2> QED
    BY <2>2, <2>3, <2>4, <2>8, <2>9, Zenon
<1> HIDE DEF T
<1>3. Nat \subseteq T
  BY <1>1, <1>2, NatByInduction
<1> QED
  BY <1>3 DEF T

(* Going to names, one after the other, from where the first part of a link led. *)
LEMMA GoingDown ==
    ASSUME NEW first \in Seq(Name), NEW b, NEW ups \in Seq(LinkName), Folded(Going, b, ups) = first,
           NEW r \in Seq(Name)
    PROVE  Folded(Going, b, ups \o r) = first \o r
<1> DEFINE T == {s \in Seq(Name) : Folded(Going, b, ups \o s) = first \o s}
<1>1. <<>> \in T
  <2>1. ups \o <<>> = ups /\ first \o <<>> = first
    OBVIOUS
  <2> QED
    BY <2>1
<1>2. ASSUME NEW s \in Seq(Name), s \in T, NEW m \in Name PROVE Append(s, m) \in T
  <2> DEFINE way == ups \o s
             place == first \o s
  <2>1. s \in Seq(LinkName) /\ m \in LinkName /\ m # <<"..">>
    BY NamesOfLinks
  <2>2. way \in Seq(LinkName) /\ ups \o Append(s, m) = Append(way, m)
    BY <2>1, AppendBehind
  <2>3. place \in Seq(Name) /\ first \o Append(s, m) = Append(place, m)
    BY AppendBehind
  <2>4. Folded(Going, b, way) = place
    BY <1>2
  <2> HIDE DEF way, place
  <2>5. Folded(Going, b, Append(way, m)) = Going[<<Folded(Going, b, way), m>>]
    BY <2>1, <2>2, FoldedAppend
  <2>6. place \in Seq(LinkName)
    BY <2>3, NamesOfLinks
  <2>7. Going[<<place, m>>] = Append(place, m)
    BY <2>1, <2>6, Zenon DEF Going, GoTo
  <2>8. Append(s, m) \in Seq(Name)
    OBVIOUS
  <2> QED
    BY <2>2, <2>3, <2>4, <2>5, <2>7, <2>8, Zenon
<1> HIDE DEF T
<1>3. r \in T
  BY <1>1, <1>2, SeqByInduction
<1> QED
  BY <1>3 DEF T

(* Where a relative link leads. *)
LEMMA LinkLeads ==
    ASSUME NEW page, NEW b \in Seq(Name), Front(page) = b, NEW k \in 0..Len(b),
           NEW r \in Seq(Name), k # 0 \/ r # <<>>
    PROVE  Follow(page, Ups(k) \o r) = SubSeq(b, 1, Len(b) - k) \o r
<1> DEFINE N == Len(b)
           there == SubSeq(b, 1, N - k)
           href == Ups(k) \o r
<1>1. Ups(k) \in Seq(LinkName) /\ Len(Ups(k)) = k /\ r \in Seq(LinkName) /\ Len(r) \in Nat /\ k \in Nat
  BY NamesOfLinks DEF Ups
<1>2. there \in Seq(Name)
  <2>1. 1 \in 1..N + 1 /\ N - k \in 1 - 1..N
    OBVIOUS
  <2> QED
    BY <2>1, Slice
<1>3. Folded(Going, b, Ups(k)) = there
  BY GoingUp
<1> HIDE DEF there
<1>4. Folded(Going, b, href) = there \o r
  BY <1>1, <1>2, <1>3, GoingDown
<1>5. href # <<>> /\ Head(href) # <<"/">>
  <2>1. /\ Len(href) = k + Len(r)
        /\ \A h \in 1..k : href[h] = Ups(k)[h]
        /\ \A h \in 1..Len(r) : href[k + h] = r[h]
        /\ href \in Seq(LinkName)
    <3> DEFINE u == Ups(k)
    <3>1. u \in Seq(LinkName) /\ r \in Seq(LinkName)
      BY <1>1
    <3> HIDE DEF u
    <3>2. /\ u \o r \in Seq(LinkName) /\ Len(u \o r) = Len(u) + Len(r)
          /\ \A h \in 1..Len(u) : (u \o r)[h] = u[h]
          /\ \A h \in 1..Len(r) : (u \o r)[Len(u) + h] = r[h]
      BY <3>1, Concatenated
    <3> QED
      BY <1>1, <3>2 DEF u
  <2> HIDE DEF href
  <2>2. href # <<>> /\ Head(href) = href[1]
    BY <1>1, <2>1
  <2>3. CASE k # 0
    <3>1. href[1] = <<"..">>
      BY <1>1, <2>1, <2>3 DEF Ups
    <3>2. <<"..">>[1] = ".." /\ <<"/">>[1] = "/"
      OBVIOUS
    <3> QED
      BY <2>2, <3>1, <3>2
  <2>4. CASE k = 0
    <3>1. r # <<>> /\ r[1] \in Name
      BY <2>4
    <3>2. href[1] = r[1]
      BY <1>1, <2>1, <2>4, <3>1
    <3> QED
      BY <2>2, <3>1, <3>2, NamesOfLinks
  <2> QED
    BY <2>3, <2>4
<1> HIDE DEF href
<1> QED
  BY <1>4, <1>5, Zenon DEF Follow, Going, there, href

(* The first elements that two sequences have in common, and no more. *)
LEMMA CommonIs ==
    ASSUME NEW E, NEW s \in Seq(E), NEW t \in Seq(E)
    PROVE  LET c == Common(s, t)
           IN  /\ c \in Nat /\ c <= Len(s) /\ c <= Len(t) /\ \A k \in 1..c : s[k] = t[k]
               /\ \A n \in Nat : n <= Len(s) /\ n <= Len(t) /\ (\A k \in 1..n : s[k] = t[k]) => n <= c
<1> DEFINE T == {n \in 0..Len(s) : n <= Len(t) /\ SubSeq(s, 1, n) = SubSeq(t, 1, n)}
           Same(n) == \A k \in 1..n : s[k] = t[k]
<1>1. Len(s) \in Nat /\ Len(t) \in Nat
  OBVIOUS
<1>2. ASSUME NEW n \in Nat, n <= Len(s), n <= Len(t)
      PROVE  SubSeq(s, 1, n) = SubSeq(t, 1, n) <=> Same(n)
  <2> DEFINE a == SubSeq(s, 1, n)
             b == SubSeq(t, 1, n)
  <2>1. 1 \in 1..Len(s) + 1 /\ n \in 1 - 1..Len(s) /\ n - 1 + 1 = n /\ \A k \in 1..n : 1 + k - 1 = k
        /\ 1 \in 1..Len(t) + 1 /\ n \in 1 - 1..Len(t)
    BY <1>1, <1>2
  <2>2. a \in Seq(E) /\ Len(a) = n - 1 + 1 /\ \A k \in 1..n - 1 + 1 : a[k] = s[1 + k - 1]
    BY <2>1, Slice
  <2>3. b \in Seq(E) /\ Len(b) = n - 1 + 1 /\ \A k \in 1..n - 1 + 1 : b[k] = t[1 + k - 1]
    <3>1. 1 \in 1..Len(t) + 1 /\ n \in 1 - 1..Len(t)
      BY <2>1
    <3> QED
      BY <3>1, Slice
  <2> HIDE DEF a, b
  <2>4. \A k \in 1..n : a[k] = s[k] /\ b[k] = t[k]
    BY <2>1, <2>2, <2>3
  <2>5. Same(n) => a = b
    BY <2>1, <2>2, <2>3, <2>4, SeqEqual
  <2>6. a = b => Same(n)
    BY <2>4
  <2> QED
    BY <2>5, <2>6, Zenon DEF a, b
<1>3. 0 \in T
  <2>1. SubSeq(s, 1, 0) = SubSeq(t, 1, 0)
    BY <1>1, <1>2
  <2> QED
    BY <1>1, <2>1
<1>4. T \subseteq Nat /\ T # {} /\ \A j \in T : j <= Len(s)
  BY <1>3
<1>5. \E k \in T : \A j \in T : j <= k
  <2> HIDE DEF T
  <2> QED
    BY <1>1, <1>4, Greatest, Zenon
<1>6. Max(T) \in T /\ \A j \in T : Max(T) >= j
  <2> HIDE DEF T
  <2>1. \E k \in T : \A j \in T : k >= j
    BY <1>4, <1>5
  <2> QED
    BY <2>1 DEF Max
<1> DEFINE c == Max(T)
<1>7. Common(s, t) = c
  BY DEF Common
<1>12. c \in T /\ \A j \in T : c >= j
  BY <1>6, Zenon
<1> HIDE DEF c
<1>8. c \in Nat /\ c <= Len(s) /\ c <= Len(t) /\ SubSeq(s, 1, c) = SubSeq(t, 1, c)
  BY <1>1, <1>12
<1>9. \A n \in T : n <= c
  BY <1>4, <1>12, <1>8
<1>10. Same(c)
  BY <1>2, <1>8
<1>11. ASSUME NEW n \in Nat, n <= Len(s), n <= Len(t), Same(n) PROVE n <= c
  <2>1. SubSeq(s, 1, n) = SubSeq(t, 1, n)
    BY <1>2, <1>11
  <2>2. n \in T
    BY <1>1, <1>11, <2>1
  <2> QED
    BY <1>9, <2>2
<1> QED
  BY <1>7, <1>8, <1>10, <1>11

(* Up to the folder that is around both, and down from there. *)
LEMMA WayLeads ==
    ASSUME NEW page, NEW b \in Seq(Name), Front(page) = b, NEW t \in Seq(Name), t # b,
           NEW n \in Nat, n <= Len(b), n <= Len(t), \A k \in 1..n : t[k] = b[k]
    PROVE  Follow(page, Ups(Len(b) - n) \o SubSeq(t, n + 1, Len(t))) = t
<1> DEFINE B == Len(b)
           N == Len(t)
           up == B - n
           r == SubSeq(t, n + 1, N)
           h == SubSeq(b, 1, n)
<1>1. B \in Nat /\ N \in Nat /\ up \in 0..B /\ B - up = n
  OBVIOUS
<1>2. r \in Seq(Name) /\ Len(r) = N - n
  <2>1. n + 1 \in 1..N + 1 /\ N \in (n + 1) - 1..N /\ N - (n + 1) + 1 = N - n
    BY <1>1
  <2> DEFINE m == n + 1
  <2> HIDE DEF m
  <2>2. m \in 1..N + 1 /\ N \in m - 1..N
    BY <2>1 DEF m
  <2>3. SubSeq(t, m, N) \in Seq(Name) /\ Len(SubSeq(t, m, N)) = N - m + 1
    BY <2>2, Slice
  <2> QED
    BY <2>1, <2>3, Zenon DEF m
<1>3. up # 0 \/ r # <<>>
  <2> SUFFICES ASSUME up = 0, r = <<>> PROVE FALSE
    OBVIOUS
  <2>1. Len(r) = 0
    BY Zenon
  <2>2. N = n /\ B = n
    BY <1>1, <1>2, <2>1
  <2>3. t = b
    BY <2>2, SeqEqual
  <2> QED
    BY <2>3
<1>4. Follow(page, Ups(up) \o r) = SubSeq(b, 1, B - up) \o r
  <2> HIDE DEF up, r
  <2>1. up \in 0..Len(b) /\ (up # 0 \/ r # <<>>) /\ r \in Seq(Name)
    BY <1>1, <1>2, <1>3
  <2>2. Follow(page, Ups(up) \o r) = SubSeq(b, 1, Len(b) - up) \o r
    BY <2>1, LinkLeads, Zenon
  <2> QED
    BY <2>2
<1>5. h = SubSeq(t, 1, n)
  <2> DEFINE a == SubSeq(t, 1, n)
  <2>1. 1 \in 1..B + 1 /\ n \in 1 - 1..B /\ n - 1 + 1 = n /\ 1 \in 1..N + 1 /\ n \in 1 - 1..N
        /\ \A k \in 1..n : 1 + k - 1 = k
    BY <1>1
  <2>2. h \in Seq(Name) /\ Len(h) = n - 1 + 1 /\ \A k \in 1..n - 1 + 1 : h[k] = b[1 + k - 1]
    BY <2>1, Slice
  <2>3. a \in Seq(Name) /\ Len(a) = n - 1 + 1 /\ \A k \in 1..n - 1 + 1 : a[k] = t[1 + k - 1]
    BY <2>1, Slice
  <2> HIDE DEF a, h
  <2>4. \A k \in 1..n : a[k] = h[k]
    BY <2>1, <2>2, <2>3
  <2>5. a = h
    BY <2>1, <2>2, <2>3, <2>4, SeqEqual
  <2> QED
    BY <2>5 DEF a
<1>6. t = SubSeq(t, 1, n) \o r
  <2> DEFINE m == n + 1
             one == 1
  <2>1. one \in 1..N + 1 /\ N \in one - 1..N /\ m \in one..N + 1 /\ m - 1 = n
    BY <1>1
  <2> HIDE DEF m, one
  <2>2. SubSeq(t, one, N) = SubSeq(t, one, m - 1) \o SubSeq(t, m, N)
    BY <2>1, SliceCut, Zenon
  <2>3. SubSeq(t, 1, N) = t
    <3>1. 1 \in 1..N + 1 /\ N \in 1 - 1..N /\ N - 1 + 1 = N /\ \A j \in 1..N : 1 + j - 1 = j
      BY <1>1
    <3> DEFINE s == SubSeq(t, 1, N)
    <3>2. s \in Seq(Name) /\ Len(s) = N - 1 + 1 /\ \A j \in 1..N - 1 + 1 : s[j] = t[1 + j - 1]
      BY <3>1, Slice
    <3> HIDE DEF s
    <3>3. s = t
      BY <3>1, <3>2, SeqEqual
    <3> QED
      BY <3>3 DEF s
  <2> QED
    <3> HIDE DEF r
    <3>1. SubSeq(t, one, N) = t /\ SubSeq(t, one, m - 1) = SubSeq(t, 1, n) /\ SubSeq(t, m, N) = r
      BY <2>1, <2>3 DEF m, one, r
    <3> QED
      BY <2>2, <3>1, Zenon
<1>7. SubSeq(b, 1, B - up) = h
  BY <1>1
<1> HIDE DEF up, r, h
<1> QED
  BY <1>4, <1>5, <1>6, <1>7, Zenon DEF up, r

(* Which path is taken as absolute: that of the working directory, or none. *)
LEMMA TopIs ==
    ASSUME NEW names \in Seq(LinkName)
    PROVE  Common(names, << <<"/">> >>) = 1 <=> names # <<>> /\ names[1] = <<"/">>
<1> DEFINE top == << <<"/">> >>
           c == Common(names, top)
<1>1. top \in Seq(LinkName) /\ Len(top) = 1 /\ top[1] = <<"/">>
  <2>1. <<"/">> \in LinkName
    BY Chars DEF LinkName
  <2> QED
    BY <2>1
<1> HIDE DEF top
<1>2. /\ c \in Nat /\ c <= Len(names) /\ c <= Len(top) /\ \A k \in 1..c : names[k] = top[k]
      /\ \A n \in Nat : n <= Len(names) /\ n <= Len(top) /\ (\A k \in 1..n : names[k] = top[k]) => n <= c
  BY <1>1, CommonIs, Zenon
<1> HIDE DEF c
<1>3. ASSUME c = 1 PROVE names # <<>> /\ names[1] = <<"/">>
  BY <1>1, <1>2, <1>3
<1>4. ASSUME names # <<>>, names[1] = <<"/">> PROVE c = 1
  <2>1. Len(names) \in Nat /\ Len(names) # 0
    BY <1>4
  <2>2. 1 \in Nat /\ 1 <= Len(names) /\ 1 <= Len(top) /\ \A k \in 1..1 : names[k] = top[k]
    BY <1>1, <1>4, <2>1
  <2>3. 1 <= c
    BY <1>2, <2>2
  <2> QED
    BY <1>1, <1>2, <2>3
<1> QED
  BY <1>3, <1>4 DEF c, top

(* A path in the working directory, name by name. *)
LEMMA InCwd ==
    ASSUME NEW t \in Seq(Name)
    PROVE  /\ Cwd \o t \in Seq(LinkName) /\ Len(Cwd \o t) = 2 + Len(t) /\ Cwd \o t # <<>>
           /\ (Cwd \o t)[1] = <<"/">> /\ (Cwd \o t)[2] = <<"cwd">>
           /\ \A k \in 1..Len(t) : (Cwd \o t)[2 + k] = t[k]
<1> DEFINE cwd == Cwd
<1>1. cwd \in Seq(LinkName) /\ Len(cwd) = 2 /\ cwd[1] = <<"/">> /\ cwd[2] = <<"cwd">>
  <2>1. <<"/">> \in LinkName /\ <<"cwd">> \in LinkName
    BY Chars DEF LinkName
  <2> QED
    BY <2>1 DEF Cwd
<1>2. t \in Seq(LinkName)
  BY NamesOfLinks
<1> HIDE DEF cwd
<1>3. /\ cwd \o t \in Seq(LinkName) /\ Len(cwd \o t) = Len(cwd) + Len(t)
      /\ \A k \in 1..Len(cwd) : (cwd \o t)[k] = cwd[k]
      /\ \A k \in 1..Len(t) : (cwd \o t)[Len(cwd) + k] = t[k]
  <2>1. cwd \in Seq(LinkName) /\ t \in Seq(LinkName)
    BY <1>1, <1>2
  <2> QED
    BY <2>1, Concatenated
<1>4. cwd \o t # <<>>
  BY <1>1, <1>3
<1> QED
  BY <1>1, <1>3, <1>4 DEF cwd

(* The link between two pages leads there, unless the first name of only one of the paths is
   found in the working directory; the paths begin with different names then. *)
LEMMA RelativeLeads ==
    ASSUME NEW target, IsRelative(target), target # <<>>, NEW base, IsRelative(base), target # base,
           NEW existing, NEW page, Front(page) = Names(base)
    PROVE  \/ Follow(page, Relative(target, base, existing)) = Names(target)
           \/ /\ Relative(target, base, existing) = <<>>
              /\ Exists(Names(base), existing) # Exists(Names(target), existing)
              /\ Names(base) = <<>> \/ Head(Names(base)) # Head(Names(target))
<1> DEFINE t == Names(target)
           b == Names(base)
           wt == WeaklyCanonical(t, existing)
           wb == WeaklyCanonical(b, existing)
<1>1. t \in Seq(Name) /\ b \in Seq(Name) /\ t # b
  BY NamesAreNames, NamesAreDistinct DEF IsRelative
<1>2. Relative(target, base, existing) = LexicallyRelative(wt, wb)
  BY DEF Relative
<1>3. ASSUME NEW names
      PROVE  \/ WeaklyCanonical(names, existing) = names
             \/ WeaklyCanonical(names, existing) = Cwd \o names
  BY DEF WeaklyCanonical
<1>11. (wt = t \/ wt = Cwd \o t) /\ (wb = b \/ wb = Cwd \o b)
  BY <1>3, Zenon
<1>12. /\ wt = IF Exists(t, existing) THEN Cwd \o t ELSE t
       /\ wb = IF Exists(b, existing) THEN Cwd \o b ELSE b
  BY DEF WeaklyCanonical
<1>13. t # <<>>
  BY NamesAreNames DEF t
<1> HIDE DEF t, b, wt, wb
<1>4. t \in Seq(LinkName) /\ b \in Seq(LinkName) /\ Len(t) \in Nat /\ Len(b) \in Nat
  BY <1>1, NamesOfLinks
<1>5. ASSUME NEW names \in Seq(Name) PROVE names # <<>> => names[1] # <<"/">>
  <2>1. names # <<>> => names[1] \in Name
    OBVIOUS
  <2> QED
    BY <2>1, NamesOfLinks
<1>6. Common(t, << <<"/">> >>) # 1 /\ Common(b, << <<"/">> >>) # 1
  BY <1>1, <1>4, <1>5, TopIs
<1>7. Common(Cwd \o t, << <<"/">> >>) = 1 /\ Common(Cwd \o b, << <<"/">> >>) = 1
  BY <1>1, InCwd, TopIs, Zenon
<1>8. CASE wt = t /\ wb = b
  <2> DEFINE n == Common(t, b)
  <2>1. n \in Nat /\ n <= Len(t) /\ n <= Len(b) /\ \A k \in 1..n : t[k] = b[k]
    BY <1>1, CommonIs
  <2>2. LexicallyRelative(t, b) = Ups(Len(b) - n) \o SubSeq(t, n + 1, Len(t))
    BY <1>1, <1>6, Zenon DEF LexicallyRelative, Ups
  <2> HIDE DEF n
  <2>3. Follow(page, Ups(Len(b) - n) \o SubSeq(t, n + 1, Len(t))) = t
    BY <1>1, <2>1, WayLeads, Zenon DEF b
  <2> QED
    BY <1>2, <1>8, <2>2, <2>3 DEF t
<1>9. CASE wt = Cwd \o t /\ wb = Cwd \o b
  <2> DEFINE ct == Cwd \o t
             cb == Cwd \o b
             c == Common(ct, cb)
             n == c - 2
  <2>1. /\ ct \in Seq(LinkName) /\ Len(ct) = 2 + Len(t) /\ ct[1] = <<"/">> /\ ct[2] = <<"cwd">>
        /\ \A k \in 1..Len(t) : ct[2 + k] = t[k]
    BY <1>1, InCwd, Zenon
  <2>2. /\ cb \in Seq(LinkName) /\ Len(cb) = 2 + Len(b) /\ cb[1] = <<"/">> /\ cb[2] = <<"cwd">>
        /\ \A k \in 1..Len(b) : cb[2 + k] = b[k]
    BY <1>1, InCwd
  <2> HIDE DEF ct, cb
  <2>3. c \in Nat /\ c <= Len(ct) /\ c <= Len(cb) /\ (\A k \in 1..c : ct[k] = cb[k])
        /\ \A m \in Nat : m <= Len(ct) /\ m <= Len(cb) /\ (\A k \in 1..m : ct[k] = cb[k]) => m <= c
    BY <2>1, <2>2, CommonIs, Zenon
  <2>4. ct # cb
    <3> SUFFICES ASSUME ct = cb PROVE FALSE
      OBVIOUS
    <3>1. Len(t) = Len(b)
      BY <1>4, <2>1, <2>2
    <3>2. \A k \in 1..Len(t) : t[k] = b[k]
      BY <2>1, <2>2, <3>1
    <3> QED
      BY <1>1, <3>1, <3>2, SeqEqual
  <2>5. LexicallyRelative(ct, cb) = Ups(Len(cb) - c) \o SubSeq(ct, c + 1, Len(ct))
    BY <1>7, <2>4, Zenon DEF LexicallyRelative, Ups, ct, cb
  <2> HIDE DEF c
  <2>6. 2 <= c
    <3>1. \A k \in 1..2 : ct[k] = cb[k]
      <4>1. ct[1] = cb[1] /\ ct[2] = cb[2]
        BY <2>1, <2>2
      <4> QED
        BY <4>1
    <3> DEFINE two == 2
    <3>2. two \in Nat /\ two <= Len(ct) /\ two <= Len(cb) /\ \A k \in 1..two : ct[k] = cb[k]
      BY <1>4, <2>1, <2>2, <3>1
    <3> HIDE DEF two
    <3>3. two <= c
      BY <2>3, <3>2
    <3> QED
      BY <3>3 DEF two
  <2>7. n \in Nat /\ n <= Len(t) /\ n <= Len(b) /\ Len(cb) - c = Len(b) - n
    BY <1>4, <2>1, <2>2, <2>3, <2>6
  <2>8. \A k \in 1..n : t[k] = b[k]
    <3> SUFFICES ASSUME NEW k \in 1..n PROVE t[k] = b[k]
      OBVIOUS
    <3>1. 2 + k \in 1..c /\ k \in 1..Len(t) /\ k \in 1..Len(b)
      BY <1>4, <2>3, <2>6, <2>7
    <3> QED
      BY <2>1, <2>2, <2>3, <3>1
  <2>9. SubSeq(ct, c + 1, Len(ct)) = SubSeq(t, n + 1, Len(t))
    <3> DEFINE i0 == c + 1
               j0 == n + 1
               size == Len(t) - n
               x == SubSeq(ct, i0, Len(ct))
               y == SubSeq(t, j0, Len(t))
    <3>1. i0 \in 1..Len(ct) + 1 /\ Len(ct) \in i0 - 1..Len(ct) /\ Len(ct) - i0 + 1 = size
      BY <1>4, <2>1, <2>3, <2>6
    <3>2. j0 \in 1..Len(t) + 1 /\ Len(t) \in j0 - 1..Len(t) /\ Len(t) - j0 + 1 = size
      BY <1>4, <2>7
    <3>3. \A k \in 1..size : i0 + k - 1 = 2 + (j0 + k - 1) /\ j0 + k - 1 \in 1..Len(t)
      BY <1>4, <2>3, <2>6, <2>7
    <3> HIDE DEF i0, j0, n
    <3>4. x \in Seq(LinkName) /\ Len(x) = Len(ct) - i0 + 1
          /\ \A k \in 1..Len(ct) - i0 + 1 : x[k] = ct[i0 + k - 1]
      BY <2>1, <3>1, Slice
    <3>5. y \in Seq(LinkName) /\ Len(y) = Len(t) - j0 + 1
          /\ \A k \in 1..Len(t) - j0 + 1 : y[k] = t[j0 + k - 1]
      BY <1>4, <3>2, Slice
    <3> HIDE DEF x, y, size
    <3>6. \A k \in 1..size : x[k] = y[k]
      BY <2>1, <3>1, <3>2, <3>3, <3>4, <3>5, Zenon
    <3>7. x = y
      BY <3>1, <3>2, <3>4, <3>5, <3>6, SeqEqual, Zenon
    <3> QED
      BY <3>7, Zenon DEF x, y, i0, j0
  <2> HIDE DEF n
  <2>10. Follow(page, Ups(Len(b) - n) \o SubSeq(t, n + 1, Len(t))) = t
    BY <1>1, <2>7, <2>8, WayLeads, Zenon DEF b
  <2> QED
    BY <1>2, <1>9, <2>5, <2>7, <2>9, <2>10, Zenon DEF t, ct, cb
<1>10. CASE (wt = Cwd \o t /\ wb = b) \/ (wt = t /\ wb = Cwd \o b)
  <2>1. LexicallyRelative(wt, wb) = <<>>
    BY <1>6, <1>7, <1>10, Zenon DEF LexicallyRelative
  <2>2. t # Cwd \o t /\ b # Cwd \o b
    BY <1>6, <1>7
  <2>3. Exists(b, existing) # Exists(t, existing)
    BY <1>10, <1>12, <2>2
  <2>4. b = <<>> \/ Head(b) # Head(t)
    BY <1>13, <2>3 DEF Exists
  <2> QED
    BY <1>2, <2>1, <2>3, <2>4 DEF t, b
<1> QED
  BY <1>11, <1>8, <1>9, <1>10, Zenon

(* What is before the name of a page's file is known from the path of the page. *)
LEMMA BeforeHtml ==
    ASSUME NEW x \in Seq(Char)
    PROVE  /\ x \o Html \in Seq(Char) /\ Last(x \o Html) = ".html" /\ Len(x \o Html) = Len(x) + 1
           /\ \A k \in 1..Len(x) : (x \o Html)[k] = x[k]
<1> DEFINE c == ".html"
<1>1. c \in Char
  BY Chars
<1> HIDE DEF c
<1>2. Append(x, c) = x \o <<c>> /\ Append(x, c) \in Seq(Char) /\ Last(Append(x, c)) = c
  BY <1>1, AppendIsConcat, FrontAndLast
<1>3. Len(Append(x, c)) = Len(x) + 1 /\ \A k \in 1..Len(x) : Append(x, c)[k] = x[k]
  BY <1>1, Appended
<1> QED
  BY <1>2, <1>3, Zenon DEF c, Html

LEMMA HtmlCancels ==
    ASSUME NEW x \in Seq(Char), NEW y \in Seq(Char), x \o Html = y \o Html
    PROVE  x = y
<1>1. Len(x) \in Nat /\ Len(y) \in Nat /\ Len(x) + 1 = Len(y) + 1
  BY BeforeHtml
<1>2. \A k \in 1..Len(x) : x[k] = y[k]
  BY <1>1, BeforeHtml
<1> QED
  BY <1>1, <1>2, SeqEqual

(* The root and the character behind it are in front of every file. *)
LEMMA RootIsShared ==
    ASSUME NEW S, S \subseteq Seq(Char), S # {}, RootOf(S) # <<>>
    PROVE  /\ Len(RootOf(S)) \in Nat
           /\ \A f \in S : IsPrefix(RootOf(S), f) /\ Len(RootOf(S)) + 1 <= Len(f)
           /\ \A f, g \in S : \A k \in 1..Len(RootOf(S)) + 1 : f[k] = g[k]
<1> DEFINE root == RootOf(S)
           c == LongestCommonPrefix(S)
           shared == Front(c)
           L == LastSlash(shared)
           n == Len(c) - 1
<1>1. c \in Seq(Char) /\ \A f \in S : IsPrefix(c, f)
  BY PrefixesExist
<1>2. c # <<>> /\ root = ParentPath(shared) /\ root # <<>>
  BY DEF RootOf
<1> HIDE DEF c
<1> HIDE DEF root
<1>3. n \in Nat /\ shared \in Seq(Char) /\ Len(shared) = n /\ \A k \in 1..n : shared[k] = c[k]
  <2>1. Len(c) \in Nat /\ Len(c) # 0
    BY <1>1, <1>2
  <2>2. 1 \in 1..Len(c) + 1 /\ n \in 1 - 1..Len(c) /\ n - 1 + 1 = n /\ n \in Nat
    BY <2>1
  <2>3. shared = SubSeq(c, 1, n)
    BY DEF Front
  <2>4. shared \in Seq(Char) /\ Len(shared) = n - 1 + 1 /\ \A k \in 1..n - 1 + 1 : shared[k] = c[1 + k - 1]
    BY <1>1, <2>2, <2>3, Slice
  <2> QED
    BY <2>2, <2>4
<1> HIDE DEF shared
<1>4. L \in 0..n /\ (L # 0 => shared[L] = "/")
  BY <1>3, LastSlashIs
<1>5. ParentPath(shared) = IF L = 1 THEN <<"/">> ELSE SubSeq(shared, 1, L - 1)
  BY DEF ParentPath, LastSlash
<1> HIDE DEF L
<1>6. L # 0
  <2>1. SubSeq(shared, 1, 0 - 1) = <<>>
    BY <1>3
  <2> QED
    BY <1>2, <1>5, <2>1
<1>7. /\ root \in Seq(Char) /\ Len(root) \in Nat /\ Len(root) + 1 <= Len(c)
      /\ \A k \in 1..Len(root) : root[k] = c[k]
  <2>1. CASE L = 1
    <3> DEFINE top == <<"/">>
    <3>1. top \in Seq(Char) /\ Len(top) = 1 /\ top[1] = "/"
      BY Chars
    <3>2. root = top
      <4> HIDE DEF top
      <4>1. ParentPath(shared) = top
        BY <1>5, <2>1 DEF top
      <4> QED
        BY <1>2, <4>1
    <3> HIDE DEF top
    <3>3. c[1] = "/" /\ 1 + 1 <= Len(c)
      BY <1>1, <1>3, <1>4, <1>6, <2>1
    <3>4. Len(root) = 1 /\ root \in Seq(Char) /\ root[1] = c[1]
      BY <3>1, <3>2, <3>3
    <3>5. \A k \in 1..1 : root[k] = c[k]
      BY <3>4
    <3> QED
      BY <3>3, <3>4, <3>5
  <2>2. CASE L # 1
    <3> DEFINE l == L - 1
    <3>1. 1 \in 1..Len(shared) + 1 /\ l \in 1 - 1..Len(shared) /\ l - 1 + 1 = l
          /\ \A k \in 1..l : 1 + k - 1 = k /\ k \in 1..n
      BY <1>3, <1>4, <1>6, <2>2
    <3>2. l + 1 <= Len(c)
      BY <1>1, <1>3, <1>4, <1>6
    <3>3. root = SubSeq(shared, 1, l)
      BY <1>2, <1>5, <2>2, Zenon
    <3> HIDE DEF l
    <3>4. root \in Seq(Char) /\ Len(root) = l - 1 + 1 /\ \A k \in 1..l - 1 + 1 : root[k] = shared[1 + k - 1]
      BY <1>3, <3>1, <3>3, Slice
    <3>5. \A k \in 1..l : root[k] = c[k]
      BY <1>3, <3>1, <3>4
    <3> QED
      BY <1>3, <3>1, <3>2, <3>4, <3>5
  <2> QED
    BY <2>1, <2>2
<1>8. ASSUME NEW f \in S
      PROVE  /\ f \in Seq(Char) /\ Len(f) \in Nat /\ Len(c) <= Len(f) /\ \A k \in 1..Len(c) : c[k] = f[k]
  <2>1. IsPrefix(c, f) /\ f \in Seq(Char)
    BY <1>1
  <2> QED
    BY <1>1, <2>1, PrefixIs
<1>9. Len(c) \in Nat
  BY <1>1
<1>10. ASSUME NEW f \in S PROVE IsPrefix(root, f) /\ Len(root) + 1 <= Len(f)
  <2>1. Len(root) + 1 <= Len(f) /\ Len(root) <= Len(f) /\ f \in Seq(Char)
    BY <1>7, <1>8, <1>9
  <2>2. \A k \in 1..Len(root) : root[k] = f[k]
    BY <1>7, <1>8, <1>9
  <2> QED
    BY <1>7, <2>1, <2>2, PrefixIs
<1>11. ASSUME NEW f \in S, NEW g \in S, NEW k \in 1..Len(root) + 1 PROVE f[k] = g[k]
  <2>1. k \in 1..Len(c)
    BY <1>7, <1>9
  <2> QED
    BY <1>8, <2>1
<1> QED
  BY <1>7, <1>10, <1>11 DEF root

(* No two files of a project have the same page. *)
LEMMA PagesDiffer ==
    ASSUME NEW S, S # {}, \A f \in S : IsTidy(f) /\ f \notin {<<>>, <<"/">>},
           \A f, g \in S : RelativePath(f) = RelativePath(g) => f = g,
           NEW root \in {<<>>, RootOf(S)}, NEW f \in S, NEW g \in S, PageFrom(root, f) = PageFrom(root, g)
    PROVE  f = g
<1>1. S \subseteq Seq(Char)
  BY DEF IsTidy
<1>2. CASE root = <<>>
  <2>1. ASSUME NEW h \in S PROVE PageFrom(root, h) = RelativePath(h) \o Html /\ RelativePath(h) \in Seq(Char)
    <3>1. h \in Seq(Char) /\ h # <<>>
      BY <1>1
    <3>2. Tail(h) \in Seq(Char)
      BY <3>1
    <3> QED
      BY <1>2, <3>1, <3>2 DEF PageFrom, RelativePath
  <2>2. RelativePath(f) = RelativePath(g)
    BY <2>1, HtmlCancels, Zenon
  <2> QED
    BY <2>2
<1>3. CASE root # <<>>
  <2>1. root = RootOf(S)
    BY <1>3
  <2>2. /\ Len(root) \in Nat
        /\ \A h \in S : IsPrefix(root, h) /\ Len(root) + 1 <= Len(h)
        /\ \A h, j \in S : \A k \in 1..Len(root) + 1 : h[k] = j[k]
    BY <1>1, <1>3, <2>1, RootIsShared, Zenon
  <2> DEFINE R == Len(root) + 2
             Rest(h) == SubSeq(h, R, Len(h))
  <2>3. ASSUME NEW h \in S
        PROVE  /\ PageFrom(root, h) = Rest(h) \o Html /\ Rest(h) \in Seq(Char) /\ h \in Seq(Char)
               /\ Len(h) \in Nat /\ Len(h) = Len(Rest(h)) + R - 1
               /\ \A k \in R..Len(h) : h[k] = Rest(h)[k - R + 1] /\ k - R + 1 \in 1..Len(Rest(h))
    <3>1. h \in Seq(Char) /\ Len(h) \in Nat /\ R \in 1..Len(h) + 1 /\ Len(h) \in R - 1..Len(h) /\ R \in Nat
      BY <1>1, <2>2
    <3>2. PageFrom(root, h) = Rest(h) \o Html
      BY <1>3, <2>2, Zenon DEF PageFrom
    <3> HIDE DEF R
    <3>3. Rest(h) \in Seq(Char) /\ Len(Rest(h)) = Len(h) - R + 1
          /\ \A k \in 1..Len(h) - R + 1 : Rest(h)[k] = h[R + k - 1]
      BY <3>1, Slice
    <3> HIDE DEF Rest
    <3>4. ASSUME NEW k \in R..Len(h) PROVE h[k] = Rest(h)[k - R + 1] /\ k - R + 1 \in 1..Len(Rest(h))
      <4>1. k - R + 1 \in 1..Len(h) - R + 1 /\ R + (k - R + 1) - 1 = k
        BY <3>1
      <4> QED
        BY <3>3, <4>1
    <3>5. Len(h) = Len(Rest(h)) + R - 1
      BY <3>1, <3>3
    <3> QED
      BY <3>1, <3>2, <3>3, <3>4, <3>5
  <2>4. R \in Nat /\ R - 1 = Len(root) + 1
    BY <2>2
  <2> HIDE DEF R, Rest
  <2>5. Rest(f) = Rest(g)
    BY <2>3, HtmlCancels, Zenon
  <2>6. Len(f) = Len(g)
    BY <2>3, <2>5
  <2>7. ASSUME NEW k \in 1..Len(f) PROVE f[k] = g[k]
    <3>1. CASE k \in R..Len(f)
      BY <2>3, <2>5, <2>6, <3>1
    <3>2. CASE k \notin R..Len(f)
      <4>1. k \in 1..Len(root) + 1
        BY <2>3, <2>4, <3>2
      <4> QED
        BY <2>2, <4>1
    <3> QED
      BY <3>1, <3>2
  <2> QED
    BY <2>3, <2>6, <2>7, SeqEqual, Zenon
<1> QED
  BY <1>2, <1>3

(* A folder, or none, that is not named like a page. *)
IsBase(q) == IsRelative(q) /\ (q = <<>> \/ Last(q) # ".html")

(* The page of a file, from the root of the project on. *)
LEMMA FilePages ==
    ASSUME ExportInv, NEW f \in File
    PROVE  /\ ~RootIsSlash => /\ IsRelative(PageOf(f)) /\ PageOf(f) # <<>>
                              /\ IsBase(ParentPath(PageOf(f)))
           /\ Last(PageOf(f)) = ".html"
           /\ \A g \in File : PageOf(f) = PageOf(g) => f = g
<1> DEFINE S == File
<1>1. S # {} /\ f \in S /\ rootpath \in {<<>>, RootOf(S)}
  BY DEF ExportInv, PathsInv
<1>2. \A g \in S : IsTidy(g) /\ g \notin {<<>>, <<"/">>}
  BY ExporterAssumption DEF ExportInv, File
<1>3. \A g, h \in S : RelativePath(g) = RelativePath(h) => g = h
  BY ExporterAssumption DEF ExportInv, File
<1>4. ParentPath(PageOf(f)) \in Folder \cup {<<>>}
  BY ExporterAssumption DEF ExportInv, PathsInv, File, PageOf
<1>5. \A d \in Folder : IsTidy(d) /\ Last(d) # ".html"
  BY ExporterAssumption
<1> HIDE DEF S
<1>6. /\ IsTidy(PageOf(f)) /\ PageOf(f) \notin {<<>>, <<"/">>}
      /\ rootpath # <<"/">> => ~IsAbsolute(PageOf(f))
  BY <1>1, <1>2, PagesAreTidy, Zenon DEF PageOf
<1>7. ASSUME NEW g \in S, PageOf(f) = PageOf(g) PROVE f = g
  BY <1>1, <1>2, <1>3, <1>7, PagesDiffer DEF PageOf
<1>8. Last(PageOf(f)) = ".html"
  <2> DEFINE x == IF rootpath # <<>> /\ IsPrefix(rootpath, f)
                  THEN SubSeq(f, Len(rootpath) + 2, Len(f)) ELSE RelativePath(f)
  <2>1. PageOf(f) = x \o Html
    BY DEF PageOf, PageFrom
  <2>2. f \in Seq(Char) /\ f # <<>> /\ S \subseteq Seq(Char) /\ Len(f) \in Nat
    BY <1>1, <1>2 DEF IsTidy
  <2>3. RelativePath(f) \in Seq(Char)
    <3>1. Tail(f) \in Seq(Char)
      BY <2>2
    <3> QED
      BY <2>2, <3>1 DEF RelativePath
  <2>4. ASSUME rootpath # <<>> PROVE SubSeq(f, Len(rootpath) + 2, Len(f)) \in Seq(Char)
    <3>1. rootpath = RootOf(S)
      BY <1>1, <2>4
    <3>2. Len(rootpath) \in Nat /\ Len(rootpath) + 1 <= Len(f)
      BY <1>1, <2>2, <2>4, <3>1, RootIsShared
    <3> DEFINE k == Len(rootpath) + 2
    <3>3. k \in 1..Len(f) + 1 /\ Len(f) \in k - 1..Len(f)
      BY <2>2, <3>2
    <3> HIDE DEF k
    <3>4. SubSeq(f, k, Len(f)) \in Seq(Char)
      BY <2>2, <3>3, Slice
    <3> QED
      BY <3>4 DEF k
  <2>5. x \in Seq(Char)
    BY <2>3, <2>4
  <2> HIDE DEF x
  <2> QED
    BY <2>1, <2>5, BeforeHtml
<1>9. ASSUME ~RootIsSlash PROVE IsRelative(PageOf(f)) /\ PageOf(f) # <<>> /\ IsBase(ParentPath(PageOf(f)))
  <2>1. IsRelative(PageOf(f)) /\ PageOf(f) # <<>>
    BY <1>6, <1>9 DEF RootIsSlash, IsRelative
  <2>2. IsRelative(ParentPath(PageOf(f)))
    BY <2>1, RelativeHalved
  <2> QED
    BY <1>4, <1>5, <2>1, <2>2 DEF IsBase
<1> QED
  BY <1>7, <1>8, <1>9 DEF S

(* Links to the pages of files lead there, or are empty because the working directory tells
   the folder of the page and the other page apart. *)
LEMMA FileLinkLeads ==
    ASSUME ExportInv, ~RootIsSlash, NEW f \in File,
           NEW page, IsRelative(page), page # <<>>, IsBase(ParentPath(page))
    PROVE  \/ Follow(Names(page), LinkTo(page, PageOf(f))) = Names(PageOf(f))
           \/ LinkTo(page, PageOf(f)) = <<>> /\ TakenApart(page, PageOf(f))
<1> DEFINE target == PageOf(f)
           base == ParentPath(page)
<1>1. IsRelative(target) /\ target # <<>> /\ Last(target) = ".html"
  BY FilePages
<1>2. IsRelative(base) /\ Front(Names(page)) = Names(base) /\ target # base
  BY <1>1, RelativeHalved DEF IsBase
<1> HIDE DEF target, base
<1>3. \/ Follow(Names(page), Relative(target, base, Existing)) = Names(target)
      \/ /\ Relative(target, base, Existing) = <<>>
         /\ Exists(Names(base), Existing) # Exists(Names(target), Existing)
         /\ Names(base) = <<>> \/ Head(Names(base)) # Head(Names(target))
  BY <1>1, <1>2, RelativeLeads
<1>4. ASSUME Exists(Names(base), Existing) # Exists(Names(target), Existing)
      PROVE  /\ Exists(Names(base), Existing) \/ Exists(Names(target), Existing)
             /\ ~(Exists(Names(base), present) /\ Exists(Names(target), present))
  BY <1>4 DEF Exists, Existing
<1> QED
  BY <1>3, <1>4 DEF LinkTo, TakenApart, target, base

(* The folder of a page is not named like one when none of its characters ends a page. *)
LEMMA BaseOfPage ==
    ASSUME NEW x \in Seq(Char \ {".html"}), IsRelative(x \o Html)
    PROVE  IsBase(ParentPath(x \o Html))
<1> DEFINE p == x \o Html
           q == ParentPath(p)
           m == LastName(p)
<1>1. x \in Seq(Char) /\ Len(x) \in Nat
  OBVIOUS
<1>2. p \in Seq(Char) /\ Len(p) = Len(x) + 1 /\ \A k \in 1..Len(x) : p[k] = x[k]
  BY <1>1, BeforeHtml
<1> HIDE DEF p
<1>3. p # <<>>
  BY <1>1, <1>2
<1>4. /\ IsRelative(q) /\ m \in Name /\ q \in Seq(Char) /\ Len(q) < Len(p) /\ Len(q) \in Nat
      /\ p = IF q = <<>> THEN m ELSE Append(q, "/") \o m
  BY <1>3, RelativeHalved, Zenon DEF p
<1> HIDE DEF q, m
<1>5. ASSUME q # <<>> PROVE Last(q) # ".html"
  <2> DEFINE t == Append(q, "/")
  <2>1. t \in Seq(Char) /\ Len(t) = Len(q) + 1 /\ \A k \in 1..Len(q) : t[k] = q[k]
    BY <1>4, Chars, Appended
  <2> HIDE DEF t
  <2>2. t \in Seq(Char) /\ m \in Seq(Char)
    BY <1>4, <2>1, Chars DEF Name
  <2>3. \A k \in 1..Len(t) : (t \o m)[k] = t[k]
    BY <2>2, Concatenated
  <2>4. p = t \o m
    BY <1>4, <1>5 DEF t
  <2>5. Len(q) # 0 /\ Len(q) \in 1..Len(q) /\ Len(q) \in 1..Len(t) /\ Len(q) \in 1..Len(x)
    BY <1>1, <1>2, <1>4, <1>5, <2>1
  <2>6. q[Len(q)] = x[Len(q)]
    BY <1>2, <2>1, <2>3, <2>4, <2>5
  <2>7. x[Len(q)] \in Char \ {".html"}
    BY <2>5
  <2> QED
    BY <2>6, <2>7 DEF Last
<1> QED
  BY <1>4, <1>5 DEF IsBase, p, q

Top == <<"symbols">>

(* The page of a symbol. *)
LEMMA SymbolPages ==
    ASSUME NEW s \in Range(Symbols)
    PROVE  /\ IsRelative(SymbolPage(s)) /\ SymbolPage(s) # <<>> /\ Last(SymbolPage(s)) = ".html"
           /\ IsBase(ParentPath(SymbolPage(s)))
           /\ Names(s \o Html) \in Seq(Name) \ {<<>>}
           /\ Names(SymbolPage(s)) = Names(Top) \o Names(s \o Html)
           /\ Slashes(s) = {} => ParentPath(SymbolPage(s)) = Top
<1> DEFINE head == <<"symbols", "/">>
           x == head \o s
           NoPage == Char \ {".html"}
<1>1. s \in Seq(NoPage) /\ s # <<>> /\ s[1] # "/" /\ \A k \in Slashes(s) : k + 1 \notin Slashes(s)
  <2>1. Symbols \in Seq(Seq(NoPage))
    BY ExporterAssumption
  <2>2. s \in Seq(NoPage)
    <3> HIDE DEF NoPage
    <3> QED
      BY <2>1 DEF Range
  <2>3. s # <<>> /\ Head(s) # "/" /\ \A k \in Slashes(s) : k + 1 \notin Slashes(s)
    BY ExporterAssumption
  <2> QED
    BY <2>2, <2>3
<1>2. "symbols" \in NoPage /\ "/" \in NoPage /\ "symbols" # "/"
  BY Chars
<1>3. head \in Seq(NoPage) /\ Len(head) = 2 /\ head[1] = "symbols" /\ head[2] = "/"
  BY <1>2
<1>4. Top \in Name /\ Top \in Seq(Char) /\ Top # <<>>
  BY <1>2 DEF Top, Name, Unslashed
<1>5. Append(Top, "/") = head
  <2> DEFINE a == "symbols"
             b == "/"
             one == <<a>>
  <2>1. a \in NoPage /\ b \in NoPage
    BY <1>2
  <2> HIDE DEF a, b, NoPage
  <2>2. one \in Seq(NoPage) /\ Len(one) = 1 /\ one[1] = a
    BY <2>1
  <2> DEFINE two == <<a, b>>
  <2>3. two \in Seq(NoPage) /\ Len(two) = 2 /\ two[1] = a /\ two[2] = b
    BY <2>1
  <2> HIDE DEF one, two
  <2>4. Append(one, b) \in Seq(NoPage) /\ Len(Append(one, b)) = 2 /\ Append(one, b)[1] = a
        /\ Append(one, b)[2] = b
    <3>1. one \in Seq(NoPage) /\ b \in NoPage
      BY <2>1, <2>2
    <3>2. /\ Append(one, b) \in Seq(NoPage) /\ Len(Append(one, b)) = Len(one) + 1
          /\ Append(one, b)[Len(one) + 1] = b /\ \A k \in 1..Len(one) : Append(one, b)[k] = one[k]
      BY <3>1, Appended
    <3> QED
      BY <2>2, <3>2
  <2>5. Append(one, b) = two
    BY <2>3, <2>4, SeqEqual
  <2> QED
    BY <2>5 DEF one, two, a, b, Top
<1>6. s \in Seq(Char) /\ head \in Seq(Char) /\ Html \in Seq(Char) /\ Len(s) \in Nat /\ Len(s) # 0
  BY <1>1, <1>3, Chars DEF Name
<1> HIDE DEF head
<1>7. /\ x \in Seq(NoPage) /\ x \in Seq(Char) /\ Len(x) = 2 + Len(s)
      /\ x[1] = "symbols" /\ x[2] = "/" /\ \A k \in 1..Len(s) : x[2 + k] = s[k]
  <2> HIDE DEF NoPage
  <2>1. s \in Seq(NoPage) /\ head \in Seq(NoPage)
    BY <1>1, <1>3
  <2>2. /\ x \in Seq(NoPage) /\ Len(x) = Len(head) + Len(s)
        /\ \A k \in 1..Len(head) : x[k] = head[k]
        /\ \A k \in 1..Len(s) : x[Len(head) + k] = s[k]
    BY <2>1, Concatenated
  <2> HIDE DEF x
  <2>3. x \in Seq(Char)
    BY <2>2 DEF NoPage
  <2> QED
    BY <1>3, <2>2, <2>3
<1>8. SymbolPage(s) = x \o Html
  BY DEF SymbolPage, head
<1>9. SymbolPage(s) = Append(Top, "/") \o (s \o Html)
  <2> DEFINE html == Html
  <2>1. s \in Seq(Char) /\ head \in Seq(Char) /\ html \in Seq(Char)
    BY <1>6
  <2> HIDE DEF html
  <2>2. (head \o s) \o html = head \o (s \o html)
    BY <2>1, ConcatAssociative
  <2> QED
    BY <1>5, <1>8, <2>2, Zenon DEF html
<1> HIDE DEF x
<1>10. \A h \in Slashes(x) : h + 1 \notin Slashes(x)
  <2>1. DOMAIN x = 1..2 + Len(s) /\ DOMAIN s = 1..Len(s)
    BY <1>6, <1>7
  <2>2. ASSUME NEW h \in Slashes(x) PROVE h = 2 \/ (h > 2 /\ h - 2 \in Slashes(s))
    <3>1. h \in 1..2 + Len(s) /\ x[h] = "/"
      BY <2>1 DEF Slashes
    <3>2. h # 1
      BY <1>2, <1>7, <3>1
    <3>3. CASE h > 2
      <4>1. h - 2 \in 1..Len(s) /\ 2 + (h - 2) = h
        BY <1>6, <3>1, <3>3
      <4>2. s[h - 2] = "/"
        BY <1>7, <3>1, <4>1
      <4> QED
        BY <2>1, <3>3, <4>1, <4>2 DEF Slashes
    <3> QED
      BY <3>1, <3>2, <3>3
  <2> SUFFICES ASSUME NEW h \in Slashes(x), h + 1 \in Slashes(x) PROVE FALSE
    OBVIOUS
  <2>3. h \in Nat
    BY <2>1 DEF Slashes
  <2>4. h + 1 > 2 /\ (h + 1) - 2 \in Slashes(s) /\ (h = 2 \/ (h > 2 /\ h - 2 \in Slashes(s)))
    BY <2>2, <2>3
  <2>5. CASE h = 2
    <3>1. 1 \in Slashes(s)
      BY <2>4, <2>5
    <3> QED
      BY <1>1, <3>1 DEF Slashes
  <2>6. CASE h # 2
    <3>1. (h + 1) - 2 = (h - 2) + 1
      BY <2>3
    <3> QED
      BY <1>1, <2>4, <2>6, <3>1
  <2> QED
    BY <2>5, <2>6
<1>11. IsRelative(SymbolPage(s)) /\ SymbolPage(s) # <<>>
  <2>1. x[1] # "/"
    BY <1>2, <1>7
  <2> QED
    BY <1>7, <1>8, <1>10, <2>1, PageIsTidy DEF IsRelative
<1>12. IsRelative(s \o Html) /\ s \o Html # <<>>
  BY <1>1, <1>6, PageIsTidy DEF IsRelative
<1>13. IsBase(ParentPath(SymbolPage(s)))
  BY <1>7, <1>8, <1>11, BaseOfPage
<1>14. Names(SymbolPage(s)) = Names(Top) \o Names(s \o Html)
  BY <1>4, <1>9, <1>12, NamesOfBoth, Zenon
<1>15. ASSUME Slashes(s) = {} PROVE ParentPath(SymbolPage(s)) = Top
  <2>1. s \o Html \in Name
    <3>1. \A k \in 1..Len(s) : s[k] # "/"
      BY <1>6, <1>15 DEF Slashes
    <3>2. s \in Seq(Char \ {"/"}) /\ Html \in Seq(Char \ {"/"})
      BY <1>6, <3>1, Chars DEF Name, Unslashed
    <3>3. s \o Html \in Seq(Char \ {"/"})
      BY <3>2, Concatenated
    <3> QED
      BY <1>12, <3>3 DEF Name, Unslashed
  <2>2. IsRelative(Top)
    BY <1>2, <1>4 DEF IsRelative, IsTidy, IsAbsolute, Slashes, Top
  <2>3. In(Top, s \o Html) = Append(Top, "/") \o (s \o Html) /\ ParentPath(In(Top, s \o Html)) = Top
    BY <1>4, <2>1, <2>2, InFolder, Zenon
  <2> QED
    BY <1>9, <2>3
<1>16. Last(SymbolPage(s)) = ".html"
  BY <1>7, <1>8, BeforeHtml
<1>17. Names(s \o Html) \in Seq(Name) \ {<<>>}
  BY <1>12, NamesAreNames, Zenon
<1> QED
  BY <1>11, <1>13, <1>14, <1>15, <1>16, <1>17

(* A link to something in the folder, and one to something from the root on. *)
LEMMA DownLeads ==
    ASSUME NEW page, NEW b \in Seq(Name), Front(page) = b, NEW r \in Seq(Name), r # <<>>
    PROVE  Follow(page, r) = b \o r /\ Follow(page, Ups(Len(b)) \o r) = r
<1> DEFINE N == Len(b)
           zero == 0
<1>1. N \in Nat /\ zero \in 0..N /\ N \in 0..N /\ N - zero = N /\ N - N = 0
  OBVIOUS
<1>2. Ups(0) = <<>> /\ <<>> \o r = r
  BY DEF Ups
<1>3. SubSeq(b, 1, N) = b
  <2>1. 1 \in 1..N + 1 /\ N \in 1 - 1..N /\ N - 1 + 1 = N /\ \A j \in 1..N : 1 + j - 1 = j
    BY <1>1
  <2> DEFINE s == SubSeq(b, 1, N)
  <2>2. s \in Seq(Name) /\ Len(s) = N - 1 + 1 /\ \A j \in 1..N - 1 + 1 : s[j] = b[1 + j - 1]
    BY <2>1, Slice
  <2> HIDE DEF s
  <2>3. s = b
    BY <2>1, <2>2, SeqEqual
  <2> QED
    BY <2>3 DEF s
<1>4. SubSeq(b, 1, 0) = <<>>
  OBVIOUS
<1> HIDE DEF N, zero
<1>5. Follow(page, Ups(zero) \o r) = SubSeq(b, 1, N - zero) \o r
  <2>1. zero \in 0..Len(b) /\ (zero # 0 \/ r # <<>>)
    BY <1>1 DEF N
  <2>2. Follow(page, Ups(zero) \o r) = SubSeq(b, 1, Len(b) - zero) \o r
    BY <2>1, LinkLeads, Zenon
  <2> QED
    BY <2>2 DEF N
<1>6. Follow(page, Ups(N) \o r) = SubSeq(b, 1, N - N) \o r
  <2>1. N \in 0..Len(b) /\ (N # 0 \/ r # <<>>)
    BY <1>1 DEF N
  <2>2. Follow(page, Ups(N) \o r) = SubSeq(b, 1, Len(b) - N) \o r
    BY <2>1, LinkLeads, Zenon
  <2> QED
    BY <2>2 DEF N
<1>7. Follow(page, r) = b \o r
  BY <1>1, <1>2, <1>3, <1>5, Zenon DEF zero
<1>8. Follow(page, Ups(N) \o r) = r
  BY <1>1, <1>2, <1>4, <1>6
<1> QED
  BY <1>7, <1>8 DEF N

(* Links to the pages of symbols lead there, from the page of a file and from that of a symbol
   with no slash in its name. *)
LEMMA SymbolLinkLeads ==
    ASSUME NEW s \in Range(Symbols)
    PROVE  /\ \A page : IsRelative(page) /\ page # <<>> =>
                 Follow(Names(page), PathToRoot(page) \o Names(SymbolPage(s))) = Names(SymbolPage(s))
           /\ \A t \in Range(Symbols) : Slashes(t) = {} =>
                 Follow(Names(SymbolPage(t)), Names(s \o Html)) = Names(SymbolPage(s))
<1>1. ASSUME NEW page, IsRelative(page), page # <<>>
      PROVE  Follow(Names(page), PathToRoot(page) \o Names(SymbolPage(s))) = Names(SymbolPage(s))
  <2> DEFINE b == Names(ParentPath(page))
             names == Names(page)
             r == Names(SymbolPage(s))
  <2>1. Front(names) = b /\ b \in Seq(Name)
    BY <1>1, RelativeHalved, NamesAreNames
  <2>2. r \in Seq(Name) /\ r # <<>>
    BY SymbolPages, NamesAreNames
  <2>3. PathToRoot(page) = Ups(Len(b))
    BY <1>1, SlashesCounted DEF PathToRoot, Ups
  <2> HIDE DEF b, r, names
  <2>4. Follow(names, Ups(Len(b)) \o r) = r
    BY <2>1, <2>2, DownLeads
  <2> QED
    BY <2>3, <2>4 DEF r, names
<1>2. ASSUME NEW t \in Range(Symbols), Slashes(t) = {}
      PROVE  Follow(Names(SymbolPage(t)), Names(s \o Html)) = Names(SymbolPage(s))
  <2> DEFINE b == Names(Top)
             names == Names(SymbolPage(t))
             r == Names(s \o Html)
  <2>1. IsRelative(SymbolPage(t)) /\ SymbolPage(t) # <<>> /\ ParentPath(SymbolPage(t)) = Top
    BY <1>2, SymbolPages
  <2>2. Front(names) = b /\ b \in Seq(Name)
    BY <2>1, RelativeHalved, NamesAreNames
  <2>3. r \in Seq(Name) /\ r # <<>> /\ Names(SymbolPage(s)) = b \o r
    BY SymbolPages
  <2> HIDE DEF b, r, names
  <2>4. Follow(names, r) = b \o r
    BY <2>2, <2>3, DownLeads, Zenon
  <2> QED
    BY <2>3, <2>4 DEF r, names
<1> QED
  BY <1>1, <1>2

(* What is written replaces what the path held, and nothing else. *)
LEMMA Written ==
    ASSUME NEW page, NEW links, WriteFile(page, links)
    PROVE  /\ DOMAIN disk' = DOMAIN disk \cup {page} /\ disk'[page] = links
           /\ \A p \in DOMAIN disk : p # page => disk'[p] = disk[p]
  BY DEF WriteFile

-----------------------------------------------------------------------------
(* The folders whose pages are written are relative unless the root is "/". *)
FoldersAreBases == ~RootIsSlash => \A d \in folders : IsBase(d)

LEMMA InitBases == ExportInit => FoldersAreBases
  BY DEF ExportInit, FoldersAreBases

LEMMA NextBases == ExportInv /\ FoldersAreBases /\ [ExportNext]_exportVars => FoldersAreBases'
<1> SUFFICES ASSUME ExportInv, FoldersAreBases, [ExportNext]_exportVars PROVE FoldersAreBases'
  OBVIOUS
<1>1. ASSUME UNCHANGED <<rootpath, folders>> PROVE FoldersAreBases'
  BY <1>1 DEF FoldersAreBases, RootIsSlash
<1>2. CASE DetectRootPath
  BY <1>2 DEF DetectRootPath, ExportInv, FoldersAreBases, folderVars
<1>3. CASE WriteFilePage \/ FoldersListed \/ DirectoryPagesWritten \/ WriteSymbolPage \/ SymbolPagesWritten
  BY <1>1, <1>3 DEF WriteFilePage, FoldersListed, DirectoryPagesWritten, WriteSymbolPage,
                    SymbolPagesWritten, folderVars
<1>4. ASSUME NEW dir \in todo, WriteDirectoryPage(dir) \/ ThrowOutOfRange(dir) PROVE FoldersAreBases'
  BY <1>1, <1>4 DEF WriteDirectoryPage, ThrowOutOfRange, folderVars
<1>5. CASE ListPageFolders
  <2>1. /\ UNCHANGED rootpath /\ nbFiles = Len(project)
        /\ folders' = {ParentPath(paths[f]) : f \in File} \ {NoFolder}
    BY <1>5 DEF ListPageFolders, ListDirectories
  <2>2. \A f \in File : paths[f] = PageOf(f)
    BY <2>1, ProjectIsList DEF ExportInv, PathsInv
  <2>3. ASSUME ~RootIsSlash', NEW d \in folders' PROVE IsBase(d)
    <3>1. PICK f \in File : d = ParentPath(PageOf(f))
      BY <2>1, <2>2, <2>3
    <3> QED
      BY <2>1, <2>3, <3>1, FilePages DEF RootIsSlash
  <2> QED
    BY <2>3 DEF FoldersAreBases
<1>6. CASE CloseFolders
  <2>1. CASE Advance
    BY <1>1, <1>6, <2>1 DEF CloseFolders, Advance
  <2>2. CASE InsertParent
    <3>1. UNCHANGED rootpath /\ at # NoFolder /\ Missing(at) /\ folders' = folders \cup {Parent(at)}
      BY <1>6, <2>2 DEF CloseFolders, InsertParent
    <3>2. at \in folders /\ at \in Folder /\ Parent(at) \in Folder
      BY <3>1, FoldersAssumption DEF Missing, ExportInv, FoldersInv, FoldersTypeOK
    <3>3. Parent(at) = ParentPath(at) /\ Last(Parent(at)) # ".html"
      BY <3>2, ExporterAssumption
    <3>4. ASSUME ~RootIsSlash PROVE IsBase(Parent(at))
      <4>1. IsRelative(at) /\ at # <<>>
        BY <3>1, <3>2, <3>4, ExporterAssumption DEF FoldersAreBases, IsBase
      <4>2. IsRelative(ParentPath(at))
        BY <4>1, RelativeHalved
      <4> QED
        BY <3>3, <4>2 DEF IsBase
    <3> QED
      BY <3>1, <3>4 DEF FoldersAreBases, RootIsSlash
  <2> QED
    BY <1>6, <2>1, <2>2 DEF CloseFolders
<1>7. CASE UNCHANGED exportVars
  BY <1>1, <1>7 DEF exportVars, folderVars
<1> QED
  BY <1>2, <1>3, <1>4, <1>5, <1>6, <1>7 DEF ExportNext

(* Where a link was meant to lead is where it does. *)
FileLinkRight(page, link) ==
    /\ link.to \in File
    /\ \/ Follow(Names(page), link.href) = Names(PageOf(link.to))
       \/ link.href = <<>> /\ TakenApart(page, PageOf(link.to))
       \/ RootIsSlash

SymbolLinkRight(page, link) ==
    /\ link.to \in {SymbolPage(s) : s \in Range(Symbols)}
    /\ \/ Follow(Names(page), link.href) = Names(link.to)
       \/ RootIsSlash
       \/ page \in {SymbolPage(s) : s \in {s \in Range(Symbols) : Slashes(s) # {}}}

LinkRight(page, link) ==
    /\ link.kind = "file" => FileLinkRight(page, link)
    /\ link.kind = "symbol" => SymbolLinkRight(page, link)

LinksInv ==
    /\ phase = "root" => DOMAIN disk = {}
    /\ \A page \in DOMAIN disk : \A link \in disk[page] : LinkRight(page, link)
    /\ nbSymbols \in 0..Len(Symbols)
    /\ \A k \in 1..nbSymbols : SymbolPage(Symbols[k]) \in DOMAIN disk
    /\ phase = "done" => nbSymbols = Len(Symbols)

LEMMA InitLinks == ExportInit => LinksInv
<1>1. Len(Symbols) \in Nat
  BY ExporterAssumption
<1> QED
  BY <1>1 DEF ExportInit, LinksInv

(* Names in the working directory are only added, so the page that is told apart remains so. *)
LEMMA TakenApartLater ==
    ASSUME UNCHANGED <<workdir, present>>, DOMAIN disk \subseteq DOMAIN disk',
           NEW page, NEW other, TakenApart(page, other)
    PROVE  TakenApart(page, other)'
<1>1. Existing \subseteq Existing'
  BY DEF Existing, NamesWritten
<1>2. \A names : Exists(names, Existing) => Exists(names, Existing')
  BY <1>1 DEF Exists
<1> QED
  BY <1>2 DEF TakenApart

LEMMA LinkRightLater ==
    ASSUME UNCHANGED <<inputVars, rootpath>>, DOMAIN disk \subseteq DOMAIN disk',
           NEW page, NEW link, LinkRight(page, link)
    PROVE  LinkRight(page, link)'
<1>1. \A f : PageOf(f)' = PageOf(f)
  BY DEF PageOf
<1>2. ASSUME link.kind = "file" PROVE FileLinkRight(page, link)'
  <2>1. TakenApart(page, PageOf(link.to)) => TakenApart(page, PageOf(link.to))'
    BY TakenApartLater, <1>1 DEF inputVars
  <2> QED
    BY <1>1, <1>2, <2>1 DEF LinkRight, FileLinkRight, inputVars, File, RootIsSlash
<1> QED
  BY <1>2 DEF LinkRight, SymbolLinkRight, RootIsSlash

(* A page whose links are right is added. *)
LEMMA LinksAdded ==
    ASSUME LinksInv, NEW page, NEW links, WriteFile(page, links), \A link \in links : LinkRight(page, link),
           UNCHANGED <<inputVars, rootpath>>, phase # "root", phase' = phase,
           nbSymbols' = nbSymbols \/ (nbSymbols' = nbSymbols + 1 /\ nbSymbols < Len(Symbols) /\ page = SymbolPage(Symbols[nbSymbols + 1])),
           phase # "done"
    PROVE  LinksInv'
<1>1. /\ DOMAIN disk' = DOMAIN disk \cup {page} /\ disk'[page] = links
      /\ \A p \in DOMAIN disk : p # page => disk'[p] = disk[p]
  BY Written, Zenon
<1>2. \A p, link : LinkRight(p, link) => LinkRight(p, link)'
  BY <1>1, LinkRightLater
<1>3. \A p \in DOMAIN disk' : \A link \in disk'[p] : LinkRight(p, link)'
  BY <1>1, <1>2 DEF LinksInv
<1>4. Len(Symbols) \in Nat
  BY ExporterAssumption
<1>5. nbSymbols' \in 0..Len(Symbols) /\ \A k \in 1..nbSymbols' : SymbolPage(Symbols[k]) \in DOMAIN disk'
  <2>1. CASE nbSymbols' = nbSymbols
    BY <1>1, <2>1 DEF LinksInv
  <2>2. CASE nbSymbols' = nbSymbols + 1 /\ nbSymbols < Len(Symbols) /\ page = SymbolPage(Symbols[nbSymbols + 1])
    <3>1. nbSymbols' \in 0..Len(Symbols) /\ 1..nbSymbols' = (1..nbSymbols) \cup {nbSymbols + 1}
      BY <1>4, <2>2 DEF LinksInv
    <3> QED
      BY <1>1, <2>2, <3>1 DEF LinksInv
  <2> QED
    BY <2>1, <2>2
<1> QED
  BY <1>3, <1>5 DEF LinksInv

(* The links of a page to files are right when the page is in a folder. *)
LEMMA FileLinksRight ==
    ASSUME ExportInv, NEW page, NEW files \in SUBSET File,
           ~RootIsSlash => IsRelative(page) /\ page # <<>> /\ IsBase(ParentPath(page))
    PROVE  \A link \in FileLinks(page, files) : LinkRight(page, link)
<1> SUFFICES ASSUME NEW f \in files,
                    NEW link, link = [kind |-> "file", to |-> f, href |-> LinkTo(page, PageOf(f))]
             PROVE  LinkRight(page, link)
  BY DEF FileLinks
<1>1. link.kind = "file" /\ link.to = f /\ link.href = LinkTo(page, PageOf(f)) /\ f \in File
  OBVIOUS
<1>2. FileLinkRight(page, link)
  <2>1. CASE RootIsSlash
    BY <1>1, <2>1 DEF FileLinkRight
  <2>2. CASE ~RootIsSlash
    <3>1. \/ Follow(Names(page), LinkTo(page, PageOf(f))) = Names(PageOf(f))
          \/ LinkTo(page, PageOf(f)) = <<>> /\ TakenApart(page, PageOf(f))
      BY <1>1, <2>2, FileLinkLeads
    <3> QED
      BY <1>1, <3>1 DEF FileLinkRight
  <2> QED
    BY <2>1, <2>2
<1> QED
  BY <1>1, <1>2 DEF LinkRight

(* So are all links of the page of a file. *)
LEMMA FilePageRight ==
    ASSUME ExportInv, NEW f \in File
    PROVE  \A link \in FilePageLinks(PageOf(f)) : LinkRight(PageOf(f), link)
<1> DEFINE page == PageOf(f)
<1>1. ~RootIsSlash => IsRelative(page) /\ page # <<>> /\ IsBase(ParentPath(page))
  BY FilePages
<1> HIDE DEF page
<1>2. \A link \in FileLinks(page, File) : LinkRight(page, link)
  BY <1>1, FileLinksRight
<1>3. ASSUME NEW s \in Range(Symbols),
             NEW link, link = [kind |-> "symbol", to |-> SymbolPage(s),
                               href |-> PathToRoot(page) \o Names(SymbolPage(s))]
      PROVE  LinkRight(page, link)
  <2>1. link.kind = "symbol" /\ link.to = SymbolPage(s) /\ link.href = PathToRoot(page) \o Names(SymbolPage(s))
    BY <1>3
  <2>2. ~RootIsSlash => Follow(Names(page), PathToRoot(page) \o Names(SymbolPage(s))) = Names(SymbolPage(s))
    BY <1>1, SymbolLinkLeads
  <2> QED
    BY <2>1, <2>2 DEF LinkRight, SymbolLinkRight
<1> QED
  BY <1>2, <1>3 DEF FilePageLinks, page

(* And those of the page of a symbol. *)
LEMMA SymbolPageRight ==
    ASSUME ExportInv, NEW t \in Range(Symbols)
    PROVE  \A link \in MentionLinks(SymbolPage(t)) \cup RelatedSymbols : LinkRight(SymbolPage(t), link)
<1> DEFINE page == SymbolPage(t)
<1>1. IsRelative(page) /\ page # <<>> /\ IsBase(ParentPath(page))
  BY SymbolPages
<1>2. ASSUME NEW s \in Range(Symbols),
             NEW link, link = [kind |-> "symbol", to |-> SymbolPage(s), href |-> Names(s \o Html)]
      PROVE  LinkRight(page, link)
  <2>1. link.kind = "symbol" /\ link.to = SymbolPage(s) /\ link.href = Names(s \o Html)
    BY <1>2
  <2>2. Slashes(t) = {} => Follow(Names(page), Names(s \o Html)) = Names(SymbolPage(s))
    BY SymbolLinkLeads
  <2>3. Slashes(t) # {} => page \in {SymbolPage(r) : r \in {r \in Range(Symbols) : Slashes(r) # {}}}
    OBVIOUS
  <2> HIDE DEF page
  <2> QED
    BY <2>1, <2>2, <2>3 DEF LinkRight, SymbolLinkRight
<1> HIDE DEF page
<1>3. \A link \in FileLinks(page, File) : LinkRight(page, link)
  BY <1>1, FileLinksRight
<1> QED
  BY <1>2, <1>3 DEF MentionLinks, RelatedSymbols, page

(* And those of the page of a folder. *)
LEMMA FolderPageRight ==
    ASSUME ExportInv, FoldersAreBases, NEW dir \in folders \cup {NoFolder}
    PROVE  \A link \in FolderLinks(dir) \cup FileLinks(In(dir, Index), Contained(dir)) :
              LinkRight(In(dir, Index), link)
<1> DEFINE page == In(dir, Index)
<1>1. ASSUME ~RootIsSlash PROVE IsRelative(page) /\ page # <<>> /\ IsBase(ParentPath(page))
  <2>1. IsBase(dir)
    BY <1>1, NoneIsRelative, ExporterAssumption DEF FoldersAreBases, IsBase
  <2>2. IsRelative(dir) /\ Index \in Name
    BY <2>1, Chars DEF IsBase
  <2>3. IsRelative(page) /\ page # <<>> /\ ParentPath(page) = dir
    BY <2>2, InFolder
  <2> QED
    BY <2>1, <2>3
<1> HIDE DEF page
<1>2. Contained(dir) \in SUBSET File
  BY DEF Contained, Matching
<1>3. \A link \in FileLinks(page, Contained(dir)) : LinkRight(page, link)
  BY <1>1, <1>2, FileLinksRight
<1>4. \A link \in FolderLinks(dir) : link.kind = "folder"
  BY DEF FolderLinks, LinksToFolders
<1>5. \A link \in FolderLinks(dir) : LinkRight(page, link)
  BY <1>4 DEF LinkRight
<1> QED
  BY <1>3, <1>5 DEF page

LEMMA NextLinks ==
    ASSUME ExportInv, ThrowInv, FoldersAreBases, LinksInv, [ExportNext]_exportVars
    PROVE  LinksInv'
<1>1. ASSUME UNCHANGED <<inputVars, rootpath, nbSymbols, disk>>, phase' # "root" \/ phase = "root",
             phase' = "done" => nbSymbols = Len(Symbols)
      PROVE  LinksInv'
  <2>1. \A p, link : LinkRight(p, link) => LinkRight(p, link)'
    BY <1>1, LinkRightLater
  <2> QED
    BY <1>1, <2>1 DEF LinksInv
<1>2. CASE DetectRootPath
  <2>1. phase' = "files" /\ DOMAIN disk = {} /\ UNCHANGED <<nbSymbols, disk>>
    BY <1>2 DEF DetectRootPath, LinksInv
  <2> QED
    BY <2>1 DEF LinksInv
<1>3. CASE WriteFilePage
  <2> DEFINE f == project[nbFiles + 1]
  <2>1. /\ UNCHANGED <<phase, inputVars, rootpath, nbSymbols>> /\ phase = "files" /\ nbFiles < Len(project)
        /\ WriteFile(PageOf(f), FilePageLinks(PageOf(f))) \/ UNCHANGED disk
    BY <1>3 DEF WriteFilePage
  <2>2. CASE UNCHANGED disk
    BY <1>1, <2>1, <2>2
  <2>3. CASE WriteFile(PageOf(f), FilePageLinks(PageOf(f)))
    <3>1. f \in File
      <4>1. nbFiles + 1 \in 1..Len(project)
        BY <2>1, ProjectIsList DEF ExportInv, PathsInv
      <4> QED
        BY <4>1, ProjectIsList DEF ExportInv
    <3>2. \A link \in FilePageLinks(PageOf(f)) : LinkRight(PageOf(f), link)
      BY <3>1, FilePageRight
    <3> QED
      BY <2>1, <2>3, <3>2, LinksAdded
  <2> QED
    BY <2>1, <2>2, <2>3
<1>4. CASE ListPageFolders \/ CloseFolders \/ FoldersListed \/ DirectoryPagesWritten \/ SymbolPagesWritten
  BY <1>1, <1>4 DEF ListPageFolders, CloseFolders, FoldersListed, DirectoryPagesWritten, SymbolPagesWritten
<1>5. ASSUME NEW dir \in todo, ThrowOutOfRange(dir) PROVE LinksInv'
  BY <1>1, <1>5 DEF ThrowOutOfRange
<1>6. ASSUME NEW dir \in todo, WriteDirectoryPage(dir) PROVE LinksInv'
  <2> DEFINE page == In(dir, Index)
             links == FolderLinks(dir) \cup FileLinks(page, Contained(dir))
  <2>1. UNCHANGED <<phase, inputVars, rootpath, nbSymbols>> /\ phase = "pages" /\ WriteFile(page, links)
    BY <1>6 DEF WriteDirectoryPage
  <2>2. dir \in folders \cup {NoFolder}
    BY <2>1 DEF ThrowInv
  <2>3. \A link \in links : LinkRight(page, link)
    BY <2>2, FolderPageRight
  <2> HIDE DEF page, links
  <2> QED
    BY <2>1, <2>3, LinksAdded
<1>7. CASE WriteSymbolPage
  <2> DEFINE t == Symbols[nbSymbols + 1]
             page == SymbolPage(t)
             links == MentionLinks(page) \cup RelatedSymbols
  <2>1. /\ UNCHANGED <<phase, inputVars, rootpath>> /\ phase = "symbols" /\ nbSymbols < Len(Symbols)
        /\ nbSymbols' = nbSymbols + 1 /\ WriteFile(page, links)
    BY <1>7 DEF WriteSymbolPage
  <2>2. t \in Range(Symbols)
    <3>1. Symbols \in Seq(Seq(Char \ {".html"}))
      BY ExporterAssumption
    <3>2. nbSymbols + 1 \in 1..Len(Symbols) /\ DOMAIN Symbols = 1..Len(Symbols)
      BY <2>1, <3>1 DEF LinksInv
    <3> QED
      BY <3>2 DEF Range
  <2>3. \A link \in links : LinkRight(page, link)
    BY <2>2, SymbolPageRight
  <2>4. page = SymbolPage(Symbols[nbSymbols + 1])
    OBVIOUS
  <2> HIDE DEF page, links
  <2> QED
    BY <2>1, <2>3, <2>4, LinksAdded
<1>8. CASE UNCHANGED exportVars
  BY <1>1, <1>8 DEF exportVars, LinksInv
<1> QED
  BY <1>2, <1>3, <1>4, <1>5, <1>6, <1>7, <1>8 DEF ExportNext

(* What the invariant says is what the property does. *)
LEMMA LinksThen == ExportInv /\ LinksInv => LinksLead
<1> SUFFICES ASSUME ExportInv, LinksInv, phase \in {"done", "thrown"},
                    NEW page \in DOMAIN disk, NEW link \in disk[page]
             PROVE  /\ link.kind = "file" =>
                        /\ \A f \in File \ {link.to} : PageOf(f) # PageOf(link.to)
                        /\ \/ Follow(Names(page), link.href) = Names(PageOf(link.to))
                           \/ link.href = <<>> /\ TakenApart(page, PageOf(link.to))
                           \/ RootIsSlash
                    /\ link.kind = "symbol" =>
                        /\ phase = "done" => link.to \in DOMAIN disk
                        /\ \/ Follow(Names(page), link.href) = Names(link.to)
                           \/ RootIsSlash
                           \/ page \in {SymbolPage(s) : s \in {s \in Range(Symbols) : Slashes(s) # {}}}
  BY DEF LinksLead
<1>1. LinkRight(page, link)
  BY DEF LinksInv
<1>2. ASSUME link.kind = "file" PROVE \A f \in File \ {link.to} : PageOf(f) # PageOf(link.to)
  <2>1. link.to \in File
    BY <1>1, <1>2 DEF LinkRight, FileLinkRight
  <2> QED
    BY <2>1, FilePages
<1>3. ASSUME link.kind = "symbol", phase = "done" PROVE link.to \in DOMAIN disk
  <2>1. PICK s \in Range(Symbols) : link.to = SymbolPage(s)
    BY <1>1, <1>3 DEF LinkRight, SymbolLinkRight
  <2>2. PICK k \in DOMAIN Symbols : s = Symbols[k]
    BY DEF Range
  <2>3. k \in 1..nbSymbols
    <3>1. Symbols \in Seq(Seq(Char \ {".html"}))
      BY ExporterAssumption
    <3>2. DOMAIN Symbols = 1..Len(Symbols)
      BY <3>1
    <3> QED
      BY <1>3, <3>2 DEF LinksInv
  <2> QED
    BY <2>1, <2>2, <2>3 DEF LinksInv
<1> QED
  BY <1>1, <1>2, <1>3 DEF LinkRight, FileLinkRight, SymbolLinkRight

(* Whatever the project and the symbols: every link between pages leads to the page it names,
   but for the cases that the property lists. *)
THEOREM LinksAlwaysLead == ExportSpec => []LinksLead
<1> DEFINE Inv == ExportInv /\ ThrowInv /\ FoldersAreBases /\ LinksInv
<1>1. ExportInit => Inv
  BY InitExport, InitThrow, InitBases, InitLinks
<1>2. Inv /\ [ExportNext]_exportVars => Inv'
  BY NextExport, NextThrow, NextBases, NextLinks
<1>3. Inv => LinksLead
  BY LinksThen
<1> QED
  BY <1>1, <1>2, <1>3, PTL DEF ExportSpec

(* What a path is behind its folder: one slash and a name. *)
LEMMA OwnFolder ==
    ASSUME NEW p, IsRelative(p), p # <<>>, ParentPath(p) # <<>>
    PROVE  LET own == ParentPath(p)
           IN  /\ own \in Seq(Char) /\ Len(own) \in Nat /\ Len(own) < Len(p) /\ Len(p) \in Nat
               /\ \A k \in 1..Len(own) : p[k] = own[k]
               /\ IsPrefix(own, p) /\ {h \in Slashes(p) : h > Len(own)} = {Len(own) + 1}
<1> DEFINE own == ParentPath(p)
           m == LastName(p)
           L == LastSlash(p)
           t == Append(own, "/")
<1>1. /\ own \in Seq(Char) /\ Len(own) \in Nat /\ Len(own) < Len(p) /\ Len(p) \in Nat
      /\ m \in Name /\ p = t \o m /\ Len(own) = L - 1
  BY RelativeHalved, Zenon
<1>2. p \in Seq(Char) /\ L \in Nat /\ Slashes(p) \subseteq 1..L /\ (L # 0 => L \in Slashes(p))
  BY LastSlashIs DEF IsRelative, IsTidy
<1> HIDE DEF own, m, L, t
<1>3. t \in Seq(Char) /\ m \in Seq(Char)
  BY <1>1, Chars DEF t, Name
<1>4. Len(t) = Len(own) + 1 /\ \A k \in 1..Len(own) : t[k] = own[k]
  BY <1>1, Chars, Appended DEF t
<1>5. \A k \in 1..Len(t) : (t \o m)[k] = t[k]
  BY <1>3, Concatenated
<1>6. \A k \in 1..Len(own) : p[k] = own[k]
  BY <1>1, <1>4, <1>5
<1>7. IsPrefix(own, p)
  <2>1. own \in Seq(Char) /\ p \in Seq(Char)
    BY <1>1, <1>2
  <2>2. Len(own) <= Len(p) /\ \A k \in 1..Len(own) : own[k] = p[k]
    BY <1>1, <1>6
  <2> QED
    BY <2>1, <2>2, PrefixIs
<1>8. {h \in Slashes(p) : h > Len(own)} = {Len(own) + 1}
  BY <1>1, <1>2
<1> QED
  BY <1>1, <1>6, <1>7, <1>8 DEF own

(* What it is behind a folder further up: more than one slash. *)
LEMMA FolderAbove ==
    ASSUME NEW p, IsRelative(p), p # <<>>, ParentPath(p) # <<>>,
           NEW d \in Seq(Char), d # <<>>, NEW r \in Seq(Char), r # <<>>,
           ParentPath(p) = Append(d, "/") \o r
    PROVE  /\ IsPrefix(d, p) /\ Len(d) < Len(p) /\ Cardinality({h \in Slashes(p) : h > Len(d)}) # 1
           /\ SubSeq(ParentPath(p), Len(d) + 2, Len(ParentPath(p))) = r
<1> DEFINE own == ParentPath(p)
           t == Append(d, "/")
           N == Len(d)
<1>1. /\ own \in Seq(Char) /\ Len(own) \in Nat /\ Len(own) < Len(p) /\ Len(p) \in Nat
      /\ \A k \in 1..Len(own) : p[k] = own[k]
      /\ {h \in Slashes(p) : h > Len(own)} = {Len(own) + 1}
  BY OwnFolder, Zenon
<1>2. p \in Seq(Char) /\ N \in Nat /\ Len(r) \in Nat /\ Len(r) # 0
  BY DEF IsRelative, IsTidy
<1>3. own = t \o r
  OBVIOUS
<1> HIDE DEF own
<1>4. t \in Seq(Char) /\ Len(t) = N + 1 /\ t[N + 1] = "/" /\ \A k \in 1..N : t[k] = d[k]
  BY Chars, Appended
<1> HIDE DEF t
<1>5. /\ Len(own) = N + 1 + Len(r) /\ \A k \in 1..N + 1 : own[k] = t[k]
      /\ \A k \in 1..Len(r) : own[N + 1 + k] = r[k]
  <2>1. /\ Len(t \o r) = Len(t) + Len(r)
        /\ \A k \in 1..Len(t) : (t \o r)[k] = t[k]
        /\ \A k \in 1..Len(r) : (t \o r)[Len(t) + k] = r[k]
    <3>1. t \in Seq(Char) /\ r \in Seq(Char)
      BY <1>4
    <3> QED
      BY <3>1, Concatenated
  <2> QED
    BY <1>3, <1>4, <2>1, Zenon
<1>6. Len(d) < Len(p) /\ \A k \in 1..N : d[k] = p[k]
  BY <1>1, <1>2, <1>4, <1>5
<1>7. IsPrefix(d, p)
  BY <1>2, <1>6, PrefixIs
<1>8. Cardinality({h \in Slashes(p) : h > Len(d)}) # 1
  <2> DEFINE T == {h \in Slashes(p) : h > Len(d)}
  <2>1. N + 1 \in T
    <3>1. N + 1 \in 1..Len(own) /\ N + 1 \in DOMAIN p
      BY <1>1, <1>2, <1>5
    <3>2. p[N + 1] = "/"
      BY <1>1, <1>2, <1>4, <1>5, <3>1
    <3> QED
      BY <1>2, <3>1, <3>2 DEF Slashes
  <2>2. Len(own) + 1 \in T /\ Len(own) + 1 # N + 1
    <3>1. Len(own) + 1 \in Slashes(p)
      BY <1>1
    <3> QED
      BY <1>1, <1>2, <1>5, <3>1
  <2>3. IsFiniteSet(T)
    <3>1. IsFiniteSet(Slashes(p))
      BY SlashesCounted
    <3> QED
      BY <3>1, FS_Subset
  <2> HIDE DEF T
  <2>4. ~ \E h : T = {h}
    BY <2>1, <2>2
  <2>5. Cardinality(T) # 1
    BY <2>3, <2>4, FS_Singleton, Zenon
  <2> QED
    BY <2>5 DEF T
<1>9. SubSeq(own, Len(d) + 2, Len(own)) = r
  <2> DEFINE k0 == N + 2
             s == SubSeq(own, k0, Len(own))
  <2>1. k0 \in 1..Len(own) + 1 /\ Len(own) \in k0 - 1..Len(own) /\ Len(own) - k0 + 1 = Len(r)
        /\ \A k \in 1..Len(r) : k0 + k - 1 = N + 1 + k
    BY <1>1, <1>2, <1>5
  <2> HIDE DEF k0
  <2>2. s \in Seq(Char) /\ Len(s) = Len(own) - k0 + 1
        /\ \A k \in 1..Len(own) - k0 + 1 : s[k] = own[k0 + k - 1]
    BY <1>1, <2>1, Slice
  <2> HIDE DEF s
  <2>3. \A k \in 1..Len(r) : s[k] = r[k]
    BY <1>5, <2>1, <2>2, Zenon
  <2>4. s = r
    BY <2>1, <2>2, <2>3, SeqEqual, Zenon
  <2> QED
    BY <2>4 DEF s, k0
<1> QED
  BY <1>6, <1>7, <1>8, <1>9 DEF own

(* The page of a folder is not the page of a symbol. *)
LEMMA IndexIsNoPage ==
    ASSUME NEW d, IsRelative(d), NEW s \in Range(Symbols)
    PROVE  In(d, Index) # SymbolPage(s)
<1> DEFINE c == "index.html"
           t == Append(d, "/")
<1>1. c \in Char /\ d \in Seq(Char) /\ t \in Seq(Char) /\ Index = <<c>> /\ Index \in Name
  BY Chars DEF IsRelative, IsTidy, Index
<1>2. In(d, Index) = IF d = <<>> THEN <<c>> ELSE t \o <<c>>
  BY <1>1, InFolder, Zenon
<1>3. c # ".html"
  OBVIOUS
<1> HIDE DEF t, c
<1>4. t \o <<c>> = Append(t, c) /\ Last(Append(t, c)) = c
  BY <1>1, AppendIsConcat, FrontAndLast
<1>5. Last(<<c>>) = c
  BY <1>1 DEF Last
<1>6. Last(In(d, Index)) = c
  BY <1>2, <1>4, <1>5, Zenon
<1> QED
  BY <1>3, <1>6, SymbolPages
-----------------------------------------------------------------------------
(* The page of the folder is there and has the links that it was written with. *)
HasListing(d) ==
    /\ In(d, Index) \in DOMAIN disk
    /\ FolderLinks(d) \subseteq disk[In(d, Index)]
    /\ \A f \in Contained(d) : \E link \in disk[In(d, Index)] : link.kind = "file" /\ link.to = f

ListedInv ==
    /\ phase \notin {"root", "files"} => \A f \in File : ParentPath(PageOf(f)) \in folders \cup {NoFolder}
    /\ phase \in {"pages", "symbols", "done"} =>
        /\ at = NoFolder
        /\ ~RootIsSlash => \A d \in (folders \cup {NoFolder}) \ todo : HasListing(d)
    /\ phase \in {"symbols", "done"} => todo = {}

(* Which links a folder's page is written with depends on the pages of files alone. *)
LEMMA SameListing ==
    ASSUME UNCHANGED <<project, paths>>
    PROVE  \A d : FolderLinks(d)' = FolderLinks(d) /\ Contained(d)' = Contained(d)
<1>1. \A d : Matching(d)' = Matching(d)
  BY DEF Matching, File
<1>2. \A d, f : Depth(d, f)' = Depth(d, f)
  BY DEF Depth
<1>3. \A d : Contained(d)' = Contained(d)
  BY <1>1, <1>2 DEF Contained
<1>4. \A d : Nested(d)' = Nested(d)
  BY <1>1, <1>3 DEF Nested
<1>5. \A d, f : FolderName(d, f)' = FolderName(d, f)
  BY DEF FolderName
<1> QED
  BY <1>3, <1>4, <1>5 DEF FolderLinks, LinksToFolders

(* Another page is written: that of the folder stays. *)
LEMMA PageStays ==
    ASSUME NEW page, NEW links, WriteFile(page, links), UNCHANGED <<project, paths>>,
           NEW d, HasListing(d), In(d, Index) # page
    PROVE  HasListing(d)'
<1>1. FolderLinks(d)' = FolderLinks(d) /\ Contained(d)' = Contained(d)
  BY SameListing
<1>2. In(d, Index) \in DOMAIN disk' /\ disk'[In(d, Index)] = disk[In(d, Index)]
  BY Written, Zenon DEF HasListing
<1> QED
  BY <1>1, <1>2 DEF HasListing

LEMMA InitListed == ExportInit => ListedInv
  BY DEF ExportInit, ListedInv

LEMMA NextListed ==
    ASSUME ExportInv, ThrowInv, FoldersAreBases, LinksInv, ListedInv, [ExportNext]_exportVars
    PROVE  ListedInv'
<1>1. ASSUME UNCHANGED <<project, rootpath, paths, folderVars, disk, todo>>,
             \/ phase' = phase
             \/ phase' = "files" /\ phase = "root"
             \/ phase = "pages" /\ phase' = "symbols" /\ todo = {}
             \/ phase = "symbols" /\ phase' = "done"
             \/ phase = "pages" /\ phase' = "thrown"
      PROVE  ListedInv'
  <2>1. \A d : HasListing(d)' <=> HasListing(d)
    BY <1>1, SameListing DEF HasListing
  <2> QED
    BY <1>1, <2>1 DEF ListedInv, File, PageOf, RootIsSlash, folderVars
<1>2. CASE DetectRootPath \/ WriteFilePage
  <2>1. phase' = "files"
    BY <1>2 DEF DetectRootPath, WriteFilePage
  <2> QED
    BY <2>1 DEF ListedInv
<1>3. CASE ListPageFolders
  <2>1. /\ UNCHANGED <<project, rootpath>> /\ nbFiles = Len(project) /\ phase' = "folders"
        /\ folders' = {ParentPath(paths[f]) : f \in File} \ {NoFolder}
    BY <1>3 DEF ListPageFolders, ListDirectories, inputVars
  <2>2. \A f \in File : paths[f] = PageOf(f)
    BY <2>1, ProjectIsList DEF ExportInv, PathsInv
  <2> QED
    BY <2>1, <2>2 DEF ListedInv, File, PageOf
<1>4. CASE CloseFolders
  <2>1. /\ UNCHANGED <<phase, project, rootpath>> /\ phase = "folders" /\ folders \subseteq folders'
    BY <1>4 DEF CloseFolders, InsertParent, Advance, inputVars
  <2> QED
    BY <2>1 DEF ListedInv, File, PageOf
<1>5. CASE FoldersListed
  <2>1. /\ UNCHANGED <<project, rootpath, folderVars>> /\ phase = "folders" /\ phase' = "pages"
        /\ at = NoFolder /\ todo' = folders \cup {NoFolder}
    BY <1>5 DEF FoldersListed, inputVars
  <2> QED
    BY <2>1 DEF ListedInv, File, PageOf, folderVars
<1>6. CASE DirectoryPagesWritten \/ SymbolPagesWritten
  BY <1>1, <1>6 DEF DirectoryPagesWritten, SymbolPagesWritten, inputVars
<1>7. ASSUME NEW dir \in todo, ThrowOutOfRange(dir) PROVE ListedInv'
  BY <1>1, <1>7 DEF ThrowOutOfRange, inputVars
<1>8. ASSUME NEW d \in folders \cup {NoFolder}, ~RootIsSlash PROVE IsRelative(d)
  BY <1>8, NoneIsRelative, ExporterAssumption DEF FoldersAreBases, IsBase
<1>9. ASSUME NEW dir \in todo, WriteDirectoryPage(dir) PROVE ListedInv'
  <2> DEFINE page == In(dir, Index)
             links == FolderLinks(dir) \cup FileLinks(page, Contained(dir))
  <2>1. /\ UNCHANGED <<phase, project, rootpath, paths, folderVars>> /\ phase = "pages"
        /\ WriteFile(page, links) /\ todo' = todo \ {dir}
    BY <1>9 DEF WriteDirectoryPage, inputVars
  <2>2. dir \in folders \cup {NoFolder}
    BY <2>1 DEF ThrowInv
  <2>3. HasListing(dir)'
    <3>1. page \in DOMAIN disk' /\ disk'[page] = links
      BY <2>1, Written, Zenon
    <3>2. FolderLinks(dir)' = FolderLinks(dir) /\ Contained(dir)' = Contained(dir)
      BY <2>1, SameListing
    <3>3. ASSUME NEW f \in Contained(dir) PROVE \E link \in links : link.kind = "file" /\ link.to = f
      <4> DEFINE link == [kind |-> "file", to |-> f, href |-> LinkTo(page, PageOf(f))]
      <4>1. link \in links
        BY DEF FileLinks
      <4>2. link.kind = "file" /\ link.to = f
        OBVIOUS
      <4> QED
        BY <4>1, <4>2
    <3> QED
      BY <3>1, <3>2, <3>3 DEF HasListing
  <2>4. ASSUME NEW d \in (folders \cup {NoFolder}) \ todo, ~RootIsSlash PROVE HasListing(d)'
    <3>1. HasListing(d)
      BY <2>1, <2>4 DEF ListedInv
    <3>2. IsRelative(d) /\ IsRelative(dir) /\ Index \in Name /\ d # dir
      BY <1>8, <2>2, <2>4, Chars
    <3>3. In(d, Index) # page
      BY <3>2, InSame
    <3> HIDE DEF page, links
    <3> QED
      BY <2>1, <3>1, <3>3, PageStays
  <2>5. ASSUME ~RootIsSlash', NEW d \in (folders' \cup {NoFolder}) \ todo' PROVE HasListing(d)'
    <3>1. ~RootIsSlash /\ d \in folders \cup {NoFolder} /\ (d = dir \/ d \notin todo)
      BY <2>1, <2>5 DEF RootIsSlash, folderVars
    <3> HIDE DEF page, links
    <3> QED
      BY <2>3, <2>4, <3>1
  <2> HIDE DEF page, links
  <2> QED
    BY <2>1, <2>5 DEF ListedInv, File, PageOf, folderVars
<1>10. CASE WriteSymbolPage
  <2> DEFINE t == Symbols[nbSymbols + 1]
             page == SymbolPage(t)
             links == MentionLinks(page) \cup RelatedSymbols
  <2>1. /\ UNCHANGED <<phase, project, rootpath, paths, folderVars, todo>> /\ phase = "symbols"
        /\ WriteFile(page, links)
    BY <1>10 DEF WriteSymbolPage, inputVars
  <2>2. t \in Range(Symbols)
    <3>1. Symbols \in Seq(Seq(Char \ {".html"})) /\ nbSymbols < Len(Symbols)
      BY <1>10, ExporterAssumption DEF WriteSymbolPage
    <3>2. nbSymbols + 1 \in 1..Len(Symbols) /\ DOMAIN Symbols = 1..Len(Symbols)
      BY <3>1 DEF LinksInv
    <3> QED
      BY <3>2 DEF Range
  <2>3. ASSUME NEW d \in folders \cup {NoFolder}, d \notin todo, ~RootIsSlash PROVE HasListing(d)'
    <3>1. HasListing(d)
      BY <2>1, <2>3 DEF ListedInv
    <3>2. In(d, Index) # page
      BY <1>8, <2>2, <2>3, IndexIsNoPage
    <3> HIDE DEF page, links
    <3> QED
      BY <2>1, <3>1, <3>2, PageStays
  <2> HIDE DEF page, links
  <2> QED
    BY <2>1, <2>3 DEF ListedInv, File, PageOf, RootIsSlash, folderVars
<1>11. CASE UNCHANGED exportVars
  BY <1>1, <1>11 DEF exportVars, inputVars
<1> QED
  BY <1>2, <1>3, <1>4, <1>5, <1>6, <1>7, <1>9, <1>10, <1>11 DEF ExportNext

(* Every folder around a listed one is listed once the walk is over. *)
LEMMA AncestorsListed ==
    ASSUME ExportInv, at = NoFolder, NEW e \in folders, IsRelative(e),
           NEW d \in Folder, IsPrefix(Names(d), Names(e))
    PROVE  d \in folders
<1> DEFINE Around2(p) == p \in folders => \A x \in Folder : IsPrefix(Names(x), Names(p)) => x \in folders
           T == {p \in Seq(Char) : Around2(p)}
           Part == Seq(Char)
<1>1. NoFolder = <<>> /\ NoFolder \notin Folder /\ folders \subseteq Folder
  BY ExporterAssumption, FoldersAssumption DEF ExportInv, FoldersInv, FoldersTypeOK
<1>2. <<>> \in T
  BY <1>1
<1>3. ASSUME NEW p \in Seq(Char), IsRelative(p), p # <<>>, ParentPath(p) \in T PROVE p \in T
  <2> DEFINE q == ParentPath(p)
             m == LastName(p)
  <2>1. IsRelative(q) /\ q \in Seq(Char) /\ m \in Name /\ Names(p) = Append(Names(q), m)
    BY <1>3, RelativeHalved
  <2>2. m \in Part
    BY <2>1, Chars DEF Name
  <2>3. IsTidy(p) /\ IsTidy(q)
    BY <1>3, <2>1 DEF IsRelative
  <2>4. Around2(q)
    BY <1>3
  <2>5. ASSUME p \in folders, NEW x \in Folder, IsPrefix(Names(x), Names(p)) PROVE x \in folders
    <3> DEFINE s == Names(x)
               t == Names(q)
               u == Names(p)
    <3>1. IsTidy(x) /\ x \in Seq(Char) /\ x # <<>>
      BY <1>1, ExporterAssumption DEF IsTidy
    <3>2. s \in Seq(Part) /\ t \in Seq(Part) /\ u \in Seq(Part) /\ u = Append(t, m)
      BY <1>3, <2>1, <3>1, NamesType
    <3>3. IsPrefix(s, u)
      BY <2>5
    <3>4. (s = u => x = p) /\ (s = t => x = q)
      BY <2>3, <3>1, NamesAreDistinct
    <3> HIDE DEF s, t, u, Part, q, m
    <3>5. Len(s) <= Len(u) /\ \A k \in 1..Len(s) : s[k] = u[k]
      <4>1. s \in Seq(Part) /\ u \in Seq(Part)
        BY <3>2
      <4> QED
        BY <3>3, <4>1, PrefixIs
    <3>6. Len(u) = Len(t) + 1 /\ \A k \in 1..Len(t) : u[k] = t[k]
      BY <2>2, <3>2, Appended
    <3>7. CASE Len(s) = Len(u)
      <4>1. s = u
        BY <3>2, <3>5, <3>7, SeqEqual
      <4> QED
        BY <2>5, <3>4, <4>1
    <3>8. CASE Len(s) # Len(u)
      <4>1. Len(s) <= Len(t) /\ \A k \in 1..Len(s) : s[k] = t[k]
        BY <3>2, <3>5, <3>6, <3>8
      <4>2. IsPrefix(s, t)
        BY <3>2, <4>1, PrefixIs
      <4>3. q # <<>>
        <5>1. SUFFICES ASSUME q = <<>> PROVE FALSE
          OBVIOUS
        <5>2. t = <<>>
          BY <5>1, NamesOfRoots DEF t
        <5>3. s = t
          BY <3>2, <4>1, <5>2
        <5> QED
          BY <3>1, <3>4, <5>1, <5>3
      <4>4. q \in folders
        <5>1. Parent(p) = q /\ ~Missing(p)
          BY <1>1, <2>5, ExporterAssumption DEF ExportInv, FoldersInv, Passed, q
        <5> QED
          BY <1>1, <4>3, <5>1 DEF Missing
      <4> QED
        BY <2>4, <4>2, <4>4 DEF s, t
    <3> QED
      BY <3>7, <3>8
  <2> QED
    BY <1>3, <2>5
<1> HIDE DEF T
<1>4. \A p : IsRelative(p) => p \in T
  BY <1>2, <1>3, RelativeByInduction
<1>5. e \in T
  BY <1>4
<1> QED
  BY <1>5 DEF T

(* The page of a folder leads to that of a folder in it: the names are those behind the folder. *)
LEMMA DownToFolder ==
    ASSUME NEW d, IsRelative(d), NEW own, IsRelative(own), NEW x \in Seq(Char), x # <<>>,
           Names(x) \in Seq(Name), Names(own) = Names(d) \o Names(x)
    PROVE  Follow(Names(In(d, Index)), Names(x \o <<"/">> \o Index)) = Names(In(own, Index))
<1> DEFINE b == Names(d)
           page == Names(In(d, Index))
           n == Names(x)
           r == Append(n, Index)
<1>1. Index \in Name /\ "/" \in Char /\ x \in Seq(Char) /\ b \in Seq(Name) /\ n \in Seq(Name)
  BY Chars, NamesAreNames
<1>2. Front(page) = b
  <2>1. Index \in Name
    BY <1>1
  <2> QED
    BY <2>1, InFolder
<1>3. Names(In(own, Index)) = Append(b \o n, Index)
  <2>1. Index \in Name
    BY <1>1
  <2>2. Names(In(own, Index)) = Append(Names(own), Index)
    BY <2>1, InFolder, Zenon
  <2> QED
    BY <2>2
<1>4. x \o <<"/">> = Append(x, "/")
  BY <1>1, AppendIsConcat
<1>5. Names(x \o <<"/">> \o Index) = r
  BY <1>1, <1>4, NamesInFolder, Zenon
<1> HIDE DEF b, page, n
<1>6. r \in Seq(Name) /\ r # <<>>
  <2>1. n \in Seq(Name) /\ Index \in Name
    BY <1>1
  <2> QED
    BY <2>1, FrontAndLast, Appended
<1>7. b \o r = Append(b \o n, Index)
  BY <1>1, AppendBehind
<1> HIDE DEF r
<1>8. Follow(page, r) = b \o r
  BY <1>1, <1>2, <1>6, DownLeads, Zenon
<1> QED
  BY <1>3, <1>5, <1>7, <1>8 DEF page

ListedThere(f, d) ==
    LET own == ParentPath(paths[f])
    IN  /\ In(d, Index) \in DOMAIN disk
        /\ \E link \in disk[In(d, Index)] :
              \/ link.kind = "file" /\ link.to = f
              \/ d # own /\ Follow(Names(In(d, Index)), link.href) = Names(In(own, Index))

(* The page of the folder above a file's lists the file or leads to the page of its folder. *)
LEMMA LeadsToFolder ==
    ASSUME NEW f \in File, NEW d, IsRelative(d), HasListing(d), f \in Nested(d),
           IsRelative(ParentPath(paths[f])), d # ParentPath(paths[f]),
           FolderName(d, f) # <<>>, FolderName(d, f) \in Seq(Char), Names(FolderName(d, f)) \in Seq(Name),
           Names(ParentPath(paths[f])) = Names(d) \o Names(FolderName(d, f))
    PROVE  ListedThere(f, d)
<1> DEFINE own == ParentPath(paths[f])
           x == FolderName(d, f)
           link == [kind |-> "folder", to |-> In(own, Index), href |-> Names(x \o <<"/">> \o Index)]
<1>1. link \in FolderLinks(d)
  BY DEF FolderLinks, LinksToFolders
<1>2. In(d, Index) \in DOMAIN disk /\ link \in disk[In(d, Index)]
  BY <1>1 DEF HasListing
<1>3. link.href = Names(x \o <<"/">> \o Index)
  OBVIOUS
<1>4. Follow(Names(In(d, Index)), Names(x \o <<"/">> \o Index)) = Names(In(own, Index))
  <2> HIDE DEF own, x
  <2>1. x \in Seq(Char) /\ x # <<>> /\ Names(x) \in Seq(Name) /\ Names(own) = Names(d) \o Names(x)
        /\ IsRelative(own)
    BY DEF x, own
  <2> QED
    BY <2>1, DownToFolder, Zenon
<1> HIDE DEF x, link
<1> QED
  BY <1>2, <1>3, <1>4 DEF ListedThere

(* A folder whose names are the first ones of another's: that one is behind it. *)
LEMMA NamesBehind ==
    ASSUME NEW p, IsRelative(p), NEW d, IsTidy(d), d # <<>>, d # p, IsPrefix(Names(d), Names(p))
    PROVE  IsBehind(p, d)
<1> DEFINE s == Names(d)
           u == Names(p)
           n == Len(s)
           Part == Seq(Char)
<1>1. s \in Seq(Part) /\ u \in Seq(Part) /\ s # u
  <2>1. d \in Seq(Char) /\ p \in Seq(Char) /\ IsTidy(p)
    BY DEF IsRelative, IsTidy
  <2> QED
    BY <2>1, NamesType, NamesAreDistinct
<1>2. IsPrefix(s, u)
  OBVIOUS
<1> HIDE DEF s, u, Part
<1>3. n <= Len(u) /\ \A k \in 1..n : s[k] = u[k]
  <2>1. s \in Seq(Part) /\ u \in Seq(Part)
    BY <1>1
  <2> QED
    BY <1>2, <2>1, PrefixIs
<1>4. n # Len(u)
  BY <1>1, <1>3, SeqEqual
<1>5. n \in Nat /\ StartsWith(u, s, n)
  BY <1>1, <1>3, <1>4 DEF StartsWith
<1>6. PICK k \in Nat : StartsWith(Names(p), Names(d), k)
  BY <1>5 DEF s, u
<1> QED
  BY <1>6, BehindFolder

LEMMA ListedThen == ExportInv /\ ThrowInv /\ FoldersAreBases /\ ListedInv => ListedFromAbove
<1> SUFFICES ASSUME ExportInv, ThrowInv, FoldersAreBases, ListedInv,
                    phase \in {"symbols", "done"}, ~RootIsSlash,
                    NEW f \in File, ParentPath(paths[f]) # NoFolder, NEW d \in Around(paths[f])
             PROVE  ListedThere(f, d)
  BY DEF ListedFromAbove, ListedThere
<1> DEFINE p == paths[f]
           own == ParentPath(p)
<1>1. NoFolder = <<>> /\ at = NoFolder
  BY ExporterAssumption DEF ListedInv
<1>2. /\ p = PageOf(f) /\ IsRelative(p) /\ p # <<>> /\ own # <<>> /\ IsRelative(own)
      /\ own \in folders /\ Len(own) \in Nat /\ Len(p) \in Nat /\ own \in Seq(Char)
      /\ Front(Names(p)) = Names(own)
  <2>1. p = PageOf(f)
    BY ProjectIsList DEF ThrowInv, ExportInv, PathsInv
  <2>2. IsRelative(p) /\ p # <<>>
    BY <2>1, FilePages
  <2>3. own \in folders /\ own # <<>>
    BY <1>1, <2>1 DEF ListedInv
  <2>4. IsRelative(own) /\ own \in Seq(Char) /\ Len(own) \in Nat /\ Len(p) \in Nat /\ Front(Names(p)) = Names(own)
    <3> HIDE DEF p
    <3> QED
      BY <2>2, RelativeHalved DEF own
  <2> QED
    BY <2>1, <2>2, <2>3, <2>4
<1>3. /\ Len(own) < Len(p) /\ IsPrefix(own, p) /\ {h \in Slashes(p) : h > Len(own)} = {Len(own) + 1}
  <2> HIDE DEF p
  <2> QED
    BY <1>2, OwnFolder DEF own
<1>4. /\ d \in Folder \cup {NoFolder} /\ IsPrefix(Names(d), Names(own)) /\ d \in Seq(Char) /\ IsTidy(d)
  <2>1. IsPrefix(Names(d), Front(Names(p))) /\ d \in Folder \cup {NoFolder}
    BY DEF Around
  <2>2. IsTidy(d)
    BY <1>1, <2>1, ExporterAssumption, NoneIsRelative DEF IsRelative
  <2> QED
    BY <1>2, <2>1, <2>2 DEF IsTidy
<1>5. d \in folders \cup {NoFolder}
  <2>1. CASE d = NoFolder
    BY <2>1
  <2>2. CASE d \in Folder
    <3> HIDE DEF own, p
    <3> QED
      BY <1>1, <1>2, <1>4, <2>2, AncestorsListed
  <2> QED
    BY <1>4, <2>1, <2>2
<1>6. HasListing(d) /\ IsRelative(d)
  BY <1>1, <1>5, NoneIsRelative DEF ListedInv, FoldersAreBases, IsBase
<1>7. ASSUME f \in Contained(d) PROVE ListedThere(f, d)
  BY <1>6, <1>7 DEF HasListing, ListedThere
<1>8. CASE d = own
  <2>1. f \in Matching(d)
    BY <1>3, <1>8 DEF Matching
  <2>2. Depth(d, f) = Cardinality({h \in Slashes(p) : h > Len(own)})
    BY <1>8 DEF Depth
  <2>3. Cardinality({Len(own) + 1}) = 1
    BY FS_Singleton, Zenon
  <2>4. f \in Contained(d)
    BY <1>3, <2>1, <2>2, <2>3, Zenon DEF Contained
  <2> QED
    BY <1>7, <2>4
<1>9. CASE d = <<>>
  <2>1. f \in Matching(d)
    <3>1. Len(d) = 0 /\ 0 < Len(p) /\ d \in Seq(Char) /\ p \in Seq(Char)
      BY <1>2, <1>4, <1>9 DEF IsRelative, IsTidy
    <3>2. IsPrefix(d, p)
      <4> HIDE DEF p
      <4>1. d \in Seq(Char) /\ p \in Seq(Char)
        BY <3>1
      <4>2. Len(d) <= Len(p) /\ \A k \in 1..Len(d) : d[k] = p[k]
        BY <3>1
      <4> QED
        BY <4>1, <4>2, PrefixIs
    <3> QED
      BY <3>1, <3>2 DEF Matching
  <2>2. ASSUME f \in Nested(d) PROVE ListedThere(f, d)
    <3>1. FolderName(d, f) = SubSeq(own, 1, Len(own))
      BY <1>9 DEF FolderName, NameStart
    <3>2. SubSeq(own, 1, Len(own)) = own
      BY <1>2
    <3>3. Names(own) \in Seq(Name)
      BY <1>2, NamesAreNames
    <3>4. Names(own) = Names(d) \o Names(own)
      BY <1>9, <3>3, NamesOfRoots
    <3> QED
      BY <1>2, <1>6, <1>9, <2>2, <3>1, <3>2, <3>3, <3>4, LeadsToFolder, Zenon
  <2> QED
    BY <1>7, <2>1, <2>2 DEF Nested
<1>10. CASE d # <<>> /\ d # own
  <2>3. PICK r \in Seq(Char) : /\ r # <<>> /\ own = Append(d, "/") \o r
                               /\ Names(own) = Names(d) \o Names(r) /\ Names(r) \in Seq(Name) \ {<<>>}
    <3> HIDE DEF own
    <3> QED
      BY <1>2, <1>4, <1>10, NamesBehind, Zenon DEF IsBehind
  <2>4. /\ IsPrefix(d, p) /\ Len(d) < Len(p) /\ Cardinality({h \in Slashes(p) : h > Len(d)}) # 1
        /\ SubSeq(own, Len(d) + 2, Len(own)) = r
    <3> HIDE DEF p
    <3>1. IsRelative(p) /\ p # <<>> /\ ParentPath(p) # <<>> /\ d \in Seq(Char) /\ d # <<>>
          /\ ParentPath(p) = Append(d, "/") \o r
      BY <1>2, <1>4, <1>10, <2>3
    <3> QED
      BY <2>3, <3>1, FolderAbove, Zenon
  <2>5. f \in Nested(d)
    BY <2>4 DEF Nested, Contained, Matching, Depth
  <2>6. FolderName(d, f) = r
    BY <1>10, <2>4 DEF FolderName, NameStart
  <2> HIDE DEF own
  <2>7. ListedThere(f, d)
    BY <1>2, <1>6, <1>10, <2>3, <2>5, <2>6, LeadsToFolder, Zenon DEF own
  <2> QED
    BY <2>7
<1> QED
  BY <1>8, <1>9, <1>10

(* Whatever the project: the page of a file is found from every folder around it. *)
THEOREM ListedFromEveryFolder == ExportSpec => []ListedFromAbove
<1> DEFINE Inv == ExportInv /\ ThrowInv /\ FoldersAreBases /\ LinksInv /\ ListedInv
<1>1. ExportInit => Inv
  BY InitExport, InitThrow, InitBases, InitLinks, InitListed
<1>2. Inv /\ [ExportNext]_exportVars => Inv'
  BY NextExport, NextThrow, NextBases, NextLinks, NextListed
<1>3. Inv => ListedFromAbove
  BY ListedThen
<1> QED
  BY <1>1, <1>2, <1>3, PTL DEF ExportSpec
-----------------------------------------------------------------------------
(* THE TABLE OF DEFINITIONS. *)

Ordered(list) == \A j, k \in DOMAIN list : j < k => list[j].symbol <= list[k].symbol

(* an entry is the place of the first definition of its symbol *)
EntryRight(id) ==
    table[id] # NoEntry =>
        /\ table[id] \in DOMAIN definitions
        /\ definitions[table[id]].symbol = id
        /\ \A k \in DOMAIN definitions : k < table[id] => definitions[k].symbol # id

EntryThere(id) ==
    id < current /\ (\E k \in DOMAIN definitions : definitions[k].symbol = id)
        => table[id] # NoEntry

LoopInv ==
    /\ DOMAIN table = 0..definitions[Len(definitions)].symbol
    /\ start \in DOMAIN definitions /\ start <= i /\ i \in 1..Len(definitions) + 1
    /\ current = definitions[start].symbol
    /\ \A k \in DOMAIN definitions : k < start => definitions[k].symbol < current
    /\ \A k \in DOMAIN definitions : start <= k /\ k < i => definitions[k].symbol = current
    /\ \A id \in DOMAIN table : EntryRight(id) /\ EntryThere(id)

TableInv ==
    /\ pc \in {"empty", "loop", "built"}
    /\ definitions \in Seq(Definition)
    /\ Ordered(definitions)
    /\ pc = "empty" => definitions = <<>>
    /\ definitions = <<>> => table = <<>> /\ i = 1 /\ start = 1 /\ current = 0 /\ pc # "loop"
    /\ definitions # <<>> => LoopInv
    /\ pc = "built" /\ definitions # <<>> => i = Len(definitions) + 1

(* The definitions of a list and their ids. *)
LEMMA ListFacts ==
    ASSUME NEW list \in Seq(Definition)
    PROVE  /\ Len(list) \in Nat /\ DOMAIN list = 1..Len(list)
           /\ list # <<>> => Len(list) \in Nat \ {0} /\ 1 \in DOMAIN list
           /\ \A k \in DOMAIN list : k \in Nat /\ k >= 1 /\ list[k].symbol \in Nat
<1>1. \A k \in DOMAIN list : list[k] \in Definition
  OBVIOUS
<1>2. \A d \in Definition : d.symbol \in Nat
  BY TableAssumption, Zenon DEF Definition
<1> QED
  BY <1>1, <1>2

(* Sorting gives an ordered list of definitions. *)
LEMMA SortedIsOrdered ==
    ASSUME NEW list \in Seq(Definition), NEW sorted \in Sorted(list)
    PROVE  sorted \in Seq(Definition) /\ Ordered(sorted)
<1>1. PICK f \in [DOMAIN list -> DOMAIN list] :
          /\ sorted = [k \in DOMAIN list |-> list[f[k]]]
          /\ \A j, k \in DOMAIN list : j < k => list[f[j]].symbol <= list[f[k]].symbol
  BY DEF Sorted
<1>2. DOMAIN list = 1..Len(list) /\ Len(list) \in Nat
  OBVIOUS
<1>3. \A k \in DOMAIN list : list[f[k]] \in Definition
  BY <1>1
<1>4. sorted \in [1..Len(list) -> Definition]
  BY <1>1, <1>2, <1>3
<1>5. sorted \in Seq(Definition)
  BY <1>2, <1>4
<1>6. Ordered(sorted)
  BY <1>1 DEF Ordered
<1> QED
  BY <1>5, <1>6

(* The initial state. *)
LEMMA InitTable == Init => TableInv
  BY DEF Init, TableInv, Ordered

(* build() up to its loop. *)
LEMMA BuildTable == TableInv /\ Build => TableInv'
<1> SUFFICES ASSUME TableInv, Build PROVE TableInv'
  OBVIOUS
<1>1. PICK list \in Input : definitions' \in Sorted(list)
  BY DEF Build, BuildFrom
<1>2. definitions' \in Seq(Definition) /\ Ordered(definitions')
  BY <1>1, SortedIsOrdered, TableAssumption
<1>3. i' = 1 /\ start' = 1 /\ pc' \in {"loop", "built"}
  BY DEF Build, BuildFrom
<1>4. CASE definitions' = <<>>
  <2>1. table' = <<>> /\ current' = 0 /\ pc' = "built"
    BY <1>4 DEF Build, BuildFrom, TableInv
  <2> QED
    BY <1>2, <1>3, <1>4, <2>1 DEF TableInv, Ordered
<1>5. CASE definitions' # <<>>
  <2>1. /\ pc' = "loop"
        /\ table' = [id \in 0..definitions'[Len(definitions')].symbol |-> NoEntry]
        /\ current' = definitions'[1].symbol
    BY <1>5 DEF Build, BuildFrom
  <2>2. 1 \in DOMAIN definitions' /\ Len(definitions') \in Nat \ {0}
    BY <1>2, <1>5, ListFacts
  <2>3. \A k \in DOMAIN definitions' : definitions'[k].symbol \in Nat /\ k \in Nat /\ k >= 1
    BY <1>2, ListFacts
  <2>4. \A id \in DOMAIN table' : EntryThere(id)' /\ EntryRight(id)'
    <3> SUFFICES ASSUME NEW id \in DOMAIN table' PROVE EntryThere(id)' /\ EntryRight(id)'
      OBVIOUS
    <3>1. table'[id] = NoEntry /\ id \in Nat
      BY <2>1, <2>2, <2>3
    <3>2. \A k \in DOMAIN definitions' : definitions'[1].symbol <= definitions'[k].symbol
      BY <1>2, <2>2, <2>3 DEF Ordered
    <3>3. EntryThere(id)'
      BY <2>1, <2>2, <2>3, <3>1, <3>2 DEF EntryThere
    <3> QED
      BY <3>1, <3>3 DEF EntryRight
  <2>5. LoopInv'
    BY <1>3, <2>1, <2>2, <2>3, <2>4 DEF LoopInv
  <2> QED
    BY <1>2, <1>5, <2>1, <2>5 DEF TableInv
<1> QED
  BY <1>4, <1>5

(* One more definition of the current symbol. *)
LEMMA SameSymbolTable == TableInv /\ SameSymbol => TableInv'
<1> SUFFICES ASSUME TableInv, SameSymbol PROVE TableInv'
  OBVIOUS
<1>1. pc = "loop" /\ definitions # <<>> /\ LoopInv
  BY DEF SameSymbol, TableInv
<1>2. UNCHANGED <<pc, definitions, table, current, start>> /\ i' = i + 1
      /\ i <= Len(definitions) /\ definitions[i].symbol = current
  BY DEF SameSymbol
<1>3. \A id \in DOMAIN table : EntryRight(id)' /\ EntryThere(id)'
  BY <1>1, <1>2 DEF LoopInv, EntryRight, EntryThere
<1>4. Len(definitions) \in Nat /\ DOMAIN definitions = 1..Len(definitions)
  BY DEF TableInv
<1>5. LoopInv'
  BY <1>1, <1>2, <1>3, <1>4 DEF LoopInv
<1> QED
  BY <1>1, <1>2, <1>5 DEF TableInv, Ordered

(* The entry of the symbol that ends is set. *)
LEMMA NewSymbolTable == TableInv /\ NewSymbol => TableInv'
<1> SUFFICES ASSUME TableInv, NewSymbol PROVE TableInv'
  OBVIOUS
<1>1. pc = "loop" /\ definitions # <<>> /\ LoopInv /\ Ordered(definitions)
  BY DEF NewSymbol, TableInv
<1>2. /\ UNCHANGED <<pc, definitions>> /\ i' = i + 1 /\ start' = i
      /\ i <= Len(definitions) /\ definitions[i].symbol # current
      /\ table' = [table EXCEPT ![current] = start]
      /\ current' = definitions[i].symbol
  BY DEF NewSymbol
<1>3. /\ Len(definitions) \in Nat /\ DOMAIN definitions = 1..Len(definitions)
      /\ \A k \in DOMAIN definitions : definitions[k].symbol \in Nat
  BY ListFacts DEF TableInv
<1>4. i \in DOMAIN definitions /\ start < i
  BY <1>1, <1>2, <1>3 DEF LoopInv
<1>5. \A k \in DOMAIN definitions : k < i => definitions[k].symbol <= current
  BY <1>1, <1>3 DEF LoopInv
<1>6. current < definitions[i].symbol
  BY <1>1, <1>2, <1>3, <1>4 DEF LoopInv, Ordered
<1>7. \A k \in DOMAIN definitions : k >= i => definitions[k].symbol >= definitions[i].symbol
  BY <1>1, <1>3, <1>4 DEF Ordered
<1>8. current \in DOMAIN table /\ DOMAIN table' = DOMAIN table
  BY <1>1, <1>2, <1>3, <1>4, <1>6, <1>7 DEF LoopInv
<1>9. ASSUME NEW id \in DOMAIN table'
      PROVE  EntryRight(id)' /\ EntryThere(id)'
  <2>1. id \in DOMAIN table /\ EntryRight(id) /\ EntryThere(id) /\ id \in Nat
    BY <1>1, <1>3, <1>8, <1>9 DEF LoopInv
  <2>2. CASE id = current
    <3>1. table'[id] = start /\ start \in DOMAIN definitions /\ start # NoEntry
      BY <1>1, <1>2, <1>3, <1>8, <2>2 DEF LoopInv, NoEntry
    <3> QED
      BY <1>1, <1>2, <1>3, <2>2, <3>1 DEF LoopInv, EntryRight, EntryThere
  <2>3. CASE id # current
    <3>1. table'[id] = table[id]
      BY <1>2, <1>8, <1>9, <2>3
    <3>2. EntryRight(id)'
      BY <1>2, <2>1, <3>1 DEF EntryRight
    <3>3. EntryThere(id)'
      <4> SUFFICES ASSUME id < definitions[i].symbol,
                          NEW k \in DOMAIN definitions, definitions[k].symbol = id
                   PROVE  table[id] # NoEntry
        BY <1>2, <3>1 DEF EntryThere
      <4>1. k < i /\ current \in Nat
        BY <1>1, <1>3, <1>4, <1>7 DEF LoopInv
      <4>2. id < current
        BY <1>3, <1>5, <2>3, <4>1
      <4> QED
        BY <2>1, <4>2 DEF EntryThere
    <3> QED
      BY <3>2, <3>3
  <2> QED
    BY <2>2, <2>3
<1>10. LoopInv'
  <2>1. DOMAIN table' = 0..definitions'[Len(definitions')].symbol
    BY <1>1, <1>2, <1>8 DEF LoopInv
  <2>2. start' \in DOMAIN definitions' /\ start' <= i' /\ i' \in 1..Len(definitions') + 1
    BY <1>2, <1>3, <1>4
  <2>3. current' = definitions'[start'].symbol
    BY <1>2
  <2>4. \A k \in DOMAIN definitions' : k < start' => definitions'[k].symbol < current'
    BY <1>1, <1>2, <1>3, <1>4, <1>5, <1>6 DEF LoopInv
  <2>5. \A k \in DOMAIN definitions' : start' <= k /\ k < i' => definitions'[k].symbol = current'
    BY <1>2, <1>3, <1>4
  <2> QED
    BY <1>9, <2>1, <2>2, <2>3, <2>4, <2>5 DEF LoopInv
<1> QED
  BY <1>1, <1>2, <1>10 DEF TableInv

(* The end of the loop, and stuttering. *)
LEMMA EndLoopTable == TableInv /\ EndLoop => TableInv'
  BY DEF TableInv, EndLoop, LoopInv, EntryRight, EntryThere, Ordered

LEMMA StutterTable == TableInv /\ UNCHANGED vars => TableInv'
  BY DEF TableInv, vars, LoopInv, EntryRight, EntryThere, Ordered

(* The invariant of build() holds for every input. *)
THEOREM TableInvariant == Spec => []TableInv
<1>1. TableInv /\ [Next]_vars => TableInv'
  BY BuildTable, SameSymbolTable, NewSymbolTable, EndLoopTable, StutterTable DEF Next
<1> QED
  BY InitTable, <1>1, PTL DEF Spec

(* Every access to m_table and to m_definitions is within bounds. *)
THEOREM TableTypes == Spec => []TypeOK
<1>1. TableInv => TypeOK
  <2> SUFFICES ASSUME TableInv PROVE TypeOK
    OBVIOUS
  <2>1. CASE definitions = <<>>
    BY <2>1 DEF TableInv, TypeOK
  <2>2. CASE definitions # <<>>
    <3>1. /\ Len(definitions) \in Nat \ {0} /\ DOMAIN definitions = 1..Len(definitions)
          /\ \A k \in DOMAIN definitions : definitions[k].symbol \in Nat
      BY <2>2, ListFacts DEF TableInv
    <3>2. LoopInv
      BY <2>2 DEF TableInv
    <3>3. \A k \in DOMAIN definitions : definitions[k].symbol \in DOMAIN table
      <4> SUFFICES ASSUME NEW k \in DOMAIN definitions PROVE definitions[k].symbol \in DOMAIN table
        OBVIOUS
      <4>1. definitions[k].symbol <= definitions[Len(definitions)].symbol
        BY <3>1 DEF TableInv, Ordered
      <4> QED
        BY <3>1, <3>2, <4>1 DEF LoopInv
    <3>4. \A id \in DOMAIN table : table[id] = NoEntry \/ table[id] \in DOMAIN definitions
      BY <3>2 DEF LoopInv, EntryRight
    <3>5. i \in 1..Len(definitions) + 1 /\ start \in Nat /\ current \in Nat
      BY <3>1, <3>2 DEF LoopInv
    <3> QED
      BY <3>3, <3>4, <3>5 DEF TableInv, TypeOK
  <2> QED
    BY <2>1, <2>2
<1> QED
  BY <1>1, TableInvariant, PTL

(* No link is wrong. *)
THEOREM NoWrongLink == Spec => []LinksAreRight
<1>1. TableInv => LinksAreRight
  <2> SUFFICES ASSUME TableInv, pc = "built", NEW id \in SymbolId, HasUniqueDefinition(id)
               PROVE  DefinitionsOf(id) = {table[id]}
    BY DEF LinksAreRight
  <2>1. id \in DOMAIN table /\ table[id] # NoEntry /\ NextIsOther(table[id], id)
    BY DEF HasUniqueDefinition
  <2>2. definitions # <<>> /\ LoopInv
    BY <2>1 DEF TableInv
  <2>3. /\ Len(definitions) \in Nat /\ DOMAIN definitions = 1..Len(definitions)
        /\ \A k \in DOMAIN definitions : definitions[k].symbol \in Nat
    BY ListFacts DEF TableInv
  <2>4. EntryRight(id)
    BY <2>1, <2>2 DEF LoopInv
  <2>5. ASSUME NEW k \in DOMAIN definitions, k > table[id]
        PROVE  definitions[k].symbol # id
    <3>1. table[id] + 1 \in DOMAIN definitions /\ table[id] \in DOMAIN definitions
      BY <2>1, <2>3, <2>4, <2>5 DEF EntryRight
    <3>2. definitions[table[id] + 1].symbol # id
      BY <2>1, <2>3, <2>5 DEF NextIsOther
    <3>3. definitions[table[id] + 1].symbol > id
      BY <2>1, <2>3, <2>4, <3>1, <3>2 DEF EntryRight, TableInv, Ordered
    <3>4. definitions[k].symbol >= definitions[table[id] + 1].symbol
      <4>1. CASE k = table[id] + 1
        BY <2>3, <4>1
      <4>2. CASE k > table[id] + 1
        BY <3>1, <4>2 DEF TableInv, Ordered
      <4> QED
        BY <2>3, <2>5, <3>1, <4>1, <4>2
    <3> QED
      BY <2>3, <3>1, <3>3, <3>4, TableAssumption
  <2> QED
    BY <2>1, <2>3, <2>4, <2>5 DEF DefinitionsOf, EntryRight
<1> QED
  BY <1>1, TableInvariant, PTL

(* No link is missing but that of the highest symbol. *)
THEOREM OnlyTheHighestMissed == Spec => []LinksAreThere
<1>1. TableInv => LinksAreThere
  <2> SUFFICES ASSUME TableInv, pc = "built", NEW id \in SymbolId,
                      NEW k \in DOMAIN definitions, DefinitionsOf(id) = {k},
                      NEW h \in DOMAIN definitions, definitions[h].symbol > id
               PROVE  HasUniqueDefinition(id)
    BY DEF LinksAreThere
  <2>1. /\ Len(definitions) \in Nat /\ DOMAIN definitions = 1..Len(definitions)
        /\ \A j \in DOMAIN definitions : definitions[j].symbol \in Nat
    BY ListFacts DEF TableInv
  <2>2. definitions # <<>> /\ LoopInv /\ i = Len(definitions) + 1
    BY <2>1 DEF TableInv
  <2>3. definitions[h].symbol <= current
    BY <2>1, <2>2 DEF LoopInv
  <2>4. id < current /\ id \in DOMAIN table
    <3>1. current <= definitions[Len(definitions)].symbol
      BY <2>1, <2>2 DEF LoopInv
    <3> QED
      BY <2>1, <2>2, <2>3, <3>1, TableAssumption DEF LoopInv
  <2>5. definitions[k].symbol = id /\ \A j \in DOMAIN definitions : definitions[j].symbol = id => j = k
    BY DEF DefinitionsOf
  <2>6. table[id] # NoEntry /\ table[id] = k
    BY <2>2, <2>4, <2>5 DEF LoopInv, EntryRight, EntryThere
  <2>7. NextIsOther(k, id)
    BY <2>1, <2>5 DEF NextIsOther
  <2> QED
    BY <2>4, <2>6, <2>7 DEF HasUniqueDefinition
<1> QED
  BY <1>1, TableInvariant, PTL
-----------------------------------------------------------------------------
Step == [PagesNext]_<<tableVars, pageVars, symbolVars>>

(* The rows do not change while the snapshot is exported. *)
RowsInv == db \in Database

LEMMA RowsStay == PagesSpec => []RowsInv
<1>1. PagesInit => RowsInv
  BY DEF PagesInit, PageInit, RowsInv
<1>2. RowsInv /\ Step => RowsInv'
  <2> SUFFICES ASSUME RowsInv, Step PROVE db' = db
    BY DEF RowsInv
  <2>1. CASE PageNext
    BY <2>1 DEF PageNext, pageVars, FillTable, Load, Simplify, EraseTail, WriteHead, BeginLine, EndLine,
         WritePage, WriteInclude, WriteReference, ReadPastEnd, WriteToken, MakeCall
  <2>2. CASE SymbolPageNext
    BY <2>2 DEF SymbolPageNext
  <2>3. CASE UNCHANGED <<tableVars, pageVars, symbolVars>>
    BY <2>3 DEF pageVars
  <2> QED
    BY <2>1, <2>2, <2>3 DEF Step, PagesNext
<1> QED
  BY <1>1, <1>2, PTL DEF PagesSpec, Step

(* A step of the exporter is one of the table or leaves the table alone. *)
LEMMA PageStepIsTableStep == RowsInv /\ Step => [Next]_vars
<1> SUFFICES ASSUME RowsInv, Step PROVE [Next]_vars
  OBVIOUS
<1>1. CASE FillTable
  <2>1. DefinitionsIn(db) \in Input
    BY PageAssumption DEF RowsInv
  <2>2. CASE BuildFrom(DefinitionsIn(db))
    BY <2>1, <2>2 DEF Build, Next
  <2>3. CASE SameSymbol \/ NewSymbol \/ EndLoop
    BY <2>3 DEF Next
  <2> QED
    BY <1>1, <2>2, <2>3 DEF FillTable
<1>2. CASE Load \/ Simplify \/ EraseTail
  BY <1>2 DEF Load, Simplify, EraseTail, tableVars
<1>3. CASE WriteHead \/ BeginLine \/ EndLine \/ WritePage \/ MakeCall
  BY <1>3 DEF WriteHead, BeginLine, EndLine, WritePage, MakeCall, tableVars
<1>4. CASE WriteInclude \/ WriteReference \/ ReadPastEnd \/ WriteToken
  BY <1>4 DEF WriteInclude, WriteReference, ReadPastEnd, WriteToken, tableVars
<1>5. CASE SymbolPageNext
  BY <1>5 DEF SymbolPageNext, tableVars
<1>6. CASE UNCHANGED <<tableVars, pageVars, symbolVars>>
  BY <1>6 DEF tableVars
<1> QED
  BY <1>1, <1>2, <1>3, <1>4, <1>5, <1>6 DEF Step, PagesNext, PageNext

(* exporter.cpp builds one table and passes it to every page as a constant: the
   exporter with its pages implements the table alone. *)
THEOREM PagesImplementTable == PagesSpec => Spec
<1>1. PagesInit => Init
  BY DEF PagesInit, PageInit
<1> QED
  BY <1>1, RowsStay, PageStepIsTableStep, PTL DEF PagesSpec, Spec, Step

(* While pages are written, hasUniqueDefinition() only gives the one definition of
   a symbol. *)
THEOREM PageLinksAreRight == PagesSpec => []LinksAreRight
  BY PagesImplementTable, NoWrongLink, PTL
-----------------------------------------------------------------------------
(* where a reference is in its file, and the orders its references may be in *)
Spot(r) == <<r.line, r.col>>

LineOrder == {p \in (Nat \X Nat) \X (Nat \X Nat) : p[1][1] <= p[2][1]}

PlaceOrder ==
    {p \in (Nat \X Nat) \X (Nat \X Nat) :
        p[1][1] < p[2][1] \/ (p[1][1] = p[2][1] /\ p[1][2] <= p[2][2])}

InOrder(R, list) == \A j, k \in DOMAIN list : j < k => <<Spot(list[j]), Spot(list[k])>> \in R

(* the rows of the page's file come in this order, as a unit brings them *)
PageInOrder(R, rows) ==
    \A j, k \in DOMAIN rows :
        j < k /\ rows[j].file = Page /\ rows[k].file = Page => <<Spot(rows[j]), Spot(rows[k])>> \in R

(* Sorting loses no definition. *)
LEMMA SortedHasAll ==
    ASSUME NEW list \in Seq(Definition), NEW sorted \in Sorted(list), NEW k \in DOMAIN list
    PROVE  \E j \in DOMAIN sorted : sorted[j] = list[k]
<1>1. PICK f \in [DOMAIN list -> DOMAIN list] :
          /\ sorted = [j \in DOMAIN list |-> list[f[j]]]
          /\ \A i1, i2 \in DOMAIN list : i1 # i2 => f[i1] # f[i2]
  BY DEF Sorted
<1>2. DOMAIN list = 1..Len(list) /\ Len(list) \in Nat
  OBVIOUS
<1>3. IsFiniteSet(DOMAIN list)
  BY <1>2, FS_Interval
<1>4. f \in Injection(DOMAIN list, DOMAIN list)
  BY <1>1 DEF Injection, IsInjective
<1>5. f \in Surjection(DOMAIN list, DOMAIN list)
  BY <1>3, <1>4, FS_Injection
<1>6. PICK j \in DOMAIN list : f[j] = k
  BY <1>5 DEF Surjection
<1> QED
  BY <1>1, <1>6

(* What is selected of the rows of a page is one of them, and they stay in their order. *)
LEMMA SelectionInOrder ==
    ASSUME NEW R, NEW S, NEW rows \in Seq(Row), PageInOrder(R, rows)
    PROVE  Selected(S, rows) \in Seq(Row) /\ PageInOrder(R, Selected(S, rows))
<1> DEFINE list == Selected(S, rows)
<1>1. list \in Seq(Row)
  <2>1. list \in Seq(Row \cap S)
    BY SelectedType
  <2> QED
    BY <2>1
<1>2. PICK f \in [DOMAIN list -> DOMAIN rows] :
          /\ \A j \in DOMAIN list : list[j] = rows[f[j]]
          /\ \A j, k \in DOMAIN list : j < k => f[j] < f[k]
  BY SelectedFrom
<1> HIDE DEF list
<1>3. PageInOrder(R, list)
  BY <1>2 DEF PageInOrder
<1> QED
  BY <1>1, <1>3 DEF list

(* remove_implicit_references leaves rows of the file, by their lines. *)
LEMMA LoadedInOrder ==
    ASSUME NEW R, NEW rows \in Seq(Row), PageInOrder(R, rows)
    PROVE  Explicit(InPage(rows)) \in Seq(Row) /\ InOrder(R, Explicit(InPage(rows)))
<1> DEFINE P == {row \in Range(rows) : row.file = Page}
           list == Selected(P, rows)
           E == {row \in Range(list) : "implicit" \notin row.flags}
           rest == Selected(E, list)
<1>1. list \in Seq(Row) /\ PageInOrder(R, list)
  BY SelectionInOrder
<1>2. \A j \in DOMAIN list : list[j].file = Page
  <2>1. list \in Seq(Row \cap P)
    BY SelectedType
  <2>2. \A j \in DOMAIN list : list[j] \in P
    BY <2>1
  <2> QED
    BY <2>2
<1> HIDE DEF P, list
<1>3. rest \in Seq(Row) /\ PageInOrder(R, rest)
  BY <1>1, SelectionInOrder
<1>4. PICK f \in [DOMAIN rest -> DOMAIN list] : \A j \in DOMAIN rest : rest[j] = list[f[j]]
  <2>1. \E f \in [DOMAIN rest -> DOMAIN list] :
            /\ \A j \in DOMAIN rest : rest[j] = list[f[j]]
            /\ \A j, k \in DOMAIN rest : j < k => f[j] < f[k]
    BY <1>1, SelectedFrom, Zenon
  <2> HIDE DEF rest
  <2> QED
    BY <2>1
<1>5. Explicit(InPage(rows)) = rest
  BY DEF Explicit, InPage, list, P
<1> HIDE DEF rest
<1>6. \A j \in DOMAIN rest : rest[j].file = Page
  BY <1>2, <1>4
<1>7. InOrder(R, rest)
  BY <1>3, <1>6 DEF InOrder, PageInOrder
<1> QED
  BY <1>3, <1>5, <1>7
-----------------------------------------------------------------------------
(* what the loop of simplify_ctor_and_class_references has kept or has still to look at *)
Standing(k) == k < write \/ read <= k

ListInv(R) ==
    /\ step = "load" => read = 1 /\ write = 1
    /\ step # "load" => references \in Seq(Row)
    /\ step = "simplify" =>
          /\ write \in 1..read /\ read \in 1..Len(references) + 1
          /\ \A j, k \in DOMAIN references :
                j < k /\ Standing(j) /\ Standing(k) => <<Spot(references[j]), Spot(references[k])>> \in R
    /\ step \notin {"load", "simplify"} => InOrder(R, references)

(* std::copy moves what an iteration keeps to where it writes, and nothing passes
   anything else. *)
LEMMA KeepInOrder ==
    ASSUME NEW R, NEW list \in Seq(Row), NEW limit, NEW next,
           ListInv(R), step = "simplify", step' = "simplify",
           Len(list) = Len(references),
           \A k \in DOMAIN list : Spot(list[k]) = Spot(references[k]),
           limit \in read..Len(references) + 1, next \in limit..limit + 1, next \in 1..Len(references) + 1,
           Keep(list, limit, next)
    PROVE  ListInv(R)'
<1>1. /\ Len(list) \in Nat /\ DOMAIN list = 1..Len(list) /\ DOMAIN references = DOMAIN list
      /\ write \in 1..read /\ read \in 1..Len(list) + 1 /\ limit \in Nat /\ next \in Nat
  BY DEF ListInv
<1>2. references' = Copied(list, read, limit) /\ write' = write + (limit - read) /\ read' = next
  BY DEF Keep
<1> DEFINE from(k) == IF k \in write..write + (limit - read) - 1 THEN read + (k - write) ELSE k
<1>3. \A k \in DOMAIN list : from(k) \in DOMAIN list
  BY <1>1
<1>4. references' = [k \in DOMAIN list |-> list[from(k)]]
  BY <1>2 DEF Copied
<1>5. references' \in [1..Len(list) -> Row]
  BY <1>1, <1>3, <1>4
<1>6. references' \in Seq(Row) /\ Len(references') = Len(list) /\ DOMAIN references' = DOMAIN list
  BY <1>1, <1>5
<1>7. \A k \in DOMAIN list : Standing(k)' => Standing(from(k))
  BY <1>1, <1>2 DEF Standing
<1>8. \A j, k \in DOMAIN list : j < k /\ Standing(j)' /\ Standing(k)' => from(j) < from(k)
  <2> SUFFICES ASSUME NEW j \in DOMAIN list, NEW k \in DOMAIN list, j < k, Standing(j)', Standing(k)'
               PROVE  from(j) < from(k)
    OBVIOUS
  <2>1. /\ j \in Nat /\ k \in Nat /\ write \in Nat /\ read \in Nat /\ write <= read /\ read <= limit
        /\ limit <= next
    BY <1>1
  <2>2. (j < write + (limit - read) \/ next <= j) /\ (k < write + (limit - read) \/ next <= k)
    BY <1>2 DEF Standing
  <2>3. CASE k < write + (limit - read)
    BY <2>1, <2>3
  <2>4. CASE next <= k
    BY <2>1, <2>2, <2>4
  <2> QED
    BY <2>2, <2>3, <2>4
<1> HIDE DEF from
<1>9. ASSUME NEW j \in DOMAIN list, NEW k \in DOMAIN list, j < k, Standing(j)', Standing(k)'
      PROVE  <<Spot(references'[j]), Spot(references'[k])>> \in R
  <2>1. from(j) < from(k) /\ Standing(from(j)) /\ Standing(from(k))
    BY <1>7, <1>8, <1>9
  <2>2. <<Spot(references[from(j)]), Spot(references[from(k)])>> \in R
    BY <1>1, <1>3, <2>1 DEF ListInv
  <2> QED
    BY <1>3, <1>4, <2>2, Zenon
<1>10. write' \in 1..read' /\ read' \in 1..Len(references') + 1
  BY <1>1, <1>2, <1>6
<1> QED
  BY <1>6, <1>9, <1>10 DEF ListInv

LEMMA SimplifyInOrder ==
    ASSUME NEW R
    PROVE  ListInv(R) /\ Simplify => ListInv(R)'
<1> SUFFICES ASSUME ListInv(R), Simplify PROVE ListInv(R)'
  OBVIOUS
<1>1. step = "simplify" /\ step' = "simplify" /\ read <= Len(references) /\ references \in Seq(Row)
  BY DEF Simplify, ListInv
<1>2. Len(references) \in Nat /\ DOMAIN references = 1..Len(references) /\ read \in 1..Len(references)
  BY <1>1 DEF ListInv
<1>3. CASE Adjacent = {}
  <2>1. Keep(references, Len(references) + 1, Len(references) + 1)
    BY <1>3 DEF Simplify
  <2> QED
    BY <1>1, <1>2, <2>1, KeepInOrder
<1>4. CASE Adjacent # {}
  <2> DEFINE it == Min(Adjacent)
             list == IF Swaps(references[it], references[it + 1]) THEN Swapped(references, it)
                     ELSE references
  <2>1. \/ Keep(list, it, it + 1)
        \/ Keep(references, it + 1, it + 1)
    BY <1>4 DEF Simplify
  <2>2. Adjacent \subseteq Nat
    BY <1>2 DEF Adjacent
  <2>3. it \in Adjacent
    BY <1>4, <2>2, Least, Zenon DEF Min
  <2> HIDE DEF it
  <2>4. /\ it \in read..Len(references) - 1 /\ it \in DOMAIN references /\ it + 1 \in DOMAIN references
        /\ Spot(references[it]) = Spot(references[it + 1])
    BY <1>2, <2>3 DEF Adjacent, SamePlace, Spot
  <2>5. /\ Swapped(references, it) \in Seq(Row) /\ Len(Swapped(references, it)) = Len(references)
        /\ \A k \in DOMAIN references : Spot(Swapped(references, it)[k]) = Spot(references[k])
    BY <1>1, <1>2, <2>4 DEF Swapped
  <2>6. /\ list \in Seq(Row) /\ Len(list) = Len(references)
        /\ \A k \in DOMAIN list : Spot(list[k]) = Spot(references[k])
    BY <1>1, <2>5
  <2> HIDE DEF list
  <2>7. CASE Keep(list, it, it + 1)
    <3>1. it \in read..Len(references) + 1 /\ it + 1 \in it..it + 1 /\ it + 1 \in 1..Len(references) + 1
      BY <1>2, <2>4
    <3> QED
      BY <1>1, <2>6, <2>7, <3>1, KeepInOrder
  <2>8. CASE Keep(references, it + 1, it + 1)
    BY <1>1, <1>2, <2>4, <2>8, KeepInOrder
  <2> QED
    BY <2>1, <2>7, <2>8
<1> QED
  BY <1>3, <1>4

LEMMA EraseInOrder ==
    ASSUME NEW R
    PROVE  ListInv(R) /\ EraseTail => ListInv(R)'
<1> SUFFICES ASSUME ListInv(R), EraseTail PROVE ListInv(R)'
  OBVIOUS
<1>1. /\ step = "simplify" /\ step' = "head" /\ references \in Seq(Row)
      /\ references' = SubSeq(references, 1, write - 1)
      /\ write \in 1..Len(references) + 1 /\ Len(references) \in Nat
  BY DEF EraseTail, ListInv
<1> DEFINE kept == SubSeq(references, 1, write - 1)
<1>2. /\ kept \in Seq(Row) /\ DOMAIN kept = 1..write - 1
      /\ \A k \in 1..write - 1 : kept[k] = references[k] /\ k \in DOMAIN references
  BY <1>1
<1> HIDE DEF kept
<1>3. InOrder(R, kept)
  BY <1>1, <1>2 DEF InOrder, ListInv, Standing
<1> QED
  BY <1>1, <1>2, <1>3 DEF ListInv, kept
-----------------------------------------------------------------------------
(* std::find_if finds the first line that is not before l, if there is one. *)
LEMMA FindFromFinds ==
    ASSUME NEW lines \in Seq(Nat), NEW k \in 1..Len(lines) + 1, NEW l \in Nat
    PROVE  LET first == FindFrom(lines, k, l)
           IN  /\ first \in k..Len(lines) + 1
               /\ first <= Len(lines) => lines[first] >= l
               /\ \A j \in k..first - 1 : lines[j] < l
<1> DEFINE found == {j \in k..Len(lines) : lines[j] >= l}
<1>1. Len(lines) \in Nat /\ DOMAIN lines = 1..Len(lines) /\ \A j \in DOMAIN lines : lines[j] \in Nat
  OBVIOUS
<1>2. CASE found = {}
  BY <1>1, <1>2 DEF FindFrom
<1>3. CASE found # {}
  <2>1. Min(found) \in found /\ \A j \in found : Min(found) <= j
    <3>1. found \subseteq Nat
      BY <1>1
    <3> HIDE DEF found
    <3> QED
      BY <1>3, <3>1, Least, Zenon DEF Min
  <2>2. FindFrom(lines, k, l) = Min(found)
    BY <1>3 DEF FindFrom
  <2> DEFINE first == FindFrom(lines, k, l)
  <2> HIDE DEF first
  <2>3. first \in k..Len(lines) /\ lines[first] >= l
    BY <2>1, <2>2 DEF first
  <2>4. ASSUME NEW j \in k..first - 1 PROVE lines[j] < l
    <3>1. j \in k..Len(lines) /\ j < first /\ lines[j] \in Nat
      BY <1>1, <2>3
    <3>2. j \notin found
      BY <2>1, <2>2, <2>3, <3>1, SMTT(30) DEF first
    <3> QED
      BY <3>1, <3>2
  <2> QED
    BY <1>1, <2>3, <2>4 DEF first
<1> QED
  BY <1>2, <1>3

(* the iterator and its end in the references, and what is between them on a line *)
RangeInv ==
    /\ reference \in [at : Nat, end : Nat]
    /\ step \in {"load", "simplify"} => reference.at = 1 /\ reference.end = 1
    /\ step \notin {"load", "simplify"} =>
          1 <= reference.at /\ reference.at <= reference.end /\ reference.end <= Len(references) + 1
    /\ step = "tokens" =>
          \A k \in reference.at..reference.end - 1 : references[k].line = line

TokenInv ==
    /\ line \in 0..Len(Tokens)
    /\ step = "tokens" =>
          /\ line \in DOMAIN Tokens /\ tok \in 1..Len(Tokens[line]) + 1 /\ col \in Nat
          /\ \A k \in tok..Len(Tokens[line]) : col <= Tokens[line][k].col

NoteInv(n) ==
    /\ n.ref \in DOMAIN references
    /\ references[n.ref].line = n.line
    /\ references[n.ref].col = Tokens[n.line][n.tok].col + 1
    /\ n.link = Link(references[n.ref])

BuiltInv ==
    /\ pc \in {"empty", "loop", "built"}
    /\ step # "load" => pc = "built"
    /\ pc # "empty" => definitions \in Sorted(DefinitionsIn(db))

PageInv(R) ==
    /\ db \in Database
    /\ BuiltInv /\ ListInv(R) /\ RangeInv /\ TokenInv
    /\ step \in {"load", "simplify", "head"} => notes = {}
    /\ \A n \in notes : NoteInv(n)

(* From where the line before stopped, the references of a line are found. *)
LEMMA ReferencesOfLine ==
    ASSUME NEW R \in SUBSET LineOrder, ListInv(R), step \notin {"load", "simplify"}, RangeInv, NEW l \in Nat \ {0}
    PROVE  /\ References(l) \in [at : Nat, end : Nat]
           /\ 1 <= References(l).at /\ References(l).at <= References(l).end
           /\ References(l).end <= Len(references) + 1
           /\ \A k \in References(l).at..References(l).end - 1 : references[k].line = l
           /\ \A k \in DOMAIN references :
                 /\ k < References(l).at => references[k].line < l \/ (k < reference.at /\ l # 1)
                 /\ References(l).end <= k => l < references[k].line
           /\ l # 1 => reference.at <= References(l).at
<1> DEFINE lines == [k \in DOMAIN references |-> references[k].line]
           from == IF l = 1 THEN 1 ELSE reference.at
           first == FindFrom(lines, from, l)
           end == FindFrom(lines, first, l + 1)
<1>1. /\ references \in Seq(Row) /\ Len(references) \in Nat /\ DOMAIN references = 1..Len(references)
      /\ \A k \in DOMAIN references : references[k].line \in Nat
  <2>1. references \in Seq(Row)
    BY DEF ListInv
  <2>2. \A k \in DOMAIN references : references[k] \in Row
    BY <2>1
  <2> QED
    BY <2>1, <2>2 DEF Row
<1>2. lines \in Seq(Nat) /\ Len(lines) = Len(references) /\ DOMAIN lines = DOMAIN references
  BY <1>1
<1>3. from \in 1..Len(references) + 1
  BY <1>1 DEF RangeInv
<1>4. \A k \in DOMAIN references : lines[k] = references[k].line
  OBVIOUS
<1>5. References(l) = [at |-> first, end |-> end]
  BY DEF References, ReferenceLines
<1> HIDE DEF lines, from
<1>6. /\ first \in from..Len(lines) + 1
      /\ first <= Len(lines) => lines[first] >= l
      /\ \A j \in from..first - 1 : lines[j] < l
  BY <1>2, <1>3, FindFromFinds, Zenon
<1> HIDE DEF first
<1>7. /\ end \in first..Len(lines) + 1
      /\ end <= Len(lines) => lines[end] >= l + 1
      /\ \A j \in first..end - 1 : lines[j] < l + 1
  <2>1. first \in 1..Len(lines) + 1 /\ l + 1 \in Nat
    BY <1>1, <1>2, <1>3, <1>6
  <2> QED
    BY <1>2, <2>1, FindFromFinds, Zenon
<1> HIDE DEF end
<1>8. ASSUME NEW j \in DOMAIN references, NEW k \in DOMAIN references, j <= k
      PROVE  references[j].line <= references[k].line
  <2>1. InOrder(R, references)
    BY DEF ListInv
  <2>2. j = k \/ j < k
    BY <1>1, <1>8
  <2>3. j < k => <<Spot(references[j]), Spot(references[k])>> \in LineOrder
    BY <2>1 DEF InOrder
  <2> QED
    BY <1>1, <2>2, <2>3 DEF LineOrder, Spot
<1>9. ASSUME NEW k \in first..end - 1 PROVE references[k].line = l
  <2>1. k \in DOMAIN references /\ first \in DOMAIN references /\ first <= k
    BY <1>1, <1>2, <1>3, <1>6, <1>7
  <2>2. references[first].line <= references[k].line
    BY <1>8, <2>1
  <2> QED
    BY <1>1, <1>2, <1>4, <1>6, <1>7, <2>1, <2>2
<1>10. ASSUME NEW k \in DOMAIN references, k < first
       PROVE  references[k].line < l \/ (k < reference.at /\ l # 1)
  <2>1. CASE from <= k
    BY <1>1, <1>2, <1>3, <1>4, <1>6, <1>10, <2>1
  <2>2. CASE k < from
    BY <1>1, <2>2 DEF from
  <2> QED
    BY <1>1, <1>3, <2>1, <2>2
<1>12. l # 1 => reference.at <= first
  BY <1>1, <1>2, <1>3, <1>6 DEF from
<1>11. ASSUME NEW k \in DOMAIN references, end <= k PROVE l < references[k].line
  <2>1. end \in DOMAIN references /\ lines[end] >= l + 1
    BY <1>1, <1>2, <1>3, <1>6, <1>7, <1>11
  <2>2. references[end].line <= references[k].line
    BY <1>8, <1>11, <2>1
  <2> QED
    BY <1>1, <1>4, <2>1, <2>2
<1> QED
  BY <1>1, <1>2, <1>3, <1>5, <1>6, <1>7, <1>9, <1>10, <1>11, <1>12

LEMMA SameNotes ==
    ASSUME \A n \in notes : NoteInv(n), UNCHANGED <<tableVars, references, notes>>
    PROVE  \A n \in notes' : NoteInv(n)'
  BY DEF NoteInv, Link, HasUniqueDefinition, NextIsOther, tableVars, vars

LEMMA SameTable ==
    ASSUME BuiltInv, UNCHANGED <<tableVars, db>>, step' # "load" => step # "load"
    PROVE  BuiltInv'
  BY DEF BuiltInv, tableVars, vars

LEMMA SamePage ==
    ASSUME NEW R, PageInv(R), UNCHANGED <<tableVars, db, listVars, lineVars, notes>>,
           \/ step' = step
           \/ step \notin {"load", "simplify"} /\ step' \notin {"load", "simplify", "head", "tokens"}
    PROVE  PageInv(R)'
<1>1. /\ UNCHANGED <<references, read, write>> /\ UNCHANGED <<line, tok, col, include, reference>>
      /\ UNCHANGED <<db, notes>>
  BY DEF listVars, lineVars
<1>2. BuiltInv'
  BY SameTable DEF PageInv
<1>3. ListInv(R)'
  BY <1>1 DEF PageInv, ListInv, InOrder, Standing
<1>4. RangeInv' /\ TokenInv'
  BY <1>1, Zenon DEF PageInv, RangeInv, TokenInv
<1>5. \A n \in notes' : NoteInv(n)'
  BY <1>1, SameNotes DEF PageInv
<1> QED
  BY <1>1, <1>2, <1>3, <1>4, <1>5 DEF PageInv

LEMMA InitPage ==
    ASSUME NEW R
    PROVE  PagesInit => PageInv(R)
<1> SUFFICES ASSUME PagesInit PROVE PageInv(R)
  OBVIOUS
<1> USE DEF PagesInit, PageInit, Init
<1>1. BuiltInv
  BY DEF BuiltInv
<1>2. ListInv(R)
  BY DEF ListInv
<1>3. RangeInv
  BY DEF RangeInv
<1>4. TokenInv
  <2>1. Len(Tokens) \in Nat
    BY PageAssumption
  <2> QED
    BY <2>1 DEF TokenInv
<1> QED
  BY <1>1, <1>2, <1>3, <1>4 DEF PageInv

(* The table is built before anything is loaded. *)
LEMMA TableFilled ==
    ASSUME NEW R
    PROVE  PageInv(R) /\ FillTable => PageInv(R)'
<1> SUFFICES ASSUME PageInv(R), FillTable PROVE PageInv(R)'
  OBVIOUS
<1>1. /\ UNCHANGED <<db, step, references, read, write, line, tok, col, include, reference, notes>>
      /\ BuildFrom(DefinitionsIn(db)) \/ SameSymbol \/ NewSymbol \/ EndLoop
  BY DEF FillTable, pageVars, listVars, lineVars
<1>2. pc # "built"
  BY <1>1 DEF BuildFrom, SameSymbol, NewSymbol, EndLoop
<1>3. step = "load" /\ notes = {}
  BY <1>2 DEF PageInv, BuiltInv
<1>4. pc' \in {"loop", "built"}
  BY <1>1 DEF BuildFrom, SameSymbol, NewSymbol, EndLoop
<1>5. definitions' \in Sorted(DefinitionsIn(db))
  <2>1. CASE BuildFrom(DefinitionsIn(db))
    BY <2>1 DEF BuildFrom
  <2>2. CASE SameSymbol \/ NewSymbol \/ EndLoop
    BY <2>2 DEF SameSymbol, NewSymbol, EndLoop, PageInv, BuiltInv
  <2> QED
    BY <1>1, <2>1, <2>2
<1>6. BuiltInv'
  BY <1>1, <1>3, <1>4, <1>5 DEF BuiltInv
<1>7. ListInv(R)' /\ RangeInv' /\ TokenInv'
  BY <1>1, <1>3 DEF PageInv, ListInv, RangeInv, TokenInv
<1> QED
  BY <1>1, <1>3, <1>6, <1>7 DEF PageInv

SortedDatabase(R) == \A rows \in Database : PageInOrder(R, rows)

LEMMA PageLoaded ==
    ASSUME NEW R
    PROVE  SortedDatabase(R) /\ PageInv(R) /\ Load => PageInv(R)'
<1> SUFFICES ASSUME SortedDatabase(R), PageInv(R), Load PROVE PageInv(R)'
  OBVIOUS
<1>1. /\ UNCHANGED <<tableVars, db>> /\ UNCHANGED <<read, write, line, tok, col, include, reference, notes>>
      /\ step = "load" /\ step' = "simplify" /\ pc = "built" /\ pc' = pc
      /\ references' = Explicit(InPage(db))
  BY DEF Load, lineVars, tableVars, vars
<1>2. db \in Seq(Row) /\ PageInOrder(R, db)
  BY PageAssumption DEF PageInv, SortedDatabase
<1>3. references' \in Seq(Row) /\ InOrder(R, references')
  BY <1>1, <1>2, LoadedInOrder
<1>4. ListInv(R)'
  BY <1>1, <1>3 DEF PageInv, ListInv, InOrder
<1>5. BuiltInv'
  BY <1>1 DEF PageInv, BuiltInv, tableVars, vars
<1>6. RangeInv' /\ TokenInv'
  BY <1>1 DEF PageInv, RangeInv, TokenInv
<1> QED
  BY <1>1, <1>4, <1>5, <1>6 DEF PageInv

LEMMA PageSimplified ==
    ASSUME NEW R
    PROVE  PageInv(R) /\ (Simplify \/ EraseTail) => PageInv(R)'
<1> SUFFICES ASSUME PageInv(R), Simplify \/ EraseTail PROVE PageInv(R)'
  OBVIOUS
<1>1. /\ UNCHANGED <<tableVars, db>> /\ UNCHANGED <<line, tok, col, include, reference, notes>>
      /\ step = "simplify" /\ step' \in {"simplify", "head"}
  BY DEF Simplify, EraseTail, lineVars
<1>2. ListInv(R)'
  BY SimplifyInOrder, EraseInOrder DEF PageInv
<1>3. RangeInv' /\ TokenInv'
  <2>1. Len(references') \in Nat
    BY <1>1, <1>2 DEF ListInv
  <2> QED
    BY <1>1, <2>1 DEF PageInv, RangeInv, TokenInv
<1>4. BuiltInv'
  BY <1>1, SameTable DEF PageInv
<1> QED
  BY <1>1, <1>2, <1>3, <1>4 DEF PageInv

(* The tokens of a line. *)
LEMMA TokensOfLine ==
    ASSUME NEW l \in DOMAIN Tokens
    PROVE  /\ Len(Tokens[l]) \in Nat /\ DOMAIN Tokens[l] = 1..Len(Tokens[l])
           /\ \A k \in 1..Len(Tokens[l]) : Tokens[l][k].col \in Nat /\ Tokens[l][k].width \in Nat
           /\ \A j, k \in 1..Len(Tokens[l]) :
                 j < k => Tokens[l][j].col + Tokens[l][j].width <= Tokens[l][k].col
<1>1. Tokens[l] \in Seq(Token)
  BY PageAssumption
<1>2. Len(Tokens[l]) \in Nat /\ DOMAIN Tokens[l] = 1..Len(Tokens[l])
  BY <1>1
<1>3. \A k \in DOMAIN Tokens[l] : Tokens[l][k] \in Token
  BY <1>1
<1>4. \A t \in Token : t.col \in Nat /\ t.width \in Nat
  BY DEF Token
<1>5. \A j, k \in DOMAIN Tokens[l] :
          j < k => Tokens[l][j].col + Tokens[l][j].width <= Tokens[l][k].col
  BY PageAssumption
<1> QED
  BY <1>2, <1>3, <1>4, <1>5, Zenon

LEMMA LineBegun ==
    ASSUME NEW R \in SUBSET LineOrder
    PROVE  PageInv(R) /\ BeginLine => PageInv(R)'
<1> SUFFICES ASSUME PageInv(R), BeginLine PROVE PageInv(R)'
  OBVIOUS
<1>1. /\ UNCHANGED <<tableVars, db>> /\ UNCHANGED <<references, read, write, notes>>
      /\ step = "line" /\ step' = "tokens" /\ line < Len(Tokens) /\ line' = line + 1
      /\ tok' = 1 /\ col' = 0 /\ reference' = References(line + 1)
  BY DEF BeginLine, listVars
<1>2. Len(Tokens) \in Nat /\ line \in Nat
  BY PageAssumption DEF PageInv, TokenInv
<1>3. TokenInv'
  <2>1. line + 1 \in DOMAIN Tokens
    BY <1>1, <1>2, PageAssumption DEF PageInv, TokenInv
  <2>2. /\ Len(Tokens[line + 1]) \in Nat
        /\ \A k \in 1..Len(Tokens[line + 1]) : Tokens[line + 1][k].col \in Nat
    BY <2>1, TokensOfLine
  <2> QED
    BY <1>1, <1>2, <2>1, <2>2 DEF TokenInv
<1>4. RangeInv'
  <2>1. /\ References(line + 1) \in [at : Nat, end : Nat]
        /\ 1 <= References(line + 1).at /\ References(line + 1).at <= References(line + 1).end
        /\ References(line + 1).end <= Len(references) + 1
        /\ \A k \in References(line + 1).at..References(line + 1).end - 1 : references[k].line = line + 1
    <3>1. line + 1 \in Nat \ {0} /\ step \notin {"load", "simplify"}
      BY <1>1, <1>2
    <3>2. ListInv(R) /\ RangeInv
      BY DEF PageInv
    <3> QED
      BY <3>1, <3>2, ReferencesOfLine, Zenon
  <2> QED
    BY <1>1, <2>1 DEF RangeInv
<1>5. ListInv(R)' /\ BuiltInv'
  BY <1>1, SameTable DEF PageInv, ListInv, InOrder
<1>6. \A n \in notes' : NoteInv(n)'
  BY <1>1, SameNotes DEF PageInv
<1> QED
  BY <1>1, <1>3, <1>4, <1>5, <1>6 DEF PageInv

(* A token is written where the line has it: writing never runs ahead of the columns. *)
LEMMA TokensPut ==
    ASSUME TokenInv, AtToken, NEW n \in 1..2, tok + n - 1 <= Len(Tokens[line]),
           NEW before, NEW after, Put(n, before, after), UNCHANGED <<step, line>>
    PROVE  TokenInv' /\ Indented = This.col
<1>1. /\ step = "tokens" /\ line \in DOMAIN Tokens /\ tok \in 1..Len(Tokens[line])
      /\ col \in Nat /\ \A k \in tok..Len(Tokens[line]) : col <= Tokens[line][k].col
      /\ Len(Tokens[line]) \in Nat
  <2>1. line \in DOMAIN Tokens => Len(Tokens[line]) \in Nat
    BY TokensOfLine
  <2> QED
    BY <2>1 DEF TokenInv, AtToken
<1>2. \A k \in 1..Len(Tokens[line]) :
          Tokens[line][k].col \in Nat /\ Tokens[line][k].width \in Nat
  BY <1>1, TokensOfLine
<1>3. \A j, k \in 1..Len(Tokens[line]) :
          j < k => Tokens[line][j].col + Tokens[line][j].width <= Tokens[line][k].col
  BY <1>1, TokensOfLine
<1>4. Indented = Tokens[line][tok].col
  <2>1. col <= Tokens[line][tok].col
    BY <1>1
  <2> QED
    BY <1>1, <1>2, <2>1 DEF Indented, This
<1>5. /\ tok' = tok + n
      /\ col' = Tokens[line][tok].col + Tokens[line][tok].width
                    + (IF n = 2 THEN Tokens[line][tok + 1].width ELSE 0)
  BY <1>4 DEF Put, This
<1>6. tok' \in 1..Len(Tokens[line]) + 1 /\ col' \in Nat
  <2>1. n = 2 => tok + 1 \in 1..Len(Tokens[line])
    BY <1>1
  <2>2. col' \in Nat
    <3>1. Tokens[line][tok].col + Tokens[line][tok].width \in Nat
      BY <1>1, <1>2
    <3>2. n = 2 => Tokens[line][tok + 1].width \in Nat
      BY <1>2, <2>1
    <3> QED
      BY <1>5, <3>1, <3>2
  <2> QED
    BY <1>1, <1>5, <2>2
<1>7. ASSUME NEW k \in tok'..Len(Tokens[line]) PROVE col' <= Tokens[line][k].col
  <2>1. k \in 1..Len(Tokens[line]) /\ tok + n <= k
    BY <1>1, <1>5, <1>6
  <2>2. CASE n = 1
    BY <1>1, <1>2, <1>3, <1>5, <2>1, <2>2
  <2>3. CASE n = 2
    <3>1. /\ tok + 1 \in 1..Len(Tokens[line]) /\ tok < tok + 1 /\ tok + 1 < k
      BY <1>1, <2>1, <2>3
    <3>2. /\ Tokens[line][tok].col + Tokens[line][tok].width <= Tokens[line][tok + 1].col
          /\ Tokens[line][tok + 1].col + Tokens[line][tok + 1].width <= Tokens[line][k].col
      BY <1>1, <1>3, <2>1, <3>1
    <3>3. col' = Tokens[line][tok].col + Tokens[line][tok].width + Tokens[line][tok + 1].width
      BY <1>5, <2>3
    <3>4. /\ Tokens[line][tok].col \in Nat /\ Tokens[line][tok].width \in Nat
          /\ Tokens[line][tok + 1].col \in Nat /\ Tokens[line][tok + 1].width \in Nat
          /\ Tokens[line][k].col \in Nat
      BY <1>1, <1>2, <2>1, <3>1, Zenon
    <3> DEFINE first == Tokens[line][tok]
               second == Tokens[line][tok + 1]
               third == Tokens[line][k]
    <3> HIDE DEF first, second, third
    <3>5. /\ first.col \in Nat /\ first.width \in Nat /\ second.col \in Nat /\ second.width \in Nat
          /\ third.col \in Nat
          /\ first.col + first.width <= second.col /\ second.col + second.width <= third.col
      BY <3>2, <3>4 DEF first, second, third
    <3>6. first.col + first.width + second.width <= third.col
      BY <3>5
    <3>7. col' = first.col + first.width + second.width
      BY <3>3 DEF first, second
    <3> QED
      BY <3>6, <3>7 DEF third
  <2> QED
    BY <2>2, <2>3
<1> QED
  BY <1>1, <1>4, <1>6, <1>7 DEF TokenInv, This

LEMMA TokenWritten ==
    ASSUME NEW R
    PROVE  PageInv(R) /\ (WriteInclude \/ WriteToken) => PageInv(R)'
<1> SUFFICES ASSUME PageInv(R), WriteInclude \/ WriteToken PROVE PageInv(R)'
  OBVIOUS
<1>1. /\ UNCHANGED <<tableVars, db, step, line, reference>> /\ UNCHANGED <<references, read, write, notes>>
      /\ AtToken /\ \E before, after : Put(1, before, after)
  BY DEF WriteInclude, WriteToken, listVars
<1>2. TokenInv'
  <2>1. PICK before, after : Put(1, before, after)
    BY <1>1
  <2>2. line \in DOMAIN Tokens => Len(Tokens[line]) \in Nat
    BY TokensOfLine
  <2>3. tok + 1 - 1 <= Len(Tokens[line])
    BY <1>1, <2>2 DEF AtToken, PageInv, TokenInv
  <2> QED
    BY <1>1, <2>1, <2>3, TokensPut DEF PageInv
<1>3. ListInv(R)' /\ BuiltInv' /\ RangeInv'
  BY <1>1, SameTable DEF PageInv, ListInv, InOrder, Standing, RangeInv
<1>4. \A n \in notes' : NoteInv(n)'
  BY <1>1, SameNotes DEF PageInv
<1> QED
  BY <1>1, <1>2, <1>3, <1>4 DEF PageInv

(* A reference is put around the token it is at. *)
LEMMA ReferenceWritten ==
    ASSUME NEW R
    PROVE  PageInv(R) /\ WriteReference => PageInv(R)'
<1> SUFFICES ASSUME PageInv(R), WriteReference PROVE PageInv(R)'
  OBVIOUS
<1> DEFINE r == references[reference.at]
           n == IF Kind[r.symbol] = "dtor" THEN 2 ELSE 1
           note == [line |-> line, tok |-> tok, ref |-> reference.at, link |-> Link(r)]
<1>1. /\ UNCHANGED <<tableVars, db, step, line>> /\ UNCHANGED <<references, read, write>>
      /\ AtToken /\ AtReference /\ tok + n - 1 <= Len(Tokens[line])
      /\ Put(n, ReferenceElement(r), End)
      /\ notes' = notes \cup {note}
      /\ reference' = [reference EXCEPT !.at = @ + 1]
  BY DEF WriteReference, listVars
<1>2. TokenInv' /\ Indented = This.col
  BY <1>1, TokensPut DEF PageInv
<1>3. /\ step = "tokens" /\ reference \in [at : Nat, end : Nat]
      /\ 1 <= reference.at /\ reference.at < reference.end /\ reference.end <= Len(references) + 1
      /\ \A k \in reference.at..reference.end - 1 : references[k].line = line
      /\ references \in Seq(Row)
  BY <1>1 DEF AtToken, AtReference, PageInv, RangeInv, ListInv
<1>4. RangeInv'
  BY <1>1, <1>3 DEF RangeInv
<1>5. ListInv(R)' /\ BuiltInv'
  BY <1>1, SameTable DEF PageInv, ListInv, InOrder, Standing
<1>6. NoteInv(note)
  <2>1. reference.at \in DOMAIN references /\ reference.at \in reference.at..reference.end - 1
    BY <1>3
  <2>2. r.line = line /\ r.col = Tokens[line][tok].col + 1
    BY <1>1, <1>2, <1>3, <2>1 DEF AtReference, This
  <2> QED
    BY <2>1, <2>2 DEF NoteInv
<1> HIDE DEF note
<1>7. ASSUME NEW m \in notes' PROVE NoteInv(m)'
  <2>1. NoteInv(m)
    BY <1>1, <1>6 DEF PageInv
  <2> QED
    BY <1>1, <2>1 DEF NoteInv, Link, HasUniqueDefinition, NextIsOther, tableVars, vars
<1> QED
  BY <1>1, <1>2, <1>3, <1>4, <1>5, <1>7 DEF PageInv

LEMMA PageStep ==
    ASSUME NEW R \in SUBSET LineOrder
    PROVE  SortedDatabase(R) /\ PageInv(R) /\ Step => PageInv(R)'
<1> SUFFICES ASSUME SortedDatabase(R), PageInv(R), Step PROVE PageInv(R)'
  OBVIOUS
<1>1. CASE WriteHead \/ EndLine \/ WritePage \/ ReadPastEnd \/ MakeCall
  <2>1. /\ UNCHANGED <<tableVars, db, listVars, lineVars, notes>>
        /\ step' = step \/ (step \in {"head", "tokens", "line"} /\ step' \in {"line", "written", "undefined"})
    BY <1>1 DEF WriteHead, EndLine, WritePage, ReadPastEnd, AtToken, MakeCall
  <2> QED
    BY <2>1, SamePage
<1>2. CASE SymbolPageNext
  <2>1. /\ UNCHANGED <<tableVars, db, listVars, lineVars, notes>>
        /\ step' = step \/ (step = "written" /\ step' = "symbols")
    BY <1>2, Zenon DEF SymbolPageNext, StartSymbolPage, PageWritten
  <2> QED
    BY <2>1, SamePage
<1>3. CASE UNCHANGED <<tableVars, pageVars, symbolVars>>
  BY <1>3, SamePage DEF pageVars
<1> QED
  BY <1>1, <1>2, <1>3, TableFilled, PageLoaded, PageSimplified, LineBegun, TokenWritten, ReferenceWritten
     DEF Step, PagesNext, PageNext

(* When the rows of a file are in the order of their lines, every element of its page that
   is written for a reference is around the token the reference is at, and a link leads to the
   one definition there is. *)
THEOREM NotesOfSortedRows ==
    ASSUME SortedDatabase(LineOrder)
    PROVE  PagesSpec => []NotesAreRight
<1>1. PageInv(LineOrder) /\ TableInv /\ LinksAreRight => NotesAreRight
  <2> SUFFICES ASSUME PageInv(LineOrder), LinksAreRight, NEW n \in notes
               PROVE  LET r == references[n.ref]
                      IN  /\ r.line = n.line /\ r.col = Tokens[n.line][n.tok].col + 1
                          /\ n.link # NoEntry =>
                                \A row \in Range(db) :
                                    row.symbol = r.symbol /\ "definition" \in row.flags
                                        => PlaceOf(row) = definitions[n.link].place
    BY DEF NotesAreRight
  <2> DEFINE r == references[n.ref]
  <2>1. r.line = n.line /\ r.col = Tokens[n.line][n.tok].col + 1 /\ n.ref \in DOMAIN references
        /\ n.link = Link(r)
    BY DEF PageInv, NoteInv
  <2>2. ASSUME n.link # NoEntry, NEW row \in Range(db), row.symbol = r.symbol, "definition" \in row.flags
        PROVE  PlaceOf(row) = definitions[n.link].place
    <3> DEFINE D == {d \in Range(db) : "definition" \in d.flags}
               picked == Selected(D, db)
    <3>1. db \in Seq(Row) /\ DefinitionsIn(db) \in Seq(Definition)
      BY PageAssumption, TableAssumption DEF PageInv
    <3>2. row \in D /\ row \in {db[k] : k \in DOMAIN db}
      BY <2>2 DEF Range
    <3>3. PICK k \in DOMAIN picked : picked[k] = row
      <4> HIDE DEF D
      <4> DEFINE rows == db
      <4>a. rows \in Seq(Row)
        BY <3>1
      <4> HIDE DEF rows
      <4>b. {Selected(D, rows)[j] : j \in DOMAIN Selected(D, rows)} = {rows[j] : j \in DOMAIN rows} \cap D
        BY <4>a, SelectedElements
      <4>1. {picked[j] : j \in DOMAIN picked} = {db[j] : j \in DOMAIN db} \cap D
        BY <4>b DEF rows
      <4> HIDE DEF picked
      <4> QED
        BY <3>2, <4>1
    <3>4. /\ k \in DOMAIN DefinitionsIn(db)
          /\ DefinitionsIn(db)[k] = [symbol |-> row.symbol, place |-> PlaceOf(row)]
      BY <3>3, Zenon DEF DefinitionsIn
    <3>5. step \notin {"load", "simplify", "head"} /\ pc = "built"
          /\ definitions \in Sorted(DefinitionsIn(db))
      BY DEF PageInv, BuiltInv
    <3>6. PICK j \in DOMAIN definitions : definitions[j] = DefinitionsIn(db)[k]
      BY <3>1, <3>4, <3>5, SortedHasAll
    <3>7. row.symbol \in SymbolId
      <4>1. row \in Row
        BY <3>1 DEF Range
      <4> QED
        BY <4>1 DEF Row
    <3>8. HasUniqueDefinition(r.symbol) /\ n.link = table[r.symbol]
      BY <2>1, <2>2 DEF Link
    <3>9. DefinitionsOf(row.symbol) = {n.link} /\ j \in DefinitionsOf(row.symbol)
      BY <2>2, <3>4, <3>5, <3>6, <3>7, <3>8 DEF LinksAreRight, DefinitionsOf
    <3> QED
      BY <3>4, <3>6, <3>9
  <2> QED
    BY <2>1, <2>2
<1>2. PagesSpec => []PageInv(LineOrder)
  <2>1. PagesInit => PageInv(LineOrder)
    BY InitPage
  <2>2. PageInv(LineOrder) /\ Step => PageInv(LineOrder)'
    BY PageStep
  <2> QED
    BY <2>1, <2>2, PTL DEF PagesSpec, Step
<1> QED
  BY <1>1, <1>2, PagesImplementTable, TableInvariant, PageLinksAreRight, PTL
-----------------------------------------------------------------------------
(* the iterator comes to a reference when it could have come to all before it on its line *)
ReachedAll(k) == \A j \in 1..k : references[j].line = references[k].line => Reachable(j)

Noted(k) == \E n \in notes : n.ref = k

NotedOnce ==
    /\ \A n \in notes : n.ref \in Nat /\ n.ref < reference.at
    /\ \A m, n \in notes : m.ref = n.ref => m = n

(* the lines that are written *)
PassedLines(l) == l \in 1..line /\ (l < line \/ step # "tokens")

LinesNoted ==
    \A k \in DOMAIN references :
        /\ k < reference.at => references[k].line <= line
        /\ PassedLines(references[k].line) /\ step # "undefined" /\ ReachedAll(k) => Noted(k)

(* on the line that is being written *)
LineNoted ==
    /\ \A k \in DOMAIN references : references[k].line = line =>
          /\ k < reference.at => Noted(k)
          /\ k < reference.end
    /\ \A k \in DOMAIN references : k = reference.at /\ k < reference.end /\ ReachedAll(k) =>
          \A t \in DOMAIN Tokens[line] : Tokens[line][t].col + 1 = references[k].col => tok <= t

NotedInv ==
    /\ line = 0 => notes = {} /\ reference.at = 1
    /\ step \in {"load", "simplify", "head"} => line = 0
    /\ step = "written" => line = Len(Tokens)
    /\ NotedOnce
    /\ step \notin {"load", "simplify"} => LinesNoted
    /\ step = "tokens" => LineNoted

LEMMA SameNoted ==
    ASSUME NotedInv, UNCHANGED <<references, line, tok, reference, notes>>,
           \/ step' = step
           \/ step \notin {"load", "simplify", "tokens", "undefined"} /\ step' \notin {"load", "simplify", "head", "tokens"}
           \/ step = "tokens" /\ step' = "undefined",
           step' = "written" => step = "written" \/ line = Len(Tokens)
    PROVE  NotedInv'
<1>1. NotedOnce'
  BY DEF NotedInv, NotedOnce
<1> DEFINE R(k) == ReachedAll(k)
           N(k) == Noted(k)
<1>2. /\ \A k : R(k)' <=> R(k)
      /\ \A k : N(k)' <=> N(k)
  BY DEF ReachedAll, Reachable, Noted
<1>3. step' \notin {"load", "simplify"} => LinesNoted'
  <2> SUFFICES ASSUME step' \notin {"load", "simplify"} PROVE LinesNoted'
    OBVIOUS
  <2>1. LinesNoted
    BY DEF NotedInv
  <2>2. step' # "undefined" /\ step' # "tokens" => step # "tokens" /\ step # "undefined"
    OBVIOUS
  <2> HIDE DEF R, N
  <2>3. \A k : ReachedAll(k)' => ReachedAll(k)
    BY <1>2 DEF R
  <2>4. \A k : Noted(k) => Noted(k)'
    BY <1>2 DEF N
  <2> QED
    BY <2>1, <2>2, <2>3, <2>4 DEF LinesNoted, PassedLines
<1>4. step' = "tokens" => LineNoted'
  BY <1>2 DEF NotedInv, LineNoted
<1> QED
  BY <1>1, <1>3, <1>4 DEF NotedInv

LEMMA InitNoted == PagesInit => NotedInv
  BY DEF PagesInit, PageInit, NotedInv, NotedOnce

(* Until the first line nothing is noted. *)
LEMMA ListNoted ==
    ASSUME NotedInv, Load \/ Simplify \/ EraseTail, references' \in Seq(Row)
    PROVE  NotedInv'
<1>1. /\ UNCHANGED <<line, tok, col, include, reference, notes>>
      /\ step \in {"load", "simplify"} /\ step' \in {"simplify", "head"}
  BY DEF Load, Simplify, EraseTail, lineVars
<1>2. line = 0 /\ notes = {} /\ reference.at = 1
  BY <1>1 DEF NotedInv
<1>3. \A l : ~PassedLines(l)'
  BY <1>1, <1>2 DEF PassedLines
<1>4. LinesNoted'
  BY <1>1, <1>2, <1>3 DEF LinesNoted
<1> QED
  BY <1>1, <1>2, <1>4 DEF NotedInv, NotedOnce

LEMMA BegunNoted ==
    ASSUME PageInv(PlaceOrder), NotedInv, BeginLine
    PROVE  NotedInv'
<1>1. /\ UNCHANGED <<references, notes>> /\ step = "line" /\ step' = "tokens"
      /\ line < Len(Tokens) /\ line' = line + 1 /\ tok' = 1 /\ reference' = References(line + 1)
  BY DEF BeginLine, listVars
<1>2. line \in Nat /\ line + 1 \in Nat \ {0} /\ references \in Seq(Row)
      /\ DOMAIN references = 1..Len(references) /\ Len(references) \in Nat
  <2>1. Len(Tokens) \in Nat
    BY PageAssumption
  <2> QED
    BY <1>1, <2>1 DEF PageInv, TokenInv, ListInv
<1> DEFINE next == References(line + 1)
<1>3. /\ next \in [at : Nat, end : Nat] /\ 1 <= next.at /\ next.at <= next.end
      /\ next.end <= Len(references) + 1
      /\ \A k \in DOMAIN references :
            /\ k < next.at => references[k].line < line + 1 \/ (k < reference.at /\ line + 1 # 1)
            /\ next.end <= k => line + 1 < references[k].line
      /\ line + 1 # 1 => reference.at <= next.at
  <2>1. ListInv(PlaceOrder) /\ RangeInv /\ PlaceOrder \in SUBSET LineOrder
    BY DEF PageInv, PlaceOrder, LineOrder
  <2> QED
    BY <1>1, <1>2, <2>1, ReferencesOfLine, Zenon
<1> HIDE DEF next
<1>4. reference' = next /\ reference \in [at : Nat, end : Nat]
  BY <1>1 DEF next, PageInv, RangeInv
<1>5. \A k \in DOMAIN references : references[k].line \in Nat
  <2>1. \A k \in DOMAIN references : references[k] \in Row
    BY <1>2
  <2> QED
    BY <2>1 DEF Row
<1>6. LinesNoted
  BY <1>1 DEF NotedInv
<1>7. \A k \in DOMAIN references : k < next.at => references[k].line < line + 1
  BY <1>2, <1>3, <1>5, <1>6 DEF LinesNoted
<1>8. NotedOnce'
  <2>1. ASSUME NEW n \in notes PROVE n.ref \in Nat /\ n.ref < next.at
    <3>1. n.ref \in DOMAIN references /\ n.ref < reference.at /\ n.ref \in Nat
      BY <1>2 DEF NotedInv, NotedOnce, PageInv, NoteInv
    <3>2. reference.at \in Nat /\ next.at \in Nat /\ line # 0
      BY <1>3, <1>4 DEF NotedInv
    <3>3. reference.at <= next.at
      BY <1>2, <1>3, <3>2
    <3> QED
      BY <3>1, <3>2, <3>3
  <2> QED
    BY <1>1, <1>4, <2>1 DEF NotedInv, NotedOnce
<1>9. /\ \A k : ReachedAll(k)' => ReachedAll(k)
      /\ \A k : Noted(k) => Noted(k)'
  BY <1>1 DEF ReachedAll, Reachable, Noted
<1>10. LinesNoted'
  <2> SUFFICES ASSUME NEW k \in DOMAIN references
               PROVE  /\ k < next.at => references[k].line <= line + 1
                      /\ references[k].line \in 1..line + 1 /\ references[k].line < line + 1 /\ ReachedAll(k)
                            => Noted(k)
    BY <1>1, <1>4, <1>9 DEF LinesNoted, PassedLines
  <2>1. k < next.at => references[k].line <= line + 1
    BY <1>2, <1>5, <1>7
  <2>2. ASSUME references[k].line \in 1..line + 1, references[k].line < line + 1, ReachedAll(k)
        PROVE  Noted(k)
    BY <1>1, <1>2, <1>5, <1>6, <2>2 DEF LinesNoted, PassedLines
  <2> QED
    BY <2>1, <2>2
<1>11. LineNoted'
  <2>1. ASSUME NEW k \in DOMAIN references, references[k].line = line + 1
        PROVE  ~(k < next.at) /\ k < next.end
    BY <1>2, <1>3, <1>5, <1>7, <2>1
  <2>2. \A t \in DOMAIN Tokens[line + 1] : 1 <= t
    <3>1. line + 1 \in DOMAIN Tokens
      BY <1>1, <1>2, PageAssumption
    <3> QED
      BY <3>1, TokensOfLine
  <2> QED
    BY <1>1, <1>4, <2>1, <2>2 DEF LineNoted
<1> QED
  BY <1>1, <1>2, <1>8, <1>10, <1>11 DEF NotedInv

(* The tokens of a line do not share a column. *)
LEMMA TokensApart ==
    ASSUME NEW l \in DOMAIN Tokens, NEW j \in DOMAIN Tokens[l], NEW k \in DOMAIN Tokens[l]
    PROVE  j < k => Tokens[l][j].col < Tokens[l][k].col
<1> SUFFICES ASSUME j < k PROVE Tokens[l][j].col < Tokens[l][k].col
  OBVIOUS
<1> DEFINE first == Tokens[l][j]
           second == Tokens[l][k]
<1>1. first.col + first.width <= second.col /\ first.col \in Nat /\ second.col \in Nat
  BY TokensOfLine
<1>2. first.width \in Nat \ {0}
  <2>1. Tokens[l] \in Seq(Token)
    BY PageAssumption
  <2>2. first \in Token
    BY <2>1
  <2> HIDE DEF first
  <2> QED
    BY <2>2 DEF Token
<1> HIDE DEF first, second
<1>3. first.col < second.col
  BY <1>1, <1>2
<1> QED
  BY <1>3 DEF first, second

LEMMA TokensSame ==
    ASSUME NEW l \in DOMAIN Tokens, NEW j \in DOMAIN Tokens[l], NEW k \in DOMAIN Tokens[l],
           Tokens[l][j].col = Tokens[l][k].col
    PROVE  j = k
<1>1. j \in Nat /\ k \in Nat /\ Tokens[l][j].col \in Nat
  BY TokensOfLine
<1>2. ~(j < k) /\ ~(k < j)
  <2>1. (j < k => Tokens[l][j].col < Tokens[l][k].col) /\ (k < j => Tokens[l][k].col < Tokens[l][j].col)
    BY TokensApart
  <2> QED
    BY <1>1, <2>1
<1> QED
  BY <1>1, <1>2

(* The reference the iterator stands at, when it could come to it: its token is ahead. *)
LEMMA TokenAhead ==
    ASSUME PageInv(PlaceOrder), NotedInv, step = "tokens", NEW k \in DOMAIN references,
           k = reference.at, k < reference.end, ReachedAll(k)
    PROVE  /\ references[k].line = line
           /\ \E t \in DOMAIN Tokens[line] :
                 /\ Tokens[line][t].col + 1 = references[k].col /\ Tokens[line][t].type # "include"
                 /\ tok <= t
<1>1. references \in Seq(Row) /\ k \in Nat /\ k >= 1 /\ reference.end \in Nat
  BY DEF PageInv, ListInv, RangeInv
<1>2. references[k].line = line
  BY <1>1 DEF PageInv, RangeInv
<1>3. Reachable(k)
  BY <1>1 DEF ReachedAll
<1>4. PICK t \in DOMAIN Tokens[line] :
          Tokens[line][t].col + 1 = references[k].col /\ Tokens[line][t].type # "include"
  BY <1>2, <1>3 DEF Reachable
<1>5. tok <= t
  BY <1>4 DEF NotedInv, LineNoted
<1> QED
  BY <1>2, <1>4, <1>5

LEMMA EndedNoted ==
    ASSUME PageInv(PlaceOrder), NotedInv, EndLine
    PROVE  NotedInv'
<1>1. /\ UNCHANGED <<references, notes, line, tok, reference>> /\ step = "tokens" /\ step' = "line"
      /\ tok > Len(Tokens[line])
  BY DEF EndLine, listVars, lineVars
<1>2. /\ references \in Seq(Row) /\ DOMAIN references = 1..Len(references) /\ Len(references) \in Nat
      /\ \A k \in DOMAIN references : references[k].line \in Nat
      /\ line \in DOMAIN Tokens /\ line \in Nat /\ tok \in Nat
      /\ reference.at \in Nat /\ reference.end \in Nat /\ 1 <= reference.at
  <2>1. references \in Seq(Row) /\ line \in DOMAIN Tokens
    BY <1>1 DEF PageInv, ListInv, TokenInv
  <2>2. \A k \in DOMAIN references : references[k] \in Row
    BY <2>1
  <2>3. Len(Tokens[line]) \in Nat /\ Len(Tokens) \in Nat
    BY <2>1, TokensOfLine, PageAssumption
  <2> QED
    BY <1>1, <2>1, <2>2, <2>3 DEF Row, PageInv, TokenInv, RangeInv
<1>3. ASSUME NEW k \in DOMAIN references, references[k].line = line, ReachedAll(k) PROVE Noted(k)
  <2>1. CASE k < reference.at
    BY <1>1, <1>3, <2>1 DEF NotedInv, LineNoted
  <2>2. CASE reference.at <= k
    <3>1. k < reference.end
      BY <1>1, <1>3 DEF NotedInv, LineNoted
    <3>2. /\ reference.at \in DOMAIN references /\ reference.at < reference.end
          /\ references[reference.at].line = line
      BY <1>1, <1>2, <2>2, <3>1 DEF PageInv, RangeInv
    <3>3. ReachedAll(reference.at)
      BY <1>2, <1>3, <2>2, <3>2 DEF ReachedAll
    <3>4. \E t \in DOMAIN Tokens[line] : tok <= t
      BY <1>1, <3>2, <3>3, TokenAhead
    <3>5. DOMAIN Tokens[line] = 1..Len(Tokens[line]) /\ Len(Tokens[line]) \in Nat
      BY <1>2, TokensOfLine
    <3> QED
      BY <1>1, <1>2, <3>4, <3>5
  <2> QED
    BY <1>2, <2>1, <2>2
<1>4. /\ \A k : ReachedAll(k)' => ReachedAll(k)
      /\ \A k : Noted(k) => Noted(k)'
  BY <1>1 DEF ReachedAll, Reachable, Noted
<1>5. LinesNoted'
  <2>1. LinesNoted
    BY <1>1 DEF NotedInv
  <2> SUFFICES ASSUME NEW k \in DOMAIN references
               PROVE  /\ k < reference.at => references[k].line <= line
                      /\ references[k].line \in 1..line /\ ReachedAll(k) => Noted(k)
    BY <1>1, <1>4 DEF LinesNoted, PassedLines
  <2>2. ASSUME references[k].line \in 1..line, references[k].line # line, ReachedAll(k) PROVE Noted(k)
    BY <1>1, <1>2, <2>1, <2>2 DEF LinesNoted, PassedLines
  <2> QED
    BY <1>3, <2>1, <2>2 DEF LinesNoted
<1> QED
  BY <1>1, <1>5 DEF NotedInv, NotedOnce

(* A token is not written past the reference that is at it. *)
LEMMA TokenNoted ==
    ASSUME PageInv(PlaceOrder), NotedInv, WriteInclude \/ WriteToken
    PROVE  NotedInv'
<1>1. /\ UNCHANGED <<references, notes, step, line, reference>> /\ AtToken /\ step = "tokens"
      /\ tok' = tok + 1 /\ \E before, after : Put(1, before, after)
      /\ This.type = "include" \/ ~AtReference
  BY Zenon DEF WriteInclude, WriteToken, AtInclude, AtToken, Put, listVars
<1>2. /\ line \in DOMAIN Tokens /\ tok \in DOMAIN Tokens[line] /\ DOMAIN Tokens[line] \subseteq Nat
      /\ tok + 1 - 1 <= Len(Tokens[line])
  <2>1. line \in DOMAIN Tokens /\ tok \in 1..Len(Tokens[line]) + 1
    BY <1>1 DEF PageInv, TokenInv
  <2>2. DOMAIN Tokens[line] = 1..Len(Tokens[line]) /\ Len(Tokens[line]) \in Nat
    BY <2>1, TokensOfLine
  <2> QED
    BY <1>1, <2>1, <2>2 DEF AtToken
<1>3. Indented = This.col
  BY <1>1, <1>2, TokensPut DEF PageInv
<1>4. /\ \A k : ReachedAll(k)' => ReachedAll(k)
      /\ \A k : Noted(k) => Noted(k)'
  BY <1>1 DEF ReachedAll, Reachable, Noted
<1>5. ASSUME NEW k \in DOMAIN references, k = reference.at, k < reference.end, ReachedAll(k),
             NEW t \in DOMAIN Tokens[line], Tokens[line][t].col + 1 = references[k].col
      PROVE  tok + 1 <= t
  <2>1. PICK u \in DOMAIN Tokens[line] :
            /\ Tokens[line][u].col + 1 = references[k].col /\ Tokens[line][u].type # "include"
            /\ tok <= u
    BY <1>1, <1>5, TokenAhead
  <2>2. t = u
    <3>1. Tokens[line][t].col \in Nat /\ Tokens[line][u].col \in Nat
      BY <1>2, TokensOfLine
    <3>2. Tokens[line][t].col = Tokens[line][u].col
      BY <1>5, <2>1, <3>1
    <3> QED
      BY <1>2, <3>2, TokensSame
  <2>3. t # tok
    <3>1. SUFFICES ASSUME t = tok PROVE FALSE
      OBVIOUS
    <3>2. This = Tokens[line][t]
      BY <3>1 DEF This
    <3>3. This.type # "include"
      BY <2>1, <2>2, <3>2
    <3>4. reference.at # reference.end
      BY <1>5 DEF PageInv, RangeInv
    <3>5. references[reference.at].col = Indented + 1
      BY <1>3, <1>5, <3>2
    <3> QED
      BY <1>1, <3>3, <3>4, <3>5 DEF AtReference
  <2>4. t \in Nat /\ tok \in Nat
    BY <1>2
  <2> QED
    BY <2>1, <2>2, <2>3, <2>4
<1>6. LineNoted'
  BY <1>1, <1>4, <1>5 DEF NotedInv, LineNoted
<1>7. LinesNoted'
  BY <1>1, <1>4 DEF NotedInv, LinesNoted, PassedLines
<1> QED
  BY <1>1, <1>6, <1>7 DEF NotedInv, NotedOnce

(* A reference is noted and the iterator moves on; the token of the next one is behind
   what was written. *)
LEMMA ReferenceNoted ==
    ASSUME PageInv(PlaceOrder), NotedInv, WriteReference
    PROVE  NotedInv'
<1> DEFINE at0 == reference.at
           r == references[at0]
           n == IF Kind[r.symbol] = "dtor" THEN 2 ELSE 1
           note == [line |-> line, tok |-> tok, ref |-> at0, link |-> Link(r)]
<1>1. /\ UNCHANGED <<references, step, line>> /\ step = "tokens"
      /\ AtToken /\ AtReference /\ tok + n - 1 <= Len(Tokens[line])
      /\ Put(n, ReferenceElement(r), End) /\ tok' = tok + n
      /\ notes' = notes \cup {note}
      /\ reference' = [reference EXCEPT !.at = @ + 1]
  BY DEF WriteReference, listVars, AtToken, Put
<1>2. Indented = This.col
  BY <1>1, TokensPut DEF PageInv
<1>3. /\ at0 \in Nat /\ reference.end \in Nat /\ at0 < reference.end /\ at0 \in DOMAIN references
      /\ references \in Seq(Row) /\ DOMAIN references = 1..Len(references) /\ Len(references) \in Nat
      /\ reference'.at = at0 + 1 /\ reference'.end = reference.end /\ r.line = line
      /\ r.col = Tokens[line][tok].col + 1
  <2>1. /\ reference \in [at : Nat, end : Nat] /\ 1 <= reference.at /\ reference.at < reference.end
        /\ reference.end <= Len(references) + 1 /\ references \in Seq(Row)
    BY <1>1 DEF AtReference, PageInv, RangeInv, ListInv
  <2>2. references[reference.at].line = line
    BY <1>1, <2>1 DEF PageInv, RangeInv
  <2> QED
    BY <1>1, <1>2, <2>1, <2>2 DEF AtReference, This
<1>4. /\ line \in DOMAIN Tokens /\ tok \in DOMAIN Tokens[line] /\ tok \in Nat
      /\ DOMAIN Tokens[line] \subseteq Nat /\ line # 0
  <2>1. line \in DOMAIN Tokens /\ tok \in 1..Len(Tokens[line]) + 1
    BY <1>1 DEF PageInv, TokenInv
  <2>2. DOMAIN Tokens[line] = 1..Len(Tokens[line]) /\ Len(Tokens[line]) \in Nat
    BY <2>1, TokensOfLine
  <2> QED
    BY <1>1, <2>1, <2>2, PageAssumption DEF AtToken
<1>5. /\ note.ref = at0 /\ note.line = line /\ note.tok = tok
  OBVIOUS
<1> HIDE DEF note
<1>6. NotedOnce'
  <2>1. NotedOnce
    BY DEF NotedInv
  <2> QED
    BY <1>1, <1>3, <1>5, <2>1 DEF NotedOnce
<1>7. /\ \A k : ReachedAll(k)' => ReachedAll(k)
      /\ \A k : Noted(k) => Noted(k)'
  BY <1>1 DEF ReachedAll, Reachable, Noted
<1>8. ASSUME NEW k, k = at0 PROVE Noted(k)'
  BY <1>1, <1>5, <1>8 DEF Noted
<1>9. LinesNoted'
  <2> SUFFICES ASSUME NEW k \in DOMAIN references
               PROVE  /\ k < at0 + 1 => references[k].line <= line
                      /\ PassedLines(references[k].line) /\ ReachedAll(k) => Noted(k)
    BY <1>1, <1>3, <1>7 DEF LinesNoted, PassedLines
  <2>1. k < at0 + 1 => k < at0 \/ k = at0
    BY <1>3
  <2>2. line \in Nat
    BY <1>4, PageAssumption
  <2> QED
    BY <1>1, <1>3, <2>1, <2>2 DEF NotedInv, LinesNoted
<1>10. ASSUME NEW k \in DOMAIN references, k = at0 + 1, k < reference.end, ReachedAll(k)',
             NEW t \in DOMAIN Tokens[line], Tokens[line][t].col + 1 = references[k].col
      PROVE  tok + n <= t
  <2>1. /\ k \in Nat /\ k >= 1 /\ k \in 1..k /\ at0 \in 1..k - 1 /\ at0 < k
        /\ k \in reference.at..reference.end - 1
    BY <1>3, <1>10
  <2>2. references[k].line = line
    BY <1>1, <2>1 DEF PageInv, RangeInv
  <2>3. Reachable(k)'
    BY <2>1, <1>10 DEF ReachedAll
  <2>4. PICK u \in DOMAIN Tokens[line] :
            /\ Tokens[line][u].col + 1 = references[k].col
            /\ ~ \E m \in notes' : /\ m.line = line /\ m.tok = u - 1
                                   /\ Kind[references[m.ref].symbol] = "dtor"
    BY <1>1, <2>2, <2>3 DEF Reachable
  <2>5. ~SamePlace(r, references[k])
    BY <1>1, <2>1, <2>3 DEF Reachable
  <2>6. r.col < references[k].col
    <3>1. InOrder(PlaceOrder, references)
      BY <1>1 DEF PageInv, ListInv
    <3>2. <<Spot(r), Spot(references[k])>> \in PlaceOrder
      BY <1>3, <2>1, <3>1 DEF InOrder
    <3>3. r \in Row /\ references[k] \in Row
      BY <1>3
    <3>4. r.col \in Nat /\ references[k].col \in Nat /\ r.line \in Nat
      BY <3>3 DEF Row
    <3> HIDE DEF r
    <3>5. r.col <= references[k].col
      BY <1>3, <2>2, <3>2, <3>4 DEF PlaceOrder, Spot
    <3>6. r.col # references[k].col
      BY <1>3, <2>2, <2>5 DEF SamePlace
    <3> QED
      BY <3>4, <3>5, <3>6
  <2>7. /\ Tokens[line][t].col \in Nat /\ Tokens[line][u].col \in Nat /\ Tokens[line][tok].col \in Nat
        /\ t \in Nat
    BY <1>4, TokensOfLine
  <2>8. t = u
    <3>1. Tokens[line][t].col = Tokens[line][u].col
      BY <1>10, <2>4, <2>7
    <3> QED
      BY <1>4, <3>1, TokensSame
  <2>9. tok < t
    <3>1. Tokens[line][tok].col < Tokens[line][t].col
      BY <1>3, <1>10, <2>6, <2>7
    <3>2. t < tok => Tokens[line][t].col < Tokens[line][tok].col
      BY <1>4, TokensApart
    <3>3. t # tok
      BY <2>7, <3>1
    <3> QED
      BY <1>4, <2>7, <3>1, <3>2, <3>3
  <2>10. n = 2 => t # tok + 1
    <3>1. SUFFICES ASSUME Kind[r.symbol] = "dtor", t = tok + 1 PROVE FALSE
      OBVIOUS
    <3>2. note \in notes' /\ note.line = line /\ note.tok = u - 1 /\ references[note.ref] = r
      BY <1>1, <1>4, <1>5, <2>8, <3>1
    <3> QED
      BY <2>4, <3>1, <3>2
  <2> QED
    BY <1>4, <2>7, <2>9, <2>10
<1>11. LineNoted'
  <2>1. ASSUME NEW k \in DOMAIN references, references[k].line = line
        PROVE  /\ k < at0 + 1 => Noted(k)'
               /\ k < reference.end
    <3>1. LineNoted
      BY <1>1 DEF NotedInv
    <3>2. k < at0 + 1 => k < at0 \/ k = at0
      BY <1>3
    <3> QED
      BY <1>7, <1>8, <2>1, <3>1, <3>2 DEF LineNoted
  <2> QED
    BY <1>1, <1>3, <1>10, <2>1 DEF LineNoted
<1> QED
  BY <1>1, <1>4, <1>6, <1>9, <1>11 DEF NotedInv

LEMMA NotedStep == PageInv(PlaceOrder) /\ PageInv(PlaceOrder)' /\ NotedInv /\ Step => NotedInv'
<1> SUFFICES ASSUME PageInv(PlaceOrder), PageInv(PlaceOrder)', NotedInv, Step PROVE NotedInv'
  OBVIOUS
<1>1. CASE FillTable
  BY <1>1, SameNoted DEF FillTable, pageVars, listVars, lineVars
<1>2. CASE Load \/ Simplify \/ EraseTail
  <2>1. references' \in Seq(Row)
    BY <1>2 DEF Load, Simplify, EraseTail, PageInv, ListInv
  <2> QED
    BY <1>2, <2>1, ListNoted
<1>3. CASE WriteHead \/ WritePage \/ ReadPastEnd \/ MakeCall
  <2>1. /\ UNCHANGED <<references, line, tok, reference, notes>>
        /\ \/ step' = step
           \/ step \in {"head", "line"} /\ step' \in {"line", "written"}
           \/ step = "tokens" /\ step' = "undefined"
        /\ step' = "written" => step = "written" \/ line = Len(Tokens)
    BY <1>3 DEF WriteHead, WritePage, ReadPastEnd, AtToken, MakeCall, listVars, lineVars
  <2> QED
    BY <2>1, SameNoted
<1>4. CASE SymbolPageNext
  <2>1. /\ UNCHANGED <<references, line, tok, reference, notes>>
        /\ step' = step \/ (step = "written" /\ step' = "symbols")
    BY <1>4, Zenon DEF SymbolPageNext, StartSymbolPage, PageWritten, listVars, lineVars
  <2> QED
    BY <2>1, SameNoted
<1>5. CASE UNCHANGED <<tableVars, pageVars, symbolVars>>
  BY <1>5, SameNoted DEF pageVars, listVars, lineVars
<1> QED
  BY <1>1, <1>2, <1>3, <1>4, <1>5, BegunNoted, EndedNoted, TokenNoted, ReferenceNoted
     DEF Step, PagesNext, PageNext

(* When the rows of a file are in the order of their places, its page shows every reference
   once, but for those the iterator cannot come to. *)
THEOREM EveryReferenceNoted ==
    ASSUME SortedDatabase(PlaceOrder)
    PROVE  PagesSpec => []AllNoted
<1>1. PageInv(PlaceOrder) /\ NotedInv => AllNoted
  <2> SUFFICES ASSUME PageInv(PlaceOrder), NotedInv, PageWritten, NEW k \in DOMAIN references,
                      \A j \in 1..k : references[j].line = references[k].line => Reachable(j)
               PROVE  Cardinality({n \in notes : n.ref = k}) = 1
    BY DEF AllNoted
  <2>1. k \in 1..k /\ step = "written" /\ references \in Seq(Row)
    BY DEF PageInv, ListInv, PageWritten
  <2>2. references[k].line \in DOMAIN Tokens
    BY <2>1 DEF Reachable
  <2>3. PassedLines(references[k].line)
    BY <2>1, <2>2, PageAssumption DEF NotedInv, PassedLines
  <2>4. PICK n \in notes : n.ref = k
    BY <2>1, <2>3 DEF NotedInv, LinesNoted, ReachedAll, Noted
  <2>5. {m \in notes : m.ref = k} = {n}
    BY <2>4 DEF NotedInv, NotedOnce
  <2> QED
    BY <2>5, FS_Singleton, Zenon
<1>2. PagesSpec => [](PageInv(PlaceOrder) /\ NotedInv)
  <2>1. PagesInit => PageInv(PlaceOrder) /\ NotedInv
    BY InitPage, InitNoted
  <2>2. PageInv(PlaceOrder) /\ Step => PageInv(PlaceOrder)'
    <3>1. PlaceOrder \in SUBSET LineOrder
      BY DEF PlaceOrder, LineOrder
    <3> QED
      BY <3>1, PageStep
  <2> QED
    BY <2>1, <2>2, NotedStep, PTL DEF PagesSpec, Step
<1> QED
  BY <1>1, <1>2, PTL
-----------------------------------------------------------------------------
(* the references of a list at the place of another *)
Near(r) == {s \in Row : SamePlace(r, s)}

Group(r, list) == Selected(Near(r), list)

Upto(r, s) == <<Spot(r), Spot(s)>> \in PlaceOrder

(* What is kept of a place while some of its references are still to be looked at. *)
PlaceKept(all, kept, rest) ==
    \/ kept = <<>> /\ rest = all
    \/ kept \o rest = Simplified(all) /\ Len(rest) <= 1

LEMMA GroupIsAt ==
    ASSUME NEW list \in Seq(Row), NEW r
    PROVE  At(list, r) = Group(r, list)
<1>1. \A k \in DOMAIN list : list[k] \in {s \in Range(list) : SamePlace(r, s)} <=> list[k] \in Near(r)
  BY DEF Range, Near
<1> QED
  BY <1>1, SelectedAlike DEF At, Group

LEMMA Groups ==
    ASSUME NEW r, NEW q \in Seq(Row), NEW p \in Seq(Row)
    PROVE  /\ Group(r, q) \in Seq(Row) /\ Len(Group(r, q)) \in Nat
           /\ Group(r, q \o p) = Group(r, q) \o Group(r, p)
           /\ Group(r, <<>>) = <<>>
<1>1. Group(r, q) \in Seq(Row \cap Near(r))
  BY SelectedType DEF Group
<1>2. Group(r, q \o p) = Group(r, q) \o Group(r, p)
  BY SelectedConcat DEF Group
<1> QED
  BY <1>1, <1>2, SelectedEmpty DEF Group

LEMMA GroupOfOne ==
    ASSUME NEW r, NEW s \in Row
    PROVE  Group(r, <<s>>) = IF SamePlace(r, s) THEN <<s>> ELSE <<>>
<1>1. <<>> \in Seq(Row) /\ Append(<<>>, s) = <<s>>
  OBVIOUS
<1> DEFINE near == Near(r)
<1>2. s \in near <=> SamePlace(r, s)
  BY DEF Near
<1> HIDE DEF near
<1>3. Selected(near, Append(<<>>, s)) = IF s \in near THEN Append(Selected(near, <<>>), s)
                                       ELSE Selected(near, <<>>)
  <2> DEFINE none == <<>>
  <2>1. none \in Seq(Row)
    OBVIOUS
  <2> HIDE DEF none
  <2>2. Selected(near, Append(none, s)) = IF s \in near THEN Append(Selected(near, none), s)
                                         ELSE Selected(near, none)
    BY <2>1, SelectedAppend
  <2> QED
    BY <2>2 DEF none
<1>4. Selected(near, <<>>) = <<>>
  BY SelectedEmpty
<1>5. Selected(near, <<s>>) = IF s \in near THEN <<s>> ELSE <<>>
  BY <1>1, <1>3, <1>4
<1> QED
  BY <1>2, <1>5 DEF Group, near

LEMMA GroupFrom ==
    ASSUME NEW r, NEW q \in Seq(Row)
    PROVE  \E f \in [DOMAIN Group(r, q) -> DOMAIN q] :
              /\ \A j \in DOMAIN Group(r, q) : Group(r, q)[j] = q[f[j]] /\ SamePlace(r, q[f[j]])
              /\ \A j, k \in DOMAIN Group(r, q) : j < k => f[j] < f[k]
<1>1. PICK f \in [DOMAIN Group(r, q) -> DOMAIN q] :
          /\ \A j \in DOMAIN Group(r, q) : Group(r, q)[j] = q[f[j]]
          /\ \A j, k \in DOMAIN Group(r, q) : j < k => f[j] < f[k]
  BY SelectedFrom DEF Group
<1>2. Group(r, q) \in Seq(Row \cap Near(r))
  BY SelectedType DEF Group
<1>3. \A j \in DOMAIN Group(r, q) : Group(r, q)[j] \in Near(r)
  BY <1>2
<1> QED
  BY <1>1, <1>3 DEF Near

(* Nothing at a place, or something. *)
LEMMA GroupEmpty ==
    ASSUME NEW r, NEW q \in Seq(Row), \A k \in DOMAIN q : ~SamePlace(r, q[k])
    PROVE  Group(r, q) = <<>>
<1>1. PICK f \in [DOMAIN Group(r, q) -> DOMAIN q] :
          \A j \in DOMAIN Group(r, q) : SamePlace(r, q[f[j]])
  BY GroupFrom
<1>2. DOMAIN Group(r, q) = {}
  BY <1>1, Zenon
<1> QED
  BY <1>2, Groups

LEMMA GroupSome ==
    ASSUME NEW r, NEW q \in Seq(Row), Group(r, q) # <<>>
    PROVE  \E k \in DOMAIN q : SamePlace(r, q[k])
  BY GroupEmpty

(* The places are in a total order. *)
LEMMA PlacesOrdered ==
    ASSUME NEW r \in Row, NEW s \in Row, NEW t \in Row
    PROVE  /\ Upto(r, s) /\ Upto(s, t) => Upto(r, t)
           /\ Upto(r, s) /\ Upto(s, r) => SamePlace(r, s)
           /\ SamePlace(r, s) => Upto(r, s) /\ Upto(s, r)
<1>1. \A x \in Row : x.line \in Nat /\ x.col \in Nat
  BY DEF Row
<1> QED
  BY <1>1 DEF Upto, PlaceOrder, Spot, SamePlace

(* In a list that is in order and has no two neighbours at one place, no two references
   are at one place. *)
LEMMA GroupSingle ==
    ASSUME NEW r \in Row, NEW q \in Seq(Row), InOrder(PlaceOrder, q),
           \A k \in 1..Len(q) - 1 : ~SamePlace(q[k], q[k + 1])
    PROVE  Len(Group(r, q)) <= 1
<1> SUFFICES ASSUME ~(Len(Group(r, q)) <= 1) PROVE FALSE
  OBVIOUS
<1>1. Len(Group(r, q)) \in Nat /\ Group(r, q) \in Seq(Row)
  BY Groups
<1>2. 1 \in DOMAIN Group(r, q) /\ 2 \in DOMAIN Group(r, q)
  BY <1>1
<1>3. PICK f \in [DOMAIN Group(r, q) -> DOMAIN q] :
          /\ \A j \in DOMAIN Group(r, q) : SamePlace(r, q[f[j]])
          /\ \A j, k \in DOMAIN Group(r, q) : j < k => f[j] < f[k]
  BY GroupFrom
<1> DEFINE j == f[1]
           k == f[2]
<1>4. /\ j \in DOMAIN q /\ k \in DOMAIN q /\ j < k /\ SamePlace(r, q[j]) /\ SamePlace(r, q[k])
      /\ DOMAIN q = 1..Len(q) /\ Len(q) \in Nat
  BY <1>2, <1>3
<1> HIDE DEF j, k
<1>5. j + 1 \in DOMAIN q /\ j \in 1..Len(q) - 1 /\ j < j + 1 /\ (j + 1 < k \/ j + 1 = k)
  BY <1>4
<1>6. \A m \in DOMAIN q : q[m] \in Row
  OBVIOUS
<1>7. Upto(q[j], q[j + 1]) /\ Upto(q[j + 1], q[k])
  <2>1. Upto(q[j], q[j + 1]) /\ (j + 1 < k => Upto(q[j + 1], q[k]))
    BY <1>4, <1>5 DEF InOrder, Upto
  <2>2. Upto(q[k], q[k])
    BY <1>4, <1>6, PlacesOrdered DEF SamePlace
  <2> QED
    BY <1>5, <2>1, <2>2
<1>8. Upto(q[k], q[j])
  BY <1>4, <1>6, PlacesOrdered, Zenon DEF SamePlace
<1>9. Upto(q[j + 1], q[j])
  BY <1>4, <1>5, <1>6, <1>7, <1>8, PlacesOrdered
<1>10. SamePlace(q[j], q[j + 1])
  BY <1>4, <1>5, <1>6, <1>7, <1>9, PlacesOrdered
<1> QED
  BY <1>5, <1>10

(* What is still to look at moves to what is kept. *)
LEMMA PlaceMoved ==
    ASSUME NEW all \in Seq(Row), NEW k \in Seq(Row), NEW a \in Seq(Row), NEW c \in Seq(Row),
           PlaceKept(all, k, a \o c), Len(a) <= 1, a = <<>> \/ c = <<>>
    PROVE  PlaceKept(all, k \o a, c)
<1>1. CASE k = <<>> /\ a \o c = all
  <2>1. CASE a = <<>>
    BY <1>1, <2>1 DEF PlaceKept
  <2>2. CASE c = <<>>
    <3>1. all = a /\ (k \o a) \o c = a
      BY <1>1, <2>2
    <3>2. Simplified(a) = a
      <4> DEFINE n == Len(a)
      <4>1. n \in Nat /\ n <= 1
        OBVIOUS
      <4> HIDE DEF n
      <4>3. n # 2
        BY <4>1
      <4>2. ~(Len(a) = 2)
        BY <4>3 DEF n
      <4> QED
        BY <4>2 DEF Simplified
    <3> QED
      BY <2>2, <3>1, <3>2 DEF PlaceKept
  <2> QED
    BY <2>1, <2>2
<1>2. CASE k \o (a \o c) = Simplified(all) /\ Len(a \o c) <= 1
  <2>1. k \o (a \o c) = (k \o a) \o c
    BY Concatenated, SMTT(30)
  <2>2. Len(c) <= Len(a \o c) /\ Len(a \o c) \in Nat /\ Len(c) \in Nat
    OBVIOUS
  <2> QED
    BY <1>2, <2>1, <2>2 DEF PlaceKept
<1> QED
  BY <1>1, <1>2, Zenon DEF PlaceKept

(* A place of two references is still to be looked at, so they are the only ones. *)
LEMMA PlaceOfTwo ==
    ASSUME NEW all \in Seq(Row), NEW k \in Seq(Row), NEW a \in Seq(Row), NEW c \in Seq(Row),
           NEW x \in Row, NEW y \in Row,
           PlaceKept(all, k, (a \o <<x, y>>) \o c), Len(all) <= 2
    PROVE  k = <<>> /\ a = <<>> /\ c = <<>> /\ all = <<x, y>>
<1> DEFINE rest == (a \o <<x, y>>) \o c
<1>1. /\ Len(a) \in Nat /\ Len(c) \in Nat /\ Len(rest) = Len(a) + 2 + Len(c)
  <2>1. <<x, y>> \in Seq(Row) /\ Len(<<x, y>>) = 2
    OBVIOUS
  <2>2. a \o <<x, y>> \in Seq(Row) /\ Len(a \o <<x, y>>) = Len(a) + 2
    BY <2>1
  <2> QED
    BY <2>2
<1>2. k = <<>> /\ rest = all
  BY <1>1 DEF PlaceKept
<1>3. Len(a) = 0 /\ Len(c) = 0
  BY <1>1, <1>2
<1>4. a = <<>> /\ c = <<>>
  BY <1>3
<1> QED
  BY <1>2, <1>4

(* Of the two, the one that is left is the right one. *)
LEMMA PlaceDecided ==
    ASSUME NEW x \in Row, NEW y \in Row
    PROVE  /\ ~Discards(x, y) => PlaceKept(<<x, y>>, <<x>>, <<y>>)
           /\ Discards(x, y) => PlaceKept(<<x, y>>, <<>>, <<IF Swaps(x, y) THEN x ELSE y>>)
<1> DEFINE all == <<x, y>>
<1>1. Len(all) = 2 /\ all[1] = x /\ all[2] = y /\ DOMAIN all = 1..2
  OBVIOUS
<1>2. Range(all) = {x, y}
  <2>1. DOMAIN all = {1, 2}
    BY <1>1
  <2> QED
    BY <1>1, <2>1 DEF Range
<1> HIDE DEF all
<1>3. CASE ~Discards(x, y)
  <2>1. Simplified(all) = all
    BY <1>1, <1>3 DEF Simplified, Discards
  <2>2. <<x>> \o <<y>> = <<x, y>> /\ Len(<<y>>) <= 1
    BY PairJoined
  <2> QED
    BY <1>3, <2>1, <2>2, Zenon DEF PlaceKept, all
<1>4. CASE Discards(x, y)
  <2> DEFINE ctor == CHOOSE r \in Range(all) : Kind[r.symbol] = "ctor"
             class == CHOOSE r \in Range(all) : Kind[r.symbol] = "class"
             z == IF Swaps(x, y) THEN x ELSE y
  <2>1. Simplified(all) = <<IF IsDeclOrDef(ctor) THEN ctor ELSE class>>
    BY <1>1, <1>4, Zenon DEF Simplified, Discards
  <2>2. \/ Kind[x.symbol] = "ctor" /\ Kind[y.symbol] = "class"
        \/ Kind[x.symbol] = "class" /\ Kind[y.symbol] = "ctor"
    BY <1>4 DEF Discards
  <2>3. /\ ctor = IF Kind[x.symbol] = "ctor" THEN x ELSE y
        /\ class = IF Kind[x.symbol] = "ctor" THEN y ELSE x
    BY <1>2, <2>2
  <2> HIDE DEF ctor, class
  <2>4. (IF IsDeclOrDef(ctor) THEN ctor ELSE class) = z
    BY <2>2, <2>3 DEF Swaps
  <2> HIDE DEF z
  <2>5. Simplified(all) = <<z>>
    BY <2>1, <2>4
  <2>6. <<>> \o <<z>> = <<z>> /\ Len(<<z>>) <= 1
    OBVIOUS
  <2>7. PlaceKept(all, <<>>, <<z>>)
    BY <2>5, <2>6 DEF PlaceKept
  <2> QED
    BY <1>4, <2>7 DEF all, z
<1> QED
  BY <1>3, <1>4

(* A place of x is not both before x and after it, unless it is the place of x. *)
LEMMA GroupsApart ==
    ASSUME NEW r \in Row, NEW x \in Row, NEW a \in Seq(Row), NEW c \in Seq(Row),
           \A k \in DOMAIN a : Upto(a[k], x), \A k \in DOMAIN c : Upto(x, c[k]), ~SamePlace(r, x)
    PROVE  Group(r, a) = <<>> \/ Group(r, c) = <<>>
<1> SUFFICES ASSUME Group(r, a) # <<>>, Group(r, c) # <<>> PROVE FALSE
  OBVIOUS
<1>1. PICK j \in DOMAIN a : SamePlace(r, a[j])
  BY GroupSome
<1>2. PICK k \in DOMAIN c : SamePlace(r, c[k])
  BY GroupSome
<1>3. a[j] \in Row /\ c[k] \in Row /\ Upto(a[j], x) /\ Upto(x, c[k])
  OBVIOUS
<1> DEFINE s == a[j]
           t == c[k]
<1>4. s \in Row /\ t \in Row /\ Upto(s, x) /\ Upto(x, t) /\ SamePlace(r, s) /\ SamePlace(r, t)
  BY <1>1, <1>2, <1>3
<1> HIDE DEF s, t
<1>5. Upto(r, x)
  <2>1. Upto(r, s)
    BY <1>4, PlacesOrdered
  <2> QED
    BY <1>4, <2>1, PlacesOrdered
<1>6. Upto(x, r)
  <2>1. Upto(t, r)
    BY <1>4, PlacesOrdered
  <2> QED
    BY <1>4, <2>1, PlacesOrdered
<1> QED
  BY <1>5, <1>6, PlacesOrdered

KeptPart == SubSeq(references, 1, write - 1)

RestPart == SubSeq(references, read, Len(references))

Loaded == Explicit(InPage(db))

PlaceIsKept(r, kept, rest) ==
    Len(Group(r, Loaded)) <= 2 => PlaceKept(Group(r, Loaded), Group(r, kept), Group(r, rest))

PlacesInv ==
    /\ step = "simplify" => \A r \in Row : PlaceIsKept(r, KeptPart, RestPart)
    /\ step \notin {"load", "simplify"} =>
          \A r \in Row : Len(Group(r, Loaded)) <= 2 =>
              Group(r, references) = Simplified(Group(r, Loaded))

(* What std::copy makes of the two parts. *)
LEMMA PartsKept ==
    ASSUME ListInv(PlaceOrder), step = "simplify",
           NEW list \in Seq(Row), Len(list) = Len(references),
           NEW limit \in read..Len(references) + 1, NEW next \in limit..limit + 1,
           next \in 1..Len(references) + 1,
           \A k \in 1..limit - 1 : list[k] = references[k],
           Keep(list, limit, next)
    PROVE  /\ KeptPart' = KeptPart \o SubSeq(references, read, limit - 1)
           /\ RestPart' = SubSeq(list, next, Len(references))
<1> DEFINE N == Len(references)
           kept == SubSeq(references, 1, write - 1)
           moved == SubSeq(references, read, limit - 1)
           both == kept \o moved
           keptNow == SubSeq(references', 1, write' - 1)
           restNow == SubSeq(references', next, N)
           rest == SubSeq(list, next, N)
           top == (write - 1) + (limit - read)
<1>1. /\ references \in Seq(Row) /\ N \in Nat /\ DOMAIN list = 1..N
      /\ write \in 1..read /\ read \in 1..N + 1 /\ limit \in Nat /\ next \in Nat /\ write \in Nat /\ read \in Nat
      /\ read <= limit /\ limit <= N + 1 /\ limit <= next /\ next <= N + 1
  BY DEF ListInv
<1>2. references' = Copied(list, read, limit) /\ write' = write + (limit - read) /\ read' = next
  BY DEF Keep
<1> DEFINE from(k) == IF k \in write..write + (limit - read) - 1 THEN read + (k - write) ELSE k
<1>3. \A k \in DOMAIN list : from(k) \in DOMAIN list
  BY <1>1
<1>4. references' = [k \in DOMAIN list |-> list[from(k)]]
  BY <1>2 DEF Copied
<1>5. references' \in [1..N -> Row]
  BY <1>1, <1>3, <1>4
<1>6. references' \in Seq(Row) /\ Len(references') = N
  BY <1>1, <1>5
<1>7. \A k \in 1..N : references'[k] = list[from(k)]
  BY <1>1, <1>4
<1>8. kept \in Seq(Row) /\ Len(kept) = write - 1 /\ \A k \in 1..write - 1 : kept[k] = references[k]
  BY <1>1, Halves
<1>9. moved \in Seq(Row) /\ Len(moved) = limit - read /\ \A k \in 1..limit - read : moved[k] = references[read + k - 1]
  <2>1. limit - 1 \in read - 1..N /\ limit - 1 - read + 1 = limit - read
    BY <1>1
  <2> HIDE DEF moved, N
  <2>2. /\ SubSeq(references, read, limit - 1) \in Seq(Row)
        /\ Len(SubSeq(references, read, limit - 1)) = limit - 1 - read + 1
        /\ \A k \in 1..limit - 1 - read + 1 : SubSeq(references, read, limit - 1)[k] = references[read + k - 1]
    BY <1>1, <2>1, Slice DEF N
  <2> QED
    BY <2>1, <2>2, Zenon DEF moved
<1>10. write' \in 1..N + 1 /\ write' - 1 = top /\ top < limit /\ top \in Nat /\ top <= N
  BY <1>1, <1>2
<1>11. /\ keptNow \in Seq(Row) /\ Len(keptNow) = top
       /\ \A k \in 1..top : keptNow[k] = references'[k]
  <2>1. write' \in 1..Len(references') + 1
    BY <1>6, <1>10
  <2>2. /\ keptNow \in Seq(Row) /\ Len(keptNow) = write' - 1
        /\ \A k \in 1..write' - 1 : keptNow[k] = references'[k]
    BY <1>6, <2>1, Halves, Zenon
  <2> HIDE DEF keptNow, top
  <2> QED
    BY <1>10, <2>2
<1> HIDE DEF kept, moved, keptNow
<1>12. /\ both \in Seq(Row) /\ Len(both) = Len(kept) + Len(moved)
       /\ \A k \in 1..Len(kept) + Len(moved) : both[k] = IF k <= Len(kept) THEN kept[k] ELSE moved[k - Len(kept)]
  <2>1. kept \in Seq(Row) /\ moved \in Seq(Row)
    BY <1>8, <1>9
  <2> QED
    BY <2>1, ConcatProperties
<1> HIDE DEF both, N, from
<1>13. Len(both) = top /\ Len(kept) = write - 1 /\ Len(moved) = limit - read
  BY <1>1, <1>8, <1>9, <1>10, <1>12
<1>14. ASSUME NEW k \in 1..top PROVE keptNow[k] = both[k]
  <2>1. k \in Nat /\ 1 <= k /\ k <= top /\ k \in 1..N /\ k < limit
    BY <1>1, <1>10
  <2> HIDE DEF top
  <2>2. keptNow[k] = list[from(k)]
    BY <1>7, <1>11, <2>1
  <2>3. from(k) = IF k < write THEN k ELSE read + (k - write)
    BY <1>1, <2>1 DEF from, top
  <2>4. from(k) \in 1..limit - 1
    BY <1>1, <2>1, <2>3 DEF top
  <2>5. keptNow[k] = references[from(k)]
    BY <2>2, <2>4
  <2>6. both[k] = IF k <= write - 1 THEN kept[k] ELSE moved[k - (write - 1)]
    BY <1>12, <1>13, <1>14 DEF top
  <2>7. CASE k <= write - 1
    <3>1. k \in 1..write - 1 /\ k < write
      BY <1>1, <2>1, <2>7
    <3> QED
      BY <1>8, <2>3, <2>5, <2>6, <2>7, <3>1
  <2>8. CASE ~(k <= write - 1)
    <3>1. /\ k - (write - 1) \in 1..limit - read /\ read + (k - (write - 1)) - 1 = read + (k - write)
          /\ ~(k < write)
      BY <1>1, <2>1, <2>8 DEF top
    <3> QED
      BY <1>9, <2>3, <2>5, <2>6, <2>8, <3>1
  <2> QED
    BY <2>7, <2>8
<1>15. keptNow = both
  <2> HIDE DEF top
  <2> QED
    BY <1>11, <1>12, <1>13, <1>14, SeqEqual, Zenon
<1>16. restNow \in Seq(Row) /\ Len(restNow) = N - next + 1 /\ \A k \in 1..N - next + 1 : restNow[k] = references'[next + k - 1]
  <2>1. next \in 1..Len(references') + 1 /\ N \in next - 1..Len(references')
    BY <1>1, <1>6
  <2> QED
    BY <1>6, <2>1, Slice
<1>17. rest \in Seq(Row) /\ Len(rest) = N - next + 1 /\ \A k \in 1..N - next + 1 : rest[k] = list[next + k - 1]
  <2>1. next \in 1..Len(list) + 1 /\ N \in next - 1..Len(list)
    BY <1>1 DEF N
  <2> QED
    BY <2>1, Slice
<1> HIDE DEF rest, restNow
<1>18. ASSUME NEW k \in 1..N - next + 1 PROVE restNow[k] = rest[k]
  <2>1. next + k - 1 \in 1..N /\ limit <= next + k - 1
    BY <1>1
  <2>2. from(next + k - 1) = next + k - 1
    BY <1>1, <2>1 DEF from, top
  <2> QED
    BY <1>7, <1>16, <1>17, <2>1, <2>2, Zenon
<1>19. restNow = rest
  BY <1>16, <1>17, <1>18, SeqEqual, Zenon
<1>20. KeptPart' = keptNow /\ RestPart' = restNow
  BY <1>2, <1>6 DEF KeptPart, RestPart, keptNow, restNow
<1> QED
  BY <1>15, <1>19, <1>20, Zenon DEF KeptPart, both, kept, moved, rest, N

(* When no two neighbours are at one place, what is left is kept as it is. *)
LEMMA RestKept ==
    ASSUME ListInv(PlaceOrder), PlacesInv, Simplify, Adjacent = {}, Loaded \in Seq(Row),
           NEW r \in Row
    PROVE  PlaceIsKept(r, KeptPart, RestPart)'
<1> DEFINE N == Len(references)
           rest == SubSeq(references, read, N)
           all == Group(r, Loaded)
<1>1. /\ step = "simplify" /\ references \in Seq(Row) /\ N \in Nat /\ DOMAIN references = 1..N
      /\ read \in 1..N /\ write \in 1..read
      /\ Keep(references, N + 1, N + 1) /\ UNCHANGED db
  BY DEF Simplify, ListInv
<1>2. KeptPart' = KeptPart \o rest /\ RestPart' = SubSeq(references, N + 1, N)
  <2>1. /\ N + 1 \in read..N + 1 /\ N + 1 \in N + 1..N + 1 + 1 /\ N + 1 \in 1..N + 1 /\ N + 1 - 1 = N
        /\ Len(references) = N
    BY <1>1
  <2>2. /\ KeptPart' = KeptPart \o SubSeq(references, read, (N + 1) - 1)
        /\ RestPart' = SubSeq(references, N + 1, Len(references))
    BY <1>1, <2>1, PartsKept, Zenon
  <2> HIDE DEF N
  <2> QED
    BY <1>1, <2>1, <2>2
<1>3. SubSeq(references, N + 1, N) = <<>>
  BY <1>1
<1>4. rest \in Seq(Row) /\ Len(rest) = N - read + 1 /\ \A k \in 1..N - read + 1 : rest[k] = references[read + k - 1]
  BY <1>1, Halves
<1>5. KeptPart \in Seq(Row)
  BY <1>1, Halves DEF KeptPart
<1>6. Loaded' = Loaded
  BY <1>1 DEF Loaded
<1> HIDE DEF rest, N
<1>7. InOrder(PlaceOrder, rest)
  <2> SUFFICES ASSUME NEW j \in DOMAIN rest, NEW k \in DOMAIN rest, j < k
               PROVE  <<Spot(rest[j]), Spot(rest[k])>> \in PlaceOrder
    BY DEF InOrder
  <2>1. /\ j \in 1..N - read + 1 /\ k \in 1..N - read + 1
        /\ read + j - 1 \in DOMAIN references /\ read + k - 1 \in DOMAIN references
        /\ read + j - 1 < read + k - 1 /\ read <= read + j - 1 /\ read <= read + k - 1
    BY <1>1, <1>4
  <2>2. <<Spot(references[read + j - 1]), Spot(references[read + k - 1])>> \in PlaceOrder
    BY <1>1, <2>1 DEF ListInv, Standing
  <2> QED
    BY <1>4, <2>1, <2>2, Zenon
<1>8. \A k \in 1..Len(rest) - 1 : ~SamePlace(rest[k], rest[k + 1])
  <2> SUFFICES ASSUME NEW k \in 1..Len(rest) - 1 PROVE ~SamePlace(rest[k], rest[k + 1])
    OBVIOUS
  <2> DEFINE m == read + k - 1
  <2>1. /\ k \in 1..N - read + 1 /\ k + 1 \in 1..N - read + 1 /\ m \in read..N - 1
        /\ read + (k + 1) - 1 = m + 1
    BY <1>1, <1>4
  <2>2. rest[k] = references[m] /\ rest[k + 1] = references[m + 1]
    BY <1>4, <2>1
  <2> HIDE DEF m
  <2>3. ~SamePlace(references[m], references[m + 1])
    BY <2>1 DEF Adjacent, N
  <2> QED
    BY <2>2, <2>3
<1>9. Len(Group(r, rest)) <= 1
  BY <1>4, <1>7, <1>8, GroupSingle, Zenon
<1>10. SUFFICES ASSUME Len(all) <= 2 PROVE PlaceKept(all, Group(r, KeptPart \o rest), <<>>)
  BY <1>2, <1>3, <1>6, Groups, Zenon DEF PlaceIsKept
<1>11. PlaceKept(all, Group(r, KeptPart), Group(r, rest))
  BY <1>1, <1>10 DEF PlacesInv, PlaceIsKept, RestPart, rest, N
<1> DEFINE k == Group(r, KeptPart)
           a == Group(r, rest)
<1>12. /\ all \in Seq(Row) /\ k \in Seq(Row) /\ a \in Seq(Row) /\ Group(r, KeptPart \o rest) = k \o a
  BY <1>4, <1>5, Groups, Zenon
<1> HIDE DEF all, k, a
<1>13. a \o <<>> = a /\ <<>> \in Seq(Row)
  BY <1>12, ConcatEmptySeq
<1>14. PlaceKept(all, k \o a, <<>>)
  <2> DEFINE c == <<>>
  <2>1. c \in Seq(Row) /\ PlaceKept(all, k, a \o c) /\ Len(a) <= 1 /\ (a = <<>> \/ c = <<>>)
    BY <1>9, <1>11, <1>13 DEF all, k, a
  <2> HIDE DEF c
  <2>2. PlaceKept(all, k \o a, c)
    BY <1>12, <2>1, PlaceMoved
  <2> QED
    BY <2>2 DEF c
<1> QED
  BY <1>12, <1>14

(* The first two neighbours at one place. *)
LEMMA FirstAdjacent ==
    ASSUME ListInv(PlaceOrder), step = "simplify", read <= Len(references), Adjacent # {}
    PROVE  \E it \in read..Len(references) - 1 :
              /\ it = Min(Adjacent)
              /\ SamePlace(references[it], references[it + 1])
              /\ \A k \in read..it - 1 : ~SamePlace(references[k], references[k + 1])
<1>1. /\ references \in Seq(Row) /\ Len(references) \in Nat /\ read \in 1..Len(references)
  BY DEF ListInv
<1>2. Adjacent \subseteq Nat
  BY <1>1 DEF Adjacent
<1>3. Min(Adjacent) \in Adjacent /\ \A k \in Adjacent : Min(Adjacent) <= k
  BY <1>2, Least, Zenon DEF Min
<1> DEFINE it == Min(Adjacent)
<1>4. it \in Adjacent /\ \A k \in Adjacent : it <= k
  BY <1>3
<1> HIDE DEF it
<1>5. it \in read..Len(references) - 1 /\ SamePlace(references[it], references[it + 1])
  BY <1>4 DEF Adjacent
<1>6. ASSUME NEW k \in read..it - 1 PROVE ~SamePlace(references[k], references[k + 1])
  <2>1. k \in read..Len(references) - 1 /\ ~(it <= k)
    BY <1>1, <1>5
  <2> QED
    BY <1>4, <2>1 DEF Adjacent
<1> QED
  BY <1>5, <1>6 DEF it

(* what is around the first two neighbours at one place *)
SplitAt(it, a, x, y, c) ==
    /\ a \in Seq(Row) /\ x \in Row /\ y \in Row /\ c \in Seq(Row)
    /\ x = references[it] /\ y = references[it + 1]
    /\ a = SubSeq(references, read, it - 1) /\ c = SubSeq(references, it + 2, Len(references))
    /\ RestPart = (a \o <<x, y>>) \o c

LEMMA RestAround ==
    ASSUME ListInv(PlaceOrder), step = "simplify", NEW it \in read..Len(references) - 1
    PROVE  /\ SplitAt(it, SubSeq(references, read, it - 1), references[it], references[it + 1],
                     SubSeq(references, it + 2, Len(references)))
           /\ \A list \in Seq(Row) :
                 (Len(list) = Len(references) /\ \A k \in it + 2..Len(references) : list[k] = references[k])
                 => SubSeq(list, it + 1, Len(references))
                       = <<list[it + 1]>> \o SubSeq(references, it + 2, Len(references))
<1> DEFINE N == Len(references)
           a == SubSeq(references, read, it - 1)
           c == SubSeq(references, it + 2, N)
           x == references[it]
           y == references[it + 1]
<1>1. /\ references \in Seq(Row) /\ N \in Nat /\ read \in 1..N + 1 /\ it \in Nat /\ read <= it /\ it + 1 <= N
      /\ 1 <= it /\ x \in Row /\ y \in Row /\ read \in Nat
  BY DEF ListInv
<1>2. a \in Seq(Row) /\ c \in Seq(Row)
  <2>1. it - 1 \in read - 1..Len(references) /\ it + 2 \in 1..Len(references) + 1
        /\ Len(references) \in (it + 2) - 1..Len(references)
    BY <1>1
  <2> QED
    BY <1>1, <2>1, Slice
<1>3. ASSUME NEW list \in Seq(Row), Len(list) = N, \A k \in it + 2..N : list[k] = references[k]
      PROVE  SubSeq(list, it + 1, N) = <<list[it + 1]>> \o c
  <2> DEFINE end == SubSeq(list, it + 2, N)
             one == SubSeq(list, it + 1, it + 1)
  <2>1. /\ it + 1 \in 1..Len(list) + 1 /\ N \in (it + 1) - 1..Len(list) /\ it + 2 \in it + 1..N + 1
        /\ it + 2 \in 1..Len(list) + 1 /\ N \in (it + 2) - 1..Len(list)
        /\ it + 2 \in 1..Len(references) + 1 /\ N \in (it + 2) - 1..Len(references)
        /\ it + 1 \in (it + 1) - 1..Len(list) /\ (it + 2) - 1 = it + 1 /\ (it + 1) - (it + 1) + 1 = 1
        /\ N - (it + 2) + 1 \in Nat
    BY <1>1, <1>3
  <2>2. SubSeq(list, it + 1, N) = SubSeq(list, it + 1, (it + 2) - 1) \o end
    BY <2>1, SliceCut
  <2>3. /\ end \in Seq(Row) /\ Len(end) = N - (it + 2) + 1
        /\ \A k \in 1..N - (it + 2) + 1 : end[k] = list[(it + 2) + k - 1]
    BY <2>1, Slice
  <2>4. /\ c \in Seq(Row) /\ Len(c) = N - (it + 2) + 1
        /\ \A k \in 1..N - (it + 2) + 1 : c[k] = references[(it + 2) + k - 1]
    BY <1>1, <2>1, Slice
  <2>5. /\ one \in Seq(Row) /\ Len(one) = (it + 1) - (it + 1) + 1
        /\ \A k \in 1..(it + 1) - (it + 1) + 1 : one[k] = list[(it + 1) + k - 1]
    BY <2>1, Slice, Zenon
  <2> HIDE DEF end, one, c, N
  <2>6. end = c
    <3>1. ASSUME NEW k \in 1..Len(end) PROVE end[k] = c[k]
      <4>1. (it + 2) + k - 1 \in it + 2..N /\ k \in 1..N - (it + 2) + 1
        BY <1>1, <2>1, <2>3, <3>1
      <4> QED
        BY <1>3, <2>3, <2>4, <4>1
    <3> QED
      BY <2>3, <2>4, <3>1, SeqEqual, Zenon
  <2>7. one = <<list[it + 1]>>
    <3> DEFINE e == list[it + 1]
               other == <<e>>
    <3>1. e \in Row /\ (it + 1) + 1 - 1 = it + 1
      BY <1>1, <1>3
    <3> HIDE DEF e
    <3>2. other \in Seq(Row) /\ Len(other) = 1 /\ other[1] = e
      BY <3>1
    <3>3. Len(one) = 1 /\ one[1] = e
      BY <2>1, <2>5, <3>1 DEF e
    <3> HIDE DEF other
    <3>4. one = other
      BY <2>5, <3>2, <3>3, SeqEqual
    <3> QED
      BY <3>4 DEF other, e
  <2> QED
    BY <2>1, <2>2, <2>6, <2>7, Zenon DEF one
<1>4. RestPart = (a \o <<x, y>>) \o c
  <2>1. it \in read..N + 1 /\ it + 1 \in it..N + 1 /\ N \in read - 1..N /\ N \in it - 1..N /\ it \in 1..N + 1
        /\ (it + 1) - 1 = it
    BY <1>1
  <2>2. RestPart = a \o SubSeq(references, it, N)
    BY <1>1, <2>1, SliceCut, Zenon DEF RestPart
  <2>3. SubSeq(references, it, N) = SubSeq(references, it, (it + 1) - 1) \o SubSeq(references, it + 1, N)
    BY <1>1, <2>1, SliceCut
  <2>4. SubSeq(references, it + 1, N) = <<y>> \o c
    BY <1>1, <1>3, Zenon
  <2>5. SubSeq(references, it, it) = <<x>>
    <3> DEFINE one == SubSeq(references, it, it)
               other == <<x>>
    <3>1. it \in it - 1..Len(references) /\ it - it + 1 = 1 /\ it + 1 - 1 = it
      BY <1>1
    <3>2. /\ one \in Seq(Row) /\ Len(one) = it - it + 1 /\ \A k \in 1..it - it + 1 : one[k] = references[it + k - 1]
      BY <1>1, <2>1, <3>1, Slice
    <3> HIDE DEF one, x
    <3>3. other \in Seq(Row) /\ Len(other) = 1 /\ other[1] = x
      BY <1>1
    <3>4. Len(one) = 1 /\ one[1] = x
      BY <3>1, <3>2 DEF x
    <3> HIDE DEF other
    <3>5. one = other
      BY <3>2, <3>3, <3>4, SeqEqual
    <3> QED
      BY <3>5 DEF one, other
  <2> HIDE DEF a, c, x, y, N
  <2>6. SubSeq(references, it, N) = <<x>> \o (<<y>> \o c)
    BY <2>1, <2>3, <2>4, <2>5, Zenon
  <2>7. <<x>> \in Seq(Row) /\ <<y>> \in Seq(Row) /\ <<x>> \o <<y>> = <<x, y>>
    BY <1>1, PairJoined
  <2>8. <<x>> \o (<<y>> \o c) = <<x, y>> \o c
    <3> DEFINE p == <<x>>
               q == <<y>>
    <3>1. p \in Seq(Row) /\ q \in Seq(Row) /\ p \o q = <<x, y>>
      BY <2>7
    <3> HIDE DEF p, q
    <3>2. p \in Seq(Row) /\ q \in Seq(Row) /\ c \in Seq(Row)
      BY <1>2, <3>1
    <3>3. (p \o q) \o c = p \o (q \o c)
      BY <3>2, ConcatAssociative, SMTT(30)
    <3> QED
      BY <3>1, <3>3, Zenon DEF p, q
  <2>9. <<x, y>> \in Seq(Row)
    BY <1>1
  <2> QED
    <3> DEFINE p == <<x, y>>
    <3>1. p \in Seq(Row) /\ RestPart = a \o (p \o c)
      BY <2>2, <2>6, <2>8, <2>9, Zenon
    <3> HIDE DEF p
    <3>2. a \in Seq(Row) /\ p \in Seq(Row) /\ c \in Seq(Row)
      BY <1>2, <3>1
    <3>3. (a \o p) \o c = a \o (p \o c)
      BY <3>2, ConcatAssociative
    <3> QED
      BY <3>1, <3>3, Zenon DEF p
<1> QED
  BY <1>1, <1>2, <1>3, <1>4, Zenon DEF SplitAt

(* Before the two there is at most one reference of a place, and what is before them and
   what is behind them is at other places, but for those at theirs. *)
LEMMA GroupsAround ==
    ASSUME ListInv(PlaceOrder), step = "simplify", NEW it \in read..Len(references) - 1,
           \A k \in read..it - 1 : ~SamePlace(references[k], references[k + 1]),
           NEW a, NEW x, NEW y, NEW c, SplitAt(it, a, x, y, c), NEW r \in Row
    PROVE  /\ Len(Group(r, a)) <= 1
           /\ ~SamePlace(r, x) => Group(r, a) = <<>> \/ Group(r, c) = <<>>
<1> DEFINE N == Len(references)
<1>1. /\ references \in Seq(Row) /\ N \in Nat /\ DOMAIN references = 1..N /\ read \in 1..N + 1 /\ it \in Nat
      /\ read <= it /\ it + 1 <= N /\ 1 <= it /\ read \in Nat /\ write \in 1..read
  BY DEF ListInv
<1>2. /\ a \in Seq(Row) /\ Len(a) = it - read /\ \A k \in 1..it - read : a[k] = references[read + k - 1]
  <2>1. it - 1 \in read - 1..Len(references) /\ it - 1 - read + 1 = it - read
    BY <1>1
  <2>2. a = SubSeq(references, read, it - 1)
    BY DEF SplitAt
  <2> HIDE DEF N
  <2>3. /\ a \in Seq(Row) /\ Len(a) = it - 1 - read + 1
        /\ \A k \in 1..it - 1 - read + 1 : a[k] = references[read + k - 1]
    BY <1>1, <2>1, <2>2, Slice
  <2> QED
    BY <2>1, <2>3
<1>3. /\ c \in Seq(Row) /\ Len(c) = N - (it + 2) + 1 /\ \A k \in 1..N - (it + 2) + 1 : c[k] = references[(it + 2) + k - 1]
  <2>1. it + 2 \in 1..Len(references) + 1 /\ N \in (it + 2) - 1..Len(references)
    BY <1>1
  <2>2. c = SubSeq(references, it + 2, N)
    BY DEF SplitAt
  <2> QED
    BY <1>1, <2>1, <2>2, Slice, Zenon
<1>4. x \in Row /\ x = references[it]
  BY DEF SplitAt
<1> HIDE DEF N
<1>5. ASSUME NEW j \in read..N, NEW k \in read..N, j < k
      PROVE  <<Spot(references[j]), Spot(references[k])>> \in PlaceOrder
  <2>1. j \in DOMAIN references /\ k \in DOMAIN references /\ read <= j /\ read <= k
    BY <1>1
  <2> QED
    BY <1>5, <2>1 DEF ListInv, Standing
<1>6. InOrder(PlaceOrder, a)
  <2> SUFFICES ASSUME NEW j \in DOMAIN a, NEW k \in DOMAIN a, j < k
               PROVE  <<Spot(a[j]), Spot(a[k])>> \in PlaceOrder
    BY DEF InOrder
  <2>1. it \in Nat /\ read \in Nat /\ N \in Nat /\ it <= N /\ read <= it
    BY <1>1
  <2>2. DOMAIN a = 1..it - read
    BY <1>2, <2>1
  <2>3. j \in 1..it - read /\ k \in 1..it - read
    BY <2>2
  <2>7. ASSUME NEW m \in Nat, NEW n \in Nat, m \in 1..it - read, n \in 1..it - read, m < n
        PROVE  read + m - 1 \in read..N /\ read + n - 1 \in read..N /\ read + m - 1 < read + n - 1
    BY <2>1, <2>7
  <2>8. j \in Nat /\ k \in Nat
    BY <2>3
  <2>4. read + j - 1 \in read..N /\ read + k - 1 \in read..N /\ read + j - 1 < read + k - 1
    BY <2>3, <2>7, <2>8
  <2>5. <<Spot(references[read + j - 1]), Spot(references[read + k - 1])>> \in PlaceOrder
    BY <1>5, <2>4
  <2>6. a[j] = references[read + j - 1] /\ a[k] = references[read + k - 1]
    BY <1>2, <2>3
  <2> QED
    BY <2>5, <2>6
<1>7. \A k \in 1..Len(a) - 1 : ~SamePlace(a[k], a[k + 1])
  <2> SUFFICES ASSUME NEW k \in 1..Len(a) - 1 PROVE ~SamePlace(a[k], a[k + 1])
    BY Zenon
  <2> DEFINE m == read + k - 1
  <2>1. /\ k \in 1..it - read /\ k + 1 \in 1..it - read /\ m \in read..it - 1
        /\ read + (k + 1) - 1 = m + 1
    BY <1>1, <1>2
  <2>2. a[k] = references[m] /\ a[k + 1] = references[m + 1]
    BY <1>2, <2>1
  <2> HIDE DEF m
  <2> QED
    BY <2>1, <2>2
<1>8. Len(Group(r, a)) <= 1
  BY <1>2, <1>6, <1>7, GroupSingle, Zenon
<1>9. \A k \in DOMAIN a : Upto(a[k], x)
  <2> SUFFICES ASSUME NEW k \in DOMAIN a PROVE Upto(a[k], x)
    OBVIOUS
  <2>1. k \in 1..it - read /\ read + k - 1 \in read..N /\ it \in read..N /\ read + k - 1 < it
    BY <1>1, <1>2
  <2> QED
    BY <1>2, <1>4, <1>5, <2>1 DEF Upto
<1>10. \A k \in DOMAIN c : Upto(x, c[k])
  <2> SUFFICES ASSUME NEW k \in DOMAIN c PROVE Upto(x, c[k])
    OBVIOUS
  <2>1. /\ k \in 1..N - (it + 2) + 1 /\ (it + 2) + k - 1 \in read..N /\ it \in read..N
        /\ it < (it + 2) + k - 1
    BY <1>1, <1>3
  <2> QED
    BY <1>3, <1>4, <1>5, <2>1, Zenon DEF Upto
<1>11. ~SamePlace(r, x) => Group(r, a) = <<>> \/ Group(r, c) = <<>>
  BY <1>2, <1>3, <1>4, <1>9, <1>10, GroupsApart, Zenon
<1> QED
  BY <1>8, <1>11

(* What the references of a place become, whether an iteration leaves one of the two
   neighbours (z) or only goes past the first (x). *)
LEMMA PlaceLeft ==
    ASSUME NEW it, NEW a, NEW x, NEW y, NEW c, SplitAt(it, a, x, y, c), SamePlace(x, y), NEW kept \in Seq(Row),
           NEW r \in Row, Loaded \in Seq(Row), PlaceIsKept(r, kept, (a \o <<x, y>>) \o c),
           Len(Group(r, a)) <= 1,
           ~SamePlace(r, x) => Group(r, a) = <<>> \/ Group(r, c) = <<>>
    PROVE  /\ ~Discards(x, y) => PlaceIsKept(r, kept \o (a \o <<x>>), <<y>> \o c)
           /\ Discards(x, y) => PlaceIsKept(r, kept \o a, <<IF Swaps(x, y) THEN x ELSE y>> \o c)
<1> SUFFICES ASSUME Len(Group(r, Loaded)) <= 2
    PROVE  /\ ~Discards(x, y) => PlaceKept(Group(r, Loaded), Group(r, kept \o (a \o <<x>>)), Group(r, <<y>> \o c))
           /\ Discards(x, y) => PlaceKept(Group(r, Loaded), Group(r, kept \o a),
                                          Group(r, <<IF Swaps(x, y) THEN x ELSE y>> \o c))
  BY DEF PlaceIsKept
<1> DEFINE all == Group(r, Loaded)
           k == Group(r, kept)
           ga == Group(r, a)
           gc == Group(r, c)
           z == IF Swaps(x, y) THEN x ELSE y
           near == SamePlace(r, x)
           of(s) == Group(r, <<s>>)
           two == Group(r, <<x, y>>)
<1>1. a \in Seq(Row) /\ c \in Seq(Row) /\ x \in Row /\ y \in Row /\ z \in Row
  BY Zenon DEF SplitAt
<1>2. all \in Seq(Row) /\ k \in Seq(Row) /\ ga \in Seq(Row) /\ gc \in Seq(Row)
  BY <1>1, Groups, Zenon
<1>3. \A s \in Row : <<s>> \in Seq(Row)
  OBVIOUS
<1>4. near <=> SamePlace(r, y)
  BY DEF SamePlace
<1>5. /\ of(x) = IF near THEN <<x>> ELSE <<>>
      /\ of(y) = IF near THEN <<y>> ELSE <<>>
      /\ of(z) = IF near THEN <<z>> ELSE <<>>
  <2>1. SamePlace(r, z) <=> near
    BY <1>4
  <2> HIDE DEF z, near
  <2> QED
    BY <1>1, <1>4, <2>1, GroupOfOne DEF near
<1>6. two = of(x) \o of(y)
  <2>1. <<x>> \o <<y>> = <<x, y>>
    BY <1>1, PairJoined
  <2>2. Group(r, <<x>> \o <<y>>) = of(x) \o of(y)
    BY <1>1, <1>3, Groups, Zenon
  <2> QED
    BY <2>1, <2>2, Zenon
<1>7. /\ Group(r, (a \o <<x, y>>) \o c) = (ga \o two) \o gc
      /\ Group(r, kept \o (a \o <<x>>)) = k \o (ga \o of(x))
      /\ Group(r, kept \o a) = k \o ga
      /\ Group(r, <<y>> \o c) = of(y) \o gc
      /\ Group(r, <<z>> \o c) = of(z) \o gc
  <2>1. /\ <<x, y>> \in Seq(Row) /\ a \o <<x, y>> \in Seq(Row) /\ a \o <<x>> \in Seq(Row)
        /\ <<x>> \in Seq(Row) /\ <<y>> \in Seq(Row) /\ <<z>> \in Seq(Row)
    BY <1>1, <1>3
  <2> HIDE DEF z
  <2>2. Group(r, (a \o <<x, y>>) \o c) = (ga \o two) \o gc
    <3>1. Group(r, (a \o <<x, y>>) \o c) = Group(r, a \o <<x, y>>) \o gc
      BY <1>1, <2>1, Groups, Zenon
    <3>2. Group(r, a \o <<x, y>>) = ga \o two
      BY <1>1, <2>1, Groups, ZenonT(30)
    <3> QED
      BY <3>1, <3>2, Zenon
  <2>3. Group(r, kept \o (a \o <<x>>)) = k \o (ga \o of(x))
    <3>1. Group(r, kept \o (a \o <<x>>)) = k \o Group(r, a \o <<x>>)
      BY <1>1, <2>1, Groups, ZenonT(30)
    <3>2. Group(r, a \o <<x>>) = ga \o of(x)
      BY <1>1, <2>1, Groups, ZenonT(30)
    <3> QED
      BY <3>1, <3>2, Zenon
  <2>4. Group(r, kept \o a) = k \o ga
    BY <1>1, Groups, Zenon
  <2>5. Group(r, <<y>> \o c) = of(y) \o gc
    BY <1>1, <2>1, Groups, ZenonT(30)
  <2>6. Group(r, <<z>> \o c) = of(z) \o gc
    BY <1>1, <2>1, Groups, ZenonT(30)
  <2> QED
    BY <2>2, <2>3, <2>4, <2>5, <2>6, Zenon
<1>8. PlaceKept(all, k, (ga \o two) \o gc)
  BY <1>7, Zenon DEF PlaceIsKept
<1>9. Len(all) <= 2 /\ Len(ga) <= 1 /\ (~near => ga = <<>> \/ gc = <<>>)
  OBVIOUS
<1>10. /\ ~Discards(x, y) => PlaceKept(<<x, y>>, <<x>>, <<y>>)
       /\ Discards(x, y) => PlaceKept(<<x, y>>, <<>>, <<z>>)
  BY <1>1, PlaceDecided, Zenon
<1> HIDE DEF all, k, ga, gc, z, near, of, two
<1>11. ASSUME NEW q \in Seq(Row) PROVE q \o <<>> = q /\ <<>> \o q = q
  BY ConcatEmptySeq
<1>12. CASE near
  <2>1. two = <<x, y>>
    BY <1>1, <1>5, <1>6, <1>12, PairJoined, Zenon
  <2>2. k = <<>> /\ ga = <<>> /\ gc = <<>> /\ all = <<x, y>>
    BY <1>1, <1>2, <1>8, <1>9, <2>1, PlaceOfTwo, Zenon
  <2>3. k \o (ga \o of(x)) = <<x>> /\ of(y) \o gc = <<y>> /\ k \o ga = <<>> /\ of(z) \o gc = <<z>>
    <3>1. <<x>> \in Seq(Row) /\ <<y>> \in Seq(Row) /\ <<z>> \in Seq(Row) /\ <<>> \in Seq(Row)
      BY <1>1, <1>3
    <3> QED
      BY <1>5, <1>11, <1>12, <2>2, <3>1
  <2> QED
    BY <1>7, <1>10, <2>2, <2>3, Zenon DEF all, z
<1>13. CASE ~near
  <2>1. of(x) = <<>> /\ of(y) = <<>> /\ of(z) = <<>>
    BY <1>5, <1>13
  <2>2. two = <<>>
    BY <1>6, <2>1
  <2>3. /\ (ga \o two) \o gc = ga \o gc /\ k \o (ga \o of(x)) = k \o ga
        /\ of(y) \o gc = gc /\ of(z) \o gc = gc
    BY <1>2, <1>11, <2>1, <2>2
  <2>4. PlaceKept(all, k \o ga, gc)
    BY <1>2, <1>8, <1>9, <1>13, <2>3, PlaceMoved
  <2> QED
    BY <1>7, <2>3, <2>4, Zenon DEF all, z
<1> QED
  BY <1>12, <1>13

LEMMA PlacesSimplified ==
    ASSUME ListInv(PlaceOrder), PlacesInv, Simplify, Loaded \in Seq(Row)
    PROVE  PlacesInv'
<1> DEFINE N == Len(references)
<1>1. /\ step = "simplify" /\ step' = "simplify" /\ read <= N /\ references \in Seq(Row) /\ N \in Nat
      /\ DOMAIN references = 1..N /\ read \in 1..N /\ write \in 1..read /\ UNCHANGED db
  BY DEF Simplify, ListInv
<1>2. Loaded' = Loaded
  BY <1>1 DEF Loaded
<1>3. SUFFICES ASSUME NEW r \in Row PROVE PlaceIsKept(r, KeptPart, RestPart)'
  BY <1>1 DEF PlacesInv
<1>4. PlaceIsKept(r, KeptPart, RestPart)
  BY <1>1 DEF PlacesInv
<1>5. CASE Adjacent = {}
  BY <1>5, RestKept
<1>6. CASE Adjacent # {}
  <2>1. PICK it \in read..Len(references) - 1 :
            /\ it = Min(Adjacent)
            /\ SamePlace(references[it], references[it + 1])
            /\ \A k \in read..it - 1 : ~SamePlace(references[k], references[k + 1])
    BY <1>1, <1>6, FirstAdjacent
  <2> DEFINE a == SubSeq(references, read, it - 1)
             x == references[it]
             y == references[it + 1]
             c == SubSeq(references, it + 2, Len(references))
             z == IF Swaps(x, y) THEN x ELSE y
             list == IF Swaps(x, y) THEN Swapped(references, it) ELSE references
  <2>2. SplitAt(it, a, x, y, c)
    BY <1>1, RestAround, Zenon
  <2>3. \A q \in Seq(Row) :
            (Len(q) = Len(references) /\ \A k \in it + 2..Len(references) : q[k] = references[k])
            => SubSeq(q, it + 1, Len(references)) = <<q[it + 1]>> \o c
    BY <1>1, RestAround, Zenon
  <2>4. /\ Len(Group(r, a)) <= 1
        /\ ~SamePlace(r, x) => Group(r, a) = <<>> \/ Group(r, c) = <<>>
    <3> HIDE DEF a, x, y, c
    <3> QED
      BY <1>1, <2>1, <2>2, GroupsAround
  <2>5. KeptPart \in Seq(Row)
    BY <1>1, Halves DEF KeptPart
  <2>6. PlaceIsKept(r, KeptPart, (a \o <<x, y>>) \o c)
    <3>1. RestPart = (a \o <<x, y>>) \o c
      BY <2>2 DEF SplitAt
    <3> HIDE DEF a, x, y, c
    <3> QED
      BY <1>4, <3>1
  <2>7. /\ ~Discards(x, y) => PlaceIsKept(r, KeptPart \o (a \o <<x>>), <<y>> \o c)
        /\ Discards(x, y) => PlaceIsKept(r, KeptPart \o a, <<z>> \o c)
    <3>1. SamePlace(x, y)
      BY <2>1
    <3> HIDE DEF a, x, y, c
    <3> QED
      BY <2>2, <2>4, <2>5, <2>6, <3>1, PlaceLeft, Zenon DEF z
  <2>8. CASE ~Discards(x, y)
    <3>1. Keep(references, it + 1, it + 1)
      BY <1>6, <2>1, <2>8 DEF Simplify
    <3>2. /\ it + 1 \in read..Len(references) + 1 /\ it + 1 \in it + 1..it + 1 + 1
          /\ it + 1 \in 1..Len(references) + 1 /\ (it + 1) - 1 = it /\ it \in Nat
          /\ it \in read - 1..Len(references) /\ it \in read..it + 1 /\ read \in 1..Len(references) + 1
      BY <1>1, <2>1
    <3>3. KeptPart' = KeptPart \o SubSeq(references, read, it) /\ RestPart' = SubSeq(references, it + 1, Len(references))
      <4>1. /\ KeptPart' = KeptPart \o SubSeq(references, read, (it + 1) - 1)
            /\ RestPart' = SubSeq(references, it + 1, Len(references))
        BY <1>1, <3>1, <3>2, PartsKept, Zenon
      <4> QED
        BY <3>2, <4>1, Zenon
    <3>4. SubSeq(references, it + 1, Len(references)) = <<y>> \o c
      BY <1>1, <2>3, Zenon
    <3>5. SubSeq(references, read, it) = a \o <<x>>
      <4>1. SubSeq(references, read, it) = a \o SubSeq(references, it, it)
        BY <1>1, <3>2, SliceCut
      <4> DEFINE one == SubSeq(references, it, it)
                 other == <<x>>
      <4>2. it \in 1..Len(references) + 1 /\ it \in it - 1..Len(references) /\ it - it + 1 = 1 /\ it + 1 - 1 = it
        BY <1>1, <2>1
      <4>3. /\ one \in Seq(Row) /\ Len(one) = it - it + 1 /\ \A k \in 1..it - it + 1 : one[k] = references[it + k - 1]
        BY <1>1, <4>2, Slice
      <4>4. x \in Row
        BY <2>2 DEF SplitAt
      <4> HIDE DEF one, x
      <4>5. other \in Seq(Row) /\ Len(other) = 1 /\ other[1] = x
        BY <4>4
      <4>6. Len(one) = 1 /\ one[1] = x
        BY <4>2, <4>3 DEF x
      <4> HIDE DEF other
      <4>7. one = other
        BY <4>3, <4>5, <4>6, SeqEqual
      <4> QED
        BY <4>1, <4>7 DEF one, other
    <3>6. PlaceIsKept(r, KeptPart \o (a \o <<x>>), <<y>> \o c)
      BY <2>7, <2>8
    <3>7. KeptPart' = KeptPart \o (a \o <<x>>) /\ RestPart' = <<y>> \o c
      <4> HIDE DEF a, x, y, c
      <4> QED
        BY <3>3, <3>4, <3>5, Zenon
    <3> HIDE DEF a, x, y, c
    <3> QED
      BY <1>2, <3>6, <3>7 DEF PlaceIsKept
  <2>9. CASE Discards(x, y)
    <3>1. Keep(list, it, it + 1)
      BY <1>6, <2>1, <2>9 DEF Simplify
    <3>2. /\ it \in read..Len(references) + 1 /\ it + 1 \in it..it + 1 /\ it + 1 \in 1..Len(references) + 1
          /\ it \in DOMAIN references /\ it + 1 \in DOMAIN references /\ it \in Nat
      BY <1>1, <2>1
    <3>3. /\ list \in Seq(Row) /\ Len(list) = Len(references) /\ list[it + 1] = z
          /\ \A k \in 1..it - 1 : list[k] = references[k]
          /\ \A k \in it + 2..Len(references) : list[k] = references[k]
      <4> DEFINE swapped == Swapped(references, it)
      <4>1. /\ swapped \in [1..N -> Row] /\ swapped[it + 1] = x
            /\ \A k \in 1..N : k # it /\ k # it + 1 => swapped[k] = references[k]
        BY <1>1, <3>2 DEF Swapped
      <4> HIDE DEF swapped
      <4>2. /\ swapped \in Seq(Row) /\ Len(swapped) = Len(references)
            /\ \A k \in 1..it - 1 : swapped[k] = references[k]
            /\ \A k \in it + 2..Len(references) : swapped[k] = references[k]
        <5>1. swapped \in Seq(Row) /\ Len(swapped) = N
          BY <1>1, <4>1
        <5>2. ASSUME NEW k \in 1..N, k # it, k # it + 1 PROVE swapped[k] = references[k]
          BY <4>1, <5>2
        <5> HIDE DEF N
        <5>3. /\ \A k \in 1..it - 1 : k \in 1..N /\ k # it /\ k # it + 1
              /\ \A k \in it + 2..N : k \in 1..N /\ k # it /\ k # it + 1
          BY <1>1, <2>1, <3>2 DEF N
        <5> QED
          BY <5>1, <5>2, <5>3, Zenon DEF N
      <4>3. list = IF Swaps(x, y) THEN swapped ELSE references
        BY DEF swapped
      <4> HIDE DEF list, x
      <4> QED
        BY <1>1, <4>1, <4>2, <4>3
    <3> HIDE DEF list, z
    <3>4. KeptPart' = KeptPart \o a /\ RestPart' = SubSeq(list, it + 1, Len(references))
      BY <1>1, <3>1, <3>2, <3>3, PartsKept, Zenon
    <3>5. SubSeq(list, it + 1, Len(references)) = <<z>> \o c
      BY <2>3, <3>3
    <3>6. PlaceIsKept(r, KeptPart \o a, <<z>> \o c)
      BY <2>7, <2>9
    <3> HIDE DEF a, x, y, c
    <3>7. KeptPart' = KeptPart \o a /\ RestPart' = <<z>> \o c
      BY <3>4, <3>5, Zenon
    <3> QED
      BY <1>2, <3>6, <3>7 DEF PlaceIsKept
  <2> QED
    BY <2>8, <2>9
<1> QED
  BY <1>5, <1>6

(* A place of which nothing is left to look at has what it should have. *)
LEMMA PlaceDone ==
    ASSUME NEW all \in Seq(Row), NEW k \in Seq(Row), PlaceKept(all, k, <<>>)
    PROVE  k = Simplified(all)
<1>1. CASE k = <<>> /\ <<>> = all
  <2>1. Len(all) = 0
    BY <1>1
  <2>2. Simplified(all) = all
    BY <2>1 DEF Simplified
  <2> QED
    BY <1>1, <2>2
<1>2. CASE k \o <<>> = Simplified(all)
  BY <1>2, ConcatEmptySeq
<1> QED
  BY <1>1, <1>2 DEF PlaceKept

LEMMA PlacesErased ==
    ASSUME ListInv(PlaceOrder), PlacesInv, EraseTail, Loaded \in Seq(Row)
    PROVE  PlacesInv'
<1>1. /\ step = "simplify" /\ step' = "head" /\ UNCHANGED db /\ references' = KeptPart
      /\ references \in Seq(Row) /\ Len(references) \in Nat /\ write \in 1..Len(references) + 1
      /\ read = Len(references) + 1
  BY DEF EraseTail, ListInv, KeptPart
<1>2. Loaded' = Loaded
  BY <1>1 DEF Loaded
<1>3. RestPart = <<>>
  BY <1>1 DEF RestPart
<1>4. KeptPart \in Seq(Row)
  BY <1>1, Halves DEF KeptPart
<1> SUFFICES ASSUME NEW r \in Row, Len(Group(r, Loaded)) <= 2
             PROVE  Group(r, KeptPart) = Simplified(Group(r, Loaded))
  BY <1>1, <1>2 DEF PlacesInv
<1> DEFINE all == Group(r, Loaded)
           k == Group(r, KeptPart)
<1>5. all \in Seq(Row) /\ k \in Seq(Row) /\ Group(r, <<>>) = <<>>
  BY <1>4, Groups
<1>6. PlaceKept(all, k, Group(r, RestPart))
  BY <1>1 DEF PlacesInv, PlaceIsKept
<1>7. PlaceKept(all, k, <<>>)
  BY <1>3, <1>5, <1>6
<1> HIDE DEF all, k
<1>8. k = Simplified(all)
  BY <1>5, <1>7, PlaceDone
<1> QED
  BY <1>8 DEF all, k

LEMMA PlacesLoaded ==
    ASSUME ListInv(PlaceOrder), Load, Loaded \in Seq(Row)
    PROVE  PlacesInv'
<1>1. /\ step = "load" /\ step' = "simplify" /\ UNCHANGED <<db, read, write>> /\ references' = Loaded
      /\ read = 1 /\ write = 1
  BY DEF Load, Loaded, ListInv
<1>2. Loaded' = Loaded
  BY <1>1 DEF Loaded
<1>3. KeptPart' = SubSeq(Loaded, 1, 0) /\ RestPart' = SubSeq(Loaded, 1, Len(Loaded))
  BY <1>1 DEF KeptPart, RestPart
<1> DEFINE list == Loaded
<1>4. list \in Seq(Row)
  OBVIOUS
<1> HIDE DEF list
<1>5. SubSeq(list, 1, 0) = <<>> /\ SubSeq(list, 1, Len(list)) = list
  BY <1>4
<1>6. KeptPart' = <<>> /\ RestPart' = Loaded
  BY <1>3, <1>5 DEF list
<1> SUFFICES ASSUME NEW r \in Row PROVE PlaceIsKept(r, KeptPart, RestPart)'
  BY <1>1 DEF PlacesInv
<1>7. PlaceKept(Group(r, Loaded), Group(r, <<>>), Group(r, Loaded))
  BY Groups DEF PlaceKept
<1> QED
  BY <1>2, <1>6, <1>7 DEF PlaceIsKept

LEMMA SamePlaces ==
    ASSUME PlacesInv, UNCHANGED <<db, references, read, write>>,
           \/ step' = step
           \/ step \notin {"load", "simplify"} /\ step' \notin {"load", "simplify"}
    PROVE  PlacesInv'
  BY DEF PlacesInv, PlaceIsKept, Loaded, KeptPart, RestPart

LEMMA PlacesStep ==
    SortedDatabase(PlaceOrder) /\ PageInv(PlaceOrder) /\ PlacesInv /\ Step => PlacesInv'
<1> SUFFICES ASSUME SortedDatabase(PlaceOrder), PageInv(PlaceOrder), PlacesInv, Step PROVE PlacesInv'
  OBVIOUS
<1>1. ListInv(PlaceOrder) /\ db \in Database
  BY DEF PageInv
<1>2. Loaded \in Seq(Row)
  <2>1. db \in Seq(Row) /\ PageInOrder(PlaceOrder, db)
    BY <1>1, PageAssumption DEF SortedDatabase
  <2> QED
    BY <2>1, LoadedInOrder DEF Loaded
<1>3. CASE Load
  BY <1>1, <1>2, <1>3, PlacesLoaded
<1>4. CASE Simplify
  BY <1>1, <1>2, <1>4, PlacesSimplified
<1>5. CASE EraseTail
  BY <1>1, <1>2, <1>5, PlacesErased
<1>6. CASE UNCHANGED <<db, references, read, write>> /\
           (step' = step \/ (step \notin {"load", "simplify"} /\ step' \notin {"load", "simplify"}))
  BY <1>6, SamePlaces
<1>7. CASE ~(Load \/ Simplify \/ EraseTail)
  <2>1. CASE WriteHead \/ EndLine \/ WritePage \/ ReadPastEnd \/ MakeCall \/ FillTable
    BY <1>6, <2>1 DEF WriteHead, EndLine, WritePage, ReadPastEnd, AtToken, MakeCall, FillTable, listVars, pageVars
  <2>2. CASE BeginLine \/ WriteInclude \/ WriteReference \/ WriteToken
    BY <1>6, <2>2 DEF BeginLine, WriteInclude, WriteReference, WriteToken, listVars
  <2>3. CASE SymbolPageNext
    BY <1>6, <2>3, Zenon DEF SymbolPageNext, StartSymbolPage, PageWritten, listVars
  <2>4. CASE UNCHANGED <<tableVars, pageVars, symbolVars>>
    BY <1>6, <2>4 DEF pageVars, listVars
  <2> QED
    BY <1>7, <2>1, <2>2, <2>3, <2>4 DEF Step, PagesNext, PageNext
<1> QED
  BY <1>3, <1>4, <1>5, <1>7

(* When the rows of a file are in the order of their places, simplifying the references keeps
   the right one of a class and its constructor and loses nothing else. *)
THEOREM OneNameOfSortedRows ==
    ASSUME SortedDatabase(PlaceOrder)
    PROVE  PagesSpec => []OneNamePerPlace
<1>1. PlacesInv /\ PageInv(PlaceOrder) => OneNamePerPlace
  <2> SUFFICES ASSUME PlacesInv, PageInv(PlaceOrder), step \notin {"load", "simplify"},
                      NEW r \in Range(Loaded), Len(At(Loaded, r)) <= 2
               PROVE  At(references, r) = Simplified(At(Loaded, r))
    BY DEF OneNamePerPlace, Loaded
  <2>1. db \in Seq(Row) /\ PageInOrder(PlaceOrder, db)
    BY PageAssumption DEF SortedDatabase, PageInv
  <2>2. Loaded \in Seq(Row) /\ references \in Seq(Row)
    BY <2>1, LoadedInOrder DEF Loaded, PageInv, ListInv
  <2>3. r \in Row
    <3> DEFINE list == Loaded
    <3>1. list \in Seq(Row) /\ r \in Range(list)
      BY <2>2
    <3> HIDE DEF list
    <3> QED
      BY <3>1 DEF Range
  <2>4. At(Loaded, r) = Group(r, Loaded) /\ At(references, r) = Group(r, references)
    BY <2>2, GroupIsAt
  <2> QED
    BY <2>3, <2>4 DEF PlacesInv
<1>2. PagesInit => PlacesInv
  BY DEF PagesInit, PageInit, PlacesInv
<1>3. PagesInit => PageInv(PlaceOrder)
  BY InitPage
<1>4. PlaceOrder \subseteq LineOrder
  BY DEF PlaceOrder, LineOrder
<1>5. SortedDatabase(PlaceOrder) /\ PageInv(PlaceOrder) /\ Step => PageInv(PlaceOrder)'
  BY <1>4, PageStep
<1> QED
  BY <1>1, <1>2, <1>3, <1>5, PlacesStep, PTL DEF PagesSpec, Step
=============================================================================
