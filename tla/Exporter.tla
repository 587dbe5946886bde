------------------------------- MODULE Exporter -------------------------------
(***************************************************************************)
(* SnapshotExporter::run (exporter/src/exporter.cpp): the root of the      *)
(* project is detected, then the pages of files, of folders and of symbols *)
(* are written one after the other.  The links between pages are relative  *)
(* paths; std::filesystem::relative looks at the working directory for     *)
(* them, wherever the output goes, so a link depends on what is there: an  *)
(* earlier export, folders of a build, and the pages written so far when   *)
(* the output goes there or above.                                         *)
(*                                                                         *)
(* A page is abstracted to its links.  The page of a file or of a symbol   *)
(* may link to any file and to any symbol.  What the code inside a file    *)
(* page looks like is in module FilePage.                                  *)
(***************************************************************************)
EXTENDS Folders, Paths

CONSTANTS Projects,  \* the lists of paths that a snapshot may hold
          Symbols,   \* the references (id and name) of the symbols, in the order of their ids
          WorkDirs,  \* what the working directory may be, seen from outputdir
          Present    \* the names that may be there before the first page is written

VARIABLES
    phase,
    project,   \* the paths of snapshot.files().all()
    readable,  \* the files with a content
    workdir,   \* the working directory: <<>> for outputdir itself, << <<"..">> >> for elsewhere
    present,   \* the names found there before the first page is written
    rootpath,
    paths,     \* file -> path of its page
    nbFiles,   \* how many files have been given one
    todo,      \* the folders whose page is not written yet
    nbSymbols, \* how many symbols have a page
    disk       \* path of a page -> its links

inputVars == <<project, readable, workdir, present>>
exportVars == <<phase, inputVars, rootpath, paths, nbFiles, folderVars, todo,
                nbSymbols, disk>>

Html == <<".html">>
Index == <<"index.html">>
File == Range(project)

ExportInit ==
    /\ phase = "root"
    /\ project \in Projects
    /\ readable \in SUBSET File
    /\ workdir \in WorkDirs /\ present \in SUBSET Present
    /\ rootpath = <<>>
    /\ paths = <<>> /\ nbFiles = 0
    /\ listed = {} /\ folders = {} /\ at = NoFolder
    /\ todo = {} /\ nbSymbols = 0
    /\ disk = <<>>
-----------------------------------------------------------------------------
(* what all paths share less one character, and the folder around that; but "C:" is
   no folder *)
RootOf(files) ==
    LET common == LongestCommonPrefix(files)
        shared == Front(common)
    IN  IF common = <<>> \/ (Len(shared) = 2 /\ Last(shared) = ":") THEN <<>>
        ELSE ParentPath(shared)

(* filePath of the exporter's path resolver *)
PageFrom(root, f) ==
    (IF root # <<>> /\ IsPrefix(root, f)
     THEN SubSeq(f, Len(root) + 2, Len(f)) ELSE RelativePath(f)) \o Html

ASSUME ExporterAssumption ==
    /\ {"/", ".html", "index.html", "symbols"} \subseteq Char
    /\ \A files \in Projects : \A f \in Range(files) : IsTidy(f) /\ f \notin {<<>>, <<"/">>}
    /\ \A files \in Projects : \A f, g \in Range(files) : RelativePath(f) = RelativePath(g) => f = g
    /\ \A d \in Folder : IsTidy(d) /\ Last(d) # ".html"
    /\ {".", "..", "cwd"} \cap Char = {}
    /\ Symbols \in Seq(Seq(Char \ {".html"}))
    /\ \A s \in Range(Symbols) :
          s # <<>> /\ Head(s) # "/" /\ \A k \in Slashes(s) : k + 1 \notin Slashes(s)
    /\ Projects \subseteq Seq(UNION {Range(files) : files \in Projects})
    /\ NoFolder = <<>>
    /\ \A d \in Folder : Parent(d) = ParentPath(d)
    /\ \A files \in Projects : \A f \in Range(files) :
          \A root \in {<<>>, RootOf(Range(files))} :
              ParentPath(PageFrom(root, f)) \in Folder \cup {NoFolder}

DetectRootPath ==
    /\ phase = "root"
    /\ rootpath' = IF project = <<>> THEN rootpath ELSE RootOf(File)
    /\ phase' = "files"
    /\ UNCHANGED <<inputVars, paths, nbFiles, folderVars, todo, nbSymbols, disk>>

PageOf(f) == PageFrom(rootpath, f)

(* the names that the pages written so far have brought into the working directory *)
NamesWritten == {Names(p)[Len(workdir) + 1] : p \in {p \in DOMAIN disk : IsStrictPrefix(workdir, Names(p))}}

(* the names in the working directory; a page is written after its links were made *)
Existing == present \cup NamesWritten

(* mutant of LinkTo: relative to the page and not to the folder it is in *)
LinkFromPage(page, other) == Relative(other, page, Existing)

LinkTo(page, other) == Relative(other, ParentPath(page), Existing)

FileLinks(page, files) == {[kind |-> "file", to |-> f, href |-> LinkTo(page, PageOf(f))] : f \in files}

(* pathToRoot() *)
PathToRoot(page) == [k \in 1..Cardinality(Slashes(page)) |-> <<"..">>]

(* a symbol may be called operator/ *)
SymbolPage(s) == <<"symbols", "/">> \o s \o Html

(* the files that include this one, the includes and the definitions; the script of the
   page makes the links to symbols *)
FilePageLinks(page) ==
    FileLinks(page, File) \cup
    {[kind |-> "symbol", to |-> SymbolPage(s),
      href |-> PathToRoot(page) \o Names(SymbolPage(s))] : s \in Range(Symbols)}

(* the parent, the bases and the derived classes *)
RelatedSymbols ==
    {[kind |-> "symbol", to |-> SymbolPage(s), href |-> Names(s \o Html)] : s \in Range(Symbols)}

(* the declarations, the definitions and the uses *)
MentionLinks(page) == FileLinks(page, File)

(* write_file: what the path held before is replaced *)
WriteFile(page, links) ==
    disk' = [p \in DOMAIN disk \cup {page} |-> IF p = page THEN links ELSE disk[p]]

(* a file without content has no page, but a path *)
WriteFilePage ==
    LET f == project[nbFiles + 1]
    IN  /\ phase = "files" /\ nbFiles < Len(project)
        /\ paths' = [g \in DOMAIN paths \cup {f} |-> PageOf(g)]
        /\ nbFiles' = nbFiles + 1
        /\ IF f \in readable THEN WriteFile(PageOf(f), FilePageLinks(PageOf(f)))
                             ELSE UNCHANGED disk
        /\ UNCHANGED <<phase, inputVars, rootpath, folderVars, todo, nbSymbols>>

ListPageFolders ==
    /\ phase = "files" /\ nbFiles = Len(project)
    /\ ListDirectories({ParentPath(paths[f]) : f \in File} \ {NoFolder})
    /\ phase' = "folders"
    /\ UNCHANGED <<inputVars, rootpath, paths, nbFiles, todo, nbSymbols, disk>>

CloseFolders ==
    /\ phase = "folders"
    /\ InsertParent \/ Advance
    /\ UNCHANGED <<phase, inputVars, rootpath, paths, nbFiles, todo, nbSymbols, disk>>

(* "ugly hack to get a homepage": the empty path *)
FoldersListed ==
    /\ phase = "folders" /\ at = NoFolder
    /\ todo' = folders \cup {NoFolder}
    /\ phase' = "pages"
    /\ UNCHANGED <<inputVars, rootpath, paths, nbFiles, folderVars, nbSymbols, disk>>
-----------------------------------------------------------------------------
(* filter_directory_content: the pages whose path begins like that of the folder,
   whether a name ends there or not *)
Matching(dir) == {f \in File : Len(paths[f]) > Len(dir) /\ IsPrefix(dir, paths[f])}

Depth(dir, f) == Cardinality({i \in Slashes(paths[f]) : i > Len(dir)})

(* the one slash of a page in the folder is that behind the folder's own path, which
   the home page has not *)
Contained(dir) == {f \in Matching(dir) : Depth(dir, f) = 1}

Nested(dir) == Matching(dir) \ Contained(dir)

(* mutant of NameStart: as if the home page had a folder and a slash too *)
NameBehindSlash(dir) == Len(dir) + 2

(* where the name of a nested folder begins in its path *)
NameStart(dir) == Len(dir) + (IF dir = <<>> THEN 1 ELSE 2)

(* substr() throws when it would begin behind the end *)
Throws(dir) == \E f \in Nested(dir) : NameStart(dir) > Len(ParentPath(paths[f])) + 1

FolderName(dir, f) == LET q == ParentPath(paths[f]) IN SubSeq(q, NameStart(dir), Len(q))

LinksToFolders(dir, files) ==
    {[kind |-> "folder", to |-> In(ParentPath(paths[f]), Index),
      href |-> Names(FolderName(dir, f) \o <<"/">> \o Index)] : f \in files}

(* mutant of FolderLinks: filter_folders finds the folder around another, and removes it *)
OutermostRemoved(dir) ==
    LinksToFolders(dir, {f \in Nested(dir) : \A g \in Nested(dir) :
        ~IsPrefix(FolderName(dir, f) \o <<"/">>, FolderName(dir, g))})

(* filter_folders removes none of them: its comparison is never true *)
FolderLinks(dir) == LinksToFolders(dir, Nested(dir))

(* the folder whose turn it is, in the order of the set *)
Turn(dir) == dir \in todo /\ \A e \in todo \ {dir} : PathBefore(dir, e)

WriteDirectoryPage(dir) ==
    LET page == In(dir, Index)
    IN  /\ phase = "pages" /\ Turn(dir) /\ ~Throws(dir)
        /\ WriteFile(page, FolderLinks(dir) \cup FileLinks(page, Contained(dir)))
        /\ todo' = todo \ {dir}
        /\ UNCHANGED <<phase, inputVars, rootpath, paths, nbFiles, folderVars, nbSymbols>>

(* std::out_of_range leaves run() *)
ThrowOutOfRange(dir) ==
    /\ phase = "pages" /\ Turn(dir) /\ Throws(dir)
    /\ phase' = "thrown"
    /\ UNCHANGED <<inputVars, rootpath, paths, nbFiles, folderVars, todo, nbSymbols, disk>>

DirectoryPagesWritten ==
    /\ phase = "pages" /\ todo = {}
    /\ phase' = "symbols"
    /\ UNCHANGED <<inputVars, rootpath, paths, nbFiles, folderVars, todo, nbSymbols, disk>>

WriteSymbolPage ==
    LET page == SymbolPage(Symbols[nbSymbols + 1])
    IN  /\ phase = "symbols" /\ nbSymbols < Len(Symbols)
        /\ WriteFile(page, MentionLinks(page) \cup RelatedSymbols)
        /\ nbSymbols' = nbSymbols + 1
        /\ UNCHANGED <<phase, inputVars, rootpath, paths, nbFiles, folderVars, todo>>

SymbolPagesWritten ==
    /\ phase = "symbols" /\ nbSymbols = Len(Symbols)
    /\ phase' = "done"
    /\ UNCHANGED <<inputVars, rootpath, paths, nbFiles, folderVars, todo, nbSymbols, disk>>
-----------------------------------------------------------------------------
ExportNext ==
    \/ DetectRootPath \/ WriteFilePage
    \/ ListPageFolders \/ CloseFolders \/ FoldersListed
    \/ \E dir \in todo : WriteDirectoryPage(dir) \/ ThrowOutOfRange(dir)
    \/ DirectoryPagesWritten \/ WriteSymbolPage \/ SymbolPagesWritten

ExportSpec == ExportInit /\ [][ExportNext]_exportVars
-----------------------------------------------------------------------------
(* Pages whose path is absolute: the detected root is "/", which filePath cuts as if a
   name ended there, and takes the first character of the next name with it. *)
RootIsSlash == rootpath = <<"/">>

(* relative() looks up the first names of both paths, in the working directory: one of them
   is there, and was not there for both, so that it takes one path as absolute and the
   other as relative.  Then they begin with different names. *)
TakenApart(page, other) ==
    LET base   == Names(ParentPath(page))
        target == Names(other)
    IN  /\ base = <<>> \/ Head(base) # Head(target)
        /\ Exists(base, Existing) \/ Exists(target, Existing)
        /\ ~(Exists(base, present) /\ Exists(target, present))

(* Every link that was written leads to the page of its file, and of no other, or to the
   page of its symbol, which is there in the end.  A link may be empty only between two
   folders that the working directory tells apart, whichever files it held before and
   whatever the export has put there; and the page of a symbol with a slash in its name is
   in a folder of its own, from where links to other symbols lead nowhere. *)
LinksLead ==
    phase \in {"done", "thrown"} =>
        \A page \in DOMAIN disk : \A link \in disk[page] :
            /\ link.kind = "file" =>
                /\ \A f \in File \ {link.to} : PageOf(f) # PageOf(link.to)
                /\ \/ Follow(Names(page), link.href) = Names(PageOf(link.to))
                   \/ link.href = <<>> /\ TakenApart(page, PageOf(link.to))
                   \/ RootIsSlash
            /\ link.kind = "symbol" =>
                /\ phase = "done" => link.to \in DOMAIN disk
                /\ \/ Follow(Names(page), link.href) = Names(link.to)
                   \/ RootIsSlash
                   \/ page \in {SymbolPage(s) : s \in {s \in Range(Symbols) : Slashes(s) # {}}}

Around(p) == {d \in Folder \cup {NoFolder} : IsPrefix(Names(d), Front(Names(p)))}

(* The page of a file is found from the home page, and from every folder around it: each
   of them has a page that lists the file or leads to the page of its folder.  Not so a
   file at the root, which the home page takes for the file of a nested folder. *)
ListedFromAbove ==
    phase \in {"symbols", "done"} /\ ~RootIsSlash =>
        \A f \in File : ParentPath(paths[f]) # NoFolder =>
            LET own == ParentPath(paths[f])
            IN  \A d \in Around(paths[f]) :
                    /\ In(d, Index) \in DOMAIN disk
                    /\ \E link \in disk[In(d, Index)] :
                          \/ link.kind = "file" /\ link.to = f
                          \/ d # own /\ Follow(Names(In(d, Index)), link.href) = Names(In(own, Index))

(* A page beside a folder whose name begins like the folder's: foo.cpp beside foo. *)
NamedLikeFolder(d, f) ==
    /\ Front(Names(paths[f])) = Front(Names(d))
    /\ IsStrictPrefix(Last(Names(d)), Last(Names(paths[f])))

(* The pages of folders are not completed when a file lies beside a folder with whose
   name its own begins, and otherwise they are, but for projects whose root is "/". *)
ThrowsForLikeNames ==
    LET alike == \E d \in folders, f \in File : NamedLikeFolder(d, f)
    IN  /\ phase = "thrown" => alike \/ RootIsSlash
        /\ phase \in {"symbols", "done"} => ~alike
=============================================================================
