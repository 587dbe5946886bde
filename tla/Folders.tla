------------------------------- MODULE Folders -------------------------------
(***************************************************************************)
(* list_directories_recursive (exporter/src/exporter.cpp): the folders     *)
(* that hold pages, and with them every folder around one of them.  The    *)
(* code walks a std::set and inserts into it what it finds missing; since  *)
(* a folder sorts before what it holds, it then goes back to the folder    *)
(* just inserted.                                                          *)
(***************************************************************************)
EXTENDS FiniteSets

CONSTANTS Folder,        \* the paths of folders
          NoFolder,      \* the empty path: the parent of a top folder, and end()
          Parent(_),     \* parent_path()
          Before(_, _)   \* the order of the set

ASSUME FoldersAssumption ==
    /\ NoFolder \notin Folder
    /\ \A d \in Folder :
        /\ ~Before(d, d)
        /\ Parent(d) \in Folder \cup {NoFolder}
        /\ Parent(d) \in Folder \ {d} => Before(Parent(d), d)
    /\ \A c, d \in Folder : c = d \/ Before(c, d) \/ Before(d, c)
    /\ \A c, d, e \in Folder : Before(c, d) /\ Before(d, e) => Before(c, e)

VARIABLES
    listed,   \* the result of list_directories
    folders,  \* the set
    at        \* the iterator

folderVars == <<listed, folders, at>>

IsFirst(d, S) ==
    IF S = {} THEN d = NoFolder ELSE d \in S /\ \A e \in S \ {d} : Before(d, e)

Behind(d) == {e \in folders : Before(d, e)}

(* list_directories, and the iterator at the begin *)
ListDirectories(S) ==
    /\ listed' = S /\ folders' = S
    /\ at' \in S \cup {NoFolder} /\ IsFirst(at', S)

FoldersInit ==
    /\ listed \in SUBSET Folder
    /\ folders = listed
    /\ at \in listed \cup {NoFolder} /\ IsFirst(at, listed)

Missing(d) == Parent(d) # NoFolder /\ Parent(d) \notin folders

(* mutant of InsertParent: the walk goes on behind the folder it stands at *)
InsertParentOnly ==
    /\ at # NoFolder /\ Missing(at)
    /\ folders' = folders \cup {Parent(at)}
    /\ at' \in folders \cup {NoFolder} /\ IsFirst(at', Behind(at))
    /\ UNCHANGED listed

(* it = newit *)
InsertParent ==
    /\ at # NoFolder /\ Missing(at)
    /\ folders' = folders \cup {Parent(at)}
    /\ at' = Parent(at)
    /\ UNCHANGED listed

(* ++it *)
Advance ==
    /\ at # NoFolder /\ ~Missing(at)
    /\ at' \in folders \cup {NoFolder} /\ IsFirst(at', Behind(at))
    /\ UNCHANGED <<listed, folders>>

FoldersNext == InsertParent \/ Advance

FoldersSpec == FoldersInit /\ [][FoldersNext]_folderVars
-----------------------------------------------------------------------------
FoldersTypeOK ==
    /\ listed \subseteq folders /\ folders \subseteq Folder
    /\ at \in folders \cup {NoFolder}

(* When the walk is over the set holds the folder around each of its folders, and
   it never holds a folder without a page or another folder of the set in it. *)
FoldersAreRight ==
    /\ at = NoFolder => \A d \in folders : ~Missing(d)
    /\ \A d \in folders \ listed : \E c \in folders \ {d} : Parent(c) = d
=============================================================================
