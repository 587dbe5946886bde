--------------------------- MODULE IncludeIndexing ---------------------------
(***************************************************************************)
(* The files of a translation unit (indexer/src/indexer.cpp): libclang     *)
(* reports the main file and every #include, nested ones too, before it    *)
(* reports symbols (module SymbolIndexing, which this one extends).  The   *)
(* indexer looks each file up in the snapshot, where the scanner has put   *)
(* the files of the solution, and leaves its File as client data: what is  *)
(* in a file without one is skipped.  The main thread writes the includes  *)
(* of a unit to two tables, one by unit and one for all units.             *)
(*                                                                         *)
(* The preprocessor enters a file once in a unit, as header guards make it *)
(* do, but reports each #include; what a line includes is up to the        *)
(* include directories and macros of the unit.  Ids of files are places in *)
(* the list here, and lines without an #include are left out.  A file that *)
(* two projects of the solution list is in it twice (sln.cpp, see module   *)
(* SolutionScan).                                                          *)
(***************************************************************************)
EXTENDS SymbolIndexing

CONSTANTS Path,
          Text,   \* of each file, the files that each of its lines may include
          Listed, \* the files the scanner has put into the snapshot, in that order
          Mains   \* of each unit, its main file

ASSUME IncludeAssumption ==
    /\ Text \in [Path -> Seq(SUBSET Path)]
    /\ Listed \in Seq(Path)
    /\ Mains \subseteq [Unit -> Range(Listed)]

VARIABLES
    main,        \* the main file of each unit
    files,       \* Snapshot::files()
    at,          \* of each unit, the files the preprocessor is in, and the lines
    entered,     \* of each unit, the files it has entered
    clientData,  \* of each unit, the files with a File, and its place in the list
    newFiles,    \* result.files
    includes,    \* result.includes
    ppinclude,   \* rows of table ppinclude: unit, file, line, included file
    include      \* rows of table include: file, line, included file

inclusionVars == <<at, entered, clientData, newFiles, includes>>
includeVars == <<main, files, inclusionVars, ppinclude, include>>

IncludeInit ==
    /\ main \in Mains
    /\ files = Listed
    /\ at = [u \in Unit |-> <<>>] /\ entered = [u \in Unit |-> {}]
    /\ clientData = at /\ newFiles = at /\ includes = at
    /\ ppinclude = {} /\ include = {}
-----------------------------------------------------------------------------
(* nobody sets it *)
CollectAll == TRUE      \* mutant of collect_new_files
collect_new_files == FALSE

(* getFile: the first file of the path or, would it collect them, one that is new *)
Found(path) == path \in Range(files) \/ collect_new_files

FileId(u, path) ==
    IF path \in Range(files) THEN Min({k \in DOMAIN files : files[k] = path})
    ELSE Len(files) + Len(newFiles[u]) + 1

GetFile(u, path) ==
    newFiles' = IF Found(path) /\ path \notin Range(files)
                THEN [newFiles EXCEPT ![u] = Append(@, path)] ELSE newFiles

(* the task starts, and enteredMainFile *)
StartUnit(u) ==
    /\ Start(u)
    /\ at' = [at EXCEPT ![u] = <<[file |-> main[u], line |-> 1]>>]
    /\ entered' = [entered EXCEPT ![u] = {main[u]}]
    /\ clientData' = [clientData EXCEPT ![u] = With(@, main[u], FileId(u, main[u]))]
    /\ UNCHANGED <<main, files, newFiles, includes, ppinclude, include>>

In(u) == Last(at[u])

(* ppIncludedFile: the include is kept when both files have an id *)
PpIncludedFile(u, path) ==
    /\ at[u] # <<>> /\ In(u).line <= Len(Text[In(u).file]) /\ path \in Text[In(u).file][In(u).line]
    /\ GetFile(u, path)
    /\ IF Found(path)
       THEN /\ clientData' = [clientData EXCEPT ![u] = With(@, path, FileId(u, path))]
            /\ includes' = IF In(u).file \in DOMAIN clientData[u]
                           THEN [includes EXCEPT ![u] = Append(@,
                                    <<clientData[u][In(u).file], In(u).line, FileId(u, path)>>)]
                           ELSE includes
       ELSE UNCHANGED <<clientData, includes>>
    /\ LET next == [at[u] EXCEPT ![Len(at[u])].line = @ + 1]
       IN  at' = [at EXCEPT ![u] =
                     IF path \in entered[u] THEN next ELSE Append(next, [file |-> path, line |-> 1])]
    /\ entered' = [entered EXCEPT ![u] = @ \cup {path}]
    /\ UNCHANGED <<main, files, ppinclude, include>>

LeaveFile(u) ==
    /\ at[u] # <<>> /\ In(u).line > Len(Text[In(u).file])
    /\ at' = [at EXCEPT ![u] = Front(@)]
    /\ UNCHANGED <<main, files, entered, clientData, newFiles, includes, ppinclude, include>>

Preprocessed(u) == at[u] = <<>>

(* bound: a unit with includes has no symbols; the reports of the two kinds have only
   the order of the units in common *)
MayReport(u) == Text[main[u]] = <<>>

ReportSymbols(u) ==
    /\ Preprocessed(u)
    /\ \/ GetParent(u) \/ Finish(u)
       \/ /\ MayReport(u)
          /\ \E x \in Usr : \/ \E isDefinition \in BOOLEAN : Declare(u, x, isDefinition)
                            \/ \E holder \in Usr \cup {None} : Refer(u, x, holder)
    /\ UNCHANGED includeVars
-----------------------------------------------------------------------------
Place(row) == <<row[1], row[2]>>

(* insert_includes: INSERT OR IGNORE, where a file and a line have one row *)
Inserted(table, rows) ==
    LET free(k) == /\ Place(rows[k]) \notin {Place(row) : row \in table}
                   /\ \A j \in 1..k - 1 : Place(rows[j]) # Place(rows[k])
    IN  table \cup {rows[k] : k \in {k \in DOMAIN rows : free(k)}}

(* insert_ppinclude *)
RowOf(u, row) == <<u, row[1], row[2], row[3]>>
RowsOf(u) == {RowOf(u, row) : row \in Range(includes[u])}

(* process_indexing_result: the files, the includes and what the flush writes of them *)
CommitUnit ==
    /\ Commit
    /\ LET u == Head(written)
       IN  /\ files' = files \o newFiles[u]
           /\ ppinclude' = ppinclude \cup RowsOf(u)
           /\ include' = Inserted(include, includes[u])
    /\ UNCHANGED <<main, inclusionVars>>

UnitsInit == Init /\ IncludeInit

UnitsNext ==
    \/ \E u \in Unit :
        \/ StartUnit(u) \/ ReportSymbols(u)
        \/ /\ LeaveFile(u) \/ \E path \in Path : PpIncludedFile(u, path)
           /\ UNCHANGED vars
    \/ CommitUnit

UnitsSpec == UnitsInit /\ [][UnitsNext]_<<vars, includeVars>>
-----------------------------------------------------------------------------
(* no file before it has the same path *)
IsFirst(k) == \A j \in 1..k - 1 : files[j] # files[k]

(* The snapshot knows the includes of every committed unit between files it has, with the
   file that was included there: a file that is entered through one it has not is such a
   file, one that is included by one it has not is no such include.  Where two units
   include different files by one line, table include keeps the first.  A file that is
   listed twice has all its includes under the first of its ids, and no unit adds a file
   again, for it finds the files of the others. *)
IncludesAreRight ==
    /\ \A k \in DOMAIN files : k > Len(Listed) => IsFirst(k)
    /\ \A row \in ppinclude :
        /\ row[1] \in Range(committed) /\ {row[2], row[4]} \subseteq DOMAIN files
        /\ IsFirst(row[2]) /\ IsFirst(row[4])
        /\ row[3] \in DOMAIN Text[files[row[2]]] /\ files[row[4]] \in Text[files[row[2]]][row[3]]
    /\ \A u \in Range(committed) :
        \A f \in entered[u] \cap Range(Listed) : \A l \in DOMAIN Text[f] :
            Text[f][l] \subseteq Range(Listed) =>
                \E row \in ppinclude : row[1] = u /\ files[row[2]] = f /\ row[3] = l
    /\ \A row \in include : \E u \in Unit :
        /\ RowOf(u, row) \in ppinclude
        /\ \A other \in ppinclude : <<other[2], other[3]>> = Place(row) => other[1] >= u
    /\ {<<row[2], row[3]>> : row \in ppinclude} = {Place(row) : row \in include}
    /\ \A r, s \in include : Place(r) = Place(s) => r = s
=============================================================================
