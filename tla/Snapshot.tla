------------------------------ MODULE Snapshot ------------------------------
(***************************************************************************)
(* class Snapshot (db/src/snapshot.cpp) and the statements it runs         *)
(* (db/src/sqlqueries.cpp): what is added to a snapshot is kept in memory  *)
(* and in PendingData until writePendingData() inserts it in the database, *)
(* table after table, in one transaction; the destructor writes what is    *)
(* left.  Two columns are written past PendingData, by an UPDATE of rows   *)
(* that must be there: the content of files and the serialized units.  The *)
(* program may stop at any point (Crash), and a snapshot file may be       *)
(* opened again.                                                           *)
(*                                                                         *)
(* work is the database as its connection sees it and disk what is         *)
(* committed.  A COMMIT may fail (Busy): the destructor of Transaction     *)
(* does not look at its result, so the transaction stays open and the next *)
(* BEGIN fails in its turn.  No statement of the code turns foreign keys   *)
(* on, so the database refuses no dangling id.                             *)
(*                                                                         *)
(* Rows are records; columns no property tells apart are left out.         *)
(***************************************************************************)
EXTENDS CompileOptions

CONSTANTS Key, Value,  \* the properties
          Path,        \* of files
          Wording,     \* what a file may hold, up to its first null character
          Options,     \* compile options
          SymbolId,
          Version,     \* contents of a symbol, one added again may differ in it
          MaxFiles,    \* bound: the number of file ids
          Null         \* no translation unit, no file, no text

ASSUME SnapshotAssumption ==
    /\ MaxFiles \in Nat
    /\ \A options \in Options : IsOptions(options)
    /\ Null \notin Nat \cup Wording \cup (Path \X Wording) \cup Value \cup Version
                   \cup {Columns(options) : options \in Options}

VARIABLES
    isOpen,      \* whether a Snapshot object exists
    files,       \* m_files: file id -> path
    units,       \* m_translationunits: unit id -> id of its source file, options
    hasPending,  \* whether m_pending_data is allocated
    pending,     \* m_pending_data, as the rows that it becomes
    phase,       \* the next table writePendingData() fills, or 0
    copying,     \* addFilesContent() is at the file of id copying - 1, or 0
    closing,     \* whether the destructor called writePendingData()
    work, disk,  \* the database
    inTx,        \* whether a transaction is open
    text,        \* the files themselves: path -> what it holds, or Null
    left,        \* bound: the calls that may still be made
    leftBusy     \* bound: the commits that may still fail

memoryVars == <<files, units>>
dbVars     == <<work, disk, inTx>>
boundVars  == <<left, leftBusy>>
vars == <<isOpen, memoryVars, hasPending, pending, phase, copying, closing, dbVars, text,
          boundVars>>

(* the tables in the order writePendingData() fills them, and the one that is filled
   with the translation units *)
Tables == <<"info", "file", "translationunit", "ppinclude", "include", "symbol", "base",
            "symbolreference">>
Table == Range(Tables)

Empty == [t \in Table |-> <<>>]
EmptyDatabase == [t \in Table \cup {"compileoptions"} |-> <<>>]

(* an empty snapshot has been created, for a program of n calls and at most m failing
   commits *)
InitFor(n, m) ==
    /\ isOpen = TRUE
    /\ files = <<>> /\ units = <<>>
    /\ hasPending = FALSE /\ pending = Empty
    /\ phase = 0 /\ copying = 0 /\ closing = FALSE
    /\ work = EmptyDatabase /\ disk = EmptyDatabase /\ inTx = FALSE
    /\ text \in [Path -> Wording \cup {Null}]
    /\ left = n /\ leftBusy = m
-----------------------------------------------------------------------------
(* The statements *)

(* mutant of Conflicts: a file is known by its path *)
ConflictsByPath(t, rows, row) ==
    {i \in DOMAIN rows :
        CASE t = "file" -> rows[i].path = row.path
          [] t \in {"translationunit", "symbol"} -> rows[i].id = row.id
          [] t = "include" -> rows[i].file = row.file /\ rows[i].line = row.line
          [] OTHER -> FALSE}

(* the rows that the new one is in conflict with *)
Conflicts(t, rows, row) ==
    {i \in DOMAIN rows :
        CASE t \in {"file", "translationunit", "symbol"} -> rows[i].id = row.id
          [] t = "include" -> rows[i].file = row.file /\ rows[i].line = row.line
          [] OTHER -> FALSE}

(* INSERT: a conflict replaces a symbol, and makes the insertion of another row
   fail or be ignored.  "OR REPLACE" replaces no property: key is not unique. *)
Insert(t, rows, row) ==
    LET conflicts == Conflicts(t, rows, row)
    IN  IF conflicts = {} THEN Append(rows, row)
        ELSE IF t = "symbol" THEN [i \in DOMAIN rows |-> IF i \in conflicts THEN row ELSE rows[i]]
        ELSE rows

InsertAll(t, rows, new) ==
    LET after[n \in 0..Len(new)] == IF n = 0 THEN rows ELSE Insert(t, after[n - 1], new[n])
    IN  after[Len(new)]

(* the objects that the pending units share, in the order their options are inserted:
   each is known by the first unit it was made for *)
Objects(rows) ==
    LET isFirst(i) == \A j \in 1..i - 1 : rows[j].object # rows[i].object
        firsts == Selected({i \in DOMAIN rows : isFirst(i)}, [i \in DOMAIN rows |-> i])
    IN  [n \in DOMAIN firsts |-> rows[firsts[n]].object]

Number(rows, object) == CHOOSE i \in DOMAIN Objects(rows) : Objects(rows)[i] = object

(* mutant of OptionsId: the ids count from the first object of the flush *)
OptionsIdOfFlush(db, rows, object) == Number(rows, object)

(* get_compile_options_id: the row of an object is inserted when it is first met *)
OptionsId(db, rows, object) == Len(db["compileoptions"]) + Number(rows, object)

InsertUnits(db, rows) ==
    LET objects == Objects(rows)
        options(o) == rows[CHOOSE i \in DOMAIN rows : rows[i].object = o].options
        new == [i \in DOMAIN rows |-> [id |-> rows[i].id, file |-> rows[i].file, ast |-> FALSE,
                                       options |-> OptionsId(db, rows, rows[i].object)]]
    IN  [db EXCEPT !["compileoptions"] = @ \o [i \in DOMAIN objects |-> Columns(options(objects[i]))],
                   !["translationunit"] = InsertAll("translationunit", @, new)]

(* what writePendingData() does of one table *)
Write(t, db, rows) ==
    IF t = "translationunit" THEN InsertUnits(db, rows)
    ELSE [db EXCEPT ![t] = InsertAll(t, @, rows)]

(* UPDATE ... WHERE id = : a missing row is no error *)
Update(db, t, id, col, value) ==
    [db EXCEPT ![t] = [i \in DOMAIN @ |-> IF @[i].id = id THEN [@[i] EXCEPT ![col] = value]
                                          ELSE @[i]]]

(* outside a transaction a statement commits by itself *)
Execute(db) ==
    /\ work' = db
    /\ disk' = IF inTx THEN disk ELSE db
    /\ UNCHANGED inTx

(* select_info: of several rows, SQLite's scan meets the oldest first *)
SelectInfo(k) ==
    LET found == {i \in DOMAIN work["info"] : work["info"][i].key = k}
    IN  IF found = {} THEN Null
        ELSE work["info"][CHOOSE i \in found : \A j \in found : i <= j].value

(* Snapshot::property, and a mutant that reads the database first *)
PendingValue(k) ==
    LET found == {i \in DOMAIN pending["info"] : pending["info"][i].key = k}
    IN  IF found = {} THEN Null ELSE pending["info"][CHOOSE i \in found : TRUE].value

PropertyStored(k) == IF SelectInfo(k) # Null THEN SelectInfo(k) ELSE PendingValue(k)

Property(k) == IF PendingValue(k) # Null THEN PendingValue(k) ELSE SelectInfo(k)

(* the rows of a table, those of translation units with the columns of their options *)
UnitColumns(db, row) ==
    IF row.options \in DOMAIN db["compileoptions"] THEN db["compileoptions"][row.options] ELSE Null

Rows(db, t) ==
    IF t = "translationunit"
    THEN [i \in DOMAIN db[t] |-> [db[t][i] EXCEPT !.options = UnitColumns(db, db[t][i])]]
    ELSE db[t]

(* select_translationunit: the options of a unit are those of the row it names, or none *)
UnitOptions(columns) == IF columns = Null THEN Null ELSE Loaded(columns)
-----------------------------------------------------------------------------
(* What a user of the snapshot finds once everything is written. *)
PendingRows(t) ==
    IF t = "translationunit"
    THEN [i \in DOMAIN pending[t] |->
            LET row == pending[t][i]
            IN  [id |-> row.id, file |-> row.file, ast |-> row.ast, options |-> Columns(row.options)]]
    ELSE pending[t]

View ==
    [t \in Table |->
        IF \E i \in 1..Len(Tables) : Tables[i] = t /\ i < phase THEN Rows(work, t)
        ELSE InsertAll(t, Rows(work, t), PendingRows(t))]

Durable == [t \in Table |-> Rows(disk, t)]

Symbols == {row.id : row \in Range(work["symbol"] \o pending["symbol"])}

(* the size of a list that holds the given ids *)
Size(list) == IF DOMAIN list = {} THEN 0 ELSE 1 + Max(DOMAIN list)

Idle == isOpen /\ phase = 0 /\ copying = 0
Call == Idle /\ left > 0 /\ left' = left - 1

Add(newRows) ==
    /\ Call
    /\ hasPending' = TRUE
    /\ pending' = [t \in Table |-> IF t \in DOMAIN newRows THEN pending[t] \o newRows[t]
                                   ELSE pending[t]]
    /\ UNCHANGED <<isOpen, phase, copying, closing, dbVars, text, leftBusy>>

(* the properties of key k in a list, and the others *)
OfKey(k, rows) == Selected({row \in Range(rows) : row.key = k}, rows)
OtherKeys(k, rows) == Selected({row \in Range(rows) : row.key # k}, rows)

SetProperty(k, v) ==
    /\ Call
    /\ hasPending' = TRUE
    /\ pending' = [pending EXCEPT !["info"] =
                      Append(OtherKeys(k, @), [key |-> k, value |-> v])]
    /\ UNCHANGED <<isOpen, memoryVars, phase, copying, closing, dbVars, text, leftBusy>>

(* addFile(unique_ptr), with the id the indexer gave; the place must be free *)
AddFileWithId(id, p) ==
    /\ id \notin DOMAIN files
    /\ files' = [i \in DOMAIN files \cup {id} |-> IF i = id THEN p ELSE files[i]]
    /\ Add([file |-> <<[id |-> id, path |-> p, content |-> Null]>>])
    /\ UNCHANGED units

(* addFile(File): the id is the size of the list *)
AddFile(p) == AddFileWithId(Size(files), p)

(* one unit for each file of the list; they share one object of options *)
AddTranslationUnits(list, options) ==
    LET first == Size(units)
    IN  /\ units' = [i \in DOMAIN units \cup (first..first + Len(list) - 1) |->
                        IF i < first THEN units[i]
                        ELSE [file |-> list[i - first + 1], options |-> options]]
        /\ Add([translationunit |->
                  [i \in DOMAIN list |-> [id |-> first + i - 1, file |-> list[i], ast |-> FALSE,
                                          options |-> options, object |-> first]]])
        /\ UNCHANGED files

(* an include directive of file f, met in unit u if it is not null *)
AddIncludes(u, f, g) ==
    LET row == [unit |-> u, file |-> f, line |-> 1, included |-> g]
    IN  /\ u \in DOMAIN units \cup {Null} /\ {f, g} \subseteq DOMAIN files
        /\ Add([ppinclude |-> IF u = Null THEN <<>> ELSE <<row>>, include |-> <<row>>])
        /\ UNCHANGED memoryVars

AddSymbol(s, v) ==
    /\ Add([symbol |-> <<[id |-> s, version |-> v]>>])
    /\ UNCHANGED memoryVars

AddBase(s, b) ==
    /\ {s, b} \subseteq Symbols
    /\ Add([base |-> <<[symbol |-> s, base |-> b]>>])
    /\ UNCHANGED memoryVars

AddSymbolReference(s, f) ==
    /\ s \in Symbols /\ f \in DOMAIN files
    /\ Add([symbolreference |-> <<[symbol |-> s, file |-> f]>>])
    /\ UNCHANGED memoryVars

(* any addition of something that may be added, with files of the given paths *)
Addition(paths) ==
    \/ \E k \in Key, v \in Value : SetProperty(k, v)
    \/ \E p \in paths : \/ Size(files) < MaxFiles /\ AddFile(p)
                        \/ \E id \in 0..MaxFiles - 1 : AddFileWithId(id, p)
    \/ \E f, g \in DOMAIN files, options \in Options :
          AddTranslationUnits(IF f = g THEN <<f>> ELSE <<f, g>>, options)
    \/ \E u \in DOMAIN units \cup {Null}, f, g \in DOMAIN files : AddIncludes(u, f, g)
    \/ \E s, b \in SymbolId : AddBase(s, b)
    \/ \E s \in SymbolId, f \in DOMAIN files : AddSymbolReference(s, f)
-----------------------------------------------------------------------------
(* addFilesContent() goes through the files of the list *)
AddFilesContent ==
    /\ Call /\ files # <<>>
    /\ copying' = 1
    /\ UNCHANGED <<isOpen, memoryVars, hasPending, pending, phase, closing, dbVars, text, leftBusy>>

(* mutant of CopyFile: a file is known by its place among those that are left *)
CopyFileAtPlace ==
    LET place == Cardinality({id \in DOMAIN files : id < copying - 1})
    IN  /\ copying # 0
        /\ IF copying - 1 \in DOMAIN files /\ text[files[copying - 1]] # Null
           THEN Execute(Update(work, "file", place, "content",
                               <<files[copying - 1], text[files[copying - 1]]>>))
           ELSE UNCHANGED dbVars
        /\ copying' = IF copying = Size(files) THEN 0 ELSE copying + 1
        /\ UNCHANGED <<isOpen, memoryVars, hasPending, pending, phase, closing, text, boundVars>>

(* a file that exists is read and its row updated *)
CopyFile ==
    LET id == copying - 1
    IN  /\ copying # 0
        /\ IF id \in DOMAIN files /\ text[files[id]] # Null
           THEN Execute(Update(work, "file", id, "content", <<files[id], text[files[id]]>>))
           ELSE UNCHANGED dbVars
        /\ copying' = IF copying = Size(files) THEN 0 ELSE copying + 1
        /\ UNCHANGED <<isOpen, memoryVars, hasPending, pending, phase, closing, text, boundVars>>

AddTranslationUnitSerializedAst(u) ==
    /\ Call /\ u \in DOMAIN units
    /\ Execute(Update(work, "translationunit", u, "ast", TRUE))
    /\ UNCHANGED <<isOpen, memoryVars, hasPending, pending, phase, copying, closing, text, leftBusy>>

(* a file is edited by another program or, unless files are being copied, which would leave
   open which of them existed, created or removed *)
Edit(p) ==
    /\ left > 0 /\ left' = left - 1
    /\ \E w \in (Wording \cup {Null}) \ {text[p]} :
          /\ copying # 0 => Null \notin {w, text[p]}
          /\ text' = [text EXCEPT ![p] = w]
    /\ UNCHANGED <<isOpen, memoryVars, hasPending, pending, phase, copying, closing, dbVars, leftBusy>>
-----------------------------------------------------------------------------
(* the connection is closed, or the program stops: an open transaction is lost *)
Disconnect(committed) ==
    /\ isOpen' = FALSE /\ closing' = FALSE
    /\ disk' = committed /\ work' = committed /\ inTx' = FALSE
    /\ files' = <<>> /\ units' = <<>>
    /\ hasPending' = FALSE /\ pending' = Empty
    /\ phase' = 0 /\ copying' = 0
    /\ UNCHANGED <<text, left>>

(* writePendingData: BEGIN, without effect in a transaction.  Nothing is done when
   nothing is pending; the destructor looks at that first. *)
Begin(byDestructor) ==
    /\ Idle /\ hasPending
    /\ inTx' = TRUE
    /\ phase' = 1
    /\ closing' = byDestructor
    /\ UNCHANGED <<isOpen, memoryVars, hasPending, pending, copying, work, disk, text, boundVars>>

(* mutant of WriteTable: the insertions are committed as they are made *)
WriteTableAutocommit ==
    /\ phase \in 1..Len(Tables)
    /\ LET t == Tables[phase] IN work' = Write(t, work, pending[t])
    /\ disk' = work'
    /\ phase' = phase + 1
    /\ UNCHANGED <<isOpen, memoryVars, hasPending, pending, copying, closing, inTx, text, boundVars>>

WriteTable ==
    /\ phase \in 1..Len(Tables)
    /\ LET t == Tables[phase] IN work' = Write(t, work, pending[t])
    /\ phase' = phase + 1
    /\ UNCHANGED <<isOpen, memoryVars, hasPending, pending, copying, closing, disk, inTx, text,
                   boundVars>>

(* m_pending_data is reset, then COMMIT is run and succeeds if ok *)
End(ok) ==
    /\ phase = Len(Tables) + 1
    /\ leftBusy' = IF ok THEN leftBusy ELSE leftBusy - 1
    /\ IF closing
       THEN Disconnect(IF ok THEN work ELSE disk)
       ELSE /\ hasPending' = FALSE /\ pending' = Empty
            /\ phase' = 0
            /\ disk' = IF ok THEN work ELSE disk
            /\ inTx' = ~ok
            /\ UNCHANGED <<isOpen, memoryVars, copying, closing, work, text, left>>

Commit == End(TRUE)
Busy == leftBusy > 0 /\ End(FALSE)

(* ~Snapshot with nothing pending *)
Close ==
    /\ Idle /\ ~hasPending
    /\ Disconnect(disk)
    /\ UNCHANGED leftBusy

Crash ==
    /\ isOpen
    /\ Disconnect(disk)
    /\ UNCHANGED leftBusy

(* the lists of files and of translation units are read from the database *)
Listing(t) ==
    LET ids == {work[t][i].id : i \in DOMAIN work[t]}
    IN  [id \in ids |-> work[t][CHOOSE i \in DOMAIN work[t] : work[t][i].id = id]]

Open ==
    /\ ~isOpen
    /\ isOpen' = TRUE
    /\ LET rows == Listing("file")
       IN  files' = [id \in DOMAIN rows |-> rows[id].path]
    /\ LET rows == Listing("translationunit")
       IN  units' = [id \in DOMAIN rows |->
                        [file |-> rows[id].file, options |-> UnitOptions(UnitColumns(work, rows[id]))]]
    /\ UNCHANGED <<hasPending, pending, phase, copying, closing, dbVars, text, boundVars>>
-----------------------------------------------------------------------------
(* The files and the translation units of an open snapshot are those of the database
   and of the pending data, with the same ids and the same compile options, although the
   rows of options are found by the address of an object and their own ids are only
   known once they are inserted: a program that opens the file later finds what this one
   works with.  Options come back whole, or without what leaves no token in the text of
   its column, unless a name holds a separator of that column. *)
MemoryIsStore ==
    isOpen =>
        LET view == View
        IN  /\ {<<i, files[i]>> : i \in DOMAIN files}
                 = {<<row.id, row.path>> : row \in Range(view["file"])}
            /\ {<<i, units[i].file>> : i \in DOMAIN units}
                 = {<<row.id, row.file>> : row \in Range(view["translationunit"])}
            /\ \A row \in Range(view["translationunit"]) :
                  LET given == units[row.id].options
                  IN  Unambiguous(given) => UnitOptions(row.options) \in {given, Named(given)}

(* No row on disk holds an id that is not on disk, although neither SQLite nor the
   code checks it: what refers to a file, to a symbol or to options is committed with it
   or after it. *)
ReferencesResolve ==
    LET FileIds   == {row.id : row \in Range(disk["file"])}
        UnitIds   == {row.id : row \in Range(disk["translationunit"])}
        SymbolIds == {row.id : row \in Range(disk["symbol"])}
    IN  /\ \A row \in Range(disk["translationunit"]) :
              row.file \in FileIds /\ row.options \in DOMAIN disk["compileoptions"]
        /\ \A row \in Range(disk["ppinclude"]) : row.unit \in UnitIds
        /\ \A row \in Range(disk["ppinclude"] \o disk["include"]) :
              {row.file, row.included} \subseteq FileIds
        /\ \A row \in Range(disk["base"]) : {row.symbol, row.base} \subseteq SymbolIds
        /\ \A row \in Range(disk["symbolreference"]) :
              row.symbol \in SymbolIds /\ row.file \in FileIds

(* the values a property was given and has not lost in a crash, the oldest first *)
Given(k) == OfKey(k, View["info"])

(* Between two calls, property() returns the value set last, at least until a second
   value has reached the database: what is pending has precedence, but the key of
   table info is not unique, nothing is ever replaced, and select_info returns the
   first row. *)
PropertyIsLastOfTwo ==
    isOpen /\ phase = 0 =>
        \A k \in Key :
            LET stored == OfKey(k, work["info"])
            IN  Given(k) # <<>> /\ Len(stored) <= 1 => Property(k) = Last(Given(k)).value

(* When addFilesContent() returns, every file that has a row and that exists has its own
   text in its row, of now or of earlier in the run, whatever ids are free in the list.
   A file that is still pending has no row to update and gets nothing, without an error. *)
FilesAreCopied ==
    [][copying # 0 /\ copying' = 0 /\ isOpen' =>
         \A row \in Range(work'["file"]) :
            text[row.path] # Null => row.content \in {row.path} \X Wording]_vars

(* A snapshot is a store whose changes become durable together, whichever table
   the program stops at. *)
Store == INSTANCE SnapshotStore WITH view <- View, durable <- Durable
StoreSpec == Store!Spec
=============================================================================
