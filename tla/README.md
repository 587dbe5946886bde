# A verification of csnap in TLA+

csnap takes snapshots of C++ programs. `csnap scan` parses and indexes the translation
units of a Visual Studio solution with libclang, on several threads, and writes what it
finds to an SQLite database. `csnap export` writes the database out as HTML. The modules
in this directory model the core of both, are checked with TLC on small instances, and
carry TLAPS proofs of the most important properties for instances of any size. Paths of
source files are relative to the root of the repository; `PROJECT.json` gives the lines
each definition models.

## 1. The system

```
 main thread                    parser's pool (N threads)    indexer's pool (1 thread)
 Scanner::scanSln
   asyncParse  ---- tasks ---->  parse, write result
   next()     <--- results ----
   asyncIndex  ------------------------------ tasks ------>  index, write result
   next()     <----------------------------- results ------
   reduce, add to Snapshot, writePendingData ---> SQLite file ---> exporter
```

| component | state | operations | module | what makes it correct |
|---|---|---|---|---|
| SharedQueue (`indexer/.../queue.h`) | container, mutex, condition variable | next, waitForNext, write, clear | SharedQueue | elements leave once, in order; no wake-up is lost |
| ThreadPool (`indexer/src/threadpool.cpp`) | queue of tasks, counter, threads | run, setThreadCount, done, waitForDone, destructor | ThreadPool, TaskPool | the counter is exact; one thread means one task at a time; a resize leaves enough threads; waits return |
| Scanner, Parser, Indexer tasks | two pools, two result queues | scanSln | Scanner | every unit is committed once, in order; the scan ends |
| Solution reader (`indexer/src/sln.cpp`, `scanner.cpp`) | the calls still to make on the snapshot | initSnapshot, openSln, the first flush, addFilesContent | SolutionScan | every file is copied; each unit has the row of its file |
| Symbol indexing (`indexer/src/indexer.cpp`, `model/src/usrmap.cpp`) | the shared map of USRs, a copy of it in each unit | get_symbol, get_parent_symbol_id, indexDeclaration, indexEntityReference | SymbolIndexing | an id names one symbol; what is committed refers to committed symbols |
| Files and includes of a unit (`indexer/src/indexer.cpp`) | the files libclang has entered, client data of files, the unit's includes | enteredMainFile, ppIncludedFile, getFile | IncludeIndexing | an include joins the two files it names; what every unit reports is kept |
| IndexingResultAggregator | the number of references of each file | reduce | Aggregator | the number is that of the rows; nothing twice, nothing lost |
| Snapshot (`db/src`, `model/src/filelist.cpp`) | lists of files and units, PendingData, the database | add..., writePendingData, addFilesContent, addTranslationUnitSerializedAst, open, destructor | Snapshot, SnapshotStore, CompileOptions | pending data becomes durable as a whole; memory and file agree on ids and options |
| Caches (`model/src/symbolcache.cpp`, `filecontentcache.cpp`) | weak pointers to symbols and contents | insert, find, under getSymbol, loadSymbols, getFileContent | SnapshotCaches | what is read is what was written last |
| DefinitionTable (`exporter/src/definitiontable.cpp`) | the definitions, sorted, and an offset for each symbol | build, hasUniqueDefinition | DefinitionTable | links lead to the only definition |
| XmlWriter (`xmlwriter.cpp`, `htmlpage.h`) | the open elements, the stream | start and end of an element, attribute, characters, and writes past the writer | XmlWriter | the stream is markup that says what was meant |
| File pages (`filesema.cpp`, `sourcehighlighter.cpp`, `filebrowser.cpp`) | the references of a file, two iterators | simplify, writeLineSource | FilePage | the text is whole; each reference is shown where it is |
| Symbol pages (`symbolpage.cpp`) | the references of a symbol, two iterators | writeSymbolPage | SymbolPage | each reference is mentioned once, each use beside its line |
| SnapshotExporter (`exporter/src/exporter.cpp`, `directorypage.cpp`, `pageurl.h`) | root path, path of each page, the set of folders, the pages written | run, filePath, linkTo, filter_directory_content | Exporter, Folders, Paths | links lead where they say; every page is found from above; the set of folders is closed |
| Command line, browser scripts | | | none | see section 7 |

The hard behaviours are the interleavings of three kinds of threads that meet in two
queues and one counter; a loop condition read under two locks; ids that are taken from a
shared map by one unit and relied on by another; a database that may be left at any
point; and iterators kept from one call to the next. `PROJECT.json` lists them as
hazards, each at its line.

## 2. The modules

**SharedQueue.** Down to the mutex: `holder` is the thread inside a critical section,
`waiters` those asleep in `wait` or `wait_for`. `next()` takes the front element (`check`)
and pops it (`pop`) in two steps under the lock; `write()` notifies after it has released
it; `clear()` counts the elements it drops as taken. Spurious wake-ups and timeouts may
happen at any time. The other modules take the queue's operations as atomic, which this
module justifies.

**TaskPool** is what a pool promises: a FIFO of tasks of which at most *MaxRunning* are
under way. **ThreadPool** is the code: one owner calls the operations, workers run
`thread_pool_proc`. The pool's mutex is held in the owner's steps `count` (between the
write of the task and the increment in `run()`) and `clear` (the destructor's first
block). Poison values are tasks equal to `Null`. `nbActiveTasks` is a `size_t` that wraps
at `SizeMax`. `PoolSpec` is the refinement: the queue without its poison values and the
tasks held by workers are a TaskPool.

**Scanner** composes two TaskPools (`P`, `I`) with the main loop. Each of `done()`,
`empty()` and `next()` is a step of its own, and so are the write of a result and the
counting-off of its task, because the two loop conditions are sensitive to exactly that.

**SymbolIndexing** abstracts a unit to the declarations, definitions and uses libclang may
report for it, chosen while it is indexed. `Declare` and `Refer` are the two callbacks with
everything they call: ids, placeholders, bases, and the parents created on the way
(`GetParent`). Two rules of C++ limit what a unit holds: a class is defined once in a unit
and its bases are complete when it is. **IncludeIndexing** extends it by what comes before
the symbols of a unit: `StartUnit` and `PpIncludedFile` walk the files of a unit as the
preprocessor does, entering each once and reporting each `#include`, and `CommitUnit` fills
the two tables of includes. A file that two projects list is in the snapshot twice, as in
SolutionScan, and `getFile()` finds the first of the two (`FileId`).

**Aggregator** runs `reduce()` a group at a time on a vector that shrinks, then adds and
flushes.

**Snapshot** has one action per addition and one per table that
`writePendingData()` fills; `work` is the database as the connection sees it and `disk`
what is committed; `Crash`, `Busy` (a COMMIT that fails) and `Open` may come between any
two steps. The columns written at once (`file.content` by `CopyFile`, one file a step, and
`translationunit.ast`) go to `work` only, in a transaction of their own. **SnapshotStore** is
the abstract store it implements. **CompileOptions** is how options are joined into the text
of a row and cut out of it again. **SnapshotCaches** adds the two caches: an entry counts as
long as a caller or the pending data keeps the object. **SolutionScan** lists the calls the
scanner makes before it waits for results and makes them in order. `MCSnapshot` runs two
programs over them: one that makes any calls, and the scan of a solution.

**DefinitionTable** has one action per iteration of `build()`. **FilePage** extends it: the
exporter builds the table from the rows, then loads the references of a file, drops the
implicit ones, merges those of a class and its constructor (the loop of
`simplify_ctor_and_class_references`, with its iterators `read` and `write`), and writes
the tokens of each line, moving an iterator in the includes and one in the references. The
step `undefined` stands for a read past the tokens of a line, after which nothing is
claimed. A line of the file (`LineText`) has characters around and behind its tokens, which are
spaces or other blanks (a tab, a carriage return); `Put` writes a space for each that stands
before a token and nothing behind the last. That the page of a file is written line by line, each after the one before it, is
how `FileBrowserGenerator::writeCode` calls the highlighter.

The pages are written through **XmlWriter**: an action of a page puts down the list of calls
it makes (`calls`), and one action of the writer carries each out, with the elements that are
open and those of them whose start tag is not finished. What goes to the stream is a list of
marks, and `Reading` is what a browser makes of the marks: which elements it is in, whether
tags nest, and the text of the cells that hold source. The functions of `htmlpage.h` that
write to the stream past the writer are the call `bytes`. **SymbolPage** extends FilePage: the
page of a symbol is written by a writer of its own, from the same rows, with the use under
`begin` and the last one in its file as the two iterators of the code. What cpptok makes of a
line from a column on is the constant operator `Lexed`, of the state the lexer is in
(`lexer`): one lexer goes through the uses of a file and is never reset
(`symbolpage.cpp:354`), so a comment that one use leaves open is open for the next.

**Folders** is the loop of `list_directories_recursive`: a set is walked by an iterator and
grows on the way. **Paths** states what the exporter uses of `std::filesystem::path`, as
POSIX reads paths; a path is a sequence of characters because the exporter also cuts it as a
string (`rootpath`, `filter_directory_content`), a name being one or two characters long and
an extension one. **Exporter** extends both: one action per step of `SnapshotExporter::run`,
`disk` holding the links of each page. `relative()` asks the working directory whether a path
exists, wherever the output goes, so a link depends on where the working directory is seen from
the output (`workdir`: the same folder, one below it, or elsewhere), on the names found there
(`present`: an earlier export, the folders of a build) and on the pages written there since
(`NamesWritten`).

**Selection** has the ways a list is gone through that the proofs follow: `Selected`, the
elements of it that are in a set, `Folded`, what a function makes of them one after the other,
and `Cut`, the parts of it between separators. The first two are what `SelectSeq` and `FoldLeft`
are, written as recursive functions; a column is split into options and a path into names by
the third.

## 3. What is checked

| run | instance | what it shows |
|---|---|---|
| `queue` | 2 producers, 3 consumers (one peeks), 4 elements | exactly once and in order, no lost wake-up, a sleeper is served |
| `pool` | 3 tasks, 3 threads, sizes 0 to 2 | the counter, FIFO with one thread, thread balance, termination of waits, refinement of TaskPool |
| `scan` | 3 units, 2 parsing threads | each unit in one place, commit order, completeness, and that the only way not to end is to block after the last result |
| `scan_ends` | 1 unit, 1 thread | **violated**: the scan may block for ever |
| `agg` | 2 files, 4 references, lists of up to 3, 3 results | the recorded number is that of the rows, no duplicates, nothing lost from files seen alike or by inclusion |
| `agg_lost` | the same | **violated**: equal numbers of different references |
| `snap` | 2 files, 1 symbol, 4 calls, or 3 with a failing COMMIT; or the scan of two projects with up to 3 paths; crashes and reopening anywhere | memory agrees with the store, ids resolve on disk, every file of a scan is copied, reads are current, refinement of SnapshotStore |
| `usr` | a namespace, a base, a class, 3 units of 3 reports; or 3 units that include headers, of 7 paths | ids, resolution of references, bases from the first unit; includes |
| `usr_bases` | the same, 2 units | **violated**: bases lost |
| `page` | 4 lines of up to 3 tokens, one of them empty, 5 symbols, every sorted list of up to 4 of 15 rows | the table of definitions, the page of the file as a browser reads it, and the pages of symbols |
| `page_order` | one row and another added by a second unit | **violated**: a reference shown on the wrong line |
| `export` | every list of up to 3 of 8 files, one of them perhaps listed twice, any of them without content, the working directory that of the output, a folder in it or another, with a folder `a` in it or not, 2 symbols | the folders, the links between pages, where a page is listed, and when the export fails |

### The bounds

A bound is a CONSTANT and is named as one in its module. Three units, tasks or results are
enough for one to be before, one under way and one after; with two parsing threads results
come back out of order. Two resizes overlap with two sizes besides the initial one and three
threads. The queue has more consumers than producers, so that a wake-up may reach the wrong
one, and more elements than consumers. In `agg` two references of one file share a position,
so that the order `std::sort` leaves them in is open, and three results are needed for a
mismatch followed by a match. Four additions suffice to write a file, a symbol and what
refers to both, with a crash or a reopening in between; the scan makes its own number of
calls. The solutions have a source listed by two projects, a project without options, and
options that two projects share. In `usr` a header of the solution includes one of two
others by one line, and a header outside it includes one that is inside; units with includes
have no symbols, since only the order of the units joins the two kinds of report; two of their files
are in the snapshot twice. The pool
of rows of `page` has two to four references at one place, one between two tokens, and a
destructor at the last token of a line, one whose `~` is apart from its name, a row on a line
the file has no more and one in a file without content; the third line begins with a tab and
ends in a comment that is left open, so that a use on it leaves it open for the next, and there are
blanks at the end of the first line and in the last; a symbol has a quote in its name and another a `<` in its USR. The files of
`export` are one to three folders deep, with a folder named like the beginning of another, a
file named like a folder beside it, and two that share one letter or nothing with the
others; a property of the pages relates two files and a folder, so three files show it. One
symbol has a slash in its name.

`TypeOK` of ThreadPool, Scanner, DefinitionTable and Folders, and `QueueTypes` of SharedQueue,
only record the ranges of their variables. No run lists it: it is part of the inductive invariants of
section 5.

### Fairness

`ThreadPool`, `Scanner` and `SharedQueue` assume weak fairness of each thread's next step:
the operating system schedules every thread that can run, and libclang returns. Nothing
obliges the owner of a pool to call an operation, a producer to write, a timeout to expire
or a wake-up to be spurious. The one place where this would not do, several threads
waiting for one lock, does not arise, since a critical section is left by the thread that
is in it. The other modules have no liveness property.

## 4. What was found

* `Scanner::scanSln` may never return. A task writes its result before the pool counts it
  off; if the main thread takes the last result in between, `done()` is still false, the
  loop is entered again and `next()` waits for nothing (`scanner.cpp:96-98`, `117-119`).
  By then every result has been handed on (first loop) or committed (second loop):
  `StuckOnlyAtTheLast` is proved.
* `reduce()` drops all the references of a file when their number is the recorded one
  (`aggregator.cpp:91-95`), whatever they are.
* A class that the first unit to meet it does not define, and a later unit defines at its
  first mention, has no bases in the snapshot (`indexer.cpp:227-231`).
* The references of a file are not sorted when two units see different parts of it, and
  the page then shows a token as a reference of another line (`sourcehighlighter.cpp:118`).

Noted in passing, without a run: the symbol with the highest id never has a unique
definition, since the loop of the table ends without its entry (`definitiontable.cpp:40`;
`OnlyTheHighestMissed` proves that no other symbol is concerned); a property written twice
to the database keeps its first value, since the key is not unique
(`sqlqueries.cpp:161-175`; `PropertyIsLastOfTwo` states what does hold); a poison value
cleared by the destructor of a pool leaves a thread waiting (`threadpool.cpp:52`), which
needs a pool shrunk just before it is destroyed, and no code does that.

Of the snapshot, also without a run of its own:

* The comment on `addFilesContent` speaks of every file presently in the snapshot
  (`snapshot.cpp:248-255`); a file that is still pending has no row to update and gets
  nothing, without an error. The scan flushes first (`ScanCopiesAll`, whose mutant does not).
* Options of which a name holds `;` or `=`, or a value or a directory holds `;`, do not come
  back as they were, nor does a define with neither name nor value or a directory with an
  empty name, of which the text has no token (`Unambiguous` and `Named` say which do). A define
  with a value and no name comes back. Contents are bound as C strings, so a file is cut
  at its first NUL.
* A content kept by a caller is out of date after a second `addFilesContent`
  (`ReadsAreCurrent` says that nothing else makes it so).
* A source listed by two projects becomes two files; units are given to the first.
* A class declared and then defined in a header has its row of table `base` once for every
  unit that includes it, since the table has no key.
* Table `include` keeps one file for a line of a file. Where the include directories of two
  units make it two, the first unit decides for all; the comment at `sqlqueries.cpp:477-478`
  has only duplicates in mind.

What the run `page` needs as exceptions in its properties:

* Values of attributes are not escaped. The name of a symbol with a quote in it
  (`operator""`) breaks the pages that link to it, and a USR with `<` or `&` is written raw
  (`symbolpage.cpp:194`).
* A use is shown by starting the lexer at its column (`symbolpage.cpp:383-388`). At a column
  between two tokens the token found is taken to begin there and is written twice; at the end
  of the line there is none, and an empty vector is read, which is undefined: the model ends there.
* The lexer is not reset between two uses in a file (`symbolpage.cpp:354`, `390`; the highlighter
  resets its own unless it goes on to the next line, `sourcehighlighter.cpp:72-75`). Behind a use on a line that
  opens a comment, the next use is read as a comment: what is set off begins at the use and goes
  on too far.
* The page of a file does not keep its blanks: each before a token is written as a space, whatever
  it was (`sourcehighlighter.cpp:252-255`), so tabs are lost, and blanks behind the last token of a
  line are not written, nor is a carriage return. `TextKept` claims the rest.
* `Uses (n)` counts the uses in files without content, which are not shown.
* Both tokens of the name of a destructor are written in one go (`sourcehighlighter.cpp:370`), and
  the column only adds their lengths up: a space between `~` and the name comes out behind the
  name, or nowhere if the line ends there.

What the run `export` needs as exceptions in its properties is what the exporter does not do:

* A source file beside a folder with whose name its own begins (`foo.cpp` beside `foo/`)
  ends the export with `std::out_of_range` (`directorypage.cpp:41`); a folder named like
  another (`foo2/` beside `foo/`) is listed in the wrong page, with a dead link.
* The home page takes a file at the root for a folder and links to `/index.html`.
* A link is empty when the working directory holds the first name of the path it leads to and not
  that of the folder it is on, or the other way round (`pageurl.h:92`; `TakenApart` is that case).
  It is the working directory of the process and not the folder of the output that counts: the
  folders of an earlier export or of a build are enough, and when the output goes there, as is
  the default, so are the pages written first.
* A detected root `/` is cut off with the first letter of the next name
  (`exporter.cpp:148`).
* The page of `operator/` lies in a folder of its own and its links to other symbols miss
  them (`exporter.cpp:285`).
* `filter_folders` removes nothing. Were its comparison corrected, it would remove the folder
  next to the page and leave the ones below: `ListedFromAbove` would be violated.

## 5. What is proved

The proofs hold for all values of the constants, under the assumptions named in the modules.
`ScannerAssumption`, `TableAssumption`, `SymbolPageAssumption`, `IndexingAssumption`,
`AggregatorAssumption` and `TokenAssumption` give the constants their types, and there is at
least one parsing thread. `PoolAssumption` adds that the counter is wide enough for the tasks
and threads, `QueueAssumption` that the threads are finitely many, `IncludeAssumption` that the
scanner lists every main file, `LineAssumption` that a line is as long as its tokens at least,
`LexerAssumption` that a lexer finds a token where one of a name begins, and a new lexer finds
that one, `SnapshotAssumption` that options
have the shape of options and that the null value is none of the other values,
`SolutionAssumption` that a project lists paths and its options are among the options there are,
`PageAssumption` that the tokens of a line are in their order and do not overlap, and
`FoldersAssumption` that the order of folders is total and a folder comes before those in it.
`ExporterAssumption` says that the constants of Folders are those of Paths, and that the paths
of a project have no empty names (`IsTidy`: no double slash, none at the end). A `path` skips
empty names where `filePath` and `filter_directory_content`, which cut strings, do not; module
Paths is right about paths without them only. It says further what keeps pages and folders apart:
no two paths of a project differ by a slash at the beginning alone, no folder has the name of a
page (`x.html`), no name is `.` or `..`, and what a symbol is called
begins with its id and has no two slashes in a row (`operator/` has one). The
code checks none of this: of two pages with one path the last would stay, and a page cannot be
written where a folder is.

**SequenceLemmas** holds what the other modules cite of queues and lists: how many places an
element has in a list that is appended to, shortened, joined or permuted, what `Selected` and
`Folded` make of a longer list, and that a list which has each element at most as often as
another, and is as long, has the same elements. The prover cannot use the induction theorems
of its library; induction is carried out instead over the set of the numbers, or of the
sequences, that have the property.

**ThreadPoolProofs.** `TypeInv` adds to `TypeOK` that the queue holds no more than was
submitted and that a worker holds a task exactly in the steps that need one. `FifoInv` says
that the tasks of the queue increase, that what is held was taken before what is queued,
and where each submitted task is; from it follows `SingleThreadIsSerial`, on which the
indexer relies (`indexer.cpp:547`). `CountInv` ties the counter to the number of tasks that
are submitted and not finished, from which follow `CounterIsExact` and `DoneMeansRun`.
`TypeOK` alone is not inductive: that the counter does not wrap needs the count.

`ThreadsAreBalanced` counts the poison values by their places in the queue: a worker that
takes one removes a place and a thread, a resize adds as many places as it takes off
`nbActiveThreads`. `PoolIsTaskPool` is the refinement: a step of a thread is a step of TaskPool
on the queue without its poison values, or is not seen there. The pool never runs more tasks
than it has threads, which is what the abstract pool promises.

**ScannerProofs.** `Inv` says in which steps the main thread can be when units are where
they are (`PhaseInv`), that each unit is in a queue once (`PoolInv`), and that every unit
submitted has a place (`PlaceInv`). From it: `ScanIsComplete` (a scan that returns has
committed every unit) and `StuckLosesNothing`. Both rest on `done()` being asked before
`empty()`: the invariant for the step between the two calls says that the results still to
come are in the queue. `OrderInv` adds that the units handed to the indexer are, in order,
those committed, carried, in the results, under way and waiting, at most one of them under
way: `CommitsAreInOrder` follows, and needs the indexer's pool to have one thread.
`UnitsAreNeitherLostNorDoubled` counts the copies of a unit queue by queue; each step moves
one copy.

The same module proves the queue: `QueueInv` says who holds the mutex: the consumer between the two
halves of `next()`, with the front element still in the container. On top of it the order of
the elements (`ElementsKeepTheirOrder`: taken or cleared, each leaves once and in the order
written) and the count of wake-ups (`WakeupsAreNotLost`) are each inductive.

**IndexingProofs.** The ids of the shared map are distinct and below its size, the
copy of a unit agrees with that map wherever it is defined, and one unit alone brings a
symbol along (`Ids`, `Copied`, `News`): hence `IdsNameSymbols`. Units start only when those
before them are written (`InTurn`, `Queued`), so a copy holds nothing but what this unit or
an earlier one made (`Earlier`), and whatever a unit mentions is in its copy (`Mentions`):
hence `CommittedResolves`. `Listing` says what a unit knows of the bases of a class it made,
from which `FirstUnitListsBases`.

`UnitsImplementSymbols` shows that files and includes change nothing of this: a unit with
includes takes a step of the unit without, or none. `IncludesOfUnits` proves
`IncludesAreRight`. Its invariant follows the preprocessor through a unit: a line of a file
entered is recorded, or still ahead in a file that is open (`Walk`), so nothing is missing once
none is open; client data of a file is the first File of its path (`Tagged`), so that a file listed
twice has its includes under one id; and the tables hold the
includes of the committed units, whose order comes from the invariant of SymbolIndexing
(`Tables`). That a repeated line has a first row rests on the naturals being well-founded
(`Least`).

**AggregatorProofs.** The vector under the loop of `reduce()` is two lists: what is passed and
will be stored, and what is ahead and still sorted by file, so that a file is met once.
The invariant accounts for the copies of each reference: those in the rows of its file are those
in one of the lists seen of it (`NothingStoredTwice`), and where what the units saw is nested the
rows have as many as any of them (`NestedFilesAreComplete`). The shortcut of `reduce()`, which
drops a group as long as the rows, is right in that case because of the lemma on equally long
lists; `NumbersAreRows` says that the number compared is the length of the rows.

**SnapshotProofs** is about `UsingSpec`, in which a program makes any calls in any order, a
COMMIT may fail, and the process may stop, between any two steps. `SnapshotInvariant` has two
halves. `IdInv` is about ids: the lists in memory have the ids of the database and of what is
pending, what is pending refers to those, and in the middle of a flush the tables before the
one at hand are written. `StoreInv` is about what the ids stand for: one row for an id, one
pending value for a key, one object of options for the units of a call, rows that say what the
lists do. Neither is inductive in parts: that a flush brings no id twice needs the lists, and
the lists need what was flushed. From them:

* `IdsResolve`: no committed row has an id that is not committed. The order of the tables in
  `writePendingData()` is not what gives it, the transaction is.
* `SnapshotIsStore`, the refinement. The view of a user is the database with the pending rows
  inserted. A step of a flush leaves it alone because inserting the rows of a table twice is
  inserting them once, in another order or with the ids of another table; a call adds rows to it
  or amends one.
* `CopiesAreComplete`: in the middle of `addFilesContent()` the rows of the files that are passed
  have their texts.
* `PropertyReturnsTheLast`, `MemoryAgrees` and `ReadsReturnTheLast`. The second rests on
  `OptionsBack`: that splitting a column gives the options that were joined, for texts of any
  length, by induction over the texts and over their number. The third compares the caches with
  the view: a cached symbol is that of the view, pending symbols are cached, so one that is not
  is read from a row that nothing pending amends.
* `ScansCopyAll`: the same snapshot under the calls of a scan (`ScanSpec`). Its invariant says
  which calls are left in each part of the scan, hence that the one flush comes after the last
  `addFile` and right before the copy, and that the files of the flush are all there are.

`MemoryIsStore` was corrected by its proof: it had asked options to come back that do not (a
define without a name, once written, is another when the snapshot is opened again), which no
instance of the runs has.

**ExporterProofs.** The invariant of the walk over folders says that every folder of the set the
iterator has passed has its parent in the set. Inserting a parent keeps it because the parent
sorts before the folder the iterator stands at and the iterator goes back to it; `FoldersClosed`
is what follows at the end of the walk, together with every folder inserted being around another.
`ExportedFoldersClosed` carries it over to `run()`: the pages of the files, and with them the
folders the walk starts from, are in place when it starts, whatever root was detected.

`ThrowsOnlyForLikeNames` says exactly which projects end with `std::out_of_range`. A tidy path is
the folder around it and a name (`Halved`), its names tell it from others (`NamesAreDistinct`),
and the page of a file is tidy, and relative unless the root is "/" (`PagesAreTidy`), because
there is a slash behind a detected root in every path of the project (`SlashBehindRoot`). So the
page of a folder throws just when a page is beside the folder and its name goes on from the
folder's name (`Throwing`): the test of `filter_directory_content` then holds, there is no slash
behind it, and the name of the nested folder would begin behind the end. `ThrowInv` says that the
folders which have their pages are those that did not throw.

`LinksAlwaysLead` is about `relative()` and the browser that follows its result. The names of a
path without a root are those of its folder and one more (`RelativeHalved`), so its slashes count
its folders (`SlashesCounted`). A link made of steps up and of names leads to what is left of the
folder with the names behind it (`LinkLeads`, from `GoingUp` and `GoingDown`); what
`lexically_relative` makes is such a link, up to the last name in common (`CommonIs`, `WayLeads`).
Whether the working directory is put before both paths, before none or before one of them, which
makes the link empty, is `RelativeLeads`, for any folder and any names in it. `LinksInv` says of
every link on disk, when it was written and ever after, that it leads to what it was made for or
is one the working directory took apart, which pages written later do not undo
(`TakenApartLater`); the symbols that have pages are
those before the one whose turn it is, so in the end all have one. The pages of different files
differ since cutting the detected root, or the slash in front, loses nothing (`PagesDiffer`).

`ListedFromEveryFolder` needs of the folders that they are closed (`AncestorsListed`, by
induction over the folders around a path), and of the disk that the page of a folder, once
written, stays (`ListedInv`): the index of another folder has another path (`InSame`), and the
page of a symbol another name (`IndexIsNoPage`). A page is listed in its own folder because there
is one slash behind the folder's path (`OwnFolder`); further up there are more (`FolderAbove`),
and the name that `filter_directory_content` cuts out of the path is what leads down to it
(`DownToFolder`). It uses that `filter_folders` removes nothing.

Of the table of definitions, `TableInv` is the invariant of its loop: the entry of each symbol
that ended is the place of its first definition, the others have none. `NoWrongLink` and
`OnlyTheHighestMissed` follow for every list of definitions. The exporter with its pages
implements the table (`PagesImplementTable`), so what is proved of the table holds while pages
of files and of symbols are written.

Of a page these theorems suppose that the rows of its file come in order. `sourcehighlighter.cpp`
relies on it without saying so; the run `page_order` shows a database without it, which two
units make, and what becomes of the page. They are, in the order of lines or of places
(`SortedDatabase`; every database of the run `page` is sorted by place):

* `NotesOfSortedRows`, from `PageInv`: the loop of
  `simplify_ctor_and_class_references` only moves references forward, so they stay in order
  (`ListInv`); from where the line before stopped the iterator finds the references of a line and
  of no other (`RangeInv`); and what is written never runs ahead of the columns of the tokens
  (`TokenInv`), so an element is put around the token at whose column its reference is
  (`NoteInv`).
* `EveryReferenceNoted`, from `NotedInv`: the token of a reference that the iterator can come to
  is still ahead while the iterator is at it, so the end of the line is not reached before the
  reference is noted, and the iterator has moved on then.
* `OneNameOfSortedRows`, from `PlacesInv`: at each place, what is kept and what is still to be
  looked at make up what was loaded, or make up what should be left with at most one of them
  ahead. The case that needs it is a place whose two references are the first two neighbours the
  loop finds, one of them already moved behind what is kept.

**PageProofs.** `TextAlwaysKept` compares with what a browser makes of a page, and supposes
nothing of the order of the rows. What a browser has read is a fold over the marks of the
stream, so it needs no recursive operator. The proof is in four layers:

* Of the fold: that it follows a list mark by mark and two lists one after the other
  (`FollowedAppend`, `FollowedJoined`); the functions it is defined by exist and agree by
  induction over the length of a list (`FollowingExists`).
* Of the writer: its stack of elements is the browser's, and both agree on whether the last
  start tag is still open (`Tidy`, `WriterInv`). So what a browser will have read once all the
  calls handed over are made (`Shown`) is known when they are handed over, and the writer's
  own steps do not change it (`CallMade`).
* Of lists of calls: some add text to the cell and leave the browser where it was (`Adds`, for
  tokens, spaces, and elements around them, `AddsElement`), some lead from one place of the
  page to another (`Leads`, for the head, the rows of the table and the end of the page). What a list adds,
  it adds behind another list too (`AddsBoth`, `LeadsOn`), as long as a call that writes past
  the writer (`Bytes`) comes when no tag is open (`Sealing`).
* Of the lines: what is kept of a line is its tokens with spaces between (`LineGrows`,
  `LinePut`), so the cell of the current line holds the line up to the column `col`, which is
  the end of the token before (`ShownSoFar`), unless a destructor on it is written over a gap.

The page breaks just when a reference to a symbol with a quote in its name was written
(`ReferenceShown`): nothing that follows can mend it, and nothing else breaks it.

`SymbolPageAlwaysRight` says of the page of a symbol everything that `SymbolPageIsRight` does,
for every list of rows, in whatever order they come. The page is cut short by an exception where
a use is at a line or a column its file does not have, and ends where no token is behind a column
(`FailUse`); the theorem is about the pages
that are finished. It rests on the same writer and browser, and on the following:

* Extracting moves a declaration or a definition once: what is left of the rows, what was taken
  and what there was agree in number, line by line, and the uses stay in their order
  (`TakenOut`, `OneTaken`, from `ElementRemoved`).
* A link is an attribute among the calls and then a mark of the stream, one for one
  (`LinksPutOut`). Some lists of calls have none (`Goes`), the others have one for each of some
  rows (`Refers`); so the links put out and those still in the calls are, at every moment, the
  declarations, the definitions and the uses before the place `use` that are in files with a
  content (`Linked`).
* The uses of a file come as a run of rows (`RunEndIs`), which is written or passed as a whole
  (`FileBegun`, `FileSkipped`, `SeenPast`); what is passed is not counted.
* The cell of a use is the line cut in three (`LineParts`): before the column, what the lexer
  finds when it is started there in the state it is in (`TokenFound`), and the rest. Together they
  are the line if a token of a name begins at the column. The lexer is like new as long as no
  use before in the file has left something open (`UseSeen`), and then the middle part is that
  token (`CellIsRight`).
* Only a USR with a '<' or '&' and links to a parent, base or derived class with a quote in its
  name are put out as they are, so the page is good just if there are none (`Fine`,
  `GoesStart`).

Only model-checked: liveness (`WaitReturns`, `QueuedTaskEnds`, `DtorReturns`, `EndsOrSticks`,
`SleeperServed`), which is out of the prover's reach. Every other property of a passing run is
stated by a theorem.

## 6. The plan

Order of importance, done first:

1. ThreadPool over TaskPool, and its proofs; SharedQueue below it. *(done, the refinement proved)*
2. Scanner, composed of two TaskPools, and its proofs. *(done)*
3. Aggregator, SymbolIndexing, Snapshot over SnapshotStore. *(done, every invariant and the
   refinement proved)*
4. DefinitionTable with its proofs, FilePage on top of it. *(done and proved)*
5. Exporter over Folders and Paths, and the proof of the folders. *(done and proved)*
6. The rest of Snapshot: compile options, contents of files and serialized units, the caches,
   and the scan of a solution. *(done and proved)*
7. The files and includes of a unit, over SymbolIndexing. *(done and proved)*
8. XmlWriter below the pages, and the pages of symbols. *(done and proved)*
9. Which projects end with an exception, over lemmas about paths and their names. *(done and
   proved)*
10. Where links between pages lead, over lemmas about `relative()`. *(done and proved)*
11. What a browser reads on the page of a file, over lemmas about the writer. *(done and proved)*
12. What a browser reads on the page of a symbol, and where its links lead. *(done and proved)*

The modules to be proved about use no recursive operator.

## 7. What is not modelled

libclang, SQLite, cpptok and vcxproj are external and appear as choices: what is reported,
whether a COMMIT succeeds, which tokens a line has, what a solution lists. Exceptions thrown
by them are not modelled, nor is the order in which the members of an object are destroyed.
A COMMIT fails only as it does when the database is busy, with the transaction still open; an
error that rolls it back (a full disk) is left out. Pending includes are inserted in the order of
the calls that added them. A symbolic link in the working directory, which `relative()` would
resolve, is left out, and the two files of a path listed twice share the page of that path.
What `fill_symbol` copies from a cursor, the options given to libclang, which CSS class a
token gets and all wording are data that no property tells apart. A root path given by the
user, `PathResolver::relpath` (called nowhere) and the copying of assets are left out of the
exporter. The command line is one call of the scanner or of the exporter, and the scripts run
in the reader's browser.
