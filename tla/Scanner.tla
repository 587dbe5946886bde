------------------------------ MODULE Scanner ------------------------------
(***************************************************************************)
(* The scan of a solution: Scanner::scanSln (indexer/src/scanner.cpp) runs *)
(* on the main thread and feeds two pools.  The parser's threads turn each *)
(* translation unit into a parsing result, the indexer's thread turns each *)
(* parsing result into an indexing result, and the main thread moves the   *)
(* results from one to the other and commits them to the snapshot.         *)
(*                                                                         *)
(* The pools are TaskPools, which module ThreadPool implements.  A task    *)
(* writes its result before the pool counts it off: the two are separate   *)
(* steps here, as they are in the code, and so are the two calls of every  *)
(* loop condition "!done() || !results().empty()" and the next() after it. *)
(*                                                                         *)
(* parse_translation_unit always returns a result, so the tests for a null *)
(* one (scanner.cpp:100, indexer.cpp:555) never fail and are left out.     *)
(***************************************************************************)
EXTENDS SequencesExt

CONSTANTS NbUnits,       \* how many translation units the solution lists
          ParseThreads,  \* Scanner::nb_parsing_threads, clamped to 1 at least
          SaveAst        \* Scanner::save_ast

ASSUME ScannerAssumption ==
    /\ NbUnits \in Nat
    /\ ParseThreads \in Nat \ {0}
    /\ SaveAst \in BOOLEAN

Unit == 1..NbUnits  \* a unit is named by its place in translationUnits().all()
None == 0

VARIABLES
    pc,            \* where scanSln is
    submitted,     \* how many units asyncParse was called for
    cur,           \* the unit whose result the main thread holds, or None
    parseWaiting, parseRunning,   \* the parser's pool
    parsed,        \* the running parse tasks that have written their result
    parseResults,  \* Parser::results()
    indexWaiting, indexRunning,   \* the indexer's pool
    indexed,       \* the running index tasks that have written their result
    indexResults,  \* Indexer::results()
    saved,         \* the units whose AST is in the database
    handed,        \* history: the units passed to asyncIndex, in order
    committed      \* the units committed to the snapshot, in order

parserVars  == <<parseWaiting, parseRunning, parsed>>
indexerVars == <<indexWaiting, indexRunning, indexed>>
mainVars    == <<pc, submitted, cur>>
storeVars   == <<saved, handed, committed>>
vars == <<mainVars, parserVars, parseResults, indexerVars, indexResults, storeVars>>

(* the indexer is constructed with one thread; mutants give it two, or none *)
TwoIndexThreads == 2
NoIndexThread == 0
IndexThreads == 1

P == INSTANCE TaskPool WITH Task <- Unit, MaxRunning <- ParseThreads,
        waiting <- parseWaiting, running <- parseRunning

I == INSTANCE TaskPool WITH Task <- Unit, MaxRunning <- IndexThreads,
        waiting <- indexWaiting, running <- indexRunning

(* the solution has been opened and written to the snapshot *)
Init ==
    /\ pc = "submit" /\ submitted = 0 /\ cur = None
    /\ P!Init /\ parsed = {} /\ parseResults = <<>>
    /\ I!Init /\ indexed = {} /\ indexResults = <<>>
    /\ saved = {} /\ handed = <<>> /\ committed = <<>>
-----------------------------------------------------------------------------
(* The main thread *)

AsyncParse ==
    /\ pc = "submit" /\ submitted < NbUnits
    /\ P!Submit(submitted + 1)
    /\ submitted' = submitted + 1
    /\ UNCHANGED <<pc, cur, parsed, parseResults, indexerVars, indexResults, storeVars>>

(* addFilesContent, then the indexer and the aggregator are constructed *)
StartLoop ==
    /\ pc = "submit" /\ submitted = NbUnits
    /\ pc' = "parserDone?"
    /\ UNCHANGED <<submitted, cur, parserVars, parseResults, indexerVars, indexResults, storeVars>>

(* while (!parser.done() || !parser.results().empty()) *)
ParserDone ==
    /\ pc = "parserDone?"
    /\ pc' = IF P!Done THEN "parsedEmpty?" ELSE "nextParsed"
    /\ UNCHANGED <<submitted, cur, parserVars, parseResults, indexerVars, indexResults, storeVars>>

(* mutant of ParsedEmpty: the loop ends when the parser is done *)
ParsedIgnored ==
    /\ pc = "parsedEmpty?"
    /\ pc' = "indexerDone?"
    /\ UNCHANGED <<submitted, cur, parserVars, parseResults, indexerVars, indexResults, storeVars>>

ParsedEmpty ==
    /\ pc = "parsedEmpty?"
    /\ pc' = IF parseResults = <<>> THEN "indexerDone?" ELSE "nextParsed"
    /\ UNCHANGED <<submitted, cur, parserVars, parseResults, indexerVars, indexResults, storeVars>>

(* parser.results().next() blocks until a result is there *)
NextParsed ==
    /\ pc = "nextParsed" /\ parseResults # <<>>
    /\ cur' = Head(parseResults)
    /\ parseResults' = Tail(parseResults)
    /\ pc' = "handle"
    /\ UNCHANGED <<submitted, parserVars, indexerVars, indexResults, storeVars>>

(* save_to_db, when asked for, and asyncIndex *)
Handle ==
    /\ pc = "handle"
    /\ saved' = IF SaveAst THEN saved \cup {cur} ELSE saved
    /\ I!Submit(cur)
    /\ handed' = Append(handed, cur)
    /\ cur' = None
    /\ pc' = "drain?"
    /\ UNCHANGED <<submitted, parserVars, parseResults, indexed, indexResults, committed>>

(* while (!indexer.results().empty()) *)
DrainEmpty ==
    /\ pc = "drain?"
    /\ pc' = IF indexResults = <<>> THEN "parserDone?" ELSE "nextDrained"
    /\ UNCHANGED <<submitted, cur, parserVars, parseResults, indexerVars, indexResults, storeVars>>

(* while (!indexer.done() || !indexer.results().empty()) *)
IndexerDone ==
    /\ pc = "indexerDone?"
    /\ pc' = IF I!Done THEN "indexedEmpty?" ELSE "nextIndexed"
    /\ UNCHANGED <<submitted, cur, parserVars, parseResults, indexerVars, indexResults, storeVars>>

IndexedEmpty ==
    /\ pc = "indexedEmpty?"
    /\ pc' = IF indexResults = <<>> THEN "finished" ELSE "nextIndexed"
    /\ UNCHANGED <<submitted, cur, parserVars, parseResults, indexerVars, indexResults, storeVars>>

(* indexer.results().next(), in either loop *)
NextIndexed ==
    /\ pc \in {"nextDrained", "nextIndexed"} /\ indexResults # <<>>
    /\ cur' = Head(indexResults)
    /\ indexResults' = Tail(indexResults)
    /\ pc' = IF pc = "nextDrained" THEN "processDrained" ELSE "processIndexed"
    /\ UNCHANGED <<submitted, parserVars, parseResults, indexerVars, storeVars>>

(* mutant of Process: the result is not written to the snapshot *)
ProcessDropped ==
    /\ pc \in {"processDrained", "processIndexed"}
    /\ cur' = None
    /\ pc' = IF pc = "processDrained" THEN "drain?" ELSE "indexerDone?"
    /\ UNCHANGED <<submitted, parserVars, parseResults, indexerVars, indexResults, storeVars>>

(* process_indexing_result, which commits the pending data before it returns *)
Process ==
    /\ pc \in {"processDrained", "processIndexed"}
    /\ committed' = Append(committed, cur)
    /\ cur' = None
    /\ pc' = IF pc = "processDrained" THEN "drain?" ELSE "indexerDone?"
    /\ UNCHANGED <<submitted, parserVars, parseResults, indexerVars, indexResults, saved, handed>>

MainStep ==
    \/ AsyncParse \/ StartLoop \/ ParserDone \/ ParsedEmpty \/ NextParsed \/ Handle
    \/ DrainEmpty \/ IndexerDone \/ IndexedEmpty \/ NextIndexed \/ Process
-----------------------------------------------------------------------------
(* The pools' threads: each takes a task, writes its result, is counted off. *)

ParseStart ==
    /\ P!Start
    /\ UNCHANGED <<mainVars, parsed, parseResults, indexerVars, indexResults, storeVars>>

ParseWrite(u) ==
    /\ u \in parseRunning \ parsed
    /\ parseResults' = Append(parseResults, u)
    /\ parsed' = parsed \cup {u}
    /\ UNCHANGED <<mainVars, parseWaiting, parseRunning, indexerVars, indexResults, storeVars>>

(* mutant of ParseFinish: a task may be counted off before it writes *)
ParseFinishEarly(u) ==
    /\ u \in parseRunning
    /\ P!Finish(u)
    /\ parsed' = parsed \ {u}
    /\ UNCHANGED <<mainVars, parseResults, indexerVars, indexResults, storeVars>>

ParseFinish(u) ==
    /\ u \in parsed
    /\ P!Finish(u)
    /\ parsed' = parsed \ {u}
    /\ UNCHANGED <<mainVars, parseResults, indexerVars, indexResults, storeVars>>

IndexStart ==
    /\ I!Start
    /\ UNCHANGED <<mainVars, parserVars, parseResults, indexed, indexResults, storeVars>>

IndexWrite(u) ==
    /\ u \in indexRunning \ indexed
    /\ indexResults' = Append(indexResults, u)
    /\ indexed' = indexed \cup {u}
    /\ UNCHANGED <<mainVars, parserVars, parseResults, indexWaiting, indexRunning, storeVars>>

IndexFinish(u) ==
    /\ u \in indexed
    /\ I!Finish(u)
    /\ indexed' = indexed \ {u}
    /\ UNCHANGED <<mainVars, parserVars, parseResults, indexResults, storeVars>>

ParseStep == ParseStart \/ \E u \in Unit : ParseWrite(u) \/ ParseFinish(u)
IndexStep == IndexStart \/ \E u \in Unit : IndexWrite(u) \/ IndexFinish(u)

Next == MainStep \/ ParseStep \/ IndexStep

Spec == Init /\ [][Next]_vars

(* The threads run and libclang returns: every thread of a pool with a step to
   take takes it, and so does the main thread. *)
FairSpec ==
    /\ Spec
    /\ WF_vars(MainStep) /\ WF_vars(ParseStart) /\ WF_vars(IndexStart)
    /\ \A u \in Unit :
          /\ WF_vars(ParseWrite(u)) /\ WF_vars(ParseFinish(u))
          /\ WF_vars(IndexWrite(u)) /\ WF_vars(IndexFinish(u))
-----------------------------------------------------------------------------
TypeOK ==
    /\ pc \in {"submit", "parserDone?", "parsedEmpty?", "nextParsed", "handle", "drain?",
               "nextDrained", "processDrained", "indexerDone?", "indexedEmpty?",
               "nextIndexed", "processIndexed", "finished"}
    /\ submitted \in 0..NbUnits /\ cur \in Unit \cup {None}
    /\ \A s \in {parseWaiting, parseResults, indexWaiting, indexResults, handed, committed} :
          s \in Seq(Unit)
    /\ parseRunning \subseteq Unit /\ parsed \subseteq parseRunning
    /\ indexRunning \subseteq Unit /\ indexed \subseteq indexRunning
    /\ saved \subseteq Unit

(* How many times unit u is somewhere between asyncParse and the snapshot. *)
Copies(u) ==
    LET queues == parseWaiting \o parseResults \o indexWaiting \o indexResults \o committed
    IN  Cardinality({i \in DOMAIN queues : queues[i] = u})
        + Cardinality({u} \cap (parseRunning \ parsed))
        + Cardinality({u} \cap (indexRunning \ indexed))
        + Cardinality({u} \cap {cur})

(* Whatever the threads do, each submitted unit is in one place exactly: no
   result is lost and none is committed twice. *)
EachUnitOnce == \A u \in Unit : Copies(u) = IF u <= submitted THEN 1 ELSE 0

(* When scanSln returns every unit is in the snapshot, and both pools and both
   result queues are empty: nothing is left for the destructors to drop.  It
   rests on done() being asked before results().empty(). *)
CompleteAtEnd ==
    pc = "finished" =>
        /\ Range(committed) = Unit
        /\ P!Done /\ I!Done /\ parseResults = <<>> /\ indexResults = <<>>

(* Units are committed in the order they were handed to the indexer, which is
   the order they are indexed in.  The symbol ids rely on it: a unit only holds
   the symbols that no unit indexed before it has met. *)
CommitInOrder == IsPrefix(committed, handed)

(* next() is called on an empty queue that nobody will write to again. *)
StuckOnParser  == pc = "nextParsed" /\ parseResults = <<>> /\ P!Done
StuckOnIndexer == pc = "nextIndexed" /\ indexResults = <<>> /\ I!Done

(* The main thread may block for ever (see ScanTerminates), but only after the
   last result: one stuck on the parser has handed over every unit, one stuck on
   the indexer has committed every unit, and the inner loop never blocks. *)
StuckOnlyAtTheLast ==
    /\ StuckOnParser => Range(handed) = Unit
    /\ StuckOnIndexer => Range(committed) = Unit
    /\ pc = "nextDrained" => indexResults # <<>>

(* The scan ends or gets stuck in one of the two ways above. *)
EndsOrSticks == <>[](pc = "finished" \/ StuckOnParser \/ StuckOnIndexer)

(* "fills the snapshot by scanning a Visual Studio solution" (scanner.cpp:67):
   scanSln returns. *)
ScanTerminates == <>(pc = "finished")
=============================================================================
