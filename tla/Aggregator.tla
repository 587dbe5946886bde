----------------------------- MODULE Aggregator -----------------------------
(***************************************************************************)
(* IndexingResultAggregator::reduce (indexer/src/aggregator.cpp) and the   *)
(* part of process_indexing_result (indexer/src/scanner.cpp) that calls it *)
(* and commits what it keeps.  Translation units that include one file     *)
(* report the references of that file again; reduce() removes from each    *)
(* result the references that the snapshot knows, file by file.            *)
(*                                                                         *)
(* The loop of reduce() is modelled a group at a time: the vector shrinks  *)
(* under the iterators while the loop runs, and begin is the place of the  *)
(* iterator of that name (it starts at 1 here).  Everything happens on the *)
(* main thread; the database rows of a file are what                       *)
(* Snapshot::listReferencesInFile() selects for it.                        *)
(***************************************************************************)
EXTENDS SequencesExt, Selection

CONSTANTS File,        \* the ids of the files
          Ref,         \* the symbol references: records [file, pos, symbol]
          Result,      \* the lists of references an indexing result may hold
          MaxResults   \* bound: how many results are processed

ASSUME AggregatorAssumption ==
    /\ \A r \in Ref : r.file \in File /\ r.file \in Nat /\ r.pos \in Nat
    /\ Result \subseteq Seq(Ref)
    /\ MaxResults \in Nat

VARIABLES
    pc,             \* where process_indexing_result is
    references,     \* idxres.references
    begin,          \* the iterator of reduce()
    numReferences,  \* m_files_data: a function on the files met so far
    pendingRefs,    \* Snapshot's pending symbol_references
    rows,           \* the rows of table symbolreference, by file
    nbResults,      \* how many results were taken
    seen            \* history: for each file, what each result held of it

dataVars == <<numReferences, rows>>
vars == <<pc, references, begin, dataVars, pendingRefs, nbResults, seen>>

(* how often each reference of file f is in a list *)
Counts(f, refs) ==
    [r \in {x \in Ref : x.file = f} |-> Cardinality({i \in DOMAIN refs : refs[i] = r})]

OfFile(f, refs) == Selected({r \in Ref : r.file = f}, refs)

Init ==
    /\ pc = "idle" /\ references = <<>> /\ begin = 1
    /\ numReferences = <<>>
    /\ pendingRefs = <<>>
    /\ rows = [f \in File |-> <<>>]
    /\ nbResults = 0
    /\ seen = [f \in File |-> {}]
-----------------------------------------------------------------------------
(* process_indexing_result is called; reduce() returns at once on an empty list *)
Receive ==
    /\ pc = "idle" /\ nbResults < MaxResults
    /\ \E list \in Result :
          /\ references' = list
          /\ pc' = IF list = <<>> THEN "add" ELSE "sort"
          /\ seen' = [f \in File |-> IF OfFile(f, list) = <<>> THEN seen[f]
                                     ELSE seen[f] \cup {Counts(f, list)}]
    /\ nbResults' = nbResults + 1
    /\ UNCHANGED <<begin, dataVars, pendingRefs>>

(* comp: by file, then by line and column *)
Precedes(r, s) == r.file < s.file \/ (r.file = s.file /\ r.pos < s.pos)

(* mutant of Sort: the groups are looked for in the order of indexing *)
SortSkipped ==
    /\ pc = "sort"
    /\ begin' = 1 /\ pc' = "group"
    /\ UNCHANGED <<references, dataVars, pendingRefs, nbResults, seen>>

(* std::sort, which leaves equivalent references in any order *)
Sort ==
    /\ pc = "sort"
    /\ \E p \in Bijection(DOMAIN references, DOMAIN references) :
          LET sorted == [i \in DOMAIN references |-> references[p[i]]]
          IN  /\ \A i, j \in DOMAIN sorted : i < j => ~Precedes(sorted[j], sorted[i])
              /\ references' = sorted
    /\ begin' = 1 /\ pc' = "group"
    /\ UNCHANGED <<dataVars, pendingRefs, nbResults, seen>>

current == references[begin].file

(* find_if(begin, end, is_not_current_file) *)
end ==
    LET others == {i \in begin..Len(references) : references[i].file # current}
    IN  IF others = {} THEN Len(references) + 1 ELSE CHOOSE i \in others : \A j \in others : i <= j

group == SubSeq(references, begin, end - 1)

(* the group is replaced by the references kept of it, begin moves behind them,
   and the loop ends when that is the end of the vector *)
Continue(kept) ==
    /\ references' = SubSeq(references, 1, begin - 1) \o kept
                        \o SubSeq(references, end, Len(references))
    /\ begin' = begin + Len(kept)
    /\ pc' = IF begin' = Len(references') + 1 THEN "add" ELSE "group"
    /\ UNCHANGED <<rows, pendingRefs, nbResults, seen>>

(* a file met for the first time: all its references are kept *)
FirstGroup ==
    /\ pc = "group" /\ current \notin DOMAIN numReferences
    /\ numReferences' = [f \in DOMAIN numReferences \cup {current} |->
                            IF f = current THEN Len(group) ELSE numReferences[f]]
    /\ Continue(group)

(* mutant of Mismatch: the counter is set to the size of the group *)
MismatchRecounted ==
    /\ pc = "group" /\ current \in DOMAIN numReferences
    /\ numReferences[current] # Len(group)
    /\ LET kept == Selected(Ref \ Range(rows[current]), group)
       IN  /\ numReferences' = [numReferences EXCEPT ![current] = Len(group)]
           /\ Continue(kept)

(* a different number of references: those the database holds are removed *)
Mismatch ==
    /\ pc = "group" /\ current \in DOMAIN numReferences
    /\ numReferences[current] # Len(group)
    /\ LET kept == Selected(Ref \ Range(rows[current]), group)
       IN  /\ numReferences' = [numReferences EXCEPT ![current] = @ + Len(kept)]
           /\ Continue(kept)

(* the number recorded: all are taken for known and removed *)
Match ==
    /\ pc = "group" /\ current \in DOMAIN numReferences
    /\ numReferences[current] = Len(group)
    /\ UNCHANGED numReferences
    /\ Continue(<<>>)

(* snapshot.addSymbolReferences *)
AddReferences ==
    /\ pc = "add"
    /\ pendingRefs' = pendingRefs \o references
    /\ references' = <<>> /\ begin' = 1
    /\ pc' = "flush"
    /\ UNCHANGED <<dataVars, nbResults, seen>>

(* mutant of Flush: the pending data is left for a later result *)
FlushLater ==
    /\ pc = "flush"
    /\ IF nbResults % 2 = 1 THEN UNCHANGED <<rows, pendingRefs>>
       ELSE /\ rows' = [f \in File |-> rows[f] \o OfFile(f, pendingRefs)]
            /\ pendingRefs' = <<>>
    /\ pc' = "idle"
    /\ UNCHANGED <<references, begin, numReferences, nbResults, seen>>

(* snapshot.writePendingData *)
Flush ==
    /\ pc = "flush"
    /\ rows' = [f \in File |-> rows[f] \o OfFile(f, pendingRefs)]
    /\ pendingRefs' = <<>>
    /\ pc' = "idle"
    /\ UNCHANGED <<references, begin, numReferences, nbResults, seen>>
-----------------------------------------------------------------------------
Next ==
    \/ Receive \/ Sort
    \/ FirstGroup \/ Mismatch \/ Match
    \/ AddReferences \/ Flush

Spec == Init /\ [][Next]_vars
-----------------------------------------------------------------------------
(* Between two results, the number recorded for a file is the number of its rows,
   and a file is recorded as soon as it has rows: the shortcut of Match compares
   with what the database holds. *)
CountIsRows ==
    pc = "idle" =>
        \A f \in File : Len(rows[f]) = IF f \in DOMAIN numReferences THEN numReferences[f] ELSE 0

(* "removes symbol references that are already known so that no duplicates end up
   in the database" (aggregator.h:24): the copies of a reference come from one
   result.  (A file without an include guard yields several in one result.) *)
NoDuplicates ==
    \A f \in File : \A r \in Ref :
        LET stored == Cardinality({i \in DOMAIN rows[f] : rows[f][i] = r})
        IN  stored > 0 => \E counts \in seen[f] : r \in DOMAIN counts /\ counts[r] >= stored

(* What a result held of a file includes what another did. *)
Includes(g, h) == \A r \in DOMAIN h : h[r] <= g[r]
Nested(f) == \A g, h \in seen[f] : Includes(g, h) \/ Includes(h, g)

Known(f) == {r \in Ref : \E counts \in seen[f] : r \in DOMAIN counts /\ counts[r] > 0}

(* No reference of a file is lost when the translation units see the file alike, or
   when each sees at least what another one does, in whatever order they come. *)
CompleteWhenNested ==
    pc = "idle" => \A f \in File : Nested(f) => Known(f) = Range(rows[f])

(* "removes all already references that are already known in the snapshot"
   (aggregator.cpp:34): a reference the snapshot does not know is kept. *)
NothingLost ==
    pc = "idle" => \A f \in File : Known(f) \subseteq Range(rows[f])
=============================================================================
