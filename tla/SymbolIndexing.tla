--------------------------- MODULE SymbolIndexing ---------------------------
(***************************************************************************)
(* How symbols get their ids: class TranslationUnitIndexer                 *)
(* (indexer/src/indexer.cpp) and GlobalUsrMap (model/src/usrmap.cpp).      *)
(* libclang names a symbol by its USR in every translation unit.  The      *)
(* first unit to meet a USR takes an id for it from the shared map and     *)
(* creates the Symbol; another unit only holds a placeholder with the id,  *)
(* and leaves it to the first one's result to bring the symbol into the    *)
(* snapshot.  Each unit works on a copy of the shared map that it made     *)
(* when its indexing started.                                              *)
(*                                                                         *)
(* libclang reports what it meets in a unit: declarations and definitions  *)
(* (indexDeclaration) and uses (indexEntityReference).  What a unit holds  *)
(* is chosen as it is indexed, within the rules of C++ (see Declare).      *)
(* Only what lies in the files of the snapshot is reported here; the rest  *)
(* is skipped by the code.                                                 *)
(*                                                                         *)
(* A task of the indexer's pool indexes a unit (module Scanner); the main  *)
(* thread commits the results in the order they were written.              *)
(***************************************************************************)
EXTENDS SequencesExt

CONSTANTS Usr,        \* what names the symbols
          Parent,     \* the semantic parent of each, or None
          BasesOf,    \* the base classes of each; none for what is not a class
          None,
          NbUnits,    \* the translation units, in the order they are handed over
          MaxReports  \* bound: how much libclang reports in a unit

ASSUME IndexingAssumption ==
    /\ None \notin Usr
    /\ Parent \in [Usr -> Usr \cup {None}]
    /\ BasesOf \in [Usr -> SUBSET Usr]
    /\ {NbUnits, MaxReports} \subseteq Nat

Unit == 1..NbUnits

VARIABLES
    state,       \* of each unit: waiting, running, written or committed
    shared,      \* Indexer::m_usrs: USR -> id
    usrs,        \* of each unit, its copy
    symbols,     \* of each unit, the USRs it has a Symbol for, placeholders included
    toCreate,    \* of each unit, the parent whose id is needed now, or None
    complete,    \* of each unit, the classes it has met the definition of
    newSymbols,  \* result.symbols, as pairs <<usr, id>>
    bases,       \* result.bases, as pairs <<id, id of a base>>
    references,  \* the ids that result.references mentions
    nbReports,
    written,     \* Indexer::results()
    committed    \* the units committed to the snapshot, in order

resultVars == <<newSymbols, bases, references>>
unitVars == <<usrs, symbols, toCreate, complete, nbReports>>
vars == <<state, shared, unitVars, resultVars, written, committed>>

Init ==
    /\ state = [u \in Unit |-> "waiting"]
    /\ shared = <<>>
    /\ usrs = [u \in Unit |-> <<>>]
    /\ toCreate = [u \in Unit |-> None]
    /\ nbReports = [u \in Unit |-> 0]
    /\ symbols = [u \in Unit |-> {}] /\ complete = symbols
    /\ newSymbols = symbols /\ bases = symbols /\ references = symbols
    /\ written = <<>> /\ committed = <<>>

(* "not sure clang index action is thread-safe so we only use 1 thread" *)
TwoIndexThreads == 2    \* mutant of IndexThreads
IndexThreads == 1
-----------------------------------------------------------------------------
Running == {u \in Unit : state[u] = "running"}

(* the constructor clones the shared map *)
Start(u) ==
    /\ state[u] = "waiting" /\ \A v \in 1..u - 1 : state[v] # "waiting"
    /\ Cardinality(Running) < IndexThreads
    /\ state' = [state EXCEPT ![u] = "running"]
    /\ usrs' = [usrs EXCEPT ![u] = shared]
    /\ UNCHANGED <<shared, symbols, toCreate, complete, nbReports, resultVars, written, committed>>

(* mutant of NewId: the ids start over in each unit *)
NewIdOfUnit(u) == Cardinality(symbols[u])

(* UsrMap::insert: the size of the shared map *)
NewId(u) == Cardinality(DOMAIN shared)

With(map, x, id) == [y \in DOMAIN map \cup {x} |-> IF y = x THEN id ELSE map[y]]

IsNew(u, x) == x \notin symbols[u] \cup DOMAIN usrs[u] \cup DOMAIN shared

(* the id under which x is found or created *)
IdOf(u, x) ==
    IF x \in DOMAIN usrs[u] THEN usrs[u][x]
    ELSE IF x \in DOMAIN shared THEN shared[x] ELSE NewId(u)

(* the copy and the shared map are looked at in this order; a new symbol needs the
   id of its parent before it is added to the result *)
TakeId(u, x) ==
    /\ usrs' = [usrs EXCEPT ![u] = With(@, x, IdOf(u, x))]
    /\ IF IsNew(u, x)
       THEN /\ shared' = With(shared, x, NewId(u))
            /\ newSymbols' = [newSymbols EXCEPT ![u] = @ \cup {<<x, NewId(u)>>}]
            /\ toCreate' = [toCreate EXCEPT ![u] = Parent[x]]
       ELSE /\ UNCHANGED <<shared, newSymbols>>
            /\ toCreate' = [toCreate EXCEPT ![u] = None]

(* get_symbol: known in this unit, known elsewhere (placeholder) or created *)
GetSymbol(u, x) ==
    /\ symbols' = [symbols EXCEPT ![u] = @ \cup {x}]
    /\ TakeId(u, x)

(* get_symbol_id of the parent; only a symbol it creates is kept for the unit *)
GetParent(u) ==
    /\ toCreate[u] # None
    /\ TakeId(u, toCreate[u])
    /\ symbols' = IF IsNew(u, toCreate[u])
                  THEN [symbols EXCEPT ![u] = @ \cup {toCreate[u]}] ELSE symbols
    /\ UNCHANGED <<state, complete, bases, references, nbReports, written, committed>>

Reported(u) ==
    /\ state[u] = "running" /\ toCreate[u] = None /\ nbReports[u] < MaxReports
    /\ nbReports' = [nbReports EXCEPT ![u] = @ + 1]
    /\ UNCHANGED <<state, written, committed>>

(* mutant of ListsBases: a definition met after a declaration adds nothing *)
ListsBasesOfNew(u, x) == IsNew(u, x)

(* whether get_symbol looks at the bases of the class it meets the definition of:
   when the unit has a Symbol for it, or creates one, and not when it makes a
   placeholder *)
ListsBases(u, x) == x \in symbols[u] \/ IsNew(u, x)

(* indexDeclaration.  C++ wants one definition of a class in a unit at most, and
   the bases defined before it.  The reference also holds the id of the container,
   which an earlier declaration of this unit has put among the references. *)
Declare(u, x, isDefinition) ==
    /\ Reported(u)
    /\ isDefinition => x \notin complete[u] /\ BasesOf[x] \subseteq complete[u]
    /\ GetSymbol(u, x)
    /\ IF isDefinition
       THEN /\ complete' = [complete EXCEPT ![u] = @ \cup {x}]
            /\ bases' = IF ListsBases(u, x)
                        THEN [bases EXCEPT ![u] = @ \cup {<<IdOf(u, x), usrs[u][b]>> : b \in BasesOf[x]}]
                        ELSE bases
       ELSE UNCHANGED <<complete, bases>>
    /\ references' = [references EXCEPT ![u] = @ \cup {IdOf(u, x)}]

(* indexEntityReference; the entity that holds the reference has been declared *)
Refer(u, x, holder) ==
    /\ Reported(u)
    /\ holder \in symbols[u] \cup {None}
    /\ GetSymbol(u, x)
    /\ references' = [references EXCEPT ![u] =
                         @ \cup {IdOf(u, x)} \cup {usrs[u][h] : h \in {holder} \ {None}}]
    /\ UNCHANGED <<complete, bases>>

(* the unit ends and its result is written *)
Finish(u) ==
    /\ state[u] = "running" /\ toCreate[u] = None
    /\ state' = [state EXCEPT ![u] = "written"]
    /\ written' = Append(written, u)
    /\ UNCHANGED <<shared, unitVars, resultVars, committed>>

(* process_indexing_result on the main thread *)
Commit ==
    /\ written # <<>>
    /\ committed' = Append(committed, Head(written))
    /\ state' = [state EXCEPT ![Head(written)] = "committed"]
    /\ written' = Tail(written)
    /\ UNCHANGED <<shared, unitVars, resultVars>>
-----------------------------------------------------------------------------
Next ==
    \/ \E u \in Unit :
        \/ Start(u) \/ GetParent(u) \/ Finish(u)
        \/ \E x \in Usr : \/ \E isDefinition \in BOOLEAN : Declare(u, x, isDefinition)
                          \/ \E holder \in Usr \cup {None} : Refer(u, x, holder)
    \/ Commit

Spec == Init /\ [][Next]_vars
-----------------------------------------------------------------------------
SymbolId == 0..Cardinality(Usr) - 1

TypeOK ==
    /\ state \in [Unit -> {"waiting", "running", "written", "committed"}]
    /\ DOMAIN shared \subseteq Usr /\ Range(shared) \subseteq SymbolId
    /\ \A u \in Unit :
        /\ DOMAIN usrs[u] \subseteq Usr /\ Range(usrs[u]) \subseteq SymbolId
        /\ complete[u] \subseteq symbols[u] /\ symbols[u] \subseteq DOMAIN usrs[u]
        /\ toCreate[u] # None => state[u] = "running" /\ toCreate[u] \in Usr
        /\ newSymbols[u] \subseteq Usr \X SymbolId
        /\ bases[u] \subseteq SymbolId \X SymbolId /\ references[u] \subseteq SymbolId
        /\ nbReports[u] \in 0..MaxReports
    /\ Range(written) = {u \in Unit : state[u] = "written"}
    /\ Range(committed) = {u \in Unit : state[u] = "committed"}

(* The rows of tables symbol, base and symbolreference. *)
SymbolTable == UNION {newSymbols[u] : u \in Range(committed)}
BaseTable   == UNION {bases[u] : u \in Range(committed)}
RefTable    == UNION {references[u] : u \in Range(committed)}
IdsIn(table) == {row[2] : row \in table}

(* An id names one symbol in every unit: no two USRs share one, no copy of the map
   disagrees with the shared one, and one unit only brings a symbol along. *)
IdNamesSymbol ==
    /\ \A x, y \in DOMAIN shared : shared[x] = shared[y] => x = y
    /\ \A u \in Unit : \A x \in DOMAIN usrs[u] : x \in DOMAIN shared /\ usrs[u][x] = shared[x]
    /\ \A u, v \in Unit : u # v => newSymbols[u] \cap newSymbols[v] = {}
    /\ \A x \in DOMAIN shared : \E u \in Unit : <<x, shared[x]>> \in newSymbols[u]

(* Whatever the snapshot holds at any commit refers to symbols it holds: a unit may
   use the ids of another one because that one is committed before it. *)
ReferencesResolve ==
    /\ RefTable \subseteq IdsIn(SymbolTable)
    /\ \A row \in BaseTable : {row[1], row[2]} \subseteq IdsIn(SymbolTable)
    /\ \A row \in SymbolTable :
          Parent[row[1]] # None => \E other \in SymbolTable : other[1] = Parent[row[1]]

BaseRows(x) == {<<shared[x], shared[b]>> : b \in BasesOf[x]}

(* A class whose first unit defines it has its bases in the snapshot, whether it was
   declared or used before its definition or not. *)
BasesOfFirstUnit ==
    \A u \in Range(committed) : \A row \in newSymbols[u] :
        row[1] \in complete[u] => BaseRows(row[1]) \subseteq BaseTable

(* "returns the base classes of a symbol" (snapshot.cpp:512): the bases of a class
   are found in the snapshot once a unit that defines it is. *)
BasesKnown ==
    \A u \in Range(committed) : \A x \in complete[u] : BaseRows(x) \subseteq BaseTable
=============================================================================
