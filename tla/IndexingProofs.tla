--------------------------- MODULE IndexingProofs ---------------------------
(***************************************************************************)
(* Theorems about the indexing of translation units.                       *)
(*                                                                         *)
(* SymbolIndexing, for every set of symbols and every number of units: an  *)
(* id names one symbol, and what is committed refers to what is committed. *)
(* The invariant has three parts.  The ids: shared gives each symbol a     *)
(* number below the size of its domain, the copies agree with it, and one  *)
(* unit has the symbol as new.  The order: a unit starts when all before   *)
(* it are written, and they are committed in that order.  The references:  *)
(* a unit only uses symbols of its copy, which it or an earlier one made.  *)
(*                                                                         *)
(* IncludeIndexing, for every set of files, whatever their lines include:  *)
(* files and includes change nothing of what is proved of symbols, and the *)
(* includes of the committed units are in the snapshot.  The invariant     *)
(* follows the preprocessor through a unit.  Each line of a file entered   *)
(* is either recorded or still ahead in a file that is open, so that       *)
(* nothing is missing when none is open; and what is recorded names the    *)
(* files it joins, as client data of a file is its own File.               *)
(***************************************************************************)
EXTENDS IncludeIndexing, FiniteSetTheorems, WellFoundedInduction, TLAPS
-----------------------------------------------------------------------------
Types ==
    /\ state \in [Unit -> {"waiting", "running", "written", "committed"}]
    /\ DOMAIN usrs = Unit /\ DOMAIN newSymbols = Unit
    /\ symbols \in [Unit -> SUBSET Usr] /\ complete \in [Unit -> SUBSET Usr]
    /\ toCreate \in [Unit -> Usr \cup {None}]
    /\ DOMAIN bases = Unit /\ DOMAIN references = Unit
    /\ written \in Seq(Unit) /\ committed \in Seq(Unit)

(* unit u brings symbol x along *)
Made(u, x) == <<x, shared[x]>> \in newSymbols[u]

Ids ==
    /\ IsFiniteSet(DOMAIN shared)
    /\ \A x \in DOMAIN shared : shared[x] \in Nat /\ shared[x] < Cardinality(DOMAIN shared)
    /\ \A x, y \in DOMAIN shared : shared[x] = shared[y] => x = y

Copied ==
    \A u \in Unit : \A x \in DOMAIN usrs[u] : x \in DOMAIN shared /\ usrs[u][x] = shared[x]

News ==
    /\ \A u \in Unit : \A row \in newSymbols[u] :
          row[1] \in DOMAIN shared /\ row = <<row[1], shared[row[1]]>>
    /\ \A u, v \in Unit : u # v => newSymbols[u] \cap newSymbols[v] = {}
    /\ \A x \in DOMAIN shared : \E u \in Unit : Made(u, x)

Kept == \A u \in Unit : complete[u] \subseteq symbols[u] /\ symbols[u] \subseteq DOMAIN usrs[u]

InTurn ==
    /\ \A u, v \in Unit : u < v /\ state[v] # "waiting" => state[u] \in {"written", "committed"}
    /\ \A u \in Unit : state[u] = "waiting" => newSymbols[u] = {}
    /\ \A u \in Unit : toCreate[u] # None => state[u] = "running"

Queued ==
    /\ \A u \in Unit : /\ state[u] = "written" <=> \E i \in DOMAIN written : written[i] = u
                       /\ state[u] = "committed" <=> \E i \in DOMAIN committed : committed[i] = u
    /\ \A i, j \in DOMAIN written : i < j => written[i] < written[j]
    /\ \A u, v \in Unit : u < v /\ state[v] = "committed" => state[u] = "committed"

Earlier ==
    \A u \in Unit : \A x \in DOMAIN usrs[u] : \E w \in Unit : w <= u /\ Made(w, x)

Mentions ==
    \A u \in Unit :
        /\ \A id \in references[u] : \E x \in DOMAIN usrs[u] : id = shared[x]
        /\ \A row \in bases[u] : \E x, y \in DOMAIN usrs[u] : row = <<shared[x], shared[y]>>
        /\ \A row \in newSymbols[u] : \/ Parent[row[1]] \in {None, toCreate[u]}
                                      \/ Parent[row[1]] \in DOMAIN usrs[u]

IdInv == Types /\ Ids /\ Copied /\ News /\ Kept
Inv == IdInv /\ InTurn /\ Queued /\ Earlier /\ Mentions
-----------------------------------------------------------------------------
LEMMA InvInit == Init => Inv
<1> SUFFICES ASSUME Init PROVE Inv
    OBVIOUS
<1>1. /\ shared = [x \in {} |-> x] /\ DOMAIN shared = {}
      /\ \A u \in Unit : DOMAIN usrs[u] = {}
    BY DEF Init
<1>2. IsFiniteSet(DOMAIN shared)
    BY <1>1, FS_EmptySet
<1>3. Types /\ Kept
    BY <1>1 DEF Init, Types, Kept
<1>4. Ids /\ Copied /\ News /\ Earlier
    BY <1>1, <1>2 DEF Init, Ids, Copied, News, Earlier
<1>5. InTurn /\ Mentions
    BY DEF Init, InTurn, Mentions
<1>6. Queued
    BY DEF Init, Queued
<1> QED
    BY <1>3, <1>4, <1>5, <1>6 DEF Inv, IdInv

LEMMA OneRuns == ASSUME NEW u \in Unit, Start(u) PROVE \A v \in Unit : state[v] # "running"
<1>1. IsFiniteSet(Running)
    <2>1. IsFiniteSet(Unit)
        BY IndexingAssumption, FS_Interval DEF Unit, IndexingAssumption
    <2> QED
        BY <2>1, FS_Subset DEF Running
<1>2. Cardinality(Running) \in Nat /\ Cardinality(Running) < 1
    BY <1>1, FS_CardinalityType DEF Start, IndexThreads
<1>3. Running = {}
    BY <1>1, <1>2, FS_EmptySet
<1> QED
    BY <1>3 DEF Running

(* The two outcomes of TakeId: the symbol is known, or it is the next new one. *)
LEMMA Taken ==
    ASSUME IdInv, NEW u \in Unit, NEW x, TakeId(u, x)
    PROVE  \/ /\ x \in DOMAIN shared /\ ~IsNew(u, x)
              /\ IdOf(u, x) = shared[x] /\ shared' = shared /\ newSymbols' = newSymbols
              /\ usrs' = [usrs EXCEPT ![u] = With(@, x, shared[x])]
              /\ toCreate' = [toCreate EXCEPT ![u] = None]
           \/ /\ x \notin DOMAIN shared /\ IsNew(u, x)
              /\ IdOf(u, x) = Cardinality(DOMAIN shared)
              /\ shared' = With(shared, x, Cardinality(DOMAIN shared))
              /\ newSymbols' = [newSymbols EXCEPT ![u] = @ \cup {<<x, Cardinality(DOMAIN shared)>>}]
              /\ usrs' = [usrs EXCEPT ![u] = With(@, x, Cardinality(DOMAIN shared))]
              /\ toCreate' = [toCreate EXCEPT ![u] = Parent[x]]
BY DEF IdInv, Types, Copied, Kept, TakeId, IdOf, IsNew, NewId

(* What both leave behind: the maps grow, and keep what the ids rest on. *)
LEMMA TakenShared ==
    ASSUME IdInv, NEW u \in Unit, NEW x, TakeId(u, x)
    PROVE  /\ DOMAIN shared' = DOMAIN shared \cup {x}
           /\ \A y \in DOMAIN shared : shared'[y] = shared[y]
           /\ IdOf(u, x) = shared'[x]
           /\ Ids'
<1>1. CASE x \in DOMAIN shared /\ shared' = shared /\ IdOf(u, x) = shared[x]
    BY <1>1 DEF IdInv, Ids
<1>2. CASE /\ x \notin DOMAIN shared /\ IdOf(u, x) = Cardinality(DOMAIN shared)
           /\ shared' = With(shared, x, Cardinality(DOMAIN shared))
    <2> DEFINE n == Cardinality(DOMAIN shared)
    <2>1. /\ DOMAIN shared' = DOMAIN shared \cup {x} /\ shared'[x] = n
          /\ \A y \in DOMAIN shared : shared'[y] = shared[y]
        BY <1>2 DEF With
    <2>2. IsFiniteSet(DOMAIN shared) /\ n \in Nat
        BY FS_CardinalityType DEF IdInv, Ids
    <2>3. IsFiniteSet(DOMAIN shared') /\ Cardinality(DOMAIN shared') = n + 1
        BY <1>2, <2>1, <2>2, FS_AddElement
    <2> HIDE DEF n
    <2>4. \A y \in DOMAIN shared : shared[y] \in Nat /\ shared[y] < n
        BY DEF IdInv, Ids, n
    <2>5. /\ \A y \in DOMAIN shared' : shared'[y] \in Nat /\ shared'[y] < n + 1
          /\ \A y, z \in DOMAIN shared' : shared'[y] = shared'[z] => y = z
        BY <2>1, <2>2, <2>4 DEF IdInv, Ids
    <2> QED
        BY <1>2, <2>1, <2>3, <2>5 DEF Ids, n
<1> QED
    BY <1>1, <1>2, Taken

LEMMA TakenByUnit ==
    ASSUME IdInv, NEW u \in Unit, NEW x, TakeId(u, x)
    PROVE  /\ DOMAIN usrs' = Unit
           /\ DOMAIN usrs'[u] = DOMAIN usrs[u] \cup {x}
           /\ \A v \in Unit \ {u} : usrs'[v] = usrs[v]
           /\ Copied'
<1>a. /\ DOMAIN shared' = DOMAIN shared \cup {x}
      /\ \A y \in DOMAIN shared : shared'[y] = shared[y]
      /\ IdOf(u, x) = shared'[x]
    BY TakenShared
<1>b. usrs' = [usrs EXCEPT ![u] = With(@, x, IdOf(u, x))]
    BY DEF TakeId
<1>1. usrs' = [usrs EXCEPT ![u] = With(@, x, shared'[x])]
    BY <1>a, <1>b
<1>2. /\ DOMAIN usrs' = Unit /\ usrs'[u] = With(usrs[u], x, shared'[x])
      /\ \A v \in Unit \ {u} : usrs'[v] = usrs[v]
    BY <1>1 DEF IdInv, Types
<1>3. /\ DOMAIN usrs'[u] = DOMAIN usrs[u] \cup {x} /\ usrs'[u][x] = shared'[x]
      /\ \A y \in DOMAIN usrs[u] : y # x => usrs'[u][y] = usrs[u][y]
    BY <1>2 DEF With
<1>4. ASSUME NEW v \in Unit, NEW y \in DOMAIN usrs'[v]
      PROVE  y \in DOMAIN shared' /\ usrs'[v][y] = shared'[y]
    BY <1>2, <1>3, <1>a DEF IdInv, Copied
<1> QED
    BY <1>2, <1>3, <1>4 DEF Copied

LEMMA TakenNew ==
    ASSUME IdInv, NEW u \in Unit, NEW x, TakeId(u, x)
    PROVE  /\ DOMAIN newSymbols' = Unit
           /\ \A v \in Unit : newSymbols[v] \subseteq newSymbols'[v]
           /\ \A v \in Unit \ {u} : newSymbols'[v] = newSymbols[v]
           /\ \A row \in newSymbols'[u] :
                  row \in newSymbols[u] \/ (row[1] = x /\ toCreate'[u] = Parent[x])
           /\ x \notin DOMAIN shared => Made(u, x)'
           /\ News'
<1>a. /\ DOMAIN shared' = DOMAIN shared \cup {x} /\ DOMAIN newSymbols = Unit
      /\ \A y \in DOMAIN shared : shared'[y] = shared[y]
      /\ toCreate \in [Unit -> Usr \cup {None}]
    BY TakenShared DEF IdInv, Types
<1>1. CASE x \in DOMAIN shared /\ newSymbols' = newSymbols
    BY <1>1, <1>a DEF IdInv, News, Made
<1>2. CASE /\ x \notin DOMAIN shared
           /\ newSymbols' = [newSymbols EXCEPT ![u] = @ \cup {<<x, shared'[x]>>}]
           /\ toCreate' = [toCreate EXCEPT ![u] = Parent[x]]
    <2>1. /\ DOMAIN newSymbols' = Unit /\ newSymbols'[u] = newSymbols[u] \cup {<<x, shared'[x]>>}
          /\ \A v \in Unit \ {u} : newSymbols'[v] = newSymbols[v]
          /\ toCreate'[u] = Parent[x]
        BY <1>2, <1>a
    <2>2. ASSUME NEW v \in Unit, NEW row \in newSymbols'[v]
          PROVE  row[1] \in DOMAIN shared' /\ row = <<row[1], shared'[row[1]]>>
        <3>1. CASE row \in newSymbols[v]
            BY <1>a, <3>1 DEF IdInv, News
        <3>2. CASE row = <<x, shared'[x]>>
            BY <1>a, <3>2
        <3> QED
            BY <2>1, <3>1, <3>2
    <2>3. \A v \in Unit : <<x, shared'[x]>> \notin newSymbols[v]
        BY <1>2 DEF IdInv, News
    <2>4. \A v, w \in Unit : v # w => newSymbols'[v] \cap newSymbols'[w] = {}
        BY <2>1, <2>3 DEF IdInv, News
    <2>5. \A y \in DOMAIN shared' : \E v \in Unit : <<y, shared'[y]>> \in newSymbols'[v]
        BY <1>a, <2>1 DEF IdInv, News, Made
    <2> QED
        BY <2>1, <2>2, <2>4, <2>5 DEF News, Made
<1>3. IdOf(u, x) = shared'[x]
    BY TakenShared
<1>4. \/ x \in DOMAIN shared /\ newSymbols' = newSymbols
      \/ /\ x \notin DOMAIN shared /\ IdOf(u, x) = Cardinality(DOMAIN shared)
         /\ newSymbols' = [newSymbols EXCEPT ![u] = @ \cup {<<x, Cardinality(DOMAIN shared)>>}]
         /\ toCreate' = [toCreate EXCEPT ![u] = Parent[x]]
    BY Taken
<1> QED
    BY <1>1, <1>2, <1>3, <1>4
-----------------------------------------------------------------------------
(* The steps that take an id, as far as the ids go. *)
Taking(u, x) ==
    /\ TakeId(u, x)
    /\ symbols' \in {symbols, [symbols EXCEPT ![u] = @ \cup {x}]}
    /\ \/ complete' = complete
       \/ /\ complete' = [complete EXCEPT ![u] = @ \cup {x}]
          /\ symbols' = [symbols EXCEPT ![u] = @ \cup {x}]
    /\ state[u] = "running" /\ toCreate[u] \in {None, x}
    /\ DOMAIN bases' = Unit /\ DOMAIN references' = Unit
    /\ UNCHANGED <<state, written, committed>>

LEMMA TakingSteps ==
    ASSUME IdInv, InTurn, NEW u \in Unit
    PROVE  /\ GetParent(u) => toCreate[u] \in Usr /\ Taking(u, toCreate[u])
           /\ \A x \in Usr, d \in BOOLEAN : Declare(u, x, d) => Taking(u, x)
           /\ \A x \in Usr, h \in Usr \cup {None} : Refer(u, x, h) => Taking(u, x)
<1>a. /\ DOMAIN bases = Unit /\ DOMAIN references = Unit
      /\ toCreate \in [Unit -> Usr \cup {None}]
    BY DEF IdInv, Types
<1>1. GetParent(u) => toCreate[u] \in Usr /\ Taking(u, toCreate[u])
    BY <1>a DEF GetParent, Taking, InTurn
<1>2. ASSUME NEW x \in Usr, NEW d \in BOOLEAN, Declare(u, x, d) PROVE Taking(u, x)
    BY <1>2, <1>a DEF Declare, Reported, GetSymbol, Taking
<1>3. ASSUME NEW x \in Usr, NEW h \in Usr \cup {None}, Refer(u, x, h) PROVE Taking(u, x)
    BY <1>3, <1>a DEF Refer, Reported, GetSymbol, Taking
<1> QED
    BY <1>1, <1>2, <1>3

LEMMA TakingIds ==
    ASSUME IdInv, NEW u \in Unit, NEW x \in Usr, Taking(u, x)
    PROVE  IdInv'
<1>a. TakeId(u, x)
    BY DEF Taking
<1>1. /\ DOMAIN usrs' = Unit /\ DOMAIN usrs'[u] = DOMAIN usrs[u] \cup {x}
      /\ \A v \in Unit \ {u} : usrs'[v] = usrs[v]
    BY <1>a, TakenByUnit
<1>2. DOMAIN newSymbols' = Unit
    BY <1>a, TakenNew
<1>3. toCreate' \in [Unit -> Usr \cup {None}]
    <2>1. Parent[x] \in Usr \cup {None}
        BY IndexingAssumption DEF IndexingAssumption
    <2> QED
        BY <1>a, <2>1 DEF IdInv, Types, TakeId
<1>4. /\ symbols' \in [Unit -> SUBSET Usr] /\ complete' \in [Unit -> SUBSET Usr]
      /\ \A v \in Unit \ {u} : symbols'[v] = symbols[v] /\ complete'[v] = complete[v]
      /\ symbols[u] \subseteq symbols'[u] /\ symbols'[u] \subseteq symbols[u] \cup {x}
      /\ complete'[u] = complete[u] \/ (complete'[u] = complete[u] \cup {x} /\ x \in symbols'[u])
    BY SMTT(30) DEF Taking, IdInv, Types
<1>5. Types'
    BY <1>1, <1>2, <1>3, <1>4 DEF Types, IdInv, Taking
<1>6. Kept'
    BY <1>1, <1>4 DEF Kept, IdInv
<1>7. Ids' /\ Copied' /\ News'
    BY <1>a, TakenShared, TakenByUnit, TakenNew
<1> QED
    BY <1>5, <1>6, <1>7 DEF IdInv

LEMMA IdStep == IdInv /\ InTurn /\ [Next]_vars => IdInv'
<1> SUFFICES ASSUME IdInv, InTurn, [Next]_vars PROVE IdInv'
    OBVIOUS
<1>1. ASSUME NEW u \in Unit, Start(u) PROVE IdInv'
    <2>1. /\ UNCHANGED <<shared, symbols, toCreate, complete, newSymbols, bases, references,
                         written, committed>>
          /\ state' \in [Unit -> {"waiting", "running", "written", "committed"}]
          /\ DOMAIN usrs' = Unit /\ usrs'[u] = shared
          /\ \A v \in Unit \ {u} : usrs'[v] = usrs[v]
        BY <1>1 DEF Start, IdInv, Types, resultVars
    <2>2. Types' /\ Ids'
        BY <2>1 DEF IdInv, Types, Ids
    <2>3. Copied' /\ Kept'
        BY <2>1 DEF IdInv, Copied, Kept
    <2>4. News'
        BY <2>1 DEF IdInv, News, Made
    <2> QED
        BY <2>2, <2>3, <2>4 DEF IdInv
<1>2. ASSUME NEW u \in Unit, NEW x \in Usr, Taking(u, x) PROVE IdInv'
    BY <1>2, TakingIds
<1>3. ASSUME NEW u \in Unit, Finish(u) PROVE IdInv'
    <2>1. Types'
        BY <1>3 DEF Finish, IdInv, Types, unitVars, resultVars
    <2>2. Ids' /\ Copied' /\ Kept' /\ News'
        BY <1>3 DEF Finish, IdInv, Ids, Copied, Kept, News, Made, unitVars, resultVars
    <2> QED
        BY <2>1, <2>2 DEF IdInv
<1>4. CASE Commit
    <2>1. Types'
        BY <1>4 DEF Commit, IdInv, Types, unitVars, resultVars
    <2>2. Ids' /\ Copied' /\ Kept' /\ News'
        BY <1>4 DEF Commit, IdInv, Ids, Copied, Kept, News, Made, unitVars, resultVars
    <2> QED
        BY <2>1, <2>2 DEF IdInv
<1>5. CASE UNCHANGED vars
    <2>1. Types' /\ Ids' /\ Copied' /\ Kept' /\ News'
        BY <1>5 DEF vars, IdInv, Types, Ids, Copied, Kept, News, Made, unitVars, resultVars
    <2> QED
        BY <2>1 DEF IdInv
<1> QED
    BY <1>1, <1>2, <1>3, <1>4, <1>5, TakingSteps DEF Next
-----------------------------------------------------------------------------
LEMMA InTurnStep == IdInv /\ InTurn /\ Queued /\ [Next]_vars => InTurn'
<1> SUFFICES ASSUME IdInv, InTurn, Queued, [Next]_vars PROVE InTurn'
    OBVIOUS
<1>a. /\ state \in [Unit -> {"waiting", "running", "written", "committed"}]
      /\ Unit \subseteq Nat /\ written \in Seq(Unit)
    BY DEF IdInv, Types, Unit
<1>1. ASSUME NEW u \in Unit, Start(u) PROVE InTurn'
    <2>1. /\ state' = [state EXCEPT ![u] = "running"] /\ state[u] = "waiting"
          /\ \A v \in Unit : v < u => state[v] # "waiting"
          /\ UNCHANGED <<newSymbols, toCreate>>
        BY <1>1 DEF Start, Unit, resultVars
    <2>2. \A v \in Unit : v < u => state[v] \in {"written", "committed"}
        BY <1>a, <1>1, <2>1, OneRuns
    <2> QED
        BY <1>a, <2>1, <2>2 DEF InTurn
<1>2. ASSUME NEW u \in Unit, NEW x \in Usr, Taking(u, x) PROVE InTurn'
    <2>1. /\ state' = state /\ state[u] = "running"
          /\ \A v \in Unit \ {u} : toCreate'[v] = toCreate[v]
          /\ \A v \in Unit \ {u} : newSymbols'[v] = newSymbols[v]
        <3>1. TakeId(u, x) /\ state' = state /\ state[u] = "running"
            BY <1>2 DEF Taking
        <3>2. \A v \in Unit \ {u} : newSymbols'[v] = newSymbols[v]
            BY <3>1, TakenNew
        <3>3. \A v \in Unit \ {u} : toCreate'[v] = toCreate[v]
            BY <3>1 DEF TakeId, IdInv, Types
        <3> QED
            BY <3>1, <3>2, <3>3
    <2> QED
        BY <2>1 DEF InTurn
<1>3. ASSUME NEW u \in Unit, Finish(u) PROVE InTurn'
    BY <1>a, <1>3 DEF Finish, InTurn, unitVars, resultVars
<1>4. CASE Commit
    <2>1. /\ Head(written) \in Unit /\ state[Head(written)] = "written"
          /\ state' = [state EXCEPT ![Head(written)] = "committed"]
          /\ UNCHANGED <<newSymbols, toCreate>>
        <3>1. 1 \in DOMAIN written /\ Head(written) = written[1] /\ written[1] \in Unit
            BY <1>a, <1>4 DEF Commit
        <3> QED
            BY <1>4, <3>1 DEF Commit, Queued, unitVars, resultVars
    <2> QED
        BY <1>a, <2>1 DEF InTurn
<1>5. CASE UNCHANGED vars
    BY <1>5 DEF vars, InTurn, unitVars, resultVars
<1> QED
    BY <1>1, <1>2, <1>3, <1>4, <1>5, TakingSteps DEF Next

LEMMA QueuedStep == IdInv /\ InTurn /\ Queued /\ [Next]_vars => Queued'
<1> SUFFICES ASSUME IdInv, InTurn, Queued, [Next]_vars PROVE Queued'
    OBVIOUS
<1>a. /\ state \in [Unit -> {"waiting", "running", "written", "committed"}]
      /\ Unit \subseteq Nat /\ written \in Seq(Unit) /\ committed \in Seq(Unit)
    BY DEF IdInv, Types, Unit
<1>1. ASSUME NEW u \in Unit, Start(u) PROVE Queued'
    BY <1>a, <1>1 DEF Start, Queued
<1>2. ASSUME NEW u \in Unit, NEW x \in Usr, Taking(u, x) PROVE Queued'
    BY <1>2 DEF Taking, Queued
<1>3. ASSUME NEW u \in Unit, Finish(u) PROVE Queued'
    <2>1. /\ state' = [state EXCEPT ![u] = "written"] /\ state[u] = "running"
          /\ written' = Append(written, u) /\ committed' = committed
        BY <1>3 DEF Finish
    <2>2. /\ DOMAIN written' = DOMAIN written \cup {Len(written) + 1}
          /\ DOMAIN written = 1..Len(written) /\ Len(written) \in Nat
          /\ \A i \in DOMAIN written : written'[i] = written[i] /\ written[i] \in Unit
          /\ written'[Len(written) + 1] = u
        BY <1>a, <2>1
    <2>3. \A i \in DOMAIN written : written[i] < u
        <3> SUFFICES ASSUME NEW i \in DOMAIN written PROVE written[i] < u
            OBVIOUS
        <3>1. written[i] \in Unit /\ state[written[i]] = "written"
            BY <2>2 DEF Queued
        <3>2. ~(u < written[i]) /\ u # written[i]
            BY <2>1, <3>1 DEF InTurn
        <3> QED
            BY <1>a, <3>1, <3>2
    <2>4. \A i, j \in DOMAIN written' : i < j => written'[i] < written'[j]
        BY <2>2, <2>3 DEF Queued
    <2>5. \A v \in Unit : /\ state'[v] = "written" <=> \E i \in DOMAIN written' : written'[i] = v
                          /\ state'[v] = "committed" <=> state[v] = "committed"
        BY <1>a, <2>1, <2>2 DEF Queued
    <2> QED
        BY <2>1, <2>4, <2>5 DEF Queued
<1>4. CASE Commit
    <2> DEFINE u == Head(written)
    <2>1. /\ written # <<>> /\ written' = Tail(written) /\ committed' = Append(committed, u)
          /\ state' = [state EXCEPT ![u] = "committed"]
        BY <1>4 DEF Commit
    <2>2. /\ u = written[1] /\ u \in Unit
          /\ DOMAIN written = 1..Len(written) /\ Len(written) \in Nat \ {0}
          /\ DOMAIN written' = 1..(Len(written) - 1)
          /\ \A i \in DOMAIN written' : written'[i] = written[i + 1]
        BY <1>a, <2>1
    <2>3. /\ DOMAIN committed' = DOMAIN committed \cup {Len(committed) + 1}
          /\ DOMAIN committed = 1..Len(committed) /\ Len(committed) \in Nat
          /\ \A i \in DOMAIN committed : committed'[i] = committed[i]
          /\ committed'[Len(committed) + 1] = u
        BY <1>a, <2>1, <2>2
    <2> HIDE DEF u
    <2>4. \A i \in DOMAIN written : i # 1 => u < written[i] /\ written[i] \in Unit
        BY <1>a, <2>2 DEF Queued
    <2>5. state[u] = "written"
        BY <2>2 DEF Queued
    <2>6. /\ \A i \in DOMAIN written : i = 1 \/ (i - 1 \in DOMAIN written' /\ written'[i - 1] = written[i])
          /\ \A i \in DOMAIN written' : i + 1 \in DOMAIN written /\ i + 1 # 1
        BY <2>2
    <2>7. \A v \in Unit : state'[v] = "written" <=> \E i \in DOMAIN written' : written'[i] = v
        <3> SUFFICES ASSUME NEW v \in Unit
                     PROVE  state'[v] = "written" <=> \E i \in DOMAIN written' : written'[i] = v
            OBVIOUS
        <3>1. CASE v = u
            <4>1. state'[v] = "committed"
                BY <1>a, <2>1, <2>2, <3>1
            <4>2. \A i \in DOMAIN written' : written'[i] # u
                BY <1>a, <2>2, <2>4, <2>6
            <4> QED
                BY <3>1, <4>1, <4>2
        <3>2. CASE v # u
            <4>1. state'[v] = state[v]
                BY <1>a, <2>1, <2>2, <3>2
            <4> QED
                BY <2>2, <2>6, <3>2, <4>1 DEF Queued
        <3> QED
            BY <3>1, <3>2
    <2>8. \A v \in Unit : state'[v] = "committed" <=> \E i \in DOMAIN committed' : committed'[i] = v
        BY <1>a, <2>1, <2>2, <2>3 DEF Queued
    <2>9. \A i, j \in DOMAIN written' : i < j => written'[i] < written'[j]
        BY <2>2, <2>6 DEF Queued
    <2>10. \A v \in Unit : v < u => state[v] = "committed"
        <3> SUFFICES ASSUME NEW v \in Unit, v < u PROVE state[v] # "written"
            BY <2>2, <2>5 DEF InTurn
        <3>1. \A i \in DOMAIN written : written[i] = u \/ u < written[i]
            BY <2>2, <2>4
        <3> QED
            BY <1>a, <2>2, <3>1 DEF Queued
    <2>11. \A v, w \in Unit : v < w /\ state'[w] = "committed" => state'[v] = "committed"
        BY <1>a, <2>1, <2>2, <2>10 DEF Queued
    <2> QED
        BY <2>7, <2>8, <2>9, <2>11 DEF Queued
<1>5. CASE UNCHANGED vars
    BY <1>5 DEF vars, Queued
<1> QED
    BY <1>1, <1>2, <1>3, <1>4, <1>5, TakingSteps DEF Next
-----------------------------------------------------------------------------
(* What a unit knows was made by it or by an earlier one. *)
LEMMA MadeBefore ==
    ASSUME IdInv, InTurn, NEW u \in Unit, NEW x \in DOMAIN shared,
           state[u] \in {"waiting", "running"}
    PROVE  \E w \in Unit : w <= u /\ Made(w, x)
<1>1. PICK w \in Unit : Made(w, x)
    BY DEF IdInv, News
<1>2. state[w] # "waiting" /\ ~(u < w)
    BY <1>1 DEF InTurn, Made
<1> QED
    BY <1>1, <1>2 DEF Unit

LEMMA EarlierStep == Inv /\ IdInv' /\ [Next]_vars => Earlier'
<1> SUFFICES ASSUME Inv, IdInv', [Next]_vars PROVE Earlier'
    OBVIOUS
<1>a. IdInv /\ InTurn /\ Earlier /\ DOMAIN usrs = Unit
    BY DEF Inv, IdInv, Types
<1>1. ASSUME NEW u \in Unit, Start(u) PROVE Earlier'
    <2>1. /\ usrs' = [usrs EXCEPT ![u] = shared] /\ shared' = shared
          /\ newSymbols' = newSymbols /\ state[u] = "waiting"
        BY <1>1 DEF Start, resultVars
    <2>2. \A x \in DOMAIN shared : \E w \in Unit : w <= u /\ Made(w, x)
        BY <1>a, <2>1, MadeBefore
    <2> QED
        BY <1>a, <2>1, <2>2 DEF Earlier, Made
<1>2. ASSUME NEW u \in Unit, NEW x \in Usr, Taking(u, x) PROVE Earlier'
    <2>1. TakeId(u, x) /\ state[u] = "running"
        BY <1>2 DEF Taking
    <2>2. /\ \A y \in DOMAIN shared : shared'[y] = shared[y]
          /\ \A v \in Unit : newSymbols[v] \subseteq newSymbols'[v]
          /\ DOMAIN usrs'[u] = DOMAIN usrs[u] \cup {x}
          /\ \A v \in Unit \ {u} : usrs'[v] = usrs[v]
        BY <1>a, <2>1, TakenShared, TakenByUnit, TakenNew
    <2>3. \A v \in Unit : \A y \in DOMAIN shared : Made(v, y) => Made(v, y)'
        BY <2>2 DEF Made
    <2>4. \E w \in Unit : w <= u /\ Made(w, x)'
        <3>1. CASE x \in DOMAIN shared
            BY <1>a, <2>1, <2>3, <3>1, MadeBefore
        <3>2. CASE x \notin DOMAIN shared
            <4>1. Made(u, x)'
                BY <1>a, <2>1, <3>2, TakenNew
            <4> QED
                BY <4>1 DEF Unit
        <3> QED
            BY <3>1, <3>2
    <2>5. ASSUME NEW v \in Unit, NEW y \in DOMAIN usrs[v]
          PROVE  \E w \in Unit : w <= v /\ Made(w, y)'
        <3>1. y \in DOMAIN shared
            BY <1>a DEF IdInv, Copied
        <3> QED
            BY <1>a, <2>3, <3>1 DEF Earlier
    <2>6. ASSUME NEW v \in Unit, NEW y \in DOMAIN usrs'[v]
          PROVE  \E w \in Unit : w <= v /\ Made(w, y)'
        BY <2>2, <2>4, <2>5
    <2> QED
        BY <2>6 DEF Earlier
<1>3. CASE \/ \E u \in Unit : Finish(u)
           \/ Commit \/ UNCHANGED vars
    <2>1. UNCHANGED <<shared, usrs, newSymbols>>
        BY <1>3 DEF Finish, Commit, vars, unitVars, resultVars
    <2> QED
        BY <1>a, <2>1 DEF Earlier, Made
<1> QED
    BY <1>a, <1>1, <1>2, <1>3, TakingSteps DEF Next

(* What the ids of a unit say of the symbols goes on holding when it takes one. *)
LEMMA MentionsTaking ==
    ASSUME Inv, NEW u \in Unit, NEW x \in Usr, Taking(u, x),
           \A v \in Unit \ {u} : references'[v] = references[v] /\ bases'[v] = bases[v],
           \A id \in references'[u] :
               id \in references[u] \/ \E y \in DOMAIN usrs[u] \cup {x} : id = shared'[y],
           \A row \in bases'[u] :
               \/ row \in bases[u]
               \/ \E y, z \in DOMAIN usrs[u] \cup {x} : row = <<shared'[y], shared'[z]>>
    PROVE  Mentions'
<1>a. IdInv /\ Mentions /\ TakeId(u, x)
    BY DEF Inv, Taking
<1>b. /\ \A y \in DOMAIN shared : shared'[y] = shared[y]
      /\ DOMAIN usrs'[u] = DOMAIN usrs[u] \cup {x}
      /\ \A v \in Unit \ {u} : usrs'[v] = usrs[v]
      /\ \A v \in Unit \ {u} : newSymbols'[v] = newSymbols[v]
      /\ \A row \in newSymbols'[u] :
             row \in newSymbols[u] \/ (row[1] = x /\ toCreate'[u] = Parent[x])
    BY <1>a, TakenShared, TakenByUnit, TakenNew
<1>c. /\ \A v \in Unit : DOMAIN usrs[v] \subseteq DOMAIN shared
      /\ \A v \in Unit : DOMAIN usrs[v] \subseteq DOMAIN usrs'[v]
      /\ \A v \in Unit \ {u} : toCreate'[v] = toCreate[v]
    BY <1>a, <1>b DEF IdInv, Copied, Types, TakeId
<1>d. \A v \in Unit : \A y \in DOMAIN usrs[v] : y \in DOMAIN usrs'[v] /\ shared'[y] = shared[y]
    BY <1>b, <1>c
<1>1. ASSUME NEW v \in Unit, NEW id \in references'[v]
      PROVE  \E y \in DOMAIN usrs'[v] : id = shared'[y]
    <2>1. CASE id \in references[v]
        BY <1>a, <1>d, <2>1 DEF Mentions
    <2>2. CASE id \notin references[v]
        BY <1>b, <2>2
    <2> QED
        BY <2>1, <2>2
<1>2. ASSUME NEW v \in Unit, NEW row \in bases'[v]
      PROVE  \E y, z \in DOMAIN usrs'[v] : row = <<shared'[y], shared'[z]>>
    <2>1. CASE row \in bases[v]
        <3>1. PICK y \in DOMAIN usrs[v], z \in DOMAIN usrs[v] : row = <<shared[y], shared[z]>>
            BY <1>a, <2>1 DEF Mentions
        <3> QED
            BY <1>d, <3>1
    <2>2. CASE row \notin bases[v]
        BY <1>b, <2>2
    <2> QED
        BY <2>1, <2>2
<1>3. ASSUME NEW v \in Unit, NEW row \in newSymbols'[v]
      PROVE  Parent[row[1]] \in {None, toCreate'[v]} \/ Parent[row[1]] \in DOMAIN usrs'[v]
    <2>1. CASE v # u
        BY <1>a, <1>b, <1>c, <2>1 DEF Mentions
    <2>2. CASE v = u /\ row \in newSymbols[u]
        BY <1>a, <1>b, <2>2 DEF Mentions, Taking
    <2>3. CASE v = u /\ row[1] = x /\ toCreate'[u] = Parent[x]
        BY <2>3
    <2> QED
        BY <1>b, <2>1, <2>2, <2>3
<1> QED
    BY <1>1, <1>2, <1>3 DEF Mentions

LEMMA MentionsStep == Inv /\ [Next]_vars => Mentions'
<1> SUFFICES ASSUME Inv, [Next]_vars PROVE Mentions'
    OBVIOUS
<1>a. /\ IdInv /\ InTurn /\ Mentions
      /\ DOMAIN usrs = Unit /\ DOMAIN bases = Unit /\ DOMAIN references = Unit
      /\ \A u \in Unit : \A x \in DOMAIN usrs[u] : x \in DOMAIN shared /\ usrs[u][x] = shared[x]
      /\ \A u \in Unit : complete[u] \subseteq symbols[u] /\ symbols[u] \subseteq DOMAIN usrs[u]
    BY DEF Inv, IdInv, Types, Copied, Kept
<1>1. ASSUME NEW u \in Unit, Start(u) PROVE Mentions'
    <2>1. /\ usrs' = [usrs EXCEPT ![u] = shared] /\ DOMAIN usrs[u] \subseteq DOMAIN shared
          /\ UNCHANGED <<shared, newSymbols, references, bases, toCreate>>
        BY <1>a, <1>1 DEF Start, resultVars
    <2>2. \A v \in Unit : DOMAIN usrs[v] \subseteq DOMAIN usrs'[v]
        BY <1>a, <2>1
    <2> QED
        BY <1>a, <2>1, <2>2 DEF Mentions
<1>2. ASSUME NEW u \in Unit, GetParent(u) PROVE Mentions'
    <2>1. toCreate[u] \in Usr /\ Taking(u, toCreate[u])
        BY <1>a, <1>2, TakingSteps
    <2>2. references' = references /\ bases' = bases
        BY <1>2 DEF GetParent
    <2> QED
        BY <2>1, <2>2, MentionsTaking
<1>3. ASSUME NEW u \in Unit, NEW x \in Usr, NEW d \in BOOLEAN, Declare(u, x, d) PROVE Mentions'
    <2>1. Taking(u, x) /\ TakeId(u, x)
        BY <1>a, <1>3, TakingSteps DEF Taking
    <2>2. /\ IdOf(u, x) = shared'[x]
          /\ \A y \in DOMAIN shared : shared'[y] = shared[y]
        BY <1>a, <2>1, TakenShared
    <2>3. references' = [references EXCEPT ![u] = @ \cup {shared'[x]}]
        BY <1>3, <2>2 DEF Declare
    <2>4. \/ bases' = bases
          \/ /\ BasesOf[x] \subseteq complete[u]
             /\ bases' = [bases EXCEPT ![u] = @ \cup {<<shared'[x], usrs[u][b]>> : b \in BasesOf[x]}]
        BY <1>3, <2>2 DEF Declare
    <2>5. \A row \in bases'[u] :
               \/ row \in bases[u]
               \/ \E y, z \in DOMAIN usrs[u] \cup {x} : row = <<shared'[y], shared'[z]>>
        <3> SUFFICES ASSUME NEW row \in bases'[u], row \notin bases[u]
                     PROVE  \E y, z \in DOMAIN usrs[u] \cup {x} : row = <<shared'[y], shared'[z]>>
            OBVIOUS
        <3>1. PICK b \in complete[u] : row = <<shared'[x], usrs[u][b]>>
            BY <1>a, <2>4
        <3>2. b \in DOMAIN usrs[u] /\ usrs[u][b] = shared'[b]
            BY <1>a, <2>2
        <3> QED
            BY <3>1, <3>2
    <2>6. /\ \A v \in Unit \ {u} : references'[v] = references[v] /\ bases'[v] = bases[v]
          /\ \A id \in references'[u] :
               id \in references[u] \/ \E y \in DOMAIN usrs[u] \cup {x} : id = shared'[y]
        BY <1>a, <2>3, <2>4
    <2> QED
        BY <2>1, <2>5, <2>6, MentionsTaking
<1>4. ASSUME NEW u \in Unit, NEW x \in Usr, NEW h \in Usr \cup {None}, Refer(u, x, h)
      PROVE  Mentions'
    <2>1. Taking(u, x) /\ TakeId(u, x)
        BY <1>a, <1>4, TakingSteps DEF Taking
    <2>2. /\ IdOf(u, x) = shared'[x]
          /\ \A y \in DOMAIN shared : shared'[y] = shared[y]
        BY <1>a, <2>1, TakenShared
    <2>3. /\ h \in symbols[u] \cup {None} /\ bases' = bases
          /\ references' = [references EXCEPT ![u] =
                @ \cup {shared'[x]} \cup {usrs[u][y] : y \in {h} \ {None}}]
        BY <1>4, <2>2 DEF Refer
    <2>4. /\ \A v \in Unit \ {u} : references'[v] = references[v] /\ bases'[v] = bases[v]
          /\ \A id \in references'[u] :
               id \in references[u] \/ \E y \in DOMAIN usrs[u] \cup {x} : id = shared'[y]
        BY <1>a, <2>2, <2>3
    <2> QED
        BY <2>1, <2>3, <2>4, MentionsTaking
<1>5. CASE \/ \E u \in Unit : Finish(u)
           \/ Commit \/ UNCHANGED vars
    <2>1. UNCHANGED <<shared, usrs, newSymbols, references, bases, toCreate>>
        BY <1>5 DEF Finish, Commit, vars, unitVars, resultVars
    <2> QED
        BY <1>a, <2>1 DEF Mentions
<1> QED
    BY <1>1, <1>2, <1>3, <1>4, <1>5 DEF Next

LEMMA InvStep == Inv /\ [Next]_vars => Inv'
BY IdStep, InTurnStep, QueuedStep, EarlierStep, MentionsStep DEF Inv

THEOREM UnitsInvariant == Spec => []Inv
BY InvInit, InvStep, PTL DEF Spec

(* IdNamesSymbol: an id names one symbol, in the shared map and in every copy of it, and
   one unit only brings the symbol along. *)
THEOREM IdsNameSymbols == Spec => []IdNamesSymbol
<1>1. Inv => IdNamesSymbol
    BY DEF Inv, IdInv, Ids, Copied, News, Made, IdNamesSymbol
<1> QED
    BY <1>1, UnitsInvariant, PTL

(* ReferencesResolve: after any commit the references, bases and parents in the snapshot
   are ids of symbols that are in it. *)
THEOREM CommittedResolves == Spec => []ReferencesResolve
<1>1. Inv => ReferencesResolve
    <2> SUFFICES ASSUME Inv PROVE ReferencesResolve
        OBVIOUS
    <2>1. ASSUME NEW u \in Range(committed), NEW x \in DOMAIN usrs[u]
          PROVE  <<x, shared[x]>> \in SymbolTable
        <3>1. u \in Unit /\ state[u] = "committed"
            BY DEF Inv, IdInv, Types, Queued, Range
        <3>2. PICK w \in Unit : w <= u /\ Made(w, x)
            BY <3>1 DEF Inv, Earlier
        <3>3. state[w] = "committed"
            BY <3>1, <3>2 DEF Inv, Queued, Unit
        <3>4. w \in Range(committed)
            BY <3>3 DEF Inv, Queued, Range
        <3> QED
            BY <3>2, <3>4 DEF Made, SymbolTable
    <2>a. Range(committed) \subseteq Unit
        BY DEF Inv, IdInv, Types, Range
    <2>2. ASSUME NEW u \in Range(committed), NEW x \in DOMAIN usrs[u]
          PROVE  shared[x] \in IdsIn(SymbolTable)
        <3>1. <<x, shared[x]>> \in SymbolTable /\ <<x, shared[x]>>[2] = shared[x]
            BY <2>1
        <3> QED
            BY <3>1 DEF IdsIn
    <2>3. RefTable \subseteq IdsIn(SymbolTable)
        BY <2>a, <2>2 DEF RefTable, Inv, Mentions
    <2>4. \A row \in BaseTable : {row[1], row[2]} \subseteq IdsIn(SymbolTable)
        BY <2>a, <2>2 DEF BaseTable, Inv, Mentions
    <2>5. ASSUME NEW row \in SymbolTable, Parent[row[1]] # None
          PROVE  \E other \in SymbolTable : other[1] = Parent[row[1]]
        <3>1. PICK u \in Range(committed) : row \in newSymbols[u]
            BY DEF SymbolTable
        <3>2. u \in Unit /\ state[u] = "committed"
            BY DEF Inv, IdInv, Types, Queued, Range
        <3>3. Parent[row[1]] \in DOMAIN usrs[u]
            BY <2>5, <3>1, <3>2 DEF Inv, InTurn, Mentions
        <3> QED
            BY <2>1, <3>3
    <2> QED
        BY <2>3, <2>4, <2>5 DEF ReferencesResolve
<1> QED
    BY <1>1, UnitsInvariant, PTL
-----------------------------------------------------------------------------
(* The bases of a class are listed by the unit that makes it, if that one defines it: it
   has a Symbol for the class when it meets the definition, or creates it there. *)
Listing ==
    \A u \in Unit : \A row \in newSymbols[u] :
        /\ row[1] \in symbols[u]
        /\ row[1] \in complete[u] =>
               \A b \in BasesOf[row[1]] :
                   b \in DOMAIN shared /\ <<shared[row[1]], shared[b]>> \in bases[u]

LEMMA ListingTaking ==
    ASSUME Inv, Listing, NEW u \in Unit, NEW x \in Usr, Taking(u, x),
           IsNew(u, x) => x \in symbols'[u],
           \A v \in Unit : bases[v] \subseteq bases'[v],
           \A v \in Unit \ {u} : complete'[v] = complete[v],
           \/ complete'[u] = complete[u]
           \/ /\ complete'[u] = complete[u] \cup {x}
              /\ x \in symbols[u] \/ IsNew(u, x) =>
                     \A b \in BasesOf[x] : /\ b \in DOMAIN shared'
                                           /\ <<shared'[x], shared'[b]>> \in bases'[u]
    PROVE  Listing'
<1>a. IdInv /\ TakeId(u, x) /\ Listing
    BY DEF Inv, Taking
<1>b. /\ DOMAIN shared' = DOMAIN shared \cup {x}
      /\ \A y \in DOMAIN shared : shared'[y] = shared[y]
      /\ \A v \in Unit : \A row \in newSymbols[v] : row[1] \in DOMAIN shared
      /\ \A v \in Unit : complete[v] \subseteq DOMAIN shared
      /\ \A v \in Unit : symbols[v] \subseteq symbols'[v]
    <2>1. /\ DOMAIN shared' = DOMAIN shared \cup {x}
          /\ \A y \in DOMAIN shared : shared'[y] = shared[y]
        BY <1>a, TakenShared
    <2>2. /\ \A v \in Unit : \A row \in newSymbols[v] : row[1] \in DOMAIN shared
          /\ \A v \in Unit : complete[v] \subseteq DOMAIN shared
        BY <1>a DEF IdInv, News, Kept, Copied
    <2>3. \A v \in Unit : symbols[v] \subseteq symbols'[v]
        BY <1>a DEF IdInv, Types, Taking
    <2> QED
        BY <2>1, <2>2, <2>3
<1>1. ASSUME NEW v \in Unit, NEW row \in newSymbols'[v]
      PROVE  \/ row \in newSymbols[v]
             \/ v = u /\ row[1] = x /\ IsNew(u, x) /\ x \notin DOMAIN shared
    <2>1. \/ newSymbols' = newSymbols
          \/ /\ IsNew(u, x) /\ x \notin DOMAIN shared
             /\ newSymbols' = [newSymbols EXCEPT ![u] = @ \cup {<<x, Cardinality(DOMAIN shared)>>}]
        BY <1>a, Taken
    <2> QED
        BY <1>1, <1>a, <2>1 DEF IdInv, Types
<1>2. ASSUME NEW v \in Unit, NEW row \in newSymbols'[v] PROVE row[1] \in symbols'[v]
    BY <1>1, <1>a, <1>b DEF Listing
<1>3. ASSUME NEW v \in Unit, NEW row \in newSymbols'[v], row[1] \in complete'[v],
             NEW b \in BasesOf[row[1]]
      PROVE  b \in DOMAIN shared' /\ <<shared'[row[1]], shared'[b]>> \in bases'[v]
    <2>1. CASE row \in newSymbols[v] /\ row[1] \in complete[v]
        <3>1. /\ row[1] \in DOMAIN shared /\ b \in DOMAIN shared
              /\ <<shared[row[1]], shared[b]>> \in bases[v]
            BY <1>a, <1>b, <1>3, <2>1 DEF Listing
        <3> QED
            BY <1>b, <3>1
    <2>2. CASE row[1] \notin complete[v]
        <3>1. v = u /\ row[1] = x /\ complete'[u] = complete[u] \cup {x}
            BY <1>3, <2>2
        <3>2. x \in symbols[u] \/ IsNew(u, x)
            BY <1>1, <1>3, <1>a, <3>1 DEF Listing
        <3> QED
            BY <1>3, <2>2, <3>1, <3>2
    <2>3. CASE row \notin newSymbols[v] /\ row[1] \in complete[v]
        BY <1>1, <1>3, <1>b, <2>3
    <2> QED
        BY <2>1, <2>2, <2>3
<1> QED
    BY <1>2, <1>3 DEF Listing

LEMMA ListingStep == Inv /\ Listing /\ [Next]_vars => Listing'
<1> SUFFICES ASSUME Inv, Listing, [Next]_vars PROVE Listing'
    OBVIOUS
<1>a. /\ IdInv /\ InTurn /\ DOMAIN bases = Unit
      /\ symbols \in [Unit -> SUBSET Usr] /\ complete \in [Unit -> SUBSET Usr]
      /\ \A u \in Unit : \A x \in DOMAIN usrs[u] : x \in DOMAIN shared /\ usrs[u][x] = shared[x]
      /\ \A u \in Unit : complete[u] \subseteq symbols[u] /\ symbols[u] \subseteq DOMAIN usrs[u]
    BY DEF Inv, IdInv, Types, Copied, Kept
<1>1. ASSUME NEW u \in Unit, GetParent(u) PROVE Listing'
    <2>1. toCreate[u] \in Usr /\ Taking(u, toCreate[u])
        BY <1>a, <1>1, TakingSteps
    <2>2. /\ bases' = bases /\ complete' = complete
          /\ IsNew(u, toCreate[u]) => toCreate[u] \in symbols'[u]
        BY <1>a, <1>1 DEF GetParent
    <2> QED
        BY <2>1, <2>2, ListingTaking
<1>2. ASSUME NEW u \in Unit, NEW x \in Usr, NEW d \in BOOLEAN, Declare(u, x, d) PROVE Listing'
    <2>1. Taking(u, x) /\ TakeId(u, x)
        BY <1>a, <1>2, TakingSteps DEF Taking
    <2>2. /\ IdOf(u, x) = shared'[x] /\ DOMAIN shared' = DOMAIN shared \cup {x}
          /\ \A y \in DOMAIN shared : shared'[y] = shared[y]
        BY <1>a, <2>1, TakenShared
    <2>3. x \in symbols'[u]
        BY <1>a, <1>2 DEF Declare, GetSymbol
    <2>4. CASE ~d
        <3>1. bases' = bases /\ complete' = complete
            BY <1>2, <2>4 DEF Declare
        <3> QED
            BY <2>1, <2>3, <3>1, ListingTaking
    <2>5. CASE d
        <3>1. /\ complete' = [complete EXCEPT ![u] = @ \cup {x}] /\ BasesOf[x] \subseteq complete[u]
              /\ bases' = IF ListsBases(u, x)
                          THEN [bases EXCEPT ![u] = @ \cup {<<shared'[x], usrs[u][b]>> : b \in BasesOf[x]}]
                          ELSE bases
            BY <1>2, <2>2, <2>5 DEF Declare
        <3>2. \A b \in BasesOf[x] : b \in DOMAIN shared' /\ usrs[u][b] = shared'[b]
            BY <1>a, <2>2, <3>1
        <3>3. /\ \A v \in Unit : bases[v] \subseteq bases'[v]
              /\ \A v \in Unit \ {u} : complete'[v] = complete[v]
              /\ complete'[u] = complete[u] \cup {x}
            BY <1>a, <3>1
        <3>4. x \in symbols[u] \/ IsNew(u, x) =>
                  \A b \in BasesOf[x] : <<shared'[x], shared'[b]>> \in bases'[u]
            BY <1>a, <3>1, <3>2 DEF ListsBases
        <3> QED
            BY <2>1, <2>3, <3>2, <3>3, <3>4, ListingTaking
    <2> QED
        BY <2>4, <2>5
<1>3. ASSUME NEW u \in Unit, NEW x \in Usr, NEW h \in Usr \cup {None}, Refer(u, x, h)
      PROVE  Listing'
    <2>1. Taking(u, x)
        BY <1>a, <1>3, TakingSteps
    <2>2. bases' = bases /\ complete' = complete /\ x \in symbols'[u]
        BY <1>a, <1>3 DEF Refer, GetSymbol
    <2> QED
        BY <2>1, <2>2, ListingTaking
<1>4. CASE \/ \E u \in Unit : Start(u) \/ Finish(u)
           \/ Commit \/ UNCHANGED vars
    <2>1. UNCHANGED <<shared, symbols, newSymbols, complete, bases>>
        BY <1>4 DEF Start, Finish, Commit, vars, unitVars, resultVars
    <2> QED
        BY <2>1 DEF Listing
<1> QED
    BY <1>1, <1>2, <1>3, <1>4 DEF Next

(* BasesOfFirstUnit: a class has its bases in the snapshot when the unit that met it
   first defines it. *)
THEOREM FirstUnitListsBases == Spec => []BasesOfFirstUnit
<1>1. Init => Listing
    BY DEF Init, Listing
<1>2. Inv /\ Listing => BasesOfFirstUnit
    <2> SUFFICES ASSUME Inv, Listing, NEW u \in Range(committed), NEW row \in newSymbols[u],
                        row[1] \in complete[u], NEW b \in BasesOf[row[1]]
                 PROVE  <<shared[row[1]], shared[b]>> \in BaseTable
        BY DEF BasesOfFirstUnit, BaseRows
    <2>1. u \in Unit
        BY DEF Inv, IdInv, Types, Range
    <2> QED
        BY <2>1 DEF Listing, BaseTable
<1> QED
    BY <1>1, <1>2, UnitsInvariant, ListingStep, PTL DEF Spec
-----------------------------------------------------------------------------
(* The units with their includes take the steps of SymbolIndexing only. *)
THEOREM UnitsImplementSymbols == UnitsSpec => Spec
<1>1. UnitsInit => Init
    BY DEF UnitsInit
<1>2. [UnitsNext]_<<vars, includeVars>> => [Next]_vars
    <2> SUFFICES ASSUME [UnitsNext]_<<vars, includeVars>> PROVE [Next]_vars
        OBVIOUS
    <2>1. ASSUME NEW u \in Unit, StartUnit(u) PROVE Next
        BY <2>1 DEF StartUnit, Next
    <2>2. ASSUME NEW u \in Unit, ReportSymbols(u) PROVE Next
        BY <2>2 DEF ReportSymbols, Next
    <2>3. CASE CommitUnit
        BY <2>3 DEF CommitUnit, Next
    <2> QED
        BY <2>1, <2>2, <2>3 DEF UnitsNext
<1> QED
    BY <1>1, <1>2, PTL DEF UnitsSpec, Spec

(* So the three properties hold of units with includes, too. *)
THEOREM SymbolsOfUnits ==
    UnitsSpec => []IdNamesSymbol /\ []ReferencesResolve /\ []BasesOfFirstUnit
BY UnitsImplementSymbols, IdsNameSymbols, CommittedResolves, FirstUnitListsBases, PTL
-----------------------------------------------------------------------------
(* The files of a unit. *)
Frame == [file : Path, line : Nat \ {0}]
Include == Nat \X Nat \X Nat

FileTypes ==
    /\ main \in Mains /\ files = Listed
    /\ newFiles = [u \in Unit |-> <<>>] /\ DOMAIN clientData = Unit
    /\ at \in [Unit -> Seq(Frame)] /\ entered \in [Unit -> SUBSET Path]
    /\ includes \in [Unit -> Seq(Include)]
    /\ include \subseteq Include

(* the preprocessor is in files of running units only, and it has entered them *)
Inside ==
    \A u \in Unit : /\ at[u] # <<>> => state[u] = "running"
                    /\ state[u] = "waiting" => entered[u] = {}
                    /\ \A i \in DOMAIN at[u] : at[u][i].file \in entered[u]

(* the first place of a path in the list *)
Earliest(k) == k \in DOMAIN Listed /\ \A j \in 1..k - 1 : Listed[j] # Listed[k]

(* the File that a file has as client data is its own *)
Tagged ==
    \A u \in Unit : /\ DOMAIN clientData[u] = entered[u] \cap Range(Listed)
                    /\ \A path \in DOMAIN clientData[u] : /\ Earliest(clientData[u][path])
                                                          /\ Listed[clientData[u][path]] = path

Describes(row) ==
    /\ Earliest(row[1]) /\ Earliest(row[3])
    /\ row[2] \in DOMAIN Text[Listed[row[1]]] /\ Listed[row[3]] \in Text[Listed[row[1]]][row[2]]

(* the line has been seen, or will be *)
Recorded(u, f, l) == \E k \in DOMAIN includes[u] : Listed[includes[u][k][1]] = f /\ includes[u][k][2] = l
Ahead(u, f, l) == \E i \in DOMAIN at[u] : at[u][i].file = f /\ at[u][i].line <= l

Walk ==
    \A u \in Unit :
        /\ \A k \in DOMAIN includes[u] : Describes(includes[u][k])
        /\ \A f \in entered[u] \cap Range(Listed) : \A l \in DOMAIN Text[f] :
              Text[f][l] \subseteq Range(Listed) => Recorded(u, f, l) \/ Ahead(u, f, l)

(* the tables hold the includes of the committed units *)
Tables ==
    /\ \A row \in ppinclude : \E u \in Unit : state[u] = "committed" /\ row \in RowsOf(u)
    /\ \A u \in Unit : state[u] = "committed" => RowsOf(u) \subseteq ppinclude
    /\ \A row \in ppinclude : \E other \in include : Place(other) = <<row[2], row[3]>>
    /\ \A row \in include : \E u \in Unit :
          /\ RowOf(u, row) \in ppinclude
          /\ \A other \in ppinclude : <<other[2], other[3]>> = Place(row) => other[1] >= u
    /\ \A row, other \in include : Place(row) = Place(other) => row = other

IncludeInv == FileTypes /\ Inside /\ Tagged /\ Walk /\ Tables
-----------------------------------------------------------------------------
(* A set of numbers has a least one. *)
LEMMA Least ==
    ASSUME NEW T, T \subseteq Nat, T # {}
    PROVE  \E k \in T : \A j \in T : k <= j
<1> DEFINE R == {p \in Nat \X Nat : p[1] < p[2]}
<1>1. R = OpToRel(<, Nat)
    BY DEF OpToRel
<1>2. IsWellFoundedOn(OpToRel(<, Nat), Nat)
    BY NatLessThanWellFounded
<1>3. IsWellFoundedOn(R, Nat)
    BY <1>1, <1>2
<1> HIDE DEF R
<1>4. PICK k \in T : \A j \in T : <<j, k>> \notin R
    BY <1>3, WFMin
<1>5. \A j \in T : ~ (j < k)
    BY <1>4 DEF R
<1> QED
    BY <1>5

LEMMA LookedUp ==
    ASSUME FileTypes, NEW u \in Unit, NEW path
    PROVE  /\ Found(path) <=> path \in Range(Listed)
           /\ GetFile(u, path) => newFiles' = newFiles
           /\ path \in Range(Listed) => /\ Earliest(FileId(u, path))
                                        /\ Listed[FileId(u, path)] = path
<1>1. Found(path) <=> path \in Range(Listed)
    BY DEF Found, collect_new_files, FileTypes
<1>2. GetFile(u, path) => newFiles' = newFiles
    BY <1>1 DEF GetFile, FileTypes
<1>3. ASSUME path \in Range(Listed)
      PROVE  Earliest(FileId(u, path)) /\ Listed[FileId(u, path)] = path
    <2> DEFINE places == {k \in DOMAIN Listed : Listed[k] = path}
               first == FileId(u, path)
    <2>1. places \subseteq Nat /\ places # {} /\ DOMAIN Listed = 1..Len(Listed) /\ Len(Listed) \in Nat
        BY <1>3, IncludeAssumption DEF Range
    <2>2. first = Min(places)
        BY <1>3 DEF FileId, FileTypes
    <2>3. \E n \in places : \A j \in places : n <= j
        BY <2>1, Least
    <2>4. first \in places /\ \A j \in places : first <= j
        BY <2>2, <2>3 DEF Min
    <2> HIDE DEF first
    <2>5. \A j \in 1..first - 1 : j \in DOMAIN Listed /\ j < first
        BY <2>1, <2>4
    <2>6. \A j \in 1..first - 1 : Listed[j] # path
        BY <2>1, <2>4, <2>5
    <2> QED
        BY <2>4, <2>6 DEF Earliest, first
<1> QED
    BY <1>1, <1>2, <1>3

LEMMA IncludeInvInit == UnitsInit => IncludeInv
<1> SUFFICES ASSUME UnitsInit PROVE IncludeInv
    OBVIOUS
<1>1. /\ main \in Mains /\ files = Listed /\ ppinclude = {} /\ include = {}
      /\ at = [u \in Unit |-> <<>>] /\ clientData = at /\ newFiles = at /\ includes = at
      /\ entered = [u \in Unit |-> {}] /\ state = [u \in Unit |-> "waiting"]
    BY DEF UnitsInit, IncludeInit, Init
<1>2. FileTypes
    BY <1>1 DEF FileTypes
<1>3. Inside /\ Tagged /\ Walk
    BY <1>1 DEF Inside, Tagged, Walk
<1>4. Tables
    BY <1>1 DEF Tables
<1> QED
    BY <1>2, <1>3, <1>4 DEF IncludeInv
-----------------------------------------------------------------------------
(* An include moves the innermost file on by a line; the file included, when it is entered,
   is put behind it at its first line. *)
LEMMA Moved ==
    ASSUME IncludeInv, NEW u \in Unit, NEW path \in Path, PpIncludedFile(u, path)
    PROVE  LET n == Len(at[u])
               here == at[u][n]
           IN  /\ n \in DOMAIN at[u] /\ DOMAIN at[u] = 1..n /\ In(u) = here /\ here \in Frame
               /\ here.line \in DOMAIN Text[here.file] /\ path \in Text[here.file][here.line]
               /\ at' \in [Unit -> Seq(Frame)] /\ \A v \in Unit \ {u} : at'[v] = at[v]
               /\ 1..n \subseteq DOMAIN at'[u]
               /\ \A i \in 1..n - 1 : at'[u][i] = at[u][i]
               /\ at'[u][n] = [file |-> here.file, line |-> here.line + 1]
               /\ \A i \in DOMAIN at'[u] \ 1..n : at'[u][i] = [file |-> path, line |-> 1]
               /\ path \notin entered[u] => at'[u][n + 1] = [file |-> path, line |-> 1]
                                            /\ n + 1 \in DOMAIN at'[u]
<1> DEFINE n == Len(at[u])
           here == at[u][n]
           next == [at[u] EXCEPT ![n].line = @ + 1]
<1>1. at[u] \in Seq(Frame) /\ at[u] # <<>> /\ at \in [Unit -> Seq(Frame)]
    BY DEF IncludeInv, FileTypes, PpIncludedFile
<1>2. n \in DOMAIN at[u] /\ DOMAIN at[u] = 1..n /\ n \in Nat /\ here \in Frame
    BY <1>1
<1>3. In(u) = here
    BY <1>1 DEF In, Last
<1>4. here.line \in DOMAIN Text[here.file] /\ path \in Text[here.file][here.line]
    <2>1. Text[here.file] \in Seq(SUBSET Path)
        BY <1>2, IncludeAssumption DEF Frame
    <2>2. here.line <= Len(Text[here.file]) /\ path \in Text[here.file][here.line]
        BY <1>3 DEF PpIncludedFile
    <2> QED
        BY <1>2, <2>1, <2>2 DEF Frame
<1>5. /\ next \in Seq(Frame) /\ DOMAIN next = 1..n /\ Len(next) = n
      /\ \A i \in 1..n - 1 : next[i] = at[u][i]
      /\ next[n] = [file |-> here.file, line |-> here.line + 1]
    <2>1. [here EXCEPT !.line = @ + 1] = [file |-> here.file, line |-> here.line + 1]
        BY <1>2 DEF Frame
    <2>2. [here EXCEPT !.line = @ + 1] \in Frame
        BY <1>2 DEF Frame
    <2>3. next = [at[u] EXCEPT ![n] = [here EXCEPT !.line = @ + 1]]
        OBVIOUS
    <2> QED
        BY <1>1, <1>2, <2>1, <2>2, <2>3
<1>6. at' = [at EXCEPT ![u] = IF path \in entered[u] THEN next
                              ELSE Append(next, [file |-> path, line |-> 1])]
    BY DEF PpIncludedFile
<1>7. [file |-> path, line |-> 1] \in Frame
    BY DEF Frame
<1> HIDE DEF n, here, next
<1>8. CASE path \in entered[u]
    <2>1. at'[u] = next
        BY <1>1, <1>6, <1>8
    <2> QED
        BY <1>1, <1>2, <1>3, <1>4, <1>5, <1>6, <1>8, <2>1 DEF n, here
<1>9. CASE path \notin entered[u]
    <2>1. at'[u] = Append(next, [file |-> path, line |-> 1])
        BY <1>1, <1>6, <1>9
    <2>2. /\ at'[u] \in Seq(Frame) /\ DOMAIN at'[u] = 1..n + 1
          /\ at'[u][n + 1] = [file |-> path, line |-> 1]
          /\ \A i \in 1..n : at'[u][i] = next[i]
        BY <1>2, <1>5, <1>7, <2>1
    <2>3. 1..n \subseteq DOMAIN at'[u] /\ \A i \in DOMAIN at'[u] \ 1..n : i = n + 1
        BY <1>2, <2>2
    <2>4. at' \in [Unit -> Seq(Frame)] /\ \A v \in Unit \ {u} : at'[v] = at[v]
        BY <1>1, <1>6, <2>1, <2>2
    <2>5. /\ \A i \in 1..n - 1 : at'[u][i] = at[u][i]
          /\ at'[u][n] = [file |-> here.file, line |-> here.line + 1]
          /\ n + 1 \in DOMAIN at'[u]
        BY <1>2, <1>5, <2>2
    <2> QED
        BY <1>2, <1>3, <1>4, <2>2, <2>3, <2>4, <2>5 DEF n, here
<1> QED
    BY <1>8, <1>9

LEMMA EnteringStep ==
    ASSUME IncludeInv, NEW u \in Unit, NEW path \in Path, PpIncludedFile(u, path), UNCHANGED vars
    PROVE  IncludeInv'
<1> DEFINE n == Len(at[u])
           here == at[u][n]
           row == <<clientData[u][here.file], here.line, FileId(u, path)>>
<1>1. /\ n \in DOMAIN at[u] /\ DOMAIN at[u] = 1..n /\ In(u) = here /\ here \in Frame
      /\ here.line \in DOMAIN Text[here.file] /\ path \in Text[here.file][here.line]
      /\ at' \in [Unit -> Seq(Frame)] /\ \A v \in Unit \ {u} : at'[v] = at[v]
      /\ 1..n \subseteq DOMAIN at'[u]
      /\ \A i \in 1..n - 1 : at'[u][i] = at[u][i]
      /\ at'[u][n] = [file |-> here.file, line |-> here.line + 1]
      /\ \A i \in DOMAIN at'[u] \ 1..n : at'[u][i] = [file |-> path, line |-> 1]
      /\ path \notin entered[u] => at'[u][n + 1] = [file |-> path, line |-> 1]
                                   /\ n + 1 \in DOMAIN at'[u]
    BY Moved
<1>2. /\ files = Listed /\ at[u] \in Seq(Frame) /\ entered \in [Unit -> SUBSET Path]
      /\ includes \in [Unit -> Seq(Include)] /\ DOMAIN clientData = Unit
    BY DEF IncludeInv, FileTypes
<1>3. /\ at[u] # <<>> /\ entered' = [entered EXCEPT ![u] = @ \cup {path}]
      /\ UNCHANGED <<main, files, ppinclude, include, state>>
    BY DEF PpIncludedFile, vars
<1>4. state[u] = "running" /\ here.file \in entered[u]
    BY <1>1, <1>3 DEF IncludeInv, Inside
<1>5. here.file \in Range(Listed) =>
         /\ here.file \in DOMAIN clientData[u] /\ Earliest(clientData[u][here.file])
         /\ Listed[clientData[u][here.file]] = here.file
    BY <1>4 DEF IncludeInv, Tagged
<1>6. /\ newFiles' = newFiles
      /\ path \in Range(Listed) =>
            /\ Earliest(FileId(u, path)) /\ Listed[FileId(u, path)] = path
            /\ clientData' = [clientData EXCEPT ![u] = With(@, path, FileId(u, path))]
      /\ path \notin Range(Listed) => clientData' = clientData
      /\ includes' = IF path \in Range(Listed) /\ here.file \in Range(Listed)
                     THEN [includes EXCEPT ![u] = Append(@, row)] ELSE includes
    <2>1. /\ Found(path) <=> path \in Range(Listed)
          /\ GetFile(u, path) => newFiles' = newFiles
          /\ path \in Range(Listed) => /\ Earliest(FileId(u, path))
                                       /\ Listed[FileId(u, path)] = path
        BY LookedUp DEF IncludeInv
    <2>2. here.file \in Range(Listed) <=> here.file \in DOMAIN clientData[u]
        BY <1>4 DEF IncludeInv, Tagged
    <2> QED
        BY <1>1, <2>1, <2>2 DEF PpIncludedFile
<1>7. path \in Range(Listed) /\ here.file \in Range(Listed) => row \in Include /\ Describes(row)
    <2>1. DOMAIN Listed \subseteq Nat
        BY IncludeAssumption
    <2> QED
        BY <1>1, <1>5, <1>6, <2>1 DEF Include, Describes, Earliest, Frame
<1> HIDE DEF n, here, row
<1>8. /\ includes' \in [Unit -> Seq(Include)] /\ \A v \in Unit \ {u} : includes'[v] = includes[v]
      /\ DOMAIN includes[u] \subseteq DOMAIN includes'[u]
      /\ \A k \in DOMAIN includes[u] : includes'[u][k] = includes[u][k]
      /\ \A k \in DOMAIN includes'[u] \ DOMAIN includes[u] : includes'[u][k] = row /\ Describes(row)
      /\ path \in Range(Listed) /\ here.file \in Range(Listed) =>
            \E k \in DOMAIN includes'[u] : includes'[u][k] = row
    <2>1. CASE path \in Range(Listed) /\ here.file \in Range(Listed)
        <3>1. includes'[u] = Append(includes[u], row) /\ row \in Include /\ Describes(row)
            BY <1>2, <1>6, <1>7, <2>1
        <3>2. /\ includes'[u] \in Seq(Include)
              /\ DOMAIN includes'[u] = DOMAIN includes[u] \cup {Len(includes[u]) + 1}
              /\ \A k \in DOMAIN includes[u] : includes'[u][k] = includes[u][k]
              /\ includes'[u][Len(includes[u]) + 1] = row
            BY <1>2, <3>1
        <3> QED
            BY <1>2, <1>6, <2>1, <3>1, <3>2
    <2>2. CASE ~(path \in Range(Listed) /\ here.file \in Range(Listed))
        BY <1>2, <1>6, <2>2
    <2> QED
        BY <2>1, <2>2
<1>9. FileTypes'
    <2>1. DOMAIN clientData' = Unit /\ entered' \in [Unit -> SUBSET Path]
        BY <1>2, <1>3, <1>6
    <2> QED
        BY <1>1, <1>3, <1>6, <1>8, <2>1 DEF IncludeInv, FileTypes
<1>10. Inside'
    <2>1. \A i \in DOMAIN at'[u] : at'[u][i].file \in entered'[u]
        <3> SUFFICES ASSUME NEW i \in DOMAIN at'[u] PROVE at'[u][i].file \in entered[u] \cup {path}
            BY <1>2, <1>3
        <3>1. CASE i \in 1..n - 1
            BY <1>1, <3>1 DEF IncludeInv, Inside
        <3>2. CASE i = n
            BY <1>1, <1>4, <3>2
        <3>3. CASE i \notin 1..n
            BY <1>1, <3>3
        <3> QED
            BY <1>1, <3>1, <3>2, <3>3
    <2> QED
        BY <1>1, <1>2, <1>3, <1>4, <2>1 DEF IncludeInv, Inside
<1>11. Tagged'
    <2>1. \A v \in Unit \ {u} : clientData'[v] = clientData[v] /\ entered'[v] = entered[v]
        BY <1>2, <1>3, <1>6
    <2>2. /\ DOMAIN clientData'[u] = entered'[u] \cap Range(Listed)
          /\ \A p \in DOMAIN clientData'[u] : /\ Earliest(clientData'[u][p])
                                              /\ Listed[clientData'[u][p]] = p
        <3>1. CASE path \in Range(Listed)
            <4>1. clientData'[u] = With(clientData[u], path, FileId(u, path))
                BY <1>2, <1>6, <3>1
            <4>2. /\ DOMAIN clientData'[u] = DOMAIN clientData[u] \cup {path}
                  /\ \A p \in DOMAIN clientData'[u] :
                        clientData'[u][p] = IF p = path THEN FileId(u, path) ELSE clientData[u][p]
                BY <4>1 DEF With
            <4>3. entered'[u] = entered[u] \cup {path}
                BY <1>2, <1>3
            <4> QED
                BY <1>6, <3>1, <4>2, <4>3 DEF IncludeInv, Tagged
        <3>2. CASE path \notin Range(Listed)
            BY <1>2, <1>3, <1>6, <3>2 DEF IncludeInv, Tagged
        <3> QED
            BY <3>1, <3>2
    <2> QED
        BY <2>1, <2>2 DEF IncludeInv, Tagged
<1>12. Walk'
    <2>1. ASSUME NEW v \in Unit \ {u}
          PROVE  /\ includes'[v] = includes[v] /\ entered'[v] = entered[v] /\ at'[v] = at[v]
        BY <1>1, <1>2, <1>3, <1>8
    <2>2. \A k \in DOMAIN includes'[u] : Describes(includes'[u][k])
        BY <1>8 DEF IncludeInv, Walk
    <2>3. ASSUME NEW f \in entered'[u] \cap Range(Listed), NEW l \in DOMAIN Text[f],
                 Text[f][l] \subseteq Range(Listed)
          PROVE  Recorded(u, f, l)' \/ Ahead(u, f, l)'
        <3>1. CASE f = path /\ path \notin entered[u]
            <4>1. Text[f] \in Seq(SUBSET Path)
                BY <3>1, IncludeAssumption
            <4>2. l >= 1
                BY <4>1
            <4> QED
                BY <1>1, <3>1, <4>2 DEF Ahead
        <3>2. CASE f \in entered[u] /\ Recorded(u, f, l)
            BY <1>8, <3>2 DEF Recorded
        <3>3. CASE f \in entered[u] /\ Ahead(u, f, l)
            <4>1. PICK i \in 1..n : at[u][i].file = f /\ at[u][i].line <= l
                BY <1>1, <3>3 DEF Ahead
            <4>2. CASE i # n
                BY <1>1, <4>1, <4>2 DEF Ahead
            <4>3. CASE i = n /\ l # here.line
                <5>1. here.line \in Nat /\ l \in Nat /\ at'[u][n].line = here.line + 1
                      /\ at'[u][n].file = here.file /\ n \in DOMAIN at'[u] /\ at[u][n] = here
                    <6>1. f \in Path /\ Text[f] \in Seq(SUBSET Path)
                        BY <1>2, <3>3, IncludeAssumption
                    <6> QED
                        BY <1>1, <6>1 DEF Frame, here
                <5> QED
                    BY <4>1, <4>3, <5>1 DEF Ahead
            <4>4. CASE i = n /\ l = here.line
                <5>1. f = here.file /\ path \in Range(Listed) /\ here.file \in Range(Listed)
                    BY <1>1, <2>3, <4>1, <4>4 DEF here
                <5>2. PICK k \in DOMAIN includes'[u] : includes'[u][k] = row
                    BY <1>8, <5>1
                <5>3. Listed[row[1]] = f /\ row[2] = l
                    BY <1>5, <4>4, <5>1 DEF row
                <5> QED
                    BY <5>2, <5>3 DEF Recorded
            <4> QED
                BY <4>2, <4>3, <4>4
        <3> QED
            BY <1>2, <1>3, <2>3, <3>1, <3>2, <3>3 DEF IncludeInv, Walk
    <2> QED
        BY <2>1, <2>2, <2>3 DEF IncludeInv, Walk, Recorded, Ahead
<1>13. Tables'
    <2>1. \A v \in Unit : state[v] = "committed" => RowsOf(v)' = RowsOf(v)
        BY <1>4, <1>8 DEF RowsOf, RowOf
    <2>2. UNCHANGED <<ppinclude, include, state>>
        BY <1>3
    <2> QED
        BY <2>1, <2>2 DEF IncludeInv, Tables, Place, RowOf
<1> QED
    BY <1>9, <1>10, <1>11, <1>12, <1>13 DEF IncludeInv

(* The innermost file is left behind its last line. *)
LEMMA LeavingStep ==
    ASSUME IncludeInv, NEW u \in Unit, LeaveFile(u), UNCHANGED vars
    PROVE  IncludeInv'
<1> DEFINE n == Len(at[u])
           here == at[u][n]
<1>1. /\ at \in [Unit -> Seq(Frame)] /\ at[u] # <<>> /\ at[u] \in Seq(Frame)
      /\ at' = [at EXCEPT ![u] = Front(@)] /\ In(u).line > Len(Text[In(u).file])
      /\ UNCHANGED <<main, files, entered, clientData, newFiles, includes, ppinclude, include, state>>
    BY DEF IncludeInv, FileTypes, LeaveFile, vars
<1>2. n \in Nat \ {0} /\ DOMAIN at[u] = 1..n /\ here \in Frame /\ In(u) = here
    BY <1>1 DEF In, Last
<1>3. Front(at[u]) = SubSeq(at[u], 1, n - 1)
    BY DEF Front
<1>4. /\ Front(at[u]) \in Seq(Frame) /\ DOMAIN Front(at[u]) = 1..n - 1
      /\ \A i \in 1..n - 1 : Front(at[u])[i] = at[u][i]
    BY <1>1, <1>2, <1>3
<1>5. /\ at' \in [Unit -> Seq(Frame)] /\ at'[u] = Front(at[u])
      /\ \A v \in Unit \ {u} : at'[v] = at[v]
    BY <1>1, <1>4
<1>6. here.line > Len(Text[here.file])
    BY <1>1, <1>2
<1> HIDE DEF n, here
<1>7. FileTypes'
    BY <1>1, <1>5 DEF IncludeInv, FileTypes
<1>8. Inside'
    <2>1. \A i \in DOMAIN at'[u] : at'[u][i].file \in entered[u]
        BY <1>2, <1>4, <1>5 DEF IncludeInv, Inside
    <2> QED
        BY <1>1, <1>5, <2>1 DEF IncludeInv, Inside
<1>9. Tagged'
    BY <1>1 DEF IncludeInv, Tagged
<1>10. Walk'
    <2>1. ASSUME NEW f \in entered[u] \cap Range(Listed), NEW l \in DOMAIN Text[f], Ahead(u, f, l)
          PROVE  Ahead(u, f, l)'
        <3>1. PICK i \in 1..n : at[u][i].file = f /\ at[u][i].line <= l
            BY <1>2, <2>1 DEF Ahead
        <3>2. i # n
            <4>1. Text[f] \in Seq(SUBSET Path)
                BY <2>1, <1>1, IncludeAssumption DEF IncludeInv, FileTypes
            <4>2. l \in Nat /\ l <= Len(Text[f]) /\ Len(Text[f]) \in Nat
                BY <4>1
            <4> QED
                BY <1>2, <1>6, <3>1, <4>2 DEF here, Frame
        <3> QED
            BY <1>2, <1>4, <1>5, <3>1, <3>2 DEF Ahead
    <2>2. \A v \in Unit : \A k \in DOMAIN includes'[v] : Describes(includes'[v][k])
        BY <1>1 DEF IncludeInv, Walk
    <2>3. ASSUME NEW v \in Unit, NEW f \in entered'[v] \cap Range(Listed), NEW l \in DOMAIN Text[f],
                 Text[f][l] \subseteq Range(Listed)
          PROVE  Recorded(v, f, l)' \/ Ahead(v, f, l)'
        <3>1. Recorded(v, f, l) \/ Ahead(v, f, l)
            BY <1>1, <2>3 DEF IncludeInv, Walk
        <3>2. CASE v = u
            <4>1. CASE Recorded(v, f, l)
                BY <1>1, <4>1 DEF Recorded
            <4>2. CASE Ahead(v, f, l)
                BY <1>1, <2>1, <2>3, <3>2, <4>2 DEF Ahead
            <4> QED
                BY <3>1, <4>1, <4>2
        <3>3. CASE v # u
            BY <1>1, <1>5, <3>1, <3>3 DEF Recorded, Ahead
        <3> QED
            BY <3>2, <3>3
    <2> QED
        BY <2>2, <2>3 DEF Walk
<1>11. Tables'
    BY <1>1 DEF IncludeInv, Tables, Place, RowOf, RowsOf
<1> QED
    BY <1>7, <1>8, <1>9, <1>10, <1>11 DEF IncludeInv

(* A unit starts in its main file. *)
LEMMA StartingStep ==
    ASSUME IncludeInv, Inv, NEW u \in Unit, StartUnit(u)
    PROVE  IncludeInv'
<1> DEFINE first == [file |-> main[u], line |-> 1]
<1>1. /\ state[u] = "waiting" /\ state' = [state EXCEPT ![u] = "running"]
      /\ at' = [at EXCEPT ![u] = <<first>>] /\ entered' = [entered EXCEPT ![u] = {main[u]}]
      /\ clientData' = [clientData EXCEPT ![u] = With(@, main[u], FileId(u, main[u]))]
      /\ UNCHANGED <<main, files, newFiles, includes, ppinclude, include>>
    BY DEF StartUnit, Start
<1>2. /\ at \in [Unit -> Seq(Frame)] /\ entered \in [Unit -> SUBSET Path] /\ DOMAIN clientData = Unit
      /\ state \in [Unit -> {"waiting", "running", "written", "committed"}]
    BY DEF IncludeInv, FileTypes, Inv, IdInv, Types
<1>3. main[u] \in Range(Listed) /\ main[u] \in Path
    <2>1. main[u] \in Range(Listed)
        BY IncludeAssumption DEF IncludeInv, FileTypes
    <2> QED
        BY <2>1, IncludeAssumption DEF Range
<1>4. Earliest(FileId(u, main[u])) /\ Listed[FileId(u, main[u])] = main[u]
    BY <1>3, LookedUp DEF IncludeInv
<1>5. first \in Frame /\ <<first>> \in Seq(Frame) /\ DOMAIN <<first>> = {1} /\ <<first>>[1] = first
    BY <1>3 DEF Frame
<1>6. /\ at' \in [Unit -> Seq(Frame)] /\ at'[u] = <<first>> /\ entered'[u] = {main[u]}
      /\ clientData'[u] = With(clientData[u], main[u], FileId(u, main[u]))
      /\ state'[u] = "running"
      /\ \A v \in Unit \ {u} : /\ at'[v] = at[v] /\ entered'[v] = entered[v]
                               /\ clientData'[v] = clientData[v] /\ state'[v] = state[v]
    BY <1>1, <1>2, <1>5
<1>7. FileTypes'
    BY <1>1, <1>2, <1>3, <1>6 DEF IncludeInv, FileTypes
<1>8. Inside'
    BY <1>5, <1>6 DEF IncludeInv, Inside
<1>9. Tagged'
    <2>1. DOMAIN clientData[u] = {}
        BY <1>1 DEF IncludeInv, Inside, Tagged
    <2>2. DOMAIN clientData'[u] = {main[u]} /\ clientData'[u][main[u]] = FileId(u, main[u])
        BY <1>6, <2>1 DEF With
    <2> QED
        BY <1>3, <1>4, <1>6, <2>2 DEF IncludeInv, Tagged
<1>10. Walk'
    <2>1. ASSUME NEW f, f = main[u], NEW l \in DOMAIN Text[f] PROVE Ahead(u, f, l)'
        <3>1. Text[f] \in Seq(SUBSET Path)
            BY <1>3, <2>1, IncludeAssumption
        <3>2. l \in Nat /\ 1 <= l
            BY <3>1
        <3>3. /\ 1 \in DOMAIN at'[u] /\ at'[u][1] = first
              /\ first.file = main[u] /\ first.line = 1
            BY <1>5, <1>6
        <3> QED
            BY <2>1, <3>2, <3>3 DEF Ahead
    <2>2. \A v \in Unit : \A k \in DOMAIN includes'[v] : Describes(includes'[v][k])
        BY <1>1 DEF IncludeInv, Walk
    <2>3. ASSUME NEW v \in Unit, NEW f \in entered'[v] \cap Range(Listed), NEW l \in DOMAIN Text[f],
                 Text[f][l] \subseteq Range(Listed)
          PROVE  Recorded(v, f, l)' \/ Ahead(v, f, l)'
        <3>1. CASE v = u
            BY <1>6, <2>1, <2>3, <3>1 DEF Ahead
        <3>2. CASE v # u
            <4>1. Recorded(v, f, l) \/ Ahead(v, f, l)
                BY <1>6, <2>3, <3>2 DEF IncludeInv, Walk
            <4> QED
                BY <1>1, <1>6, <3>2, <4>1 DEF Recorded, Ahead
        <3> QED
            BY <3>1, <3>2
    <2> QED
        BY <2>2, <2>3 DEF Walk
<1>11. Tables'
    <2>1. \A v \in Unit : state'[v] = "committed" <=> state[v] = "committed"
        BY <1>1, <1>6
    <2> QED
        BY <1>1, <2>1 DEF IncludeInv, Tables, Place, RowOf, RowsOf
<1> QED
    BY <1>7, <1>8, <1>9, <1>10, <1>11 DEF IncludeInv

(* What is reported of symbols concerns files only in that a unit ends. *)
LEMMA ReportingStep ==
    ASSUME IncludeInv, Inv, NEW u \in Unit, ReportSymbols(u)
    PROVE  IncludeInv'
<1>1. at[u] = <<>> /\ UNCHANGED includeVars
    BY DEF ReportSymbols, Preprocessed
<1>2. state' = state \/ (state[u] = "running" /\ state' = [state EXCEPT ![u] = "written"])
    BY DEF ReportSymbols, GetParent, Finish, Declare, Refer, Reported
<1>3. state \in [Unit -> {"waiting", "running", "written", "committed"}]
    BY DEF Inv, IdInv, Types
<1>4. \A v \in Unit : /\ state'[v] = "committed" <=> state[v] = "committed"
                      /\ state'[v] = "waiting" <=> state[v] = "waiting"
                      /\ v # u => state'[v] = state[v]
    BY <1>2, <1>3
<1>5. UNCHANGED <<main, files, at, entered, clientData, newFiles, includes, ppinclude, include>>
    BY <1>1 DEF includeVars, inclusionVars
<1>6. FileTypes' /\ Tagged'
    BY <1>5 DEF IncludeInv, FileTypes, Tagged
<1>7. Inside'
    BY <1>1, <1>4, <1>5 DEF IncludeInv, Inside
<1>8. Walk'
    BY <1>5 DEF IncludeInv, Walk, Recorded, Ahead
<1>9. Tables'
    BY <1>4, <1>5 DEF IncludeInv, Tables, Place, RowOf, RowsOf
<1> QED
    BY <1>6, <1>7, <1>8, <1>9 DEF IncludeInv

(* The table with one row for a line gets a row of each new place, and keeps what it has. *)
LEMMA InsertedOnce ==
    ASSUME NEW table \in SUBSET Include, NEW rows \in Seq(Include),
           NEW result, result = Inserted(table, rows)
    PROVE  /\ table \subseteq result /\ result \subseteq Include
           /\ \A k \in DOMAIN rows : \E row \in result : Place(row) = Place(rows[k])
           /\ \A row \in result \ table :
                 /\ \E k \in DOMAIN rows : row = rows[k]
                 /\ \A other \in result : Place(row) = Place(other) => row = other
<1> DEFINE free(k) == /\ \A row \in table : Place(rows[k]) # Place(row)
                      /\ \A j \in 1..k - 1 : Place(rows[j]) # Place(rows[k])
<1>1. result = table \cup {rows[k] : k \in {k \in DOMAIN rows : free(k)}}
    BY DEF Inserted
<1>2. DOMAIN rows = 1..Len(rows) /\ \A k \in DOMAIN rows : rows[k] \in Include
    OBVIOUS
<1>3. ASSUME NEW k \in DOMAIN rows
      PROVE  \E row \in result : Place(row) = Place(rows[k])
    <2> DEFINE T == {j \in DOMAIN rows : Place(rows[j]) = Place(rows[k])}
    <2>1. PICK j \in T : \A i \in T : j <= i
        <3>1. T \subseteq Nat /\ T # {}
            BY <1>2
        <3> HIDE DEF T
        <3> QED
            BY <3>1, Least
    <2>2. \A i \in 1..j - 1 : Place(rows[i]) # Place(rows[j])
        BY <1>2, <2>1
    <2>3. CASE \E row \in table : Place(rows[k]) = Place(row)
        BY <1>1, <2>3
    <2>4. CASE \A row \in table : Place(rows[k]) # Place(row)
        BY <1>1, <2>1, <2>2, <2>4
    <2> QED
        BY <2>3, <2>4
<1>4. ASSUME NEW row \in result \ table
      PROVE  /\ \E k \in DOMAIN rows : row = rows[k]
             /\ \A other \in result : Place(row) = Place(other) => row = other
    <2>1. PICK k \in DOMAIN rows : row = rows[k] /\ free(k)
        BY <1>1
    <2>2. ASSUME NEW other \in result, Place(row) = Place(other) PROVE row = other
        <3>1. other \notin table
            BY <2>1, <2>2
        <3>2. PICK j \in DOMAIN rows : other = rows[j] /\ free(j)
            BY <1>1, <3>1
        <3>3. j \notin 1..k - 1 /\ k \notin 1..j - 1
            BY <2>1, <2>2, <3>2
        <3>4. j = k
            BY <1>2, <3>3
        <3> QED
            BY <2>1, <3>2, <3>4
    <2> QED
        BY <2>1, <2>2
<1> QED
    BY <1>1, <1>2, <1>3, <1>4

(* A unit is committed after those before it, and its includes with it. *)
LEMMA CommittingStep ==
    ASSUME IncludeInv, Inv, CommitUnit
    PROVE  IncludeInv'
<1> DEFINE u == Head(written)
<1>1. /\ written # <<>> /\ written \in Seq(Unit)
      /\ state \in [Unit -> {"waiting", "running", "written", "committed"}]
    BY DEF CommitUnit, Commit, Inv, IdInv, Types
<1>2. u \in Unit /\ 1 \in DOMAIN written /\ written[1] = u
    BY <1>1
<1>3. /\ state' = [state EXCEPT ![u] = "committed"]
      /\ files' = files \o newFiles[u] /\ ppinclude' = ppinclude \cup RowsOf(u)
      /\ include' = Inserted(include, includes[u])
      /\ UNCHANGED <<main, at, entered, clientData, newFiles, includes>>
    BY DEF CommitUnit, Commit, inclusionVars
<1>4. state[u] = "written"
    BY <1>2 DEF Inv, Queued
<1> HIDE DEF u
<1>5. \A v \in Unit : state[v] = "committed" => v < u
    BY <1>2, <1>4 DEF Inv, Queued, Unit
<1>6. \A v \in Unit : /\ state'[v] = "committed" <=> v = u \/ state[v] = "committed"
                      /\ v # u => state'[v] = state[v]
    BY <1>1, <1>2, <1>3
<1>7. files' = files
    <2>1. newFiles[u] = <<>> /\ files = Listed /\ Listed \in Seq(Path)
        BY <1>2, IncludeAssumption DEF IncludeInv, FileTypes
    <2> QED
        BY <1>3, <2>1
<1>8. include \in SUBSET Include /\ includes[u] \in Seq(Include)
    BY <1>2 DEF IncludeInv, FileTypes
<1>9. /\ include \subseteq include' /\ include' \subseteq Include
      /\ \A k \in DOMAIN includes[u] : \E row \in include' : Place(row) = Place(includes[u][k])
      /\ \A row \in include' \ include :
             /\ \E k \in DOMAIN includes[u] : row = includes[u][k]
             /\ \A other \in include' : Place(row) = Place(other) => row = other
    BY <1>3, <1>8, InsertedOnce, SMTT(30)
<1>10. FileTypes'
    BY <1>3, <1>7, <1>9 DEF IncludeInv, FileTypes
<1>11. Inside'
    BY <1>3, <1>4, <1>6 DEF IncludeInv, Inside
<1>12. Tagged' /\ Walk'
    BY <1>3 DEF IncludeInv, Tagged, Walk, Recorded, Ahead
<1>13. Tables'
    <2>a. \A v \in Unit : RowsOf(v)' = RowsOf(v)
        BY <1>3 DEF RowsOf, RowOf
    <2>b. RowsOf(u) = {RowOf(u, includes[u][k]) : k \in DOMAIN includes[u]}
        BY DEF RowsOf, Range
    <2>c. \A row \in ppinclude' : row \in ppinclude
                                 \/ \E k \in DOMAIN includes[u] : row = RowOf(u, includes[u][k])
        BY <1>3, <2>b
    <2>d. \A k \in DOMAIN includes[u] : includes[u][k] \in Include
        BY <1>8
    <2>1. \A row \in ppinclude' : \E v \in Unit : state'[v] = "committed" /\ row \in RowsOf(v)'
        BY <1>2, <1>3, <1>6, <2>a DEF IncludeInv, Tables
    <2>2. \A v \in Unit : state'[v] = "committed" => RowsOf(v)' \subseteq ppinclude'
        BY <1>3, <1>6, <2>a DEF IncludeInv, Tables
    <2>3. \A row \in ppinclude' : \E other \in include' : Place(other) = <<row[2], row[3]>>
        <3> SUFFICES ASSUME NEW row \in ppinclude'
                     PROVE  \E other \in include' : Place(other) = <<row[2], row[3]>>
            OBVIOUS
        <3>1. CASE row \in ppinclude
            BY <1>9, <3>1 DEF IncludeInv, Tables
        <3>2. ASSUME NEW k \in DOMAIN includes[u], row = RowOf(u, includes[u][k])
              PROVE  \E other \in include' : Place(other) = <<row[2], row[3]>>
            <4>1. <<row[2], row[3]>> = Place(includes[u][k])
                BY <3>2 DEF RowOf, Place
            <4> QED
                BY <1>9, <4>1
        <3> QED
            BY <2>c, <3>1, <3>2
    <2>4. ASSUME NEW row \in include'
          PROVE  \E v \in Unit :
                    /\ RowOf(v, row) \in ppinclude'
                    /\ \A other \in ppinclude' : <<other[2], other[3]>> = Place(row) => other[1] >= v
        <3>1. CASE row \in include
            <4>1. PICK v \in Unit :
                     /\ RowOf(v, row) \in ppinclude
                     /\ \A other \in ppinclude : <<other[2], other[3]>> = Place(row) => other[1] >= v
                BY <3>1 DEF IncludeInv, Tables
            <4>2. state[v] = "committed"
                <5>1. PICK w \in Unit : state[w] = "committed" /\ RowOf(v, row) \in RowsOf(w)
                    BY <4>1 DEF IncludeInv, Tables
                <5>2. v = w
                    BY <5>1 DEF RowsOf, RowOf
                <5> QED
                    BY <5>1, <5>2
            <4>3. v < u /\ u >= v
                BY <1>2, <1>5, <4>2 DEF Unit
            <4>4. ASSUME NEW other \in ppinclude', <<other[2], other[3]>> = Place(row)
                  PROVE  other[1] >= v
                <5>1. CASE other \in ppinclude
                    BY <4>1, <4>4, <5>1
                <5>2. CASE other \notin ppinclude
                    BY <2>c, <4>3, <5>2 DEF RowOf
                <5> QED
                    BY <5>1, <5>2
            <4> QED
                BY <1>3, <4>1, <4>4
        <3>2. CASE row \notin include
            <4>1. PICK k \in DOMAIN includes[u] : row = includes[u][k]
                BY <1>9, <3>2
            <4>2. RowOf(u, row) \in ppinclude'
                BY <1>3, <2>b, <4>1
            <4>3. ASSUME NEW other \in ppinclude', <<other[2], other[3]>> = Place(row)
                  PROVE  other[1] >= u
                <5>1. other \notin ppinclude
                    <6> SUFFICES ASSUME other \in ppinclude PROVE FALSE
                        OBVIOUS
                    <6>1. PICK old \in include : Place(old) = Place(row)
                        BY <4>3 DEF IncludeInv, Tables
                    <6> QED
                        BY <1>9, <3>2, <6>1
                <5>2. other[1] = u
                    BY <2>c, <5>1 DEF RowOf
                <5> QED
                    BY <1>2, <5>2 DEF Unit
            <4> QED
                BY <1>2, <4>2, <4>3
        <3> QED
            BY <3>1, <3>2
    <2>5. ASSUME NEW row \in include', NEW other \in include', Place(row) = Place(other)
          PROVE  row = other
        <3>1. CASE row \in include /\ other \in include
            BY <2>5, <3>1 DEF IncludeInv, Tables
        <3>2. CASE row \notin include \/ other \notin include
            BY <1>9, <2>5, <3>2
        <3> QED
            BY <3>1, <3>2
    <2> QED
        BY <2>1, <2>2, <2>3, <2>4, <2>5 DEF Tables, Place, RowOf
<1> QED
    BY <1>10, <1>11, <1>12, <1>13 DEF IncludeInv

LEMMA IncludeInvStep == IncludeInv /\ Inv /\ [UnitsNext]_<<vars, includeVars>> => IncludeInv'
<1> SUFFICES ASSUME IncludeInv, Inv, [UnitsNext]_<<vars, includeVars>> PROVE IncludeInv'
    OBVIOUS
<1>1. CASE UnitsNext
    <2>1. ASSUME NEW u \in Unit, LeaveFile(u) \/ \E path \in Path : PpIncludedFile(u, path), UNCHANGED vars
          PROVE  IncludeInv'
        BY <2>1, EnteringStep, LeavingStep
    <2> QED
        BY <1>1, <2>1, StartingStep, ReportingStep, CommittingStep DEF UnitsNext
<1>2. CASE UNCHANGED <<vars, includeVars>>
    <2>1. UNCHANGED <<main, files, at, entered, clientData, newFiles, includes, ppinclude, include, state>>
        BY <1>2 DEF vars, includeVars, inclusionVars
    <2>2. FileTypes' /\ Inside' /\ Tagged'
        BY <2>1 DEF IncludeInv, FileTypes, Inside, Tagged
    <2>3. Walk'
        BY <2>1 DEF IncludeInv, Walk, Recorded, Ahead
    <2>4. Tables'
        BY <2>1 DEF IncludeInv, Tables, Place, RowOf, RowsOf
    <2> QED
        BY <2>2, <2>3, <2>4 DEF IncludeInv
<1> QED
    BY <1>1, <1>2

(* IncludesAreRight: the includes between files of the snapshot are those of the committed
   units, for every number of files and units and whatever a line includes. *)
THEOREM IncludesOfUnits == UnitsSpec => []IncludesAreRight
<1>1. IncludeInv /\ Inv => IncludesAreRight
    <2> SUFFICES ASSUME IncludeInv, Inv PROVE IncludesAreRight
        OBVIOUS
    <2>1. files = Listed /\ \A k \in DOMAIN files : ~(k > Len(Listed))
        BY IncludeAssumption DEF IncludeInv, FileTypes
    <2>2. ASSUME NEW u \in Range(committed) PROVE u \in Unit /\ state[u] = "committed"
        BY DEF Inv, IdInv, Types, Queued, Range
    <2>3. ASSUME NEW row \in ppinclude
          PROVE  /\ row[1] \in Range(committed) /\ {row[2], row[4]} \subseteq DOMAIN files
                 /\ IsFirst(row[2]) /\ IsFirst(row[4])
                 /\ row[3] \in DOMAIN Text[files[row[2]]] /\ files[row[4]] \in Text[files[row[2]]][row[3]]
        <3>1. PICK u \in Unit : state[u] = "committed" /\ row \in RowsOf(u)
            BY DEF IncludeInv, Tables
        <3>2. PICK k \in DOMAIN includes[u] : row = RowOf(u, includes[u][k])
            BY <3>1 DEF RowsOf, Range
        <3>3. Describes(includes[u][k])
            BY DEF IncludeInv, Walk
        <3>4. u \in Range(committed)
            BY <3>1 DEF Inv, Queued, Range
        <3> QED
            BY <2>1, <3>2, <3>3, <3>4 DEF RowOf, Describes, Earliest, IsFirst
    <2>4. ASSUME NEW u \in Range(committed), NEW f \in entered[u] \cap Range(Listed),
                 NEW l \in DOMAIN Text[f], Text[f][l] \subseteq Range(Listed)
          PROVE  \E row \in ppinclude : row[1] = u /\ files[row[2]] = f /\ row[3] = l
        <3>1. u \in Unit /\ state[u] = "committed"
            BY <2>2
        <3>2. at[u] = <<>>
            BY <3>1 DEF IncludeInv, Inside
        <3>3. ~Ahead(u, f, l)
            BY <3>2 DEF Ahead
        <3>4. PICK k \in DOMAIN includes[u] : Listed[includes[u][k][1]] = f /\ includes[u][k][2] = l
            BY <2>4, <3>1, <3>3 DEF IncludeInv, Walk, Recorded
        <3>5. RowOf(u, includes[u][k]) \in ppinclude
            BY <3>1 DEF IncludeInv, Tables, RowsOf, Range
        <3> QED
            BY <2>1, <3>4, <3>5 DEF RowOf
    <2>5. \A row \in include : \E u \in Unit :
             /\ RowOf(u, row) \in ppinclude
             /\ \A other \in ppinclude : <<other[2], other[3]>> = Place(row) => other[1] >= u
        BY DEF IncludeInv, Tables
    <2>6. {<<row[2], row[3]>> : row \in ppinclude} = {Place(row) : row \in include}
        <3>1. \A row \in ppinclude : <<row[2], row[3]>> \in {Place(other) : other \in include}
            BY DEF IncludeInv, Tables
        <3>2. ASSUME NEW row \in include
              PROVE  \E other \in ppinclude : <<other[2], other[3]>> = Place(row)
            <4>1. PICK u \in Unit : RowOf(u, row) \in ppinclude
                BY <2>5
            <4>2. <<RowOf(u, row)[2], RowOf(u, row)[3]>> = Place(row)
                BY DEF RowOf, Place
            <4> QED
                BY <4>1, <4>2
        <3> QED
            BY <3>1, <3>2
    <2>7. \A r, s \in include : Place(r) = Place(s) => r = s
        BY DEF IncludeInv, Tables
    <2> QED
        BY <2>1, <2>3, <2>4, <2>5, <2>6, <2>7 DEF IncludesAreRight
<1>2. UnitsSpec => []Inv
    BY UnitsImplementSymbols, UnitsInvariant, PTL
<1> QED
    BY <1>1, <1>2, IncludeInvInit, IncludeInvStep, PTL DEF UnitsSpec
=============================================================================
