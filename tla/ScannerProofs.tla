--------------------------- MODULE ScannerProofs ---------------------------
(***************************************************************************)
(* Theorems about Scanner, for every number of units and parsing threads:  *)
(* what scanSln leaves behind when it returns, and when it does not.       *)
(*                                                                         *)
(* And about SharedQueue, through which the results come to it, for every  *)
(* number of producers, consumers and elements.  QueueTypes and HoldInv    *)
(* say who holds the mutex; the order of the elements and the count of     *)
(* wake-ups are each inductive on top.                                     *)
(***************************************************************************)
EXTENDS Scanner, SharedQueue, SequenceLemmas
-----------------------------------------------------------------------------
(* What Append and Tail do to the elements of a queue. *)
LEMMA RangeAppend ==
    ASSUME NEW S, NEW s \in Seq(S), NEW e \in S
    PROVE  Append(s, e) \in Seq(S) /\ Range(Append(s, e)) = Range(s) \cup {e}
<1>1. /\ Append(s, e) \in Seq(S)
      /\ DOMAIN s = 1..Len(s) /\ Len(s) \in Nat
      /\ DOMAIN Append(s, e) = 1..(Len(s) + 1)
      /\ \A i \in DOMAIN s : Append(s, e)[i] = s[i]
      /\ Append(s, e)[Len(s) + 1] = e
    OBVIOUS
<1>2. DOMAIN Append(s, e) = DOMAIN s \cup {Len(s) + 1}
    BY <1>1
<1> QED
    BY <1>1, <1>2 DEF Range

LEMMA RangeTail ==
    ASSUME NEW S, NEW s \in Seq(S), s # <<>>
    PROVE  /\ Head(s) \in S /\ Tail(s) \in Seq(S)
           /\ Range(s) = {Head(s)} \cup Range(Tail(s))
<1>1. /\ Head(s) \in S /\ Tail(s) \in Seq(S) /\ Head(s) = s[1]
      /\ DOMAIN s = 1..Len(s) /\ Len(s) \in Nat \ {0}
      /\ DOMAIN Tail(s) = 1..(Len(s) - 1)
      /\ \A i \in DOMAIN Tail(s) : Tail(s)[i] = s[i + 1]
    OBVIOUS
<1>2. /\ \A i \in DOMAIN s : i = 1 \/ (i - 1 \in DOMAIN Tail(s) /\ s[i] = Tail(s)[i - 1])
      /\ 1 \in DOMAIN s /\ \A i \in DOMAIN Tail(s) : i + 1 \in DOMAIN s
    BY <1>1
<1> QED
    BY <1>1, <1>2 DEF Range

LEMMA InjectiveAppend ==
    ASSUME NEW S, NEW s \in Seq(S), NEW e \in S, IsInjective(s), e \notin Range(s)
    PROVE  IsInjective(Append(s, e))
<1>1. /\ DOMAIN s = 1..Len(s) /\ Len(s) \in Nat
      /\ DOMAIN Append(s, e) = 1..(Len(s) + 1)
      /\ \A i \in DOMAIN s : Append(s, e)[i] = s[i]
      /\ Append(s, e)[Len(s) + 1] = e
    OBVIOUS
<1>2. DOMAIN Append(s, e) = DOMAIN s \cup {Len(s) + 1}
    BY <1>1
<1> QED
    BY <1>1, <1>2 DEF Range, IsInjective

LEMMA InjectiveTail ==
    ASSUME NEW S, NEW s \in Seq(S), s # <<>>, IsInjective(s)
    PROVE  IsInjective(Tail(s)) /\ Head(s) \notin Range(Tail(s))
<1>1. /\ Head(s) = s[1] /\ 1 \in DOMAIN s
      /\ DOMAIN s = 1..Len(s) /\ Len(s) \in Nat \ {0}
      /\ DOMAIN Tail(s) = 1..(Len(s) - 1)
      /\ \A i \in DOMAIN Tail(s) : Tail(s)[i] = s[i + 1]
    OBVIOUS
<1>2. \A i \in DOMAIN Tail(s) : i \in Nat \ {0} /\ i + 1 \in DOMAIN s /\ i + 1 # 1
    BY <1>1
<1>3. Head(s) \notin Range(Tail(s))
    BY <1>1, <1>2 DEF Range, IsInjective
<1>4. ASSUME NEW i \in DOMAIN Tail(s), NEW j \in DOMAIN Tail(s), Tail(s)[i] = Tail(s)[j]
      PROVE  i = j
    <2>1. i + 1 = j + 1
        BY <1>1, <1>2, <1>4 DEF IsInjective
    <2> QED
        BY <2>1, <1>2
<1> QED
    BY <1>3, <1>4 DEF IsInjective

LEMMA RangeEmpty == Range(<<>>) = {}
BY DEF Range

LEMMA RangeType == ASSUME NEW S, NEW s \in Seq(S) PROVE Range(s) \subseteq S
BY DEF Range
-----------------------------------------------------------------------------
Holding  == {"handle", "processDrained", "processIndexed"}
LastLoop == {"indexerDone?", "indexedEmpty?", "nextIndexed", "processIndexed", "finished"}

(* What the main thread knows from where it is: done() stays true once nobody
   submits, and a queue nobody writes to stays empty. *)
PhaseInv ==
    /\ pc # "submit" => submitted = NbUnits
    /\ cur # None <=> pc \in Holding
    /\ pc = "parsedEmpty?" => P!Done
    /\ pc \in LastLoop => P!Done /\ parseResults = <<>>
    /\ pc \in {"indexedEmpty?", "finished"} => I!Done
    /\ pc = "finished" => indexResults = <<>>
    /\ pc = "nextDrained" => indexResults # <<>>

(* A unit is in a pool once. *)
PoolInv ==
    /\ IsInjective(parseWaiting) /\ Range(parseWaiting) \cap parseRunning = {}
    /\ IsInjective(indexWaiting) /\ Range(indexWaiting) \cap indexRunning = {}

(* Where a unit is between asyncParse and asyncIndex, and from there on. *)
Parsing ==
    Range(parseWaiting) \cup (parseRunning \ parsed) \cup Range(parseResults)
        \cup (IF pc = "handle" THEN {cur} ELSE {})
Indexing ==
    Range(indexWaiting) \cup (indexRunning \ indexed) \cup Range(indexResults)
        \cup (IF pc \in {"processDrained", "processIndexed"} THEN {cur} ELSE {})

(* No unit is lost on either side of the hand-over. *)
PlaceInv ==
    /\ 1..submitted \subseteq Parsing \cup Range(handed)
    /\ Range(handed) \subseteq Indexing \cup Range(committed)

Inv == TypeOK /\ PhaseInv /\ PoolInv /\ PlaceInv

LEMMA InvInit == Init => Inv
<1> SUFFICES ASSUME Init PROVE Inv
    OBVIOUS
<1>1. TypeOK
    BY ScannerAssumption DEF ScannerAssumption, Init, TypeOK, P!Init, I!Init, None
<1>2. PhaseInv
    BY DEF Init, PhaseInv, Holding, LastLoop
<1>3. PlaceInv
    <2>1. 1..submitted = {}
        BY DEF Init
    <2> QED
        BY <2>1, RangeEmpty DEF Init, PlaceInv
<1>4. PoolInv
    BY RangeEmpty DEF Init, P!Init, I!Init, PoolInv, IsInjective
<1> QED
    BY <1>1, <1>2, <1>3, <1>4 DEF Inv

LEMMA PoolInvStep == Inv /\ [Next]_vars => PoolInv'
<1> SUFFICES ASSUME Inv, [Next]_vars PROVE PoolInv'
    OBVIOUS
<1> USE DEF Inv, TypeOK, PoolInv, mainVars, parserVars, indexerVars, storeVars
<1>1. CASE AsyncParse
    <2>1. /\ submitted + 1 \in Unit /\ submitted + 1 \notin parseRunning
          /\ submitted + 1 \notin Range(parseWaiting)
          /\ parseWaiting' = Append(parseWaiting, submitted + 1)
          /\ UNCHANGED <<parseRunning, indexWaiting, indexRunning>>
        BY <1>1, ScannerAssumption DEF ScannerAssumption, AsyncParse, P!Submit, Unit, Range
    <2> QED
        BY <2>1, RangeAppend, InjectiveAppend
<1>2. CASE Handle
    <2>1. /\ cur \notin indexRunning /\ cur \notin Range(indexWaiting)
          /\ indexWaiting' = Append(indexWaiting, cur)
          /\ UNCHANGED <<parseWaiting, parseRunning, indexRunning>>
        BY <1>2 DEF Handle, I!Submit, Range
    <2>2. cur \in Unit
        BY <1>2 DEF Handle, PhaseInv, Holding
    <2> QED
        BY <2>1, <2>2, RangeAppend, InjectiveAppend
<1>3. CASE ParseStart
    <2>1. /\ parseWaiting # <<>> /\ parseWaiting' = Tail(parseWaiting)
          /\ parseRunning' = parseRunning \cup {Head(parseWaiting)}
          /\ UNCHANGED <<indexWaiting, indexRunning>>
        BY <1>3 DEF ParseStart, P!Start
    <2> QED
        BY <2>1, RangeTail, InjectiveTail
<1>4. CASE IndexStart
    <2>1. /\ indexWaiting # <<>> /\ indexWaiting' = Tail(indexWaiting)
          /\ indexRunning' = indexRunning \cup {Head(indexWaiting)}
          /\ UNCHANGED <<parseWaiting, parseRunning>>
        BY <1>4 DEF IndexStart, I!Start
    <2> QED
        BY <2>1, RangeTail, InjectiveTail
<1>5. ASSUME NEW u \in Unit,
             ParseWrite(u) \/ ParseFinish(u) \/ IndexWrite(u) \/ IndexFinish(u)
      PROVE  PoolInv'
    BY <1>5 DEF ParseWrite, ParseFinish, IndexWrite, IndexFinish, P!Finish, I!Finish
<1>6. CASE StartLoop \/ ParserDone \/ ParsedEmpty \/ NextParsed \/ DrainEmpty
           \/ IndexerDone \/ IndexedEmpty \/ NextIndexed \/ Process
    BY <1>6 DEF StartLoop, ParserDone, ParsedEmpty, NextParsed, DrainEmpty,
                IndexerDone, IndexedEmpty, NextIndexed, Process
<1>7. CASE UNCHANGED vars
    BY <1>7 DEF vars
<1> QED
    BY <1>1, <1>2, <1>3, <1>4, <1>5, <1>6, <1>7 DEF Next, MainStep, ParseStep, IndexStep

LEMMA InvStep == Inv /\ [Next]_vars => Inv'
<1> SUFFICES ASSUME Inv, [Next]_vars, PoolInv' PROVE Inv'
    BY PoolInvStep
<1> USE ScannerAssumption
    DEF ScannerAssumption, Inv, TypeOK, PhaseInv, Holding, LastLoop, None,
        mainVars, parserVars, indexerVars, storeVars, P!Done, I!Done
<1>1. CASE AsyncParse
    <2>0. /\ submitted + 1 \in Unit /\ pc' = pc /\ pc = "submit"
          /\ submitted \in Nat /\ submitted' = submitted + 1
          /\ parseWaiting' = Append(parseWaiting, submitted + 1)
          /\ UNCHANGED <<cur, parseRunning, parsed, parseResults, indexerVars, indexResults, storeVars>>
        BY <1>1 DEF AsyncParse, P!Submit, Unit
    <2>1. /\ parseWaiting' \in Seq(Unit)
          /\ Range(parseWaiting') = Range(parseWaiting) \cup {submitted + 1}
        BY <2>0, RangeAppend
    <2>2. TypeOK' /\ PhaseInv'
        BY <1>1, <2>0, <2>1 DEF AsyncParse
    <2>3. PlaceInv'
        <3>1. 1..submitted' = 1..submitted \cup {submitted + 1}
            BY <2>0
        <3> QED
            BY <2>0, <2>1, <3>1 DEF PlaceInv, Parsing, Indexing
    <2> QED
        BY <2>2, <2>3
<1>2. CASE StartLoop \/ ParserDone \/ ParsedEmpty \/ DrainEmpty \/ IndexerDone \/ IndexedEmpty
    <2>1. TypeOK' /\ PhaseInv'
        BY <1>2 DEF StartLoop, ParserDone, ParsedEmpty, DrainEmpty, IndexerDone, IndexedEmpty
    <2>2. PlaceInv'
        BY <1>2 DEF StartLoop, ParserDone, ParsedEmpty, DrainEmpty, IndexerDone, IndexedEmpty,
                    PlaceInv, Parsing, Indexing
    <2> QED
        BY <2>1, <2>2
<1>3. CASE NextParsed
    <2>1. /\ Head(parseResults) \in Unit /\ Tail(parseResults) \in Seq(Unit)
          /\ Range(parseResults) = {Head(parseResults)} \cup Range(Tail(parseResults))
        BY <1>3, RangeTail DEF NextParsed
    <2>2. TypeOK' /\ PhaseInv'
        BY <1>3, <2>1 DEF NextParsed, Unit
    <2>3. PlaceInv'
        BY <1>3, <2>1 DEF NextParsed, PlaceInv, Parsing, Indexing
    <2> QED
        BY <2>2, <2>3
<1>4. CASE Handle
    <2>1. cur \in Unit /\ handed' = Append(handed, cur) /\ indexWaiting' = Append(indexWaiting, cur)
        BY <1>4 DEF Handle, I!Submit
    <2>2. /\ handed' \in Seq(Unit) /\ Range(handed') = Range(handed) \cup {cur}
          /\ indexWaiting' \in Seq(Unit) /\ Range(indexWaiting') = Range(indexWaiting) \cup {cur}
        BY <2>1, RangeAppend
    <2>3. TypeOK' /\ PhaseInv'
        BY <1>4, <2>1, <2>2 DEF Handle, I!Submit
    <2>4. PlaceInv'
        BY <1>4, <2>2 DEF Handle, I!Submit, PlaceInv, Parsing, Indexing
    <2> QED
        BY <2>3, <2>4
<1>5. CASE NextIndexed
    <2>1. /\ Head(indexResults) \in Unit /\ Tail(indexResults) \in Seq(Unit)
          /\ Range(indexResults) = {Head(indexResults)} \cup Range(Tail(indexResults))
        BY <1>5, RangeTail DEF NextIndexed
    <2>2. TypeOK' /\ PhaseInv'
        <3>1. Head(indexResults) # None
            BY <2>1 DEF Unit
        <3>2. TypeOK'
            BY <1>5, <2>1 DEF NextIndexed
        <3>3. PhaseInv'
            BY <1>5, <3>1 DEF NextIndexed
        <3> QED
            BY <3>2, <3>3
    <2>3. PlaceInv'
        BY <1>5, <2>1 DEF NextIndexed, PlaceInv, Parsing, Indexing
    <2> QED
        BY <2>2, <2>3
<1>6. CASE Process
    <2>1. cur \in Unit /\ committed' = Append(committed, cur)
        BY <1>6 DEF Process
    <2>2. committed' \in Seq(Unit) /\ Range(committed') = Range(committed) \cup {cur}
        BY <2>1, RangeAppend
    <2>3. TypeOK' /\ PhaseInv'
        BY <1>6, <2>2 DEF Process
    <2>4. PlaceInv'
        BY <1>6, <2>2 DEF Process, PlaceInv, Parsing, Indexing
    <2> QED
        BY <2>3, <2>4
<1>7. CASE ParseStart
    <2>1. /\ parseWaiting # <<>> /\ parseWaiting' = Tail(parseWaiting)
          /\ parseRunning' = parseRunning \cup {Head(parseWaiting)}
        BY <1>7 DEF ParseStart, P!Start
    <2>2. /\ Head(parseWaiting) \in Unit /\ Tail(parseWaiting) \in Seq(Unit)
          /\ Range(parseWaiting) = {Head(parseWaiting)} \cup Range(Tail(parseWaiting))
        BY <2>1, RangeTail
    <2>3. TypeOK' /\ PhaseInv'
        BY <1>7, <2>1, <2>2 DEF ParseStart
    <2>4. PlaceInv'
        <3>1. Head(parseWaiting) \notin parsed
            BY <2>2 DEF PoolInv
        <3> QED
            BY <1>7, <2>1, <2>2, <3>1 DEF ParseStart, PlaceInv, Parsing, Indexing
    <2> QED
        BY <2>3, <2>4
<1>8. CASE IndexStart
    <2>1. /\ indexWaiting # <<>> /\ indexWaiting' = Tail(indexWaiting)
          /\ indexRunning' = indexRunning \cup {Head(indexWaiting)}
        BY <1>8 DEF IndexStart, I!Start
    <2>2. /\ Head(indexWaiting) \in Unit /\ Tail(indexWaiting) \in Seq(Unit)
          /\ Range(indexWaiting) = {Head(indexWaiting)} \cup Range(Tail(indexWaiting))
        BY <2>1, RangeTail
    <2>3. TypeOK' /\ PhaseInv'
        BY <1>8, <2>1, <2>2 DEF IndexStart
    <2>4. PlaceInv'
        <3>1. Head(indexWaiting) \notin indexed
            BY <2>2 DEF PoolInv
        <3> QED
            BY <1>8, <2>1, <2>2, <3>1 DEF IndexStart, PlaceInv, Parsing, Indexing
    <2> QED
        BY <2>3, <2>4
<1>9. ASSUME NEW u \in Unit, ParseWrite(u) PROVE Inv'
    <2>1. /\ parseResults' \in Seq(Unit)
          /\ Range(parseResults') = Range(parseResults) \cup {u}
        BY <1>9, RangeAppend DEF ParseWrite
    <2>2. TypeOK' /\ PhaseInv'
        BY <1>9, <2>1 DEF ParseWrite
    <2>3. PlaceInv'
        BY <1>9, <2>1 DEF ParseWrite, PlaceInv, Parsing, Indexing
    <2> QED
        BY <2>2, <2>3
<1>10. ASSUME NEW u \in Unit, IndexWrite(u) PROVE Inv'
    <2>1. /\ indexResults' \in Seq(Unit)
          /\ Range(indexResults') = Range(indexResults) \cup {u}
        BY <1>10, RangeAppend DEF IndexWrite
    <2>2. TypeOK' /\ PhaseInv'
        <3>1. TypeOK'
            BY <1>10, <2>1 DEF IndexWrite
        <3>2. indexResults' # <<>>
            BY <2>1, RangeEmpty
        <3>3. PhaseInv'
            BY <1>10, <3>2 DEF IndexWrite
        <3> QED
            BY <3>1, <3>3
    <2>3. PlaceInv'
        BY <1>10, <2>1 DEF IndexWrite, PlaceInv, Parsing, Indexing
    <2> QED
        BY <2>2, <2>3
<1>11. ASSUME NEW u \in Unit, ParseFinish(u) PROVE Inv'
    <2>1. TypeOK' /\ PhaseInv'
        BY <1>11 DEF ParseFinish, P!Finish
    <2>2. PlaceInv'
        BY <1>11 DEF ParseFinish, P!Finish, PlaceInv, Parsing, Indexing
    <2> QED
        BY <2>1, <2>2
<1>12. ASSUME NEW u \in Unit, IndexFinish(u) PROVE Inv'
    <2>1. TypeOK' /\ PhaseInv'
        BY <1>12 DEF IndexFinish, I!Finish
    <2>2. PlaceInv'
        BY <1>12 DEF IndexFinish, I!Finish, PlaceInv, Parsing, Indexing
    <2> QED
        BY <2>1, <2>2
<1>13. CASE UNCHANGED vars
    BY <1>13 DEF vars, PlaceInv, Parsing, Indexing
<1> QED
    BY <1>1, <1>2, <1>3, <1>4, <1>5, <1>6, <1>7, <1>8, <1>9, <1>10, <1>11, <1>12, <1>13
       DEF Next, MainStep, ParseStep, IndexStep

THEOREM ScannerInvariant == Spec => []Inv
BY InvInit, InvStep, PTL DEF Spec

(* TypeOK, for every number of units and threads. *)
THEOREM ScannerTypes == Spec => []TypeOK
<1>1. Inv => TypeOK
    BY DEF Inv
<1> QED
    BY <1>1, ScannerInvariant, PTL

(* CompleteAtEnd: a scan that returns has committed every unit of the solution,
   and leaves no task and no result behind. *)
THEOREM ScanIsComplete == Spec => []CompleteAtEnd
<1>1. Inv => CompleteAtEnd
    <2> SUFFICES ASSUME Inv, pc = "finished"
                 PROVE  /\ Range(committed) = Unit
                        /\ P!Done /\ I!Done /\ parseResults = <<>> /\ indexResults = <<>>
        BY DEF CompleteAtEnd
    <2>1. P!Done /\ I!Done /\ parseResults = <<>> /\ indexResults = <<>> /\ submitted = NbUnits
        BY DEF Inv, PhaseInv, LastLoop
    <2>2. Parsing = {} /\ Indexing = {}
        BY <2>1, RangeEmpty DEF Parsing, Indexing, P!Done, I!Done
    <2>3. Range(committed) \subseteq Unit
        BY RangeType DEF Inv, TypeOK
    <2> QED
        BY <2>1, <2>2, <2>3 DEF Inv, PlaceInv, Unit
<1> QED
    BY <1>1, ScannerInvariant, PTL

(* StuckOnlyAtTheLast: a scan that blocks for ever has nothing left to hand over
   to the indexer, or nothing left to commit. *)
THEOREM StuckLosesNothing == Spec => []StuckOnlyAtTheLast
<1>1. Inv => StuckOnlyAtTheLast
    <2> SUFFICES ASSUME Inv PROVE StuckOnlyAtTheLast
        OBVIOUS
    <2>1. ASSUME StuckOnParser PROVE Range(handed) = Unit
        <3>1. submitted = NbUnits /\ Parsing = {}
            BY <2>1, RangeEmpty DEF StuckOnParser, Inv, PhaseInv, Parsing, P!Done
        <3>2. Range(handed) \subseteq Unit
            BY RangeType DEF Inv, TypeOK
        <3> QED
            BY <3>1, <3>2 DEF Inv, PlaceInv, Unit
    <2>2. ASSUME StuckOnIndexer PROVE Range(committed) = Unit
        <3>1. P!Done /\ parseResults = <<>> /\ submitted = NbUnits
            BY <2>2 DEF StuckOnIndexer, Inv, PhaseInv, LastLoop
        <3>2. Parsing = {} /\ Indexing = {}
            BY <2>2, <3>1, RangeEmpty DEF StuckOnIndexer, Parsing, Indexing, P!Done, I!Done
        <3>3. Range(committed) \subseteq Unit
            BY RangeType DEF Inv, TypeOK
        <3> QED
            BY <3>1, <3>2, <3>3 DEF Inv, PlaceInv, Unit
    <2>3. pc = "nextDrained" => indexResults # <<>>
        BY DEF Inv, PhaseInv
    <2> QED
        BY <2>1, <2>2, <2>3 DEF StuckOnlyAtTheLast
<1> QED
    BY <1>1, ScannerInvariant, PTL
-----------------------------------------------------------------------------
(* The result the main thread is writing to the snapshot, and the unit that the only
   thread of the indexer has taken and not written the result of. *)
Carried == IF pc \in {"processDrained", "processIndexed"} THEN <<cur>> ELSE <<>>
TheOneOf(set) == IF set = {} THEN <<>> ELSE <<CHOOSE u \in set : TRUE>>
UnderWay == TheOneOf(indexRunning \ indexed)

Behind == (committed \o Carried) \o indexResults
Ahead  == UnderWay \o indexWaiting

(* The units handed over are, in this order, those committed, that being written, those
   indexed, that being indexed and those waiting. *)
OrderInv ==
    /\ \A u, v \in indexRunning : u = v
    /\ handed = Behind \o Ahead

LEMMA OrderTypes ==
    ASSUME Inv
    PROVE  /\ Carried \in Seq(Unit) /\ UnderWay \in Seq(Unit)
           /\ committed \in Seq(Unit) /\ indexResults \in Seq(Unit) /\ indexWaiting \in Seq(Unit)
           /\ Behind \in Seq(Unit) /\ Ahead \in Seq(Unit) /\ handed \in Seq(Unit)
<1>1. /\ committed \in Seq(Unit) /\ indexResults \in Seq(Unit) /\ indexWaiting \in Seq(Unit)
      /\ handed \in Seq(Unit)
    BY DEF Inv, TypeOK
<1>2. Carried \in Seq(Unit)
    BY DEF Inv, TypeOK, PhaseInv, Holding, Carried
<1>3. UnderWay \in Seq(Unit)
    <2>1. CASE indexRunning \ indexed = {}
        BY <2>1 DEF UnderWay, TheOneOf
    <2>2. CASE indexRunning \ indexed # {}
        <3>1. (CHOOSE u \in indexRunning \ indexed : TRUE) \in Unit
            BY <2>2 DEF Inv, TypeOK
        <3> QED
            BY <2>2, <3>1 DEF UnderWay, TheOneOf
    <2> QED
        BY <2>1, <2>2
<1>4. committed \o Carried \in Seq(Unit)
    BY <1>1, <1>2
<1> QED
    BY <1>1, <1>2, <1>3, <1>4 DEF Behind, Ahead

LEMMA OnlyUnderWay ==
    ASSUME NEW u, indexRunning \ indexed = {u}
    PROVE  UnderWay = <<u>>
BY DEF UnderWay, TheOneOf

LEMMA OrderInit == Init => OrderInv
<1> SUFFICES ASSUME Init PROVE OrderInv
    OBVIOUS
<1>1. UnderWay = <<>> /\ Carried = <<>> /\ indexRunning = {}
    BY DEF Init, I!Init, UnderWay, TheOneOf, Carried
<1> QED
    BY <1>1 DEF Init, I!Init, OrderInv, Behind, Ahead

LEMMA OrderStep == Inv /\ Inv' /\ OrderInv /\ [Next]_vars => OrderInv'
<1> SUFFICES ASSUME Inv, Inv', OrderInv, [Next]_vars PROVE OrderInv'
    OBVIOUS
<1>a. /\ handed = Behind \o Ahead /\ \A u, v \in indexRunning : u = v
      /\ indexed \subseteq indexRunning
    BY DEF OrderInv, Inv, TypeOK
<1>t. /\ Carried \in Seq(Unit) /\ UnderWay \in Seq(Unit) /\ committed \in Seq(Unit)
      /\ indexResults \in Seq(Unit) /\ indexWaiting \in Seq(Unit)
      /\ Behind \in Seq(Unit) /\ Ahead \in Seq(Unit)
    BY OrderTypes
<1>b. ASSUME UNCHANGED <<indexRunning, indexed, indexWaiting, indexResults, committed, handed>>,
             Carried' = Carried
      PROVE  OrderInv'
    BY <1>a, <1>b DEF OrderInv, Behind, Ahead, UnderWay
<1> USE DEF mainVars, parserVars, indexerVars, storeVars
<1>1. CASE Handle
    <2>1. /\ cur \in Unit /\ Carried = <<>> /\ Carried' = <<>> /\ UnderWay' = UnderWay
          /\ handed' = Append(handed, cur) /\ indexWaiting' = Append(indexWaiting, cur)
          /\ UNCHANGED <<indexRunning, indexed, indexResults, committed>>
        BY <1>1 DEF Handle, I!Submit, Carried, UnderWay, Inv, TypeOK, PhaseInv, Holding
    <2>2. Behind' = Behind
        BY <2>1 DEF Behind
    <2>3. Ahead' = Append(Ahead, cur)
        BY <2>1, OrderTypes, AppendBehind DEF Ahead
    <2>4. handed' = Behind \o Append(Ahead, cur)
        <3>1. Behind \o Append(Ahead, cur) = Append(Behind \o Ahead, cur)
            BY <1>t, <2>1, AppendBehind, SMTT(30)
        <3> QED
            BY <1>a, <2>1, <3>1
    <2> QED
        BY <1>a, <2>1, <2>2, <2>3, <2>4 DEF OrderInv
<1>2. CASE NextIndexed
    <2>1. /\ indexResults # <<>> /\ indexResults' = Tail(indexResults)
          /\ Carried = <<>> /\ Carried' = <<Head(indexResults)>> /\ UnderWay' = UnderWay
          /\ UNCHANGED <<indexRunning, indexed, indexWaiting, committed, handed>>
        BY <1>2 DEF NextIndexed, Carried, UnderWay
    <2>2. Behind' = (committed \o <<Head(indexResults)>>) \o Tail(indexResults)
        BY <2>1 DEF Behind
    <2>3. /\ <<Head(indexResults)>> \in Seq(Unit) /\ Tail(indexResults) \in Seq(Unit)
          /\ <<Head(indexResults)>> \o Tail(indexResults) = indexResults
        BY <2>1, OrderTypes, HeadAndTail
    <2>4. Behind' = committed \o indexResults
        <3>1. (committed \o <<Head(indexResults)>>) \o Tail(indexResults)
                  = committed \o (<<Head(indexResults)>> \o Tail(indexResults))
            <4>1. Head(indexResults) \in Unit
                BY <1>t, <2>1
            <4>2. committed \in Seq(Unit) /\ Tail(indexResults) \in Seq(Unit)
                BY <1>t, <2>3
            <4> DEFINE h == Head(indexResults)
                       t == Tail(indexResults)
            <4> HIDE DEF h, t
            <4>3. (committed \o <<h>>) \o t = committed \o (<<h>> \o t)
                BY <4>1, <4>2, ElementBetween DEF h, t
            <4> QED
                BY <4>3 DEF h, t
        <3> QED
            BY <2>2, <2>3, <3>1
    <2>5. Behind = committed \o indexResults
        BY <2>1, OrderTypes, ConcatEmptySeq DEF Behind
    <2> QED
        BY <1>a, <2>1, <2>4, <2>5 DEF OrderInv, Ahead
<1>3. CASE Process
    <2>1. /\ cur \in Unit /\ committed' = Append(committed, cur)
          /\ Carried = <<cur>> /\ Carried' = <<>> /\ UnderWay' = UnderWay
          /\ UNCHANGED <<indexRunning, indexed, indexWaiting, indexResults, handed>>
        BY <1>3 DEF Process, Carried, UnderWay, Inv, TypeOK, PhaseInv, Holding
    <2>2. committed' = committed \o Carried
        BY <2>1, OrderTypes, AppendIsConcat
    <2>3. committed' \o Carried' = committed \o Carried
        BY <2>1, <2>2, OrderTypes, ConcatProperties, ConcatEmptySeq
    <2> QED
        BY <1>a, <2>1, <2>3 DEF OrderInv, Behind, Ahead
<1>4. CASE IndexStart
    <2>0. I!Start /\ UNCHANGED <<pc, cur, indexed, indexResults, committed, handed>>
        BY <1>4 DEF IndexStart
    <2>1. /\ indexWaiting # <<>> /\ indexWaiting' = Tail(indexWaiting)
          /\ indexRunning' = indexRunning \cup {Head(indexWaiting)}
          /\ Cardinality(indexRunning) < 1 /\ Carried' = Carried
          /\ UNCHANGED <<indexed, indexResults, committed, handed>>
        <3>1. Carried' = Carried
            BY <2>0 DEF Carried
        <3>2. /\ indexWaiting # <<>> /\ indexWaiting' = Tail(indexWaiting)
              /\ indexRunning' = indexRunning \cup {Head(indexWaiting)}
            BY <2>0 DEF I!Start
        <3>3. Cardinality(indexRunning) < IndexThreads
            BY <2>0 DEF I!Start, I!Cardinality, Cardinality
        <3> QED
            BY <2>0, <3>1, <3>2, <3>3 DEF IndexThreads
    <2>2. indexRunning = {}
        <3>1. indexRunning \subseteq 1..NbUnits
            BY DEF Inv, TypeOK, Unit
        <3>2. IsFiniteSet(1..NbUnits)
            BY ScannerAssumption, FS_Interval DEF ScannerAssumption
        <3>3. IsFiniteSet(indexRunning) /\ Cardinality(indexRunning) \in Nat
            BY <3>1, <3>2, FS_Subset, FS_CardinalityType
        <3>4. Cardinality(indexRunning) = 0
            BY <2>1, <3>3
        <3> QED
            BY <3>3, <3>4, FS_EmptySet
    <2>3. /\ indexed = {} /\ UnderWay = <<>>
          /\ indexRunning' = {Head(indexWaiting)} /\ (indexRunning \ indexed)' = {Head(indexWaiting)}
        BY <1>a, <2>1, <2>2 DEF UnderWay, TheOneOf
    <2>4. UnderWay' = <<Head(indexWaiting)>>
        BY <2>3 DEF UnderWay, TheOneOf
    <2>5. Ahead' = indexWaiting
        BY <2>1, <2>4, OrderTypes, HeadAndTail DEF Ahead
    <2>6. Ahead = indexWaiting
        BY <2>3, OrderTypes, ConcatEmptySeq DEF Ahead
    <2> QED
        BY <1>a, <2>1, <2>3, <2>5, <2>6 DEF OrderInv, Behind
<1>5. ASSUME NEW u \in Unit, IndexWrite(u) PROVE OrderInv'
    <2>1. /\ u \in indexRunning /\ u \notin indexed /\ indexed' = indexed \cup {u}
          /\ indexResults' = Append(indexResults, u) /\ Carried' = Carried
          /\ UNCHANGED <<indexRunning, indexWaiting, committed, handed>>
        BY <1>5 DEF IndexWrite, Carried
    <2>2. indexRunning \ indexed = {u} /\ (indexRunning \ indexed)' = {}
        BY <1>a, <2>1
    <2>3. UnderWay = <<u>> /\ UnderWay' = <<>>
        BY <2>2, OnlyUnderWay DEF UnderWay, TheOneOf
    <2>4. Behind' = Append(Behind, u)
        <3>1. committed \o Carried \in Seq(Unit)
            BY OrderTypes, ConcatProperties
        <3> QED
            BY <2>1, <3>1, OrderTypes, AppendBehind, SMTT(30) DEF Behind
    <2>5. Append(Behind, u) = Behind \o <<u>>
        BY OrderTypes, AppendIsConcat
    <2>6. Ahead' = indexWaiting
        BY <2>1, <2>3, OrderTypes, ConcatEmptySeq DEF Ahead
    <2>7. Behind \o (<<u>> \o indexWaiting) = (Behind \o <<u>>) \o indexWaiting
        BY <1>t, ElementBetween, SMTT(30)
    <2>8. Ahead = <<u>> \o indexWaiting
        BY <2>3 DEF Ahead
    <2> QED
        BY <1>a, <2>1, <2>4, <2>5, <2>6, <2>7, <2>8 DEF OrderInv
<1>6. ASSUME NEW u \in Unit, IndexFinish(u) PROVE OrderInv'
    <2>1. /\ u \in indexed /\ indexRunning' = indexRunning \ {u} /\ indexed' = indexed \ {u}
          /\ Carried' = Carried
          /\ UNCHANGED <<indexWaiting, indexResults, committed, handed>>
        BY <1>6 DEF IndexFinish, I!Finish, Carried
    <2>2. (indexRunning \ indexed)' = indexRunning \ indexed
        BY <2>1
    <2>3. UnderWay' = UnderWay
        BY <2>1, <2>2 DEF UnderWay
    <2> QED
        BY <1>a, <2>1, <2>3 DEF OrderInv, Behind, Ahead
<1>7. CASE AsyncParse \/ StartLoop \/ ParserDone \/ ParsedEmpty \/ NextParsed
           \/ DrainEmpty \/ IndexerDone \/ IndexedEmpty
    BY <1>7, <1>b DEF AsyncParse, StartLoop, ParserDone, ParsedEmpty, NextParsed, DrainEmpty,
                      IndexerDone, IndexedEmpty, Carried
<1>8. CASE ParseStart \/ \E u \in Unit : ParseWrite(u) \/ ParseFinish(u)
    BY <1>8, <1>b DEF ParseStart, ParseWrite, ParseFinish, P!Start, P!Finish, Carried
<1>9. CASE UNCHANGED vars
    BY <1>9, <1>b DEF vars, Carried
<1> QED
    BY <1>1, <1>2, <1>3, <1>4, <1>5, <1>6, <1>7, <1>8, <1>9
       DEF Next, MainStep, ParseStep, IndexStep

(* CommitInOrder: with one indexing thread the units are committed in the order they were
   handed over, however many parse. *)
THEOREM CommitsAreInOrder == Spec => []CommitInOrder
<1>1. Inv /\ OrderInv => CommitInOrder
    <2> SUFFICES ASSUME Inv, OrderInv PROVE CommitInOrder
        OBVIOUS
    <2>t. /\ committed \in Seq(Unit) /\ Carried \in Seq(Unit) /\ indexResults \in Seq(Unit)
          /\ Ahead \in Seq(Unit)
        BY OrderTypes
    <2> DEFINE tail == Carried \o indexResults
               rest == tail \o Ahead
    <2>1. rest \in Seq(Unit) /\ tail \in Seq(Unit)
        BY <2>t
    <2>2. handed = (committed \o tail) \o Ahead
        <3>1. (committed \o Carried) \o indexResults = committed \o (Carried \o indexResults)
            BY <2>t, ConcatAssociative
        <3> QED
            BY <3>1 DEF OrderInv, Behind
    <2>3. handed = committed \o rest
        <3>1. committed \in Seq(Unit) /\ tail \in Seq(Unit) /\ Ahead \in Seq(Unit)
            BY <2>1, <2>t
        <3> HIDE DEF tail
        <3>2. (committed \o tail) \o Ahead = committed \o (tail \o Ahead)
            BY <3>1, ConcatAssociative
        <3> QED
            BY <2>2, <3>2
    <2> HIDE DEF rest
    <2>4. /\ Len(handed) = Len(committed) + Len(rest)
          /\ Len(committed) \in Nat /\ Len(rest) \in Nat
          /\ \A i \in 1..Len(committed) : handed[i] = committed[i]
        BY <2>1, <2>3, OrderTypes
    <2>5. SubSeq(handed, 1, Len(committed)) = SubSeq(committed, 1, Len(committed))
        BY <2>4, OrderTypes
    <2> QED
        BY <2>4, <2>5 DEF CommitInOrder, IsPrefix
<1> QED
    BY <1>1, ScannerInvariant, OrderInit, OrderStep, PTL DEF Spec
-----------------------------------------------------------------------------
(* Copies, counted queue by queue. *)
Often(u, q) == Cardinality(PlacesOf(u, q))

Inside(u, S) == IF u \in S THEN 1 ELSE 0

Total(u) ==
    Often(u, parseWaiting) + Often(u, parseResults) + Often(u, indexWaiting)
    + Often(u, indexResults) + Often(u, committed)
    + Inside(u, parseRunning \ parsed) + Inside(u, indexRunning \ indexed)
    + Inside(u, {cur})

LEMMA OftenType ==
    ASSUME Inv, NEW u
    PROVE  /\ Often(u, parseWaiting) \in Nat /\ Often(u, parseResults) \in Nat
           /\ Often(u, indexWaiting) \in Nat /\ Often(u, indexResults) \in Nat
           /\ Often(u, committed) \in Nat
<1>1. /\ parseWaiting \in Seq(Unit) /\ parseResults \in Seq(Unit) /\ indexWaiting \in Seq(Unit)
      /\ indexResults \in Seq(Unit) /\ committed \in Seq(Unit)
    BY DEF Inv, TypeOK
<1> QED
    BY <1>1, PlacesFinite DEF Often

LEMMA IfPresent ==
    ASSUME NEW u, NEW S
    PROVE  Cardinality({u} \cap S) = Inside(u, S)
<1>1. CASE u \in S
    <2>1. {u} \cap S = {u}
        BY <1>1
    <2> QED
        BY <1>1, <2>1, FS_Singleton DEF Inside
<1>2. CASE u \notin S
    <2>1. {u} \cap S = {}
        BY <1>2
    <2> QED
        BY <1>2, <2>1, FS_EmptySet DEF Inside
<1> QED
    BY <1>1, <1>2

LEMMA CopiesAreTotal == ASSUME Inv, NEW u \in Unit PROVE Copies(u) = Total(u)
<1> DEFINE q1 == parseWaiting \o parseResults
           q2 == q1 \o indexWaiting
           q3 == q2 \o indexResults
           q4 == q3 \o committed
<1>1. /\ parseWaiting \in Seq(Unit) /\ parseResults \in Seq(Unit) /\ indexWaiting \in Seq(Unit)
      /\ indexResults \in Seq(Unit) /\ committed \in Seq(Unit)
    BY DEF Inv, TypeOK
<1>2. q1 \in Seq(Unit) /\ q2 \in Seq(Unit) /\ q3 \in Seq(Unit)
    BY <1>1
<1>3. Often(u, q1) = Often(u, parseWaiting) + Often(u, parseResults)
    BY <1>1, PlacesConcatenated DEF Often
<1>4. Often(u, q2) = Often(u, q1) + Often(u, indexWaiting)
    <2> HIDE DEF q1
    <2> QED
        BY <1>1, <1>2, PlacesConcatenated DEF Often
<1>5. Often(u, q3) = Often(u, q2) + Often(u, indexResults)
    <2> HIDE DEF q2
    <2> QED
        BY <1>1, <1>2, PlacesConcatenated DEF Often
<1>6. Often(u, q4) = Often(u, q3) + Often(u, committed)
    <2> HIDE DEF q3
    <2> QED
        BY <1>1, <1>2, PlacesConcatenated DEF Often
<1>7. Copies(u) = Often(u, q4) + Cardinality({u} \cap (parseRunning \ parsed))
                  + Cardinality({u} \cap (indexRunning \ indexed)) + Cardinality({u} \cap {cur})
    BY DEF Copies, Often, PlacesOf
<1>8. /\ Cardinality({u} \cap (parseRunning \ parsed)) = Inside(u, parseRunning \ parsed)
      /\ Cardinality({u} \cap (indexRunning \ indexed)) = Inside(u, indexRunning \ indexed)
      /\ Cardinality({u} \cap {cur}) = Inside(u, {cur})
    BY IfPresent
<1> HIDE DEF q1, q2, q3, q4
<1>9. Often(u, q4) = Often(u, parseWaiting) + Often(u, parseResults) + Often(u, indexWaiting)
                     + Often(u, indexResults) + Often(u, committed)
    BY <1>3, <1>4, <1>5, <1>6
<1> QED
    BY <1>7, <1>8, <1>9 DEF Total

LEMMA OftenAppended ==
    ASSUME NEW q \in Seq(Unit), NEW x \in Unit, NEW u
    PROVE  Often(u, Append(q, x)) = Often(u, q) + Inside(u, {x})
BY PlacesAppended DEF Often, Inside

LEMMA OftenTaken ==
    ASSUME NEW q \in Seq(Unit), q # <<>>, NEW u
    PROVE  Often(u, Tail(q)) = Often(u, q) - Inside(u, {Head(q)})
BY PlacesTaken DEF Often, Inside

LEMMA OnceInit == Init => EachUnitOnce
<1> SUFFICES ASSUME Init, NEW u \in Unit PROVE Copies(u) = IF u <= submitted THEN 1 ELSE 0
    BY DEF EachUnitOnce
<1>1. Copies(u) = Total(u)
    BY InvInit, CopiesAreTotal
<1>2. Often(u, <<>>) = 0
    BY NoPlaces DEF Often
<1>3. u # 0 /\ ~(u <= 0)
    BY ScannerAssumption DEF ScannerAssumption, Unit
<1> QED
    BY <1>1, <1>2, <1>3 DEF Init, P!Init, I!Init, Total, Inside, None

LEMMA TotalStep ==
    ASSUME Inv, [Next]_vars, NEW u \in Unit
    PROVE  \/ submitted' = submitted /\ Total(u)' = Total(u)
           \/ submitted' = submitted + 1 /\ Total(u)' = Total(u) + Inside(u, {submitted + 1})
<1>a. /\ parseWaiting \in Seq(Unit) /\ parseResults \in Seq(Unit) /\ indexWaiting \in Seq(Unit)
      /\ indexResults \in Seq(Unit) /\ committed \in Seq(Unit)
      /\ submitted \in Nat /\ cur \in Unit \cup {None}
    BY DEF Inv, TypeOK
<1>b. /\ Often(u, parseWaiting) \in Nat /\ Often(u, parseResults) \in Nat
      /\ Often(u, indexWaiting) \in Nat /\ Often(u, indexResults) \in Nat
      /\ Often(u, committed) \in Nat
    BY OftenType
<1>c. cur = None \/ pc \in Holding
    BY DEF Inv, PhaseInv
<1>d. /\ \A S : Inside(u, S) \in Nat
      /\ \A S, x : x \notin S => Inside(u, S \cup {x}) = Inside(u, S) + Inside(u, {x})
      /\ \A S, x : x \in S => Inside(u, S \ {x}) = Inside(u, S) - Inside(u, {x})
      /\ Inside(u, {None}) = 0
    BY ScannerAssumption DEF ScannerAssumption, Inside, Unit, None
<1> DEFINE P1 == parseRunning \ parsed
           I1 == indexRunning \ indexed
<1>e. Total(u)' = Often(u, parseWaiting') + Often(u, parseResults') + Often(u, indexWaiting')
                  + Often(u, indexResults') + Often(u, committed')
                  + Inside(u, P1') + Inside(u, I1') + Inside(u, {cur'})
    BY DEF Total, Often, PlacesOf, Inside
<1>f. Total(u) = Often(u, parseWaiting) + Often(u, parseResults) + Often(u, indexWaiting)
                 + Often(u, indexResults) + Often(u, committed)
                 + Inside(u, P1) + Inside(u, I1) + Inside(u, {cur})
    BY DEF Total
<1>g. /\ Inside(u, P1) \in Nat /\ Inside(u, I1) \in Nat /\ Inside(u, {cur}) \in Nat
      /\ Inside(u, {None}) = 0
    BY <1>d
<1> USE DEF mainVars, parserVars, indexerVars, storeVars
<1>1. CASE AsyncParse
    <2>1. /\ submitted + 1 \in Unit /\ submitted' = submitted + 1
          /\ parseWaiting' = Append(parseWaiting, submitted + 1)
          /\ cur' = cur /\ parseResults' = parseResults /\ indexWaiting' = indexWaiting
          /\ indexResults' = indexResults /\ committed' = committed
          /\ P1' = P1
          /\ I1' = I1
        BY <1>1, ScannerAssumption DEF ScannerAssumption, AsyncParse, P!Submit, Inv, TypeOK, Unit
    <2>2. Often(u, parseWaiting') = Often(u, parseWaiting) + Inside(u, {submitted + 1})
        BY <1>a, <2>1, OftenAppended
    <2>3. Inside(u, {submitted + 1}) \in Nat
        BY <1>d
    <2> HIDE DEF P1, I1
    <2>4. /\ Often(u, parseResults') = Often(u, parseResults)
          /\ Often(u, indexWaiting') = Often(u, indexWaiting)
          /\ Often(u, indexResults') = Often(u, indexResults)
          /\ Often(u, committed') = Often(u, committed)
          /\ Inside(u, P1') = Inside(u, P1) /\ Inside(u, I1') = Inside(u, I1)
          /\ Inside(u, {cur'}) = Inside(u, {cur})
        BY <2>1
    <2>5. Total(u)' = Total(u) + Inside(u, {submitted + 1})
        BY <1>b, <1>e, <1>f, <1>g, <2>2, <2>3, <2>4
    <2> QED
        BY <2>1, <2>5
<1>2. CASE NextParsed
    <2>1. /\ parseResults # <<>> /\ parseResults' = Tail(parseResults) /\ cur' = Head(parseResults)
          /\ cur = None
          /\ submitted' = submitted /\ parseWaiting' = parseWaiting
          /\ indexWaiting' = indexWaiting /\ indexResults' = indexResults
          /\ committed' = committed
          /\ P1' = P1
          /\ I1' = I1
        BY <1>2, <1>c DEF NextParsed, Holding
    <2>2. Often(u, parseResults') = Often(u, parseResults) - Inside(u, {cur'})
        BY <1>a, <2>1, OftenTaken
    <2>3. Inside(u, {cur'}) \in Nat
        BY <1>d
    <2> HIDE DEF P1, I1
    <2>4. /\ Often(u, parseWaiting') = Often(u, parseWaiting)
          /\ Often(u, indexWaiting') = Often(u, indexWaiting)
          /\ Often(u, indexResults') = Often(u, indexResults)
          /\ Often(u, committed') = Often(u, committed)
          /\ Inside(u, P1') = Inside(u, P1) /\ Inside(u, I1') = Inside(u, I1)
          /\ Inside(u, {cur}) = 0
        BY <1>g, <2>1
    <2>5. Total(u)' = Total(u)
        BY <1>b, <1>e, <1>f, <1>g, <2>2, <2>3, <2>4
    <2> QED
        BY <2>1, <2>5
<1>3. CASE Handle
    <2>1. /\ cur \in Unit /\ indexWaiting' = Append(indexWaiting, cur) /\ cur' = None
          /\ submitted' = submitted /\ parseWaiting' = parseWaiting
          /\ parseResults' = parseResults /\ indexResults' = indexResults
          /\ committed' = committed
          /\ P1' = P1
          /\ I1' = I1
        BY <1>3 DEF Handle, I!Submit, Inv, TypeOK, PhaseInv, Holding
    <2>2. Often(u, indexWaiting') = Often(u, indexWaiting) + Inside(u, {cur})
        BY <1>a, <2>1, OftenAppended
    <2>3. Inside(u, {cur}) \in Nat
        BY <1>d
    <2> HIDE DEF P1, I1
    <2>4. /\ Often(u, parseWaiting') = Often(u, parseWaiting)
          /\ Often(u, parseResults') = Often(u, parseResults)
          /\ Often(u, indexResults') = Often(u, indexResults)
          /\ Often(u, committed') = Often(u, committed)
          /\ Inside(u, P1') = Inside(u, P1) /\ Inside(u, I1') = Inside(u, I1) /\ Inside(u, {cur'}) = 0
        BY <1>g, <2>1
    <2>5. Total(u)' = Total(u)
        BY <1>b, <1>e, <1>f, <1>g, <2>2, <2>3, <2>4
    <2> QED
        BY <2>1, <2>5
<1>4. CASE NextIndexed
    <2>1. /\ indexResults # <<>> /\ indexResults' = Tail(indexResults) /\ cur' = Head(indexResults)
          /\ cur = None
          /\ submitted' = submitted /\ parseWaiting' = parseWaiting
          /\ parseResults' = parseResults /\ indexWaiting' = indexWaiting
          /\ committed' = committed
          /\ P1' = P1
          /\ I1' = I1
        BY <1>4, <1>c DEF NextIndexed, Holding
    <2>2. Often(u, indexResults') = Often(u, indexResults) - Inside(u, {cur'})
        BY <1>a, <2>1, OftenTaken
    <2>3. Inside(u, {cur'}) \in Nat
        BY <1>d
    <2> HIDE DEF P1, I1
    <2>4. /\ Often(u, parseWaiting') = Often(u, parseWaiting)
          /\ Often(u, parseResults') = Often(u, parseResults)
          /\ Often(u, indexWaiting') = Often(u, indexWaiting)
          /\ Often(u, committed') = Often(u, committed)
          /\ Inside(u, P1') = Inside(u, P1) /\ Inside(u, I1') = Inside(u, I1) /\ Inside(u, {cur}) = 0
        BY <1>g, <2>1
    <2>5. Total(u)' = Total(u)
        BY <1>b, <1>e, <1>f, <1>g, <2>2, <2>3, <2>4
    <2> QED
        BY <2>1, <2>5
<1>5. CASE Process
    <2>1. /\ cur \in Unit /\ committed' = Append(committed, cur) /\ cur' = None
          /\ submitted' = submitted /\ parseWaiting' = parseWaiting
          /\ parseResults' = parseResults /\ indexWaiting' = indexWaiting
          /\ indexResults' = indexResults
          /\ P1' = P1
          /\ I1' = I1
        BY <1>5 DEF Process, Inv, TypeOK, PhaseInv, Holding
    <2>2. Often(u, committed') = Often(u, committed) + Inside(u, {cur})
        BY <1>a, <2>1, OftenAppended
    <2>3. Inside(u, {cur}) \in Nat
        BY <1>d
    <2> HIDE DEF P1, I1
    <2>4. /\ Often(u, parseWaiting') = Often(u, parseWaiting)
          /\ Often(u, parseResults') = Often(u, parseResults)
          /\ Often(u, indexWaiting') = Often(u, indexWaiting)
          /\ Often(u, indexResults') = Often(u, indexResults)
          /\ Inside(u, P1') = Inside(u, P1) /\ Inside(u, I1') = Inside(u, I1) /\ Inside(u, {cur'}) = 0
        BY <1>g, <2>1
    <2>5. Total(u)' = Total(u)
        BY <1>b, <1>e, <1>f, <1>g, <2>2, <2>3, <2>4
    <2> QED
        BY <2>1, <2>5
<1>6. CASE ParseStart
    <2>1. /\ parseWaiting # <<>> /\ parseWaiting' = Tail(parseWaiting)
          /\ parseRunning' = parseRunning \cup {Head(parseWaiting)} /\ parsed' = parsed
          /\ submitted' = submitted /\ cur' = cur /\ parseResults' = parseResults
          /\ indexWaiting' = indexWaiting /\ indexResults' = indexResults
          /\ committed' = committed
          /\ I1' = I1
        BY <1>6 DEF ParseStart, P!Start
    <2>2. Head(parseWaiting) \notin parseRunning /\ Head(parseWaiting) \notin parsed
        <3>1. Head(parseWaiting) \in Range(parseWaiting)
            BY <1>a, <2>1, RangeTail
        <3> QED
            BY <3>1 DEF Inv, PoolInv, TypeOK
    <2>3. P1' = P1 \cup {Head(parseWaiting)} /\ Head(parseWaiting) \notin P1
        BY <2>1, <2>2
    <2>4. Often(u, parseWaiting') = Often(u, parseWaiting) - Inside(u, {Head(parseWaiting)})
        BY <1>a, <2>1, OftenTaken
    <2>5. /\ Inside(u, {Head(parseWaiting)}) \in Nat
          /\ Inside(u, P1') = Inside(u, P1) + Inside(u, {Head(parseWaiting)})
        BY <1>d, <2>3
    <2> HIDE DEF P1, I1
    <2>6. /\ Often(u, parseResults') = Often(u, parseResults)
          /\ Often(u, indexWaiting') = Often(u, indexWaiting)
          /\ Often(u, indexResults') = Often(u, indexResults)
          /\ Often(u, committed') = Often(u, committed)
          /\ Inside(u, I1') = Inside(u, I1) /\ Inside(u, {cur'}) = Inside(u, {cur})
        BY <2>1
    <2>7. Total(u)' = Total(u)
        BY <1>b, <1>e, <1>f, <1>g, <2>4, <2>5, <2>6
    <2> QED
        BY <2>1, <2>7
<1>7. CASE IndexStart
    <2>1. /\ indexWaiting # <<>> /\ indexWaiting' = Tail(indexWaiting)
          /\ indexRunning' = indexRunning \cup {Head(indexWaiting)} /\ indexed' = indexed
          /\ submitted' = submitted /\ cur' = cur /\ parseWaiting' = parseWaiting
          /\ parseResults' = parseResults /\ indexResults' = indexResults
          /\ committed' = committed
          /\ P1' = P1
        BY <1>7 DEF IndexStart, I!Start
    <2>2. Head(indexWaiting) \notin indexRunning /\ Head(indexWaiting) \notin indexed
        <3>1. Head(indexWaiting) \in Range(indexWaiting)
            BY <1>a, <2>1, RangeTail
        <3> QED
            BY <3>1 DEF Inv, PoolInv, TypeOK
    <2>3. I1' = I1 \cup {Head(indexWaiting)} /\ Head(indexWaiting) \notin I1
        BY <2>1, <2>2
    <2>4. Often(u, indexWaiting') = Often(u, indexWaiting) - Inside(u, {Head(indexWaiting)})
        BY <1>a, <2>1, OftenTaken
    <2>5. /\ Inside(u, {Head(indexWaiting)}) \in Nat
          /\ Inside(u, I1') = Inside(u, I1) + Inside(u, {Head(indexWaiting)})
        BY <1>d, <2>3
    <2> HIDE DEF P1, I1
    <2>6. /\ Often(u, parseWaiting') = Often(u, parseWaiting)
          /\ Often(u, parseResults') = Often(u, parseResults)
          /\ Often(u, indexResults') = Often(u, indexResults)
          /\ Often(u, committed') = Often(u, committed)
          /\ Inside(u, P1') = Inside(u, P1) /\ Inside(u, {cur'}) = Inside(u, {cur})
        BY <2>1
    <2>7. Total(u)' = Total(u)
        BY <1>b, <1>e, <1>f, <1>g, <2>4, <2>5, <2>6
    <2> QED
        BY <2>1, <2>7
<1>8. ASSUME NEW v \in Unit, ParseWrite(v)
      PROVE  submitted' = submitted /\ Total(u)' = Total(u)
    <2>1. /\ v \in P1 /\ P1' = P1 \ {v}
          /\ parseResults' = Append(parseResults, v)
          /\ submitted' = submitted /\ cur' = cur /\ parseWaiting' = parseWaiting
          /\ indexWaiting' = indexWaiting /\ indexResults' = indexResults
          /\ committed' = committed
          /\ I1' = I1
        BY <1>8 DEF ParseWrite
    <2>2. Often(u, parseResults') = Often(u, parseResults) + Inside(u, {v})
        BY <1>a, <2>1, OftenAppended
    <2>3. /\ Inside(u, {v}) \in Nat
          /\ Inside(u, P1') = Inside(u, P1) - Inside(u, {v})
        BY <1>d, <2>1
    <2> HIDE DEF P1, I1
    <2>4. /\ Often(u, parseWaiting') = Often(u, parseWaiting)
          /\ Often(u, indexWaiting') = Often(u, indexWaiting)
          /\ Often(u, indexResults') = Often(u, indexResults)
          /\ Often(u, committed') = Often(u, committed)
          /\ Inside(u, I1') = Inside(u, I1) /\ Inside(u, {cur'}) = Inside(u, {cur})
        BY <2>1
    <2>5. Total(u)' = Total(u)
        BY <1>b, <1>e, <1>f, <1>g, <2>2, <2>3, <2>4
    <2> QED
        BY <2>1, <2>5
<1>9. ASSUME NEW v \in Unit, IndexWrite(v)
      PROVE  submitted' = submitted /\ Total(u)' = Total(u)
    <2>1. /\ v \in I1 /\ I1' = I1 \ {v}
          /\ indexResults' = Append(indexResults, v)
          /\ submitted' = submitted /\ cur' = cur /\ parseWaiting' = parseWaiting
          /\ parseResults' = parseResults /\ indexWaiting' = indexWaiting
          /\ committed' = committed
          /\ P1' = P1
        BY <1>9 DEF IndexWrite
    <2>2. Often(u, indexResults') = Often(u, indexResults) + Inside(u, {v})
        BY <1>a, <2>1, OftenAppended
    <2>3. /\ Inside(u, {v}) \in Nat
          /\ Inside(u, I1') = Inside(u, I1) - Inside(u, {v})
        BY <1>d, <2>1
    <2> HIDE DEF P1, I1
    <2>4. /\ Often(u, parseWaiting') = Often(u, parseWaiting)
          /\ Often(u, parseResults') = Often(u, parseResults)
          /\ Often(u, indexWaiting') = Often(u, indexWaiting)
          /\ Often(u, committed') = Often(u, committed)
          /\ Inside(u, P1') = Inside(u, P1) /\ Inside(u, {cur'}) = Inside(u, {cur})
        BY <2>1
    <2>5. Total(u)' = Total(u)
        BY <1>b, <1>e, <1>f, <1>g, <2>2, <2>3, <2>4
    <2> QED
        BY <2>1, <2>5
<1>10. ASSUME NEW v \in Unit, ParseFinish(v) \/ IndexFinish(v)
       PROVE  submitted' = submitted /\ Total(u)' = Total(u)
    <2>1. /\ P1' = P1 /\ I1' = I1
          /\ submitted' = submitted /\ cur' = cur /\ parseWaiting' = parseWaiting
          /\ parseResults' = parseResults /\ indexWaiting' = indexWaiting
          /\ indexResults' = indexResults /\ committed' = committed
        BY <1>10 DEF ParseFinish, IndexFinish, P!Finish, I!Finish
    <2> HIDE DEF P1, I1
    <2> QED
        BY <1>a, <1>b, <1>e, <1>f, <2>1
<1>11. CASE \/ StartLoop \/ ParserDone \/ ParsedEmpty \/ DrainEmpty \/ IndexerDone \/ IndexedEmpty
            \/ UNCHANGED vars
    <2>1. /\ P1' = P1 /\ I1' = I1
          /\ submitted' = submitted /\ cur' = cur /\ parseWaiting' = parseWaiting
          /\ parseResults' = parseResults /\ indexWaiting' = indexWaiting
          /\ indexResults' = indexResults /\ committed' = committed
        BY <1>11 DEF StartLoop, ParserDone, ParsedEmpty, DrainEmpty, IndexerDone, IndexedEmpty, vars
    <2> HIDE DEF P1, I1
    <2> QED
        BY <1>a, <1>b, <1>e, <1>f, <2>1
<1> QED
    BY <1>1, <1>2, <1>3, <1>4, <1>5, <1>6, <1>7, <1>8, <1>9, <1>10, <1>11
       DEF Next, MainStep, ParseStep, IndexStep

LEMMA CopiesTotalled == Inv => \A u \in Unit : Copies(u) = Total(u)
BY CopiesAreTotal

LEMMA OnceStep == Inv /\ Inv' /\ EachUnitOnce /\ [Next]_vars => EachUnitOnce'
<1> SUFFICES ASSUME Inv, Inv', EachUnitOnce, [Next]_vars PROVE EachUnitOnce'
    OBVIOUS
<1>1. \A u \in Unit : Copies(u) = Total(u)
    BY CopiesTotalled
<1>2. (\A u \in Unit : Copies(u) = Total(u))'
    BY CopiesTotalled, PTL
<1>3. ASSUME NEW u \in Unit PROVE Copies(u)' = IF u <= submitted' THEN 1 ELSE 0
    <2>1. \/ submitted' = submitted /\ Total(u)' = Total(u)
          \/ submitted' = submitted + 1 /\ Total(u)' = Total(u) + Inside(u, {submitted + 1})
        BY TotalStep
    <2>2. submitted \in Nat /\ u \in Nat
        BY ScannerAssumption DEF ScannerAssumption, Inv, TypeOK, Unit
    <2>3. Total(u) = IF u <= submitted THEN 1 ELSE 0
        BY <1>1 DEF EachUnitOnce
    <2>4. Copies(u)' = Total(u)'
        BY <1>2
    <2> QED
        BY <2>1, <2>2, <2>3, <2>4 DEF Inside
<1> QED
    BY <1>3 DEF EachUnitOnce

(* EachUnitOnce: whatever the threads do, a submitted unit is in one place, once. *)
THEOREM UnitsAreNeitherLostNorDoubled == Spec => []EachUnitOnce
BY ScannerInvariant, OnceInit, OnceStep, PTL DEF Spec
-----------------------------------------------------------------------------
(* The mutex is held exactly between the two halves of next(), by the consumer
   that has moved the front element out, which is still in the container. *)
HoldInv ==
    /\ \A c \in Consumer : cpc[c] = "pop" <=> holder = c
    /\ \A c \in Consumer : cpc[c] = "pop" => container # <<>> /\ front[c] = Head(container)

QueueInv == QueueTypes /\ HoldInv

LEMMA QueueInvInit == QueueInit => QueueInv
BY QueueAssumption DEF QueueAssumption, QueueInit, QueueInv, QueueTypes, HoldInv, ProducerPc, ConsumerPc

LEMMA QueueInvStep == QueueInv /\ [QueueNext]_queueVars => QueueInv'
<1> SUFFICES ASSUME QueueInv, [QueueNext]_queueVars PROVE QueueInv'
    OBVIOUS
<1> USE QueueAssumption DEF QueueAssumption, QueueInv, QueueTypes, HoldInv, ProducerPc, ConsumerPc,
        Unlocked, historyVars, threadVars
<1>1. ASSUME NEW p \in Producer, Push(p) PROVE QueueInv'
    BY <1>1 DEF Push
<1>2. ASSUME NEW p \in Producer, Notify(p) PROVE QueueInv'
    <2>1. CASE waiters = {}
        BY <1>2, <2>1 DEF Notify
    <2>2. ASSUME waiters # {}, NEW w \in waiters, Wake(w) PROVE QueueInv'
        BY <1>2, <2>2 DEF Notify, Wake
    <2> QED
        BY <1>2, <2>1, <2>2 DEF Notify
<1>3. ASSUME NEW c \in Consumer, CallNext(c) \/ CallWaitForNext(c) PROVE QueueInv'
    BY <1>3 DEF CallNext, CallWaitForNext
<1>4. ASSUME NEW c \in Consumer, Check(c) PROVE QueueInv'
    <2>1. CASE container = <<>>
        BY <1>4, <2>1 DEF Check
    <2>2. CASE container # <<>>
        <3>1. Head(container) \in 1..MaxWrites
            BY <2>2
        <3>a. /\ holder = NoThread /\ holder' = c /\ cpc[c] = "check"
              /\ cpc' = [cpc EXCEPT ![c] = "pop"] /\ waiters' = waiters
              /\ front' = [front EXCEPT ![c] = Head(container)]
              /\ UNCHANGED <<container, ppc, written, taken>>
            BY <1>4, <2>2 DEF Check
        <3>2. QueueTypes'
            <4>1. waiters' = {d \in Consumer : cpc'[d] \in {"asleep", "dozing"}}
                BY <3>a
            <4>2. front' \in [Consumer -> 0..MaxWrites]
                BY <3>a, <3>1
            <4>3. cpc' \in [Consumer -> ConsumerPc]
                BY <3>a
            <4> QED
                BY <3>a, <4>1, <4>2, <4>3
        <3>3. HoldInv'
            <4>1. \A d \in Consumer : cpc'[d] = "pop" <=> d = c
                BY <3>a
            <4> QED
                BY <3>a, <2>2, <4>1
        <3> QED
            BY <3>2, <3>3
    <2> QED
        BY <2>1, <2>2
<1>5. ASSUME NEW c \in Consumer, Pop(c) PROVE QueueInv'
    <2>1. holder = c /\ container # <<>> /\ front[c] \in 1..MaxWrites
        <3>1. container # <<>> => Head(container) \in 1..MaxWrites
            OBVIOUS
        <3> QED
            BY <1>5, <3>1 DEF Pop
    <2>2. container' \in Seq(1..MaxWrites) /\ taken' \in Seq(1..MaxWrites)
        BY <1>5, <2>1 DEF Pop
    <2>3. QueueTypes'
        BY <1>5, <2>2 DEF Pop
    <2>4. HoldInv'
        BY <1>5, <2>1 DEF Pop
    <2> QED
        BY <2>3, <2>4
<1>6. ASSUME NEW c \in Consumer, Peek(c) PROVE QueueInv'
    BY <1>6, ZenonT(30) DEF Peek
<1>7. ASSUME NEW c \in Consumer, Peeked(c) PROVE QueueInv'
    BY <1>7 DEF Peeked
<1>8. ASSUME NEW c \in Consumer, WakeUnasked(c) PROVE QueueInv'
    BY <1>8 DEF WakeUnasked, Wake
<1>9. CASE Clear
    BY <1>9 DEF Clear
<1>10. CASE UNCHANGED queueVars
    BY <1>10 DEF queueVars
<1> QED
    BY <1>1, <1>2, <1>3, <1>4, <1>5, <1>6, <1>7, <1>8, <1>9, <1>10
       DEF QueueNext, ProducerStep, ConsumerStep, Call

(* Types, the wait set and the mutex are as they should be, for every value of the
   constants. *)
THEOREM QueueIsTyped == QueueSpec => []QueueInv
BY QueueInvInit, QueueInvStep, PTL DEF QueueSpec
-----------------------------------------------------------------------------
LEMMA QueueOrderInit == QueueInit => ExactlyOnceInOrder
BY DEF QueueInit, ExactlyOnceInOrder

LEMMA QueueOrderStep == QueueInv /\ ExactlyOnceInOrder /\ [QueueNext]_queueVars => ExactlyOnceInOrder'
<1> SUFFICES ASSUME QueueInv, ExactlyOnceInOrder, [QueueNext]_queueVars PROVE ExactlyOnceInOrder'
    OBVIOUS
<1>a. /\ container \in Seq(1..MaxWrites) /\ taken \in Seq(1..MaxWrites) /\ written \in Nat
      /\ taken \o container = [i \in 1..written |-> i]
    BY QueueAssumption DEF QueueAssumption, QueueInv, QueueTypes, ExactlyOnceInOrder
<1> USE DEF historyVars, threadVars
<1>1. ASSUME NEW p \in Producer, Push(p) PROVE ExactlyOnceInOrder'
    <2>1. taken' = taken /\ container' = Append(container, written + 1) /\ written' = written + 1
        BY <1>1 DEF Push
    <2>2. taken \o Append(container, written + 1) = Append(taken \o container, written + 1)
        <3>1. container \in Seq(Nat) /\ taken \in Seq(Nat) /\ written + 1 \in Nat
            BY <1>a, SeqMonotonic, QueueAssumption DEF QueueAssumption
        <3> QED
            BY <3>1, AppendBehind
    <2>3. Append([i \in 1..written |-> i], written + 1) = [i \in 1..(written + 1) |-> i]
        BY <1>a
    <2> QED
        BY <1>a, <2>1, <2>2, <2>3 DEF ExactlyOnceInOrder
<1>2. ASSUME NEW c \in Consumer, Pop(c) PROVE ExactlyOnceInOrder'
    <2>1. container # <<>> /\ front[c] = Head(container)
        BY <1>2 DEF Pop, QueueInv, HoldInv
    <2>2. /\ taken' = Append(taken, Head(container)) /\ container' = Tail(container)
          /\ written' = written
        BY <1>2, <2>1 DEF Pop
    <2>3. Append(taken, Head(container)) \o Tail(container) = taken \o container
        <3> DEFINE S == 1..MaxWrites
        <3>1. /\ Head(container) \in S /\ Tail(container) \in Seq(S) /\ <<Head(container)>> \in Seq(S)
              /\ <<Head(container)>> \o Tail(container) = container
            BY <1>a, <2>1, HeadAndTail
        <3>2. Append(taken, Head(container)) = taken \o <<Head(container)>>
            BY <1>a, <3>1, AppendIsConcat
        <3> HIDE DEF S
        <3>3. (taken \o <<Head(container)>>) \o Tail(container)
                  = taken \o (<<Head(container)>> \o Tail(container))
            BY <1>a, <3>1, ConcatAssociative DEF S
        <3> QED
            BY <3>1, <3>2, <3>3
    <2> QED
        BY <1>a, <2>2, <2>3 DEF ExactlyOnceInOrder
<1>3. CASE Clear
    <2>1. (taken \o container) \o <<>> = taken \o container
        BY <1>a
    <2> QED
        BY <1>3, <1>a, <2>1 DEF Clear, ExactlyOnceInOrder
<1>4. ASSUME NEW p \in Producer, Notify(p) PROVE ExactlyOnceInOrder'
    BY <1>4 DEF Notify, ExactlyOnceInOrder
<1>5. ASSUME NEW c \in Consumer, \/ CallNext(c) \/ CallWaitForNext(c) \/ WakeUnasked(c)
                                 \/ Check(c) \/ Peek(c) \/ Peeked(c)
      PROVE  ExactlyOnceInOrder'
    BY <1>5 DEF CallNext, CallWaitForNext, WakeUnasked, Check, Peek, Peeked, ExactlyOnceInOrder
<1>6. CASE UNCHANGED queueVars
    BY <1>6 DEF queueVars, ExactlyOnceInOrder
<1> QED
    BY <1>1, <1>2, <1>3, <1>4, <1>5, <1>6 DEF QueueNext, ProducerStep, ConsumerStep, Call

(* ExactlyOnceInOrder: what left the queue and what is in it is everything pushed, once
   each and in the order of the pushes, whatever threads there are. *)
THEOREM ElementsKeepTheirOrder == QueueSpec => []ExactlyOnceInOrder
BY QueueIsTyped, QueueOrderInit, QueueOrderStep, PTL DEF QueueSpec
-----------------------------------------------------------------------------
(* The threads counted are finite sets, and each step adds or removes one of them. *)
LEMMA CountsAreFinite ==
    /\ IsFiniteSet(Coming) /\ Cardinality(Coming) \in Nat
    /\ IsFiniteSet(Notifying) /\ Cardinality(Notifying) \in Nat
<1>1. Coming \subseteq Consumer /\ Notifying \subseteq Producer
    BY DEF Coming, Notifying
<1> QED
    BY <1>1, QueueAssumption, FS_Subset, FS_CardinalityType DEF QueueAssumption

LEMMA WakeupInit == QueueInit => NoLostWakeup
BY DEF QueueInit, NoLostWakeup

LEMMA WakeupStep == QueueInv /\ NoLostWakeup /\ [QueueNext]_queueVars => NoLostWakeup'
<1> SUFFICES ASSUME QueueInv, NoLostWakeup, [QueueNext]_queueVars, waiters' # {}
             PROVE  Len(container') <= Cardinality(Notifying') + Cardinality(Coming')
    BY DEF NoLostWakeup
<1> DEFINE Served == Len(container') <= Cardinality(Notifying') + Cardinality(Coming')
<1>a. /\ container \in Seq(1..MaxWrites) /\ waiters \subseteq Consumer
      /\ ppc \in [Producer -> ProducerPc] /\ cpc \in [Consumer -> ConsumerPc]
      /\ \A w \in waiters : cpc[w] \in {"asleep", "dozing"}
    BY DEF QueueInv, QueueTypes
<1>b. Len(container) \in Nat /\ Cardinality(Notifying) \in Nat /\ Cardinality(Coming) \in Nat
    BY <1>a, CountsAreFinite
<1>d. Cardinality(Coming') \in Nat
    <2>1. Coming' \subseteq Consumer
        BY DEF Coming
    <2> QED
        BY <2>1, QueueAssumption, FS_Subset, FS_CardinalityType DEF QueueAssumption
<1>c. waiters # {} => Len(container) <= Cardinality(Notifying) + Cardinality(Coming)
    BY DEF NoLostWakeup
<1> USE DEF historyVars, threadVars
<1>1. ASSUME NEW p \in Producer, Push(p) PROVE Served
    <2>1. Notifying' = Notifying \cup {p} /\ p \notin Notifying /\ Coming' = Coming
        BY <1>1, <1>a DEF Push, Notifying, Coming
    <2>2. Cardinality(Notifying') = Cardinality(Notifying) + 1
        BY <2>1, CountsAreFinite, FS_AddElement
    <2>3. Len(container') = Len(container) + 1 /\ waiters # {}
        BY <1>1, <1>a DEF Push
    <2> QED
        BY <1>b, <1>c, <2>1, <2>2, <2>3
<1>2. ASSUME NEW p \in Producer, Notify(p) PROVE Served
    <2>1. PICK w \in waiters : Wake(w)
        BY <1>2 DEF Notify
    <2>2. Notifying' = Notifying \ {p} /\ p \in Notifying
        BY <1>2, <1>a DEF Notify, Notifying
    <2>3. Coming' = Coming \cup {w} /\ w \notin Coming
        BY <2>1, <1>a DEF Wake, Coming
    <2>4. /\ Cardinality(Notifying') = Cardinality(Notifying) - 1
          /\ Cardinality(Coming') = Cardinality(Coming) + 1
        BY <2>2, <2>3, CountsAreFinite, FS_AddElement, FS_RemoveElement
    <2> QED
        BY <1>2, <1>b, <1>c, <2>1, <2>4 DEF Notify
<1>3. ASSUME NEW c \in Consumer, CallNext(c) \/ CallWaitForNext(c) PROVE Served
    <2>1. /\ Coming' = Coming \cup {c} /\ c \notin Coming /\ Notifying' = Notifying
          /\ waiters' = waiters /\ container' = container
        BY <1>3, <1>a DEF CallNext, CallWaitForNext, Coming, Notifying
    <2>2. Cardinality(Coming') = Cardinality(Coming) + 1
        BY <2>1, CountsAreFinite, FS_AddElement
    <2> QED
        BY <1>b, <1>c, <2>1, <2>2
<1>4. ASSUME NEW c \in Consumer, Check(c) \/ Peek(c) \/ Peeked(c) PROVE Served
    <2>1. container' = container /\ Notifying' = Notifying
        BY <1>4 DEF Check, Peek, Peeked, Notifying
    <2>2. CASE container = <<>>
        <3>1. Cardinality(Coming') \in Nat
            BY <1>d
        <3> QED
            BY <1>b, <2>1, <2>2, <3>1
    <2>3. CASE container # <<>>
        <3>1. Coming' = Coming /\ waiters' = waiters
            BY <1>4, <1>a, <2>3 DEF Check, Peek, Peeked, Coming
        <3> QED
            BY <1>c, <2>1, <3>1
    <2> QED
        BY <2>2, <2>3
<1>5. ASSUME NEW c \in Consumer, Pop(c) PROVE Served
    <2>1. Coming' = Coming \ {c} /\ c \in Coming /\ Notifying' = Notifying /\ waiters' = waiters
        BY <1>5, <1>a DEF Pop, Coming, Notifying
    <2>2. Cardinality(Coming') = Cardinality(Coming) - 1
        BY <2>1, CountsAreFinite, FS_RemoveElement
    <2>3. container # <<>> /\ container' = Tail(container)
        BY <1>5 DEF Pop, QueueInv, HoldInv
    <2>4. Len(container') = Len(container) - 1
        BY <1>a, <2>3
    <2> QED
        BY <1>b, <1>c, <2>1, <2>2, <2>4
<1>6. ASSUME NEW c \in Consumer, WakeUnasked(c) PROVE Served
    <2>1. /\ Coming' = Coming \cup {c} /\ c \notin Coming /\ Notifying' = Notifying
          /\ waiters # {} /\ container' = container
        BY <1>6, <1>a DEF WakeUnasked, Wake, Coming, Notifying
    <2>2. Cardinality(Coming') = Cardinality(Coming) + 1
        BY <2>1, CountsAreFinite, FS_AddElement
    <2> QED
        BY <1>b, <1>c, <2>1, <2>2
<1>7. CASE Clear
    <2>1. Len(container') = 0 /\ Notifying' = Notifying /\ Coming' = Coming
        BY <1>7 DEF Clear, Notifying, Coming
    <2> QED
        BY <1>b, <2>1
<1>8. CASE UNCHANGED queueVars
    BY <1>8, <1>c DEF queueVars, Notifying, Coming
<1> QED
    BY <1>1, <1>2, <1>3, <1>4, <1>5, <1>6, <1>7, <1>8
       DEF QueueNext, ProducerStep, ConsumerStep, Call

(* NoLostWakeup: while a thread sleeps, every element queued is matched by a notification
   on its way or by a thread on its way to the queue. *)
THEOREM WakeupsAreNotLost == QueueSpec => []NoLostWakeup
BY QueueIsTyped, WakeupInit, WakeupStep, PTL DEF QueueSpec
=============================================================================
