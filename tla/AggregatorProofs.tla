--------------------------- MODULE AggregatorProofs ---------------------------
(***************************************************************************)
(* Theorems about Aggregator, for every set of files and references, every *)
(* list that a result may hold and every number of results.                *)
(*                                                                         *)
(* The vector under the loop of reduce() is two lists: what is passed will *)
(* be stored, and what is ahead is still sorted by file.  The invariant    *)
(* counts the copies of each reference in the rows and in these lists.     *)
(* That nothing is lost rests on a comparison of lists: if the rows of a   *)
(* file have each reference at most as often as the group at hand, and are *)
(* as many, they are the same references, and the shortcut of Match is     *)
(* right to drop the group.                                                *)
(***************************************************************************)
EXTENDS Aggregator, SequenceLemmas
-----------------------------------------------------------------------------
Copies(r, list) == Cardinality(PlacesOf(r, list))

(* what is kept of the result, and what reduce() has yet to look at *)
Passed == IF pc = "flush" THEN pendingRefs ELSE SubSeq(references, 1, begin - 1)
Ahead == SubSeq(references, begin, Len(references))

RefsOf(f) == {r \in Ref : r.file = f}
Has(list, f) == \E i \in DOMAIN list : list[i].file = f

Types ==
    /\ pc \in {"idle", "sort", "group", "add", "flush"}
    /\ references \in Seq(Ref) /\ pendingRefs \in Seq(Ref)
    /\ begin \in 1..Len(references) + 1
    /\ rows \in [File -> Seq(Ref)]
    /\ \A f \in File : \A i \in DOMAIN rows[f] : rows[f][i].file = f
    /\ DOMAIN numReferences \subseteq File
    /\ numReferences \in [DOMAIN numReferences -> Nat]
    /\ seen \in [File -> SUBSET UNION {[RefsOf(f) -> Nat] : f \in File}]
    /\ \A f \in File : \A counts \in seen[f] : counts \in [RefsOf(f) -> Nat]

Phases ==
    /\ pc \in {"idle", "flush"} => references = <<>> /\ begin = 1
    /\ pc # "flush" => pendingRefs = <<>>
    /\ pc = "sort" => begin = 1
    /\ pc = "add" => begin = Len(references) + 1
    /\ pc = "group" => begin <= Len(references)
    /\ pc = "sort" => references # <<>>

(* in the loop, what is ahead is sorted, and its files are behind those passed *)
InOrder ==
    pc = "group" =>
        /\ \A i, j \in DOMAIN Ahead : i < j => Ahead[i].file <= Ahead[j].file
        /\ \A i \in DOMAIN Passed : \A j \in DOMAIN Ahead : Passed[i].file < Ahead[j].file

(* all that the result holds of a file is ahead, or nothing *)
WholeAhead == \A f \in File : Has(Ahead, f) => Counts(f, Ahead) \in seen[f]

(* the copies of a reference come from one result: those of the rows, which is
   NoDuplicates, and those passed, of which there is none in the rows *)
PassedOnce ==
    \A r \in Ref : Copies(r, Passed) > 0 =>
        /\ Copies(r, rows[r.file]) = 0
        /\ \E counts \in seen[r.file] : counts[r] >= Copies(r, Passed)

(* the number recorded counts what is stored and what will be *)
Numbers ==
    \A f \in File : (IF f \in DOMAIN numReferences THEN numReferences[f] ELSE 0)
                        = Len(rows[f]) + Len(OfFile(f, Passed))

(* what a result held of a file is stored, will be, or is ahead *)
NotLost ==
    \A f \in File : Nested(f) =>
        \A counts \in seen[f] :
            \/ \A r \in RefsOf(f) : counts[r] > 0 => Copies(r, rows[f]) > 0 \/ Copies(r, Passed) > 0
            \/ Has(Ahead, f) /\ counts = Counts(f, Ahead)

Inv == /\ Types /\ Phases /\ InOrder /\ WholeAhead
       /\ NoDuplicates /\ PassedOnce /\ Numbers /\ NotLost
-----------------------------------------------------------------------------
(* Counting in lists of references. *)
LEMMA CopiesOf ==
    ASSUME NEW q \in Seq(Ref), NEW r
    PROVE  /\ Copies(r, q) \in Nat
           /\ Copies(r, q) > 0 <=> \E i \in DOMAIN q : q[i] = r
<1>1. Copies(r, q) \in Nat /\ IsFiniteSet(PlacesOf(r, q))
    BY PlacesFinite DEF Copies
<1>2. Copies(r, q) = 0 <=> PlacesOf(r, q) = {}
    BY <1>1, FS_EmptySet DEF Copies
<1>3. PlacesOf(r, q) = {} <=> ~ \E i \in DOMAIN q : q[i] = r
    BY DEF PlacesOf
<1> QED
    BY <1>1, <1>2, <1>3

LEMMA NoCopies ==
    ASSUME NEW q \in Seq(Ref), NEW f, ~ Has(q, f), NEW r, r.file = f
    PROVE  Copies(r, q) = 0
<1>1. ~ \E i \in DOMAIN q : q[i] = r
    BY DEF Has
<1> QED
    BY <1>1, CopiesOf

LEMMA CopiesJoined ==
    ASSUME NEW q \in Seq(Ref), NEW s \in Seq(Ref), NEW r
    PROVE  Copies(r, q \o s) = Copies(r, q) + Copies(r, s)
BY PlacesConcatenated DEF Copies

LEMMA HasJoined ==
    ASSUME NEW q \in Seq(Ref), NEW s \in Seq(Ref), NEW f
    PROVE  Has(q \o s, f) <=> Has(q, f) \/ Has(s, f)
<1> DEFINE qs == q \o s
<1>1. /\ Len(q) \in Nat /\ Len(s) \in Nat /\ DOMAIN q = 1..Len(q) /\ DOMAIN s = 1..Len(s)
      /\ DOMAIN qs = 1..(Len(q) + Len(s))
      /\ \A i \in 1..Len(q) : qs[i] = q[i]
      /\ \A i \in 1..Len(s) : qs[Len(q) + i] = s[i]
    OBVIOUS
<1> HIDE DEF qs
<1>2. ASSUME Has(qs, f) PROVE Has(q, f) \/ Has(s, f)
    <2>1. PICK i \in 1..(Len(q) + Len(s)) : qs[i].file = f
        BY <1>1, <1>2 DEF Has
    <2>2. CASE i <= Len(q)
        BY <1>1, <2>1, <2>2 DEF Has
    <2>3. CASE i > Len(q)
        <3>1. i - Len(q) \in 1..Len(s) /\ Len(q) + (i - Len(q)) = i
            BY <1>1, <2>3
        <3> QED
            BY <1>1, <2>1, <3>1 DEF Has
    <2> QED
        BY <1>1, <2>2, <2>3
<1>3. ASSUME Has(q, f) PROVE Has(qs, f)
    BY <1>1, <1>3 DEF Has
<1>4. ASSUME Has(s, f) PROVE Has(qs, f)
    <2>1. PICK i \in 1..Len(s) : s[i].file = f
        BY <1>1, <1>4 DEF Has
    <2>2. Len(q) + i \in 1..(Len(q) + Len(s)) /\ qs[Len(q) + i].file = f
        BY <1>1, <2>1
    <2> QED
        BY <1>1, <2>2 DEF Has
<1> QED
    BY <1>2, <1>3, <1>4 DEF qs

LEMMA CountsAre ==
    ASSUME NEW q \in Seq(Ref), NEW f
    PROVE  /\ Counts(f, q) = [r \in RefsOf(f) |-> Copies(r, q)]
           /\ Counts(f, q) \in [RefsOf(f) -> Nat]
<1>1. Counts(f, q) = [r \in RefsOf(f) |-> Copies(r, q)]
    BY DEF Counts, RefsOf, Copies, PlacesOf
<1> QED
    BY <1>1, CopiesOf

(* What is selected of a list for a file. *)
LEMMA OfFileIs ==
    ASSUME NEW q \in Seq(Ref), NEW f
    PROVE  /\ OfFile(f, q) \in Seq(Ref)
           /\ \A i \in DOMAIN OfFile(f, q) : OfFile(f, q)[i].file = f
           /\ OfFile(f, q) = <<>> <=> ~ Has(q, f)
           /\ \A r \in Ref : Copies(r, OfFile(f, q)) = IF r.file = f THEN Copies(r, q) ELSE 0
           /\ (\A i \in DOMAIN q : q[i].file = f) => OfFile(f, q) = q
<1> DEFINE o == OfFile(f, q)
<1>1. o \in Seq(Ref \cap RefsOf(f))
    BY SelectedType DEF OfFile, RefsOf
<1>2. \A r \in Ref : Copies(r, o) = IF r \in RefsOf(f) THEN Copies(r, q) ELSE 0
    BY SelectedPlaces DEF OfFile, RefsOf, Copies
<1>3. (\A i \in DOMAIN q : q[i] \in RefsOf(f)) => o = q
    BY SelectedAll DEF OfFile, RefsOf
<1>4. (\A i \in DOMAIN q : q[i] \notin RefsOf(f)) => o = <<>>
    BY SelectedNone DEF OfFile, RefsOf
<1> HIDE DEF o
<1>5. \A i \in DOMAIN q : q[i] \in Ref
    OBVIOUS
<1>6. o \in Seq(Ref) /\ \A i \in DOMAIN o : o[i] \in RefsOf(f)
    BY <1>1 DEF RefsOf
<1>7. ~ Has(q, f) => o = <<>>
    BY <1>4 DEF Has, RefsOf
<1>8. ASSUME NEW i \in DOMAIN q, q[i].file = f PROVE o # <<>>
    <2>1. Copies(q[i], q) > 0
        BY CopiesOf
    <2>2. Copies(q[i], o) > 0
        BY <1>2, <1>5, <1>8, <2>1 DEF RefsOf
    <2>3. \E j \in DOMAIN o : o[j] = q[i]
        BY <1>6, <2>2, CopiesOf
    <2> QED
        BY <2>3
<1> QED
    BY <1>2, <1>3, <1>5, <1>6, <1>7, <1>8 DEF Has, RefsOf, o

LEMMA OfFileJoined ==
    ASSUME NEW q \in Seq(Ref), NEW s \in Seq(Ref), NEW f
    PROVE  /\ OfFile(f, q \o s) = OfFile(f, q) \o OfFile(f, s)
           /\ Len(OfFile(f, q \o s)) = Len(OfFile(f, q)) + Len(OfFile(f, s))
<1>1. OfFile(f, q \o s) = OfFile(f, q) \o OfFile(f, s)
    BY SelectedConcat DEF OfFile
<1>2. OfFile(f, q) \in Seq(Ref) /\ OfFile(f, s) \in Seq(Ref)
    BY OfFileIs
<1> QED
    BY <1>1, <1>2, ConcatProperties
-----------------------------------------------------------------------------
LEMMA InvInit == Init => Inv
<1> SUFFICES ASSUME Init PROVE Inv
    OBVIOUS
<1>1. Passed = <<>> /\ Ahead = <<>>
    BY DEF Init, Passed, Ahead
<1>2. \A r : Copies(r, <<>>) = 0
    BY NoPlaces DEF Copies
<1>3. \A f : OfFile(f, <<>>) = <<>> /\ ~ Has(<<>>, f)
    BY SelectedEmpty DEF OfFile, Has
<1>4. Types /\ Phases /\ InOrder
    BY DEF Init, Types, Phases, InOrder
<1>5. WholeAhead /\ NotLost
    BY <1>1, <1>3 DEF Init, WholeAhead, NotLost
<1>6. NoDuplicates
    <2>1. \A f \in File : \A r \in Ref : Cardinality({i \in DOMAIN rows[f] : rows[f][i] = r}) = 0
        BY <1>2 DEF Init, Copies, PlacesOf
    <2> QED
        BY <2>1 DEF NoDuplicates
<1>7. PassedOnce
    BY <1>1, <1>2 DEF PassedOnce
<1>8. Numbers
    BY <1>1, <1>3 DEF Init, Numbers
<1> QED
    BY <1>4, <1>5, <1>6, <1>7, <1>8 DEF Inv

(* What find_if finds: the group ends before the first reference of another file. *)
LEMMA EndFound ==
    ASSUME Types, Phases, pc = "group"
    PROVE  /\ end \in begin + 1..Len(references) + 1
           /\ \A i \in begin..end - 1 : references[i].file = current
           /\ end <= Len(references) => references[end].file # current
<1> DEFINE others == {i \in begin..Len(references) : references[i].file # current}
<1>1. begin \in Nat /\ Len(references) \in Nat /\ begin >= 1 /\ begin <= Len(references)
    BY DEF Types, Phases
<1>2. begin \notin others
    BY DEF current
<1>3. CASE others = {}
    <2>1. end = Len(references) + 1
        BY <1>3 DEF end
    <2> QED
        BY <1>1, <1>3, <2>1
<1>4. CASE others # {}
    <2>1. others \subseteq Nat
        BY <1>1
    <2>2. \E i \in others : \A j \in others : i <= j
        BY <1>4, <2>1, Least
    <2>3. end = CHOOSE i \in others : \A j \in others : i <= j
        BY <1>4 DEF end
    <2>4. end \in others /\ \A j \in others : end <= j
        BY <2>2, <2>3
    <2> QED
        BY <1>1, <1>2, <2>4
<1> QED
    BY <1>3, <1>4

(* what is behind the group *)
Behind == SubSeq(references, end, Len(references))

(* The loop is at a group of one file, that of no reference passed or behind it. *)
LEMMA GroupAhead ==
    ASSUME Inv, pc = "group"
    PROVE  /\ current \in File
           /\ Passed \in Seq(Ref) /\ group \in Seq(Ref) /\ Behind \in Seq(Ref) /\ group # <<>>
           /\ Passed = SubSeq(references, 1, begin - 1) /\ Len(Passed) = begin - 1
           /\ Len(Behind) = Len(references) + 1 - end
           /\ Ahead = group \o Behind
           /\ \A i \in DOMAIN group : group[i].file = current
           /\ ~ Has(Passed, current) /\ ~ Has(Behind, current)
           /\ \A i \in DOMAIN Passed : \A j \in DOMAIN Behind : Passed[i].file < Behind[j].file
           /\ \A j \in DOMAIN Behind : current < Behind[j].file
           /\ \A i, j \in DOMAIN Behind : i < j => Behind[i].file <= Behind[j].file
<1>1. /\ begin \in Nat /\ Len(references) \in Nat /\ begin >= 1 /\ begin <= Len(references)
      /\ references \in Seq(Ref)
    BY DEF Inv, Types, Phases
<1>2. /\ end \in begin + 1..Len(references) + 1
      /\ \A i \in begin..end - 1 : references[i].file = current
      /\ end <= Len(references) => references[end].file # current
    BY EndFound DEF Inv
<1> DEFINE k == begin
           e == end
<1>a. /\ k \in Nat /\ e \in Nat /\ k >= 1 /\ k < e /\ e <= Len(references) + 1
    BY <1>1, <1>2
<1>3. /\ Passed \in Seq(Ref) /\ Len(Passed) = k - 1
      /\ \A i \in 1..k - 1 : Passed[i] = references[i]
      /\ Ahead \in Seq(Ref) /\ Len(Ahead) = Len(references) - k + 1
      /\ \A i \in 1..Len(references) - k + 1 : Ahead[i] = references[k + i - 1]
    <2>1. Passed = SubSeq(references, 1, k - 1)
        BY DEF Passed
    <2>2. k \in 1..Len(references) + 1
        BY <1>1
    <2> HIDE DEF k
    <2>3. Ahead = SubSeq(references, k, Len(references))
        BY DEF Ahead, k
    <2> QED
        BY <1>1, <2>1, <2>2, <2>3, Halves
<1>4. /\ group \in Seq(Ref) /\ Len(group) = e - k
      /\ \A i \in 1..e - k : group[i] = references[k + i - 1]
    <2>1. group = SubSeq(references, k, e - 1)
        BY DEF group
    <2>2. \A i \in k..e - 1 : references[i] \in Ref
        BY <1>1, <1>a
    <2> HIDE DEF k, e
    <2> QED
        BY <1>1, <1>a, <2>1, <2>2
<1>5. /\ Behind \in Seq(Ref) /\ Len(Behind) = Len(references) - e + 1
      /\ \A i \in 1..Len(references) - e + 1 : Behind[i] = references[e + i - 1]
    <2>1. Behind = SubSeq(references, e, Len(references))
        BY DEF Behind
    <2>2. e \in 1..Len(references) + 1
        BY <1>1, <1>a
    <2> HIDE DEF e
    <2> QED
        BY <1>1, <2>1, <2>2, Halves
<1>6. Ahead = group \o Behind
    <2> DEFINE gb == group \o Behind
    <2>1. /\ gb \in Seq(Ref) /\ Len(gb) = Len(group) + Len(Behind)
          /\ \A i \in 1..Len(group) + Len(Behind) :
                gb[i] = IF i <= Len(group) THEN group[i] ELSE Behind[i - Len(group)]
        BY <1>4, <1>5, ConcatProperties
    <2> HIDE DEF gb, k, e
    <2>2. Len(group) + Len(Behind) = Len(Ahead)
        BY <1>1, <1>a, <1>3, <1>4, <1>5
    <2>3. \A i \in 1..Len(Ahead) : gb[i] = Ahead[i]
        <3> TAKE i \in 1..Len(Ahead)
        <3>0. i \in Nat /\ i >= 1 /\ i <= Len(references) - k + 1
            BY <1>1, <1>3
        <3>1. Ahead[i] = references[k + i - 1]
            BY <1>1, <1>a, <1>3, <3>0
        <3>2. CASE i <= e - k
            <4>1. gb[i] = group[i]
                BY <1>4, <2>1, <2>2, <3>2
            <4> QED
                BY <1>4, <1>a, <3>0, <3>1, <3>2, <4>1, SMTT(30)
        <3>3. CASE i > e - k
            <4>a. i \in 1..Len(group) + Len(Behind) /\ ~ (i <= Len(group))
                BY <1>4, <1>a, <2>2, <3>0, <3>3
            <4>1. gb[i] = Behind[i - Len(group)]
                BY <2>1, <4>a
            <4>2. /\ i - Len(group) \in 1..Len(references) - e + 1
                  /\ e + (i - Len(group)) - 1 = k + i - 1
                BY <1>1, <1>4, <1>a, <3>0, <3>3
            <4>3. Behind[i - Len(group)] = references[e + (i - Len(group)) - 1]
                BY <1>5, <4>2
            <4> QED
                BY <3>1, <4>1, <4>2, <4>3
        <3> QED
            BY <1>a, <3>0, <3>2, <3>3
    <2>4. gb = Ahead
        BY <1>3, <2>1, <2>2, <2>3, SeqEqual
    <2> QED
        BY <2>4 DEF gb
<1>7. \A i \in DOMAIN group : group[i].file = current
    <2> HIDE DEF k, e
    <2>1. \A i \in begin..end - 1 : references[i].file = current
        BY <1>2
    <2>2. ASSUME NEW i \in 1..e - k PROVE group[i].file = current
        <3>1. group[i] = references[k + i - 1] /\ k + i - 1 \in k..e - 1
            BY <1>4, <1>a
        <3> QED
            BY <2>1, <3>1 DEF k, e
    <2> QED
        BY <1>4, <2>2
<1>8. /\ \A i, j \in 1..Len(Ahead) : i < j => Ahead[i].file <= Ahead[j].file
      /\ \A i \in DOMAIN Passed : \A j \in 1..Len(Ahead) : Passed[i].file < Ahead[j].file
    <2>1. /\ \A i, j \in DOMAIN Ahead : i < j => Ahead[i].file <= Ahead[j].file
          /\ \A i \in DOMAIN Passed : \A j \in DOMAIN Ahead : Passed[i].file < Ahead[j].file
        BY DEF Inv, InOrder
    <2>2. DOMAIN Ahead = 1..Len(Ahead)
        BY <1>3
    <2> QED
        BY <2>1, <2>2
<1>9. current \in File /\ Ahead[1].file = current /\ 1 \in 1..Len(Ahead)
    <2>1. references[begin] \in Ref
        BY <1>1
    <2>2. current \in File
        BY <2>1, AggregatorAssumption DEF current, AggregatorAssumption
    <2> HIDE DEF e
    <2>3. 1 \in 1..Len(references) - k + 1 /\ k + 1 - 1 = k
        BY <1>1
    <2>4. Ahead[1] = references[k + 1 - 1]
        BY <1>3, <2>3
    <2> QED
        BY <1>3, <2>2, <2>3, <2>4 DEF current
<1> DEFINE shift == e - k
<1>10. /\ shift \in Nat /\ shift >= 1 /\ Len(Ahead) = shift + Len(Behind) /\ Len(Behind) \in Nat
       /\ \A j \in 1..Len(Behind) : shift + j \in 1..Len(Ahead) /\ Behind[j] = Ahead[shift + j]
    <2> HIDE DEF k, e
    <2>1. shift \in Nat /\ shift >= 1 /\ Len(Ahead) = shift + Len(Behind) /\ Len(Behind) \in Nat
        BY <1>1, <1>3, <1>5, <1>a
    <2>2. ASSUME NEW j \in 1..Len(Behind)
          PROVE  shift + j \in 1..Len(Ahead) /\ Behind[j] = Ahead[shift + j]
        <3>1. shift + j \in 1..Len(Ahead) /\ k + (shift + j) - 1 = e + j - 1
            BY <1>a, <2>1
        <3>2. Behind[j] = references[e + j - 1]
            BY <1>5
        <3>3. Ahead[shift + j] = references[k + (shift + j) - 1]
            BY <1>3, <3>1
        <3> QED
            BY <3>1, <3>2, <3>3
    <2> QED
        BY <2>1, <2>2
<1>11. \A i \in 1..Len(Ahead) : Ahead[i].file \in Nat
    <2>1. \A i \in 1..Len(Ahead) : Ahead[i] \in Ref
        BY <1>3
    <2> QED
        BY <2>1, AggregatorAssumption DEF AggregatorAssumption
<1>12. Behind # <<>> => Behind[1].file # current
    <2> SUFFICES ASSUME Behind # <<>> PROVE Behind[1].file # current
        OBVIOUS
    <2> HIDE DEF k
    <2>1. 1 \in 1..Len(references) - e + 1 /\ e + 1 - 1 = e /\ e <= Len(references)
        BY <1>1, <1>5, <1>a
    <2>2. Behind[1] = references[e + 1 - 1]
        BY <1>5, <2>1
    <2> QED
        BY <1>2, <2>1, <2>2
<1> HIDE DEF shift, k, e
<1>13. \A j \in DOMAIN Behind : current < Behind[j].file
    <2> SUFFICES ASSUME NEW j \in 1..Len(Behind) PROVE current < Behind[j].file
        BY <1>5
    <2>1. 1 \in 1..Len(Behind) /\ Behind # <<>>
        BY <1>10
    <2>2. /\ shift + 1 \in 1..Len(Ahead) /\ Behind[1] = Ahead[shift + 1]
          /\ shift + j \in 1..Len(Ahead) /\ Behind[j] = Ahead[shift + j]
        BY <1>10, <2>1
    <2>3. current <= Ahead[shift + 1].file
        BY <1>8, <1>9, <1>10, <2>2
    <2>4. Ahead[shift + 1].file <= Ahead[shift + j].file
        <3>1. CASE j = 1
            BY <1>11, <2>2, <3>1
        <3>2. CASE j # 1
            BY <1>8, <1>10, <2>2, <3>2
        <3> QED
            BY <3>1, <3>2
    <2>5. current # Ahead[shift + 1].file
        BY <1>12, <2>1, <2>2
    <2>6. current \in Nat /\ Ahead[shift + 1].file \in Nat /\ Ahead[shift + j].file \in Nat
        BY <1>9, <1>11, <2>2
    <2> QED
        BY <2>2, <2>3, <2>4, <2>5, <2>6
<1>14. \A i, j \in DOMAIN Behind : i < j => Behind[i].file <= Behind[j].file
    BY <1>5, <1>8, <1>10
<1>15. \A i \in DOMAIN Passed : \A j \in DOMAIN Behind : Passed[i].file < Behind[j].file
    BY <1>5, <1>8, <1>10
<1>16. ~ Has(Passed, current)
    <2>1. \A i \in DOMAIN Passed : Passed[i].file < current
        BY <1>8, <1>9
    <2>2. current \in Nat
        BY <1>9, <1>11
    <2> QED
        BY <2>1, <2>2 DEF Has
<1>17. ~ Has(Behind, current)
    <2>1. current \in Nat
        BY <1>9, <1>11
    <2> QED
        BY <1>13, <2>1 DEF Has
<1>18. Passed = SubSeq(references, 1, begin - 1) /\ Len(Passed) = begin - 1
    BY <1>3 DEF Passed, k
<1>19. Len(Behind) = Len(references) + 1 - end
    BY <1>1, <1>5, <1>a DEF e
<1>20. group # <<>>
    BY <1>4, <1>a
<1> QED
    BY <1>3, <1>4, <1>5, <1>6, <1>7, <1>9, <1>13, <1>14, <1>15, <1>16, <1>17, <1>18, <1>19, <1>20

(* What reduce() keeps of the group is passed, and the loop goes on behind it. *)
LEMMA Continued ==
    ASSUME Inv, pc = "group", NEW k \in Seq(Ref), Continue(k)
    PROVE  /\ references' \in Seq(Ref) /\ begin' \in 1..Len(references') + 1
           /\ pc' \in {"add", "group"}
           /\ pc' = "add" => begin' = Len(references') + 1
           /\ pc' = "group" => begin' <= Len(references')
           /\ Passed' = Passed \o k
           /\ Ahead' = Behind
<1> DEFINE pk == Passed \o k
<1>1. /\ Passed \in Seq(Ref) /\ Behind \in Seq(Ref)
      /\ Passed = SubSeq(references, 1, begin - 1) /\ Len(Passed) = begin - 1
    BY GroupAhead
<1>2. pk \in Seq(Ref) /\ Len(pk) = begin - 1 + Len(k) /\ Len(k) \in Nat
    BY <1>1
<1>3. /\ references' = pk \o Behind /\ begin' = begin + Len(k)
      /\ pc' = IF begin' = Len(references') + 1 THEN "add" ELSE "group"
    BY <1>1 DEF Continue, Behind
<1> HIDE DEF pk
<1>4. /\ references' \in Seq(Ref) /\ Len(references') = Len(pk) + Len(Behind)
      /\ Len(pk) \in Nat /\ Len(Behind) \in Nat
    BY <1>1, <1>2, <1>3, ConcatProperties
<1>5. begin \in Nat
    BY DEF Inv, Types
<1>6. begin' = Len(pk) + 1
    BY <1>2, <1>3, <1>5
<1>7. begin' \in 1..Len(references') + 1
    BY <1>4, <1>6
<1>8. SubSeq(pk \o Behind, 1, Len(pk)) = pk
      /\ SubSeq(pk \o Behind, Len(pk) + 1, Len(pk \o Behind)) = Behind
    BY <1>1, <1>2, JoinedCut
<1>9. pc' # "flush" /\ Passed' = SubSeq(references', 1, begin' - 1)
    BY <1>3 DEF Passed
<1>10. Ahead' = SubSeq(references', begin', Len(references'))
    BY DEF Ahead
<1>11. begin' - 1 = Len(pk)
    BY <1>4, <1>6
<1>12. Passed' = pk /\ Ahead' = Behind
    BY <1>3, <1>6, <1>8, <1>9, <1>10, <1>11
<1>13. pc' \in {"add", "group"} /\ (pc' = "add" <=> begin' = Len(references') + 1)
    BY <1>3
<1>14. begin' # Len(references') + 1 => begin' <= Len(references')
    <2>1. Len(references') \in Nat
        BY <1>4
    <2> QED
        BY <1>7, <2>1
<1>15. Passed' = Passed \o k
    BY <1>12 DEF pk
<1> QED
    BY <1>4, <1>7, <1>12, <1>13, <1>14, <1>15

(* A step of the loop that keeps the references k of the group preserves the invariant
   if k repeats nothing, leaves out nothing that is not stored, and is counted. *)
LEMMA LoopStep ==
    ASSUME Inv, pc = "group", NEW k \in Seq(Ref), Continue(k),
           \A i \in DOMAIN k : k[i].file = current,
           \A r \in Ref : Copies(r, k) <= Copies(r, group),
           \A r \in Ref : Copies(r, k) > 0 => Copies(r, rows[r.file]) = 0,
           Nested(current) =>
               \A r \in RefsOf(current) :
                   Copies(r, group) > 0 => Copies(r, rows[current]) > 0 \/ Copies(r, k) > 0,
           numReferences' \in [DOMAIN numReferences \cup {current} -> Nat],
           numReferences'[current] = Len(k) + IF current \in DOMAIN numReferences
                                              THEN numReferences[current] ELSE 0,
           \A f \in DOMAIN numReferences \ {current} : numReferences'[f] = numReferences[f]
    PROVE  Inv'
<1>1. /\ references' \in Seq(Ref) /\ begin' \in 1..Len(references') + 1
      /\ pc' \in {"add", "group"}
      /\ pc' = "add" => begin' = Len(references') + 1
      /\ pc' = "group" => begin' <= Len(references')
      /\ Passed' = Passed \o k
      /\ Ahead' = Behind
    BY Continued
<1>2. rows' = rows /\ pendingRefs' = pendingRefs /\ seen' = seen
    BY DEF Continue
<1>3. /\ current \in File
      /\ Passed \in Seq(Ref) /\ group \in Seq(Ref) /\ Behind \in Seq(Ref)
      /\ Ahead = group \o Behind
      /\ \A i \in DOMAIN group : group[i].file = current
      /\ ~ Has(Passed, current) /\ ~ Has(Behind, current)
    BY GroupAhead
<1>4. /\ \A i \in DOMAIN Passed : \A j \in DOMAIN Behind : Passed[i].file < Behind[j].file
      /\ \A j \in DOMAIN Behind : current < Behind[j].file
      /\ \A i, j \in DOMAIN Behind : i < j => Behind[i].file <= Behind[j].file
    BY GroupAhead
<1>a. pendingRefs = <<>>
    BY DEF Inv, Phases
<1>5. Types'
    <2>1. DOMAIN numReferences' = DOMAIN numReferences \cup {current}
        OBVIOUS
    <2> QED
        BY <1>1, <1>2, <1>3, <2>1 DEF Inv, Types
<1>6. Phases'
    BY <1>1, <1>2, <1>a DEF Phases
(* of each reference, what is at hand, passed and ahead *)
<1>7. ASSUME NEW r \in Ref
      PROVE  /\ Copies(r, k) \in Nat /\ Copies(r, Passed) \in Nat /\ Copies(r, group) \in Nat
             /\ Copies(r, Behind) \in Nat
             /\ Copies(r, Passed') = Copies(r, Passed) + Copies(r, k)
             /\ Copies(r, Ahead) = Copies(r, group) + Copies(r, Behind)
             /\ r.file = current => Copies(r, Passed) = 0 /\ Copies(r, Behind) = 0
             /\ r.file # current => Copies(r, k) = 0 /\ Copies(r, group) = 0
    <2>1. r.file # current => ~ Has(k, r.file) /\ ~ Has(group, r.file)
        BY <1>3 DEF Has
    <2>2. r.file = current => Copies(r, Passed) = 0 /\ Copies(r, Behind) = 0
        BY <1>3, NoCopies
    <2>3. r.file # current => Copies(r, k) = 0 /\ Copies(r, group) = 0
        BY <1>3, <2>1, NoCopies
    <2>4. Copies(r, Passed') = Copies(r, Passed) + Copies(r, k)
        BY <1>1, <1>3, CopiesJoined
    <2>5. Copies(r, Ahead) = Copies(r, group) + Copies(r, Behind)
        BY <1>3, CopiesJoined
    <2>6. /\ Copies(r, k) \in Nat /\ Copies(r, Passed) \in Nat /\ Copies(r, group) \in Nat
          /\ Copies(r, Behind) \in Nat
        BY <1>3, CopiesOf
    <2> QED
        BY <2>2, <2>3, <2>4, <2>5, <2>6
<1>8. InOrder'
    <2>1. \A i \in DOMAIN Passed' : \A j \in DOMAIN Behind : Passed'[i].file < Behind[j].file
        <3> SUFFICES ASSUME NEW i \in DOMAIN Passed', NEW j \in DOMAIN Behind
                     PROVE  Passed'[i].file < Behind[j].file
            OBVIOUS
        <3>1. /\ Len(Passed) \in Nat /\ Len(k) \in Nat
              /\ DOMAIN Passed' = 1..(Len(Passed) + Len(k))
              /\ \A n \in 1..Len(Passed) + Len(k) :
                    Passed'[n] = IF n <= Len(Passed) THEN Passed[n] ELSE k[n - Len(Passed)]
            BY <1>1, <1>3
        <3>2. CASE i <= Len(Passed)
            BY <1>3, <1>4, <3>1, <3>2
        <3>3. CASE i > Len(Passed)
            <4>1. i - Len(Passed) \in 1..Len(k) /\ Passed'[i] = k[i - Len(Passed)]
                BY <3>1, <3>3
            <4> QED
                BY <1>4, <4>1
        <3> QED
            BY <3>1, <3>2, <3>3
    <2> QED
        BY <1>1, <1>4, <2>1 DEF InOrder
(* behind the group, a file has all that was ahead of it *)
<1>9. ASSUME NEW f \in File, f # current
      PROVE  /\ Has(Behind, f) <=> Has(Ahead, f)
             /\ Counts(f, Behind) = Counts(f, Ahead)
    <2>1. ~ Has(group, f)
        BY <1>3, <1>9 DEF Has
    <2>2. Has(Behind, f) <=> Has(Ahead, f)
        BY <1>3, <2>1, HasJoined
    <2>3. \A r \in RefsOf(f) : Copies(r, Behind) = Copies(r, Ahead)
        BY <1>7, <1>9 DEF RefsOf
    <2>4. Ahead \in Seq(Ref)
        BY <1>3
    <2>5. /\ Counts(f, Behind) = [r \in RefsOf(f) |-> Copies(r, Behind)]
          /\ Counts(f, Ahead) = [r \in RefsOf(f) |-> Copies(r, Ahead)]
        BY <1>3, <2>4, CountsAre
    <2> QED
        BY <2>2, <2>3, <2>5
<1>10. WholeAhead'
    <2> SUFFICES ASSUME NEW f \in File, Has(Behind, f) PROVE Counts(f, Behind) \in seen[f]
        BY <1>1, <1>2 DEF WholeAhead, Has, Counts
    <2>1. f # current
        BY <1>3
    <2> QED
        BY <1>9, <2>1 DEF Inv, WholeAhead
<1>11. NoDuplicates'
    BY <1>2 DEF Inv, NoDuplicates
<1>12. PassedOnce'
    <2> SUFFICES ASSUME NEW r \in Ref, Copies(r, Passed') > 0
                 PROVE  /\ Copies(r, rows[r.file]) = 0
                        /\ \E counts \in seen[r.file] : counts[r] >= Copies(r, Passed')
        BY <1>2 DEF PassedOnce, Copies, PlacesOf
    <2>1. CASE r.file = current
        <3>1. Copies(r, Passed') = Copies(r, k)
            BY <1>7, <2>1
        <3>2. Copies(r, rows[r.file]) = 0
            BY <3>1
        <3>3. Has(Ahead, current)
            <4>1. Copies(r, group) > 0
                BY <1>7, <3>1
            <4>2. \E i \in DOMAIN group : group[i] = r
                BY <1>3, <4>1, CopiesOf
            <4>3. Has(group, current)
                BY <2>1, <4>2 DEF Has
            <4> QED
                BY <1>3, <4>3, HasJoined
        <3>4. Counts(current, Ahead) \in seen[current]
            BY <1>3, <3>3 DEF Inv, WholeAhead
        <3>5. Counts(current, Ahead)[r] = Copies(r, group)
            <4>1. Ahead \in Seq(Ref)
                BY <1>3
            <4>2. Counts(current, Ahead) = [x \in RefsOf(current) |-> Copies(x, Ahead)]
                BY <4>1, CountsAre
            <4>3. r \in RefsOf(current)
                BY <2>1 DEF RefsOf
            <4>4. Counts(current, Ahead)[r] = Copies(r, Ahead)
                BY <4>2, <4>3
            <4> QED
                BY <1>7, <2>1, <4>4
        <3>6. Counts(current, Ahead)[r] >= Copies(r, Passed')
            BY <1>7, <3>1, <3>5
        <3> QED
            BY <2>1, <3>2, <3>4, <3>6
    <2>2. CASE r.file # current
        <3>1. Copies(r, Passed') = Copies(r, Passed)
            BY <1>7, <2>2
        <3> QED
            BY <3>1 DEF Inv, PassedOnce
    <2> QED
        BY <2>1, <2>2
<1>13. Numbers'
    <2> DEFINE Number(f) == IF f \in DOMAIN numReferences THEN numReferences[f] ELSE 0
               Number2(f) == IF f \in DOMAIN numReferences' THEN numReferences'[f] ELSE 0
    <2> SUFFICES ASSUME NEW f \in File
                 PROVE  Number2(f) = Len(rows[f]) + Len(OfFile(f, Passed'))
        BY <1>2 DEF Numbers, OfFile
    <2>1. Number(f) = Len(rows[f]) + Len(OfFile(f, Passed))
        BY DEF Inv, Numbers
    <2>2. Len(OfFile(f, Passed')) = Len(OfFile(f, Passed)) + Len(OfFile(f, k))
        BY <1>1, <1>3, OfFileJoined
    <2>3. Number2(f) = Number(f) + IF f = current THEN Len(k) ELSE 0
        <3>1. CASE f = current
            BY <3>1 DEF Inv, Types
        <3>2. CASE f # current
            <4>1. f \in DOMAIN numReferences' <=> f \in DOMAIN numReferences
                BY <3>2
            <4>2. Number(f) \in Nat /\ Number2(f) = Number(f)
                BY <3>2, <4>1 DEF Inv, Types
            <4> QED
                BY <3>2, <4>2
        <3> QED
            BY <3>1, <3>2
    <2>4. Len(OfFile(f, k)) = IF f = current THEN Len(k) ELSE 0
        <3>1. CASE f = current
            <4>1. OfFile(f, k) = k
                BY <3>1, OfFileIs
            <4> QED
                BY <3>1, <4>1
        <3>2. CASE f # current
            <4>1. ~ Has(k, f)
                BY <3>2 DEF Has
            <4>2. OfFile(f, k) = <<>>
                BY <4>1, OfFileIs
            <4> QED
                BY <3>2, <4>2
        <3> QED
            BY <3>1, <3>2
    <2>5. Len(rows[f]) \in Nat /\ Len(OfFile(f, Passed)) \in Nat /\ Len(OfFile(f, k)) \in Nat
        <3>1. rows[f] \in Seq(Ref)
            BY DEF Inv, Types
        <3>2. OfFile(f, Passed) \in Seq(Ref) /\ OfFile(f, k) \in Seq(Ref)
            BY <1>3, OfFileIs
        <3> QED
            BY <3>1, <3>2
    <2> HIDE DEF Number, Number2
    <2>6. Number2(f) = Number(f) + Len(OfFile(f, k))
        BY <2>3, <2>4
    <2> DEFINE stored == Len(rows[f])
               passed == Len(OfFile(f, Passed))
               added == Len(OfFile(f, k))
    <2>7. stored \in Nat /\ passed \in Nat /\ added \in Nat
        BY <2>5
    <2>8. Number(f) = stored + passed /\ Len(OfFile(f, Passed')) = passed + added
        BY <2>1, <2>2
    <2>9. Number2(f) = Number(f) + added
        BY <2>6
    <2> HIDE DEF stored, passed, added
    <2>10. Number2(f) = stored + Len(OfFile(f, Passed'))
        BY <2>7, <2>8, <2>9
    <2> QED
        BY <2>10 DEF stored
<1>14. NotLost'
    <2> SUFFICES ASSUME NEW f \in File, Nested(f), NEW counts \in seen[f]
                 PROVE  \/ \A r \in RefsOf(f) : counts[r] > 0 => Copies(r, rows[f]) > 0
                                                                 \/ Copies(r, Passed') > 0
                        \/ Has(Behind, f) /\ counts = Counts(f, Behind)
        <3>1. \A f : Nested(f)' <=> Nested(f)
            BY <1>2 DEF Nested
        <3> QED
            BY <1>1, <1>2, <3>1 DEF NotLost
    <2>1. CASE \A r \in RefsOf(f) : counts[r] > 0 => Copies(r, rows[f]) > 0 \/ Copies(r, Passed) > 0
        BY <1>7, <2>1 DEF RefsOf
    <2>2. CASE Has(Ahead, f) /\ counts = Counts(f, Ahead)
        <3>1. CASE f = current
            <4>1. Ahead \in Seq(Ref)
                BY <1>3
            <4>2. \A r \in RefsOf(f) : counts[r] = Copies(r, Ahead)
                BY <2>2, <4>1, CountsAre
            <4>3. \A r \in RefsOf(f) : counts[r] = Copies(r, group)
                BY <1>7, <3>1, <4>2 DEF RefsOf
            <4>4. \A r \in RefsOf(f) : Copies(r, k) > 0 => Copies(r, Passed') > 0
                BY <1>7 DEF RefsOf
            <4> QED
                BY <3>1, <4>3, <4>4
        <3>2. CASE f # current
            BY <1>9, <2>2, <3>2
        <3> QED
            BY <3>1, <3>2
    <2> QED
        BY <2>1, <2>2 DEF Inv, NotLost
<1> QED
    BY <1>5, <1>6, <1>8, <1>10, <1>11, <1>12, <1>13, <1>14 DEF Inv

LEMMA FirstGroupStep == Inv /\ FirstGroup => Inv'
<1> SUFFICES ASSUME Inv, FirstGroup PROVE Inv'
    OBVIOUS
<1>1. pc = "group" /\ current \notin DOMAIN numReferences /\ Continue(group)
    BY DEF FirstGroup
<1>2. /\ current \in File /\ group \in Seq(Ref)
      /\ \A i \in DOMAIN group : group[i].file = current
    BY <1>1, GroupAhead
<1>3. \A r \in Ref : Copies(r, group) \in Nat
    BY <1>2, CopiesOf
(* the number of a file that is not recorded is 0, and so it has no row *)
<1>4. Len(rows[current]) = 0 /\ rows[current] \in Seq(Ref)
    <2>1. rows[current] \in Seq(Ref)
        BY <1>2 DEF Inv, Types
    <2>2. Passed \in Seq(Ref)
        BY <1>1, GroupAhead
    <2>3. OfFile(current, Passed) \in Seq(Ref)
        BY <2>2, OfFileIs
    <2>4. 0 = Len(rows[current]) + Len(OfFile(current, Passed))
        BY <1>1, <1>2 DEF Inv, Numbers
    <2>5. Len(rows[current]) \in Nat /\ Len(OfFile(current, Passed)) \in Nat
        BY <2>1, <2>3
    <2> QED
        BY <2>1, <2>4, <2>5
<1>5. ASSUME NEW r \in Ref, Copies(r, group) > 0 PROVE Copies(r, rows[r.file]) = 0
    <2>1. PICK i \in DOMAIN group : group[i] = r
        BY <1>2, <1>5, CopiesOf
    <2>2. r.file = current
        BY <1>2, <2>1
    <2>3. rows[current] = <<>>
        BY <1>4
    <2> QED
        BY <2>2, <2>3, NoPlaces DEF Copies
<1>6. /\ numReferences' \in [DOMAIN numReferences \cup {current} -> Nat]
      /\ numReferences'[current] = Len(group)
      /\ \A f \in DOMAIN numReferences \ {current} : numReferences'[f] = numReferences[f]
    <2>1. Len(group) \in Nat
        BY <1>2
    <2>2. \A f \in DOMAIN numReferences : numReferences[f] \in Nat
        BY DEF Inv, Types
    <2>3. numReferences' = [f \in DOMAIN numReferences \cup {current} |->
                               IF f = current THEN Len(group) ELSE numReferences[f]]
        BY DEF FirstGroup
    <2> QED
        BY <2>1, <2>2, <2>3
<1>7. Len(group) = Len(group) + IF current \in DOMAIN numReferences THEN numReferences[current]
                                ELSE 0
    BY <1>1, <1>2
<1>8. \A r \in Ref : Copies(r, group) <= Copies(r, group)
    BY <1>3
<1>9. Nested(current) =>
          \A r \in RefsOf(current) :
              Copies(r, group) > 0 => Copies(r, rows[current]) > 0 \/ Copies(r, group) > 0
    OBVIOUS
<1> DEFINE k == group
<1> HIDE DEF k
<1>10. /\ k \in Seq(Ref) /\ Continue(k) /\ \A i \in DOMAIN k : k[i].file = current
       /\ \A r \in Ref : Copies(r, k) <= Copies(r, group)
       /\ \A r \in Ref : Copies(r, k) > 0 => Copies(r, rows[r.file]) = 0
       /\ Nested(current) =>
            \A r \in RefsOf(current) :
                Copies(r, group) > 0 => Copies(r, rows[current]) > 0 \/ Copies(r, k) > 0
       /\ numReferences'[current] = Len(k) + IF current \in DOMAIN numReferences
                                             THEN numReferences[current] ELSE 0
    BY <1>1, <1>2, <1>5, <1>6, <1>7, <1>8, <1>9 DEF k
<1> QED
    BY <1>1, <1>6, <1>10, LoopStep

LEMMA MismatchStep == Inv /\ Mismatch => Inv'
<1> SUFFICES ASSUME Inv, Mismatch PROVE Inv'
    OBVIOUS
<1> DEFINE k == Selected(Ref \ Range(rows[current]), group)
<1>1. /\ pc = "group" /\ current \in DOMAIN numReferences
      /\ numReferences' = [numReferences EXCEPT ![current] = @ + Len(k)]
      /\ Continue(k)
    BY DEF Mismatch
<1>2. /\ current \in File /\ group \in Seq(Ref)
      /\ \A i \in DOMAIN group : group[i].file = current
    BY <1>1, GroupAhead
<1>3. rows[current] \in Seq(Ref)
    BY <1>2 DEF Inv, Types
<1>4. \A r \in Ref : r \in Range(rows[current]) <=> Copies(r, rows[current]) > 0
    BY <1>3, CopiesOf DEF Range
<1>5. k \in Seq(Ref \cap (Ref \ Range(rows[current])))
    BY <1>2, SelectedType
<1>6. \A r \in Ref : Copies(r, k) = IF r \in Ref \ Range(rows[current]) THEN Copies(r, group) ELSE 0
    BY <1>2, SelectedPlaces DEF Copies
<1> HIDE DEF k
<1>7. k \in Seq(Ref) /\ Len(k) \in Nat
    BY <1>5
<1>8. \A r \in Ref : Copies(r, k) \in Nat /\ Copies(r, group) \in Nat
    BY <1>2, <1>7, CopiesOf
<1>9. \A r \in Ref : Copies(r, k) <= Copies(r, group)
    BY <1>6, <1>8
<1>10. ASSUME NEW i \in DOMAIN k PROVE k[i].file = current
    <2>1. k[i] \in Ref /\ Copies(k[i], k) > 0
        BY <1>7, CopiesOf
    <2>2. Copies(k[i], group) > 0
        BY <1>6, <2>1
    <2>3. \E j \in DOMAIN group : group[j] = k[i]
        BY <1>2, <2>2, CopiesOf
    <2> QED
        BY <1>2, <2>3
<1>11. ASSUME NEW r \in Ref, Copies(r, k) > 0 PROVE Copies(r, rows[r.file]) = 0
    <2>1. r \notin Range(rows[current])
        BY <1>6, <1>11
    <2>2. \E i \in DOMAIN k : k[i] = r
        BY <1>7, <1>11, CopiesOf
    <2>3. r.file = current
        BY <1>10, <2>2
    <2>4. Copies(r, rows[current]) \in Nat
        BY <1>3, CopiesOf
    <2> QED
        BY <1>4, <2>1, <2>3, <2>4
<1>12. \A r \in RefsOf(current) :
          Copies(r, group) > 0 => Copies(r, rows[current]) > 0 \/ Copies(r, k) > 0
    BY <1>4, <1>6 DEF RefsOf
<1>13. /\ numReferences' \in [DOMAIN numReferences \cup {current} -> Nat]
       /\ numReferences'[current] = Len(k) + IF current \in DOMAIN numReferences
                                             THEN numReferences[current] ELSE 0
       /\ \A f \in DOMAIN numReferences \ {current} : numReferences'[f] = numReferences[f]
    <2>1. numReferences \in [DOMAIN numReferences -> Nat]
        BY DEF Inv, Types
    <2>2. DOMAIN numReferences \cup {current} = DOMAIN numReferences
        BY <1>1
    <2>3. numReferences[current] \in Nat
              /\ numReferences'[current] = numReferences[current] + Len(k)
        BY <1>1, <2>1
    <2> QED
        BY <1>1, <1>7, <2>1, <2>2, <2>3
<1> QED
    BY <1>1, <1>7, <1>9, <1>10, <1>11, <1>12, <1>13, LoopStep

(* The shortcut: as many references as are recorded.  If one of them were not stored,
   every result of the file would hold at most what this one does, and the rows could
   not be as many as the group. *)
LEMMA MatchStep == Inv /\ Match => Inv'
<1> SUFFICES ASSUME Inv, Match PROVE Inv'
    OBVIOUS
<1>1. /\ pc = "group" /\ current \in DOMAIN numReferences
      /\ numReferences[current] = Len(group) /\ numReferences' = numReferences
      /\ Continue(<<>>)
    BY DEF Match
<1>2. /\ current \in File /\ group \in Seq(Ref) /\ group # <<>>
      /\ Passed \in Seq(Ref) /\ Behind \in Seq(Ref) /\ Ahead = group \o Behind
      /\ \A i \in DOMAIN group : group[i].file = current
      /\ ~ Has(Passed, current) /\ ~ Has(Behind, current)
    BY <1>1, GroupAhead
<1>3. rows[current] \in Seq(Ref) /\ \A i \in DOMAIN rows[current] : rows[current][i].file = current
    BY <1>2 DEF Inv, Types
<1>4. Len(rows[current]) = Len(group)
    <2>1. OfFile(current, Passed) = <<>>
        BY <1>2, OfFileIs
    <2>2. numReferences[current] = Len(rows[current]) + Len(OfFile(current, Passed))
        BY <1>1, <1>2 DEF Inv, Numbers
    <2>3. Len(rows[current]) \in Nat
        BY <1>3
    <2> QED
        BY <1>1, <2>1, <2>2, <2>3
<1> DEFINE g == Counts(current, Ahead)
<1>5. /\ Ahead \in Seq(Ref) /\ g \in [RefsOf(current) -> Nat]
      /\ \A r \in RefsOf(current) : g[r] = Copies(r, group)
    <2>1. Ahead \in Seq(Ref)
        BY <1>2
    <2>2. g = [r \in RefsOf(current) |-> Copies(r, Ahead)] /\ g \in [RefsOf(current) -> Nat]
        BY <2>1, CountsAre
    <2>3. ASSUME NEW r \in RefsOf(current) PROVE Copies(r, Ahead) = Copies(r, group)
        <3>1. Copies(r, Behind) = 0
            BY <1>2, NoCopies DEF RefsOf
        <3>2. Copies(r, Ahead) = Copies(r, group) + Copies(r, Behind) /\ Copies(r, group) \in Nat
            BY <1>2, CopiesJoined, CopiesOf
        <3> QED
            BY <3>1, <3>2
    <2> QED
        BY <2>1, <2>2, <2>3
<1>6. g \in seen[current] /\ Has(Ahead, current)
    <2>1. Has(group, current)
        BY <1>2 DEF Has
    <2>2. Has(Ahead, current)
        BY <1>2, <2>1, HasJoined
    <2> QED
        BY <1>2, <2>2 DEF Inv, WholeAhead
<1> HIDE DEF g
<1>7. ASSUME Nested(current), NEW x \in RefsOf(current), Copies(x, group) > 0
      PROVE  Copies(x, rows[current]) > 0
    <2> SUFFICES ASSUME ~ (Copies(x, rows[current]) > 0) PROVE FALSE
        OBVIOUS
    <2>1. Copies(x, Passed) = 0
        BY <1>2, NoCopies DEF RefsOf
    <2>2. ASSUME NEW h \in seen[current] PROVE \A r \in RefsOf(current) : h[r] <= g[r]
        <3>1. h \in [RefsOf(current) -> Nat]
            BY <1>2 DEF Inv, Types
        <3>2. CASE h = g
            BY <1>5, <3>2
        <3>3. CASE h # g
            <4>1. \A r \in RefsOf(current) : h[r] > 0 => Copies(r, rows[current]) > 0
                                                         \/ Copies(r, Passed) > 0
                BY <1>2, <1>7, <3>3 DEF Inv, NotLost, g
            <4>2. h[x] = 0
                BY <2>1, <3>1, <4>1
            <4>3. g[x] > 0
                BY <1>5, <1>7
            <4>4. ~ Includes(h, g)
                BY <1>5, <3>1, <4>2, <4>3 DEF Includes
            <4>5. Includes(g, h)
                BY <1>6, <1>7, <4>4 DEF Nested
            <4> QED
                BY <3>1, <4>5 DEF Includes
        <3> QED
            BY <3>2, <3>3
    <2>3. ASSUME NEW r \in Ref
          PROVE  Copies(r, rows[current]) <= Copies(r, group)
        <3>0. Copies(r, rows[current]) \in Nat /\ Copies(r, group) \in Nat
            BY <1>2, <1>3, CopiesOf
        <3>1. CASE Copies(r, rows[current]) = 0
            BY <3>0, <3>1
        <3>2. CASE Copies(r, rows[current]) > 0
            <4>1. PICK h \in seen[current] : r \in DOMAIN h /\ h[r] >= Copies(r, rows[current])
                BY <1>2, <3>2 DEF Inv, NoDuplicates, Copies, PlacesOf
            <4>2. r \in RefsOf(current) /\ h[r] \in Nat
                BY <1>2, <4>1 DEF Inv, Types
            <4>3. h[r] <= Copies(r, group)
                BY <1>5, <2>2, <4>2
            <4> QED
                BY <3>0, <4>1, <4>2, <4>3
        <3> QED
            BY <3>0, <3>1, <3>2
    <2>4. \A r \in Ref : Copies(r, rows[current]) = Copies(r, group)
        <3>1. \A r \in Ref :
                  Cardinality(PlacesOf(r, rows[current])) <= Cardinality(PlacesOf(r, group))
            BY <2>3 DEF Copies
        <3>2. Len(rows[current]) = Len(group) =>
                 \A r \in Ref :
                     Cardinality(PlacesOf(r, rows[current])) = Cardinality(PlacesOf(r, group))
            BY <1>2, <1>3, <3>1, DominatedList
        <3> QED
            BY <1>4, <3>2 DEF Copies
    <2> QED
        BY <1>7, <2>4 DEF RefsOf
<1> DEFINE k == <<>>
<1>8. \A r : Copies(r, <<>>) = 0
    BY NoPlaces DEF Copies
<1>9. /\ k \in Seq(Ref) /\ Continue(k) /\ \A i \in DOMAIN k : k[i].file = current /\ Len(k) = 0
      /\ \A r : Copies(r, k) = 0
    BY <1>1, <1>8
<1>a. Len(k) = 0
    OBVIOUS
<1>10. \A r \in Ref : Copies(r, group) \in Nat
    BY <1>2, CopiesOf
<1> HIDE DEF k
<1>11. /\ \A r \in Ref : Copies(r, k) <= Copies(r, group)
       /\ \A r \in Ref : Copies(r, k) > 0 => Copies(r, rows[r.file]) = 0
       /\ Nested(current) =>
            \A r \in RefsOf(current) :
                Copies(r, group) > 0 => Copies(r, rows[current]) > 0 \/ Copies(r, k) > 0
    BY <1>7, <1>9, <1>10
<1>12. /\ numReferences' \in [DOMAIN numReferences \cup {current} -> Nat]
       /\ numReferences'[current] = Len(k) + IF current \in DOMAIN numReferences
                                             THEN numReferences[current] ELSE 0
       /\ \A f \in DOMAIN numReferences \ {current} : numReferences'[f] = numReferences[f]
    <2>1. numReferences \in [DOMAIN numReferences -> Nat]
        BY DEF Inv, Types
    <2>2. DOMAIN numReferences \cup {current} = DOMAIN numReferences
        BY <1>1
    <2> QED
        BY <1>1, <1>a, <2>1, <2>2
<1> QED
    BY <1>1, <1>9, <1>11, <1>12, LoopStep
-----------------------------------------------------------------------------
LEMMA WholeList ==
    ASSUME NEW q \in Seq(Ref) PROVE SubSeq(q, 1, Len(q)) = q /\ SubSeq(q, 1, 0) = <<>>
<1>1. SubSeq(q, 1, Len(q)) = q
    BY SubSeqFull
<1>2. SubSeq(q, 1, 0) = <<>>
    OBVIOUS
<1> QED
    BY <1>1, <1>2

LEMMA ReceiveStep == Inv /\ Receive => Inv'
<1> SUFFICES ASSUME Inv, Receive PROVE Inv'
    OBVIOUS
<1>1. PICK list \in Result :
          /\ references' = list
          /\ pc' = IF list = <<>> THEN "add" ELSE "sort"
          /\ seen' = [f \in File |-> IF OfFile(f, list) = <<>> THEN seen[f]
                                     ELSE seen[f] \cup {Counts(f, list)}]
    BY DEF Receive
<1>2. /\ pc = "idle" /\ begin' = begin /\ numReferences' = numReferences /\ rows' = rows
      /\ pendingRefs' = pendingRefs /\ references = <<>> /\ begin = 1 /\ pendingRefs = <<>>
    BY DEF Receive, dataVars, Inv, Phases
<1>3. list \in Seq(Ref)
    BY AggregatorAssumption DEF AggregatorAssumption
<1>4. Passed = <<>> /\ Passed' = <<>> /\ Ahead = <<>> /\ Ahead' = list
    <2>1. SubSeq(list, 1, Len(list)) = list /\ SubSeq(list, 1, 0) = <<>>
        BY <1>3, WholeList
    <2>2. SubSeq(<<>>, 1, 0) = <<>>
        OBVIOUS
    <2> QED
        BY <1>1, <1>2, <2>1, <2>2 DEF Passed, Ahead
<1>5. \A f \in File : /\ Has(list, f) => seen'[f] = seen[f] \cup {Counts(f, list)}
                      /\ ~ Has(list, f) => seen'[f] = seen[f]
                      /\ Counts(f, list) \in [RefsOf(f) -> Nat]
    BY <1>1, <1>3, OfFileIs, CountsAre
<1>6. Types'
    <2>1. pc' \in {"add", "sort"} /\ references' \in Seq(Ref) /\ begin' \in 1..Len(references') + 1
        BY <1>1, <1>2, <1>3
    <2>2. ASSUME NEW f \in File, NEW counts \in seen'[f] PROVE counts \in [RefsOf(f) -> Nat]
        <3>1. counts \in seen[f] \/ counts = Counts(f, list)
            BY <1>5
        <3>2. Counts(f, list) \in [RefsOf(f) -> Nat]
            BY <1>5
        <3>3. counts \in seen[f] => counts \in [RefsOf(f) -> Nat]
            BY DEF Inv, Types
        <3> QED
            BY <3>1, <3>2, <3>3
    <2>3. seen' \in [File -> SUBSET UNION {[RefsOf(f) -> Nat] : f \in File}]
        BY <1>1, <1>5, <2>2
    <2> QED
        BY <1>2, <2>1, <2>2, <2>3 DEF Inv, Types
<1>7. Phases' /\ InOrder'
    BY <1>1, <1>2 DEF Phases, InOrder
<1>8. WholeAhead'
    BY <1>4, <1>5 DEF WholeAhead, Has, Counts
<1>9. NoDuplicates'
    <2> SUFFICES ASSUME NEW f \in File, NEW r \in Ref,
                        Cardinality({i \in DOMAIN rows[f] : rows[f][i] = r}) > 0
                 PROVE  \E counts \in seen'[f] :
                           /\ r \in DOMAIN counts
                           /\ counts[r] >= Cardinality({i \in DOMAIN rows[f] : rows[f][i] = r})
        BY <1>2 DEF NoDuplicates
    <2>1. \E counts \in seen[f] : /\ r \in DOMAIN counts
                                  /\ counts[r] >= Cardinality({i \in DOMAIN rows[f] : rows[f][i]
                                             = r})
        BY DEF Inv, NoDuplicates
    <2> QED
        BY <1>5, <2>1
<1>10. PassedOnce'
    <2>1. \A r : Copies(r, Passed') = 0
        BY <1>4, NoPlaces DEF Copies
    <2> QED
        BY <2>1 DEF PassedOnce, Copies
<1>11. Numbers'
    BY <1>2, <1>4 DEF Inv, Numbers, OfFile
<1>12. NotLost'
    <2> SUFFICES ASSUME NEW f \in File, Nested(f)', NEW counts \in seen'[f]
                 PROVE  \/ \A r \in RefsOf(f) : counts[r] > 0 => Copies(r, rows[f]) > 0
                                                                 \/ Copies(r, Passed) > 0
                        \/ Has(list, f) /\ counts = Counts(f, list)
        BY <1>2, <1>4 DEF NotLost
    <2>1. CASE counts \in seen[f]
        <3>1. Nested(f)
            <4>1. seen[f] \subseteq seen'[f]
                BY <1>5
            <4> QED
                BY <4>1 DEF Nested, Includes
        <3>2. ~ Has(Ahead, f)
            BY <1>4 DEF Has
        <3> QED
            BY <2>1, <3>1, <3>2 DEF Inv, NotLost
    <2>2. CASE counts \notin seen[f]
        BY <1>5, <2>2
    <2> QED
        BY <2>1, <2>2
<1> QED
    BY <1>6, <1>7, <1>8, <1>9, <1>10, <1>11, <1>12 DEF Inv

LEMMA SortStep == Inv /\ Sort => Inv'
<1> SUFFICES ASSUME Inv, Sort PROVE Inv'
    OBVIOUS
<1>1. PICK p \in Bijection(DOMAIN references, DOMAIN references) :
          LET sorted == [i \in DOMAIN references |-> references[p[i]]]
          IN  /\ \A i, j \in DOMAIN sorted : i < j => ~Precedes(sorted[j], sorted[i])
              /\ references' = sorted
    BY DEF Sort
<1> DEFINE sorted == [i \in DOMAIN references |-> references[p[i]]]
<1>2. /\ pc = "sort" /\ pc' = "group" /\ begin' = 1 /\ numReferences' = numReferences
      /\ rows' = rows /\ pendingRefs' = pendingRefs /\ seen' = seen /\ references' = sorted
      /\ begin = 1 /\ pendingRefs = <<>> /\ references \in Seq(Ref)
    BY <1>1 DEF Sort, dataVars, Inv, Phases, Types
<1>3. \A i, j \in DOMAIN sorted : i < j => ~Precedes(sorted[j], sorted[i])
    BY <1>1
<1>4. /\ sorted \in Seq(Ref) /\ Len(sorted) = Len(references)
      /\ \A r : Copies(r, sorted) = Copies(r, references)
    BY <1>2, PlacesPermuted DEF Copies
<1> HIDE DEF sorted
<1>5. Passed = <<>> /\ Passed' = <<>> /\ Ahead = references /\ Ahead' = sorted
    <2>1. SubSeq(references, 1, Len(references)) = references /\ SubSeq(references, 1, 0) = <<>>
        BY <1>2, WholeList
    <2>2. SubSeq(sorted, 1, Len(sorted)) = sorted /\ SubSeq(sorted, 1, 0) = <<>>
        BY <1>4, WholeList
    <2> QED
        BY <1>2, <2>1, <2>2 DEF Passed, Ahead
<1>6. ASSUME NEW f \in File
      PROVE  /\ Has(sorted, f) <=> Has(references, f)
             /\ Counts(f, sorted) = Counts(f, references)
    <2>1. Counts(f, sorted) = Counts(f, references)
        <3>1. /\ Counts(f, sorted) = [r \in RefsOf(f) |-> Copies(r, sorted)]
              /\ Counts(f, references) = [r \in RefsOf(f) |-> Copies(r, references)]
            BY <1>2, <1>4, CountsAre
        <3> QED
            BY <1>4, <3>1
    <2>2. \A r : (\E i \in DOMAIN sorted : sorted[i] = r) <=> \E i \in DOMAIN references :
              references[i] = r
        <3> TAKE r
        <3>1. Copies(r, sorted) > 0 <=> \E i \in DOMAIN sorted : sorted[i] = r
            BY <1>4, CopiesOf
        <3>2. Copies(r, references) > 0 <=> \E i \in DOMAIN references : references[i] = r
            BY <1>2, CopiesOf
        <3> QED
            BY <1>4, <3>1, <3>2
    <2> QED
        BY <2>1, <2>2 DEF Has
<1>7. references # <<>>
    BY <1>2 DEF Inv, Phases
<1>8. Types' /\ Phases'
    <2>1. references' # <<>> /\ begin' \in 1..Len(references') + 1 /\ begin' <= Len(references')
        BY <1>2, <1>4, <1>7
    <2> QED
        BY <1>2, <1>4, <2>1 DEF Inv, Types, Phases
<1>9. InOrder'
    <2>1. ASSUME NEW i \in DOMAIN sorted, NEW j \in DOMAIN sorted, i < j
          PROVE  sorted[i].file <= sorted[j].file
        <3>1. ~ (sorted[j].file < sorted[i].file)
            BY <1>3, <2>1 DEF Precedes
        <3>2. sorted[i] \in Ref /\ sorted[j] \in Ref
            BY <1>4
        <3>3. sorted[i].file \in Nat /\ sorted[j].file \in Nat
            BY <3>2, AggregatorAssumption DEF AggregatorAssumption
        <3> QED
            BY <3>1, <3>3
    <2> QED
        BY <1>5, <2>1 DEF InOrder
<1>10. WholeAhead'
    BY <1>2, <1>5, <1>6 DEF Inv, WholeAhead
<1>11. NoDuplicates'
    BY <1>2 DEF Inv, NoDuplicates
<1>12. PassedOnce'
    <2>1. \A r : Copies(r, Passed') = 0
        BY <1>5, NoPlaces DEF Copies
    <2> QED
        BY <2>1 DEF PassedOnce, Copies
<1>13. Numbers'
    BY <1>2, <1>5 DEF Inv, Numbers, OfFile
<1>14. NotLost'
    <2> SUFFICES ASSUME NEW f \in File, Nested(f), NEW counts \in seen[f]
                 PROVE  \/ \A r \in RefsOf(f) : counts[r] > 0 => Copies(r, rows[f]) > 0
                                                                 \/ Copies(r, Passed) > 0
                        \/ Has(sorted, f) /\ counts = Counts(f, sorted)
        <3>1. \A f : Nested(f)' <=> Nested(f)
            BY <1>2 DEF Nested
        <3> QED
            BY <1>2, <1>5, <3>1 DEF NotLost
    <2> QED
        BY <1>5, <1>6 DEF Inv, NotLost
<1> QED
    BY <1>8, <1>9, <1>10, <1>11, <1>12, <1>13, <1>14 DEF Inv

LEMMA AddReferencesStep == Inv /\ AddReferences => Inv'
<1> SUFFICES ASSUME Inv, AddReferences PROVE Inv'
    OBVIOUS
<1>1. /\ pc = "add" /\ pc' = "flush" /\ references' = <<>> /\ begin' = 1
      /\ numReferences' = numReferences /\ rows' = rows /\ seen' = seen
      /\ pendingRefs' = pendingRefs \o references /\ pendingRefs = <<>>
      /\ references \in Seq(Ref) /\ begin = Len(references) + 1
    BY DEF AddReferences, dataVars, Inv, Phases, Types
<1>2. Passed = references /\ Passed' = references /\ Ahead = <<>> /\ Ahead' = <<>>
    <2>1. SubSeq(references, 1, Len(references)) = references
        BY <1>1, WholeList
    <2>2. Len(references) + 1 - 1 = Len(references)
        BY <1>1
    <2>3. SubSeq(references, Len(references) + 1, Len(references)) = <<>>
              /\ SubSeq(<<>>, 1, 0) = <<>>
        BY <1>1
    <2>4. pendingRefs' = references
        BY <1>1
    <2> QED
        BY <1>1, <2>1, <2>2, <2>3, <2>4 DEF Passed, Ahead
<1>3. Types' /\ Phases'
    BY <1>1 DEF Inv, Types, Phases
<1>4. InOrder'
    BY <1>1 DEF InOrder
<1>5. WholeAhead'
    BY <1>2 DEF WholeAhead, Has
<1>6. NoDuplicates'
    BY <1>1 DEF Inv, NoDuplicates
<1>7. PassedOnce'
    BY <1>1, <1>2 DEF Inv, PassedOnce, Copies, PlacesOf
<1>8. Numbers'
    BY <1>1, <1>2 DEF Inv, Numbers, OfFile
<1>9. NotLost'
    <2> SUFFICES ASSUME NEW f \in File, Nested(f), NEW counts \in seen[f]
                 PROVE  \A r \in RefsOf(f) : counts[r] > 0 => Copies(r, rows[f]) > 0
                                                              \/ Copies(r, Passed) > 0
        <3>1. \A f : Nested(f)' <=> Nested(f)
            BY <1>1 DEF Nested
        <3> QED
            BY <1>1, <1>2, <3>1 DEF NotLost
    <2>1. ~ Has(Ahead, f)
        BY <1>2 DEF Has
    <2> QED
        BY <2>1 DEF Inv, NotLost
<1> QED
    BY <1>3, <1>4, <1>5, <1>6, <1>7, <1>8, <1>9 DEF Inv

LEMMA FlushStep == Inv /\ Flush => Inv'
<1> SUFFICES ASSUME Inv, Flush PROVE Inv'
    OBVIOUS
<1>1. /\ pc = "flush" /\ pc' = "idle" /\ references' = <<>> /\ begin' = 1
      /\ numReferences' = numReferences /\ seen' = seen
      /\ rows' = [f \in File |-> rows[f] \o OfFile(f, pendingRefs)] /\ pendingRefs' = <<>>
      /\ pendingRefs \in Seq(Ref) /\ references = <<>> /\ begin = 1
    BY DEF Flush, Inv, Phases, Types
<1>2. Passed = pendingRefs /\ Passed' = <<>> /\ Ahead = <<>> /\ Ahead' = <<>>
    BY <1>1 DEF Passed, Ahead
<1>3. ASSUME NEW f \in File
      PROVE  /\ rows'[f] \in Seq(Ref)
             /\ \A i \in DOMAIN rows'[f] : rows'[f][i].file = f
             /\ Len(rows'[f]) = Len(rows[f]) + Len(OfFile(f, Passed))
             /\ \A r \in Ref : Copies(r, rows'[f])
                                   = Copies(r, rows[f]) + IF r.file = f THEN Copies(r, Passed)
                                                          ELSE 0
    <2> DEFINE o == OfFile(f, Passed)
               q == rows[f]
    <2>1. rows'[f] = q \o o
        BY <1>1, <1>2
    <2>2. /\ q \in Seq(Ref) /\ \A i \in DOMAIN q : q[i].file = f
        BY DEF Inv, Types
    <2>3. /\ o \in Seq(Ref) /\ \A i \in DOMAIN o : o[i].file = f
          /\ \A r \in Ref : Copies(r, o) = IF r.file = f THEN Copies(r, Passed) ELSE 0
        BY <1>1, <1>2, OfFileIs
    <2> HIDE DEF o, q
    <2>4. \A r \in Ref : Copies(r, q \o o) = Copies(r, q) + Copies(r, o)
        BY <2>2, <2>3, CopiesJoined
    <2>5. /\ q \o o \in Seq(Ref) /\ Len(q \o o) = Len(q) + Len(o)
          /\ \A i \in 1..Len(q) + Len(o) :
                (q \o o)[i] = IF i <= Len(q) THEN q[i] ELSE o[i - Len(q)]
        BY <2>2, <2>3, ConcatProperties
    <2>6. ASSUME NEW i \in 1..Len(q) + Len(o) PROVE (q \o o)[i].file = f
        <3>0. Len(q) \in Nat /\ Len(o) \in Nat
            BY <2>2, <2>3
        <3>1. CASE i <= Len(q)
            BY <2>2, <2>5, <3>0, <3>1
        <3>2. CASE i > Len(q)
            <4>1. i - Len(q) \in 1..Len(o) /\ ~ (i <= Len(q))
                BY <3>0, <3>2
            <4>2. (q \o o)[i] = o[i - Len(q)]
                BY <2>5, <4>1
            <4> QED
                BY <2>3, <4>1, <4>2
        <3> QED
            BY <3>0, <3>1, <3>2
    <2>7. DOMAIN (q \o o) = 1..Len(q) + Len(o)
        BY <2>5
    <2> QED
        BY <2>1, <2>3, <2>4, <2>5, <2>6, <2>7 DEF o, q
<1>4. ASSUME NEW f \in File, NEW r \in Ref
      PROVE  Copies(r, rows[f]) \in Nat /\ Copies(r, Passed) \in Nat
    <2>1. rows[f] \in Seq(Ref)
        BY DEF Inv, Types
    <2> QED
        BY <1>1, <1>2, <2>1, CopiesOf
<1>5. Types' /\ Phases'
    <2>1. rows' \in [File -> Seq(Ref)]
        BY <1>1, <1>3
    <2> QED
        BY <1>1, <1>3, <2>1 DEF Inv, Types, Phases
<1>6. InOrder'
    BY <1>1 DEF InOrder
<1>7. WholeAhead'
    BY <1>2 DEF WholeAhead, Has
<1>8. NoDuplicates'
    <2> SUFFICES ASSUME NEW f \in File, NEW r \in Ref, Copies(r, rows'[f]) > 0
                 PROVE  \E counts \in seen[f] : r \in DOMAIN counts
                                                /\ counts[r] >= Copies(r, rows'[f])
        BY <1>1 DEF NoDuplicates, Copies, PlacesOf
    <2>1. CASE r.file = f /\ Copies(r, Passed) > 0
        <3>1. Copies(r, rows[f]) = 0
            BY <2>1 DEF Inv, PassedOnce
        <3>2. PICK counts \in seen[f] : counts[r] >= Copies(r, Passed)
            BY <2>1 DEF Inv, PassedOnce
        <3>3. r \in DOMAIN counts
            BY <2>1 DEF Inv, Types, RefsOf
        <3>4. Copies(r, rows'[f]) = Copies(r, Passed)
            BY <1>3, <1>4, <2>1, <3>1
        <3> QED
            BY <3>2, <3>3, <3>4
    <2>2. CASE ~ (r.file = f /\ Copies(r, Passed) > 0)
        <3>1. Copies(r, rows'[f]) = Copies(r, rows[f])
            BY <1>3, <1>4, <2>2
        <3> QED
            BY <3>1 DEF Inv, NoDuplicates, Copies, PlacesOf
    <2> QED
        BY <2>1, <2>2
<1>9. PassedOnce'
    <2>1. \A r : Copies(r, Passed') = 0
        BY <1>2, NoPlaces DEF Copies
    <2> QED
        BY <2>1 DEF PassedOnce, Copies
<1>10. Numbers'
    <2> SUFFICES ASSUME NEW f \in File
                 PROVE  (IF f \in DOMAIN numReferences THEN numReferences[f] ELSE 0)
                            = Len(rows'[f]) + Len(OfFile(f, <<>>))
        BY <1>1, <1>2 DEF Numbers, OfFile
    <2>1. Len(OfFile(f, <<>>)) = 0
        BY SelectedEmpty DEF OfFile
    <2>2. Len(rows'[f]) \in Nat
        BY <1>3
    <2> QED
        BY <1>3, <2>1, <2>2 DEF Inv, Numbers
<1>11. NotLost'
    <2> SUFFICES ASSUME NEW f \in File, Nested(f), NEW counts \in seen[f],
                        NEW r \in RefsOf(f), counts[r] > 0
                 PROVE  Copies(r, rows'[f]) > 0
        <3>1. \A f : Nested(f)' <=> Nested(f)
            BY <1>1 DEF Nested
        <3> QED
            BY <1>1, <3>1 DEF NotLost
    <2>1. ~ Has(Ahead, f)
        BY <1>2 DEF Has
    <2>2. Copies(r, rows[f]) > 0 \/ Copies(r, Passed) > 0
        BY <2>1 DEF Inv, NotLost
    <2> QED
        BY <1>3, <1>4, <2>2 DEF RefsOf
<1> QED
    BY <1>5, <1>6, <1>7, <1>8, <1>9, <1>10, <1>11 DEF Inv
-----------------------------------------------------------------------------
LEMMA InvStep == Inv /\ [Next]_vars => Inv'
<1> SUFFICES ASSUME Inv, [Next]_vars PROVE Inv'
    OBVIOUS
<1>1. CASE Receive
    BY <1>1, ReceiveStep
<1>2. CASE Sort
    BY <1>2, SortStep
<1>3. CASE FirstGroup
    BY <1>3, FirstGroupStep
<1>4. CASE Mismatch
    BY <1>4, MismatchStep
<1>5. CASE Match
    BY <1>5, MatchStep
<1>6. CASE AddReferences
    BY <1>6, AddReferencesStep
<1>7. CASE Flush
    BY <1>7, FlushStep
<1>8. CASE UNCHANGED vars
    <2>1. /\ pc' = pc /\ references' = references /\ begin' = begin
          /\ numReferences' = numReferences /\ rows' = rows
          /\ pendingRefs' = pendingRefs /\ seen' = seen
        BY <1>8 DEF vars, dataVars
    <2>2. Passed' = Passed /\ Ahead' = Ahead /\ \A f : Nested(f)' <=> Nested(f)
        BY <2>1 DEF Passed, Ahead, Nested
    <2>3. Types' /\ Phases' /\ NoDuplicates'
        <3>1. Types'
            BY <2>1 DEF Inv, Types
        <3>2. Phases'
            BY <2>1 DEF Inv, Phases
        <3>3. NoDuplicates'
            BY <2>1 DEF Inv, NoDuplicates
        <3> QED
            BY <3>1, <3>2, <3>3
    <2>4. InOrder' /\ WholeAhead' /\ PassedOnce' /\ Numbers' /\ NotLost'
        BY <2>1, <2>2 DEF Inv, InOrder, WholeAhead, PassedOnce, Numbers, NotLost
    <2> QED
        BY <2>3, <2>4 DEF Inv
<1> QED
    BY <1>1, <1>2, <1>3, <1>4, <1>5, <1>6, <1>7, <1>8 DEF Next

(* The invariant holds of every execution, whatever the results hold. *)
THEOREM ReduceInvariant == Spec => []Inv
BY InvInit, InvStep, PTL DEF Spec

(* The copies of a reference in the database come from one result. *)
THEOREM NothingStoredTwice == Spec => []NoDuplicates
<1>1. Inv => NoDuplicates
    BY DEF Inv
<1> QED
    BY <1>1, ReduceInvariant, PTL

(* Between two results, the shortcut compares with the number of rows. *)
THEOREM NumbersAreRows == Spec => []CountIsRows
<1>1. Inv => CountIsRows
    <2> SUFFICES ASSUME Inv, pc = "idle", NEW f \in File
                 PROVE  Len(rows[f]) = IF f \in DOMAIN numReferences THEN numReferences[f] ELSE 0
        BY DEF CountIsRows
    <2>1. references = <<>> /\ begin = 1
        BY DEF Inv, Phases
    <2>2. Passed = <<>>
        BY <2>1 DEF Passed
    <2>3. Len(OfFile(f, Passed)) = 0 /\ Len(rows[f]) \in Nat
        BY <2>2, SelectedEmpty DEF OfFile, Inv, Types
    <2>4. (IF f \in DOMAIN numReferences THEN numReferences[f] ELSE 0)
              = Len(rows[f]) + Len(OfFile(f, Passed))
        BY DEF Inv, Numbers
    <2> QED
        BY <2>3, <2>4
<1> QED
    BY <1>1, ReduceInvariant, PTL

(* If what the units see of a file grows or stays alike, every reference seen is a row. *)
THEOREM NestedFilesAreComplete == Spec => []CompleteWhenNested
<1>1. Inv => CompleteWhenNested
    <2> SUFFICES ASSUME Inv, pc = "idle", NEW f \in File, Nested(f)
                 PROVE  Known(f) = Range(rows[f])
        BY DEF CompleteWhenNested
    <2>1. references = <<>> /\ begin = 1
        BY DEF Inv, Phases
    <2>2. Passed = <<>> /\ Ahead = <<>>
        BY <2>1 DEF Passed, Ahead
    <2>3. rows[f] \in Seq(Ref)
        BY DEF Inv, Types
    <2>4. \A r \in Ref : r \in Range(rows[f]) <=> Copies(r, rows[f]) > 0
        BY <2>3, CopiesOf DEF Range
    <2>5. ASSUME NEW r \in Known(f) PROVE r \in Range(rows[f])
        <3>1. PICK counts \in seen[f] : r \in DOMAIN counts /\ counts[r] > 0
            BY <2>5 DEF Known
        <3>2. r \in RefsOf(f)
            BY <3>1 DEF Inv, Types
        <3>3. ~ Has(Ahead, f) /\ Copies(r, Passed) = 0
            BY <2>2, NoPlaces DEF Has, Copies
        <3>4. Copies(r, rows[f]) > 0
            BY <3>1, <3>2, <3>3 DEF Inv, NotLost
        <3> QED
            BY <2>4, <3>2, <3>4 DEF RefsOf
    <2>6. ASSUME NEW r \in Range(rows[f]) PROVE r \in Known(f)
        <3>1. r \in Ref
            BY <2>3, <2>6 DEF Range
        <3>2. Copies(r, rows[f]) > 0 /\ Copies(r, rows[f]) \in Nat
            BY <2>3, <2>4, <2>6, <3>1, CopiesOf
        <3>3. PICK counts \in seen[f] : r \in DOMAIN counts /\ counts[r] >= Copies(r, rows[f])
            BY <3>1, <3>2 DEF Inv, NoDuplicates, Copies, PlacesOf
        <3>4. counts[r] \in Nat
            BY <3>3 DEF Inv, Types
        <3> QED
            BY <3>1, <3>2, <3>3, <3>4 DEF Known
    <2> QED
        BY <2>5, <2>6
<1> QED
    BY <1>1, ReduceInvariant, PTL
==============================================================================
