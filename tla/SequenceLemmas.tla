---------------------------- MODULE SequenceLemmas ----------------------------
(***************************************************************************)
(* Lemmas about queues and lists, for the proofs that no task, poison      *)
(* value, element or result is lost or counted twice: what putting an      *)
(* element in and taking one out do to the queue and to the number of its  *)
(* occurrences, and what selecting elements does.  Selected is defined by  *)
(* recursion; induction is over the set of the numbers, or sequences, that *)
(* have the property.                                                      *)
(***************************************************************************)
EXTENDS Selection, FiniteSets, SequenceTheorems, FunctionTheorems, FiniteSetTheorems,
        NaturalsInduction, WellFoundedInduction, TLAPS

LEMMA HeadAndTail ==
    ASSUME NEW S, NEW q \in Seq(S), q # <<>>
    PROVE  /\ Head(q) \in S /\ Tail(q) \in Seq(S) /\ <<Head(q)>> \in Seq(S)
           /\ <<Head(q)>> \o Tail(q) = q
<1>1. Head(q) \in S /\ Tail(q) \in Seq(S)
    BY HeadTailProperties
<1> QED
    BY <1>1

LEMMA AppendBehind ==
    ASSUME NEW S, NEW q \in Seq(S), NEW r \in Seq(S), NEW x \in S
    PROVE  q \o Append(r, x) = Append(q \o r, x)
<1>1. <<x>> \in Seq(S) /\ q \o r \in Seq(S)
    OBVIOUS
<1>2. Append(r, x) = r \o <<x>> /\ Append(q \o r, x) = (q \o r) \o <<x>>
    BY <1>1, AppendIsConcat
<1> QED
    BY <1>1, <1>2, ConcatAssociative

LEMMA ElementBetween ==
    ASSUME NEW S, NEW q \in Seq(S), NEW r \in Seq(S), NEW x \in S
    PROVE  (q \o <<x>>) \o r = q \o (<<x>> \o r)
<1> DEFINE t == <<x>>
<1>1. t \in Seq(S)
    OBVIOUS
<1> HIDE DEF t
<1>2. (q \o t) \o r = q \o (t \o r)
    BY <1>1, ConcatAssociative
<1> QED
    BY <1>2 DEF t
-----------------------------------------------------------------------------
(* the places of e in queue q *)
PlacesOf(e, q) == {i \in DOMAIN q : q[i] = e}

LEMMA PlacesFinite ==
    ASSUME NEW S, NEW q \in Seq(S), NEW e
    PROVE  IsFiniteSet(PlacesOf(e, q)) /\ Cardinality(PlacesOf(e, q)) \in Nat
<1>1. PlacesOf(e, q) \subseteq 1..Len(q)
    BY DEF PlacesOf
<1>2. IsFiniteSet(1..Len(q))
    BY FS_Interval
<1> QED
    BY <1>1, <1>2, FS_Subset, FS_CardinalityType

LEMMA NoPlaces == ASSUME NEW e PROVE Cardinality(PlacesOf(e, <<>>)) = 0
<1>1. PlacesOf(e, <<>>) = {}
    BY DEF PlacesOf
<1> QED
    BY <1>1, FS_EmptySet

(* An element appended adds its place ... *)
LEMMA PlacesAppended ==
    ASSUME NEW S, NEW q \in Seq(S), NEW x \in S, NEW e
    PROVE  Cardinality(PlacesOf(e, Append(q, x)))
               = Cardinality(PlacesOf(e, q)) + (IF x = e THEN 1 ELSE 0)
<1>1. PlacesOf(e, Append(q, x)) = IF x = e THEN PlacesOf(e, q) \cup {Len(q) + 1} ELSE PlacesOf(e, q)
    BY DEF PlacesOf
<1>2. Len(q) + 1 \notin PlacesOf(e, q)
    BY DEF PlacesOf
<1>3. IsFiniteSet(PlacesOf(e, q)) /\ Cardinality(PlacesOf(e, q)) \in Nat
    BY PlacesFinite
<1>4. Cardinality(PlacesOf(e, q) \cup {Len(q) + 1}) = Cardinality(PlacesOf(e, q)) + 1
    BY <1>2, <1>3, FS_AddElement
<1> QED
    BY <1>1, <1>3, <1>4

(* ... one taken from the front takes its place away and moves the others ... *)
LEMMA PlacesTaken ==
    ASSUME NEW S, NEW q \in Seq(S), q # <<>>, NEW e
    PROVE  Cardinality(PlacesOf(e, Tail(q)))
               = Cardinality(PlacesOf(e, q)) - (IF Head(q) = e THEN 1 ELSE 0)
<1> DEFINE T == PlacesOf(e, q) \ {1}
           f == [i \in PlacesOf(e, Tail(q)) |-> i + 1]
<1>1. f \in Bijection(PlacesOf(e, Tail(q)), T)
    <2>1. \A i \in PlacesOf(e, Tail(q)) : i \in Nat /\ i + 1 \in T
        BY DEF PlacesOf
    <2>2. \A j \in T : j - 1 \in PlacesOf(e, Tail(q))
        BY DEF PlacesOf
    <2>3. f \in [PlacesOf(e, Tail(q)) -> T]
        BY <2>1
    <2>4. \A i, j \in PlacesOf(e, Tail(q)) : f[i] = f[j] => i = j
        BY <2>1
    <2>5. \A j \in T : j - 1 \in PlacesOf(e, Tail(q)) /\ f[j - 1] = j
        BY <2>2 DEF PlacesOf
    <2>6. \A j \in T : \E i \in PlacesOf(e, Tail(q)) : f[i] = j
        BY <2>5
    <2> HIDE DEF f, T
    <2> QED
        BY <2>3, <2>4, <2>6 DEF Bijection, Injection, Surjection, IsInjective
<1>2. ExistsBijection(PlacesOf(e, Tail(q)), T)
    BY <1>1 DEF ExistsBijection
<1>3. Cardinality(PlacesOf(e, Tail(q))) = Cardinality(T)
    <2>1. Tail(q) \in Seq(S)
        OBVIOUS
    <2>2. IsFiniteSet(PlacesOf(e, Tail(q)))
        BY <2>1, PlacesFinite
    <2> HIDE DEF T
    <2> QED
        BY <1>2, <2>2, FS_Bijection
<1>4. 1 \in PlacesOf(e, q) <=> Head(q) = e
    BY DEF PlacesOf
<1>5. IsFiniteSet(PlacesOf(e, q)) /\ Cardinality(PlacesOf(e, q)) \in Nat
    BY PlacesFinite
<1>6. Cardinality(T) = IF 1 \in PlacesOf(e, q) THEN Cardinality(PlacesOf(e, q)) - 1
                       ELSE Cardinality(PlacesOf(e, q))
    BY <1>5, FS_RemoveElement
<1> HIDE DEF T
<1> QED
    BY <1>3, <1>4, <1>5, <1>6

(* ... and the places in two queues, one behind the other, add up. *)
LEMMA PlacesConcatenated ==
    ASSUME NEW S, NEW q \in Seq(S), NEW r \in Seq(S), NEW e
    PROVE  Cardinality(PlacesOf(e, q \o r))
               = Cardinality(PlacesOf(e, q)) + Cardinality(PlacesOf(e, r))
<1> DEFINE T == {i \in DOMAIN (q \o r) : i > Len(q) /\ (q \o r)[i] = e}
           f == [i \in PlacesOf(e, r) |-> i + Len(q)]
<1>a. /\ Len(q) \in Nat /\ Len(r) \in Nat /\ q \o r \in Seq(S)
      /\ DOMAIN (q \o r) = 1..(Len(q) + Len(r)) /\ DOMAIN q = 1..Len(q) /\ DOMAIN r = 1..Len(r)
      /\ \A i \in 1..Len(q) : (q \o r)[i] = q[i]
      /\ \A i \in 1..Len(r) : (q \o r)[i + Len(q)] = r[i]
    OBVIOUS
<1>1. f \in Bijection(PlacesOf(e, r), T)
    <2>1. \A i \in PlacesOf(e, r) : i \in Nat /\ i + Len(q) \in T
        BY <1>a DEF PlacesOf
    <2>2. \A j \in T : j \in Nat /\ j - Len(q) \in PlacesOf(e, r)
        <3> SUFFICES ASSUME NEW j \in T PROVE j \in Nat /\ j - Len(q) \in PlacesOf(e, r)
            OBVIOUS
        <3>1. j \in Nat /\ j - Len(q) \in 1..Len(r) /\ j = (j - Len(q)) + Len(q)
            BY <1>a
        <3>2. (q \o r)[(j - Len(q)) + Len(q)] = r[j - Len(q)]
            BY <1>a, <3>1
        <3> QED
            BY <1>a, <3>1, <3>2 DEF PlacesOf
    <2>3. f \in [PlacesOf(e, r) -> T]
        BY <2>1
    <2>4. \A i, j \in PlacesOf(e, r) : f[i] = f[j] => i = j
        BY <1>a, <2>1
    <2>5. \A j \in T : j - Len(q) \in PlacesOf(e, r) /\ f[j - Len(q)] = j
        BY <1>a, <2>2
    <2>6. \A j \in T : \E i \in PlacesOf(e, r) : f[i] = j
        BY <2>5
    <2> HIDE DEF f, T
    <2> QED
        BY <2>3, <2>4, <2>6 DEF Bijection, Injection, Surjection, IsInjective
<1>2. PlacesOf(e, q \o r) = PlacesOf(e, q) \cup T
    BY <1>a DEF PlacesOf
<1>3. PlacesOf(e, q) \cap T = {}
    BY <1>a DEF PlacesOf
<1>4. ExistsBijection(PlacesOf(e, r), T)
    BY <1>1 DEF ExistsBijection
<1>5. /\ IsFiniteSet(PlacesOf(e, q)) /\ IsFiniteSet(PlacesOf(e, r))
      /\ Cardinality(PlacesOf(e, q)) \in Nat /\ Cardinality(PlacesOf(e, r)) \in Nat
    BY PlacesFinite
<1> HIDE DEF T
<1>6. IsFiniteSet(T) /\ Cardinality(T) = Cardinality(PlacesOf(e, r))
    BY <1>4, <1>5, FS_Bijection
<1>7. Cardinality(PlacesOf(e, q) \cup T)
          = Cardinality(PlacesOf(e, q)) + Cardinality(T) - Cardinality(PlacesOf(e, q) \cap T)
    BY <1>5, <1>6, FS_Union
<1>8. Cardinality(PlacesOf(e, q) \cap T) = 0
    BY <1>3, FS_EmptySet
<1> QED
    BY <1>2, <1>5, <1>6, <1>7, <1>8
-----------------------------------------------------------------------------
LEMMA Least ==
    ASSUME NEW T, T \subseteq Nat, T # {}
    PROVE  \E k \in T : \A j \in T : k <= j
<1> DEFINE R == {p \in Nat \X Nat : p[1] < p[2]}
<1>1. R = OpToRel(<, Nat)
    BY DEF OpToRel
<1>2. IsWellFoundedOn(OpToRel(<, Nat), Nat)
    BY NatLessThanWellFounded
<1>3. IsWellFoundedOn(R, Nat)
    BY <1>1, <1>2
<1> HIDE DEF R
<1>4. PICK k \in T : \A j \in T : <<j, k>> \notin R
    BY <1>3, WFMin
<1>5. \A j \in T : ~ (j < k)
    BY <1>4 DEF R
<1> QED
    BY <1>5

(* A set of numbers that has a bound has a greatest. *)
LEMMA Greatest ==
    ASSUME NEW T, T \subseteq Nat, T # {}, NEW b \in Nat, \A j \in T : j <= b
    PROVE  \E k \in T : \A j \in T : j <= k
<1> DEFINE U == {b - j : j \in T}
<1>1. U \subseteq Nat /\ U # {}
    <2>1. \A j \in T : b - j \in Nat
        OBVIOUS
    <2>2. PICK j \in T : TRUE
        OBVIOUS
    <2>3. b - j \in U
        OBVIOUS
    <2> QED
        BY <2>1, <2>3
<1>2. PICK n \in U : \A u \in U : n <= u
    BY <1>1, Least
<1>3. PICK k \in T : n = b - k
    OBVIOUS
<1>4. ASSUME NEW j \in T PROVE j <= k
    <2>1. n <= b - j
        BY <1>2
    <2> QED
        BY <1>3, <2>1
<1> QED
    BY <1>4

(* A set that has 0 and the successor of each of its numbers has every number. *)
LEMMA NatByInduction ==
    ASSUME NEW T, 0 \in T, \A n \in Nat : n \in T => n + 1 \in T
    PROVE  Nat \subseteq T
<1> SUFFICES ASSUME Nat \ T # {} PROVE FALSE
    OBVIOUS
<1>1. PICK k \in Nat \ T : \A j \in Nat \ T : k <= j
    BY Least
<1>2. k # 0 /\ k - 1 \in Nat /\ (k - 1) + 1 = k
    BY <1>1
<1>3. k - 1 \in T
    BY <1>1, <1>2
<1> QED
    BY <1>1, <1>2, <1>3

(* The function that Selected is defined by. *)
IsSelection(f, S, seq) ==
    f = [n \in 0..Len(seq) |-> IF n = 0 THEN <<>>
                               ELSE IF seq[n] \in S THEN Append(f[n - 1], seq[n])
                               ELSE f[n - 1]]

(* There is one such function, by induction over the length of the sequence. *)
LEMMA SelectionExists ==
    ASSUME NEW S, NEW E
    PROVE  \A n \in Nat : \A seq \in Seq(E) : Len(seq) = n => \E f : IsSelection(f, S, seq)
<1> DEFINE T == {n \in Nat : \A seq \in Seq(E) : Len(seq) = n => \E f : IsSelection(f, S, seq)}
<1>1. 0 \in T
    <2> SUFFICES ASSUME NEW seq \in Seq(E), Len(seq) = 0 PROVE \E f : IsSelection(f, S, seq)
        OBVIOUS
    <2>1. IsSelection([n \in 0..0 |-> <<>>], S, seq)
        BY DEF IsSelection
    <2> QED
        BY <2>1
<1>2. ASSUME NEW n \in Nat, n \in T PROVE n + 1 \in T
    <2> SUFFICES ASSUME NEW seq \in Seq(E), Len(seq) = n + 1 PROVE \E f : IsSelection(f, S, seq)
        OBVIOUS
    <2> DEFINE front == SubSeq(seq, 1, n)
    <2>1. front \in Seq(E) /\ Len(front) = n /\ \A i \in 1..n : front[i] = seq[i]
        OBVIOUS
    <2> HIDE DEF front
    <2>2. PICK f : IsSelection(f, S, front)
        BY <1>2, <2>1
    <2> DEFINE g == [m \in 0..n + 1 |-> IF m <= n THEN f[m]
                                         ELSE IF seq[n + 1] \in S THEN Append(f[n], seq[n + 1])
                                         ELSE f[n]]
    <2>3. \A m \in 0..n : f[m] = IF m = 0 THEN <<>>
                                 ELSE IF seq[m] \in S THEN Append(f[m - 1], seq[m])
                                 ELSE f[m - 1]
        <3> TAKE m \in 0..n
        <3>1. f[m] = IF m = 0 THEN <<>> ELSE IF front[m] \in S THEN Append(f[m - 1], front[m])
                                        ELSE f[m - 1]
            BY <2>1, <2>2 DEF IsSelection
        <3> QED
            BY <2>1, <3>1
    <2>4. \A m \in 0..n + 1 : g[m] = IF m = 0 THEN <<>>
                                     ELSE IF seq[m] \in S THEN Append(g[m - 1], seq[m])
                                     ELSE g[m - 1]
        BY <2>3
    <2>5. IsSelection(g, S, seq)
        <3> HIDE DEF g
        <3> DEFINE h == [m \in 0..Len(seq) |-> IF m = 0 THEN <<>>
                                               ELSE IF seq[m] \in S THEN Append(g[m - 1], seq[m])
                                               ELSE g[m - 1]]
        <3>1. DOMAIN g = 0..n + 1
            BY DEF g
        <3>2. DOMAIN h = 0..n + 1 /\ \A m \in 0..n + 1 : g[m] = h[m]
            BY <2>4
        <3>a. g = [m \in DOMAIN g |-> g[m]] 
            BY DEF g
        <3>b. h = [m \in DOMAIN h |-> h[m]]
            OBVIOUS
        <3>3. g = h
            BY <3>1, <3>2, <3>a, <3>b
        <3> QED
            BY <3>3 DEF IsSelection
    <2> QED
        BY <2>5
<1> HIDE DEF T
<1>3. Nat \subseteq T
    BY <1>1, <1>2, NatByInduction
<1> QED
    BY <1>3 DEF T

LEMMA SelectionFunction ==
    ASSUME NEW S, NEW E, NEW seq \in Seq(E)
    PROVE  \E f : IsSelection(f, S, seq) /\ Selected(S, seq) = f[Len(seq)]
<1> DEFINE f == CHOOSE f : IsSelection(f, S, seq)
<1>1. \E g : IsSelection(g, S, seq)
    <2>1. Len(seq) \in Nat
        OBVIOUS
    <2> QED
        BY <2>1, SelectionExists
<1>2. IsSelection(f, S, seq)
    BY <1>1
<1>3. Selected(S, seq) = f[Len(seq)]
    BY DEF Selected, IsSelection
<1> QED
    BY <1>2, <1>3

(* A longer sequence selects as the shorter one does, as far as this goes. *)
LEMMA SelectionsAgree ==
    ASSUME NEW S, NEW E, NEW seq \in Seq(E), NEW longer \in Seq(E), Len(seq) <= Len(longer),
           \A i \in DOMAIN seq : seq[i] = longer[i],
           NEW f, IsSelection(f, S, seq), NEW g, IsSelection(g, S, longer)
    PROVE  \A n \in 0..Len(seq) : f[n] = g[n]
<1> DEFINE T == {n \in Nat : n <= Len(seq) => f[n] = g[n]}
<1>1. 0 \in T
    BY DEF IsSelection
<1>2. ASSUME NEW n \in Nat, n \in T PROVE n + 1 \in T
    <2> SUFFICES ASSUME n + 1 <= Len(seq) PROVE f[n + 1] = g[n + 1]
        OBVIOUS
    <2>1. f[n] = g[n] /\ n + 1 \in 1..Len(seq) /\ seq[n + 1] = longer[n + 1]
        BY <1>2
    <2>a. /\ n + 1 \in 0..Len(seq) /\ n + 1 \in 0..Len(longer) /\ n + 1 # 0
          /\ (n + 1) - 1 = n
        BY <2>1
    <2>2. f[n + 1] = IF seq[n + 1] \in S THEN Append(f[n], seq[n + 1]) ELSE f[n]
        BY <2>a DEF IsSelection
    <2>3. g[n + 1] = IF longer[n + 1] \in S THEN Append(g[n], longer[n + 1]) ELSE g[n]
        BY <2>a DEF IsSelection
    <2> QED
        BY <2>1, <2>2, <2>3
<1> HIDE DEF T
<1>3. Nat \subseteq T
    BY <1>1, <1>2, NatByInduction
<1> QED
    BY <1>3 DEF T

LEMMA SelectedEmpty == ASSUME NEW S PROVE Selected(S, <<>>) = <<>>
<1>1. <<>> \in Seq({}) /\ Len(<<>>) = 0
    OBVIOUS
<1>2. PICK f : IsSelection(f, S, <<>>) /\ Selected(S, <<>>) = f[Len(<<>>)]
    BY <1>1, SelectionFunction
<1>3. f[0] = <<>>
    BY <1>1, <1>2 DEF IsSelection
<1> QED
    BY <1>1, <1>2, <1>3

LEMMA SelectedAppend ==
    ASSUME NEW S, NEW E, NEW seq \in Seq(E), NEW e \in E
    PROVE  Selected(S, Append(seq, e)) = IF e \in S THEN Append(Selected(S, seq), e)
                                         ELSE Selected(S, seq)
<1> DEFINE longer == Append(seq, e)
<1>1. /\ longer \in Seq(E) /\ Len(longer) = Len(seq) + 1 /\ longer[Len(seq) + 1] = e
      /\ Len(seq) \in Nat /\ \A i \in DOMAIN seq : seq[i] = longer[i]
    OBVIOUS
<1> HIDE DEF longer
<1>2. PICK f : IsSelection(f, S, seq) /\ Selected(S, seq) = f[Len(seq)]
    BY SelectionFunction
<1>3. PICK g : IsSelection(g, S, longer) /\ Selected(S, longer) = g[Len(longer)]
    BY <1>1, SelectionFunction
<1>4. Len(seq) <= Len(longer) /\ Len(seq) \in 0..Len(seq)
    BY <1>1
<1>5. f[Len(seq)] = g[Len(seq)]
    BY <1>1, <1>2, <1>3, <1>4, SelectionsAgree
<1>6. g[Len(seq) + 1] = IF e \in S THEN Append(g[Len(seq)], e) ELSE g[Len(seq)]
    <2>1. /\ Len(seq) + 1 \in 0..Len(longer) /\ Len(seq) + 1 # 0
          /\ (Len(seq) + 1) - 1 = Len(seq) 
        BY <1>1
    <2> QED
        BY <1>1, <1>3, <2>1 DEF IsSelection
<1> QED
    BY <1>1, <1>2, <1>3, <1>5, <1>6 DEF longer

(* A set of sequences that has the empty one, and each of its sequences with one element
   more, has every sequence. *)
LEMMA SeqByInduction ==
    ASSUME NEW E, NEW T, <<>> \in T,
           \A seq \in Seq(E) : seq \in T => \A e \in E : Append(seq, e) \in T
    PROVE  Seq(E) \subseteq T
<1> DEFINE N == {n \in Nat : \A seq \in Seq(E) : Len(seq) = n => seq \in T}
<1>1. 0 \in N
    OBVIOUS
<1>2. ASSUME NEW n \in Nat, n \in N PROVE n + 1 \in N
    <2> SUFFICES ASSUME NEW seq \in Seq(E), Len(seq) = n + 1 PROVE seq \in T
        OBVIOUS
    <2> DEFINE front == SubSeq(seq, 1, n)
    <2>1. /\ front \in Seq(E) /\ Len(front) = n /\ seq[n + 1] \in E
          /\ seq = Append(front, seq[n + 1])
        OBVIOUS
    <2> HIDE DEF front
    <2>2. front \in T
        BY <1>2, <2>1
    <2> QED
        BY <2>1, <2>2
<1> HIDE DEF N
<1>3. Nat \subseteq N
    BY <1>1, <1>2, NatByInduction
<1>4. \A seq \in Seq(E) : Len(seq) \in Nat
    OBVIOUS
<1> QED
    BY <1>3, <1>4 DEF N

LEMMA SelectedType ==
    ASSUME NEW S, NEW E, NEW seq \in Seq(E)
    PROVE  Selected(S, seq) \in Seq(E \cap S)
<1> DEFINE T == {s \in Seq(E) : Selected(S, s) \in Seq(E \cap S)}
<1>1. <<>> \in T
    <2>1. <<>> \in Seq(E) /\ <<>> \in Seq(E \cap S)
        OBVIOUS
    <2> QED
        BY <2>1, SelectedEmpty
<1>2. ASSUME NEW s \in Seq(E), s \in T, NEW e \in E PROVE Append(s, e) \in T
    <2>1. Selected(S, Append(s, e)) = IF e \in S THEN Append(Selected(S, s), e) ELSE Selected(S, s)
        BY SelectedAppend
    <2>2. Append(s, e) \in Seq(E)
        OBVIOUS
    <2>3. e \in S => Append(Selected(S, s), e) \in Seq(E \cap S)
        BY <1>2
    <2> QED
        BY <1>2, <2>1, <2>2, <2>3
<1> HIDE DEF T
<1>3. Seq(E) \subseteq T
    BY <1>1, <1>2, SeqByInduction
<1> QED
    BY <1>3 DEF T

LEMMA SelectedConcat ==
    ASSUME NEW S, NEW E, NEW q \in Seq(E), NEW r \in Seq(E)
    PROVE  Selected(S, q \o r) = Selected(S, q) \o Selected(S, r)
<1> DEFINE T == {s \in Seq(E) : Selected(S, q \o s) = Selected(S, q) \o Selected(S, s)}
<1>1. <<>> \in T
    <2>1. q \o <<>> = q
        OBVIOUS
    <2>2. Selected(S, q) \in Seq(E \cap S)
        BY SelectedType
    <2>3. Selected(S, q) \o <<>> = Selected(S, q)
        BY <2>2
    <2>4. <<>> \in Seq(E)
        OBVIOUS
    <2> QED
        BY <2>1, <2>3, <2>4, SelectedEmpty
<1>2. ASSUME NEW s \in Seq(E), s \in T, NEW e \in E PROVE Append(s, e) \in T
    <2>1. q \o Append(s, e) = Append(q \o s, e) /\ q \o s \in Seq(E) /\ Append(s, e) \in Seq(E)
        <3>1. q \o Append(s, e) = Append(q \o s, e)
            BY AppendBehind
        <3> QED
            BY <3>1
    <2>2. Selected(S, Append(q \o s, e))
              = IF e \in S THEN Append(Selected(S, q \o s), e) ELSE Selected(S, q \o s)
        <3> DEFINE qs == q \o s
        <3>1. qs \in Seq(E)
            BY <2>1
        <3> HIDE DEF qs
        <3>2. Selected(S, Append(qs, e)) = IF e \in S THEN Append(Selected(S, qs), e)
                                           ELSE Selected(S, qs)
            BY <3>1, SelectedAppend
        <3> QED
            BY <3>2 DEF qs
    <2>3. Selected(S, Append(s, e)) = IF e \in S THEN Append(Selected(S, s), e) ELSE Selected(S, s)
        BY SelectedAppend
    <2>4. /\ Selected(S, q) \in Seq(E) /\ Selected(S, s) \in Seq(E)
        <3>1. Selected(S, q) \in Seq(E \cap S) /\ Selected(S, s) \in Seq(E \cap S)
            BY SelectedType
        <3> QED
            BY <3>1
    <2>5. Selected(S, q) \o Append(Selected(S, s), e) = Append(Selected(S, q) \o Selected(S, s), e)
        BY <2>4, AppendBehind
    <2> QED
        BY <1>2, <2>1, <2>2, <2>3, <2>5
<1> HIDE DEF T
<1>3. Seq(E) \subseteq T
    BY <1>1, <1>2, SeqByInduction
<1> QED
    BY <1>3 DEF T

(* The first element taken away: the first of the selected ones, or none of them. *)
LEMMA SelectedTail ==
    ASSUME NEW S, NEW E, NEW q \in Seq(E), q # <<>>
    PROVE  Selected(S, q) = IF Head(q) \in S THEN <<Head(q)>> \o Selected(S, Tail(q))
                            ELSE Selected(S, Tail(q))
<1>1. /\ Head(q) \in E /\ Tail(q) \in Seq(E) /\ <<Head(q)>> \in Seq(E)
      /\ <<Head(q)>> \o Tail(q) = q
    BY HeadAndTail
<1>2. Selected(S, q) = Selected(S, <<Head(q)>>) \o Selected(S, Tail(q))
    <2> DEFINE first == <<Head(q)>>
               rest == Tail(q)
    <2>1. first \in Seq(E) /\ rest \in Seq(E) /\ first \o rest = q
        BY <1>1
    <2> HIDE DEF first, rest
    <2>2. Selected(S, first \o rest) = Selected(S, first) \o Selected(S, rest)
        BY <2>1, SelectedConcat
    <2> QED
        BY <2>1, <2>2 DEF first, rest
<1>3. <<>> \in Seq(E) /\ Append(<<>>, Head(q)) = <<Head(q)>>
    BY <1>1
<1>4. Selected(S, <<Head(q)>>) = IF Head(q) \in S THEN <<Head(q)>> ELSE <<>>
    <2>1. Selected(S, Append(<<>>, Head(q)))
              = IF Head(q) \in S THEN Append(Selected(S, <<>>), Head(q)) ELSE Selected(S, <<>>)
        <3> DEFINE none == <<>>
        <3>1. none \in Seq(E)
            BY <1>3
        <3> HIDE DEF none
        <3>2. Selected(S, Append(none, Head(q)))
                  = IF Head(q) \in S THEN Append(Selected(S, none), Head(q)) ELSE Selected(S, none)
            BY <1>1, <3>1, SelectedAppend
        <3> QED
            BY <3>2 DEF none
    <2> QED
        BY <1>3, <2>1, SelectedEmpty
<1>5. Selected(S, Tail(q)) \in Seq(E \cap S)
    BY <1>1, SelectedType
<1>6. <<>> \o Selected(S, Tail(q)) = Selected(S, Tail(q))
    BY <1>5
<1> QED
    BY <1>2, <1>4, <1>6

(* Nothing selected is lost or counted twice. *)
LEMMA SelectedPlaces ==
    ASSUME NEW S, NEW E, NEW seq \in Seq(E), NEW e
    PROVE  Cardinality(PlacesOf(e, Selected(S, seq)))
               = IF e \in S THEN Cardinality(PlacesOf(e, seq)) ELSE 0
<1> DEFINE T == {s \in Seq(E) : Cardinality(PlacesOf(e, Selected(S, s)))
                                    = IF e \in S THEN Cardinality(PlacesOf(e, s)) ELSE 0}
<1>1. <<>> \in T
    <2>1. <<>> \in Seq(E)
        OBVIOUS
    <2> QED
        BY <2>1, SelectedEmpty, NoPlaces
<1>2. ASSUME NEW s \in Seq(E), s \in T, NEW x \in E PROVE Append(s, x) \in T
    <2>1. Selected(S, Append(s, x)) = IF x \in S THEN Append(Selected(S, s), x) ELSE Selected(S, s)
        BY SelectedAppend
    <2>2. Selected(S, s) \in Seq(E \cap S)
        BY SelectedType
    <2>3. x \in S => Cardinality(PlacesOf(e, Append(Selected(S, s), x)))
                         = Cardinality(PlacesOf(e, Selected(S, s))) + (IF x = e THEN 1 ELSE 0)
        BY <2>2, PlacesAppended
    <2>4. Cardinality(PlacesOf(e, Append(s, x)))
              = Cardinality(PlacesOf(e, s)) + (IF x = e THEN 1 ELSE 0)
        BY PlacesAppended
    <2>5. Cardinality(PlacesOf(e, s)) \in Nat
        BY PlacesFinite
    <2>6. Append(s, x) \in Seq(E) /\ (e \notin S => ~ (x \in S /\ x = e))
        OBVIOUS
    <2>7. Cardinality(PlacesOf(e, Selected(S, s))) \in Nat
        BY <2>2, PlacesFinite
    <2>8. CASE x \in S
        <3>1. Cardinality(PlacesOf(e, Selected(S, Append(s, x))))
                  = Cardinality(PlacesOf(e, Selected(S, s))) + (IF x = e THEN 1 ELSE 0)
            BY <2>1, <2>3, <2>8
        <3> HIDE DEF T
        <3>2. Cardinality(PlacesOf(e, Selected(S, s)))
                  = IF e \in S THEN Cardinality(PlacesOf(e, s)) ELSE 0
            BY <1>2 DEF T
        <3>3. Cardinality(PlacesOf(e, Selected(S, Append(s, x))))
                  = IF e \in S THEN Cardinality(PlacesOf(e, Append(s, x))) ELSE 0
            BY <2>4, <2>5, <2>8, <3>1, <3>2
        <3> QED
            BY <2>6, <3>3 DEF T
    <2>9. CASE x \notin S
        BY <1>2, <2>1, <2>4, <2>5, <2>6, <2>9
    <2> QED
        BY <2>8, <2>9
<1> HIDE DEF T
<1>3. Seq(E) \subseteq T
    BY <1>1, <1>2, SeqByInduction
<1> QED
    BY <1>3 DEF T

(* What is selected is what the sequence has of the set. *)
LEMMA SelectedElements ==
    ASSUME NEW S, NEW E, NEW seq \in Seq(E)
    PROVE  {Selected(S, seq)[i] : i \in DOMAIN Selected(S, seq)}
               = {seq[i] : i \in DOMAIN seq} \cap S
<1> SUFFICES ASSUME NEW e
             PROVE  (\E i \in DOMAIN Selected(S, seq) : Selected(S, seq)[i] = e)
                        <=> (\E i \in DOMAIN seq : seq[i] = e) /\ e \in S
    OBVIOUS
<1>1. Selected(S, seq) \in Seq(E)
    <2>1. Selected(S, seq) \in Seq(E \cap S)
        BY SelectedType
    <2> QED
        BY <2>1
<1>2. /\ IsFiniteSet(PlacesOf(e, seq)) /\ IsFiniteSet(PlacesOf(e, Selected(S, seq)))
    BY <1>1, PlacesFinite
<1>3. /\ Cardinality(PlacesOf(e, seq)) = 0 <=> PlacesOf(e, seq) = {}
      /\ Cardinality(PlacesOf(e, Selected(S, seq))) = 0 <=> PlacesOf(e, Selected(S, seq)) = {}
    BY <1>2, FS_EmptySet
<1>4. PlacesOf(e, Selected(S, seq)) # {} <=> PlacesOf(e, seq) # {} /\ e \in S
    BY <1>3, SelectedPlaces
<1> QED
    BY <1>4 DEF PlacesOf

LEMMA SelectedAll ==
    ASSUME NEW S, NEW E, NEW seq \in Seq(E), \A i \in DOMAIN seq : seq[i] \in S
    PROVE  Selected(S, seq) = seq
<1> DEFINE T == {s \in Seq(E \cap S) : Selected(S, s) = s}
<1>1. <<>> \in T
    <2>1. <<>> \in Seq(E \cap S)
        OBVIOUS
    <2> QED
        BY <2>1, SelectedEmpty
<1>2. ASSUME NEW s \in Seq(E \cap S), s \in T, NEW e \in E \cap S PROVE Append(s, e) \in T
    <2>1. Selected(S, Append(s, e)) = Append(Selected(S, s), e)
        BY SelectedAppend
    <2>2. Append(s, e) \in Seq(E \cap S)
        OBVIOUS
    <2> QED
        BY <1>2, <2>1, <2>2
<1> HIDE DEF T
<1>3. Seq(E \cap S) \subseteq T
    BY <1>1, <1>2, SeqByInduction
<1>4. seq \in Seq(E \cap S)
    OBVIOUS
<1> QED
    BY <1>3, <1>4 DEF T

LEMMA SelectedNone ==
    ASSUME NEW S, NEW E, NEW seq \in Seq(E), \A i \in DOMAIN seq : seq[i] \notin S
    PROVE  Selected(S, seq) = <<>>
<1>1. seq \in Seq(E \ S)
    OBVIOUS
<1>2. Selected(S, seq) \in Seq((E \ S) \cap S)
    BY <1>1, SelectedType
<1> QED
    BY <1>2

LEMMA Halves ==
    ASSUME NEW E, NEW q \in Seq(E), NEW k \in 1..Len(q) + 1
    PROVE  /\ SubSeq(q, 1, k - 1) \in Seq(E) /\ Len(SubSeq(q, 1, k - 1)) = k - 1
           /\ \A i \in 1..k - 1 : SubSeq(q, 1, k - 1)[i] = q[i]
           /\ SubSeq(q, k, Len(q)) \in Seq(E) /\ Len(SubSeq(q, k, Len(q))) = Len(q) - k + 1
           /\ \A i \in 1..Len(q) - k + 1 : SubSeq(q, k, Len(q))[i] = q[k + i - 1]
           /\ SubSeq(q, 1, k - 1) \o SubSeq(q, k, Len(q)) = q
<1> DEFINE p == SubSeq(q, 1, k - 1)
           s == SubSeq(q, k, Len(q))
<1>1. p \in Seq(E) /\ Len(p) = k - 1 /\ \A i \in 1..k - 1 : p[i] = q[i]
    OBVIOUS
<1>2. s \in Seq(E) /\ Len(s) = Len(q) - k + 1
    OBVIOUS
<1>3. \A i \in 1..Len(q) - k + 1 : s[i] = q[k + i - 1]
    OBVIOUS
<1> HIDE DEF p, s
<1> DEFINE ps == p \o s
<1>4. /\ ps \in Seq(E) /\ Len(ps) = Len(p) + Len(s)
      /\ \A i \in 1..Len(p) + Len(s) : ps[i] = IF i <= Len(p) THEN p[i] ELSE s[i - Len(p)]
    BY <1>1, <1>2, ConcatProperties
<1> HIDE DEF ps
<1>a. Len(p) + Len(s) = Len(q)
    BY <1>1, <1>2
<1>5. \A i \in 1..Len(q) : ps[i] = q[i]
    <2> TAKE i \in 1..Len(q)
    <2>0. i \in Nat /\ k \in Nat /\ Len(q) \in Nat
        OBVIOUS
    <2>1. CASE i < k
        <3>1. i \in 1..k - 1 /\ i <= Len(p)
            BY <1>1, <2>0, <2>1
        <3> QED
            BY <1>1, <1>4, <1>a, <3>1
    <2>2. CASE i >= k
        <3>a. i \in 1..Len(p) + Len(s)
            BY <1>a
        <3>b. ~ (i <= Len(p))
            BY <1>1, <2>0, <2>2
        <3>1. ps[i] = s[i - Len(p)]
            BY <1>4, <3>a, <3>b
        <3>2. i - Len(p) \in 1..Len(q) - k + 1 /\ k + (i - Len(p)) - 1 = i
            BY <1>1, <2>0, <2>2
        <3> QED
            BY <1>3, <3>1, <3>2
    <2> QED
        BY <2>0, <2>1, <2>2
<1>6. ps = q
    BY <1>4, <1>5, <1>a, SeqEqual
<1> QED
    BY <1>1, <1>2, <1>3, <1>6 DEF p, s, ps

(* Two lists joined and taken apart again. *)
LEMMA JoinedCut ==
    ASSUME NEW E, NEW a \in Seq(E), NEW b \in Seq(E)
    PROVE  SubSeq(a \o b, 1, Len(a)) = a /\ SubSeq(a \o b, Len(a) + 1, Len(a \o b)) = b
<1> DEFINE ab == a \o b
           p == SubSeq(ab, 1, Len(a))
           s == SubSeq(ab, Len(a) + 1, Len(ab))
<1>1. /\ ab \in Seq(E) /\ Len(ab) = Len(a) + Len(b) /\ Len(a) \in Nat /\ Len(b) \in Nat
      /\ \A i \in 1..Len(a) : ab[i] = a[i]
      /\ \A i \in 1..Len(b) : ab[Len(a) + i] = b[i]
    OBVIOUS
<1> HIDE DEF ab
<1>2. /\ p \in Seq(E) /\ Len(p) = Len(a) /\ \A i \in 1..Len(a) : p[i] = ab[i]
      /\ s \in Seq(E) /\ Len(s) = Len(b) /\ \A i \in 1..Len(b) : s[i] = ab[Len(a) + i]
    <2> DEFINE k == Len(a) + 1
    <2>1. k \in 1..Len(ab) + 1 /\ k - 1 = Len(a) /\ Len(ab) - k + 1 = Len(b)
        BY <1>1
    <2>2. \A i \in 1..Len(b) : k + i - 1 = Len(a) + i
        BY <1>1
    <2> HIDE DEF k
    <2>3. /\ SubSeq(ab, 1, k - 1) \in Seq(E) /\ Len(SubSeq(ab, 1, k - 1)) = k - 1
          /\ \A i \in 1..k - 1 : SubSeq(ab, 1, k - 1)[i] = ab[i]
          /\ SubSeq(ab, k, Len(ab)) \in Seq(E) /\ Len(SubSeq(ab, k, Len(ab))) = Len(ab) - k + 1
          /\ \A i \in 1..Len(ab) - k + 1 : SubSeq(ab, k, Len(ab))[i] = ab[k + i - 1]
        BY <1>1, <2>1, Halves
    <2>4. p = SubSeq(ab, 1, k - 1) /\ s = SubSeq(ab, k, Len(ab))
        BY <2>1 DEF k
    <2> HIDE DEF p, s
    <2> QED
        BY <2>1, <2>2, <2>3, <2>4
<1> HIDE DEF p, s
<1>3. p = a
    BY <1>1, <1>2, SeqEqual
<1>4. s = b
    BY <1>1, <1>2, SeqEqual
<1> QED
    BY <1>3, <1>4 DEF p, s, ab

(* One place taken out of a list. *)
LEMMA PlaceRemoved ==
    ASSUME NEW E, NEW b \in Seq(E), NEW k \in DOMAIN b
    PROVE  \E c \in Seq(E) :
              /\ Len(c) = Len(b) - 1
              /\ \A e : Cardinality(PlacesOf(e, b))
                            = Cardinality(PlacesOf(e, c)) + (IF b[k] = e THEN 1 ELSE 0)
<1> DEFINE p == SubSeq(b, 1, k - 1)
           s == SubSeq(b, k + 1, Len(b))
           x == b[k]
<1>1. /\ p \in Seq(E) /\ s \in Seq(E) /\ x \in E
      /\ Len(p \o s) = Len(b) - 1
      /\ b = Append(p, x) \o s
    <2>1. k \in 1..Len(b) + 1 /\ k + 1 \in 1..Len(b) + 1 /\ (k + 1) - 1 = k /\ Len(b) \in Nat
        OBVIOUS
    <2>2. /\ p \in Seq(E) /\ Len(p) = k - 1 /\ \A i \in 1..k - 1 : p[i] = b[i]
          /\ s \in Seq(E) /\ Len(s) = Len(b) - (k + 1) + 1
          /\ SubSeq(b, 1, k) \in Seq(E) /\ Len(SubSeq(b, 1, k)) = k
          /\ \A i \in 1..k : SubSeq(b, 1, k)[i] = b[i]
          /\ SubSeq(b, 1, k) \o s = b
        <3> HIDE DEF p, s
        <3>1. /\ p \in Seq(E) /\ Len(p) = k - 1 /\ \A i \in 1..k - 1 : p[i] = b[i]
            BY <2>1, Halves DEF p
        <3>2. /\ SubSeq(b, 1, (k + 1) - 1) \in Seq(E)
              /\ Len(SubSeq(b, 1, (k + 1) - 1)) = (k + 1) - 1
              /\ \A i \in 1..(k + 1) - 1 : SubSeq(b, 1, (k + 1) - 1)[i] = b[i]
              /\ s \in Seq(E) /\ Len(s) = Len(b) - (k + 1) + 1
              /\ SubSeq(b, 1, (k + 1) - 1) \o s = b
            BY <2>1, Halves DEF s
        <3> QED
            BY <2>1, <3>1, <3>2
    <2> HIDE DEF p, s
    <2>3. Append(p, x) = SubSeq(b, 1, k)
        <3>1. SubSeq(b, 1, k) = SubSeq(b, 1, k - 1) \o <<b[k]>>
            <4>1. /\ 1 \in 1..Len(b) /\ k \in 1..Len(b) /\ b \in Seq(E) /\ 1 <= k
                  /\ \A i, j \in 1..Len(b) : i <= j
                         => SubSeq(b, i, j) = SubSeq(b, i, j - 1) \o <<b[j]>>
                BY SubSeqRecursiveSecond
            <4> QED
                BY <4>1
        <3>2. Append(p, x) = p \o <<x>>
            <4>1. p \in Seq(E) /\ x \in E
                BY <2>2
            <4> HIDE DEF x
            <4> QED
                BY <4>1, AppendIsConcat
        <3> QED
            BY <3>1, <3>2 DEF p
    <2> HIDE DEF x
    <2>4. Len(p \o s) = Len(p) + Len(s)
        BY <2>2, ConcatProperties
    <2>5. Len(p) = k - 1 /\ Len(s) = Len(b) - (k + 1) + 1
        BY <2>2
    <2>6. Len(p) + Len(s) = Len(b) - 1
        BY <2>1, <2>5, SMTT(30)
    <2>7. p \in Seq(E) /\ s \in Seq(E) /\ x \in E
        BY <2>2 DEF x
    <2>8. b = Append(p, x) \o s
        BY <2>2, <2>3
    <2> QED
        BY <2>4, <2>6, <2>7, <2>8
<1> HIDE DEF p, s, x
<1>2. /\ Append(p, x) \in Seq(E) /\ p \o s \in Seq(E)
    BY <1>1
<1>3. ASSUME NEW e
      PROVE  Cardinality(PlacesOf(e, b))
                 = Cardinality(PlacesOf(e, p \o s)) + (IF x = e THEN 1 ELSE 0)
    <2> DEFINE px == Append(p, x)
    <2>1. Cardinality(PlacesOf(e, px)) = Cardinality(PlacesOf(e, p)) + (IF x = e THEN 1 ELSE 0)
        BY <1>1, PlacesAppended
    <2>2. px \in Seq(E) /\ b = px \o s
        BY <1>1, <1>2
    <2> HIDE DEF px
    <2>3. Cardinality(PlacesOf(e, px \o s))
              = Cardinality(PlacesOf(e, px)) + Cardinality(PlacesOf(e, s))
        BY <1>1, <2>2, PlacesConcatenated
    <2>4. Cardinality(PlacesOf(e, p \o s))
              = Cardinality(PlacesOf(e, p)) + Cardinality(PlacesOf(e, s))
        BY <1>1, PlacesConcatenated
    <2>5. /\ Cardinality(PlacesOf(e, p)) \in Nat /\ Cardinality(PlacesOf(e, s)) \in Nat
        BY <1>1, PlacesFinite
    <2> QED
        BY <2>1, <2>2, <2>3, <2>4, <2>5
<1> QED
    BY <1>1, <1>2, <1>3 DEF x

(* A list that has each element at most as often as another is no longer, and when it is
   as long it has each element as often. *)
LEMMA DominatedList ==
    ASSUME NEW E, NEW a \in Seq(E), NEW b \in Seq(E),
           \A e \in E : Cardinality(PlacesOf(e, a)) <= Cardinality(PlacesOf(e, b))
    PROVE  /\ Len(a) <= Len(b)
           /\ Len(a) = Len(b) =>
                 \A e \in E : Cardinality(PlacesOf(e, a)) = Cardinality(PlacesOf(e, b))
<1> DEFINE Below(q, r) == \A e \in E : Cardinality(PlacesOf(e, q)) <= Cardinality(PlacesOf(e, r))
           Same(q, r) == \A e \in E : Cardinality(PlacesOf(e, q)) = Cardinality(PlacesOf(e, r))
           T == {q \in Seq(E) : \A r \in Seq(E) :
                    Below(q, r) => Len(q) <= Len(r) /\ (Len(q) = Len(r) => Same(q, r))}
<1>1. <<>> \in T
    <2> SUFFICES ASSUME NEW r \in Seq(E)
                 PROVE  Len(<<>>) <= Len(r) /\ (Len(<<>>) = Len(r) => Same(<<>>, r))
        BY DEF Same
    <2>1. Len(<<>>) = 0 /\ Len(r) \in Nat /\ (Len(r) = 0 => r = <<>>)
        OBVIOUS
    <2> QED
        BY <2>1
<1>2. ASSUME NEW q \in Seq(E), q \in T, NEW x \in E PROVE Append(q, x) \in T
    <2> SUFFICES ASSUME NEW r \in Seq(E), Below(Append(q, x), r)
                 PROVE  /\ Len(Append(q, x)) <= Len(r)
                        /\ Len(Append(q, x)) = Len(r) => Same(Append(q, x), r)
        OBVIOUS
    <2> HIDE DEF T
    <2>1. \A e \in E : /\ Cardinality(PlacesOf(e, Append(q, x)))
                              = Cardinality(PlacesOf(e, q)) + (IF x = e THEN 1 ELSE 0)
                       /\ Cardinality(PlacesOf(e, q)) \in Nat
                       /\ Cardinality(PlacesOf(e, r)) \in Nat
        BY PlacesAppended, PlacesFinite
    <2>2. Cardinality(PlacesOf(x, r)) # 0
        BY <2>1
    <2>3. PlacesOf(x, r) # {}
        BY <2>2, FS_EmptySet
    <2>4. PICK k \in DOMAIN r : r[k] = x
        BY <2>3 DEF PlacesOf
    <2>5. PICK c \in Seq(E) :
              /\ Len(c) = Len(r) - 1
              /\ \A e : Cardinality(PlacesOf(e, r))
                            = Cardinality(PlacesOf(e, c)) + (IF x = e THEN 1 ELSE 0)
        BY <2>4, PlaceRemoved
    <2>6. \A e \in E : Cardinality(PlacesOf(e, c)) \in Nat
        BY PlacesFinite
    <2>7. Below(q, c)
        <3> SUFFICES ASSUME NEW e \in E
                     PROVE  Cardinality(PlacesOf(e, q)) <= Cardinality(PlacesOf(e, c))
            OBVIOUS
        <3>1. Cardinality(PlacesOf(e, Append(q, x))) <= Cardinality(PlacesOf(e, r))
            OBVIOUS
        <3>2. Cardinality(PlacesOf(e, Append(q, x)))
                  = Cardinality(PlacesOf(e, q)) + (IF x = e THEN 1 ELSE 0)
            BY <2>1
        <3>3. Cardinality(PlacesOf(e, r)) = Cardinality(PlacesOf(e, c)) + (IF x = e THEN 1 ELSE 0)
            BY <2>5
        <3>4. Cardinality(PlacesOf(e, q)) \in Nat /\ Cardinality(PlacesOf(e, c)) \in Nat
            BY <2>1, <2>6
        <3> QED
            BY <3>1, <3>2, <3>3, <3>4
    <2>8. Len(q) <= Len(c) /\ (Len(q) = Len(c) => Same(q, c))
        BY <1>2, <2>7 DEF T
    <2>9. Len(Append(q, x)) = Len(q) + 1 /\ Len(q) \in Nat /\ Len(c) \in Nat /\ Len(r) = Len(c) + 1
        BY <2>5
    <2>10. Same(q, c) => Same(Append(q, x), r)
        BY <2>1, <2>5
    <2> QED
        BY <2>8, <2>9, <2>10
<1> HIDE DEF T
<1>3. Seq(E) \subseteq T
    BY <1>1, <1>2, SeqByInduction
<1> QED
    BY <1>3 DEF T

(* A list put in another order has each element as often as before. *)
LEMMA PlacesPermuted ==
    ASSUME NEW E, NEW q \in Seq(E), NEW p \in Bijection(DOMAIN q, DOMAIN q), NEW e
    PROVE  LET r == [i \in DOMAIN q |-> q[p[i]]]
           IN  r \in Seq(E) /\ Len(r) = Len(q)
               /\ Cardinality(PlacesOf(e, r)) = Cardinality(PlacesOf(e, q))
<1> DEFINE r == [i \in DOMAIN q |-> q[p[i]]]
           f == [i \in PlacesOf(e, r) |-> p[i]]
<1>1. /\ p \in [DOMAIN q -> DOMAIN q]
      /\ \A i, j \in DOMAIN q : p[i] = p[j] => i = j
      /\ \A j \in DOMAIN q : \E i \in DOMAIN q : p[i] = j
    BY DEF Bijection, Injection, Surjection, IsInjective
<1>2. r \in Seq(E) /\ Len(r) = Len(q) /\ DOMAIN r = DOMAIN q
    BY <1>1
<1>3. f \in Bijection(PlacesOf(e, r), PlacesOf(e, q))
    <2>1. f \in [PlacesOf(e, r) -> PlacesOf(e, q)]
        BY <1>1 DEF PlacesOf
    <2>2. \A i, j \in PlacesOf(e, r) : f[i] = f[j] => i = j
        BY <1>1 DEF PlacesOf
    <2>3. \A j \in PlacesOf(e, q) : \E i \in PlacesOf(e, r) : f[i] = j
        BY <1>1 DEF PlacesOf
    <2> HIDE DEF f
    <2> QED
        BY <2>1, <2>2, <2>3 DEF Bijection, Injection, Surjection, IsInjective
<1>4. ExistsBijection(PlacesOf(e, r), PlacesOf(e, q))
    BY <1>3 DEF ExistsBijection
<1> HIDE DEF r
<1>5. IsFiniteSet(PlacesOf(e, r))
    BY <1>2, PlacesFinite
<1>6. Cardinality(PlacesOf(e, r)) = Cardinality(PlacesOf(e, q))
    BY <1>4, <1>5, FS_Bijection
<1> QED
    BY <1>2, <1>6 DEF r

LEMMA Appended ==
    ASSUME NEW E, NEW q \in Seq(E), NEW x \in E
    PROVE  /\ Append(q, x) \in Seq(E) /\ Len(Append(q, x)) = Len(q) + 1 /\ Len(q) \in Nat
           /\ DOMAIN q = 1..Len(q) /\ DOMAIN Append(q, x) = 1..Len(q) + 1
           /\ Append(q, x)[Len(q) + 1] = x
           /\ \A i \in 1..Len(q) : Append(q, x)[i] = q[i]
OBVIOUS

(* Every element selected is one of the sequence, in its place among them. *)
LEMMA SelectedFrom ==
    ASSUME NEW S, NEW E, NEW seq \in Seq(E)
    PROVE  \E f \in [DOMAIN Selected(S, seq) -> DOMAIN seq] :
              /\ \A i \in DOMAIN Selected(S, seq) : Selected(S, seq)[i] = seq[f[i]]
              /\ \A i, j \in DOMAIN Selected(S, seq) : i < j => f[i] < f[j]
<1> DEFINE From(q, f) ==
               /\ f \in [DOMAIN Selected(S, q) -> DOMAIN q]
               /\ \A i \in DOMAIN Selected(S, q) : Selected(S, q)[i] = q[f[i]]
               /\ \A i, j \in DOMAIN Selected(S, q) : i < j => f[i] < f[j]
           T == {q \in Seq(E) : \E f : From(q, f)}
<1>1. <<>> \in T
    <2>1. Selected(S, <<>>) = <<>>
        BY SelectedEmpty
    <2>2. From(<<>>, <<>>)
        BY <2>1
    <2>3. <<>> \in Seq(E)
        OBVIOUS
    <2> HIDE DEF From
    <2> QED
        BY <2>2, <2>3
<1>2. ASSUME NEW q \in Seq(E), q \in T, NEW x \in E PROVE Append(q, x) \in T
    <2> DEFINE q1 == Append(q, x)
               s == Selected(S, q)
    <2>1. PICK f : From(q, f)
        BY <1>2
    <2>2. /\ q1 \in Seq(E) /\ DOMAIN q1 = 1..Len(q) + 1 /\ q1[Len(q) + 1] = x /\ Len(q) \in Nat
          /\ DOMAIN q = 1..Len(q) /\ \A i \in 1..Len(q) : q1[i] = q[i]
        BY Appended
    <2>3. s \in Seq(E)
        <3>1. s \in Seq(E \cap S)
            BY SelectedType
        <3> HIDE DEF s
        <3> QED
            BY <3>1
    <2>4. Selected(S, q1) = IF x \in S THEN Append(s, x) ELSE s
        BY SelectedAppend
    <2>5. f \in [DOMAIN s -> 1..Len(q)] /\ (\A i \in DOMAIN s : s[i] = q[f[i]])
          /\ (\A i, j \in DOMAIN s : i < j => f[i] < f[j])
        BY <2>1, <2>2
    <2> HIDE DEF q1, s
    <2>6. CASE x \notin S
        <3>1. From(q1, f)
            BY <2>2, <2>4, <2>5, <2>6
        <3> QED
            BY <2>2, <3>1 DEF q1
    <2>7. CASE x \in S
        <3> DEFINE g == [i \in 1..Len(s) + 1 |-> IF i <= Len(s) THEN f[i] ELSE Len(q) + 1]
                   s1 == Append(s, x)
        <3>1. /\ s1 \in Seq(E) /\ DOMAIN s1 = 1..Len(s) + 1 /\ s1[Len(s) + 1] = x /\ Len(s) \in Nat
              /\ DOMAIN s = 1..Len(s) /\ \A i \in 1..Len(s) : s1[i] = s[i]
            BY <2>3, Appended
        <3> HIDE DEF s1
        <3>2. g \in [1..Len(s) + 1 -> 1..Len(q) + 1]
            BY <2>2, <2>5, <3>1
        <3>3. g[Len(s) + 1] = Len(q) + 1 /\ \A i \in 1..Len(s) : g[i] = f[i] /\ f[i] \in 1..Len(q)
            <4>1. \A i \in 1..Len(s) : f[i] \in 1..Len(q)
                BY <2>5, <3>1
            <4>2. Len(s) + 1 \in 1..Len(s) + 1 /\ ~(Len(s) + 1 <= Len(s))
                BY <3>1
            <4>3. \A i \in 1..Len(s) : i \in 1..Len(s) + 1 /\ i <= Len(s)
                BY <3>1
            <4> QED
                BY <4>1, <4>2, <4>3
        <3> HIDE DEF g
        <3>4. \A i \in 1..Len(s) + 1 : i \in 1..Len(s) \/ i = Len(s) + 1
            BY <3>1
        <3>5. \A i \in 1..Len(s) + 1 : s1[i] = q1[g[i]]
            BY <2>2, <2>5, <3>1, <3>3, <3>4, ZenonT(30)
        <3>6. ASSUME NEW i \in 1..Len(s) + 1, NEW j \in 1..Len(s) + 1, i < j PROVE g[i] < g[j]
            <4>1. CASE j \in 1..Len(s)
                <5>1. i \in 1..Len(s)
                    BY <3>1, <3>6, <4>1
                <5>2. f[i] < f[j]
                    BY <2>5, <3>1, <3>6, <4>1, <5>1
                <5> QED
                    BY <3>3, <4>1, <5>1, <5>2
            <4>2. CASE j = Len(s) + 1
                BY <2>2, <3>1, <3>3, <3>6, <4>2, SMTT(30)
            <4> QED
                BY <3>4, <4>1, <4>2
        <3>7. From(q1, g)
            BY <2>2, <2>4, <2>7, <3>1, <3>2, <3>5, <3>6 DEF s1
        <3> QED
            BY <2>2, <3>7 DEF q1
    <2> QED
        BY <2>6, <2>7
<1> HIDE DEF T
<1>3. Seq(E) \subseteq T
    BY <1>1, <1>2, SeqByInduction
<1> QED
    BY <1>3 DEF T

(* What is added comes behind what is there. *)
LEMMA Concatenated ==
    ASSUME NEW E, NEW q \in Seq(E), NEW r \in Seq(E)
    PROVE  /\ q \o r \in Seq(E) /\ Len(q \o r) = Len(q) + Len(r)
           /\ DOMAIN (q \o r) = 1..Len(q) + Len(r)
           /\ \A i \in 1..Len(q) : (q \o r)[i] = q[i]
           /\ \A i \in 1..Len(r) : (q \o r)[Len(q) + i] = r[i]
OBVIOUS

(* Only the elements of the sequence matter to what is selected. *)
LEMMA SelectedAlike ==
    ASSUME NEW S, NEW S2, NEW E, NEW seq \in Seq(E),
           \A i \in DOMAIN seq : seq[i] \in S <=> seq[i] \in S2
    PROVE  Selected(S, seq) = Selected(S2, seq)
<1>1. PICK f : IsSelection(f, S, seq) /\ Selected(S, seq) = f[Len(seq)]
    BY SelectionFunction
<1>2. PICK g : IsSelection(g, S2, seq) /\ Selected(S2, seq) = g[Len(seq)]
    BY SelectionFunction
<1> DEFINE h == [n \in 0..Len(seq) |-> IF n = 0 THEN <<>>
                                       ELSE IF seq[n] \in S2 THEN Append(f[n - 1], seq[n])
                                       ELSE f[n - 1]]
<1>3. \A n \in 0..Len(seq) : f[n] = h[n]
    <2> TAKE n \in 0..Len(seq)
    <2>1. f[n] = IF n = 0 THEN <<>> ELSE IF seq[n] \in S THEN Append(f[n - 1], seq[n]) ELSE f[n - 1]
        BY <1>1 DEF IsSelection
    <2>2. n # 0 => n \in DOMAIN seq
        OBVIOUS
    <2> QED
        BY <2>1, <2>2
<1>4. IsSelection(f, S2, seq)
    <2>1. f = [n \in 0..Len(seq) |-> f[n]]
        BY <1>1 DEF IsSelection
    <2>2. f = h
        BY <1>3, <2>1
    <2> QED
        BY <2>2 DEF IsSelection
<1>5. \A n \in 0..Len(seq) : f[n] = g[n]
    <2>1. Len(seq) <= Len(seq)
        OBVIOUS
    <2> QED
        BY <1>2, <1>4, <2>1, SelectionsAgree
<1> QED
    BY <1>1, <1>2, <1>5
-----------------------------------------------------------------------------
(* The function that Folded is defined by. *)
IsFolding(f, step, first, seq) ==
    f = [n \in 0..Len(seq) |-> IF n = 0 THEN first ELSE step[<<f[n - 1], seq[n]>>]]

(* There is one, and the one of a longer list agrees with it as far as it goes. *)
LEMMA FoldingExists ==
    ASSUME NEW step, NEW first, NEW E
    PROVE  \A n \in Nat : \A seq \in Seq(E) : Len(seq) = n => \E f : IsFolding(f, step, first, seq)
<1> DEFINE T == {n \in Nat : \A seq \in Seq(E) :
                               Len(seq) = n => \E f : IsFolding(f, step, first, seq)}
<1>1. 0 \in T
    <2> SUFFICES ASSUME NEW seq \in Seq(E), Len(seq) = 0 PROVE \E f : IsFolding(f, step, first, seq)
        OBVIOUS
    <2>1. IsFolding([n \in 0..0 |-> first], step, first, seq)
        BY DEF IsFolding
    <2> QED
        BY <2>1
<1>2. ASSUME NEW n \in Nat, n \in T PROVE n + 1 \in T
    <2> SUFFICES ASSUME NEW seq \in Seq(E), Len(seq) = n + 1
                 PROVE \E f : IsFolding(f, step, first, seq)
        OBVIOUS
    <2> DEFINE front == SubSeq(seq, 1, n)
    <2>1. front \in Seq(E) /\ Len(front) = n /\ \A i \in 1..n : front[i] = seq[i]
        OBVIOUS
    <2> HIDE DEF front
    <2>2. PICK f : IsFolding(f, step, first, front)
        BY <1>2, <2>1
    <2> DEFINE g == [m \in 0..n + 1 |-> IF m <= n THEN f[m] ELSE step[<<f[n], seq[n + 1]>>]]
    <2>3. \A m \in 0..n : f[m] = IF m = 0 THEN first ELSE step[<<f[m - 1], seq[m]>>]
        <3> TAKE m \in 0..n
        <3>1. f[m] = IF m = 0 THEN first ELSE step[<<f[m - 1], front[m]>>]
            BY <2>1, <2>2 DEF IsFolding
        <3> QED
            BY <2>1, <3>1
    <2>4. \A m \in 0..n + 1 : g[m] = IF m = 0 THEN first ELSE step[<<g[m - 1], seq[m]>>]
        <3> TAKE m \in 0..n + 1
        <3>1. CASE m <= n
            <4>1. m \in 0..n /\ g[m] = f[m] /\ (m # 0 => m - 1 \in 0..n + 1 /\ m - 1 <= n)
                BY <3>1
            <4>2. m # 0 => g[m - 1] = f[m - 1]
                BY <4>1
            <4> QED
                BY <2>3, <4>1, <4>2
        <3>2. CASE m = n + 1
            <4>1. n \in 0..n + 1 /\ m - 1 = n /\ m # 0 /\ ~(m <= n)
                BY <3>2
            <4>2. g[m - 1] = f[n]
                BY <4>1
            <4>3. g[m] = step[<<f[n], seq[n + 1]>>]
                BY <4>1
            <4> QED
                BY <3>2, <4>1, <4>2, <4>3
        <3> QED
            BY <3>1, <3>2
    <2>5. IsFolding(g, step, first, seq)
        <3> HIDE DEF g
        <3> DEFINE h == [m \in 0..Len(seq) |-> IF m = 0 THEN first ELSE step[<<g[m - 1], seq[m]>>]]
        <3>1. DOMAIN g = 0..n + 1
            BY DEF g
        <3>2. DOMAIN h = 0..n + 1 /\ \A m \in 0..n + 1 : g[m] = h[m]
            BY <2>4
        <3>3. g = [m \in DOMAIN g |-> g[m]]
            BY DEF g
        <3>4. h = [m \in DOMAIN h |-> h[m]]
            OBVIOUS
        <3>5. g = h
            BY <3>1, <3>2, <3>3, <3>4
        <3> QED
            BY <3>5 DEF IsFolding
    <2> QED
        BY <2>5
<1> HIDE DEF T
<1>3. Nat \subseteq T
    BY <1>1, <1>2, NatByInduction
<1> QED
    BY <1>3 DEF T

LEMMA FoldingFunction ==
    ASSUME NEW step, NEW first, NEW E, NEW seq \in Seq(E)
    PROVE  \E f : IsFolding(f, step, first, seq) /\ Folded(step, first, seq) = f[Len(seq)]
<1> DEFINE f == CHOOSE f : IsFolding(f, step, first, seq)
<1>1. \E g : IsFolding(g, step, first, seq)
    <2>1. Len(seq) \in Nat
        OBVIOUS
    <2> QED
        BY <2>1, FoldingExists
<1>2. IsFolding(f, step, first, seq)
    BY <1>1
<1>3. Folded(step, first, seq) = f[Len(seq)]
    BY DEF Folded, IsFolding
<1> QED
    BY <1>2, <1>3

LEMMA FoldingsAgree ==
    ASSUME NEW step, NEW first, NEW E, NEW seq \in Seq(E), NEW longer \in Seq(E),
           Len(seq) <= Len(longer), \A i \in DOMAIN seq : seq[i] = longer[i],
           NEW f, IsFolding(f, step, first, seq), NEW g, IsFolding(g, step, first, longer)
    PROVE  \A n \in 0..Len(seq) : f[n] = g[n]
<1> DEFINE T == {n \in Nat : n <= Len(seq) => f[n] = g[n]}
<1>1. 0 \in T
    BY DEF IsFolding
<1>2. ASSUME NEW n \in Nat, n \in T PROVE n + 1 \in T
    <2> SUFFICES ASSUME n + 1 <= Len(seq) PROVE f[n + 1] = g[n + 1]
        OBVIOUS
    <2>1. f[n] = g[n] /\ n + 1 \in 1..Len(seq) /\ seq[n + 1] = longer[n + 1]
        BY <1>2
    <2>2. /\ n + 1 \in 0..Len(seq) /\ n + 1 \in 0..Len(longer) /\ n + 1 # 0
          /\ (n + 1) - 1 = n
        BY <2>1
    <2>3. f[n + 1] = step[<<f[n], seq[n + 1]>>]
        BY <2>2 DEF IsFolding
    <2>4. g[n + 1] = step[<<g[n], longer[n + 1]>>]
        BY <2>2 DEF IsFolding
    <2> QED
        BY <2>1, <2>3, <2>4
<1> HIDE DEF T
<1>3. Nat \subseteq T
    BY <1>1, <1>2, NatByInduction
<1> QED
    BY <1>3 DEF T

(* Folded takes one element after the other. *)
LEMMA FoldedNone == ASSUME NEW step, NEW first PROVE Folded(step, first, <<>>) = first
<1>1. <<>> \in Seq({}) /\ Len(<<>>) = 0
    OBVIOUS
<1>2. PICK f : IsFolding(f, step, first, <<>>) /\ Folded(step, first, <<>>) = f[Len(<<>>)]
    BY <1>1, FoldingFunction
<1>3. f[0] = first
    BY <1>1, <1>2 DEF IsFolding
<1> QED
    BY <1>1, <1>2, <1>3

LEMMA FoldedAppend ==
    ASSUME NEW step, NEW first, NEW E, NEW seq \in Seq(E), NEW e \in E
    PROVE  Folded(step, first, Append(seq, e)) = step[<<Folded(step, first, seq), e>>]
<1> DEFINE longer == Append(seq, e)
<1>1. /\ longer \in Seq(E) /\ Len(longer) = Len(seq) + 1 /\ longer[Len(seq) + 1] = e
      /\ Len(seq) \in Nat /\ \A i \in DOMAIN seq : seq[i] = longer[i]
    OBVIOUS
<1> HIDE DEF longer
<1>2. PICK f : IsFolding(f, step, first, seq) /\ Folded(step, first, seq) = f[Len(seq)]
    BY FoldingFunction
<1>3. PICK g : IsFolding(g, step, first, longer) /\ Folded(step, first, longer) = g[Len(longer)]
    BY <1>1, FoldingFunction
<1>4. f[Len(seq)] = g[Len(seq)]
    <2>1. Len(seq) <= Len(longer) /\ Len(seq) \in 0..Len(seq)
        BY <1>1
    <2>2. longer \in Seq(E) /\ \A i \in DOMAIN seq : seq[i] = longer[i]
        BY <1>1
    <2>3. IsFolding(f, step, first, seq) /\ IsFolding(g, step, first, longer)
        BY <1>2, <1>3
    <2> QED
        BY <2>1, <2>2, <2>3, FoldingsAgree
<1> DEFINE m == Len(seq) + 1
<1>5. g[m] = step[<<g[m - 1], longer[m]>>]
    <2>1. m \in 0..Len(longer) /\ m # 0
        BY <1>1
    <2> HIDE DEF m
    <2>2. g = [n \in 0..Len(longer) |-> IF n = 0 THEN first ELSE step[<<g[n - 1], longer[n]>>]]
        BY <1>3 DEF IsFolding
    <2> QED
        BY <2>1, <2>2
<1>6. (Len(seq) + 1) - 1 = Len(seq)
    BY <1>1
<1> QED
    BY <1>1, <1>2, <1>3, <1>4, <1>5, <1>6 DEF longer

(* A fold whose steps keep to a set ends in it. *)
LEMMA FoldedType ==
    ASSUME NEW step, NEW T, NEW first \in T, NEW E, NEW seq \in Seq(E),
           \A t \in T, e \in E : step[<<t, e>>] \in T
    PROVE  Folded(step, first, seq) \in T
<1> DEFINE S == {s \in Seq(E) : Folded(step, first, s) \in T}
<1>1. <<>> \in S
    BY FoldedNone
<1>2. ASSUME NEW s \in Seq(E), s \in S, NEW e \in E PROVE Append(s, e) \in S
    <2>1. Folded(step, first, Append(s, e)) = step[<<Folded(step, first, s), e>>]
        BY FoldedAppend
    <2>2. Append(s, e) \in Seq(E)
        OBVIOUS
    <2> QED
        BY <1>2, <2>1, <2>2
<1> HIDE DEF S
<1>3. Seq(E) \subseteq S
    BY <1>1, <1>2, SeqByInduction
<1> QED
    BY <1>3 DEF S

(* What a cut does with each element. *)
CutStep(sep, parts, e) ==
    IF e = sep THEN Append(parts, <<>>) ELSE [parts EXCEPT ![Len(parts)] = Append(@, e)]

LEMMA CutIs ==
    ASSUME NEW T, NEW sep, NEW seq
    PROVE  Cut(T, sep, seq) = Folded([p \in Seq(Seq(T)) \X T |-> CutStep(sep, p[1], p[2])], << <<>> >>, seq)
BY DEF Cut, CutStep

(* There is always a part, and each element ends one or goes to the last one. *)
LEMMA CutMore ==
    ASSUME NEW T, NEW sep \in T, NEW seq \in Seq(T)
    PROVE  /\ Cut(T, sep, seq) \in Seq(Seq(T)) /\ Cut(T, sep, seq) # <<>>
           /\ \A e \in T : Cut(T, sep, Append(seq, e)) = CutStep(sep, Cut(T, sep, seq), e)
<1> DEFINE Part == Seq(T)
           step == [p \in Seq(Part) \X T |-> CutStep(sep, p[1], p[2])]
           first == << <<>> >>
           D == Seq(Part) \ {<<>>}
<1>1. ASSUME NEW parts \in D, NEW e \in T PROVE CutStep(sep, parts, e) \in D
    <2>1. CASE e = sep
        <3>1. <<>> \in Part /\ CutStep(sep, parts, e) = Append(parts, <<>>)
            BY <2>1 DEF CutStep
        <3> HIDE DEF Part
        <3>2. ASSUME NEW part \in Part PROVE Append(parts, part) \in D
            OBVIOUS
        <3> QED
            BY <3>1, <3>2
    <2>2. CASE e # sep
        <3>1. Len(parts) \in DOMAIN parts
            <4> HIDE DEF Part
            <4>1. Len(parts) # 0 /\ Len(parts) \in Nat
                OBVIOUS
            <4> QED
                BY <4>1
        <3> DEFINE last == parts[Len(parts)]
        <3>2. last \in Part
            BY <3>1
        <3> HIDE DEF last
        <3>3. Append(last, e) \in Part
            BY <3>2
        <3> HIDE DEF Part
        <3>4. [parts EXCEPT ![Len(parts)] = Append(last, e)] \in D
            BY <3>1, <3>3
        <3> QED
            BY <2>2, <3>4 DEF CutStep, last
    <2> QED
        BY <2>1, <2>2
<1>2. ASSUME NEW parts \in Seq(Part), NEW e \in T PROVE step[<<parts, e>>] = CutStep(sep, parts, e)
    OBVIOUS
<1>3. first \in D
    OBVIOUS
<1> HIDE DEF first, step
<1>4. ASSUME NEW q \in Seq(T), NEW e \in T
      PROVE  Folded(step, first, Append(q, e)) = step[<<Folded(step, first, q), e>>]
    BY FoldedAppend
<1>5. \A parts \in D, e \in T : step[<<parts, e>>] \in D
    BY <1>1, <1>2
<1>6. \A q \in Seq(T) : Cut(T, sep, q) = Folded(step, first, q)
    BY CutIs DEF first, step
<1> HIDE DEF D
<1>7. Folded(step, first, seq) \in D
    BY <1>3, <1>5, FoldedType
<1>8. ASSUME NEW e \in T PROVE Cut(T, sep, Append(seq, e)) = CutStep(sep, Cut(T, sep, seq), e)
    <2>1. Append(seq, e) \in Seq(T)
        OBVIOUS
    <2>2. step[<<Folded(step, first, seq), e>>] = CutStep(sep, Folded(step, first, seq), e)
        BY <1>2, <1>7 DEF D
    <2> QED
        BY <1>4, <1>6, <2>1, <2>2
<1> QED
    BY <1>6, <1>7, <1>8 DEF D

(* A sequence without separators goes to the last part. *)
LEMMA CutBehind ==
    ASSUME NEW T, NEW sep \in T, NEW seq \in Seq(T), NEW s \in Seq(T \ {sep})
    PROVE  Cut(T, sep, seq \o s) = [Cut(T, sep, seq) EXCEPT ![Len(Cut(T, sep, seq))] = @ \o s]
<1> DEFINE parts == Cut(T, sep, seq)
           N == Len(parts)
           Plain == Seq(T \ {sep})
           Done == {q \in Plain : Cut(T, sep, seq \o q) = [parts EXCEPT ![N] = @ \o q]}
<1>1. parts \in Seq(Seq(T)) /\ N \in DOMAIN parts /\ parts[N] \in Seq(T)
    <2>1. parts \in Seq(Seq(T)) /\ parts # <<>>
        BY CutMore
    <2> HIDE DEF parts
    <2>2. Len(parts) # 0 /\ Len(parts) \in Nat
        BY <2>1
    <2> QED
        BY <2>1, <2>2
<1> HIDE DEF parts
<1>2. <<>> \in Done
    <2>1. seq \o <<>> = seq
        OBVIOUS
    <2>2. parts[N] \o <<>> = parts[N]
        BY <1>1
    <2>3. [parts EXCEPT ![N] = @ \o <<>>] = parts
        BY <1>1, <2>2
    <2>4. <<>> \in Plain
        OBVIOUS
    <2> QED
        BY <2>1, <2>3, <2>4 DEF parts
<1>3. ASSUME NEW q \in Plain, q \in Done, NEW e \in T \ {sep} PROVE Append(q, e) \in Done
    <2>1. q \in Seq(T)
        OBVIOUS
    <2>2. seq \o Append(q, e) = Append(seq \o q, e) /\ seq \o q \in Seq(T)
        BY <2>1, AppendBehind
    <2>3. Cut(T, sep, seq \o q) = [parts EXCEPT ![N] = @ \o q]
        BY <1>3
    <2> DEFINE longer == Cut(T, sep, seq \o q)
    <2>4. Cut(T, sep, Append(seq \o q, e)) = CutStep(sep, longer, e)
        <3> DEFINE joined == seq \o q
        <3>1. joined \in Seq(T) /\ e \in T
            BY <2>2
        <3> HIDE DEF joined
        <3>2. Cut(T, sep, Append(joined, e)) = CutStep(sep, Cut(T, sep, joined), e)
            BY <3>1, CutMore
        <3> QED
            BY <3>2 DEF joined
    <2>5. /\ longer \in Seq(Seq(T)) /\ Len(longer) = N /\ DOMAIN longer = DOMAIN parts
          /\ longer[N] = parts[N] \o q /\ \A i \in DOMAIN parts : i # N => longer[i] = parts[i]
        <3>1. longer \in Seq(Seq(T))
            BY <2>2, CutMore
        <3>2. DOMAIN longer = DOMAIN parts /\ longer[N] = parts[N] \o q
              /\ \A i \in DOMAIN parts : i # N => longer[i] = parts[i]
            BY <1>1, <2>3
        <3>3. Len(longer) = N
            BY <1>1, <3>1, <3>2
        <3> QED
            BY <3>1, <3>2, <3>3
    <2> HIDE DEF longer
    <2>6. CutStep(sep, longer, e) = [longer EXCEPT ![N] = Append(@, e)]
        BY <1>3, <2>5 DEF CutStep
    <2>7. Append(longer[N], e) = parts[N] \o Append(q, e)
        <3> DEFINE front == parts[N]
        <3>1. front \in Seq(T)
            BY <1>1
        <3> HIDE DEF front
        <3>2. front \in Seq(T) /\ q \in Seq(T) /\ e \in T
            BY <2>1, <3>1
        <3>3. front \o Append(q, e) = Append(front \o q, e)
            BY <3>2, AppendBehind
        <3> QED
            BY <2>5, <3>3 DEF front
    <2>8. [longer EXCEPT ![N] = Append(@, e)] = [parts EXCEPT ![N] = @ \o Append(q, e)]
        BY <1>1, <2>5, <2>7
    <2>9. Append(q, e) \in Plain
        OBVIOUS
    <2> QED
        BY <2>2, <2>4, <2>6, <2>8, <2>9
<1> HIDE DEF Done
<1>4. Plain \subseteq Done
    BY <1>2, <1>3, SeqByInduction
<1> QED
    BY <1>4 DEF Done, parts

LEMMA CutNone == ASSUME NEW T, NEW sep PROVE Cut(T, sep, <<>>) = << <<>> >>
BY CutIs, FoldedNone

(* Two lists of one element joined. *)
LEMMA PairJoined ==
    ASSUME NEW E, NEW x \in E, NEW y \in E
    PROVE  <<x>> \o <<y>> = <<x, y>> /\ Len(<<y>>) = 1 /\ <<x>> \in Seq(E)
<1> DEFINE one == <<x>>
           other == <<y>>
           two == <<x, y>>
           both == one \o other
<1>1. one \in Seq(E) /\ Len(one) = 1 /\ one[1] = x
  OBVIOUS
<1>2. other \in Seq(E) /\ Len(other) = 1 /\ other[1] = y
  OBVIOUS
<1>3. two \in Seq(E) /\ Len(two) = 2 /\ two[1] = x /\ two[2] = y
  OBVIOUS
<1> HIDE DEF one, other, two
<1>4. /\ both \in Seq(E) /\ Len(both) = Len(one) + Len(other)
      /\ \A i \in 1..Len(one) + Len(other) : both[i] = IF i <= Len(one) THEN one[i] ELSE other[i - Len(one)]
  BY <1>1, <1>2, ConcatProperties
<1> HIDE DEF both
<1>5. both \in Seq(E) /\ Len(both) = 2 /\ both[1] = x /\ both[2] = y
  BY <1>1, <1>2, <1>4
<1>6. both = two
  BY <1>3, <1>5, SeqEqual
<1> QED
  BY <1>1, <1>2, <1>6 DEF both, one, other, two

(* A piece of a list, and a piece cut in two. *)
LEMMA Slice ==
    ASSUME NEW E, NEW q \in Seq(E), NEW i \in 1..Len(q) + 1, NEW j \in i - 1..Len(q)
    PROVE  /\ SubSeq(q, i, j) \in Seq(E) /\ Len(SubSeq(q, i, j)) = j - i + 1
           /\ \A k \in 1..j - i + 1 : SubSeq(q, i, j)[k] = q[i + k - 1]
<1>1. Len(q) \in Nat /\ i \in Nat /\ j \in Nat /\ \A k \in i..j : q[k] \in E
  OBVIOUS
<1> QED
  BY <1>1

LEMMA SliceCut ==
    ASSUME NEW E, NEW q \in Seq(E), NEW i \in 1..Len(q) + 1, NEW j \in i - 1..Len(q), NEW m \in i..j + 1
    PROVE  SubSeq(q, i, j) = SubSeq(q, i, m - 1) \o SubSeq(q, m, j)
<1> DEFINE whole == SubSeq(q, i, j)
           front == SubSeq(q, i, m - 1)
           back == SubSeq(q, m, j)
<1>1. Len(q) \in Nat /\ i \in Nat /\ j \in Nat /\ m \in Nat /\ i <= m /\ m <= j + 1 /\ 1 <= i /\ j <= Len(q)
  OBVIOUS
<1>2. /\ whole \in Seq(E) /\ Len(whole) = j - i + 1
      /\ \A k \in 1..j - i + 1 : whole[k] = q[i + k - 1]
  BY Slice
<1>3. /\ front \in Seq(E) /\ Len(front) = m - i
      /\ \A k \in 1..m - i : front[k] = q[i + k - 1]
  <2>1. m - 1 \in i - 1..Len(q) /\ m - 1 - i + 1 = m - i
    BY <1>1
  <2> HIDE DEF front
  <2>2. /\ SubSeq(q, i, m - 1) \in Seq(E) /\ Len(SubSeq(q, i, m - 1)) = m - 1 - i + 1
        /\ \A k \in 1..m - 1 - i + 1 : SubSeq(q, i, m - 1)[k] = q[i + k - 1]
    BY <2>1, Slice
  <2> QED
    BY <2>1, <2>2 DEF front
<1>4. /\ back \in Seq(E) /\ Len(back) = j - m + 1
      /\ \A k \in 1..j - m + 1 : back[k] = q[m + k - 1]
  <2>1. m \in 1..Len(q) + 1 /\ j \in m - 1..Len(q)
    BY <1>1
  <2> QED
    BY <2>1, Slice
<1> HIDE DEF whole, front, back
<1> DEFINE both == front \o back
<1>5. /\ both \in Seq(E) /\ Len(both) = Len(front) + Len(back)
      /\ \A k \in 1..Len(front) + Len(back) : both[k] = IF k <= Len(front) THEN front[k] ELSE back[k - Len(front)]
  BY <1>3, <1>4, ConcatProperties
<1> HIDE DEF both
<1>6. Len(front) + Len(back) = Len(whole) /\ Len(front) = m - i /\ Len(whole) = j - i + 1
  BY <1>1, <1>2, <1>3, <1>4
<1>7. ASSUME NEW k \in 1..Len(whole) PROVE both[k] = whole[k]
  <2>1. k \in 1..j - i + 1 /\ k \in Nat
    BY <1>6, <1>1
  <2>2. both[k] = IF k <= m - i THEN front[k] ELSE back[k - (m - i)]
    BY <1>5, <1>6, <1>7
  <2>3. CASE k <= m - i
    BY <1>1, <1>2, <1>3, <2>1, <2>2, <2>3
  <2>4. CASE ~(k <= m - i)
    <3>1. k - (m - i) \in 1..j - m + 1 /\ m + (k - (m - i)) - 1 = i + k - 1
      BY <1>1, <2>1, <2>4
    <3> QED
      BY <1>2, <1>4, <2>1, <2>2, <2>4, <3>1
  <2> QED
    BY <2>3, <2>4
<1>8. both = whole
  BY <1>2, <1>5, <1>6, <1>7, SeqEqual
<1> QED
  BY <1>8 DEF whole, front, back, both
=============================================================================
