--------------------------- MODULE SnapshotProofs ---------------------------
(***************************************************************************)
(* Theorems about Snapshot and SnapshotCaches, for a program that makes    *)
(* any number of calls, in any order, with any number of failing commits,  *)
(* and about the calls of SolutionScan.                                    *)
(*                                                                         *)
(* The invariant is in two halves.  IdInv is about ids: the lists in       *)
(* memory have the ids of the database and of the pending data, what is    *)
(* pending refers to those, and a flush has written the tables before the  *)
(* one it is at; so nothing that is committed refers to what is not there. *)
(* StoreInv is about what the ids stand for: one row for each, one pending *)
(* value for each key, one object of options for the units of a call, and  *)
(* lists that hold what the rows do.                                       *)
(*                                                                         *)
(* On these rests the refinement of SnapshotStore: the view of a user is   *)
(* the database with the pending rows inserted, which the steps of a flush *)
(* leave as it is, table after table, and every call only adds to it or    *)
(* amends rows that are there.                                             *)
(*                                                                         *)
(* The caches are compared with that view: SymbolCacheInv says that a      *)
(* cached symbol is that of the view and that pending symbols are cached,  *)
(* so a symbol that is not is the one of the database.                     *)
(*                                                                         *)
(* Last comes the program that scans a solution, any solution: ScanInv     *)
(* follows the calls it still has to make.                                 *)
(***************************************************************************)
EXTENDS SolutionScan, SequenceLemmas
-----------------------------------------------------------------------------
(* The texts of options: what is written is read back. *)
LEMMA Tokens == Text = Seq(Token) /\ Sep \in Token /\ Eq \in Token /\ <<>> \in Text /\ Sep # Eq
<1>1. Sep # Eq
    BY DEF Sep, Eq
<1>2. Text = Seq(Token) /\ Sep \in Token /\ Eq \in Token
    BY TokenAssumption DEF Text
<1>3. <<>> \in Seq(Token)
    OBVIOUS
<1> QED
    BY <1>1, <1>2, <1>3

(* texts without a separator *)
Plain == Seq(Token \ {Sep})

(* A text that holds no separator is one of these. *)
LEMMA PlainTexts == /\ Plain \subseteq Text
                    /\ \A t \in Text : Sep \notin Range(t) => t \in Plain
<1>1. ASSUME NEW t \in Plain PROVE t \in Text
    BY DEF Plain, Text
<1>2. ASSUME NEW t \in Text, Sep \notin Range(t) PROVE t \in Plain
    BY <1>2 DEF Plain, Text, Range
<1> QED
    BY <1>1, <1>2

(* What Join does with each element but the first. *)
joining == [p \in Text \X Text |-> p[1] \o <<Sep>> \o p[2]]

LEMMA JoinedNone == Join(<<>>) = <<>>
BY DEF Join

LEMMA JoinedOne == ASSUME NEW str \in Text PROVE Join(<<str>>) = str
<1>1. <<str>> # <<>> /\ Head(<<str>>) = str /\ Tail(<<str>>) = <<>>
    OBVIOUS
<1>2. Join(<<str>>) = Folded(joining, str, <<>>)
    BY <1>1 DEF Join, joining
<1> QED
    BY <1>2, FoldedNone

LEMMA FoldedTexts ==
    ASSUME NEW first \in Text, NEW list \in Seq(Text)
    PROVE  Folded(joining, first, list) \in Text
<1> DEFINE T == {q \in Seq(Text) : Folded(joining, first, q) \in Text}
<1>1. <<>> \in T
    <2>1. <<>> \in Seq(Text)
        OBVIOUS
    <2> QED
        BY <2>1, FoldedNone
<1>2. ASSUME NEW q \in Seq(Text), q \in T, NEW str \in Text PROVE Append(q, str) \in T
    <2> DEFINE all == Folded(joining, first, q)
    <2>1. Folded(joining, first, Append(q, str)) = joining[<<all, str>>]
        BY FoldedAppend
    <2>2. all \in Text
        BY <1>2
    <2> HIDE DEF all
    <2>3. joining[<<all, str>>] = all \o <<Sep>> \o str
        BY <2>2 DEF joining
    <2>4. all \o <<Sep>> \o str \in Text
        BY <2>2, Tokens
    <2>5. Append(q, str) \in Seq(Text)
        OBVIOUS
    <2> QED
        BY <2>1, <2>3, <2>4, <2>5
<1> HIDE DEF T
<1>3. Seq(Text) \subseteq T
    BY <1>1, <1>2, SeqByInduction
<1> QED
    BY <1>3 DEF T

(* One more element of a list is one more separator and the element. *)
LEMMA JoinedMore ==
    ASSUME NEW list \in Seq(Text), list # <<>>, NEW str \in Text
    PROVE  Join(list) \in Text /\ Join(Append(list, str)) = Append(Join(list), Sep) \o str
<1>1. Head(list) \in Text /\ Tail(list) \in Seq(Text)
    BY HeadAndTail
<1>2. Append(list, str) # <<>> /\ Head(Append(list, str)) = Head(list)
      /\ Tail(Append(list, str)) = Append(Tail(list), str)
    OBVIOUS
<1> DEFINE all == Folded(joining, Head(list), Tail(list))
<1>3. Join(list) = all
    BY DEF Join, joining
<1>4. Join(Append(list, str)) = Folded(joining, Head(list), Append(Tail(list), str))
    BY <1>2 DEF Join, joining
<1>5. Folded(joining, Head(list), Append(Tail(list), str)) = joining[<<all, str>>]
    <2> DEFINE first == Head(list)
               rest == Tail(list)
    <2>1. rest \in Seq(Text)
        BY <1>1
    <2> HIDE DEF first, rest
    <2>2. Folded(joining, first, Append(rest, str)) = joining[<<Folded(joining, first, rest), str>>]
        BY <2>1, FoldedAppend
    <2> QED
        BY <2>2 DEF first, rest
<1>6. all \in Text
    BY <1>1, FoldedTexts
<1> HIDE DEF all
<1>7. joining[<<all, str>>] = all \o <<Sep>> \o str
    BY <1>6 DEF joining
<1>8. all \o <<Sep>> \o str = Append(all, Sep) \o str
    BY <1>6, Tokens
<1> QED
    BY <1>3, <1>4, <1>5, <1>6, <1>7, <1>8
-----------------------------------------------------------------------------
(* What Split does with each token. *)
behind(fields, token) ==
    IF token = Sep THEN Append(fields, <<>>)
    ELSE [fields EXCEPT ![Len(fields)] = Append(@, token)]

(* There is always a field, and each token ends one or goes to the last one. *)
LEMMA SplitMore ==
    ASSUME NEW str \in Text
    PROVE  /\ Split(str) \in Seq(Text) /\ Split(str) # <<>>
           /\ \A token \in Token : Split(Append(str, token)) = behind(Split(str), token)
<1>1. Sep \in Token /\ str \in Seq(Token)
    BY Tokens
<1>2. /\ Cut(Token, Sep, str) \in Seq(Seq(Token)) /\ Cut(Token, Sep, str) # <<>>
      /\ \A token \in Token : Cut(Token, Sep, Append(str, token)) = CutStep(Sep, Cut(Token, Sep, str), token)
    BY <1>1, CutMore
<1> QED
    BY <1>2, Tokens DEF Split, behind, CutStep

(* A str without separators goes to the last field. *)
LEMMA SplitBehind ==
    ASSUME NEW str \in Text, NEW s \in Plain
    PROVE  Split(str \o s) = [Split(str) EXCEPT ![Len(Split(str))] = @ \o s]
BY Tokens, CutBehind DEF Split, Plain

LEMMA SplitNone == Split(<<>>) = << <<>> >>
BY CutNone DEF Split

(* Splitting undoes joining. *)
LEMMA SplitJoined ==
    ASSUME NEW list \in Seq(Plain), list # <<>>
    PROVE  Split(Join(list)) = list
<1> DEFINE T == {q \in Seq(Plain) : q # <<>> => Split(Join(q)) = q}
<1>1. <<>> \in T
    OBVIOUS
<1>2. ASSUME NEW q \in Seq(Plain), q \in T, NEW s \in Plain PROVE Append(q, s) \in T
    <2>1. Append(q, s) \in Seq(Plain) /\ q \in Seq(Text) /\ s \in Text
        BY PlainTexts
    <2>2. CASE q = <<>>
        <3>1. Append(q, s) = <<s>>
            BY <2>2
        <3>2. Join(<<s>>) = s
            BY <2>1, JoinedOne
        <3>3. <<>> \o s = s
            BY <2>1 DEF Text
        <3>4. Split(<<>> \o s) = [Split(<<>>) EXCEPT ![Len(Split(<<>>))] = @ \o s]
            BY SplitBehind, Tokens
        <3>5. [Split(<<>>) EXCEPT ![Len(Split(<<>>))] = @ \o s]
                  = [<< <<>> >> EXCEPT ![1] = <<>> \o s]
            <4> DEFINE F == << <<>> >>
            <4>1. Len(F) = 1 /\ F[1] = <<>>
                OBVIOUS
            <4>2. Split(<<>>) = F
                BY SplitNone
            <4> HIDE DEF F
            <4>3. [F EXCEPT ![Len(F)] = @ \o s] = [F EXCEPT ![1] = <<>> \o s]
                BY <4>1
            <4> QED
                BY <4>2, <4>3 DEF F
        <3>6. [<< <<>> >> EXCEPT ![1] = <<>> \o s] = <<s>>
            BY <3>3
        <3> QED
            BY <2>1, <3>1, <3>2, <3>3, <3>4, <3>5, <3>6
    <2>3. CASE q # <<>>
        <3>1. Split(Join(q)) = q
            BY <1>2, <2>3
        <3>2. Join(q) \in Text /\ Join(Append(q, s)) = Append(Join(q), Sep) \o s
            BY <2>1, <2>3, JoinedMore
        <3> DEFINE t == Append(Join(q), Sep)
        <3>3. t \in Text /\ Split(t) = Append(q, <<>>)
            <4>1. Split(t) = behind(q, Sep)
                BY <3>1, <3>2, SplitMore, Tokens
            <4>2. t \in Text
                BY <3>2, Tokens DEF Text
            <4> QED
                BY <4>1, <4>2 DEF behind
        <3> HIDE DEF t
        <3>4. Split(t \o s) = [Append(q, <<>>) EXCEPT ![Len(Append(q, <<>>))] = @ \o s]
            BY <3>3, SplitBehind
        <3>5. /\ Len(Append(q, <<>>)) = Len(q) + 1 /\ Append(q, <<>>)[Len(q) + 1] = <<>>
              /\ <<>> \o s = s
            BY <2>1 DEF Text
        <3>6. [Append(q, <<>>) EXCEPT ![Len(q) + 1] = s] = Append(q, s)
            <4> DEFINE a == Append(q, <<>>)
                       b == Append(q, s)
                       n == Len(q) + 1
            <4>1. /\ a \in Seq(Text) /\ b \in Seq(Text) /\ Len(a) = n /\ Len(b) = n
                  /\ \A i \in 1..Len(q) : a[i] = b[i]
                  /\ b[n] = s /\ Len(q) \in Nat
                BY <2>1, Tokens
            <4>2. \A i \in 1..n : i # n => i \in 1..Len(q)
                BY <4>1
            <4> HIDE DEF a, b, n
            <4>3. a = [i \in 1..n |-> a[i]] /\ b = [i \in 1..n |-> b[i]]
                BY <4>1
            <4>4. \A i \in 1..n : b[i] = [a EXCEPT ![n] = s][i]
                BY <4>1, <4>2, <4>3
            <4>5. [a EXCEPT ![n] = s] = [i \in 1..n |-> [a EXCEPT ![n] = s][i]]
                BY <4>3
            <4> QED
                BY <4>3, <4>4, <4>5 DEF a, b, n
        <3>7. [Append(q, <<>>) EXCEPT ![Len(Append(q, <<>>))] = @ \o s]
                  = [Append(q, <<>>) EXCEPT ![Len(q) + 1] = s]
            BY <3>5
        <3> QED
            BY <2>1, <3>2, <3>4, <3>6, <3>7 DEF t
    <2> QED
        BY <2>2, <2>3
<1> HIDE DEF T
<1>3. Seq(Plain) \subseteq T
    BY <1>1, <1>2, SeqByInduction
<1> QED
    BY <1>3 DEF T

(* A finite set in some order. *)
LEMMA Ordered ==
    ASSUME NEW S, IsFiniteSet(S)
    PROVE  SetToSeq(S) \in Seq(S) /\ Range(SetToSeq(S)) = S
<1> DEFINE n == Cardinality(S)
           Order(f) == f \in [1..n -> S] /\ IsInjective(f)
<1>1. n \in Nat /\ ExistsBijection(1..n, S)
    BY FS_CardinalityType
<1>2. PICK b \in Bijection(1..n, S) : TRUE
    BY <1>1 DEF ExistsBijection
<1>3. b \in [1..n -> S] /\ \A i, j \in 1..n : b[i] = b[j] => i = j
    BY <1>2 DEF Bijection, Injection, Surjection, IsInjective
<1>4. \E f \in [1..n -> S] : IsInjective(f)
    BY <1>3 DEF IsInjective
<1> DEFINE order == SetToSeq(S)
<1>5. order \in [1..n -> S] /\ IsInjective(order)
    BY <1>4 DEF SetToSeq
<1> HIDE DEF order
<1>6. order \in Injection(1..n, S)
    BY <1>5 DEF Injection, IsInjective
<1>7. order \in Surjection(1..n, S)
    <2>1. IsFiniteSet(1..n) /\ Cardinality(1..n) = n
        BY <1>1, FS_Interval
    <2> QED
        BY <1>6, <2>1, FS_Injection
<1>8. \A e \in S : \E i \in 1..n : order[i] = e
    BY <1>7 DEF Surjection
<1>9. order \in Seq(S) /\ DOMAIN order = 1..n
    BY <1>1, <1>5
<1>10. Range(order) = S
    BY <1>5, <1>8, <1>9 DEF Range
<1> QED
    BY <1>9, <1>10 DEF order

(* A bounded set of numbers has a greatest element. *)
LEMMA MaxIsGreatest ==
    ASSUME NEW S, S \subseteq Nat, S # {}, NEW n \in Nat, \A i \in S : i <= n
    PROVE  Max(S) \in S /\ \A i \in S : i <= Max(S)
<1>1. \E x \in S : \A y \in S : x >= y
    BY Greatest
<1>2. Max(S) \in S /\ \A i \in S : Max(S) >= i
    BY <1>1 DEF Max
<1>3. Max(S) \in Nat
    BY <1>2
<1> QED
    BY <1>2, <1>3

(* The fields of a column, one for each text and one more if there is none. *)
LEMMA SplitColumn ==
    ASSUME NEW S, IsFiniteSet(S), S \subseteq Plain
    PROVE  /\ Split(Join(SetToSeq(S))) \in Seq(Plain)
           /\ Range(Split(Join(SetToSeq(S)))) \ {<<>>} = S \ {<<>>}
<1> DEFINE list == SetToSeq(S)
<1>1. list \in Seq(S) /\ Range(list) = S
    BY Ordered
<1>2. list \in Seq(Plain)
    BY <1>1
<1> HIDE DEF list
<1>3. CASE list = <<>>
    <2>1. S = {}
        BY <1>1, <1>3 DEF Range
    <2>2. Split(Join(list)) = << <<>> >>
        BY <1>3, JoinedNone, SplitNone
    <2>3. << <<>> >> \in Seq(Plain) /\ Range(<< <<>> >>) = {<<>>}
        BY DEF Plain, Range
    <2> QED
        BY <2>1, <2>2, <2>3 DEF list
<1>4. CASE list # <<>>
    BY <1>1, <1>2, <1>4, SplitJoined DEF list
<1> QED
    BY <1>3, <1>4

LEMMA IncludesBack ==
    ASSUME NEW options, IsOptions(options), Unambiguous(options)
    PROVE  SplitIncludes(JoinIncludeDirs(options.includedirs)) = options.includedirs \ {<<>>}
<1> DEFINE S == options.includedirs
<1>1. IsFiniteSet(S) /\ \A dir \in S : dir \in Text /\ Sep \notin Range(dir)
    BY DEF IsOptions, Unambiguous
<1>2. S \subseteq Plain
    BY <1>1, PlainTexts
<1> HIDE DEF S
<1>3. Range(Split(Join(SetToSeq(S)))) \ {<<>>} = S \ {<<>>}
    BY <1>1, <1>2, SplitColumn
<1> QED
    BY <1>3 DEF SplitIncludes, JoinIncludeDirs, S

(* A field gives its name the value it was written with. *)
LEMMA FieldSays ==
    ASSUME NEW name \in Text, NEW value \in Text,
           {Sep, Eq} \cap Range(name) = {}, Sep \notin Range(value)
    PROVE  /\ Field(name, value) \in Plain
           /\ NameIn(Field(name, value)) = name
           /\ ValueIn(Field(name, value)) = value
<1>1. name \in Seq(Token) /\ value \in Seq(Token) /\ Sep \in Token /\ Eq \in Token /\ Sep # Eq
    BY Tokens
<1>2. /\ \A i \in DOMAIN name : name[i] # Sep /\ name[i] # Eq
      /\ \A i \in DOMAIN value : value[i] # Sep
    BY DEF Range
<1> DEFINE places(str) == {i \in 1..Len(str) : str[i] = Eq}
<1>3. ASSUME NEW str PROVE EqIn(str) = IF places(str) # {} THEN Min(places(str)) ELSE 0
    BY DEF EqIn, SelectInSeq
<1>4. CASE value = <<>>
    <2>1. Field(name, value) = name
        BY <1>4 DEF Field
    <2>2. places(name) = {}
        BY <1>1, <1>2
    <2>3. EqIn(name) = 0
        BY <1>3, <2>2
    <2>4. name \in Plain
        BY PlainTexts
    <2> QED
        BY <1>4, <2>1, <2>3, <2>4 DEF NameIn, ValueIn
<1>5. CASE value # <<>>
    <2> DEFINE str == name \o <<Eq>> \o value
               n == Len(name)
    <2>1. /\ str \in Seq(Token) /\ n \in Nat /\ Len(str) = n + 1 + Len(value) /\ Len(value) \in Nat
          /\ \A i \in 1..n : str[i] = name[i]
          /\ str[n + 1] = Eq
          /\ \A i \in 1..Len(value) : str[n + 1 + i] = value[i]
        BY <1>1
    <2>2. Field(name, value) = str
        BY <1>5 DEF Field
    <2> HIDE DEF str
    <2>3. places(str) # {} /\ n + 1 \in places(str) /\ \A i \in places(str) : n + 1 <= i
        <3>1. n + 1 \in places(str)
            BY <2>1
        <3>2. ASSUME NEW i \in places(str), ~(n + 1 <= i) PROVE FALSE
            <4>1. i \in 1..n /\ str[i] = Eq
                BY <2>1, <3>2
            <4>2. i \in DOMAIN name /\ name[i] = Eq
                BY <1>1, <2>1, <4>1
            <4> QED
                BY <1>2, <4>2
        <3> QED
            BY <3>1, <3>2
    <2>4. Min(places(str)) = n + 1
        BY <2>1, <2>3 DEF Min
    <2>5. EqIn(str) = n + 1 /\ EqIn(str) # 0
        BY <1>3, <2>1, <2>3, <2>4
    <2>6. SubSeq(str, 1, n) = name
        BY <1>1, <2>1
    <2>7. SubSeq(str, n + 2, Len(str)) = value
        <3>1. /\ Len(SubSeq(str, n + 2, Len(str))) = Len(value)
              /\ SubSeq(str, n + 2, Len(str)) \in Seq(Token)
            BY <2>1
        <3>2. \A i \in 1..Len(value) : SubSeq(str, n + 2, Len(str))[i] = value[i]
            BY <2>1
        <3> DEFINE part == SubSeq(str, n + 2, Len(str))
        <3>3. part \in Seq(Token) /\ Len(part) = Len(value)
                  /\ \A i \in 1..Len(value) : part[i] = value[i]
            BY <3>1, <3>2
        <3> HIDE DEF part
        <3>4. part = value
            BY <1>1, <3>3
        <3> QED
            BY <3>4 DEF part
    <2>8. str \in Plain
        <3>1. ASSUME NEW i \in 1..Len(str) PROVE str[i] # Sep
            <4>1. CASE i <= n
                BY <1>1, <1>2, <2>1, <4>1
            <4>2. CASE i = n + 1
                BY <1>1, <2>1, <4>2
            <4>3. CASE i > n + 1
                <5>1. i - (n + 1) \in 1..Len(value) /\ n + 1 + (i - (n + 1)) = i
                    <6> DEFINE L == Len(value)
                    <6>1. i \in 1..n + 1 + L /\ L \in Nat /\ n \in Nat
                        BY <2>1
                    <6> HIDE DEF L, n
                    <6>2. i - (n + 1) \in 1..L /\ n + 1 + (i - (n + 1)) = i
                        BY <4>3, <6>1
                    <6> QED
                        BY <6>2 DEF L
                <5>2. i - (n + 1) \in DOMAIN value
                    BY <1>1, <5>1
                <5>3. str[n + 1 + (i - (n + 1))] = value[i - (n + 1)]
                    BY <2>1, <5>1
                <5> QED
                    BY <1>2, <5>1, <5>2, <5>3
            <4> QED
                BY <2>1, <4>1, <4>2, <4>3
        <3> QED
            BY <2>1, <3>1 DEF Plain
    <2>9. (n + 1) - 1 = n /\ (n + 1) + 1 = n + 2
        BY <2>1
    <2> QED
        BY <2>2, <2>5, <2>6, <2>7, <2>8, <2>9 DEF NameIn, ValueIn
<1> QED
    BY <1>4, <1>5

(* Defines are back with the names they had, unless the text of one is empty. *)
LEMMA DefinesBack ==
    ASSUME NEW options, IsOptions(options), Unambiguous(options)
    PROVE  SplitDefines(JoinDefines(options.defines)) = Named(options).defines
<1> DEFINE d == options.defines
           N == DOMAIN d
           S == {Field(name, d[name]) : name \in N}
           read == Selected(Text \ {<<>>}, Split(Join(SetToSeq(S))))
           named == {name \in N : Field(name, d[name]) # <<>>}
<1>1. /\ IsFiniteSet(N)
      /\ \A name \in N : /\ name \in Text /\ d[name] \in Text
                          /\ {Sep, Eq} \cap Range(name) = {} /\ Sep \notin Range(d[name])
    BY DEF IsOptions, Unambiguous
<1> HIDE DEF d
<1>2. \A name \in N : /\ Field(name, d[name]) \in Plain
                      /\ NameIn(Field(name, d[name])) = name
                      /\ ValueIn(Field(name, d[name])) = d[name]
    BY <1>1, FieldSays
<1>3. IsFiniteSet(S) /\ S \subseteq Plain
    <2>1. IsFiniteSet(S)
        <3> DEFINE f == [name \in N |-> Field(name, d[name])]
        <3>1. f \in [N -> S] /\ \A str \in S : \E name \in N : f[name] = str
            OBVIOUS
        <3> HIDE DEF f, S
        <3>2. f \in Surjection(N, S)
            BY <3>1 DEF Surjection
        <3> QED
            BY <1>1, <3>2, FS_Surjection
    <2> QED
        BY <1>2, <2>1
<1>4. /\ read \in Seq(Text)
      /\ Range(read) = S \ {<<>>}
    <2> HIDE DEF S
    <2> DEFINE fields == Split(Join(SetToSeq(S)))
    <2>1. fields \in Seq(Plain) /\ Range(fields) \ {<<>>} = S \ {<<>>}
        BY <1>3, SplitColumn
    <2> HIDE DEF fields
    <2>2. fields \in Seq(Text)
        BY <2>1, PlainTexts
    <2> DEFINE kept == Text \ {<<>>}
    <2>a. kept \subseteq Text /\ Text \cap kept = Text \ {<<>>}
        OBVIOUS
    <2> HIDE DEF kept
    <2>3. Selected(kept, fields) \in Seq(Text \cap kept)
        BY <2>2, SelectedType
    <2>4. {Selected(kept, fields)[i] : i \in DOMAIN Selected(kept, fields)}
              = {fields[i] : i \in DOMAIN fields} \cap kept
        BY <2>2, SelectedElements
    <2>5. Range(Selected(kept, fields)) = Range(fields) \cap kept
        BY <2>4 DEF Range
    <2>6. Range(fields) \subseteq Text
        BY <2>2 DEF Range
    <2>7. Range(Selected(kept, fields)) = S \ {<<>>}
        BY <2>1, <2>5, <2>6 DEF kept
    <2>8. Selected(kept, fields) \in Seq(Text)
        BY <2>3, <2>a
    <2>9. read = Selected(kept, fields)
        BY DEF fields, kept
    <2> HIDE DEF read
    <2> QED
        BY <2>7, <2>8, <2>9
<1> HIDE DEF read
<1>5. \A i \in DOMAIN read : \E name \in named : read[i] = Field(name, d[name])
    BY <1>4 DEF Range
<1>6. \A name \in named : \E i \in DOMAIN read : read[i] = Field(name, d[name])
    BY <1>4 DEF Range
<1>7. {NameIn(str) : str \in Range(read)} = named
    <2>1. \A str \in Range(read) : NameIn(str) \in named
        BY <1>2, <1>5 DEF Range
    <2>2. \A name \in named : \E str \in Range(read) : NameIn(str) = name
        BY <1>2, <1>6 DEF Range
    <2> HIDE DEF named
    <2> QED
        BY <2>1, <2>2
<1> DEFINE of(name) == {i \in DOMAIN read : NameIn(read[i]) = name}
<1>8. ASSUME NEW name \in named PROVE ValueIn(read[Max(of(name))]) = d[name]
    <2>1. of(name) # {} /\ of(name) \subseteq Nat /\ Len(read) \in Nat
          /\ \A i \in of(name) : i <= Len(read)
        BY <1>2, <1>4, <1>6
    <2>2. Max(of(name)) \in of(name)
        <3> DEFINE T == of(name)
        <3> HIDE DEF of
        <3> QED
            BY <2>1, MaxIsGreatest
    <2> DEFINE m == Max(of(name))
    <2>3. m \in DOMAIN read /\ NameIn(read[m]) = name
        BY <2>2
    <2> HIDE DEF m
    <2>4. PICK other \in named : read[m] = Field(other, d[other])
        BY <1>5, <2>3
    <2>5. other = name
        BY <1>2, <2>3, <2>4
    <2> QED
        BY <1>2, <2>4, <2>5 DEF m
<1>9. DefinesOf(read) = [name \in named |-> ValueIn(read[Max(of(name))])]
    BY <1>7 DEF DefinesOf
<1>10. DefinesOf(read) = [name \in named |-> d[name]]
    <2> HIDE DEF of, named
    <2> QED
        BY <1>8, <1>9
<1>11. SplitDefines(JoinDefines(d)) = DefinesOf(read)
    BY DEF SplitDefines, JoinDefines, read
<1>12. Named(options).defines = [name \in named |-> d[name]]
    BY DEF Named, d
<1> QED
    BY <1>10, <1>11, <1>12 DEF d

(* Options whose texts hold no separators are read back as they were written, but for texts that
   leave no token behind: split_defines and split_includes undo join (db/src/sqlqueries.cpp). *)
THEOREM OptionsBack ==
    ASSUME NEW options, IsOptions(options), Unambiguous(options)
    PROVE  Loaded(Columns(options)) = Named(options)
<1>1. Columns(options).defines = JoinDefines(options.defines)
      /\ Columns(options).includedirs = JoinIncludeDirs(options.includedirs)
    BY DEF Columns
<1>2. Named(options) = [defines |-> Named(options).defines,
                        includedirs |-> options.includedirs \ {<<>>}]
    BY DEF Named
<1> QED
    BY <1>1, <1>2, DefinesBack, IncludesBack DEF Loaded
-----------------------------------------------------------------------------
(* The function that InsertAll is defined by. *)
IsInsertion(f, t, rows, new) ==
    f = [n \in 0..Len(new) |-> IF n = 0 THEN rows ELSE Insert(t, f[n - 1], new[n])]

(* There is one, and the one of a longer list agrees with it as far as it goes. *)
LEMMA InsertionExists ==
    ASSUME NEW t, NEW rows, NEW E
    PROVE  \A n \in Nat : \A new \in Seq(E) : Len(new) = n => \E f : IsInsertion(f, t, rows, new)
<1> DEFINE T == {n \in Nat : \A new \in Seq(E) :
                               Len(new) = n => \E f : IsInsertion(f, t, rows, new)}
<1>1. 0 \in T
    <2> SUFFICES ASSUME NEW new \in Seq(E), Len(new) = 0 PROVE \E f : IsInsertion(f, t, rows, new)
        OBVIOUS
    <2>1. IsInsertion([n \in 0..0 |-> rows], t, rows, new)
        BY DEF IsInsertion
    <2> QED
        BY <2>1
<1>2. ASSUME NEW n \in Nat, n \in T PROVE n + 1 \in T
    <2> SUFFICES ASSUME NEW new \in Seq(E), Len(new) = n + 1
                 PROVE \E f : IsInsertion(f, t, rows, new)
        OBVIOUS
    <2> DEFINE front == SubSeq(new, 1, n)
    <2>1. front \in Seq(E) /\ Len(front) = n /\ \A i \in 1..n : front[i] = new[i]
        OBVIOUS
    <2> HIDE DEF front
    <2>2. PICK f : IsInsertion(f, t, rows, front)
        BY <1>2, <2>1
    <2> DEFINE g == [m \in 0..n + 1 |-> IF m <= n THEN f[m] ELSE Insert(t, f[n], new[n + 1])]
    <2>3. \A m \in 0..n : f[m] = IF m = 0 THEN rows ELSE Insert(t, f[m - 1], new[m])
        <3> TAKE m \in 0..n
        <3>1. f[m] = IF m = 0 THEN rows ELSE Insert(t, f[m - 1], front[m])
            BY <2>1, <2>2 DEF IsInsertion
        <3> QED
            BY <2>1, <3>1
    <2>4. \A m \in 0..n + 1 : g[m] = IF m = 0 THEN rows ELSE Insert(t, g[m - 1], new[m])
        BY <2>3
    <2>5. IsInsertion(g, t, rows, new)
        <3> HIDE DEF g
        <3> DEFINE h == [m \in 0..Len(new) |-> IF m = 0 THEN rows ELSE Insert(t, g[m - 1], new[m])]
        <3>1. DOMAIN g = 0..n + 1
            BY DEF g
        <3>2. DOMAIN h = 0..n + 1 /\ \A m \in 0..n + 1 : g[m] = h[m]
            BY <2>4
        <3>3. g = [m \in DOMAIN g |-> g[m]]
            BY DEF g
        <3>4. h = [m \in DOMAIN h |-> h[m]]
            OBVIOUS
        <3>5. g = h
            BY <3>1, <3>2, <3>3, <3>4
        <3> QED
            BY <3>5 DEF IsInsertion
    <2> QED
        BY <2>5
<1> HIDE DEF T
<1>3. Nat \subseteq T
    BY <1>1, <1>2, NatByInduction
<1> QED
    BY <1>3 DEF T

LEMMA InsertionFunction ==
    ASSUME NEW t, NEW rows, NEW E, NEW new \in Seq(E)
    PROVE  \E f : IsInsertion(f, t, rows, new) /\ InsertAll(t, rows, new) = f[Len(new)]
<1> DEFINE f == CHOOSE f : IsInsertion(f, t, rows, new)
<1>1. \E g : IsInsertion(g, t, rows, new)
    <2>1. Len(new) \in Nat
        OBVIOUS
    <2> QED
        BY <2>1, InsertionExists
<1>2. IsInsertion(f, t, rows, new)
    BY <1>1
<1>3. InsertAll(t, rows, new) = f[Len(new)]
    BY DEF InsertAll, IsInsertion
<1> QED
    BY <1>2, <1>3

LEMMA InsertionsAgree ==
    ASSUME NEW t, NEW rows, NEW E, NEW new \in Seq(E), NEW longer \in Seq(E),
           Len(new) <= Len(longer), \A i \in DOMAIN new : new[i] = longer[i],
           NEW f, IsInsertion(f, t, rows, new), NEW g, IsInsertion(g, t, rows, longer)
    PROVE  \A n \in 0..Len(new) : f[n] = g[n]
<1> DEFINE T == {n \in Nat : n <= Len(new) => f[n] = g[n]}
<1>1. 0 \in T
    BY DEF IsInsertion
<1>2. ASSUME NEW n \in Nat, n \in T PROVE n + 1 \in T
    <2> SUFFICES ASSUME n + 1 <= Len(new) PROVE f[n + 1] = g[n + 1]
        OBVIOUS
    <2>1. f[n] = g[n] /\ n + 1 \in 1..Len(new) /\ new[n + 1] = longer[n + 1]
        BY <1>2
    <2>2. /\ n + 1 \in 0..Len(new) /\ n + 1 \in 0..Len(longer) /\ n + 1 # 0
          /\ (n + 1) - 1 = n
        BY <2>1
    <2>3. f[n + 1] = Insert(t, f[n], new[n + 1])
        BY <2>2 DEF IsInsertion
    <2>4. g[n + 1] = Insert(t, g[n], longer[n + 1])
        BY <2>2 DEF IsInsertion
    <2> QED
        BY <2>1, <2>3, <2>4
<1> HIDE DEF T
<1>3. Nat \subseteq T
    BY <1>1, <1>2, NatByInduction
<1> QED
    BY <1>3 DEF T

(* InsertAll inserts one row after the other. *)
LEMMA InsertedNone == ASSUME NEW t, NEW rows PROVE InsertAll(t, rows, <<>>) = rows
<1>1. <<>> \in Seq({}) /\ Len(<<>>) = 0
    OBVIOUS
<1>2. PICK f : IsInsertion(f, t, rows, <<>>) /\ InsertAll(t, rows, <<>>) = f[Len(<<>>)]
    BY <1>1, InsertionFunction
<1>3. f[0] = rows
    BY <1>1, <1>2 DEF IsInsertion
<1> QED
    BY <1>1, <1>2, <1>3

LEMMA InsertedOne ==
    ASSUME NEW t, NEW rows, NEW E, NEW new \in Seq(E), NEW row \in E
    PROVE  InsertAll(t, rows, Append(new, row)) = Insert(t, InsertAll(t, rows, new), row)
<1> DEFINE longer == Append(new, row)
<1>1. /\ longer \in Seq(E) /\ Len(longer) = Len(new) + 1 /\ longer[Len(new) + 1] = row
      /\ Len(new) \in Nat /\ \A i \in DOMAIN new : new[i] = longer[i]
    OBVIOUS
<1> HIDE DEF longer
<1>2. PICK f : IsInsertion(f, t, rows, new) /\ InsertAll(t, rows, new) = f[Len(new)]
    BY InsertionFunction
<1>3. PICK g : IsInsertion(g, t, rows, longer) /\ InsertAll(t, rows, longer) = g[Len(longer)]
    BY <1>1, InsertionFunction
<1>4. f[Len(new)] = g[Len(new)]
    <2>1. Len(new) <= Len(longer) /\ Len(new) \in 0..Len(new)
        BY <1>1
    <2> QED
        BY <1>1, <1>2, <1>3, <2>1, InsertionsAgree
<1>5. g[Len(new) + 1] = Insert(t, g[(Len(new) + 1) - 1], longer[Len(new) + 1])
    BY <1>1, <1>3 DEF IsInsertion
<1>6. (Len(new) + 1) - 1 = Len(new)
    BY <1>1
<1> QED
    BY <1>1, <1>2, <1>3, <1>4, <1>5, <1>6 DEF longer
-----------------------------------------------------------------------------
(* What insertions do to the rows of a table. *)
Ids(rows) == {row.id : row \in Range(rows)}

Identified == {"file", "translationunit", "symbol"}

LEMMA RowsAppended ==
    ASSUME NEW E, NEW rows \in Seq(E), NEW row \in E
    PROVE  Range(Append(rows, row)) = Range(rows) \cup {row}
<1> DEFINE more == Append(rows, row)
<1>1. /\ Len(rows) \in Nat /\ DOMAIN rows = 1..Len(rows) /\ DOMAIN more = 1..Len(rows) + 1
      /\ more[Len(rows) + 1] = row /\ \A i \in 1..Len(rows) : more[i] = rows[i]
    OBVIOUS
<1> HIDE DEF more
<1>2. \A i \in 1..Len(rows) + 1 : more[i] = row \/ more[i] \in Range(rows)
    BY <1>1 DEF Range
<1>3. row \in Range(more) /\ \A r \in Range(rows) : r \in Range(more)
    BY <1>1 DEF Range
<1> QED
    BY <1>1, <1>2, <1>3 DEF Range, more

LEMMA RowsJoined ==
    ASSUME NEW E, NEW q \in Seq(E), NEW r \in Seq(E)
    PROVE  Range(q \o r) = Range(q) \cup Range(r)
<1> DEFINE qr == q \o r
<1>1. /\ Len(q) \in Nat /\ Len(r) \in Nat /\ DOMAIN q = 1..Len(q) /\ DOMAIN r = 1..Len(r)
      /\ DOMAIN qr = 1..Len(q) + Len(r)
      /\ \A i \in 1..Len(q) : qr[i] = q[i]
      /\ \A i \in 1..Len(r) : qr[Len(q) + i] = r[i]
    OBVIOUS
<1> HIDE DEF qr
<1>2. ASSUME NEW i \in 1..Len(q) + Len(r) PROVE qr[i] \in Range(q) \/ qr[i] \in Range(r)
    <2>1. CASE i <= Len(q)
        BY <1>1, <2>1 DEF Range
    <2>2. CASE i > Len(q)
        <3>1. i - Len(q) \in 1..Len(r) /\ Len(q) + (i - Len(q)) = i
            BY <1>1, <2>2
        <3>2. qr[i] = r[i - Len(q)]
            BY <1>1, <3>1
        <3> QED
            BY <1>1, <3>1, <3>2 DEF Range
    <2> QED
        BY <1>1, <2>1, <2>2
<1>3. \A i \in 1..Len(q) : q[i] \in Range(qr)
    BY <1>1 DEF Range
<1>4. ASSUME NEW i \in 1..Len(r) PROVE r[i] \in Range(qr)
    <2>1. Len(q) + i \in 1..Len(q) + Len(r) /\ qr[Len(q) + i] = r[i]
        BY <1>1
    <2> QED
        BY <1>1, <2>1 DEF Range
<1>5. Range(qr) \subseteq Range(q) \cup Range(r)
    BY <1>1, <1>2 DEF Range
<1>6. Range(q) \subseteq Range(qr) /\ Range(r) \subseteq Range(qr)
    BY <1>1, <1>3, <1>4 DEF Range
<1> QED
    BY <1>5, <1>6 DEF qr

LEMMA InsertType ==
    ASSUME NEW t, NEW E, NEW rows \in Seq(E), NEW row \in E
    PROVE  /\ Insert(t, rows, row) \in Seq(E) /\ Len(Insert(t, rows, row)) >= Len(rows)
           /\ Range(Insert(t, rows, row)) \subseteq Range(rows) \cup {row}
<1> DEFINE conflicts == Conflicts(t, rows, row)
           replaced == [i \in DOMAIN rows |-> IF i \in conflicts THEN row ELSE rows[i]]
<1>1. \/ Insert(t, rows, row) = Append(rows, row)
      \/ Insert(t, rows, row) = replaced
      \/ Insert(t, rows, row) = rows
    BY DEF Insert
<1>2. replaced \in Seq(E) /\ Len(replaced) = Len(rows)
          /\ Range(replaced) \subseteq Range(rows) \cup {row}
    <2>1. replaced \in Seq(E) /\ Len(replaced) = Len(rows) /\ DOMAIN replaced = DOMAIN rows
        OBVIOUS
    <2>2. \A i \in DOMAIN rows : replaced[i] = row \/ replaced[i] = rows[i]
        OBVIOUS
    <2> HIDE DEF replaced
    <2> QED
        BY <2>1, <2>2 DEF Range
<1>3. Append(rows, row) \in Seq(E) /\ Len(Append(rows, row)) = Len(rows) + 1 /\ Len(rows) \in Nat
    OBVIOUS
<1>4. Range(Append(rows, row)) = Range(rows) \cup {row}
    BY RowsAppended
<1> DEFINE appended == Append(rows, row)
<1>5. appended \in Seq(E) /\ Len(appended) >= Len(rows)
          /\ Range(appended) \subseteq Range(rows) \cup {row}
    BY <1>3, <1>4
<1>6. Len(rows) >= Len(rows)
    BY <1>3
<1> HIDE DEF replaced, appended
<1>7. \/ Insert(t, rows, row) = appended
      \/ Insert(t, rows, row) = replaced
      \/ Insert(t, rows, row) = rows
    BY <1>1 DEF appended
<1>8. Len(replaced) >= Len(rows)
    BY <1>2, <1>6
<1> QED
    BY <1>2, <1>5, <1>6, <1>7, <1>8

LEMMA InsertAllType ==
    ASSUME NEW t, NEW E, NEW rows \in Seq(E), NEW new \in Seq(E)
    PROVE  /\ InsertAll(t, rows, new) \in Seq(E) /\ Len(InsertAll(t, rows, new)) >= Len(rows)
           /\ Range(InsertAll(t, rows, new)) \subseteq Range(rows) \cup Range(new)
<1> DEFINE T == {q \in Seq(E) :
                    /\ InsertAll(t, rows, q) \in Seq(E) /\ Len(InsertAll(t, rows, q)) >= Len(rows)
                    /\ Range(InsertAll(t, rows, q)) \subseteq Range(rows) \cup Range(q)}
<1>1. <<>> \in T
    <2>1. InsertAll(t, rows, <<>>) = rows
        BY InsertedNone
    <2> QED
        BY <2>1
<1>2. ASSUME NEW q \in Seq(E), q \in T, NEW row \in E PROVE Append(q, row) \in T
    <2> DEFINE r == InsertAll(t, rows, q)
    <2>1. InsertAll(t, rows, Append(q, row)) = Insert(t, r, row)
        BY InsertedOne
    <2>2. r \in Seq(E) /\ Len(r) >= Len(rows) /\ Range(r) \subseteq Range(rows) \cup Range(q)
        BY <1>2
    <2> HIDE DEF r
    <2>3. /\ Insert(t, r, row) \in Seq(E) /\ Len(Insert(t, r, row)) >= Len(r)
          /\ Range(Insert(t, r, row)) \subseteq Range(r) \cup {row}
        BY <2>2, InsertType
    <2>4. Range(Append(q, row)) = Range(q) \cup {row}
        BY RowsAppended
    <2>5. Len(Insert(t, r, row)) >= Len(rows)
        BY <2>2, <2>3
    <2> QED
        BY <2>1, <2>2, <2>3, <2>4, <2>5
<1> HIDE DEF T
<1>3. Seq(E) \subseteq T
    BY <1>1, <1>2, SeqByInduction
<1> QED
    BY <1>3 DEF T

(* A table without a key only grows. *)
LEMMA InsertedAtEnd ==
    ASSUME NEW t, t \notin Identified \cup {"include"}, NEW E, NEW rows \in Seq(E),
           NEW new \in Seq(E)
    PROVE  InsertAll(t, rows, new) = rows \o new
<1> DEFINE T == {q \in Seq(E) : InsertAll(t, rows, q) = rows \o q}
<1>1. <<>> \in T
    BY InsertedNone
<1>2. ASSUME NEW q \in Seq(E), q \in T, NEW row \in E PROVE Append(q, row) \in T
    <2>1. InsertAll(t, rows, Append(q, row)) = Insert(t, rows \o q, row)
        <3>1. InsertAll(t, rows, Append(q, row)) = Insert(t, InsertAll(t, rows, q), row)
            BY InsertedOne
        <3>2. InsertAll(t, rows, q) = rows \o q
            BY <1>2
        <3> QED
            BY <3>1, <3>2
    <2>2. Insert(t, rows \o q, row) = Append(rows \o q, row)
        <3>1. Conflicts(t, rows \o q, row) = {}
            BY DEF Conflicts, Identified
        <3> QED
            BY <3>1 DEF Insert
    <2>3. rows \o Append(q, row) = Append(rows \o q, row)
        BY AppendBehind
    <2>4. InsertAll(t, rows, Append(q, row)) = rows \o Append(q, row)
        BY <2>1, <2>2, <2>3, Zenon
    <2>5. Append(q, row) \in Seq(E)
        OBVIOUS
    <2> QED
        BY <2>4, <2>5, Zenon
<1> HIDE DEF T
<1>3. Seq(E) \subseteq T
    BY <1>1, <1>2, SeqByInduction
<1> QED
    BY <1>3 DEF T

(* No id of a row is lost in a conflict. *)
LEMMA InsertedIds ==
    ASSUME NEW t \in Identified, NEW E, NEW rows \in Seq(E), NEW new \in Seq(E)
    PROVE  Ids(InsertAll(t, rows, new)) = Ids(rows) \cup Ids(new)
<1> DEFINE T == {q \in Seq(E) : Ids(InsertAll(t, rows, q)) = Ids(rows) \cup Ids(q)}
<1>1. <<>> \in T
    <2>1. Ids(<<>>) = {}
        BY DEF Ids, Range
    <2> QED
        BY <2>1, InsertedNone
<1>2. ASSUME NEW q \in Seq(E), q \in T, NEW row \in E PROVE Append(q, row) \in T
    <2> DEFINE r == InsertAll(t, rows, q)
    <2>1. InsertAll(t, rows, Append(q, row)) = Insert(t, r, row)
        BY InsertedOne
    <2>2. r \in Seq(E) /\ Ids(r) = Ids(rows) \cup Ids(q)
        BY <1>2, InsertAllType
    <2> HIDE DEF r
    <2>3. Ids(Append(q, row)) = Ids(q) \cup {row.id} /\ Ids(Append(r, row)) = Ids(r) \cup {row.id}
        BY <2>2, RowsAppended DEF Ids
    <2>4. Ids(Insert(t, r, row)) = Ids(r) \cup {row.id}
        <3> DEFINE conflicts == Conflicts(t, r, row)
                   replaced == [i \in DOMAIN r |-> IF i \in conflicts THEN row ELSE r[i]]
        <3>1. conflicts = {i \in DOMAIN r : r[i].id = row.id}
            BY DEF Conflicts, Identified
        <3>2. CASE conflicts = {}
            BY <2>3, <3>2 DEF Insert
        <3>3. CASE conflicts # {}
            <4>1. row.id \in Ids(r)
                BY <3>1, <3>3 DEF Ids, Range
            <4>2. Ids(replaced) = Ids(r)
                <5>1. DOMAIN replaced = DOMAIN r /\ \A i \in DOMAIN r : replaced[i].id = r[i].id
                    BY <3>1
                <5> HIDE DEF replaced
                <5>2. \A s : Ids(s) = {s[i].id : i \in DOMAIN s}
                    BY DEF Ids, Range
                <5>3. Ids(replaced) = {replaced[i].id : i \in DOMAIN replaced}
                          /\ Ids(r) = {r[i].id : i \in DOMAIN r}
                    BY <5>2
                <5> QED
                    BY <5>1, <5>3
            <4>3. Insert(t, r, row) \in {replaced, r}
                BY <3>3 DEF Insert
            <4> HIDE DEF replaced
            <4> QED
                BY <4>1, <4>2, <4>3
        <3> QED
            BY <3>2, <3>3
    <2> QED
        BY <2>1, <2>2, <2>3, <2>4
<1> HIDE DEF T
<1>3. Seq(E) \subseteq T
    BY <1>1, <1>2, SeqByInduction
<1> QED
    BY <1>3 DEF T
(* An insertion that a conflict makes fail. *)
LEMMA InsertedOrNot ==
    ASSUME NEW t \in {"file", "translationunit"}, NEW rows, NEW row
    PROVE  Insert(t, rows, row) = IF \E i \in DOMAIN rows : rows[i].id = row.id THEN rows
                                  ELSE Append(rows, row)
<1>1. Conflicts(t, rows, row) = {i \in DOMAIN rows : rows[i].id = row.id}
    BY DEF Conflicts
<1>2. t # "symbol"
    OBVIOUS
<1> QED
    BY <1>1, <1>2 DEF Insert

(* Lists that differ in columns other than the id, in places below n. *)
Alike(q, r, n) ==
    /\ DOMAIN q = DOMAIN r /\ \A i \in DOMAIN q : q[i].id = r[i].id
    /\ \A i \in DOMAIN q : i > n => q[i] = r[i]

LEMMA InsertedAlike ==
    ASSUME NEW t \in {"file", "translationunit"}, NEW E, NEW q \in Seq(E), NEW r \in Seq(E),
           NEW row \in E,
           NEW n \in Nat, Alike(q, r, n), Len(q) >= n
    PROVE  /\ Alike(Insert(t, q, row), Insert(t, r, row), n)
           /\ \A i \in 1..n : Insert(t, q, row)[i] = q[i] /\ Insert(t, r, row)[i] = r[i]
<1>1. (\E i \in DOMAIN q : q[i].id = row.id) <=> (\E i \in DOMAIN r : r[i].id = row.id)
    BY DEF Alike
<1>2. CASE \E i \in DOMAIN q : q[i].id = row.id
    <2>1. Insert(t, q, row) = q /\ Insert(t, r, row) = r
        BY <1>1, <1>2, InsertedOrNot
    <2> QED
        BY <2>1
<1>3. CASE ~\E i \in DOMAIN q : q[i].id = row.id
    <2> DEFINE q1 == Append(q, row)
               r1 == Append(r, row)
    <2>1. Insert(t, q, row) = q1 /\ Insert(t, r, row) = r1
        BY <1>1, <1>3, InsertedOrNot
    <2>2. Len(q) = Len(r)
        BY DEF Alike
    <2>3. /\ DOMAIN q = 1..Len(q) /\ DOMAIN q1 = 1..Len(q) + 1 /\ q1[Len(q) + 1] = row
          /\ Len(q) \in Nat
          /\ DOMAIN r = 1..Len(q) /\ DOMAIN r1 = 1..Len(q) + 1 /\ r1[Len(q) + 1] = row
          /\ \A i \in 1..Len(q) : q1[i] = q[i] /\ r1[i] = r[i]
        BY <2>2, Appended
    <2> HIDE DEF q1, r1
    <2>4. \A i \in 1..Len(q) + 1 : i \in 1..Len(q) \/ i = Len(q) + 1
        BY <2>3
    <2>5. Alike(q1, r1, n)
        BY <2>3, <2>4 DEF Alike
    <2> QED
        BY <2>1, <2>3, <2>5
<1> QED
    BY <1>2, <1>3

(* What is inserted does not depend on the other columns of the rows that are there, and
   leaves them as they are. *)
LEMMA InsertedRowsKept ==
    ASSUME NEW t \in {"file", "translationunit"}, NEW E, NEW q \in Seq(E), NEW r \in Seq(E),
           NEW new \in Seq(E), Alike(q, r, Len(q))
    PROVE  /\ Alike(InsertAll(t, q, new), InsertAll(t, r, new), Len(q))
           /\ \A i \in DOMAIN q : InsertAll(t, q, new)[i] = q[i] /\ InsertAll(t, r, new)[i] = r[i]
<1> DEFINE n == Len(q)
           Kept(s) == \A i \in 1..n : InsertAll(t, q, s)[i] = q[i] /\ InsertAll(t, r, s)[i] = r[i]
           T == {s \in Seq(E) : Alike(InsertAll(t, q, s), InsertAll(t, r, s), n) /\ Kept(s)}
<1>1. n \in Nat /\ DOMAIN q = 1..n
    OBVIOUS
<1>2. <<>> \in T
    BY InsertedNone
<1>3. ASSUME NEW s \in Seq(E), s \in T, NEW row \in E PROVE Append(s, row) \in T
    <2> DEFINE q1 == InsertAll(t, q, s)
               r1 == InsertAll(t, r, s)
    <2>1. InsertAll(t, q, Append(s, row)) = Insert(t, q1, row)
              /\ InsertAll(t, r, Append(s, row)) = Insert(t, r1, row)
        BY InsertedOne
    <2>2. q1 \in Seq(E) /\ r1 \in Seq(E) /\ Len(q1) >= n
        BY InsertAllType
    <2>3. Alike(q1, r1, n) /\ \A i \in 1..n : q1[i] = q[i] /\ r1[i] = r[i]
        BY <1>3
    <2> HIDE DEF q1, r1, n
    <2>4. /\ Alike(Insert(t, q1, row), Insert(t, r1, row), n)
          /\ \A i \in 1..n : Insert(t, q1, row)[i] = q1[i] /\ Insert(t, r1, row)[i] = r1[i]
        BY <1>1, <2>2, <2>3, InsertedAlike
    <2>5. Append(s, row) \in Seq(E)
        OBVIOUS
    <2> QED
        BY <2>1, <2>3, <2>4, <2>5
<1> HIDE DEF T, n
<1>4. Seq(E) \subseteq T
    BY <1>2, <1>3, SeqByInduction
<1> QED
    BY <1>1, <1>4 DEF T, n

LEMMA InsertedLonger ==
    ASSUME NEW t, NEW E, NEW rows \in Seq(E), NEW new \in Seq(E), NEW more \in Seq(E)
    PROVE  Len(InsertAll(t, rows, new \o more)) >= Len(InsertAll(t, rows, new))
<1> DEFINE T == {q \in Seq(E) : Len(InsertAll(t, rows, new \o q)) >= Len(InsertAll(t, rows, new))}
<1>1. <<>> \in T
    <2>1. new \o <<>> = new
        OBVIOUS
    <2>2. InsertAll(t, rows, new) \in Seq(E)
        BY InsertAllType
    <2> QED
        BY <2>1, <2>2
<1>2. ASSUME NEW q \in Seq(E), q \in T, NEW row \in E PROVE Append(q, row) \in T
    <2> DEFINE nq == new \o q
               r == InsertAll(t, rows, nq)
    <2>1. nq \in Seq(E) /\ new \o Append(q, row) = Append(nq, row)
        BY ConcatProperties, AppendBehind
    <2> HIDE DEF nq
    <2>2. r \in Seq(E) /\ Len(r) >= Len(InsertAll(t, rows, new))
        BY <1>2, <2>1, InsertAllType DEF nq
    <2>3. InsertAll(t, rows, Append(nq, row)) = Insert(t, r, row)
        BY <2>1, InsertedOne
    <2> HIDE DEF r
    <2>4. Len(Insert(t, r, row)) >= Len(r) /\ Insert(t, r, row) \in Seq(E)
              /\ InsertAll(t, rows, new) \in Seq(E)
        BY <2>2, InsertType, InsertAllType
    <2>5. Append(q, row) \in Seq(E)
        OBVIOUS
    <2> DEFINE a == Len(InsertAll(t, rows, new))
               b == Len(Insert(t, r, row))
               c == Len(r)
    <2>6. a \in Nat /\ b \in Nat /\ c \in Nat /\ c >= a /\ b >= c
        BY <2>2, <2>4
    <2>7. b >= a
        <3> HIDE DEF a, b, c
        <3> QED
            BY <2>6
    <2>8. InsertAll(t, rows, new \o Append(q, row)) = Insert(t, r, row)
        BY <2>1, <2>3
    <2> QED
        BY <2>5, <2>7, <2>8
<1> HIDE DEF T
<1>3. Seq(E) \subseteq T
    BY <1>1, <1>2, SeqByInduction
<1> QED
    BY <1>3 DEF T

Distinct(rows) == \A i, j \in DOMAIN rows : rows[i].id = rows[j].id => i = j

LEMMA InsertedDistinct ==
    ASSUME NEW t \in {"file", "translationunit"}, NEW E, NEW rows \in Seq(E), NEW new \in Seq(E),
           Distinct(rows)
    PROVE  Distinct(InsertAll(t, rows, new))
<1> DEFINE T == {q \in Seq(E) : Distinct(InsertAll(t, rows, q))}
<1>1. <<>> \in T
    BY InsertedNone
<1>2. ASSUME NEW q \in Seq(E), q \in T, NEW row \in E PROVE Append(q, row) \in T
    <2> DEFINE r == InsertAll(t, rows, q)
    <2>1. InsertAll(t, rows, Append(q, row)) = Insert(t, r, row) /\ r \in Seq(E) /\ Distinct(r)
        BY <1>2, InsertedOne, InsertAllType
    <2> HIDE DEF r
    <2>2. CASE \E i \in DOMAIN r : r[i].id = row.id
        BY <2>1, <2>2, InsertedOrNot
    <2>3. CASE ~\E i \in DOMAIN r : r[i].id = row.id
        <3> DEFINE r1 == Append(r, row)
        <3>1. /\ DOMAIN r = 1..Len(r) /\ DOMAIN r1 = 1..Len(r) + 1 /\ r1[Len(r) + 1] = row
              /\ Len(r) \in Nat
              /\ \A i \in 1..Len(r) : r1[i] = r[i]
            BY <2>1, Appended
        <3> HIDE DEF r1
        <3>2. \A i \in 1..Len(r) + 1 : i \in 1..Len(r) \/ i = Len(r) + 1
            BY <3>1
        <3>3. Distinct(r1)
            BY <2>1, <2>3, <3>1, <3>2 DEF Distinct
        <3>4. Insert(t, r, row) = r1
            BY <2>3, InsertedOrNot DEF r1
        <3> QED
            BY <2>1, <3>3, <3>4
    <2>4. Append(q, row) \in Seq(E)
        OBVIOUS
    <2>5. Distinct(Insert(t, r, row))
        BY <2>1, <2>2, <2>3
    <2> QED
        BY <2>1, <2>4, <2>5
<1> HIDE DEF T
<1>3. Seq(E) \subseteq T
    BY <1>1, <1>2, SeqByInduction
<1> QED
    BY <1>3 DEF T

(* Insertion of rows of which some columns are computed. *)
Mapped(m, q) == [i \in DOMAIN q |-> m[q[i]]]

LEMMA MappedType ==
    ASSUME NEW E, NEW E2, NEW m \in [E -> E2], NEW q \in Seq(E)
    PROVE  /\ Mapped(m, q) \in Seq(E2) /\ DOMAIN Mapped(m, q) = DOMAIN q
           /\ Len(Mapped(m, q)) = Len(q)
           /\ \A i \in DOMAIN q : Mapped(m, q)[i] = m[q[i]]
BY DEF Mapped

LEMMA MappedAppended ==
    ASSUME NEW E, NEW E2, NEW m \in [E -> E2], NEW q \in Seq(E), NEW x \in E
    PROVE  Mapped(m, Append(q, x)) = Append(Mapped(m, q), m[x])
<1> DEFINE a == Append(q, x)
           b == Mapped(m, q)
<1>1. /\ a \in Seq(E) /\ DOMAIN a = 1..Len(q) + 1 /\ a[Len(q) + 1] = x /\ Len(q) \in Nat
      /\ DOMAIN q = 1..Len(q) /\ \A i \in 1..Len(q) : a[i] = q[i]
    BY Appended
<1>2. b \in Seq(E2) /\ Len(b) = Len(q) /\ \A i \in 1..Len(q) : b[i] = m[q[i]]
    <2>1. b \in Seq(E2) /\ Len(b) = Len(q) /\ \A i \in DOMAIN q : b[i] = m[q[i]]
        BY MappedType
    <2> HIDE DEF b
    <2> QED
        BY <1>1, <2>1
<1> HIDE DEF a, b
<1>3. /\ Mapped(m, a) \in Seq(E2) /\ DOMAIN Mapped(m, a) = 1..Len(q) + 1
      /\ \A i \in 1..Len(q) + 1 : Mapped(m, a)[i] = m[a[i]]
    <2>1. /\ Mapped(m, a) \in Seq(E2) /\ DOMAIN Mapped(m, a) = DOMAIN a
          /\ \A i \in DOMAIN a : Mapped(m, a)[i] = m[a[i]]
        <3>1. a \in Seq(E)
            BY <1>1
        <3>2. Mapped(m, a) \in Seq(E2)
            BY <3>1, MappedType
        <3> QED
            BY <3>2 DEF Mapped
    <2> QED
        BY <1>1, <2>1
<1>4. /\ DOMAIN Append(b, m[x]) = 1..Len(q) + 1 /\ Append(b, m[x]) \in Seq(E2) /\ m[x] \in E2
      /\ Append(b, m[x])[Len(q) + 1] = m[x] /\ \A i \in 1..Len(q) : Append(b, m[x])[i] = b[i]
    BY <1>2, Appended
<1> DEFINE c == Mapped(m, a)
           d == Append(b, m[x])
<1>5. \A i \in 1..Len(q) + 1 : c[i] = d[i]
    <2>1. \A i \in 1..Len(q) + 1 : i \in 1..Len(q) \/ i = Len(q) + 1
        BY <1>1
    <2> QED
        BY <1>1, <1>2, <1>3, <1>4, <2>1
<1>6. c = d
    <2>1. c \in Seq(E2) /\ d \in Seq(E2) /\ DOMAIN c = DOMAIN d /\ \A i \in DOMAIN c : c[i] = d[i]
        BY <1>3, <1>4, <1>5
    <2> HIDE DEF c, d
    <2> QED
        BY <2>1
<1> QED
    BY <1>6 DEF a, b

KeepsIds(m, E) == \A e \in E : m[e].id = e.id

LEMMA InsertedMapped ==
    ASSUME NEW t, t \in {"file", "translationunit"}, NEW E, NEW m, KeepsIds(m, E),
           m \in [E -> {m[e] : e \in E}], NEW rows, rows \in Seq(E), NEW new, new \in Seq(E)
    PROVE  Mapped(m, InsertAll(t, rows, new)) = InsertAll(t, Mapped(m, rows), Mapped(m, new))
<1> DEFINE E2 == {m[e] : e \in E}
<1>0. m \in [E -> E2]
    OBVIOUS
<1> HIDE DEF E2
<1> DEFINE T == {q \in Seq(E) : Mapped(m, InsertAll(t, rows, q))
                   = InsertAll(t, Mapped(m, rows), Mapped(m, q))}
<1>1. <<>> \in T
    <2>1. Mapped(m, <<>>) = <<>>
        BY DEF Mapped
    <2> QED
        BY <2>1, InsertedNone
<1>2. ASSUME NEW q \in Seq(E), q \in T, NEW row \in E PROVE Append(q, row) \in T
    <2> DEFINE r == InsertAll(t, rows, q)
               r2 == InsertAll(t, Mapped(m, rows), Mapped(m, q))
    <2>1. InsertAll(t, rows, Append(q, row)) = Insert(t, r, row) /\ r \in Seq(E)
        <3>1. r \in Seq(E)
            BY InsertAllType
        <3>2. InsertAll(t, rows, Append(q, row)) = Insert(t, r, row)
            BY InsertedOne
        <3> QED
            BY <3>1, <3>2
    <2>2. InsertAll(t, Mapped(m, rows), Mapped(m, Append(q, row))) = Insert(t, r2, m[row])
        <3>1. Mapped(m, Append(q, row)) = Append(Mapped(m, q), m[row])
            BY <1>0, MappedAppended, ZenonT(30)
        <3>2. Mapped(m, q) \in Seq(E2) /\ m[row] \in E2
            BY <1>0, MappedType
        <3> QED
            BY <3>1, <3>2, InsertedOne
    <2>3. Mapped(m, r) = r2
        BY <1>2
    <2> HIDE DEF r, r2
    <2>4. Mapped(m, Insert(t, r, row)) = Insert(t, r2, m[row])
        <3>1. /\ DOMAIN r2 = DOMAIN r /\ \A i \in DOMAIN r : r2[i] = m[r[i]] /\ r[i] \in E
            <4>1. DOMAIN Mapped(m, r) = DOMAIN r /\ \A i \in DOMAIN r : Mapped(m, r)[i] = m[r[i]]
                BY DEF Mapped
            <4> QED
                BY <2>1, <2>3, <4>1
        <3>2. (\E i \in DOMAIN r : r[i].id = row.id) <=> (\E i \in DOMAIN r2 : r2[i].id = m[row].id)
            BY <3>1 DEF KeepsIds
        <3>3. CASE \E i \in DOMAIN r : r[i].id = row.id
            <4>1. Insert(t, r, row) = r /\ Insert(t, r2, m[row]) = r2
                BY <3>2, <3>3, InsertedOrNot
            <4> QED
                BY <2>3, <4>1
        <3>4. CASE ~\E i \in DOMAIN r : r[i].id = row.id
            <4>1. Insert(t, r, row) = Append(r, row)
                BY <3>4, InsertedOrNot
            <4>2. Insert(t, r2, m[row]) = Append(r2, m[row])
                BY <3>2, <3>4, InsertedOrNot
            <4>3. Mapped(m, Append(r, row)) = Append(Mapped(m, r), m[row])
                BY <1>0, <2>1, MappedAppended, ZenonT(30)
            <4> QED
                BY <2>3, <4>1, <4>2, <4>3
        <3> QED
            BY <3>3, <3>4
    <2>5. Append(q, row) \in Seq(E)
        OBVIOUS
    <2> QED
        BY <2>1, <2>2, <2>4, <2>5
<1> HIDE DEF T
<1>3. Seq(E) \subseteq T
    BY <1>1, <1>2, SeqByInduction
<1> QED
    BY <1>3 DEF T
-----------------------------------------------------------------------------
(* The rows of the tables, and those of pending data. *)
InfoRow == [key : Key, value : Value]
FileRow == [id : Nat, path : Path, content : {Null} \cup (Path \X Wording)]
UnitRow == [id : Nat, file : Nat, ast : BOOLEAN, options : Nat]
PendingUnit == [id : Nat, file : Nat, ast : {FALSE}, options : Options, object : Nat]
IncludeRow == [unit : Nat \cup {Null}, file : Nat, line : Nat, included : Nat]
SymbolRow == [id : SymbolId, version : Version]
BaseRow == [symbol : SymbolId, base : SymbolId]
ReferenceRow == [symbol : SymbolId, file : Nat]

RowOf(t) ==
    CASE t = "info" -> InfoRow
      [] t = "file" -> FileRow
      [] t = "translationunit" -> UnitRow
      [] t = "ppinclude" -> IncludeRow
      [] t = "include" -> IncludeRow
      [] t = "symbol" -> SymbolRow
      [] t = "base" -> BaseRow
      [] t = "symbolreference" -> ReferenceRow

PendingRow(t) == IF t = "translationunit" THEN PendingUnit ELSE RowOf(t)

Database(db) ==
    /\ DOMAIN db = Table \cup {"compileoptions"}
    /\ \A t \in Table : db[t] \in Seq(RowOf(t))
    /\ db["compileoptions"] \in Seq({Columns(options) : options \in Options})

SnapshotTypes ==
    /\ isOpen \in BOOLEAN /\ hasPending \in BOOLEAN /\ closing \in BOOLEAN /\ inTx \in BOOLEAN
    /\ phase \in 0..9 /\ copying \in Nat
    /\ Database(work) /\ Database(disk)
    /\ DOMAIN pending = Table /\ \A t \in Table : pending[t] \in Seq(PendingRow(t))
    /\ files \in [DOMAIN files -> Path]
    /\ text \in [Path -> Wording \cup {Null}]

(* what is done in which state of the object *)
Usage ==
    /\ ~isOpen => /\ ~hasPending /\ phase = 0 /\ copying = 0 /\ ~inTx /\ work = disk
    /\ ~hasPending => pending = Empty
    /\ phase # 0 => isOpen /\ hasPending /\ inTx /\ copying = 0
    /\ copying # 0 => isOpen
    /\ ~inTx => work = disk

(* the lists have the ids of the database and of the pending data *)
Lists ==
    isOpen => /\ DOMAIN files = Ids(work["file"]) \cup Ids(pending["file"])
              /\ DOMAIN units = Ids(work["translationunit"]) \cup Ids(pending["translationunit"])

(* the flush has written the tables before the one it is at *)
Written ==
    /\ phase > 2 => Ids(pending["file"]) \subseteq Ids(work["file"])
    /\ phase > 3 => Ids(pending["translationunit"]) \subseteq Ids(work["translationunit"])
    /\ phase > 6 => Ids(pending["symbol"]) \subseteq Ids(work["symbol"])

(* rows that name ids of these files, units and symbols only *)
UnitsIn(rows, fileIds) == \A row \in Range(rows) : row.file \in fileIds
IncludesIn(rows, fileIds) ==
    \A row \in Range(rows) : row.file \in fileIds /\ row.included \in fileIds
UnitIncludesIn(rows, unitIds) == \A row \in Range(rows) : row.unit \in unitIds
BasesIn(rows, symbolIds) ==
    \A row \in Range(rows) : row.symbol \in symbolIds /\ row.base \in symbolIds
ReferencesIn(rows, symbolIds, fileIds) ==
    \A row \in Range(rows) : row.symbol \in symbolIds /\ row.file \in fileIds

Referring(db, fileIds, unitIds, symbolIds) ==
    /\ UnitsIn(db["translationunit"], fileIds)
    /\ IncludesIn(db["ppinclude"], fileIds) /\ IncludesIn(db["include"], fileIds)
    /\ UnitIncludesIn(db["ppinclude"], unitIds)
    /\ BasesIn(db["base"], symbolIds)
    /\ ReferencesIn(db["symbolreference"], symbolIds, fileIds)

OptionsIn(rows, numbers) == \A row \in Range(rows) : row.options \in numbers

(* all ids of a database are its own *)
Resolves(db) ==
    /\ Referring(db, Ids(db["file"]), Ids(db["translationunit"]), Ids(db["symbol"]))
    /\ OptionsIn(db["translationunit"], DOMAIN db["compileoptions"])

PendingResolves ==
    isOpen => Referring(pending, DOMAIN files, DOMAIN units,
                        Ids(work["symbol"]) \cup Ids(pending["symbol"]))

IdInv == /\ SnapshotTypes /\ Usage /\ Lists /\ Written
         /\ PendingResolves /\ Resolves(work) /\ Resolves(disk)
-----------------------------------------------------------------------------
LEMMA TableIs ==
    /\ Table = {"info", "file", "translationunit", "ppinclude", "include", "symbol", "base",
                "symbolreference"}
    /\ Len(Tables) = 8
    /\ Tables[1] = "info" /\ Tables[2] = "file" /\ Tables[3] = "translationunit"
    /\ Tables[4] = "ppinclude" /\ Tables[5] = "include" /\ Tables[6] = "symbol"
    /\ Tables[7] = "base" /\ Tables[8] = "symbolreference"
<1>1. /\ Len(Tables) = 8 /\ DOMAIN Tables = 1..8
      /\ Tables[1] = "info" /\ Tables[2] = "file" /\ Tables[3] = "translationunit"
      /\ Tables[4] = "ppinclude" /\ Tables[5] = "include" /\ Tables[6] = "symbol"
      /\ Tables[7] = "base" /\ Tables[8] = "symbolreference"
    BY DEF Tables
<1>2. 1..8 = {1, 2, 3, 4, 5, 6, 7, 8}
    OBVIOUS
<1>3. Table = {Tables[n] : n \in {1, 2, 3, 4, 5, 6, 7, 8}}
    BY <1>1, <1>2 DEF Table, Range
<1> QED
    BY <1>1, <1>3

LEMMA RowsOfTables ==
    /\ RowOf("info") = InfoRow /\ RowOf("file") = FileRow /\ RowOf("translationunit") = UnitRow
    /\ RowOf("ppinclude") = IncludeRow /\ RowOf("include") = IncludeRow
    /\ RowOf("symbol") = SymbolRow /\ RowOf("base") = BaseRow
    /\ RowOf("symbolreference") = ReferenceRow
    /\ PendingRow("translationunit") = PendingUnit
    /\ \A t : t # "translationunit" => PendingRow(t) = RowOf(t)
BY DEF RowOf, PendingRow

LEMMA NothingIn ==
    /\ Ids(<<>>) = {} /\ Range(<<>>) = {}
BY DEF Ids, Range

LEMMA EmptyRefers ==
    ASSUME NEW fileIds, NEW unitIds, NEW symbolIds
    PROVE  /\ \A t \in Table : Empty[t] = <<>>
           /\ Referring(Empty, fileIds, unitIds, symbolIds)
<1>1. \A t \in Table : Empty[t] = <<>>
    BY DEF Empty
<1> QED
    BY <1>1, TableIs, NothingIn
       DEF Referring, UnitsIn, IncludesIn, UnitIncludesIn, BasesIn, ReferencesIn

(* The ids of a list have a bound, so that Size returns one that is free. *)
LEMMA IdsBounded ==
    ASSUME NEW E, \A e \in E : e.id \in Nat, NEW rows \in Seq(E)
    PROVE  Ids(rows) \subseteq Nat /\ \E n \in Nat : \A id \in Ids(rows) : id < n
<1> DEFINE T == {q \in Seq(E) : Ids(q) \subseteq Nat /\ \E n \in Nat : \A id \in Ids(q) : id < n}
<1>1. <<>> \in T
    BY NothingIn
<1>2. ASSUME NEW q \in Seq(E), q \in T, NEW row \in E PROVE Append(q, row) \in T
    <2>1. PICK n \in Nat : \A id \in Ids(q) : id < n
        BY <1>2
    <2>2. Ids(Append(q, row)) = Ids(q) \cup {row.id}
        BY RowsAppended DEF Ids
    <2>3. Ids(q) \subseteq Nat /\ row.id \in Nat
        BY <1>2
    <2> DEFINE m == IF row.id < n THEN n ELSE row.id + 1
    <2>4. m \in Nat /\ \A id \in Ids(Append(q, row)) : id < m
        BY <2>1, <2>2, <2>3
    <2> HIDE DEF m
    <2>5. Append(q, row) \in Seq(E)
        OBVIOUS
    <2> QED
        BY <2>2, <2>3, <2>4, <2>5
<1> HIDE DEF T
<1>3. Seq(E) \subseteq T
    BY <1>1, <1>2, SeqByInduction
<1> QED
    BY <1>3 DEF T

LEMMA SizeIsFree ==
    ASSUME NEW list, DOMAIN list \subseteq Nat, NEW n \in Nat, \A i \in DOMAIN list : i < n
    PROVE  Size(list) \in Nat /\ \A i \in DOMAIN list : i < Size(list)
<1>1. CASE DOMAIN list = {}
    BY <1>1 DEF Size
<1>2. CASE DOMAIN list # {}
    <2> DEFINE S == DOMAIN list
    <2>1. \A i \in S : i <= n
        OBVIOUS
    <2> HIDE DEF S
    <2>2. Max(S) \in S /\ \A i \in S : i <= Max(S)
        BY <1>2, <2>1, MaxIsGreatest DEF S
    <2>3. Size(list) = 1 + Max(S)
        BY <1>2 DEF Size, S
    <2>4. S \subseteq Nat /\ S = DOMAIN list
        BY DEF S
    <2> QED
        BY <2>2, <2>3, <2>4
<1> QED
    BY <1>1, <1>2

(* What the ids stand for. *)
IdsDistinct ==
    \A db \in {work, disk} : Distinct(db["file"]) /\ Distinct(db["translationunit"])

OfDistinctKeys(rows) == \A i, j \in DOMAIN rows : rows[i].key = rows[j].key => i = j

OneValuePerKey == OfDistinctKeys(pending["info"])

(* an object of options is that of the units of one call *)
OneObject(rows) ==
    \A row1, row2 \in Range(rows) : row1.object = row2.object => row1.options = row2.options

ObjectsShared ==
    /\ isOpen => \A row \in Range(pending["translationunit"]) : row.object \in DOMAIN units
    /\ OneObject(pending["translationunit"])

(* the lists hold what the rows do; options were added to this object, or read back *)
FilesAgree ==
    isOpen => \A row \in Range(work["file"]) \cup Range(pending["file"]) : files[row.id] = row.path

StoredOptions(columns, options) ==
    (options \in Options /\ columns = Columns(options)) \/ options = UnitOptions(columns)

UnitsAgree ==
    isOpen =>
        /\ \A row \in Range(pending["translationunit"]) :
              units[row.id] = [file |-> row.file, options |-> row.options]
        /\ \A row \in Range(work["translationunit"]) :
              /\ units[row.id].file = row.file
              /\ StoredOptions(work["compileoptions"][row.options], units[row.id].options)

StoreInv == IdsDistinct /\ OneValuePerKey /\ ObjectsShared /\ FilesAgree /\ UnitsAgree
-----------------------------------------------------------------------------
(* Additions. *)
(* every row of r is one of p or of q *)
FromBoth(p, q, r) == \A t \in Table : Range(r[t]) \subseteq Range(p[t]) \cup Range(q[t])

LEMMA ReferringJoined ==
    ASSUME NEW p, NEW q, NEW r, FromBoth(p, q, r),
           NEW F1, NEW U1, NEW S1, Referring(p, F1, U1, S1),
           NEW F, NEW U, NEW S, F1 \subseteq F, U1 \subseteq U, S1 \subseteq S,
           Referring(q, F, U, S)
    PROVE  Referring(r, F, U, S)
<1>1. ASSUME NEW t \in Table, NEW row \in Range(r[t])
      PROVE row \in Range(p[t]) \/ row \in Range(q[t])
    BY DEF FromBoth
<1>2. UnitsIn(r["translationunit"], F)
    BY <1>1, TableIs DEF Referring, UnitsIn
<1>3. IncludesIn(r["ppinclude"], F) /\ IncludesIn(r["include"], F)
    BY <1>1, TableIs DEF Referring, IncludesIn
<1>4. UnitIncludesIn(r["ppinclude"], U)
    BY <1>1, TableIs DEF Referring, UnitIncludesIn
<1>5. BasesIn(r["base"], S)
    BY <1>1, TableIs DEF Referring, BasesIn
<1>6. ReferencesIn(r["symbolreference"], S, F)
    BY <1>1, TableIs DEF Referring, ReferencesIn
<1> QED
    BY <1>2, <1>3, <1>4, <1>5, <1>6 DEF Referring

(* the rows that an Add adds to a table *)
New(newRows) == [t \in Table |-> IF t \in DOMAIN newRows THEN newRows[t] ELSE <<>>]

(* What is added may refer to what is in the lists, to a symbol that is known, or to what
   is added with it. *)
NewRefers(newRows) ==
    /\ DOMAIN newRows \subseteq Table \ {"info"}
    /\ \A t \in DOMAIN newRows : newRows[t] \in Seq(PendingRow(t))
    /\ files' \in [DOMAIN files' -> Path]
    /\ DOMAIN files' = DOMAIN files \cup Ids(New(newRows)["file"])
    /\ DOMAIN units' = DOMAIN units \cup Ids(New(newRows)["translationunit"])
    /\ Referring(New(newRows), DOMAIN files', DOMAIN units',
                 Ids(work["symbol"]) \cup Ids(pending["symbol"]) \cup Ids(New(newRows)["symbol"]))

(* It is in the lists as it is in its rows, and units come with options of their own. *)
NewAgrees(newRows) ==
    /\ \A i \in DOMAIN files : files'[i] = files[i]
    /\ \A i \in DOMAIN units : units'[i] = units[i]
    /\ \A row \in Range(New(newRows)["file"]) : files'[row.id] = row.path
    /\ \A row \in Range(New(newRows)["translationunit"]) :
          /\ units'[row.id] = [file |-> row.file, options |-> row.options]
          /\ row.object \in DOMAIN units' \ DOMAIN units
          /\ \A other \in Range(New(newRows)["translationunit"]) : other.options = row.options

Fits(newRows) == Add(newRows) /\ NewRefers(newRows) /\ NewAgrees(newRows)

LEMMA AddChanges ==
    ASSUME IdInv, NEW newRows, Add(newRows)
    PROVE  /\ isOpen /\ phase = 0 /\ copying = 0 /\ hasPending' = TRUE
           /\ isOpen' = isOpen /\ phase' = phase /\ copying' = copying /\ closing' = closing
           /\ work' = work /\ disk' = disk /\ inTx' = inTx /\ text' = text
           /\ DOMAIN pending' = Table
           /\ \A t \in Table : pending'[t] = pending[t] \o New(newRows)[t]
<1>1. /\ isOpen /\ phase = 0 /\ copying = 0 /\ hasPending' = TRUE
      /\ isOpen' = isOpen /\ phase' = phase /\ copying' = copying /\ closing' = closing
      /\ work' = work /\ disk' = disk /\ inTx' = inTx /\ text' = text
      /\ pending' = [t \in Table |-> IF t \in DOMAIN newRows THEN pending[t] \o newRows[t]
                                     ELSE pending[t]]
    BY DEF Add, Call, Idle, dbVars
<1>2. ASSUME NEW t \in Table PROVE pending'[t] = pending[t] \o New(newRows)[t]
    <2>1. CASE t \in DOMAIN newRows
        BY <1>1, <2>1 DEF New
    <2>2. CASE t \notin DOMAIN newRows
        <3>1. pending[t] \in Seq(PendingRow(t)) /\ New(newRows)[t] = <<>>
                  /\ pending'[t] = pending[t]
            BY <1>1, <2>2 DEF IdInv, SnapshotTypes, New
        <3>2. pending[t] \o <<>> = pending[t]
            BY <3>1
        <3> QED
            BY <3>1, <3>2
    <2> QED
        BY <2>1, <2>2
<1>3. DOMAIN pending' = Table
    BY <1>1
<1> QED
    BY <1>1, <1>2, <1>3

LEMMA RowsAdded ==
    ASSUME IdInv, NEW newRows, Add(newRows), NewRefers(newRows), NEW t \in Table
    PROVE  /\ pending[t] \in Seq(PendingRow(t)) /\ New(newRows)[t] \in Seq(PendingRow(t))
           /\ pending'[t] \in Seq(PendingRow(t))
           /\ Range(pending'[t]) = Range(pending[t]) \cup Range(New(newRows)[t])
           /\ Ids(pending'[t]) = Ids(pending[t]) \cup Ids(New(newRows)[t])
<1> DEFINE new == New(newRows)
<1>1. pending[t] \in Seq(PendingRow(t)) /\ new[t] \in Seq(PendingRow(t))
          /\ pending'[t] = pending[t] \o new[t]
    <2>1. pending[t] \in Seq(PendingRow(t))
        BY DEF IdInv, SnapshotTypes
    <2>2. new[t] \in Seq(PendingRow(t))
        BY DEF New, NewRefers
    <2>3. pending'[t] = pending[t] \o new[t]
        BY AddChanges
    <2> QED
        BY <2>1, <2>2, <2>3
<1> HIDE DEF new
<1>2. Range(pending'[t]) = Range(pending[t]) \cup Range(new[t])
    BY <1>1, RowsJoined
<1>3. pending'[t] \in Seq(PendingRow(t))
    BY <1>1, ConcatProperties
<1> QED
    BY <1>1, <1>2, <1>3 DEF Ids, new

LEMMA AddStep ==
    ASSUME IdInv, NEW newRows, Add(newRows), NewRefers(newRows)
    PROVE  IdInv'
<1> DEFINE new == New(newRows)
<1>1. /\ isOpen /\ phase = 0 /\ copying = 0 /\ hasPending' = TRUE
      /\ isOpen' = isOpen /\ phase' = phase /\ copying' = copying /\ closing' = closing
      /\ work' = work /\ disk' = disk /\ inTx' = inTx /\ text' = text /\ DOMAIN pending' = Table
    BY AddChanges
<1>2. \A t \in Table :
             /\ pending'[t] \in Seq(PendingRow(t))
             /\ Range(pending'[t]) = Range(pending[t]) \cup Range(new[t])
             /\ Ids(pending'[t]) = Ids(pending[t]) \cup Ids(new[t])
    BY RowsAdded
<1> HIDE DEF new
<1>3. SnapshotTypes'
    BY <1>1, <1>2 DEF IdInv, SnapshotTypes, Database, NewRefers
<1>4. Usage'
    BY <1>1 DEF IdInv, Usage
<1>5. Lists'
    <2>1. /\ Ids(pending'["file"]) = Ids(pending["file"]) \cup Ids(new["file"])
          /\ Ids(pending'["translationunit"])
                 = Ids(pending["translationunit"]) \cup Ids(new["translationunit"])
        BY <1>2, TableIs
    <2> QED
        BY <1>1, <2>1 DEF IdInv, Lists, NewRefers, new
<1>6. Written'
    BY <1>1 DEF Written
<1>7. PendingResolves'
    <2>1. Referring(pending, DOMAIN files, DOMAIN units,
                  Ids(work["symbol"]) \cup Ids(pending["symbol"]))
        BY <1>1 DEF IdInv, PendingResolves
    <2>2. Ids(pending'["symbol"]) = Ids(pending["symbol"]) \cup Ids(new["symbol"])
        BY <1>2, TableIs
    <2> DEFINE p == pending
               r == pending'
               F1 == DOMAIN files
               U1 == DOMAIN units
               S1 == Ids(work["symbol"]) \cup Ids(pending["symbol"])
               F == DOMAIN files'
               U == DOMAIN units'
               S == Ids(work["symbol"]) \cup Ids(pending'["symbol"])
    <2>3. S1 \subseteq S /\ F1 \subseteq F /\ U1 \subseteq U
        BY <2>2 DEF NewRefers
    <2>4. Referring(new, F, U, S)
        <3>1. S = Ids(work["symbol"]) \cup Ids(pending["symbol"]) \cup Ids(new["symbol"])
            BY <2>2
        <3> QED
            BY <3>1 DEF NewRefers, new
    <2>5. Referring(p, F1, U1, S1)
        BY <2>1
    <2>6. FromBoth(p, new, r)
        BY <1>2 DEF FromBoth
    <2>7. Referring(r, F, U, S)
        <3> HIDE DEF p, r, F1, U1, S1, F, U, S
        <3> QED
            BY <2>3, <2>4, <2>5, <2>6, ReferringJoined
    <2> QED
        BY <1>1, <2>7 DEF PendingResolves
<1>8. Resolves(work)' /\ Resolves(disk)'
    BY <1>1 DEF IdInv, Resolves
<1> QED
    BY <1>3, <1>4, <1>5, <1>6, <1>7, <1>8 DEF IdInv

LEMMA AddStoreStep ==
    ASSUME IdInv, StoreInv, NEW newRows, Fits(newRows)
    PROVE  StoreInv'
<1> DEFINE new == New(newRows)
           t0 == "translationunit"
<1>1. /\ isOpen /\ isOpen' = isOpen /\ work' = work /\ disk' = disk
      /\ DOMAIN files = Ids(work["file"]) \cup Ids(pending["file"])
      /\ DOMAIN units = Ids(work[t0]) \cup Ids(pending[t0])
    BY AddChanges DEF Fits, IdInv, Lists
<1>2. \A t \in Table : Range(pending'[t]) = Range(pending[t]) \cup Range(new[t])
    BY RowsAdded DEF Fits
<1>3. pending'["info"] = pending["info"]
    <2>1. pending["info"] \in Seq(PendingRow("info"))
              /\ pending'["info"] = pending["info"] \o New(newRows)["info"]
        <3>1. "info" \in Table /\ Add(newRows)
            BY TableIs DEF Fits
        <3>2. pending["info"] \in Seq(PendingRow("info"))
            BY <3>1 DEF IdInv, SnapshotTypes
        <3>3. pending'["info"] = pending["info"] \o New(newRows)["info"]
            BY <3>1, AddChanges
        <3> QED
            BY <3>2, <3>3
    <2>2. New(newRows)["info"] = <<>>
        BY TableIs DEF Fits, NewRefers, New
    <2> QED
        BY <2>1, <2>2
<1>4. /\ Range(pending'["file"]) = Range(pending["file"]) \cup Range(new["file"])
      /\ Range(pending'[t0]) = Range(pending[t0]) \cup Range(new[t0])
    BY <1>2, TableIs
<1>5. /\ \A row \in Range(work["file"]) \cup Range(pending["file"]) : row.id \in DOMAIN files
      /\ \A row \in Range(work[t0]) \cup Range(pending[t0]) : row.id \in DOMAIN units
    BY <1>1 DEF Ids
<1> HIDE DEF new
<1>6. /\ \A i \in DOMAIN files : files'[i] = files[i]
      /\ \A i \in DOMAIN units : units'[i] = units[i]
      /\ \A row \in Range(new["file"]) : files'[row.id] = row.path
      /\ \A row \in Range(new[t0]) :
            /\ units'[row.id] = [file |-> row.file, options |-> row.options]
            /\ row.object \in DOMAIN units' \ DOMAIN units
            /\ \A other \in Range(new[t0]) : other.options = row.options
      /\ DOMAIN units \subseteq DOMAIN units'
    BY DEF Fits, NewAgrees, NewRefers, new
<1>7. IdsDistinct' /\ OneValuePerKey'
    BY <1>1, <1>3 DEF StoreInv, IdsDistinct, OneValuePerKey
<1>8. ObjectsShared'
    BY <1>1, <1>4, <1>6 DEF StoreInv, ObjectsShared, OneObject
<1>9. FilesAgree'
    BY <1>1, <1>4, <1>5, <1>6 DEF StoreInv, FilesAgree
<1>10. UnitsAgree'
    BY <1>1, <1>4, <1>5, <1>6 DEF StoreInv, UnitsAgree
<1> QED
    BY <1>7, <1>8, <1>9, <1>10 DEF StoreInv

(* The ids of the rows pending and stored are numbers that have a bound. *)
LEMMA ListsBounded ==
    ASSUME SnapshotTypes, Lists, isOpen
    PROVE  /\ DOMAIN files \subseteq Nat /\ \E n \in Nat : \A i \in DOMAIN files : i < n
           /\ DOMAIN units \subseteq Nat /\ \E n \in Nat : \A i \in DOMAIN units : i < n
<1>1. /\ work["file"] \in Seq(FileRow) /\ pending["file"] \in Seq(FileRow)
      /\ work["translationunit"] \in Seq(UnitRow) /\ pending["translationunit"] \in Seq(PendingUnit)
    BY TableIs, RowsOfTables DEF SnapshotTypes, Database
<1>2. /\ \A e \in FileRow : e.id \in Nat
      /\ \A e \in UnitRow : e.id \in Nat
      /\ \A e \in PendingUnit : e.id \in Nat
    BY DEF FileRow, UnitRow, PendingUnit
<1>3. ASSUME NEW A, NEW B, A \subseteq Nat, B \subseteq Nat, NEW n \in Nat, NEW m \in Nat,
             \A i \in A : i < n, \A i \in B : i < m
      PROVE  A \cup B \subseteq Nat /\ \E k \in Nat : \A i \in A \cup B : i < k
    <2> DEFINE k == IF n < m THEN m ELSE n
    <2>1. k \in Nat /\ \A i \in A \cup B : i < k
        BY <1>3
    <2> QED
        BY <1>3, <2>1
<1>4. /\ Ids(work["file"]) \subseteq Nat /\ \E n \in Nat : \A i \in Ids(work["file"]) : i < n
      /\ Ids(pending["file"]) \subseteq Nat /\ \E n \in Nat : \A i \in Ids(pending["file"]) : i < n
    BY <1>1, <1>2, IdsBounded
<1>5. /\ Ids(work["translationunit"]) \subseteq Nat
      /\ \E n \in Nat : \A i \in Ids(work["translationunit"]) : i < n
      /\ Ids(pending["translationunit"]) \subseteq Nat
      /\ \E n \in Nat : \A i \in Ids(pending["translationunit"]) : i < n
    BY <1>1, <1>2, IdsBounded
<1>6. DOMAIN files \subseteq Nat /\ \E n \in Nat : \A i \in DOMAIN files : i < n
    BY <1>3, <1>4 DEF Lists
<1>7. DOMAIN units \subseteq Nat /\ \E n \in Nat : \A i \in DOMAIN units : i < n
    BY <1>3, <1>5 DEF Lists
<1> QED
    BY <1>6, <1>7

LEMMA OneRow ==
    ASSUME NEW row
    PROVE  /\ Range(<<row>>) = {row} /\ Ids(<<row>>) = {row.id}
           /\ \A E : row \in E => <<row>> \in Seq(E)
BY DEF Range, Ids

LEMMA AddFileFits ==
    ASSUME IdInv, NEW id \in Nat, NEW p \in Path, AddFileWithId(id, p)
    PROVE  \E newRows : Fits(newRows)
<1> DEFINE row == [id |-> id, path |-> p, content |-> Null]
           newRows == [file |-> <<row>>]
<1>1. /\ files' = [i \in DOMAIN files \cup {id} |-> IF i = id THEN p ELSE files[i]]
      /\ Add(newRows) /\ units' = units /\ isOpen /\ id \notin DOMAIN files
    BY DEF AddFileWithId, Add, Call, Idle
<1>2. row \in FileRow /\ row.id = id /\ row.path = p
    BY DEF FileRow
<1> HIDE DEF row
<1>3. DOMAIN newRows = {"file"} /\ newRows["file"] = <<row>>
    OBVIOUS
<1> HIDE DEF newRows
<1>4. /\ New(newRows)["file"] = <<row>>
      /\ \A t \in Table : t # "file" => New(newRows)[t] = <<>>
    BY <1>3, TableIs DEF New
<1>5. \A t \in DOMAIN newRows : newRows[t] \in Seq(PendingRow(t))
    <2>1. PendingRow("file") = FileRow /\ <<row>> \in Seq(FileRow)
        BY <1>2, OneRow, RowsOfTables
    <2> QED
        BY <1>3, <2>1
<1>6. DOMAIN files' = DOMAIN files \cup Ids(New(newRows)["file"])
    BY <1>1, <1>2, <1>4, OneRow
<1>7. DOMAIN units' = DOMAIN units \cup Ids(New(newRows)["translationunit"])
    BY <1>1, <1>4, TableIs, NothingIn
<1>8. files' \in [DOMAIN files' -> Path]
    BY <1>1 DEF IdInv, SnapshotTypes
<1>9. Referring(New(newRows), DOMAIN files', DOMAIN units',
                Ids(work["symbol"]) \cup Ids(pending["symbol"]) \cup Ids(New(newRows)["symbol"]))
    BY <1>4, TableIs, NothingIn
       DEF Referring, UnitsIn, IncludesIn, UnitIncludesIn, BasesIn, ReferencesIn
<1>10. NewRefers(newRows)
    BY <1>3, <1>5, <1>6, <1>7, <1>8, <1>9, TableIs DEF NewRefers
<1>11. NewAgrees(newRows)
    BY <1>1, <1>2, <1>4, OneRow, TableIs, NothingIn DEF NewAgrees
<1> QED
    BY <1>1, <1>10, <1>11 DEF Fits
LEMMA AddUnitsFit ==
    ASSUME IdInv, NEW list \in Seq(DOMAIN files), NEW options \in Options,
           AddTranslationUnits(list, options)
    PROVE  \E newRows : Fits(newRows)
<1> DEFINE first == Size(units)
           row(i) == [id |-> first + i - 1, file |-> list[i], ast |-> FALSE,
                      options |-> options, object |-> first]
           rows == [i \in DOMAIN list |-> row(i)]
           newRows == [translationunit |-> rows]
<1>1. /\ units' = [i \in DOMAIN units \cup (first..first + Len(list) - 1) |->
                      IF i < first THEN units[i]
                      ELSE [file |-> list[i - first + 1], options |-> options]]
      /\ Add(newRows) /\ files' = files /\ isOpen
    BY DEF AddTranslationUnits, Add, Call, Idle
<1>2. /\ DOMAIN files \subseteq Nat /\ DOMAIN units \subseteq Nat /\ first \in Nat
      /\ \A i \in DOMAIN units : i < first
    <2>1. /\ DOMAIN files \subseteq Nat /\ DOMAIN units \subseteq Nat
          /\ \E n \in Nat : \A i \in DOMAIN units : i < n
        BY <1>1, ListsBounded DEF IdInv
    <2> QED
        BY <2>1, SizeIsFree
<1> HIDE DEF first
<1>3. rows \in Seq(PendingUnit) /\ DOMAIN rows = 1..Len(list) /\ Len(list) \in Nat
    <2>1. \A i \in DOMAIN list : row(i) \in PendingUnit
        BY <1>2 DEF PendingUnit
    <2> HIDE DEF row
    <2> QED
        BY <2>1
<1>4. Range(rows) = {row(i) : i \in 1..Len(list)}
    BY <1>3 DEF Range
<1>5. Ids(rows) = first..first + Len(list) - 1
    <2>1. Ids(rows) = {first + i - 1 : i \in 1..Len(list)}
        <3>1. \A i \in 1..Len(list) : row(i).id = first + i - 1
            OBVIOUS
        <3> HIDE DEF row, rows
        <3>2. Ids(rows) = {row(i).id : i \in 1..Len(list)}
            BY <1>4 DEF Ids
        <3> QED
            BY <3>1, <3>2
    <2>2. \A n \in first..first + Len(list) - 1 : n - first + 1 \in 1..Len(list)
              /\ n = first + (n - first + 1) - 1
        BY <1>2, <1>3
    <2>3. \A i \in 1..Len(list) : first + i - 1 \in first..first + Len(list) - 1
        BY <1>2, <1>3
    <2> HIDE DEF rows
    <2> QED
        BY <2>1, <2>2, <2>3
<1>6. /\ \A r \in Range(rows) : r.file \in DOMAIN files
      /\ \A r \in Range(rows) : /\ r.options = options /\ r.object = first
                                /\ r.id \in first..first + Len(list) - 1
                                /\ r.file = list[r.id - first + 1]
    <2>1. \A i \in 1..Len(list) : /\ first + i - 1 \in first..first + Len(list) - 1
                                  /\ first + i - 1 - first + 1 = i
        BY <1>2, <1>3
    <2>2. \A i \in 1..Len(list) :
             /\ row(i).file = list[i] /\ row(i).file \in DOMAIN files
             /\ row(i).options = options /\ row(i).object = first /\ row(i).id = first + i - 1
        BY <1>3
    <2> HIDE DEF row, rows
    <2>3. ASSUME NEW r \in Range(rows)
          PROVE  /\ r.file \in DOMAIN files /\ r.options = options /\ r.object = first
                 /\ r.id \in first..first + Len(list) - 1 /\ r.file = list[r.id - first + 1]
        <3>1. PICK i \in 1..Len(list) : r = row(i)
            BY <1>4
        <3>2. /\ r.file = list[i] /\ r.file \in DOMAIN files
              /\ r.options = options /\ r.object = first /\ r.id = first + i - 1
            BY <2>2, <3>1
        <3>3. r.id \in first..first + Len(list) - 1 /\ r.id - first + 1 = i
            BY <1>2, <1>3, <3>2
        <3>4. r.file = list[r.id - first + 1]
            BY <3>2, <3>3
        <3> QED
            BY <3>2, <3>3, <3>4
    <2> QED
        BY <2>3
<1>66. ASSUME NEW r \in Range(rows) PROVE units'[r.id] = [file |-> r.file, options |-> r.options]
    <2> DEFINE n == r.id
    <2>1. n \in first..first + Len(list) - 1 /\ ~(n < first) /\ r.file = list[n - first + 1]
              /\ r.options = options
        BY <1>2, <1>3, <1>6
    <2> HIDE DEF n, rows
    <2>2. units'[n] = [file |-> list[n - first + 1], options |-> options]
        BY <1>1, <2>1
    <2> QED
        BY <2>1, <2>2 DEF n
<1>67. \A i \in DOMAIN units : units'[i] = units[i]
    BY <1>1, <1>2
<1> HIDE DEF rows
<1>7. DOMAIN newRows = {"translationunit"} /\ newRows["translationunit"] = rows
    OBVIOUS
<1> HIDE DEF newRows
<1>8. /\ New(newRows)["translationunit"] = rows
      /\ \A t \in Table : t # "translationunit" => New(newRows)[t] = <<>>
    BY <1>7, TableIs DEF New
<1>9. \A t \in DOMAIN newRows : newRows[t] \in Seq(PendingRow(t))
    <2>1. PendingRow("translationunit") = PendingUnit
        BY RowsOfTables
    <2> QED
        BY <1>3, <1>7, <2>1
<1>10. DOMAIN files' = DOMAIN files \cup Ids(New(newRows)["file"])
    BY <1>1, <1>8, TableIs, NothingIn
<1>11. DOMAIN units' = DOMAIN units \cup Ids(New(newRows)["translationunit"])
    BY <1>1, <1>5, <1>8
<1>12. files' \in [DOMAIN files' -> Path]
    BY <1>1 DEF IdInv, SnapshotTypes
<1>13. Referring(New(newRows), DOMAIN files', DOMAIN units',
                 Ids(work["symbol"]) \cup Ids(pending["symbol"]) \cup Ids(New(newRows)["symbol"]))
    BY <1>1, <1>6, <1>8, TableIs, NothingIn
       DEF Referring, UnitsIn, IncludesIn, UnitIncludesIn, BasesIn, ReferencesIn
<1>14. NewRefers(newRows)
    BY <1>7, <1>9, <1>10, <1>11, <1>12, <1>13, TableIs DEF NewRefers
<1>15. NewAgrees(newRows)
    <2>1. /\ Range(New(newRows)["file"]) = {} /\ New(newRows)["translationunit"] = rows
        BY <1>8, TableIs, NothingIn
    <2>2. \A r \in Range(rows) : first \in DOMAIN units' \ DOMAIN units
        <3>1. \A r \in Range(rows) : first \in first..first + Len(list) - 1
            BY <1>2, <1>3, <1>6
        <3> QED
            BY <1>1, <1>2, <3>1
    <2> QED
        BY <1>1, <1>6, <1>66, <1>67, <2>1, <2>2 DEF NewAgrees
<1> QED
    BY <1>1, <1>14, <1>15 DEF Fits

(* Additions that are in none of the two lists. *)
LEMMA AddRowsFit ==
    ASSUME IdInv, NEW newRows, Add(newRows), UNCHANGED memoryVars,
           DOMAIN newRows \subseteq Table \ {"info", "file", "translationunit"},
           \A t \in DOMAIN newRows : newRows[t] \in Seq(RowOf(t)),
           Referring(New(newRows), DOMAIN files, DOMAIN units,
                     Ids(work["symbol"]) \cup Ids(pending["symbol"])
                        \cup Ids(New(newRows)["symbol"]))
    PROVE  Fits(newRows)
<1>1. files' = files /\ units' = units
    BY DEF memoryVars
<1>2. New(newRows)["file"] = <<>> /\ New(newRows)["translationunit"] = <<>>
    BY TableIs DEF New
<1>3. \A t \in DOMAIN newRows : newRows[t] \in Seq(PendingRow(t))
    BY RowsOfTables
<1>4. /\ files' \in [DOMAIN files' -> Path]
      /\ DOMAIN files' = DOMAIN files \cup Ids(New(newRows)["file"])
      /\ DOMAIN units' = DOMAIN units \cup Ids(New(newRows)["translationunit"])
    BY <1>1, <1>2, NothingIn DEF IdInv, SnapshotTypes
<1>5. Referring(New(newRows), DOMAIN files', DOMAIN units',
                Ids(work["symbol"]) \cup Ids(pending["symbol"]) \cup Ids(New(newRows)["symbol"]))
    BY <1>1
<1>6. NewRefers(newRows)
    BY <1>3, <1>4, <1>5 DEF NewRefers
<1>7. NewAgrees(newRows)
    BY <1>1, <1>2, NothingIn DEF NewAgrees
<1> QED
    BY <1>6, <1>7 DEF Fits

LEMMA AddIncludesFits ==
    ASSUME IdInv, NEW u, NEW f, NEW g, AddIncludes(u, f, g)
    PROVE  \E newRows : Fits(newRows)
<1> DEFINE row == [unit |-> u, file |-> f, line |-> 1, included |-> g]
           newRows == [ppinclude |-> IF u = Null THEN <<>> ELSE <<row>>, include |-> <<row>>]
<1>1. /\ u \in DOMAIN units \cup {Null} /\ f \in DOMAIN files /\ g \in DOMAIN files
      /\ Add(newRows) /\ UNCHANGED memoryVars /\ isOpen
    BY DEF AddIncludes, Add, Call, Idle
<1>2. DOMAIN files \subseteq Nat /\ DOMAIN units \subseteq Nat
    BY <1>1, ListsBounded DEF IdInv
<1>3. row \in IncludeRow /\ row.unit = u /\ row.file = f /\ row.included = g
    BY <1>1, <1>2 DEF IncludeRow
<1> HIDE DEF row
<1>4. /\ DOMAIN newRows = {"ppinclude", "include"} /\ newRows["include"] = <<row>>
      /\ newRows["ppinclude"] = IF u = Null THEN <<>> ELSE <<row>>
    OBVIOUS
<1> HIDE DEF newRows
<1>5. /\ New(newRows)["include"] = <<row>>
      /\ New(newRows)["ppinclude"] = IF u = Null THEN <<>> ELSE <<row>>
      /\ \A t \in Table \ {"ppinclude", "include"} : New(newRows)[t] = <<>>
    BY <1>4, TableIs DEF New
<1>6. \A t \in DOMAIN newRows : newRows[t] \in Seq(RowOf(t))
    <2>1. <<row>> \in Seq(IncludeRow) /\ <<>> \in Seq(IncludeRow)
        BY <1>3, OneRow
    <2> QED
        BY <1>4, <2>1, RowsOfTables
<1>7. /\ Range(New(newRows)["include"]) = {row}
      /\ \A r \in Range(New(newRows)["ppinclude"]) : r = row /\ u # Null
      /\ \A t \in Table \ {"ppinclude", "include"} : Range(New(newRows)[t]) = {}
    BY <1>5, OneRow, NothingIn
<1>8. Referring(New(newRows), DOMAIN files, DOMAIN units,
                Ids(work["symbol"]) \cup Ids(pending["symbol"]) \cup Ids(New(newRows)["symbol"]))
    BY <1>1, <1>3, <1>7, TableIs
       DEF Referring, UnitsIn, IncludesIn, UnitIncludesIn, BasesIn, ReferencesIn
<1> QED
    BY <1>1, <1>4, <1>6, <1>8, TableIs, AddRowsFit

(* an addition of one row to one table *)
LEMMA AddRowFits ==
    ASSUME IdInv, NEW t \in Table \ {"info", "file", "translationunit"}, NEW row \in RowOf(t),
           NEW newRows, DOMAIN newRows = {t}, newRows[t] = <<row>>, Add(newRows),
           UNCHANGED memoryVars,
           Referring(New(newRows), DOMAIN files, DOMAIN units,
                     Ids(work["symbol"]) \cup Ids(pending["symbol"])
                        \cup Ids(New(newRows)["symbol"]))
    PROVE  Fits(newRows)
<1>1. <<row>> \in Seq(RowOf(t))
    BY OneRow
<1> QED
    BY <1>1, AddRowsFit

LEMMA AddSymbolFits ==
    ASSUME IdInv, NEW s \in SymbolId, NEW v \in Version, AddSymbol(s, v)
    PROVE  \E newRows : Fits(newRows)
<1> DEFINE row == [id |-> s, version |-> v]
           newRows == [symbol |-> <<row>>]
<1>1. Add(newRows) /\ UNCHANGED memoryVars
    BY DEF AddSymbol
<1>2. row \in RowOf("symbol")
    BY RowsOfTables DEF SymbolRow
<1> HIDE DEF row
<1>3. DOMAIN newRows = {"symbol"} /\ newRows["symbol"] = <<row>>
    OBVIOUS
<1> HIDE DEF newRows
<1>4. \A t \in Table : t # "symbol" => Range(New(newRows)[t]) = {}
    BY <1>3, TableIs, NothingIn DEF New
<1>5. Referring(New(newRows), DOMAIN files, DOMAIN units,
                Ids(work["symbol"]) \cup Ids(pending["symbol"]) \cup Ids(New(newRows)["symbol"]))
    BY <1>4, TableIs DEF Referring, UnitsIn, IncludesIn, UnitIncludesIn, BasesIn, ReferencesIn
<1> QED
    BY <1>1, <1>2, <1>3, <1>5, TableIs, AddRowFits

LEMMA SymbolsKnown ==
    ASSUME SnapshotTypes
    PROVE  Symbols = Ids(work["symbol"]) \cup Ids(pending["symbol"])
<1>1. work["symbol"] \in Seq(SymbolRow) /\ pending["symbol"] \in Seq(SymbolRow)
    BY TableIs, RowsOfTables DEF SnapshotTypes, Database
<1>2. Range(work["symbol"] \o pending["symbol"])
          = Range(work["symbol"]) \cup Range(pending["symbol"])
    BY <1>1, RowsJoined
<1> QED
    BY <1>2 DEF Symbols, Ids

LEMMA AddBaseFits ==
    ASSUME IdInv, NEW s \in SymbolId, NEW b \in SymbolId, AddBase(s, b)
    PROVE  \E newRows : Fits(newRows)
<1> DEFINE row == [symbol |-> s, base |-> b]
           newRows == [base |-> <<row>>]
<1>1. Add(newRows) /\ UNCHANGED memoryVars /\ s \in Symbols /\ b \in Symbols
    BY DEF AddBase
<1>2. row \in RowOf("base") /\ row.symbol = s /\ row.base = b
    BY RowsOfTables DEF BaseRow
<1> HIDE DEF row
<1>3. DOMAIN newRows = {"base"} /\ newRows["base"] = <<row>>
    OBVIOUS
<1> HIDE DEF newRows
<1>4. /\ Range(New(newRows)["base"]) = {row}
      /\ \A t \in Table : t # "base" => Range(New(newRows)[t]) = {}
    BY <1>3, TableIs, NothingIn, OneRow DEF New
<1>5. Referring(New(newRows), DOMAIN files, DOMAIN units,
                Ids(work["symbol"]) \cup Ids(pending["symbol"]) \cup Ids(New(newRows)["symbol"]))
    BY <1>1, <1>2, <1>4, TableIs, SymbolsKnown
       DEF IdInv, Referring, UnitsIn, IncludesIn, UnitIncludesIn, BasesIn, ReferencesIn
<1> QED
    BY <1>1, <1>2, <1>3, <1>5, TableIs, AddRowFits

LEMMA AddSymbolReferenceFits ==
    ASSUME IdInv, NEW s \in SymbolId, NEW f, AddSymbolReference(s, f)
    PROVE  \E newRows : Fits(newRows)
<1> DEFINE row == [symbol |-> s, file |-> f]
           newRows == [symbolreference |-> <<row>>]
<1>1. Add(newRows) /\ UNCHANGED memoryVars /\ s \in Symbols /\ f \in DOMAIN files /\ isOpen
    BY DEF AddSymbolReference, Add, Call, Idle
<1>2. row \in RowOf("symbolreference") /\ row.symbol = s /\ row.file = f
    <2>1. f \in Nat
        BY <1>1, ListsBounded DEF IdInv
    <2> QED
        BY <2>1, RowsOfTables DEF ReferenceRow
<1> HIDE DEF row
<1>3. DOMAIN newRows = {"symbolreference"} /\ newRows["symbolreference"] = <<row>>
    OBVIOUS
<1> HIDE DEF newRows
<1>4. /\ Range(New(newRows)["symbolreference"]) = {row}
      /\ \A t \in Table : t # "symbolreference" => Range(New(newRows)[t]) = {}
    BY <1>3, TableIs, NothingIn, OneRow DEF New
<1>5. Referring(New(newRows), DOMAIN files, DOMAIN units,
                Ids(work["symbol"]) \cup Ids(pending["symbol"]) \cup Ids(New(newRows)["symbol"]))
    BY <1>1, <1>2, <1>4, TableIs, SymbolsKnown
       DEF IdInv, Referring, UnitsIn, IncludesIn, UnitIncludesIn, BasesIn, ReferencesIn
<1> QED
    BY <1>1, <1>2, <1>3, <1>5, TableIs, AddRowFits
-----------------------------------------------------------------------------
(* A property set again takes the place of the pending one. *)
LEMMA OtherKeysType ==
    ASSUME NEW k, NEW rows \in Seq(InfoRow)
    PROVE  /\ OtherKeys(k, rows) \in Seq(InfoRow)
           /\ \A i \in DOMAIN OtherKeys(k, rows) : OtherKeys(k, rows)[i].key # k
<1> DEFINE S == {r \in Range(rows) : r.key # k}
           others == Selected(S, rows)
<1>1. others \in Seq(InfoRow \cap S)
    BY SelectedType
<1>2. OtherKeys(k, rows) = others
    BY DEF OtherKeys
<1> HIDE DEF others
<1>3. others \in Seq(InfoRow) /\ \A i \in DOMAIN others : others[i] \in S
    <2> HIDE DEF S
    <2> QED
        BY <1>1
<1> QED
    BY <1>2, <1>3

(* A key that is set again has one row, as every other key has. *)
LEMMA KeySetAgain ==
    ASSUME NEW rows \in Seq(InfoRow), OfDistinctKeys(rows), NEW row \in InfoRow
    PROVE  /\ OfDistinctKeys(Append(OtherKeys(row.key, rows), row))
           /\ Len(Append(OtherKeys(row.key, rows), row)) >= Len(rows)
<1> DEFINE k == row.key
           S == {r \in Range(rows) : r.key # k}
           others == OtherKeys(k, rows)
           new == Append(others, row)
<1>1. others = Selected(S, rows) /\ others \in Seq(InfoRow)
          /\ \A i \in DOMAIN others : others[i].key # k
    BY OtherKeysType DEF OtherKeys
<1> HIDE DEF others
<1>2. /\ DOMAIN new = 1..Len(others) + 1 /\ new[Len(others) + 1] = row /\ Len(others) \in Nat
      /\ DOMAIN others = 1..Len(others) /\ (\A i \in 1..Len(others) : new[i] = others[i])
      /\ Len(new) = Len(others) + 1
    BY <1>1, Appended
<1> HIDE DEF new
<1>3. OfDistinctKeys(others)
    <2> HIDE DEF S
    <2>1. PICK f \in [DOMAIN others -> DOMAIN rows] :
              /\ \A i \in DOMAIN others : others[i] = rows[f[i]]
              /\ \A i, j \in DOMAIN others : i < j => f[i] < f[j]
        BY <1>1, SelectedFrom
    <2> SUFFICES ASSUME NEW i \in DOMAIN others, NEW j \in DOMAIN others,
                        others[i].key = others[j].key
                 PROVE  i = j
        BY DEF OfDistinctKeys
    <2>2. f[i] = f[j]
        BY <2>1 DEF OfDistinctKeys
    <2>3. f[i] \in Nat /\ f[j] \in Nat
        BY <2>1
    <2>4. i < j \/ j < i \/ i = j
        BY <1>2
    <2> QED
        BY <2>1, <2>2, <2>3, <2>4
<1>4. OfDistinctKeys(new)
    <2>1. \A i \in 1..Len(others) + 1 : i \in 1..Len(others) \/ i = Len(others) + 1
        BY <1>2
    <2> QED
        BY <1>1, <1>2, <1>3, <2>1 DEF OfDistinctKeys
<1>5. Len(others) + 1 >= Len(rows)
    <2> DEFINE U == {q \in Seq(InfoRow) : OfDistinctKeys(q) /\ Range(q) \subseteq Range(rows) 
                                             => Len(Selected(S, q)) + 1 >= Len(q)}
    <2>1. <<>> \in U
        BY SelectedEmpty
    <2>2. ASSUME NEW q \in Seq(InfoRow), q \in U, NEW x \in InfoRow PROVE Append(q, x) \in U
        <3> DEFINE q1 == Append(q, x)
        <3>1. /\ q1 \in Seq(InfoRow) /\ DOMAIN q1 = 1..Len(q) + 1 /\ q1[Len(q) + 1] = x
              /\ Len(q) \in Nat
              /\ DOMAIN q = 1..Len(q) /\ (\A i \in 1..Len(q) : q1[i] = q[i]) /\ Len(q1) = Len(q) + 1
              /\ Range(q1) = Range(q) \cup {x}
            BY Appended, RowsAppended
        <3>2. Selected(S, q1) = IF x \in S THEN Append(Selected(S, q), x) ELSE Selected(S, q)
            BY SelectedAppend
        <3>3. Selected(S, q) \in Seq(InfoRow)
            <4> HIDE DEF S
            <4>1. Selected(S, q) \in Seq(InfoRow \cap S)
                BY SelectedType
            <4> QED
                BY <4>1
        <3> HIDE DEF q1
        <3> SUFFICES ASSUME OfDistinctKeys(q1), Range(q1) \subseteq Range(rows)
                     PROVE  Len(Selected(S, q1)) + 1 >= Len(q1)
            BY <3>1 DEF q1
        <3>4. OfDistinctKeys(q) /\ Range(q) \subseteq Range(rows)
            BY <3>1 DEF OfDistinctKeys
        <3>5. CASE x \in S
            <4>1. Len(Selected(S, q)) + 1 >= Len(q)
                BY <2>2, <3>4
            <4>2. Len(Selected(S, q1)) = Len(Selected(S, q)) + 1 /\ Len(Selected(S, q)) \in Nat
                <5> HIDE DEF S
                <5> QED
                    BY <3>2, <3>3, <3>5
            <4> QED
                BY <3>1, <4>1, <4>2
        <3>6. CASE x \notin S
            <4>1. x.key = k
                BY <3>1, <3>6
            <4>2. \A i \in DOMAIN q : q[i] \in S
                <5> TAKE i \in DOMAIN q
                <5>1. q1[i].key # q1[Len(q) + 1].key
                    BY <3>1 DEF OfDistinctKeys
                <5>2. q[i].key # k /\ q[i] \in Range(q)
                    BY <3>1, <4>1, <5>1 DEF Range
                <5> QED
                    BY <3>4, <5>2
            <4>3. Selected(S, q) = q
                <5> HIDE DEF S
                <5> QED
                    BY <4>2, SelectedAll
            <4>4. Len(Selected(S, q1)) = Len(q)
                BY <3>2, <3>6, <4>3
            <4> QED
                BY <3>1, <4>4
        <3> QED
            BY <3>5, <3>6
    <2> HIDE DEF U
    <2>3. Seq(InfoRow) \subseteq U
        BY <2>1, <2>2, SeqByInduction
    <2> QED
        BY <1>1, <2>3 DEF U
<1> QED
    BY <1>2, <1>4, <1>5 DEF new, others

LEMMA SetPropertyStep ==
    ASSUME IdInv, NEW k \in Key, NEW v \in Value, SetProperty(k, v)
    PROVE  /\ IdInv'
           /\ isOpen /\ phase = 0 /\ UNCHANGED <<isOpen, phase, work, disk, files, units, copying>>
           /\ DOMAIN pending' = Table
           /\ pending'["info"] = Append(OtherKeys(k, pending["info"]), [key |-> k, value |-> v])
           /\ \A t \in Table \ {"info"} : pending'[t] = pending[t]
<1> DEFINE row == [key |-> k, value |-> v]
           info == Append(OtherKeys(k, pending["info"]), row)
<1>1. /\ isOpen /\ phase = 0 /\ copying = 0 /\ hasPending' = TRUE
      /\ isOpen' = isOpen /\ phase' = phase /\ copying' = copying /\ closing' = closing
      /\ work' = work /\ disk' = disk /\ inTx' = inTx /\ text' = text
      /\ files' = files /\ units' = units
      /\ pending' = [pending EXCEPT !["info"] = info]
    BY DEF SetProperty, Call, Idle, dbVars, memoryVars
<1>2. pending["info"] \in Seq(InfoRow) /\ DOMAIN pending = Table
    BY TableIs, RowsOfTables DEF IdInv, SnapshotTypes
<1>3. info \in Seq(InfoRow)
    <2>1. row \in InfoRow
        BY DEF InfoRow
    <2> HIDE DEF row
    <2>2. OtherKeys(k, pending["info"]) \in Seq(InfoRow)
        BY <1>2, OtherKeysType
    <2> DEFINE others == OtherKeys(k, pending["info"])
    <2> HIDE DEF others
    <2>3. Append(others, row) \in Seq(InfoRow)
        BY <2>1, <2>2 DEF others
    <2> QED
        BY <2>3 DEF others
<1> HIDE DEF info
<1>4. /\ DOMAIN pending' = Table /\ pending'["info"] = info
      /\ \A t \in Table \ {"info"} : pending'[t] = pending[t]
    BY <1>1, <1>2, TableIs
<1>5. SnapshotTypes'
    <2>1. \A t \in Table : pending'[t] \in Seq(PendingRow(t))
        BY <1>3, <1>4, RowsOfTables DEF IdInv, SnapshotTypes
    <2> QED
        BY <1>1, <1>4, <2>1 DEF IdInv, SnapshotTypes, Database
<1>6. Usage'
    BY <1>1 DEF IdInv, Usage
<1>7. Lists' /\ Written'
    BY <1>1, <1>4, TableIs DEF IdInv, Lists, Written
<1>8. PendingResolves'
    <2>1. Referring(pending, DOMAIN files, DOMAIN units,
                  Ids(work["symbol"]) \cup Ids(pending["symbol"]))
        BY <1>1 DEF IdInv, PendingResolves
    <2>2. Referring(pending', DOMAIN files, DOMAIN units,
                  Ids(work["symbol"]) \cup Ids(pending["symbol"]))
        BY <1>4, <2>1, TableIs DEF Referring
    <2> QED
        BY <1>1, <1>4, <2>2, TableIs DEF PendingResolves
<1>9. Resolves(work)' /\ Resolves(disk)'
    BY <1>1 DEF IdInv, Resolves
<1> QED
    BY <1>1, <1>4, <1>5, <1>6, <1>7, <1>8, <1>9 DEF IdInv, info

LEMMA SetPropertyStoreStep ==
    ASSUME IdInv, StoreInv, NEW k \in Key, NEW v \in Value, SetProperty(k, v)
    PROVE  StoreInv' /\ Len(pending'["info"]) >= Len(pending["info"])
<1> DEFINE row == [key |-> k, value |-> v]
           t0 == "translationunit"
<1>1. /\ isOpen /\ UNCHANGED <<isOpen, work, disk, files, units>>
      /\ pending'["info"] = Append(OtherKeys(k, pending["info"]), row)
      /\ \A t \in Table \ {"info"} : pending'[t] = pending[t]
    BY SetPropertyStep
<1>2. pending'["file"] = pending["file"] /\ pending'[t0] = pending[t0]
    BY <1>1, TableIs
<1>3. pending["info"] \in Seq(InfoRow)
    BY TableIs, RowsOfTables DEF IdInv, SnapshotTypes
<1>4. row \in InfoRow /\ row.key = k
    BY DEF InfoRow
<1> HIDE DEF row
<1>5. OfDistinctKeys(pending'["info"]) /\ Len(pending'["info"]) >= Len(pending["info"])
    BY <1>1, <1>3, <1>4, KeySetAgain DEF StoreInv, OneValuePerKey
<1>6. OneValuePerKey'
    BY <1>5 DEF OneValuePerKey, OfDistinctKeys
<1>7. IdsDistinct' /\ ObjectsShared' /\ FilesAgree' /\ UnitsAgree'
    BY <1>1, <1>2 DEF StoreInv, IdsDistinct, ObjectsShared, OneObject, FilesAgree, UnitsAgree
<1> QED
    BY <1>5, <1>6, <1>7 DEF StoreInv
-----------------------------------------------------------------------------
(* What a flush does of one table. *)
(* a column that may hold the value *)
MayHold(t, col, value) == \A row \in RowOf(t) : [row EXCEPT ![col] = value] \in RowOf(t)

(* Columns of a row that an UPDATE leaves alone. *)
LEMMA UpdatedRows ==
    ASSUME NEW db, NEW t \in Table, Database(db), NEW id, NEW col, NEW value,
           MayHold(t, col, value)
    PROVE  LET new == Update(db, t, id, col, value)
           IN  /\ Database(new) /\ \A u \in DOMAIN db \ {t} : new[u] = db[u]
               /\ DOMAIN new[t] = DOMAIN db[t]
               /\ \A i \in DOMAIN db[t] :
                     new[t][i] = IF db[t][i].id = id THEN [db[t][i] EXCEPT ![col] = value]
                                 ELSE db[t][i]
<1> DEFINE rows == [i \in DOMAIN db[t] |-> IF db[t][i].id = id THEN [db[t][i] EXCEPT ![col] = value]
                                          ELSE db[t][i]]
           new == Update(db, t, id, col, value)
<1>1. db[t] \in Seq(RowOf(t)) /\ t \in DOMAIN db
    BY DEF Database
<1>2. new = [db EXCEPT ![t] = rows]
    BY DEF Update
<1>3. \A i \in DOMAIN db[t] : rows[i] \in RowOf(t)
    BY <1>1 DEF MayHold
<1>4. DOMAIN rows = DOMAIN db[t]
    OBVIOUS
<1>5. rows \in Seq(RowOf(t))
    <2>1. rows = [i \in DOMAIN db[t] |-> rows[i]]
        OBVIOUS
    <2> HIDE DEF rows
    <2> QED
        BY <1>1, <1>3, <1>4, <2>1
<1>6. \A i \in DOMAIN db[t] :
          rows[i] = IF db[t][i].id = id THEN [db[t][i] EXCEPT ![col] = value] ELSE db[t][i]
    OBVIOUS
<1> HIDE DEF rows, new
<1>7. new[t] = rows /\ DOMAIN new = DOMAIN db /\ \A u \in DOMAIN db \ {t} : new[u] = db[u]
    BY <1>1, <1>2
<1>8. Database(new)
    <2>1. \A u \in Table : new[u] \in Seq(RowOf(u))
        BY <1>5, <1>7 DEF Database
    <2>2. new["compileoptions"] = db["compileoptions"]
        <3>1. t # "compileoptions" /\ "compileoptions" \in DOMAIN db
            BY TableIs DEF Database
        <3> QED
            BY <1>7, <3>1
    <2> QED
        BY <1>7, <2>1, <2>2 DEF Database
<1> QED
    BY <1>4, <1>6, <1>7, <1>8 DEF new

LEMMA IdsByPlace ==
    ASSUME NEW q, NEW r, DOMAIN r = DOMAIN q, \A i \in DOMAIN q : r[i].id = q[i].id
    PROVE  Ids(r) = Ids(q)
<1>1. Ids(q) = {q[i].id : i \in DOMAIN q} /\ Ids(r) = {r[i].id : i \in DOMAIN r}
    BY DEF Ids, Range
<1> QED
    BY <1>1

(* The content of a file and the serialized unit are no references. *)
LEMMA FileUpdated ==
    ASSUME NEW db, Database(db), NEW id, NEW content \in Path \X Wording
    PROVE  LET new == Update(db, "file", id, "content", content)
           IN  /\ Database(new)
               /\ \A t \in {"file", "translationunit", "symbol"} : Ids(new[t]) = Ids(db[t])
               /\ Resolves(db) => Resolves(new)
<1> DEFINE new == Update(db, "file", id, "content", content)
<1>1. \A row \in FileRow : [row EXCEPT !["content"] = content] \in FileRow
    BY DEF FileRow
<1>2. RowOf("file") = FileRow /\ "file" \in Table
    BY RowsOfTables, TableIs
<1>3. /\ Database(new) /\ \A u \in DOMAIN db \ {"file"} : new[u] = db[u]
      /\ DOMAIN new["file"] = DOMAIN db["file"]
      /\ \A i \in DOMAIN db["file"] :
            new["file"][i] = IF db["file"][i].id = id
                             THEN [db["file"][i] EXCEPT !["content"] = content]
                             ELSE db["file"][i]
    <2>1. MayHold("file", "content", content)
        BY <1>1, <1>2 DEF MayHold
    <2> QED
        BY <1>2, <2>1, UpdatedRows
<1> HIDE DEF new
<1>4. \A i \in DOMAIN db["file"] : db["file"][i] \in FileRow
    BY <1>2 DEF Database
<1>5. \A i \in DOMAIN db["file"] : new["file"][i].id = db["file"][i].id
    BY <1>3, <1>4 DEF FileRow
<1>6. Ids(new["file"]) = Ids(db["file"])
    BY <1>3, <1>5, IdsByPlace
<1>7. \A t \in DOMAIN db \ {"file"} : new[t] = db[t]
    BY <1>3
<1>8. DOMAIN db = Table \cup {"compileoptions"}
    BY DEF Database
<1>9. Resolves(db) => Resolves(new)
    BY <1>6, <1>7, <1>8, TableIs DEF Resolves, Referring
<1> QED
    BY <1>3, <1>6, <1>7, <1>8, <1>9, TableIs DEF new

LEMMA UnitUpdated ==
    ASSUME NEW db, Database(db), NEW id, NEW ast \in BOOLEAN
    PROVE  LET new == Update(db, "translationunit", id, "ast", ast)
           IN  /\ Database(new)
               /\ \A t \in {"file", "translationunit", "symbol"} : Ids(new[t]) = Ids(db[t])
               /\ Resolves(db) => Resolves(new)
<1> DEFINE t0 == "translationunit"
           new == Update(db, t0, id, "ast", ast)
<1>1. \A row \in UnitRow : [row EXCEPT !["ast"] = ast] \in UnitRow
    BY DEF UnitRow
<1>2. RowOf(t0) = UnitRow /\ t0 \in Table
    BY RowsOfTables, TableIs
<1>3. /\ Database(new) /\ \A u \in DOMAIN db \ {t0} : new[u] = db[u]
      /\ DOMAIN new[t0] = DOMAIN db[t0]
      /\ \A i \in DOMAIN db[t0] :
            new[t0][i] = IF db[t0][i].id = id THEN [db[t0][i] EXCEPT !["ast"] = ast] ELSE db[t0][i]
    <2>1. MayHold(t0, "ast", ast)
        BY <1>1, <1>2 DEF MayHold
    <2> QED
        BY <1>2, <2>1, UpdatedRows
<1> HIDE DEF new
<1>4. \A i \in DOMAIN db[t0] : db[t0][i] \in UnitRow
    BY <1>2 DEF Database
<1>5. \A i \in DOMAIN db[t0] : /\ new[t0][i].id = db[t0][i].id /\ new[t0][i].file = db[t0][i].file
                               /\ new[t0][i].options = db[t0][i].options
    BY <1>3, <1>4 DEF UnitRow
<1>6. Ids(new[t0]) = Ids(db[t0])
    BY <1>3, <1>5, IdsByPlace
<1>7. \A t \in DOMAIN db \ {t0} : new[t] = db[t]
    BY <1>3
<1>8. DOMAIN db = Table \cup {"compileoptions"}
    BY DEF Database
<1>9. ASSUME NEW F, UnitsIn(db[t0], F) PROVE UnitsIn(new[t0], F)
    BY <1>3, <1>5, <1>9 DEF UnitsIn, Range
<1>10. ASSUME NEW N, OptionsIn(db[t0], N) PROVE OptionsIn(new[t0], N)
    BY <1>3, <1>5, <1>10 DEF OptionsIn, Range
<1>11. Resolves(db) => Resolves(new)
    BY <1>6, <1>7, <1>8, <1>9, <1>10, TableIs DEF Resolves, Referring
<1> QED
    BY <1>3, <1>6, <1>7, <1>8, <1>11, TableIs DEF new
------------------------------------------------------------------------------
LEMMA UnitFields ==
    /\ \A r \in PendingUnit : r.id \in Nat /\ r.file \in Nat /\ r.options \in Options
           /\ r.object \in Nat
    /\ \A r \in PendingUnit : r.ast = FALSE
<1>1. \A r \in PendingUnit : r.id \in Nat /\ r.file \in Nat /\ r.options \in Options
          /\ r.object \in Nat
    BY DEF PendingUnit
<1>2. \A r \in PendingUnit : r.ast \in {FALSE}
    BY Zenon DEF PendingUnit
<1> QED
    BY <1>1, <1>2

(* every pending unit shares one of the objects, and each object is that of a unit *)
LEMMA ObjectsKnown ==
    ASSUME NEW rows \in Seq(PendingUnit)
    PROVE  /\ Objects(rows) \in Seq(Nat)
           /\ \A n \in DOMAIN Objects(rows) : \E i \in DOMAIN rows :
                  rows[i].object = Objects(rows)[n]
           /\ \A i \in DOMAIN rows : /\ Number(rows, rows[i].object) \in DOMAIN Objects(rows)
                                     /\ Objects(rows)[Number(rows, rows[i].object)] = rows[i].object
<1> DEFINE isFirst(i) == \A j \in 1..i - 1 : rows[j].object # rows[i].object
           S == {i \in DOMAIN rows : isFirst(i)}
           places == [i \in DOMAIN rows |-> i]
           firsts == Selected(S, places)
           objects == [n \in DOMAIN firsts |-> rows[firsts[n]].object]
<1>1. Objects(rows) = objects
    BY DEF Objects
<1>2. places \in Seq(DOMAIN rows) /\ {places[i] : i \in DOMAIN places} = DOMAIN rows
    <2>1. DOMAIN places = DOMAIN rows /\ \A i \in DOMAIN rows : places[i] = i
        OBVIOUS
    <2>2. Len(rows) \in Nat /\ DOMAIN rows = 1..Len(rows)
        OBVIOUS
    <2>3. places \in Seq(DOMAIN rows)
        BY <2>2
    <2> HIDE DEF places
    <2> QED
        BY <2>1, <2>3
<1>3. firsts \in Seq(DOMAIN rows) /\ {firsts[n] : n \in DOMAIN firsts} = S
    <2>1. firsts \in Seq(DOMAIN rows \cap S)
        <3> HIDE DEF S, places
        <3> QED
            BY <1>2, SelectedType
    <2>2. {firsts[n] : n \in DOMAIN firsts} = DOMAIN rows \cap S
        <3> HIDE DEF S, places
        <3>1. PICK E : places \in Seq(E)
            BY <1>2
        <3>2. {Selected(S, places)[n] : n \in DOMAIN Selected(S, places)}
                  = {places[i] : i \in DOMAIN places} \cap S
            BY <3>1, SelectedElements
        <3> QED
            BY <1>2, <3>2
    <2> HIDE DEF firsts
    <2> QED
        BY <2>1, <2>2
<1> HIDE DEF firsts
<1>4. objects \in Seq(Nat)
    <2>1. \A n \in DOMAIN firsts : firsts[n] \in DOMAIN rows /\ objects[n] \in Nat
        BY <1>3, UnitFields
    <2> QED
        BY <1>3, <2>1
<1>5. \A n \in DOMAIN objects : \E i \in DOMAIN rows : rows[i].object = objects[n]
    BY <1>3
<1>6. ASSUME NEW i \in DOMAIN rows PROVE \E n \in DOMAIN objects : objects[n] = rows[i].object
    <2> DEFINE same == {j \in DOMAIN rows : rows[j].object = rows[i].object}
    <2>1. same \subseteq Nat /\ i \in same
        OBVIOUS
    <2>2. PICK k \in same : \A j \in same : k <= j
        BY <2>1, Least
    <2>3. k \in S
        <3> SUFFICES ASSUME NEW j \in 1..k - 1 PROVE rows[j].object # rows[k].object
            OBVIOUS
        <3>1. j \in DOMAIN rows /\ ~(k <= j)
            OBVIOUS
        <3> QED
            BY <2>2, <3>1
    <2>4. PICK n \in DOMAIN firsts : firsts[n] = k
        BY <1>3, <2>3
    <2> QED
        BY <2>2, <2>4
<1> HIDE DEF objects
<1>7. \A i \in DOMAIN rows : /\ Number(rows, rows[i].object) \in DOMAIN objects
                             /\ objects[Number(rows, rows[i].object)] = rows[i].object
    BY <1>1, <1>6 DEF Number
<1> QED
    BY <1>1, <1>4, <1>5, <1>7

(* The rows of units and of options that are inserted.  The number of an object leads to
   its options. *)
StoredColumns == {Columns(options) : options \in Options}

Inserted(db, rows, columns, units1) ==
    LET all == db["compileoptions"] \o columns
    IN  /\ InsertUnits(db, rows)
              = [db EXCEPT !["compileoptions"] = all,
                           !["translationunit"] = InsertAll("translationunit", @, units1)]
        /\ DOMAIN units1 = DOMAIN rows
        /\ \A i \in DOMAIN rows :
              /\ units1[i].id = rows[i].id /\ units1[i].file = rows[i].file
              /\ units1[i].ast = FALSE
              /\ units1[i].options \in 1..Len(db["compileoptions"]) + Len(columns)
              /\ OneObject(rows) => all[units1[i].options] = Columns(rows[i].options)

LEMMA UnitsInserted ==
    ASSUME NEW db, Database(db), NEW rows \in Seq(PendingUnit)
    PROVE  \E columns \in Seq(StoredColumns), units1 \in Seq(UnitRow) :
               Inserted(db, rows, columns, units1)
<1> DEFINE t0 == "translationunit"
           co == "compileoptions"
           objects == Objects(rows)
           options(o) == rows[CHOOSE i \in DOMAIN rows : rows[i].object = o].options
           columns == [i \in DOMAIN objects |-> Columns(options(objects[i]))]
           all == db[co] \o columns
           number(i) == Number(rows, rows[i].object)
           row(i) == [id |-> rows[i].id, file |-> rows[i].file, ast |-> FALSE,
                      options |-> OptionsId(db, rows, rows[i].object)]
           units1 == [i \in DOMAIN rows |-> row(i)]
           new == InsertUnits(db, rows)
           C == {Columns(o) : o \in Options}
<1>1. new = [db EXCEPT ![co] = all, ![t0] = InsertAll(t0, @, units1)]
    BY DEF InsertUnits
<1>2. db[co] \in Seq(C)
    BY DEF Database
<1>3. /\ objects \in Seq(Nat)
      /\ \A n \in DOMAIN objects : \E i \in DOMAIN rows : rows[i].object = objects[n]
      /\ \A i \in DOMAIN rows : number(i) \in DOMAIN objects /\ objects[number(i)] = rows[i].object
    BY ObjectsKnown
<1> HIDE DEF objects, number
<1>4. \A n \in DOMAIN objects : options(objects[n]) \in Options
    <2> TAKE n \in DOMAIN objects
    <2> DEFINE i == CHOOSE j \in DOMAIN rows : rows[j].object = objects[n]
    <2>1. i \in DOMAIN rows
        BY <1>3
    <2> HIDE DEF i
    <2>2. rows[i].options \in Options
        BY <2>1, UnitFields
    <2> QED
        BY <2>2 DEF i
<1>5. ASSUME OneObject(rows), NEW i \in DOMAIN rows PROVE options(rows[i].object) = rows[i].options
    <2> DEFINE j == CHOOSE j \in DOMAIN rows : rows[j].object = rows[i].object
    <2>1. j \in DOMAIN rows /\ rows[j].object = rows[i].object
        OBVIOUS
    <2> HIDE DEF j
    <2>2. rows[j].options = rows[i].options
        BY <1>5, <2>1 DEF OneObject, Range
    <2> QED
        BY <2>2 DEF j
<1> HIDE DEF options
<1>6. columns \in Seq(C) /\ Len(columns) = Len(objects)
          /\ \A n \in DOMAIN objects : columns[n] = Columns(options(objects[n]))
    <2>1. \A n \in DOMAIN objects : columns[n] \in C /\ columns[n] = Columns(options(objects[n]))
        BY <1>4
    <2>2. DOMAIN columns = DOMAIN objects /\ columns = [n \in DOMAIN columns |-> columns[n]]
        OBVIOUS
    <2> HIDE DEF C, columns
    <2> QED
        BY <1>3, <2>1, <2>2
<1> HIDE DEF columns, C
<1>7. ASSUME NEW i \in DOMAIN rows
      PROVE  /\ row(i) \in UnitRow /\ row(i).id = rows[i].id /\ row(i).file = rows[i].file
             /\ row(i).ast = FALSE
             /\ row(i).options \in 1..Len(db[co]) + Len(columns)
             /\ OneObject(rows) => all[row(i).options] = Columns(rows[i].options)
    <2>1. /\ number(i) \in 1..Len(objects) /\ Len(objects) \in Nat /\ Len(db[co]) \in Nat
          /\ OptionsId(db, rows, rows[i].object) = Len(db[co]) + number(i)
        BY <1>2, <1>3 DEF OptionsId, number
    <2>2. OptionsId(db, rows, rows[i].object) \in 1..Len(db[co]) + Len(columns)
        BY <1>6, <2>1
    <2>3. rows[i].id \in Nat /\ rows[i].file \in Nat
        BY UnitFields
    <2>4. OptionsId(db, rows, rows[i].object) \in Nat
        BY <2>2
    <2>5. all[Len(db[co]) + number(i)] = columns[number(i)]
        BY <1>2, <1>6, <2>1
    <2>6. columns[number(i)] = Columns(options(rows[i].object))
        BY <1>3, <1>6
    <2>7. OneObject(rows) => all[OptionsId(db, rows, rows[i].object)] = Columns(rows[i].options)
        BY <1>5, <2>1, <2>5, <2>6
    <2> HIDE DEF all
    <2> QED
        BY <2>2, <2>3, <2>4, <2>7 DEF UnitRow
<1> HIDE DEF row, all
<1>8. units1 \in Seq(UnitRow) /\ DOMAIN units1 = DOMAIN rows
          /\ \A i \in DOMAIN rows : units1[i] = row(i)
    <2>1. \A i \in DOMAIN rows : row(i) \in UnitRow
        BY <1>7
    <2> QED
        BY <2>1
<1> HIDE DEF units1, new
<1>9. Inserted(db, rows, columns, units1)
    BY <1>1, <1>7, <1>8 DEF all, Inserted, new
<1> QED
    BY <1>6, <1>8, <1>9 DEF C, StoredColumns

(* The other tables. *)
LEMMA RowsWritten ==
    ASSUME NEW db, Database(db), NEW t \in Table \ {"translationunit"}, NEW rows \in Seq(RowOf(t))
    PROVE  LET new == Write(t, db, rows)
           IN  /\ Database(new)
               /\ \A u \in DOMAIN db \ {t} : new[u] = db[u]
               /\ Range(new[t]) \subseteq Range(db[t]) \cup Range(rows)
               /\ t \in Identified => Ids(new[t]) = Ids(db[t]) \cup Ids(rows)
<1> DEFINE stored == InsertAll(t, db[t], rows)
           new == Write(t, db, rows)
<1>1. new = [db EXCEPT ![t] = stored]
    BY DEF Write
<1>2. /\ DOMAIN db = Table \cup {"compileoptions"} /\ "compileoptions" \notin Table
      /\ db[t] \in Seq(RowOf(t))
    BY TableIs DEF Database
<1>3. /\ stored \in Seq(RowOf(t)) /\ Range(stored) \subseteq Range(db[t]) \cup Range(rows)
      /\ t \in Identified => Ids(stored) = Ids(db[t]) \cup Ids(rows)
    <2>1. stored \in Seq(RowOf(t)) /\ Range(stored) \subseteq Range(db[t]) \cup Range(rows)
        BY <1>2, InsertAllType
    <2>2. t \in Identified => Ids(stored) = Ids(db[t]) \cup Ids(rows)
        BY <1>2, InsertedIds
    <2> QED
        BY <2>1, <2>2
<1> HIDE DEF stored
<1>4. DOMAIN new = DOMAIN db /\ new[t] = stored /\ \A u \in DOMAIN db \ {t} : new[u] = db[u]
    BY <1>1, <1>2
<1> HIDE DEF new
<1>5. Database(new)
    BY <1>2, <1>3, <1>4 DEF Database
<1> QED
    BY <1>3, <1>4, <1>5 DEF new
-----------------------------------------------------------------------------
(* The same of translation units, whose rows name those of their options. *)
(* a list of pending units, each with the columns of its options *)
WithColumns(rows) ==
    [i \in DOMAIN rows |-> [id |-> rows[i].id, file |-> rows[i].file, ast |-> rows[i].ast,
                            options |-> Columns(rows[i].options)]]

(* The options a row names are found by it before and after the insertion of others. *)
LEMMA UnitsWritten ==
    ASSUME NEW db, Database(db), OptionsIn(db["translationunit"], DOMAIN db["compileoptions"]),
           NEW rows \in Seq(PendingUnit)
    PROVE  LET new == InsertUnits(db, rows)
               t0 == "translationunit"
               co == "compileoptions"
           IN  /\ Database(new) /\ \A t \in Table \ {t0} : new[t] = db[t]
               /\ Ids(new[t0]) = Ids(db[t0]) \cup Ids(rows)
               /\ \A F : UnitsIn(db[t0], F) /\ UnitsIn(rows, F) => UnitsIn(new[t0], F)
               /\ OptionsIn(new[t0], DOMAIN new[co])
               /\ Distinct(db[t0]) => Distinct(new[t0])
               /\ DOMAIN db[co] \subseteq DOMAIN new[co]
               /\ \A i \in DOMAIN db[co] : new[co][i] = db[co][i]
               /\ OneObject(rows) =>
                     \A row \in Range(new[t0]) :
                        \/ row \in Range(db[t0])
                        \/ \E given \in Range(rows) :
                              /\ row.id = given.id /\ row.file = given.file
                              /\ new[co][row.options] = Columns(given.options)
               /\ OneObject(rows) =>
                     Rows(new, t0) = InsertAll(t0, Rows(db, t0), WithColumns(rows))
<1> DEFINE t0 == "translationunit"
           co == "compileoptions"
           C == StoredColumns
           new == InsertUnits(db, rows)
<1>1. /\ DOMAIN db = Table \cup {co} /\ t0 \in Table /\ co \notin Table
      /\ db[t0] \in Seq(UnitRow) /\ db[co] \in Seq(C)
    BY TableIs, RowsOfTables DEF Database, StoredColumns
<1>2. PICK columns \in Seq(C), units1 \in Seq(UnitRow) :
          Inserted(db, rows, columns, units1)
    BY UnitsInserted
<1> DEFINE all == db[co] \o columns
           stored == InsertAll(t0, db[t0], units1)
<1>3. /\ new = [db EXCEPT ![co] = all, ![t0] = stored]
      /\ DOMAIN units1 = DOMAIN rows
      /\ \A i \in DOMAIN rows :
            /\ units1[i].id = rows[i].id /\ units1[i].file = rows[i].file
            /\ units1[i].ast = FALSE
            /\ units1[i].options \in 1..Len(db[co]) + Len(columns)
            /\ OneObject(rows) => all[units1[i].options] = Columns(rows[i].options)
    BY <1>2 DEF Inserted, new
<1> HIDE DEF C, new
<1>4. /\ all \in Seq(C) /\ DOMAIN all = 1..Len(db[co]) + Len(columns)
      /\ DOMAIN db[co] \subseteq DOMAIN all /\ \A i \in DOMAIN db[co] : all[i] = db[co][i]
    BY <1>1
<1> HIDE DEF all
<1>5. Ids(units1) = Ids(rows)
    BY <1>3, IdsByPlace
<1>6. /\ stored \in Seq(UnitRow) /\ Range(stored) \subseteq Range(db[t0]) \cup Range(units1)
      /\ Ids(stored) = Ids(db[t0]) \cup Ids(rows)
    <2>1. stored \in Seq(UnitRow) /\ Range(stored) \subseteq Range(db[t0]) \cup Range(units1)
        BY <1>1, <1>3, InsertAllType
    <2>2. t0 \in Identified
        BY DEF Identified
    <2>3. Ids(stored) = Ids(db[t0]) \cup Ids(units1)
        BY <1>1, <1>3, <2>2, InsertedIds
    <2> QED
        BY <1>5, <2>1, <2>3
<1>7. Distinct(db[t0]) => Distinct(stored)
    BY <1>1, <1>3, InsertedDistinct
<1>8. /\ DOMAIN new = DOMAIN db /\ new[t0] = stored /\ new[co] = all
      /\ \A t \in Table \ {t0} : new[t] = db[t]
    BY <1>1, <1>3 DEF all
<1>9. Database(new)
    <2>1. \A t \in Table : new[t] \in Seq(RowOf(t))
        BY <1>6, <1>8, RowsOfTables DEF Database
    <2> QED
        BY <1>1, <1>4, <1>8, <2>1 DEF Database, StoredColumns, C
<1>10. ASSUME NEW row \in Range(units1)
      PROVE  \E given \in Range(rows) :
                /\ row.id = given.id /\ row.file = given.file /\ row.options \in DOMAIN all
                /\ OneObject(rows) => all[row.options] = Columns(given.options)
    <2>1. PICK i \in DOMAIN units1 : row = units1[i]
        BY DEF Range
    <2>2. rows[i] \in Range(rows)
        BY <1>3, <2>1 DEF Range
    <2>3. /\ units1[i].id = rows[i].id /\ units1[i].file = rows[i].file
          /\ units1[i].options \in DOMAIN all
          /\ OneObject(rows) => all[units1[i].options] = Columns(rows[i].options)
        BY <1>3, <1>4, <2>1 DEF all
    <2> QED
        BY <2>1, <2>2, <2>3
<1> HIDE DEF stored
<1>11. ASSUME NEW F, UnitsIn(db[t0], F), UnitsIn(rows, F) PROVE UnitsIn(new[t0], F)
    BY <1>6, <1>8, <1>10, <1>11 DEF UnitsIn
<1>12. OptionsIn(new[t0], DOMAIN new[co])
    BY <1>4, <1>6, <1>8, <1>10 DEF OptionsIn
<1>13. ASSUME OneObject(rows), NEW row \in Range(new[t0])
       PROVE  \/ row \in Range(db[t0])
              \/ \E given \in Range(rows) : /\ row.id = given.id /\ row.file = given.file
                                            /\ new[co][row.options] = Columns(given.options)
    BY <1>6, <1>8, <1>10, <1>13
<1>14. ASSUME OneObject(rows) PROVE Rows(new, t0) = InsertAll(t0, Rows(db, t0), WithColumns(rows))
    <2> DEFINE m == [row \in UnitRow |-> [row EXCEPT !.options = UnitColumns(new, row)]]
    <2>1. m \in [UnitRow -> {m[row] : row \in UnitRow}]
              /\ \A row \in UnitRow : m[row] = [row EXCEPT !.options = UnitColumns(new, row)]
        OBVIOUS
    <2> HIDE DEF m
    <2>2. KeepsIds(m, UnitRow)
        BY <2>1 DEF UnitRow, KeepsIds
    <2>3. Mapped(m, stored) = InsertAll(t0, Mapped(m, db[t0]), Mapped(m, units1))
        <3> DEFINE old == db[t0]
        <3>1. old \in Seq(UnitRow) /\ units1 \in Seq(UnitRow)
            BY <1>1, <1>2
        <3> HIDE DEF old
        <3>2. Mapped(m, InsertAll(t0, old, units1))
                  = InsertAll(t0, Mapped(m, old), Mapped(m, units1))
            BY <2>1, <2>2, <3>1, InsertedMapped
        <3> QED
            BY <3>2 DEF stored, old
    <2>4. Rows(new, t0) = Mapped(m, stored)
        <3>1. \A i \in DOMAIN stored : stored[i] \in UnitRow
            BY <1>6
        <3> QED
            BY <1>8, <2>1, <3>1 DEF Rows, Mapped
    <2>5. Rows(db, t0) = Mapped(m, db[t0])
        <3>1. ASSUME NEW i \in DOMAIN db[t0]
              PROVE  db[t0][i] \in UnitRow
                         /\ UnitColumns(new, db[t0][i]) = UnitColumns(db, db[t0][i])
            <4>1. db[t0][i] \in UnitRow /\ db[t0][i].options \in DOMAIN db[co]
                BY <1>1 DEF OptionsIn, Range
            <4> QED
                BY <1>4, <1>8, <4>1 DEF UnitColumns
        <3> QED
            BY <2>1, <3>1 DEF Rows, Mapped
    <2>6. WithColumns(rows) = Mapped(m, units1)
        <3>1. ASSUME NEW i \in DOMAIN rows
              PROVE  m[units1[i]] = [id |-> rows[i].id, file |-> rows[i].file, ast |-> rows[i].ast,
                                     options |-> Columns(rows[i].options)]
            <4>1. /\ units1[i] \in UnitRow /\ units1[i].id = rows[i].id
                  /\ units1[i].file = rows[i].file
                  /\ units1[i].ast = FALSE /\ units1[i].options \in DOMAIN all
                  /\ all[units1[i].options] = Columns(rows[i].options)
                BY <1>3, <1>4, <1>14 DEF all
            <4>2. UnitColumns(new, units1[i]) = Columns(rows[i].options)
                BY <1>8, <4>1 DEF UnitColumns
            <4>3. rows[i].ast = FALSE
                BY UnitFields
            <4>4. m[units1[i]] = [units1[i] EXCEPT !.options = Columns(rows[i].options)]
                BY <2>1, <4>1, <4>2
            <4>5. ASSUME NEW r \in UnitRow, NEW c
                  PROVE  [r EXCEPT !.options = c]
                             = [id |-> r.id, file |-> r.file, ast |-> r.ast, options |-> c]
                BY DEF UnitRow
            <4> QED
                BY <4>1, <4>3, <4>4, <4>5
        <3> QED
            BY <1>3, <3>1 DEF WithColumns, Mapped
    <2> QED
        BY <2>3, <2>4, <2>5, <2>6
<1> QED
    BY <1>4, <1>6, <1>7, <1>8, <1>9, <1>11, <1>12, <1>13, <1>14 DEF new
-----------------------------------------------------------------------------
(* The tables of a flush. *)
(* each phase but the last fills a table *)
LEMMA Phases == ASSUME NEW n \in 1..8 PROVE Tables[n] \in Table
BY TableIs

LEMMA WriteTableStep ==
    ASSUME IdInv, WriteTable
    PROVE  IdInv'
<1> DEFINE t == Tables[phase]
           f0 == "file"
           t0 == "translationunit"
           s0 == "symbol"
           Known(s) == Ids(work[s]) \cup Ids(pending[s])
<1>1. /\ phase \in 1..8 /\ work' = Write(t, work, pending[t]) /\ phase' = phase + 1
      /\ isOpen' = isOpen /\ hasPending' = hasPending /\ pending' = pending /\ copying' = copying
      /\ closing' = closing /\ disk' = disk /\ inTx' = inTx /\ text' = text
      /\ files' = files /\ units' = units
    BY TableIs DEF WriteTable, memoryVars
<1>2. /\ isOpen /\ hasPending /\ inTx /\ copying = 0
      /\ Database(work) /\ Resolves(work) /\ pending[t] \in Seq(PendingRow(t)) /\ t \in Table
      /\ DOMAIN files = Known(f0) /\ DOMAIN units = Known(t0)
      /\ Referring(pending, Known(f0), Known(t0), Known(s0))
    BY <1>1, Phases DEF IdInv, Usage, SnapshotTypes, Lists, PendingResolves
<1>3. /\ Database(work')
      /\ \A u \in Table : u # t => work'[u] = work[u]
      /\ t \in Identified => Ids(work'[t]) = Known(t)
    <2>1. CASE t = t0
        <3>1. work' = InsertUnits(work, pending[t]) /\ pending[t] \in Seq(PendingUnit)
            BY <1>1, <1>2, <2>1, RowsOfTables DEF Write
        <3> DEFINE rows == pending[t0]
                   new == InsertUnits(work, rows)
        <3>2. work' = new /\ rows \in Seq(PendingUnit)
            BY <2>1, <3>1
        <3> HIDE DEF rows
        <3>3. /\ Database(new) /\ \A u \in Table \ {t0} : new[u] = work[u]
              /\ Ids(new[t0]) = Ids(work[t0]) \cup Ids(rows)
            <4>1. OptionsIn(work[t0], DOMAIN work["compileoptions"])
                BY <1>2 DEF Resolves
            <4> QED
                BY <1>2, <3>2, <4>1, UnitsWritten
        <3> HIDE DEF t, new
        <3> QED
            BY <2>1, <3>2, <3>3 DEF rows
    <2>2. CASE t # t0
        <3>1. pending[t] \in Seq(RowOf(t)) /\ t \in Table \ {t0} /\ Table \subseteq DOMAIN work
            BY <1>2, <2>2, RowsOfTables DEF Database
        <3> HIDE DEF t
        <3> QED
            BY <1>1, <1>2, <3>1, RowsWritten
    <2> QED
        BY <2>1, <2>2
<1>4. t # t0 => /\ Range(work'[t]) \subseteq Range(work[t]) \cup Range(pending[t])
                /\ work'["compileoptions"] = work["compileoptions"]
    <2> SUFFICES ASSUME t # t0
                 PROVE /\ Range(work'[t]) \subseteq Range(work[t]) \cup Range(pending[t])
                                     /\ work'["compileoptions"] = work["compileoptions"]
        OBVIOUS
    <2>1. pending[t] \in Seq(RowOf(t)) /\ t \in Table \ {t0}
        BY <1>2, RowsOfTables
    <2>2. "compileoptions" \in DOMAIN work \ {t}
        BY <1>2, TableIs DEF Database
    <2> HIDE DEF t
    <2> QED
        BY <1>1, <1>2, <2>1, <2>2, RowsWritten
<1>5. t = t0 => /\ \A F : UnitsIn(work[t0], F) /\ UnitsIn(pending[t0], F) => UnitsIn(work'[t0], F)
                /\ OptionsIn(work'[t0], DOMAIN work'["compileoptions"])
    <2> SUFFICES ASSUME t = t0
                 PROVE  /\ \A F : UnitsIn(work[t0], F) /\ UnitsIn(pending[t0], F)
                               => UnitsIn(work'[t0], F)
                        /\ OptionsIn(work'[t0], DOMAIN work'["compileoptions"])
        OBVIOUS
    <2>1. work' = InsertUnits(work, pending[t0]) /\ pending[t0] \in Seq(PendingUnit)
        BY <1>1, <1>2, RowsOfTables DEF Write
    <2>2. OptionsIn(work[t0], DOMAIN work["compileoptions"])
        BY <1>2 DEF Resolves
    <2> QED
        BY <1>2, <2>1, <2>2, UnitsWritten
<1> HIDE DEF t
<1>6. \A u \in Identified : Ids(work[u]) \subseteq Ids(work'[u]) /\ Ids(work'[u]) \subseteq Known(u)
    <2>1. Identified \subseteq Table
        BY TableIs DEF Identified
    <2> QED
        BY <1>3, <2>1
<1>7. SnapshotTypes'
    BY <1>1, <1>3 DEF IdInv, SnapshotTypes
<1>8. Usage'
    BY <1>1, <1>2 DEF IdInv, Usage
<1>9. Lists'
    BY <1>1, <1>2, <1>6 DEF Lists, Identified
<1>10. Written'
    <2>1. /\ t = f0 => Ids(work'[f0]) = Known(f0)
          /\ t = t0 => Ids(work'[t0]) = Known(t0)
          /\ t = s0 => Ids(work'[s0]) = Known(s0)
        BY <1>3 DEF Identified
    <2>2. /\ phase = 2 => t = f0
          /\ phase = 3 => t = t0
          /\ phase = 6 => t = s0
        BY TableIs DEF t
    <2>3. phase' > 2 => Ids(pending[f0]) \subseteq Ids(work'[f0])
        <3>1. CASE phase = 2
            BY <2>1, <2>2, <3>1
        <3>2. CASE phase # 2
            <4>1. phase' > 2 => phase > 2
                BY <1>1, <3>2
            <4> QED
                BY <1>6, <4>1 DEF IdInv, Written, Identified
        <3> QED
            BY <3>1, <3>2
    <2>4. phase' > 3 => Ids(pending[t0]) \subseteq Ids(work'[t0])
        <3>1. CASE phase = 3
            BY <2>1, <2>2, <3>1
        <3>2. CASE phase # 3
            <4>1. phase' > 3 => phase > 3
                BY <1>1, <3>2
            <4> QED
                BY <1>6, <4>1 DEF IdInv, Written, Identified
        <3> QED
            BY <3>1, <3>2
    <2>5. phase' > 6 => Ids(pending[s0]) \subseteq Ids(work'[s0])
        <3>1. CASE phase = 6
            BY <2>1, <2>2, <3>1
        <3>2. CASE phase # 6
            <4>1. phase' > 6 => phase > 6
                BY <1>1, <3>2
            <4> QED
                BY <1>6, <4>1 DEF IdInv, Written, Identified
        <3> QED
            BY <3>1, <3>2
    <2> QED
        BY <1>1, <2>3, <2>4, <2>5 DEF Written
<1>11. PendingResolves'
    <2>1. Ids(work'[s0]) \cup Ids(pending[s0]) = Known(s0)
        BY <1>6 DEF Identified
    <2> QED
        BY <1>1, <1>2, <2>1 DEF PendingResolves
<1>12. Resolves(work')
    <2> DEFINE F == Ids(work'[f0])
               U == Ids(work'[t0])
               S == Ids(work'[s0])
    <2>1. /\ Ids(work[f0]) \subseteq F /\ Ids(work[t0]) \subseteq U /\ Ids(work[s0]) \subseteq S
        BY <1>6 DEF Identified
    <2>2. /\ phase > 2 => F = Known(f0)
          /\ phase > 3 => U = Known(t0)
          /\ phase > 6 => S = Known(s0)
        BY <1>6 DEF IdInv, Written, Identified
    <2> HIDE DEF F, U, S
    <2>3. ASSUME NEW u \in Table, NEW n \in 1..8, u = Tables[n], phase # n PROVE work'[u] = work[u]
        <3>1. u # t
            BY <1>1, <2>3, TableIs DEF t
        <3> QED
            BY <1>3, <3>1
    <2>4. ASSUME NEW n \in {4, 5, 7, 8}, NEW u \in Table, u = Tables[n], NEW row \in Range(work'[u])
          PROVE  row \in Range(work[u]) \/ (row \in Range(pending[u]) /\ phase = n)
        <3>1. CASE phase = n
            BY <1>4, <2>4, <3>1, TableIs DEF t
        <3>2. CASE phase # n
            BY <2>3, <2>4, <3>2
        <3> QED
            BY <3>1, <3>2
    <2>5. UnitsIn(work'[t0], F)
        <3>1. UnitsIn(work[t0], F)
            BY <1>2, <2>1 DEF Resolves, Referring, UnitsIn
        <3>2. CASE phase = 3
            <4>1. UnitsIn(pending[t0], F) /\ t = t0
                BY <1>2, <2>2, <3>2, TableIs DEF Referring, UnitsIn, t
            <4> QED
                BY <1>5, <3>1, <4>1
        <3>3. CASE phase # 3
            BY <2>3, <3>1, <3>3, TableIs
        <3> QED
            BY <3>2, <3>3
    <2>6. OptionsIn(work'[t0], DOMAIN work'["compileoptions"])
        <3>1. CASE phase = 3
            BY <1>5, <3>1, TableIs DEF t
        <3>2. CASE phase # 3
            <4>1. t # t0 /\ work'[t0] = work[t0]
                BY <1>1, <2>3, <3>2, TableIs DEF t
            <4> QED
                BY <1>2, <1>4, <4>1 DEF Resolves
        <3> QED
            BY <3>1, <3>2
    <2>7. IncludesIn(work'["ppinclude"], F) /\ UnitIncludesIn(work'["ppinclude"], U)
        <3>1. IncludesIn(work["ppinclude"], F) /\ UnitIncludesIn(work["ppinclude"], U)
            BY <1>2, <2>1 DEF Resolves, Referring, IncludesIn, UnitIncludesIn
        <3>2. phase = 4
                  => IncludesIn(pending["ppinclude"], F) /\ UnitIncludesIn(pending["ppinclude"], U)
            BY <1>2, <2>2 DEF Referring, IncludesIn, UnitIncludesIn
        <3> QED
            BY <2>4, <3>1, <3>2, TableIs DEF IncludesIn, UnitIncludesIn
    <2>8. IncludesIn(work'["include"], F)
        <3>1. IncludesIn(work["include"], F)
            BY <1>2, <2>1 DEF Resolves, Referring, IncludesIn
        <3>2. phase = 5 => IncludesIn(pending["include"], F)
            BY <1>2, <2>2 DEF Referring, IncludesIn
        <3> QED
            BY <2>4, <3>1, <3>2, TableIs DEF IncludesIn
    <2>9. BasesIn(work'["base"], S)
        <3>1. BasesIn(work["base"], S)
            BY <1>2, <2>1 DEF Resolves, Referring, BasesIn
        <3>2. phase = 7 => BasesIn(pending["base"], S)
            BY <1>2, <2>2 DEF Referring, BasesIn
        <3> QED
            BY <2>4, <3>1, <3>2, TableIs DEF BasesIn
    <2>10. ReferencesIn(work'["symbolreference"], S, F)
        <3>1. ReferencesIn(work["symbolreference"], S, F)
            BY <1>2, <2>1 DEF Resolves, Referring, ReferencesIn
        <3>2. phase = 8 => ReferencesIn(pending["symbolreference"], S, F)
            BY <1>2, <2>2 DEF Referring, ReferencesIn
        <3> QED
            BY <2>4, <3>1, <3>2, TableIs DEF ReferencesIn
    <2> QED
        BY <2>5, <2>6, <2>7, <2>8, <2>9, <2>10 DEF Resolves, Referring, F, U, S
<1>13. Resolves(work)' /\ Resolves(disk)'
    BY <1>1, <1>12 DEF IdInv
<1> QED
    BY <1>7, <1>8, <1>9, <1>10, <1>11, <1>13 DEF IdInv

(* The table that is written, and what becomes of the others. *)
LEMMA TableWritten ==
    ASSUME IdInv, WriteTable
    PROVE  LET t == Tables[phase]
               t0 == "translationunit"
           IN  /\ isOpen /\ phase \in 1..8 /\ phase' = phase + 1
               /\ UNCHANGED <<isOpen, pending, disk, files, units>>
               /\ t \in Table
               /\ \A u \in Table : u # t => work'[u] = work[u]
               /\ t # t0 => /\ work'[t] = InsertAll(t, work[t], pending[t])
                            /\ work'["compileoptions"] = work["compileoptions"]
               /\ t = t0 => work' = InsertUnits(work, pending[t0])
<1> DEFINE t == Tables[phase]
           t0 == "translationunit"
<1>1. /\ phase \in 1..8 /\ work' = Write(t, work, pending[t]) /\ phase' = phase + 1
      /\ isOpen' = isOpen /\ pending' = pending /\ disk' = disk /\ files' = files /\ units' = units
    BY TableIs DEF WriteTable, memoryVars
<1>2. /\ isOpen /\ Database(work) /\ pending[t] \in Seq(PendingRow(t)) /\ t \in Table
      /\ pending[t0] \in Seq(PendingUnit) /\ OptionsIn(work[t0], DOMAIN work["compileoptions"])
    BY <1>1, Phases, TableIs, RowsOfTables DEF IdInv, Usage, SnapshotTypes, Resolves
<1>3. CASE t = t0
    <2>1. work' = InsertUnits(work, pending[t0])
        BY <1>1, <1>3 DEF Write
    <2> DEFINE rows == pending[t0]
               new == InsertUnits(work, rows)
    <2>2. rows \in Seq(PendingUnit)
        BY <1>2
    <2> HIDE DEF rows
    <2>3. \A u \in Table \ {t0} : new[u] = work[u]
        BY <1>2, <2>2, UnitsWritten
    <2> HIDE DEF t, new
    <2>4. \A u \in Table : u # t => work'[u] = work[u]
        BY <1>3, <2>1, <2>3 DEF new, rows
    <2> QED
        BY <1>1, <1>2, <1>3, <2>1, <2>4 DEF t
<1>4. CASE t # t0
    <2>1. work' = [work EXCEPT ![t] = InsertAll(t, @, pending[t])]
        BY <1>1, <1>4 DEF Write
    <2>2. DOMAIN work = Table \cup {"compileoptions"} /\ t # "compileoptions"
        BY <1>2, TableIs DEF Database
    <2> HIDE DEF t
    <2>3. /\ \A u \in Table : u # t => work'[u] = work[u]
          /\ work'[t] = InsertAll(t, work[t], pending[t])
          /\ work'["compileoptions"] = work["compileoptions"]
        BY <1>2, <2>1, <2>2
    <2> QED
        BY <1>1, <1>2, <1>4, <2>3 DEF t
<1> QED
    BY <1>3, <1>4

LEMMA WriteTableStore ==
    ASSUME IdInv, StoreInv, WriteTable
    PROVE  StoreInv'
<1> DEFINE f0 == "file"
           t0 == "translationunit"
           co == "compileoptions"
           rows == pending[t0]
           new == InsertUnits(work, rows)
<1>1. /\ isOpen /\ isOpen' /\ phase \in 1..8 /\ disk' = disk /\ files' = files /\ units' = units
      /\ pending' = pending
      /\ \A u \in Table : u # Tables[phase] => work'[u] = work[u]
      /\ Tables[phase] # t0
         => /\ work'[Tables[phase]]
                   = InsertAll(Tables[phase], work[Tables[phase]], pending[Tables[phase]])
            /\ work'[co] = work[co]
      /\ Tables[phase] = t0 => work' = new
    BY TableWritten
<1>2. /\ Database(work) /\ OptionsIn(work[t0], DOMAIN work[co]) /\ rows \in Seq(PendingUnit)
      /\ work[f0] \in Seq(FileRow) /\ pending[f0] \in Seq(FileRow) /\ f0 \in Table /\ t0 \in Table
    BY TableIs, RowsOfTables DEF IdInv, SnapshotTypes, Database, Resolves
<1> HIDE DEF rows
<1>3. /\ Distinct(work[t0]) => Distinct(new[t0])
      /\ DOMAIN work[co] \subseteq DOMAIN new[co]
      /\ \A i \in DOMAIN work[co] : new[co][i] = work[co][i]
      /\ OneObject(rows) =>
            \A row \in Range(new[t0]) :
               \/ row \in Range(work[t0])
               \/ \E given \in Range(rows) :
                     /\ row.id = given.id /\ row.file = given.file
                     /\ new[co][row.options] = Columns(given.options)
    BY <1>2, UnitsWritten
<1> HIDE DEF new
<1>4. /\ Distinct(work'[f0]) /\ Range(work'[f0]) \subseteq Range(work[f0]) \cup Range(pending[f0])
    <2>1. CASE Tables[phase] = f0
        <3>1. work'[f0] = InsertAll(f0, work[f0], pending[f0])
            BY <1>1, <2>1
        <3>2. Distinct(work[f0])
            BY DEF StoreInv, IdsDistinct
        <3> QED
            BY <1>2, <3>1, <3>2, InsertedDistinct, InsertAllType
    <2>2. CASE Tables[phase] # f0
        BY <1>1, <1>2, <2>2 DEF StoreInv, IdsDistinct
    <2> QED
        BY <2>1, <2>2
<1>5. Distinct(work'[t0])
    BY <1>1, <1>2, <1>3 DEF StoreInv, IdsDistinct
<1>6. IdsDistinct'
    <2>1. Distinct(disk'[f0]) /\ Distinct(disk'[t0])
        BY <1>1 DEF StoreInv, IdsDistinct
    <2> QED
        BY <1>4, <1>5, <2>1 DEF IdsDistinct
<1>7. OneValuePerKey' /\ ObjectsShared'
    BY <1>1 DEF StoreInv, OneValuePerKey, ObjectsShared
<1>8. FilesAgree'
    BY <1>1, <1>4 DEF StoreInv, FilesAgree
<1>9. UnitsAgree'
    <2>1. \A row \in Range(pending[t0]) :
              units[row.id] = [file |-> row.file, options |-> row.options]
        BY <1>1 DEF StoreInv, UnitsAgree
    <2>2. \A row \in Range(work[t0]) : /\ units[row.id].file = row.file
                                       /\ StoredOptions(work[co][row.options],
                                                  units[row.id].options)
        BY <1>1 DEF StoreInv, UnitsAgree
    <2>3. ASSUME NEW row \in Range(work'[t0])
          PROVE  /\ units[row.id].file = row.file
                 /\ StoredOptions(work'[co][row.options], units[row.id].options)
        <3>1. CASE Tables[phase] = t0
            <4>1. CASE row \in Range(work[t0])
                <5>1. row.options \in DOMAIN work[co]
                    BY <1>2, <4>1 DEF OptionsIn
                <5> QED
                    BY <1>1, <1>3, <2>2, <3>1, <4>1, <5>1
            <4>2. ASSUME NEW given \in Range(rows), row.id = given.id, row.file = given.file,
                         new[co][row.options] = Columns(given.options)
                  PROVE  /\ units[row.id].file = row.file
                         /\ StoredOptions(work'[co][row.options], units[row.id].options)
                <5>1. units[row.id] = [file |-> given.file, options |-> given.options]
                    BY <2>1, <4>2 DEF rows
                <5>2. given.options \in Options
                    <6>1. given \in PendingUnit
                        BY <1>2, <4>2 DEF Range
                    <6> QED
                        BY <6>1, UnitFields
                <5> QED
                    BY <1>1, <3>1, <4>2, <5>1, <5>2 DEF StoredOptions
            <4>3. OneObject(rows)
                BY DEF StoreInv, ObjectsShared, rows
            <4>4. row \in Range(new[t0])
                BY <1>1, <2>3, <3>1
            <4> QED
                BY <1>3, <4>1, <4>2, <4>3, <4>4
        <3>2. CASE Tables[phase] # t0
            <4>1. work'[t0] = work[t0] /\ work'[co] = work[co]
                BY <1>1, <1>2, <3>2
            <4> QED
                BY <2>2, <2>3, <4>1
        <3> QED
            BY <3>1, <3>2
    <2> QED
        BY <1>1, <2>1, <2>3 DEF UnitsAgree
<1> QED
    BY <1>6, <1>7, <1>8, <1>9 DEF StoreInv
-----------------------------------------------------------------------------
(* The other steps. *)
(* A statement that leaves the ids of the database as they are. *)
LEMMA ExecuteStep ==
    ASSUME IdInv, NEW db, Database(db), Resolves(db),
           \A t \in Identified : Ids(db[t]) = Ids(work[t]),
           Execute(db),
           UNCHANGED <<isOpen, files, units, hasPending, pending, phase, closing, text>>,
           copying' \in Nat, copying' # 0 => isOpen /\ phase = 0
    PROVE  IdInv'
<1>1. /\ work' = db /\ disk' = (IF inTx THEN disk ELSE db) /\ inTx' = inTx
      /\ isOpen' = isOpen /\ files' = files /\ units' = units /\ hasPending' = hasPending
      /\ pending' = pending /\ phase' = phase /\ closing' = closing /\ text' = text
    BY DEF Execute
<1>2. /\ Ids(db["file"]) = Ids(work["file"])
      /\ Ids(db["translationunit"]) = Ids(work["translationunit"])
      /\ Ids(db["symbol"]) = Ids(work["symbol"])
    BY DEF Identified
<1>3. SnapshotTypes'
    BY <1>1 DEF IdInv, SnapshotTypes
<1>4. Usage'
    BY <1>1 DEF IdInv, Usage
<1>5. Lists' /\ Written' /\ PendingResolves'
    BY <1>1, <1>2 DEF IdInv, Lists, Written, PendingResolves
<1>6. Resolves(work)' /\ Resolves(disk)'
    BY <1>1 DEF IdInv
<1> QED
    BY <1>3, <1>4, <1>5, <1>6 DEF IdInv

(* A step of which the database and what is pending know nothing. *)
LEMMA QuietStep ==
    ASSUME IdInv,
           UNCHANGED <<isOpen, files, units, hasPending, pending, phase, closing, work,
                      disk, inTx>>,
           text' \in [Path -> Wording \cup {Null}],
           copying' \in Nat, copying' # 0 => isOpen /\ phase = 0
    PROVE  IdInv'
<1>1. /\ work' = work /\ disk' = disk /\ inTx' = inTx
      /\ isOpen' = isOpen /\ files' = files /\ units' = units /\ hasPending' = hasPending
      /\ pending' = pending /\ phase' = phase /\ closing' = closing
    OBVIOUS
<1>2. SnapshotTypes'
    BY <1>1 DEF IdInv, SnapshotTypes
<1>3. Usage'
    BY <1>1 DEF IdInv, Usage
<1>4. Lists' /\ Written' /\ PendingResolves'
    BY <1>1 DEF IdInv, Lists, Written, PendingResolves
<1>5. Resolves(work)' /\ Resolves(disk)'
    BY <1>1 DEF IdInv
<1> QED
    BY <1>2, <1>3, <1>4, <1>5 DEF IdInv

LEMMA CopyFileStep ==
    ASSUME IdInv, CopyFile
    PROVE  IdInv'
<1>1. /\ copying # 0 /\ copying' \in {0, copying + 1}
      /\ isOpen' = isOpen /\ files' = files /\ units' = units /\ hasPending' = hasPending
      /\ pending' = pending /\ phase' = phase /\ closing' = closing /\ text' = text
    BY DEF CopyFile, memoryVars
<1>2. /\ copying \in Nat /\ isOpen /\ phase = 0 /\ text \in [Path -> Wording \cup {Null}]
      /\ files \in [DOMAIN files -> Path] /\ Database(work) /\ Resolves(work)
    BY <1>1 DEF IdInv, Usage, SnapshotTypes
<1>3. copying' \in Nat
    BY <1>1, <1>2
<1>4. CASE copying - 1 \in DOMAIN files /\ text[files[copying - 1]] # Null
    <2> DEFINE id == copying - 1
               content == <<files[id], text[files[id]]>>
               db == Update(work, "file", id, "content", content)
    <2>1. content \in Path \X Wording
        BY <1>2, <1>4
    <2>2. Execute(db)
        BY <1>4 DEF CopyFile
    <2> HIDE DEF content, id
    <2>3. /\ Database(db) /\ Resolves(db)
          /\ \A t \in {"file", "translationunit", "symbol"} : Ids(db[t]) = Ids(work[t])
        BY <1>2, <2>1, FileUpdated
    <2> HIDE DEF db
    <2> QED
        BY <1>1, <1>2, <1>3, <2>2, <2>3, ExecuteStep DEF Identified
<1>5. CASE ~(copying - 1 \in DOMAIN files /\ text[files[copying - 1]] # Null)
    <2>1. work' = work /\ disk' = disk /\ inTx' = inTx
        BY <1>5 DEF CopyFile, dbVars
    <2> QED
        BY <1>1, <1>2, <1>3, <2>1, QuietStep
<1> QED
    BY <1>4, <1>5

LEMMA SerializedAstStep ==
    ASSUME IdInv, NEW u, AddTranslationUnitSerializedAst(u)
    PROVE  IdInv'
<1> DEFINE db == Update(work, "translationunit", u, "ast", TRUE)
<1>1. /\ isOpen /\ phase = 0 /\ copying' = copying /\ copying = 0 /\ Execute(db)
      /\ isOpen' = isOpen /\ files' = files /\ units' = units /\ hasPending' = hasPending
      /\ pending' = pending /\ phase' = phase /\ closing' = closing /\ text' = text
    BY DEF AddTranslationUnitSerializedAst, Call, Idle, memoryVars
<1>2. Database(work) /\ Resolves(work)
    BY DEF IdInv, SnapshotTypes
<1>3. /\ Database(db) /\ Resolves(db)
      /\ \A t \in {"file", "translationunit", "symbol"} : Ids(db[t]) = Ids(work[t])
    <2>1. TRUE \in BOOLEAN
        OBVIOUS
    <2> QED
        BY <1>2, <2>1, UnitUpdated
<1> HIDE DEF db
<1> QED
    BY <1>1, <1>3, ExecuteStep DEF Identified

LEMMA BeginStep ==
    ASSUME IdInv, NEW byDestructor \in BOOLEAN, Begin(byDestructor)
    PROVE  IdInv'
<1>1. /\ isOpen /\ phase = 0 /\ copying = 0 /\ hasPending /\ inTx' = TRUE /\ phase' = 1
      /\ closing' = byDestructor
      /\ isOpen' = isOpen /\ files' = files /\ units' = units /\ hasPending' = hasPending
      /\ pending' = pending /\ copying' = copying /\ text' = text /\ work' = work /\ disk' = disk
    BY DEF Begin, Idle, memoryVars
<1>2. SnapshotTypes'
    BY <1>1 DEF IdInv, SnapshotTypes
<1>3. Usage'
    BY <1>1 DEF IdInv, Usage
<1>4. Lists' /\ Written' /\ PendingResolves'
    BY <1>1 DEF IdInv, Lists, Written, PendingResolves
<1>5. Resolves(work)' /\ Resolves(disk)'
    BY <1>1 DEF IdInv
<1> QED
    BY <1>2, <1>3, <1>4, <1>5 DEF IdInv

LEMMA EmptyRows ==
    DOMAIN Empty = Table /\ \A t \in Table : Empty[t] = <<>> /\ Empty[t] \in Seq(PendingRow(t))
BY DEF Empty

LEMMA DisconnectStep ==
    ASSUME IdInv, NEW committed \in {work, disk}, Disconnect(committed)
    PROVE  IdInv'
<1>1. /\ isOpen' = FALSE /\ closing' = FALSE /\ disk' = committed /\ work' = committed
      /\ inTx' = FALSE
      /\ files' = <<>> /\ hasPending' = FALSE /\ pending' = Empty /\ phase' = 0 /\ copying' = 0
      /\ text' = text
    BY DEF Disconnect
<1>2. SnapshotTypes'
    <2>1. files' \in [DOMAIN files' -> Path]
        BY <1>1
    <2>2. DOMAIN pending' = Table /\ \A t \in Table : pending'[t] \in Seq(PendingRow(t))
        BY <1>1, EmptyRows
    <2>4. Database(work') /\ Database(disk') /\ text' \in [Path -> Wording \cup {Null}]
        BY <1>1 DEF IdInv, SnapshotTypes
    <2>5. phase' \in 0..9 /\ copying' \in Nat
        BY <1>1
    <2> QED
        BY <1>1, <2>1, <2>2, <2>4, <2>5 DEF SnapshotTypes
<1>3. Usage'
    BY <1>1 DEF Usage
<1>4. Lists' /\ Written' /\ PendingResolves'
    BY <1>1 DEF Lists, Written, PendingResolves
<1>5. Resolves(work)' /\ Resolves(disk)'
    BY <1>1 DEF IdInv
<1> QED
    BY <1>2, <1>3, <1>4, <1>5 DEF IdInv

LEMMA EndStep ==
    ASSUME IdInv, NEW ok \in BOOLEAN, End(ok)
    PROVE  IdInv'
<1>1. CASE closing
    <2>1. Disconnect(IF ok THEN work ELSE disk)
        BY <1>1 DEF End
    <2> DEFINE committed == IF ok THEN work ELSE disk
    <2>2. committed \in {work, disk}
        OBVIOUS
    <2> HIDE DEF committed
    <2> QED
        BY <2>1, <2>2, DisconnectStep DEF committed
<1>2. CASE ~closing
    <2>1. /\ phase = 9 /\ hasPending' = FALSE /\ pending' = Empty /\ phase' = 0
          /\ disk' = (IF ok THEN work ELSE disk) /\ inTx' = ~ok
          /\ isOpen' = isOpen /\ files' = files /\ units' = units /\ copying' = copying
          /\ closing' = closing /\ work' = work /\ text' = text
        BY <1>2, TableIs DEF End, memoryVars
    <2>2. /\ isOpen /\ copying = 0 /\ DOMAIN files = Ids(work["file"])
          /\ DOMAIN units = Ids(work["translationunit"])
        BY <2>1 DEF IdInv, Usage, Lists, Written
    <2>3. Empty["file"] = <<>> /\ Empty["translationunit"] = <<>> /\ Empty["symbol"] = <<>>
        BY TableIs, EmptyRows
    <2>4. SnapshotTypes'
        <3>1. DOMAIN pending' = Table /\ \A t \in Table : pending'[t] \in Seq(PendingRow(t))
            BY <2>1, EmptyRows
        <3>2. Database(work') /\ Database(disk')
            BY <2>1 DEF IdInv, SnapshotTypes
        <3>3. phase' \in 0..9 /\ copying' \in Nat /\ inTx' \in BOOLEAN
            BY <2>1 DEF IdInv, SnapshotTypes
        <3> QED
            BY <2>1, <3>1, <3>2, <3>3 DEF IdInv, SnapshotTypes
    <2>5. Usage'
        BY <2>1, <2>2 DEF Usage
    <2>6. Lists' /\ Written'
        BY <2>1, <2>2, <2>3, NothingIn DEF Lists, Written
    <2>7. PendingResolves'
        BY <2>1, EmptyRefers DEF PendingResolves
    <2>8. Resolves(work)' /\ Resolves(disk)'
        BY <2>1 DEF IdInv
    <2> QED
        BY <2>4, <2>5, <2>6, <2>7, <2>8 DEF IdInv
<1> QED
    BY <1>1, <1>2

LEMMA ListingOf ==
    ASSUME NEW t, NEW E, work[t] \in Seq(E)
    PROVE  DOMAIN Listing(t) = Ids(work[t]) /\ \A id \in DOMAIN Listing(t) : Listing(t)[id] \in E
<1>1. Listing(t) = [id \in {work[t][i].id : i \in DOMAIN work[t]} |->
                       work[t][CHOOSE i \in DOMAIN work[t] : work[t][i].id = id]]
    BY DEF Listing
<1>2. {work[t][i].id : i \in DOMAIN work[t]} = Ids(work[t])
    BY DEF Ids, Range
<1>3. \A id \in Ids(work[t]) : work[t][CHOOSE i \in DOMAIN work[t] : work[t][i].id = id] \in E
    BY <1>2
<1> QED
    BY <1>1, <1>2, <1>3

LEMMA OpenStep ==
    ASSUME IdInv, Open
    PROVE  IdInv'
<1>1. /\ ~isOpen /\ isOpen' = TRUE
      /\ files' = [id \in DOMAIN Listing("file") |-> Listing("file")[id].path]
      /\ DOMAIN units' = DOMAIN Listing("translationunit")
      /\ hasPending' = hasPending /\ pending' = pending /\ phase' = phase /\ copying' = copying
      /\ closing' = closing /\ work' = work /\ disk' = disk /\ inTx' = inTx /\ text' = text
    BY DEF Open, dbVars
<1>2. /\ pending = Empty /\ phase = 0 /\ copying = 0 /\ ~hasPending
      /\ work["file"] \in Seq(FileRow) /\ work["translationunit"] \in Seq(UnitRow)
    BY <1>1, TableIs, RowsOfTables DEF IdInv, Usage, SnapshotTypes, Database
<1>3. /\ DOMAIN Listing("file") = Ids(work["file"])
      /\ DOMAIN Listing("translationunit") = Ids(work["translationunit"])
      /\ \A id \in DOMAIN Listing("file") : Listing("file")[id] \in FileRow
    BY <1>2, ListingOf
<1>4. DOMAIN files' = Ids(work["file"]) /\ files' \in [DOMAIN files' -> Path]
    <2>1. \A row \in FileRow : row.path \in Path
        BY DEF FileRow
    <2> QED
        BY <1>1, <1>3, <2>1
<1>5. Empty["file"] = <<>> /\ Empty["translationunit"] = <<>> /\ Empty["symbol"] = <<>>
    BY TableIs, EmptyRows
<1>6. SnapshotTypes'
    BY <1>1, <1>4 DEF IdInv, SnapshotTypes
<1>7. Usage'
    BY <1>1, <1>2 DEF IdInv, Usage
<1>8. Lists' /\ Written'
    BY <1>1, <1>2, <1>3, <1>4, <1>5, NothingIn DEF Lists, Written
<1>9. PendingResolves'
    BY <1>1, <1>2, EmptyRefers DEF PendingResolves
<1>10. Resolves(work)' /\ Resolves(disk)'
    BY <1>1 DEF IdInv
<1> QED
    BY <1>6, <1>7, <1>8, <1>9, <1>10 DEF IdInv

LEMMA IdInvStutter ==
    ASSUME IdInv, UNCHANGED vars
    PROVE  IdInv'
<1>1. /\ work' = work /\ disk' = disk /\ inTx' = inTx
      /\ isOpen' = isOpen /\ files' = files /\ units' = units /\ hasPending' = hasPending
      /\ pending' = pending /\ phase' = phase /\ closing' = closing /\ copying' = copying
      /\ text' = text
    BY DEF vars, memoryVars, dbVars
<1> QED
    BY <1>1, QuietStep DEF IdInv, SnapshotTypes, Usage

LEMMA IdInvInit ==
    ASSUME NEW n \in Nat, NEW m \in Nat, InitFor(n, m)
    PROVE  IdInv
<1>1. /\ isOpen = TRUE /\ files = <<>> /\ units = <<>> /\ hasPending = FALSE /\ pending = Empty
      /\ phase = 0 /\ copying = 0 /\ closing = FALSE /\ inTx = FALSE
      /\ work = EmptyDatabase /\ disk = EmptyDatabase /\ text \in [Path -> Wording \cup {Null}]
    BY DEF InitFor
<1>2. /\ DOMAIN EmptyDatabase = Table \cup {"compileoptions"} 
      /\ \A t \in Table \cup {"compileoptions"} : EmptyDatabase[t] = <<>>
    BY DEF EmptyDatabase
<1>3. Database(EmptyDatabase)
    <2>1. \A E : <<>> \in Seq(E)
        OBVIOUS
    <2>2. /\ \A t \in Table : EmptyDatabase[t] \in Seq(RowOf(t))
          /\ EmptyDatabase["compileoptions"] \in Seq({Columns(options) : options \in Options})
        BY <1>2, <2>1
    <2> QED
        BY <1>2, <2>2 DEF Database
<1>4. SnapshotTypes
    <2>1. DOMAIN pending = Table /\ \A t \in Table : pending[t] \in Seq(PendingRow(t))
        BY <1>1, EmptyRows
    <2>2. phase \in 0..9 /\ copying \in Nat /\ files \in [DOMAIN files -> Path]
        BY <1>1
    <2> QED
        BY <1>1, <1>3, <2>1, <2>2 DEF SnapshotTypes
<1>5. /\ Ids(work["file"]) = {} /\ Ids(work["translationunit"]) = {} /\ Ids(work["symbol"]) = {}
      /\ Ids(pending["file"]) = {} /\ Ids(pending["translationunit"]) = {}
      /\ Ids(pending["symbol"]) = {}
    BY <1>1, <1>2, TableIs, EmptyRows, NothingIn
<1>6. Usage /\ Lists /\ Written
    BY <1>1, <1>5 DEF Usage, Lists, Written
<1>7. PendingResolves
    BY <1>1, EmptyRefers DEF PendingResolves
<1>8. Resolves(EmptyDatabase)
    BY <1>2, TableIs, NothingIn
       DEF Resolves, Referring, UnitsIn, IncludesIn, UnitIncludesIn, BasesIn, ReferencesIn,
           OptionsIn
<1> QED
    BY <1>1, <1>4, <1>6, <1>7, <1>8 DEF IdInv

-----------------------------------------------------------------------------
(* The same steps, for what is no id. *)

(* rows that differ in the columns of UPDATE statements only *)
SameBut(db, new) ==
    /\ new["compileoptions"] = db["compileoptions"]
    /\ DOMAIN new["file"] = DOMAIN db["file"]
    /\ DOMAIN new["translationunit"] = DOMAIN db["translationunit"]
    /\ \A i \in DOMAIN db["file"] :
          new["file"][i].id = db["file"][i].id /\ new["file"][i].path = db["file"][i].path
    /\ \A i \in DOMAIN db["translationunit"] :
          /\ new["translationunit"][i].id = db["translationunit"][i].id
          /\ new["translationunit"][i].file = db["translationunit"][i].file
          /\ new["translationunit"][i].options = db["translationunit"][i].options

LEMMA SameFiles ==
    ASSUME NEW db, Database(db), NEW id, NEW content \in Path \X Wording
    PROVE  LET new == Update(db, "file", id, "content", content)
           IN  /\ SameBut(db, new)
               /\ \A u \in DOMAIN db \ {"file"} : new[u] = db[u]
               /\ \A i \in DOMAIN db["file"] :
                     new["file"][i] = IF db["file"][i].id = id
                                      THEN [db["file"][i] EXCEPT !["content"] = content]
                                      ELSE db["file"][i]
<1> DEFINE new == Update(db, "file", id, "content", content)
<1>1. \A row \in FileRow : [row EXCEPT !["content"] = content] \in FileRow
    BY DEF FileRow
<1>2. RowOf("file") = FileRow /\ {"file", "translationunit"} \subseteq Table
          /\ "compileoptions" \notin Table
    BY RowsOfTables, TableIs
<1>3. MayHold("file", "content", content) /\ "file" \in Table
    BY <1>1, <1>2 DEF MayHold
<1>4. /\ \A u \in DOMAIN db \ {"file"} : new[u] = db[u]
      /\ DOMAIN new["file"] = DOMAIN db["file"]
      /\ \A i \in DOMAIN db["file"] :
            new["file"][i] = IF db["file"][i].id = id
                             THEN [db["file"][i] EXCEPT !["content"] = content]
                             ELSE db["file"][i]
    BY <1>3, UpdatedRows
<1> HIDE DEF new
<1>5. \A i \in DOMAIN db["file"] : db["file"][i] \in FileRow
    BY <1>2 DEF Database
<1>6. \A i \in DOMAIN db["file"] : /\ new["file"][i].id = db["file"][i].id
                                   /\ new["file"][i].path = db["file"][i].path
    BY <1>4, <1>5 DEF FileRow
<1>7. new["compileoptions"] = db["compileoptions"] /\ new["translationunit"] = db["translationunit"]
    BY <1>2, <1>4 DEF Database
<1> QED
    BY <1>4, <1>6, <1>7 DEF SameBut, new

LEMMA SameUnits ==
    ASSUME NEW db, Database(db), NEW id, NEW ast \in BOOLEAN
    PROVE  LET new == Update(db, "translationunit", id, "ast", ast)
               t0 == "translationunit"
           IN  /\ SameBut(db, new)
               /\ \A u \in DOMAIN db \ {t0} : new[u] = db[u]
               /\ \A i \in DOMAIN db[t0] : db[t0][i].id # id => new[t0][i] = db[t0][i]
<1> DEFINE t0 == "translationunit"
           new == Update(db, t0, id, "ast", ast)
<1>1. \A row \in UnitRow : [row EXCEPT !["ast"] = ast] \in UnitRow
    BY DEF UnitRow
<1>2. RowOf(t0) = UnitRow /\ {"file", t0} \subseteq Table /\ "compileoptions" \notin Table
    BY RowsOfTables, TableIs
<1>3. MayHold(t0, "ast", ast) /\ t0 \in Table
    BY <1>1, <1>2 DEF MayHold
<1>4. /\ \A u \in DOMAIN db \ {t0} : new[u] = db[u]
      /\ DOMAIN new[t0] = DOMAIN db[t0]
      /\ \A i \in DOMAIN db[t0] :
            new[t0][i] = IF db[t0][i].id = id THEN [db[t0][i] EXCEPT !["ast"] = ast] ELSE db[t0][i]
    BY <1>3, UpdatedRows
<1> HIDE DEF new
<1>5. \A i \in DOMAIN db[t0] : db[t0][i] \in UnitRow
    BY <1>2 DEF Database
<1>6. \A i \in DOMAIN db[t0] : /\ new[t0][i].id = db[t0][i].id /\ new[t0][i].file = db[t0][i].file
                               /\ new[t0][i].options = db[t0][i].options
    BY <1>4, <1>5 DEF UnitRow
<1>7. new["compileoptions"] = db["compileoptions"] /\ new["file"] = db["file"]
    BY <1>2, <1>4 DEF Database
<1> QED
    BY <1>4, <1>6, <1>7 DEF SameBut, new

LEMMA ExecuteStore ==
    ASSUME StoreInv, NEW db, SameBut(work, db), Execute(db),
           UNCHANGED <<isOpen, files, units, pending>>
    PROVE  StoreInv'
<1> DEFINE f0 == "file"
           t0 == "translationunit"
           co == "compileoptions"
<1>1. /\ work' = db /\ disk' = (IF inTx THEN disk ELSE db)
      /\ isOpen' = isOpen /\ files' = files /\ units' = units /\ pending' = pending
    BY DEF Execute
<1>2. Distinct(db[f0]) /\ Distinct(db[t0])
    BY DEF SameBut, StoreInv, IdsDistinct, Distinct
<1>3. IdsDistinct'
    BY <1>1, <1>2 DEF StoreInv, IdsDistinct
<1>4. OneValuePerKey' /\ ObjectsShared'
    BY <1>1 DEF StoreInv, OneValuePerKey, ObjectsShared
<1>5. FilesAgree'
    <2>1. ASSUME NEW row \in Range(db[f0])
          PROVE  \E old \in Range(work[f0]) : row.id = old.id /\ row.path = old.path
        BY DEF SameBut, Range
    <2> QED
        BY <1>1, <2>1 DEF StoreInv, FilesAgree
<1>6. UnitsAgree'
    <2>1. ASSUME NEW row \in Range(db[t0])
          PROVE  \E old \in Range(work[t0]) : row.id = old.id /\ row.file = old.file
                     /\ row.options = old.options
        BY DEF SameBut, Range
    <2>2. db[co] = work[co]
        BY DEF SameBut
    <2> QED
        BY <1>1, <2>1, <2>2 DEF StoreInv, UnitsAgree
<1> QED
    BY <1>3, <1>4, <1>5, <1>6 DEF StoreInv

LEMMA QuietStore ==
    ASSUME StoreInv, UNCHANGED <<isOpen, files, units, pending, work, disk>>
    PROVE  StoreInv'
BY DEF StoreInv, IdsDistinct, OneValuePerKey, ObjectsShared, FilesAgree, UnitsAgree

LEMMA NothingPending ==
    /\ OfDistinctKeys(Empty["info"]) /\ OneObject(Empty["translationunit"])
    /\ Range(Empty["file"]) = {} /\ Range(Empty["translationunit"]) = {}
<1>1. \A t \in {"info", "file", "translationunit"} : Empty[t] = <<>>
    BY EmptyRows, TableIs
<1> QED
    BY <1>1, NothingIn DEF OfDistinctKeys, OneObject

LEMMA CopyFileStore ==
    ASSUME IdInv, StoreInv, CopyFile
    PROVE  StoreInv'
<1>1. isOpen' = isOpen /\ files' = files /\ units' = units /\ pending' = pending
    BY DEF CopyFile, memoryVars
<1>2. text \in [Path -> Wording \cup {Null}] /\ files \in [DOMAIN files -> Path] /\ Database(work)
    BY DEF IdInv, SnapshotTypes
<1>3. CASE copying - 1 \in DOMAIN files /\ text[files[copying - 1]] # Null
    <2> DEFINE id == copying - 1
               content == <<files[id], text[files[id]]>>
               db == Update(work, "file", id, "content", content)
    <2>1. content \in Path \X Wording
        BY <1>2, <1>3
    <2>2. Execute(db)
        BY <1>3 DEF CopyFile
    <2> HIDE DEF content, id
    <2>3. SameBut(work, db)
        BY <1>2, <2>1, SameFiles
    <2> HIDE DEF db
    <2> QED
        BY <1>1, <2>2, <2>3, ExecuteStore
<1>4. CASE ~(copying - 1 \in DOMAIN files /\ text[files[copying - 1]] # Null)
    <2>1. work' = work /\ disk' = disk
        BY <1>4 DEF CopyFile, dbVars
    <2> QED
        BY <1>1, <2>1, QuietStore
<1> QED
    BY <1>3, <1>4

LEMMA SerializedAstStore ==
    ASSUME IdInv, StoreInv, NEW u, AddTranslationUnitSerializedAst(u)
    PROVE  StoreInv'
<1> DEFINE db == Update(work, "translationunit", u, "ast", TRUE)
<1>1. Execute(db) /\ isOpen' = isOpen /\ files' = files /\ units' = units /\ pending' = pending
    BY DEF AddTranslationUnitSerializedAst, memoryVars
<1>2. Database(work) /\ TRUE \in BOOLEAN
    BY DEF IdInv, SnapshotTypes
<1>3. SameBut(work, db)
    BY <1>2, SameUnits
<1> HIDE DEF db
<1> QED
    BY <1>1, <1>3, ExecuteStore

LEMMA DisconnectStore ==
    ASSUME StoreInv, NEW committed \in {work, disk}, Disconnect(committed)
    PROVE  StoreInv'
<1>1. isOpen' = FALSE /\ disk' = committed /\ work' = committed /\ pending' = Empty
    BY DEF Disconnect
<1> QED
    BY <1>1, NothingPending
       DEF StoreInv, IdsDistinct, OneValuePerKey, ObjectsShared, FilesAgree, UnitsAgree

LEMMA EndStore ==
    ASSUME StoreInv, NEW ok \in BOOLEAN, End(ok)
    PROVE  StoreInv'
<1>1. CASE closing
    <2> DEFINE committed == IF ok THEN work ELSE disk
    <2>1. Disconnect(committed) /\ committed \in {work, disk}
        BY <1>1 DEF End
    <2> HIDE DEF committed
    <2> QED
        BY <2>1, DisconnectStore
<1>2. CASE ~closing
    <2>1. /\ pending' = Empty /\ disk' = (IF ok THEN work ELSE disk) /\ work' = work
          /\ isOpen' = isOpen /\ files' = files /\ units' = units
        BY <1>2 DEF End, memoryVars
    <2> QED
        BY <2>1, NothingPending
           DEF StoreInv, IdsDistinct, OneValuePerKey, ObjectsShared, FilesAgree, UnitsAgree
<1> QED
    BY <1>1, <1>2

(* An id leads to its row. *)
LEMMA ListedRow ==
    ASSUME NEW t, Distinct(work[t]), NEW row \in Range(work[t])
    PROVE  row.id \in DOMAIN Listing(t) /\ Listing(t)[row.id] = row
<1>1. PICK k \in DOMAIN work[t] : work[t][k] = row
    BY DEF Range
<1>2. Listing(t) = [id \in {work[t][i].id : i \in DOMAIN work[t]} |->
                       work[t][CHOOSE i \in DOMAIN work[t] : work[t][i].id = id]]
    BY DEF Listing
<1>3. (CHOOSE i \in DOMAIN work[t] : work[t][i].id = row.id) = k
    BY <1>1 DEF Distinct
<1> QED
    BY <1>1, <1>2, <1>3, ZenonT(30)

LEMMA OpenStore ==
    ASSUME IdInv, StoreInv, Open
    PROVE  StoreInv'
<1> DEFINE f0 == "file"
           t0 == "translationunit"
           co == "compileoptions"
<1>1. /\ ~isOpen /\ pending' = pending /\ work' = work /\ disk' = disk
      /\ files' = [id \in DOMAIN Listing(f0) |-> Listing(f0)[id].path]
      /\ units' = [id \in DOMAIN Listing(t0) |->
                      [file |-> Listing(t0)[id].file,
                       options |-> UnitOptions(UnitColumns(work, Listing(t0)[id]))]]
    BY DEF Open, dbVars
<1>2. /\ pending = Empty /\ Distinct(work[f0]) /\ Distinct(work[t0])
      /\ OptionsIn(work[t0], DOMAIN work[co])
    BY <1>1 DEF IdInv, Usage, StoreInv, IdsDistinct, Resolves
<1>3. IdsDistinct' /\ OneValuePerKey' /\ ObjectsShared'
    BY <1>1, <1>2, NothingPending DEF StoreInv, IdsDistinct, OneValuePerKey, ObjectsShared
<1>4. FilesAgree'
    BY <1>1, <1>2, NothingPending, ListedRow DEF FilesAgree
<1>5. UnitsAgree'
    <2>1. ASSUME NEW row \in Range(work[t0])
          PROVE  units'[row.id].file = row.file
                     /\ units'[row.id].options = UnitOptions(work[co][row.options])
        <3>1. row.id \in DOMAIN Listing(t0) /\ Listing(t0)[row.id] = row
            BY <1>2, ListedRow
        <3>2. row.options \in DOMAIN work[co]
            BY <1>2 DEF OptionsIn
        <3> QED
            BY <1>1, <3>1, <3>2 DEF UnitColumns
    <2> QED
        BY <1>1, <1>2, <2>1, NothingPending DEF UnitsAgree, StoredOptions
<1> QED
    BY <1>3, <1>4, <1>5 DEF StoreInv

LEMMA StoreInvInit ==
    ASSUME NEW n \in Nat, NEW m \in Nat, InitFor(n, m)
    PROVE  StoreInv
<1>1. /\ isOpen = TRUE /\ files = <<>> /\ units = <<>> /\ pending = Empty
      /\ work = EmptyDatabase /\ disk = EmptyDatabase
    BY DEF InitFor
<1>2. EmptyDatabase["file"] = <<>> /\ EmptyDatabase["translationunit"] = <<>>
    BY TableIs DEF EmptyDatabase
<1> QED
    BY <1>1, <1>2, NothingIn, NothingPending
       DEF StoreInv, IdsDistinct, Distinct, OneValuePerKey, ObjectsShared, FilesAgree, UnitsAgree
-----------------------------------------------------------------------------
(* The invariant. *)
SnapshotInv == IdInv /\ StoreInv

LEMMA AdditionKinds ==
    ASSUME IdInv, Addition(Path)
    PROVE  (\E k \in Key, v \in Value : SetProperty(k, v)) \/ \E newRows : Fits(newRows)
<1>1. ASSUME NEW p \in Path, AddFile(p) PROVE \E newRows : Fits(newRows)
    <2>1. Size(files) \in Nat
        <3>1. isOpen
            BY <1>1 DEF AddFile, AddFileWithId, Add, Call, Idle
        <3>2. DOMAIN files \subseteq Nat /\ \E n \in Nat : \A i \in DOMAIN files : i < n
            BY <3>1, ListsBounded DEF IdInv
        <3> QED
            BY <3>2, SizeIsFree
    <2> QED
        BY <1>1, <2>1, AddFileFits DEF AddFile
<1>2. ASSUME NEW p \in Path, NEW id \in 0..MaxFiles - 1, AddFileWithId(id, p)
      PROVE  \E newRows : Fits(newRows)
    <2>1. id \in Nat
        BY SnapshotAssumption
    <2> QED
        BY <1>2, <2>1, AddFileFits
<1>3. ASSUME NEW f \in DOMAIN files, NEW g \in DOMAIN files, NEW options \in Options,
             AddTranslationUnits(IF f = g THEN <<f>> ELSE <<f, g>>, options)
      PROVE  \E newRows : Fits(newRows)
    <2> DEFINE list == IF f = g THEN <<f>> ELSE <<f, g>>
    <2>1. list \in Seq(DOMAIN files)
        <3>1. <<f>> \in Seq(DOMAIN files) /\ <<f, g>> \in Seq(DOMAIN files)
            <4> HIDE DEF list
            <4> QED
                OBVIOUS
        <3> QED
            BY <3>1
    <2> HIDE DEF list
    <2> QED
        BY <1>3, <2>1, AddUnitsFit DEF list
<1>4. ASSUME NEW u \in DOMAIN units \cup {Null}, NEW f \in DOMAIN files, NEW g \in DOMAIN files,
             AddIncludes(u, f, g)
      PROVE  \E newRows : Fits(newRows)
    BY <1>4, AddIncludesFits
<1>5. ASSUME NEW s \in SymbolId, NEW b \in SymbolId, AddBase(s, b) PROVE \E newRows : Fits(newRows)
    BY <1>5, AddBaseFits
<1>6. ASSUME NEW s \in SymbolId, NEW f \in DOMAIN files, AddSymbolReference(s, f)
      PROVE  \E newRows : Fits(newRows)
    BY <1>6, AddSymbolReferenceFits
<1> QED
    BY <1>1, <1>2, <1>3, <1>4, <1>5, <1>6 DEF Addition

(* a step of which the database and what is pending know nothing *)
Quiet ==
    /\ UNCHANGED <<isOpen, files, units, hasPending, pending, phase, closing, work, disk, inTx>>
    /\ text' \in [Path -> Wording \cup {Null}]
    /\ \/ copying = 0 /\ copying' = 1 /\ isOpen /\ phase = 0
       \/ /\ copying' = copying
          /\ copying # 0 => \A p \in Path : text'[p] = Null <=> text[p] = Null

(* What a program that uses the snapshot may do. *)
StepKind ==
    \/ \E k \in Key, v \in Value : SetProperty(k, v)
    \/ \E newRows : Fits(newRows)
    \/ Quiet
    \/ CopyFile
    \/ \E u : AddTranslationUnitSerializedAst(u)
    \/ \E byDestructor \in BOOLEAN : Begin(byDestructor)
    \/ WriteTable
    \/ \E ok \in BOOLEAN : End(ok)
    \/ isOpen /\ Disconnect(disk)
    \/ Open

LEMMA StepKinds ==
    ASSUME IdInv, [Using(Path)]_<<vars, cacheVars>>
    PROVE  StepKind
<1>1. text \in [Path -> Wording \cup {Null}]
    BY DEF IdInv, SnapshotTypes
<1>2. ASSUME UNCHANGED vars PROVE Quiet
    BY <1>1, <1>2 DEF vars, memoryVars, dbVars, Quiet
<1>3. CASE Adding(Path)
    <2>1. ASSUME NEW s \in SymbolId, NEW v \in Version, AddSymbols(s, v)
          PROVE \E newRows : Fits(newRows)
        BY <2>1, AddSymbolFits DEF AddSymbols
    <2> QED
        BY <1>3, <2>1, AdditionKinds DEF Adding, StepKind
<1>4. CASE Updating(Path)
    <2>1. ASSUME AddFilesContent PROVE Quiet
        BY <1>1, <2>1 DEF AddFilesContent, Call, Idle, memoryVars, dbVars, Quiet
    <2>2. ASSUME NEW p \in Path, Edit(p) PROVE Quiet
        <3>1. PICK w \in Wording \cup {Null} : /\ copying # 0 => Null \notin {w, text[p]}
                                               /\ text' = [text EXCEPT ![p] = w]
            BY <2>2 DEF Edit
        <3>2. /\ text' \in [Path -> Wording \cup {Null}]
              /\ copying # 0 => \A q \in Path : text'[q] = Null <=> text[q] = Null
            BY <1>1, <3>1
        <3> QED
            BY <2>2, <3>2 DEF Edit, memoryVars, dbVars, Quiet
    <2> QED
        BY <1>4, <2>1, <2>2 DEF Updating, StepKind
<1>5. CASE Getting
    <2>1. UNCHANGED vars
        BY <1>5 DEF Getting, GetSymbol, ReleaseSymbol, GetFileContent, ReleaseContent
    <2> QED
        BY <1>2, <2>1 DEF StepKind
<1>6. CASE Proceeding
    <2>1. ASSUME Commit \/ Busy PROVE \E ok \in BOOLEAN : End(ok)
        BY <2>1 DEF Commit, Busy
    <2>2. ASSUME Close \/ Crash PROVE isOpen /\ Disconnect(disk)
        BY <2>2 DEF Close, Crash, Idle
    <2> QED
        BY <1>6, <2>1, <2>2 DEF Proceeding, StepKind
<1>7. CASE Begin(FALSE) \/ Begin(TRUE)
    BY <1>7 DEF StepKind
<1>8. CASE Open
    BY <1>8 DEF StepKind
<1>9. CASE UNCHANGED <<vars, cacheVars>>
    BY <1>2, <1>9 DEF StepKind
<1> QED
    BY <1>3, <1>4, <1>5, <1>6, <1>7, <1>8, <1>9 DEF Using

LEMMA SnapshotInvInit ==
    ASSUME NEW n \in Nat, NEW m \in Nat, InitFor(n, m)
    PROVE  SnapshotInv
BY IdInvInit, StoreInvInit DEF SnapshotInv

LEMMA SnapshotInvStep ==
    ASSUME SnapshotInv, StepKind
    PROVE  SnapshotInv'
<1>1. IdInv /\ StoreInv
    BY DEF SnapshotInv
<1>2. ASSUME NEW k \in Key, NEW v \in Value, SetProperty(k, v) PROVE SnapshotInv'
    BY <1>1, <1>2, SetPropertyStep, SetPropertyStoreStep DEF SnapshotInv
<1>3. ASSUME NEW newRows, Fits(newRows) PROVE SnapshotInv'
    <2>1. IdInv'
        BY <1>1, <1>3, AddStep DEF Fits
    <2>2. StoreInv'
        BY <1>1, <1>3, AddStoreStep
    <2> QED
        BY <2>1, <2>2 DEF SnapshotInv
<1>4. ASSUME Quiet PROVE SnapshotInv'
    <2>1. /\ copying' \in Nat
          /\ copying' # 0 => isOpen /\ phase = 0
        BY <1>1, <1>4 DEF Quiet, IdInv, SnapshotTypes, Usage
    <2>2. IdInv'
        <3>1. /\ UNCHANGED <<isOpen, files, units, hasPending, pending, phase, closing, work, disk,
                         inTx>>
              /\ text' \in [Path -> Wording \cup {Null}]
            BY <1>4 DEF Quiet
        <3> QED
            BY <1>1, <2>1, <3>1, QuietStep
    <2>3. StoreInv'
        BY <1>1, <1>4, QuietStore DEF Quiet
    <2> QED
        BY <2>2, <2>3 DEF SnapshotInv
<1>5. ASSUME CopyFile PROVE SnapshotInv'
    BY <1>1, <1>5, CopyFileStep, CopyFileStore DEF SnapshotInv
<1>6. ASSUME NEW u, AddTranslationUnitSerializedAst(u) PROVE SnapshotInv'
    BY <1>1, <1>6, SerializedAstStep, SerializedAstStore DEF SnapshotInv
<1>7. ASSUME NEW byDestructor \in BOOLEAN, Begin(byDestructor) PROVE SnapshotInv'
    <2>1. IdInv'
        BY <1>1, <1>7, BeginStep
    <2>2. UNCHANGED <<isOpen, files, units, pending, work, disk>>
        BY <1>7 DEF Begin, memoryVars
    <2> QED
        BY <1>1, <2>1, <2>2, QuietStore DEF SnapshotInv
<1>8. ASSUME WriteTable PROVE SnapshotInv'
    BY <1>1, <1>8, WriteTableStep, WriteTableStore DEF SnapshotInv
<1>9. ASSUME NEW ok \in BOOLEAN, End(ok) PROVE SnapshotInv'
    BY <1>1, <1>9, EndStep, EndStore DEF SnapshotInv
<1>10. ASSUME Disconnect(disk) PROVE SnapshotInv'
    BY <1>1, <1>10, DisconnectStep, DisconnectStore DEF SnapshotInv
<1>11. ASSUME Open PROVE SnapshotInv'
    BY <1>1, <1>11, OpenStep, OpenStore DEF SnapshotInv
<1> QED
    BY <1>2, <1>3, <1>4, <1>5, <1>6, <1>7, <1>8, <1>9, <1>10, <1>11 DEF StepKind

(* Whatever a program does with a snapshot, and wherever it stops, the ids and what they
   stand for agree in memory, in the pending data and in the database. *)
THEOREM SnapshotInvariant == UsingSpec => []SnapshotInv
<1>1. (\E n, m \in Nat : InitFor(n, m)) /\ CachesInit => SnapshotInv
    BY SnapshotInvInit
<1>2. SnapshotInv /\ [Using(Path)]_<<vars, cacheVars>> => SnapshotInv'
    BY StepKinds, SnapshotInvStep DEF SnapshotInv
<1> QED
    BY <1>1, <1>2, PTL DEF UsingSpec

LEMMA ReferencesFollow ==
    ASSUME IdInv
    PROVE  ReferencesResolve
<1>1. /\ disk["ppinclude"] \in Seq(IncludeRow) /\ disk["include"] \in Seq(IncludeRow)
    BY TableIs, RowsOfTables DEF IdInv, SnapshotTypes, Database
<1>2. Range(disk["ppinclude"] \o disk["include"])
          = Range(disk["ppinclude"]) \cup Range(disk["include"])
    BY <1>1, RowsJoined
<1>3. Resolves(disk)
    BY DEF IdInv
<1> QED
    BY <1>2, <1>3 DEF ReferencesResolve, Resolves, Referring, UnitsIn, IncludesIn, UnitIncludesIn,
                      BasesIn, ReferencesIn, OptionsIn, Ids

(* No row that is committed holds an id that is not, for any number of files, units,
   symbols and calls: nothing in the database enforces it. *)
THEOREM IdsResolve == UsingSpec => []ReferencesResolve
<1>1. SnapshotInv => ReferencesResolve
    BY ReferencesFollow DEF SnapshotInv
<1> QED
    BY <1>1, SnapshotInvariant, PTL
-----------------------------------------------------------------------------
(* The refinement: what a user of the snapshot finds. *)
(* The rows as a user finds them. *)
ShownUnit == [id : Nat, file : Nat, ast : BOOLEAN, options : StoredColumns \cup {Null}]

ViewRow(t) == IF t = "translationunit" THEN ShownUnit ELSE RowOf(t)

LEMMA RowsType ==
    ASSUME NEW db, Database(db)
    PROVE  /\ \A t \in Table : Rows(db, t) \in Seq(ViewRow(t))
           /\ \A t \in Table \ {"translationunit"} : Rows(db, t) = db[t]
<1> DEFINE t0 == "translationunit"
           co == "compileoptions"
<1>1. db[t0] \in Seq(UnitRow) /\ db[co] \in Seq(StoredColumns)
          /\ \A t \in Table : db[t] \in Seq(RowOf(t))
    BY TableIs, RowsOfTables DEF Database, StoredColumns
<1>2. \A t \in Table \ {t0} : Rows(db, t) = db[t] /\ ViewRow(t) = RowOf(t)
    BY DEF Rows, ViewRow
<1>3. Rows(db, t0) \in Seq(ShownUnit)
    <2>1. ASSUME NEW i \in DOMAIN db[t0]
          PROVE [db[t0][i] EXCEPT !.options = UnitColumns(db, db[t0][i])] \in ShownUnit
        <3>1. db[t0][i] \in UnitRow
            BY <1>1
        <3>2. UnitColumns(db, db[t0][i]) \in StoredColumns \cup {Null}
            BY <1>1 DEF UnitColumns
        <3>3. ASSUME NEW r \in UnitRow, NEW c \in StoredColumns \cup {Null}
              PROVE  [r EXCEPT !.options = c] \in ShownUnit
            BY DEF UnitRow, ShownUnit
        <3> QED
            BY <3>1, <3>2, <3>3
    <2> DEFINE shown(i) == [db[t0][i] EXCEPT !.options = UnitColumns(db, db[t0][i])]
    <2>2. \A i \in DOMAIN db[t0] : shown(i) \in ShownUnit
        BY <2>1
    <2>3. Rows(db, t0) = [i \in DOMAIN db[t0] |-> shown(i)]
        BY DEF Rows
    <2> HIDE DEF shown
    <2> QED
        BY <1>1, <2>2, <2>3
<1> QED
    BY <1>2, <1>3, <1>1 DEF ViewRow

LEMMA PendingIs ==
    /\ PendingRows("translationunit") = WithColumns(pending["translationunit"])
    /\ \A t \in Table \ {"translationunit"} : PendingRows(t) = pending[t]
BY DEF PendingRows, WithColumns

LEMMA WithColumnsType ==
    ASSUME NEW rows \in Seq(PendingUnit)
    PROVE  /\ WithColumns(rows) \in Seq(ShownUnit) /\ DOMAIN WithColumns(rows) = DOMAIN rows
           /\ Len(WithColumns(rows)) = Len(rows)
<1> DEFINE row(i) == [id |-> rows[i].id, file |-> rows[i].file, ast |-> rows[i].ast,
                      options |-> Columns(rows[i].options)]
<1>1. \A i \in DOMAIN rows : row(i) \in ShownUnit
    <2> TAKE i \in DOMAIN rows
    <2>1. rows[i] \in PendingUnit
        OBVIOUS
    <2>2. rows[i].id \in Nat /\ rows[i].file \in Nat /\ rows[i].ast \in BOOLEAN
              /\ rows[i].options \in Options
        BY <2>1, UnitFields
    <2>3. Columns(rows[i].options) \in StoredColumns
        BY <2>2 DEF StoredColumns
    <2> QED
        BY <2>2, <2>3 DEF ShownUnit
<1>2. WithColumns(rows) = [i \in DOMAIN rows |-> row(i)]
    BY DEF WithColumns
<1> HIDE DEF row
<1> QED
    BY <1>1, <1>2

LEMMA PendingRowsType ==
    ASSUME SnapshotTypes, NEW t \in Table
    PROVE  PendingRows(t) \in Seq(ViewRow(t))
<1>1. pending[t] \in Seq(PendingRow(t))
    BY DEF SnapshotTypes
<1>2. CASE t = "translationunit"
    BY <1>1, <1>2, PendingIs, WithColumnsType, RowsOfTables DEF ViewRow
<1>3. CASE t # "translationunit"
    BY <1>1, <1>3, PendingIs, RowsOfTables DEF ViewRow
<1> QED
    BY <1>2, <1>3

(* Which tables the flush has filled. *)
LEMMA ViewIs ==
    \A n \in 1..8 :
       phase \in 0..9 =>
          View[Tables[n]] = IF n < phase THEN Rows(work, Tables[n])
                            ELSE InsertAll(Tables[n], Rows(work, Tables[n]), PendingRows(Tables[n]))
<1> SUFFICES ASSUME NEW n \in 1..8, phase \in 0..9
             PROVE  View[Tables[n]] = IF n < phase THEN Rows(work, Tables[n])
                            ELSE InsertAll(Tables[n], Rows(work, Tables[n]), PendingRows(Tables[n]))
    OBVIOUS
<1>1. (\E i \in 1..Len(Tables) : Tables[i] = Tables[n] /\ i < phase) <=> n < phase
    BY TableIs
<1>2. Tables[n] \in Table
    BY TableIs
<1> HIDE DEF Table
<1> QED
    BY <1>1, <1>2 DEF View

LEMMA ViewBetween ==
    phase \in {0, 1} => View = [t \in Table |-> InsertAll(t, Rows(work, t), PendingRows(t))]
<1> SUFFICES ASSUME phase \in {0, 1}
             PROVE  View = [t \in Table |-> InsertAll(t, Rows(work, t), PendingRows(t))]
    OBVIOUS
<1>1. \A t \in Table : ~\E i \in 1..Len(Tables) : Tables[i] = t /\ i < phase
    BY TableIs
<1> QED
    BY <1>1 DEF View

LEMMA ViewWritten ==
    ASSUME phase = 9
    PROVE  View = [t \in Table |-> Rows(work, t)]
<1>1. \A t \in Table : \E i \in 1..Len(Tables) : Tables[i] = t /\ i < phase
    BY TableIs
<1> QED
    BY <1>1 DEF View

LEMMA NoPendingRows ==
    ASSUME pending = Empty, NEW t \in Table
    PROVE  PendingRows(t) = <<>>
BY EmptyRows DEF PendingRows

(* the database alone *)
LEMMA StoredView ==
    pending = Empty /\ phase = 0 => View = [t \in Table |-> Rows(work, t)]
<1> SUFFICES ASSUME pending = Empty, phase = 0 PROVE View = [t \in Table |-> Rows(work, t)]
    OBVIOUS
<1>1. View = [t \in Table |-> InsertAll(t, Rows(work, t), PendingRows(t))]
    BY ViewBetween
<1>2. \A t \in Table : InsertAll(t, Rows(work, t), PendingRows(t)) = Rows(work, t)
    BY NoPendingRows, InsertedNone
<1> QED
    BY <1>1, <1>2

(* The same after a step. *)
LEMMA ViewNext ==
    /\ \A n \in 1..8 :
          phase' \in 0..9 =>
             View'[Tables[n]] = IF n < phase' THEN Rows(work', Tables[n])
                                ELSE InsertAll(Tables[n], Rows(work', Tables[n]),
                                        PendingRows(Tables[n])')
    /\ phase' \in {0, 1} => View' = [t \in Table |-> InsertAll(t, Rows(work', t), PendingRows(t)')]
    /\ pending' = Empty /\ phase' = 0 => View' = [t \in Table |-> Rows(work', t)]
<1>1. (\A n \in 1..8 :
         phase \in 0..9 =>
            View[Tables[n]] = IF n < phase THEN Rows(work, Tables[n])
                              ELSE InsertAll(Tables[n], Rows(work, Tables[n]),
                                      PendingRows(Tables[n])))'
    BY ViewIs, PTL
<1>2. (phase \in {0, 1} => View = [t \in Table |-> InsertAll(t, Rows(work, t), PendingRows(t))])'
    BY ViewBetween, PTL
<1>3. (pending = Empty /\ phase = 0 => View = [t \in Table |-> Rows(work, t)])'
    BY StoredView, PTL
<1> QED
    BY <1>1, <1>2, <1>3
-----------------------------------------------------------------------------
(* Every kind of step is one of the store. *)
StoreStep == [Store!Next]_<<View, Durable>>

LEMMA SameStore ==
    ASSUME View' = View, Durable' = Durable
    PROVE  StoreStep
BY DEF StoreStep

LEMMA BeginImplements ==
    ASSUME NEW byDestructor, Begin(byDestructor)
    PROVE  StoreStep
<1>1. phase = 0 /\ phase' = 1 /\ work' = work /\ disk' = disk /\ pending' = pending
    BY DEF Begin, Idle
<1>2. /\ View = [t \in Table |-> InsertAll(t, Rows(work, t), PendingRows(t))]
      /\ View' = [t \in Table |-> InsertAll(t, Rows(work', t), PendingRows(t)')]
    BY <1>1, ViewBetween, ViewNext
<1>3. \A t \in Table : PendingRows(t)' = PendingRows(t)
    BY <1>1 DEF PendingRows
<1> QED
    BY <1>1, <1>2, <1>3, SameStore DEF Durable

LEMMA QuietImplements ==
    ASSUME UNCHANGED <<pending, phase, work, disk>>
    PROVE  StoreStep
BY SameStore DEF View, Durable, PendingRows

LEMMA WriteTableImplements ==
    ASSUME SnapshotInv, WriteTable
    PROVE  StoreStep
<1> DEFINE t0 == "translationunit"
           t == Tables[phase]
<1>1. /\ phase \in 1..8 /\ phase' = phase + 1 /\ disk' = disk /\ pending' = pending
      /\ t \in Table
      /\ \A u \in Table : u # t => work'[u] = work[u]
      /\ t # t0 => work'[t] = InsertAll(t, work[t], pending[t])
             /\ work'["compileoptions"] = work["compileoptions"]
      /\ t = t0 => work' = InsertUnits(work, pending[t0])
    BY TableWritten DEF SnapshotInv
<1>2. /\ Database(work) /\ OptionsIn(work[t0], DOMAIN work["compileoptions"])
      /\ pending[t0] \in Seq(PendingUnit) /\ OneObject(pending[t0])
    BY TableIs, RowsOfTables
       DEF SnapshotInv, IdInv, SnapshotTypes, Resolves, StoreInv, ObjectsShared
<1>3. \A u \in Table : u # t => Rows(work', u) = Rows(work, u)
    BY <1>1 DEF Rows, UnitColumns
<1>4. Rows(work', t) = InsertAll(t, Rows(work, t), PendingRows(t))
    <2>1. CASE t # t0
        BY <1>1, <2>1 DEF Rows, PendingRows
    <2>2. CASE t = t0
        <3> DEFINE rows == pending[t0]
        <3>1. rows \in Seq(PendingUnit) /\ OneObject(rows)
            BY <1>2
        <3> HIDE DEF rows
        <3>2. Rows(InsertUnits(work, rows), t0) = InsertAll(t0, Rows(work, t0), WithColumns(rows))
            BY <1>2, <3>1, UnitsWritten
        <3> QED
            BY <1>1, <2>2, <3>2, PendingIs DEF rows
    <2> QED
        BY <2>1, <2>2
<1>5. \A u \in Table : PendingRows(u)' = PendingRows(u)
    BY <1>1 DEF PendingRows
<1>6. phase' \in 0..9 /\ phase \in 0..9
    BY <1>1
<1> HIDE DEF t
<1>7. ASSUME NEW n \in 1..8 PROVE View'[Tables[n]] = View[Tables[n]]
    <2>1. /\ View[Tables[n]] = IF n < phase THEN Rows(work, Tables[n])
                               ELSE InsertAll(Tables[n], Rows(work, Tables[n]),
                                       PendingRows(Tables[n]))
          /\ View'[Tables[n]] = IF n < phase' THEN Rows(work', Tables[n])
                                ELSE InsertAll(Tables[n], Rows(work', Tables[n]),
                                        PendingRows(Tables[n])')
        BY <1>6, ViewIs, ViewNext
    <2>2. Tables[n] \in Table
        BY TableIs
    <2>3. CASE n = phase
        <3>1. Tables[n] = t /\ ~(n < phase) /\ n < phase'
            BY <1>1, <2>3 DEF t
        <3> QED
            BY <1>4, <2>1, <3>1
    <2>4. CASE n # phase
        <3>1. Tables[n] # t /\ (n < phase' <=> n < phase)
            BY <1>1, <2>4, TableIs DEF t
        <3> QED
            BY <1>3, <1>5, <2>1, <2>2, <3>1
    <2> QED
        BY <2>3, <2>4
<1>8. View' = View
    <2>1. \A u \in Table : \E n \in 1..8 : u = Tables[n]
        BY TableIs
    <2>2. \A u \in Table : View'[u] = View[u]
        BY <1>7, <2>1
    <2>3. View = [u \in Table |-> View[u]] /\ View' = [u \in Table |-> View'[u]]
        BY DEF View
    <2> QED
        BY <2>2, <2>3
<1>9. Durable' = Durable
    BY <1>1 DEF Durable
<1> QED
    BY <1>8, <1>9, SameStore

LEMMA DisconnectImplements ==
    ASSUME Disconnect(disk)
    PROVE  StoreStep
<1>1. work' = disk /\ disk' = disk /\ pending' = Empty /\ phase' = 0
    BY DEF Disconnect
<1>2. View' = [t \in Table |-> Rows(work', t)]
    BY <1>1, ViewNext
<1>3. View' = Durable /\ Durable' = Durable
    BY <1>1, <1>2 DEF Durable
<1> QED
    BY <1>3 DEF StoreStep, Store!Next, Store!Lose

LEMMA EndImplements ==
    ASSUME NEW ok \in BOOLEAN, End(ok)
    PROVE  StoreStep
<1>1. phase = 9 /\ View = [t \in Table |-> Rows(work, t)]
    BY TableIs, ViewWritten DEF End
<1>2. CASE ok
    <2>1. disk' = work /\ work' = work /\ pending' = Empty /\ phase' = 0
        BY <1>2 DEF End, Disconnect
    <2>2. View' = [t \in Table |-> Rows(work', t)]
        BY <2>1, ViewNext
    <2>3. Durable' = View /\ View' = View
        BY <1>1, <2>1, <2>2 DEF Durable
    <2> QED
        BY <2>3 DEF StoreStep, Store!Next, Store!Save
<1>3. CASE ~ok /\ closing
    <2>1. Disconnect(disk)
        BY <1>3 DEF End
    <2> QED
        BY <2>1, DisconnectImplements
<1>4. CASE ~ok /\ ~closing
    <2>1. disk' = disk /\ work' = work /\ pending' = Empty /\ phase' = 0
        BY <1>4 DEF End
    <2>2. View' = [t \in Table |-> Rows(work', t)]
        BY <2>1, ViewNext
    <2>3. Durable' = Durable /\ View' = View
        BY <1>1, <2>1, <2>2 DEF Durable
    <2> QED
        BY <2>3, SameStore
<1> QED
    BY <1>2, <1>3, <1>4

LEMMA OpenImplements ==
    ASSUME Open
    PROVE  StoreStep
BY QuietImplements DEF Open, dbVars

LEMMA ColumnsJoined ==
    ASSUME NEW q \in Seq(PendingUnit), NEW r \in Seq(PendingUnit)
    PROVE  WithColumns(q \o r) = WithColumns(q) \o WithColumns(r)
<1> DEFINE qr == q \o r
           a == WithColumns(q)
           b == WithColumns(r)
           ab == a \o b
           c == WithColumns(qr)
<1>1. /\ qr \in Seq(PendingUnit) /\ DOMAIN qr = 1..Len(q) + Len(r)
      /\ \A i \in 1..Len(q) : qr[i] = q[i]
      /\ \A i \in 1..Len(r) : qr[Len(q) + i] = r[i]
      /\ Len(q) \in Nat /\ Len(r) \in Nat /\ DOMAIN q = 1..Len(q) /\ DOMAIN r = 1..Len(r)
    OBVIOUS
<1> HIDE DEF qr
<1>2. /\ a \in Seq(ShownUnit) /\ b \in Seq(ShownUnit) /\ c \in Seq(ShownUnit)
      /\ DOMAIN c = DOMAIN qr /\ Len(a) = Len(q) /\ Len(b) = Len(r)
    BY <1>1, WithColumnsType
<1>3. /\ \A i \in DOMAIN q : a[i] = [id |-> q[i].id, file |-> q[i].file, ast |-> q[i].ast,
                                     options |-> Columns(q[i].options)]
      /\ \A i \in DOMAIN r : b[i] = [id |-> r[i].id, file |-> r[i].file, ast |-> r[i].ast,
                                     options |-> Columns(r[i].options)]
      /\ \A i \in DOMAIN qr : c[i] = [id |-> qr[i].id, file |-> qr[i].file, ast |-> qr[i].ast,
                                      options |-> Columns(qr[i].options)]
    BY DEF WithColumns
<1> HIDE DEF a, b, c
<1>4. /\ ab \in Seq(ShownUnit) /\ DOMAIN ab = 1..Len(q) + Len(r)
      /\ \A i \in 1..Len(q) : ab[i] = a[i]
      /\ \A i \in 1..Len(r) : ab[Len(q) + i] = b[i]
    <2>1. a \in Seq(ShownUnit) /\ b \in Seq(ShownUnit)
        BY <1>2
    <2>2. /\ ab \in Seq(ShownUnit) /\ DOMAIN ab = 1..Len(a) + Len(b)
          /\ \A i \in 1..Len(a) : ab[i] = a[i]
          /\ \A i \in 1..Len(b) : ab[Len(a) + i] = b[i]
        BY <2>1, Concatenated
    <2>3. Len(a) = Len(q) /\ Len(b) = Len(r)
        BY <1>2
    <2> HIDE DEF ab
    <2> QED
        BY <2>2, <2>3
<1> HIDE DEF ab
<1>5. ASSUME NEW i \in 1..Len(q) + Len(r) PROVE c[i] = ab[i]
    <2>1. CASE i <= Len(q)
        <3>1. i \in 1..Len(q)
            BY <1>1, <2>1
        <3>2. i \in DOMAIN q /\ i \in DOMAIN qr /\ qr[i] = q[i] /\ ab[i] = a[i]
            BY <1>1, <1>4, <3>1
        <3> QED
            BY <1>3, <3>2
    <2>2. CASE ~(i <= Len(q))
        <3>1. i - Len(q) \in 1..Len(r) /\ i = Len(q) + (i - Len(q))
            BY <1>1, <2>2
        <3>2. i \in DOMAIN qr /\ i - Len(q) \in DOMAIN r
            BY <1>1, <3>1
        <3>3. qr[i] = r[i - Len(q)] /\ ab[i] = b[i - Len(q)]
            BY <1>1, <1>4, <3>1
        <3> QED
            BY <1>3, <3>2, <3>3
    <2> QED
        BY <2>1, <2>2
<1>6. c = ab
    <2>1. c = [i \in DOMAIN c |-> c[i]] /\ ab = [i \in DOMAIN ab |-> ab[i]]
        BY <1>2, <1>4
    <2> QED
        BY <1>1, <1>2, <1>4, <1>5, <2>1
<1> QED
    BY <1>6 DEF a, b, c, ab, qr

LEMMA LongerView ==
    ASSUME phase = 0, phase' = 0, disk' = disk,
           \A t \in Table : Len(InsertAll(t, Rows(work', t), PendingRows(t)'))
                                >= Len(InsertAll(t, Rows(work, t), PendingRows(t)))
    PROVE  StoreStep
<1>1. /\ View = [t \in Table |-> InsertAll(t, Rows(work, t), PendingRows(t))]
      /\ View' = [t \in Table |-> InsertAll(t, Rows(work', t), PendingRows(t)')]
    BY ViewBetween, ViewNext
<1>2. \A t \in Table : Len(View'[t]) >= Len(View[t])
    BY <1>1
<1>3. Durable' = Durable
    BY DEF Durable
<1> QED
    BY <1>2, <1>3 DEF StoreStep, Store!Next, Store!Change

LEMMA FitsImplements ==
    ASSUME SnapshotInv, NEW newRows, Fits(newRows)
    PROVE  StoreStep
<1>1. /\ phase = 0 /\ phase' = phase /\ work' = work /\ disk' = disk
      /\ \A t \in Table : pending'[t] = pending[t] \o New(newRows)[t]
    BY AddChanges DEF Fits, SnapshotInv
<1>2. ASSUME NEW t \in Table
      PROVE  Len(InsertAll(t, Rows(work', t), PendingRows(t)'))
                 >= Len(InsertAll(t, Rows(work, t), PendingRows(t)))
    <2> DEFINE more == New(newRows)[t]
    <2>1. pending[t] \in Seq(PendingRow(t)) /\ more \in Seq(PendingRow(t))
        BY RowsAdded DEF Fits, SnapshotInv
    <2>2. pending'[t] = pending[t] \o more
        BY <1>1
    <2>3. Rows(work, t) \in Seq(ViewRow(t)) /\ PendingRows(t) \in Seq(ViewRow(t))
        BY RowsType, PendingRowsType DEF SnapshotInv, IdInv, SnapshotTypes
    <2> HIDE DEF more
    <2>4. \E added \in Seq(ViewRow(t)) : PendingRows(t)' = PendingRows(t) \o added
        <3>1. CASE t = "translationunit"
            <4>1. pending[t] \in Seq(PendingUnit) /\ more \in Seq(PendingUnit)
                BY <2>1, <3>1, RowsOfTables
            <4>2. PendingRows(t) = WithColumns(pending[t])
                      /\ PendingRows(t)' = WithColumns(pending'[t])
                BY <3>1 DEF PendingRows, WithColumns
            <4>3. WithColumns(pending[t] \o more) = WithColumns(pending[t]) \o WithColumns(more)
                BY <4>1, ColumnsJoined
            <4>4. WithColumns(more) \in Seq(ViewRow(t))
                BY <3>1, <4>1, WithColumnsType DEF ViewRow
            <4> QED
                BY <2>2, <4>2, <4>3, <4>4
        <3>2. CASE t # "translationunit"
            <4>1. PendingRows(t) = pending[t] /\ PendingRows(t)' = pending'[t]
                BY <3>2 DEF PendingRows
            <4>2. more \in Seq(ViewRow(t))
                BY <2>1, <3>2, RowsOfTables DEF ViewRow
            <4> QED
                BY <2>2, <4>1, <4>2
        <3> QED
            BY <3>1, <3>2
    <2>5. PICK added \in Seq(ViewRow(t)) : PendingRows(t)' = PendingRows(t) \o added
        BY <2>4
    <2>6. Len(InsertAll(t, Rows(work, t), PendingRows(t) \o added))
              >= Len(InsertAll(t, Rows(work, t), PendingRows(t)))
        BY <2>3, <2>5, InsertedLonger
    <2> QED
        BY <1>1, <2>5, <2>6
<1> QED
    BY <1>1, <1>2, LongerView

LEMMA SetPropertyImplements ==
    ASSUME SnapshotInv, NEW k \in Key, NEW v \in Value, SetProperty(k, v)
    PROVE  StoreStep
<1>1. /\ phase = 0 /\ phase' = phase /\ work' = work /\ disk' = disk
      /\ \A t \in Table \ {"info"} : pending'[t] = pending[t]
    BY SetPropertyStep DEF SnapshotInv
<1>2. Len(pending'["info"]) >= Len(pending["info"])
    BY SetPropertyStoreStep DEF SnapshotInv
<1>3. /\ "info" \in Table /\ "info" \notin Identified \cup {"include"}
      /\ work["info"] \in Seq(InfoRow) /\ pending["info"] \in Seq(InfoRow)
      /\ pending'["info"] \in Seq(InfoRow)
    <2>1. IdInv /\ IdInv'
        BY SetPropertyStep DEF SnapshotInv
    <2> QED
        BY <2>1, TableIs, RowsOfTables DEF IdInv, SnapshotTypes, Database, Identified
<1>4. ASSUME NEW t \in Table
      PROVE  Len(InsertAll(t, Rows(work', t), PendingRows(t)'))
                 >= Len(InsertAll(t, Rows(work, t), PendingRows(t)))
    <2>1. CASE t = "info"
        <3>1. /\ Rows(work', t) = work["info"] /\ Rows(work, t) = work["info"]
              /\ PendingRows(t) = pending["info"] /\ PendingRows(t)' = pending'["info"]
            BY <1>1, <2>1 DEF Rows, PendingRows
        <3> DEFINE q == work["info"]
                   r == pending["info"]
                   s == pending'["info"]
        <3>2. q \in Seq(InfoRow) /\ r \in Seq(InfoRow) /\ s \in Seq(InfoRow) /\ Len(s) >= Len(r)
            BY <1>2, <1>3
        <3> HIDE DEF q, r, s
        <3>3. InsertAll(t, q, r) = q \o r /\ InsertAll(t, q, s) = q \o s
            <4>1. t \notin Identified \cup {"include"}
                BY <1>3, <2>1
            <4> QED
                BY <3>2, <4>1, InsertedAtEnd
        <3>4. Len(q \o s) >= Len(q \o r)
            BY <3>2
        <3> QED
            BY <3>1, <3>3, <3>4 DEF q, r, s
    <2>2. CASE t # "info"
        <3>1. PendingRows(t)' = PendingRows(t)
            BY <1>1, <2>2 DEF PendingRows
        <3>2. Rows(work, t) \in Seq(ViewRow(t)) /\ PendingRows(t) \in Seq(ViewRow(t))
            BY RowsType, PendingRowsType DEF SnapshotInv, IdInv, SnapshotTypes
        <3>3. Len(InsertAll(t, Rows(work, t), PendingRows(t))) \in Nat
            <4>1. InsertAll(t, Rows(work, t), PendingRows(t)) \in Seq(ViewRow(t))
                BY <3>2, InsertAllType
            <4> QED
                BY <4>1
        <3> QED
            BY <1>1, <3>1, <3>3
    <2> QED
        BY <2>1, <2>2
<1> QED
    BY <1>1, <1>4, LongerView
-----------------------------------------------------------------------------
(* The refinement: columns that are updated. *)
(* An UPDATE of one row, under rows that are still pending. *)
OnlyAt(q, r, i) == \A j \in DOMAIN q : j # i => r[j] = q[j]

LEMMA RowAmended ==
    ASSUME NEW t \in {"file", "translationunit"}, NEW E, NEW q \in Seq(E), NEW r \in Seq(E),
           NEW new \in Seq(E), Alike(q, r, Len(q)), NEW i \in DOMAIN q, OnlyAt(q, r, i)
    PROVE  /\ InsertAll(t, q, new)[i] = q[i] /\ InsertAll(t, r, new)[i] = r[i]
           /\ r = [q EXCEPT ![i] = r[i]]
           /\ InsertAll(t, r, new) = [InsertAll(t, q, new) EXCEPT ![i] = r[i]]
<1> DEFINE a == InsertAll(t, q, new)
           b == InsertAll(t, r, new)
<1>1. /\ Alike(a, b, Len(q))
      /\ \A j \in DOMAIN q : a[j] = q[j] /\ b[j] = r[j]
    BY InsertedRowsKept
<1>2. a \in Seq(E) /\ b \in Seq(E) /\ DOMAIN q = 1..Len(q) /\ Len(q) \in Nat
    <2>1. a \in Seq(E) /\ b \in Seq(E)
        BY InsertAllType
    <2> QED
        BY <2>1
<1> HIDE DEF a, b
<1>3. DOMAIN a = 1..Len(a) /\ Len(a) \in Nat
    BY <1>2
<1>4. DOMAIN b = DOMAIN a /\ \A j \in DOMAIN a : j > Len(q) => a[j] = b[j]
    BY <1>1 DEF Alike
<1>5. \A j \in DOMAIN a : j # i => b[j] = a[j]
    <2> TAKE j \in DOMAIN a
    <2>1. CASE j \in DOMAIN q
        BY <1>1, <2>1 DEF OnlyAt
    <2>2. CASE j \notin DOMAIN q
        <3>1. j > Len(q)
            BY <1>2, <1>3, <2>2
        <3> QED
            BY <1>4, <3>1
    <2> QED
        BY <2>1, <2>2
<1>6. b = [a EXCEPT ![i] = r[i]]
    <2>1. b[i] = r[i]
        BY <1>1
    <2>2. b = [j \in DOMAIN b |-> b[j]]
        BY <1>2
    <2> QED
        BY <1>4, <1>5, <2>1, <2>2
<1>7. r = [q EXCEPT ![i] = r[i]]
    <2>1. DOMAIN r = DOMAIN q /\ r = [j \in DOMAIN r |-> r[j]]
        BY DEF Alike
    <2> QED
        BY <2>1 DEF OnlyAt
<1> QED
    BY <1>1, <1>6, <1>7 DEF a, b

(* an UPDATE changes the row of an id *)
RowsButOf(q, r, id) ==
    DOMAIN r = DOMAIN q /\ \A i \in DOMAIN q : r[i].id = q[i].id /\ (q[i].id # id => r[i] = q[i])

LEMMA UpdateImplements ==
    ASSUME NEW t \in {"file", "translationunit"}, NEW E, NEW q, NEW r, NEW new, NEW id,
           q \in Seq(E), r \in Seq(E), new \in Seq(E), RowsButOf(q, r, id), Distinct(q),
           Rows(work, t) = q, Rows(work', t) = r, PendingRows(t) = new,
           \A u \in Table \ {t} : Rows(work', u) = Rows(work, u),
           \A u \in Table : InsertAll(u, Rows(work, u), PendingRows(u)) \in Seq(ViewRow(u)),
           pending' = pending, phase = 0, phase' = 0,
           IF inTx THEN disk' = disk ELSE disk = work /\ disk' = work'
    PROVE  StoreStep
<1>1. Alike(q, r, Len(q))
    <2>1. \A i \in DOMAIN q : ~(i > Len(q))
        OBVIOUS
    <2> QED
        BY <2>1 DEF Alike, RowsButOf
<1>2. t \in Table
    BY TableIs
<1>3. \A u \in Table : PendingRows(u)' = PendingRows(u)
    BY DEF PendingRows
<1>4. /\ View = [u \in Table |-> InsertAll(u, Rows(work, u), PendingRows(u))]
      /\ View' = [u \in Table |-> InsertAll(u, Rows(work', u), PendingRows(u)')]
    BY ViewBetween, ViewNext
<1>5. \A u \in Table \ {t} : View'[u] = View[u]
    BY <1>3, <1>4
<1>6. View[t] = InsertAll(t, q, new) /\ View'[t] = InsertAll(t, r, new)
    BY <1>2, <1>3, <1>4
<1>7. CASE inTx
    <2>1. \A u \in Table : Len(View'[u]) >= Len(View[u])
        <3> TAKE u \in Table
        <3>1. View[u] \in Seq(ViewRow(u)) /\ Len(View[u]) \in Nat
            BY <1>4
        <3>2. CASE u = t
            <4>1. Alike(InsertAll(t, q, new), InsertAll(t, r, new), Len(q))
                BY <1>1, InsertedRowsKept
            <4>2. InsertAll(t, q, new) \in Seq(E) /\ InsertAll(t, r, new) \in Seq(E)
                BY InsertAllType
            <4> DEFINE a == InsertAll(t, q, new)
                       b == InsertAll(t, r, new)
            <4>3. a \in Seq(E) /\ b \in Seq(E) /\ DOMAIN a = DOMAIN b
                BY <4>1, <4>2 DEF Alike
            <4> HIDE DEF a, b
            <4>4. Len(b) >= Len(a)
                BY <4>3
            <4> QED
                BY <1>6, <3>2, <4>4 DEF a, b
        <3>3. CASE u # t
            BY <1>5, <3>1, <3>3
        <3> QED
            BY <3>2, <3>3
    <2>2. Durable' = Durable
        BY <1>7 DEF Durable
    <2> QED
        BY <2>1, <2>2 DEF StoreStep, Store!Next, Store!Change
<1>8. CASE ~inTx
    <2>1. Durable = [u \in Table |-> Rows(work, u)] /\ Durable' = [u \in Table |-> Rows(work', u)]
        BY <1>8 DEF Durable
    <2>2. CASE \A i \in DOMAIN q : q[i].id # id
        <3>1. r = q
            <4>1. \A i \in DOMAIN q : r[i] = q[i]
                BY <2>2 DEF RowsButOf
            <4>2. q = [i \in DOMAIN q |-> q[i]] /\ r = [i \in DOMAIN r |-> r[i]]
                      /\ DOMAIN r = DOMAIN q
                BY DEF RowsButOf
            <4> QED
                BY <4>1, <4>2
        <3>2. \A u \in Table : Rows(work', u) = Rows(work, u)
            BY <1>2, <3>1
        <3>3. View' = View /\ Durable' = Durable
            BY <1>3, <1>4, <2>1, <3>2
        <3> QED
            BY <3>3, SameStore
    <2>3. ASSUME NEW i \in DOMAIN q, q[i].id = id PROVE StoreStep
        <3>1. OnlyAt(q, r, i)
            BY <2>3 DEF OnlyAt, RowsButOf, Distinct
        <3>2. /\ InsertAll(t, q, new)[i] = q[i] /\ InsertAll(t, r, new)[i] = r[i]
              /\ r = [q EXCEPT ![i] = r[i]]
              /\ InsertAll(t, r, new) = [InsertAll(t, q, new) EXCEPT ![i] = r[i]]
            BY <1>1, <3>1, RowAmended
        <3>3. Durable[t] = q /\ Durable'[t] = r /\ \A u \in Table \ {t} : Durable'[u] = Durable[u]
            BY <1>2, <2>1
        <3>4. View[t][i] = Durable[t][i] /\ View'[t][i] = r[i] /\ i \in DOMAIN Durable[t]
            BY <1>6, <3>2, <3>3
        <3>5. Durable' = [Durable EXCEPT ![t][i] = View'[t][i]]
            <4>1. Durable'[t] = [Durable[t] EXCEPT ![i] = View'[t][i]]
                BY <3>2, <3>3, <3>4
            <4>2. DOMAIN Durable = Table /\ Durable' = [u \in Table |-> Durable'[u]]
                BY <2>1
            <4> QED
                BY <1>2, <3>3, <4>1, <4>2
        <3>6. View' = [View EXCEPT ![t][i] = View'[t][i]]
            <4>1. View'[t] = [View[t] EXCEPT ![i] = View'[t][i]]
                BY <1>6, <3>2, <3>4
            <4>2. DOMAIN View = Table /\ View' = [u \in Table |-> View'[u]]
                BY <1>4
            <4> QED
                BY <1>2, <1>5, <4>1, <4>2
        <3>7. Store!Amend
            BY <1>2, <3>4, <3>5, <3>6 DEF Store!Amend
        <3> QED
            BY <3>7 DEF StoreStep, Store!Next
    <2> QED
        BY <2>2, <2>3
<1> QED
    BY <1>7, <1>8

LEMMA StoredRows ==
    ASSUME SnapshotInv
    PROVE  /\ \A t \in Table : Rows(work, t) \in Seq(ViewRow(t))
                  /\ PendingRows(t) \in Seq(ViewRow(t))
           /\ \A t \in Table : InsertAll(t, Rows(work, t), PendingRows(t)) \in Seq(ViewRow(t))
<1>1. \A t \in Table : Rows(work, t) \in Seq(ViewRow(t)) /\ PendingRows(t) \in Seq(ViewRow(t))
    BY RowsType, PendingRowsType DEF SnapshotInv, IdInv, SnapshotTypes
<1> QED
    BY <1>1, InsertAllType

LEMMA CopyFileImplements ==
    ASSUME SnapshotInv, CopyFile
    PROVE  StoreStep
<1>1. /\ pending' = pending /\ phase' = phase /\ copying # 0
      /\ isOpen /\ phase = 0 /\ Database(work) /\ (~inTx => disk = work)
      /\ text \in [Path -> Wording \cup {Null}] /\ files \in [DOMAIN files -> Path]
    BY DEF CopyFile, SnapshotInv, IdInv, SnapshotTypes, Usage
<1>2. CASE copying - 1 \in DOMAIN files /\ text[files[copying - 1]] # Null
    <2> DEFINE id == copying - 1
               content == <<files[id], text[files[id]]>>
               db == Update(work, "file", id, "content", content)
    <2>1. content \in Path \X Wording
        BY <1>1, <1>2
    <2>2. Execute(db)
        BY <1>2 DEF CopyFile
    <2> HIDE DEF content, id
    <2>3. /\ SameBut(work, db)
          /\ \A u \in DOMAIN work \ {"file"} : db[u] = work[u]
          /\ \A i \in DOMAIN work["file"] :
                db["file"][i] = IF work["file"][i].id = id
                                THEN [work["file"][i] EXCEPT !["content"] = content]
                                ELSE work["file"][i]
        BY <1>1, <2>1, SameFiles
    <2>4. Database(db)
        BY <1>1, <2>1, FileUpdated
    <2> HIDE DEF db
    <2>5. work' = db /\ (IF inTx THEN disk' = disk ELSE disk = work /\ disk' = work')
        BY <1>1, <2>2 DEF Execute
    <2> DEFINE q == work["file"]
               r == db["file"]
               new == PendingRows("file")
    <2>6. RowsButOf(q, r, id)
        BY <2>3 DEF SameBut, RowsButOf
    <2>7. Distinct(q)
        BY DEF SnapshotInv, StoreInv, IdsDistinct
    <2>8. "file" \in Table /\ Rows(work, "file") = q /\ Rows(work', "file") = r
        BY <2>5, TableIs DEF Rows
    <2>9. q \in Seq(ViewRow("file")) /\ r \in Seq(ViewRow("file")) /\ new \in Seq(ViewRow("file"))
        <3>1. Rows(db, "file") \in Seq(ViewRow("file"))
            BY <2>4, <2>8, RowsType
        <3> QED
            BY <2>5, <2>8, <3>1, StoredRows
    <2>10. \A u \in Table \ {"file"} : Rows(work', u) = Rows(work, u)
        <3>1. \A u \in Table \ {"file"} : db[u] = work[u]
            BY <1>1, <2>3 DEF Database
        <3>2. db["compileoptions"] = work["compileoptions"]
            BY <2>3 DEF SameBut
        <3> QED
            BY <2>5, <3>1, <3>2 DEF Rows, UnitColumns
    <2>11. \A u \in Table : InsertAll(u, Rows(work, u), PendingRows(u)) \in Seq(ViewRow(u))
        BY StoredRows
    <2>12. phase = 0 /\ phase' = 0 /\ pending' = pending
        BY <1>1
    <2> HIDE DEF q, r
    <2> HIDE DEF new
    <2> QED
        BY <2>5, <2>6, <2>7, <2>8, <2>9, <2>10, <2>11, <2>12, UpdateImplements DEF new
<1>3. CASE ~(copying - 1 \in DOMAIN files /\ text[files[copying - 1]] # Null)
    <2>1. work' = work /\ disk' = disk
        BY <1>3 DEF CopyFile, dbVars
    <2> QED
        BY <1>1, <2>1, QuietImplements
<1> QED
    BY <1>2, <1>3

LEMMA SerializedAstImplements ==
    ASSUME SnapshotInv, NEW u, AddTranslationUnitSerializedAst(u)
    PROVE  StoreStep
<1> DEFINE t0 == "translationunit"
           co == "compileoptions"
           db == Update(work, t0, u, "ast", TRUE)
<1>1. /\ pending' = pending /\ phase = 0 /\ phase' = 0 /\ Execute(db)
      /\ isOpen /\ Database(work) /\ (~inTx => disk = work)
      /\ OptionsIn(work[t0], DOMAIN work[co]) /\ TRUE \in BOOLEAN
    BY DEF AddTranslationUnitSerializedAst, Call, Idle, SnapshotInv, IdInv, SnapshotTypes, Usage,
       Resolves
<1>2. /\ SameBut(work, db)
      /\ \A t \in DOMAIN work \ {t0} : db[t] = work[t]
      /\ \A i \in DOMAIN work[t0] : work[t0][i].id # u => db[t0][i] = work[t0][i]
    BY <1>1, SameUnits, ZenonT(30)
<1>3. Database(db)
    BY <1>1, UnitUpdated
<1> HIDE DEF db
<1>4. work' = db /\ (IF inTx THEN disk' = disk ELSE disk = work /\ disk' = work')
    BY <1>1 DEF Execute
<1> DEFINE q == Rows(work, t0)
           r == Rows(db, t0)
           new == PendingRows(t0)
<1>5. /\ DOMAIN q = DOMAIN work[t0] /\ DOMAIN r = DOMAIN db[t0] /\ DOMAIN db[t0] = DOMAIN work[t0]
      /\ \A i \in DOMAIN work[t0] :
             q[i] = [work[t0][i] EXCEPT !.options = UnitColumns(work, work[t0][i])]
      /\ \A i \in DOMAIN work[t0] : r[i] = [db[t0][i] EXCEPT !.options = UnitColumns(db, db[t0][i])]
    BY <1>2 DEF Rows, SameBut
<1>6. \A i \in DOMAIN work[t0] : work[t0][i] \in UnitRow /\ db[t0][i] \in UnitRow
    <2>1. work[t0] \in Seq(UnitRow) /\ db[t0] \in Seq(UnitRow) /\ DOMAIN db[t0] = DOMAIN work[t0]
        BY <1>1, <1>2, <1>3, TableIs, RowsOfTables DEF Database, SameBut
    <2> QED
        BY <2>1
<1>7. /\ \A i \in DOMAIN work[t0] : q[i].id = work[t0][i].id /\ r[i].id = db[t0][i].id
      /\ \A i \in DOMAIN work[t0] : db[t0][i].id = work[t0][i].id
    <2>1. \A i \in DOMAIN work[t0] : q[i].id = work[t0][i].id /\ r[i].id = db[t0][i].id
        <3> TAKE i \in DOMAIN work[t0]
        <3>1. [work[t0][i] EXCEPT !.options = UnitColumns(work, work[t0][i])].id = work[t0][i].id
            BY <1>6 DEF UnitRow
        <3>2. [db[t0][i] EXCEPT !.options = UnitColumns(db, db[t0][i])].id = db[t0][i].id
            BY <1>6 DEF UnitRow
        <3> QED
            BY <1>5, <3>1, <3>2
    <2>2. \A i \in DOMAIN work[t0] : db[t0][i].id = work[t0][i].id
        BY <1>2 DEF SameBut
    <2> QED
        BY <2>1, <2>2
<1>8. \A i \in DOMAIN work[t0] : q[i].id # u => r[i] = q[i]
    <2> TAKE i \in DOMAIN work[t0]
    <2>1. HAVE q[i].id # u
    <2>2. db[t0][i] = work[t0][i]
        BY <1>2, <1>7, <2>1
    <2>3. UnitColumns(db, db[t0][i]) = UnitColumns(work, work[t0][i])
        BY <1>2, <2>2 DEF UnitColumns, SameBut
    <2> QED
        BY <1>5, <2>2, <2>3
<1> HIDE DEF q, r
<1>9. RowsButOf(q, r, u)
    BY <1>5, <1>7, <1>8 DEF RowsButOf
<1>10. Distinct(q)
    <2>1. Distinct(work[t0])
        BY DEF SnapshotInv, StoreInv, IdsDistinct
    <2> QED
        BY <1>5, <1>7, <2>1 DEF Distinct
<1>11. q \in Seq(ViewRow(t0)) /\ r \in Seq(ViewRow(t0)) /\ new \in Seq(ViewRow(t0)) /\ t0 \in Table
    <2>1. t0 \in Table
        BY TableIs
    <2> QED
        BY <1>3, <2>1, RowsType, StoredRows DEF q, r
<1>12. Rows(work, t0) = q /\ Rows(work', t0) = r /\ new = PendingRows(t0)
    BY <1>4 DEF q, r
<1>13. \A t \in Table \ {t0} : Rows(work', t) = Rows(work, t)
    <2>1. \A t \in Table \ {t0} : db[t] = work[t]
        BY <1>1, <1>2 DEF Database
    <2> QED
        BY <1>4, <2>1 DEF Rows
<1>14. \A t \in Table : InsertAll(t, Rows(work, t), PendingRows(t)) \in Seq(ViewRow(t))
    BY StoredRows
<1> HIDE DEF new
<1> QED
    BY <1>1, <1>4, <1>9, <1>10, <1>11, <1>12, <1>13, <1>14, UpdateImplements

LEMMA StoreImplemented ==
    ASSUME SnapshotInv, StepKind
    PROVE  StoreStep
<1>1. ASSUME NEW k \in Key, NEW v \in Value, SetProperty(k, v) PROVE StoreStep
    BY <1>1, SetPropertyImplements
<1>2. ASSUME NEW newRows, Fits(newRows) PROVE StoreStep
    BY <1>2, FitsImplements
<1>3. ASSUME Quiet PROVE StoreStep
    BY <1>3, QuietImplements DEF Quiet
<1>4. ASSUME CopyFile PROVE StoreStep
    BY <1>4, CopyFileImplements
<1>5. ASSUME NEW u, AddTranslationUnitSerializedAst(u) PROVE StoreStep
    BY <1>5, SerializedAstImplements
<1>6. ASSUME NEW byDestructor \in BOOLEAN, Begin(byDestructor) PROVE StoreStep
    BY <1>6, BeginImplements
<1>7. ASSUME WriteTable PROVE StoreStep
    BY <1>7, WriteTableImplements
<1>8. ASSUME NEW ok \in BOOLEAN, End(ok) PROVE StoreStep
    BY <1>8, EndImplements
<1>9. ASSUME Disconnect(disk) PROVE StoreStep
    BY <1>9, DisconnectImplements
<1>10. ASSUME Open PROVE StoreStep
    BY <1>10, OpenImplements
<1> QED
    BY <1>1, <1>2, <1>3, <1>4, <1>5, <1>6, <1>7, <1>8, <1>9, <1>10 DEF StepKind

LEMMA StoreInit ==
    ASSUME NEW n, NEW m, InitFor(n, m)
    PROVE  Store!Init
<1>1. pending = Empty /\ phase = 0 /\ work = EmptyDatabase /\ disk = EmptyDatabase
    BY DEF InitFor
<1>2. \A t \in Table : Rows(EmptyDatabase, t) = <<>>
    BY DEF Rows, EmptyDatabase
<1>3. View = [t \in Table |-> Rows(work, t)]
    BY <1>1, StoredView
<1> QED
    BY <1>1, <1>2, <1>3 DEF Store!Init, Durable

(* A snapshot is a store whose changes become durable together: each step of the calls,
   of the flush table by table, of a failing COMMIT and of a crash is one of SnapshotStore
   under the view of a user, or is not seen. *)
THEOREM SnapshotIsStore == UsingSpec => StoreSpec
<1>1. (\E n, m \in Nat : InitFor(n, m)) => Store!Init
    BY StoreInit
<1>2. SnapshotInv /\ [Using(Path)]_<<vars, cacheVars>> => [Store!Next]_<<View, Durable>>
    BY StepKinds, StoreImplemented DEF SnapshotInv, StoreStep
<1> QED
    BY <1>1, <1>2, SnapshotInvariant, PTL DEF UsingSpec, StoreSpec, Store!Spec, Store!vars
-----------------------------------------------------------------------------
(* The copies of the files. *)
(* addFilesContent() has copied the files before the one it is at. *)
HasText(row) == row.content \in {row.path} \X Wording

CopiedTo(db, n) ==
    \A row \in Range(db["file"]) : row.id < n /\ text[row.path] # Null => HasText(row)

Copied == copying # 0 => CopiedTo(work, copying - 1)

LEMMA FileFields ==
    ASSUME NEW db, Database(db), NEW row \in Range(db["file"])
    PROVE  row \in FileRow /\ row.id \in Nat /\ row.path \in Path
<1>1. db["file"] \in Seq(FileRow)
    BY TableIs, RowsOfTables DEF Database
<1>2. row \in FileRow
    BY <1>1 DEF Range
<1> QED
    BY <1>2 DEF FileRow

LEMMA FileCopied ==
    ASSUME SnapshotInv, Copied, CopyFile
    PROVE  /\ copying \in Nat \ {0} /\ text' = text
           /\ CopiedTo(work', copying)
           /\ copying' = 0 => \A row \in Range(work'["file"]) : row.id < copying
<1> DEFINE id == copying - 1
<1>1. /\ copying \in Nat \ {0} /\ isOpen /\ Database(work) /\ text' = text
      /\ text \in [Path -> Wording \cup {Null}] /\ files \in [DOMAIN files -> Path]
      /\ DOMAIN files = Ids(work["file"]) \cup Ids(pending["file"])
      /\ copying' = IF copying = Size(files) THEN 0 ELSE copying + 1
    BY DEF CopyFile, SnapshotInv, IdInv, SnapshotTypes, Usage, Lists
<1>2. \A row \in Range(work["file"]) : row \in FileRow
    BY <1>1, FileFields
<1>3. \A row \in Range(work["file"]) : row.id \in Nat /\ row.path \in Path
    BY <1>1, FileFields
<1>4. \A row \in Range(work["file"]) : files[row.id] = row.path /\ row.id \in DOMAIN files
    BY <1>1 DEF SnapshotInv, StoreInv, FilesAgree, Ids
<1>5. \A row \in Range(work["file"]) : row.id < id /\ text[row.path] # Null => HasText(row)
    BY <1>1 DEF Copied, CopiedTo
<1>6. /\ \A row \in Range(work'["file"]) : row.id < copying /\ text[row.path] # Null => HasText(row)
      /\ \A row \in Range(work'["file"]) : row.id \in DOMAIN files
    <2>1. CASE id \in DOMAIN files /\ text[files[id]] # Null
        <3> DEFINE content == <<files[id], text[files[id]]>>
                   db == Update(work, "file", id, "content", content)
        <3>1. content \in Path \X Wording /\ content \in {files[id]} \X Wording
            BY <1>1, <2>1
        <3>2. Execute(db)
            BY <2>1 DEF CopyFile
        <3> HIDE DEF content, id
        <3>3. /\ SameBut(work, db)
              /\ \A i \in DOMAIN work["file"] :
                    db["file"][i] = IF work["file"][i].id = id
                                    THEN [work["file"][i] EXCEPT !["content"] = content]
                                    ELSE work["file"][i]
            BY <1>1, <3>1, SameFiles
        <3> HIDE DEF db
        <3>4. work' = db
            BY <3>2 DEF Execute
        <3>5. ASSUME NEW row \in Range(db["file"])
              PROVE  /\ row.id < copying /\ text[row.path] # Null => HasText(row)
                     /\ row.id \in DOMAIN files
            <4>1. PICK i \in DOMAIN work["file"] : row = db["file"][i]
                BY <3>3 DEF SameBut, Range
            <4> DEFINE old == work["file"][i]
            <4>2. /\ old \in Range(work["file"]) /\ old \in FileRow /\ row.id = old.id
                  /\ row.path = old.path
                  /\ row = IF old.id = id THEN [old EXCEPT !["content"] = content] ELSE old
                BY <1>2, <3>3, <4>1 DEF SameBut, Range
            <4> HIDE DEF old
            <4>3. row.id \in DOMAIN files
                BY <1>4, <4>2
            <4>4. CASE old.id = id
                <5>1. row.content = content
                    BY <4>2, <4>4 DEF FileRow
                <5>2. files[id] = row.path
                    BY <1>4, <4>2, <4>4
                <5> QED
                    BY <3>1, <4>3, <5>1, <5>2 DEF HasText
            <4>5. CASE old.id # id
                <5>1. row = old
                    BY <4>2, <4>5
                <5>2. old.id < copying => old.id < id
                    BY <1>1, <1>3, <4>2, <4>5 DEF id
                <5> QED
                    BY <1>5, <4>2, <4>3, <5>1, <5>2
            <4> QED
                BY <4>4, <4>5
        <3> QED
            BY <3>4, <3>5
    <2>2. CASE ~(id \in DOMAIN files /\ text[files[id]] # Null)
        <3>1. work' = work
            BY <2>2 DEF CopyFile, dbVars
        <3>2. ASSUME NEW row \in Range(work["file"]), row.id < copying, text[row.path] # Null
              PROVE  HasText(row)
            <4>1. row.id # id
                BY <1>4, <2>2, <3>2
            <4>2. row.id < id
                BY <1>1, <1>3, <3>2, <4>1
            <4> QED
                BY <1>5, <3>2, <4>2
        <3> QED
            BY <1>4, <3>1, <3>2
    <2> QED
        BY <2>1, <2>2
<1>7. copying' = 0 => \A row \in Range(work'["file"]) : row.id < copying
    <2>1. DOMAIN files \subseteq Nat /\ \E n \in Nat : \A i \in DOMAIN files : i < n
        BY <1>1, ListsBounded DEF SnapshotInv, IdInv
    <2>2. \A i \in DOMAIN files : i < Size(files)
        BY <2>1, SizeIsFree
    <2>3. copying' = 0 => copying = Size(files)
        BY <1>1
    <2> QED
        BY <1>6, <2>2, <2>3
<1> QED
    BY <1>1, <1>6, <1>7 DEF CopiedTo

LEMMA CopiedStep ==
    ASSUME SnapshotInv, Copied, StepKind
    PROVE  Copied'
<1>1. copying \in Nat /\ Database(work) /\ (copying # 0 => phase = 0)
    BY DEF SnapshotInv, IdInv, SnapshotTypes, Usage
<1>2. ASSUME copying' = 0 PROVE Copied'
    BY <1>2 DEF Copied
<1>3. ASSUME Quiet PROVE Copied'
    <2>1. CASE copying' = 1
        <3>1. work' = work
            BY <1>3 DEF Quiet
        <3>2. \A row \in Range(work["file"]) : row.id \in Nat
            BY <1>1, FileFields
        <3>3. \A row \in Range(work["file"]) : ~(row.id < 1 - 1)
            BY <3>2
        <3> QED
            BY <2>1, <3>1, <3>3 DEF Copied, CopiedTo
    <2>2. CASE copying' # 1
        <3>1. /\ copying' = copying /\ work' = work
              /\ copying # 0 => \A p \in Path : text'[p] = Null <=> text[p] = Null
            BY <1>3, <2>2 DEF Quiet
        <3>2. \A row \in Range(work["file"]) : row.path \in Path
            BY <1>1, FileFields
        <3> QED
            BY <3>1, <3>2 DEF Copied, CopiedTo, HasText
    <2> QED
        BY <2>1, <2>2
<1>4. ASSUME CopyFile PROVE Copied'
    <2>1. CASE copying' = 0
        BY <1>2, <2>1
    <2>2. CASE copying' # 0
        <3>1. copying' = copying + 1
            BY <1>4, <2>2 DEF CopyFile
        <3>2. text' = text /\ CopiedTo(work', copying) /\ copying' - 1 = copying
            BY <1>1, <1>4, <3>1, FileCopied
        <3> QED
            BY <3>2 DEF Copied, CopiedTo
    <2> QED
        BY <2>1, <2>2
<1>5. ASSUME NEW k \in Key, NEW v \in Value, SetProperty(k, v) PROVE copying' = 0
    BY <1>5 DEF SetProperty, Call, Idle
<1>6. ASSUME NEW newRows, Fits(newRows) PROVE copying' = 0
    BY <1>6 DEF Fits, Add, Call, Idle
<1>7. ASSUME NEW u, AddTranslationUnitSerializedAst(u) PROVE copying' = 0
    BY <1>7 DEF AddTranslationUnitSerializedAst, Call, Idle
<1>8. ASSUME NEW byDestructor, Begin(byDestructor) PROVE copying' = 0
    BY <1>8 DEF Begin, Idle
<1>9. ASSUME WriteTable PROVE copying' = 0
    BY <1>1, <1>9 DEF WriteTable
<1>10. ASSUME NEW ok, End(ok) PROVE copying' = 0
    BY <1>1, <1>10, TableIs DEF End, Disconnect
<1>11. ASSUME Disconnect(disk) PROVE copying' = 0
    BY <1>11 DEF Disconnect
<1>12. ASSUME Open PROVE copying' = 0
    BY <1>12 DEF Open, SnapshotInv, IdInv, Usage
<1> QED
    BY <1>2, <1>3, <1>4, <1>5, <1>6, <1>7, <1>8, <1>9, <1>10, <1>11, <1>12 DEF StepKind

(* A copy goes on until the last file, or is stopped. *)
LEMMA CopyingOnly ==
    ASSUME SnapshotInv, StepKind, copying # 0, copying' = 0, isOpen'
    PROVE  CopyFile
<1>1. phase = 0 /\ isOpen
    BY DEF SnapshotInv, IdInv, Usage
<1>2. \A k \in Key, v \in Value : ~SetProperty(k, v)
    BY DEF SetProperty, Call, Idle
<1>3. \A newRows : ~Fits(newRows)
    BY DEF Fits, Add, Call, Idle
<1>4. ~Quiet
    BY DEF Quiet
<1>5. \A u : ~AddTranslationUnitSerializedAst(u)
    BY DEF AddTranslationUnitSerializedAst, Call, Idle
<1>6. \A byDestructor \in BOOLEAN : ~Begin(byDestructor)
    BY DEF Begin, Idle
<1>7. ~WriteTable /\ \A ok \in BOOLEAN : ~End(ok)
    BY <1>1, TableIs DEF WriteTable, End
<1>8. ~Disconnect(disk) /\ ~Open
    BY <1>1 DEF Disconnect, Open
<1> QED
    BY <1>2, <1>3, <1>4, <1>5, <1>6, <1>7, <1>8 DEF StepKind

LEMMA CopyingEnds ==
    ASSUME SnapshotInv, Copied, StepKind, copying # 0, copying' = 0, isOpen',
           NEW row \in Range(work'["file"]), text[row.path] # Null
    PROVE  row.content \in {row.path} \X Wording
<1>1. CopyFile
    BY CopyingOnly
<1>2. CopiedTo(work', copying) /\ row.id < copying
    BY <1>1, FileCopied
<1> QED
    BY <1>2 DEF CopiedTo, HasText

(* When addFilesContent() returns, every file that has a row and exists has its own text
   in its row, for any number of files and whatever ids are free. *)
THEOREM CopiesAreComplete == UsingSpec => FilesAreCopied
<1>1. (\E n, m \in Nat : InitFor(n, m)) => Copied
    BY DEF InitFor, Copied
<1>2. SnapshotInv /\ Copied /\ [Using(Path)]_<<vars, cacheVars>> => Copied'
    BY StepKinds, CopiedStep DEF SnapshotInv
<1>3. SnapshotInv /\ Copied /\ [Using(Path)]_<<vars, cacheVars>>
        => [copying # 0 /\ copying' = 0 /\ isOpen' =>
              \A row \in Range(work'["file"]) :
                 text[row.path] # Null => row.content \in {row.path} \X Wording]_vars
    BY StepKinds, CopyingEnds DEF SnapshotInv
<1> QED
    BY <1>1, <1>2, <1>3, SnapshotInvariant, PTL DEF UsingSpec, FilesAreCopied
-----------------------------------------------------------------------------
(* The properties. *)
OfKeyRows(k) == {row \in InfoRow : row.key = k}

LEMMA OfKeyIs ==
    ASSUME NEW k, NEW rows \in Seq(InfoRow)
    PROVE  OfKey(k, rows) = Selected(OfKeyRows(k), rows)
<1> DEFINE S == {row \in Range(rows) : row.key = k}
<1>1. \A i \in DOMAIN rows : rows[i] \in S <=> rows[i] \in OfKeyRows(k)
    BY DEF OfKeyRows, Range
<1>2. OfKey(k, rows) = Selected(S, rows)
    BY DEF OfKey
<1> HIDE DEF S
<1> QED
    BY <1>1, <1>2, SelectedAlike

(* the properties of a key are found among the rows, and nothing else is *)
LEMMA OfKeyElements ==
    ASSUME NEW k, NEW rows \in Seq(InfoRow)
    PROVE  /\ OfKey(k, rows) \in Seq(InfoRow)
           /\ \A i \in DOMAIN OfKey(k, rows) :
                 \E j \in DOMAIN rows : rows[j].key = k /\ rows[j] = OfKey(k, rows)[i]
           /\ \A j \in DOMAIN rows : rows[j].key = k =>
                 \E i \in DOMAIN OfKey(k, rows) : rows[j] = OfKey(k, rows)[i]
<1> DEFINE q == OfKey(k, rows)
<1>1. q = Selected(OfKeyRows(k), rows)
    BY OfKeyIs
<1>2. q \in Seq(InfoRow)
    <2>1. q \in Seq(InfoRow \cap OfKeyRows(k))
        BY <1>1, SelectedType
    <2> QED
        BY <2>1
<1>3. {q[i] : i \in DOMAIN q} = {rows[i] : i \in DOMAIN rows} \cap OfKeyRows(k)
    BY <1>1, SelectedElements
<1> HIDE DEF q
<1>4. \A j \in DOMAIN rows : rows[j] \in InfoRow
    OBVIOUS
<1>5. \A i \in DOMAIN q : \E j \in DOMAIN rows : rows[j].key = k /\ rows[j] = q[i]
    <2> TAKE i \in DOMAIN q
    <2>1. q[i] \in {rows[j] : j \in DOMAIN rows} /\ q[i] \in OfKeyRows(k)
        BY <1>3
    <2> QED
        BY <2>1 DEF OfKeyRows
<1>6. \A j \in DOMAIN rows : rows[j].key = k => \E i \in DOMAIN q : rows[j] = q[i]
    <2> SUFFICES ASSUME NEW j \in DOMAIN rows, rows[j].key = k
                 PROVE  \E i \in DOMAIN q : rows[j] = q[i]
        OBVIOUS
    <2>1. rows[j] \in {q[i] : i \in DOMAIN q}
        BY <1>3, <1>4 DEF OfKeyRows
    <2> QED
        BY <2>1
<1> QED
    BY <1>2, <1>5, <1>6 DEF q

LEMMA GivenIs ==
    ASSUME SnapshotInv, phase = 0, NEW k
    PROVE  /\ work["info"] \in Seq(InfoRow) /\ pending["info"] \in Seq(InfoRow)
           /\ Given(k) = OfKey(k, work["info"]) \o OfKey(k, pending["info"])
<1>1. work["info"] \in Seq(InfoRow) /\ pending["info"] \in Seq(InfoRow)
    BY TableIs, RowsOfTables DEF SnapshotInv, IdInv, SnapshotTypes, Database
<1>2. View["info"] = work["info"] \o pending["info"]
    <2>1. View["info"] = InsertAll("info", Rows(work, "info"), PendingRows("info"))
        BY ViewBetween, TableIs
    <2>2. Rows(work, "info") = work["info"] /\ PendingRows("info") = pending["info"]
        BY DEF Rows, PendingRows
    <2>3. InsertAll("info", work["info"], pending["info"]) = work["info"] \o pending["info"]
        BY <1>1, InsertedAtEnd DEF Identified
    <2> QED
        BY <2>1, <2>2, <2>3
<1> DEFINE q == work["info"]
           r == pending["info"]
<1>3. q \o r \in Seq(InfoRow)
    BY <1>1
<1>4. Given(k) = Selected(OfKeyRows(k), q \o r)
    <2>1. Given(k) = OfKey(k, q \o r)
        BY <1>2 DEF Given
    <2> DEFINE s == q \o r
    <2> HIDE DEF s
    <2>2. s \in Seq(InfoRow) => OfKey(k, s) = Selected(OfKeyRows(k), s)
        BY OfKeyIs
    <2> QED
        BY <1>3, <2>1, <2>2 DEF s
<1>5. q \in Seq(InfoRow) /\ r \in Seq(InfoRow)
    BY <1>1
<1> HIDE DEF q, r
<1>6. Selected(OfKeyRows(k), q \o r) = Selected(OfKeyRows(k), q) \o Selected(OfKeyRows(k), r)
    BY <1>5, SelectedConcat
<1>7. OfKey(k, q) = Selected(OfKeyRows(k), q) /\ OfKey(k, r) = Selected(OfKeyRows(k), r)
    BY <1>5, OfKeyIs
<1> QED
    BY <1>1, <1>4, <1>6, <1>7 DEF q, r

LEMMA PropertyFollows == SnapshotInv => PropertyIsLastOfTwo
<1> SUFFICES ASSUME SnapshotInv, isOpen, phase = 0, NEW k \in Key,
                    Given(k) # <<>>, Len(OfKey(k, work["info"])) <= 1
             PROVE  Property(k) = Last(Given(k)).value
    BY DEF PropertyIsLastOfTwo
<1> DEFINE stored == work["info"]
           new == pending["info"]
           q == OfKey(k, stored)
           r == OfKey(k, new)
<1>1. stored \in Seq(InfoRow) /\ new \in Seq(InfoRow) /\ Given(k) = q \o r
    BY GivenIs
<1>2. /\ q \in Seq(InfoRow)
      /\ \A i \in DOMAIN q : \E j \in DOMAIN stored : stored[j].key = k /\ stored[j] = q[i]
      /\ \A j \in DOMAIN stored : stored[j].key = k => \E i \in DOMAIN q : stored[j] = q[i]
    <2> HIDE DEF stored
    <2> QED
        BY <1>1, OfKeyElements
<1>3. /\ r \in Seq(InfoRow)
      /\ \A i \in DOMAIN r : \E j \in DOMAIN new : new[j].key = k /\ new[j] = r[i]
      /\ \A j \in DOMAIN new : new[j].key = k => \E i \in DOMAIN r : new[j] = r[i]
    <2> HIDE DEF new
    <2> QED
        BY <1>1, OfKeyElements
<1>4. OfDistinctKeys(new)
    BY DEF SnapshotInv, StoreInv, OneValuePerKey
<1>5. Len(q) <= 1
    OBVIOUS
<1> DEFINE pendingPlaces == {i \in DOMAIN new : new[i].key = k}
           storedPlaces == {i \in DOMAIN stored : stored[i].key = k}
<1>6. PendingValue(k) = IF pendingPlaces = {} THEN Null
                        ELSE new[CHOOSE i \in pendingPlaces : TRUE].value
    BY DEF PendingValue
<1>7. SelectInfo(k) = IF storedPlaces = {} THEN Null
                      ELSE stored[CHOOSE i \in storedPlaces : \A j \in storedPlaces : i <= j].value
    BY DEF SelectInfo
<1> HIDE DEF stored, new, q, r
<1>8. CASE pendingPlaces # {}
    <2> DEFINE i == CHOOSE i \in pendingPlaces : TRUE
    <2>1. i \in DOMAIN new /\ new[i].key = k
        BY <1>8
    <2>2. PendingValue(k) = new[i].value
        BY <1>6, <1>8
    <2> HIDE DEF i
    <2>3. new[i] \in InfoRow
        BY <1>1, <2>1
    <2>4. new[i].value # Null
        BY <2>3, SnapshotAssumption DEF InfoRow
    <2>5. Property(k) = new[i].value
        BY <2>2, <2>4 DEF Property
    <2>6. r # <<>>
        BY <1>3, <2>1
    <2>7. Len(r) \in DOMAIN r
        BY <1>3, <2>6
    <2>8. r[Len(r)] = new[i]
        <3>1. PICK j \in DOMAIN new : new[j].key = k /\ new[j] = r[Len(r)]
            BY <1>3, <2>7
        <3>2. j = i
            BY <1>4, <2>1, <3>1 DEF OfDistinctKeys
        <3> QED
            BY <3>1, <3>2
    <2>9. Last(q \o r) = r[Len(r)]
        BY <1>2, <1>3, <2>6 DEF Last
    <2> QED
        BY <1>1, <2>5, <2>8, <2>9
<1>9. CASE pendingPlaces = {}
    <2>1. r = <<>>
        BY <1>3, <1>9
    <2>2. Given(k) = q
        BY <1>1, <1>2, <2>1
    <2>3. Len(q) = 1 /\ 1 \in DOMAIN q
        <3>1. q # <<>> /\ q \in Seq(InfoRow) /\ Len(q) <= 1
            BY <1>2, <1>5, <2>2
        <3>2. Len(q) \in Nat /\ DOMAIN q = 1..Len(q) /\ Len(q) # 0
            BY <3>1
        <3>3. Len(q) = 1
            BY <3>1, <3>2
        <3> QED
            BY <3>2, <3>3
    <2>4. storedPlaces # {}
        BY <1>2, <2>3
    <2>5. storedPlaces \subseteq Nat
        BY <1>1
    <2> DEFINE i == CHOOSE i \in storedPlaces : \A j \in storedPlaces : i <= j
    <2>6. i \in storedPlaces
        <3> HIDE DEF storedPlaces
        <3>1. \E i0 \in storedPlaces : \A j \in storedPlaces : i0 <= j
            BY <2>4, <2>5, Least
        <3> QED
            BY <3>1
    <2>7. SelectInfo(k) = stored[i].value
        BY <1>7, <2>4
    <2> HIDE DEF i
    <2>8. stored[i] = q[1]
        BY <1>2, <2>3, <2>6
    <2>9. Property(k) = SelectInfo(k)
        BY <1>6, <1>9 DEF Property
    <2>10. Last(q) = q[1]
        BY <2>3 DEF Last
    <2> QED
        BY <2>2, <2>7, <2>8, <2>9, <2>10
<1> QED
    BY <1>8, <1>9

(* Between two calls, property() returns the value set last of a key, until a second value
   of it has reached the database. *)
THEOREM PropertyReturnsTheLast == UsingSpec => []PropertyIsLastOfTwo
    BY SnapshotInvariant, PropertyFollows, PTL
-----------------------------------------------------------------------------
(* Memory and store. *)
(* Options that were added, or read back, are those of the columns. *)
LEMMA OptionsKnown ==
    ASSUME NEW columns, NEW options, StoredOptions(columns, options), Unambiguous(options)
    PROVE  UnitOptions(columns) \in {options, Named(options)}
<1>1. CASE options = UnitOptions(columns)
    BY <1>1
<1>2. CASE options \in Options /\ columns = Columns(options)
    <2>1. IsOptions(options) /\ columns # Null
        BY <1>2, SnapshotAssumption
    <2>2. UnitOptions(columns) = Loaded(columns)
        BY <2>1 DEF UnitOptions
    <2> QED
        BY <1>2, <2>1, <2>2, OptionsBack
<1> QED
    BY <1>1, <1>2 DEF StoredOptions

(* What is shown of a row keeps its id. *)
LEMMA SameIdsShown ==
    ASSUME IdInv, NEW t \in {"file", "translationunit"}
    PROVE  Ids(Rows(work, t)) = Ids(work[t]) /\ Ids(PendingRows(t)) = Ids(pending[t])
<1> DEFINE rows == Rows(work, t)
           new == PendingRows(t)
<1>1. t \in Table
    BY TableIs
<1>2. CASE t = "file"
    BY <1>1, <1>2, RowsType, PendingIs DEF IdInv, SnapshotTypes
<1>3. CASE t = "translationunit"
    <2>1. Ids(new) = Ids(pending[t])
        BY <1>3, PendingIs DEF WithColumns, Ids, Range
    <2> DEFINE q == work["translationunit"]
               shown(i) == [q[i] EXCEPT !.options = UnitColumns(work, q[i])]
    <2>2. q \in Seq(UnitRow)
        BY TableIs, RowsOfTables DEF IdInv, SnapshotTypes, Database
    <2>3. \A i \in DOMAIN q : shown(i).id = q[i].id
        BY <2>2 DEF UnitRow
    <2>4. Rows(work, "translationunit") = [i \in DOMAIN q |-> shown(i)]
        BY DEF Rows
    <2> HIDE DEF shown, q
    <2>5. Ids(Rows(work, "translationunit")) = Ids(q)
        BY <2>3, <2>4 DEF Ids, Range
    <2>6. Ids(rows) = Ids(work[t])
        BY <1>3, <2>5 DEF q
    <2> QED
        BY <2>1, <2>6
<1> QED
    BY <1>2, <1>3

(* The ids that the two tables have in the view are those of the lists. *)
LEMMA ViewedIds ==
    ASSUME IdInv, isOpen, NEW n \in {2, 3}
    PROVE  /\ Ids(View[Tables[n]]) = Ids(Rows(work, Tables[n])) \cup Ids(PendingRows(Tables[n]))
           /\ Range(View[Tables[n]])
                  \subseteq Range(Rows(work, Tables[n])) \cup Range(PendingRows(Tables[n]))
<1> DEFINE t == Tables[n]
           rows == Rows(work, t)
           new == PendingRows(t)
<1>1. /\ t \in {"file", "translationunit"} /\ t \in Table /\ t \in Identified
      /\ (t = "file" <=> n = 2) /\ (t = "translationunit" <=> n = 3)
    BY TableIs DEF Identified
<1>2. rows \in Seq(ViewRow(t)) /\ new \in Seq(ViewRow(t))
    BY <1>1, RowsType, PendingRowsType DEF IdInv, SnapshotTypes
<1>3. View[t] = IF n < phase THEN rows ELSE InsertAll(t, rows, new)
    BY ViewIs DEF IdInv, SnapshotTypes
<1>4. Ids(rows) = Ids(work[t]) /\ Ids(new) = Ids(pending[t])
    BY <1>1, SameIdsShown
<1>5. n < phase => Ids(pending[t]) \subseteq Ids(work[t])
    BY <1>1, TableIs DEF IdInv, Written, SnapshotTypes
<1> HIDE DEF t, rows, new
<1>6. /\ Ids(InsertAll(t, rows, new)) = Ids(rows) \cup Ids(new)
      /\ Range(InsertAll(t, rows, new)) \subseteq Range(rows) \cup Range(new)
    BY <1>1, <1>2, InsertedIds, InsertAllType
<1>7. /\ Ids(View[t]) = Ids(rows) \cup Ids(new)
      /\ Range(View[t]) \subseteq Range(rows) \cup Range(new)
    BY <1>3, <1>4, <1>5, <1>6
<1> QED
    BY <1>7 DEF t, rows, new

LEMMA FilesViewed ==
    ASSUME IdInv, StoreInv, isOpen
    PROVE  {<<i, files[i]>> : i \in DOMAIN files}
               = {<<row.id, row.path>> : row \in Range(View["file"])}
<1> DEFINE rows == View["file"]
<1>1. /\ Tables[2] = "file" /\ "file" \in Table \ {"translationunit"}
    BY TableIs
<1>2. Rows(work, "file") = work["file"] /\ PendingRows("file") = pending["file"]
    BY <1>1, RowsType, PendingIs DEF IdInv, SnapshotTypes
<1>3. /\ Ids(rows) = Ids(work["file"]) \cup Ids(pending["file"])
      /\ Range(rows) \subseteq Range(work["file"]) \cup Range(pending["file"])
    <2>1. /\ Ids(View[Tables[2]]) = Ids(Rows(work, Tables[2])) \cup Ids(PendingRows(Tables[2]))
          /\ Range(View[Tables[2]])
                \subseteq Range(Rows(work, Tables[2])) \cup Range(PendingRows(Tables[2]))
        BY ViewedIds
    <2> QED
        BY <1>1, <1>2, <2>1
<1> HIDE DEF rows
<1>4. DOMAIN files = Ids(rows)
    BY <1>3 DEF IdInv, Lists
<1>5. \A row \in Range(rows) : files[row.id] = row.path
    BY <1>3 DEF StoreInv, FilesAgree
<1>6. \A i \in DOMAIN files : \E row \in Range(rows) : i = row.id /\ files[i] = row.path
    BY <1>4, <1>5 DEF Ids
<1>7. \A row \in Range(rows) : row.id \in DOMAIN files /\ files[row.id] = row.path
    BY <1>4, <1>5 DEF Ids
<1> QED
    BY <1>6, <1>7 DEF rows

LEMMA UnitsViewed ==
    ASSUME IdInv, StoreInv, isOpen
    PROVE  /\ {<<i, units[i].file>> : i \in DOMAIN units}
                 = {<<row.id, row.file>> : row \in Range(View["translationunit"])}
           /\ \A row \in Range(View["translationunit"]) :
                 StoredOptions(row.options, units[row.id].options)
<1> DEFINE t0 == "translationunit"
           co == "compileoptions"
           rows == View[t0]
           old == Rows(work, t0)
           new == PendingRows(t0)
<1>1. /\ Tables[3] = t0 /\ t0 \in Table
      /\ work[t0] \in Seq(UnitRow) /\ pending[t0] \in Seq(PendingUnit)
    BY TableIs, RowsOfTables DEF IdInv, SnapshotTypes, Database
<1>2. Ids(rows) = Ids(old) \cup Ids(new) /\ Range(rows) \subseteq Range(old) \cup Range(new)
    BY <1>1, ViewedIds
<1>3. ASSUME NEW row \in Range(old)
      PROVE  /\ row.id \in DOMAIN units /\ units[row.id].file = row.file
             /\ StoredOptions(row.options, units[row.id].options)
    <2> DEFINE q == work[t0]
               shown(i) == [q[i] EXCEPT !.options = UnitColumns(work, q[i])]
    <2>1. old = [i \in DOMAIN q |-> shown(i)]
        BY DEF Rows
    <2> HIDE DEF shown, old
    <2>2. PICK i \in DOMAIN q : row = shown(i)
        BY <1>3, <2>1 DEF Range
    <2>3. q[i] \in UnitRow /\ q[i] \in Range(q)
        BY <1>1, <2>2 DEF Range
    <2>4. row.id = q[i].id /\ row.file = q[i].file /\ row.options = UnitColumns(work, q[i])
        BY <2>2, <2>3 DEF UnitRow, shown
    <2>5. q[i].options \in DOMAIN work[co]
        BY <2>3 DEF IdInv, Resolves, OptionsIn
    <2>6. row.options = work[co][q[i].options]
        BY <2>4, <2>5 DEF UnitColumns
    <2>7. /\ units[q[i].id].file = q[i].file
          /\ StoredOptions(work[co][q[i].options], units[q[i].id].options)
        BY <2>3 DEF StoreInv, UnitsAgree
    <2>8. q[i].id \in DOMAIN units
        BY <2>3 DEF IdInv, Lists, Ids
    <2> QED
        BY <2>4, <2>6, <2>7, <2>8
<1>4. ASSUME NEW row \in Range(new)
      PROVE  /\ row.id \in DOMAIN units /\ units[row.id].file = row.file
             /\ StoredOptions(row.options, units[row.id].options)
    <2> DEFINE q == pending[t0]
               shown(i) == [id |-> q[i].id, file |-> q[i].file, ast |-> q[i].ast,
                            options |-> Columns(q[i].options)]
    <2>1. new = [i \in DOMAIN q |-> shown(i)]
        BY PendingIs DEF WithColumns
    <2> HIDE DEF shown, new
    <2>2. PICK i \in DOMAIN q : row = shown(i)
        BY <1>4, <2>1 DEF Range
    <2>3. q[i] \in PendingUnit /\ q[i] \in Range(q)
        BY <1>1, <2>2 DEF Range
    <2>4. row.id = q[i].id /\ row.file = q[i].file /\ row.options = Columns(q[i].options)
        BY <2>2 DEF shown
    <2>5. units[q[i].id] = [file |-> q[i].file, options |-> q[i].options]
        BY <2>3 DEF StoreInv, UnitsAgree
    <2>6. q[i].id \in DOMAIN units
        BY <2>3 DEF IdInv, Lists, Ids
    <2>7. q[i].options \in Options
        BY <2>3, UnitFields
    <2> QED
        BY <2>4, <2>5, <2>6, <2>7 DEF StoredOptions
<1>5. \A row \in Range(rows) : /\ row.id \in DOMAIN units /\ units[row.id].file = row.file
                               /\ StoredOptions(row.options, units[row.id].options)
    BY <1>2, <1>3, <1>4
<1>6. \A i \in DOMAIN units : \E row \in Range(rows) : i = row.id
    <2>1. Ids(old) = Ids(work[t0]) /\ Ids(new) = Ids(pending[t0])
        BY <1>1, SameIdsShown
    <2>2. DOMAIN units = Ids(rows)
        BY <1>2, <2>1 DEF IdInv, Lists
    <2> QED
        BY <2>2 DEF Ids
<1> HIDE DEF rows
<1>7. \A i \in DOMAIN units : \E row \in Range(rows) : i = row.id /\ units[i].file = row.file
    BY <1>5, <1>6
<1> QED
    BY <1>5, <1>7 DEF rows

LEMMA MemoryFollows == IdInv /\ StoreInv => MemoryIsStore
<1> SUFFICES ASSUME IdInv, StoreInv, isOpen
             PROVE  /\ {<<i, files[i]>> : i \in DOMAIN files}
                           = {<<row.id, row.path>> : row \in Range(View["file"])}
                    /\ {<<i, units[i].file>> : i \in DOMAIN units}
                           = {<<row.id, row.file>> : row \in Range(View["translationunit"])}
                    /\ \A row \in Range(View["translationunit"]) :
                          Unambiguous(units[row.id].options) =>
                             UnitOptions(row.options)
                                \in {units[row.id].options, Named(units[row.id].options)}
    BY DEF MemoryIsStore
<1>1. ASSUME NEW row \in Range(View["translationunit"]), Unambiguous(units[row.id].options)
      PROVE  UnitOptions(row.options) \in {units[row.id].options, Named(units[row.id].options)}
    BY <1>1, UnitsViewed, OptionsKnown
<1> QED
    BY <1>1, FilesViewed, UnitsViewed

(* The files and units of an open snapshot are those that a later reader finds, with the options
   that the text of their columns says, in every state of every program (Snapshot::addFile,
   addTranslationUnits, writePendingData, open, and the statements below them). *)
THEOREM MemoryAgrees == UsingSpec => []MemoryIsStore
<1>1. SnapshotInv => MemoryIsStore
    BY MemoryFollows DEF SnapshotInv
<1> QED
    BY <1>1, SnapshotInvariant, PTL
-----------------------------------------------------------------------------
(* The caches. *)
(* What an insertion in the table of symbols leaves, as a set. *)
LEMMA SymbolInserted ==
    ASSUME NEW E, NEW rows \in Seq(E), NEW row \in E
    PROVE  Range(Insert("symbol", rows, row)) = {r \in Range(rows) : r.id # row.id} \cup {row}
<1> DEFINE conflicts == Conflicts("symbol", rows, row)
           replaced == [i \in DOMAIN rows |-> IF i \in conflicts THEN row ELSE rows[i]]
<1>1. conflicts = {i \in DOMAIN rows : rows[i].id = row.id}
    BY DEF Conflicts
<1>2. CASE conflicts = {}
    <2>1. Insert("symbol", rows, row) = Append(rows, row)
        BY <1>2 DEF Insert
    <2>2. \A r \in Range(rows) : r.id # row.id
        BY <1>1, <1>2 DEF Range
    <2>3. Range(Append(rows, row)) = Range(rows) \cup {row}
        BY RowsAppended
    <2>4. {r \in Range(rows) : r.id # row.id} = Range(rows)
        BY <2>2
    <2> QED
        BY <2>1, <2>3, <2>4
<1>3. CASE conflicts # {}
    <2>1. Insert("symbol", rows, row) = replaced
        BY <1>3 DEF Insert
    <2>2. DOMAIN replaced = DOMAIN rows
          /\ \A i \in DOMAIN rows : replaced[i] = IF rows[i].id = row.id THEN row ELSE rows[i]
        BY <1>1
    <2>3. \E i \in DOMAIN rows : rows[i].id = row.id
        BY <1>1, <1>3
    <2> HIDE DEF replaced, conflicts
    <2>4. row \in Range(replaced)
        BY <2>2, <2>3 DEF Range
    <2>5. ASSUME NEW r \in Range(replaced) PROVE r = row \/ (r \in Range(rows) /\ r.id # row.id)
        BY <2>2 DEF Range
    <2>6. ASSUME NEW r \in Range(rows), r.id # row.id PROVE r \in Range(replaced)
        BY <2>2, <2>6 DEF Range
    <2> QED
        BY <2>1, <2>4, <2>5, <2>6
<1> QED
    BY <1>2, <1>3

OneVersion(rows) == \A q, r \in Range(rows) : q.id = r.id => q = r

(* A symbol has one row, and keeps it unless it is inserted again. *)
LEMMA SymbolsInserted ==
    ASSUME NEW E, NEW rows \in Seq(E), NEW new \in Seq(E), OneVersion(rows)
    PROVE  /\ OneVersion(InsertAll("symbol", rows, new))
           /\ \A r : r.id \notin Ids(new) =>
                        (r \in Range(InsertAll("symbol", rows, new)) <=> r \in Range(rows))
<1> DEFINE Kept(q) == \A r : r.id \notin Ids(q) =>
                         (r \in Range(InsertAll("symbol", rows, q)) <=> r \in Range(rows))
           T == {q \in Seq(E) : OneVersion(InsertAll("symbol", rows, q)) /\ Kept(q)}
<1>1. <<>> \in T
    BY InsertedNone
<1>2. ASSUME NEW q \in Seq(E), q \in T, NEW row \in E PROVE Append(q, row) \in T
    <2> DEFINE r == InsertAll("symbol", rows, q)
               more == Append(q, row)
    <2>1. InsertAll("symbol", rows, more) = Insert("symbol", r, row)
        BY InsertedOne
    <2>2. r \in Seq(E) /\ OneVersion(r)
          /\ \A x : x.id \notin Ids(q) => (x \in Range(r) <=> x \in Range(rows))
        BY <1>2, InsertAllType
    <2>3. Range(more) = Range(q) \cup {row}
        BY RowsAppended
    <2>4. more \in Seq(E)
        OBVIOUS
    <2> HIDE DEF r, more
    <2>5. Range(Insert("symbol", r, row)) = {x \in Range(r) : x.id # row.id} \cup {row}
        BY <2>2, SymbolInserted
    <2>6. OneVersion(Insert("symbol", r, row))
        BY <2>2, <2>5 DEF OneVersion
    <2>7. ASSUME NEW x, x.id \notin Ids(more)
          PROVE  x \in Range(Insert("symbol", r, row)) <=> x \in Range(rows)
        <3>1. x.id \notin Ids(q) /\ x.id # row.id /\ x # row
            BY <2>3, <2>7 DEF Ids
        <3> QED
            BY <2>2, <2>5, <3>1
    <2>8. OneVersion(InsertAll("symbol", rows, more)) /\ Kept(more)
        <3> HIDE DEF Ids
        <3> QED
            BY <2>1, <2>6, <2>7, Zenon
    <2> QED
        BY <2>4, <2>8 DEF more
<1> HIDE DEF T
<1>3. Seq(E) \subseteq T
    BY <1>1, <1>2, SeqByInduction
<1> QED
    BY <1>3 DEF T

(* the symbols as a user finds them *)
Shown == View["symbol"]

SymbolCacheInv ==
    /\ OneVersion(work["symbol"]) /\ OneVersion(disk["symbol"])
    /\ symbolCache \in [SymbolId -> Version \cup {Null}]
    /\ \A s \in SymbolId : symbolCache[s] # Null => s \in Ids(Shown)
    /\ \A row \in Range(Shown) : symbolCache[row.id] \in {Null, row.version}
    /\ \A row \in Range(pending["symbol"]) : symbolCache[row.id] # Null
    /\ ~isOpen => \A s \in SymbolId : symbolCache[s] = Null

ContentCacheInv ==
    /\ \A f \in DOMAIN contentCache : contentCache[f] # Null
    /\ ~isOpen => contentCache = <<>>

LEMMA ShownIs ==
    ASSUME SnapshotTypes
    PROVE  /\ Shown = IF phase > 6 THEN work["symbol"]
                      ELSE InsertAll("symbol", work["symbol"], pending["symbol"])
           /\ work["symbol"] \in Seq(SymbolRow) /\ pending["symbol"] \in Seq(SymbolRow)
           /\ Shown \in Seq(SymbolRow)
<1>1. /\ work["symbol"] \in Seq(SymbolRow) /\ pending["symbol"] \in Seq(SymbolRow)
      /\ Database(work) /\ phase \in 0..9
    BY TableIs, RowsOfTables DEF SnapshotTypes, Database
<1>2. Tables[6] = "symbol" /\ "symbol" \in Table \ {"translationunit"} /\ 6 \in 1..8
    BY TableIs
<1>3. Rows(work, "symbol") = work["symbol"] /\ PendingRows("symbol") = pending["symbol"]
    BY <1>1, <1>2, RowsType, PendingIs
<1>4. Shown = IF 6 < phase THEN work["symbol"]
              ELSE InsertAll("symbol", work["symbol"], pending["symbol"])
    <2>1. View[Tables[6]] = IF 6 < phase THEN Rows(work, Tables[6])
                            ELSE InsertAll(Tables[6], Rows(work, Tables[6]), PendingRows(Tables[6]))
        BY <1>1, <1>2, ViewIs
    <2> QED
        BY <1>2, <1>3, <2>1 DEF Shown
<1>5. 6 < phase <=> phase > 6
    BY <1>1
<1>6. Shown \in Seq(SymbolRow)
    BY <1>1, <1>4, InsertAllType
<1> QED
    BY <1>1, <1>4, <1>5, <1>6

(* What is read between two calls. *)
LEMMA SymbolsRead ==
    SnapshotInv /\ SymbolCacheInv => SymbolReadIsLatest
<1> SUFFICES ASSUME SnapshotInv, SymbolCacheInv, Idle, NEW s \in SymbolId
             PROVE  LET added == {row \in Range(Shown) : row.id = s}
                    IN  IF added = {} THEN SymbolRead(s) = Null
                        ELSE \A row \in added : SymbolRead(s) = row.version
    BY DEF SymbolReadIsLatest, Shown
<1> DEFINE rows == work["symbol"]
           added == {row \in Range(Shown) : row.id = s}
           found == {i \in DOMAIN rows : rows[i].id = s}
<1>1. /\ SnapshotTypes /\ phase = 0
      /\ Shown = InsertAll("symbol", rows, pending["symbol"])
      /\ rows \in Seq(SymbolRow) /\ pending["symbol"] \in Seq(SymbolRow) /\ OneVersion(rows)
    BY ShownIs DEF SnapshotInv, IdInv, Idle, SymbolCacheInv
<1>2. CASE symbolCache[s] # Null
    <2>1. SymbolRead(s) = symbolCache[s]
        BY <1>2 DEF SymbolRead
    <2>2. s \in Ids(Shown)
        BY <1>2 DEF SymbolCacheInv
    <2>3. added # {}
        BY <2>2 DEF Ids
    <2>4. \A row \in Range(Shown) : row.id = s => symbolCache[s] = row.version
        BY <1>2 DEF SymbolCacheInv
    <2> QED
        BY <2>1, <2>3, <2>4
<1>3. CASE symbolCache[s] = Null
    <2>1. s \notin Ids(pending["symbol"])
        BY <1>3 DEF SymbolCacheInv, Ids
    <2>2. added = {row \in Range(rows) : row.id = s}
        BY <1>1, <2>1, SymbolsInserted
    <2>3. SymbolRead(s) = IF found = {} THEN Null ELSE rows[CHOOSE i \in found : TRUE]["version"]
        BY <1>3 DEF SymbolRead, Select
    <2>4. CASE found = {}
        <3>1. added = {}
            BY <2>2, <2>4 DEF Range
        <3> QED
            BY <2>3, <2>4, <3>1
    <2>5. CASE found # {}
        <3> DEFINE i == CHOOSE j \in found : TRUE
        <3>1. i \in found
            BY <2>5
        <3>2. rows[i] \in Range(rows) /\ rows[i].id = s
            BY <3>1 DEF Range
        <3>3. SymbolRead(s) = rows[i].version
            BY <2>3, <2>5
        <3> HIDE DEF i
        <3>4. \A row \in added : row = rows[i]
            BY <1>1, <2>2, <3>2 DEF OneVersion
        <3>5. added # {}
            BY <2>2, <3>2
        <3> QED
            BY <3>3, <3>4, <3>5
    <2> QED
        BY <2>4, <2>5
<1> QED
    BY <1>2, <1>3
-----------------------------------------------------------------------------
(* a step of which the symbols know nothing, stored or pending *)
SymbolsStay ==
    /\ symbolCache' = symbolCache /\ (isOpen => isOpen')
    /\ pending'["symbol"] = pending["symbol"]
    /\ work'["symbol"] = work["symbol"] /\ disk'["symbol"] = disk["symbol"]
    /\ phase' = phase \/ (phase' <= 6 /\ phase <= 6) \/ (phase' > 6 /\ phase > 6)

LEMMA ShownNext ==
    SnapshotTypes' =>
        /\ Shown' = IF phase' > 6 THEN work'["symbol"]
                    ELSE InsertAll("symbol", work'["symbol"], pending'["symbol"])
        /\ work'["symbol"] \in Seq(SymbolRow) /\ pending'["symbol"] \in Seq(SymbolRow)
<1>1. (SnapshotTypes =>
        /\ Shown = IF phase > 6 THEN work["symbol"]
                   ELSE InsertAll("symbol", work["symbol"], pending["symbol"])
        /\ work["symbol"] \in Seq(SymbolRow) /\ pending["symbol"] \in Seq(SymbolRow))'
    BY ShownIs, PTL
<1> QED
    BY <1>1

LEMMA SymbolsStayCached ==
    ASSUME SnapshotInv, SnapshotInv', SymbolCacheInv, SymbolsStay
    PROVE  SymbolCacheInv'
<1>1. SnapshotTypes /\ SnapshotTypes' /\ phase \in 0..9 /\ phase' \in 0..9
    BY DEF SnapshotInv, IdInv, SnapshotTypes
<1>2. phase > 6 <=> phase' > 6
    BY <1>1 DEF SymbolsStay
<1>3. Shown' = Shown
    BY <1>1, <1>2, ShownIs, ShownNext DEF SymbolsStay
<1> HIDE DEF Shown
<1> QED
    BY <1>3 DEF SymbolCacheInv, SymbolsStay, OneVersion

(* Additions other than that of a symbol. *)
LEMMA OthersAdded ==
    ASSUME SnapshotTypes, NEW newRows, Add(newRows), "symbol" \notin DOMAIN newRows
    PROVE  /\ pending'["symbol"] = pending["symbol"] /\ phase' = phase /\ isOpen' = isOpen
           /\ work' = work /\ disk' = disk
BY TableIs DEF Add, dbVars

LEMMA AdditionStays ==
    ASSUME SnapshotTypes, Addition(Path)
    PROVE  /\ pending'["symbol"] = pending["symbol"] /\ phase' = phase /\ isOpen' = isOpen
           /\ work' = work /\ disk' = disk
<1> DEFINE Goal == /\ pending'["symbol"] = pending["symbol"] /\ phase' = phase /\ isOpen' = isOpen
                   /\ work' = work /\ disk' = disk
<1>1. ASSUME NEW newRows, Add(newRows), "symbol" \notin DOMAIN newRows PROVE Goal
    BY <1>1, OthersAdded
<1>2. ASSUME NEW k \in Key, NEW v \in Value, SetProperty(k, v) PROVE Goal
    <2>1. DOMAIN pending = Table /\ "symbol" \in Table
        BY TableIs DEF SnapshotTypes
    <2> QED
        BY <1>2, <2>1 DEF SetProperty, dbVars
<1> HIDE DEF Goal
<1>3. ASSUME NEW id, NEW p, AddFileWithId(id, p) PROVE Goal
    BY <1>1, <1>3 DEF AddFileWithId
<1>4. ASSUME NEW list, NEW options, AddTranslationUnits(list, options) PROVE Goal
    BY <1>1, <1>4 DEF AddTranslationUnits
<1>5. ASSUME NEW u, NEW f, NEW g, AddIncludes(u, f, g) PROVE Goal
    BY <1>1, <1>5 DEF AddIncludes
<1>6. ASSUME NEW s, NEW b, AddBase(s, b) PROVE Goal
    BY <1>1, <1>6 DEF AddBase
<1>7. ASSUME NEW s, NEW f, AddSymbolReference(s, f) PROVE Goal
    BY <1>1, <1>7 DEF AddSymbolReference
<1>8. Goal
    BY <1>2, <1>3, <1>4, <1>5, <1>6, <1>7 DEF Addition, AddFile
<1> QED
    BY <1>8 DEF Goal

(* A symbol that is added is what its readers get, and lives in the pending data. *)
LEMMA SymbolAdded ==
    ASSUME SnapshotInv, SnapshotInv', SymbolCacheInv,
           NEW s \in SymbolId, NEW v \in Version, AddSymbols(s, v)
    PROVE  SymbolCacheInv'
<1> DEFINE row == [id |-> s, version |-> v]
           rows == pending["symbol"]
<1>1. /\ phase = 0 /\ phase' = 0 /\ isOpen /\ isOpen' = isOpen /\ work' = work /\ disk' = disk
      /\ pending'["symbol"] = rows \o <<row>>
      /\ symbolCache' = [symbolCache EXCEPT ![s] = v]
    BY TableIs DEF AddSymbols, AddSymbol, Add, Call, Idle, dbVars, CacheSymbol
<1>2. /\ SnapshotTypes /\ SnapshotTypes' /\ work["symbol"] \in Seq(SymbolRow)
      /\ rows \in Seq(SymbolRow)
      /\ Shown = InsertAll("symbol", work["symbol"], rows) /\ Shown \in Seq(SymbolRow)
    BY <1>1, ShownIs DEF SnapshotInv, IdInv
<1>3. row \in SymbolRow /\ row.id = s /\ row.version = v /\ v # Null
    BY SnapshotAssumption DEF SymbolRow
<1> HIDE DEF row, rows, Shown
<1>4. pending'["symbol"] = Append(rows, row)
    BY <1>1, <1>2, <1>3
<1>5. Shown' = Insert("symbol", Shown, row)
    <2>1. Shown' = InsertAll("symbol", work["symbol"], Append(rows, row))
        <3>1. ~(phase' > 6)
            BY <1>1
        <3> QED
            BY <1>1, <1>2, <1>4, <3>1, ShownNext
    <2>2. InsertAll("symbol", work["symbol"], Append(rows, row))
              = Insert("symbol", InsertAll("symbol", work["symbol"], rows), row)
        BY <1>2, <1>3, InsertedOne
    <2> QED
        BY <1>2, <2>1, <2>2
<1>6. Range(Shown') = {r \in Range(Shown) : r.id # s} \cup {row}
    BY <1>2, <1>3, <1>5, SymbolInserted
<1>7. Range(pending'["symbol"]) = Range(rows) \cup {row}
    BY <1>2, <1>3, <1>4, RowsAppended
<1>8. symbolCache \in [SymbolId -> Version \cup {Null}]
    BY DEF SymbolCacheInv
<1>9. /\ symbolCache' \in [SymbolId -> Version \cup {Null}] /\ symbolCache'[s] = v
      /\ \A x \in SymbolId \ {s} : symbolCache'[x] = symbolCache[x]
    BY <1>1, <1>8
<1>10. (\A x \in SymbolId : symbolCache[x] # Null => x \in Ids(Shown))'
    <2> SUFFICES ASSUME NEW x \in SymbolId, symbolCache'[x] # Null PROVE x \in Ids(Shown')
        OBVIOUS
    <2>1. CASE x = s
        BY <1>3, <1>6, <2>1 DEF Ids
    <2>2. CASE x # s
        <3>1. x \in Ids(Shown)
            BY <1>9, <2>2 DEF SymbolCacheInv
        <3> QED
            BY <1>6, <2>2, <3>1 DEF Ids
    <2> QED
        BY <2>1, <2>2
<1>11. \A r \in Range(Shown) \cup Range(rows) : r.id \in SymbolId
    <2>1. Range(Shown) \subseteq SymbolRow /\ Range(rows) \subseteq SymbolRow
        BY <1>2 DEF Range
    <2>2. \A r \in SymbolRow : r.id \in SymbolId
        BY DEF SymbolRow
    <2> QED
        BY <2>1, <2>2
<1>12. \A r \in Range(Shown') : symbolCache'[r.id] \in {Null, r.version}
    <2> SUFFICES ASSUME NEW r \in Range(Shown') PROVE symbolCache'[r.id] \in {Null, r.version}
        OBVIOUS
    <2>1. CASE r = row
        BY <1>3, <1>9, <2>1
    <2>2. CASE r # row
        <3>1. r \in Range(Shown) /\ r.id # s
            BY <1>6, <2>2
        <3> QED
            BY <1>9, <1>11, <3>1 DEF SymbolCacheInv
    <2> QED
        BY <2>1, <2>2
<1>13. \A r \in Range(pending'["symbol"]) : symbolCache'[r.id] # Null
    <2> SUFFICES ASSUME NEW r \in Range(pending'["symbol"]) PROVE symbolCache'[r.id] # Null
        OBVIOUS
    <2>1. CASE r.id = s
        BY <1>3, <1>9, <2>1
    <2>2. CASE r.id # s
        <3>1. r \in Range(rows)
            BY <1>3, <1>7, <2>2
        <3> QED
            BY <1>9, <1>11, <2>2, <3>1 DEF SymbolCacheInv, rows
    <2> QED
        BY <2>1, <2>2
<1> QED
    BY <1>1, <1>9, <1>10, <1>12, <1>13 DEF SymbolCacheInv, OneVersion

(* The flush stores the symbols that are pending. *)
LEMMA SymbolsWritten ==
    ASSUME SnapshotInv, SnapshotInv', SymbolCacheInv, WriteTable, UNCHANGED cacheVars
    PROVE  SymbolCacheInv'
<1> DEFINE t == Tables[phase]
<1>1. /\ SnapshotTypes /\ SnapshotTypes' /\ phase \in 1..8 /\ phase' = phase + 1 /\ isOpen' = isOpen
      /\ pending' = pending /\ disk' = disk /\ work' = Write(t, work, pending[t])
      /\ symbolCache' = symbolCache /\ DOMAIN work = Table \cup {"compileoptions"}
    BY TableIs DEF WriteTable, SnapshotInv, IdInv, cacheVars, SnapshotTypes, Database
<1>2. CASE phase = 6
    <2>1. /\ t = "symbol" /\ phase' > 6 /\ ~(phase > 6) /\ "symbol" \in DOMAIN work
        BY <1>1, <1>2, TableIs
    <2>2. work'["symbol"] = InsertAll("symbol", work["symbol"], pending["symbol"])
        BY <1>1, <2>1 DEF Write
    <2>3. /\ Shown = work'["symbol"] /\ Shown' = work'["symbol"]
          /\ work["symbol"] \in Seq(SymbolRow) /\ pending["symbol"] \in Seq(SymbolRow)
        BY <1>1, <2>1, <2>2, ShownIs, ShownNext
    <2>4. OneVersion(work'["symbol"])
        BY <2>2, <2>3, SymbolsInserted DEF SymbolCacheInv
    <2> HIDE DEF Shown
    <2> QED
        BY <1>1, <2>3, <2>4 DEF SymbolCacheInv, OneVersion
<1>3. CASE phase # 6
    <2>1. t \in Table \ {"symbol"}
        BY <1>1, <1>3, TableIs
    <2>2. work'["symbol"] = work["symbol"]
        <3>1. "symbol" \in DOMAIN work \ {"translationunit", "compileoptions"}
            BY <1>1, TableIs
        <3> QED
            BY <1>1, <2>1, <3>1 DEF Write, InsertUnits
    <2>3. (phase' <= 6 /\ phase <= 6) \/ (phase' > 6 /\ phase > 6)
        BY <1>1, <1>3
    <2>4. SymbolsStay
        BY <1>1, <2>2, <2>3 DEF SymbolsStay
    <2> QED
        BY <2>4, SymbolsStayCached
<1> QED
    BY <1>2, <1>3

(* Pending symbols that nobody keeps are forgotten once they are stored. *)
LEMMA SymbolsForgotten ==
    ASSUME SnapshotInv, SnapshotInv', SymbolCacheInv, NEW ok, End(ok), ~closing, Forget
    PROVE  SymbolCacheInv'
<1>1. /\ SnapshotTypes /\ SnapshotTypes' /\ phase = 9 /\ phase' = 0 /\ isOpen' = isOpen
      /\ pending' = Empty /\ work' = work /\ disk' \in {work, disk}
      /\ symbolCache' = [s \in SymbolId |-> IF s \in symbolKept THEN symbolCache[s] ELSE Null]
    BY TableIs DEF End, SnapshotInv, IdInv, Forget
<1>2. /\ Shown = work["symbol"] /\ pending'["symbol"] = <<>>
      /\ Shown' = InsertAll("symbol", work["symbol"], pending'["symbol"])
      /\ Shown \in Seq(SymbolRow)
    <2>1. phase > 6 /\ ~(phase' > 6) /\ "symbol" \in Table
        BY <1>1, TableIs
    <2> QED
        BY <1>1, <2>1, ShownIs, ShownNext, EmptyRows DEF Empty
<1>3. Shown' = Shown
    BY <1>2, InsertedNone
<1>4. \A row \in Range(Shown) : row.id \in SymbolId
    <2> HIDE DEF Shown
    <2>1. Range(Shown) \subseteq SymbolRow
        BY <1>2 DEF Range
    <2> QED
        BY <2>1 DEF SymbolRow
<1>5. Range(pending'["symbol"]) = {}
    BY <1>2, NothingIn
<1> HIDE DEF Shown
<1>6. (OneVersion(work["symbol"]) /\ OneVersion(disk["symbol"]))'
    BY <1>1 DEF SymbolCacheInv, OneVersion
<1>7. symbolCache' \in [SymbolId -> Version \cup {Null}]
          /\ \A s \in SymbolId : symbolCache'[s] \in {symbolCache[s], Null}
    BY <1>1 DEF SymbolCacheInv
<1>8. \A row \in Range(Shown') : symbolCache'[row.id] \in {Null, row.version}
    BY <1>3, <1>4, <1>7 DEF SymbolCacheInv
<1>9. \A s \in SymbolId : symbolCache'[s] # Null => s \in Ids(Shown')
    BY <1>3, <1>7 DEF SymbolCacheInv
<1>10. ~isOpen' => \A s \in SymbolId : symbolCache'[s] = Null
    BY <1>1, <1>7 DEF SymbolCacheInv
<1> QED
    BY <1>5, <1>6, <1>7, <1>8, <1>9, <1>10 DEF SymbolCacheInv

LEMMA SymbolsDiscarded ==
    ASSUME SnapshotInv, SnapshotInv', SymbolCacheInv,
           NEW committed \in {work, disk}, Disconnect(committed), Discard
    PROVE  SymbolCacheInv'
<1>1. /\ SnapshotTypes' /\ isOpen' = FALSE /\ pending' = Empty
      /\ work' = committed /\ disk' = committed
      /\ symbolCache' = [s \in SymbolId |-> Null]
    BY DEF Disconnect, SnapshotInv, IdInv, Discard
<1>2. Range(pending'["symbol"]) = {}
    BY <1>1, TableIs, NothingIn DEF Empty
<1>3. (SnapshotTypes => Shown \in Seq(SymbolRow))'
    BY ShownIs, PTL
<1>4. \A row \in Range(Shown') : row.id \in SymbolId
    <2> HIDE DEF Shown
    <2>1. Range(Shown') \subseteq SymbolRow
        BY <1>1, <1>3 DEF Range
    <2> QED
        BY <2>1 DEF SymbolRow
<1> HIDE DEF Shown
<1>5. (OneVersion(work["symbol"]) /\ OneVersion(disk["symbol"]))'
    BY <1>1 DEF SymbolCacheInv, OneVersion
<1> QED
    BY <1>1, <1>2, <1>4, <1>5 DEF SymbolCacheInv

(* What the callers get and let go. *)
LEMMA SymbolGot ==
    ASSUME SnapshotInv, SnapshotInv', SymbolCacheInv, NEW s \in SymbolId, GetSymbol(s)
    PROVE  SymbolCacheInv'
<1>1. /\ Idle /\ SymbolRead(s) # Null /\ UNCHANGED vars
      /\ symbolCache' = [symbolCache EXCEPT ![s] = SymbolRead(s)]
    BY DEF GetSymbol, CacheSymbol
<1>2. /\ SnapshotTypes /\ SnapshotTypes' /\ work' = work /\ disk' = disk /\ pending' = pending
      /\ phase' = phase /\ isOpen' = isOpen
    BY <1>1 DEF vars, dbVars, SnapshotInv, IdInv
<1>3. Shown' = Shown /\ Shown \in Seq(SymbolRow)
    BY <1>2, ShownIs, ShownNext
<1>4. LET added == {row \in Range(Shown) : row.id = s}
      IN  IF added = {} THEN SymbolRead(s) = Null
          ELSE \A row \in added : SymbolRead(s) = row.version
    BY <1>1, SymbolsRead DEF SymbolReadIsLatest, Shown
<1> DEFINE v == SymbolRead(s)
<1> HIDE DEF Shown, v
<1>5. /\ s \in Ids(Shown) /\ v # Null
      /\ \A row \in Range(Shown) : row.id = s => v = row.version
    BY <1>1, <1>4 DEF Ids, v
<1>6. \A row \in Range(Shown) : row.id \in SymbolId /\ row.version \in Version
    <2>1. Range(Shown) \subseteq SymbolRow
        BY <1>3 DEF Range
    <2> QED
        BY <2>1 DEF SymbolRow
<1>7. v \in Version
    BY <1>5, <1>6 DEF Ids
<1>8. /\ symbolCache' \in [SymbolId -> Version \cup {Null}] /\ symbolCache'[s] = v
      /\ \A x \in SymbolId \ {s} : symbolCache'[x] = symbolCache[x]
    BY <1>1, <1>7 DEF SymbolCacheInv, v
<1>9. \A x \in SymbolId : symbolCache'[x] # Null => x \in Ids(Shown')
    BY <1>3, <1>5, <1>8 DEF SymbolCacheInv
<1>10. \A row \in Range(Shown') : symbolCache'[row.id] \in {Null, row.version}
    BY <1>3, <1>5, <1>6, <1>8 DEF SymbolCacheInv
<1>11. \A row \in Range(pending'["symbol"]) : symbolCache'[row.id] # Null
    <2>1. Range(pending["symbol"]) \subseteq SymbolRow
        BY <1>2, ShownIs DEF Range
    <2>2. \A row \in Range(pending["symbol"]) : row.id \in SymbolId
        BY <2>1 DEF SymbolRow
    <2> QED
        BY <1>2, <1>5, <1>8, <2>2 DEF SymbolCacheInv
<1> QED
    BY <1>1, <1>2, <1>8, <1>9, <1>10, <1>11 DEF SymbolCacheInv, Idle

LEMMA SymbolReleased ==
    ASSUME SnapshotInv, SnapshotInv', SymbolCacheInv, NEW s \in SymbolId, ReleaseSymbol(s)
    PROVE  SymbolCacheInv'
<1>1. /\ UNCHANGED vars
      /\ symbolCache' = IF IsPending(s) THEN symbolCache ELSE [symbolCache EXCEPT ![s] = Null]
    BY DEF ReleaseSymbol
<1>2. /\ SnapshotTypes /\ SnapshotTypes' /\ work' = work /\ disk' = disk /\ pending' = pending
      /\ phase' = phase /\ isOpen' = isOpen
    BY <1>1 DEF vars, dbVars, SnapshotInv, IdInv
<1>3. CASE IsPending(s)
    <2>1. SymbolsStay
        BY <1>1, <1>2, <1>3 DEF SymbolsStay
    <2> QED
        BY <2>1, SymbolsStayCached
<1>4. CASE ~IsPending(s)
    <2>1. Shown' = Shown /\ Shown \in Seq(SymbolRow)
        BY <1>2, ShownIs, ShownNext
    <2> HIDE DEF Shown
    <2>2. \A row \in Range(Shown) : row.id \in SymbolId
        <3>1. Range(Shown) \subseteq SymbolRow
            BY <2>1 DEF Range
        <3> QED
            BY <3>1 DEF SymbolRow
    <2>3. /\ symbolCache' \in [SymbolId -> Version \cup {Null}]
          /\ symbolCache'[s] = Null
          /\ \A x \in SymbolId \ {s} : symbolCache'[x] = symbolCache[x]
        BY <1>1, <1>4 DEF SymbolCacheInv
    <2>4. \A row \in Range(pending["symbol"]) : row.id \in SymbolId \ {s}
        <3>1. Range(pending["symbol"]) \subseteq SymbolRow
            BY <1>2, ShownIs DEF Range
        <3>2. \A row \in Range(pending["symbol"]) : row.id \in SymbolId
            BY <3>1 DEF SymbolRow
        <3> QED
            BY <1>4, <3>2 DEF IsPending
    <2> QED
        BY <1>2, <2>1, <2>2, <2>3, <2>4 DEF SymbolCacheInv
<1> QED
    BY <1>3, <1>4
-----------------------------------------------------------------------------
(* the rows of files are where they were, with the same content but for one *)
FilesStay ==
    \A i \in DOMAIN work["file"] :
        /\ i \in DOMAIN work'["file"] /\ work'["file"][i].id = work["file"][i].id
        /\ work["file"][i].id # copying - 1 => work'["file"][i].content = work["file"][i].content

(* What happens to the caches and to what they are caches of. *)
CacheStep ==
    \/ SymbolsStay /\ FilesStay /\ UNCHANGED contentCache
    \/ \E s \in SymbolId, v \in Version : AddSymbols(s, v)
    \/ \E s \in SymbolId : GetSymbol(s) \/ ReleaseSymbol(s)
    \/ \E f \in 0..MaxFiles - 1 : GetFileContent(f) \/ ReleaseContent(f)
    \/ WriteTable /\ UNCHANGED cacheVars
    \/ \E ok \in BOOLEAN : End(ok) /\ ~closing /\ Forget
    \/ \E committed \in {work, disk} : Disconnect(committed) /\ Discard

(* The row of a file is what select_content_from_file returns. *)
LEMMA ContentSelected ==
    SnapshotInv =>
        \A f : /\ \A i \in DOMAIN work["file"] : work["file"][i].id = f =>
                      Select("file", f, "content") = work["file"][i].content
               /\ (\A i \in DOMAIN work["file"] : work["file"][i].id # f) =>
                      Select("file", f, "content") = Null
<1> SUFFICES ASSUME SnapshotInv, NEW f
             PROVE  /\ \A i \in DOMAIN work["file"] : work["file"][i].id = f =>
                          Select("file", f, "content") = work["file"][i].content
                    /\ (\A i \in DOMAIN work["file"] : work["file"][i].id # f) =>
                          Select("file", f, "content") = Null
    OBVIOUS
<1> DEFINE rows == work["file"]
           found == {i \in DOMAIN rows : rows[i].id = f}
<1>1. Select("file", f, "content")
          = IF found = {} THEN Null ELSE rows[CHOOSE i \in found : TRUE].content
    BY DEF Select
<1>2. \A i, j \in found : i = j
    BY DEF SnapshotInv, StoreInv, IdsDistinct, Distinct
<1>3. ASSUME NEW i \in found PROVE Select("file", f, "content") = rows[i].content
    <2>1. (CHOOSE j \in found : TRUE) \in found
        BY <1>3
    <2>2. (CHOOSE j \in found : TRUE) = i
        BY <1>2, <1>3, <2>1
    <2> HIDE DEF found
    <2> QED
        BY <1>1, <1>3, <2>2
<1> QED
    BY <1>1, <1>3

LEMMA FilesUnchanged ==
    ASSUME work'["file"] = work["file"]
    PROVE  FilesStay
BY DEF FilesStay

LEMMA CopyFileStays ==
    ASSUME SnapshotInv, CopyFile, UNCHANGED cacheVars
    PROVE  CacheStep
<1> DEFINE id == copying - 1
           content == <<files[id], text[files[id]]>>
           db == Update(work, "file", id, "content", content)
<1>1. /\ Database(work) /\ pending' = pending /\ phase' = phase /\ isOpen' = isOpen
      /\ text \in [Path -> Wording \cup {Null}] /\ files \in [DOMAIN files -> Path]
      /\ symbolCache' = symbolCache /\ contentCache' = contentCache /\ (~inTx => work = disk)
    BY DEF CopyFile, SnapshotInv, IdInv, SnapshotTypes, Usage, cacheVars
<1>2. CASE id \in DOMAIN files /\ text[files[id]] # Null
    <2>1. content \in Path \X Wording
        BY <1>1, <1>2
    <2>2. Execute(db)
        BY <1>2 DEF CopyFile
    <2> HIDE DEF content, id
    <2>3. /\ DOMAIN db["file"] = DOMAIN work["file"]
          /\ \A u \in DOMAIN work \ {"file"} : db[u] = work[u]
          /\ \A i \in DOMAIN work["file"] :
                /\ db["file"][i].id = work["file"][i].id
                /\ work["file"][i].id # id => db["file"][i] = work["file"][i]
        <3>1. SameBut(work, db) /\ \A u \in DOMAIN work \ {"file"} : db[u] = work[u]
            BY <1>1, <2>1, SameFiles
        <3>2. \A i \in DOMAIN work["file"] :
                 db["file"][i] = IF work["file"][i].id = id
                                 THEN [work["file"][i] EXCEPT !["content"] = content]
                                 ELSE work["file"][i]
            BY <1>1, <2>1, SameFiles
        <3> HIDE DEF db
        <3> QED
            BY <3>1, <3>2 DEF SameBut
    <2> HIDE DEF db
    <2>4. work' = db /\ (disk' = disk \/ (disk' = db /\ disk = work))
        BY <1>1, <2>2 DEF Execute
    <2>5. "symbol" \in DOMAIN work \ {"file"}
        BY <1>1, TableIs DEF Database
    <2>6. SymbolsStay
        BY <1>1, <2>3, <2>4, <2>5 DEF SymbolsStay
    <2>7. FilesStay
        BY <2>3, <2>4 DEF FilesStay, id
    <2> QED
        BY <1>1, <2>6, <2>7 DEF CacheStep
<1>3. CASE ~(id \in DOMAIN files /\ text[files[id]] # Null)
    <2>1. work' = work /\ disk' = disk
        BY <1>3 DEF CopyFile, dbVars
    <2> QED
        BY <1>1, <2>1, FilesUnchanged DEF CacheStep, SymbolsStay
<1> QED
    BY <1>2, <1>3

LEMMA SerializedAstStays ==
    ASSUME SnapshotInv, NEW u, AddTranslationUnitSerializedAst(u), UNCHANGED cacheVars
    PROVE  CacheStep
<1> DEFINE db == Update(work, "translationunit", u, "ast", TRUE)
<1>1. /\ Database(work) /\ pending' = pending /\ phase' = phase /\ isOpen' = isOpen
      /\ symbolCache' = symbolCache /\ contentCache' = contentCache /\ (~inTx => work = disk)
      /\ Execute(db)
    BY DEF AddTranslationUnitSerializedAst, Call, Idle, SnapshotInv, IdInv, SnapshotTypes, Usage,
           cacheVars
<1>2. \A t \in DOMAIN work \ {"translationunit"} : db[t] = work[t]
    BY DEF Update
<1>3. {"file", "symbol"} \subseteq DOMAIN work \ {"translationunit"}
    BY <1>1, TableIs DEF Database
<1> HIDE DEF db
<1>4. work' = db /\ (disk' = disk \/ (disk' = db /\ disk = work))
    BY <1>1 DEF Execute
<1>5. work'["file"] = work["file"] /\ work'["symbol"] = work["symbol"]
          /\ disk'["symbol"] = disk["symbol"]
    BY <1>2, <1>3, <1>4
<1> QED
    BY <1>1, <1>5, FilesUnchanged DEF CacheStep, SymbolsStay

LEMMA CacheSteps ==
    ASSUME SnapshotInv, [Using(Path)]_<<vars, cacheVars>>
    PROVE  CacheStep
<1>1. SnapshotTypes /\ phase \in 0..9
    BY DEF SnapshotInv, IdInv, SnapshotTypes
<1> DEFINE Quietly == /\ work' = work /\ disk' = disk /\ pending'["symbol"] = pending["symbol"]
                      /\ phase' = phase /\ (isOpen => isOpen')
                      /\ symbolCache' = symbolCache /\ contentCache' = contentCache
<1>2. Quietly => CacheStep
    BY FilesUnchanged DEF CacheStep, SymbolsStay
<1>3. CASE Adding(Path)
    <2>1. CASE Addition(Path) /\ UNCHANGED cacheVars
        BY <1>1, <1>2, <2>1, AdditionStays DEF cacheVars
    <2> QED
        BY <1>3, <2>1 DEF Adding, CacheStep
<1>4. CASE Updating(Path)
    <2>1. ASSUME AddFilesContent PROVE CacheStep
        BY <1>2, <1>4, <2>1 DEF Updating, AddFilesContent, dbVars, cacheVars
    <2>2. ASSUME NEW p \in Path, Edit(p) PROVE CacheStep
        BY <1>2, <1>4, <2>2 DEF Updating, Edit, dbVars, cacheVars
    <2> QED
        BY <1>4, <2>1, <2>2, SerializedAstStays DEF Updating
<1>5. CASE Getting
    BY <1>5 DEF Getting, CacheStep
<1>6. CASE Proceeding
    <2>1. CASE (CopyFile \/ WriteTable) /\ UNCHANGED cacheVars
        BY <2>1, CopyFileStays DEF CacheStep
    <2>2. CASE (Commit \/ Busy) /\ IF closing THEN Discard ELSE Forget
        <3>1. PICK ok \in BOOLEAN : End(ok)
            BY <2>2 DEF Commit, Busy
        <3>2. CASE closing
            <4>1. Disconnect(IF ok THEN work ELSE disk)
                BY <3>1, <3>2 DEF End
            <4> QED
                BY <2>2, <3>2, <4>1 DEF CacheStep
        <3>3. CASE ~closing
            BY <2>2, <3>1, <3>3 DEF CacheStep
        <3> QED
            BY <3>2, <3>3
    <2>3. CASE (Close \/ Crash) /\ Discard
        BY <2>3 DEF Close, Crash, CacheStep
    <2> QED
        BY <1>6, <2>1, <2>2, <2>3 DEF Proceeding
<1>7. CASE (Begin(FALSE) \/ Begin(TRUE)) /\ UNCHANGED cacheVars
    <2>1. /\ work' = work /\ disk' = disk /\ pending' = pending /\ isOpen' = isOpen
          /\ phase = 0 /\ phase' = 1
          /\ symbolCache' = symbolCache /\ contentCache' = contentCache
        BY <1>7 DEF Begin, Idle, cacheVars
    <2>2. SymbolsStay
        BY <2>1 DEF SymbolsStay
    <2> QED
        BY <2>1, <2>2, FilesUnchanged DEF CacheStep
<1>8. CASE Open /\ UNCHANGED cacheVars
    BY <1>2, <1>8 DEF Open, dbVars, cacheVars
<1>9. CASE UNCHANGED <<vars, cacheVars>>
    BY <1>2, <1>9 DEF vars, dbVars, cacheVars
<1> QED
    BY <1>3, <1>4, <1>5, <1>6, <1>7, <1>8, <1>9 DEF Using

LEMMA SymbolCacheStep ==
    ASSUME SnapshotInv, SnapshotInv', SymbolCacheInv, CacheStep
    PROVE  SymbolCacheInv'
<1>1. ASSUME NEW f, GetFileContent(f) \/ ReleaseContent(f) PROVE SymbolCacheInv'
    <2>1. SymbolsStay
        BY <1>1 DEF GetFileContent, ReleaseContent, vars, dbVars, SymbolsStay
    <2> QED
        BY <2>1, SymbolsStayCached
<1>2. ASSUME SymbolsStay PROVE SymbolCacheInv'
    BY <1>2, SymbolsStayCached
<1>3. ASSUME NEW s \in SymbolId, NEW v \in Version, AddSymbols(s, v) PROVE SymbolCacheInv'
    BY <1>3, SymbolAdded
<1>4. ASSUME NEW s \in SymbolId, GetSymbol(s) \/ ReleaseSymbol(s) PROVE SymbolCacheInv'
    BY <1>4, SymbolGot, SymbolReleased
<1>5. ASSUME WriteTable, UNCHANGED cacheVars PROVE SymbolCacheInv'
    BY <1>5, SymbolsWritten
<1>6. ASSUME NEW ok \in BOOLEAN, End(ok), ~closing, Forget PROVE SymbolCacheInv'
    BY <1>6, SymbolsForgotten
<1>7. ASSUME NEW committed \in {work, disk}, Disconnect(committed), Discard PROVE SymbolCacheInv'
    BY <1>7, SymbolsDiscarded
<1> QED
    BY <1>1, <1>2, <1>3, <1>4, <1>5, <1>6, <1>7 DEF CacheStep

(* A flush inserts files behind those that are there. *)
LEMMA WriteTableStays ==
    ASSUME SnapshotInv, WriteTable
    PROVE  FilesStay
<1> DEFINE t == Tables[phase]
<1>1. /\ Database(work) /\ phase \in 1..8 /\ work' = Write(t, work, pending[t])
      /\ SnapshotTypes /\ DOMAIN work = Table \cup {"compileoptions"} /\ t \in Table
    BY TableIs, Phases DEF WriteTable, SnapshotInv, IdInv, SnapshotTypes, Database
<1>2. CASE t = "file"
    <2> DEFINE rows == work["file"]
               more == InsertAll("file", rows, pending["file"])
    <2>1. rows \in Seq(FileRow) /\ pending["file"] \in Seq(FileRow)
        BY <1>1, TableIs, RowsOfTables DEF SnapshotTypes, Database
    <2>2. work'["file"] = more
        BY <1>1, <1>2 DEF Write
    <2>3. Alike(rows, rows, Len(rows))
        BY <2>1 DEF Alike
    <2>4. \A i \in DOMAIN rows : more[i] = rows[i]
        BY <2>1, <2>3, InsertedRowsKept
    <2>5. more \in Seq(FileRow) /\ Len(more) >= Len(rows)
        BY <2>1, InsertAllType
    <2> HIDE DEF more
    <2>6. DOMAIN rows \subseteq DOMAIN more
        <3>1. Len(rows) \in Nat /\ Len(more) \in Nat /\ DOMAIN rows = 1..Len(rows)
                  /\ DOMAIN more = 1..Len(more)
            BY <2>1, <2>5
        <3> QED
            BY <2>5, <3>1
    <2> QED
        BY <2>2, <2>4, <2>6 DEF FilesStay
<1>3. CASE t # "file"
    <2>1. "file" \in DOMAIN work /\ "file" # "translationunit" /\ "file" # "compileoptions"
        BY <1>1, TableIs
    <2>2. work'["file"] = work["file"]
        BY <1>1, <1>3, <2>1 DEF Write, InsertUnits
    <2> QED
        BY <2>2, FilesUnchanged
<1> QED
    BY <1>2, <1>3

(* Nothing makes a content that is kept differ from that of its row but copying its file. *)
LEMMA ContentsOutdated ==
    ASSUME SnapshotInv, SnapshotInv', ContentCacheInv, CacheStep
    PROVE  ContentCacheInv' /\ Outdated' \subseteq Outdated \cup {copying - 1}
<1> DEFINE Now(f) == Select("file", f, "content")
           Then(f) == Select("file", f, "content")'
<1>1. \A f : /\ \A i \in DOMAIN work["file"] :
                   work["file"][i].id = f => Now(f) = work["file"][i].content
             /\ (\A i \in DOMAIN work["file"] : work["file"][i].id # f) => Now(f) = Null
    BY ContentSelected
<1>2. \A f : /\ \A i \in DOMAIN work'["file"] :
                   work'["file"][i].id = f => Then(f) = work'["file"][i].content
             /\ (\A i \in DOMAIN work'["file"] : work'["file"][i].id # f) => Then(f) = Null
    <2>1. (SnapshotInv =>
              \A f : /\ \A i \in DOMAIN work["file"] : work["file"][i].id = f =>
                            Select("file", f, "content") = work["file"][i].content
                     /\ (\A i \in DOMAIN work["file"] : work["file"][i].id # f) =>
                            Select("file", f, "content") = Null)'
        BY ContentSelected, PTL
    <2> QED
        BY <2>1
<1>3. /\ Outdated = {f \in DOMAIN contentCache : contentCache[f] # Now(f)}
      /\ Outdated' = {f \in DOMAIN contentCache' : contentCache'[f] # Then(f)}
    BY DEF Outdated
<1> HIDE DEF Now, Then
<1>4. ASSUME FilesStay, contentCache' = contentCache
      PROVE  Outdated' \subseteq Outdated \cup {copying - 1}
    <2> SUFFICES ASSUME NEW f \in DOMAIN contentCache, contentCache[f] # Then(f), f # copying - 1
                 PROVE  contentCache[f] # Now(f)
        BY <1>3, <1>4
    <2>1. CASE \E i \in DOMAIN work["file"] : work["file"][i].id = f
        <3>1. PICK i \in DOMAIN work["file"] : work["file"][i].id = f
            BY <2>1
        <3>2. /\ i \in DOMAIN work'["file"] /\ work'["file"][i].id = f
              /\ work'["file"][i].content = work["file"][i].content
            BY <1>4, <3>1 DEF FilesStay
        <3>3. Then(f) = Now(f)
            BY <1>1, <1>2, <3>1, <3>2
        <3> QED
            BY <3>3
    <2>2. CASE \A i \in DOMAIN work["file"] : work["file"][i].id # f
        BY <1>1, <2>2 DEF ContentCacheInv
    <2> QED
        BY <2>1, <2>2
<1>5. ASSUME contentCache' = contentCache, isOpen => isOpen' PROVE ContentCacheInv'
    BY <1>5 DEF ContentCacheInv
<1>6. CASE SymbolsStay /\ FilesStay /\ UNCHANGED contentCache
    BY <1>4, <1>5, <1>6 DEF SymbolsStay
<1>7. ASSUME NEW s \in SymbolId, NEW v \in Version, AddSymbols(s, v)
      PROVE  contentCache' = contentCache /\ work' = work /\ isOpen' = isOpen
    BY <1>7 DEF AddSymbols, AddSymbol, Add, dbVars
<1>8. ASSUME NEW s \in SymbolId, GetSymbol(s) \/ ReleaseSymbol(s)
      PROVE  contentCache' = contentCache /\ work' = work /\ isOpen' = isOpen
    BY <1>8 DEF GetSymbol, ReleaseSymbol, vars, dbVars
<1>9. ASSUME WriteTable, UNCHANGED cacheVars
      PROVE  contentCache' = contentCache /\ FilesStay /\ isOpen' = isOpen
    BY <1>9, WriteTableStays DEF WriteTable, cacheVars
<1>10. ASSUME NEW ok \in BOOLEAN, End(ok), ~closing, Forget
       PROVE  contentCache' = contentCache /\ work' = work /\ isOpen' = isOpen
    BY <1>10 DEF End, Forget
<1>11. ASSUME NEW committed \in {work, disk}, Disconnect(committed), Discard
       PROVE  ContentCacheInv' /\ Outdated' \subseteq Outdated \cup {copying - 1}
    <2>1. contentCache' = <<>> /\ isOpen' = FALSE /\ DOMAIN <<>> = {}
        BY <1>11 DEF Discard, Disconnect
    <2> QED
        BY <1>3, <2>1 DEF ContentCacheInv
<1>12. ASSUME NEW f, GetFileContent(f)
       PROVE  ContentCacheInv' /\ Outdated' \subseteq Outdated \cup {copying - 1}
    <2> DEFINE content == ContentRead(f)
    <2>1. /\ f \notin DOMAIN contentCache /\ content # Null /\ isOpen /\ isOpen' = isOpen
          /\ contentCache' = [g \in DOMAIN contentCache \cup {f} |->
                                IF g = f THEN content ELSE contentCache[g]]
          /\ work' = work
        BY <1>12 DEF GetFileContent, Idle, vars, dbVars
    <2>2. content = Now(f)
        BY <2>1 DEF ContentRead, Now
    <2> HIDE DEF content
    <2>3. /\ DOMAIN contentCache' = {f} \cup DOMAIN contentCache /\ contentCache'[f] = content
          /\ \A g \in DOMAIN contentCache : contentCache'[g] = contentCache[g]
        BY <2>1
    <2>4. \A g : Then(g) = Now(g)
        BY <2>1 DEF Then, Now, Select
    <2>5. Outdated' \subseteq Outdated
        BY <1>3, <2>2, <2>3, <2>4
    <2>6. ContentCacheInv'
        BY <2>1, <2>3 DEF ContentCacheInv
    <2> QED
        BY <2>5, <2>6
<1>13. ASSUME NEW f, ReleaseContent(f)
       PROVE  ContentCacheInv' /\ Outdated' \subseteq Outdated \cup {copying - 1}
    <2>1. /\ contentCache' = [k \in DOMAIN contentCache \ {f} |-> contentCache[k]] /\ work' = work
          /\ isOpen /\ isOpen' = isOpen
        BY <1>13 DEF ReleaseContent, Without, Idle, vars, dbVars
    <2>2. DOMAIN contentCache' \subseteq DOMAIN contentCache
              /\ \A g \in DOMAIN contentCache' : contentCache'[g] = contentCache[g]
        BY <2>1
    <2>3. \A g : Then(g) = Now(g)
        BY <2>1 DEF Then, Now, Select
    <2>4. Outdated' \subseteq Outdated
        BY <1>3, <2>2, <2>3
    <2>5. ContentCacheInv'
        BY <2>1, <2>2 DEF ContentCacheInv
    <2> QED
        BY <2>4, <2>5
<1>14. work' = work => FilesStay
    BY FilesUnchanged
<1> QED
    BY <1>4, <1>5, <1>6, <1>7, <1>8, <1>9, <1>10, <1>11, <1>12, <1>13, <1>14 DEF CacheStep

(* Whatever objects the callers keep, and whatever is pending, flushed or lost, a symbol is
   returned as it was added last, and a content that is kept becomes out of date only when
   addFilesContent() copies its file again. *)
THEOREM ReadsReturnTheLast == UsingSpec => ReadsAreCurrent
<1> DEFINE CacheInv == SymbolCacheInv /\ ContentCacheInv
<1>1. (\E n, m \in Nat : InitFor(n, m)) /\ CachesInit => CacheInv
    <2> SUFFICES ASSUME NEW n \in Nat, NEW m \in Nat, InitFor(n, m), CachesInit PROVE CacheInv
        OBVIOUS
    <2>1. /\ work = EmptyDatabase /\ disk = EmptyDatabase /\ pending = Empty /\ isOpen = TRUE
          /\ phase = 0 /\ symbolCache = [s \in SymbolId |-> Null] /\ contentCache = <<>>
        BY DEF InitFor, CachesInit
    <2>2. work["symbol"] = <<>> /\ disk["symbol"] = <<>> /\ pending["symbol"] = <<>>
        BY <2>1, TableIs DEF EmptyDatabase, Empty
    <2>3. Shown = <<>>
        <3>1. SnapshotTypes
            BY SnapshotInvInit DEF SnapshotInv, IdInv
        <3> QED
            BY <2>1, <2>2, <3>1, ShownIs, InsertedNone
    <2> HIDE DEF Shown
    <2>4. SymbolCacheInv
        BY <2>1, <2>2, <2>3, NothingIn DEF SymbolCacheInv, OneVersion
    <2>5. ContentCacheInv
        BY <2>1 DEF ContentCacheInv
    <2> QED
        BY <2>4, <2>5
<1>2. SnapshotInv /\ SnapshotInv' /\ CacheInv /\ [Using(Path)]_<<vars, cacheVars>> => CacheInv'
    BY CacheSteps, SymbolCacheStep, ContentsOutdated
<1>3. SnapshotInv /\ CacheInv => SymbolReadIsLatest
    BY SymbolsRead
<1>4. SnapshotInv /\ SnapshotInv' /\ CacheInv /\ SymbolReadIsLatest'
          /\ [Using(Path)]_<<vars, cacheVars>>
        => [/\ SymbolReadIsLatest'
            /\ Outdated' \subseteq Outdated \cup {copying - 1}]_<<vars, cacheVars>>
    BY CacheSteps, ContentsOutdated
<1> QED
    BY <1>1, <1>2, <1>3, <1>4, SnapshotInvariant, PTL DEF UsingSpec, ReadsAreCurrent
-----------------------------------------------------------------------------
(* The scan of a solution. *)
PlainCall ==
    {SetPropertyCall(k) : k \in Key} \cup {AddFileCall(p) : p \in Path}
    \cup [call : {"addTranslationUnits"}, arg : Seq(Path), options : Options]

FlushCall == [call |-> "writePendingData"]
CopyCall == [call |-> "addFilesContent"]

(* the calls still to make: one flush right before the copy, which comes last *)
Planned(calls) ==
    /\ calls \in Seq(PlainCall \cup {FlushCall, CopyCall})
    /\ \A i \in DOMAIN calls :
          /\ i < Len(calls) - 1 => calls[i] \in PlainCall
          /\ i = Len(calls) - 1 => calls[i] = FlushCall
          /\ i = Len(calls) => calls[i] = CopyCall

(* a row has no text yet, or that of its file *)
OwnTexts(rows) == \A row \in Range(rows) : row.content \in {Null, <<row.path, text[row.path]>>}

(* a unit has the first of the files of its path *)
FirstFiles ==
    \A u \in DOMAIN units :
        /\ units[u].file \in DOMAIN files
        /\ \A id \in DOMAIN files : files[id] = files[units[u].file] => units[u].file <= id

ScanInv ==
    /\ Planned(todo)
    /\ OwnTexts(work["file"]) /\ OwnTexts(disk["file"]) /\ OwnTexts(pending["file"])
    /\ Len(todo) = 1 => phase # 0 \/ pending["file"] = <<>>
    /\ copying # 0 => todo = <<>> /\ pending["file"] = <<>>
    /\ todo # <<>> \/ copying # 0 => isOpen /\ FirstFiles

LEMMA Projects ==
    ASSUME NEW solution \in Solution
    PROVE  /\ solution \in Seq(Range(solution))
           /\ \A project \in Range(solution) :
                 /\ project.includeList \in Seq(Path) /\ project.compileList \in Seq(Path)
                 /\ project.defines # Null => ProjectOptions(project) \in Options
<1>1. solution \in Seq(UNION {Range(s) : s \in Solution})
    BY SolutionAssumption
<1>2. solution \in Seq(Range(solution))
    BY <1>1 DEF Range
<1> QED
    BY <1>2, SolutionAssumption

LEMMA FilesListed ==
    ASSUME NEW solution \in Solution
    PROVE  ListFiles(solution) \in Seq(PlainCall)
<1> DEFINE pathsOf(project) == project.includeList \o project.compileList
           P == Range(solution)
           step == [p \in Seq(Path) \X P |-> p[1] \o pathsOf(p[2])]
           paths == Folded(step, <<>>, solution)
<1>1. solution \in Seq(P) /\ <<>> \in Seq(Path)
    BY Projects
<1>2. ASSUME NEW q \in Seq(Path), NEW project \in P PROVE step[<<q, project>>] \in Seq(Path)
    <2>1. project.includeList \in Seq(Path) /\ project.compileList \in Seq(Path)
        BY Projects
    <2>2. pathsOf(project) \in Seq(Path)
        BY <2>1
    <2> HIDE DEF P, pathsOf
    <2>3. step[<<q, project>>] = q \o pathsOf(project)
        OBVIOUS
    <2> QED
        BY <2>2, <2>3
<1> HIDE DEF step, P
<1>3. paths \in Seq(Path)
    BY <1>1, <1>2, FoldedType
<1>4. ListFiles(solution) = [i \in DOMAIN paths |-> AddFileCall(paths[i])]
    BY DEF ListFiles, step, P
<1> HIDE DEF paths
<1>5. \A i \in DOMAIN paths : AddFileCall(paths[i]) \in PlainCall
    BY <1>3 DEF PlainCall
<1> DEFINE new(i) == AddFileCall(paths[i])
<1> HIDE DEF new
<1>6. ListFiles(solution) = [i \in 1..Len(paths) |-> new(i)] /\ \A i \in 1..Len(paths) : new(i) \in PlainCall
    BY <1>3, <1>4, <1>5 DEF new
<1> QED
    BY <1>3, <1>6

LEMMA UnitsListed ==
    ASSUME NEW solution \in Solution
    PROVE  ListTranslationUnits(solution) \in Seq(PlainCall)
<1> DEFINE P == Range(solution)
           with == {project \in P : project.defines # Null}
           withGroup == Selected(with, solution)
           new(project) == [call |-> "addTranslationUnits", arg |-> project.compileList,
                            options |-> ProjectOptions(project)]
<1>1. withGroup \in Seq(P \cap with)
    <2>1. solution \in Seq(P)
        BY Projects
    <2> HIDE DEF P, with
    <2> QED
        BY <2>1, SelectedType
<1>2. \A project \in P \cap with : new(project) \in PlainCall
    BY Projects DEF PlainCall
<1>3. ListTranslationUnits(solution) = [i \in DOMAIN withGroup |-> new(withGroup[i])]
    BY DEF ListTranslationUnits
<1> HIDE DEF withGroup, P, with, new
<1>4. /\ ListTranslationUnits(solution) = [i \in 1..Len(withGroup) |-> new(withGroup[i])]
      /\ Len(withGroup) \in Nat /\ \A i \in 1..Len(withGroup) : new(withGroup[i]) \in PlainCall
    BY <1>1, <1>2, <1>3
<1> QED
    BY <1>4

LEMMA PlannedAll ==
    ASSUME NEW before \in Seq(PlainCall)
    PROVE  Planned(before \o <<FlushCall, CopyCall>>)
<1> DEFINE calls == before \o <<FlushCall, CopyCall>>
           n == Len(before)
<1>1. /\ n \in Nat /\ Len(calls) = n + 2 /\ \A i \in 1..n : calls[i] = before[i] /\ before[i] \in PlainCall
      /\ calls[n + 1] = FlushCall /\ calls[n + 2] = CopyCall /\ DOMAIN calls = 1..n + 2
    OBVIOUS
<1>2. calls \in Seq(PlainCall \cup {FlushCall, CopyCall})
    OBVIOUS
<1> HIDE DEF calls, n
<1>3. Planned(calls)
    BY <1>1, <1>2 DEF Planned
<1> QED
    BY <1>3 DEF calls

LEMMA ScanPlanned ==
    ASSUME NEW solution \in Solution
    PROVE  Planned(ScanSln(solution)) /\ Len(ScanSln(solution)) \in Nat /\ Len(ScanSln(solution)) >= 2
<1> DEFINE a == SetPropertyCall("csnap.version")
           b == SetPropertyCall("sln.path")
           listed == ListFiles(solution)
           added == ListTranslationUnits(solution)
           before == <<a>> \o (<<b>> \o listed \o added)
           rest == <<FlushCall, CopyCall>>
<1>1. a \in PlainCall /\ b \in PlainCall
    BY SolutionAssumption DEF PlainCall
<1>2. listed \in Seq(PlainCall) /\ added \in Seq(PlainCall)
    BY FilesListed, UnitsListed
<1>3. ScanSln(solution) = before \o rest
    BY DEF ScanSln, OpenSln, FlushCall, CopyCall
<1> HIDE DEF a, b, listed, added
<1>4. before \in Seq(PlainCall)
    BY <1>1, <1>2
<1> HIDE DEF before
<1>5. Planned(before \o rest) /\ Len(before \o rest) = Len(before) + 2 /\ Len(before) \in Nat
    BY <1>4, PlannedAll
<1> QED
    BY <1>3, <1>5

LEMMA PlannedTail ==
    ASSUME NEW calls, Planned(calls), calls # <<>>
    PROVE  /\ Planned(Tail(calls)) /\ Len(calls) \in Nat \ {0} /\ Len(Tail(calls)) = Len(calls) - 1
           /\ Len(calls) = 1 => Head(calls) = CopyCall /\ Tail(calls) = <<>>
           /\ Len(calls) = 2 => Head(calls) = FlushCall
           /\ Len(calls) > 2 => Head(calls) \in PlainCall
<1> DEFINE C == PlainCall \cup {FlushCall, CopyCall}
           rest == Tail(calls)
<1>1. calls \in Seq(C)
    BY DEF Planned
<1> HIDE DEF C
<1>2. /\ Len(calls) \in Nat \ {0} /\ rest \in Seq(C) /\ Len(rest) = Len(calls) - 1
      /\ \A i \in 1..Len(rest) : rest[i] = calls[i + 1]
      /\ DOMAIN calls = 1..Len(calls) /\ DOMAIN rest = 1..Len(rest) /\ Head(calls) = calls[1]
    BY <1>1
<1> HIDE DEF rest
<1>3. Len(rest) = 0 => rest = <<>>
    BY <1>2, EmptySeq
<1>4. ASSUME NEW i \in DOMAIN rest
      PROVE  /\ i < Len(rest) - 1 => rest[i] \in PlainCall
             /\ i = Len(rest) - 1 => rest[i] = FlushCall
             /\ i = Len(rest) => rest[i] = CopyCall
    <2>1. i + 1 \in DOMAIN calls /\ rest[i] = calls[i + 1] /\ i \in Nat
        BY <1>2
    <2>2. /\ i < Len(rest) - 1 => i + 1 < Len(calls) - 1
          /\ i = Len(rest) - 1 => i + 1 = Len(calls) - 1
          /\ i = Len(rest) => i + 1 = Len(calls)
        BY <1>2, <2>1
    <2> QED
        BY <2>1, <2>2 DEF Planned
<1>5. Planned(rest)
    BY <1>2, <1>4 DEF Planned, C
<1>6. 1 \in DOMAIN calls
    BY <1>2
<1>7. /\ Len(calls) = 1 => Head(calls) = CopyCall
      /\ Len(calls) = 2 => Head(calls) = FlushCall
      /\ Len(calls) > 2 => Head(calls) \in PlainCall
    BY <1>2, <1>6 DEF Planned
<1> QED
    BY <1>2, <1>3, <1>5, <1>7 DEF rest

(* FileList::find returns the first file of a path, of those there are. *)
LEMMA FirstFound ==
    ASSUME NEW p, DOMAIN files \subseteq Nat
    PROVE  LET f == FindFile(p)
           IN  /\ f \in DOMAIN files => files[f] = p /\ \A id \in DOMAIN files : files[id] = p => f <= id
<1> DEFINE ids == {id \in DOMAIN files : files[id] = p}
<1>1. CASE ids = {}
    <2>1. FindFile(p) = Null
        BY <1>1 DEF FindFile
    <2> QED
        BY <2>1, SnapshotAssumption
<1>2. CASE ids # {}
    <2>1. ids \subseteq Nat
        OBVIOUS
    <2> HIDE DEF ids
    <2>2. PICK k \in ids : \A j \in ids : k <= j
        BY <1>2, <2>1, Least
    <2>3. Min(ids) \in ids /\ \A j \in ids : Min(ids) <= j
        BY <2>2 DEF Min
    <2>4. FindFile(p) = Min(ids)
        BY <1>2 DEF FindFile, ids
    <2> QED
        BY <2>3, <2>4 DEF ids
<1> QED
    BY <1>1, <1>2

FirstOfPath(f) == f \in DOMAIN files /\ \A id \in DOMAIN files : files[id] = files[f] => f <= id

LEMMA FoundFiles ==
    ASSUME NEW paths \in Seq(Path), DOMAIN files \subseteq Nat
    PROVE  Found(paths) \in Seq({f \in DOMAIN files : FirstOfPath(f)})
<1> DEFINE E == {FindFile(p) : p \in Path}
           ids == [i \in DOMAIN paths |-> FindFile(paths[i])]
           D == DOMAIN files
           F == {f \in D : FirstOfPath(f)}
<1>1. ids \in Seq(E)
    <2> DEFINE find(i) == FindFile(paths[i])
    <2>1. Len(paths) \in Nat /\ \A i \in 1..Len(paths) : find(i) \in E
        OBVIOUS
    <2>2. ids = [i \in 1..Len(paths) |-> find(i)]
        OBVIOUS
    <2> HIDE DEF find, ids, E
    <2> QED
        BY <2>1, <2>2
<1>2. Found(paths) = Selected(D, ids)
    BY DEF Found
<1>3. E \cap D \subseteq F
    <2> SUFFICES ASSUME NEW p \in Path, FindFile(p) \in D PROVE FirstOfPath(FindFile(p))
        OBVIOUS
    <2> QED
        BY FirstFound DEF FirstOfPath
<1> HIDE DEF E, D, F, ids
<1>4. Selected(D, ids) \in Seq(E \cap D)
    BY <1>1, SelectedType
<1>5. Selected(D, ids) \in Seq(F)
    BY <1>3, <1>4
<1> QED
    BY <1>2, <1>5 DEF F, D
-----------------------------------------------------------------------------
LEMMA ScanInvInit == ScanInit => ScanInv /\ SnapshotInv
<1> SUFFICES ASSUME ScanInit PROVE ScanInv /\ SnapshotInv
    OBVIOUS
<1>1. PICK solution \in Solution : todo = ScanSln(solution) /\ InitFor(Len(todo), MaxBusy)
    BY DEF ScanInit
<1>2. Planned(todo) /\ Len(todo) \in Nat /\ Len(todo) >= 2
    BY <1>1, ScanPlanned
<1>3. SnapshotInv
    BY <1>1, <1>2, SolutionAssumption, SnapshotInvInit
<1>4. /\ work["file"] = <<>> /\ disk["file"] = <<>> /\ pending["file"] = <<>> /\ copying = 0
      /\ isOpen /\ units = <<>>
    <2>1. EmptyDatabase["file"] = <<>>
        BY TableIs DEF EmptyDatabase
    <2> QED
        BY <1>1, <2>1, EmptyRefers, TableIs DEF InitFor
<1>5. FirstFiles
    BY <1>4 DEF FirstFiles
<1> QED
    BY <1>2, <1>3, <1>4, <1>5, NothingIn DEF ScanInv, OwnTexts

(* A call of the scan. *)
LEMMA CallKinds ==
    ASSUME IdInv, ScanInv, NextCall
    PROVE  /\ todo # <<>> /\ todo' = Tail(todo) /\ copying = 0 /\ isOpen
           /\ \/ /\ Head(todo) \in PlainCall /\ Len(todo) > 2
                 /\ \/ \E k \in Key : SetProperty(k, "any")
                    \/ \E p \in Path : AddFile(p)
                    \/ \E list \in Seq({f \in DOMAIN files : FirstOfPath(f)}), options \in Options :
                          AddFound(list, options)
              \/ Len(todo) = 2 /\ Begin(FALSE)
              \/ Len(todo) = 1 /\ AddFilesContent
<1>1. todo # <<>> /\ todo' = Tail(todo) /\ Make(Head(todo)) /\ Planned(todo) /\ copying = 0 /\ isOpen
    BY DEF NextCall, ScanInv
<1> DEFINE c == Head(todo)
<1>2. /\ Len(todo) \in Nat \ {0}
      /\ Len(todo) = 1 => c = CopyCall
      /\ Len(todo) = 2 => c = FlushCall
      /\ Len(todo) > 2 => c \in PlainCall
    BY <1>1, PlannedTail
<1>3. Make(c)
    BY <1>1
<1> HIDE DEF c
<1>4. CASE Len(todo) = 1
    <2>1. c.call = "addFilesContent"
        BY <1>2, <1>4 DEF CopyCall
    <2> QED
        BY <1>1, <1>3, <1>4, <2>1 DEF Make
<1>5. CASE Len(todo) = 2
    <2>1. c.call = "writePendingData"
        BY <1>2, <1>5 DEF FlushCall
    <2> QED
        BY <1>1, <1>3, <1>5, <2>1 DEF Make
<1>6. CASE Len(todo) > 2
    <2>1. CASE \E k \in Key : c = SetPropertyCall(k)
        <3>1. PICK k \in Key : c = SetPropertyCall(k)
            BY <2>1
        <3>2. c.call = "setProperty" /\ c.arg = k
            BY <3>1 DEF SetPropertyCall
        <3>3. SetProperty(k, "any")
            BY <1>3, <3>2 DEF Make
        <3> QED
            BY <1>1, <1>2, <1>6, <3>3 DEF c
    <2>2. CASE \E p \in Path : c = AddFileCall(p)
        <3>1. PICK p \in Path : c = AddFileCall(p)
            BY <2>2
        <3>2. c.call = "addFile" /\ c.arg = p
            BY <3>1 DEF AddFileCall
        <3>3. AddFile(p)
            BY <1>3, <3>2 DEF Make
        <3> QED
            BY <1>1, <1>2, <1>6, <3>3 DEF c
    <2>3. CASE c \in [call : {"addTranslationUnits"}, arg : Seq(Path), options : Options]
        <3>1. c.call = "addTranslationUnits" /\ c.arg \in Seq(Path) /\ c.options \in Options
            BY <2>3
        <3>2. AddFound(Found(c.arg), c.options)
            BY <1>3, <3>1 DEF Make
        <3>3. DOMAIN files \subseteq Nat
            BY <1>1, ListsBounded DEF IdInv
        <3>4. Found(c.arg) \in Seq({f \in DOMAIN files : FirstOfPath(f)})
            BY <3>1, <3>3, FoundFiles
        <3> QED
            BY <1>1, <1>2, <1>6, <3>1, <3>2, <3>4 DEF c
    <2> QED
        BY <1>2, <1>6, <2>1, <2>2, <2>3 DEF PlainCall
<1>7. Len(todo) = 1 \/ Len(todo) = 2 \/ Len(todo) > 2
    <2> DEFINE n == Len(todo)
    <2>1. n \in Nat \ {0}
        BY <1>1, PlannedTail
    <2> HIDE DEF n
    <2>2. n = 1 \/ n = 2 \/ n > 2
        BY <2>1
    <2> QED
        BY <2>2 DEF n
<1> QED
    BY <1>4, <1>5, <1>6, <1>7, Zenon

(* What the steps of a scan are among those of any program. *)
LEMMA ScanKinds ==
    ASSUME SnapshotInv, ScanInv, [Scanning]_<<vars, cacheVars, todo>>
    PROVE  StepKind
<1>1. text \in [Path -> Wording \cup {Null}] /\ IdInv
    BY DEF SnapshotInv, IdInv, SnapshotTypes
<1>2. ASSUME UNCHANGED vars PROVE StepKind
    BY <1>1, <1>2 DEF vars, memoryVars, dbVars, Quiet, StepKind
<1>3. CASE NextCall
    <2>1. ASSUME NEW k \in Key, SetProperty(k, "any") PROVE StepKind
        BY <2>1, SolutionAssumption DEF StepKind
    <2>2. ASSUME NEW p \in Path, AddFile(p) PROVE StepKind
        <3>1. isOpen
            BY <2>2 DEF AddFile, AddFileWithId, Add, Call, Idle
        <3>2. DOMAIN files \subseteq Nat /\ \E n \in Nat : \A i \in DOMAIN files : i < n
            BY <1>1, <3>1, ListsBounded DEF IdInv
        <3>3. Size(files) \in Nat
            BY <3>2, SizeIsFree
        <3>4. \E newRows : Fits(newRows)
            BY <1>1, <2>2, <3>3, AddFileFits DEF AddFile
        <3> QED
            BY <3>4 DEF StepKind
    <2>3. ASSUME NEW list \in Seq({f \in DOMAIN files : FirstOfPath(f)}), NEW options \in Options,
                 AddFound(list, options)
          PROVE  StepKind
        <3>1. list \in Seq(DOMAIN files)
            OBVIOUS
        <3>2. CASE AddTranslationUnits(list, options)
            <4>1. \E newRows : Fits(newRows)
                BY <1>1, <3>1, <3>2, AddUnitsFit
            <4> QED
                BY <4>1 DEF StepKind
        <3> QED
            BY <1>2, <2>3, <3>2 DEF AddFound
    <2>4. ASSUME Begin(FALSE) PROVE StepKind
        BY <2>4 DEF StepKind
    <2>5. ASSUME AddFilesContent PROVE StepKind
        BY <1>1, <2>5 DEF AddFilesContent, Call, Idle, memoryVars, dbVars, Quiet, StepKind
    <2> QED
        BY <1>1, <1>3, <2>1, <2>2, <2>3, <2>4, <2>5, CallKinds
<1>4. CASE Proceeding
    <2>1. ASSUME Commit \/ Busy PROVE \E ok \in BOOLEAN : End(ok)
        BY <2>1 DEF Commit, Busy
    <2>2. ASSUME Close \/ Crash PROVE isOpen /\ Disconnect(disk)
        BY <2>2 DEF Close, Crash, Idle
    <2> QED
        BY <1>4, <2>1, <2>2 DEF Proceeding, StepKind
<1>5. CASE Open
    BY <1>5 DEF StepKind
<1> QED
    BY <1>2, <1>3, <1>4, <1>5 DEF Scanning

(* The calls keep to the plan, and the files that are listed and given to units. *)
LEMMA ScanCalls ==
    ASSUME SnapshotInv, ScanInv, NextCall
    PROVE  ScanInv'
<1>1. /\ IdInv /\ Planned(todo) /\ isOpen /\ copying = 0 /\ todo # <<>> /\ todo' = Tail(todo)
      /\ FirstFiles
      /\ OwnTexts(work["file"]) /\ OwnTexts(disk["file"]) /\ OwnTexts(pending["file"])
    BY CallKinds DEF SnapshotInv, ScanInv
<1>2. /\ Planned(todo') /\ Len(todo) \in Nat \ {0} /\ Len(todo') = Len(todo) - 1
      /\ Len(todo) = 1 => todo' = <<>>
    BY <1>1, PlannedTail
<1>3. /\ DOMAIN files \subseteq Nat /\ DOMAIN units \subseteq Nat /\ Size(files) \in Nat
      /\ \A i \in DOMAIN files : i < Size(files)
      /\ Size(units) \in Nat /\ \A i \in DOMAIN units : i < Size(units)
      /\ pending["file"] \in Seq(FileRow) /\ DOMAIN pending = Table
      /\ {"file", "info", "translationunit"} \subseteq Table
    <2>1. /\ DOMAIN files \subseteq Nat /\ \E n \in Nat : \A i \in DOMAIN files : i < n
          /\ DOMAIN units \subseteq Nat /\ \E n \in Nat : \A i \in DOMAIN units : i < n
        BY <1>1, ListsBounded DEF IdInv
    <2>2. pending["file"] \in Seq(FileRow) /\ DOMAIN pending = Table
        BY <1>1, TableIs, RowsOfTables DEF IdInv, SnapshotTypes
    <2> QED
        BY <2>1, <2>2, SizeIsFree, TableIs
(* what a call that comes before the flush has to leave *)
<1>4. ASSUME Len(todo) > 2, UNCHANGED <<work, disk, text, isOpen, copying>>,
             OwnTexts(pending'["file"]), FirstFiles'
      PROVE  ScanInv'
    <2>1. OwnTexts(pending["file"])' /\ OwnTexts(work["file"])' /\ OwnTexts(disk["file"])'
        BY <1>1, <1>4 DEF OwnTexts
    <2> DEFINE n == Len(todo)
               m == Len(todo')
    <2>2. m # 1
        <3>1. n \in Nat /\ m = n - 1 /\ n > 2
            BY <1>2, <1>4
        <3> HIDE DEF n, m
        <3> QED
            BY <3>1
    <2>3. copying' = 0 /\ isOpen'
        BY <1>1, <1>4
    <2> QED
        BY <1>2, <1>4, <2>1, <2>2, <2>3 DEF ScanInv
<1>5. ASSUME Len(todo) > 2, NEW k \in Key, SetProperty(k, "any") PROVE ScanInv'
    <2>1. /\ UNCHANGED <<work, disk, text, isOpen, copying, files, units>>
          /\ pending'["file"] = pending["file"]
        BY <1>3, <1>5 DEF SetProperty, Call, Idle, memoryVars, dbVars
    <2> QED
        BY <1>1, <1>4, <1>5, <2>1 DEF FirstFiles
<1>6. ASSUME Len(todo) > 2, NEW p \in Path, AddFile(p) PROVE ScanInv'
    <2> DEFINE new == Size(files)
               row == [id |-> new, path |-> p, content |-> Null]
    <2>1. /\ files' = [i \in DOMAIN files \cup {new} |-> IF i = new THEN p ELSE files[i]]
          /\ Add([file |-> <<row>>]) /\ units' = units /\ new \notin DOMAIN files
        BY <1>6 DEF AddFile, AddFileWithId
    <2>2. /\ UNCHANGED <<work, disk, text, isOpen, copying>>
          /\ pending'["file"] = pending["file"] \o <<row>>
        BY <1>3, <2>1 DEF Add, Call, Idle, dbVars
    <2>3. row \in FileRow /\ row.content = Null
        BY <1>3, <1>6 DEF FileRow
    <2> HIDE DEF row, new
    <2>4. OwnTexts(pending'["file"])
        <3> DEFINE one == <<row>>
        <3>1. one \in Seq(FileRow) /\ Range(one) = {row} /\ pending'["file"] = pending["file"] \o one
            BY <2>2, <2>3, OneRow
        <3> HIDE DEF one
        <3>2. Range(pending'["file"]) = Range(pending["file"]) \cup {row}
            BY <1>3, <3>1, RowsJoined
        <3> QED
            BY <1>1, <2>3, <3>2 DEF OwnTexts
    <2>5. FirstFiles'
        <3> SUFFICES ASSUME NEW u \in DOMAIN units
                     PROVE  /\ units[u].file \in DOMAIN files'
                            /\ \A id \in DOMAIN files' :
                                  files'[id] = files'[units[u].file] => units[u].file <= id
            BY <2>1 DEF FirstFiles
        <3>1. units[u].file \in DOMAIN files /\ units[u].file \in Nat /\ units[u].file < new
            BY <1>1, <1>3 DEF FirstFiles, new
        <3>2. ASSUME NEW id \in DOMAIN files, files'[id] = files'[units[u].file] PROVE units[u].file <= id
            BY <1>1, <2>1, <3>1, <3>2 DEF FirstFiles
        <3>3. units[u].file <= new
            BY <1>3, <3>1 DEF new
        <3> QED
            BY <2>1, <3>1, <3>2, <3>3
    <2> QED
        BY <1>4, <1>6, <2>2, <2>4, <2>5
<1>7. ASSUME Len(todo) > 2, NEW list \in Seq({f \in DOMAIN files : FirstOfPath(f)}),
             NEW options \in Options, AddFound(list, options)
      PROVE  ScanInv'
    <2>1. CASE UNCHANGED vars
        <3>1. UNCHANGED <<work, disk, text, isOpen, copying, files, units, pending>>
            BY <2>1 DEF vars, memoryVars, dbVars
        <3> QED
            BY <1>1, <1>4, <1>7, <3>1 DEF FirstFiles
    <2>2. CASE AddTranslationUnits(list, options)
        <3> DEFINE first == Size(units)
                   new == first..first + Len(list) - 1
        <3>1. /\ units' = [i \in DOMAIN units \cup new |->
                              IF i < first THEN units[i]
                              ELSE [file |-> list[i - first + 1], options |-> options]]
              /\ files' = files
              /\ UNCHANGED <<work, disk, text, isOpen, copying>>
              /\ pending'["file"] = pending["file"]
            BY <1>3, <2>2 DEF AddTranslationUnits, Add, Call, Idle, dbVars
        <3>2. FirstFiles'
            <4> SUFFICES ASSUME NEW u \in DOMAIN units'
                         PROVE  /\ units'[u].file \in DOMAIN files
                                /\ \A id \in DOMAIN files :
                                      files[id] = files[units'[u].file] => units'[u].file <= id
                BY <3>1 DEF FirstFiles
            <4>1. CASE u \in DOMAIN units
                <5>1. u < first
                    BY <1>3, <4>1
                <5>2. units'[u] = units[u]
                    BY <3>1, <4>1, <5>1
                <5> QED
                    BY <1>1, <4>1, <5>2 DEF FirstFiles
            <4>2. CASE u \in new
                <5>1. u - first + 1 \in 1..Len(list) /\ ~(u < first)
                    BY <1>3, <4>2
                <5>2. FirstOfPath(list[u - first + 1])
                    BY <1>7, <5>1
                <5>3. units'[u] = [file |-> list[u - first + 1], options |-> options]
                    BY <3>1, <4>2, <5>1
                <5> QED
                    BY <5>2, <5>3 DEF FirstOfPath
            <4> QED
                BY <3>1, <4>1, <4>2
        <3> QED
            BY <1>1, <1>4, <1>7, <3>1, <3>2
    <2> QED
        BY <1>7, <2>1, <2>2 DEF AddFound
<1>8. ASSUME Len(todo) = 2, Begin(FALSE) PROVE ScanInv'
    <2>1. /\ UNCHANGED <<work, disk, text, isOpen, copying, files, units, pending>>
          /\ phase' = 1
        BY <1>8 DEF Begin, Idle, memoryVars
    <2>2. OwnTexts(pending["file"])' /\ OwnTexts(work["file"])' /\ OwnTexts(disk["file"])'
        BY <1>1, <2>1 DEF OwnTexts
    <2> QED
        BY <1>1, <1>2, <2>1, <2>2 DEF ScanInv, FirstFiles
<1>9. ASSUME Len(todo) = 1, AddFilesContent PROVE ScanInv'
    <2>1. /\ UNCHANGED <<work, disk, text, isOpen, files, units, pending>> /\ copying' = 1
          /\ phase = 0
        BY <1>9 DEF AddFilesContent, Call, Idle, memoryVars, dbVars
    <2>2. OwnTexts(pending["file"])' /\ OwnTexts(work["file"])' /\ OwnTexts(disk["file"])'
        BY <1>1, <2>1 DEF OwnTexts
    <2>3. pending["file"] = <<>> /\ todo' = <<>>
        BY <1>2, <1>9, <2>1 DEF ScanInv
    <2> QED
        BY <1>1, <1>2, <2>1, <2>2, <2>3 DEF ScanInv, FirstFiles
<1> QED
    BY <1>1, <1>5, <1>6, <1>7, <1>8, <1>9, CallKinds

(* What goes on between two calls. *)
LEMMA ScanProceeds ==
    ASSUME SnapshotInv, ScanInv, Proceeding, todo' = IF isOpen' THEN todo ELSE <<>>
    PROVE  ScanInv'
<1>1. /\ IdInv /\ Planned(todo)
      /\ OwnTexts(work["file"]) /\ OwnTexts(disk["file"]) /\ OwnTexts(pending["file"])
      /\ copying \in Nat /\ (phase # 0 => copying = 0) /\ phase \in 0..9
      /\ Database(work) /\ text \in [Path -> Wording \cup {Null}]
      /\ files \in [DOMAIN files -> Path]
      /\ work["file"] \in Seq(FileRow) /\ pending["file"] \in Seq(FileRow)
    BY TableIs, RowsOfTables DEF SnapshotInv, IdInv, ScanInv, SnapshotTypes, Usage, Database
<1>2. /\ Len(todo) = 1 => phase # 0 \/ pending["file"] = <<>>
      /\ copying # 0 => todo = <<>> /\ pending["file"] = <<>>
      /\ todo # <<>> \/ copying # 0 => isOpen /\ FirstFiles
    BY DEF ScanInv
<1>3. Planned(<<>>) /\ Len(<<>>) # 1
    BY DEF Planned
<1>4. CASE CopyFile
    <2> DEFINE id == copying - 1
    <2>1. /\ copying # 0 /\ todo = <<>> /\ pending["file"] = <<>> /\ isOpen /\ FirstFiles
          /\ UNCHANGED <<isOpen, files, units, pending, text>>
        BY <1>2, <1>4 DEF CopyFile, memoryVars
    <2>2. OwnTexts(work'["file"]) /\ OwnTexts(disk'["file"])
        <3>1. CASE id \in DOMAIN files /\ text[files[id]] # Null
            <4> DEFINE content == <<files[id], text[files[id]]>>
                       db == Update(work, "file", id, "content", content)
            <4>1. content \in Path \X Wording /\ content = <<files[id], text[files[id]]>>
                BY <1>1, <3>1
            <4>2. Execute(db)
                BY <1>4, <3>1 DEF CopyFile
            <4>3. \A row \in Range(work["file"]) : files[row.id] = row.path
                BY <2>1 DEF SnapshotInv, StoreInv, FilesAgree
            <4> HIDE DEF content, id
            <4>4. Database(work) /\ content \in Path \X Wording
                BY <1>1, <4>1
            <4>5. /\ SameBut(work, db)
                  /\ \A i \in DOMAIN work["file"] :
                        db["file"][i] = IF work["file"][i].id = id
                                        THEN [work["file"][i] EXCEPT !["content"] = content]
                                        ELSE work["file"][i]
                BY <4>4, SameFiles
            <4> HIDE DEF db
            <4>6. OwnTexts(db["file"])
                <5> SUFFICES ASSUME NEW i \in DOMAIN work["file"]
                             PROVE  LET row == db["file"][i]
                                    IN  row.content \in {Null, <<row.path, text[row.path]>>}
                    BY <4>5 DEF SameBut, OwnTexts, Range
                <5> DEFINE old == work["file"][i]
                <5>1. old \in FileRow /\ old \in Range(work["file"])
                    BY <1>1 DEF Range
                <5>4. db["file"][i] = IF old.id = id THEN [old EXCEPT !["content"] = content] ELSE old
                    BY <4>5
                <5> HIDE DEF old
                <5>2. CASE old.id = id
                    <6>1. db["file"][i].content = content /\ db["file"][i].path = old.path
                        BY <5>1, <5>2, <5>4 DEF FileRow
                    <6>2. files[id] = old.path
                        BY <4>3, <5>1, <5>2
                    <6> QED
                        BY <4>1, <6>1, <6>2
                <5>3. CASE old.id # id
                    BY <1>1, <5>1, <5>3, <5>4 DEF OwnTexts
                <5> QED
                    BY <5>2, <5>3
            <4> QED
                BY <1>1, <4>2, <4>6 DEF Execute
        <3>2. CASE ~(id \in DOMAIN files /\ text[files[id]] # Null)
            BY <1>1, <1>4, <3>2 DEF CopyFile, dbVars
        <3> QED
            BY <3>1, <3>2
    <2>3. OwnTexts(pending["file"])' /\ OwnTexts(work["file"])' /\ OwnTexts(disk["file"])'
        BY <1>1, <2>1, <2>2 DEF OwnTexts
    <2> QED
        BY <1>3, <2>1, <2>3 DEF ScanInv, FirstFiles
<1>5. CASE WriteTable
    <2>1. /\ UNCHANGED <<isOpen, files, units, pending, disk, text, copying>>
          /\ isOpen /\ phase \in 1..8 /\ phase' = phase + 1 /\ copying = 0
        BY <1>1, <1>5, TableWritten, TableIs DEF WriteTable
    <2>2. OwnTexts(work'["file"])
        <3>1. CASE Tables[phase] = "file"
            <4>1. work'["file"] = InsertAll("file", work["file"], pending["file"])
                BY <1>1, <1>5, <3>1, TableWritten
            <4>2. Range(work'["file"]) \subseteq Range(work["file"]) \cup Range(pending["file"])
                BY <1>1, <4>1, InsertAllType
            <4> QED
                BY <1>1, <4>2 DEF OwnTexts
        <3>2. CASE Tables[phase] # "file"
            <4>1. work'["file"] = work["file"]
                BY <1>1, <1>5, <3>2, TableWritten, TableIs
            <4> QED
                BY <1>1, <4>1
        <3> QED
            BY <3>1, <3>2
    <2>3. OwnTexts(pending["file"])' /\ OwnTexts(work["file"])' /\ OwnTexts(disk["file"])'
        BY <1>1, <2>1, <2>2 DEF OwnTexts
    <2>4. phase' # 0
        BY <2>1
    <2> QED
        BY <1>1, <1>2, <2>1, <2>3, <2>4 DEF ScanInv, FirstFiles
<1>6. ASSUME isOpen' = FALSE, copying' = 0, pending' = Empty, text' = text,
             {work'["file"], disk'["file"]} \subseteq {work["file"], disk["file"]}
      PROVE  ScanInv'
    <2>1. pending'["file"] = <<>> /\ todo' = <<>>
        BY <1>6, EmptyRefers, TableIs
    <2>2. OwnTexts(<<>>)
        BY NothingIn DEF OwnTexts
    <2>3. OwnTexts(pending["file"])' /\ OwnTexts(work["file"])' /\ OwnTexts(disk["file"])'
        BY <1>1, <1>6, <2>1, <2>2 DEF OwnTexts
    <2> QED
        BY <1>3, <1>6, <2>1, <2>3 DEF ScanInv
<1>7. ASSUME NEW ok \in BOOLEAN, End(ok) PROVE ScanInv'
    <2>1. CASE closing
        BY <1>6, <1>7, <2>1 DEF End, Disconnect
    <2>2. CASE ~closing
        <3>1. /\ UNCHANGED <<isOpen, files, units, copying, work, text>> /\ pending' = Empty
              /\ disk' \in {work, disk} /\ copying = 0 /\ isOpen
            BY <1>1, <1>7, <2>2, TableIs DEF End, memoryVars, IdInv, Usage
        <3>2. pending'["file"] = <<>> /\ OwnTexts(<<>>)
            BY <3>1, EmptyRefers, TableIs, NothingIn DEF OwnTexts
        <3>3. OwnTexts(pending["file"])' /\ OwnTexts(work["file"])' /\ OwnTexts(disk["file"])'
            BY <1>1, <3>1, <3>2 DEF OwnTexts
        <3> QED
            BY <1>1, <1>2, <3>1, <3>2, <3>3 DEF ScanInv, FirstFiles
    <2> QED
        BY <2>1, <2>2
<1>8. CASE Disconnect(disk)
    BY <1>6, <1>8 DEF Disconnect
<1> QED
    BY <1>4, <1>5, <1>7, <1>8 DEF Proceeding, Commit, Busy, Close, Crash

LEMMA ScanInvStep ==
    ASSUME SnapshotInv, ScanInv, [Scanning]_<<vars, cacheVars, todo>>
    PROVE  ScanInv'
<1>1. CASE NextCall
    BY <1>1, ScanCalls
<1>2. CASE Proceeding /\ todo' = IF isOpen' THEN todo ELSE <<>>
    BY <1>2, ScanProceeds
<1>3. CASE Open /\ UNCHANGED <<cacheVars, todo>>
    <2>1. ~isOpen /\ UNCHANGED <<work, disk, text, pending, copying, todo>>
        BY <1>3 DEF Open, dbVars
    <2>2. todo = <<>> /\ copying = 0
        BY <2>1 DEF ScanInv
    <2>3. OwnTexts(pending["file"])' /\ OwnTexts(work["file"])' /\ OwnTexts(disk["file"])'
        BY <2>1 DEF ScanInv, OwnTexts
    <2>4. Planned(todo') /\ Len(todo') # 1
        BY <2>1, <2>2 DEF ScanInv
    <2> QED
        BY <2>1, <2>2, <2>3, <2>4 DEF ScanInv
<1>4. CASE UNCHANGED <<vars, cacheVars, todo>>
    <2>1. UNCHANGED <<work, disk, text, pending, copying, todo, phase, isOpen, files, units>>
        BY <1>4 DEF vars, memoryVars, dbVars
    <2>2. OwnTexts(pending["file"])' /\ OwnTexts(work["file"])' /\ OwnTexts(disk["file"])'
        BY <2>1 DEF ScanInv, OwnTexts
    <2> QED
        BY <2>1, <2>2 DEF ScanInv, FirstFiles
<1> QED
    BY <1>1, <1>2, <1>3, <1>4 DEF Scanning

(* The last file is copied. *)
LEMMA ScanCopyEnds ==
    ASSUME SnapshotInv, SnapshotInv', ScanInv, ScanInv', Copied, CopyFile, copying' = 0
    PROVE  LET rows == Range(work'["file"])
           IN  /\ \A id \in DOMAIN files : text[files[id]] # Null =>
                     [id |-> id, path |-> files[id], content |-> <<files[id], text[files[id]]>>] \in rows
               /\ \A unit \in Range(work'["translationunit"]) : \A row1, row2 \in rows :
                     unit.file = row1.id /\ row2.path = row1.path => row1.id <= row2.id
<1> DEFINE rows == Range(work'["file"])
<1>1. /\ copying # 0 /\ isOpen /\ FirstFiles /\ pending["file"] = <<>>
      /\ UNCHANGED <<isOpen, files, units, pending, text>>
    BY DEF CopyFile, memoryVars, ScanInv
<1>2. /\ DOMAIN files = Ids(work'["file"])
      /\ \A row \in rows : row \in FileRow /\ files[row.id] = row.path
    <2>1. DOMAIN files' = Ids(work'["file"]) \cup Ids(pending'["file"])
        BY <1>1 DEF SnapshotInv, IdInv, Lists
    <2>2. Ids(pending'["file"]) = {}
        BY <1>1, NothingIn
    <2>3. work'["file"] \in Seq(FileRow)
        BY TableIs, RowsOfTables DEF SnapshotInv, IdInv, SnapshotTypes, Database
    <2>4. \A row \in rows : files'[row.id] = row.path
        BY <1>1 DEF SnapshotInv, StoreInv, FilesAgree
    <2> QED
        BY <1>1, <2>1, <2>2, <2>3, <2>4 DEF Range
<1>3. \A row \in rows : text[row.path] # Null => row.content = <<row.path, text[row.path]>>
    <2>1. CopiedTo(work', copying) /\ \A row \in rows : row.id < copying
        BY FileCopied
    <2>2. \A row \in rows : row.content \in {Null, <<row.path, text[row.path]>>}
        BY <1>1 DEF ScanInv, OwnTexts
    <2>3. ASSUME NEW row \in rows, text[row.path] # Null
          PROVE  row.content = <<row.path, text[row.path]>>
        <3>1. HasText(row) /\ row.path \in Path
            BY <1>2, <2>1, <2>3 DEF CopiedTo, FileRow
        <3>2. row.content # Null
            BY <3>1, SnapshotAssumption DEF HasText
        <3> QED
            BY <2>2, <3>2
    <2> QED
        BY <2>3
<1>4. ASSUME NEW id \in DOMAIN files, text[files[id]] # Null
      PROVE  [id |-> id, path |-> files[id], content |-> <<files[id], text[files[id]]>>] \in rows
    <2>1. PICK row \in rows : row.id = id
        BY <1>2 DEF Ids
    <2>2. /\ row \in FileRow /\ row.path = files[id]
          /\ row.content = <<files[id], text[files[id]]>>
        BY <1>2, <1>3, <1>4, <2>1
    <2>3. row = [id |-> row.id, path |-> row.path, content |-> row.content]
        BY <2>2 DEF FileRow
    <2> QED
        BY <2>1, <2>2, <2>3
<1>5. ASSUME NEW unit \in Range(work'["translationunit"]), NEW row1 \in rows, NEW row2 \in rows,
             unit.file = row1.id, row2.path = row1.path
      PROVE  row1.id <= row2.id
    <2>1. unit.id \in DOMAIN units /\ units[unit.id].file = unit.file
        BY <1>1 DEF SnapshotInv, IdInv, Lists, StoreInv, UnitsAgree, Ids
    <2>2. row2.id \in DOMAIN files /\ files[row2.id] = row2.path /\ files[row1.id] = row1.path
        BY <1>2 DEF Ids
    <2> QED
        BY <1>1, <1>5, <2>1, <2>2 DEF FirstFiles
<1> QED
    BY <1>4, <1>5

(* The one flush of a scan comes between the last file and the copy, so when the copy returns
   every file of the solution that exists has its text in the database, in each place of its
   path, and every unit has the row of the first of them: for every solution, and wherever
   commits fail or the scan is stopped (Scanner::initSnapshot, openSln, addFilesContent). *)
THEOREM ScansCopyAll == ScanSpec => ScanCopiesAll
<1>1. ScanInit => SnapshotInv /\ ScanInv /\ Copied
    <2>1. ScanInit => Copied
        BY DEF ScanInit, InitFor, Copied
    <2> QED
        BY <2>1, ScanInvInit
<1>2. SnapshotInv /\ ScanInv /\ Copied /\ [Scanning]_<<vars, cacheVars, todo>>
        => (SnapshotInv /\ ScanInv /\ Copied)'
    <2> SUFFICES ASSUME SnapshotInv, ScanInv, Copied, [Scanning]_<<vars, cacheVars, todo>>
                 PROVE  (SnapshotInv /\ ScanInv /\ Copied)'
        OBVIOUS
    <2>1. StepKind
        BY ScanKinds
    <2> QED
        BY <2>1, SnapshotInvStep, ScanInvStep, CopiedStep
<1>3. SnapshotInv /\ ScanInv /\ Copied /\ [Scanning]_<<vars, cacheVars, todo>>
        => [todo # Null /\ copying # 0 /\ copying' = 0 /\ isOpen' =>
              LET rows == Range(work'["file"])
              IN  /\ \A id \in DOMAIN files : text[files[id]] # Null =>
                        [id |-> id, path |-> files[id], content |-> <<files[id], text[files[id]]>>] \in rows
                  /\ \A unit \in Range(work'["translationunit"]) : \A row1, row2 \in rows :
                        unit.file = row1.id /\ row2.path = row1.path => row1.id <= row2.id]_<<vars, todo>>
    <2> SUFFICES ASSUME SnapshotInv, ScanInv, Copied, [Scanning]_<<vars, cacheVars, todo>>,
                        copying # 0, copying' = 0, isOpen'
                 PROVE  LET rows == Range(work'["file"])
                        IN  /\ \A id \in DOMAIN files : text[files[id]] # Null =>
                                  [id |-> id, path |-> files[id],
                                   content |-> <<files[id], text[files[id]]>>] \in rows
                            /\ \A unit \in Range(work'["translationunit"]) : \A row1, row2 \in rows :
                                  unit.file = row1.id /\ row2.path = row1.path => row1.id <= row2.id
        OBVIOUS
    <2>1. StepKind
        BY ScanKinds
    <2>2. SnapshotInv' /\ ScanInv'
        BY <2>1, SnapshotInvStep, ScanInvStep
    <2>3. CopyFile
        BY <2>1, CopyingOnly
    <2> QED
        BY <2>2, <2>3, ScanCopyEnds
<1> QED
    BY <1>1, <1>2, <1>3, PTL DEF ScanSpec, ScanCopiesAll
=============================================================================
