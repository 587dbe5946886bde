----------------------------- MODULE PageProofs -----------------------------
(***************************************************************************)
(* Theorems about what a browser reads on the pages of files and of        *)
(* symbols, whatever the snapshot holds and in whatever order its rows     *)
(* come.                                                                   *)
(*                                                                         *)
(* What a browser has read is a fold over the marks of the stream; the     *)
(* writer and the browser agree on the elements they are in and on the tag *)
(* that is open (Tidy), so what will have been read when all the calls of  *)
(* the writer are made (Shown) is known when they are handed over. Lists   *)
(* of calls add a text where they are (Adds), or lead elsewhere on the     *)
(* page (Leads).                                                           *)
(*                                                                         *)
(* The page of a symbol rests on the same. Its invariant (SymbolInv) says  *)
(* what extracting has left of the rows (TakenOut), which cells there are  *)
(* for the uses before the place it is at (Drawn), and how many links to   *)
(* each line have been put out or handed over (Linked).                    *)
(*                                                                         *)
(* The references that are written as notes, and the table of definitions, *)
(* are the subject of ExporterProofs; the columns of the tokens (TokenInv) *)
(* are needed in both.                                                     *)
(***************************************************************************)
EXTENDS SymbolPage, SequenceLemmas, TLAPS
-----------------------------------------------------------------------------
Step == [PagesNext]_<<tableVars, pageVars, symbolVars>>

(* The rows do not change while the snapshot is exported. *)
RowsInv == db \in Database

LEMMA RowsStay == PagesSpec => []RowsInv
<1>1. PagesInit => RowsInv
  BY DEF PagesInit, PageInit, RowsInv
<1>2. RowsInv /\ Step => RowsInv'
  <2> SUFFICES ASSUME RowsInv, Step PROVE db' = db
    BY DEF RowsInv
  <2>1. CASE PageNext
    BY <2>1 DEF PageNext, pageVars, FillTable, Load, Simplify, EraseTail, WriteHead, BeginLine, EndLine,
         WritePage, WriteInclude, WriteReference, ReadPastEnd, WriteToken, MakeCall
  <2>2. CASE SymbolPageNext
    BY <2>2 DEF SymbolPageNext
  <2>3. CASE UNCHANGED <<tableVars, pageVars, symbolVars>>
    BY <2>3 DEF pageVars
  <2> QED
    BY <2>1, <2>2, <2>3 DEF Step, PagesNext
<1> QED
  BY <1>1, <1>2, PTL DEF PagesSpec, Step

TokenInv ==
    /\ line \in 0..Len(Tokens)
    /\ step = "tokens" =>
          /\ line \in DOMAIN Tokens /\ tok \in 1..Len(Tokens[line]) + 1 /\ col \in Nat
          /\ \A k \in tok..Len(Tokens[line]) : col <= Tokens[line][k].col

(* The tokens of a line. *)
LEMMA TokensOfLine ==
    ASSUME NEW l \in DOMAIN Tokens
    PROVE  /\ Len(Tokens[l]) \in Nat /\ DOMAIN Tokens[l] = 1..Len(Tokens[l])
           /\ \A k \in 1..Len(Tokens[l]) : Tokens[l][k].col \in Nat /\ Tokens[l][k].width \in Nat
           /\ \A j, k \in 1..Len(Tokens[l]) :
                 j < k => Tokens[l][j].col + Tokens[l][j].width <= Tokens[l][k].col
<1>1. Tokens[l] \in Seq(Token)
  BY PageAssumption
<1>2. Len(Tokens[l]) \in Nat /\ DOMAIN Tokens[l] = 1..Len(Tokens[l])
  BY <1>1
<1>3. \A k \in DOMAIN Tokens[l] : Tokens[l][k] \in Token
  BY <1>1
<1>4. \A t \in Token : t.col \in Nat /\ t.width \in Nat
  BY DEF Token
<1>5. \A j, k \in DOMAIN Tokens[l] :
          j < k => Tokens[l][j].col + Tokens[l][j].width <= Tokens[l][k].col
  BY PageAssumption
<1> QED
  BY <1>2, <1>3, <1>4, <1>5, Zenon

(* A token is written where the line has it: writing never runs ahead of the columns. *)
LEMMA TokensPut ==
    ASSUME TokenInv, AtToken, NEW n \in 1..2, tok + n - 1 <= Len(Tokens[line]),
           NEW before, NEW after, Put(n, before, after), UNCHANGED <<step, line>>
    PROVE  TokenInv' /\ Indented = This.col
<1>1. /\ step = "tokens" /\ line \in DOMAIN Tokens /\ tok \in 1..Len(Tokens[line])
      /\ col \in Nat /\ \A k \in tok..Len(Tokens[line]) : col <= Tokens[line][k].col
      /\ Len(Tokens[line]) \in Nat
  <2>1. line \in DOMAIN Tokens => Len(Tokens[line]) \in Nat
    BY TokensOfLine
  <2> QED
    BY <2>1 DEF TokenInv, AtToken
<1>2. \A k \in 1..Len(Tokens[line]) :
          Tokens[line][k].col \in Nat /\ Tokens[line][k].width \in Nat
  BY <1>1, TokensOfLine
<1>3. \A j, k \in 1..Len(Tokens[line]) :
          j < k => Tokens[line][j].col + Tokens[line][j].width <= Tokens[line][k].col
  BY <1>1, TokensOfLine
<1>4. Indented = Tokens[line][tok].col
  <2>1. col <= Tokens[line][tok].col
    BY <1>1
  <2> QED
    BY <1>1, <1>2, <2>1 DEF Indented, This
<1>5. /\ tok' = tok + n
      /\ col' = Tokens[line][tok].col + Tokens[line][tok].width
                    + (IF n = 2 THEN Tokens[line][tok + 1].width ELSE 0)
  BY <1>4 DEF Put, This
<1>6. tok' \in 1..Len(Tokens[line]) + 1 /\ col' \in Nat
  <2>1. n = 2 => tok + 1 \in 1..Len(Tokens[line])
    BY <1>1
  <2>2. col' \in Nat
    <3>1. Tokens[line][tok].col + Tokens[line][tok].width \in Nat
      BY <1>1, <1>2
    <3>2. n = 2 => Tokens[line][tok + 1].width \in Nat
      BY <1>2, <2>1
    <3> QED
      BY <1>5, <3>1, <3>2
  <2> QED
    BY <1>1, <1>5, <2>2
<1>7. ASSUME NEW k \in tok'..Len(Tokens[line]) PROVE col' <= Tokens[line][k].col
  <2>1. k \in 1..Len(Tokens[line]) /\ tok + n <= k
    BY <1>1, <1>5, <1>6
  <2>2. CASE n = 1
    BY <1>1, <1>2, <1>3, <1>5, <2>1, <2>2
  <2>3. CASE n = 2
    <3>1. /\ tok + 1 \in 1..Len(Tokens[line]) /\ tok < tok + 1 /\ tok + 1 < k
      BY <1>1, <2>1, <2>3
    <3>2. /\ Tokens[line][tok].col + Tokens[line][tok].width <= Tokens[line][tok + 1].col
          /\ Tokens[line][tok + 1].col + Tokens[line][tok + 1].width <= Tokens[line][k].col
      BY <1>1, <1>3, <2>1, <3>1
    <3>3. col' = Tokens[line][tok].col + Tokens[line][tok].width + Tokens[line][tok + 1].width
      BY <1>5, <2>3
    <3>4. /\ Tokens[line][tok].col \in Nat /\ Tokens[line][tok].width \in Nat
          /\ Tokens[line][tok + 1].col \in Nat /\ Tokens[line][tok + 1].width \in Nat
          /\ Tokens[line][k].col \in Nat
      BY <1>1, <1>2, <2>1, <3>1, Zenon
    <3> DEFINE first == Tokens[line][tok]
               second == Tokens[line][tok + 1]
               third == Tokens[line][k]
    <3> HIDE DEF first, second, third
    <3>5. /\ first.col \in Nat /\ first.width \in Nat /\ second.col \in Nat /\ second.width \in Nat
          /\ third.col \in Nat
          /\ first.col + first.width <= second.col /\ second.col + second.width <= third.col
      BY <3>2, <3>4 DEF first, second, third
    <3>6. first.col + first.width + second.width <= third.col
      BY <3>5
    <3>7. col' = first.col + first.width + second.width
      BY <3>3 DEF first, second
    <3> QED
      BY <3>6, <3>7 DEF third
  <2> QED
    BY <2>2, <2>3
<1> QED
  BY <1>1, <1>4, <1>6, <1>7 DEF TokenInv, This

-----------------------------------------------------------------------------
(* WHAT A BROWSER READS: a fold over the marks of the stream, or over the calls they
   are put out by. *)

(* What a browser makes of the marks of one call, if the writer is in the tag it is in. *)
Seal(r) == IF r.inTag THEN Read(r, Mark("seal", <<>>)) ELSE r

Made(r, c) ==
    CASE c.call = "start" -> Read(Seal(r), Mark("open", c.arg))
      [] c.call = "end" -> IF r.inTag THEN Read(r, Mark("empty", <<>>))
                           ELSE Read(r, Mark("close", r.open[Len(r.open)]))
      [] c.call = "attribute" -> Read(r, Mark("attribute", c.arg))
      [] c.call = "characters" -> Read(Seal(r), Mark("text", c.arg))
      [] OTHER -> Read(r, Mark("bytes", c.arg))

(* what becomes of r when a list of marks is read, or a list of calls is made *)
Take(how, r, e) == IF how = "read" THEN Read(r, e) ELSE Made(r, e)

Followed(how, r, list) ==
    LET upTo[n \in 0..Len(list)] == IF n = 0 THEN r ELSE Take(how, upTo[n - 1], list[n])
    IN  upTo[Len(list)]

(* The function that Followed is defined by. *)
IsFollowing(f, how, r, seq) ==
    f = [n \in 0..Len(seq) |-> IF n = 0 THEN r ELSE Take(how, f[n - 1], seq[n])]

(* There is one, and the one of a longer list agrees with it as far as it goes. *)
LEMMA FollowingExists ==
    ASSUME NEW how, NEW r, NEW E
    PROVE  \A n \in Nat : \A seq \in Seq(E) : Len(seq) = n => \E f : IsFollowing(f, how, r, seq)
<1> DEFINE T == {n \in Nat : \A seq \in Seq(E) :
                               Len(seq) = n => \E f : IsFollowing(f, how, r, seq)}
<1>1. 0 \in T
  <2> SUFFICES ASSUME NEW seq \in Seq(E), Len(seq) = 0 PROVE \E f : IsFollowing(f, how, r, seq)
    OBVIOUS
  <2>1. IsFollowing([n \in 0..0 |-> r], how, r, seq)
    BY DEF IsFollowing
  <2> QED
    BY <2>1
<1>2. ASSUME NEW n \in Nat, n \in T PROVE n + 1 \in T
  <2> SUFFICES ASSUME NEW seq \in Seq(E), Len(seq) = n + 1
                 PROVE \E f : IsFollowing(f, how, r, seq)
    OBVIOUS
  <2> DEFINE front == SubSeq(seq, 1, n)
  <2>1. front \in Seq(E) /\ Len(front) = n /\ \A k \in 1..n : front[k] = seq[k]
    OBVIOUS
  <2> HIDE DEF front
  <2>2. PICK f : IsFollowing(f, how, r, front)
    BY <1>2, <2>1
  <2> DEFINE g == [m \in 0..n + 1 |-> IF m <= n THEN f[m] ELSE Take(how, f[n], seq[n + 1])]
  <2>3. \A m \in 0..n : f[m] = IF m = 0 THEN r ELSE Take(how, f[m - 1], seq[m])
    <3> TAKE m \in 0..n
    <3>1. f[m] = IF m = 0 THEN r ELSE Take(how, f[m - 1], front[m])
      BY <2>1, <2>2, Zenon DEF IsFollowing
    <3> QED
      BY <2>1, <3>1
  <2>4. \A m \in 0..n + 1 : g[m] = IF m = 0 THEN r ELSE Take(how, g[m - 1], seq[m])
    <3> TAKE m \in 0..n + 1
    <3>1. CASE m <= n
      <4>1. m \in 0..n /\ g[m] = f[m] /\ (m # 0 => m - 1 \in 0..n + 1 /\ m - 1 <= n)
        BY <3>1
      <4>2. m # 0 => g[m - 1] = f[m - 1]
        BY <4>1
      <4> QED
        BY <2>3, <4>1, <4>2
    <3>2. CASE m = n + 1
      <4>1. n \in 0..n + 1 /\ m - 1 = n /\ m # 0 /\ ~(m <= n)
        BY <3>2
      <4>2. g[m - 1] = f[n]
        BY <4>1
      <4>3. g[m] = Take(how, f[n], seq[n + 1])
        BY <4>1
      <4> QED
        BY <3>2, <4>1, <4>2, <4>3
    <3> QED
      BY <3>1, <3>2
  <2>5. IsFollowing(g, how, r, seq)
    <3> HIDE DEF g
    <3> DEFINE h == [m \in 0..Len(seq) |-> IF m = 0 THEN r ELSE Take(how, g[m - 1], seq[m])]
    <3>1. DOMAIN g = 0..n + 1
      BY DEF g
    <3>2. DOMAIN h = 0..n + 1 /\ \A m \in 0..n + 1 : g[m] = h[m]
      BY <2>4
    <3>3. g = [m \in DOMAIN g |-> g[m]]
      BY DEF g
    <3>4. h = [m \in DOMAIN h |-> h[m]]
      OBVIOUS
    <3>5. g = h
      BY <3>1, <3>2, <3>3, <3>4
    <3> QED
      BY <3>5 DEF IsFollowing
  <2> QED
    BY <2>5
<1> HIDE DEF T
<1>3. Nat \subseteq T
  BY <1>1, <1>2, NatByInduction
<1> QED
  BY <1>3 DEF T

LEMMA FollowingFunction ==
    ASSUME NEW how, NEW r, NEW E, NEW seq \in Seq(E)
    PROVE  \E f : IsFollowing(f, how, r, seq) /\ Followed(how, r, seq) = f[Len(seq)]
<1> DEFINE f == CHOOSE f : IsFollowing(f, how, r, seq)
<1>1. \E g : IsFollowing(g, how, r, seq)
  <2>1. Len(seq) \in Nat
    OBVIOUS
  <2> QED
    BY <2>1, FollowingExists, Zenon
<1>2. IsFollowing(f, how, r, seq)
  BY <1>1
<1>3. Followed(how, r, seq) = f[Len(seq)]
  BY DEF Followed, IsFollowing
<1> QED
  BY <1>2, <1>3, Zenon

LEMMA FollowingsAgree ==
    ASSUME NEW how, NEW r, NEW E, NEW seq \in Seq(E), NEW longer \in Seq(E),
           Len(seq) <= Len(longer), \A k \in DOMAIN seq : seq[k] = longer[k],
           NEW f, IsFollowing(f, how, r, seq), NEW g, IsFollowing(g, how, r, longer)
    PROVE  \A n \in 0..Len(seq) : f[n] = g[n]
<1> DEFINE T == {n \in Nat : n <= Len(seq) => f[n] = g[n]}
<1>1. 0 \in T
  BY DEF IsFollowing
<1>2. ASSUME NEW n \in Nat, n \in T PROVE n + 1 \in T
  <2> SUFFICES ASSUME n + 1 <= Len(seq) PROVE f[n + 1] = g[n + 1]
    OBVIOUS
  <2>1. f[n] = g[n] /\ n + 1 \in 1..Len(seq) /\ seq[n + 1] = longer[n + 1]
    BY <1>2
  <2>2. /\ n + 1 \in 0..Len(seq) /\ n + 1 \in 0..Len(longer) /\ n + 1 # 0
          /\ (n + 1) - 1 = n
    BY <2>1
  <2>3. f[n + 1] = Take(how, f[n], seq[n + 1])
    BY <2>2 DEF IsFollowing
  <2>4. g[n + 1] = Take(how, g[n], longer[n + 1])
    BY <2>2 DEF IsFollowing
  <2> QED
    BY <2>1, <2>3, <2>4
<1> HIDE DEF T
<1>3. Nat \subseteq T
  BY <1>1, <1>2, NatByInduction, Zenon
<1> QED
  BY <1>3 DEF T

(* Followed takes one element after the other. *)
LEMMA FollowedNone == ASSUME NEW how, NEW r PROVE Followed(how, r, <<>>) = r
<1>1. <<>> \in Seq({}) /\ Len(<<>>) = 0
  OBVIOUS
<1>2. PICK f : IsFollowing(f, how, r, <<>>) /\ Followed(how, r, <<>>) = f[Len(<<>>)]
  BY <1>1, FollowingFunction, Zenon
<1>3. f[0] = r
  BY <1>1, <1>2 DEF IsFollowing
<1> QED
  BY <1>1, <1>2, <1>3

LEMMA FollowedAppend ==
    ASSUME NEW how, NEW r, NEW E, NEW seq \in Seq(E), NEW e \in E
    PROVE  Followed(how, r, Append(seq, e)) = Take(how, Followed(how, r, seq), e)
<1> DEFINE longer == Append(seq, e)
<1>1. /\ longer \in Seq(E) /\ Len(longer) = Len(seq) + 1 /\ longer[Len(seq) + 1] = e
      /\ Len(seq) \in Nat /\ \A k \in DOMAIN seq : seq[k] = longer[k]
  OBVIOUS
<1> HIDE DEF longer
<1>2. PICK f : IsFollowing(f, how, r, seq) /\ Followed(how, r, seq) = f[Len(seq)]
  BY FollowingFunction
<1>3. PICK g : IsFollowing(g, how, r, longer) /\ Followed(how, r, longer) = g[Len(longer)]
  BY <1>1, FollowingFunction
<1>4. f[Len(seq)] = g[Len(seq)]
  <2>1. Len(seq) <= Len(longer) /\ Len(seq) \in 0..Len(seq)
    BY <1>1
  <2>2. longer \in Seq(E) /\ \A k \in DOMAIN seq : seq[k] = longer[k]
    BY <1>1
  <2>3. IsFollowing(f, how, r, seq) /\ IsFollowing(g, how, r, longer)
    BY <1>2, <1>3
  <2> QED
    BY <2>1, <2>2, <2>3, FollowingsAgree
<1> DEFINE m == Len(seq) + 1
<1>5. g[m] = Take(how, g[m - 1], longer[m])
  <2>1. m \in 0..Len(longer) /\ m # 0
    BY <1>1
  <2> HIDE DEF m
  <2>2. g = [n \in 0..Len(longer) |-> IF n = 0 THEN r ELSE Take(how, g[n - 1], longer[n])]
    BY <1>3, Zenon DEF IsFollowing
  <2> QED
    BY <2>1, <2>2, Zenon
<1>6. (Len(seq) + 1) - 1 = Len(seq)
  BY <1>1
<1> QED
  BY <1>1, <1>2, <1>3, <1>4, <1>5, <1>6 DEF longer

(* Two lists, one after the other. *)
LEMMA FollowedJoined ==
    ASSUME NEW how, NEW r, NEW E, NEW q \in Seq(E), NEW s \in Seq(E)
    PROVE  Followed(how, r, q \o s) = Followed(how, Followed(how, r, q), s)
<1> DEFINE mid == Followed(how, r, q)
           T == {p \in Seq(E) : Followed(how, r, q \o p) = Followed(how, mid, p)}
<1>1. <<>> \in T
  <2>1. q \o <<>> = q /\ <<>> \in Seq(E)
    OBVIOUS
  <2> QED
    BY <2>1, FollowedNone
<1>2. ASSUME NEW p \in Seq(E), p \in T, NEW e \in E PROVE Append(p, e) \in T
  <2>1. q \o Append(p, e) = Append(q \o p, e) /\ q \o p \in Seq(E) /\ Append(p, e) \in Seq(E)
    BY AppendBehind
  <2> DEFINE both == q \o p
  <2> HIDE DEF both
  <2>2. both \in Seq(E)
    BY <2>1 DEF both
  <2>4. Followed(how, r, Append(both, e)) = Take(how, Followed(how, r, both), e)
    BY <2>2, FollowedAppend
  <2>3. Followed(how, mid, Append(p, e)) = Take(how, Followed(how, mid, p), e)
    BY FollowedAppend
  <2> QED
    BY <1>2, <2>1, <2>3, <2>4, Zenon DEF both
<1> HIDE DEF T
<1>3. Seq(E) \subseteq T
  BY <1>1, <1>2, SeqByInduction
<1> QED
  BY <1>3 DEF T

LEMMA FollowedOne == ASSUME NEW how, NEW r, NEW e PROVE Followed(how, r, <<e>>) = Take(how, r, e)
<1> DEFINE none == <<>>
           E == {e}
<1>1. none \in Seq(E) /\ e \in E
  OBVIOUS
<1>4. Append(none, e) = <<e>>
  OBVIOUS
<1>2. Followed(how, r, none) = r
  BY FollowedNone
<1> HIDE DEF none, E
<1>3. Followed(how, r, Append(none, e)) = Take(how, Followed(how, r, none), e)
  BY <1>1, FollowedAppend
<1> QED
  BY <1>2, <1>3, <1>4

(* A reading is what becomes of Unread. *)
LEMMA ReadingIs ==
    ASSUME NEW E, NEW marks \in Seq(E)
    PROVE  ReadingOf(marks) = Followed("read", Unread, marks)
<1> DEFINE Is(f) == f = [k \in 0..Len(marks) |->
                            IF k = 0 THEN Unread ELSE LET before == f[k - 1] IN Read(before, marks[k])]
           g == CHOOSE f : Is(f)
<1>1. PICK f : IsFollowing(f, "read", Unread, marks) /\ Followed("read", Unread, marks) = f[Len(marks)]
  BY FollowingFunction
<1>2. \A h : Is(h) <=> IsFollowing(h, "read", Unread, marks)
  BY DEF IsFollowing, Take
<1>3. IsFollowing(g, "read", Unread, marks)
  <2> HIDE DEF Is
  <2>1. Is(f)
    BY <1>1, <1>2
  <2>2. Is(g)
    BY <2>1
  <2> QED
    BY <1>2, <2>2
<1>4. ReadingOf(marks) = g[Len(marks)]
  BY DEF ReadingOf
<1> HIDE DEF g
<1>5. Len(marks) \in Nat /\ Len(marks) <= Len(marks)
  OBVIOUS
<1>6. \A n \in 0..Len(marks) : f[n] = g[n]
  BY <1>1, <1>3, <1>5, FollowingsAgree
<1> QED
  BY <1>1, <1>4, <1>5, <1>6
AList(q) == \E S : q \in Seq(S)

LEMMA ListsJoined ==
    ASSUME NEW q, AList(q), NEW s, AList(s)
    PROVE  /\ AList(q \o s)
           /\ \A how, r : Followed(how, r, q \o s) = Followed(how, Followed(how, r, q), s)
<1>1. PICK S : q \in Seq(S)
  BY DEF AList
<1>2. PICK U : s \in Seq(U)
  BY DEF AList
<1> DEFINE E == S \cup U
<1>3. q \in Seq(E) /\ s \in Seq(E)
  BY <1>1, <1>2
<1> HIDE DEF E
<1>4. q \o s \in Seq(E)
  BY <1>3
<1>5. ASSUME NEW how, NEW r PROVE Followed(how, r, q \o s) = Followed(how, Followed(how, r, q), s)
  BY <1>3, FollowedJoined
<1> QED
  BY <1>4, <1>5 DEF AList

-----------------------------------------------------------------------------
(* What each mark does to the fields of a reading. *)

Fields == {"open", "inTag", "good", "depth", "cells"}

IsReading(r) == r = [f \in Fields |-> r[f]] /\ r.inTag \in BOOLEAN

(* what a mark does to r, whether it is good there or not *)
Marked(r, mark, next, fits) ==
    LET s == Read(r, mark)
    IN  /\ IsReading(s) /\ (s.good <=> r.good /\ fits)
        /\ s.open = next.open /\ s.inTag = next.inTag /\ s.depth = next.depth /\ s.cells = next.cells

LEMMA ReadFields ==
    ASSUME NEW r, NEW mark, NEW next, IsReading(next), NEW good, NEW fits, good <=> r.good /\ fits,
           Read(r, mark) = [next EXCEPT !.good = good]
    PROVE  Marked(r, mark, next, fits)
<1> DEFINE s == Read(r, mark)
<1>1. /\ s = [f \in Fields |-> s[f]] /\ (s.good <=> good) /\ s.open = next.open /\ s.inTag = next.inTag
      /\ s.depth = next.depth /\ s.cells = next.cells
  BY DEF Fields, IsReading
<1> HIDE DEF s
<1>2. IsReading(s)
  BY <1>1 DEF IsReading
<1> QED
  BY <1>1, <1>2 DEF Marked, s

(* What each mark does to the fields of a reading. *)
LEMMA ReadOpen ==
    ASSUME NEW r, IsReading(r), NEW name
    PROVE  LET s == Read(r, Mark("open", name))
           IN  /\ IsReading(s) /\ s.inTag /\ (s.good <=> r.good /\ ~r.inTag)
               /\ s.open = Append(r.open, name)
               /\ name # "td" => s.depth = r.depth /\ s.cells = r.cells
               /\ name = "td" => s.depth = Len(r.open) + 1 /\ s.cells = Append(r.cells, <<>>)
<1> DEFINE in == [r EXCEPT !.open = Append(@, name), !.inTag = TRUE]
           next == IF name = "td" THEN Enter(in, Len(r.open) + 1) ELSE in
           mark == Mark("open", name)
           good == /\ r.good /\ Harmless(mark) /\ r.inTag = InTag(mark)
                   /\ (mark.kind = "close" => r.open # <<>> /\ r.open[Len(r.open)] = mark.what)
<1>1. /\ in = [f \in Fields |-> in[f]] /\ in.open = Append(r.open, name) /\ in.inTag
      /\ in.depth = r.depth /\ in.cells = r.cells
  BY Zenon DEF IsReading, Fields
<1>2. in.inTag = TRUE
  BY DEF IsReading, Fields
<1> HIDE DEF in
<1>3. /\ next = [f \in Fields |-> next[f]] /\ next.open = Append(r.open, name) /\ next.inTag = TRUE
      /\ name # "td" => next.depth = r.depth /\ next.cells = r.cells
      /\ name = "td" => next.depth = Len(r.open) + 1 /\ next.cells = Append(r.cells, <<>>)
  BY <1>1, <1>2, Zenon DEF Enter, Fields
<1>4. Harmless(mark) /\ ~InTag(mark) /\ mark.kind = "open" /\ mark.what = name
  BY DEF Harmless, InTag, Mark
<1> HIDE DEF mark
<1>5. Read(r, mark) = [next EXCEPT !.good = good]
  BY <1>4, Zenon DEF Read, in
<1>6. good <=> r.good /\ ~r.inTag
  BY <1>4 DEF IsReading, InTag
<1> HIDE DEF next, good
<1>7. Marked(r, mark, next, ~r.inTag)
  BY <1>3, <1>5, <1>6, ReadFields, Zenon DEF IsReading
<1> QED
  BY <1>3, <1>7, Zenon DEF mark, Marked

LEMMA ReadSeal ==
    ASSUME NEW r, IsReading(r), r.inTag
    PROVE  LET s == Read(r, Mark("seal", <<>>))
           IN  /\ IsReading(s) /\ ~s.inTag /\ (s.good <=> r.good)
               /\ s.open = r.open /\ s.depth = r.depth /\ s.cells = r.cells
<1> DEFINE next == [r EXCEPT !.inTag = FALSE]
           mark == Mark("seal", <<>>)
           good == /\ r.good /\ Harmless(mark) /\ r.inTag = InTag(mark)
                   /\ (mark.kind = "close" => r.open # <<>> /\ r.open[Len(r.open)] = mark.what)
<1>1. /\ next = [f \in Fields |-> next[f]] /\ next.inTag = FALSE
      /\ next.open = r.open /\ next.depth = r.depth /\ next.cells = r.cells
  BY Zenon DEF IsReading, Fields
<1>2. Harmless(mark) /\ InTag(mark) /\ mark.kind = "seal"
  BY DEF Harmless, InTag, Mark
<1> HIDE DEF mark
<1>3. Read(r, mark) = [next EXCEPT !.good = good]
  BY <1>2, Zenon DEF Read
<1>4. good <=> r.good /\ TRUE
  BY <1>2 DEF IsReading, InTag
<1> HIDE DEF next, good
<1>5. Marked(r, mark, next, TRUE)
  BY <1>1, <1>3, <1>4, ReadFields, Zenon DEF IsReading
<1> QED
  BY <1>1, <1>5 DEF mark, Marked

(* Either end of an element leaves it; the close names it. *)
LEMMA ReadEnd ==
    ASSUME NEW r, IsReading(r), r.open # <<>>,
           NEW mark, mark = IF r.inTag THEN Mark("empty", <<>>) ELSE Mark("close", r.open[Len(r.open)])
    PROVE  LET s == Read(r, mark)
           IN  /\ IsReading(s) /\ ~s.inTag /\ (s.good <=> r.good)
               /\ s.open = SubSeq(r.open, 1, Len(r.open) - 1)
               /\ s.depth = IF r.depth = Len(r.open) THEN 0 ELSE r.depth
               /\ s.cells = r.cells
<1> DEFINE next == Leave(r)
           good == /\ r.good /\ Harmless(mark) /\ r.inTag = InTag(mark)
                   /\ (mark.kind = "close" => r.open # <<>> /\ r.open[Len(r.open)] = mark.what)
<1>1. /\ next = [f \in Fields |-> next[f]] /\ next.inTag = FALSE
      /\ next.open = SubSeq(r.open, 1, Len(r.open) - 1)
      /\ next.depth = IF r.depth = Len(r.open) THEN 0 ELSE r.depth
      /\ next.cells = r.cells
  BY Zenon DEF IsReading, Fields, Leave
<1>2. /\ Harmless(mark) /\ (InTag(mark) <=> r.inTag) /\ mark.kind \in {"empty", "close"}
      /\ (mark.kind = "close" => mark.what = r.open[Len(r.open)])
  BY DEF Harmless, InTag, Mark
<1>3. Read(r, mark) = [next EXCEPT !.good = good]
  <2> HIDE DEF next
  <2> QED
    BY <1>2, Zenon DEF Read, next
<1>4. good <=> r.good /\ TRUE
  BY <1>2 DEF IsReading, InTag
<1> HIDE DEF next, good
<1>5. Marked(r, mark, next, TRUE)
  BY <1>1, <1>3, <1>4, ReadFields, Zenon DEF IsReading
<1> QED
  BY <1>1, <1>5, Zenon DEF Marked

LEMMA ReadAttribute ==
    ASSUME NEW r, IsReading(r), r.inTag, NEW a, a.name = "class" /\ a.value = "code" => r.open[Len(r.open)] # "div"
    PROVE  LET s == Read(r, Mark("attribute", a))
           IN  /\ IsReading(s) /\ s.inTag /\ (s.good <=> r.good /\ ~a.quote)
               /\ s.open = r.open /\ s.depth = r.depth /\ s.cells = r.cells
<1> DEFINE mark == Mark("attribute", a)
           good == /\ r.good /\ Harmless(mark) /\ r.inTag = InTag(mark)
                   /\ (mark.kind = "close" => r.open # <<>> /\ r.open[Len(r.open)] = mark.what)
<1>1. (Harmless(mark) <=> ~a.quote) /\ InTag(mark) /\ mark.kind = "attribute" /\ mark.what = a
  BY DEF Harmless, InTag, Mark
<1> HIDE DEF mark
<1>2. Read(r, mark) = [r EXCEPT !.good = good]
  BY <1>1, Zenon DEF Read
<1>3. good <=> r.good /\ ~a.quote
  BY <1>1 DEF IsReading, InTag
<1> HIDE DEF good
<1>4. Marked(r, mark, r, ~a.quote)
  BY <1>2, <1>3, ReadFields, Zenon
<1> QED
  BY <1>4, Zenon DEF mark, Marked

LEMMA ReadBytes ==
    ASSUME NEW r, IsReading(r), ~r.inTag, NEW what, what # "broken"
    PROVE  LET s == Read(r, Mark("bytes", what))
           IN  /\ IsReading(s) /\ ~s.inTag /\ (s.good <=> r.good)
               /\ s.open = r.open /\ s.depth = r.depth /\ s.cells = r.cells
<1> DEFINE mark == Mark("bytes", what)
           good == /\ r.good /\ Harmless(mark) /\ r.inTag = InTag(mark)
                   /\ (mark.kind = "close" => r.open # <<>> /\ r.open[Len(r.open)] = mark.what)
<1>1. Harmless(mark) /\ ~InTag(mark) /\ mark.kind = "bytes"
  BY DEF Harmless, InTag, Mark
<1> HIDE DEF mark
<1>2. Read(r, mark) = [r EXCEPT !.good = good]
  BY <1>1, Zenon DEF Read
<1>3. good <=> r.good /\ TRUE
  BY <1>1 DEF IsReading, InTag
<1> HIDE DEF good
<1>4. Marked(r, mark, r, TRUE)
  BY <1>2, <1>3, ReadFields, Zenon
<1> QED
  BY <1>4 DEF mark, Marked

(* what a browser has of a text when it is in the cell it reads *)
InElement(r, text) == [k \in DOMAIN text |-> [char |-> text[k], in |-> r.open[Len(r.open)]]]

LEMMA ReadText ==
    ASSUME NEW r, IsReading(r), ~r.inTag, NEW text
    PROVE  LET s == Read(r, Mark("text", text))
           IN  /\ IsReading(s) /\ ~s.inTag /\ (s.good <=> r.good)
               /\ s.open = r.open /\ s.depth = r.depth
               /\ r.depth = 0 => s.cells = r.cells
               /\ r.depth # 0 => s.cells = [r.cells EXCEPT ![Len(r.cells)] = @ \o InElement(r, text)]
<1> DEFINE more == InElement(r, text)
           next == IF r.depth # 0 THEN [r EXCEPT !.cells[Len(r.cells)] = @ \o more] ELSE r
           mark == Mark("text", text)
           good == /\ r.good /\ Harmless(mark) /\ r.inTag = InTag(mark)
                   /\ (mark.kind = "close" => r.open # <<>> /\ r.open[Len(r.open)] = mark.what)
<1>1. Harmless(mark) /\ ~InTag(mark) /\ mark.kind = "text" /\ mark.what = text
  BY DEF Harmless, InTag, Mark
<1> HIDE DEF mark
<1>2. Read(r, mark) = [next EXCEPT !.good = good]
  BY <1>1, Zenon DEF Read, InElement
<1>3. good <=> r.good /\ TRUE
  BY <1>1 DEF IsReading, InTag
<1> HIDE DEF good, more
<1>4. /\ next = [f \in Fields |-> next[f]] /\ next.inTag = r.inTag
      /\ next.open = r.open /\ next.depth = r.depth
      /\ r.depth = 0 => next.cells = r.cells
      /\ r.depth # 0 => next.cells = [r.cells EXCEPT ![Len(r.cells)] = @ \o more]
  BY Zenon DEF IsReading, Fields
<1> HIDE DEF next
<1>5. Marked(r, mark, next, TRUE)
  BY <1>2, <1>3, <1>4, ReadFields, Zenon DEF IsReading
<1> QED
  BY <1>4, <1>5 DEF mark, Marked, more

Text(cell) == [k \in DOMAIN cell |-> cell[k].char]

Chained(p, q) == p \o q

LEMMA TextWritten ==
    ASSUME NEW r, NEW cell, AList(cell), NEW text, AList(text)
    PROVE  /\ AList(Text(cell)) /\ AList(cell \o InElement(r, text))
           /\ Text(Chained(cell, InElement(r, text))) = Chained(Text(cell), text)
<1>1. PICK S : cell \in Seq(S)
  BY DEF AList
<1>2. PICK U : text \in Seq(U)
  BY DEF AList
<1> DEFINE more == InElement(r, text)
           in == r.open[Len(r.open)]
           E == S \cup {[char |-> u, in |-> in] : u \in U}
           C == {e.char : e \in E} \cup U
           both == cell \o more
<1>3. /\ more \in Seq(E) /\ Len(more) = Len(text) /\ \A k \in 1..Len(text) : more[k].char = text[k]
  <2>1. \A k \in DOMAIN text : text[k] \in U
    BY <1>2
  <2>2. more = [k \in 1..Len(text) |-> [char |-> text[k], in |-> in]] /\ Len(text) \in Nat
    BY <1>2 DEF InElement
  <2>3. more \in [1..Len(text) -> E]
    BY <1>2, <2>1, <2>2
  <2> HIDE DEF more, E
  <2>4. more \in Seq(E) /\ Len(more) = Len(text)
    BY <2>2, <2>3
  <2>5. \A k \in 1..Len(text) : more[k].char = text[k]
    BY <2>2
  <2> QED
    BY <2>4, <2>5
<1>4. cell \in Seq(E)
  BY <1>1
<1>5. text \in Seq(C)
  BY <1>2
<1>6. \A e \in E : e.char \in C
  OBVIOUS
<1> HIDE DEF E, C, more
<1>7. /\ both \in Seq(E) /\ Len(both) = Len(cell) + Len(more) /\ DOMAIN both = 1..Len(cell) + Len(more)
      /\ \A k \in 1..Len(cell) : both[k] = cell[k]
      /\ \A k \in 1..Len(more) : both[Len(cell) + k] = more[k]
  <2>1. more \in Seq(E) /\ cell \in Seq(E)
    BY <1>3, <1>4
  <2> QED
    BY <2>1, Concatenated
<1>8. /\ Text(cell) \in Seq(C) /\ Len(Text(cell)) = Len(cell)
      /\ \A k \in 1..Len(cell) : Text(cell)[k] = cell[k].char
  <2>1. \A k \in DOMAIN cell : cell[k] \in E
    BY <1>4
  <2>2. DOMAIN cell = 1..Len(cell) /\ Len(cell) \in Nat
    BY <1>4
  <2>3. Text(cell) \in [1..Len(cell) -> C]
    BY <1>6, <2>1, <2>2 DEF Text
  <2>4. \A k \in 1..Len(cell) : Text(cell)[k] = cell[k].char
    BY <2>2 DEF Text
  <2> QED
    BY <2>2, <2>3, <2>4
<1> HIDE DEF both
<1> DEFINE t == Text(cell)
           both2 == t \o text
<1> HIDE DEF t
<1>9. /\ both2 \in Seq(C) /\ Len(both2) = Len(t) + Len(text) /\ DOMAIN both2 = 1..Len(t) + Len(text)
      /\ \A k \in 1..Len(t) : both2[k] = t[k]
      /\ \A k \in 1..Len(text) : both2[Len(t) + k] = text[k]
  <2>1. t \in Seq(C) /\ text \in Seq(C)
    BY <1>5, <1>8 DEF t
  <2> QED
    BY <2>1, Concatenated
<1> HIDE DEF both2
<1>10. Text(both) = both2
  <2>1. Len(cell) \in Nat /\ Len(text) \in Nat
    BY <1>4, <1>5
  <2>2. DOMAIN Text(both) = 1..Len(cell) + Len(text) /\ DOMAIN both2 = 1..Len(cell) + Len(text)
    BY <1>3, <1>7, <1>8, <1>9, Zenon DEF Text, t
  <2>3. ASSUME NEW k \in 1..Len(cell) + Len(text) PROVE Text(both)[k] = both2[k]
    <3>1. Text(both)[k] = both[k].char
      BY <1>3, <1>7 DEF Text
    <3>2. CASE k <= Len(cell)
      BY <1>7, <1>8, <1>9, <2>1, <3>1, <3>2 DEF t
    <3>3. CASE k > Len(cell)
      <4>1. k - Len(cell) \in 1..Len(text) /\ k = Len(cell) + (k - Len(cell))
        BY <2>1, <3>3
      <4>2. both[k] = more[k - Len(cell)] /\ both2[k] = text[k - Len(cell)]
        BY <1>3, <1>7, <1>8, <1>9, <4>1, Zenon DEF t
      <4> QED
        BY <1>3, <3>1, <4>1, <4>2
    <3> QED
      BY <2>1, <3>2, <3>3
  <2>4. Text(both) = [k \in DOMAIN Text(both) |-> Text(both)[k]]
    BY DEF Text
  <2>5. both2 = [k \in DOMAIN both2 |-> both2[k]]
    BY <1>9
  <2> QED
    BY <2>2, <2>3, <2>4, <2>5
<1>11. AList(t) /\ AList(both)
  BY <1>7, <1>8 DEF AList, t
<1>12. Text(Chained(cell, InElement(r, text))) = Chained(Text(cell), text)
  BY <1>10 DEF both, both2, more, t, Chained
<1> QED
  BY <1>11, <1>12 DEF both, more, t

-----------------------------------------------------------------------------
(* ADDING A TEXT: lists of calls that add one to the cell and leave the browser where it was. *)

(* a reading in which more can be read *)
WellRead(r) ==
    /\ IsReading(r) /\ AList(r.open) /\ AList(r.cells)
    /\ \A k \in 1..Len(r.cells) : AList(r.cells[k])
    /\ r.depth \in 0..Len(r.open) /\ (r.depth # 0 => r.cells # <<>>)

CellsGrown(r, s, text) ==
    IF r.depth = 0 THEN s.cells = r.cells
    ELSE /\ Len(s.cells) = Len(r.cells)
         /\ \A k \in 1..Len(r.cells) - 1 : s.cells[k] = r.cells[k]
         /\ Text(s.cells[Len(r.cells)]) = Text(r.cells[Len(r.cells)]) \o text

(* s has read this text more than r, in the cell it is in, if any *)
Grown(r, s, text, ok) ==
    /\ WellRead(s) /\ ~s.inTag /\ (s.good <=> r.good /\ ok)
    /\ s.open = r.open /\ s.depth = r.depth /\ CellsGrown(r, s, text)

(* A list of calls adds a text to the cell, wherever it is made. *)
Adds(list, text, ok) ==
    /\ AList(list) /\ AList(text)
    /\ \A r : WellRead(r) /\ ~r.inTag => Grown(r, Followed("make", r, list), text, ok)

LEMMA ListFacts2 ==
    ASSUME NEW q, AList(q)
    PROVE  /\ Len(q) \in Nat /\ DOMAIN q = 1..Len(q) /\ (q # <<>> => Len(q) \in 1..Len(q))
           /\ q \o <<>> = q
  BY DEF AList

LEMMA CellsStay ==
    ASSUME NEW r, WellRead(r)
    PROVE  CellsGrown(r, r, <<>>)
<1>1. CASE r.depth = 0
  BY <1>1 DEF CellsGrown
<1>2. CASE r.depth # 0
  <2>1. AList(r.cells) /\ r.cells # <<>>
    BY <1>2 DEF WellRead
  <2>2. Len(r.cells) \in 1..Len(r.cells)
    BY <2>1, ListFacts2
  <2>3. AList(Text(r.cells[Len(r.cells)]))
    <3>1. AList(r.cells[Len(r.cells)]) /\ AList(<<>>)
      <4>1. <<>> \in Seq({})
        OBVIOUS
      <4> QED
        BY <2>2, <4>1 DEF WellRead, AList
    <3> QED
      BY <3>1, TextWritten
  <2> DEFINE t == Text(r.cells[Len(r.cells)])
  <2> HIDE DEF t
  <2>4. t \o <<>> = t
    BY <2>3, ListFacts2 DEF t
  <2> QED
    BY <1>2, <2>4 DEF CellsGrown, t
<1> QED
  BY <1>1, <1>2

LEMMA GrownTwice ==
    ASSUME NEW r, NEW s, NEW t, NEW a, NEW b, NEW x, NEW y, WellRead(r), AList(a), AList(b),
           Grown(r, s, a, x), Grown(s, t, b, y)
    PROVE  Grown(r, t, a \o b, x /\ y)
<1>1. CellsGrown(r, t, a \o b)
  <2>1. CASE r.depth = 0
    BY <2>1 DEF Grown, CellsGrown
  <2>2. CASE r.depth # 0
    <3> DEFINE n == Len(r.cells)
    <3>1. /\ Len(s.cells) = n /\ Len(t.cells) = n
          /\ \A k \in 1..n - 1 : t.cells[k] = r.cells[k]
          /\ Text(s.cells[n]) = Text(r.cells[n]) \o a
          /\ Text(t.cells[n]) = Text(s.cells[n]) \o b
      BY <2>2, Zenon DEF Grown, CellsGrown
    <3>2. AList(Text(r.cells[n]))
      <4>1. AList(r.cells) /\ r.cells # <<>>
        BY <2>2 DEF WellRead
      <4>2. n \in 1..n
        BY <4>1, ListFacts2
      <4>3. AList(r.cells[n])
        BY <4>2 DEF WellRead
      <4> QED
        BY <4>3, TextWritten
    <3> DEFINE text == Text(r.cells[n])
    <3> HIDE DEF text
    <3>3. (text \o a) \o b = text \o (a \o b)
      <4>1. PICK S : text \in Seq(S)
        BY <3>2 DEF AList, text
      <4>2. PICK A : a \in Seq(A)
        BY DEF AList
      <4>3. PICK B : b \in Seq(B)
        BY DEF AList
      <4> DEFINE E == S \cup A \cup B
      <4>4. text \in Seq(E) /\ a \in Seq(E) /\ b \in Seq(E)
        BY <4>1, <4>2, <4>3
      <4> HIDE DEF E
      <4> QED
        BY <4>4, ConcatAssociative
    <3> QED
      BY <2>2, <3>1, <3>3, Zenon DEF CellsGrown, text
  <2> QED
    BY <2>1, <2>2
<1> QED
  BY <1>1 DEF Grown

LEMMA AddsNothing == Adds(<<>>, <<>>, TRUE)
<1>1. AList(<<>>)
  <2>1. <<>> \in Seq({})
    OBVIOUS
  <2> QED
    BY <2>1 DEF AList
<1>2. ASSUME NEW r, WellRead(r), ~r.inTag PROVE Grown(r, Followed("make", r, <<>>), <<>>, TRUE)
  <2>1. Followed("make", r, <<>>) = r
    BY FollowedNone
  <2> QED
    BY <1>2, <2>1, CellsStay DEF Grown
<1> QED
  BY <1>1, <1>2, Zenon DEF Adds

LEMMA AddsBoth ==
    ASSUME NEW p, NEW q, NEW a, NEW b, NEW x, NEW y, Adds(p, a, x), Adds(q, b, y)
    PROVE  Adds(p \o q, a \o b, x /\ y)
<1>1. AList(p) /\ AList(q) /\ AList(a) /\ AList(b)
  BY DEF Adds
<1>2. AList(p \o q) /\ AList(a \o b)
  BY <1>1, ListsJoined
<1>3. ASSUME NEW r, WellRead(r), ~r.inTag
      PROVE  Grown(r, Followed("make", r, p \o q), a \o b, x /\ y)
  <2> DEFINE s == Followed("make", r, p)
             t == Followed("make", s, q)
  <2>1. Grown(r, s, a, x)
    BY <1>3 DEF Adds
  <2>2. Grown(s, t, b, y)
    BY <2>1 DEF Adds, Grown
  <2>3. Followed("make", r, p \o q) = t
    BY <1>1, ListsJoined
  <2> HIDE DEF s, t
  <2>4. Grown(r, t, a \o b, x /\ y)
    BY <1>1, <1>3, <2>1, <2>2, GrownTwice
  <2> QED
    BY <2>3, <2>4
<1> QED
  BY <1>2, <1>3 DEF Adds

LEMMA OneIsList == ASSUME NEW e PROVE AList(<<e>>)
<1>1. <<e>> \in Seq({e})
  OBVIOUS
<1> QED
  BY <1>1, Zenon DEF AList

LEMMA SealedReading ==
    ASSUME NEW r, WellRead(r)
    PROVE  LET s == Seal(r)
           IN  /\ WellRead(s) /\ ~s.inTag /\ (s.good <=> r.good)
               /\ s.open = r.open /\ s.depth = r.depth /\ s.cells = r.cells
               /\ Seal(s) = s
<1> DEFINE s == Seal(r)
<1>1. /\ IsReading(s) /\ ~s.inTag /\ (s.good <=> r.good)
      /\ s.open = r.open /\ s.depth = r.depth /\ s.cells = r.cells
  BY ReadSeal DEF Seal, WellRead
<1> HIDE DEF s
<1>2. WellRead(s) /\ Seal(s) = s
  BY <1>1 DEF WellRead, Seal
<1> QED
  BY <1>1, <1>2 DEF s

Start(name) == [call |-> "start", arg |-> name]

LEMMA MadeStart ==
    ASSUME NEW r, WellRead(r), NEW name
    PROVE  LET s == Made(r, Start(name))
           IN  /\ WellRead(s) /\ s.inTag /\ (s.good <=> r.good)
               /\ s.open = Append(r.open, name) /\ Len(s.open) = Len(r.open) + 1
               /\ s.open # <<>> /\ s.open[Len(s.open)] = name
               /\ name # "td" => s.depth = r.depth /\ s.cells = r.cells
               /\ name = "td" => s.depth = Len(r.open) + 1 /\ s.cells = Append(r.cells, <<>>)
<1> DEFINE q == Seal(r)
           s == Made(r, Start(name))
<1>1. /\ WellRead(q) /\ ~q.inTag /\ (q.good <=> r.good)
      /\ q.open = r.open /\ q.depth = r.depth /\ q.cells = r.cells
  BY SealedReading
<1>2. s = Read(q, Mark("open", name))
  BY DEF Made, Start
<1> HIDE DEF q
<1>3. /\ IsReading(s) /\ s.inTag /\ (s.good <=> q.good)
      /\ s.open = Append(q.open, name)
      /\ name # "td" => s.depth = q.depth /\ s.cells = q.cells
      /\ name = "td" => s.depth = Len(q.open) + 1 /\ s.cells = Append(q.cells, <<>>)
  <2> HIDE DEF s
  <2>1. IsReading(q)
    BY <1>1 DEF WellRead
  <2> DEFINE t == Read(q, Mark("open", name))
  <2>2. /\ IsReading(t) /\ t.inTag /\ (t.good <=> q.good /\ ~q.inTag)
        /\ t.open = Append(q.open, name)
        /\ name # "td" => t.depth = q.depth /\ t.cells = q.cells
        /\ name = "td" => t.depth = Len(q.open) + 1 /\ t.cells = Append(q.cells, <<>>)
    BY <2>1, ReadOpen, Zenon
  <2> HIDE DEF t
  <2> QED
    BY <1>1, <1>2, <2>2 DEF t
<1> HIDE DEF s
<1>4. /\ AList(s.open) /\ Len(s.open) = Len(r.open) + 1 /\ Len(r.open) \in Nat
      /\ s.open[Len(s.open)] = name /\ s.open # <<>>
  <2> DEFINE o == r.open
  <2>1. PICK S : o \in Seq(S)
    BY DEF WellRead, AList
  <2> HIDE DEF o
  <2> DEFINE E == S \cup {name}
  <2>2. o \in Seq(E) /\ name \in E
    BY <2>1
  <2> HIDE DEF E
  <2>3. /\ Append(o, name) \in Seq(E) /\ Len(Append(o, name)) = Len(o) + 1 /\ Len(o) \in Nat
        /\ Append(o, name)[Len(o) + 1] = name
    BY <2>2, Appended
  <2> QED
    BY <1>1, <1>3, <2>3 DEF AList, o
<1>5. CASE name # "td"
  <2>1. WellRead(s)
    BY <1>1, <1>3, <1>4, <1>5 DEF WellRead
  <2> QED
    BY <1>1, <1>3, <1>4, <1>5, <2>1 DEF s
<1>6. CASE name = "td"
  <2> DEFINE c == r.cells
  <2>1. PICK S : c \in Seq(S)
    BY DEF WellRead, AList
  <2> DEFINE E == S \cup {<<>>}
             none == <<>>
  <2>2. c \in Seq(E) /\ none \in E /\ \A k \in 1..Len(c) : AList(c[k])
    BY <2>1 DEF WellRead
  <2>0. AList(none)
    BY AddsNothing DEF Adds
  <2> HIDE DEF E, c, none
  <2>3. /\ Append(c, none) \in Seq(E) /\ Len(Append(c, none)) = Len(c) + 1 /\ Len(c) \in Nat
        /\ Append(c, none)[Len(c) + 1] = none /\ \A k \in 1..Len(c) : Append(c, none)[k] = c[k]
    BY <2>2, Appended
  <2>4. s.cells = Append(c, none)
    BY <1>1, <1>3, <1>6 DEF c, none
  <2>5. AList(s.cells) /\ s.cells # <<>>
    BY <2>3, <2>4 DEF AList
  <2>6. \A k \in 1..Len(s.cells) : AList(s.cells[k])
    BY <2>0, <2>2, <2>3, <2>4
  <2>7. s.depth = Len(r.open) + 1
    BY <1>1, <1>3, <1>6
  <2>8. WellRead(s)
    BY <1>3, <1>4, <2>5, <2>6, <2>7 DEF WellRead
  <2> QED
    BY <1>1, <1>3, <1>4, <1>6, <2>8 DEF s
<1> QED
  BY <1>5, <1>6

TheEnd == [call |-> "end", arg |-> <<>>]

LEMMA MadeEnd ==
    ASSUME NEW r, WellRead(r), r.open # <<>>
    PROVE  LET s == Made(r, TheEnd)
           IN  /\ WellRead(s) /\ ~s.inTag /\ (s.good <=> r.good)
               /\ s.open = SubSeq(r.open, 1, Len(r.open) - 1)
               /\ s.depth = IF r.depth = Len(r.open) THEN 0 ELSE r.depth
               /\ s.cells = r.cells
<1> DEFINE s == Made(r, TheEnd)
<1>1. s = Read(r, IF r.inTag THEN Mark("empty", <<>>) ELSE Mark("close", r.open[Len(r.open)]))
  BY DEF Made, TheEnd
<1>2. /\ IsReading(s) /\ ~s.inTag /\ (s.good <=> r.good)
      /\ s.open = SubSeq(r.open, 1, Len(r.open) - 1)
      /\ s.depth = IF r.depth = Len(r.open) THEN 0 ELSE r.depth
      /\ s.cells = r.cells
  BY <1>1, ReadEnd DEF WellRead
<1> HIDE DEF s
<1>3. AList(s.open) /\ Len(s.open) = Len(r.open) - 1 /\ Len(r.open) \in Nat \ {0}
  <2> DEFINE o == r.open
  <2>1. PICK S : o \in Seq(S)
    BY DEF WellRead, AList
  <2>2. o # <<>> /\ s.open = SubSeq(o, 1, Len(o) - 1)
    BY <1>2
  <2> HIDE DEF o
  <2>3. Len(o) \in Nat \ {0}
    BY <2>1, <2>2
  <2>4. SubSeq(o, 1, Len(o) - 1) \in Seq(S) /\ Len(SubSeq(o, 1, Len(o) - 1)) = Len(o) - 1
    <3>1. Len(o) \in 1..Len(o) + 1
      BY <2>3
    <3> QED
      BY <2>1, <3>1, Halves
  <2> QED
    BY <2>2, <2>3, <2>4, Zenon DEF AList, o
<1>4. WellRead(s)
  BY <1>2, <1>3 DEF WellRead
<1> QED
  BY <1>2, <1>4 DEF s

LEMMA AddsCharacters ==
    ASSUME NEW text, AList(text)
    PROVE  Adds(Characters(text), text, TRUE)
<1> DEFINE c == [call |-> "characters", arg |-> text]
<1>1. AList(Characters(text))
  BY OneIsList DEF Characters
<1>2. ASSUME NEW r, WellRead(r), ~r.inTag
      PROVE  Grown(r, Followed("make", r, Characters(text)), text, TRUE)
  <2> DEFINE s == Followed("make", r, Characters(text))
  <2>1. s = Made(r, c)
    BY FollowedOne DEF Characters, Take
  <2>2. s = Read(r, Mark("text", text))
    BY <1>2, <2>1 DEF Made, Seal
  <2>3. /\ IsReading(s) /\ ~s.inTag /\ (s.good <=> r.good)
        /\ s.open = r.open /\ s.depth = r.depth
        /\ r.depth = 0 => s.cells = r.cells
        /\ r.depth # 0 => s.cells = [r.cells EXCEPT ![Len(r.cells)] = @ \o InElement(r, text)]
    <3>1. IsReading(r)
      BY <1>2 DEF WellRead
    <3> DEFINE t == Read(r, Mark("text", text))
    <3>2. /\ IsReading(t) /\ ~t.inTag /\ (t.good <=> r.good)
          /\ t.open = r.open /\ t.depth = r.depth
          /\ r.depth = 0 => t.cells = r.cells
          /\ r.depth # 0 => t.cells = [r.cells EXCEPT ![Len(r.cells)] = @ \o InElement(r, text)]
      BY <1>2, <3>1, ReadText
    <3> HIDE DEF s, t
    <3> QED
      BY <2>2, <3>2 DEF t
  <2> HIDE DEF s
  <2>4. CASE r.depth = 0
    BY <1>2, <2>3, <2>4 DEF Grown, WellRead, CellsGrown, s
  <2>5. CASE r.depth # 0
    <3> DEFINE n == Len(r.cells)
               more == InElement(r, text)
    <3>1. AList(r.cells) /\ r.cells # <<>> /\ \A k \in 1..n : AList(r.cells[k])
      BY <1>2, <2>5 DEF WellRead
    <3>2. n \in 1..n /\ n \in Nat /\ DOMAIN r.cells = 1..n
      BY <3>1, ListFacts2
    <3>3. /\ AList(r.cells[n] \o more)
          /\ Text(r.cells[n] \o more) = Text(r.cells[n]) \o text
      <4> DEFINE cell == r.cells[n]
      <4>1. AList(cell)
        BY <3>1, <3>2
      <4> HIDE DEF cell
      <4>2. AList(text)
        OBVIOUS
      <4>3. AList(cell \o InElement(r, text)) /\ Text(Chained(cell, InElement(r, text))) = Chained(Text(cell), text)
        BY <4>1, <4>2, TextWritten
      <4> QED
        BY <4>3 DEF cell, Chained
    <3>4. PICK S : r.cells \in Seq(S)
      BY <3>1 DEF AList
    <3> DEFINE cells == r.cells
               last2 == cells[n] \o more
               E == S \cup {last2}
    <3>5. s.cells = [cells EXCEPT ![n] = last2]
      BY <2>3, <2>5
    <3> HIDE DEF more
    <3>6. cells \in [1..n -> E] /\ last2 \in E
      BY <3>2, <3>4
    <3> HIDE DEF cells, E, last2
    <3>7. s.cells \in [1..n -> E]
      BY <3>5, <3>6, Zenon
    <3>8. AList(s.cells) /\ Len(s.cells) = n
      <4>1. s.cells \in Seq(E) /\ Len(s.cells) = n
        BY <3>2, <3>7
      <4> QED
        BY <4>1 DEF AList
    <3>9. s.cells[n] = last2 /\ \A k \in 1..n - 1 : s.cells[k] = cells[k]
      BY <3>2, <3>5, <3>6
    <3>10. \A k \in 1..n : AList(s.cells[k])
      <4> TAKE k \in 1..n
      <4>1. k = n \/ k \in 1..n - 1
        BY <3>2
      <4> QED
        BY <3>1, <3>3, <3>9, <4>1, Zenon DEF cells, last2
    <3>11. WellRead(s)
      <4>1. s.cells # <<>>
        BY <3>2, <3>8
      <4> QED
        BY <1>2, <2>3, <3>8, <3>10, <4>1 DEF WellRead
    <3>12. CellsGrown(r, s, text)
      BY <2>5, <3>3, <3>8, <3>9 DEF CellsGrown, cells, last2
    <3> QED
      BY <2>3, <3>11, <3>12 DEF Grown, s
  <2> QED
    BY <2>4, <2>5, Zenon DEF s
<1> QED
  BY <1>1, <1>2, Zenon DEF Adds

LEMMA AddsBytes ==
    ASSUME NEW what, what # "broken"
    PROVE  Adds(Bytes(what), <<>>, TRUE)
<1>1. AList(Bytes(what)) /\ AList(<<>>)
  BY OneIsList, AddsNothing DEF Bytes, Adds
<1>2. ASSUME NEW r, WellRead(r), ~r.inTag
      PROVE  Grown(r, Followed("make", r, Bytes(what)), <<>>, TRUE)
  <2> DEFINE s == Followed("make", r, Bytes(what))
  <2>1. s = Read(r, Mark("bytes", what))
    <3>1. s = Made(r, [call |-> "bytes", arg |-> what])
      BY FollowedOne DEF Bytes, Take
    <3> QED
      BY <3>1 DEF Made
  <2>2. /\ IsReading(s) /\ ~s.inTag /\ (s.good <=> r.good)
        /\ s.open = r.open /\ s.depth = r.depth /\ s.cells = r.cells
    BY <1>2, <2>1, ReadBytes DEF WellRead
  <2> HIDE DEF s
  <2>3. CellsGrown(r, s, <<>>)
    BY <1>2, <2>2, CellsStay DEF CellsGrown
  <2> QED
    BY <1>2, <2>2, <2>3 DEF Grown, WellRead, s
<1> QED
  BY <1>1, <1>2, Zenon DEF Adds

-----------------------------------------------------------------------------
(* Elements around what is added. *)

(* The attributes of an element with this name, whose class does not make it a cell. *)
IsAttribute(c, name) ==
    c.call = "attribute" /\ (c.arg.name = "class" /\ c.arg.value = "code" => name # "div")

AreAttributes(list, name) == AList(list) /\ \A k \in 1..Len(list) : IsAttribute(list[k], name)

NoQuote(list) == \A k \in 1..Len(list) : ~list[k].arg.quote

(* s has the attributes list more than r *)
Attributed(r, s, list) ==
    /\ WellRead(s) /\ s.inTag /\ (s.good <=> r.good /\ NoQuote(list))
    /\ s.open = r.open /\ s.depth = r.depth /\ s.cells = r.cells

LEMMA AttributesMade ==
    ASSUME NEW r, WellRead(r), r.inTag, NEW list, AreAttributes(list, r.open[Len(r.open)])
    PROVE  Attributed(r, Followed("make", r, list), list)
<1> DEFINE name == r.open[Len(r.open)]
<1>1. PICK S : list \in Seq(S)
  BY DEF AreAttributes, AList
<1> DEFINE E == {c \in S : IsAttribute(c, name)}
           T == {q \in Seq(E) : Attributed(r, Followed("make", r, q), q)}
<1>2. list \in Seq(E)
  BY <1>1 DEF AreAttributes
<1>3. \A c \in E : IsAttribute(c, name)
  OBVIOUS
<1> HIDE DEF E
<1>4. <<>> \in T
  <2> DEFINE none == <<>>
  <2>1. none \in Seq(E) /\ NoQuote(none)
    BY DEF NoQuote
  <2>2. Followed("make", r, none) = r
    BY FollowedNone
  <2> HIDE DEF none
  <2>3. Attributed(r, Followed("make", r, none), none)
    BY <2>1, <2>2 DEF Attributed
  <2> QED
    BY <2>1, <2>3 DEF none
<1>5. ASSUME NEW q \in Seq(E), q \in T, NEW c \in E PROVE Append(q, c) \in T
  <2> DEFINE s == Followed("make", r, q)
             t == Followed("make", r, Append(q, c))
  <2>1. Attributed(r, s, q)
    BY <1>5
  <2>2. IsAttribute(c, name)
    BY <1>3
  <2>3. t = Made(s, c)
    BY FollowedAppend DEF Take
  <2>4. t = Read(s, Mark("attribute", c.arg))
    <3> HIDE DEF t, s
    <3> QED
      BY <2>2, <2>3 DEF Made, IsAttribute
  <2>5. NoQuote(Append(q, c)) <=> NoQuote(q) /\ ~c.arg.quote
    <3>1. /\ Len(Append(q, c)) = Len(q) + 1 /\ Len(q) \in Nat /\ Append(q, c)[Len(q) + 1] = c
          /\ \A k \in 1..Len(q) : Append(q, c)[k] = q[k]
      BY Appended
    <3> DEFINE more == Append(q, c)
    <3> HIDE DEF more
    <3>2. /\ Len(more) = Len(q) + 1 /\ Len(q) \in Nat /\ more[Len(q) + 1] = c
          /\ \A k \in 1..Len(q) : more[k] = q[k]
      BY <3>1 DEF more
    <3>3. NoQuote(more) <=> NoQuote(q) /\ ~c.arg.quote
      BY <3>2 DEF NoQuote
    <3> QED
      BY <3>3 DEF more
  <2>6. /\ IsReading(t) /\ t.inTag /\ (t.good <=> s.good /\ ~c.arg.quote)
        /\ t.open = s.open /\ t.depth = s.depth /\ t.cells = s.cells
    <3> HIDE DEF s
    <3> DEFINE a == c.arg
               u == Read(s, Mark("attribute", a))
    <3>1. IsReading(s) /\ s.inTag /\ (a.name = "class" /\ a.value = "code" => s.open[Len(s.open)] # "div")
      BY <2>1, <2>2 DEF Attributed, WellRead, IsAttribute
    <3> HIDE DEF a
    <3>2. /\ IsReading(u) /\ u.inTag /\ (u.good <=> s.good /\ ~a.quote)
          /\ u.open = s.open /\ u.depth = s.depth /\ u.cells = s.cells
      BY <3>1, ReadAttribute
    <3> HIDE DEF t, u
    <3> QED
      BY <2>4, <3>2 DEF u, a
  <2> HIDE DEF s, t
  <2>7. Attributed(r, t, Append(q, c))
    <3>1. WellRead(t)
      BY <2>1, <2>6 DEF Attributed, WellRead
    <3>2. t.good <=> r.good /\ NoQuote(Append(q, c))
      BY <2>1, <2>5, <2>6 DEF Attributed
    <3> QED
      BY <2>1, <2>6, <3>1, <3>2 DEF Attributed
  <2>8. Append(q, c) \in Seq(E)
    BY Appended
  <2> QED
    BY <2>7, <2>8 DEF t
<1> HIDE DEF T
<1>6. Seq(E) \subseteq T
  BY <1>4, <1>5, SeqByInduction
<1> QED
  BY <1>2, <1>6 DEF T

(* The first call of a list seals the tag that the writer may be in. *)
Sealing(list) == list # <<>> /\ list[1].call \in {"start", "characters"}

LEMMA SealsFirst ==
    ASSUME NEW list, AList(list), Sealing(list), NEW r, WellRead(r)
    PROVE  Followed("make", r, list) = Followed("make", Seal(r), list)
<1>1. PICK S : list \in Seq(S)
  BY DEF AList
<1> DEFINE c == list[1]
           first == <<c>>
           rest == Tail(list)
<1>2. AList(first) /\ AList(rest) /\ first \o rest = list
  <2>1. list # <<>>
    BY DEF Sealing
  <2>2. /\ Head(list) \in S /\ Tail(list) \in Seq(S) /\ <<Head(list)>> \in Seq(S)
        /\ <<Head(list)>> \o Tail(list) = list
    BY <1>1, <2>1, HeadAndTail
  <2>3. Head(list) = c
    BY <1>1, <2>1
  <2> QED
    BY <2>2, <2>3 DEF AList
<1> HIDE DEF rest
<1>3. ASSUME NEW s PROVE Followed("make", s, list) = Followed("make", Made(s, c), rest)
  <2>1. Followed("make", s, first \o rest) = Followed("make", Followed("make", s, first), rest)
    BY <1>2, ListsJoined
  <2>2. Followed("make", s, first) = Made(s, c)
    BY FollowedOne DEF Take
  <2> QED
    BY <1>2, <2>1, <2>2, Zenon
<1>4. Made(r, c) = Made(Seal(r), c)
  <2>1. c.call \in {"start", "characters"}
    BY DEF Sealing
  <2>2. Seal(Seal(r)) = Seal(r)
    BY SealedReading
  <2> HIDE DEF c
  <2> QED
    BY <2>1, <2>2 DEF Made
<1> QED
  BY <1>3, <1>4

LEMMA AddedAnywhere ==
    ASSUME NEW list, NEW text, NEW ok, Adds(list, text, ok), Sealing(list), NEW r, WellRead(r)
    PROVE  Grown(r, Followed("make", r, list), text, ok)
<1> DEFINE q == Seal(r)
           s == Followed("make", q, list)
<1>1. /\ WellRead(q) /\ ~q.inTag /\ (q.good <=> r.good)
      /\ q.open = r.open /\ q.depth = r.depth /\ q.cells = r.cells
  BY SealedReading
<1> HIDE DEF q
<1>2. Grown(q, s, text, ok)
  BY <1>1 DEF Adds
<1>3. Followed("make", r, list) = s
  BY SealsFirst DEF Adds, q
<1> HIDE DEF s
<1> QED
  BY <1>1, <1>2, <1>3 DEF Grown, CellsGrown

LEMMA SealsBoth ==
    ASSUME NEW p, NEW q, AList(p), AList(q), Sealing(p) \/ (p = <<>> /\ Sealing(q))
    PROVE  Sealing(p \o q)
<1>1. PICK S : p \in Seq(S)
  BY DEF AList
<1>2. PICK U : q \in Seq(U)
  BY DEF AList
<1> DEFINE E == S \cup U
           both == p \o q
<1>3. p \in Seq(E) /\ q \in Seq(E)
  BY <1>1, <1>2
<1> HIDE DEF E
<1>4. /\ Len(both) = Len(p) + Len(q) /\ Len(p) \in Nat /\ Len(q) \in Nat
      /\ \A k \in 1..Len(p) : both[k] = p[k]
      /\ \A k \in 1..Len(q) : both[Len(p) + k] = q[k]
  BY <1>3, Concatenated
<1> HIDE DEF both
<1>5. CASE Sealing(p)
  <2>1. Len(p) # 0
    BY <1>3, <1>5 DEF Sealing
  <2>2. both[1] = p[1] /\ Len(both) # 0
    BY <1>4, <2>1
  <2> QED
    BY <1>5, <2>2 DEF Sealing, both
<1>6. CASE p = <<>> /\ Sealing(q)
  <2>1. both = q
    BY <1>3, <1>6 DEF both
  <2> QED
    BY <1>6, <2>1 DEF both
<1> QED
  BY <1>5, <1>6

LEMMA AppendTaken ==
    ASSUME NEW o, AList(o), NEW name
    PROVE  SubSeq(Append(o, name), 1, Len(Append(o, name)) - 1) = o
<1>1. PICK S : o \in Seq(S)
  BY DEF AList
<1> DEFINE E == S \cup {name}
           more == Append(o, name)
           front == SubSeq(more, 1, Len(more) - 1)
<1>2. o \in Seq(E) /\ name \in E
  BY <1>1
<1> HIDE DEF E
<1>3. /\ more \in Seq(E) /\ Len(more) = Len(o) + 1 /\ Len(o) \in Nat /\ DOMAIN o = 1..Len(o)
      /\ \A k \in 1..Len(o) : more[k] = o[k]
  BY <1>2, Appended
<1> HIDE DEF more
<1>4. /\ front \in Seq(E) /\ Len(front) = Len(o) /\ \A k \in 1..Len(o) : front[k] = more[k]
  <2>1. Len(more) \in 1..Len(more) + 1
    BY <1>3
  <2>2. /\ front \in Seq(E) /\ Len(front) = Len(more) - 1 /\ \A k \in 1..Len(more) - 1 : front[k] = more[k]
    BY <1>3, <2>1, Halves
  <2> QED
    BY <1>3, <2>2
<1> HIDE DEF front
<1>5. front = o
  <2>1. \A k \in 1..Len(o) : front[k] = o[k]
    BY <1>3, <1>4
  <2> QED
    BY <1>2, <1>4, <2>1, SeqEqual
<1> QED
  BY <1>5 DEF front, more

(* The start of an element, with its attributes. *)
LEMMA ElementMade ==
    ASSUME NEW r, WellRead(r), NEW name, NEW list, AreAttributes(list, name)
    PROVE  LET s == Followed("make", r, Element(name, list))
           IN  /\ WellRead(s) /\ s.inTag /\ (s.good <=> r.good /\ NoQuote(list))
               /\ s.open = Append(r.open, name)
               /\ name # "td" => s.depth = r.depth /\ s.cells = r.cells
               /\ name = "td" => s.depth = Len(r.open) + 1 /\ s.cells = Append(r.cells, <<>>)
<1> DEFINE c == Start(name)
           first == <<c>>
           q == Made(r, c)
           s == Followed("make", q, list)
<1>1. /\ WellRead(q) /\ q.inTag /\ (q.good <=> r.good)
      /\ q.open = Append(r.open, name) /\ q.open[Len(q.open)] = name
      /\ name # "td" => q.depth = r.depth /\ q.cells = r.cells
      /\ name = "td" => q.depth = Len(r.open) + 1 /\ q.cells = Append(r.cells, <<>>)
  BY MadeStart
<1>2. Followed("make", r, Element(name, list)) = s
  <2>1. AList(first) /\ AList(list) /\ Element(name, list) = first \o list
    BY OneIsList DEF AreAttributes, Element, Start
  <2>2. Followed("make", r, first \o list) = Followed("make", Followed("make", r, first), list)
    BY <2>1, ListsJoined
  <2>3. Followed("make", r, first) = q
    BY FollowedOne DEF Take
  <2> QED
    BY <2>1, <2>2, <2>3
<1> HIDE DEF q
<1>3. Attributed(q, s, list)
  BY <1>1, AttributesMade
<1> HIDE DEF s
<1> QED
  BY <1>1, <1>2, <1>3 DEF Attributed

Within(o, name) == Append(o, name)

LEMMA EndMade ==
    ASSUME NEW r, WellRead(r), NEW o, AList(o), NEW name, r.open = Within(o, name)
    PROVE  LET s == Followed("make", r, End)
           IN  /\ WellRead(s) /\ ~s.inTag /\ (s.good <=> r.good)
               /\ s.open = o /\ s.depth = (IF r.depth = Len(o) + 1 THEN 0 ELSE r.depth)
               /\ s.cells = r.cells
<1> DEFINE s == Made(r, TheEnd)
<1>1. Followed("make", r, End) = s
  BY FollowedOne DEF End, TheEnd, Take
<1>2. r.open # <<>> /\ Len(r.open) = Len(o) + 1
  <2>1. PICK S : o \in Seq(S)
    BY DEF AList
  <2> DEFINE E == S \cup {name}
  <2>2. o \in Seq(E) /\ name \in E
    BY <2>1
  <2> HIDE DEF E
  <2>3. Append(o, name) \in Seq(E) /\ Len(Append(o, name)) = Len(o) + 1 /\ Len(o) \in Nat
    BY <2>2, Appended
  <2> QED
    BY <2>3 DEF Within
<1>3. /\ WellRead(s) /\ ~s.inTag /\ (s.good <=> r.good)
      /\ s.open = SubSeq(r.open, 1, Len(r.open) - 1)
      /\ s.depth = (IF r.depth = Len(r.open) THEN 0 ELSE r.depth)
      /\ s.cells = r.cells
  BY <1>2, MadeEnd, Zenon
<1>4. SubSeq(r.open, 1, Len(r.open) - 1) = o
  BY AppendTaken DEF Within
<1> HIDE DEF s
<1> QED
  BY <1>1, <1>2, <1>3, <1>4

LEMMA AddsElement ==
    ASSUME NEW name, name # "td", NEW list, AreAttributes(list, name),
           NEW body, NEW text, NEW ok, Adds(body, text, ok), Sealing(body)
    PROVE  /\ Adds(Element(name, list) \o body \o End, text, NoQuote(list) /\ ok)
           /\ Sealing(Element(name, list) \o body \o End)
<1> DEFINE e == Element(name, list)
           all == e \o body \o End
<1>1. AList(e) /\ Sealing(e)
  <2> DEFINE first == <<[call |-> "start", arg |-> name]>>
  <2>1. AList(first) /\ AList(list) /\ Sealing(first) /\ e = first \o list
    BY OneIsList DEF AreAttributes, Element, Sealing
  <2> HIDE DEF first
  <2> QED
    BY <2>1, ListsJoined, SealsBoth
<1>2. AList(body) /\ AList(text) /\ AList(End)
  BY OneIsList DEF Adds, End
<1>3. AList(e \o body)
  BY <1>1, <1>2, ListsJoined
<1>4. AList(all)
  BY <1>2, <1>3, ListsJoined
<1>5. Sealing(all)
  <2>1. Sealing(e \o body)
    BY <1>1, <1>2, SealsBoth
  <2> QED
    BY <1>2, <1>3, <2>1, SealsBoth
<1>6. ASSUME NEW r, WellRead(r), ~r.inTag
      PROVE  Grown(r, Followed("make", r, all), text, NoQuote(list) /\ ok)
  <2> DEFINE s == Followed("make", r, e)
             t == Followed("make", s, body)
             u == Followed("make", t, End)
  <2>1. Followed("make", r, all) = u
    <3>1. Followed("make", r, all) = Followed("make", Followed("make", r, e \o body), End)
      BY <1>2, <1>3, ListsJoined
    <3>2. Followed("make", r, e \o body) = t
      BY <1>1, <1>2, ListsJoined
    <3> QED
      BY <3>1, <3>2
  <2>2. /\ WellRead(s) /\ (s.good <=> r.good /\ NoQuote(list))
        /\ s.open = Append(r.open, name) /\ s.depth = r.depth /\ s.cells = r.cells
    BY <1>6, ElementMade
  <2> HIDE DEF s
  <2>3. Grown(s, t, text, ok)
    BY <2>2, AddedAnywhere
  <2> HIDE DEF t
  <2>4. AList(r.open) /\ r.depth \in 0..Len(r.open) /\ Len(r.open) \in Nat
    BY <1>6, ListFacts2 DEF WellRead
  <2>5. /\ WellRead(u) /\ ~u.inTag /\ (u.good <=> t.good)
        /\ u.open = r.open /\ u.depth = (IF t.depth = Len(r.open) + 1 THEN 0 ELSE t.depth)
        /\ u.cells = t.cells
    <3> DEFINE o == r.open
    <3>1. WellRead(t) /\ t.open = Within(o, name) /\ AList(o)
      BY <2>2, <2>3, <2>4 DEF Grown, Within
    <3> HIDE DEF o
    <3>2. /\ WellRead(u) /\ ~u.inTag /\ (u.good <=> t.good)
          /\ u.open = o /\ u.depth = (IF t.depth = Len(o) + 1 THEN 0 ELSE t.depth)
          /\ u.cells = t.cells
      BY <3>1, EndMade
    <3> QED
      BY <3>2 DEF o
  <2> HIDE DEF u
  <2>6. u.depth = r.depth
    BY <2>2, <2>3, <2>4, <2>5 DEF Grown
  <2>7. CellsGrown(r, u, text)
    BY <2>2, <2>3, <2>5 DEF Grown, CellsGrown
  <2>8. u.good <=> r.good /\ (NoQuote(list) /\ ok)
    BY <2>2, <2>3, <2>5 DEF Grown
  <2>9. Grown(r, u, text, NoQuote(list) /\ ok)
    BY <2>5, <2>6, <2>7, <2>8 DEF Grown
  <2> QED
    BY <2>1, <2>9
<1> QED
  BY <1>2, <1>4, <1>5, <1>6 DEF Adds

-----------------------------------------------------------------------------
(* THE WRITER: it and the browser are in the same elements. *)

(* A mark that is not about elements leaves the elements alone. *)
LEMMA ReadBeside ==
    ASSUME NEW r, IsReading(r), NEW mark, mark.kind \in {"attribute", "text", "bytes"}
    PROVE  LET s == Read(r, mark)
           IN  IsReading(s) /\ s.open = r.open /\ s.inTag = r.inTag
<1> DEFINE good == /\ r.good /\ Harmless(mark) /\ r.inTag = InTag(mark)
                   /\ (mark.kind = "close" => r.open # <<>> /\ r.open[Len(r.open)] = mark.what)
<1>1. \E next : /\ Read(r, mark) = [next EXCEPT !.good = good]
                /\ IsReading(next) /\ next.open = r.open /\ next.inTag = r.inTag
  <2>1. IsReading(Enter(r, Len(r.open))) /\ Enter(r, Len(r.open)).open = r.open
        /\ Enter(r, Len(r.open)).inTag = r.inTag
    BY Zenon DEF IsReading, Fields, Enter
  <2> DEFINE grown == [r EXCEPT !.cells[Len(r.cells)] =
                          @ \o [k \in DOMAIN mark.what |->
                                  [char |-> mark.what[k], in |-> r.open[Len(r.open)]]]]
  <2>2. IsReading(grown) /\ grown.open = r.open /\ grown.inTag = r.inTag
    BY Zenon DEF IsReading, Fields
  <2> HIDE DEF good
  <2>3. \/ Read(r, mark) = [Enter(r, Len(r.open)) EXCEPT !.good = good]
        \/ Read(r, mark) = [grown EXCEPT !.good = good]
        \/ Read(r, mark) = [r EXCEPT !.good = good]
    BY Zenon DEF Read, good
  <2> HIDE DEF grown
  <2> QED
    BY <2>1, <2>2, <2>3
<1>2. PICK next : /\ Read(r, mark) = [next EXCEPT !.good = good]
                  /\ IsReading(next) /\ next.open = r.open /\ next.inTag = r.inTag
  BY <1>1, Zenon
<1> HIDE DEF good
<1> QED
  BY <1>2 DEF IsReading, Fields

(* The elements of the writer are those a browser is in, and both agree on whether the
   tag of the last one is still open. *)
IsElement(e) == DOMAIN e = {"name", "attributes_closed"}

Tidy(els, r) ==
    /\ AList(els) /\ \A k \in 1..Len(els) : IsElement(els[k])
    /\ IsReading(r) /\ AList(r.open) /\ Len(els) = Len(r.open)
    /\ \A k \in 1..Len(els) : els[k].name = r.open[k]
    /\ \A k \in 1..Len(els) - 1 : els[k].attributes_closed
    /\ r.inTag <=> els # <<>> /\ ~els[Len(els)].attributes_closed

LEMMA TidySealed ==
    ASSUME NEW els, NEW r, Tidy(els, r), r.inTag
    PROVE  Tidy([els EXCEPT ![Len(els)].attributes_closed = TRUE], Read(r, Mark("seal", <<>>)))
<1> DEFINE s == Read(r, Mark("seal", <<>>))
           more == [els EXCEPT ![Len(els)].attributes_closed = TRUE]
           m == Len(els)
           d == els[m]
           e == [d EXCEPT !.attributes_closed = TRUE]
<1>1. PICK S : els \in Seq(S)
  BY DEF Tidy, AList
<1>2. IsReading(s) /\ ~s.inTag /\ s.open = r.open
  BY ReadSeal DEF Tidy
<1>3. m \in 1..m /\ m \in Nat
  BY <1>1 DEF Tidy
<1>4. IsElement(e) /\ e.name = d.name /\ e.attributes_closed
  <2>1. DOMAIN d = {"name", "attributes_closed"}
    BY <1>3 DEF Tidy, IsElement
  <2> HIDE DEF d
  <2> QED
    BY <2>1 DEF IsElement
<1>5. more = [els EXCEPT ![m] = e]
  OBVIOUS
<1> DEFINE R == S \cup {e}
           g == [els EXCEPT ![m] = e]
<1>6. els \in Seq(R) /\ e \in R
  BY <1>1
<1> HIDE DEF R, e
<1>7. /\ g \in Seq(R) /\ Len(g) = m /\ g[m] = e
      /\ \A k \in 1..m : k # m => g[k] = els[k]
  BY <1>3, <1>6
<1> HIDE DEF g
<1>8. \A k \in 1..m : IsElement(g[k]) /\ g[k].name = els[k].name
  BY <1>4, <1>7 DEF Tidy
<1>9. \A k \in 1..m - 1 : k \in 1..m /\ k # m
  BY <1>3
<1>10. g # <<>>
  BY <1>3, <1>7
<1>11. AList(g)
  BY <1>7 DEF AList
<1>12. Tidy(g, s)
  <2> HIDE DEF s, d
  <2>1. \A k \in 1..m : g[k].name = r.open[k]
    BY <1>8 DEF Tidy
  <2>2. \A k \in 1..m - 1 : g[k].attributes_closed
    BY <1>7, <1>9, Zenon DEF Tidy
  <2>3. g[m].attributes_closed
    BY <1>4, <1>7
  <2>4. AList(r.open) /\ m = Len(r.open)
    BY DEF Tidy
  <2> QED
    BY <1>2, <1>7, <1>8, <1>11, <2>1, <2>2, <2>3, <2>4 DEF Tidy
<1> QED
  BY <1>5, <1>12 DEF g

LEMMA TidyOpened ==
    ASSUME NEW els, NEW r, Tidy(els, r), ~r.inTag, NEW n
    PROVE  Tidy(Append(els, [name |-> n, attributes_closed |-> FALSE]), Read(r, Mark("open", n)))
<1> DEFINE s == Read(r, Mark("open", n))
           e == [name |-> n, attributes_closed |-> FALSE]
           more == Append(els, e)
           o == r.open
           longer == Append(o, n)
<1>1. PICK S : els \in Seq(S)
  BY DEF Tidy, AList
<1>2. IsReading(s) /\ s.inTag /\ s.open = longer
  BY ReadOpen DEF Tidy
<1> DEFINE R == S \cup {e}
<1>3. e \in R /\ els \in Seq(R) /\ e.name = n /\ e.attributes_closed = FALSE /\ IsElement(e)
  BY <1>1 DEF IsElement
<1> HIDE DEF R, e
<1>4. /\ more \in Seq(R) /\ Len(more) = Len(els) + 1 /\ Len(els) \in Nat /\ more # <<>>
      /\ more[Len(els) + 1] = e /\ \A k \in 1..Len(els) : more[k] = els[k]
  BY <1>3
<1>5. PICK U : o \in Seq(U)
  BY DEF Tidy, AList
<1> DEFINE V == U \cup {n}
<1>6. o \in Seq(V) /\ n \in V
  BY <1>5
<1> HIDE DEF V, o
<1>7. /\ longer \in Seq(V) /\ Len(longer) = Len(o) + 1 /\ longer[Len(o) + 1] = n
      /\ \A k \in 1..Len(o) : longer[k] = o[k]
  BY <1>6
<1> HIDE DEF more, s, longer
<1>8. Len(els) = Len(o) /\ \A k \in 1..Len(els) : els[k].name = o[k]
  BY DEF Tidy, o
<1>9. /\ \A k \in 1..Len(more) : more[k].name = longer[k]
      /\ Len(more) = Len(longer)
  <2>1. \A k \in 1..Len(more) : k \in 1..Len(els) \/ k = Len(els) + 1
    BY <1>4
  <2> QED
    BY <1>3, <1>4, <1>7, <1>8, <2>1
<1>10. ASSUME NEW k \in 1..Len(more) - 1 PROVE more[k].attributes_closed
  <2>1. k \in 1..Len(els) /\ more[k] = els[k] /\ (k \in 1..Len(els) - 1 \/ k = Len(els))
    BY <1>4
  <2>2. els # <<>>
    BY <1>1, <2>1
  <2> QED
    BY <2>1, <2>2 DEF Tidy
<1>11. s.inTag <=> more # <<>> /\ ~more[Len(more)].attributes_closed
  BY <1>2, <1>3, <1>4
<1>12. AList(longer)
  BY <1>7 DEF AList
<1>13. AList(more) /\ \A k \in 1..Len(more) : IsElement(more[k])
  <2>1. \A k \in 1..Len(more) : k \in 1..Len(els) \/ k = Len(els) + 1
    BY <1>4
  <2> QED
    BY <1>3, <1>4, <2>1 DEF AList, Tidy
<1> QED
  BY <1>2, <1>9, <1>10, <1>11, <1>12, <1>13, Zenon DEF Tidy, more, s, e

LEMMA TidyEnded ==
    ASSUME NEW els, NEW r, Tidy(els, r), els # <<>>,
           NEW mark, mark = IF r.inTag THEN Mark("empty", <<>>) ELSE Mark("close", r.open[Len(r.open)])
    PROVE  Tidy(SubSeq(els, 1, Len(els) - 1), Read(r, mark))
<1> DEFINE s == Read(r, mark)
           less == SubSeq(els, 1, Len(els) - 1)
           o == r.open
           shorter == SubSeq(o, 1, Len(o) - 1)
<1>1. PICK S : els \in Seq(S)
  BY DEF Tidy, AList
<1>2. PICK U : o \in Seq(U)
  BY DEF Tidy, AList
<1>3. Len(els) = Len(o) /\ Len(els) \in 1..Len(els)
  BY <1>1 DEF Tidy
<1>4. o # <<>>
  BY <1>3
<1>5. IsReading(s) /\ ~s.inTag /\ s.open = shorter
  BY <1>4, ReadEnd DEF Tidy
<1> HIDE DEF o, s
<1>6. /\ less \in Seq(S) /\ Len(less) = Len(els) - 1
      /\ \A k \in 1..Len(els) - 1 : less[k] = els[k]
  BY <1>1, <1>3
<1>7. /\ shorter \in Seq(U) /\ Len(shorter) = Len(o) - 1
      /\ \A k \in 1..Len(o) - 1 : shorter[k] = o[k]
  BY <1>2, <1>3
<1> HIDE DEF less, shorter
<1>8. \A k \in 1..Len(els) - 1 : k \in 1..Len(els) /\ IsElement(els[k]) /\ els[k].name = o[k] /\ els[k].attributes_closed
  BY <1>3 DEF Tidy, o
<1>9. Len(less) = Len(shorter) /\ \A k \in 1..Len(less) : IsElement(less[k]) /\ less[k].name = shorter[k] /\ less[k].attributes_closed
  BY <1>3, <1>6, <1>7, <1>8, Zenon
<1>10. \A k \in 1..Len(less) - 1 : k \in 1..Len(less)
  BY <1>3, <1>6
<1>11. less # <<>> => Len(less) \in 1..Len(less)
  BY <1>6
<1>12. AList(shorter) /\ AList(less)
  BY <1>6, <1>7 DEF AList
<1> QED
  BY <1>5, <1>6, <1>9, <1>10, <1>11, <1>12, Zenon DEF Tidy, less, s

LEMMA TidyBeside ==
    ASSUME NEW els, NEW r, Tidy(els, r), NEW mark, mark.kind \in {"attribute", "text", "bytes"}
    PROVE  Tidy(els, Read(r, mark))
<1> DEFINE s == Read(r, mark)
<1>1. IsReading(s) /\ s.open = r.open /\ s.inTag = r.inTag
  BY ReadBeside DEF Tidy
<1> HIDE DEF s
<1> QED
  BY <1>1 DEF Tidy, s

LEMMA MarkRead ==
    ASSUME NEW q, AList(q), NEW m
    PROVE  AList(Append(q, m)) /\ ReadingOf(Append(q, m)) = Read(ReadingOf(q), m)
<1>1. PICK S : q \in Seq(S)
  BY DEF AList
<1> DEFINE E == S \cup {m}
           more == Append(q, m)
<1>2. q \in Seq(E) /\ m \in E
  BY <1>1
<1> HIDE DEF E
<1>3. more \in Seq(E)
  BY <1>2
<1>4. Followed("read", Unread, more) = Take("read", Followed("read", Unread, q), m)
  BY <1>2, FollowedAppend
<1>5. ReadingOf(q) = Followed("read", Unread, q)
  BY <1>2, ReadingIs
<1> HIDE DEF more
<1>6. ReadingOf(more) = Followed("read", Unread, more)
  BY <1>3, ReadingIs
<1>7. ReadingOf(more) = Read(ReadingOf(q), m)
  BY <1>4, <1>5, <1>6 DEF Take
<1>8. AList(more)
  BY <1>3 DEF AList
<1> QED
  BY <1>7, <1>8 DEF more

LEMMA CallTaken ==
    ASSUME NEW q, AList(q), q # <<>>, NEW r
    PROVE  /\ AList(Tail(q))
           /\ Followed("make", r, q) = Followed("make", Made(r, Head(q)), Tail(q))
<1>1. PICK S : q \in Seq(S)
  BY DEF AList
<1> DEFINE head == Head(q)
           tail == Tail(q)
           one == <<head>>
<1>2. head \in S /\ tail \in Seq(S) /\ one \in Seq(S) /\ q = one \o tail
  BY <1>1, HeadAndTail
<1>3. Followed("make", r, one) = Made(r, head)
  <2> HIDE DEF head
  <2> QED
    BY FollowedOne DEF Take
<1> HIDE DEF head, tail, one
<1>4. Followed("make", r, one \o tail) = Followed("make", Followed("make", r, one), tail)
  BY <1>2, FollowedJoined
<1>5. AList(tail)
  BY <1>2 DEF AList
<1>6. Followed("make", r, q) = Followed("make", Made(r, head), tail)
  BY <1>2, <1>3, <1>4
<1> QED
  BY <1>5, <1>6 DEF head, tail

WriterInv == AList(stream) /\ AList(calls) /\ Tidy(elements, Reading)

(* what a browser has when the calls that are still to be made are made *)
Shown == Followed("make", Reading, calls)

LEMMA SealedIs ==
    ASSUME WriterInv
    PROVE  /\ AList(Sealed) /\ ReadingOf(Sealed) = Seal(Reading)
           /\ Tidy(Closed, Seal(Reading)) /\ ~Seal(Reading).inTag
<1> DEFINE r == Reading
           mark == Mark("seal", <<>>)
<1>1. Unsealed <=> r.inTag
  BY DEF WriterInv, Tidy, Unsealed, Current
<1>2. ReadingOf(stream) = r
  BY DEF Reading
<1>3. Tidy(elements, r) /\ AList(stream)
  BY DEF WriterInv
<1>4. CASE Unsealed
  <2>1. Sealed = Append(stream, mark) /\ Seal(r) = Read(r, mark)
        /\ Closed = [elements EXCEPT ![Len(elements)].attributes_closed = TRUE]
    BY <1>1, <1>4 DEF Sealed, Closed, Seal
  <2>2. AList(Append(stream, mark)) /\ ReadingOf(Append(stream, mark)) = Read(ReadingOf(stream), mark)
    BY <1>3, MarkRead
  <2> HIDE DEF r
  <2>3. Tidy([elements EXCEPT ![Len(elements)].attributes_closed = TRUE], Read(r, mark))
    BY <1>1, <1>3, <1>4, TidySealed
  <2>4. ~Read(r, mark).inTag
    BY <1>1, <1>3, <1>4, ReadSeal DEF Tidy
  <2> QED
    BY <1>2, <2>1, <2>2, <2>3, <2>4 DEF r
<1>5. CASE ~Unsealed
  <2> HIDE DEF r
  <2>1. Sealed = stream /\ Seal(r) = r /\ Closed = elements
    BY <1>1, <1>5 DEF Sealed, Closed, Seal
  <2> QED
    BY <1>1, <1>2, <1>3, <1>5, <2>1 DEF r
<1> QED
  BY <1>4, <1>5

(* The marks a call puts out. *)
LEMMA CallPutsOut ==
    ASSUME WriterInv, XmlNext
    PROVE  AList(stream') /\ Reading' = Made(Reading, Head(calls)) /\ Tidy(elements', Reading')
<1> DEFINE r == Reading
           c == Head(calls)
<1>1. Reading' = ReadingOf(stream') /\ r = ReadingOf(stream)
  BY DEF Reading
<1>2. AList(stream) /\ Tidy(elements, r) /\ (Unsealed <=> r.inTag)
  BY DEF WriterInv, Tidy, Unsealed, Current
<1>3. AList(Sealed) /\ ReadingOf(Sealed) = Seal(r) /\ Tidy(Closed, Seal(r)) /\ ~Seal(r).inTag
  BY SealedIs
<1>4. ASSUME NEW q, AList(q), NEW m, stream' = Append(q, m) PROVE AList(stream') /\ Reading' = Read(ReadingOf(q), m)
  BY <1>1, <1>4, MarkRead
<1> HIDE DEF r, c
<1>5. CASE WriteStartElement
  <2>1. /\ c.call = "start" /\ stream' = Append(Sealed, Mark("open", c.arg))
        /\ elements' = Append(Closed, [name |-> c.arg, attributes_closed |-> FALSE])
    BY <1>5 DEF WriteStartElement, Called, Arg, c
  <2>2. Made(r, c) = Read(Seal(r), Mark("open", c.arg))
    BY <2>1 DEF Made
  <2> DEFINE arg == c.arg
             s == Seal(r)
  <2> HIDE DEF arg, s
  <2>3. Tidy(Append(Closed, [name |-> arg, attributes_closed |-> FALSE]), Read(s, Mark("open", arg)))
    BY <1>3, TidyOpened DEF s
  <2>4. AList(stream') /\ Reading' = Read(ReadingOf(Sealed), Mark("open", arg))
    BY <1>3, <1>4, <2>1, Zenon DEF arg
  <2> QED
    BY <1>3, <2>1, <2>2, <2>3, <2>4 DEF arg, s, r, c
<1>6. CASE WriteEndElement
  <2> DEFINE mark == IF r.inTag THEN Mark("empty", <<>>) ELSE Mark("close", r.open[Len(r.open)])
  <2>1. Len(elements) \in 1..Len(elements)
    BY <1>2, <1>6 DEF WriteEndElement, Tidy, AList
  <2>2. elements[Len(elements)].name = r.open[Len(r.open)]
    BY <1>2, <2>1 DEF Tidy
  <2>3. /\ c.call = "end" /\ stream' = Append(stream, mark) /\ elements # <<>>
        /\ elements' = SubSeq(elements, 1, Len(elements) - 1)
    BY <1>2, <1>6, <2>2 DEF WriteEndElement, Called, Current, c
  <2>4. Made(r, c) = Read(r, mark)
    BY <2>3 DEF Made
  <2>5. Tidy(SubSeq(elements, 1, Len(elements) - 1), Read(r, mark))
    BY <1>2, <2>3, TidyEnded
  <2> HIDE DEF mark
  <2>6. AList(stream') /\ Reading' = Read(ReadingOf(stream), mark)
    BY <1>2, <1>4, <2>3
  <2> QED
    BY <1>1, <2>3, <2>4, <2>5, <2>6 DEF r, c
<1>7. CASE WriteAttribute
  <2>1. /\ c.call = "attribute" /\ stream' = Append(stream, Mark("attribute", c.arg))
        /\ elements' = elements
    BY <1>7 DEF WriteAttribute, Called, Arg, c
  <2> DEFINE mark == Mark("attribute", c.arg)
  <2>2. Made(r, c) = Read(r, mark) /\ mark.kind \in {"attribute", "text", "bytes"}
    BY <2>1 DEF Made, Mark
  <2> HIDE DEF mark
  <2>3. Tidy(elements, Read(r, mark))
    BY <1>2, <2>2, TidyBeside
  <2>4. AList(stream') /\ Reading' = Read(ReadingOf(stream), mark)
    BY <1>2, <1>4, <2>1 DEF mark
  <2> QED
    BY <1>1, <2>1, <2>2, <2>3, <2>4 DEF r, c
<1>8. CASE WriteCharacters
  <2>1. /\ c.call = "characters" /\ stream' = Append(Sealed, Mark("text", c.arg)) /\ elements' = Closed
    BY <1>8 DEF WriteCharacters, Called, Arg, c
  <2> DEFINE mark == Mark("text", c.arg)
             s == Seal(r)
  <2>2. Made(r, c) = Read(s, mark) /\ mark.kind \in {"attribute", "text", "bytes"}
    BY <2>1 DEF Made, Mark
  <2> HIDE DEF mark, s
  <2>3. Tidy(Closed, Read(s, mark))
    BY <1>3, <2>2, TidyBeside DEF s
  <2>4. AList(stream') /\ Reading' = Read(ReadingOf(Sealed), mark)
    BY <1>3, <1>4, <2>1 DEF mark
  <2> QED
    BY <1>3, <2>1, <2>2, <2>3, <2>4 DEF s, r, c
<1>9. CASE Write
  <2>1. c.call = "bytes" /\ stream' = Append(stream, Mark("bytes", c.arg)) /\ elements' = elements
    BY <1>9 DEF Write, Called, Arg, c
  <2> DEFINE mark == Mark("bytes", c.arg)
  <2>2. Made(r, c) = Read(r, mark) /\ mark.kind \in {"attribute", "text", "bytes"}
    BY <2>1 DEF Made, Mark
  <2> HIDE DEF mark
  <2>3. Tidy(elements, Read(r, mark))
    BY <1>2, <2>2, TidyBeside
  <2>4. AList(stream') /\ Reading' = Read(ReadingOf(stream), mark)
    BY <1>2, <1>4, <2>1 DEF mark
  <2> QED
    BY <1>1, <2>1, <2>2, <2>3, <2>4 DEF r, c
<1> QED
  BY <1>5, <1>6, <1>7, <1>8, <1>9 DEF XmlNext

(* The writer makes its calls, and nothing that was shown changes. *)
LEMMA CallMade == WriterInv /\ XmlNext => WriterInv' /\ Shown' = Shown
<1> SUFFICES ASSUME WriterInv, XmlNext PROVE WriterInv' /\ Shown' = Shown
  OBVIOUS
<1>1. AList(stream') /\ Reading' = Made(Reading, Head(calls)) /\ Tidy(elements', Reading')
  BY CallPutsOut
<1>2. calls # <<>> /\ calls' = Tail(calls)
  BY DEF XmlNext, WriteStartElement, WriteEndElement, WriteAttribute, WriteCharacters, Write, Called, Done
<1> DEFINE q == calls
           r == Reading
<1>3. Shown = Followed("make", r, q) /\ Shown' = Followed("make", Made(r, Head(q)), Tail(q))
  BY <1>1, <1>2 DEF Shown
<1>4. AList(q) /\ q # <<>>
  BY <1>2 DEF WriterInv
<1> HIDE DEF q, r
<1>5. AList(Tail(q)) /\ Followed("make", r, q) = Followed("make", Made(r, Head(q)), Tail(q))
  BY <1>4, CallTaken
<1> QED
  BY <1>1, <1>2, <1>3, <1>5 DEF WriterInv, q

LEMMA WriterStarts == XmlInit => WriterInv /\ Shown = Unread
<1> SUFFICES ASSUME XmlInit PROVE WriterInv /\ Shown = Unread
  OBVIOUS
<1>1. elements = <<>> /\ stream = <<>> /\ calls = <<>>
  BY DEF XmlInit
<1>2. AList(<<>>)
  <2>1. <<>> \in Seq({})
    OBVIOUS
  <2> QED
    BY <2>1 DEF AList
<1>3. Reading = Unread
  <2>1. <<>> \in Seq({})
    OBVIOUS
  <2>2. ReadingOf(<<>>) = Followed("read", Unread, <<>>)
    BY <2>1, ReadingIs, Zenon
  <2> QED
    BY <1>1, <2>2, FollowedNone DEF Reading
<1>4. Tidy(<<>>, Unread)
  <2>1. IsReading(Unread) /\ Unread.open = <<>> /\ ~Unread.inTag
    BY DEF IsReading, Fields, Unread
  <2> QED
    BY <1>2, <2>1 DEF Tidy
<1> QED
  BY <1>1, <1>2, <1>3, <1>4, FollowedNone DEF WriterInv, Shown

-----------------------------------------------------------------------------
(* GOING ELSEWHERE: lists of calls that lead from one place of a page to another. *)

LEMMA WithinIsList == ASSUME NEW o, AList(o), NEW name PROVE AList(Within(o, name))
<1>1. PICK S : o \in Seq(S)
  BY DEF AList
<1>2. o \in Seq(S \cup {name}) /\ name \in S \cup {name}
  BY <1>1
<1>3. Append(o, name) \in Seq(S \cup {name})
  BY <1>2
<1> QED
  BY <1>3 DEF AList, Within

(* Attributes that do not make a cell. *)
LEMMA AttributesNone == ASSUME NEW name PROVE AreAttributes(<<>>, name) /\ NoQuote(<<>>)
<1>1. <<>> \in Seq({}) /\ Len(<<>>) = 0
  OBVIOUS
<1> QED
  BY <1>1 DEF AreAttributes, NoQuote, AList

LEMMA AttributesOne ==
    ASSUME NEW name, NEW n, NEW v, NEW q, n = "class" /\ v = "code" => name # "div"
    PROVE  AreAttributes(AttributeOf(n, v, q), name) /\ (NoQuote(AttributeOf(n, v, q)) <=> ~q)
<1> DEFINE c == [call |-> "attribute", arg |-> [name |-> n, value |-> v, quote |-> q]]
           one == <<c>>
<1>1. c.call = "attribute" /\ c.arg.name = n /\ c.arg.value = v /\ (c.arg.quote <=> q)
  OBVIOUS
<1>2. AttributeOf(n, v, q) = one
  BY DEF AttributeOf
<1> HIDE DEF c
<1>3. one \in Seq({c}) /\ Len(one) = 1 /\ one[1] = c
  OBVIOUS
<1> HIDE DEF one
<1>4. \A k \in 1..Len(one) : one[k] = c
  BY <1>3
<1>5. 1 \in 1..Len(one)
  BY <1>3
<1>6. AList(one)
  BY <1>3 DEF AList
<1>7. IsAttribute(c, name)
  BY <1>1 DEF IsAttribute
<1>8. NoQuote(one) <=> ~q
  BY <1>1, <1>4, <1>5 DEF NoQuote
<1> QED
  BY <1>2, <1>4, <1>6, <1>7, <1>8 DEF AreAttributes

LEMMA AttributesBoth ==
    ASSUME NEW name, NEW a, AreAttributes(a, name), NEW b, AreAttributes(b, name)
    PROVE  AreAttributes(a \o b, name) /\ (NoQuote(a \o b) <=> NoQuote(a) /\ NoQuote(b))
<1>1. PICK S : a \in Seq(S)
  BY DEF AreAttributes, AList
<1>2. PICK U : b \in Seq(U)
  BY DEF AreAttributes, AList
<1> DEFINE E == S \cup U
           both == a \o b
<1>3. a \in Seq(E) /\ b \in Seq(E)
  BY <1>1, <1>2
<1> HIDE DEF E
<1>4. /\ both \in Seq(E) /\ Len(both) = Len(a) + Len(b) /\ Len(a) \in Nat /\ Len(b) \in Nat
      /\ \A k \in 1..Len(a) : both[k] = a[k]
      /\ \A k \in 1..Len(b) : both[Len(a) + k] = b[k]
  BY <1>3, Concatenated
<1> HIDE DEF both
<1>5. \A k \in 1..Len(both) : k \in 1..Len(a) \/ \E j \in 1..Len(b) : k = Len(a) + j
  <2> TAKE k \in 1..Len(both)
  <2>1. k \in 1..Len(a) \/ (k - Len(a) \in 1..Len(b) /\ k = Len(a) + (k - Len(a)))
    BY <1>4
  <2> QED
    BY <2>1, Zenon
<1>6. /\ \A k \in 1..Len(a) : k \in 1..Len(both)
      /\ \A k \in 1..Len(b) : Len(a) + k \in 1..Len(both)
  BY <1>4
<1>7. AList(both)
  BY <1>4 DEF AList
<1>8. \A k \in 1..Len(both) : IsAttribute(both[k], name)
  BY <1>4, <1>5, Zenon DEF AreAttributes
<1>9. NoQuote(both) <=> NoQuote(a) /\ NoQuote(b)
  <2>1. ASSUME NoQuote(both) PROVE NoQuote(a) /\ NoQuote(b)
    BY <1>4, <1>6, <2>1, Zenon DEF NoQuote
  <2>2. ASSUME NoQuote(a), NoQuote(b) PROVE NoQuote(both)
    BY <1>4, <1>5, <2>2, Zenon DEF NoQuote
  <2> QED
    BY <2>1, <2>2
<1> QED
  BY <1>7, <1>8, <1>9 DEF AreAttributes, both
(* Outside of a cell, a list of calls takes a browser from the elements o into p; t and u
   say whether it may be in the tag of the last one. *)
Leads(list, o, t, p, u) ==
    /\ AList(list)
    /\ \A r : WellRead(r) /\ r.depth = 0 /\ r.open = o /\ (r.inTag => t) =>
          LET s == Followed("make", r, list)
          IN  /\ WellRead(s) /\ s.depth = 0 /\ s.open = p /\ (s.inTag => u)
              /\ s.cells = r.cells /\ (s.good <=> r.good)

LEMMA LeadsNowhere == ASSUME NEW o, NEW t, NEW u, t => u PROVE Leads(<<>>, o, t, o, u)
<1>1. <<>> \in Seq({})
  OBVIOUS
<1>2. AList(<<>>)
  BY <1>1 DEF AList
<1> QED
  BY <1>2, FollowedNone DEF Leads

LEMMA LeadsOn ==
    ASSUME NEW a, NEW b, NEW o, NEW p, NEW q, NEW t, NEW u, NEW v,
           Leads(a, o, t, p, u), Leads(b, p, u, q, v)
    PROVE  Leads(a \o b, o, t, q, v)
<1>1. /\ AList(a \o b)
      /\ \A r : Followed("make", r, a \o b) = Followed("make", Followed("make", r, a), b)
  <2>1. AList(a) /\ AList(b)
    BY DEF Leads
  <2> QED
    BY <2>1, ListsJoined
<1> DEFINE both == a \o b
<1> HIDE DEF both
<1>2. /\ AList(both)
      /\ \A r : Followed("make", r, both) = Followed("make", Followed("make", r, a), b)
  BY <1>1 DEF both
<1>3. Leads(both, o, t, q, v)
  <2> SUFFICES ASSUME NEW r, WellRead(r), r.depth = 0, r.open = o, r.inTag => t
               PROVE  LET s == Followed("make", r, both)
                      IN  /\ WellRead(s) /\ s.depth = 0 /\ s.open = q /\ (s.inTag => v)
                          /\ s.cells = r.cells /\ (s.good <=> r.good)
    BY <1>2 DEF Leads
  <2> DEFINE x == Followed("make", r, a)
             y == Followed("make", x, b)
  <2>1. /\ WellRead(x) /\ x.depth = 0 /\ x.open = p /\ (x.inTag => u)
        /\ x.cells = r.cells /\ (x.good <=> r.good)
    BY DEF Leads
  <2> HIDE DEF x
  <2>2. /\ WellRead(y) /\ y.depth = 0 /\ y.open = q /\ (y.inTag => v)
        /\ y.cells = x.cells /\ (y.good <=> x.good)
    BY <2>1 DEF Leads
  <2>3. Followed("make", r, both) = y
    BY <1>2 DEF x
  <2> HIDE DEF y
  <2> QED
    BY <2>1, <2>2, <2>3
<1> QED
  BY <1>3 DEF both

LEMMA LeadsIn ==
    ASSUME NEW o, AList(o), NEW t, NEW name, name # "td",
           NEW list, AreAttributes(list, name), NoQuote(list)
    PROVE  Leads(Element(name, list), o, t, Within(o, name), TRUE)
<1> DEFINE el == Element(name, list)
<1>1. AList(el)
  <2>1. el = <<Start(name)>> \o list /\ AList(<<Start(name)>>) /\ AList(list)
    BY OneIsList DEF Element, Start, AreAttributes
  <2> QED
    BY <2>1, ListsJoined
<1>2. ASSUME NEW r, WellRead(r), r.depth = 0, r.open = o
      PROVE  LET s == Followed("make", r, el)
             IN  /\ WellRead(s) /\ s.depth = 0 /\ s.open = Within(o, name)
                 /\ s.cells = r.cells /\ (s.good <=> r.good)
  BY <1>2, ElementMade DEF Within
<1> HIDE DEF el
<1>3. Leads(el, o, t, Within(o, name), TRUE)
  BY <1>1, <1>2 DEF Leads
<1> QED
  BY <1>3, Zenon DEF el

LEMMA LeadsOut ==
    ASSUME NEW o, AList(o), NEW t, NEW name
    PROVE  Leads(End, Within(o, name), t, o, FALSE)
<1>1. AList(End)
  BY OneIsList DEF End
<1>2. ASSUME NEW r, WellRead(r), r.depth = 0, r.open = Within(o, name)
      PROVE  LET s == Followed("make", r, End)
             IN  /\ WellRead(s) /\ s.depth = 0 /\ s.open = o /\ ~s.inTag
                 /\ s.cells = r.cells /\ (s.good <=> r.good)
  BY <1>2, EndMade
<1> QED
  BY <1>1, <1>2 DEF Leads

LEMMA LeadsBeside ==
    ASSUME NEW list, Adds(list, <<>>, TRUE), NEW o, NEW t, t => Sealing(list)
    PROVE  Leads(list, o, t, o, FALSE)
<1>1. AList(list)
  BY DEF Adds
<1>2. ASSUME NEW r, WellRead(r), r.depth = 0, r.open = o, r.inTag => t
      PROVE  LET s == Followed("make", r, list)
             IN  /\ WellRead(s) /\ s.depth = 0 /\ s.open = o /\ ~s.inTag
                 /\ s.cells = r.cells /\ (s.good <=> r.good)
  <2> DEFINE s == Followed("make", r, list)
  <2>1. Grown(r, s, <<>>, TRUE)
    <3>1. CASE r.inTag
      BY <1>2, <3>1, AddedAnywhere, Zenon
    <3>2. CASE ~r.inTag
      BY <1>2, <3>2, Zenon DEF Adds
    <3> QED
      BY <3>1, <3>2, Zenon
  <2> HIDE DEF s
  <2>2. s.depth = 0 /\ s.cells = r.cells
    BY <1>2, <2>1 DEF Grown, CellsGrown
  <2> QED
    BY <1>2, <2>1, <2>2 DEF Grown, s
<1> QED
  BY <1>1, <1>2 DEF Leads

(* The function that FlattenSeq is defined by. *)
IsFlattening(f, list, n) ==
    f = [j \in 1..n |-> IF j = 1 THEN list[j] ELSE f[j - 1] \o list[j]]

LEMMA FlatteningExists == ASSUME NEW list PROVE \A n \in Nat : \E f : IsFlattening(f, list, n)
<1> DEFINE T == {n \in Nat : \E f : IsFlattening(f, list, n)}
<1>1. 0 \in T
  <2>1. IsFlattening([m \in 1..0 |-> 0], list, 0)
    BY DEF IsFlattening
  <2> QED
    BY <2>1
<1>2. ASSUME NEW n \in Nat, n \in T PROVE n + 1 \in T
  <2>1. PICK f : IsFlattening(f, list, n)
    BY <1>2
  <2> DEFINE g == [m \in 1..n + 1 |-> IF m <= n THEN f[m] ELSE IF m = 1 THEN list[m] ELSE Chained(f[n], list[m])]
             h == [m \in 1..n + 1 |-> IF m = 1 THEN list[m] ELSE Chained(g[m - 1], list[m])]
  <2>2. \A m \in 1..n : f[m] = IF m = 1 THEN list[m] ELSE Chained(f[m - 1], list[m])
    BY <2>1, Zenon DEF IsFlattening, Chained
  <2>3. \A m \in 1..n + 1 : g[m] = h[m]
    <3> TAKE m \in 1..n + 1
    <3>1. CASE m <= n
      <4>1. m \in 1..n /\ g[m] = f[m] /\ (m # 1 => m - 1 \in 1..n + 1 /\ m - 1 <= n)
        BY <3>1
      <4>2. m # 1 => g[m - 1] = f[m - 1]
        BY <4>1
      <4> QED
        BY <2>2, <4>1, <4>2
    <3>2. CASE m = n + 1
      <4>1. ~(m <= n) /\ m - 1 = n /\ (m # 1 => n \in 1..n + 1)
        BY <3>2
      <4>2. m # 1 => g[m - 1] = f[n]
        BY <4>1
      <4> QED
        BY <4>1, <4>2
    <3> QED
      BY <3>1, <3>2
  <2>4. g = h
    BY <2>3
  <2>5. IsFlattening(g, list, n + 1)
    <3> HIDE DEF g
    <3> QED
      BY <2>4, Zenon DEF IsFlattening, Chained
  <2> QED
    BY <2>5
<1> HIDE DEF T
<1>3. Nat \subseteq T
  BY <1>1, <1>2, NatByInduction
<1> QED
  BY <1>3 DEF T

LEMMA LeadsFrom ==
    ASSUME NEW list, NEW o, NEW p, NEW u, Leads(list, o, TRUE, p, u)
    PROVE  Leads(list, o, FALSE, p, u)
  BY DEF Leads

(* Many lists of which each leads back to where it is. *)
LEMMA LeadsFlat ==
    ASSUME NEW list, Len(list) \in Nat \ {0}, NEW o,
           \A k \in 1..Len(list) : Leads(list[k], o, TRUE, o, FALSE)
    PROVE  Leads(FlattenSeq(list), o, TRUE, o, FALSE)
<1> DEFINE n == Len(list)
           Is(f) == f = [j \in 1..Len(list) |-> IF j = 1 THEN list[j] ELSE f[j - 1] \o list[j]]
           g == CHOOSE f : Is(f)
<1>1. PICK f : IsFlattening(f, list, n)
  BY FlatteningExists, Zenon
<1>2. Is(f)
  BY <1>1, Zenon DEF IsFlattening
<1>3. Is(g)
  <2> HIDE DEF Is
  <2> QED
    BY <1>2
<1>4. FlattenSeq(list) = g[n]
  BY DEF FlattenSeq
<1> HIDE DEF g
<1>5. \A m \in 1..n : g[m] = IF m = 1 THEN list[m] ELSE Chained(g[m - 1], list[m])
  BY <1>3, Zenon DEF Chained
<1> DEFINE T == {m \in Nat : m \in 1..n => Leads(g[m], o, TRUE, o, FALSE)}
<1> HIDE DEF Is
<1>10. n \in Nat \ {0}
  OBVIOUS
<1>11. \A k \in 1..n : Leads(list[k], o, TRUE, o, FALSE)
  BY Zenon
<1> HIDE DEF n
<1>6. 0 \in T
  <2>1. ~(0 \in 1..n)
    BY <1>10
  <2> QED
    BY <2>1
<1>7. ASSUME NEW m \in Nat, m \in T PROVE m + 1 \in T
  <2>1. ASSUME m + 1 \in 1..n PROVE Leads(g[m + 1], o, TRUE, o, FALSE)
    <3>1. CASE m = 0
      <4>1. m + 1 = 1 /\ g[1] = list[1] /\ 1 \in 1..n
        BY <1>5, <1>10, <2>1, <3>1
      <4> QED
        BY <1>11, <4>1, Zenon
    <3>2. CASE m # 0
      <4>1. m \in 1..n /\ m + 1 # 1 /\ (m + 1) - 1 = m
        BY <1>10, <2>1, <3>2
      <4>2. Leads(g[m], o, TRUE, o, FALSE) /\ g[m + 1] = Chained(g[m], list[m + 1])
        BY <1>5, <1>7, <2>1, <4>1, Zenon
      <4> DEFINE a == g[m]
                 b == list[m + 1]
      <4>3. Leads(b, o, FALSE, o, FALSE)
        BY <1>11, <2>1, LeadsFrom, Zenon
      <4> HIDE DEF a, b
      <4>4. Leads(a \o b, o, TRUE, o, FALSE)
        BY <4>2, <4>3, LeadsOn, Zenon DEF a
      <4> QED
        BY <4>2, <4>4, Zenon DEF Chained, a, b
    <3> QED
      BY <3>1, <3>2, Zenon
  <2>2. m + 1 \in Nat
    OBVIOUS
  <2> HIDE DEF g
  <2> QED
    BY <2>1, <2>2, Zenon
<1> HIDE DEF T
<1>8. Nat \subseteq T
  BY <1>6, <1>7, NatByInduction
<1>9. n \in 1..n
  BY <1>10
<1> QED
  BY <1>4, <1>8, <1>9, <1>10, Zenon DEF T, n

LEMMA AddsWell == ASSUME NEW list, NEW text, NEW ok, Adds(list, text, ok), ok PROVE Adds(list, text, TRUE)
<1> DEFINE f(r) == Followed("make", r, list)
<1> HIDE DEF f
<1>1. AList(list) /\ AList(text) /\ \A r : WellRead(r) /\ ~r.inTag => Grown(r, f(r), text, ok)
  BY Zenon DEF Adds, f
<1>2. ASSUME NEW r, WellRead(r), ~r.inTag PROVE Grown(r, f(r), text, TRUE)
  <2>1. Grown(r, f(r), text, ok)
    BY <1>1, <1>2, Zenon
  <2> QED
    BY <2>1 DEF Grown
<1> QED
  BY <1>1, <1>2, Zenon DEF Adds, f

LEMMA CharactersSeal == ASSUME NEW text PROVE AList(Characters(text)) /\ Sealing(Characters(text))
<1> DEFINE c == [call |-> "characters", arg |-> text]
<1>1. c.call = "characters"
  OBVIOUS
<1>2. Characters(text) = <<c>>
  BY DEF Characters
<1> HIDE DEF c
<1>3. <<c>> # <<>> /\ <<c>>[1] = c
  OBVIOUS
<1> QED
  BY <1>1, <1>2, <1>3, OneIsList DEF Sealing

(* An element that has a text in it. *)
LEMMA AddsText ==
    ASSUME NEW name, name # "td", NEW list, AreAttributes(list, name), NoQuote(list), NEW text, AList(text)
    PROVE  Adds(TextElement(name, list, text), text, TRUE) /\ Sealing(TextElement(name, list, text))
<1>1. Adds(Characters(text), text, TRUE) /\ Sealing(Characters(text))
  BY AddsCharacters, CharactersSeal, Zenon
<1> DEFINE body == Characters(text)
           el == TextElement(name, list, text)
<1>2. el = Element(name, list) \o body \o End
  BY DEF TextElement
<1> HIDE DEF body, el
<1>3. /\ Adds(Element(name, list) \o body \o End, text, NoQuote(list) /\ TRUE)
      /\ Sealing(Element(name, list) \o body \o End)
  BY <1>1, AddsElement, Zenon DEF body
<1>4. Adds(el, text, NoQuote(list) /\ TRUE)
  BY <1>2, <1>3
<1>5. Adds(el, text, TRUE)
  BY <1>4, AddsWell, Zenon
<1> QED
  BY <1>2, <1>3, <1>5, Zenon DEF el

LEMMA WordsAreList == AList(Words)
<1>1. <<>> \in Seq({})
  OBVIOUS
<1> QED
  BY <1>1 DEF AList, Words

(* The writer writes words of its own, in an element or in none. *)
LEMMA LeadsWords == ASSUME NEW o, NEW t PROVE Leads(Characters(Words), o, t, o, FALSE)
<1>1. Adds(Characters(Words), Words, TRUE) /\ Sealing(Characters(Words))
  BY WordsAreList, AddsCharacters, CharactersSeal, Zenon
<1>2. Adds(Characters(Words), <<>>, TRUE)
  BY <1>1, Zenon DEF Words
<1> QED
  BY <1>1, <1>2, LeadsBeside, Zenon

LEMMA LeadsText ==
    ASSUME NEW o, NEW t, NEW name, name # "td", NEW list, AreAttributes(list, name), NoQuote(list)
    PROVE  Leads(TextElement(name, list, Words), o, t, o, FALSE)
<1> DEFINE el == TextElement(name, list, Words)
<1>1. Adds(el, Words, TRUE) /\ Sealing(el)
  BY WordsAreList, AddsText, Zenon
<1> HIDE DEF el
<1>2. Adds(el, <<>>, TRUE)
  BY <1>1, Zenon DEF Words
<1>3. Leads(el, o, t, o, FALSE)
  BY <1>1, <1>2, LeadsBeside, Zenon
<1> QED
  BY <1>3, Zenon DEF el

LEMMA LeadsBytes == ASSUME NEW o, NEW what, what # "broken" PROVE Leads(Bytes(what), o, FALSE, o, FALSE)
  BY AddsBytes, LeadsBeside, Zenon

LEMMA LeadsStylesheet ==
    ASSUME NEW o, AList(o), NEW t, NEW list, AreAttributes(list, "link"), NoQuote(list)
    PROVE  Leads(Stylesheet(list), o, t, o, FALSE)
<1> DEFINE a1 == Attribute("rel", "stylesheet")
           a2 == Attribute("type", "text/css")
           a3 == Attribute("href", <<"css">>)
           b1 == list \o a1
           b2 == b1 \o a2
           b3 == b2 \o a3
<1>1. AreAttributes(a1, "link") /\ NoQuote(a1)
  BY AttributesOne, Zenon DEF Attribute
<1>2. AreAttributes(a2, "link") /\ NoQuote(a2)
  BY AttributesOne, Zenon DEF Attribute
<1>3. AreAttributes(a3, "link") /\ NoQuote(a3)
  BY AttributesOne, Zenon DEF Attribute
<1> HIDE DEF a1, a2, a3
<1>4. AreAttributes(b1, "link") /\ NoQuote(b1)
  BY <1>1, AttributesBoth
<1> HIDE DEF b1
<1>5. AreAttributes(b2, "link") /\ NoQuote(b2)
  BY <1>2, <1>4, AttributesBoth
<1> HIDE DEF b2
<1>6. AreAttributes(b3, "link") /\ NoQuote(b3)
  BY <1>3, <1>5, AttributesBoth
<1> HIDE DEF b3
<1> DEFINE el == Element("link", b3)
           oo == Within(o, "link")
<1>7. Leads(el, o, t, oo, TRUE)
  BY <1>6, LeadsIn, Zenon
<1>8. Leads(End, oo, TRUE, o, FALSE)
  BY LeadsOut, Zenon
<1>9. Stylesheet(list) = el \o End
  BY DEF Stylesheet, b1, b2, b3, a1, a2, a3
<1> HIDE DEF el, oo
<1>10. Leads(el \o End, o, t, o, FALSE)
  BY <1>7, <1>8, LeadsOn, Zenon
<1> QED
  BY <1>9, <1>10, Zenon

LEMMA LeadsIncluder ==
    ASSUME NEW o, AList(o), NEW place
    PROVE  Leads(Includer(place), o, TRUE, o, FALSE)
<1> DEFINE oo == Within(o, "li")
           ooo == Within(oo, "a")
<1>2. AList(oo)
  BY WithinIsList
<1>3. AreAttributes(Attribute("href", place), "a") /\ NoQuote(Attribute("href", place))
  BY AttributesOne, Zenon DEF Attribute
<1> DEFINE p1 == Element("li", <<>>)
           p2 == Element("a", Attribute("href", place))
           p3 == Characters(Words)
           p4 == Characters(Words)
           p5 == Bytes("number")
           p6 == End
           p7 == End
<1>4. Leads(p1, o, TRUE, oo, TRUE)
  BY AttributesNone, LeadsIn, Zenon
<1>5. Leads(p2, oo, TRUE, ooo, TRUE)
  BY <1>2, <1>3, LeadsIn, Zenon
<1>6. Leads(p3, ooo, TRUE, ooo, FALSE)
  BY LeadsWords, Zenon
<1>7. Leads(p4, ooo, FALSE, ooo, FALSE)
  BY LeadsWords, Zenon
<1>8. Leads(p5, ooo, FALSE, ooo, FALSE)
  BY LeadsBytes, Zenon
<1>9. Leads(p6, ooo, FALSE, oo, FALSE)
  BY <1>2, LeadsOut, Zenon
<1>10. Leads(p7, oo, FALSE, o, FALSE)
  BY LeadsOut, Zenon
<1> HIDE DEF oo, ooo, p1, p2, p3, p4, p5, p6, p7
<1> DEFINE l2 == p1 \o p2
           l3 == l2 \o p3
           l4 == l3 \o p4
           l5 == l4 \o p5
           l6 == l5 \o p6
           l7 == l6 \o p7
<1> HIDE DEF l2, l3, l4, l5, l6, l7
<1>11. Leads(l2, o, TRUE, ooo, TRUE)
  BY <1>4, <1>5, LeadsOn, Zenon DEF l2
<1>12. Leads(l3, o, TRUE, ooo, FALSE)
  BY <1>11, <1>6, LeadsOn, Zenon DEF l3
<1>13. Leads(l4, o, TRUE, ooo, FALSE)
  BY <1>12, <1>7, LeadsOn, Zenon DEF l4
<1>14. Leads(l5, o, TRUE, ooo, FALSE)
  BY <1>13, <1>8, LeadsOn, Zenon DEF l5
<1>15. Leads(l6, o, TRUE, oo, FALSE)
  BY <1>14, <1>9, LeadsOn, Zenon DEF l6
<1>16. Leads(l7, o, TRUE, o, FALSE)
  BY <1>15, <1>10, LeadsOn, Zenon DEF l7
<1> QED
  BY <1>16, Zenon DEF Includer, l2, l3, l4, l5, l6, l7, p1, p2, p3, p4, p5, p6, p7

LEMMA LeadsGraph ==
    ASSUME NEW o, AList(o), Includers # <<>>
    PROVE  Leads(IncludeGraph, o, TRUE, o, FALSE)
<1> DEFINE oo == Within(o, "ul")
           list == [k \in DOMAIN Includers |-> Includer(Includers[k])]
           n == Len(Includers)
<1>1. Includers \in Seq(Nat \X Nat)
  BY PageAssumption
<1>2. n \in Nat \ {0} /\ DOMAIN Includers = 1..n
  BY <1>1
<1>3. AList(oo)
  BY WithinIsList
<1> HIDE DEF oo
<1>4. Len(list) = n /\ \A k \in 1..n : list[k] = Includer(Includers[k])
  <2> DEFINE S == {Includer(Includers[k]) : k \in 1..n}
  <2>1. list \in [1..n -> S]
    BY <1>2
  <2>2. list \in Seq(S) /\ Len(list) = n
    BY <1>2, <2>1
  <2> QED
    BY <1>2, <2>2
<1>5. Leads(FlattenSeq(list), oo, TRUE, oo, FALSE)
  <2> HIDE DEF list, n
  <2>1. Len(list) \in Nat \ {0} /\ \A k \in 1..Len(list) : Leads(list[k], oo, TRUE, oo, FALSE)
    BY <1>2, <1>3, <1>4, LeadsIncluder, Zenon
  <2> QED
    BY <2>1, LeadsFlat, Zenon
<1> HIDE DEF list
<1> USE DEF oo
<1> DEFINE p1 == TextElement("h2", <<>>, Words)
           p2 == TextElement("p", <<>>, Words)
           p3 == Element("ul", <<>>)
           p4 == FlattenSeq(list)
           p5 == End
<1>6. Leads(p1, o, TRUE, o, FALSE)
  BY AttributesNone, LeadsText, Zenon
<1>7. Leads(p2, o, FALSE, o, FALSE)
  BY AttributesNone, LeadsText, Zenon
<1>8. Leads(p3, o, FALSE, oo, TRUE)
  BY AttributesNone, LeadsIn, Zenon
<1>9. Leads(p4, oo, TRUE, oo, FALSE)
  BY <1>5, Zenon
<1>10. Leads(p5, oo, FALSE, o, FALSE)
  BY LeadsOut, Zenon
<1> HIDE DEF oo, p1, p2, p3, p4, p5
<1> DEFINE l2 == p1 \o p2
           l3 == l2 \o p3
           l4 == l3 \o p4
           l5 == l4 \o p5
<1> HIDE DEF l2, l3, l4, l5
<1>11. Leads(l2, o, TRUE, o, FALSE)
  BY <1>6, <1>7, LeadsOn, Zenon DEF l2
<1>12. Leads(l3, o, TRUE, oo, TRUE)
  BY <1>11, <1>8, LeadsOn, Zenon DEF l3
<1>13. Leads(l4, o, TRUE, oo, FALSE)
  BY <1>12, <1>9, LeadsOn, Zenon DEF l4
<1>14. Leads(l5, o, TRUE, o, FALSE)
  BY <1>13, <1>10, LeadsOn, Zenon DEF l5
<1> QED
  BY <1>14, Zenon DEF IncludeGraph, list, l2, l3, l4, l5, p1, p2, p3, p4, p5

-----------------------------------------------------------------------------
(* The frame of the page of a file. *)

(* The elements a line of the table is in. *)
InHtml   == Within(<<>>, "html")
InHead   == Within(InHtml, "head")
InScript == Within(InHead, "script")
InBody   == Within(InHtml, "body")
InDiv    == Within(InBody, "div")
InTable  == Within(InDiv, "table")
Ground   == Within(InTable, "tbody")

LEMMA ElementsAreLists ==
    /\ AList(<<>>) /\ AList(InHtml) /\ AList(InHead) /\ AList(InScript) /\ AList(InBody)
    /\ AList(InDiv) /\ AList(InTable) /\ AList(Ground)
<1>0. AList(<<>>)
  BY WordsAreList DEF Words
<1>1. AList(InHtml)
  BY <1>0, WithinIsList DEF InHtml
<1>2. AList(InHead)
  BY <1>1, WithinIsList DEF InHead
<1>3. AList(InScript)
  BY <1>2, WithinIsList DEF InScript
<1>4. AList(InBody)
  BY <1>1, WithinIsList DEF InBody
<1>5. AList(InDiv)
  BY <1>4, WithinIsList DEF InDiv
<1>6. AList(InTable)
  BY <1>5, WithinIsList DEF InTable
<1>7. AList(Ground)
  BY <1>6, WithinIsList DEF Ground
<1> QED
  BY <1>0, <1>1, <1>2, <1>3, <1>4, <1>5, <1>6, <1>7

(* what WriteHead hands over *)
HeadCalls ==
    Bytes("markup") \o Element("html", <<>>) \o Title(Words)
        \o Stylesheet(Attribute("id", "codestylesheet")) \o Stylesheet(<<>>)
        \o Element("script", Attribute("type", "text/javascript"))
        \o Characters(Words) \o Characters(Words) \o Characters(Words) \o End
        \o TextElement("script", Attribute("type", "text/javascript") \o Attribute("src", "codenav.js"),
                       Words)
        \o End \o Element("body", <<>>) \o Element("div", Attribute("id", "content"))
        \o IncludeGraph \o TextElement("h2", <<>>, Words)
        \o Element("table", Attribute("class", "code") \o Attribute("file-id", Page))
        \o Element("tbody", <<>>)

LEMMA LeadsTitle == Leads(Title(Words), InHtml, TRUE, InHead, FALSE)
<1> DEFINE a == Element("head", <<>>)
           b == TextElement("title", <<>>, Words)
<1>1. Leads(a, InHtml, TRUE, InHead, TRUE)
  BY ElementsAreLists, AttributesNone, LeadsIn, Zenon DEF InHead
<1>2. Leads(b, InHead, TRUE, InHead, FALSE)
  BY AttributesNone, LeadsText, Zenon
<1>3. Title(Words) = a \o b
  BY DEF Title
<1> HIDE DEF a, b
<1> QED
  BY <1>1, <1>2, <1>3, LeadsOn, Zenon

LEMMA LeadsInto ==
    ASSUME NEW o, AList(o), NEW name, name # "td", NEW n, NEW v, n = "class" /\ v = "code" => name # "div"
    PROVE  Leads(Element(name, Attribute(n, v)), o, TRUE, Within(o, name), TRUE)
<1> DEFINE a == Attribute(n, v)
<1>1. AreAttributes(a, name) /\ NoQuote(a)
  BY AttributesOne, Zenon DEF Attribute
<1> HIDE DEF a
<1>2. Leads(Element(name, a), o, TRUE, Within(o, name), TRUE)
  BY <1>1, LeadsIn, Zenon
<1> QED
  BY <1>2, Zenon DEF a

LEMMA GraphLeads == ASSUME NEW o, AList(o) PROVE Leads(IncludeGraph, o, TRUE, o, TRUE)
<1>1. CASE Includers = <<>>
  <2>1. IncludeGraph = <<>>
    BY <1>1 DEF IncludeGraph
  <2> QED
    BY <2>1, LeadsNowhere, Zenon
<1>2. CASE Includers # <<>>
  <2>1. Leads(IncludeGraph, o, TRUE, o, FALSE)
    BY <1>2, LeadsGraph, Zenon
  <2> QED
    BY <2>1 DEF Leads
<1> QED
  BY <1>1, <1>2, Zenon

LEMMA HeadLeads == Leads(HeadCalls, <<>>, FALSE, Ground, TRUE)
<1>1. AreAttributes(Attribute("id", "codestylesheet"), "link") /\ NoQuote(Attribute("id", "codestylesheet"))
  BY AttributesOne, Zenon DEF Attribute
<1>2. /\ AreAttributes(Attribute("type", "text/javascript") \o Attribute("src", "codenav.js"), "script")
      /\ NoQuote(Attribute("type", "text/javascript") \o Attribute("src", "codenav.js"))
  <2> DEFINE a == Attribute("type", "text/javascript")
             b == Attribute("src", "codenav.js")
  <2>1. AreAttributes(a, "script") /\ NoQuote(a)
    BY AttributesOne, Zenon DEF Attribute
  <2>2. AreAttributes(b, "script") /\ NoQuote(b)
    BY AttributesOne, Zenon DEF Attribute
  <2> HIDE DEF a, b
  <2>3. AreAttributes(a \o b, "script") /\ NoQuote(a \o b)
    BY <2>1, <2>2, AttributesBoth
  <2> QED
    BY <2>3 DEF a, b
<1>3. /\ AreAttributes(Attribute("class", "code") \o Attribute("file-id", Page), "table")
      /\ NoQuote(Attribute("class", "code") \o Attribute("file-id", Page))
  <2> DEFINE a == Attribute("class", "code")
             b == Attribute("file-id", Page)
  <2>1. AreAttributes(a, "table") /\ NoQuote(a)
    BY AttributesOne, Zenon DEF Attribute
  <2>2. AreAttributes(b, "table") /\ NoQuote(b)
    BY AttributesOne, Zenon DEF Attribute
  <2> HIDE DEF a, b
  <2>3. AreAttributes(a \o b, "table") /\ NoQuote(a \o b)
    BY <2>1, <2>2, AttributesBoth
  <2> QED
    BY <2>3 DEF a, b
<1> DEFINE p1 == Bytes("markup")
           p2 == Element("html", <<>>)
           p3 == Title(Words)
           p4 == Stylesheet(Attribute("id", "codestylesheet"))
           p5 == Stylesheet(<<>>)
           p6 == Element("script", Attribute("type", "text/javascript"))
           p7 == Characters(Words)
           p8 == Characters(Words)
           p9 == Characters(Words)
           p10 == End
           p11 == TextElement("script", Attribute("type", "text/javascript") \o Attribute("src", "codenav.js"), Words)
           p12 == End
           p13 == Element("body", <<>>)
           p14 == Element("div", Attribute("id", "content"))
           p15 == IncludeGraph
           p16 == TextElement("h2", <<>>, Words)
           p17 == Element("table", Attribute("class", "code") \o Attribute("file-id", Page))
           p18 == Element("tbody", <<>>)
<1>4. Leads(p1, <<>>, FALSE, <<>>, FALSE)
  BY LeadsBytes, Zenon
<1>5. Leads(p2, <<>>, FALSE, InHtml, TRUE)
  BY ElementsAreLists, AttributesNone, LeadsIn, Zenon DEF InHtml
<1>6. Leads(p3, InHtml, TRUE, InHead, FALSE)
  BY LeadsTitle, Zenon
<1>7. Leads(p4, InHead, FALSE, InHead, FALSE)
  BY <1>1, ElementsAreLists, LeadsStylesheet, Zenon
<1>8. Leads(p5, InHead, FALSE, InHead, FALSE)
  BY ElementsAreLists, AttributesNone, LeadsStylesheet, Zenon
<1>9. Leads(p6, InHead, FALSE, InScript, TRUE)
  BY ElementsAreLists, LeadsInto, LeadsFrom, Zenon DEF InScript
<1>10. Leads(p7, InScript, TRUE, InScript, FALSE)
  BY LeadsWords, Zenon
<1>11. Leads(p8, InScript, FALSE, InScript, FALSE)
  BY LeadsWords, Zenon
<1>12. Leads(p9, InScript, FALSE, InScript, FALSE)
  BY LeadsWords, Zenon
<1>13. Leads(p10, InScript, FALSE, InHead, FALSE)
  BY ElementsAreLists, LeadsOut, Zenon DEF InScript
<1>14. Leads(p11, InHead, FALSE, InHead, FALSE)
  BY <1>2, LeadsText, Zenon
<1>15. Leads(p12, InHead, FALSE, InHtml, FALSE)
  BY ElementsAreLists, LeadsOut, Zenon DEF InHead
<1>16. Leads(p13, InHtml, FALSE, InBody, TRUE)
  BY ElementsAreLists, AttributesNone, LeadsIn, Zenon DEF InBody
<1>17. Leads(p14, InBody, TRUE, InDiv, TRUE)
  BY ElementsAreLists, LeadsInto, Zenon DEF InDiv
<1>18. Leads(p15, InDiv, TRUE, InDiv, TRUE)
  BY ElementsAreLists, GraphLeads, Zenon
<1>19. Leads(p16, InDiv, TRUE, InDiv, FALSE)
  BY AttributesNone, LeadsText, Zenon
<1>20. Leads(p17, InDiv, FALSE, InTable, TRUE)
  BY <1>3, ElementsAreLists, LeadsIn, Zenon DEF InTable
<1>21. Leads(p18, InTable, TRUE, Ground, TRUE)
  BY ElementsAreLists, AttributesNone, LeadsIn, Zenon DEF Ground
<1> HIDE DEF p1, p2, p3, p4, p5, p6, p7, p8, p9, p10, p11, p12, p13, p14, p15, p16, p17, p18
<1> DEFINE l2 == p1 \o p2
           l3 == l2 \o p3
           l4 == l3 \o p4
           l5 == l4 \o p5
           l6 == l5 \o p6
           l7 == l6 \o p7
           l8 == l7 \o p8
           l9 == l8 \o p9
           l10 == l9 \o p10
           l11 == l10 \o p11
           l12 == l11 \o p12
           l13 == l12 \o p13
           l14 == l13 \o p14
           l15 == l14 \o p15
           l16 == l15 \o p16
           l17 == l16 \o p17
           l18 == l17 \o p18
<1> HIDE DEF l2, l3, l4, l5, l6, l7, l8, l9, l10, l11, l12, l13, l14, l15, l16, l17, l18
<1>22. Leads(l2, <<>>, FALSE, InHtml, TRUE)
  BY <1>4, <1>5, LeadsOn, Zenon DEF l2
<1>23. Leads(l3, <<>>, FALSE, InHead, FALSE)
  BY <1>22, <1>6, LeadsOn, Zenon DEF l3
<1>24. Leads(l4, <<>>, FALSE, InHead, FALSE)
  BY <1>23, <1>7, LeadsOn, Zenon DEF l4
<1>25. Leads(l5, <<>>, FALSE, InHead, FALSE)
  BY <1>24, <1>8, LeadsOn, Zenon DEF l5
<1>26. Leads(l6, <<>>, FALSE, InScript, TRUE)
  BY <1>25, <1>9, LeadsOn, Zenon DEF l6
<1>27. Leads(l7, <<>>, FALSE, InScript, FALSE)
  BY <1>26, <1>10, LeadsOn, Zenon DEF l7
<1>28. Leads(l8, <<>>, FALSE, InScript, FALSE)
  BY <1>27, <1>11, LeadsOn, Zenon DEF l8
<1>29. Leads(l9, <<>>, FALSE, InScript, FALSE)
  BY <1>28, <1>12, LeadsOn, Zenon DEF l9
<1>30. Leads(l10, <<>>, FALSE, InHead, FALSE)
  BY <1>29, <1>13, LeadsOn, Zenon DEF l10
<1>31. Leads(l11, <<>>, FALSE, InHead, FALSE)
  BY <1>30, <1>14, LeadsOn, Zenon DEF l11
<1>32. Leads(l12, <<>>, FALSE, InHtml, FALSE)
  BY <1>31, <1>15, LeadsOn, Zenon DEF l12
<1>33. Leads(l13, <<>>, FALSE, InBody, TRUE)
  BY <1>32, <1>16, LeadsOn, Zenon DEF l13
<1>34. Leads(l14, <<>>, FALSE, InDiv, TRUE)
  BY <1>33, <1>17, LeadsOn, Zenon DEF l14
<1>35. Leads(l15, <<>>, FALSE, InDiv, TRUE)
  BY <1>34, <1>18, LeadsOn, Zenon DEF l15
<1>36. Leads(l16, <<>>, FALSE, InDiv, FALSE)
  BY <1>35, <1>19, LeadsOn, Zenon DEF l16
<1>37. Leads(l17, <<>>, FALSE, InTable, TRUE)
  BY <1>36, <1>20, LeadsOn, Zenon DEF l17
<1>38. Leads(l18, <<>>, FALSE, Ground, TRUE)
  BY <1>37, <1>21, LeadsOn, Zenon DEF l18
<1> QED
  BY <1>38, Zenon DEF HeadCalls, l2, l3, l4, l5, l6, l7, l8, l9, l10, l11, l12, l13, l14, l15, l16, l17, l18, p1, p2, p3, p4, p5, p6, p7, p8, p9, p10, p11, p12, p13, p14, p15, p16, p17, p18

InRow  == Within(Ground, "tr")
InCell == Within(InRow, "td")

(* what BeginLine, EndLine and WritePage hand over *)
LineCalls(l) ==
    Element("tr", <<>>) \o TextElement("th", Attribute("id", l), Words) \o Element("td", <<>>)

PageEnd == End \o End \o End \o End \o End

LEMMA RowIsList ==
    /\ AList(InRow) /\ AList(InCell) /\ Len(InRow) \in Nat /\ Len(InCell) = Len(InRow) + 1
<1> DEFINE o == InRow
<1>1. AList(o)
  BY ElementsAreLists, WithinIsList DEF InRow
<1> HIDE DEF o
<1>2. AList(Within(o, "td"))
  BY <1>1, WithinIsList
<1>3. Len(o) \in Nat /\ Len(Within(o, "td")) = Len(o) + 1
  BY <1>1 DEF Within, AList
<1> QED
  BY <1>1, <1>2, <1>3 DEF o, InCell

LEMMA LineOpens ==
    ASSUME NEW l, NEW r, WellRead(r), r.depth = 0, r.open = Ground
    PROVE  LET s == Followed("make", r, LineCalls(l))
           IN  /\ WellRead(s) /\ s.open = InCell /\ s.depth = Len(InCell)
               /\ s.cells = Append(r.cells, <<>>) /\ (s.good <=> r.good)
<1> DEFINE a == Element("tr", <<>>)
           b == TextElement("th", Attribute("id", l), Words)
           td == Element("td", <<>>)
           ab == a \o b
<1>1. Leads(a, Ground, TRUE, InRow, TRUE)
  BY ElementsAreLists, AttributesNone, LeadsIn, Zenon DEF InRow
<1>2. AreAttributes(Attribute("id", l), "th") /\ NoQuote(Attribute("id", l))
  BY AttributesOne, Zenon DEF Attribute
<1>3. Leads(b, InRow, TRUE, InRow, FALSE)
  <2> DEFINE given == Attribute("id", l)
  <2> HIDE DEF given
  <2>1. Leads(TextElement("th", given, Words), InRow, TRUE, InRow, FALSE)
    BY <1>2, LeadsText, Zenon DEF given
  <2> QED
    BY <2>1, Zenon DEF given
<1> HIDE DEF a, b
<1>4. Leads(ab, Ground, TRUE, InRow, FALSE)
  BY <1>1, <1>3, LeadsOn, Zenon
<1>5. AreAttributes(<<>>, "td") /\ NoQuote(<<>>)
  BY AttributesNone
<1>6. AList(td)
  <2>1. AList(<<Start("td")>>) /\ AList(<<>>)
    BY OneIsList, ElementsAreLists
  <2>2. AList(<<Start("td")>> \o <<>>)
    BY <2>1, ListsJoined
  <2> QED
    BY <2>2 DEF Element, Start
<1> DEFINE x == Followed("make", r, ab)
           y == Followed("make", x, td)
<1> HIDE DEF ab
<1>7. WellRead(x) /\ x.depth = 0 /\ x.open = InRow /\ x.cells = r.cells /\ (x.good <=> r.good)
  BY <1>4 DEF Leads
<1> HIDE DEF x
<1>8. /\ WellRead(y) /\ (y.good <=> x.good) /\ y.open = Append(x.open, "td")
      /\ y.depth = Len(x.open) + 1 /\ y.cells = Append(x.cells, <<>>)
  BY <1>5, <1>7, ElementMade, Zenon
<1> HIDE DEF td
<1>9. Followed("make", r, ab \o td) = y
  <2>1. AList(ab)
    BY <1>4 DEF Leads
  <2> QED
    BY <1>6, <2>1, ListsJoined DEF x
<1> HIDE DEF y
<1>10. LineCalls(l) = ab \o td
  BY DEF LineCalls, a, b, ab, td
<1>11. y.open = InCell /\ y.depth = Len(InCell)
  BY <1>7, <1>8, RowIsList DEF InCell, Within
<1> QED
  BY <1>7, <1>8, <1>9, <1>10, <1>11

LEMMA LineCloses ==
    ASSUME NEW r, WellRead(r), r.open = InCell, r.depth = Len(InCell)
    PROVE  LET s == Followed("make", r, End \o End)
           IN  /\ WellRead(s) /\ ~s.inTag /\ s.open = Ground /\ s.depth = 0
               /\ s.cells = r.cells /\ (s.good <=> r.good)
<1> DEFINE x == Followed("make", r, End)
           y == Followed("make", x, End)
<1>1. r.open = Within(InRow, "td") /\ AList(InRow) /\ r.depth = Len(InRow) + 1
  BY RowIsList DEF InCell
<1>2. WellRead(x) /\ x.depth = 0 /\ x.open = InRow /\ x.cells = r.cells /\ (x.good <=> r.good)
  BY <1>1, EndMade
<1> HIDE DEF x
<1>3. Leads(End, InRow, TRUE, Ground, FALSE)
  BY ElementsAreLists, LeadsOut, Zenon DEF InRow
<1>4. WellRead(y) /\ ~y.inTag /\ y.depth = 0 /\ y.open = Ground /\ y.cells = x.cells /\ (y.good <=> x.good)
  BY <1>2, <1>3 DEF Leads
<1>5. Followed("make", r, End \o End) = y
  <2>1. AList(End)
    BY <1>3 DEF Leads
  <2> QED
    BY <2>1, ListsJoined DEF x
<1> HIDE DEF y
<1> QED
  BY <1>2, <1>4, <1>5

LEMMA PageCloses == Leads(PageEnd, Ground, TRUE, <<>>, FALSE)
<1> DEFINE p1 == End
           p2 == End
           p3 == End
           p4 == End
           p5 == End
<1>1. Leads(p1, Ground, TRUE, InTable, FALSE)
  BY ElementsAreLists, LeadsOut, Zenon DEF Ground
<1>2. Leads(p2, InTable, FALSE, InDiv, FALSE)
  BY ElementsAreLists, LeadsOut, Zenon DEF InTable
<1>3. Leads(p3, InDiv, FALSE, InBody, FALSE)
  BY ElementsAreLists, LeadsOut, Zenon DEF InDiv
<1>4. Leads(p4, InBody, FALSE, InHtml, FALSE)
  BY ElementsAreLists, LeadsOut, Zenon DEF InBody
<1>5. Leads(p5, InHtml, FALSE, <<>>, FALSE)
  BY ElementsAreLists, LeadsOut, Zenon DEF InHtml
<1> HIDE DEF p1, p2, p3, p4, p5
<1> DEFINE l2 == p1 \o p2
           l3 == l2 \o p3
           l4 == l3 \o p4
           l5 == l4 \o p5
<1> HIDE DEF l2, l3, l4, l5
<1>6. Leads(l2, Ground, TRUE, InDiv, FALSE)
  BY <1>1, <1>2, LeadsOn, Zenon DEF l2
<1>7. Leads(l3, Ground, TRUE, InBody, FALSE)
  BY <1>6, <1>3, LeadsOn, Zenon DEF l3
<1>8. Leads(l4, Ground, TRUE, InHtml, FALSE)
  BY <1>7, <1>4, LeadsOn, Zenon DEF l4
<1>9. Leads(l5, Ground, TRUE, <<>>, FALSE)
  BY <1>8, <1>5, LeadsOn, Zenon DEF l5
<1> QED
  BY <1>9, Zenon DEF PageEnd, l2, l3, l4, l5, p1, p2, p3, p4, p5
Repeat(n, e) == [k \in 1..n |-> e]

LEMMA RepeatMore ==
    ASSUME NEW n \in Nat, NEW e
    PROVE  /\ AList(Repeat(n, e)) /\ Repeat(n + 1, e) = Repeat(n, e) \o <<e>>
           /\ Len(Repeat(n, e)) = n
<1> DEFINE a == [k \in 1..n |-> e]
           b == [k \in 1..n + 1 |-> e]
           one == <<e>>
           both == a \o one
           E == {e}
<1>1. a \in Seq(E) /\ Len(a) = n /\ \A k \in 1..n : a[k] = e
  BY IsASeq
<1>2. one \in Seq(E) /\ Len(one) = 1 /\ one[1] = e
  OBVIOUS
<1>3. b \in Seq(E) /\ Len(b) = n + 1 /\ \A k \in 1..n + 1 : b[k] = e
  BY IsASeq
<1> HIDE DEF a, b, one, E
<1>4. /\ both \in Seq(E) /\ Len(both) = n + 1
      /\ \A k \in 1..n : both[k] = a[k]
      /\ both[n + 1] = one[1]
  <2>1. /\ both \in Seq(E) /\ Len(both) = Len(a) + Len(one)
        /\ \A k \in 1..Len(a) : both[k] = a[k]
        /\ \A k \in 1..Len(one) : both[Len(a) + k] = one[k]
    <3>1. a \in Seq(E) /\ one \in Seq(E)
      BY <1>1, <1>2
    <3> QED
      BY <3>1, Concatenated
  <2> HIDE DEF both
  <2> QED
    BY <1>1, <1>2, <2>1
<1> HIDE DEF both
<1>5. \A k \in 1..n + 1 : both[k] = b[k]
  <2> TAKE k \in 1..n + 1
  <2>1. k \in 1..n \/ k = n + 1
    OBVIOUS
  <2> QED
    BY <1>1, <1>2, <1>3, <1>4, <2>1
<1>6. both = b
  BY <1>3, <1>4, <1>5, SeqEqual
<1> QED
  BY <1>1, <1>6, Zenon DEF Repeat, a, b, one, both, AList

(* insertPrecedingSpaces *)
LEMMA AddsSpaces ==
    ASSUME NEW n \in Nat
    PROVE  /\ Adds(Repeat(n, Characters(<<Space>>)[1]), Repeat(n, Space), TRUE)
           /\ n # 0 => Sealing(Repeat(n, Characters(<<Space>>)[1]))
<1> DEFINE c == Characters(<<Space>>)[1]
           calls1 == Characters(<<Space>>)
           T == {m \in Nat : Adds(Repeat(m, c), Repeat(m, Space), TRUE)}
<1>1. Adds(calls1, <<Space>>, TRUE) /\ calls1 = <<c>> /\ c.call = "characters"
  BY OneIsList, AddsCharacters, Zenon DEF Characters
<1> HIDE DEF c, calls1
<1>2. 0 \in T
  <2>1. Repeat(0, c) = <<>> /\ Repeat(0, Space) = <<>>
    BY DEF Repeat
  <2> QED
    BY <2>1, AddsNothing, Zenon
<1>3. ASSUME NEW m \in Nat, m \in T PROVE m + 1 \in T
  <2> DEFINE p == Repeat(m, c)
             a == Repeat(m, Space)
  <2>1. Adds(p, a, TRUE)
    BY <1>3, Zenon
  <2>2. Repeat(m + 1, c) = p \o calls1 /\ Repeat(m + 1, Space) = a \o <<Space>>
    BY <1>1, RepeatMore, Zenon
  <2> HIDE DEF p, a
  <2> DEFINE one == <<Space>>
  <2>3. Adds(calls1, one, TRUE)
    BY <1>1, Zenon
  <2> HIDE DEF one
  <2>4. Adds(p \o calls1, a \o one, TRUE /\ TRUE)
    BY <2>1, <2>3, AddsBoth, Zenon
  <2>5. Adds(p \o calls1, a \o one, TRUE)
    BY <2>4, AddsWell, Zenon
  <2>6. Adds(Repeat(m + 1, c), Repeat(m + 1, Space), TRUE)
    BY <2>2, <2>5, Zenon DEF one
  <2>7. m + 1 \in Nat
    OBVIOUS
  <2> QED
    BY <2>6, <2>7, Zenon
<1> HIDE DEF T
<1>4. Nat \subseteq T
  BY <1>2, <1>3, NatByInduction
<1>5. n # 0 => Repeat(n, c) # <<>> /\ Repeat(n, c)[1].call = "characters"
  BY <1>1, RepeatMore DEF Repeat
<1> QED
  BY <1>4, <1>5, Zenon DEF T, c, Sealing

-----------------------------------------------------------------------------
(* Tokens, and what is put out with them. *)

LEMMA TextIsList ==
    ASSUME NEW l \in DOMAIN Tokens, NEW k \in DOMAIN Tokens[l]
    PROVE  /\ AList(TokenText(l, k)) /\ Len(TokenText(l, k)) = Tokens[l][k].width
           /\ Tokens[l][k].width \in Nat \ {0}
<1> DEFINE t == Tokens[l][k]
           w == t.width
           text == [j \in 1..w |-> [tok |-> k, at |-> j]]
           S == {[tok |-> k, at |-> j] : j \in 1..w}
<1>1. t \in Token
  BY PageAssumption
<1>2. w \in Nat \ {0}
  BY <1>1 DEF Token
<1> HIDE DEF w
<1>3. text \in [1..w -> S]
  OBVIOUS
<1>4. text \in Seq(S) /\ Len(text) = w
  BY <1>2, <1>3
<1> HIDE DEF S
<1> QED
  BY <1>2, <1>4, Zenon DEF AList, TokenText, w

LEMMA AddsToken ==
    ASSUME line \in DOMAIN Tokens, NEW k \in DOMAIN Tokens[line]
    PROVE  Adds(TokenCalls(k), TokenText(line, k), TRUE) /\ Sealing(TokenCalls(k))
<1> DEFINE text == TokenText(line, k)
           type == Tokens[line][k].type
<1>1. AList(text)
  BY TextIsList
<1>2. type \in DOMAIN Tag
  <2>1. Tokens[line][k] \in Token
    BY PageAssumption
  <2> QED
    BY <2>1 DEF Token
<1>3. DOMAIN Tag = {"keyword", "type", "comment", "preproc", "literal", "include", "plain"}
  BY DEF Tag
<1> HIDE DEF text, type
<1>4. TokenCalls(k) = CASE type = "plain"   -> Characters(text)
                        [] type = "include" -> TextElement(Tag[type], Attribute("class", "include"), text)
                        [] OTHER            -> TextElement(Tag[type], <<>>, text)
  BY DEF TokenCalls, text, type
<1>5. Tag[type] # "td"
  BY <1>2, <1>3 DEF Tag
<1> DEFINE name == Tag[type]
<1> HIDE DEF name
<1>6. CASE type = "plain"
  <2>1. TokenCalls(k) = Characters(text)
    BY <1>4, <1>6
  <2> QED
    BY <1>1, <2>1, AddsCharacters, CharactersSeal, Zenon DEF text
<1>7. CASE type = "include"
  <2> DEFINE a == Attribute("class", "include")
  <2>1. AreAttributes(a, name) /\ NoQuote(a)
    BY AttributesOne, Zenon DEF Attribute
  <2>2. TokenCalls(k) = TextElement(name, a, text)
    BY <1>4, <1>7 DEF name
  <2> HIDE DEF a
  <2> QED
    BY <1>1, <1>5, <2>1, <2>2, AddsText, Zenon DEF name, text
<1>8. CASE type \notin {"plain", "include"}
  <2>1. AreAttributes(<<>>, name) /\ NoQuote(<<>>)
    BY AttributesNone
  <2>2. TokenCalls(k) = TextElement(name, <<>>, text)
    BY <1>4, <1>8 DEF name
  <2> QED
    BY <1>1, <1>5, <2>1, <2>2, AddsText, Zenon DEF name, text
<1> QED
  BY <1>6, <1>7, <1>8, Zenon

(* one token or two *)
NextTokens(k, n) == TokenCalls(k) \o (IF n = 2 THEN TokenCalls(k + 1) ELSE <<>>)
NextTexts(k, n) == TokenText(line, k) \o (IF n = 2 THEN TokenText(line, k + 1) ELSE <<>>)

LEMMA AddsTokens ==
    ASSUME line \in DOMAIN Tokens, NEW k \in DOMAIN Tokens[line], NEW n \in 1..2,
           n = 2 => k + 1 \in DOMAIN Tokens[line]
    PROVE  Adds(NextTokens(k, n), NextTexts(k, n), TRUE) /\ Sealing(NextTokens(k, n))
<1> DEFINE a == TokenCalls(k)
           b == IF n = 2 THEN TokenCalls(k + 1) ELSE <<>>
           x == TokenText(line, k)
           y == IF n = 2 THEN TokenText(line, k + 1) ELSE <<>>
<1>1. Adds(a, x, TRUE) /\ Sealing(a)
  BY AddsToken, Zenon
<1>2. Adds(b, y, TRUE)
  <2>1. CASE n = 2
    BY <2>1, AddsToken, Zenon
  <2>2. CASE n # 2
    BY <2>2, AddsNothing, Zenon
  <2> QED
    BY <2>1, <2>2, Zenon
<1> HIDE DEF a, b, x, y
<1>3. Adds(a \o b, x \o y, TRUE /\ TRUE)
  BY <1>1, <1>2, AddsBoth, Zenon
<1>4. Adds(a \o b, x \o y, TRUE)
  BY <1>3, AddsWell, Zenon
<1>5. Sealing(a \o b)
  BY <1>1, <1>2, SealsBoth DEF Adds
<1> QED
  BY <1>4, <1>5, Zenon DEF NextTokens, NextTexts, a, b, x, y

Together(a, b, c, d, e) == a \o b \o c \o d \o e
Apart(a, b, c, d, e) == a \o (b \o (c \o d) \o e)

LEMMA Regroup ==
    ASSUME NEW a, AList(a), NEW b, AList(b), NEW c, AList(c), NEW d, AList(d), NEW e, AList(e)
    PROVE  Together(a, b, c, d, e) = Apart(a, b, c, d, e)
<1>1. PICK A : a \in Seq(A)
  BY DEF AList
<1>2. PICK B : b \in Seq(B)
  BY DEF AList
<1>3. PICK C : c \in Seq(C)
  BY DEF AList
<1>4. PICK D : d \in Seq(D)
  BY DEF AList
<1>5. PICK F : e \in Seq(F)
  BY DEF AList
<1> DEFINE S == A \cup B \cup C \cup D \cup F
<1>6. a \in Seq(S) /\ b \in Seq(S) /\ c \in Seq(S) /\ d \in Seq(S) /\ e \in Seq(S)
  BY <1>1, <1>2, <1>3, <1>4, <1>5
<1> HIDE DEF S
<1>7. \A x, y \in Seq(S) : x \o y \in Seq(S)
  OBVIOUS
<1> DEFINE Associates(x, y, z) == (x \o y) \o z = x \o (y \o z)
<1>8. \A x, y, z \in Seq(S) : Associates(x, y, z)
  BY ConcatAssociative
<1> HIDE DEF Associates
<1>9. a \o b \in Seq(S) /\ c \o d \in Seq(S)
  BY <1>6, <1>7, Zenon
<1>10. b \o (c \o d) \in Seq(S)
  BY <1>6, <1>7, <1>9, Zenon
<1>11. Associates(a \o b, c, d) /\ Associates(a, b, c \o d)
  BY <1>6, <1>8, <1>9, Zenon
<1>12. Associates(a, b \o (c \o d), e)
  BY <1>6, <1>8, <1>10, Zenon
<1>13. ((a \o b) \o c) \o d = a \o (b \o (c \o d))
  BY <1>11, Zenon DEF Associates
<1> QED
  BY <1>12, <1>13, Zenon DEF Associates, Together, Apart

(* The element of a reference is broken by a quote in the name of its symbol alone. *)
LEMMA ReferenceElementIs ==
    ASSUME NEW r
    PROVE  \E name, list : /\ ReferenceElement(r) = Element(name, list) /\ name # "td"
                           /\ AreAttributes(list, name) /\ (NoQuote(list) <=> r.symbol \notin Quoted)
<1> DEFINE name == CASE "definition" \in r.flags -> "dfn" [] Link(r) # NoEntry -> "a" [] OTHER -> "span"
           a == IF Link(r) # NoEntry THEN Attribute("href", definitions[Link(r)].place) ELSE <<>>
           b == Attribute("class", Kind[r.symbol])
           c == AttributeOf("sym-ref", r.symbol, r.symbol \in Quoted)
           ab == a \o b
           abc == ab \o c
<1>1. name # "td" /\ name # "div"
  OBVIOUS
<1>2. ReferenceElement(r) = Element(name, abc)
  BY DEF ReferenceElement
<1> HIDE DEF name
<1>3. AreAttributes(a, name) /\ NoQuote(a)
  <2>1. CASE Link(r) # NoEntry
    BY <2>1, AttributesOne, Zenon DEF Attribute
  <2>2. CASE Link(r) = NoEntry
    BY <2>2, AttributesNone
  <2> QED
    BY <2>1, <2>2
<1>4. AreAttributes(b, name) /\ NoQuote(b)
  BY <1>1, AttributesOne, Zenon DEF Attribute
<1>5. AreAttributes(c, name) /\ (NoQuote(c) <=> r.symbol \notin Quoted)
  <2> DEFINE v == r.symbol
             q == r.symbol \in Quoted
  <2> HIDE DEF v, q
  <2>1. AreAttributes(AttributeOf("sym-ref", v, q), name) /\ (NoQuote(AttributeOf("sym-ref", v, q)) <=> ~q)
    BY AttributesOne
  <2> QED
    BY <2>1 DEF v, q
<1> HIDE DEF a, b, c
<1>6. AreAttributes(ab, name) /\ NoQuote(ab)
  BY <1>3, <1>4, AttributesBoth
<1> HIDE DEF ab
<1>7. AreAttributes(abc, name) /\ (NoQuote(abc) <=> r.symbol \notin Quoted)
  BY <1>5, <1>6, AttributesBoth
<1> HIDE DEF abc
<1> QED
  BY <1>1, <1>2, <1>7

(* what Put hands over for m spaces and n tokens from token k *)
PutCalls(m, before, k, n, after) ==
    [j \in 1..m |-> Characters(<<Space>>)[1]] \o before
        \o TokenCalls(k) \o (IF n = 2 THEN TokenCalls(k + 1) ELSE <<>>) \o after

PutParts(m, before, k, n, after) ==
    Repeat(m, Characters(<<Space>>)[1]) \o (before \o NextTokens(k, n) \o after)

PutTexts(m, k, n) == Repeat(m, Space) \o NextTexts(k, n)

LEMMA PutIs ==
    ASSUME line \in DOMAIN Tokens, NEW k \in DOMAIN Tokens[line], NEW n \in 1..2,
           n = 2 => k + 1 \in DOMAIN Tokens[line], NEW m \in Nat,
           NEW before, AList(before), NEW after, AList(after)
    PROVE  PutCalls(m, before, k, n, after) = PutParts(m, before, k, n, after)
<1> DEFINE a == [j \in 1..m |-> Characters(<<Space>>)[1]]
           c == TokenCalls(k)
           d == IF n = 2 THEN TokenCalls(k + 1) ELSE <<>>
<1>1. AList(a)
  BY RepeatMore, Zenon DEF Repeat
<1>2. AList(c)
  BY AddsToken, Zenon DEF Adds
<1>3. AList(d)
  <2>1. CASE n = 2
    BY <2>1, AddsToken, Zenon DEF Adds
  <2>2. CASE n # 2
    BY <2>2, ElementsAreLists
  <2> QED
    BY <2>1, <2>2
<1>4. Repeat(m, Characters(<<Space>>)[1]) = a
  BY DEF Repeat
<1> HIDE DEF a, c, d
<1>5. Together(a, before, c, d, after) = Apart(a, before, c, d, after)
  BY <1>1, <1>2, <1>3, Regroup
<1> QED
  BY <1>4, <1>5, Zenon DEF PutCalls, PutParts, Together, Apart, NextTokens, a, c, d

LEMMA PutAdds ==
    ASSUME line \in DOMAIN Tokens, NEW k \in DOMAIN Tokens[line], NEW n \in 1..2,
           n = 2 => k + 1 \in DOMAIN Tokens[line], NEW m \in Nat,
           NEW before, AList(before), NEW after, AList(after), NEW ok,
           Adds(before \o NextTokens(k, n) \o after, NextTexts(k, n), ok),
           Sealing(before \o NextTokens(k, n) \o after)
    PROVE  /\ Adds(PutCalls(m, before, k, n, after), PutTexts(m, k, n), ok)
           /\ Sealing(PutCalls(m, before, k, n, after))
<1> DEFINE a == Repeat(m, Characters(<<Space>>)[1])
           b == before \o NextTokens(k, n) \o after
           x == Repeat(m, Space)
           y == NextTexts(k, n)
<1>1. Adds(a, x, TRUE) /\ (m # 0 => Sealing(a)) /\ (m = 0 => a = <<>>)
  <2>1. m = 0 => a = <<>>
    BY DEF Repeat
  <2> QED
    BY <2>1, AddsSpaces, Zenon
<1>2. PutCalls(m, before, k, n, after) = a \o b
  <2>1. PutCalls(m, before, k, n, after) = PutParts(m, before, k, n, after)
    BY PutIs
  <2> QED
    BY <2>1 DEF PutParts
<1>3. Adds(b, y, ok) /\ Sealing(b)
  OBVIOUS
<1> HIDE DEF a, b, x, y
<1> DEFINE yes == TRUE
           good == yes /\ ok
<1>6. good <=> ok
  OBVIOUS
<1>7. Adds(a, x, yes)
  BY <1>1, Zenon
<1> HIDE DEF yes
<1>4. Adds(a \o b, x \o y, good)
  BY <1>3, <1>7, AddsBoth
<1>5. Sealing(a \o b)
  BY <1>1, <1>3, SealsBoth DEF Adds
<1> DEFINE f(r) == Followed("make", r, a \o b)
<1>8. Adds(a \o b, x \o y, ok)
  <2> HIDE DEF f, good
  <2>1. AList(a \o b) /\ AList(x \o y) /\ \A r : WellRead(r) /\ ~r.inTag => Grown(r, f(r), x \o y, good)
    BY <1>4 DEF Adds, f, good
  <2>2. ASSUME NEW r, WellRead(r), ~r.inTag PROVE Grown(r, f(r), x \o y, ok)
    <3>1. Grown(r, f(r), x \o y, good)
      BY <2>1, <2>2
    <3> QED
      BY <1>6, <3>1 DEF Grown
  <2> QED
    BY <2>1, <2>2 DEF Adds, f
<1> QED
  BY <1>2, <1>5, <1>8 DEF PutTexts, x, y

(* Tokens in no element, and in one. *)
LEMMA PutPlain ==
    ASSUME line \in DOMAIN Tokens, NEW k \in DOMAIN Tokens[line], NEW m \in Nat
    PROVE  /\ Adds(PutCalls(m, <<>>, k, 1, <<>>), PutTexts(m, k, 1), TRUE)
           /\ Sealing(PutCalls(m, <<>>, k, 1, <<>>))
<1> DEFINE b == NextTokens(k, 1)
<1>1. Adds(b, NextTexts(k, 1), TRUE) /\ Sealing(b)
  <2>1. 1 \in 1..2 /\ (1 = 2 => k + 1 \in DOMAIN Tokens[line])
    OBVIOUS
  <2> QED
    BY <2>1, AddsTokens, Zenon
<1> HIDE DEF b
<1>2. <<>> \o b \o <<>> = b
  BY <1>1 DEF Adds, AList
<1> DEFINE c == <<>> \o b \o <<>>
<1>3. Adds(c, NextTexts(k, 1), TRUE) /\ Sealing(c)
  BY <1>1, <1>2, Zenon
<1>4. Adds(<<>> \o NextTokens(k, 1) \o <<>>, NextTexts(k, 1), TRUE) /\ Sealing(<<>> \o NextTokens(k, 1) \o <<>>)
  BY <1>3, Zenon DEF b
<1> HIDE DEF c
<1>5. 1 \in 1..2 /\ (1 = 2 => k + 1 \in DOMAIN Tokens[line]) /\ AList(<<>>)
  BY ElementsAreLists
<1> QED
  BY <1>4, <1>5, PutAdds, Zenon

LEMMA PutElement ==
    ASSUME line \in DOMAIN Tokens, NEW k \in DOMAIN Tokens[line], NEW n \in 1..2,
           n = 2 => k + 1 \in DOMAIN Tokens[line], NEW m \in Nat,
           NEW name, name # "td", NEW list, AreAttributes(list, name)
    PROVE  /\ Adds(PutCalls(m, Element(name, list), k, n, End), PutTexts(m, k, n), NoQuote(list))
           /\ Sealing(PutCalls(m, Element(name, list), k, n, End))
<1> DEFINE b == NextTokens(k, n)
           y == NextTexts(k, n)
           el == Element(name, list)
           ok == NoQuote(list)
           good == ok /\ TRUE
<1>1. Adds(b, y, TRUE) /\ Sealing(b)
  BY AddsTokens, Zenon
<1> HIDE DEF b, y
<1>2. Adds(el \o b \o End, y, good) /\ Sealing(el \o b \o End)
  BY <1>1, AddsElement, Zenon
<1>3. AList(el) /\ AList(End)
  <2>1. el = <<Start(name)>> \o list /\ AList(<<Start(name)>>) /\ AList(list)
    BY OneIsList DEF Element, Start, AreAttributes
  <2> QED
    BY <2>1, OneIsList, ListsJoined DEF End
<1>4. good <=> ok
  OBVIOUS
<1> DEFINE q == el \o b \o End
           f(r) == Followed("make", r, q)
<1> HIDE DEF el, ok, good, q
<1>5. Adds(q, y, ok)
  <2> HIDE DEF f
  <2>1. AList(q) /\ AList(y) /\ \A r : WellRead(r) /\ ~r.inTag => Grown(r, f(r), y, good)
    BY <1>2 DEF Adds, f, q
  <2>2. ASSUME NEW r, WellRead(r), ~r.inTag PROVE Grown(r, f(r), y, ok)
    <3>1. Grown(r, f(r), y, good)
      BY <2>1, <2>2
    <3> QED
      BY <1>4, <3>1 DEF Grown
  <2> QED
    BY <2>1, <2>2 DEF Adds, f
<1>6. Adds(el \o NextTokens(k, n) \o End, NextTexts(k, n), ok) /\ Sealing(el \o NextTokens(k, n) \o End)
  BY <1>2, <1>5 DEF q, b, y
<1>7. /\ Adds(PutCalls(m, el, k, n, End), PutTexts(m, k, n), ok)
      /\ Sealing(PutCalls(m, el, k, n, End))
  BY <1>3, <1>6, PutAdds
<1> QED
  BY <1>7 DEF el, ok

-----------------------------------------------------------------------------
(* THE TEXT OF A LINE: its tokens, with spaces between them. *)

LEMMA ListsJoinedAt ==
    ASSUME NEW q, AList(q), NEW s, AList(s)
    PROVE  /\ AList(Chained(q, s)) /\ Len(q) \in Nat /\ Len(s) \in Nat
           /\ Len(Chained(q, s)) = Len(q) + Len(s)
           /\ \A k \in 1..Len(q) : Chained(q, s)[k] = q[k]
           /\ \A k \in 1..Len(s) : Chained(q, s)[Len(q) + k] = s[k]
<1>1. PICK S : q \in Seq(S)
  BY DEF AList
<1>2. PICK U : s \in Seq(U)
  BY DEF AList
<1> DEFINE E == S \cup U
           both == q \o s
<1>3. q \in Seq(E) /\ s \in Seq(E)
  BY <1>1, <1>2
<1> HIDE DEF E
<1>4. /\ both \in Seq(E) /\ Len(both) = Len(q) + Len(s)
      /\ \A k \in 1..Len(q) : both[k] = q[k]
      /\ \A k \in 1..Len(s) : both[Len(q) + k] = s[k]
  BY <1>3, Concatenated
<1>5. Len(q) \in Nat /\ Len(s) \in Nat
  BY <1>3
<1> HIDE DEF both
<1> QED
  BY <1>4, <1>5 DEF both, Chained, AList

LEMMA ListsEqual ==
    ASSUME NEW q, AList(q), NEW s, AList(s), Len(q) = Len(s), \A k \in 1..Len(q) : q[k] = s[k]
    PROVE  q = s
<1>1. PICK S : q \in Seq(S)
  BY DEF AList
<1>2. PICK U : s \in Seq(U)
  BY DEF AList
<1> DEFINE E == S \cup U
<1>3. q \in Seq(E) /\ s \in Seq(E)
  BY <1>1, <1>2
<1> HIDE DEF E
<1> QED
  BY <1>3, SeqEqual

LEMMA ChainedThrice ==
    ASSUME NEW a, AList(a), NEW b, AList(b), NEW c, AList(c)
    PROVE  Chained(a, Chained(b, c)) = Chained(Chained(a, b), c)
<1>1. PICK A : a \in Seq(A)
  BY DEF AList
<1>2. PICK B : b \in Seq(B)
  BY DEF AList
<1>3. PICK C : c \in Seq(C)
  BY DEF AList
<1> DEFINE S == A \cup B \cup C
<1>4. a \in Seq(S) /\ b \in Seq(S) /\ c \in Seq(S)
  BY <1>1, <1>2, <1>3
<1> HIDE DEF S
<1>5. (a \o b) \o c = a \o (b \o c)
  BY <1>4, ConcatAssociative
<1> QED
  BY <1>5 DEF Chained

LEMMA FunctionIsList ==
    ASSUME NEW n \in Nat, NEW f, DOMAIN f = 1..n, f = [k \in 1..n |-> f[k]]
    PROVE  AList(f) /\ Len(f) = n
<1> DEFINE S == {f[k] : k \in 1..n}
<1>1. f \in [1..n -> S]
  OBVIOUS
<1>2. f \in Seq(S) /\ Len(f) = n
  <2> HIDE DEF S
  <2> QED
    BY <1>1
<1> QED
  BY <1>2, Zenon DEF AList
EndOfToken(l, k) == Tokens[l][k].col + Tokens[l][k].width

(* The columns of the tokens of a line, as plain numbers. *)
LEMMA ColumnsOfLine ==
    ASSUME NEW l \in DOMAIN Tokens, NEW k \in DOMAIN Tokens[l]
    PROVE  /\ Tokens[l][k].col \in Nat /\ Tokens[l][k].width \in Nat
           /\ EndOfToken(l, k) \in Nat /\ Tokens[l][k].col <= EndOfToken(l, k)
           /\ \A j \in DOMAIN Tokens[l] :
                 /\ j < k => EndOfToken(l, j) <= Tokens[l][k].col
                 /\ k < j => EndOfToken(l, k) <= Tokens[l][j].col
<1>1. Tokens[l][k].col \in Nat /\ Tokens[l][k].width \in Nat
  BY TokensOfLine
<1>2. EndOfToken(l, k) \in Nat /\ Tokens[l][k].col <= EndOfToken(l, k)
  BY <1>1 DEF EndOfToken
<1>3. ASSUME NEW j \in DOMAIN Tokens[l]
      PROVE  /\ j < k => EndOfToken(l, j) <= Tokens[l][k].col
             /\ k < j => EndOfToken(l, k) <= Tokens[l][j].col
  BY TokensOfLine, Zenon DEF EndOfToken
<1> QED
  BY <1>1, <1>2, <1>3

LEMMA EndIs ==
    ASSUME NEW l \in DOMAIN Tokens
    PROVE  /\ EndOfLine(l) \in Nat
           /\ Len(Tokens[l]) = 0 => EndOfLine(l) = 0
           /\ Len(Tokens[l]) # 0 => EndOfLine(l) = EndOfToken(l, Len(Tokens[l]))
           /\ \A k \in DOMAIN Tokens[l] : EndOfToken(l, k) <= EndOfLine(l)
<1> DEFINE n == Len(Tokens[l])
<1>1. n \in Nat /\ DOMAIN Tokens[l] = 1..n /\ (Tokens[l] = <<>> <=> n = 0)
  <2>1. Tokens[l] \in Seq(Token)
    BY PageAssumption
  <2> QED
    BY <2>1
<1>2. CASE n = 0
  <2>1. EndOfLine(l) = 0
    BY <1>1, <1>2 DEF EndOfLine
  <2>2. ~ \E k \in DOMAIN Tokens[l] : TRUE
    BY <1>1, <1>2
  <2> QED
    BY <1>2, <2>1, <2>2
<1>3. CASE n # 0
  <2>1. n \in DOMAIN Tokens[l]
    BY <1>1, <1>3
  <2>2. EndOfLine(l) = EndOfToken(l, n)
    BY <1>1, <1>3 DEF EndOfLine, EndOfToken
  <2>3. EndOfToken(l, n) \in Nat
    BY <2>1, ColumnsOfLine
  <2>4. ASSUME NEW k \in DOMAIN Tokens[l] PROVE EndOfToken(l, k) <= EndOfToken(l, n)
    <3>1. CASE k = n
      BY <2>3, <3>1
    <3>2. CASE k # n
      <4>1. k < n
        BY <1>1, <3>2
      <4>2. EndOfToken(l, k) \in Nat /\ EndOfToken(l, k) <= Tokens[l][n].col
        BY <2>1, <4>1, ColumnsOfLine
      <4>3. Tokens[l][n].col \in Nat /\ Tokens[l][n].col <= EndOfToken(l, n)
        BY <2>1, ColumnsOfLine
      <4> QED
        BY <2>3, <4>2, <4>3
    <3> QED
      BY <3>1, <3>2
  <2> HIDE DEF n
  <2> QED
    BY <1>3, <2>2, <2>3, <2>4 DEF n
<1> QED
  BY <1>2, <1>3

TokensAt(l, c) ==
    {k \in DOMAIN Tokens[l] : Tokens[l][k].col < c /\ c <= Tokens[l][k].col + Tokens[l][k].width}

LEMMA CharacterIs ==
    ASSUME NEW l \in DOMAIN Tokens, NEW c \in 1..EndOfLine(l)
    PROVE  /\ LineText(l)[c] =
                  IF TokensAt(l, c) # {}
                  THEN LET k == CHOOSE k \in TokensAt(l, c) : TRUE
                       IN  [tok |-> k, at |-> c - Tokens[l][k].col]
                  ELSE IF <<l, c>> \in Blanks THEN Blank ELSE Space
           /\ PlainText(l)[c] = IF LineText(l)[c] = Blank THEN Space ELSE LineText(l)[c]
<1>1. EndOfLine(l) \in Nat /\ Lengths[l] \in Nat /\ EndOfLine(l) <= Lengths[l]
  BY EndIs, LineAssumption
<1>2. c \in 1..Lengths[l]
  BY <1>1
<1> QED
  BY <1>2 DEF LineText, TokensAt, PlainText

(* A token is where it is, and there is nothing but blanks between two, of which each is
   written as a space. *)
LEMMA CharacterOfToken ==
    ASSUME NEW l \in DOMAIN Tokens, NEW k \in DOMAIN Tokens[l], NEW c \in Nat,
           Tokens[l][k].col < c, c <= EndOfToken(l, k)
    PROVE  /\ c \in 1..EndOfLine(l)
           /\ LineText(l)[c] = [tok |-> k, at |-> c - Tokens[l][k].col] /\ PlainText(l)[c] = LineText(l)[c]
<1>1. Tokens[l][k].col \in Nat /\ EndOfToken(l, k) \in Nat
  BY ColumnsOfLine
<1>2. EndOfLine(l) \in Nat /\ EndOfToken(l, k) <= EndOfLine(l)
  BY EndIs
<1>3. c \in 1..EndOfLine(l)
  BY <1>1, <1>2
<1>4. TokensAt(l, c) = {k}
  <2>1. k \in TokensAt(l, c)
    BY DEF TokensAt, EndOfToken
  <2>2. ASSUME NEW j \in TokensAt(l, c), j # k PROVE FALSE
    <3>1. j \in DOMAIN Tokens[l] /\ Tokens[l][j].col < c /\ c <= EndOfToken(l, j)
      BY DEF TokensAt, EndOfToken
    <3>2. Tokens[l][j].col \in Nat /\ EndOfToken(l, j) \in Nat
      BY <3>1, ColumnsOfLine
    <3>3. j < k \/ k < j
      <4>1. j \in Nat /\ k \in Nat
        BY <3>1, TokensOfLine
      <4> QED
        BY <2>2, <4>1
    <3>4. j < k => EndOfToken(l, j) <= Tokens[l][k].col
      BY <3>1, ColumnsOfLine
    <3>5. k < j => EndOfToken(l, k) <= Tokens[l][j].col
      BY <3>1, ColumnsOfLine
    <3> QED
      BY <1>1, <3>1, <3>2, <3>3, <3>4, <3>5
  <2> QED
    BY <2>1, <2>2
<1>5. (CHOOSE j \in {k} : TRUE) = k /\ {k} # {}
  OBVIOUS
<1>6. LineText(l)[c] = [tok |-> k, at |-> c - Tokens[l][k].col]
  BY <1>3, <1>4, <1>5, CharacterIs
<1>7. [tok |-> k, at |-> c - Tokens[l][k].col] # Blank
  <2>1. k # 0
    BY TokensOfLine
  <2> QED
    BY <2>1 DEF Blank
<1> QED
  BY <1>3, <1>6, <1>7, CharacterIs

LEMMA CharacterBetween ==
    ASSUME NEW l \in DOMAIN Tokens, NEW k \in DOMAIN Tokens[l], NEW c \in Nat \ {0},
           c <= Tokens[l][k].col, k # 1 => EndOfToken(l, k - 1) < c
    PROVE  c \in 1..EndOfLine(l) /\ PlainText(l)[c] = Space
<1>1. Tokens[l][k].col \in Nat /\ EndOfToken(l, k) \in Nat /\ Tokens[l][k].col <= EndOfToken(l, k)
  BY ColumnsOfLine
<1>2. EndOfLine(l) \in Nat /\ EndOfToken(l, k) <= EndOfLine(l)
  BY EndIs
<1>3. c \in 1..EndOfLine(l)
  BY <1>1, <1>2
<1>4. TokensAt(l, c) = {}
  <2> SUFFICES ASSUME NEW j \in TokensAt(l, c) PROVE FALSE
    OBVIOUS
  <2>1. j \in DOMAIN Tokens[l] /\ Tokens[l][j].col < c /\ c <= EndOfToken(l, j)
    BY DEF TokensAt, EndOfToken
  <2>2. Tokens[l][j].col \in Nat /\ EndOfToken(l, j) \in Nat
    BY <2>1, ColumnsOfLine
  <2>3. Len(Tokens[l]) \in Nat /\ DOMAIN Tokens[l] = 1..Len(Tokens[l])
    BY TokensOfLine
  <2>4. j = k \/ k < j \/ j = k - 1 \/ j < k - 1
    BY <2>1, <2>3
  <2>5. CASE j = k
    BY <1>1, <2>1, <2>2, <2>5
  <2>6. CASE k < j
    <3>1. EndOfToken(l, k) <= Tokens[l][j].col
      BY <2>1, <2>6, ColumnsOfLine
    <3> QED
      BY <1>1, <2>1, <2>2, <3>1
  <2>7. CASE j = k - 1
    <3>1. k # 1
      BY <2>1, <2>3, <2>7
    <3> QED
      BY <2>1, <2>2, <2>7, <3>1
  <2>8. CASE j < k - 1
    <3>1. k # 1 /\ k - 1 \in DOMAIN Tokens[l]
      BY <2>1, <2>3, <2>8
    <3>2. /\ Tokens[l][k - 1].col \in Nat /\ EndOfToken(l, k - 1) \in Nat
          /\ Tokens[l][k - 1].col <= EndOfToken(l, k - 1)
      BY <3>1, ColumnsOfLine
    <3>3. EndOfToken(l, j) <= Tokens[l][k - 1].col
      BY <2>1, <2>8, <3>1, ColumnsOfLine
    <3> QED
      BY <2>1, <2>2, <3>1, <3>2, <3>3
  <2> QED
    BY <2>4, <2>5, <2>6, <2>7, <2>8
<1>5. LineText(l)[c] = Blank \/ LineText(l)[c] = Space
  BY <1>3, <1>4, CharacterIs, Zenon
<1>6. PlainText(l)[c] = IF LineText(l)[c] = Blank THEN Space ELSE LineText(l)[c]
  BY <1>3, CharacterIs, Zenon
<1> QED
  BY <1>3, <1>5, <1>6

(* A line up to a column. *)
LineUpTo(l, c) == [j \in 1..c |-> PlainText(l)[j]]

(* where the token before token k ends *)
EndBefore(l, k) == IF k = 1 THEN 0 ELSE EndOfToken(l, k - 1)

LEMMA UpToIsList ==
    ASSUME NEW l, NEW c \in Nat
    PROVE  AList(LineUpTo(l, c)) /\ Len(LineUpTo(l, c)) = c
<1> DEFINE f == LineUpTo(l, c)
<1>1. DOMAIN f = 1..c /\ f = [k \in 1..c |-> f[k]]
  BY DEF LineUpTo
<1> HIDE DEF f
<1>2. AList(f) /\ Len(f) = c
  BY <1>1, FunctionIsList
<1> QED
  BY <1>2 DEF f

LEMMA EndBeforeIs ==
    ASSUME NEW l \in DOMAIN Tokens, NEW k \in DOMAIN Tokens[l]
    PROVE  EndBefore(l, k) \in Nat /\ EndBefore(l, k) <= Tokens[l][k].col
<1>1. Len(Tokens[l]) \in Nat /\ DOMAIN Tokens[l] = 1..Len(Tokens[l])
  BY TokensOfLine
<1>2. Tokens[l][k].col \in Nat
  BY ColumnsOfLine
<1>3. CASE k = 1
  BY <1>2, <1>3 DEF EndBefore
<1>4. CASE k # 1
  <2>1. k - 1 \in DOMAIN Tokens[l] /\ k - 1 < k
    BY <1>1, <1>4
  <2>2. EndOfToken(l, k - 1) \in Nat /\ EndOfToken(l, k - 1) <= Tokens[l][k].col
    BY <2>1, ColumnsOfLine
  <2> QED
    BY <1>4, <2>2 DEF EndBefore
<1> QED
  BY <1>3, <1>4

LEMMA LineGrows ==
    ASSUME NEW l \in DOMAIN Tokens, NEW k \in DOMAIN Tokens[l]
    PROVE  Chained(Chained(LineUpTo(l, EndBefore(l, k)),
                           Repeat(Tokens[l][k].col - EndBefore(l, k), Space)),
                   TokenText(l, k))
               = LineUpTo(l, EndOfToken(l, k))
<1> DEFINE from == EndBefore(l, k)
           begin == Tokens[l][k].col
           end == EndOfToken(l, k)
           gap == begin - from
           a == LineUpTo(l, from)
           b == Repeat(gap, Space)
           c == TokenText(l, k)
           ab == Chained(a, b)
           abc == Chained(ab, c)
           all == LineUpTo(l, end)
<1>1. /\ from \in Nat /\ begin \in Nat /\ end \in Nat /\ from <= begin /\ begin <= end
      /\ Tokens[l][k].width = end - begin
  <2>1. EndBefore(l, k) \in Nat /\ EndBefore(l, k) <= Tokens[l][k].col
    BY EndBeforeIs
  <2>2. /\ Tokens[l][k].col \in Nat /\ EndOfToken(l, k) \in Nat /\ Tokens[l][k].width \in Nat
        /\ Tokens[l][k].col <= EndOfToken(l, k)
    BY ColumnsOfLine
  <2> QED
    BY <2>1, <2>2 DEF EndOfToken
<1>2. gap \in Nat
  BY <1>1
<1>3. AList(a) /\ Len(a) = from /\ \A j \in 1..from : a[j] = PlainText(l)[j]
  <2>1. AList(a) /\ Len(a) = from
    BY <1>1, UpToIsList
  <2> QED
    BY <2>1, Zenon DEF LineUpTo
<1>4. AList(all) /\ Len(all) = end /\ \A j \in 1..end : all[j] = PlainText(l)[j]
  <2>1. AList(all) /\ Len(all) = end
    BY <1>1, UpToIsList
  <2> QED
    BY <2>1, Zenon DEF LineUpTo
<1>5. AList(b) /\ Len(b) = gap /\ \A j \in 1..gap : b[j] = Space
  <2>1. AList(b) /\ Len(b) = gap
    BY <1>2, RepeatMore, Zenon
  <2> QED
    BY <2>1, Zenon DEF Repeat
<1>6. AList(c) /\ Len(c) = end - begin /\ \A j \in 1..end - begin : c[j] = [tok |-> k, at |-> j]
  <2>1. AList(c) /\ Len(c) = end - begin
    BY <1>1, TextIsList
  <2> QED
    BY <1>1, <2>1 DEF TokenText
<1>7. \A j \in Nat : begin < j /\ j <= end => PlainText(l)[j] = [tok |-> k, at |-> j - begin]
  BY CharacterOfToken
<1>8. \A j \in Nat : from < j /\ j <= begin => PlainText(l)[j] = Space
  <2> SUFFICES ASSUME NEW j \in Nat, from < j, j <= begin PROVE PlainText(l)[j] = Space
    OBVIOUS
  <2>1. j # 0 /\ (k # 1 => EndOfToken(l, k - 1) < j)
    BY <1>1 DEF EndBefore
  <2> QED
    BY <2>1, CharacterBetween
<1> HIDE DEF gap, a, b, c, all
<1>9. /\ AList(ab) /\ Len(ab) = begin
      /\ \A j \in 1..from : ab[j] = a[j]
      /\ \A j \in 1..gap : ab[from + j] = b[j]
  <2>1. /\ AList(ab) /\ Len(ab) = Len(a) + Len(b)
        /\ \A j \in 1..Len(a) : ab[j] = a[j]
        /\ \A j \in 1..Len(b) : ab[Len(a) + j] = b[j]
    <3>1. AList(a) /\ AList(b)
      BY <1>3, <1>5
    <3> QED
      BY <3>1, ListsJoinedAt
  <2> HIDE DEF ab
  <2> QED
    BY <1>1, <1>3, <1>5, <2>1 DEF gap
<1> HIDE DEF ab
<1>10. /\ AList(abc) /\ Len(abc) = end
       /\ \A j \in 1..begin : abc[j] = ab[j]
       /\ \A j \in 1..end - begin : abc[begin + j] = c[j]
  <2>1. /\ AList(abc) /\ Len(abc) = Len(ab) + Len(c)
        /\ \A j \in 1..Len(ab) : abc[j] = ab[j]
        /\ \A j \in 1..Len(c) : abc[Len(ab) + j] = c[j]
    <3>1. AList(ab) /\ AList(c)
      BY <1>6, <1>9
    <3> QED
      BY <3>1, ListsJoinedAt
  <2> HIDE DEF abc
  <2> QED
    BY <1>1, <1>6, <1>9, <2>1
<1> HIDE DEF abc, from, begin, end
<1>11. ASSUME NEW j \in 1..end PROVE abc[j] = all[j]
  <2>1. CASE j <= from
    <3>1. j \in 1..from /\ j \in 1..begin
      BY <1>1, <2>1
    <3> QED
      BY <1>3, <1>4, <1>9, <1>10, <3>1
  <2>2. CASE from < j /\ j <= begin
    <3>1. j \in 1..begin /\ j - from \in 1..gap /\ j = from + (j - from)
      BY <1>1, <2>2 DEF gap
    <3>2. abc[j] = ab[j] /\ ab[j] = b[j - from] /\ b[j - from] = Space
      BY <1>5, <1>9, <1>10, <3>1
    <3> QED
      BY <1>4, <1>8, <2>2, <3>2
  <2>3. CASE begin < j
    <3>1. j - begin \in 1..end - begin /\ j = begin + (j - begin)
      BY <1>1, <2>3
    <3>2. abc[j] = c[j - begin] /\ c[j - begin] = [tok |-> k, at |-> j - begin]
      BY <1>6, <1>10, <3>1
    <3>3. PlainText(l)[j] = [tok |-> k, at |-> j - begin]
      BY <1>7, <2>3
    <3> QED
      BY <1>4, <3>2, <3>3
  <2> QED
    BY <1>1, <2>1, <2>2, <2>3
<1>12. abc = all
  BY <1>4, <1>10, <1>11, ListsEqual
<1> QED
  BY <1>12 DEF abc, ab, a, b, c, all, gap, from, begin, end

(* What Put puts out for n tokens continues the line, if a second one is right behind. *)
LEMMA LinePut ==
    ASSUME line \in DOMAIN Tokens, NEW k \in DOMAIN Tokens[line], NEW n \in 1..2,
           n = 2 => /\ k + 1 \in DOMAIN Tokens[line]
                    /\ EndOfToken(line, k) = Tokens[line][k + 1].col
    PROVE  Chained(LineUpTo(line, EndBefore(line, k)),
                   PutTexts(Tokens[line][k].col - EndBefore(line, k), k, n))
               = LineUpTo(line, EndOfToken(line, k + n - 1))
<1> DEFINE gap == Tokens[line][k].col - EndBefore(line, k)
           a == LineUpTo(line, EndBefore(line, k))
           b == Repeat(gap, Space)
           c == TokenText(line, k)
           d == IF n = 2 THEN TokenText(line, k + 1) ELSE <<>>
<1>1. EndBefore(line, k) \in Nat /\ gap \in Nat /\ k \in Nat
  <2>1. EndBefore(line, k) \in Nat /\ EndBefore(line, k) <= Tokens[line][k].col
    BY EndBeforeIs
  <2>2. Tokens[line][k].col \in Nat
    BY ColumnsOfLine
  <2>3. k \in Nat
    BY TokensOfLine
  <2> QED
    BY <2>1, <2>2, <2>3
<1>2. AList(a) /\ AList(b) /\ AList(c)
  <2>1. AList(a)
    BY <1>1, UpToIsList
  <2>2. AList(b)
    BY <1>1, RepeatMore, Zenon
  <2>3. AList(c)
    BY TextIsList
  <2> QED
    BY <2>1, <2>2, <2>3
<1>3. Chained(Chained(a, b), c) = LineUpTo(line, EndOfToken(line, k))
  BY LineGrows
<1>4. PutTexts(gap, k, n) = Chained(b, Chained(c, d))
  BY DEF PutTexts, NextTexts, Chained
<1>5. CASE n = 1
  <2>1. Chained(c, d) = c /\ k + n - 1 = k
    <3>1. d = <<>>
      BY <1>5
    <3> HIDE DEF c, d
    <3>2. c \o <<>> = c
      BY <1>2 DEF AList
    <3> QED
      BY <1>1, <1>5, <3>1, <3>2 DEF Chained
  <2> HIDE DEF a, b, c, d, gap
  <2>2. Chained(a, Chained(b, c)) = Chained(Chained(a, b), c)
    BY <1>2, ChainedThrice
  <2> QED
    BY <1>3, <1>4, <2>1, <2>2 DEF a, gap
<1>6. CASE n = 2
  <2>1. AList(d) /\ d = TokenText(line, k + 1) /\ k + 1 \in DOMAIN Tokens[line] /\ k + n - 1 = k + 1
    BY <1>1, <1>6, TextIsList
  <2>2. EndBefore(line, k + 1) = EndOfToken(line, k) /\ EndOfToken(line, k) = Tokens[line][k + 1].col
    <3>1. k + 1 # 1 /\ (k + 1) - 1 = k
      <4>1. k # 0
        BY TokensOfLine
      <4> QED
        BY <1>1, <4>1
    <3> QED
      BY <1>6, <3>1 DEF EndBefore
  <2> DEFINE abc == LineUpTo(line, EndOfToken(line, k))
             none == Repeat(Tokens[line][k + 1].col - EndBefore(line, k + 1), Space)
  <2>3. Chained(Chained(abc, none), d) = LineUpTo(line, EndOfToken(line, k + 1))
    BY <2>1, <2>2, LineGrows
  <2>4. none = <<>>
    <3>1. EndOfToken(line, k) \in Nat
      BY ColumnsOfLine
    <3>2. Tokens[line][k + 1].col - EndBefore(line, k + 1) = 0
      BY <2>2, <3>1
    <3> QED
      BY <3>2 DEF Repeat
  <2>5. AList(abc)
    <3>1. EndOfToken(line, k) \in Nat
      BY ColumnsOfLine
    <3> QED
      BY <3>1, UpToIsList
  <2> HIDE DEF abc, none
  <2>6. Chained(abc, none) = abc
    <3>1. abc \o <<>> = abc
      BY <2>5 DEF AList
    <3> QED
      BY <2>4, <3>1 DEF Chained
  <2>7. Chained(abc, d) = LineUpTo(line, EndOfToken(line, k + 1))
    BY <2>3, <2>6
  <2> HIDE DEF a, b, c, d, gap
  <2>8. /\ Chained(a, Chained(b, Chained(c, d))) = Chained(Chained(a, b), Chained(c, d))
        /\ Chained(Chained(a, b), Chained(c, d)) = Chained(Chained(Chained(a, b), c), d)
    <3>1. AList(Chained(c, d)) /\ AList(Chained(a, b))
      BY <1>2, <2>1, ListsJoinedAt
    <3>2. Chained(a, Chained(b, Chained(c, d))) = Chained(Chained(a, b), Chained(c, d))
      <4> DEFINE cd == Chained(c, d)
      <4> HIDE DEF cd
      <4>1. Chained(a, Chained(b, cd)) = Chained(Chained(a, b), cd)
        BY <1>2, <3>1, ChainedThrice DEF cd
      <4> QED
        BY <4>1 DEF cd
    <3>3. Chained(Chained(a, b), Chained(c, d)) = Chained(Chained(Chained(a, b), c), d)
      <4> DEFINE ab == Chained(a, b)
      <4> HIDE DEF ab
      <4>1. Chained(ab, Chained(c, d)) = Chained(Chained(ab, c), d)
        BY <1>2, <2>1, <3>1, ChainedThrice DEF ab
      <4> QED
        BY <4>1 DEF ab
    <3> QED
      BY <3>2, <3>3
  <2> QED
    BY <1>3, <1>4, <2>1, <2>7, <2>8 DEF abc, a, gap
<1> QED
  BY <1>5, <1>6

-----------------------------------------------------------------------------
(* THE PAGE OF A FILE: what is read of it, line by line. *)

NoneParted(l) == \A n \in notes : n.line = l => ~Parted(n)

LineKept(l) == NoneParted(l) => Text(Shown.cells[l]) = PlainText(l)

Broken == \E n \in notes : references[n.ref].symbol \in Quoted

PageShown ==
    /\ WellRead(Shown) /\ Len(Shown.cells) = line /\ (Shown.good <=> ~Broken)
    /\ \A n \in notes : n.line \in 1..line

(* While the page is written, a browser that is given all the calls that were handed over
   has every line that is behind, and the line that is written up to its column. *)
ShownSoFar ==
    /\ WriterInv /\ TokenInv
    /\ step \in {"load", "simplify", "head"} => Idle /\ Shown = Unread /\ notes = {} /\ line = 0
    /\ step \in {"line", "tokens", "written"} => PageShown
    /\ step = "line" => Shown.open = Ground /\ Shown.depth = 0 /\ \A l \in 1..line : LineKept(l)
    /\ step = "tokens" =>
          /\ Shown.open = InCell /\ Shown.depth = Len(InCell) /\ \A l \in 1..line - 1 : LineKept(l)
          /\ NoneParted(line) =>
                col = EndBefore(line, tok) /\ Text(Shown.cells[line]) = LineUpTo(line, col)
    /\ step = "written" => Shown.open = <<>> /\ line = Len(Tokens) /\ \A l \in 1..line : LineKept(l)

TextInv ==
    /\ step = "symbols" \/ stage = "none"
    /\ step \notin {"symbols", "undefined"} => ShownSoFar

LEMMA InitText == PagesInit => TextInv
<1> SUFFICES ASSUME PagesInit PROVE ShownSoFar
  BY DEF TextInv, PagesInit, SymbolPageInit
<1>1. /\ step = "load" /\ line = 0 /\ notes = {} /\ XmlInit
  BY DEF PagesInit, PageInit
<1>2. WriterInv /\ Shown = Unread
  BY <1>1, WriterStarts
<1>3. Idle
  BY <1>1 DEF XmlInit, Idle
<1>4. TokenInv
  <2>1. Len(Tokens) \in Nat
    BY PageAssumption
  <2> QED
    BY <1>1, <2>1 DEF TokenInv
<1> QED
  BY <1>1, <1>2, <1>3, <1>4 DEF ShownSoFar

LEMMA SameShown ==
    ASSUME ShownSoFar, UNCHANGED <<step, references, notes, line, tok, col>>,
           Shown' = Shown, WriterInv', Idle => Idle'
    PROVE  ShownSoFar'
<1>1. TokenInv'
  BY DEF ShownSoFar, TokenInv
<1>2. /\ Broken' <=> Broken
      /\ \A l : NoneParted(l)' <=> NoneParted(l)
  BY DEF Broken, NoneParted, Parted
<1>3. \A l : LineKept(l)' <=> LineKept(l)
  BY <1>2 DEF LineKept
<1>4. PageShown => PageShown'
  BY <1>2 DEF PageShown
<1>5. step \in {"load", "simplify", "head"} =>
          Idle' /\ Shown' = Unread /\ notes' = {} /\ line' = 0
  BY DEF ShownSoFar
<1>6. step = "line" => Shown'.open = Ground /\ Shown'.depth = 0 /\ \A l \in 1..line' : LineKept(l)'
  BY <1>3 DEF ShownSoFar
<1>7. step = "tokens" =>
          /\ Shown'.open = InCell /\ Shown'.depth = Len(InCell) /\ \A l \in 1..line' - 1 : LineKept(l)'
          /\ NoneParted(line)' =>
                col' = EndBefore(line', tok') /\ Text(Shown'.cells[line']) = LineUpTo(line', col')
  BY <1>2, <1>3 DEF ShownSoFar
<1>8. step = "written" => Shown'.open = <<>> /\ line' = Len(Tokens) /\ \A l \in 1..line' : LineKept(l)'
  BY <1>3 DEF ShownSoFar
<1>9. step' = step
  OBVIOUS
<1>10. step' \in {"line", "tokens", "written"} => PageShown'
  BY <1>4, <1>9 DEF ShownSoFar
<1> QED
  BY <1>1, <1>5, <1>6, <1>7, <1>8, <1>9, <1>10 DEF ShownSoFar

(* A list of calls is handed over when the one before has been made. *)
LEMMA Handed ==
    ASSUME WriterInv, Idle, NEW list, AList(list), Calls(list)
    PROVE  WriterInv' /\ Shown' = Followed("make", Shown, list)
<1>1. calls = <<>> /\ calls' = list /\ UNCHANGED <<elements, stream>>
  BY DEF Idle, Calls
<1>2. Reading' = Reading
  BY <1>1 DEF Reading
<1>3. Shown = Reading
  BY <1>1, FollowedNone DEF Shown
<1>4. Shown' = Followed("make", Reading, list)
  BY <1>1, <1>2 DEF Shown
<1>5. AList(stream)' /\ AList(calls)'
  BY <1>1 DEF WriterInv
<1>6. Tidy(elements', Reading')
  BY <1>1, <1>2 DEF WriterInv
<1> QED
  BY <1>3, <1>4, <1>5, <1>6 DEF WriterInv

LEMMA UnreadIs == WellRead(Unread) /\ ~Unread.inTag /\ Unread.good /\ Unread.open = <<>> /\ Unread.depth = 0 /\ Unread.cells = <<>>
<1>1. IsReading(Unread) /\ ~Unread.inTag /\ Unread.good /\ Unread.open = <<>> /\ Unread.depth = 0 /\ Unread.cells = <<>>
  BY DEF IsReading, Fields, Unread
<1>2. AList(<<>>) /\ Len(<<>>) = 0
  BY ElementsAreLists
<1> QED
  BY <1>1, <1>2 DEF WellRead

LEMMA HeadShown ==
    ASSUME ShownSoFar, WriteHead
    PROVE  ShownSoFar'
<1>1. /\ step = "head" /\ step' = "line" /\ Calls(HeadCalls)
      /\ UNCHANGED <<references, notes, line, tok, col>>
  BY DEF WriteHead, HeadCalls, listVars, lineVars
<1>2. WriterInv /\ Idle /\ Shown = Unread /\ notes = {} /\ line = 0
  BY <1>1 DEF ShownSoFar
<1> DEFINE list == HeadCalls
<1>3. Leads(list, <<>>, FALSE, Ground, TRUE)
  BY HeadLeads, Zenon
<1>4. AList(list)
  BY <1>3 DEF Leads
<1> HIDE DEF list
<1>5. WriterInv' /\ Shown' = Followed("make", Unread, list)
  <2>1. Calls(list)
    BY <1>1 DEF list
  <2> QED
    BY <1>2, <1>4, <2>1, Handed
<1> DEFINE s == Followed("make", Unread, list)
<1>6. WellRead(s) /\ s.depth = 0 /\ s.open = Ground /\ s.cells = <<>> /\ s.good
  BY <1>3, UnreadIs DEF Leads
<1> HIDE DEF s
<1>7. Shown' = s
  BY <1>5 DEF s
<1>8. ~Broken' /\ Len(<<>>) = 0
  BY <1>1, <1>2 DEF Broken
<1>9. PageShown'
  BY <1>1, <1>2, <1>6, <1>7, <1>8 DEF PageShown
<1>10. TokenInv'
  <2>1. Len(Tokens) \in Nat
    BY PageAssumption
  <2> QED
    BY <1>1, <1>2, <2>1 DEF TokenInv
<1>11. \A l \in 1..line' : LineKept(l)'
  BY <1>1, <1>2
<1> QED
  BY <1>1, <1>5, <1>6, <1>7, <1>9, <1>10, <1>11 DEF ShownSoFar

(* Where nothing is written, what is known of the notes stays. *)
LEMMA NotesStay ==
    ASSUME UNCHANGED <<references, notes>>
    PROVE  /\ Broken' <=> Broken
           /\ \A l : NoneParted(l)' <=> NoneParted(l)
  BY DEF Broken, NoneParted, Parted

LEMMA LineShown ==
    ASSUME ShownSoFar, BeginLine
    PROVE  ShownSoFar'
<1> DEFINE l == line + 1
           list == LineCalls(l)
           r == Shown
           s == Followed("make", r, list)
<1>1. /\ step = "line" /\ step' = "tokens" /\ line < Len(Tokens) /\ line' = l /\ Idle
      /\ tok' = 1 /\ col' = 0 /\ Calls(LineCalls(line')) /\ UNCHANGED <<references, notes>>
  BY DEF BeginLine, LineCalls, listVars
<1>2. /\ WriterInv /\ WellRead(r) /\ r.open = Ground /\ r.depth = 0 /\ Len(r.cells) = line
      /\ (r.good <=> ~Broken) /\ \A n \in notes : n.line \in 1..line
      /\ \A m \in 1..line : LineKept(m)
  BY <1>1 DEF ShownSoFar, PageShown
<1>3. line \in Nat /\ Len(Tokens) \in Nat /\ l \in DOMAIN Tokens /\ l \in Nat /\ l # 0
  BY <1>1, PageAssumption DEF ShownSoFar, TokenInv
<1> HIDE DEF r
<1>4. /\ WellRead(s) /\ s.open = InCell /\ s.depth = Len(InCell)
      /\ s.cells = Append(r.cells, <<>>) /\ (s.good <=> r.good)
  BY <1>2, LineOpens
<1>5. AList(list)
  <2> DEFINE a == Element("tr", <<>>)
             b == TextElement("th", Attribute("id", l), Words)
             td == Element("td", <<>>)
  <2>1. AList(a) /\ AList(td)
    <3>1. AList(<<Start("tr")>>) /\ AList(<<Start("td")>>) /\ AList(<<>>)
      BY OneIsList, ElementsAreLists
    <3>2. AList(<<Start("tr")>> \o <<>>) /\ AList(<<Start("td")>> \o <<>>)
      BY <3>1, ListsJoined
    <3> QED
      BY <3>2 DEF Element, Start
  <2>2. AreAttributes(Attribute("id", l), "th") /\ NoQuote(Attribute("id", l))
    BY AttributesOne, Zenon DEF Attribute
  <2>3. AList(b)
    <3> DEFINE given == Attribute("id", l)
    <3> HIDE DEF given
    <3>1. Adds(TextElement("th", given, Words), Words, TRUE)
      BY <2>2, WordsAreList, AddsText, Zenon DEF given
    <3> QED
      BY <3>1 DEF given, Adds
  <2> HIDE DEF a, b, td
  <2>4. AList(a \o b)
    BY <2>1, <2>3, ListsJoined
  <2> DEFINE ab == a \o b
  <2> HIDE DEF ab
  <2>5. AList(ab \o td)
    BY <2>1, <2>4, ListsJoined DEF ab
  <2> QED
    BY <2>5 DEF LineCalls, ab, a, b, td
<1> HIDE DEF list
<1>6. WriterInv' /\ Shown' = s
  <2>1. Calls(list)
    BY <1>1 DEF list
  <2> QED
    BY <1>1, <1>2, <1>5, <2>1, Handed DEF r
<1> HIDE DEF s
<1> DEFINE cells == r.cells
           more == Append(cells, <<>>)
<1>7. /\ Len(more) = l /\ more[l] = <<>> /\ \A m \in 1..line : more[m] = cells[m]
  <2>1. AList(cells) /\ Len(cells) = line
    BY <1>2 DEF WellRead
  <2> HIDE DEF cells
  <2> QED
    BY <2>1 DEF AList
<1>8. s.cells = more /\ \A m \in 1..line : s.cells[m] = r.cells[m]
  BY <1>4, <1>7, Zenon
<1>9. (Broken' <=> Broken) /\ \A m : NoneParted(m)' <=> NoneParted(m)
  BY <1>1, NotesStay
<1> HIDE DEF more, cells, l
<1>10. PageShown'
  <2>1. Len(s.cells) = l
    BY <1>7, <1>8
  <2>2. \A n \in notes' : n.line \in 1..l
    BY <1>1, <1>2, <1>3 DEF l
  <2>3. s.good <=> ~Broken'
    BY <1>2, <1>4, <1>9
  <2> QED
    BY <1>1, <1>4, <1>6, <2>1, <2>2, <2>3 DEF PageShown
<1>11. \A m \in 1..line' - 1 : LineKept(m)'
  <2> TAKE m \in 1..line' - 1
  <2>1. m \in 1..line
    BY <1>1, <1>3 DEF l
  <2>2. LineKept(m) /\ s.cells[m] = r.cells[m] /\ Shown' = s /\ (NoneParted(m)' <=> NoneParted(m))
    BY <1>2, <1>6, <1>8, <1>9, <2>1
  <2>3. (NoneParted(m) => Text(r.cells[m]) = PlainText(m))
    BY <2>2 DEF LineKept, r
  <2> QED
    BY <2>2, <2>3 DEF LineKept
<1>12. col' = EndBefore(line', tok') /\ Text(Shown'.cells[line']) = LineUpTo(line', col')
  <2>1. EndBefore(line', tok') = 0
    BY <1>1 DEF EndBefore
  <2>2. Shown'.cells[line'] = <<>>
    BY <1>1, <1>6, <1>7, <1>8
  <2>3. Text(<<>>) = <<>>
    BY DEF Text
  <2>4. LineUpTo(line', 0) = <<>>
    BY DEF LineUpTo
  <2> QED
    BY <1>1, <2>1, <2>2, <2>3, <2>4
<1>13. TokenInv'
  <2>1. /\ Len(Tokens[l]) \in Nat
        /\ \A k \in 1..Len(Tokens[l]) : Tokens[l][k].col \in Nat
    BY <1>3, TokensOfLine
  <2>2. l \in 0..Len(Tokens)
    BY <1>1, <1>3 DEF l
  <2> QED
    BY <1>1, <1>3, <2>1, <2>2 DEF TokenInv
<1> QED
  BY <1>1, <1>4, <1>6, <1>10, <1>11, <1>12, <1>13 DEF ShownSoFar

LEMMA LineEnded ==
    ASSUME ShownSoFar, EndLine
    PROVE  ShownSoFar'
<1> DEFINE r == Shown
           s == Followed("make", r, End \o End)
<1>1. /\ step = "tokens" /\ step' = "line" /\ tok > Len(Tokens[line]) /\ Idle
      /\ Calls(End \o End) /\ UNCHANGED <<references, notes, line, tok, col>>
  BY DEF EndLine, listVars, lineVars
<1>2. /\ WriterInv /\ TokenInv /\ WellRead(r) /\ r.open = InCell /\ r.depth = Len(InCell)
      /\ Len(r.cells) = line /\ (r.good <=> ~Broken) /\ \A n \in notes : n.line \in 1..line
      /\ \A m \in 1..line - 1 : LineKept(m)
      /\ NoneParted(line) => col = EndBefore(line, tok) /\ Text(r.cells[line]) = LineUpTo(line, col)
  BY <1>1 DEF ShownSoFar, PageShown
<1>3. /\ line \in 0..Len(Tokens) /\ line \in DOMAIN Tokens /\ tok \in 1..Len(Tokens[line]) + 1
      /\ Len(Tokens[line]) \in Nat /\ tok = Len(Tokens[line]) + 1
      /\ line \in Nat
  <2>1. line \in 0..Len(Tokens) /\ line \in DOMAIN Tokens /\ tok \in 1..Len(Tokens[line]) + 1
    BY <1>1, <1>2 DEF TokenInv
  <2>2. Len(Tokens[line]) \in Nat /\ Len(Tokens) \in Nat
    BY <2>1, TokensOfLine, PageAssumption
  <2> QED
    BY <1>1, <2>1, <2>2
<1> HIDE DEF r
<1>4. /\ WellRead(s) /\ s.open = Ground /\ s.depth = 0 /\ s.cells = r.cells /\ (s.good <=> r.good)
  BY <1>2, LineCloses
<1>5. AList(End \o End)
  <2>1. AList(End)
    BY OneIsList DEF End
  <2> QED
    BY <2>1, ListsJoined
<1>6. WriterInv' /\ Shown' = s
  <2> DEFINE list == End \o End
  <2>1. AList(list) /\ Calls(list)
    BY <1>1, <1>5
  <2> HIDE DEF list
  <2>2. WriterInv' /\ Shown' = Followed("make", Shown, list)
    BY <1>1, <1>2, <2>1, Handed
  <2> QED
    BY <2>2 DEF list, r
<1> HIDE DEF s
<1>7. (Broken' <=> Broken) /\ \A m : NoneParted(m)' <=> NoneParted(m)
  BY <1>1, NotesStay
<1>8. PageShown'
  BY <1>1, <1>2, <1>4, <1>6, <1>7 DEF PageShown
<1>9. LineUpTo(line, EndOfLine(line)) = PlainText(line)
  BY DEF LineUpTo, PlainText
<1>10. EndBefore(line, tok) = EndOfLine(line)
  <2>1. /\ Len(Tokens[line]) = 0 => EndOfLine(line) = 0
        /\ Len(Tokens[line]) # 0 => EndOfLine(line) = EndOfToken(line, Len(Tokens[line]))
    BY <1>3, EndIs
  <2>2. tok = 1 <=> Len(Tokens[line]) = 0
    BY <1>3
  <2>3. tok - 1 = Len(Tokens[line])
    BY <1>3
  <2> QED
    BY <2>1, <2>2, <2>3 DEF EndBefore
<1>11. ASSUME NEW m \in 1..line PROVE LineKept(m)'
  <2>1. NoneParted(m) => Text(r.cells[m]) = PlainText(m)
    <3>1. CASE m = line
      BY <1>2, <1>9, <1>10, <3>1
    <3>2. CASE m # line
      <4>1. m \in 1..line - 1
        BY <1>3, <3>2
      <4> QED
        BY <1>2, <4>1 DEF LineKept, r
    <3> QED
      BY <3>1, <3>2
  <2> QED
    BY <1>4, <1>6, <1>7, <2>1 DEF LineKept
<1>12. TokenInv'
  BY <1>1, <1>3 DEF TokenInv
<1> QED
  BY <1>1, <1>4, <1>6, <1>8, <1>11, <1>12 DEF ShownSoFar

LEMMA PageEnded ==
    ASSUME ShownSoFar, WritePage
    PROVE  ShownSoFar'
<1> DEFINE r == Shown
           list == PageEnd
           s == Followed("make", r, list)
<1>1. /\ step = "line" /\ step' = "written" /\ line = Len(Tokens) /\ Idle
      /\ Calls(PageEnd) /\ UNCHANGED <<references, notes, line, tok, col>>
  BY DEF WritePage, PageEnd, listVars, lineVars
<1>2. /\ WriterInv /\ TokenInv /\ WellRead(r) /\ r.open = Ground /\ r.depth = 0
      /\ Len(r.cells) = line /\ (r.good <=> ~Broken) /\ \A n \in notes : n.line \in 1..line
      /\ \A m \in 1..line : LineKept(m)
  BY <1>1 DEF ShownSoFar, PageShown
<1> HIDE DEF r
<1>3. AList(list)
  BY PageCloses DEF Leads
<1>4. WellRead(s) /\ s.open = <<>> /\ s.depth = 0 /\ s.cells = r.cells /\ (s.good <=> r.good)
  BY <1>2, PageCloses DEF Leads
<1> HIDE DEF list
<1>5. WriterInv' /\ Shown' = s
  <2>1. Calls(list)
    BY <1>1 DEF list
  <2> QED
    BY <1>1, <1>2, <1>3, <2>1, Handed DEF r
<1> HIDE DEF s
<1>6. (Broken' <=> Broken) /\ \A m : NoneParted(m)' <=> NoneParted(m)
  BY <1>1, NotesStay
<1>7. PageShown'
  BY <1>1, <1>2, <1>4, <1>5, <1>6 DEF PageShown
<1>8. ASSUME NEW m \in 1..line PROVE LineKept(m)'
  <2>1. NoneParted(m) => Text(r.cells[m]) = PlainText(m)
    BY <1>2 DEF LineKept, r
  <2> QED
    BY <1>4, <1>5, <1>6, <2>1 DEF LineKept
<1>9. TokenInv'
  BY <1>1, <1>2 DEF TokenInv
<1> QED
  BY <1>1, <1>4, <1>5, <1>7, <1>8, <1>9 DEF ShownSoFar

(* Tokens are put out, in an element or in none. *)
LEMMA PutShown ==
    ASSUME ShownSoFar, AtToken, NEW n \in 1..2, tok + n - 1 <= Len(Tokens[line]),
           NEW before, NEW after, Put(n, before, after), UNCHANGED <<step, line, references>>,
           NEW ok,
           Adds(PutCalls(This.col - col, before, tok, n, after), PutTexts(This.col - col, tok, n), ok),
           Sealing(PutCalls(This.col - col, before, tok, n, after)),
           Broken' <=> Broken \/ ~ok,
           \A l : NoneParted(l)' => NoneParted(l),
           NoneParted(line)' /\ n = 2 => EndOfToken(line, tok) = Tokens[line][tok + 1].col,
           \A note \in notes' : note.line \in 1..line
    PROVE  ShownSoFar'
<1> DEFINE r == Shown
           gap == This.col - col
           list == PutCalls(gap, before, tok, n, after)
           text == PutTexts(gap, tok, n)
           s == Followed("make", r, list)
<1>1. step = "tokens" /\ step' = "tokens" /\ Idle /\ tok <= Len(Tokens[line])
  BY DEF AtToken
<1>2. /\ WriterInv /\ TokenInv /\ WellRead(r) /\ r.open = InCell /\ r.depth = Len(InCell)
      /\ Len(r.cells) = line /\ (r.good <=> ~Broken)
      /\ \A m \in 1..line - 1 : LineKept(m)
      /\ NoneParted(line) => col = EndBefore(line, tok) /\ Text(r.cells[line]) = LineUpTo(line, col)
  BY <1>1 DEF ShownSoFar, PageShown
<1>3. TokenInv' /\ Indented = This.col
  BY <1>2, TokensPut
<1>4. /\ line \in DOMAIN Tokens /\ tok \in 1..Len(Tokens[line]) /\ Len(Tokens[line]) \in Nat
      /\ DOMAIN Tokens[line] = 1..Len(Tokens[line]) /\ line \in Nat /\ line # 0
      /\ tok \in DOMAIN Tokens[line]
  <2>1. line \in DOMAIN Tokens /\ tok \in 1..Len(Tokens[line]) + 1
    BY <1>1, <1>2 DEF TokenInv
  <2>2. Len(Tokens[line]) \in Nat /\ DOMAIN Tokens[line] = 1..Len(Tokens[line])
    BY <2>1, TokensOfLine
  <2>3. line \in Nat /\ line # 0
    BY <2>1, PageAssumption
  <2> QED
    BY <1>1, <2>1, <2>2, <2>3
<1>5. Calls(list) /\ tok' = tok + n
      /\ col' = This.col + This.width + (IF n = 2 THEN Tokens[line][tok + 1].width ELSE 0)
  BY <1>3 DEF Put, PutCalls
<1>6. Adds(list, text, ok) /\ Sealing(list)
  OBVIOUS
<1> HIDE DEF r, list, text
<1>7. AList(list) /\ AList(text)
  BY <1>6 DEF Adds
<1>8. WriterInv' /\ Shown' = s
  BY <1>1, <1>2, <1>5, <1>7, Handed DEF r
<1>9. Grown(r, s, text, ok)
  BY <1>2, <1>6, AddedAnywhere
<1> HIDE DEF s
<1>10. /\ WellRead(s) /\ (s.good <=> r.good /\ ok) /\ s.open = InCell /\ s.depth = Len(InCell)
       /\ Len(s.cells) = line /\ \A m \in 1..line - 1 : s.cells[m] = r.cells[m]
       /\ Text(s.cells[line]) = Chained(Text(r.cells[line]), text)
  <2>1. r.depth # 0
    BY <1>2, RowIsList
  <2> QED
    BY <1>2, <1>9, <2>1 DEF Grown, CellsGrown, Chained
<1>11. PageShown'
  BY <1>2, <1>8, <1>10 DEF PageShown
<1>12. ASSUME NEW m \in 1..line' - 1 PROVE LineKept(m)'
  <2>1. m \in 1..line - 1
    OBVIOUS
  <2>2. NoneParted(m) => Text(r.cells[m]) = PlainText(m)
    BY <1>2, <2>1 DEF LineKept, r
  <2> QED
    BY <1>8, <1>10, <2>1, <2>2 DEF LineKept
<1>13. ASSUME NoneParted(line)'
       PROVE  col' = EndBefore(line', tok') /\ Text(Shown'.cells[line']) = LineUpTo(line', col')
  <2>1. col = EndBefore(line, tok) /\ Text(r.cells[line]) = LineUpTo(line, col)
    BY <1>2, <1>13
  <2>2. n = 2 => tok + 1 \in DOMAIN Tokens[line] /\ EndOfToken(line, tok) = Tokens[line][tok + 1].col
    <3>1. n = 2 => tok + 1 \in 1..Len(Tokens[line])
      BY <1>4
    <3> QED
      BY <1>4, <1>13, <3>1
  <2>3. Chained(LineUpTo(line, EndBefore(line, tok)), PutTexts(Tokens[line][tok].col - EndBefore(line, tok), tok, n))
            = LineUpTo(line, EndOfToken(line, tok + n - 1))
    BY <1>4, <2>2, LinePut
  <2>4. Text(s.cells[line]) = LineUpTo(line, EndOfToken(line, tok + n - 1))
    BY <1>10, <2>1, <2>3 DEF text, This
  <2>5. col' = EndOfToken(line, tok + n - 1)
    <3>1. CASE n = 1
      <4>1. tok + n - 1 = tok
        BY <1>4, <3>1
      <4>2. This.col + This.width \in Nat
        BY <1>4, ColumnsOfLine, Zenon DEF This, EndOfToken
      <4>3. This.col + This.width = EndOfToken(line, tok)
        BY DEF This, EndOfToken
      <4> QED
        BY <1>5, <3>1, <4>1, <4>2, <4>3
    <3>2. CASE n = 2
      <4>1. tok + n - 1 = tok + 1
        BY <1>4, <3>2
      <4>2. This.col + This.width = Tokens[line][tok + 1].col
        BY <2>2, <3>2 DEF This, EndOfToken
      <4>3. col' = Tokens[line][tok + 1].col + Tokens[line][tok + 1].width
        BY <1>5, <3>2, <4>2
      <4> QED
        BY <4>1, <4>3 DEF EndOfToken
    <3> QED
      BY <3>1, <3>2
  <2>6. EndBefore(line, tok + n) = EndOfToken(line, tok + n - 1)
    <3>1. tok + n # 1 /\ (tok + n) - 1 = tok + n - 1
      BY <1>4
    <3> QED
      BY <3>1 DEF EndBefore
  <2> QED
    BY <1>5, <1>8, <2>4, <2>5, <2>6
<1> QED
  BY <1>1, <1>3, <1>8, <1>10, <1>11, <1>12, <1>13 DEF ShownSoFar

LEMMA TokenAndSpaces ==
    ASSUME ShownSoFar, AtToken
    PROVE  /\ line \in DOMAIN Tokens /\ tok \in DOMAIN Tokens[line] /\ This.col - col \in Nat
           /\ tok \in Nat /\ Len(Tokens[line]) \in Nat /\ DOMAIN Tokens[line] = 1..Len(Tokens[line])
           /\ \A n \in notes : n.line \in 1..line
<1>1. /\ step = "tokens" /\ tok <= Len(Tokens[line]) /\ TokenInv /\ \A n \in notes : n.line \in 1..line
  BY DEF AtToken, ShownSoFar, PageShown
<1>2. /\ line \in DOMAIN Tokens /\ tok \in 1..Len(Tokens[line]) + 1 /\ col \in Nat
      /\ \A k \in tok..Len(Tokens[line]) : col <= Tokens[line][k].col
  BY <1>1 DEF TokenInv
<1>3. Len(Tokens[line]) \in Nat /\ DOMAIN Tokens[line] = 1..Len(Tokens[line])
  BY <1>2, TokensOfLine
<1>4. tok \in DOMAIN Tokens[line] /\ tok \in Nat
  BY <1>1, <1>2, <1>3
<1>5. Tokens[line][tok].col \in Nat
  BY <1>2, <1>4, ColumnsOfLine
<1>6. col <= Tokens[line][tok].col
  BY <1>1, <1>2, <1>3, <1>4
<1> QED
  BY <1>1, <1>2, <1>3, <1>4, <1>5, <1>6 DEF This

LEMMA TokenShown ==
    ASSUME ShownSoFar, WriteToken
    PROVE  ShownSoFar'
<1>1. AtToken /\ Put(1, <<>>, <<>>) /\ UNCHANGED <<step, references, line, notes>>
  BY DEF WriteToken, listVars
<1>2. /\ line \in DOMAIN Tokens /\ tok \in DOMAIN Tokens[line] /\ This.col - col \in Nat
      /\ tok \in Nat /\ tok <= Len(Tokens[line]) /\ Len(Tokens[line]) \in Nat
      /\ \A n \in notes : n.line \in 1..line
  BY <1>1, TokenAndSpaces DEF AtToken
<1> DEFINE gap == This.col - col
           n == 1
           ok == TRUE
<1>3. Adds(PutCalls(gap, <<>>, tok, 1, <<>>), PutTexts(gap, tok, 1), ok) /\ Sealing(PutCalls(gap, <<>>, tok, 1, <<>>))
  BY <1>2, PutPlain, Zenon
<1>4. (Broken' <=> Broken) /\ \A l : NoneParted(l)' <=> NoneParted(l)
  BY <1>1, NotesStay
<1>5. n \in 1..2 /\ tok + n - 1 <= Len(Tokens[line]) /\ n # 2
  BY <1>2
<1>6. \A note \in notes' : note.line \in 1..line
  BY <1>1, <1>2
<1>7. Broken' <=> Broken \/ ~ok
  BY <1>4
<1>8. Put(n, <<>>, <<>>)
  BY <1>1
<1> DEFINE none == <<>>
<1>9. Adds(PutCalls(gap, none, tok, n, none), PutTexts(gap, tok, n), ok) /\ Sealing(PutCalls(gap, none, tok, n, none))
      /\ Put(n, none, none)
  BY <1>3, <1>8, Zenon
<1> HIDE DEF n, ok, none
<1> QED
  BY <1>1, <1>4, <1>5, <1>6, <1>7, <1>9, PutShown

LEMMA IncludeShown ==
    ASSUME ShownSoFar, WriteInclude
    PROVE  ShownSoFar'
<1> DEFINE a == Attribute("class", "include")
           b == Attribute("href", <<"file">>)
           list == a \o b
           gap == This.col - col
           n == 1
           ok == NoQuote(list)
           el == Element("a", list)
           end == End
<1>1. AtToken /\ Put(n, el, end) /\ UNCHANGED <<step, references, line, notes>>
  BY DEF WriteInclude, listVars
<1>2. /\ line \in DOMAIN Tokens /\ tok \in DOMAIN Tokens[line] /\ This.col - col \in Nat
      /\ tok \in Nat /\ tok <= Len(Tokens[line]) /\ Len(Tokens[line]) \in Nat
      /\ \A note \in notes : note.line \in 1..line
  BY <1>1, TokenAndSpaces DEF AtToken
<1>3. AreAttributes(a, "a") /\ NoQuote(a) /\ AreAttributes(b, "a") /\ NoQuote(b)
  BY AttributesOne, Zenon DEF Attribute
<1> HIDE DEF a, b
<1>4. AreAttributes(list, "a") /\ ok
  BY <1>3, AttributesBoth
<1>5. n \in 1..2 /\ tok + n - 1 <= Len(Tokens[line]) /\ n # 2
  BY <1>2
<1> DEFINE name == "a"
<1>6. AreAttributes(list, name) /\ name # "td"
  BY <1>4
<1> HIDE DEF list, n, name
<1>7. /\ Adds(PutCalls(gap, Element(name, list), tok, n, End), PutTexts(gap, tok, n), NoQuote(list))
      /\ Sealing(PutCalls(gap, Element(name, list), tok, n, End))
  BY <1>2, <1>5, <1>6, PutElement, Zenon
<1>8. (Broken' <=> Broken) /\ \A l : NoneParted(l)' <=> NoneParted(l)
  BY <1>1, NotesStay
<1>9. \A note \in notes' : note.line \in 1..line
  BY <1>1, <1>2
<1>10. Broken' <=> Broken \/ ~ok
  BY <1>4, <1>8
<1>11. /\ Adds(PutCalls(gap, el, tok, n, end), PutTexts(gap, tok, n), ok)
       /\ Sealing(PutCalls(gap, el, tok, n, end))
  BY <1>7 DEF name
<1> HIDE DEF ok, el, end
<1> QED
  BY <1>1, <1>5, <1>8, <1>9, <1>10, <1>11, PutShown

LEMMA ReferenceShown ==
    ASSUME ShownSoFar, WriteReference
    PROVE  ShownSoFar'
<1> DEFINE r == references[reference.at]
           n == IF Kind[r.symbol] = "dtor" THEN 2 ELSE 1
           note == [line |-> line, tok |-> tok, ref |-> reference.at, link |-> Link(r)]
           gap == This.col - col
           end == End
<1>1. /\ AtToken /\ tok + n - 1 <= Len(Tokens[line]) /\ Put(n, ReferenceElement(r), end)
      /\ notes' = notes \cup {note} /\ UNCHANGED <<step, references, line>>
  BY DEF WriteReference, listVars
<1>2. /\ line \in DOMAIN Tokens /\ tok \in DOMAIN Tokens[line] /\ gap \in Nat
      /\ tok \in Nat /\ tok <= Len(Tokens[line]) /\ Len(Tokens[line]) \in Nat
      /\ DOMAIN Tokens[line] = 1..Len(Tokens[line]) /\ \A m \in notes : m.line \in 1..line
  BY <1>1, TokenAndSpaces DEF AtToken
<1>3. n \in 1..2 /\ (n = 2 <=> Kind[r.symbol] = "dtor")
  OBVIOUS
<1>4. note.line = line /\ note.tok = tok /\ note.ref = reference.at
  OBVIOUS
<1> HIDE DEF n, note
<1>5. n = 2 => tok + 1 \in DOMAIN Tokens[line]
  BY <1>1, <1>2
<1>6. PICK name, list : /\ ReferenceElement(r) = Element(name, list) /\ name # "td"
                        /\ AreAttributes(list, name) /\ (NoQuote(list) <=> r.symbol \notin Quoted)
  BY ReferenceElementIs
<1> DEFINE el == ReferenceElement(r)
           ok == NoQuote(list)
<1>7. /\ Adds(PutCalls(gap, Element(name, list), tok, n, End), PutTexts(gap, tok, n), NoQuote(list))
      /\ Sealing(PutCalls(gap, Element(name, list), tok, n, End))
  BY <1>2, <1>3, <1>5, <1>6, PutElement, Zenon
<1>8. Adds(PutCalls(gap, el, tok, n, end), PutTexts(gap, tok, n), ok) /\ Sealing(PutCalls(gap, el, tok, n, end))
  BY <1>6, <1>7
<1>9. Broken' <=> Broken \/ ~ok
  <2>1. ASSUME Broken' PROVE Broken \/ ~ok
    <3>1. PICK m \in notes' : references[m.ref].symbol \in Quoted
      BY <1>1, <2>1 DEF Broken
    <3> QED
      BY <1>1, <1>4, <1>6, <3>1 DEF Broken
  <2>2. ASSUME Broken PROVE Broken'
    BY <1>1, <2>2 DEF Broken
  <2>3. ASSUME ~ok PROVE Broken'
    <3>1. note \in notes' /\ references'[note.ref].symbol \in Quoted
      BY <1>1, <1>4, <1>6, <2>3
    <3> QED
      BY <3>1 DEF Broken
  <2> QED
    BY <2>1, <2>2, <2>3
<1>10. ASSUME NEW l, NoneParted(l)' PROVE NoneParted(l)
  BY <1>1, <1>10 DEF NoneParted, Parted
<1>11. NoneParted(line)' /\ n = 2 => EndOfToken(line, tok) = Tokens[line][tok + 1].col
  <2> SUFFICES ASSUME NoneParted(line)', n = 2 PROVE EndOfToken(line, tok) = Tokens[line][tok + 1].col
    OBVIOUS
  <2>1. \A m \in notes' : m.line = line' =>
             ~(/\ Kind[references'[m.ref].symbol] = "dtor"
               /\ Tokens[m.line][m.tok].col + Tokens[m.line][m.tok].width # Tokens[m.line][m.tok + 1].col)
    BY DEF NoneParted, Parted
  <2>2. note \in notes' /\ note.line = line'
    BY <1>1, <1>4
  <2>3. \A m : m \in notes' /\ m.line = line /\ m.tok = tok /\ m.ref = reference.at =>
            ~(/\ Kind[r.symbol] = "dtor"
              /\ Tokens[line][tok].col + Tokens[line][tok].width # Tokens[line][tok + 1].col)
    BY <1>1, <2>1, Zenon
  <2>4. ~(/\ Kind[r.symbol] = "dtor"
          /\ Tokens[line][tok].col + Tokens[line][tok].width # Tokens[line][tok + 1].col)
    BY <1>4, <2>2, <2>3
  <2> QED
    BY <1>3, <2>4 DEF EndOfToken
<1>12. \A m \in notes' : m.line \in 1..line
  <2>1. line \in 1..line
    BY <1>2, PageAssumption
  <2> QED
    BY <1>1, <1>2, <1>4, <2>1
<1>13. \A l : NoneParted(l)' => NoneParted(l)
  BY <1>10
<1>14. /\ UNCHANGED <<step, line, references>> /\ tok + n - 1 <= Len(Tokens[line]) /\ AtToken
       /\ Put(n, el, end)
  BY <1>1
<1> HIDE DEF el, ok, end, r
<1> QED
  BY <1>3, <1>8, <1>9, <1>11, <1>12, <1>13, <1>14, PutShown

(* The page is written by the actions of PageNext alone. *)
LEMMA ListShown ==
    ASSUME ShownSoFar, Load \/ Simplify \/ EraseTail
    PROVE  ShownSoFar'
<1>1. /\ step \in {"load", "simplify"} /\ step' \in {"simplify", "head"}
      /\ UNCHANGED <<notes, line, tok, col, elements, stream, calls>>
  BY DEF Load, Simplify, EraseTail, lineVars, xmlVars
<1>2. WriterInv /\ Idle /\ Shown = Unread /\ notes = {} /\ line = 0
  BY <1>1 DEF ShownSoFar
<1>3. Reading' = Reading
  BY <1>1 DEF Reading
<1>4. WriterInv' /\ Shown' = Shown /\ Idle'
  BY <1>1, <1>2, <1>3 DEF WriterInv, Shown, Idle
<1>5. TokenInv'
  BY <1>1 DEF ShownSoFar, TokenInv
<1> QED
  BY <1>1, <1>2, <1>4, <1>5 DEF ShownSoFar

(* No page of a symbol is begun before the page of the file is written. *)
LEMMA StageStays == TextInv /\ Step => (step = "symbols" \/ stage = "none")'
<1> SUFFICES ASSUME TextInv, Step PROVE (step = "symbols" \/ stage = "none")'
  OBVIOUS
<1>1. CASE UNCHANGED <<tableVars, pageVars, symbolVars>>
  BY <1>1 DEF pageVars, symbolVars, TextInv
<1>2. CASE SymbolPageNext
  <2>1. CASE \E id \in SymbolId : StartSymbolPage(id)
    BY <2>1 DEF StartSymbolPage
  <2>2. CASE UNCHANGED step /\ stage \in {"extract", "uses"}
    BY <2>2 DEF TextInv
  <2> QED
    BY <1>2, <2>1, <2>2, Zenon
    DEF SymbolPageNext, ExtractOne, WriteSections, BeginUsesInFile, SkipUsesInFile, WriteUse, FailUse,
        EndSymbolPage, AtFile, AtUse
<1>3. CASE PageNext /\ UNCHANGED symbolVars
  <2>1. stage' = stage
    BY <1>3 DEF symbolVars
  <2>2. step = "symbols" => step' = "symbols"
    BY <1>3
    DEF PageNext, FillTable, pageVars, Load, Simplify, EraseTail, WriteHead, BeginLine, EndLine, WritePage,
        WriteInclude, WriteReference, ReadPastEnd, WriteToken, MakeCall, AtToken
  <2> QED
    BY <2>1, <2>2 DEF TextInv
<1> QED
  BY <1>1, <1>2, <1>3 DEF Step, PagesNext

LEMMA NextText == TextInv /\ Step => TextInv'
<1> SUFFICES ASSUME TextInv, Step, step' \notin {"symbols", "undefined"} PROVE ShownSoFar'
  BY StageStays DEF TextInv
<1>0. ASSUME UNCHANGED xmlVars, ShownSoFar PROVE WriterInv' /\ Shown' = Shown /\ (Idle => Idle')
  <2>1. UNCHANGED <<elements, stream, calls>>
    BY <1>0 DEF xmlVars
  <2>2. Reading' = Reading
    BY <2>1 DEF Reading
  <2> QED
    BY <1>0, <2>1, <2>2 DEF WriterInv, Shown, Idle, ShownSoFar
<1>1. CASE UNCHANGED <<tableVars, pageVars, symbolVars>>
  <2>1. UNCHANGED <<step, references, notes, line, tok, col>> /\ UNCHANGED xmlVars
    BY <1>1 DEF pageVars, listVars, lineVars
  <2>2. ShownSoFar
    BY <2>1 DEF TextInv
  <2> QED
    BY <1>0, <2>1, <2>2, SameShown
<1>2. CASE SymbolPageNext
  <2>1. UNCHANGED step /\ stage \in {"extract", "uses"}
    BY <1>2, Zenon
    DEF SymbolPageNext, StartSymbolPage, ExtractOne, WriteSections, BeginUsesInFile, SkipUsesInFile, WriteUse,
        FailUse, EndSymbolPage, AtFile, AtUse
  <2> QED
    BY <2>1 DEF TextInv
<1>3. CASE PageNext
  <2>1. CASE FillTable
    <3>1. UNCHANGED <<step, references, notes, line, tok, col>> /\ UNCHANGED xmlVars
      BY <2>1 DEF FillTable, pageVars, listVars, lineVars
    <3>2. ShownSoFar
      BY <3>1 DEF TextInv
    <3> QED
      BY <1>0, <3>1, <3>2, SameShown
  <2>2. CASE Load \/ Simplify \/ EraseTail
    <3>1. step \in {"load", "simplify"}
      BY <2>2 DEF Load, Simplify, EraseTail
    <3>2. ShownSoFar
      BY <3>1 DEF TextInv
    <3> QED
      BY <2>2, <3>2, ListShown
  <2>3. CASE WriteHead
    <3>1. ShownSoFar
      BY <2>3 DEF TextInv, WriteHead
    <3> QED
      BY <2>3, <3>1, HeadShown
  <2>4. CASE BeginLine
    <3>1. ShownSoFar
      BY <2>4 DEF TextInv, BeginLine
    <3> QED
      BY <2>4, <3>1, LineShown
  <2>5. CASE EndLine
    <3>1. ShownSoFar
      BY <2>5 DEF TextInv, EndLine
    <3> QED
      BY <2>5, <3>1, LineEnded
  <2>6. CASE WritePage
    <3>1. ShownSoFar
      BY <2>6 DEF TextInv, WritePage
    <3> QED
      BY <2>6, <3>1, PageEnded
  <2>7. CASE WriteInclude
    <3>1. ShownSoFar
      BY <2>7 DEF TextInv, WriteInclude, AtToken
    <3> QED
      BY <2>7, <3>1, IncludeShown
  <2>8. CASE WriteReference
    <3>1. ShownSoFar
      BY <2>8 DEF TextInv, WriteReference, AtToken
    <3> QED
      BY <2>8, <3>1, ReferenceShown
  <2>9. CASE ReadPastEnd
    BY <2>9 DEF ReadPastEnd
  <2>10. CASE WriteToken
    <3>1. ShownSoFar
      BY <2>10 DEF TextInv, WriteToken, AtToken
    <3> QED
      BY <2>10, <3>1, TokenShown
  <2>11. CASE MakeCall
    <3>1. XmlNext /\ UNCHANGED <<step, references, notes, line, tok, col>>
      BY <2>11 DEF MakeCall, listVars, lineVars
    <3>2. ShownSoFar
      BY <3>1 DEF TextInv
    <3>3. WriterInv' /\ Shown' = Shown
      BY <3>1, <3>2, CallMade DEF ShownSoFar
    <3>4. ~Idle
      BY <3>1 DEF Idle, XmlNext, WriteStartElement, WriteEndElement, WriteAttribute, WriteCharacters, Write,
                  Called
    <3> QED
      BY <3>1, <3>2, <3>3, <3>4, SameShown
  <2> QED
    BY <1>3, <2>1, <2>2, <2>3, <2>4, <2>5, <2>6, <2>7, <2>8, <2>9, <2>10, <2>11 DEF PageNext
<1> QED
  BY <1>1, <1>2, <1>3 DEF Step, PagesNext

LEMMA TextThen == TextInv => TextKept
<1> SUFFICES ASSUME TextInv, PageWritten
             PROVE  LET broken == \E n \in notes : references[n.ref].symbol \in Quoted
                    IN  /\ ReadsWell = ~broken
                        /\ Len(Reading.cells) = Len(Tokens)
                        /\ \A l \in DOMAIN Tokens :
                              (\A n \in notes : n.line = l => ~Parted(n)) => CellText(l) = PlainText(l)
  BY DEF TextKept
<1>1. step = "written" /\ calls = <<>>
  BY DEF PageWritten, Idle
<1>2. ShownSoFar
  BY <1>1 DEF TextInv
<1>3. Shown = Reading
  BY <1>1, FollowedNone DEF Shown
<1>4. /\ Len(Reading.cells) = line /\ (Reading.good <=> ~Broken) /\ Reading.open = <<>>
      /\ line = Len(Tokens) /\ \A l \in 1..line : NoneParted(l) => Text(Reading.cells[l]) = PlainText(l)
  BY <1>1, <1>2, <1>3 DEF ShownSoFar, PageShown, LineKept
<1>5. DOMAIN Tokens = 1..line
  BY <1>4, PageAssumption
<1>6. \A l : CellText(l) = Text(Reading.cells[l])
  BY DEF CellText, Text
<1>7. ReadsWell <=> ~Broken
  BY <1>4 DEF ReadsWell
<1>8. ReadsWell = ~Broken
  BY <1>7 DEF ReadsWell, Broken
<1> QED
  BY <1>4, <1>5, <1>6, <1>8 DEF Broken, NoneParted

(* The page of a file is markup that a browser can read, and what it reads in the cell of a
   line is that line with each blank between tokens as a space, whatever references, includes
   and tokens the line has and in whatever order its rows come: the writer closes what it opens and escapes what it is given, the
   columns never run ahead of the tokens but where a destructor is written over the space
   behind its '~', and only a quote in the name of a symbol breaks the page (writeTokens,
   writeTokenAnnotated and insertPrecedingSpaces in sourcehighlighter.cpp). *)
THEOREM TextAlwaysKept == PagesSpec => []TextKept
<1>1. PagesInit => TextInv
  BY InitText
<1>2. TextInv /\ [PagesNext]_<<tableVars, pageVars, symbolVars>> => TextInv'
  BY NextText DEF Step
<1>3. TextInv => TextKept
  BY TextThen
<1> QED
  BY <1>1, <1>2, <1>3, PTL DEF PagesSpec
-----------------------------------------------------------------------------
(* THE PAGE OF A SYMBOL.  How many elements of a list are in a set, and what is left when
   one of them is taken out. *)
LEMMA SelectedCount ==
    ASSUME NEW S, NEW E, NEW seq \in Seq(E)
    PROVE  /\ Cardinality({k \in DOMAIN seq : seq[k] \in S}) = Len(Selected(S, seq))
           /\ Len(Selected(S, seq)) \in Nat
<1> DEFINE P(q) == {k \in DOMAIN q : q[k] \in S}
           T == {q \in Seq(E) : IsFiniteSet(P(q)) /\ Cardinality(P(q)) = Len(Selected(S, q))}
<1>1. <<>> \in T
  <2>1. <<>> \in Seq(E) /\ P(<<>>) = {} /\ Len(<<>>) = 0
    OBVIOUS
  <2> HIDE DEF P
  <2>2. IsFiniteSet(P(<<>>)) /\ Cardinality(P(<<>>)) = 0
    BY <2>1, FS_EmptySet
  <2> QED
    BY <2>1, <2>2, SelectedEmpty
<1>2. ASSUME NEW q \in Seq(E), q \in T, NEW e \in E PROVE Append(q, e) \in T
  <2> DEFINE more == Append(q, e)
  <2>1. /\ more \in Seq(E) /\ Len(more) = Len(q) + 1 /\ Len(q) \in Nat
        /\ DOMAIN q = 1..Len(q) /\ DOMAIN more = 1..Len(q) + 1
        /\ more[Len(q) + 1] = e /\ \A k \in 1..Len(q) : more[k] = q[k]
    BY Appended
  <2>2. Selected(S, more) = IF e \in S THEN Append(Selected(S, q), e) ELSE Selected(S, q)
    BY SelectedAppend
  <2> HIDE DEF more
  <2>3. P(more) = IF e \in S THEN P(q) \cup {Len(q) + 1} ELSE P(q)
    <3>1. \A k \in 1..Len(q) + 1 : k \in 1..Len(q) \/ k = Len(q) + 1
      BY <2>1
    <3>2. 1..Len(q) \subseteq 1..Len(q) + 1 /\ Len(q) + 1 \in 1..Len(q) + 1
      BY <2>1
    <3> QED
      BY <2>1, <3>1, <3>2
  <2>4. Len(q) + 1 \notin P(q)
    BY <2>1
  <2> HIDE DEF P
  <2>5. IsFiniteSet(P(q)) /\ Cardinality(P(q)) = Len(Selected(S, q))
    BY <1>2
  <2>6. Selected(S, q) \in Seq(E \cap S)
    BY SelectedType
  <2>7. CASE e \in S
    <3>1. Len(Append(Selected(S, q), e)) = Len(Selected(S, q)) + 1
      BY <2>6
    <3>2. IsFiniteSet(P(q) \cup {Len(q) + 1}) /\ Cardinality(P(q) \cup {Len(q) + 1}) = Cardinality(P(q)) + 1
      BY <2>4, <2>5, FS_AddElement
    <3> QED
      BY <2>1, <2>2, <2>3, <2>5, <2>7, <3>1, <3>2 DEF more
  <2>8. CASE e \notin S
    BY <2>1, <2>2, <2>3, <2>5, <2>8 DEF more
  <2> QED
    BY <2>7, <2>8
<1> HIDE DEF T
<1>3. Seq(E) \subseteq T
  BY <1>1, <1>2, SeqByInduction
<1>4. Selected(S, seq) \in Seq(E \cap S)
  BY SelectedType
<1>5. Len(Selected(S, seq)) \in Nat
  BY <1>4
<1> QED
  BY <1>3, <1>5 DEF T

LEMMA ElementRemoved ==
    ASSUME NEW E, NEW q \in Seq(E), NEW k \in DOMAIN q
    PROVE  /\ RemoveAt(q, k) \in Seq(E)
           /\ \A S : q[k] \notin S => Selected(S, RemoveAt(q, k)) = Selected(S, q)
           /\ \A S : Len(Selected(S, q)) = Len(Selected(S, RemoveAt(q, k))) + (IF q[k] \in S THEN 1 ELSE 0)
<1> DEFINE p == SubSeq(q, 1, k - 1)
           x == q[k]
           s == SubSeq(q, k + 1, Len(q))
           px == Append(p, x)
<1>1. k \in 1..Len(q) /\ k + 1 \in 1..Len(q) + 1 /\ Len(q) \in Nat /\ x \in E /\ k \in 1..Len(q) + 1
  OBVIOUS
<1>2. p \in Seq(E) /\ Len(p) = k - 1 /\ \A j \in 1..k - 1 : p[j] = q[j]
  BY <1>1, Halves
<1>3. /\ SubSeq(q, 1, (k + 1) - 1) \in Seq(E) /\ Len(SubSeq(q, 1, (k + 1) - 1)) = (k + 1) - 1
      /\ \A j \in 1..(k + 1) - 1 : SubSeq(q, 1, (k + 1) - 1)[j] = q[j]
      /\ s \in Seq(E) /\ SubSeq(q, 1, (k + 1) - 1) \o s = q
  <2> DEFINE m == k + 1
  <2>1. m \in 1..Len(q) + 1 /\ s = SubSeq(q, m, Len(q))
    BY <1>1
  <2> HIDE DEF m, s
  <2>2. /\ SubSeq(q, 1, m - 1) \in Seq(E) /\ Len(SubSeq(q, 1, m - 1)) = m - 1
        /\ \A j \in 1..m - 1 : SubSeq(q, 1, m - 1)[j] = q[j]
        /\ SubSeq(q, m, Len(q)) \in Seq(E) /\ SubSeq(q, 1, m - 1) \o SubSeq(q, m, Len(q)) = q
    BY <2>1, Halves
  <2> QED
    BY <2>1, <2>2 DEF m
<1>4. (k + 1) - 1 = k
  BY <1>1
<1> DEFINE front == SubSeq(q, 1, k)
<1>5. /\ front \in Seq(E) /\ Len(front) = k /\ \A j \in 1..k : front[j] = q[j]
      /\ front \o s = q
  <2> HIDE DEF s, front
  <2> QED
    BY <1>3, <1>4 DEF front
<1>6. RemoveAt(q, k) = p \o s
  BY DEF RemoveAt
<1> HIDE DEF p, s, x, front
<1>7. px = front
  <2>1. px \in Seq(E) /\ Len(px) = k /\ px[k] = x /\ \A j \in 1..k - 1 : px[j] = p[j]
    <3>1. /\ px \in Seq(E) /\ Len(px) = Len(p) + 1 /\ px[Len(p) + 1] = x
          /\ \A j \in 1..Len(p) : px[j] = p[j]
      BY <1>1, <1>2, Appended
    <3> HIDE DEF px
    <3> QED
      BY <1>1, <1>2, <3>1
  <2>2. \A j \in 1..k : j = k \/ j \in 1..k - 1
    BY <1>1
  <2> HIDE DEF px
  <2>3. \A j \in 1..k : px[j] = front[j]
    BY <1>1, <1>2, <1>5, <2>1, <2>2 DEF x
  <2> QED
    BY <1>5, <2>1, <2>3, SeqEqual
<1>8. RemoveAt(q, k) \in Seq(E)
  BY <1>2, <1>3, <1>6
<1>9. ASSUME NEW S
      PROVE  /\ x \notin S => Selected(S, p \o s) = Selected(S, q)
             /\ Len(Selected(S, q)) = Len(Selected(S, p \o s)) + (IF x \in S THEN 1 ELSE 0)
  <2> DEFINE a == Selected(S, p)
             b == Selected(S, s)
             c == Selected(S, px)
  <2>1. Selected(S, p \o s) = a \o b
    BY <1>2, <1>3, SelectedConcat
  <2>2. Selected(S, q) = c \o b
    BY <1>3, <1>5, <1>7, SelectedConcat, Zenon
  <2>3. c = IF x \in S THEN Append(a, x) ELSE a
    BY <1>1, <1>2, SelectedAppend
  <2>4. a \in Seq(E \cap S) /\ b \in Seq(E \cap S)
    BY <1>2, <1>3, SelectedType
  <2> HIDE DEF a, b, c, px
  <2>5. CASE x \in S
    <3>1. x \in E \cap S
      BY <1>1, <2>5
    <3> QED
      BY <2>1, <2>2, <2>3, <2>4, <2>5, <3>1
  <2>6. CASE x \notin S
    BY <2>1, <2>2, <2>3, <2>4, <2>6
  <2> QED
    BY <2>5, <2>6
<1> QED
  BY <1>6, <1>8, <1>9 DEF x
-----------------------------------------------------------------------------
(* LINKS TO FILES: how many of those to a place are in a list of calls or of marks. *)
CallTarget(c) == IF c.call = "attribute" /\ c.arg.name = "href" THEN c.arg.value ELSE <<>>
MarkTarget(m) == IF m.kind = "attribute" /\ m.what.name = "href" THEN m.what.value ELSE <<>>

CallTargets(list) == [k \in 1..Len(list) |-> CallTarget(list[k])]
MarkTargets(list) == [k \in 1..Len(list) |-> MarkTarget(list[k])]

FileLink(f, l) == <<"file", f, l>>

NbLinks(list, e) == Cardinality(PlacesOf(e, CallTargets(list)))
NbMarks(list, e) == Cardinality(PlacesOf(e, MarkTargets(list)))

Linkless(list) == AList(list) /\ \A k \in 1..Len(list) : \A f, l : CallTarget(list[k]) # FileLink(f, l)

LEMMA TargetsAreLists ==
    ASSUME NEW list, AList(list)
    PROVE  /\ AList(CallTargets(list)) /\ Len(CallTargets(list)) = Len(list)
           /\ AList(MarkTargets(list)) /\ Len(MarkTargets(list)) = Len(list)
<1> DEFINE f == CallTargets(list)
           g == MarkTargets(list)
           n == Len(list)
<1>1. n \in Nat
  BY ListFacts2
<1>2. DOMAIN f = 1..n /\ f = [k \in 1..n |-> f[k]]
  BY DEF CallTargets
<1>3. DOMAIN g = 1..n /\ g = [k \in 1..n |-> g[k]]
  BY DEF MarkTargets
<1> HIDE DEF f, g, n
<1>4. AList(f) /\ Len(f) = n
  BY <1>1, <1>2, FunctionIsList
<1>5. AList(g) /\ Len(g) = n
  BY <1>1, <1>3, FunctionIsList
<1> QED
  BY <1>4, <1>5 DEF f, g, n

LEMMA PlacesOfLists ==
    ASSUME NEW q, AList(q), NEW s, AList(s), NEW e
    PROVE  /\ Cardinality(PlacesOf(e, q)) \in Nat
           /\ Cardinality(PlacesOf(e, Chained(q, s))) = Cardinality(PlacesOf(e, q)) + Cardinality(PlacesOf(e, s))
<1>1. PICK S : q \in Seq(S)
  BY DEF AList
<1>2. PICK U : s \in Seq(U)
  BY DEF AList
<1> DEFINE E == S \cup U
<1>3. q \in Seq(E) /\ s \in Seq(E)
  BY <1>1, <1>2
<1> HIDE DEF E
<1>4. Cardinality(PlacesOf(e, q)) \in Nat
  BY <1>3, PlacesFinite
<1>5. Cardinality(PlacesOf(e, q \o s)) = Cardinality(PlacesOf(e, q)) + Cardinality(PlacesOf(e, s))
  BY <1>3, PlacesConcatenated
<1> QED
  BY <1>4, <1>5 DEF Chained

LEMMA LinksOfBoth ==
    ASSUME NEW a, AList(a), NEW b, AList(b), NEW e
    PROVE  /\ NbLinks(a, e) \in Nat /\ NbLinks(a \o b, e) = NbLinks(a, e) + NbLinks(b, e)
           /\ NbMarks(a, e) \in Nat /\ NbMarks(a \o b, e) = NbMarks(a, e) + NbMarks(b, e)
<1> DEFINE both == Chained(a, b)
<1>1. /\ AList(both) /\ Len(a) \in Nat /\ Len(b) \in Nat /\ Len(both) = Len(a) + Len(b)
      /\ \A k \in 1..Len(a) : both[k] = a[k]
      /\ \A k \in 1..Len(b) : both[Len(a) + k] = b[k]
  BY ListsJoinedAt
<1> HIDE DEF both
<1>2. ASSUME NEW x, AList(x), Len(x) = Len(both), NEW y, AList(y), Len(y) = Len(a), NEW z, AList(z), Len(z) = Len(b),
             \A k \in 1..Len(a) : x[k] = y[k], \A k \in 1..Len(b) : x[Len(a) + k] = z[k]
      PROVE  x = Chained(y, z)
  <2> DEFINE yz == Chained(y, z)
  <2>0. AList(y) /\ AList(z)
    BY <1>2
  <2>1. /\ AList(yz) /\ Len(yz) = Len(y) + Len(z)
        /\ \A k \in 1..Len(y) : yz[k] = y[k]
        /\ \A k \in 1..Len(z) : yz[Len(y) + k] = z[k]
    BY <2>0, ListsJoinedAt
  <2> HIDE DEF yz
  <2>2. ASSUME NEW k \in 1..Len(x) PROVE x[k] = yz[k]
    <3>1. CASE k <= Len(a)
      <4>1. k \in 1..Len(a)
        BY <1>1, <3>1
      <4> QED
        BY <1>2, <2>1, <4>1
    <3>2. CASE k > Len(a)
      <4>1. k - Len(a) \in 1..Len(b) /\ k = Len(a) + (k - Len(a))
        BY <1>1, <1>2, <3>2
      <4>2. x[Len(a) + (k - Len(a))] = z[k - Len(a)]
        BY <1>2, <4>1
      <4>3. yz[Len(a) + (k - Len(a))] = z[k - Len(a)]
        BY <1>2, <2>1, <4>1
      <4> QED
        BY <4>1, <4>2, <4>3
    <3> QED
      BY <1>1, <3>1, <3>2
  <2>3. Len(x) = Len(yz)
    BY <1>1, <1>2, <2>1
  <2> QED
    BY <1>2, <2>1, <2>2, <2>3, ListsEqual DEF yz
<1>3. \A k \in 1..Len(both) : k \in 1..Len(a) \/ (k - Len(a) \in 1..Len(b))
  BY <1>1
<1>4. /\ \A k \in 1..Len(a) : k \in 1..Len(both)
      /\ \A k \in 1..Len(b) : Len(a) + k \in 1..Len(both)
  BY <1>1
<1>5. CallTargets(both) = Chained(CallTargets(a), CallTargets(b))
  <2> DEFINE x == CallTargets(both)
             y == CallTargets(a)
             z == CallTargets(b)
  <2>1. \A k \in 1..Len(a) : CallTargets(both)[k] = CallTargets(a)[k]
    BY <1>1, <1>4 DEF CallTargets
  <2>2. \A k \in 1..Len(b) : CallTargets(both)[Len(a) + k] = CallTargets(b)[k]
    BY <1>1, <1>4 DEF CallTargets
  <2>3. /\ AList(x) /\ Len(x) = Len(both) /\ AList(y) /\ Len(y) = Len(a)
        /\ AList(z) /\ Len(z) = Len(b)
    BY <1>1, TargetsAreLists
  <2> HIDE DEF x, y, z
  <2> QED
    BY <1>2, <2>1, <2>2, <2>3 DEF x, y, z
<1>6. MarkTargets(both) = Chained(MarkTargets(a), MarkTargets(b))
  <2> DEFINE x == MarkTargets(both)
             y == MarkTargets(a)
             z == MarkTargets(b)
  <2>1. \A k \in 1..Len(a) : MarkTargets(both)[k] = MarkTargets(a)[k]
    BY <1>1, <1>4 DEF MarkTargets
  <2>2. \A k \in 1..Len(b) : MarkTargets(both)[Len(a) + k] = MarkTargets(b)[k]
    BY <1>1, <1>4 DEF MarkTargets
  <2>3. /\ AList(x) /\ Len(x) = Len(both) /\ AList(y) /\ Len(y) = Len(a)
        /\ AList(z) /\ Len(z) = Len(b)
    BY <1>1, TargetsAreLists
  <2> HIDE DEF x, y, z
  <2> QED
    BY <1>2, <2>1, <2>2, <2>3 DEF x, y, z
<1>7. /\ NbLinks(a, e) \in Nat /\ NbLinks(both, e) = NbLinks(a, e) + NbLinks(b, e)
  BY <1>5, TargetsAreLists, PlacesOfLists DEF NbLinks
<1>8. /\ NbMarks(a, e) \in Nat /\ NbMarks(both, e) = NbMarks(a, e) + NbMarks(b, e)
  BY <1>6, TargetsAreLists, PlacesOfLists DEF NbMarks
<1> QED
  BY <1>7, <1>8 DEF both, Chained

LEMMA LinksOfOne ==
    ASSUME NEW c, NEW e
    PROVE  /\ NbLinks(<<c>>, e) = (IF CallTarget(c) = e THEN 1 ELSE 0)
           /\ NbMarks(<<c>>, e) = (IF MarkTarget(c) = e THEN 1 ELSE 0)
           /\ NbLinks(<<>>, e) = 0 /\ NbMarks(<<>>, e) = 0
<1> DEFINE one == <<c>>
<1>1. Len(one) = 1 /\ one[1] = c
  OBVIOUS
<1> HIDE DEF one
<1>2. ASSUME NEW f, DOMAIN f = 1..1, NEW v, f[1] = v
      PROVE  Cardinality(PlacesOf(e, f)) = IF v = e THEN 1 ELSE 0
  <2>1. PlacesOf(e, f) = IF v = e THEN {1} ELSE {}
    <3>1. \A k \in 1..1 : k = 1
      OBVIOUS
    <3>2. 1 \in 1..1
      OBVIOUS
    <3> QED
      BY <1>2, <3>1, <3>2 DEF PlacesOf
  <2>2. Cardinality({1}) = 1 /\ Cardinality({}) = 0
    BY FS_Singleton, FS_EmptySet
  <2> QED
    BY <2>1, <2>2
<1>3. NbLinks(one, e) = (IF CallTarget(c) = e THEN 1 ELSE 0)
  <2> DEFINE f == CallTargets(one)
             v == CallTarget(c)
  <2>1. DOMAIN f = 1..1 /\ f[1] = v
    BY <1>1 DEF CallTargets
  <2> HIDE DEF f, v
  <2> QED
    BY <1>2, <2>1 DEF NbLinks, f, v
<1>4. NbMarks(one, e) = (IF MarkTarget(c) = e THEN 1 ELSE 0)
  <2> DEFINE f == MarkTargets(one)
             v == MarkTarget(c)
  <2>1. DOMAIN f = 1..1 /\ f[1] = v
    BY <1>1 DEF MarkTargets
  <2> HIDE DEF f, v
  <2> QED
    BY <1>2, <2>1 DEF NbMarks, f, v
<1>5. NbLinks(<<>>, e) = 0 /\ NbMarks(<<>>, e) = 0
  <2>1. Len(<<>>) = 0 /\ ~ \E k \in 1..0 : TRUE
    OBVIOUS
  <2>2. PlacesOf(e, CallTargets(<<>>)) = {} /\ PlacesOf(e, MarkTargets(<<>>)) = {}
    BY <2>1 DEF PlacesOf, CallTargets, MarkTargets
  <2> QED
    BY <2>2, FS_EmptySet DEF NbLinks, NbMarks
<1> QED
  BY <1>3, <1>4, <1>5 DEF one

LEMMA LinklessIs ==
    ASSUME NEW list, Linkless(list), NEW f, NEW l
    PROVE  NbLinks(list, FileLink(f, l)) = 0
<1>1. PlacesOf(FileLink(f, l), CallTargets(list)) = {}
  BY Zenon DEF Linkless, PlacesOf, CallTargets
<1> QED
  BY <1>1, FS_EmptySet DEF NbLinks

LEMMA LinklessBoth ==
    ASSUME NEW a, Linkless(a), NEW b, Linkless(b)
    PROVE  Linkless(a \o b)
<1> DEFINE both == Chained(a, b)
<1>1. /\ AList(both) /\ Len(a) \in Nat /\ Len(b) \in Nat /\ Len(both) = Len(a) + Len(b)
      /\ \A k \in 1..Len(a) : both[k] = a[k]
      /\ \A k \in 1..Len(b) : both[Len(a) + k] = b[k]
  BY ListsJoinedAt DEF Linkless
<1> HIDE DEF both
<1>2. ASSUME NEW k \in 1..Len(both) PROVE \A f, l : CallTarget(both[k]) # FileLink(f, l)
  <2>1. CASE k <= Len(a)
    <3>1. k \in 1..Len(a)
      BY <1>1, <2>1
    <3> QED
      BY <1>1, <3>1, Zenon DEF Linkless
  <2>2. CASE k > Len(a)
    <3>1. k - Len(a) \in 1..Len(b) /\ k = Len(a) + (k - Len(a))
      BY <1>1, <2>2
    <3>2. both[k] = b[k - Len(a)]
      BY <1>1, <3>1
    <3> QED
      BY <3>1, <3>2, Zenon DEF Linkless
  <2> QED
    BY <1>1, <2>1, <2>2
<1> QED
  BY <1>1, <1>2 DEF Linkless, both, Chained

LEMMA LinklessOne ==
    ASSUME NEW c, \A f, l : CallTarget(c) # FileLink(f, l)
    PROVE  Linkless(<<c>>)
<1> DEFINE one == <<c>>
<1>1. Len(one) = 1 /\ one[1] = c /\ \A k \in 1..1 : k = 1
  OBVIOUS
<1>2. AList(one)
  BY OneIsList
<1> HIDE DEF one
<1> QED
  BY <1>1, <1>2 DEF Linkless, one

(* The calls of which no link to a file can be made. *)
LEMMA LinklessCalls ==
    /\ Linkless(<<>>) /\ Linkless(End)
    /\ \A x : Linkless(Characters(x)) /\ Linkless(Bytes(x))
    /\ \A n, v, q : (n # "href" \/ \A f, l : v # FileLink(f, l)) => Linkless(AttributeOf(n, v, q))
    /\ \A name, list : Linkless(list) => Linkless(Element(name, list))
<1>0. \A f, l : <<>> # FileLink(f, l)
  <2> TAKE f, l
  <2>1. Len(<<>>) = 0 /\ Len(FileLink(f, l)) = 3
    BY DEF FileLink
  <2> QED
    BY <2>1
<1>1. Linkless(<<>>)
  <2>1. Len(<<>>) = 0 /\ ~ \E k \in 1..0 : TRUE
    OBVIOUS
  <2> QED
    BY <2>1, ElementsAreLists DEF Linkless
<1>2. \A name, x : name # "attribute" => Linkless(<<[call |-> name, arg |-> x]>>)
  <2> TAKE name, x
  <2> HAVE name # "attribute"
  <2>1. CallTarget([call |-> name, arg |-> x]) = <<>>
    BY DEF CallTarget
  <2> QED
    BY <1>0, <2>1, LinklessOne
<1>3. Linkless(End)
  BY <1>2 DEF End
<1>4. \A x : Linkless(Characters(x)) /\ Linkless(Bytes(x))
  BY <1>2 DEF Characters, Bytes
<1>5. ASSUME NEW n, NEW v, NEW q, n # "href" \/ \A f, l : v # FileLink(f, l)
      PROVE  Linkless(AttributeOf(n, v, q))
  <2> DEFINE c == [call |-> "attribute", arg |-> [name |-> n, value |-> v, quote |-> q]]
  <2>1. CallTarget(c) = IF n = "href" THEN v ELSE <<>>
    BY DEF CallTarget
  <2> HIDE DEF c
  <2>2. Linkless(<<c>>)
    BY <1>0, <1>5, <2>1, LinklessOne
  <2> QED
    BY <2>2 DEF AttributeOf, c
<1>6. ASSUME NEW name, NEW list, Linkless(list) PROVE Linkless(Element(name, list))
  <2>1. Linkless(<<[call |-> "start", arg |-> name]>>)
    BY <1>2
  <2> QED
    BY <1>6, <2>1, LinklessBoth DEF Element
<1> QED
  BY <1>1, <1>3, <1>4, <1>5, <1>6

(* The writer puts out a link for each it is given. *)
LEMMA LinksPutOut ==
    ASSUME WriterInv, XmlNext, NEW f, NEW l
    PROVE  LET e == FileLink(f, l)
           IN  NbMarks(stream', e) + NbLinks(calls', e) = NbMarks(stream, e) + NbLinks(calls, e)
<1> DEFINE e == FileLink(f, l)
           c == Head(calls)
           tail == Tail(calls)
<1>0. <<>> # e
  <2>1. Len(<<>>) = 0 /\ Len(e) = 3
    BY DEF FileLink
  <2> QED
    BY <2>1
<1> HIDE DEF e
<1>1. calls # <<>> /\ calls' = tail
  BY DEF XmlNext, WriteStartElement, WriteEndElement, WriteAttribute, WriteCharacters, Write, Called, Done
<1>2. /\ NbLinks(calls, e) = (IF CallTarget(c) = e THEN 1 ELSE 0) + NbLinks(tail, e)
      /\ NbLinks(tail, e) \in Nat
  <2>1. PICK S : calls \in Seq(S)
    BY DEF WriterInv, AList
  <2>2. tail \in Seq(S) /\ <<c>> \o tail = calls
    BY <1>1, <2>1, HeadAndTail
  <2> HIDE DEF c, tail
  <2>3. AList(tail) /\ AList(<<c>>)
    BY <2>2, OneIsList DEF AList
  <2>4. NbLinks(<<c>> \o tail, e) = NbLinks(<<c>>, e) + NbLinks(tail, e) /\ NbLinks(tail, e) \in Nat
    BY <2>3, LinksOfBoth
  <2> QED
    BY <2>2, <2>4, LinksOfOne
<1>3. ASSUME NEW q, AList(q), NEW m
      PROVE  NbMarks(Append(q, m), e) = NbMarks(q, e) + (IF MarkTarget(m) = e THEN 1 ELSE 0) /\ NbMarks(q, e) \in Nat
  <2>1. PICK S : q \in Seq(S)
    BY <1>3 DEF AList
  <2>2. q \in Seq(S \cup {m}) /\ m \in S \cup {m}
    BY <2>1
  <2>3. Append(q, m) = q \o <<m>>
    BY <2>2, AppendIsConcat
  <2>4. NbMarks(q \o <<m>>, e) = NbMarks(q, e) + NbMarks(<<m>>, e) /\ NbMarks(q, e) \in Nat
    BY <1>3, OneIsList, LinksOfBoth
  <2> QED
    BY <2>3, <2>4, LinksOfOne
<1>4. ASSUME NEW kind, NEW what, kind # "attribute" PROVE MarkTarget(Mark(kind, what)) = <<>>
  BY <1>4 DEF Mark, MarkTarget
<1>5. AList(stream)
  BY DEF WriterInv
<1>6. NbMarks(Sealed, e) = NbMarks(stream, e) /\ AList(Sealed)
  <2>1. AList(Sealed)
    BY SealedIs
  <2>2. CASE Unsealed
    <3>1. Sealed = Append(stream, Mark("seal", <<>>))
      BY <2>2 DEF Sealed
    <3>2. MarkTarget(Mark("seal", <<>>)) = <<>>
      BY <1>4
    <3> QED
      BY <1>0, <1>3, <1>5, <2>1, <3>1, <3>2
  <2>3. CASE ~Unsealed
    BY <2>1, <2>3 DEF Sealed
  <2> QED
    BY <2>2, <2>3
<1>7. \E q, m : /\ AList(q) /\ NbMarks(q, e) = NbMarks(stream, e) /\ stream' = Append(q, m)
                /\ (MarkTarget(m) = e <=> CallTarget(c) = e)
  <2>1. c.call # "attribute" => CallTarget(c) # e
    BY <1>0 DEF CallTarget
  <2>2. CASE WriteStartElement
    <3>1. c.call = "start" /\ stream' = Append(Sealed, Mark("open", c.arg))
      BY <2>2 DEF WriteStartElement, Called, Arg
    <3>2. MarkTarget(Mark("open", c.arg)) = <<>>
      BY <1>4
    <3> QED
      BY <1>0, <1>6, <2>1, <3>1, <3>2
  <2>3. CASE WriteEndElement
    <3>1. PICK kind, what : c.call = "end" /\ kind # "attribute" /\ stream' = Append(stream, Mark(kind, what))
      <4>1. c.call = "end" /\ stream' = Append(stream, IF Unsealed THEN Mark("empty", <<>>) ELSE Mark("close", Current.name))
        BY <2>3 DEF WriteEndElement, Called
      <4>2. "empty" # "attribute" /\ "close" # "attribute"
        OBVIOUS
      <4> QED
        BY <4>1, <4>2, Zenon
    <3>2. MarkTarget(Mark(kind, what)) = <<>>
      BY <1>4, <3>1
    <3> QED
      BY <1>0, <1>5, <2>1, <3>1, <3>2
  <2>4. CASE WriteAttribute
    <3>1. c.call = "attribute" /\ stream' = Append(stream, Mark("attribute", c.arg))
      BY <2>4 DEF WriteAttribute, Called, Arg
    <3>2. MarkTarget(Mark("attribute", c.arg)) = CallTarget(c)
      BY <3>1 DEF MarkTarget, CallTarget, Mark
    <3> QED
      BY <1>5, <3>1, <3>2
  <2>5. CASE WriteCharacters
    <3>1. c.call = "characters" /\ stream' = Append(Sealed, Mark("text", c.arg))
      BY <2>5 DEF WriteCharacters, Called, Arg
    <3>2. MarkTarget(Mark("text", c.arg)) = <<>>
      BY <1>4
    <3> QED
      BY <1>0, <1>6, <2>1, <3>1, <3>2
  <2>6. CASE Write
    <3>1. c.call = "bytes" /\ stream' = Append(stream, Mark("bytes", c.arg))
      BY <2>6 DEF Write, Called, Arg
    <3>2. MarkTarget(Mark("bytes", c.arg)) = <<>>
      BY <1>4
    <3> QED
      BY <1>0, <1>5, <2>1, <3>1, <3>2
  <2> QED
    BY <2>2, <2>3, <2>4, <2>5, <2>6 DEF XmlNext
<1>8. PICK q, m : /\ AList(q) /\ NbMarks(q, e) = NbMarks(stream, e) /\ stream' = Append(q, m)
                  /\ (MarkTarget(m) = e <=> CallTarget(c) = e)
  BY <1>7
<1>9. NbMarks(stream', e) = NbMarks(stream, e) + (IF CallTarget(c) = e THEN 1 ELSE 0) /\ NbMarks(stream, e) \in Nat
  BY <1>3, <1>8
<1> HIDE DEF c, tail
<1> QED
  BY <1>1, <1>2, <1>9 DEF e
-----------------------------------------------------------------------------
(* LISTS WITHOUT LINKS: outside of a cell they take a browser from one place to another, and
   leave the page well if ok. *)
Goes(list, o, t, p, u, ok) ==
    /\ Linkless(list)
    /\ \A r : WellRead(r) /\ r.depth = 0 /\ r.open = o /\ (r.inTag => t) =>
          LET s == Followed("make", r, list)
          IN  /\ WellRead(s) /\ s.depth = 0 /\ s.open = p /\ (s.inTag => u)
              /\ s.cells = r.cells /\ (s.good <=> r.good /\ ok)

LEMMA GoesOn ==
    ASSUME NEW a, NEW b, NEW o, NEW p, NEW q, NEW t, NEW u, NEW v, NEW x, NEW y,
           Goes(a, o, t, p, u, x), Goes(b, p, u, q, v, y)
    PROVE  Goes(a \o b, o, t, q, v, x /\ y)
<1>0. Linkless(a \o b)
  BY LinklessBoth DEF Goes
<1>1. \A r : Followed("make", r, a \o b) = Followed("make", Followed("make", r, a), b)
  <2>1. AList(a) /\ AList(b)
    BY DEF Goes, Linkless
  <2> QED
    BY <2>1, ListsJoined
<1> DEFINE both == a \o b
<1> HIDE DEF both
<1>2. /\ Linkless(both)
      /\ \A r : Followed("make", r, both) = Followed("make", Followed("make", r, a), b)
  BY <1>0, <1>1 DEF both
<1>3. Goes(both, o, t, q, v, x /\ y)
  <2> SUFFICES ASSUME NEW r, WellRead(r), r.depth = 0, r.open = o, r.inTag => t
               PROVE  LET s == Followed("make", r, both)
                      IN  /\ WellRead(s) /\ s.depth = 0 /\ s.open = q /\ (s.inTag => v)
                          /\ s.cells = r.cells /\ (s.good <=> r.good /\ x /\ y)
    BY <1>2 DEF Goes
  <2> DEFINE m == Followed("make", r, a)
             n == Followed("make", m, b)
  <2>1. /\ WellRead(m) /\ m.depth = 0 /\ m.open = p /\ (m.inTag => u)
        /\ m.cells = r.cells /\ (m.good <=> r.good /\ x)
    BY DEF Goes
  <2> HIDE DEF m
  <2>2. /\ WellRead(n) /\ n.depth = 0 /\ n.open = q /\ (n.inTag => v)
        /\ n.cells = m.cells /\ (n.good <=> m.good /\ y)
    BY <2>1 DEF Goes
  <2>3. Followed("make", r, both) = n
    BY <1>2 DEF m
  <2> HIDE DEF n
  <2> QED
    BY <2>1, <2>2, <2>3
<1> QED
  BY <1>3 DEF both

LEMMA GoesIs ==
    ASSUME NEW list, NEW o, NEW p, NEW t, NEW u, NEW x, NEW y, x <=> y, Goes(list, o, t, p, u, x)
    PROVE  Goes(list, o, t, p, u, y)
  BY DEF Goes

LEMMA GoesFrom ==
    ASSUME NEW list, NEW o, NEW p, NEW t, NEW u, NEW x, Goes(list, o, t, p, u, x)
    PROVE  Goes(list, o, FALSE, p, u, x)
  BY DEF Goes

LEMMA GoesWell ==
    ASSUME NEW a, NEW b, NEW o, NEW p, NEW q, NEW t, NEW u, NEW v,
           Goes(a, o, t, p, u, TRUE), Goes(b, p, u, q, v, TRUE)
    PROVE  Goes(a \o b, o, t, q, v, TRUE)
<1> DEFINE both == a \o b
           ok == TRUE /\ TRUE
<1>1. Goes(both, o, t, q, v, ok)
  BY GoesOn, Zenon
<1>2. ok <=> TRUE
  OBVIOUS
<1> HIDE DEF both, ok
<1>3. Goes(both, o, t, q, v, TRUE)
  BY <1>1, <1>2, GoesIs, Zenon
<1> QED
  BY <1>3, Zenon DEF both

LEMMA GoesThenWell ==
    ASSUME NEW a, NEW b, NEW o, NEW p, NEW q, NEW t, NEW u, NEW v, NEW x,
           Goes(a, o, t, p, u, x), Goes(b, p, u, q, v, TRUE)
    PROVE  Goes(a \o b, o, t, q, v, x)
<1> DEFINE both == a \o b
           ok == x /\ TRUE
<1>1. Goes(both, o, t, q, v, ok)
  BY GoesOn, Zenon
<1>2. ok <=> x
  OBVIOUS
<1> HIDE DEF both, ok
<1>3. Goes(both, o, t, q, v, x)
  BY <1>1, <1>2, GoesIs, Zenon
<1> QED
  BY <1>3, Zenon DEF both

LEMMA GoesWellThen ==
    ASSUME NEW a, NEW b, NEW o, NEW p, NEW q, NEW t, NEW u, NEW v, NEW y,
           Goes(a, o, t, p, u, TRUE), Goes(b, p, u, q, v, y)
    PROVE  Goes(a \o b, o, t, q, v, y)
<1> DEFINE both == a \o b
           x == TRUE
           ok == x /\ y
<1>0. Goes(a, o, t, p, u, x)
  OBVIOUS
<1>2. ok <=> y
  OBVIOUS
<1> HIDE DEF both, x
<1>1. Goes(both, o, t, q, v, ok)
  BY <1>0, GoesOn DEF both
<1> HIDE DEF ok
<1>3. Goes(both, o, t, q, v, y)
  BY <1>1, <1>2, GoesIs, Zenon
<1> QED
  BY <1>3, Zenon DEF both

LEMMA GoesWhereLed ==
    ASSUME NEW list, NEW o, NEW p, NEW t, NEW u, Leads(list, o, t, p, u), Linkless(list)
    PROVE  Goes(list, o, t, p, u, TRUE)
  BY DEF Leads, Goes

LEMMA LedWhereGoes ==
    ASSUME NEW list, NEW o, NEW p, NEW t, NEW u, Goes(list, o, t, p, u, TRUE)
    PROVE  Leads(list, o, t, p, u) /\ Linkless(list) /\ AList(list)
  BY DEF Leads, Goes, Linkless

LEMMA GoesNowhere == ASSUME NEW o, NEW t, NEW u, t => u PROVE Goes(<<>>, o, t, o, u, TRUE)
  BY LeadsNowhere, LinklessCalls, GoesWhereLed

LEMMA GoesIn ==
    ASSUME NEW o, AList(o), NEW t, NEW name, name # "td",
           NEW list, AreAttributes(list, name), Linkless(list), NEW ok, NoQuote(list) <=> ok
    PROVE  Goes(Element(name, list), o, t, Within(o, name), TRUE, ok)
<1> DEFINE el == Element(name, list)
<1>1. Linkless(el)
  BY LinklessCalls, Zenon
<1>2. ASSUME NEW r, WellRead(r), r.depth = 0, r.open = o
      PROVE  LET s == Followed("make", r, el)
             IN  /\ WellRead(s) /\ s.depth = 0 /\ s.open = Within(o, name)
                 /\ s.cells = r.cells /\ (s.good <=> r.good /\ ok)
  BY <1>2, ElementMade DEF Within
<1> HIDE DEF el
<1>3. Goes(el, o, t, Within(o, name), TRUE, ok)
  BY <1>1, <1>2 DEF Goes
<1> QED
  BY <1>3, Zenon DEF el

LEMMA GoesInto ==
    ASSUME NEW o, AList(o), NEW t, NEW name, name # "td"
    PROVE  Goes(Element(name, <<>>), o, t, Within(o, name), TRUE, TRUE)
  BY GoesIn, AttributesNone, LinklessCalls

LEMMA GoesOut ==
    ASSUME NEW o, AList(o), NEW t, NEW name
    PROVE  Goes(End, Within(o, name), t, o, FALSE, TRUE)
  BY LeadsOut, LinklessCalls, GoesWhereLed

LEMMA GoesWords == ASSUME NEW o, NEW t PROVE Goes(Characters(Words), o, t, o, FALSE, TRUE)
  BY LeadsWords, LinklessCalls, GoesWhereLed

LEMMA GoesBytes == ASSUME NEW o, NEW what PROVE Goes(Bytes(what), o, FALSE, o, FALSE, what # "broken")
<1>1. CASE what # "broken"
  <2>1. Goes(Bytes(what), o, FALSE, o, FALSE, TRUE)
    BY <1>1, LeadsBytes, LinklessCalls, GoesWhereLed
  <2> QED
    BY <1>1, <2>1, GoesIs
<1>2. CASE what = "broken"
  <2> DEFINE list == Bytes(what)
  <2>1. Linkless(list)
    BY LinklessCalls
  <2>2. ASSUME NEW r, WellRead(r), r.depth = 0, r.open = o, ~r.inTag
        PROVE  LET s == Followed("make", r, list)
               IN  /\ WellRead(s) /\ s.depth = 0 /\ s.open = o /\ ~s.inTag
                   /\ s.cells = r.cells /\ ~s.good
    <3> DEFINE s == Followed("make", r, list)
               mark == Mark("bytes", what)
               good == /\ r.good /\ Harmless(mark) /\ r.inTag = InTag(mark)
                       /\ (mark.kind = "close" => r.open # <<>> /\ r.open[Len(r.open)] = mark.what)
    <3>1. s = Read(r, mark)
      <4>1. s = Made(r, [call |-> "bytes", arg |-> what])
        BY FollowedOne DEF Bytes, Take
      <4> QED
        BY <4>1 DEF Made
    <3>2. mark.kind = "bytes" /\ ~Harmless(mark)
      BY <1>2 DEF Harmless, Mark
    <3> HIDE DEF mark, s
    <3>3. Read(r, mark) = [r EXCEPT !.good = good]
      BY <3>2, Zenon DEF Read
    <3>4. good <=> r.good /\ FALSE
      BY <3>2
    <3> HIDE DEF good
    <3>5. IsReading(r)
      BY <2>2 DEF WellRead
    <3>6. Marked(r, mark, r, FALSE)
      BY <3>3, <3>4, <3>5, ReadFields, Zenon
    <3>7. /\ IsReading(s) /\ ~s.good
          /\ s.open = r.open /\ s.inTag = r.inTag /\ s.depth = r.depth /\ s.cells = r.cells
      BY <3>1, <3>6 DEF Marked
    <3> QED
      BY <2>2, <3>7 DEF WellRead, s
  <2> HIDE DEF list
  <2>3. Goes(list, o, FALSE, o, FALSE, FALSE)
    BY <2>1, <2>2 DEF Goes
  <2> QED
    BY <1>2, <2>3, GoesIs DEF list
<1> QED
  BY <1>1, <1>2

LEMMA GoesText ==
    ASSUME NEW o, NEW t, NEW name, name # "td"
    PROVE  Goes(TextElement(name, <<>>, Words), o, t, o, FALSE, TRUE)
<1>1. Leads(TextElement(name, <<>>, Words), o, t, o, FALSE)
  BY LeadsText, AttributesNone
<1>2. Linkless(TextElement(name, <<>>, Words))
  <2>1. Linkless(Element(name, <<>>)) /\ Linkless(Characters(Words)) /\ Linkless(End)
    BY LinklessCalls
  <2> DEFINE a == Element(name, <<>>)
             b == Characters(Words)
  <2> HIDE DEF a, b
  <2>2. Linkless(a \o b)
    BY <2>1, LinklessBoth DEF a, b
  <2> DEFINE ab == a \o b
  <2> HIDE DEF ab
  <2>3. Linkless(ab \o End)
    BY <2>1, <2>2, LinklessBoth DEF ab
  <2> QED
    BY <2>3, Zenon DEF TextElement, ab, a, b
<1> QED
  BY <1>1, <1>2, GoesWhereLed

(* FlattenSeq joins one list after the other. *)
IsJoining(g, list) ==
    \A m \in 1..Len(list) : g[m] = IF m = 1 THEN list[m] ELSE Chained(g[m - 1], list[m])

LEMMA JoiningExists ==
    ASSUME NEW list, Len(list) \in Nat \ {0}
    PROVE  \E g : IsJoining(g, list) /\ FlattenSeq(list) = g[Len(list)]
<1> DEFINE n == Len(list)
           Is(f) == f = [j \in 1..Len(list) |-> IF j = 1 THEN list[j] ELSE f[j - 1] \o list[j]]
           g == CHOOSE f : Is(f)
<1>1. PICK f : IsFlattening(f, list, n)
  BY FlatteningExists, Zenon
<1>2. Is(f)
  BY <1>1, Zenon DEF IsFlattening
<1>3. Is(g)
  <2> HIDE DEF Is
  <2> QED
    BY <1>2
<1>4. FlattenSeq(list) = g[n]
  BY DEF FlattenSeq
<1> HIDE DEF g
<1>5. \A m \in 1..n : g[m] = IF m = 1 THEN list[m] ELSE Chained(g[m - 1], list[m])
  BY <1>3, Zenon DEF Chained
<1> HIDE DEF Is
<1> QED
  BY <1>4, <1>5, Zenon DEF IsJoining

LEMMA GoesFlat ==
    ASSUME NEW list, Len(list) \in Nat \ {0}, NEW o, NEW bad,
           \A k \in 1..Len(list) : Goes(list[k], o, TRUE, o, FALSE, k \notin bad)
    PROVE  Goes(FlattenSeq(list), o, TRUE, o, FALSE, \A k \in 1..Len(list) : k \notin bad)
<1> DEFINE n == Len(list)
<1>1. PICK g : IsJoining(g, list) /\ FlattenSeq(list) = g[n]
  BY JoiningExists
<1>2. \A m \in 1..n : g[m] = IF m = 1 THEN list[m] ELSE Chained(g[m - 1], list[m])
  BY <1>1, Zenon DEF IsJoining
<1>3. n \in Nat \ {0}
  OBVIOUS
<1>4. \A k \in 1..n : Goes(list[k], o, TRUE, o, FALSE, k \notin bad)
  BY Zenon
<1> HIDE DEF n
<1> DEFINE ok(m) == \A k \in 1..m : k \notin bad
           T == {m \in Nat : m \in 1..n => Goes(g[m], o, TRUE, o, FALSE, ok(m))}
<1>5. ok(1) <=> 1 \notin bad
  <2>1. \A k \in 1..1 : k = 1
    OBVIOUS
  <2>2. 1 \in 1..1
    OBVIOUS
  <2> QED
    BY <2>1, <2>2, Zenon
<1>6. \A m \in Nat : ok(m + 1) <=> ok(m) /\ m + 1 \notin bad
  <2> TAKE m \in Nat
  <2>1. \A k \in 1..m + 1 : k \in 1..m \/ k = m + 1
    OBVIOUS
  <2>2. 1..m \subseteq 1..m + 1 /\ m + 1 \in 1..m + 1
    OBVIOUS
  <2> QED
    BY <2>1, <2>2, Zenon
<1> HIDE DEF ok
<1>7. 0 \in T
  <2>1. ~(0 \in 1..n)
    BY <1>3
  <2> QED
    BY <2>1
<1>8. ASSUME NEW m \in Nat, m \in T PROVE m + 1 \in T
  <2>1. ASSUME m + 1 \in 1..n PROVE Goes(g[m + 1], o, TRUE, o, FALSE, ok(m + 1))
    <3>1. CASE m = 0
      <4>1. m + 1 = 1 /\ g[1] = list[1] /\ 1 \in 1..n
        BY <1>2, <1>3, <2>1, <3>1
      <4>2. Goes(list[1], o, TRUE, o, FALSE, 1 \notin bad)
        BY <1>4, <4>1, Zenon
      <4> DEFINE b == list[1]
                 x == 1 \notin bad
                 y == ok(1)
      <4>3. x <=> y
        BY <1>5
      <4> HIDE DEF b, x, y
      <4>4. Goes(b, o, TRUE, o, FALSE, y)
        BY <4>2, <4>3, GoesIs, Zenon DEF b, x
      <4> QED
        BY <4>1, <4>4, Zenon DEF b, y
    <3>2. CASE m # 0
      <4>1. m \in 1..n /\ m + 1 # 1 /\ (m + 1) - 1 = m
        BY <1>3, <2>1, <3>2
      <4>2. Goes(g[m], o, TRUE, o, FALSE, ok(m)) /\ g[m + 1] = Chained(g[m], list[m + 1])
        BY <1>2, <1>8, <2>1, <4>1, Zenon
      <4> DEFINE a == g[m]
                 b == list[m + 1]
                 x == ok(m)
                 y == m + 1 \notin bad
                 z == ok(m + 1)
      <4>3. Goes(b, o, TRUE, o, FALSE, y)
        BY <1>4, <2>1, Zenon
      <4>4. x /\ y <=> z
        BY <1>6
      <4> HIDE DEF a, b, x, y, z
      <4>5. Goes(b, o, FALSE, o, FALSE, y)
        BY <4>3, GoesFrom, Zenon
      <4>6. Goes(a \o b, o, TRUE, o, FALSE, x /\ y)
        BY <4>2, <4>5, GoesOn, Zenon DEF a, x
      <4> DEFINE ab == a \o b
                 xy == x /\ y
      <4>7. xy <=> z
        BY <4>4
      <4> HIDE DEF ab, xy
      <4>8. Goes(ab, o, TRUE, o, FALSE, z)
        BY <4>6, <4>7, GoesIs, Zenon DEF ab, xy
      <4> QED
        BY <4>2, <4>8, Zenon DEF Chained, ab, a, b, z
    <3> QED
      BY <3>1, <3>2, Zenon
  <2>2. m + 1 \in Nat
    OBVIOUS
  <2> QED
    BY <2>1, <2>2, Zenon
<1> HIDE DEF T
<1>9. Nat \subseteq T
  BY <1>7, <1>8, NatByInduction
<1>10. n \in 1..n
  BY <1>3
<1> QED
  BY <1>1, <1>3, <1>9, <1>10, Zenon DEF T, n, ok
-----------------------------------------------------------------------------
(* The page of a symbol down to its references. *)
LEMMA NotAFile == ASSUME NEW a, NEW b, NEW f, NEW l PROVE <<a>> # FileLink(f, l) /\ <<a, b>> # FileLink(f, l)
<1>1. Len(<<a>>) = 1 /\ Len(<<a, b>>) = 2 /\ Len(FileLink(f, l)) = 3
  BY DEF FileLink
<1> QED
  BY <1>1

LEMMA TitleGoes == Goes(Title(Words), InHtml, TRUE, InHead, FALSE, TRUE)
<1> DEFINE a == Element("head", <<>>)
           b == TextElement("title", <<>>, Words)
<1>1. Linkless(a)
  BY LinklessCalls
<1>2. Linkless(b)
  BY GoesText DEF Goes
<1> HIDE DEF a, b
<1>3. Linkless(a \o b)
  BY <1>1, <1>2, LinklessBoth
<1>4. Linkless(Title(Words))
  BY <1>3, Zenon DEF Title, a, b
<1> QED
  BY <1>4, LeadsTitle, GoesWhereLed

LEMMA StylesheetGoes == Goes(Stylesheet(<<>>), InHead, FALSE, InHead, FALSE, TRUE)
<1> DEFINE a0 == <<>>
           a1 == Attribute("rel", "stylesheet")
           a2 == Attribute("type", "text/css")
           a3 == Attribute("href", <<"css">>)
           b1 == a0 \o a1
           b2 == b1 \o a2
           b3 == b2 \o a3
           el == Element("link", b3)
<1>1. Linkless(a0) /\ Linkless(a1) /\ Linkless(a2) /\ Linkless(a3)
  BY LinklessCalls, NotAFile DEF Attribute
<1>2. Stylesheet(<<>>) = el \o End
  BY DEF Stylesheet
<1> HIDE DEF a0, a1, a2, a3
<1>3. Linkless(b1)
  BY <1>1, LinklessBoth
<1> HIDE DEF b1
<1>4. Linkless(b2)
  BY <1>1, <1>3, LinklessBoth
<1> HIDE DEF b2
<1>5. Linkless(b3)
  BY <1>1, <1>4, LinklessBoth
<1> HIDE DEF b3
<1>6. Linkless(el) /\ Linkless(End)
  BY <1>5, LinklessCalls
<1> HIDE DEF el
<1>7. Linkless(el \o End)
  BY <1>6, LinklessBoth
<1>8. Linkless(Stylesheet(<<>>))
  BY <1>2, <1>7, Zenon
<1>9. Leads(Stylesheet(<<>>), InHead, FALSE, InHead, FALSE)
  BY ElementsAreLists, AttributesNone, LeadsStylesheet
<1> QED
  BY <1>8, <1>9, GoesWhereLed

(* Attributes that leave a page well and do not link to a file. *)
Plain(list, name) == AreAttributes(list, name) /\ NoQuote(list) /\ Linkless(list)

LEMMA PlainAttributes ==
    /\ \A name : Plain(<<>>, name)
    /\ Plain(Attribute("class", "base"), "a") /\ Plain(Attribute("class", "symbol-flag"), "span")
<1>1. \A name : Plain(<<>>, name)
  BY AttributesNone, LinklessCalls DEF Plain
<1>2. Plain(Attribute("class", "base"), "a")
  <2>1. AreAttributes(Attribute("class", "base"), "a") /\ NoQuote(Attribute("class", "base"))
    BY AttributesOne, Zenon DEF Attribute
  <2>2. Linkless(Attribute("class", "base"))
    BY LinklessCalls DEF Attribute
  <2> QED
    BY <2>1, <2>2 DEF Plain
<1>3. Plain(Attribute("class", "symbol-flag"), "span")
  <2>1. AreAttributes(Attribute("class", "symbol-flag"), "span") /\ NoQuote(Attribute("class", "symbol-flag"))
    BY AttributesOne, Zenon DEF Attribute
  <2>2. Linkless(Attribute("class", "symbol-flag"))
    BY LinklessCalls DEF Attribute
  <2> QED
    BY <2>1, <2>2 DEF Plain
<1> QED
  BY <1>1, <1>2, <1>3

(* A link to a symbol with a quote in its name breaks the page. *)
LEMMA GoesLink ==
    ASSUME NEW o, AList(o), NEW t, NEW list, Plain(list, "a"), NEW id
    PROVE  Goes(SymbolLink(list, id), o, t, o, FALSE, id \notin Quoted)
<1> DEFINE href == AttributeOf("href", <<"symbol", id>>, id \in Quoted)
           more == list \o href
           oo == Within(o, "a")
           x == id \notin Quoted
<1>1. AreAttributes(href, "a") /\ (NoQuote(href) <=> x)
  BY AttributesOne, Zenon
<1>2. Linkless(href)
  BY LinklessCalls, NotAFile
<1> HIDE DEF href, x
<1>3. AreAttributes(more, "a") /\ (NoQuote(more) <=> x)
  BY <1>1, AttributesBoth DEF Plain
<1>4. Linkless(more)
  BY <1>2, LinklessBoth DEF Plain
<1> HIDE DEF more
<1> DEFINE p1 == Element("a", more)
           p2 == Characters(Words)
           p3 == End
<1>5. Goes(p1, o, t, oo, TRUE, x)
  BY <1>3, <1>4, GoesIn, Zenon
<1>6. Goes(p2, oo, TRUE, oo, FALSE, TRUE)
  BY GoesWords, Zenon
<1>7. Goes(p3, oo, FALSE, o, FALSE, TRUE)
  BY GoesOut, Zenon
<1> HIDE DEF p1, p2, p3
<1> DEFINE l2 == p1 \o p2
           l3 == l2 \o p3
<1> HIDE DEF l2, l3
<1>8. Goes(l2, o, t, oo, FALSE, x)
  BY <1>5, <1>6, GoesThenWell, Zenon DEF l2
<1>9. Goes(l3, o, t, o, FALSE, x)
  BY <1>8, <1>7, GoesThenWell, Zenon DEF l3
<1> DEFINE all == l3
           y == x
<1> HIDE DEF all
<1>10. y <=> x
  OBVIOUS
<1>11. Goes(all, o, t, o, FALSE, y)
  BY <1>9, Zenon DEF all
<1> HIDE DEF y
<1>12. Goes(all, o, t, o, FALSE, x)
  BY <1>10, <1>11, GoesIs, Zenon
<1> QED
  BY <1>12, Zenon DEF SymbolLink, all, l3, l2, p1, p2, p3, more, href, x

LEMMA EmptyIs == ASSUME NEW f, DOMAIN f = 1..0, f = [k \in 1..0 |-> f[k]] PROVE f = <<>> /\ FlattenSeq(f) = <<>>
<1>1. AList(f) /\ Len(f) = 0
  BY FunctionIsList
<1>2. AList(<<>>) /\ Len(<<>>) = 0 /\ ~ \E k \in 1..0 : TRUE
  BY ElementsAreLists
<1>3. f = <<>>
  BY <1>1, <1>2, ListsEqual
<1>4. FlattenSeq(<<>>) = <<>>
  BY <1>2 DEF FlattenSeq
<1> QED
  BY <1>3, <1>4

LEMMA InRange == ASSUME NEW list, AList(list) PROVE Range(list) = {list[k] : k \in 1..Len(list)}
<1>1. DOMAIN list = 1..Len(list)
  BY ListFacts2
<1> QED
  BY <1>1 DEF Range

LEMMA GoesListing ==
    ASSUME NEW o, AList(o), NEW ids, AList(ids), NEW list, Plain(list, "a")
    PROVE  Goes(Listing(ids, list), o, FALSE, o, FALSE, Range(ids) \cap Quoted = {})
<1>1. CASE ids = <<>>
  <2>1. Goes(<<>>, o, FALSE, o, FALSE, TRUE)
    BY GoesNowhere
  <2>2. Range(ids) \cap Quoted = {}
    <3>1. Len(ids) = 0 /\ ~ \E k \in 1..0 : TRUE
      BY <1>1
    <3> QED
      BY <3>1, InRange
  <2> DEFINE ok == Range(ids) \cap Quoted = {}
  <2>3. TRUE <=> ok
    BY <2>2
  <2> HIDE DEF ok
  <2>4. Goes(<<>>, o, FALSE, o, FALSE, ok)
    BY <2>1, <2>3, GoesIs, Zenon
  <2> QED
    BY <1>1, <2>4, Zenon DEF Listing, ok
<1>2. CASE ids # <<>>
  <2> DEFINE n == Len(ids)
             links == [k \in DOMAIN ids |-> SymbolLink(list, ids[k]) \o Characters(Words)]
             bad == {k \in 1..n : ids[k] \in Quoted}
             oo == Within(o, "p")
             x == Range(ids) \cap Quoted = {}
             x2 == \A k \in 1..n : k \notin bad
  <2>1. n \in Nat \ {0} /\ DOMAIN ids = 1..n
    BY <1>2, ListFacts2
  <2>2. AList(oo)
    BY WithinIsList
  <2>3. x <=> x2
    BY <2>1, InRange
  <2>4. Len(links) = n
    <3>1. DOMAIN links = 1..n /\ links = [k \in 1..n |-> links[k]] /\ n \in Nat
      BY <2>1
    <3> HIDE DEF links, n
    <3> QED
      BY <3>1, FunctionIsList
  <2>5. ASSUME NEW k \in 1..n PROVE Goes(links[k], oo, TRUE, oo, FALSE, k \notin bad)
    <3> DEFINE a == SymbolLink(list, ids[k])
               b == Characters(Words)
               y == ids[k] \notin Quoted
               z == k \notin bad
               yt == y /\ TRUE
    <3>1. links[k] = a \o b
      BY <2>1
    <3>2. Goes(a, oo, TRUE, oo, FALSE, y)
      BY <2>2, GoesLink, Zenon
    <3>3. Goes(b, oo, FALSE, oo, FALSE, TRUE)
      BY GoesWords, Zenon
    <3>4. yt <=> z
      OBVIOUS
    <3> HIDE DEF a, b, y, z, oo, links, bad
    <3>5. Goes(a \o b, oo, TRUE, oo, FALSE, yt)
      BY <3>2, <3>3, GoesOn, Zenon
    <3> HIDE DEF yt
    <3> DEFINE ab == a \o b
    <3> HIDE DEF ab
    <3>6. Goes(ab, oo, TRUE, oo, FALSE, z)
      BY <3>4, <3>5, GoesIs, Zenon DEF ab
    <3> QED
      BY <3>1, <3>6, Zenon DEF ab, z
  <2>6. Goes(FlattenSeq(links), oo, TRUE, oo, FALSE, x2)
    <3> HIDE DEF links, n, bad, oo
    <3>1. Len(links) \in Nat \ {0} /\ \A k \in 1..Len(links) : Goes(links[k], oo, TRUE, oo, FALSE, k \notin bad)
      BY <2>1, <2>4, <2>5
    <3>2. Goes(FlattenSeq(links), oo, TRUE, oo, FALSE, \A k \in 1..Len(links) : k \notin bad)
      BY <3>1, GoesFlat
    <3> QED
      BY <2>4, <3>2
  <2> HIDE DEF x, x2, bad, n
  <2> DEFINE flat == FlattenSeq(links)
  <2>7. Goes(flat, oo, FALSE, oo, FALSE, x2)
    BY <2>6, GoesFrom, Zenon
  <2>8. Listing(ids, list) = Element("p", <<>>) \o Characters(Words) \o flat \o End
    BY <1>2 DEF Listing
  <2> HIDE DEF links, flat
  <2> DEFINE p1 == Element("p", <<>>)
             p2 == Characters(Words)
             p3 == flat
             p4 == End
  <2>9. Goes(p1, o, FALSE, oo, TRUE, TRUE)
    BY GoesInto, Zenon
  <2>10. Goes(p2, oo, TRUE, oo, FALSE, TRUE)
    BY GoesWords, Zenon
  <2>11. Goes(p3, oo, FALSE, oo, FALSE, x2)
    BY <2>7, Zenon
  <2>12. Goes(p4, oo, FALSE, o, FALSE, TRUE)
    BY GoesOut, Zenon
  <2> HIDE DEF p1, p2, p3, p4, oo
  <2> DEFINE l2 == p1 \o p2
             l3 == l2 \o p3
             l4 == l3 \o p4
  <2> HIDE DEF l2, l3, l4
  <2>13. Goes(l2, o, FALSE, oo, FALSE, TRUE)
    BY <2>9, <2>10, GoesWell, Zenon DEF l2
  <2>14. Goes(l3, o, FALSE, oo, FALSE, x2)
    BY <2>13, <2>11, GoesWellThen, Zenon DEF l3
  <2>15. Goes(l4, o, FALSE, o, FALSE, x2)
    BY <2>14, <2>12, GoesThenWell, Zenon DEF l4
  <2> DEFINE all == l4
             y == x2
  <2> HIDE DEF all
  <2>16. y <=> x
    BY <2>3
  <2>17. Goes(all, o, FALSE, o, FALSE, y)
    BY <2>15, Zenon DEF all
  <2> HIDE DEF y
  <2>18. Goes(all, o, FALSE, o, FALSE, x)
    BY <2>16, <2>17, GoesIs, Zenon
  <2> QED
    BY <2>8, <2>18, Zenon DEF all, l4, l3, l2, p1, p2, p3, p4, x
<1> QED
  BY <1>1, <1>2

LEMMA GoesTagged ==
    ASSUME NEW list, NEW o, NEW p, NEW t, NEW x, Goes(list, o, t, p, FALSE, x)
    PROVE  Goes(list, o, t, p, TRUE, x)
  BY DEF Goes

(* The names of the flags of a symbol. *)
FlagCalls == Element("span", Attribute("class", "symbol-flag"))
                 \o Characters(Words) \o Characters(Words) \o Characters(Words) \o End

LEMMA GoesFlag == ASSUME NEW o, AList(o) PROVE Goes(FlagCalls, o, TRUE, o, FALSE, TRUE)
<1> DEFINE oo == Within(o, "span")
           list == Attribute("class", "symbol-flag")
<1>1. AreAttributes(list, "span") /\ Linkless(list) /\ (NoQuote(list) <=> TRUE)
  BY PlainAttributes DEF Plain
<1> HIDE DEF list
<1> DEFINE p1 == Element("span", list)
           p2 == Characters(Words)
           p3 == Characters(Words)
           p4 == Characters(Words)
           p5 == End
<1>2. Goes(p1, o, TRUE, oo, TRUE, TRUE)
  BY <1>1, GoesIn, Zenon
<1>3. Goes(p2, oo, TRUE, oo, FALSE, TRUE)
  BY GoesWords, Zenon
<1>4. Goes(p3, oo, FALSE, oo, FALSE, TRUE)
  BY GoesWords, Zenon
<1>5. Goes(p4, oo, FALSE, oo, FALSE, TRUE)
  BY GoesWords, Zenon
<1>6. Goes(p5, oo, FALSE, o, FALSE, TRUE)
  BY GoesOut, Zenon
<1> HIDE DEF p1, p2, p3, p4, p5, oo
<1> DEFINE l2 == p1 \o p2
           l3 == l2 \o p3
           l4 == l3 \o p4
           l5 == l4 \o p5
<1> HIDE DEF l2, l3, l4, l5
<1>7. Goes(l2, o, TRUE, oo, FALSE, TRUE)
  BY <1>2, <1>3, GoesWell, Zenon DEF l2
<1>8. Goes(l3, o, TRUE, oo, FALSE, TRUE)
  BY <1>7, <1>4, GoesWell, Zenon DEF l3
<1>9. Goes(l4, o, TRUE, oo, FALSE, TRUE)
  BY <1>8, <1>5, GoesWell, Zenon DEF l4
<1>10. Goes(l5, o, TRUE, o, FALSE, TRUE)
  BY <1>9, <1>6, GoesWell, Zenon DEF l5
<1> QED
  BY <1>10, Zenon DEF FlagCalls, list, p1, p2, p3, p4, p5, l2, l3, l4, l5

LEMMA GoesFlags ==
    ASSUME NEW o, AList(o), NEW n \in Nat
    PROVE  Goes(FlattenSeq([k \in 1..n |-> FlagCalls]), o, TRUE, o, TRUE, TRUE)
<1> DEFINE list == [k \in 1..n |-> FlagCalls]
<1>1. DOMAIN list = 1..n /\ list = [k \in 1..n |-> list[k]] /\ \A k \in 1..n : list[k] = FlagCalls
  OBVIOUS
<1> HIDE DEF list
<1>2. CASE n = 0
  <2>1. FlattenSeq(list) = <<>>
    BY <1>1, <1>2, EmptyIs
  <2>2. Goes(<<>>, o, TRUE, o, TRUE, TRUE)
    BY GoesNowhere
  <2> QED
    BY <2>1, <2>2 DEF list
<1>3. CASE n # 0
  <2>1. Len(list) = n
    BY <1>1, FunctionIsList
  <2> DEFINE bad == {}
             x == \A k \in 1..Len(list) : k \notin bad
             F == FlagCalls
  <2>2. Goes(F, o, TRUE, o, FALSE, TRUE)
    BY GoesFlag
  <2> HIDE DEF F
  <2>3. ASSUME NEW k \in 1..Len(list) PROVE Goes(list[k], o, TRUE, o, FALSE, k \notin bad)
    <3> DEFINE y == k \notin bad
    <3>1. TRUE <=> y
      OBVIOUS
    <3> HIDE DEF y
    <3>2. Goes(F, o, TRUE, o, FALSE, y)
      BY <2>2, <3>1, GoesIs, Zenon
    <3>3. list[k] = F
      BY <1>1, <2>1 DEF F
    <3> QED
      BY <3>2, <3>3, Zenon DEF y
  <2>4. Len(list) \in Nat \ {0}
    BY <1>3, <2>1
  <2> HIDE DEF bad
  <2> DEFINE flat == FlattenSeq(list)
  <2>5. Goes(flat, o, TRUE, o, FALSE, x)
    BY <2>3, <2>4, GoesFlat
  <2>6. x <=> TRUE
    BY DEF bad
  <2> HIDE DEF x, flat
  <2>7. Goes(flat, o, TRUE, o, FALSE, TRUE)
    BY <2>5, <2>6, GoesIs, Zenon
  <2>8. Goes(flat, o, TRUE, o, TRUE, TRUE)
    BY <2>7, GoesTagged, Zenon
  <2> QED
    BY <2>8, Zenon DEF flat, list
<1> QED
  BY <1>2, <1>3

ParentCalls(id) ==
    IF Parents(id) = <<>> THEN <<>>
    ELSE Element("p", <<>>) \o Characters(Words) \o SymbolLink(<<>>, ParentOf[id]) \o End

LEMMA GoesParent ==
    ASSUME NEW o, AList(o), NEW id
    PROVE  Goes(ParentCalls(id), o, FALSE, o, FALSE, Range(Parents(id)) \cap Quoted = {})
<1> DEFINE x == Range(Parents(id)) \cap Quoted = {}
<1>1. CASE ParentOf[id] = NoSymbol
  <2>1. Parents(id) = <<>> /\ Range(<<>>) = {}
    BY <1>1 DEF Parents, Range
  <2>2. TRUE <=> x
    BY <2>1
  <2> HIDE DEF x
  <2>3. Goes(<<>>, o, FALSE, o, FALSE, TRUE)
    BY GoesNowhere
  <2>4. Goes(<<>>, o, FALSE, o, FALSE, x)
    BY <2>2, <2>3, GoesIs, Zenon
  <2> QED
    BY <2>1, <2>4 DEF ParentCalls, x
<1>2. CASE ParentOf[id] # NoSymbol
  <2> DEFINE one == <<ParentOf[id]>>
             z == ParentOf[id] \notin Quoted
             oo == Within(o, "p")
             q == ParentOf[id]
             link == SymbolLink(<<>>, q)
  <2>1. Parents(id) = one /\ one # <<>>
    BY <1>2 DEF Parents
  <2>2. Range(one) = {q}
    <3>1. DOMAIN one = 1..1 /\ one[1] = q /\ \A k \in 1..1 : k = 1
      OBVIOUS
    <3> QED
      BY <3>1 DEF Range
  <2>3. z <=> x
    BY <2>1, <2>2
  <2>4. AList(oo) /\ Plain(<<>>, "a")
    BY WithinIsList, PlainAttributes
  <2>5. Goes(link, oo, FALSE, oo, FALSE, z)
    BY <2>4, GoesLink
  <2>6. ParentCalls(id) = Element("p", <<>>) \o Characters(Words) \o link \o End
    BY <2>1 DEF ParentCalls
  <2> HIDE DEF one, z, q, link, x
  <2> DEFINE p1 == Element("p", <<>>)
             p2 == Characters(Words)
             p3 == link
             p4 == End
  <2>7. Goes(p1, o, FALSE, oo, TRUE, TRUE)
    BY GoesInto, Zenon
  <2>8. Goes(p2, oo, TRUE, oo, FALSE, TRUE)
    BY GoesWords, Zenon
  <2>9. Goes(p3, oo, FALSE, oo, FALSE, z)
    BY <2>5, Zenon
  <2>10. Goes(p4, oo, FALSE, o, FALSE, TRUE)
    BY GoesOut, Zenon
  <2> HIDE DEF p1, p2, p3, p4, oo
  <2> DEFINE l2 == p1 \o p2
             l3 == l2 \o p3
             l4 == l3 \o p4
  <2> HIDE DEF l2, l3, l4
  <2>11. Goes(l2, o, FALSE, oo, FALSE, TRUE)
    BY <2>7, <2>8, GoesWell, Zenon DEF l2
  <2>12. Goes(l3, o, FALSE, oo, FALSE, z)
    BY <2>11, <2>9, GoesWellThen, Zenon DEF l3
  <2>13. Goes(l4, o, FALSE, o, FALSE, z)
    BY <2>12, <2>10, GoesThenWell, Zenon DEF l4
  <2> DEFINE all == l4
             y == z
  <2> HIDE DEF all
  <2>14. y <=> x
    BY <2>3
  <2>15. Goes(all, o, FALSE, o, FALSE, y)
    BY <2>13, Zenon DEF all
  <2> HIDE DEF y
  <2>16. Goes(all, o, FALSE, o, FALSE, x)
    BY <2>14, <2>15, GoesIs, Zenon
  <2> QED
    BY <2>6, <2>16, Zenon DEF all, l4, l3, l2, p1, p2, p3, p4, x
<1> QED
  BY <1>1, <1>2

(* The symbols that are linked to. *)
LEMMA RelatedAreLists ==
    ASSUME NEW id
    PROVE  /\ AList(Parents(id)) /\ AList(BasesOf(id)) /\ AList(DerivedOf(id))
           /\ Related(id) = Range(Parents(id)) \cup Range(BasesOf(id)) \cup Range(DerivedOf(id))
<1>1. AList(Parents(id))
  BY OneIsList, ElementsAreLists DEF Parents
<1>2. ASSUME NEW q, AList(q), NEW f, f = [k \in DOMAIN q |-> f[k]], DOMAIN f = DOMAIN q
      PROVE  AList(f)
  <2>1. Len(q) \in Nat /\ DOMAIN q = 1..Len(q)
    BY <1>2, ListFacts2
  <2> QED
    BY <1>2, <2>1, FunctionIsList
<1>3. \A S : AList(Selected(S, BaseRows))
  <2> TAKE S
  <2>1. Selected(S, BaseRows) \in Seq((SymbolId \X SymbolId) \cap S)
    BY SymbolPageAssumption, SelectedType
  <2> QED
    BY <2>1 DEF AList
<1>4. AList(BasesOf(id))
  <2> DEFINE rows == IF Kind[id] = "class" THEN Selected({row \in Range(BaseRows) : row[1] = id}, BaseRows)
                     ELSE <<>>
             f == [k \in DOMAIN rows |-> rows[k][2]]
  <2>1. AList(rows)
    BY <1>3, ElementsAreLists, Zenon
  <2>2. DOMAIN f = DOMAIN rows /\ f = [k \in DOMAIN rows |-> f[k]]
    OBVIOUS
  <2> HIDE DEF rows
  <2>3. BasesOf(id) = f
    BY DEF BasesOf, rows
  <2> HIDE DEF f
  <2> QED
    BY <1>2, <2>1, <2>2, <2>3
<1>5. AList(DerivedOf(id))
  <2> DEFINE rows == IF Kind[id] = "class" THEN Selected({row \in Range(BaseRows) : row[2] = id}, BaseRows)
                     ELSE <<>>
             f == [k \in DOMAIN rows |-> rows[k][1]]
  <2>1. AList(rows)
    BY <1>3, ElementsAreLists, Zenon
  <2>2. DOMAIN f = DOMAIN rows /\ f = [k \in DOMAIN rows |-> f[k]]
    OBVIOUS
  <2> HIDE DEF rows
  <2>3. DerivedOf(id) = f
    BY DEF DerivedOf, rows
  <2> HIDE DEF f
  <2> QED
    BY <1>2, <2>1, <2>2, <2>3
<1>6. ASSUME NEW q, AList(q), NEW s, AList(s)
      PROVE  Range(Chained(q, s)) = Range(q) \cup Range(s) /\ AList(Chained(q, s))
  <2> DEFINE c == Chained(q, s)
  <2>1. /\ AList(c) /\ Len(q) \in Nat /\ Len(s) \in Nat
        /\ Len(c) = Len(q) + Len(s)
        /\ \A k \in 1..Len(q) : c[k] = q[k]
        /\ \A k \in 1..Len(s) : c[Len(q) + k] = s[k]
    BY <1>6, ListsJoinedAt
  <2> HIDE DEF c
  <2>2. \A k \in 1..Len(q) : k \in 1..Len(c)
    BY <2>1
  <2>3. \A k \in 1..Len(s) : Len(q) + k \in 1..Len(c)
    BY <2>1
  <2>4. \A k \in 1..Len(c) : k \in 1..Len(q) \/ (\E j \in 1..Len(s) : k = Len(q) + j)
    <3> TAKE k \in 1..Len(c)
    <3>1. k \notin 1..Len(q) => k - Len(q) \in 1..Len(s) /\ k = Len(q) + (k - Len(q))
      BY <2>1
    <3> QED
      BY <3>1
  <2>5. Range(c) = {c[k] : k \in 1..Len(c)} /\ Range(q) = {q[k] : k \in 1..Len(q)} /\ Range(s) = {s[k] : k \in 1..Len(s)}
    BY <1>6, <2>1, InRange
  <2>6. \A k \in 1..Len(c) : c[k] \in Range(q) \cup Range(s)
    <3> TAKE k \in 1..Len(c)
    <3>1. CASE k \in 1..Len(q)
      BY <2>1, <2>5, <3>1
    <3>2. CASE \E j \in 1..Len(s) : k = Len(q) + j
      <4>1. PICK j \in 1..Len(s) : k = Len(q) + j
        BY <3>2
      <4>2. c[k] = s[j]
        BY <2>1, <4>1
      <4> QED
        BY <2>5, <4>2
    <3> QED
      BY <2>4, <3>1, <3>2
  <2>7. \A k \in 1..Len(q) : q[k] \in Range(c)
    <3> TAKE k \in 1..Len(q)
    <3>1. c[k] = q[k] /\ k \in 1..Len(c)
      BY <2>1, <2>2
    <3> QED
      BY <2>5, <3>1
  <2>8. \A k \in 1..Len(s) : s[k] \in Range(c)
    <3> TAKE k \in 1..Len(s)
    <3>1. c[Len(q) + k] = s[k] /\ Len(q) + k \in 1..Len(c)
      BY <2>1, <2>3
    <3> QED
      BY <2>5, <3>1
  <2>9. Range(c) = Range(q) \cup Range(s)
    BY <2>5, <2>6, <2>7, <2>8, Zenon
  <2> QED
    BY <2>1, <2>9 DEF c
<1> DEFINE a == Parents(id)
           b == BasesOf(id)
           d == DerivedOf(id)
           ab == Chained(a, b)
<1> HIDE DEF a, b, d
<1>7. Range(ab) = Range(a) \cup Range(b) /\ AList(ab)
  BY <1>1, <1>4, <1>6 DEF a, b
<1> HIDE DEF ab
<1>8. Range(Chained(ab, d)) = Range(ab) \cup Range(d)
  BY <1>5, <1>6, <1>7 DEF d
<1>9. Related(id) = Range(Chained(ab, d))
  BY DEF Related, Chained, ab, a, b, d
<1> QED
  BY <1>1, <1>4, <1>5, <1>7, <1>8, <1>9 DEF a, b, d

(* The page of a symbol is well when no quote and no raw '<' or '&' comes into it. *)
Fine(id) == id \notin Angled /\ Related(id) \cap Quoted = {}

LEMMA GoesSummary ==
    ASSUME NEW o, AList(o), NEW id \in SymbolId
    PROVE  Goes(Summary(id), o, FALSE, o, FALSE, Fine(id))
<1> DEFINE oo == Within(o, "p")
           n == NbFlags[id]
           flags == FlattenSeq([k \in 1..n |-> FlagCalls])
           parent == ParentCalls(id)
           bases == Listing(BasesOf(id), Attribute("class", "base"))
           derived == Listing(DerivedOf(id), <<>>)
           what == IF id \in Angled THEN "broken" ELSE "markup"
           usr == Bytes(what)
           x4 == Range(Parents(id)) \cap Quoted = {}
           x5 == Range(BasesOf(id)) \cap Quoted = {}
           x6 == Range(DerivedOf(id)) \cap Quoted = {}
           x7 == what # "broken"
<1>1. n \in Nat /\ AList(oo)
  BY SymbolPageAssumption, WithinIsList
<1>2. Goes(flags, oo, TRUE, oo, TRUE, TRUE)
  BY <1>1, GoesFlags
<1>3. Goes(parent, o, FALSE, o, FALSE, x4)
  BY GoesParent
<1>4. Goes(bases, o, FALSE, o, FALSE, x5)
  BY RelatedAreLists, PlainAttributes, GoesListing
<1>5. Goes(derived, o, FALSE, o, FALSE, x6)
  BY RelatedAreLists, PlainAttributes, GoesListing
<1>6. Goes(usr, o, FALSE, o, FALSE, x7)
  <2> HIDE DEF what
  <2> QED
    BY GoesBytes
<1>7. Summary(id) = Element("p", <<>>) \o flags \o End \o parent \o bases \o derived \o usr
  BY DEF Summary, ParentCalls, FlagCalls
<1>8. Fine(id) <=> x4 /\ x5 /\ x6 /\ x7
  BY RelatedAreLists DEF Fine
<1> DEFINE fine == Fine(id)
<1> HIDE DEF flags, parent, bases, derived, usr, what, n, x4, x5, x6, x7, fine
<1> DEFINE p1 == Element("p", <<>>)
           p2 == flags
           p3 == End
           p4 == parent
           p5 == bases
           p6 == derived
           p7 == usr
<1>9. Goes(p1, o, FALSE, oo, TRUE, TRUE)
  BY GoesInto, Zenon
<1>10. Goes(p2, oo, TRUE, oo, TRUE, TRUE)
  BY <1>2, Zenon
<1>11. Goes(p3, oo, TRUE, o, FALSE, TRUE)
  BY GoesOut, Zenon
<1>12. Goes(p4, o, FALSE, o, FALSE, x4)
  BY <1>3, Zenon
<1>13. Goes(p5, o, FALSE, o, FALSE, x5)
  BY <1>4, Zenon
<1>14. Goes(p6, o, FALSE, o, FALSE, x6)
  BY <1>5, Zenon
<1>15. Goes(p7, o, FALSE, o, FALSE, x7)
  BY <1>6, Zenon
<1> HIDE DEF p1, p2, p3, p4, p5, p6, p7, oo
<1> DEFINE l2 == p1 \o p2
           l3 == l2 \o p3
           l4 == l3 \o p4
           l5 == l4 \o p5
           l6 == l5 \o p6
           l7 == l6 \o p7
<1> HIDE DEF l2, l3, l4, l5, l6, l7
<1>16. Goes(l2, o, FALSE, oo, TRUE, TRUE)
  BY <1>9, <1>10, GoesWell, Zenon DEF l2
<1>17. Goes(l3, o, FALSE, o, FALSE, TRUE)
  BY <1>16, <1>11, GoesWell, Zenon DEF l3
<1>18. Goes(l4, o, FALSE, o, FALSE, x4)
  BY <1>17, <1>12, GoesWellThen, Zenon DEF l4
<1> DEFINE y5 == x4 /\ x5
<1>19. Goes(l5, o, FALSE, o, FALSE, y5)
  BY <1>18, <1>13, GoesOn, Zenon DEF l5
<1> HIDE DEF y5
<1> DEFINE y6 == y5 /\ x6
<1>20. Goes(l6, o, FALSE, o, FALSE, y6)
  BY <1>19, <1>14, GoesOn, Zenon DEF l6
<1> HIDE DEF y6
<1> DEFINE y7 == y6 /\ x7
<1>21. Goes(l7, o, FALSE, o, FALSE, y7)
  BY <1>20, <1>15, GoesOn, Zenon DEF l7
<1> HIDE DEF y7
<1> DEFINE all == l7
           y == y7
<1> HIDE DEF all
<1>22. y <=> fine
  BY <1>8 DEF fine, y5, y6, y7
<1>23. Goes(all, o, FALSE, o, FALSE, y)
  BY <1>21, Zenon DEF all
<1> HIDE DEF y
<1>24. Goes(all, o, FALSE, o, FALSE, fine)
  BY <1>22, <1>23, GoesIs, Zenon
<1> QED
  BY <1>7, <1>24, Zenon DEF fine, all, l2, l3, l4, l5, l6, l7, p1, p2, p3, p4, p5, p6, p7

(* what StartSymbolPage hands over *)
StartCalls(id) ==
    Bytes("markup") \o Element("html", <<>>) \o Title(Words) \o Stylesheet(<<>>) \o End
        \o Element("body", <<>>) \o TextElement("h1", <<>>, Words) \o Summary(id)

LEMMA GoesStart ==
    ASSUME NEW id \in SymbolId
    PROVE  Goes(StartCalls(id), <<>>, FALSE, InBody, FALSE, Fine(id))
<1> DEFINE fine == Fine(id)
           summary == Summary(id)
           bytes == Bytes("markup")
<1>1. Goes(summary, InBody, FALSE, InBody, FALSE, fine)
  BY ElementsAreLists, GoesSummary
<1>2. Goes(bytes, <<>>, FALSE, <<>>, FALSE, TRUE)
  <2>1. Adds(Bytes("markup"), <<>>, TRUE)
    BY AddsBytes
  <2> QED
    BY LeadsBytes, LinklessCalls, GoesWhereLed
<1> HIDE DEF fine, summary, bytes
<1> DEFINE p1 == bytes
           p2 == Element("html", <<>>)
           p3 == Title(Words)
           p4 == Stylesheet(<<>>)
           p5 == End
           p6 == Element("body", <<>>)
           p7 == TextElement("h1", <<>>, Words)
           p8 == summary
<1>3. Goes(p1, <<>>, FALSE, <<>>, FALSE, TRUE)
  BY <1>2, Zenon
<1>4. Goes(p2, <<>>, FALSE, InHtml, TRUE, TRUE)
  BY ElementsAreLists, GoesInto, Zenon DEF InHtml
<1>5. Goes(p3, InHtml, TRUE, InHead, FALSE, TRUE)
  BY TitleGoes, Zenon
<1>6. Goes(p4, InHead, FALSE, InHead, FALSE, TRUE)
  BY StylesheetGoes, Zenon
<1>7. Goes(p5, InHead, FALSE, InHtml, FALSE, TRUE)
  BY ElementsAreLists, GoesOut, Zenon DEF InHead
<1>8. Goes(p6, InHtml, FALSE, InBody, TRUE, TRUE)
  BY ElementsAreLists, GoesInto, Zenon DEF InBody
<1>9. Goes(p7, InBody, TRUE, InBody, FALSE, TRUE)
  BY GoesText, Zenon
<1>10. Goes(p8, InBody, FALSE, InBody, FALSE, fine)
  BY <1>1, Zenon
<1> HIDE DEF p1, p2, p3, p4, p5, p6, p7, p8
<1> DEFINE l2 == p1 \o p2
           l3 == l2 \o p3
           l4 == l3 \o p4
           l5 == l4 \o p5
           l6 == l5 \o p6
           l7 == l6 \o p7
           l8 == l7 \o p8
<1> HIDE DEF l2, l3, l4, l5, l6, l7, l8
<1>11. Goes(l2, <<>>, FALSE, InHtml, TRUE, TRUE)
  BY <1>3, <1>4, GoesWell, Zenon DEF l2
<1>12. Goes(l3, <<>>, FALSE, InHead, FALSE, TRUE)
  BY <1>11, <1>5, GoesWell, Zenon DEF l3
<1>13. Goes(l4, <<>>, FALSE, InHead, FALSE, TRUE)
  BY <1>12, <1>6, GoesWell, Zenon DEF l4
<1>14. Goes(l5, <<>>, FALSE, InHtml, FALSE, TRUE)
  BY <1>13, <1>7, GoesWell, Zenon DEF l5
<1>15. Goes(l6, <<>>, FALSE, InBody, TRUE, TRUE)
  BY <1>14, <1>8, GoesWell, Zenon DEF l6
<1>16. Goes(l7, <<>>, FALSE, InBody, FALSE, TRUE)
  BY <1>15, <1>9, GoesWell, Zenon DEF l7
<1>17. Goes(l8, <<>>, FALSE, InBody, FALSE, fine)
  BY <1>16, <1>10, GoesWellThen, Zenon DEF l8
<1> DEFINE all == l8
           y == fine
<1> HIDE DEF all
<1>18. y <=> fine
  OBVIOUS
<1>19. Goes(all, <<>>, FALSE, InBody, FALSE, y)
  BY <1>17, Zenon DEF all
<1> HIDE DEF y
<1>20. Goes(all, <<>>, FALSE, InBody, FALSE, fine)
  BY <1>18, <1>19, GoesIs, Zenon
<1> QED
  BY <1>20, Zenon DEF StartCalls, fine, all, summary, bytes, l2, l3, l4, l5, l6, l7, l8, p1, p2, p3, p4, p5, p6, p7, p8
-----------------------------------------------------------------------------
(* LISTS WITH LINKS: the links to files in them are to these rows. *)
AtLine(f, l) == {r \in Row : r.file = f /\ r.line = l}

Links(list, rows) ==
    /\ AList(list) /\ rows \in Seq(Row)
    /\ \A f, l : NbLinks(list, FileLink(f, l)) = Len(Selected(AtLine(f, l), rows))

Refers(list, o, t, p, u, rows) == Leads(list, o, t, p, u) /\ Links(list, rows)

LEMMA LinksJoin ==
    ASSUME NEW a, NEW b, NEW x, NEW y, Links(a, x), Links(b, y)
    PROVE  Links(a \o b, x \o y)
<1> DEFINE ab == a \o b
           xy == x \o y
<1>1. AList(ab) /\ xy \in Seq(Row)
  BY ListsJoined DEF Links
<1>2. ASSUME NEW f, NEW l PROVE NbLinks(ab, FileLink(f, l)) = Len(Selected(AtLine(f, l), xy))
  <2> DEFINE e == FileLink(f, l)
             S == AtLine(f, l)
             p == Selected(S, x)
             q == Selected(S, y)
  <2>1. NbLinks(a, e) = Len(p) /\ NbLinks(b, e) = Len(q)
    BY DEF Links
  <2>2. NbLinks(ab, e) = NbLinks(a, e) + NbLinks(b, e)
    BY LinksOfBoth DEF Links
  <2>3. p \in Seq(Row \cap S) /\ q \in Seq(Row \cap S)
    BY SelectedType DEF Links
  <2>4. Selected(S, xy) = p \o q
    BY SelectedConcat DEF Links
  <2> HIDE DEF p, q, e, S, ab, xy
  <2>5. Len(p \o q) = Len(p) + Len(q)
    BY <2>3
  <2> QED
    BY <2>1, <2>2, <2>4, <2>5 DEF e, S
<1> HIDE DEF ab, xy
<1>3. Links(ab, xy)
  BY <1>1, <1>2, Zenon DEF Links
<1> QED
  BY <1>3, Zenon DEF ab, xy

LEMMA NoLinks == ASSUME NEW list, Linkless(list) PROVE Links(list, <<>>)
<1>1. <<>> \in Seq(Row) /\ AList(list) /\ Len(<<>>) = 0
  BY DEF Linkless
<1>2. \A f, l : NbLinks(list, FileLink(f, l)) = 0 /\ Selected(AtLine(f, l), <<>>) = <<>>
  BY LinklessIs, SelectedEmpty
<1> QED
  BY <1>1, <1>2 DEF Links

LEMMA RowsAndNone == ASSUME NEW x \in Seq(Row) PROVE x \o <<>> = x /\ <<>> \o x = x
  OBVIOUS

LEMMA RefersOn ==
    ASSUME NEW a, NEW b, NEW o, NEW p, NEW q, NEW t, NEW u, NEW v, NEW x, NEW y,
           Refers(a, o, t, p, u, x), Refers(b, p, u, q, v, y)
    PROVE  Refers(a \o b, o, t, q, v, x \o y)
<1>1. Leads(a \o b, o, t, q, v)
  BY LeadsOn DEF Refers
<1>2. Links(a \o b, x \o y)
  BY LinksJoin DEF Refers
<1> DEFINE ab == a \o b
           xy == x \o y
<1> HIDE DEF ab, xy
<1>3. Refers(ab, o, t, q, v, xy)
  BY <1>1, <1>2 DEF Refers, ab, xy
<1> QED
  BY <1>3, Zenon DEF ab, xy

LEMMA RefersNowhere ==
    ASSUME NEW list, NEW o, NEW p, NEW t, NEW u, Goes(list, o, t, p, u, TRUE)
    PROVE  Refers(list, o, t, p, u, <<>>)
  BY LedWhereGoes, NoLinks DEF Refers

(* A list without links after one with links, or before it. *)
LEMMA RefersThen ==
    ASSUME NEW a, NEW b, NEW o, NEW p, NEW q, NEW t, NEW u, NEW v, NEW x,
           Refers(a, o, t, p, u, x), Goes(b, p, u, q, v, TRUE)
    PROVE  Refers(a \o b, o, t, q, v, x)
<1> DEFINE ab == a \o b
           none == <<>>
           y == x \o none
<1>1. y = x
  BY RowsAndNone DEF Refers, Links
<1>2. Refers(b, p, u, q, v, none)
  BY RefersNowhere
<1> HIDE DEF none
<1>3. Refers(ab, o, t, q, v, y)
  BY <1>2, RefersOn
<1> HIDE DEF ab, y
<1> QED
  BY <1>1, <1>3, Zenon DEF ab

LEMMA ThenRefers ==
    ASSUME NEW a, NEW b, NEW o, NEW p, NEW q, NEW t, NEW u, NEW v, NEW y,
           Goes(a, o, t, p, u, TRUE), Refers(b, p, u, q, v, y)
    PROVE  Refers(a \o b, o, t, q, v, y)
<1> DEFINE ab == a \o b
           none == <<>>
           x == none \o y
<1>1. y = x
  BY RowsAndNone DEF Refers, Links
<1>2. Refers(a, o, t, p, u, none)
  BY RefersNowhere
<1> HIDE DEF none
<1>3. Refers(ab, o, t, q, v, x)
  BY <1>2, RefersOn
<1> HIDE DEF ab, x
<1> QED
  BY <1>1, <1>3, Zenon DEF ab

LEMMA RefersFrom ==
    ASSUME NEW list, NEW o, NEW p, NEW t, NEW u, NEW x, Refers(list, o, t, p, u, x)
    PROVE  Refers(list, o, FALSE, p, u, x)
  BY DEF Refers, Leads

(* The link to a line. *)
LEMMA AttributeLinks ==
    ASSUME NEW r \in Row
    PROVE  Links(Element("a", Attribute("href", <<"file", r.file, r.line>>)), <<r>>)
<1> DEFINE c == [call |-> "attribute",
                 arg |-> [name |-> "href", value |-> <<"file", r.file, r.line>>, quote |-> FALSE]]
           s == [call |-> "start", arg |-> "a"]
           el == Element("a", Attribute("href", <<"file", r.file, r.line>>))
           one == <<r>>
<1>1. CallTarget(c) = FileLink(r.file, r.line)
  BY DEF CallTarget, FileLink
<1>2. CallTarget(s) = <<>>
  BY DEF CallTarget
<1>3. el = <<s>> \o <<c>>
  BY DEF Element, Attribute, AttributeOf
<1> HIDE DEF c, s, el
<1>4. AList(<<s>>) /\ AList(<<c>>) /\ AList(el)
  BY <1>3, OneIsList, ListsJoined
<1>5. ASSUME NEW f, NEW l
      PROVE  NbLinks(el, FileLink(f, l)) = Len(Selected(AtLine(f, l), one))
  <2> DEFINE e == FileLink(f, l)
             S == AtLine(f, l)
  <2>1. <<>> # e
    <3>1. Len(<<>>) = 0 /\ Len(e) = 3
      BY DEF FileLink
    <3> QED
      BY <3>1
  <2>2. CallTarget(c) = e <=> r \in S
    BY <1>1 DEF FileLink, AtLine
  <2>3. Len(Selected(S, one)) = IF r \in S THEN 1 ELSE 0
    <3>1. one \in Seq(Row) /\ Len(one) = 1 /\ Len(<<>>) = 0 /\ \A k \in DOMAIN one : one[k] = r
      OBVIOUS
    <3> HIDE DEF one, S
    <3>2. CASE r \in S
      BY <3>1, <3>2, SelectedAll
    <3>3. CASE r \notin S
      BY <3>1, <3>3, SelectedNone
    <3> QED
      BY <3>2, <3>3
  <2> HIDE DEF e, S, one
  <2>4. NbLinks(<<s>>, e) = 0 /\ NbLinks(<<c>>, e) = IF r \in S THEN 1 ELSE 0
    BY <1>2, <2>1, <2>2, LinksOfOne
  <2>5. NbLinks(<<s>> \o <<c>>, e) = NbLinks(<<s>>, e) + NbLinks(<<c>>, e)
    BY <1>4, LinksOfBoth
  <2>6. NbLinks(el, e) = NbLinks(<<s>>, e) + NbLinks(<<c>>, e)
    BY <1>3, <2>5, Zenon
  <2>7. NbLinks(el, e) = Len(Selected(S, one))
    BY <2>3, <2>4, <2>6
  <2> QED
    BY <2>7 DEF e, S
<1>6. one \in Seq(Row)
  OBVIOUS
<1> HIDE DEF one
<1>7. Links(el, one)
  BY <1>4, <1>5, <1>6, Zenon DEF Links
<1> QED
  BY <1>7, Zenon DEF el, one

LEMMA LinkRefers ==
    ASSUME NEW o, AList(o), NEW t, NEW r \in Row
    PROVE  Refers(LineLink(r), o, t, o, FALSE, <<r>>)
<1> DEFINE href == Attribute("href", <<"file", r.file, r.line>>)
           a == Element("a", href)
           b == Characters(Words)
           oo == Within(o, "a")
           one == <<r>>
<1>1. AreAttributes(href, "a") /\ NoQuote(href)
  BY AttributesOne, Zenon DEF Attribute
<1>2. Leads(a, o, t, oo, TRUE)
  <2> HIDE DEF href
  <2> QED
    BY <1>1, LeadsIn
<1>3. Links(a, one)
  BY AttributeLinks
<1>4. Goes(b, oo, TRUE, oo, FALSE, TRUE)
  BY GoesWords
<1>5. Goes(End, oo, FALSE, o, FALSE, TRUE)
  BY GoesOut
<1> HIDE DEF href, a, b, oo, one
<1>6. Refers(a, o, t, oo, TRUE, one)
  BY <1>2, <1>3 DEF Refers
<1> DEFINE l2 == a \o b
           l3 == l2 \o End
<1> HIDE DEF l2, l3
<1>7. Refers(l2, o, t, oo, FALSE, one)
  BY <1>4, <1>6, RefersThen, Zenon DEF l2
<1>8. Refers(l3, o, t, o, FALSE, one)
  BY <1>5, <1>7, RefersThen, Zenon DEF l3
<1> QED
  BY <1>8, Zenon DEF LineLink, l3, l2, a, b, href, one

(* A paragraph with a link to the line of each row. *)
Mention(r) == Element("p", <<>>) \o LineLink(r) \o End

LEMMA MentionRefers ==
    ASSUME NEW o, AList(o), NEW t, NEW r \in Row
    PROVE  Refers(Mention(r), o, t, o, FALSE, <<r>>)
<1> DEFINE a == Element("p", <<>>)
           b == LineLink(r)
           oo == Within(o, "p")
           one == <<r>>
<1>1. Goes(a, o, t, oo, TRUE, TRUE)
  BY GoesInto
<1>2. AList(oo)
  BY WithinIsList
<1>3. Refers(b, oo, TRUE, oo, FALSE, one)
  BY <1>2, LinkRefers
<1>4. Goes(End, oo, FALSE, o, FALSE, TRUE)
  BY GoesOut
<1> HIDE DEF a, b, oo, one
<1> DEFINE l2 == a \o b
           l3 == l2 \o End
<1> HIDE DEF l2, l3
<1>5. Refers(l2, o, t, oo, FALSE, one)
  BY <1>1, <1>3, ThenRefers, Zenon DEF l2
<1>6. Refers(l3, o, t, o, FALSE, one)
  BY <1>4, <1>5, RefersThen, Zenon DEF l3
<1> QED
  BY <1>6, Zenon DEF Mention, l3, l2, a, b, one

LEMMA FrontGrows ==
    ASSUME NEW E, NEW q \in Seq(E), NEW m \in Nat, m + 1 \in 1..Len(q)
    PROVE  SubSeq(q, 1, m + 1) = SubSeq(q, 1, m) \o <<q[m + 1]>>
<1>1. m + 1 \in 1..Len(q) + 1 /\ m + 1 \in 1 - 1..Len(q) /\ 1 \in 1..Len(q) + 1 /\ m + 1 \in 1..(m + 1) + 1
      /\ m + 1 \in (m + 1) - 1..Len(q) /\ (m + 1) - 1 = m /\ (m + 1) - (m + 1) + 1 = 1
      /\ (m + 1) + 1 - 1 = m + 1
  OBVIOUS
<1> DEFINE n == m + 1
<1> HIDE DEF n
<1>2. SubSeq(q, 1, n) = SubSeq(q, 1, n - 1) \o SubSeq(q, n, n)
  BY <1>1, SliceCut DEF n
<1>3. /\ SubSeq(q, n, n) \in Seq(E) /\ Len(SubSeq(q, n, n)) = n - n + 1
      /\ \A k \in 1..n - n + 1 : SubSeq(q, n, n)[k] = q[n + k - 1]
  BY <1>1, Slice DEF n
<1> DEFINE one == SubSeq(q, n, n)
           x == q[n]
<1>4. one \in Seq(E) /\ Len(one) = 1 /\ one[1] = x
  <2>1. n - n + 1 = 1 /\ n + 1 - 1 = n /\ 1 \in 1..1
    BY <1>1 DEF n
  <2> HIDE DEF one
  <2> QED
    BY <1>3, <2>1 DEF one
<1> HIDE DEF one, x
<1>5. one = <<x>>
  BY <1>4
<1> QED
  BY <1>1, <1>2, <1>5 DEF n, one, x

LEMMA MentionsRefer ==
    ASSUME NEW o, AList(o), NEW rows \in Seq(Row), rows # <<>>
    PROVE  Refers(Mentions(rows), o, TRUE, o, FALSE, rows)
<1> DEFINE n == Len(rows)
           list == [k \in DOMAIN rows |-> Mention(rows[k])]
<1>1. n \in Nat \ {0} /\ DOMAIN rows = 1..n /\ \A k \in 1..n : rows[k] \in Row
  OBVIOUS
<1>2. Mentions(rows) = FlattenSeq(list)
  BY DEF Mentions, Mention
<1>3. Len(list) = n /\ \A k \in 1..n : list[k] = Mention(rows[k])
  <2>1. DOMAIN list = 1..n /\ list = [k \in 1..n |-> list[k]] /\ n \in Nat /\ \A k \in 1..n : list[k] = Mention(rows[k])
    BY <1>1
  <2> HIDE DEF list, n
  <2> QED
    BY <2>1, FunctionIsList
<1> HIDE DEF list, n
<1>4. \A k \in 1..n : Refers(list[k], o, TRUE, o, FALSE, <<rows[k]>>)
  BY <1>1, <1>3, MentionRefers
<1>5. PICK g : IsJoining(g, list) /\ FlattenSeq(list) = g[n]
  <2>1. \E g : IsJoining(g, list) /\ FlattenSeq(list) = g[Len(list)]
    BY <1>1, <1>3, JoiningExists
  <2> QED
    BY <1>3, <2>1
<1>6. \A m \in 1..n : g[m] = IF m = 1 THEN list[m] ELSE Chained(g[m - 1], list[m])
  BY <1>3, <1>5, Zenon DEF IsJoining
<1> DEFINE UpTo(m) == SubSeq(rows, 1, m)
           T == {m \in Nat : m \in 1..n => Refers(g[m], o, TRUE, o, FALSE, UpTo(m))}
<1>7. \A m \in Nat : m + 1 \in 1..n => UpTo(m + 1) = UpTo(m) \o <<rows[m + 1]>>
  BY FrontGrows DEF n
<1>8. UpTo(1) = <<rows[1]>>
  <2>1. 0 \in Nat /\ 0 + 1 \in 1..n /\ 0 + 1 = 1
    BY <1>1
  <2>2. UpTo(0 + 1) = UpTo(0) \o <<rows[0 + 1]>>
    BY <1>7, <2>1
  <2>3. UpTo(0) = <<>>
    OBVIOUS
  <2> HIDE DEF UpTo
  <2>4. <<rows[1]>> \in Seq(Row)
    BY <1>1
  <2>5. <<>> \o <<rows[1]>> = <<rows[1]>>
    BY <2>4
  <2> QED
    BY <2>1, <2>2, <2>3, <2>5
<1>9. UpTo(n) = rows
  BY DEF n
<1> HIDE DEF UpTo
<1>10. 0 \in T
  <2>1. ~(0 \in 1..n)
    BY <1>1
  <2> QED
    BY <2>1
<1>11. ASSUME NEW m \in Nat, m \in T PROVE m + 1 \in T
  <2>1. ASSUME m + 1 \in 1..n PROVE Refers(g[m + 1], o, TRUE, o, FALSE, UpTo(m + 1))
    <3>1. CASE m = 0
      <4>1. m + 1 = 1 /\ g[1] = list[1] /\ 1 \in 1..n
        BY <1>1, <1>6, <2>1, <3>1
      <4> QED
        BY <1>4, <1>8, <4>1
    <3>2. CASE m # 0
      <4>1. m \in 1..n /\ m + 1 # 1 /\ (m + 1) - 1 = m
        BY <1>1, <2>1, <3>2
      <4> DEFINE a == g[m]
                 b == list[m + 1]
                 x == UpTo(m)
                 y == <<rows[m + 1]>>
      <4>2. Refers(a, o, TRUE, o, FALSE, x) /\ g[m + 1] = Chained(a, b)
        BY <1>6, <1>11, <2>1, <4>1, Zenon
      <4>3. Refers(b, o, TRUE, o, FALSE, y)
        BY <1>4, <2>1, Zenon
      <4>4. UpTo(m + 1) = x \o y
        BY <1>7, <2>1
      <4> HIDE DEF a, b, x, y
      <4>5. Refers(b, o, FALSE, o, FALSE, y)
        BY <4>3, RefersFrom, Zenon
      <4>6. Refers(a \o b, o, TRUE, o, FALSE, x \o y)
        BY <4>2, <4>5, RefersOn
      <4> DEFINE ab == a \o b
                 xy == x \o y
      <4> HIDE DEF ab, xy
      <4>7. Refers(ab, o, TRUE, o, FALSE, xy)
        BY <4>6, Zenon DEF ab, xy
      <4>8. g[m + 1] = ab /\ UpTo(m + 1) = xy
        BY <4>2, <4>4, Zenon DEF ab, xy, Chained
      <4> QED
        BY <4>7, <4>8, Zenon
    <3> QED
      BY <3>1, <3>2, Zenon
  <2>2. m + 1 \in Nat
    OBVIOUS
  <2> QED
    BY <2>1, <2>2, Zenon
<1> HIDE DEF T
<1>12. Nat \subseteq T
  BY <1>10, <1>11, NatByInduction
<1>13. n \in T /\ n \in 1..n
  BY <1>1, <1>12
<1>14. Refers(g[n], o, TRUE, o, FALSE, UpTo(n))
  BY <1>13, Zenon DEF T
<1> QED
  BY <1>2, <1>5, <1>9, <1>14

LEMMA GoesHeading ==
    ASSUME NEW o, AList(o), NEW counted, NEW t
    PROVE  Goes(Heading(counted), o, t, o, FALSE, TRUE)
<1> DEFINE oo == Within(o, "h2")
           number == IF counted THEN Bytes("number") \o Characters(Words) ELSE <<>>
<1>1. Goes(number, oo, FALSE, oo, FALSE, TRUE)
  <2> DEFINE a == Bytes("number")
             b == Characters(Words)
  <2>1. Goes(a, oo, FALSE, oo, FALSE, TRUE)
    BY LeadsBytes, LinklessCalls, GoesWhereLed
  <2>2. Goes(b, oo, FALSE, oo, FALSE, TRUE)
    BY GoesWords
  <2> HIDE DEF a, b
  <2>3. Goes(a \o b, oo, FALSE, oo, FALSE, TRUE)
    BY <2>1, <2>2, GoesWell, Zenon
  <2>4. Goes(<<>>, oo, FALSE, oo, FALSE, TRUE)
    BY GoesNowhere
  <2>5. number = IF counted THEN a \o b ELSE <<>>
    BY DEF a, b
  <2> HIDE DEF number
  <2>6. CASE counted
    BY <2>3, <2>5, <2>6, Zenon
  <2>7. CASE ~counted
    BY <2>4, <2>5, <2>7, Zenon
  <2> QED
    BY <2>6, <2>7
<1> HIDE DEF number
<1> DEFINE p1 == Element("h2", <<>>)
           p2 == Characters(Words)
           p3 == number
           p4 == End
<1>2. Goes(p1, o, t, oo, TRUE, TRUE)
  BY GoesInto, Zenon
<1>3. Goes(p2, oo, TRUE, oo, FALSE, TRUE)
  BY GoesWords, Zenon
<1>4. Goes(p3, oo, FALSE, oo, FALSE, TRUE)
  BY <1>1, Zenon
<1>5. Goes(p4, oo, FALSE, o, FALSE, TRUE)
  BY GoesOut, Zenon
<1> HIDE DEF p1, p2, p3, p4, oo
<1> DEFINE l2 == p1 \o p2
           l3 == l2 \o p3
           l4 == l3 \o p4
<1> HIDE DEF l2, l3, l4
<1>6. Goes(l2, o, t, oo, FALSE, TRUE)
  BY <1>2, <1>3, GoesWell, Zenon DEF l2
<1>7. Goes(l3, o, t, oo, FALSE, TRUE)
  BY <1>6, <1>4, GoesWell, Zenon DEF l3
<1>8. Goes(l4, o, t, o, FALSE, TRUE)
  BY <1>7, <1>5, GoesWell, Zenon DEF l4
<1> QED
  BY <1>8, Zenon DEF Heading, number, l2, l3, l4, p1, p2, p3, p4

(* what WriteSections hands over *)
Section(rows, counted) == IF rows = <<>> THEN <<>> ELSE Heading(counted) \o Mentions(rows)

SectionCalls(d, e, r) ==
    Section(d, TRUE) \o Section(e, Len(e) > 1) \o (IF r = <<>> THEN <<>> ELSE Heading(TRUE))

LEMMA SectionRefers ==
    ASSUME NEW o, AList(o), NEW rows \in Seq(Row), NEW counted
    PROVE  Refers(Section(rows, counted), o, FALSE, o, FALSE, rows)
<1>1. CASE rows = <<>>
  BY <1>1, GoesNowhere, RefersNowhere DEF Section
<1>2. CASE rows # <<>>
  <2> DEFINE a == Heading(counted)
             b == Mentions(rows)
  <2>1. Goes(a, o, FALSE, o, FALSE, TRUE)
    BY GoesHeading
  <2>2. Refers(b, o, FALSE, o, FALSE, rows)
    BY <1>2, MentionsRefer, RefersFrom
  <2>3. Section(rows, counted) = a \o b
    BY <1>2 DEF Section
  <2> HIDE DEF a, b
  <2>4. Refers(a \o b, o, FALSE, o, FALSE, rows)
    BY <2>1, <2>2, ThenRefers
  <2> QED
    BY <2>3, <2>4
<1> QED
  BY <1>1, <1>2

LEMMA SectionsRefer ==
    ASSUME NEW o, AList(o), NEW d \in Seq(Row), NEW e \in Seq(Row), NEW r
    PROVE  Refers(SectionCalls(d, e, r), o, FALSE, o, FALSE, d \o e)
<1> DEFINE a == Section(d, TRUE)
           b == Section(e, Len(e) > 1)
           c == IF r = <<>> THEN <<>> ELSE Heading(TRUE)
           de == d \o e
<1>1. Refers(a, o, FALSE, o, FALSE, d) /\ Refers(b, o, FALSE, o, FALSE, e)
  BY SectionRefers
<1>2. Goes(c, o, FALSE, o, FALSE, TRUE)
  <2>1. Goes(<<>>, o, FALSE, o, FALSE, TRUE) /\ Goes(Heading(TRUE), o, FALSE, o, FALSE, TRUE)
    BY GoesNowhere, GoesHeading
  <2> QED
    BY <2>1
<1> HIDE DEF a, b, c
<1> DEFINE ab == a \o b
           abc == ab \o c
<1>3. Refers(ab, o, FALSE, o, FALSE, de)
  BY <1>1, RefersOn
<1> HIDE DEF ab, de
<1>4. Refers(abc, o, FALSE, o, FALSE, de)
  BY <1>2, <1>3, RefersThen
<1> HIDE DEF abc
<1> QED
  BY <1>4, Zenon DEF SectionCalls, abc, ab, a, b, c, de

(* what BeginUsesInFile hands over *)
FileHeading ==
    Element("h3", <<>>) \o Characters(Words) \o Characters(Words) \o Bytes("number")
        \o Characters(Words) \o End

LEMMA GoesFileHeading == ASSUME NEW o, AList(o) PROVE Goes(FileHeading, o, FALSE, o, FALSE, TRUE)
<1> DEFINE oo == Within(o, "h3")
<1> DEFINE p1 == Element("h3", <<>>)
           p2 == Characters(Words)
           p3 == Characters(Words)
           p4 == Bytes("number")
           p5 == Characters(Words)
           p6 == End
<1>1. Goes(p1, o, FALSE, oo, TRUE, TRUE)
  BY GoesInto, Zenon
<1>2. Goes(p2, oo, TRUE, oo, FALSE, TRUE)
  BY GoesWords, Zenon
<1>3. Goes(p3, oo, FALSE, oo, FALSE, TRUE)
  BY GoesWords, Zenon
<1>4. Goes(p4, oo, FALSE, oo, FALSE, TRUE)
  BY LeadsBytes, LinklessCalls, GoesWhereLed, Zenon
<1>5. Goes(p5, oo, FALSE, oo, FALSE, TRUE)
  BY GoesWords, Zenon
<1>6. Goes(p6, oo, FALSE, o, FALSE, TRUE)
  BY GoesOut, Zenon
<1> HIDE DEF p1, p2, p3, p4, p5, p6, oo
<1> DEFINE l2 == p1 \o p2
           l3 == l2 \o p3
           l4 == l3 \o p4
           l5 == l4 \o p5
           l6 == l5 \o p6
<1> HIDE DEF l2, l3, l4, l5, l6
<1>7. Goes(l2, o, FALSE, oo, FALSE, TRUE)
  BY <1>1, <1>2, GoesWell, Zenon DEF l2
<1>8. Goes(l3, o, FALSE, oo, FALSE, TRUE)
  BY <1>7, <1>3, GoesWell, Zenon DEF l3
<1>9. Goes(l4, o, FALSE, oo, FALSE, TRUE)
  BY <1>8, <1>4, GoesWell, Zenon DEF l4
<1>10. Goes(l5, o, FALSE, oo, FALSE, TRUE)
  BY <1>9, <1>5, GoesWell, Zenon DEF l5
<1>11. Goes(l6, o, FALSE, o, FALSE, TRUE)
  BY <1>10, <1>6, GoesWell, Zenon DEF l6
<1> QED
  BY <1>11, Zenon DEF FileHeading, l2, l3, l4, l5, l6, p1, p2, p3, p4, p5, p6
-----------------------------------------------------------------------------
(* THE CELL OF A USE: what is written in one, and what is set off in it. *)
Celled(cells, cell) == Append(cells, cell)

(* what a browser has of a text in an element with this name *)
Piece(text, name) == [k \in DOMAIN text |-> [char |-> text[k], in |-> name]]

(* a browser in the elements o reads this cell behind these; g says whether all was well *)
Holds(r, o, d, cells, cell, g) ==
    /\ WellRead(r) /\ r.open = o /\ r.depth = d /\ d # 0
    /\ r.cells = Celled(cells, cell) /\ AList(cells) /\ AList(cell) /\ (r.good <=> g)

LEMMA CelledIs ==
    ASSUME NEW cells, AList(cells), NEW cell
    PROVE  /\ AList(Celled(cells, cell)) /\ Len(Celled(cells, cell)) = Len(cells) + 1 /\ Len(cells) \in Nat
           /\ Celled(cells, cell)[Len(cells) + 1] = cell
           /\ \A k \in 1..Len(cells) : Celled(cells, cell)[k] = cells[k]
<1>1. PICK S : cells \in Seq(S)
  BY DEF AList
<1> DEFINE E == S \cup {cell}
<1>2. cells \in Seq(E) /\ cell \in E
  BY <1>1
<1> HIDE DEF E
<1>3. /\ Append(cells, cell) \in Seq(E) /\ Len(Append(cells, cell)) = Len(cells) + 1 /\ Len(cells) \in Nat
      /\ Append(cells, cell)[Len(cells) + 1] = cell
      /\ \A k \in 1..Len(cells) : Append(cells, cell)[k] = cells[k]
  BY <1>2, Appended
<1> QED
  BY <1>3 DEF Celled, AList

LEMMA WithinIs ==
    ASSUME NEW o, AList(o), NEW name
    PROVE  /\ AList(Within(o, name)) /\ Len(Within(o, name)) = Len(o) + 1 /\ Len(o) \in Nat
           /\ Within(o, name)[Len(Within(o, name))] = name /\ Within(o, name) # <<>>
<1> DEFINE w == Celled(o, name)
<1>1. /\ AList(w) /\ Len(w) = Len(o) + 1 /\ Len(o) \in Nat /\ w[Len(o) + 1] = name
  BY CelledIs
<1>2. w = Within(o, name)
  BY DEF Celled, Within
<1> HIDE DEF w
<1>3. w # <<>>
  BY <1>1
<1> QED
  BY <1>1, <1>2, <1>3

(* An attribute makes the element it is on a cell. *)
LEMMA ReadCode ==
    ASSUME NEW r, IsReading(r), r.inTag, NEW a, a.name = "class", a.value = "code", ~a.quote,
           r.open[Len(r.open)] = "div"
    PROVE  LET s == Read(r, Mark("attribute", a))
           IN  /\ IsReading(s) /\ s.inTag /\ (s.good <=> r.good)
               /\ s.open = r.open /\ s.depth = Len(r.open) /\ s.cells = Celled(r.cells, <<>>)
<1> DEFINE mark == Mark("attribute", a)
           next == Enter(r, Len(r.open))
           good == /\ r.good /\ Harmless(mark) /\ r.inTag = InTag(mark)
                   /\ (mark.kind = "close" => r.open # <<>> /\ r.open[Len(r.open)] = mark.what)
<1>1. Harmless(mark) /\ InTag(mark) /\ mark.kind = "attribute" /\ mark.what = a
  BY DEF Harmless, InTag, Mark
<1>2. /\ next = [f \in Fields |-> next[f]] /\ next.inTag = r.inTag
      /\ next.open = r.open /\ next.depth = Len(r.open) /\ next.cells = Celled(r.cells, <<>>)
  BY Zenon DEF IsReading, Fields, Enter, Celled
<1> HIDE DEF mark
<1>3. Read(r, mark) = [next EXCEPT !.good = good]
  BY <1>1, Zenon DEF Read
<1>4. good <=> r.good /\ TRUE
  BY <1>1 DEF IsReading, InTag
<1> HIDE DEF next, good
<1>5. IsReading(next)
  BY <1>2, Zenon DEF IsReading
<1>6. Marked(r, mark, next, TRUE)
  BY <1>3, <1>4, <1>5, ReadFields, Zenon
<1> QED
  BY <1>2, <1>6 DEF mark, Marked

CellStart == Element("div", Attribute("class", "code"))

LEMMA CellEntered ==
    ASSUME NEW r, WellRead(r), NEW o, AList(o), r.open = o
    PROVE  LET s == Followed("make", r, CellStart)
           IN  Holds(s, Within(o, "div"), Len(o) + 1, r.cells, <<>>, r.good) /\ s.inTag
<1> DEFINE a == [name |-> "class", value |-> "code", quote |-> FALSE]
           c == [call |-> "attribute", arg |-> a]
           first == <<Start("div")>>
           rest == <<c>>
           oo == Within(o, "div")
           q == Made(r, Start("div"))
           s == Made(q, c)
           none == <<>>
<1>1. AList(first) /\ AList(rest) /\ CellStart = first \o rest
  BY OneIsList DEF CellStart, Element, Attribute, AttributeOf, Start
<1>2. Followed("make", r, CellStart) = s
  <2>1. Followed("make", r, first \o rest) = Followed("make", Followed("make", r, first), rest)
    BY <1>1, ListsJoined
  <2>2. Followed("make", r, first) = q
    BY FollowedOne DEF Take
  <2>3. Followed("make", q, rest) = s
    BY FollowedOne DEF Take
  <2> QED
    BY <1>1, <2>1, <2>2, <2>3, Zenon
<1>3. /\ AList(oo) /\ Len(oo) = Len(o) + 1 /\ Len(o) \in Nat /\ oo[Len(oo)] = "div"
  BY WithinIs
<1>4. /\ WellRead(q) /\ q.inTag /\ (q.good <=> r.good) /\ q.open = oo
      /\ q.depth = r.depth /\ q.cells = r.cells
  <2>1. "div" # "td"
    OBVIOUS
  <2> QED
    BY <2>1, MadeStart DEF Within
<1>5. c.call = "attribute" /\ c.arg = a /\ a.name = "class" /\ a.value = "code" /\ ~a.quote
  OBVIOUS
<1>6. AList(none)
  BY AddsNothing DEF Adds
<1> HIDE DEF a, c, q, oo, none
<1>7. s = Read(q, Mark("attribute", a))
  BY <1>5 DEF Made
<1> HIDE DEF s
<1> DEFINE t == Read(q, Mark("attribute", a))
<1>8. /\ IsReading(t) /\ t.inTag /\ (t.good <=> q.good)
      /\ t.open = q.open /\ t.depth = Len(q.open) /\ t.cells = Celled(q.cells, none)
  <2>1. q.open[Len(q.open)] = "div" /\ IsReading(q)
    BY <1>3, <1>4 DEF WellRead
  <2> QED
    BY <1>4, <1>5, <2>1, ReadCode, Zenon DEF none
<1> HIDE DEF t
<1>9. /\ IsReading(s) /\ s.inTag /\ (s.good <=> r.good)
      /\ s.open = oo /\ s.depth = Len(o) + 1 /\ s.cells = Celled(r.cells, none)
  BY <1>3, <1>4, <1>7, <1>8 DEF t
<1>10. AList(r.cells) /\ \A k \in 1..Len(r.cells) : AList(r.cells[k])
  BY DEF WellRead
<1> DEFINE cells == r.cells
           more == Celled(cells, none)
<1> HIDE DEF cells, more
<1>11. /\ AList(more) /\ Len(more) = Len(cells) + 1 /\ Len(cells) \in Nat
       /\ more[Len(cells) + 1] = none /\ \A k \in 1..Len(cells) : more[k] = cells[k]
  BY <1>10, CelledIs DEF cells, more
<1>12. \A k \in 1..Len(more) : AList(more[k])
  <2>1. \A k \in 1..Len(cells) : AList(cells[k])
    BY <1>10 DEF cells
  <2>2. \A k \in 1..Len(more) : k \in 1..Len(cells) \/ k = Len(cells) + 1
    BY <1>11
  <2> QED
    BY <1>6, <1>11, <2>1, <2>2, Zenon
<1>13. more # <<>>
  BY <1>11
<1>14. s.cells = more /\ Len(o) + 1 \in 0..Len(oo) /\ Len(o) + 1 # 0
  BY <1>3, <1>9 DEF cells, more
<1>15. WellRead(s)
  BY <1>3, <1>9, <1>11, <1>12, <1>13, <1>14 DEF WellRead
<1>16. Holds(s, oo, Len(o) + 1, cells, none, r.good)
  BY <1>6, <1>9, <1>10, <1>14, <1>15 DEF Holds, cells, more
<1> QED
  BY <1>2, <1>9, <1>16, Zenon DEF oo, none, cells

LEMMA PieceIs ==
    ASSUME NEW r, NEW name, r.open[Len(r.open)] = name, NEW text
    PROVE  InElement(r, text) = Piece(text, name)
  BY DEF InElement, Piece

(* Text in the cell. *)
LEMMA TextHeld ==
    ASSUME NEW r, NEW o, AList(o), NEW name, NEW d, NEW cells, NEW cell, NEW g,
           Holds(r, Within(o, name), d, cells, cell, g), NEW text, AList(text)
    PROVE  LET s == Followed("make", r, Characters(text))
           IN  Holds(s, Within(o, name), d, cells, Chained(cell, Piece(text, name)), g) /\ ~s.inTag
<1> DEFINE c == [call |-> "characters", arg |-> text]
           oo == Within(o, name)
           q == Seal(r)
           s == Made(r, c)
           piece == Piece(text, name)
           n == Len(cells)
           mark == Mark("text", text)
<1>1. Followed("make", r, Characters(text)) = s
  BY FollowedOne DEF Characters, Take
<1>2. WellRead(r) /\ r.open = oo /\ r.depth = d /\ d # 0 /\ r.cells = Celled(cells, cell)
      /\ AList(cells) /\ AList(cell) /\ (r.good <=> g)
  BY DEF Holds
<1>3. /\ WellRead(q) /\ ~q.inTag /\ (q.good <=> r.good)
      /\ q.open = r.open /\ q.depth = r.depth /\ q.cells = r.cells
  BY <1>2, SealedReading
<1>4. s = Read(q, mark)
  BY DEF Made
<1>5. oo[Len(oo)] = name
  BY WithinIs
<1> HIDE DEF q, oo, c, mark
<1> DEFINE t == Read(q, mark)
           more == InElement(q, text)
<1>6. /\ IsReading(t) /\ ~t.inTag /\ (t.good <=> q.good) /\ t.open = q.open /\ t.depth = q.depth
      /\ q.depth # 0 => t.cells = [q.cells EXCEPT ![Len(q.cells)] = @ \o more]
  <2>1. IsReading(q)
    BY <1>3 DEF WellRead
  <2> DEFINE u == Read(q, Mark("text", text))
  <2>2. /\ IsReading(u) /\ ~u.inTag /\ (u.good <=> q.good) /\ u.open = q.open /\ u.depth = q.depth
        /\ q.depth # 0 => u.cells = [q.cells EXCEPT ![Len(q.cells)] = @ \o InElement(q, text)]
    BY <1>3, <2>1, ReadText
  <2> HIDE DEF u
  <2>3. u = t
    BY DEF u, mark
  <2> HIDE DEF t
  <2> QED
    BY <2>2, <2>3
<1>7. more = piece
  <2>1. q.open[Len(q.open)] = name
    BY <1>2, <1>3, <1>5
  <2> QED
    BY <2>1, PieceIs
<1> HIDE DEF s, t, more, piece
<1> DEFINE all == Celled(cells, cell)
           both == Chained(cell, piece)
           all2 == Celled(cells, both)
<1>8. /\ AList(all) /\ Len(all) = n + 1 /\ n \in Nat /\ all[n + 1] = cell
      /\ \A k \in 1..n : all[k] = cells[k]
  BY <1>2, CelledIs
<1>9. /\ AList(all2) /\ Len(all2) = n + 1 /\ all2[n + 1] = both
      /\ \A k \in 1..n : all2[k] = cells[k]
  BY <1>2, CelledIs
<1>10. AList(both)
  <2> DEFINE r2 == [open |-> <<name>>]
  <2>1. <<name>>[Len(<<name>>)] = name
    OBVIOUS
  <2>2. InElement(r2, text) = Piece(text, name)
    BY <2>1, PieceIs
  <2> HIDE DEF r2
  <2>3. AList(cell \o InElement(r2, text))
    BY <1>2, TextWritten
  <2> QED
    BY <2>2, <2>3 DEF both, Chained, piece
<1>11. cell \o piece = both
  BY DEF Chained, both
<1> HIDE DEF all, both, all2, n
<1>12. s.cells = [all EXCEPT ![n + 1] = both]
  <2>1. q.cells = all
    BY <1>2, <1>3 DEF all
  <2>2. t.cells = [all EXCEPT ![n + 1] = all[n + 1] \o piece]
    BY <1>2, <1>3, <1>6, <1>7, <1>8, <2>1
  <2> QED
    BY <1>4, <1>8, <1>11, <2>2 DEF t
<1>13. s.cells = all2
  <2>1. PICK S : all \in Seq(S)
    BY <1>8 DEF AList
  <2> DEFINE E == S \cup {both}
             some == [all EXCEPT ![n + 1] = both]
  <2>2. all \in [1..n + 1 -> E] /\ both \in E
    <3>1. all \in [1..Len(all) -> S]
      BY <2>1
    <3> QED
      BY <1>8, <3>1
  <2> HIDE DEF E
  <2>3. some \in [1..n + 1 -> E] /\ \A k \in 1..n + 1 : some[k] = IF k = n + 1 THEN both ELSE all[k]
    BY <2>2
  <2> HIDE DEF some
  <2>4. AList(some) /\ Len(some) = n + 1
    <3>1. some \in Seq(E) /\ Len(some) = n + 1
      BY <1>8, <2>3
    <3> QED
      BY <3>1 DEF AList
  <2>5. \A k \in 1..n + 1 : some[k] = all2[k]
    <3> TAKE k \in 1..n + 1
    <3>1. CASE k = n + 1
      BY <1>9, <2>3, <3>1
    <3>2. CASE k # n + 1
      <4>1. k \in 1..n
        BY <1>8, <3>2
      <4> QED
        BY <1>8, <1>9, <2>3, <3>2, <4>1
    <3> QED
      BY <3>1, <3>2
  <2>6. some = all2
    BY <1>9, <2>4, <2>5, ListsEqual
  <2> QED
    BY <1>12, <2>6 DEF some
<1>14. \A k \in 1..Len(all2) : AList(all2[k])
  <2>1. \A k \in 1..Len(all) : AList(all[k])
    BY <1>2 DEF WellRead, all
  <2> TAKE k \in 1..Len(all2)
  <2>2. CASE k = n + 1
    BY <1>9, <1>10, <2>2
  <2>3. CASE k # n + 1
    <3>1. k \in 1..n /\ k \in 1..Len(all)
      BY <1>8, <1>9, <2>3
    <3> QED
      BY <1>8, <1>9, <2>1, <3>1
  <2> QED
    BY <2>2, <2>3
<1>15. all2 # <<>>
  BY <1>8, <1>9
<1>16. IsReading(s) /\ ~s.inTag /\ (s.good <=> g) /\ s.open = oo /\ s.depth = d
  BY <1>2, <1>3, <1>4, <1>6 DEF t
<1>17. WellRead(s)
  BY <1>2, <1>9, <1>13, <1>14, <1>15, <1>16 DEF WellRead
<1>18. Holds(s, oo, d, cells, both, g)
  BY <1>2, <1>10, <1>13, <1>16, <1>17 DEF Holds, all2
<1> QED
  BY <1>1, <1>16, <1>18, Zenon DEF oo, both, piece

(* Text that is set off in the cell. *)
LEMMA SetOffHeld ==
    ASSUME NEW r, NEW o, AList(o), NEW d, NEW cells, NEW cell, NEW g,
           Holds(r, o, d, cells, cell, g), NEW text, AList(text)
    PROVE  LET s == Followed("make", r, TextElement("span", Attribute("class", "here"), text))
           IN  Holds(s, o, d, cells, Chained(cell, Piece(text, "span")), g) /\ ~s.inTag
<1> DEFINE list == Attribute("class", "here")
           a == Element("span", list)
           b == Characters(text)
           oo == Within(o, "span")
           x == Followed("make", r, a)
           y == Followed("make", x, b)
           z == Followed("make", y, End)
           both == Chained(cell, Piece(text, "span"))
<1>1. AreAttributes(list, "span") /\ NoQuote(list)
  BY AttributesOne, Zenon DEF Attribute
<1>2. AList(a) /\ AList(b) /\ AList(End)
  BY <1>1, OneIsList, ListsJoined DEF Element, AreAttributes, Characters, End
<1>3. /\ AList(a \o b)
      /\ Followed("make", r, (a \o b) \o End) = Followed("make", Followed("make", r, a \o b), End)
      /\ Followed("make", r, a \o b) = y
  BY <1>2, ListsJoined
<1>4. Followed("make", r, TextElement("span", list, text)) = z
  BY <1>3 DEF TextElement
<1>5. WellRead(r) /\ r.open = o /\ r.depth = d /\ d # 0 /\ r.cells = Celled(cells, cell)
      /\ AList(cells) /\ AList(cell) /\ (r.good <=> g)
  BY DEF Holds
<1>6. /\ WellRead(x) /\ x.inTag /\ (x.good <=> r.good /\ NoQuote(list))
      /\ x.open = oo /\ x.depth = r.depth /\ x.cells = r.cells
  <2>1. "span" # "td"
    OBVIOUS
  <2> HIDE DEF list
  <2> QED
    BY <1>1, <1>5, <2>1, ElementMade DEF Within
<1> HIDE DEF x
<1>7. Holds(x, oo, d, cells, cell, g)
  BY <1>1, <1>5, <1>6 DEF Holds
<1>8. Holds(y, oo, d, cells, both, g)
  BY <1>7, TextHeld
<1> HIDE DEF y, both
<1>9. WellRead(y) /\ y.open = oo /\ y.depth = d /\ y.cells = Celled(cells, both)
      /\ AList(both) /\ (y.good <=> g)
  BY <1>8, Zenon DEF Holds
<1>10. /\ WellRead(z) /\ ~z.inTag /\ (z.good <=> y.good) /\ z.open = o
       /\ z.depth = (IF y.depth = Len(o) + 1 THEN 0 ELSE y.depth) /\ z.cells = y.cells
  BY <1>9, EndMade
<1>11. d # Len(o) + 1
  <2>1. Len(o) \in Nat
    BY ListFacts2
  <2>2. d \in 0..Len(o)
    BY <1>5 DEF WellRead
  <2> QED
    BY <2>1, <2>2
<1> HIDE DEF z
<1>12. Holds(z, o, d, cells, both, g) /\ ~z.inTag
  BY <1>5, <1>9, <1>10, <1>11 DEF Holds
<1> QED
  BY <1>4, <1>12, Zenon DEF both

(* The end of the cell. *)
LEMMA CellLeft ==
    ASSUME NEW r, NEW o, AList(o), NEW cells, NEW cell, NEW g,
           Holds(r, Within(o, "div"), Len(o) + 1, cells, cell, g)
    PROVE  LET s == Followed("make", r, End)
           IN  /\ WellRead(s) /\ ~s.inTag /\ (s.good <=> g)
               /\ s.open = o /\ s.depth = 0 /\ s.cells = Celled(cells, cell)
<1>1. WellRead(r) /\ r.open = Within(o, "div") /\ r.depth = Len(o) + 1 /\ (r.good <=> g)
      /\ r.cells = Celled(cells, cell)
  BY DEF Holds
<1> DEFINE s == Followed("make", r, End)
<1>2. /\ WellRead(s) /\ ~s.inTag /\ (s.good <=> r.good)
      /\ s.open = o /\ s.depth = (IF r.depth = Len(o) + 1 THEN 0 ELSE r.depth) /\ s.cells = r.cells
  BY <1>1, EndMade
<1> HIDE DEF s
<1> QED
  BY <1>1, <1>2 DEF s

LEMMA SliceIsList ==
    ASSUME NEW q, AList(q), NEW j \in 1..Len(q) + 1, NEW k \in j - 1..Len(q)
    PROVE  /\ AList(SubSeq(q, j, k)) /\ Len(SubSeq(q, j, k)) = k - j + 1
           /\ \A m \in 1..k - j + 1 : SubSeq(q, j, k)[m] = q[j + m - 1]
<1>1. PICK S : q \in Seq(S)
  BY DEF AList
<1>2. /\ SubSeq(q, j, k) \in Seq(S) /\ Len(SubSeq(q, j, k)) = k - j + 1
      /\ \A m \in 1..k - j + 1 : SubSeq(q, j, k)[m] = q[j + m - 1]
  BY <1>1, Slice
<1> QED
  BY <1>2 DEF AList

LEMMA LineTextIs ==
    ASSUME NEW l \in DOMAIN Tokens
    PROVE  AList(LineText(l)) /\ Len(LineText(l)) = Lengths[l] /\ Lengths[l] \in Nat
<1> DEFINE f == LineText(l)
           n == Lengths[l]
<1>1. DOMAIN f = 1..n /\ f = [k \in 1..n |-> f[k]]
  BY DEF LineText
<1>2. n \in Nat
  BY LineAssumption
<1> HIDE DEF f, n
<1>3. AList(f) /\ Len(f) = n
  BY <1>1, <1>2, FunctionIsList
<1> QED
  BY <1>2, <1>3 DEF f, n

(* a token that a name is made of begins where the row is *)
NameAt(r, t) ==
    t \in DOMAIN Tokens[r.line] /\ Tokens[r.line][t].col + 1 = r.col /\ Tokens[r.line][t].type \in NameType

LEMMA LexerFinds ==
    ASSUME NEW state \in LexerState, NEW l \in DOMAIN Tokens, NEW c \in 1..Lengths[l]
    PROVE  /\ Lexed(state, l, c) \in [first : Nat, last : 0..Lengths[l], after : LexerState]
           /\ Lexed(state, l, c).last # 0 =>
                 c <= Lexed(state, l, c).first /\ Lexed(state, l, c).first <= Lexed(state, l, c).last
           /\ \A t \in DOMAIN Tokens[l] :
                 Tokens[l][t].col + 1 = c /\ Tokens[l][t].type \in NameType =>
                     /\ Lexed(state, l, c).last # 0 /\ Lexed(state, l, c).first = c
                     /\ state = Fresh =>
                           Lexed(state, l, c).last = Tokens[l][t].col + Tokens[l][t].width
  BY LexerAssumption, Zenon

(* The token that is found is in the line, behind the place it is looked for at; it is there
   if a name is, and then a lexer with nothing open finds the token of the name. *)
LEMMA TokenFound ==
    ASSUME NEW r \in Row, IsThere(r), r.col # 0, "implicit" \notin r.flags, lexer \in LexerState
    PROVE  LET found == FoundToken(r)
           IN  /\ r.line \in DOMAIN Tokens /\ r.col \in 1..Lengths[r.line] /\ found.after \in LexerState
               /\ found.first \in r.col..found.last /\ found.last \in 1..Lengths[r.line]
               /\ \A t : NameAt(r, t) =>
                     /\ found.first = r.col
                     /\ lexer = Fresh => found.last = EndOfToken(r.line, t)
<1> DEFINE l == r.line
           c == r.col
           found == Lexed(lexer, l, c)
<1>1. l \in DOMAIN Tokens /\ c \in Nat \ {0} /\ c <= Len(LineText(l)) /\ found.last # 0
  BY DEF IsThere, Row, FoundToken
<1>2. Lengths[l] \in Nat /\ c \in 1..Lengths[l]
  BY <1>1, LineTextIs
<1>3. /\ found \in [first : Nat, last : 0..Lengths[l], after : LexerState]
      /\ c <= found.first /\ found.first <= found.last
      /\ \A t \in DOMAIN Tokens[l] :
            Tokens[l][t].col + 1 = c /\ Tokens[l][t].type \in NameType =>
                /\ found.first = c
                /\ lexer = Fresh => found.last = Tokens[l][t].col + Tokens[l][t].width
  <2>1. /\ found \in [first : Nat, last : 0..Lengths[l], after : LexerState]
        /\ found.last # 0 => c <= found.first /\ found.first <= found.last
        /\ \A t \in DOMAIN Tokens[l] :
              Tokens[l][t].col + 1 = c /\ Tokens[l][t].type \in NameType =>
                  /\ found.last # 0 /\ found.first = c
                  /\ lexer = Fresh => found.last = Tokens[l][t].col + Tokens[l][t].width
    BY <1>1, <1>2, LexerFinds, ZenonT(40)
  <2> QED
    BY <1>1, <2>1, Zenon
<1>4. \A t : NameAt(r, t) => found.first = c /\ (lexer = Fresh => found.last = EndOfToken(l, t))
  BY <1>3 DEF NameAt, EndOfToken
<1> HIDE DEF found
<1>5. /\ found.after \in LexerState /\ found.first \in Nat /\ found.last \in 0..Lengths[l]
  BY <1>3
<1>6. found.first \in c..found.last /\ found.last \in 1..Lengths[l]
  BY <1>1, <1>2, <1>3, <1>5
<1> QED
  BY <1>1, <1>2, <1>4, <1>5, <1>6 DEF FoundToken, found

(* The text of a token in its line. *)
LEMMA TokenInLine ==
    ASSUME NEW l \in DOMAIN Tokens, NEW t \in DOMAIN Tokens[l]
    PROVE  SubSeq(LineText(l), Tokens[l][t].col + 1, EndOfToken(l, t)) = TokenText(l, t)
<1> DEFINE begin == Tokens[l][t].col
           end == EndOfToken(l, t)
           width == Tokens[l][t].width
           text == LineText(l)
           p == SubSeq(text, begin + 1, end)
           q == TokenText(l, t)
<1>1. begin \in Nat /\ width \in Nat /\ end \in Nat /\ end = begin + width
  BY ColumnsOfLine DEF EndOfToken
<1>2. AList(text) /\ Len(text) = Lengths[l] /\ Lengths[l] \in Nat
  BY LineTextIs
<1>3. end <= Lengths[l]
  <2>1. EndOfLine(l) \in Nat /\ end <= EndOfLine(l) /\ EndOfLine(l) <= Lengths[l]
    BY EndIs, LineAssumption
  <2> QED
    BY <1>1, <1>2, <2>1
<1>4. AList(q) /\ Len(q) = width
  BY TextIsList
<1>5. \A m \in 1..width : q[m] = [tok |-> t, at |-> m]
  BY DEF TokenText
<1>6. \A m \in 1..width : text[begin + m] = [tok |-> t, at |-> (begin + m) - begin]
  <2> TAKE m \in 1..width
  <2>1. begin + m \in Nat /\ begin < begin + m /\ begin + m <= end
    BY <1>1
  <2> QED
    BY <2>1, CharacterOfToken
<1> HIDE DEF begin, end, width, text, q
<1>7. AList(p) /\ Len(p) = width /\ \A m \in 1..width : p[m] = text[begin + m]
  <2>1. begin + 1 \in 1..Len(text) + 1 /\ end \in (begin + 1) - 1..Len(text) /\ end - (begin + 1) + 1 = width
    BY <1>1, <1>2, <1>3
  <2>2. /\ AList(p) /\ Len(p) = end - (begin + 1) + 1
        /\ \A m \in 1..end - (begin + 1) + 1 : p[m] = text[(begin + 1) + m - 1]
    BY <1>2, <2>1, SliceIsList
  <2>3. \A m \in 1..width : (begin + 1) + m - 1 = begin + m
    BY <1>1
  <2> HIDE DEF p
  <2> QED
    BY <2>1, <2>2, <2>3
<1>8. \A m \in 1..width : p[m] = q[m]
  <2> TAKE m \in 1..width
  <2>1. (begin + m) - begin = m
    BY <1>1
  <2> QED
    BY <1>5, <1>6, <1>7, <2>1
<1> HIDE DEF p
<1>9. p = q
  BY <1>4, <1>7, <1>8, ListsEqual
<1> QED
  BY <1>9 DEF p, q, text, begin, end

LEMMA PieceText ==
    ASSUME NEW text, AList(text), NEW name
    PROVE  /\ AList(Piece(text, name)) /\ Text(Piece(text, name)) = text
           /\ DOMAIN Piece(text, name) = DOMAIN text
           /\ \A k \in DOMAIN text : Piece(text, name)[k].in = name
           /\ \A cell : AList(cell) => /\ AList(Chained(cell, Piece(text, name)))
                                       /\ Text(Chained(cell, Piece(text, name))) = Chained(Text(cell), text)
<1> DEFINE p == Piece(text, name)
           n == Len(text)
           r == [open |-> <<name>>]
<1>1. n \in Nat /\ DOMAIN text = 1..n
  BY ListFacts2
<1>2. DOMAIN p = 1..n /\ p = [k \in 1..n |-> p[k]] /\ \A k \in 1..n : p[k].in = name /\ p[k].char = text[k]
  BY <1>1 DEF Piece
<1>3. InElement(r, text) = p
  <2>1. <<name>>[Len(<<name>>)] = name
    OBVIOUS
  <2> QED
    BY <2>1, PieceIs
<1> HIDE DEF p, r, n
<1>4. AList(p) /\ Len(p) = n
  BY <1>1, <1>2, FunctionIsList
<1>5. Text(p) = text
  <2>1. Text(p) = [k \in 1..n |-> text[k]]
    BY <1>2 DEF Text
  <2>2. text = [k \in 1..n |-> text[k]]
    BY <1>1 DEF AList
  <2> QED
    BY <2>1, <2>2
<1>6. ASSUME NEW cell, AList(cell)
      PROVE  AList(Chained(cell, p)) /\ Text(Chained(cell, p)) = Chained(Text(cell), text)
  <2> DEFINE more == InElement(r, text)
  <2>1. AList(cell \o more) /\ Text(Chained(cell, more)) = Chained(Text(cell), text)
    BY <1>6, TextWritten
  <2>2. more = p
    BY <1>3
  <2> HIDE DEF more
  <2> QED
    BY <2>1, <2>2 DEF Chained
<1> QED
  BY <1>1, <1>2, <1>4, <1>5, <1>6 DEF p

(* what is set off in a cell *)
Off(cell) == Selected({c \in Range(cell) : c.in = "span"}, cell)

LEMMA NothingOff ==
    ASSUME NEW text, AList(text)
    PROVE  Off(Piece(text, "div")) = <<>>
<1> DEFINE p == Piece(text, "div")
           S == {c \in Range(p) : c.in = "span"}
<1>1. AList(p) /\ \A k \in DOMAIN p : p[k].in = "div"
  BY PieceText
<1> HIDE DEF p
<1>2. PICK E : p \in Seq(E)
  BY <1>1 DEF AList
<1>3. \A k \in DOMAIN p : p[k] \notin S
  BY <1>1
<1> HIDE DEF S
<1>4. Selected(S, p) = <<>>
  BY <1>2, <1>3, SelectedNone
<1> QED
  BY <1>4 DEF Off, S, p

LEMMA MiddleOff ==
    ASSUME NEW a, AList(a), NEW t, AList(t), NEW b, AList(b)
    PROVE  Off(Chained(Chained(Piece(a, "div"), Piece(t, "span")), Piece(b, "div"))) = Piece(t, "span")
<1> DEFINE pa == Piece(a, "div")
           pt == Piece(t, "span")
           pb == Piece(b, "div")
           ab == pa \o pt
           all == ab \o pb
           S == {c \in Range(all) : c.in = "span"}
<1>1. AList(pa) /\ AList(pt) /\ AList(pb)
  BY PieceText
<1>2. (\A k \in DOMAIN pa : pa[k].in = "div") /\ (\A k \in DOMAIN pt : pt[k].in = "span")
      /\ (\A k \in DOMAIN pb : pb[k].in = "div")
  BY PieceText
<1> HIDE DEF pa, pt, pb
<1>3. PICK A : pa \in Seq(A)
  BY <1>1 DEF AList
<1>4. PICK T : pt \in Seq(T)
  BY <1>1 DEF AList
<1>5. PICK B : pb \in Seq(B)
  BY <1>1 DEF AList
<1> DEFINE E == A \cup T \cup B
           P == {c \in E : c.in = "span"}
           none == <<>>
<1>6. pa \in Seq(E) /\ pt \in Seq(E) /\ pb \in Seq(E)
  BY <1>3, <1>4, <1>5
<1> HIDE DEF E
<1>7. ab \in Seq(E) /\ all \in Seq(E)
  BY <1>6
<1>8. (\A k \in DOMAIN pa : pa[k] \notin P) /\ (\A k \in DOMAIN pb : pb[k] \notin P)
      /\ (\A k \in DOMAIN pt : pt[k] \in P)
  BY <1>2, <1>6
<1>9. \A k \in DOMAIN all : all[k] \in S <=> all[k] \in P
  <2> HIDE DEF all
  <2>1. \A k \in DOMAIN all : all[k] \in E /\ all[k] \in Range(all)
    BY <1>7 DEF Range
  <2> QED
    BY <2>1
<1> HIDE DEF P, S
<1>10. Selected(P, pa) = none /\ Selected(P, pb) = none /\ Selected(P, pt) = pt
  BY <1>6, <1>8, SelectedNone, SelectedAll
<1>11. Selected(P, all) = Selected(P, ab) \o Selected(P, pb)
  BY <1>6, <1>7, SelectedConcat
<1>12. Selected(P, ab) = Selected(P, pa) \o Selected(P, pt)
  BY <1>6, SelectedConcat
<1>13. Selected(S, all) = Selected(P, all)
  <2> HIDE DEF all
  <2> QED
    BY <1>7, <1>9, SelectedAlike
<1>14. (none \o pt) \o none = pt
  BY <1>6
<1> HIDE DEF none, ab
<1>15. Selected(S, all) = pt
  BY <1>10, <1>11, <1>12, <1>13, <1>14
<1> QED
  BY <1>15 DEF Off, S, all, ab, pa, pt, pb, Chained

(* the cell that CodeOf writes *)
CellOf(r) ==
    LET text  == LineText(r.line)
        token == FirstToken(r)
    IN  IF "implicit" \in r.flags THEN Piece(text, "div")
        ELSE Chained(Chained(Piece(SubSeq(text, 1, r.col - 1), "div"), Piece(token, "span")),
                     Piece(SubSeq(text, r.col + Len(token), Len(text)), "div"))

(* the line, and something set off in it that begins at the column *)
RightCell(cell, r) ==
    IF "implicit" \in r.flags THEN Text(cell) = LineText(r.line) /\ Off(cell) = <<>>
    ELSE \A t : NameAt(r, t) =>
            /\ Text(cell) = LineText(r.line)
            /\ \E end \in r.col..Lengths[r.line] : Text(Off(cell)) = SubSeq(LineText(r.line), r.col, end)

(* what is set off is the token *)
Alone(cell, r) ==
    "implicit" \notin r.flags => \A t : NameAt(r, t) => Text(Off(cell)) = TokenText(r.line, t)

(* The parts of a line around a token. *)
LEMMA LineParts ==
    ASSUME NEW r \in Row, IsThere(r), r.col # 0, "implicit" \notin r.flags, lexer \in LexerState
    PROVE  LET text  == LineText(r.line)
               token == FirstToken(r)
               front == SubSeq(text, 1, r.col - 1)
               back  == SubSeq(text, r.col + Len(token), Len(text))
           IN  /\ AList(text) /\ AList(token) /\ AList(front) /\ AList(back)
               /\ \A t : NameAt(r, t) =>
                     /\ Chained(Chained(front, token), back) = text
                     /\ \E e \in r.col..Lengths[r.line] : token = SubSeq(text, r.col, e)
                     /\ lexer = Fresh => token = TokenText(r.line, t)
<1> DEFINE l == r.line
           c == r.col
           text == LineText(l)
           token == FirstToken(r)
           front == SubSeq(text, 1, c - 1)
           back == SubSeq(text, c + Len(token), Len(text))
           from == FoundToken(r).first
           end == FoundToken(r).last
<1>1. /\ l \in DOMAIN Tokens /\ c \in 1..Lengths[l] /\ from \in c..end /\ end \in 1..Lengths[l]
      /\ \A t : NameAt(r, t) => from = c /\ (lexer = Fresh => end = EndOfToken(l, t))
  BY TokenFound
<1>2. AList(text) /\ Len(text) = Lengths[l] /\ Lengths[l] \in Nat
  BY <1>1, LineTextIs
<1>3. token = SubSeq(text, from, end)
  BY DEF FirstToken
<1>4. ASSUME NEW t, NameAt(r, t), lexer = Fresh PROVE token = TokenText(l, t)
  <2>1. t \in DOMAIN Tokens[l] /\ Tokens[l][t].col + 1 = c
    BY <1>4 DEF NameAt
  <2>2. SubSeq(text, Tokens[l][t].col + 1, EndOfToken(l, t)) = TokenText(l, t)
    BY <1>1, <2>1, TokenInLine
  <2> QED
    BY <1>1, <1>3, <1>4, <2>1, <2>2
<1> HIDE DEF l, c, text, token, from, end
<1>5. c \in Nat \ {0} /\ end \in Nat /\ from \in Nat /\ c <= from /\ from <= end /\ end <= Len(text) /\ Len(text) \in Nat
  BY <1>1, <1>2
<1>8. AList(token) /\ Len(token) = end - from + 1
  <2>1. from \in 1..Len(text) + 1 /\ end \in from - 1..Len(text)
    BY <1>5
  <2> QED
    BY <1>2, <1>3, <2>1, SliceIsList
<1>9. AList(front)
  <2>1. 1 \in 1..Len(text) + 1 /\ c - 1 \in 1 - 1..Len(text)
    BY <1>5
  <2> QED
    BY <1>2, <2>1, SliceIsList
<1> DEFINE next == c + Len(token)
<1>10. next \in 1..Len(text) + 1 /\ Len(text) \in next - 1..Len(text)
  BY <1>5, <1>8
<1>11. AList(back)
  BY <1>2, <1>10, SliceIsList
<1>12. ASSUME from = c
       PROVE  Chained(Chained(front, token), back) = text
  <2>2. next = end + 1
    BY <1>5, <1>8, <1>12
  <2>3. PICK S : text \in Seq(S)
    BY <1>2 DEF AList
  <2>4. text = SubSeq(text, 1, Len(text))
    BY <2>3
  <2>5. SubSeq(text, 1, Len(text)) = SubSeq(text, 1, end) \o SubSeq(text, end + 1, Len(text))
    <3>1. /\ 1 \in 1..Len(text) + 1 /\ Len(text) \in 1 - 1..Len(text) /\ end + 1 \in 1..Len(text) + 1
          /\ (end + 1) - 1 = end
      BY <1>5
    <3> DEFINE m == end + 1
    <3> HIDE DEF m
    <3>2. SubSeq(text, 1, Len(text)) = SubSeq(text, 1, m - 1) \o SubSeq(text, m, Len(text))
      BY <2>3, <3>1, SliceCut DEF m
    <3> QED
      BY <3>1, <3>2 DEF m
  <2>6. SubSeq(text, 1, end) = SubSeq(text, 1, c - 1) \o SubSeq(text, c, end)
    <3>1. 1 \in 1..Len(text) + 1 /\ end \in 1 - 1..Len(text) /\ c \in 1..end + 1
      BY <1>5
    <3> QED
      BY <2>3, <3>1, SliceCut
  <2>7. SubSeq(text, c, end) = token
    BY <1>3, <1>12
  <2>8. SubSeq(text, end + 1, Len(text)) = back
    BY <2>2
  <2> HIDE DEF front, back, next
  <2> QED
    BY <2>4, <2>5, <2>6, <2>7, <2>8, Zenon DEF Chained, front
<1> HIDE DEF front, back, next
<1>13. \A t : NameAt(r, t) => from = c
  BY <1>1
<1>14. ASSUME from = c PROVE \E e \in c..Lengths[l] : token = SubSeq(text, c, e)
  <2>1. end \in c..Lengths[l]
    BY <1>1, <1>2, <1>5
  <2> QED
    BY <1>3, <1>14, <2>1
<1>15. /\ AList(text) /\ AList(token) /\ AList(front) /\ AList(back)
       /\ \A t : NameAt(r, t) =>
             /\ Chained(Chained(front, token), back) = text
             /\ \E e \in c..Lengths[l] : token = SubSeq(text, c, e)
             /\ lexer = Fresh => token = TokenText(l, t)
  BY <1>2, <1>4, <1>8, <1>9, <1>11, <1>12, <1>13, <1>14, Zenon
<1> QED
  BY <1>15, Zenon DEF text, token, front, back, next, l, c

LEMMA CodeIsList == ASSUME NEW r PROVE Linkless(CodeOf(r))
<1> DEFINE text == LineText(r.line)
           token == FirstToken(r)
           a == Characters(SubSeq(text, 1, r.col - 1))
           b1 == Element("span", Attribute("class", "here"))
           b2 == Characters(token)
           b == TextElement("span", Attribute("class", "here"), token)
           c == Characters(SubSeq(text, r.col + Len(token), Len(text)))
           one == Characters(text)
<1>1. Linkless(a) /\ Linkless(b2) /\ Linkless(c) /\ Linkless(one) /\ Linkless(End)
  BY LinklessCalls, Zenon
<1>2. Linkless(b1)
  <2>1. Linkless(Attribute("class", "here"))
    <3>1. "class" # "href"
      OBVIOUS
    <3> QED
      BY <3>1, LinklessCalls, Zenon DEF Attribute
  <2> QED
    BY <2>1, LinklessCalls, Zenon
<1>3. b = (b1 \o b2) \o End
  BY DEF TextElement
<1>4. CodeOf(r) = IF "implicit" \in r.flags THEN one ELSE (a \o b) \o c
  BY DEF CodeOf
<1> HIDE DEF text, token, a, b1, b2, b, c, one
<1>5. Linkless(b)
  <2>1. Linkless(b1 \o b2)
    BY <1>1, <1>2, LinklessBoth
  <2> DEFINE b12 == b1 \o b2
  <2> HIDE DEF b12
  <2>2. Linkless(b12 \o End)
    BY <1>1, <2>1, LinklessBoth DEF b12
  <2> QED
    BY <1>3, <2>2, Zenon DEF b12
<1> DEFINE ab == a \o b
           abc == ab \o c
<1>6. Linkless(ab)
  BY <1>1, <1>5, LinklessBoth
<1> HIDE DEF ab
<1>7. Linkless(abc)
  BY <1>1, <1>6, LinklessBoth
<1> QED
  BY <1>1, <1>4, <1>7, Zenon DEF ab

LEMMA CodeHeld ==
    ASSUME NEW r, NEW o, AList(o), NEW cells, NEW g,
           Holds(r, Within(o, "div"), Len(o) + 1, cells, <<>>, g),
           NEW row \in Row, IsThere(row), row.col # 0, lexer \in LexerState
    PROVE  LET s == Followed("make", r, CodeOf(row))
           IN  Holds(s, Within(o, "div"), Len(o) + 1, cells, CellOf(row), g)
<1> DEFINE d == Len(o) + 1
           oo == Within(o, "div")
           text == LineText(row.line)
           token == FirstToken(row)
           front == SubSeq(text, 1, row.col - 1)
           back == SubSeq(text, row.col + Len(token), Len(text))
           none == <<>>
           set == TextElement("span", Attribute("class", "here"), token)
<1>0. AList(none) /\ \A p : AList(p) => Chained(none, p) = p
  <2>1. AList(none)
    BY AddsNothing DEF Adds
  <2> QED
    BY <2>1 DEF AList, Chained
<1>1. AList(text)
  BY LineTextIs DEF IsThere
<1>2. CodeOf(row) = IF "implicit" \in row.flags THEN Characters(text)
                    ELSE (Characters(front) \o set) \o Characters(back)
  BY DEF CodeOf
<1>3. CellOf(row) = IF "implicit" \in row.flags THEN Piece(text, "div")
                    ELSE Chained(Chained(Piece(front, "div"), Piece(token, "span")), Piece(back, "div"))
  BY DEF CellOf
<1>4. "implicit" \notin row.flags => AList(token) /\ AList(front) /\ AList(back)
  BY LineParts
<1>5. AList(oo)
  BY WithinIs
<1> HIDE DEF d, text, token, front, back, none, set
<1>6. CASE "implicit" \in row.flags
  <2> DEFINE s == Followed("make", r, Characters(text))
  <2>1. Holds(s, oo, d, cells, Chained(none, Piece(text, "div")), g)
    BY <1>1, TextHeld DEF none, d
  <2>2. Chained(none, Piece(text, "div")) = Piece(text, "div")
    BY <1>0, <1>1, PieceText
  <2> HIDE DEF s, oo
  <2>3. Holds(s, oo, d, cells, Piece(text, "div"), g)
    BY <2>1, <2>2
  <2> QED
    BY <1>2, <1>3, <1>6, <2>3 DEF s, d, oo
<1>7. CASE "implicit" \notin row.flags
  <2> DEFINE a == Characters(front)
             b == Characters(back)
             pf == Piece(front, "div")
             pt == Piece(token, "span")
             pb == Piece(back, "div")
             x == Followed("make", r, a)
             y == Followed("make", x, set)
             z == Followed("make", y, b)
  <2>1. AList(token) /\ AList(front) /\ AList(back)
    BY <1>4, <1>7
  <2>2. AList(a) /\ AList(set) /\ AList(b)
    <3>1. AList(a) /\ AList(b)
      BY CharactersSeal
    <3>2. Adds(set, token, TRUE)
      <4> DEFINE list == Attribute("class", "here")
      <4>1. AreAttributes(list, "span") /\ NoQuote(list) /\ "span" # "td"
        BY AttributesOne, Zenon DEF Attribute
      <4>2. set = TextElement("span", list, token)
        BY DEF set
      <4> HIDE DEF list, set
      <4>3. Adds(TextElement("span", list, token), token, TRUE)
        BY <2>1, <4>1, AddsText
      <4> QED
        BY <4>2, <4>3
    <3> QED
      BY <3>1, <3>2 DEF Adds
  <2> HIDE DEF a, b
  <2>3. /\ Followed("make", r, (a \o set) \o b) = z
    <3>1. AList(a \o set) /\ Followed("make", r, a \o set) = y
      BY <2>2, ListsJoined
    <3> DEFINE ab == a \o set
    <3> HIDE DEF ab, y
    <3>2. Followed("make", r, ab \o b) = Followed("make", Followed("make", r, ab), b)
      BY <2>2, <3>1, ListsJoined DEF ab
    <3> QED
      BY <3>1, <3>2 DEF ab
  <2>4. Chained(none, pf) = pf /\ AList(pf)
    BY <1>0, <2>1, PieceText
  <2> HIDE DEF pf, pt, pb
  <2>5. Holds(x, oo, d, cells, pf, g)
    <3>1. Holds(x, oo, d, cells, Chained(none, pf), g)
      BY <2>1, TextHeld DEF none, d, a, pf
    <3> QED
      BY <2>4, <3>1
  <2> HIDE DEF x
  <2>6. Holds(y, oo, d, cells, Chained(pf, pt), g)
    <3> HIDE DEF oo
    <3> QED
      BY <1>5, <2>1, <2>5, SetOffHeld DEF set, pt
  <2> HIDE DEF y
  <2> DEFINE cell == Chained(pf, pt)
  <2> HIDE DEF cell
  <2>7. Holds(z, oo, d, cells, Chained(cell, pb), g)
    <3>1. Holds(y, oo, d, cells, cell, g)
      BY <2>6 DEF cell
    <3> QED
      BY <2>1, <3>1, TextHeld DEF b, pb
  <2> HIDE DEF z
  <2>8. CellOf(row) = Chained(cell, pb)
    BY <1>3, <1>7 DEF cell, pf, pt, pb
  <2>9. CodeOf(row) = (a \o set) \o b
    BY <1>2, <1>7 DEF a, b
  <2> HIDE DEF oo
  <2> QED
    BY <2>3, <2>7, <2>8, <2>9 DEF oo, d
<1> QED
  BY <1>6, <1>7

LEMMA CellIsRight ==
    ASSUME NEW row \in Row, IsThere(row), row.col # 0, lexer \in LexerState
    PROVE  RightCell(CellOf(row), row) /\ (lexer = Fresh => Alone(CellOf(row), row))
<1> DEFINE l == row.line
           text == LineText(l)
           token == FirstToken(row)
           front == SubSeq(text, 1, row.col - 1)
           back == SubSeq(text, row.col + Len(token), Len(text))
<1>1. CASE "implicit" \in row.flags
  <2>1. AList(text)
    BY LineTextIs DEF IsThere
  <2>2. CellOf(row) = Piece(text, "div")
    BY <1>1 DEF CellOf
  <2> HIDE DEF text
  <2>3. Text(Piece(text, "div")) = text /\ Off(Piece(text, "div")) = <<>>
    BY <2>1, PieceText, NothingOff
  <2> QED
    BY <1>1, <2>2, <2>3 DEF RightCell, Alone, text
<1>2. CASE "implicit" \notin row.flags
  <2> DEFINE pf == Piece(front, "div")
             pt == Piece(token, "span")
             pb == Piece(back, "div")
             two == Chained(pf, pt)
             cell == Chained(two, pb)
  <2>1. AList(text) /\ AList(token) /\ AList(front) /\ AList(back)
    BY <1>2, LineParts
  <2>2. \A t : NameAt(row, t) =>
           /\ Chained(Chained(front, token), back) = text
           /\ \E e \in row.col..Lengths[l] : token = SubSeq(text, row.col, e)
           /\ lexer = Fresh => token = TokenText(l, t)
    BY <1>2, LineParts
  <2>3. CellOf(row) = cell
    BY <1>2 DEF CellOf
  <2> HIDE DEF text, token, front, back, l
  <2>4. AList(pf) /\ Text(pf) = front /\ AList(two) /\ Text(two) = Chained(front, token)
    <3>1. AList(pf) /\ Text(pf) = front
      BY <2>1, PieceText
    <3> HIDE DEF pf
    <3>2. AList(Chained(pf, pt)) /\ Text(Chained(pf, pt)) = Chained(Text(pf), token)
      BY <2>1, <3>1, PieceText
    <3> QED
      BY <3>1, <3>2
  <2> DEFINE ft == Chained(front, token)
  <2>5. Text(cell) = Chained(ft, back)
    <3> HIDE DEF two, ft
    <3>1. Text(Chained(two, pb)) = Chained(Text(two), back)
      BY <2>1, <2>4, PieceText
    <3> QED
      BY <2>4, <3>1 DEF ft
  <2>6. Off(cell) = pt
    BY <2>1, MiddleOff
  <2>7. Text(pt) = token
    BY <2>1, PieceText
  <2> HIDE DEF cell, pt
  <2>8. ASSUME NEW t, NameAt(row, t)
        PROVE  /\ Text(cell) = text
               /\ \E e \in row.col..Lengths[l] : Text(Off(cell)) = SubSeq(text, row.col, e)
               /\ lexer = Fresh => Text(Off(cell)) = TokenText(l, t)
    BY <2>2, <2>5, <2>6, <2>7, <2>8
  <2> QED
    BY <1>2, <2>3, <2>8 DEF RightCell, Alone, l, text
<1> QED
  BY <1>1, <1>2

(* what WriteUse hands over *)
UseCalls(r) ==
    Element("div", Attribute("class", "use"))
        \o Element("div", Attribute("class", "ln")) \o LineLink(r) \o End
        \o CellStart \o CodeOf(r) \o End \o End

LEMMA DivsLead ==
    ASSUME NEW o, AList(o), NEW t, NEW v, v # "code"
    PROVE  Goes(Element("div", Attribute("class", v)), o, t, Within(o, "div"), TRUE, TRUE)
<1> DEFINE list == Attribute("class", v)
<1>1. AreAttributes(list, "div") /\ (NoQuote(list) <=> TRUE)
  BY AttributesOne, Zenon DEF Attribute
<1>2. Linkless(list)
  <2>1. "class" # "href"
    OBVIOUS
  <2> QED
    BY <2>1, LinklessCalls, Zenon DEF Attribute
<1>3. "div" # "td"
  OBVIOUS
<1> HIDE DEF list
<1>4. Goes(Element("div", list), o, t, Within(o, "div"), TRUE, TRUE)
  BY <1>1, <1>2, <1>3, GoesIn
<1> QED
  BY <1>4 DEF list

LEMMA UseRefers ==
    ASSUME NEW o, AList(o), NEW r \in Row
    PROVE  Refers(Element("div", Attribute("class", "use"))
                      \o Element("div", Attribute("class", "ln")) \o LineLink(r) \o End,
                  o, FALSE, Within(o, "div"), FALSE, <<r>>)
<1> DEFINE a == Element("div", Attribute("class", "use"))
           b == Element("div", Attribute("class", "ln"))
           c == LineLink(r)
           oo == Within(o, "div")
           ooo == Within(oo, "div")
           one == <<r>>
<1>1. AList(oo)
  BY WithinIs
<1> HIDE DEF oo
<1>2. AList(ooo)
  BY <1>1, WithinIs
<1>3. Goes(a, o, FALSE, oo, TRUE, TRUE)
  <2>1. "use" # "code"
    OBVIOUS
  <2> QED
    BY <2>1, DivsLead DEF oo
<1>4. Goes(b, oo, TRUE, ooo, TRUE, TRUE)
  <2>1. "ln" # "code"
    OBVIOUS
  <2> QED
    BY <1>1, <2>1, DivsLead
<1>5. Refers(c, ooo, TRUE, ooo, FALSE, one)
  <2> HIDE DEF ooo
  <2> QED
    BY <1>2, LinkRefers
<1>6. Goes(End, ooo, FALSE, oo, FALSE, TRUE)
  BY <1>1, GoesOut
<1> HIDE DEF a, b, c, ooo, one
<1> DEFINE ab == a \o b
           abc == ab \o c
           all == abc \o End
<1> HIDE DEF ab, abc, all
<1>7. Goes(ab, o, FALSE, ooo, TRUE, TRUE)
  BY <1>3, <1>4, GoesWell, Zenon DEF ab
<1>8. Refers(abc, o, FALSE, ooo, FALSE, one)
  BY <1>5, <1>7, ThenRefers, Zenon DEF abc
<1>9. Refers(all, o, FALSE, oo, FALSE, one)
  BY <1>6, <1>8, RefersThen, Zenon DEF all
<1> QED
  BY <1>9, Zenon DEF all, abc, ab, a, b, c, oo, one

(* A use links to its line, and has a cell that is right. *)
LEMMA UseWritten ==
    ASSUME NEW o, AList(o), NEW row \in Row, IsThere(row), row.col # 0, lexer \in LexerState
    PROVE  /\ Links(UseCalls(row), <<row>>)
           /\ \A r : WellRead(r) /\ ~r.inTag /\ r.depth = 0 /\ r.open = o =>
                 LET s == Followed("make", r, UseCalls(row))
                 IN  /\ WellRead(s) /\ ~s.inTag /\ s.depth = 0 /\ s.open = o
                     /\ s.cells = Celled(r.cells, CellOf(row)) /\ (s.good <=> r.good)
<1> DEFINE a == Element("div", Attribute("class", "use"))
                    \o Element("div", Attribute("class", "ln")) \o LineLink(row) \o End
           b == CellStart
           c == CodeOf(row)
           oo == Within(o, "div")
           one == <<row>>
           ab == a \o b
           abc == ab \o c
           abcd == abc \o End
           all == abcd \o End
<1>1. UseCalls(row) = all
  BY DEF UseCalls
<1>2. Refers(a, o, FALSE, oo, FALSE, one)
  BY UseRefers
<1>3. Linkless(b)
  <2>1. Linkless(Attribute("class", "code"))
    <3>1. "class" # "href"
      OBVIOUS
    <3> QED
      BY <3>1, LinklessCalls, Zenon DEF Attribute
  <2> QED
    BY <2>1, LinklessCalls, Zenon DEF CellStart
<1>4. Linkless(c) /\ Linkless(End)
  BY CodeIsList, LinklessCalls
<1>5. AList(a) /\ AList(b) /\ AList(c) /\ AList(End) /\ one \in Seq(Row)
  BY <1>2, <1>3, <1>4 DEF Linkless, Refers, Leads
<1>6. AList(oo)
  BY WithinIs
<1> HIDE DEF a, b, c, oo, one, all
<1>7. AList(ab) /\ \A r : Followed("make", r, ab) = Followed("make", Followed("make", r, a), b)
  BY <1>5, ListsJoined
<1> HIDE DEF ab
<1>8. AList(abc) /\ \A r : Followed("make", r, abc) = Followed("make", Followed("make", r, ab), c)
  BY <1>5, <1>7, ListsJoined
<1> HIDE DEF abc
<1>9. AList(abcd) /\ \A r : Followed("make", r, abcd) = Followed("make", Followed("make", r, abc), End)
  BY <1>5, <1>8, ListsJoined
<1> HIDE DEF abcd
<1>10. AList(all) /\ \A r : Followed("make", r, all) = Followed("make", Followed("make", r, abcd), End)
  BY <1>5, <1>9, ListsJoined DEF all
<1>11. Links(all, one)
  <2> DEFINE none == <<>>
  <2>1. one \o none = one
    BY <1>5, RowsAndNone
  <2>2. Links(a, one) /\ Links(b, none) /\ Links(c, none) /\ Links(End, none)
    BY <1>2, <1>3, <1>4, NoLinks DEF Refers
  <2> HIDE DEF none
  <2>3. Links(ab, one)
    <3>1. Links(a \o b, one \o none)
      BY <2>2, LinksJoin
    <3> QED
      BY <2>1, <3>1, Zenon DEF ab
  <2>4. Links(abc, one)
    <3>1. Links(ab \o c, one \o none)
      BY <2>2, <2>3, LinksJoin
    <3> QED
      BY <2>1, <3>1, Zenon DEF abc
  <2>5. Links(abcd, one)
    <3>1. Links(abc \o End, one \o none)
      BY <2>2, <2>4, LinksJoin
    <3> QED
      BY <2>1, <3>1, Zenon DEF abcd
  <2>6. Links(abcd \o End, one \o none)
    BY <2>2, <2>5, LinksJoin
  <2> QED
    BY <2>1, <2>6, Zenon DEF all
<1>12. ASSUME NEW r, WellRead(r), ~r.inTag, r.depth = 0, r.open = o
       PROVE  LET s == Followed("make", r, all)
              IN  /\ WellRead(s) /\ ~s.inTag /\ s.depth = 0 /\ s.open = o
                  /\ s.cells = Celled(r.cells, CellOf(row)) /\ (s.good <=> r.good)
  <2> DEFINE r1 == Followed("make", r, a)
             r2 == Followed("make", r1, b)
             r3 == Followed("make", r2, c)
             r4 == Followed("make", r3, End)
             r5 == Followed("make", r4, End)
             ooo == Within(oo, "div")
             cells == r.cells
             cell == CellOf(row)
             g == r.good
             d == Len(oo) + 1
  <2>1. Followed("make", r, all) = r5
    BY <1>7, <1>8, <1>9, <1>10
  <2>2. WellRead(r1) /\ r1.depth = 0 /\ r1.open = oo /\ r1.cells = cells /\ (r1.good <=> g)
    BY <1>2, <1>12 DEF Refers, Leads
  <2> HIDE DEF r1
  <2>3. Holds(r2, ooo, d, r1.cells, <<>>, r1.good)
    BY <1>6, <2>2, CellEntered DEF b
  <2> HIDE DEF r2, g, cells
  <2>4. Holds(r2, ooo, d, cells, <<>>, g)
    BY <2>2, <2>3 DEF Holds
  <2>5. Holds(r3, ooo, d, cells, cell, g)
    BY <1>6, <2>4, CodeHeld DEF c
  <2> HIDE DEF r3, cell, d
  <2>6. /\ WellRead(r4) /\ ~r4.inTag /\ (r4.good <=> g)
        /\ r4.open = oo /\ r4.depth = 0 /\ r4.cells = Celled(cells, cell)
    BY <1>6, <2>5, CellLeft DEF d
  <2> HIDE DEF r4
  <2>7. /\ WellRead(r5) /\ ~r5.inTag /\ (r5.good <=> r4.good)
        /\ r5.open = o /\ r5.depth = (IF r4.depth = Len(o) + 1 THEN 0 ELSE r4.depth)
        /\ r5.cells = r4.cells
    BY <2>6, EndMade DEF oo
  <2> HIDE DEF r5
  <2> QED
    BY <2>1, <2>6, <2>7 DEF cells, cell, g
<1> QED
  BY <1>1, <1>11, <1>12, Zenon DEF one
-----------------------------------------------------------------------------
(* ALL ROWS OF A SYMBOL: what has been seen of them when the page is at place u of the
   references. *)
ShownUse == {r \in Row : ~IsDeclOrDef(r) /\ r.file = Page}
Uses(f, l) == {r \in Row : ~IsDeclOrDef(r) /\ r.file = Page /\ r.file = f /\ r.line = l}
Heads(f, l) == {r \in Row : IsDeclOrDef(r) /\ r.file = f /\ r.line = l}

Seen(q, u) == SubSeq(q, 1, u - 1)

NbOf(S, q) == Len(Selected(S, q))

LEMMA SeenIs ==
    ASSUME NEW q \in Seq(Row), NEW u \in 1..Len(q) + 1
    PROVE  /\ Seen(q, u) \in Seq(Row) /\ Seen(q, 1) = <<>> /\ Seen(q, Len(q) + 1) = q
           /\ \A S : NbOf(S, Seen(q, u)) \in Nat /\ NbOf(S, q) \in Nat
<1>1. Len(q) \in Nat /\ u \in 1..Len(q) + 1 /\ Len(q) + 1 \in 1..Len(q) + 1 /\ 1 \in 1..Len(q) + 1 /\ 1 - 1 = 0
      /\ (Len(q) + 1) - 1 = Len(q)
  OBVIOUS
<1>2. SubSeq(q, 1, u - 1) \in Seq(Row)
  BY <1>1, Halves
<1>3. SubSeq(q, 1, 1 - 1) \in Seq(Row) /\ Len(SubSeq(q, 1, 1 - 1)) = 1 - 1
  BY <1>1, Halves
<1>4. Seen(q, 1) = <<>>
  <2> DEFINE s == SubSeq(q, 1, 1 - 1)
  <2>1. s \in Seq(Row) /\ Len(s) = 0
    BY <1>1, <1>3
  <2> HIDE DEF s
  <2>2. s = <<>>
    BY <2>1
  <2> QED
    BY <2>2 DEF Seen, s
<1>5. Seen(q, Len(q) + 1) = q
  <2>1. SubSeq(q, 1, Len(q)) = q
    OBVIOUS
  <2> QED
    BY <1>1, <2>1 DEF Seen
<1>6. \A S : \A s \in Seq(Row) : Len(Selected(S, s)) \in Nat
  BY SelectedCount
<1> QED
  BY <1>2, <1>4, <1>5, <1>6 DEF Seen, NbOf

LEMMA SeenMore ==
    ASSUME NEW q \in Seq(Row), NEW u \in 1..Len(q)
    PROVE  /\ Seen(q, u + 1) = Chained(Seen(q, u), <<q[u]>>)
           /\ \A S : NbOf(S, Seen(q, u + 1)) = NbOf(S, Seen(q, u)) + (IF q[u] \in S THEN 1 ELSE 0)
<1> DEFINE m == u - 1
           x == q[u]
           p == Seen(q, u)
<1>1. m \in Nat /\ m + 1 \in 1..Len(q) /\ m + 1 = u /\ u + 1 - 1 = u /\ x \in Row /\ u \in 1..Len(q) + 1
  OBVIOUS
<1>2. p \in Seq(Row)
  BY <1>1, SeenIs
<1>3. SubSeq(q, 1, u) = SubSeq(q, 1, u - 1) \o <<q[u]>>
  <2> HIDE DEF m
  <2>1. SubSeq(q, 1, m + 1) = SubSeq(q, 1, m) \o <<q[m + 1]>>
    BY <1>1, FrontGrows
  <2> QED
    BY <1>1, <2>1 DEF m
<1>4. Seen(q, u + 1) = Chained(p, <<x>>)
  BY <1>1, <1>3 DEF Seen, Chained
<1> HIDE DEF x, p, m
<1>5. Chained(p, <<x>>) = Append(p, x)
  BY <1>1, <1>2, AppendIsConcat DEF Chained
<1>6. ASSUME NEW S PROVE NbOf(S, Seen(q, u + 1)) = NbOf(S, p) + (IF x \in S THEN 1 ELSE 0)
  <2> DEFINE s == Selected(S, p)
  <2>1. Selected(S, Append(p, x)) = IF x \in S THEN Append(s, x) ELSE s
    BY <1>1, <1>2, SelectedAppend
  <2>2. s \in Seq(Row \cap S)
    BY <1>2, SelectedType
  <2> HIDE DEF s
  <2>3. Len(s) \in Nat
    BY <2>2
  <2>4. CASE x \in S
    <3>1. x \in Row \cap S
      BY <1>1, <2>4
    <3>2. Len(Append(s, x)) = Len(s) + 1
      BY <2>2, <3>1
    <3> QED
      BY <1>4, <1>5, <2>1, <2>4, <3>2 DEF NbOf, s
  <2>5. CASE x \notin S
    <3>1. Selected(S, Seen(q, u + 1)) = s
      BY <1>4, <1>5, <2>1, <2>5
    <3>2. NbOf(S, Seen(q, u + 1)) = Len(s) /\ NbOf(S, p) = Len(s)
      BY <3>1 DEF NbOf, s
    <3> QED
      BY <2>3, <2>5, <3>2
  <2> QED
    BY <2>4, <2>5
<1> QED
  BY <1>4, <1>6 DEF x, p

(* Rows that are not of S may be passed. *)
LEMMA SeenPast ==
    ASSUME NEW q \in Seq(Row), NEW u \in 1..Len(q) + 1, NEW z \in u - 1..Len(q),
           NEW S, \A j \in u..z : q[j] \notin S
    PROVE  Selected(S, Seen(q, z + 1)) = Selected(S, Seen(q, u))
<1> DEFINE p == SubSeq(q, 1, u - 1)
           s == SubSeq(q, u, z)
           ps == SubSeq(q, 1, z)
<1>1. Len(q) \in Nat /\ z \in Nat /\ u \in Nat /\ 1 \in 1..Len(q) + 1 /\ z \in 1 - 1..Len(q) /\ u \in 1..z + 1 /\ z + 1 - 1 = z
  OBVIOUS
<1>2. ps = p \o s
  BY <1>1, SliceCut
<1>3. p \in Seq(Row)
  BY Halves
<1>4. s \in Seq(Row) /\ Len(s) = z - u + 1 /\ \A k \in 1..z - u + 1 : s[k] = q[u + k - 1]
  BY <1>1, Slice
<1> HIDE DEF p, s, ps
<1>5. \A k \in DOMAIN s : s[k] \notin S
  <2> TAKE k \in DOMAIN s
  <2>1. k \in 1..z - u + 1
    BY <1>4
  <2>2. u + k - 1 \in u..z
    BY <1>1, <2>1
  <2> QED
    BY <1>4, <2>1, <2>2
<1>6. Selected(S, s) = <<>>
  BY <1>4, <1>5, SelectedNone
<1>7. Selected(S, ps) = Selected(S, p) \o Selected(S, s)
  BY <1>2, <1>3, <1>4, SelectedConcat
<1> DEFINE a == Selected(S, p)
<1>8. a \in Seq(Row \cap S)
  BY <1>3, SelectedType
<1> HIDE DEF a
<1>9. a \o <<>> = a
  BY <1>8
<1>10. Selected(S, ps) = Selected(S, p)
  BY <1>6, <1>7, <1>9 DEF a
<1> QED
  BY <1>1, <1>10 DEF Seen, ps, p

(* What extracting has left and taken of the rows of a symbol. *)
TakenOut(all, r, d, e) ==
    /\ all \in Seq(Row) /\ r \in Seq(Row) /\ d \in Seq(Row) /\ e \in Seq(Row)
    /\ \A k \in DOMAIN r : r[k].col # 0
    /\ \A S : (\A x \in S : ~IsDeclOrDef(x)) => Selected(S, r) = Selected(S, all)
    /\ \A f, l : NbOf(AtLine(f, l), d) + NbOf(AtLine(f, l), e) + NbOf(Heads(f, l), r) = NbOf(Heads(f, l), all)

LEMMA NothingTaken ==
    ASSUME NEW all \in Seq(Row), \A k \in DOMAIN all : all[k].col # 0
    PROVE  TakenOut(all, all, <<>>, <<>>)
<1> DEFINE none == <<>>
<1>1. none \in Seq(Row) /\ Len(none) = 0
  OBVIOUS
<1>2. \A S : Selected(S, none) = none /\ NbOf(S, all) \in Nat
  BY SelectedEmpty, SelectedCount DEF NbOf
<1> HIDE DEF none
<1>3. \A S : NbOf(S, none) = 0
  BY <1>1, <1>2 DEF NbOf
<1>4. ASSUME NEW f, NEW l
      PROVE  NbOf(AtLine(f, l), none) + NbOf(AtLine(f, l), none) + NbOf(Heads(f, l), all) = NbOf(Heads(f, l), all)
  <2>1. NbOf(AtLine(f, l), none) = 0 /\ NbOf(Heads(f, l), all) \in Nat
    BY <1>2, <1>3
  <2> QED
    BY <2>1
<1>5. TakenOut(all, all, none, none)
  BY <1>1, <1>4 DEF TakenOut
<1> QED
  BY <1>5 DEF none

LEMMA Counted ==
    ASSUME NEW q \in Seq(Row), NEW x \in Row, NEW S
    PROVE  /\ Append(q, x) \in Seq(Row) /\ NbOf(S, q) \in Nat
           /\ NbOf(S, Append(q, x)) = NbOf(S, q) + (IF x \in S THEN 1 ELSE 0)
<1> DEFINE s == Selected(S, q)
<1>1. Selected(S, Append(q, x)) = IF x \in S THEN Append(s, x) ELSE s
  BY SelectedAppend
<1>2. s \in Seq(Row \cap S)
  BY SelectedType
<1> HIDE DEF s
<1>3. Len(s) \in Nat
  BY <1>2
<1>4. CASE x \in S
  <2>1. x \in Row \cap S
    BY <1>4
  <2>2. Len(Append(s, x)) = Len(s) + 1
    BY <1>2, <2>1
  <2> QED
    BY <1>1, <1>3, <1>4, <2>2 DEF NbOf, s
<1>5. CASE x \notin S
  <2>1. NbOf(S, Append(q, x)) = Len(s) /\ NbOf(S, q) = Len(s)
    BY <1>1, <1>5 DEF NbOf, s
  <2> QED
    BY <1>3, <1>5, <2>1
<1> QED
  BY <1>4, <1>5

(* A declaration or a definition is taken out, and put behind those that were. *)
LEMMA OneTaken ==
    ASSUME NEW all, NEW r, NEW d, NEW e, TakenOut(all, r, d, e), NEW k \in DOMAIN r, IsDeclOrDef(r[k])
    PROVE  /\ TakenOut(all, RemoveAt(r, k), Append(d, r[k]), e)
           /\ TakenOut(all, RemoveAt(r, k), d, Append(e, r[k]))
<1> DEFINE x == r[k]
           rr == RemoveAt(r, k)
<1>1. all \in Seq(Row) /\ r \in Seq(Row) /\ d \in Seq(Row) /\ e \in Seq(Row) /\ x \in Row
  BY DEF TakenOut
<1>2. /\ rr \in Seq(Row)
      /\ \A S : x \notin S => Selected(S, rr) = Selected(S, r)
      /\ \A S : Len(Selected(S, r)) = Len(Selected(S, rr)) + (IF x \in S THEN 1 ELSE 0)
  BY <1>1, ElementRemoved
<1>3. \A j \in DOMAIN rr : rr[j].col # 0
  <2> DEFINE C == {row \in Row : row.col # 0}
  <2>1. r \in Seq(C)
    <3>1. \A j \in DOMAIN r : r[j] \in C
      BY <1>1 DEF TakenOut
    <3> HIDE DEF C
    <3> QED
      BY <1>1, <3>1
  <2> HIDE DEF C
  <2>2. rr \in Seq(C)
    BY <2>1, ElementRemoved
  <2>3. \A j \in DOMAIN rr : rr[j] \in C
    BY <2>2
  <2> QED
    BY <2>3 DEF C
<1>4. ASSUME NEW S, \A y \in S : ~IsDeclOrDef(y) PROVE Selected(S, rr) = Selected(S, all)
  <2>1. x \notin S
    BY <1>4
  <2>2. Selected(S, r) = Selected(S, all)
    BY <1>4 DEF TakenOut
  <2> QED
    BY <1>2, <2>1, <2>2
<1>5. ASSUME NEW f, NEW l
      PROVE  /\ NbOf(AtLine(f, l), Append(d, x)) + NbOf(AtLine(f, l), e) + NbOf(Heads(f, l), rr) = NbOf(Heads(f, l), all)
             /\ NbOf(AtLine(f, l), d) + NbOf(AtLine(f, l), Append(e, x)) + NbOf(Heads(f, l), rr) = NbOf(Heads(f, l), all)
  <2> DEFINE A == AtLine(f, l)
             H == Heads(f, l)
  <2>1. x \in A <=> x \in H
    BY <1>1 DEF AtLine, Heads
  <2>2. NbOf(A, d) + NbOf(A, e) + NbOf(H, r) = NbOf(H, all)
    BY DEF TakenOut
  <2> HIDE DEF x, rr, A, H
  <2>3. /\ NbOf(A, Append(d, x)) = NbOf(A, d) + (IF x \in A THEN 1 ELSE 0) /\ NbOf(A, d) \in Nat
        /\ NbOf(A, Append(e, x)) = NbOf(A, e) + (IF x \in A THEN 1 ELSE 0) /\ NbOf(A, e) \in Nat
    BY <1>1, Counted
  <2>4. NbOf(H, r) = NbOf(H, rr) + (IF x \in H THEN 1 ELSE 0) /\ NbOf(H, rr) \in Nat
    <3>1. Len(Selected(H, rr)) \in Nat
      BY <1>2, SelectedCount
    <3> QED
      BY <1>2, <3>1 DEF NbOf
  <2>5. /\ NbOf(A, Append(d, x)) + NbOf(A, e) + NbOf(H, rr) = NbOf(H, all)
        /\ NbOf(A, d) + NbOf(A, Append(e, x)) + NbOf(H, rr) = NbOf(H, all)
    BY <2>1, <2>2, <2>3, <2>4
  <2> QED
    BY <2>5 DEF A, H
<1> HIDE DEF x, rr
<1>6. Append(d, x) \in Seq(Row) /\ Append(e, x) \in Seq(Row)
  BY <1>1, Counted
<1>7. TakenOut(all, rr, Append(d, x), e) /\ TakenOut(all, rr, d, Append(e, x))
  BY <1>1, <1>2, <1>3, <1>4, <1>5, <1>6 DEF TakenOut
<1> QED
  BY <1>7 DEF x, rr

(* where the page is in the references *)
Placed(s, r, u, z) ==
    /\ s = "extract" => u = 1 /\ z = 0
    /\ s = "uses" => z \in 0..Len(r) /\ u \in 1..z + 1 /\ \A k \in u..z : r[k].file = Page
    /\ s = "written" => u = Len(r) + 1
    /\ s # "extract" => \A k \in DOMAIN r : ~IsDeclOrDef(r[k])

(* what a browser has when the calls are made *)
Drawn(w, s, id, r, u) ==
    /\ WellRead(w) /\ ~w.inTag /\ w.depth = 0 /\ (w.good <=> Fine(id))
    /\ w.open = IF s = "written" THEN <<>> ELSE InBody
    /\ LET done == Selected(ShownUse, Seen(r, u))
       IN  /\ Len(w.cells) = Len(done)
           /\ \A k \in 1..Len(done) :
                 /\ RightCell(w.cells[k], done[k])
                 /\ (\A j \in 1..k - 1 : ~LeavesOpen(done[j])) => Alone(w.cells[k], done[k])

(* what the lexer carries over from the uses so far *)
Carried(r, u, state) ==
    /\ state \in LexerState
    /\ LET done == Selected(ShownUse, Seen(r, u))
       IN  (\A j \in 1..Len(done) : ~LeavesOpen(done[j])) => state = Fresh

(* how many links to a line there are then *)
Linked(s, d, e, r, u, f, l) ==
    IF s = "extract" THEN 0 ELSE NbOf(AtLine(f, l), d) + NbOf(AtLine(f, l), e) + NbOf(Uses(f, l), Seen(r, u))

NbOut(f, l) == NbMarks(stream, FileLink(f, l)) + NbLinks(calls, FileLink(f, l))

InPlace ==
    /\ WriterInv /\ symbol \in SymbolId
    /\ TakenOut(Rows(symbol), refs, decls, defs)
    /\ Placed(stage, refs, use, last)
    /\ Drawn(Shown, stage, symbol, refs, use)
    /\ Carried(refs, use, lexer)
    /\ \A f, l : NbOut(f, l) = Linked(stage, decls, defs, refs, use, f, l)

SymbolInv ==
    /\ stage = "none" => decls = <<>> /\ defs = <<>> /\ use = 1 /\ last = 0 /\ lexer = Fresh
    /\ stage \in {"extract", "uses", "written"} => InPlace

LEMMA InitSymbol == PagesInit => SymbolInv
  BY DEF PagesInit, SymbolPageInit, SymbolInv

(* The rows of a symbol are those of the table, and their columns start at 1. *)
LEMMA RowsOfSymbol ==
    ASSUME RowsInv, NEW id
    PROVE  Rows(id) \in Seq(Row) /\ \A k \in DOMAIN Rows(id) : Rows(id)[k].col # 0
<1> DEFINE S == {row \in Range(db) : row.symbol = id}
           C == {row \in Row : row.col # 0}
           q == Selected(S, db)
<1>1. db \in Seq(Row) /\ \A k \in DOMAIN db : db[k].col # 0
  BY PageAssumption, SymbolPageAssumption DEF RowsInv
<1>2. db \in Seq(C)
  <2>1. \A k \in DOMAIN db : db[k] \in C
    BY <1>1
  <2> HIDE DEF C
  <2> QED
    BY <1>1, <2>1
<1> HIDE DEF S, C
<1>3. q \in Seq(C \cap S)
  BY <1>2, SelectedType
<1> HIDE DEF q
<1>4. \A k \in DOMAIN q : q[k] \in C
  BY <1>3
<1>5. q \in Seq(C)
  BY <1>3
<1>6. C \subseteq Row
  BY DEF C
<1>7. q \in Seq(Row)
  BY <1>5, <1>6
<1>8. Rows(id) = q
  BY DEF Rows, q, S
<1> QED
  BY <1>4, <1>7, <1>8 DEF C

(* A list of calls adds its links. *)
LEMMA LinksHanded ==
    ASSUME WriterInv, Idle, NEW list, AList(list), Calls(list), NEW f, NEW l
    PROVE  NbOut(f, l)' = NbOut(f, l) + NbLinks(list, FileLink(f, l)) /\ NbOut(f, l) \in Nat
<1> DEFINE e == FileLink(f, l)
<1>1. calls = <<>> /\ calls' = list /\ stream' = stream
  BY DEF Idle, Calls
<1>2. NbLinks(<<>>, e) = 0
  BY LinksOfOne
<1>3. NbMarks(stream, e) \in Nat /\ NbLinks(list, e) \in Nat
  BY LinksOfBoth DEF WriterInv
<1>4. NbOut(f, l) = NbMarks(stream, e) + NbLinks(calls, e)
  BY DEF NbOut
<1>5. NbOut(f, l)' = NbMarks(stream', e) + NbLinks(calls', e)
  BY DEF NbOut
<1> HIDE DEF e
<1>6. NbOut(f, l)' = NbMarks(stream, e) + NbLinks(list, e)
  BY <1>1, <1>5
<1>7. NbOut(f, l) = NbMarks(stream, e) + 0
  BY <1>1, <1>2, <1>4
<1> QED
  BY <1>3, <1>6, <1>7 DEF e

LEMMA PageBegun ==
    ASSUME TextInv, RowsInv, SymbolInv, NEW id \in SymbolId, StartSymbolPage(id), db' = db,
           UNCHANGED <<decls, defs, use, last, lexer>>
    PROVE  SymbolInv'
<1>1. /\ step = "written" /\ symbol' = id /\ stage' = "extract" /\ refs' = Rows(id)
      /\ elements' = <<>> /\ stream' = <<>> /\ calls' = StartCalls(id)
  BY DEF StartSymbolPage, PageWritten, StartCalls
<1>2. decls = <<>> /\ defs = <<>> /\ use = 1 /\ last = 0 /\ lexer = Fresh
  BY <1>1 DEF TextInv, SymbolInv
<1> DEFINE list == StartCalls(id)
           all == Rows(id)
           w == Followed("make", Unread, list)
<1>3. Goes(list, <<>>, FALSE, InBody, FALSE, Fine(id))
  BY GoesStart
<1>4. all \in Seq(Row) /\ \A k \in DOMAIN all : all[k].col # 0
  BY RowsOfSymbol
<1>5. Rows(symbol)' = all
  BY <1>1 DEF Rows
<1> HIDE DEF list, all
<1>6. AList(list) /\ Linkless(list)
  BY <1>3 DEF Goes, Linkless
<1>7. WellRead(w) /\ ~w.inTag /\ w.depth = 0 /\ w.open = InBody /\ w.cells = <<>> /\ (w.good <=> Fine(id))
  BY <1>3, UnreadIs DEF Goes
<1>8. ReadingOf(<<>>) = Unread
  <2>1. <<>> \in Seq({})
    OBVIOUS
  <2>2. ReadingOf(<<>>) = Followed("read", Unread, <<>>)
    BY <2>1, ReadingIs, Zenon
  <2> QED
    BY <2>2, FollowedNone
<1>9. Tidy(<<>>, Unread)
  <2>1. IsReading(Unread) /\ Unread.open = <<>> /\ ~Unread.inTag
    BY DEF IsReading, Fields, Unread
  <2> QED
    BY <2>1, ElementsAreLists DEF Tidy
<1>10. Reading' = Unread /\ calls' = list
  BY <1>1, <1>8 DEF Reading, list
<1>11. WriterInv'
  BY <1>1, <1>6, <1>9, <1>10, ElementsAreLists DEF WriterInv
<1>12. Shown' = w
  BY <1>10 DEF Shown
<1> HIDE DEF w
<1>13. TakenOut(Rows(symbol)', refs', decls', defs')
  <2>1. TakenOut(all, all, <<>>, <<>>)
    BY <1>4, NothingTaken
  <2> QED
    BY <1>1, <1>2, <1>5, <2>1 DEF all
<1>14. Placed(stage', refs', use', last')
  BY <1>1, <1>2 DEF Placed
<1>15. Drawn(Shown', stage', symbol', refs', use')
  <2>1. 1 \in 1..Len(all) + 1
    BY <1>4
  <2>2. Seen(all, 1) = <<>>
    BY <1>4, <2>1, SeenIs
  <2>3. Selected(ShownUse, <<>>) = <<>> /\ Len(<<>>) = 0
    BY SelectedEmpty
  <2>4. Drawn(w, "extract", id, all, 1)
    BY <1>7, <2>2, <2>3 DEF Drawn
  <2> QED
    BY <1>1, <1>2, <1>12, <2>4 DEF all
<1>18. Carried(refs', use', lexer')
  <2>1. lexer' = Fresh /\ Fresh \in LexerState
    BY <1>2, LexerAssumption
  <2> QED
    BY <2>1 DEF Carried
<1>16. ASSUME NEW f, NEW l PROVE NbOut(f, l)' = Linked(stage', decls', defs', refs', use', f, l)
  <2>1. NbMarks(<<>>, FileLink(f, l)) = 0
    BY LinksOfOne
  <2>2. NbLinks(list, FileLink(f, l)) = 0
    BY <1>6, LinklessIs
  <2>3. NbOut(f, l)' = 0 + 0
    BY <1>1, <1>10, <2>1, <2>2 DEF NbOut
  <2> QED
    BY <1>1, <2>3 DEF Linked
<1>17. InPlace'
  BY <1>1, <1>11, <1>13, <1>14, <1>15, <1>16, <1>18 DEF InPlace
<1> QED
  BY <1>1, <1>17 DEF SymbolInv

LEMMA PageKept ==
    ASSUME InPlace, UNCHANGED <<db, symbol, stage, refs, decls, defs, use, last, lexer>>, WriterInv', Shown' = Shown,
           \A f, l : NbOut(f, l)' = NbOut(f, l)
    PROVE  InPlace'
<1>1. Rows(symbol)' = Rows(symbol)
  BY DEF Rows
<1>2. TakenOut(Rows(symbol)', refs', decls', defs')
  BY <1>1 DEF InPlace
<1>3. ASSUME NEW f, NEW l PROVE NbOut(f, l)' = Linked(stage', decls', defs', refs', use', f, l)
  BY DEF InPlace
<1>4. Placed(stage', refs', use', last') /\ Drawn(Shown', stage', symbol', refs', use') /\ Carried(refs', use', lexer')
  BY DEF InPlace
<1> QED
  BY <1>2, <1>3, <1>4 DEF InPlace

LEMMA StillWriter ==
    ASSUME WriterInv, UNCHANGED xmlVars
    PROVE  WriterInv' /\ Shown' = Shown /\ (Idle => Idle') /\ \A f, l : NbOut(f, l)' = NbOut(f, l)
<1>1. UNCHANGED <<elements, stream, calls>>
  BY DEF xmlVars
<1>2. Reading' = Reading
  BY <1>1 DEF Reading
<1> QED
  BY <1>1, <1>2 DEF WriterInv, Shown, Idle, NbOut

LEMMA PageExtracted ==
    ASSUME SymbolInv, ExtractOne, db' = db
    PROVE  SymbolInv'
<1>1. /\ stage = "extract" /\ Found # {} /\ stage' = stage
      /\ UNCHANGED <<symbol, use, last, lexer>> /\ UNCHANGED xmlVars
  BY DEF ExtractOne, xmlVars
<1>2. InPlace
  BY <1>1 DEF SymbolInv
<1>3. refs \in Seq(Row)
  BY <1>2 DEF InPlace, TakenOut
<1>4. PICK k \in Found : k = Min(Found)
  <2>1. Found \subseteq Nat
    BY <1>3 DEF Found
  <2>2. \E k \in Found : \A j \in Found : k <= j
    BY <1>1, <2>1, Least
  <2>3. Min(Found) \in Found
    BY <2>2 DEF Min
  <2> QED
    BY <2>3
<1>5. k \in DOMAIN refs /\ IsDeclOrDef(refs[k])
  BY DEF Found
<1>6. /\ refs' = RemoveAt(refs, k)
      /\ \/ decls' = Append(decls, refs[k]) /\ defs' = defs
         \/ decls' = decls /\ defs' = Append(defs, refs[k])
  BY <1>4 DEF ExtractOne
<1>7. Rows(symbol)' = Rows(symbol)
  BY <1>1 DEF Rows
<1>8. /\ TakenOut(Rows(symbol), RemoveAt(refs, k), Append(decls, refs[k]), defs)
      /\ TakenOut(Rows(symbol), RemoveAt(refs, k), decls, Append(defs, refs[k]))
  <2> DEFINE all == Rows(symbol)
  <2>1. TakenOut(all, refs, decls, defs)
    BY <1>2 DEF InPlace
  <2> HIDE DEF all
  <2>2. /\ TakenOut(all, RemoveAt(refs, k), Append(decls, refs[k]), defs)
        /\ TakenOut(all, RemoveAt(refs, k), decls, Append(defs, refs[k]))
    BY <1>5, <2>1, OneTaken
  <2> QED
    BY <2>2 DEF all
<1>9. TakenOut(Rows(symbol)', refs', decls', defs')
  <2>1. CASE decls' = Append(decls, refs[k]) /\ defs' = defs
    BY <1>6, <1>7, <1>8, <2>1
  <2>2. CASE decls' = decls /\ defs' = Append(defs, refs[k])
    BY <1>6, <1>7, <1>8, <2>2
  <2> QED
    BY <1>6, <2>1, <2>2
<1>10. WriterInv' /\ Shown' = Shown /\ \A f, l : NbOut(f, l)' = NbOut(f, l)
  BY <1>1, <1>2, StillWriter DEF InPlace
<1>11. Placed(stage', refs', use', last') /\ use = 1
  BY <1>1, <1>2 DEF InPlace, Placed
<1>12. Seen(refs', 1) = Seen(refs, 1)
  <2>1. refs' \in Seq(Row)
    BY <1>9 DEF TakenOut
  <2>2. 1 \in 1..Len(refs) + 1 /\ 1 \in 1..Len(refs') + 1
    BY <1>3, <2>1
  <2>3. Seen(refs, 1) = <<>>
    BY <1>3, <2>2, SeenIs
  <2> DEFINE q == refs'
  <2>4. Seen(q, 1) = <<>>
    <3> HIDE DEF q
    <3>1. q \in Seq(Row) /\ 1 \in 1..Len(q) + 1
      BY <2>1, <2>2 DEF q
    <3> QED
      BY <3>1, SeenIs
  <2> QED
    BY <2>3, <2>4
<1>13. Drawn(Shown', stage', symbol', refs', use')
  <2>1. Drawn(Shown, stage, symbol, refs, 1)
    BY <1>2, <1>11 DEF InPlace
  <2>2. Drawn(Shown, stage, symbol, refs', 1)
    BY <1>12, <2>1 DEF Drawn
  <2> QED
    BY <1>1, <1>10, <1>11, <2>2
<1>16. Carried(refs', use', lexer')
  <2>1. Carried(refs, 1, lexer)
    BY <1>2, <1>11 DEF InPlace
  <2>2. Carried(refs', 1, lexer)
    BY <1>12, <2>1 DEF Carried
  <2> QED
    BY <1>1, <1>11, <2>2
<1>14. \A f, l : NbOut(f, l)' = Linked(stage', decls', defs', refs', use', f, l)
  BY <1>1, <1>2, <1>10 DEF InPlace, Linked
<1>15. InPlace'
  BY <1>1, <1>2, <1>9, <1>10, <1>11, <1>13, <1>14, <1>16 DEF InPlace
<1> QED
  BY <1>1, <1>15 DEF SymbolInv

(* What a list does that leads back to where it is. *)
LEMMA DrawnOn ==
    ASSUME NEW w, NEW s, NEW id, NEW r, NEW u, Drawn(w, s, id, r, u), s # "written",
           NEW list, Leads(list, InBody, FALSE, InBody, FALSE), NEW t, t # "written"
    PROVE  Drawn(Followed("make", w, list), t, id, r, u)
<1> DEFINE v == Followed("make", w, list)
<1>1. WellRead(w) /\ ~w.inTag /\ w.depth = 0 /\ w.open = InBody /\ (w.good <=> Fine(id))
  BY DEF Drawn
<1>2. WellRead(v) /\ ~v.inTag /\ v.depth = 0 /\ v.open = InBody /\ v.cells = w.cells /\ (v.good <=> w.good)
  BY <1>1 DEF Leads
<1> HIDE DEF v
<1>3. Drawn(v, t, id, r, u)
  BY <1>1, <1>2 DEF Drawn
<1> QED
  BY <1>3 DEF v

LEMMA SectionsWritten ==
    ASSUME SymbolInv, WriteSections, db' = db
    PROVE  SymbolInv'
<1> DEFINE list == SectionCalls(decls, defs, refs)
           rows == decls \o defs
<1>1. /\ stage = "extract" /\ stage' = "uses" /\ Found = {} /\ Idle /\ Calls(list)
      /\ UNCHANGED <<symbol, refs, decls, defs, use, last, lexer>>
  BY DEF WriteSections, SectionCalls, Section
<1>2. InPlace
  BY <1>1 DEF SymbolInv
<1>3. refs \in Seq(Row) /\ decls \in Seq(Row) /\ defs \in Seq(Row)
  BY <1>2 DEF InPlace, TakenOut
<1>4. Refers(list, InBody, FALSE, InBody, FALSE, rows)
  BY <1>3, ElementsAreLists, SectionsRefer
<1>5. AList(list) /\ \A f, l : NbLinks(list, FileLink(f, l)) = Len(Selected(AtLine(f, l), rows))
  BY <1>4 DEF Refers, Links
<1>6. \A S : Len(Selected(S, rows)) = NbOf(S, decls) + NbOf(S, defs)
  <2> TAKE S
  <2> DEFINE p == Selected(S, decls)
             q == Selected(S, defs)
  <2>1. Selected(S, rows) = p \o q
    BY <1>3, SelectedConcat
  <2>2. p \in Seq(Row \cap S) /\ q \in Seq(Row \cap S)
    BY <1>3, SelectedType
  <2> HIDE DEF p, q, rows
  <2>3. Len(p \o q) = Len(p) + Len(q)
    BY <2>2
  <2> QED
    BY <2>1, <2>3 DEF NbOf, p, q
<1> HIDE DEF list, rows
<1>7. WriterInv' /\ Shown' = Followed("make", Shown, list)
  BY <1>1, <1>2, <1>5, Handed DEF InPlace
<1>8. Rows(symbol)' = Rows(symbol)
  BY <1>1 DEF Rows
<1>9. Placed(stage', refs', use', last') /\ use = 1
  <2>1. use = 1 /\ last = 0
    BY <1>1, <1>2 DEF InPlace, Placed
  <2>2. 0 \in 0..Len(refs) /\ 1 \in 1..0 + 1 /\ \A k \in 1..0 : refs[k].file = Page
    BY <1>3
  <2>3. \A k \in DOMAIN refs : ~IsDeclOrDef(refs[k])
    BY <1>1 DEF Found
  <2> QED
    BY <1>1, <2>1, <2>2, <2>3 DEF Placed
<1>10. Drawn(Shown', stage', symbol', refs', use')
  <2>1. Drawn(Shown, "extract", symbol, refs, use)
    BY <1>1, <1>2 DEF InPlace
  <2>2. Leads(list, InBody, FALSE, InBody, FALSE)
    BY <1>4 DEF Refers
  <2>3. "extract" # "written" /\ "uses" # "written"
    OBVIOUS
  <2>4. Drawn(Followed("make", Shown, list), "uses", symbol, refs, use)
    BY <2>1, <2>2, <2>3, DrawnOn
  <2> QED
    BY <1>1, <1>7, <2>4
<1>11. ASSUME NEW f, NEW l PROVE NbOut(f, l)' = Linked(stage', decls', defs', refs', use', f, l)
  <2> DEFINE A == AtLine(f, l)
             U == Uses(f, l)
  <2>1. NbOut(f, l)' = NbOut(f, l) + NbLinks(list, FileLink(f, l)) /\ NbOut(f, l) \in Nat
    BY <1>1, <1>2, <1>5, LinksHanded DEF InPlace
  <2>2. NbOut(f, l) = 0
    BY <1>1, <1>2 DEF InPlace, Linked
  <2>3. NbLinks(list, FileLink(f, l)) = NbOf(A, decls) + NbOf(A, defs)
    BY <1>5, <1>6
  <2>4. NbOf(U, Seen(refs, 1)) = 0
    <3>1. 1 \in 1..Len(refs) + 1
      BY <1>3
    <3>2. Seen(refs, 1) = <<>> /\ Len(<<>>) = 0
      BY <1>3, <3>1, SeenIs
    <3>3. Selected(U, <<>>) = <<>>
      BY SelectedEmpty
    <3> QED
      BY <3>2, <3>3 DEF NbOf
  <2>5. NbOf(A, decls) \in Nat /\ NbOf(A, defs) \in Nat
    BY <1>3, SelectedCount DEF NbOf
  <2>6. Linked("uses", decls, defs, refs, 1, f, l) = NbOf(A, decls) + NbOf(A, defs) + NbOf(U, Seen(refs, 1))
    BY DEF Linked
  <2> HIDE DEF A, U
  <2>7. NbOut(f, l)' = Linked("uses", decls, defs, refs, 1, f, l)
    BY <2>1, <2>2, <2>3, <2>4, <2>5, <2>6
  <2> QED
    BY <1>1, <1>9, <2>7
<1>12. TakenOut(Rows(symbol)', refs', decls', defs') /\ symbol' \in SymbolId
  BY <1>1, <1>2, <1>8 DEF InPlace
<1>14. Carried(refs', use', lexer')
  BY <1>1, <1>2 DEF InPlace
<1>13. InPlace'
  BY <1>14, <1>7, <1>9, <1>10, <1>11, <1>12 DEF InPlace
<1> QED
  BY <1>1, <1>13 DEF SymbolInv

(* The references of a file are in a row. *)
LEMMA RunEndIs ==
    ASSUME refs \in Seq(Row), use \in 1..Len(refs)
    PROVE  /\ RunEnd \in use..Len(refs)
           /\ \A k \in use..RunEnd : refs[k].file = refs[use].file
<1> DEFINE T == {k \in use..Len(refs) : \A j \in use..k : refs[j].file = refs[use].file}
           n == Len(refs)
<1>1. n \in Nat /\ use \in Nat /\ use \in use..n /\ use..n \subseteq Nat /\ \A j \in use..use : j = use
  OBVIOUS
<1>2. T \subseteq Nat /\ use \in T /\ \A j \in T : j <= n
  BY <1>1
<1>3. PICK k \in T : \A j \in T : j <= k
  <2> HIDE DEF T, n
  <2>1. T # {}
    BY <1>2
  <2> QED
    BY <1>1, <1>2, <2>1, Greatest
<1>4. k < n => refs[k + 1].file # refs[use].file
  <2> SUFFICES ASSUME k < n, refs[k + 1].file = refs[use].file PROVE FALSE
    OBVIOUS
  <2>1. k + 1 \in use..n /\ \A j \in use..k + 1 : j \in use..k \/ j = k + 1
    BY <1>1
  <2>2. k + 1 \in T
    BY <2>1
  <2>3. ~(k + 1 <= k)
    BY <1>1
  <2> QED
    BY <1>3, <2>2, <2>3
<1>5. /\ k \in use..Len(refs) /\ \A j \in use..k : refs[j].file = refs[use].file
      /\ k < Len(refs) => refs[k + 1].file # refs[use].file
  BY <1>4
<1> QED
  BY <1>5 DEF RunEnd

LEMMA FileBegun ==
    ASSUME SymbolInv, BeginUsesInFile, db' = db
    PROVE  SymbolInv'
<1> DEFINE list == FileHeading
<1>1. /\ stage = "uses" /\ stage' = stage /\ use = last + 1 /\ use <= Len(refs) /\ Idle /\ Calls(list)
      /\ refs[use].file = Page /\ last' = RunEnd /\ lexer' = Fresh
      /\ UNCHANGED <<symbol, refs, decls, defs, use>>
  BY DEF BeginUsesInFile, AtFile, FileHeading
<1>2. InPlace
  BY <1>1 DEF SymbolInv
<1>3. refs \in Seq(Row)
  BY <1>2 DEF InPlace, TakenOut
<1>4. Goes(list, InBody, FALSE, InBody, FALSE, TRUE)
  BY ElementsAreLists, GoesFileHeading
<1> HIDE DEF list
<1>5. AList(list) /\ Linkless(list) /\ Leads(list, InBody, FALSE, InBody, FALSE)
  BY <1>4, LedWhereGoes
<1>6. WriterInv' /\ Shown' = Followed("make", Shown, list)
  BY <1>1, <1>2, <1>5, Handed DEF InPlace
<1>7. Rows(symbol)' = Rows(symbol)
  BY <1>1 DEF Rows
<1>8. last \in 0..Len(refs) /\ \A k \in DOMAIN refs : ~IsDeclOrDef(refs[k])
  BY <1>1, <1>2 DEF InPlace, Placed
<1>9. Placed(stage', refs', use', last')
  <2>1. use \in 1..Len(refs)
    BY <1>1, <1>3, <1>8
  <2>2. RunEnd \in use..Len(refs) /\ \A k \in use..RunEnd : refs[k].file = refs[use].file
    BY <1>3, <2>1, RunEndIs
  <2> DEFINE z == RunEnd
  <2> HIDE DEF z
  <2>3. z \in use..Len(refs) /\ \A k \in use..z : refs[k].file = Page
    BY <1>1, <2>2 DEF z
  <2>4. z \in 0..Len(refs) /\ use \in 1..z + 1
    BY <1>3, <2>1, <2>3
  <2>5. Placed("uses", refs, use, z)
    BY <1>8, <2>3, <2>4 DEF Placed
  <2> QED
    BY <1>1, <2>5 DEF z
<1>10. Drawn(Shown', stage', symbol', refs', use')
  <2>1. Drawn(Shown, "uses", symbol, refs, use)
    BY <1>1, <1>2 DEF InPlace
  <2>2. "uses" # "written"
    OBVIOUS
  <2>3. Drawn(Followed("make", Shown, list), "uses", symbol, refs, use)
    BY <1>5, <2>1, <2>2, DrawnOn
  <2> QED
    BY <1>1, <1>6, <2>3
<1>11. ASSUME NEW f, NEW l PROVE NbOut(f, l)' = Linked(stage', decls', defs', refs', use', f, l)
  <2>1. NbOut(f, l)' = NbOut(f, l) + NbLinks(list, FileLink(f, l)) /\ NbOut(f, l) \in Nat
    BY <1>1, <1>2, <1>5, LinksHanded DEF InPlace
  <2>2. NbLinks(list, FileLink(f, l)) = 0
    BY <1>5, LinklessIs
  <2>3. NbOut(f, l) = Linked(stage, decls, defs, refs, use, f, l)
    BY <1>2 DEF InPlace
  <2>4. NbOut(f, l)' = NbOut(f, l)
    BY <2>1, <2>2
  <2> QED
    BY <1>1, <2>3, <2>4
<1>12. TakenOut(Rows(symbol)', refs', decls', defs') /\ symbol' \in SymbolId
  BY <1>1, <1>2, <1>7 DEF InPlace
<1>14. Carried(refs', use', lexer')
  BY <1>1, LexerAssumption DEF Carried
<1>13. InPlace'
  BY <1>14, <1>6, <1>9, <1>10, <1>11, <1>12 DEF InPlace
<1> QED
  BY <1>1, <1>13 DEF SymbolInv

LEMMA FileSkipped ==
    ASSUME SymbolInv, SkipUsesInFile, db' = db
    PROVE  SymbolInv'
<1> DEFINE z == RunEnd
<1>1. /\ stage = "uses" /\ stage' = stage /\ use = last + 1 /\ use <= Len(refs)
      /\ refs[use].file # Page /\ last' = z /\ use' = z + 1
      /\ UNCHANGED <<symbol, refs, decls, defs, lexer>> /\ UNCHANGED xmlVars
  BY DEF SkipUsesInFile, AtFile, xmlVars
<1>2. InPlace
  BY <1>1 DEF SymbolInv
<1>3. refs \in Seq(Row)
  BY <1>2 DEF InPlace, TakenOut
<1>4. last \in 0..Len(refs) /\ \A k \in DOMAIN refs : ~IsDeclOrDef(refs[k])
  BY <1>1, <1>2 DEF InPlace, Placed
<1>5. use \in 1..Len(refs)
  BY <1>1, <1>3, <1>4
<1>6. z \in use..Len(refs) /\ \A k \in use..z : refs[k].file # Page
  BY <1>1, <1>3, <1>5, RunEndIs
<1> HIDE DEF z
<1>7. WriterInv' /\ Shown' = Shown /\ \A f, l : NbOut(f, l)' = NbOut(f, l)
  BY <1>1, <1>2, StillWriter DEF InPlace
<1>8. Rows(symbol)' = Rows(symbol)
  BY <1>1 DEF Rows
<1>9. Placed(stage', refs', use', last')
  <2>1. z \in 0..Len(refs) /\ z + 1 \in 1..z + 1 /\ \A k \in z + 1..z : FALSE
    BY <1>3, <1>5, <1>6
  <2>2. Placed("uses", refs, z + 1, z)
    BY <1>4, <2>1 DEF Placed
  <2> QED
    BY <1>1, <2>2
<1>10. ASSUME NEW S, \A x \in S : x.file = Page
       PROVE  Selected(S, Seen(refs, z + 1)) = Selected(S, Seen(refs, use))
  <2>1. use \in 1..Len(refs) + 1 /\ z \in use - 1..Len(refs)
    BY <1>3, <1>5, <1>6
  <2>2. \A k \in use..z : refs[k] \notin S
    BY <1>6, <1>10
  <2> QED
    BY <1>3, <2>1, <2>2, SeenPast
<1>11. Drawn(Shown', stage', symbol', refs', use')
  <2>1. Drawn(Shown, "uses", symbol, refs, use)
    BY <1>1, <1>2 DEF InPlace
  <2>2. Selected(ShownUse, Seen(refs, z + 1)) = Selected(ShownUse, Seen(refs, use))
    BY <1>10 DEF ShownUse
  <2>3. Drawn(Shown, "uses", symbol, refs, z + 1)
    BY <2>1, <2>2 DEF Drawn
  <2> QED
    BY <1>1, <1>7, <2>3
<1>12. ASSUME NEW f, NEW l PROVE NbOut(f, l)' = Linked(stage', decls', defs', refs', use', f, l)
  <2>1. Selected(Uses(f, l), Seen(refs, z + 1)) = Selected(Uses(f, l), Seen(refs, use))
    BY <1>10 DEF Uses
  <2>2. Linked("uses", decls, defs, refs, z + 1, f, l) = Linked("uses", decls, defs, refs, use, f, l)
    BY <2>1 DEF Linked, NbOf
  <2>3. NbOut(f, l) = Linked("uses", decls, defs, refs, use, f, l)
    BY <1>1, <1>2 DEF InPlace
  <2>4. NbOut(f, l)' = NbOut(f, l)
    BY <1>7
  <2> QED
    BY <1>1, <2>2, <2>3, <2>4
<1>13. TakenOut(Rows(symbol)', refs', decls', defs') /\ symbol' \in SymbolId
  BY <1>1, <1>2, <1>8 DEF InPlace
<1>15. Carried(refs', use', lexer')
  <2>1. Carried(refs, use, lexer)
    BY <1>2 DEF InPlace
  <2>2. Selected(ShownUse, Seen(refs, z + 1)) = Selected(ShownUse, Seen(refs, use))
    BY <1>10 DEF ShownUse
  <2>3. Carried(refs, z + 1, lexer)
    BY <2>1, <2>2 DEF Carried
  <2> QED
    BY <1>1, <1>7, <2>3
<1>14. InPlace'
  BY <1>15, <1>7, <1>9, <1>11, <1>12, <1>13 DEF InPlace
<1> QED
  BY <1>1, <1>14 DEF SymbolInv

LEMMA OneRow ==
    ASSUME NEW x \in Row, NEW S
    PROVE  Len(Selected(S, <<x>>)) = IF x \in S THEN 1 ELSE 0
<1> DEFINE one == <<x>>
<1>1. one \in Seq(Row) /\ Len(one) = 1 /\ DOMAIN one = 1..1 /\ one[1] = x /\ Len(<<>>) = 0
  OBVIOUS
<1> HIDE DEF one
<1>2. \A k \in DOMAIN one : one[k] = x
  BY <1>1
<1>3. CASE x \in S
  <2>1. Selected(S, one) = one
    BY <1>1, <1>2, <1>3, SelectedAll
  <2> QED
    BY <1>1, <1>3, <2>1 DEF one
<1>4. CASE x \notin S
  <2>1. Selected(S, one) = <<>>
    BY <1>1, <1>2, <1>4, SelectedNone
  <2> QED
    BY <1>1, <1>4, <2>1 DEF one
<1> QED
  BY <1>3, <1>4

(* The uses seen so far, once another is. *)
LEMMA UseSeen ==
    ASSUME NEW r \in Seq(Row), NEW u \in 1..Len(r), r[u] \in ShownUse
    PROVE  LET done == Selected(ShownUse, Seen(r, u))
               more == Celled(done, r[u])
               n    == Len(done)
           IN  /\ Selected(ShownUse, Seen(r, u + 1)) = more /\ Len(more) = n + 1 /\ n \in Nat
               /\ more[n + 1] = r[u] /\ \A k \in 1..n : more[k] = done[k]
<1> DEFINE x == r[u]
           done == Selected(ShownUse, Seen(r, u))
           more == Celled(done, x)
           n == Len(done)
<1>1. x \in Row /\ u \in 1..Len(r) + 1
  OBVIOUS
<1>6. Selected(ShownUse, Seen(r, u + 1)) = more
  <2>1. Seen(r, u + 1) = Chained(Seen(r, u), <<x>>)
    BY SeenMore
  <2>2. Seen(r, u) \in Seq(Row)
    BY <1>1, SeenIs
  <2> DEFINE p == Seen(r, u)
  <2> HIDE DEF p, x
  <2>3. Chained(p, <<x>>) = Append(p, x)
    BY <1>1, <2>2, AppendIsConcat DEF Chained, p
  <2>4. Selected(ShownUse, Append(p, x)) = IF x \in ShownUse THEN Append(Selected(ShownUse, p), x) ELSE Selected(ShownUse, p)
    BY <1>1, <2>2, SelectedAppend DEF p
  <2>5. x \in ShownUse
    BY DEF x
  <2> QED
    BY <2>1, <2>3, <2>4, <2>5 DEF Celled, p
<1>7. AList(done)
  <2>1. Seen(r, u) \in Seq(Row)
    BY <1>1, SeenIs
  <2>2. done \in Seq(Row \cap ShownUse)
    BY <2>1, SelectedType
  <2> QED
    BY <2>2 DEF AList
<1>8. Selected(ShownUse, Seen(r, u + 1)) = more
  BY <1>6
<1> HIDE DEF done, more, n, x
<1>9. Len(more) = n + 1 /\ n \in Nat /\ more[n + 1] = x /\ \A k \in 1..n : more[k] = done[k]
  BY <1>7, CelledIs DEF more, n
<1> QED
  BY <1>8, <1>9 DEF more, done, n, x

LEMMA DrawnMore ==
    ASSUME NEW w, NEW id, NEW r \in Seq(Row), NEW u \in 1..Len(r), Drawn(w, "uses", id, r, u),
           IsThere(r[u]), r[u].col # 0, r[u] \in ShownUse, Carried(r, u, lexer)
    PROVE  Drawn(Followed("make", w, UseCalls(r[u])), "uses", id, r, u + 1)
<1> DEFINE v == Followed("make", w, UseCalls(r[u]))
           x == r[u]
           done == Selected(ShownUse, Seen(r, u))
           more == Celled(done, x)
           cell == CellOf(x)
           n == Len(done)
<1>1. x \in Row /\ u \in 1..Len(r) + 1
  OBVIOUS
<1>2. WellRead(w) /\ ~w.inTag /\ w.depth = 0 /\ w.open = InBody /\ (w.good <=> Fine(id))
  BY DEF Drawn
<1>3. /\ Len(w.cells) = n
      /\ \A k \in 1..n :
            /\ RightCell(w.cells[k], done[k])
            /\ (\A j \in 1..k - 1 : ~LeavesOpen(done[j])) => Alone(w.cells[k], done[k])
  BY DEF Drawn
<1>4. /\ WellRead(v) /\ ~v.inTag /\ v.depth = 0 /\ v.open = InBody
      /\ v.cells = Celled(w.cells, cell) /\ (v.good <=> w.good)
  <2> HIDE DEF x
  <2>1. LET s == Followed("make", w, UseCalls(x))
        IN  /\ WellRead(s) /\ ~s.inTag /\ s.depth = 0 /\ s.open = InBody
            /\ s.cells = Celled(w.cells, CellOf(x)) /\ (s.good <=> w.good)
    <3>1. x \in Row /\ IsThere(x) /\ x.col # 0 /\ lexer \in LexerState
      BY <1>1 DEF x, Carried
    <3> DEFINE o == InBody
    <3>2. AList(o)
      BY ElementsAreLists
    <3> HIDE DEF o
    <3>3. \A y : WellRead(y) /\ ~y.inTag /\ y.depth = 0 /\ y.open = o =>
              LET s == Followed("make", y, UseCalls(x))
              IN  /\ WellRead(s) /\ ~s.inTag /\ s.depth = 0 /\ s.open = o
                  /\ s.cells = Celled(y.cells, CellOf(x)) /\ (s.good <=> y.good)
      BY <3>1, <3>2, UseWritten
    <3> QED
      BY <1>2, <3>3 DEF o
  <2> QED
    BY <2>1 DEF x
<1>5. RightCell(cell, x) /\ ((\A j \in 1..n : ~LeavesOpen(done[j])) => Alone(cell, x))
  <2>1. lexer \in LexerState /\ ((\A j \in 1..n : ~LeavesOpen(done[j])) => lexer = Fresh)
    BY DEF Carried
  <2>2. RightCell(cell, x) /\ (lexer = Fresh => Alone(cell, x))
    BY <1>1, <2>1, CellIsRight
  <2> HIDE DEF x, done, cell, n
  <2> QED
    BY <2>1, <2>2
<1>6. /\ Selected(ShownUse, Seen(r, u + 1)) = more /\ Len(more) = n + 1 /\ n \in Nat
      /\ more[n + 1] = x /\ \A k \in 1..n : more[k] = done[k]
  BY UseSeen
<1>8. AList(w.cells)
  BY <1>2 DEF WellRead
<1> DEFINE cells == w.cells
           now == Celled(cells, cell)
<1> HIDE DEF v, x, done, more, cell, n, cells, now
<1>10. Len(now) = n + 1 /\ now[n + 1] = cell /\ \A k \in 1..n : now[k] = cells[k]
  BY <1>3, <1>8, CelledIs DEF now, cells
<1>11. \A k \in 1..n + 1 :
          /\ RightCell(now[k], more[k])
          /\ (\A j \in 1..k - 1 : ~LeavesOpen(more[j])) => Alone(now[k], more[k])
  <2> TAKE k \in 1..n + 1
  <2>1. CASE k = n + 1
    <3>1. \A j \in 1..n : j \in 1..k - 1 /\ more[j] = done[j]
      BY <1>6, <2>1
    <3> QED
      BY <1>5, <1>6, <1>10, <2>1, <3>1
  <2>2. CASE k # n + 1
    <3>1. k \in 1..n /\ \A j \in 1..k - 1 : j \in 1..n
      BY <1>6, <2>2
    <3>2. now[k] = cells[k] /\ more[k] = done[k] /\ \A j \in 1..k - 1 : more[j] = done[j]
      BY <1>6, <1>10, <3>1
    <3>3. /\ RightCell(cells[k], done[k])
          /\ (\A j \in 1..k - 1 : ~LeavesOpen(done[j])) => Alone(cells[k], done[k])
      BY <1>3, <3>1 DEF cells
    <3> QED
      BY <3>2, <3>3
  <2> QED
    BY <2>1, <2>2
<1>12. v.cells = now
  BY <1>4 DEF now, cells
<1>13. Drawn(v, "uses", id, r, u + 1)
  <2>1. /\ Len(v.cells) = Len(more)
        /\ \A k \in 1..Len(more) :
              /\ RightCell(v.cells[k], more[k])
              /\ (\A j \in 1..k - 1 : ~LeavesOpen(more[j])) => Alone(v.cells[k], more[k])
    BY <1>6, <1>10, <1>11, <1>12
  <2> QED
    BY <1>2, <1>4, <1>6, <2>1 DEF Drawn
<1> QED
  BY <1>13 DEF v

LEMMA UseAdded ==
    ASSUME SymbolInv, WriteUse, db' = db
    PROVE  SymbolInv'
<1> DEFINE x == refs[use]
           list == UseCalls(x)
           next == use + 1
<1>1. /\ stage = "uses" /\ stage' = stage /\ use <= last /\ Idle /\ IsThere(x) /\ Calls(list)
      /\ use' = next /\ lexer' = LexerBehind(x) /\ UNCHANGED <<symbol, refs, decls, defs, last>>
  BY DEF WriteUse, AtUse, UseCalls, CellStart
<1>2. InPlace
  BY <1>1 DEF SymbolInv
<1>3. refs \in Seq(Row) /\ \A k \in DOMAIN refs : refs[k].col # 0
  BY <1>2 DEF InPlace, TakenOut
<1>4. /\ last \in 0..Len(refs) /\ use \in 1..last + 1 /\ \A k \in use..last : refs[k].file = Page
      /\ \A k \in DOMAIN refs : ~IsDeclOrDef(refs[k])
  BY <1>1, <1>2 DEF InPlace, Placed
<1>5. use \in 1..Len(refs) /\ use \in use..last
  BY <1>1, <1>3, <1>4
<1>6. x \in Row /\ x.col # 0 /\ x.file = Page /\ ~IsDeclOrDef(x) /\ x \in ShownUse
  <2>1. x \in Row /\ x.col # 0 /\ x.file = Page /\ ~IsDeclOrDef(x)
    BY <1>3, <1>4, <1>5
  <2> QED
    BY <2>1 DEF ShownUse
<1>7. Drawn(Followed("make", Shown, list), "uses", symbol, refs, next)
  <2>1. Drawn(Shown, "uses", symbol, refs, use)
    BY <1>1, <1>2 DEF InPlace
  <2>2. Carried(refs, use, lexer)
    BY <1>2 DEF InPlace
  <2> QED
    BY <1>1, <1>3, <1>5, <1>6, <2>1, <2>2, DrawnMore
<1>18. lexer \in LexerState
  BY <1>2 DEF InPlace, Carried
<1>8. Links(list, <<x>>)
  <2> HIDE DEF x
  <2> QED
    BY <1>1, <1>6, <1>18, ElementsAreLists, UseWritten
<1>9. AList(list) /\ \A f, l : NbLinks(list, FileLink(f, l)) = Len(Selected(AtLine(f, l), <<x>>))
  BY <1>8 DEF Links
<1>10. \A S : NbOf(S, Seen(refs, next)) = NbOf(S, Seen(refs, use)) + (IF x \in S THEN 1 ELSE 0)
  BY <1>3, <1>5, SeenMore
<1>19. Carried(refs, next, LexerBehind(x))
  <2> DEFINE done == Selected(ShownUse, Seen(refs, use))
             more == Celled(done, x)
             n == Len(done)
  <2>1. /\ Selected(ShownUse, Seen(refs, next)) = more /\ Len(more) = n + 1 /\ n \in Nat
        /\ more[n + 1] = x /\ \A k \in 1..n : more[k] = done[k]
    BY <1>3, <1>5, <1>6, UseSeen
  <2>2. (\A j \in 1..n : ~LeavesOpen(done[j])) => lexer = Fresh
    BY <1>2 DEF InPlace, Carried
  <2> HIDE DEF done, more, n, x, list
  <2>3. LexerBehind(x) \in LexerState
    BY <1>1, <1>6, <1>18, TokenFound DEF LexerBehind
  <2>4. ASSUME \A j \in 1..n + 1 : ~LeavesOpen(more[j]) PROVE LexerBehind(x) = Fresh
    <3>1. \A j \in 1..n : j \in 1..n + 1 /\ more[j] = done[j]
      BY <2>1
    <3>2. n + 1 \in 1..n + 1
      BY <2>1
    <3>3. lexer = Fresh /\ ~LeavesOpen(x)
      BY <2>1, <2>2, <2>4, <3>1, <3>2
    <3> QED
      BY <3>3 DEF LexerBehind, LeavesOpen, FoundToken
  <2> QED
    BY <2>1, <2>3, <2>4 DEF Carried
<1> HIDE DEF list, x
<1>11. WriterInv' /\ Shown' = Followed("make", Shown, list)
  BY <1>1, <1>2, <1>9, Handed DEF InPlace
<1>12. Rows(symbol)' = Rows(symbol)
  BY <1>1 DEF Rows
<1>13. Placed(stage', refs', use', last')
  <2>1. next \in 1..last + 1 /\ \A k \in next..last : k \in use..last
    BY <1>3, <1>4, <1>5
  <2>2. Placed("uses", refs, next, last)
    BY <1>4, <2>1 DEF Placed
  <2> QED
    BY <1>1, <2>2
<1>14. Drawn(Shown', stage', symbol', refs', use')
  BY <1>1, <1>7, <1>11
<1>15. ASSUME NEW f, NEW l PROVE NbOut(f, l)' = Linked(stage', decls', defs', refs', use', f, l)
  <2> DEFINE A == AtLine(f, l)
             U == Uses(f, l)
             a == NbOf(A, decls)
             b == NbOf(A, defs)
             c == NbOf(U, Seen(refs, use))
             d == NbOf(U, Seen(refs, next))
             k == IF x \in U THEN 1 ELSE 0
  <2>1. NbOut(f, l)' = NbOut(f, l) + NbLinks(list, FileLink(f, l)) /\ NbOut(f, l) \in Nat
    BY <1>1, <1>2, <1>9, LinksHanded DEF InPlace
  <2>2. NbLinks(list, FileLink(f, l)) = k
    <3>1. x \in A <=> x \in U
      BY <1>6 DEF AtLine, Uses
    <3>2. Len(Selected(A, <<x>>)) = IF x \in A THEN 1 ELSE 0
      BY <1>6, OneRow
    <3> QED
      BY <1>9, <3>1, <3>2
  <2>3. NbOut(f, l) = a + b + c
    BY <1>1, <1>2 DEF InPlace, Linked
  <2>4. d = c + k
    BY <1>10
  <2>5. a \in Nat /\ b \in Nat /\ c \in Nat /\ k \in Nat
    <3>1. decls \in Seq(Row) /\ defs \in Seq(Row)
      BY <1>2 DEF InPlace, TakenOut
    <3>2. a \in Nat /\ b \in Nat
      BY <3>1, SelectedCount DEF NbOf
    <3>3. use \in 1..Len(refs) + 1
      BY <1>5
    <3>4. c \in Nat
      BY <1>3, <3>3, SeenIs
    <3> QED
      BY <3>2, <3>4
  <2>6. Linked("uses", decls, defs, refs, next, f, l) = a + b + d
    BY DEF Linked
  <2> HIDE DEF a, b, c, d, k
  <2>7. NbOut(f, l)' = a + b + d
    BY <2>1, <2>2, <2>3, <2>4, <2>5
  <2> QED
    BY <1>1, <2>6, <2>7
<1>16. TakenOut(Rows(symbol)', refs', decls', defs') /\ symbol' \in SymbolId
  BY <1>1, <1>2, <1>12 DEF InPlace
<1>20. Carried(refs', use', lexer')
  BY <1>1, <1>19
<1>17. InPlace'
  BY <1>20, <1>11, <1>13, <1>14, <1>15, <1>16 DEF InPlace
<1> QED
  BY <1>1, <1>17 DEF SymbolInv

LEMMA SymbolPageEnded ==
    ASSUME SymbolInv, EndSymbolPage, db' = db
    PROVE  SymbolInv'
<1> DEFINE list == End \o End
<1>1. /\ stage = "uses" /\ stage' = "written" /\ use = last + 1 /\ use > Len(refs) /\ Idle /\ Calls(list)
      /\ UNCHANGED <<symbol, refs, decls, defs, use, last, lexer>>
  BY DEF EndSymbolPage
<1>2. InPlace
  BY <1>1 DEF SymbolInv
<1>3. Goes(list, InBody, FALSE, <<>>, FALSE, TRUE)
  <2>1. AList(<<>>) /\ AList(InHtml)
    BY ElementsAreLists
  <2>2. Goes(End, InBody, FALSE, InHtml, FALSE, TRUE)
    BY <2>1, GoesOut DEF InBody
  <2>3. Goes(End, InHtml, FALSE, <<>>, FALSE, TRUE)
    BY <2>1, GoesOut DEF InHtml
  <2> QED
    BY <2>2, <2>3, GoesWell
<1> HIDE DEF list
<1>4. AList(list) /\ Linkless(list)
  BY <1>3, LedWhereGoes
<1>5. WriterInv' /\ Shown' = Followed("make", Shown, list)
  BY <1>1, <1>2, <1>4, Handed DEF InPlace
<1>6. Placed(stage', refs', use', last')
  <2>1. last \in 0..Len(refs) /\ \A k \in DOMAIN refs : ~IsDeclOrDef(refs[k])
    BY <1>1, <1>2 DEF InPlace, Placed
  <2>2. refs \in Seq(Row)
    BY <1>2 DEF InPlace, TakenOut
  <2>3. use = Len(refs) + 1
    BY <1>1, <2>1, <2>2
  <2> QED
    BY <1>1, <2>1, <2>3 DEF Placed
<1>7. Drawn(Shown', stage', symbol', refs', use')
  <2> DEFINE w == Shown
             v == Followed("make", w, list)
  <2>1. Drawn(w, "uses", symbol, refs, use)
    BY <1>1, <1>2 DEF InPlace
  <2> HIDE DEF w
  <2>2. WellRead(w) /\ ~w.inTag /\ w.depth = 0 /\ w.open = InBody
    BY <2>1 DEF Drawn
  <2>3. WellRead(v) /\ ~v.inTag /\ v.depth = 0 /\ v.open = <<>> /\ v.cells = w.cells /\ (v.good <=> w.good)
    BY <1>3, <2>2 DEF Goes
  <2> HIDE DEF v
  <2>4. Drawn(v, "written", symbol, refs, use)
    BY <2>1, <2>3 DEF Drawn
  <2> QED
    BY <1>1, <1>5, <2>4 DEF v, w
<1>8. ASSUME NEW f, NEW l PROVE NbOut(f, l)' = Linked(stage', decls', defs', refs', use', f, l)
  <2>1. NbOut(f, l)' = NbOut(f, l) + NbLinks(list, FileLink(f, l)) /\ NbOut(f, l) \in Nat
    BY <1>1, <1>2, <1>4, LinksHanded DEF InPlace
  <2>2. NbLinks(list, FileLink(f, l)) = 0
    BY <1>4, LinklessIs
  <2>3. NbOut(f, l)' = NbOut(f, l)
    BY <2>1, <2>2
  <2>4. NbOut(f, l) = Linked("uses", decls, defs, refs, use, f, l)
    BY <1>1, <1>2 DEF InPlace
  <2>5. Linked("uses", decls, defs, refs, use, f, l) = Linked("written", decls, defs, refs, use, f, l)
    BY DEF Linked
  <2> QED
    BY <1>1, <2>3, <2>4, <2>5
<1>9. Rows(symbol)' = Rows(symbol)
  BY <1>1 DEF Rows
<1>10. TakenOut(Rows(symbol)', refs', decls', defs') /\ symbol' \in SymbolId
  BY <1>1, <1>2, <1>9 DEF InPlace
<1>12. Carried(refs', use', lexer')
  BY <1>1, <1>2 DEF InPlace
<1>11. InPlace'
  BY <1>12, <1>5, <1>6, <1>7, <1>8, <1>10 DEF InPlace
<1> QED
  BY <1>1, <1>11 DEF SymbolInv

LEMMA NothingElse ==
    ASSUME SymbolInv, UNCHANGED symbolVars, db' = db, UNCHANGED xmlVars
    PROVE  SymbolInv'
<1>1. UNCHANGED <<symbol, stage, refs, decls, defs, use, last, lexer>>
  BY DEF symbolVars
<1>2. CASE stage \in {"extract", "uses", "written"}
  <2>1. InPlace
    BY <1>2 DEF SymbolInv
  <2>2. WriterInv' /\ Shown' = Shown /\ \A f, l : NbOut(f, l)' = NbOut(f, l)
    BY <2>1, StillWriter DEF InPlace
  <2>3. InPlace'
    BY <1>1, <2>1, <2>2, PageKept
  <2> QED
    BY <1>1, <1>2, <2>3 DEF SymbolInv
<1>3. CASE stage \notin {"extract", "uses", "written"}
  BY <1>1, <1>3 DEF SymbolInv
<1> QED
  BY <1>2, <1>3

LEMMA NextSymbol == RowsInv /\ TextInv /\ SymbolInv /\ Step => SymbolInv'
<1> SUFFICES ASSUME RowsInv, TextInv, SymbolInv, Step PROVE SymbolInv'
  OBVIOUS
<1>1. CASE UNCHANGED <<tableVars, pageVars, symbolVars>>
  <2>1. UNCHANGED symbolVars /\ db' = db /\ UNCHANGED xmlVars
    BY <1>1 DEF pageVars
  <2> QED
    BY <2>1, NothingElse
<1>2. CASE SymbolPageNext
  <2>0. db' = db
    BY <1>2 DEF SymbolPageNext
  <2>1. ASSUME NEW id \in SymbolId, StartSymbolPage(id) PROVE SymbolInv'
    <3>1. UNCHANGED <<decls, defs, use, last, lexer>>
      BY <2>1 DEF StartSymbolPage
    <3> QED
      BY <2>0, <2>1, <3>1, PageBegun
  <2>2. CASE ExtractOne
    BY <2>0, <2>2, PageExtracted
  <2>3. CASE WriteSections
    BY <2>0, <2>3, SectionsWritten
  <2>4. CASE BeginUsesInFile
    BY <2>0, <2>4, FileBegun
  <2>5. CASE SkipUsesInFile
    BY <2>0, <2>5, FileSkipped
  <2>6. CASE WriteUse
    BY <2>0, <2>6, UseAdded
  <2>7. CASE FailUse
    <3>1. stage' = "failed"
      BY <2>7 DEF FailUse
    <3> QED
      BY <3>1 DEF SymbolInv
  <2>8. CASE EndSymbolPage
    BY <2>0, <2>8, SymbolPageEnded
  <2> QED
    BY <1>2, <2>1, <2>2, <2>3, <2>4, <2>5, <2>6, <2>7, <2>8 DEF SymbolPageNext
<1>3. CASE PageNext /\ UNCHANGED symbolVars
  <2>1. UNCHANGED <<symbol, stage, refs, decls, defs, use, last, lexer>>
    BY <1>3 DEF symbolVars
  <2>2. CASE stage \notin {"extract", "uses", "written"}
    BY <2>1, <2>2 DEF SymbolInv
  <2>3. CASE stage \in {"extract", "uses", "written"}
    <3>1. step = "symbols" /\ InPlace
      BY <2>3 DEF TextInv, SymbolInv
    <3>2. CASE FillTable
      <4>1. db' = db /\ UNCHANGED xmlVars
        BY <3>2 DEF FillTable, pageVars
      <4> QED
        BY <1>3, <4>1, NothingElse
    <3>3. CASE MakeCall
      <4>1. XmlNext /\ db' = db
        BY <3>3 DEF MakeCall
      <4>2. WriterInv
        BY <3>1 DEF InPlace
      <4>3. WriterInv' /\ Shown' = Shown
        BY <4>1, <4>2, CallMade
      <4>4. \A f, l : NbOut(f, l)' = NbOut(f, l)
        BY <4>1, <4>2, LinksPutOut DEF NbOut
      <4>5. InPlace'
        BY <2>1, <3>1, <4>1, <4>3, <4>4, PageKept
      <4> QED
        BY <2>1, <2>3, <4>5 DEF SymbolInv
    <3> QED
      BY <1>3, <3>1, <3>2, <3>3
      DEF PageNext, Load, Simplify, EraseTail, WriteHead, BeginLine, EndLine, WritePage, WriteInclude,
          WriteReference, ReadPastEnd, WriteToken, AtToken
  <2> QED
    BY <2>2, <2>3
<1> QED
  BY <1>1, <1>2, <1>3 DEF Step, PagesNext

LEMMA NbOfBoth ==
    ASSUME NEW H, NEW U, NEW W, \A x \in Row : (x \in W <=> x \in H \/ x \in U) /\ ~(x \in H /\ x \in U),
           NEW q \in Seq(Row)
    PROVE  NbOf(W, q) = NbOf(H, q) + NbOf(U, q)
<1> DEFINE T == {s \in Seq(Row) : NbOf(W, s) = NbOf(H, s) + NbOf(U, s)}
<1>1. <<>> \in T
  <2>1. <<>> \in Seq(Row) /\ Len(<<>>) = 0
    OBVIOUS
  <2>2. \A S : NbOf(S, <<>>) = 0
    BY <2>1, SelectedEmpty DEF NbOf
  <2> QED
    BY <2>1, <2>2
<1>2. ASSUME NEW s \in Seq(Row), s \in T, NEW x \in Row PROVE Append(s, x) \in T
  <2>1. \A S : /\ Append(s, x) \in Seq(Row) /\ NbOf(S, s) \in Nat
               /\ NbOf(S, Append(s, x)) = NbOf(S, s) + (IF x \in S THEN 1 ELSE 0)
    BY Counted
  <2>2. NbOf(W, s) = NbOf(H, s) + NbOf(U, s)
    BY <1>2
  <2> DEFINE more == Append(s, x)
  <2>3. /\ NbOf(W, more) = NbOf(W, s) + (IF x \in W THEN 1 ELSE 0) /\ NbOf(W, s) \in Nat
        /\ NbOf(H, more) = NbOf(H, s) + (IF x \in H THEN 1 ELSE 0) /\ NbOf(H, s) \in Nat
        /\ NbOf(U, more) = NbOf(U, s) + (IF x \in U THEN 1 ELSE 0) /\ NbOf(U, s) \in Nat
        /\ more \in Seq(Row)
    BY <2>1
  <2> HIDE DEF more
  <2>4. (x \in W <=> x \in H \/ x \in U) /\ ~(x \in H /\ x \in U)
    OBVIOUS
  <2>5. NbOf(W, more) = NbOf(H, more) + NbOf(U, more)
    BY <2>2, <2>3, <2>4
  <2> QED
    BY <2>3, <2>5 DEF more
<1> HIDE DEF T
<1>3. Seq(Row) \subseteq T
  BY <1>1, <1>2, SeqByInduction
<1> QED
  BY <1>3 DEF T

(* Once the calls are made, the links are the attributes of the stream. *)
LEMMA LinksAre ==
    ASSUME WriterInv, Idle, NEW f, NEW l
    PROVE  Cardinality(LinksTo(f, l)) = NbOut(f, l)
<1> DEFINE e == FileLink(f, l)
           q == MarkTargets(stream)
<1>1. <<>> # e
  <2>1. Len(<<>>) = 0 /\ Len(e) = 3
    BY DEF FileLink
  <2> QED
    BY <2>1
<1>2. AList(stream)
  BY DEF WriterInv
<1>3. DOMAIN stream = 1..Len(stream)
  BY <1>2, ListFacts2
<1>4. LinksTo(f, l) = PlacesOf(e, q)
  <2>1. DOMAIN q = DOMAIN stream /\ \A k \in DOMAIN stream : q[k] = MarkTarget(stream[k])
    BY <1>3 DEF MarkTargets
  <2>2. \A m : MarkTarget(m) = e <=> m.kind = "attribute" /\ m.what.name = "href" /\ m.what.value = <<"file", f, l>>
    <3>1. \A m : MarkTarget(m) = (IF m.kind = "attribute" /\ m.what.name = "href" THEN m.what.value ELSE <<>>)
      BY DEF MarkTarget
    <3>2. e = <<"file", f, l>>
      BY DEF FileLink
    <3> HIDE DEF e
    <3>3. \A m : MarkTarget(m) = e <=> m.kind = "attribute" /\ m.what.name = "href" /\ m.what.value = e
      BY <1>1, <3>1
    <3> QED
      BY <3>2, <3>3
  <2> HIDE DEF q, e
  <2> QED
    BY <2>1, <2>2, Zenon DEF LinksTo, PlacesOf
<1>5. NbOut(f, l) = NbMarks(stream, e) + 0 /\ NbMarks(stream, e) \in Nat
  <2>1. NbLinks(<<>>, e) = 0
    BY LinksOfOne
  <2>2. NbMarks(stream, e) \in Nat
    BY <1>2, LinksOfBoth
  <2>3. calls = <<>>
    BY DEF Idle
  <2> QED
    BY <2>1, <2>2, <2>3 DEF NbOut
<1>6. NbMarks(stream, e) = Cardinality(PlacesOf(e, q))
  BY DEF NbMarks
<1> HIDE DEF e, q
<1> QED
  BY <1>4, <1>5, <1>6

LEMMA SymbolThen == SymbolInv => SymbolPageIsRight
<1> SUFFICES ASSUME SymbolInv, stage = "written", Idle PROVE SymbolPageIsRight
  BY DEF SymbolPageIsRight
<1> DEFINE rows == Rows(symbol)
           n == Len(refs) + 1
           done == Selected(ShownUse, refs)
           wanted(f, l) == {r \in Row : r.file = f /\ r.line = l /\ (IsDeclOrDef(r) \/ f = Page)}
<1>1. InPlace
  BY DEF SymbolInv
<1>2. Shown = Reading
  BY FollowedNone DEF Shown, Idle
<1>3. TakenOut(rows, refs, decls, defs)
  BY <1>1 DEF InPlace
<1>4. rows \in Seq(Row) /\ refs \in Seq(Row) /\ decls \in Seq(Row) /\ defs \in Seq(Row)
  BY <1>3 DEF TakenOut
<1>5. use = n /\ \A k \in DOMAIN refs : ~IsDeclOrDef(refs[k])
  BY <1>1 DEF InPlace, Placed
<1>6. Seen(refs, n) = refs
  <2>1. Len(refs) + 1 \in 1..Len(refs) + 1
    BY <1>4
  <2> QED
    BY <1>4, <2>1, SeenIs
<1>7. /\ Reading.open = <<>> /\ (Reading.good <=> Fine(symbol))
      /\ Len(Reading.cells) = Len(done)
      /\ \A k \in 1..Len(done) :
            /\ RightCell(Reading.cells[k], done[k])
            /\ (\A j \in 1..k - 1 : ~LeavesOpen(done[j])) => Alone(Reading.cells[k], done[k])
  <2>1. Drawn(Reading, "written", symbol, refs, n)
    BY <1>1, <1>2, <1>5 DEF InPlace
  <2> QED
    BY <1>6, <2>1 DEF Drawn
<1>8. done = Selected(ShownUse, rows)
  <2>1. \A x \in ShownUse : ~IsDeclOrDef(x)
    BY DEF ShownUse
  <2> QED
    BY <1>3, <2>1 DEF TakenOut
<1>9. DOMAIN done = 1..Len(done)
  <2>1. done \in Seq(Row \cap ShownUse)
    BY <1>4, SelectedType
  <2> HIDE DEF done
  <2> QED
    BY <2>1
<1>10. ASSUME NEW f, NEW l PROVE Cardinality(LinksTo(f, l)) = NbOf(wanted(f, l), rows)
  <2> DEFINE A == AtLine(f, l)
             H == Heads(f, l)
             U == Uses(f, l)
             W == wanted(f, l)
  <2>1. Cardinality(LinksTo(f, l)) = NbOf(A, decls) + NbOf(A, defs) + NbOf(U, refs)
    <3>1. Cardinality(LinksTo(f, l)) = NbOut(f, l)
      BY <1>1, LinksAre DEF InPlace
    <3>2. NbOut(f, l) = Linked("written", decls, defs, refs, n, f, l)
      BY <1>1, <1>5 DEF InPlace
    <3> QED
      BY <1>6, <3>1, <3>2 DEF Linked
  <2>2. NbOf(A, decls) + NbOf(A, defs) + NbOf(H, refs) = NbOf(H, rows)
    BY <1>3 DEF TakenOut
  <2>3. NbOf(H, refs) = 0
    <3>1. \A k \in DOMAIN refs : refs[k] \notin H
      BY <1>5 DEF Heads
    <3> HIDE DEF H
    <3>2. Selected(H, refs) = <<>> /\ Len(<<>>) = 0
      BY <1>4, <3>1, SelectedNone
    <3> QED
      BY <3>2 DEF NbOf
  <2>4. NbOf(U, refs) = NbOf(U, rows)
    <3>1. \A x \in U : ~IsDeclOrDef(x)
      BY DEF Uses
    <3> HIDE DEF U
    <3> QED
      BY <1>3, <3>1 DEF TakenOut, NbOf
  <2>5. \A x \in Row : (x \in W <=> x \in H \/ x \in U) /\ ~(x \in H /\ x \in U)
    BY DEF Heads, Uses
  <2>6. \A S : NbOf(S, decls) \in Nat /\ NbOf(S, defs) \in Nat
    BY <1>4, SelectedCount DEF NbOf
  <2>7. NbOf(A, decls) \in Nat /\ NbOf(A, defs) \in Nat
    BY <2>6
  <2> HIDE DEF A, H, U, W, rows
  <2>8. NbOf(W, rows) = NbOf(H, rows) + NbOf(U, rows)
    BY <1>4, <2>5, NbOfBoth
  <2>9. Cardinality(LinksTo(f, l)) = NbOf(W, rows)
    BY <2>1, <2>2, <2>3, <2>4, <2>7, <2>8
  <2> QED
    BY <2>9 DEF W
<1>11. ASSUME NEW row \in Range(rows)
       PROVE  Cardinality(LinksTo(row.file, row.line))
                  = Cardinality({k \in DOMAIN rows :
                        /\ rows[k].file = row.file /\ rows[k].line = row.line
                        /\ IsDeclOrDef(rows[k]) \/ row.file = Page})
  <2> DEFINE W == wanted(row.file, row.line)
             P == {k \in DOMAIN rows : rows[k] \in W}
  <2>1. P = {k \in DOMAIN rows :
                /\ rows[k].file = row.file /\ rows[k].line = row.line
                /\ IsDeclOrDef(rows[k]) \/ row.file = Page}
    <3>1. \A k \in DOMAIN rows : rows[k] \in Row
      BY <1>4
    <3> HIDE DEF rows
    <3> QED
      BY <3>1
  <2>2. Cardinality(LinksTo(row.file, row.line)) = NbOf(W, rows)
    BY <1>10
  <2> HIDE DEF W, rows
  <2>3. Cardinality(P) = Len(Selected(W, rows))
    BY <1>4, SelectedCount
  <2> QED
    BY <2>1, <2>2, <2>3 DEF NbOf
<1>12. Selected({row \in Range(rows) : ~IsDeclOrDef(row) /\ row.file = Page}, rows) = done
  <2> DEFINE S == {row \in Range(rows) : ~IsDeclOrDef(row) /\ row.file = Page}
  <2>1. \A k \in DOMAIN rows : rows[k] \in S <=> rows[k] \in ShownUse
    <3>1. \A k \in DOMAIN rows : rows[k] \in Row /\ rows[k] \in Range(rows)
      BY <1>4 DEF Range
    <3> HIDE DEF rows
    <3> QED
      BY <3>1 DEF ShownUse
  <2> HIDE DEF S, rows
  <2>2. Selected(S, rows) = Selected(ShownUse, rows)
    BY <1>4, <2>1, SelectedAlike
  <2> QED
    BY <1>8, <2>2 DEF S, rows
<1>13. ASSUME NEW k \in DOMAIN done
       PROVE  LET l == done[k].line
                  set == Selected({c \in Range(Reading.cells[k]) : c.in = "span"}, Reading.cells[k])
                  off == [c \in DOMAIN set |-> set[c].char]
              IN  IF "implicit" \in done[k].flags
                  THEN CellText(k) = LineText(l) /\ set = <<>>
                  ELSE \A t \in DOMAIN Tokens[l] :
                          Tokens[l][t].col + 1 = done[k].col /\ Tokens[l][t].type \in NameType =>
                              /\ CellText(k) = LineText(l)
                              /\ \E end \in done[k].col..Lengths[l] : off = SubSeq(LineText(l), done[k].col, end)
                              /\ (\A j \in 1..k - 1 : ~LeavesOpen(done[j])) => off = TokenText(l, t)
  <2>1. /\ RightCell(Reading.cells[k], done[k])
        /\ (\A j \in 1..k - 1 : ~LeavesOpen(done[j])) => Alone(Reading.cells[k], done[k])
    BY <1>7, <1>9
  <2>2. CellText(k) = Text(Reading.cells[k])
    BY DEF CellText, Text
  <2> DEFINE x == done[k]
             cell == Reading.cells[k]
             closed == \A j \in 1..k - 1 : ~LeavesOpen(done[j])
  <2> HIDE DEF done, x, closed
  <2>3. Off(cell) = Selected({c \in Range(cell) : c.in = "span"}, cell)
    BY DEF Off
  <2>4. Text(Off(cell)) = [c \in DOMAIN Off(cell) |-> Off(cell)[c].char]
    BY DEF Text
  <2>5. "implicit" \in x.flags => CellText(k) = LineText(x.line) /\ Off(cell) = <<>>
    BY <2>1, <2>2 DEF RightCell, x
  <2>6. ASSUME "implicit" \notin x.flags, NEW t \in DOMAIN Tokens[x.line],
               Tokens[x.line][t].col + 1 = x.col, Tokens[x.line][t].type \in NameType
        PROVE  /\ CellText(k) = LineText(x.line)
               /\ \E end \in x.col..Lengths[x.line] : Text(Off(cell)) = SubSeq(LineText(x.line), x.col, end)
               /\ closed => Text(Off(cell)) = TokenText(x.line, t)
    <3>1. NameAt(x, t)
      BY <2>6 DEF NameAt
    <3> QED
      BY <2>1, <2>2, <2>6, <3>1 DEF RightCell, Alone, x, closed
  <2> HIDE DEF cell
  <2> QED
    BY <2>3, <2>4, <2>5, <2>6 DEF x, closed, cell
<1>14. ReadsWell = (symbol \notin Angled /\ Related(symbol) \cap Quoted = {})
  <2>1. ReadsWell <=> Fine(symbol)
    BY <1>7 DEF ReadsWell
  <2> QED
    BY <2>1 DEF ReadsWell, Fine
<1> HIDE DEF done, rows
<1> QED
  BY <1>7, <1>11, <1>12, <1>13, <1>14, ZenonT(40) DEF SymbolPageIsRight, rows

(* The page of a symbol is right whatever the rows, in whatever order they come, and whatever
   the lexer carries over from one use to the next: extracting moves each declaration and
   definition once (extract_decl_and_defs in symbolpage.cpp), the uses of a file without a
   content are passed and no other (writeUses and writeUsesInFile), what is cut out of a line
   begins at the column and is the token there unless a use before has left something open,
   the rest of the line is around it (writeUsesInFile), every link goes to the line of its row, and only a name that is not escaped
   breaks the page (writeSummary). *)
THEOREM SymbolPageAlwaysRight == PagesSpec => []SymbolPageIsRight
<1> DEFINE Inv == TextInv /\ SymbolInv
<1>1. PagesInit => Inv
  BY InitText, InitSymbol
<1>2. RowsInv /\ Inv /\ [PagesNext]_<<tableVars, pageVars, symbolVars>> => Inv'
  BY NextText, NextSymbol DEF Step
<1>3. Inv => SymbolPageIsRight
  BY SymbolThen
<1> HIDE DEF Inv
<1> QED
  BY <1>1, <1>2, <1>3, RowsStay, PTL DEF PagesSpec
=============================================================================
