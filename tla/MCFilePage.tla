----------------------------- MODULE MCFilePage -----------------------------
(***************************************************************************)
(* A class, its constructor, its destructor and a function, in a file of   *)
(* four lines, the second an #include and the last one without a token.    *)
(* The third begins with a tab and ends in a comment that is left open,    *)
(* and there are blanks at the end of the first and in the last.  The rows *)
(* are taken from a pool that puts two references at one place, one        *)
(* between two tokens, one at the name of a destructor, a destructor at    *)
(* the last token of a line and one whose '~' is apart, one on a line the  *)
(* file has not any more and one in a file without content.                *)
(***************************************************************************)
EXTENDS SymbolPage

CONSTANTS MaxRows,  \* bound: how many rows a unit brings
          MaxMore   \* bound: how many a second unit finds

MCSymbolId == 0..4
MCKind == [id \in MCSymbolId |-> <<"other", "class", "ctor", "dtor", "class">>[id + 1]]

(* the function is an operator"" with two classes in it, one the base of the other *)
MCParentOf == [id \in MCSymbolId |-> <<5, 0, 1, 1, 0>>[id + 1]]
MCBaseRows == << <<1, 4>> >>
MCNbFlags == [id \in MCSymbolId |-> IF id = 1 THEN 1 ELSE 0]
MCAngled == {2}
MCPlace == [file : 1..2, line : 1..3, col : 1..6]

Tok(column, width, type) == [col |-> column, width |-> width, type |-> type]
MCTokens ==
    << <<Tok(0, 1, "keyword"), Tok(1, 2, "plain"), Tok(5, 1, "plain")>>,
       <<Tok(0, 2, "include")>>,
       <<Tok(1, 1, "type"), Tok(3, 1, "plain"), Tok(4, 2, "comment")>>,
       <<>> >>
MCLengths == <<8, 2, 6, 1>>
MCBlanks == {<<1, 8>>, <<3, 1>>}
MCIncludes == <<2>>
MCIncluders == << <<2, 1>> >>
MCQuoted == {0}

R(file, l, c, id, flags) ==
    [file |-> file, line |-> l, col |-> c, symbol |-> id, flags |-> flags]
Pool ==
    {R(1, 1, 1, 3, {"declaration"}), R(1, 1, 2, 1, {}), R(1, 1, 6, 0, {}),
     R(1, 1, 6, 3, {"declaration"}), R(1, 1, 4, 0, {}), R(1, 1, 6, 2, {"definition", "implicit"}),
     R(1, 3, 2, 1, {}), R(1, 3, 2, 2, {"declaration"}), R(1, 3, 2, 2, {}), R(1, 3, 4, 1, {}),
     R(1, 3, 2, 3, {}), R(1, 5, 1, 1, {}),
     R(1, 3, 4, 0, {"definition"}), R(1, 3, 4, 1, {"declaration", "definition"}),
     R(2, 1, 1, 0, {"definition"})}

(* a comment is the only thing that a line leaves open *)
MCLexerState == {"fresh", "comment"}

(* what begins with this character or behind it, and what the line ends with *)
Behind(l, c) == {k \in DOMAIN MCTokens[l] : MCTokens[l][k].col + MCTokens[l][k].width >= c}

MCLexed(state, l, c) ==
    LET tokens == Behind(l, c)
        begin == MCTokens[l][Min(tokens)]
        final == MCTokens[l][Max(tokens)]
        end   == IF state = "comment" THEN final ELSE begin
    IN  IF tokens = {} THEN [first |-> 0, last |-> 0, after |-> state]
        ELSE [first |-> Max({c, begin.col + 1}), last |-> end.col + end.width,
              after |-> IF final.type = "comment" THEN "comment" ELSE state]

Before(r, s) ==
    \/ r.file < s.file
    \/ r.file = s.file /\ (r.line < s.line \/ (r.line = s.line /\ r.col <= s.col))

(* the rows a unit brings, in the order reduce() left them in *)
Sorted1(rows) == \A k \in 1..Len(rows) - 1 : Before(rows[k], rows[k + 1])
Distinct(rows) == \A j, k \in DOMAIN rows : j # k => rows[j] # rows[k]

OneUnit ==
    LET upTo[n \in 0..MaxRows] ==
            IF n = 0 THEN {<<>>}
            ELSE LET more == {Append(rows, r) : rows \in upTo[n - 1], r \in Pool}
                 IN  upTo[n - 1] \cup {rows \in more : Sorted1(rows) /\ Distinct(rows)}
    IN  upTo[MaxRows]

(* the rows of a second unit come behind those of the first *)
MCDatabase == {rows \o more : rows \in OneUnit, more \in SeqOf(Pool, MaxMore)}

MCInput ==
    SeqOf({[symbol |-> r.symbol, place |-> PlaceOf(r)] : r \in {r \in Pool : "definition" \in r.flags}},
          MaxRows + MaxMore)
=============================================================================
