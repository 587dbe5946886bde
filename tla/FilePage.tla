------------------------------ MODULE FilePage ------------------------------
(***************************************************************************)
(* How the exporter writes the page of a file: it builds the table of      *)
(* definitions (module DefinitionTable), loads the references of the file  *)
(* and drops some of them (exporter/src/filesema.cpp), then writes the     *)
(* file line by line and token by token, with an iterator in the list of   *)
(* includes and one in the list of references that follow the tokens       *)
(* (exporter/src/sourcehighlighter.cpp).                                   *)
(*                                                                         *)
(* What is written goes through the writer of module XmlWriter, call by    *)
(* call (exporter/src/filebrowser.cpp has the frame of the page).          *)
(*                                                                         *)
(* The tokens of a line are those of the cpptok library; the columns of a  *)
(* token start at 0 and those of a reference at 1, as in the code.  Other  *)
(* places start at 1 here, and the place after the last is the end of a    *)
(* list.  A file without contents has no page and is left out, and so are  *)
(* an included file that is unknown and a symbol of a kind without a class.*)
(***************************************************************************)
EXTENDS DefinitionTable, Selection, SequencesExt, XmlWriter

CONSTANTS Database,  \* the lists of rows that table symbolreference may hold
          Page,      \* the file whose page is written
          Kind,      \* of each symbol, what it is
          Quoted,    \* the symbols with a quote in their name, as operator"" has
          Tokens,    \* of each line of the file, its tokens
          Lengths,   \* and how many characters it has
          Blanks,    \* the places in the file, lines and columns, of blanks that are no space
          Includes,  \* the lines of the file that table include has
          Includers  \* where the file is included: files and lines

Row == [file : Nat, line : Nat, col : Nat, symbol : SymbolId,
        flags : SUBSET {"declaration", "definition", "implicit"}]

(* the element writeToken puts a token of each type in *)
Tag == [keyword |-> "b", type |-> "em", comment |-> "i", preproc |-> "u", literal |-> "var",
        include |-> "span", plain |-> "none"]

Token == [col : Nat, width : Nat \ {0}, type : DOMAIN Tag]

PlaceOf(row) == [file |-> row.file, line |-> row.line, col |-> row.col]

(* select_symboldefinition: the rows of the view symboldefinition *)
DefinitionsIn(rows) ==
    LET defs == Selected({row \in Range(rows) : "definition" \in row.flags}, rows)
    IN  [k \in DOMAIN defs |-> [symbol |-> defs[k].symbol, place |-> PlaceOf(defs[k])]]

ASSUME PageAssumption ==
    /\ Database \subseteq Seq(Row)
    /\ \A rows \in Database : DefinitionsIn(rows) \in Input
    /\ Kind \in [SymbolId -> {"class", "ctor", "dtor", "other"}]
    /\ Quoted \subseteq SymbolId
    /\ Tokens \in Seq(Seq(Token)) /\ Includes \in Seq(Nat)
    /\ \A l \in DOMAIN Tokens : \A j, k \in DOMAIN Tokens[l] :
          j < k => Tokens[l][j].col + Tokens[l][j].width <= Tokens[l][k].col
    /\ Includers \in Seq(Nat \X Nat)

EndOfLine(l) ==
    IF Tokens[l] = <<>> THEN 0
    ELSE LET last == Tokens[l][Len(Tokens[l])] IN last.col + last.width

(* a line may go on behind its last token *)
ASSUME LineAssumption ==
    /\ Lengths \in [DOMAIN Tokens -> Nat]
    /\ \A l \in DOMAIN Tokens : EndOfLine(l) <= Lengths[l]
    /\ Blanks \subseteq Nat \X Nat

Space == [tok |-> 0, at |-> 0]

(* a tab, a carriage return... *)
Blank == [tok |-> 0, at |-> 1]

(* a line of the file, character by character: those of its tokens and those around them *)
LineText(l) ==
    [c \in 1..Lengths[l] |->
        LET at == {k \in DOMAIN Tokens[l] :
                      Tokens[l][k].col < c /\ c <= Tokens[l][k].col + Tokens[l][k].width}
        IN  IF at # {} THEN LET k == CHOOSE k \in at : TRUE IN [tok |-> k, at |-> c - Tokens[l][k].col]
            ELSE IF <<l, c>> \in Blanks THEN Blank ELSE Space]

VARIABLES
    db,           \* the rows
    step,         \* where the page is; "symbols" is for module SymbolPage
    references,   \* sema.references
    read, write,  \* the iterators of simplify_ctor_and_class_references
    line,         \* m_current_line; 0 before the first line
    tok, col,     \* the next token of the line, and the column reached
    include,      \* the include iterator of current_line_sema, and its end
    reference,    \* its reference iterator
    notes         \* which token was written for which reference, with which link

listVars  == <<references, read, write>>
lineVars  == <<line, tok, col, include, reference>>
pageVars  == <<db, step, listVars, lineVars, notes, xmlVars>>
tableVars == vars

PageInit ==
    /\ Init
    /\ db \in Database /\ step = "load"
    /\ references = <<>> /\ read = 1 /\ write = 1
    /\ line = 0 /\ tok = 1 /\ col = 0
    /\ include = [at |-> 1, end |-> 1] /\ reference = include
    /\ notes = {} /\ XmlInit
-----------------------------------------------------------------------------
(* the table is built once, for all pages *)
FillTable ==
    /\ BuildFrom(DefinitionsIn(db)) \/ SameSymbol \/ NewSymbol \/ EndLoop
    /\ UNCHANGED pageVars

(* remove_implicit_references *)
Explicit(rows) == Selected({row \in Range(rows) : "implicit" \notin row.flags}, rows)

(* listReferencesInFile *)
InPage(rows) == Selected({row \in Range(rows) : row.file = Page}, rows)

Load ==
    /\ step = "load" /\ pc = "built"
    /\ references' = Explicit(InPage(db))
    /\ step' = "simplify"
    /\ UNCHANGED <<tableVars, db, read, write, lineVars, notes, xmlVars>>
-----------------------------------------------------------------------------
SamePlace(r, s) == r.line = s.line /\ r.col = s.col

IsDeclOrDef(r) == r.flags \cap {"declaration", "definition"} # {}

(* whether swap_if_needed_and_discard_first returns true, and whether it swaps *)
Discards(first, second) == {Kind[first.symbol], Kind[second.symbol]} = {"ctor", "class"}

(* mutant of Swaps: the two are never exchanged *)
NeverSwaps(first, second) == FALSE

Swaps(first, second) ==
    IF Kind[first.symbol] = "ctor" THEN IsDeclOrDef(first) ELSE ~IsDeclOrDef(second)

Swapped(refs, k) == [refs EXCEPT ![k] = refs[k + 1], ![k + 1] = refs[k]]

(* std::copy: the elements of refs from first up to last, last left out *)
Copied(refs, first, last) ==
    [k \in DOMAIN refs |->
        IF k \in write..write + (last - first) - 1 THEN refs[first + (k - write)] ELSE refs[k]]

(* an iteration leaves the elements from read up to last, and goes on at next *)
Keep(refs, last, next) ==
    /\ references' = Copied(refs, read, last)
    /\ write' = write + (last - read)
    /\ read' = next

(* std::adjacent_find *)
Adjacent == {k \in read..Len(references) - 1 : SamePlace(references[k], references[k + 1])}

Simplify ==
    /\ step = "simplify" /\ read <= Len(references)
    /\ \/ /\ Adjacent = {}
          /\ Keep(references, Len(references) + 1, Len(references) + 1)
       \/ /\ Adjacent # {}
          /\ LET it     == Min(Adjacent)
                 first  == references[it]
                 second == references[it + 1]
             IN  IF Discards(first, second)
                 THEN Keep(IF Swaps(first, second) THEN Swapped(references, it) ELSE references,
                           it, it + 1)
                 ELSE Keep(references, it + 1, it + 1)
    /\ UNCHANGED <<tableVars, db, step, lineVars, notes, xmlVars>>

(* refs.erase, and the lines can be written *)
EraseTail ==
    /\ step = "simplify" /\ read = Len(references) + 1
    /\ references' = SubSeq(references, 1, write - 1)
    /\ step' = "head"
    /\ UNCHANGED <<tableVars, db, read, write, lineVars, notes, xmlVars>>
-----------------------------------------------------------------------------
Title(text) == Element("head", <<>>) \o TextElement("title", <<>>, text)

Stylesheet(attributes) ==
    Element("link", attributes \o Attribute("rel", "stylesheet") \o Attribute("type", "text/css")
                    \o Attribute("href", <<"css">>)) \o End

(* a file that includes this one; the line is put to the stream itself *)
Includer(place) ==
    Element("li", <<>>) \o Element("a", Attribute("href", place))
        \o Characters(Words) \o Characters(Words) \o Bytes("number") \o End \o End

IncludeGraph ==
    IF Includers = <<>> THEN <<>>
    ELSE TextElement("h2", <<>>, Words) \o TextElement("p", <<>>, Words) \o Element("ul", <<>>)
            \o FlattenSeq([k \in DOMAIN Includers |-> Includer(Includers[k])]) \o End

(* generatePage and generate up to the lines *)
WriteHead ==
    /\ step = "head"
    /\ Calls(Bytes("markup") \o Element("html", <<>>) \o Title(Words)
              \o Stylesheet(Attribute("id", "codestylesheet")) \o Stylesheet(<<>>)
              \o Element("script", Attribute("type", "text/javascript"))
              \o Characters(Words) \o Characters(Words) \o Characters(Words) \o End
              \o TextElement("script", Attribute("type", "text/javascript") \o Attribute("src", "codenav.js"),
                             Words)
              \o End \o Element("body", <<>>) \o Element("div", Attribute("id", "content"))
              \o IncludeGraph \o TextElement("h2", <<>>, Words)
              \o Element("table", Attribute("class", "code") \o Attribute("file-id", Page))
              \o Element("tbody", <<>>))
    /\ step' = "line"
    /\ UNCHANGED <<tableVars, db, listVars, lineVars, notes>>
-----------------------------------------------------------------------------
(* std::find_if from place k: the first of these lines that is not before l *)
FindFrom(lines, k, l) ==
    LET found == {j \in k..Len(lines) : lines[j] >= l}
    IN  IF found = {} THEN Len(lines) + 1 ELSE Min(found)

ReferenceLines == [k \in DOMAIN references |-> references[k].line]

(* mutant of References: the search starts again behind the iterator *)
ReferencesSkipped(l) ==
    LET first == FindFrom(ReferenceLines, IF l = 1 THEN 1 ELSE reference.at + 1, l)
    IN  [at |-> first, end |-> FindFrom(ReferenceLines, first, l + 1)]

(* mutant of References: the range is not ended at the line *)
ReferencesToEnd(l) ==
    LET first == FindFrom(ReferenceLines, IF l = 1 THEN 1 ELSE reference.at, l)
    IN  [at |-> first, end |-> Len(references) + 1]

(* the references of line l; the first line looks for them from the start, another
   one from where the line before it stopped *)
References(l) ==
    LET first == FindFrom(ReferenceLines, IF l = 1 THEN 1 ELSE reference.at, l)
    IN  [at |-> first, end |-> FindFrom(ReferenceLines, first, l + 1)]

(* its includes; on the first line, the first include whatever its line *)
IncludesOf(l) ==
    LET first == FindFrom(Includes, IF l = 1 THEN 1 ELSE include.at, l)
    IN  [at  |-> first,
         end |-> IF l > 1 THEN FindFrom(Includes, first, l + 1)
                 ELSE IF first > Len(Includes) THEN first ELSE first + 1]

BeginLine ==
    /\ step = "line" /\ line < Len(Tokens) /\ Idle
    /\ line' = line + 1
    /\ reference' = References(line') /\ include' = IncludesOf(line')
    /\ tok' = 1 /\ col' = 0
    /\ Calls(Element("tr", <<>>) \o TextElement("th", Attribute("id", line'), Words) \o Element("td", <<>>))
    /\ step' = "tokens"
    /\ UNCHANGED <<tableVars, db, listVars, notes>>

EndLine ==
    /\ step = "tokens" /\ tok > Len(Tokens[line]) /\ Idle
    /\ Calls(End \o End)
    /\ step' = "line"
    /\ UNCHANGED <<tableVars, db, listVars, lineVars, notes>>

WritePage ==
    /\ step = "line" /\ line = Len(Tokens) /\ Idle
    /\ Calls(End \o End \o End \o End \o End)
    /\ step' = "written"
    /\ UNCHANGED <<tableVars, db, listVars, lineVars, notes>>
-----------------------------------------------------------------------------
This == Tokens[line][tok]

AtToken == step = "tokens" /\ tok <= Len(Tokens[line]) /\ Idle

(* insertPrecedingSpaces *)
Indented == IF col < This.col THEN This.col ELSE col

TokenText(l, k) == [j \in 1..Tokens[l][k].width |-> [tok |-> k, at |-> j]]

(* writeToken *)
TokenCalls(k) ==
    LET type == Tokens[line][k].type
        text == TokenText(line, k)
    IN  CASE type = "plain"   -> Characters(text)
          [] type = "include" -> TextElement(Tag[type], Attribute("class", "include"), text)
          [] OTHER            -> TextElement(Tag[type], <<>>, text)

(* n tokens inside an element, or in none; a space is written for each character since the
   token before, whatever it is, and before the first of the n only *)
Put(n, before, after) ==
    /\ Calls([k \in 1..Indented - col |-> Characters(<<Space>>)[1]] \o before
              \o TokenCalls(tok) \o (IF n = 2 THEN TokenCalls(tok + 1) ELSE <<>>) \o after)
    /\ tok' = tok + n
    /\ col' = Indented + This.width + (IF n = 2 THEN Tokens[line][tok + 1].width ELSE 0)

AtInclude ==
    /\ This.type = "include"
    /\ include.at # include.end /\ Includes[include.at] = line

AtReference ==
    /\ reference.at # reference.end
    /\ references[reference.at].col = Indented + 1

WriteInclude ==
    /\ AtToken /\ AtInclude
    /\ Put(1, Element("a", Attribute("class", "include") \o Attribute("href", <<"file">>)), End)
    /\ include' = [include EXCEPT !.at = @ + 1]
    /\ UNCHANGED <<tableVars, db, step, listVars, line, reference, notes>>

(* the definition the element of a reference links to, or NoEntry *)
Link(r) ==
    IF "definition" \notin r.flags /\ HasUniqueDefinition(r.symbol)
    THEN table[r.symbol] ELSE NoEntry

(* dfn, a or span, with its attributes *)
ReferenceElement(r) ==
    Element(CASE "definition" \in r.flags -> "dfn" [] Link(r) # NoEntry -> "a" [] OTHER -> "span",
            (IF Link(r) # NoEntry THEN Attribute("href", definitions[Link(r)].place) ELSE <<>>)
            \o Attribute("class", Kind[r.symbol])
            \o AttributeOf("sym-ref", r.symbol, r.symbol \in Quoted))

(* the name of a destructor is two tokens; the second is not looked for *)
WriteReference ==
    /\ AtToken /\ ~AtInclude /\ AtReference
    /\ LET r == references[reference.at]
           n == IF Kind[r.symbol] = "dtor" THEN 2 ELSE 1
       IN  /\ tok + n - 1 <= Len(Tokens[line])
           /\ Put(n, ReferenceElement(r), End)
           /\ notes' = notes \cup {[line |-> line, tok |-> tok, ref |-> reference.at, link |-> Link(r)]}
    /\ reference' = [reference EXCEPT !.at = @ + 1]
    /\ UNCHANGED <<tableVars, db, step, listVars, line, include>>

(* the token after the last one of the line is read: undefined, the page ends here *)
ReadPastEnd ==
    /\ AtToken /\ ~AtInclude /\ AtReference
    /\ Kind[references[reference.at].symbol] = "dtor" /\ tok = Len(Tokens[line])
    /\ step' = "undefined"
    /\ UNCHANGED <<tableVars, db, listVars, lineVars, notes, xmlVars>>

WriteToken ==
    /\ AtToken /\ ~AtInclude /\ ~AtReference
    /\ Put(1, <<>>, <<>>)
    /\ UNCHANGED <<tableVars, db, step, listVars, line, include, reference, notes>>
-----------------------------------------------------------------------------
(* the writer makes the next call *)
MakeCall == XmlNext /\ UNCHANGED <<tableVars, db, step, listVars, lineVars, notes>>

PageNext ==
    \/ FillTable
    \/ Load \/ Simplify \/ EraseTail
    \/ WriteHead \/ BeginLine \/ EndLine \/ WritePage
    \/ WriteInclude \/ WriteReference \/ ReadPastEnd \/ WriteToken
    \/ MakeCall

PageSpec == PageInit /\ [][PageNext]_<<tableVars, pageVars>>
-----------------------------------------------------------------------------
(* what is kept of a line: it ends with its last token, and each blank is a space *)
PlainText(l) ==
    [c \in 1..EndOfLine(l) |-> IF LineText(l)[c] = Blank THEN Space ELSE LineText(l)[c]]

(* a '~' apart from the name behind it *)
Parted(n) ==
    /\ Kind[references[n.ref].symbol] = "dtor"
    /\ Tokens[n.line][n.tok].col + Tokens[n.line][n.tok].width # Tokens[n.line][n.tok + 1].col

PageWritten == step = "written" /\ Idle

(* The page of a file is markup that a browser can read, and what it reads in the cell of
   a line is that line, whatever elements are around its tokens: each token at its column,
   with spaces between them.  A tab has become a space, and blanks behind the last token
   are not there; and the space between a '~' and a name apart from it is moved behind
   the name, or lost if the line ends there.
   Values of attributes are not escaped: the page is broken where it has the name of a
   symbol with a quote in it, and only there. *)
TextKept ==
    PageWritten =>
        LET broken == \E n \in notes : references[n.ref].symbol \in Quoted
        IN  /\ ReadsWell = ~broken
            /\ Len(Reading.cells) = Len(Tokens)
            /\ \A l \in DOMAIN Tokens :
                  (\A n \in notes : n.line = l => ~Parted(n)) => CellText(l) = PlainText(l)

(* An element is written for a reference around the token the reference is at, and
   it links to the definition of that symbol, one that no other rivals. *)
NotesAreRight ==
    \A n \in notes :
        LET r == references[n.ref]
        IN  /\ r.line = n.line /\ r.col = Tokens[n.line][n.tok].col + 1
            /\ n.link # NoEntry =>
                  \A row \in Range(db) :
                      row.symbol = r.symbol /\ "definition" \in row.flags
                          => PlaceOf(row) = definitions[n.link].place

(* what is known of a place once its references are simplified: "when the constructor
   is declared or defined, the class reference must be removed; otherwise the
   constructor reference must be removed" (filesema.cpp:53) *)
Simplified(refs) ==
    IF Len(refs) = 2 /\ {Kind[refs[1].symbol], Kind[refs[2].symbol]} = {"ctor", "class"}
    THEN LET ctor  == CHOOSE r \in Range(refs) : Kind[r.symbol] = "ctor"
             class == CHOOSE r \in Range(refs) : Kind[r.symbol] = "class"
         IN  <<IF IsDeclOrDef(ctor) THEN ctor ELSE class>>
    ELSE refs

At(refs, r) == Selected({s \in Range(refs) : SamePlace(r, s)}, refs)

(* simplify_ctor_and_class_references keeps the right one of a class and its
   constructor and loses nothing else, at every place of at most two references. *)
OneNamePerPlace ==
    step \notin {"load", "simplify"} =>
        LET loaded == Explicit(InPage(db))
        IN  \A r \in Range(loaded) :
                Len(At(loaded, r)) <= 2 => At(references, r) = Simplified(At(loaded, r))

(* a reference an iterator can reach: it is at a token of its line, not at the name
   after a '~', and no reference before it is at the same place *)
Reachable(k) ==
    LET r == references[k]
    IN  /\ r.line \in DOMAIN Tokens
        /\ \E t \in DOMAIN Tokens[r.line] :
              /\ Tokens[r.line][t].col + 1 = r.col /\ Tokens[r.line][t].type # "include"
              /\ ~ \E n \in notes : /\ n.line = r.line /\ n.tok = t - 1
                                    /\ Kind[references[n.ref].symbol] = "dtor"
        /\ \A j \in 1..k - 1 : ~SamePlace(references[j], r)

(* A page shows every reference of the file exactly once, but for one that the
   iterator cannot reach and those behind it on its line. *)
AllNoted ==
    PageWritten =>
        \A k \in DOMAIN references :
            (\A j \in 1..k : references[j].line = references[k].line => Reachable(j))
                => Cardinality({n \in notes : n.ref = k}) = 1
=============================================================================
