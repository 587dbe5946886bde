------------------------------ MODULE XmlWriter ------------------------------
(***************************************************************************)
(* class XmlWriter (exporter/src/xmlwriter.cpp), through which every page  *)
(* is written, and the functions of htmlpage.h that call it.  A page hands *)
(* over its calls in straight-line code, so the calls it is about to make  *)
(* are a list here, and each action is one call.                           *)
(*                                                                         *)
(* The stream is a list of the marks the writer puts out.  A text is a     *)
(* list of characters of the source file; wordings of the exporter's own   *)
(* are the empty list.  What writeCharacters() puts out never looks like   *)
(* markup, since it escapes; the other calls put out what they are given.  *)
(***************************************************************************)
EXTENDS Naturals, Sequences

VARIABLES
    elements,  \* m_elements
    stream,    \* what m_output was given
    calls      \* the calls that are still to be made

xmlVars == <<elements, stream, calls>>

XmlInit == elements = <<>> /\ stream = <<>> /\ calls = <<>>
-----------------------------------------------------------------------------
(* the calls of a page; startelement() and the functions DECLARE_HTML_ELEMENT makes
   are an element and then its attributes; the value of one may have a quote in it *)
Element(name, attributes) == <<[call |-> "start", arg |-> name]>> \o attributes
End == <<[call |-> "end", arg |-> <<>>]>>
AttributeOf(name, value, quote) ==
    <<[call |-> "attribute", arg |-> [name |-> name, value |-> value, quote |-> quote]]>>
Attribute(name, value) == AttributeOf(name, value, FALSE)
Characters(chars) == <<[call |-> "characters", arg |-> chars]>>

(* HtmlPage::write, XmlWriter::write and operator<<(HtmlPage&, int): they go to the
   stream and leave the writer out; what is "markup" is well-formed of itself *)
Bytes(what) == <<[call |-> "bytes", arg |-> what]>>

Words == <<>>

(* an element with a text in it *)
TextElement(name, attributes, chars) == Element(name, attributes) \o Characters(chars) \o End

Idle == calls = <<>>

Calls(list) == calls' = list /\ UNCHANGED <<elements, stream>>
-----------------------------------------------------------------------------
Mark(kind, what) == [kind |-> kind, what |-> what]

Current == elements[Len(elements)]

(* withinElement() && !current().attributes_closed *)
Unsealed == elements # <<>> /\ ~Current.attributes_closed

(* sealAttributes, where it is needed *)
Sealed == IF Unsealed THEN Append(stream, Mark("seal", <<>>)) ELSE stream
Closed == IF Unsealed THEN [elements EXCEPT ![Len(elements)].attributes_closed = TRUE] ELSE elements

Called(call) == calls # <<>> /\ Head(calls).call = call

Done == calls' = Tail(calls)

Arg == Head(calls).arg

(* mutant of WriteStartElement: the element around it is not sealed *)
StartWithoutSeal ==
    /\ Called("start")
    /\ stream' = Append(stream, Mark("open", Arg))
    /\ elements' = Append(Closed, [name |-> Arg, attributes_closed |-> FALSE])
    /\ Done

WriteStartElement ==
    /\ Called("start")
    /\ stream' = Append(Sealed, Mark("open", Arg))
    /\ elements' = Append(Closed, [name |-> Arg, attributes_closed |-> FALSE])
    /\ Done

(* back() of no element is undefined *)
WriteEndElement ==
    /\ Called("end") /\ elements # <<>>
    /\ stream' = Append(stream, IF Unsealed THEN Mark("empty", <<>>) ELSE Mark("close", Current.name))
    /\ elements' = SubSeq(elements, 1, Len(elements) - 1)
    /\ Done

(* the assertion is not there in a release build *)
WriteAttribute ==
    /\ Called("attribute")
    /\ stream' = Append(stream, Mark("attribute", Arg))
    /\ UNCHANGED elements
    /\ Done

WriteCharacters ==
    /\ Called("characters")
    /\ stream' = Append(Sealed, Mark("text", Arg))
    /\ elements' = Closed
    /\ Done

Write ==
    /\ Called("bytes")
    /\ stream' = Append(stream, Mark("bytes", Arg))
    /\ UNCHANGED elements
    /\ Done

XmlNext == WriteStartElement \/ WriteEndElement \/ WriteAttribute \/ WriteCharacters \/ Write
-----------------------------------------------------------------------------
(* A browser that reads the stream: the elements it is in, whether it is inside the tag
   of the last one, whether all was well, and the text of the cells that hold lines of
   source, each character with the element right around it.  A cell is a td or has the
   class "code"; it is at a depth, and 0 is none. *)
Unread == [open |-> <<>>, inTag |-> FALSE, good |-> TRUE, depth |-> 0, cells |-> <<>>]

(* values of attributes are not escaped, nor are raw bytes *)
Harmless(mark) ==
    CASE mark.kind = "attribute" -> ~mark.what.quote
      [] mark.kind = "bytes" -> mark.what # "broken"
      [] OTHER -> TRUE

InTag(mark) == mark.kind \in {"attribute", "seal", "empty"}

Leave(r) ==
    [r EXCEPT !.open = IF @ = <<>> THEN @ ELSE SubSeq(@, 1, Len(@) - 1),
              !.depth = IF @ = Len(r.open) THEN 0 ELSE @,
              !.inTag = FALSE]

Enter(r, depth) == [r EXCEPT !.depth = depth, !.cells = Append(@, <<>>)]

Read(r, mark) ==
    LET good == r.good /\ Harmless(mark) /\ r.inTag = InTag(mark)
                /\ (mark.kind = "close" => r.open # <<>> /\ r.open[Len(r.open)] = mark.what)
        next ==
            CASE mark.kind = "open" ->
                    LET in == [r EXCEPT !.open = Append(@, mark.what), !.inTag = TRUE]
                    IN  IF mark.what = "td" THEN Enter(in, Len(r.open) + 1) ELSE in
              [] mark.kind = "attribute" ->
                    IF mark.what.name = "class" /\ mark.what.value = "code" /\ r.open[Len(r.open)] = "div"
                    THEN Enter(r, Len(r.open)) ELSE r
              [] mark.kind = "seal" -> [r EXCEPT !.inTag = FALSE]
              [] mark.kind \in {"empty", "close"} -> Leave(r)
              [] mark.kind = "text" /\ r.depth # 0 ->
                    [r EXCEPT !.cells[Len(r.cells)] =
                        @ \o [k \in DOMAIN mark.what |->
                                [char |-> mark.what[k], in |-> r.open[Len(r.open)]]]]
              [] OTHER -> r
    IN  [next EXCEPT !.good = good]

ReadingOf(marks) ==
    LET upTo[k \in 0..Len(marks)] ==
            IF k = 0 THEN Unread ELSE LET before == upTo[k - 1] IN Read(before, marks[k])
    IN  upTo[Len(marks)]

Reading == ReadingOf(stream)

(* the page is markup: every tag is closed, in order, and nothing but attributes is in it *)
ReadsWell == Reading.good /\ Reading.open = <<>>

CellText(k) == [j \in DOMAIN Reading.cells[k] |-> Reading.cells[k][j].char]
=============================================================================
