------------------------------ MODULE VelyJson ------------------------------
(***************************************************************************)
(* new-json (json.c): the recursive parser of a worker, one token at a     *)
(* time, over any number of documents.                                     *)
(*                                                                         *)
(* A frame is one call of vely_json_new with its flags; list and list_c    *)
(* are the static variables from which the normalized name of a value is   *)
(* made, and nulled is the static that hands the character after a number, *)
(* true, false or null to the next iteration.  A document is a sequence of *)
(* tokens that comes from the environment.  An array as the whole document *)
(* is followed up to its "[", where the code writes to list[-1]: what that *)
(* changes depends on the build, and so does all that follows up to the    *)
(* next document.  Left out are a colon where a value has to begin (a name *)
(* that is NULL), and a literal with a string or a literal right behind it.*)
(***************************************************************************)
EXTENDS Integers, Sequences, FiniteSets, SequencesExt

CONSTANTS
    Plain,      \* strings without an escape
    Escaped,    \* strings with one
    Literal,    \* numbers, true, false and null
    MaxNested,  \* VV_JSON_MAX_NESTED
    MaxTokens,  \* bound on the length of a document
    NULL

ASSUME MaxNestedAssumption == MaxNested \in Nat \ {0, 1}

Strings == Plain \cup Escaped
Space == "_"
OneChar == {"{", "}", "[", "]", ":", ",", Space}
LeftOver == OneChar \ {":"}   \* what may be left over without leaving the scope

\* What no case of the switch takes, and bad numbers and strings.  A bad string
\* is an error one step later: its call returns in front of it and says that
\* all is well, and its caller, which wants a comma or an end then, meets the
\* same quote; around the root call it is what is left over.
Junk == "junk"
Tokens == OneChar \cup Strings \cup Literal \cup {Junk}

ASSUME TokensAssumption ==
    /\ Strings \cap (Literal \cup OneChar \cup {Junk}) = {}
    /\ Literal \cap (OneChar \cup {Junk}) = {}
    /\ NULL \notin Tokens

VARIABLES
    phase,     \* "idle", "parse", "tail" after the value of the root, "done", or
               \* "undefined" after a use of list[-1]
    stack,     \* the calls of vely_json_new, the last one is running
    list,      \* names and indexes that lead up to a value
    list_c,
    nodes,     \* normalized names and values
    ec,        \* "ok" for -1, else "error"
    nulled,    \* the static character, NULL for 0
    last,      \* the last token
    length,    \* tokens read
    ref,       \* reference: the same tokens read by the grammar of JSON
    fresh      \* nothing was left in nulled when the document began

vars == <<phase, stack, list, list_c, nodes, ec, nulled, last, length, ref, fresh>>

Frame == [colon |-> FALSE, name |-> FALSE, arr |-> FALSE, obj |-> FALSE,
          isarr |-> FALSE, isobj |-> FALSE, by |-> "root"]

NewList == [j \in 0 .. MaxNested - 1 |-> [name |-> NULL, index |-> -1]]

Top == Last(stack)
-----------------------------------------------------------------------------
(* The reference: a stack of open objects and arrays and what is wanted    *)
(* next.  "odd" notes two kinds of documents that the code takes otherwise.*)

NewRef == [ok |-> TRUE, odd |-> FALSE, open |-> <<>>, want |-> "value", nodes |-> <<>>]

RefTop == Last(ref.open)

\* How many of the first k that are open are objects.
Level(open, k) == Cardinality({j \in 1 .. k : open[j].kind = "obj"})

\* The index of the array that the member of the object at j opened, if any.
Index(open, j) == IF j < Len(open) /\ open[j + 1].kind = "arr" THEN open[j + 1].index ELSE -1

\* The name of a value: the objects on the way, each with that index.
RefName ==
    LET at(i) == CHOOSE j \in DOMAIN ref.open :
                    ref.open[j].kind = "obj" /\ Level(ref.open, j) = i
    IN [i \in 1 .. Level(ref.open, Len(ref.open)) |->
           [name |-> ref.open[at(i)].name, index |-> Index(ref.open, at(i))]]

Closed(r) == [r EXCEPT !.open = Front(@),
                       !.want = IF Len(r.open) = 1 THEN "end" ELSE "comma"]

Refused == [ref EXCEPT !.ok = FALSE]

\* A value may stand inside MaxNested - 2 objects and arrays.  This is the limit of
\* the code, 30; docs/new-json.2vv:56 says 32.
ValueWanted == ref.want = "value" /\ Len(ref.open) < MaxNested - 1

InObject == ref.open # <<>> /\ RefTop.kind = "obj"
InArray == ref.open # <<>> /\ RefTop.kind = "arr"

RefFeed(tok) ==
    CASE tok = Space ->
            [ref EXCEPT !.odd = @ \/ (ref.want = "end" /\ last \in Literal)]
      [] tok \in Strings /\ ref.want = "name" ->
            [ref EXCEPT !.open[Len(ref.open)].name = tok, !.want = "colon",
                        !.odd = @ \/ tok \in Escaped]
      [] tok \in Strings \cup Literal /\ ValueWanted ->
            [ref EXCEPT !.nodes = Append(@, [name |-> RefName, value |-> tok]),
                        !.want = IF ref.open = <<>> THEN "end" ELSE "comma"]
      [] tok = ":" /\ ref.want = "colon" -> [ref EXCEPT !.want = "value"]
      [] tok = "," /\ ref.want = "comma" /\ InObject -> [ref EXCEPT !.want = "name"]
      [] tok = "," /\ ref.want = "comma" /\ InArray ->
            [ref EXCEPT !.want = "value", !.open[Len(ref.open)].index = @ + 1]
      [] tok = "{" /\ ValueWanted ->
            [ref EXCEPT !.open = Append(@, [kind |-> "obj", name |-> NULL, index |-> -1]),
                        !.want = "name"]
      [] tok = "[" /\ ValueWanted /\ InObject ->
            [ref EXCEPT !.open = Append(@, [kind |-> "arr", name |-> NULL, index |-> 0])]
      [] tok = "}" /\ ref.want = "comma" /\ InObject -> Closed(ref)
      [] tok = "]" /\ ref.want = "comma" /\ InArray -> Closed(ref)
      [] OTHER -> Refused
-----------------------------------------------------------------------------
(* The parser.  An outcome is a record of what the step assigns.           *)

Init ==
    /\ phase = "idle" /\ stack = <<>> /\ list = NewList /\ list_c = -1
    /\ nodes = <<>> /\ ec = "ok" /\ nulled = NULL /\ last = NULL /\ length = 0
    /\ ref = NewRef /\ fresh = TRUE

Now == [stack |-> stack, list |-> list, list_c |-> list_c, nodes |-> nodes, ec |-> ec]

Error == [Now EXCEPT !.ec = "error"]

\* vely_json_fullname; the length of a name with an escape is that of the
\* escaped text, so the string ends at the zero behind the decoded name.
Fullname(l, c) ==
    LET full == [i \in 1 .. c |-> [name |-> l[i - 1].name, index |-> l[i - 1].index]]
        cut == {i \in DOMAIN full : full[i].name \in Escaped}
    IN IF cut = {} THEN full
       ELSE LET i == CHOOSE j \in cut : \A k \in cut : j <= k
            IN [SubSeq(full, 1, i) EXCEPT ![i].index = "cut"]

\* The frame that called goes on, and expects what may follow a value.
Resume(f, by) == IF by = ":" THEN [f EXCEPT !.obj = TRUE] ELSE [f EXCEPT !.arr = TRUE]

Return(o) ==
    LET rest == Front(o.stack)
    IN [o EXCEPT !.stack = IF rest = <<>> THEN <<>>
                           ELSE Append(Front(rest), Resume(Last(rest), Last(o.stack).by))]

\* A recursive call, with the limits of depth and of list.
BugTooDeep(depth, c) == depth >= MaxNested

TooDeep(depth, c) == depth >= MaxNested \/ c >= MaxNested - 1

Call(o, by) ==
    IF TooDeep(Len(o.stack) + 1, o.list_c + 1) THEN [o EXCEPT !.ec = "error"]
    ELSE [o EXCEPT !.stack = Append(@, [Frame EXCEPT !.by = by]), !.list_c = @ + 1]

SetTop(f) == [Now EXCEPT !.stack = Append(Front(stack), f)]

\* A value: VV_ADD_JSON, one level down, and back to the caller.
AddJson(tok) ==
    Return([Now EXCEPT !.nodes = Append(@, [name |-> Fullname(list, list_c), value |-> tok]),
                       !.list_c = @ - 1])

ValueExpected == ~(Top.colon \/ Top.arr \/ Top.obj \/ Top.name)

BeginObject == IF ~ValueExpected THEN Error
               ELSE SetTop([Top EXCEPT !.name = TRUE, !.isobj = TRUE])

EndObject == IF Top.colon \/ Top.arr \/ Top.name THEN Error
             ELSE Return([Now EXCEPT !.list_c = @ - 1])

\* The next element of the array that the name at i opened.
NextIndex(i) == [list EXCEPT ![i].index = @ + 1]

BeginArray == IF ~ValueExpected THEN Error
              ELSE Call([SetTop([Top EXCEPT !.isarr = TRUE])
                            EXCEPT !.list_c = @ - 1, !.list = NextIndex(list_c - 1)], "[")

BugEndArray == IF Top.colon \/ Top.obj \/ Top.name THEN Error ELSE Return(Now)

EndArray == IF Top.colon \/ Top.obj \/ Top.name THEN Error
            ELSE Return([Now EXCEPT !.list[list_c].index = -1])

Colon == IF Top.arr \/ Top.obj \/ Top.name THEN Error
         ELSE Call(SetTop([Top EXCEPT !.colon = FALSE]), ":")

Comma ==
    LET cleared == [Top EXCEPT !.arr = FALSE, !.obj = FALSE]
    IN IF Top.colon \/ Top.name THEN Error
       ELSE IF Top.isobj THEN SetTop([cleared EXCEPT !.name = TRUE])
       ELSE IF Top.isarr
       THEN Call([SetTop(cleared) EXCEPT !.list = NextIndex(list_c)], ",")
       ELSE Error

String(tok) ==
    IF Top.colon \/ Top.arr \/ Top.obj THEN Error
    ELSE IF Top.name THEN [SetTop([Top EXCEPT !.name = FALSE, !.colon = TRUE])
                              EXCEPT !.list[list_c].name = tok]
    ELSE AddJson(tok)

OtherValue(tok) == IF ValueExpected THEN AddJson(tok) ELSE Error

Outcome(tok) ==
    CASE tok = "{" -> BeginObject
      [] tok = "}" -> EndObject
      [] tok = "[" -> BeginArray
      [] tok = "]" -> EndArray
      [] tok = ":" -> Colon
      [] tok = "," -> Comma
      [] tok = Space -> Now
      [] tok \in Strings -> String(tok)
      [] tok \in Literal -> OtherValue(tok)
      [] OTHER -> Error

Assign(o) ==
    /\ stack' = o.stack /\ list' = o.list /\ list_c' = o.list_c
    /\ nodes' = o.nodes /\ ec' = o.ec
    /\ phase' = IF o.ec = "error" THEN "done"
                ELSE IF o.stack = <<>> THEN "tail" ELSE "parse"

\* new-json resets everything but nulled.
NewJson ==
    /\ phase \in {"idle", "done", "undefined"}
    /\ phase' = "parse"
    /\ stack' = <<Frame>> /\ list' = NewList /\ list_c' = 0
    /\ nodes' = <<>> /\ ec' = "ok"
    /\ last' = NULL /\ length' = 0
    /\ ref' = NewRef /\ fresh' = (nulled = NULL)
    /\ UNCHANGED nulled

\* The token that the switch sees: what was left over takes the place of the
\* first character.
Seen(tok) == IF nulled = NULL THEN tok ELSE nulled

InScope(tok) ==
    /\ tok = ":" => Top.colon \/ Top.arr \/ Top.obj \/ Top.name
    /\ last \in Literal => tok \in OneChar

Read(tok) ==
    /\ last' = tok /\ length' = length + 1
    /\ ref' = RefFeed(tok)
    /\ UNCHANGED fresh

\* An array would be counted at list[-1].
Outside == ValueExpected /\ list_c - 1 < 0

\* What list[-1] is depends on how the compiler lays out the statics: with gcc, the
\* word that is changed is node_tot in a build with -O3, and padding in one for
\* debugging.
BeginOutside(tok) ==
    /\ phase = "parse" /\ length < MaxTokens
    /\ Seen(tok) = "[" /\ Outside
    /\ Read(tok)
    /\ phase' = "undefined"
    /\ nulled' \in LeftOver \cup {NULL}
    /\ UNCHANGED <<stack, list, list_c, nodes, ec>>

Parse(tok) ==
    /\ phase = "parse" /\ length < MaxTokens
    /\ ~(Seen(tok) = "[" /\ Outside)
    /\ InScope(tok) /\ InScope(Seen(tok))
    /\ Read(tok)
    /\ Assign(IF nulled # NULL /\ tok \notin OneChar THEN Error ELSE Outcome(Seen(tok)))
    /\ nulled' = NULL

\* A node handler that does not return VV_OKAY ends the parse; after a literal
\* the character behind it is already in nulled.
Interrupt(tok) ==
    /\ phase = "parse" /\ length < MaxTokens /\ nulled = NULL
    /\ tok \in Strings \cup Literal
    /\ InScope(tok)
    /\ Len(Outcome(tok).nodes) > Len(nodes)
    /\ last' = tok /\ length' = length + 1
    /\ ref' = Refused
    /\ Assign([Outcome(tok) EXCEPT !.ec = "error"])
    /\ nulled' \in IF tok \in Literal THEN LeftOver \cup {NULL} ELSE {NULL}
    /\ UNCHANGED fresh

\* What follows the value of the document: white space, unless the value was a
\* literal, whose next character is now zero in the text and kept in nulled.
Skipped(tok) == tok = Space /\ last \notin Literal

Trail(tok) ==
    /\ phase = "tail" /\ length < MaxTokens
    /\ last \in Literal => tok \in LeftOver
    /\ Read(tok)
    /\ IF Skipped(tok) THEN UNCHANGED <<phase, ec>>
       ELSE phase' = "done" /\ ec' = "error"
    /\ nulled' = IF last \in Literal THEN tok ELSE nulled
    /\ UNCHANGED <<stack, list, list_c, nodes>>

\* The end of the document.  With a length that cuts the text behind a literal
\* the next character stays in nulled.
EndDocument ==
    /\ phase \in {"parse", "tail"} /\ length > 0
    /\ phase' = "done"
    /\ nulled' \in IF last \in Literal THEN LeftOver \cup {NULL} ELSE {NULL}
    /\ UNCHANGED <<stack, list, list_c, nodes, ec, last, length, ref, fresh>>

Next ==
    \/ NewJson
    \/ \E tok \in Tokens : Parse(tok) \/ BeginOutside(tok) \/ Interrupt(tok) \/ Trail(tok)
    \/ EndDocument

Spec == Init /\ [][Next]_vars
-----------------------------------------------------------------------------
(* Properties                                                              *)

Complete == phase = "done" /\ ref.ok /\ ref.want = "end"

ParsedRight == ec = "ok" /\ nodes = ref.nodes

\* A document that the grammar accepts, and that is no array, and has no empty
\* object or array, no array in an array, no escape in a name and no space behind a
\* lone literal, is accepted when nothing was left over; its values are stored in
\* order, each under the names and indexes that lead up to it, down to the code's
\* limit of nesting; and unless it is a lone literal, nothing is left over.  A name
\* that occurs twice is stored twice: a traversal meets both, although
\* docs/new-json.2vv:58 says that only one is reported.
Flattened ==
    (Complete /\ ~ref.odd /\ fresh) =>
        /\ ParsedRight
        /\ last \notin Literal => nulled = NULL

\* The static array list is used outside of its bounds by one kind of document only,
\* an array that is the whole document (json.c:388): the root call has begun no
\* object then.  No other document moves list_c out of list, however often a
\* malformed one (an empty array that is closed early) moves it.
ListInBounds ==
    /\ phase = "parse" => list_c \in 0 .. MaxNested - 2
    /\ phase = "undefined" => Len(stack) = 1 /\ ~Top.isobj

\* "new-json will parse <text> into <json>" (docs/new-json.2vv): a document is
\* parsed in the same way whatever was parsed before.
Independent == (Complete /\ ~ref.odd) => ParsedRight
=============================================================================
