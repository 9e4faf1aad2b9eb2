------------------------------ MODULE VelyInput ------------------------------
(***************************************************************************)
(* The input of a request (velyrt.c): vely_get_input makes one list of     *)
(* parameters from the body, the query string and the path, and the        *)
(* statements input-param, task-param, set-input, set-cookie, get-cookie   *)
(* and delete-cookie work on it and on the cookies.                        *)
(*                                                                         *)
(* Text is a sequence of words; what a URL is cut at are the words "&" and *)
(* "=".  Lengths count as none, zero, what fits and what is too large.     *)
(* Percent-decoding and the trimming of values change nothing here: no     *)
(* word is encoded or has a blank.                                         *)
(***************************************************************************)
EXTENDS Integers, Sequences, FiniteSets, SequencesExt

CONSTANTS
    Requests,     \* what a client may send
    Underscored,  \* each word as a name: with _ for every -
    ValidNames,   \* the words that are alphanumeric and begin with a letter
    Names,        \* the names an application asks for
    Values,       \* the values it sets
    CookieNames,  \* the cookies it sets and deletes
    OddNames,     \* of these the names no cookie may have, though a client sends one
    MaxCookies,   \* VV_MAX_COOKIES
    MaxSteps      \* bound on the statements of a request

Texts == Seq(STRING)

Parts == [name : Texts, value : Texts, isfile : BOOLEAN, file : Texts, kind : STRING]

ASSUME RequestsAssumption ==
    \A r \in Requests : /\ r.body \in Seq(Texts) /\ r.query \in Seq(Texts) /\ r.segs \in Seq(Texts)
                        /\ r.parts \in Seq(Parts)
                        /\ r.cookies \in Seq(STRING \X STRING)

VARIABLES
    given,     \* the request of the client
    req,       \* vely_input_req
    sent,      \* the cookies of the header that was sent, by their place in the array
    assigned,  \* what set-input gave each name last, <<>> for none
    tasked,    \* the name task-param asked for last, <<>> for none
    wanted,    \* what set-cookie and delete-cookie did last, or NoCookie
    steps      \* statements so far

input_vars == <<given, req, sent, assigned, tasked, wanted, steps>>

NoRequest == [status |-> "none", ipars |-> <<>>, task |-> 0, name |-> <<>>,
              cookies |-> <<>>, data_was_output |-> FALSE]

NoCookie == ""

Nothing == [n \in CookieNames |-> NoCookie]

InitInput ==
    /\ given = <<>>
    /\ req = NoRequest
    /\ sent = <<>>
    /\ assigned = [n \in Names |-> <<>>]
    /\ tasked = <<>>
    /\ wanted = Nothing
    /\ steps = 0

Amp == <<"&">>
Sign == "="
Eq == <<Sign>>
Empty == <<>>
-----------------------------------------------------------------------------
(* vely_get_input                                                          *)

Bodied(r) == r.method \in {"POST", "PUT", "PATCH"}

\* The body is read when its type and its length are given.
HasBody(r) == r.ctype # "" /\ r.clen \in {"fits", "large"}

\* The part of a form at which reading it stops, 0 for none.
Stop(parts) == SelectInSeq(parts, LAMBDA p : p.kind # "good")

\* A form has a boundary; it ends the request when its text is too long or when
\* a file of it cannot be written.
FormRefused(r) ==
    \/ r.ctype = "unbounded"
    \/ r.ctype = "multipart" /\ Stop(r.parts) # 0 /\ r.parts[Stop(r.parts)].kind = "fails"

\* What the request is refused for before its parameters are looked at.
InputRefused(r) ==
    \/ Len(r.cookies) > MaxCookies
    \/ r.method = ""
    \/ HasBody(r) /\ (r.clen = "large" \/ ~r.arrives)
    \/ Bodied(r) /\ r.ctype # "" /\ ~HasBody(r)
    \/ Bodied(r) /\ FormRefused(r)

Suffix(name, s) == name \o <<s>>

\* A part of a form as it is added to the URL: the parameter, and what is known of
\* a file.  A file that was not chosen has an empty name.
PartUrl(p) ==
    LET pair(n, v) == <<n, Eq, v, Amp>>
    IN pair(p.name, p.value)
       \o (IF p.file # Empty THEN pair(Suffix(p.name, "filename"), p.file) ELSE <<>>)
       \o (IF ~p.isfile THEN <<>>
           ELSE IF p.file = Empty THEN pair(Suffix(p.name, "filename"), Empty)
           ELSE pair(Suffix(p.name, "location"), <<"path">>)
                \o pair(Suffix(p.name, "ext"), <<"ext">>)
                \o pair(Suffix(p.name, "size"), <<"size">>))

\* A part that is not as expected ends the form; the last "&" is dropped.
FormUrl(parts) ==
    LET read == IF Stop(parts) = 0 THEN Len(parts) ELSE Stop(parts) - 1
        url == FlattenSeq([i \in 1 .. read |-> PartUrl(parts[i])])
    IN IF url = <<>> THEN url ELSE Front(url)

BodyUrl(r) ==
    CASE HasBody(r) /\ r.ctype = "urlencoded" -> r.body
      [] HasBody(r) /\ r.ctype = "multipart" /\ Bodied(r) -> FormUrl(r.parts)
      [] OTHER -> <<>>

\* The cases in which there is no text at all when there is no query string: a
\* type without a length leaves content NULL, and a form without any part leaves
\* it uninitialised.
NoContent(r) ==
    /\ r.query = <<>>
    /\ \/ r.ctype = "urlencoded" /\ ~HasBody(r)
       \/ r.ctype = "multipart" /\ Bodied(r) /\ FormUrl(r.parts) = <<>>

\* The query string is added to the body.
Url(r) == IF r.query = <<>> THEN BodyUrl(r)
          ELSE IF BodyUrl(r) = <<>> THEN r.query
          ELSE BodyUrl(r) \o <<Amp>> \o r.query

AsName(word) == [i \in DOMAIN word |-> Underscored[word[i]]]

BugAfterAmp(s) ==
    [s EXCEPT !.strings = Append(@, s.cur), !.cur = Empty,
              !.malformed = s.malformed \/ ~s.had_equal]

\* "&" ends a value, and is an error when there was no "=" since the last one.
AfterAmp(s) ==
    [s EXCEPT !.strings = Append(@, s.cur), !.cur = Empty, !.had_equal = FALSE, !.isname = TRUE,
              !.malformed = s.malformed \/ ~s.had_equal]

AfterEq(s) ==
    [s EXCEPT !.strings = Append(@, s.cur), !.cur = Empty, !.had_equal = TRUE, !.isname = FALSE,
              !.count = @ + 1]

CutAt(s, w) ==
    CASE w = Amp -> AfterAmp(s)
      [] w = Eq -> AfterEq(s)
      [] w \notin {Amp, Eq} -> [s EXCEPT !.cur = @ \o (IF s.isname THEN AsName(w) ELSE w)]

Uncut == [strings |-> <<>>, cur |-> Empty, had_equal |-> FALSE, isname |-> TRUE,
          count |-> 0, malformed |-> FALSE]

\* The URL is cut into strings at each "&" and "=", and the "=" are counted.
Cut(url) ==
    LET cut[k \in 0 .. Len(url)] == IF k = 0 THEN Uncut ELSE CutAt(cut[k - 1], url[k])
    IN cut[Len(url)]

Param(name, value) == [name |-> name, value |-> value, found |-> 0]

\* One parameter for each "=", from the strings two by two.  Behind the last
\* string there are two empty ones.
UrlParams(cut) ==
    LET all == Append(cut.strings, cut.cur) \o <<Empty, Empty>>
        at(i) == IF i <= Len(all) THEN all[i] ELSE Empty
    IN [i \in 1 .. cut.count |-> Param(at(2 * i - 1), at(2 * i))]

Valid(name) == name # Empty /\ name[1] \in ValidNames

\* A segment of the path has its value behind "=", or in the next segment, or it
\* is the last one and "true".
PathAt(s, seg) ==
    IF s.pending # <<>>
    THEN [ps |-> Append(s.ps, Param(s.pending[1], seg)), pending |-> <<>>]
    ELSE IF Contains(seg, Sign)
    THEN LET e == SelectInSeq(seg, LAMBDA w : w = Sign)
         IN [s EXCEPT !.ps = Append(@, Param(AsName(SubSeq(seg, 1, e - 1)),
                                             SubSeq(seg, e + 1, Len(seg))))]
    ELSE [s EXCEPT !.pending = <<AsName(seg)>>]

NoPath == [ps |-> <<>>, pending |-> <<>>]

PathParams(segs) ==
    LET path[k \in 0 .. Len(segs)] == IF k = 0 THEN NoPath ELSE PathAt(path[k - 1], segs[k])
    IN path[Len(segs)]

FromPath(segs) ==
    LET s == PathParams(segs)
    IN IF s.pending = <<>> THEN s.ps ELSE Append(s.ps, Param(s.pending[1], <<"true">>))

\* Nothing, or a slash alone, behind the path of the application.
NoName(r) == r.path = "plain" /\ r.segs \in {<<>>, <<Empty>>}

\* The segments behind the name.  When the path ends with _ or _/ there still is
\* one, which is empty.
ParamSegs(r) ==
    CASE NoName(r) -> <<>>
      [] r.path = "plain" /\ ~NoName(r) -> Tail(r.segs)
      [] OTHER -> IF r.segs = <<>> THEN <<Empty>> ELSE r.segs

\* The value of the last parameter "req".
Named(ps) ==
    LET last == SelectLastInSeq(ps, LAMBDA p : p.name = <<"req">>)
    IN IF last = 0 THEN Empty ELSE ps[last].value

\* The path must begin with that of the application.  The name of the request is
\* the first segment, or what is between /_ and _/, or that of "req", if not empty.
PathRefused(r, ps) ==
    \/ r.path = "foreign" \/ r.path = "open"
    \/ NoName(r) /\ Named(ps) = Empty

ReqName(r, ps) ==
    CASE r.path = "closed" -> <<"hierarchy">>
      [] NoName(r) -> Named(ps)
      [] OTHER -> AsName(r.segs[1])

\* The cookies of the client, none of them set by the program.
Received(r) == [i \in 1 .. Len(r.cookies) |->
                   [name |-> r.cookies[i][1], value |-> r.cookies[i][2], by_program |-> FALSE]]

Input(r) ==
    LET cut == Cut(Url(r))
        ps == UrlParams(cut)
        new == [NoRequest EXCEPT !.cookies = Received(r)]
    IN CASE InputRefused(r) -> [new EXCEPT !.status = "refused", !.data_was_output = TRUE]
         [] ~InputRefused(r) /\ r.method = "OPTIONS" ->
                [new EXCEPT !.status = "options", !.data_was_output = TRUE]
         [] ~InputRefused(r) /\ r.method # "OPTIONS" /\ NoContent(r) ->
                [new EXCEPT !.status = "undefined"]
         [] OTHER ->
                IF \/ cut.malformed \/ \E i \in DOMAIN ps : ~Valid(ps[i].name)
                   \/ PathRefused(r, ps)
                THEN [new EXCEPT !.status = "refused", !.data_was_output = TRUE]
                ELSE [new EXCEPT !.status = "ok", !.name = ReqName(r, ps),
                                 !.ipars = ps \o FromPath(ParamSegs(r))]

GetInput ==
    /\ req.status = "none"
    /\ \E r \in Requests : given' = r /\ req' = Input(r)
    /\ UNCHANGED <<sent, assigned, tasked, wanted, steps>>
-----------------------------------------------------------------------------
(* The statements                                                          *)

Statement == req.status = "ok" /\ steps < MaxSteps /\ steps' = steps + 1 /\ UNCHANGED given

Having(name, found) ==
    SelectInSeq(req.ipars, LAMBDA p : p.name = name /\ p.found = found)

\* vely_get_input_param: those not asked for yet come first.
FindInput(name) == IF Having(name, 0) # 0 THEN Having(name, 0) ELSE Having(name, 1)

InputParam(name, task) ==
    /\ Statement
    /\ LET i == FindInput(name)
       IN req' = [req EXCEPT !.task = IF task THEN i ELSE @,
                             !.ipars = IF i = 0 THEN @ ELSE [@ EXCEPT ![i].found = 1]]
    /\ tasked' = IF task THEN name ELSE tasked
    /\ UNCHANGED <<sent, assigned, wanted>>

BugSetInput(name, val) ==
    /\ Statement
    /\ LET i == FindInput(name)
       IN req' = [req EXCEPT !.ipars = IF i = 0 THEN Cons(Param(name, val), @)
                                       ELSE [@ EXCEPT ![i].value = val, ![i].found = 0]]
    /\ assigned' = [assigned EXCEPT ![name] = val]
    /\ UNCHANGED <<sent, tasked, wanted>>

\* vely_set_input: a parameter that is there gets the value, and counts as not
\* asked for; else a new one is added.
SetInput(name, val) ==
    /\ Statement
    /\ LET i == FindInput(name)
       IN req' = [req EXCEPT !.ipars = IF i = 0 THEN Append(@, Param(name, val))
                                       ELSE [@ EXCEPT ![i].value = val, ![i].found = 0]]
    /\ assigned' = [assigned EXCEPT ![name] = val]
    /\ UNCHANGED <<sent, tasked, wanted>>

FindCookie(name) == SelectInSeq(req.cookies, LAMBDA c : c.name = name)

ByProgram(name, value) == [name |-> name, value |-> value, by_program |-> TRUE]

\* An error in a statement ends the request with an error page.
ErrorOut == [req EXCEPT !.status = "error", !.data_was_output = TRUE]

\* The Set-Cookie lines of the header.
SetCookies(cookies) == LET mine == {i \in DOMAIN cookies : cookies[i].by_program}
                       IN [i \in mine |-> cookies[i]]

BugPlaced(name, value) == Append(req.cookies, ByProgram(name, value))

\* The cookie takes the place of the one of its name.
Placed(name, value) ==
    IF FindCookie(name) = 0 THEN Append(req.cookies, ByProgram(name, value))
    ELSE [req.cookies EXCEPT ![FindCookie(name)] = ByProgram(name, value)]

\* vely_check_set_cookie refuses a name or a value that is not one of a cookie.
SetCookie(name, value) ==
    /\ Statement
    /\ IF \/ req.data_was_output
          \/ name \in OddNames \/ value = "refused"
          \/ FindCookie(name) = 0 /\ Len(req.cookies) + 1 >= MaxCookies
       THEN /\ req' = ErrorOut
            /\ sent' = IF req.data_was_output THEN sent ELSE SetCookies(req.cookies)
            /\ UNCHANGED wanted
       ELSE /\ req' = [req EXCEPT !.cookies = Placed(name, value)]
            /\ wanted' = [wanted EXCEPT ![name] = value]
            /\ UNCHANGED sent
    /\ UNCHANGED <<assigned, tasked>>

\* What vely_free leaves of a cookie.
Freed(name) == [req.cookies EXCEPT ![FindCookie(name)] =
                   [name |-> name, value |-> "freed", by_program |-> @.by_program]]

\* vely_delete_cookie does not ask whether data was output.  It frees the cookie
\* before vely_check_set_cookie refuses the name, and the error page is made with
\* what is left.
DeleteCookie(name) ==
    /\ Statement
    /\ FindCookie(name) # 0
    /\ IF name \in OddNames
       THEN /\ req' = [ErrorOut EXCEPT !.cookies = Freed(name)]
            /\ sent' = IF req.data_was_output THEN sent ELSE SetCookies(Freed(name))
            /\ UNCHANGED wanted
       ELSE /\ req' = [req EXCEPT !.cookies = Placed(name, "deleted")]
            /\ wanted' = IF req.data_was_output THEN wanted
                         ELSE [wanted EXCEPT ![name] = "deleted"]
            /\ UNCHANGED sent
    /\ UNCHANGED <<assigned, tasked>>

\* The first output ends the header, with the cookies the program set.
Output ==
    /\ Statement
    /\ ~req.data_was_output
    /\ sent' = SetCookies(req.cookies)
    /\ req' = [req EXCEPT !.data_was_output = TRUE]
    /\ UNCHANGED <<assigned, tasked, wanted>>

EndRequest ==
    /\ req.status # "none"
    /\ req' = NoRequest
    /\ given' = <<>>
    /\ sent' = <<>>
    /\ assigned' = [n \in Names |-> <<>>]
    /\ tasked' = <<>>
    /\ wanted' = Nothing
    /\ steps' = 0

NextInput ==
    \/ GetInput
    \/ \E n \in Names, t \in BOOLEAN : InputParam(n, t)
    \/ \E n \in Names, v \in Values : SetInput(n, v)
    \/ \E n \in CookieNames : SetCookie(n, "new") \/ SetCookie(n, "refused") \/ DeleteCookie(n)
    \/ Output
    \/ EndRequest

SpecInput == InitInput /\ [][NextInput]_input_vars
-----------------------------------------------------------------------------
(* Properties                                                              *)

Amps(url) == {i \in DOMAIN url : url[i] = Amp}
Equals(url) == {i \in DOMAIN url : url[i] = Eq}

\* No "&" stands between the places i and j.
Together(url, i, j) == \A a \in Amps(url) : ~(i < a /\ a < j)

\* The text from one place to another.
Text(url, i, j) == FlattenSeq(SubSeq(url, i, j))

\* How many of the places in a set come up to i.
UpToPlace(places, i) == Cardinality({j \in places : j <= i})

\* The parameter of the "=" at e: what stands before it, back to the "&" at b or to
\* the beginning, and what stands behind it, up to the "&" at a or to the end.
PairRight(p, url, e) ==
    \E b \in Amps(url) \cup {0}, a \in Amps(url) \cup {Len(url) + 1} :
        /\ b < e /\ e < a /\ Together(url, b, a)
        /\ p.name = AsName(Text(url, b + 1, e - 1))
        /\ p.value = Text(url, e + 1, a - 1)

\* The parameter that begins with segment s: name and value in one, or the value
\* in the next one, or none.
SegmentRight(p, segs, s) ==
    LET seg == segs[s]
    IN IF Contains(seg, Sign)
       THEN \E e \in DOMAIN seg :
                /\ seg[e] = Sign /\ \A d \in 1 .. e - 1 : seg[d] # Sign
                /\ p.name = AsName(SubSeq(seg, 1, e - 1))
                /\ p.value = SubSeq(seg, e + 1, Len(seg))
       ELSE /\ p.name = AsName(seg)
            /\ p.value = IF s + 1 \in DOMAIN segs THEN segs[s + 1] ELSE <<"true">>

\* The segments divide into those that begin a parameter, one for each of ps, and
\* those that are the value of the one before.
PathRight(ps, segs) ==
    \E names \in SUBSET DOMAIN segs :
        /\ \A s \in DOMAIN segs :
               s \in names <=> ~(s - 1 \in names /\ ~Contains(segs[s - 1], Sign))
        /\ Len(ps) = Cardinality(names)
        /\ \A s \in names : SegmentRight(ps[UpToPlace(names, s)], segs, s)

\* The parameters are those of the body and the query string, in order, each with
\* its own name and its own value, whatever the body is and wherever it ends; a
\* pair without "=" is refused, or dropped at the end; then come those of the path,
\* each segment of which is used once.  Left out: a "=" in a value that is not
\* encoded, which the code takes for the end of a name.
ParamsRight ==
    (req.status = "ok" /\ steps = 0) =>
        LET url == Url(given)
            n == Cardinality(Equals(url))
        IN /\ \A a \in Amps(url) : \E e \in Equals(url) : e < a /\ Together(url, e, a)
           /\ (\A e, f \in Equals(url) : e < f => ~Together(url, e, f)) =>
                  \A e \in Equals(url) :
                      PairRight(req.ipars[UpToPlace(Equals(url), e)], url, e)
           /\ PathRight(SubSeq(req.ipars, n + 1, Len(req.ipars)), ParamSegs(given))

\* The search of input-param skips what was asked for before, "with a valid result"
\* (velyrt.c:1791): a parameter that is there is found however often it was asked
\* for, what set-input gave a name last is there, and is found when the name is
\* there once.  "The index to input-param is always the same" (velyrt.c:1814): after
\* any statements the task is the parameter task-param asked for, by its name, and
\* has the value set-input gave it since.
SearchAsPlain ==
    req.status = "ok" =>
        /\ req.task # 0 => req.ipars[req.task].name = tasked
        /\ \A n \in Names :
               LET there == {i \in DOMAIN req.ipars : req.ipars[i].name = n}
               IN /\ (FindInput(n) = 0) = (there = {})
                  /\ assigned[n] # <<>> => \E i \in there : req.ipars[i].value = assigned[n]
                  /\ (assigned[n] # <<>> /\ Cardinality(there) = 1) =>
                         /\ req.ipars[FindInput(n)].value = assigned[n]
                         /\ (req.task # 0 /\ tasked = n) =>
                                req.ipars[req.task].value = assigned[n]

\* The header has one Set-Cookie for each cookie that was set or deleted before the
\* first output, with what was asked for last, and none for the cookies the client
\* sent itself, however often a name was set, deleted or received.
CookiesSent ==
    (req.status \in {"ok", "error"} /\ req.data_was_output) =>
        \A n \in CookieNames :
            LET mine == {i \in DOMAIN sent : sent[i].name = n}
            IN IF wanted[n] = NoCookie THEN mine = {}
               ELSE \E i \in mine : mine = {i} /\ sent[i].value = wanted[n]
=============================================================================
