-------------------------- MODULE VelyWorkerProofs --------------------------
(***************************************************************************)
(* Proofs about VelyWorker, for any depth of nested write-strings, any     *)
(* number of requests and any use of the statements by the application.    *)
(*                                                                         *)
(* The first part is about the response alone: which sequences of parts go *)
(* with which flags of it.  The second part is the inductive invariant of  *)
(* the worker, in four parts that rest on the type invariant and on those  *)
(* before them.                                                            *)
(***************************************************************************)
EXTENDS VelyWorker, TLAPS

HasBare(r) == \E i \in DOMAIN r.out : r.out[i] = "bare"

\* What was sent, from the flags, as long as the client is still connected.
SentAsFlagged(r) ==
    \/ r.silent /\ r.out = <<>>
    \/ r.silent /\ r.data_was_output /\ r.out = <<"body">>
    \/ ~r.silent /\ ~r.sent_header /\ ~r.data_was_output /\ r.out = <<>>
    \/ ~r.silent /\ r.sent_header /\ ~r.data_was_output /\ r.out = <<"header">>
    \/ /\ ~r.silent /\ r.sent_header /\ r.data_was_output
       /\ r.out \in {<<"header", "end">>, <<"header", "end", "body">>}

\* A response that no error left in disorder.
InOrder(r) ==
    \/ HasBare(r)
    \/ r.out \in Shapes /\ (~r.finished_output => SentAsFlagged(r))

Part == {"header", "bare", "end", "body"}

\* What the operations of a response leave alone, and the flag that none resets.
Keeps(r, q) == /\ q.is_shut = r.is_shut
               /\ q.finished_output = r.finished_output
               /\ q.strings = r.strings
               /\ q.silent = r.silent
               /\ r.sent_header => q.sent_header
               /\ r.disable_output => q.disable_output

-----------------------------------------------------------------------------
(* The response                                                            *)

(* A sequence of up to three parts is the tuple of its parts.              *)
LEMMA Explicit ==
  ASSUME NEW s \in Seq(Part)
  PROVE  /\ Len(s) = 1 => s = <<s[1]>>
         /\ Len(s) = 2 => s = <<s[1], s[2]>>
         /\ Len(s) = 3 => s = <<s[1], s[2], s[3]>>
  OBVIOUS

(* Writing one more part to a short response.                              *)
LEMMA Appended ==
  ASSUME NEW a \in Part, NEW b \in Part, NEW c \in Part
  PROVE  /\ Append(<<>>, a) = <<a>>
         /\ Append(<<a>>, b) = <<a, b>>
         /\ Append(<<a, b>>, c) = <<a, b, c>>
<1>1. Append(<<>>, a) = <<a>>
  OBVIOUS
<1>2. Append(<<a>>, b) = <<a, b>>
  <2>1. <<a>> \in Seq(Part) /\ Len(<<a>>) = 1 /\ <<a>>[1] = a
    OBVIOUS
  <2>2. LET s == Append(<<a>>, b)
        IN  s \in Seq(Part) /\ Len(s) = 2 /\ s[1] = a /\ s[2] = b
    BY <2>1
  <2>3. QED
    BY <2>2, Explicit
<1>3. Append(<<a, b>>, c) = <<a, b, c>>
  <2>1. <<a, b>> \in Seq(Part) /\ Len(<<a, b>>) = 2 /\ <<a, b>>[1] = a /\ <<a, b>>[2] = b
    OBVIOUS
  <2>2. LET s == Append(<<a, b>>, c)
        IN  s \in Seq(Part) /\ Len(s) = 3 /\ s[1] = a /\ s[2] = b /\ s[3] = c
    BY <2>1
  <2>3. QED
    BY <2>2, Explicit
<1>4. QED
  BY <1>1, <1>2, <1>3

(* The shapes of a response, how they grow and where they end.             *)
LEMMA ShapeFacts ==
  /\ Append(<<>>, "header") = <<"header">>
  /\ Append(<<>>, "body") = <<"body">>
  /\ Append(<<"header">>, "end") = <<"header", "end">>
  /\ Append(<<"header", "end">>, "body") = <<"header", "end", "body">>
  /\ Last(<<"header">>) = "header" /\ Last(<<"body">>) = "body"
  /\ Last(<<"header", "end">>) = "end"
  /\ Last(<<"header", "end", "body">>) = "body"
  /\ <<"header">> # <<>> /\ <<"body">> # <<>> /\ <<"header", "end">> # <<>>
  /\ <<"header", "end", "body">> # <<>>
  /\ <<"header">> # <<"body">> /\ <<"header">> # <<"header", "end">>
  /\ <<"header">> # <<"header", "end", "body">>
<1>1. {"header", "bare", "end", "body"} \subseteq Part
  BY DEF Part
<1>2. /\ Append(<<>>, "header") = <<"header">>
      /\ Append(<<>>, "body") = <<"body">>
      /\ Append(<<"header">>, "end") = <<"header", "end">>
      /\ Append(<<"header", "end">>, "body") = <<"header", "end", "body">>
  BY <1>1, Appended, Zenon
<1>3. QED
  BY <1>2 DEF Last

(* vely_gen_write appends at most one part, and only while the client is   *)
(* connected.                                                              *)
LEMMA WriteFacts ==
  ASSUME NEW r \in Response, NEW part \in Part
  PROVE  LET q == Write(r, part)
         IN  /\ q \in Response
             /\ Keeps(r, q)
             /\ q.data_was_output = r.data_was_output
             /\ q.sent_header = r.sent_header
             /\ q.disable_output = r.disable_output
             /\ \/ q.out = r.out
                \/ ~r.finished_output /\ q.out = Append(r.out, part)
             /\ ~r.finished_output /\ r.out = <<>> => q.out = Append(r.out, part)
             /\ ~r.finished_output /\ r.out # <<>> /\ Last(r.out) # part =>
                    q.out = Append(r.out, part)
             /\ r.out # <<>> /\ Last(r.out) = part => q.out = r.out
             /\ HasBare(r) => HasBare(q)
             /\ part = "bare" => r.finished_output \/ HasBare(q)
<1> DEFINE q == Write(r, part)
<1>1. CASE r.finished_output \/ (r.out # <<>> /\ Last(r.out) = part)
  <2>1. q = r
    BY <1>1 DEF Write
  <2>2. part = "bare" => r.finished_output \/ HasBare(r)
    BY <1>1 DEF HasBare, Response, Last
  <2>3. QED
    BY <1>1, <2>1, <2>2 DEF Keeps
<1>2. CASE ~(r.finished_output \/ (r.out # <<>> /\ Last(r.out) = part))
  <2>1. q = [r EXCEPT !.out = Append(r.out, part)]
    BY <1>2 DEF Write
  <2>2. r.out \in Seq(Part)
    BY DEF Response, Part
  <2>3. /\ Append(r.out, part) \in Seq(Part)
        /\ Len(Append(r.out, part)) = Len(r.out) + 1
        /\ DOMAIN Append(r.out, part) = 1 .. Len(r.out) + 1
        /\ DOMAIN r.out = 1 .. Len(r.out)
        /\ Len(r.out) \in Nat
        /\ \A i \in 1 .. Len(r.out) : Append(r.out, part)[i] = r.out[i]
        /\ Append(r.out, part)[Len(r.out) + 1] = part
    BY <2>2
  <2>4. q.out = Append(r.out, part)
    BY <2>1 DEF Response
  <2>5. q \in Response /\ Keeps(r, q)
    BY <2>1, <2>3 DEF Response, Keeps, Part
  <2>6. (HasBare(r) => HasBare(q)) /\ (part = "bare" => HasBare(q))
    BY <2>3, <2>4 DEF HasBare
  <2>7. QED
    BY <1>2, <2>1, <2>4, <2>5, <2>6 DEF Response
<1>3. QED
  BY <1>1, <1>2

(* vely_gen_header_end, for a response with a header or a silent one.       *)
LEMMA HeaderEndFacts ==
  ASSUME NEW r \in Response
  PROVE  LET q == HeaderEnd(r)
         IN  /\ q \in Response
             /\ Keeps(r, q)
             /\ q.sent_header = r.sent_header
             /\ q.disable_output = r.disable_output
             /\ q.data_was_output
             /\ HasBare(r) => HasBare(q)
             /\ r.finished_output => q.out = r.out
             /\ InOrder(r) /\ (r.sent_header \/ r.silent \/ r.finished_output) =>
                    InOrder(q)
<1> DEFINE q == HeaderEnd(r)
<1>1. CASE r.data_was_output
  BY <1>1 DEF HeaderEnd, Keeps, Response
<1>2. CASE ~r.data_was_output /\ r.silent
  <2>1. q = [r EXCEPT !.data_was_output = TRUE]
    BY <1>2 DEF HeaderEnd
  <2>2. q \in Response /\ Keeps(r, q) /\ q.out = r.out /\ q.data_was_output
    BY <2>1 DEF Keeps, Response
  <2>3. InOrder(r) => InOrder(q)
    BY <1>2, <2>1, <2>2 DEF InOrder, HasBare, SentAsFlagged, Response
  <2>4. QED
    BY <2>1, <2>2, <2>3 DEF Response, HasBare
<1>3. CASE ~r.data_was_output /\ ~r.silent
  <2> DEFINE w == Write(r, "end")
  <2>1. q = [w EXCEPT !.data_was_output = TRUE]
    BY <1>3 DEF HeaderEnd
  <2>2. "end" \in Part
    BY DEF Part
  <2>3. /\ w \in Response
        /\ Keeps(r, w)
        /\ w.sent_header = r.sent_header
        /\ w.disable_output = r.disable_output
        /\ HasBare(r) => HasBare(w)
        /\ r.finished_output => w.out = r.out
        /\ ~r.finished_output /\ r.out # <<>> /\ Last(r.out) # "end" =>
               w.out = Append(r.out, "end")
    BY <2>2, WriteFacts
  <2> HIDE DEF w
  <2>4. /\ q \in Response /\ Keeps(r, q) /\ q.out = w.out /\ q.data_was_output
        /\ q.sent_header = r.sent_header
        /\ q.disable_output = r.disable_output
    BY <2>1, <2>3 DEF Keeps, Response
  <2>5. ASSUME InOrder(r), r.sent_header \/ r.finished_output
        PROVE  InOrder(q)
    <3>1. CASE HasBare(r)
      BY <3>1, <2>3, <2>4 DEF InOrder, HasBare
    <3>2. CASE r.finished_output
      BY <3>2, <2>3, <2>4, <2>5 DEF InOrder, HasBare, Keeps
    <3>3. CASE ~HasBare(r) /\ ~r.finished_output
      <4>1. r.out = <<"header">>
        BY <1>3, <2>5, <3>3 DEF InOrder, SentAsFlagged
      <4>2. w.out = <<"header", "end">>
        BY <4>1, <2>3, <3>3, ShapeFacts
      <4>3. QED
        BY <1>3, <2>5, <3>3, <4>2, <2>4 DEF InOrder, SentAsFlagged, Shapes, Keeps
    <3>4. QED
      BY <3>1, <3>2, <3>3
  <2>6. QED
    BY <1>3, <2>3, <2>4, <2>5 DEF HasBare
<1>4. QED
  BY <1>1, <1>2, <1>3 DEF Response

(* A header line, of a response that had none.                             *)
LEMMA WriteHeaderFacts ==
  ASSUME NEW r \in Response
  PROVE  LET q == WriteHeader([r EXCEPT !.sent_header = TRUE], "header")
         IN  /\ q \in Response
             /\ Keeps(r, q)
             /\ q.sent_header
             /\ q.data_was_output = r.data_was_output
             /\ q.disable_output = r.disable_output
             /\ HasBare(r) => HasBare(q)
             /\ InOrder(r) /\ ~r.sent_header => InOrder(q)
<1>0. PICK h : h = [r EXCEPT !.sent_header = TRUE]
  OBVIOUS
<1> DEFINE w == Write(h, "header")
           q == WriteHeader(h, "header")
<1>1. /\ h \in Response /\ Keeps(r, h) /\ h.sent_header /\ h.out = r.out
      /\ h.data_was_output = r.data_was_output
      /\ h.disable_output = r.disable_output
      /\ HasBare(r) => HasBare(h)
  BY <1>0 DEF Response, Keeps, HasBare
<1>2. CASE h.silent
  <2>1. q = h
    BY <1>2 DEF WriteHeader
  <2>2. InOrder(r) => InOrder(h)
    BY <1>1, <1>2 DEF InOrder, HasBare, SentAsFlagged, Keeps
  <2>3. QED
    BY <1>0, <1>1, <2>1, <2>2
<1>3. CASE ~h.silent
  <2>1. q = w
    BY <1>3 DEF WriteHeader
  <2>2. "header" \in Part /\ h \in Response
    BY <1>1 DEF Part
  <2>3. /\ w \in Response
        /\ Keeps(h, w)
        /\ w.data_was_output = h.data_was_output
        /\ w.sent_header = h.sent_header
        /\ w.disable_output = h.disable_output
        /\ HasBare(h) => HasBare(w)
        /\ \/ w.out = h.out
           \/ ~h.finished_output /\ w.out = Append(h.out, "header")
        /\ ~h.finished_output /\ h.out = <<>> => w.out = Append(h.out, "header")
    BY <2>2, WriteFacts
  <2> HIDE DEF w
  <2>4. ASSUME InOrder(r), ~r.sent_header
        PROVE  InOrder(w)
    <3>1. CASE HasBare(r)
      BY <3>1, <1>1, <2>3 DEF InOrder
    <3>2. CASE r.finished_output /\ ~HasBare(r)
      BY <3>2, <1>1, <2>3, <2>4 DEF InOrder, Keeps
    <3>3. CASE ~HasBare(r) /\ ~r.finished_output
      <4>1. r.out = <<>> /\ ~r.data_was_output
        BY <1>1, <1>3, <2>4, <3>3 DEF InOrder, SentAsFlagged, Keeps
      <4>2. w.out = <<"header">>
        BY <4>1, <1>1, <2>3, <3>3, ShapeFacts DEF Keeps
      <4>3. QED
        BY <1>1, <1>3, <4>1, <4>2, <2>3 DEF InOrder, SentAsFlagged, Shapes, Keeps
    <3>4. QED
      BY <3>1, <3>2, <3>3
  <2>5. QED
    BY <1>0, <1>1, <2>1, <2>3, <2>4 DEF Keeps
<1>4. QED
  BY <1>2, <1>3

(* vely_output_http_header keeps a response in order.                      *)
LEMMA OutputHttpHeaderFacts ==
  ASSUME NEW r \in Response
  PROVE  LET q == OutputHttpHeader(r)
         IN  q \in Response /\ Keeps(r, q) /\ (InOrder(r) => InOrder(q))
<1>1. CASE r.sent_header \/ r.disable_output
  BY <1>1 DEF OutputHttpHeader, Keeps
<1>2. CASE ~(r.sent_header \/ r.disable_output)
  <2>1. OutputHttpHeader(r) = WriteHeader([r EXCEPT !.sent_header = TRUE], "header")
    BY <1>2 DEF OutputHttpHeader
  <2>2. QED
    BY <1>2, <2>1, WriteHeaderFacts
<1>3. QED
  BY <1>1, <1>2

(* An error page keeps a response in order, whatever was sent before.      *)
LEMMA ErrorPageFacts ==
  ASSUME NEW r \in Response
  PROVE  LET q == ErrorPage(r)
         IN  /\ q \in Response
             /\ Keeps(r, q)
             /\ q.sent_header
             /\ q.data_was_output
             /\ InOrder(r) => InOrder(q)
<1>1. CASE r.sent_header
  <2>1. ErrorPage(r) = HeaderEnd(r)
    BY <1>1 DEF ErrorPage
  <2>2. QED
    BY <1>1, <2>1, HeaderEndFacts
<1>2. CASE ~r.sent_header
  <2>1. PICK h : h = WriteHeader([r EXCEPT !.sent_header = TRUE], "header")
    OBVIOUS
  <2>2. /\ h \in Response
        /\ Keeps(r, h)
        /\ h.sent_header
        /\ InOrder(r) => InOrder(h)
    BY <1>2, <2>1, WriteHeaderFacts
  <2>3. ErrorPage(r) = HeaderEnd(h)
    BY <1>2, <2>1 DEF ErrorPage
  <2>4. LET q == HeaderEnd(h)
        IN  /\ q \in Response
            /\ Keeps(h, q)
            /\ q.sent_header
            /\ q.data_was_output
            /\ InOrder(h) => InOrder(q)
    BY <2>2, HeaderEndFacts
  <2>5. QED
    BY <2>2, <2>3, <2>4 DEF Keeps
<1>3. QED
  BY <1>1, <1>2

(* Data goes after the end of the header.                                  *)
LEMMA WriteWebFacts ==
  ASSUME NEW r \in Response, r.sent_header
  PROVE  LET q == WriteWeb(r)
         IN  q \in Response /\ Keeps(r, q) /\ (InOrder(r) => InOrder(q))
<1>1. PICK h : h = HeaderEnd(r)
  OBVIOUS
<1>2. /\ h \in Response
      /\ Keeps(r, h)
      /\ h.sent_header
      /\ h.data_was_output
      /\ InOrder(r) => InOrder(h)
  BY <1>1, HeaderEndFacts DEF Keeps
<1>3. PICK w : w = Write(h, "body")
  OBVIOUS
<1>4. "body" \in Part /\ h \in Response
  BY <1>2 DEF Part
<1>5. /\ w \in Response
      /\ Keeps(h, w)
      /\ w.data_was_output = h.data_was_output
      /\ w.sent_header = h.sent_header
      /\ \/ w.out = h.out
         \/ ~h.finished_output /\ w.out = Append(h.out, "body")
      /\ ~h.finished_output /\ h.out = <<>> => w.out = Append(h.out, "body")
      /\ ~h.finished_output /\ h.out # <<>> /\ Last(h.out) # "body" =>
             w.out = Append(h.out, "body")
      /\ h.out # <<>> /\ Last(h.out) = "body" => w.out = h.out
      /\ HasBare(h) => HasBare(w)
  BY <1>3, <1>4, WriteFacts
<1>6. ASSUME InOrder(h)
      PROVE  InOrder(w)
  <2>1. CASE HasBare(h)
    BY <2>1, <1>5 DEF InOrder
  <2>2. CASE h.finished_output /\ ~HasBare(h)
    BY <2>2, <1>5, <1>6 DEF InOrder, Keeps
  <2>3. CASE ~HasBare(h) /\ ~h.finished_output
    <3>1. \/ h.silent /\ h.out \in {<<>>, <<"body">>}
          \/ ~h.silent /\ h.out \in {<<"header", "end">>, <<"header", "end", "body">>}
      BY <1>2, <1>6, <2>3 DEF InOrder, SentAsFlagged
    <3>2. \/ h.silent /\ w.out = <<"body">>
          \/ ~h.silent /\ w.out = <<"header", "end", "body">>
      BY <3>1, <1>5, <2>3, ShapeFacts
    <3>3. QED
      BY <3>2, <1>2, <1>5 DEF InOrder, SentAsFlagged, Shapes, Keeps
  <2>4. QED
    BY <2>1, <2>2, <2>3
<1>7. QED
  BY <1>1, <1>2, <1>3, <1>5, <1>6 DEF WriteWeb, Keeps

(* The answers 204 and 304, whose header is not noted.                     *)
LEMMA BareFacts ==
  ASSUME NEW r \in Response
  PROVE  LET q == HeaderEnd(WriteHeader(r, "bare"))
         IN  q \in Response /\ Keeps(r, q) /\ (InOrder(r) => InOrder(q))
<1>1. CASE r.silent
  BY <1>1, HeaderEndFacts DEF WriteHeader
<1>2. CASE ~r.silent
  <2>1. PICK w : w = Write(r, "bare")
    OBVIOUS
  <2>2. "bare" \in Part
    BY DEF Part
  <2>3. /\ w \in Response
        /\ Keeps(r, w)
        /\ w.data_was_output = r.data_was_output
        /\ w.sent_header = r.sent_header
        /\ \/ w.out = r.out
           \/ ~r.finished_output
        /\ HasBare(r) => HasBare(w)
        /\ r.finished_output \/ HasBare(w)
    BY <2>1, <2>2, WriteFacts
  <2>4. InOrder(r) => InOrder(w)
    BY <2>3 DEF InOrder, HasBare, Keeps
  <2>5. LET q == HeaderEnd(w)
        IN  /\ q \in Response
            /\ Keeps(w, q)
            /\ HasBare(w) => HasBare(q)
            /\ InOrder(w) /\ w.finished_output => InOrder(q)
    BY <2>3, HeaderEndFacts
  <2>6. WriteHeader(r, "bare") = w
    BY <1>2, <2>1 DEF WriteHeader
  <2>7. QED
    BY <2>3, <2>4, <2>5, <2>6 DEF Keeps, InOrder
<1>3. QED
  BY <1>1, <1>2

(* vely_out_file keeps a response without a header in order.               *)
LEMMA DeliverFacts ==
  ASSUME NEW r \in Response, NEW file \in {"missing", "matching", "changed"}
  PROVE  LET q == Deliver(r, file)
         IN  /\ q \in Response
             /\ Keeps(r, q)
             /\ q.disable_output
             /\ InOrder(r) /\ ~r.sent_header => InOrder(q)
<1>1. PICK d : d = [r EXCEPT !.disable_output = TRUE]
  OBVIOUS
<1>2. /\ d \in Response
      /\ Keeps(r, d)
      /\ d.disable_output
      /\ d.sent_header = r.sent_header
      /\ InOrder(r) => InOrder(d)
  BY <1>1 DEF Response, Keeps, InOrder, HasBare, SentAsFlagged
<1>3. CASE file = "missing"
  <2>1. Deliver(r, file) = ErrorPage(d)
    BY <1>1, <1>3 DEF Deliver
  <2>2. QED
    BY <1>2, <2>1, ErrorPageFacts DEF Keeps
<1>4. CASE file = "matching"
  <2>1. Deliver(r, file) = HeaderEnd(WriteHeader(d, "bare"))
    BY <1>1, <1>4 DEF Deliver
  <2>2. LET q == HeaderEnd(WriteHeader(d, "bare"))
        IN  q \in Response /\ Keeps(d, q) /\ (InOrder(d) => InOrder(q))
    BY <1>2, BareFacts
  <2>3. QED
    BY <1>2, <2>1, <2>2 DEF Keeps
<1>5. CASE file = "changed"
  <2>1. PICK h : h = WriteHeader([d EXCEPT !.sent_header = TRUE], "header")
    OBVIOUS
  <2>2. /\ h \in Response
        /\ Keeps(d, h)
        /\ h.sent_header
        /\ InOrder(d) /\ ~d.sent_header => InOrder(h)
    BY <1>2, <2>1, WriteHeaderFacts
  <2>3. Deliver(r, file) = WriteWeb(h)
    BY <1>1, <1>5, <2>1 DEF Deliver
  <2>4. LET q == WriteWeb(h)
        IN  q \in Response /\ Keeps(h, q) /\ (InOrder(h) => InOrder(q))
    BY <2>2, WriteWebFacts
  <2>5. QED
    BY <1>2, <2>2, <2>3, <2>4 DEF Keeps
<1>6. QED
  BY <1>3, <1>4, <1>5

(* vely_shut ends the header that was sent, if the client is there.        *)
LEMMA ShutFacts ==
  ASSUME NEW r \in Response, ~r.is_shut
  PROVE  LET q == Shut(r)
         IN  /\ q \in Response
             /\ InOrder(r) => InOrder(q)
             /\ q.disable_output = r.disable_output
             /\ InOrder(r) /\ q.out = <<"header">> => r.finished_output
<1>1. PICK d : d = [r EXCEPT !.is_shut = TRUE]
  OBVIOUS
<1>2. /\ d \in Response
      /\ d.sent_header = r.sent_header
      /\ d.disable_output = r.disable_output
      /\ d.finished_output = r.finished_output
      /\ d.silent = r.silent
      /\ d.data_was_output = r.data_was_output
      /\ d.out = r.out
      /\ InOrder(r) => InOrder(d)
  BY <1>1 DEF Response, InOrder, HasBare, SentAsFlagged
<1>3. ~(\E i \in DOMAIN <<"header">> : <<"header">>[i] = "bare")
  OBVIOUS
<1>4. CASE r.sent_header
  <2>1. PICK q : q = HeaderEnd(d)
    OBVIOUS
  <2>2. Shut(r) = q
    BY <1>1, <1>2, <1>4, <2>1 DEF Shut
  <2>3. /\ q \in Response
        /\ Keeps(d, q)
        /\ q.disable_output = d.disable_output
        /\ q.sent_header
        /\ q.data_was_output
        /\ InOrder(d) => InOrder(q)
    BY <1>2, <1>4, <2>1, HeaderEndFacts
  <2>4. InOrder(q) /\ q.out = <<"header">> => q.finished_output
    BY <2>3, <1>3, ShapeFacts DEF InOrder, HasBare, SentAsFlagged
  <2>5. QED
    BY <1>2, <2>2, <2>3, <2>4 DEF Keeps
<1>5. CASE ~r.sent_header
  <2>1. Shut(r) = d
    BY <1>1, <1>2, <1>5 DEF Shut
  <2>2. InOrder(d) /\ d.out = <<"header">> => d.finished_output
    BY <1>2, <1>3, <1>5, ShapeFacts DEF InOrder, HasBare, SentAsFlagged
  <2>3. QED
    BY <1>2, <2>1, <2>2
<1>6. QED
  BY <1>4, <1>5

Between == {"leaving", "accept", "accepted", "setup"}
Serving == User \cup {"setjmp", "input", "dispatch", "unwind", "check", "end_point"}

\* The flags of the jumps.
JumpInv ==
    /\ in_fatal_exit => end_program
    /\ pc \in Serving \cup {"setup", "finish"} => in_request
    /\ pc \in {"input", "dispatch", "before", "handler", "after", "unwind", "check"} =>
           done_err_setjmp \/ in_fatal_exit
    /\ pc \in {"after", "check"} => ~done_setjmp
    /\ done_setjmp => done_init
    /\ done_init => pc # "startup"
    /\ pc = "before" => ~req_done
    /\ pc = "handler" => req_done
    /\ pc \in Serving \ {"startup", "end_point"} => done_init
    /\ "error" \in resumed => in_fatal_exit /\ pc \notin Between

TxnInv ==
    txn \in {"before", "handler", "after"} =>
        pc \in {"before", "handler", "after", "unwind", "check"} \cup Ended

\* Did e run in this request?
Ran(e) == \E i \in DOMAIN log : log[i] = e

\* How many entries without an error the log has at most, at each place.
Stage == CASE pc \in {"startup", "setjmp", "input", "dispatch"} -> 0
           [] pc = "before" -> 1
           [] pc = "handler" -> 2
           [] pc = "unwind" -> IF req_done THEN 2 ELSE 1
           [] OTHER -> 3

Ordered ==
    \A i \in DOMAIN log :
        /\ \A j \in 1 .. i - 1 : log[i] # "error" => log[j] # log[i]
        /\ log[i] = "handler" => \E j \in 1 .. i - 1 : log[j] = "before"
        /\ log[i] = "after" => \E j \in 1 .. i - 1 : log[j] = "handler"

LogInv ==
    /\ Ordered
    /\ pc = "setup" => log = <<>>
    /\ pc \in Serving =>
           /\ in_report <=> Ran("error")
           /\ Len(log) <= Stage + (IF in_report THEN 1 ELSE 0)
           /\ Stage = 0 => ~Ran("before")
           /\ Stage <= 1 => ~Ran("handler")
           /\ Stage <= 2 => ~Ran("after")
    /\ pc \in {"before", "handler", "after"} => Ran("before")
    /\ pc \in {"handler", "after"} => Ran("handler")
    /\ pc = "unwind" /\ req_done => Ran("before") /\ Ran("handler")
    /\ pc = "after" => Ran("after")
    /\ pc = "check" /\ Ran("handler") => Ran("after")
    /\ pc \in {"end_point", "finish"} /\ Ran("handler") => Ran("after") \/ Ran("error")

RespInv ==
    /\ "error" \notin resumed => InOrder(resp)
    /\ pc \in Serving => ~resp.is_shut /\ (resp.finished_output => resp.disable_output)
    /\ pc \in Serving \ {"check", "end_point"} => resp.strings <= MaxNested
    /\ "error" \notin resumed /\ pc \in {"finish", "leaving", "accept"} /\ resp.out = <<"header">>
         => resp.disable_output

-----------------------------------------------------------------------------
(* Types                                                                   *)

Entry == {"before", "handler", "after", "error"}

(* What vely_report_error leaves behind has its type.                      *)
LEMMA ReportType ==
  ASSUME TypeOK,
         NEW r \in Response, NEW ret \in Places, NEW rest \in Response,
         ReportErrorFrom(r, ret, rest)
  PROVE  /\ pc' \in Places
         /\ in_report' \in BOOLEAN
         /\ txn' \in User \cup {"none"}
         /\ resp' \in Response
         /\ log' \in Seq(Entry)
         /\ resumed' \subseteq {"exit", "error"}
<1>1. /\ in_report \in BOOLEAN /\ txn \in User \cup {"none"} /\ resp \in Response
      /\ log \in Seq(Entry) /\ resumed \subseteq {"exit", "error"}
  BY DEF TypeOK, Entry
<1>2. {"fatal", "end_point"} \subseteq Places
  BY DEF Places, Ended
<1>3. CASE Fatal
  BY <1>1, <1>2, <1>3 DEF Fatal
<1>4. CASE ~Fatal
  <2>1. /\ in_report' = TRUE
        /\ txn' = "none"
        /\ log' = Note("error")
        /\ \/ pc' = "end_point" /\ resp' = ErrorPage(r) /\ resumed' = resumed
           \/ pc' = ret /\ resp' = rest /\ resumed' = resumed \cup {"error"}
    BY <1>4 DEF ReportErrorFrom
  <2>2. Note("error") \in Seq(Entry)
    BY <1>1 DEF Note, Entry
  <2>3. ErrorPage(r) \in Response
    BY ErrorPageFacts
  <2>4. QED
    BY <1>1, <1>2, <2>1, <2>2, <2>3
<1>5. QED
  BY <1>3, <1>4

(* The responses of the statements have their type.                        *)
LEMMA ResponseTypes ==
  ASSUME NEW r \in Response
  PROVE  /\ NewResponse \in Response
         /\ Finish(r) \in Response
         /\ FinishOutput(r) \in Response
         /\ [r EXCEPT !.silent = TRUE] \in Response
         /\ Shut(r) \in Response
         /\ AnswerOptions(r) \in Response
         /\ r.sent_header => WriteWeb(r) \in Response
         /\ r.strings <= MaxNested => OpenString(r) \in Response
         /\ InString(r) => CloseString(r) \in Response
<1>1. NewResponse \in Response
  BY MaxNestedAssumption DEF NewResponse, Response
<1>2. /\ Finish(r) \in Response
      /\ FinishOutput(r) \in Response
      /\ [r EXCEPT !.silent = TRUE] \in Response
  BY DEF Finish, FinishOutput, Response
<1>3. Shut(r) \in Response
  <2>1. CASE r.is_shut
    BY <2>1 DEF Shut
  <2>2. CASE ~r.is_shut
    BY <2>2, ShutFacts
  <2>3. QED
    BY <2>1, <2>2
<1>4. AnswerOptions(r) \in Response
  BY BareFacts DEF AnswerOptions
<1>5. r.sent_header => WriteWeb(r) \in Response
  BY WriteWebFacts
<1>6. /\ r.strings <= MaxNested => OpenString(r) \in Response
      /\ InString(r) => CloseString(r) \in Response
  BY MaxNestedAssumption DEF OpenString, CloseString, InString, Response
<1>7. QED
  BY <1>1, <1>2, <1>3, <1>4, <1>5, <1>6

(* Every step of the worker keeps the types.                               *)
LEMMA TypeStep == TypeOK /\ [Next]_vars => TypeOK'
<1> SUFFICES ASSUME TypeOK, [Next]_vars PROVE TypeOK'
  OBVIOUS
<1> USE DEF sigVars, jmpVars, loopVars, reqVars
<1>1. /\ resp \in Response /\ log \in Seq(Entry) /\ pc \in Places
      /\ User \subseteq Places /\ "unwind" \in Places /\ "end_point" \in Places
      /\ "crashed" \in Places /\ "fatal" \in Places
  BY DEF TypeOK, Entry, Places, Ended
<1>2. /\ ErrorPage(resp) \in Response /\ ErrorPage(resp).sent_header
      /\ \A e \in Entry : Note(e) \in Seq(Entry)
  BY <1>1, ErrorPageFacts DEF Note
<1>3. \A r \in Response : Respond(r) => TypeOK'
  BY DEF Respond, TypeOK
<1>4. CASE Accept
  BY <1>4 DEF Accept, TypeOK, Places
<1>5. CASE EnterRequest
  BY <1>5 DEF EnterRequest, TypeOK, Places
<1>6. CASE Setup
  BY <1>1, <1>6, ResponseTypes DEF Setup, TypeOK, Places, User, ReportAfterReset
<1>7. CASE SetErrJmp
  BY <1>7 DEF SetErrJmp, TypeOK, Places
<1>8. CASE GetInput
  <2>0. {"input", "crashed"} \subseteq Places
    BY <1>1 DEF Places
  <2>1. ASSUME NEW ret \in {"input", "crashed"},
               ReportErrorFrom(ErrorPage(resp), ret, ErrorPage(resp))
        PROVE  TypeOK'
    BY <1>1, <1>2, <1>8, <2>0, <2>1, ReportType DEF GetInput, TypeOK, Entry
  <2>2. CASE \A ret \in {"input", "crashed"} :
                 ~ReportErrorFrom(ErrorPage(resp), ret, ErrorPage(resp))
    <3>1. AnswerOptions(resp) \in Response
      BY <1>1, ResponseTypes
    <3>2. QED
      BY <1>8, <2>2, <3>1 DEF GetInput, TypeOK, Places
  <2>3. QED
    BY <2>1, <2>2
<1>9. CASE Dispatch
  <2>1. CASE ReportErrorFrom(ErrorPage(resp), "unwind", ErrorPage(resp))
    BY <1>1, <1>2, <1>9, <2>1, ReportType DEF Dispatch, TypeOK, Entry
  <2>2. CASE ~ReportErrorFrom(ErrorPage(resp), "unwind", ErrorPage(resp))
    BY <1>2, <1>9, <2>2 DEF Dispatch, TypeOK, Places, User, Entry
  <2>3. QED
    BY <2>1, <2>2
<1>10. CASE Unwind
  BY <1>2, <1>10 DEF Unwind, TypeOK, Places, User, Entry, FlagAfterUnwind
<1>11. CASE Check
  <2>1. CASE OpenTransaction
    BY <1>1, <1>2, <1>11, <2>1, ReportType DEF Check, TypeOK, Entry
  <2>2. CASE ~OpenTransaction
    BY <1>11, <2>2 DEF Check, TypeOK, Places
  <2>3. QED
    BY <2>1, <2>2
<1>12. CASE EndPoint
  BY <1>1, <1>12, ResponseTypes DEF EndPoint, TypeOK, Places
<1>13. CASE FinishRequest
  BY <1>1, <1>13, ResponseTypes DEF FinishRequest, TypeOK, Places, Ended
<1>14. CASE Leave
  BY <1>14 DEF Leave, TypeOK, Places
<1>15. CASE OutHeader
  BY <1>1, <1>3, <1>15, OutputHttpHeaderFacts DEF OutHeader
<1>16. CASE SilentHeader
  BY <1>1, <1>3, <1>16, ResponseTypes DEF SilentHeader
<1>17. CASE FinishOutputStmt
  BY <1>1, <1>3, <1>17, ResponseTypes DEF FinishOutputStmt
<1>18. CASE Output
  <2>1. CASE MayPut(resp)
    <3>1. Put(resp) \in Response
      BY <1>1, <2>1, ResponseTypes DEF Put, MayPut
    <3>2. QED
      BY <1>3, <1>18, <2>1, <3>1 DEF Output
  <2>2. CASE ~MayPut(resp)
    <3>1. WriteWeb(ErrorPage(resp)) \in Response
      BY <1>2, WriteWebFacts
    <3>2. PICK rest \in Response : ReportErrorFrom(resp, pc, rest)
      BY <1>2, <1>18, <2>2, <3>1 DEF Output
    <3>3. UNCHANGED <<sigVars, jmpVars, loopVars>>
      BY <1>18, <2>2 DEF Output
    <3>4. QED
      BY <1>1, <3>2, <3>3, ReportType DEF TypeOK, Entry
  <2>3. QED
    BY <2>1, <2>2
<1>19. CASE WriteString
  <2>0. resp.strings <= MaxNested
    BY <1>1, <1>19, MaxNestedAssumption DEF WriteString, Response
  <2>1. CASE resp.strings < MaxNested /\ Respond(OpenString(resp))
    BY <1>1, <1>3, <2>0, <2>1, ResponseTypes
  <2>2. CASE ~(resp.strings < MaxNested /\ Respond(OpenString(resp)))
    <3>1. OpenString(resp) \in Response
      BY <1>1, <2>0, ResponseTypes
    <3>2. ErrorPage(OpenString(resp)) \in Response
      BY <3>1, ErrorPageFacts
    <3>3. /\ ReportErrorFrom(OpenString(resp), "crashed", ErrorPage(OpenString(resp)))
          /\ UNCHANGED <<sigVars, jmpVars, loopVars>>
      BY <1>19, <2>2 DEF WriteString
    <3>4. QED
      BY <1>1, <3>1, <3>2, <3>3, ReportType DEF TypeOK, Entry
  <2>3. QED
    BY <2>1, <2>2
<1>20. CASE EndWriteString
  <2>1. CASE InString(resp)
    BY <1>1, <1>3, <1>20, <2>1, ResponseTypes DEF EndWriteString
  <2>2. CASE ~InString(resp)
    <3>1. /\ ReportErrorFrom(resp, "crashed", ErrorPage(resp))
          /\ UNCHANGED <<sigVars, jmpVars, loopVars>>
      BY <1>20, <2>2 DEF EndWriteString
    <3>2. QED
      BY <1>1, <1>2, <3>1, ReportType DEF TypeOK, Entry
  <2>3. QED
    BY <2>1, <2>2
<1>21. ASSUME NEW file \in {"missing", "matching", "changed"}, SendFile(file)
       PROVE  TypeOK'
  <2>1. CASE Respond(Deliver(resp, file))
    BY <1>1, <1>3, <2>1, DeliverFacts
  <2>2. CASE ~Respond(Deliver(resp, file))
    <3>1. Deliver(ErrorPage(resp), file) \in Response
      BY <1>2, DeliverFacts
    <3>2. PICK rest \in Response, ret \in Places : ReportErrorFrom(resp, ret, rest)
      BY <1>1, <1>2, <1>21, <2>2, <3>1 DEF SendFile
    <3>3. UNCHANGED <<sigVars, jmpVars, loopVars>>
      BY <1>21, <2>2 DEF SendFile
    <3>4. QED
      BY <1>1, <3>2, <3>3, ReportType DEF TypeOK, Entry
  <2>3. QED
    BY <2>1, <2>2
<1>22. CASE BeginTransaction
  BY <1>22 DEF BeginTransaction, TypeOK
<1>23. CASE EndTransaction
  BY <1>23 DEF EndTransaction, TypeOK
<1>24. CASE ReportError
  BY <1>1, <1>2, <1>24, ReportType DEF ReportError, TypeOK, Entry
<1>25. CASE ExitRequest
  BY <1>1, <1>25 DEF ExitRequest, TypeOK, AfterJump
<1>26. CASE Return
  BY <1>2, <1>26 DEF Return, TypeOK, Places, User, Entry
<1>27. CASE SigTerm
  BY <1>1, <1>27 DEF SigTerm, TypeOK
<1>28. CASE Crash
  BY <1>1, <1>28 DEF Crash, TypeOK
<1>29. CASE UNCHANGED vars
  BY <1>29 DEF vars, TypeOK
<1>30. QED
  BY <1>4, <1>5, <1>6, <1>7, <1>8, <1>9, <1>10, <1>11, <1>12, <1>13, <1>14,
     <1>15, <1>16, <1>17, <1>18, <1>19, <1>20, <1>21, <1>22, <1>23, <1>24,
     <1>25, <1>26, <1>27, <1>28, <1>29 DEF Next, Loop, Statement, Gone

(* The variables of the worker always have the values the code gives them. *)
THEOREM TypeCorrect == Spec => []TypeOK
<1>1. Init => TypeOK
  <2>1. Finish(NewResponse) \in Response
    <3>1. NewResponse \in Response
      BY MaxNestedAssumption DEF NewResponse, Response
    <3>2. QED
      BY <3>1, ResponseTypes
  <2>2. SUFFICES ASSUME Init PROVE TypeOK
    OBVIOUS
  <2>3. /\ req_done \in BOOLEAN /\ in_request \in BOOLEAN /\ end_program \in BOOLEAN
        /\ in_fatal_exit \in BOOLEAN /\ handlers \in BOOLEAN /\ done_init \in BOOLEAN
        /\ done_err_setjmp \in BOOLEAN /\ done_setjmp \in BOOLEAN
        /\ in_report \in BOOLEAN
    BY <2>2 DEF Init
  <2>4. /\ pc \in Places /\ txn \in User \cup {"none"} /\ resp \in Response
        /\ log \in Seq({"before", "handler", "after", "error"})
        /\ resumed \subseteq {"exit", "error"}
    BY <2>1, <2>2 DEF Init, Places
  <2>5. QED
    BY <2>3, <2>4 DEF TypeOK
<1>2. TypeOK /\ [Next]_vars => TypeOK'
  BY TypeStep
<1>3. QED
  BY <1>1, <1>2, PTL DEF Spec

-----------------------------------------------------------------------------
(* What an error and a statement may do                                    *)

\* The three ways vely_report_error goes on.
ErrorFatal ==
    /\ pc' = "fatal"
    /\ in_report \/ txn # "none" \/ (~done_err_setjmp /\ ~in_fatal_exit)
    /\ UNCHANGED reqVars

ErrorNoted == /\ ~in_report
              /\ in_report' = TRUE
              /\ txn' = "none"
              /\ log' = Note("error")

ErrorJump == /\ ErrorNoted
             /\ done_err_setjmp
             /\ pc' = "end_point"
             /\ UNCHANGED resumed

ErrorReturn == /\ ErrorNoted
               /\ in_fatal_exit
               /\ resumed' = resumed \cup {"error"}

(* vely_report_error ends the worker, jumps or returns.                    *)
LEMMA ReportCases ==
  ASSUME NEW r, NEW ret, NEW rest, ReportErrorFrom(r, ret, rest)
  PROVE  \/ ErrorFatal
         \/ ErrorJump /\ resp' = ErrorPage(r)
         \/ ErrorReturn /\ pc' = ret /\ resp' = rest
  BY DEF ReportErrorFrom, Fatal, RollbackMayFail, ErrorFatal, ErrorJump,
         ErrorReturn, ErrorNoted, reqVars

\* A statement that is no error and no jump.
Plain == /\ pc' = pc
         /\ txn' \in {txn, pc, "none"}
         /\ resumed' \in {resumed, resumed \cup {"exit"}}
         /\ UNCHANGED <<in_report, log>>

ExitJump == /\ done_setjmp
            /\ pc' = "unwind"
            /\ UNCHANGED reqVars

(* A statement of the application goes on, jumps, or is in error; it does  *)
(* not change the flags of the loop, of the jumps or of the signals.       *)
LEMMA StatementCases ==
  ASSUME Statement
  PROVE  /\ pc \in User
         /\ UNCHANGED <<sigVars, jmpVars, loopVars>>
         /\ \/ Plain
            \/ ExitJump
            \/ ErrorFatal
            \/ ErrorJump
            \/ ErrorReturn /\ pc' \in {pc, "crashed", "fatal"}
<1>1. ASSUME NEW r, Respond(r)
      PROVE  pc \in User /\ UNCHANGED <<sigVars, jmpVars, loopVars>> /\ Plain
  BY <1>1 DEF Respond, Plain
<1>2. ASSUME NEW r, NEW ret \in {pc, "crashed", "fatal"}, NEW rest,
             ReportErrorFrom(r, ret, rest)
      PROVE  ErrorFatal \/ ErrorJump \/ (ErrorReturn /\ pc' \in {pc, "crashed", "fatal"})
  BY <1>2, ReportCases
<1>3. CASE OutHeader \/ SilentHeader \/ FinishOutputStmt
  BY <1>1, <1>3 DEF OutHeader, SilentHeader, FinishOutputStmt
<1>4. CASE Output
  BY <1>1, <1>2, <1>4 DEF Output
<1>5. CASE WriteString
  BY <1>1, <1>2, <1>5 DEF WriteString
<1>6. CASE EndWriteString
  BY <1>1, <1>2, <1>6 DEF EndWriteString
<1>7. ASSUME NEW file \in {"missing", "matching", "changed"}, SendFile(file)
      PROVE  /\ pc \in User
             /\ UNCHANGED <<sigVars, jmpVars, loopVars>>
             /\ \/ Plain \/ ErrorFatal \/ ErrorJump
                \/ ErrorReturn /\ pc' \in {pc, "crashed", "fatal"}
  BY <1>1, <1>2, <1>7 DEF SendFile
<1>8. CASE BeginTransaction \/ EndTransaction
  BY <1>8 DEF BeginTransaction, EndTransaction, Plain
<1>9. CASE ReportError
  BY <1>2, <1>9 DEF ReportError
<1>10. CASE ExitRequest
  BY <1>10 DEF ExitRequest, Plain, ExitJump, AfterJump, reqVars
<1>11. QED
  BY <1>3, <1>4, <1>5, <1>6, <1>7, <1>8, <1>9, <1>10 DEF Statement

-----------------------------------------------------------------------------
(* The jumps and the transaction                                           *)

(* Every step keeps the flags of the jumps in line with the place.         *)
LEMMA JumpStep == TypeOK /\ JumpInv /\ [Next]_vars => JumpInv'
<1> SUFFICES ASSUME TypeOK, JumpInv, [Next]_vars PROVE JumpInv'
  OBVIOUS
<1> USE DEF sigVars, jmpVars, loopVars, reqVars, JumpInv, Serving, Between, User, Ended
<1>1. CASE Accept
  BY <1>1 DEF Accept
<1>2. CASE EnterRequest
  BY <1>2 DEF EnterRequest
<1>3. CASE Setup
  BY <1>3 DEF Setup
<1>4. CASE SetErrJmp
  BY <1>4 DEF SetErrJmp
<1>5. CASE GetInput
  BY <1>5, ReportCases DEF GetInput, ErrorFatal, ErrorJump, ErrorReturn
<1>6. CASE Dispatch
  BY <1>6, ReportCases DEF Dispatch, ErrorFatal, ErrorJump, ErrorReturn
<1>7. CASE Unwind
  BY <1>7 DEF Unwind, FlagAfterUnwind
<1>8. CASE Check
  BY <1>8, ReportCases DEF Check, ErrorFatal, ErrorJump, ErrorReturn
<1>9. CASE EndPoint
  BY <1>9 DEF EndPoint
<1>10. CASE FinishRequest
  BY <1>10 DEF FinishRequest, Ending
<1>11. CASE Leave
  BY <1>11 DEF Leave
<1>12. CASE Statement
  BY <1>12, StatementCases DEF Plain, ExitJump, ErrorFatal, ErrorJump, ErrorReturn
<1>13. CASE Return
  BY <1>13 DEF Return
<1>14. CASE SigTerm
  BY <1>14 DEF SigTerm
<1>15. CASE Crash
  BY <1>15 DEF Crash
<1>16. CASE UNCHANGED vars
  BY <1>16 DEF vars
<1>17. QED
  BY <1>1, <1>2, <1>3, <1>4, <1>5, <1>6, <1>7, <1>8, <1>9, <1>10, <1>11, <1>12,
     <1>13, <1>14, <1>15, <1>16 DEF Next, Loop, Gone

(* Only the code of a request and what follows it see its transaction.     *)
LEMMA TxnStep == TypeOK /\ TxnInv /\ [Next]_vars => TxnInv'
<1> SUFFICES ASSUME TypeOK, TxnInv, [Next]_vars PROVE TxnInv'
  OBVIOUS
<1> USE DEF sigVars, jmpVars, loopVars, reqVars, TxnInv, User, Ended
<1>1. CASE Accept \/ EnterRequest \/ Setup \/ SetErrJmp
  BY <1>1 DEF Accept, EnterRequest, Setup, SetErrJmp
<1>2. CASE GetInput
  BY <1>2, ReportCases DEF GetInput, ErrorFatal, ErrorJump, ErrorReturn, ErrorNoted
<1>3. CASE Dispatch
  BY <1>3, ReportCases DEF Dispatch, ErrorFatal, ErrorJump, ErrorReturn, ErrorNoted
<1>4. CASE Check
  BY <1>4, ReportCases
     DEF Check, OpenTransaction, ErrorFatal, ErrorJump, ErrorReturn, ErrorNoted
<1>5. CASE Unwind \/ EndPoint \/ FinishRequest \/ Leave
  BY <1>5 DEF Unwind, EndPoint, FinishRequest, Leave
<1>6. CASE Statement
  BY <1>6, StatementCases
     DEF Plain, ExitJump, ErrorFatal, ErrorJump, ErrorReturn, ErrorNoted
<1>7. CASE Return
  BY <1>7 DEF Return
<1>8. CASE SigTerm \/ Crash
  BY <1>8 DEF SigTerm, Crash
<1>9. CASE UNCHANGED vars
  BY <1>9 DEF vars
<1>10. QED
  BY <1>1, <1>2, <1>3, <1>4, <1>5, <1>6, <1>7, <1>8, <1>9 DEF Next, Loop, Gone

(* No transaction of a request outlives it: an error rolls it back before  *)
(* it jumps (velyrt.c:658-668), and a request that did not fail goes       *)
(* through vely_check_transaction (v1.c:6962).                             *)
THEOREM TransactionsEnd == Spec => []NoOpenTransaction
<1>1. Init => TxnInv
  BY DEF Init, TxnInv
<1>2. TypeOK /\ TxnInv => NoOpenTransaction
  BY DEF TypeOK, TxnInv, NoOpenTransaction, User, Ended
<1>3. QED
  BY <1>1, <1>2, TxnStep, TypeCorrect, PTL DEF Spec

-----------------------------------------------------------------------------
(* The order of the handlers                                               *)

(* What one more entry does to the log.                                    *)
LEMMA NoteFacts ==
  ASSUME log \in Seq(Entry), Len(log) < 6, NEW e \in Entry, log' = Note(e)
  PROVE  /\ Len(log') = Len(log) + 1
         /\ \A x \in Entry : Ran(x)' <=> (Ran(x) \/ x = e)
         /\ /\ Ordered
            /\ e # "error" => ~Ran(e)
            /\ e = "handler" => Ran("before")
            /\ e = "after" => Ran("handler")
            => Ordered'
<1> DEFINE n == Len(log)
<1>1. /\ n \in Nat /\ DOMAIN log = 1 .. n
      /\ Len(log') = n + 1 /\ DOMAIN log' = 1 .. n + 1
      /\ \A i \in 1 .. n : log'[i] = log[i]
      /\ log'[n + 1] = e
  BY DEF Note
<1> HIDE DEF n
<1>2. \A x \in Entry : Ran(x)' <=> (Ran(x) \/ x = e)
  BY <1>1 DEF Ran
<1>3. ASSUME Ordered,
             e # "error" => ~Ran(e),
             e = "handler" => Ran("before"),
             e = "after" => Ran("handler")
      PROVE  Ordered'
  <2> SUFFICES ASSUME NEW i \in 1 .. n + 1
               PROVE  /\ \A j \in 1 .. i - 1 : log'[i] # "error" => log'[j] # log'[i]
                      /\ log'[i] = "handler" => \E j \in 1 .. i - 1 : log'[j] = "before"
                      /\ log'[i] = "after" => \E j \in 1 .. i - 1 : log'[j] = "handler"
    BY <1>1 DEF Ordered
  <2>1. CASE i = n + 1
    BY <1>1, <1>3, <2>1 DEF Ran
  <2>2. CASE i \in 1 .. n
    <3>1. \A j \in 1 .. i - 1 : j \in 1 .. n
      BY <1>1, <2>2
    <3>2. QED
      BY <1>1, <1>3, <2>2, <3>1 DEF Ordered
  <2>3. QED
    BY <1>1, <2>1, <2>2
<1>4. QED
  BY <1>1, <1>2, <1>3 DEF n

(* At each place the log holds what the dispatcher ran to come there.      *)
LEMMA LogStep == TypeOK /\ JumpInv /\ LogInv /\ [Next]_vars => LogInv'
<1> SUFFICES ASSUME TypeOK, JumpInv, LogInv, [Next]_vars PROVE LogInv'
  OBVIOUS
<1> USE DEF sigVars, jmpVars, loopVars, reqVars, Serving, User, Ended
<1>0. /\ log \in Seq(Entry) /\ Len(log) \in Nat
      /\ {"before", "handler", "after", "error"} \subseteq Entry
      /\ in_report \in BOOLEAN /\ req_done \in BOOLEAN
  BY DEF TypeOK, Entry
<1>1. ASSUME UNCHANGED log
      PROVE  (Ordered' <=> Ordered) /\ \A x \in Entry : Ran(x)' <=> Ran(x)
  BY <1>1 DEF Ordered, Ran
<1>2. ASSUME pc' \notin Serving \cup {"setup", "finish"}, UNCHANGED log
      PROVE  LogInv'
  BY <1>1, <1>2 DEF LogInv
<1>3. ASSUME ErrorNoted, pc \in Serving, UNCHANGED req_done \/ pc = "dispatch",
             \/ pc' = pc \/ pc' \in Ended \cup {"end_point"}
             \/ pc = "dispatch" /\ pc' = "unwind" /\ req_done' = FALSE
      PROVE  LogInv'
  <2>1. Len(log) <= Stage /\ Stage <= 3 /\ Stage \in Nat
    BY <1>3 DEF LogInv, ErrorNoted, Stage
  <2>2. /\ Len(log') = Len(log) + 1
        /\ \A x \in Entry : Ran(x)' <=> (Ran(x) \/ x = "error")
        /\ Ordered'
    BY <1>0, <1>3, <2>1, NoteFacts DEF LogInv, ErrorNoted
  <2>3. Stage' >= Stage /\ Stage' \in Nat
    BY <1>3 DEF Stage
  <2>4. in_report' = TRUE
    BY <1>3 DEF ErrorNoted
  <2>5. QED
    BY <1>0, <1>3, <2>1, <2>2, <2>3, <2>4 DEF LogInv, Stage
<1>4. CASE Accept \/ Leave \/ Crash
  BY <1>2, <1>4 DEF Accept, Leave, Crash
<1>5. CASE EnterRequest
  BY <1>5 DEF EnterRequest, LogInv, Ordered, Ran
<1>6. CASE Setup
  BY <1>6 DEF Setup, LogInv, Ordered, Ran, ReportAfterReset, Stage
<1>7. CASE SetErrJmp
  BY <1>0, <1>1, <1>7 DEF SetErrJmp, LogInv, Stage
<1>8. CASE GetInput
  <2>1. CASE ErrorFatal
    BY <1>2, <2>1 DEF ErrorFatal
  <2>2. CASE ErrorNoted /\ pc' \in {"end_point", "input", "crashed"}
    BY <1>3, <1>8, <2>2 DEF GetInput
  <2>3. CASE pc' \in {"dispatch", "end_point"} /\ UNCHANGED <<in_report, log>>
    BY <1>0, <1>1, <1>8, <2>3 DEF GetInput, LogInv, Stage
  <2>4. QED
    BY <1>8, <2>1, <2>2, <2>3, ReportCases DEF GetInput, ErrorJump, ErrorReturn
<1>9. CASE Dispatch
  <2>1. CASE ErrorFatal
    BY <1>2, <2>1 DEF ErrorFatal
  <2>2. CASE ErrorNoted /\ pc' \in {"end_point", "unwind"}
    BY <1>3, <1>9, <2>2 DEF Dispatch
  <2>3. CASE pc' = "before" /\ log' = Note("before") /\ UNCHANGED in_report
    <3>1. Len(log) <= 1 /\ ~Ran("before") /\ ~Ran("handler") /\ ~Ran("after")
          /\ (in_report <=> Ran("error"))
          /\ Len(log) <= (IF in_report THEN 1 ELSE 0)
      BY <1>0, <1>9 DEF Dispatch, LogInv, Stage
    <3>2. /\ Len(log') = Len(log) + 1
          /\ \A x \in Entry : Ran(x)' <=> (Ran(x) \/ x = "before")
          /\ Ordered'
      BY <1>0, <2>3, <3>1, NoteFacts DEF LogInv
    <3>3. QED
      BY <1>0, <2>3, <3>1, <3>2 DEF LogInv, Stage
  <2>4. QED
    BY <1>9, <2>1, <2>2, <2>3, ReportCases DEF Dispatch, ErrorJump, ErrorReturn
<1>10. CASE Unwind
  <2>1. CASE req_done
    <3>1. /\ ~Ran("after") /\ Ran("before") /\ Ran("handler")
          /\ (in_report <=> Ran("error"))
          /\ Len(log) <= 2 + (IF in_report THEN 1 ELSE 0)
      BY <1>0, <1>10, <2>1 DEF Unwind, LogInv, Stage
    <3>2. /\ Len(log') = Len(log) + 1
          /\ \A x \in Entry : Ran(x)' <=> (Ran(x) \/ x = "after")
          /\ Ordered'
      BY <1>0, <1>10, <2>1, <3>1, NoteFacts DEF Unwind, LogInv
    <3>3. pc' = "after" /\ in_report' = in_report
      BY <1>10, <2>1 DEF Unwind
    <3>4. QED
      BY <1>0, <3>1, <3>2, <3>3 DEF LogInv, Stage
  <2>2. CASE ~req_done
    <3>1. /\ ~Ran("handler") /\ ~Ran("after")
          /\ (in_report <=> Ran("error"))
          /\ Len(log) <= 1 + (IF in_report THEN 1 ELSE 0)
      BY <1>0, <1>10, <2>2 DEF Unwind, LogInv, Stage
    <3>2. pc' = "check" /\ UNCHANGED <<in_report, log>>
      BY <1>10, <2>2 DEF Unwind
    <3>3. QED
      BY <1>0, <1>1, <3>1, <3>2 DEF LogInv, Stage
  <2>3. QED
    BY <2>1, <2>2
<1>11. CASE Check
  <2>1. CASE ErrorFatal
    BY <1>2, <2>1 DEF ErrorFatal
  <2>2. CASE ErrorNoted /\ pc' = "end_point"
    BY <1>3, <1>11, <2>2 DEF Check
  <2>3. CASE pc' = "end_point" /\ UNCHANGED <<in_report, log>>
    BY <1>0, <1>1, <1>11, <2>3 DEF Check, LogInv, Stage
  <2>4. QED
    BY <1>11, <2>1, <2>2, <2>3, ReportCases DEF Check, ErrorJump, ErrorReturn
<1>12. CASE EndPoint
  BY <1>0, <1>1, <1>12 DEF EndPoint, LogInv, Stage
<1>13. CASE FinishRequest
  BY <1>2, <1>13 DEF FinishRequest
<1>14. CASE Statement
  <2>1. /\ pc \in User /\ UNCHANGED req_done
        /\ \/ Plain \/ ExitJump \/ ErrorFatal \/ ErrorJump
           \/ ErrorReturn /\ pc' \in {pc, "crashed", "fatal"}
    BY <1>14, StatementCases
  <2>2. CASE Plain
    BY <1>0, <1>1, <2>1, <2>2 DEF Plain, LogInv, Stage
  <2>3. CASE ExitJump
    <3>1. pc \in {"before", "handler"} /\ (req_done <=> pc = "handler")
      BY <2>1, <2>3 DEF ExitJump, JumpInv
    <3>2. QED
      BY <1>0, <1>1, <2>1, <2>3, <3>1 DEF ExitJump, LogInv, Stage
  <2>4. CASE ErrorFatal
    BY <1>2, <2>4 DEF ErrorFatal
  <2>5. CASE ErrorNoted /\ (pc' = pc \/ pc' \in Ended \cup {"end_point"})
    BY <1>3, <2>1, <2>5
  <2>6. QED
    BY <2>1, <2>2, <2>3, <2>4, <2>5 DEF ErrorJump, ErrorReturn
<1>15. CASE Return
  <2>1. CASE pc = "startup" \/ pc = "after"
    BY <1>0, <1>1, <1>15, <2>1 DEF Return, LogInv, Stage
  <2>2. CASE pc = "before"
    <3>1. /\ ~Ran("handler") /\ ~Ran("after") /\ Ran("before")
          /\ (in_report <=> Ran("error"))
          /\ Len(log) <= 1 + (IF in_report THEN 1 ELSE 0)
      BY <1>0, <2>2 DEF LogInv, Stage
    <3>2. pc' = "handler" /\ log' = Note("handler") /\ UNCHANGED in_report
      BY <1>15, <2>2 DEF Return
    <3>3. /\ Len(log') = Len(log) + 1
          /\ \A x \in Entry : Ran(x)' <=> (Ran(x) \/ x = "handler")
          /\ Ordered'
      BY <1>0, <3>1, <3>2, NoteFacts DEF LogInv
    <3>4. QED
      BY <1>0, <3>1, <3>2, <3>3 DEF LogInv, Stage
  <2>3. CASE pc = "handler"
    <3>1. req_done
      BY <2>3 DEF JumpInv
    <3>2. QED
      BY <1>0, <1>1, <1>15, <2>3, <3>1 DEF Return, LogInv, Stage
  <2>4. QED
    BY <1>15, <2>1, <2>2, <2>3 DEF Return
<1>16. CASE SigTerm
  BY <1>0, <1>1, <1>2, <1>16 DEF SigTerm, LogInv, Stage
<1>17. CASE UNCHANGED vars
  BY <1>0, <1>1, <1>17 DEF vars, LogInv, Stage
<1>18. QED
  BY <1>4, <1>5, <1>6, <1>7, <1>8, <1>9, <1>10, <1>11, <1>12,
     <1>13, <1>14, <1>15, <1>16, <1>17 DEF Next, Loop, Gone

(* At most _before(), the handler and _after() run, each once and in this  *)
(* order, and _after() is not skipped unless there was an error, whichever *)
(* of them uses exit-request and whenever a signal comes (vv:1101-1111).   *)
THEOREM HandlersRunInOrder == Spec => []HandlersInOrder
<1>1. Init => JumpInv /\ LogInv
  BY DEF Init, JumpInv, LogInv, Serving, Between, User, Ordered, Ran
<1>2. TypeOK /\ LogInv => HandlersInOrder
  <2> SUFFICES ASSUME TypeOK, LogInv PROVE HandlersInOrder
    OBVIOUS
  <2>1. log \in Seq(Entry) /\ DOMAIN log = 1 .. Len(log) /\ Len(log) \in Nat
    BY DEF TypeOK, Entry
  <2>2. Ordered /\ (pc = "finish" /\ Ran("handler") => Ran("after") \/ Ran("error"))
    BY DEF LogInv
  <2>3. ASSUME NEW i \in DOMAIN log
        PROVE  /\ log[i] # "error" => ~\E j \in 1 .. i - 1 : log[j] = log[i]
               /\ log[i] = "handler" => \E j \in 1 .. i - 1 : log[j] = "before"
               /\ log[i] = "after" => \E j \in 1 .. i - 1 : log[j] = "handler"
    BY <2>2 DEF Ordered
  <2>4. (pc = "finish" /\ \E i \in 1 .. Len(log) : log[i] = "handler") =>
            \/ \E i \in 1 .. Len(log) : log[i] = "after"
            \/ \E i \in 1 .. Len(log) : log[i] = "error"
    BY <2>1, <2>2 DEF Ran
  <2>5. QED
    BY <2>3, <2>4 DEF HandlersInOrder
<1>3. QED
  BY <1>1, <1>2, JumpStep, LogStep, TypeCorrect, PTL DEF Spec

(* report-error in a request that has not failed before ends the request   *)
(* and not the worker, unless its rollback fails (velyrt.c:654, 3650): the *)
(* jump is set while the code of a request runs, or a signal took it away, *)
(* and then the error returns.                                             *)
THEOREM ErrorsSurvived == Spec => ErrorSurvived
<1> DEFINE Survives == (pc \in User \ {"startup"} /\ pc' = "fatal") =>
                          (txn # "none" \/ \E i \in DOMAIN log' : log'[i] = "error")
<1>1. ASSUME TypeOK, JumpInv, LogInv, [Next]_vars
      PROVE  Survives
  <2> SUFFICES ASSUME pc \in {"before", "handler", "after"}, pc' = "fatal"
               PROVE  txn # "none" \/ \E i \in DOMAIN log' : log'[i] = "error"
    BY DEF User
  <2>1. log \in Seq(Entry) /\ Len(log) \in Nat /\ "error" \in Entry /\ pc \in Serving
    BY <1>1 DEF TypeOK, Entry, Serving, User
  <2>2. Statement
    <3>1. ~SigTerm
      BY <1>1, <2>1 DEF SigTerm, JumpInv
    <3>2. QED
      BY <1>1, <3>1 DEF Next, Loop, Accept, EnterRequest, Setup, SetErrJmp,
         GetInput, Dispatch, Unwind, Check, EndPoint, FinishRequest, Leave,
         Return, Crash, Gone, Ended, vars
  <2>3. \/ ErrorFatal
        \/ ErrorNoted
    BY <2>2, StatementCases DEF Plain, ExitJump, ErrorJump, ErrorReturn
  <2>4. CASE ErrorFatal
    <3>1. txn # "none" \/ in_report
      BY <1>1, <2>4 DEF ErrorFatal, JumpInv
    <3>2. in_report => Ran("error")
      BY <1>1, <2>1 DEF LogInv
    <3>3. log' = log
      BY <2>4 DEF ErrorFatal, reqVars
    <3>4. QED
      BY <3>1, <3>2, <3>3 DEF Ran
  <2>5. CASE ErrorNoted
    <3>1. Len(log) < 6
      BY <1>1, <2>1, <2>5 DEF ErrorNoted, LogInv, Stage
    <3>2. Ran("error")'
      BY <2>1, <2>5, <3>1, NoteFacts DEF ErrorNoted
    <3>3. QED
      BY <3>2 DEF Ran
  <2>6. QED
    BY <2>3, <2>4, <2>5
<1>2. Init => JumpInv /\ LogInv
  BY DEF Init, JumpInv, LogInv, Serving, Between, User, Ordered, Ran
<1>3. Spec => [](TypeOK /\ JumpInv /\ LogInv)
  BY <1>2, JumpStep, LogStep, TypeCorrect, PTL DEF Spec
<1>4. QED
  BY <1>1, <1>3, PTL DEF Spec, ErrorSurvived

-----------------------------------------------------------------------------
(* The shape of the response                                               *)

(* The statements that do not write keep a response in order.              *)
LEMMA FlagFacts ==
  ASSUME NEW r \in Response
  PROVE  /\ InOrder(r) => InOrder(Finish(r)) /\ InOrder(FinishOutput(r))
         /\ InOrder(r) /\ ~r.sent_header /\ ~r.data_was_output =>
                InOrder([r EXCEPT !.silent = TRUE])
         /\ InOrder(r) => InOrder(OpenString(r)) /\ InOrder(CloseString(r))
<1>1. /\ Finish(r).out = r.out /\ Finish(r).finished_output
      /\ FinishOutput(r).out = r.out /\ FinishOutput(r).finished_output
  BY DEF Finish, FinishOutput, Response
<1>2. ASSUME NEW q, q.out = r.out, q.finished_output, InOrder(r)
      PROVE  InOrder(q)
  BY <1>2 DEF InOrder, HasBare
<1>3. InOrder(r) => InOrder(Finish(r)) /\ InOrder(FinishOutput(r))
  BY <1>1, <1>2
<1>4. ASSUME NEW q, InOrder(r), ~r.sent_header, ~r.data_was_output,
             q = [r EXCEPT !.silent = TRUE]
      PROVE  InOrder(q)
  <2>1. q.out = r.out /\ q.silent /\ q.finished_output = r.finished_output
    BY <1>4 DEF Response
  <2>2. QED
    BY <1>4, <2>1 DEF InOrder, HasBare, SentAsFlagged
<1>5. ASSUME NEW q, NEW n, InOrder(r), q = [r EXCEPT !.strings = n]
      PROVE  InOrder(q)
  <2>1. /\ q.out = r.out /\ q.silent = r.silent /\ q.sent_header = r.sent_header
        /\ q.finished_output = r.finished_output
        /\ q.data_was_output = r.data_was_output
    BY <1>5 DEF Response
  <2>2. QED
    BY <1>5, <2>1 DEF InOrder, HasBare, SentAsFlagged
<1>6. QED
  BY <1>3, <1>4, <1>5 DEF OpenString, CloseString

\* What RespInv says of the flags of a response while it is made.
Open(r) == ~r.is_shut /\ (r.finished_output => r.disable_output)

(* An error leaves a response as RespInv says.                             *)
LEMMA ErrorResp ==
  ASSUME RespInv,
         NEW r \in Response, Open(r), "error" \notin resumed => InOrder(r),
         NEW ret \in User \cup {"crashed", "fatal", "end_point", "unwind", "input"},
         NEW rest \in Response, Open(rest),
         ret \in User \cup {"unwind", "input"} => rest.strings <= MaxNested,
         ReportErrorFrom(r, ret, rest)
  PROVE  RespInv'
<1> USE DEF Serving, User
<1>1. CASE ErrorFatal
  BY <1>1 DEF ErrorFatal, reqVars, RespInv
<1>2. CASE ErrorJump /\ resp' = ErrorPage(r)
  <2>1. /\ ErrorPage(r) \in Response
        /\ Keeps(r, ErrorPage(r))
        /\ InOrder(r) => InOrder(ErrorPage(r))
    BY ErrorPageFacts
  <2>2. QED
    BY <1>2, <2>1 DEF ErrorJump, RespInv, Open, Keeps
<1>3. CASE ErrorReturn /\ pc' = ret /\ resp' = rest
  <2>1. "error" \in resumed'
    BY <1>3 DEF ErrorReturn
  <2>2. QED
    BY <1>3, <2>1 DEF RespInv, Open
<1>4. QED
  BY <1>1, <1>2, <1>3, ReportCases

(* A statement that is not in error leaves a response as RespInv says.     *)
LEMMA RespondResp ==
  ASSUME RespInv,
         NEW r \in Response, Open(r), r.strings <= MaxNested,
         "error" \notin resumed => InOrder(r),
         Respond(r)
  PROVE  RespInv'
  BY DEF RespInv, Respond, User, Serving, Open

(* Statements of the application keep the response as RespInv says.        *)
LEMMA StatementResp ==
  ASSUME TypeOK, RespInv, Statement
  PROVE  RespInv'
<1>1. /\ pc \in User /\ resp \in Response /\ Open(resp)
      /\ resp.strings <= MaxNested /\ resp.strings \in Nat
      /\ "error" \notin resumed => InOrder(resp)
  BY MaxNestedAssumption, StatementCases
     DEF TypeOK, RespInv, Open, Serving, User, Response
<1>2. PICK page : page = ErrorPage(resp)
  OBVIOUS
<1>3. /\ page \in Response /\ Open(page) /\ page.strings <= MaxNested
      /\ page.sent_header
  BY <1>1, <1>2, ErrorPageFacts DEF Keeps, Open
<1>4. ASSUME NEW ret \in User \cup {"crashed", "fatal"}, ReportErrorFrom(resp, ret, page)
      PROVE  RespInv'
  BY <1>1, <1>3, <1>4, ErrorResp
<1>5. ASSUME NEW r, r \in Response, Keeps(resp, r), InOrder(resp) => InOrder(r),
             Respond(r)
      PROVE  RespInv'
  BY <1>1, <1>5, RespondResp DEF Keeps, Open
<1>6. CASE OutHeader
  BY <1>1, <1>5, <1>6, OutputHttpHeaderFacts DEF OutHeader
<1>7. CASE SilentHeader
  <2>1. PICK r : r = [resp EXCEPT !.silent = TRUE]
    OBVIOUS
  <2>2. r \in Response /\ Open(r) /\ r.strings = resp.strings
    BY <1>1, <2>1 DEF Response, Open
  <2>3. "error" \notin resumed => InOrder(r)
    BY <1>1, <1>7, <2>1, FlagFacts DEF SilentHeader
  <2>4. QED
    BY <1>1, <1>7, <2>1, <2>2, <2>3, RespondResp DEF SilentHeader
<1>8. CASE FinishOutputStmt
  <2>1. PICK r : r = FinishOutput(resp)
    OBVIOUS
  <2>2. r \in Response /\ Open(r) /\ r.strings = resp.strings
    BY <1>1, <2>1 DEF Response, Open, Finish, FinishOutput
  <2>3. "error" \notin resumed => InOrder(r)
    BY <1>1, <2>1, FlagFacts
  <2>4. QED
    BY <1>1, <1>8, <2>1, <2>2, <2>3, RespondResp DEF FinishOutputStmt
<1>9. CASE Output
  <2>1. CASE MayPut(resp)
    <3>1. Respond(Put(resp))
      BY <1>9, <2>1 DEF Output
    <3>2. CASE InString(resp)
      BY <1>1, <3>1, <3>2, RespondResp DEF Put
    <3>3. CASE ~InString(resp)
      <4>1. Put(resp) = WriteWeb(resp) /\ resp.sent_header
        BY <2>1, <3>3 DEF Put, MayPut
      <4>2. QED
        BY <1>1, <1>5, <3>1, <4>1, WriteWebFacts
    <3>4. QED
      BY <3>2, <3>3
  <2>2. CASE ~MayPut(resp)
    <3>1. PICK web : web = WriteWeb(page)
      OBVIOUS
    <3>2. web \in Response /\ Open(web) /\ web.strings <= MaxNested
      BY <1>3, <3>1, WriteWebFacts DEF Keeps, Open
    <3>3. \/ ReportErrorFrom(resp, pc, web)
          \/ ReportErrorFrom(resp, pc, page)
      BY <1>2, <1>9, <2>2, <3>1 DEF Output
    <3>4. QED
      BY <1>1, <1>4, <3>2, <3>3, ErrorResp
  <2>3. QED
    BY <2>1, <2>2
<1>10. CASE WriteString
  <2>1. PICK r : r = OpenString(resp)
    OBVIOUS
  <2>2. /\ r \in Response /\ Open(r) /\ r.strings = resp.strings + 1
        /\ "error" \notin resumed => InOrder(r)
    <3>1. r \in Response
      BY <1>1, <2>1, ResponseTypes
    <3>2. Open(r) /\ r.strings = resp.strings + 1
      BY <1>1, <2>1 DEF OpenString, Response, Open
    <3>3. QED
      BY <1>1, <2>1, <3>1, <3>2, FlagFacts
  <2>3. CASE resp.strings < MaxNested /\ Respond(r)
    <3>1. r.strings <= MaxNested
      BY <1>1, <2>2, <2>3, MaxNestedAssumption
    <3>2. QED
      BY <2>2, <2>3, <3>1, RespondResp
  <2>4. CASE ~(resp.strings < MaxNested /\ Respond(r))
    <3>1. ReportErrorFrom(r, "crashed", ErrorPage(r))
      BY <1>10, <2>1, <2>4 DEF WriteString
    <3>2. ErrorPage(r) \in Response /\ Open(ErrorPage(r))
      BY <2>2, ErrorPageFacts DEF Keeps, Open
    <3>3. "crashed" \notin User \cup {"unwind"}
      BY DEF User
    <3>4. QED
      BY <2>2, <3>1, <3>2, <3>3, ErrorResp
  <2>5. QED
    BY <2>3, <2>4
<1>11. CASE EndWriteString
  <2>1. CASE InString(resp)
    <3>1. PICK r : r = CloseString(resp)
      OBVIOUS
    <3>2. r \in Response
      BY <1>1, <2>1, <3>1, ResponseTypes
    <3>3. Open(r) /\ r.strings = resp.strings - 1
      BY <1>1, <3>1 DEF CloseString, Response, Open
    <3>4. r.strings <= MaxNested
      BY <1>1, <3>3, MaxNestedAssumption
    <3>5. QED
      BY <1>1, <1>11, <2>1, <3>1, <3>2, <3>3, <3>4, FlagFacts, RespondResp
         DEF EndWriteString
  <2>2. CASE ~InString(resp)
    BY <1>2, <1>4, <1>11, <2>2 DEF EndWriteString
  <2>3. QED
    BY <2>1, <2>2
<1>12. ASSUME NEW file \in {"missing", "matching", "changed"}, SendFile(file)
       PROVE  RespInv'
  <2> DEFINE valid == ~resp.disable_output \/ InString(resp)
  <2>1. CASE valid /\ ~resp.sent_header
    BY <1>1, <1>5, <1>12, <2>1, DeliverFacts DEF SendFile
  <2>2. CASE ~valid
    BY <1>2, <1>4, <1>12, <2>2 DEF SendFile
  <2>3. CASE valid /\ resp.sent_header
    <3>1. PICK web : web = Deliver(page, file)
      OBVIOUS
    <3>2. web \in Response /\ Open(web) /\ web.strings <= MaxNested
      BY <1>3, <3>1, DeliverFacts DEF Keeps, Open
    <3>3. ReportErrorFrom(resp, pc, web)
      BY <1>2, <1>12, <2>3, <3>1 DEF SendFile
    <3>4. QED
      BY <1>1, <3>2, <3>3, ErrorResp
  <2>4. QED
    BY <2>1, <2>2, <2>3
<1>13. CASE BeginTransaction \/ EndTransaction \/ ExitRequest
  <2>1. /\ resp' = resp /\ pc' \in {pc, "unwind"}
        /\ "error" \in resumed' <=> "error" \in resumed
    BY <1>13 DEF BeginTransaction, EndTransaction, ExitRequest, AfterJump
  <2>2. QED
    BY <1>1, <2>1 DEF RespInv, Open, Serving, User
<1>14. CASE ReportError
  BY <1>1, <1>2, <1>4, <1>14 DEF ReportError
<1>15. QED
  BY <1>6, <1>7, <1>8, <1>9, <1>10, <1>11, <1>12, <1>13, <1>14 DEF Statement

(* Every step keeps the response as RespInv says.                          *)
LEMMA RespStep == TypeOK /\ JumpInv /\ RespInv /\ [Next]_vars => RespInv'
<1> SUFFICES ASSUME TypeOK, JumpInv, RespInv, [Next]_vars PROVE RespInv'
  OBVIOUS
<1> USE DEF sigVars, jmpVars, loopVars, reqVars, Serving, User
<1>1. resp \in Response /\ ErrorPage(resp) \in Response
  BY ErrorPageFacts DEF TypeOK
<1>2. /\ Keeps(resp, ErrorPage(resp))
      /\ InOrder(resp) => InOrder(ErrorPage(resp))
  BY <1>1, ErrorPageFacts
<1>3. CASE Accept \/ SetErrJmp \/ Unwind \/ Leave \/ Crash
  BY <1>3 DEF Accept, SetErrJmp, Unwind, Leave, Crash, RespInv
<1>4. CASE EnterRequest
  BY <1>4 DEF EnterRequest, RespInv, JumpInv, Between
<1>5. CASE Setup
  BY <1>5, MaxNestedAssumption
     DEF Setup, RespInv, NewResponse, InOrder, Shapes, SentAsFlagged
<1>6. CASE GetInput
  <2>1. ASSUME NEW ret \in {"input", "crashed"},
               ReportErrorFrom(ErrorPage(resp), ret, ErrorPage(resp))
        PROVE  RespInv'
    <3>1. /\ Open(ErrorPage(resp)) /\ ErrorPage(resp).strings <= MaxNested
          /\ "error" \notin resumed => InOrder(ErrorPage(resp))
      BY <1>2, <1>6 DEF GetInput, RespInv, Keeps, Open
    <3>2. QED
      BY <1>1, <2>1, <3>1, ErrorResp
  <2>2. CASE pc' = "dispatch" /\ UNCHANGED <<resp, resumed>>
    BY <1>6, <2>2 DEF GetInput, RespInv
  <2>3. CASE pc' = "end_point" /\ resp' = AnswerOptions(resp) /\ UNCHANGED resumed
    <3>1. LET q == AnswerOptions(resp)
          IN  q \in Response /\ Keeps(resp, q) /\ (InOrder(resp) => InOrder(q))
      BY <1>1, BareFacts DEF AnswerOptions
    <3>2. QED
      BY <1>6, <2>3, <3>1 DEF GetInput, RespInv, Keeps
  <2>4. QED
    BY <1>6, <2>1, <2>2, <2>3 DEF GetInput
<1>7. CASE Dispatch
  <2>1. CASE ReportErrorFrom(ErrorPage(resp), "unwind", ErrorPage(resp))
    <3>1. /\ Open(ErrorPage(resp)) /\ ErrorPage(resp).strings <= MaxNested
          /\ "error" \notin resumed => InOrder(ErrorPage(resp))
      BY <1>2, <1>7 DEF Dispatch, RespInv, Keeps, Open
    <3>2. QED
      BY <1>1, <2>1, <3>1, ErrorResp
  <2>2. CASE pc' = "before" /\ UNCHANGED <<resp, resumed>>
    BY <1>7, <2>2 DEF Dispatch, RespInv
  <2>3. QED
    BY <1>7, <2>1, <2>2 DEF Dispatch
<1>8. CASE Check
  <2>1. CASE OpenTransaction
    <3>1. /\ Open(resp) /\ Open(ErrorPage(resp))
          /\ "error" \notin resumed => InOrder(resp)
      BY <1>2, <1>8 DEF Check, RespInv, Keeps, Open
    <3>2. "end_point" \notin User \cup {"unwind"}
      OBVIOUS
    <3>3. QED
      BY <1>1, <1>8, <2>1, <3>1, <3>2, ErrorResp DEF Check
  <2>2. CASE ~OpenTransaction
    BY <1>8, <2>2 DEF Check, RespInv
  <2>3. QED
    BY <2>1, <2>2
<1>9. CASE EndPoint
  <2>1. /\ Open(resp)
        /\ "error" \notin resumed => InOrder(resp)
    BY <1>9 DEF EndPoint, RespInv, Open
  <2>2. LET q == Shut(resp)
        IN  /\ q \in Response
            /\ InOrder(resp) => InOrder(q)
            /\ q.disable_output = resp.disable_output
            /\ InOrder(resp) /\ q.out = <<"header">> => resp.finished_output
    BY <1>1, <2>1, ShutFacts DEF Open
  <2>3. QED
    BY <1>9, <2>1, <2>2 DEF EndPoint, RespInv, Open
<1>10. CASE FinishRequest
  <2>1. /\ Finish(resp).out = resp.out
        /\ Finish(resp).disable_output = resp.disable_output
    BY <1>1 DEF Finish, Response
  <2>2. InOrder(resp) => InOrder(Finish(resp))
    BY <1>1, FlagFacts
  <2>3. QED
    BY <1>10, <2>1, <2>2 DEF FinishRequest, RespInv
<1>11. CASE Statement
  BY <1>11, StatementResp
<1>12. CASE Return
  BY <1>12 DEF Return, RespInv
<1>13. CASE SigTerm
  BY <1>13 DEF SigTerm, RespInv
<1>14. CASE UNCHANGED vars
  BY <1>14 DEF vars, RespInv
<1>15. QED
  BY <1>3, <1>4, <1>5, <1>6, <1>7, <1>8, <1>9, <1>10, <1>11, <1>12,
     <1>13, <1>14 DEF Next, Loop, Gone

(* The invariant of the response holds from the start.                     *)
LEMMA RespAlways == Spec => [](TypeOK /\ JumpInv /\ RespInv)
<1>1. Init => JumpInv /\ RespInv
  <2> SUFFICES ASSUME Init PROVE JumpInv /\ RespInv
    OBVIOUS
  <2>1. resp.out = <<>> /\ resp.finished_output
    BY DEF Init, Finish, NewResponse
  <2>2. <<>> # <<"header">>
    OBVIOUS
  <2>3. QED
    BY <2>1, <2>2 DEF Init, JumpInv, RespInv, Serving, Between, User, InOrder, Shapes
<1>2. QED
  BY <1>1, JumpStep, RespStep, TypeCorrect, PTL DEF Spec

(* A client gets one header, its end once and then data (velyrt.c:2972-    *)
(* 2996, 3128-3156, 3340-3357), the two known ways around it aside.        *)
THEOREM ResponseWellFormed == Spec => []WellFormed
<1>1. RespInv => WellFormed
  BY DEF RespInv, InOrder, HasBare, WellFormed
<1>2. QED
  BY <1>1, RespAlways, PTL

(* A header that was sent is ended when the request is over (velyrt.c:     *)
(* 2492), unless the application closed the connection itself.             *)
THEOREM HeaderIsEnded == Spec => []HeaderEnded
<1>1. JumpInv /\ RespInv => HeaderEnded
  BY DEF JumpInv, RespInv, HeaderEnded, Between
<1>2. QED
  BY <1>1, RespAlways, PTL
=============================================================================
