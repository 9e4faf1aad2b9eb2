---------------------------- MODULE MCVelyInput ----------------------------
(***************************************************************************)
(* VelyInput for TLC: query strings of up to MaxQuery parts, bodies of     *)
(* each type with and without one, forms with files, paths, and the        *)
(* headers that are missing, too large or contradict each other.           *)
(***************************************************************************)
EXTENDS VelyInput

CONSTANT MaxQuery   \* bound on the parts of a query string

A == <<"a">>
BC == <<"b-c">>

Simple == [method |-> "GET", ctype |-> "", clen |-> "none", arrives |-> TRUE,
           body |-> <<>>, parts |-> <<>>, query |-> <<>>, path |-> "plain",
           segs |-> <<<<"r">>>>, cookies |-> <<>>]

Part(name, isfile, file, kind) ==
    [name |-> name, value |-> IF isfile THEN Empty ELSE <<"1">>, isfile |-> isfile,
     file |-> file, kind |-> kind]

Pair1 == <<A, Eq, <<"1">>>>
Pair2 == <<BC, Eq, <<"a">>>>

\* What may stand between two "&".
QueryParts == {<<>>, <<A>>, <<Eq>>, <<A, Eq>>, <<Eq, <<"1">>>>, Pair1, Pair2,
               <<A, Eq, Eq>>, <<BC, Eq, <<"1">>, Eq, A>>,
               <<BC, BC, Eq, A, BC>>}

Queries == {Tail(FlattenSeq([i \in DOMAIN ps |-> <<Amp>> \o ps[i]])) :
               ps \in BoundedSeq(QueryParts, MaxQuery) \ {<<>>}}

Forms == BoundedSeq({Part(A, FALSE, Empty, "good"), Part(BC, TRUE, Empty, "good"),
                     Part(BC, TRUE, <<"f">>, "good"), Part(BC, TRUE, <<"f">>, "fails"),
                     Part(A, FALSE, Empty, "malformed")}, 2)

MCRequests ==
    {[Simple EXCEPT !.query = q] : q \in Queries}
    \cup {[Simple EXCEPT !.method = m, !.ctype = t, !.clen = l, !.arrives = a, !.query = q,
                         !.body = Pair1, !.parts = f] :
             m \in {"", "GET", "POST", "OPTIONS", "DELETE"},
             t \in {"", "urlencoded", "multipart", "unbounded", "other"},
             l \in {"none", "zero", "fits", "large"}, a \in BOOLEAN,
             q \in {<<>>, Pair2}, f \in Forms}
    \cup {[Simple EXCEPT !.path = p, !.segs = s, !.query = q] :
             p \in {"plain", "closed", "open", "foreign"},
             s \in BoundedSeq({A, BC, Empty, <<"a", "=", "1">>}, 3),
             q \in {<<>>, Pair1, <<<<"req">>, Eq, A>>, <<<<"req">>, Eq>>}}
    \cup {[Simple EXCEPT !.query = Pair1, !.cookies = c] :
             c \in BoundedSeq({<<"x", "1">>, <<"y", "2">>}, MaxCookies + 1)
                   \cup BoundedSeq({<<"x", "1">>, <<"y/", "3">>}, 2)}

MCUnderscored == [w \in {"a", "b-c", "b_c", "1", "r", "req", "true", "path", "ext", "size",
                         "filename", "location", "f", "="} |-> IF w = "b-c" THEN "b_c" ELSE w]

MCNames == {A, <<"b_c">>}
MCValues == {<<"s">>}
=============================================================================
