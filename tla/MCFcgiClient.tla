---------------------------- MODULE MCFcgiClient ----------------------------
(***************************************************************************)
(* FcgiClient for TLC: both streams, with and without padding, records     *)
(* without a message, an end of the right and of the wrong length, a       *)
(* server that is overloaded, an unknown type and a bad header.            *)
(***************************************************************************)
EXTENDS FcgiClient

Rec(type, len, pad) == [type |-> type, len |-> len, pad |-> pad, good |-> TRUE]

MCRecords ==
    <<{Rec("STDOUT", 1, 0), Rec("STDERR", 1, 1), Rec("END", 8, 1), Rec("END", 7, 0),
       Rec("BUSY", 8, 0), Rec("UNK", 0, 1), [Rec("END", 8, 0) EXCEPT !.good = FALSE]},
      {Rec("STDOUT", 0, 1), Rec("END", 8, 0)}>>

MCMaxRecords == <<3, 1>>

MCTimeouts == <<{"set"}, {"set", "bad"}>>
=============================================================================
