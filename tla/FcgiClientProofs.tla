-------------------------- MODULE FcgiClientProofs --------------------------
(***************************************************************************)
(* Proofs about FcgiClient, for any number of servers and for answers of   *)
(* any number of records.                                                  *)
(*                                                                         *)
(* Good says what a request has read at each place of vv_fc_request, and   *)
(* Owned and Counting what vv_call_fcgi knows of its threads.              *)
(***************************************************************************)
EXTENDS FcgiClient, FiniteSetTheorems, TLAPS

Codes == {"OKAY", "CONNECT", "TIMEOUT", "ENV", "SOCK_WRITE", "SOCK_READ", "PROT_ERR",
          "UNK", "SRV", "BAD_TIMEOUT", "none"}

ACall == [pc : {"idle", "start", "connect", "write", "read", "ended"},
          timeout : {"none", "set", "bad"}, invalid : BOOLEAN,
          sock : BOOLEAN, interrupted : BOOLEAN, expired : BOOLEAN, stale : BOOLEAN,
          read_status : Codes, return_code : Codes, result : Codes,
          header : Record \cup {NoRecord}, msg_remain : Nat, padding_len : Nat,
          read_done : BOOLEAN, headers : Nat, data : Seq(Nat), error : Seq(Nat)]

AServer == [sent : Seq(Record), parts : 0 .. 3, flood : BOOLEAN,
            closed : {"no", "orderly", "reset"}]

\* The records with a message on a stream, among the first m.
Messages(v, type, m) == {n \in 1 .. m : v.sent[n].type = type /\ v.sent[n].len > 0}

\* What was read of the first m records.
HasRead(r, v, m) == /\ InOrder(r.data, Messages(v, "STDOUT", m))
                    /\ InOrder(r.error, Messages(v, "STDERR", m))

\* The answer ended with its end record, and all of it was read.
Whole(r, v) ==
    /\ v.sent # <<>>
    /\ v.sent[Len(v.sent)].type = "END" /\ v.sent[Len(v.sent)].len = 8
    /\ v.parts >= 2
    /\ HasRead(r, v, Len(v.sent))

\* A request before or between two headers.
Between(r, v) ==
    /\ r.headers \in {Len(v.sent), Len(v.sent) - 1}
    /\ ~r.read_done
    /\ HasRead(r, v, r.headers)

\* A request after a header, before or after its message.
Within(r, v) ==
    /\ r.headers = Len(v.sent) /\ Len(v.sent) > 0
    /\ r.header = v.sent[Len(v.sent)]
    /\ r.msg_remain > 0 =>
           /\ ~r.read_done
           /\ r.msg_remain = r.header.len
           /\ HasRead(r, v, Len(v.sent) - 1)
    /\ r.msg_remain = 0 => HasRead(r, v, Len(v.sent))
    /\ r.read_done => r.header.type = "END" /\ r.header.len = 8 /\ v.parts >= 2

Reading(r, v) ==
    /\ ~r.interrupted /\ r.read_status = "OKAY"
    /\ IF r.header = NoRecord THEN Between(r, v) ELSE Within(r, v)

Good(r, v) ==
    /\ r \in ACall /\ v \in AServer
    /\ r.sock => r.pc \in {"write", "read"}
    /\ r.pc \in {"start", "connect"} => v = NoServer
    /\ r.pc \in {"connect", "write", "read"} /\ ~r.invalid => Reading(r, v)
    /\ r.pc = "ended" /\ r.result = "OKAY" /\ ~r.invalid => Whole(r, v)

CallsGood == /\ fc \in [Calls -> ACall] /\ srv \in [Calls -> AServer]
             /\ \A c \in Calls : Good(fc[c], srv[c])

AMain == [pc : {"idle", "single", "create", "join"}, req : SUBSET Calls,
          left : SUBSET Calls, started : Nat, finokay : Nat,
          status : {"none", "OKAY", "FAILED"}]

\* A thread that has to be created does not run.
Pending == /\ main \in AMain
           /\ main.left \subseteq main.req
           /\ main.pc = "create" => \A c \in main.left : ~Running(c)

\* A request that runs belongs to the call-server that is under way, which will
\* wait for it.
Owned ==
    \A c \in Calls :
        /\ fc[c].invalid => ~Running(c)
        /\ Running(c) => \/ main.pc = "single" /\ c \in main.req
                         \/ main.pc = "create" /\ c \in main.req \ main.left
                         \/ main.pc = "join" /\ c \in main.left

Valid(S) == {c \in S : ~fc[c].invalid}

\* What vv_call_fcgi has counted.
Counting ==
    /\ main.pc = "single" => Cardinality(main.req) = 1 /\ main.started = 1 /\ main.finokay = 0
    /\ main.pc = "create" =>
           /\ main.finokay = 0 /\ main.status = "none"
           /\ \A c \in main.left : ~fc[c].invalid
           /\ main.started = Cardinality(Valid(main.req \ main.left))
    /\ main.pc = "join" =>
           /\ main.status = "none"
           /\ main.started = Cardinality(Valid(main.req))
           /\ main.finokay <= Cardinality(Valid(main.req \ main.left))
    /\ main.pc = "idle" =>
           /\ main.finokay <= main.started
           /\ main.status = "OKAY" => main.finokay = Cardinality(main.req)

-----------------------------------------------------------------------------
(* Sequences of records                                                    *)

(* Nothing is in order.                                                    *)
LEMMA EmptyInOrder == InOrder(<<>>, {})
BY DEF InOrder

(* A number that is larger than all others comes last.                     *)
LEMMA AppendInOrder ==
  ASSUME NEW s \in Seq(Nat), NEW S, InOrder(s, S), NEW n \in Nat, \A m \in S : m < n
  PROVE  InOrder(Append(s, n), S \cup {n})
<1>1. PICK t : t = Append(s, n)
  OBVIOUS
<1>2. /\ t \in Seq(Nat) /\ Len(t) = Len(s) + 1 /\ DOMAIN t = 1 .. Len(s) + 1
      /\ DOMAIN s = 1 .. Len(s) /\ Len(s) \in Nat
      /\ \A i \in 1 .. Len(s) : t[i] = s[i]
      /\ t[Len(s) + 1] = n
  BY <1>1
<1>3. \A i \in 1 .. Len(s) : s[i] \in S /\ s[i] \in Nat
  <2>1. ASSUME NEW i \in 1 .. Len(s) PROVE s[i] \in S
    <3>1. {s[k] : k \in DOMAIN s} = S
      BY DEF InOrder
    <3>2. QED
      BY <1>2, <3>1
  <2>2. QED
    BY <2>1
<1>4. {t[i] : i \in DOMAIN t} = S \cup {n}
  <2>1. ASSUME NEW x \in S PROVE \E i \in DOMAIN t : t[i] = x
    <3>1. PICK i \in 1 .. Len(s) : s[i] = x
      BY <1>2 DEF InOrder
    <3>2. i \in DOMAIN t /\ t[i] = x
      BY <1>2, <3>1
    <3>3. QED
      BY <3>2
  <2>2. ASSUME NEW i \in DOMAIN t PROVE t[i] \in S \cup {n}
    BY <1>2, <1>3
  <2>3. Len(s) + 1 \in DOMAIN t
    BY <1>2
  <2>4. QED
    BY <1>2, <2>1, <2>2, <2>3
<1>5. ASSUME NEW i \in DOMAIN t, NEW j \in DOMAIN t, i < j PROVE t[i] < t[j]
  <2>1. i \in 1 .. Len(s)
    BY <1>2, <1>5
  <2>2. CASE j \in 1 .. Len(s)
    BY <1>2, <1>5, <2>1, <2>2 DEF InOrder
  <2>3. CASE j = Len(s) + 1
    BY <1>2, <1>3, <2>1, <2>3
  <2>4. QED
    BY <1>2, <2>2, <2>3
<1>6. QED
  BY <1>1, <1>4, <1>5 DEF InOrder

(* One record more.                                                        *)
LEMMA NextMessage ==
  ASSUME NEW v \in AServer, NEW type, Len(v.sent) > 0
  PROVE  LET n == Len(v.sent)
         IN  /\ n \in Nat
             /\ \A m \in Messages(v, type, n - 1) : m < n
             /\ v.sent[n].type = type /\ v.sent[n].len > 0 =>
                    Messages(v, type, n) = Messages(v, type, n - 1) \cup {n}
             /\ ~(v.sent[n].type = type /\ v.sent[n].len > 0) =>
                    Messages(v, type, n) = Messages(v, type, n - 1)
<1>1. PICK n : n = Len(v.sent)
  OBVIOUS
<1>2. n \in Nat /\ n > 0
  BY <1>1 DEF AServer
<1>3. 1 .. n = (1 .. n - 1) \cup {n}
  BY <1>2
<1>4. QED
  BY <1>1, <1>2, <1>3 DEF Messages

(* What the server sends does not change what was sent before.             *)
LEMMA MessagesKept ==
  ASSUME NEW v \in AServer, NEW w \in AServer, NEW rec, NEW type,
         w.sent = Append(v.sent, rec)
  PROVE  /\ Len(w.sent) = Len(v.sent) + 1
         /\ Messages(w, type, Len(v.sent)) = Messages(v, type, Len(v.sent))
<1>1. v.sent \in Seq(Record)
  BY DEF AServer
<1>2. Len(w.sent) = Len(v.sent) + 1 /\ Len(v.sent) \in Nat
  BY <1>1
<1>3. \A n \in 1 .. Len(v.sent) : w.sent[n] = v.sent[n]
  BY <1>1
<1>4. QED
  BY <1>2, <1>3 DEF Messages

-----------------------------------------------------------------------------
(* How a request ends                                                      *)

(* A new server has read nothing.                                          *)
LEMMA NewCallFacts ==
  ASSUME NEW t \in {"none", "set", "bad"}
  PROVE  LET r == NewCall(t)
         IN  /\ r \in ACall
             /\ r.pc = "idle" /\ r.timeout = t /\ r.invalid = FALSE /\ r.sock = FALSE
             /\ r.interrupted = FALSE /\ r.read_status = "OKAY" /\ r.result = "none"
             /\ r.header = NoRecord /\ r.headers = 0 /\ r.read_done = FALSE
             /\ r.msg_remain = 0 /\ r.data = <<>> /\ r.error = <<>>
BY DEF NewCall, ACall, Codes

(* The other end before the connection.                                    *)
LEMMA NoServerFacts ==
  /\ NoServer \in AServer /\ NoServer.sent = <<>>
  /\ \A type : Messages(NoServer, type, 0) = {}
BY DEF NoServer, AServer, Messages

(* VV_FC_RET: what is left of a request.                                   *)
LEMMA ReturnedFacts ==
  ASSUME NEW r \in ACall, NEW rc \in Codes
  PROVE  LET q == Returned(r, rc)
         IN  /\ q \in ACall /\ q.pc = "ended" /\ q.sock = FALSE /\ q.invalid = r.invalid
             /\ q.result = IF r.interrupted THEN "TIMEOUT" ELSE rc
             /\ q.data = r.data /\ q.error = r.error
<1>1. PICK code : code = IF r.interrupted THEN "TIMEOUT" ELSE rc
  OBVIOUS
<1>2. code \in Codes
  BY <1>1 DEF Codes
<1>3. PICK n : n = NewCall(r.timeout)
  OBVIOUS
<1>4. n \in ACall /\ n.sock = FALSE
  BY <1>3, NewCallFacts DEF ACall
<1>5. PICK q : q = [n EXCEPT !.pc = "ended", !.invalid = r.invalid,
                             !.return_code = code, !.result = code,
                             !.data = r.data, !.error = r.error]
  OBVIOUS
<1>6. /\ q \in ACall /\ q.pc = "ended" /\ q.sock = FALSE /\ q.invalid = r.invalid
      /\ q.result = code /\ q.data = r.data /\ q.error = r.error
  BY <1>2, <1>4, <1>5 DEF ACall
<1>7. q = Returned(r, rc)
  BY <1>1, <1>3, <1>5 DEF Returned, Ended
<1>8. QED
  BY <1>1, <1>6, <1>7

\* The request of r ended or goes on as q.
Follows(q, r, v) == /\ Good(q, v)
                    /\ q.invalid = r.invalid
                    /\ q.pc # "idle"

(* A request that ends with an error has nothing to show.                  *)
LEMMA ReturnedGood ==
  ASSUME NEW r \in ACall, NEW v \in AServer, NEW rc \in Codes, rc # "OKAY" \/ r.interrupted
  PROVE  Follows(Returned(r, rc), r, v)
<1>1. PICK q : q = Returned(r, rc)
  OBVIOUS
<1>2. /\ q \in ACall /\ q.pc = "ended" /\ q.sock = FALSE /\ q.invalid = r.invalid
      /\ q.result = IF r.interrupted THEN "TIMEOUT" ELSE rc
  BY <1>1, ReturnedFacts
<1>3. QED
  BY <1>1, <1>2 DEF Good, Follows

(* The same, with the status of the read.                                  *)
LEMMA BadGood ==
  ASSUME NEW r \in ACall, NEW v \in AServer, NEW rc \in Codes, rc # "OKAY"
  PROVE  Follows(Bad(r, rc), r, v)
<1>1. PICK q : q = [r EXCEPT !.read_status = rc]
  OBVIOUS
<1>2. q \in ACall /\ q.invalid = r.invalid
  BY <1>1 DEF ACall
<1>3. Follows(Returned(q, rc), q, v)
  BY <1>2, ReturnedGood
<1>4. QED
  BY <1>1, <1>2, <1>3 DEF Bad, Follows

-----------------------------------------------------------------------------
(* Reading the records of an answer                                        *)

\* The message of the last record has been taken.
Taken(r, v) ==
    /\ ~r.interrupted /\ r.read_status = "OKAY" /\ r.msg_remain = 0
    /\ r.headers = Len(v.sent) /\ Len(v.sent) > 0
    /\ r.header = v.sent[Len(v.sent)]
    /\ HasRead(r, v, Len(v.sent))
    /\ r.read_done => r.header.type = "END" /\ r.header.len = 8 /\ v.parts >= 2

(* A record that was sent is not the absence of one.                       *)
LEMMA SentIsRecord ==
  ASSUME NEW v \in AServer, Len(v.sent) > 0
  PROVE  v.sent[Len(v.sent)] \in Record /\ v.sent[Len(v.sent)] # NoRecord
<1>1. v.sent \in Seq(Record)
  BY DEF AServer
<1>2. v.sent[Len(v.sent)] \in Record
  BY <1>1
<1>3. NoRecord \notin Record
  BY DEF NoRecord, Record
<1>4. QED
  BY <1>2, <1>3

(* The end of a record: the next one, or the end of the answer.            *)
LEMMA EndRecordGood ==
  ASSUME NEW r \in ACall, NEW v \in AServer, r.pc = "read", ~r.invalid => Taken(r, v)
  PROVE  Follows(EndRecord(r), r, v)
<1>1. CASE r.header.type = "UNK"
  BY <1>1, BadGood DEF EndRecord, Codes
<1>2. CASE r.header.type # "UNK" /\ r.padding_len > 0
  <2>1. EndRecord(r) = r
    BY <1>2 DEF EndRecord
  <2>2. ~r.invalid => Reading(r, v)
    BY SentIsRecord DEF Taken, Reading, Within, ACall
  <2>3. QED
    BY <2>1, <2>2 DEF Follows, Good
<1>3. ASSUME r.header.type # "UNK", ~(r.padding_len > 0)
      PROVE  Follows(EndRecord(r), r, v)
  <2>1. PICK q : q = [r EXCEPT !.header = NoRecord]
    OBVIOUS
  <2>2. /\ q \in ACall /\ q.header = NoRecord /\ q.pc = "read" /\ q.invalid = r.invalid
        /\ q.interrupted = r.interrupted /\ q.read_status = r.read_status
        /\ q.headers = r.headers /\ q.read_done = r.read_done
        /\ q.data = r.data /\ q.error = r.error
    BY <2>1 DEF ACall
  <2>3. CASE ~r.read_done
    <3>1. EndRecord(r) = q
      BY <1>3, <2>1, <2>3 DEF EndRecord
    <3>2. ~q.invalid => Reading(q, v)
      BY <2>2, <2>3 DEF Taken, Reading, Between, HasRead
    <3>3. QED
      BY <2>2, <3>1, <3>2 DEF Follows, Good
  <2>4. CASE r.read_done
    <3>1. PICK z : z = Returned(q, r.read_status)
      OBVIOUS
    <3>2. EndRecord(r) = z
      BY <1>3, <2>1, <2>4, <3>1 DEF EndRecord
    <3>3. r.read_status \in Codes
      BY DEF ACall
    <3>4. /\ z \in ACall /\ z.pc = "ended" /\ z.sock = FALSE /\ z.invalid = q.invalid
          /\ z.data = q.data /\ z.error = q.error
      BY <2>2, <3>1, <3>3, ReturnedFacts
    <3>5. ~z.invalid => Whole(z, v)
      <4>1. ASSUME ~z.invalid PROVE Whole(z, v)
        <5>1. Taken(r, v)
          BY <2>2, <3>4, <4>1
        <5>2. HasRead(z, v, Len(v.sent))
          BY <2>2, <3>4, <5>1 DEF Taken, HasRead
        <5>3. v.sent # <<>>
          BY <5>1 DEF Taken
        <5>4. QED
          BY <2>4, <5>1, <5>2, <5>3 DEF Taken, Whole
      <4>2. QED
        BY <4>1
    <3>6. QED
      BY <2>2, <3>2, <3>4, <3>5 DEF Follows, Good
  <2>5. QED
    BY <2>3, <2>4
<1>4. QED
  BY <1>1, <1>2, <1>3 DEF ACall

(* The message of a record goes to its stream, after those before it.      *)
LEMMA TakeMessageGood ==
  ASSUME NEW r \in ACall, NEW v \in AServer, r.pc = "read", Part(r) = 2,
         ~r.invalid => Reading(r, v), v.parts >= 2
  PROVE  Follows(TakeMessage(r, Len(v.sent)), r, v)
<1> DEFINE n == Len(v.sent)
           read == [r EXCEPT !.msg_remain = 0]
<1>1. r.header # NoRecord /\ r.msg_remain > 0
  BY DEF Part
<1>2. r.header \in Record /\ n \in Nat
  BY <1>1 DEF ACall, AServer
<1>3. ASSUME ~r.invalid
      PROVE  /\ ~r.interrupted /\ r.read_status = "OKAY" /\ ~r.read_done
             /\ r.headers = n /\ n > 0 /\ r.header = v.sent[n]
             /\ r.msg_remain = r.header.len /\ r.header.len > 0
             /\ HasRead(r, v, n - 1)
  BY <1>1, <1>3 DEF Reading, Within
<1>4. /\ read \in ACall /\ read.pc = "read" /\ read.invalid = r.invalid
      /\ read.interrupted = r.interrupted /\ read.read_status = r.read_status
      /\ read.msg_remain = 0 /\ read.headers = r.headers /\ read.header = r.header
      /\ read.read_done = r.read_done /\ read.data = r.data /\ read.error = r.error
  BY DEF ACall
<1> HIDE DEF n, read
<1>5. CASE r.header.type = "STDOUT"
  <2>0. PICK x : x = Append(r.data, n)
    OBVIOUS
  <2>1. PICK q : q = [read EXCEPT !.data = x]
    OBVIOUS
  <2>2. /\ q \in ACall /\ q.pc = "read" /\ q.invalid = r.invalid
        /\ q.interrupted = r.interrupted /\ q.read_status = r.read_status
        /\ q.msg_remain = 0 /\ q.headers = r.headers /\ q.header = r.header
        /\ q.read_done = r.read_done /\ q.data = x /\ q.error = r.error
    <3>1. x \in Seq(Nat)
      BY <1>2, <2>0 DEF ACall
    <3>2. QED
      BY <1>4, <2>1, <3>1 DEF ACall
  <2>3. ASSUME ~r.invalid PROVE Taken(q, v)
    <3>1. Len(v.sent) > 0
      BY <1>3, <2>3 DEF n
    <3>2. /\ \A m \in Messages(v, "STDOUT", n - 1) : m < n
          /\ Messages(v, "STDOUT", n) = Messages(v, "STDOUT", n - 1) \cup {n}
          /\ Messages(v, "STDERR", n) = Messages(v, "STDERR", n - 1)
      BY <1>3, <1>5, <2>3, <3>1, NextMessage DEF n
    <3>3. r.data \in Seq(Nat) /\ InOrder(r.data, Messages(v, "STDOUT", n - 1))
      BY <1>3, <2>3 DEF HasRead, ACall
    <3>4. InOrder(q.data, Messages(v, "STDOUT", n))
      BY <1>2, <2>0, <2>2, <3>2, <3>3, AppendInOrder
    <3>5. HasRead(q, v, n)
      BY <1>3, <2>2, <2>3, <3>2, <3>4 DEF HasRead
    <3>6. QED
      BY <1>3, <2>2, <2>3, <3>5 DEF Taken, n
  <2>4. Follows(EndRecord(q), q, v)
    BY <2>2, <2>3, EndRecordGood
  <2>5. TakeMessage(r, n) = EndRecord(q)
    BY <1>5, <1>4, <2>0, <2>1 DEF TakeMessage, read
  <2>6. QED
    BY <2>2, <2>4, <2>5 DEF Follows, n
<1>6. CASE r.header.type = "STDERR"
  <2>0. PICK x : x = Append(r.error, n)
    OBVIOUS
  <2>1. PICK q : q = [read EXCEPT !.error = x]
    OBVIOUS
  <2>2. /\ q \in ACall /\ q.pc = "read" /\ q.invalid = r.invalid
        /\ q.interrupted = r.interrupted /\ q.read_status = r.read_status
        /\ q.msg_remain = 0 /\ q.headers = r.headers /\ q.header = r.header
        /\ q.read_done = r.read_done /\ q.error = x /\ q.data = r.data
    <3>1. x \in Seq(Nat)
      BY <1>2, <2>0 DEF ACall
    <3>2. QED
      BY <1>4, <2>1, <3>1 DEF ACall
  <2>3. ASSUME ~r.invalid PROVE Taken(q, v)
    <3>1. Len(v.sent) > 0
      BY <1>3, <2>3 DEF n
    <3>2. /\ \A m \in Messages(v, "STDERR", n - 1) : m < n
          /\ Messages(v, "STDERR", n) = Messages(v, "STDERR", n - 1) \cup {n}
          /\ Messages(v, "STDOUT", n) = Messages(v, "STDOUT", n - 1)
      BY <1>3, <1>6, <2>3, <3>1, NextMessage DEF n
    <3>3. r.error \in Seq(Nat) /\ InOrder(r.error, Messages(v, "STDERR", n - 1))
      BY <1>3, <2>3 DEF HasRead, ACall
    <3>4. InOrder(q.error, Messages(v, "STDERR", n))
      BY <1>2, <2>0, <2>2, <3>2, <3>3, AppendInOrder
    <3>5. HasRead(q, v, n)
      BY <1>3, <2>2, <2>3, <3>2, <3>4 DEF HasRead
    <3>6. QED
      BY <1>3, <2>2, <2>3, <3>5 DEF Taken, n
  <2>4. Follows(EndRecord(q), q, v)
    BY <2>2, <2>3, EndRecordGood
  <2>5. TakeMessage(r, n) = EndRecord(q)
    BY <1>6, <1>4, <2>0, <2>1 DEF TakeMessage, read
  <2>6. QED
    BY <2>2, <2>4, <2>5 DEF Follows, n
<1>7. ASSUME r.header.type \notin {"STDOUT", "STDERR"}, ~r.invalid
      PROVE  HasRead(r, v, n)
  <2>1. Len(v.sent) > 0
    BY <1>3, <1>7 DEF n
  <2>2. /\ Messages(v, "STDOUT", n) = Messages(v, "STDOUT", n - 1)
        /\ Messages(v, "STDERR", n) = Messages(v, "STDERR", n - 1)
    BY <1>3, <1>7, <2>1, NextMessage DEF n
  <2>3. QED
    BY <1>3, <1>7, <2>2 DEF HasRead
<1>8. CASE r.header.type = "END" /\ r.msg_remain # 8
  <2>1. TakeMessage(r, n) = Bad(read, "PROT_ERR")
    BY <1>8 DEF TakeMessage, read
  <2>2. Follows(Bad(read, "PROT_ERR"), read, v)
    BY <1>4, BadGood DEF Codes
  <2>3. QED
    BY <1>4, <2>1, <2>2 DEF Follows, n
<1>9. CASE r.header.type = "END" /\ r.msg_remain = 8
  <2>1. PICK q : q = [read EXCEPT !.read_done = TRUE]
    OBVIOUS
  <2>2. /\ q \in ACall /\ q.pc = "read" /\ q.invalid = r.invalid
        /\ q.interrupted = r.interrupted /\ q.read_status = r.read_status
        /\ q.msg_remain = 0 /\ q.headers = r.headers /\ q.header = r.header
        /\ q.error = r.error /\ q.data = r.data
    BY <1>4, <2>1 DEF ACall
  <2>3. ASSUME ~r.invalid PROVE Taken(q, v)
    <3>1. HasRead(q, v, n)
      BY <1>7, <1>9, <2>2, <2>3 DEF HasRead
    <3>2. QED
      BY <1>3, <1>9, <2>2, <2>3, <3>1 DEF Taken, n
  <2>4. Follows(EndRecord(q), q, v)
    BY <2>2, <2>3, EndRecordGood
  <2>5. TakeMessage(r, n) = EndRecord(q)
    BY <1>9, <2>1 DEF TakeMessage, read
  <2>6. QED
    BY <2>2, <2>4, <2>5 DEF Follows, n
<1>10. CASE r.header.type = "BUSY"
  <2>1. PICK q : q = [read EXCEPT !.read_done = TRUE]
    OBVIOUS
  <2>2. q \in ACall /\ q.invalid = r.invalid
    BY <1>4, <2>1 DEF ACall
  <2>3. TakeMessage(r, n) = Bad(q, "SRV")
    BY <1>10, <2>1 DEF TakeMessage, read
  <2>4. Follows(Bad(q, "SRV"), q, v)
    BY <2>2, BadGood DEF Codes
  <2>5. QED
    BY <2>2, <2>3, <2>4 DEF Follows, n
<1>11. CASE r.header.type = "UNK"
  <2>1. TakeMessage(r, n) = EndRecord(read)
    BY <1>11 DEF TakeMessage, read
  <2>2. EndRecord(read) = Bad(read, "UNK")
    BY <1>4, <1>11 DEF EndRecord
  <2>3. Follows(Bad(read, "UNK"), read, v)
    BY <1>4, BadGood DEF Codes
  <2>4. QED
    BY <1>4, <2>1, <2>2, <2>3 DEF Follows, n
<1>12. QED
  BY <1>2, <1>5, <1>6, <1>8, <1>9, <1>10, <1>11 DEF Record

-----------------------------------------------------------------------------
(* The steps of a request and of its server                                *)

\* A step of the request c, or of the server at its other end.
Moved(c) ==
    /\ UNCHANGED main /\ Running(c)
    /\ \E q \in ACall, w \in AServer : /\ fc' = [fc EXCEPT ![c] = q]
                                       /\ srv' = [srv EXCEPT ![c] = w]
                                       /\ Follows(q, fc[c], w)

(* A step that changes only the request.                                   *)
LEMMA SetMoves ==
  ASSUME CallsGood, NEW c \in Calls, Running(c), NEW q, Set(c, q), Follows(q, fc[c], srv[c])
  PROVE  Moved(c)
<1>1. /\ fc' = [fc EXCEPT ![c] = q] /\ srv' = [srv EXCEPT ![c] = srv[c]]
      /\ UNCHANGED main
  BY DEF Set, CallsGood
<1>2. q \in ACall /\ srv[c] \in AServer
  BY DEF Follows, Good
<1>3. QED
  BY <1>1, <1>2 DEF Moved

(* vv_check_timeout changes nothing else.                                  *)
LEMMA TimedOutFacts ==
  ASSUME NEW r \in ACall
  PROVE  /\ TimedOut(r) \in ACall /\ TimedOut(r).invalid = r.invalid
         /\ r.expired => TimedOut(r).interrupted
<1>1. PICK b : b = (r.interrupted \/ r.expired)
  OBVIOUS
<1>2. b \in BOOLEAN /\ (r.expired => b)
  BY <1>1 DEF ACall
<1>3. PICK q : q = [r EXCEPT !.interrupted = b]
  OBVIOUS
<1>4. q \in ACall /\ q.invalid = r.invalid /\ q.interrupted = b
  BY <1>2, <1>3 DEF ACall
<1>5. q = TimedOut(r)
  BY <1>1, <1>3 DEF TimedOut
<1>6. QED
  BY <1>2, <1>4, <1>5

(* The places of vv_fc_request.                                            *)
LEMMA RequestMoves ==
  ASSUME CallsGood, NEW c \in Calls, Request(c)
  PROVE  Moved(c)
<1>1. PICK r : r = fc[c]
  OBVIOUS
<1>2. PICK v : v = srv[c]
  OBVIOUS
<1>3. r \in ACall /\ v \in AServer /\ Good(r, v)
  BY <1>1, <1>2 DEF CallsGood
<1>4. r.pc \in {"start", "connect", "write", "read"}
  BY <1>1 DEF Request, Edge, Connect, Write, ReadHeader, ReadMessage, ReadPadding,
              ReadFails, Spin, Spins, Waits
<1>5. Running(c)
  BY <1>1, <1>4 DEF Running
<1>6. ASSUME NEW q, Set(c, q), Follows(q, r, v) PROVE Moved(c)
  BY <1>1, <1>2, <1>5, <1>6, SetMoves
<1>7. ASSUME NEW x \in ACall, NEW rc \in Codes, rc # "OKAY" \/ x.interrupted,
             x.invalid = r.invalid, Set(c, Returned(x, rc))
      PROVE  Moved(c)
  <2>1. Follows(Returned(x, rc), x, v)
    BY <1>3, <1>7, ReturnedGood
  <2>2. Follows(Returned(x, rc), r, v)
    BY <1>7, <2>1 DEF Follows
  <2>3. QED
    BY <1>6, <1>7, <2>2
<1>8. CASE Edge(c)
  <2>1. PICK n : n = NewCall(r.timeout)
    OBVIOUS
  <2>2. /\ n \in ACall /\ n.timeout = r.timeout /\ n.sock = FALSE
        /\ n.interrupted = FALSE /\ n.read_status = "OKAY" /\ n.result = "none"
        /\ n.header = NoRecord /\ n.headers = 0 /\ n.read_done = FALSE
        /\ n.msg_remain = 0 /\ n.data = <<>> /\ n.error = <<>>
    BY <1>3, <2>1, NewCallFacts DEF ACall
  <2>3. PICK q : q = [n EXCEPT !.pc = "connect", !.invalid = r.invalid]
    OBVIOUS
  <2>4. /\ q \in ACall /\ q.pc = "connect" /\ q.invalid = r.invalid
        /\ q.timeout = r.timeout /\ q.sock = FALSE
        /\ q.interrupted = FALSE /\ q.read_status = "OKAY"
        /\ q.header = NoRecord /\ q.headers = 0 /\ q.read_done = FALSE
        /\ q.data = <<>> /\ q.error = <<>>
    BY <1>3, <2>2, <2>3 DEF ACall
  <2>5. PICK z : z = [q EXCEPT !.pc = "ended", !.result = "BAD_TIMEOUT"]
    OBVIOUS
  <2>6. Set(c, q) \/ Set(c, z)
    BY <1>1, <1>8, <2>1, <2>3, <2>5 DEF Edge
  <2>7. v = NoServer
    BY <1>1, <1>3, <1>8 DEF Edge, Good
  <2>8. Follows(q, r, v)
    <3>1. HasRead(q, v, 0)
      BY <2>4, <2>7, NoServerFacts, EmptyInOrder DEF HasRead
    <3>2. Len(v.sent) = 0
      BY <2>7, NoServerFacts
    <3>3. Reading(q, v)
      BY <2>4, <3>1, <3>2 DEF Reading, Between
    <3>4. QED
      BY <1>3, <2>4, <2>7, <3>3 DEF Follows, Good
  <2>9. Follows(z, r, v)
    <3>1. z \in ACall /\ z.pc = "ended" /\ z.result = "BAD_TIMEOUT" /\ z.sock = FALSE
          /\ z.invalid = r.invalid
      BY <2>4, <2>5 DEF ACall, Codes
    <3>2. QED
      BY <1>3, <3>1 DEF Follows, Good
  <2>10. QED
    BY <1>6, <2>6, <2>8, <2>9
<1>9. CASE Connect(c)
  <2>1. PICK q : q = [r EXCEPT !.pc = "write", !.sock = TRUE]
    OBVIOUS
  <2>2. PICK x : x = [TimedOut(r) EXCEPT !.sock = TRUE]
    OBVIOUS
  <2>3. r.pc = "connect"
    BY <1>1, <1>9 DEF Connect
  <2>4. \/ Set(c, q)
        \/ Set(c, Returned(r, "CONNECT"))
        \/ Set(c, Returned(x, "TIMEOUT"))
    BY <1>1, <1>9, <2>1, <2>2 DEF Connect
  <2>5. Follows(q, r, v)
    <3>1. /\ q \in ACall /\ q.pc = "write" /\ q.invalid = r.invalid
          /\ q.interrupted = r.interrupted /\ q.read_status = r.read_status
          /\ q.header = r.header /\ q.headers = r.headers /\ q.read_done = r.read_done
          /\ q.msg_remain = r.msg_remain /\ q.data = r.data /\ q.error = r.error
      BY <1>3, <2>1 DEF ACall
    <3>2. ~r.invalid => Reading(r, v)
      BY <1>3, <2>3 DEF Good
    <3>3. ~q.invalid => Reading(q, v)
      BY <3>1, <3>2 DEF Reading, Between, Within, HasRead
    <3>4. QED
      BY <1>3, <3>1, <3>3 DEF Follows, Good
  <2>6. x \in ACall /\ x.invalid = r.invalid
    BY <1>3, <2>2, TimedOutFacts DEF ACall
  <2>7. QED
    BY <1>3, <1>6, <1>7, <2>4, <2>5, <2>6 DEF Codes
<1>10. CASE Write(c)
  <2>1. PICK q : q = [r EXCEPT !.pc = "read"]
    OBVIOUS
  <2>2. r.pc = "write"
    BY <1>1, <1>10 DEF Write
  <2>3. \/ Set(c, q)
        \/ Set(c, Returned(r, "ENV"))
        \/ Set(c, Returned(TimedOut(r), "SOCK_WRITE"))
    BY <1>1, <1>10, <2>1 DEF Write
  <2>4. Follows(q, r, v)
    <3>1. /\ q \in ACall /\ q.pc = "read" /\ q.invalid = r.invalid
          /\ q.interrupted = r.interrupted /\ q.read_status = r.read_status
          /\ q.header = r.header /\ q.headers = r.headers /\ q.read_done = r.read_done
          /\ q.msg_remain = r.msg_remain /\ q.data = r.data /\ q.error = r.error
      BY <1>3, <2>1 DEF ACall
    <3>2. ~r.invalid => Reading(r, v)
      BY <1>3, <2>2 DEF Good
    <3>3. ~q.invalid => Reading(q, v)
      BY <3>1, <3>2 DEF Reading, Between, Within, HasRead
    <3>4. QED
      BY <1>3, <3>1, <3>3 DEF Follows, Good
  <2>5. TimedOut(r) \in ACall /\ TimedOut(r).invalid = r.invalid
    BY <1>3, TimedOutFacts
  <2>6. QED
    BY <1>3, <1>6, <1>7, <2>3, <2>4, <2>5 DEF Codes
<1>11. CASE ReadHeader(c)
  <2>1. PICK rec : rec = v.sent[Len(v.sent)]
    OBVIOUS
  <2>0. PICK k : k = r.headers + 1
    OBVIOUS
  <2>2. PICK q : q = [r EXCEPT !.header = rec, !.headers = k,
                               !.msg_remain = rec.len, !.padding_len = rec.pad]
    OBVIOUS
  <2>3. /\ r.pc = "read" /\ r.header = NoRecord /\ r.headers < Len(v.sent)
        /\ Set(c, Bad(r, "PROT_ERR")) \/ Set(c, q)
    <3>1. r.header = NoRecord
      BY <1>1, <1>11 DEF ReadHeader, Part
    <3>2. QED
      BY <1>1, <1>2, <1>11, <2>0, <2>1, <2>2, <3>1 DEF ReadHeader, Available
  <2>4. Follows(Bad(r, "PROT_ERR"), r, v)
    BY <1>3, BadGood DEF Codes
  <2>5. Follows(q, r, v)
    <3>1. Len(v.sent) > 0 /\ Len(v.sent) \in Nat
      BY <1>3, <2>3 DEF ACall, AServer
    <3>2. rec \in Record /\ rec # NoRecord /\ rec.len \in Nat /\ rec.pad \in Nat
      BY <1>3, <2>1, <3>1, SentIsRecord DEF Record
    <3>3. /\ q \in ACall /\ q.pc = "read" /\ q.invalid = r.invalid
          /\ q.interrupted = r.interrupted /\ q.read_status = r.read_status
          /\ q.header = rec /\ q.headers = k /\ q.read_done = r.read_done
          /\ q.msg_remain = rec.len /\ q.data = r.data /\ q.error = r.error
      <4>1. k \in Nat
        BY <1>3, <2>0 DEF ACall
      <4>2. QED
        BY <1>3, <2>2, <2>3, <3>2, <4>1 DEF ACall
    <3>4. ASSUME ~r.invalid PROVE Reading(q, v)
      <4>1. /\ ~r.interrupted /\ r.read_status = "OKAY" /\ ~r.read_done
            /\ r.headers = Len(v.sent) - 1 /\ HasRead(r, v, Len(v.sent) - 1)
        <5>1. Reading(r, v)
          BY <1>3, <2>3, <3>4 DEF Good
        <5>2. QED
          BY <2>3, <3>1, <5>1 DEF Reading, Between
      <4>2. HasRead(q, v, Len(v.sent) - 1)
        BY <3>3, <4>1 DEF HasRead
      <4>3. rec.len = 0 => HasRead(q, v, Len(v.sent))
        <5>1. ASSUME rec.len = 0
              PROVE  /\ Messages(v, "STDOUT", Len(v.sent)) = Messages(v, "STDOUT", Len(v.sent) - 1)
                     /\ Messages(v, "STDERR", Len(v.sent)) = Messages(v, "STDERR", Len(v.sent) - 1)
          <6>1. ~(v.sent[Len(v.sent)].len > 0)
            BY <2>1, <5>1
          <6>2. QED
            BY <1>3, <3>1, <6>1, NextMessage
        <5>2. QED
          BY <4>2, <5>1 DEF HasRead
      <4>4. Within(q, v)
        BY <2>0, <2>1, <3>1, <3>2, <3>3, <4>1, <4>2, <4>3 DEF Within
      <4>5. QED
        BY <3>2, <3>3, <4>1, <4>4 DEF Reading
    <3>5. QED
      BY <1>3, <3>3, <3>4 DEF Follows, Good
  <2>6. QED
    BY <1>6, <2>3, <2>4, <2>5
<1>12. CASE ReadMessage(c)
  <2>1. /\ r.pc = "read" /\ Part(r) = 2 /\ v.parts >= 2
        /\ Set(c, TakeMessage(r, Len(v.sent)))
    <3>1. r.pc = "read" /\ Part(r) = 2 /\ Set(c, TakeMessage(r, Len(v.sent)))
      BY <1>1, <1>2, <1>12 DEF ReadMessage
    <3>2. r.header # NoRecord
      BY <3>1 DEF Part
    <3>3. QED
      BY <1>1, <1>2, <1>12, <3>1, <3>2 DEF ReadMessage, Available
  <2>2. ~r.invalid => Reading(r, v)
    BY <1>3, <2>1 DEF Good
  <2>3. Follows(TakeMessage(r, Len(v.sent)), r, v)
    BY <1>3, <2>1, <2>2, TakeMessageGood
  <2>4. QED
    BY <1>6, <2>1, <2>3
<1>13. CASE ReadPadding(c)
  <2>1. PICK q : q = [r EXCEPT !.padding_len = 0]
    OBVIOUS
  <2>2. /\ r.pc = "read" /\ r.header # NoRecord /\ ~(r.msg_remain > 0)
        /\ Set(c, EndRecord(q))
    <3>1. r.header # NoRecord /\ ~(r.msg_remain > 0)
      BY <1>1, <1>13 DEF ReadPadding, Part
    <3>2. QED
      BY <1>1, <1>13, <2>1, <3>1 DEF ReadPadding
  <2>4. /\ q \in ACall /\ q.pc = "read" /\ q.invalid = r.invalid
        /\ q.interrupted = r.interrupted /\ q.read_status = r.read_status
        /\ q.header = r.header /\ q.headers = r.headers /\ q.read_done = r.read_done
        /\ q.msg_remain = 0 /\ q.data = r.data /\ q.error = r.error
    <3>1. r.msg_remain = 0
      BY <1>3, <2>2 DEF ACall
    <3>2. QED
      BY <1>3, <2>1, <2>2, <3>1 DEF ACall
  <2>5. ~r.invalid => Reading(r, v)
    BY <1>3, <2>2 DEF Good
  <2>6. ~r.invalid => Taken(q, v)
    <3>1. r.msg_remain = 0
      BY <1>3, <2>2 DEF ACall
    <3>2. QED
      BY <2>2, <2>4, <2>5, <3>1 DEF Reading, Within, Taken, HasRead
  <2>7. Follows(EndRecord(q), q, v)
    BY <1>3, <2>4, <2>6, EndRecordGood
  <2>8. QED
    BY <1>6, <2>2, <2>4, <2>7 DEF Follows
<1>14. CASE ReadFails(c)
  <2>1. PICK x : x = TimedOut(r)
    OBVIOUS
  <2>2. x \in ACall /\ x.invalid = r.invalid /\ (r.expired => x.interrupted)
    BY <1>3, <2>1, TimedOutFacts
  <2>3. \/ \E res \in {0, -1} : Set(c, FailedRead(x, res))
        \/ r.expired /\ Set(c, Returned(x, r.read_status))
    BY <1>1, <1>14, <2>1 DEF ReadFails
  <2>4. \/ Set(c, Bad(x, "SOCK_READ")) \/ Set(c, Bad(x, "PROT_ERR"))
        \/ r.expired /\ Set(c, Returned(x, r.read_status))
    BY <2>3 DEF FailedRead
  <2>5. Follows(Bad(x, "SOCK_READ"), x, v) /\ Follows(Bad(x, "PROT_ERR"), x, v)
    BY <1>3, <2>2, BadGood DEF Codes
  <2>6. Follows(Bad(x, "SOCK_READ"), r, v) /\ Follows(Bad(x, "PROT_ERR"), r, v)
    BY <2>2, <2>5 DEF Follows
  <2>7. r.read_status \in Codes
    BY <1>3 DEF ACall
  <2>8. QED
    BY <1>6, <1>7, <2>2, <2>4, <2>6, <2>7
<1>15. CASE Spin(c)
  <2>1. UNCHANGED <<fc, srv, main>> /\ Waits(c)
    BY <1>15 DEF Spin, Spins, vars
  <2>2. r.pc = "read"
    BY <1>1, <2>1 DEF Waits
  <2>3. Follows(r, r, v)
    BY <1>3, <2>2 DEF Follows
  <2>4. fc' = [fc EXCEPT ![c] = r]
    BY <1>1, <2>1 DEF CallsGood
  <2>5. QED
    BY <1>6, <2>1, <2>3, <2>4 DEF Set
<1>16. QED
  BY <1>8, <1>9, <1>10, <1>11, <1>12, <1>13, <1>14, <1>15 DEF Request

(* The other end sends or closes, the time passes and signals come.        *)
LEMMA OtherEndMoves ==
  ASSUME CallsGood, NEW c \in Calls,
         \/ \E how \in {"orderly", "reset"} : Close(c, how)
         \/ Flood(c)
         \/ Ebb(c)
         \/ Expire(c)
         \/ Interrupt(c)
         \/ \E p \in 1 .. 3, rec \in Records[c] : Send(c, rec, p)
  PROVE  Moved(c)
<1>1. PICK r : r = fc[c]
  OBVIOUS
<1>2. PICK v : v = srv[c]
  OBVIOUS
<1>3. r \in ACall /\ v \in AServer /\ Good(r, v)
  BY <1>1, <1>2 DEF CallsGood
<1>4. /\ Waits(c) => r.pc = "read" /\ (r.header = NoRecord => r.headers >= Len(v.sent))
      /\ r.pc = "read" => Running(c)
  BY <1>1, <1>2, <1>3 DEF Waits, Available, Running, ACall, AServer
<1>5. ASSUME NEW w \in AServer, srv' = [srv EXCEPT ![c] = w], UNCHANGED <<fc, main>>,
             Good(r, w), r.pc = "read"
      PROVE  Moved(c)
  <2>1. fc' = [fc EXCEPT ![c] = r]
    BY <1>1, <1>5 DEF CallsGood
  <2>2. Follows(r, fc[c], w)
    BY <1>1, <1>3, <1>5 DEF Follows, Good
  <2>3. QED
    BY <1>3, <1>4, <1>5, <2>1, <2>2 DEF Moved
<1>6. ASSUME NEW w \in AServer, w.sent = v.sent, w.parts = v.parts, r.pc = "read",
             srv' = [srv EXCEPT ![c] = w], UNCHANGED <<fc, main>>
      PROVE  Moved(c)
  <2>1. ~r.invalid => Reading(r, w)
    BY <1>3, <1>6 DEF Good, Reading, Between, Within, HasRead, Messages
  <2>2. Good(r, w)
    BY <1>3, <1>6, <2>1 DEF Good
  <2>3. QED
    BY <1>5, <1>6, <2>2
<1>10. ASSUME NEW how \in {"orderly", "reset"}, Close(c, how) PROVE Moved(c)
  <2>1. PICK w : w = [v EXCEPT !.closed = how]
    OBVIOUS
  <2>2. w \in AServer /\ w.sent = v.sent /\ w.parts = v.parts
    BY <1>3, <2>1 DEF AServer
  <2>3. r.pc = "read" /\ srv' = [srv EXCEPT ![c] = w] /\ UNCHANGED <<fc, main>>
    BY <1>2, <1>4, <1>10, <2>1 DEF Close
  <2>4. QED
    BY <1>6, <2>2, <2>3
<1>11. CASE Flood(c) \/ Ebb(c)
  <2>1. PICK b \in BOOLEAN : srv' = [srv EXCEPT ![c].flood = b]
    BY <1>11 DEF Flood, Ebb
  <2>2. PICK w : w = [v EXCEPT !.flood = b]
    OBVIOUS
  <2>3. w \in AServer /\ w.sent = v.sent /\ w.parts = v.parts
    BY <1>3, <2>2 DEF AServer
  <2>4. r.pc = "read" /\ srv' = [srv EXCEPT ![c] = w] /\ UNCHANGED <<fc, main>>
    BY <1>1, <1>2, <1>4, <1>11, <2>1, <2>2 DEF Flood, Ebb, AtRest
  <2>5. QED
    BY <1>6, <2>3, <2>4
<1>7. CASE Expire(c) \/ Interrupt(c)
  <2>1. PICK q : /\ q \in {[r EXCEPT !.expired = TRUE], [r EXCEPT !.stale = TRUE]}
                 /\ Set(c, q)
    BY <1>1, <1>7 DEF Expire, Interrupt, Set
  <2>2. Running(c) /\ Set(c, q)
    BY <1>4, <1>7, <2>1 DEF Expire, Interrupt
  <2>3. /\ q \in ACall /\ q.pc = r.pc /\ q.invalid = r.invalid /\ q.sock = r.sock
        /\ q.interrupted = r.interrupted /\ q.read_status = r.read_status
        /\ q.header = r.header /\ q.headers = r.headers /\ q.read_done = r.read_done
        /\ q.msg_remain = r.msg_remain /\ q.data = r.data /\ q.error = r.error
    BY <1>3, <2>1 DEF ACall
  <2>4. r.pc \notin {"idle", "ended"}
    BY <1>1, <2>2 DEF Running
  <2>5. Reading(r, v) => Reading(q, v)
    BY <2>3 DEF Reading, Between, Within, HasRead
  <2>6. Follows(q, r, v)
    BY <1>3, <2>3, <2>4, <2>5 DEF Follows, Good
  <2>7. QED
    BY <1>1, <1>2, <2>2, <2>6, SetMoves
<1>8. ASSUME NEW p \in 1 .. 3, NEW rec \in Records[c], Send(c, rec, p) PROVE Moved(c)
  <2>1. PICK w : w = [v EXCEPT !.sent = Append(@, rec), !.parts = p]
    OBVIOUS
  <2>2. /\ r.pc = "read" /\ srv' = [srv EXCEPT ![c] = w] /\ UNCHANGED <<fc, main>>
        /\ r.headers >= Len(v.sent) /\ r.header = NoRecord
    BY <1>1, <1>2, <1>4, <1>8, <2>1 DEF Send, AtRest
  <2>3. rec \in Record
    BY RecordsAssumption
  <2>4. PICK s : s = Append(v.sent, rec)
    OBVIOUS
  <2>5. s \in Seq(Record)
    BY <1>3, <2>3, <2>4 DEF AServer
  <2>6. w \in AServer /\ w.sent = s
    <3>1. w = [v EXCEPT !.sent = s, !.parts = p]
      BY <2>1, <2>4
    <3>2. p \in 0 .. 3
      OBVIOUS
    <3>3. QED
      BY <1>3, <2>5, <3>1, <3>2 DEF AServer
  <2>7. /\ Len(w.sent) = Len(v.sent) + 1
        /\ Messages(w, "STDOUT", Len(v.sent)) = Messages(v, "STDOUT", Len(v.sent))
        /\ Messages(w, "STDERR", Len(v.sent)) = Messages(v, "STDERR", Len(v.sent))
    BY <1>3, <2>4, <2>6, MessagesKept
  <2>8. Len(v.sent) \in Nat
    BY <1>3 DEF AServer
  <2>9. ~r.invalid => Reading(r, w)
    <3>1. ASSUME ~r.invalid PROVE Reading(r, w)
      <4>1. Reading(r, v)
        BY <1>3, <2>2, <3>1 DEF Good
      <4>2. r.headers = Len(v.sent)
        BY <1>3, <2>2, <2>8, <4>1 DEF Reading, Between
      <4>3. QED
        BY <2>2, <2>7, <2>8, <4>1, <4>2 DEF Reading, Between, HasRead
    <3>2. QED
      BY <3>1
  <2>10. Good(r, w)
    BY <1>3, <2>2, <2>6, <2>9 DEF Good
  <2>11. QED
    BY <1>5, <2>2, <2>6, <2>10
<1>9. QED
  BY <1>7, <1>8, <1>10, <1>11

-----------------------------------------------------------------------------
(* The requests, whatever the caller does                                  *)

(* A step is of a request, of the caller, or a new server.                 *)
LEMMA Kinds ==
  ASSUME CallsGood, [Next]_vars
  PROVE  \/ \E c \in Calls : Moved(c)
         \/ \E req \in SUBSET Calls : CallServer(req)
         \/ \E c \in Calls : EndSingle(c) \/ JoinThread(c)
         \/ \E c \in Calls, s \in BOOLEAN : CreateThread(c, s)
         \/ EndCall
         \/ \E c \in Calls : \E t \in Timeouts[c] : NewServer(c, t)
         \/ UNCHANGED vars
<1>1. ASSUME NEW c \in Calls, Request(c) PROVE Moved(c)
  BY <1>1, RequestMoves
<1>2. ASSUME NEW c \in Calls,
             \/ \E how \in {"orderly", "reset"} : Close(c, how)
             \/ Flood(c) \/ Ebb(c) \/ Expire(c) \/ Interrupt(c)
      PROVE  Moved(c)
  BY <1>2, OtherEndMoves
<1>3. ASSUME NEW c \in Calls, NEW p \in 1 .. 3, NEW rec \in Records[c], Send(c, rec, p)
      PROVE  Moved(c)
  BY <1>3, OtherEndMoves
<1>4. QED
  BY <1>1, <1>2, <1>3 DEF Next, Caller

(* A request begins: the connection is not there yet.                      *)
LEMMA StartGood ==
  ASSUME NEW r \in ACall, NEW v, Good(r, v), r.pc \in {"idle", "ended"}
  PROVE  Good([r EXCEPT !.pc = "start"], NoServer)
<1>1. PICK q : q = [r EXCEPT !.pc = "start"]
  OBVIOUS
<1>2. q \in ACall /\ q.pc = "start" /\ q.sock = r.sock
  BY <1>1 DEF ACall
<1>3. r.sock = FALSE
  BY DEF Good, ACall
<1>4. QED
  BY <1>1, <1>2, <1>3, NoServerFacts DEF Good

(* What is known of each request is kept.                                  *)
LEMMA GoodStep == CallsGood /\ Pending /\ [Next]_vars => CallsGood'
<1> SUFFICES ASSUME CallsGood, Pending, [Next]_vars PROVE CallsGood'
  OBVIOUS
<1>1. /\ fc \in [Calls -> ACall] /\ srv \in [Calls -> AServer]
      /\ \A c \in Calls : Good(fc[c], srv[c])
  BY DEF CallsGood
<1>2. ASSUME NEW c \in Calls, NEW q \in ACall, NEW w \in AServer, Good(q, w),
             fc' = [fc EXCEPT ![c] = q], srv' = [srv EXCEPT ![c] = w]
      PROVE  CallsGood'
  <2>1. fc' \in [Calls -> ACall] /\ srv' \in [Calls -> AServer]
    BY <1>1, <1>2
  <2>2. ASSUME NEW d \in Calls PROVE Good(fc'[d], srv'[d])
    <3>1. CASE d = c
      <4>1. fc'[d] = q /\ srv'[d] = w
        BY <1>1, <1>2, <3>1
      <4>2. QED
        BY <1>2, <4>1
    <3>2. CASE d # c
      <4>1. fc'[d] = fc[d] /\ srv'[d] = srv[d]
        BY <1>1, <1>2, <3>2
      <4>2. QED
        BY <1>1, <4>1
    <3>3. QED
      BY <3>1, <3>2
  <2>3. QED
    BY <2>1, <2>2 DEF CallsGood
<1>3. ASSUME NEW c \in Calls, Moved(c) PROVE CallsGood'
  BY <1>2, <1>3 DEF Moved, Follows
<1>4. ASSUME NEW req \in SUBSET Calls, CallServer(req) PROVE CallsGood'
  <2>1. CASE Cardinality(req) > 1
    <3>1. UNCHANGED <<fc, srv>>
      BY <1>4, <2>1 DEF CallServer
    <3>2. QED
      BY <3>1 DEF CallsGood
  <2>2. CASE ~(Cardinality(req) > 1)
    <3>1. /\ fc' = [c \in Calls |-> IF c \in req THEN [fc[c] EXCEPT !.pc = "start"] ELSE fc[c]]
          /\ srv' = [c \in Calls |-> IF c \in req THEN NoServer ELSE srv[c]]
          /\ \A c \in req : ~Running(c)
      BY <1>4, <2>2 DEF CallServer
    <3>2. ASSUME NEW c \in Calls PROVE Good(fc'[c], srv'[c])
      <4>1. CASE c \in req
        <5>1. fc[c].pc \in {"idle", "ended"}
          BY <3>1, <4>1 DEF Running
        <5>2. Good([fc[c] EXCEPT !.pc = "start"], NoServer)
          BY <1>1, <5>1, StartGood
        <5>3. QED
          BY <3>1, <4>1, <5>2
      <4>2. CASE c \notin req
        BY <1>1, <3>1, <4>2
      <4>3. QED
        BY <4>1, <4>2
    <3>3. ASSUME NEW c \in Calls PROVE fc'[c] \in ACall /\ srv'[c] \in AServer
      BY <3>2 DEF Good
    <3>4. fc' \in [Calls -> ACall] /\ srv' \in [Calls -> AServer]
      BY <3>1, <3>3
    <3>5. QED
      BY <3>2, <3>4 DEF CallsGood
  <2>3. QED
    BY <2>1, <2>2
<1>5. ASSUME NEW c \in Calls, EndSingle(c) PROVE CallsGood'
  BY <1>5 DEF EndSingle, CallsGood
<1>6. CASE EndCall
  BY <1>6 DEF EndCall, CallsGood
<1>7. ASSUME NEW c \in Calls, JoinThread(c) PROVE CallsGood'
  <2>1. srv' = [srv EXCEPT ![c] = srv[c]]
    BY <1>1, <1>7 DEF JoinThread
  <2>2. CASE ~fc[c].invalid
    <3>1. fc' = [fc EXCEPT ![c] = fc[c]]
      BY <1>1, <1>7, <2>2 DEF JoinThread
    <3>2. QED
      BY <1>1, <1>2, <2>1, <3>1
  <2>3. CASE fc[c].invalid
    <3>1. PICK r : r = fc[c]
      OBVIOUS
    <3>2. PICK q : q = [r EXCEPT !.data = <<>>, !.error = <<>>]
      OBVIOUS
    <3>3. fc' = [fc EXCEPT ![c] = q]
      BY <1>1, <1>7, <2>3, <3>1, <3>2 DEF JoinThread
    <3>4. r \in ACall /\ Good(r, srv[c])
      BY <1>1, <3>1
    <3>5. q \in ACall /\ q.pc = r.pc /\ q.invalid = r.invalid /\ q.sock = r.sock
      <4>1. PICK e : e = <<>>
        OBVIOUS
      <4>2. e \in Seq(Nat)
        BY <4>1
      <4>3. q = [r EXCEPT !.data = e, !.error = e]
        BY <3>2, <4>1
      <4>4. QED
        BY <3>4, <4>2, <4>3 DEF ACall
    <3>6. Good(q, srv[c])
      BY <1>1, <2>3, <3>1, <3>4, <3>5 DEF Good
    <3>7. QED
      BY <1>1, <1>2, <2>1, <3>3, <3>5, <3>6
  <2>4. QED
    BY <2>2, <2>3
<1>8. ASSUME NEW c \in Calls, NEW s \in BOOLEAN, CreateThread(c, s) PROVE CallsGood'
  <2>1. fc[c].pc \in {"idle", "ended"}
    BY <1>8 DEF CreateThread, Pending, Running
  <2>2. CASE s
    <3>1. PICK q : q = [fc[c] EXCEPT !.pc = "start"]
      OBVIOUS
    <3>2. Good(q, NoServer)
      BY <1>1, <2>1, <3>1, StartGood
    <3>3. fc' = [fc EXCEPT ![c] = q] /\ srv' = [srv EXCEPT ![c] = NoServer]
      BY <1>1, <1>8, <2>2, <3>1 DEF CreateThread
    <3>4. QED
      BY <1>2, <3>2, <3>3 DEF Good
  <2>3. CASE ~s
    <3>1. PICK r : r = fc[c]
      OBVIOUS
    <3>2. PICK q : q = [r EXCEPT !.invalid = TRUE]
      OBVIOUS
    <3>3. fc' = [fc EXCEPT ![c] = q] /\ srv' = [srv EXCEPT ![c] = srv[c]]
      BY <1>1, <1>8, <2>3, <3>1, <3>2 DEF CreateThread
    <3>4. r \in ACall /\ Good(r, srv[c])
      BY <1>1, <3>1
    <3>5. q \in ACall /\ q.pc = r.pc /\ q.invalid = TRUE /\ q.sock = r.sock
      BY <3>2, <3>4 DEF ACall
    <3>6. Good(q, srv[c])
      BY <3>4, <3>5 DEF Good
    <3>7. QED
      BY <1>1, <1>2, <3>3, <3>5, <3>6
  <2>4. QED
    BY <2>2, <2>3
<1>9. ASSUME NEW c \in Calls, NEW t \in Timeouts[c], NewServer(c, t) PROVE CallsGood'
  <2>1. t \in {"none", "set", "bad"}
    BY TimeoutsAssumption
  <2>2. PICK q : q = NewCall(t)
    OBVIOUS
  <2>3. q \in ACall /\ q.pc = "idle" /\ q.sock = FALSE
    BY <2>1, <2>2, NewCallFacts
  <2>4. Good(q, NoServer)
    BY <2>3, NoServerFacts DEF Good
  <2>5. fc' = [fc EXCEPT ![c] = q] /\ srv' = [srv EXCEPT ![c] = NoServer]
    BY <1>9, <2>2 DEF NewServer
  <2>6. QED
    BY <1>2, <2>3, <2>4, <2>5, NoServerFacts
<1>10. CASE UNCHANGED vars
  BY <1>10 DEF vars, CallsGood
<1>11. QED
  BY <1>3, <1>4, <1>5, <1>6, <1>7, <1>8, <1>9, <1>10, Kinds

-----------------------------------------------------------------------------
(* The caller and its threads                                              *)

(* A step of a request: it may end, and none begins.                       *)
LEMMA MovedFacts ==
  ASSUME CallsGood, NEW c \in Calls, Moved(c)
  PROVE  /\ UNCHANGED main
         /\ \A d \in Calls : /\ fc'[d].invalid = fc[d].invalid
                             /\ Running(d)' => Running(d)
<1>1. PICK q \in ACall : fc' = [fc EXCEPT ![c] = q] /\ q.invalid = fc[c].invalid
  BY DEF Moved, Follows
<1>2. UNCHANGED main /\ Running(c)
  BY DEF Moved
<1>3. ASSUME NEW d \in Calls PROVE fc'[d].invalid = fc[d].invalid /\ (Running(d)' => Running(d))
  <2>1. CASE d = c
    BY <1>1, <1>2, <2>1 DEF CallsGood
  <2>2. CASE d # c
    <3>1. fc'[d] = fc[d]
      BY <1>1, <2>2 DEF CallsGood
    <3>2. QED
      BY <3>1 DEF Running
  <2>3. QED
    BY <2>1, <2>2
<1>4. QED
  BY <1>2, <1>3

(* call-server begins.                                                     *)
LEMMA CallServerFacts ==
  ASSUME CallsGood, NEW req \in SUBSET Calls, CallServer(req)
  PROVE  /\ main.pc = "idle" /\ main'.req = req /\ main'.left = req
         /\ main' \in AMain /\ main'.finokay = 0 /\ main'.status = "none"
         /\ IsFiniteSet(req)
         /\ \A c \in req : ~Running(c) /\ (fc[c].invalid => Retry)
         /\ \A c \in Calls : fc'[c].invalid = fc[c].invalid
         /\ \/ /\ main'.pc = "single" /\ Cardinality(req) = 1 /\ main'.started = 1
               /\ \A c \in Calls \ req : fc'[c] = fc[c]
            \/ main'.pc = "create" /\ main'.started = 0 /\ UNCHANGED fc
<1>1. IsFiniteSet(req) /\ Cardinality(req) \in Nat
  BY CallsAssumption, FS_Subset, FS_CardinalityType
<1>2. Cardinality(req) # 0
  BY <1>1, FS_EmptySet DEF CallServer
<1>3. main' = [pc |-> IF Cardinality(req) = 1 THEN "single" ELSE "create",
               req |-> req, left |-> req, started |-> IF Cardinality(req) = 1 THEN 1 ELSE 0,
               finokay |-> 0, status |-> "none"]
  BY DEF CallServer
<1>4. main' \in AMain
  BY <1>3 DEF AMain
<1>5. main.pc = "idle" /\ \A c \in req : ~Running(c) /\ (fc[c].invalid => Retry)
  BY DEF CallServer
<1>6. CASE Cardinality(req) = 1
  <2>1. fc' = [c \in Calls |-> IF c \in req THEN [fc[c] EXCEPT !.pc = "start"] ELSE fc[c]]
    BY <1>6 DEF CallServer
  <2>2. \A c \in Calls : fc'[c].invalid = fc[c].invalid
    BY <2>1 DEF CallsGood, ACall
  <2>3. \A c \in Calls \ req : fc'[c] = fc[c]
    BY <2>1
  <2>4. QED
    BY <1>1, <1>3, <1>4, <1>5, <1>6, <2>2, <2>3
<1>7. CASE Cardinality(req) # 1
  <2>1. Cardinality(req) > 1
    BY <1>1, <1>2, <1>7
  <2>2. UNCHANGED fc
    BY <2>1 DEF CallServer
  <2>3. QED
    BY <1>1, <1>3, <1>4, <1>5, <1>7, <2>2
<1>8. QED
  BY <1>6, <1>7

(* A thread is created, or the server is marked.                           *)
LEMMA CreateFacts ==
  ASSUME CallsGood, Pending, NEW c \in Calls, NEW s \in BOOLEAN, CreateThread(c, s)
  PROVE  /\ main.pc = "create" /\ c \in main.left /\ main' \in AMain
         /\ main'.req = main.req /\ main'.finokay = main.finokay
         /\ main'.status = main.status
         /\ main'.started = IF s THEN main.started + 1 ELSE main.started
         /\ \/ main'.pc = "create" /\ main'.left = main.left \ {c}
            \/ main'.pc = "join" /\ main.left = {c} /\ main'.left = main.req
         /\ \A d \in Calls \ {c} : fc'[d] = fc[d]
         /\ s => fc'[c].invalid = fc[c].invalid
         /\ ~s => fc'[c].invalid = TRUE /\ fc'[c].pc = fc[c].pc
<1>1. main \in AMain
  BY DEF Pending
<1>2. main.pc = "create" /\ c \in main.left
  BY DEF CreateThread
<1>3. PICK n : n = IF s THEN main.started + 1 ELSE main.started
  OBVIOUS
<1>4. PICK l : l = IF main.left = {c} THEN main.req ELSE main.left \ {c}
  OBVIOUS
<1>5. PICK pc : pc = IF main.left = {c} THEN "join" ELSE "create"
  OBVIOUS
<1>6. n \in Nat /\ l \in SUBSET Calls /\ pc \in {"create", "join"}
  BY <1>1, <1>3, <1>4, <1>5 DEF AMain
<1>7. main' = [main EXCEPT !.started = n, !.left = l, !.pc = pc]
  BY <1>2, <1>3, <1>4, <1>5 DEF CreateThread
<1>8. /\ main' \in AMain /\ main'.req = main.req /\ main'.finokay = main.finokay
      /\ main'.status = main.status /\ main'.started = n /\ main'.left = l /\ main'.pc = pc
  BY <1>1, <1>6, <1>7 DEF AMain
<1>9. PICK r : r = fc[c]
  OBVIOUS
<1>10. r \in ACall /\ fc \in [Calls -> ACall]
  BY <1>9 DEF CallsGood
<1>11. CASE s
  <2>1. PICK q : q = [r EXCEPT !.pc = "start"]
    OBVIOUS
  <2>2. q.invalid = r.invalid
    BY <1>10, <2>1 DEF ACall
  <2>3. fc' = [fc EXCEPT ![c] = q]
    BY <1>9, <1>10, <1>11, <2>1 DEF CreateThread
  <2>4. fc'[c] = q /\ \A d \in Calls \ {c} : fc'[d] = fc[d]
    BY <1>10, <2>3
  <2>5. QED
    BY <1>2, <1>3, <1>4, <1>5, <1>8, <1>9, <1>11, <2>2, <2>4
<1>12. CASE ~s
  <2>1. PICK q : q = [r EXCEPT !.invalid = TRUE]
    OBVIOUS
  <2>2. q.invalid = TRUE /\ q.pc = r.pc
    BY <1>10, <2>1 DEF ACall
  <2>3. fc' = [fc EXCEPT ![c] = q]
    BY <1>9, <1>10, <1>12, <2>1 DEF CreateThread
  <2>4. fc'[c] = q /\ \A d \in Calls \ {c} : fc'[d] = fc[d]
    BY <1>10, <2>3
  <2>5. QED
    BY <1>2, <1>3, <1>4, <1>5, <1>8, <1>9, <1>12, <2>2, <2>4
<1>13. QED
  BY <1>11, <1>12

(* A thread is joined, or was never there.                                 *)
LEMMA JoinFacts ==
  ASSUME CallsGood, Pending, NEW c \in Calls, JoinThread(c)
  PROVE  /\ main.pc = "join" /\ c \in main.left /\ main' \in AMain
         /\ main'.pc = "join" /\ main'.req = main.req /\ main'.started = main.started
         /\ main'.status = main.status /\ main'.left = main.left \ {c}
         /\ fc[c].invalid \/ ~Running(c)
         /\ \/ main'.finokay = main.finokay
            \/ main'.finokay = main.finokay + 1 /\ ~fc[c].invalid
         /\ \A d \in Calls : /\ fc'[d].invalid = fc[d].invalid
                             /\ Running(d)' => Running(d)
<1>1. main \in AMain /\ fc \in [Calls -> ACall]
  BY DEF Pending, CallsGood
<1>2. main.pc = "join" /\ c \in main.left /\ (fc[c].invalid \/ ~Running(c))
  BY DEF JoinThread, MayJoin
<1>3. PICK n : n = IF ~fc[c].invalid /\ fc[c].result = "OKAY" THEN main.finokay + 1
                                                              ELSE main.finokay
  OBVIOUS
<1>4. n \in Nat /\ (n = main.finokay \/ (n = main.finokay + 1 /\ ~fc[c].invalid))
  BY <1>1, <1>3 DEF AMain
<1>5. PICK l : l = main.left \ {c}
  OBVIOUS
<1>6. l \in SUBSET Calls
  BY <1>1, <1>5 DEF AMain
<1>7. main' = [main EXCEPT !.left = l, !.finokay = n]
  BY <1>3, <1>5 DEF JoinThread
<1>8. /\ main' \in AMain /\ main'.pc = main.pc /\ main'.req = main.req
      /\ main'.started = main.started /\ main'.status = main.status
      /\ main'.left = l /\ main'.finokay = n
  BY <1>1, <1>4, <1>6, <1>7 DEF AMain
<1>9. PICK q : q = IF fc[c].invalid THEN [fc[c] EXCEPT !.data = <<>>, !.error = <<>>] ELSE fc[c]
  OBVIOUS
<1>10. fc[c] \in ACall
  BY <1>1
<1>11. q.invalid = fc[c].invalid /\ q.pc = fc[c].pc
  BY <1>9, <1>10 DEF ACall
<1>12. fc' = [fc EXCEPT ![c] = q]
  BY <1>9 DEF JoinThread
<1>13. \A d \in Calls : fc'[d].invalid = fc[d].invalid /\ fc'[d].pc = fc[d].pc
  BY <1>1, <1>11, <1>12
<1>14. \A d \in Calls : Running(d)' => Running(d)
  BY <1>13 DEF Running
<1>15. QED
  BY <1>2, <1>4, <1>5, <1>8, <1>13, <1>14

(* call-server returns.                                                    *)
LEMMA EndFacts ==
  ASSUME CallsGood, Pending
  PROVE  /\ \A c \in Calls : EndSingle(c) =>
              /\ main.pc = "single" /\ main.req = {c} /\ ~Running(c) /\ UNCHANGED fc
              /\ main' \in AMain /\ main'.pc = "idle" /\ main'.req = main.req
              /\ main'.left = {} /\ main'.started = main.started
              /\ main'.finokay \in {0, 1} /\ (main'.status = "OKAY" => main'.finokay = 1)
         /\ EndCall =>
              /\ main.pc = "join" /\ main.left = {} /\ UNCHANGED fc
              /\ main' \in AMain /\ main'.pc = "idle" /\ main'.req = main.req
              /\ main'.left = {} /\ main'.started = main.started
              /\ main'.finokay = main.finokay
              /\ main'.status = "OKAY" => main.finokay = Cardinality(main.req)
<1>1. main \in AMain
  BY DEF Pending
<1>2. ASSUME NEW c \in Calls, EndSingle(c)
      PROVE  /\ main.pc = "single" /\ main.req = {c} /\ ~Running(c) /\ UNCHANGED fc
             /\ main' \in AMain /\ main'.pc = "idle" /\ main'.req = main.req
             /\ main'.left = {} /\ main'.started = main.started
             /\ main'.finokay \in {0, 1} /\ (main'.status = "OKAY" => main'.finokay = 1)
  <2>1. PICK b : b = (fc[c].result = "OKAY")
    OBVIOUS
  <2>2. main' = [main EXCEPT !.pc = "idle", !.left = {}, !.finokay = IF b THEN 1 ELSE 0,
                             !.status = IF b THEN "OKAY" ELSE "FAILED"]
    BY <1>2, <2>1 DEF EndSingle
  <2>3. main.pc = "single" /\ main.req = {c} /\ ~Running(c) /\ UNCHANGED fc
    BY <1>2 DEF EndSingle
  <2>4. QED
    BY <1>1, <2>2, <2>3 DEF AMain
<1>3. ASSUME EndCall
      PROVE  /\ main.pc = "join" /\ main.left = {} /\ UNCHANGED fc
             /\ main' \in AMain /\ main'.pc = "idle" /\ main'.req = main.req
             /\ main'.left = {} /\ main'.started = main.started
             /\ main'.finokay = main.finokay
             /\ main'.status = "OKAY" => main.finokay = Cardinality(main.req)
  <2>1. PICK t : t = IF /\ main.started = Cardinality(main.req)
                        /\ main.finokay = Cardinality(main.req)
                     THEN "OKAY" ELSE "FAILED"
    OBVIOUS
  <2>2. t \in {"OKAY", "FAILED"} /\ (t = "OKAY" => main.finokay = Cardinality(main.req))
    BY <2>1
  <2>3. main' = [main EXCEPT !.pc = "idle", !.status = t]
    BY <1>3, <2>1 DEF EndCall
  <2>4. main.pc = "join" /\ main.left = {} /\ UNCHANGED fc
    BY <1>3 DEF EndCall
  <2>5. QED
    BY <1>1, <2>2, <2>3, <2>4 DEF AMain
<1>4. QED
  BY <1>2, <1>3

(* A new server in the place of another.                                   *)
LEMMA NewServerFacts ==
  ASSUME CallsGood, NEW c \in Calls, NEW t \in Timeouts[c], NewServer(c, t)
  PROVE  /\ main.pc = "idle" /\ UNCHANGED main
         /\ fc'[c].invalid = FALSE /\ fc'[c].pc = "idle"
         /\ \A d \in Calls \ {c} : fc'[d] = fc[d]
<1>1. t \in {"none", "set", "bad"}
  BY TimeoutsAssumption
<1>2. PICK q : q = NewCall(t)
  OBVIOUS
<1>3. q.pc = "idle" /\ q.invalid = FALSE
  BY <1>1, <1>2, NewCallFacts
<1>4. fc' = [fc EXCEPT ![c] = q]
  BY <1>2 DEF NewServer
<1>5. QED
  BY <1>3, <1>4 DEF NewServer, CallsGood

(* The threads that have to be created do not run.                         *)
LEMMA PendingStep == CallsGood /\ Pending /\ [Next]_vars => Pending'
<1> SUFFICES ASSUME CallsGood, Pending, [Next]_vars PROVE Pending'
  OBVIOUS
<1>1. main \in AMain /\ main.left \subseteq main.req /\ main.left \subseteq Calls
  BY DEF Pending, AMain
<1>2. ASSUME NEW c \in Calls, Moved(c) PROVE Pending'
  <2>1. UNCHANGED main /\ \A d \in Calls : Running(d)' => Running(d)
    BY <1>2, MovedFacts
  <2>2. QED
    BY <1>1, <2>1 DEF Pending
<1>3. ASSUME NEW req \in SUBSET Calls, CallServer(req) PROVE Pending'
  <2>1. main' \in AMain /\ main'.req = req /\ main'.left = req /\ \A c \in req : ~Running(c)
    BY <1>3, CallServerFacts
  <2>2. main'.pc = "single" \/ (main'.pc = "create" /\ UNCHANGED fc)
    BY <1>3, CallServerFacts
  <2>3. UNCHANGED fc => \A c \in req : ~Running(c)'
    BY <2>1 DEF Running
  <2>4. QED
    BY <2>1, <2>2, <2>3 DEF Pending
<1>4. ASSUME NEW c \in Calls, EndSingle(c) PROVE Pending'
  <2>1. main' \in AMain /\ main'.left = {} /\ main'.pc = "idle"
    BY <1>4, EndFacts
  <2>2. QED
    BY <2>1 DEF Pending
<1>5. ASSUME NEW c \in Calls, JoinThread(c) PROVE Pending'
  <2>1. main' \in AMain /\ main'.left = main.left \ {c} /\ main'.pc = "join"
        /\ main'.req = main.req
    BY <1>5, JoinFacts
  <2>2. QED
    BY <1>1, <2>1 DEF Pending
<1>6. CASE EndCall
  <2>1. main' \in AMain /\ main'.left = {} /\ main'.pc = "idle"
    BY <1>6, EndFacts
  <2>2. QED
    BY <2>1 DEF Pending
<1>7. ASSUME NEW c \in Calls, NEW s \in BOOLEAN, CreateThread(c, s) PROVE Pending'
  <2>1. /\ main' \in AMain /\ main'.req = main.req /\ main.pc = "create"
        /\ \/ main'.pc = "create" /\ main'.left = main.left \ {c}
           \/ main'.pc = "join" /\ main'.left = main.req
    BY <1>7, CreateFacts
  <2>2. \A d \in Calls \ {c} : fc'[d] = fc[d]
    BY <1>7, CreateFacts
  <2>3. \A d \in main.left \ {c} : ~Running(d)'
    BY <1>1, <2>1, <2>2 DEF Pending, Running
  <2>4. QED
    BY <1>1, <2>1, <2>3 DEF Pending
<1>8. ASSUME NEW c \in Calls, NEW t \in Timeouts[c], NewServer(c, t) PROVE Pending'
  <2>1. main.pc = "idle" /\ UNCHANGED main
    BY <1>8, NewServerFacts
  <2>2. QED
    BY <1>1, <2>1 DEF Pending
<1>9. CASE UNCHANGED vars
  BY <1>9 DEF vars, Pending, Running
<1>10. QED
  BY <1>2, <1>3, <1>4, <1>5, <1>6, <1>7, <1>8, <1>9, Kinds

(* Without a retry, whatever runs is waited for.                           *)
LEMMA OwnedStep == ~Retry /\ CallsGood /\ Pending /\ Owned /\ Counting /\ [Next]_vars => Owned'
<1> SUFFICES ASSUME ~Retry, CallsGood, Pending, Owned, Counting, [Next]_vars,
                    NEW d \in Calls
             PROVE  /\ fc'[d].invalid => ~Running(d)'
                    /\ Running(d)' =>
                         \/ main'.pc = "single" /\ d \in main'.req
                         \/ main'.pc = "create" /\ d \in main'.req \ main'.left
                         \/ main'.pc = "join" /\ d \in main'.left
  BY DEF Owned
<1> DEFINE Goal == /\ fc'[d].invalid => ~Running(d)'
                   /\ Running(d)' =>
                        \/ main'.pc = "single" /\ d \in main'.req
                        \/ main'.pc = "create" /\ d \in main'.req \ main'.left
                        \/ main'.pc = "join" /\ d \in main'.left
<1>1. /\ fc[d].invalid => ~Running(d)
      /\ Running(d) => \/ main.pc = "single" /\ d \in main.req
                       \/ main.pc = "create" /\ d \in main.req \ main.left
                       \/ main.pc = "join" /\ d \in main.left
  BY DEF Owned
<1>2. ASSUME NEW c \in Calls, Moved(c) PROVE Goal
  <2>1. UNCHANGED main /\ fc'[d].invalid = fc[d].invalid /\ (Running(d)' => Running(d))
    BY <1>2, MovedFacts
  <2>2. QED
    BY <1>1, <2>1
<1>3. ASSUME NEW req \in SUBSET Calls, CallServer(req) PROVE Goal
  <2>1. /\ main.pc = "idle" /\ main'.req = req
        /\ (d \in req => ~fc[d].invalid) /\ fc'[d].invalid = fc[d].invalid
    BY <1>3, CallServerFacts
  <2>2. ~Running(d)
    BY <1>1, <2>1
  <2>3. \/ main'.pc = "single" /\ (d \notin req => fc'[d] = fc[d])
        \/ main'.pc = "create" /\ fc' = fc
    BY <1>3, CallServerFacts
  <2>4. fc'[d] = fc[d] => ~Running(d)'
    BY <2>2 DEF Running
  <2>5. QED
    BY <2>1, <2>3, <2>4
<1>4. ASSUME NEW c \in Calls, EndSingle(c) PROVE Goal
  <2>1. main.pc = "single" /\ main.req = {c} /\ ~Running(c) /\ UNCHANGED fc
    BY <1>4, EndFacts
  <2>2. ~Running(d)
    BY <1>1, <2>1
  <2>3. ~Running(d)'
    BY <2>1, <2>2 DEF Running
  <2>4. QED
    BY <2>3
<1>5. ASSUME NEW c \in Calls, JoinThread(c) PROVE Goal
  <2>1. /\ main.pc = "join" /\ main'.pc = "join" /\ main'.left = main.left \ {c}
        /\ fc[c].invalid \/ ~Running(c)
    BY <1>5, JoinFacts
  <2>2. fc'[d].invalid = fc[d].invalid /\ (Running(d)' => Running(d))
    BY <1>5, JoinFacts
  <2>3. ~Running(c)
    BY <2>1 DEF Owned
  <2>4. QED
    BY <1>1, <2>1, <2>2, <2>3
<1>6. ASSUME EndCall PROVE Goal
  <2>1. main.pc = "join" /\ main.left = {} /\ UNCHANGED fc
    BY <1>6, EndFacts
  <2>2. ~Running(d)
    BY <1>1, <2>1
  <2>3. ~Running(d)'
    BY <2>1, <2>2 DEF Running
  <2>4. QED
    BY <2>3
<1>7. ASSUME NEW c \in Calls, NEW s \in BOOLEAN, CreateThread(c, s) PROVE Goal
  <2>1. /\ main.pc = "create" /\ c \in main.left /\ main'.req = main.req
        /\ \/ main'.pc = "create" /\ main'.left = main.left \ {c}
           \/ main'.pc = "join" /\ main'.left = main.req
    BY <1>7, CreateFacts
  <2>2. c \in main.req /\ ~Running(c)
    BY <2>1 DEF Pending
  <2>3. CASE d = c
    <3>1. CASE s
      <4>1. fc'[c].invalid = fc[c].invalid
        BY <1>7, <3>1, CreateFacts
      <4>2. d \in main.req /\ ~fc[c].invalid
        BY <2>1, <2>2, <2>3 DEF Counting
      <4>3. QED
        BY <2>1, <2>3, <4>1, <4>2
    <3>2. CASE ~s
      <4>1. fc'[c].pc = fc[c].pc
        BY <1>7, <3>2, CreateFacts
      <4>2. ~Running(c)'
        BY <2>2, <4>1 DEF Running
      <4>3. QED
        BY <2>3, <4>2
    <3>3. QED
      BY <3>1, <3>2
  <2>4. CASE d # c
    <3>1. fc'[d] = fc[d]
      BY <1>7, <2>4, CreateFacts
    <3>2. Running(d)' <=> Running(d)
      BY <3>1 DEF Running
    <3>3. QED
      BY <1>1, <2>1, <2>4, <3>1, <3>2
  <2>5. QED
    BY <2>3, <2>4
<1>8. ASSUME NEW c \in Calls, NEW t \in Timeouts[c], NewServer(c, t) PROVE Goal
  <2>1. /\ main.pc = "idle"
        /\ fc'[c].pc = "idle" /\ (d # c => fc'[d] = fc[d])
    BY <1>8, NewServerFacts
  <2>2. ~Running(d)
    BY <1>1, <2>1
  <2>3. ~Running(d)'
    BY <2>1, <2>2 DEF Running
  <2>4. QED
    BY <2>3
<1>9. CASE UNCHANGED vars
  BY <1>1, <1>9 DEF vars, Running
<1>10. QED
  BY <1>2, <1>3, <1>4, <1>5, <1>6, <1>7, <1>8, <1>9, Kinds

(* The size of a set of servers, and of a set with one more.               *)
LEMMA ValidFacts ==
  ASSUME NEW S \in SUBSET Calls, NEW c \in Calls, c \notin S
  PROVE  /\ IsFiniteSet(S) /\ Cardinality(S) \in Nat
         /\ Cardinality(S \cup {c}) = Cardinality(S) + 1
         /\ Cardinality({}) = 0
<1>1. IsFiniteSet(S)
  BY CallsAssumption, FS_Subset
<1>2. QED
  BY <1>1, FS_AddElement, FS_CardinalityType, FS_EmptySet

(* Without a retry, the threads that were started and the ones that ended  *)
(* well are counted right.                                                 *)
LEMMA CountingStep == ~Retry /\ CallsGood /\ Pending /\ Counting /\ [Next]_vars => Counting'
<1> SUFFICES ASSUME ~Retry, CallsGood, Pending, Counting, [Next]_vars PROVE Counting'
  OBVIOUS
<1>1. main \in AMain /\ main.left \subseteq main.req /\ main.req \subseteq Calls
      /\ main.pc \in {"idle", "single", "create", "join"}
      /\ main.started \in Nat /\ main.finokay \in Nat
  BY DEF Pending, AMain
<1>2. ASSUME UNCHANGED main, \A d \in Calls : fc'[d].invalid = fc[d].invalid
      PROVE  Counting'
  <2>1. ASSUME NEW S \in SUBSET Calls PROVE {d \in S : ~fc'[d].invalid} = Valid(S)
    BY <1>2 DEF Valid
  <2>2. {d \in main.req \ main.left : ~fc'[d].invalid} = Valid(main.req \ main.left)
    BY <1>1, <2>1
  <2>3. {d \in main.req : ~fc'[d].invalid} = Valid(main.req)
    BY <1>1, <2>1
  <2>4. \A d \in main.left : fc'[d].invalid = fc[d].invalid
    BY <1>1, <1>2
  <2>5. QED
    BY <1>2, <2>2, <2>3, <2>4 DEF Counting, Valid
<1>3. ASSUME NEW c \in Calls, Moved(c) PROVE Counting'
  BY <1>2, <1>3, MovedFacts
<1>4. ASSUME NEW req \in SUBSET Calls, CallServer(req) PROVE Counting'
  <2>1. main'.req = req /\ main'.left = req /\ main'.finokay = 0 /\ main'.status = "none"
    BY <1>4, CallServerFacts
  <2>2. \/ main'.pc = "single" /\ Cardinality(req) = 1 /\ main'.started = 1
        \/ main'.pc = "create" /\ main'.started = 0
    BY <1>4, CallServerFacts
  <2>3. \A c \in req : ~fc'[c].invalid
    BY <1>4, CallServerFacts
  <2>4. {d \in req \ req : ~fc'[d].invalid} = {} /\ Cardinality({}) = 0
    BY FS_EmptySet
  <2>5. QED
    BY <2>1, <2>2, <2>3, <2>4 DEF Counting, Valid
<1>5. ASSUME NEW c \in Calls, EndSingle(c) PROVE Counting'
  <2>1. /\ main.pc = "single" /\ main'.pc = "idle" /\ main'.req = main.req
        /\ main'.started = main.started
        /\ main'.finokay \in {0, 1} /\ (main'.status = "OKAY" => main'.finokay = 1)
    BY <1>5, EndFacts
  <2>2. Cardinality(main.req) = 1 /\ main.started = 1
    BY <2>1 DEF Counting
  <2>3. QED
    BY <2>1, <2>2 DEF Counting
<1>6. ASSUME NEW c \in Calls, JoinThread(c) PROVE Counting'
  <2>1. /\ main.pc = "join" /\ c \in main.left /\ main'.pc = "join" /\ main'.req = main.req
        /\ main'.started = main.started /\ main'.status = main.status
        /\ main'.left = main.left \ {c}
        /\ \/ main'.finokay = main.finokay
           \/ main'.finokay = main.finokay + 1 /\ ~fc[c].invalid
    BY <1>6, JoinFacts
  <2>2. \A d \in Calls : fc'[d].invalid = fc[d].invalid
    BY <1>6, JoinFacts
  <2>3. /\ main.status = "none" /\ main.started = Cardinality(Valid(main.req))
        /\ main.finokay <= Cardinality(Valid(main.req \ main.left))
    BY <2>1 DEF Counting
  <2>4. {d \in main.req : ~fc'[d].invalid} = Valid(main.req)
    BY <1>1, <2>2 DEF Valid
  <2>5. PICK S : S = Valid(main.req \ main.left)
    OBVIOUS
  <2>6. S \in SUBSET Calls /\ c \notin S /\ c \in main.req
    BY <1>1, <2>1, <2>5 DEF Valid
  <2>7. PICK T : T = {d \in main'.req \ main'.left : ~fc'[d].invalid}
    OBVIOUS
  <2>8. T = IF fc[c].invalid THEN S ELSE S \cup {c}
    BY <1>1, <2>1, <2>2, <2>5, <2>6, <2>7 DEF Valid
  <2>9. Cardinality(S) \in Nat /\ Cardinality(S \cup {c}) = Cardinality(S) + 1
    BY <2>6, ValidFacts
  <2>10. main'.finokay <= Cardinality(T)
    <3>1. CASE fc[c].invalid
      <4>1. main'.finokay = main.finokay
        BY <2>1, <3>1
      <4>2. QED
        BY <2>3, <2>5, <2>8, <3>1, <4>1
    <3>2. CASE ~fc[c].invalid
      <4>1. Cardinality(T) = Cardinality(S) + 1
        BY <2>8, <2>9, <3>2
      <4>2. main'.finokay \in {main.finokay, main.finokay + 1}
        BY <2>1
      <4>3. main.finokay <= Cardinality(S)
        BY <2>3, <2>5
      <4>4. QED
        BY <1>1, <2>9, <4>1, <4>2, <4>3
    <3>3. QED
      BY <3>1, <3>2
  <2>11. Valid(main.req \ main.left)' = T /\ Valid(main.req)' = Valid(main.req)
    BY <2>1, <2>4, <2>7 DEF Valid
  <2>12. QED
    BY <2>1, <2>3, <2>10, <2>11 DEF Counting
<1>7. ASSUME EndCall PROVE Counting'
  <2>1. /\ main.pc = "join" /\ main.left = {} /\ main'.pc = "idle" /\ main'.req = main.req
        /\ main'.started = main.started /\ main'.finokay = main.finokay
        /\ main'.status = "OKAY" => main.finokay = Cardinality(main.req)
    BY <1>7, EndFacts
  <2>2. main.req \ main.left = main.req
    BY <2>1
  <2>3. main.finokay <= main.started
    BY <2>1, <2>2 DEF Counting
  <2>4. QED
    BY <2>1, <2>3 DEF Counting
<1>8. ASSUME NEW c \in Calls, NEW s \in BOOLEAN, CreateThread(c, s) PROVE Counting'
  <2>1. /\ main.pc = "create" /\ c \in main.left /\ main'.req = main.req
        /\ main'.finokay = main.finokay /\ main'.status = main.status
    BY <1>8, CreateFacts
  <2>2. main'.started = IF s THEN main.started + 1 ELSE main.started
    BY <1>8, CreateFacts
  <2>3. \/ main'.pc = "create" /\ main'.left = main.left \ {c}
        \/ main'.pc = "join" /\ main.left = {c} /\ main'.left = main.req
    BY <1>8, CreateFacts
  <2>4. \A d \in Calls \ {c} : fc'[d] = fc[d]
    BY <1>8, CreateFacts
  <2>5. (s => fc'[c].invalid = fc[c].invalid) /\ (~s => fc'[c].invalid = TRUE)
    BY <1>8, CreateFacts
  <2>6. /\ main.finokay = 0 /\ main.status = "none" /\ \A d \in main.left : ~fc[d].invalid
        /\ main.started = Cardinality(Valid(main.req \ main.left))
    BY <2>1 DEF Counting
  <2>7. PICK S : S = Valid(main.req \ main.left)
    OBVIOUS
  <2>8. S \in SUBSET Calls /\ c \notin S /\ c \in main.req
    BY <1>1, <2>1, <2>7 DEF Valid
  <2>9. Cardinality(S) \in Nat /\ Cardinality(S \cup {c}) = Cardinality(S) + 1
    BY <2>8, ValidFacts
  <2>10. PICK T : T = {d \in main.req \ (main.left \ {c}) : ~fc'[d].invalid}
    OBVIOUS
  <2>11. T = IF s THEN S \cup {c} ELSE S
    <3>1. \A d \in main.req \ main.left : fc'[d] = fc[d]
      BY <1>1, <2>1, <2>4
    <3>2. main.req \ (main.left \ {c}) = (main.req \ main.left) \cup {c}
      BY <2>1, <2>8
    <3>3. CASE s
      <4>1. ~fc'[c].invalid
        BY <2>1, <2>5, <2>6, <3>3
      <4>2. QED
        BY <2>7, <2>10, <3>1, <3>2, <3>3, <4>1 DEF Valid
    <3>4. CASE ~s
      BY <2>5, <2>7, <2>10, <3>1, <3>2, <3>4 DEF Valid
    <3>5. QED
      BY <3>3, <3>4
  <2>12. main'.started = Cardinality(T)
    BY <2>2, <2>6, <2>7, <2>9, <2>11
  <2>13. CASE main'.pc = "create" /\ main'.left = main.left \ {c}
    <3>1. Valid(main.req \ main.left)' = T
      BY <2>1, <2>10, <2>13 DEF Valid
    <3>2. \A d \in main'.left : ~fc'[d].invalid
      BY <1>1, <2>4, <2>6, <2>13
    <3>3. QED
      BY <2>1, <2>6, <2>12, <2>13, <3>1, <3>2 DEF Counting
  <2>14. CASE main'.pc = "join" /\ main.left = {c} /\ main'.left = main.req
    <3>1. main.req \ (main.left \ {c}) = main.req
      BY <2>14
    <3>2. Valid(main.req)' = T
      BY <2>1, <2>10, <3>1 DEF Valid
    <3>3. Valid(main.req \ main.left)' = {} /\ Cardinality({}) = 0
      BY <2>1, <2>14, FS_EmptySet DEF Valid
    <3>4. QED
      BY <2>1, <2>6, <2>12, <2>14, <3>2, <3>3 DEF Counting
  <2>15. QED
    BY <2>3, <2>13, <2>14
<1>9. ASSUME NEW c \in Calls, NEW t \in Timeouts[c], NewServer(c, t) PROVE Counting'
  <2>1. main.pc = "idle" /\ UNCHANGED main
    BY <1>9, NewServerFacts
  <2>2. QED
    BY <2>1 DEF Counting
<1>10. CASE UNCHANGED vars
  BY <1>2, <1>10 DEF vars
<1>11. QED
  BY <1>3, <1>4, <1>5, <1>6, <1>7, <1>8, <1>9, <1>10, Kinds

-----------------------------------------------------------------------------
(* The theorems                                                            *)

(* In the beginning no request was made.                                   *)
LEMMA InitHolds == Init => CallsGood /\ Pending /\ Owned /\ Counting
<1> SUFFICES ASSUME Init PROVE CallsGood /\ Pending /\ Owned /\ Counting
  OBVIOUS
<1>1. PICK t : /\ \A c \in Calls : t[c] \in Timeouts[c]
               /\ fc = [c \in Calls |-> NewCall(t[c])]
  BY DEF Init
<1>2. \A c \in Calls : t[c] \in {"none", "set", "bad"}
  BY <1>1, TimeoutsAssumption
<1>3. ASSUME NEW c \in Calls
      PROVE  /\ fc[c] \in ACall /\ fc[c].pc = "idle" /\ fc[c].sock = FALSE
             /\ fc[c].invalid = FALSE
  <2>1. PICK q : q = NewCall(t[c])
    OBVIOUS
  <2>2. q \in ACall /\ q.pc = "idle" /\ q.sock = FALSE /\ q.invalid = FALSE
    BY <1>2, <2>1, NewCallFacts
  <2>3. QED
    BY <1>1, <2>1, <2>2
<1>4. srv = [c \in Calls |-> NoServer]
  BY DEF Init
<1>5. CallsGood
  <2>1. fc \in [Calls -> ACall]
    BY <1>1, <1>3
  <2>2. srv \in [Calls -> AServer]
    BY <1>4, NoServerFacts
  <2>3. ASSUME NEW c \in Calls PROVE Good(fc[c], srv[c])
    BY <1>3, <1>4, NoServerFacts DEF Good
  <2>4. QED
    BY <2>1, <2>2, <2>3 DEF CallsGood
<1>6. main = [pc |-> "idle", req |-> {}, left |-> {}, started |-> 0, finokay |-> 0,
              status |-> "none"]
  BY DEF Init
<1>7. Pending
  BY <1>6 DEF Pending, AMain
<1>8. Owned
  BY <1>3 DEF Owned, Running
<1>9. Counting
  BY <1>6 DEF Counting
<1>10. QED
  BY <1>5, <1>7, <1>8, <1>9

(* A request of call-server that returns VV_OKAY got the end record of its *)
(* server, and its data and its error are all the messages of each stream, *)
(* in order, whatever the padding, the time-outs, the closed connections   *)
(* and the calls before it (fc_server_read, VV_FC_RET).                    *)
THEOREM OkIsWhole == Spec => []OkMeansWhole
<1>1. Init => CallsGood /\ Pending
  BY InitHolds
<1>2. CallsGood /\ Pending /\ [Next]_vars => (CallsGood /\ Pending)'
  BY GoodStep, PendingStep
<1>3. CallsGood /\ Pending => OkMeansWhole
  <2> SUFFICES ASSUME CallsGood, NEW c \in Calls, fc[c].result = "OKAY", ~fc[c].invalid,
                      fc[c].pc = "ended"
               PROVE  /\ srv[c].sent # <<>>
                      /\ LET e == srv[c].sent[Len(srv[c].sent)]
                         IN e.type = "END" /\ e.len = 8 /\ srv[c].parts >= 2
                      /\ InOrder(fc[c].data, OnStream(c, "STDOUT"))
                      /\ InOrder(fc[c].error, OnStream(c, "STDERR"))
    BY DEF OkMeansWhole
  <2>1. Whole(fc[c], srv[c]) /\ srv[c] \in AServer
    BY DEF CallsGood, Good
  <2>2. DOMAIN srv[c].sent = 1 .. Len(srv[c].sent)
    BY <2>1 DEF AServer
  <2>3. ASSUME NEW type PROVE OnStream(c, type) = Messages(srv[c], type, Len(srv[c].sent))
    BY <2>2 DEF OnStream, Messages
  <2>4. QED
    BY <2>1, <2>3 DEF Whole, HasRead
<1>4. QED
  BY <1>1, <1>2, <1>3, PTL DEF Spec

(* When call-server returns, no thread of it is at work and no socket is   *)
(* open, the requests that ended well are no more than the ones that were  *)
(* started, and VV_OKAY says that all ended well; provided that a server   *)
(* whose thread could not be created is not used again (vv_call_fcgi).     *)
THEOREM CallsFinish ==
  ASSUME ~Retry
  PROVE  Spec => []AllFinished
<1> DEFINE IInv == CallsGood /\ Pending /\ Owned /\ Counting
<1>1. Init => IInv
  BY InitHolds
<1>2. IInv /\ [Next]_vars => IInv'
  BY GoodStep, PendingStep, OwnedStep, CountingStep
<1>3. IInv => AllFinished
  <2> SUFFICES ASSUME IInv, main.pc = "idle"
               PROVE  /\ \A c \in main.req : ~Running(c) /\ ~fc[c].sock
                      /\ main.finokay <= main.started
                      /\ main.status = "OKAY" => main.finokay = Cardinality(main.req)
    BY DEF AllFinished
  <2>1. main.req \subseteq Calls
    BY DEF Pending, AMain
  <2>2. ASSUME NEW c \in main.req PROVE ~Running(c) /\ ~fc[c].sock
    <3>1. c \in Calls /\ ~Running(c)
      BY <2>1 DEF Owned
    <3>2. fc[c].sock => fc[c].pc \in {"write", "read"}
      BY <3>1 DEF CallsGood, Good
    <3>3. QED
      BY <3>1, <3>2 DEF Running
  <2>3. QED
    BY <2>2 DEF Counting
<1>4. QED
  BY <1>1, <1>2, <1>3, PTL DEF Spec
=============================================================================
