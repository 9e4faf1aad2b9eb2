----------------------------- MODULE FcgiClient -----------------------------
(***************************************************************************)
(* call-server (fcli.c): one or several FastCGI requests made by a worker, *)
(* several of them in a thread each, and the statements new-server,        *)
(* read-server and delete-server around it.                                *)
(*                                                                         *)
(* The server at the other end is external: it sends records or parts of   *)
(* them, stalls, or closes.  A record is the header, the message and the   *)
(* padding; a message is named by the number of its record.  What a read   *)
(* or a write does in several parts is one step here, with all the ways in *)
(* which it may end.  Running out of memory is left out.                   *)
(***************************************************************************)
EXTENDS Integers, Sequences, FiniteSets

CONSTANTS
    Calls,        \* the servers an application has set up, 1 to their number
    Timeouts,     \* of each call: "none", "set" or "bad" (more than 86400 seconds)
    Records,      \* what the server of each call may send: type, len, pad, good
    MaxRecords,   \* bound on the records of the answer of each call
    Noisy,        \* bound: the calls with signals, and with servers that do not stop
    Retry         \* call-server is tried again with servers that did not start

Record == [type : {"STDOUT", "STDERR", "END", "BUSY", "UNK"}, len : Nat, pad : Nat,
           good : BOOLEAN]

ASSUME CallsAssumption == IsFiniteSet(Calls) /\ Calls = 1 .. Cardinality(Calls)
ASSUME TimeoutsAssumption == Timeouts \in [Calls -> SUBSET {"none", "set", "bad"}]
ASSUME RecordsAssumption == \A c \in Calls : \A rec \in Records[c] : rec \in Record
ASSUME RetryAssumption == Retry \in BOOLEAN

VARIABLES
    fc,     \* the vv_fc and fc_local of each call
    srv,    \* the server's end of each connection
    main    \* vv_call_fcgi

vars == <<fc, srv, main>>

NoRecord == [type |-> "none", len |-> 0, pad |-> 0, good |-> TRUE]

\* vv_set_fcgi: all of vv_fc is zero but what new-server says.
NewCall(timeout) ==
    [pc |-> "idle", timeout |-> timeout, invalid |-> FALSE,
     sock |-> FALSE, interrupted |-> FALSE, expired |-> FALSE, stale |-> FALSE,
     read_status |-> "OKAY", return_code |-> "OKAY",
     result |-> "none", header |-> NoRecord, msg_remain |-> 0, padding_len |-> 0,
     read_done |-> FALSE, headers |-> 0, data |-> <<>>, error |-> <<>>]

\* closed is "no", "orderly" (a read returns 0) or "reset" (a read fails).
NoServer == [sent |-> <<>>, parts |-> 0, flood |-> FALSE, closed |-> "no"]

Init ==
    /\ \E t \in [Calls -> UNION {Timeouts[c] : c \in Calls}] :
           /\ \A c \in Calls : t[c] \in Timeouts[c]
           /\ fc = [c \in Calls |-> NewCall(t[c])]
    /\ srv = [c \in Calls |-> NoServer]
    /\ main = [pc |-> "idle", req |-> {}, left |-> {}, started |-> 0, finokay |-> 0,
               status |-> "none"]

Running(c) == fc[c].pc \notin {"idle", "ended"}

\* The part of the record that is read next: 1 header, 2 message, 3 padding.
Part(r) == IF r.header = NoRecord THEN 1 ELSE IF r.msg_remain > 0 THEN 2 ELSE 3

Available(c) ==
    IF fc[c].header = NoRecord THEN fc[c].headers < Len(srv[c].sent)
    ELSE srv[c].parts >= Part(fc[c])

\* The padding of an unknown record is not read.
HasPadding(r) == r.padding_len > 0 /\ r.header.type # "UNK"

\* A read waits for bytes that are not there.
Waits(c) ==
    /\ fc[c].pc = "read"
    /\ ~Available(c) /\ ~srv[c].flood
    /\ Part(fc[c]) = 3 => HasPadding(fc[c])
-----------------------------------------------------------------------------
(* The other end of a connection (external).  What the server does is seen *)
(* by a read, and so it does it when one waits; the next record is sent    *)
(* once the one before it was read.                                        *)

AtRest(c) ==
    /\ Waits(c) /\ srv[c].closed = "no"
    /\ fc[c].header = NoRecord
    /\ srv[c].sent = <<>> \/ srv[c].parts = 3

\* The server sends a record, or only its header, or all but the padding.
Send(c, rec, parts) ==
    /\ AtRest(c)
    /\ Len(srv[c].sent) < MaxRecords[c]
    /\ parts = 3 \/ (parts = 2 /\ rec.pad > 0) \/ (parts = 1 /\ rec.len > 0)
    /\ srv' = [srv EXCEPT ![c].sent = Append(@, rec), ![c].parts = parts]
    /\ UNCHANGED <<fc, main>>

\* The server starts, or stops, to send records without a message one after the
\* other, each there before the read for it.  A read that gets all it asks for does
\* not look at the time.
Flood(c) ==
    /\ c \in Noisy
    /\ AtRest(c)
    /\ srv' = [srv EXCEPT ![c].flood = TRUE]
    /\ UNCHANGED <<fc, main>>

Ebb(c) ==
    /\ fc[c].pc = "read" /\ srv[c].flood
    /\ srv' = [srv EXCEPT ![c].flood = FALSE]
    /\ UNCHANGED <<fc, main>>

Close(c, how) ==
    /\ Waits(c) /\ srv[c].closed = "no"
    /\ srv' = [srv EXCEPT ![c].closed = how]
    /\ UNCHANGED <<fc, main>>

\* The time of a request is over; it is noticed at the next check.
Expire(c) ==
    /\ Running(c) /\ fc[c].timeout = "set" /\ ~fc[c].expired
    /\ fc' = [fc EXCEPT ![c].expired = TRUE]
    /\ UNCHANGED <<srv, main>>

\* A signal interrupts a read, which starts again; errno stays EINTR until another
\* call fails.
Interrupt(c) ==
    /\ c \in Noisy
    /\ Waits(c) /\ ~fc[c].stale
    /\ fc' = [fc EXCEPT ![c].stale = TRUE]
    /\ UNCHANGED <<srv, main>>
-----------------------------------------------------------------------------
(* vv_fc_request                                                           *)

Set(c, r) == fc' = [fc EXCEPT ![c] = r] /\ UNCHANGED <<srv, main>>

\* vv_check_timeout when it finds that the time is over.
TimedOut(r) == [r EXCEPT !.interrupted = r.interrupted \/ r.expired]

\* VV_FC_RET: the socket is closed, and a time-out overrides any other code.
\* What is local to the request (fc_local) is gone after it.
Ended(r, code) ==
    [NewCall(r.timeout) EXCEPT !.pc = "ended", !.invalid = r.invalid,
                               !.return_code = code, !.result = code,
                               !.data = r.data, !.error = r.error]

BugReturned(r, rc) == Ended(r, rc)

Returned(r, rc) == Ended(r, IF r.interrupted THEN "TIMEOUT" ELSE rc)

\* fc_edge at the start; an invalid time-out returns before VV_FC_RET.
Edge(c) ==
    /\ fc[c].pc = "start"
    /\ LET r == [NewCall(fc[c].timeout) EXCEPT !.pc = "connect", !.invalid = fc[c].invalid]
       IN Set(c, IF r.timeout = "bad" THEN [r EXCEPT !.pc = "ended", !.result = "BAD_TIMEOUT"]
                 ELSE r)

\* vv_connect_socket.  The time is checked before connect and after it failed.
\* An address that is not found, a path that is too long, no socket and a
\* connect that fails all end the request without a socket.
Connect(c) ==
    /\ fc[c].pc = "connect"
    /\ \/ Set(c, [fc[c] EXCEPT !.pc = "write", !.sock = TRUE])
       \/ Set(c, Returned(fc[c], "CONNECT"))
       \/ /\ fc[c].expired
          /\ Set(c, Returned([TimedOut(fc[c]) EXCEPT !.sock = TRUE], "TIMEOUT"))

\* The begin record, the environment and the body of the request, written one
\* after the other; each write may fail, or may be cut by the time-out.
Write(c) ==
    /\ fc[c].pc = "write"
    /\ \/ Set(c, [fc[c] EXCEPT !.pc = "read"])
       \/ Set(c, Returned(fc[c], "ENV"))
       \/ Set(c, Returned(TimedOut(fc[c]), "SOCK_WRITE"))

Bad(r, status) == Returned([r EXCEPT !.read_status = status], status)

\* check_read after a read that returned nothing or an error.
FailedRead(r, res) == Bad(r, IF res < 0 THEN "SOCK_READ" ELSE "PROT_ERR")

\* fc_server_read: a header, checked, and what is to be read for it.
ReadHeader(c) ==
    /\ fc[c].pc = "read" /\ Part(fc[c]) = 1 /\ Available(c)
    /\ LET rec == srv[c].sent[Len(srv[c].sent)]
       IN Set(c, IF ~rec.good THEN Bad(fc[c], "PROT_ERR")
                 ELSE [fc[c] EXCEPT !.header = rec, !.headers = @ + 1,
                                    !.msg_remain = rec.len, !.padding_len = rec.pad])

\* The end of a record: the next header, or the end of the answer.  An unknown
\* type ends the request.
EndRecord(r) ==
    IF r.header.type = "UNK" THEN Bad(r, "UNK")
    ELSE IF r.padding_len > 0 THEN r
    ELSE IF r.read_done THEN Returned([r EXCEPT !.header = NoRecord], r.read_status)
    ELSE [r EXCEPT !.header = NoRecord]

\* The message goes to the stream of its type; one that is not 8 bytes long
\* does not end the request, nor does a server that is overloaded.
TakeMessage(r, n) ==
    LET read == [r EXCEPT !.msg_remain = 0]
    IN CASE r.header.type = "STDOUT" -> EndRecord([read EXCEPT !.data = Append(@, n)])
         [] r.header.type = "STDERR" -> EndRecord([read EXCEPT !.error = Append(@, n)])
         [] r.header.type = "END" /\ r.msg_remain # 8 -> Bad(read, "PROT_ERR")
         [] r.header.type = "END" /\ r.msg_remain = 8 ->
                EndRecord([read EXCEPT !.read_done = TRUE])
         [] r.header.type = "BUSY" -> Bad([read EXCEPT !.read_done = TRUE], "SRV")
         [] OTHER -> EndRecord(read)

ReadMessage(c) ==
    /\ fc[c].pc = "read" /\ Part(fc[c]) = 2 /\ Available(c)
    /\ Set(c, TakeMessage(fc[c], Len(srv[c].sent)))

\* A record without a message, and the padding, which is thrown away.
ReadPadding(c) ==
    /\ fc[c].pc = "read" /\ Part(fc[c]) = 3
    /\ HasPadding(fc[c]) => Available(c)
    /\ Set(c, EndRecord([fc[c] EXCEPT !.padding_len = 0]))

\* At the end of the stream read returns 0 and leaves errno alone: with EINTR left
\* from an earlier call the loop of vv_read_socket does not end.
Spins(c) == Waits(c) /\ srv[c].closed = "orderly" /\ fc[c].stale

Spin(c) == Spins(c) /\ UNCHANGED vars

BugReadFails(c) ==
    /\ Waits(c) /\ ~Spins(c)
    /\ srv[c].closed # "no"
    /\ Set(c, FailedRead(TimedOut(fc[c]), IF srv[c].closed = "orderly" THEN 0 ELSE -1))

\* vv_read_socket that does not get what it waits for: the server closed, the
\* connection was reset, or the time is over.
ReadFails(c) ==
    /\ Waits(c) /\ ~Spins(c)
    /\ \/ /\ srv[c].closed # "no"
          /\ Set(c, FailedRead(TimedOut(fc[c]), IF srv[c].closed = "orderly" THEN 0 ELSE -1))
       \/ fc[c].expired /\ Set(c, Returned(TimedOut(fc[c]), fc[c].read_status))
-----------------------------------------------------------------------------
(* vv_call_fcgi and the statements                                         *)

\* call-server with one server runs in the calling thread.
CallServer(req) ==
    /\ main.pc = "idle" /\ req # {}
    /\ \A c \in req : ~Running(c) /\ (fc[c].invalid => Retry)
    /\ main' = [pc |-> IF Cardinality(req) = 1 THEN "single" ELSE "create",
                req |-> req, left |-> req, started |-> IF Cardinality(req) = 1 THEN 1 ELSE 0,
                finokay |-> 0, status |-> "none"]
    /\ IF Cardinality(req) > 1 THEN UNCHANGED <<fc, srv>>
       ELSE /\ fc' = [c \in Calls |-> IF c \in req THEN [fc[c] EXCEPT !.pc = "start"] ELSE fc[c]]
            /\ srv' = [c \in Calls |-> IF c \in req THEN NoServer ELSE srv[c]]

EndSingle(c) ==
    /\ main.pc = "single" /\ main.req = {c} /\ ~Running(c)
    /\ main' = [main EXCEPT !.pc = "idle", !.left = {},
                            !.finokay = IF fc[c].result = "OKAY" THEN 1 ELSE 0,
                            !.status = IF fc[c].result = "OKAY" THEN "OKAY" ELSE "FAILED"]
    /\ UNCHANGED <<fc, srv>>

First(S) == CHOOSE c \in S : \A d \in S : c <= d

CreateThread(c, starts) ==
    /\ main.pc = "create" /\ c \in main.left /\ c = First(main.left)
    /\ fc' = [fc EXCEPT ![c] = IF starts THEN [@ EXCEPT !.pc = "start"]
                               ELSE [@ EXCEPT !.invalid = TRUE]]
    /\ main' = [main EXCEPT !.started = IF starts THEN @ + 1 ELSE @,
                            !.left = IF @ = {c} THEN main.req ELSE @ \ {c},
                            !.pc = IF main.left = {c} THEN "join" ELSE @]
    /\ srv' = IF starts THEN [srv EXCEPT ![c] = NoServer] ELSE srv

\* pthread_join, which is not called for a thread that is marked invalid.
BugMayJoin(c) == TRUE

MayJoin(c) == fc[c].invalid \/ ~Running(c)

JoinThread(c) ==
    /\ main.pc = "join" /\ c \in main.left /\ c = First(main.left)
    /\ MayJoin(c)
    /\ fc' = [fc EXCEPT ![c] = IF @.invalid THEN [@ EXCEPT !.data = <<>>, !.error = <<>>] ELSE @]
    /\ main' = [main EXCEPT !.left = @ \ {c},
                            !.finokay = IF ~fc[c].invalid /\ fc[c].result = "OKAY"
                                        THEN @ + 1 ELSE @]
    /\ UNCHANGED srv

EndCall ==
    /\ main.pc = "join" /\ main.left = {}
    /\ main' = [main EXCEPT !.pc = "idle",
                            !.status = IF /\ main.started = Cardinality(main.req)
                                          /\ main.finokay = Cardinality(main.req)
                                       THEN "OKAY" ELSE "FAILED"]
    /\ UNCHANGED <<fc, srv>>

\* delete-server and a new-server in its place.
NewServer(c, timeout) ==
    /\ main.pc = "idle" /\ ~Running(c)
    /\ fc' = [fc EXCEPT ![c] = NewCall(timeout)]
    /\ srv' = [srv EXCEPT ![c] = NoServer]
    /\ UNCHANGED main

Request(c) ==
    \/ Edge(c)
    \/ Connect(c)
    \/ Write(c)
    \/ ReadHeader(c)
    \/ ReadMessage(c)
    \/ ReadPadding(c)
    \/ ReadFails(c)
    \/ Spin(c)

Caller ==
    \/ \E c \in Calls : EndSingle(c) \/ JoinThread(c)
    \/ \E c \in Calls, s \in BOOLEAN : CreateThread(c, s)
    \/ EndCall

Next ==
    \/ \E c \in Calls : Request(c) \/ Flood(c) \/ Ebb(c) \/ Expire(c) \/ Interrupt(c)
    \/ \E c \in Calls, how \in {"orderly", "reset"} : Close(c, how)
    \/ \E c \in Calls, p \in 1 .. 3 : \E rec \in Records[c] : Send(c, rec, p)
    \/ \E req \in SUBSET Calls : CallServer(req)
    \/ Caller
    \/ \E c \in Calls : \E t \in Timeouts[c] : NewServer(c, t)

\* The threads and the caller run, and time passes; the server may do nothing.
Spec ==
    /\ Init
    /\ [][Next]_vars
    /\ \A c \in Calls : WF_vars(Request(c)) /\ WF_vars(Expire(c))
    /\ WF_vars(Caller)
-----------------------------------------------------------------------------
(* Properties                                                              *)

\* The records with a message that the server of c sent on a stream.
OnStream(c, type) ==
    {n \in DOMAIN srv[c].sent : srv[c].sent[n].type = type /\ srv[c].sent[n].len > 0}

\* The sequence s of numbers has the members of S, each once and in order.
InOrder(s, S) ==
    /\ {s[i] : i \in DOMAIN s} = S
    /\ \A i, j \in DOMAIN s : i < j => s[i] < s[j]

\* A request that ends with VV_OKAY got the end record of the server, and its
\* data and error are all that the server sent on each stream, in order, however
\* the two were mixed, padded or cut into records, and whatever time-out, close
\* or error came between two parts.
OkMeansWhole ==
    \A c \in Calls :
        (fc[c].result = "OKAY" /\ ~fc[c].invalid /\ fc[c].pc = "ended") =>
            /\ srv[c].sent # <<>>
            /\ LET e == srv[c].sent[Len(srv[c].sent)]
               IN e.type = "END" /\ e.len = 8 /\ srv[c].parts >= 2
            /\ InOrder(fc[c].data, OnStream(c, "STDOUT"))
            /\ InOrder(fc[c].error, OnStream(c, "STDERR"))

\* "call-server will wait for all <server> requests to finish"
\* (docs/call-server.2vv): when it returns, no thread is still at work, no socket
\* is left open, and VV_OKAY means that each one ended with VV_OKAY.
AllFinished ==
    main.pc = "idle" =>
        /\ \A c \in main.req : ~Running(c) /\ ~fc[c].sock
        /\ main.finokay <= main.started
        /\ main.status = "OKAY" => main.finokay = Cardinality(main.req)

\* When each of its servers has a time-out, call-server returns, even when a server
\* stalls in the middle of a record, unless a server sends record after record
\* without end, or closes behind a read that a signal interrupted.  The two
\* exceptions are not in docs/new-server.2vv:55: see the README.
CallReturns ==
    (main.pc # "idle" /\ \A c \in main.req : fc[c].timeout # "none")
        ~> (main.pc = "idle" \/ \E c \in main.req : srv[c].flood \/ Spins(c))
=============================================================================
