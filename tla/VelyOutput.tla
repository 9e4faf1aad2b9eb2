----------------------------- MODULE VelyOutput -----------------------------
(***************************************************************************)
(* The response of one request (velyrt.c): which of its parts the client   *)
(* gets, and the flags of the request that decide it.                      *)
(*                                                                         *)
(* The operators take the flags and the response as a record and return    *)
(* them as they are after the call.  What the client gets is a sequence of *)
(* parts: "header" for any number of header lines, "bare" for those that   *)
(* are written without a note in sent_header (the answers 204 and 304),    *)
(* "end" for the empty line, "body" for any amount of data.  Output within *)
(* write-string goes to a string of the application and not to the client. *)
(***************************************************************************)
EXTENDS Naturals, Sequences, SequencesExt

CONSTANT MaxNested   \* VV_MAX_NESTED_WRITE_STRING

ASSUME MaxNestedAssumption == MaxNested \in Nat

\* vely_init_input_req
NewResponse == [sent_header     |-> FALSE,
                data_was_output |-> FALSE,
                silent          |-> FALSE,
                disable_output  |-> FALSE,
                is_shut         |-> FALSE,
                finished_output |-> FALSE,
                strings         |-> 0,
                out             |-> <<>>]

Response == [sent_header : BOOLEAN, data_was_output : BOOLEAN,
             silent : BOOLEAN, disable_output : BOOLEAN, is_shut : BOOLEAN,
             finished_output : BOOLEAN, strings : 0 .. MaxNested + 1,
             out : Seq({"header", "bare", "end", "body"})]

\* vely_gen_write: nothing after finished_output.  A part goes on as long as
\* nothing else is written.
Write(r, part) ==
    IF r.finished_output \/ (r.out # <<>> /\ Last(r.out) = part) THEN r
    ELSE [r EXCEPT !.out = Append(@, part)]

\* vely_gen_set_status, vely_gen_set_content_type, vely_gen_add_header
WriteHeader(r, part) == IF r.silent THEN r ELSE Write(r, part)

\* (A definition named Bug... is a slip this code could have; it is used only to
\* show that a property would notice.)
BugNotEnded(r) == IF r.silent THEN r ELSE Write(r, "end")

\* vely_gen_header_end
HeaderEnd(r) ==
    IF r.data_was_output THEN r
    ELSE [(IF r.silent THEN r ELSE Write(r, "end")) EXCEPT !.data_was_output = TRUE]

\* vely_output_http_header
OutputHttpHeader(r) ==
    IF r.sent_header \/ r.disable_output THEN r
    ELSE WriteHeader([r EXCEPT !.sent_header = TRUE], "header")

\* vely_server_error, vely_bad_request and vely_cant_find_file, which differ
\* in the status only: no status when a header was sent before.
ErrorPage(r) ==
    IF r.sent_header THEN HeaderEnd(r)
    ELSE HeaderEnd(WriteHeader([r EXCEPT !.sent_header = TRUE], "header"))

\* vely_write_web, a header sent
WriteWeb(r) == Write(HeaderEnd(r), "body")

\* vely_puts and vely_printf when they may write: to the string of the innermost
\* write-string, or to the client.
InString(r) == r.strings > 0
Put(r) == IF InString(r) THEN r ELSE WriteWeb(r)

\* vely_validate_output, and the header that vely_write_web wants
MayPut(r) == InString(r) \/ (~r.disable_output /\ r.sent_header)

\* vely_write_to_string, with a string and with NULL
OpenString(r) == [r EXCEPT !.strings = @ + 1]
CloseString(r) == [r EXCEPT !.strings = @ - 1]

\* vely_get_input for the method OPTIONS
AnswerOptions(r) == HeaderEnd(WriteHeader(r, "bare"))

\* vely_out_file once it has disabled output: the file cannot be served, the
\* client has it already, or it is sent.
Deliver(r, file) ==
    LET q == [r EXCEPT !.disable_output = TRUE]
    IN  CASE file = "missing"  -> ErrorPage(q)
          [] file = "matching" -> HeaderEnd(WriteHeader(q, "bare"))
          [] file = "changed"  ->
                 WriteWeb(WriteHeader([q EXCEPT !.sent_header = TRUE], "header"))

\* vely_FCGI_Finish; the statement finish-output disables output, too.
Finish(r) == [r EXCEPT !.finished_output = TRUE]
FinishOutput(r) == [Finish(r) EXCEPT !.disable_output = TRUE]

BugShut(r) == [r EXCEPT !.is_shut = TRUE]

\* vely_shut: a header that was sent is ended.
Shut(r) ==
    IF r.is_shut THEN r
    ELSE LET q == [r EXCEPT !.is_shut = TRUE]
         IN  IF q.sent_header THEN HeaderEnd(q) ELSE q
=============================================================================
