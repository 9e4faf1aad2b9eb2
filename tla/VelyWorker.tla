----------------------------- MODULE VelyWorker -----------------------------
(***************************************************************************)
(* A worker process: the loop that v1 generates around the requests of an  *)
(* application (v1.c), the dispatcher that vv generates (vv), errors and   *)
(* exits of a request (velyrt.c), and the signals (chandle.c).             *)
(*                                                                         *)
(* Two long jumps cross the loop: report-error goes to end_point in main,  *)
(* exit-request to end_point_exit in the dispatcher.  Each is allowed only *)
(* while its flag is set, and SIGTERM, which may come between any two      *)
(* steps, clears both flags.                                               *)
(*                                                                         *)
(* The code of the application runs in _startup(), _before(), the request  *)
(* handler and _after(); any statement that changes the state here may run *)
(* in each of them, any number of times.  A database statement that fails  *)
(* is the statement and then a report-error.                               *)
(***************************************************************************)
EXTENDS VelyOutput

VARIABLES
    pc,              \* where the worker is, see Places
    req_done,        \* of the dispatcher: was a request handler called
    in_request,      \* vely_in_request
    end_program,     \* vely_end_program
    in_fatal_exit,   \* vely_in_fatal_exit
    handlers,        \* are the signal handlers installed
    done_init,       \* vv_done_init
    done_err_setjmp, \* vely_done_err_setjmp
    done_setjmp,     \* vely_done_setjmp
    in_report,       \* vely_report_error_is_in_report
    txn,             \* is_begin_transaction: "none", or who began it
    resp,            \* the response, see VelyOutput
    log,             \* history: what ran in this request
    resumed          \* history: did exit-request or report-error return to
                     \* the code of the request that called it

sigVars == <<end_program, in_fatal_exit, handlers>>
jmpVars == <<done_err_setjmp, done_setjmp>>
loopVars == <<req_done, in_request, done_init>>
reqVars == <<in_report, txn, resp, log, resumed>>
vars == <<pc, sigVars, jmpVars, loopVars, reqVars>>

User == {"startup", "before", "handler", "after"}
Ended == {"exited", "fatal", "crashed"}
Places == User \cup Ended \cup
          {"accept", "accepted", "setup", "setjmp", "input", "dispatch",
           "unwind", "check", "end_point", "finish", "leaving"}

Init == /\ pc = "accept"
        /\ req_done = FALSE /\ in_request = FALSE /\ done_init = FALSE
        /\ end_program = FALSE /\ in_fatal_exit = FALSE /\ handlers = FALSE
        /\ done_err_setjmp = FALSE /\ done_setjmp = FALSE
        /\ in_report = FALSE /\ txn = "none"
        /\ resp = Finish(NewResponse)
        /\ log = <<>> /\ resumed = {}

-----------------------------------------------------------------------------
\* VV_FATAL
Fatal == pc' = "fatal" /\ UNCHANGED <<in_report, txn, resp, log, resumed>>

\* An error first rolls back the open transaction, and that may be in error.
RollbackMayFail == txn # "none"

\* What ran in the request: its first entries are enough.
Note(e) == IF Len(log) < 6 THEN Append(log, e) ELSE log

\* vely_report_error, called with the response r: a jump to end_point, the
\* end of the worker, or, when a signal took the flag away, a return to the
\* caller, which goes on at ret and has left the response at rest.
ReportErrorFrom(r, ret, rest) ==
    \/ in_report /\ Fatal
    \/ ~in_report /\ RollbackMayFail /\ Fatal
    \/ ~in_report /\ ~done_err_setjmp /\ ~in_fatal_exit /\ Fatal
    \/ /\ ~in_report
       /\ done_err_setjmp \/ in_fatal_exit
       /\ in_report' = TRUE
       /\ txn' = "none"
       /\ log' = Note("error")
       /\ IF done_err_setjmp
          THEN /\ pc' = "end_point"
               /\ resp' = ErrorPage(r)
               /\ UNCHANGED resumed
          ELSE /\ pc' = ret
               /\ resp' = rest
               /\ resumed' = resumed \cup {"error"}

-----------------------------------------------------------------------------
(* The main loop                                                           *)

\* vely_FCGI_Accept returns: a client is connected.
Accept == /\ pc = "accept"
          /\ pc' = "accepted"
          /\ UNCHANGED <<sigVars, jmpVars, loopVars, reqVars>>

EnterRequest == /\ pc = "accepted"
                /\ pc' = "setup"
                /\ in_request' = TRUE
                /\ log' = <<>> /\ resumed' = {}
                /\ UNCHANGED <<sigVars, jmpVars, req_done, done_init,
                               in_report, txn, resp>>

BugReportKept == in_report

\* vely_reset_config
ReportAfterReset == FALSE

\* The signal handlers, vely_reset_config and vely_init_input_req.
Setup == /\ pc = "setup"
         /\ pc' = IF done_init THEN "setjmp" ELSE "startup"
         /\ handlers' = TRUE
         /\ in_report' = ReportAfterReset
         /\ resp' = NewResponse
         /\ UNCHANGED <<end_program, in_fatal_exit, jmpVars, loopVars, txn,
                        log, resumed>>

SetErrJmp == /\ pc = "setjmp"
             /\ pc' = "input"
             /\ done_err_setjmp' = TRUE
             /\ UNCHANGED <<sigVars, done_setjmp, loopVars, reqVars>>

\* vely_get_input: fine, OPTIONS, or a bad request.  When the error of that
\* returns, it goes on with the input, and one cookie too many is then behind
\* the array.  VV_SILENT_HEADER, which it looks up, is a setting of
\* command-line programs.
GetInput ==
    /\ pc = "input"
    /\ \/ /\ pc' = "dispatch"
          /\ UNCHANGED <<in_report, txn, resp, log, resumed>>
       \/ /\ pc' = "end_point" /\ resp' = AnswerOptions(resp)
          /\ UNCHANGED <<in_report, txn, log, resumed>>
       \/ \E ret \in {"input", "crashed"} :
             ReportErrorFrom(ErrorPage(resp), ret, ErrorPage(resp))
    /\ UNCHANGED <<sigVars, jmpVars, loopVars>>

\* The dispatcher up to _before(); or there is no such request.
Dispatch ==
    /\ pc = "dispatch"
    /\ done_setjmp' = TRUE
    /\ req_done' = FALSE
    /\ \/ /\ pc' = "before" /\ log' = Note("before")
          /\ UNCHANGED <<in_report, txn, resp, resumed>>
       \/ ReportErrorFrom(ErrorPage(resp), "unwind", ErrorPage(resp))
    /\ UNCHANGED <<sigVars, done_err_setjmp, in_request, done_init>>

BugFlagKept == done_setjmp

\* vely_done_setjmp after end_point_exit
FlagAfterUnwind == FALSE

\* end_point_exit, by falling through or by a jump.
Unwind == /\ pc = "unwind"
          /\ done_setjmp' = FlagAfterUnwind
          /\ pc' = IF req_done THEN "after" ELSE "check"
          /\ log' = IF req_done THEN Note("after") ELSE log
          /\ UNCHANGED <<sigVars, done_err_setjmp, loopVars, in_report, txn,
                         resp, resumed>>

BugUnchecked == FALSE

\* Does vely_check_transaction find an open transaction?
OpenTransaction == txn # "none"

\* vely_check_transaction(0): it rolls back and reports an error.
Check == /\ pc = "check"
         /\ IF OpenTransaction
            THEN ReportErrorFrom(resp, "end_point", ErrorPage(resp))
            ELSE pc' = "end_point" /\ UNCHANGED <<in_report, txn, resp, log, resumed>>
         /\ UNCHANGED <<sigVars, jmpVars, loopVars>>

EndPoint == /\ pc = "end_point"
            /\ pc' = "finish"
            /\ resp' = Shut(resp)
            /\ done_err_setjmp' = FALSE
            /\ UNCHANGED <<sigVars, done_setjmp, loopVars, in_report, txn, log,
                           resumed>>

BugGoOn == FALSE

\* The test of vely_end_program at the end of a request.
Ending == end_program

\* vely_FCGI_Finish, and the end of the program when it was asked for.
FinishRequest == /\ pc = "finish"
                 /\ pc' = IF Ending THEN "exited" ELSE "leaving"
                 /\ resp' = Finish(resp)
                 /\ UNCHANGED <<sigVars, jmpVars, loopVars, in_report, txn, log,
                                resumed>>

\* The rest of the loop, up to the next accept.
Leave == /\ pc = "leaving"
         /\ pc' = "accept"
         /\ in_request' = FALSE
         /\ UNCHANGED <<sigVars, jmpVars, req_done, done_init, reqVars>>

-----------------------------------------------------------------------------
(* Statements of the application                                           *)

\* The rest of a statement that only changes the response.
Respond(r) == /\ pc \in User
              /\ resp' = r
              /\ UNCHANGED <<pc, sigVars, jmpVars, loopVars, in_report, txn, log,
                             resumed>>

OutHeader == Respond(OutputHttpHeader(resp))

\* silent-header, prior to any header as its documentation asks for
SilentHeader == /\ ~resp.sent_header /\ ~resp.data_was_output
                /\ Respond([resp EXCEPT !.silent = TRUE])

FinishOutputStmt == Respond(FinishOutput(resp))

\* out, pf-out: vely_puts and vely_printf.  While an error is handled, data
\* may be written without a header; but then the error page had one.
Output ==
    \/ MayPut(resp) /\ Respond(Put(resp))
    \/ /\ pc \in User
       /\ ~MayPut(resp)
       /\ ReportErrorFrom(resp, pc, IF resp.disable_output
                                    THEN WriteWeb(ErrorPage(resp))
                                    ELSE ErrorPage(resp))
       /\ UNCHANGED <<sigVars, jmpVars, loopVars>>

\* write-string: the level is counted before the limit is checked.  When that
\* error returns, the string is set up behind write_string_arr, over the level
\* itself, and the next use of it is a crash.
WriteString ==
    \/ resp.strings < MaxNested /\ Respond(OpenString(resp))
    \/ /\ pc \in User
       /\ resp.strings = MaxNested
       /\ ReportErrorFrom(OpenString(resp), "crashed", ErrorPage(OpenString(resp)))
       /\ UNCHANGED <<sigVars, jmpVars, loopVars>>

\* end-write-string, which a condition may separate from its write-string: an
\* error, and when that returns a crash before write_string_arr.
EndWriteString ==
    \/ InString(resp) /\ Respond(CloseString(resp))
    \/ /\ pc \in User
       /\ ~InString(resp)
       /\ ReportErrorFrom(resp, "crashed", ErrorPage(resp))
       /\ UNCHANGED <<sigVars, jmpVars, loopVars>>

\* send-file: an error when output is disabled, write-string aside, or when a
\* header was sent.  When the first of the two returns, the second ends the
\* worker.  The file goes to the client also within write-string.
SendFile(file) ==
    LET valid == ~resp.disable_output \/ InString(resp)
    IN  \/ /\ valid /\ ~resp.sent_header
           /\ Respond(Deliver(resp, file))
        \/ /\ pc \in User
           /\ ~valid
           /\ ReportErrorFrom(resp, "fatal", ErrorPage(resp))
           /\ UNCHANGED <<sigVars, jmpVars, loopVars>>
        \/ /\ pc \in User
           /\ valid /\ resp.sent_header
           /\ ReportErrorFrom(resp, pc, Deliver(ErrorPage(resp), file))
           /\ UNCHANGED <<sigVars, jmpVars, loopVars>>

BeginTransaction == /\ pc \in User
                    /\ txn' = pc
                    /\ UNCHANGED <<pc, sigVars, jmpVars, loopVars, in_report,
                                   resp, log, resumed>>

\* commit-transaction and rollback-transaction
EndTransaction == /\ pc \in User
                  /\ txn' = "none"
                  /\ UNCHANGED <<pc, sigVars, jmpVars, loopVars, in_report,
                                 resp, log, resumed>>

ReportError == /\ pc \in User
               /\ ReportErrorFrom(resp, pc, ErrorPage(resp))
               /\ UNCHANGED <<sigVars, jmpVars, loopVars>>

BugStartOver == "before"

\* Where the dispatcher goes on when sigsetjmp returns by a jump.
AfterJump == "unwind"

\* exit-request: nothing without its flag.
ExitRequest ==
    /\ pc \in User
    /\ IF done_setjmp
       THEN pc' = AfterJump /\ UNCHANGED resumed
       ELSE /\ resumed' = IF pc \in {"before", "handler"}
                          THEN resumed \cup {"exit"} ELSE resumed
            /\ UNCHANGED pc
    /\ UNCHANGED <<sigVars, jmpVars, loopVars, in_report, txn, resp, log>>

\* The code of the application returns.
Return ==
    /\ \/ /\ pc = "startup"
          /\ pc' = "setjmp" /\ done_init' = TRUE
          /\ UNCHANGED <<req_done, log>>
       \/ /\ pc = "before"
          /\ pc' = "handler" /\ req_done' = TRUE
          /\ log' = Note("handler")
          /\ UNCHANGED done_init
       \/ /\ pc = "handler"
          /\ pc' = "unwind"
          /\ UNCHANGED <<req_done, done_init, log>>
       \/ /\ pc = "after"
          /\ pc' = "check"
          /\ UNCHANGED <<req_done, done_init, log>>
    /\ UNCHANGED <<sigVars, jmpVars, in_request, in_report, txn, resp, resumed>>

-----------------------------------------------------------------------------
(* Signals                                                                 *)

\* SIGTERM.  The default action before the handler is there; the end of the
\* program outside a request; else a note, and no more jumps.
SigTerm ==
    /\ pc \notin Ended
    /\ IF ~handlers
       THEN pc' = "crashed" /\ UNCHANGED <<end_program, in_fatal_exit, jmpVars>>
       ELSE /\ end_program' = TRUE
            /\ in_fatal_exit' = TRUE
            /\ done_err_setjmp' = FALSE
            /\ done_setjmp' = FALSE
            /\ pc' = IF in_request THEN pc ELSE "fatal"
    /\ UNCHANGED <<handlers, loopVars, reqVars>>

\* SIGSEGV and the like, caused by the code of the application.
Crash == /\ pc \in User
         /\ pc' = "crashed"
         /\ UNCHANGED <<sigVars, jmpVars, loopVars, reqVars>>

Gone == pc \in Ended /\ UNCHANGED vars

-----------------------------------------------------------------------------
Loop == \/ EnterRequest \/ Setup \/ SetErrJmp \/ GetInput \/ Dispatch
        \/ Unwind \/ Check \/ EndPoint \/ FinishRequest \/ Leave

Statement == \/ OutHeader \/ SilentHeader \/ FinishOutputStmt \/ Output
             \/ WriteString \/ EndWriteString
             \/ \E file \in {"missing", "matching", "changed"} : SendFile(file)
             \/ BeginTransaction \/ EndTransaction \/ ReportError \/ ExitRequest

Next == Accept \/ Loop \/ Statement \/ Return \/ SigTerm \/ Crash \/ Gone

(* The loop goes on and the code of the application returns in the end.     *)
(* Nothing makes a client connect or a signal come.                        *)
Spec == Init /\ [][Next]_vars /\ WF_vars(Loop) /\ WF_vars(Return)
-----------------------------------------------------------------------------
(* Properties                                                              *)

TypeOK ==
    /\ pc \in Places
    /\ \A flag \in {req_done, in_request, end_program, in_fatal_exit, handlers,
                    done_init, done_err_setjmp, done_setjmp, in_report} :
           flag \in BOOLEAN
    /\ txn \in User \cup {"none"}
    /\ resp \in Response
    /\ log \in Seq({"before", "handler", "after", "error"})
    /\ resumed \subseteq {"exit", "error"}

\* _after() runs once for each request whose handler was called and has not
\* failed, and for no other, whichever of the handlers uses exit-request
\* (vv:1101-1111): it is neither skipped nor entered twice.  That exit-request in
\* _before() skips _after() is what docs/exit-request.2vv:18 says, and not what
\* the comment at velyrt.c:3670 says: see the README.
HandlersInOrder ==
    LET Ran(e, n) == \E i \in 1 .. n : log[i] = e
    IN  /\ \A i \in DOMAIN log :
               /\ log[i] # "error" => ~Ran(log[i], i - 1)
               /\ log[i] = "handler" => Ran("before", i - 1)
               /\ log[i] = "after" => Ran("handler", i - 1)
        /\ (pc = "finish" /\ Ran("handler", Len(log))) =>
               Ran("after", Len(log)) \/ Ran("error", Len(log))

Shapes == {<<>>, <<"header">>, <<"header", "end">>, <<"header", "end", "body">>,
           <<"body">>}

\* One header, its end once, then data, whatever statements, errors and exits
\* the request goes through (velyrt.c:2972-2996, 3128-3156, 3340-3357).  Two
\* ways around it are known: an answer 304 or 204, which is not noted in
\* sent_header, and an error that returned to its caller.
WellFormed ==
    \/ resp.out \in Shapes
    \/ \E i \in DOMAIN resp.out : resp.out[i] = "bare"
    \/ "error" \in resumed

\* When a request is over, its header was ended, also when the request output
\* nothing else, failed or exited (velyrt.c:2492); finish-output aside.
HeaderEnded ==
    (pc \in {"leaving", "accept"} /\ resp.out = <<"header">>) => resp.disable_output

\* No transaction that a request began is open when the worker waits for the
\* next one, however the request ended (v1.c:6962, velyrt.c:658-668).
NoOpenTransaction ==
    pc \in {"leaving", "accept", "accepted"} => txn \in {"none", "startup"}

\* report-error of a request ends the request and not the worker, unless it
\* is the second of the request or its rollback fails
\* (error-handling; velyrt.c:654, 3650).
ErrorSurvived ==
    [][(pc \in User \ {"startup"} /\ pc' = "fatal") =>
          (txn # "none" \/ \E i \in DOMAIN log' : log'[i] = "error")]_vars

\* A request, once accepted, comes to its end.
RequestEnds == (pc = "accepted") ~> (pc \in Ended \cup {"accept"})

\* A worker that gets SIGTERM while it serves a request ends after it, if
\* the signal comes before the loop tests for it (v1.c:6989).
EndsWhenTold ==
    (end_program /\ in_request /\ pc # "leaving") ~> (pc \in Ended)

\* vf: workers complete the current request before they exit, or exit
\* immediately.  The code does not always do it: see the README.
TermEnds == end_program ~> (pc \in Ended)

\* exit-request: the code after it is never executed.  After a SIGTERM it
\* is: see the README.
ExitHonored == "exit" \notin resumed
=============================================================================
