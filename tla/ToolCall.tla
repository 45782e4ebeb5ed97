------------------------------ MODULE ToolCall ------------------------------
(***************************************************************************)
(* The execution of one function call: ToolService.execute() over the two  *)
(* kinds of tools, the local ping and a FunctionCallRest, read by one of   *)
(* its two consumers, task_function_call() of the conversation or the      *)
(* handler of PUT /function_call (tool/svc_tool.py, tool/provider/).       *)
(*                                                                         *)
(* A tool is an async generator: its code runs while the consumer asks for *)
(* the next value, and stands still at a yield while the consumer sends.   *)
(***************************************************************************)
EXTENDS Naturals, FiniteSets, SequencesExt

CONSTANTS
  Consumer,   \* subset of {"loop", "put"}
  Tool,       \* subset of {"ping", "rest", "unknown"}
  Arguments,  \* kinds of FunctionCall.arguments, see ArgumentKind
  MaxLines    \* bound: lines the process writes to each pipe

\* "valid"; "empty": ''; "broken": no JSON; "null": JSON, but no object;
\* "lacking": an object without the parameter that ping requires.
ArgumentKind == {"valid", "empty", "broken", "null", "lacking"}

ASSUME CallKinds == /\ Consumer \subseteq {"loop", "put"}
                    /\ Tool \subseteq {"ping", "rest", "unknown"}
                    /\ Arguments \subseteq ArgumentKind
ASSUME LinesBounded == MaxLines \in Nat

Pipe == {"stdout", "stderr"}
ExitCode == {"zero", "nonzero"}
Reader == Pipe \cup {"return_code"}

VARIABLES
  consumer, tool, arguments,     \* what is called, by whom
  status, content, error,        \* the FunctionCall; content as a sequence of pieces
  pc,        \* the consumer: "new", "announcing", "running" (inside the generator),
             \* "sending", "closing" (the finally block) or "over"
  at,        \* where the generator is suspended
  process,   \* "none", "running", or the exit code ("zero" or "nonzero")
  written,   \* lines the process has written to each pipe
  taken,     \* lines that readline() has returned
  pending,   \* tasks that the loop waits for
  ready,     \* the result of each task that has completed, else "no"
  batch,     \* tasks returned by asyncio.wait() and not yet looked at
  return_code,
  reader,    \* the pipe whose line is being reported
  asked,     \* history: a request was sent to the microservice
  stopped    \* history: the call was cancelled, or the client could not be reached

fixed == <<consumer, tool, arguments>>
outcome == <<status, content, error>>
loop == <<pending, ready, batch, return_code, reader>>
world == <<process, written, taken>>
vars == <<fixed, outcome, pc, at, world, loop, asked, stopped>>

\* The adapters launch a call that the provider has completed, and V1Response
\* one that it has left incomplete, too.
Arrives(by) == IF by = "loop" THEN {"completed", "incomplete"} ELSE {"in_progress"}

Init ==
  /\ consumer \in Consumer /\ tool \in Tool /\ arguments \in Arguments
  /\ consumer = "put" => arguments \notin {"empty", "broken"}   \* json.dumps()
  /\ status \in Arrives(consumer) /\ content = <<>> /\ error = FALSE
  /\ pc = "new" /\ at = "none"
  /\ process = "none"
  /\ written = [p \in Pipe |-> 0] /\ taken = [p \in Pipe |-> 0]
  /\ pending = {} /\ batch = {}
  /\ ready = [t \in Reader |-> "no"]
  /\ return_code = "zero" /\ reader = "none"
  /\ asked = FALSE /\ stopped = FALSE

-----------------------------------------------------------------------------
\* What the generator tells its consumer.

\* A piece of the content that is not a line of a pipe.
Note(text) == <<text, 0>>

\* yield
Yields(where) == pc' = "sending" /\ at' = where

\* The generator returns: execute() sets the status, and the finally block of
\* task_function_call() the last one.
Ends ==
  /\ IF consumer = "loop" THEN status' = "finished" /\ pc' = "closing"
                          ELSE status' = "completed" /\ pc' = "over"
  /\ at' = "ended"

\* Defect: the model is not told why.
RefusesSilently(why) == error' = TRUE /\ Ends /\ UNCHANGED content

\* A tool that fails on purpose explains itself and returns.
Refuses(why) == content' = <<Note(why)>> /\ error' = TRUE /\ Ends

\* Defect: the error flag is forgotten.
RaisesQuietly ==
  /\ content' = Append(content, Note("tool failed"))
  /\ status' = "completed"
  /\ Yields("failed")
  /\ UNCHANGED error

\* An exception out of the tool is caught by execute().
Raises ==
  /\ content' = Append(content, Note("tool failed"))
  /\ error' = TRUE
  /\ status' = "completed"
  /\ Yields("failed")

-----------------------------------------------------------------------------
\* The consumers.

\* execute() looks the tool up; both tools begin with yield "validating".
Execute ==
  IF tool = "unknown"
  THEN /\ content' = <<Note("tool not found")>> /\ error' = TRUE /\ status' = "completed"
       /\ Yields("failed")
  ELSE Yields("validating") /\ UNCHANGED <<content, error, status>>

Begin ==
  /\ pc = "new"
  /\ \/ /\ consumer = "loop"
        /\ status' = "executing" /\ pc' = "announcing"
        /\ UNCHANGED <<content, error, at>>
     \/ consumer = "put" /\ Execute
  /\ UNCHANGED <<fixed, world, loop, asked, stopped>>

Announced ==
  /\ pc = "announcing"
  /\ Execute
  /\ UNCHANGED <<fixed, world, loop, asked, stopped>>

\* The send of the finally block returns.
Closed ==
  /\ pc = "closing"
  /\ pc' = "over"
  /\ UNCHANGED <<fixed, outcome, at, world, loop, asked, stopped>>

\* stop_conversation(): CancelledError where the task is suspended, which may be
\* before it has begun.  No except clause on the way catches it; a process and
\* its readers are left behind.
Cancel ==
  /\ consumer = "loop" /\ pc # "over" /\ at # "handling"
  /\ IF pc \in {"running", "sending"}
     THEN status' = "finished" /\ pc' = "closing"
     ELSE pc' = "over" /\ UNCHANGED status
  /\ at' = IF pc = "new" THEN at ELSE "ended"
  /\ stopped' = TRUE
  /\ UNCHANGED <<fixed, content, error, world, loop, asked>>

\* send_update() raises on a broken websocket: only inside the try is it caught.
SendFails ==
  /\ consumer = "loop" /\ pc \in {"announcing", "sending", "closing"}
  /\ IF pc = "sending"
     THEN /\ content' = <<Note("generic exception")>> /\ error' = TRUE
          /\ status' = "finished" /\ pc' = "closing"
     ELSE pc' = "over" /\ UNCHANGED outcome
  /\ at' = "ended" /\ stopped' = TRUE
  /\ UNCHANGED <<fixed, world, loop, asked>>

Resumes(where) == pc = "sending" /\ at = where

\* The last yield of a tool, or of execute(), returns.
ToolEnds ==
  /\ Resumes("completed") \/ Resumes("failed")
  /\ Ends
  /\ UNCHANGED <<fixed, content, error, world, loop, asked, stopped>>

-----------------------------------------------------------------------------
\* FunctionCallRest.__call__()

Requests ==
  /\ Resumes("validating") /\ tool = "rest"
  /\ \/ /\ arguments \in {"empty", "broken"}         \* json.loads() raises
        /\ Raises
        /\ UNCHANGED asked
     \/ /\ arguments \notin {"empty", "broken"}
        /\ pc' = "running" /\ at' = "requesting" /\ asked' = TRUE
        /\ UNCHANGED outcome
     \/ /\ arguments \in {"null", "lacking"}         \* an expression may raise
        /\ Raises
        /\ UNCHANGED asked
  /\ UNCHANGED <<fixed, world, loop, stopped>>

\* The response is mapped by the definition, which says whether it is an error,
\* and whose content may be '' or, out of an expression, None.
Responds ==
  /\ pc = "running" /\ at = "requesting"
  /\ content' \in {<<>>, <<Note("response")>>} /\ error' \in BOOLEAN
  /\ Yields("completed")
  /\ UNCHANGED <<fixed, status, world, loop, asked, stopped>>

\* The definition does not map the status code, or the request or the
\* evaluation of the response raises.
RequestFails ==
  /\ pc = "running" /\ at = "requesting"
  /\ Refuses("status code") \/ Raises
  /\ UNCHANGED <<fixed, world, loop, asked, stopped>>

-----------------------------------------------------------------------------
\* fuction_call_ping()

Validates ==
  /\ Resumes("validating") /\ tool = "ping"
  /\ CASE arguments \in {"empty", "broken"} -> Refuses("no arguments")
       [] arguments = "null"               -> Raises
       [] arguments = "lacking"            -> Refuses("no target")
       [] arguments = "valid"              -> /\ pc' = "running" /\ at' = "spawning"
                                              /\ UNCHANGED outcome
  /\ UNCHANGED <<fixed, world, loop, asked, stopped>>

\* create_subprocess_exec()
Spawns ==
  /\ pc = "running" /\ at = "spawning"
  /\ \/ /\ process' = "running" /\ pending' = Reader /\ at' = "waiting"
        /\ UNCHANGED <<outcome, pc>>
     \/ /\ Refuses("not found") \/ Refuses("exception")
        /\ UNCHANGED <<process, pending>>
  /\ UNCHANGED <<fixed, written, taken, ready, batch, return_code, reader, asked, stopped>>

\* asyncio.wait() returns every task that has completed by then.
Wakes ==
  /\ pc = "running" /\ at = "waiting"
  /\ batch' = {t \in pending : ready[t] # "no"}
  /\ batch' # {}
  /\ pending' = pending \ batch'
  /\ at' = "handling"
  /\ UNCHANGED <<fixed, outcome, pc, world, ready, return_code, reader, asked, stopped>>

\* Defect: a pipe that has been closed is read again.
HandlesAndReadsOn(t) ==
  /\ pc = "running" /\ at = "handling" /\ t \in batch
  /\ batch' = batch \ {t}
  /\ ready' = [ready EXCEPT ![t] = "no"]
  /\ CASE ready[t] = "line" ->
            /\ content' = Append(content, <<t, taken[t]>>) /\ reader' = t
            /\ Yields("progress")
            /\ UNCHANGED <<status, error, return_code, pending>>
       [] ready[t] = "eof" ->
            /\ pending' = pending \cup {t}
            /\ UNCHANGED <<outcome, pc, at, return_code, reader>>
       [] ready[t] = "exit" ->
            /\ return_code' = process
            /\ UNCHANGED <<outcome, pc, at, reader, pending>>
       [] ready[t] = "raises" ->
            Refuses("exception") /\ UNCHANGED <<return_code, reader, pending>>
  /\ UNCHANGED <<fixed, world, asked, stopped>>

\* The loop over the completed tasks; a set, in any order.
Handles(t) ==
  /\ pc = "running" /\ at = "handling" /\ t \in batch
  /\ batch' = batch \ {t}
  /\ ready' = [ready EXCEPT ![t] = "no"]
  /\ CASE ready[t] = "line" ->
            /\ content' = Append(content, <<t, taken[t]>>) /\ reader' = t
            /\ Yields("progress")
            /\ UNCHANGED <<status, error, return_code>>
       [] ready[t] = "eof" ->
            UNCHANGED <<outcome, pc, at, return_code, reader>>
       [] ready[t] = "exit" ->
            /\ return_code' = process
            /\ UNCHANGED <<outcome, pc, at, reader>>
       [] ready[t] = "raises" ->
            Refuses("exception") /\ UNCHANGED <<return_code, reader>>
  /\ UNCHANGED <<fixed, world, pending, asked, stopped>>

\* The consumer is back from its send: the next line of that pipe is read.
Reported ==
  /\ Resumes("progress")
  /\ pending' = pending \cup {reader}
  /\ pc' = "running" /\ at' = "handling"
  /\ UNCHANGED <<fixed, outcome, world, ready, batch, return_code, reader, asked, stopped>>

\* Defect: the loop ends with the process.
NothingLeftAfterExit == "return_code" \notin pending

\* while len(pending) > 0
NothingLeft == pending = {}

LoopsOrCompletes ==
  /\ pc = "running" /\ at = "handling" /\ batch = {}
  /\ \/ ~NothingLeft /\ at' = "waiting" /\ UNCHANGED <<outcome, pc>>
     \/ /\ NothingLeft
        /\ IF return_code # "zero" THEN content' = Append(content, Note("return code")) /\ error' = TRUE
                              ELSE UNCHANGED <<content, error>>
        /\ Yields("completed")
        /\ UNCHANGED status
  /\ UNCHANGED <<fixed, world, loop, asked, stopped>>

-----------------------------------------------------------------------------
\* The process and the tasks that read from it; they go on whatever becomes of
\* the generator.

Writes(p) ==
  /\ process = "running" /\ written[p] < MaxLines
  /\ written' = [written EXCEPT ![p] = @ + 1]
  /\ UNCHANGED <<fixed, outcome, pc, at, process, taken, loop, asked, stopped>>

Exits(code) ==
  /\ process = "running"
  /\ process' = code
  /\ UNCHANGED <<fixed, outcome, pc, at, written, taken, loop, asked, stopped>>

\* Defect: the empty line at the end counts as one.
HasLineOrEnd(p) == taken[p] <= written[p]

HasLine(p) == taken[p] < written[p]

\* readline() returns the next line, b'' at the end, or raises; wait() may
\* return before the pipes are drained.
Completes(t, result) ==
  /\ t \in pending /\ ready[t] = "no"
  /\ CASE result = "line"   -> t \in Pipe /\ HasLine(t)
       [] result = "raises" -> t \in Pipe /\ HasLine(t)
       [] result = "eof"    -> t \in Pipe /\ taken[t] = written[t] /\ process # "running"
       [] result = "exit"   -> t = "return_code" /\ process # "running"
  /\ taken' = IF result = "line" THEN [taken EXCEPT ![t] = @ + 1] ELSE taken
  /\ ready' = [ready EXCEPT ![t] = result]
  /\ UNCHANGED <<fixed, outcome, pc, at, process, written, pending, batch,
                 return_code, reader, asked, stopped>>

-----------------------------------------------------------------------------
Result == {"line", "eof", "exit", "raises"}

ConsumerStep == Begin \/ Announced \/ Closed \/ ToolEnds
RestStep == Requests \/ Responds \/ RequestFails
PingStep == \/ Validates \/ Spawns \/ Wakes \/ Reported \/ LoopsOrCompletes
            \/ \E t \in Reader : Handles(t)
Disturbance == Cancel \/ SendFails
Subprocess == (\E p \in Pipe : Writes(p)) \/ (\E code \in ExitCode : Exits(code))
Reading == \E t \in Reader, r \in Result : Completes(t, r)

Terminated == pc = "over" /\ UNCHANGED vars

Next == ConsumerStep \/ RestStep \/ PingStep \/ Disturbance \/ Subprocess
        \/ Reading \/ Terminated

Spec == Init /\ [][Next]_vars

\* The event loop runs what is ready, sends and requests return, `ping -c'
\* ends.
Fairness ==
  /\ WF_vars(ConsumerStep \/ RestStep \/ PingStep)
  /\ WF_vars(\E code \in ExitCode : Exits(code))
  /\ \A t \in Reader : WF_vars(\E r \in Result : Completes(t, r))

LiveSpec == Spec /\ Fairness

-----------------------------------------------------------------------------
Piece == (Pipe \X (1..MaxLines)) \cup
         {Note(text) : text \in {
          "tool failed", "tool not found", "generic exception", "response",
          "status code", "no arguments", "no target", "not found", "exception",
          "return code"}}

TypeOK ==
  /\ consumer \in Consumer /\ tool \in Tool /\ arguments \in Arguments
  /\ status \in {"in_progress", "incomplete", "executing", "completed", "finished"}
  /\ content \in Seq(Piece)
  /\ error \in BOOLEAN
  /\ pc \in {"new", "announcing", "running", "sending", "closing", "over"}
  /\ at \in {"none", "validating", "spawning", "waiting", "handling", "progress",
             "requesting", "completed", "failed", "ended"}
  /\ process \in {"none", "running"} \cup ExitCode
  /\ written \in [Pipe -> 0..MaxLines] /\ taken \in [Pipe -> 0..MaxLines]
  /\ pending \subseteq Reader /\ batch \subseteq Reader
  /\ ready \in [Reader -> Result \cup {"no"}]
  /\ return_code \in ExitCode
  /\ reader \in Pipe \cup {"none"}
  /\ asked \in BOOLEAN /\ stopped \in BOOLEAN

\* The places of pipe p's lines in the content.
Lines(pieces, p) == {i \in DOMAIN pieces : pieces[i][1] = p}

\* Of pipe p the pieces hold the first n lines, each once and in their order.
Tells(pieces, p, n) ==
  /\ \A i \in Lines(pieces, p) : pieces[i][2] \in 1..n
  /\ \A k \in 1..n : \E i \in Lines(pieces, p) : pieces[i][2] = k
  /\ \A i, j \in Lines(pieces, p) : i < j => pieces[i][2] < pieces[j][2]

Settled == pc \in {"closing", "over"} /\ ~stopped

\* A ping that is reported as a success is one: the process exited with 0 and
\* the content is all it wrote, each pipe in order, whichever of the pipes and
\* the exit status was seen first; a failing ping loses no output either.
OutputIsComplete ==
  Settled /\ tool = "ping" /\ (~error \/ Note("return code") \in ToSet(content)) =>
    /\ process = IF error THEN "nonzero" ELSE "zero"
    /\ \A p \in Pipe : Tells(content, p, written[p])

\* The detailed call implements CallLife; its execution begins with the first
\* step of its consumer.
Begun == pc = "announcing" \/ at # "none"
Life == INSTANCE CallLife WITH begun <- Begun
HasALife == Life!Spec

\* Whatever the tool and its arguments, and whoever disturbs it, the call ends
\* and its consumer is told.
CallEnds == <>(pc = "over")

\* A call that fails says why in its content, whether a tool refuses or raises, or
\* its consumer cannot be reached; only a microservice that has been asked, and
\* whose answer is mapped to an error without a content, fails without a word.
FailureIsExplained ==
  error /\ content = <<>> => tool = "rest" /\ asked /\ at \in {"completed", "ended"}

\* Executing a tool call means asking the microservice, if its arguments can be
\* read: '' means no arguments, as in a request of V1Messages.
ArgumentsReach ==
  Settled /\ tool = "rest" /\ arguments \in {"valid", "empty"} => asked

=============================================================================
