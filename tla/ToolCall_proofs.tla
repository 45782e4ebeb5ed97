--------------------------- MODULE ToolCall_proofs ---------------------------
(***************************************************************************)
(* Proofs about ToolCall for every set of consumers, tools and arguments,  *)
(* and for any number of lines of output: it implements CallLife, and what *)
(* a ping writes is told completely.                                       *)
(***************************************************************************)
EXTENDS ToolCall, SequenceTheorems, TLAPS

Text == {"tool failed", "tool not found", "generic exception", "response",
         "status code", "no arguments", "no target", "not found", "exception",
         "return code"}

LEMMA Notes == \A text \in Text : Note(text) \in Piece
BY DEF Piece, Text

\* A piece more: content only grows.
LEMMA Grown ==
  ASSUME NEW s \in Seq(Piece), NEW piece \in Piece
  PROVE  /\ Append(s, piece) \in Seq(Piece) /\ Append(s, piece) # <<>>
         /\ Life!IsPrefix(s, Append(s, piece))
<1>1. /\ Append(s, piece) \in Seq(Piece) /\ Append(s, piece) # <<>>
      /\ Len(Append(s, piece)) = Len(s) + 1 /\ Len(s) \in Nat
      /\ \A i \in 1..Len(s) : Append(s, piece)[i] = s[i]
  BY AppendProperties
<1>2. SubSeq(s, 1, Len(s)) = SubSeq(Append(s, piece), 1, Len(s))
  BY <1>1
<1> QED
  BY <1>1, <1>2 DEF Life!IsPrefix

-----------------------------------------------------------------------------
\* Types.

\* Where the generator is before it starts a process.
Before == {"none", "validating", "spawning", "requesting"}

\* What a completed task says, and which pipe is being reported.
ReadersSound ==
  /\ \A t \in batch : ready[t] # "no"
  /\ \A t \in Reader : /\ ready[t] = "line" => t \in Pipe /\ taken[t] > 0
                       /\ ready[t] = "exit" => process \in ExitCode
  /\ at = "progress" => reader \in Pipe
  /\ pending # {} \/ at \in {"waiting", "handling", "progress"} => process # "none"
  /\ at \in Before => process = "none"
  /\ pc \in {"new", "announcing"} => at = "none"

TypeInv == TypeOK /\ ReadersSound

LEMMA TypeInit == Init => TypeInv
<1> SUFFICES ASSUME Init PROVE TypeInv
  OBVIOUS
<1>1. 0 \in 0..MaxLines /\ <<>> \in Seq(Piece)
  BY LinesBounded
<1> QED
  BY <1>1, CallKinds DEF Init, Arrives, TypeInv, TypeOK, ReadersSound, ExitCode, Result

\* The loop of the ping and its subprocess are left alone: only the call, its
\* consumer and the place of the generator change.
LEMMA OutcomeType ==
  ASSUME TypeInv, UNCHANGED <<fixed, world, loop>>,
         status' \in {"in_progress", "incomplete", "executing", "completed", "finished"},
         content' \in Seq(Piece), error' \in BOOLEAN,
         pc' \in {"new", "announcing", "running", "sending", "closing", "over"},
         at' \in {at, "validating", "spawning", "requesting", "completed", "failed", "ended"},
         at' \in Before => at \in Before, pc' \in {"new", "announcing"} => at' = "none",
         asked' \in BOOLEAN, stopped' \in BOOLEAN
  PROVE  TypeInv'
BY DEF TypeInv, TypeOK, ReadersSound, Before, fixed, world, loop

LEMMA Alone ==
  ASSUME NEW piece \in Piece PROVE <<piece>> \in Seq(Piece) /\ <<piece>> # <<>>
OBVIOUS

LEMMA NoPiece == <<>> \in Seq(Piece)
OBVIOUS

LEMMA EndsType ==
  Ends => /\ status' \in {"completed", "finished"} /\ pc' \in {"closing", "over"}
          /\ at' = "ended"
BY DEF Ends

LEMMA RefusesType ==
  ASSUME NEW why \in Text, Refuses(why)
  PROVE  content' \in Seq(Piece) /\ error' = TRUE /\ content' # <<>> /\ Ends
BY Notes DEF Refuses

LEMMA RaisesType ==
  ASSUME content \in Seq(Piece), Raises
  PROVE  /\ content' \in Seq(Piece) /\ error' = TRUE /\ content' # <<>>
         /\ status' = "completed" /\ pc' = "sending" /\ at' = "failed"
<1>1. Note("tool failed") \in Piece
  BY Notes DEF Text
<1>2. content' = Append(content, Note("tool failed"))
  BY DEF Raises
<1>3. content' \in Seq(Piece) /\ content' # <<>>
  BY <1>1, <1>2, Grown
<1> QED
  BY <1>3 DEF Raises, Yields

LEMMA ExecuteType ==
  ASSUME Execute
  PROVE  /\ pc' = "sending"
         /\ \/ /\ at' = "validating" /\ UNCHANGED outcome
            \/ /\ at' = "failed" /\ status' = "completed" /\ error' = TRUE
               /\ content' \in Seq(Piece) /\ content' # <<>>
<1>1. CASE tool = "unknown"
  <2>1. Note("tool not found") \in Piece
    BY Notes DEF Text
  <2>2. <<Note("tool not found")>> \in Seq(Piece) /\ <<Note("tool not found")>> # <<>>
    BY <2>1, Alone
  <2> QED
    BY <1>1, <2>2 DEF Execute, Yields
<1>2. CASE tool # "unknown"
  BY <1>2 DEF Execute, Yields, outcome
<1> QED
  BY <1>1, <1>2

\* The consumer enters the generator, and nothing else happens.
LEMMA ExecutesType ==
  ASSUME TypeInv, pc \in {"new", "announcing"}, Execute,
         UNCHANGED <<fixed, world, loop, asked, stopped>>
  PROVE  TypeInv'
<1>1. at \in Before
  BY DEF TypeInv, ReadersSound, Before
<1>2. /\ pc' = "sending" /\ at' \in {"validating", "failed"}
      /\ status' \in {status, "completed"} /\ error' \in {error, TRUE}
      /\ content' = content \/ content' \in Seq(Piece)
  BY ExecuteType DEF outcome
<1> QED
  BY <1>1, <1>2, OutcomeType DEF TypeInv, TypeOK

LEMMA ConsumerType == ASSUME TypeInv, ConsumerStep PROVE TypeInv'
<1> USE DEF outcome, Before
<1>1. CASE Begin
  <2>1. CASE Execute
    BY <1>1, <2>1, ExecutesType DEF Begin
  <2>2. CASE ~Execute
    <3>1. status' = "executing" /\ pc' = "announcing" /\ UNCHANGED <<content, error, at>>
      BY <1>1, <2>2 DEF Begin
    <3> QED
      BY <1>1, <3>1, OutcomeType DEF Begin, TypeInv, TypeOK, ReadersSound
  <2> QED
    BY <2>1, <2>2
<1>2. CASE Announced
  BY <1>2, ExecutesType DEF Announced
<1>3. CASE Closed
  BY <1>3 DEF Closed, TypeInv, TypeOK, ReadersSound, Before, fixed, world, loop
<1>4. CASE ToolEnds
  BY <1>4, OutcomeType, EndsType DEF ToolEnds, TypeInv, TypeOK
<1> QED
  BY <1>1, <1>2, <1>3, <1>4 DEF ConsumerStep

LEMMA RestType == ASSUME TypeInv, RestStep PROVE TypeInv'
<1> USE DEF outcome, Before
<1>1. CASE Requests
  <2>1. CASE Raises /\ UNCHANGED asked
    BY <1>1, <2>1, OutcomeType, RaisesType DEF Requests, TypeInv, TypeOK
  <2>2. CASE ~(Raises /\ UNCHANGED asked)
    <3>1. pc' = "running" /\ at' = "requesting" /\ asked' = TRUE /\ UNCHANGED outcome
      BY <1>1, <2>2 DEF Requests
    <3> QED
      BY <1>1, <3>1, OutcomeType DEF Requests, Resumes, TypeInv, TypeOK
  <2> QED
    BY <2>1, <2>2
<1>2. CASE Responds
  <2>1. Note("response") \in Piece
    BY Notes DEF Text
  <2>2. content' \in Seq(Piece)
    BY <1>2, <2>1, Alone, NoPiece DEF Responds
  <2> QED
    BY <1>2, <2>2, OutcomeType DEF Responds, Yields, TypeInv, TypeOK
<1>3. CASE RequestFails
  <2>1. CASE Raises
    BY <1>3, <2>1, OutcomeType, RaisesType DEF RequestFails, TypeInv, TypeOK
  <2>2. CASE Refuses("status code")
    BY <1>3, <2>2, OutcomeType, RefusesType, EndsType DEF RequestFails, TypeInv, TypeOK, Text
  <2> QED
    BY <1>3, <2>1, <2>2 DEF RequestFails
<1> QED
  BY <1>1, <1>2, <1>3 DEF RestStep

LEMMA HandlesType == ASSUME TypeInv, NEW t \in Reader, Handles(t) PROVE TypeInv'
<1> USE DEF outcome, Before
<1>1. /\ batch' = batch \ {t} /\ ready' = [ready EXCEPT ![t] = "no"] /\ t \in batch
      /\ UNCHANGED <<fixed, world, pending, asked, stopped>>
      /\ ready[t] \in {"line", "eof", "exit", "raises"}
  BY DEF Handles, TypeInv, TypeOK, ReadersSound, Result
<1>2. /\ batch' \subseteq Reader /\ ready' \in [Reader -> Result \cup {"no"}]
      /\ \A u \in batch' : ready'[u] # "no"
      /\ \A u \in Reader : ready'[u] \in {"line", "exit"} => ready'[u] = ready[u]
  BY <1>1 DEF TypeInv, TypeOK, ReadersSound
<1>3. CASE ready[t] = "line"
  <2>1. /\ content' = Append(content, <<t, taken[t]>>) /\ reader' = t
        /\ pc' = "sending" /\ at' = "progress"
        /\ UNCHANGED <<status, error, return_code>>
    BY <1>3 DEF Handles, Yields
  <2>2. t \in Pipe /\ taken[t] \in 1..MaxLines
    BY <1>3 DEF TypeInv, TypeOK, ReadersSound
  <2>3. <<t, taken[t]>> \in Piece
    BY <2>2 DEF Piece
  <2>4. content' \in Seq(Piece)
    BY <2>1, <2>3, Grown DEF TypeInv, TypeOK
  <2>5. at = "handling"
    BY DEF Handles
  <2> QED
    BY <1>1, <1>2, <2>1, <2>2, <2>4, <2>5 DEF TypeInv, TypeOK, ReadersSound, Before, fixed, world
<1>4. CASE ready[t] = "eof"
  <2>1. UNCHANGED <<outcome, pc, at, return_code, reader>>
    BY <1>4 DEF Handles
  <2> QED
    BY <1>1, <1>2, <2>1 DEF TypeInv, TypeOK, ReadersSound, Before, fixed, world
<1>5. CASE ready[t] = "exit"
  <2>1. return_code' = process /\ UNCHANGED <<outcome, pc, at, reader>>
    BY <1>5 DEF Handles
  <2>2. process \in ExitCode
    BY <1>5 DEF TypeInv, ReadersSound
  <2> QED
    BY <1>1, <1>2, <2>1, <2>2 DEF TypeInv, TypeOK, ReadersSound, Before, fixed, world
<1>6. CASE ready[t] = "raises"
  <2>1. Refuses("exception") /\ UNCHANGED <<return_code, reader>>
    BY <1>6 DEF Handles
  <2>2. /\ content' \in Seq(Piece) /\ error' = TRUE
        /\ status' \in {"completed", "finished"} /\ pc' \in {"closing", "over"} /\ at' = "ended"
    BY <2>1, RefusesType, EndsType DEF Text
  <2> QED
    BY <1>1, <1>2, <2>1, <2>2 DEF TypeInv, TypeOK, ReadersSound, Before, fixed, world
<1> QED
  BY <1>1, <1>3, <1>4, <1>5, <1>6

LEMMA PingType == ASSUME TypeInv, PingStep PROVE TypeInv'
<1> USE DEF outcome, Before
<1>1. CASE Validates
  <2>1. CASE arguments = "valid"
    BY <1>1, <2>1, OutcomeType DEF Validates, Resumes, TypeInv, TypeOK
  <2>2. CASE arguments = "null"
    BY <1>1, <2>2, OutcomeType, RaisesType DEF Validates, TypeInv, TypeOK
  <2>3. CASE arguments \notin {"valid", "null"}
    <3>1. Refuses("no arguments") \/ Refuses("no target")
      BY <1>1, <2>3, CallKinds DEF Validates, TypeInv, TypeOK, ArgumentKind
    <3> QED
      BY <1>1, <3>1, OutcomeType, RefusesType, EndsType DEF Validates, TypeInv, TypeOK, Text
  <2> QED
    BY <2>1, <2>2, <2>3
<1>2. CASE Spawns
  <2> DEFINE Spawned == /\ process' = "running" /\ pending' = Reader /\ at' = "waiting"
                        /\ UNCHANGED <<outcome, pc>>
  <2>1. CASE Spawned
    <3>1. UNCHANGED <<fixed, written, taken, ready, batch, return_code, reader, asked, stopped>>
      BY <1>2 DEF Spawns
    <3>2. at = "spawning" /\ process = "none" /\ process \notin ExitCode
      BY <1>2 DEF Spawns, TypeInv, ReadersSound, Before, ExitCode
    <3> QED
      BY <1>2, <2>1, <3>1, <3>2 DEF Spawns, TypeInv, TypeOK, ReadersSound, Before, fixed
  <2>2. CASE ~Spawned
    <3>1. (Refuses("not found") \/ Refuses("exception")) /\ UNCHANGED <<process, pending>>
      BY <1>2, <2>2 DEF Spawns
    <3> QED
      BY <1>2, <3>1, OutcomeType, RefusesType, EndsType
         DEF Spawns, TypeInv, TypeOK, Text, world, loop
  <2> QED
    BY <2>1, <2>2
<1>3. CASE Wakes
  BY <1>3 DEF Wakes, TypeInv, TypeOK, ReadersSound, Before, fixed, world
<1>4. CASE Reported
  BY <1>4 DEF Reported, Resumes, TypeInv, TypeOK, ReadersSound, Before, fixed, world, Reader
<1>5. CASE LoopsOrCompletes
  <2>1. CASE pending # {}
    BY <1>5, <2>1 DEF LoopsOrCompletes, NothingLeft, TypeInv, TypeOK, ReadersSound,
                      fixed, world, loop
  <2>2. CASE pending = {}
    <3>1. Note("return code") \in Piece
      BY Notes DEF Text
    <3>2. /\ pc' = "sending" /\ at' = "completed" /\ status' = status /\ error' \in {error, TRUE}
          /\ content' \in {content, Append(content, Note("return code"))}
      BY <1>5, <2>2 DEF LoopsOrCompletes, NothingLeft, Yields
    <3>3. content' \in Seq(Piece)
      BY <3>1, <3>2, Grown DEF TypeInv, TypeOK
    <3> QED
      BY <1>5, <3>2, <3>3, OutcomeType DEF LoopsOrCompletes, TypeInv, TypeOK
  <2> QED
    BY <2>1, <2>2
<1> QED
  BY <1>1, <1>2, <1>3, <1>4, <1>5, HandlesType DEF PingStep

LEMMA OtherType == ASSUME TypeInv, Disturbance \/ Subprocess \/ Reading PROVE TypeInv'
<1> USE DEF outcome, Before
<1>1. CASE Cancel
  BY <1>1, OutcomeType DEF Cancel, TypeInv, TypeOK
<1>2. CASE SendFails
  <2>1. Note("generic exception") \in Piece
    BY Notes DEF Text
  <2>2. CASE pc = "sending"
    <3>1. <<Note("generic exception")>> \in Seq(Piece)
      BY <2>1, Alone
    <3> QED
      BY <1>2, <2>2, <3>1, OutcomeType DEF SendFails, TypeInv, TypeOK
  <2>3. CASE pc # "sending"
    BY <1>2, <2>3, OutcomeType DEF SendFails, TypeInv, TypeOK
  <2> QED
    BY <2>2, <2>3
<1>3. ASSUME NEW p \in Pipe, Writes(p) PROVE TypeInv'
  <2>1. written'[p] \in 0..MaxLines /\ written' \in [Pipe -> 0..MaxLines]
    BY <1>3, LinesBounded DEF Writes, TypeInv, TypeOK
  <2> QED
    BY <1>3, <2>1 DEF Writes, TypeInv, TypeOK, ReadersSound, Before, fixed, loop
<1>4. ASSUME NEW code \in ExitCode, Exits(code) PROVE TypeInv'
  <2>1. /\ process = "running" /\ process' = code /\ code # "none"
        /\ UNCHANGED <<fixed, outcome, pc, at, written, taken, loop, asked, stopped>>
    BY <1>4 DEF Exits, ExitCode
  <2> QED
    BY <2>1 DEF TypeInv, TypeOK, ReadersSound, Before, fixed, loop
<1>5. ASSUME NEW t \in Reader, NEW r \in Result, Completes(t, r) PROVE TypeInv'
  <2>1. ready' \in [Reader -> Result \cup {"no"}] /\ ready'[t] = r
        /\ \A u \in Reader \ {t} : ready'[u] = ready[u]
    BY <1>5 DEF Completes, TypeInv, TypeOK
  <2>2. /\ taken' \in [Pipe -> 0..MaxLines]
        /\ r = "line" => t \in Pipe /\ taken'[t] > 0
        /\ \A p \in Pipe : taken'[p] >= taken[p]
    <3>1. \A p \in Pipe : taken[p] \in 0..MaxLines /\ written[p] \in 0..MaxLines
      BY DEF TypeInv, TypeOK
    <3>2. CASE r = "line"
      <4>1. t \in Pipe /\ taken[t] < written[t] /\ taken' = [taken EXCEPT ![t] = @ + 1]
        BY <1>5, <3>2 DEF Completes, HasLine
      <4>2. taken[t] + 1 \in 0..MaxLines /\ taken[t] + 1 > 0
        BY <3>1, <4>1, LinesBounded
      <4>3. taken'[t] = taken[t] + 1 /\ \A p \in Pipe \ {t} : taken'[p] = taken[p]
        BY <4>1 DEF TypeInv, TypeOK
      <4>4. taken' \in [Pipe -> 0..MaxLines]
        BY <4>1, <4>2 DEF TypeInv, TypeOK
      <4> QED
        BY <3>1, <4>1, <4>2, <4>3, <4>4
    <3>3. CASE r # "line"
      BY <1>5, <3>1, <3>3 DEF Completes, TypeInv, TypeOK
    <3> QED
      BY <3>2, <3>3
  <2>3. r = "exit" => process \in ExitCode
    <3>1. process # "none"
      BY <1>5 DEF Completes, TypeInv, ReadersSound
    <3> QED
      BY <1>5, <3>1 DEF Completes, TypeInv, TypeOK
  <2> QED
    BY <1>5, <2>1, <2>2, <2>3 DEF Completes, TypeInv, TypeOK, ReadersSound, Before, fixed, Result
<1> QED
  BY <1>1, <1>2, <1>3, <1>4, <1>5 DEF Disturbance, Subprocess, Reading

LEMMA TypeStep == TypeInv /\ [Next]_vars => TypeInv'
<1> SUFFICES ASSUME TypeInv, [Next]_vars PROVE TypeInv'
  OBVIOUS
<1>1. CASE UNCHANGED vars
  BY <1>1 DEF vars, TypeInv, TypeOK, ReadersSound, Before, fixed, outcome, world, loop
<1> QED
  BY <1>1, ConsumerType, RestType, PingType, OtherType DEF Next, Terminated

\* Every variable keeps its type, whatever the process writes and whenever its
\* readers complete.
THEOREM TypeCorrect == Spec => []TypeOK
<1>1. TypeInv => TypeOK
  BY DEF TypeInv
<1> QED
  BY <1>1, TypeInit, TypeStep, PTL DEF Spec

-----------------------------------------------------------------------------
\* The detailed call implements CallLife.

Early == {"in_progress", "executing"}

\* Until the generator gives its result nothing has failed and the status is one
\* of the execution's first; before a tool is asked there is no content, and who
\* waits for the answer of a microservice has asked it.
Living ==
  /\ pc = "new" => at = "none" /\ (consumer = "put" => status = "in_progress")
  /\ pc = "announcing" => status = "executing"
  /\ pc = "running" => status \in Early
  /\ pc \in {"new", "announcing"} => content = <<>>
  /\ pc \in {"new", "announcing", "running"} => ~error
  /\ pc = "sending" => /\ status \in Early \cup {"completed"}
                       /\ at \notin {"completed", "failed"} => status \in Early /\ ~error
  /\ at \in {"validating", "requesting"} => content = <<>>
  /\ at = "requesting" => tool = "rest" /\ asked
  /\ pc \in {"running", "sending", "closing"} => at # "none"
  /\ Begun => status # "incomplete"
  /\ ~Begun => pc \in {"new", "over"} /\ ~error

LEMMA LivingInit == Init => Living
BY CallKinds DEF Init, Arrives, Living, Early, Begun

\* Once the consumer is past the generator there is nothing left to say of it.
LEMMA EndsLiving == ASSUME Living, Ends PROVE Living'
BY DEF Ends, Living, Begun, Early

LEMMA LivingStep == TypeInv /\ Living /\ [Next]_vars => Living'
<1> SUFFICES ASSUME TypeInv, Living, [Next]_vars PROVE Living'
  OBVIOUS
<1> USE DEF outcome, fixed, Early, Begun
<1>1. CASE UNCHANGED vars \/ Terminated \/ Subprocess \/ Reading
  <2>1. UNCHANGED <<fixed, outcome, pc, at, asked>>
    BY <1>1 DEF vars, Terminated, Subprocess, Writes, Exits, Reading, Completes
  <2> QED
    BY <2>1 DEF Living
<1>2. ASSUME pc = "announcing" \/ (pc = "new" /\ consumer = "put"), Execute,
             UNCHANGED fixed
      PROVE  Living'
  <2>1. /\ pc' = "sending"
        /\ \/ at' = "validating" /\ UNCHANGED outcome
           \/ at' = "failed" /\ status' = "completed"
    BY <1>2, ExecuteType
  <2> QED
    BY <1>2, <2>1 DEF Living
<1>3. CASE Begin
  <2>1. CASE consumer = "put"
    BY <1>2, <1>3, <2>1 DEF Begin
  <2>2. CASE consumer # "put"
    BY <1>3, <2>2 DEF Begin, Living, TypeInv, ReadersSound
  <2> QED
    BY <2>1, <2>2
<1>4. CASE Announced
  BY <1>2, <1>4 DEF Announced
<1>5. CASE Closed \/ Disturbance
  <2>1. CASE Closed
    BY <2>1 DEF Closed, Living
  <2>2. CASE Cancel
    BY <2>2 DEF Cancel, Living
  <2>3. CASE SendFails
    BY <2>3 DEF SendFails, Living
  <2> QED
    BY <1>5, <2>1, <2>2, <2>3 DEF Disturbance
<1>6. CASE ToolEnds
  BY <1>6, EndsLiving DEF ToolEnds
<1>7. ASSUME Raises PROVE Living'
  BY <1>7 DEF Raises, Yields, Living
<1>8. ASSUME NEW why, Refuses(why) PROVE Living'
  BY <1>8, EndsLiving DEF Refuses
<1>9. CASE RestStep
  <2>1. CASE Requests
    <3>1. CASE Raises
      BY <1>7, <3>1
    <3>2. CASE ~Raises
      BY <2>1, <3>2 DEF Requests, Resumes, Living
    <3> QED
      BY <3>1, <3>2
  <2>2. CASE Responds
    BY <2>2 DEF Responds, Yields, Living
  <2>3. CASE RequestFails
    BY <2>3, <1>7, <1>8 DEF RequestFails
  <2> QED
    BY <1>9, <2>1, <2>2, <2>3 DEF RestStep
<1>10. CASE Validates
  <2>1. CASE arguments = "valid"
    BY <1>10, <2>1 DEF Validates, Resumes, Living
  <2>2. CASE arguments = "null"
    BY <1>10, <2>2, <1>7 DEF Validates
  <2>3. CASE arguments \notin {"valid", "null"}
    <3>1. Refuses("no arguments") \/ Refuses("no target")
      BY <1>10, <2>3, CallKinds DEF Validates, TypeInv, TypeOK, ArgumentKind
    <3> QED
      BY <3>1, <1>8
  <2> QED
    BY <2>1, <2>2, <2>3
<1>11. CASE Spawns
  <2>1. CASE at' = "waiting" /\ UNCHANGED <<outcome, pc>>
    BY <1>11, <2>1 DEF Spawns, Living
  <2>2. CASE ~(at' = "waiting" /\ UNCHANGED <<outcome, pc>>)
    BY <1>11, <2>2, <1>8 DEF Spawns
  <2> QED
    BY <2>1, <2>2
<1>12. CASE Wakes
  BY <1>12 DEF Wakes, Living
<1>13. CASE Reported
  BY <1>13 DEF Reported, Resumes, Living
<1>14. CASE LoopsOrCompletes
  <2>1. CASE NothingLeft
    <3>1. pc' = "sending" /\ at' = "completed" /\ status' = status /\ pc = "running"
      BY <1>14, <2>1 DEF LoopsOrCompletes, Yields
    <3> QED
      BY <3>1 DEF Living
  <2>2. CASE ~NothingLeft
    <3>1. at' = "waiting" /\ UNCHANGED <<outcome, pc>> /\ pc = "running"
      BY <1>14, <2>2 DEF LoopsOrCompletes
    <3> QED
      BY <3>1 DEF Living
  <2> QED
    BY <2>1, <2>2
<1>15. ASSUME NEW t \in Reader, Handles(t) PROVE Living'
  <2>1. ready[t] \in {"line", "eof", "exit", "raises"} /\ pc = "running" /\ at = "handling"
    BY <1>15 DEF Handles, TypeInv, TypeOK, ReadersSound, Result
  <2>2. CASE ready[t] = "raises"
    BY <1>15, <2>2, <1>8 DEF Handles
  <2>3. CASE ready[t] = "line"
    BY <1>15, <2>1, <2>3 DEF Handles, Yields, Living
  <2>4. CASE ready[t] \in {"eof", "exit"}
    BY <1>15, <2>1, <2>4 DEF Handles, Living
  <2> QED
    BY <2>1, <2>2, <2>3, <2>4
<1> QED
  BY <1>1, <1>3, <1>4, <1>5, <1>6, <1>9, <1>10, <1>11, <1>12, <1>13, <1>14, <1>15
     DEF Next, ConsumerStep, PingStep

-----------------------------------------------------------------------------
\* Where a step of the loop, or of the look at the arguments, leads to.
LEMMA PingMoves ==
  ASSUME TypeInv, PingStep
  PROVE  at' \notin {"requesting", "none"} /\ (pc' \in {"closing", "over"} => at' = "ended")
<1>1. \A why : Refuses(why) => at' = "ended"
  BY DEF Refuses, Ends
<1>2. Raises => at' = "failed" /\ pc' = "sending"
  BY DEF Raises, Yields
<1>3. CASE Validates
  <2>1. arguments \in ArgumentKind
    BY CallKinds DEF TypeInv, TypeOK
  <2>2. (\E why : Refuses(why)) \/ Raises \/ (at' = "spawning" /\ pc' = "running")
    BY <1>3, <2>1 DEF Validates, ArgumentKind
  <2> QED
    BY <1>1, <1>2, <2>2
<1>4. CASE Spawns \/ Wakes \/ Reported \/ LoopsOrCompletes
  BY <1>1, <1>4 DEF Spawns, Wakes, Reported, LoopsOrCompletes, Yields, outcome
<1>5. ASSUME NEW t \in Reader, Handles(t)
      PROVE  at' \notin {"requesting", "none"} /\ (pc' \in {"closing", "over"} => at' = "ended")
  <2>1. ready[t] \in Result /\ pc = "running" /\ at = "handling"
    BY <1>5 DEF Handles, TypeInv, TypeOK, ReadersSound
  <2>2. CASE ready[t] = "line"
    BY <1>5, <2>2 DEF Handles, Yields
  <2>3. CASE ready[t] \in {"eof", "exit"}
    BY <1>5, <2>1, <2>3 DEF Handles, outcome
  <2>4. CASE ready[t] = "raises"
    BY <1>1, <1>5, <2>4 DEF Handles
  <2> QED
    BY <2>1, <2>2, <2>3, <2>4 DEF Result
<1> QED
  BY <1>3, <1>4, <1>5 DEF PingStep

\* The execution begins once, with the first step of its consumer.
LEMMA BegunStep ==
  ASSUME TypeInv, Living, [Next]_vars
  PROVE  (Begun => Begun') /\ (Begun' = Begun \/ Begin)
<1> USE DEF Begun
<1>1. CASE UNCHANGED vars \/ Terminated \/ Subprocess \/ Reading
  BY <1>1 DEF vars, Terminated, Subprocess, Writes, Exits, Reading, Completes
<1>2. CASE Begin
  BY <1>2 DEF Begin, TypeInv, ReadersSound
<1>3. CASE Announced \/ Closed \/ ToolEnds
  BY <1>3 DEF Announced, Execute, Yields, Closed, ToolEnds, Resumes, Ends, Living
<1>4. CASE Disturbance
  BY <1>4 DEF Disturbance, Cancel, SendFails, Living
<1>5. CASE RestStep
  BY <1>5 DEF RestStep, Requests, Responds, RequestFails, Resumes, Raises, Refuses, Yields, Ends
<1>6. CASE PingStep
  <2>1. at # "none"
    BY <1>6 DEF PingStep, Validates, Spawns, Wakes, Reported, LoopsOrCompletes, Handles, Resumes
  <2>2. at' # "none"
    BY <1>6, PingMoves
  <2> QED
    BY <2>1, <2>2
<1> QED
  BY <1>1, <1>2, <1>3, <1>4, <1>5, <1>6 DEF Next, ConsumerStep

\* The status never falls back once the execution has begun: CallLife!Forward.
LEMMA Forwards ==
  ASSUME Begun', Begun => status \in Early \cup {"completed"},
         \/ status' \in {"completed", "finished"}
         \/ IF Begun THEN status' = status ELSE status' \in Early
  PROVE  Life!Forward
BY DEF Life!Forward, Life!Reached, Life!Stage, Early

\* A tool explains itself and returns, or raises: CallLife!Fail.
LEMMA FailsLife ==
  ASSUME Begun', Begun => status \in Early \cup {"completed"}, error' = TRUE, content' # <<>>,
         status' \in {"completed", "finished"} \/ (Begun /\ status' = status)
  PROVE  Life!Fail
BY Forwards DEF Life!Fail, Early

\* The status only: CallLife!Advance, or nothing.
LEMMA AdvancesLife ==
  ASSUME Begun', Begun => status \in Early \cup {"completed"}, UNCHANGED <<content, error>>,
         \/ status' \in {"completed", "finished"}
         \/ IF Begun THEN status' = status ELSE status' \in Early
  PROVE  [Life!Next]_(Life!life)
<1>1. Life!Forward
  BY Forwards
<1>2. CASE <<Begun', status'>> = <<Begun, status>>
  BY <1>2 DEF Life!life
<1>3. CASE <<Begun', status'>> # <<Begun, status>>
  BY <1>1, <1>3 DEF Life!Next, Life!Advance
<1> QED
  BY <1>2, <1>3

LEMMA LifeInit == Init => Life!Init
BY CallKinds DEF Init, Arrives, Begun, Life!Init, Life!Arrived

LEMMA LifeStep == TypeInv /\ Living /\ [Next]_vars => [Life!Next]_(Life!life)
<1> SUFFICES ASSUME TypeInv, Living, [Next]_vars PROVE [Life!Next]_(Life!life)
  OBVIOUS
<1> DEFINE Implements == [Life!Next]_(Life!life)
<1> USE DEF outcome
<1>1. /\ content \in Seq(Piece) /\ error \in BOOLEAN
      /\ status \in {"in_progress", "incomplete", "executing", "completed", "finished"}
      /\ Begun => status # "incomplete"
  BY DEF TypeInv, TypeOK, Living
<1>0. /\ Begun => Begun'
      /\ Begun' = Begun \/ Begin
      /\ pc \notin {"new", "over"} => Begun
      /\ Begun \in BOOLEAN /\ Begun' \in BOOLEAN
  BY BegunStep DEF Living, Begun
<1>2. ASSUME UNCHANGED <<outcome, Begun>> PROVE Implements
  BY <1>2 DEF Life!life
<1>3. CASE UNCHANGED vars \/ Terminated \/ Subprocess \/ Reading
  <2>1. UNCHANGED <<outcome, pc, at>>
    BY <1>3 DEF vars, Terminated, Subprocess, Writes, Exits, Reading, Completes
  <2> QED
    BY <1>2, <2>1 DEF Begun
<1>4. ASSUME pc = "announcing" \/ (pc = "new" /\ consumer = "put"), Execute PROVE Implements
  <2>0. status \in Early /\ Begun'
    BY <1>4, ExecuteType DEF Living, Early, Begun
  <2>1. CASE UNCHANGED outcome
    BY <2>0, <2>1, AdvancesLife DEF Early
  <2>2. CASE error' = TRUE /\ content' # <<>> /\ status' = "completed"
    BY <2>0, <2>2, FailsLife DEF Life!Next
  <2> QED
    BY <1>4, <2>1, <2>2, ExecuteType
<1>5. CASE Begin
  <2>1. CASE consumer = "put"
    BY <1>4, <1>5, <2>1 DEF Begin
  <2>2. CASE consumer # "put"
    <3>1. /\ status' = "executing" /\ UNCHANGED <<content, error>>
          /\ ~Begun /\ Begun'
      BY <1>5, <2>2 DEF Begin, Living, Begun
    <3> QED
      BY <3>1, AdvancesLife DEF Early
  <2> QED
    BY <2>1, <2>2
<1>6. CASE Announced
  BY <1>4, <1>6 DEF Announced
<1>7. CASE Closed
  BY <1>0, <1>2, <1>7 DEF Closed, Begin
<1>8. CASE ToolEnds
  <2>1. /\ status \in Early \cup {"completed"} /\ status' \in {"completed", "finished"}
        /\ UNCHANGED <<content, error>> /\ Begun'
    BY <1>0, <1>8 DEF ToolEnds, Resumes, Ends, Living
  <2> QED
    BY <2>1, AdvancesLife
<1>9. CASE Cancel
  <2>1. CASE pc \in {"running", "sending"}
    <3>1. /\ status \in Early \cup {"completed"} /\ status' = "finished"
          /\ UNCHANGED <<content, error>> /\ Begun'
      BY <1>0, <1>9, <2>1 DEF Cancel, Living
    <3> QED
      BY <3>1, AdvancesLife
  <2>2. CASE pc \notin {"running", "sending"}
    <3>1. UNCHANGED <<content, error>> /\ UNCHANGED status /\ ~Begin
      BY <1>9, <2>2 DEF Cancel, Begin
    <3> QED
      BY <1>0, <1>2, <3>1
  <2> QED
    BY <2>1, <2>2
<1>10. CASE SendFails
  <2>1. CASE pc = "sending"
    <3>1. /\ content' = <<Note("generic exception")>> /\ error' = TRUE /\ status' = "finished"
          /\ status \in Early \cup {"completed"} /\ Begun'
      BY <1>0, <1>10, <2>1 DEF SendFails, Living
    <3>2. content' # <<>>
      BY <3>1
    <3> QED
      BY <3>1, <3>2, FailsLife DEF Life!Next
  <2>2. CASE pc # "sending"
    BY <1>0, <1>2, <1>10, <2>2 DEF SendFails, Begin
  <2> QED
    BY <2>1, <2>2
<1>11. ASSUME Raises, status \in Early, Begun' PROVE Implements
  BY <1>1, <1>11, RaisesType, FailsLife DEF Life!Next
<1>12. ASSUME NEW why \in Text, Refuses(why), status \in Early, Begun' PROVE Implements
  BY <1>12, RefusesType, EndsType, FailsLife DEF Life!Next
<1>13. CASE RestStep
  <2>1. status \in Early /\ ~error /\ Begun /\ Begun' = Begun
    BY <1>0, <1>13 DEF RestStep, Requests, Responds, RequestFails, Resumes, Living
  <2>2. CASE Requests
    <3>1. CASE Raises
      BY <1>11, <2>1, <3>1
    <3>2. CASE ~Raises
      BY <1>2, <2>1, <2>2, <3>2 DEF Requests
    <3> QED
      BY <3>1, <3>2
  <2>3. CASE Responds
    <3>1. /\ content = <<>> /\ content' \in {<<>>, <<Note("response")>>} /\ error' \in BOOLEAN
          /\ status' = status
      BY <2>3 DEF Responds, Living
    <3>2. content' = content \/ (content' = Append(content, Note("response")) /\ Note("response") \in Piece)
      <4>1. Note("response") \in Piece
        BY Notes DEF Text
      <4>2. \A piece \in Piece : Append(<<>>, piece) = <<piece>>
        OBVIOUS
      <4> QED
        BY <3>1, <4>1, <4>2
    <3>3. Life!IsPrefix(content, content')
      <4>1. CASE content' = content
        BY <1>1, <4>1 DEF Life!IsPrefix
      <4> QED
        BY <1>1, <3>2, <4>1, Grown
    <3> QED
      BY <2>1, <3>1, <3>3 DEF Life!Next, Life!Report, Early
  <2>4. CASE RequestFails
    BY <1>11, <1>12, <2>1, <2>4 DEF RequestFails, Text
  <2> QED
    BY <1>13, <2>2, <2>3, <2>4 DEF RestStep
<1>14. CASE PingStep
  <2>1. status \in Early /\ ~error /\ Begun /\ Begun' = Begun
    BY <1>0, <1>14 DEF PingStep, Validates, Spawns, Wakes, Reported, LoopsOrCompletes, Handles, Resumes,
                 Living
  <2>2. CASE Validates
    <3>1. CASE arguments = "valid"
      BY <1>2, <2>1, <2>2, <3>1 DEF Validates
    <3>2. CASE arguments = "null"
      BY <1>11, <2>1, <2>2, <3>2 DEF Validates
    <3>3. CASE arguments \notin {"valid", "null"}
      <4>1. Refuses("no arguments") \/ Refuses("no target")
        BY <2>2, <3>3, CallKinds DEF Validates, TypeInv, TypeOK, ArgumentKind
      <4> QED
        BY <1>12, <2>1, <4>1 DEF Text
    <3> QED
      BY <3>1, <3>2, <3>3
  <2>3. CASE Spawns
    <3>1. CASE UNCHANGED outcome
      BY <1>2, <2>1, <3>1
    <3>2. CASE ~UNCHANGED outcome
      BY <1>12, <2>1, <2>3, <3>2 DEF Spawns, Text
    <3> QED
      BY <3>1, <3>2
  <2>4. CASE Wakes \/ Reported
    BY <1>2, <2>1, <2>4 DEF Wakes, Reported
  <2>5. CASE LoopsOrCompletes
    <3>1. CASE UNCHANGED outcome
      BY <1>2, <2>1, <3>1
    <3>2. CASE ~UNCHANGED outcome
      <4>1. /\ content' = Append(content, Note("return code")) /\ error' = TRUE
            /\ status' = status
        BY <2>5, <3>2 DEF LoopsOrCompletes
      <4>2. content' # <<>>
        BY <1>1, <4>1, Notes, Grown DEF Text
      <4> QED
        BY <2>1, <4>1, <4>2, FailsLife DEF Life!Next
    <3> QED
      BY <3>1, <3>2
  <2>6. ASSUME NEW t \in Reader, Handles(t) PROVE Implements
    <3>1. ready[t] \in {"line", "eof", "exit", "raises"}
      BY <2>6 DEF Handles, TypeInv, TypeOK, ReadersSound, Result
    <3>2. CASE ready[t] = "raises"
      BY <1>12, <2>1, <2>6, <3>2 DEF Handles, Text
    <3>3. CASE ready[t] = "line"
      <4>1. content' = Append(content, <<t, taken[t]>>) /\ UNCHANGED <<status, error>>
        BY <2>6, <3>3 DEF Handles
      <4>2. t \in Pipe /\ taken[t] \in 1..MaxLines
        BY <3>3 DEF TypeInv, TypeOK, ReadersSound
      <4>3. <<t, taken[t]>> \in Piece
        BY <4>2 DEF Piece
      <4>4. Life!IsPrefix(content, content')
        BY <1>1, <4>1, <4>3, Grown
      <4> QED
        BY <1>1, <2>1, <4>1, <4>4 DEF Life!Next, Life!Report, Early
    <3>4. CASE ready[t] \in {"eof", "exit"}
      BY <1>2, <2>1, <2>6, <3>4 DEF Handles
    <3> QED
      BY <3>1, <3>2, <3>3, <3>4
  <2> QED
    BY <1>14, <2>2, <2>3, <2>4, <2>5, <2>6 DEF PingStep
<1> QED
  BY <1>3, <1>5, <1>6, <1>7, <1>8, <1>9, <1>10, <1>13, <1>14
     DEF Next, ConsumerStep, Disturbance

\* The execution of a call implements CallLife: its status moves forward only,
\* its content grows until something fails, a failure is explained and sticks,
\* and a call that has ended is left alone, whatever its process still writes.
THEOREM CallHasALife == Spec => HasALife
<1>1. Spec => [](TypeInv /\ Living)
  BY TypeInit, TypeStep, LivingInit, LivingStep, PTL DEF Spec
<1> QED
  BY <1>1, LifeInit, LifeStep, PTL DEF Spec, HasALife, Life!Spec

\* A failure sticks, by the steps of CallLife alone.
LEMMA LifeSticks ==
  ASSUME [Life!Next]_(Life!life) PROVE error => error'
BY DEF Life!Next, Life!Report, Life!Fail, Life!Advance, Life!life

\* Whatever a step says of a failure it says at once; what is left unsaid is the
\* empty answer of a microservice, and stays so until the call ends.
LEMMA ExplainsStep ==
  ASSUME TypeInv, Living, FailureIsExplained, [Next]_vars
  PROVE  FailureIsExplained'
<1> USE DEF outcome, fixed, FailureIsExplained
<1>1. ASSUME error' = TRUE, content' # <<>> PROVE FailureIsExplained'
  BY <1>1
<1>2. ASSUME error' = error, content' = content, ~error PROVE FailureIsExplained'
  BY <1>2
<1>3. CASE UNCHANGED vars \/ Terminated \/ Subprocess \/ Reading
  <2>1. UNCHANGED <<fixed, outcome, at, asked>>
    BY <1>3 DEF vars, Terminated, Subprocess, Writes, Exits, Reading, Completes
  <2> QED
    BY <2>1
<1>4. CASE Begin \/ Announced
  <2>1. ~error /\ (Execute \/ UNCHANGED <<content, error>>)
    BY <1>4 DEF Begin, Announced, Living
  <2> QED
    BY <1>1, <1>2, <2>1, ExecuteType
<1>5. CASE Closed \/ ToolEnds \/ Cancel
  <2>1. /\ UNCHANGED <<tool, content, error, asked>>
        /\ at' = at \/ at' = "ended"
    BY <1>5 DEF Closed, ToolEnds, Resumes, Ends, Cancel
  <2> QED
    BY <2>1
<1>6. CASE SendFails
  <2>1. CASE pc = "sending"
    <3>1. content' = <<Note("generic exception")>> /\ error' = TRUE
      BY <1>6, <2>1 DEF SendFails
    <3>2. content' # <<>>
      BY <3>1
    <3> QED
      BY <1>1, <3>1, <3>2
  <2>2. CASE pc # "sending"
    BY <1>6, <2>2 DEF SendFails
  <2> QED
    BY <2>1, <2>2
<1>7. ASSUME Raises PROVE FailureIsExplained'
  BY <1>1, <1>7, RaisesType DEF TypeInv, TypeOK
<1>8. ASSUME NEW why \in Text, Refuses(why) PROVE FailureIsExplained'
  BY <1>1, <1>8, RefusesType
<1>9. CASE RestStep
  <2>1. ~error
    BY <1>9 DEF RestStep, Requests, Responds, RequestFails, Resumes, Living
  <2>2. CASE Requests
    BY <1>2, <1>7, <2>1, <2>2 DEF Requests
  <2>3. CASE Responds
    BY <2>3 DEF Responds, Yields, Living
  <2>4. CASE RequestFails
    BY <1>7, <1>8, <2>4 DEF RequestFails, Text
  <2> QED
    BY <1>9, <2>2, <2>3, <2>4 DEF RestStep
<1>10. CASE PingStep
  <2>1. ~error
    BY <1>10 DEF PingStep, Validates, Spawns, Wakes, Reported, LoopsOrCompletes, Handles, Resumes,
                 Living
  <2>2. CASE Validates
    <3>1. Raises \/ Refuses("no arguments") \/ Refuses("no target") \/ UNCHANGED outcome
      BY <2>2, CallKinds DEF Validates, TypeInv, TypeOK, ArgumentKind
    <3> QED
      BY <1>2, <1>7, <1>8, <2>1, <3>1 DEF Text
  <2>3. CASE Spawns
    <3>1. Refuses("not found") \/ Refuses("exception") \/ UNCHANGED outcome
      BY <2>3 DEF Spawns
    <3> QED
      BY <1>2, <1>8, <2>1, <3>1 DEF Text
  <2>4. CASE Wakes \/ Reported
    BY <1>2, <2>1, <2>4 DEF Wakes, Reported
  <2>5. CASE LoopsOrCompletes
    <3>1. CASE UNCHANGED <<content, error>>
      BY <1>2, <2>1, <3>1
    <3>2. CASE ~UNCHANGED <<content, error>>
      <4>1. content' = Append(content, Note("return code")) /\ error' = TRUE
        BY <2>5, <3>2 DEF LoopsOrCompletes
      <4>2. content' # <<>>
        BY <4>1, Notes, Grown DEF TypeInv, TypeOK, Text
      <4> QED
        BY <1>1, <4>1, <4>2
    <3> QED
      BY <3>1, <3>2
  <2>6. ASSUME NEW t \in Reader, Handles(t) PROVE FailureIsExplained'
    <3>1. ready[t] \in {"line", "eof", "exit", "raises"}
      BY <2>6 DEF Handles, TypeInv, TypeOK, ReadersSound, Result
    <3>2. CASE ready[t] = "raises"
      BY <1>8, <2>6, <3>2 DEF Handles, Text
    <3>3. CASE ready[t] # "raises"
      <4>1. UNCHANGED error
        BY <2>6, <3>1, <3>3 DEF Handles
      <4> QED
        BY <2>1, <4>1
    <3> QED
      BY <3>2, <3>3
  <2> QED
    BY <1>10, <2>2, <2>3, <2>4, <2>5, <2>6 DEF PingStep
<1> QED
  BY <1>3, <1>4, <1>5, <1>6, <1>9, <1>10 DEF Next, ConsumerStep, Disturbance

\* No failure is taken back, and none is silent but one that a microservice
\* answers with and whose definition gives no content (ToolService.execute(),
\* svc_tool.py, and the functions it calls; rest_datamodel.py:17-18).
THEOREM FailureExplained ==
  Spec => []FailureIsExplained /\ [][error => error']_(Life!life)
<1>1. Init => FailureIsExplained
  BY DEF Init, FailureIsExplained
<1>2. Spec => [](TypeInv /\ Living)
  BY TypeInit, TypeStep, LivingInit, LivingStep, PTL DEF Spec
<1>3. Spec => []FailureIsExplained
  BY <1>1, <1>2, ExplainsStep, PTL DEF Spec
<1>4. TypeInv /\ Living /\ [Next]_vars => [error => error']_(Life!life)
  BY LifeStep, LifeSticks
<1> QED
  BY <1>2, <1>3, <1>4, PTL DEF Spec

-----------------------------------------------------------------------------
\* The output of a ping.

Exhausted(p) == process \in ExitCode /\ taken[p] = written[p]

\* Before the process is started there is nothing to tell.
Fresh ==
  at \in Before =>
    /\ content = <<>> /\ ~error
    /\ pending = {} /\ batch = {}
    /\ \A t \in Reader : ready[t] = "no"
    /\ \A p \in Pipe : taken[p] = 0

\* While the loop runs, the content tells all that readline() has returned, but
\* for the line that a completed task still holds; a pipe is left only when it is
\* exhausted, and the exit status only when it is known.
Draining ==
  at \in {"waiting", "handling", "progress"} =>
    /\ ~error
    /\ pending \cap batch = {}
    /\ at = "waiting" => batch = {}
    /\ \A p \in Pipe :
         /\ ready[p] = "line" => Tells(content, p, taken[p] - 1)
         /\ ready[p] # "line" => Tells(content, p, taken[p])
         /\ ready[p] # "exit"
         /\ ready[p] = "eof" => Exhausted(p)
         /\ at = "progress" /\ reader = p => ready[p] = "no" /\ p \notin pending \cup batch
         /\ p \notin pending \cup batch /\ ~(at = "progress" /\ reader = p)
              => ready[p] = "no" /\ Exhausted(p)
    /\ ready["return_code"] \in {"no", "exit"}
    /\ "return_code" \notin pending \cup batch => process \in ExitCode /\ return_code = process

\* The result of the loop.
Delivered ==
  at \in {"completed", "failed", "ended"} /\ (~error \/ Note("return code") \in ToSet(content)) =>
    /\ process = IF error THEN "nonzero" ELSE "zero"
    /\ \A p \in Pipe : Tells(content, p, written[p])

Drained ==
  /\ at = "requesting" => tool = "rest"
  /\ pc \in {"closing", "over"} => at = "ended" \/ stopped = TRUE
  /\ tool = "ping" /\ ~stopped => Fresh /\ Draining /\ Delivered


LEMMA TellsNothing == ASSUME NEW p PROVE Tells(<<>>, p, 0)
BY DEF Tells, Lines

\* The next line of a pipe is told.
LEMMA TellsMore ==
  ASSUME NEW S, NEW s \in Seq(S), NEW p, NEW n \in Nat, <<p, n + 1>> \in S, Tells(s, p, n)
  PROVE  Tells(Append(s, <<p, n + 1>>), p, n + 1)
<1> DEFINE t == Append(s, <<p, n + 1>>)
<1>1. /\ Len(s) \in Nat /\ DOMAIN s = 1..Len(s) /\ DOMAIN t = 1..(Len(s) + 1)
      /\ \A i \in 1..Len(s) : t[i] = s[i]
      /\ t[Len(s) + 1] = <<p, n + 1>>
  BY AppendProperties
<1>2. Lines(t, p) = Lines(s, p) \cup {Len(s) + 1}
  BY <1>1 DEF Lines
<1>3. \A i \in Lines(s, p) : i \in 1..Len(s) /\ t[i] = s[i] /\ s[i][2] \in 1..n
  BY <1>1 DEF Tells, Lines
<1>4. \A k \in 1..n : \E i \in Lines(s, p) : t[i][2] = k
  BY <1>3 DEF Tells
<1>5. \A i, j \in Lines(s, p) : i < j => t[i][2] < t[j][2]
  BY <1>3 DEF Tells
<1> HIDE DEF t
<1> QED
  BY <1>1, <1>2, <1>3, <1>4, <1>5 DEF Tells, t

\* Something else is told.
LEMMA TellsOther ==
  ASSUME NEW S, NEW s \in Seq(S), NEW p, NEW n \in Nat, NEW piece \in S, piece[1] # p, Tells(s, p, n)
  PROVE  Tells(Append(s, piece), p, n)
<1> DEFINE t == Append(s, piece)
<1>1. /\ Len(s) \in Nat /\ DOMAIN s = 1..Len(s) /\ DOMAIN t = 1..(Len(s) + 1)
      /\ \A i \in 1..Len(s) : t[i] = s[i]
      /\ t[Len(s) + 1] = piece
  BY AppendProperties
<1>2. Lines(t, p) = Lines(s, p)
  BY <1>1 DEF Lines
<1>3. \A i \in Lines(s, p) : t[i] = s[i]
  BY <1>1 DEF Lines
<1> HIDE DEF t
<1> QED
  BY <1>2, <1>3 DEF Tells, t

LEMMA DrainedInit == Init => Drained
BY DEF Init, Drained, Fresh, Draining, Delivered, Reader

\* What does not change, or only once.
LEMMA KeepsTool == [Next]_vars => tool' = tool /\ (stopped' = stopped \/ stopped' = TRUE)
<1> USE DEF fixed
<1>1. ConsumerStep => tool' = tool /\ stopped' = stopped
  BY DEF ConsumerStep, Begin, Announced, Closed, ToolEnds
<1>2. RestStep => tool' = tool /\ stopped' = stopped
  BY DEF RestStep, Requests, Responds, RequestFails
<1>3. Validates \/ Spawns \/ Wakes \/ Reported \/ LoopsOrCompletes => tool' = tool /\ stopped' = stopped
  BY DEF Validates, Spawns, Wakes, Reported, LoopsOrCompletes
<1>4. \A t \in Reader : Handles(t) => tool' = tool /\ stopped' = stopped
  BY DEF Handles
<1>5. Disturbance => tool' = tool /\ stopped' = TRUE
  BY DEF Disturbance, Cancel, SendFails
<1>6. Subprocess => tool' = tool /\ stopped' = stopped
  BY DEF Subprocess, Writes, Exits
<1>7. Reading => tool' = tool /\ stopped' = stopped
  BY DEF Reading, Completes
<1>8. vars' = vars => tool' = tool /\ stopped' = stopped
  BY DEF vars
<1> QED
  BY <1>1, <1>2, <1>3, <1>4, <1>5, <1>6, <1>7, <1>8 DEF Next, PingStep, Terminated

LEMMA Singleton == ASSUME NEW x, NEW c, c = <<x>>, NEW i \in DOMAIN c PROVE c[i] = x
OBVIOUS

\* A call that ends in an error of its own does not claim to be complete.
LEMMA FailsDrained ==
  ASSUME NEW text \in Text \ {"return code"}, content' = <<Note(text)>>, error' = TRUE,
         at' \in {"completed", "failed", "ended"}
  PROVE  Fresh' /\ Draining' /\ Delivered'
<1>1. \A i \in DOMAIN content' : content'[i] = <<text, 0>>
  BY Singleton DEF Note
<1>2. Note("return code") # <<text, 0>>
  BY DEF Note, Text
<1>3. Note("return code") \notin ToSet(content')
  BY <1>1, <1>2 DEF ToSet
<1>4. at' \notin Before /\ at' \notin {"waiting", "handling", "progress"}
  BY DEF Before
<1> QED
  BY <1>3, <1>4 DEF Fresh, Draining, Delivered

LEMMA RefusesDrained ==
  ASSUME NEW text \in Text \ {"return code"}, Refuses(text)
  PROVE  Fresh' /\ Draining' /\ Delivered'
BY FailsDrained DEF Refuses, Ends

LEMMA HandlesDrained ==
  ASSUME TypeInv, Draining, NEW t \in Reader, Handles(t)
  PROVE  Fresh' /\ Draining' /\ Delivered'
<1>1. /\ batch' = batch \ {t} /\ ready' = [ready EXCEPT ![t] = "no"] /\ t \in batch
      /\ at = "handling" /\ UNCHANGED <<process, written, taken, pending>>
      /\ ready[t] \in {"line", "eof", "exit", "raises"}
  BY DEF Handles, TypeInv, TypeOK, ReadersSound, Result, world
<1>2. ready'[t] = "no" /\ \A u \in Reader \ {t} : ready'[u] = ready[u]
  BY <1>1 DEF TypeInv, TypeOK
<1>3. /\ ~error /\ t \notin pending
      /\ \A p \in Pipe : taken[p] \in Nat /\ p \in Reader
  BY <1>1 DEF Draining, TypeInv, TypeOK, Reader
<1>4. CASE ready[t] = "line"
  <2>1. /\ content' = Append(content, <<t, taken[t]>>) /\ reader' = t
        /\ at' = "progress" /\ UNCHANGED <<error, return_code>>
    BY <1>4 DEF Handles, Yields
  <2>2. /\ t \in Pipe /\ taken[t] \in 1..MaxLines /\ taken[t] - 1 \in Nat /\ (taken[t] - 1) + 1 = taken[t]
        /\ content \in Seq(Piece) /\ <<t, taken[t]>> \in Piece
    <3>1. t \in Pipe /\ taken[t] > 0 /\ taken[t] \in 0..MaxLines /\ content \in Seq(Piece)
      BY <1>4 DEF TypeInv, TypeOK, ReadersSound
    <3>2. taken[t] \in 1..MaxLines /\ taken[t] - 1 \in Nat /\ (taken[t] - 1) + 1 = taken[t]
      BY <3>1, LinesBounded
    <3> QED
      BY <3>1, <3>2 DEF Piece
  <2>3. Tells(content', t, taken[t])
    <3>1. Tells(content, t, taken[t] - 1)
      BY <1>1, <1>4, <2>2 DEF Draining
    <3> QED
      BY <2>1, <2>2, <3>1, TellsMore
  <2>4. ASSUME NEW p \in Pipe \ {t}, NEW n \in Nat, Tells(content, p, n)
        PROVE  Tells(content', p, n)
    <3>1. <<t, taken[t]>>[1] # p
      BY <2>4
    <3> QED
      BY <2>1, <2>2, <2>4, <3>1, TellsOther
  <2>5. \A p \in Pipe \ {t} :
          /\ ready[p] = "line" => taken[p] - 1 \in Nat /\ Tells(content, p, taken[p] - 1)
          /\ ready[p] # "line" => Tells(content, p, taken[p])
    BY <1>1, <1>3 DEF Draining, TypeInv, ReadersSound
  <2>6. \A p \in Pipe \ {t} :
          /\ ready'[p] = "line" => Tells(content', p, taken'[p] - 1)
          /\ ready'[p] # "line" => Tells(content', p, taken'[p])
    BY <1>1, <1>2, <1>3, <2>4, <2>5
  <2>7. "return_code" # t
    BY <2>2 DEF Pipe
  <2> QED
    BY <1>1, <1>2, <1>3, <2>1, <2>2, <2>3, <2>6, <2>7
       DEF Fresh, Draining, Delivered, Before, Exhausted, Reader
<1>5. CASE ready[t] \in {"eof", "exit"}
  <2>1. UNCHANGED <<content, error, at, reader>> /\ return_code' = IF ready[t] = "exit" THEN process ELSE return_code
    BY <1>5 DEF Handles, outcome
  <2>2. (ready[t] = "eof" => t \in Pipe) /\ (ready[t] = "exit" => t = "return_code" /\ process \in ExitCode)
    BY <1>1, <1>5 DEF Draining, Reader, TypeInv, ReadersSound
  <2> QED
    BY <1>1, <1>2, <1>3, <1>5, <2>1, <2>2
       DEF Fresh, Draining, Delivered, Before, Exhausted, Reader, Pipe
<1>6. CASE ready[t] = "raises"
  BY <1>6, RefusesDrained DEF Handles, Text
<1> QED
  BY <1>1, <1>4, <1>5, <1>6

LEMMA LoopDrained ==
  ASSUME TypeInv, Draining, Wakes \/ Reported \/ LoopsOrCompletes
  PROVE  Fresh' /\ Draining' /\ Delivered'
<1>1. CASE Wakes
  <2>1. /\ at = "waiting" /\ at' = "handling" /\ batch = {} /\ pending' \cup batch' = pending
        /\ pending' \cap batch' = {}
        /\ UNCHANGED <<error, content, process, written, taken, ready, reader, return_code>>
    BY <1>1 DEF Wakes, Draining, outcome, world
  <2> QED
    BY <2>1 DEF Fresh, Draining, Delivered, Before, Exhausted
<1>2. CASE Reported
  <2>1. /\ at = "progress" /\ at' = "handling" /\ pending' = pending \cup {reader}
        /\ UNCHANGED <<error, content, process, written, taken, ready, reader, return_code, batch>>
    BY <1>2 DEF Reported, Resumes, outcome, world
  <2>2. reader \in Pipe /\ reader \notin batch /\ reader # "return_code"
    BY <2>1 DEF Draining, TypeInv, ReadersSound, Pipe
  <2> QED
    BY <2>1, <2>2 DEF Fresh, Draining, Delivered, Before, Exhausted
<1>3. CASE LoopsOrCompletes /\ pending # {}
  <2>1. /\ at = "handling" /\ at' = "waiting" /\ batch = {}
        /\ UNCHANGED <<error, content, process, written, taken, ready, reader, return_code, batch, pending>>
    BY <1>3 DEF LoopsOrCompletes, NothingLeft, outcome, world, loop
  <2> QED
    BY <2>1 DEF Fresh, Draining, Delivered, Before, Exhausted
<1>4. CASE LoopsOrCompletes /\ pending = {}
  <2>1. /\ at = "handling" /\ batch = {} /\ at' = "completed" /\ UNCHANGED world
        /\ IF return_code # "zero" THEN content' = Append(content, Note("return code")) /\ error' = TRUE
                                   ELSE UNCHANGED <<content, error>>
    BY <1>4 DEF LoopsOrCompletes, NothingLeft, Yields
  <2>2. /\ ~error /\ process \in ExitCode /\ return_code = process
        /\ \A p \in Pipe : Tells(content, p, written[p])
    BY <1>4, <2>1 DEF Draining, Exhausted, Pipe
  <2>3. /\ content \in Seq(Piece) /\ Note("return code") \in Piece
        /\ \A p \in Pipe : written[p] \in Nat /\ Note("return code")[1] # p
    <3>1. content \in Seq(Piece) /\ Note("return code") \in Piece
      BY Notes DEF TypeInv, TypeOK, Text
    <3>2. \A p \in Pipe : written[p] \in Nat
      BY LinesBounded DEF TypeInv, TypeOK
    <3>3. \A p \in Pipe : Note("return code")[1] # p
      BY DEF Note, Pipe
    <3> QED
      BY <3>1, <3>2, <3>3
  <2>4. \A p \in Pipe : Tells(content', p, written'[p])
    BY <2>1, <2>2, <2>3, TellsOther DEF world
  <2> QED
    BY <2>1, <2>2, <2>4 DEF Fresh, Draining, Delivered, Before, ExitCode, world
<1> QED
  BY <1>1, <1>2, <1>3, <1>4

\* The process starts with empty pipes.
LEMMA SpawnsDrained ==
  ASSUME TypeInv, Fresh, Spawns
  PROVE  Fresh' /\ Draining' /\ Delivered'
<1>1. /\ at = "spawning" /\ content = <<>> /\ ~error /\ batch = {}
      /\ \A t \in Reader : ready[t] = "no"
      /\ \A p \in Pipe : taken[p] = 0
  BY DEF Spawns, Fresh, Before
<1>2. CASE Refuses("not found") \/ Refuses("exception")
  BY <1>2, RefusesDrained DEF Text
<1>3. CASE ~(Refuses("not found") \/ Refuses("exception"))
  <2>1. /\ pending' = Reader /\ at' = "waiting"
        /\ UNCHANGED <<content, error, taken, ready, batch, written>>
    BY <1>3 DEF Spawns, outcome
  <2>2. \A p \in Pipe : Tells(content', p, taken'[p])
    BY <1>1, <2>1, TellsNothing
  <2> QED
    BY <1>1, <2>1, <2>2 DEF Fresh, Draining, Delivered, Before, Reader
<1> QED
  BY <1>2, <1>3

\* The arguments are looked at first.
LEMMA ValidatesDrained ==
  ASSUME TypeInv, Fresh, Validates
  PROVE  Fresh' /\ Draining' /\ Delivered'
<1>1. /\ at = "validating" /\ content = <<>> /\ ~error /\ pending = {} /\ batch = {}
      /\ \A t \in Reader : ready[t] = "no"
      /\ \A p \in Pipe : taken[p] = 0
  BY DEF Validates, Resumes, Fresh, Before
<1>2. \/ \E why \in Text \ {"return code"} : Refuses(why)
      \/ Raises
      \/ at' = "spawning" /\ UNCHANGED outcome
  <2>1. arguments \in ArgumentKind
    BY CallKinds DEF TypeInv, TypeOK
  <2>2. {"no arguments", "no target"} \subseteq Text \ {"return code"}
    BY DEF Text
  <2>3. CASE arguments \in {"empty", "broken"}
    BY <2>2, <2>3 DEF Validates
  <2>4. CASE arguments = "null"
    BY <2>4 DEF Validates
  <2>5. CASE arguments = "lacking"
    BY <2>2, <2>5 DEF Validates
  <2>6. CASE arguments = "valid"
    BY <2>6 DEF Validates
  <2> QED
    BY <2>1, <2>3, <2>4, <2>5, <2>6 DEF ArgumentKind
<1>3. CASE \E why \in Text \ {"return code"} : Refuses(why)
  BY <1>3, RefusesDrained
<1>4. CASE Raises
  <2>1. content' = <<Note("tool failed")>> /\ error' = TRUE /\ at' = "failed"
    <3>1. Append(<<>>, Note("tool failed")) = <<Note("tool failed")>>
      OBVIOUS
    <3> QED
      BY <1>1, <1>4, <3>1 DEF Raises, Yields
  <2> QED
    BY <2>1, FailsDrained DEF Text
<1>5. CASE at' = "spawning" /\ UNCHANGED outcome
  BY <1>1, <1>5 DEF Validates, Fresh, Draining, Delivered, Before, outcome, world, loop
<1> QED
  BY <1>2, <1>3, <1>4, <1>5

\* The process writes and exits, and its readers read.
LEMMA WorldDrained ==
  ASSUME TypeInv, Fresh, Draining, Delivered, Subprocess \/ Reading
  PROVE  Fresh' /\ Draining' /\ Delivered'
<1>1. CASE Subprocess
  <2>1. process = "running"
    BY <1>1 DEF Subprocess, Writes, Exits
  <2>2. /\ UNCHANGED <<outcome, at, taken, loop>>
        /\ process' \in ExitCode \cup {"running"}
    BY <1>1, <2>1 DEF Subprocess, Writes, Exits
  <2>3. at \notin Before /\ process \notin ExitCode /\ process \notin {"zero", "nonzero"}
    BY <2>1 DEF TypeInv, ReadersSound, ExitCode
  <2> QED
    BY <2>2, <2>3 DEF Fresh, Draining, Delivered, Exhausted, outcome, loop
<1>2. ASSUME NEW t \in Reader, NEW r \in Result, Completes(t, r)
      PROVE  Fresh' /\ Draining' /\ Delivered'
  <2>1. /\ t \in pending /\ ready[t] = "no" /\ ready' = [ready EXCEPT ![t] = r]
        /\ UNCHANGED <<outcome, at, process, written, pending, batch, return_code, reader>>
        /\ taken' = IF r = "line" THEN [taken EXCEPT ![t] = @ + 1] ELSE taken
    BY <1>2 DEF Completes
  <2>2. /\ r \in {"line", "raises"} => t \in Pipe
        /\ r = "eof" => t \in Pipe /\ taken[t] = written[t] /\ process # "running"
        /\ r = "exit" => t = "return_code" /\ process # "running"
    BY <1>2 DEF Completes
  <2>3. at \notin Before
    BY <2>1 DEF Fresh
  <2>4. process # "none" /\ (process # "running" => process \in ExitCode)
    BY <2>1 DEF TypeInv, TypeOK, ReadersSound
  <2>5. ready'[t] = r /\ \A u \in Reader \ {t} : ready'[u] = ready[u]
    BY <2>1 DEF TypeInv, TypeOK
  <2>6. /\ \A p \in Pipe \ {t} : taken'[p] = taken[p]
        /\ r = "line" => taken'[t] = taken[t] + 1 /\ taken'[t] - 1 = taken[t]
        /\ r # "line" => taken' = taken
    BY <2>1, <2>2, LinesBounded DEF TypeInv, TypeOK
  <2>7. Draining'
    <3> SUFFICES ASSUME at \in {"waiting", "handling", "progress"} PROVE Draining'
      BY <2>1 DEF Draining
    <3>1. \A p \in Pipe \ {t} :
            /\ taken'[p] = taken[p] /\ ready'[p] = ready[p]
            /\ Exhausted(p)' = Exhausted(p)
      BY <2>1, <2>5, <2>6 DEF Exhausted, Reader
    <3>2. t \in Pipe =>
            /\ r = "line" => Tells(content', t, taken'[t] - 1)
            /\ r # "line" => Tells(content', t, taken'[t])
            /\ r # "exit"
            /\ r = "eof" => Exhausted(t)'
      BY <2>1, <2>2, <2>4, <2>6 DEF Draining, Exhausted, outcome, Pipe
    <3>3. t = "return_code" => r \in {"no", "exit"}
      BY <2>2 DEF Pipe, Result
    <3> QED
      BY <2>1, <2>5, <3>1, <3>2, <3>3 DEF Draining, outcome, Reader, Pipe
  <2>8. Fresh' /\ Delivered'
    BY <2>1, <2>3 DEF Fresh, Delivered, outcome
  <2> QED
    BY <2>7, <2>8
<1> QED
  BY <1>1, <1>2 DEF Reading

LEMMA DrainedStep == TypeInv /\ Drained /\ [Next]_vars => Drained'
<1> SUFFICES ASSUME TypeInv, Drained, [Next]_vars PROVE Drained'
  OBVIOUS
<1>1. at' = "requesting" => tool' = "rest"
  <2>1. at' = "requesting" => at = "requesting" \/ tool = "rest"
    <3>1. ConsumerStep => at' # "requesting" \/ at' = at
      BY DEF ConsumerStep, Begin, Announced, Closed, ToolEnds, Execute, Yields, Ends
    <3>2. RestStep => at = "requesting" \/ tool = "rest"
      BY DEF RestStep, Requests, Responds, RequestFails
    <3>3. PingStep => at' # "requesting"
      BY PingMoves
    <3>5. Disturbance \/ Subprocess \/ Reading => at' \in {at, "ended"}
      BY DEF Disturbance, Cancel, SendFails, Subprocess, Writes, Exits, Reading, Completes
    <3> QED
      BY <3>1, <3>2, <3>3, <3>5 DEF Next, Terminated, vars
  <2> QED
    BY <2>1, KeepsTool DEF Drained
<1>2. pc' \in {"closing", "over"} => at' = "ended" \/ stopped' = TRUE
  <2>1. ConsumerStep => (pc' \in {"closing", "over"} => at' = "ended" \/ stopped' = TRUE)
    BY DEF ConsumerStep, Begin, Announced, Closed, ToolEnds, Execute, Yields, Ends, Drained
  <2>2. RestStep => (pc' \in {"closing", "over"} => at' = "ended" \/ stopped' = TRUE)
    BY DEF RestStep, Requests, Responds, RequestFails, Refuses, Raises, Yields, Ends
  <2>3. PingStep => (pc' \in {"closing", "over"} => at' = "ended" \/ stopped' = TRUE)
    BY PingMoves
  <2>5. Disturbance \/ Subprocess \/ Reading => (pc' \in {"closing", "over"} => at' = "ended" \/ stopped' = TRUE)
    BY DEF Disturbance, Cancel, SendFails, Subprocess, Writes, Exits, Reading, Completes, Drained
  <2> QED
    BY <2>1, <2>2, <2>3, <2>5 DEF Next, Terminated, vars, Drained
<1>3. ASSUME tool' = "ping", ~stopped' PROVE Fresh' /\ Draining' /\ Delivered'
  <2>1. tool = "ping" /\ ~stopped
    <3>1. tool = "ping" /\ stopped' = stopped
      BY <1>3, KeepsTool
    <3> QED
      BY <1>3, <3>1
  <2>2. /\ Fresh /\ Draining /\ Delivered
        /\ at # "requesting" /\ (pc \in {"closing", "over"} => at = "ended")
    BY <2>1 DEF Drained
  <2>3. CASE ConsumerStep
    <3>1. UNCHANGED <<content, error, world, loop>> /\ (at' = at \/ (at \in Before /\ at' = "validating")
            \/ (at \in {"completed", "failed"} /\ at' = "ended"))
      <4>1. Execute => UNCHANGED <<content, error>> /\ at' = "validating"
        BY <2>1 DEF Execute, Yields
      <4>2. pc \in {"new", "announcing"} => at \in Before
        BY DEF TypeInv, ReadersSound, Before
      <4>3. Begin => UNCHANGED <<content, error, world, loop>> /\ (at' = at \/ (at \in Before /\ at' = "validating"))
        BY <4>1, <4>2 DEF Begin
      <4>4. Announced => UNCHANGED <<content, error, world, loop>> /\ at \in Before /\ at' = "validating"
        BY <4>1, <4>2 DEF Announced
      <4>5. Closed => UNCHANGED <<content, error, world, loop>> /\ at' = at
        BY DEF Closed, outcome
      <4>6. ToolEnds => UNCHANGED <<content, error, world, loop>> /\ at \in {"completed", "failed"} /\ at' = "ended"
        BY DEF ToolEnds, Resumes, Ends
      <4> QED
        BY <2>3, <4>3, <4>4, <4>5, <4>6 DEF ConsumerStep
    <3>2. CASE at' = at
      BY <2>2, <3>1, <3>2 DEF Fresh, Draining, Delivered, Exhausted, world, loop
    <3>3. CASE at \in Before /\ at' = "validating"
      BY <2>2, <3>1, <3>3 DEF Fresh, Draining, Delivered, Before, world, loop
    <3>4. CASE at \in {"completed", "failed"} /\ at' = "ended"
      BY <2>2, <3>1, <3>4 DEF Fresh, Draining, Delivered, Before, world, loop
    <3> QED
      BY <3>1, <3>2, <3>3, <3>4
  <2>4. CASE RestStep
    BY <2>1, <2>2, <2>4 DEF RestStep, Requests, Responds, RequestFails
  <2>5. CASE Validates
    BY <2>2, <2>5, ValidatesDrained
  <2>6. CASE Spawns
    BY <2>2, <2>6, SpawnsDrained
  <2>7. CASE Wakes \/ Reported \/ LoopsOrCompletes
    BY <2>2, <2>7, LoopDrained
  <2>8. ASSUME NEW t \in Reader, Handles(t) PROVE Fresh' /\ Draining' /\ Delivered'
    BY <2>2, <2>8, HandlesDrained
  <2>9. CASE Disturbance
    <3>1. stopped' = TRUE
      BY <2>9 DEF Disturbance, Cancel, SendFails
    <3> QED
      BY <1>3, <3>1
  <2>10. CASE Subprocess \/ Reading
    BY <2>2, <2>10, WorldDrained
  <2>11. CASE UNCHANGED vars
    BY <2>2, <2>11 DEF Fresh, Draining, Delivered, Exhausted, vars, outcome, world, loop
  <2> QED
    BY <2>3, <2>4, <2>5, <2>6, <2>7, <2>8, <2>9, <2>10, <2>11 DEF Next, PingStep, Terminated
<1> QED
  BY <1>1, <1>2, <1>3 DEF Drained

\* A ping reported as a success has told all that the process wrote, each pipe in
\* order, and a failing one too: for any number of lines, and whichever of the
\* pipes and the exit status was seen first (the loop of fuction_call_ping()).
THEOREM OutputGetsComplete == Spec => []OutputIsComplete
<1>1. TypeInv /\ Drained => OutputIsComplete
  BY DEF Drained, Delivered, OutputIsComplete, Settled
<1> QED
  BY <1>1, TypeInit, TypeStep, DrainedInit, DrainedStep, PTL DEF Spec

=============================================================================
