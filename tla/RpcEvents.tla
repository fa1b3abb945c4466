----------------------------- MODULE RpcEvents -----------------------------
(***************************************************************************)
(* The way of an event through PiRpcClient (pi/rpc.py): the bytes pi       *)
(* writes to its stdout, the decoder, the reader task that handles one     *)
(* record after the other, the subscribers it calls, the event queue with  *)
(* next_event() and wait_for_event(), prompt_and_wait(), which is a        *)
(* subscriber for the time of a call, and the answers to the dialogs of    *)
(* extensions.  RpcClient models the requests, start() and close() in      *)
(* detail; here close() is only what it does to the events.                *)
(*                                                                         *)
(* Everything runs on the asyncio loop: a step is the code between two     *)
(* awaits.                                                                 *)
(***************************************************************************)
EXTENDS JsonlDecoder

CONSTANTS
    Prompts,      \* calls of prompt_and_wait()
    Subscribers,  \* handlers the application installs with on_event()
    Waiters,      \* calls of next_event()
    TypeWaiters,  \* ... those of them made by wait_for_event("agent_end")
    Chunks,       \* the sizes of the chunks the pipe delivers
    MaxWrites     \* bound on the records pi writes

ASSUME EventsAssumption ==
    /\ Prompts \cap Subscribers = {}
    /\ TypeWaiters \subseteq Waiters
    /\ MaxWrites \in Nat
    /\ Chunks \subseteq Nat \ {0}

VARIABLES
    written,   \* what pi wrote: the sequence of its records
    pipe,      \* the bytes of it that are not read yet
    alive,     \* pi has not exited
    buffer,    \* StrictJsonlDecoder._buffer
    reader,    \* the reader task: where it is and what it has in hand
    handled,   \* the numbers of the records it handled or is handling
    handlers,  \* _event_handlers
    base,      \* length of handled when each handler was installed
    seen,      \* the numbers of the events each handler was called with
    queue,     \* _events
    prompts,   \* the calls of prompt_and_wait()
    waiters,   \* the calls of next_event() and wait_for_event()
    closing,   \* how far close() is
    answers    \* the dialogs that were answered, in order

piVars     == <<written, pipe, alive>>
readerVars == <<buffer, reader, handled>>
subVars    == <<handlers, base, seen>>
vars == <<piVars, readerVars, subVars, queue, prompts, waiters, closing,
          answers>>

-----------------------------------------------------------------------------
Numbers == 1..MaxWrites

\* What pi writes: the response to a prompt, events, and lines that are no
\* JSON.  A dialog is an extension UI request that wants an answer; one that
\* does not is like any other event, and none of those is kept.
Records == [type : {"response"}, of : Prompts]
           \cup [type : {"agent_end", "dialog", "junk"}, of : {"pi"}]

\* Each handler is installed at most once.
Never == MaxWrites + 1

Type(n) == written[n].type

closed    == closing # "open"     \* _closed, and _close_event is set
stdinOpen == alive /\ ~closed

ReaderGone == reader.at \in {"stopped", "dead"}

\* An event is in hand: its handlers are called, or its dialog answered.
Dispatching == reader.at \in {"handlers", "inHandler", "inUi"}

Bytes == (Numbers \X {1, 2}) \cup {LF, CR}

TypeOK ==
    /\ written \in Seq(Records) /\ Len(written) <= MaxWrites
    /\ pipe \in Seq(Bytes) /\ buffer \in Seq(Bytes)
    /\ alive \in BOOLEAN
    /\ reader \in [at : {"read", "record", "handlers", "inHandler", "inUi",
                         "stopped", "dead"},
                   records : Seq(Numbers), todo : Seq(Prompts \cup Subscribers)]
    /\ handled \in Seq(Numbers)
    /\ handlers \in Seq(Prompts \cup Subscribers)
    /\ base \in [Prompts \cup Subscribers -> Nat]
    /\ seen \in [Prompts \cup Subscribers -> Seq(Numbers)]
    /\ queue \in Seq(Numbers)
    /\ prompts \in [Prompts ->
         [at : {"idle", "response", "agent_end", "returned", "raised"},
          reply : {"none", "pending", "value", "error"}, done : BOOLEAN]]
    /\ waiters \in [Waiters ->
         [at : {"idle", "wait", "got", "returned", "raised"},
          event : Numbers \cup {0}]]
    /\ closing \in {"open", "begun", "cancelled", "closed"}
    /\ answers \in Seq(Numbers)

Init ==
    /\ written = << >> /\ pipe = << >> /\ alive = TRUE
    /\ buffer = << >> /\ handled = << >>
    /\ reader = [at |-> "read", records |-> << >>, todo |-> << >>]
    /\ handlers = << >>
    /\ base = [h \in Prompts \cup Subscribers |-> Never]
    /\ seen = [h \in Prompts \cup Subscribers |-> << >>]
    /\ queue = << >>
    /\ prompts = [p \in Prompts |->
                    [at |-> "idle", reply |-> "none", done |-> FALSE]]
    /\ waiters = [w \in Waiters |-> [at |-> "idle", event |-> 0]]
    /\ closing = "open"
    /\ answers = << >>

-----------------------------------------------------------------------------
(* pi.  Every other record it ends with CR LF, behind an empty line; what  *)
(* is no JSON is a line that fills the buffer.                             *)

Encode(n, type) ==
    LET body == IF type = "junk" THEN [i \in 1..MaxBuffer-1 |-> <<n, 1>>]
                ELSE <<<<n, 1>>, <<n, 2>>>>
    IN  IF n % 2 = 0 THEN <<LF>> \o body \o <<CR, LF>> ELSE Append(body, LF)

PiWrites(r) ==
    /\ alive
    /\ Len(written) < MaxWrites
    /\ r.type = "response" =>
         prompts[r.of].reply # "none" /\ \A n \in DOMAIN written : written[n] # r
    /\ written' = Append(written, r)
    /\ pipe' = pipe \o Encode(Len(written) + 1, r.type)
    /\ UNCHANGED <<alive, readerVars, subVars, queue, prompts, waiters,
                   closing, answers>>

PiExits ==
    /\ alive
    /\ alive' = FALSE
    /\ UNCHANGED <<written, pipe, readerVars, subVars, queue, prompts, waiters,
                   closing, answers>>

-----------------------------------------------------------------------------
(* The reader task.                                                        *)

\* _fail_pending, by a reader that ends on a client that is not closed.
FailPending ==
    prompts' = [p \in Prompts |->
      IF ~closed /\ prompts[p].reply = "pending"
      THEN [prompts[p] EXCEPT !.reply = "error"] ELSE prompts[p]]

ReadChunk ==
    /\ reader.at = "read" /\ pipe # << >>
    /\ \E size \in Chunks :
         LET k == Min({size, Len(pipe)}) IN
         \E fed \in {Feed(buffer, SubSeq(pipe, 1, k))} :
           /\ pipe' = SubSeq(pipe, k + 1, Len(pipe))
           /\ buffer' = fed.buffer
           /\ IF fed.raised
              THEN /\ reader' = [reader EXCEPT !.at = "dead"]
                   /\ FailPending
              ELSE /\ reader' = [reader EXCEPT !.at = "record",
                                               !.records = fed.records]
                   /\ UNCHANGED prompts
    /\ UNCHANGED <<written, alive, handled, subVars, queue, waiters, closing,
                   answers>>

ReadEof ==
    /\ reader.at = "read" /\ pipe = << >> /\ ~alive
    /\ reader' = [reader EXCEPT !.at = "stopped"]
    /\ FailPending
    /\ UNCHANGED <<piVars, buffer, handled, subVars, queue, waiters, closing,
                   answers>>

ChunkDone ==
    /\ reader.at = "record" /\ reader.records = << >>
    /\ reader' = [reader EXCEPT !.at = "read"]
    /\ UNCHANGED <<piVars, buffer, handled, subVars, queue, prompts, waiters,
                   closing, answers>>

\* _handle_message takes a record off what feed() returned.
Handles(numbers) ==
    /\ reader.at = "record" /\ reader.records # << >>
    /\ Type(Head(reader.records)) \in numbers
    /\ handled' = Append(handled, Head(reader.records))

HandleResponse ==
    /\ Handles({"response"})
    /\ reader' = [reader EXCEPT !.records = Tail(@)]
    /\ prompts' = [prompts EXCEPT ![written[Head(reader.records)].of].reply =
                     IF @ = "pending" THEN "value" ELSE @]
    /\ UNCHANGED <<piVars, buffer, subVars, queue, waiters, closing, answers>>

\* _dispatch_event: the event is queued, and the handlers of this moment are
\* to be called.
HandleEvent ==
    /\ Handles({"agent_end", "dialog"})
    /\ queue' = Append(queue, Head(reader.records))
    /\ reader' = [reader EXCEPT !.at = "handlers", !.records = Tail(@),
                                !.todo = handlers]
    /\ UNCHANGED <<piVars, buffer, subVars, prompts, waiters, closing, answers>>

CallHandler ==
    /\ reader.at = "handlers" /\ reader.todo # << >>
    /\ LET h == Head(reader.todo)
           n == Last(handled)
       IN  /\ seen' = [seen EXCEPT ![h] = Append(@, n)]
           /\ reader' = IF h \in Prompts
                        THEN [reader EXCEPT !.todo = Tail(@)]
                        ELSE [reader EXCEPT !.at = "inHandler"]
           /\ prompts' = IF h \in Prompts /\ Type(n) = "agent_end"
                         THEN [prompts EXCEPT ![h].done = TRUE] ELSE prompts
    /\ UNCHANGED <<piVars, buffer, handled, handlers, base, queue, waiters,
                   closing, answers>>

\* Mutant: the exception of a handler ends the loop over the handlers.
HandlerEndsDispatch ==
    /\ reader.at = "inHandler"
    /\ \E raised \in BOOLEAN :
         reader' = [reader EXCEPT !.at = "handlers",
                      !.todo = IF raised THEN << >> ELSE Tail(@)]
    /\ UNCHANGED <<piVars, buffer, handled, subVars, queue, prompts, waiters,
                   closing, answers>>

\* A handler returned, or raised: that is logged and makes no difference.
HandlerEnds ==
    /\ reader.at = "inHandler"
    /\ reader' = [reader EXCEPT !.at = "handlers", !.todo = Tail(@)]
    /\ UNCHANGED <<piVars, buffer, handled, subVars, queue, prompts, waiters,
                   closing, answers>>

DispatchDone ==
    /\ reader.at = "handlers" /\ reader.todo = << >>
    /\ reader' = [reader EXCEPT !.at =
                    IF Type(Last(handled)) = "dialog" THEN "inUi" ELSE "record"]
    /\ UNCHANGED <<piVars, buffer, handled, subVars, queue, prompts, waiters,
                   closing, answers>>

\* Mutant: a UI handler that raised or returned nothing leaves pi unanswered.
AnswerDialogMaybe ==
    /\ reader.at = "inUi"
    /\ reader' = [reader EXCEPT !.at = "record"]
    /\ \/ answers' = IF stdinOpen THEN Append(answers, Last(handled)) ELSE answers
       \/ UNCHANGED answers
    /\ UNCHANGED <<piVars, buffer, handled, subVars, queue, prompts, waiters,
                   closing>>

\* The UI handler answered, or the default answer is used because there is
\* none, it raised, or it returned None.  A stdin that is closed is left
\* alone.  What is outside the try around the handler ends the reader: an
\* answer that is no mapping or cannot be serialized, and a failed write
\* while the stdin of a pi that is gone is not yet known to be broken.
AnswerDialog ==
    /\ reader.at = "inUi"
    /\ \/ /\ reader' = [reader EXCEPT !.at = "record"]
          /\ answers' = IF stdinOpen THEN Append(answers, Last(handled))
                        ELSE answers
          /\ UNCHANGED prompts
       \/ /\ reader' = [reader EXCEPT !.at = "dead"]
          /\ FailPending
          /\ UNCHANGED answers
    /\ UNCHANGED <<piVars, buffer, handled, subVars, queue, waiters, closing>>

ReaderStep ==
    \/ ReadChunk \/ ReadEof \/ ChunkDone \/ HandleResponse \/ HandleEvent
    \/ CallHandler \/ HandlerEnds \/ DispatchDone \/ AnswerDialog

-----------------------------------------------------------------------------
(* on_event() and prompt_and_wait().                                       *)

Install(h) ==
    /\ handlers' = Append(handlers, h)
    /\ base' = [base EXCEPT ![h] = Len(handled)]

\* Mutant: an unsubscribe empties the list.
UninstallAll(h) == handlers' = << >>

Uninstall(h) == handlers' = RemoveFirst(handlers, h)

Subscribe(s) ==
    /\ base[s] = Never
    /\ Install(s)
    /\ UNCHANGED <<piVars, readerVars, seen, queue, prompts, waiters, closing,
                   answers>>

Unsubscribe(s) ==
    /\ s \in Range(handlers)
    /\ Uninstall(s)
    /\ UNCHANGED <<piVars, readerVars, base, seen, queue, prompts, waiters,
                   closing, answers>>

\* The collecting handler is installed before the prompt is sent.  send()
\* refuses when the reader died or close() is through; on a stdin that is
\* closing the write may or may not fail.
BeginPrompt(p) ==
    /\ prompts[p].at = "idle"
    /\ \/ /\ reader.at # "dead" /\ closing # "closed"
          /\ Install(p)
          /\ prompts' = [prompts EXCEPT ![p].at = "response",
                                        ![p].reply = "pending"]
       \/ /\ reader.at = "dead" \/ ~stdinOpen
          /\ prompts' = [prompts EXCEPT ![p].at = "raised"]
          /\ UNCHANGED <<handlers, base>>
    /\ UNCHANGED <<piVars, readerVars, seen, queue, waiters, closing, answers>>

\* A prompt pi accepted waits for its agent_end; one it refused, or whose
\* send failed, raises.
PromptReplied(p) ==
    /\ prompts[p].at = "response"
    /\ \/ /\ prompts[p].reply = "value"
          /\ prompts' = [prompts EXCEPT ![p].at = "agent_end"]
          /\ UNCHANGED handlers
       \/ /\ prompts[p].reply \in {"value", "error"}
          /\ prompts' = [prompts EXCEPT ![p].at = "raised"]
          /\ Uninstall(p)
    /\ UNCHANGED <<piVars, readerVars, base, seen, queue, waiters, closing,
                   answers>>

PromptDone(p) ==
    /\ prompts[p].at = "agent_end" /\ prompts[p].done
    /\ prompts' = [prompts EXCEPT ![p].at = "returned"]
    /\ Uninstall(p)
    /\ UNCHANGED <<piVars, readerVars, base, seen, queue, waiters, closing,
                   answers>>

\* The request timeout of send(), or the timeout of the wait.
PromptTimesOut(p) ==
    /\ prompts[p].at \in {"response", "agent_end"}
    /\ prompts' = [prompts EXCEPT ![p].at = "raised",
                     ![p].reply = IF @ = "pending" THEN "error" ELSE @]
    /\ Uninstall(p)
    /\ UNCHANGED <<piVars, readerVars, base, seen, queue, waiters, closing,
                   answers>>

-----------------------------------------------------------------------------
(* next_event() and wait_for_event().                                      *)

Wants(w, n) == w \in TypeWaiters => Type(n) = "agent_end"

BeginWait(w) ==
    /\ waiters[w].at = "idle"
    /\ waiters' = [waiters EXCEPT ![w].at = IF closed THEN "raised" ELSE "wait"]
    /\ UNCHANGED <<piVars, readerVars, subVars, queue, prompts, closing, answers>>

\* The task that gets from the queue is done.
WaiterGets(w) ==
    /\ waiters[w].at = "wait" /\ queue # << >>
    /\ waiters' = [waiters EXCEPT ![w] = [at |-> "got", event |-> Head(queue)]]
    /\ queue' = Tail(queue)
    /\ UNCHANGED <<piVars, readerVars, subVars, prompts, closing, answers>>

\* next_event() returns; wait_for_event() drops an event of another type and
\* calls next_event() again.
WaiterReturns(w) ==
    /\ waiters[w].at = "got"
    /\ waiters' = [waiters EXCEPT ![w].at =
         IF Wants(w, waiters[w].event) THEN "returned"
         ELSE IF closed THEN "raised" ELSE "wait"]
    /\ UNCHANGED <<piVars, readerVars, subVars, queue, prompts, closing, answers>>

\* Mutant: close() sets _closed but does not wake those that wait for events.
WaiterSeesCloseNever(w) ==
    /\ waiters[w].at = "wait" /\ closed
    /\ queue # << >>
    /\ waiters' = [waiters EXCEPT ![w].at = "raised"]
    /\ UNCHANGED <<piVars, readerVars, subVars, queue, prompts, closing, answers>>

WaiterSeesClose(w) ==
    /\ waiters[w].at = "wait" /\ closed
    /\ waiters' = [waiters EXCEPT ![w].at = "raised"]
    /\ UNCHANGED <<piVars, readerVars, subVars, queue, prompts, closing, answers>>

\* The timeout of next_event, or the cancellation of the call: one that got
\* its event already loses it.
WaiterGivesUp(w) ==
    /\ waiters[w].at \in {"wait", "got"}
    /\ waiters' = [waiters EXCEPT ![w].at = "raised"]
    /\ UNCHANGED <<piVars, readerVars, subVars, queue, prompts, closing, answers>>

-----------------------------------------------------------------------------
(* close(): the flags and stdin; once pi is gone the reader is cancelled at *)
(* the await it is in; then what is pending fails.                          *)

BeginClose ==
    /\ closing = "open"
    /\ closing' = "begun"
    /\ UNCHANGED <<piVars, readerVars, subVars, queue, prompts, waiters, answers>>

CancelReader ==
    /\ closing = "begun"
    /\ closing' = "cancelled"
    /\ alive' = FALSE
    /\ reader' = [reader EXCEPT !.at = IF @ = "dead" THEN @ ELSE "stopped"]
    /\ UNCHANGED <<written, pipe, buffer, handled, subVars, queue, prompts,
                   waiters, answers>>

FinishClose ==
    /\ closing = "cancelled"
    /\ closing' = "closed"
    /\ prompts' = [p \in Prompts |->
         IF prompts[p].reply = "pending"
         THEN [prompts[p] EXCEPT !.reply = "error"] ELSE prompts[p]]
    /\ UNCHANGED <<piVars, readerVars, subVars, queue, waiters, answers>>

CloseStep == BeginClose \/ CancelReader \/ FinishClose

PromptStep(p) == BeginPrompt(p) \/ PromptReplied(p) \/ PromptDone(p)

Next ==
    \/ \E r \in Records : PiWrites(r)
    \/ PiExits
    \/ ReaderStep
    \/ \E s \in Subscribers : Subscribe(s) \/ Unsubscribe(s)
    \/ \E p \in Prompts : PromptStep(p) \/ PromptTimesOut(p)
    \/ \E w \in Waiters :
         \/ BeginWait(w) \/ WaiterGets(w) \/ WaiterReturns(w)
         \/ WaiterSeesClose(w) \/ WaiterGivesUp(w)
    \/ CloseStep

\* The tasks of the loop run, and the handlers of the application return.
\* Timeouts are not counted on, and pi and the application owe nothing.
Fairness ==
    /\ WF_vars(ReaderStep)
    /\ \A p \in Prompts : WF_vars(PromptReplied(p) \/ PromptDone(p))
    /\ \A w \in Waiters :
         WF_vars(WaiterGets(w) \/ WaiterReturns(w) \/ WaiterSeesClose(w))
    /\ WF_vars(CancelReader \/ FinishClose)

Spec == Init /\ [][Next]_vars /\ Fairness

-----------------------------------------------------------------------------
(* Properties.                                                             *)

Valid == Ascending({n \in DOMAIN written : Type(n) # "junk"})

\* Whatever the chunks, and whatever handlers, clients and close() do in
\* between: the records the reader handled, has in hand and will find in the
\* bytes behind them are the ones pi wrote, each once, in the order it wrote
\* them; lines that are no JSON cost nothing but themselves.  And the reader
\* dies of nothing but a full buffer and the answer to a dialog: neither a
\* line, a response, nor a subscriber that raises ends it (rpc.py:569-704,
\* jsonl.py:52-96).
DeliveredInOrder ==
    /\ TypeOK
    /\ handled \o reader.records \o Decoded(buffer \o pipe) = Valid
    /\ Rest(buffer \o pipe) = << >>
    /\ reader.at = "read" => reader.records = << >>
    /\ reader.at = "dead" =>
         \/ Len(buffer) > MaxBuffer
         \/ handled # << >> /\ Type(Last(handled)) = "dialog"

\* The events among the records from the i-th to the j-th that was handled.
EventsIn(i, j) ==
    Ascending({n \in {handled[k] : k \in i..j} : Type(n) # "response"})

Installed(h) ==
    IF h \in Prompts THEN prompts[h].at # "idle" ELSE base[h] # Never

\* The handlers that are still to be called with the event in hand.
Pending ==
    CASE reader.at = "handlers"  -> Range(reader.todo)
      [] reader.at = "inHandler" -> Range(Tail(reader.todo))
      [] OTHER                   -> {}

\* An event goes to every handler that was there when it was read, and to
\* none twice.
CalledOnce ==
    /\ IsInjective(handlers)
    /\ \A h \in Range(handlers) : Installed(h) /\ base[h] <= Len(handled)
    /\ \A h \in Prompts \cup Subscribers : Installed(h) \/ seen[h] = << >>
    /\ Dispatching =>
         /\ handled # << >> /\ Type(Last(handled)) \in {"agent_end", "dialog"}
         /\ IsInjective(reader.todo)
         /\ \A h \in Range(reader.todo) : Installed(h) /\ base[h] < Len(handled)
         /\ reader.at = "inHandler" => reader.todo # << >>
         /\ reader.at = "inUi" => Type(Last(handled)) = "dialog"

\* Every installed handler has seen every event since it was installed, in
\* order, but for the one in hand when its turn is still to come: neither a
\* handler that raises or unsubscribes during the call of another, nor a slow
\* one, costs it an event.  For prompt_and_wait() that is every event since
\* before its prompt was sent (rpc.py:392-411, 641-657).
HandlersSeeAll ==
    /\ CalledOnce
    /\ ~ReaderGone =>
         \A h \in Range(handlers) :
           seen[h] = EventsIn(base[h] + 1,
                              Len(handled) - IF h \in Pending THEN 1 ELSE 0)

\* Every dialog that was handled has been answered, and only once, unless
\* stdin was closed or pi gone, but for the one in hand and for one whose
\* answer ended the reader, which is then the last that was handled
\* (rpc.py:659-704).
DialogsAnswered ==
    /\ IsInjective(answers) /\ Range(answers) \subseteq Range(handled)
    /\ Dispatching => Last(handled) \notin Range(answers)
    /\ stdinOpen => \A n \in Range(handled) :
         Type(n) = "dialog" => \/ n \in Range(answers)
                               \/ /\ Dispatching \/ reader.at = "dead"
                                  /\ n = Last(handled)

\* No event is lost between the reader and a wait: when what a
\* wait_for_event() or next_event() waits for is in the queue, or the client
\* is closed, the wait ends (rpc.py:516-551).
WaitsEnd ==
    \A w \in Waiters :
      (/\ waiters[w].at = "wait"
       /\ closed \/ \E i \in DOMAIN queue : Wants(w, queue[i]))
      ~> \/ waiters[w].at \in {"returned", "raised"}
         \/ \E v \in Waiters \ {w} : waiters[v].at \in {"returned", "raised"}

\* A prompt_and_wait() whose prompt was accepted and during which an
\* agent_end was written ends without the help of its timeout, while the
\* reader reads (rpc.py:392-411, 614-616).
PromptsEnd ==
    \A p \in Prompts :
      (/\ prompts[p].at = "agent_end"
       /\ \E n \in DOMAIN written :
            Type(n) = "agent_end" /\ n \notin Range(SubSeq(handled, 1, base[p])))
      ~> prompts[p].at \in {"returned", "raised"} \/ ReaderGone
=============================================================================
