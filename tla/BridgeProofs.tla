---------------------------- MODULE BridgeProofs ----------------------------
(***************************************************************************)
(* Proofs about Bridge, for any number of calls, updates and for both      *)
(* versions of wait_closed.                                                *)
(***************************************************************************)
EXTENDS Bridge, SequenceTheorems, TLAPS

\* The two places a response is written at leave a sequence of frames.
LEMMA WriteType ==
    ASSUME TypeOK, NEW c \in Calls, NEW f \in Responses \cup {"update"},
           Write(c, f)
    PROVE  /\ frames' \in [Calls -> Seq(Responses \cup {"update"})]
           /\ Len(frames'[c]) = Len(frames[c]) + 1
           /\ \A i \in 1..Len(frames[c]) : frames'[c][i] = frames[c][i]
           /\ frames'[c][Len(frames[c]) + 1] = f
           /\ \A d \in Calls \ {c} : frames'[d] = frames[d]
           /\ \A d \in Calls : read[d] <= Len(frames'[d])
           /\ Len(frames[c]) \in Nat
<1>1. frames \in [Calls -> Seq(Responses \cup {"update"})]
  BY DEF TypeOK
<1>2. frames[c] \in Seq(Responses \cup {"update"})
  BY <1>1
<1>3. Append(frames[c], f) \in Seq(Responses \cup {"update"})
  BY <1>2
<1>4. frames' = [frames EXCEPT ![c] = Append(frames[c], f)]
  BY DEF Write
<1>5. frames' \in [Calls -> Seq(Responses \cup {"update"})]
  BY <1>1, <1>3, <1>4
<1>6. frames'[c] = Append(frames[c], f)
  BY <1>1, <1>4
<1>7. \A d \in Calls \ {c} : frames'[d] = frames[d]
  BY <1>1, <1>4
<1>8. Len(frames[c]) \in Nat /\ Len(frames'[c]) = Len(frames[c]) + 1
  BY <1>2, <1>6
<1>9. ASSUME NEW d \in Calls PROVE read[d] <= Len(frames'[d])
  <2>1. read[d] \in Nat /\ read[d] <= Len(frames[d])
    BY DEF TypeOK
  <2>2. CASE d = c
    BY <2>1, <2>2, <1>8
  <2>3. CASE d # c
    BY <2>1, <2>3, <1>7
  <2> QED
    BY <2>2, <2>3
<1> QED
  BY <1>2, <1>5, <1>6, <1>7, <1>8, <1>9

\* What the code of a cancelled task leaves is again a state of its handler.
LEMMA LeftoverType ==
    ASSUME TypeOK, NEW c \in Calls, NEW h \in Leftover(c)
    PROVE  /\ h \in {"none", "queued", "running", "value", "error", "dropped"}
           /\ handler[c] \in {"none", "value", "error"} => h = handler[c]
           /\ h = "value" => handler[c] = "value"
<1>1. handler[c] \in {"none", "queued", "running", "value", "error", "dropped"}
  BY DEF TypeOK
<1>2. CASE handler[c] \in {"none", "value", "error"}
  BY <1>2 DEF Leftover
<1>3. CASE handler[c] \notin {"none", "value", "error"} /\ c \notin Detached
  BY <1>3 DEF Leftover
<1>4. CASE handler[c] = "queued" /\ c \in Detached
  BY <1>4 DEF Leftover
<1>5. CASE handler[c] \in {"running", "dropped"} /\ c \in Detached
  BY <1>5 DEF Leftover
<1> QED
  BY <1>1, <1>2, <1>3, <1>4, <1>5

\* No action leaves the types.
LEMMA TypeStep ==
    ASSUME TypeOK, [Next]_vars
    PROVE  TypeOK'
<1> USE DEF TypeOK, Responses
<1>1. ASSUME NEW c \in Calls, Call(c) PROVE TypeOK'
  BY <1>1 DEF Call, Settle, pyVars
<1>2. ASSUME NEW c \in Calls, Connect(c) PROVE TypeOK'
  BY <1>2 DEF Connect, Settle, pyVars
<1>3. ASSUME NEW c \in Calls, SocketError(c) PROVE TypeOK'
  BY <1>3 DEF SocketError, Settle, pyVars
<1>4. ASSUME NEW c \in Calls, GiveUp(c) PROVE TypeOK'
  BY <1>4 DEF GiveUp, Settle, pyVars
<1>5. ASSUME NEW c \in Calls, ReadFrame(c) PROVE TypeOK'
  <2>1. frames[c] \in Seq(Responses \cup {"update"})
    OBVIOUS
  <2>2. Len(frames[c]) \in Nat
    BY <2>1
  <2>3. frames[c][read[c] + 1] \in {"ok", "error", "update"}
    BY <1>5, <2>1, <2>2 DEF ReadFrame
  <2>4. shim' \in [Calls -> {"idle", "connecting", "waiting", "resolved",
                             "rejected", "gone"}]
    BY <1>5, <2>3 DEF ReadFrame, Settle
  <2>5. /\ read' \in [Calls -> Nat]
        /\ \A d \in Calls : read'[d] <= Len(frames[d])
    BY <1>5, <2>2 DEF ReadFrame
  <2> QED
    BY <1>5, <2>4, <2>5 DEF ReadFrame, pyVars
<1>6. ASSUME NEW c \in Calls, SocketEnds(c) PROVE TypeOK'
  BY <1>6 DEF SocketEnds, Settle, pyVars
<1>7. ASSUME NEW c \in Calls, Accept(c) PROVE TypeOK'
  BY <1>7 DEF Accept, shimVars, pyVars
<1>8. ASSUME NEW c \in Calls, ReadRequest(c) PROVE TypeOK'
  BY <1>8 DEF ReadRequest, shimVars, Goes
<1>9. ASSUME NEW c \in Calls, ReadFails(c) PROVE TypeOK'
  BY <1>9 DEF ReadFails, CloseWriter, shimVars, pyVars
<1>10. ASSUME NEW c \in Calls, Respond(c) PROVE TypeOK'
  <2>1. PICK f \in Responses : Write(c, f)
    BY <1>10 DEF Respond
  <2>2. /\ frames' \in [Calls -> Seq(Responses \cup {"update"})]
        /\ \A d \in Calls : read[d] <= Len(frames'[d])
    BY <2>1, WriteType
  <2>3. task' \in [Calls -> {"none", "reading", "handling", "drain", "finish",
                             "done"}]
    BY <1>10 DEF Respond
  <2>4. watching' \subseteq Calls
    BY <1>10 DEF Respond
  <2> QED
    BY <1>10, <2>2, <2>3, <2>4 DEF Respond, shimVars, pyVars
<1>11. ASSUME NEW c \in Calls, Drained(c) PROVE TypeOK'
  BY <1>11 DEF Drained, shimVars, pyVars
<1>12. ASSUME NEW c \in Calls, FinishCall(c) PROVE TypeOK'
  BY <1>12 DEF FinishCall, CloseWriter, shimVars, pyVars
<1>13. ASSUME NEW c \in Calls, FinishNotify(c) PROVE TypeOK'
  BY <1>13 DEF FinishNotify, shimVars, pyVars
<1>14. ASSUME NEW c \in Calls, CancelReading(c) PROVE TypeOK'
  BY <1>14 DEF CancelReading, CloseWriter, shimVars, pyVars
<1>15. ASSUME NEW c \in Calls, CancelExecute(c) PROVE TypeOK'
  <2>1. Write(c, "error")
    BY <1>15 DEF CancelExecute
  <2>4. /\ frames' \in [Calls -> Seq(Responses \cup {"update"})]
        /\ \A d \in Calls : read[d] <= Len(frames'[d])
    BY <2>1, WriteType
  <2>2. handler' \in [Calls -> {"none", "queued", "running", "value", "error",
                                "dropped"}]
    <3>1. PICK h \in Leftover(c) : handler' = [handler EXCEPT ![c] = h]
      BY <1>15 DEF CancelExecute
    <3> QED
      BY <3>1, LeftoverType
  <2>3. task' \in [Calls -> {"none", "reading", "handling", "drain", "finish",
                             "done"}]
    BY <1>15 DEF CancelExecute
  <2> QED
    BY <1>15, <2>2, <2>3, <2>4 DEF CancelExecute, shimVars
<1>16. ASSUME NEW c \in Calls, CancelEvent(c) PROVE TypeOK'
  <2>1. handler' \in [Calls -> {"none", "queued", "running", "value", "error",
                                "dropped"}]
    <3>1. PICK h \in Leftover(c) : handler' = [handler EXCEPT ![c] = h]
      BY <1>16 DEF CancelEvent
    <3> QED
      BY <3>1, LeftoverType
  <2> QED
    BY <1>16, <2>1 DEF CancelEvent, CloseWriter, shimVars
<1>17. ASSUME NEW c \in Calls, SeeDisconnect(c) PROVE TypeOK'
  BY <1>17 DEF SeeDisconnect, shimVars
<1>18. ASSUME NEW c \in Calls, HandlerStarts(c) PROVE TypeOK'
  BY <1>18 DEF HandlerStarts, shimVars
<1>19. ASSUME NEW c \in Calls, Update(c) PROVE TypeOK'
  <2>1. /\ frames' \in [Calls -> Seq(Responses \cup {"update"})]
        /\ \A d \in Calls : read[d] <= Len(frames'[d])
    BY <1>19, WriteType DEF Update
  <2> QED
    BY <1>19, <2>1 DEF Update, shimVars, pyVars
<1>20. ASSUME NEW c \in Calls, HandlerEnds(c) PROVE TypeOK'
  BY <1>20 DEF HandlerEnds, shimVars
<1>21. ASSUME PiExits PROVE TypeOK'
  BY <1>21 DEF PiExits, pyVars
<1>22. ASSUME Start \/ ServerStep \/ CloseTimesOut PROVE TypeOK'
  BY <1>22 DEF Start, ServerStep, CancelTasks, EndClose, CloseTimesOut, Tasks,
               shimVars, pyVars
<1>23. ASSUME BeginClose PROVE TypeOK'
  BY <1>23 DEF BeginClose, shimVars, pyVars
<1>24. ASSUME UNCHANGED vars PROVE TypeOK'
  BY <1>24 DEF vars, shimVars, pyVars
<1>30. ASSUME NEW c \in Calls, CancelHandled(c) PROVE TypeOK'
  BY <1>30 DEF CancelHandled, shimVars, pyVars
<1> HIDE DEF TypeOK, Responses
<1>25. ASSUME NEW c \in Calls, ShimStep(c) \/ TaskStep(c) PROVE TypeOK'
  BY <1>25, <1>2, <1>3, <1>5, <1>6, <1>8, <1>9, <1>10, <1>11, <1>12, <1>13,
     <1>14, <1>15, <1>16, <1>30 DEF ShimStep, TaskStep
<1> QED
  BY <1>1, <1>4, <1>7, <1>17, <1>18, <1>19, <1>20, <1>21, <1>22, <1>23, <1>24,
     <1>25 DEF Next

\* What is on the connection as a success was so before, or was just written.
LEMMA WriteOk ==
    ASSUME TypeOK, NEW c \in Calls, NEW f \in Responses \cup {"update"},
           Write(c, f), NEW d \in Calls, NEW i \in 1..Len(frames'[d]),
           frames'[d][i] = "ok"
    PROVE  \/ i \in 1..Len(frames[d]) /\ frames[d][i] = "ok"
           \/ d = c /\ f = "ok"
<1>1. CASE d # c
  BY <1>1, WriteType
<1>2. CASE d = c
  <2>1. i \in 1..(Len(frames[c]) + 1) /\ Len(frames[c]) \in Nat
    BY <1>2, WriteType
  <2>2. i \in 1..Len(frames[c]) \/ i = Len(frames[c]) + 1
    BY <2>1
  <2> QED
    BY <1>2, <2>2, WriteType
<1> QED
  BY <1>1, <1>2

\* A frame leaves the promise as it is or settles it, as the frame says.
LEMMA ReadFrameShim ==
    ASSUME TypeOK, NEW c \in Calls, ReadFrame(c)
    PROVE  /\ \A d \in Calls \ {c} : shim'[d] = shim[d]
           /\ shim'[c] \in {"waiting", "resolved", "rejected"}
           /\ shim'[c] = "resolved"
                => \E i \in 1..Len(frames[c]) : frames[c][i] = "ok"
<1>1. /\ frames[c] \in Seq(Responses \cup {"update"}) /\ read[c] \in Nat
      /\ shim[c] = "waiting" /\ read[c] < Len(frames[c])
      /\ shim \in [Calls -> {"idle", "connecting", "waiting", "resolved",
                             "rejected", "gone"}]
  BY DEF TypeOK, ReadFrame
<1>2. read[c] + 1 \in 1..Len(frames[c])
  BY <1>1
<1>3. PICK frame \in {"update", "ok", "error"} : frame = frames[c][read[c] + 1]
  BY <1>1, <1>2 DEF Responses
<1>4. CASE frame = "update"
  BY <1>1, <1>3, <1>4 DEF ReadFrame
<1>5. CASE frame = "ok"
  BY <1>1, <1>2, <1>3, <1>5 DEF ReadFrame, Settle
<1>6. CASE frame = "error"
  BY <1>1, <1>3, <1>6 DEF ReadFrame, Settle
<1> QED
  BY <1>4, <1>5, <1>6

\* A call is connected, accepted, read and handled in that order.
LEMMA StagesStep ==
    ASSUME TypeOK, StagesAgree, [Next]_vars
    PROVE  StagesAgree'
<1> USE DEF TypeOK, StagesAgree
<1>1. ASSUME NEW c \in Calls, Call(c) PROVE StagesAgree'
  BY <1>1 DEF Call, Settle, pyVars
<1>2. ASSUME NEW c \in Calls, Connect(c) PROVE StagesAgree'
  BY <1>2 DEF Connect, Settle, pyVars
<1>3. ASSUME NEW c \in Calls, SocketError(c) PROVE StagesAgree'
  BY <1>3 DEF SocketError, Settle, pyVars
<1>4. ASSUME NEW c \in Calls, GiveUp(c) PROVE StagesAgree'
  BY <1>4 DEF GiveUp, Settle, pyVars
<1>5. ASSUME NEW c \in Calls, ReadFrame(c) PROVE StagesAgree'
  <2>1. /\ \A d \in Calls \ {c} : shim'[d] = shim[d]
        /\ shim'[c] \in {"waiting", "resolved", "rejected"}
        /\ shim'[c] = "resolved"
             => \E i \in 1..Len(frames[c]) : frames[c][i] = "ok"
    BY <1>5, ReadFrameShim
  <2>2. UNCHANGED <<conn, frames, task, handler>>
    BY <1>5 DEF ReadFrame, pyVars
  <2>3. shim[c] = "waiting"
    BY <1>5 DEF ReadFrame
  <2> QED
    BY <2>1, <2>2, <2>3
<1>6. ASSUME NEW c \in Calls, SocketEnds(c) PROVE StagesAgree'
  BY <1>6 DEF SocketEnds, Settle, pyVars
<1>7. ASSUME NEW c \in Calls, Accept(c) PROVE StagesAgree'
  BY <1>7 DEF Accept, shimVars, pyVars
<1>8. ASSUME NEW c \in Calls, ReadRequest(c) PROVE StagesAgree'
  BY <1>8 DEF ReadRequest, shimVars
<1>9. ASSUME NEW c \in Calls, ReadFails(c) PROVE StagesAgree'
  BY <1>9 DEF ReadFails, CloseWriter, shimVars, pyVars
<1>10. ASSUME NEW c \in Calls, Respond(c) PROVE StagesAgree'
  BY <1>10 DEF Respond, shimVars, pyVars
<1>11. ASSUME NEW c \in Calls, Drained(c) PROVE StagesAgree'
  BY <1>11 DEF Drained, shimVars, pyVars
<1>12. ASSUME NEW c \in Calls, FinishCall(c) PROVE StagesAgree'
  BY <1>12 DEF FinishCall, CloseWriter, shimVars, pyVars
<1>13. ASSUME NEW c \in Calls, FinishNotify(c) PROVE StagesAgree'
  BY <1>13 DEF FinishNotify, shimVars, pyVars
<1>14. ASSUME NEW c \in Calls, CancelReading(c) PROVE StagesAgree'
  BY <1>14 DEF CancelReading, CloseWriter, shimVars, pyVars
<1>15. ASSUME NEW c \in Calls, CancelExecute(c) PROVE StagesAgree'
  <2>1. PICK h \in Leftover(c) : handler' = [handler EXCEPT ![c] = h]
    BY <1>15 DEF CancelExecute
  <2> QED
    BY <1>15, <2>1 DEF CancelExecute, shimVars
<1>16. ASSUME NEW c \in Calls, CancelEvent(c) PROVE StagesAgree'
  <2>1. PICK h \in Leftover(c) : handler' = [handler EXCEPT ![c] = h]
    BY <1>16 DEF CancelEvent
  <2> QED
    BY <1>16, <2>1 DEF CancelEvent, CloseWriter, shimVars
<1>17. ASSUME NEW c \in Calls, SeeDisconnect(c) PROVE StagesAgree'
  BY <1>17 DEF SeeDisconnect, shimVars
<1>18. ASSUME NEW c \in Calls, HandlerStarts(c) PROVE StagesAgree'
  BY <1>18 DEF HandlerStarts, shimVars
<1>19. ASSUME NEW c \in Calls, Update(c) PROVE StagesAgree'
  BY <1>19 DEF Update, shimVars, pyVars
<1>20. ASSUME NEW c \in Calls, HandlerEnds(c) PROVE StagesAgree'
  BY <1>20 DEF HandlerEnds, shimVars
<1>21. ASSUME PiExits PROVE StagesAgree'
  BY <1>21 DEF PiExits, pyVars
<1>22. ASSUME Start PROVE StagesAgree'
  BY <1>22 DEF Start, shimVars, pyVars
<1>23. ASSUME CancelTasks PROVE StagesAgree'
  BY <1>23 DEF CancelTasks, shimVars, pyVars
<1>24. ASSUME EndClose PROVE StagesAgree'
  BY <1>24 DEF EndClose, shimVars, pyVars
<1>25. ASSUME CloseTimesOut PROVE StagesAgree'
  BY <1>25 DEF CloseTimesOut, shimVars, pyVars
<1>26. ASSUME BeginClose PROVE StagesAgree'
  BY <1>26 DEF BeginClose, shimVars, pyVars
<1>27. ASSUME UNCHANGED vars PROVE StagesAgree'
  BY <1>27 DEF vars, shimVars, pyVars
<1>30. ASSUME NEW c \in Calls, CancelHandled(c) PROVE StagesAgree'
  BY <1>30 DEF CancelHandled, shimVars, pyVars
<1> HIDE DEF TypeOK, StagesAgree
<1>28. ASSUME NEW c \in Calls, ShimStep(c) \/ TaskStep(c) PROVE StagesAgree'
  BY <1>28, <1>2, <1>3, <1>5, <1>6, <1>8, <1>9, <1>10, <1>11, <1>12, <1>13,
     <1>14, <1>15, <1>16, <1>30
     DEF ShimStep, TaskStep
<1> QED
  BY <1>1, <1>4, <1>7, <1>17, <1>18, <1>19, <1>20, <1>21, <1>22, <1>23,
     <1>24, <1>25, <1>26, <1>27, <1>28
     DEF Next, ServerStep

\* A success is written only of what returned a value, which stays so.
LEMMA OkStep ==
    ASSUME TypeOK, StagesAgree, OkIsReturned, [Next]_vars
    PROVE  OkIsReturned'
<1> USE DEF TypeOK, StagesAgree, OkIsReturned
<1>1. ASSUME NEW c \in Calls, Call(c) PROVE OkIsReturned'
  BY <1>1 DEF Call, Settle, pyVars
<1>2. ASSUME NEW c \in Calls, Connect(c) PROVE OkIsReturned'
  BY <1>2 DEF Connect, Settle, pyVars
<1>3. ASSUME NEW c \in Calls, SocketError(c) PROVE OkIsReturned'
  BY <1>3 DEF SocketError, Settle, pyVars
<1>4. ASSUME NEW c \in Calls, GiveUp(c) PROVE OkIsReturned'
  BY <1>4 DEF GiveUp, Settle, pyVars
<1>5. ASSUME NEW c \in Calls, ReadFrame(c) PROVE OkIsReturned'
  BY <1>5 DEF ReadFrame, Settle, pyVars
<1>6. ASSUME NEW c \in Calls, SocketEnds(c) PROVE OkIsReturned'
  BY <1>6 DEF SocketEnds, Settle, pyVars
<1>7. ASSUME NEW c \in Calls, Accept(c) PROVE OkIsReturned'
  BY <1>7 DEF Accept, shimVars, pyVars
<1>8. ASSUME NEW c \in Calls, ReadRequest(c) PROVE OkIsReturned'
  BY <1>8 DEF ReadRequest, shimVars
<1>9. ASSUME NEW c \in Calls, ReadFails(c) PROVE OkIsReturned'
  BY <1>9 DEF ReadFails, CloseWriter, shimVars, pyVars
<1>10. ASSUME NEW c \in Calls, Respond(c) PROVE OkIsReturned'
  <2>1. PICK f \in Responses : Write(c, f) /\ (f = "ok" => handler[c] = "value")
    BY <1>10 DEF Respond, Responses
  <2> QED
    BY <1>10, <2>1, WriteOk DEF Respond, pyVars
<1>11. ASSUME NEW c \in Calls, Drained(c) PROVE OkIsReturned'
  BY <1>11 DEF Drained, shimVars, pyVars
<1>12. ASSUME NEW c \in Calls, FinishCall(c) PROVE OkIsReturned'
  BY <1>12 DEF FinishCall, CloseWriter, shimVars, pyVars
<1>13. ASSUME NEW c \in Calls, FinishNotify(c) PROVE OkIsReturned'
  BY <1>13 DEF FinishNotify, shimVars, pyVars
<1>14. ASSUME NEW c \in Calls, CancelReading(c) PROVE OkIsReturned'
  BY <1>14 DEF CancelReading, CloseWriter, shimVars, pyVars
<1>15. ASSUME NEW c \in Calls, CancelExecute(c) PROVE OkIsReturned'
  <2>1. PICK h \in Leftover(c) : handler' = [handler EXCEPT ![c] = h]
    BY <1>15 DEF CancelExecute
  <2>2. handler[c] = "value" => h = "value"
    BY LeftoverType
  <2>3. Write(c, "error") /\ "error" \in Responses
    BY <1>15 DEF CancelExecute, Responses
  <2>4. \A d \in Calls : \A i \in 1..Len(frames'[d]) :
          frames'[d][i] = "ok" => i \in 1..Len(frames[d]) /\ frames[d][i] = "ok"
    BY <2>3, WriteOk
  <2> QED
    BY <2>1, <2>2, <2>4
<1>16. ASSUME NEW c \in Calls, CancelEvent(c) PROVE OkIsReturned'
  <2>1. PICK h \in Leftover(c) : handler' = [handler EXCEPT ![c] = h]
    BY <1>16 DEF CancelEvent
  <2>2. handler[c] = "value" => h = "value"
    BY LeftoverType
  <2> QED
    BY <1>16, <2>1, <2>2 DEF CancelEvent
<1>17. ASSUME NEW c \in Calls, SeeDisconnect(c) PROVE OkIsReturned'
  BY <1>17 DEF SeeDisconnect, shimVars
<1>18. ASSUME NEW c \in Calls, HandlerStarts(c) PROVE OkIsReturned'
  BY <1>18 DEF HandlerStarts, shimVars
<1>19. ASSUME NEW c \in Calls, Update(c) PROVE OkIsReturned'
  <2>1. Write(c, "update")
    BY <1>19 DEF Update
  <2> QED
    BY <1>19, <2>1, WriteOk DEF Update, pyVars
<1>20. ASSUME NEW c \in Calls, HandlerEnds(c) PROVE OkIsReturned'
  BY <1>20 DEF HandlerEnds, shimVars
<1>21. ASSUME PiExits PROVE OkIsReturned'
  BY <1>21 DEF PiExits, pyVars
<1>22. ASSUME Start PROVE OkIsReturned'
  BY <1>22 DEF Start, shimVars, pyVars
<1>23. ASSUME CancelTasks PROVE OkIsReturned'
  BY <1>23 DEF CancelTasks, shimVars, pyVars
<1>24. ASSUME EndClose PROVE OkIsReturned'
  BY <1>24 DEF EndClose, shimVars, pyVars
<1>25. ASSUME CloseTimesOut PROVE OkIsReturned'
  BY <1>25 DEF CloseTimesOut, shimVars, pyVars
<1>26. ASSUME BeginClose PROVE OkIsReturned'
  BY <1>26 DEF BeginClose, shimVars, pyVars
<1>27. ASSUME UNCHANGED vars PROVE OkIsReturned'
  BY <1>27 DEF vars, shimVars, pyVars
<1>30. ASSUME NEW c \in Calls, CancelHandled(c) PROVE OkIsReturned'
  BY <1>30 DEF CancelHandled, shimVars, pyVars
<1> HIDE DEF TypeOK, StagesAgree, OkIsReturned
<1>28. ASSUME NEW c \in Calls, ShimStep(c) \/ TaskStep(c) PROVE OkIsReturned'
  BY <1>28, <1>2, <1>3, <1>5, <1>6, <1>8, <1>9, <1>10, <1>11, <1>12, <1>13,
     <1>14, <1>15, <1>16, <1>30
     DEF ShimStep, TaskStep
<1> QED
  BY <1>1, <1>4, <1>7, <1>17, <1>18, <1>19, <1>20, <1>21, <1>22, <1>23,
     <1>24, <1>25, <1>26, <1>27, <1>28
     DEF Next, ServerStep

\* The task of a decision writes one response, and watches only before.
LEMMA DecisionsStep ==
    ASSUME TypeOK, StagesAgree, DecisionsUnanswered, OneResponse, [Next]_vars
    PROVE  (DecisionsUnanswered /\ OneResponse)'
<1> DEFINE Goal == (DecisionsUnanswered /\ OneResponse)'
<1> USE DEF TypeOK, StagesAgree, DecisionsUnanswered, OneResponse
<1>1. ASSUME NEW c \in Calls, Call(c) PROVE Goal
  BY <1>1 DEF Call, Settle, pyVars
<1>2. ASSUME NEW c \in Calls, Connect(c) PROVE Goal
  BY <1>2 DEF Connect, Settle, pyVars
<1>3. ASSUME NEW c \in Calls, SocketError(c) PROVE Goal
  BY <1>3 DEF SocketError, Settle, pyVars
<1>4. ASSUME NEW c \in Calls, GiveUp(c) PROVE Goal
  BY <1>4 DEF GiveUp, Settle, pyVars
<1>5. ASSUME NEW c \in Calls, ReadFrame(c) PROVE Goal
  BY <1>5 DEF ReadFrame, Settle, pyVars
<1>6. ASSUME NEW c \in Calls, SocketEnds(c) PROVE Goal
  BY <1>6 DEF SocketEnds, Settle, pyVars
<1>7. ASSUME NEW c \in Calls, Accept(c) PROVE Goal
  BY <1>7 DEF Accept, shimVars, pyVars
<1>8. ASSUME NEW c \in Calls, ReadRequest(c) PROVE Goal
  BY <1>8 DEF ReadRequest, shimVars
<1>9. ASSUME NEW c \in Calls, ReadFails(c) PROVE Goal
  BY <1>9 DEF ReadFails, CloseWriter, shimVars, pyVars
<1>10. ASSUME NEW c \in Calls, Respond(c) PROVE Goal
  <2>1. PICK f \in Responses : Write(c, f)
    BY <1>10 DEF Respond, Responses
  <2>2. /\ Len(frames'[c]) = Len(frames[c]) + 1
        /\ \A d \in Calls \ {c} : frames'[d] = frames[d]
    BY <2>1, WriteType
  <2>3. \A d \in Calls \ {c} : task'[d] = task[d] /\ (d \in watching' => d \in watching)
    BY <1>10 DEF Respond
  <2>4. task'[c] \in {"drain", "finish"} /\ (c \in Decisions => c \notin watching')
    BY <1>10 DEF Respond
  <2>5. c \in Decisions => Len(frames[c]) = 0
    BY <1>10 DEF Respond
  <2> QED
    <3>1. \A d \in Decisions : d \in Calls /\ Len(frames[d]) <= 1
      BY DEF Calls
    <3>2. ASSUME NEW d \in Decisions, d = c
          PROVE  Len(frames'[d]) <= 1 /\ task'[d] \in {"drain", "finish"}
                 /\ d \notin watching'
      BY <3>2, <2>2, <2>4, <2>5
    <3>3. ASSUME NEW d \in Decisions, d # c
          PROVE  frames'[d] = frames[d] /\ task'[d] = task[d]
                 /\ (d \in watching' => d \in watching)
      BY <3>1, <3>3, <2>2, <2>3
    <3> QED
      BY <3>1, <3>2, <3>3
<1>11. ASSUME NEW c \in Calls, Drained(c) PROVE Goal
  BY <1>11 DEF Drained, shimVars, pyVars
<1>12. ASSUME NEW c \in Calls, FinishCall(c) PROVE Goal
  BY <1>12 DEF FinishCall, CloseWriter, shimVars, pyVars
<1>13. ASSUME NEW c \in Calls, FinishNotify(c) PROVE Goal
  BY <1>13 DEF FinishNotify, shimVars, pyVars
<1>14. ASSUME NEW c \in Calls, CancelReading(c) PROVE Goal
  BY <1>14 DEF CancelReading, CloseWriter, shimVars, pyVars
<1>15. ASSUME NEW c \in Calls, CancelExecute(c) PROVE Goal
  <2>1. \A d \in Decisions : frames'[d] = frames[d] /\ task'[d] = task[d]
    BY <1>15, BridgeAssumption DEF CancelExecute, Write, Calls
  <2> QED
    BY <1>15, <2>1 DEF CancelExecute, Calls
<1>16. ASSUME NEW c \in Calls, CancelEvent(c) PROVE Goal
  BY <1>16 DEF CancelEvent, CloseWriter, shimVars
<1>17. ASSUME NEW c \in Calls, SeeDisconnect(c) PROVE Goal
  BY <1>17 DEF SeeDisconnect, shimVars
<1>18. ASSUME NEW c \in Calls, HandlerStarts(c) PROVE Goal
  BY <1>18 DEF HandlerStarts, shimVars
<1>19. ASSUME NEW c \in Calls, Update(c) PROVE Goal
  <2>1. \A d \in Decisions : frames'[d] = frames[d]
    BY <1>19, BridgeAssumption DEF Update, Write, Calls
  <2> QED
    BY <1>19, <2>1 DEF Update, pyVars, Calls
<1>20. ASSUME NEW c \in Calls, HandlerEnds(c) PROVE Goal
  BY <1>20 DEF HandlerEnds, shimVars
<1>21. ASSUME PiExits PROVE Goal
  BY <1>21 DEF PiExits, pyVars
<1>22. ASSUME Start PROVE Goal
  BY <1>22 DEF Start, shimVars, pyVars
<1>23. ASSUME CancelTasks PROVE Goal
  BY <1>23 DEF CancelTasks, shimVars, pyVars
<1>24. ASSUME EndClose PROVE Goal
  BY <1>24 DEF EndClose, shimVars, pyVars
<1>25. ASSUME CloseTimesOut PROVE Goal
  BY <1>25 DEF CloseTimesOut, shimVars, pyVars
<1>26. ASSUME BeginClose PROVE Goal
  BY <1>26 DEF BeginClose, shimVars, pyVars
<1>27. ASSUME UNCHANGED vars PROVE Goal
  BY <1>27 DEF vars, shimVars, pyVars
<1>30. ASSUME NEW c \in Calls, CancelHandled(c) PROVE Goal
  BY <1>30 DEF CancelHandled, shimVars, pyVars
<1> HIDE DEF TypeOK, StagesAgree, DecisionsUnanswered, OneResponse
<1>28. ASSUME NEW c \in Calls, ShimStep(c) \/ TaskStep(c) PROVE Goal
  BY <1>28, <1>2, <1>3, <1>5, <1>6, <1>8, <1>9, <1>10, <1>11, <1>12, <1>13,
     <1>14, <1>15, <1>16, <1>30
     DEF ShimStep, TaskStep
<1> QED
  BY <1>1, <1>4, <1>7, <1>17, <1>18, <1>19, <1>20, <1>21, <1>22, <1>23,
     <1>24, <1>25, <1>26, <1>27, <1>28
     DEF Next, ServerStep

\* A promise resolves on a success that was written.
LEMMA ResolvedStep ==
    ASSUME TypeOK, StagesAgree, OkIsReturned, ResolvedIsReturned, [Next]_vars
    PROVE  ResolvedIsReturned'
<1> USE DEF TypeOK, StagesAgree, OkIsReturned, ResolvedIsReturned
<1>1. ASSUME NEW c \in Calls, Call(c) PROVE ResolvedIsReturned'
  BY <1>1 DEF Call, Settle, pyVars
<1>2. ASSUME NEW c \in Calls, Connect(c) PROVE ResolvedIsReturned'
  BY <1>2 DEF Connect, Settle, pyVars
<1>3. ASSUME NEW c \in Calls, SocketError(c) PROVE ResolvedIsReturned'
  BY <1>3 DEF SocketError, Settle, pyVars
<1>4. ASSUME NEW c \in Calls, GiveUp(c) PROVE ResolvedIsReturned'
  BY <1>4 DEF GiveUp, Settle, pyVars
<1>5. ASSUME NEW c \in Calls, ReadFrame(c) PROVE ResolvedIsReturned'
  <2>1. /\ \A d \in Calls \ {c} : shim'[d] = shim[d]
        /\ shim'[c] \in {"waiting", "resolved", "rejected"}
        /\ shim'[c] = "resolved"
             => \E i \in 1..Len(frames[c]) : frames[c][i] = "ok"
    BY <1>5, ReadFrameShim
  <2>2. UNCHANGED <<conn, frames, task, handler>>
    BY <1>5 DEF ReadFrame, pyVars
  <2>3. shim[c] = "waiting"
    BY <1>5 DEF ReadFrame
  <2> QED
    BY <2>1, <2>2, <2>3
<1>6. ASSUME NEW c \in Calls, SocketEnds(c) PROVE ResolvedIsReturned'
  BY <1>6 DEF SocketEnds, Settle, pyVars
<1>7. ASSUME NEW c \in Calls, Accept(c) PROVE ResolvedIsReturned'
  BY <1>7 DEF Accept, shimVars, pyVars
<1>8. ASSUME NEW c \in Calls, ReadRequest(c) PROVE ResolvedIsReturned'
  BY <1>8 DEF ReadRequest, shimVars
<1>9. ASSUME NEW c \in Calls, ReadFails(c) PROVE ResolvedIsReturned'
  BY <1>9 DEF ReadFails, CloseWriter, shimVars, pyVars
<1>10. ASSUME NEW c \in Calls, Respond(c) PROVE ResolvedIsReturned'
  BY <1>10 DEF Respond, shimVars, pyVars
<1>11. ASSUME NEW c \in Calls, Drained(c) PROVE ResolvedIsReturned'
  BY <1>11 DEF Drained, shimVars, pyVars
<1>12. ASSUME NEW c \in Calls, FinishCall(c) PROVE ResolvedIsReturned'
  BY <1>12 DEF FinishCall, CloseWriter, shimVars, pyVars
<1>13. ASSUME NEW c \in Calls, FinishNotify(c) PROVE ResolvedIsReturned'
  BY <1>13 DEF FinishNotify, shimVars, pyVars
<1>14. ASSUME NEW c \in Calls, CancelReading(c) PROVE ResolvedIsReturned'
  BY <1>14 DEF CancelReading, CloseWriter, shimVars, pyVars
<1>15. ASSUME NEW c \in Calls, CancelExecute(c) PROVE ResolvedIsReturned'
  <2>1. PICK h \in Leftover(c) : handler' = [handler EXCEPT ![c] = h]
    BY <1>15 DEF CancelExecute
  <2>2. handler[c] = "value" => h = "value"
    BY LeftoverType
  <2> QED
    BY <1>15, <2>1, <2>2 DEF CancelExecute, shimVars
<1>16. ASSUME NEW c \in Calls, CancelEvent(c) PROVE ResolvedIsReturned'
  <2>1. PICK h \in Leftover(c) : handler' = [handler EXCEPT ![c] = h]
    BY <1>16 DEF CancelEvent
  <2>2. handler[c] = "value" => h = "value"
    BY LeftoverType
  <2> QED
    BY <1>16, <2>1, <2>2 DEF CancelEvent, shimVars
<1>17. ASSUME NEW c \in Calls, SeeDisconnect(c) PROVE ResolvedIsReturned'
  BY <1>17 DEF SeeDisconnect, shimVars
<1>18. ASSUME NEW c \in Calls, HandlerStarts(c) PROVE ResolvedIsReturned'
  BY <1>18 DEF HandlerStarts, shimVars
<1>19. ASSUME NEW c \in Calls, Update(c) PROVE ResolvedIsReturned'
  BY <1>19 DEF Update, shimVars, pyVars
<1>20. ASSUME NEW c \in Calls, HandlerEnds(c) PROVE ResolvedIsReturned'
  BY <1>20 DEF HandlerEnds, shimVars
<1>21. ASSUME PiExits PROVE ResolvedIsReturned'
  BY <1>21 DEF PiExits, pyVars
<1>22. ASSUME Start PROVE ResolvedIsReturned'
  BY <1>22 DEF Start, shimVars, pyVars
<1>23. ASSUME CancelTasks PROVE ResolvedIsReturned'
  BY <1>23 DEF CancelTasks, shimVars, pyVars
<1>24. ASSUME EndClose PROVE ResolvedIsReturned'
  BY <1>24 DEF EndClose, shimVars, pyVars
<1>25. ASSUME CloseTimesOut PROVE ResolvedIsReturned'
  BY <1>25 DEF CloseTimesOut, shimVars, pyVars
<1>26. ASSUME BeginClose PROVE ResolvedIsReturned'
  BY <1>26 DEF BeginClose, shimVars, pyVars
<1>27. ASSUME UNCHANGED vars PROVE ResolvedIsReturned'
  BY <1>27 DEF vars, shimVars, pyVars
<1>30. ASSUME NEW c \in Calls, CancelHandled(c) PROVE ResolvedIsReturned'
  BY <1>30 DEF CancelHandled, shimVars, pyVars
<1> HIDE DEF TypeOK, StagesAgree, OkIsReturned, ResolvedIsReturned
<1>28. ASSUME NEW c \in Calls, ShimStep(c) \/ TaskStep(c) PROVE ResolvedIsReturned'
  BY <1>28, <1>2, <1>3, <1>5, <1>6, <1>8, <1>9, <1>10, <1>11, <1>12, <1>13,
     <1>14, <1>15, <1>16, <1>30
     DEF ShimStep, TaskStep
<1> QED
  BY <1>1, <1>4, <1>7, <1>17, <1>18, <1>19, <1>20, <1>21, <1>22, <1>23,
     <1>24, <1>25, <1>26, <1>27, <1>28
     DEF Next, ServerStep

-----------------------------------------------------------------------------
\* The initial states have every part of the invariant.
LEMMA InitInv == Init => BridgeInv
  BY DEF Init, BridgeInv, TypeOK, StagesAgree, OkIsReturned,
         DecisionsUnanswered, OneResponse, ResolvedIsReturned, Calls, Responses

\* The parts of the invariant, taken together, are inductive.
LEMMA InvStep == BridgeInv /\ [Next]_vars => BridgeInv'
  BY TypeStep, StagesStep, OkStep, DecisionsStep, ResolvedStep DEF BridgeInv

\* A call pi sees succeed is one whose tool or hook returned a value: no
\* cancelled, dropped or still running code is taken for a success, through
\* timeouts, disconnects, the end of pi and a close() of the server.
THEOREM BridgeCorrect == Spec => []BridgeInv
<1>1. Init => BridgeInv
  BY InitInv
<1>2. BridgeInv /\ [Next]_vars => BridgeInv'
  BY InvStep
<1> QED
  BY <1>1, <1>2, PTL DEF Spec

\* F13: ctx.cancelled of a decision flips only because pi hung up, and never
\* once the decision was answered (server.py:239-258).
THEOREM NoLateCancel == Spec => CancelNotAfterTheFact
<1> DEFINE Flips == \A c \in Decisions :
             flag'[c] /\ ~flag[c] =>
               /\ HungUp(c)
               /\ \A i \in 1..Len(frames'[c]) : frames'[c][i] = "update"
<1>1. BridgeInv /\ [Next]_vars => [Flips]_vars
  <2> SUFFICES ASSUME BridgeInv, Next, NEW d \in Decisions,
                      flag'[d], ~flag[d]
               PROVE  /\ HungUp(d)
                      /\ \A i \in 1..Len(frames'[d]) : frames'[d][i] = "update"
    OBVIOUS
  <2>1. d \in Calls /\ d \notin Executes /\ d \notin Notifies
    BY BridgeAssumption DEF Calls
  <2>2. flag # flag' /\ flag \in [Calls -> BOOLEAN]
    BY DEF BridgeInv, TypeOK
  <2>3. PICK c \in Calls : SeeDisconnect(c) \/ CancelExecute(c)
    BY <2>2 DEF Next, Call, GiveUp, ShimStep, Connect, SocketError, ReadFrame,
         SocketEnds, Accept, TaskStep, ReadRequest, ReadFails, Respond, Drained,
         FinishCall, FinishNotify, CancelReading, CancelEvent, CancelHandled,
         HandlerStarts, Update, HandlerEnds, PiExits, Start, BeginClose, ServerStep,
         CancelTasks, EndClose, CloseTimesOut, pyVars
  <2>4. SeeDisconnect(d)
    BY <2>1, <2>2, <2>3 DEF SeeDisconnect, CancelExecute
  <2>5. task[d] = "handling"
    BY <2>4 DEF SeeDisconnect, BridgeInv, DecisionsUnanswered
  <2>6. conn[d] = "open" /\ Len(frames[d]) = 0
    BY <2>1, <2>5 DEF BridgeInv, StagesAgree, DecisionsUnanswered
  <2> QED
    BY <2>4, <2>6 DEF SeeDisconnect
<1> QED
  BY <1>1, BridgeCorrect, PTL DEF Spec, CancelNotAfterTheFact
=============================================================================
