--------------------------- MODULE GatewayAnswers ---------------------------
(***************************************************************************)
(* The gateway whose response task waits for its clients: after an event   *)
(* is handled, handle_engine_responses sends it to one client or, a fill,  *)
(* to two, and awaits a place in their bounded channels before it takes    *)
(* the next event.  Which client it waits for is left open (module         *)
(* ClientChannels has the channels).  Everything else is Gateway: without  *)
(* `waiting' the behaviours are the same, those in which nothing meets a   *)
(* full channel being all of Gateway's.                                    *)
(***************************************************************************)
EXTENDS Gateway

VARIABLE waiting    \* will the event in hand meet a full channel, or does it wait at one?

answerVars == <<vars, waiting>>

AnswersInit == Init /\ waiting = FALSE

\* The next event is taken when the one before has been sent.
TakeEvent ==
    /\ ~waiting
    /\ todo = <<>>
    /\ OnFill \/ OnAck \/ OnReject
    /\ waiting' \in BOOLEAN

\* A client makes room: it reads, or it leaves and its channel is closed.
ClientReads ==
    /\ waiting
    /\ todo = <<>>
    /\ waiting' = FALSE
    /\ UNCHANGED vars

ClientStep(c) == Authenticate(c) \/ Disconnect(c) \/ ReadCommand(c)

AnswersNext ==
    \/ \E c \in Conns : ClientStep(c) /\ UNCHANGED waiting
    \/ \E c \in Conns : HandleCommand(c) /\ UNCHANGED waiting
    \/ TakeEvent
    \/ Respond /\ UNCHANGED waiting
    \/ ClientReads
    \/ (EngineReceives \/ EngineStep) /\ UNCHANGED waiting

AnswersSpec == AnswersInit /\ [][AnswersNext]_answerVars

\* Every task that has work is scheduled: the tokio runtime polls a woken task, the engine
\* thread spins on its channel.
TasksRun ==
    /\ \A c \in Conns : WF_answerVars(HandleCommand(c) /\ UNCHANGED waiting)
    /\ WF_answerVars(TakeEvent)
    /\ WF_answerVars(Respond /\ UNCHANGED waiting)
    /\ WF_answerVars(EngineReceives /\ UNCHANGED waiting)
    /\ WF_answerVars(EngineStep /\ UNCHANGED waiting)

\* What the code does not enforce: a client the response task waits for reads or leaves.
ClientsRead == WF_answerVars(ClientReads)

TasksSpec == AnswersSpec /\ TasksRun
FairSpec == TasksSpec /\ ClientsRead

-----------------------------------------------------------------------------
(* Properties *)

Cancelling(i) == pending_orders[i] # Nil /\ pending_orders[i].operation = "CancelPending"

\* "Cancel sent, waiting for ack": the wait ends, through fills, replaces, colliding ids,
\* disconnects, routing failures and full client channels.
CancelResolved == \A i \in Ids : Cancelling(i) ~> ~Cancelling(i)
=============================================================================
