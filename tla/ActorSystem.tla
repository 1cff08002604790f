---------------------------- MODULE ActorSystem ----------------------------
(***************************************************************************)
(* Mailboxes, asks and shutdown of the actor crate (mailbox.rs, addr.rs,   *)
(* system.rs, runtime.rs).  An actor is a task that takes envelopes from a *)
(* bounded channel; System is itself an actor that keeps the registry, and *)
(* shutdown asks it to stop everything it knows of and waits for all of it.*)
(*                                                                         *)
(* Handlers are opaque: a handler returns, perhaps after asking one other  *)
(* actor (Downstream) and awaiting the answer.  An actor holds a sender of *)
(* its own channel in its Context, so recv() never sees the channel closed *)
(* while the actor runs.                                                   *)
(***************************************************************************)
EXTENDS Naturals, Sequences, FiniteSets

CONSTANTS
    Actor,          \* the actors that tasks spawn
    Caller,         \* tasks outside the actors, each of which asks once
    Nobody,         \* not an actor
    Downstream,     \* the actor each actor's handlers ask, or Nobody
    MailboxCapacity, \* the capacity of an actor's channel
    SystemCapacity, \* the capacity of the system actor's channel
    MaxSends        \* bound: the fire-and-forget messages sent

ASSUME ActorAssumption ==
    /\ Nobody \notin Actor /\ Downstream \in [Actor -> Actor \cup {Nobody}]
    /\ Actor \cap Caller = {}
    /\ MailboxCapacity \in Nat \ {0} /\ SystemCapacity \in Nat \ {0} /\ MaxSends \in Nat

VARIABLES
    phase,          \* where each actor's run_mailbox is
    mailbox,        \* each actor's channel: the envelopes in it
    current,        \* the envelope an actor works on
    stop,           \* each actor's stop flag
    reply,          \* what became of the ask each task has made
    sysMailbox,     \* the system actor's channel
    entries,        \* SystemActor: entries
    stopping,       \* the Shutdown handler: the entries it still has to stop
    doneRxs,        \* the done receivers shutdown awaits
    shutdown,       \* where System::shutdown is
    counted,        \* the actors registered before Shutdown
    sends           \* how many messages have been sent

actorVars ==
    <<phase, mailbox, current, stop, reply, sysMailbox, entries, stopping, doneRxs, shutdown,
      counted, sends>>

\* Envelopes: a message nobody waits for, the no-op that wakes a mailbox, a question.
Noop == [kind |-> "noop", from |-> Nobody]
Tell == [kind |-> "send", from |-> Nobody]
Question(t) == [kind |-> "ask", from |-> t]

ActorInit ==
    /\ phase = [a \in Actor |-> "unborn"]
    /\ mailbox = [a \in Actor |-> << >>]
    /\ current = [a \in Actor |-> Noop]
    /\ stop = [a \in Actor |-> FALSE]
    /\ reply = [t \in Actor \cup Caller |-> "none"]
    /\ sysMailbox = << >> /\ entries = << >> /\ stopping = << >>
    /\ doneRxs = {} /\ shutdown = "none" /\ counted = {}
    /\ sends = 0

-----------------------------------------------------------------------------
(* Sending.  Sender::send is try_send: it fails when the channel is full   *)
(* or closed, and the envelope is dropped.                                 *)

Open(a) == phase[a] \notin {"unborn", "done"} /\ Len(mailbox[a]) < MailboxCapacity

Posted(a, e) == IF Open(a) THEN [mailbox EXCEPT ![a] = Append(@, e)] ELSE mailbox

Send(a) ==
    /\ phase[a] # "unborn" /\ sends < MaxSends
    /\ mailbox' = Posted(a, Tell)
    /\ sends' = sends + 1
    /\ UNCHANGED <<phase, current, stop, reply, sysMailbox, entries, stopping, doneRxs, shutdown,
                   counted>>

\* Addr::ask: a refused question is an error at once (AskError::Closed).
AskOf(t, a) ==
    /\ mailbox' = Posted(a, Question(t))
    /\ reply' = [reply EXCEPT ![t] = IF Open(a) THEN "pending" ELSE "error"]

CallerAsks(c, a) ==
    /\ reply[c] = "none" /\ phase[a] # "unborn"
    /\ AskOf(c, a)
    /\ UNCHANGED <<phase, current, stop, sysMailbox, entries, stopping, doneRxs, shutdown, counted,
                   sends>>

-----------------------------------------------------------------------------
(* run_mailbox.                                                            *)

\* rx.recv().await, or try_recv() of the drain loop, gives an envelope.
Take(a) ==
    /\ phase[a] \in {"recv", "drain"} /\ mailbox[a] # << >>
    /\ current' = [current EXCEPT ![a] = Head(mailbox[a])]
    /\ mailbox' = [mailbox EXCEPT ![a] = Tail(@)]
    /\ phase' = [phase EXCEPT ![a] = "handling"]
    /\ UNCHANGED <<stop, reply, sysMailbox, entries, stopping, doneRxs, shutdown, counted, sends>>

\* The handler asks the actor downstream and awaits the answer.
HandlerAsks(a) ==
    /\ phase[a] = "handling" /\ current[a] # Noop
    /\ Downstream[a] # Nobody /\ phase[Downstream[a]] # "unborn"
    /\ AskOf(a, Downstream[a])
    /\ phase' = [phase EXCEPT ![a] = "awaiting"]
    /\ UNCHANGED <<current, stop, sysMailbox, entries, stopping, doneRxs, shutdown, counted, sends>>

\* The handler returns; envelope_ask sends its result to whoever asked.
HandlerReturns(a) ==
    /\ \/ phase[a] = "handling"
       \/ phase[a] = "awaiting" /\ reply[a] # "pending"
    /\ reply' = IF current[a].kind = "ask" THEN [reply EXCEPT ![current[a].from] = "answered"]
                ELSE reply
    /\ phase' = [phase EXCEPT ![a] = "drain"]
    /\ UNCHANGED <<mailbox, current, stop, sysMailbox, entries, stopping, doneRxs, shutdown,
                   counted, sends>>

\* try_recv() finds nothing: actor.idle() runs.
Drained(a) ==
    /\ phase[a] = "drain" /\ mailbox[a] = << >>
    /\ phase' = [phase EXCEPT ![a] = "idle"]
    /\ UNCHANGED <<mailbox, current, stop, reply, sysMailbox, entries, stopping, doneRxs, shutdown,
                   counted, sends>>

\* The stop flag decides whether the loop goes on.
CheckStop(a) ==
    /\ phase[a] = "idle"
    /\ phase' = [phase EXCEPT ![a] = IF stop[a] THEN "stopped" ELSE "recv"]
    /\ UNCHANGED <<mailbox, current, stop, reply, sysMailbox, entries, stopping, doneRxs, shutdown,
                   counted, sends>>

\* Mutant: the loop ends but something still holds the receiver.
DoneKeepsReceiver(a) ==
    /\ phase[a] = "stopped"
    /\ phase' = [phase EXCEPT ![a] = "done"]
    /\ UNCHANGED <<mailbox, current, stop, reply, sysMailbox, entries, stopping, doneRxs, shutdown,
                   counted, sends>>

\* done.send(()), and the receiver goes, with every envelope still in it: whoever
\* waits for an answer to one of them gets AskError::NoResponse.
Done(a) ==
    /\ phase[a] = "stopped"
    /\ phase' = [phase EXCEPT ![a] = "done"]
    /\ LET dropped == {mailbox[a][i] : i \in DOMAIN mailbox[a]}
       IN  reply' = [t \in DOMAIN reply |-> IF Question(t) \in dropped THEN "error" ELSE reply[t]]
    /\ mailbox' = [mailbox EXCEPT ![a] = << >>]
    /\ UNCHANGED <<current, stop, sysMailbox, entries, stopping, doneRxs, shutdown, counted, sends>>

-----------------------------------------------------------------------------
(* The system actor.                                                       *)

\* spawn_with_capacity: the task starts, and Register is sent without looking at
\* whether it was accepted.
SpawnActor(a) ==
    /\ phase[a] = "unborn"
    /\ phase' = [phase EXCEPT ![a] = "recv"]
    /\ LET accepted == Len(sysMailbox) < SystemCapacity
       IN  /\ sysMailbox' = IF accepted THEN Append(sysMailbox, a) ELSE sysMailbox
           /\ counted' = IF accepted /\ shutdown = "none" THEN counted \cup {a} ELSE counted
    /\ UNCHANGED <<mailbox, current, stop, reply, entries, stopping, doneRxs, shutdown, sends>>

\* System::shutdown asks the system actor; when the question is refused it returns.
CallShutdown ==
    /\ shutdown = "none"
    /\ IF Len(sysMailbox) < SystemCapacity
       THEN sysMailbox' = Append(sysMailbox, Nobody) /\ shutdown' = "asked"
       ELSE shutdown' = "refused" /\ UNCHANGED sysMailbox
    /\ UNCHANGED <<phase, mailbox, current, stop, reply, entries, stopping, doneRxs, counted, sends>>

Register ==
    /\ sysMailbox # << >> /\ Head(sysMailbox) # Nobody /\ shutdown # "stopping"
    /\ entries' = Append(entries, Head(sysMailbox))
    /\ sysMailbox' = Tail(sysMailbox)
    /\ UNCHANGED <<phase, mailbox, current, stop, reply, stopping, doneRxs, shutdown, counted, sends>>

\* Handler<Shutdown>: takes the entries, to stop one after the other.
Shutdown ==
    /\ sysMailbox # << >> /\ Head(sysMailbox) = Nobody /\ shutdown = "asked"
    /\ stopping' = entries /\ entries' = << >>
    /\ sysMailbox' = Tail(sysMailbox)
    /\ shutdown' = "stopping"
    /\ UNCHANGED <<phase, mailbox, current, stop, reply, doneRxs, counted, sends>>

\* Mutant: signal_stop wakes the mailbox first and sets the flag after that.
SignalStopWakesFirst ==
    /\ shutdown = "stopping" /\ stopping # << >>
    /\ LET a == Head(stopping)
       IN  IF a \notin doneRxs
           THEN /\ mailbox' = Posted(a, Noop) /\ doneRxs' = doneRxs \cup {a}
                /\ UNCHANGED <<stop, stopping>>
           ELSE /\ stop' = [stop EXCEPT ![a] = TRUE] /\ stopping' = Tail(stopping)
                /\ UNCHANGED <<mailbox, doneRxs>>
    /\ UNCHANGED <<phase, current, reply, sysMailbox, entries, shutdown, counted, sends>>

\* signal_stop: the flag, and in a second step the no-op that wakes the mailbox,
\* unless it is full.
SignalStop ==
    /\ shutdown = "stopping" /\ stopping # << >>
    /\ LET a == Head(stopping)
       IN  IF ~ stop[a]
           THEN /\ stop' = [stop EXCEPT ![a] = TRUE]
                /\ UNCHANGED <<mailbox, doneRxs, stopping>>
           ELSE /\ mailbox' = Posted(a, Noop) /\ doneRxs' = doneRxs \cup {a}
                /\ stopping' = Tail(stopping)
                /\ UNCHANGED stop
    /\ UNCHANGED <<phase, current, reply, sysMailbox, entries, shutdown, counted, sends>>

\* The handler's reply: shutdown awaits the done receivers.
ShutdownReplies ==
    /\ shutdown = "stopping" /\ stopping = << >>
    /\ shutdown' = "waiting"
    /\ UNCHANGED <<phase, mailbox, current, stop, reply, sysMailbox, entries, stopping, doneRxs,
                   counted, sends>>

\* Every done receiver has resolved.
ShutdownEnds ==
    /\ shutdown = "waiting" /\ \A a \in doneRxs : phase[a] = "done"
    /\ shutdown' = "returned"
    /\ UNCHANGED <<phase, mailbox, current, stop, reply, sysMailbox, entries, stopping, doneRxs,
                   counted, sends>>

-----------------------------------------------------------------------------
ActorStep(a) ==
    Take(a) \/ HandlerAsks(a) \/ HandlerReturns(a) \/ Drained(a) \/ CheckStop(a) \/ Done(a)

SystemStep == Register \/ Shutdown \/ SignalStop \/ ShutdownReplies

ActorNext ==
    \/ \E a \in Actor : ActorStep(a) \/ Send(a) \/ SpawnActor(a)
    \/ \E c \in Caller, a \in Actor : CallerAsks(c, a)
    \/ SystemStep \/ CallShutdown \/ ShutdownEnds

\* The runtime polls every task that can go on, and handlers return.
ActorFairness ==
    /\ \A a \in Actor : WF_actorVars(ActorStep(a))
    /\ WF_actorVars(SystemStep) /\ WF_actorVars(ShutdownEnds)

ActorSpec == ActorInit /\ [][ActorNext]_actorVars /\ ActorFairness

-----------------------------------------------------------------------------
(* A shutdown that the system actor has accepted returns, whatever is in   *)
(* the mailboxes and whoever waits for whom at that moment: signal_stop    *)
(* never loses the wake-up, even when a full mailbox refuses its no-op     *)
(* (system.rs, mailbox.rs).  And by then every actor whose Register was    *)
(* accepted before it has stopped: "FIFO ordering guarantees all prior     *)
(* Register messages are processed first" (system.rs).                     *)
ShutdownReturns ==
    (shutdown = "asked") ~> (shutdown = "returned" /\ \A a \in counted : phase[a] = "done")

(* Every question is answered or fails, also when the actor asked stops    *)
(* with the question still in its mailbox, in the window between the drain *)
(* and the check of the stop flag (mailbox.rs, addr.rs).                   *)
AsksEnd == \A t \in Actor \cup Caller : (reply[t] = "pending") ~> (reply[t] # "pending")
=============================================================================
