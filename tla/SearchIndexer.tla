--------------------------- MODULE SearchIndexer ---------------------------
(***************************************************************************)
(* How the index follows the messages of a server.  The tasks that apply   *)
(* events (the UI's calls, the listener) change the state first and        *)
(* publish a client event afterwards, so two of them may publish in either *)
(* order.  One task of the web client walks the channels once, subscribes, *)
(* and then works off the events, reading the state again for each; what   *)
(* it wants indexed or removed goes through the mailbox of the search      *)
(* actor.  Mailboxes and the event stream hold 10,000 items and are not    *)
(* filled here; the configuration stays at its default, which nothing in   *)
(* the client changes.                                                     *)
(***************************************************************************)
EXTENDS SearchIndex, Sequences, SequencesExt

CONSTANTS
    Applier,        \* the tasks that apply events to the state
    MaxApplied      \* bound on the events applied

ASSUME IndexerAssumption == MaxApplied \in Nat

NoChannel == "none"
SearchChannel == Range(ChannelOf)

VARIABLES
    shown,          \* ServerState: the messages not deleted, in a channel that exists
    received,       \* the messages ever sent
    open,           \* ServerState::channels
    applied,        \* number of events applied
    unpublished,    \* per task: the client event of what it applied, a sequence of at most one
    bus,            \* the indexer's subscription
    indexer,        \* where the indexer's task is
    todo,           \* the channels it still has to walk
    job,            \* the event it works on
    mail,           \* the mailbox of the search actor
    missed          \* history: the messages with an event published before the subscription

serverVars == <<shown, received, open, applied>>
followerVars == <<serverVars, unpublished, bus, indexer, todo, job, mail, missed>>
indexerVars == <<searchVars, followerVars>>

ClientEvent(kind, c, m) == [kind |-> kind, channel |-> c, message |-> m]
NoJob == ClientEvent("none", NoChannel, NoChannel)

\* ClientHandle::new has read what is on disk: some messages are there.
IndexerInit ==
    /\ SearchInit
    /\ shown \in SUBSET Doc /\ IsFiniteSet(shown)
    /\ \A d, e \in shown : MessageOf[d] = MessageOf[e] => d = e
    /\ received = {MessageOf[d] : d \in shown}
    /\ open = SearchChannel
    /\ applied = 0
    /\ unpublished = [t \in Applier |-> <<>>]
    /\ bus = <<>> /\ mail = <<>>
    /\ indexer = "channels" /\ todo = {} /\ job = NoJob
    /\ missed = {}

-----------------------------------------------------------------------------
(* The state and its events: apply_event, try_insert_event.                *)

\* derive_client_events: an edit or a deletion names no channel.
Applied(t, event) ==
    /\ unpublished[t] = <<>> /\ applied < MaxApplied
    /\ applied' = applied + 1
    /\ unpublished' = [unpublished EXCEPT ![t] = <<event>>]
    /\ UNCHANGED <<searchVars, bus, indexer, todo, job, mail, missed>>

\* A message, also one whose channel was deleted meanwhile.
Arrive(t, d) ==
    /\ MessageOf[d] \notin received
    /\ received' = received \cup {MessageOf[d]}
    /\ shown' = IF ChannelOf[d] \in open THEN shown \cup {d} ELSE shown
    /\ UNCHANGED open
    /\ Applied(t, ClientEvent("Received", ChannelOf[d], MessageOf[d]))

Edit(t, d, e) ==
    /\ d \in shown /\ e # d /\ MessageOf[e] = MessageOf[d]
    /\ shown' = (shown \ {d}) \cup {e}
    /\ UNCHANGED <<received, open>>
    /\ Applied(t, ClientEvent("Edited", NoChannel, MessageOf[d]))

Delete(t, d) ==
    /\ d \in shown
    /\ shown' = shown \ {d}
    /\ UNCHANGED <<received, open>>
    /\ Applied(t, ClientEvent("Deleted", NoChannel, MessageOf[d]))

DropChannel(t, c) ==
    /\ c \in open
    /\ open' = open \ {c}
    /\ shown' = {d \in shown : ChannelOf[d] # c}
    /\ UNCHANGED received
    /\ Applied(t, ClientEvent("ChannelDeleted", c, NoChannel))

\* The messages an event is about.
About(event) ==
    IF event.kind = "ChannelDeleted"
    THEN {MessageOf[d] : d \in {e \in Doc : ChannelOf[e] = event.channel}}
    ELSE {event.message}

\* Publish, through the broker, to the indexer's receiver if there is one yet.
PublishEvent(t) ==
    /\ unpublished[t] # <<>>
    /\ unpublished' = [unpublished EXCEPT ![t] = <<>>]
    /\ IF indexer \in {"channels", "walk"}
       THEN missed' = missed \cup About(Head(unpublished[t])) /\ UNCHANGED bus
       ELSE bus' = Append(bus, Head(unpublished[t])) /\ UNCHANGED missed
    /\ UNCHANGED <<searchVars, serverVars, indexer, todo, job, mail>>

-----------------------------------------------------------------------------
(* The indexer's task: App, with hydrate_index and index_message.          *)

InsertMail(d) == [kind |-> "Insert", doc |-> d]
RemoveMail(m) == [kind |-> "RemoveMessage", message |-> m]
RemoveChannelMail(c) == [kind |-> "RemoveChannel", channel |-> c]

HydrateStart ==
    /\ indexer = "channels"
    /\ indexer' = "walk" /\ todo' = open
    /\ UNCHANGED <<searchVars, serverVars, unpublished, bus, job, mail, missed>>

HydrateChannel(c) ==
    /\ indexer = "walk" /\ c \in todo
    /\ todo' = todo \ {c}
    /\ LET docs == SetToSeq({d \in shown : ChannelOf[d] = c})
       IN  mail' = mail \o [i \in DOMAIN docs |-> InsertMail(docs[i])]
    /\ UNCHANGED <<searchVars, serverVars, unpublished, bus, indexer, job, missed>>

Subscribe ==
    /\ indexer = "walk" /\ todo = {}
    /\ indexer' = "loop"
    /\ UNCHANGED <<searchVars, serverVars, unpublished, bus, todo, job, mail, missed>>

\* One event of the stream; an edit is a removal followed by index_message.
TakeEvent ==
    /\ indexer = "loop" /\ bus # <<>>
    /\ bus' = Tail(bus)
    /\ LET event == Head(bus) IN
       /\ \/ event.kind \in {"Received", "Edited"} /\ indexer' = "resolve" /\ job' = event
          \/ event.kind \in {"Deleted", "ChannelDeleted"} /\ UNCHANGED <<indexer, job>>
       /\ \/ event.kind = "Received" /\ UNCHANGED mail
          \/ /\ event.kind \in {"Edited", "Deleted"}
             /\ mail' = Append(mail, RemoveMail(event.message))
          \/ /\ event.kind = "ChannelDeleted"
             /\ mail' = Append(mail, RemoveChannelMail(event.channel))
    /\ UNCHANGED <<searchVars, serverVars, unpublished, todo, missed>>

\* index_message: the channel of the event must resolve.
ResolveChannel ==
    /\ indexer = "resolve"
    /\ indexer' = IF job.channel \in open THEN "read" ELSE "loop"
    /\ job' = IF job.channel \in open THEN job ELSE NoJob
    /\ UNCHANGED <<searchVars, serverVars, unpublished, bus, todo, mail, missed>>

\* Mutant of Current: a deleted message is indexed as well.
CurrentOrDeleted == {CHOOSE d \in Doc : MessageOf[d] = job.message}

\* What the second look at the state finds of the message.
Current == {d \in shown : MessageOf[d] = job.message /\ ChannelOf[d] = job.channel}

ReadMessage ==
    /\ indexer = "read"
    /\ indexer' = "loop" /\ job' = NoJob
    /\ \/ Current = {} /\ UNCHANGED mail
       \/ \E d \in Current : mail' = Append(mail, InsertMail(d))
    /\ UNCHANGED <<searchVars, serverVars, unpublished, bus, todo, missed>>

\* The search actor takes a message from its mailbox.
SearchActorStep ==
    /\ mail # <<>>
    /\ mail' = Tail(mail)
    /\ LET msg == Head(mail) IN
       \/ msg.kind = "Insert" /\ Insert(msg.doc)
       \/ msg.kind = "RemoveMessage" /\ RemoveMessage(msg.message)
       \/ msg.kind = "RemoveChannel" /\ RemoveChannel(msg.channel)
    /\ UNCHANGED <<serverVars, unpublished, bus, indexer, todo, job, missed>>

IndexerNext ==
    \/ \E t \in Applier, d \in Doc : Arrive(t, d)
    \/ \E t \in Applier, d, e \in Doc : Edit(t, d, e)
    \/ \E t \in Applier, d \in Doc : Delete(t, d)
    \/ \E t \in Applier, c \in SearchChannel : DropChannel(t, c)
    \/ \E t \in Applier : PublishEvent(t)
    \/ HydrateStart
    \/ \E c \in todo : HydrateChannel(c)
    \/ Subscribe
    \/ TakeEvent
    \/ ResolveChannel
    \/ ReadMessage
    \/ SearchActorStep

IndexerSpec == IndexerInit /\ [][IndexerNext]_indexerVars

-----------------------------------------------------------------------------
(* Properties.                                                             *)

\* Nothing is on its way to the index.
IndexQuiet ==
    /\ indexer = "loop" /\ bus = <<>> /\ mail = <<>>
    /\ \A t \in Applier : unpublished[t] = <<>>

\* A deleted message, or one of a deleted channel, cannot be found once its event
\* has been worked off, though the event of its arrival may be published after the
\* event of its deletion, and the deletion may fall between the indexer's two
\* looks at the state.
DeletedIsForgotten ==
    IndexQuiet => DOMAIN by_msg \subseteq {MessageOf[d] : d \in shown} \cup missed

\* A message that is shown is in the index, with the body it has now, once its
\* events have been worked off.
EditedIsFindable ==
    IndexQuiet => \A d \in shown : MessageOf[d] \in missed \/ d \in Listed
=============================================================================
