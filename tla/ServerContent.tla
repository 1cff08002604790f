--------------------------- MODULE ServerContent ---------------------------
(***************************************************************************)
(* What is in one server: the channels, messages, pins and profiles of     *)
(* ServerState, with the arms of apply_mutation that change them           *)
(* (crates/state/src/materialize.rs), composed with the governance events  *)
(* that decide who may.                                                    *)
(*                                                                         *)
(* Every action but Reload is apply_incremental on one event not applied   *)
(* before.  Channel names, server name and description, mutes, key         *)
(* material and attachments are payload no property tells apart; an event  *)
(* that only changes those, or that is rejected, is OtherEvent.            *)
(***************************************************************************)
EXTENDS Governance

CONSTANTS
    Channel,        \* channel ids
    Emoji,          \* reaction keys within MAX_REACTION_EMOJI_BYTES
    Name,           \* display names within the 64-character cap
    Timestamp,      \* values of timestamp_hint_ms
    MaxReactions,   \* MAX_REACTIONS_PER_MESSAGE
    MaxEvents       \* bound: events delivered

ASSUME ContentAssumption ==
    /\ IsFiniteSet(Emoji)
    /\ Timestamp \subseteq Nat
    /\ MaxReactions \in Nat
    /\ MaxEvents \in Nat

VARIABLES
    channels,       \* ServerState.channels: pins and last_activity_hlc by channel id
    messages,       \* ServerState.messages
    message_index,  \* ServerState.message_index
    profiles,       \* Profile.display_name of each peer
    display_name,   \* Member.display_name of each peer
    delivered       \* events delivered; the next event has hash delivered + 1

contentVars == <<channels, messages, message_index, profiles, display_name>>
allVars == <<vars, contentVars, delivered>>

None == "None"                  \* Option::None, and a peer with no Profile
NoActivity == -1                \* last_activity_hlc: None
Unnamed == ""                   \* a Profile whose display name was never set
DeletedBody == "[message deleted]"

\* The body of a message is abstracted to the peer whose words it is.
ChatMessage ==
    [id : Nat, channel_id : Channel, author : Peer, body : Peer \cup {DeletedBody},
     deleted : BOOLEAN, reactions : [Emoji -> SUBSET Peer]]

ContentInit ==
    /\ Init
    /\ channels = [c \in {} |-> {}]
    /\ messages = <<>>
    /\ message_index = [m \in {} |-> 0]
    /\ profiles = [p \in Peer |-> None]
    /\ display_name = [p \in Peer |-> None]
    /\ delivered = 0

-----------------------------------------------------------------------------
(* The message index.                                                      *)

Ids(msgs) == {msgs[i].id : i \in DOMAIN msgs}

\* ServerState::rebuild_message_index: of two entries for an id the later stays.
RebuildMessageIndex(msgs) ==
    [m \in Ids(msgs) |->
        CHOOSE i \in DOMAIN msgs :
            msgs[i].id = m /\ \A j \in DOMAIN msgs : msgs[j].id = m => j <= i]

CurrentIndexUnchecked == message_index

\* The index apply_incremental works with: rebuilt if its size is not that of
\* the messages, as it is after the state was deserialized.
CurrentIndex ==
    IF messages # <<>> /\ Cardinality(DOMAIN message_index) # Len(messages)
        THEN RebuildMessageIndex(messages)
        ELSE message_index

Delivered == delivered < MaxEvents /\ delivered' = delivered + 1

-----------------------------------------------------------------------------
(* Channels.                                                               *)

CreateChannel(a, c) ==
    /\ Delivered
    /\ stack = <<>>
    /\ HasPermission(a, "ManageChannels")
    /\ c \notin DOMAIN channels
    /\ channels' = With(channels, c, [pinned_messages |-> [m \in {} |-> a],
                                      last_activity_hlc |-> NoActivity])
    /\ message_index' = CurrentIndex
    /\ UNCHANGED <<vars, messages, profiles, display_name>>

\* kept.len() after the first n messages.
KeptLen(c, n) == Cardinality({i \in 1 .. n : messages[i].channel_id # c})

\* The messages of the other channels, in their order.
Elsewhere(c) ==
    [k \in 1 .. KeptLen(c, Len(messages)) |->
        messages[CHOOSE i \in DOMAIN messages : messages[i].channel_id # c /\ KeptLen(c, i) = k]]

\* Its messages go with the channel and the index is built again.
DeleteChannel(a, c) ==
    /\ Delivered
    /\ stack = <<>>
    /\ HasPermission(a, "ManageChannels")
    /\ channels' = Without(channels, c)
    /\ messages' = Elsewhere(c)
    /\ message_index' = RebuildMessageIndex(Elsewhere(c))
    /\ UNCHANGED <<vars, profiles, display_name>>

\* last_activity_hlc takes the timestamp of the event, if the channel exists.
Touched(c, ts) ==
    [d \in DOMAIN channels |->
        IF d = c THEN [channels[d] EXCEPT !.last_activity_hlc = ts] ELSE channels[d]]

ChannelRevive(a, c, ts) ==
    /\ Delivered
    /\ stack = <<>>
    /\ a \in members
    /\ c \in DOMAIN channels
    /\ channels' = Touched(c, ts)
    /\ message_index' = CurrentIndex
    /\ UNCHANGED <<vars, messages, profiles, display_name>>

PinMessage(a, c, m) ==
    /\ Delivered
    /\ stack = <<>>
    /\ a \in members
    /\ c \in DOMAIN channels
    /\ channels' = [channels EXCEPT ![c].pinned_messages = With(@, m, a)]
    /\ message_index' = CurrentIndex
    /\ UNCHANGED <<vars, messages, profiles, display_name>>

UnpinMessage(a, c, m) ==
    /\ Delivered
    /\ stack = <<>>
    /\ a \in members
    /\ c \in DOMAIN channels
    /\ channels' = [channels EXCEPT ![c].pinned_messages = Without(@, m)]
    /\ message_index' = CurrentIndex
    /\ UNCHANGED <<vars, messages, profiles, display_name>>

-----------------------------------------------------------------------------
(* Messages.                                                               *)

NewMessage(a, c) ==
    [id |-> delivered + 1, channel_id |-> c, author |-> a, body |-> a,
     deleted |-> FALSE, reactions |-> [e \in Emoji |-> {}]]

\* Message, and FileMessage within its caps.  The channel need not exist.
Message(a, c, ts) ==
    /\ Delivered
    /\ stack = <<>>
    /\ HasPermission(a, "SendMessages")
    /\ messages' = Append(messages, NewMessage(a, c))
    /\ message_index' = With(CurrentIndex, delivered + 1, Len(messages) + 1)
    /\ channels' = Touched(c, ts)
    /\ UNCHANGED <<vars, profiles, display_name>>

\* The event found its target: message m becomes msg.
Update(m, msg) ==
    /\ messages' = [messages EXCEPT ![CurrentIndex[m]] = msg]
    /\ message_index' = CurrentIndex
    /\ UNCHANGED <<vars, channels, profiles, display_name>>

EditMessageOfAnyone(a, m) ==
    /\ Delivered
    /\ stack = <<>>
    /\ HasPermission(a, "SendMessages")
    /\ m \in DOMAIN CurrentIndex
    /\ LET msg == messages[CurrentIndex[m]] IN
       Update(m, [msg EXCEPT !.body = a])

EditMessage(a, m) ==
    /\ Delivered
    /\ stack = <<>>
    /\ HasPermission(a, "SendMessages")
    /\ m \in DOMAIN CurrentIndex
    /\ LET msg == messages[CurrentIndex[m]] IN
       /\ msg.author = a
       /\ Update(m, [msg EXCEPT !.body = a])

DeleteMessage(a, m) ==
    /\ Delivered
    /\ stack = <<>>
    /\ HasPermission(a, "SendMessages")
    /\ m \in DOMAIN CurrentIndex
    /\ LET msg == messages[CurrentIndex[m]] IN
       /\ msg.author = a
       /\ Update(m, [msg EXCEPT !.deleted = TRUE, !.body = DeletedBody,
                                !.reactions = [e \in Emoji |-> {}]])

\* The keys of the reactions map: an entry always has a reactor.
Reacted(msg) == {e \in Emoji : msg.reactions[e] # {}}

Reaction(a, m, e) ==
    /\ Delivered
    /\ stack = <<>>
    /\ HasPermission(a, "SendMessages")
    /\ m \in DOMAIN CurrentIndex
    /\ LET msg == messages[CurrentIndex[m]] IN
       /\ e \in Reacted(msg) \/ Cardinality(Reacted(msg)) < MaxReactions
       /\ Update(m, [msg EXCEPT !.reactions[e] = @ \cup {a}])

-----------------------------------------------------------------------------
(* Profiles.                                                               *)

\* SetProfile, and UpdateProfile with a display name: profile and member record.
SetProfile(a, name) ==
    /\ Delivered
    /\ stack = <<>>
    /\ a \in members
    /\ profiles' = [profiles EXCEPT ![a] = name]
    /\ display_name' = [display_name EXCEPT ![a] = name]
    /\ message_index' = CurrentIndex
    /\ UNCHANGED <<vars, channels, messages>>

\* UpdateProfile without a display name still creates the profile.
UpdateProfile(a) ==
    /\ Delivered
    /\ stack = <<>>
    /\ a \in members
    /\ profiles' = [profiles EXCEPT ![a] = IF @ = None THEN Unnamed ELSE @]
    /\ message_index' = CurrentIndex
    /\ UNCHANGED <<vars, channels, messages, display_name>>

-----------------------------------------------------------------------------
(* Everything else.                                                        *)

\* An event that is rejected, or that changes nothing modelled here, still has
\* the index rebuilt.
OtherEvent ==
    /\ Delivered
    /\ stack = <<>>
    /\ message_index' = CurrentIndex
    /\ UNCHANGED <<vars, channels, messages, profiles, display_name>>

\* The member record, display name included, goes with the member.
MembersAfter ==
    display_name' = [p \in Peer |-> IF p \in members' THEN display_name[p] ELSE None]

\* A governance, permission or role event, and the cascade it may start.
Govern ==
    /\ Next
    /\ IF stack = <<>> THEN Delivered ELSE UNCHANGED delivered
    /\ message_index' = CurrentIndex
    /\ MembersAfter
    /\ UNCHANGED <<channels, messages, profiles>>

\* The state is serialized and read back: message_index is #[serde(skip)].
Reload ==
    /\ stack = <<>>
    /\ message_index' = [m \in {} |-> 0]
    /\ UNCHANGED <<vars, channels, messages, profiles, display_name, delivered>>

ContentNext ==
    \/ Govern
    \/ \E a \in Peer, c \in Channel : CreateChannel(a, c)
    \/ \E a \in Peer, c \in Channel : DeleteChannel(a, c)
    \/ \E a \in Peer, c \in Channel, ts \in Timestamp : ChannelRevive(a, c, ts)
    \/ \E a \in Peer, c \in Channel, m \in 1 .. MaxEvents : PinMessage(a, c, m)
    \/ \E a \in Peer, c \in Channel, m \in 1 .. MaxEvents : UnpinMessage(a, c, m)
    \/ \E a \in Peer, c \in Channel, ts \in Timestamp : Message(a, c, ts)
    \/ \E a \in Peer, m \in 1 .. MaxEvents : EditMessage(a, m)
    \/ \E a \in Peer, m \in 1 .. MaxEvents : DeleteMessage(a, m)
    \/ \E a \in Peer, m \in 1 .. MaxEvents, e \in Emoji : Reaction(a, m, e)
    \/ \E a \in Peer, name \in Name : SetProfile(a, name)
    \/ \E a \in Peer : UpdateProfile(a)
    \/ OtherEvent
    \/ Reload

ContentSpec == ContentInit /\ [][ContentNext]_allVars

-----------------------------------------------------------------------------
(* Properties.                                                             *)

\* message_index is exact, or empty because the state was just read back: no
\* edit, deletion or reaction is lost or lands on another message, though
\* DeleteChannel moves the messages that stay.
IndexIsExact ==
    message_index \in {RebuildMessageIndex(messages), [m \in {} |-> 0]}

\* Nobody puts words in another's mouth: the body of a message is its author's,
\* or the mark of its deletion.
WordsAreTheAuthors ==
    \A i \in DOMAIN messages : messages[i].body \in {messages[i].author, DeletedBody}

\* What a step leaves of peer p's: its profile, its messages and reactions, its pins.
ProfileKept(p) == profiles'[p] = profiles[p]

MessagesKept(p) ==
    \A i \in DOMAIN messages' :
        LET msg == messages'[i] IN
        \/ \E j \in DOMAIN messages :
             LET old == messages[j] IN
             /\ old.id = msg.id
             /\ msg.author = p => old.body = msg.body /\ old.deleted = msg.deleted
             /\ \A e \in Emoji : p \in msg.reactions[e] => p \in old.reactions[e]
        \/ msg.id \notin Ids(messages) /\ msg.author # p

PinsKept(p) ==
    \A c \in DOMAIN channels' : \A m \in DOMAIN channels'[c].pinned_messages :
        channels'[c].pinned_messages[m] = p
          => /\ c \in DOMAIN channels
             /\ m \in DOMAIN channels[c].pinned_messages
             /\ channels[c].pinned_messages[m] = p

\* A peer outside the member map (never granted anything, or kicked) changes
\* nothing others see: it posts, edits and deletes no message, adds no reaction
\* and no pin, and its profile stays as it is.  For messages this rests on every
\* holder of SendMessages being a member: those arms have no gate of their own.
NonMembersAreSilent ==
    [][\A p \in Peer \ members : ProfileKept(p) /\ MessagesKept(p) /\ PinsKept(p)]_allVars
=============================================================================
