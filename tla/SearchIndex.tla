---------------------------- MODULE SearchIndex ----------------------------
(***************************************************************************)
(* The inverted index of the local search and the actor that owns it:      *)
(* search/index.rs and search/actor.rs.  A document is one version of a    *)
(* message as the index sees it.  The lists of postings are kept as sets:  *)
(* the executor sorts what it finds, and `insert' puts a document into     *)
(* lists that hold nothing of its message.  `by_msg' is what `remove'      *)
(* trusts to find the lists of a message.                                  *)
(***************************************************************************)
EXTENDS Integers, Functions

CONSTANTS
    Doc,            \* documents: a message with the body it had
    Token,
    MessageOf,      \* per document: message_id
    ChannelOf,      \* per document: channel_id
    GroveOf,        \* per document: grove_id
    TokensOf        \* per document: the tokens of the body, the author and the channel

\* A document has tokens: `insert' adds the author's handle whatever the body.  An
\* edit changes the body of a message, not its channel.
ASSUME SearchAssumption ==
    /\ DOMAIN MessageOf = Doc /\ DOMAIN ChannelOf = Doc /\ DOMAIN GroveOf = Doc
    /\ TokensOf \in [Doc -> (SUBSET Token) \ {{}}]
    /\ \A d, e \in Doc : MessageOf[d] = MessageOf[e] => ChannelOf[d] = ChannelOf[e]

Grove == Range(GroveOf)

VARIABLES
    postings,       \* per token: the documents listed under it
    by_msg,         \* per indexed message: its tokens
    enabled,        \* config.enabled
    skipped         \* the groves with per_grove_enabled false

searchVars == <<postings, by_msg, enabled, skipped>>

SearchInit ==
    /\ postings = [t \in Token |-> {}]
    /\ by_msg = [m \in {} |-> {}]
    /\ enabled = TRUE /\ skipped = {}

\* message_allowed.
Allowed(d) == enabled /\ GroveOf[d] \notin skipped

\* Mutant of Insert: a message that is there is inserted again, as it is now.
InsertAgain(d) ==
    /\ Allowed(d)
    /\ postings' = [t \in Token |->
          IF t \in TokensOf[d] THEN postings[t] \cup {d} ELSE postings[t]]
    /\ by_msg' = [m \in DOMAIN by_msg \cup {MessageOf[d]} |->
          IF m = MessageOf[d] THEN TokensOf[d] ELSE by_msg[m]]
    /\ UNCHANGED <<enabled, skipped>>

\* Insert: nothing if the message is there, in whatever version.
Insert(d) ==
    /\ IF Allowed(d) /\ MessageOf[d] \notin DOMAIN by_msg
       THEN /\ postings' = [t \in Token |->
                  IF t \in TokensOf[d] THEN postings[t] \cup {d} ELSE postings[t]]
            /\ by_msg' = [m \in DOMAIN by_msg \cup {MessageOf[d]} |->
                  IF m = MessageOf[d] THEN TokensOf[d] ELSE by_msg[m]]
       ELSE UNCHANGED <<postings, by_msg>>
    /\ UNCHANGED <<enabled, skipped>>

\* remove_message for each of `ids': only the lists by_msg names are searched.
Forget(ids) ==
    /\ postings' = [t \in Token |->
          {d \in postings[t] : ~ (/\ MessageOf[d] \in ids \cap DOMAIN by_msg
                                  /\ t \in by_msg[MessageOf[d]])}]
    /\ by_msg' = [m \in DOMAIN by_msg \ ids |-> by_msg[m]]
    /\ UNCHANGED <<enabled, skipped>>

\* collect_ids: over the lists, not over by_msg.
Listed == UNION Range(postings)

RemoveMessage(m) == Forget({m})

RemoveChannel(c) == Forget({MessageOf[d] : d \in {e \in Listed : ChannelOf[e] = c}})

RemoveGrove(g) == Forget({MessageOf[d] : d \in {e \in Listed : GroveOf[e] = g}})

\* Rebuild: of two allowed documents of a message the first is taken, `docs' are
\* the ones taken.
Rebuild(docs) ==
    /\ \A d, e \in docs : MessageOf[d] = MessageOf[e] => d = e
    /\ \A d \in docs : Allowed(d)
    /\ postings' = [t \in Token |-> {d \in docs : t \in TokensOf[d]}]
    /\ by_msg' = [m \in {MessageOf[d] : d \in docs} |->
                    TokensOf[CHOOSE d \in docs : MessageOf[d] = m]]
    /\ UNCHANGED <<enabled, skipped>>

\* SetConfig: takes nothing out of the index.
SetConfig(on, groves) ==
    /\ enabled' = on /\ skipped' = groves
    /\ UNCHANGED <<postings, by_msg>>

SearchNext ==
    \/ \E d \in Doc : Insert(d)
    \/ \E m \in Range(MessageOf) : RemoveMessage(m)
    \/ \E c \in Range(ChannelOf) : RemoveChannel(c)
    \/ \E g \in Grove : RemoveGrove(g)
    \/ \E docs \in SUBSET Doc : Rebuild(docs)
    \/ \E on \in BOOLEAN, groves \in SUBSET Grove : SetConfig(on, groves)

SearchSpec == SearchInit /\ [][SearchNext]_searchVars

-----------------------------------------------------------------------------
(* Properties.                                                             *)

\* The two tables of the index tell the same: an indexed message is listed under
\* exactly its tokens, by one document, and whatever is listed is indexed.  So a
\* removal leaves nothing of the message in a list, and no hit comes twice.
PostingsExact ==
    /\ \A t \in Token : \A d \in postings[t] :
          MessageOf[d] \in DOMAIN by_msg /\ t \in by_msg[MessageOf[d]]
    /\ \A m \in DOMAIN by_msg : \E d \in Doc :
          /\ MessageOf[d] = m /\ by_msg[m] = TokensOf[d]
          /\ \A t \in TokensOf[d] : {e \in postings[t] : MessageOf[e] = m} = {d}
=============================================================================
