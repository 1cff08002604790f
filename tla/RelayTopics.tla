---------------------------- MODULE RelayTopics ----------------------------
(***************************************************************************)
(* The relay's topic table: AnnounceState and topic_announce_listener of   *)
(* crates/relay/src/lib.rs.  Clients announce the gossip topics they use;  *)
(* the relay joins each of them once, on behalf of every signer that holds *)
(* it, within a limit per signer (the least recently used topic goes) and  *)
(* a limit over all (further topics are refused).                          *)
(*                                                                         *)
(* The listener is one task that works through one topic after the other,  *)
(* so an announce is as many Announce steps as it has valid topics; an     *)
(* announce that is too long, or a topic that is not valid, does nothing.  *)
(* The calls on the network may fail, and are not tried again.             *)
(***************************************************************************)
EXTENDS Naturals, Sequences, FiniteSets

CONSTANTS
    Signer,         \* the peers that announce
    Topic,          \* valid topic strings
    MaxPerSigner,   \* MAX_TOPICS_PER_SIGNER
    MaxTopics       \* MAX_TOPICS

ASSUME RelayAssumption ==
    /\ IsFiniteSet(Signer) /\ IsFiniteSet(Topic)
    /\ MaxPerSigner \in Nat \ {0} /\ MaxTopics \in Nat

VARIABLES
    signerTopics,   \* signer_topics: what each signer holds, least recently used first
    refcount,       \* topic_refcount: 0 where there is no entry
    topics,         \* the gossip topics the relay is subscribed to
    failed          \* the topics whose last subscribe or unsubscribe failed

relayVars == <<signerTopics, refcount, topics, failed>>

RelayInit ==
    /\ signerTopics = [s \in Signer |-> << >>]
    /\ refcount = [t \in Topic |-> 0]
    /\ topics = {} /\ failed = {}

Held(s) == {signerTopics[s][i] : i \in DOMAIN signerTopics[s]}

\* topic_refcount.len()
Table(counts) == {t \in Topic : counts[t] > 0}

\* network.unsubscribe of a topic whose last reference went, network.subscribe of a
\* topic that got its first; either may fail.
Drive(leave, enter) ==
    \E bad \in SUBSET (leave \cup enter) :
        /\ topics' = (topics \ (leave \ bad)) \cup (enter \ bad)
        /\ failed' = (failed \ (leave \cup enter)) \cup bad

\* The queue q with its i-th entry moved to the back.
Moved(q, i) ==
    [j \in DOMAIN q |-> IF j < i THEN q[j] ELSE IF j < Len(q) THEN q[j + 1] ELSE q[i]]

\* The signer holds the topic already: it moves to the back.
Promote(s, t) ==
    /\ \E i \in DOMAIN signerTopics[s] :
        /\ signerTopics[s][i] = t
        /\ signerTopics' = [signerTopics EXCEPT ![s] = Moved(@, i)]
    /\ UNCHANGED <<refcount, topics, failed>>

Full(s) == Len(signerTopics[s]) >= MaxPerSigner

\* Mutant: an evicted topic keeps its reference while another signer holds it too.
ReleasedUnlessShared(s) ==
    IF Full(s) /\ refcount[Head(signerTopics[s])] = 1
    THEN [refcount EXCEPT ![Head(signerTopics[s])] = 0] ELSE refcount

\* A signer at its limit gives up its oldest topic, and the reference it held.
Kept(s) == IF Full(s) THEN Tail(signerTopics[s]) ELSE signerTopics[s]

Released(s) ==
    IF Full(s) THEN [refcount EXCEPT ![Head(signerTopics[s])] = @ - 1] ELSE refcount

\* The table is full: the topic is refused, after the eviction.
Refuse(s, t) ==
    /\ t \notin Held(s)
    /\ t \notin Table(Released(s)) /\ Cardinality(Table(Released(s))) >= MaxTopics
    /\ signerTopics' = [signerTopics EXCEPT ![s] = Kept(s)]
    /\ refcount' = Released(s)
    /\ Drive(Table(refcount) \ Table(Released(s)), {})

\* The signer now holds the topic.
Accept(s, t) ==
    /\ t \notin Held(s)
    /\ t \in Table(Released(s)) \/ Cardinality(Table(Released(s))) < MaxTopics
    /\ signerTopics' = [signerTopics EXCEPT ![s] = Append(Kept(s), t)]
    /\ refcount' = [Released(s) EXCEPT ![t] = @ + 1]
    /\ Drive(Table(refcount) \ Table(Released(s)), {t} \ Table(Released(s)))

\* process_topic, and the network calls it asks for.
Announce(s, t) == Promote(s, t) \/ Refuse(s, t) \/ Accept(s, t)

RelayNext == \E s \in Signer, t \in Topic : Announce(s, t)

RelaySpec == RelayInit /\ [][RelayNext]_relayVars

-----------------------------------------------------------------------------
RelayTypeOK ==
    /\ signerTopics \in [Signer -> Seq(Topic)]
    /\ refcount \in [Topic -> Nat]
    /\ topics \in SUBSET Topic /\ failed \in SUBSET Topic

(* A topic's reference count is the number of signers that hold it, no     *)
(* signer is over its limit, and the table is not over the limit of all,   *)
(* whatever was evicted, promoted or refused on the way: the count never   *)
(* keeps a topic alive that nobody holds, nor drops one that another       *)
(* signer still uses (process_topic).                                      *)
RefcountExact ==
    /\ \A t \in Topic : refcount[t] = Cardinality({s \in Signer : t \in Held(s)})
    /\ \A s \in Signer : Len(signerTopics[s]) <= MaxPerSigner
    /\ Cardinality(Table(refcount)) <= MaxTopics

(* "The relay holds exactly one gossip subscription per topic with a       *)
(* non-zero refcount", except for topics whose last network call failed    *)
(* (topic_announce_listener).                                              *)
SubscribedIsCounted == \A t \in Topic \ failed : t \in topics <=> refcount[t] > 0
=============================================================================
