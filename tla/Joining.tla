------------------------------ MODULE Joining ------------------------------
(***************************************************************************)
(* Join links: the inviter's side in crates/client/src/joining.rs and the  *)
(* JoinRequest arm of listeners.rs, with the links on disk; the joiner's   *)
(* in send_join_request, the JoinResponse and JoinDenied arms, and the     *)
(* join page of crates/web/src/components/join_page.rs with its retries.   *)
(*                                                                         *)
(* The inviter runs in a browser: its tasks interleave where they await.   *)
(* Messages are broadcast; each is lost, or delivered once, in any order.  *)
(***************************************************************************)
EXTENDS Naturals, Sequences, FiniteSets, Functions

CONSTANTS
    Link,           \* link ids
    ServerOf,       \* the server each link is for
    JoinServer,     \* the inviter's servers
    MaxUses,        \* max_uses of every link
    Joiner,         \* peers with a join URL
    TokenOf,        \* the link each of them has
    MaxLosses,      \* bound: how many messages are lost
    MaxRestarts     \* bound: how often the inviter restarts

ASSUME JoinAssumption ==
    /\ ServerOf \in [Link -> JoinServer] /\ TokenOf \in [Joiner -> Link]
    /\ MaxUses \in Nat /\ MaxLosses \in Nat /\ MaxRestarts \in Nat
    /\ JoinServer # {}

VARIABLES
    links,          \* the inviter's join_links: used, by link
    made,           \* the link ids drawn so far
    expired,        \* the links whose time is up
    activeServer,   \* the inviter's active server
    answering,      \* the inviter's listener: whom it answers, and how far it is
    saves,          \* PersistJoinLinks messages in the persistence actor's mailbox
    saved,          \* the links on disk
    granted,        \* whom the inviter has granted SendMessages
    page,           \* the join page: status, and whether its retry loop still runs
    pending,        \* the joiners with an entry in pending_joins
    joined,         \* the servers each joiner was invited to
    messages,       \* under way
    losses, restarts

linkVars == <<links, saves>>
inviterVars == <<linkVars, made, expired, activeServer, answering, saved, granted, restarts>>
joinerVars == <<page, pending, joined>>
joinVars == <<inviterVars, joinerVars, messages, losses>>

\* The listener waits for a message.
NoTask == [next |-> "message"]

JoinInit ==
    /\ links = << >> /\ saves = << >> /\ saved = << >> /\ made = {}
    /\ expired = {} /\ activeServer \in JoinServer /\ answering = NoTask /\ granted = {}
    /\ page = [j \in Joiner |-> [status |-> "", retrying |-> TRUE]]
    /\ pending = {} /\ joined = [j \in Joiner |-> {}]
    /\ messages = {} /\ losses = 0 /\ restarts = 0

-----------------------------------------------------------------------------
(* The inviter's links.                                                    *)

\* What storage has under a server's id after the snapshot is written.
Written(disk, save) ==
    [l \in {k \in DOMAIN disk : ServerOf[k] # save.server} \cup DOMAIN save.links |->
        IF l \in DOMAIN save.links THEN save.links[l] ELSE disk[l]]

\* persist_join_links_for, with the links as they are after the change.
Persist(server, now) ==
    saves' = Append(saves, [server |-> server,
                            links |-> Restrict(now, {l \in DOMAIN now : ServerOf[l] = server})])

CreateJoinLink(l) ==
    /\ l \notin made /\ activeServer = ServerOf[l]
    /\ made' = made \cup {l}
    /\ links' = [k \in DOMAIN links \cup {l} |-> IF k = l THEN 0 ELSE links[k]]
    /\ Persist(activeServer, links')
    /\ UNCHANGED <<expired, activeServer, answering, saved, granted, restarts, joinerVars, messages, losses>>

DeleteJoinLink(l) ==
    /\ l \in DOMAIN links
    /\ links' = Restrict(links, DOMAIN links \ {l})
    /\ Persist(ServerOf[l], links')
    /\ UNCHANGED <<made, expired, activeServer, answering, saved, granted, restarts, joinerVars, messages, losses>>

Expire(l) ==
    /\ expired' = expired \cup {l}
    /\ UNCHANGED <<made, linkVars, activeServer, answering, saved, granted, restarts, joinerVars, messages, losses>>

\* The persistence actor handles a message.
PersistJoinLinks ==
    /\ saves # << >>
    /\ saved' = Written(saved, Head(saves))
    /\ saves' = Tail(saves)
    /\ UNCHANGED <<made, links, expired, activeServer, answering, granted, restarts, joinerVars, messages, losses>>

SwitchShown(s) ==
    /\ s # activeServer
    /\ activeServer' = s
    /\ UNCHANGED <<made, linkVars, expired, answering, saved, granted, restarts, joinerVars, messages, losses>>

\* ClientHandle::new reads the links back; what the mailbox held is gone.
InviterRestart ==
    /\ restarts < MaxRestarts
    /\ restarts' = restarts + 1
    /\ links' = saved /\ saves' = << >> /\ answering' = NoTask
    /\ UNCHANGED <<made, expired, activeServer, saved, granted, joinerVars, messages, losses>>

-----------------------------------------------------------------------------
(* The inviter's listener.                                                 *)

IsValid(l) == links[l] < MaxUses /\ l \notin expired

\* Mutant of Charge: the links are saved before the use is counted.
ChargeSavedFirst(l) ==
    /\ links' = [links EXCEPT ![l] = @ + 1]
    /\ Persist(ServerOf[l], links)

Charge(l) ==
    /\ links' = [links EXCEPT ![l] = @ + 1]
    /\ Persist(ServerOf[l], links')

\* A valid link is charged and the count goes to disk before anything is awaited;
\* one that is used up or expired is denied; an unknown one is dropped silently.
JoinRequest(m) ==
    /\ m \in messages /\ m.kind = "JoinRequest" /\ answering = NoTask
    /\ \/ /\ m.link \in DOMAIN links /\ IsValid(m.link)
          /\ Charge(m.link)
          /\ answering' = [joiner |-> m.joiner, link |-> m.link, next |-> "respond"]
          /\ messages' = messages \ {m}
       \/ /\ m.link \in DOMAIN links /\ ~ IsValid(m.link)
          /\ messages' = (messages \ {m}) \cup
                {[kind |-> "JoinDenied", joiner |-> m.joiner, link |-> m.link]}
          /\ UNCHANGED <<linkVars, answering>>
       \/ /\ m.link \notin DOMAIN links
          /\ messages' = messages \ {m}
          /\ UNCHANGED <<linkVars, answering>>
    /\ UNCHANGED <<made, expired, activeServer, saved, granted, restarts, joinerVars, losses>>

\* The invite is made for the server that is active now.
Respond ==
    /\ answering.next = "respond"
    /\ messages' = messages \cup
            {[kind |-> "JoinResponse", joiner |-> answering.joiner, link |-> answering.link,
              server |-> activeServer]}
    /\ answering' = [answering EXCEPT !.next = "grant"]
    /\ UNCHANGED <<made, linkVars, expired, activeServer, saved, granted, restarts, joinerVars, losses>>

GrantSendMessages ==
    /\ answering.next = "grant"
    /\ granted' = granted \cup {answering.joiner}
    /\ answering' = NoTask
    /\ UNCHANGED <<made, linkVars, expired, activeServer, saved, restarts, joinerVars, messages, losses>>

-----------------------------------------------------------------------------
(* The joiner.                                                             *)

\* send_join_request.
SendJoinRequest(j) ==
    /\ pending' = pending \cup {j}
    /\ messages' = messages \cup {[kind |-> "JoinRequest", joiner |-> j, link |-> TokenOf[j]]}

ClickJoin(j) ==
    /\ page[j].status = "" /\ joined[j] = {}
    /\ page' = [page EXCEPT ![j].status = "connecting"]
    /\ SendJoinRequest(j)
    /\ UNCHANGED <<inviterVars, joined, losses>>

\* Mutant of Retry: the page asks once.
RetryNever(j) ==
    /\ page[j].retrying
    /\ page' = [page EXCEPT ![j].retrying = FALSE]
    /\ UNCHANGED <<inviterVars, pending, joined, messages, losses>>

\* The loop of the join page wakes up; it ends when nothing is being waited for.
Retry(j) ==
    /\ page[j].retrying
    /\ \/ page[j].status = "connecting" /\ SendJoinRequest(j) /\ UNCHANGED page
       \/ /\ page[j].status # "connecting"
          /\ page' = [page EXCEPT ![j].retrying = FALSE]
          /\ UNCHANGED <<pending, messages>>
    /\ UNCHANGED <<inviterVars, joined, losses>>

\* JoinResponse and JoinDenied: nothing happens without an outstanding request.
JoinAnswer(m) ==
    /\ m \in messages /\ m.kind \in {"JoinResponse", "JoinDenied"}
    /\ messages' = messages \ {m}
    /\ pending' = pending \ {m.joiner}
    /\ \/ m.joiner \notin pending /\ UNCHANGED <<page, joined>>
       \/ /\ m.joiner \in pending /\ m.kind = "JoinResponse"
          /\ joined' = [joined EXCEPT ![m.joiner] = @ \cup {m.server}]
          /\ page' = [page EXCEPT ![m.joiner].status = ""]
       \/ /\ m.joiner \in pending /\ m.kind = "JoinDenied"
          /\ page' = [page EXCEPT ![m.joiner].status = "denied"]
          /\ UNCHANGED joined
    /\ UNCHANGED <<inviterVars, losses>>

LoseMessage(m) ==
    /\ m \in messages /\ losses < MaxLosses
    /\ messages' = messages \ {m}
    /\ losses' = losses + 1
    /\ UNCHANGED <<inviterVars, joinerVars>>

-----------------------------------------------------------------------------

JoinNext ==
    \/ \E l \in Link : CreateJoinLink(l) \/ DeleteJoinLink(l) \/ Expire(l)
    \/ PersistJoinLinks \/ InviterRestart \/ Respond \/ GrantSendMessages
    \/ \E s \in JoinServer : SwitchShown(s)
    \/ \E j \in Joiner : ClickJoin(j) \/ Retry(j)
    \/ \E m \in messages : JoinRequest(m) \/ JoinAnswer(m) \/ LoseMessage(m)

\* Tasks that can run do, timers fire, and what is not lost is delivered.
JoinFairness ==
    /\ WF_joinVars(PersistJoinLinks)
    /\ WF_joinVars(Respond) /\ WF_joinVars(GrantSendMessages)
    /\ \A j \in Joiner : WF_joinVars(Retry(j))
    /\ WF_joinVars(\E m \in messages : JoinRequest(m))
    /\ WF_joinVars(\E m \in messages : JoinAnswer(m))

JoinSpec == JoinInit /\ [][JoinNext]_joinVars /\ JoinFairness

-----------------------------------------------------------------------------
(* Properties.                                                             *)

\* The links on disk are the links in memory whenever no save is under way, in
\* particular the uses: an exhausted link does not look fresh after a restart.
UsesReachDisk == saves = << >> => saved = links

\* As long as the link is there, a joiner whose page still retries is not left
\* connecting: it is told that the link is of no use, or it gets in and may then send
\* messages, unless the inviter restarted on the way.
JoinSettles ==
    \A j \in Joiner :
        <>[](TokenOf[j] \in DOMAIN links) =>
            (page[j].status = "connecting" /\ page[j].retrying
                ~> (page[j].status = "denied" \/ (joined[j] # {} /\ (j \in granted \/ restarts > 0))))
=============================================================================
