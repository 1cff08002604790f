------------------------------- MODULE Voice -------------------------------
(***************************************************************************)
(* A voice call between two clients (crates/web/src/voice.rs, with the     *)
(* parts of app.rs, event_processing.rs, client mutations.rs and           *)
(* listeners.rs that drive it): who offers to whom, how colliding offers   *)
(* are resolved, and what becomes of connections when a client leaves and  *)
(* comes back.                                                             *)
(*                                                                         *)
(* The RTCPeerConnection is the browser's: its operations run one after    *)
(* the other, each completing in its own task (the operations chain), with *)
(* the signaling states of the WebRTC specification.  A step of the model  *)
(* completes the first operation of a chain and runs the code that awaits  *)
(* it up to its next await.  A session description is abstracted to the    *)
(* connection it comes from and the kinds of track it carries.             *)
(***************************************************************************)
EXTENDS Integers, Sequences

CONSTANTS
    Polite,         \* the peer with the lower id
    Impolite,       \* the other
    MaxJoins,       \* bound: times a user joins the call
    MaxShares       \* bound: times video sharing is started or stopped

ASSUME VoiceAssumption == Polite # Impolite /\ {MaxJoins, MaxShares} \subseteq Nat

VoicePeer == {Polite, Impolite}
Other(p) == CHOOSE q \in VoicePeer : q # p

VARIABLES
    channel,        \* the UI's voice_channel is set
    asking,         \* getUserMedia promises that are pending
    mic,            \* VoiceManager.local_stream is set
    video,          \* VoiceManager.video_stream is set
    inCall,         \* VoiceState.active_channel is set
    conn,           \* VoiceManager.connections, for the other peer
    pendingIce,     \* VoiceManager.pending_ice, for the other peer
    signals,        \* signals[p]: messages on their way to p, oldest first
    made,           \* connections made by each peer, to name them
    offers,         \* offers made by each peer, to name them
    joins,          \* times each user has joined
    shares          \* times sharing has been started or stopped

uiVars == <<channel, asking, mic, video, inCall>>
userVars == <<joins, shares>>
voiceVars == <<uiVars, conn, pendingIce, signals, made, offers, userVars>>

NoConn == [id |-> 0]
NoSdp == [type |-> "none"]
Connected(p) == conn[p].id # 0

\* A connection with nothing negotiated yet.
NewConn(p) ==
    [id |-> made[p] + 1, signaling |-> "stable", makingOffer |-> FALSE, remoteSet |-> FALSE,
     tracks |-> (IF mic[p] THEN {"audio"} ELSE {}) \cup (IF video[p] THEN {"video"} ELSE {}),
     lines |-> {}, sending |-> {}, fired |-> FALSE, gathered |-> FALSE,
     created |-> 0, local |-> NoSdp, offered |-> NoSdp, remote |-> 0, chain |-> <<>>]

VoiceInit ==
    /\ channel = [p \in VoicePeer |-> FALSE]
    /\ asking = [p \in VoicePeer |-> 0]
    /\ mic = [p \in VoicePeer |-> FALSE]
    /\ video = [p \in VoicePeer |-> FALSE]
    /\ inCall = [p \in VoicePeer |-> FALSE]
    /\ conn = [p \in VoicePeer |-> NoConn]
    /\ pendingIce = [p \in VoicePeer |-> {}]
    /\ signals = [p \in VoicePeer |-> <<>>]
    /\ made = [p \in VoicePeer |-> 0]
    /\ offers = [p \in VoicePeer |-> 0]
    /\ joins = [p \in VoicePeer |-> 0]
    /\ shares = 0

-----------------------------------------------------------------------------
(* Messages, and the operations of a connection.                           *)

VoiceMessage(type) == [type |-> type]
OfferFrom(c, n, lines, tracks) ==
    [type |-> "offer", id |-> c.id, n |-> n, lines |-> lines, tracks |-> tracks]
AnswerFrom(c) == [type |-> "answer", id |-> c.id]
IceFrom(c) == [type |-> "ice", id |-> c.id]

Send(p, msgs) == signals' = [signals EXCEPT ![Other(p)] = @ \o msgs]

\* A call of a method of the connection, which the caller awaits.
Called(c, op, sdp) == [c EXCEPT !.chain = Append(@, [op |-> op, sdp |-> sdp])]

\* The first operation completed, leaving the connection in the given state.
\* Back in "stable" the browser looks again whether negotiation is needed.
Completed(c, signaling) ==
    [c EXCEPT !.chain = Tail(@), !.signaling = signaling,
              !.fired = @ /\ signaling # "stable"]

\* get_or_create_connection.
GetOrCreate(p) == IF Connected(p) THEN conn[p] ELSE NewConn(p)

\* The connections made once a handler has called get_or_create_connection.
MadeAfterGet(p) == made' = [made EXCEPT ![p] = IF Connected(p) THEN @ ELSE @ + 1]

-----------------------------------------------------------------------------
(* The user.                                                               *)

\* on_voice_join: the channel is shown at once, the microphone asked for.
ClickJoin(p) ==
    /\ ~channel[p] /\ joins[p] < MaxJoins
    /\ joins' = [joins EXCEPT ![p] = @ + 1]
    /\ channel' = [channel EXCEPT ![p] = TRUE]
    /\ asking' = [asking EXCEPT ![p] = @ + 1]
    /\ UNCHANGED <<mic, video, inCall, conn, pendingIce, signals, made, offers, shares>>

\* on_success: set_local_stream, then join_voice (which leaves a call it is in).
MicGranted(p) ==
    /\ asking[p] > 0
    /\ asking' = [asking EXCEPT ![p] = @ - 1]
    /\ mic' = [mic EXCEPT ![p] = TRUE]
    /\ inCall' = [inCall EXCEPT ![p] = TRUE]
    /\ Send(p, IF inCall[p] THEN <<VoiceMessage("leave"), VoiceMessage("join")>> ELSE <<VoiceMessage("join")>>)
    /\ UNCHANGED <<channel, video, conn, pendingIce, made, offers, userVars>>

\* on_error: write.voice.reset().
MicDenied(p) ==
    /\ asking[p] > 0
    /\ asking' = [asking EXCEPT ![p] = @ - 1]
    /\ channel' = [channel EXCEPT ![p] = FALSE]
    /\ UNCHANGED <<mic, video, inCall, conn, pendingIce, signals, made, offers, userVars>>

\* on_voice_disconnect: leave_voice, close_all, write.voice.reset().
ClickLeave(p) ==
    /\ channel[p]
    /\ channel' = [channel EXCEPT ![p] = FALSE]
    /\ inCall' = [inCall EXCEPT ![p] = FALSE]
    /\ mic' = [mic EXCEPT ![p] = FALSE]
    /\ video' = [video EXCEPT ![p] = FALSE]
    /\ conn' = [conn EXCEPT ![p] = NoConn]
    /\ pendingIce' = [pendingIce EXCEPT ![p] = {}]
    /\ Send(p, IF inCall[p] THEN <<VoiceMessage("leave")>> ELSE <<>>)
    /\ UNCHANGED <<asking, made, offers, userVars>>

\* start_video and stop_video_share: the track is added to, or removed from, every
\* connection.
ShareVideo(p) ==
    /\ inCall[p] /\ shares < MaxShares
    /\ shares' = shares + 1
    /\ video' = [video EXCEPT ![p] = ~@]
    /\ conn' = IF Connected(p)
                 THEN [conn EXCEPT ![p].tracks = IF video[p] THEN @ \ {"video"} ELSE @ \cup {"video"}]
                 ELSE conn
    /\ UNCHANGED <<channel, asking, mic, inCall, pendingIce, signals, made, offers, joins>>

-----------------------------------------------------------------------------
(* Signals from the other peer: what each handler does before it awaits.   *)

\* VoiceJoined: a client in the channel offers to the one that joins.
ReceiveJoin(p) ==
    IF channel[p]
      THEN /\ conn' = [conn EXCEPT ![p] =
                          Called([GetOrCreate(p) EXCEPT !.makingOffer = TRUE], "createOffer", NoSdp)]
           /\ MadeAfterGet(p)
           /\ UNCHANGED pendingIce
      ELSE UNCHANGED <<conn, made, pendingIce>>

\* VoiceLeft: close_connection.
ReceiveLeave(p) ==
    /\ conn' = [conn EXCEPT ![p] = NoConn]
    /\ pendingIce' = [pendingIce EXCEPT ![p] = {}]
    /\ UNCHANGED made

\* Mutant of ShouldIgnoreOffer: both peers keep their own offer.
ShouldIgnoreOfferBoth(polite, makingOffer, stable) == makingOffer \/ ~stable

\* should_ignore_offer.
ShouldIgnoreOffer(polite, makingOffer, stable) == ~polite /\ (makingOffer \/ ~stable)

\* handle_offer.
ReceiveOffer(p, sdp) ==
    LET c == GetOrCreate(p)
        stable == c.signaling = "stable"
    IN  /\ conn' = [conn EXCEPT ![p] =
                       IF ShouldIgnoreOffer(p = Polite, c.makingOffer, stable) THEN c
                       ELSE IF stable THEN Called(c, "setRemoteOffer", sdp)
                       ELSE Called(c, "rollback", sdp)]
        /\ MadeAfterGet(p)
        /\ UNCHANGED pendingIce

\* handle_answer.
ReceiveAnswer(p, sdp) ==
    /\ conn' = IF Connected(p) THEN [conn EXCEPT ![p] = Called(@, "setRemoteAnswer", sdp)]
                               ELSE conn
    /\ UNCHANGED <<made, pendingIce>>

\* handle_ice_candidate: applied, or queued until there is a remote description.
ReceiveIce(p, candidate) ==
    /\ pendingIce' = IF Connected(p) /\ conn[p].remoteSet
                       THEN pendingIce
                       ELSE [pendingIce EXCEPT ![p] = @ \cup {candidate.id}]
    /\ UNCHANGED <<conn, made>>

Receive(p) ==
    /\ signals[p] # <<>>
    /\ signals' = [signals EXCEPT ![p] = Tail(@)]
    /\ LET m == Head(signals[p]) IN
       \/ m.type = "join" /\ ReceiveJoin(p)
       \/ m.type = "leave" /\ ReceiveLeave(p)
       \/ m.type = "offer" /\ ReceiveOffer(p, m)
       \/ m.type = "answer" /\ ReceiveAnswer(p, m)
       \/ m.type = "ice" /\ ReceiveIce(p, m)
    /\ UNCHANGED <<uiVars, offers, userVars>>

-----------------------------------------------------------------------------
(* The browser.                                                            *)

\* negotiationneeded fires once each time the tracks differ from those negotiated;
\* its handler makes an offer unless one is being made.
NegotiationNeeded(p) ==
    /\ Connected(p)
    /\ conn[p].signaling = "stable" /\ ~conn[p].fired /\ conn[p].tracks # conn[p].sending
    /\ LET c == [conn[p] EXCEPT !.fired = TRUE] IN
       conn' = [conn EXCEPT ![p] =
                   IF c.makingOffer THEN c
                   ELSE Called([c EXCEPT !.makingOffer = TRUE], "createOffer", NoSdp)]
    /\ UNCHANGED <<uiVars, pendingIce, signals, made, offers, userVars>>

\* onicecandidate: a candidate is found once a local description has media.
GatherIce(p) ==
    /\ Connected(p)
    /\ ~conn[p].gathered
    /\ \/ conn[p].signaling = "haveLocalOffer" /\ conn[p].local.lines # {}
       \/ conn[p].signaling = "stable" /\ conn[p].lines # {}
    /\ conn' = [conn EXCEPT ![p].gathered = TRUE]
    /\ Send(p, <<IceFrom(conn[p])>>)
    /\ UNCHANGED <<uiVars, pendingIce, made, offers, userVars>>

\* The first operation of p's connection, with the connection it is called on.
Pending(p, op) ==
    /\ Connected(p)
    /\ conn[p].chain # <<>>
    /\ Head(conn[p].chain).op = op

\* The operation is rejected and the method that awaits it returns an error.
Rejected(p) ==
    /\ conn' = [conn EXCEPT ![p] = Completed(@, @.signaling)]
    /\ UNCHANGED <<pendingIce, signals, offers>>

-----------------------------------------------------------------------------
(* Making an offer: create_offer and the negotiation handler await         *)
(* createOffer, then setLocalDescription.                                  *)

OfferFailed(p) ==
    /\ conn' = [conn EXCEPT ![p] = [Completed(@, @.signaling) EXCEPT !.makingOffer = FALSE]]
    /\ UNCHANGED <<pendingIce, signals, offers>>

OfferCreated(p) ==
    /\ Pending(p, "createOffer")
    /\ IF conn[p].signaling = "haveRemoteOffer"
         THEN OfferFailed(p)
         ELSE LET c == Completed(conn[p], conn[p].signaling)
                  n == offers[p] + 1
              IN  /\ offers' = [offers EXCEPT ![p] = n]
                  /\ conn' = [conn EXCEPT ![p] =
                         Called([c EXCEPT !.created = n], "setOffer",
                                OfferFrom(c, n, c.lines \cup c.tracks, c.tracks))]
                  /\ UNCHANGED <<pendingIce, signals>>
    /\ UNCHANGED <<uiVars, made, userVars>>

\* The browser takes only the offer it created last.
OfferSet(p) ==
    /\ Pending(p, "setOffer")
    /\ LET sdp == Head(conn[p].chain).sdp IN
       IF conn[p].signaling = "haveRemoteOffer" \/ sdp.n # conn[p].created
         THEN OfferFailed(p)
         ELSE /\ conn' = [conn EXCEPT ![p] =
                     [Completed(@, "haveLocalOffer") EXCEPT !.makingOffer = FALSE, !.local = sdp]]
              /\ Send(p, <<sdp>>)
              /\ UNCHANGED <<pendingIce, offers>>
    /\ UNCHANGED <<uiVars, made, userVars>>

\* Mutant of FlushPendingIce: the candidates stay queued.
FlushPendingIceNot(p) == UNCHANGED pendingIce

\* flush_pending_ice.
FlushPendingIce(p) == pendingIce' = [pendingIce EXCEPT ![p] = {}]

\* handle_answer, from setRemoteDescription on.
AnswerApplied(p) ==
    /\ Pending(p, "setRemoteAnswer")
    /\ IF conn[p].signaling # "haveLocalOffer"
         THEN Rejected(p)
         ELSE /\ conn' = [conn EXCEPT ![p] =
                     [Completed(@, "stable") EXCEPT
                         !.remoteSet = TRUE, !.remote = Head(conn[p].chain).sdp.id,
                         !.lines = conn[p].lines \cup conn[p].local.lines, !.sending = conn[p].local.tracks]]
              /\ FlushPendingIce(p)
              /\ UNCHANGED <<signals, offers>>
    /\ UNCHANGED <<uiVars, made, userVars>>

-----------------------------------------------------------------------------
(* Taking an offer: the rest of handle_offer.                              *)

\* The pending offer, ours or the other's, is rolled back; a failure is ignored.
RolledBack(p) ==
    /\ Pending(p, "rollback")
    /\ conn' = [conn EXCEPT ![p] = Called(Completed(@, "stable"), "setRemoteOffer",
                                          Head(@.chain).sdp)]
    /\ UNCHANGED <<uiVars, pendingIce, signals, made, offers, userVars>>

\* setRemoteDescription rolls back a local offer that is still pending.
RemoteOfferSet(p) ==
    /\ Pending(p, "setRemoteOffer")
    /\ conn' = [conn EXCEPT ![p] =
          Called([Completed(@, "haveRemoteOffer") EXCEPT
                     !.remoteSet = TRUE, !.offered = Head(conn[p].chain).sdp],
                 "createAnswer", NoSdp)]
    /\ FlushPendingIce(p)
    /\ UNCHANGED <<uiVars, signals, made, offers, userVars>>

AnswerCreated(p) ==
    /\ Pending(p, "createAnswer")
    /\ IF conn[p].signaling # "haveRemoteOffer"
         THEN Rejected(p)
         ELSE /\ conn' = [conn EXCEPT ![p] =
                     Called(Completed(@, @.signaling), "setAnswer", NoSdp)]
              /\ UNCHANGED <<pendingIce, signals, offers>>
    /\ UNCHANGED <<uiVars, made, userVars>>

AnswerSet(p) ==
    /\ Pending(p, "setAnswer")
    /\ IF conn[p].signaling # "haveRemoteOffer"
         THEN Rejected(p)
         ELSE /\ conn' = [conn EXCEPT ![p] =
                     [Completed(@, "stable") EXCEPT
                         !.remote = conn[p].offered.id, !.lines = conn[p].lines \cup conn[p].offered.lines,
                         !.sending = conn[p].tracks \cap (conn[p].lines \cup conn[p].offered.lines)]]
              /\ Send(p, <<AnswerFrom(conn[p])>>)
              /\ UNCHANGED <<pendingIce, offers>>
    /\ UNCHANGED <<uiVars, made, userVars>>

-----------------------------------------------------------------------------
Complete(p) ==
    \/ OfferCreated(p) \/ OfferSet(p) \/ AnswerApplied(p)
    \/ RolledBack(p) \/ RemoteOfferSet(p) \/ AnswerCreated(p) \/ AnswerSet(p)

VoiceNext ==
    \E p \in VoicePeer :
        \/ ClickJoin(p) \/ MicGranted(p) \/ MicDenied(p) \/ ClickLeave(p) \/ ShareVideo(p)
        \/ Receive(p) \/ NegotiationNeeded(p) \/ GatherIce(p) \/ Complete(p)

VoiceSpec == VoiceInit /\ [][VoiceNext]_voiceVars

-----------------------------------------------------------------------------
(* Properties.                                                             *)

InTheCall == \A p \in VoicePeer : channel[p] /\ inCall[p]

\* Nothing is under way.
Quiet ==
    \A p \in VoicePeer : signals[p] = <<>> /\ asking[p] = 0 /\ (Connected(p) => conn[p].chain = <<>>)

\* With nothing under way, two clients that each joined once and are in the call are
\* connected, each to the connection the other has, whichever offers collided, whatever
\* was rolled back and whenever sharing started or stopped (handle_offer,
\* should_ignore_offer).  It does not hold of clients that come back: see README.md.
CallersMeet ==
    Quiet /\ InTheCall /\ (\A p \in VoicePeer : joins[p] = 1) =>
        \A p \in VoicePeer : Connected(p) /\ conn[p].remote = conn[Other(p)].id

\* A candidate that came early is not left behind: none is queued for a
\* connection that has a remote description.
NoCandidateStranded ==
    \A p \in VoicePeer : Connected(p) /\ conn[p].remoteSet => pendingIce[p] = {}
=============================================================================
