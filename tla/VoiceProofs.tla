----------------------------- MODULE VoiceProofs -----------------------------
(* Proofs about a voice call (Voice), for any number of joins and shares.    *)
EXTENDS Voice, SequenceTheorems, TLAPS

-----------------------------------------------------------------------------
(* A voice call (Voice): candidates that come early.                       *)

ConnField == {"id", "signaling", "makingOffer", "remoteSet", "tracks", "lines", "sending",
              "fired", "gathered", "created", "local", "offered", "remote", "chain"}

\* A connection has all the fields of NewConn.
IsConn(c) == c.id \in Nat \ {0} /\ c = [f \in ConnField |-> c[f]]

\* No candidate is queued for c beside a remote description.
Flushed(c, ice) == c.id # 0 /\ c.remoteSet => ice = {}

VoiceInv ==
    /\ conn = [p \in VoicePeer |-> conn[p]] /\ pendingIce = [p \in VoicePeer |-> pendingIce[p]]
    /\ made \in [VoicePeer -> Nat]
    /\ \A p \in VoicePeer : /\ conn[p] = NoConn \/ IsConn(conn[p])
                            /\ Flushed(conn[p], pendingIce[p])

\* The same connection, as far as its remote description goes.
SameRemote(c, d) == IsConn(c) /\ c.id = d.id /\ c.remoteSet = d.remoteSet

\* A change of another field.
LEMMA OtherField ==
    ASSUME NEW c, IsConn(c), NEW f \in ConnField \ {"id", "remoteSet"}, NEW b
    PROVE  SameRemote([c EXCEPT ![f] = b], c)
<1>1. DOMAIN c = ConnField /\ {"id", "remoteSet"} \subseteq ConnField
  BY DEF IsConn, ConnField
<1>2. [c EXCEPT ![f] = b].id = c.id /\ [c EXCEPT ![f] = b].remoteSet = c.remoteSet
  BY <1>1
<1> DEFINE d == [c EXCEPT ![f] = b]
<1>3. d = [g \in ConnField |-> d[g]]
  BY <1>1, Zenon
<1> QED
  BY <1>2, <1>3 DEF IsConn, SameRemote

LEMMA CalledFacts ==
    ASSUME NEW c, IsConn(c), NEW op, NEW sdp
    PROVE  SameRemote(Called(c, op, sdp), c)
<1>1. "chain" \in ConnField \ {"id", "remoteSet"}
  BY DEF ConnField
<1> QED
  BY <1>1, OtherField, Zenon DEF Called

LEMMA CompletedFacts ==
    ASSUME NEW c, IsConn(c), NEW signaling
    PROVE  SameRemote(Completed(c, signaling), c)
<1> DEFINE d == Completed(c, signaling)
<1>1. DOMAIN c = ConnField /\ {"id", "remoteSet"} \subseteq ConnField
  BY DEF IsConn, ConnField
<1>2. DOMAIN d = ConnField
  BY <1>1 DEF Completed
<1>3. d.id = c.id /\ d.remoteSet = c.remoteSet
  BY <1>1 DEF Completed
<1>4. d = [f \in ConnField |-> d[f]]
  BY <1>2, Zenon DEF Completed
<1> HIDE DEF d
<1>5. SameRemote(d, c)
  BY <1>3, <1>4 DEF IsConn, SameRemote
<1> QED
  BY <1>5 DEF d

\* A step on one peer's connection that keeps its remote description, or flushes.
LEMMA OneConn ==
    ASSUME VoiceInv, NEW p \in VoicePeer, NEW c, c = NoConn \/ IsConn(c),
           conn' = [conn EXCEPT ![p] = c], made' \in [VoicePeer -> Nat],
           \/ pendingIce' = [pendingIce EXCEPT ![p] = {}]
           \/ pendingIce' = pendingIce /\ Flushed(c, pendingIce[p])
    PROVE  VoiceInv'
<1>1. conn'[p] = c /\ conn' = [q \in VoicePeer |-> conn'[q]]
      /\ \A q \in VoicePeer : q # p => conn'[q] = conn[q]
  BY DEF VoiceInv
<1>2. /\ pendingIce' = [q \in VoicePeer |-> pendingIce'[q]]
      /\ Flushed(c, pendingIce'[p])
      /\ \A q \in VoicePeer : q # p => pendingIce'[q] = pendingIce[q]
  BY DEF VoiceInv, Flushed
<1> QED
  BY <1>1, <1>2 DEF VoiceInv

\* get_or_create_connection.
LEMMA GetOrCreateFacts ==
    ASSUME VoiceInv, NEW p \in VoicePeer
    PROVE  /\ IsConn(GetOrCreate(p)) /\ Flushed(GetOrCreate(p), pendingIce[p])
           /\ MadeAfterGet(p) => made' \in [VoicePeer -> Nat]
<1>1. CASE Connected(p)
  <2>1. IsConn(conn[p])
    BY <1>1 DEF VoiceInv, Connected, NoConn
  <2> QED
    BY <1>1, <2>1 DEF VoiceInv, GetOrCreate, MadeAfterGet
<1>2. CASE ~ Connected(p)
  <2>1. IsConn(NewConn(p)) /\ NewConn(p).remoteSet = FALSE
    <3> DEFINE n == NewConn(p)
    <3>1. n.id = made[p] + 1 /\ n.remoteSet = FALSE /\ DOMAIN n = ConnField
      BY DEF NewConn, ConnField
    <3>2. n = [f \in ConnField |-> n[f]]
      BY <3>1, Zenon DEF NewConn
    <3> QED
      BY <3>1, <3>2 DEF IsConn, VoiceInv
  <2>2. MadeAfterGet(p) => made' \in [VoicePeer -> Nat]
    BY <1>2 DEF MadeAfterGet, VoiceInv
  <2> QED
    BY <1>2, <2>1, <2>2 DEF GetOrCreate, Flushed
<1> QED
  BY <1>1, <1>2

LEMMA ConnectedIsConn ==
    ASSUME VoiceInv, NEW p \in VoicePeer, Connected(p)
    PROVE  IsConn(conn[p])
  BY DEF VoiceInv, Connected, NoConn

LEMMA SameRemoteChains ==
    ASSUME NEW c, NEW d, NEW e, SameRemote(c, d), SameRemote(d, e)
    PROVE  SameRemote(c, e)
  BY DEF SameRemote

\* A step that keeps the remote description of the connection there is.
LEMMA SameConn ==
    ASSUME VoiceInv, NEW p \in VoicePeer, Connected(p), NEW c, SameRemote(c, conn[p]),
           conn' = [conn EXCEPT ![p] = c], pendingIce' = pendingIce, made' = made
    PROVE  VoiceInv'
<1>1. Flushed(c, pendingIce[p]) /\ IsConn(c) /\ made' \in [VoicePeer -> Nat]
  BY DEF VoiceInv, SameRemote, Flushed
<1> QED
  BY <1>1, OneConn, Zenon

LEMMA UserKeeps ==
    ASSUME VoiceInv, NEW p \in VoicePeer,
           ClickJoin(p) \/ MicGranted(p) \/ MicDenied(p) \/ ClickLeave(p) \/ ShareVideo(p)
    PROVE  VoiceInv'
<1>1. CASE ClickJoin(p) \/ MicGranted(p) \/ MicDenied(p)
  BY <1>1 DEF ClickJoin, MicGranted, MicDenied, VoiceInv
<1>2. CASE ClickLeave(p)
  <2>1. made' \in [VoicePeer -> Nat]
    BY <1>2 DEF ClickLeave, VoiceInv
  <2> QED
    BY <1>2, <2>1, OneConn, Zenon DEF ClickLeave
<1>3. CASE ShareVideo(p)
  <2>1. CASE Connected(p)
    <3> DEFINE b == IF video[p] THEN conn[p].tracks \ {"video"} ELSE conn[p].tracks \cup {"video"}
               c == [conn[p] EXCEPT !.tracks = b]
    <3>1. "tracks" \in ConnField \ {"id", "remoteSet"}
      BY DEF ConnField
    <3>2. SameRemote(c, conn[p])
      BY <2>1, <3>1, ConnectedIsConn, OtherField
    <3>3. conn' = [conn EXCEPT ![p] = c]
      BY <1>3, <2>1 DEF ShareVideo
    <3> HIDE DEF c
    <3> QED
      BY <1>3, <2>1, <3>2, <3>3, SameConn, Zenon DEF ShareVideo
  <2>2. CASE ~ Connected(p)
    BY <1>3, <2>2 DEF ShareVideo, VoiceInv
  <2> QED
    BY <2>1, <2>2
<1> QED
  BY <1>1, <1>2, <1>3

LEMMA ReceiveKeeps ==
    ASSUME VoiceInv, NEW p \in VoicePeer, Receive(p)
    PROVE  VoiceInv'
<1>1. CASE ReceiveJoin(p)
  <2>1. CASE channel[p]
    <3> DEFINE c == [GetOrCreate(p) EXCEPT !.makingOffer = TRUE]
               d == Called(c, "createOffer", NoSdp)
    <3>1. "makingOffer" \in ConnField \ {"id", "remoteSet"}
      BY DEF ConnField
    <3>2. SameRemote(c, GetOrCreate(p))
      BY <3>1, GetOrCreateFacts, OtherField
    <3>3. SameRemote(d, c)
      BY <3>2, CalledFacts, ZenonT(30) DEF SameRemote
    <3>4. IsConn(d) /\ Flushed(d, pendingIce[p])
      BY <3>2, <3>3, GetOrCreateFacts DEF SameRemote, Flushed
    <3>5. /\ conn' = [conn EXCEPT ![p] = d] /\ pendingIce' = pendingIce
          /\ made' \in [VoicePeer -> Nat]
      BY <1>1, <2>1, GetOrCreateFacts DEF ReceiveJoin
    <3> HIDE DEF d
    <3> QED
      BY <3>4, <3>5, OneConn, Zenon
  <2>2. CASE ~ channel[p]
    BY <1>1, <2>2 DEF ReceiveJoin, VoiceInv
  <2> QED
    BY <2>1, <2>2
<1>2. CASE ReceiveLeave(p)
  <2>1. made' \in [VoicePeer -> Nat]
    BY <1>2 DEF ReceiveLeave, VoiceInv
  <2> QED
    BY <1>2, <2>1, OneConn, Zenon DEF ReceiveLeave
<1>3. ASSUME NEW sdp, ReceiveOffer(p, sdp)
      PROVE  VoiceInv'
  <2> DEFINE c == GetOrCreate(p)
             stable == c.signaling = "stable"
             d == IF ShouldIgnoreOffer(p = Polite, c.makingOffer, stable) THEN c
                  ELSE IF stable THEN Called(c, "setRemoteOffer", sdp)
                  ELSE Called(c, "rollback", sdp)
  <2>1. IsConn(c) /\ Flushed(c, pendingIce[p])
    BY GetOrCreateFacts
  <2>2. conn' = [conn EXCEPT ![p] = d] /\ pendingIce' = pendingIce /\ made' \in [VoicePeer -> Nat]
    BY <1>3, GetOrCreateFacts DEF ReceiveOffer
  <2> HIDE DEF c, stable
  <2>3. IsConn(d) /\ Flushed(d, pendingIce[p])
    BY <2>1, CalledFacts DEF SameRemote, Flushed
  <2> HIDE DEF d
  <2> QED
    BY <2>2, <2>3, OneConn, Zenon
<1>4. ASSUME NEW sdp, ReceiveAnswer(p, sdp)
      PROVE  VoiceInv'
  <2>1. CASE Connected(p)
    <3> DEFINE c == Called(conn[p], "setRemoteAnswer", sdp)
    <3>1. SameRemote(c, conn[p])
      BY <2>1, ConnectedIsConn, CalledFacts
    <3>2. conn' = [conn EXCEPT ![p] = c] /\ pendingIce' = pendingIce /\ made' = made
      BY <1>4, <2>1 DEF ReceiveAnswer
    <3> HIDE DEF c
    <3> QED
      BY <2>1, <3>1, <3>2, SameConn, Zenon
  <2>2. CASE ~ Connected(p)
    BY <1>4, <2>2 DEF ReceiveAnswer, VoiceInv
  <2> QED
    BY <2>1, <2>2
<1>5. ASSUME NEW candidate, ReceiveIce(p, candidate)
      PROVE  VoiceInv'
  BY <1>5, Zenon DEF ReceiveIce, VoiceInv, Flushed, Connected
<1> QED
  BY <1>1, <1>2, <1>3, <1>4, <1>5 DEF Receive

\* The fields the browser's steps set.
LEMMA Fields ==
    {"makingOffer", "fired", "gathered", "created", "local", "remote", "lines", "sending", "offered"}
        \subseteq ConnField \ {"id", "remoteSet"}
  BY DEF ConnField

\* The first operation completed, and another called.
LEMMA OperationFacts ==
    ASSUME VoiceInv, NEW p \in VoicePeer, Connected(p), NEW s, NEW op, NEW sdp
    PROVE  /\ SameRemote(Completed(conn[p], s), conn[p])
           /\ SameRemote(Called(Completed(conn[p], s), op, sdp), conn[p])
           /\ SameRemote([Completed(conn[p], s) EXCEPT !.makingOffer = FALSE], conn[p])
<1> DEFINE c == Completed(conn[p], s)
<1>1. SameRemote(c, conn[p]) /\ IsConn(c)
  BY ConnectedIsConn, CompletedFacts DEF SameRemote
<1> HIDE DEF c
<1>2. SameRemote(Called(c, op, sdp), c) /\ SameRemote([c EXCEPT !.makingOffer = FALSE], c)
  BY <1>1, CalledFacts, OtherField, Fields
<1>3. SameRemote(Called(c, op, sdp), conn[p]) /\ SameRemote([c EXCEPT !.makingOffer = FALSE], conn[p])
  BY <1>1, <1>2, SameRemoteChains
<1> QED
  BY <1>1, <1>3 DEF c

\* A rejected operation, and an offer that fails.
LEMMA FailureKeeps ==
    ASSUME VoiceInv, NEW p \in VoicePeer, Connected(p), Rejected(p) \/ OfferFailed(p), made' = made
    PROVE  VoiceInv'
<1>1. PICK c : /\ c = Completed(conn[p], conn[p].signaling)
                  \/ c = [Completed(conn[p], conn[p].signaling) EXCEPT !.makingOffer = FALSE]
               /\ conn' = [conn EXCEPT ![p] = c]
  BY DEF Rejected, OfferFailed
<1>2. SameRemote(c, conn[p])
  BY <1>1, OperationFacts, Zenon
<1> QED
  BY <1>1, <1>2, SameConn, Zenon DEF Rejected, OfferFailed

LEMMA BrowserKeeps ==
    ASSUME VoiceInv, NEW p \in VoicePeer, NegotiationNeeded(p) \/ GatherIce(p)
    PROVE  VoiceInv'
<1>1. CASE NegotiationNeeded(p)
  <2> DEFINE c == [conn[p] EXCEPT !.fired = TRUE]
             m == [c EXCEPT !.makingOffer = TRUE]
             d == IF c.makingOffer THEN c ELSE Called(m, "createOffer", NoSdp)
  <2>1. Connected(p) /\ IsConn(conn[p])
    BY <1>1, ConnectedIsConn DEF NegotiationNeeded
  <2>2. SameRemote(c, conn[p])
    BY <2>1, OtherField, Fields
  <2>3. conn' = [conn EXCEPT ![p] = d] /\ pendingIce' = pendingIce /\ made' = made
    BY <1>1 DEF NegotiationNeeded
  <2> HIDE DEF c
  <2>4. SameRemote(m, c)
    BY <2>2, OtherField, Fields DEF SameRemote
  <2> HIDE DEF m
  <2>5. SameRemote(Called(m, "createOffer", NoSdp), m)
    BY <2>4, CalledFacts DEF SameRemote
  <2>6. SameRemote(d, conn[p])
    BY <2>2, <2>4, <2>5, SameRemoteChains
  <2> HIDE DEF d
  <2> QED
    BY <2>1, <2>3, <2>6, SameConn, Zenon
<1>2. CASE GatherIce(p)
  <2> DEFINE c == [conn[p] EXCEPT !.gathered = TRUE]
  <2>1. Connected(p) /\ IsConn(conn[p])
    BY <1>2, ConnectedIsConn DEF GatherIce
  <2>2. SameRemote(c, conn[p])
    BY <2>1, OtherField, Fields
  <2>3. conn' = [conn EXCEPT ![p] = c] /\ pendingIce' = pendingIce /\ made' = made
    BY <1>2 DEF GatherIce
  <2> HIDE DEF c
  <2> QED
    BY <2>1, <2>2, <2>3, SameConn, Zenon
<1> QED
  BY <1>1, <1>2

LEMMA OfferKeeps ==
    ASSUME VoiceInv, NEW p \in VoicePeer, OfferCreated(p) \/ OfferSet(p)
    PROVE  VoiceInv'
<1>1. Connected(p) /\ IsConn(conn[p]) /\ made' = made
  BY ConnectedIsConn DEF OfferCreated, OfferSet, Pending
<1>2. CASE OfferFailed(p)
  BY <1>1, <1>2, FailureKeeps
<1>3. CASE OfferCreated(p) /\ ~ OfferFailed(p)
  <2> DEFINE c == Completed(conn[p], conn[p].signaling)
             n == offers[p] + 1
             m == [c EXCEPT !.created = n]
             sdp == OfferFrom(c, n, c.lines \cup c.tracks, c.tracks)
             d == Called(m, "setOffer", sdp)
  <2>1. SameRemote(c, conn[p])
    BY <1>1, OperationFacts, Zenon
  <2>2. conn' = [conn EXCEPT ![p] = d] /\ pendingIce' = pendingIce
    BY <1>3 DEF OfferCreated
  <2> HIDE DEF c, n, sdp
  <2>3. SameRemote(m, c)
    BY <2>1, OtherField, Fields DEF SameRemote
  <2> HIDE DEF m
  <2>4. SameRemote(d, m)
    BY <2>3, CalledFacts DEF SameRemote
  <2>5. SameRemote(d, conn[p])
    BY <2>1, <2>3, <2>4, SameRemoteChains
  <2> HIDE DEF d
  <2> QED
    BY <1>1, <2>2, <2>5, SameConn, Zenon
<1>4. CASE OfferSet(p) /\ ~ OfferFailed(p)
  <2> DEFINE sdp == Head(conn[p].chain).sdp
             c == Completed(conn[p], "haveLocalOffer")
             m == [c EXCEPT !.makingOffer = FALSE]
             d == [m EXCEPT !.local = sdp]
  <2>1. SameRemote(c, conn[p])
    BY <1>1, OperationFacts, Zenon
  <2>2. conn' = [conn EXCEPT ![p] = d] /\ pendingIce' = pendingIce
    BY <1>4 DEF OfferSet
  <2> HIDE DEF c, sdp
  <2>3. SameRemote(m, c)
    BY <2>1, OtherField, Fields DEF SameRemote
  <2> HIDE DEF m
  <2>4. SameRemote(d, m)
    BY <2>3, OtherField, Fields DEF SameRemote
  <2>5. SameRemote(d, conn[p])
    BY <2>1, <2>3, <2>4, SameRemoteChains
  <2> HIDE DEF d
  <2> QED
    BY <1>1, <2>2, <2>5, SameConn, Zenon
<1> QED
  BY <1>2, <1>3, <1>4

LEMMA RemoteSetFacts ==
    ASSUME NEW c, IsConn(c), NEW b
    PROVE  IsConn([c EXCEPT !.remoteSet = b])
<1> DEFINE d == [c EXCEPT !.remoteSet = b]
<1>1. DOMAIN c = ConnField /\ {"id", "remoteSet"} \subseteq ConnField
  BY DEF IsConn, ConnField
<1>2. d.id = c.id /\ d = [g \in ConnField |-> d[g]]
  BY <1>1
<1> QED
  BY <1>2 DEF IsConn

\* The remote description is set, and the queued candidates go to it.
LEMMA FlushKeeps ==
    ASSUME VoiceInv, NEW p \in VoicePeer, AnswerApplied(p) \/ RemoteOfferSet(p)
    PROVE  VoiceInv'
<1>1. Connected(p) /\ IsConn(conn[p]) /\ made' \in [VoicePeer -> Nat]
  BY ConnectedIsConn DEF AnswerApplied, RemoteOfferSet, Pending, VoiceInv
<1>2. CASE Rejected(p) /\ made' = made
  BY <1>1, <1>2, FailureKeeps
<1>3. CASE AnswerApplied(p) /\ ~ Rejected(p)
  <2> DEFINE c == Completed(conn[p], "stable")
             d == [c EXCEPT !.remoteSet = TRUE, !.remote = Head(conn[p].chain).sdp.id,
                            !.lines = conn[p].lines \cup conn[p].local.lines, !.sending = conn[p].local.tracks]
  <2>1. IsConn(c)
    BY <1>1, OperationFacts, Zenon DEF SameRemote
  <2>2. conn' = [conn EXCEPT ![p] = d] /\ pendingIce' = [pendingIce EXCEPT ![p] = {}]
    BY <1>3 DEF AnswerApplied, FlushPendingIce
  <2> HIDE DEF c
  <2>3. DOMAIN c = ConnField /\ "id" \in ConnField
    BY <2>1 DEF IsConn, ConnField
  <2>4. d.id = c.id /\ d = [f \in ConnField |-> d[f]]
    BY <2>3, Zenon
  <2> HIDE DEF d
  <2>5. IsConn(d)
    BY <2>1, <2>4 DEF IsConn
  <2> QED
    BY <1>1, <2>2, <2>5, OneConn, Zenon
<1>4. CASE RemoteOfferSet(p)
  <2> DEFINE c == Completed(conn[p], "haveRemoteOffer")
             c1 == [c EXCEPT !.remoteSet = TRUE]
             c2 == [c1 EXCEPT !.offered = Head(conn[p].chain).sdp]
             c3 == Called(c2, "createAnswer", NoSdp)
  <2>1. IsConn(c)
    BY <1>1, OperationFacts, Zenon DEF SameRemote
  <2>2. conn' = [conn EXCEPT ![p] = c3] /\ pendingIce' = [pendingIce EXCEPT ![p] = {}]
    BY <1>4 DEF RemoteOfferSet, FlushPendingIce
  <2> HIDE DEF c
  <2>3. IsConn(c1)
    BY <2>1, RemoteSetFacts
  <2> HIDE DEF c1
  <2>4. IsConn(c2)
    BY <2>3, OtherField, Fields, Zenon DEF SameRemote
  <2> HIDE DEF c2
  <2>5. IsConn(c3)
    BY <2>4, CalledFacts DEF SameRemote
  <2> HIDE DEF c3
  <2> QED
    BY <1>1, <2>2, <2>5, OneConn, Zenon
<1> QED
  BY <1>2, <1>3, <1>4 DEF AnswerApplied

LEMMA AnswerKeeps ==
    ASSUME VoiceInv, NEW p \in VoicePeer, RolledBack(p) \/ AnswerCreated(p) \/ AnswerSet(p)
    PROVE  VoiceInv'
<1>1. Connected(p) /\ IsConn(conn[p]) /\ made' = made
  BY ConnectedIsConn DEF RolledBack, AnswerCreated, AnswerSet, Pending
<1>2. CASE Rejected(p)
  BY <1>1, <1>2, FailureKeeps
<1>3. CASE RolledBack(p) \/ (AnswerCreated(p) /\ ~ Rejected(p))
  <2>1. PICK c : /\ \E s, op, sdp : c = Called(Completed(conn[p], s), op, sdp)
                 /\ conn' = [conn EXCEPT ![p] = c]
    BY <1>3 DEF RolledBack, AnswerCreated
  <2>2. SameRemote(c, conn[p])
    BY <1>1, <2>1, OperationFacts, Zenon
  <2> QED
    BY <1>1, <1>3, <2>1, <2>2, SameConn, Zenon DEF RolledBack, AnswerCreated
<1>4. CASE AnswerSet(p) /\ ~ Rejected(p)
  <2> DEFINE c == Completed(conn[p], "stable")
             d == [c EXCEPT !.remote = conn[p].offered.id, !.lines = conn[p].lines \cup conn[p].offered.lines,
                            !.sending = conn[p].tracks \cap (conn[p].lines \cup conn[p].offered.lines)]
  <2>1. SameRemote(c, conn[p])
    BY <1>1, OperationFacts, Zenon
  <2>2. conn' = [conn EXCEPT ![p] = d] /\ pendingIce' = pendingIce
    BY <1>4 DEF AnswerSet
  <2> HIDE DEF c
  <2>3. DOMAIN c = ConnField /\ {"id", "remoteSet"} \subseteq ConnField
    BY <2>1 DEF SameRemote, IsConn, ConnField
  <2>4. d.id = c.id /\ d.remoteSet = c.remoteSet /\ d = [f \in ConnField |-> d[f]]
    BY <2>3, Zenon
  <2> HIDE DEF d
  <2>5. SameRemote(d, conn[p])
    BY <2>1, <2>4 DEF SameRemote, IsConn
  <2> QED
    BY <1>1, <2>2, <2>5, SameConn, Zenon
<1> QED
  BY <1>2, <1>3, <1>4

LEMMA VoiceInvariant == VoiceSpec => []VoiceInv
<1>1. VoiceInit => VoiceInv
  BY DEF VoiceInit, VoiceInv, NoConn, Flushed
<1>2. VoiceInv /\ [VoiceNext]_voiceVars => VoiceInv'
  <2> SUFFICES ASSUME VoiceInv, [VoiceNext]_voiceVars
               PROVE  VoiceInv'
    OBVIOUS
  <2>1. CASE UNCHANGED voiceVars
    BY <2>1 DEF voiceVars, VoiceInv
  <2>2. CASE VoiceNext
    BY <2>2, UserKeeps, ReceiveKeeps, BrowserKeeps, OfferKeeps, FlushKeeps, AnswerKeeps
       DEF VoiceNext, Complete
  <2> QED
    BY <2>1, <2>2
<1> QED
  BY <1>1, <1>2, PTL DEF VoiceSpec

\* A candidate that came before its remote description is applied with it: none is
\* ever queued beside a remote description, whatever offers collide and however
\* often a client leaves (handle_ice_candidate, flush_pending_ice).
THEOREM NoCandidateIsStranded == VoiceSpec => []NoCandidateStranded
<1>1. VoiceInv => NoCandidateStranded
  BY DEF VoiceInv, NoCandidateStranded, Connected, Flushed
<1> QED
  BY <1>1, VoiceInvariant, PTL

-----------------------------------------------------------------------------
(* A voice call: two clients that joined once meet.                        *)
(*                                                                         *)
(* A handler's awaits let messages and operations overtake one another, so *)
(* the argument does not follow their order: it asks only which messages   *)
(* are on their way, which operations are called, and which of the two     *)
(* peers still owes the other something.                                   *)

IsSeq(s) == \E S : s \in Seq(S)
Items(s) == {s[i] : i \in 1 .. Len(s)}
Has(msgs, type) == \E m \in msgs : m.type = type

LEMMA EmptyItems == IsSeq(<<>>) /\ Items(<<>>) = {}
<1>1. <<>> \in Seq({}) /\ Len(<<>>) = 0
  OBVIOUS
<1> QED
  BY <1>1 DEF IsSeq, Items

LEMMA AppendItems ==
    ASSUME NEW s, IsSeq(s), NEW x
    PROVE  IsSeq(Append(s, x)) /\ Items(Append(s, x)) = Items(s) \cup {x}
<1>1. PICK S : s \in Seq(S)
  BY DEF IsSeq
<1> DEFINE T == S \cup {x}
<1>2. s \in Seq(T) /\ x \in T
  BY <1>1
<1> HIDE DEF T
<1>3. /\ Append(s, x) \in Seq(T) /\ Len(Append(s, x)) = Len(s) + 1 /\ Len(s) \in Nat
      /\ Append(s, x)[Len(s) + 1] = x
      /\ \A i \in 1 .. Len(s) : Append(s, x)[i] = s[i]
  BY <1>2, AppendProperties, LenProperties
<1> DEFINE t == Append(s, x)
           n == Len(s)
<1> HIDE DEF t, n
<1>4. {t[i] : i \in 1 .. (n + 1)} = {s[i] : i \in 1 .. n} \cup {x}
  BY <1>3 DEF t, n
<1> QED
  BY <1>3, <1>4 DEF IsSeq, Items, t, n

LEMMA TailItems ==
    ASSUME NEW s, IsSeq(s), s # <<>>
    PROVE  IsSeq(Tail(s)) /\ Items(s) = Items(Tail(s)) \cup {Head(s)}
<1>1. PICK S : s \in Seq(S)
  BY DEF IsSeq
<1>2. /\ Tail(s) \in Seq(S) /\ Len(Tail(s)) = Len(s) - 1 /\ Len(s) \in Nat /\ Len(s) > 0
      /\ Head(s) = s[1]
      /\ \A i \in 1 .. (Len(s) - 1) : Tail(s)[i] = s[i + 1]
  BY <1>1, HeadTailProperties, EmptySeq, LenProperties
<1> DEFINE t == Tail(s)
           n == Len(s)
           h == Head(s)
<1> HIDE DEF t, n, h
<1>3. {s[i] : i \in 1 .. n} = {t[i] : i \in 1 .. (n - 1)} \cup {h}
  <2>1. ASSUME NEW i \in 1 .. n
        PROVE  s[i] = h \/ \E j \in 1 .. (n - 1) : s[i] = t[j]
    <3>1. i = 1 \/ i - 1 \in 1 .. (n - 1)
      BY <1>2 DEF n
    <3>2. i - 1 \in 1 .. (n - 1) => s[i] = t[i - 1]
      BY <1>2 DEF t, n
    <3> QED
      BY <1>2, <3>1, <3>2 DEF h
  <2>2. ASSUME NEW i \in 1 .. (n - 1)
        PROVE  i + 1 \in 1 .. n /\ t[i] = s[i + 1]
    BY <1>2 DEF t, n
  <2>3. 1 \in 1 .. n /\ h = s[1]
    BY <1>2 DEF n, h
  <2> QED
    BY <2>1, <2>2, <2>3, SMTT(30)
<1> QED
  BY <1>2, <1>3 DEF IsSeq, Items, t, n, h

\* A message put behind those on their way.
LEMMA SentItems ==
    ASSUME NEW s, IsSeq(s), NEW m
    PROVE  IsSeq(s \o <<m>>) /\ Items(s \o <<m>>) = Items(s) \cup {m}
<1>1. PICK S : s \in Seq(S)
  BY DEF IsSeq
<1>2. s \in Seq(S \cup {m}) /\ m \in S \cup {m}
  BY <1>1
<1>3. s \o <<m>> = Append(s, m)
  BY <1>2, AppendIsConcat
<1> QED
  BY <1>3, AppendItems, Zenon

\* An operation of the connection that is called and has not completed.
HasOp(c, op) == \E x \in Items(c.chain) : x.op = op

\* The connection is taking an offer, to answer it.
Taking(c) ==
    HasOp(c, "setRemoteOffer") \/ HasOp(c, "rollback") \/ c.signaling = "haveRemoteOffer"

\* It is making an offer that the browser will accept.
Offering(c) ==
    \/ HasOp(c, "createOffer")
    \/ \E x \in Items(c.chain) : x.op = "setOffer" /\ x.sdp.n = c.created

\* It has made an offer, and its answer is to come.
Awaiting(c) == c.signaling = "haveLocalOffer"

Settled(c) == c.remote # 0

\* No connection is the second of its peer, or comes from one; what is begun has an
\* operation that will end it.
FineConn(c) ==
    /\ IsConn(c) /\ IsSeq(c.chain)
    /\ c.id = 1 /\ c.remote \in {0, 1}
    /\ c.signaling \in {"stable", "haveLocalOffer", "haveRemoteOffer"}
    /\ c.makingOffer \in BOOLEAN /\ (c.makingOffer => Offering(c))
    /\ c.signaling = "haveRemoteOffer" =>
           c.offered.id = 1 /\ (HasOp(c, "createAnswer") \/ HasOp(c, "setAnswer") \/ HasOp(c, "rollback"))
    /\ \A x \in Items(c.chain) :
           /\ x.op \in {"setOffer", "setRemoteOffer", "rollback", "setRemoteAnswer"} => x.sdp.id = 1
           /\ x.op = "setOffer" => x.sdp.type = "offer"

FineMessage(m) == m.type # "leave" /\ (m.type \in {"offer", "answer"} => m.id = 1)

Coming(p, type) == Has(Items(signals[p]), type)

FinePeers ==
    \A p \in VoicePeer :
        /\ made[p] = IF Connected(p) THEN 1 ELSE 0
        /\ Connected(p) => FineConn(conn[p])
        /\ IsSeq(signals[p])
        /\ \A m \in Items(signals[p]) : FineMessage(m)

PeerTakes(p) == Connected(p) /\ Taking(conn[p])
PeerOffers(p) == Connected(p) /\ Offering(conn[p])
PeerAwaits(p) == Connected(p) /\ Awaiting(conn[p])
PeerSettled(p) == Connected(p) /\ Settled(conn[p])
PeerAnswered(p) ==
    Coming(p, "answer") \/ (Connected(p) /\ HasOp(conn[p], "setRemoteAnswer"))

\* What is owed: a connection is settled, or something under way will settle it.  The
\* polite peer answers every offer that comes; the impolite one may ignore an offer
\* only while its own is being made, or is being answered.
Owed ==
    /\ Connected(Polite) =>
          \/ PeerSettled(Polite) \/ Coming(Polite, "offer") \/ PeerTakes(Polite) \/ PeerOffers(Polite)
          \/ /\ PeerAwaits(Polite)
             /\ \/ PeerAnswered(Polite) \/ Coming(Impolite, "offer")
                \/ PeerTakes(Impolite) \/ PeerOffers(Impolite)
    /\ Connected(Impolite) =>
          \/ PeerSettled(Impolite) \/ PeerTakes(Impolite) \/ PeerOffers(Impolite)
          \/ /\ PeerAwaits(Impolite)
             /\ PeerAnswered(Impolite) \/ Coming(Polite, "offer") \/ PeerTakes(Polite)
    /\ PeerAwaits(Impolite) => Coming(Polite, "offer") \/ PeerTakes(Polite) \/ PeerSettled(Polite)

\* What a peer has of the other comes from a connection the other still has.
FromThere ==
    \A p \in VoicePeer :
        Coming(p, "offer") \/ PeerAnswered(p) \/ PeerTakes(p) \/ PeerSettled(p) => Connected(Other(p))

\* With both in the call, the one that came last is known to the other, or will be.
Announced ==
    (\A p \in VoicePeer : inCall[p]) => \E p \in VoicePeer : Coming(p, "join") \/ Connected(p)

\* Each user has joined at most once, and stayed.
Fresh ==
    \A p \in VoicePeer :
        \/ joins[p] = 0 /\ ~channel[p] /\ asking[p] = 0 /\ ~inCall[p]
        \/ joins[p] = 1 /\ channel[p] /\ asking[p] = 1 /\ ~inCall[p]
        \/ joins[p] = 1 /\ channel[p] /\ asking[p] = 0 /\ inCall[p]

\* A user came back, or left the call for good.
Spent == \E p \in VoicePeer : joins[p] >= 2 \/ (joins[p] = 1 /\ ~channel[p])

CallTypes ==
    /\ signals = [p \in VoicePeer |-> signals[p]]
    /\ channel \in [VoicePeer -> BOOLEAN] /\ inCall \in [VoicePeer -> BOOLEAN]
    /\ joins \in [VoicePeer -> Nat] /\ asking \in [VoicePeer -> Int]

CallInv == CallTypes /\ (Spent \/ (Fresh /\ FinePeers /\ Owed /\ FromThere /\ Announced))

LEMMA OtherFacts ==
    /\ Other(Polite) = Impolite /\ Other(Impolite) = Polite
    /\ \A p \in VoicePeer : Other(p) \in VoicePeer /\ Other(p) # p /\ Other(Other(p)) = p
<1>1. ASSUME NEW p \in VoicePeer
      PROVE  Other(p) \in VoicePeer /\ Other(p) # p
  <2>1. \E q \in VoicePeer : q # p
    BY VoiceAssumption DEF VoicePeer
  <2> QED
    BY <2>1, Zenon DEF Other
<1>2. Polite \in VoicePeer /\ Impolite \in VoicePeer
  BY DEF VoicePeer
<1> QED
  BY <1>1, <1>2, VoiceAssumption DEF VoicePeer

\* A step of one peer takes its connection from c to d, takes the messages got and
\* sends the messages sent: what it owed it still owes, or has given.
Turn(ignores, c, d, got, sent) ==
    /\ Settled(c) => Settled(d)
    /\ Awaiting(d) => Awaiting(c) \/ Has(sent, "offer")
    /\ Awaiting(c) => Awaiting(d) \/ Taking(d) \/ Settled(d)
    /\ Taking(c) => Taking(d) \/ (Settled(d) /\ Has(sent, "answer"))
    /\ Offering(c) => Offering(d) \/ Taking(d) \/ (Awaiting(d) /\ Has(sent, "offer"))
    /\ Awaiting(c) /\ HasOp(c, "setRemoteAnswer") => HasOp(d, "setRemoteAnswer") \/ Settled(d)
    /\ Taking(d) => Taking(c) \/ Has(got, "offer")
    /\ HasOp(d, "setRemoteAnswer") => HasOp(c, "setRemoteAnswer") \/ Has(got, "answer")
    /\ Settled(d) => Settled(c) \/ Taking(c) \/ HasOp(c, "setRemoteAnswer")
    /\ Has(got, "offer") => Taking(d) \/ (ignores /\ (Offering(d) \/ Awaiting(c)))
    /\ Has(got, "answer") => HasOp(d, "setRemoteAnswer")

\* A connection that is not there is one with nothing negotiated.
NoView(c) == ~ Taking(c) /\ ~ Offering(c) /\ ~ Awaiting(c) /\ ~ Settled(c) /\ ~ HasOp(c, "setRemoteAnswer")

\* How p's connection and the messages change in such a step.
Change(p, c, d, got, sent) ==
    /\ IF Connected(p) THEN c = conn[p] ELSE NoView(c) /\ (Offering(d) \/ Taking(d))
    /\ conn' = [conn EXCEPT ![p] = d]
    /\ Items(signals[p]) = Items(signals'[p]) \cup got
    /\ Items(signals'[Other(p)]) = Items(signals[Other(p)]) \cup sent

LEMMA HasCup ==
    ASSUME NEW A, NEW B, NEW type
    PROVE  Has(A \cup B, type) <=> Has(A, type) \/ Has(B, type)
  BY DEF Has

LEMMA TurnOwes ==
    ASSUME VoiceInv, Owed, FromThere, NEW p \in VoicePeer, NEW c, NEW d, FineConn(d), NEW got, NEW sent,
           Change(p, c, d, got, sent), Turn(p = Impolite, c, d, got, sent)
    PROVE  Owed' /\ FromThere' /\ Announced'
<1> DEFINE q == Other(p)
<1>1. q \in VoicePeer /\ q # p /\ Other(q) = p
  BY OtherFacts
<1>2. conn'[p] = d /\ conn'[q] = conn[q]
  BY <1>1 DEF Change, VoiceInv
<1>3. d.id # 0
  BY DEF FineConn
<1>4. /\ Connected(p)' /\ (PeerTakes(p)' <=> Taking(d)) /\ (PeerOffers(p)' <=> Offering(d))
      /\ (PeerAwaits(p)' <=> Awaiting(d)) /\ (PeerSettled(p)' <=> Settled(d))
      /\ (PeerAnswered(p)' <=> Coming(p, "answer")' \/ HasOp(d, "setRemoteAnswer"))
  BY <1>2, <1>3 DEF Connected, PeerTakes, PeerOffers, PeerAwaits, PeerSettled, PeerAnswered
<1>5. /\ (PeerTakes(p) <=> Taking(c)) /\ (PeerOffers(p) <=> Offering(c))
      /\ (PeerAwaits(p) <=> Awaiting(c)) /\ (PeerSettled(p) <=> Settled(c))
      /\ (PeerAnswered(p) <=> Coming(p, "answer") \/ HasOp(c, "setRemoteAnswer"))
      /\ Connected(p) \/ Offering(d) \/ Taking(d)
  BY DEF Change, NoView, PeerTakes, PeerOffers, PeerAwaits, PeerSettled, PeerAnswered
<1>6. /\ (Connected(q)' <=> Connected(q)) /\ (PeerTakes(q)' <=> PeerTakes(q))
      /\ (PeerOffers(q)' <=> PeerOffers(q)) /\ (PeerAwaits(q)' <=> PeerAwaits(q))
      /\ (PeerSettled(q)' <=> PeerSettled(q))
      /\ (PeerAnswered(q)' <=> PeerAnswered(q) \/ Has(sent, "answer"))
      /\ (Coming(q, "offer")' <=> Coming(q, "offer") \/ Has(sent, "offer"))
  <2>1. Coming(q, "answer")' <=> Coming(q, "answer") \/ Has(sent, "answer")
    BY HasCup DEF Change, Coming
  <2>2. Coming(q, "offer")' <=> Coming(q, "offer") \/ Has(sent, "offer")
    BY HasCup DEF Change, Coming
  <2> QED
    BY <1>2, <2>1, <2>2 DEF Connected, PeerTakes, PeerOffers, PeerAwaits, PeerSettled, PeerAnswered
<1>7. /\ Coming(p, "offer") <=> Coming(p, "offer")' \/ Has(got, "offer")
      /\ Coming(p, "answer") <=> Coming(p, "answer")' \/ Has(got, "answer")
  BY HasCup DEF Change, Coming
<1> HIDE DEF q
<1>8. FromThere'
  <2>1. Coming(p, "offer")' \/ PeerAnswered(p)' \/ PeerTakes(p)' \/ PeerSettled(p)' => Connected(q)'
    BY <1>4, <1>5, <1>6, <1>7 DEF FromThere, Turn, q
  <2>2. Connected(Other(q))'
    BY <1>1, <1>4
  <2> QED
    BY <1>1, <2>1, <2>2, VoiceAssumption, SMTT(30) DEF FromThere, VoicePeer, q
<1>9. Announced'
  BY <1>4, ZenonT(30) DEF Announced
<1>10. CASE p = Polite
  <2>1. q = Impolite
    BY <1>10, OtherFacts, ZenonT(30) DEF q
  <2> QED
    BY <1>4, <1>5, <1>6, <1>7, <1>8, <1>9, <1>10, <2>1, VoiceAssumption DEF Owed, Turn
<1>11. CASE p = Impolite
  <2>1. q = Polite
    BY <1>11, OtherFacts DEF q
  <2> QED
    BY <1>4, <1>5, <1>6, <1>7, <1>8, <1>9, <1>11, <2>1 DEF Owed, Turn
<1> QED
  BY <1>10, <1>11 DEF VoicePeer

\* The fields the argument looks at.
SameView(d, c) ==
    /\ d.id = c.id /\ d.signaling = c.signaling /\ d.makingOffer = c.makingOffer
    /\ d.created = c.created /\ d.remote = c.remote /\ d.offered = c.offered

ViewFields == {"id", "signaling", "makingOffer", "created", "remote", "offered", "chain"}

LEMMA ConnDomain ==
    ASSUME NEW c, IsConn(c)
    PROVE  DOMAIN c = ConnField /\ ViewFields \subseteq ConnField
  BY DEF IsConn, ConnField, ViewFields

LEMMA CalledView ==
    ASSUME NEW c, IsConn(c), IsSeq(c.chain), NEW op, NEW sdp
    PROVE  /\ IsConn(Called(c, op, sdp)) /\ SameView(Called(c, op, sdp), c)
           /\ IsSeq(Called(c, op, sdp).chain)
           /\ Items(Called(c, op, sdp).chain) = Items(c.chain) \cup {[op |-> op, sdp |-> sdp]}
<1>1. IsConn(Called(c, op, sdp))
  BY CalledFacts DEF SameRemote
<1>2. SameView(Called(c, op, sdp), c)
  BY ConnDomain DEF Called, SameView, ViewFields
<1>3. Called(c, op, sdp).chain = Append(c.chain, [op |-> op, sdp |-> sdp])
  BY ConnDomain DEF Called, ViewFields
<1> QED
  BY <1>1, <1>2, <1>3, AppendItems

\* The first operation of c is completed.
Done(e, c, s) ==
    /\ IsConn(e) /\ e.signaling = s /\ e.id = c.id /\ e.makingOffer = c.makingOffer
    /\ e.created = c.created /\ e.remote = c.remote /\ e.offered = c.offered
    /\ IsSeq(e.chain) /\ Items(c.chain) = Items(e.chain) \cup {Head(c.chain)}

LEMMA CompletedView ==
    ASSUME NEW c, IsConn(c), IsSeq(c.chain), c.chain # <<>>, NEW s
    PROVE  Done(Completed(c, s), c, s)
<1>1. IsConn(Completed(c, s))
  BY CompletedFacts DEF SameRemote
<1>2. /\ Completed(c, s).signaling = s
      /\ Completed(c, s).id = c.id /\ Completed(c, s).makingOffer = c.makingOffer
      /\ Completed(c, s).created = c.created /\ Completed(c, s).remote = c.remote
      /\ Completed(c, s).offered = c.offered
      /\ Completed(c, s).chain = Tail(c.chain)
  BY ConnDomain DEF Completed, ViewFields
<1> QED
  BY <1>1, <1>2, TailItems DEF Done

LEMMA FinePeersStep ==
    ASSUME VoiceInv, FinePeers, NEW p \in VoicePeer, NEW c, NEW d, FineConn(d), NEW got, NEW sent,
           Change(p, c, d, got, sent), MadeAfterGet(p),
           IsSeq(signals'[p]), IsSeq(signals'[Other(p)]), \A m \in sent : FineMessage(m)
    PROVE  FinePeers'
<1> DEFINE q == Other(p)
<1>1. q \in VoicePeer /\ q # p /\ \A r \in VoicePeer : r = p \/ r = q
  BY OtherFacts, VoiceAssumption DEF VoicePeer
<1>2. conn'[p] = d /\ conn'[q] = conn[q] /\ d.id # 0
  BY <1>1 DEF Change, VoiceInv, FineConn
<1>3. made'[p] = 1 /\ made'[q] = made[q]
  BY <1>1 DEF MadeAfterGet, FinePeers, VoiceInv
<1>4. /\ Items(signals'[p]) \subseteq Items(signals[p])
      /\ Items(signals'[q]) = Items(signals[q]) \cup sent
  BY DEF Change
<1>5. IsSeq(signals'[q])
  OBVIOUS
<1> HIDE DEF q
<1>6. /\ made'[p] = IF Connected(p)' THEN 1 ELSE 0
      /\ Connected(p)' => FineConn(conn'[p])
      /\ \A m \in Items(signals'[p]) : FineMessage(m)
  BY <1>2, <1>3, <1>4 DEF Connected, FinePeers
<1>7. /\ made'[q] = IF Connected(q)' THEN 1 ELSE 0
      /\ Connected(q)' => FineConn(conn'[q])
      /\ \A m \in Items(signals'[q]) : FineMessage(m)
  BY <1>1, <1>2, <1>3, <1>4 DEF Connected, FinePeers
<1> QED
  BY <1>1, <1>5, <1>6, <1>7 DEF FinePeers

\* The step as a whole.
LEMMA TurnKeeps ==
    ASSUME VoiceInv, CallInv, ~ Spent, NEW p \in VoicePeer, NEW c, NEW d, FineConn(d), NEW got, NEW sent,
           Change(p, c, d, got, sent), Turn(p = Impolite, c, d, got, sent), MadeAfterGet(p),
           IsSeq(signals'[p]), IsSeq(signals'[Other(p)]), \A m \in sent : FineMessage(m),
           signals' = [r \in VoicePeer |-> signals'[r]],
           UNCHANGED <<channel, asking, inCall, joins>>
    PROVE  CallInv'
<1>1. Fresh /\ FinePeers /\ Owed /\ FromThere
  BY DEF CallInv
<1>2. FinePeers' /\ Owed' /\ FromThere' /\ Announced'
  BY <1>1, FinePeersStep, TurnOwes
<1>3. Fresh' /\ CallTypes'
  BY <1>1 DEF Fresh, CallInv, CallTypes
<1> QED
  BY <1>2, <1>3 DEF CallInv

\* A step of a peer's connection that sends nothing.
LEMMA SilentStep ==
    ASSUME VoiceInv, CallInv, ~ Spent, NEW p \in VoicePeer, Connected(p), NEW d, FineConn(d),
           conn' = [conn EXCEPT ![p] = d], Turn(p = Impolite, conn[p], d, {}, {}),
           UNCHANGED <<channel, asking, inCall, joins, made, signals>>
    PROVE  CallInv'
<1>1. Other(p) \in VoicePeer /\ IsSeq(signals[p]) /\ IsSeq(signals[Other(p)])
  BY OtherFacts DEF CallInv, FinePeers
<1>2. Change(p, conn[p], d, {}, {})
  BY DEF Change
<1>3. MadeAfterGet(p)
  BY DEF MadeAfterGet, VoiceInv
<1>4. signals' = [r \in VoicePeer |-> signals'[r]]
  BY DEF CallInv, CallTypes
<1> QED
  BY <1>1, <1>2, <1>3, <1>4, TurnKeeps

\* One that sends a message.
LEMMA SendingStep ==
    ASSUME VoiceInv, CallInv, ~ Spent, NEW p \in VoicePeer, Connected(p), NEW d, FineConn(d),
           NEW m, FineMessage(m), Send(p, <<m>>),
           conn' = [conn EXCEPT ![p] = d], Turn(p = Impolite, conn[p], d, {}, {m}),
           UNCHANGED <<channel, asking, inCall, joins, made>>
    PROVE  CallInv'
<1>1. /\ Other(p) \in VoicePeer /\ Other(p) # p /\ IsSeq(signals[p]) /\ IsSeq(signals[Other(p)])
      /\ signals = [r \in VoicePeer |-> signals[r]]
  BY OtherFacts DEF CallInv, FinePeers, CallTypes
<1>2. /\ signals'[p] = signals[p] /\ signals'[Other(p)] = signals[Other(p)] \o <<m>>
      /\ signals' = [r \in VoicePeer |-> signals'[r]]
  BY <1>1, Zenon DEF Send
<1>3. IsSeq(signals'[Other(p)]) /\ Items(signals'[Other(p)]) = Items(signals[Other(p)]) \cup {m}
  BY <1>1, <1>2, SentItems, SMTT(30)
<1>4. Change(p, conn[p], d, {}, {m})
  BY <1>2, <1>3 DEF Change
<1>5. MadeAfterGet(p)
  BY DEF MadeAfterGet, VoiceInv
<1> QED
  BY <1>1, <1>2, <1>3, <1>4, <1>5, TurnKeeps, ZenonT(30)

\* A change of a field that is not looked at.
LEMMA SameTurn ==
    ASSUME NEW i, NEW c, FineConn(c), NEW f \in ConnField \ ViewFields, NEW b
    PROVE  /\ FineConn([c EXCEPT ![f] = b]) /\ SameView([c EXCEPT ![f] = b], c)
           /\ [c EXCEPT ![f] = b].chain = c.chain
           /\ \A sent : Turn(i, c, [c EXCEPT ![f] = b], {}, sent)
<1> DEFINE d == [c EXCEPT ![f] = b]
<1>1. DOMAIN c = ConnField /\ ViewFields \subseteq ConnField
  BY ConnDomain DEF FineConn
<1>2. SameView(d, c) /\ d.chain = c.chain
  BY <1>1 DEF SameView, ViewFields
<1>3. d = [g \in ConnField |-> d[g]]
  BY <1>1, Zenon
<1> HIDE DEF d
<1>4. FineConn(d)
  BY <1>2, <1>3, ZenonT(30) DEF FineConn, IsConn, SameView, Offering, HasOp
<1>5. \A sent : Turn(i, c, d, {}, sent)
  BY <1>2 DEF SameView, Turn, Has, Settled, Awaiting, Taking, Offering, HasOp
<1> QED
  BY <1>2, <1>4, <1>5, Zenon DEF d

\* An operation that is rejected, and an offer that fails.
LEMMA RejectedTurn ==
    ASSUME NEW i, NEW c, FineConn(c), c.chain # <<>>, NEW m \in {c.makingOffer, FALSE},
           NEW d, d = [Completed(c, c.signaling) EXCEPT !.makingOffer = m],
           \/ /\ Head(c.chain).op = "setRemoteAnswer" /\ ~ Awaiting(c) /\ m = c.makingOffer
           \/ /\ Head(c.chain).op \in {"createAnswer", "setAnswer"} /\ c.signaling # "haveRemoteOffer"
              /\ m = c.makingOffer
           \/ /\ Head(c.chain).op = "createOffer" /\ c.signaling = "haveRemoteOffer" /\ m = FALSE
           \/ /\ Head(c.chain).op = "setOffer" /\ m = FALSE
              /\ c.signaling = "haveRemoteOffer" \/ Head(c.chain).sdp.n # c.created
    PROVE  FineConn(d) /\ Turn(i, c, d, {}, {})
<1> DEFINE e == Completed(c, c.signaling)
           h == Head(c.chain)
<1>0. Done(e, c, c.signaling)
  BY CompletedView DEF FineConn
<1> HIDE DEF e
<1>1. /\ IsConn(e) /\ e.signaling = c.signaling /\ e.id = c.id /\ e.created = c.created
      /\ e.remote = c.remote /\ e.offered = c.offered /\ IsSeq(e.chain)
      /\ Items(c.chain) = Items(e.chain) \cup {h}
  BY <1>0 DEF Done
<1>2. d = [e EXCEPT !.makingOffer = m]
  BY DEF e
<1> HIDE DEF h
<1>3. SameRemote(d, e)
  <2>1. "makingOffer" \in ConnField \ {"id", "remoteSet"}
    BY Fields
  <2>2. SameRemote([e EXCEPT !["makingOffer"] = m], e)
    BY <1>1, <2>1, OtherField, SMTT(30)
  <2> QED
    BY <1>2, <2>2
<1>4. /\ d.signaling = c.signaling /\ d.id = c.id /\ d.created = c.created
      /\ d.remote = c.remote /\ d.offered = c.offered /\ d.chain = e.chain /\ d.makingOffer = m
  BY <1>1, <1>2, ConnDomain DEF ViewFields
<1>5. IsConn(d) /\ IsSeq(d.chain) /\ Items(c.chain) = Items(d.chain) \cup {h}
  BY <1>1, <1>3, <1>4 DEF SameRemote
<1>6. Offering(c) => Offering(d) \/ c.signaling = "haveRemoteOffer"
  BY <1>4, <1>5 DEF Offering, HasOp, h
<1>7. m = c.makingOffer => (Offering(c) => Offering(d)) \/ m = FALSE
  BY <1>4, <1>5 DEF Offering, HasOp, h
<1>8. FineConn(d)
  BY <1>4, <1>5, <1>7, ZenonT(30) DEF FineConn, HasOp, h
<1>9. Turn(i, c, d, {}, {})
  BY <1>4, <1>5, <1>6 DEF Turn, Has, Settled, Awaiting, Taking, HasOp, h
<1> QED
  BY <1>8, <1>9

\* createOffer resolves, and its offer is set next.
LEMMA CreatedTurn ==
    ASSUME NEW i, NEW c, FineConn(c), c.chain # <<>>, Head(c.chain).op = "createOffer",
           c.signaling # "haveRemoteOffer", NEW n, NEW sdp, sdp.id = 1, sdp.type = "offer", sdp.n = n,
           NEW d, d = Called([Completed(c, c.signaling) EXCEPT !.created = n], "setOffer", sdp)
    PROVE  FineConn(d) /\ Turn(i, c, d, {}, {})
<1> DEFINE e == Completed(c, c.signaling)
           g == [e EXCEPT !.created = n]
           h == Head(c.chain)
           x == [op |-> "setOffer", sdp |-> sdp]
<1>0. Done(e, c, c.signaling)
  BY CompletedView DEF FineConn
<1> HIDE DEF e
<1>1. /\ IsConn(e) /\ e.signaling = c.signaling /\ e.id = c.id /\ e.makingOffer = c.makingOffer
      /\ e.remote = c.remote /\ e.offered = c.offered /\ IsSeq(e.chain)
      /\ Items(c.chain) = Items(e.chain) \cup {h}
  BY <1>0 DEF Done
<1>2. d = Called(g, "setOffer", sdp)
  BY DEF e
<1> HIDE DEF h
<1>3. IsConn(g)
  <2>1. "created" \in ConnField \ {"id", "remoteSet"}
    BY Fields
  <2> QED
    BY <1>1, <2>1, OtherField, Zenon DEF SameRemote
<1>4. /\ g.signaling = c.signaling /\ g.id = c.id /\ g.created = n /\ g.makingOffer = c.makingOffer
      /\ g.remote = c.remote /\ g.offered = c.offered /\ g.chain = e.chain
  BY <1>1, ConnDomain DEF ViewFields
<1> HIDE DEF g
<1>5. IsConn(d) /\ SameView(d, g) /\ IsSeq(d.chain) /\ Items(d.chain) = Items(g.chain) \cup {x}
  BY <1>1, <1>2, <1>3, <1>4, CalledView
<1>6. /\ d.signaling = c.signaling /\ d.id = c.id /\ d.created = n /\ d.makingOffer = c.makingOffer
      /\ d.remote = c.remote /\ d.offered = c.offered /\ Items(d.chain) = Items(e.chain) \cup {x}
  BY <1>4, <1>5 DEF SameView
<1>7. x.op = "setOffer" /\ x.sdp = sdp
  OBVIOUS
<1> HIDE DEF x
<1>8. Offering(d)
  BY <1>6, <1>7 DEF Offering
<1>9. FineConn(d)
  BY <1>1, <1>5, <1>6, <1>7, <1>8, ZenonT(30) DEF FineConn, HasOp, h
<1>10. Turn(i, c, d, {}, {})
  BY <1>1, <1>6, <1>7, <1>8 DEF Turn, Has, Settled, Awaiting, Taking, HasOp, h
<1> QED
  BY <1>9, <1>10

\* setLocalDescription resolves: the offer goes out.
LEMMA OfferedTurn ==
    ASSUME NEW i, NEW c, FineConn(c), c.chain # <<>>, Head(c.chain).op = "setOffer",
           c.signaling # "haveRemoteOffer", NEW sdp, sdp = Head(c.chain).sdp,
           NEW d, d = [Completed(c, "haveLocalOffer") EXCEPT !.makingOffer = FALSE, !.local = sdp]
    PROVE  FineConn(d) /\ FineMessage(sdp) /\ Turn(i, c, d, {}, {sdp})
<1> DEFINE e == Completed(c, "haveLocalOffer")
           h == Head(c.chain)
<1>0. Done(e, c, "haveLocalOffer")
  BY CompletedView DEF FineConn
<1> HIDE DEF e
<1>1. /\ IsConn(e) /\ e.signaling = "haveLocalOffer" /\ e.id = c.id /\ e.created = c.created
      /\ e.remote = c.remote /\ e.offered = c.offered /\ IsSeq(e.chain)
      /\ Items(c.chain) = Items(e.chain) \cup {h}
  BY <1>0 DEF Done
<1>2. d = [e EXCEPT !.makingOffer = FALSE, !.local = sdp]
  BY DEF e
<1> HIDE DEF h
<1>3. DOMAIN e = ConnField /\ ViewFields \subseteq ConnField
  BY <1>1, ConnDomain
<1>4. /\ d.signaling = "haveLocalOffer" /\ d.id = c.id /\ d.makingOffer = FALSE
      /\ d.remote = c.remote /\ d.offered = c.offered /\ d.chain = e.chain
  BY <1>1, <1>2, <1>3, Zenon DEF ViewFields
<1>5. d = [f \in ConnField |-> d[f]]
  BY <1>2, <1>3, Zenon
<1>6. sdp.type = "offer" /\ sdp.id = 1
  BY <1>1 DEF FineConn, h
<1>7. FineConn(d)
  BY <1>1, <1>4, <1>5, ZenonT(30) DEF FineConn, IsConn
<1>8. Turn(i, c, d, {}, {sdp})
  BY <1>1, <1>4, <1>6 DEF Turn, Has, Settled, Awaiting, Taking, HasOp, h
<1> QED
  BY <1>6, <1>7, <1>8 DEF FineMessage

\* setRemoteDescription resolves with an answer.
LEMMA AnswerTurn ==
    ASSUME NEW i, NEW c, FineConn(c), c.chain # <<>>, Head(c.chain).op = "setRemoteAnswer",
           c.signaling = "haveLocalOffer", NEW lines, NEW tracks,
           NEW d, d = [Completed(c, "stable") EXCEPT
                           !.remoteSet = TRUE, !.remote = Head(c.chain).sdp.id,
                           !.lines = lines, !.sending = tracks]
    PROVE  FineConn(d) /\ Turn(i, c, d, {}, {})
<1> DEFINE e == Completed(c, "stable")
           h == Head(c.chain)
<1>0. Done(e, c, "stable")
  BY CompletedView DEF FineConn
<1> HIDE DEF e
<1>1. /\ IsConn(e) /\ e.signaling = "stable" /\ e.id = c.id /\ e.created = c.created
      /\ e.makingOffer = c.makingOffer /\ e.offered = c.offered /\ IsSeq(e.chain)
      /\ Items(c.chain) = Items(e.chain) \cup {h}
  BY <1>0 DEF Done
<1>2. d = [e EXCEPT !.remoteSet = TRUE, !.remote = h.sdp.id, !.lines = lines, !.sending = tracks]
  BY DEF e
<1>3. h.op = "setRemoteAnswer"
  OBVIOUS
<1> HIDE DEF h
<1>4. DOMAIN e = ConnField /\ ViewFields \subseteq ConnField
  BY <1>1, ConnDomain
<1>5. /\ d.signaling = "stable" /\ d.id = c.id /\ d.makingOffer = c.makingOffer
      /\ d.created = c.created /\ d.remote = h.sdp.id /\ d.chain = e.chain
  BY <1>1, <1>2, <1>4, Zenon DEF ViewFields
<1>6. d = [f \in ConnField |-> d[f]]
  BY <1>2, <1>4, Zenon
<1>7. d.remote = 1
  BY <1>1, <1>3, <1>5 DEF FineConn
<1>8. Offering(c) => Offering(d)
  BY <1>1, <1>3, <1>5, Zenon DEF Offering, HasOp
<1>9. FineConn(d)
  BY <1>1, <1>5, <1>6, <1>7, <1>8, ZenonT(30) DEF FineConn, IsConn
<1>10. Turn(i, c, d, {}, {})
  BY <1>1, <1>3, <1>5, <1>7, <1>8 DEF Turn, Has, Settled, Awaiting, Taking, HasOp
<1> QED
  BY <1>9, <1>10

\* The offer taken is to be set, and is answered: a rollback, and createAnswer.
LEMMA NextOpTurn ==
    ASSUME NEW i, NEW c, FineConn(c), c.chain # <<>>, NEW s, NEW op, NEW sdp,
           \/ /\ Head(c.chain).op = "rollback" /\ s = "stable"
              /\ op = "setRemoteOffer" /\ sdp = Head(c.chain).sdp
           \/ /\ Head(c.chain).op = "createAnswer" /\ c.signaling = "haveRemoteOffer"
              /\ s = c.signaling /\ op = "setAnswer",
           NEW d, d = Called(Completed(c, s), op, sdp)
    PROVE  FineConn(d) /\ Turn(i, c, d, {}, {})
<1> DEFINE e == Completed(c, s)
           h == Head(c.chain)
           x == [op |-> op, sdp |-> sdp]
<1>1. Done(e, c, s)
  BY CompletedView, Zenon DEF FineConn
<1>2. d = Called(e, op, sdp)
  BY SMTT(30)
<1> HIDE DEF e
<1>3. IsConn(d) /\ SameView(d, e) /\ IsSeq(d.chain) /\ Items(d.chain) = Items(e.chain) \cup {x}
  BY <1>1, <1>2, CalledView DEF Done
<1>4. /\ d.signaling = s /\ d.id = c.id /\ d.makingOffer = c.makingOffer /\ d.created = c.created
      /\ d.remote = c.remote /\ d.offered = c.offered
      /\ Items(c.chain) = Items(e.chain) \cup {h}
  BY <1>1, <1>3 DEF SameView, Done
<1>5. x.op = op /\ x.sdp = sdp
  OBVIOUS
<1> HIDE DEF x, h
<1>6. Offering(c) => Offering(d)
  BY <1>3, <1>4, <1>5, Zenon DEF Offering, HasOp, h
<1>7. FineConn(d)
  BY <1>3, <1>4, <1>5, <1>6, SMTT(30) DEF FineConn, HasOp, h
<1>8. Taking(c) /\ Taking(d)
  BY <1>3, <1>4, <1>5, Zenon DEF Taking, HasOp, h
<1>9. /\ HasOp(c, "setRemoteAnswer") <=> HasOp(d, "setRemoteAnswer")
      /\ Awaiting(d) => Awaiting(c)
  BY <1>3, <1>4, <1>5, Zenon DEF HasOp, Awaiting, h
<1>10. Turn(i, c, d, {}, {})
  BY <1>4, <1>6, <1>8, <1>9 DEF Turn, Has, Settled
<1> QED
  BY <1>7, <1>10, Zenon

\* setRemoteDescription resolves with an offer.
LEMMA TakenTurn ==
    ASSUME NEW i, NEW c, FineConn(c), c.chain # <<>>, Head(c.chain).op = "setRemoteOffer",
           NEW sdp, NEW d,
           d = Called([Completed(c, "haveRemoteOffer") EXCEPT
                          !.remoteSet = TRUE, !.offered = Head(c.chain).sdp], "createAnswer", sdp)
    PROVE  FineConn(d) /\ Turn(i, c, d, {}, {})
<1> DEFINE e == Completed(c, "haveRemoteOffer")
           g == [e EXCEPT !.remoteSet = TRUE, !.offered = Head(c.chain).sdp]
           h == Head(c.chain)
           x == [op |-> "createAnswer", sdp |-> sdp]
<1>1. Done(e, c, "haveRemoteOffer")
  BY CompletedView DEF FineConn
<1>2. d = Called(g, "createAnswer", sdp)
  OBVIOUS
<1> HIDE DEF e
<1>3. DOMAIN e = ConnField /\ ViewFields \subseteq ConnField
  BY <1>1, ConnDomain DEF Done
<1>4. /\ g.signaling = "haveRemoteOffer" /\ g.id = c.id /\ g.makingOffer = c.makingOffer
      /\ g.created = c.created /\ g.remote = c.remote /\ g.offered = h.sdp /\ g.chain = e.chain
  BY <1>1, <1>3 DEF ViewFields, Done
<1>5. g = [f \in ConnField |-> g[f]]
  BY <1>3, Zenon
<1> HIDE DEF g
<1>6. IsConn(g) /\ IsSeq(g.chain)
  BY <1>1, <1>4, <1>5 DEF IsConn, FineConn, Done
<1>7. IsConn(d) /\ SameView(d, g) /\ IsSeq(d.chain) /\ Items(d.chain) = Items(g.chain) \cup {x}
  BY <1>2, <1>6, CalledView
<1>8. /\ d.signaling = "haveRemoteOffer" /\ d.id = c.id /\ d.makingOffer = c.makingOffer
      /\ d.created = c.created /\ d.remote = c.remote /\ d.offered = h.sdp
      /\ Items(d.chain) = Items(e.chain) \cup {x} /\ Items(c.chain) = Items(e.chain) \cup {h}
  BY <1>1, <1>4, <1>7 DEF SameView, Done
<1>9. x.op = "createAnswer" /\ h.op = "setRemoteOffer"
  OBVIOUS
<1> HIDE DEF x, h
<1>10. Offering(c) => Offering(d)
  BY <1>8, <1>9, SMTT(30) DEF Offering, HasOp
<1>11. FineConn(d)
  BY <1>7, <1>8, <1>9, <1>10, SMTT(30) DEF FineConn, HasOp
<1>12. Turn(i, c, d, {}, {})
  BY <1>8, <1>9, <1>10 DEF Turn, Has, Settled, Awaiting, Taking, HasOp
<1> QED
  BY <1>11, <1>12

\* setLocalDescription resolves with the answer, which goes out.
LEMMA AnsweredTurn ==
    ASSUME NEW i, NEW c, FineConn(c), c.chain # <<>>, Head(c.chain).op = "setAnswer",
           c.signaling = "haveRemoteOffer", NEW lines, NEW tracks,
           NEW d, d = [Completed(c, "stable") EXCEPT
                          !.remote = c.offered.id, !.lines = lines, !.sending = tracks]
    PROVE  FineConn(d) /\ FineMessage(AnswerFrom(c)) /\ Turn(i, c, d, {}, {AnswerFrom(c)})
<1> DEFINE e == Completed(c, "stable")
           h == Head(c.chain)
<1>1. Done(e, c, "stable")
  BY CompletedView DEF FineConn
<1>2. d = [e EXCEPT !.remote = c.offered.id, !.lines = lines, !.sending = tracks]
  OBVIOUS
<1> HIDE DEF e
<1>3. DOMAIN e = ConnField /\ ViewFields \subseteq ConnField
  BY <1>1, ConnDomain DEF Done
<1>4. /\ d.signaling = "stable" /\ d.id = c.id /\ d.makingOffer = c.makingOffer
      /\ d.created = c.created /\ d.remote = c.offered.id /\ d.chain = e.chain
  BY <1>1, <1>2, <1>3, Zenon DEF ViewFields, Done
<1>5. d = [f \in ConnField |-> d[f]]
  BY <1>2, <1>3, Zenon
<1>6. d.remote = 1 /\ AnswerFrom(c).type = "answer" /\ AnswerFrom(c).id = 1
  BY <1>4 DEF FineConn, AnswerFrom
<1>7. h.op = "setAnswer" /\ Items(c.chain) = Items(d.chain) \cup {h} /\ IsSeq(d.chain)
  BY <1>1, <1>4 DEF Done
<1> HIDE DEF h
<1>8. Offering(c) => Offering(d)
  BY <1>4, <1>7, Zenon DEF Offering, HasOp
<1>9. FineConn(d)
  BY <1>4, <1>5, <1>6, <1>7, <1>8, Zenon DEF FineConn, IsConn
<1>10. Turn(i, c, d, {}, {AnswerFrom(c)})
  BY <1>4, <1>6, <1>7, <1>8, SMTT(30) DEF Turn, Has, Settled, Awaiting, Taking, HasOp
<1> QED
  BY <1>6, <1>9, <1>10 DEF FineMessage

LEMMA PendingFacts ==
    ASSUME VoiceInv, CallInv, ~ Spent, NEW p \in VoicePeer, NEW op, Pending(p, op)
    PROVE  Connected(p) /\ FineConn(conn[p]) /\ conn[p].chain # <<>> /\ Head(conn[p].chain).op = op
  BY Zenon DEF Pending, CallInv, FinePeers

LEMMA RejectedMeets ==
    ASSUME VoiceInv, CallInv, ~ Spent, NEW p \in VoicePeer, NEW op, Pending(p, op), Rejected(p),
           \/ op = "setRemoteAnswer" /\ conn[p].signaling # "haveLocalOffer"
           \/ op \in {"createAnswer", "setAnswer"} /\ conn[p].signaling # "haveRemoteOffer",
           UNCHANGED <<uiVars, made, userVars>>
    PROVE  CallInv'
<1> DEFINE c == conn[p]
           e == Completed(c, c.signaling)
           d == [e EXCEPT !.makingOffer = c.makingOffer]
<1>1. Connected(p) /\ FineConn(c) /\ c.chain # <<>> /\ Head(c.chain).op = op
  BY PendingFacts, SMTT(30)
<1>2. e = [f \in ConnField |-> e[f]] /\ e.makingOffer = c.makingOffer
  BY <1>1, CompletedView DEF FineConn, Done, IsConn
<1>3. conn' = [conn EXCEPT ![p] = e]
  BY DEF Rejected
<1>4. d = e
  <2> HIDE DEF e
  <2> QED
    BY <1>2
<1> HIDE DEF e
<1>5. FineConn(d) /\ Turn(p = Impolite, c, d, {}, {})
  BY <1>1, RejectedTurn, Zenon DEF e, Awaiting
<1> HIDE DEF d
<1> QED
  BY <1>1, <1>3, <1>4, <1>5, SilentStep, Zenon DEF Rejected, uiVars, userVars

LEMMA FailedMeets ==
    ASSUME VoiceInv, CallInv, ~ Spent, NEW p \in VoicePeer, NEW op, Pending(p, op), OfferFailed(p),
           \/ op = "createOffer" /\ conn[p].signaling = "haveRemoteOffer"
           \/ /\ op = "setOffer"
              /\ conn[p].signaling = "haveRemoteOffer" \/ Head(conn[p].chain).sdp.n # conn[p].created,
           UNCHANGED <<uiVars, made, userVars>>
    PROVE  CallInv'
<1> DEFINE c == conn[p]
           d == [Completed(c, c.signaling) EXCEPT !.makingOffer = FALSE]
<1>1. Connected(p) /\ FineConn(c) /\ c.chain # <<>> /\ Head(c.chain).op = op
  BY PendingFacts
<1>2. conn' = [conn EXCEPT ![p] = d]
  BY DEF OfferFailed
<1>3. FineConn(d) /\ Turn(p = Impolite, c, d, {}, {})
  BY <1>1, RejectedTurn, Zenon
<1> HIDE DEF d
<1> QED
  BY <1>1, <1>2, <1>3, SilentStep, Zenon DEF OfferFailed, uiVars, userVars

LEMMA OfferMeets ==
    ASSUME VoiceInv, CallInv, ~ Spent, NEW p \in VoicePeer, OfferCreated(p) \/ OfferSet(p)
    PROVE  CallInv'
<1> DEFINE c == conn[p]
<1>1. CASE OfferCreated(p)
  <2>0. Pending(p, "createOffer") /\ UNCHANGED <<uiVars, made, userVars>>
    BY <1>1 DEF OfferCreated
  <2>1. Connected(p) /\ FineConn(c) /\ c.chain # <<>> /\ Head(c.chain).op = "createOffer"
    BY <2>0, PendingFacts
  <2>2. CASE c.signaling = "haveRemoteOffer"
    BY <1>1, <2>0, <2>2, FailedMeets DEF OfferCreated
  <2>3. CASE c.signaling # "haveRemoteOffer"
    <3> DEFINE e == Completed(c, c.signaling)
               n == offers[p] + 1
               sdp == OfferFrom(e, n, e.lines \cup e.tracks, e.tracks)
               d == Called([e EXCEPT !.created = n], "setOffer", sdp)
    <3>1. conn' = [conn EXCEPT ![p] = d] /\ signals' = signals
      BY <1>1, <2>3, SMTT(30) DEF OfferCreated
    <3>2. e.id = 1
      BY <2>1, CompletedView DEF FineConn, Done
    <3>3. sdp.id = 1 /\ sdp.type = "offer" /\ sdp.n = n
      <4> HIDE DEF e, n
      <4> QED
        BY <3>2 DEF OfferFrom
    <3> HIDE DEF n, sdp
    <3>4. FineConn(d) /\ Turn(p = Impolite, c, d, {}, {})
      BY <2>1, <2>3, <3>3, CreatedTurn, ZenonT(30)
    <3> HIDE DEF d
    <3> QED
      BY <2>0, <2>1, <3>1, <3>4, SilentStep, ZenonT(30) DEF uiVars, userVars
  <2> QED
    BY <2>2, <2>3
<1>2. CASE OfferSet(p)
  <2> DEFINE sdp == Head(c.chain).sdp
  <2>0. Pending(p, "setOffer") /\ UNCHANGED <<uiVars, made, userVars>>
    BY <1>2 DEF OfferSet
  <2>1. Connected(p) /\ FineConn(c) /\ c.chain # <<>> /\ Head(c.chain).op = "setOffer"
    BY <2>0, PendingFacts
  <2>2. CASE c.signaling = "haveRemoteOffer" \/ sdp.n # c.created
    BY <1>2, <2>0, <2>2, FailedMeets DEF OfferSet
  <2>3. CASE ~ (c.signaling = "haveRemoteOffer" \/ sdp.n # c.created)
    <3> DEFINE d == [Completed(c, "haveLocalOffer") EXCEPT !.makingOffer = FALSE, !.local = sdp]
    <3>1. conn' = [conn EXCEPT ![p] = d] /\ Send(p, <<sdp>>)
      BY <1>2, <2>3 DEF OfferSet
    <3>2. FineConn(d) /\ FineMessage(sdp) /\ Turn(p = Impolite, c, d, {}, {sdp})
      BY <2>1, <2>3, OfferedTurn, ZenonT(30)
    <3> HIDE DEF d, sdp
    <3> QED
      BY <2>0, <2>1, <3>1, <3>2, SendingStep, ZenonT(30) DEF uiVars, userVars
  <2> QED
    BY <2>2, <2>3
<1> QED
  BY <1>1, <1>2

LEMMA AnswerAppliedMeets ==
    ASSUME VoiceInv, CallInv, ~ Spent, NEW p \in VoicePeer, AnswerApplied(p)
    PROVE  CallInv'
<1> DEFINE c == conn[p]
<1>0. Pending(p, "setRemoteAnswer") /\ UNCHANGED <<uiVars, made, userVars>>
  BY DEF AnswerApplied
<1>1. Connected(p) /\ FineConn(c) /\ c.chain # <<>> /\ Head(c.chain).op = "setRemoteAnswer"
  BY <1>0, PendingFacts
<1>2. CASE c.signaling # "haveLocalOffer"
  BY <1>0, <1>2, RejectedMeets, Zenon DEF AnswerApplied
<1>3. CASE c.signaling = "haveLocalOffer"
  <2> DEFINE d == [Completed(c, "stable") EXCEPT
                       !.remoteSet = TRUE, !.remote = Head(c.chain).sdp.id,
                       !.lines = c.lines \cup c.local.lines, !.sending = c.local.tracks]
  <2>1. conn' = [conn EXCEPT ![p] = d] /\ signals' = signals
    BY <1>3 DEF AnswerApplied
  <2>2. FineConn(d) /\ Turn(p = Impolite, c, d, {}, {})
    BY <1>1, <1>3, AnswerTurn, Zenon
  <2> HIDE DEF d
  <2> QED
    BY <1>0, <1>1, <2>1, <2>2, SilentStep, ZenonT(30) DEF uiVars, userVars
<1> QED
  BY <1>2, <1>3

LEMMA TakingMeets ==
    ASSUME VoiceInv, CallInv, ~ Spent, NEW p \in VoicePeer, RolledBack(p) \/ RemoteOfferSet(p)
    PROVE  CallInv'
<1> DEFINE c == conn[p]
<1>1. CASE RolledBack(p)
  <2> DEFINE d == Called(Completed(c, "stable"), "setRemoteOffer", Head(c.chain).sdp)
  <2>0. Pending(p, "rollback") /\ UNCHANGED <<uiVars, made, userVars, signals>>
    BY <1>1 DEF RolledBack
  <2>1. Connected(p) /\ FineConn(c) /\ c.chain # <<>> /\ Head(c.chain).op = "rollback"
    BY <2>0, PendingFacts
  <2>2. conn' = [conn EXCEPT ![p] = d]
    BY <1>1 DEF RolledBack
  <2>3. FineConn(d) /\ Turn(p = Impolite, c, d, {}, {})
    BY <2>1, NextOpTurn, Zenon
  <2> HIDE DEF d
  <2> QED
    BY <2>0, <2>1, <2>2, <2>3, SilentStep, ZenonT(30) DEF uiVars, userVars
<1>2. CASE RemoteOfferSet(p)
  <2> DEFINE d == Called([Completed(c, "haveRemoteOffer") EXCEPT
                             !.remoteSet = TRUE, !.offered = Head(c.chain).sdp], "createAnswer", NoSdp)
  <2>0. Pending(p, "setRemoteOffer") /\ UNCHANGED <<uiVars, made, userVars, signals>>
    BY <1>2 DEF RemoteOfferSet
  <2>1. Connected(p) /\ FineConn(c) /\ c.chain # <<>> /\ Head(c.chain).op = "setRemoteOffer"
    BY <2>0, PendingFacts
  <2>2. conn' = [conn EXCEPT ![p] = d]
    BY <1>2 DEF RemoteOfferSet
  <2>3. FineConn(d) /\ Turn(p = Impolite, c, d, {}, {})
    BY <2>1, TakenTurn, Zenon
  <2> HIDE DEF d
  <2> QED
    BY <2>0, <2>1, <2>2, <2>3, SilentStep, ZenonT(30) DEF uiVars, userVars
<1> QED
  BY <1>1, <1>2, Zenon

LEMMA AnsweringMeets ==
    ASSUME VoiceInv, CallInv, ~ Spent, NEW p \in VoicePeer, AnswerCreated(p) \/ AnswerSet(p)
    PROVE  CallInv'
<1> DEFINE c == conn[p]
<1>1. CASE AnswerCreated(p)
  <2> DEFINE d == Called(Completed(c, c.signaling), "setAnswer", NoSdp)
  <2>0. Pending(p, "createAnswer") /\ UNCHANGED <<uiVars, made, userVars>>
    BY <1>1 DEF AnswerCreated
  <2>1. Connected(p) /\ FineConn(c) /\ c.chain # <<>> /\ Head(c.chain).op = "createAnswer"
    BY <2>0, PendingFacts
  <2>2. CASE c.signaling # "haveRemoteOffer"
    BY <1>1, <2>0, <2>2, RejectedMeets, Zenon DEF AnswerCreated
  <2>3. CASE c.signaling = "haveRemoteOffer"
    <3>1. conn' = [conn EXCEPT ![p] = d] /\ signals' = signals
      BY <1>1, <2>3, SMTT(30) DEF AnswerCreated
    <3>2. FineConn(d) /\ Turn(p = Impolite, c, d, {}, {})
      BY <2>1, <2>3, NextOpTurn
    <3> HIDE DEF d
    <3> QED
      BY <2>0, <2>1, <3>1, <3>2, SilentStep, ZenonT(30) DEF uiVars, userVars
  <2> QED
    BY <2>2, <2>3
<1>2. CASE AnswerSet(p)
  <2> DEFINE d == [Completed(c, "stable") EXCEPT
                      !.remote = c.offered.id, !.lines = c.lines \cup c.offered.lines,
                      !.sending = c.tracks \cap (c.lines \cup c.offered.lines)]
             m == AnswerFrom(c)
  <2>0. Pending(p, "setAnswer") /\ UNCHANGED <<uiVars, made, userVars>>
    BY <1>2, ZenonT(30) DEF AnswerSet
  <2>1. Connected(p) /\ FineConn(c) /\ c.chain # <<>> /\ Head(c.chain).op = "setAnswer"
    BY <2>0, PendingFacts
  <2>2. CASE c.signaling # "haveRemoteOffer"
    BY <1>2, <2>0, <2>2, RejectedMeets, Zenon DEF AnswerSet
  <2>3. CASE c.signaling = "haveRemoteOffer"
    <3>1. conn' = [conn EXCEPT ![p] = d] /\ Send(p, <<m>>)
      BY <1>2, <2>3 DEF AnswerSet
    <3>2. FineConn(d) /\ FineMessage(m) /\ Turn(p = Impolite, c, d, {}, {m})
      BY <2>1, <2>3, AnsweredTurn, Zenon
    <3> HIDE DEF d, m
    <3> QED
      BY <2>0, <2>1, <3>1, <3>2, SendingStep, ZenonT(30) DEF uiVars, userVars
  <2> QED
    BY <2>2, <2>3
<1> QED
  BY <1>1, <1>2

\* createOffer is called.
LEMMA OfferingTurn ==
    ASSUME NEW i, NEW c, FineConn(c), NEW sdp, NEW got, ~ Has(got, "offer"), ~ Has(got, "answer"),
           NEW d, d = Called([c EXCEPT !.makingOffer = TRUE], "createOffer", sdp)
    PROVE  FineConn(d) /\ Offering(d) /\ Turn(i, c, d, got, {})
<1> DEFINE g == [c EXCEPT !.makingOffer = TRUE]
           x == [op |-> "createOffer", sdp |-> sdp]
<1>1. DOMAIN c = ConnField /\ ViewFields \subseteq ConnField
  BY ConnDomain DEF FineConn
<1>2. /\ g.signaling = c.signaling /\ g.id = c.id /\ g.makingOffer = TRUE
      /\ g.created = c.created /\ g.remote = c.remote /\ g.offered = c.offered /\ g.chain = c.chain
  BY <1>1 DEF ViewFields
<1>3. g = [f \in ConnField |-> g[f]]
  BY <1>1, Zenon
<1>4. d = Called(g, "createOffer", sdp)
  OBVIOUS
<1> HIDE DEF g
<1>5. IsConn(g) /\ IsSeq(g.chain)
  BY <1>2, <1>3 DEF IsConn, FineConn
<1>6. IsConn(d) /\ SameView(d, g) /\ IsSeq(d.chain) /\ Items(d.chain) = Items(g.chain) \cup {x}
  <2>1. Items(Called(g, "createOffer", sdp).chain) = Items(g.chain) \cup {x}
    BY <1>5, CalledView
  <2>2. IsConn(Called(g, "createOffer", sdp)) /\ IsSeq(Called(g, "createOffer", sdp).chain)
    BY <1>5, CalledView
  <2>3. SameView(Called(g, "createOffer", sdp), g)
    BY <1>5, CalledView
  <2> QED
    BY <1>4, <2>1, <2>2, <2>3, ZenonT(30)
<1>7. /\ d.signaling = c.signaling /\ d.id = c.id /\ d.makingOffer = TRUE /\ d.created = c.created
      /\ d.remote = c.remote /\ d.offered = c.offered /\ Items(d.chain) = Items(c.chain) \cup {x}
  BY <1>2, <1>6, Zenon DEF SameView
<1>8. x.op = "createOffer"
  OBVIOUS
<1> HIDE DEF x
<1>9. Offering(d)
  BY <1>7, <1>8, Zenon DEF Offering, HasOp
<1>10. FineConn(d)
  BY <1>6, <1>7, <1>8, <1>9, ZenonT(30) DEF FineConn, HasOp
<1>11. Turn(i, c, d, got, {})
  BY <1>7, <1>8, <1>9, Zenon DEF Turn, Settled, Awaiting, Taking, HasOp
<1> QED
  BY <1>9, <1>10, <1>11

\* The browser's own events.
LEMMA BrowserMeets ==
    ASSUME VoiceInv, CallInv, ~ Spent, NEW p \in VoicePeer, NegotiationNeeded(p) \/ GatherIce(p)
    PROVE  CallInv'
<1> DEFINE c == conn[p]
<1>0. Connected(p) /\ UNCHANGED <<uiVars, made, userVars>>
  BY DEF NegotiationNeeded, GatherIce
<1>1. FineConn(c)
  BY <1>0 DEF CallInv, FinePeers
<1>2. "fired" \in ConnField \ ViewFields /\ "gathered" \in ConnField \ ViewFields
  BY DEF ConnField, ViewFields
<1>3. CASE NegotiationNeeded(p)
  <2> DEFINE g == [c EXCEPT !["fired"] = TRUE]
             d == IF g.makingOffer THEN g
                  ELSE Called([g EXCEPT !.makingOffer = TRUE], "createOffer", NoSdp)
  <2>1. /\ FineConn(g) /\ SameView(g, c) /\ g.chain = c.chain
        /\ Turn(p = Impolite, c, g, {}, {})
    BY <1>1, <1>2, SameTurn, Zenon
  <2>2. conn' = [conn EXCEPT ![p] = d] /\ signals' = signals
    BY <1>3, Zenon DEF NegotiationNeeded
  <2> HIDE DEF g
  <2>3. FineConn(d) /\ Turn(p = Impolite, c, d, {}, {})
    <3>1. CASE g.makingOffer
      BY <2>1, <3>1
    <3>2. CASE ~ g.makingOffer
      <4>1. ~ Has({}, "offer") /\ ~ Has({}, "answer")
        BY DEF Has
      <4>2. FineConn(d) /\ Turn(p = Impolite, g, d, {}, {})
        BY <2>1, <3>2, <4>1, OfferingTurn, Zenon
      <4> HIDE DEF d
      <4>3. Turn(p = Impolite, c, d, {}, {})
        BY <2>1, <4>2, ZenonT(30) DEF Turn, SameView, Settled, Awaiting, Taking, Offering, HasOp
      <4> QED
        BY <4>2, <4>3
    <3> QED
      BY <3>1, <3>2
  <2> HIDE DEF d
  <2> QED
    BY <1>0, <2>2, <2>3, SilentStep, Zenon DEF uiVars, userVars
<1>4. CASE GatherIce(p)
  <2> DEFINE d == [c EXCEPT !["gathered"] = TRUE]
             m == IceFrom(c)
  <2>1. FineConn(d) /\ Turn(p = Impolite, c, d, {}, {m})
    BY <1>1, <1>2, SameTurn, Zenon
  <2>2. conn' = [conn EXCEPT ![p] = d] /\ Send(p, <<m>>)
    BY <1>4, Zenon DEF GatherIce
  <2>3. FineMessage(m)
    BY DEF FineMessage, IceFrom
  <2> HIDE DEF d, m
  <2> QED
    BY <1>0, <2>1, <2>2, <2>3, SendingStep, Zenon DEF uiVars, userVars
<1> QED
  BY <1>3, <1>4

LEMMA GetOrCreateFine ==
    ASSUME VoiceInv, CallInv, ~ Spent, NEW p \in VoicePeer
    PROVE  /\ FineConn(GetOrCreate(p))
           /\ Connected(p) => GetOrCreate(p) = conn[p]
           /\ ~ Connected(p) => /\ NoView(GetOrCreate(p)) /\ GetOrCreate(p).signaling = "stable"
                                /\ GetOrCreate(p).makingOffer = FALSE
<1>1. CASE Connected(p)
  BY <1>1 DEF GetOrCreate, CallInv, FinePeers
<1>2. CASE ~ Connected(p)
  <2> DEFINE n == NewConn(p)
  <2>1. made[p] = 0 /\ GetOrCreate(p) = n
    BY <1>2, Zenon DEF CallInv, FinePeers, GetOrCreate
  <2>2. IsConn(n)
    BY <2>1, GetOrCreateFacts, Zenon
  <2>3. /\ n.id = 1 /\ n.signaling = "stable" /\ n.makingOffer = FALSE /\ n.remote = 0
        /\ n.chain = <<>>
    BY <2>1, SMTT(30) DEF NewConn
  <2> HIDE DEF n
  <2>4. IsSeq(n.chain) /\ Items(n.chain) = {}
    BY <2>3, EmptyItems, Zenon
  <2>5. FineConn(n)
    BY <2>2, <2>3, <2>4, ZenonT(30) DEF FineConn
  <2>6. NoView(n)
    BY <2>3, <2>4 DEF NoView, Taking, Offering, Awaiting, Settled, HasOp
  <2> QED
    BY <1>2, <2>1, <2>3, <2>5, <2>6
<1> QED
  BY <1>1, <1>2, Zenon

\* The signals after one is received.
LEMMA ReceivedItems ==
    ASSUME CallInv, ~ Spent, NEW p \in VoicePeer, signals[p] # <<>>,
           signals' = [signals EXCEPT ![p] = Tail(@)]
    PROVE  /\ IsSeq(signals'[p]) /\ Items(signals[p]) = Items(signals'[p]) \cup {Head(signals[p])}
           /\ IsSeq(signals'[Other(p)]) /\ signals'[Other(p)] = signals[Other(p)]
           /\ signals' = [r \in VoicePeer |-> signals'[r]]
           /\ FineMessage(Head(signals[p]))
<1>1. /\ Other(p) \in VoicePeer /\ Other(p) # p /\ IsSeq(signals[p]) /\ IsSeq(signals[Other(p)])
      /\ signals = [r \in VoicePeer |-> signals[r]]
      /\ \A m \in Items(signals[p]) : FineMessage(m)
  BY OtherFacts DEF CallInv, FinePeers, CallTypes
<1>2. /\ signals'[p] = Tail(signals[p]) /\ signals'[Other(p)] = signals[Other(p)]
      /\ signals' = [r \in VoicePeer |-> signals'[r]]
  BY <1>1
<1>3. IsSeq(Tail(signals[p])) /\ Items(signals[p]) = Items(Tail(signals[p])) \cup {Head(signals[p])}
  BY <1>1, TailItems, Zenon
<1> QED
  BY <1>1, <1>2, <1>3

\* A signal that changes the connection.
LEMMA GotStep ==
    ASSUME VoiceInv, CallInv, ~ Spent, NEW p \in VoicePeer, NEW c, NEW m, NEW d, FineConn(d),
           IF Connected(p) THEN c = conn[p] ELSE NoView(c) /\ (Offering(d) \/ Taking(d)),
           conn' = [conn EXCEPT ![p] = d], MadeAfterGet(p),
           IsSeq(signals'[p]), Items(signals[p]) = Items(signals'[p]) \cup {m},
           IsSeq(signals'[Other(p)]), signals'[Other(p)] = signals[Other(p)],
           signals' = [r \in VoicePeer |-> signals'[r]],
           Turn(p = Impolite, c, d, {m}, {}), UNCHANGED <<channel, asking, inCall, joins>>
    PROVE  CallInv'
<1>1. Change(p, c, d, {m}, {})
  BY DEF Change
<1>2. \A x \in {} : FineMessage(x)
  BY Zenon
<1> QED
  BY <1>1, <1>2, TurnKeeps, SMTT(30)

LEMMA ReceivingStep ==
    ASSUME VoiceInv, CallInv, ~ Spent, NEW p \in VoicePeer, signals[p] # <<>>,
           signals' = [signals EXCEPT ![p] = Tail(@)], NEW d, FineConn(d),
           conn' = [conn EXCEPT ![p] = d], MadeAfterGet(p),
           ~ Connected(p) => Offering(d) \/ Taking(d),
           Turn(p = Impolite, GetOrCreate(p), d, {Head(signals[p])}, {}),
           UNCHANGED <<channel, asking, inCall, joins>>
    PROVE  CallInv'
<1>1. /\ IsSeq(signals'[p]) /\ Items(signals[p]) = Items(signals'[p]) \cup {Head(signals[p])}
      /\ IsSeq(signals'[Other(p)]) /\ signals'[Other(p)] = signals[Other(p)]
      /\ signals' = [r \in VoicePeer |-> signals'[r]]
  BY ReceivedItems, Zenon
<1>2. IF Connected(p) THEN GetOrCreate(p) = conn[p]
      ELSE NoView(GetOrCreate(p)) /\ (Offering(d) \/ Taking(d))
  BY GetOrCreateFine, Zenon
<1> QED
  BY <1>1, <1>2, GotStep, Zenon

\* A signal that does not, to a peer that has no connection, or with no description.
LEMMA IgnoringStep ==
    ASSUME VoiceInv, CallInv, ~ Spent, NEW p \in VoicePeer, signals[p] # <<>>,
           signals' = [signals EXCEPT ![p] = Tail(@)],
           \/ Head(signals[p]).type = "join" /\ ~ channel[p]
           \/ Head(signals[p]).type = "answer" /\ ~ Connected(p)
           \/ Head(signals[p]).type = "ice",
           UNCHANGED <<channel, asking, inCall, joins, conn, made>>
    PROVE  CallInv'
<1> DEFINE m == Head(signals[p])
           q == Other(p)
<1>1. /\ IsSeq(signals'[p]) /\ Items(signals[p]) = Items(signals'[p]) \cup {m}
      /\ IsSeq(signals'[q]) /\ signals'[q] = signals[q]
      /\ signals' = [r \in VoicePeer |-> signals'[r]]
  BY ReceivedItems, Zenon
<1>2. Fresh /\ FinePeers /\ Owed /\ FromThere /\ Announced /\ CallTypes
  BY DEF CallInv
<1>3. q \in VoicePeer /\ q # p /\ Other(q) = p /\ \A r \in VoicePeer : r = p \/ r = q
  BY OtherFacts, VoiceAssumption DEF VoicePeer
<1>4. /\ m.type # "join" => (Coming(p, "join")' <=> Coming(p, "join"))
      /\ Coming(p, "offer")' <=> Coming(p, "offer")
      /\ m.type # "answer" => (Coming(p, "answer")' <=> Coming(p, "answer"))
      /\ Coming(p, "answer")' => Coming(p, "answer")
  BY <1>1 DEF Coming, Has
<1>5. \A type : Coming(q, type)' <=> Coming(q, type)
  BY <1>1, Zenon DEF Coming
<1>6. ASSUME NEW r \in VoicePeer
      PROVE  /\ (Connected(r)' <=> Connected(r)) /\ (PeerTakes(r)' <=> PeerTakes(r))
             /\ (PeerOffers(r)' <=> PeerOffers(r)) /\ (PeerAwaits(r)' <=> PeerAwaits(r))
             /\ (PeerSettled(r)' <=> PeerSettled(r))
  BY Zenon DEF Connected, PeerTakes, PeerOffers, PeerAwaits, PeerSettled
<1>7. /\ PeerAnswered(q)' <=> PeerAnswered(q)
      /\ PeerAnswered(p)' => PeerAnswered(p)
      /\ PeerAwaits(p) => (PeerAnswered(p)' <=> PeerAnswered(p))
  BY <1>4, <1>5, ZenonT(30) DEF PeerAnswered, Connected, PeerAwaits
<1> HIDE DEF m, q
<1>8. FinePeers'
  BY <1>1, <1>2, <1>3, ZenonT(30) DEF FinePeers, Connected
<1>9. FromThere'
  BY <1>2, <1>3, <1>4, <1>5, <1>6, <1>7, ZenonT(30) DEF FromThere, q
<1>10. Owed'
  <2>1. CASE p = Polite /\ q = Impolite
    BY <1>2, <1>4, <1>5, <1>6, <1>7, <2>1, ZenonT(30) DEF Owed, VoicePeer
  <2>2. CASE p = Impolite /\ q = Polite
    BY <1>2, <1>4, <1>5, <1>6, <1>7, <2>2, ZenonT(30) DEF Owed, VoicePeer
  <2> QED
    BY <1>3, <2>1, <2>2, VoiceAssumption, ZenonT(30) DEF VoicePeer
<1>11. Announced'
  <2>1. m.type = "join" => ~ inCall[p]
    BY <1>2, ZenonT(30) DEF Fresh, m
  <2> QED
    BY <1>2, <1>3, <1>4, <1>5, <1>6, <2>1, ZenonT(30) DEF Announced
<1>12. Fresh' /\ CallTypes'
  BY <1>1, <1>2 DEF Fresh, CallTypes
<1> QED
  BY <1>8, <1>9, <1>10, <1>11, <1>12 DEF CallInv

\* An offer or an answer comes, and setRemoteDescription or a rollback is called.
LEMMA GotTurn ==
    ASSUME NEW i, NEW c, FineConn(c), NEW m, FineMessage(m), NEW op,
           \/ m.type = "offer" /\ op \in {"setRemoteOffer", "rollback"}
           \/ m.type = "answer" /\ op = "setRemoteAnswer",
           NEW d, d = Called(c, op, m)
    PROVE  FineConn(d) /\ Turn(i, c, d, {m}, {}) /\ (m.type = "offer" => Taking(d))
<1> DEFINE x == [op |-> op, sdp |-> m]
<1>1. IsConn(d) /\ SameView(d, c) /\ IsSeq(d.chain) /\ Items(d.chain) = Items(c.chain) \cup {x}
  BY CalledView, ZenonT(30) DEF FineConn
<1>2. x.op = op /\ x.sdp = m /\ m.id = 1
  BY DEF FineMessage
<1> HIDE DEF x
<1>3. Offering(c) => Offering(d)
  BY <1>1, <1>2, ZenonT(30) DEF Offering, HasOp, SameView
<1>4. FineConn(d)
  BY <1>1, <1>2, <1>3, ZenonT(30) DEF FineConn, HasOp, SameView
<1>5. m.type = "offer" => Taking(d)
  BY <1>1, <1>2, Zenon DEF Taking, HasOp
<1>6. Turn(i, c, d, {m}, {})
  BY <1>1, <1>2, <1>3, <1>5, ZenonT(30) DEF Turn, SameView, Has, Settled, Awaiting, Taking, HasOp
<1> QED
  BY <1>4, <1>5, <1>6, Zenon

\* The impolite peer ignores an offer while its own is made or awaits its answer.
LEMMA IgnoredTurn ==
    ASSUME NEW c, FineConn(c), NEW m, m.type = "offer", c.makingOffer \/ c.signaling # "stable"
    PROVE  Turn(TRUE, c, c, {m}, {})
  BY Zenon DEF FineConn, Turn, Has, Taking, Awaiting

LEMMA ReceiveMeets ==
    ASSUME VoiceInv, CallInv, ~ Spent, NEW p \in VoicePeer, Receive(p)
    PROVE  CallInv'
<1> DEFINE m == Head(signals[p])
           c == GetOrCreate(p)
<1>1. /\ signals[p] # <<>> /\ signals' = [signals EXCEPT ![p] = Tail(@)]
      /\ UNCHANGED <<channel, asking, inCall, joins>>
  BY DEF Receive, uiVars, userVars
<1>2. FineMessage(m)
  BY <1>1, ReceivedItems, Zenon
<1>3. /\ FineConn(c) /\ (Connected(p) => c = conn[p])
      /\ ~ Connected(p) => c.signaling = "stable" /\ c.makingOffer = FALSE
  BY GetOrCreateFine, Zenon
<1>4. CASE m.type = "join" /\ ReceiveJoin(p)
  <2>1. CASE channel[p]
    <3> DEFINE d == Called([c EXCEPT !.makingOffer = TRUE], "createOffer", NoSdp)
    <3>1. conn' = [conn EXCEPT ![p] = d] /\ MadeAfterGet(p)
      BY <1>4, <2>1 DEF ReceiveJoin
    <3>2. ~ Has({m}, "offer") /\ ~ Has({m}, "answer")
      BY <1>4 DEF Has
    <3>3. FineConn(d) /\ Offering(d) /\ Turn(p = Impolite, c, d, {m}, {})
      BY <1>3, <3>2, OfferingTurn
    <3> HIDE DEF d
    <3> QED
      BY <1>1, <3>1, <3>3, ReceivingStep, ZenonT(30)
  <2>2. CASE ~ channel[p]
    BY <1>1, <1>4, <2>2, IgnoringStep, ZenonT(30) DEF ReceiveJoin
  <2> QED
    BY <2>1, <2>2
<1>5. CASE m.type = "leave"
  BY <1>2, <1>5 DEF FineMessage
<1>6. CASE m.type = "offer" /\ ReceiveOffer(p, m)
  <2> DEFINE stable == c.signaling = "stable"
             ignored == ShouldIgnoreOffer(p = Polite, c.makingOffer, stable)
             op == IF stable THEN "setRemoteOffer" ELSE "rollback"
             d == IF ignored THEN c ELSE Called(c, op, m)
  <2>1. conn' = [conn EXCEPT ![p] = d] /\ MadeAfterGet(p)
    BY <1>6, ZenonT(30) DEF ReceiveOffer
  <2>2. ignored => p = Impolite /\ (c.makingOffer \/ c.signaling # "stable") /\ Connected(p)
    BY <1>3 DEF ShouldIgnoreOffer, VoicePeer
  <2>3. CASE ignored
    <3>1. Turn(p = Impolite, c, c, {m}, {})
      BY <1>3, <1>6, <2>2, <2>3, IgnoredTurn, ZenonT(30)
    <3>2. conn' = [conn EXCEPT ![p] = c]
      BY <2>1, <2>3, Zenon
    <3> QED
      BY <1>1, <1>3, <2>1, <2>2, <2>3, <3>1, <3>2, ReceivingStep, ZenonT(30)
  <2>4. CASE ~ ignored
    <3> DEFINE e == Called(c, op, m)
    <3>1. conn' = [conn EXCEPT ![p] = e]
      BY <2>1, <2>4
    <3>2. op \in {"setRemoteOffer", "rollback"}
      OBVIOUS
    <3> HIDE DEF op
    <3>3. FineConn(e) /\ Turn(p = Impolite, c, e, {m}, {}) /\ Taking(e)
      BY <1>2, <1>3, <1>6, <3>2, GotTurn, ZenonT(30)
    <3> HIDE DEF e
    <3> QED
      BY <1>1, <2>1, <3>1, <3>3, ReceivingStep, ZenonT(30)
  <2> QED
    BY <2>3, <2>4
<1>7. CASE m.type = "answer" /\ ReceiveAnswer(p, m)
  <2>1. CASE Connected(p)
    <3> DEFINE d == Called(c, "setRemoteAnswer", m)
    <3>1. conn' = [conn EXCEPT ![p] = d]
      BY <1>3, <1>7, <2>1, ZenonT(30) DEF ReceiveAnswer
    <3>2. MadeAfterGet(p)
      BY <1>7, <2>1 DEF ReceiveAnswer, MadeAfterGet, VoiceInv
    <3>3. FineConn(d) /\ Turn(p = Impolite, c, d, {m}, {})
      BY <1>2, <1>3, <1>7, GotTurn, ZenonT(30)
    <3> HIDE DEF d
    <3> QED
      BY <1>1, <2>1, <3>1, <3>2, <3>3, ReceivingStep, ZenonT(30)
  <2>2. CASE ~ Connected(p)
    BY <1>1, <1>7, <2>2, IgnoringStep, ZenonT(30) DEF ReceiveAnswer
  <2> QED
    BY <2>1, <2>2, Zenon
<1>8. CASE m.type = "ice" /\ ReceiveIce(p, m)
  BY <1>1, <1>8, IgnoringStep, ZenonT(30) DEF ReceiveIce
<1> QED
  BY <1>4, <1>5, <1>6, <1>7, <1>8, ZenonT(30) DEF Receive

LEMMA CallTypesStay ==
    ASSUME CallTypes, NEW p \in VoicePeer,
           \/ ClickJoin(p) \/ MicGranted(p) \/ MicDenied(p) \/ ClickLeave(p) \/ ShareVideo(p)
           \/ Receive(p) \/ NegotiationNeeded(p) \/ GatherIce(p) \/ Complete(p)
    PROVE  /\ CallTypes'
           /\ \/ ClickJoin(p) \/ MicGranted(p) \/ MicDenied(p) \/ ClickLeave(p)
              \/ UNCHANGED <<channel, asking, inCall, joins>>
<1>1. signals' = signals \/ \E q, s : signals' = [signals EXCEPT ![q] = s]
  <2>1. CASE ClickJoin(p) \/ MicGranted(p) \/ MicDenied(p) \/ ClickLeave(p) \/ ShareVideo(p)
    BY <2>1, ZenonT(30) DEF ClickJoin, MicGranted, MicDenied, ClickLeave, ShareVideo, Send
  <2>2. CASE Receive(p) \/ NegotiationNeeded(p) \/ GatherIce(p)
    BY <2>2, Zenon DEF Receive, NegotiationNeeded, GatherIce, Send
  <2>3. CASE OfferCreated(p) \/ OfferSet(p)
    BY <2>3, Zenon DEF OfferCreated, OfferSet, OfferFailed, Send
  <2>4. CASE AnswerApplied(p) \/ RolledBack(p) \/ RemoteOfferSet(p)
    BY <2>4 DEF AnswerApplied, RolledBack, RemoteOfferSet, Rejected
  <2>5. CASE AnswerCreated(p) \/ AnswerSet(p)
    BY <2>5, Zenon DEF AnswerCreated, AnswerSet, Rejected, Send
  <2> QED
    BY <2>1, <2>2, <2>3, <2>4, <2>5, ZenonT(30) DEF Complete
<1>2. signals' = [q \in VoicePeer |-> signals'[q]]
  <2>1. DOMAIN signals = VoicePeer
    BY DEF CallTypes
  <2>2. DOMAIN signals' = VoicePeer /\ signals' = [q \in DOMAIN signals' |-> signals'[q]]
    BY <1>1, <2>1, ZenonT(30) DEF CallTypes
  <2> QED
    BY <2>2
<1>3. \/ ClickJoin(p) \/ MicGranted(p) \/ MicDenied(p) \/ ClickLeave(p)
      \/ UNCHANGED <<channel, asking, inCall, joins>>
  BY Zenon DEF ShareVideo, Receive, NegotiationNeeded, GatherIce, Complete, OfferCreated, OfferSet,
         AnswerApplied, RolledBack, RemoteOfferSet, AnswerCreated, AnswerSet, uiVars, userVars
<1>4. /\ channel' \in [VoicePeer -> BOOLEAN] /\ inCall' \in [VoicePeer -> BOOLEAN]
      /\ joins' \in [VoicePeer -> Nat] /\ asking' \in [VoicePeer -> Int]
  <2>1. CASE ClickJoin(p)
    BY <2>1, SMTT(30) DEF CallTypes, ClickJoin
  <2>2. CASE MicGranted(p)
    BY <2>2, SMTT(30) DEF CallTypes, MicGranted, userVars
  <2>3. CASE MicDenied(p)
    BY <2>3, SMTT(30) DEF CallTypes, MicDenied, userVars
  <2>4. CASE ClickLeave(p)
    BY <2>4 DEF CallTypes, ClickLeave, userVars
  <2>5. CASE UNCHANGED <<channel, asking, inCall, joins>>
    BY <2>5, Zenon DEF CallTypes
  <2> QED
    BY <1>3, <2>1, <2>2, <2>3, <2>4, <2>5, ZenonT(30)
<1> QED
  BY <1>2, <1>3, <1>4 DEF CallTypes

LEMMA SpentStays ==
    ASSUME CallTypes, Spent, NEW p \in VoicePeer,
           \/ ClickJoin(p) \/ MicGranted(p) \/ MicDenied(p) \/ ClickLeave(p)
           \/ UNCHANGED <<channel, asking, inCall, joins>>
    PROVE  Spent'
<1>1. PICK r \in VoicePeer : joins[r] >= 2 \/ (joins[r] = 1 /\ ~ channel[r])
  BY Zenon DEF Spent
<1>2. joins'[r] >= 2 \/ (joins'[r] = 1 /\ ~ channel'[r])
  <2>0. joins[r] \in Nat
    BY Zenon DEF CallTypes
  <2>1. CASE ClickJoin(p)
    BY <1>1, <2>0, <2>1, SMTT(30) DEF CallTypes, ClickJoin
  <2>2. CASE MicGranted(p)
    BY <1>1, <2>2, Zenon DEF MicGranted, userVars
  <2>3. CASE MicDenied(p) \/ ClickLeave(p)
    <3>1. joins' = joins /\ channel' = [channel EXCEPT ![p] = FALSE]
      BY <2>3, Zenon DEF MicDenied, ClickLeave, userVars
    <3> QED
      BY <1>1, <3>1, Zenon DEF CallTypes
  <2>4. CASE UNCHANGED <<channel, asking, inCall, joins>>
    BY <1>1, <2>4
  <2> QED
    BY <2>1, <2>2, <2>3, <2>4, Zenon
<1> QED
  BY <1>2, Zenon DEF Spent

\* Leaving, and being denied the microphone, end the one time a user joins.
LEMMA UserMeets ==
    ASSUME VoiceInv, CallInv, ~ Spent, CallTypes', NEW p \in VoicePeer,
           ClickJoin(p) \/ MicGranted(p) \/ MicDenied(p) \/ ClickLeave(p) \/ ShareVideo(p)
    PROVE  CallInv'
<1>0. Fresh /\ FinePeers /\ Owed /\ FromThere /\ Announced /\ CallTypes
  BY Zenon DEF CallInv
<1>1. CASE ClickLeave(p) \/ MicDenied(p)
  <2>1. joins'[p] = 1 /\ ~ channel'[p]
    BY <1>0, <1>1, SMTT(30) DEF ClickLeave, MicDenied, Fresh, CallTypes, userVars
  <2> QED
    BY <2>1, Zenon DEF CallInv, Spent
<1>2. CASE ClickJoin(p)
  <2>1. Fresh'
    BY <1>0, <1>2, SMTT(30) DEF ClickJoin, Fresh, CallTypes
  <2>2. FinePeers' /\ Owed' /\ FromThere' /\ Announced'
    BY <1>0, <1>2, ZenonT(30) DEF ClickJoin, FinePeers, Owed, FromThere, Announced, Connected, Coming, PeerTakes,
                      PeerOffers, PeerAwaits, PeerSettled, PeerAnswered
  <2> QED
    BY <2>1, <2>2, Zenon DEF CallInv
<1>3. CASE MicGranted(p)
  <2> DEFINE q == Other(p)
             m == VoiceMessage("join")
  <2>1. q \in VoicePeer /\ q # p /\ (\A r \in VoicePeer : r = p \/ r = q) /\ IsSeq(signals[q])
    BY <1>0, OtherFacts, VoiceAssumption, Zenon DEF VoicePeer, FinePeers
  <2>2. ~ inCall[p] /\ joins[p] = 1
    BY <1>0, <1>3, SMTT(30) DEF MicGranted, Fresh, CallTypes
  <2>3. signals' = [signals EXCEPT ![q] = @ \o <<m>>] /\ UNCHANGED <<conn, made>>
    BY <1>3, <2>2, Zenon DEF MicGranted, Send
  <2>4. m.type = "join"
    BY Zenon DEF VoiceMessage
  <2> HIDE DEF q, m
  <2>5. /\ signals'[p] = signals[p] /\ IsSeq(signals'[q])
        /\ Items(signals'[q]) = Items(signals[q]) \cup {m}
    BY <1>0, <2>1, <2>3, SentItems, Zenon DEF CallTypes
  <2>6. Fresh'
    BY <1>0, <1>3, <2>2 DEF MicGranted, Fresh, CallTypes, userVars
  <2>7. \A r \in VoicePeer : /\ Coming(r, "offer")' <=> Coming(r, "offer")
                             /\ Coming(r, "answer")' <=> Coming(r, "answer")
    BY <2>1, <2>4, <2>5, Zenon DEF Coming, Has
  <2>8. \A r \in VoicePeer :
          /\ (Connected(r)' <=> Connected(r)) /\ (PeerTakes(r)' <=> PeerTakes(r))
          /\ (PeerOffers(r)' <=> PeerOffers(r)) /\ (PeerAwaits(r)' <=> PeerAwaits(r))
          /\ (PeerSettled(r)' <=> PeerSettled(r)) /\ (PeerAnswered(r)' <=> PeerAnswered(r))
    BY <2>3, <2>7, Zenon DEF Connected, PeerTakes, PeerOffers, PeerAwaits, PeerSettled, PeerAnswered
  <2>9. Owed' /\ FromThere'
    BY <1>0, <2>7, <2>8, OtherFacts, ZenonT(30) DEF Owed, FromThere, VoicePeer
  <2>10. FinePeers'
    BY <1>0, <2>1, <2>3, <2>4, <2>5, ZenonT(30) DEF FinePeers, FineMessage, Connected
  <2>11. Announced'
    BY <2>1, <2>4, <2>5, ZenonT(30) DEF Announced, Coming, Has
  <2> QED
    BY <2>6, <2>9, <2>10, <2>11, ZenonT(30) DEF CallInv
<1>4. CASE ShareVideo(p)
  <2>0. UNCHANGED <<channel, asking, inCall, joins, made, signals>>
    BY <1>4, Zenon DEF ShareVideo
  <2>1. CASE Connected(p)
    <3> DEFINE b == IF video[p] THEN conn[p].tracks \ {"video"} ELSE conn[p].tracks \cup {"video"}
               d == [conn[p] EXCEPT !["tracks"] = b]
    <3>1. conn' = [conn EXCEPT ![p] = d]
      BY <1>4, <2>1, ZenonT(30) DEF ShareVideo
    <3>2. "tracks" \in ConnField \ ViewFields /\ FineConn(conn[p])
      BY <1>0, <2>1, Zenon DEF ConnField, ViewFields, FinePeers
    <3>3. FineConn(d) /\ Turn(p = Impolite, conn[p], d, {}, {})
      BY <3>2, SameTurn, ZenonT(30)
    <3> HIDE DEF d
    <3> QED
      BY <2>0, <2>1, <3>1, <3>3, SilentStep, ZenonT(30)
  <2>2. CASE ~ Connected(p)
    <3>1. conn' = conn
      BY <1>4, <2>2, ZenonT(30) DEF ShareVideo
    <3> QED
      BY <1>0, <2>0, <3>1, ZenonT(30) DEF CallInv, Fresh, FinePeers, Owed, FromThere, Announced, Connected, Coming,
                              PeerTakes, PeerOffers, PeerAwaits, PeerSettled, PeerAnswered
  <2> QED
    BY <2>1, <2>2
<1> QED
  BY <1>1, <1>2, <1>3, <1>4, Zenon

LEMMA CompleteMeets ==
    ASSUME VoiceInv, CallInv, ~ Spent, NEW p \in VoicePeer, Complete(p)
    PROVE  CallInv'
  BY OfferMeets, AnswerAppliedMeets, TakingMeets, AnsweringMeets, ZenonT(30) DEF Complete

\* With nothing under way, every debt is paid.
LEMMA QuietMeet ==
    ASSUME CallInv
    PROVE  CallersMeet
<1> SUFFICES ASSUME Quiet, InTheCall, \A p \in VoicePeer : joins[p] = 1
             PROVE  \A p \in VoicePeer : Connected(p) /\ conn[p].remote = conn[Other(p)].id
  BY Zenon DEF CallersMeet
<1>1. ~ Spent
  BY DEF InTheCall, Spent
<1>2. Fresh /\ FinePeers /\ Owed /\ FromThere /\ Announced
  BY <1>1, Zenon DEF CallInv
<1>3. ASSUME NEW p \in VoicePeer
      PROVE  /\ \A type : ~ Coming(p, type)
             /\ ~ PeerTakes(p) /\ ~ PeerOffers(p) /\ ~ PeerAnswered(p)
  <2>1. Items(signals[p]) = {}
    BY EmptyItems, Zenon DEF Quiet
  <2>2. Connected(p) => Items(conn[p].chain) = {} /\ FineConn(conn[p])
    BY <1>2, EmptyItems, Zenon DEF Quiet, FinePeers
  <2>3. \A type : ~ Coming(p, type)
    BY <2>1, Zenon DEF Coming, Has
  <2> QED
    BY <2>2, <2>3, ZenonT(30) DEF PeerTakes, PeerOffers, PeerAnswered, Taking, Offering, HasOp, FineConn
<1>4. \A p \in VoicePeer : Connected(p) => PeerSettled(p)
  BY <1>2, <1>3, Zenon DEF Owed, VoicePeer
<1>5. \E p \in VoicePeer : Connected(p)
  BY <1>2, <1>3, Zenon DEF Announced, InTheCall
<1>6. \A p \in VoicePeer : Connected(p)
  BY <1>2, <1>4, <1>5, OtherFacts, ZenonT(30) DEF FromThere, VoicePeer
<1>7. \A p \in VoicePeer : conn[p].id = 1 /\ conn[p].remote = 1
  BY <1>2, <1>4, <1>6, ZenonT(30) DEF FinePeers, FineConn, PeerSettled, Settled
<1> QED
  BY <1>6, <1>7, OtherFacts, ZenonT(30)

\* Two clients that each joined once and are in the call are connected, each to the
\* connection the other has, once nothing is under way: whichever offers collided
\* and were ignored or rolled back, and however often sharing started or stopped
\* (create_offer, handle_offer, handle_answer, should_ignore_offer).
THEOREM CallersAlwaysMeet == VoiceSpec => []CallersMeet
<1>1. VoiceInit => CallInv
  <2> SUFFICES ASSUME VoiceInit
               PROVE  CallInv
    BY Zenon
  <2>1. CallTypes /\ Fresh
    BY SMTT(30) DEF VoiceInit, CallTypes, Fresh
  <2>2. /\ \A p \in VoicePeer : ~ Connected(p) /\ made[p] = 0 /\ ~ inCall[p]
        /\ \A p \in VoicePeer : IsSeq(signals[p]) /\ Items(signals[p]) = {}
    BY EmptyItems DEF VoiceInit, Connected, NoConn
  <2>3. \A p \in VoicePeer : \A type : ~ Coming(p, type)
    BY <2>2, Zenon DEF Coming, Has
  <2>4. FinePeers
    BY <2>2, Zenon DEF FinePeers
  <2>5. Owed /\ FromThere
    BY <2>2, <2>3, ZenonT(30) DEF Owed, FromThere, PeerTakes, PeerOffers, PeerAwaits, PeerSettled, PeerAnswered,
                      VoicePeer
  <2>6. Announced
    BY <2>2 DEF Announced, VoicePeer
  <2> QED
    BY <2>1, <2>4, <2>5, <2>6 DEF CallInv
<1>2. VoiceInv /\ CallInv /\ [VoiceNext]_voiceVars => CallInv'
  <2> SUFFICES ASSUME VoiceInv, CallInv, [VoiceNext]_voiceVars
               PROVE  CallInv'
    BY Zenon
  <2>1. CASE UNCHANGED voiceVars
    BY <2>1, ZenonT(30) DEF voiceVars, uiVars, userVars, CallInv, CallTypes, Spent, Fresh, FinePeers, Owed, FromThere,
                Announced, Connected, Coming, PeerTakes, PeerOffers, PeerAwaits, PeerSettled, PeerAnswered
  <2>2. CASE VoiceNext
    <3>1. PICK p \in VoicePeer :
            \/ ClickJoin(p) \/ MicGranted(p) \/ MicDenied(p) \/ ClickLeave(p) \/ ShareVideo(p)
            \/ Receive(p) \/ NegotiationNeeded(p) \/ GatherIce(p) \/ Complete(p)
      BY <2>2, Zenon DEF VoiceNext
    <3>2. CallTypes'
      BY <3>1, CallTypesStay, Zenon DEF CallInv
    <3>3. CASE Spent
      BY <3>1, <3>2, <3>3, CallTypesStay, SpentStays, ZenonT(30) DEF CallInv
    <3>4. CASE ~ Spent
      BY <3>1, <3>2, <3>4, UserMeets, ReceiveMeets, BrowserMeets, CompleteMeets, ZenonT(30)
    <3> QED
      BY <3>3, <3>4
  <2> QED
    BY <2>1, <2>2
<1>3. CallInv => CallersMeet
  BY QuietMeet
<1> QED
  BY <1>1, <1>2, <1>3, VoiceInvariant, PTL DEF VoiceSpec
=============================================================================
