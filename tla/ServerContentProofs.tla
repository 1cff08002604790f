------------------------ MODULE ServerContentProofs ------------------------
(***************************************************************************)
(* Proofs about the state of a server: its governance, for every set of    *)
(* peers, roles, permissions, hashes and vote counts, and its content, for *)
(* any number of events.  A behaviour of the content is one of its         *)
(* governance, so the theorems about the governance hold of it; on top of  *)
(* them come the message index and what a peer outside the server can      *)
(* change.                                                                 *)
(***************************************************************************)
EXTENDS ServerContent, FiniteSetTheorems, SequenceTheorems, WellFoundedInduction, TLAPS

Proposals(ps) == DOMAIN ps \in SUBSET Hash /\ ps \in [DOMAIN ps -> PendingProposal]

-----------------------------------------------------------------------------
(* The helpers keep maps of proposals maps of proposals.                   *)

\* Removing an entry of the proposal map leaves a proposal map.
LEMMA WithoutType ==
    ASSUME NEW ps, Proposals(ps), NEW h
    PROVE  Proposals(Without(ps, h))
  BY DEF Proposals, Without

\* Storing a proposal under a hash leaves a proposal map.
LEMMA WithType ==
    ASSUME NEW ps, Proposals(ps), NEW h \in Hash, NEW prop \in PendingProposal
    PROVE  Proposals(With(ps, h, prop))
  BY DEF Proposals, With

\* Removing a peer's votes leaves a proposal map with the same hashes, actions and
\* proposers.
LEMMA StripVotesType ==
    ASSUME NEW ps, Proposals(ps), NEW p
    PROVE  /\ Proposals(StripVotes(ps, p))
           /\ DOMAIN StripVotes(ps, p) = DOMAIN ps
           /\ \A h \in DOMAIN ps :
                /\ StripVotes(ps, p)[h].yes = ps[h].yes \ {p}
                /\ StripVotes(ps, p)[h].proposer = ps[h].proposer
  BY DEF Proposals, StripVotes, PendingProposal

\* Enacting any action on well-typed proposals leaves a well-typed state.
LEMMA ApplyType ==
    ASSUME TypeOK, NEW action \in ProposedAction, NEW ps, Proposals(ps),
           NEW st \in Seq(SUBSET Hash), ApplyProposedAction(action, ps, st)
    PROVE  TypeOK'
  <1> USE DEF Proposals
  <1>1. CASE GrantAdmin(action, ps, st)
    BY <1>1 DEF GrantAdmin, TypeOK, ProposedAction, roleVars
  <1>2. CASE KeepLastAdmin(action, ps, st)
    BY <1>2 DEF KeepLastAdmin, TypeOK, roleVars, peopleVars
  <1>3. ASSUME Cleanup(action.peer, ps, st)
        PROVE  /\ Proposals(pending_proposals)'
               /\ (stack \in Seq(SUBSET Hash))'
    <2> DEFINE stripped == StripVotes(ps, action.peer)
               top == Passing(stripped, admins \ {action.peer}, vote_threshold)
    <2>1. Proposals(stripped)
      BY StripVotesType
    <2>2. top \in SUBSET Hash
      BY <2>1 DEF Passing
    <2>3. Append(st, top) \in Seq(SUBSET Hash)
      <3> HIDE DEF top
      <3> QED  BY <2>2
    <2> QED
      BY <1>3, <2>1, <2>3, Zenon DEF Cleanup
  <1>4. CASE RevokeAdmin(action, ps, st)
    BY <1>3, <1>4 DEF RevokeAdmin, TypeOK, roleVars, peopleVars
  <1>5. CASE KickMember(action, ps, st)
    BY <1>3, <1>5, Zenon DEF KickMember, TypeOK, roleVars
  <1>6. CASE SetVoteThreshold(action, ps, st)
    <2>1. Passing(ps, admins, action.threshold) \in SUBSET Hash
      BY DEF Passing
    <2>2. action.threshold \in VoteThreshold
      BY <1>6 DEF SetVoteThreshold, ProposedAction
    <2> QED
      BY <1>6, <2>1, <2>2 DEF SetVoteThreshold, TypeOK, roleVars, peopleVars
  <1> QED
    BY <1>1, <1>2, <1>4, <1>5, <1>6 DEF ApplyProposedAction

-----------------------------------------------------------------------------
(* Type correctness.                                                       *)

\* What Propose stores is a proposal.
LEMMA ProposeType ==
    ASSUME NEW a \in Peer, NEW action \in ProposedAction
    PROVE  [action |-> action, proposer |-> a, yes |-> {a}] \in PendingProposal
  BY DEF PendingProposal

\* Recording a vote leaves a proposal of the same proposer.
LEMMA RecordedType ==
    ASSUME NEW prop \in PendingProposal, NEW a \in Peer, NEW accept \in BOOLEAN
    PROVE  /\ Recorded(prop, a, accept) \in PendingProposal
           /\ Recorded(prop, a, accept).proposer = prop.proposer
           /\ Recorded(prop, a, accept).yes \subseteq prop.yes \cup {a}
  <1>1. CASE accept = TRUE
    BY <1>1 DEF Recorded, PendingProposal
  <1>2. CASE accept = FALSE
    BY <1>2 DEF Recorded, PendingProposal
  <1> QED
    BY <1>1, <1>2, Zenon

\* check_and_apply_proposal leaves a well-typed state.
LEMMA CheckAndApplyType ==
    ASSUME TypeOK, NEW h, NEW prop \in PendingProposal, CheckAndApply(h, prop),
           h \in Hash \/ ShouldApply(prop)
    PROVE  TypeOK'
  <1>0. Proposals(pending_proposals)
    BY DEF TypeOK, Proposals
  <1>1. CASE ShouldApply(prop)
    <2>1. ApplyProposedAction(prop.action, Without(pending_proposals, h), stack)
      BY <1>1 DEF CheckAndApply
    <2>2. prop.action \in ProposedAction
      BY DEF PendingProposal
    <2>3. Proposals(Without(pending_proposals, h))
      BY <1>0, WithoutType
    <2>4. stack \in Seq(SUBSET Hash)
      BY DEF TypeOK
    <2> QED
      BY <2>1, <2>2, <2>3, <2>4, ApplyType
  <1>2. CASE ~ShouldApply(prop)
    <2>1. Proposals(With(pending_proposals, h, prop))
      BY <1>0, <1>2, WithType
    <2> QED
      BY <1>2, <2>1 DEF CheckAndApply, TypeOK, Proposals, peopleVars, roleVars
  <1> QED
    BY <1>1, <1>2

\* A turn of the re-evaluation loop leaves a well-typed state.
LEMMA ReevaluateType ==
    ASSUME TypeOK, Reevaluate
    PROVE  TypeOK'
  <1> DEFINE top == stack[Len(stack)]
             outer == SubSeq(stack, 1, Len(stack) - 1)
  <1>0. Proposals(pending_proposals)
    BY DEF TypeOK, Proposals
  <1>1. /\ top \in SUBSET Hash
        /\ outer \in Seq(SUBSET Hash)
        /\ \A h : Append(outer, top \ {h}) \in Seq(SUBSET Hash)
    BY DEF TypeOK, Reevaluate
  <1>2. CASE /\ top = {}
             /\ stack' = outer
             /\ UNCHANGED <<admins, vote_threshold, pending_proposals, peopleVars, roleVars>>
    BY <1>1, <1>2 DEF TypeOK, peopleVars, roleVars
  <1>3. ASSUME NEW h \in top, h \in DOMAIN pending_proposals,
               ApplyProposedAction(pending_proposals[h].action,
                    Without(pending_proposals, h), Append(outer, top \ {h}))
        PROVE  TypeOK'
    <2>1. pending_proposals[h].action \in ProposedAction
      BY <1>3, <1>0 DEF Proposals, PendingProposal
    <2>2. Proposals(Without(pending_proposals, h))
      BY <1>0, WithoutType
    <2> QED
      BY <1>1, <1>3, <2>1, <2>2, ApplyType, Zenon
  <1>4. ASSUME NEW h \in top, stack' = Append(outer, top \ {h}),
               UNCHANGED <<admins, vote_threshold, pending_proposals, peopleVars, roleVars>>
        PROVE  TypeOK'
    BY <1>1, <1>4 DEF TypeOK, peopleVars, roleVars
  <1> QED
    BY <1>2, <1>3, <1>4, ZenonT(30) DEF Reevaluate

\* Every step leaves a well-typed state.
LEMMA TypeStep == TypeOK /\ [Next]_vars => TypeOK'
  <1> SUFFICES ASSUME TypeOK, [Next]_vars PROVE TypeOK'
    OBVIOUS
  <1>1. ASSUME NEW a \in Peer, NEW h \in Hash \cup {NoHash}, NEW action \in ProposedAction,
               Propose(a, h, action)
        PROVE  TypeOK'
    BY <1>1, ProposeType, CheckAndApplyType DEF Propose
  <1>2. ASSUME NEW a \in Peer, NEW h \in Hash, NEW accept \in BOOLEAN, Vote(a, h, accept)
        PROVE  TypeOK'
    <2>1. pending_proposals[h] \in PendingProposal
      BY <1>2 DEF Vote, TypeOK
    <2> QED
      BY <1>2, <2>1, RecordedType, CheckAndApplyType DEF Vote
  <1>3. CASE Reevaluate
    BY <1>3, ReevaluateType
  <1>4. ASSUME NEW a \in Peer, NEW p \in Peer, NEW perm \in Permission,
               GrantPermission(a, p, perm) \/ RevokePermission(a, p, perm)
        PROVE  TypeOK'
    BY <1>4 DEF GrantPermission, RevokePermission, TypeOK, govVars, peopleVars, roleVars
  <1>5. ASSUME NEW a \in Peer, NEW r \in Role, CreateRole(a, r) \/ DeleteRole(a, r)
        PROVE  TypeOK'
    BY <1>5 DEF CreateRole, DeleteRole, TypeOK, govVars, peopleVars, roleVars
  <1>6. ASSUME NEW a \in Peer, NEW r \in Role, NEW perm \in Permission,
               NEW granted \in BOOLEAN, SetPermission(a, r, perm, granted)
        PROVE  TypeOK'
    BY <1>6 DEF SetPermission, TypeOK, govVars, peopleVars, roleVars
  <1>7. ASSUME NEW a \in Peer, NEW p \in Peer, NEW r \in Role, AssignRole(a, p, r)
        PROVE  TypeOK'
    BY <1>7 DEF AssignRole, TypeOK, govVars, peopleVars, roleVars
  <1>8. CASE UNCHANGED vars
    BY <1>8 DEF TypeOK, vars, govVars, peopleVars, roleVars
  <1> QED
    BY <1>1, <1>2, <1>3, <1>4, <1>5, <1>6, <1>7, <1>8, SMTT(30) DEF Next

\* TypeOK is an invariant: every materialized state is well-typed.
THEOREM TypeCorrect == Spec => []TypeOK
  <1>1. Init => TypeOK
    BY PeerAssumption DEF Init, TypeOK, VoteThreshold
  <1> QED
    BY <1>1, TypeStep, PTL DEF Spec

-----------------------------------------------------------------------------
(* Admins, members, grants and roles.                                      *)

People ==
    /\ Governable
    /\ AuthorityIsMembership
    /\ MemberRolesExist
    /\ RolesNeedMembership

\* Enacting an action keeps an admin, and takes membership, grants and roles away
\* together.
LEMMA ApplyPeople ==
    ASSUME TypeOK, People, NEW action \in ProposedAction, NEW ps, NEW st,
           ApplyProposedAction(action, ps, st)
    PROVE  People'
  <1> USE DEF People, Governable, AuthorityIsMembership, MemberRolesExist,
              RolesNeedMembership, TypeOK
  <1>1. CASE GrantAdmin(action, ps, st)
    BY <1>1 DEF GrantAdmin, roleVars
  <1>2. CASE KeepLastAdmin(action, ps, st)
    BY <1>2 DEF KeepLastAdmin, roleVars, peopleVars
  <1>3. CASE RevokeAdmin(action, ps, st)
    BY <1>3 DEF RevokeAdmin, roleVars, peopleVars
  <1>4. CASE KickMember(action, ps, st)
    <2>1. action.peer \in Peer
      BY <1>4 DEF KickMember, ProposedAction
    <2> QED
      BY <1>4, <2>1 DEF KickMember, roleVars
  <1>5. CASE SetVoteThreshold(action, ps, st)
    BY <1>5 DEF SetVoteThreshold, roleVars, peopleVars
  <1> QED
    BY <1>1, <1>2, <1>3, <1>4, <1>5, SMTT(30) DEF ApplyProposedAction

\* Every step keeps the four invariants about people.
LEMMA PeopleStep == TypeOK /\ People /\ [Next]_vars => People'
  <1> SUFFICES ASSUME TypeOK, People, [Next]_vars PROVE People'
    OBVIOUS
  <1> DEFINE Same == UNCHANGED <<admins, peopleVars, roleVars>>
  <1>0. ASSUME Same PROVE People'
    BY <1>0 DEF People, Governable, AuthorityIsMembership, MemberRolesExist,
                RolesNeedMembership, peopleVars, roleVars
  <1>1. ASSUME NEW h, NEW prop \in PendingProposal, CheckAndApply(h, prop)
        PROVE  People'
    <2>1. prop.action \in ProposedAction
      BY DEF PendingProposal
    <2> QED
      BY <1>0, <1>1, <2>1, ApplyPeople DEF CheckAndApply
  <1>2. ASSUME NEW a \in Peer, NEW h \in Hash \cup {NoHash}, NEW action \in ProposedAction,
               Propose(a, h, action)
        PROVE  People'
    BY <1>1, <1>2, ProposeType DEF Propose
  <1>3. ASSUME NEW a \in Peer, NEW h \in Hash, NEW accept \in BOOLEAN, Vote(a, h, accept)
        PROVE  People'
    <2>1. pending_proposals[h] \in PendingProposal
      BY <1>3 DEF Vote, TypeOK
    <2> QED
      BY <1>1, <1>3, <2>1, RecordedType DEF Vote
  <1>4. CASE Reevaluate
    <2>1. \A h \in DOMAIN pending_proposals : pending_proposals[h].action \in ProposedAction
      BY DEF TypeOK, PendingProposal
    <2> QED
      BY <1>0, <1>4, <2>1, ApplyPeople, ZenonT(30) DEF Reevaluate
  <1>5. ASSUME NEW a \in Peer, NEW p \in Peer, NEW perm \in Permission,
               GrantPermission(a, p, perm) \/ RevokePermission(a, p, perm)
        PROVE  People'
    BY <1>5 DEF GrantPermission, RevokePermission, TypeOK, govVars, roleVars,
                People, Governable, AuthorityIsMembership, MemberRolesExist, RolesNeedMembership
  <1>6. ASSUME NEW a \in Peer, NEW r \in Role, CreateRole(a, r) \/ DeleteRole(a, r)
        PROVE  People'
    BY <1>6 DEF CreateRole, DeleteRole, TypeOK, govVars, peopleVars,
                People, Governable, AuthorityIsMembership, MemberRolesExist, RolesNeedMembership
  <1>7. ASSUME NEW a \in Peer, NEW r \in Role, NEW perm \in Permission,
               NEW granted \in BOOLEAN, SetPermission(a, r, perm, granted)
        PROVE  People'
    BY <1>7 DEF SetPermission, govVars, peopleVars,
                People, Governable, AuthorityIsMembership, MemberRolesExist, RolesNeedMembership
  <1>8. ASSUME NEW a \in Peer, NEW p \in Peer, NEW r \in Role, AssignRole(a, p, r)
        PROVE  People'
    BY <1>8 DEF AssignRole, TypeOK, govVars, roleVars,
                People, Governable, AuthorityIsMembership, MemberRolesExist, RolesNeedMembership
  <1>9. CASE UNCHANGED vars
    BY <1>0, <1>9 DEF vars, govVars
  <1> QED
    BY <1>2, <1>3, <1>4, <1>5, <1>6, <1>7, <1>8, <1>9, SMTT(30) DEF Next

\* The invariants about people hold in every state.
LEMMA PeopleInvariant == Spec => [](TypeOK /\ People)
  <1>1. Init => TypeOK /\ People
    BY PeerAssumption DEF Init, TypeOK, VoteThreshold, People, Governable,
          AuthorityIsMembership, MemberRolesExist, RolesNeedMembership
  <1>2. TypeOK /\ People /\ [Next]_vars => (TypeOK /\ People)'
    BY TypeStep, PeopleStep
  <1> QED
    BY <1>1, <1>2, PTL DEF Spec

\* The server always has an admin: neither a revocation nor a kick, voted or
\* cascaded, removes the last one.
THEOREM AlwaysGovernable == Spec => []Governable
  <1>1. People => Governable
    BY DEF People
  <1> QED
    BY <1>1, PeopleInvariant, PTL

\* Admins and peers with explicit permissions are members.
THEOREM AuthorityNeedsMembership == Spec => []AuthorityIsMembership
  <1>1. People => AuthorityIsMembership
    BY DEF People
  <1> QED
    BY <1>1, PeopleInvariant, PTL

\* Roles held by a peer exist, and the peer is a member.
THEOREM RolesAreHeldByMembers == Spec => []RolesFit
  <1>1. People => RolesFit
    BY DEF People, RolesFit
  <1> QED
    BY <1>1, PeopleInvariant, PTL

-----------------------------------------------------------------------------
(* Ballots.                                                                *)

\* The proposals of ps were made by peers other than the owner and count only the
\* votes of current admins.
Ballots(ps) == \A h \in DOMAIN ps : ps[h].yes \subseteq admins /\ ps[h].proposer # Owner

\* Enacting an action removes the votes of whoever stops being an admin.
LEMMA ApplyBallots ==
    ASSUME TypeOK, NEW action \in ProposedAction, NEW ps, Proposals(ps), Ballots(ps),
           NEW st, ApplyProposedAction(action, ps, st)
    PROVE  Ballots(pending_proposals)'
  <1>1. CASE GrantAdmin(action, ps, st)
    BY <1>1 DEF GrantAdmin, Ballots
  <1>2. CASE KeepLastAdmin(action, ps, st) \/ SetVoteThreshold(action, ps, st)
    BY <1>2 DEF KeepLastAdmin, SetVoteThreshold, Ballots
  <1>3. CASE RevokeAdmin(action, ps, st) \/ KickMember(action, ps, st)
    <2>1. /\ admins' = admins \ {action.peer}
          /\ pending_proposals' = StripVotes(ps, action.peer)
      BY <1>3 DEF RevokeAdmin, KickMember, Cleanup
    <2> QED
      BY <2>1, StripVotesType DEF Ballots
  <1> QED
    BY <1>1, <1>2, <1>3, SMTT(30) DEF ApplyProposedAction

\* check_and_apply_proposal keeps ballots clean when the proposal it stores counts
\* only admins.
LEMMA CheckAndApplyBallots ==
    ASSUME TypeOK, Ballots(pending_proposals), NEW h, NEW prop \in PendingProposal,
           prop.yes \subseteq admins, CheckAndApply(h, prop)
    PROVE  Ballots(pending_proposals)'
  <1>0. Proposals(pending_proposals)
    BY DEF TypeOK, Proposals
  <1>1. CASE ShouldApply(prop)
    <2>1. ApplyProposedAction(prop.action, Without(pending_proposals, h), stack)
      BY <1>1 DEF CheckAndApply
    <2>2. prop.action \in ProposedAction
      BY DEF PendingProposal
    <2>3. Proposals(Without(pending_proposals, h)) /\ Ballots(Without(pending_proposals, h))
      BY <1>0, WithoutType DEF Without, Ballots
    <2> QED
      BY <2>1, <2>2, <2>3, ApplyBallots
  <1>2. CASE ~ShouldApply(prop)
    <2>1. prop.proposer # Owner
      BY <1>2 DEF ShouldApply
    <2>2. pending_proposals' = With(pending_proposals, h, prop) /\ admins' = admins
      BY <1>2 DEF CheckAndApply
    <2> QED
      BY <2>1, <2>2 DEF With, Ballots
  <1> QED
    BY <1>1, <1>2

\* Every step keeps ballots clean.
LEMMA BallotsStep ==
    TypeOK /\ Ballots(pending_proposals) /\ [Next]_vars => Ballots(pending_proposals)'
  <1> SUFFICES ASSUME TypeOK, Ballots(pending_proposals), [Next]_vars
               PROVE  Ballots(pending_proposals)'
    OBVIOUS
  <1>0. ASSUME UNCHANGED <<admins, pending_proposals>>
        PROVE  Ballots(pending_proposals)'
    BY <1>0 DEF Ballots
  <1>1. ASSUME NEW a \in Peer, NEW h \in Hash \cup {NoHash}, NEW action \in ProposedAction,
               Propose(a, h, action)
        PROVE  Ballots(pending_proposals)'
    BY <1>1, ProposeType, CheckAndApplyBallots DEF Propose
  <1>2. ASSUME NEW a \in Peer, NEW h \in Hash, NEW accept \in BOOLEAN, Vote(a, h, accept)
        PROVE  Ballots(pending_proposals)'
    <2>1. pending_proposals[h] \in PendingProposal /\ pending_proposals[h].yes \subseteq admins
      BY <1>2 DEF Vote, TypeOK, Ballots
    <2> QED
      BY <1>2, <2>1, RecordedType, CheckAndApplyBallots DEF Vote
  <1>3. CASE Reevaluate
    <2>1. ASSUME NEW h \in DOMAIN pending_proposals, NEW st,
                 ApplyProposedAction(pending_proposals[h].action,
                                     Without(pending_proposals, h), st)
          PROVE  Ballots(pending_proposals)'
      <3>1. Proposals(pending_proposals)
        BY DEF TypeOK, Proposals
      <3>2. /\ Proposals(Without(pending_proposals, h))
            /\ Ballots(Without(pending_proposals, h))
        BY <3>1, WithoutType DEF Without, Ballots
      <3>3. pending_proposals[h].action \in ProposedAction
        BY <3>1 DEF Proposals, PendingProposal
      <3> QED
        BY <2>1, <3>2, <3>3, ApplyBallots
    <2> QED
      BY <1>0, <1>3, <2>1, Zenon DEF Reevaluate
  <1>4. ASSUME UNCHANGED govVars PROVE Ballots(pending_proposals)'
    BY <1>0, <1>4 DEF govVars
  <1> QED
    BY <1>1, <1>2, <1>3, <1>4, SMTT(30)
       DEF Next, vars, GrantPermission, RevokePermission, CreateRole, DeleteRole,
           SetPermission, AssignRole

\* Only current admins' votes count, and the owner's proposals are never pending.
THEOREM BallotsAreClean == Spec => [](VotesAreLive /\ OwnerNeverWaits)
  <1>1. Init => TypeOK /\ Ballots(pending_proposals)
    BY PeerAssumption DEF Init, TypeOK, VoteThreshold, Ballots
  <1>2. TypeOK /\ Ballots(pending_proposals) /\ [Next]_vars
            => (TypeOK /\ Ballots(pending_proposals))'
    BY TypeStep, BallotsStep
  <1>3. Ballots(pending_proposals) => VotesAreLive /\ OwnerNeverWaits
    BY DEF Ballots, VotesAreLive, OwnerNeverWaits
  <1> QED
    BY <1>1, <1>2, <1>3, PTL DEF Spec

-----------------------------------------------------------------------------
(* Ripe proposals.                                                         *)

\* A larger admin set never makes a proposal pass.
LEMMA MoreAdminsNeedMore ==
    ASSUME NEW adm, IsFiniteSet(adm), adm # {}, NEW p, NEW yes \in Nat,
           NEW threshold \in VoteThreshold,
           MeetsThreshold(adm \cup {p}, threshold, yes)
    PROVE  MeetsThreshold(adm, threshold, yes)
  <1> DEFINE n == Cardinality(adm)
             m == Cardinality(adm \cup {p})
  <1>1. n \in Nat /\ n # 0
    BY FS_CardinalityType, FS_EmptySet
  <1>2. m \in Nat /\ (m = n \/ m = n + 1)
    BY <1>1, FS_AddElement, FS_CardinalityType
  <1>3. threshold.kind = "Count" => threshold.n \in Nat
    BY CountAssumption, Zenon DEF VoteThreshold
  <1>4. /\ \/ threshold.kind = "Majority" /\ yes > m \div 2
           \/ threshold.kind = "Unanimous" /\ yes >= m
           \/ threshold.kind = "Count" /\ (yes >= threshold.n \/ yes >= m)
    BY DEF MeetsThreshold
  <1> HIDE DEF n, m
  <1>5. \/ threshold.kind = "Majority" /\ yes > n \div 2
        \/ threshold.kind = "Unanimous" /\ yes >= n
        \/ threshold.kind = "Count" /\ (yes >= threshold.n \/ yes >= n)
    <2>1. yes > m \div 2 => yes > n \div 2
      BY <1>1, <1>2
    <2>2. yes >= m => yes >= n
      BY <1>1, <1>2
    <2> QED
      BY <1>4, <2>1, <2>2
  <1> USE DEF n, m
  <1> QED
    BY <1>1, <1>5 DEF MeetsThreshold

Listed(ps, st) ==
    \A h \in Passing(ps, admins, vote_threshold) : \E i \in 1 .. Len(st) : h \in st[i]

\* A list appended to the stack is in the stack.
LEMMA AppendLists ==
    ASSUME NEW S, NEW st \in Seq(S), NEW top \in S
    PROVE  /\ Len(Append(st, top)) \in 1 .. Len(Append(st, top))
           /\ Append(st, top)[Len(Append(st, top))] = top
           /\ \A i \in 1 .. Len(st) : /\ i \in 1 .. Len(Append(st, top))
                                      /\ Append(st, top)[i] = st[i]
  OBVIOUS

\* All but the last element of a sequence.
LEMMA FrontProperties ==
    ASSUME NEW S, NEW s \in Seq(S), s # <<>>
    PROVE  /\ Len(s) \in Nat \ {0}
           /\ s[Len(s)] \in S
           /\ SubSeq(s, 1, Len(s) - 1) \in Seq(S)
           /\ Len(SubSeq(s, 1, Len(s) - 1)) = Len(s) - 1
           /\ \A i \in 1 .. Len(SubSeq(s, 1, Len(s) - 1)) : SubSeq(s, 1, Len(s) - 1)[i] = s[i]
  <1>1. Len(s) \in Nat \ {0} /\ \A i \in 1 .. Len(s) : s[i] \in S
    OBVIOUS
  <1>2. PICK k \in Nat : Len(s) = k + 1
    BY <1>1
  <1> DEFINE front == SubSeq(s, 1, k)
  <1>3. Len(s) - 1 = k
    BY <1>2
  <1>4. /\ front \in Seq(S)
        /\ Len(front) = IF 1 <= k THEN k - 1 + 1 ELSE 0
        /\ \A i \in 1 .. k - 1 + 1 : front[i] = s[1 + i - 1]
    BY <1>1, <1>2, SubSeqProperties
  <1> HIDE DEF front
  <1>5. Len(front) = k
    BY <1>4
  <1>6. ASSUME NEW i \in 1 .. k PROVE front[i] = s[i]
    <2>1. i \in 1 .. k - 1 + 1 /\ 1 + i - 1 = i
      OBVIOUS
    <2> QED
      BY <1>4, <2>1
  <1>7. /\ front \in Seq(S)
        /\ Len(front) = k
        /\ \A i \in 1 .. Len(front) : front[i] = s[i]
    BY <1>4, <1>5, <1>6
  <1> USE DEF front
  <1> QED
    BY <1>1, <1>2, <1>3, <1>7

\* Enacting an action lists every proposal it makes pass: a grant makes none pass,
\* and the others re-evaluate all of them.
LEMMA ApplyRipe ==
    ASSUME TypeOK, Governable, NEW action \in ProposedAction, NEW ps, Proposals(ps),
           NEW st \in Seq(SUBSET Hash), Listed(ps, st), ApplyProposedAction(action, ps, st)
    PROVE  RipeIsListed'
  <1>1. CASE GrantAdmin(action, ps, st)
    <2>1. ASSUME NEW h \in Passing(ps, admins \cup {action.peer}, vote_threshold)
          PROVE  h \in Passing(ps, admins, vote_threshold)
      <3>1. IsFiniteSet(admins) /\ admins # {} /\ vote_threshold \in VoteThreshold
        BY PeerAssumption, FS_Subset DEF TypeOK, Governable
      <3>2. h \in DOMAIN ps /\ ps[h].yes \in SUBSET Peer
        BY <2>1 DEF Passing, Proposals, PendingProposal
      <3>3. Cardinality(ps[h].yes) \in Nat
        BY <3>2, PeerAssumption, FS_Subset, FS_CardinalityType
      <3>4. MeetsThreshold(admins \cup {action.peer}, vote_threshold, Cardinality(ps[h].yes))
        BY <2>1 DEF Passing, Passes
      <3>5. MeetsThreshold(admins, vote_threshold, Cardinality(ps[h].yes))
        BY <3>1, <3>3, <3>4, MoreAdminsNeedMore, Zenon
      <3> QED
        BY <3>2, <3>5, SMTT(30) DEF Passing, Passes
    <2>2. /\ admins' = admins \cup {action.peer}
          /\ vote_threshold' = vote_threshold
          /\ pending_proposals' = ps
          /\ stack' = st
      BY <1>1 DEF GrantAdmin
    <2> QED
      BY <2>1, <2>2, SMTT(30) DEF RipeIsListed, Listed
  <1>2. CASE KeepLastAdmin(action, ps, st)
    BY <1>2 DEF KeepLastAdmin, RipeIsListed, Listed
  <1>3. ASSUME NEW ripe \in SUBSET Hash,
               ripe = Passing(pending_proposals', admins', vote_threshold'),
               stack' = Append(st, ripe)
        PROVE  RipeIsListed'
    <2>1. \A h \in ripe : \E i \in 1 .. Len(stack') : h \in stack'[i]
      BY <1>3, AppendLists
    <2> QED
      BY <1>3, <2>1 DEF RipeIsListed
  <1>4. CASE RevokeAdmin(action, ps, st) \/ KickMember(action, ps, st)
    <2> DEFINE ripe == Passing(StripVotes(ps, action.peer), admins \ {action.peer},
                               vote_threshold)
    <2>1. ripe \in SUBSET Hash
      BY StripVotesType DEF Passing, Proposals
    <2>2. /\ ripe = Passing(pending_proposals', admins', vote_threshold')
          /\ stack' = Append(st, ripe)
      BY <1>4, Zenon DEF RevokeAdmin, KickMember, Cleanup
    <2> QED
      BY <1>3, <2>1, <2>2, Zenon
  <1>5. CASE SetVoteThreshold(action, ps, st)
    <2> DEFINE ripe == Passing(ps, admins, action.threshold)
    <2>1. ripe \in SUBSET Hash
      BY DEF Passing, Proposals
    <2>2. /\ ripe = Passing(pending_proposals', admins', vote_threshold')
          /\ stack' = Append(st, ripe)
      BY <1>5 DEF SetVoteThreshold
    <2> QED
      BY <1>3, <2>1, <2>2
  <1> QED
    BY <1>1, <1>2, <1>4, <1>5, SMTT(30) DEF ApplyProposedAction

\* check_and_apply_proposal either enacts the proposal or stores one that does not
\* pass.
LEMMA CheckAndApplyRipe ==
    ASSUME TypeOK, Governable, RipeIsListed, NEW h, NEW prop \in PendingProposal,
           CheckAndApply(h, prop)
    PROVE  RipeIsListed'
  <1>0. Proposals(pending_proposals) /\ stack \in Seq(SUBSET Hash)
    BY DEF TypeOK, Proposals
  <1>1. CASE ShouldApply(prop)
    <2>1. ApplyProposedAction(prop.action, Without(pending_proposals, h), stack)
      BY <1>1 DEF CheckAndApply
    <2>2. prop.action \in ProposedAction
      BY DEF PendingProposal
    <2>3. Proposals(Without(pending_proposals, h)) /\ Listed(Without(pending_proposals, h), stack)
      BY <1>0, WithoutType, ZenonT(30) DEF Without, RipeIsListed, Listed, Passing
    <2> QED
      BY <1>0, <2>1, <2>2, <2>3, ApplyRipe
  <1>2. CASE ~ShouldApply(prop)
    <2>1. ~Passes(prop, admins, vote_threshold)
      BY <1>2 DEF ShouldApply
    <2>2. /\ pending_proposals' = With(pending_proposals, h, prop)
          /\ admins' = admins /\ vote_threshold' = vote_threshold /\ stack' = stack
      BY <1>2 DEF CheckAndApply
    <2>3. Passing(With(pending_proposals, h, prop), admins, vote_threshold)
            \subseteq Passing(pending_proposals, admins, vote_threshold)
      BY <2>1 DEF With, Passing
    <2> QED
      BY <2>2, <2>3 DEF RipeIsListed
  <1> QED
    BY <1>1, <1>2

\* A turn of the loop keeps every ripe proposal listed: the one it takes off its
\* list is enacted or no longer pending.
LEMMA ReevaluateRipe ==
    ASSUME TypeOK, Governable, RipeIsListed, Reevaluate
    PROVE  RipeIsListed'
  <1> DEFINE top == stack[Len(stack)]
             outer == SubSeq(stack, 1, Len(stack) - 1)
  <1>0. Proposals(pending_proposals)
    BY DEF TypeOK, Proposals
  <1>1. /\ stack \in Seq(SUBSET Hash) /\ Len(stack) \in Nat \ {0}
        /\ top \in SUBSET Hash
        /\ outer \in Seq(SUBSET Hash) /\ Len(outer) = Len(stack) - 1
        /\ \A i \in 1 .. Len(outer) : outer[i] = stack[i]
    <2>1. stack \in Seq(SUBSET Hash) /\ stack # <<>>
      BY DEF TypeOK, Reevaluate
    <2> QED
      BY <2>1, FrontProperties
  <1>2. ASSUME NEW g, NEW i \in 1 .. Len(stack), g \in stack[i], NEW h, g # h
        PROVE  \E j \in 1 .. Len(Append(outer, top \ {h})) : g \in Append(outer, top \ {h})[j]
    <2>1. top \ {h} \in SUBSET Hash
      BY <1>1
    <2>2. i \in 1 .. Len(outer) \/ i = Len(stack)
      BY <1>1
    <2>3. /\ Len(Append(outer, top \ {h})) \in 1 .. Len(Append(outer, top \ {h}))
          /\ Append(outer, top \ {h})[Len(Append(outer, top \ {h}))] = top \ {h}
          /\ \A k \in 1 .. Len(outer) : /\ k \in 1 .. Len(Append(outer, top \ {h}))
                                        /\ Append(outer, top \ {h})[k] = outer[k]
      <3> HIDE DEF top, outer
      <3> QED
        BY <1>1, <2>1, AppendLists
    <2>4. CASE i \in 1 .. Len(outer)
      <3>1. outer[i] = stack[i]
        BY <1>1, <2>4
      <3> HIDE DEF top, outer
      <3> QED
        BY <1>2, <2>3, <2>4, <3>1, Zenon
    <2>5. CASE i = Len(stack)
      <3>1. g \in top \ {h}
        BY <1>2, <2>5
      <3> HIDE DEF top, outer
      <3> QED
        BY <2>3, <3>1, Zenon
    <2> QED
      BY <2>2, <2>4, <2>5, Zenon
  <1>3. CASE /\ top = {}
             /\ stack' = outer
             /\ UNCHANGED <<admins, vote_threshold, pending_proposals>>
    <2>1. ASSUME NEW g, NEW i \in 1 .. Len(stack), g \in stack[i]
          PROVE  \E j \in 1 .. Len(outer) : g \in outer[j]
      BY <1>1, <1>3, <2>1
    <2> QED
      BY <1>3, <2>1 DEF RipeIsListed
  <1>4. ASSUME NEW h \in top, h \in DOMAIN pending_proposals,
               ApplyProposedAction(pending_proposals[h].action,
                    Without(pending_proposals, h), Append(outer, top \ {h}))
        PROVE  RipeIsListed'
    <2>1. pending_proposals[h].action \in ProposedAction
      BY <1>4, <1>0 DEF Proposals, PendingProposal
    <2>2. Proposals(Without(pending_proposals, h))
      BY <1>0, WithoutType
    <2>3. Append(outer, top \ {h}) \in Seq(SUBSET Hash)
      BY <1>1
    <2>4. Passing(Without(pending_proposals, h), admins, vote_threshold)
            \subseteq Passing(pending_proposals, admins, vote_threshold) \ {h}
      BY DEF Passing, Without
    <2>5. Listed(Without(pending_proposals, h), Append(outer, top \ {h}))
      BY <1>2, <2>4 DEF Listed, RipeIsListed
    <2> QED
      BY <1>4, <2>1, <2>2, <2>3, <2>5, ApplyRipe, Zenon
  <1>5. ASSUME NEW h \in top, h \notin DOMAIN pending_proposals,
               stack' = Append(outer, top \ {h}),
               UNCHANGED <<admins, vote_threshold, pending_proposals>>
        PROVE  RipeIsListed'
    <2>1. \A g \in Passing(pending_proposals, admins, vote_threshold) : g # h
      BY <1>5 DEF Passing
    <2> QED
      BY <1>2, <1>5, <2>1 DEF RipeIsListed
  <1>6. \/ /\ top = {}
           /\ stack' = outer
           /\ UNCHANGED <<admins, vote_threshold, pending_proposals>>
        \/ \E h \in top :
             \/ /\ h \in DOMAIN pending_proposals
                /\ ApplyProposedAction(pending_proposals[h].action,
                        Without(pending_proposals, h), Append(outer, top \ {h}))
             \/ /\ h \notin DOMAIN pending_proposals
                /\ stack' = Append(outer, top \ {h})
                /\ UNCHANGED <<admins, vote_threshold, pending_proposals>>
    BY Zenon DEF Reevaluate
  <1> HIDE DEF top, outer
  <1> QED
    BY <1>3, <1>4, <1>5, <1>6, ZenonT(30)

\* Every step keeps every ripe proposal listed.
LEMMA RipeStep == TypeOK /\ Governable /\ RipeIsListed /\ [Next]_vars => RipeIsListed'
  <1> SUFFICES ASSUME TypeOK, Governable, RipeIsListed, [Next]_vars
               PROVE  RipeIsListed'
    OBVIOUS
  <1>1. ASSUME NEW a \in Peer, NEW h \in Hash \cup {NoHash}, NEW action \in ProposedAction,
               Propose(a, h, action)
        PROVE  RipeIsListed'
    BY <1>1, ProposeType, CheckAndApplyRipe DEF Propose
  <1>2. ASSUME NEW a \in Peer, NEW h \in Hash, NEW accept \in BOOLEAN, Vote(a, h, accept)
        PROVE  RipeIsListed'
    <2>1. pending_proposals[h] \in PendingProposal
      BY <1>2 DEF Vote, TypeOK
    <2> QED
      BY <1>2, <2>1, RecordedType, CheckAndApplyRipe DEF Vote
  <1>3. CASE Reevaluate
    BY <1>3, ReevaluateRipe
  <1>4. ASSUME UNCHANGED govVars PROVE RipeIsListed'
    BY <1>4 DEF govVars, RipeIsListed
  <1> QED
    BY <1>1, <1>2, <1>3, <1>4, SMTT(30)
       DEF Next, vars, GrantPermission, RevokePermission, CreateRole, DeleteRole,
           SetPermission, AssignRole

\* When apply_event returns no pending proposal meets the threshold: a cascade of
\* re-evaluations misses none, although each list is computed only once.
THEOREM NoRipeProposalIsLeft == Spec => []NoRipeProposalLeft
  <1>1. Init => RipeIsListed
    BY DEF Init, RipeIsListed, Passing
  <1>2. TypeOK /\ People /\ RipeIsListed /\ [Next]_vars => RipeIsListed'
    BY RipeStep DEF People
  <1>3. RipeIsListed => NoRipeProposalLeft
    BY DEF RipeIsListed, NoRipeProposalLeft
  <1> QED
    BY <1>1, <1>2, <1>3, PeopleInvariant, PTL DEF Spec

-----------------------------------------------------------------------------
(* The cascade.                                                            *)

\* Enacting an action leaves the hashes of the proposals it is given.
LEMMA ApplyHashes ==
    ASSUME NEW action, NEW ps, NEW st, ApplyProposedAction(action, ps, st)
    PROVE  DOMAIN pending_proposals' = DOMAIN ps
  BY DEF ApplyProposedAction, GrantAdmin, KeepLastAdmin, RevokeAdmin, KickMember,
         SetVoteThreshold, Cleanup, StripVotes

\* A cascade of re-evaluations runs out of pending proposals, or of entries in its
\* lists: nothing but a turn of the loop happens in it, and every turn uses up one.
THEOREM EveryCascadeShrinks == Spec => CascadeShrinks
  <1> DEFINE outer == SubSeq(stack, 1, Len(stack) - 1)
             Shrinks ==
                stack # <<>> =>
                 \/ /\ DOMAIN pending_proposals' \subseteq DOMAIN pending_proposals
                    /\ DOMAIN pending_proposals' # DOMAIN pending_proposals
                 \/ /\ pending_proposals' = pending_proposals
                    /\ \/ stack' = outer
                       \/ \E h \in stack[Len(stack)] :
                            stack' = Append(outer, stack[Len(stack)] \ {h})
  <1>1. ASSUME Reevaluate PROVE Shrinks
    <2>1. ASSUME NEW h \in DOMAIN pending_proposals, NEW st,
                 ApplyProposedAction(pending_proposals[h].action,
                                     Without(pending_proposals, h), st)
          PROVE  Shrinks
      <3>1. DOMAIN pending_proposals' = DOMAIN pending_proposals \ {h}
        BY <2>1, ApplyHashes DEF Without
      <3> QED
        BY <3>1
    <2>2. ASSUME UNCHANGED pending_proposals,
                 \/ stack' = outer
                 \/ \E h \in stack[Len(stack)] :
                       stack' = Append(outer, stack[Len(stack)] \ {h})
          PROVE  Shrinks
      BY <2>2
    <2> HIDE DEF Shrinks
    <2> QED
      BY <1>1, <2>1, <2>2, Zenon DEF Reevaluate
  <1>2. Next => Shrinks
    <2>1. stack = <<>> => Shrinks
      OBVIOUS
    <2> HIDE DEF Shrinks
    <2> QED
      BY <1>1, <2>1, Zenon DEF Next, Propose, Vote, GrantPermission, RevokePermission,
         CreateRole, DeleteRole, SetPermission, AssignRole
  <1> QED
    BY <1>2, PTL DEF Spec, CascadeShrinks

-----------------------------------------------------------------------------
(* The content.                                                            *)

\* Every event that is not a governance event leaves the governance alone.
LEMMA ContentIsGovernance == ContentSpec => Spec
  <1>1. ContentInit => Init
    BY DEF ContentInit
  <1>2. [ContentNext]_allVars => [Next]_vars
    <2> SUFFICES ASSUME [ContentNext]_allVars PROVE [Next]_vars
      OBVIOUS
    <2>1. CASE UNCHANGED allVars
      BY <2>1 DEF allVars
    <2>2. CASE Govern
      BY <2>2, SMTT(30) DEF Govern
    <2>3. CASE ContentNext /\ ~ Govern
      BY <2>3, Zenon DEF ContentNext, CreateChannel, DeleteChannel, ChannelRevive, PinMessage,
            UnpinMessage, Message, EditMessage, DeleteMessage, Reaction, Update, SetProfile,
            UpdateProfile, OtherEvent, Reload
    <2> QED
      BY <2>1, <2>2, <2>3
  <1> QED
    BY <1>1, <1>2, PTL DEF ContentSpec, Spec

\* Admins and peers with explicit permissions are members, with the content too.
THEOREM ContentAuthority == ContentSpec => []AuthorityIsMembership
  BY ContentIsGovernance, AuthorityNeedsMembership, PTL

-----------------------------------------------------------------------------
(* The message index.                                                      *)

\* No two messages have one id, and the next event's is greater than all.
Numbered(msgs, n) ==
    /\ \A i \in DOMAIN msgs : msgs[i].id <= n
    /\ \A i, j \in DOMAIN msgs : msgs[i].id = msgs[j].id => i = j

\* A later event has a greater id still.
LEMMA NumberedLater ==
    ASSUME NEW msgs \in Seq(ChatMessage), NEW n \in Nat, Numbered(msgs, n)
    PROVE  Numbered(msgs, n + 1)
  <1>1. \A i \in DOMAIN msgs : msgs[i] \in ChatMessage
    OBVIOUS
  <1>2. \A x \in ChatMessage : x.id \in Nat
    BY DEF ChatMessage
  <1> QED
    BY <1>1, <1>2 DEF Numbered

\* What the index is for messages with ids of their own: a table of their places.
LEMMA RebuiltIndex ==
    ASSUME NEW msgs \in Seq(ChatMessage), NEW n, Numbered(msgs, n)
    PROVE  /\ DOMAIN RebuildMessageIndex(msgs) = Ids(msgs)
           /\ \A i \in DOMAIN msgs : RebuildMessageIndex(msgs)[msgs[i].id] = i
           /\ RebuildMessageIndex(msgs) \in [Ids(msgs) -> DOMAIN msgs]
  <1>1. ASSUME NEW i \in DOMAIN msgs PROVE RebuildMessageIndex(msgs)[msgs[i].id] = i
    <2> DEFINE Place(k) == /\ msgs[k].id = msgs[i].id
                           /\ \A j \in DOMAIN msgs : msgs[j].id = msgs[i].id => j <= k
    <2>1. Place(i) /\ \A k \in DOMAIN msgs : Place(k) => k = i
      BY DEF Numbered
    <2>2. (CHOOSE k \in DOMAIN msgs : Place(k)) = i
      BY <2>1
    <2>3. msgs[i].id \in Ids(msgs)
      BY DEF Ids
    <2>4. RebuildMessageIndex(msgs)[msgs[i].id] = (CHOOSE k \in DOMAIN msgs : Place(k))
      BY <2>3, Zenon DEF RebuildMessageIndex
    <2> QED
      BY <2>2, <2>4
  <1> DEFINE place(m) == CHOOSE i \in DOMAIN msgs :
                           msgs[i].id = m /\ \A j \in DOMAIN msgs : msgs[j].id = m => j <= i
  <1>2. RebuildMessageIndex(msgs) = [m \in Ids(msgs) |-> place(m)]
    BY Zenon DEF RebuildMessageIndex
  <1> HIDE DEF place
  <1>3. \A m \in Ids(msgs) : RebuildMessageIndex(msgs)[m] \in DOMAIN msgs
    BY <1>1, SMTT(30) DEF Ids
  <1> QED
    BY <1>1, <1>2, <1>3, SMTT(30)

\* The same ids in the same places give the same index.
LEMMA SameIndex ==
    ASSUME NEW old \in Seq(ChatMessage), NEW new \in Seq(ChatMessage), Len(new) = Len(old),
           \A i \in DOMAIN old : new[i].id = old[i].id,
           NEW n, Numbered(old, n)
    PROVE  /\ Numbered(new, n)
           /\ RebuildMessageIndex(new) = RebuildMessageIndex(old)
  <1>1. DOMAIN new = DOMAIN old
    OBVIOUS
  <1>2. Numbered(new, n)
    BY <1>1 DEF Numbered
  <1>3. Ids(new) = Ids(old)
    BY <1>1 DEF Ids
  <1>4. /\ RebuildMessageIndex(old) \in [Ids(old) -> DOMAIN old]
        /\ \A i \in DOMAIN old : RebuildMessageIndex(old)[old[i].id] = i
    BY RebuiltIndex
  <1>5. /\ RebuildMessageIndex(new) \in [Ids(new) -> DOMAIN new]
        /\ \A i \in DOMAIN new : RebuildMessageIndex(new)[new[i].id] = i
    BY <1>2, RebuiltIndex
  <1>6. ASSUME NEW m \in Ids(old) PROVE RebuildMessageIndex(new)[m] = RebuildMessageIndex(old)[m]
    <2>1. PICK i \in DOMAIN old : old[i].id = m
      BY DEF Ids
    <2> QED
      BY <1>1, <1>4, <1>5, <2>1, SMTT(30)
  <1> QED
    BY <1>2, <1>3, <1>4, <1>5, <1>6, SMTT(30)

\* A new message adds its place.
LEMMA AppendedIndex ==
    ASSUME NEW msgs \in Seq(ChatMessage), NEW n \in Nat, Numbered(msgs, n),
           NEW msg \in ChatMessage, msg.id = n + 1
    PROVE  /\ Numbered(Append(msgs, msg), n + 1)
           /\ RebuildMessageIndex(Append(msgs, msg))
                = With(RebuildMessageIndex(msgs), n + 1, Len(msgs) + 1)
  <1> DEFINE new == Append(msgs, msg)
  <1>1. /\ new \in Seq(ChatMessage) /\ Len(new) = Len(msgs) + 1
        /\ \A i \in DOMAIN msgs : i \in DOMAIN new /\ new[i] = msgs[i]
        /\ new[Len(msgs) + 1] = msg
        /\ DOMAIN new = DOMAIN msgs \cup {Len(msgs) + 1}
        /\ Len(msgs) + 1 \notin DOMAIN msgs
    <2>1. new \in Seq(ChatMessage) /\ Len(new) = Len(msgs) + 1
      OBVIOUS
    <2>2. DOMAIN new = 1 .. Len(msgs) + 1 /\ DOMAIN msgs = 1 .. Len(msgs) /\ Len(msgs) \in Nat
      OBVIOUS
    <2>3. \A i \in DOMAIN msgs : new[i] = msgs[i]
      OBVIOUS
    <2>4. new[Len(msgs) + 1] = msg
      OBVIOUS
    <2> QED
      BY <2>1, <2>2, <2>3, <2>4, SMTT(30)
  <1>2. \A i \in DOMAIN msgs : msgs[i].id \in Nat /\ msgs[i].id <= n
    <2>1. \A i \in DOMAIN msgs : msgs[i] \in ChatMessage
      OBVIOUS
    <2>2. \A x \in ChatMessage : x.id \in Nat
      BY DEF ChatMessage
    <2> QED
      BY <2>1, <2>2 DEF Numbered
  <1> HIDE DEF new
  <1>3. Numbered(new, n + 1)
    <2>1. \A i \in DOMAIN new : new[i].id <= n + 1
      BY <1>1, <1>2, SMTT(30)
    <2>2. ASSUME NEW i \in DOMAIN new, NEW j \in DOMAIN new, new[i].id = new[j].id
          PROVE  i = j
      BY <1>1, <1>2, <2>2, SMTT(30) DEF Numbered
    <2> QED
      BY <2>1, <2>2 DEF Numbered
  <1>4. Ids(new) = Ids(msgs) \cup {n + 1}
    BY <1>1 DEF Ids
  <1>5. n + 1 \notin Ids(msgs)
    BY <1>2 DEF Ids
  <1>6. /\ DOMAIN RebuildMessageIndex(new) = Ids(new)
        /\ \A i \in DOMAIN new : RebuildMessageIndex(new)[new[i].id] = i
        /\ RebuildMessageIndex(new) \in [Ids(new) -> DOMAIN new]
    BY <1>1, <1>3, RebuiltIndex, SMTT(30)
  <1>7. /\ DOMAIN RebuildMessageIndex(msgs) = Ids(msgs)
        /\ \A i \in DOMAIN msgs : RebuildMessageIndex(msgs)[msgs[i].id] = i
    BY RebuiltIndex
  <1>8. ASSUME NEW m \in Ids(new)
        PROVE  RebuildMessageIndex(new)[m]
                 = With(RebuildMessageIndex(msgs), n + 1, Len(msgs) + 1)[m]
    <2>1. CASE m = n + 1
      BY <1>1, <1>6, <1>7, <2>1 DEF With
    <2>2. CASE m # n + 1
      <3>1. PICK i \in DOMAIN msgs : msgs[i].id = m
        BY <1>4, <2>2, Zenon DEF Ids
      <3> QED
        BY <1>1, <1>4, <1>6, <1>7, <2>2, <3>1, SMTT(30) DEF With
    <2> QED
      BY <2>1, <2>2
  <1>9. RebuildMessageIndex(new) = With(RebuildMessageIndex(msgs), n + 1, Len(msgs) + 1)
    <2>1. DOMAIN With(RebuildMessageIndex(msgs), n + 1, Len(msgs) + 1) = Ids(new)
      BY <1>4, <1>7 DEF With
    <2>2. With(RebuildMessageIndex(msgs), n + 1, Len(msgs) + 1)
            = [m \in Ids(new) |-> With(RebuildMessageIndex(msgs), n + 1, Len(msgs) + 1)[m]]
      BY <2>1 DEF With
    <2>3. RebuildMessageIndex(new) = [m \in Ids(new) |-> RebuildMessageIndex(new)[m]]
      BY <1>6
    <2> QED
      BY <1>8, <2>2, <2>3, Zenon
  <1> QED
    BY <1>3, <1>9, SMTT(30) DEF new

\* A nonempty set of natural numbers has a least element.
LEMMA LeastNumber ==
    ASSUME NEW T \in SUBSET Nat, T # {}
    PROVE  \E x \in T : \A y \in T : x <= y
  <1>1. PICK x \in T : \A y \in T : ~ (<<y, x>> \in OpToRel(<, Nat))
    BY WFMin, NatLessThanWellFounded, Zenon
  <1>2. \A y \in T : ~ (y < x)
    BY <1>1, Zenon DEF OpToRel
  <1> QED
    BY <1>2

\* kept.len() grows by one for every message that is kept.
LEMMA KeptGrows ==
    ASSUME messages \in Seq(ChatMessage), NEW c
    PROVE  /\ KeptLen(c, 0) = 0
           /\ \A n \in Nat : KeptLen(c, n) \in Nat
           /\ \A n \in Nat :
                KeptLen(c, n + 1) = IF messages[n + 1].channel_id # c THEN KeptLen(c, n) + 1
                                                                      ELSE KeptLen(c, n)
  <1> DEFINE S(n) == {i \in 1 .. n : messages[i].channel_id # c}
  <1>1. \A n \in Nat : IsFiniteSet(S(n))
    <2> TAKE n \in Nat
    <2>1. IsFiniteSet(1 .. n)
      BY FS_Interval
    <2> QED
      BY <2>1, FS_Subset
  <1>2. S(0) = {}
    OBVIOUS
  <1>3. ASSUME NEW n \in Nat
        PROVE  /\ n + 1 \notin S(n)
               /\ S(n + 1) = IF messages[n + 1].channel_id # c THEN S(n) \cup {n + 1} ELSE S(n)
    OBVIOUS
  <1>4. \A n : KeptLen(c, n) = Cardinality(S(n))
    BY DEF KeptLen
  <1> HIDE DEF S
  <1>5. KeptLen(c, 0) = 0
    BY <1>2, <1>4, FS_EmptySet, Zenon
  <1>6. \A n \in Nat : KeptLen(c, n) \in Nat
    BY <1>1, <1>4, FS_CardinalityType
  <1>7. ASSUME NEW n \in Nat
        PROVE  KeptLen(c, n + 1) = IF messages[n + 1].channel_id # c THEN KeptLen(c, n) + 1
                                                                     ELSE KeptLen(c, n)
    <2>1. Cardinality(S(n) \cup {n + 1}) = Cardinality(S(n)) + 1
      BY <1>1, <1>3, FS_AddElement, Zenon
    <2> QED
      BY <1>3, <1>4, <2>1, Zenon
  <1> QED
    BY <1>5, <1>6, <1>7

\* Every place up to the last has its message.
LEMMA KeptAt ==
    ASSUME messages \in Seq(ChatMessage), NEW c, NEW k \in 1 .. KeptLen(c, Len(messages))
    PROVE  \E i \in DOMAIN messages : messages[i].channel_id # c /\ KeptLen(c, i) = k
  <1> DEFINE T == {j \in 0 .. Len(messages) : KeptLen(c, j) >= k}
  <1>0. \A n \in Nat : KeptLen(c, n) \in Nat
    BY KeptGrows, Zenon
  <1>1. Len(messages) \in Nat /\ DOMAIN messages = 1 .. Len(messages)
    OBVIOUS
  <1>2. KeptLen(c, Len(messages)) \in Nat /\ k \in Nat \ {0} /\ k <= KeptLen(c, Len(messages))
    BY <1>0, <1>1
  <1>3. Len(messages) \in T /\ T \in SUBSET Nat
    BY <1>1, <1>2
  <1>4. PICK j \in T : \A i \in T : j <= i
    BY <1>3, LeastNumber, Zenon
  <1>5. j # 0
    BY <1>2, KeptGrows
  <1>6. j - 1 \in Nat /\ j - 1 \in 0 .. Len(messages) /\ j \in DOMAIN messages
    BY <1>1, <1>5
  <1>7. j - 1 \notin T
    BY <1>4, <1>6
  <1>8. KeptLen(c, j - 1) \in Nat /\ KeptLen(c, j - 1) < k /\ KeptLen(c, j) >= k
    BY <1>0, <1>2, <1>6, <1>7, SMTT(30)
  <1>9. KeptLen(c, j) = IF messages[j].channel_id # c THEN KeptLen(c, j - 1) + 1
                                                      ELSE KeptLen(c, j - 1)
    <2>1. (j - 1) + 1 = j
      BY <1>6
    <2> QED
      BY <1>6, <2>1, KeptGrows, Zenon
  <1> QED
    BY <1>2, <1>6, <1>8, <1>9

\* Deleting a channel leaves messages that were there, each in one place.
LEMMA ElsewhereKeeps ==
    ASSUME messages \in Seq(ChatMessage), NEW n, Numbered(messages, n), NEW c
    PROVE  /\ Elsewhere(c) \in Seq(ChatMessage)
           /\ Numbered(Elsewhere(c), n)
           /\ \A k \in DOMAIN Elsewhere(c) : \E i \in DOMAIN messages : Elsewhere(c)[k] = messages[i]
  <1> DEFINE place(k) == CHOOSE i \in DOMAIN messages :
                           messages[i].channel_id # c /\ KeptLen(c, i) = k
             last == KeptLen(c, Len(messages))
  <1>1. last \in Nat
    <2>1. Len(messages) \in Nat
      OBVIOUS
    <2> QED
      BY <2>1, KeptGrows, Zenon
  <1>2. \A k \in 1 .. last : place(k) \in DOMAIN messages /\ KeptLen(c, place(k)) = k
    <2> TAKE k \in 1 .. last
    <2>1. \E i \in DOMAIN messages : messages[i].channel_id # c /\ KeptLen(c, i) = k
      BY KeptAt
    <2> QED
      BY <2>1, Zenon
  <1>3. Elsewhere(c) = [k \in 1 .. last |-> messages[place(k)]]
    BY Zenon DEF Elsewhere
  <1> HIDE DEF place, last
  <1>4. \A k \in 1 .. last : messages[place(k)] \in ChatMessage
    BY <1>2
  <1>5. Elsewhere(c) \in Seq(ChatMessage) /\ DOMAIN Elsewhere(c) = 1 .. last
    BY <1>1, <1>3, <1>4, SMTT(30)
  <1>6. \A k \in 1 .. last : Elsewhere(c)[k] = messages[place(k)]
    BY <1>3, SMTT(30)
  <1>7. Numbered(Elsewhere(c), n)
    <2>1. \A k \in 1 .. last : Elsewhere(c)[k].id <= n
      BY <1>2, <1>6 DEF Numbered
    <2>2. ASSUME NEW k \in 1 .. last, NEW l \in 1 .. last, Elsewhere(c)[k].id = Elsewhere(c)[l].id
          PROVE  k = l
      <3>1. place(k) = place(l)
        BY <1>2, <1>6, <2>2, SMTT(30) DEF Numbered
      <3> QED
        BY <1>2, <3>1, SMTT(30)
    <2> QED
      BY <1>5, <2>1, <2>2, SMTT(30) DEF Numbered
  <1> QED
    BY <1>2, <1>5, <1>6, <1>7

-----------------------------------------------------------------------------
(* The messages and their index, in every state.                           *)

ContentInvariant ==
    /\ messages \in Seq(ChatMessage)
    /\ delivered \in Nat
    /\ Numbered(messages, delivered)
    /\ IndexIsExact
    /\ WordsAreTheAuthors

\* Whatever became of the index, apply_incremental works with an exact one.
LEMMA CurrentIsExact ==
    ASSUME ContentInvariant
    PROVE  CurrentIndex = RebuildMessageIndex(messages)
  <1>1. CASE message_index = RebuildMessageIndex(messages)
    BY <1>1 DEF CurrentIndex
  <1>2. CASE message_index = [m \in {} |-> 0] /\ messages # <<>>
    <2>1. Cardinality(DOMAIN message_index) = 0
      BY <1>2, FS_EmptySet
    <2>2. Len(messages) # 0
      BY <1>2 DEF ContentInvariant
    <2> QED
      BY <1>2, <2>1, <2>2, SMTT(30) DEF CurrentIndex
  <1>3. CASE message_index = [m \in {} |-> 0] /\ messages = <<>>
    <2>1. Ids(messages) = {}
      BY <1>3 DEF Ids
    <2>2. RebuildMessageIndex(messages) = [m \in {} |-> 0]
      <3>1. RebuildMessageIndex(messages) \in [Ids(messages) -> DOMAIN messages]
        BY RebuiltIndex, SMTT(30) DEF ContentInvariant
      <3> QED
        BY <2>1, <3>1, SMTT(30)
    <2> QED
      BY <1>3, <2>2, SMTT(30) DEF CurrentIndex
  <1> QED
    BY <1>1, <1>2, <1>3 DEF ContentInvariant, IndexIsExact

\* An event that finds its message leaves the ids where they are.
LEMMA UpdateStep ==
    ASSUME ContentInvariant, NEW m \in DOMAIN CurrentIndex, NEW msg \in ChatMessage,
           msg.id = messages[CurrentIndex[m]].id,
           msg.body \in {msg.author, DeletedBody},
           Update(m, msg), delivered' = delivered + 1
    PROVE  ContentInvariant'
  <1> DEFINE i == CurrentIndex[m]
  <1>1. i \in DOMAIN messages
    <2>1. RebuildMessageIndex(messages) \in [Ids(messages) -> DOMAIN messages]
      BY RebuiltIndex DEF ContentInvariant
    <2> QED
      BY <2>1, CurrentIsExact, SMTT(30)
  <1>2. messages' = [messages EXCEPT ![i] = msg] /\ message_index' = CurrentIndex
    BY DEF Update
  <1> HIDE DEF i
  <1>3. messages \in Seq(ChatMessage) /\ delivered \in Nat
    BY DEF ContentInvariant
  <1>4. messages' \in Seq(ChatMessage) /\ Len(messages') = Len(messages)
    BY <1>1, <1>2, <1>3, SMTT(30)
  <1>5. \A j \in DOMAIN messages : messages'[j] = IF j = i THEN msg ELSE messages[j]
    BY <1>1, <1>2, <1>3, SMTT(30)
  <1>6. DOMAIN messages' = DOMAIN messages
    BY <1>3, <1>4, SMTT(30)
  <1>7. \A j \in DOMAIN messages : messages'[j].id = messages[j].id
    BY <1>5, SMTT(30) DEF i
  <1>8. Numbered(messages', delivered) /\ RebuildMessageIndex(messages') = RebuildMessageIndex(messages)
    BY <1>3, <1>4, <1>7, SameIndex, SMTT(30) DEF ContentInvariant
  <1>9. Numbered(messages', delivered')
    BY <1>3, <1>4, <1>8, NumberedLater
  <1>10. IndexIsExact'
    BY <1>2, <1>8, CurrentIsExact, SMTT(30) DEF IndexIsExact
  <1>11. WordsAreTheAuthors'
    BY <1>5, <1>6, SMTT(30) DEF ContentInvariant, WordsAreTheAuthors
  <1> QED
    BY <1>3, <1>4, <1>9, <1>10, <1>11, SMTT(30) DEF ContentInvariant

\* So does an event that changes no message.
LEMMA QuietStep ==
    ASSUME ContentInvariant, UNCHANGED messages,
           message_index' \in {CurrentIndex, message_index, [m \in {} |-> 0]},
           delivered' \in {delivered, delivered + 1}
    PROVE  ContentInvariant'
  <1>1. Numbered(messages', delivered')
    BY NumberedLater DEF ContentInvariant
  <1>2. IndexIsExact'
    BY CurrentIsExact DEF ContentInvariant, IndexIsExact
  <1>3. messages' \in Seq(ChatMessage) /\ delivered' \in Nat
    BY DEF ContentInvariant
  <1>4. WordsAreTheAuthors'
    BY DEF ContentInvariant, WordsAreTheAuthors
  <1> QED
    BY <1>1, <1>2, <1>3, <1>4, SMTT(30) DEF ContentInvariant

\* A message comes to the end.
LEMMA MessageStep ==
    ASSUME ContentInvariant, NEW a \in Peer, NEW c \in Channel, NEW ts, Message(a, c, ts)
    PROVE  ContentInvariant'
  <1> DEFINE msg == NewMessage(a, c)
  <1>1. msg \in ChatMessage /\ msg.id = delivered + 1 /\ msg.body = a /\ msg.author = a
    BY DEF ContentInvariant, NewMessage, ChatMessage
  <1>2. /\ messages' = Append(messages, msg) /\ delivered' = delivered + 1
        /\ message_index' = With(CurrentIndex, delivered + 1, Len(messages) + 1)
    BY DEF Message, Delivered
  <1> HIDE DEF msg
  <1>3. messages \in Seq(ChatMessage) /\ delivered \in Nat /\ Numbered(messages, delivered)
    BY DEF ContentInvariant
  <1>4. messages' \in Seq(ChatMessage) /\ delivered' \in Nat
    BY <1>1, <1>2, <1>3, SMTT(30)
  <1>5. /\ Numbered(messages', delivered')
        /\ RebuildMessageIndex(messages') = message_index'
    BY <1>1, <1>2, <1>3, AppendedIndex, CurrentIsExact, SMTT(30)
  <1>6. WordsAreTheAuthors'
    <2>1. \A i \in DOMAIN messages' :
             messages'[i] = msg \/ (i \in DOMAIN messages /\ messages'[i] = messages[i])
      BY <1>1, <1>2, <1>3, SMTT(30)
    <2> QED
      BY <1>1, <2>1, SMTT(30) DEF ContentInvariant, WordsAreTheAuthors
  <1> QED
    BY <1>4, <1>5, <1>6, SMTT(30) DEF ContentInvariant, IndexIsExact

\* A channel goes with its messages.
LEMMA DeleteChannelStep ==
    ASSUME ContentInvariant, NEW a, NEW c, DeleteChannel(a, c)
    PROVE  ContentInvariant'
  <1>1. /\ messages' = Elsewhere(c) /\ delivered' = delivered + 1
        /\ message_index' = RebuildMessageIndex(Elsewhere(c))
    BY DEF DeleteChannel, Delivered
  <1>2. messages \in Seq(ChatMessage) /\ delivered \in Nat /\ Numbered(messages, delivered)
    BY DEF ContentInvariant
  <1>3. /\ messages' \in Seq(ChatMessage) /\ Numbered(messages', delivered)
        /\ \A k \in DOMAIN messages' : \E i \in DOMAIN messages : messages'[k] = messages[i]
    BY <1>1, <1>2, ElsewhereKeeps, SMTT(30)
  <1>4. Numbered(messages', delivered')
    BY <1>1, <1>2, <1>3, NumberedLater, SMTT(30)
  <1>5. WordsAreTheAuthors'
    BY <1>3 DEF ContentInvariant, WordsAreTheAuthors
  <1>6. IndexIsExact'
    BY <1>1 DEF IndexIsExact
  <1> QED
    BY <1>1, <1>2, <1>3, <1>4, <1>5, <1>6, SMTT(30) DEF ContentInvariant

\* An event on a message leaves it a message of its author, with their words.
LEMMA TargetStep ==
    ASSUME ContentInvariant, NEW a \in Peer, NEW m, NEW e,
           EditMessage(a, m) \/ DeleteMessage(a, m) \/ (e \in Emoji /\ Reaction(a, m, e))
    PROVE  ContentInvariant'
  <1> DEFINE msg == messages[CurrentIndex[m]]
  <1>1. m \in DOMAIN CurrentIndex /\ delivered' = delivered + 1
    BY SMTT(30) DEF EditMessage, DeleteMessage, Reaction, Delivered
  <1>2. msg \in ChatMessage /\ msg.body \in {msg.author, DeletedBody}
    <2>1. RebuildMessageIndex(messages) \in [Ids(messages) -> DOMAIN messages]
      BY RebuiltIndex DEF ContentInvariant
    <2>2. CurrentIndex[m] \in DOMAIN messages
      BY <1>1, <2>1, CurrentIsExact
    <2> QED
      BY <2>2, SMTT(30) DEF ContentInvariant, WordsAreTheAuthors
  <1>3. CASE EditMessage(a, m)
    <2> DEFINE new == [msg EXCEPT !.body = a]
    <2>1. msg.author = a /\ Update(m, new)
      BY <1>3 DEF EditMessage
    <2>2. new \in ChatMessage /\ new.id = msg.id /\ new.author = msg.author /\ new.body = a
      BY <1>2 DEF ChatMessage
    <2> QED
      BY <1>1, <2>1, <2>2, UpdateStep, Zenon
  <1>4. CASE DeleteMessage(a, m)
    <2> DEFINE new == [msg EXCEPT !.deleted = TRUE, !.body = DeletedBody,
                                  !.reactions = [x \in Emoji |-> {}]]
    <2>1. Update(m, new)
      BY <1>4 DEF DeleteMessage
    <2>2. new \in ChatMessage /\ new.id = msg.id /\ new.body = DeletedBody
      BY <1>2, Zenon DEF ChatMessage
    <2> QED
      BY <1>1, <2>1, <2>2, UpdateStep, Zenon
  <1>5. CASE e \in Emoji /\ Reaction(a, m, e)
    <2> DEFINE new == [msg EXCEPT !.reactions[e] = @ \cup {a}]
    <2>1. Update(m, new)
      BY <1>5 DEF Reaction
    <2>2. new \in ChatMessage /\ new.id = msg.id /\ new.body = msg.body /\ new.author = msg.author
      BY <1>2, <1>5 DEF ChatMessage
    <2> QED
      BY <1>1, <1>2, <2>1, <2>2, UpdateStep, Zenon
  <1> QED
    BY <1>3, <1>4, <1>5, SMTT(30)

LEMMA ContentInvariantHolds == ContentSpec => []ContentInvariant
  <1>1. ContentInit => ContentInvariant
    <2> SUFFICES ASSUME ContentInit PROVE ContentInvariant
      OBVIOUS
    <2>1. messages = <<>> /\ message_index = [m \in {} |-> 0] /\ delivered = 0
      BY DEF ContentInit
    <2> QED
      BY <2>1 DEF ContentInvariant, Numbered, IndexIsExact, WordsAreTheAuthors
  <1>2. ContentInvariant /\ [ContentNext]_allVars => ContentInvariant'
    <2> SUFFICES ASSUME ContentInvariant, [ContentNext]_allVars PROVE ContentInvariant'
      OBVIOUS
    <2>1. CASE UNCHANGED allVars
      BY <2>1, QuietStep DEF allVars, contentVars
    <2>2. CASE Govern
      BY <2>2, QuietStep, SMTT(30) DEF Govern, Delivered
    <2>3. ASSUME NEW a \in Peer, NEW c \in Channel, CreateChannel(a, c) PROVE ContentInvariant'
      BY <2>3, QuietStep DEF CreateChannel, Delivered
    <2>4. ASSUME NEW a \in Peer, NEW c \in Channel, NEW m,
                 PinMessage(a, c, m) \/ UnpinMessage(a, c, m)
          PROVE  ContentInvariant'
      BY <2>4, QuietStep DEF PinMessage, UnpinMessage, Delivered
    <2>5. ASSUME NEW a \in Peer, NEW c \in Channel, NEW ts, ChannelRevive(a, c, ts)
          PROVE  ContentInvariant'
      BY <2>5, QuietStep, SMTT(30) DEF ChannelRevive, Delivered
    <2>6. ASSUME NEW a \in Peer, NEW name, SetProfile(a, name) \/ UpdateProfile(a)
          PROVE  ContentInvariant'
      BY <2>6, QuietStep, SMTT(30) DEF SetProfile, UpdateProfile, Delivered
    <2>7. CASE OtherEvent \/ Reload
      BY <2>7, QuietStep DEF OtherEvent, Reload, Delivered
    <2> QED
      BY <2>1, <2>2, <2>3, <2>4, <2>5, <2>6, <2>7, MessageStep, DeleteChannelStep, TargetStep,
         Zenon DEF ContentNext
  <1> QED
    BY <1>1, <1>2, PTL DEF ContentSpec

\* The message index is exact, or empty after the state was read back.
THEOREM IndexStaysExact == ContentSpec => []IndexIsExact
  <1>1. ContentInvariant => IndexIsExact
    BY DEF ContentInvariant
  <1> QED
    BY <1>1, ContentInvariantHolds, PTL

\* The body of a message is its author's, or the mark of its deletion.
THEOREM WordsStayTheAuthors == ContentSpec => []WordsAreTheAuthors
  <1>1. ContentInvariant => WordsAreTheAuthors
    BY DEF ContentInvariant
  <1> QED
    BY <1>1, ContentInvariantHolds, PTL

-----------------------------------------------------------------------------
(* What a peer outside the server can change.                              *)

\* The tables are functions of what they say they are.
TablesFit ==
    /\ channels = [c \in DOMAIN channels |-> channels[c]]
    /\ \A c \in DOMAIN channels :
          channels[c] = [pinned_messages |-> channels[c].pinned_messages,
                         last_activity_hlc |-> channels[c].last_activity_hlc]
    /\ profiles \in [Peer -> Name \cup {None, Unnamed}]

\* Whoever may do something that needs a permission is a member.
LEMMA PermittedIsMember ==
    ASSUME AuthorityIsMembership, NEW a \in Peer, NEW perm, HasPermission(a, perm)
    PROVE  a \in members
  BY DEF AuthorityIsMembership, HasPermission, HasExplicitPermission

\* Messages that were there before say nothing new.
LEMMA OldMessages ==
    ASSUME NEW p, \A i \in DOMAIN messages' : \E j \in DOMAIN messages : messages'[i] = messages[j]
    PROVE  MessagesKept(p)
  BY Zenon DEF MessagesKept

LEMMA OldChannels ==
    ASSUME NEW p, UNCHANGED channels
    PROVE  PinsKept(p)
  BY SMTT(30) DEF PinsKept

\* An event on a message tells of the author of the event only.
LEMMA UpdatedMessages ==
    ASSUME ContentInvariant, NEW p, NEW m \in DOMAIN CurrentIndex, NEW new,
           messages' = [messages EXCEPT ![CurrentIndex[m]] = new],
           new.id = messages[CurrentIndex[m]].id,
           new.author = p => /\ messages[CurrentIndex[m]].body = new.body
                             /\ messages[CurrentIndex[m]].deleted = new.deleted,
           \A e \in Emoji : p \in new.reactions[e] => p \in messages[CurrentIndex[m]].reactions[e]
    PROVE  MessagesKept(p)
  <1> DEFINE i == CurrentIndex[m]
  <1>1. DOMAIN messages' = DOMAIN messages
    OBVIOUS
  <1>2. \A j \in DOMAIN messages : messages'[j] = IF j = i THEN new ELSE messages[j]
    BY SMTT(30) DEF ContentInvariant
  <1>3. ASSUME NEW j \in DOMAIN messages
        PROVE  /\ messages[j].id = messages'[j].id
               /\ messages'[j].author = p => /\ messages[j].body = messages'[j].body
                                             /\ messages[j].deleted = messages'[j].deleted
               /\ \A e \in Emoji : p \in messages'[j].reactions[e] => p \in messages[j].reactions[e]
    <2>1. CASE j = i
      BY <1>2, <2>1, SMTT(30)
    <2>2. CASE j # i
      BY <1>2, <2>2, SMTT(30)
    <2> QED
      BY <2>1, <2>2, SMTT(30)
  <1> QED
    BY <1>1, <1>3, SMTT(30) DEF MessagesKept

\* Edits, deletions and reactions.
LEMMA TargetSilent ==
    ASSUME ContentInvariant, AuthorityIsMembership, NEW p \in Peer \ members,
           NEW a \in Peer, NEW m, NEW e,
           EditMessage(a, m) \/ DeleteMessage(a, m) \/ (e \in Emoji /\ Reaction(a, m, e))
    PROVE  ProfileKept(p) /\ MessagesKept(p) /\ PinsKept(p)
  <1> DEFINE msg == messages[CurrentIndex[m]]
  <1>1. /\ m \in DOMAIN CurrentIndex /\ a # p
        /\ UNCHANGED <<channels, profiles>>
    BY PermittedIsMember, SMTT(30) DEF EditMessage, DeleteMessage, Reaction, Update
  <1>2. msg \in ChatMessage
    <2>1. RebuildMessageIndex(messages) \in [Ids(messages) -> DOMAIN messages]
      BY RebuiltIndex DEF ContentInvariant
    <2>2. CurrentIndex[m] \in DOMAIN messages
      BY <1>1, <2>1, CurrentIsExact, SMTT(30)
    <2> QED
      BY <2>2, SMTT(30) DEF ContentInvariant
  <1>3. MessagesKept(p)
    <2>1. CASE EditMessage(a, m)
      <3> DEFINE new == [msg EXCEPT !.body = a]
      <3>1. msg.author = a /\ messages' = [messages EXCEPT ![CurrentIndex[m]] = new]
        BY <2>1 DEF EditMessage, Update
      <3>2. new.id = msg.id /\ new.author = msg.author /\ new.reactions = msg.reactions
        BY <1>2 DEF ChatMessage
      <3> HIDE DEF new
      <3> QED
        BY <1>1, <3>1, <3>2, UpdatedMessages, Zenon
    <2>2. CASE DeleteMessage(a, m)
      <3> DEFINE new == [msg EXCEPT !.deleted = TRUE, !.body = DeletedBody,
                                    !.reactions = [x \in Emoji |-> {}]]
      <3>1. msg.author = a /\ messages' = [messages EXCEPT ![CurrentIndex[m]] = new]
        BY <2>2 DEF DeleteMessage, Update
      <3>2. /\ new.id = msg.id /\ new.author = msg.author
            /\ \A x \in Emoji : new.reactions[x] = {}
        BY <1>2 DEF ChatMessage
      <3> HIDE DEF new
      <3> QED
        BY <1>1, <3>1, <3>2, UpdatedMessages, Zenon
    <2>3. CASE e \in Emoji /\ Reaction(a, m, e)
      <3> DEFINE new == [msg EXCEPT !.reactions[e] = @ \cup {a}]
      <3>1. messages' = [messages EXCEPT ![CurrentIndex[m]] = new]
        BY <2>3 DEF Reaction, Update
      <3>2. /\ new.id = msg.id /\ new.body = msg.body /\ new.deleted = msg.deleted
            /\ \A x \in Emoji : new.reactions[x] \subseteq msg.reactions[x] \cup {a}
        BY <1>2, <2>3, SMTT(30) DEF ChatMessage
      <3> HIDE DEF new
      <3>3. \A x \in Emoji : p \in new.reactions[x] => p \in msg.reactions[x]
        BY <1>1, <3>2
      <3> QED
        BY <1>1, <3>1, <3>2, <3>3, UpdatedMessages, Zenon
    <2> QED
      BY <2>1, <2>2, <2>3, SMTT(30)
  <1> QED
    BY <1>1, <1>3, OldChannels, SMTT(30) DEF ProfileKept

\* New messages.
LEMMA MessageSilent ==
    ASSUME ContentInvariant, TablesFit, AuthorityIsMembership, NEW p \in Peer \ members,
           NEW a \in Peer, NEW c \in Channel, NEW ts, Message(a, c, ts)
    PROVE  ProfileKept(p) /\ MessagesKept(p) /\ PinsKept(p)
  <1> DEFINE msg == NewMessage(a, c)
  <1>1. /\ a # p /\ UNCHANGED profiles
        /\ messages' = Append(messages, msg) /\ channels' = Touched(c, ts)
    BY PermittedIsMember, SMTT(30) DEF Message
  <1>2. msg.id = delivered + 1 /\ msg.author = a
    BY DEF NewMessage
  <1> HIDE DEF msg
  <1>3. messages \in Seq(ChatMessage) /\ delivered \in Nat /\ Numbered(messages, delivered)
    BY DEF ContentInvariant
  <1>4. msg.id \notin Ids(messages)
    <2>1. \A i \in DOMAIN messages : messages[i] \in ChatMessage
      BY <1>3
    <2>2. \A x \in ChatMessage : x.id \in Nat
      BY DEF ChatMessage
    <2>3. \A i \in DOMAIN messages : messages[i].id # delivered + 1
      BY <1>3, <2>1, <2>2, SMTT(30) DEF Numbered
    <2> QED
      BY <1>2, <2>3 DEF Ids
  <1>5. \A i \in DOMAIN messages' :
           messages'[i] = msg \/ (i \in DOMAIN messages /\ messages'[i] = messages[i])
    <2>1. DOMAIN messages' = 1 .. Len(messages) + 1 /\ DOMAIN messages = 1 .. Len(messages)
      BY <1>1, <1>3, SMTT(30)
    <2> QED
      BY <1>1, <1>3, <2>1, SMTT(30)
  <1>6. MessagesKept(p)
    BY <1>1, <1>2, <1>4, <1>5, SMTT(30) DEF MessagesKept
  <1>7. PinsKept(p)
    <2>1. DOMAIN channels' = DOMAIN channels
      BY <1>1 DEF Touched
    <2>2. \A d \in DOMAIN channels : channels'[d].pinned_messages = channels[d].pinned_messages
      BY <1>1, SMTT(30) DEF Touched, TablesFit
    <2> QED
      BY <2>1, <2>2 DEF PinsKept
  <1> QED
    BY <1>1, <1>6, <1>7, SMTT(30) DEF ProfileKept

\* Channels and pins.
LEMMA ChannelsSilent ==
    ASSUME ContentInvariant, TablesFit, NEW p \in Peer \ members, NEW a \in Peer,
           NEW c \in Channel, NEW m, NEW ts,
           \/ CreateChannel(a, c) \/ DeleteChannel(a, c) \/ ChannelRevive(a, c, ts)
           \/ PinMessage(a, c, m) \/ UnpinMessage(a, c, m)
    PROVE  ProfileKept(p) /\ MessagesKept(p) /\ PinsKept(p)
  <1>1. ProfileKept(p)
    BY DEF CreateChannel, DeleteChannel, ChannelRevive, PinMessage, UnpinMessage, ProfileKept
  <1>2. MessagesKept(p)
    <2>1. CASE DeleteChannel(a, c)
      <3>1. messages' = Elsewhere(c)
        BY <2>1, SMTT(30) DEF DeleteChannel
      <3>2. \A k \in DOMAIN Elsewhere(c) : \E i \in DOMAIN messages : Elsewhere(c)[k] = messages[i]
        BY ElsewhereKeeps, SMTT(30) DEF ContentInvariant
      <3> QED
        BY <3>1, <3>2, OldMessages, SMTT(30)
    <2>2. CASE ~ DeleteChannel(a, c)
      <3>1. UNCHANGED messages
        BY <2>2, SMTT(30) DEF CreateChannel, ChannelRevive, PinMessage, UnpinMessage
      <3> QED
        BY <3>1, OldMessages, SMTT(30)
    <2> QED
      BY <2>1, <2>2, SMTT(30)
  <1>3. PinsKept(p)
    <2>1. CASE CreateChannel(a, c)
      <3> DEFINE new == [pinned_messages |-> [x \in {} |-> a], last_activity_hlc |-> NoActivity]
      <3>1. channels' = With(channels, c, new) /\ c \notin DOMAIN channels
        BY <2>1, Zenon DEF CreateChannel
      <3>2. DOMAIN new.pinned_messages = {}
        OBVIOUS
      <3> HIDE DEF new
      <3> QED
        BY <3>1, <3>2, SMTT(30) DEF With, PinsKept
    <2>2. CASE DeleteChannel(a, c)
      <3>1. channels' = Without(channels, c)
        BY <2>2, SMTT(30) DEF DeleteChannel
      <3> QED
        BY <3>1 DEF Without, PinsKept
    <2>3. CASE ChannelRevive(a, c, ts)
      <3>1. DOMAIN channels' = DOMAIN channels
        BY <2>3 DEF ChannelRevive, Touched
      <3>2. \A d \in DOMAIN channels : channels'[d].pinned_messages = channels[d].pinned_messages
        BY <2>3, SMTT(30) DEF ChannelRevive, Touched, TablesFit
      <3> QED
        BY <3>1, <3>2 DEF PinsKept
    <2>4. CASE PinMessage(a, c, m)
      <3>1. a # p /\ c \in DOMAIN channels /\ DOMAIN channels' = DOMAIN channels
        BY <2>4 DEF PinMessage
      <3>2. \A d \in DOMAIN channels \ {c} : channels'[d] = channels[d]
        BY <2>4 DEF PinMessage, TablesFit
      <3>3. channels'[c].pinned_messages = With(channels[c].pinned_messages, m, a)
        BY <2>4, <3>1, SMTT(30) DEF PinMessage, TablesFit
      <3> QED
        BY <3>1, <3>2, <3>3 DEF With, PinsKept
    <2>5. CASE UnpinMessage(a, c, m)
      <3>1. c \in DOMAIN channels /\ DOMAIN channels' = DOMAIN channels
        BY <2>5 DEF UnpinMessage
      <3>2. \A d \in DOMAIN channels \ {c} : channels'[d] = channels[d]
        BY <2>5 DEF UnpinMessage, TablesFit
      <3>3. channels'[c].pinned_messages = Without(channels[c].pinned_messages, m)
        BY <2>5, <3>1, SMTT(30) DEF UnpinMessage, TablesFit
      <3> QED
        BY <3>1, <3>2, <3>3, SMTT(30) DEF Without, PinsKept
    <2> QED
      BY <2>1, <2>2, <2>3, <2>4, <2>5, SMTT(30)
  <1> QED
    BY <1>1, <1>2, <1>3, SMTT(30)

\* Everything else leaves messages and channels alone.
LEMMA OthersSilent ==
    ASSUME TablesFit, NEW p \in Peer \ members,
           \/ UNCHANGED allVars \/ Govern \/ OtherEvent \/ Reload
           \/ \E a \in Peer : UpdateProfile(a) \/ \E name \in Name : SetProfile(a, name)
    PROVE  ProfileKept(p) /\ MessagesKept(p) /\ PinsKept(p)
  <1>1. UNCHANGED <<messages, channels>>
    BY SMTT(30) DEF allVars, contentVars, Govern, OtherEvent, Reload, UpdateProfile, SetProfile
  <1>2. ProfileKept(p)
    BY SMTT(30) DEF allVars, contentVars, Govern, OtherEvent, Reload, UpdateProfile, SetProfile,
           ProfileKept, TablesFit
  <1> QED
    BY <1>1, <1>2, OldMessages, OldChannels, SMTT(30)

\* The tables fit in every state.
LEMMA TablesFitHolds == ContentSpec => []TablesFit
  <1>1. ContentInit => TablesFit
    BY SMTT(30) DEF ContentInit, TablesFit
  <1>2. TablesFit /\ [ContentNext]_allVars => TablesFit'
    <2> SUFFICES ASSUME TablesFit, [ContentNext]_allVars PROVE TablesFit'
      OBVIOUS
    <2>1. ASSUME UNCHANGED <<channels, profiles>> PROVE TablesFit'
      BY <2>1, SMTT(30) DEF TablesFit
    <2>2. ASSUME NEW a \in Peer, NEW c \in Channel, CreateChannel(a, c) \/ DeleteChannel(a, c)
          PROVE  TablesFit'
      BY <2>2 DEF CreateChannel, DeleteChannel, With, Without, TablesFit
    <2>3. ASSUME NEW c, NEW ts, channels' = Touched(c, ts), UNCHANGED profiles PROVE TablesFit'
      BY <2>3 DEF Touched, TablesFit
    <2>4. ASSUME NEW a \in Peer, NEW c \in Channel, NEW m,
                 PinMessage(a, c, m) \/ UnpinMessage(a, c, m)
          PROVE  TablesFit'
      <3>1. PICK pins : channels' = [channels EXCEPT ![c].pinned_messages = pins]
        BY <2>4 DEF PinMessage, UnpinMessage
      <3>2. c \in DOMAIN channels /\ UNCHANGED profiles
        BY <2>4 DEF PinMessage, UnpinMessage
      <3> QED
        BY <3>1, <3>2, ZenonT(30) DEF TablesFit
    <2>5. ASSUME NEW a \in Peer, UpdateProfile(a) \/ \E name \in Name : SetProfile(a, name)
          PROVE  TablesFit'
      BY <2>5 DEF UpdateProfile, SetProfile, TablesFit
    <2>6. ASSUME NEW a \in Peer, NEW c \in Channel, NEW ts,
                 ChannelRevive(a, c, ts) \/ Message(a, c, ts)
          PROVE  TablesFit'
      BY <2>3, <2>6 DEF ChannelRevive, Message
    <2>7. ASSUME NEW a \in Peer, NEW m, NEW e,
                 EditMessage(a, m) \/ DeleteMessage(a, m) \/ Reaction(a, m, e)
          PROVE  TablesFit'
      BY <2>1, <2>7 DEF EditMessage, DeleteMessage, Reaction, Update
    <2>8. ASSUME UNCHANGED allVars \/ Govern \/ OtherEvent \/ Reload PROVE TablesFit'
      BY <2>1, <2>8 DEF allVars, contentVars, Govern, OtherEvent, Reload
    <2> QED
      BY <2>2, <2>4, <2>5, <2>6, <2>7, <2>8, SMTT(30) DEF ContentNext
  <1> QED
    BY <1>1, <1>2, PTL DEF ContentSpec

\* A peer outside the member map changes nothing others see.
THEOREM NonMembersStaySilent == ContentSpec => NonMembersAreSilent
  <1>1. ContentInvariant /\ TablesFit /\ AuthorityIsMembership /\ [ContentNext]_allVars
          => [\A p \in Peer \ members :
                  ProfileKept(p) /\ MessagesKept(p) /\ PinsKept(p)]_allVars
    <2> SUFFICES ASSUME ContentInvariant, TablesFit, AuthorityIsMembership,
                        [ContentNext]_allVars, NEW p \in Peer \ members
                 PROVE  ProfileKept(p) /\ MessagesKept(p) /\ PinsKept(p)
      OBVIOUS
    <2> QED
      BY TargetSilent, MessageSilent, ChannelsSilent, OthersSilent, ZenonT(30) DEF ContentNext
  <1> QED
    BY <1>1, ContentInvariantHolds, TablesFitHolds, ContentAuthority, PTL
       DEF NonMembersAreSilent, ContentSpec
=============================================================================
