----------------------------- MODULE Governance -----------------------------
(***************************************************************************)
(* Who may do what in one server: the governance, membership, permission   *)
(* and role part of ServerState (crates/state/src/server.rs) and the       *)
(* events that change it (crates/state/src/materialize.rs).                *)
(*                                                                         *)
(* Every action is apply_event on one event that passes check_permission;  *)
(* an event that fails it is rejected and changes nothing here.            *)
(*                                                                         *)
(* Applying a proposal may re-evaluate all the others, and applying one of *)
(* those may re-evaluate again: reevaluate_all_proposals and               *)
(* apply_proposed_action are mutually recursive.  The recursion is made    *)
(* explicit: `stack' holds, innermost last, what is left of the `passing'  *)
(* list of each activation of reevaluate_all_proposals.  No event is       *)
(* applied while the stack is not empty, so what is true whenever it is    *)
(* empty is what a caller of apply_event can see.                          *)
(***************************************************************************)
EXTENDS Integers, FiniteSets, Sequences

CONSTANTS
    Peer,           \* endpoint ids
    Owner,          \* genesis_author, author of CreateServer
    Permission,     \* Permission variants
    Role,           \* role ids
    Hash,           \* names of pending proposals, ordered as event hashes are
    VoteCount       \* the n of VoteThreshold::Count(n)

ASSUME PeerAssumption == IsFiniteSet(Peer) /\ Owner \in Peer
ASSUME HashAssumption == Hash \subseteq Nat
ASSUME CountAssumption == VoteCount \subseteq Nat

VARIABLES
    admins,             \* ServerState.admins
    members,            \* the peers with an entry in ServerState.members
    memberRoles,        \* Member.roles
    peer_permissions,   \* ServerState.peer_permissions; no entry is the empty set
    roles,              \* the role ids with an entry in ServerState.roles
    rolePermissions,    \* Role.permissions
    vote_threshold,     \* ServerState.vote_threshold
    pending_proposals,  \* ServerState.pending_proposals
    stack               \* activations of reevaluate_all_proposals

peopleVars == <<members, memberRoles, peer_permissions>>
roleVars == <<roles, rolePermissions>>
govVars == <<admins, vote_threshold, pending_proposals, stack>>
vars == <<govVars, peopleVars, roleVars>>

VoteThreshold == [kind : {"Majority", "Unanimous"}] \cup [kind : {"Count"}, n : VoteCount]

ProposedAction ==
    [type : {"GrantAdmin", "RevokeAdmin", "KickMember"}, peer : Peer]
        \cup [type : {"SetVoteThreshold"}, threshold : VoteThreshold]

\* Of the votes map only the accepting voters are ever counted: yes.
PendingProposal == [action : ProposedAction, proposer : Peer, yes : SUBSET Peer]

\* The type invariant.
TypeOK ==
    /\ admins \in SUBSET Peer
    /\ members \in SUBSET Peer
    /\ memberRoles \in [Peer -> SUBSET Role]
    /\ peer_permissions \in [Peer -> SUBSET Permission]
    /\ roles \in SUBSET Role
    /\ rolePermissions \in [Role -> SUBSET Permission]
    /\ vote_threshold \in VoteThreshold
    /\ DOMAIN pending_proposals \in SUBSET Hash
    /\ pending_proposals \in [DOMAIN pending_proposals -> PendingProposal]
    /\ stack \in Seq(SUBSET Hash)

Init ==
    /\ admins = {Owner}
    /\ members = {Owner}
    /\ memberRoles = [p \in Peer |-> {}]
    /\ peer_permissions = [p \in Peer |-> {}]
    /\ roles = {}
    /\ rolePermissions = [r \in Role |-> {}]
    /\ vote_threshold = [kind |-> "Majority"]
    /\ pending_proposals = [h \in {} |-> {}]
    /\ stack = <<>>

-----------------------------------------------------------------------------
(* Thresholds and votes.                                                   *)

\* ServerState::meets_threshold for an admin set and a threshold.
MeetsThreshold(adm, threshold, yes) ==
    LET n == Cardinality(adm) IN
    /\ n # 0
    /\ \/ threshold.kind = "Majority" /\ yes > n \div 2
       \/ threshold.kind = "Unanimous" /\ yes >= n
       \/ threshold.kind = "Count" /\ (yes >= threshold.n \/ yes >= n)

Passes(prop, adm, threshold) == MeetsThreshold(adm, threshold, Cardinality(prop.yes))

\* The test of check_and_apply_proposal: the owner needs no votes.
ShouldApply(prop) == prop.proposer = Owner \/ Passes(prop, admins, vote_threshold)

Without(ps, h) == [g \in DOMAIN ps \ {h} |-> ps[g]]

With(ps, h, prop) == [g \in DOMAIN ps \cup {h} |-> IF g = h THEN prop ELSE ps[g]]

\* votes.remove(peer) on every pending proposal.
StripVotes(ps, p) ==
    [h \in DOMAIN ps |-> [ps[h] EXCEPT !.yes = @ \ {p}]]

\* The list reevaluate_all_proposals collects before it applies any of it.
Passing(ps, adm, threshold) == {h \in DOMAIN ps : Passes(ps[h], adm, threshold)}

-----------------------------------------------------------------------------
(* apply_proposed_action: `ps' are the proposals still pending and `st' the *)
(* activations it runs under.                                               *)

GrantAdmin(action, ps, st) ==
    /\ action.type = "GrantAdmin"
    /\ admins' = admins \cup {action.peer}
    /\ members' = members \cup {action.peer}
    /\ pending_proposals' = ps
    /\ stack' = st
    /\ UNCHANGED <<memberRoles, peer_permissions, roleVars, vote_threshold>>

\* The early return that keeps the last admin.
KeepLastAdmin(action, ps, st) ==
    /\ action.type \in {"RevokeAdmin", "KickMember"}
    /\ admins = {action.peer}
    /\ pending_proposals' = ps
    /\ stack' = st
    /\ UNCHANGED <<admins, vote_threshold, peopleVars, roleVars>>

\* Mutant of Cleanup: the votes of the peer stay.
CleanupKeepingVotes(p, ps, st) ==
    /\ pending_proposals' = ps
    /\ stack' = Append(st, Passing(ps, admins \ {p}, vote_threshold))

\* cleanup_votes_and_reevaluate, with the shrunken admin set.
Cleanup(p, ps, st) ==
    /\ pending_proposals' = StripVotes(ps, p)
    /\ stack' = Append(st, Passing(StripVotes(ps, p), admins \ {p}, vote_threshold))

RevokeAdmin(action, ps, st) ==
    /\ action.type = "RevokeAdmin"
    /\ admins # {action.peer}
    /\ admins' = admins \ {action.peer}
    /\ Cleanup(action.peer, ps, st)
    /\ UNCHANGED <<vote_threshold, peopleVars, roleVars>>

\* Mutant of KickMember: the last admin is kicked as well.
KickMemberUnguarded(action, ps, st) ==
    /\ action.type = "KickMember"
    /\ members' = members \ {action.peer}
    /\ memberRoles' = [memberRoles EXCEPT ![action.peer] = {}]
    /\ peer_permissions' = [peer_permissions EXCEPT ![action.peer] = {}]
    /\ admins' = admins \ {action.peer}
    /\ Cleanup(action.peer, ps, st)
    /\ UNCHANGED <<vote_threshold, roleVars>>

\* Mutant of KickMember: explicit permissions stay.
KickMemberKeepingGrants(action, ps, st) ==
    /\ action.type = "KickMember"
    /\ admins # {action.peer}
    /\ members' = members \ {action.peer}
    /\ memberRoles' = [memberRoles EXCEPT ![action.peer] = {}]
    /\ admins' = admins \ {action.peer}
    /\ Cleanup(action.peer, ps, st)
    /\ UNCHANGED <<peer_permissions, vote_threshold, roleVars>>

KickMember(action, ps, st) ==
    /\ action.type = "KickMember"
    /\ admins # {action.peer}
    /\ members' = members \ {action.peer}
    /\ memberRoles' = [memberRoles EXCEPT ![action.peer] = {}]
    /\ peer_permissions' = [peer_permissions EXCEPT ![action.peer] = {}]
    /\ admins' = admins \ {action.peer}
    /\ Cleanup(action.peer, ps, st)
    /\ UNCHANGED <<vote_threshold, roleVars>>

\* Mutant of SetVoteThreshold: nothing is evaluated again.
SetVoteThresholdOnly(action, ps, st) ==
    /\ action.type = "SetVoteThreshold"
    /\ vote_threshold' = action.threshold
    /\ pending_proposals' = ps
    /\ stack' = st
    /\ UNCHANGED <<admins, peopleVars, roleVars>>

SetVoteThreshold(action, ps, st) ==
    /\ action.type = "SetVoteThreshold"
    /\ vote_threshold' = action.threshold
    /\ pending_proposals' = ps
    /\ stack' = Append(st, Passing(ps, admins, action.threshold))
    /\ UNCHANGED <<admins, peopleVars, roleVars>>

ApplyProposedAction(action, ps, st) ==
    \/ GrantAdmin(action, ps, st)
    \/ KeepLastAdmin(action, ps, st)
    \/ RevokeAdmin(action, ps, st)
    \/ KickMember(action, ps, st)
    \/ SetVoteThreshold(action, ps, st)

\* check_and_apply_proposal for the proposal just stored under h.
CheckAndApply(h, prop) ==
    \/ /\ ShouldApply(prop)
       /\ ApplyProposedAction(prop.action, Without(pending_proposals, h), stack)
    \/ /\ ~ShouldApply(prop)
       /\ pending_proposals' = With(pending_proposals, h, prop)
       /\ UNCHANGED <<admins, vote_threshold, stack, peopleVars, roleVars>>

-----------------------------------------------------------------------------
(* Governance events.  An event hash is needed here only as the name of a  *)
(* pending proposal: once the proposal is gone nothing refers to it and    *)
(* the name may be used again, and a proposal that is applied as it is     *)
(* made takes the name NoHash.                                             *)

NoHash == -1

Propose(a, h, action) ==
    LET prop == [action |-> action, proposer |-> a, yes |-> {a}] IN
    /\ stack = <<>>
    /\ a \in admins
    /\ IF ShouldApply(prop) THEN h = NoHash ELSE h \in Hash \ DOMAIN pending_proposals
    /\ CheckAndApply(h, prop)

Recorded(prop, a, accept) ==
    [prop EXCEPT !.yes = IF accept THEN @ \cup {a} ELSE @ \ {a}]

Vote(a, h, accept) ==
    /\ stack = <<>>
    /\ a \in admins
    /\ h \in DOMAIN pending_proposals
    /\ CheckAndApply(h, Recorded(pending_proposals[h], a, accept))

\* Mutant of Reevaluate: the proposal that is applied stays pending.
ReevaluateNotRemoving ==
    /\ stack # <<>>
    /\ LET top == stack[Len(stack)]
           outer == SubSeq(stack, 1, Len(stack) - 1)
       IN  \/ /\ top = {}
              /\ stack' = outer
              /\ UNCHANGED <<admins, vote_threshold, pending_proposals, peopleVars, roleVars>>
           \/ \E h \in top :
                /\ \A g \in top : h <= g
                /\ \/ /\ h \in DOMAIN pending_proposals
                      /\ ApplyProposedAction(pending_proposals[h].action,
                                             pending_proposals,
                                             Append(outer, top \ {h}))
                   \/ /\ h \notin DOMAIN pending_proposals
                      /\ stack' = Append(outer, top \ {h})
                      /\ UNCHANGED <<admins, vote_threshold, pending_proposals,
                                     peopleVars, roleVars>>

\* One turn of the innermost reevaluate_all_proposals loop: the next hash in
\* ascending order, applied if it is still pending, skipped if not.
Reevaluate ==
    /\ stack # <<>>
    /\ LET top == stack[Len(stack)]
           outer == SubSeq(stack, 1, Len(stack) - 1)
       IN  \/ /\ top = {}
              /\ stack' = outer
              /\ UNCHANGED <<admins, vote_threshold, pending_proposals, peopleVars, roleVars>>
           \/ \E h \in top :
                /\ \A g \in top : h <= g
                /\ \/ /\ h \in DOMAIN pending_proposals
                      /\ ApplyProposedAction(pending_proposals[h].action,
                                             Without(pending_proposals, h),
                                             Append(outer, top \ {h}))
                   \/ /\ h \notin DOMAIN pending_proposals
                      /\ stack' = Append(outer, top \ {h})
                      /\ UNCHANGED <<admins, vote_threshold, pending_proposals,
                                     peopleVars, roleVars>>

-----------------------------------------------------------------------------
(* Permission and role events.                                             *)

HasExplicitPermission(p, perm) == perm \in peer_permissions[p]

HasPermission(p, perm) == p \in admins \/ HasExplicitPermission(p, perm)

GrantPermission(a, p, perm) ==
    /\ stack = <<>>
    /\ a \in admins
    /\ peer_permissions' = [peer_permissions EXCEPT ![p] = @ \cup {perm}]
    /\ members' = members \cup {p}
    /\ UNCHANGED <<govVars, memberRoles, roleVars>>

RevokePermission(a, p, perm) ==
    /\ stack = <<>>
    /\ a \in admins
    /\ peer_permissions' = [peer_permissions EXCEPT ![p] = @ \ {perm}]
    /\ UNCHANGED <<govVars, members, memberRoles, roleVars>>

CreateRole(a, r) ==
    /\ stack = <<>>
    /\ HasPermission(a, "ManageRoles")
    /\ r \notin roles
    /\ roles' = roles \cup {r}
    /\ UNCHANGED <<govVars, peopleVars, rolePermissions>>

DeleteRole(a, r) ==
    /\ stack = <<>>
    /\ HasPermission(a, "ManageRoles")
    /\ r \in roles
    /\ roles' = roles \ {r}
    /\ rolePermissions' = [rolePermissions EXCEPT ![r] = {}]
    /\ memberRoles' = [p \in Peer |-> memberRoles[p] \ {r}]
    /\ UNCHANGED <<govVars, members, peer_permissions>>

\* SetPermission { role_id, permission, granted }.
SetPermission(a, r, perm, granted) ==
    /\ stack = <<>>
    /\ HasPermission(a, "ManageRoles")
    /\ r \in roles
    /\ rolePermissions' =
         [rolePermissions EXCEPT ![r] = IF granted THEN @ \cup {perm} ELSE @ \ {perm}]
    /\ UNCHANGED <<govVars, peopleVars, roles>>

AssignRole(a, p, r) ==
    /\ stack = <<>>
    /\ HasPermission(a, "ManageRoles")
    /\ r \in roles
    /\ p \in members
    /\ memberRoles' = [memberRoles EXCEPT ![p] = @ \cup {r}]
    /\ UNCHANGED <<govVars, members, peer_permissions, roleVars>>

-----------------------------------------------------------------------------
Next ==
    \/ \E a \in Peer, h \in Hash \cup {NoHash}, action \in ProposedAction : Propose(a, h, action)
    \/ \E a \in Peer, h \in Hash, accept \in BOOLEAN : Vote(a, h, accept)
    \/ Reevaluate
    \/ \E a, p \in Peer, perm \in Permission : GrantPermission(a, p, perm)
    \/ \E a, p \in Peer, perm \in Permission : RevokePermission(a, p, perm)
    \/ \E a \in Peer, r \in Role : CreateRole(a, r)
    \/ \E a \in Peer, r \in Role : DeleteRole(a, r)
    \/ \E a \in Peer, r \in Role, perm \in Permission, granted \in BOOLEAN :
            SetPermission(a, r, perm, granted)
    \/ \E a, p \in Peer, r \in Role : AssignRole(a, p, r)

Spec == Init /\ [][Next]_vars

-----------------------------------------------------------------------------
(* Properties.                                                             *)

\* The server is never left without an admin ("Prevent 0-admin state"), however
\* revocations and kicks are cascaded.
Governable == admins # {}

\* Whoever has authority is a member: every admin, and every peer holding an
\* explicit permission.  Kicking takes all three away together.
AuthorityIsMembership ==
    /\ admins \subseteq members
    /\ \A p \in Peer : peer_permissions[p] # {} => p \in members

\* A vote that counts was cast by a peer who is still an admin.
VotesAreLive ==
    \A h \in DOMAIN pending_proposals :
        pending_proposals[h].yes \subseteq admins

\* The owner's proposals are applied at once; none is left for others to vote on.
OwnerNeverWaits ==
    \A h \in DOMAIN pending_proposals : pending_proposals[h].proposer # Owner

\* A member holds only roles that exist.
MemberRolesExist == \A p \in Peer : memberRoles[p] \subseteq roles

\* A peer outside the member map holds no role, so being readmitted after a kick
\* brings no role back.
RolesNeedMembership == \A p \in Peer : memberRoles[p] # {} => p \in members

\* Roles are held by members, and only roles that exist, whatever was deleted, kicked
\* and readmitted in between (AssignRole, DeleteRole, KickMember).
RolesFit == MemberRolesExist /\ RolesNeedMembership

\* Every proposal that has met the threshold is in the list of some activation of
\* reevaluate_all_proposals.
RipeIsListed ==
    \A h \in Passing(pending_proposals, admins, vote_threshold) :
        \E i \in 1 .. Len(stack) : h \in stack[i]

\* When apply_event returns, no proposal that meets the current threshold under
\* the current admin set is left pending, whatever cascade it started.
NoRipeProposalLeft ==
    stack = <<>> => Passing(pending_proposals, admins, vote_threshold) = {}

\* A cascade of re-evaluations ends: a step of it takes a proposal off the pending
\* ones, or else leaves them alone, and then the activation that runs, the last of the
\* stack, either returns or has one entry less of its list to go through.
CascadeShrinks ==
    [][stack # <<>> =>
         \/ /\ DOMAIN pending_proposals' \subseteq DOMAIN pending_proposals
            /\ DOMAIN pending_proposals' # DOMAIN pending_proposals
         \/ /\ pending_proposals' = pending_proposals
            /\ LET outer == SubSeq(stack, 1, Len(stack) - 1)
               IN  \/ stack' = outer
                   \/ \E h \in stack[Len(stack)] :
                        stack' = Append(outer, stack[Len(stack)] \ {h})]_vars

\* What the design document says of SetVoteThreshold: it "must pass under the
\* *current* threshold".  A step of a re-evaluation that changes the threshold
\* enacts a proposal which meets the threshold in force before the step.
ThresholdChangePassesCurrent ==
    [][\A h \in DOMAIN pending_proposals \ DOMAIN pending_proposals' :
         vote_threshold' # vote_threshold /\ stack # <<>>
            => Passes(pending_proposals[h], admins, vote_threshold)]_vars
=============================================================================
